-------------------------- MODULE BackOfficeProofs --------------------------
(***************************************************************************)
(* What holds of the back office for any rows, keys, requests and          *)
(* permissions, in every feature: types, unique keys, answers and          *)
(* permissions that are no older than their request, the reasons for which *)
(* Redis may be out of date, and what a request may write.                 *)
(***************************************************************************)
EXTENDS BackOffice, WellFoundedInduction, TLAPS

(***************************************************************************)
(* The scripts. What the rest needs of them is stated once and follows     *)
(* from the definitions of every feature.                                  *)
(***************************************************************************)

StepName ==
    {"fetchPerms", "setPerms", "can", "fetch", "fetchTexts", "set", "show", "findKey",
     "reviveKey", "findParent", "insert", "insertNode", "findOtherKey", "content", "commit",
     "findRow", "retype", "newParent", "endSessions", "load", "write", "setStatus", "children",
     "pick", "softRemove", "pickMany", "removeMany", "pickAny", "list", "count", "order"}
Finals == {"set", "show", "list", "commit", "removeMany", "order"}
Texted == {"brand", "place", "category"}

\* A step a of the endpoint op of the feature f.
Allowed(op, a) ==
    /\ op = "read" => a \in {"fetch", "fetchTexts", "set", "show"}
    /\ op = "create" => a \in {"findKey", "reviveKey", "findParent", "insert", "insertNode",
                               "findOtherKey", "content", "commit"}
    /\ op = "update" => a \in {"findRow", "findOtherKey", "retype", "newParent", "endSessions",
                               "load", "write", "content", "commit"}
    /\ op = "statusUpdate" => a \in {"findRow", "setStatus", "load", "write", "commit"}
    /\ op = "delete" => a \in {"children", "pick", "softRemove", "commit", "pickMany",
                               "removeMany"}
    /\ op = "restore" => a \in {"pickAny", "load", "write", "commit"}
    /\ op = "find" => a = "list"
    /\ op = "orderUpdate" => a \in {"count", "order"}
StepOK(f, op, a) ==
    /\ Allowed(op, a)
    /\ op = "delete" => (a \in {"pickMany", "removeMany"} <=> f \in Logs)
    /\ a \in {"insert", "load", "write"} => f # "category"
    /\ a = "insertNode" => f = "category"
    /\ a = "content" => f \in Texted
    /\ a = "reviveKey" => "restore" \in Routes[f]

\* The step b comes right after the step a.
Follows(op, a, b) ==
    /\ b = "write" => a = "load"
    /\ b = "softRemove" => a = "pick"
    /\ a \in {"insert", "write", "softRemove", "content"} => b \in {"content", "commit"}
    /\ a = "insertNode" => b = "findOtherKey"
    /\ op = "create" /\ b = "findOtherKey" => a = "insertNode"
    /\ op = "create" /\ a = "findOtherKey" => b = "content"
    /\ op = "create" /\ b = "content" => a \in {"insert", "findOtherKey"}

\* The steps t that follow the policy's check.
TailOK(f, op, t) ==
    /\ t \in Seq(StepName) /\ Len(t) \in 1..6
    /\ \A n \in 1..Len(t) : StepOK(f, op, t[n]) /\ (t[n] \in Finals <=> n = Len(t))
    /\ Follows(op, "can", t[1]) /\ \A n \in 1..(Len(t)-1) : Follows(op, t[n], t[n+1])
    /\ op = "update" /\ (\E n \in 1..Len(t) : t[n] = "content") => t[1] = "findRow"
WholeOK(f, op, s) ==
    /\ s \in Seq(StepName) /\ Len(s) \in 4..9
    /\ s[1] = "fetchPerms" /\ s[2] = "setPerms" /\ s[3] = "can"
    /\ \A n \in 4..Len(s) : StepOK(f, op, s[n]) /\ (s[n] \in Finals <=> n = Len(s))
    /\ \A n \in 3..(Len(s)-1) : Follows(op, s[n], s[n+1])
    /\ op = "update" /\ (\E n \in 4..Len(s) : s[n] = "content") => s[4] = "findRow"
ScriptOK(f, op) == WholeOK(f, op, Script(f, op))

LEMMA Prefixed ==
    ASSUME NEW S, NEW t \in Seq(S), NEW x \in S, NEW y \in S, NEW z \in S
    PROVE  LET s == <<x, y>> \o (<<z>> \o t) IN
           /\ s \in Seq(S) /\ Len(s) = Len(t) + 3
           /\ s[1] = x /\ s[2] = y /\ s[3] = z
           /\ \A n \in 4..(Len(t)+3) : s[n] = t[n-3]
<1> DEFINE s == <<x, y>> \o (<<z>> \o t)
<1>1. s \in Seq(S) /\ Len(s) = Len(t) + 3 /\ s[1] = x /\ s[2] = y /\ s[3] = z
  OBVIOUS
<1>2. \A n \in 4..(Len(t)+3) : s[n] = t[n-3]
  OBVIOUS
<1> QED
  BY <1>1, <1>2

LEMMA Shifted ==
    ASSUME NEW f, NEW op, NEW t, TailOK(f, op, t), NEW s \in Seq(StepName),
           NEW m \in 1..6, Len(t) = m, Len(s) = m + 3, \A n \in 4..(m+3) : s[n] = t[n-3],
           s[1] = "fetchPerms" /\ s[2] = "setPerms" /\ s[3] = "can"
    PROVE  WholeOK(f, op, s)
<1>1. ASSUME NEW n \in 4..Len(s)
      PROVE  StepOK(f, op, s[n]) /\ (s[n] \in Finals <=> n = Len(s))
  BY DEF TailOK
<1>2. ASSUME NEW n \in 3..(Len(s)-1) PROVE Follows(op, s[n], s[n+1])
  <2>1. CASE n = 3
    <3>1. s[3] = "can" /\ s[3+1] = t[1]
      OBVIOUS
    <3> QED
      BY <2>1, <3>1 DEF TailOK
  <2>2. CASE n # 3
    <3>1. n-3 \in 1..(m-1) /\ s[n] = t[n-3] /\ s[n+1] = t[n-2] /\ (n-3)+1 = n-2
      BY <2>2
    <3> QED
      BY <3>1 DEF TailOK
  <2> QED
    BY <2>1, <2>2
<1>3. op = "update" /\ (\E n \in 4..Len(s) : s[n] = "content") => s[4] = "findRow"
  BY DEF TailOK
<1> QED
  BY <1>1, <1>2, <1>3 DEF WholeOK

LEMMA GrantOpsAre == GrantOps = {"grant", "revoke", "regrant"}
BY DEF GrantOps, userPermissionController

LEMMA Assembled ==
    ASSUME NEW f, NEW op, op \notin GrantOps, NEW t, TailOK(f, op, t),
           Controllers[f][op] = <<"can">> \o t
    PROVE  ScriptOK(f, op)
<1>1. {"fetchPerms", "setPerms", "can"} \subseteq StepName
  BY DEF StepName
<1>2. Script(f, op) = <<"fetchPerms", "setPerms">> \o (<<"can">> \o t)
  BY DEF Script, Auth
<1>3. t \in Seq(StepName)
  BY DEF TailOK
<1>4. PICK s : s = Script(f, op)
  OBVIOUS
<1>5. /\ s \in Seq(StepName) /\ Len(s) = Len(t) + 3
      /\ s[1] = "fetchPerms" /\ s[2] = "setPerms" /\ s[3] = "can"
      /\ \A n \in 4..(Len(t)+3) : s[n] = t[n-3]
  BY <1>1, <1>2, <1>3, <1>4, Prefixed
<1>6. PICK m \in 1..6 : Len(t) = m
  BY DEF TailOK
<1>7. Len(s) = m + 3 /\ \A n \in 4..(m+3) : s[n] = t[n-3]
  BY <1>5, <1>6
<1> QED
  BY <1>4, <1>5, <1>6, <1>7, Shifted DEF ScriptOK

LEMMA CommonTails ==
    ASSUME NEW f, f \notin Logs, f # "category"
    PROVE  TailOK(f, "delete", softDelete) /\ TailOK(f, "restore", restore)
<1>1. /\ softDelete \in Seq(StepName) /\ Len(softDelete) = 3
      /\ restore \in Seq(StepName) /\ Len(restore) = 4
  BY DEF softDelete, restore, StepName
<1>2. TailOK(f, "delete", softDelete)
  BY <1>1 DEF softDelete, TailOK, StepOK, Allowed, Follows, Finals, Logs, Texted
<1>3. TailOK(f, "restore", restore)
  BY <1>1 DEF restore, TailOK, StepOK, Allowed, Follows, Finals, Logs, Texted
<1> QED
  BY <1>2, <1>3

LEMMA CommonReads ==
    ASSUME NEW f
    PROVE  /\ TailOK(f, "read", <<"fetch", "set">>) /\ TailOK(f, "find", <<"list">>)
           /\ TailOK(f, "read", <<"fetchTexts", "set">>) /\ TailOK(f, "read", <<"show">>)
           /\ f \in Logs => TailOK(f, "delete", hardDelete)
<1>1. TailOK(f, "read", <<"fetch", "set">>)
  BY DEF StepName, TailOK, StepOK, Allowed, Follows, Finals, Logs, Texted
<1>2. TailOK(f, "find", <<"list">>)
  BY DEF StepName, TailOK, StepOK, Allowed, Follows, Finals, Logs, Texted
<1>3. TailOK(f, "read", <<"fetchTexts", "set">>)
  BY DEF StepName, TailOK, StepOK, Allowed, Follows, Finals, Logs, Texted
<1>4. TailOK(f, "read", <<"show">>)
  BY DEF StepName, TailOK, StepOK, Allowed, Follows, Finals, Logs, Texted
<1>5. ASSUME f \in Logs PROVE TailOK(f, "delete", hardDelete)
  <2>1. hardDelete \in Seq(StepName) /\ Len(hardDelete) = 2
    BY DEF hardDelete, StepName
  <2> QED
    BY <1>5, <2>1 DEF hardDelete, TailOK, StepOK, Allowed, Follows, Finals, Logs, Texted
<1> QED
  BY <1>1, <1>2, <1>3, <1>4, <1>5

LEMMA CommonAre ==
    /\ common.read = <<"can">> \o <<"fetch", "set">> /\ common.find = <<"can">> \o <<"list">>
    /\ common.delete = <<"can">> \o softDelete /\ common.restore = <<"can">> \o restore
<1>1. common.delete = <<"can">> \o softDelete /\ common.restore = <<"can">> \o restore
  BY DEF common
<1>2. common.read = <<"can", "fetch", "set">> /\ common.find = <<"can", "list">>
  BY DEF common
<1> QED
  BY <1>1, <1>2

LEMMA BrandScripts == \A op \in Routes["brand"] : ScriptOK("brand", op)
<1>1. Controllers["brand"] = brandController /\ Routes["brand"] = brandRoutes
  BY DEF Controllers, Routes
<1>2. "brand" \notin Logs /\ "brand" # "category"
  BY DEF Logs
<1>3. ScriptOK("brand", "create")
  <2>1. brandCreate \in Seq(StepName) /\ Len(brandCreate) = 4
    BY DEF brandCreate, StepName
  <2>2. TailOK("brand", "create", brandCreate)
    BY <2>1 DEF brandCreate, TailOK, StepOK, Allowed, Follows, Finals, Logs, Texted
  <2>3. Controllers["brand"]["create"] = <<"can">> \o brandCreate
    BY <1>1 DEF brandController
  <2> QED
    BY <2>2, <2>3, Assembled, GrantOpsAre
<1>4. ScriptOK("brand", "read")
  <2>1. Controllers["brand"]["read"] = brandRead
    BY <1>1 DEF brandController
  <2>2. brandRead = <<"can">> \o <<"fetchTexts", "set">>
    BY DEF brandRead
  <2> QED
    BY <2>1, <2>2, CommonReads, Assembled, GrantOpsAre
<1>5. ScriptOK("brand", "update")
  <2>1. brandUpdate \in Seq(StepName) /\ Len(brandUpdate) = 6
    BY DEF brandUpdate, StepName
  <2>2. TailOK("brand", "update", brandUpdate)
    BY <2>1 DEF brandUpdate, TailOK, StepOK, Allowed, Follows, Finals, Logs, Texted
  <2>3. Controllers["brand"]["update"] = <<"can">> \o brandUpdate
    BY <1>1 DEF brandController
  <2> QED
    BY <2>2, <2>3, Assembled, GrantOpsAre
<1>6. ScriptOK("brand", "delete")
  <2>1. Controllers["brand"]["delete"] = common.delete
    BY <1>1 DEF brandController
  <2> QED
    BY <1>2, <2>1, CommonAre, CommonTails, Assembled, GrantOpsAre
<1>7. ScriptOK("brand", "restore")
  <2>1. Controllers["brand"]["restore"] = common.restore
    BY <1>1 DEF brandController
  <2> QED
    BY <1>2, <2>1, CommonAre, CommonTails, Assembled, GrantOpsAre
<1>8. ScriptOK("brand", "find")
  <2>1. Controllers["brand"]["find"] = common.find
    BY <1>1 DEF brandController
  <2> QED
    BY <1>2, <2>1, CommonAre, CommonReads, Assembled, GrantOpsAre
<1>9. ScriptOK("brand", "statusUpdate")
  <2>1. brandStatus \in Seq(StepName) /\ Len(brandStatus) = 5
    BY DEF brandStatus, StepName
  <2>2. TailOK("brand", "statusUpdate", brandStatus)
    BY <2>1 DEF brandStatus, TailOK, StepOK, Allowed, Follows, Finals, Logs, Texted
  <2>3. Controllers["brand"]["statusUpdate"] = <<"can">> \o brandStatus
    BY <1>1 DEF brandController
  <2> QED
    BY <2>2, <2>3, Assembled, GrantOpsAre
<1>10. ScriptOK("brand", "orderUpdate")
  <2>1. brandOrder \in Seq(StepName) /\ Len(brandOrder) = 2
    BY DEF brandOrder, StepName
  <2>2. TailOK("brand", "orderUpdate", brandOrder)
    BY <2>1 DEF brandOrder, TailOK, StepOK, Allowed, Follows, Finals, Logs, Texted
  <2>3. Controllers["brand"]["orderUpdate"] = <<"can">> \o brandOrder
    BY <1>1 DEF brandController
  <2> QED
    BY <2>2, <2>3, Assembled, GrantOpsAre
<1> QED
  BY <1>1, <1>3, <1>4, <1>5, <1>6, <1>7, <1>8, <1>9, <1>10 DEF brandRoutes, Common

LEMMA CarrierScripts == \A op \in Routes["carrier"] : ScriptOK("carrier", op)
<1>1. Controllers["carrier"] = carrierController /\ Routes["carrier"] = carrierRoutes
  BY DEF Controllers, Routes
<1>2. "carrier" \notin Logs /\ "carrier" # "category"
  BY DEF Logs
<1>3. ScriptOK("carrier", "create")
  <2>1. carrierCreate \in Seq(StepName) /\ Len(carrierCreate) = 3
    BY DEF carrierCreate, StepName
  <2>2. TailOK("carrier", "create", carrierCreate)
    BY <2>1 DEF carrierCreate, TailOK, StepOK, Allowed, Follows, Finals, Logs, Texted
  <2>3. Controllers["carrier"]["create"] = <<"can">> \o carrierCreate
    BY <1>1 DEF carrierController
  <2> QED
    BY <2>2, <2>3, Assembled, GrantOpsAre
<1>4. ScriptOK("carrier", "read")
  <2>1. Controllers["carrier"]["read"] = common.read
    BY <1>1 DEF carrierController
  <2> QED
    BY <1>2, <2>1, CommonAre, CommonReads, Assembled, GrantOpsAre
<1>5. ScriptOK("carrier", "update")
  <2>1. carrierUpdate \in Seq(StepName) /\ Len(carrierUpdate) = 4
    BY DEF carrierUpdate, StepName
  <2>2. TailOK("carrier", "update", carrierUpdate)
    BY <2>1 DEF carrierUpdate, TailOK, StepOK, Allowed, Follows, Finals, Logs, Texted
  <2>3. Controllers["carrier"]["update"] = <<"can">> \o carrierUpdate
    BY <1>1 DEF carrierController
  <2> QED
    BY <2>2, <2>3, Assembled, GrantOpsAre
<1>6. ScriptOK("carrier", "delete")
  <2>1. Controllers["carrier"]["delete"] = common.delete
    BY <1>1 DEF carrierController
  <2> QED
    BY <1>2, <2>1, CommonAre, CommonTails, Assembled, GrantOpsAre
<1>7. ScriptOK("carrier", "restore")
  <2>1. Controllers["carrier"]["restore"] = common.restore
    BY <1>1 DEF carrierController
  <2> QED
    BY <1>2, <2>1, CommonAre, CommonTails, Assembled, GrantOpsAre
<1>8. ScriptOK("carrier", "find")
  <2>1. Controllers["carrier"]["find"] = common.find
    BY <1>1 DEF carrierController
  <2> QED
    BY <1>2, <2>1, CommonAre, CommonReads, Assembled, GrantOpsAre
<1> QED
  BY <1>1, <1>3, <1>4, <1>5, <1>6, <1>7, <1>8 DEF carrierRoutes, Common

LEMMA ClientScripts == \A op \in Routes["client"] : ScriptOK("client", op)
<1>1. Controllers["client"] = clientController /\ Routes["client"] = clientRoutes
  BY DEF Controllers, Routes
<1>2. "client" \notin Logs /\ "client" # "category"
  BY DEF Logs
<1>3. ScriptOK("client", "create")
  <2>1. clientCreate \in Seq(StepName) /\ Len(clientCreate) = 3
    BY DEF clientCreate, StepName
  <2>2. TailOK("client", "create", clientCreate)
    BY <2>1 DEF clientCreate, TailOK, StepOK, Allowed, Follows, Finals, Logs, Texted
  <2>3. Controllers["client"]["create"] = <<"can">> \o clientCreate
    BY <1>1 DEF clientController
  <2> QED
    BY <2>2, <2>3, Assembled, GrantOpsAre
<1>4. ScriptOK("client", "read")
  <2>1. Controllers["client"]["read"] = clientRead
    BY <1>1 DEF clientController
  <2>2. clientRead = <<"can">> \o <<"fetch", "set">>
    BY DEF clientRead
  <2> QED
    BY <2>1, <2>2, CommonReads, Assembled, GrantOpsAre
<1>5. ScriptOK("client", "update")
  <2> DEFINE t == <<"findRow">> \o clientUpdate
  <2>1. /\ t \in Seq(StepName) /\ Len(t) = 5 /\ t[1] = "findRow" /\ t[2] = "findOtherKey"
        /\ t[3] = "load" /\ t[4] = "write" /\ t[5] = "commit"
    BY DEF clientUpdate, StepName
  <2> HIDE DEF t
  <2>2. TailOK("client", "update", t)
    BY <2>1 DEF TailOK, StepOK, Allowed, Follows, Finals, Logs, Texted
  <2>3. Controllers["client"]["update"] = <<"can", "findRow">> \o clientUpdate
    BY <1>1 DEF clientController
  <2>4. <<"can", "findRow">> \o clientUpdate = <<"can">> \o t
    BY DEF t, clientUpdate
  <2> QED
    BY <2>2, <2>3, <2>4, Assembled, GrantOpsAre
<1>6. ScriptOK("client", "delete")
  <2>1. Controllers["client"]["delete"] = common.delete
    BY <1>1 DEF clientController
  <2> QED
    BY <1>2, <2>1, CommonAre, CommonTails, Assembled, GrantOpsAre
<1>7. ScriptOK("client", "restore")
  <2>1. Controllers["client"]["restore"] = common.restore
    BY <1>1 DEF clientController
  <2> QED
    BY <1>2, <2>1, CommonAre, CommonTails, Assembled, GrantOpsAre
<1>8. ScriptOK("client", "find")
  <2>1. Controllers["client"]["find"] = common.find
    BY <1>1 DEF clientController
  <2> QED
    BY <1>2, <2>1, CommonAre, CommonReads, Assembled, GrantOpsAre
<1>9. ScriptOK("client", "statusUpdate")
  <2>1. clientStatus \in Seq(StepName) /\ Len(clientStatus) = 5
    BY DEF clientStatus, StepName
  <2>2. TailOK("client", "statusUpdate", clientStatus)
    BY <2>1 DEF clientStatus, TailOK, StepOK, Allowed, Follows, Finals, Logs, Texted
  <2>3. Controllers["client"]["statusUpdate"] = <<"can">> \o clientStatus
    BY <1>1 DEF clientController
  <2> QED
    BY <2>2, <2>3, Assembled, GrantOpsAre
<1> QED
  BY <1>1, <1>3, <1>4, <1>5, <1>6, <1>7, <1>8, <1>9 DEF clientRoutes, Common

LEMMA DiscountScripts == \A op \in Routes["discount"] : ScriptOK("discount", op)
<1>1. Controllers["discount"] = discountController /\ Routes["discount"] = discountRoutes
  BY DEF Controllers, Routes
<1>2. "discount" \notin Logs /\ "discount" # "category"
  BY DEF Logs
<1>3. ScriptOK("discount", "create")
  <2>1. discountCreate \in Seq(StepName) /\ Len(discountCreate) = 2
    BY DEF discountCreate, StepName
  <2>2. TailOK("discount", "create", discountCreate)
    BY <2>1 DEF discountCreate, TailOK, StepOK, Allowed, Follows, Finals, Logs, Texted
  <2>3. Controllers["discount"]["create"] = <<"can">> \o discountCreate
    BY <1>1 DEF discountController
  <2> QED
    BY <2>2, <2>3, Assembled, GrantOpsAre
<1>4. ScriptOK("discount", "read")
  <2>1. Controllers["discount"]["read"] = common.read
    BY <1>1 DEF discountController
  <2> QED
    BY <1>2, <2>1, CommonAre, CommonReads, Assembled, GrantOpsAre
<1>5. ScriptOK("discount", "update")
  <2>1. discountUpdate \in Seq(StepName) /\ Len(discountUpdate) = 4
    BY DEF discountUpdate, StepName
  <2>2. TailOK("discount", "update", discountUpdate)
    BY <2>1 DEF discountUpdate, TailOK, StepOK, Allowed, Follows, Finals, Logs, Texted
  <2>3. Controllers["discount"]["update"] = <<"can">> \o discountUpdate
    BY <1>1 DEF discountController
  <2> QED
    BY <2>2, <2>3, Assembled, GrantOpsAre
<1>6. ScriptOK("discount", "delete")
  <2>1. Controllers["discount"]["delete"] = common.delete
    BY <1>1 DEF discountController
  <2> QED
    BY <1>2, <2>1, CommonAre, CommonTails, Assembled, GrantOpsAre
<1>7. ScriptOK("discount", "restore")
  <2>1. Controllers["discount"]["restore"] = common.restore
    BY <1>1 DEF discountController
  <2> QED
    BY <1>2, <2>1, CommonAre, CommonTails, Assembled, GrantOpsAre
<1>8. ScriptOK("discount", "find")
  <2>1. Controllers["discount"]["find"] = common.find
    BY <1>1 DEF discountController
  <2> QED
    BY <1>2, <2>1, CommonAre, CommonReads, Assembled, GrantOpsAre
<1> QED
  BY <1>1, <1>3, <1>4, <1>5, <1>6, <1>7, <1>8 DEF discountRoutes, Common

LEMMA PlaceScripts == \A op \in Routes["place"] : ScriptOK("place", op)
<1>1. Controllers["place"] = placeController /\ Routes["place"] = placeRoutes
  BY DEF Controllers, Routes
<1>2. "place" \notin Logs /\ "place" # "category"
  BY DEF Logs
<1>3. ScriptOK("place", "create")
  <2>1. placeCreate \in Seq(StepName) /\ Len(placeCreate) = 3
    BY DEF placeCreate, StepName
  <2>2. TailOK("place", "create", placeCreate)
    BY <2>1 DEF placeCreate, TailOK, StepOK, Allowed, Follows, Finals, Logs, Texted
  <2>3. Controllers["place"]["create"] = <<"can">> \o placeCreate
    BY <1>1 DEF placeController
  <2> QED
    BY <2>2, <2>3, Assembled, GrantOpsAre
<1>4. ScriptOK("place", "read")
  <2>1. Controllers["place"]["read"] = placeRead
    BY <1>1 DEF placeController
  <2>2. placeRead = <<"can">> \o <<"fetchTexts", "set">>
    BY DEF placeRead
  <2> QED
    BY <2>1, <2>2, CommonReads, Assembled, GrantOpsAre
<1>5. ScriptOK("place", "update")
  <2>1. placeUpdate \in Seq(StepName) /\ Len(placeUpdate) = 6
    BY DEF placeUpdate, StepName
  <2>2. TailOK("place", "update", placeUpdate)
    BY <2>1 DEF placeUpdate, TailOK, StepOK, Allowed, Follows, Finals, Logs, Texted
  <2>3. Controllers["place"]["update"] = <<"can">> \o placeUpdate
    BY <1>1 DEF placeController
  <2> QED
    BY <2>2, <2>3, Assembled, GrantOpsAre
<1>6. ScriptOK("place", "delete")
  <2>1. /\ placeDelete \in Seq(StepName) /\ Len(placeDelete) = 4
        /\ placeDelete[1] = "children" /\ placeDelete[2] = "pick"
        /\ placeDelete[3] = "softRemove" /\ placeDelete[4] = "commit"
    BY DEF placeDelete, softDelete, StepName
  <2>2. TailOK("place", "delete", placeDelete)
    BY <1>2, <2>1 DEF TailOK, StepOK, Allowed, Follows, Finals, Logs, Texted
  <2>3. Controllers["place"]["delete"] = <<"can">> \o placeDelete
    BY <1>1 DEF placeController
  <2> QED
    BY <2>2, <2>3, Assembled, GrantOpsAre
<1>7. ScriptOK("place", "restore")
  <2>1. Controllers["place"]["restore"] = common.restore
    BY <1>1 DEF placeController
  <2> QED
    BY <1>2, <2>1, CommonAre, CommonTails, Assembled, GrantOpsAre
<1>8. ScriptOK("place", "find")
  <2>1. Controllers["place"]["find"] = common.find
    BY <1>1 DEF placeController
  <2> QED
    BY <1>2, <2>1, CommonAre, CommonReads, Assembled, GrantOpsAre
<1> QED
  BY <1>1, <1>3, <1>4, <1>5, <1>6, <1>7, <1>8 DEF placeRoutes, Common

LEMMA TemplateScripts == \A op \in Routes["template"] : ScriptOK("template", op)
<1>1. Controllers["template"] = templateController /\ Routes["template"] = templateRoutes
  BY DEF Controllers, Routes
<1>2. "template" \notin Logs /\ "template" # "category"
  BY DEF Logs
<1>3. ScriptOK("template", "create")
  <2>1. templateCreate \in Seq(StepName) /\ Len(templateCreate) = 3
    BY DEF templateCreate, StepName
  <2>2. TailOK("template", "create", templateCreate)
    BY <2>1 DEF templateCreate, TailOK, StepOK, Allowed, Follows, Finals, Logs, Texted
  <2>3. Controllers["template"]["create"] = <<"can">> \o templateCreate
    BY <1>1 DEF templateController
  <2> QED
    BY <2>2, <2>3, Assembled, GrantOpsAre
<1>4. ScriptOK("template", "read")
  <2>1. Controllers["template"]["read"] = common.read
    BY <1>1 DEF templateController
  <2> QED
    BY <1>2, <2>1, CommonAre, CommonReads, Assembled, GrantOpsAre
<1>5. ScriptOK("template", "update")
  <2>1. templateUpdate \in Seq(StepName) /\ Len(templateUpdate) = 5
    BY DEF templateUpdate, StepName
  <2>2. TailOK("template", "update", templateUpdate)
    BY <2>1 DEF templateUpdate, TailOK, StepOK, Allowed, Follows, Finals, Logs, Texted
  <2>3. Controllers["template"]["update"] = <<"can">> \o templateUpdate
    BY <1>1 DEF templateController
  <2> QED
    BY <2>2, <2>3, Assembled, GrantOpsAre
<1>6. ScriptOK("template", "delete")
  <2>1. Controllers["template"]["delete"] = common.delete
    BY <1>1 DEF templateController
  <2> QED
    BY <1>2, <2>1, CommonAre, CommonTails, Assembled, GrantOpsAre
<1>7. ScriptOK("template", "restore")
  <2>1. Controllers["template"]["restore"] = common.restore
    BY <1>1 DEF templateController
  <2> QED
    BY <1>2, <2>1, CommonAre, CommonTails, Assembled, GrantOpsAre
<1>8. ScriptOK("template", "find")
  <2>1. Controllers["template"]["find"] = common.find
    BY <1>1 DEF templateController
  <2> QED
    BY <1>2, <2>1, CommonAre, CommonReads, Assembled, GrantOpsAre
<1> QED
  BY <1>1, <1>3, <1>4, <1>5, <1>6, <1>7, <1>8 DEF templateRoutes, Common

LEMMA PermissionScripts == \A op \in Routes["permission"] : ScriptOK("permission", op)
<1>1. Controllers["permission"] = permissionController /\ Routes["permission"] = permissionRoutes
  BY DEF Controllers, Routes
<1>2. "permission" \notin Logs /\ "permission" # "category"
  BY DEF Logs
<1>3. ScriptOK("permission", "create")
  <2>1. permissionCreate \in Seq(StepName) /\ Len(permissionCreate) = 3
    BY DEF permissionCreate, StepName
  <2>2. TailOK("permission", "create", permissionCreate)
    BY <2>1 DEF permissionCreate, TailOK, StepOK, Allowed, Follows, Finals, Logs, Texted,
       Routes, permissionRoutes, Common
  <2>3. Controllers["permission"]["create"] = <<"can">> \o permissionCreate
    BY <1>1 DEF permissionController
  <2> QED
    BY <2>2, <2>3, Assembled, GrantOpsAre
<1>4. ScriptOK("permission", "read")
  <2>1. Controllers["permission"]["read"] = common.read
    BY <1>1 DEF permissionController
  <2> QED
    BY <1>2, <2>1, CommonAre, CommonReads, Assembled, GrantOpsAre
<1>5. ScriptOK("permission", "update")
  <2>1. permissionUpdate \in Seq(StepName) /\ Len(permissionUpdate) = 4
    BY DEF permissionUpdate, StepName
  <2>2. TailOK("permission", "update", permissionUpdate)
    BY <2>1 DEF permissionUpdate, TailOK, StepOK, Allowed, Follows, Finals, Logs, Texted
  <2>3. Controllers["permission"]["update"] = <<"can">> \o permissionUpdate
    BY <1>1 DEF permissionController
  <2> QED
    BY <2>2, <2>3, Assembled, GrantOpsAre
<1>6. ScriptOK("permission", "delete")
  <2>1. Controllers["permission"]["delete"] = common.delete
    BY <1>1 DEF permissionController
  <2> QED
    BY <1>2, <2>1, CommonAre, CommonTails, Assembled, GrantOpsAre
<1>7. ScriptOK("permission", "restore")
  <2>1. Controllers["permission"]["restore"] = common.restore
    BY <1>1 DEF permissionController
  <2> QED
    BY <1>2, <2>1, CommonAre, CommonTails, Assembled, GrantOpsAre
<1>8. ScriptOK("permission", "find")
  <2>1. Controllers["permission"]["find"] = common.find
    BY <1>1 DEF permissionController
  <2> QED
    BY <1>2, <2>1, CommonAre, CommonReads, Assembled, GrantOpsAre
<1> QED
  BY <1>1, <1>3, <1>4, <1>5, <1>6, <1>7, <1>8 DEF permissionRoutes, Common

LEMMA CategoryScripts == \A op \in Routes["category"] : ScriptOK("category", op)
<1>1. Controllers["category"] = categoryController /\ Routes["category"] = categoryRoutes
  BY DEF Controllers, Routes
<1>2. "category" \notin Logs
  BY DEF Logs
<1>3. ScriptOK("category", "create")
  <2>1. categoryCreate \in Seq(StepName) /\ Len(categoryCreate) = 5
    BY DEF categoryCreate, StepName
  <2>2. TailOK("category", "create", categoryCreate)
    BY <2>1 DEF categoryCreate, TailOK, StepOK, Allowed, Follows, Finals, Logs, Texted
  <2>3. Controllers["category"]["create"] = <<"can">> \o categoryCreate
    BY <1>1 DEF categoryController
  <2> QED
    BY <2>2, <2>3, Assembled, GrantOpsAre
<1>4. ScriptOK("category", "read")
  <2>1. Controllers["category"]["read"] = categoryRead
    BY <1>1 DEF categoryController
  <2>2. categoryRead = <<"can">> \o <<"fetchTexts", "set">>
    BY DEF categoryRead
  <2> QED
    BY <2>1, <2>2, CommonReads, Assembled, GrantOpsAre
<1>5. ScriptOK("category", "update")
  <2>1. categoryUpdate \in Seq(StepName) /\ Len(categoryUpdate) = 5
    BY DEF categoryUpdate, StepName
  <2>2. TailOK("category", "update", categoryUpdate)
    BY <2>1 DEF categoryUpdate, TailOK, StepOK, Allowed, Follows, Finals, Logs, Texted
  <2>3. Controllers["category"]["update"] = <<"can">> \o categoryUpdate
    BY <1>1 DEF categoryController
  <2> QED
    BY <2>2, <2>3, Assembled, GrantOpsAre
<1>6. ScriptOK("category", "find")
  <2>1. Controllers["category"]["find"] = <<"can", "list">>
    BY <1>1 DEF categoryController
  <2>2. <<"can", "list">> = <<"can">> \o <<"list">>
    OBVIOUS
  <2> QED
    BY <2>1, <2>2, CommonReads, Assembled, GrantOpsAre
<1> QED
  BY <1>1, <1>3, <1>4, <1>5, <1>6 DEF categoryRoutes

LEMMA UserScripts == \A op \in Routes["user"] : ScriptOK("user", op)
<1>1. Controllers["user"] = userController /\ Routes["user"] = userRoutes
  BY DEF Controllers, Routes
<1>2. "user" \notin Logs /\ "user" # "category"
  BY DEF Logs
<1>3. ScriptOK("user", "create")
  <2>1. userCreate \in Seq(StepName) /\ Len(userCreate) = 3
    BY DEF userCreate, StepName
  <2>2. TailOK("user", "create", userCreate)
    BY <2>1 DEF userCreate, TailOK, StepOK, Allowed, Follows, Finals, Logs, Texted
  <2>3. Controllers["user"]["create"] = <<"can">> \o userCreate
    BY <1>1 DEF userController
  <2> QED
    BY <2>2, <2>3, Assembled, GrantOpsAre
<1>4. ScriptOK("user", "read")
  <2>1. Controllers["user"]["read"] = common.read
    BY <1>1 DEF userController
  <2> QED
    BY <1>2, <2>1, CommonAre, CommonReads, Assembled, GrantOpsAre
<1>5. ScriptOK("user", "update")
  <2>1. userUpdate \in Seq(StepName) /\ Len(userUpdate) = 6
    BY DEF userUpdate, StepName
  <2>2. TailOK("user", "update", userUpdate)
    BY <2>1 DEF userUpdate, TailOK, StepOK, Allowed, Follows, Finals, Logs, Texted
  <2>3. Controllers["user"]["update"] = <<"can">> \o userUpdate
    BY <1>1 DEF userController
  <2> QED
    BY <2>2, <2>3, Assembled, GrantOpsAre
<1>6. ScriptOK("user", "delete")
  <2>1. Controllers["user"]["delete"] = common.delete
    BY <1>1 DEF userController
  <2> QED
    BY <1>2, <2>1, CommonAre, CommonTails, Assembled, GrantOpsAre
<1>7. ScriptOK("user", "restore")
  <2>1. Controllers["user"]["restore"] = common.restore
    BY <1>1 DEF userController
  <2> QED
    BY <1>2, <2>1, CommonAre, CommonTails, Assembled, GrantOpsAre
<1>8. ScriptOK("user", "find")
  <2>1. Controllers["user"]["find"] = common.find
    BY <1>1 DEF userController
  <2> QED
    BY <1>2, <2>1, CommonAre, CommonReads, Assembled, GrantOpsAre
<1>9. ScriptOK("user", "statusUpdate")
  <2>1. userStatus \in Seq(StepName) /\ Len(userStatus) = 5
    BY DEF userStatus, StepName
  <2>2. TailOK("user", "statusUpdate", userStatus)
    BY <2>1 DEF userStatus, TailOK, StepOK, Allowed, Follows, Finals, Logs, Texted
  <2>3. Controllers["user"]["statusUpdate"] = <<"can">> \o userStatus
    BY <1>1 DEF userController
  <2> QED
    BY <2>2, <2>3, Assembled, GrantOpsAre
<1> QED
  BY <1>1, <1>3, <1>4, <1>5, <1>6, <1>7, <1>8, <1>9 DEF userRoutes, Common

LEMMA LogScripts == ASSUME NEW f \in Logs PROVE \A op \in Routes[f] : ScriptOK(f, op)
<1>1. Routes[f] = {"read", "delete", "find"}
  BY DEF Routes, LogRoutes, Logs
<1>2. ScriptOK(f, "read")
  <2>1. Controllers[f]["read"] = common.read \/ Controllers[f]["read"] = <<"can", "show">>
    BY DEF Logs, Controllers, logDataController, cronHistoryController, mailQueueController,
       logHistoryController
  <2>2. <<"can", "show">> = <<"can">> \o <<"show">>
    OBVIOUS
  <2> QED
    BY <2>1, <2>2, CommonAre, CommonReads, Assembled, GrantOpsAre
<1>3. ScriptOK(f, "delete")
  <2>1. Controllers[f]["delete"] = <<"can">> \o hardDelete
    BY DEF Logs, Controllers, logDataController, cronHistoryController, mailQueueController,
       logHistoryController
  <2> QED
    BY <2>1, CommonReads, Assembled, GrantOpsAre
<1>4. ScriptOK(f, "find")
  <2>1. Controllers[f]["find"] = common.find
    BY DEF Logs, Controllers, logDataController, cronHistoryController, mailQueueController,
       logHistoryController
  <2> QED
    BY <2>1, CommonAre, CommonReads, Assembled, GrantOpsAre
<1> QED
  BY <1>1, <1>2, <1>3, <1>4

\* What every endpoint is made of.
LEMMA ScriptsOK ==
    ASSUME NEW f \in DOMAIN Controllers, NEW op \in Routes[f]
    PROVE  ScriptOK(f, op)
<1>1. f \in {"brand", "carrier", "client", "discount", "place", "template", "permission",
            "category", "user"} \cup Logs
  BY DEF Controllers, Logs
<1> QED
  BY <1>1, BrandScripts, CarrierScripts, ClientScripts, DiscountScripts, PlaceScripts,
     TemplateScripts, PermissionScripts, CategoryScripts, UserScripts, LogScripts

LEMMA GrantScripts ==
    ASSUME NEW f
    PROVE  /\ Script(f, "grant") = <<"findGrant", "saveGrant">>
           /\ Script(f, "revoke") = <<"pickGrant", "removeGrant">>
           /\ Script(f, "regrant") = <<"pickAnyGrant", "restoreGrant">>
BY GrantOpsAre DEF Script, userPermissionController

\* The columns that a validator makes a body give.
BodyOK(f, op, S) ==
    /\ S \subseteq Columns \ {"deleted"}
    /\ op = "create" => "key" \in S
    /\ op = "create" /\ f \in Texted => "content" \in S
    /\ f = "category" /\ "content" \in S => "key" \in S
LEMMA BodiesOK ==
    ASSUME NEW f \in DOMAIN Controllers, NEW op \in Routes[f] \cap {"create", "update"},
           NEW S \in Validators[f][op]
    PROVE  BodyOK(f, op, S)
<1>1. f \in {"brand", "carrier", "client", "discount", "place", "template", "permission",
            "category", "user"}
  BY DEF Controllers, Routes, LogRoutes
<1>2. CASE f = "brand"
  <2>1. Validators[f] = brandValidator
    BY <1>2 DEF Validators
  <2> QED
    BY <1>2, <2>1 DEF brandValidator, BodyOK, Texted, Columns
<1>3. CASE f = "carrier"
  <2>1. Validators[f] = carrierValidator
    BY <1>3 DEF Validators
  <2> QED
    BY <1>3, <2>1 DEF carrierValidator, BodyOK, Texted, Columns
<1>4. CASE f = "client"
  <2>1. Validators[f] = clientValidator
    BY <1>4 DEF Validators
  <2> QED
    BY <1>4, <2>1 DEF clientValidator, BodyOK, Texted, Columns
<1>5. CASE f = "discount"
  <2>1. Validators[f] = discountValidator
    BY <1>5 DEF Validators
  <2> QED
    BY <1>5, <2>1 DEF discountValidator, BodyOK, Texted, Columns
<1>6. CASE f = "place"
  <2>1. Validators[f] = placeValidator
    BY <1>6 DEF Validators
  <2> QED
    BY <1>6, <2>1 DEF placeValidator, BodyOK, Texted, Columns
<1>7. CASE f = "template"
  <2>1. Validators[f] = templateValidator
    BY <1>7 DEF Validators
  <2> QED
    BY <1>7, <2>1 DEF templateValidator, BodyOK, Texted, Columns
<1>8. CASE f = "permission"
  <2>1. Validators[f] = permissionValidator
    BY <1>8 DEF Validators
  <2> QED
    BY <1>8, <2>1 DEF permissionValidator, BodyOK, Texted, Columns
<1>9. CASE f = "category"
  <2>1. Validators[f] = categoryValidator
    BY <1>9 DEF Validators
  <2> QED
    BY <1>9, <2>1 DEF categoryValidator, BodyOK, Texted, Columns
<1>10. CASE f = "user"
  <2>1. Validators[f] = userValidator
    BY <1>10 DEF Validators
  <2> QED
    BY <1>10, <2>1 DEF userValidator, BodyOK, Texted, Columns
<1> QED
  BY <1>1, <1>2, <1>3, <1>4, <1>5, <1>6, <1>7, <1>8, <1>9, <1>10

(***************************************************************************)
(* Parts of rows, and requests.                                            *)
(***************************************************************************)

LEMMA ValuesAre ==
    /\ Values("key") = Keys /\ Values("parent") = Rows \cup {None}
    /\ Values("state") = BOOLEAN /\ Values("content") = BOOLEAN /\ Values("deleted") = BOOLEAN
BY DEF Values

LEMMA PartsAre ==
    ASSUME NEW d
    PROVE  d \in Parts <=> /\ DOMAIN d \subseteq Columns /\ d = [c \in DOMAIN d |-> d[c]]
                           /\ \A c \in DOMAIN d : d[c] \in Values(c)
<1>1. ASSUME NEW S \in SUBSET Columns, d \in Part(S)
      PROVE  /\ DOMAIN d = S /\ d = [c \in DOMAIN d |-> d[c]]
             /\ \A c \in DOMAIN d : d[c] \in Values(c)
  BY <1>1 DEF Part
<1>2. ASSUME DOMAIN d \subseteq Columns, d = [c \in DOMAIN d |-> d[c]],
             \A c \in DOMAIN d : d[c] \in Values(c)
      PROVE  d \in Part(DOMAIN d)
  BY <1>2 DEF Part
<1> QED
  BY <1>1, <1>2 DEF Parts

LEMMA NothingIsPart == Nothing \in Parts /\ DOMAIN Nothing = {}
<1>1. DOMAIN Nothing = {} /\ Nothing = [c \in DOMAIN Nothing |-> Nothing[c]]
  BY DEF Nothing
<1> QED
  BY <1>1, PartsAre

LEMMA RowIsPart ==
    ASSUME NEW w \in Row
    PROVE  /\ DOMAIN w = Columns /\ w # None /\ \A c \in Columns : w[c] \in Values(c)
           /\ OwnPart(w) \in Parts /\ DOMAIN OwnPart(w) = Own
           /\ \A c \in Own : OwnPart(w)[c] = w[c]
<1>1. DOMAIN w = Columns /\ \A c \in Columns : w[c] \in Values(c)
  BY ValuesAre DEF Row, Columns
<1>2. DOMAIN OwnPart(w) = Own /\ \A c \in Own : OwnPart(w)[c] = w[c]
  BY <1>1 DEF OwnPart, Own
<1>3. OwnPart(w) = [c \in DOMAIN OwnPart(w) |-> OwnPart(w)[c]]
  BY DEF OwnPart
<1>4. OwnPart(w) \in Parts
  BY <1>1, <1>2, <1>3, PartsAre DEF Own
<1> QED
  BY <1>1, <1>2, <1>4, NoneIsNothing

LEMMA FullIsRow ==
    ASSUME NEW d \in Parts, DOMAIN d = Columns
    PROVE  d \in Row
<1>1. d = [c \in Columns |-> d[c]] /\ \A c \in Columns : d[c] \in Values(c)
  BY PartsAre
<1>2. d = [key |-> d["key"], state |-> d["state"], parent |-> d["parent"],
           content |-> d["content"], deleted |-> d["deleted"]]
  BY <1>1 DEF Columns
<1> QED
  BY <1>1, <1>2, ValuesAre DEF Row, Columns

\* The columns of d that are in S.
LEMMA Restricted ==
    ASSUME NEW d \in Parts, NEW S, S \subseteq DOMAIN d
    PROVE  [c \in S |-> d[c]] \in Parts
BY PartsAre

Codes == {0, 200, 400, 403, 404, 409, 500}

\* The requests of the feature f, with a name for the values of every field.
OpsIn(f) == {"none"} \cup Routes[f] \cup GrantOps
Maybe(S) == S \cup {None}
Subsets(S) == SUBSET S
Lists(S) == Seq(S)
Places == 0..10
Saws == {"none", "live", "deleted", None}
Actions == {"created", "updated", "deleted", "restored"}
RequestIn(f) ==
    [op : OpsIn(f), row : Maybe(Rows), perm : Maybe(Permissions), data : Parts,
     ids : Subsets(Rows), positions : Lists(Rows), pc : Places, code : Codes,
     perms : Maybe(Subsets(Permissions)), entity : Parts, loaded : Parts, pend : Parts,
     got : Maybe(Row), saw : Saws, told : Subsets(Actions), page : Subsets(Row)]
LEMMA RequestIs == Request = RequestIn(feature)
BY DEF Request, RequestIn, OpsIn, Maybe, Subsets, Lists, Places, Saws, Actions, Codes

LEMMA IdleIsRequest ==
    ASSUME NEW f
    PROVE  Idle \in RequestIn(f) /\ Idle.op = "none" /\ Idle.pc = 0 /\ Idle.pend = Nothing
           /\ Idle.told = {} /\ Idle.loaded = Nothing
<1>1. /\ "none" \in OpsIn(f) /\ None \in Maybe(Rows) /\ None \in Maybe(Permissions)
      /\ {} \in Subsets(Rows) /\ None \in Maybe(Subsets(Permissions)) /\ None \in Maybe(Row)
      /\ {} \in Subsets(Actions) /\ {} \in Subsets(Row)
  BY DEF OpsIn, Maybe, Subsets
<1>2. <<>> \in Lists(Rows)
  BY DEF Lists
<1>3. 0 \in Places /\ 0 \in Codes /\ None \in Saws
  BY DEF Places, Codes, Saws
<1>4. Nothing \in Parts
  BY NothingIsPart
<1> QED
  BY <1>1, <1>2, <1>3, <1>4 DEF Idle, RequestIn

\* What ends a request, whatever it shows.
Ended(q, p) ==
    /\ p.pc = 0 /\ p.op = q.op /\ p.row = q.row /\ p.perms = q.perms
    /\ p.pend = Nothing /\ p.told = {} /\ p.loaded = Nothing
LEMMA AnswerIsRequest ==
    ASSUME NEW f, NEW q \in RequestIn(f), NEW code \in Codes
    PROVE  LET p == Answer(q, code) IN
           /\ p \in RequestIn(f) /\ p.code = code /\ p.got = q.got /\ p.page = q.page
           /\ Ended(q, p)
<1>1. PICK z : z = Idle
  OBVIOUS
<1>2. z \in RequestIn(f) /\ z.pc = 0 /\ z.pend = Nothing /\ z.told = {} /\ z.loaded = Nothing
  BY <1>1, IdleIsRequest
<1>3. PICK p : p = [z EXCEPT !.op = q.op, !.row = q.row, !.code = code, !.perms = q.perms,
                             !.got = q.got, !.page = q.page]
  OBVIOUS
<1>4. p = Answer(q, code)
  BY <1>1, <1>3 DEF Answer
<1>5. p \in RequestIn(f)
  BY <1>2, <1>3 DEF RequestIn
<1>6. p.code = code /\ p.got = q.got /\ p.page = q.page /\ Ended(q, p)
  BY <1>2, <1>3 DEF RequestIn, Ended
<1> QED
  BY <1>4, <1>5, <1>6

(***************************************************************************)
(* What every step leaves true of a request, given the rows t.             *)
(***************************************************************************)

Tables == [Rows -> Maybe(Row)]
Stores == [Entries -> Maybe(Row)]
Endpoint == {"create", "read", "update", "delete", "restore", "find", "statusUpdate",
             "orderUpdate"}
Busy(f, q) == q.op \in Routes[f] /\ q.pc > 0
Current(f, q) == Script(f, q.op)[q.pc]

\* Where it is, and that only a request that runs has something uncommitted.
Control(f, q) ==
    /\ q.op = "none" => q.pc = 0
    /\ q.op \in GrantOps => q.pc \in 0..2 /\ (q.pc > 0 => q.perm \in Permissions)
    /\ q.op \in Routes[f] => q.pc <= Len(Script(f, q.op))
    /\ ~Busy(f, q) => q.pend = Nothing
    /\ q.told # {} => q.pend # Nothing
    /\ q.pc > 0 => q.code # 200

\* What its call gave.
Named(f, q) ==
    Busy(f, q) =>
    /\ \/ q.op \in {"read", "update", "statusUpdate", "restore"}
       \/ q.op = "delete" /\ f \notin Logs
       => q.row \in Rows
    /\ "deleted" \notin DOMAIN q.data
    /\ q.op = "create" => "key" \in DOMAIN q.data
    /\ q.op = "create" /\ f \in Texted => "content" \in DOMAIN q.data
    /\ q.op \in {"create", "update"} /\ f = "category" /\ "content" \in DOMAIN q.data
          => "key" \in DOMAIN q.data
    /\ q.op = "statusUpdate" => "state" \in DOMAIN q.data

\* The entity that it will save.
Entity(f, q) ==
    Busy(f, q) =>
    /\ "content" \notin DOMAIN q.entity
    /\ q.op = "create" => DOMAIN q.entity = {} /\ q.loaded = Nothing
    /\ q.op = "restore" /\ "deleted" \in DOMAIN q.entity => ~q.entity["deleted"]
    /\ q.op = "update" /\ Current(f, q) = "write" => "deleted" \notin DOMAIN q.entity

\* The row that it found is still there, perhaps changed.
Loaded(f, t, q) ==
    q.loaded # Nothing =>
        f \notin Logs /\ DOMAIN q.loaded = Own /\ q.row \in Rows /\ t[q.row] # None
Found(f, t, q) ==
    Busy(f, q) =>
    /\ Current(f, q) = "softRemove" => t[q.row] # None
    /\ q.op = "update" /\ q.pc > 4 /\ Script(f, q.op)[4] = "findRow" => t[q.row] # None

\* The uncommitted columns: a new row has all of them, but for the key of a
\* category, which comes last; an old one those that the endpoint may write.
Position(f, q) ==
    \/ Current(f, q) \in {"content", "commit"}
    \/ Current(f, q) = "findOtherKey" /\ q.op = "create" /\ f = "category"
NewRow(f, q) ==
    /\ "created" \in q.told
    /\ Columns \ {"key"} \subseteq DOMAIN q.pend
    /\ "key" \in DOMAIN q.pend
          \/ (f = "category" /\ q.op = "create" /\ Current(f, q) # "commit")
OldRow(q) ==
    /\ q.op # "create"
    /\ q.op = "update" => "deleted" \notin DOMAIN q.pend
    /\ q.op = "delete" => DOMAIN q.pend = {"deleted"} /\ q.pend["deleted"]
    /\ "deleted" \in DOMAIN q.pend =>
          IF q.pend["deleted"] THEN "deleted" \in q.told \/ q.op = "statusUpdate"
          ELSE "restored" \in q.told
Pending(f, t, q) ==
    q.pend # Nothing =>
    /\ f \notin Logs /\ q.row \in Rows
    /\ Position(f, q)
    /\ IF t[q.row] = None THEN NewRow(f, q) ELSE OldRow(q)
Writing(f, q) ==
    Busy(f, q) /\ q.op = "create" /\ Current(f, q) \in {"content", "findOtherKey"}
        => q.pend # Nothing

Fine(f, t, q) ==
    /\ q \in RequestIn(f)
    /\ Control(f, q) /\ Named(f, q) /\ Entity(f, q) /\ Loaded(f, t, q) /\ Found(f, t, q)
    /\ Pending(f, t, q) /\ Writing(f, q)

\* An uncommitted change holds its part of the row against all others, and its key.
Locks ==
    \A r, s \in Requests :
        r # s /\ req[r].row = req[s].row
            => Groups(req[r].pend) \cap Groups(req[s].pend) = {}
Holds(q) == Entities[feature].unique /\ "key" \in DOMAIN q.pend
KeysHeld ==
    /\ \A r \in Requests, j \in Rows :
          Holds(req[r]) /\ j # req[r].row /\ rows[j] # None
              => rows[j].key # req[r].pend["key"]
    /\ \A r, s \in Requests :
          r # s /\ Holds(req[r]) /\ Holds(req[s]) => req[r].pend["key"] # req[s].pend["key"]

\* A permission that is to be restored is there.
Regranted ==
    \A r \in Requests :
        req[r].op = "regrant" /\ req[r].pc = 2 => grants[req[r].perm].row # "none"

(***************************************************************************)
(* From one step of an endpoint to the next.                               *)
(***************************************************************************)

LEMMA RoutesAre ==
    ASSUME NEW f \in DOMAIN Controllers
    PROVE  /\ Routes[f] \subseteq Endpoint
           /\ f \in Logs => Routes[f] = {"read", "delete", "find"}
           /\ f \in {"brand", "carrier", "client", "discount", "place", "template", "permission",
                     "category", "user"} \cup Logs
<1>1. f \in {"brand", "carrier", "client", "discount", "place", "template", "permission",
            "category", "user"} \cup Logs
  BY DEF Controllers, Logs
<1>2. Routes[f] \subseteq Endpoint
  BY <1>1 DEF Routes, brandRoutes, carrierRoutes, clientRoutes, discountRoutes, placeRoutes,
     templateRoutes, permissionRoutes, categoryRoutes, userRoutes, LogRoutes, Common, Endpoint,
     Logs
<1>3. f \in Logs => Routes[f] = {"read", "delete", "find"}
  BY <1>1 DEF Routes, LogRoutes, Logs
<1> QED
  BY <1>1, <1>2, <1>3

LEMMA EndpointsAre == "none" \notin Endpoint \cup GrantOps /\ Endpoint \cap GrantOps = {}
BY GrantOpsAre DEF Endpoint

\* Where a request is that is at the step a.
LEMMA Here ==
    ASSUME NEW f \in DOMAIN Controllers, NEW q \in RequestIn(f), Busy(f, q), Control(f, q)
    PROVE  LET a == Current(f, q) IN
           /\ q.op \in Endpoint /\ q.op \notin GrantOps /\ q.pc \in 1..9
           /\ a \in StepName
           /\ q.pc > 3 => StepOK(f, q.op, a)
           /\ q.pc <= 3 => a = <<"fetchPerms", "setPerms", "can">>[q.pc]
           /\ q.pc <= Len(Script(f, q.op)) /\ Len(Script(f, q.op)) \in 4..9
<1>1. q.op \in Endpoint /\ q.op \notin GrantOps /\ q.op \in Routes[f]
  BY RoutesAre, EndpointsAre DEF Busy
<1>2. ScriptOK(f, q.op)
  BY <1>1, ScriptsOK
<1>3. PICK s : s = Script(f, q.op)
  OBVIOUS
<1>4. WholeOK(f, q.op, s)
  BY <1>2, <1>3 DEF ScriptOK
<1>5. PICK n : n = q.pc
  OBVIOUS
<1>6. n \in 0..10 /\ n > 0 /\ n <= Len(s)
  BY <1>1, <1>3, <1>5 DEF Busy, Control, RequestIn, Places
<1>7. s \in Seq(StepName) /\ Len(s) \in 4..9
  BY <1>4 DEF WholeOK
<1>8. n \in 1..9 /\ n \in 1..Len(s) /\ s[n] \in StepName
  BY <1>6, <1>7
<1>9. n > 3 => StepOK(f, q.op, s[n])
  BY <1>4, <1>8 DEF WholeOK
<1>10. n <= 3 => s[n] = <<"fetchPerms", "setPerms", "can">>[n]
  <2>1. n <= 3 => n = 1 \/ n = 2 \/ n = 3
    BY <1>8
  <2> QED
    BY <2>1, <1>4 DEF WholeOK
<1> QED
  BY <1>1, <1>3, <1>5, <1>6, <1>7, <1>8, <1>9, <1>10 DEF Current

LEMMA Onward ==
    ASSUME NEW f \in DOMAIN Controllers, NEW q \in RequestIn(f), Busy(f, q), Control(f, q),
           Current(f, q) \notin Finals,
           NEW p \in RequestIn(f), p.op = q.op, p.pc = q.pc + 1
    PROVE  /\ Busy(f, p) /\ p.pc <= Len(Script(f, p.op))
           /\ q.pc > 2 => Follows(q.op, Current(f, q), Current(f, p))
           /\ p.pc > 3 => StepOK(f, p.op, Current(f, p))
           /\ p.pc <= 3 => Current(f, p) = <<"fetchPerms", "setPerms", "can">>[p.pc]
<1>1. PICK s : s = Script(f, q.op)
  OBVIOUS
<1>2. WholeOK(f, q.op, s)
  BY <1>1, ScriptsOK DEF Busy, ScriptOK
<1>3. PICK n \in 1..9 : n = q.pc
  BY Here
<1>4. n <= Len(s) /\ Len(s) \in 4..9
  BY <1>1, <1>3, Here
<1>5. n # Len(s)
  <2>1. ASSUME n = Len(s) PROVE FALSE
    <3>1. n \in 4..Len(s)
      BY <1>4, <2>1
    <3>2. s[n] \in Finals
      BY <1>2, <2>1, <3>1 DEF WholeOK
    <3> QED
      BY <3>2, <1>1, <1>3 DEF Current
  <2> QED
    BY <2>1
<1>6. n < Len(s) /\ n + 1 <= Len(s) /\ n + 1 \in 2..9
  <2>1. PICK m \in 4..9 : m = Len(s)
    BY <1>4
  <2>2. n <= m /\ n # m
    BY <2>1, <1>4, <1>5
  <2>3. n < m /\ n + 1 <= m /\ n + 1 \in 2..9
    BY <2>2
  <2> QED
    BY <2>1, <2>3
<1>7. p.pc = n + 1 /\ Script(f, p.op) = s
  BY <1>1, <1>3
<1>8. Current(f, q) = s[n] /\ Current(f, p) = s[n+1]
  BY <1>1, <1>3, <1>7 DEF Current
<1>9. n > 2 => Follows(q.op, s[n], s[n+1])
  BY <1>2, <1>4, <1>6 DEF WholeOK
<1>10. n + 1 > 3 => StepOK(f, q.op, s[n+1])
  BY <1>2, <1>4, <1>6 DEF WholeOK
<1>11. n + 1 <= 3 => s[n+1] = <<"fetchPerms", "setPerms", "can">>[n+1]
  <2>1. n + 1 <= 3 => n + 1 = 2 \/ n + 1 = 3
    BY <1>6
  <2> QED
    BY <2>1, <1>2 DEF WholeOK
<1>12. Busy(f, p)
  BY <1>6, <1>7 DEF Busy
<1> QED
  BY <1>3, <1>6, <1>7, <1>8, <1>9, <1>10, <1>11, <1>12

\* A request that has ended, and one that has not begun.
LEMMA EndedIsFine ==
    ASSUME NEW f \in DOMAIN Controllers, NEW t, NEW p \in RequestIn(f), p.pc = 0,
           p.pend = Nothing, p.told = {}, p.loaded = Nothing
    PROVE  Fine(f, t, p)
<1>1. ~Busy(f, p)
  BY DEF Busy
<1>2. Control(f, p)
  <2>1. p.pc <= Len(Script(f, p.op)) \/ p.op \notin Routes[f]
    BY ScriptsOK DEF ScriptOK, WholeOK
  <2> QED
    BY <1>1, <2>1 DEF Control
<1> QED
  BY <1>1, <1>2 DEF Fine, Named, Entity, Loaded, Found, Pending, Writing

LEMMA AnswerIsFine ==
    ASSUME NEW f \in DOMAIN Controllers, NEW t, NEW q \in RequestIn(f), NEW code \in Codes
    PROVE  Fine(f, t, Answer(q, code))
BY AnswerIsRequest, EndedIsFine DEF Ended

\* A step that leaves what is uncommitted alone.
LEMMA Moved ==
    ASSUME NEW f \in DOMAIN Controllers, NEW t, NEW q, Fine(f, t, q), Busy(f, q),
           NEW a, a = Current(f, q),
           a \notin Finals \cup {"insert", "insertNode", "softRemove"},
           a = "content" => q.op # "create",
           NEW p \in RequestIn(f), p.op = q.op, p.row = q.row, p.data = q.data,
           p.pc = q.pc + 1, p.pend = q.pend, p.told = q.told, p.code = q.code,
           Loaded(f, t, p),
           "content" \notin DOMAIN p.entity,
           q.op = "create" => DOMAIN p.entity = {} /\ p.loaded = Nothing,
           q.op = "restore" /\ "deleted" \in DOMAIN p.entity => ~p.entity["deleted"],
           a = "load" /\ q.op = "update" => "deleted" \notin DOMAIN p.entity,
           a \in {"pick", "findRow"} => t[q.row] # None
    PROVE  Fine(f, t, p)
<1>1. q \in RequestIn(f) /\ Control(f, q)
  BY DEF Fine
<1>2. PICK b : b = Current(f, p)
  OBVIOUS
<1>3. /\ Busy(f, p) /\ p.pc <= Len(Script(f, p.op))
      /\ q.pc > 2 => Follows(q.op, a, b)
      /\ p.pc > 3 => StepOK(f, p.op, b)
      /\ p.pc <= 3 => b = <<"fetchPerms", "setPerms", "can">>[p.pc]
  BY <1>1, <1>2, Onward
<1>4. /\ q.op \in Endpoint /\ q.op \notin GrantOps /\ q.pc \in 1..9
      /\ q.pc > 3 => StepOK(f, q.op, a)
      /\ q.pc <= 3 => a = <<"fetchPerms", "setPerms", "can">>[q.pc]
  BY <1>1, Here
<1>5. q.pc > 2 \/ b \in {"setPerms", "can"}
  <2>1. PICK m \in 1..9 : q.pc = m
    BY <1>4
  <2>2. m <= 2 => (m = 1 /\ p.pc = 2) \/ (m = 2 /\ p.pc = 3)
    BY <2>1
  <2> QED
    BY <1>3, <2>1, <2>2
<1>6. q.pc > 3 \/ a \in {"fetchPerms", "setPerms", "can"}
  <2>1. PICK m \in 1..9 : q.pc = m
    BY <1>4
  <2>2. m <= 3 => m = 1 \/ m = 2 \/ m = 3
    BY <2>1
  <2> QED
    BY <1>4, <2>1, <2>2
<1>7. Control(f, p)
  BY <1>1, <1>3, <1>4, EndpointsAre DEF Control, Busy, Fine
<1>8. Named(f, p)
  BY DEF Fine, Named, Busy
<1>9. Entity(f, p)
  BY <1>2, <1>3, <1>5 DEF Entity, Follows
<1>10. Found(f, t, p)
  <2>1. b = "softRemove" => t[p.row] # None
    BY <1>3, <1>5 DEF Follows
  <2>2. ASSUME p.op = "update", p.pc > 4, Script(f, p.op)[4] = "findRow"
        PROVE  t[p.row] # None
    <3>1. CASE q.pc > 4
      BY <2>2, <3>1 DEF Fine, Found
    <3>2. CASE q.pc = 4
      BY <2>2, <3>2 DEF Current
    <3> QED
      BY <1>4, <2>2, <3>1, <3>2
  <2> QED
    BY <1>2, <2>1, <2>2 DEF Found
<1>11. Pending(f, t, p)
  <2>1. SUFFICES ASSUME p.pend # Nothing PROVE Pending(f, t, p)
    BY DEF Pending
  <2>2. Position(f, q) /\ f \notin Logs /\ q.row \in Rows
    BY <2>1 DEF Fine, Pending
  <2>3. \/ a = "findOtherKey" /\ q.op = "create" /\ f = "category"
        \/ a = "content" /\ q.op # "create"
    BY <2>2 DEF Position, Finals
  <2>4. q.pc > 2
    BY <1>4, <1>6, <2>3
  <2>5. b \in {"content", "commit"} /\ (a = "findOtherKey" => b = "content")
    BY <1>3, <2>3, <2>4 DEF Follows
  <2>6. Position(f, p)
    BY <1>2, <2>5 DEF Position
  <2>7. NewRow(f, q) => NewRow(f, p)
    BY <1>2, <2>3, <2>5 DEF NewRow
  <2>8. OldRow(q) => OldRow(p)
    BY DEF OldRow
  <2> QED
    BY <2>1, <2>2, <2>6, <2>7, <2>8 DEF Fine, Pending
<1>12. Writing(f, p)
  <2>1. SUFFICES ASSUME Busy(f, p), p.op = "create", b \in {"content", "findOtherKey"}
                 PROVE  p.pend # Nothing
    BY <1>2 DEF Writing
  <2>2. q.pc > 2
    BY <1>5, <2>1
  <2>3. a = "findOtherKey"
    BY <1>3, <2>1, <2>2 DEF Follows
  <2> QED
    BY <2>1, <2>3 DEF Fine, Writing
<1> QED
  BY <1>7, <1>8, <1>9, <1>10, <1>11, <1>12 DEF Fine

(***************************************************************************)
(* The kinds of steps. What a step does to its request:                    *)
(***************************************************************************)

Sound ==
    /\ feature \in Features /\ feature \in DOMAIN Controllers
    /\ rows \in Tables /\ cache \in Stores
    /\ order \in [Rows -> Nat] /\ grants \in [Permissions -> Grant]
    /\ req \in [Requests -> RequestIn(feature)]
    /\ permCache \in Maybe(Subsets(Permissions))
    /\ cleaning \subseteq CacheKeys /\ excused \subseteq CacheKeys /\ arrivals \in Nat
    /\ \A r \in Requests : Fine(feature, rows, req[r])

\* It keeps what is uncommitted, or has nothing.
Calm(q, p) ==
    \/ p.pend = q.pend /\ p.told = q.told /\ p.row = q.row
    \/ p.pend = Nothing /\ p.told = {}

\* It shows the client nothing new.
Keeps(q, p) ==
    /\ p.op = q.op /\ p.perms = q.perms /\ p.got = q.got /\ p.page = q.page
    /\ q.op = "read" => p.row = q.row
    /\ q.pc > 0
    /\ p.pc > 1 /\ q.op \in Endpoint => q.pc > 1
    /\ p.pc > 3 => q.pc > 3
    /\ p.pc \in 1..3 => q.pc \in 1..3
    /\ p.code = 200 => q.op # "read" /\ (q.pc > 3 \/ q.op \notin Endpoint)
Begins(now, q, p) ==
    /\ q.op = "none" /\ p.code = 0 /\ p.got = None /\ p.page = {} /\ p.pc \in {0, 1, 3}
    /\ p.pc = 3 => p.perms = now
Leaves(p) == p.op = "none" /\ p.page = {}
Authenticates(now, q, p) ==
    /\ p.op = q.op /\ p.row = q.row /\ p.got = q.got /\ p.page = q.page /\ p.code = q.code
    /\ q.pc = 1 /\ p.pc = 2 /\ p.perms = now
IsLetIn(q, p) ==
    /\ p.op = q.op /\ p.row = q.row /\ p.got = q.got /\ p.page = q.page /\ p.code = q.code
    /\ p.perms = q.perms
    /\ q.pc = 3 /\ p.pc = 4 /\ Needs(q.op) \in q.perms
Looks(t, q, p) ==
    /\ q.op = "read" /\ p.op = "read" /\ p.row = q.row /\ p.perms = q.perms /\ p.page = q.page
    /\ q.pc > 3 /\ (p.pc = 0 \/ p.pc > 3)
    /\ \/ p.got \in {q.got, None}
       \/ p.got = t[q.row] /\ (p.got.deleted => "delete" \in q.perms)
    /\ p.code = 200 => p.got # None
Finds(q, p) ==
    /\ p.op = q.op /\ q.op = "find" /\ p.perms = q.perms /\ q.pc > 3 /\ p.pc = 0
    /\ \A v \in p.page : v.deleted => "delete" \in q.perms
Revives(q, p) ==
    /\ q.op = "create" /\ p.op = "restore" /\ p.perms = q.perms /\ p.page = q.page
    /\ q.pc > 3 /\ p.pc = 4 /\ "delete" \in q.perms /\ p.code # 200
Honest(t, now, q, p) ==
    \/ Keeps(q, p) \/ Begins(now, q, p) \/ Leaves(p) \/ Authenticates(now, q, p)
    \/ IsLetIn(q, p) \/ Looks(t, q, p) \/ Finds(q, p) \/ Revives(q, p)

Turns(r, p) ==
    /\ Becomes(r, p) /\ p \in RequestIn(feature)
    /\ Honest(rows, Granted, req[r], p)
    /\ p.op = "regrant" /\ p.pc = 2 => grants[p.perm].row # "none"
Plain(r) ==
    /\ \E p : Turns(r, p) /\ Fine(feature, rows, p) /\ Calm(req[r], p)
    /\ UNCHANGED <<feature, rows, grants, cache, permCache, cleaning, excused>>
    /\ order' \in [Rows -> Nat] /\ arrivals' \in Nat

LEMMA AtIs ==
    ASSUME Sound, NEW r \in Requests, NEW a \in StepName, At(r, a)
    PROVE  /\ req[r] \in RequestIn(feature) /\ Fine(feature, rows, req[r])
           /\ feature \in DOMAIN Controllers /\ rows \in Tables
           /\ Busy(feature, req[r]) /\ Current(feature, req[r]) = a /\ req[r].pc \in 1..9
           /\ req[r].op \in Endpoint /\ req[r].op \notin GrantOps
<1>1. PICK q : q = req[r]
  OBVIOUS
<1>2. /\ q \in RequestIn(feature) /\ Fine(feature, rows, q) /\ Control(feature, q)
      /\ feature \in DOMAIN Controllers
  BY <1>1 DEF Sound, Fine
<1>3. q.pc > 0 /\ Script(feature, q.op)[q.pc] = a
  BY <1>1 DEF At
<1>4. q.op \in {"none"} \cup Routes[feature] \cup GrantOps
  BY <1>2 DEF RequestIn, OpsIn
<1>5. q.op \notin GrantOps
  <2>1. SUFFICES ASSUME q.op \in GrantOps PROVE FALSE
    OBVIOUS
  <2>2. PICK n : n = q.pc
    OBVIOUS
  <2>3. n = 1 \/ n = 2
    BY <1>2, <1>3, <2>1, <2>2 DEF Control
  <2>4. Script(feature, q.op)[n] \in {"findGrant", "saveGrant", "pickGrant", "removeGrant",
                                      "pickAnyGrant", "restoreGrant"}
    BY <2>1, <2>3, GrantOpsAre, GrantScripts
  <2> QED
    BY <1>3, <2>2, <2>4 DEF StepName
<1>6. Busy(feature, q)
  BY <1>2, <1>3, <1>4, <1>5 DEF Control, Busy
<1>7. q.op \in Endpoint /\ q.pc \in 1..9
  BY <1>2, <1>6, Here
<1> QED
  BY <1>1, <1>2, <1>3, <1>5, <1>6, <1>7 DEF Current, Sound

LEMMA FailsIs ==
    ASSUME Sound, NEW r \in Requests, req[r].pc > 0, NEW code \in Codes \ {200}, Fails(r, code)
    PROVE  \E p : Turns(r, p) /\ Fine(feature, rows, p) /\ Calm(req[r], p)
<1>1. PICK q : q = req[r]
  OBVIOUS
<1>2. PICK p : p = Answer(q, code)
  OBVIOUS
<1>3. q \in RequestIn(feature) /\ feature \in DOMAIN Controllers
  BY <1>1 DEF Sound
<1>4. /\ p \in RequestIn(feature) /\ p.code = code /\ p.got = q.got /\ p.page = q.page
      /\ Ended(q, p)
  BY <1>2, <1>3, AnswerIsRequest
<1>5. Fine(feature, rows, p)
  BY <1>2, <1>3, AnswerIsFine
<1>6. Keeps(q, p)
  BY <1>1, <1>4 DEF Keeps, Ended
<1>7. Becomes(r, p)
  BY <1>1, <1>2 DEF Fails
<1> QED
  BY <1>1, <1>4, <1>5, <1>6, <1>7 DEF Turns, Honest, Calm, Ended

LEMMA NextIs ==
    ASSUME NEW f, NEW q \in RequestIn(f), q.pc \in 0..9
    PROVE  LET p == Next1(q) IN
           /\ p \in RequestIn(f) /\ p.pc = q.pc + 1
           /\ p.op = q.op /\ p.row = q.row /\ p.perm = q.perm /\ p.data = q.data /\ p.ids = q.ids
           /\ p.code = q.code /\ p.perms = q.perms /\ p.entity = q.entity
           /\ p.loaded = q.loaded /\ p.pend = q.pend /\ p.got = q.got /\ p.told = q.told
           /\ p.page = q.page
<1>1. PICK n : n = q.pc + 1
  OBVIOUS
<1>2. n \in Places
  BY <1>1 DEF Places
<1>3. PICK p : p = [q EXCEPT !.pc = n]
  OBVIOUS
<1>4. p = Next1(q)
  BY <1>1, <1>3 DEF Next1, RequestIn
<1>5. p \in RequestIn(f)
  BY <1>2, <1>3 DEF RequestIn
<1>6. /\ p.pc = n
      /\ p.op = q.op /\ p.row = q.row /\ p.perm = q.perm /\ p.data = q.data /\ p.ids = q.ids
      /\ p.code = q.code /\ p.perms = q.perms /\ p.entity = q.entity
      /\ p.loaded = q.loaded /\ p.pend = q.pend /\ p.got = q.got /\ p.told = q.told
      /\ p.page = q.page
  BY <1>3 DEF RequestIn
<1> QED
  BY <1>1, <1>4, <1>5, <1>6

\* A step that goes on and leaves what is uncommitted, and what is shown, alone.
Inner == StepName \ (Finals \cup {"insert", "insertNode", "content", "softRemove", "can",
                                  "fetchPerms"})
Same(q, p) ==
    /\ p.pc = q.pc + 1
    /\ p.op = q.op /\ p.row = q.row /\ p.data = q.data /\ p.code = q.code /\ p.perms = q.perms
    /\ p.pend = q.pend /\ p.told = q.told /\ p.got = q.got /\ p.page = q.page
Saves(f, t, q, p) ==
    /\ Loaded(f, t, p)
    /\ "content" \notin DOMAIN p.entity
    /\ q.op = "create" => DOMAIN p.entity = {} /\ p.loaded = Nothing
    /\ q.op = "restore" /\ "deleted" \in DOMAIN p.entity => ~p.entity["deleted"]
    /\ Current(f, q) = "load" /\ q.op = "update" => "deleted" \notin DOMAIN p.entity

LEMMA SameIs ==
    ASSUME NEW f \in DOMAIN Controllers, NEW q \in RequestIn(f), Control(f, q), Busy(f, q),
           Current(f, q) \in Inner, NEW p, Same(q, p)
    PROVE  Keeps(q, p)
<1>1. PICK n \in 1..9 : q.pc = n
  BY Here
<1>2. n \notin {1, 3}
  BY <1>1, Here DEF Inner
<1>3. p.pc = n + 1
  BY <1>1 DEF Same
<1>4. /\ q.pc > 0 /\ q.pc > 1 /\ (p.pc > 3 => q.pc > 3)
      /\ (p.pc \in 1..3 => q.pc \in 1..3)
  BY <1>1, <1>2, <1>3
<1>5. q.code # 200
  BY <1>4 DEF Control
<1> QED
  BY <1>4, <1>5 DEF Keeps, Same

LEMMA GoesOn ==
    ASSUME Sound, NEW r \in Requests, NEW a \in Inner, At(r, a),
           NEW p \in RequestIn(feature), Becomes(r, p),
           Same(req[r], p), Saves(feature, rows, req[r], p),
           a \in {"pick", "findRow"} => rows[req[r].row] # None
    PROVE  \E z : Turns(r, z) /\ Fine(feature, rows, z) /\ Calm(req[r], z)
<1>1. PICK q : q = req[r]
  OBVIOUS
<1>2. /\ q \in RequestIn(feature) /\ Fine(feature, rows, q) /\ feature \in DOMAIN Controllers
      /\ Busy(feature, q) /\ Current(feature, q) = a /\ q.op \in Endpoint /\ q.op \notin GrantOps
  BY <1>1, AtIs DEF Inner
<1>3. Keeps(q, p)
  BY <1>1, <1>2, SameIs DEF Fine
<1>4. Fine(feature, rows, p)
  <2>1. a \notin Finals \cup {"insert", "insertNode", "content", "softRemove"}
    BY DEF Inner
  <2> HIDE DEF Saves
  <2> QED
    BY <1>1, <1>2, <2>1, Moved DEF Same, Saves
<1>5. p.op # "regrant"
  BY <1>1, <1>2, GrantOpsAre DEF Same
<1> QED
  BY <1>1, <1>3, <1>4, <1>5 DEF Turns, Honest, Calm, Same

LEMMA NextIsOn ==
    ASSUME Sound, NEW r \in Requests, NEW a \in Inner, At(r, a), Becomes(r, Next1(req[r])),
           a \in {"pick", "findRow"} => rows[req[r].row] # None,
           a = "load" => req[r].op # "update"
    PROVE  \E z : Turns(r, z) /\ Fine(feature, rows, z) /\ Calm(req[r], z)
<1>1. PICK q : q = req[r]
  OBVIOUS
<1>2. /\ q \in RequestIn(feature) /\ Fine(feature, rows, q) /\ feature \in DOMAIN Controllers
      /\ Busy(feature, q) /\ Current(feature, q) = a /\ q.pc \in 1..9
  BY <1>1, AtIs DEF Inner
<1>3. PICK p : p = Next1(q)
  OBVIOUS
<1>4. p \in RequestIn(feature) /\ Same(q, p) /\ p.entity = q.entity /\ p.loaded = q.loaded
  <2>1. q.pc \in 0..9
    BY <1>2
  <2> QED
    BY <1>2, <1>3, <2>1, NextIs DEF Same
<1>5. Saves(feature, rows, q, p)
  BY <1>1, <1>2, <1>4 DEF Saves, Fine, Loaded, Entity, Same
<1> QED
  BY <1>1, <1>3, <1>4, <1>5, GoesOn

\* What is left of a step that only looks.
LEMMA ReadsOnly ==
    ASSUME Sound, NEW r, Reads,
           \E p : Turns(r, p) /\ Fine(feature, rows, p) /\ Calm(req[r], p)
    PROVE  Plain(r)
BY DEF Sound, Reads, Plain

LEMMA Checked ==
    ASSUME Sound, NEW r \in Requests, NEW a \in Inner, At(r, a), Reads, a # "load",
           \/ /\ Becomes(r, Next1(req[r]))
              /\ a \in {"pick", "findRow"} => rows[req[r].row] # None
           \/ \E code \in Codes \ {200} : Fails(r, code)
    PROVE  Plain(r)
<1>1. req[r].pc > 0
  BY DEF At
<1> QED
  BY <1>1, NextIsOn, FailsIs, ReadsOnly

LEMMA Checks ==
    ASSUME Sound, NEW r \in Requests,
           \/ FetchTexts(r) \/ FindKey(r) \/ FindOtherKey(r) \/ Children(r) \/ Retype(r)
           \/ FindParent(r) \/ NewParent(r) \/ EndSessions(r) \/ Count(r) \/ Pick(r)
    PROVE  Plain(r)
<1>0. {400, 404, 409} \subseteq Codes \ {200}
  BY DEF Codes
<1>1. CASE FetchTexts(r)
  BY <1>1, Checked DEF FetchTexts, Inner, StepName, Finals, Reads
<1>2. CASE FindKey(r)
  BY <1>0, <1>2, Checked DEF FindKey, Inner, StepName, Finals
<1>3. CASE FindOtherKey(r)
  BY <1>0, <1>3, Checked DEF FindOtherKey, Inner, StepName, Finals
<1>4. CASE Children(r)
  BY <1>0, <1>4, Checked DEF Children, Inner, StepName, Finals
<1>5. CASE Retype(r)
  BY <1>0, <1>5, Checked DEF Retype, Inner, StepName, Finals
<1>6. CASE FindParent(r)
  BY <1>0, <1>6, Checked DEF FindParent, Inner, StepName, Finals
<1>7. CASE NewParent(r)
  BY <1>0, <1>7, Checked DEF NewParent, Inner, StepName, Finals
<1>8. CASE EndSessions(r)
  BY <1>0, <1>8, Checked DEF EndSessions, Inner, StepName, Finals
<1>9. CASE Count(r)
  BY <1>0, <1>9, Checked DEF Count, Inner, StepName, Finals
<1>10. CASE Pick(r)
  BY <1>0, <1>10, Checked DEF Pick, Live, Inner, StepName, Finals
<1> QED
  BY <1>1, <1>2, <1>3, <1>4, <1>5, <1>6, <1>7, <1>8, <1>9, <1>10

\* The steps that put a row into the request.
Took(q, e, l, I) == [q EXCEPT !.entity = e, !.loaded = l, !.ids = I]
LEMMA NextOfIs ==
    ASSUME NEW f, NEW q \in RequestIn(f), q.pc \in 0..9, NEW e \in Parts, NEW l \in Parts,
           NEW I \in Subsets(Rows)
    PROVE  LET p == Next1(Took(q, e, l, I)) IN
           p \in RequestIn(f) /\ Same(q, p) /\ p.entity = e /\ p.loaded = l
<1>1. PICK z : z = Took(q, e, l, I)
  OBVIOUS
<1>2. z \in RequestIn(f)
  BY <1>1 DEF RequestIn, Took
<1>3. /\ z.pc = q.pc /\ z.op = q.op /\ z.row = q.row /\ z.data = q.data /\ z.code = q.code
      /\ z.perms = q.perms /\ z.pend = q.pend /\ z.told = q.told /\ z.got = q.got
      /\ z.page = q.page /\ z.entity = e /\ z.loaded = l
  BY <1>1 DEF RequestIn, Took
<1>4. PICK p : p = Next1(z)
  OBVIOUS
<1>5. /\ p \in RequestIn(f) /\ p.pc = z.pc + 1
      /\ p.op = z.op /\ p.row = z.row /\ p.data = z.data
      /\ p.code = z.code /\ p.perms = z.perms /\ p.entity = z.entity
      /\ p.loaded = z.loaded /\ p.pend = z.pend /\ p.got = z.got /\ p.told = z.told
      /\ p.page = z.page
  BY <1>2, <1>3, <1>4, NextIs
<1> QED
  BY <1>1, <1>3, <1>4, <1>5 DEF Same

LEMMA TypedRow ==
    ASSUME NEW t \in Tables, NEW i \in Rows, t[i] # None
    PROVE  t[i] \in Row
BY DEF Tables, Maybe

LEMMA FindRowIs ==
    ASSUME Sound, NEW r \in Requests, FindRow(r)
    PROVE  Plain(r)
<1>1. PICK q : q = req[r]
  OBVIOUS
<1>2. "findRow" \in Inner /\ At(r, "findRow") /\ 404 \in Codes \ {200} /\ q.pc > 0
  BY <1>1 DEF FindRow, Inner, StepName, Finals, Codes, At
<1>3. /\ q \in RequestIn(feature) /\ Fine(feature, rows, q) /\ feature \in DOMAIN Controllers
      /\ Busy(feature, q) /\ Current(feature, q) = "findRow" /\ q.pc \in 1..9 /\ rows \in Tables
  BY <1>1, <1>2, AtIs DEF Inner
<1>4. ASSUME Visible(q, q.row)
      PROVE  \E p : Turns(r, p) /\ Fine(feature, rows, p) /\ Calm(req[r], p)
  <2>1. PICK e : e = OwnPart(rows[q.row])
    OBVIOUS
  <2>2. q.pc > 3 /\ q.op \in {"update", "statusUpdate"}
    BY <1>3, Here DEF Fine, StepOK, Allowed, Endpoint
  <2>3. q.row \in Rows /\ rows[q.row] # None
    BY <1>3, <1>4, <2>2 DEF Fine, Named, Visible
  <2>4. e \in Parts /\ DOMAIN e = Own
    BY <1>3, <2>1, <2>3, TypedRow, RowIsPart
  <2>5. q.loaded \in Parts /\ q.ids \in Subsets(Rows) /\ q.pc \in 0..9
    BY <1>3 DEF RequestIn
  <2>6. PICK p : p = Next1(Took(q, e, q.loaded, q.ids))
    OBVIOUS
  <2>7. p = Next1([q EXCEPT !.entity = e])
    BY <1>3, <2>6 DEF RequestIn, Took
  <2>8. p \in RequestIn(feature) /\ Same(q, p) /\ p.entity = e /\ p.loaded = q.loaded
    BY <1>3, <2>4, <2>5, <2>6, NextOfIs
  <2>9. Saves(feature, rows, q, p)
    BY <1>3, <2>2, <2>4, <2>8 DEF Saves, Fine, Loaded, Same, Own
  <2>10. Becomes(r, p)
    BY <1>1, <1>4, <2>1, <2>7 DEF FindRow
  <2> QED
    BY <1>1, <1>2, <2>3, <2>8, <2>9, <2>10, GoesOn
<1>5. ASSUME ~Visible(q, q.row) PROVE Fails(r, 404)
  BY <1>1, <1>5 DEF FindRow
<1>6. Reads
  BY DEF FindRow
<1> QED
  BY <1>1, <1>2, <1>4, <1>5, <1>6, FailsIs, ReadsOnly

LEMMA SetStatusIs ==
    ASSUME Sound, NEW r \in Requests, SetStatus(r)
    PROVE  Plain(r)
<1>1. PICK q : q = req[r]
  OBVIOUS
<1>2. "setStatus" \in Inner /\ At(r, "setStatus") /\ 400 \in Codes \ {200} /\ q.pc > 0
  BY <1>1 DEF SetStatus, Inner, StepName, Finals, Codes, At
<1>3. /\ q \in RequestIn(feature) /\ Fine(feature, rows, q) /\ feature \in DOMAIN Controllers
      /\ Busy(feature, q) /\ Current(feature, q) = "setStatus" /\ q.pc \in 1..9 /\ rows \in Tables
  BY <1>1, <1>2, AtIs DEF Inner
<1>4. ASSUME q.entity.state # q.data.state
      PROVE  \E p : Turns(r, p) /\ Fine(feature, rows, p) /\ Calm(req[r], p)
  <2>1. PICK e : e = [q.entity EXCEPT !.state = q.data.state]
    OBVIOUS
  <2>2. q.pc > 3 /\ q.op = "statusUpdate"
    BY <1>3, Here DEF Fine, StepOK, Allowed, Endpoint
  <2>3. "state" \in DOMAIN q.data /\ q.data \in Parts /\ q.entity \in Parts
    BY <1>3, <2>2 DEF Fine, Named, RequestIn
  <2>4. e \in Parts /\ DOMAIN e = DOMAIN q.entity
    BY <2>1, <2>3, PartsAre
  <2>5. q.loaded \in Parts /\ q.ids \in Subsets(Rows) /\ q.pc \in 0..9
    BY <1>3 DEF RequestIn
  <2>6. PICK p : p = Next1(Took(q, e, q.loaded, q.ids))
    OBVIOUS
  <2>7. p = Next1([q EXCEPT !.entity = e])
    BY <1>3, <2>6 DEF RequestIn, Took
  <2>8. p \in RequestIn(feature) /\ Same(q, p) /\ p.entity = e /\ p.loaded = q.loaded
    BY <1>3, <2>4, <2>5, <2>6, NextOfIs
  <2>9. Saves(feature, rows, q, p)
    BY <1>3, <2>2, <2>4, <2>8 DEF Saves, Fine, Loaded, Entity, Same
  <2>10. Becomes(r, p)
    BY <1>1, <1>4, <2>1, <2>7 DEF SetStatus
  <2> QED
    BY <1>1, <1>2, <2>8, <2>9, <2>10, GoesOn
<1>5. ASSUME q.entity.state = q.data.state PROVE Fails(r, 400)
  BY <1>1, <1>5 DEF SetStatus
<1>6. Reads
  BY DEF SetStatus
<1> QED
  BY <1>1, <1>2, <1>4, <1>5, <1>6, FailsIs, ReadsOnly

LEMMA PickAnyIs ==
    ASSUME Sound, NEW r \in Requests, PickAny(r)
    PROVE  Plain(r)
<1>1. PICK q : q = req[r]
  OBVIOUS
<1>2. "pickAny" \in Inner /\ At(r, "pickAny") /\ 404 \in Codes \ {200} /\ q.pc > 0
  BY <1>1 DEF PickAny, Inner, StepName, Finals, Codes, At
<1>3. /\ q \in RequestIn(feature) /\ Fine(feature, rows, q) /\ feature \in DOMAIN Controllers
      /\ Busy(feature, q) /\ Current(feature, q) = "pickAny" /\ q.pc \in 1..9 /\ rows \in Tables
  BY <1>1, <1>2, AtIs DEF Inner
<1>4. ASSUME rows[q.row] # None
      PROVE  \E p : Turns(r, p) /\ Fine(feature, rows, p) /\ Calm(req[r], p)
  <2>1. PICK d : d = OwnPart(rows[q.row])
    OBVIOUS
  <2>2. PICK e : e = [d EXCEPT !.deleted = FALSE]
    OBVIOUS
  <2>3. q.pc > 3 /\ q.op = "restore"
    BY <1>3, Here DEF Fine, StepOK, Allowed, Endpoint
  <2>4. q.row \in Rows
    BY <1>3, <2>3 DEF Fine, Named
  <2>5. d \in Parts /\ DOMAIN d = Own
    BY <1>3, <1>4, <2>1, <2>4, TypedRow, RowIsPart
  <2>6. /\ DOMAIN e = Own /\ e = [c \in Own |-> e[c]] /\ ~e["deleted"]
        /\ \A c \in Own : e[c] \in Values(c)
    BY <2>2, <2>5, PartsAre, ValuesAre DEF Own, Columns
  <2>7. e \in Parts
    BY <2>6, PartsAre DEF Own
  <2>8. q.loaded \in Parts /\ q.ids \in Subsets(Rows) /\ q.pc \in 0..9
    BY <1>3 DEF RequestIn
  <2>9. PICK p : p = Next1(Took(q, e, q.loaded, q.ids))
    OBVIOUS
  <2>10. p = Next1([q EXCEPT !.entity = e])
    BY <1>3, <2>9 DEF RequestIn, Took
  <2>11. p \in RequestIn(feature) /\ Same(q, p) /\ p.entity = e /\ p.loaded = q.loaded
    BY <1>3, <2>7, <2>8, <2>9, NextOfIs
  <2>12. Saves(feature, rows, q, p)
    BY <1>3, <2>3, <2>6, <2>11 DEF Saves, Fine, Loaded, Same, Own
  <2>13. Becomes(r, p)
    BY <1>1, <1>4, <2>1, <2>2, <2>10 DEF PickAny
  <2> QED
    BY <1>1, <1>2, <2>11, <2>12, <2>13, GoesOn
<1>5. ASSUME rows[q.row] = None PROVE Fails(r, 404)
  BY <1>1, <1>5 DEF PickAny
<1>6. Reads
  BY DEF PickAny
<1> QED
  BY <1>1, <1>2, <1>4, <1>5, <1>6, FailsIs, ReadsOnly

LEMMA PickManyIs ==
    ASSUME Sound, NEW r \in Requests, PickMany(r)
    PROVE  Plain(r)
<1>1. PICK q : q = req[r]
  OBVIOUS
<1>2. "pickMany" \in Inner /\ At(r, "pickMany") /\ 404 \in Codes \ {200} /\ q.pc > 0
  BY <1>1 DEF PickMany, Inner, StepName, Finals, Codes, At
<1>3. /\ q \in RequestIn(feature) /\ Fine(feature, rows, q) /\ feature \in DOMAIN Controllers
      /\ Busy(feature, q) /\ Current(feature, q) = "pickMany" /\ q.pc \in 1..9 /\ rows \in Tables
  BY <1>1, <1>2, AtIs DEF Inner
<1>4. PICK found : found = {i \in q.ids : rows[i] # None}
  OBVIOUS
<1>5. ASSUME found # {}
      PROVE  \E p : Turns(r, p) /\ Fine(feature, rows, p) /\ Calm(req[r], p)
  <2>1. q.loaded \in Parts /\ q.entity \in Parts /\ found \in Subsets(Rows) /\ q.pc \in 0..9
    BY <1>3, <1>4 DEF RequestIn, Subsets
  <2>2. PICK p : p = Next1(Took(q, q.entity, q.loaded, found))
    OBVIOUS
  <2>3. p = Next1([q EXCEPT !.ids = found])
    BY <1>3, <2>2 DEF RequestIn, Took
  <2>4. p \in RequestIn(feature) /\ Same(q, p) /\ p.entity = q.entity /\ p.loaded = q.loaded
    BY <1>3, <2>1, <2>2, NextOfIs
  <2>5. Saves(feature, rows, q, p)
    BY <1>3, <2>4 DEF Saves, Fine, Loaded, Entity, Same
  <2>6. Becomes(r, p)
    BY <1>1, <1>4, <1>5, <2>3 DEF PickMany
  <2> QED
    BY <1>1, <1>2, <2>4, <2>5, <2>6, GoesOn
<1>6. ASSUME found = {} PROVE Fails(r, 404)
  BY <1>1, <1>4, <1>6 DEF PickMany
<1>7. Reads
  BY DEF PickMany
<1> QED
  BY <1>1, <1>2, <1>5, <1>6, <1>7, FailsIs, ReadsOnly

LEMMA LoadIs ==
    ASSUME Sound, NEW r \in Requests, Load(r)
    PROVE  Plain(r)
<1>1. PICK q : q = req[r]
  OBVIOUS
<1>2. "load" \in Inner /\ At(r, "load")
  BY DEF Load, Inner, StepName, Finals
<1>3. /\ q \in RequestIn(feature) /\ Fine(feature, rows, q) /\ feature \in DOMAIN Controllers
      /\ Busy(feature, q) /\ Current(feature, q) = "load" /\ q.pc \in 1..9 /\ rows \in Tables
  BY <1>1, <1>2, AtIs DEF Inner
<1>4. q.pc > 3 /\ q.op \in {"update", "statusUpdate", "restore"}
  BY <1>3, Here DEF Fine, StepOK, Allowed, Endpoint
<1>5. feature \notin Logs /\ q.row \in Rows
  BY <1>3, <1>4, RoutesAre DEF Busy, Fine, Named
<1>6. PICK l : l = IF rows[q.row] = None THEN Nothing ELSE OwnPart(rows[q.row])
  OBVIOUS
<1>7. l \in Parts /\ (l # Nothing => DOMAIN l = Own /\ rows[q.row] # None)
  BY <1>3, <1>5, <1>6, TypedRow, RowIsPart, NothingIsPart
<1>8. PICK e : e = IF q.op = "update" THEN updateData(q) ELSE q.entity
  OBVIOUS
<1>9. q.data \in Parts /\ q.entity \in Parts /\ "deleted" \notin DOMAIN q.data
  BY <1>3 DEF RequestIn, Fine, Named
<1>10. /\ e \in Parts /\ "content" \notin DOMAIN e
       /\ q.op = "update" => "deleted" \notin DOMAIN e
       /\ q.op # "update" => e = q.entity
  <2>1. PICK d : d = OwnPart(q.data)
    OBVIOUS
  <2>2. DOMAIN d = DOMAIN q.data \cap Own /\ d = [c \in DOMAIN d |-> q.data[c]]
    BY <2>1 DEF OwnPart
  <2>3. d \in Parts
    BY <1>9, <2>2, Restricted
  <2> QED
    BY <1>3, <1>8, <1>9, <2>1, <2>2, <2>3 DEF updateData, Fine, Entity, Own
<1>11. q.ids \in Subsets(Rows) /\ q.pc \in 0..9
  BY <1>3 DEF RequestIn
<1>12. PICK p : p = Next1(Took(q, e, l, q.ids))
  OBVIOUS
<1>13. p = Next1([q EXCEPT !.entity = e, !.loaded = l])
  BY <1>3, <1>12 DEF RequestIn, Took
<1>14. p \in RequestIn(feature) /\ Same(q, p) /\ p.entity = e /\ p.loaded = l
  BY <1>3, <1>7, <1>10, <1>11, <1>12, NextOfIs
<1>15. Saves(feature, rows, q, p)
  <2>1. Loaded(feature, rows, p)
    BY <1>5, <1>7, <1>14 DEF Loaded, Same
  <2> QED
    BY <1>3, <1>4, <1>10, <1>14, <2>1 DEF Saves, Fine, Entity
<1>16. Becomes(r, p)
  <2>1. Becomes(r, Next1([q EXCEPT !.entity = e, !.loaded = l]))
    <3>1. Becomes(r, Next1([q EXCEPT
           !.entity = IF q.op = "update" THEN updateData(q) ELSE @,
           !.loaded = IF rows[q.row] = None THEN Nothing ELSE OwnPart(rows[q.row])]))
      BY <1>1 DEF Load
    <3> QED
      BY <3>1, <1>6, <1>8
  <2> QED
    BY <2>1, <1>13
<1> QED
  BY <1>1, <1>2, <1>14, <1>15, <1>16, GoesOn, ReadsOnly DEF Load

\* The authentication and the policy.
Turned(r) == \E p : Turns(r, p) /\ Fine(feature, rows, p) /\ Calm(req[r], p)

LEMMA GrantedIs == Granted \in Subsets(Permissions)
BY DEF Granted, Subsets

Shown(q, P, g) == [q EXCEPT !.perms = P, !.got = g]
LEMMA NextOfShown ==
    ASSUME NEW f, NEW q \in RequestIn(f), q.pc \in 0..9, NEW P \in Maybe(Subsets(Permissions)),
           NEW g \in Maybe(Row)
    PROVE  LET p == Next1(Shown(q, P, g)) IN
           /\ p \in RequestIn(f) /\ p.pc = q.pc + 1 /\ p.perms = P /\ p.got = g
           /\ p.op = q.op /\ p.row = q.row /\ p.data = q.data /\ p.code = q.code
           /\ p.entity = q.entity /\ p.loaded = q.loaded /\ p.pend = q.pend /\ p.told = q.told
           /\ p.page = q.page
<1>1. PICK z : z = Shown(q, P, g)
  OBVIOUS
<1>2. z \in RequestIn(f)
  BY <1>1 DEF RequestIn, Shown
<1>3. /\ z.pc = q.pc /\ z.perms = P /\ z.got = g
      /\ z.op = q.op /\ z.row = q.row /\ z.data = q.data /\ z.code = q.code
      /\ z.entity = q.entity /\ z.loaded = q.loaded /\ z.pend = q.pend /\ z.told = q.told
      /\ z.page = q.page
  BY <1>1 DEF RequestIn, Shown
<1>4. PICK p : p = Next1(z)
  OBVIOUS
<1>5. /\ p \in RequestIn(f) /\ p.pc = z.pc + 1
      /\ p.op = z.op /\ p.row = z.row /\ p.data = z.data
      /\ p.code = z.code /\ p.perms = z.perms /\ p.entity = z.entity
      /\ p.loaded = z.loaded /\ p.pend = z.pend /\ p.got = z.got /\ p.told = z.told
      /\ p.page = z.page
  BY <1>2, <1>3, <1>4, NextIs
<1> QED
  BY <1>1, <1>3, <1>4, <1>5

\* The rest of a request that goes on and saves nothing else.
LEMMA MovedOn ==
    ASSUME NEW f \in DOMAIN Controllers, NEW t, NEW q, Fine(f, t, q), Busy(f, q),
           NEW a, a = Current(f, q),
           a \notin Finals \cup {"insert", "insertNode", "content", "softRemove", "load", "pick",
                                 "findRow"},
           NEW p \in RequestIn(f), p.op = q.op, p.row = q.row, p.data = q.data,
           p.pc = q.pc + 1, p.pend = q.pend, p.told = q.told, p.code = q.code,
           p.entity = q.entity, p.loaded = q.loaded
    PROVE  Fine(f, t, p)
<1>1. /\ Loaded(f, t, p) /\ "content" \notin DOMAIN p.entity
      /\ q.op = "create" => DOMAIN p.entity = {} /\ p.loaded = Nothing
      /\ q.op = "restore" /\ "deleted" \in DOMAIN p.entity => ~p.entity["deleted"]
  BY DEF Fine, Loaded, Entity
<1> QED
  BY <1>1, Moved

LEMMA FetchPermsIs ==
    ASSUME Sound, NEW r \in Requests, FetchPerms(r)
    PROVE  Plain(r)
<1>1. PICK q : q = req[r]
  OBVIOUS
<1>2. "fetchPerms" \in StepName /\ At(r, "fetchPerms")
  BY DEF FetchPerms, StepName
<1>3. /\ q \in RequestIn(feature) /\ Fine(feature, rows, q) /\ feature \in DOMAIN Controllers
      /\ Busy(feature, q) /\ Current(feature, q) = "fetchPerms" /\ q.pc \in 1..9
      /\ q.op \notin GrantOps
  BY <1>1, <1>2, AtIs
<1>4. q.pc = 1
  <2>1. PICK n \in 1..9 : n = q.pc
    BY <1>3
  <2>2. n <= 3
    BY <1>3, <2>1, Here DEF Fine, StepOK, Allowed, Endpoint
  <2>3. n # 2 /\ n # 3
    BY <1>3, <2>1, Here DEF Fine
  <2> QED
    BY <2>1, <2>2, <2>3
<1>5. PICK P : P = Granted
  OBVIOUS
<1>6. P \in Maybe(Subsets(Permissions)) /\ q.got \in Maybe(Row) /\ q.pc \in 0..9
  BY <1>3, <1>5, GrantedIs DEF Maybe, RequestIn
<1>7. PICK p : p = Next1(Shown(q, P, q.got))
  OBVIOUS
<1>8. /\ p \in RequestIn(feature) /\ p.pc = q.pc + 1 /\ p.perms = P /\ p.got = q.got
      /\ p.op = q.op /\ p.row = q.row /\ p.data = q.data /\ p.code = q.code
      /\ p.entity = q.entity /\ p.loaded = q.loaded /\ p.pend = q.pend /\ p.told = q.told
      /\ p.page = q.page
  BY <1>3, <1>6, <1>7, NextOfShown
<1>9. p = Next1([q EXCEPT !.perms = P])
  BY <1>3, <1>7 DEF RequestIn, Shown
<1>10. Becomes(r, p)
  BY <1>1, <1>5, <1>9 DEF FetchPerms, Served
<1>11. Fine(feature, rows, p)
  BY <1>3, <1>8, MovedOn DEF Finals
<1>12. Authenticates(Granted, q, p)
  BY <1>4, <1>5, <1>8 DEF Authenticates
<1>13. p.op # "regrant"
  BY <1>3, <1>8, GrantOpsAre
<1> QED
  BY <1>1, <1>8, <1>10, <1>11, <1>12, <1>13, ReadsOnly
     DEF Turns, Honest, Calm, FetchPerms, Reads

LEMMA SetPermsIs ==
    ASSUME Sound, NEW r \in Requests, SetPerms(r)
    PROVE  Turned(r) /\ req[r].pc = 2 /\ req[r].op \in Endpoint
<1>1. "setPerms" \in Inner /\ At(r, "setPerms") /\ "setPerms" \notin {"pick", "findRow", "load"}
  BY DEF SetPerms, Inner, StepName, Finals
<1>2. Turned(r)
  BY <1>1, NextIsOn DEF SetPerms, Turned
<1>3. PICK q : q = req[r]
  OBVIOUS
<1>4. /\ q \in RequestIn(feature) /\ Fine(feature, rows, q) /\ feature \in DOMAIN Controllers
      /\ Busy(feature, q) /\ Current(feature, q) = "setPerms" /\ q.pc \in 1..9
      /\ q.op \in Endpoint
  BY <1>1, <1>3, AtIs DEF Inner
<1>5. q.pc = 2
  <2>1. PICK n \in 1..9 : n = q.pc
    BY <1>4
  <2>2. n <= 3
    BY <1>4, <2>1, Here DEF Fine, StepOK, Allowed, Endpoint
  <2>3. n # 1 /\ n # 3
    BY <1>4, <2>1, Here DEF Fine
  <2> QED
    BY <2>1, <2>2, <2>3
<1> QED
  BY <1>2, <1>3, <1>4, <1>5

LEMMA CanIs ==
    ASSUME Sound, NEW r \in Requests, Can(r)
    PROVE  Plain(r)
<1>1. PICK q : q = req[r]
  OBVIOUS
<1>2. "can" \in StepName /\ At(r, "can") /\ 403 \in Codes \ {200} /\ q.pc > 0
  BY <1>1 DEF Can, StepName, Codes, At
<1>3. /\ q \in RequestIn(feature) /\ Fine(feature, rows, q) /\ feature \in DOMAIN Controllers
      /\ Busy(feature, q) /\ Current(feature, q) = "can" /\ q.pc \in 1..9
      /\ q.op \notin GrantOps
  BY <1>1, <1>2, AtIs
<1>4. q.pc = 3
  <2>1. PICK n \in 1..9 : n = q.pc
    BY <1>3
  <2>2. n <= 3
    BY <1>3, <2>1, Here DEF Fine, StepOK, Allowed, Endpoint
  <2>3. n # 1 /\ n # 2
    BY <1>3, <2>1, Here DEF Fine
  <2> QED
    BY <2>1, <2>2, <2>3
<1>5. ASSUME Needs(q.op) \in q.perms PROVE Turned(r)
  <2>1. PICK p : p = Next1(q)
    OBVIOUS
  <2>2. q.pc \in 0..9
    BY <1>3
  <2>3. /\ p \in RequestIn(feature) /\ p.pc = q.pc + 1 /\ p.perms = q.perms /\ p.got = q.got
        /\ p.op = q.op /\ p.row = q.row /\ p.data = q.data /\ p.code = q.code
        /\ p.entity = q.entity /\ p.loaded = q.loaded /\ p.pend = q.pend /\ p.told = q.told
        /\ p.page = q.page
    BY <1>3, <2>1, <2>2, NextIs
  <2>4. Fine(feature, rows, p)
    BY <1>3, <2>3, MovedOn DEF Finals
  <2>5. IsLetIn(q, p)
    BY <1>4, <1>5, <2>3 DEF IsLetIn
  <2>6. p.op # "regrant"
    BY <1>3, <2>3, GrantOpsAre
  <2>7. Becomes(r, p)
    BY <1>1, <1>5, <2>1 DEF Can
  <2> QED
    BY <1>1, <2>3, <2>4, <2>5, <2>6, <2>7 DEF Turned, Turns, Honest, Calm
<1>6. ASSUME Needs(q.op) \notin q.perms PROVE Turned(r)
  BY <1>1, <1>2, <1>6, FailsIs DEF Can, Turned
<1> QED
  BY <1>5, <1>6, ReadsOnly DEF Turned, Can, Reads

\* Reads.
LEMMA FetchIs ==
    ASSUME Sound, NEW r \in Requests, Fetch(r)
    PROVE  Plain(r)
<1>1. PICK q : q = req[r]
  OBVIOUS
<1>2. "fetch" \in StepName /\ At(r, "fetch")
  BY DEF Fetch, StepName
<1>3. /\ q \in RequestIn(feature) /\ Fine(feature, rows, q) /\ feature \in DOMAIN Controllers
      /\ Busy(feature, q) /\ Current(feature, q) = "fetch" /\ q.pc \in 1..9
      /\ q.op \notin GrantOps /\ rows \in Tables
  BY <1>1, <1>2, AtIs
<1>4. q.pc > 3 /\ q.op = "read"
  BY <1>3, Here DEF Fine, StepOK, Allowed, Endpoint
<1>5. q.row \in Rows
  BY <1>3, <1>4 DEF Fine, Named
<1>6. PICK g : /\ g = None \/ (g = rows[q.row] /\ Visible(q, q.row))
               /\ Becomes(r, Next1([q EXCEPT !.got = g]))
  BY <1>1 DEF Fetch, Served
<1>7. g \in Maybe(Row) /\ q.perms \in Maybe(Subsets(Permissions)) /\ q.pc \in 0..9
  BY <1>3, <1>5, <1>6 DEF Maybe, RequestIn, Tables
<1>8. PICK p : p = Next1(Shown(q, q.perms, g))
  OBVIOUS
<1>9. /\ p \in RequestIn(feature) /\ p.pc = q.pc + 1 /\ p.perms = q.perms /\ p.got = g
      /\ p.op = q.op /\ p.row = q.row /\ p.data = q.data /\ p.code = q.code
      /\ p.entity = q.entity /\ p.loaded = q.loaded /\ p.pend = q.pend /\ p.told = q.told
      /\ p.page = q.page
  BY <1>3, <1>7, <1>8, NextOfShown
<1>10. p = Next1([q EXCEPT !.got = g])
  BY <1>3, <1>8 DEF RequestIn, Shown
<1>11. Fine(feature, rows, p)
  BY <1>3, <1>9, MovedOn DEF Finals
<1>12. p.pc > 3 /\ q.code # 200
  BY <1>3, <1>4, <1>9 DEF Fine, Control
<1>13. Looks(rows, q, p)
  BY <1>4, <1>6, <1>9, <1>12 DEF Looks, Visible, allowDeleted
<1>14. p.op # "regrant"
  BY <1>3, <1>9, GrantOpsAre
<1> QED
  BY <1>1, <1>6, <1>9, <1>10, <1>11, <1>13, <1>14, ReadsOnly
     DEF Turns, Honest, Calm, Fetch, Reads

\* An answer with what it shows.
LEMMA AnswersWith ==
    ASSUME Sound, NEW r \in Requests, NEW a \in StepName, At(r, a),
           NEW z \in RequestIn(feature), NEW code \in Codes, Becomes(r, Answer(z, code)),
           z.op = req[r].op, z.row = req[r].row, z.perms = req[r].perms,
           \A p : /\ p.got = z.got /\ p.page = z.page /\ p.code = code /\ Ended(z, p)
                  => Looks(rows, req[r], p) \/ Finds(req[r], p) \/ Keeps(req[r], p)
    PROVE  Turned(r)
<1>1. PICK p : p = Answer(z, code)
  OBVIOUS
<1>2. /\ p \in RequestIn(feature) /\ p.code = code /\ p.got = z.got /\ p.page = z.page
      /\ Ended(z, p)
  BY <1>1, AnswerIsRequest
<1>3. Fine(feature, rows, p)
  BY <1>1, AnswerIsFine DEF Sound
<1>4. p.op # "regrant"
  BY <1>2, AtIs, GrantOpsAre DEF Ended
<1>5. Honest(rows, Granted, req[r], p)
  BY <1>2 DEF Honest
<1> QED
  BY <1>1, <1>2, <1>3, <1>4, <1>5 DEF Turned, Turns, Calm, Ended

LEMMA ShowIs ==
    ASSUME Sound, NEW r \in Requests, NEW a \in {"set", "show"}, At(r, a),
           \/ Becomes(r, Show(req[r]))
           \/ req[r].got # None /\ Becomes(r, Answer(req[r], 200))
    PROVE  Turned(r) /\ req[r].op = "read" /\ req[r].row \in Rows
<1>1. PICK q : q = req[r]
  OBVIOUS
<1>2. a \in StepName
  BY DEF StepName
<1>3. /\ q \in RequestIn(feature) /\ Fine(feature, rows, q) /\ feature \in DOMAIN Controllers
      /\ Busy(feature, q) /\ Current(feature, q) = a /\ q.pc \in 1..9
      /\ q.op \notin GrantOps /\ rows \in Tables
  BY <1>1, <1>2, AtIs
<1>4. q.pc > 3 /\ q.op = "read"
  BY <1>3, Here DEF Fine, StepOK, Allowed, Endpoint
<1>5. q.row \in Rows /\ {200, 404} \subseteq Codes
  BY <1>3, <1>4 DEF Fine, Named, Codes
<1>6. CASE q.got # None /\ Becomes(r, Answer(q, 200))
  <2>1. ASSUME NEW p, p.got = q.got, p.page = q.page, p.code = 200, Ended(q, p)
        PROVE  Looks(rows, q, p)
    BY <1>4, <1>6, <2>1 DEF Looks, Ended
  <2> QED
    BY <1>1, <1>2, <1>3, <1>4, <1>5, <1>6, <2>1, AnswersWith
<1>7. CASE Becomes(r, Show(q)) /\ Readable(q)
  <2>1. PICK g : g = rows[q.row]
    OBVIOUS
  <2>2. g \in Row /\ g # None /\ (g.deleted => "delete" \in q.perms)
    BY <1>3, <1>5, <1>7, <2>1, TypedRow DEF Readable, Visible, allowDeleted
  <2>3. PICK z : z = [q EXCEPT !.got = g]
    OBVIOUS
  <2>4. z \in RequestIn(feature)
    BY <1>3, <2>2, <2>3 DEF RequestIn, Maybe
  <2>5. z.op = q.op /\ z.row = q.row /\ z.perms = q.perms /\ z.got = g /\ z.page = q.page
    BY <1>3, <2>3 DEF RequestIn
  <2>6. Becomes(r, Answer(z, 200))
    BY <1>7, <2>1, <2>3 DEF Show
  <2>7. ASSUME NEW p, p.got = z.got, p.page = z.page, p.code = 200, Ended(z, p)
        PROVE  Looks(rows, q, p)
    BY <1>4, <2>1, <2>2, <2>5, <2>7 DEF Looks, Ended
  <2> QED
    BY <1>1, <1>2, <1>4, <1>5, <2>4, <2>5, <2>6, <2>7, AnswersWith
<1>8. CASE Becomes(r, Show(q)) /\ ~Readable(q)
  <2>1. ASSUME NEW p, p.got = q.got, p.page = q.page, p.code = 404, Ended(q, p)
        PROVE  Looks(rows, q, p)
    BY <1>4, <2>1 DEF Looks, Ended
  <2>2. Becomes(r, Answer(q, 404))
    BY <1>8 DEF Show
  <2> QED
    BY <1>1, <1>2, <1>3, <1>4, <1>5, <2>1, <2>2, AnswersWith
<1> QED
  BY <1>1, <1>6, <1>7, <1>8

LEMMA ShowRowIs ==
    ASSUME Sound, NEW r \in Requests, ShowRow(r)
    PROVE  Plain(r)
BY ShowIs, ReadsOnly DEF ShowRow, Turned, Reads
LEMMA SetRowIs ==
    ASSUME Sound, NEW r \in Requests, SetRow(r)
    PROVE  Turned(r) /\ req[r].op = "read" /\ req[r].row \in Rows
<1>1. CASE req[r].got = None
  BY <1>1, ShowIs DEF SetRow
<1>2. CASE req[r].got # None
  BY <1>2, ShowIs DEF SetRow
<1> QED
  BY <1>1, <1>2

LEMMA ListIs ==
    ASSUME Sound, NEW r \in Requests, List(r)
    PROVE  Plain(r)
<1>1. PICK q : q = req[r]
  OBVIOUS
<1>2. "list" \in StepName /\ At(r, "list")
  BY DEF List, StepName
<1>3. /\ q \in RequestIn(feature) /\ Fine(feature, rows, q) /\ feature \in DOMAIN Controllers
      /\ Busy(feature, q) /\ Current(feature, q) = "list" /\ q.pc \in 1..9
      /\ q.op \notin GrantOps /\ rows \in Tables
  BY <1>1, <1>2, AtIs
<1>4. q.pc > 3 /\ q.op = "find" /\ 200 \in Codes
  BY <1>3, Here DEF Fine, StepOK, Allowed, Endpoint, Codes
<1>5. PICK is_deleted \in BOOLEAN, language \in BOOLEAN :
         LET shown == {i \in Rows : /\ IF is_deleted THEN Visible(req[r], i) ELSE Live(i)
                                    /\ Entities[feature].texts => language} IN
         Becomes(r, Answer([req[r] EXCEPT !.page = {rows[i] : i \in shown}], 200))
  BY DEF List
<1>6. PICK S : S = {i \in Rows : /\ IF is_deleted THEN Visible(req[r], i) ELSE Live(i)
                                 /\ Entities[feature].texts => language}
  OBVIOUS
<1>7. PICK P : P = {rows[i] : i \in S}
  OBVIOUS
<1>8. \A v \in P : v \in Row /\ (v.deleted => "delete" \in q.perms)
  <2>1. ASSUME NEW i \in S
        PROVE  rows[i] \in Row /\ (rows[i].deleted => "delete" \in q.perms)
    BY <1>1, <1>3, <1>6, TypedRow DEF Visible, Live, allowDeleted
  <2> QED
    BY <1>7, <2>1
<1>9. PICK z : z = [q EXCEPT !.page = P]
  OBVIOUS
<1>10. z \in RequestIn(feature)
  BY <1>3, <1>8, <1>9 DEF RequestIn, Subsets
<1>11. z.op = q.op /\ z.row = q.row /\ z.perms = q.perms /\ z.got = q.got /\ z.page = P
  BY <1>3, <1>9 DEF RequestIn
<1>12. ASSUME NEW p, p.got = z.got, p.page = z.page, p.code = 200, Ended(z, p)
       PROVE  Finds(q, p)
  BY <1>4, <1>8, <1>11, <1>12 DEF Finds, Ended
<1>13. Becomes(r, Answer(z, 200))
  BY <1>1, <1>5, <1>6, <1>7, <1>9
<1>14. Turned(r)
  BY <1>1, <1>2, <1>4, <1>10, <1>11, <1>12, <1>13, AnswersWith
<1> QED
  BY <1>14, ReadsOnly DEF List, Turned, Reads

\* Permissions only: a create that goes on as a restore.
LEMMA ReviveKeyIs ==
    ASSUME Sound, NEW r \in Requests, ReviveKey(r)
    PROVE  Plain(r)
<1>1. PICK q : q = req[r]
  OBVIOUS
<1>2. /\ "reviveKey" \in Inner /\ At(r, "reviveKey") /\ 409 \in Codes \ {200} /\ q.pc > 0
      /\ "reviveKey" \notin {"pick", "findRow", "load"}
  <2>1. At(r, "reviveKey")
    BY DEF ReviveKey
  <2> QED
    BY <1>1, <2>1 DEF Inner, StepName, Finals, Codes, At
<1>3. /\ q \in RequestIn(feature) /\ Fine(feature, rows, q) /\ feature \in DOMAIN Controllers
      /\ Busy(feature, q) /\ Current(feature, q) = "reviveKey" /\ q.pc \in 1..9
      /\ q.op \notin GrantOps /\ rows \in Tables
  BY <1>1, <1>2, AtIs DEF Inner
<1>4. q.pc > 3 /\ q.op = "create" /\ "restore" \in Routes[feature]
  BY <1>3, Here DEF Fine, StepOK, Allowed, Endpoint
<1>5. Turned(r) \/ \E i \in Rows :
          /\ rows[i] # None /\ allowDeleted(q)
          /\ Becomes(r, [q EXCEPT !.op = "restore", !.row = i, !.data = Nothing, !.pc = 4])
  <2>1. CASE ~Used(q.data.key, None)
    <3>1. Becomes(r, Next1(req[r]))
      BY <1>1, <2>1 DEF ReviveKey
    <3>2. PICK a \in Inner : a = "reviveKey"
      BY <1>2
    <3>3. /\ At(r, a) /\ (a = "load" => req[r].op # "update")
          /\ a \in {"pick", "findRow"} => rows[req[r].row] # None
      BY <1>2, <3>2
    <3> QED
      BY <3>1, <3>3, NextIsOn DEF Turned
  <2>2. CASE Used(q.data.key, None)
    <3>1. PICK i \in Rows :
              /\ rows[i] # None
              /\ IF rows[i].deleted /\ allowDeleted(q)
                 THEN Becomes(r, [q EXCEPT !.op = "restore", !.row = i, !.data = Nothing, !.pc = 4])
                 ELSE Fails(r, 409)
      BY <1>1, <2>2 DEF ReviveKey
    <3>2. Fails(r, 409) => Turned(r)
      BY <1>1, <1>2, FailsIs DEF Turned
    <3> QED
      BY <3>1, <3>2
  <2> QED
    BY <2>1, <2>2
<1>6. ASSUME NEW i \in Rows, rows[i] # None, allowDeleted(q),
             Becomes(r, [q EXCEPT !.op = "restore", !.row = i, !.data = Nothing, !.pc = 4])
      PROVE  Turned(r)
  <2>1. PICK p : p = [q EXCEPT !.op = "restore", !.row = i, !.data = Nothing, !.pc = 4]
    OBVIOUS
  <2>2. "restore" \in OpsIn(feature) /\ i \in Maybe(Rows) /\ 4 \in Places
    BY <1>4 DEF OpsIn, Maybe, Places
  <2>3. p \in RequestIn(feature)
    BY <1>3, <2>1, <2>2, NothingIsPart DEF RequestIn
  <2>4. /\ p.op = "restore" /\ p.row = i /\ p.data = Nothing /\ p.pc = 4 /\ p.code = q.code
        /\ p.perms = q.perms /\ p.page = q.page /\ p.entity = q.entity /\ p.loaded = q.loaded
        /\ p.pend = q.pend /\ p.told = q.told
    BY <1>3, <2>1 DEF RequestIn
  <2>5. q.pend = Nothing /\ q.told = {} /\ q.code # 200 /\ DOMAIN q.entity = {}
    <3>1. q.pend = Nothing
      BY <1>3, <1>4 DEF Fine, Pending, Position
    <3> QED
      BY <1>3, <1>4, <3>1 DEF Fine, Control, Entity
  <2>6. Busy(feature, p)
    BY <1>4, <2>4 DEF Busy
  <2>7. Control(feature, p)
    <3>1. WholeOK(feature, "restore", Script(feature, "restore"))
      BY <1>3, <1>4, ScriptsOK DEF ScriptOK
    <3>2. 4 <= Len(Script(feature, "restore"))
      <4>1. Len(Script(feature, "restore")) \in 4..9
        BY <3>1 DEF WholeOK
      <4>2. \A n \in 4..9 : 4 <= n
        OBVIOUS
      <4> QED
        BY <4>1, <4>2
    <3> QED
      BY <2>4, <2>5, <2>6, <3>2, GrantOpsAre DEF Control
  <2>8. StepOK(feature, "restore", Current(feature, p))
    BY <1>3, <2>3, <2>4, <2>6, <2>7, Here
  <2>9. Named(feature, p) /\ Entity(feature, p)
    BY <2>4, <2>5, NothingIsPart DEF Named, Entity
  <2>10. Loaded(feature, rows, p)
    BY <1>3, <1>6, <2>4 DEF Fine, Loaded
  <2>11. Found(feature, rows, p) /\ Pending(feature, rows, p) /\ Writing(feature, p)
    BY <2>4, <2>5, <2>8 DEF Found, Pending, Writing, StepOK, Allowed
  <2>12. Revives(q, p)
    BY <1>4, <1>6, <2>4, <2>5 DEF Revives, allowDeleted
  <2>13. Becomes(r, p)
    BY <1>6, <2>1
  <2> QED
    BY <1>1, <2>3, <2>4, <2>5, <2>7, <2>9, <2>10, <2>11, <2>12, <2>13
       DEF Turned, Turns, Honest, Calm, Fine
<1> QED
  BY <1>5, <1>6, ReadsOnly DEF ReviveKey, Turned

\* The end of an endpoint that shows nothing.
LEMMA Done ==
    ASSUME Sound, NEW r \in Requests, NEW a \in Finals, At(r, a), req[r].op # "read",
           NEW code \in Codes, Becomes(r, Answer(req[r], code))
    PROVE  Turned(r)
<1>1. PICK q : q = req[r]
  OBVIOUS
<1>2. a \in StepName
  BY DEF Finals, StepName
<1>3. /\ q \in RequestIn(feature) /\ Fine(feature, rows, q) /\ feature \in DOMAIN Controllers
      /\ Busy(feature, q) /\ Current(feature, q) = a /\ q.pc \in 1..9
  BY <1>1, <1>2, AtIs
<1>4. q.pc > 3
  <2>1. PICK n \in 1..9 : n = q.pc
    BY <1>3
  <2>2. n # 1 /\ n # 2 /\ n # 3
    BY <1>3, <2>1, Here DEF Fine, Finals
  <2> QED
    BY <2>1, <2>2
<1>5. ASSUME NEW p, p.got = q.got, p.page = q.page, p.code = code, Ended(q, p)
      PROVE  Keeps(q, p)
  BY <1>1, <1>3, <1>4, <1>5 DEF Keeps, Ended
<1> QED
  BY <1>1, <1>2, <1>3, <1>5, AnswersWith

\* The least position of an id.
LEMMA FirstIs ==
    ASSUME NEW P \in Seq(Rows), NEW i \in Rows, \E n \in DOMAIN P : P[n] = i
    PROVE  \E n \in DOMAIN P : P[n] = i /\ \A m \in 1..(n-1) : P[m] # i
<1>1. PICK T : T = {n \in DOMAIN P : P[n] = i}
  OBVIOUS
<1>2. T \subseteq Nat /\ T # {}
  BY <1>1
<1>3. PICK n \in T : \A m \in T : n <= m
  <2>1. PICK R : R = {ss \in Nat \X Nat : ss[1] < ss[2]}
    OBVIOUS
  <2>2. IsWellFoundedOn(R, Nat)
    BY <2>1, NatLessThanWellFounded DEF OpToRel
  <2>3. PICK n \in T : \A m \in T : ~(<<m, n>> \in R)
    BY <1>2, <2>2, WFMin
  <2>4. ASSUME NEW m \in T PROVE n <= m
    <3>1. m \in Nat /\ n \in Nat /\ <<m, n>> \notin R
      BY <1>2, <2>3
    <3> QED
      BY <2>1, <3>1
  <2> QED
    BY <2>4
<1>4. n \in DOMAIN P /\ P[n] = i /\ \A m \in 1..(n-1) : P[m] # i
  <2>1. n \in DOMAIN P /\ P[n] = i /\ n \in 1..Len(P)
    BY <1>1, <1>3
  <2>2. ASSUME NEW m \in 1..(n-1) PROVE P[m] # i
    BY <1>1, <1>3, <2>1
  <2> QED
    BY <2>1, <2>2
<1> QED
  BY <1>4

LEMMA ReorderIs ==
    ASSUME Sound, NEW r \in Requests, Reorder(r)
    PROVE  Plain(r)
<1>1. PICK q : q = req[r]
  OBVIOUS
<1>2. "order" \in Finals /\ "order" \in StepName /\ At(r, "order") /\ 200 \in Codes
  BY DEF Reorder, Finals, Codes, StepName
<1>3. /\ q \in RequestIn(feature) /\ Fine(feature, rows, q) /\ feature \in DOMAIN Controllers
      /\ Busy(feature, q) /\ Current(feature, q) = "order" /\ q.pc \in 1..9
  BY <1>1, <1>2, AtIs
<1>4. q.op = "orderUpdate"
  BY <1>3, Here DEF Fine, StepOK, Allowed, Endpoint
<1>5. Turned(r)
  BY <1>1, <1>2, <1>4, Done DEF Reorder
<1>6. q.positions \in Seq(Rows)
  BY <1>3 DEF RequestIn, Lists
<1>7. order' \in [Rows -> Nat]
  <2>1. PICK P : P = q.positions
    OBVIOUS
  <2>2. order' = [i \in Rows |->
            IF i \in {P[n] : n \in DOMAIN P} /\ rows[i] # None
            THEN Len(P) - (CHOOSE n \in DOMAIN P : P[n] = i /\ \A m \in 1..(n-1) : P[m] # i) + 1
            ELSE order[i]]
    BY <1>1, <2>1 DEF Reorder
  <2>3. ASSUME NEW i \in Rows, i \in {P[n] : n \in DOMAIN P}
        PROVE  Len(P) - (CHOOSE n \in DOMAIN P : P[n] = i /\ \A m \in 1..(n-1) : P[m] # i) + 1
                  \in Nat
    <3>1. \E n \in DOMAIN P : P[n] = i /\ \A m \in 1..(n-1) : P[m] # i
      <4>1. (\E n \in DOMAIN P : P[n] = i) /\ P \in Seq(Rows) /\ i \in Rows
        BY <1>6, <2>1, <2>3
      <4> QED
        BY <4>1, FirstIs
    <3>2. PICK k \in DOMAIN P : k = CHOOSE n \in DOMAIN P : P[n] = i /\ \A m \in 1..(n-1) : P[m] # i
      BY <3>1
    <3>3. k \in 1..Len(P) /\ Len(P) \in Nat
      BY <1>6, <2>1
    <3> QED
      BY <3>2, <3>3
  <2>4. \A i \in Rows : order[i] \in Nat
    BY DEF Sound
  <2> QED
    BY <2>2, <2>3, <2>4
<1> QED
  BY <1>5, <1>7 DEF Plain, Turned, Reorder, Sound

LEMMA BreaksIs ==
    ASSUME Sound, NEW r \in Requests, Breaks(r)
    PROVE  Plain(r)
<1>1. req[r].pc > 0 /\ 500 \in Codes \ {200}
  <2>1. req[r].pc \in Places
    BY DEF Sound, RequestIn
  <2> QED
    BY <2>1 DEF Breaks, Places, Codes
<1> QED
  BY <1>1, FailsIs, ReadsOnly DEF Breaks

LEMMA RespondIs ==
    ASSUME Sound, NEW r \in Requests, Respond(r)
    PROVE  Plain(r)
<1>1. PICK p : p = Idle
  OBVIOUS
<1>2. /\ p \in RequestIn(feature) /\ p.op = "none" /\ p.pc = 0 /\ p.pend = Nothing
      /\ p.told = {} /\ p.loaded = Nothing /\ p.page = {}
  BY <1>1, IdleIsRequest DEF Idle
<1>3. Fine(feature, rows, p)
  BY <1>2, EndedIsFine DEF Sound
<1>4. Becomes(r, p)
  BY <1>1 DEF Respond
<1> QED
  BY <1>2, <1>3, <1>4, ReadsOnly DEF Respond, Turns, Honest, Leaves, Calm

\* Arrivals.
LEMMA BodiesAre ==
    ASSUME feature \in DOMAIN Controllers, NEW op \in Routes[feature], NEW d \in Bodies(op)
    PROVE  /\ d \in Parts /\ "deleted" \notin DOMAIN d
           /\ op = "create" => "key" \in DOMAIN d
           /\ op = "create" /\ feature \in Texted => "content" \in DOMAIN d
           /\ op \in {"create", "update"} /\ feature = "category" /\ "content" \in DOMAIN d
                 => "key" \in DOMAIN d
           /\ op = "statusUpdate" => "state" \in DOMAIN d
<1>1. CASE op \in {"create", "update"}
  <2>1. Bodies(op) \subseteq UNION {Part(S) : S \in Validators[feature][op]}
    BY <1>1 DEF Bodies
  <2>2. PICK S \in Validators[feature][op] : d \in Part(S)
    BY <2>1
  <2>3. BodyOK(feature, op, S)
    BY <1>1, BodiesOK
  <2>4. S \subseteq Columns /\ DOMAIN d = S /\ d \in Parts
    BY <2>2, <2>3 DEF BodyOK, Part, Parts
  <2> QED
    BY <1>1, <2>3, <2>4 DEF BodyOK
<1>2. CASE op = "statusUpdate"
  <2>1. Bodies(op) = Part({"state"})
    BY <1>2 DEF Bodies
  <2>2. DOMAIN d = {"state"} /\ d \in Parts
    BY <2>1 DEF Part, Parts, Columns
  <2> QED
    BY <1>2, <2>2
<1>3. CASE op \notin {"create", "update", "statusUpdate"}
  <2>1. Bodies(op) = {Nothing}
    BY <1>3 DEF Bodies
  <2> QED
    BY <1>3, <2>1, NothingIsPart
<1> QED
  BY <1>1, <1>2, <1>3

LEMMA TargetsAre ==
    ASSUME NEW op, NEW i \in Targets(op), NEW S \in IdLists(op), NEW P \in Orders(op)
    PROVE  /\ i \in Maybe(Rows) /\ S \in Subsets(Rows) /\ P \in Lists(Rows)
           /\ op \notin {"create", "find", "orderUpdate"} /\ ~(op = "delete" /\ feature \in Logs)
                 => i \in Rows
<1>1. P \in Seq(Rows)
  <2>1. CASE op = "orderUpdate"
    <3>1. PICK n \in 2..Cardinality(Rows) : P \in [1..n -> Rows]
      BY <2>1 DEF Orders
    <3>2. n \in Nat
      BY <3>1
    <3> QED
      BY <3>1, <3>2
  <2>2. CASE op # "orderUpdate"
    BY <2>2 DEF Orders
  <2> QED
    BY <2>1, <2>2
<1>2. S \in SUBSET Rows
  BY DEF IdLists
<1>3. /\ i \in Rows \cup {None}
      /\ op \notin {"create", "find", "orderUpdate"} /\ ~(op = "delete" /\ feature \in Logs)
            => i \in Rows
  BY DEF Targets
<1> QED
  BY <1>1, <1>2, <1>3 DEF Maybe, Subsets, Lists

LEMMA ArriveIs ==
    ASSUME Sound, NEW r \in Requests, Arrive(r)
    PROVE  Plain(r)
<1>1. PICK op \in Ops \cap Routes[feature] :
        \E d \in Bodies(op), i \in Targets(op), S \in IdLists(op), P \in Orders(op) :
            Becomes(r, [Idle EXCEPT !.op = op, !.row = i, !.data = d, !.ids = S, !.positions = P,
                                    !.pc = IF feature \in Changing THEN 1 ELSE 3,
                                    !.perms = IF feature \in Changing THEN None ELSE Granted])
  BY DEF Arrive
<1>2. PICK d \in Bodies(op), i \in Targets(op), S \in IdLists(op), P \in Orders(op) :
            Becomes(r, [Idle EXCEPT !.op = op, !.row = i, !.data = d, !.ids = S, !.positions = P,
                                    !.pc = IF feature \in Changing THEN 1 ELSE 3,
                                    !.perms = IF feature \in Changing THEN None ELSE Granted])
  BY <1>1
<1>3. PICK n : n = IF feature \in Changing THEN 1 ELSE 3
  OBVIOUS
<1>4. PICK M : M = IF feature \in Changing THEN None ELSE Granted
  OBVIOUS
<1>5. n \in {1, 3} /\ n \in Places /\ M \in Maybe(Subsets(Permissions)) /\ (n = 3 => M = Granted)
  BY <1>3, <1>4, GrantedIs DEF Maybe, Places
<1>6. feature \in DOMAIN Controllers /\ op \in Routes[feature]
  BY <1>1 DEF Sound
<1>7. d \in Parts /\ op \in OpsIn(feature)
  BY <1>6, BodiesAre DEF OpsIn
<1>8. i \in Maybe(Rows) /\ S \in Subsets(Rows) /\ P \in Lists(Rows)
  BY TargetsAre
<1>9. PICK z : z = Idle
  OBVIOUS
<1>10. z \in RequestIn(feature) /\ z.pend = Nothing /\ z.told = {} /\ z.loaded = Nothing
       /\ z.entity = Nothing /\ z.code = 0 /\ z.got = None /\ z.page = {}
  BY <1>9, IdleIsRequest DEF Idle
<1>11. PICK p : p = [z EXCEPT !.op = op, !.row = i, !.data = d, !.ids = S, !.positions = P,
                              !.pc = n, !.perms = M]
  OBVIOUS
<1>12. p \in RequestIn(feature)
  BY <1>5, <1>7, <1>8, <1>10, <1>11 DEF RequestIn
<1>13. /\ p.op = op /\ p.row = i /\ p.data = d /\ p.pc = n /\ p.perms = M
       /\ p.pend = Nothing /\ p.told = {} /\ p.loaded = Nothing
       /\ p.entity = Nothing /\ p.code = 0 /\ p.got = None /\ p.page = {}
  BY <1>10, <1>11 DEF RequestIn
<1>14. op \in Endpoint /\ op \notin GrantOps /\ op # "none"
  BY <1>6, RoutesAre, EndpointsAre
<1>15. Control(feature, p)
  <2>1. WholeOK(feature, op, Script(feature, op))
    BY <1>6, ScriptsOK DEF ScriptOK
  <2>2. Len(Script(feature, op)) \in 4..9
    BY <2>1 DEF WholeOK
  <2>3. PICK m \in 4..9 : m = Len(Script(feature, op))
    BY <2>2
  <2>4. n <= m /\ n > 0
    BY <1>5
  <2> QED
    BY <1>13, <1>14, <2>3, <2>4 DEF Control
<1>16. Busy(feature, p)
  BY <1>5, <1>6, <1>13 DEF Busy
<1>17. Current(feature, p) \in {"fetchPerms", "can"}
  BY <1>5, <1>6, <1>12, <1>13, <1>15, <1>16, Here
<1>18. Named(feature, p)
  <2>1. /\ op \in {"read", "update", "statusUpdate", "restore"}
              \/ (op = "delete" /\ feature \notin Logs)
           => i \in Rows
    BY <1>14, TargetsAre DEF Endpoint
  <2> QED
    BY <1>6, <1>13, <2>1, BodiesAre DEF Named
<1>19. Entity(feature, p) /\ Loaded(feature, rows, p) /\ Pending(feature, rows, p)
  BY <1>13, <1>17, NothingIsPart DEF Entity, Loaded, Pending
<1>20. Found(feature, rows, p) /\ Writing(feature, p)
  BY <1>5, <1>13, <1>17 DEF Found, Writing
<1>21. Begins(Granted, req[r], p)
  BY <1>5, <1>13 DEF Begins, Arrive
<1>22. Becomes(r, p)
  BY <1>2, <1>3, <1>4, <1>9, <1>11
<1>23. p.op # "regrant"
  BY <1>13, <1>14, GrantOpsAre
<1>24. Turned(r)
  BY <1>12, <1>13, <1>15, <1>18, <1>19, <1>20, <1>21, <1>22, <1>23
     DEF Turned, Turns, Honest, Calm, Fine
<1>25. order' \in [Rows -> Nat] /\ arrivals' \in Nat
  BY DEF Arrive, Sound
<1> QED
  BY <1>24, <1>25 DEF Turned, Plain, Arrive

\* A change of the operator's permissions.
GrantStep == {"findGrant", "saveGrant", "pickGrant", "removeGrant", "pickAnyGrant",
              "restoreGrant"}
LEMMA GrantIsFine ==
    ASSUME NEW f \in DOMAIN Controllers, NEW t, NEW p \in RequestIn(f), p.op \in GrantOps,
           p.pc \in 0..2, p.perm \in Permissions, p.pend = Nothing, p.told = {}, p.code # 200,
           Loaded(f, t, p)
    PROVE  Fine(f, t, p)
<1>1. ~Busy(f, p) /\ p.op \notin Routes[f] /\ p.op # "none"
  BY RoutesAre, EndpointsAre DEF Busy
<1> QED
  BY <1>1 DEF Fine, Control, Named, Entity, Found, Pending, Writing

LEMMA ArriveGrantIs ==
    ASSUME Sound, NEW r \in Requests, ArriveGrant(r)
    PROVE  Plain(r)
<1>1. PICK op \in Ops \cap GrantOps, m \in Contested :
        Becomes(r, [Idle EXCEPT !.op = op, !.perm = m, !.pc = 1])
  BY DEF ArriveGrant
<1>2. op \in OpsIn(feature) /\ m \in Permissions /\ m \in Maybe(Permissions) /\ 1 \in Places
  BY <1>1, BackOfficeAssumption DEF OpsIn, Maybe, Places
<1>3. PICK z : z = Idle
  OBVIOUS
<1>4. z \in RequestIn(feature) /\ z.pend = Nothing /\ z.told = {} /\ z.loaded = Nothing
      /\ z.code = 0 /\ z.got = None /\ z.page = {}
  BY <1>3, IdleIsRequest DEF Idle
<1>5. PICK p : p = [z EXCEPT !.op = op, !.perm = m, !.pc = 1]
  OBVIOUS
<1>6. p \in RequestIn(feature)
  BY <1>2, <1>4, <1>5 DEF RequestIn
<1>7. /\ p.op = op /\ p.perm = m /\ p.pc = 1 /\ p.pend = Nothing /\ p.told = {}
      /\ p.loaded = Nothing /\ p.code = 0 /\ p.got = None /\ p.page = {}
  BY <1>4, <1>5 DEF RequestIn
<1>8. Fine(feature, rows, p)
  <2>1. Loaded(feature, rows, p)
    BY <1>7 DEF Loaded
  <2>2. feature \in DOMAIN Controllers
    BY DEF Sound
  <2> QED
    BY <1>1, <1>2, <1>6, <1>7, <2>1, <2>2, GrantIsFine
<1>9. Begins(Granted, req[r], p)
  BY <1>7 DEF Begins, ArriveGrant
<1>10. Becomes(r, p)
  BY <1>1, <1>3, <1>5
<1>11. Turned(r)
  BY <1>6, <1>7, <1>8, <1>9, <1>10 DEF Turned, Turns, Honest, Calm
<1>12. order' \in [Rows -> Nat] /\ arrivals' \in Nat
  BY DEF ArriveGrant, Sound
<1> QED
  BY <1>11, <1>12 DEF Turned, Plain, ArriveGrant

LEMMA GrantAt ==
    ASSUME Sound, NEW r \in Requests, NEW a \in GrantStep, At(r, a)
    PROVE  /\ req[r] \in RequestIn(feature) /\ Fine(feature, rows, req[r])
           /\ feature \in DOMAIN Controllers
           /\ req[r].op \in GrantOps /\ req[r].pc \in 1..2 /\ req[r].perm \in Permissions
           /\ req[r].pend = Nothing /\ req[r].told = {} /\ req[r].code # 200
           /\ a \in {"findGrant", "pickGrant", "pickAnyGrant"} => req[r].pc = 1
           /\ a \in {"saveGrant", "removeGrant", "restoreGrant"} => req[r].pc = 2
           /\ (a \in {"pickAnyGrant", "restoreGrant"} <=> req[r].op = "regrant")
<1>1. PICK q : q = req[r]
  OBVIOUS
<1>2. /\ q \in RequestIn(feature) /\ Fine(feature, rows, q) /\ Control(feature, q)
      /\ feature \in DOMAIN Controllers
  BY <1>1 DEF Sound, Fine
<1>3. q.pc > 0 /\ Current(feature, q) = a
  BY <1>1 DEF At, Current
<1>4. ~Busy(feature, q)
  <2>1. a \notin StepName
    BY DEF GrantStep, StepName
  <2> QED
    BY <1>2, <1>3, <2>1, Here
<1>5. q.op \in GrantOps
  BY <1>2, <1>3, <1>4 DEF RequestIn, OpsIn, Busy, Control
<1>6. /\ q.perm \in Permissions /\ q.pend = Nothing /\ q.told = {} /\ q.code # 200
      /\ q.pc \in 1..2
  BY <1>2, <1>3, <1>4, <1>5 DEF Control
<1>7. PICK n : n = q.pc
  OBVIOUS
<1>8. n \in {1, 2} /\ a = Script(feature, q.op)[n]
  BY <1>3, <1>6, <1>7 DEF Current
<1>9. /\ a \in {"findGrant", "pickGrant", "pickAnyGrant"} => n = 1
      /\ a \in {"saveGrant", "removeGrant", "restoreGrant"} => n = 2
      /\ (a \in {"pickAnyGrant", "restoreGrant"} <=> q.op = "regrant")
  <2>1. CASE q.op = "grant"
    BY <1>8, <2>1, GrantScripts
  <2>2. CASE q.op = "revoke"
    BY <1>8, <2>2, GrantScripts
  <2>3. CASE q.op = "regrant"
    BY <1>8, <2>3, GrantScripts
  <2> QED
    BY <1>5, <2>1, <2>2, <2>3, GrantOpsAre
<1> QED
  BY <1>1, <1>2, <1>5, <1>6, <1>7, <1>9

LEMMA GrantGoesOn ==
    ASSUME Sound, NEW r \in Requests, NEW a \in {"findGrant", "pickGrant", "pickAnyGrant"},
           At(r, a), NEW p \in RequestIn(feature), Becomes(r, p),
           LET q == req[r] IN
           /\ p.pc = q.pc + 1 /\ p.op = q.op /\ p.perm = q.perm /\ p.row = q.row
           /\ p.code = q.code /\ p.perms = q.perms /\ p.got = q.got /\ p.page = q.page
           /\ p.pend = q.pend /\ p.told = q.told /\ p.loaded = q.loaded,
           a = "pickAnyGrant" => grants[req[r].perm].row # "none"
    PROVE  Turned(r)
<1>1. PICK q : q = req[r]
  OBVIOUS
<1>2. a \in GrantStep
  BY DEF GrantStep
<1>3. /\ q \in RequestIn(feature) /\ Fine(feature, rows, q) /\ feature \in DOMAIN Controllers
      /\ q.op \in GrantOps /\ q.pc = 1 /\ q.perm \in Permissions
      /\ q.pend = Nothing /\ q.told = {} /\ q.code # 200
      /\ (a = "pickAnyGrant" <=> q.op = "regrant")
  BY <1>1, <1>2, GrantAt
<1>4. Loaded(feature, rows, p)
  BY <1>1, <1>3 DEF Fine, Loaded
<1>5. p.pc = 2
  BY <1>1, <1>3
<1>6. Fine(feature, rows, p)
  BY <1>1, <1>3, <1>4, <1>5, GrantIsFine
<1>7. q.op \notin Endpoint /\ q.op # "read"
  BY <1>3, EndpointsAre DEF Endpoint
<1>8. Keeps(q, p)
  BY <1>1, <1>3, <1>5, <1>7 DEF Keeps
<1> QED
  BY <1>1, <1>3, <1>6, <1>8 DEF Turned, Turns, Honest, Calm

LEMMA GrantEnds ==
    ASSUME Sound, NEW r \in Requests, NEW a \in GrantStep, At(r, a),
           NEW z \in RequestIn(feature), NEW code \in Codes, Becomes(r, Answer(z, code)),
           z.op = req[r].op, z.row = req[r].row, z.perms = req[r].perms, z.got = req[r].got,
           z.page = req[r].page
    PROVE  Turned(r)
<1>1. PICK q : q = req[r]
  OBVIOUS
<1>2. q.op \in GrantOps /\ q.pc \in 1..2 /\ feature \in DOMAIN Controllers
  BY <1>1, GrantAt
<1>3. PICK p : p = Answer(z, code)
  OBVIOUS
<1>4. /\ p \in RequestIn(feature) /\ p.code = code /\ p.got = z.got /\ p.page = z.page
      /\ Ended(z, p)
  BY <1>3, AnswerIsRequest
<1>5. Fine(feature, rows, p)
  BY <1>2, <1>3, AnswerIsFine
<1>6. q.op \notin Endpoint /\ q.op # "read"
  BY <1>2, EndpointsAre DEF Endpoint
<1>7. Keeps(q, p)
  BY <1>1, <1>2, <1>4, <1>6 DEF Keeps, Ended
<1> QED
  BY <1>1, <1>3, <1>4, <1>5, <1>7 DEF Turned, Turns, Honest, Calm, Ended

LEMMA SeenIs ==
    ASSUME NEW q \in RequestIn(feature), NEW s \in Saws
    PROVE  LET z == [q EXCEPT !.saw = s] IN
           /\ z \in RequestIn(feature) /\ z.saw = s /\ z.pc = q.pc /\ z.op = q.op
           /\ z.perm = q.perm /\ z.row = q.row /\ z.code = q.code /\ z.perms = q.perms
           /\ z.got = q.got /\ z.page = q.page /\ z.pend = q.pend /\ z.told = q.told
           /\ z.loaded = q.loaded
BY DEF RequestIn

LEMMA FindGrantIs ==
    ASSUME Sound, NEW r \in Requests, FindGrant(r)
    PROVE  Plain(r)
<1>1. PICK q : q = req[r]
  OBVIOUS
<1>2. PICK a \in GrantStep : a = "findGrant"
  BY DEF GrantStep
<1>3. At(r, a) /\ 200 \in Codes
  BY <1>2 DEF FindGrant, Codes
<1>4. q \in RequestIn(feature) /\ q.perm \in Permissions /\ q.pc = 1
  BY <1>1, <1>2, <1>3, GrantAt
<1>5. PICK z : z = [q EXCEPT !.saw = grants[q.perm].row]
  OBVIOUS
<1>6. grants[q.perm].row \in Saws
  BY <1>4 DEF Sound, Saws, Grant
<1>7. /\ z \in RequestIn(feature) /\ z.pc = q.pc /\ z.op = q.op
      /\ z.perm = q.perm /\ z.row = q.row /\ z.code = q.code /\ z.perms = q.perms
      /\ z.got = q.got /\ z.page = q.page /\ z.pend = q.pend /\ z.told = q.told
      /\ z.loaded = q.loaded
  BY <1>4, <1>5, <1>6, SeenIs
<1>8. Becomes(r, Answer(z, 200)) \/ Becomes(r, Next1(z))
  BY <1>1, <1>5 DEF FindGrant
<1>9. ASSUME Becomes(r, Next1(z)) PROVE Turned(r)
  <2>1. PICK p : p = Next1(z)
    OBVIOUS
  <2>2. z.pc \in 0..9
    BY <1>4, <1>7
  <2>3. /\ p \in RequestIn(feature) /\ p.pc = z.pc + 1 /\ p.op = z.op /\ p.perm = z.perm
        /\ p.row = z.row /\ p.code = z.code /\ p.perms = z.perms /\ p.got = z.got
        /\ p.page = z.page /\ p.pend = z.pend /\ p.told = z.told /\ p.loaded = z.loaded
    BY <1>7, <2>1, <2>2, NextIs
  <2> QED
    BY <1>1, <1>2, <1>3, <1>7, <1>9, <2>1, <2>3, GrantGoesOn
<1>10. Turned(r)
  BY <1>1, <1>3, <1>7, <1>8, <1>9, GrantEnds
<1> QED
  BY <1>10, ReadsOnly DEF FindGrant, Turned

LEMMA PickGrantsAre ==
    ASSUME Sound, NEW r \in Requests, PickGrant(r) \/ PickAnyGrant(r)
    PROVE  Plain(r)
<1>1. PICK q : q = req[r]
  OBVIOUS
<1>2. PICK a \in GrantStep : /\ \/ a = "pickGrant" /\ PickGrant(r)
                                \/ a = "pickAnyGrant" /\ PickAnyGrant(r)
                             /\ At(r, a)
  BY DEF GrantStep, PickGrant, PickAnyGrant
<1>3. 404 \in Codes
  BY DEF Codes
<1>4. q \in RequestIn(feature) /\ q.perm \in Permissions /\ q.pc = 1
  BY <1>1, <1>2, GrantAt
<1>5. \/ Becomes(r, Next1(q)) /\ (a = "pickAnyGrant" => grants[q.perm].row # "none")
      \/ Becomes(r, Answer(q, 404))
  BY <1>1, <1>2 DEF PickGrant, PickAnyGrant, Fails
<1>6. ASSUME Becomes(r, Next1(q)), a = "pickAnyGrant" => grants[q.perm].row # "none"
      PROVE  Turned(r)
  <2>1. PICK p : p = Next1(q)
    OBVIOUS
  <2>2. q.pc \in 0..9
    BY <1>4
  <2>3. /\ p \in RequestIn(feature) /\ p.pc = q.pc + 1 /\ p.op = q.op /\ p.perm = q.perm
        /\ p.row = q.row /\ p.code = q.code /\ p.perms = q.perms /\ p.got = q.got
        /\ p.page = q.page /\ p.pend = q.pend /\ p.told = q.told /\ p.loaded = q.loaded
    BY <1>4, <2>1, <2>2, NextIs
  <2> QED
    BY <1>1, <1>2, <1>6, <2>1, <2>3, GrantGoesOn
<1>7. Turned(r)
  BY <1>1, <1>2, <1>3, <1>4, <1>5, <1>6, GrantEnds
<1>8. Reads
  BY <1>2 DEF PickGrant, PickAnyGrant
<1> QED
  BY <1>7, <1>8, ReadsOnly DEF Turned

\* What a change of a grant leaves.
GrantChanged(r) ==
    /\ req[r].perm \in Permissions
    /\ \E v \in {"live", "deleted"} : grants' = [grants EXCEPT ![req[r].perm].row = v]
    /\ \/ cleaning' = cleaning \cup {"perms"} /\ excused' = excused
       \/ excused' = excused \cup {"perms"} /\ cleaning' = cleaning
       \/ grants' = grants /\ cleaning' = cleaning /\ excused' = excused
LEMMA GrantsAre ==
    ASSUME Sound, NEW r \in Requests, Regranted,
           SaveGrant(r) \/ RemoveGrant(r) \/ RestoreGrant(r)
    PROVE  /\ Turned(r) /\ Keep /\ req[r].op \in GrantOps
           /\ grants' # grants \/ cleaning' # cleaning \/ excused' # excused => GrantChanged(r)
<1>1. PICK q : q = req[r]
  OBVIOUS
<1>2. PICK a \in GrantStep : /\ \/ a = "saveGrant" /\ SaveGrant(r)
                                \/ a = "removeGrant" /\ RemoveGrant(r)
                                \/ a = "restoreGrant" /\ RestoreGrant(r)
                             /\ At(r, a)
  BY DEF GrantStep, SaveGrant, RemoveGrant, RestoreGrant
<1>3. 200 \in Codes /\ 500 \in Codes
  BY DEF Codes
<1>4. /\ q \in RequestIn(feature) /\ q.perm \in Permissions /\ q.pc = 2
      /\ q.op \in GrantOps /\ (a = "restoreGrant" <=> q.op = "regrant")
  BY <1>1, <1>2, GrantAt
<1>5. \E code \in Codes : Becomes(r, Answer(q, code))
  BY <1>1, <1>2, <1>3 DEF SaveGrant, RemoveGrant, RestoreGrant, Fails
<1>6. Turned(r)
  BY <1>1, <1>2, <1>4, <1>5, GrantEnds
<1>7. grants \in [Permissions -> Grant]
  BY DEF Sound
<1>8. CASE SaveGrant(r)
  BY <1>1, <1>4, <1>6, <1>7, <1>8 DEF SaveGrant, PermsCleaned, GrantChanged
<1>9. CASE RemoveGrant(r)
  BY <1>1, <1>4, <1>6, <1>7, <1>9 DEF RemoveGrant, PermsCleaned, GrantChanged
<1>10. CASE a = "restoreGrant" /\ RestoreGrant(r)
  <2>1. grants[q.perm].row # "none"
    BY <1>1, <1>4, <1>10 DEF Regranted
  <2>2. grants[q.perm].row = "deleted" \/ (grants[q.perm].row = "live" /\ grants' = grants)
    <3>1. PICK g : g = grants[q.perm]
      OBVIOUS
    <3>2. g \in Grant /\ g.row \in {"live", "deleted"}
      BY <1>4, <1>7, <2>1, <3>1 DEF Grant
    <3>3. grants' = [grants EXCEPT ![q.perm] = [g EXCEPT !.row = "live"]]
      BY <1>1, <1>10, <3>1 DEF RestoreGrant
    <3>4. ASSUME g.row = "live" PROVE grants' = grants
      <4>1. [g EXCEPT !.row = "live"] = g
        BY <3>2, <3>4 DEF Grant
      <4> QED
        BY <1>4, <1>7, <3>1, <3>3, <4>1
    <3> QED
      BY <3>1, <3>2, <3>4
  <2> QED
    BY <1>1, <1>4, <1>6, <1>7, <1>10, <2>2 DEF RestoreGrant, PermsCleaned, GrantChanged
<1> QED
  BY <1>2, <1>8, <1>9, <1>10

(***************************************************************************)
(* Writes.                                                                 *)
(***************************************************************************)

\* A statement that succeeds: what it takes is free, and what it told is known.
Takes(r, p) ==
    LET q == req[r] IN
    /\ Turns(r, p) /\ Fine(feature, rows, p) /\ p.pend # Nothing /\ p.row \in Rows
    /\ \A s \in Requests \ {r} :
          req[s].row = p.row => Groups(p.pend) \cap Groups(req[s].pend) = {}
    /\ Holds(p) =>
          \/ p.row = q.row /\ "key" \in DOMAIN q.pend /\ p.pend["key"] = q.pend["key"]
          \/ KeyFree(r, p.pend["key"]) /\ ~Used(p.pend["key"], p.row)
    /\ p.told # {} =>
          \/ p.row \in cleaning' \/ rows[p.row] = None
          \/ p.row = q.row /\ p.told = q.told
Acquires(r) ==
    /\ \E p : Takes(r, p)
    /\ cleaning \subseteq cleaning' /\ cleaning' \subseteq CacheKeys
    /\ UNCHANGED <<feature, rows, order, grants, cache, permCache, excused, arrivals>>

LEMMA GroupsAre ==
    ASSUME NEW d
    PROVE  /\ Groups(d) \subseteq {"row", "texts"}
           /\ "state" \in DOMAIN d => "row" \in Groups(d)
           /\ "deleted" \in DOMAIN d => "row" \in Groups(d)
           /\ DOMAIN d \subseteq Own /\ feature # "category" => Groups(d) \subseteq {"row"}
           /\ DOMAIN d \subseteq {"deleted"} => Groups(d) \subseteq {"row"}
           /\ DOMAIN d = {} => Groups(d) = {}
BY DEF Groups, Group, Own

Writers == {"insert", "insertNode", "write", "content", "softRemove"}
Gives(q, p) ==
    /\ p.pc = q.pc + 1
    /\ p.op = q.op /\ p.data = q.data /\ p.code = q.code /\ p.perms = q.perms
    /\ p.got = q.got /\ p.page = q.page /\ p.entity = q.entity /\ p.loaded = q.loaded
LEMMA Wrote ==
    ASSUME NEW f \in DOMAIN Controllers, NEW t, NEW q, Fine(f, t, q), Busy(f, q),
           NEW a \in Writers, a = Current(f, q),
           NEW p \in RequestIn(f), Gives(q, p), p.pend # Nothing, p.row \in Rows,
           q.op # "create" => p.row = q.row,
           IF t[p.row] = None
           THEN /\ "created" \in p.told /\ Columns \ {"key"} \subseteq DOMAIN p.pend
                /\ "key" \in DOMAIN p.pend \/ a = "insertNode"
           ELSE OldRow(p)
    PROVE  Fine(f, t, p) /\ Keeps(q, p) /\ f \notin Logs
<1>1. q \in RequestIn(f) /\ Control(f, q)
  BY DEF Fine
<1>2. PICK b : b = Current(f, p)
  OBVIOUS
<1>3. p.op = q.op /\ p.pc = q.pc + 1 /\ p.data = q.data /\ p.code = q.code
  BY DEF Gives
<1>4. /\ Busy(f, p) /\ p.pc <= Len(Script(f, p.op))
      /\ q.pc > 2 => Follows(q.op, a, b)
  BY <1>1, <1>2, <1>3, Onward DEF Writers, Finals
<1>5. /\ q.op \in Endpoint /\ q.op \notin GrantOps /\ q.pc \in 1..9
      /\ q.pc > 3 => StepOK(f, q.op, a)
      /\ q.pc <= 3 => a = <<"fetchPerms", "setPerms", "can">>[q.pc]
  BY <1>1, Here
<1>6. q.pc > 3
  <2>1. PICK m \in 1..9 : q.pc = m
    BY <1>5
  <2>2. m <= 3 => m = 1 \/ m = 2 \/ m = 3
    BY <2>1
  <2> QED
    BY <1>5, <2>1, <2>2 DEF Writers
<1>7. Follows(q.op, a, b) /\ StepOK(f, q.op, a)
  BY <1>4, <1>5, <1>6
<1>8. f \notin Logs
  BY <1>5, <1>7, RoutesAre DEF StepOK, Allowed, Writers, Busy
<1>9. b \in {"content", "commit"} \/ (a = "insertNode" /\ b = "findOtherKey")
  BY <1>7 DEF Follows, Writers
<1>10. a = "insertNode" => q.op = "create" /\ f = "category"
  BY <1>5, <1>7 DEF StepOK, Allowed, Endpoint
<1>11. Control(f, p)
  BY <1>1, <1>3, <1>4, <1>5, EndpointsAre DEF Control, Busy
<1>12. Named(f, p)
  BY <1>3 DEF Fine, Named, Busy
<1>13. Entity(f, p)
  <2>1. b # "write"
    BY <1>9
  <2> QED
    BY <1>2, <2>1 DEF Fine, Entity, Gives
<1>14. Loaded(f, t, p)
  BY DEF Fine, Loaded, Entity, Gives
<1>15. Found(f, t, p)
  <2>1. b # "softRemove"
    BY <1>9
  <2>2. ASSUME p.op = "update", p.pc > 4, Script(f, p.op)[4] = "findRow"
        PROVE  t[p.row] # None
    <3>1. CASE q.pc > 4
      BY <1>3, <2>2, <3>1 DEF Fine, Found
    <3>2. CASE q.pc = 4
      BY <1>3, <2>2, <3>2 DEF Current, Writers
    <3> QED
      BY <1>5, <1>6, <3>1, <3>2
  <2> QED
    BY <1>2, <2>1, <2>2 DEF Found
<1>16. Pending(f, t, p)
  <2>1. Position(f, p)
    BY <1>2, <1>3, <1>9, <1>10 DEF Position
  <2>2. t[p.row] = None => NewRow(f, p)
    BY <1>2, <1>3, <1>7, <1>10 DEF NewRow, Follows
  <2> QED
    BY <1>8, <2>1, <2>2 DEF Pending
<1>17. Writing(f, p)
  BY DEF Writing
<1>18. Keeps(q, p)
  <2>1. q.op # "read"
    BY <1>7 DEF StepOK, Allowed, Writers
  <2>2. q.code # 200
    BY <1>1, <1>6, <1>5 DEF Control
  <2> QED
    BY <1>3, <1>5, <1>6, <2>1, <2>2 DEF Keeps, Gives
<1> QED
  BY <1>8, <1>11, <1>12, <1>13, <1>14, <1>15, <1>16, <1>17, <1>18 DEF Fine

Put(q, i, d, T) == [q EXCEPT !.row = i, !.pend = d, !.told = T]
LEMMA NextOfPut ==
    ASSUME NEW f, NEW q \in RequestIn(f), q.pc \in 0..9, NEW i \in Rows, NEW d \in Parts,
           NEW T \in Subsets(Actions)
    PROVE  LET p == Next1(Put(q, i, d, T)) IN
           p \in RequestIn(f) /\ Gives(q, p) /\ p.row = i /\ p.pend = d /\ p.told = T
<1>1. PICK z : z = Put(q, i, d, T)
  OBVIOUS
<1>2. z \in RequestIn(f)
  BY <1>1 DEF RequestIn, Put, Maybe
<1>3. /\ z.pc = q.pc /\ z.op = q.op /\ z.row = i /\ z.data = q.data /\ z.code = q.code
      /\ z.perms = q.perms /\ z.pend = d /\ z.told = T /\ z.got = q.got
      /\ z.page = q.page /\ z.entity = q.entity /\ z.loaded = q.loaded
  BY <1>1 DEF RequestIn, Put
<1>4. PICK p : p = Next1(z)
  OBVIOUS
<1>5. /\ p \in RequestIn(f) /\ p.pc = z.pc + 1
      /\ p.op = z.op /\ p.row = z.row /\ p.data = z.data
      /\ p.code = z.code /\ p.perms = z.perms /\ p.entity = z.entity
      /\ p.loaded = z.loaded /\ p.pend = z.pend /\ p.got = z.got /\ p.told = z.told
      /\ p.page = z.page
  BY <1>2, <1>3, <1>4, NextIs
<1> QED
  BY <1>1, <1>3, <1>4, <1>5 DEF Gives

\* Where a writer is.
LEMMA WriterAt ==
    ASSUME Sound, NEW r \in Requests, NEW a \in Writers, At(r, a)
    PROVE  LET q == req[r] IN
           /\ q \in RequestIn(feature) /\ Fine(feature, rows, q) /\ feature \in DOMAIN Controllers
           /\ Busy(feature, q) /\ Current(feature, q) = a /\ q.pc \in 0..9 /\ q.pc > 3
           /\ StepOK(feature, q.op, a) /\ q.op \in Endpoint /\ rows \in Tables
           /\ a # "content" => q.pend = Nothing /\ q.told = {}
<1>1. PICK q : q = req[r]
  OBVIOUS
<1>2. /\ q \in RequestIn(feature) /\ Fine(feature, rows, q) /\ feature \in DOMAIN Controllers
      /\ Busy(feature, q) /\ Current(feature, q) = a /\ q.pc \in 1..9 /\ rows \in Tables
      /\ q.op \in Endpoint
  BY <1>1, AtIs DEF Writers, StepName
<1>3. q.pc > 3
  <2>1. PICK n \in 1..9 : n = q.pc
    BY <1>2
  <2>2. n # 1 /\ n # 2 /\ n # 3
    BY <1>2, <2>1, Here DEF Fine, Writers
  <2> QED
    BY <2>1, <2>2
<1>4. StepOK(feature, q.op, a)
  BY <1>2, <1>3, Here DEF Fine
<1>5. a # "content" => q.pend = Nothing /\ q.told = {}
  BY <1>2 DEF Fine, Pending, Position, Control, Writers
<1> QED
  BY <1>1, <1>2, <1>3, <1>4, <1>5

\* What there is of a row that is not committed yet is locked as a whole.
LEMMA NewRowIsLocked ==
    ASSUME Sound, NEW r \in Requests, NEW i \in Rows, rows[i] = None, RowFree(r, i, {"row"}),
           NEW s \in Requests \ {r}, req[s].row = i
    PROVE  Groups(req[s].pend) = {}
<1>1. Fine(feature, rows, req[s])
  BY DEF Sound
<1>2. req[s].pend = Nothing \/ "state" \in DOMAIN req[s].pend
  BY <1>1 DEF Fine, Pending, NewRow, Columns
<1>3. "row" \notin Groups(req[s].pend)
  BY DEF RowFree
<1> QED
  BY <1>2, <1>3, GroupsAre, NothingIsPart

\* A new row, with all its columns or, of a category, all but the key.
LEMMA Created ==
    ASSUME Sound, Locks, NEW r \in Requests, NEW a \in Writers, At(r, a), a # "content",
           NEW i \in Rows, req[r].op # "create" => i = req[r].row,
           rows[i] = None, RowFree(r, i, {"row"}),
           NEW d \in Parts, Columns \ {"key"} \subseteq DOMAIN d,
           "key" \in DOMAIN d \/ a = "insertNode",
           Entities[feature].unique /\ "key" \in DOMAIN d
               => KeyFree(r, d["key"]) /\ ~Used(d["key"], i),
           Becomes(r, Next1(Tell([req[r] EXCEPT !.row = i, !.pend = d], "created")))
    PROVE  \E p : Takes(r, p)
<1>1. PICK q : q = req[r]
  OBVIOUS
<1>2. /\ q \in RequestIn(feature) /\ Fine(feature, rows, q) /\ feature \in DOMAIN Controllers
      /\ Busy(feature, q) /\ Current(feature, q) = a /\ q.pc \in 0..9
      /\ q.op \in Endpoint /\ q.told = {}
  BY <1>1, WriterAt
<1>3. PICK p : p = Next1(Put(q, i, d, {"created"}))
  OBVIOUS
<1>4. {"created"} \in Subsets(Actions)
  BY DEF Subsets, Actions
<1>5. p \in RequestIn(feature) /\ Gives(q, p) /\ p.row = i /\ p.pend = d /\ p.told = {"created"}
  BY <1>2, <1>3, <1>4, NextOfPut
<1>6. Put(q, i, d, {"created"}) = Tell([q EXCEPT !.row = i, !.pend = d], "created")
  BY <1>2 DEF Put, Tell, RequestIn
<1>7. Becomes(r, p)
  BY <1>1, <1>3, <1>6
<1>8. p.pend # Nothing
  BY <1>5, NothingIsPart DEF Columns
<1>9. Fine(feature, rows, p) /\ Keeps(q, p)
  BY <1>1, <1>2, <1>5, <1>8, Wrote
<1>10. p.op # "regrant"
  BY <1>2, <1>5 DEF Gives, Endpoint
<1>11. \A s \in Requests \ {r} :
          req[s].row = p.row => Groups(p.pend) \cap Groups(req[s].pend) = {}
  BY <1>5, NewRowIsLocked
<1>12. Holds(p) => KeyFree(r, p.pend["key"]) /\ ~Used(p.pend["key"], p.row)
  BY <1>5 DEF Holds
<1> QED
  BY <1>1, <1>5, <1>7, <1>8, <1>9, <1>10, <1>11, <1>12 DEF Takes, Turns, Honest

LEMMA InsertIs ==
    ASSUME Sound, Locks, NEW r \in Requests, NEW a \in {"insert", "write"}, At(r, a),
           NEW i \in Rows, req[r].op # "create" => i = req[r].row,
           NEW d \in Parts, "key" \in DOMAIN d, Insert(r, i, d)
    PROVE  (\E p : Takes(r, p)) \/ Turned(r)
<1>1. rows[i] = None /\ RowFree(r, i, {"row"}) /\ KeyFree(r, d.key)
  BY DEF Insert
<1>2. CASE Duplicate(d.key, i)
  <2>1. Fails(r, 500)
    BY <1>2 DEF Insert
  <2>2. req[r].pc > 0 /\ 500 \in Codes \ {200}
    BY DEF At, Codes
  <2> QED
    BY <2>1, <2>2, FailsIs DEF Turned
<1>3. CASE ~Duplicate(d.key, i)
  <2>1. PICK e : e = [key |-> d.key, state |-> IF "state" \in DOMAIN d THEN d.state ELSE TRUE,
                      parent |-> IF "parent" \in DOMAIN d THEN d.parent ELSE None,
                      content |-> FALSE, deleted |-> FALSE]
    OBVIOUS
  <2>2. e.key \in Keys /\ e.state \in BOOLEAN /\ e.parent \in Rows \cup {None}
        /\ e.content \in BOOLEAN /\ e.deleted \in BOOLEAN /\ DOMAIN e = Columns /\ e.key = d.key
    BY <2>1, PartsAre, ValuesAre DEF Columns
  <2>3. e = [c \in DOMAIN e |-> e[c]]
    BY <2>1
  <2>4. e \in Parts
    BY <2>2, <2>3, PartsAre, ValuesAre DEF Columns
  <2>5. Becomes(r, Next1(Tell([req[r] EXCEPT !.row = i, !.pend = e], "created")))
    BY <1>3, <2>1 DEF Insert
  <2>6. "key" \in DOMAIN e /\ Columns \ {"key"} \subseteq DOMAIN e
    BY <2>2 DEF Columns
  <2>7. a \in Writers /\ a # "content"
    BY DEF Writers
  <2>8. Entities[feature].unique => KeyFree(r, e["key"]) /\ ~Used(e["key"], i)
    BY <1>1, <1>3, <2>2 DEF Duplicate
  <2> QED
    BY <1>1, <2>4, <2>5, <2>6, <2>7, <2>8, Created
<1> QED
  BY <1>2, <1>3

LEMMA SaveIs ==
    ASSUME Sound, Locks, NEW r \in Requests, Save(r)
    PROVE  Acquires(r) \/ Plain(r)
<1>1. PICK q : q = req[r]
  OBVIOUS
<1>2. PICK a \in {"insert", "write"} : a = "insert" /\ At(r, a)
  BY DEF Save
<1>3. q \in RequestIn(feature) /\ Fine(feature, rows, q) /\ q.op = "create" /\ Busy(feature, q)
  BY <1>1, <1>2, WriterAt DEF Writers, StepOK, Allowed, Endpoint
<1>4. q.data \in Parts /\ "key" \in DOMAIN q.data
  BY <1>3 DEF RequestIn, Fine, Named
<1>5. (\E p : Takes(r, p)) \/ Turned(r)
  <2>1. CASE \E i \in Rows : Insert(r, i, q.data)
    BY <1>1, <1>2, <1>3, <1>4, <2>1, InsertIs
  <2>2. CASE Fails(r, 500)
    <3>1. req[r].pc > 0 /\ 500 \in Codes \ {200}
      BY <1>2 DEF At, Codes
    <3> QED
      BY <2>2, <3>1, FailsIs DEF Turned
  <2> QED
    BY <1>1, <2>1, <2>2 DEF Save
<1>6. cleaning' = cleaning /\ Unstored
  BY DEF Save, Insert
<1> QED
  BY <1>5, <1>6 DEF Acquires, Plain, Turned, Unstored, Sound

LEMMA InsertNodeIs ==
    ASSUME Sound, Locks, NEW r \in Requests, InsertNode(r)
    PROVE  Acquires(r)
<1>1. PICK q : q = req[r]
  OBVIOUS
<1>2. PICK a \in Writers : a = "insertNode" /\ At(r, a)
  BY DEF InsertNode, Writers
<1>3. q \in RequestIn(feature) /\ Fine(feature, rows, q) /\ q.op = "create"
  BY <1>1, <1>2, WriterAt DEF StepOK, Allowed, Endpoint
<1>4. q.data \in Parts
  BY <1>3 DEF RequestIn
<1>5. PICK d : d = q.data
  OBVIOUS
<1>6. PICK e : e = [parent |-> IF "parent" \in DOMAIN d THEN d.parent ELSE None,
                    state |-> FALSE, content |-> FALSE, deleted |-> FALSE]
  OBVIOUS
<1>7. e.state \in BOOLEAN /\ e.parent \in Rows \cup {None} /\ e.content \in BOOLEAN
      /\ e.deleted \in BOOLEAN /\ DOMAIN e = Columns \ {"key"}
  BY <1>4, <1>5, <1>6, PartsAre, ValuesAre DEF Columns
<1>8. e = [c \in DOMAIN e |-> e[c]]
  BY <1>6
<1>9. e \in Parts
  BY <1>7, <1>8, PartsAre, ValuesAre DEF Columns
<1>10. PICK i \in Rows :
          /\ rows[i] = None /\ RowFree(r, i, {"row"})
          /\ Becomes(r, Next1(Tell([req[r] EXCEPT !.row = i, !.pend = e], "created")))
  BY <1>1, <1>5, <1>6 DEF InsertNode
<1>11. \E p : Takes(r, p)
  BY <1>1, <1>2, <1>3, <1>7, <1>9, <1>10, Created
<1>12. cleaning' = cleaning /\ Unstored
  BY DEF InsertNode
<1> QED
  BY <1>11, <1>12 DEF Acquires, Unstored, Sound

\* A change of a row that is there.
LEMMA Changed ==
    ASSUME Sound, NEW r \in Requests, NEW a \in Writers, At(r, a),
           NEW d \in Parts, d # Nothing, NEW T \in Subsets(Actions),
           LET q == req[r] IN
           /\ q.op # "create" => q.row \in Rows
           /\ Becomes(r, Next1(Put(q, q.row, d, T)))
           /\ q.row \in Rows
           /\ rows[q.row] # None =>
                 \A p : p.op = q.op /\ p.pend = d /\ p.told = T => OldRow(p)
           /\ rows[q.row] = None =>
                 "created" \in T /\ Columns \subseteq DOMAIN d
           /\ \A s \in Requests \ {r} :
                 req[s].row = q.row => Groups(d) \cap Groups(req[s].pend) = {}
           /\ Entities[feature].unique /\ "key" \in DOMAIN d =>
                 \/ "key" \in DOMAIN q.pend /\ d["key"] = q.pend["key"]
                 \/ KeyFree(r, d["key"]) /\ ~Used(d["key"], q.row)
           /\ T # {} => q.row \in cleaning' \/ T = q.told
    PROVE  \E p : Takes(r, p)
<1>1. PICK q : q = req[r]
  OBVIOUS
<1>2. /\ q \in RequestIn(feature) /\ Fine(feature, rows, q) /\ feature \in DOMAIN Controllers
      /\ Busy(feature, q) /\ Current(feature, q) = a /\ q.pc \in 0..9 /\ q.op \in Endpoint
  BY <1>1, WriterAt
<1>3. PICK p : p = Next1(Put(q, q.row, d, T))
  OBVIOUS
<1>4. p \in RequestIn(feature) /\ Gives(q, p) /\ p.row = q.row /\ p.pend = d /\ p.told = T
  BY <1>1, <1>2, <1>3, NextOfPut
<1>5. rows[q.row] # None => OldRow(p)
  BY <1>1, <1>4 DEF Gives
<1>6. Fine(feature, rows, p) /\ Keeps(q, p)
  BY <1>1, <1>2, <1>4, <1>5, Wrote DEF Columns
<1>7. p.op # "regrant"
  BY <1>2, <1>4 DEF Gives, Endpoint
<1>8. Becomes(r, p)
  BY <1>1, <1>3
<1>9. Turns(r, p)
  BY <1>1, <1>4, <1>6, <1>7, <1>8 DEF Turns, Honest
<1>10. Holds(p) =>
          \/ p.row = q.row /\ "key" \in DOMAIN q.pend /\ p.pend["key"] = q.pend["key"]
          \/ KeyFree(r, p.pend["key"]) /\ ~Used(p.pend["key"], p.row)
  BY <1>1, <1>4 DEF Holds
<1> QED
  BY <1>1, <1>4, <1>6, <1>9, <1>10 DEF Takes

LEMMA AloneInRow ==
    ASSUME Sound, NEW r \in Requests, NEW d, NEW G, Groups(d) \subseteq G, RowFree(r, req[r].row, G)
    PROVE  \A s \in Requests \ {r} :
              req[s].row = req[r].row => Groups(d) \cap Groups(req[s].pend) = {}
BY DEF RowFree

LEMMA SoftRemoveIs ==
    ASSUME Sound, NEW r \in Requests, SoftRemove(r)
    PROVE  Acquires(r)
<1>1. PICK q : q = req[r]
  OBVIOUS
<1>2. PICK a \in Writers : a = "softRemove" /\ At(r, a)
  BY DEF SoftRemove, Writers
<1>3. /\ q \in RequestIn(feature) /\ Fine(feature, rows, q) /\ feature \in DOMAIN Controllers
      /\ Busy(feature, q) /\ Current(feature, q) = a /\ StepOK(feature, q.op, a)
      /\ q.op \in Endpoint /\ q.told = {}
  BY <1>1, <1>2, WriterAt
<1>4. q.op = "delete" /\ feature \notin Logs
  BY <1>2, <1>3 DEF StepOK, Allowed, Endpoint
<1>5. q.row \in Rows /\ rows[q.row] # None
  BY <1>2, <1>3, <1>4 DEF Fine, Named, Found
<1>6. PICK d : d = [deleted |-> TRUE]
  OBVIOUS
<1>7. DOMAIN d = {"deleted"} /\ d["deleted"] /\ d = [c \in DOMAIN d |-> d[c]]
  BY <1>6
<1>8. d \in Parts /\ d # Nothing /\ d["deleted"] = TRUE
  <2>1. d["deleted"] = TRUE
    BY <1>6
  <2>2. DOMAIN d \subseteq Columns /\ \A c \in DOMAIN d : d[c] \in Values(c)
    BY <1>7, <2>1, ValuesAre DEF Columns
  <2>3. d \in Parts
    BY <1>7, <2>2, PartsAre
  <2>4. d # Nothing
    BY <1>7, NothingIsPart
  <2> QED
    BY <2>1, <2>3, <2>4
<1>9. PICK T : T = {"deleted"}
  OBVIOUS
<1>10. T \in Subsets(Actions)
  BY <1>9 DEF Subsets, Actions
<1>11. Becomes(r, Next1(Put(q, q.row, d, T)))
  <2>1. Put(q, q.row, d, T) = Tell([q EXCEPT !.pend = [deleted |-> TRUE]], "deleted")
    BY <1>3, <1>6, <1>9 DEF Put, Tell, RequestIn
  <2> QED
    BY <1>1, <2>1 DEF SoftRemove
<1>12. ASSUME NEW p, p.op = q.op, p.pend = d, p.told = T
       PROVE  OldRow(p)
  BY <1>4, <1>7, <1>8, <1>9, <1>12 DEF OldRow
<1>13. \A s \in Requests \ {r} :
          req[s].row = q.row => Groups(d) \cap Groups(req[s].pend) = {}
  <2>1. Groups(d) \subseteq {"row"}
    BY <1>7, GroupsAre
  <2> QED
    BY <1>1, <2>1, AloneInRow DEF SoftRemove
<1>14. cleaning' = cleaning \cup {q.row}
  BY <1>1, <1>3, <1>4 DEF SoftRemove, Clean, Announcing
<1>15. \E p : Takes(r, p)
  BY <1>1, <1>2, <1>5, <1>7, <1>8, <1>10, <1>11, <1>12, <1>13, <1>14, Changed
<1>16. cleaning' \subseteq CacheKeys
  BY <1>5, <1>14 DEF Sound, CacheKeys, Entries
<1> QED
  BY <1>14, <1>15, <1>16 DEF Acquires, SoftRemove, Unstored

\* A body without texts.
LEMMA ContentSkips ==
    ASSUME Sound, NEW r \in Requests, Content(r), "content" \notin DOMAIN req[r].data
    PROVE  Plain(r)
<1>1. PICK q : q = req[r]
  OBVIOUS
<1>2. PICK a \in Writers : a = "content" /\ At(r, a)
  BY DEF Content, Writers
<1>3. /\ q \in RequestIn(feature) /\ Fine(feature, rows, q) /\ feature \in DOMAIN Controllers
      /\ Busy(feature, q) /\ Current(feature, q) = a /\ StepOK(feature, q.op, a)
      /\ q.op \in Endpoint /\ q.pc > 3 /\ q.pc \in 0..9
  BY <1>1, <1>2, WriterAt
<1>4. q.op = "update"
  <2>1. q.op \in {"create", "update"} /\ feature \in Texted
    BY <1>2, <1>3 DEF StepOK, Allowed, Endpoint
  <2> QED
    BY <1>1, <1>3, <2>1 DEF Fine, Named
<1>5. PICK p : p = Next1(q)
  OBVIOUS
<1>6. p \in RequestIn(feature) /\ Same(q, p) /\ p.entity = q.entity /\ p.loaded = q.loaded
  BY <1>3, <1>5, NextIs DEF Same
<1>7. Fine(feature, rows, p)
  <2>1. Loaded(feature, rows, p) /\ "content" \notin DOMAIN p.entity
    BY <1>3, <1>6 DEF Fine, Loaded, Entity, Same
  <2>2. a \notin Finals \cup {"insert", "insertNode", "softRemove", "load", "pick", "findRow"}
    BY <1>2 DEF Finals
  <2> QED
    BY <1>3, <1>4, <1>6, <2>1, <2>2, Moved DEF Same
<1>8. Keeps(q, p)
  <2>1. q.code # 200
    BY <1>3 DEF Fine, Control
  <2>2. p.pc > 4
    BY <1>3, <1>6 DEF Same
  <2> QED
    BY <1>3, <1>4, <1>6, <2>1, <2>2 DEF Keeps, Same
<1>9. Becomes(r, p)
  BY <1>1, <1>5 DEF Content
<1>10. Turns(r, p) /\ Calm(q, p)
  BY <1>1, <1>4, <1>6, <1>8, <1>9 DEF Turns, Honest, Calm, Same
<1> QED
  BY <1>1, <1>7, <1>10 DEF Plain, Content, Unstored, Sound

LEMMA ContentIs ==
    ASSUME Sound, Locks, NEW r \in Requests, Content(r)
    PROVE  Acquires(r) \/ Plain(r)
<1>0. CASE "content" \notin DOMAIN req[r].data
  BY <1>0, ContentSkips
<1> SUFFICES ASSUME "content" \in DOMAIN req[r].data PROVE Acquires(r) \/ Plain(r)
  BY <1>0
<1>1. PICK q : q = req[r]
  OBVIOUS
<1>2. PICK a \in Writers : a = "content" /\ At(r, a)
  BY DEF Content, Writers
<1>3. /\ q \in RequestIn(feature) /\ Fine(feature, rows, q) /\ feature \in DOMAIN Controllers
      /\ Busy(feature, q) /\ Current(feature, q) = a /\ StepOK(feature, q.op, a)
      /\ q.op \in Endpoint /\ q.pc > 3 /\ q.pc \in 0..9
  BY <1>1, <1>2, WriterAt
<1>4. q.op \in {"create", "update"} /\ feature \in Texted
  BY <1>2, <1>3 DEF StepOK, Allowed, Endpoint
<1>5. /\ q.data \in Parts /\ q.pend \in Parts /\ "content" \in DOMAIN q.data
      /\ feature = "category" => "key" \in DOMAIN q.data
      /\ "deleted" \notin DOMAIN q.data
  BY <1>1, <1>3, <1>4 DEF RequestIn, Fine, Named
<1>6. TextColumns \subseteq DOMAIN q.data /\ "content" \in TextColumns
      /\ TextColumns \subseteq {"content", "key"} /\ TextColumns \subseteq Columns
      /\ ("key" \in TextColumns <=> feature = "category")
  BY <1>5 DEF TextColumns, Columns
<1>7. q.op = "update" => q.row \in Rows /\ rows[q.row] # None
  <2>1. SUFFICES ASSUME q.op = "update" PROVE q.row \in Rows /\ rows[q.row] # None
    OBVIOUS
  <2>2. q.row \in Rows
    BY <1>3, <2>1 DEF Fine, Named
  <2>3. WholeOK(feature, q.op, Script(feature, q.op))
    BY <1>3, ScriptsOK DEF Busy, ScriptOK
  <2>4. PICK n \in 4..9 : n = q.pc
    BY <1>3
  <2>5. n \in 4..Len(Script(feature, q.op)) /\ Script(feature, q.op)[n] = "content"
    BY <1>2, <1>3, <2>4, Here DEF Current, Fine
  <2>6. Script(feature, q.op)[4] = "findRow"
    BY <2>1, <2>3, <2>5 DEF WholeOK
  <2>7. n # 4
    BY <2>5, <2>6
  <2>8. q.pc > 4
    BY <2>4, <2>7
  <2> QED
    BY <1>3, <2>1, <2>2, <2>6, <2>8 DEF Fine, Found
<1>8. q.op = "create" => /\ q.row \in Rows /\ rows[q.row] = None /\ q.pend # Nothing
                         /\ "created" \in q.told /\ Columns \ {"key"} \subseteq DOMAIN q.pend
                         /\ "key" \in DOMAIN q.pend \/ feature = "category"
  <2>1. SUFFICES ASSUME q.op = "create" PROVE q.pend # Nothing
    BY <1>3 DEF Fine, Pending, NewRow, OldRow
  <2> QED
    BY <1>2, <1>3, <2>1 DEF Fine, Writing
<1>9. q.row \in Rows
  BY <1>4, <1>7, <1>8
<1>10. PICK d : d = [c \in DOMAIN q.pend \cup TextColumns |->
                        IF c \in TextColumns THEN q.data[c] ELSE q.pend[c]]
  OBVIOUS
<1>11. /\ DOMAIN d = DOMAIN q.pend \cup TextColumns
       /\ \A c \in TextColumns : d[c] = q.data[c]
       /\ \A c \in DOMAIN q.pend \ TextColumns : d[c] = q.pend[c]
       /\ d = [c \in DOMAIN d |-> d[c]]
  BY <1>10
<1>12. d \in Parts /\ d # Nothing
  <2>1. DOMAIN d \subseteq Columns
    BY <1>5, <1>6, <1>11, PartsAre
  <2>2. ASSUME NEW c \in DOMAIN d PROVE d[c] \in Values(c)
    BY <1>5, <1>6, <1>11, PartsAre
  <2>3. d # Nothing
    BY <1>6, <1>11, NothingIsPart
  <2> QED
    BY <1>11, <2>1, <2>2, <2>3, PartsAre
<1>13. CASE "key" \in TextColumns /\ Duplicate(q.data.key, q.row)
  <2>1. Fails(r, 409)
    BY <1>1, <1>13 DEF Content
  <2>2. req[r].pc > 0 /\ 409 \in Codes \ {200}
    BY <1>2 DEF At, Codes
  <2> QED
    BY <2>1, <2>2, FailsIs DEF Plain, Content, Unstored, Sound
<1>14. CASE ~("key" \in TextColumns /\ Duplicate(q.data.key, q.row))
  <2>1. PICK T : T = q.told
    OBVIOUS
  <2>2. T \in Subsets(Actions)
    BY <1>3, <2>1 DEF RequestIn
  <2>3. Becomes(r, Next1(Put(q, q.row, d, T)))
    <3>1. [q EXCEPT !.pend = d] = Put(q, q.row, d, T)
      BY <1>3, <2>1 DEF Put, RequestIn
    <3>2. Becomes(r, Next1([q EXCEPT !.pend =
              [c \in DOMAIN q.pend \cup TextColumns |->
                  IF c \in TextColumns THEN q.data[c] ELSE q.pend[c]]]))
      BY <1>1, <1>14 DEF Content
    <3> QED
      BY <1>10, <3>1, <3>2
  <2>4. ASSUME rows[q.row] # None, NEW p, p.op = q.op, p.pend = d, p.told = T
        PROVE  OldRow(p)
    <3>1. q.op = "update"
      BY <1>4, <1>8, <2>4
    <3>2. "deleted" \notin DOMAIN q.pend
      BY <1>3, <2>4, <3>1, NothingIsPart DEF Fine, Pending, OldRow
    <3> QED
      BY <1>6, <1>11, <2>4, <3>1, <3>2 DEF OldRow
  <2>5. rows[q.row] = None => "created" \in T /\ Columns \subseteq DOMAIN d
    BY <1>4, <1>6, <1>7, <1>8, <1>11, <2>1
  <2>6. \A s \in Requests \ {r} :
          req[s].row = q.row => Groups(d) \cap Groups(req[s].pend) = {}
    <3>1. Groups(d) \subseteq Groups(q.pend) \cup {"texts"}
      BY <1>6, <1>11 DEF Groups, Group
    <3>2. \A s \in Requests \ {r} :
            req[s].row = q.row => "texts" \notin Groups(req[s].pend)
      BY <1>1 DEF Content, RowFree
    <3>3. \A s \in Requests \ {r} :
            req[s].row = q.row => Groups(q.pend) \cap Groups(req[s].pend) = {}
      BY <1>1 DEF Locks
    <3> QED
      BY <3>1, <3>2, <3>3
  <2>7. Entities[feature].unique /\ "key" \in DOMAIN d =>
           \/ "key" \in DOMAIN q.pend /\ d["key"] = q.pend["key"]
           \/ KeyFree(r, d["key"]) /\ ~Used(d["key"], q.row)
    <3>1. CASE "key" \in TextColumns
      BY <1>1, <1>11, <1>14, <3>1 DEF Content, Duplicate
    <3>2. CASE "key" \notin TextColumns
      BY <1>11, <3>2
    <3> QED
      BY <3>1, <3>2
  <2>8. \E p : Takes(r, p)
    BY <1>1, <1>2, <1>9, <1>12, <2>1, <2>2, <2>3, <2>4, <2>5, <2>6, <2>7, Changed
  <2> QED
    BY <2>8 DEF Acquires, Content, Unstored, Sound
<1> QED
  BY <1>13, <1>14

LEMMA WriteIs ==
    ASSUME Sound, Locks, NEW r \in Requests, Write(r)
    PROVE  Acquires(r) \/ Plain(r)
<1>1. PICK q : q = req[r]
  OBVIOUS
<1>2. PICK a \in Writers : a = "write" /\ At(r, a)
  BY DEF Write, Writers
<1>3. /\ q \in RequestIn(feature) /\ Fine(feature, rows, q) /\ feature \in DOMAIN Controllers
      /\ Busy(feature, q) /\ Current(feature, q) = a /\ StepOK(feature, q.op, a)
      /\ q.op \in Endpoint /\ q.told = {} /\ q.pend = Nothing
  BY <1>1, <1>2, WriterAt
<1>4. q.op \in {"update", "statusUpdate", "restore"} /\ feature # "category"
  BY <1>2, <1>3 DEF StepOK, Allowed, Endpoint
<1>5. feature \notin Logs /\ q.row \in Rows
  BY <1>3, <1>4, RoutesAre DEF Busy, Fine, Named
<1>6. /\ q.entity \in Parts /\ q.loaded \in Parts /\ "content" \notin DOMAIN q.entity
      /\ q.op = "update" => "deleted" \notin DOMAIN q.entity
      /\ q.op = "restore" /\ "deleted" \in DOMAIN q.entity => ~q.entity["deleted"]
  BY <1>2, <1>3 DEF RequestIn, Fine, Entity
<1>7. Unstored
  BY DEF Write
<1>8. req[r].pc > 0 /\ 500 \in Codes \ {200}
  BY <1>2 DEF At, Codes
<1>9. ASSUME Turned(r), cleaning' = cleaning PROVE Plain(r)
  BY <1>7, <1>9 DEF Plain, Turned, Unstored, Sound
<1>10. CASE q.loaded = Nothing /\ "key" \in DOMAIN q.entity
  <2>1. Insert(r, q.row, q.entity)
    BY <1>1, <1>10 DEF Write
  <2>2. (\E p : Takes(r, p)) \/ Turned(r)
    BY <1>1, <1>2, <1>5, <1>6, <1>10, <2>1, InsertIs
  <2>3. cleaning' = cleaning
    BY <2>1 DEF Insert
  <2> QED
    BY <1>7, <1>9, <2>2, <2>3 DEF Acquires, Unstored, Sound
<1>11. CASE q.loaded = Nothing /\ "key" \notin DOMAIN q.entity
  <2>1. Fails(r, 500) /\ cleaning' = cleaning
    BY <1>1, <1>11 DEF Write
  <2> QED
    BY <1>8, <1>9, <2>1, FailsIs DEF Turned
<1>12. CASE q.loaded # Nothing /\ Differs(q) = {}
  <2>1. Becomes(r, Next1(req[r])) /\ cleaning' = cleaning
    BY <1>1, <1>12 DEF Write
  <2>2. a \in Inner /\ a \notin {"pick", "findRow", "load"}
    BY <1>2 DEF Inner, StepName, Finals
  <2>3. Turned(r)
    BY <1>2, <2>1, <2>2, NextIsOn DEF Turned
  <2> QED
    BY <1>9, <2>1, <2>3
<1>13. CASE q.loaded # Nothing /\ Differs(q) # {}
  <2>1. PICK diff : diff = Differs(q)
    OBVIOUS
  <2>2. diff \subseteq DOMAIN q.entity /\ DOMAIN q.entity \subseteq Own /\ diff # {}
        /\ \A c \in diff : q.entity[c] # q.loaded[c]
    BY <1>6, <1>13, <2>1, PartsAre DEF Differs, Own
  <2>3. DOMAIN q.loaded = Own /\ rows[q.row] # None
    BY <1>3, <1>13 DEF Fine, Loaded
  <2>4. RowFree(r, q.row, {"row"}) /\ ("key" \in diff => KeyFree(r, q.entity.key))
    BY <1>1, <1>13, <2>1 DEF Write
  <2>5. PICK d : d = [c \in diff |-> q.entity[c]]
    OBVIOUS
  <2>6. d \in Parts /\ DOMAIN d = diff /\ d # Nothing /\ \A c \in diff : d[c] = q.entity[c]
    BY <1>6, <2>2, <2>5, Restricted, NothingIsPart
  <2>7. PICK T : T = {IF isRestore(q) THEN "restored" ELSE "updated"}
    OBVIOUS
  <2>8. T \in Subsets(Actions)
    BY <2>7 DEF Subsets, Actions
  <2>9. \/ Fails(r, 500) /\ cleaning' = cleaning
        \/ /\ ~("key" \in diff /\ Duplicate(q.entity.key, q.row))
           /\ Becomes(r, Next1(Tell([q EXCEPT !.pend = [c \in diff |-> q.entity[c]]],
                                    IF isRestore(q) THEN "restored" ELSE "updated")))
           /\ Clean({q.row})
    BY <1>1, <1>13, <2>1 DEF Write
  <2>10. CASE Fails(r, 500) /\ cleaning' = cleaning
    BY <1>8, <1>9, <2>10, FailsIs DEF Turned
  <2>11. CASE /\ ~("key" \in diff /\ Duplicate(q.entity.key, q.row))
              /\ Becomes(r, Next1(Tell([q EXCEPT !.pend = [c \in diff |-> q.entity[c]]],
                                       IF isRestore(q) THEN "restored" ELSE "updated")))
              /\ Clean({q.row})
    <3>1. Becomes(r, Next1(Put(q, q.row, d, T)))
      <4>1. PICK w : w = IF isRestore(q) THEN "restored" ELSE "updated"
        OBVIOUS
      <4>2. Tell([q EXCEPT !.pend = d], w) = Put(q, q.row, d, {w})
        BY <1>3 DEF Put, Tell, RequestIn
      <4> QED
        BY <2>5, <2>7, <2>11, <4>1, <4>2
    <3>2. ASSUME NEW p, p.op = q.op, p.pend = d, p.told = T
          PROVE  OldRow(p)
      <4>1. ASSUME "deleted" \in diff
            PROVE  IF d["deleted"] THEN q.op = "statusUpdate" ELSE "restored" \in T
        <5>1. q.entity["deleted"] \in BOOLEAN /\ q.loaded["deleted"] \in BOOLEAN
          BY <1>6, <2>2, <2>3, <4>1, PartsAre, ValuesAre
        <5>2. q.entity["deleted"] # q.loaded["deleted"] /\ d["deleted"] = q.entity["deleted"]
          BY <2>2, <2>6, <4>1
        <5>3. CASE q.entity["deleted"]
          BY <1>4, <1>6, <2>2, <4>1, <5>2, <5>3
        <5>4. CASE ~q.entity["deleted"]
          <6>1. q.loaded["deleted"]
            BY <5>1, <5>2, <5>4
          <6>2. isRestore(q)
            BY <2>1, <4>1, <6>1 DEF isRestore
          <6> QED
            BY <2>7, <5>2, <5>4, <6>2
        <5> QED
          BY <5>3, <5>4
      <4> QED
        BY <1>4, <1>6, <2>2, <2>6, <3>2, <4>1 DEF OldRow
    <3>3. \A s \in Requests \ {r} :
            req[s].row = q.row => Groups(d) \cap Groups(req[s].pend) = {}
      <4>1. Groups(d) \subseteq {"row"}
        BY <1>4, <2>2, <2>6, GroupsAre
      <4> QED
        BY <1>1, <2>4, <4>1, AloneInRow
    <3>4. Entities[feature].unique /\ "key" \in DOMAIN d =>
             KeyFree(r, d["key"]) /\ ~Used(d["key"], q.row)
      BY <2>4, <2>6, <2>11 DEF Duplicate
    <3>5. cleaning' = cleaning \cup {q.row}
      BY <1>3, <1>5, <2>11 DEF Clean, Announcing
    <3>6. \E p : Takes(r, p)
      BY <1>1, <1>2, <1>5, <2>3, <2>6, <2>8, <3>1, <3>2, <3>3, <3>4, <3>5, Changed
    <3>7. cleaning \subseteq cleaning' /\ cleaning' \subseteq CacheKeys
      BY <1>5, <3>5 DEF Sound, CacheKeys, Entries
    <3> QED
      BY <1>7, <3>6, <3>7 DEF Acquires, Unstored
  <2> QED
    BY <2>9, <2>10, <2>11
<1> QED
  BY <1>10, <1>11, <1>12, <1>13

(***************************************************************************)
(* The ends: a commit, and the removal of the rows of a log.               *)
(***************************************************************************)

\* A step after which nothing of the request is uncommitted, whatever the rows.
Ends(r) ==
    \E p : Turns(r, p) /\ p.pend = Nothing /\ p.told = {} /\ \A t : Fine(feature, t, p)

LEMMA MergedIs ==
    ASSUME Sound, NEW r \in Requests, At(r, "commit"), req[r].pend # Nothing
    PROVE  LET q == req[r] IN
           /\ q.row \in Rows /\ Merged(q) \in Row /\ feature \notin Logs
           /\ IF rows[q.row] = None
              THEN /\ "created" \in q.told /\ Merged(q) = q.pend /\ "key" \in DOMAIN q.pend
              ELSE /\ OldRow(q)
                   /\ Merged(q) = [c \in Columns |-> IF c \in DOMAIN q.pend THEN q.pend[c]
                                                    ELSE rows[q.row][c]]
<1>1. PICK q : q = req[r]
  OBVIOUS
<1>2. "commit" \in StepName
  BY DEF StepName
<1>3. /\ q \in RequestIn(feature) /\ Fine(feature, rows, q) /\ Current(feature, q) = "commit"
      /\ rows \in Tables
  BY <1>1, <1>2, AtIs
<1>4. q.row \in Rows /\ feature \notin Logs /\ q.pend \in Parts
  BY <1>1, <1>3 DEF Fine, Pending, RequestIn
<1>5. CASE rows[q.row] = None
  <2>1. NewRow(feature, q)
    BY <1>1, <1>3, <1>5 DEF Fine, Pending
  <2>2. "key" \in DOMAIN q.pend /\ "created" \in q.told
    BY <1>3, <2>1 DEF NewRow
  <2>3. DOMAIN q.pend = Columns
    BY <1>4, <2>1, <2>2, PartsAre DEF NewRow
  <2>4. q.pend \in Row
    BY <1>4, <2>3, FullIsRow
  <2> QED
    BY <1>1, <1>4, <1>5, <2>2, <2>4 DEF Merged
<1>6. CASE rows[q.row] # None
  <2>1. OldRow(q)
    BY <1>1, <1>3, <1>6 DEF Fine, Pending
  <2>2. rows[q.row] \in Row
    BY <1>3, <1>4, <1>6, TypedRow
  <2>3. PICK m : m = [c \in Columns |-> IF c \in DOMAIN q.pend THEN q.pend[c]
                                       ELSE rows[q.row][c]]
    OBVIOUS
  <2>4. DOMAIN m = Columns /\ m = [c \in DOMAIN m |-> m[c]]
    BY <2>3
  <2>5. ASSUME NEW c \in Columns PROVE m[c] \in Values(c)
    <3>1. CASE c \in DOMAIN q.pend
      BY <1>4, <2>3, <3>1, PartsAre
    <3>2. CASE c \notin DOMAIN q.pend
      BY <2>2, <2>3, <3>2, RowIsPart
    <3> QED
      BY <3>1, <3>2
  <2>6. m \in Parts
    BY <2>4, <2>5, PartsAre
  <2>7. m \in Row
    BY <2>4, <2>6, FullIsRow
  <2>8. m = Merged(q)
    BY <1>6, <2>3 DEF Merged
  <2> QED
    BY <1>1, <1>4, <1>6, <2>1, <2>3, <2>7, <2>8
<1> QED
  BY <1>5, <1>6

\* What a commit may change.
Commits(r) ==
    /\ Ends(r) /\ At(r, "commit")
    /\ UNCHANGED <<feature, order, grants, cache, permCache, cleaning, arrivals>>
    /\ IF req[r].pend = Nothing THEN UNCHANGED <<rows, excused>>
       ELSE /\ rows' = [rows EXCEPT ![req[r].row] = Merged(req[r])]
            /\ excused' = IF req[r].told = {} THEN excused \cup {req[r].row} ELSE excused
LEMMA CommitIs ==
    ASSUME Sound, NEW r \in Requests, Commit(r)
    PROVE  Commits(r)
<1>1. PICK q : q = req[r]
  OBVIOUS
<1>2. PICK a \in Finals : a = "commit" /\ At(r, a)
  BY DEF Finals, Commit
<1>3. /\ q \in RequestIn(feature) /\ Fine(feature, rows, q) /\ feature \in DOMAIN Controllers
      /\ Busy(feature, q) /\ Current(feature, q) = "commit" /\ q.op \in Endpoint
      /\ q.op \notin GrantOps /\ q.pc \in 1..9
  BY <1>1, <1>2, AtIs DEF Finals, StepName
<1>4. q.pc > 3 /\ q.op # "read"
  <2>1. PICK n \in 1..9 : n = q.pc
    BY <1>3
  <2>2. n # 1 /\ n # 2 /\ n # 3
    BY <1>3, <2>1, Here DEF Fine
  <2> QED
    BY <1>3, <2>1, <2>2, Here DEF Fine, StepOK, Allowed
<1>5. 200 \in Codes
  BY DEF Codes
<1>6. PICK p : p = Answer(q, 200)
  OBVIOUS
<1>7. /\ p \in RequestIn(feature) /\ p.code = 200 /\ p.got = q.got /\ p.page = q.page
      /\ Ended(q, p)
  BY <1>3, <1>5, <1>6, AnswerIsRequest
<1>8. \A t : Fine(feature, t, p)
  BY <1>3, <1>5, <1>6, AnswerIsFine
<1>9. Keeps(q, p)
  BY <1>3, <1>4, <1>7 DEF Keeps, Ended
<1>10. Becomes(r, p)
  BY <1>1, <1>6 DEF Commit
<1>11. Ends(r)
  BY <1>1, <1>3, <1>7, <1>8, <1>9, <1>10, EndpointsAre DEF Ends, Turns, Honest, Ended
<1> QED
  BY <1>2, <1>11 DEF Commit, Commits

\* The rows of a log are no business of a request that is at work on it.
LEMMA LogsFine ==
    ASSUME NEW f \in Logs, f \in DOMAIN Controllers, NEW t, NEW q, Fine(f, t, q), NEW u
    PROVE  Fine(f, u, q) /\ q.pend = Nothing /\ q.told = {}
<1>1. q.loaded = Nothing /\ q.pend = Nothing
  BY DEF Fine, Loaded, Pending
<1>2. q.told = {}
  BY <1>1 DEF Fine, Control
<1>3. Found(f, u, q)
  <2>1. SUFFICES ASSUME Busy(f, q) PROVE Current(f, q) # "softRemove" /\ q.op # "update"
    BY DEF Found
  <2>2. q.op \in {"read", "delete", "find"}
    BY <2>1, RoutesAre DEF Busy
  <2>3. Current(f, q) # "softRemove"
    <3>2. PICK n \in 1..9 : n = q.pc
      BY <2>1, Here DEF Fine
    <3>3. n \in {1, 2, 3} => Current(f, q) # "softRemove"
      BY <2>1, <3>2, Here DEF Fine
    <3>4. ASSUME n > 3 PROVE Current(f, q) # "softRemove"
      <4>1. StepOK(f, q.op, Current(f, q))
        BY <2>1, <3>2, <3>4, Here DEF Fine
      <4> QED
        BY <2>2, <4>1 DEF StepOK, Allowed
    <3> QED
      BY <3>2, <3>3, <3>4
  <2> QED
    BY <2>2, <2>3
<1> QED
  BY <1>1, <1>2, <1>3 DEF Fine, Loaded, Pending

\* What the removal of a row of a log may change.
Removes(r) ==
    /\ Ends(r) /\ feature \in Logs
    /\ UNCHANGED <<feature, order, grants, cache, permCache, cleaning, arrivals>>
    /\ \/ UNCHANGED <<rows, excused>>
       \/ \E i \in Rows : rows' = [rows EXCEPT ![i] = None] /\ excused' = excused \cup {i}
LEMMA RemoveManyIs ==
    ASSUME Sound, NEW r \in Requests, RemoveMany(r)
    PROVE  Removes(r)
<1>1. PICK q : q = req[r]
  OBVIOUS
<1>2. PICK a \in Finals : a = "removeMany" /\ At(r, a)
  BY DEF Finals, RemoveMany
<1>3. /\ q \in RequestIn(feature) /\ Fine(feature, rows, q) /\ feature \in DOMAIN Controllers
      /\ Busy(feature, q) /\ Current(feature, q) = "removeMany" /\ q.op \in Endpoint
      /\ q.op \notin GrantOps /\ q.pc \in 1..9
  BY <1>1, <1>2, AtIs DEF Finals, StepName
<1>4. q.pc > 3 /\ q.op = "delete" /\ feature \in Logs
  <2>1. PICK n \in 1..9 : n = q.pc
    BY <1>3
  <2>2. n # 1 /\ n # 2 /\ n # 3
    BY <1>3, <2>1, Here DEF Fine
  <2>3. StepOK(feature, q.op, "removeMany")
    BY <1>3, <2>1, <2>2, Here DEF Fine
  <2> QED
    BY <1>3, <2>1, <2>2, <2>3 DEF StepOK, Allowed, Endpoint
<1>5. 200 \in Codes /\ 500 \in Codes /\ q.code \in Codes /\ q.ids \subseteq Rows /\ q.code # 200
  BY <1>3 DEF Codes, RequestIn, Subsets, Fine, Control, Busy
<1>6. ASSUME NEW z \in RequestIn(feature), z.op = q.op, z.row = q.row, z.perms = q.perms,
             z.got = q.got, z.page = q.page, NEW code \in Codes, Becomes(r, Answer(z, code))
      PROVE  Ends(r)
  <2>1. PICK p : p = Answer(z, code)
    OBVIOUS
  <2>2. /\ p \in RequestIn(feature) /\ p.code = code /\ p.got = z.got /\ p.page = z.page
        /\ Ended(z, p)
    BY <2>1, AnswerIsRequest
  <2>3. \A t : Fine(feature, t, p)
    BY <1>3, <2>1, AnswerIsFine
  <2>4. Keeps(q, p)
    BY <1>3, <1>4, <1>6, <2>2 DEF Keeps, Ended
  <2> QED
    BY <1>1, <1>3, <1>4, <1>6, <2>1, <2>2, <2>3, <2>4 DEF Ends, Turns, Honest, Ended
<1>7. ASSUME NEW p \in RequestIn(feature), p.op = q.op, p.row = q.row, p.perms = q.perms,
             p.got = q.got, p.page = q.page, p.pc = q.pc, p.data = q.data,
             p.entity = q.entity, p.loaded = q.loaded, p.pend = q.pend, p.told = q.told,
             p.perm = q.perm, p.code # 200, Becomes(r, p)
      PROVE  Ends(r)
  <2>1. Fine(feature, rows, p)
    BY <1>3, <1>7 DEF Fine, Control, Busy, Named, Entity, Loaded, Found, Pending, Writing,
       Current, Position, NewRow, OldRow
  <2>2. p.pend = Nothing /\ p.told = {} /\ \A t : Fine(feature, t, p)
    BY <1>3, <1>4, <2>1, LogsFine
  <2>3. Keeps(q, p)
    BY <1>3, <1>4, <1>7 DEF Keeps
  <2> QED
    BY <1>1, <1>4, <1>7, <2>2, <2>3 DEF Ends, Turns, Honest
<1> DEFINE rest(i) == [req[r] EXCEPT !.ids = @ \ {i}]
           end(p, code) == IF p.ids = {} THEN Answer(p, IF p.code = 0 THEN code ELSE p.code) ELSE p
<1>8. PICK i \in req[r].ids :
          \/ /\ rows' = [rows EXCEPT ![i] = None]
             /\ excused' = excused \cup {i}
             /\ Becomes(r, end(rest(i), 200))
          \/ /\ Becomes(r, end([rest(i) EXCEPT !.code = 500], 500))
             /\ UNCHANGED <<rows, excused>>
  BY Zenon DEF RemoveMany
<1>9. PICK I : I = q.ids \ {i}
  OBVIOUS
<1>10. I \in Subsets(Rows)
  BY <1>5, <1>9 DEF Subsets
<1>11. PICK z : z = [q EXCEPT !.ids = I]
  OBVIOUS
<1>12. PICK y : y = [z EXCEPT !.code = 500]
  OBVIOUS
<1>13. /\ z \in RequestIn(feature) /\ z.op = q.op /\ z.row = q.row /\ z.perms = q.perms
       /\ z.got = q.got /\ z.page = q.page /\ z.pc = q.pc /\ z.data = q.data
       /\ z.entity = q.entity /\ z.loaded = q.loaded /\ z.pend = q.pend /\ z.told = q.told
       /\ z.perm = q.perm /\ z.code = q.code
  BY <1>3, <1>10, <1>11 DEF RequestIn
<1>14. /\ y \in RequestIn(feature) /\ y.op = q.op /\ y.row = q.row /\ y.perms = q.perms
       /\ y.got = q.got /\ y.page = q.page /\ y.pc = q.pc /\ y.data = q.data
       /\ y.entity = q.entity /\ y.loaded = q.loaded /\ y.pend = q.pend /\ y.told = q.told
       /\ y.perm = q.perm /\ y.code = 500
  BY <1>5, <1>12, <1>13 DEF RequestIn
<1>15. z = rest(i) /\ y = [rest(i) EXCEPT !.code = 500]
  BY <1>1, <1>9, <1>11, <1>12
<1>16. \/ \E code \in Codes : Becomes(r, Answer(z, code))
       \/ Becomes(r, z)
       \/ \E code \in Codes : Becomes(r, Answer(y, code))
       \/ Becomes(r, y)
  BY <1>5, <1>8, <1>13, <1>14, <1>15
<1>17. Ends(r)
  <2>1. CASE \E code \in Codes : Becomes(r, Answer(z, code))
    BY <1>6, <1>13, <2>1
  <2>2. CASE Becomes(r, z)
    BY <1>5, <1>7, <1>13, <2>2
  <2>3. CASE \E code \in Codes : Becomes(r, Answer(y, code))
    BY <1>6, <1>14, <2>3
  <2>4. CASE Becomes(r, y)
    BY <1>7, <1>14, <2>4
  <2> QED
    BY <1>16, <2>1, <2>2, <2>3, <2>4
<1>18. i \in Rows
  BY <1>1, <1>5
<1>19. \/ UNCHANGED <<rows, excused>>
       \/ rows' = [rows EXCEPT ![i] = None] /\ excused' = excused \cup {i}
  BY <1>8
<1> HIDE DEF rest, end
<1> QED
  BY <1>4, <1>17, <1>18, <1>19 DEF RemoveMany, Removes

(***************************************************************************)
(* Every step is of one of these kinds.                                    *)
(***************************************************************************)

GrantStored(r) == Turned(r) /\ Keep /\ GrantChanged(r) /\ req[r].op \in GrantOps
LEMMA StepIs ==
    ASSUME Sound, Locks, Regranted, NEW r \in Requests, Step(r)
    PROVE  \/ Plain(r) \/ Acquires(r) \/ SetPerms(r) \/ SetRow(r) \/ Commits(r) \/ Removes(r)
           \/ GrantStored(r)
<1>1. CASE Arrive(r) \/ ArriveGrant(r) \/ FetchPerms(r) \/ SetPerms(r) \/ Can(r)
  BY <1>1, ArriveIs, ArriveGrantIs, FetchPermsIs, CanIs
<1>2. CASE Fetch(r) \/ SetRow(r) \/ ShowRow(r) \/ List(r)
  BY <1>2, FetchIs, ShowRowIs, ListIs
<1>3. CASE \/ FetchTexts(r) \/ FindKey(r) \/ FindOtherKey(r) \/ Children(r) \/ Retype(r)
           \/ FindParent(r) \/ NewParent(r) \/ EndSessions(r) \/ Count(r) \/ Pick(r)
  BY <1>3, Checks
<1>4. CASE \/ FindRow(r) \/ ReviveKey(r) \/ SetStatus(r) \/ PickAny(r) \/ PickMany(r) \/ Load(r)
  BY <1>4, FindRowIs, ReviveKeyIs, SetStatusIs, PickAnyIs, PickManyIs, LoadIs
<1>5. CASE Save(r) \/ InsertNode(r) \/ Write(r) \/ Content(r) \/ SoftRemove(r)
  BY <1>5, SaveIs, InsertNodeIs, WriteIs, ContentIs, SoftRemoveIs
<1>6. CASE Commit(r) \/ RemoveMany(r) \/ Reorder(r)
  BY <1>6, CommitIs, RemoveManyIs, ReorderIs
<1>7. CASE FindGrant(r) \/ PickGrant(r) \/ PickAnyGrant(r)
  BY <1>7, FindGrantIs, PickGrantsAre
<1>8. CASE SaveGrant(r) \/ RemoveGrant(r) \/ RestoreGrant(r)
  <2>1. Turned(r) /\ Keep /\ req[r].op \in GrantOps
    BY <1>8, GrantsAre
  <2>2. CASE grants' # grants \/ cleaning' # cleaning \/ excused' # excused
    BY <1>8, <2>1, <2>2, GrantsAre DEF GrantStored
  <2>3. CASE grants' = grants /\ cleaning' = cleaning /\ excused' = excused
    BY <2>1, <2>3 DEF Turned, Keep, Plain, Sound
  <2> QED
    BY <2>2, <2>3
<1>9. CASE Breaks(r) \/ Respond(r)
  BY <1>9, BreaksIs, RespondIs
<1> QED
  BY <1>1, <1>2, <1>3, <1>4, <1>5, <1>6, <1>7, <1>8, <1>9 DEF Step

Forgets(k) == CleanKey(k) \/ Expire(k)

(***************************************************************************)
(* Types, and the locks on rows.                                           *)
(***************************************************************************)

Base == Sound /\ Locks /\ Regranted

LEMMA Started ==
    ASSUME Init
    PROVE  /\ feature \in Features /\ feature \in DOMAIN Controllers
           /\ rows \in Tables /\ cache \in Stores
           /\ grants \in [Permissions -> Grant]
           /\ req = [r \in Requests |-> Idle]
<1>1. feature \in Features /\ feature \in DOMAIN Controllers
  BY BackOfficeAssumption DEF Init
<1>2. rows \in Tables
  BY DEF Init, Tables, Maybe
<1>3. cache \in Stores
  BY <1>2 DEF Init, Tables, Stores, Maybe, Entries
<1>4. /\ grants \in [Permissions -> Grant]
      /\ req = [r \in Requests |-> Idle]
  BY DEF Init
<1> QED
  BY <1>1, <1>2, <1>3, <1>4

LEMMA BaseStarts == Init => Base
<1> SUFFICES ASSUME Init PROVE Base
  OBVIOUS
<1>1. /\ feature \in Features /\ feature \in DOMAIN Controllers
      /\ rows \in Tables /\ cache \in Stores
      /\ grants \in [Permissions -> Grant]
      /\ req = [r \in Requests |-> Idle]
  BY Started
<1>2. PICK z : z = Idle
  OBVIOUS
<1>3. /\ z \in RequestIn(feature) /\ z.op = "none" /\ z.pc = 0 /\ z.pend = Nothing
      /\ z.told = {} /\ z.loaded = Nothing
  BY <1>2, IdleIsRequest
<1>4. Fine(feature, rows, z)
  BY <1>1, <1>3, EndedIsFine
<1>5. \A r \in Requests : req[r] = z
  BY <1>1, <1>2
<1>6. req \in [Requests -> RequestIn(feature)]
  BY <1>1, <1>2, <1>3
<1>7. permCache \in Maybe(Subsets(Permissions))
  <2>1. permCache = Granted \/ permCache = None
    BY DEF Init
  <2> QED
    BY <2>1, GrantedIs DEF Maybe
<1>8. /\ order \in [Rows -> Nat] /\ arrivals \in Nat
      /\ cleaning \subseteq CacheKeys /\ excused \subseteq CacheKeys
  BY DEF Init
<1>9. Sound
  BY <1>1, <1>4, <1>5, <1>6, <1>7, <1>8 DEF Sound
<1>10. Locks
  BY <1>3, <1>5, GroupsAre, NothingIsPart DEF Locks
<1>11. Regranted
  BY <1>3, <1>5 DEF Regranted
<1> QED
  BY <1>9, <1>10, <1>11 DEF Base

\* Another request after a commit: its row is still there, or still is not.
LEMMA OthersKept ==
    ASSUME NEW f, NEW t, NEW q, Fine(f, t, q), NEW u \in Tables,
           \A i \in Rows : t[i] # None => u[i] # None,
           q.pend # Nothing /\ t[q.row] = None => u[q.row] = None,
           f \in DOMAIN Controllers
    PROVE  Fine(f, u, q)
<1>1. Loaded(f, u, q)
  BY DEF Fine, Loaded
<1>2. Found(f, u, q)
  <2>1. SUFFICES ASSUME Busy(f, q) PROVE Found(f, u, q)
    BY DEF Found
  <2>2. Current(f, q) = "softRemove" => q.row \in Rows
    <3>1. SUFFICES ASSUME Current(f, q) = "softRemove" PROVE q.row \in Rows
      OBVIOUS
    <3>2. PICK n \in 1..9 : n = q.pc
      BY <2>1, Here DEF Fine
    <3>3. n # 1 /\ n # 2 /\ n # 3
      BY <2>1, <3>1, <3>2, Here DEF Fine
    <3>4. StepOK(f, q.op, "softRemove") /\ q.op \in Endpoint
      BY <2>1, <3>1, <3>2, <3>3, Here DEF Fine
    <3>5. q.op = "delete" /\ f \notin Logs
      BY <3>4 DEF StepOK, Allowed, Endpoint
    <3> QED
      BY <2>1, <3>5 DEF Fine, Named
  <2>3. q.op = "update" => q.row \in Rows
    BY <2>1 DEF Fine, Named
  <2> QED
    BY <2>1, <2>2, <2>3 DEF Fine, Found
<1>3. Pending(f, u, q)
  BY DEF Fine, Pending
<1> QED
  BY <1>1, <1>2, <1>3 DEF Fine

\* Two requests do not both hold a row that is not there.
LEMMA OneCreates ==
    ASSUME Sound, Locks, NEW r \in Requests, NEW s \in Requests, r # s,
           req[r].pend # Nothing, req[s].pend # Nothing, req[r].row = req[s].row
    PROVE  rows[req[r].row] # None
<1>1. SUFFICES ASSUME rows[req[r].row] = None PROVE FALSE
  OBVIOUS
<1>2. Fine(feature, rows, req[r]) /\ Fine(feature, rows, req[s])
  BY DEF Sound
<1>3. "state" \in DOMAIN req[r].pend /\ "state" \in DOMAIN req[s].pend
  BY <1>1, <1>2 DEF Fine, Pending, NewRow, Columns
<1>4. "row" \in Groups(req[r].pend) \cap Groups(req[s].pend)
  BY <1>3, GroupsAre
<1> QED
  BY <1>4 DEF Locks

LEMMA LocksKept ==
    ASSUME Sound, Locks, feature' = feature, NEW r \in Requests, NEW p, Becomes(r, p),
           \A s \in Requests \ {r} :
              req[s].row = p.row => Groups(p.pend) \cap Groups(req[s].pend) = {}
    PROVE  Locks'
<1>1. \A s \in Requests : req'[s] = IF s = r THEN p ELSE req[s]
  BY DEF Becomes, Sound
<1>2. \A x, y \in Requests : x # y /\ req'[x].row = req'[y].row
          => Groups(req'[x].pend) \cap Groups(req'[y].pend) = {}
  BY <1>1 DEF Locks
<1>3. \A d : Groups(d)' = Groups(d)
  BY DEF Groups, Group
<1> QED
  BY <1>2 DEF Locks, Groups, Group

LEMMA CalmLocks ==
    ASSUME Sound, Locks, feature' = feature, NEW r \in Requests, NEW p, Becomes(r, p),
           Calm(req[r], p)
    PROVE  Locks'
<1>1. \A s \in Requests \ {r} :
         req[s].row = p.row => Groups(p.pend) \cap Groups(req[s].pend) = {}
  <2>1. CASE p.pend = Nothing
    BY <2>1, GroupsAre, NothingIsPart
  <2>2. CASE p.pend = req[r].pend /\ p.row = req[r].row
    BY <2>2 DEF Locks
  <2> QED
    BY <2>1, <2>2 DEF Calm
<1> QED
  BY <1>1, LocksKept

LEMMA RegrantedKept ==
    ASSUME Sound, Regranted, NEW r \in Requests, NEW p, Turns(r, p),
           Control(feature, p), grants' = grants \/ GrantChanged(r)
    PROVE  Regranted'
<1>1. \A s \in Requests : req'[s] = IF s = r THEN p ELSE req[s]
  BY DEF Turns, Becomes, Sound
<1>2. \A s \in Requests : req'[s].op = "regrant" /\ req'[s].pc = 2
                             => grants[req'[s].perm].row # "none"
  BY <1>1 DEF Turns, Regranted
<1>3. ASSUME NEW s \in Requests, req'[s].op = "regrant", req'[s].pc = 2
      PROVE  grants'[req'[s].perm].row # "none"
  <2>1. CASE grants' = grants
    BY <1>2, <1>3, <2>1
  <2>2. CASE GrantChanged(r)
    <3>1. PICK b : b = req'[s].perm
      OBVIOUS
    <3>2. PICK v \in {"live", "deleted"} : grants' = [grants EXCEPT ![req[r].perm].row = v]
      BY <2>2 DEF GrantChanged
    <3>3. grants[b].row # "none" /\ grants \in [Permissions -> Grant]
      BY <1>2, <1>3, <3>1 DEF Sound
    <3>4. b \in Permissions
      BY <1>1, <1>3, <3>1, GrantOpsAre DEF Sound, Fine, Control
    <3>5. grants'[b].row = IF b = req[r].perm THEN v ELSE grants[b].row
      BY <3>2, <3>3, <3>4 DEF Grant
    <3> QED
      BY <3>1, <3>2, <3>3, <3>5
  <2> QED
    BY <2>1, <2>2
<1> QED
  BY <1>3 DEF Regranted

\* What is left to show of a step of one request.
LEMMA SoundKept ==
    ASSUME Sound, NEW r \in Requests, NEW p, Turns(r, p), Fine(feature, rows', p),
           \A s \in Requests \ {r} : Fine(feature, rows', req[s]),
           feature' = feature, rows' \in Tables, cache' \in Stores, order' \in [Rows -> Nat],
           grants' \in [Permissions -> Grant],
           permCache' \in Maybe(Subsets(Permissions)),
           cleaning' \subseteq CacheKeys, excused' \subseteq CacheKeys, arrivals' \in Nat
    PROVE  Sound'
<1>1. /\ req' \in [Requests -> RequestIn(feature)]
      /\ \A s \in Requests : req'[s] = IF s = r THEN p ELSE req[s]
  BY DEF Turns, Becomes, Sound
<1>2. \A s \in Requests : Fine(feature', rows', req'[s])
  BY <1>1
<1> QED
  BY <1>1, <1>2 DEF Sound

LEMMA PlainKeeps ==
    ASSUME Base, NEW r \in Requests, Plain(r) \/ GrantStored(r)
    PROVE  Base'
<1>1. PICK p : Turns(r, p) /\ Fine(feature, rows, p) /\ Calm(req[r], p)
  BY DEF Plain, GrantStored, Turned
<1>2. UNCHANGED <<feature, rows, cache, permCache>>
  BY DEF Plain, GrantStored, Keep
<1>3. Sound
  BY DEF Base
<1>4. /\ order' \in [Rows -> Nat] /\ arrivals' \in Nat
      /\ grants' \in [Permissions -> Grant]
      /\ cleaning' \subseteq CacheKeys /\ excused' \subseteq CacheKeys
  <2>1. CASE Plain(r)
    BY <1>3, <2>1 DEF Plain, Sound
  <2>2. CASE GrantStored(r)
    <3>1. /\ order' \in [Rows -> Nat] /\ arrivals' \in Nat
          /\ cleaning' \subseteq CacheKeys /\ excused' \subseteq CacheKeys
      <4>1. order' = order /\ arrivals' = arrivals
        BY <2>2 DEF GrantStored, Keep
      <4>2. cleaning' \in {cleaning, cleaning \cup {"perms"}}
        BY <2>2, Zenon DEF GrantStored, GrantChanged
      <4>3. excused' \in {excused, excused \cup {"perms"}}
        BY <2>2, Zenon DEF GrantStored, GrantChanged
      <4> QED
        BY <1>3, <4>1, <4>2, <4>3 DEF Sound, CacheKeys
    <3>2. grants' \in [Permissions -> Grant]
      <4>0. GrantChanged(r)
        BY <2>2 DEF GrantStored
      <4>1. PICK v \in {"live", "deleted"} : grants' = [grants EXCEPT ![req[r].perm].row = v]
        BY <4>0 DEF GrantChanged
      <4>2. PICK g : g = grants[req[r].perm]
        OBVIOUS
      <4>3. g \in Grant /\ grants \in [Permissions -> Grant]
        BY <1>3, <4>0, <4>2 DEF Sound, GrantChanged
      <4>4. PICK h : h = [g EXCEPT !.row = v]
        OBVIOUS
      <4>5. g \in [row : {"none", "live", "deleted"}, named : BOOLEAN]
        BY <4>3 DEF Grant
      <4>6. h \in [row : {"none", "live", "deleted"}, named : BOOLEAN]
        BY <4>1, <4>4, <4>5
      <4>7. grants' = [grants EXCEPT ![req[r].perm] = h]
        BY <4>1, <4>2, <4>4
      <4>8. h \in Grant
        BY <4>6 DEF Grant
      <4> QED
        BY <4>3, <4>7, <4>8
    <3> QED
      BY <3>1, <3>2
  <2> QED
    BY <2>1, <2>2
<1>5. Sound'
  BY <1>1, <1>2, <1>3, <1>4, SoundKept DEF Sound
<1>6. Locks'
  BY <1>1, <1>2, <1>3, CalmLocks DEF Base, Turns
<1>7. Regranted'
  BY <1>1, <1>3, RegrantedKept DEF Base, Plain, GrantStored, Fine
<1> QED
  BY <1>5, <1>6, <1>7 DEF Base

LEMMA CachesKeep ==
    ASSUME Base, NEW r \in Requests, SetPerms(r) \/ SetRow(r)
    PROVE  Base'
<1>1. Sound
  BY DEF Base
<1>2. Turned(r)
  BY <1>1, SetPermsIs, SetRowIs
<1>3. PICK p : Turns(r, p) /\ Fine(feature, rows, p) /\ Calm(req[r], p)
  BY <1>2 DEF Turned
<1>4. UNCHANGED <<feature, rows, order, grants, cleaning, arrivals>>
  BY DEF SetPerms, SetRow
<1>5. /\ permCache' \in Maybe(Subsets(Permissions)) /\ cache' \in Stores
      /\ excused' \subseteq CacheKeys
  <2>1. CASE SetPerms(r)
    <3>1. req[r].perms \in Maybe(Subsets(Permissions))
      BY <1>1 DEF Sound, RequestIn
    <3> QED
      BY <1>1, <2>1, <3>1 DEF SetPerms, Sound, CacheKeys, Entries
  <2>2. CASE SetRow(r)
    <3>1. req[r].got \in Maybe(Row) /\ req[r].row \in Rows
      BY <1>1, <2>2, SetRowIs DEF Sound, RequestIn
    <3>2. cache' = cache \/ cache' = [cache EXCEPT ![Entry(req[r].row)] = req[r].got]
      BY <2>2 DEF SetRow
    <3>3. cache' \in Stores
      BY <1>1, <3>1, <3>2 DEF Sound, Stores
    <3>4. excused' \subseteq excused \cup {Entry(req[r].row)}
      BY <2>2 DEF SetRow
    <3>5. Entry(req[r].row) \in CacheKeys
      BY <3>1 DEF Entry, Entries, CacheKeys
    <3> QED
      BY <1>1, <2>2, <3>3, <3>4, <3>5 DEF SetRow, Sound
  <2> QED
    BY <2>1, <2>2
<1>6. Sound'
  BY <1>1, <1>3, <1>4, <1>5, SoundKept DEF Sound
<1>7. Locks'
  BY <1>1, <1>3, <1>4, CalmLocks DEF Base, Turns
<1>8. Regranted'
  BY <1>1, <1>3, <1>4, RegrantedKept DEF Base, Fine
<1> QED
  BY <1>6, <1>7, <1>8 DEF Base

LEMMA AcquiresKeeps ==
    ASSUME Base, NEW r \in Requests, Acquires(r)
    PROVE  Base'
<1>1. PICK p : Takes(r, p)
  BY DEF Acquires
<1>2. Turns(r, p) /\ Fine(feature, rows, p)
  BY <1>1 DEF Takes
<1>3. /\ UNCHANGED <<feature, rows, order, grants, cache, permCache, excused, arrivals>>
      /\ cleaning' \subseteq CacheKeys /\ Sound
  BY DEF Acquires, Base
<1>4. Sound'
  BY <1>2, <1>3, SoundKept DEF Sound
<1>5. Locks'
  BY <1>1, <1>2, <1>3, LocksKept DEF Base, Turns, Takes
<1>6. Regranted'
  BY <1>2, <1>3, RegrantedKept DEF Base, Fine
<1> QED
  BY <1>4, <1>5, <1>6 DEF Base

LEMMA EndsKeeps ==
    ASSUME Base, NEW r \in Requests, Commits(r) \/ Removes(r)
    PROVE  Base'
<1>1. PICK p : Turns(r, p) /\ p.pend = Nothing /\ p.told = {} /\ \A t : Fine(feature, t, p)
  BY DEF Commits, Removes, Ends
<1>2. Sound /\ UNCHANGED <<feature, order, grants, cache, permCache, cleaning, arrivals>>
  BY DEF Commits, Removes, Base
<1>3. /\ rows' \in Tables /\ excused' \subseteq CacheKeys
      /\ \A s \in Requests \ {r} : Fine(feature, rows', req[s])
  <2>1. CASE Commits(r) /\ req[r].pend # Nothing
    <3>1. PICK m, i : m = Merged(req[r]) /\ i = req[r].row
      OBVIOUS
    <3>2. i \in Rows /\ m \in Row /\ m # None
      BY <1>2, <2>1, <3>1, MergedIs, RowIsPart DEF Commits
    <3>3. rows' = [rows EXCEPT ![i] = m] /\ excused' \subseteq excused \cup {i}
      BY <2>1, <3>1 DEF Commits
    <3>4. rows' \in Tables /\ excused' \subseteq CacheKeys
      BY <1>2, <3>2, <3>3 DEF Sound, Tables, Maybe, CacheKeys, Entries
    <3>5. ASSUME NEW s \in Requests \ {r} PROVE Fine(feature, rows', req[s])
      <4>1. \A j \in Rows : rows[j] # None => rows'[j] # None
        BY <1>2, <3>2, <3>3 DEF Sound, Tables
      <4>2. Fine(feature, rows, req[s])
        BY <1>2, <3>5 DEF Sound
      <4>3. ASSUME req[s].pend # Nothing, rows[req[s].row] = None
            PROVE  rows'[req[s].row] = None
        <5>1. req[s].row \in Rows
          BY <4>2, <4>3 DEF Fine, Pending
        <5>2. req[s].row # i
          BY <1>2, <2>1, <3>1, <3>5, <4>3, OneCreates DEF Base
        <5> QED
          BY <1>2, <3>3, <4>3, <5>1, <5>2 DEF Sound, Tables
      <4>4. PICK u \in Tables : u = rows'
        BY <3>4
      <4> QED
        BY <1>2, <4>1, <4>2, <4>3, <4>4, OthersKept DEF Sound
    <3> QED
      BY <3>4, <3>5
  <2>2. CASE Commits(r) /\ req[r].pend = Nothing
    BY <1>2, <2>2 DEF Commits, Sound
  <2>3. CASE Removes(r)
    <3>1. rows' \in Tables
      BY <1>2, <2>3 DEF Removes, Sound, Tables, Maybe
    <3>2. excused' \subseteq CacheKeys
      BY <1>2, <2>3 DEF Removes, Sound, CacheKeys, Entries
    <3>3. \A s \in Requests \ {r} : Fine(feature, rows', req[s])
      BY <1>2, <2>3, LogsFine DEF Removes, Sound
    <3> QED
      BY <3>1, <3>2, <3>3
  <2> QED
    BY <2>1, <2>2, <2>3
<1>4. Calm(req[r], p)
  BY <1>1 DEF Calm
<1>5. Sound'
  BY <1>1, <1>2, <1>3, SoundKept DEF Sound
<1>6. Locks'
  BY <1>1, <1>2, <1>4, CalmLocks DEF Base, Turns
<1>7. Regranted'
  BY <1>1, <1>2, RegrantedKept DEF Base, Fine
<1> QED
  BY <1>5, <1>6, <1>7 DEF Base

\* A step that changes no request.
LEMMA ForgetsKeeps ==
    ASSUME Base, NEW k \in CacheKeys, Forgets(k)
    PROVE  Base'
<1>1. UNCHANGED <<feature, rows, order, grants, req, arrivals>> /\ Sound
  BY DEF Forgets, CleanKey, Expire, Base
<1>2. /\ cache' = cache \/ (k # "perms" /\ cache' = [cache EXCEPT ![k] = None])
      /\ permCache' = permCache \/ permCache' = None
      /\ excused' \subseteq excused \cup {k} /\ cleaning' \subseteq cleaning
  BY DEF Forgets, CleanKey, Expire, Drop
<1>3. cache' \in Stores
  BY <1>1, <1>2 DEF Sound, Stores, Maybe, CacheKeys
<1>4. permCache' \in Maybe(Subsets(Permissions))
  BY <1>1, <1>2 DEF Sound, Maybe
<1>5. excused' \subseteq CacheKeys /\ cleaning' \subseteq CacheKeys
  BY <1>1, <1>2 DEF Sound
<1>6. Sound'
  BY <1>1, <1>3, <1>4, <1>5 DEF Sound
<1> QED
  BY <1>1, <1>6 DEF Base, Locks, Regranted, Groups, Group

\* A change of a permission's own row: no request, no row of user_permission.
LEMMA ChangePermissionIs ==
    ASSUME Sound, NEW b \in Contested, ChangePermission(b)
    PROVE  /\ UNCHANGED <<feature, rows, order, req, cache, permCache, cleaning>>
           /\ grants' \in [Permissions -> Grant] /\ arrivals' \in Nat
           /\ \A c \in Permissions : grants'[c].row = grants[c].row
           /\ excused \subseteq excused' /\ excused' \subseteq CacheKeys
           /\ Granted' = Granted \/ "perms" \in excused'
<1>1. b \in Permissions /\ grants \in [Permissions -> Grant]
  BY BackOfficeAssumption DEF Sound
<1>2. PICK g : g = grants[b]
  OBVIOUS
<1>3. PICK h : h = [g EXCEPT !.named = ~@]
  OBVIOUS
<1>4. g \in Grant /\ h \in Grant /\ h.row = g.row
  BY <1>1, <1>2, <1>3 DEF Grant
<1>5. grants' = [grants EXCEPT ![b] = h]
  BY <1>2, <1>3 DEF ChangePermission
<1>6. /\ grants' \in [Permissions -> Grant]
      /\ \A c \in Permissions : grants'[c].row = grants[c].row
  BY <1>1, <1>2, <1>4, <1>5
<1>7. /\ excused \subseteq excused' /\ excused' \subseteq CacheKeys
      /\ Granted' = Granted \/ "perms" \in excused'
  BY DEF ChangePermission, Sound, CacheKeys
<1>8. arrivals' \in Nat
  BY DEF ChangePermission, Sound
<1> QED
  BY <1>6, <1>7, <1>8 DEF ChangePermission

LEMMA ChangesKeep ==
    ASSUME Base, NEW b \in Contested, ChangePermission(b)
    PROVE  Base'
<1>1. Sound
  BY DEF Base
<1>2. /\ UNCHANGED <<feature, rows, order, req, cache, permCache, cleaning>>
      /\ grants' \in [Permissions -> Grant] /\ arrivals' \in Nat
      /\ \A c \in Permissions : grants'[c].row = grants[c].row
      /\ excused' \subseteq CacheKeys
  BY <1>1, ChangePermissionIs
<1>3. Sound'
  BY <1>1, <1>2 DEF Sound
<1>4. Locks'
  BY <1>2 DEF Base, Locks, Groups, Group
<1>5. Regranted'
  <2>1. ASSUME NEW s \in Requests, req[s].op = "regrant", req[s].pc = 2
        PROVE  req[s].perm \in Permissions
    BY <1>1, <2>1, GrantOpsAre DEF Sound, Fine, Control
  <2> QED
    BY <1>2, <2>1 DEF Base, Regranted
<1> QED
  BY <1>3, <1>4, <1>5 DEF Base

LEMMA BaseStutters == Base /\ UNCHANGED vars => Base'
<1> SUFFICES ASSUME Base, UNCHANGED vars PROVE Base'
  OBVIOUS
<1>1. UNCHANGED <<feature, rows, order, grants, req, cache, permCache, cleaning, excused,
                  arrivals>>
  BY DEF vars
<1>2. Sound'
  BY <1>1 DEF Base, Sound
<1>3. Locks'
  BY <1>1 DEF Base, Locks, Groups, Group
<1>4. Regranted'
  BY <1>1 DEF Base, Regranted
<1> QED
  BY <1>2, <1>3, <1>4 DEF Base

LEMMA BaseSteps == Base /\ [Next]_vars => Base'
<1> SUFFICES ASSUME Base, [Next]_vars PROVE Base'
  OBVIOUS
<1>1. ASSUME NEW r \in Requests, Step(r) PROVE Base'
  BY <1>1, StepIs, PlainKeeps, CachesKeep, AcquiresKeeps, EndsKeeps DEF Base
<1>2. ASSUME NEW k \in CacheKeys, CleanKey(k) \/ Expire(k) PROVE Base'
  BY <1>2, ForgetsKeeps DEF Forgets
<1>3. ASSUME NEW b \in Contested, ChangePermission(b) PROVE Base'
  BY <1>3, ChangesKeep
<1> QED
  BY <1>1, <1>2, <1>3, BaseStutters DEF Next

\* Everything else rests on this invariant: each request holds what the steps
\* behind it have found and loaded, rows that transactions have written are locked
\* by one request each, and grants that came back without an event are excused.
THEOREM BaseHolds == Spec => []Base
<1> QED
  BY BaseStarts, BaseSteps, PTL DEF Spec

\* Every variable stays in its range: no step forgets, overwrites or brings
\* together parts of rows and requests that do not belong together.
THEOREM TypeCorrect == Spec => []TypeOK
<1>1. Base => TypeOK
  BY RequestIs DEF Base, Sound, TypeOK, Tables, Stores, Maybe, Subsets
<1> QED
  BY <1>1, BaseHolds, PTL

(***************************************************************************)
(* Unique keys.                                                            *)
(***************************************************************************)

Kept == KeysHeld /\ UniqueKeys

LEMMA KeptStarts == Init => Kept
<1> SUFFICES ASSUME Init PROVE Kept
  OBVIOUS
<1>1. req = [r \in Requests |-> Idle]
  BY Started
<1>2. \A r \in Requests : req[r].pend = Nothing
  BY <1>1, IdleIsRequest
<1>3. KeysHeld
  BY <1>2, NothingIsPart DEF KeysHeld, Holds
<1>4. UniqueKeys
  BY DEF Init, UniqueKeys
<1> QED
  BY <1>3, <1>4 DEF Kept

\* The same rows, or fewer, and nothing new that is uncommitted.
LEMMA KeptCalm ==
    ASSUME Sound, Kept, feature' = feature, NEW r \in Requests, NEW p, Becomes(r, p),
           Calm(req[r], p), \A i \in Rows : rows'[i] # None => rows'[i] = rows[i]
    PROVE  Kept'
<1>1. \A s \in Requests : req'[s] = IF s = r THEN p ELSE req[s]
  BY DEF Becomes, Sound
<1>2. \A s \in Requests : "key" \in DOMAIN req'[s].pend
          => req'[s].pend = req[s].pend /\ req'[s].row = req[s].row
  BY <1>1, NothingIsPart DEF Calm
<1>3. KeysHeld'
  BY <1>2 DEF Kept, KeysHeld, Holds
<1>4. UniqueKeys'
  BY DEF Kept, UniqueKeys
<1> QED
  BY <1>3, <1>4 DEF Kept

LEMMA KeptAcquires ==
    ASSUME Sound, Kept, NEW r \in Requests, Acquires(r)
    PROVE  Kept'
<1>1. PICK p : Takes(r, p)
  BY DEF Acquires
<1>2. UNCHANGED <<feature, rows>>
  BY DEF Acquires
<1>3. \A s \in Requests : req'[s] = IF s = r THEN p ELSE req[s]
  BY <1>1 DEF Takes, Turns, Becomes, Sound
<1>4. PICK q : q = req[r]
  OBVIOUS
<1>5. Holds(p) =>
          \/ p.row = q.row /\ "key" \in DOMAIN q.pend /\ p.pend["key"] = q.pend["key"]
          \/ KeyFree(r, p.pend["key"]) /\ ~Used(p.pend["key"], p.row)
  BY <1>1, <1>4 DEF Takes
<1>6. ASSUME Holds(p), NEW j \in Rows, j # p.row, rows[j] # None
      PROVE  rows[j].key # p.pend["key"]
  BY <1>4, <1>5, <1>6 DEF Kept, KeysHeld, Holds, Used
<1>7. ASSUME Holds(p), NEW s \in Requests \ {r}, Holds(req[s])
      PROVE  req[s].pend["key"] # p.pend["key"]
  BY <1>4, <1>5, <1>7 DEF Kept, KeysHeld, Holds, KeyFree
<1>8. KeysHeld'
  <2>1. ASSUME NEW s \in Requests, NEW j \in Rows, Holds(req'[s]), j # req'[s].row,
               rows[j] # None
        PROVE  rows[j].key # req'[s].pend["key"]
    <3>1. CASE s = r
      BY <1>3, <1>6, <2>1, <3>1
    <3>2. CASE s # r
      BY <1>3, <2>1, <3>2 DEF Kept, KeysHeld
    <3> QED
      BY <3>1, <3>2
  <2>2. ASSUME NEW x \in Requests, NEW y \in Requests, x # y, Holds(req'[x]), Holds(req'[y])
        PROVE  req'[x].pend["key"] # req'[y].pend["key"]
    <3>1. CASE x = r
      BY <1>3, <1>7, <2>2, <3>1
    <3>2. CASE y = r
      BY <1>3, <1>7, <2>2, <3>2
    <3>3. CASE x # r /\ y # r
      BY <1>3, <2>2, <3>3 DEF Kept, KeysHeld
    <3> QED
      BY <3>1, <3>2, <3>3
  <2> QED
    BY <1>2, <2>1, <2>2 DEF KeysHeld, Holds
<1>9. UniqueKeys'
  BY <1>2 DEF Kept, UniqueKeys
<1> QED
  BY <1>8, <1>9 DEF Kept

LEMMA KeptCommits ==
    ASSUME Sound, Kept, NEW r \in Requests, Commits(r)
    PROVE  Kept'
<1>1. PICK p : Turns(r, p) /\ p.pend = Nothing /\ p.told = {}
  BY DEF Commits, Ends
<1>2. Becomes(r, p) /\ Calm(req[r], p) /\ feature' = feature
  BY <1>1 DEF Turns, Calm, Commits
<1>3. CASE req[r].pend = Nothing
  BY <1>2, <1>3, KeptCalm DEF Commits
<1>4. CASE req[r].pend # Nothing
  <2>1. PICK q, i, m : q = req[r] /\ i = q.row /\ m = Merged(q)
    OBVIOUS
  <2>2. /\ i \in Rows /\ m \in Row /\ m # None
        /\ IF rows[i] = None THEN m = q.pend /\ "key" \in DOMAIN q.pend
           ELSE m = [c \in Columns |-> IF c \in DOMAIN q.pend THEN q.pend[c] ELSE rows[i][c]]
    BY <1>4, <2>1, MergedIs, RowIsPart DEF Commits
  <2>3. IF "key" \in DOMAIN q.pend THEN m.key = q.pend["key"]
        ELSE rows[i] # None /\ m.key = rows[i].key
    BY <2>2 DEF Columns
  <2>4. \A s \in Requests : req'[s] = IF s = r THEN p ELSE req[s]
    BY <1>2 DEF Becomes, Sound
  <2>5. \A j \in Rows : rows'[j] = IF j = i THEN m ELSE rows[j]
    <3>1. rows' = [rows EXCEPT ![i] = m]
      BY <1>4, <2>1 DEF Commits
    <3> QED
      BY <3>1 DEF Sound, Tables
  <2>6. Entities[feature].unique => \A j \in Rows \ {i} : rows[j] # None => rows[j].key # m.key
    BY <2>1, <2>2, <2>3 DEF Kept, KeysHeld, UniqueKeys, Holds
  <2>7. ASSUME NEW s \in Requests \ {r}, Holds(req[s]), i # req[s].row
        PROVE  m.key # req[s].pend["key"]
    BY <2>1, <2>2, <2>3, <2>7 DEF Kept, KeysHeld, Holds
  <2>8. UniqueKeys'
    BY <1>2, <2>5, <2>6 DEF Kept, UniqueKeys
  <2>9. KeysHeld'
    <3>1. ~Holds(p)
      BY <1>1, NothingIsPart DEF Holds
    <3>2. ASSUME NEW s \in Requests, NEW j \in Rows, Holds(req'[s]), j # req'[s].row,
                 rows'[j] # None
          PROVE  rows'[j].key # req'[s].pend["key"]
      <4>1. s # r /\ req'[s] = req[s]
        BY <2>4, <3>1, <3>2
      <4>2. CASE j = i
        BY <2>5, <2>7, <3>2, <4>1, <4>2
      <4>3. CASE j # i
        BY <2>5, <3>2, <4>1, <4>3 DEF Kept, KeysHeld
      <4> QED
        BY <4>2, <4>3
    <3>3. ASSUME NEW x \in Requests, NEW y \in Requests, x # y, Holds(req'[x]),
                 Holds(req'[y])
          PROVE  req'[x].pend["key"] # req'[y].pend["key"]
      BY <2>4, <3>1, <3>3 DEF Kept, KeysHeld
    <3> QED
      BY <1>2, <3>2, <3>3 DEF KeysHeld, Holds
  <2> QED
    BY <2>8, <2>9 DEF Kept
<1> QED
  BY <1>3, <1>4

LEMMA KeptSteps == Base /\ Kept /\ [Next]_vars => Kept'
<1> SUFFICES ASSUME Base, Kept, [Next]_vars PROVE Kept'
  OBVIOUS
<1>1. Sound
  BY DEF Base
<1>2. ASSUME NEW r \in Requests, Step(r) PROVE Kept'
  <2>1. CASE Plain(r) \/ SetPerms(r) \/ SetRow(r) \/ GrantStored(r)
    <3>1. Turned(r)
      BY <1>1, <2>1, SetPermsIs, SetRowIs DEF Plain, GrantStored, Turned
    <3>2. UNCHANGED <<feature, rows>>
      BY <2>1 DEF Plain, SetPerms, SetRow, GrantStored, Keep
    <3> QED
      BY <1>1, <3>1, <3>2, KeptCalm DEF Turned, Turns
  <2>2. CASE Acquires(r)
    BY <1>1, <2>2, KeptAcquires
  <2>3. CASE Commits(r)
    BY <1>1, <2>3, KeptCommits
  <2>4. CASE Removes(r)
    <3>1. PICK p : Becomes(r, p) /\ Calm(req[r], p)
      BY <2>4 DEF Removes, Ends, Turns, Calm
    <3>2. \A i \in Rows : rows'[i] # None => rows'[i] = rows[i]
      BY <1>1, <2>4 DEF Removes, Sound, Tables
    <3> QED
      BY <1>1, <2>4, <3>1, <3>2, KeptCalm DEF Removes
  <2> QED
    BY <1>2, <2>1, <2>2, <2>3, <2>4, StepIs DEF Base
<1>3. CASE UNCHANGED <<feature, rows, req>>
  BY <1>3 DEF Kept, KeysHeld, UniqueKeys, Holds
<1>4. ASSUME NEW k \in CacheKeys, CleanKey(k) \/ Expire(k) PROVE Kept'
  BY <1>3, <1>4 DEF CleanKey, Expire
<1>5. ASSUME NEW b \in Contested, ChangePermission(b) PROVE Kept'
  BY <1>3, <1>5 DEF ChangePermission
<1> QED
  BY <1>2, <1>3, <1>4, <1>5 DEF Next, vars

\* Two rows of a table never share the key that its services look for before they
\* write, deleted rows included: between a check and a commit the key is held, by
\* the index or by the transaction, against every other request.
THEOREM KeysAreUnique == Spec => []UniqueKeys
<1>1. Base /\ Kept /\ [Next]_vars => (Base /\ Kept)'
  BY BaseSteps, KeptSteps
<1>2. Kept => UniqueKeys
  BY DEF Kept
<1> QED
  BY <1>1, <1>2, BaseStarts, KeptStarts, PTL DEF Spec

(***************************************************************************)
(* What a request saw and may do is no older than itself.                  *)
(***************************************************************************)

Sees(t, q, w) ==
    q.op = "read" =>
    /\ t[q.row] \in w.rows
    /\ q.got # None => q.got \in w.rows /\ (q.got.deleted => "delete" \in q.perms)
    /\ q.pc \in 1..3 => q.got = None
    /\ q.code = 200 => q.got # None
Listed(q) ==
    /\ q.pc > 0 => q.page = {}
    /\ \A v \in q.page : v.deleted => "delete" \in q.perms
Entitled(q, w) ==
    q.op \in Endpoint =>
    /\ q.pc > 1 => q.perms \subseteq w.granted
    /\ q.pc > 3 \/ q.code = 200 => Needs(q.op) \in w.granted
InTime(t, q, w) == Sees(t, q, w) /\ Listed(q) /\ Entitled(q, w)
Timely == \A r \in Requests : InTime(rows, req[r], watch[r])

LEMMA SightIs ==
    ASSUME NEW r \in Requests, Watched, req'[r].op # "none"
    PROVE  LET w == watch'[r] IN
           /\ req'[r].op = "read" => rows'[req'[r].row] \in w.rows
           /\ Granted' \subseteq w.granted
           /\ req[r].op # "none" => /\ watch[r].granted \subseteq w.granted
                                    /\ req'[r].op = "read" => watch[r].rows \subseteq w.rows
<1>1. PICK fresh : fresh = IF req[r].op = "none" THEN Unwatched ELSE watch[r]
  OBVIOUS
<1>2. watch'[r] =
         [rows |-> IF req'[r].op = "read" THEN fresh.rows \cup {rows'[req'[r].row]} ELSE {},
          granted |-> fresh.granted \cup Granted',
          alone |-> fresh.alone /\ (req'[r] # req[r]
                        \/ (rows' = rows /\ order' = order /\ grants' = grants))]
  BY <1>1 DEF Watched, Sight
<1>3. /\ watch'[r].granted = fresh.granted \cup Granted'
      /\ req'[r].op = "read" => watch'[r].rows = fresh.rows \cup {rows'[req'[r].row]}
  BY <1>2
<1> QED
  BY <1>1, <1>3

\* From a request to what an honest step makes of it.
LEMMA HonestIs ==
    ASSUME NEW t, NEW u, NEW now, NEW q, NEW p, NEW w, NEW v, q.pc \in Places,
           Control(feature, q), InTime(t, q, w), Honest(t, now, q, p), p.op # "none",
           p.op = "read" => u[p.row] \in v.rows,
           q.op # "none" => /\ w.granted \subseteq v.granted
                            /\ p.op = "read" => w.rows \subseteq v.rows,
           now \subseteq v.granted \/ q.op \in GrantOps
    PROVE  InTime(u, p, v)
<1>1. CASE Keeps(q, p)
  <2>1. Sees(u, p, v)
    BY <1>1 DEF Keeps, InTime, Sees
  <2>2. Listed(p)
    BY <1>1 DEF Keeps, InTime, Listed
  <2>3. Entitled(p, v)
    BY <1>1 DEF Keeps, InTime, Entitled
  <2> QED
    BY <2>1, <2>2, <2>3 DEF InTime
<1>2. CASE Begins(now, q, p)
  <2>1. now \subseteq v.granted
    BY <1>2, EndpointsAre DEF Begins
  <2>2. p.pc > 1 => p.pc = 3
    BY <1>2 DEF Begins
  <2>3. Entitled(p, v)
    BY <1>2, <2>1, <2>2 DEF Begins, Entitled
  <2> QED
    BY <1>2, <2>3 DEF Begins, InTime, Sees, Listed
<1>3. CASE Leaves(p)
  BY <1>3 DEF Leaves
<1>4. CASE Authenticates(now, q, p)
  <2>1. q.pc > 0 /\ q.pc \in 1..3 /\ q.code # 200
    BY <1>4 DEF Authenticates, Control
  <2>2. Sees(u, p, v)
    BY <1>4, <2>1 DEF Authenticates, InTime, Sees
  <2>3. Listed(p)
    BY <1>4, <2>1 DEF Authenticates, InTime, Listed
  <2>4. Entitled(p, v)
    BY <1>4, <2>1, EndpointsAre DEF Authenticates, InTime, Entitled
  <2> QED
    BY <2>2, <2>3, <2>4 DEF InTime
<1>5. CASE IsLetIn(q, p)
  <2>1. q.pc > 0 /\ q.pc > 1 /\ q.pc \in 1..3 /\ p.pc \notin 1..3 /\ q.code # 200
    BY <1>5 DEF IsLetIn, Control
  <2>2. Sees(u, p, v)
    BY <1>5, <2>1 DEF IsLetIn, InTime, Sees
  <2>3. Listed(p)
    BY <1>5, <2>1 DEF IsLetIn, InTime, Listed
  <2>4. Entitled(p, v)
    BY <1>5, <2>1, EndpointsAre DEF IsLetIn, InTime, Entitled
  <2> QED
    BY <2>2, <2>3, <2>4 DEF InTime
<1>6. CASE Looks(t, q, p)
  <2>1. q.pc > 0 /\ q.pc > 1 /\ p.pc \notin 1..3
    <3>1. PICK n \in 0..10 : n = q.pc
      BY DEF Places
    <3>2. n > 3
      BY <1>6, <3>1 DEF Looks
    <3>3. n > 0 /\ n > 1
      BY <3>2
    <3>4. p.pc \notin 1..3
      BY <1>6 DEF Looks
    <3> QED
      BY <3>1, <3>3, <3>4
  <2>2. Sees(u, p, v)
    BY <1>6, <2>1 DEF Looks, InTime, Sees
  <2>3. Listed(p)
    BY <1>6, <2>1 DEF Looks, InTime, Listed
  <2>4. Entitled(p, v)
    BY <1>6, <2>1 DEF Looks, InTime, Entitled, Endpoint
  <2> QED
    BY <2>2, <2>3, <2>4 DEF InTime
<1>7. CASE Finds(q, p)
  BY <1>7 DEF Finds, InTime, Sees, Listed, Entitled
<1>8. CASE Revives(q, p)
  <2>1. q.pc > 0 /\ q.pc > 1
    <3>1. PICK n \in 0..10 : n = q.pc
      BY DEF Places
    <3>2. n > 3
      BY <1>8, <3>1 DEF Revives
    <3>3. n > 0 /\ n > 1
      BY <3>2
    <3> QED
      BY <3>1, <3>3
  <2>2. Needs("restore") = "delete"
    BY DEF Needs
  <2> QED
    BY <1>8, <2>1, <2>2 DEF Revives, InTime, Sees, Listed, Entitled, Endpoint
<1> QED
  BY <1>1, <1>2, <1>3, <1>4, <1>5, <1>6, <1>7, <1>8 DEF Honest

\* A request that waits sees what the others do.
LEMMA WaitingIs ==
    ASSUME NEW r \in Requests, Watched, req'[r] = req[r], Timely
    PROVE  InTime(rows', req'[r], watch'[r])
<1>1. CASE req[r].op = "none"
  BY <1>1 DEF Timely, InTime, Sees, Listed, Entitled, Endpoint
<1>2. CASE req[r].op # "none"
  <2>1. PICK w, v : w = watch[r] /\ v = watch'[r]
    OBVIOUS
  <2>2. /\ req[r].op = "read" => rows'[req[r].row] \in v.rows /\ w.rows \subseteq v.rows
        /\ w.granted \subseteq v.granted
    BY <1>2, <2>1, SightIs
  <2>3. InTime(rows, req[r], w)
    BY <2>1 DEF Timely
  <2>4. InTime(rows', req[r], v)
    BY <2>2, <2>3 DEF InTime, Sees, Entitled
  <2> QED
    BY <2>1, <2>4
<1> QED
  BY <1>1, <1>2

LEMMA TimelyStarts == Init => Timely
<1> SUFFICES ASSUME Init PROVE Timely
  OBVIOUS
<1>1. req = [r \in Requests |-> Idle]
  BY Started
<1>2. \A r \in Requests : req[r].op = "none" /\ req[r].pc = 0 /\ req[r].page = {}
  BY <1>1 DEF Idle
<1> QED
  BY <1>2 DEF Timely, InTime, Sees, Listed, Entitled, Endpoint

LEMMA TimelySteps == Base /\ Timely /\ [Next]_vars => Timely'
<1> SUFFICES ASSUME Base, Timely, [Next]_vars PROVE Timely'
  OBVIOUS
<1>1. Sound
  BY DEF Base
<1>2. ASSUME NEW r \in Requests, Step(r), Watched PROVE Timely'
  <2>1. PICK p : Turns(r, p)
    BY <1>1, <1>2, StepIs, SetPermsIs, SetRowIs
       DEF Base, Plain, GrantStored, Turned, Acquires, Takes, Commits, Removes, Ends
  <2>2. grants' = grants \/ req[r].op \in GrantOps
    BY <1>1, <1>2, StepIs
       DEF Base, Plain, GrantStored, Acquires, Commits, Removes, SetPerms, SetRow
  <2>3. \A s \in Requests : req'[s] = IF s = r THEN p ELSE req[s]
    BY <1>1, <2>1 DEF Turns, Becomes, Sound
  <2>4. InTime(rows', p, watch'[r])
    <3>1. PICK w, v, q, now : w = watch[r] /\ v = watch'[r] /\ q = req[r] /\ now = Granted
      OBVIOUS
    <3>2. CASE p.op = "none"
      <4>1. Listed(p)
        <5>1. Honest(rows, now, q, p) /\ Listed(q)
          BY <2>1, <3>1 DEF Turns, Timely, InTime
        <5> QED
          BY <3>2, <5>1 DEF Honest, Keeps, Begins, Leaves, Authenticates, IsLetIn, Looks, Finds,
             Revives, Listed
      <4> QED
        BY <3>2, <4>1 DEF InTime, Sees, Entitled, Endpoint
    <3>3. CASE p.op # "none"
      <4>1. /\ p.op = "read" => rows'[p.row] \in v.rows
            /\ Granted' \subseteq v.granted
            /\ q.op # "none" => /\ w.granted \subseteq v.granted
                                /\ p.op = "read" => w.rows \subseteq v.rows
        BY <1>2, <2>3, <3>1, <3>3, SightIs
      <4>2. now \subseteq v.granted \/ q.op \in GrantOps
        BY <2>2, <3>1, <4>1 DEF Granted
      <4>3. InTime(rows, q, w) /\ Honest(rows, now, q, p)
        BY <2>1, <3>1 DEF Timely, Turns
      <4>4. Control(feature, q) /\ q.pc \in Places
        BY <1>1, <3>1 DEF Sound, Fine, RequestIn
      <4>5. InTime(rows', p, v)
        BY <3>3, <4>1, <4>2, <4>3, <4>4, HonestIs
      <4> QED
        BY <3>1, <4>5
    <3> QED
      BY <3>2, <3>3
  <2>5. \A s \in Requests : InTime(rows', req'[s], watch'[s])
    BY <1>2, <2>3, <2>4, WaitingIs
  <2> QED
    BY <2>5 DEF Timely
<1>3. ASSUME \/ \E k \in CacheKeys : CleanKey(k) \/ Expire(k)
             \/ \E b \in Contested : ChangePermission(b),
             Watched
      PROVE  Timely'
  <2>1. \A s \in Requests : req'[s] = req[s]
    BY <1>3 DEF CleanKey, Expire, ChangePermission
  <2>2. \A s \in Requests : InTime(rows', req'[s], watch'[s])
    BY <1>3, <2>1, WaitingIs
  <2> QED
    BY <2>2 DEF Timely
<1>4. CASE UNCHANGED vars
  BY <1>4 DEF vars, Timely
<1> QED
  BY <1>2, <1>3, <1>4 DEF Next

\* An answer shows a row as it was committed at some moment since its request
\* arrived, and a deleted row to those only who may delete, whatever Redis holds.
THEOREM AnswersAreFresh == Spec => []ReadsFresh
<1>1. Base /\ Timely /\ [Next]_vars => (Base /\ Timely)'
  BY BaseSteps, TimelySteps
<1>2. Timely => ReadsFresh
  BY DEF Timely, InTime, Sees, Listed, ReadsFresh
<1> QED
  BY <1>1, <1>2, BaseStarts, TimelyStarts, PTL DEF Spec

\* A request writes or reads only with a permission that its operator had at some
\* moment since it arrived.
THEOREM PermissionsAreCurrent == Spec => []ActsOnGranted
<1>1. Base /\ Timely /\ [Next]_vars => (Base /\ Timely)'
  BY BaseSteps, TimelySteps
<1>2. Base /\ Timely => ActsOnGranted
  <2> SUFFICES ASSUME Base, Timely, NEW r \in Requests, Passed(req[r])
               PROVE  Needs(req[r].op) \in watch[r].granted
    BY DEF ActsOnGranted
  <2>1. req[r] \in RequestIn(feature) /\ feature \in DOMAIN Controllers
    BY DEF Base, Sound
  <2>2. req[r].op \in Routes[feature]
    BY <2>1 DEF Passed, RequestIn, OpsIn
  <2>3. req[r].op \in Endpoint
    BY <2>1, <2>2, RoutesAre
  <2> QED
    BY <2>3 DEF Passed, Timely, InTime, Entitled
<1> QED
  BY <1>1, <1>2, BaseStarts, TimelyStarts, PTL DEF Spec

(***************************************************************************)
(* What Redis holds.                                                       *)
(***************************************************************************)

\* What was told of an uncommitted change is known to the cache.
Warned ==
    \A r \in Requests :
        req[r].told # {} /\ cache[req[r].row] # None => req[r].row \in cleaning \cup excused
Explained == StaleExplained /\ Warned

LEMMA ExplainedStarts == Init => Explained
<1> SUFFICES ASSUME Init PROVE Explained
  OBVIOUS
<1>1. req = [r \in Requests |-> Idle]
  BY Started
<1>2. Warned
  BY <1>1 DEF Warned, Idle
<1>3. \A i \in Rows : cache[i] \in {None, rows[i]}
  BY NoneIsNothing DEF Init, Entries
<1>4. permCache = None \/ permCache = Granted
  BY DEF Init
<1>5. StaleExplained
  BY <1>3, <1>4 DEF StaleExplained
<1> QED
  BY <1>2, <1>5 DEF Explained

\* Who told something holds a row.
LEMMA TellersHold ==
    ASSUME Sound, NEW r \in Requests, req[r].told # {}
    PROVE  req[r].pend # Nothing /\ req[r].row \in Rows
BY DEF Sound, Fine, Control, Pending

LEMMA WarnedCalm ==
    ASSUME Sound, Warned, NEW r \in Requests, NEW p, Becomes(r, p), Calm(req[r], p),
           cache' = cache, cleaning \cup excused \subseteq cleaning' \cup excused'
    PROVE  Warned'
<1>1. \A s \in Requests : req'[s] = IF s = r THEN p ELSE req[s]
  BY DEF Becomes, Sound
<1>2. \A s \in Requests :
        req'[s].told # {} => req'[s].told = req[s].told /\ req'[s].row = req[s].row
  BY <1>1 DEF Calm
<1> QED
  BY <1>2 DEF Warned

LEMMA ExplainedPlain ==
    ASSUME Sound, Explained, NEW r \in Requests, Plain(r) \/ GrantStored(r)
    PROVE  Explained'
<1>1. PICK p : Becomes(r, p) /\ Calm(req[r], p)
  BY DEF Plain, GrantStored, Turned, Turns
<1>2. UNCHANGED <<feature, rows, cache, permCache>>
  BY DEF Plain, GrantStored, Keep
<1>3. cleaning \cup excused \subseteq cleaning' \cup excused'
  BY DEF Plain, GrantStored, GrantChanged
<1>4. grants' = grants \/ "perms" \in cleaning' \cup excused'
  BY DEF Plain, GrantStored, GrantChanged
<1>5. Warned'
  BY <1>1, <1>2, <1>3, WarnedCalm DEF Explained
<1>6. StaleExplained'
  BY <1>2, <1>3, <1>4 DEF Explained, StaleExplained, Granted
<1> QED
  BY <1>5, <1>6 DEF Explained

LEMMA ExplainedAcquires ==
    ASSUME Sound, Explained, NEW r \in Requests, Acquires(r)
    PROVE  Explained'
<1>1. PICK p : Takes(r, p)
  BY DEF Acquires
<1>2. /\ UNCHANGED <<rows, grants, cache, permCache, excused>> /\ cleaning \subseteq cleaning'
  BY DEF Acquires
<1>3. StaleExplained'
  BY <1>2 DEF Explained, StaleExplained, Granted
<1>4. \A s \in Requests : req'[s] = IF s = r THEN p ELSE req[s]
  BY <1>1 DEF Takes, Turns, Becomes, Sound
<1>5. ASSUME p.told # {}, cache[p.row] # None PROVE p.row \in cleaning' \cup excused
  BY <1>1, <1>2, <1>5 DEF Takes, Explained, StaleExplained, Warned
<1>6. Warned'
  BY <1>2, <1>4, <1>5 DEF Explained, Warned
<1> QED
  BY <1>3, <1>6 DEF Explained

LEMMA ExplainedSetPerms ==
    ASSUME Sound, Explained, NEW r \in Requests, SetPerms(r)
    PROVE  Explained'
<1>1. PICK p : Becomes(r, p) /\ Calm(req[r], p)
  BY SetPermsIs DEF Turned, Turns
<1>2. UNCHANGED <<feature, rows, grants, cache, cleaning>> /\ Granted' = Granted
  BY DEF SetPerms, Granted
<1>3. \A i \in Rows : i \in excused => i \in excused'
  BY NoneIsNothing DEF SetPerms
<1>4. permCache' # None /\ permCache' # Granted' => "perms" \in cleaning' \cup excused'
  BY <1>2 DEF SetPerms, Explained, StaleExplained
<1>5. StaleExplained'
  BY <1>2, <1>3, <1>4 DEF Explained, StaleExplained
<1>6. \A s \in Requests :
        req'[s].told # {} => req'[s].told = req[s].told /\ req'[s].row = req[s].row
  BY <1>1 DEF Calm, Becomes, Sound
<1>7. Warned'
  BY <1>2, <1>3, <1>6, TellersHold DEF Explained, Warned
<1> QED
  BY <1>5, <1>7 DEF Explained

LEMMA ExplainedSetRow ==
    ASSUME Sound, Explained, NEW r \in Requests, SetRow(r)
    PROVE  Explained'
<1>1. PICK p : Becomes(r, p) /\ Calm(req[r], p)
  BY SetRowIs DEF Turned, Turns
<1>2. UNCHANGED <<feature, rows, grants, permCache, cleaning>> /\ Granted' = Granted
  BY DEF SetRow, Granted
<1>3. CASE UNCHANGED <<cache, excused>>
  <2>1. Warned'
    BY <1>1, <1>2, <1>3, WarnedCalm DEF Explained
  <2>2. StaleExplained'
    BY <1>2, <1>3 DEF Explained, StaleExplained
  <2> QED
    BY <2>1, <2>2 DEF Explained
<1>4. CASE ~(UNCHANGED <<cache, excused>>)
  <2>1. PICK i, g : i = req[r].row /\ g = req[r].got
    OBVIOUS
  <2>2. /\ i \in Rows
        /\ cache' = [cache EXCEPT ![Entry(i)] = g]
        /\ excused' = IF g = rows[i] /\ ~Told(i) THEN excused \ {Entry(i)}
                      ELSE excused \cup {Entry(i)}
    BY <1>4, <2>1, SetRowIs DEF SetRow
  <2>3. \A j \in Rows :
           IF j = Entry(i) THEN i = Entry(i) /\ cache'[j] = g ELSE cache'[j] = cache[j]
    <3>1. cache \in [Entries -> Maybe(Row)] /\ Rows \subseteq Entries
      BY DEF Sound, Stores, Entries
    <3>2. \A j \in Rows : cache'[j] = IF j = Entry(i) THEN g ELSE cache[j]
      BY <2>2, <3>1
    <3>3. \A j \in Rows : j = Entry(i) => i = Entry(i)
      BY NoneIsNothing DEF Entry
    <3> QED
      BY <3>2, <3>3
  <2>4. Entry(i) # "perms" /\ ("perms" \in excused => "perms" \in excused')
    BY <2>2, NoneIsNothing DEF Entry
  <2>5. StaleExplained'
    BY <1>2, <2>2, <2>3, <2>4 DEF Explained, StaleExplained
  <2>6. \A s \in Requests :
          req'[s].told # {} => req'[s].told = req[s].told /\ req'[s].row = req[s].row
    BY <1>1 DEF Calm, Becomes, Sound
  <2>7. ASSUME NEW s \in Requests, req[s].told # {}, cache'[req[s].row] # None
        PROVE  req[s].row \in cleaning \cup excused'
    <3>1. req[s].row \in Rows /\ req[s].pend # Nothing
      BY <2>7, TellersHold
    <3>2. CASE req[s].row = Entry(i)
      BY <2>2, <2>3, <2>7, <3>1, <3>2 DEF Told
    <3>3. CASE req[s].row # Entry(i)
      BY <2>2, <2>3, <2>7, <3>1, <3>3 DEF Explained, Warned
    <3> QED
      BY <3>2, <3>3
  <2>8. Warned'
    BY <1>2, <2>6, <2>7 DEF Warned
  <2> QED
    BY <2>5, <2>8 DEF Explained
<1> QED
  BY <1>3, <1>4

LEMMA ExplainedEnds ==
    ASSUME Sound, Explained, NEW r \in Requests, Commits(r) \/ Removes(r)
    PROVE  Explained'
<1>1. PICK p : Becomes(r, p) /\ Calm(req[r], p)
  BY DEF Commits, Removes, Ends, Turns, Calm
<1>2. UNCHANGED <<feature, grants, cache, permCache, cleaning>> /\ Granted' = Granted
  BY DEF Commits, Removes, Granted
<1>3. excused \subseteq excused'
  BY DEF Commits, Removes
<1>4. Warned'
  BY <1>1, <1>2, <1>3, WarnedCalm DEF Explained
<1>5. ASSUME NEW j \in Rows, rows'[j] # rows[j], cache[j] # None
      PROVE  j \in cleaning \cup excused'
  <2>1. CASE Commits(r)
    <3>1. j = req[r].row
      BY <1>5, <2>1 DEF Commits, Sound, Tables
    <3>2. CASE req[r].told = {}
      BY <1>5, <2>1, <3>1, <3>2 DEF Commits
    <3>3. CASE req[r].told # {}
      BY <1>3, <1>5, <3>1, <3>3 DEF Explained, Warned
    <3> QED
      BY <3>2, <3>3
  <2>2. CASE Removes(r)
    BY <1>5, <2>2 DEF Removes, Sound, Tables
  <2> QED
    BY <2>1, <2>2
<1>6. StaleExplained'
  BY <1>2, <1>3, <1>5 DEF Explained, StaleExplained
<1> QED
  BY <1>4, <1>6 DEF Explained

LEMMA ExplainedForgets ==
    ASSUME Sound, Explained, NEW k \in CacheKeys, Forgets(k)
    PROVE  Explained'
<1>1. UNCHANGED <<feature, rows, grants, req>> /\ Granted' = Granted
  BY DEF Forgets, CleanKey, Expire, Granted
<1>2. \A c \in CacheKeys \ {k} : c \in cleaning \cup excused => c \in cleaning' \cup excused'
  BY DEF Forgets, CleanKey, Expire, Drop
<1>3. \/ Drop(k)
      \/ UNCHANGED <<cache, permCache>> /\ k \in excused'
  BY DEF Forgets, CleanKey, Expire
<1>4. \A j \in Rows : /\ j \in CacheKeys /\ j # "perms"
                      /\ cache'[j] = cache[j] \/ (cache'[j] = None /\ j = k)
                      /\ j = k => cache'[j] = None \/ k \in excused'
  BY <1>3, NoneIsNothing DEF Drop, CacheKeys, Entries, Sound, Stores
<1>5. /\ permCache' \in {permCache, None}
      /\ k = "perms" => permCache' = None \/ k \in excused'
  BY <1>3 DEF Drop
<1>6. "perms" \in CacheKeys
  BY DEF CacheKeys
<1>7. StaleExplained'
  <2>1. ASSUME NEW j \in Rows, cache'[j] # None, cache'[j] # rows[j]
        PROVE  j \in cleaning' \cup excused'
    BY <1>2, <1>4, <2>1 DEF Explained, StaleExplained
  <2>2. ASSUME permCache' # None, permCache' # Granted
        PROVE  "perms" \in cleaning' \cup excused'
    BY <1>2, <1>5, <1>6, <2>2 DEF Explained, StaleExplained
  <2> QED
    BY <1>1, <2>1, <2>2 DEF StaleExplained
<1>8. Warned'
  <2>1. ASSUME NEW s \in Requests, req[s].told # {}, cache'[req[s].row] # None
        PROVE  req[s].row \in cleaning' \cup excused'
    <3>1. req[s].row \in Rows
      BY <2>1, TellersHold
    <3> QED
      BY <1>2, <1>4, <2>1, <3>1 DEF Explained, Warned
  <2> QED
    BY <1>1, <2>1 DEF Warned
<1> QED
  BY <1>7, <1>8 DEF Explained

LEMMA ExplainedChanges ==
    ASSUME Sound, Explained, NEW b \in Contested, ChangePermission(b)
    PROVE  Explained'
<1>1. /\ UNCHANGED <<rows, req, cache, permCache, cleaning>> /\ excused \subseteq excused'
      /\ Granted' = Granted \/ "perms" \in excused'
  BY ChangePermissionIs
<1>2. StaleExplained'
  BY <1>1 DEF Explained, StaleExplained
<1>3. Warned'
  BY <1>1 DEF Explained, Warned
<1> QED
  BY <1>2, <1>3 DEF Explained

LEMMA ExplainedSteps == Base /\ Explained /\ [Next]_vars => Explained'
<1> SUFFICES ASSUME Base, Explained, [Next]_vars PROVE Explained'
  OBVIOUS
<1>1. Sound
  BY DEF Base
<1>2. ASSUME NEW r \in Requests, Step(r) PROVE Explained'
  BY <1>1, <1>2, StepIs, ExplainedPlain, ExplainedAcquires, ExplainedSetPerms, ExplainedSetRow,
     ExplainedEnds DEF Base
<1>3. ASSUME NEW k \in CacheKeys, CleanKey(k) \/ Expire(k) PROVE Explained'
  BY <1>1, <1>3, ExplainedForgets DEF Forgets
<1>4. ASSUME NEW b \in Contested, ChangePermission(b) PROVE Explained'
  BY <1>1, <1>4, ExplainedChanges
<1>5. CASE UNCHANGED vars
  BY <1>5 DEF vars, Explained, StaleExplained, Warned, Granted
<1> QED
  BY <1>2, <1>3, <1>4, <1>5 DEF Next

\* What Redis holds for a row or for the permissions is up to date, or a call that
\* will remove it is pending, or it is one of the cases the code leaves to the time
\* to live.
THEOREM StalenessIsExplained == Spec => []StaleExplained
<1>1. Base /\ Explained /\ [Next]_vars => (Base /\ Explained)'
  BY BaseSteps, ExplainedSteps
<1>2. Explained => StaleExplained
  BY DEF Explained
<1> QED
  BY <1>1, <1>2, BaseStarts, ExplainedStarts, PTL DEF Spec

(***************************************************************************)
(* What a commit may write.                                                *)
(***************************************************************************)

\* Who changed a row that is still there, or now is, has committed it.
LEMMA WhoCommitted ==
    ASSUME Base, [Next]_vars, NEW r \in Requests, NEW i \in Rows,
           req'[r] # req[r], rows'[i] # rows[i], rows'[i] # None \/ feature \in Announcing
    PROVE  /\ Commits(r) /\ req[r].pend # Nothing /\ i = req[r].row
           /\ rows'[i] = Merged(req[r])
<1>1. Sound
  BY DEF Base
<1>2. PICK s \in Requests : Step(s)
  BY DEF Next, vars, CleanKey, Expire, ChangePermission
<1>3. Commits(s) \/ Removes(s)
  BY <1>1, <1>2, StepIs DEF Base, Plain, GrantStored, Keep, Acquires, SetPerms, SetRow
<1>4. \E p : Becomes(s, p)
  BY <1>3 DEF Commits, Removes, Ends, Turns
<1>5. r = s
  BY <1>1, <1>4 DEF Becomes, Sound
<1>6. ~Removes(r)
  BY <1>1 DEF Removes, Sound, Tables, Announcing
<1>7. req[r].pend # Nothing /\ rows' = [rows EXCEPT ![req[r].row] = Merged(req[r])]
  BY <1>3, <1>5, <1>6 DEF Commits
<1> QED
  BY <1>1, <1>3, <1>5, <1>6, <1>7 DEF Sound, Tables

\* What it merged.
LEMMA WhatCommitted ==
    ASSUME Base, NEW r \in Requests, Commits(r), req[r].pend # Nothing
    PROVE  LET q == req[r]
               w == rows[q.row] IN
           IF w = None THEN "created" \in q.told
           ELSE /\ w \in Row /\ OldRow(q) /\ q.pend \in Parts
                /\ Merged(q) = [c \in Columns |-> IF c \in DOMAIN q.pend THEN q.pend[c] ELSE w[c]]
<1>1. Sound /\ At(r, "commit")
  BY DEF Base, Commits
<1>2. req[r].pend \in Parts
  BY <1>1 DEF Sound, RequestIn
<1> QED
  BY <1>1, <1>2, MergedIs, TypedRow DEF Sound

LEMMA OwnStep ==
    ASSUME Base, [Next]_vars, NEW r \in Requests, NEW i \in Rows, req'[r] # req[r],
           rows[i] # None, rows'[i] # rows[i], rows'[i] # None
    PROVE  /\ req[r].op = "update" => rows'[i].deleted = rows[i].deleted
           /\ req[r].op = "delete" => rows'[i] = [rows[i] EXCEPT !.deleted = TRUE]
<1>1. PICK q, w, m : q = req[r] /\ w = rows[i] /\ m = rows'[i]
  OBVIOUS
<1>2. /\ w \in Row /\ OldRow(q) /\ q.pend \in Parts
      /\ m = [c \in Columns |-> IF c \in DOMAIN q.pend THEN q.pend[c] ELSE w[c]]
  BY <1>1, WhoCommitted, WhatCommitted
<1>3. q.op = "update" => m.deleted = w.deleted
  BY <1>2 DEF OldRow, Columns
<1>4. ASSUME q.op = "delete" PROVE m = [w EXCEPT !.deleted = TRUE]
  <2>1. DOMAIN q.pend = {"deleted"} /\ q.pend["deleted"] = TRUE
    <3>1. DOMAIN q.pend = {"deleted"} /\ q.pend["deleted"]
      BY <1>2, <1>4 DEF OldRow
    <3>2. q.pend["deleted"] \in BOOLEAN
      BY <1>2, <3>1, PartsAre, ValuesAre
    <3> QED
      BY <3>1, <3>2
  <2>2. DOMAIN w = Columns /\ w = [c \in Columns |-> w[c]]
    BY <1>2 DEF Row, Columns
  <2>3. m = [c \in Columns |-> IF c = "deleted" THEN TRUE ELSE w[c]]
    BY <1>2, <2>1
  <2> QED
    BY <2>2, <2>3
<1> QED
  BY <1>1, <1>3, <1>4

\* An update never deletes a row or brings one back, even when it races with a
\* delete or a restore, and a delete changes nothing but the deletion.
THEOREM OwnColumnsOnly == Spec => OwnColumns
<1>1. Base /\ [Next]_vars =>
        [\A r \in Requests, i \in Rows :
          req'[r] # req[r] /\ rows[i] # None /\ rows'[i] # rows[i] /\ rows'[i] # None
            => /\ req[r].op = "update" => rows'[i].deleted = rows[i].deleted
               /\ req[r].op = "delete" => rows'[i] = [rows[i] EXCEPT !.deleted = TRUE]]_vars
  BY OwnStep
<1> QED
  BY <1>1, BaseHolds, PTL DEF Spec, OwnColumns

LEMMA HistoryStep ==
    ASSUME Base, [Next]_vars, NEW r \in Requests, NEW i \in Rows, feature \in Announcing,
           req'[r] # req[r], rows'[i] # rows[i]
    PROVE  /\ rows[i] = None => "created" \in req[r].told
           /\ rows[i] # None /\ rows[i].deleted /\ ~rows'[i].deleted
                => "restored" \in req[r].told
           /\ rows[i] # None /\ ~rows[i].deleted /\ rows'[i].deleted
                => "deleted" \in req[r].told \/ req[r].op = "statusUpdate"
<1>1. PICK q, w, m : q = req[r] /\ w = rows[i] /\ m = rows'[i]
  OBVIOUS
<1>2. IF w = None THEN "created" \in q.told
      ELSE /\ w \in Row /\ OldRow(q) /\ q.pend \in Parts
           /\ m = [c \in Columns |-> IF c \in DOMAIN q.pend THEN q.pend[c] ELSE w[c]]
  BY <1>1, WhoCommitted, WhatCommitted
<1>3. ASSUME w # None
      PROVE  /\ w.deleted /\ ~m.deleted => "restored" \in q.told
             /\ ~w.deleted /\ m.deleted => "deleted" \in q.told \/ q.op = "statusUpdate"
  <2>1. m.deleted = IF "deleted" \in DOMAIN q.pend THEN q.pend["deleted"] ELSE w.deleted
    BY <1>2, <1>3 DEF Columns
  <2>2. "deleted" \in DOMAIN q.pend =>
          IF q.pend["deleted"] THEN "deleted" \in q.told \/ q.op = "statusUpdate"
          ELSE "restored" \in q.told
    BY <1>2, <1>3 DEF OldRow
  <2> QED
    BY <2>1, <2>2
<1> QED
  BY <1>1, <1>2, <1>3

\* The history names what a commit did: a row that appears was told as created, one
\* that comes back as restored, one that goes as deleted.
THEOREM HistoryIsTold == Spec => HistoryTells
<1>1. Base /\ [Next]_vars =>
        [\A r \in Requests, i \in Rows :
          feature \in Announcing /\ req'[r] # req[r] /\ rows'[i] # rows[i]
            => /\ rows[i] = None => "created" \in req[r].told
               /\ rows[i] # None /\ rows[i].deleted /\ ~rows'[i].deleted
                    => "restored" \in req[r].told
               /\ rows[i] # None /\ ~rows[i].deleted /\ rows'[i].deleted
                    => "deleted" \in req[r].told \/ req[r].op = "statusUpdate"]_vars
  BY HistoryStep
<1> QED
  BY <1>1, BaseHolds, PTL DEF Spec, HistoryTells
=============================================================================
