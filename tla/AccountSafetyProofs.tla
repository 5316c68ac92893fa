------------------------ MODULE AccountSafetyProofs -------------------------
(***************************************************************************)
(* Type correctness and the safety properties of Account for every value   *)
(* of its constants: the tables, the background work and the requests keep *)
(* their types, and every step of a request finds the locals it uses set;  *)
(* on that, and on where the steps of each component may take a request,   *)
(* rests the safety.                                                       *)
(***************************************************************************)
EXTENDS Account, FiniteSetTheorems, TLAPS

(***************************************************************************)
(* How a step changes one request.                                         *)
(***************************************************************************)

\* The request in slot r becomes q, a request whose locals are in order.
Becomes(r, q) ==
    /\ req' = [req EXCEPT ![r] = q]
    /\ q \in Request /\ Locals(q, Rows')

LEMMA LocalsGrow ==
    ASSUME NEW q, NEW S, NEW T, S \subseteq T, Locals(q, S)
    PROVE  Locals(q, T)
BY DEF Locals

LEMMA BecomesType ==
    ASSUME TypeRest, LocalsOK, Rows \subseteq Rows', NEW r \in Requests, NEW q, Becomes(r, q)
    PROVE  req' \in [Requests -> Request] /\ LocalsOK'
<1>1. req' \in [Requests -> Request]
  BY DEF Becomes, TypeRest
<1>2. ASSUME NEW s \in Requests PROVE Locals(req'[s], Rows')
  <2>1. Locals(req[s], Rows')
    BY LocalsGrow DEF LocalsOK
  <2> QED
    BY <2>1 DEF Becomes, TypeRest
<1> QED
  BY <1>1, <1>2 DEF LocalsOK

\* Many steps change nothing but their request.
LEMMA OnlyRequest ==
    ASSUME TypeRest, LocalsOK, NEW r \in Requests, NEW q, Becomes(r, q),
           UNCHANGED <<clock, tables, background, spent>>
    PROVE  TypeRest' /\ LocalsOK'
<1>1. Rows' = Rows
  BY DEF Rows, tables
<1>2. req' \in [Requests -> Request] /\ LocalsOK'
  BY <1>1, BecomesType
<1> QED
  BY <1>2 DEF TypeRest, tables, background

\* The locals at hand when a step begins.
LEMMA LocalsNow ==
    ASSUME TypeRest, LocalsOK, NEW r \in Requests
    PROVE  /\ req \in [Requests -> Request] /\ req[r] \in Request
           /\ Locals(req[r], Rows) /\ Rows \subseteq Users
BY DEF TypeRest, LocalsOK, Rows

LEMMA FreshIsRequest ==
    ASSUME NEW op \in AllOps \cup {None}, NEW i \in Idents \cup {None}, NEW pc \in Steps
    PROVE  Fresh(op, i, pc) \in Request
BY DEF Request, Fresh

LEMMA FinishBecomes ==
    ASSUME NEW r, Finish(r)
    PROVE  Becomes(r, Idle)
<1>1. Idle \in Request
  BY FreshIsRequest DEF Idle, Steps
<1>2. Locals(Idle, Rows')
  BY DEF Idle, Fresh, Locals
<1> QED
  BY <1>1, <1>2 DEF Finish, Becomes

LEMMA AsVisitorBecomes ==
    ASSUME TypeRest, NEW r \in Requests, AsVisitor(r)
    PROVE  Becomes(r, Fresh(req[r].op, None, "handler"))
<1>1. Fresh(req[r].op, None, "handler") \in Request
  BY FreshIsRequest DEF TypeRest, Request, Steps
<1>2. Locals(Fresh(req[r].op, None, "handler"), Rows')
  BY DEF Fresh, Locals
<1> QED
  BY <1>1, <1>2 DEF AsVisitor, Becomes

(***************************************************************************)
(* Types: sessions.                                                        *)
(***************************************************************************)

LEMMA ArriveType ==
    ASSUME TypeRest, LocalsOK, NEW r \in Requests, Arrive(r)
    PROVE  TypeRest' /\ LocalsOK'
<1>1. PICK op \in Ops, i \in (issued \cap Idents) \cup {None} :
         req' = [req EXCEPT ![r] =
                     Fresh(op, i, IF i = None THEN "handler" ELSE "authToken")]
  BY DEF Arrive
<1> DEFINE q == Fresh(op, i, IF i = None THEN "handler" ELSE "authToken")
<1>2. q \in Request
  BY FreshIsRequest, StoreAssumption DEF Steps
<1>3. Locals(q, Rows')
  BY DEF Fresh, Locals
<1>4. Becomes(r, q)
  BY <1>1, <1>2, <1>3 DEF Becomes
<1>5. Rows' = Rows
  BY DEF Arrive, tables, Rows
<1>6. req' \in [Requests -> Request] /\ LocalsOK'
  BY <1>4, <1>5, BecomesType
<1> QED
  BY <1>6 DEF Arrive, TypeRest, tables, background

LEMMA AuthTokenType ==
    ASSUME TypeRest, LocalsOK, NEW r \in Requests, AuthToken(r)
    PROVE  TypeRest' /\ LocalsOK'
<1> DEFINE i == req[r].ident
<1>0. /\ req \in [Requests -> Request] /\ req[r] \in Request /\ i \in Idents
      /\ Rows' = Rows
  BY DEF TypeRest, LocalsOK, Locals, AuthToken, Rows, tables
<1>1. CASE AsVisitor(r)
  BY <1>0, <1>1, AsVisitorBecomes, BecomesType
  DEF AuthToken, TypeRest, tables, DetachRemoval
<1>2. CASE /\ Accepted(i) /\ UNCHANGED lookup
           /\ req' = [req EXCEPT ![r].pc = "authUser",
                                 ![r].user = token[i].user,
                                 ![r].expire = token[i].expire]
  <2> DEFINE q == [req[r] EXCEPT !.pc = "authUser", !.user = token[i].user,
                                 !.expire = token[i].expire]
  <2>1. token[i] \in TokenRow
    BY <1>0, <1>2 DEF Accepted, Unexpired, TypeRest
  <2>2. q \in Request
    BY <1>0, <2>1 DEF Request, Steps, TokenRow
  <2>3. Locals(q, Rows')
    BY <1>0, <2>1 DEF Locals, Request, TokenRow
  <2>4. Becomes(r, q)
    BY <1>0, <1>2, <2>2, <2>3 DEF Becomes
  <2> QED
    BY <1>0, <1>2, <2>4, BecomesType DEF AuthToken, TypeRest, tables
<1> QED
  BY <1>1, <1>2 DEF AuthToken

LEMMA AuthUserType ==
    ASSUME TypeRest, LocalsOK, NEW r \in Requests, AuthUser(r)
    PROVE  TypeRest' /\ LocalsOK'
<1>0. req[r] \in Request /\ Locals(req[r], Rows) /\ Rows' = Rows /\ req[r].pc = "authUser"
  BY LocalsNow DEF AuthUser, Rows, tables
<1>1. CASE AsVisitor(r) /\ DetachRemoval(req[r].ident)
  <2>1. req[r].ident \in Idents
    BY <1>0 DEF Locals
  <2> QED
    BY <1>0, <1>1, <2>1, AsVisitorBecomes, BecomesType
    DEF AuthUser, TypeRest, tables, DetachRemoval
<1>2. CASE Goto(r, "authTouch") /\ UNCHANGED lookup
  <2> DEFINE q == [req[r] EXCEPT !.pc = "authTouch"]
  <2>1. q \in Request
    BY <1>0 DEF Request, Steps
  <2>2. Locals(q, Rows')
    BY <1>0 DEF Locals, Request
  <2>3. Becomes(r, q)
    BY <1>2, <2>1, <2>2 DEF Goto, Becomes
  <2> QED
    BY <1>0, <1>2, <2>3, BecomesType DEF AuthUser, TypeRest, tables
<1> QED
  BY <1>1, <1>2 DEF AuthUser

LEMMA AuthTouchType ==
    ASSUME TypeRest, LocalsOK, NEW r \in Requests, AuthTouch(r)
    PROVE  TypeRest' /\ LocalsOK'
<1> DEFINE q == [Fresh(req[r].op, req[r].ident, "handler") EXCEPT !.auth = req[r].user]
<1>0. /\ req[r] \in Request /\ Rows' = Rows
      /\ req[r].ident \in Idents /\ req[r].user \in Users
  BY LocalsNow DEF AuthTouch, Rows, Locals
<1>1. q \in Request
  <2>1. Fresh(req[r].op, req[r].ident, "handler") \in Request
    BY <1>0, FreshIsRequest DEF Request, Steps
  <2> QED
    BY <1>0, <2>1 DEF Request
<1>2. Locals(q, Rows')
  BY <1>0 DEF Locals, Fresh
<1>3. req' \in [Requests -> Request] /\ LocalsOK'
  BY <1>0, <1>1, <1>2, BecomesType DEF AuthTouch, Becomes
<1>4. token' \in [Idents -> TokenRow \cup {None}]
  <2>1. clock + AuthExpiresIn \in Nat
    BY StoreAssumption DEF TypeRest, Time
  <2>2. Touched(r) \in TokenRow \cup {None}
    BY <1>0, <2>1 DEF TypeRest, Touched, TokenRow
  <2> QED
    BY <2>2 DEF AuthTouch, TypeRest
<1> QED
  BY <1>3, <1>4 DEF AuthTouch, TypeRest, background

LEMMA LoginFindType ==
    ASSUME TypeRest, LocalsOK, NEW r \in Requests, LoginFind(r)
    PROVE  TypeRest' /\ LocalsOK'
<1>0. req[r] \in Request /\ Locals(req[r], Rows) /\ Rows' = Rows /\ req[r].pc = "handler"
  BY LocalsNow DEF LoginFind, At, Rows, tables
<1>1. CASE Refuse(r)
  BY <1>1, FinishBecomes, OnlyRequest DEF LoginFind, Refuse
<1>2. ASSUME NEW u \in Users, ActiveUser(u),
             req' = [req EXCEPT ![r].pc = "loginCount", ![r].user = u, ![r].row = user[u]]
      PROVE  TypeRest' /\ LocalsOK'
  <2> DEFINE q == [req[r] EXCEPT !.pc = "loginCount", !.user = u, !.row = user[u]]
  <2>1. user[u] \in UserRow
    BY <1>2 DEF ActiveUser, Visible, TypeRest
  <2>2. q \in Request
    BY <1>0, <2>1 DEF Request, Steps
  <2>3. Locals(q, Rows')
    BY <1>0, <2>1 DEF Locals, Request
  <2>4. Becomes(r, q)
    BY <1>2, <2>2, <2>3 DEF Becomes
  <2> QED
    BY <2>4, OnlyRequest DEF LoginFind
<1> QED
  BY <1>1, <1>2 DEF LoginFind

LEMMA LoginCountType ==
    ASSUME TypeRest, LocalsOK, NEW r \in Requests, LoginCount(r)
    PROVE  TypeRest' /\ LocalsOK'
<1>0. req[r] \in Request /\ Locals(req[r], Rows) /\ Rows' = Rows /\ req[r].pc = "loginCount"
  BY LocalsNow DEF LoginCount, Rows, tables
<1>1. CASE Refuse(r)
  BY <1>1, FinishBecomes, OnlyRequest DEF LoginCount, Refuse
<1>2. CASE Goto(r, "loginInsert")
  <2> DEFINE q == [req[r] EXCEPT !.pc = "loginInsert"]
  <2>1. q \in Request
    BY <1>0 DEF Request, Steps
  <2>2. Locals(q, Rows')
    BY <1>0 DEF Locals, Request
  <2>3. Becomes(r, q)
    BY <1>2, <2>1, <2>2 DEF Goto, Becomes
  <2> QED
    BY <2>3, OnlyRequest DEF LoginCount
<1> QED
  BY <1>1, <1>2 DEF LoginCount

LEMMA LoginInsertType ==
    ASSUME TypeRest, LocalsOK, NEW r \in Requests, LoginInsert(r)
    PROVE  TypeRest' /\ LocalsOK'
<1>0. /\ Rows' = Rows
      /\ req[r].user \in Users /\ req[r].row \in UserRow
  BY LocalsNow DEF LoginInsert, Rows, Locals
<1>1. req' \in [Requests -> Request] /\ LocalsOK'
  BY <1>0, FinishBecomes, BecomesType DEF LoginInsert
<1>2. [user |-> req[r].user, expire |-> clock + AuthExpiresIn] \in TokenRow
  BY <1>0, StoreAssumption DEF TokenRow, TypeRest, Time
<1> QED
  BY <1>1, <1>2 DEF LoginInsert, TypeRest, background

LEMMA LogoutFindType ==
    ASSUME TypeRest, LocalsOK, NEW r \in Requests, LogoutFind(r)
    PROVE  TypeRest' /\ LocalsOK'
<1>0. /\ req[r] \in Request /\ Locals(req[r], Rows) /\ Rows' = Rows
      /\ req[r].pc = "handler" /\ req[r].op = "logout"
  BY LocalsNow DEF LogoutFind, At, Rows, tables
<1>1. CASE Refuse(r)
  BY <1>1, FinishBecomes, OnlyRequest DEF LogoutFind, Refuse
<1>2. CASE req[r].auth # None /\ Goto(r, "tokenFind")
  <2> DEFINE q == [req[r] EXCEPT !.pc = "tokenFind"]
  <2>1. q \in Request
    BY <1>0 DEF Request, Steps
  <2>2. Locals(q, Rows')
    BY <1>0, <1>2 DEF Locals, Request
  <2>3. Becomes(r, q)
    BY <1>2, <2>1, <2>2 DEF Goto, Becomes
  <2> QED
    BY <2>3, OnlyRequest DEF LogoutFind
<1> QED
  BY <1>1, <1>2 DEF LogoutFind

LEMMA RemoveTokenStartType ==
    ASSUME TypeRest, LocalsOK, NEW r \in Requests, RemoveTokenStart(r)
    PROVE  TypeRest' /\ LocalsOK'
<1>0. /\ req[r] \in Request /\ Locals(req[r], Rows) /\ Rows' = Rows
      /\ req[r].pc = "handler" /\ req[r].op = "removeToken"
  BY LocalsNow DEF RemoveTokenStart, At, Rows, tables
<1>1. CASE Refuse(r)
  BY <1>1, FinishBecomes, OnlyRequest DEF RemoveTokenStart, Refuse
<1>2. ASSUME NEW i \in issued \cap Idents,
             req' = [req EXCEPT ![r].pc = "tokenFind", ![r].ident = i]
      PROVE  TypeRest' /\ LocalsOK'
  <2> DEFINE q == [req[r] EXCEPT !.pc = "tokenFind", !.ident = i]
  <2>1. q \in Request
    BY <1>0 DEF Request, Steps
  <2>2. Locals(q, Rows')
    BY <1>0 DEF Locals, Request
  <2>3. Becomes(r, q)
    BY <1>2, <2>1, <2>2 DEF Becomes
  <2> QED
    BY <2>3, OnlyRequest DEF RemoveTokenStart
<1> QED
  BY <1>1, <1>2 DEF RemoveTokenStart

LEMMA TokenFindType ==
    ASSUME TypeRest, LocalsOK, NEW r \in Requests, TokenFind(r)
    PROVE  TypeRest' /\ LocalsOK'
<1>0. req[r] \in Request /\ Locals(req[r], Rows) /\ Rows' = Rows /\ req[r].pc = "tokenFind"
  BY LocalsNow DEF TokenFind, Rows, tables
<1>1. CASE Refuse(r)
  BY <1>1, FinishBecomes, OnlyRequest DEF TokenFind, Refuse
<1>2. CASE req' = [req EXCEPT ![r].pc = "tokenDelete", ![r].found = Selected(r)]
  <2> DEFINE q == [req[r] EXCEPT !.pc = "tokenDelete", !.found = Selected(r)]
  <2>1. Selected(r) \subseteq Idents
    BY <1>0 DEF Locals, Selected, TokensOf
  <2>2. q \in Request
    BY <1>0, <2>1 DEF Request, Steps
  <2>3. Locals(q, Rows')
    BY <1>0 DEF Locals, Request
  <2>4. Becomes(r, q)
    BY <1>2, <2>2, <2>3 DEF Becomes
  <2> QED
    BY <2>4, OnlyRequest DEF TokenFind
<1> QED
  BY <1>1, <1>2 DEF TokenFind

LEMMA TokenDeleteType ==
    ASSUME TypeRest, LocalsOK, NEW r \in Requests, TokenDelete(r)
    PROVE  TypeRest' /\ LocalsOK'
<1>0. req[r] \in Request /\ Locals(req[r], Rows) /\ Rows' = Rows /\ req[r].pc = "tokenDelete"
  BY LocalsNow DEF TokenDelete, Rows
<1>1. PICK i \in req[r].found \cap Idents :
          /\ token' = [token EXCEPT ![i] = None]
          /\ IF req[r].found # {i}
             THEN req' = [req EXCEPT ![r].found = @ \ {i}]
             ELSE IF req[r].op = "update"
             THEN req' = [req EXCEPT ![r].found = {}, ![r].pc = "updateSave"]
             ELSE Finish(r)
  BY DEF TokenDelete
<1>2. req' \in [Requests -> Request] /\ LocalsOK'
  <2>1. CASE req' = [req EXCEPT ![r].found = @ \ {i}]
    <3> DEFINE q == [req[r] EXCEPT !.found = @ \ {i}]
    <3>1. q \in Request
      BY <1>0 DEF Request
    <3>2. Locals(q, Rows')
      BY <1>0 DEF Locals, Request
    <3> QED
      BY <1>0, <2>1, <3>1, <3>2, BecomesType DEF Becomes
  <2>2. CASE req[r].op = "update" /\ req' = [req EXCEPT ![r].found = {}, ![r].pc = "updateSave"]
    <3> DEFINE q == [req[r] EXCEPT !.found = {}, !.pc = "updateSave"]
    <3>1. q \in Request
      BY <1>0 DEF Request, Steps
    <3>2. Locals(q, Rows')
      BY <1>0, <2>2 DEF Locals, Request
    <3> QED
      BY <1>0, <2>2, <3>1, <3>2, BecomesType DEF Becomes
  <2>3. CASE Finish(r)
    BY <1>0, <2>3, FinishBecomes, BecomesType
  <2> QED
    BY <1>1, <2>1, <2>2, <2>3
<1> QED
  BY <1>1, <1>2 DEF TokenDelete, TypeRest, background

LEMMA MeDetailsType ==
    ASSUME TypeRest, LocalsOK, NEW r \in Requests, MeDetails(r)
    PROVE  TypeRest' /\ LocalsOK'
BY FinishBecomes, OnlyRequest DEF MeDetails

LEMMA SessionStepType ==
    ASSUME TypeRest, LocalsOK, NEW r \in Requests, SessionStep(r)
    PROVE  TypeRest' /\ LocalsOK'
BY ArriveType, AuthTokenType, AuthUserType, AuthTouchType, LoginFindType, LoginCountType,
   LoginInsertType, LogoutFindType, RemoveTokenStartType, TokenFindType, TokenDeleteType,
   MeDetailsType
DEF SessionStep

LEMMA SessionBackgroundType ==
    ASSUME TypeRest, LocalsOK, SessionBackground
    PROVE  TypeRest' /\ LocalsOK'
<1>1. ASSUME UNCHANGED <<user, req>> PROVE LocalsOK'
  BY <1>1 DEF LocalsOK, Rows
<1>2. CASE CleanTokens
  BY <1>1, <1>2 DEF CleanTokens, OutdatedTokens, TypeRest, tables
<1>3. ASSUME NEW i \in Idents, DetachedFind(i) PROVE TypeRest' /\ LocalsOK'
  <2>1. lookup' \in [Idents -> Nat]
    BY <1>3 DEF DetachedFind, TypeRest
  <2>2. removing' \subseteq Idents /\ process' \in Phases
    BY <1>3 DEF DetachedFind, TypeRest, Phases
  <2> QED
    BY <1>1, <1>3, <2>1, <2>2 DEF DetachedFind, TypeRest, tables
<1>4. ASSUME NEW i \in Idents, RemoveToken(i) PROVE TypeRest' /\ LocalsOK'
  BY <1>1, <1>4 DEF RemoveToken, TypeRest
<1>5. ASSUME NEW i \in Idents, RemoveTokenFails(i) PROVE TypeRest' /\ LocalsOK'
  BY <1>1, <1>5 DEF RemoveTokenFails, TypeRest, Phases, tables
<1>6. CASE Exit \/ Start
  BY <1>1, <1>6 DEF Exit, Start, TypeRest, Phases, tables
<1> QED
  BY <1>2, <1>3, <1>4, <1>5, <1>6 DEF SessionBackground
(***************************************************************************)
(* Types: recovery.                                                        *)
(***************************************************************************)

LEMMA RecoverFindType ==
    ASSUME TypeRest, LocalsOK, NEW r \in Requests, RecoverFind(r)
    PROVE  TypeRest' /\ LocalsOK'
<1>0. /\ req[r] \in Request /\ Locals(req[r], Rows) /\ Rows' = Rows
      /\ req[r].pc = "handler"
  BY LocalsNow DEF RecoverFind, At, Rows, tables
<1>1. CASE Refuse(r)
  BY <1>1, FinishBecomes, OnlyRequest DEF RecoverFind, Refuse
<1>2. ASSUME NEW u \in Users, req' = [req EXCEPT ![r].pc = "recoverCount", ![r].user = u]
      PROVE  TypeRest' /\ LocalsOK'
  <2> DEFINE q == [req[r] EXCEPT !.pc = "recoverCount", !.user = u]
  <2>1. q \in Request
    BY <1>0, <1>2 DEF Request, Steps
  <2>2. Locals(q, Rows')
    BY <1>0, <1>2 DEF Locals, Request
  <2>3. Becomes(r, q)
    BY <1>2, <2>1, <2>2 DEF Becomes
  <2> QED
    BY <2>3, OnlyRequest DEF RecoverFind
<1> QED
  BY <1>1, <1>2 DEF RecoverFind

LEMMA RecoverCountType ==
    ASSUME TypeRest, LocalsOK, NEW r \in Requests, RecoverCount(r)
    PROVE  TypeRest' /\ LocalsOK'
<1>0. /\ req[r] \in Request /\ Locals(req[r], Rows) /\ Rows' = Rows
      /\ req[r].pc = "recoverCount"
  BY LocalsNow DEF RecoverCount, Rows, tables
<1>1. CASE Refuse(r)
  BY <1>1, FinishBecomes, OnlyRequest DEF RecoverCount, Refuse
<1>2. CASE Goto(r, "recoverInsert")
  <2> DEFINE q == [req[r] EXCEPT !.pc = "recoverInsert"]
  <2>1. q \in Request
    BY <1>0, <1>2 DEF Request, Steps
  <2>2. Locals(q, Rows')
    BY <1>0, <1>2 DEF Locals, Request
  <2>3. Becomes(r, q)
    BY <1>2, <2>1, <2>2 DEF Becomes, Goto
  <2> QED
    BY <2>3, OnlyRequest DEF RecoverCount
<1> QED
  BY <1>1, <1>2 DEF RecoverCount

LEMMA RecoverInsertType ==
    ASSUME TypeRest, LocalsOK, NEW r \in Requests, RecoverInsert(r)
    PROVE  TypeRest' /\ LocalsOK'
<1>0. Rows' = Rows /\ req[r].user \in Users
  BY LocalsNow DEF RecoverInsert, Rows, Locals
<1>1. req' \in [Requests -> Request] /\ LocalsOK'
  BY <1>0, FinishBecomes, BecomesType DEF RecoverInsert
<1>2. [user |-> req[r].user, created |-> clock,
       expire |-> clock + RecoveryExpiresIn, used |-> FALSE] \in RecoveryRow
  BY <1>0, StoreAssumption DEF RecoveryRow, TypeRest, Time
<1> QED
  BY <1>1, <1>2 DEF RecoverInsert, TypeRest, background

LEMMA ChangeFindType ==
    ASSUME TypeRest, LocalsOK, NEW r \in Requests, ChangeFind(r)
    PROVE  TypeRest' /\ LocalsOK'
<1>0. /\ req[r] \in Request /\ Locals(req[r], Rows) /\ Rows' = Rows
      /\ req[r].pc = "handler"
  BY LocalsNow DEF ChangeFind, At, Rows, tables
<1>1. CASE Refuse(r)
  BY <1>1, FinishBecomes, OnlyRequest DEF ChangeFind, Refuse
<1>2. ASSUME NEW c \in Codes, recovery[c] # None, req' = [req EXCEPT ![r].pc = "changeUser", ![r].code = c, ![r].user = recovery[c].user]
      PROVE  TypeRest' /\ LocalsOK'
  <2> DEFINE q == [req[r] EXCEPT !.pc = "changeUser", !.code = c, !.user = recovery[c].user]
  <2>1. recovery[c].user \in Users
    BY <1>2 DEF TypeRest, RecoveryRow
  <2>2. q \in Request
    BY <1>0, <1>2, <2>1 DEF Request, Steps
  <2>3. Locals(q, Rows')
    BY <1>0, <1>2, <2>1 DEF Locals, Request
  <2>4. Becomes(r, q)
    BY <1>2, <2>2, <2>3 DEF Becomes
  <2> QED
    BY <2>4, OnlyRequest DEF ChangeFind
<1> QED
  BY <1>1, <1>2 DEF ChangeFind

LEMMA ChangeUserType ==
    ASSUME TypeRest, LocalsOK, NEW r \in Requests, ChangeUser(r)
    PROVE  TypeRest' /\ LocalsOK'
<1>0. /\ req[r] \in Request /\ Locals(req[r], Rows) /\ Rows' = Rows
      /\ req[r].pc = "changeUser"
  BY LocalsNow DEF ChangeUser, Rows, tables
<1>1. CASE Refuse(r)
  BY <1>1, FinishBecomes, OnlyRequest DEF ChangeUser, Refuse
<1>2. CASE ActiveUser(req[r].user) /\ Goto(r, "changeSave")
  <2> DEFINE q == [req[r] EXCEPT !.pc = "changeSave"]
  <2>1. req[r].user \in Rows
    BY <1>0, <1>2 DEF Locals, ActiveUser, Visible, Rows
  <2>2. q \in Request
    BY <1>0, <1>2, <2>1 DEF Request, Steps
  <2>3. Locals(q, Rows')
    BY <1>0, <1>2, <2>1 DEF Locals, Request
  <2>4. Becomes(r, q)
    BY <1>2, <2>2, <2>3 DEF Becomes, Goto
  <2> QED
    BY <2>4, OnlyRequest DEF ChangeUser
<1> QED
  BY <1>1, <1>2 DEF ChangeUser

LEMMA ChangeSaveType ==
    ASSUME TypeRest, LocalsOK, NEW r \in Requests, ChangeSave(r)
    PROVE  TypeRest' /\ LocalsOK'
<1> DEFINE q == [req[r] EXCEPT !.pc = "codesFind"]
           u == req[r].user
<1>0. /\ req[r] \in Request /\ Locals(req[r], Rows) /\ req[r].pc = "changeSave"
      /\ u \in Rows /\ user[u] \in UserRow /\ req[r].code \in Codes
  BY LocalsNow DEF ChangeSave, Locals, TypeRest, Rows
<1>1. user' \in [Users -> UserRow \cup {None}]
  <2>1. [user[u] EXCEPT !.pwd = @ + 1] \in UserRow
    BY <1>0, StoreAssumption DEF ChangeSave, UserRow, Passwords
  <2> QED
    BY <2>1 DEF ChangeSave, TypeRest
<1>2. Rows' = Rows
  <2>1. [user[u] EXCEPT !.pwd = @ + 1] # None
    BY <1>0, StoreAssumption DEF ChangeSave, UserRow, Passwords
  <2> QED
    BY <1>0, <2>1 DEF ChangeSave, Rows, TypeRest
<1>3. q \in Request
  BY <1>0 DEF Request, Steps
<1>4. Locals(q, Rows')
  BY <1>0, <1>2 DEF Locals, Request, Rows
<1>5. req' \in [Requests -> Request] /\ LocalsOK'
  BY <1>2, <1>3, <1>4, BecomesType DEF Becomes, ChangeSave, Goto
<1>6. spent' \in [Codes -> Uses]
  <2>1. spent' = [spent EXCEPT ![req[r].code] = [spent[req[r].code] EXCEPT !.made = @ + 1]]
    BY <1>0 DEF ChangeSave, TypeRest
  <2>2. [spent[req[r].code] EXCEPT !.made = @ + 1] \in Uses
    BY <1>0 DEF TypeRest, Uses
  <2> QED
    BY <2>1, <2>2 DEF TypeRest
<1> QED
  BY <1>1, <1>5, <1>6 DEF ChangeSave, TypeRest, background

LEMMA CodesFindType ==
    ASSUME TypeRest, LocalsOK, NEW r \in Requests, CodesFind(r)
    PROVE  TypeRest' /\ LocalsOK'
<1>0. /\ req[r] \in Request /\ Locals(req[r], Rows) /\ Rows' = Rows
      /\ req[r].pc = "codesFind"
  BY LocalsNow DEF CodesFind, Rows, tables
<1>1. CASE Refuse(r)
  BY <1>1, FinishBecomes, OnlyRequest DEF CodesFind, Refuse
<1>2. CASE req' = [req EXCEPT ![r].pc = "codesDelete", ![r].found = CodesToRemove(r)]
  <2> DEFINE q == [req[r] EXCEPT !.pc = "codesDelete", !.found = CodesToRemove(r)]
  <2>1. CodesToRemove(r) \subseteq Codes
    BY DEF CodesToRemove, CodesOf
  <2>2. q \in Request
    BY <1>0, <1>2, <2>1 DEF Request, Steps
  <2>3. Locals(q, Rows')
    BY <1>0, <1>2, <2>1 DEF Locals, Request
  <2>4. Becomes(r, q)
    BY <1>2, <2>2, <2>3 DEF Becomes
  <2> QED
    BY <2>4, OnlyRequest DEF CodesFind
<1> QED
  BY <1>1, <1>2 DEF CodesFind

LEMMA CodesDeleteType ==
    ASSUME TypeRest, LocalsOK, NEW r \in Requests, CodesDelete(r)
    PROVE  TypeRest' /\ LocalsOK'
<1>0. req[r] \in Request /\ Locals(req[r], Rows) /\ Rows' = Rows /\ req[r].pc = "codesDelete"
  BY LocalsNow DEF CodesDelete, Rows
<1>1. PICK c \in req[r].found \cap Codes :
          /\ recovery' = [recovery EXCEPT ![c] = None]
          /\ IF req[r].found # {c}
             THEN req' = [req EXCEPT ![r].found = @ \ {c}]
             ELSE req' = [req EXCEPT ![r].found = {}, ![r].pc = "codeMark"]
  BY DEF CodesDelete
<1>2. CASE req' = [req EXCEPT ![r].found = @ \ {c}]
  <2> DEFINE q == [req[r] EXCEPT !.found = @ \ {c}]
  <2>1. q \in Request
    BY <1>0 DEF Request
  <2>2. Locals(q, Rows')
    BY <1>0 DEF Locals, Request
  <2>3. req' \in [Requests -> Request] /\ LocalsOK'
    BY <1>0, <1>2, <2>1, <2>2, BecomesType DEF Becomes
  <2> QED
    BY <1>1, <2>3 DEF CodesDelete, TypeRest, background
<1>3. CASE req' = [req EXCEPT ![r].found = {}, ![r].pc = "codeMark"]
  <2> DEFINE q == [req[r] EXCEPT !.found = {}, !.pc = "codeMark"]
  <2>1. q \in Request
    BY <1>0 DEF Request, Steps
  <2>2. Locals(q, Rows')
    BY <1>0 DEF Locals, Request
  <2>3. req' \in [Requests -> Request] /\ LocalsOK'
    BY <1>0, <1>3, <2>1, <2>2, BecomesType DEF Becomes
  <2> QED
    BY <1>1, <2>3 DEF CodesDelete, TypeRest, background
<1> QED
  BY <1>1, <1>2, <1>3

LEMMA CodeMarkType ==
    ASSUME TypeRest, LocalsOK, NEW r \in Requests, CodeMark(r)
    PROVE  TypeRest' /\ LocalsOK'
<1>0. Rows' = Rows /\ req[r].code \in Codes
  BY LocalsNow DEF CodeMark, Rows, Locals
<1>1. req' \in [Requests -> Request] /\ LocalsOK'
  BY <1>0, FinishBecomes, BecomesType DEF CodeMark
<1>2. Marked(r) \in RecoveryRow \cup {None}
  BY <1>0 DEF Marked, TypeRest, RecoveryRow
<1> QED
  BY <1>1, <1>2 DEF CodeMark, TypeRest, background

LEMMA CheckCurrentPasswordType ==
    ASSUME TypeRest, LocalsOK, NEW r \in Requests, CheckCurrentPassword(r)
    PROVE  TypeRest' /\ LocalsOK'
BY FinishBecomes, OnlyRequest DEF CheckCurrentPassword, Refuse, Fail

LEMMA RecoveryStepType ==
    ASSUME TypeRest, LocalsOK, NEW r \in Requests, RecoveryStep(r)
    PROVE  TypeRest' /\ LocalsOK'
BY RecoverFindType, RecoverCountType, RecoverInsertType, ChangeFindType, ChangeUserType,
   ChangeSaveType, CodesFindType, CodesDeleteType, CodeMarkType, CheckCurrentPasswordType
DEF RecoveryStep

LEMMA RecoveryBackgroundType ==
    ASSUME TypeRest, LocalsOK, RecoveryBackground
    PROVE  TypeRest' /\ LocalsOK'
<1>1. ASSUME UNCHANGED <<user, req>> PROVE LocalsOK'
  BY <1>1 DEF LocalsOK, Rows
<1>2. CASE CleanCodes
  BY <1>1, <1>2 DEF CleanCodes, TypeRest, tables
<1>3. ASSUME NEW c \in Codes, RemoveCode(c) PROVE TypeRest' /\ LocalsOK'
  BY <1>1, <1>3 DEF RemoveCode, TypeRest
<1>4. ASSUME NEW c \in Codes, RemoveCodeFails(c) PROVE TypeRest' /\ LocalsOK'
  BY <1>1, <1>4 DEF RemoveCodeFails, TypeRest, tables
<1> QED
  BY <1>2, <1>3, <1>4 DEF RecoveryBackground

(***************************************************************************)
(* Types: user records.                                                    *)
(***************************************************************************)

LEMMA CreateFindType ==
    ASSUME TypeRest, LocalsOK, NEW r \in Requests, CreateFind(r)
    PROVE  TypeRest' /\ LocalsOK'
<1>0. /\ req[r] \in Request /\ Locals(req[r], Rows) /\ Rows' = Rows
      /\ req[r].pc = "handler"
  BY LocalsNow DEF CreateFind, Rows, tables
<1>1. CASE Refuse(r)
  BY <1>1, FinishBecomes, OnlyRequest DEF CreateFind, Refuse
<1>2. ASSUME NEW e \in Emails, NEW s \in Statuses,
             req' = [req EXCEPT ![r].pc = "createInsert", ![r].email = e, ![r].status = s]
      PROVE  TypeRest' /\ LocalsOK'
  <2> DEFINE q == [req[r] EXCEPT !.pc = "createInsert", !.email = e, !.status = s]
  <2>1. q \in Request
    BY <1>0, <1>2 DEF Request, Steps
  <2>2. Locals(q, Rows')
    BY <1>0, <1>2 DEF Locals, Request
  <2>3. Becomes(r, q)
    BY <1>2, <2>1, <2>2 DEF Becomes
  <2> QED
    BY <2>3, OnlyRequest DEF CreateFind
<1> QED
  BY <1>1, <1>2 DEF CreateFind

\* A step that changes no table but user and link, and ends its request.
LEMMA UserAndFinish ==
    ASSUME TypeRest, LocalsOK, NEW r \in Requests, Finish(r), Rows \subseteq Rows',
           user' \in [Users -> UserRow \cup {None}], link' \subseteq Link,
           UNCHANGED <<clock, token, recovery, issued, background, spent>>
    PROVE  TypeRest' /\ LocalsOK'
<1>1. req' \in [Requests -> Request] /\ LocalsOK'
  BY FinishBecomes, BecomesType
<1> QED
  BY <1>1 DEF TypeRest, background

\* The same when one row of the table user is replaced.
LEMMA RowAndFinish ==
    ASSUME TypeRest, LocalsOK, NEW r \in Requests, Finish(r),
           NEW u \in Users, NEW w \in UserRow, user' = [user EXCEPT ![u] = w],
           link' \subseteq Link,
           UNCHANGED <<clock, token, recovery, issued, background, spent>>
    PROVE  TypeRest' /\ LocalsOK'
<1>1. user' \in [Users -> UserRow \cup {None}]
  BY DEF TypeRest
<1>2. Rows \subseteq Rows'
  BY StoreAssumption DEF TypeRest, Rows
<1> QED
  BY <1>1, <1>2, UserAndFinish

LEMMA CreateInsertType ==
    ASSUME TypeRest, LocalsOK, NEW r \in Requests, CreateInsert(r)
    PROVE  TypeRest' /\ LocalsOK'
<1>0. req[r].email \in Emails /\ req[r].status \in Statuses /\ Finish(r)
  BY LocalsNow DEF CreateInsert, Locals, Fail
<1>1. CASE UNCHANGED <<user, link>>
  BY <1>0, <1>1, UserAndFinish DEF CreateInsert, TypeRest, Rows
<1>2. ASSUME NEW u \in Users,
             user' = [user EXCEPT ![u] = [status |-> req[r].status, deleted |-> FALSE,
                                          email |-> req[r].email, pwd |-> 0]],
             link' = IF req[r].status = "pending"
                     THEN link \cup {[user |-> u, email |-> req[r].email, new |-> None]}
                     ELSE link
      PROVE  TypeRest' /\ LocalsOK'
  <2>1. [status |-> req[r].status, deleted |-> FALSE, email |-> req[r].email, pwd |-> 0]
           \in UserRow
    BY <1>0, StoreAssumption DEF UserRow, Passwords
  <2>2. link' \subseteq Link
    BY <1>0, <1>2 DEF Link, TypeRest
  <2> QED
    BY <1>0, <1>2, <2>1, <2>2, RowAndFinish DEF CreateInsert
<1> QED
  BY <1>1, <1>2 DEF CreateInsert

LEMMA ConfirmSendType ==
    ASSUME TypeRest, LocalsOK, NEW r \in Requests, ConfirmSend(r)
    PROVE  TypeRest' /\ LocalsOK'
<1>1. Finish(r)
  BY DEF ConfirmSend, Refuse
<1>2. link' \subseteq Link
  BY DEF ConfirmSend, TypeRest, Link, Visible, UserRow
<1> QED
  BY <1>1, <1>2, UserAndFinish DEF ConfirmSend, TypeRest, Rows

LEMMA EmailUpdateFindType ==
    ASSUME TypeRest, LocalsOK, NEW r \in Requests, EmailUpdateFind(r)
    PROVE  TypeRest' /\ LocalsOK'
<1>0. /\ req[r] \in Request /\ Locals(req[r], Rows) /\ Rows' = Rows
      /\ req[r].pc = "handler"
  BY LocalsNow DEF EmailUpdateFind, At, Rows, tables
<1>1. CASE Refuse(r)
  BY <1>1, FinishBecomes, OnlyRequest DEF EmailUpdateFind, Refuse
<1>2. ASSUME NEW e \in Emails, req[r].auth # None,
             req' = [req EXCEPT ![r].pc = "emailUpdateUser", ![r].email = e]
      PROVE  TypeRest' /\ LocalsOK'
  <2> DEFINE q == [req[r] EXCEPT !.pc = "emailUpdateUser", !.email = e]
  <2>1. q \in Request
    BY <1>0, <1>2 DEF Request, Steps
  <2>2. Locals(q, Rows')
    BY <1>0, <1>2 DEF Locals, Request
  <2>3. Becomes(r, q)
    BY <1>2, <2>1, <2>2 DEF Becomes
  <2> QED
    BY <2>3, OnlyRequest DEF EmailUpdateFind
<1> QED
  BY <1>1, <1>2 DEF EmailUpdateFind

LEMMA EmailUpdateUserType ==
    ASSUME TypeRest, LocalsOK, NEW r \in Requests, EmailUpdateUser(r)
    PROVE  TypeRest' /\ LocalsOK'
<1>0. req[r].email \in Emails /\ req[r].auth \in Users
  BY LocalsNow DEF EmailUpdateUser, Locals
<1>1. Finish(r)
  BY DEF EmailUpdateUser, Refuse
<1>2. link' \subseteq Link
  BY <1>0 DEF EmailUpdateUser, TypeRest, Link, Visible, UserRow
<1> QED
  BY <1>1, <1>2, UserAndFinish DEF EmailUpdateUser, TypeRest, Rows

LEMMA ConfirmFindType ==
    ASSUME TypeRest, LocalsOK, NEW r \in Requests, ConfirmFind(r)
    PROVE  TypeRest' /\ LocalsOK'
<1>0. /\ req[r] \in Request /\ Locals(req[r], Rows) /\ Rows' = Rows
      /\ req[r].pc = "handler"
  BY LocalsNow DEF ConfirmFind, At, Rows, tables
<1>1. CASE Refuse(r)
  BY <1>1, FinishBecomes, OnlyRequest DEF ConfirmFind, Refuse
<1>2. ASSUME NEW l \in link, Redeemable(l),
             req' = 
          [req EXCEPT ![r].pc = "confirmSave", ![r].user = l.user, ![r].email = l.new]
      PROVE  TypeRest' /\ LocalsOK'
  <2> DEFINE q == [req[r] EXCEPT !.pc = "confirmSave", !.user = l.user, !.email = l.new]
  <2>1. l.user \in Users /\ l.user \in Rows /\ l.new \in Emails \cup {None}
    BY <1>2 DEF Redeemable, Visible, TypeRest, Link, Rows
  <2>2. q \in Request
    BY <1>0, <1>2, <2>1 DEF Request, Steps
  <2>3. Locals(q, Rows')
    BY <1>0, <1>2, <2>1 DEF Locals, Request
  <2>4. Becomes(r, q)
    BY <1>2, <2>2, <2>3 DEF Becomes
  <2> QED
    BY <2>4, OnlyRequest DEF ConfirmFind
<1> QED
  BY <1>1, <1>2 DEF ConfirmFind

LEMMA ConfirmSaveType ==
    ASSUME TypeRest, LocalsOK, NEW r \in Requests, ConfirmSave(r)
    PROVE  TypeRest' /\ LocalsOK'
<1> DEFINE u == req[r].user  e == req[r].email
<1>0. /\ u \in Users /\ user[u] \in UserRow /\ e \in Emails \cup {None}
      /\ Finish(r) /\ link' \subseteq Link
  BY LocalsNow DEF ConfirmSave, Locals, Fail, TypeRest, Rows, Request
<1>1. CASE UNCHANGED user
  BY <1>0, <1>1, UserAndFinish DEF ConfirmSave, TypeRest, Rows
<1>2. CASE e # None /\ user' = [user EXCEPT ![u].email = e]
  <2>1. [user[u] EXCEPT !.email = e] \in UserRow
    BY <1>0, <1>2 DEF UserRow
  <2>2. user' = [user EXCEPT ![u] = [user[u] EXCEPT !.email = e]]
    BY <1>2
  <2> QED
    BY <1>0, <2>1, <2>2, RowAndFinish DEF ConfirmSave
<1>3. CASE user' = [user EXCEPT ![u].status = "active"]
  <2>1. [user[u] EXCEPT !.status = "active"] \in UserRow
    BY <1>0 DEF UserRow, Statuses
  <2>2. user' = [user EXCEPT ![u] = [user[u] EXCEPT !.status = "active"]]
    BY <1>3
  <2> QED
    BY <1>0, <2>1, <2>2, RowAndFinish DEF ConfirmSave
<1> QED
  BY <1>1, <1>2, <1>3 DEF ConfirmSave

LEMMA UpdateFindType ==
    ASSUME TypeRest, LocalsOK, NEW r \in Requests, UpdateFind(r)
    PROVE  TypeRest' /\ LocalsOK'
<1>0. /\ req[r] \in Request /\ Locals(req[r], Rows) /\ Rows' = Rows
      /\ req[r].pc = "handler" /\ req[r].op = "update"
  BY LocalsNow DEF UpdateFind, At, Rows, tables
<1>1. CASE Refuse(r)
  BY <1>1, FinishBecomes, OnlyRequest DEF UpdateFind, Refuse
<1>2. ASSUME NEW u \in Users, NEW e \in Emails \cup {None}, NEW p \in BOOLEAN,
             user[u] # None,
             req' = 
          [req EXCEPT ![r].pc = "updateEmail", ![r].user = u, ![r].row = user[u], ![r].email = e, ![r].newPwd = p]
      PROVE  TypeRest' /\ LocalsOK'
  <2> DEFINE q == [req[r] EXCEPT !.pc = "updateEmail", !.user = u, !.row = user[u], !.email = e, !.newPwd = p]
  <2>1. u \in Rows /\ user[u] \in UserRow
    BY <1>2 DEF Rows, TypeRest
  <2>2. q \in Request
    BY <1>0, <1>2, <2>1 DEF Request, Steps
  <2>3. Locals(q, Rows')
    BY <1>0, <1>2, <2>1 DEF Locals, Request
  <2>4. Becomes(r, q)
    BY <1>2, <2>2, <2>3 DEF Becomes
  <2> QED
    BY <2>4, OnlyRequest DEF UpdateFind
<1> QED
  BY <1>1, <1>2 DEF UpdateFind

LEMMA UpdateEmailType ==
    ASSUME TypeRest, LocalsOK, NEW r \in Requests, UpdateEmail(r)
    PROVE  TypeRest' /\ LocalsOK'
<1>0. /\ req[r] \in Request /\ Locals(req[r], Rows) /\ Rows' = Rows
      /\ req[r].pc = "updateEmail"
  BY LocalsNow DEF UpdateEmail, Rows, tables
<1>1. CASE Refuse(r)
  BY <1>1, FinishBecomes, OnlyRequest DEF UpdateEmail, Refuse
<1>2. CASE Goto(r, "tokenFind")
  <2> DEFINE q == [req[r] EXCEPT !.pc = "tokenFind"]
  <2>1. q \in Request
    BY <1>0, <1>2 DEF Request, Steps
  <2>2. Locals(q, Rows')
    BY <1>0, <1>2 DEF Locals, Request
  <2>3. Becomes(r, q)
    BY <1>2, <2>1, <2>2 DEF Becomes, Goto
  <2> QED
    BY <2>3, OnlyRequest DEF UpdateEmail
<1>3. CASE Goto(r, "updateSave")
  <2> DEFINE q == [req[r] EXCEPT !.pc = "updateSave"]
  <2>1. q \in Request
    BY <1>0, <1>3 DEF Request, Steps
  <2>2. Locals(q, Rows')
    BY <1>0, <1>3 DEF Locals, Request
  <2>3. Becomes(r, q)
    BY <1>3, <2>1, <2>2 DEF Becomes, Goto
  <2> QED
    BY <2>3, OnlyRequest DEF UpdateEmail
<1> QED
  BY <1>1, <1>2, <1>3 DEF UpdateEmail

LEMMA UpdateSaveType ==
    ASSUME TypeRest, LocalsOK, NEW r \in Requests, UpdateSave(r)
    PROVE  TypeRest' /\ LocalsOK'
<1> DEFINE u == req[r].user
<1>0. /\ u \in Users /\ user[u] \in UserRow /\ req[r].email \in Emails \cup {None}
      /\ Finish(r) /\ link' \subseteq Link
  BY LocalsNow DEF UpdateSave, Locals, Fail, TypeRest, Rows, Request
<1>1. CASE UNCHANGED user
  BY <1>0, <1>1, UserAndFinish DEF UpdateSave, TypeRest, Rows
<1>2. CASE /\ req[r].newPwd => user[u].pwd < MaxPassword
           /\ user' = [user EXCEPT ![u].email = SavedEmail(r),
                                   ![u].pwd = IF req[r].newPwd THEN @ + 1 ELSE @]
  <2> DEFINE w == [user[u] EXCEPT !.email = SavedEmail(r),
                                  !.pwd = IF req[r].newPwd THEN @ + 1 ELSE @]
  <2>1. SavedEmail(r) \in Emails
    BY <1>0 DEF SavedEmail, UserRow
  <2>2. w \in UserRow
    <3>1. (IF req[r].newPwd THEN user[u].pwd + 1 ELSE user[u].pwd) \in Passwords
      BY <1>0, <1>2, StoreAssumption DEF UserRow, Passwords
    <3> QED
      BY <1>0, <2>1, <3>1 DEF UserRow
  <2>3. user' = [user EXCEPT ![u] = w]
    BY <1>2
  <2> QED
    BY <1>0, <2>2, <2>3, RowAndFinish DEF UpdateSave
<1> QED
  BY <1>1, <1>2 DEF UpdateSave

LEMMA StatusFindType ==
    ASSUME TypeRest, LocalsOK, NEW r \in Requests, StatusFind(r)
    PROVE  TypeRest' /\ LocalsOK'
<1>0. /\ req[r] \in Request /\ Locals(req[r], Rows) /\ Rows' = Rows
      /\ req[r].pc = "handler"
  BY LocalsNow DEF StatusFind, At, Rows, tables
<1>1. CASE Refuse(r)
  BY <1>1, FinishBecomes, OnlyRequest DEF StatusFind, Refuse
<1>2. ASSUME NEW u \in Users, NEW s \in {"active", "inactive"}, user[u] # None,
             req' = 
          [req EXCEPT ![r].pc = "snapshotSave", ![r].user = u, ![r].row = [user[u] EXCEPT !.status = s]]
      PROVE  TypeRest' /\ LocalsOK'
  <2> DEFINE q == [req[r] EXCEPT !.pc = "snapshotSave", !.user = u, !.row = [user[u] EXCEPT !.status = s]]
  <2>1. u \in Rows /\ [user[u] EXCEPT !.status = s] \in UserRow
    BY <1>2 DEF Rows, TypeRest, UserRow, Statuses
  <2>2. q \in Request
    BY <1>0, <1>2, <2>1 DEF Request, Steps
  <2>3. Locals(q, Rows')
    BY <1>0, <1>2, <2>1 DEF Locals, Request
  <2>4. Becomes(r, q)
    BY <1>2, <2>2, <2>3 DEF Becomes
  <2> QED
    BY <2>4, OnlyRequest DEF StatusFind
<1> QED
  BY <1>1, <1>2 DEF StatusFind

LEMMA RestoreFindType ==
    ASSUME TypeRest, LocalsOK, NEW r \in Requests, RestoreFind(r)
    PROVE  TypeRest' /\ LocalsOK'
<1>0. /\ req[r] \in Request /\ Locals(req[r], Rows) /\ Rows' = Rows
      /\ req[r].pc = "handler"
  BY LocalsNow DEF RestoreFind, At, Rows, tables
<1>1. CASE Refuse(r)
  BY <1>1, FinishBecomes, OnlyRequest DEF RestoreFind, Refuse
<1>2. ASSUME NEW u \in Users, user[u] # None,
             req' = 
          [req EXCEPT ![r].pc = "snapshotSave", ![r].user = u, ![r].row = [user[u] EXCEPT !.deleted = FALSE]]
      PROVE  TypeRest' /\ LocalsOK'
  <2> DEFINE q == [req[r] EXCEPT !.pc = "snapshotSave", !.user = u, !.row = [user[u] EXCEPT !.deleted = FALSE]]
  <2>1. u \in Rows /\ [user[u] EXCEPT !.deleted = FALSE] \in UserRow
    BY <1>2 DEF Rows, TypeRest, UserRow
  <2>2. q \in Request
    BY <1>0, <1>2, <2>1 DEF Request, Steps
  <2>3. Locals(q, Rows')
    BY <1>0, <1>2, <2>1 DEF Locals, Request
  <2>4. Becomes(r, q)
    BY <1>2, <2>2, <2>3 DEF Becomes
  <2> QED
    BY <2>4, OnlyRequest DEF RestoreFind
<1> QED
  BY <1>1, <1>2 DEF RestoreFind

LEMMA SnapshotSaveType ==
    ASSUME TypeRest, LocalsOK, NEW r \in Requests, SnapshotSave(r)
    PROVE  TypeRest' /\ LocalsOK'
<1> DEFINE u == req[r].user
<1>0. /\ u \in Users /\ user[u] \in UserRow /\ req[r].row \in UserRow
      /\ Finish(r) /\ link' \subseteq Link
  BY LocalsNow DEF SnapshotSave, Locals, Fail, TypeRest, Rows
<1>1. CASE UNCHANGED user
  BY <1>0, <1>1, UserAndFinish DEF SnapshotSave, TypeRest, Rows
<1>2. CASE user' = [user EXCEPT ![u] = Rewritten(r)]
  <2>1. Rewritten(r) \in UserRow
    BY <1>0 DEF Rewritten, UserRow
  <2> QED
    BY <1>0, <1>2, <2>1, RowAndFinish DEF SnapshotSave
<1> QED
  BY <1>1, <1>2 DEF SnapshotSave

LEMMA DeleteFindType ==
    ASSUME TypeRest, LocalsOK, NEW r \in Requests, DeleteFind(r)
    PROVE  TypeRest' /\ LocalsOK'
<1>0. /\ req[r] \in Request /\ Locals(req[r], Rows) /\ Rows' = Rows
      /\ req[r].pc = "handler"
  BY LocalsNow DEF DeleteFind, At, Rows, tables
<1>1. CASE Refuse(r)
  BY <1>1, FinishBecomes, OnlyRequest DEF DeleteFind, Refuse
<1>2. ASSUME NEW u \in Users, Visible(u),
             req' = [req EXCEPT ![r].pc = "softDelete", ![r].user = u]
      PROVE  TypeRest' /\ LocalsOK'
  <2> DEFINE q == [req[r] EXCEPT !.pc = "softDelete", !.user = u]
  <2>1. u \in Rows
    BY <1>2 DEF Rows, Visible
  <2>2. q \in Request
    BY <1>0, <1>2, <2>1 DEF Request, Steps
  <2>3. Locals(q, Rows')
    BY <1>0, <1>2, <2>1 DEF Locals, Request
  <2>4. Becomes(r, q)
    BY <1>2, <2>2, <2>3 DEF Becomes
  <2> QED
    BY <2>4, OnlyRequest DEF DeleteFind
<1> QED
  BY <1>1, <1>2 DEF DeleteFind

LEMMA SoftDeleteType ==
    ASSUME TypeRest, LocalsOK, NEW r \in Requests, SoftDelete(r)
    PROVE  TypeRest' /\ LocalsOK'
<1> DEFINE u == req[r].user
<1>0. u \in Users /\ user[u] \in UserRow /\ link' \subseteq Link
  BY LocalsNow DEF SoftDelete, Locals, TypeRest, Rows
<1>1. [user[u] EXCEPT !.deleted = TRUE] \in UserRow
  BY <1>0 DEF UserRow
<1>2. user' = [user EXCEPT ![u] = [user[u] EXCEPT !.deleted = TRUE]]
  BY DEF SoftDelete
<1> QED
  BY <1>0, <1>1, <1>2, RowAndFinish DEF SoftDelete

LEMMA UserStepType ==
    ASSUME TypeRest, LocalsOK, NEW r \in Requests, UserStep(r)
    PROVE  TypeRest' /\ LocalsOK'
BY CreateFindType, CreateInsertType, ConfirmSendType, EmailUpdateFindType,
   EmailUpdateUserType, ConfirmFindType, ConfirmSaveType, UpdateFindType, UpdateEmailType,
   UpdateSaveType, StatusFindType, RestoreFindType, SnapshotSaveType, DeleteFindType,
   SoftDeleteType
DEF UserStep

(***************************************************************************)
(* Types: the whole.                                                       *)
(***************************************************************************)

LEMMA TickType ==
    ASSUME TypeRest, LocalsOK, Tick
    PROVE  TypeRest' /\ LocalsOK'
<1>1. LocalsOK'
  BY DEF Tick, LocalsOK, Rows, tables
<1>2. clock' \in Time
  BY StoreAssumption DEF Tick, TypeRest, Time
<1> QED
  BY <1>1, <1>2 DEF Tick, TypeRest, tables, background

LEMMA BreakType ==
    ASSUME TypeRest, LocalsOK, NEW r \in Requests, Break(r)
    PROVE  TypeRest' /\ LocalsOK'
<1>1. req' \in [Requests -> Request] /\ LocalsOK'
  BY FinishBecomes, BecomesType DEF Break, Fail, Rows, tables
<1>2. spent' \in [Codes -> Uses]
  <2>1. CASE LeavesCode(r)
    <3>1. req[r].code \in Codes
      BY <2>1 DEF LeavesCode, LocalsOK, Locals
    <3>2. spent' = [spent EXCEPT ![req[r].code] = [spent[req[r].code] EXCEPT !.cut = @ + 1]]
      BY <2>1, <3>1 DEF Break, TypeRest
    <3>3. [spent[req[r].code] EXCEPT !.cut = @ + 1] \in Uses
      BY <3>1 DEF TypeRest, Uses
    <3> QED
      BY <3>2, <3>3 DEF TypeRest
  <2>2. CASE ~LeavesCode(r)
    BY <2>2 DEF Break, TypeRest
  <2> QED
    BY <2>1, <2>2
<1> QED
  BY <1>1, <1>2 DEF Break, TypeRest, tables, background

LEMMA StepType ==
    ASSUME TypeRest, LocalsOK, Step
    PROVE  TypeRest' /\ LocalsOK'
BY TickType, BreakType, SessionStepType, RecoveryStepType, UserStepType, SessionBackgroundType,
   RecoveryBackgroundType
DEF Step

LEMMA InitType == Init => TypeOK
<1> SUFFICES ASSUME Init PROVE TypeOK
  OBVIOUS
<1>1. user \in [Users -> UserRow \cup {None}]
  <2>1. ASSUME NEW s \in Statuses, NEW e \in Emails
        PROVE  [status |-> s, deleted |-> FALSE, email |-> e, pwd |-> 0] \in UserRow
    BY StoreAssumption DEF UserRow, Passwords
  <2> DEFINE New == {[status |-> s, deleted |-> FALSE, email |-> e, pwd |-> 0] :
                        s \in Statuses, e \in Emails}
  <2>2. New \subseteq UserRow
    BY <2>1
  <2> HIDE DEF New
  <2>3. user \in [Users -> New \cup {None}]
    BY DEF Init, New
  <2> QED
    BY <2>2, <2>3
<1>2. Idle \in Request
  BY FreshIsRequest DEF Idle, Steps
<1>3. TypeRest
  BY <1>1, <1>2, StoreAssumption DEF Init, TypeRest, Time, Phases, Uses
<1>4. LocalsOK
  BY DEF Init, LocalsOK, Locals, Idle, Fresh
<1> QED
  BY <1>3, <1>4 DEF Init, TypeOK

\* TypeOK, with the locals, is inductive.
LEMMA NextType == TypeOK /\ [Next]_vars => TypeOK'
<1> SUFFICES ASSUME TypeOK, [Next]_vars PROVE TypeOK'
  OBVIOUS
<1>1. CASE Next
  <2>1. TypeRest' /\ LocalsOK'
    BY <1>1, StepType DEF Next, TypeOK
  <2>2. seen' \in [Requests -> SUBSET (Standing \cup Idents)]
    <3>1. \A r \in Requests : req'[r].ident \in Idents \cup {None}
      BY <2>1 DEF TypeRest, Request
    <3>2. Good' \subseteq Standing \cup Idents
      BY DEF Good
    <3> QED
      BY <1>1, <3>1, <3>2 DEF Next, Remember, TypeOK
  <2> QED
    BY <2>1, <2>2 DEF TypeOK
<1>2. CASE UNCHANGED vars
  BY <1>2 DEF vars, TypeOK, TypeRest, LocalsOK, Rows
<1> QED
  BY <1>1, <1>2

\* In every reachable state every table, every background set and every request
\* has its type, and a request finds set whatever local its next step uses:
\* the handlers of account.controller.ts never use a row they did not read.
THEOREM TypeCorrect == Spec => []TypeOK
<1>1. Init => TypeOK
  BY InitType
<1>2. TypeOK /\ [Next]_vars => TypeOK'
  BY NextType
<1> QED
  BY <1>1, <1>2, PTL DEF Spec

(***************************************************************************)
(* Where a step takes its request, and what it leaves alone.               *)
(***************************************************************************)

\* Only the request in slot r moves, to one of the steps in S.
Moves(r, S) ==
    /\ req'[r].pc \in S
    /\ req'[r].pc = "idle" => req'[r] = Idle
    /\ \A s \in Requests \ {r} : req'[s] = req[s]

\* It is signed in as it was, or not any more.
KeepsAuth(r) == req'[r].auth \in {None, req[r].auth}

LEMMA FinishMoves ==
    ASSUME TypeOK, NEW r \in Requests, Finish(r)
    PROVE  Moves(r, {"idle"}) /\ KeepsAuth(r)
<1>1. Idle.pc = "idle" /\ Idle.auth = None
  BY DEF Idle, Fresh
<1>2. req'[r] = Idle /\ \A s \in Requests \ {r} : req'[s] = req[s]
  BY DEF Finish, TypeOK, TypeRest
<1> QED
  BY <1>1, <1>2 DEF Moves, KeepsAuth

LEMMA GotoMoves ==
    ASSUME TypeOK, NEW r \in Requests, NEW pc, pc # "idle", Goto(r, pc)
    PROVE  Moves(r, {pc}) /\ KeepsAuth(r)
BY DEF Goto, Moves, KeepsAuth, TypeOK, TypeRest, Request

LEMMA FreshMoves ==
    ASSUME TypeOK, NEW r \in Requests, NEW op, NEW i, NEW pc, pc # "idle",
           req' = [req EXCEPT ![r] = Fresh(op, i, pc)]
    PROVE  Moves(r, {pc}) /\ KeepsAuth(r)
<1>1. Fresh(op, i, pc).pc = pc /\ Fresh(op, i, pc).auth = None
  BY DEF Fresh
<1>2. req'[r] = Fresh(op, i, pc) /\ \A s \in Requests \ {r} : req'[s] = req[s]
  BY DEF TypeOK, TypeRest
<1> QED
  BY <1>1, <1>2 DEF Moves, KeepsAuth

LEMMA SessionMoves ==
    ASSUME TypeOK, NEW r \in Requests, SessionStep(r)
    PROVE  /\ Moves(r, {"idle", "authToken", "authUser", "authTouch", "handler",
                        "loginCount", "loginInsert", "tokenFind", "tokenDelete",
                        "updateSave"})
           /\ UNCHANGED <<clock, user, recovery, link, removing, expunging, process, spent>>
           /\ KeepsAuth(r) \/ AuthTouch(r)
           /\ \/ Moves(r, {"idle", "authToken", "handler", "tokenFind", "tokenDelete",
                           "updateSave"})
              \/ AuthToken(r) \/ AuthUser(r) \/ AuthTouch(r) \/ LoginFind(r) \/ LoginCount(r)
<1>0. req \in [Requests -> Request] /\ req[r] \in Request
  BY DEF TypeOK, TypeRest
<1>1. CASE Arrive(r)
  <2>1. PICK op \in Ops, i \in (issued \cap Idents) \cup {None} :
           req' = [req EXCEPT ![r] =
                       Fresh(op, i, IF i = None THEN "handler" ELSE "authToken")]
    BY <1>1 DEF Arrive
  <2>2. PICK pc \in {"handler", "authToken"} :
           req' = [req EXCEPT ![r] = Fresh(op, i, pc)]
    BY <2>1
  <2>3. Moves(r, {pc}) /\ KeepsAuth(r)
    BY <2>2, FreshMoves
  <2> QED
    BY <1>1, <2>3 DEF Arrive, tables, background, Moves
<1>2. CASE AuthToken(r)
  BY <1>2, <1>0, FreshMoves DEF AuthToken, tables, background, Moves, KeepsAuth, AsVisitor,
     Request
<1>3. CASE AuthUser(r)
  BY <1>3, FreshMoves, GotoMoves DEF AuthUser, tables, background, Moves, AsVisitor
<1>4. CASE AuthTouch(r)
  BY <1>4, <1>0 DEF AuthTouch, tables, background, Moves, Fresh
<1>5. CASE LoginFind(r)
  <2>1. CASE Finish(r)
    BY <1>5, <2>1, FinishMoves DEF Moves, LoginFind, tables, background
  <2>2. CASE ~Finish(r)
    <3>1. PICK u \in Users :
             req' = [req EXCEPT ![r].pc = "loginCount",
                            ![r].user = u,
                            ![r].row = user[u]]
      BY <1>5, <2>2, Zenon DEF LoginFind, Refuse
    <3>2. Moves(r, {"loginCount"}) /\ KeepsAuth(r)
      BY <1>0, <3>1 DEF Moves, KeepsAuth, Request
    <3> QED
      BY <1>5, <3>2 DEF Moves, LoginFind, tables, background
  <2> QED
    BY <2>1, <2>2
<1>6. CASE LoginCount(r)
  BY <1>6, FinishMoves, GotoMoves DEF LoginCount, tables, background, Moves, Refuse
<1>7. CASE LoginInsert(r)
  BY <1>7, FinishMoves DEF LoginInsert, tables, background, Moves
<1>8. CASE LogoutFind(r)
  BY <1>8, FinishMoves, GotoMoves DEF LogoutFind, tables, background, Moves, Refuse
<1>9. CASE RemoveTokenStart(r)
  <2>1. CASE Finish(r)
    BY <1>9, <2>1, FinishMoves DEF Moves, RemoveTokenStart, tables, background
  <2>2. CASE ~Finish(r)
    <3>1. PICK i \in issued \cap Idents :
             req' = [req EXCEPT ![r].pc = "tokenFind",
                            ![r].ident = i]
      BY <1>9, <2>2, Zenon DEF RemoveTokenStart, Refuse
    <3>2. Moves(r, {"tokenFind"}) /\ KeepsAuth(r)
      BY <1>0, <3>1 DEF Moves, KeepsAuth, Request
    <3> QED
      BY <1>9, <3>2 DEF Moves, RemoveTokenStart, tables, background
  <2> QED
    BY <2>1, <2>2
<1>10. CASE TokenFind(r)
  BY <1>10, <1>0, FinishMoves DEF TokenFind, tables, background, Moves, KeepsAuth, Refuse, Request
<1>11. CASE TokenDelete(r)
  BY <1>11, <1>0, FinishMoves DEF TokenDelete, tables, background, Moves, KeepsAuth, Request
<1>12. CASE MeDetails(r)
  BY <1>12, FinishMoves DEF MeDetails, tables, background, Moves
<1> QED
  BY <1>1, <1>2, <1>3, <1>4, <1>5, <1>6, <1>7, <1>8, <1>9, <1>10, <1>11, <1>12
  DEF SessionStep

LEMMA RecoveryMoves ==
    ASSUME TypeOK, NEW r \in Requests, RecoveryStep(r)
    PROVE  /\ Moves(r, {"idle", "recoverCount", "recoverInsert", "changeUser",
                        "changeSave", "codesFind", "codesDelete", "codeMark"})
           /\ UNCHANGED <<clock, token, link, background>>
           /\ KeepsAuth(r)
           /\ \/ Moves(r, {"idle", "changeUser", "codesFind", "codesDelete", "codeMark"})
              \/ RecoverFind(r) \/ RecoverCount(r) \/ ChangeUser(r)
<1>0. req \in [Requests -> Request] /\ req[r] \in Request
  BY DEF TypeOK, TypeRest
<1>1. CASE RecoverFind(r)
  <2>1. CASE Finish(r)
    BY <1>1, <2>1, FinishMoves DEF Moves, RecoverFind, tables, background
  <2>2. CASE ~Finish(r)
    <3>1. PICK u \in Users :
             req' = [req EXCEPT ![r].pc = "recoverCount",
                            ![r].user = u]
      BY <1>1, <2>2, Zenon DEF RecoverFind, Refuse
    <3>2. Moves(r, {"recoverCount"}) /\ KeepsAuth(r)
      BY <1>0, <3>1 DEF Moves, KeepsAuth, Request
    <3> QED
      BY <1>1, <3>2 DEF Moves, RecoverFind, tables, background
  <2> QED
    BY <2>1, <2>2
<1>2. CASE RecoverCount(r)
  BY <1>2, FinishMoves, GotoMoves DEF RecoverCount, tables, background, Moves, Refuse
<1>3. CASE RecoverInsert(r)
  BY <1>3, FinishMoves DEF RecoverInsert, tables, background, Moves
<1>4. CASE ChangeFind(r)
  <2>1. CASE Finish(r)
    BY <1>4, <2>1, FinishMoves DEF Moves, ChangeFind, tables, background
  <2>2. CASE ~Finish(r)
    <3>1. PICK c \in Codes :
             req' = [req EXCEPT ![r].pc = "changeUser",
                            ![r].code = c,
                            ![r].user = recovery[c].user]
      BY <1>4, <2>2, Zenon DEF ChangeFind, Refuse
    <3>2. Moves(r, {"changeUser"}) /\ KeepsAuth(r)
      BY <1>0, <3>1 DEF Moves, KeepsAuth, Request
    <3> QED
      BY <1>4, <3>2 DEF Moves, ChangeFind, tables, background
  <2> QED
    BY <2>1, <2>2
<1>5. CASE ChangeUser(r)
  BY <1>5, FinishMoves, GotoMoves DEF ChangeUser, tables, background, Moves, Refuse
<1>6. CASE ChangeSave(r)
  BY <1>6, GotoMoves DEF ChangeSave, tables, background, Moves
<1>7. CASE CodesFind(r)
  BY <1>7, <1>0, FinishMoves DEF CodesFind, tables, background, Moves, KeepsAuth, Refuse, Request
<1>8. CASE CodesDelete(r)
  BY <1>8, <1>0 DEF CodesDelete, tables, background, Moves, KeepsAuth, Request
<1>9. CASE CodeMark(r)
  BY <1>9, FinishMoves DEF CodeMark, tables, background, Moves
<1>10. CASE CheckCurrentPassword(r)
  BY <1>10, FinishMoves DEF CheckCurrentPassword, tables, background, Moves, Refuse, Fail
<1> QED
  BY <1>1, <1>2, <1>3, <1>4, <1>5, <1>6, <1>7, <1>8, <1>9, <1>10
  DEF RecoveryStep

LEMMA UserMoves ==
    ASSUME TypeOK, NEW r \in Requests, UserStep(r)
    PROVE  /\ Moves(r, {"idle", "createInsert", "updateEmail", "updateSave",
                        "snapshotSave", "softDelete", "emailUpdateUser",
                        "confirmSave", "tokenFind"})
           /\ UNCHANGED <<clock, token, recovery, issued, background, spent>>
           /\ KeepsAuth(r)
           /\ \/ Moves(r, {"idle", "createInsert", "updateEmail", "updateSave",
                           "snapshotSave", "softDelete", "emailUpdateUser", "tokenFind"})
              \/ ConfirmFind(r)
<1>0. req \in [Requests -> Request] /\ req[r] \in Request
  BY DEF TypeOK, TypeRest
<1>1. CASE CreateFind(r)
  <2>1. CASE Finish(r)
    BY <1>1, <2>1, FinishMoves DEF Moves, CreateFind, tables, background
  <2>2. CASE ~Finish(r)
    <3>1. PICK e \in Emails, x \in Statuses :
             req' = [req EXCEPT ![r].pc = "createInsert",
                            ![r].email = e,
                            ![r].status = x]
      BY <1>1, <2>2, Zenon DEF CreateFind, Refuse
    <3>2. Moves(r, {"createInsert"}) /\ KeepsAuth(r)
      BY <1>0, <3>1 DEF Moves, KeepsAuth, Request
    <3> QED
      BY <1>1, <3>2 DEF Moves, CreateFind, tables, background
  <2> QED
    BY <2>1, <2>2
<1>2. CASE CreateInsert(r)
  BY <1>2, FinishMoves DEF CreateInsert, tables, background, Moves, Refuse, Fail
<1>3. CASE ConfirmSend(r)
  BY <1>3, FinishMoves DEF ConfirmSend, tables, background, Moves, Refuse, Fail
<1>4. CASE EmailUpdateFind(r)
  <2>1. CASE Finish(r)
    BY <1>4, <2>1, FinishMoves DEF Moves, EmailUpdateFind, tables, background
  <2>2. CASE ~Finish(r)
    <3>1. PICK e \in Emails :
             req' = [req EXCEPT ![r].pc = "emailUpdateUser",
                            ![r].email = e]
      BY <1>4, <2>2, Zenon DEF EmailUpdateFind, Refuse
    <3>2. Moves(r, {"emailUpdateUser"}) /\ KeepsAuth(r)
      BY <1>0, <3>1 DEF Moves, KeepsAuth, Request
    <3> QED
      BY <1>4, <3>2 DEF Moves, EmailUpdateFind, tables, background
  <2> QED
    BY <2>1, <2>2
<1>5. CASE EmailUpdateUser(r)
  BY <1>5, FinishMoves DEF EmailUpdateUser, tables, background, Moves, Refuse, Fail
<1>6. CASE ConfirmFind(r)
  <2>1. CASE Finish(r)
    BY <1>6, <2>1, FinishMoves DEF Moves, ConfirmFind, tables, background
  <2>2. CASE ~Finish(r)
    <3>1. PICK l \in link :
             req' = [req EXCEPT ![r].pc = "confirmSave",
                            ![r].user = l.user,
                            ![r].email = l.new]
      BY <1>6, <2>2, Zenon DEF ConfirmFind, Refuse
    <3>2. Moves(r, {"confirmSave"}) /\ KeepsAuth(r)
      BY <1>0, <3>1 DEF Moves, KeepsAuth, Request
    <3> QED
      BY <1>6, <3>2 DEF Moves, ConfirmFind, tables, background
  <2> QED
    BY <2>1, <2>2
<1>7. CASE ConfirmSave(r)
  BY <1>7, FinishMoves DEF ConfirmSave, tables, background, Moves, Refuse, Fail
<1>8. CASE UpdateFind(r)
  <2>1. CASE Finish(r)
    BY <1>8, <2>1, FinishMoves DEF Moves, UpdateFind, tables, background
  <2>2. CASE ~Finish(r)
    <3>1. PICK u \in Users, e \in Emails \cup {None}, p \in BOOLEAN :
             req' = [req EXCEPT ![r].pc = "updateEmail",
                            ![r].user = u,
                            ![r].row = user[u],
                            ![r].email = e,
                            ![r].newPwd = p]
      BY <1>8, <2>2, Zenon DEF UpdateFind, Refuse
    <3>2. Moves(r, {"updateEmail"}) /\ KeepsAuth(r)
      BY <1>0, <3>1 DEF Moves, KeepsAuth, Request
    <3> QED
      BY <1>8, <3>2 DEF Moves, UpdateFind, tables, background
  <2> QED
    BY <2>1, <2>2
<1>9. CASE UpdateEmail(r)
  BY <1>9, FinishMoves, GotoMoves DEF UpdateEmail, tables, background, Moves, Refuse
<1>10. CASE UpdateSave(r)
  BY <1>10, FinishMoves DEF UpdateSave, tables, background, Moves, Refuse, Fail
<1>11. CASE StatusFind(r)
  <2>1. CASE Finish(r)
    BY <1>11, <2>1, FinishMoves DEF Moves, StatusFind, tables, background
  <2>2. CASE ~Finish(r)
    <3>1. PICK u \in Users, x \in {"active", "inactive"} :
             req' = [req EXCEPT ![r].pc = "snapshotSave",
                            ![r].user = u,
                            ![r].row = [user[u] EXCEPT !.status = x]]
      BY <1>11, <2>2, Zenon DEF StatusFind, Refuse
    <3>2. Moves(r, {"snapshotSave"}) /\ KeepsAuth(r)
      BY <1>0, <3>1 DEF Moves, KeepsAuth, Request
    <3> QED
      BY <1>11, <3>2 DEF Moves, StatusFind, tables, background
  <2> QED
    BY <2>1, <2>2
<1>12. CASE RestoreFind(r)
  <2>1. CASE Finish(r)
    BY <1>12, <2>1, FinishMoves DEF Moves, RestoreFind, tables, background
  <2>2. CASE ~Finish(r)
    <3>1. PICK u \in Users :
             req' = [req EXCEPT ![r].pc = "snapshotSave",
                            ![r].user = u,
                            ![r].row = [user[u] EXCEPT !.deleted = FALSE]]
      BY <1>12, <2>2, Zenon DEF RestoreFind, Refuse
    <3>2. Moves(r, {"snapshotSave"}) /\ KeepsAuth(r)
      BY <1>0, <3>1 DEF Moves, KeepsAuth, Request
    <3> QED
      BY <1>12, <3>2 DEF Moves, RestoreFind, tables, background
  <2> QED
    BY <2>1, <2>2
<1>13. CASE SnapshotSave(r)
  BY <1>13, FinishMoves DEF SnapshotSave, tables, background, Moves, Refuse, Fail
<1>14. CASE DeleteFind(r)
  <2>1. CASE Finish(r)
    BY <1>14, <2>1, FinishMoves DEF Moves, DeleteFind, tables, background
  <2>2. CASE ~Finish(r)
    <3>1. PICK u \in Users :
             req' = [req EXCEPT ![r].pc = "softDelete",
                            ![r].user = u]
      BY <1>14, <2>2, Zenon DEF DeleteFind, Refuse
    <3>2. Moves(r, {"softDelete"}) /\ KeepsAuth(r)
      BY <1>0, <3>1 DEF Moves, KeepsAuth, Request
    <3> QED
      BY <1>14, <3>2 DEF Moves, DeleteFind, tables, background
  <2> QED
    BY <2>1, <2>2
<1>15. CASE SoftDelete(r)
  BY <1>15, FinishMoves DEF SoftDelete, tables, background, Moves, Refuse, Fail
<1> QED
  BY <1>1, <1>2, <1>3, <1>4, <1>5, <1>6, <1>7, <1>8, <1>9, <1>10, <1>11, <1>12, <1>13, <1>14, <1>15
  DEF UserStep

LEMMA BreakMoves ==
    ASSUME TypeOK, NEW r \in Requests, Break(r)
    PROVE  /\ Moves(r, {"idle"}) /\ KeepsAuth(r)
           /\ UNCHANGED <<clock, tables, background>>
BY FinishMoves DEF Break, Fail

(***************************************************************************)
(* What is removed stays removed.                                          *)
(***************************************************************************)

LEMMA SessionTokens ==
    ASSUME TypeOK, NEW r \in Requests, SessionStep(r)
    PROVE  RevokedStays
<1>1. CASE UNCHANGED token
  BY <1>1 DEF RevokedStays
<1>2. CASE AuthTouch(r)
  BY <1>2 DEF RevokedStays, AuthTouch, Touched, TypeOK, TypeRest
<1>3. CASE LoginInsert(r)
  BY <1>3 DEF RevokedStays, LoginInsert, TypeOK, TypeRest
<1>4. CASE TokenDelete(r)
  BY <1>4 DEF RevokedStays, TokenDelete, TypeOK, TypeRest
<1>5. ASSUME ~AuthTouch(r), ~LoginInsert(r), ~TokenDelete(r)
      PROVE  UNCHANGED token
  BY <1>5 DEF SessionStep, Arrive, AuthToken, AuthUser, LoginFind, LoginCount, LogoutFind,
     RemoveTokenStart, TokenFind, MeDetails, tables
<1> QED
  BY <1>1, <1>2, <1>3, <1>4, <1>5

LEMMA StepTokens == TypeOK /\ [Next]_vars => [RevokedStays]_vars
<1> SUFFICES ASSUME TypeOK, Next PROVE RevokedStays
  OBVIOUS
<1>1. CASE UNCHANGED token
  BY <1>1 DEF RevokedStays
<1>2. ASSUME NEW r \in Requests, SessionStep(r) PROVE RevokedStays
  BY <1>2, SessionTokens
<1>3. ASSUME NEW r \in Requests, RecoveryStep(r) \/ UserStep(r) \/ Break(r) PROVE UNCHANGED token
  BY <1>3, RecoveryMoves, UserMoves, BreakMoves DEF tables
<1>4. ASSUME NEW i \in Idents, RemoveToken(i) PROVE RevokedStays
  BY <1>4 DEF RevokedStays, RemoveToken, TypeOK, TypeRest
<1>5. ASSUME NEW i \in Idents, DetachedFind(i) \/ RemoveTokenFails(i) PROVE UNCHANGED token
  BY <1>5 DEF DetachedFind, RemoveTokenFails, tables
<1>6. CASE Tick \/ CleanTokens \/ Exit \/ Start \/ RecoveryBackground
  BY <1>1, <1>6 DEF Tick, CleanTokens, Exit, Start, RecoveryBackground, CleanCodes, RemoveCode, RemoveCodeFails, tables
<1> QED
  BY <1>1, <1>2, <1>3, <1>4, <1>5, <1>6 DEF Next, Step, SessionBackground

\* The row of a session, once removed, never comes back, whatever requests that
\* still hold it do afterwards (auth.middleware.ts extends it by id).
THEOREM RevocationIsFinal == Spec => RevocationFinal
<1>1. TypeOK /\ [Next]_vars => [RevokedStays]_vars
  BY StepTokens
<1> QED
  BY <1>1, TypeCorrect, PTL DEF Spec, RevocationFinal

LEMMA RecoveryRows ==
    ASSUME TypeOK, NEW r \in Requests, RecoveryStep(r)
    PROVE  RemovedCodeStays
<1>1. CASE UNCHANGED recovery
  BY <1>1 DEF RemovedCodeStays
<1>2. CASE RecoverInsert(r)
  BY <1>2 DEF RemovedCodeStays, RecoverInsert, TypeOK, TypeRest
<1>3. CASE CodesDelete(r)
  BY <1>3 DEF RemovedCodeStays, CodesDelete, TypeOK, TypeRest
<1>4. CASE CodeMark(r)
  BY <1>4 DEF RemovedCodeStays, CodeMark, Marked, TypeOK, TypeRest
<1>5. ASSUME ~RecoverInsert(r), ~CodesDelete(r), ~CodeMark(r)
      PROVE  UNCHANGED recovery
  BY <1>5 DEF RecoveryStep, RecoverFind, RecoverCount, ChangeFind, ChangeUser, ChangeSave,
     CodesFind, CheckCurrentPassword, tables
<1> QED
  BY <1>1, <1>2, <1>3, <1>4, <1>5

LEMMA StepCodes == TypeOK /\ [Next]_vars => [RemovedCodeStays]_vars
<1> SUFFICES ASSUME TypeOK, Next PROVE RemovedCodeStays
  OBVIOUS
<1>1. CASE UNCHANGED recovery
  BY <1>1 DEF RemovedCodeStays
<1>2. ASSUME NEW r \in Requests, RecoveryStep(r) PROVE RemovedCodeStays
  BY <1>2, RecoveryRows
<1>3. ASSUME NEW r \in Requests, SessionStep(r) \/ UserStep(r) \/ Break(r) PROVE UNCHANGED recovery
  BY <1>3, SessionMoves, UserMoves, BreakMoves DEF tables
<1>4. ASSUME NEW c \in Codes, RemoveCode(c) PROVE RemovedCodeStays
  BY <1>4 DEF RemovedCodeStays, RemoveCode, TypeOK, TypeRest
<1>6. ASSUME NEW c \in Codes, RemoveCodeFails(c) PROVE UNCHANGED recovery
  BY <1>6 DEF RemoveCodeFails, tables
<1>5. CASE Tick \/ CleanCodes \/ SessionBackground
  BY <1>1, <1>5 DEF Tick, CleanCodes, SessionBackground, CleanTokens, Exit, Start, DetachedFind,
     RemoveToken, RemoveTokenFails, tables
<1> QED
  BY <1>1, <1>2, <1>3, <1>4, <1>5, <1>6 DEF Next, Step, RecoveryBackground

\* The row of a recovery code, once removed, never comes back, although
\* passwordRecoverChange saves it after its removal.
THEOREM CodeRemovalIsFinal == Spec => CodeRemovalFinal
<1>1. TypeOK /\ [Next]_vars => [RemovedCodeStays]_vars
  BY StepCodes
<1> QED
  BY <1>1, TypeCorrect, PTL DEF Spec, CodeRemovalFinal

(***************************************************************************)
(* The rows of the table user.                                             *)
(***************************************************************************)

\* The steps that write the table user, one row each.
LEMMA UserWrites ==
    ASSUME TypeOK, NEW r \in Requests, RecoveryStep(r) \/ UserStep(r)
    PROVE  \/ UNCHANGED user
           \/ ChangeSave(r) \/ CreateInsert(r) \/ ConfirmSave(r) \/ UpdateSave(r)
           \/ SnapshotSave(r) \/ SoftDelete(r)
BY DEF RecoveryStep, RecoverFind, RecoverCount, RecoverInsert, ChangeFind, ChangeUser,
   CodesFind, CodesDelete, CodeMark, CheckCurrentPassword, UserStep, CreateFind,
   ConfirmSend, EmailUpdateFind, EmailUpdateUser, ConfirmFind, UpdateFind, UpdateEmail,
   StatusFind, RestoreFind, DeleteFind, tables

LEMMA BackgroundLeavesUsers ==
    ASSUME Tick \/ SessionBackground \/ RecoveryBackground
    PROVE  UNCHANGED user
BY DEF Tick, SessionBackground, CleanTokens, Exit, Start, DetachedFind, RemoveToken, RemoveTokenFails, RecoveryBackground,
   CleanCodes, RemoveCode, RemoveCodeFails, tables

\* What each of these steps makes of the row: the password is kept or becomes
\* newer, and an address that is not the row's own was free.
RowWrite(u, w) ==
    /\ user' = [user EXCEPT ![u] = w]
    /\ user[u] # None => w.pwd >= user[u].pwd
    /\ \/ user[u] # None /\ w.email = user[u].email
       \/ ~EmailTaken(w.email, u)

LEMMA UserWriteRow ==
    ASSUME TypeOK, NEW r \in Requests, RecoveryStep(r) \/ UserStep(r)
    PROVE  UNCHANGED user \/ \E u \in Users, w \in UserRow : RowWrite(u, w)
<1>0. /\ user \in [Users -> UserRow \cup {None}] /\ Rows \subseteq Users
      /\ \A u \in Rows : user[u] \in UserRow
      /\ req[r] \in Request /\ Locals(req[r], Rows)
      /\ None \notin Users /\ None \notin Emails
  BY LocalsNow, StoreAssumption DEF TypeOK, TypeRest, Rows
<1> DEFINE u == req[r].user
<1>1. CASE ChangeSave(r)
  <2> DEFINE w == [user[u] EXCEPT !.pwd = @ + 1]
  <2>1. u \in Users /\ user[u] \in UserRow
    BY <1>0, <1>1 DEF ChangeSave, Locals
  <2>2. w \in UserRow
    BY <1>1, <2>1, StoreAssumption DEF ChangeSave, UserRow, Passwords
  <2>3. w.pwd >= user[u].pwd /\ w.email = user[u].email
    BY <2>1 DEF UserRow, Passwords
  <2>4. RowWrite(u, w)
    BY <1>1, <2>1, <2>3, StoreAssumption DEF ChangeSave, RowWrite
  <2> QED
    BY <2>1, <2>2, <2>4
<1>2. CASE CreateInsert(r)
  <2>1. CASE ~(UNCHANGED user)
    <3> DEFINE w == [status |-> req[r].status, deleted |-> FALSE,
                     email |-> req[r].email, pwd |-> 0]
    <3>1. PICK v \in Users : /\ ~IndexRejects(req[r].email, None) /\ user[v] = None
                             /\ user' = [user EXCEPT ![v] = w]
      BY <1>2, <2>1 DEF CreateInsert
    <3>2. w \in UserRow
      BY <1>0, <1>2, StoreAssumption DEF CreateInsert, Locals, UserRow, Passwords
    <3>3. RowWrite(v, w)
      BY <1>0, <3>1 DEF RowWrite, IndexRejects, EmailTaken
    <3> QED
      BY <3>2, <3>3
  <2> QED
    BY <2>1
<1>3. CASE ConfirmSave(r)
  <2> DEFINE e == req[r].email
             w == IF e # None THEN [user[u] EXCEPT !.email = e]
                              ELSE [user[u] EXCEPT !.status = "active"]
  <2>1. u \in Users /\ user[u] \in UserRow /\ e \in Emails \cup {None}
    BY <1>0, <1>3 DEF ConfirmSave, Locals, Request
  <2>2. w \in UserRow /\ w.pwd = user[u].pwd
    BY <2>1 DEF UserRow, Statuses
  <2>3. w.pwd >= user[u].pwd
    BY <2>1, <2>2 DEF UserRow, Passwords
  <2>4. CASE ~(UNCHANGED user)
    <3>1. user' = [user EXCEPT ![u] = w] /\ (e # None => ~EmailTaken(e, u))
      BY <1>3, <2>4 DEF ConfirmSave, IndexRejects
    <3>2. w.email = IF e # None THEN e ELSE user[u].email
      BY <2>1 DEF UserRow
    <3>3. RowWrite(u, w)
      BY <2>1, <2>3, <3>1, <3>2, StoreAssumption DEF RowWrite
    <3> QED
      BY <2>1, <2>2, <3>3
  <2> QED
    BY <2>4
<1>4. CASE UpdateSave(r)
  <2> DEFINE e == req[r].email
             p == IF req[r].newPwd THEN user[u].pwd + 1 ELSE user[u].pwd
             w == [user[u] EXCEPT !.email = SavedEmail(r), !.pwd = p]
  <2>1. u \in Users /\ user[u] \in UserRow /\ e \in Emails \cup {None}
    BY <1>0, <1>4 DEF UpdateSave, Locals, Request
  <2>2. CASE ~(UNCHANGED user)
    <3>1. /\ user' = [user EXCEPT ![u] = w] /\ (e # None => ~EmailTaken(e, u))
          /\ req[r].newPwd => user[u].pwd < MaxPassword
      BY <1>4, <2>2 DEF UpdateSave, IndexRejects
    <3>2. p \in Passwords /\ p >= user[u].pwd
      BY <2>1, <3>1, StoreAssumption DEF UserRow, Passwords
    <3>3. SavedEmail(r) \in Emails
      BY <2>1 DEF SavedEmail, UserRow
    <3>4. w \in UserRow /\ w.pwd = p /\ w.email = SavedEmail(r)
      BY <2>1, <3>2, <3>3 DEF UserRow
    <3>5. RowWrite(u, w)
      BY <2>1, <3>1, <3>2, <3>4, StoreAssumption DEF RowWrite, SavedEmail
    <3> QED
      BY <2>1, <3>4, <3>5
  <2> QED
    BY <2>2
<1>5. CASE SnapshotSave(r)
  <2> DEFINE w == Rewritten(r)
  <2>1. u \in Users /\ user[u] \in UserRow /\ req[r].row \in UserRow
    BY <1>0, <1>5 DEF SnapshotSave, Locals
  <2>2. w \in UserRow /\ w.pwd = user[u].pwd /\ w.email = req[r].row.email
    BY <2>1 DEF UserRow, Rewritten
  <2>3. w.pwd >= user[u].pwd
    BY <2>1, <2>2 DEF UserRow, Passwords
  <2>4. CASE ~(UNCHANGED user)
    <3>1. user' = [user EXCEPT ![u] = w] /\ ~EmailTaken(req[r].row.email, u)
      BY <1>5, <2>4 DEF SnapshotSave, IndexRejects
    <3>2. RowWrite(u, w)
      BY <2>2, <2>3, <3>1 DEF RowWrite
    <3> QED
      BY <2>1, <2>2, <3>2
  <2> QED
    BY <2>4
<1>6. CASE SoftDelete(r)
  <2> DEFINE w == [user[u] EXCEPT !.deleted = TRUE]
  <2>1. u \in Users /\ user[u] \in UserRow
    BY <1>0, <1>6 DEF SoftDelete, Locals
  <2>2. w \in UserRow /\ w.pwd = user[u].pwd /\ w.email = user[u].email
    BY <2>1 DEF UserRow
  <2>3. w.pwd >= user[u].pwd
    BY <2>1, <2>2 DEF UserRow, Passwords
  <2>4. RowWrite(u, w)
    BY <1>6, <2>1, <2>2, <2>3, StoreAssumption DEF SoftDelete, RowWrite
  <2> QED
    BY <2>1, <2>2, <2>4
<1> QED
  BY <1>1, <1>2, <1>3, <1>4, <1>5, <1>6, UserWrites

LEMMA NextUser ==
    ASSUME TypeOK, [Next]_vars
    PROVE  UNCHANGED user \/ \E u \in Users, w \in UserRow : RowWrite(u, w)
<1>1. ASSUME NEW r \in Requests, SessionStep(r) \/ Break(r) PROVE UNCHANGED user
  BY <1>1, SessionMoves, BreakMoves DEF tables
<1> QED
  BY <1>1, UserWriteRow, BackgroundLeavesUsers DEF Next, Step, vars

\* No change of a password is lost and no row of the table user disappears,
\* whatever entity a handler of user.service.ts read earlier and writes back.
THEOREM NoPasswordIsLost == Spec => NoLostPassword
<1>1. TypeOK /\ [Next]_vars => [PasswordsOnlyGrow]_vars
  <2> SUFFICES ASSUME TypeOK, [Next]_vars PROVE PasswordsOnlyGrow
    OBVIOUS
  <2>0. \A u \in Users : user[u] # None => user[u] \in UserRow /\ user[u].pwd \in Nat
    BY StoreAssumption DEF TypeOK, TypeRest, UserRow, Passwords
  <2>1. CASE UNCHANGED user
    BY <2>0, <2>1 DEF PasswordsOnlyGrow
  <2>2. ASSUME NEW u \in Users, NEW w \in UserRow, RowWrite(u, w)
        PROVE  PasswordsOnlyGrow
    BY <2>0, <2>2, StoreAssumption DEF PasswordsOnlyGrow, RowWrite, TypeOK, TypeRest
  <2> QED
    BY <2>1, <2>2, NextUser
<1> QED
  BY <1>1, TypeCorrect, PTL DEF Spec, NoLostPassword

\* No two rows of the table user share an address, whatever the handlers of
\* register, create, update, emailConfirm, statusUpdate and restore checked
\* before: the unique index decides when they write.
THEOREM EmailsAreUnique == Spec => []UniqueEmails
<1>1. Init => UniqueEmails
  BY DEF Init, UniqueEmails
<1>2. TypeOK /\ UniqueEmails /\ [Next]_vars => UniqueEmails'
  <2> SUFFICES ASSUME TypeOK, UniqueEmails, [Next]_vars PROVE UniqueEmails'
    OBVIOUS
  <2>1. CASE UNCHANGED user
    BY <2>1 DEF UniqueEmails
  <2>2. ASSUME NEW u \in Users, NEW w \in UserRow, RowWrite(u, w)
        PROVE  UniqueEmails'
    BY <2>2 DEF UniqueEmails, RowWrite, EmailTaken, TypeOK, TypeRest
  <2> QED
    BY <2>1, <2>2, NextUser
<1> QED
  BY <1>1, <1>2, TypeCorrect, PTL DEF Spec

(***************************************************************************)
(* Requests act only on what they saw.                                     *)
(***************************************************************************)

\* ActsOnSeen, strengthened: before the request is signed in its user was seen
\* to be active, and a slot nobody uses is not signed in.
ActsInv(q, S) ==
    /\ Acts(q, S)
    /\ q.pc = "authTouch" => <<q.user, "active">> \in S
    /\ q.pc = "idle" => q.auth = None
SeenInv == \A r \in Requests : ActsInv(req[r], seen[r])

LEMMA ActsGrow ==
    ASSUME NEW q, NEW S, NEW T, S \subseteq T, ActsInv(q, S)
    PROVE  ActsInv(q, T)
BY DEF ActsInv, Acts

LEMMA ActsIdle == \A S : ActsInv(Idle, S)
BY DEF ActsInv, Acts, Idle, Fresh

\* Nothing is asked of a request at these steps but that it stays signed in.
LEMMA ActsElsewhere ==
    ASSUME NEW q, NEW S, NEW w, ActsInv(q, S), w.auth \in {None, q.auth},
           w.pc \notin {"loginCount", "loginInsert", "recoverCount", "recoverInsert",
                       "changeSave", "authUser", "authTouch", "confirmSave", "idle"}
    PROVE  ActsInv(w, S)
BY DEF ActsInv, Acts

LEMMA Remembered ==
    ASSUME TypeOK, Remember, NEW r \in Requests, req'[r].pc # "idle"
    PROVE  /\ seen[r] \subseteq seen'[r]
           /\ Good' \cap (Standing \cup {req'[r].ident}) \subseteq seen'[r]
BY DEF Remember

\* What a step asks the tables about a user or a token while it leaves them alone.
LEMMA GoodNow ==
    ASSUME UNCHANGED <<clock, user, token>>
    PROVE  /\ \A u \in Users : ActiveUser(u) => <<u, "active">> \in Good' \cap Standing
           /\ \A u \in Users : Visible(u) /\ user[u].status = "pending"
                                 => <<u, "pending">> \in Good' \cap Standing
           /\ \A i \in Idents : Unexpired(i) => i \in Good'
BY DEF Good, Standing, ActiveUser, Visible, Unexpired

LEMMA ActsOthers ==
    ASSUME TypeOK, SeenInv, Remember, NEW s \in Requests, req'[s] = req[s]
    PROVE  ActsInv(req'[s], seen'[s])
<1>1. CASE req[s].pc = "idle"
  BY <1>1 DEF SeenInv, ActsInv, Acts
<1>2. CASE req[s].pc # "idle"
  BY <1>2, Remembered, ActsGrow DEF SeenInv
<1> QED
  BY <1>1, <1>2

\* A request that ends, or goes to a step of which nothing is asked.
LEMMA ActsQuiet ==
    ASSUME TypeOK, SeenInv, Remember, NEW r \in Requests, KeepsAuth(r),
           Moves(r, {"idle", "authToken", "handler", "tokenFind", "tokenDelete",
                     "updateSave", "changeUser", "codesFind", "codesDelete", "codeMark",
                     "createInsert", "updateEmail", "snapshotSave", "softDelete",
                     "emailUpdateUser"})
    PROVE  ActsInv(req'[r], seen'[r])
<1>1. CASE req'[r].pc = "idle"
  BY <1>1, ActsIdle DEF Moves
<1>2. CASE req'[r].pc # "idle"
  <2>1. ActsInv(req'[r], seen[r])
    BY <1>2, ActsElsewhere DEF SeenInv, KeepsAuth, Moves
  <2> QED
    BY <1>2, <2>1, Remembered, ActsGrow
<1> QED
  BY <1>1, <1>2

LEMMA ActsVisitor ==
    ASSUME TypeOK, SeenInv, Remember, NEW r \in Requests, AsVisitor(r)
    PROVE  ActsInv(req'[r], seen'[r])
<1>1. Moves(r, {"handler"}) /\ KeepsAuth(r)
  BY FreshMoves DEF AsVisitor
<1> QED
  BY <1>1, ActsQuiet DEF Moves

LEMMA ActsSession ==
    ASSUME TypeOK, SeenInv, Remember, NEW r \in Requests, SessionStep(r)
    PROVE  ActsInv(req'[r], seen'[r])
<1>0. /\ req \in [Requests -> Request] /\ req[r] \in Request
      /\ ActsInv(req[r], seen[r]) /\ Locals(req[r], Rows)
  BY DEF TypeOK, TypeRest, SeenInv, LocalsOK
<1>1. CASE AuthToken(r)
  <2>1. CASE AsVisitor(r)
    BY <2>1, ActsVisitor
  <2>2. CASE ~AsVisitor(r)
    <3> DEFINE i == req[r].ident
    <3>1. /\ Accepted(i) /\ i \in Idents /\ UNCHANGED <<clock, user, token>>
          /\ req' = [req EXCEPT ![r].pc = "authUser", ![r].user = token[i].user,
                                ![r].expire = token[i].expire]
      BY <1>0, <1>1, <2>2 DEF AuthToken, tables, Locals
    <3>2. req'[r].pc = "authUser" /\ req'[r].ident = i /\ req'[r].auth = req[r].auth
      BY <1>0, <3>1 DEF Request
    <3>3. i \in seen'[r] /\ seen[r] \subseteq seen'[r]
      BY <3>1, <3>2, GoodNow, Remembered DEF Accepted
    <3> QED
      BY <1>0, <3>2, <3>3 DEF ActsInv, Acts
  <2> QED
    BY <2>1, <2>2
<1>2. CASE AuthUser(r)
  <2>1. CASE AsVisitor(r)
    BY <2>1, ActsVisitor
  <2>2. CASE ~AsVisitor(r)
    <3>1. /\ ActiveUser(req[r].user) /\ req[r].user \in Users
          /\ UNCHANGED <<clock, user, token>> /\ Goto(r, "authTouch")
          /\ req[r].pc = "authUser"
      BY <1>0, <1>2, <2>2 DEF AuthUser, tables, Locals, SignsIn
    <3>2. /\ req'[r].pc = "authTouch" /\ req'[r].user = req[r].user
          /\ req'[r].ident = req[r].ident /\ req'[r].auth = req[r].auth
      BY <1>0, <3>1 DEF Request, Goto
    <3>3. <<req[r].user, "active">> \in seen'[r] /\ seen[r] \subseteq seen'[r]
      BY <3>1, <3>2, GoodNow, Remembered
    <3> QED
      BY <1>0, <3>1, <3>2, <3>3 DEF ActsInv, Acts
  <2> QED
    BY <2>1, <2>2
<1>3. CASE AuthTouch(r)
  <2>1. req'[r] = [Fresh(req[r].op, req[r].ident, "handler") EXCEPT !.auth = req[r].user]
    BY <1>0, <1>3 DEF AuthTouch
  <2>2. req'[r].pc = "handler" /\ req'[r].auth = req[r].user
    BY <2>1 DEF Fresh
  <2>3. <<req[r].user, "active">> \in seen'[r]
    BY <1>0, <1>3, <2>2, Remembered DEF ActsInv, AuthTouch
  <2> QED
    BY <2>2, <2>3 DEF ActsInv, Acts
<1>4. CASE LoginFind(r)
  <2>1. CASE Finish(r)
    BY <2>1, FinishMoves, ActsQuiet DEF Moves
  <2>2. CASE ~Finish(r)
    <3>1. PICK u \in Users :
             /\ ActiveUser(u)
             /\ req' = [req EXCEPT ![r].pc = "loginCount", ![r].user = u, ![r].row = user[u]]
      BY <1>4, <2>2 DEF LoginFind, Refuse
    <3>2. req'[r].pc = "loginCount" /\ req'[r].user = u /\ req'[r].auth = req[r].auth
      BY <1>0, <3>1 DEF Request
    <3>3. UNCHANGED <<clock, user, token>>
      BY <1>4 DEF LoginFind, tables
    <3>4. <<u, "active">> \in seen'[r] /\ seen[r] \subseteq seen'[r]
      BY <3>1, <3>2, <3>3, GoodNow, Remembered
    <3> QED
      BY <1>0, <3>2, <3>4 DEF ActsInv, Acts
  <2> QED
    BY <2>1, <2>2
<1>5. CASE LoginCount(r)
  <2>1. CASE Finish(r)
    BY <2>1, FinishMoves, ActsQuiet DEF Moves
  <2>2. CASE Goto(r, "loginInsert")
    <3>1. /\ req'[r].pc = "loginInsert" /\ req'[r].user = req[r].user
          /\ req'[r].auth = req[r].auth
      BY <1>0, <2>2 DEF Request, Goto
    <3> QED
      BY <1>0, <1>5, <3>1, Remembered DEF ActsInv, Acts, LoginCount
  <2> QED
    BY <1>5, <2>1, <2>2 DEF LoginCount, Refuse
<1> QED
  BY <1>1, <1>2, <1>3, <1>4, <1>5, SessionMoves, ActsQuiet, FreshMoves DEF Moves

LEMMA ActsRecovery ==
    ASSUME TypeOK, SeenInv, Remember, NEW r \in Requests, RecoveryStep(r)
    PROVE  ActsInv(req'[r], seen'[r])
<1>0. /\ req \in [Requests -> Request] /\ req[r] \in Request
      /\ ActsInv(req[r], seen[r]) /\ Locals(req[r], Rows)
  BY DEF TypeOK, TypeRest, SeenInv, LocalsOK
<1>1. CASE RecoverFind(r)
  <2>1. CASE Finish(r)
    BY <2>1, FinishMoves, ActsQuiet DEF Moves
  <2>2. CASE ~Finish(r)
    <3>1. PICK u \in Users :
             /\ ActiveUser(u)
             /\ req' = [req EXCEPT ![r].pc = "recoverCount", ![r].user = u]
      BY <1>1, <2>2 DEF RecoverFind, Refuse
    <3>2. req'[r].pc = "recoverCount" /\ req'[r].user = u /\ req'[r].auth = req[r].auth
      BY <1>0, <3>1 DEF Request
    <3>3. UNCHANGED <<clock, user, token>>
      BY <1>1 DEF RecoverFind, tables
    <3>4. <<u, "active">> \in seen'[r] /\ seen[r] \subseteq seen'[r]
      BY <3>1, <3>2, <3>3, GoodNow, Remembered
    <3> QED
      BY <1>0, <3>2, <3>4 DEF ActsInv, Acts
  <2> QED
    BY <2>1, <2>2
<1>2. CASE RecoverCount(r)
  <2>1. CASE Finish(r)
    BY <2>1, FinishMoves, ActsQuiet DEF Moves
  <2>2. CASE Goto(r, "recoverInsert")
    <3>1. /\ req'[r].pc = "recoverInsert" /\ req'[r].user = req[r].user
          /\ req'[r].auth = req[r].auth
      BY <1>0, <2>2 DEF Request, Goto
    <3> QED
      BY <1>0, <1>2, <3>1, Remembered DEF ActsInv, Acts, RecoverCount
  <2> QED
    BY <1>2, <2>1, <2>2 DEF RecoverCount, Refuse
<1>3. CASE ChangeUser(r)
  <2>1. CASE Finish(r)
    BY <2>1, FinishMoves, ActsQuiet DEF Moves
  <2>2. CASE ~Finish(r)
    <3>1. /\ ActiveUser(req[r].user) /\ req[r].user \in Users
          /\ UNCHANGED <<clock, user, token>> /\ Goto(r, "changeSave")
      BY <1>0, <1>3, <2>2 DEF ChangeUser, Refuse, tables, Locals
    <3>2. /\ req'[r].pc = "changeSave" /\ req'[r].user = req[r].user
          /\ req'[r].auth = req[r].auth
      BY <1>0, <3>1 DEF Request, Goto
    <3>3. <<req[r].user, "active">> \in seen'[r] /\ seen[r] \subseteq seen'[r]
      BY <3>1, <3>2, GoodNow, Remembered
    <3> QED
      BY <1>0, <3>2, <3>3 DEF ActsInv, Acts
  <2> QED
    BY <2>1, <2>2
<1> QED
  BY <1>1, <1>2, <1>3, RecoveryMoves, ActsQuiet DEF Moves

LEMMA ActsUser ==
    ASSUME TypeOK, SeenInv, Remember, NEW r \in Requests, UserStep(r)
    PROVE  ActsInv(req'[r], seen'[r])
<1>0. /\ req \in [Requests -> Request] /\ req[r] \in Request
      /\ ActsInv(req[r], seen[r])
  BY DEF TypeOK, TypeRest, SeenInv
<1>1. CASE ConfirmFind(r)
  <2>1. CASE Finish(r)
    BY <2>1, FinishMoves, ActsQuiet DEF Moves
  <2>2. CASE ~Finish(r)
    <3>1. PICK l \in link :
             /\ Redeemable(l)
             /\ req' = [req EXCEPT ![r].pc = "confirmSave", ![r].user = l.user,
                                   ![r].email = l.new]
      BY <1>1, <2>2 DEF ConfirmFind, Refuse
    <3>2. /\ req'[r].pc = "confirmSave" /\ req'[r].user = l.user
          /\ req'[r].email = l.new /\ req'[r].auth = req[r].auth
      BY <1>0, <3>1 DEF Request
    <3>3. UNCHANGED <<clock, user, token>>
      BY <1>1 DEF ConfirmFind, tables
    <3>4. l.user \in Users
      BY DEF TypeOK, TypeRest, Link
    <3>5. /\ l.new = None => <<l.user, "pending">> \in seen'[r]
          /\ seen[r] \subseteq seen'[r]
      BY <3>1, <3>2, <3>3, <3>4, GoodNow, Remembered DEF Redeemable
    <3> QED
      BY <1>0, <3>2, <3>5 DEF ActsInv, Acts
  <2> QED
    BY <2>1, <2>2
<1> QED
  BY <1>1, UserMoves, ActsQuiet DEF Moves

LEMMA BackgroundLeavesRequests ==
    ASSUME Tick \/ SessionBackground \/ RecoveryBackground
    PROVE  UNCHANGED <<req, spent>>
BY DEF Tick, SessionBackground, CleanTokens, Exit, Start, DetachedFind, RemoveToken, RemoveTokenFails, RecoveryBackground,
   CleanCodes, RemoveCode, RemoveCodeFails

\* Whoever was deactivated, deleted or logged out cannot pass the middleware,
\* log in, recover a password or redeem a link with a request sent afterwards.
THEOREM RequestsActOnSeen == Spec => []ActsOnSeen
<1>1. Init => SeenInv
  BY ActsIdle DEF Init, SeenInv
<1>2. TypeOK /\ SeenInv /\ [Next]_vars => SeenInv'
  <2> SUFFICES ASSUME TypeOK, SeenInv, [Next]_vars, NEW s \in Requests
               PROVE  ActsInv(req'[s], seen'[s])
    BY DEF SeenInv
  <2>1. CASE UNCHANGED vars
    BY <2>1 DEF vars, SeenInv
  <2>2. ASSUME Remember, NEW r \in Requests,
               SessionStep(r) \/ RecoveryStep(r) \/ UserStep(r) \/ Break(r)
        PROVE  ActsInv(req'[s], seen'[s])
    <3>1. CASE s = r
      <4>1. CASE Break(r)
        BY <2>2, <3>1, <4>1, BreakMoves, ActsQuiet DEF Moves
      <4> QED
        BY <2>2, <3>1, <4>1, ActsSession, ActsRecovery, ActsUser
    <3>2. CASE s # r
      BY <2>2, <3>2, SessionMoves, RecoveryMoves, UserMoves, BreakMoves, ActsOthers DEF Moves
    <3> QED
      BY <3>1, <3>2
  <2>3. ASSUME Remember, Tick \/ SessionBackground \/ RecoveryBackground
        PROVE  ActsInv(req'[s], seen'[s])
    BY <2>3, BackgroundLeavesRequests, ActsOthers
  <2> QED
    BY <2>1, <2>2, <2>3 DEF Next, Step
<1>3. SeenInv => ActsOnSeen
  BY DEF SeenInv, ActsInv, ActsOnSeen
<1> QED
  BY <1>1, <1>2, <1>3, TypeCorrect, PTL DEF Spec
=============================================================================
