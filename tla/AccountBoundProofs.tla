------------------------- MODULE AccountBoundProofs -------------------------
(***************************************************************************)
(* The bounds of Account for every value of its constants: how many        *)
(* sessions and recovery codes a user may have, and how often one code may *)
(* be spent, when several requests race.                                   *)
(***************************************************************************)
EXTENDS AccountSafetyProofs

LEMMA SubsetCardinality ==
    ASSUME NEW S, IsFiniteSet(S), NEW T, T \subseteq S
    PROVE  /\ IsFiniteSet(T)
           /\ Cardinality(T) \in Nat /\ Cardinality(S) \in Nat
           /\ Cardinality(T) <= Cardinality(S)
<1>1. T \in SUBSET S
  OBVIOUS
<1>2. IsFiniteSet(T) /\ Cardinality(T) <= Cardinality(S)
  BY <1>1, FS_Subset
<1> QED
  BY <1>2, FS_CardinalityType

\* Disjoint subsets of a finite set.
LEMMA DisjointCardinality ==
    ASSUME NEW S, IsFiniteSet(S), NEW T, T \subseteq S, NEW U, U \subseteq S,
           T \cap U = {}
    PROVE  /\ Cardinality(T) \in Nat /\ Cardinality(U) \in Nat
           /\ Cardinality(T) + Cardinality(U) <= Cardinality(S)
<1>1. /\ IsFiniteSet(T) /\ IsFiniteSet(U) /\ T \cup U \subseteq S
      /\ Cardinality(T) \in Nat /\ Cardinality(U) \in Nat
  BY SubsetCardinality
<1>2. Cardinality(T \cup U) <= Cardinality(S)
  BY <1>1, SubsetCardinality
<1>3. Cardinality(T \cup U) = Cardinality(T) + Cardinality(U) - Cardinality({})
  BY <1>1, FS_Union
<1> QED
  BY <1>1, <1>2, <1>3, FS_EmptySet

\* A set is no larger than one that is mapped onto it.
LEMMA ImageCardinality ==
    ASSUME NEW S, IsFiniteSet(S), NEW f, NEW T, T \subseteq {f[x] : x \in S}
    PROVE  IsFiniteSet(T) /\ Cardinality(T) <= Cardinality(S)
<1> DEFINE g == [x \in S |-> f[x]]
           I == {f[x] : x \in S}
<1>1. g \in Surjection(S, I)
  BY DEF Surjection
<1>2. IsFiniteSet(I) /\ Cardinality(I) <= Cardinality(S)
  BY <1>1, FS_Surjection
<1>3. IsFiniteSet(T) /\ Cardinality(T) <= Cardinality(I)
  BY <1>2, SubsetCardinality
<1>4. Cardinality(S) \in Nat /\ Cardinality(I) \in Nat /\ Cardinality(T) \in Nat
  BY <1>2, <1>3, FS_CardinalityType
<1> QED
  BY <1>2, <1>3, <1>4

LEMMA SlotsExist == Cardinality(Requests) \in Nat /\ Cardinality(Requests) >= 1
<1>1. Cardinality(Requests) \in Nat /\ Cardinality(Requests) # 0
  BY StoreAssumption, FS_CardinalityType, FS_EmptySet
<1> QED
  BY <1>1

(***************************************************************************)
(* Sessions.                                                               *)
(***************************************************************************)

Renewing == {"authUser", "authTouch"}

\* The rows of u that are active, or that a request which read them before
\* they expired may still extend.
Claim(u) ==
    {i \in TokensOf(u) :
        \/ token[i].expire >= clock
        \/ \E s \in Requests : req[s].pc \in Renewing /\ req[s].ident = i}

\* The requests that will insert a row for u.
Inserting(u) == {s \in Requests : req[s].pc = "loginInsert" /\ req[s].user = u}

ClaimBound(u) ==
    Cardinality(Claim(u)) + Cardinality(Inserting(u))
        <= MaxActiveSessions + Cardinality(Requests) - 1
ClaimInv == \A u \in Users : ClaimBound(u)

LEMMA ClaimFinite ==
    ASSUME NEW u
    PROVE  /\ IsFiniteSet(Claim(u)) /\ Cardinality(Claim(u)) \in Nat
           /\ IsFiniteSet(Inserting(u)) /\ Cardinality(Inserting(u)) \in Nat
<1>1. Claim(u) \subseteq Idents /\ Inserting(u) \subseteq Requests
  BY DEF Claim, TokensOf, Inserting
<1> QED
  BY <1>1, StoreAssumption, SubsetCardinality

LEMMA ClaimShrinks ==
    ASSUME NEW u, ClaimBound(u),
           Claim(u)' \subseteq Claim(u), Inserting(u)' \subseteq Inserting(u)
    PROVE  ClaimBound(u)'
<1>1. /\ Cardinality(Claim(u)') \in Nat /\ Cardinality(Claim(u)') <= Cardinality(Claim(u))
      /\ Cardinality(Inserting(u)') \in Nat
      /\ Cardinality(Inserting(u)') <= Cardinality(Inserting(u))
  BY ClaimFinite, SubsetCardinality
<1>2. Cardinality(Claim(u)) \in Nat /\ Cardinality(Inserting(u)) \in Nat
  BY ClaimFinite
<1> QED
  BY <1>1, <1>2, SlotsExist, StoreAssumption DEF ClaimBound

\* No row appears, changes its user or lives longer, the clock does not go
\* back, and no request comes to hold or insert a row.
Calm ==
    /\ clock' >= clock
    /\ \A i \in Idents : token'[i] \in {token[i], None}
    /\ \A s \in Requests :
          /\ req'[s].pc \in Renewing
                => req[s].pc \in Renewing /\ req'[s].ident = req[s].ident
          /\ req'[s].pc = "loginInsert"
                => req[s].pc = "loginInsert" /\ req'[s].user = req[s].user

LEMMA CalmShrinks ==
    ASSUME TypeOK, TypeOK', Calm, NEW u \in Users, ClaimBound(u)
    PROVE  ClaimBound(u)'
<1>1. Claim(u)' \subseteq Claim(u)
  <2> SUFFICES ASSUME NEW i \in Claim(u)' PROVE i \in Claim(u)
    OBVIOUS
  <2>1. i \in Idents /\ token'[i] # None /\ token'[i].user = u
    BY DEF Claim, TokensOf
  <2>2. token[i] = token'[i] /\ token[i] \in TokenRow
    BY <2>1 DEF Calm, TypeOK, TypeRest
  <2>3. token[i].expire \in Nat /\ clock \in Nat /\ clock' \in Nat
    BY <2>2, StoreAssumption DEF TokenRow, TypeOK, TypeRest, Time
  <2>4. CASE token'[i].expire >= clock'
    BY <2>1, <2>2, <2>3, <2>4 DEF Claim, TokensOf, Calm
  <2>5. CASE \E s \in Requests : req'[s].pc \in Renewing /\ req'[s].ident = i
    BY <2>1, <2>2, <2>5 DEF Claim, TokensOf, Calm
  <2> QED
    BY <2>4, <2>5 DEF Claim
<1>2. Inserting(u)' \subseteq Inserting(u)
  BY DEF Inserting, Calm
<1> QED
  BY <1>1, <1>2, ClaimShrinks

\* A request that goes to any other step holds and inserts nothing.
LEMMA CalmMove ==
    ASSUME TypeOK, NEW r \in Requests, NEW S, Moves(r, S),
           S \cap {"authUser", "authTouch", "loginInsert"} = {},
           UNCHANGED clock, \A i \in Idents : token'[i] \in {token[i], None}
    PROVE  Calm
<1>1. clock' >= clock
  BY StoreAssumption DEF TypeOK, TypeRest, Time
<1>2. req'[r].pc \notin {"authUser", "authTouch", "loginInsert"}
  BY DEF Moves
<1> QED
  BY <1>1, <1>2 DEF Calm, Moves, Renewing

LEMMA CalmAuthToken ==
    ASSUME TypeOK, TypeOK', NEW r \in Requests, AuthToken(r), NEW u \in Users, ClaimBound(u)
    PROVE  ClaimBound(u)'
<1>0. /\ req \in [Requests -> Request] /\ req[r] \in Request /\ Locals(req[r], Rows)
      /\ UNCHANGED <<clock, token>>
  BY DEF TypeOK, TypeRest, LocalsOK, AuthToken, tables
<1>1. CASE AsVisitor(r)
  <2>1. Moves(r, {"handler"})
    BY <1>1, FreshMoves DEF AsVisitor
  <2>2. Calm
    BY <1>0, <2>1, CalmMove
  <2> QED
    BY <2>2, CalmShrinks
<1>2. CASE ~AsVisitor(r)
  <2> DEFINE i == req[r].ident
  <2>1. /\ i \in Idents /\ token[i] # None /\ token[i].expire >= clock
        /\ req' = [req EXCEPT ![r].pc = "authUser", ![r].user = token[i].user,
                              ![r].expire = token[i].expire]
    BY <1>0, <1>2 DEF AuthToken, Locals, Accepted, Unexpired
  <2>2. /\ req'[r].pc = "authUser" /\ req'[r].ident = i
        /\ \A s \in Requests \ {r} : req'[s] = req[s]
    BY <1>0, <2>1 DEF Request
  <2>3. Claim(u)' \subseteq Claim(u)
    BY <1>0, <2>1, <2>2 DEF Claim, TokensOf
  <2>4. Inserting(u)' \subseteq Inserting(u)
    BY <2>2 DEF Inserting
  <2> QED
    BY <2>3, <2>4, ClaimShrinks
<1> QED
  BY <1>1, <1>2

LEMMA CalmAuthUser ==
    ASSUME TypeOK, NEW r \in Requests, AuthUser(r)
    PROVE  Calm
<1>0. /\ req \in [Requests -> Request] /\ req[r] \in Request
      /\ UNCHANGED <<clock, token>>
  BY DEF TypeOK, TypeRest, AuthUser, tables
<1>1. CASE AsVisitor(r)
  <2>1. Moves(r, {"handler"})
    BY <1>1, FreshMoves DEF AsVisitor
  <2> QED
    BY <1>0, <2>1, CalmMove
<1>2. CASE ~AsVisitor(r)
  <2>1. req[r].pc = "authUser" /\ req' = [req EXCEPT ![r].pc = "authTouch"]
    BY <1>2 DEF AuthUser, Goto
  <2>2. /\ req'[r].pc = "authTouch" /\ req'[r].ident = req[r].ident
        /\ \A s \in Requests \ {r} : req'[s] = req[s]
    BY <1>0, <2>1 DEF Request
  <2>3. clock' >= clock
    BY <1>0, StoreAssumption DEF TypeOK, TypeRest, Time
  <2> QED
    BY <1>0, <2>1, <2>2, <2>3 DEF Calm, Renewing
<1> QED
  BY <1>1, <1>2

\* The row that the middleware extends was held by its request.
LEMMA ClaimAuthTouch ==
    ASSUME TypeOK, NEW r \in Requests, AuthTouch(r), NEW u \in Users, ClaimBound(u)
    PROVE  ClaimBound(u)'
<1> DEFINE i == req[r].ident
<1>0. /\ req \in [Requests -> Request] /\ req[r] \in Request /\ i \in Idents
      /\ token \in [Idents -> TokenRow \cup {None}] /\ req[r].pc = "authTouch"
      /\ UNCHANGED clock
  BY DEF TypeOK, TypeRest, LocalsOK, Locals, AuthTouch
<1>1. req'[r] = [Fresh(req[r].op, i, "handler") EXCEPT !.auth = req[r].user]
  BY <1>0 DEF AuthTouch
<1>2. /\ req'[r].pc = "handler"
      /\ \A s \in Requests \ {r} : req'[s] = req[s]
  BY <1>0, <1>1 DEF Fresh, AuthTouch
<1>3. Inserting(u)' \subseteq Inserting(u)
  BY <1>2 DEF Inserting
<1>4. /\ \A j \in Idents \ {i} : token'[j] = token[j]
      /\ token[i] = None => token'[i] = None
      /\ token[i] # None => token'[i].user = token[i].user
  BY <1>0 DEF AuthTouch, Touched, TokenRow
<1>5. Claim(u)' \subseteq Claim(u)
  <2> SUFFICES ASSUME NEW j \in Claim(u)' PROVE j \in Claim(u)
    OBVIOUS
  <2>1. j \in Idents /\ token'[j] # None /\ token'[j].user = u
    BY DEF Claim, TokensOf
  <2>2. CASE j = i
    BY <1>0, <1>4, <2>1, <2>2 DEF Claim, TokensOf, Renewing
  <2>3. CASE j # i
    BY <1>0, <1>2, <1>4, <2>1, <2>3 DEF Claim, TokensOf, Renewing
  <2> QED
    BY <2>2, <2>3
<1> QED
  BY <1>3, <1>5, ClaimShrinks

\* A login that found room: what may still add to the active rows is held by
\* other requests, and each of them either holds a row or inserts one.
LEMMA ClaimLoginCount ==
    ASSUME TypeOK, TypeOK', NEW r \in Requests, LoginCount(r), NEW u \in Users, ClaimBound(u)
    PROVE  ClaimBound(u)'
<1>0. /\ req \in [Requests -> Request] /\ req[r] \in Request
      /\ UNCHANGED <<clock, token>>
  BY DEF TypeOK, TypeRest, LoginCount, tables
<1>1. CASE Finish(r)
  <2>1. Moves(r, {"idle"})
    BY <1>1, FinishMoves
  <2>2. Calm
    BY <1>0, <2>1, CalmMove
  <2> QED
    BY <2>2, CalmShrinks
<1>2. CASE ~Finish(r)
  <2>1. /\ ~AtSessionLimit(req[r].user)
        /\ req' = [req EXCEPT ![r].pc = "loginInsert"]
    BY <1>2 DEF LoginCount, Goto, Refuse
  <2>2. /\ req'[r].pc = "loginInsert" /\ req'[r].user = req[r].user
        /\ \A s \in Requests \ {r} : req'[s] = req[s]
    BY <1>0, <2>1 DEF Request
  <2>3. CASE req[r].user = u
    <3> DEFINE Holders == {s \in Requests : req'[s].pc \in Renewing}
               Held == {i \in Claim(u)' : ~(token[i].expire >= clock)}
    <3>1. /\ IsFiniteSet(ActiveTokens(u)) /\ Cardinality(ActiveTokens(u)) \in Nat
          /\ Cardinality(ActiveTokens(u)) <= MaxActiveSessions - 1
      <4>1. ActiveTokens(u) \subseteq Idents
        BY DEF ActiveTokens
      <4>2. IsFiniteSet(ActiveTokens(u)) /\ Cardinality(ActiveTokens(u)) \in Nat
        BY <4>1, StoreAssumption, SubsetCardinality
      <4> QED
        BY <2>1, <2>3, <4>2, StoreAssumption DEF AtSessionLimit
    <3>2. Claim(u)' \subseteq ActiveTokens(u) \cup Held
      BY <1>0 DEF Claim, ActiveTokens, TokensOf, Unexpired
    <3>3. Holders \cap Inserting(u)' = {} /\ Holders \subseteq Requests
          /\ Inserting(u)' \subseteq Requests
      BY DEF Inserting, Renewing
    <3>4. /\ Cardinality(Holders) \in Nat /\ Cardinality(Inserting(u)') \in Nat
          /\ Cardinality(Holders) + Cardinality(Inserting(u)') <= Cardinality(Requests)
      BY <3>3, StoreAssumption, DisjointCardinality
    <3>5. IsFiniteSet(Held) /\ Cardinality(Held) <= Cardinality(Holders)
      <4> DEFINE f == [s \in Requests |-> req'[s].ident]
      <4>1. Held \subseteq {f[s] : s \in Holders}
        BY <1>0 DEF Claim
      <4>2. IsFiniteSet(Holders)
        BY <3>3, StoreAssumption, SubsetCardinality
      <4> QED
        BY <4>1, <4>2, ImageCardinality
    <3>6. Cardinality(Held) \in Nat
      BY <3>5, FS_CardinalityType
    <3>7. Cardinality(Claim(u)') <= Cardinality(ActiveTokens(u)) + Cardinality(Held)
      <4> DEFINE U == ActiveTokens(u) \cup Held
                 J == ActiveTokens(u) \cap Held
      <4>1. /\ IsFiniteSet(U)
            /\ Cardinality(U) = Cardinality(ActiveTokens(u)) + Cardinality(Held)
                                  - Cardinality(J)
        BY <3>1, <3>5, FS_Union
      <4>2. Cardinality(J) \in Nat
        <5>1. J \subseteq ActiveTokens(u)
          OBVIOUS
        <5> QED
          BY <3>1, <5>1, SubsetCardinality
      <4>3. /\ Cardinality(Claim(u)') \in Nat /\ Cardinality(U) \in Nat
            /\ Cardinality(Claim(u)') <= Cardinality(U)
        BY <3>2, <4>1, SubsetCardinality
      <4> QED
        BY <3>1, <3>6, <4>1, <4>2, <4>3
    <3>8. Cardinality(Claim(u)') \in Nat
      <4>1. Claim(u)' \subseteq Idents
        BY DEF Claim, TokensOf
      <4> QED
        BY <4>1, StoreAssumption, SubsetCardinality
    <3> QED
      BY <3>1, <3>4, <3>5, <3>6, <3>7, <3>8, SlotsExist, StoreAssumption DEF ClaimBound
  <2>4. CASE req[r].user # u
    <3>1. Claim(u)' \subseteq Claim(u)
      BY <1>0, <2>2 DEF Claim, TokensOf, Renewing
    <3>2. Inserting(u)' \subseteq Inserting(u)
      BY <2>2, <2>4 DEF Inserting
    <3> QED
      BY <3>1, <3>2, ClaimShrinks
  <2> QED
    BY <2>3, <2>4
<1> QED
  BY <1>1, <1>2

LEMMA ClaimLoginInsert ==
    ASSUME TypeOK, TypeOK', NEW r \in Requests, LoginInsert(r), NEW u \in Users, ClaimBound(u)
    PROVE  ClaimBound(u)'
<1>0. /\ token \in [Idents -> TokenRow \cup {None}] /\ req[r].pc = "loginInsert"
      /\ UNCHANGED clock /\ req[r].user \in Users
  BY DEF TypeOK, TypeRest, LocalsOK, Locals, LoginInsert
<1>1. PICK i \in Idents :
         token' = [token EXCEPT ![i] = [user |-> req[r].user,
                                        expire |-> clock + AuthExpiresIn]]
  BY DEF LoginInsert
<1>2. /\ token'[i].user = req[r].user
      /\ \A j \in Idents \ {i} : token'[j] = token[j]
  BY <1>0, <1>1
<1>3. req'[r].pc = "idle" /\ \A s \in Requests \ {r} : req'[s] = req[s]
  BY FinishMoves DEF LoginInsert, Moves
<1>4. CASE req[r].user = u
  <2>1. Claim(u)' \subseteq Claim(u) \cup {i}
    BY <1>0, <1>2, <1>3 DEF Claim, TokensOf, Renewing
  <2>2. Inserting(u)' \subseteq Inserting(u) \ {r} /\ r \in Inserting(u)
    BY <1>0, <1>3, <1>4 DEF Inserting
  <2>3. /\ IsFiniteSet(Claim(u) \cup {i})
        /\ Cardinality(Claim(u) \cup {i}) <= Cardinality(Claim(u)) + 1
    <3>1. IsFiniteSet(Claim(u)) /\ Cardinality(Claim(u)) \in Nat
      BY ClaimFinite
    <3>2. /\ IsFiniteSet(Claim(u) \cup {i})
          /\ \/ Cardinality(Claim(u) \cup {i}) = Cardinality(Claim(u))
             \/ Cardinality(Claim(u) \cup {i}) = Cardinality(Claim(u)) + 1
      BY <3>1, FS_AddElement
    <3> QED
      BY <3>1, <3>2
  <2>4. /\ IsFiniteSet(Inserting(u) \ {r})
        /\ Cardinality(Inserting(u) \ {r}) = Cardinality(Inserting(u)) - 1
    BY <2>2, ClaimFinite, FS_RemoveElement
  <2>5. /\ Cardinality(Claim(u)') \in Nat /\ Cardinality(Claim(u) \cup {i}) \in Nat
        /\ Cardinality(Claim(u)') <= Cardinality(Claim(u) \cup {i})
    BY <2>1, <2>3, SubsetCardinality
  <2>6. /\ Cardinality(Inserting(u)') \in Nat
        /\ Cardinality(Inserting(u)') <= Cardinality(Inserting(u) \ {r})
    BY <2>2, <2>4, SubsetCardinality
  <2> QED
    BY <2>3, <2>4, <2>5, <2>6, ClaimFinite, SlotsExist, StoreAssumption DEF ClaimBound
<1>5. CASE req[r].user # u
  <2>1. Claim(u)' \subseteq Claim(u)
    BY <1>0, <1>2, <1>3, <1>5 DEF Claim, TokensOf, Renewing
  <2>2. Inserting(u)' \subseteq Inserting(u)
    BY <1>3 DEF Inserting
  <2> QED
    BY <2>1, <2>2, ClaimShrinks
<1> QED
  BY <1>4, <1>5

\* The other steps of a request only take sessions away.
LEMMA ClaimSession ==
    ASSUME TypeOK, TypeOK', NEW r \in Requests, SessionStep(r), NEW u \in Users, ClaimBound(u)
    PROVE  ClaimBound(u)'
<1> DEFINE Other == {"idle", "authToken", "handler", "loginCount", "tokenFind",
                     "tokenDelete", "updateSave"}
<1>1. ASSUME Moves(r, Other), UNCHANGED clock,
             \A i \in Idents : token'[i] \in {token[i], None}
      PROVE  ClaimBound(u)'
  <2>1. Other \cap {"authUser", "authTouch", "loginInsert"} = {}
    OBVIOUS
  <2> HIDE DEF Other
  <2>2. Calm
    BY <1>1, <2>1, CalmMove
  <2> QED
    BY <2>2, CalmShrinks
<1>2. CASE LoginFind(r)
  <2>1. UNCHANGED <<clock, token>>
    BY <1>2 DEF LoginFind, tables
  <2>2. Moves(r, {"idle", "loginCount"})
    <3>1. CASE Finish(r)
      BY <3>1, FinishMoves DEF Moves
    <3>2. CASE ~Finish(r)
      <4>1. PICK v \in Users :
               req' = [req EXCEPT ![r].pc = "loginCount", ![r].user = v,
                                  ![r].row = user[v]]
        BY <1>2, <3>2, Zenon DEF LoginFind, Refuse
      <4>2. req \in [Requests -> Request] /\ req[r] \in Request
        BY DEF TypeOK, TypeRest
      <4> QED
        BY <4>1, <4>2 DEF Moves, Request
    <3> QED
      BY <3>1, <3>2
  <2> QED
    BY <1>1, <2>1, <2>2 DEF Moves
<1>3. CASE AuthToken(r)
  BY <1>3, CalmAuthToken
<1>4. CASE AuthUser(r)
  BY <1>4, CalmAuthUser, CalmShrinks
<1>5. CASE AuthTouch(r)
  BY <1>5, ClaimAuthTouch
<1>6. CASE LoginCount(r)
  BY <1>6, ClaimLoginCount
<1>7. CASE LoginInsert(r)
  BY <1>7, ClaimLoginInsert
<1>8. CASE ~(\/ LoginFind(r) \/ AuthToken(r) \/ AuthUser(r) \/ AuthTouch(r)
             \/ LoginCount(r) \/ LoginInsert(r))
  <2>1. Moves(r, Other) /\ UNCHANGED clock
    BY <1>8, SessionMoves DEF Moves
  <2>2. \A i \in Idents : token'[i] \in {token[i], None}
    BY <1>8 DEF SessionStep, Arrive, LogoutFind, RemoveTokenStart, TokenFind, TokenDelete,
       MeDetails, tables, TypeOK, TypeRest
  <2> QED
    BY <1>1, <2>1, <2>2
<1> QED
  BY <1>2, <1>3, <1>4, <1>5, <1>6, <1>7, <1>8

LEMMA ClaimElsewhere ==
    ASSUME TypeOK, TypeOK', NEW r \in Requests, RecoveryStep(r) \/ UserStep(r),
           NEW u \in Users, ClaimBound(u)
    PROVE  ClaimBound(u)'
<1> DEFINE Other == Steps \ {"authUser", "authTouch", "loginInsert"}
<1>1. UNCHANGED <<clock, token>> /\ Moves(r, Other)
  BY RecoveryMoves, UserMoves DEF Moves, Steps
<1>2. Other \cap {"authUser", "authTouch", "loginInsert"} = {}
  OBVIOUS
<1> HIDE DEF Other
<1>3. Calm
  BY <1>1, <1>2, CalmMove
<1> QED
  BY <1>3, CalmShrinks

LEMMA ClaimBreak ==
    ASSUME TypeOK, TypeOK', NEW r \in Requests, Break(r), NEW u \in Users, ClaimBound(u)
    PROVE  ClaimBound(u)'
<1>1. Moves(r, {"idle"}) /\ UNCHANGED <<clock, token>>
  BY BreakMoves DEF tables
<1>2. Calm
  BY <1>1, CalmMove
<1> QED
  BY <1>2, CalmShrinks

LEMMA ClaimBackground ==
    ASSUME TypeOK, TypeOK', Tick \/ SessionBackground \/ RecoveryBackground,
           NEW u \in Users, ClaimBound(u)
    PROVE  ClaimBound(u)'
<1>1. UNCHANGED req
  BY BackgroundLeavesRequests
<1>2. clock' >= clock
  BY StoreAssumption DEF Tick, SessionBackground, CleanTokens, Exit, Start, DetachedFind, RemoveToken, RemoveTokenFails,
     RecoveryBackground, CleanCodes, RemoveCode, RemoveCodeFails, TypeOK, TypeRest, Time
<1>3. \A i \in Idents : token'[i] \in {token[i], None}
  BY DEF Tick, SessionBackground, CleanTokens, Exit, Start, DetachedFind, RemoveToken, RemoveTokenFails, RecoveryBackground,
     CleanCodes, RemoveCode, RemoveCodeFails, tables, TypeOK, TypeRest
<1>4. Calm
  BY <1>1, <1>2, <1>3 DEF Calm
<1> QED
  BY <1>4, CalmShrinks

LEMMA ClaimInit == Init => ClaimInv
<1> SUFFICES ASSUME Init, NEW u \in Users PROVE ClaimBound(u)
  BY DEF ClaimInv
<1>1. Claim(u) = {} /\ Inserting(u) = {}
  BY DEF Init, Claim, TokensOf, Inserting, Idle, Fresh
<1> QED
  BY <1>1, FS_EmptySet, SlotsExist, StoreAssumption DEF ClaimBound

LEMMA ClaimNext == TypeOK /\ TypeOK' /\ ClaimInv /\ [Next]_vars => ClaimInv'
<1> SUFFICES ASSUME TypeOK, TypeOK', ClaimInv, [Next]_vars, NEW u \in Users
             PROVE  ClaimBound(u)'
  BY DEF ClaimInv
<1>1. ClaimBound(u)
  BY DEF ClaimInv
<1>2. CASE UNCHANGED vars
  BY <1>1, <1>2 DEF vars, ClaimBound, Claim, Inserting, TokensOf
<1>3. ASSUME NEW r \in Requests,
             SessionStep(r) \/ RecoveryStep(r) \/ UserStep(r) \/ Break(r)
      PROVE  ClaimBound(u)'
  BY <1>1, <1>3, ClaimSession, ClaimElsewhere, ClaimBreak
<1>4. CASE Tick \/ SessionBackground \/ RecoveryBackground
  BY <1>1, <1>4, ClaimBackground
<1> QED
  BY <1>2, <1>3, <1>4 DEF Next, Step

LEMMA ClaimSuffices == ClaimInv => SessionBound
<1> SUFFICES ASSUME ClaimInv, NEW u \in Users
             PROVE  Cardinality(ActiveTokens(u))
                      <= MaxActiveSessions + Cardinality(Requests) - 1
  BY DEF SessionBound
<1>1. ActiveTokens(u) \subseteq Claim(u)
  BY DEF ActiveTokens, Claim, TokensOf, Unexpired
<1>2. /\ Cardinality(ActiveTokens(u)) \in Nat
      /\ Cardinality(ActiveTokens(u)) <= Cardinality(Claim(u))
  BY <1>1, ClaimFinite, SubsetCardinality
<1> QED
  BY <1>2, ClaimFinite, SlotsExist, StoreAssumption DEF ClaimInv, ClaimBound

\* A user's active sessions exceed the limit by fewer than there are requests
\* in flight at one time, whatever login, the middleware and the clock do.
THEOREM SessionsAreBounded == Spec => []SessionBound
<1>1. TypeOK /\ TypeOK' /\ ClaimInv /\ [Next]_vars => ClaimInv'
  BY ClaimNext
<1> QED
  BY <1>1, ClaimInit, ClaimSuffices, TypeCorrect, PTL DEF Spec

(***************************************************************************)
(* Recovery codes.                                                         *)
(***************************************************************************)

\* The requests that will insert a code for u.
Sending(u) == {s \in Requests : req[s].pc = "recoverInsert" /\ req[s].user = u}

SendBound(u) ==
    Cardinality(RecentCodes(u)) + Cardinality(Sending(u))
        <= MaxRecoveries + Cardinality(Requests) - 1
SendInv == \A u \in Users : SendBound(u)

LEMMA SendFinite ==
    ASSUME NEW u
    PROVE  /\ IsFiniteSet(RecentCodes(u)) /\ Cardinality(RecentCodes(u)) \in Nat
           /\ IsFiniteSet(Sending(u)) /\ Cardinality(Sending(u)) \in Nat
<1>1. RecentCodes(u) \subseteq Codes /\ Sending(u) \subseteq Requests
  BY DEF RecentCodes, Sending
<1> QED
  BY <1>1, StoreAssumption, SubsetCardinality

\* No row appears or becomes more recent, and no request comes to insert one.
CalmCodes ==
    /\ clock' >= clock
    /\ \A c \in Codes : \/ recovery'[c] = None
                        \/ /\ recovery[c] # None
                           /\ recovery'[c].user = recovery[c].user
                           /\ recovery'[c].created = recovery[c].created
    /\ \A s \in Requests :
          req'[s].pc = "recoverInsert"
            => req[s].pc = "recoverInsert" /\ req'[s].user = req[s].user

LEMMA SendShrinks ==
    ASSUME TypeOK, TypeOK', CalmCodes, NEW u \in Users, SendBound(u)
    PROVE  SendBound(u)'
<1>1. RecentCodes(u)' \subseteq RecentCodes(u)
  <2> SUFFICES ASSUME NEW c \in RecentCodes(u)' PROVE c \in RecentCodes(u)
    OBVIOUS
  <2>1. /\ c \in Codes /\ recovery'[c] # None /\ recovery'[c].user = u
        /\ recovery'[c].created >= clock' - AttemptWindow
    BY DEF RecentCodes
  <2>2. /\ recovery[c] # None /\ recovery[c] \in RecoveryRow
        /\ recovery[c].user = u /\ recovery[c].created = recovery'[c].created
    BY <2>1 DEF CalmCodes, TypeOK, TypeRest
  <2>3. /\ recovery[c].created \in Int /\ clock \in Int /\ clock' \in Int
        /\ clock' >= clock /\ AttemptWindow \in Int
    BY <2>2, StoreAssumption DEF RecoveryRow, TypeOK, TypeRest, Time, CalmCodes
  <2>4. recovery[c].created >= clock - AttemptWindow
    BY <2>1, <2>2, <2>3
  <2> QED
    BY <2>1, <2>2, <2>4 DEF RecentCodes
<1>2. Sending(u)' \subseteq Sending(u)
  BY DEF Sending, CalmCodes
<1>3. /\ Cardinality(RecentCodes(u)') \in Nat
      /\ Cardinality(RecentCodes(u)') <= Cardinality(RecentCodes(u))
      /\ Cardinality(Sending(u)') \in Nat
      /\ Cardinality(Sending(u)') <= Cardinality(Sending(u))
  BY <1>1, <1>2, SendFinite, SubsetCardinality
<1> QED
  BY <1>3, SendFinite, SlotsExist, StoreAssumption DEF SendBound

\* A recovery that found room: its insert and those of the others are at most
\* as many as there are requests.
LEMMA SendCount ==
    ASSUME TypeOK, NEW r \in Requests, RecoverCount(r), req'[r].pc = "recoverInsert",
           NEW u \in Users, SendBound(u)
    PROVE  SendBound(u)'
<1>0. /\ req \in [Requests -> Request] /\ req[r] \in Request
      /\ UNCHANGED <<clock, recovery>>
  BY DEF TypeOK, TypeRest, RecoverCount, tables
<1>1. ~AtRecoveryLimit(req[r].user) /\ Goto(r, "recoverInsert")
  <2>1. ~Finish(r)
    BY FinishMoves DEF Moves
  <2> QED
    BY <2>1 DEF RecoverCount, Refuse
<1>2. req'[r].user = req[r].user /\ \A s \in Requests \ {r} : req'[s] = req[s]
  BY <1>0, <1>1 DEF Request, Goto
<1>3. RecentCodes(u)' = RecentCodes(u)
  BY <1>0 DEF RecentCodes
<1>4. CASE req[r].user = u
  <2>1. Cardinality(RecentCodes(u)) <= MaxRecoveries - 1
    BY <1>1, <1>4, SendFinite, StoreAssumption DEF AtRecoveryLimit
  <2>2. Sending(u)' \subseteq Requests
    BY DEF Sending
  <2>3. Cardinality(Sending(u)') \in Nat /\ Cardinality(Sending(u)') <= Cardinality(Requests)
    BY <2>2, StoreAssumption, SubsetCardinality
  <2> QED
    BY <1>3, <2>1, <2>3, SendFinite, SlotsExist, StoreAssumption DEF SendBound
<1>5. CASE req[r].user # u
  <2>1. Sending(u)' = Sending(u)
    BY <1>1, <1>2, <1>5, GotoMoves DEF Sending, Moves
  <2> QED
    BY <1>3, <2>1 DEF SendBound
<1> QED
  BY <1>4, <1>5

LEMMA SendInsert ==
    ASSUME TypeOK, TypeOK', NEW r \in Requests, RecoverInsert(r), NEW u \in Users, SendBound(u)
    PROVE  SendBound(u)'
<1>0. /\ recovery \in [Codes -> RecoveryRow \cup {None}] /\ req[r].pc = "recoverInsert"
      /\ UNCHANGED clock
  BY DEF TypeOK, TypeRest, RecoverInsert
<1>1. PICK c \in Codes :
         recovery' = [recovery EXCEPT ![c] =
                        [user |-> req[r].user, created |-> clock,
                         expire |-> clock + RecoveryExpiresIn, used |-> FALSE]]
  BY DEF RecoverInsert
<1>2. /\ recovery'[c].user = req[r].user
      /\ \A d \in Codes \ {c} : recovery'[d] = recovery[d]
  BY <1>0, <1>1
<1>3. req'[r].pc = "idle" /\ \A s \in Requests \ {r} : req'[s] = req[s]
  BY FinishMoves DEF RecoverInsert, Moves
<1>4. CASE req[r].user = u
  <2>1. RecentCodes(u)' \subseteq RecentCodes(u) \cup {c}
    BY <1>0, <1>2 DEF RecentCodes
  <2>2. Sending(u)' \subseteq Sending(u) \ {r} /\ r \in Sending(u)
    BY <1>0, <1>3, <1>4 DEF Sending
  <2>3. /\ IsFiniteSet(RecentCodes(u) \cup {c})
        /\ Cardinality(RecentCodes(u) \cup {c}) <= Cardinality(RecentCodes(u)) + 1
    <3>1. IsFiniteSet(RecentCodes(u)) /\ Cardinality(RecentCodes(u)) \in Nat
      BY SendFinite
    <3>2. /\ IsFiniteSet(RecentCodes(u) \cup {c})
          /\ \/ Cardinality(RecentCodes(u) \cup {c}) = Cardinality(RecentCodes(u))
             \/ Cardinality(RecentCodes(u) \cup {c}) = Cardinality(RecentCodes(u)) + 1
      BY <3>1, FS_AddElement
    <3> QED
      BY <3>1, <3>2
  <2>4. /\ IsFiniteSet(Sending(u) \ {r})
        /\ Cardinality(Sending(u) \ {r}) = Cardinality(Sending(u)) - 1
    BY <2>2, SendFinite, FS_RemoveElement
  <2>5. /\ Cardinality(RecentCodes(u)') \in Nat /\ Cardinality(RecentCodes(u) \cup {c}) \in Nat
        /\ Cardinality(RecentCodes(u)') <= Cardinality(RecentCodes(u) \cup {c})
    BY <2>1, <2>3, SubsetCardinality
  <2>6. /\ Cardinality(Sending(u)') \in Nat
        /\ Cardinality(Sending(u)') <= Cardinality(Sending(u) \ {r})
    BY <2>2, <2>4, SubsetCardinality
  <2> QED
    BY <2>3, <2>4, <2>5, <2>6, SendFinite, SlotsExist, StoreAssumption DEF SendBound
<1>5. CASE req[r].user # u
  <2>1. RecentCodes(u)' \subseteq RecentCodes(u)
    BY <1>0, <1>2, <1>5 DEF RecentCodes
  <2>2. Sending(u)' \subseteq Sending(u)
    BY <1>3 DEF Sending
  <2>3. /\ Cardinality(RecentCodes(u)') \in Nat
        /\ Cardinality(RecentCodes(u)') <= Cardinality(RecentCodes(u))
        /\ Cardinality(Sending(u)') \in Nat
        /\ Cardinality(Sending(u)') <= Cardinality(Sending(u))
    BY <2>1, <2>2, SendFinite, SubsetCardinality
  <2> QED
    BY <2>3, SendFinite, SlotsExist, StoreAssumption DEF SendBound
<1> QED
  BY <1>4, <1>5

\* The steps that write the table account_recovery.
LEMMA CodeWrites ==
    ASSUME TypeOK, NEW r \in Requests, RecoveryStep(r)
    PROVE  \/ UNCHANGED recovery
           \/ RecoverInsert(r)
           \/ \E c \in Codes : recovery' = [recovery EXCEPT ![c] = None]
           \/ CodeMark(r)
BY DEF RecoveryStep, RecoverFind, RecoverCount, ChangeFind, ChangeUser, ChangeSave,
   CodesFind, CodesDelete, CheckCurrentPassword, tables

\* Whatever else a request does, its code keeps its user and its age.
LEMMA CodesKept ==
    ASSUME TypeOK, TypeOK', NEW r \in Requests,
           SessionStep(r) \/ RecoveryStep(r) \/ UserStep(r), ~RecoverInsert(r)
    PROVE  /\ UNCHANGED clock
           /\ \A c \in Codes : \/ recovery'[c] = None
                               \/ /\ recovery[c] # None
                                  /\ recovery'[c].user = recovery[c].user
                                  /\ recovery'[c].created = recovery[c].created
<1>1. UNCHANGED clock
  BY SessionMoves, RecoveryMoves, UserMoves
<1>2. CASE UNCHANGED recovery
  BY <1>1, <1>2
<1>3. ASSUME NEW c \in Codes, recovery' = [recovery EXCEPT ![c] = None]
      PROVE  \A d \in Codes : recovery'[d] \in {recovery[d], None}
  BY <1>3 DEF TypeOK, TypeRest
<1>4. CASE CodeMark(r)
  <2>1. /\ recovery \in [Codes -> RecoveryRow \cup {None}]
        /\ recovery' = [recovery EXCEPT ![req[r].code] = Marked(r)]
    BY <1>4 DEF CodeMark, TypeOK, TypeRest
  <2>2. ASSUME NEW c \in Codes, recovery'[c] # None
        PROVE  /\ recovery[c] # None /\ recovery'[c].user = recovery[c].user
               /\ recovery'[c].created = recovery[c].created
    BY <2>1, <2>2 DEF Marked, RecoveryRow
  <2> QED
    BY <1>1, <2>2
<1> QED
  BY <1>1, <1>2, <1>3, <1>4, SessionMoves, UserMoves, CodeWrites

LEMMA SendStep ==
    ASSUME TypeOK, TypeOK', NEW r \in Requests,
           SessionStep(r) \/ RecoveryStep(r) \/ UserStep(r), NEW u \in Users, SendBound(u)
    PROVE  SendBound(u)'
<1>1. CASE RecoverInsert(r)
  BY <1>1, SendInsert
<1>2. CASE req'[r].pc = "recoverInsert"
  <2>1. RecoveryStep(r)
    BY <1>2, SessionMoves, UserMoves DEF Moves
  <2>2. ~Finish(r)
    BY <1>2, FinishMoves DEF Moves
  <2>3. ~RecoverFind(r)
    <3> SUFFICES ASSUME RecoverFind(r) PROVE FALSE
      OBVIOUS
    <3>1. PICK v \in Users :
             req' = [req EXCEPT ![r].pc = "recoverCount", ![r].user = v]
      BY <2>2, Zenon DEF RecoverFind, Refuse
    <3> QED
      BY <1>2, <3>1 DEF TypeOK, TypeRest, Request
  <2>4. ~ChangeUser(r)
    BY <1>2, <2>2, GotoMoves DEF ChangeUser, Refuse, Moves
  <2>5. RecoverCount(r)
    BY <1>2, <2>1, <2>3, <2>4, RecoveryMoves DEF Moves
  <2> QED
    BY <1>2, <2>5, SendCount
<1>3. CASE ~RecoverInsert(r) /\ req'[r].pc # "recoverInsert"
  <2>1. \A s \in Requests \ {r} : req'[s] = req[s]
    BY SessionMoves, RecoveryMoves, UserMoves DEF Moves
  <2>2. clock' >= clock
    BY <1>3, CodesKept, StoreAssumption DEF TypeOK, TypeRest, Time
  <2>3. CalmCodes
    BY <1>3, <2>1, <2>2, CodesKept DEF CalmCodes
  <2> QED
    BY <2>3, SendShrinks
<1> QED
  BY <1>1, <1>2, <1>3

LEMMA SendBreak ==
    ASSUME TypeOK, TypeOK', NEW r \in Requests, Break(r), NEW u \in Users, SendBound(u)
    PROVE  SendBound(u)'
<1>1. Moves(r, {"idle"}) /\ UNCHANGED <<clock, recovery>>
  BY BreakMoves DEF tables
<1>2. clock' >= clock
  BY <1>1, StoreAssumption DEF TypeOK, TypeRest, Time
<1>3. CalmCodes
  BY <1>1, <1>2 DEF CalmCodes, Moves
<1> QED
  BY <1>3, SendShrinks

LEMMA SendBackground ==
    ASSUME TypeOK, TypeOK', Tick \/ SessionBackground \/ RecoveryBackground,
           NEW u \in Users, SendBound(u)
    PROVE  SendBound(u)'
<1>1. UNCHANGED req
  BY BackgroundLeavesRequests
<1>2. clock' >= clock
  BY StoreAssumption DEF Tick, SessionBackground, CleanTokens, Exit, Start, DetachedFind, RemoveToken, RemoveTokenFails,
     RecoveryBackground, CleanCodes, RemoveCode, RemoveCodeFails, TypeOK, TypeRest, Time
<1>3. \A c \in Codes : recovery'[c] \in {recovery[c], None}
  BY DEF Tick, SessionBackground, CleanTokens, Exit, Start, DetachedFind, RemoveToken, RemoveTokenFails, RecoveryBackground,
     CleanCodes, RemoveCode, RemoveCodeFails, tables, TypeOK, TypeRest
<1>4. CalmCodes
  BY <1>1, <1>2, <1>3 DEF CalmCodes
<1> QED
  BY <1>4, SendShrinks

\* The codes a user was sent within the window exceed the limit by fewer than
\* there are requests in flight at one time.
THEOREM RecoveriesAreBounded == Spec => []RecoveryBound
<1>1. Init => SendInv
  <2> SUFFICES ASSUME Init, NEW u \in Users PROVE SendBound(u)
    BY DEF SendInv
  <2>1. RecentCodes(u) = {} /\ Sending(u) = {}
    BY DEF Init, RecentCodes, Sending, Idle, Fresh
  <2> QED
    BY <2>1, FS_EmptySet, SlotsExist, StoreAssumption DEF SendBound
<1>2. TypeOK /\ TypeOK' /\ SendInv /\ [Next]_vars => SendInv'
  <2> SUFFICES ASSUME TypeOK, TypeOK', SendInv, [Next]_vars, NEW u \in Users
               PROVE  SendBound(u)'
    BY DEF SendInv
  <2>1. SendBound(u)
    BY DEF SendInv
  <2>2. CASE UNCHANGED vars
    BY <2>1, <2>2 DEF vars, SendBound, RecentCodes, Sending
  <2>3. ASSUME NEW r \in Requests,
               SessionStep(r) \/ RecoveryStep(r) \/ UserStep(r) \/ Break(r)
        PROVE  SendBound(u)'
    BY <2>1, <2>3, SendStep, SendBreak
  <2>4. CASE Tick \/ SessionBackground \/ RecoveryBackground
    BY <2>1, <2>4, SendBackground
  <2> QED
    BY <2>2, <2>3, <2>4 DEF Next, Step
<1>3. SendInv => RecoveryBound
  <2> SUFFICES ASSUME SendInv, NEW u \in Users
               PROVE  Cardinality(RecentCodes(u))
                        <= MaxRecoveries + Cardinality(Requests) - 1
    BY DEF RecoveryBound
  <2> QED
    BY SendFinite, SlotsExist, StoreAssumption DEF SendInv, SendBound
<1> QED
  BY <1>1, <1>2, <1>3, TypeCorrect, PTL DEF Spec

(***************************************************************************)
(* How often a code is spent. As long as its row is there, whoever spent   *)
(* it is still in flight, on its way to remove the row, or was cut off.    *)
(* So a request that finds the row, and those that found it before or      *)
(* spent the code and were not cut off, are different requests.            *)
(***************************************************************************)

Spending == {"changeUser", "changeSave"}
Clearing == {"codesFind", "codesDelete", "codeMark"}

Spenders(c) == {s \in Requests : req[s].pc \in Spending /\ req[s].code = c}
Removers(c) == {s \in Requests : req[s].pc \in Clearing /\ req[s].code = c}

\* The changes made with c, but for those that were cut off.
Full(c) == spent[c].made - spent[c].cut

SpendBound(c) ==
    /\ Full(c) + Cardinality(Spenders(c)) <= Cardinality(Requests)
    /\ recovery[c] # None => c \in issued /\ Full(c) <= Cardinality(Removers(c))
    /\ c \notin issued => Full(c) = 0

LEMMA FullInt ==
    ASSUME TypeOK, NEW c \in Codes
    PROVE  Full(c) \in Int /\ spent[c].made \in Nat /\ spent[c].cut \in Nat
BY DEF TypeOK, TypeRest, Uses, Full

\* The code that a request holds is its user's, and is among those it removes.
HoldOK(q) ==
    q.pc \in Spending \cup Clearing =>
        /\ q.code \in issued
        /\ recovery[q.code] # None =>
              /\ recovery[q.code].user = q.user
              /\ q.pc = "codesDelete" => q.code \in q.found
              /\ q.pc # "codeMark"

HoldInv == \A s \in Requests : HoldOK(req[s])
SpendInv == HoldInv /\ \A c \in Codes : SpendBound(c)

LEMMA SpendFinite ==
    ASSUME NEW c
    PROVE  /\ IsFiniteSet(Spenders(c)) /\ Cardinality(Spenders(c)) \in Nat
           /\ IsFiniteSet(Removers(c)) /\ Cardinality(Removers(c)) \in Nat
<1>1. Spenders(c) \subseteq Requests /\ Removers(c) \subseteq Requests
  BY DEF Spenders, Removers
<1> QED
  BY <1>1, StoreAssumption, SubsetCardinality

\* A step that spends nothing and finds no new code.
LEMMA SpendShrinks ==
    ASSUME TypeOK, NEW c \in Codes, SpendBound(c), spent'[c] = spent[c],
           issued \subseteq issued',
           recovery'[c] # None => \/ recovery[c] # None /\ Removers(c) \subseteq Removers(c)'
                                  \/ c \in issued' \ issued,
           Spenders(c)' \subseteq Spenders(c)
    PROVE  SpendBound(c)'
<1>1. /\ Cardinality(Spenders(c)') \in Nat
      /\ Cardinality(Spenders(c)') <= Cardinality(Spenders(c))
  BY SpendFinite, SubsetCardinality
<1>2. IsFiniteSet(Removers(c)') /\ Cardinality(Removers(c)') \in Nat
  <2>1. Removers(c)' \subseteq Requests
    BY DEF Removers
  <2> QED
    BY <2>1, StoreAssumption, SubsetCardinality
<1>3. Removers(c) \subseteq Removers(c)' => Cardinality(Removers(c)) <= Cardinality(Removers(c)')
  BY <1>2, SubsetCardinality
<1>4. Full(c) \in Int /\ Full(c)' = Full(c)
  BY FullInt DEF Full
<1>5. (Full(c) + Cardinality(Spenders(c)) <= Cardinality(Requests))'
  BY <1>1, <1>4, SpendFinite, SlotsExist DEF SpendBound
<1>6. (recovery[c] # None => c \in issued /\ Full(c) <= Cardinality(Removers(c)))'
  <2> SUFFICES ASSUME recovery'[c] # None
               PROVE  c \in issued' /\ Full(c)' <= Cardinality(Removers(c)')
    OBVIOUS
  <2>1. CASE recovery[c] # None /\ Removers(c) \subseteq Removers(c)'
    BY <1>2, <1>3, <1>4, <2>1, SpendFinite DEF SpendBound
  <2>2. CASE c \in issued' \ issued
    BY <1>2, <1>4, <2>2 DEF SpendBound
  <2> QED
    BY <2>1, <2>2
<1>7. (c \notin issued => Full(c) = 0)'
  BY <1>4 DEF SpendBound
<1> QED
  BY <1>5, <1>6, <1>7 DEF SpendBound

\* Only the change of a password by recovery holds a code.
LEMMA OtherStepsHoldNothing ==
    ASSUME TypeOK, NEW r \in Requests,
           \/ SessionStep(r) \/ UserStep(r) \/ RecoverFind(r) \/ RecoverCount(r)
           \/ RecoverInsert(r) \/ CheckCurrentPassword(r)
    PROVE  /\ req[r].pc \notin Spending \cup Clearing
           /\ req'[r].pc \notin Spending \cup Clearing
           /\ \A s \in Requests \ {r} : req'[s] = req[s]
           /\ UNCHANGED spent
<1>1. req[r].pc \notin Spending \cup Clearing
  BY DEF SessionStep, Arrive, AuthToken, AuthUser, AuthTouch, LoginFind, LoginCount,
     LoginInsert, LogoutFind, RemoveTokenStart, TokenFind, TokenDelete, MeDetails,
     UserStep, CreateFind, CreateInsert, ConfirmSend, EmailUpdateFind, EmailUpdateUser,
     ConfirmFind, ConfirmSave, UpdateFind, UpdateEmail, UpdateSave, StatusFind, RestoreFind,
     SnapshotSave, DeleteFind, SoftDelete, RecoverFind, RecoverCount, RecoverInsert,
     CheckCurrentPassword, At, Spending, Clearing
<1>2. CASE SessionStep(r)
  BY <1>1, <1>2, SessionMoves DEF Moves, Spending, Clearing
<1>3. CASE UserStep(r)
  BY <1>1, <1>3, UserMoves DEF Moves, Spending, Clearing
<1>4. CASE \/ RecoverFind(r) \/ RecoverCount(r) \/ RecoverInsert(r) \/ CheckCurrentPassword(r)
  <2>1. RecoveryStep(r) /\ UNCHANGED spent
    BY <1>4 DEF RecoveryStep, RecoverFind, RecoverCount, RecoverInsert, CheckCurrentPassword
  <2>2. \A s \in Requests \ {r} : req'[s] = req[s]
    BY <2>1, RecoveryMoves DEF Moves
  <2>3. req'[r].pc \notin Spending \cup Clearing
    <3>1. CASE Finish(r)
      BY <3>1, FinishMoves DEF Moves, Spending, Clearing
    <3>2. CASE Goto(r, "recoverInsert")
      BY <3>2, GotoMoves DEF Moves, Spending, Clearing
    <3>3. CASE RecoverFind(r) /\ ~Finish(r)
      <4>1. PICK u \in Users :
               req' = [req EXCEPT ![r].pc = "recoverCount", ![r].user = u]
        BY <3>3, Zenon DEF RecoverFind, Refuse
      <4> QED
        BY <4>1 DEF TypeOK, TypeRest, Request, Spending, Clearing
    <3> QED
      BY <1>4, <3>1, <3>2, <3>3 DEF RecoverCount, RecoverInsert, CheckCurrentPassword,
         Refuse, Fail
  <2> QED
    BY <1>1, <2>1, <2>2, <2>3
<1> QED
  BY <1>2, <1>3, <1>4

\* What was generated stays so, and the row of a code that was generated is
\* removed or keeps its user.
LEMMA IssuedCodesKept ==
    ASSUME TypeOK, TypeOK', NEW r \in Requests,
           SessionStep(r) \/ RecoveryStep(r) \/ UserStep(r)
    PROVE  /\ issued \subseteq issued'
           /\ \A c \in Codes \cap issued :
                 recovery'[c] # None
                   => recovery[c] # None /\ recovery'[c].user = recovery[c].user
           /\ \A c \in Codes :
                 recovery'[c] # None => recovery[c] # None \/ c \in issued' \ issued
<1>1. issued \subseteq issued'
  <2>1. CASE SessionStep(r)
    BY <2>1 DEF SessionStep, Arrive, AuthToken, AuthUser, AuthTouch, LoginFind, LoginCount,
       LoginInsert, LogoutFind, RemoveTokenStart, TokenFind, TokenDelete, MeDetails, tables
  <2>2. CASE RecoveryStep(r)
    BY <2>2 DEF RecoveryStep, RecoverFind, RecoverCount, RecoverInsert, ChangeFind,
       ChangeUser, ChangeSave, CodesFind, CodesDelete, CodeMark, CheckCurrentPassword, tables
  <2> QED
    BY <2>1, <2>2, UserMoves
<1>2. CASE RecoverInsert(r)
  <2>1. PICK c \in Codes \ issued :
           /\ \A d \in Codes \ {c} : recovery'[d] = recovery[d]
           /\ issued' = issued \cup {c}
    BY <1>2 DEF RecoverInsert, TypeOK, TypeRest
  <2> QED
    BY <1>1, <2>1
<1>3. CASE ~RecoverInsert(r)
  BY <1>1, <1>3, CodesKept
<1> QED
  BY <1>2, <1>3

\* The requests that a step leaves alone.
LEMMA HoldOthers ==
    ASSUME TypeOK, TypeOK', HoldInv, NEW s \in Requests, req'[s] = req[s],
           issued \subseteq issued',
           \A c \in Codes \cap issued :
                 recovery'[c] # None
                   => recovery[c] # None /\ recovery'[c].user = recovery[c].user
    PROVE  HoldOK(req[s])'
<1>1. req[s].pc \in Spending \cup Clearing => req[s].code \in Codes
  BY DEF TypeOK, LocalsOK, Locals, Spending, Clearing
<1>2. HoldOK(req[s])
  BY DEF HoldInv
<1> QED
  BY <1>1, <1>2 DEF HoldOK

\* The steps of passwordRecoverChange, as far as codes are concerned.
LEMMA HoldStep ==
    ASSUME TypeOK, TypeOK', SpendInv, NEW r \in Requests,
           SessionStep(r) \/ RecoveryStep(r) \/ UserStep(r)
    PROVE  HoldOK(req[r])'
<1>0. /\ req \in [Requests -> Request] /\ req[r] \in Request /\ HoldOK(req[r])
      /\ req[r].pc \in Spending \cup Clearing => req[r].code \in Codes
  BY DEF TypeOK, TypeRest, LocalsOK, Locals, Spending, Clearing, SpendInv, HoldInv
<1>1. CASE req'[r].pc \notin Spending \cup Clearing
  BY <1>1 DEF HoldOK
<1>2. CASE ChangeFind(r) /\ ~Finish(r)
  <2>1. PICK c \in Codes :
           /\ recovery[c] # None
           /\ req' = [req EXCEPT ![r].pc = "changeUser", ![r].code = c,
                                 ![r].user = recovery[c].user]
           /\ UNCHANGED <<recovery, issued>>
    BY <1>2, Zenon DEF ChangeFind, Refuse, tables
  <2>2. req'[r].pc = "changeUser" /\ req'[r].code = c /\ req'[r].user = recovery[c].user
    BY <1>0, <2>1 DEF Request
  <2> QED
    BY <2>1, <2>2 DEF HoldOK, SpendInv, SpendBound
<1>3. CASE (ChangeUser(r) /\ ~Finish(r)) \/ ChangeSave(r)
  <2>1. /\ \E pc \in {"changeSave", "codesFind"} : Goto(r, pc)
        /\ req[r].pc \in Spending /\ UNCHANGED <<recovery, issued>>
    BY <1>3 DEF ChangeUser, ChangeSave, Refuse, tables, Spending
  <2>2. /\ req'[r].pc \in {"changeSave", "codesFind"}
        /\ req'[r].code = req[r].code /\ req'[r].user = req[r].user
    BY <1>0, <2>1 DEF Goto, Request
  <2> QED
    BY <1>0, <2>1, <2>2 DEF HoldOK
<1>4. CASE CodesFind(r) /\ ~Finish(r)
  <2>1. /\ req' = [req EXCEPT ![r].pc = "codesDelete", ![r].found = CodesToRemove(r)]
        /\ req[r].pc \in Clearing /\ UNCHANGED <<recovery, issued>>
    BY <1>4 DEF CodesFind, Refuse, tables, Clearing
  <2>2. /\ req'[r].pc = "codesDelete" /\ req'[r].found = CodesToRemove(r)
        /\ req'[r].code = req[r].code /\ req'[r].user = req[r].user
    BY <1>0, <2>1 DEF Request
  <2> QED
    BY <1>0, <2>1, <2>2 DEF HoldOK, CodesToRemove, CodesOf
<1>5. CASE CodesDelete(r)
  <2>1. PICK c \in req[r].found \cap Codes :
           /\ recovery' = [recovery EXCEPT ![c] = None]
           /\ IF req[r].found # {c}
              THEN req' = [req EXCEPT ![r].found = @ \ {c}]
              ELSE req' = [req EXCEPT ![r].found = {}, ![r].pc = "codeMark"]
    BY <1>5 DEF CodesDelete
  <2>2. recovery'[c] = None /\ \A d \in Codes \ {c} : recovery'[d] = recovery[d]
    BY <2>1 DEF TypeOK, TypeRest
  <2>3. req[r].pc = "codesDelete" /\ UNCHANGED issued
    BY <1>5 DEF CodesDelete
  <2>4. CASE req[r].found # {c}
    <3>1. /\ req'[r].pc = "codesDelete" /\ req'[r].found = req[r].found \ {c}
          /\ req'[r].code = req[r].code /\ req'[r].user = req[r].user
      BY <1>0, <2>1, <2>3, <2>4 DEF Request
    <3> QED
      BY <1>0, <2>2, <2>3, <3>1 DEF HoldOK, Clearing
  <2>5. CASE req[r].found = {c}
    <3>1. /\ req'[r].pc = "codeMark"
          /\ req'[r].code = req[r].code /\ req'[r].user = req[r].user
      BY <1>0, <2>1, <2>5 DEF Request
    <3> QED
      BY <1>0, <2>2, <2>3, <2>5, <3>1 DEF HoldOK, Clearing
  <2> QED
    BY <2>4, <2>5
<1>6. CASE CodeMark(r)
  BY <1>1, <1>6, FinishMoves DEF CodeMark, Moves, Spending, Clearing
<1>7. CASE Finish(r)
  BY <1>1, <1>7, FinishMoves DEF Moves, Spending, Clearing
<1>8. CASE \/ SessionStep(r) \/ UserStep(r) \/ RecoverFind(r) \/ RecoverCount(r)
           \/ RecoverInsert(r) \/ CheckCurrentPassword(r)
  BY <1>1, <1>8, OtherStepsHoldNothing
<1> QED
  BY <1>2, <1>3, <1>4, <1>5, <1>6, <1>7, <1>8 DEF RecoveryStep

\* A request that found the row: those that spent its code before are still
\* in flight, and it is none of them.
LEMMA SpendFind ==
    ASSUME TypeOK, NEW r \in Requests, ChangeFind(r), ~Finish(r),
           NEW c \in Codes, SpendBound(c)
    PROVE  SpendBound(c)'
<1>0. req \in [Requests -> Request] /\ req[r] \in Request
  BY DEF TypeOK, TypeRest
<1>1. PICK d \in Codes :
         /\ recovery[d] # None
         /\ req' = [req EXCEPT ![r].pc = "changeUser", ![r].code = d,
                               ![r].user = recovery[d].user]
         /\ UNCHANGED <<recovery, issued, spent>>
  BY Zenon DEF ChangeFind, Refuse, tables
<1>2. /\ req'[r].pc = "changeUser" /\ req'[r].code = d
      /\ \A s \in Requests \ {r} : req'[s] = req[s]
      /\ req[r].pc = "handler"
  BY <1>0, <1>1 DEF Request, ChangeFind, At
<1>3. Removers(c)' = Removers(c)
  BY <1>2 DEF Removers, Clearing
<1>4. CASE d = c
  <2>1. /\ Spenders(c)' \cap Removers(c) = {}
        /\ Spenders(c)' \subseteq Requests /\ Removers(c) \subseteq Requests
    BY <1>2 DEF Spenders, Removers, Spending, Clearing
  <2>2. /\ Cardinality(Spenders(c)') \in Nat
        /\ Cardinality(Spenders(c)') + Cardinality(Removers(c)) <= Cardinality(Requests)
    BY <2>1, StoreAssumption, DisjointCardinality
  <2>3. Full(c) \in Int /\ Full(c) <= Cardinality(Removers(c)) /\ Full(c)' = Full(c)
    BY <1>1, <1>4, FullInt DEF Full, SpendBound
  <2> QED
    BY <1>1, <1>3, <2>2, <2>3, SpendFinite, SlotsExist DEF SpendBound
<1>5. CASE d # c
  <2>1. Spenders(c)' = Spenders(c)
    BY <1>2, <1>5 DEF Spenders, Spending
  <2> QED
    BY <1>1, <1>3, <2>1 DEF SpendBound, Full
<1> QED
  BY <1>4, <1>5

\* A request that spends the code goes from the spenders to the removers.
LEMMA SpendSave ==
    ASSUME TypeOK, NEW r \in Requests, ChangeSave(r), HoldOK(req[r]),
           NEW c \in Codes, SpendBound(c)
    PROVE  SpendBound(c)'
<1> DEFINE d == req[r].code
<1>0. /\ req \in [Requests -> Request] /\ req[r] \in Request /\ d \in Codes
      /\ spent \in [Codes -> Uses] /\ req[r].pc = "changeSave"
      /\ UNCHANGED <<recovery, issued>>
      /\ spent' = [spent EXCEPT ![d].made = @ + 1]
  BY DEF TypeOK, TypeRest, LocalsOK, Locals, ChangeSave
<1>1. /\ req'[r].pc = "codesFind" /\ req'[r].code = d
      /\ \A s \in Requests \ {r} : req'[s] = req[s]
  BY <1>0 DEF ChangeSave, Goto, Request
<1>2. CASE d = c
  <2>1. /\ r \in Spenders(c) /\ Spenders(c)' = Spenders(c) \ {r}
        /\ r \notin Removers(c) /\ Removers(c)' = Removers(c) \cup {r}
    BY <1>0, <1>1, <1>2 DEF Spenders, Removers, Spending, Clearing
  <2>2. Cardinality(Spenders(c)') = Cardinality(Spenders(c)) - 1
    BY <2>1, SpendFinite, FS_RemoveElement
  <2>3. Cardinality(Removers(c)') = Cardinality(Removers(c)) + 1
    BY <2>1, SpendFinite, FS_AddElement
  <2>4. Full(c) \in Int /\ Full(c)' = Full(c) + 1
    <3>1. spent'[c].made = spent[c].made + 1 /\ spent'[c].cut = spent[c].cut
      BY <1>0, <1>2 DEF Uses
    <3> QED
      BY <3>1, FullInt DEF Full
  <2>5. c \in issued
    BY <1>0, <1>2 DEF HoldOK, Spending
  <2> QED
    BY <1>0, <2>2, <2>3, <2>4, <2>5, SpendFinite, SlotsExist DEF SpendBound
<1>3. CASE d # c
  <2>1. Spenders(c)' = Spenders(c) /\ Removers(c)' = Removers(c)
    BY <1>0, <1>1, <1>3 DEF Spenders, Removers, Spending, Clearing
  <2>2. spent'[c] = spent[c]
    BY <1>0, <1>3
  <2> QED
    BY <1>0, <2>1, <2>2 DEF SpendBound, Full
<1> QED
  BY <1>2, <1>3

\* A request that is cut off: one that leaves its code was a remover of it.
LEMMA SpendBreak ==
    ASSUME TypeOK, NEW r \in Requests, Break(r), HoldOK(req[r]),
           NEW c \in Codes, SpendBound(c)
    PROVE  SpendBound(c)'
<1> DEFINE d == req[r].code
<1>0. /\ spent \in [Codes -> Uses] /\ UNCHANGED <<recovery, issued>>
      /\ req'[r].pc = "idle" /\ \A s \in Requests \ {r} : req'[s] = req[s]
      /\ req[r].pc \in Clearing => d \in Codes
  BY BreakMoves DEF TypeOK, TypeRest, LocalsOK, Locals, Moves, tables, Clearing
<1>1. Spenders(c)' \subseteq Spenders(c) /\ Removers(c)' = Removers(c) \ {r}
  BY <1>0 DEF Spenders, Removers, Spending, Clearing
<1>2. /\ Cardinality(Spenders(c)') \in Nat
      /\ Cardinality(Spenders(c)') <= Cardinality(Spenders(c))
  BY <1>1, SpendFinite, SubsetCardinality
<1>3. CASE LeavesCode(r) /\ d = c
  <2>1. r \in Removers(c)
    BY <1>3 DEF LeavesCode, Removers, Clearing
  <2>2. Cardinality(Removers(c)') = Cardinality(Removers(c)) - 1
    BY <1>1, <2>1, SpendFinite, FS_RemoveElement
  <2>3. Full(c)' = Full(c) - 1
    <3>1. spent' = [spent EXCEPT ![c].cut = @ + 1]
      BY <1>3 DEF Break
    <3>2. spent'[c].made = spent[c].made /\ spent'[c].cut = spent[c].cut + 1
      BY <1>0, <3>1 DEF Uses
    <3> QED
      BY <3>2, FullInt DEF Full
  <2>4. c \in issued
    BY <1>3 DEF LeavesCode, SpendBound
  <2> QED
    BY <1>0, <1>2, <2>2, <2>3, <2>4, SpendFinite, SlotsExist, FullInt DEF SpendBound
<1>4. CASE ~(LeavesCode(r) /\ d = c)
  <2>1. Full(c)' = Full(c)
    BY <1>0, <1>4 DEF Break, Full
  <2>2. recovery[c] # None => r \notin Removers(c)
    BY <1>4 DEF HoldOK, LeavesCode, Removers, Clearing
  <2>3. recovery[c] # None => Removers(c)' = Removers(c)
    BY <1>1, <2>2
  <2> QED
    BY <1>0, <1>2, <2>1, <2>3, SpendFinite, SlotsExist, FullInt DEF SpendBound
<1> QED
  BY <1>3, <1>4

LEMMA SpendStep ==
    ASSUME TypeOK, TypeOK', SpendInv, NEW r \in Requests,
           SessionStep(r) \/ RecoveryStep(r) \/ UserStep(r), NEW c \in Codes
    PROVE  SpendBound(c)'
<1>0. /\ req \in [Requests -> Request] /\ req[r] \in Request
      /\ HoldOK(req[r]) /\ SpendBound(c) /\ issued \subseteq issued'
  BY IssuedCodesKept DEF TypeOK, TypeRest, SpendInv, HoldInv
\* It spends nothing, goes on with the code it holds, and does not end as a
\* remover while the row is there.
<1>1. ASSUME UNCHANGED spent, \A s \in Requests \ {r} : req'[s] = req[s],
             \/ req'[r].pc \notin Spending
             \/ req[r].pc \in Spending /\ req'[r].code = req[r].code,
             \/ req[r].pc \notin Clearing
             \/ req'[r].pc \in Clearing /\ req'[r].code = req[r].code
             \/ recovery'[req[r].code] = None
      PROVE  SpendBound(c)'
  <2>1. Spenders(c)' \subseteq Spenders(c)
    BY <1>1 DEF Spenders
  <2>2. recovery'[c] # None => Removers(c) \subseteq Removers(c)'
    BY <1>1 DEF Removers
  <2>3. recovery'[c] # None => recovery[c] # None \/ c \in issued' \ issued
    BY IssuedCodesKept
  <2>4. spent'[c] = spent[c]
    BY <1>1
  <2> QED
    BY <1>0, <2>1, <2>2, <2>3, <2>4, SpendShrinks
<1>2. CASE \/ SessionStep(r) \/ UserStep(r) \/ RecoverFind(r) \/ RecoverCount(r)
           \/ RecoverInsert(r) \/ CheckCurrentPassword(r)
  <2>1. /\ UNCHANGED spent /\ \A s \in Requests \ {r} : req'[s] = req[s]
        /\ req'[r].pc \notin Spending /\ req[r].pc \notin Clearing
    BY <1>2, OtherStepsHoldNothing
  <2> QED
    BY <1>1, <2>1
<1>3. CASE ChangeFind(r)
  <2>1. CASE Finish(r)
    <3>1. /\ UNCHANGED spent /\ \A s \in Requests \ {r} : req'[s] = req[s]
          /\ req'[r].pc \notin Spending /\ req[r].pc \notin Clearing
      BY <1>3, <2>1, FinishMoves DEF ChangeFind, At, Moves, Spending, Clearing
    <3> QED
      BY <1>1, <3>1
  <2>2. CASE ~Finish(r)
    BY <1>0, <1>3, <2>2, SpendFind
  <2> QED
    BY <2>1, <2>2
<1>4. CASE ChangeUser(r)
  <2>1. UNCHANGED spent /\ req[r].pc = "changeUser"
    BY <1>4 DEF ChangeUser
  <2>2. CASE Finish(r)
    <3>1. /\ \A s \in Requests \ {r} : req'[s] = req[s]
          /\ req'[r].pc \notin Spending /\ req[r].pc \notin Clearing
      BY <2>1, <2>2, FinishMoves DEF Moves, Spending, Clearing
    <3> QED
      BY <1>1, <2>1, <3>1
  <2>3. CASE Goto(r, "changeSave")
    <3>1. /\ \A s \in Requests \ {r} : req'[s] = req[s]
          /\ req[r].pc \in Spending /\ req'[r].code = req[r].code
          /\ req[r].pc \notin Clearing
      BY <1>0, <2>1, <2>3 DEF Goto, Request, Spending, Clearing
    <3> QED
      BY <1>1, <2>1, <3>1
  <2> QED
    BY <1>4, <2>2, <2>3 DEF ChangeUser, Refuse
<1>5. CASE ChangeSave(r)
  BY <1>0, <1>5, SpendSave
<1>6. CASE CodesFind(r)
  <2>1. UNCHANGED <<spent, recovery>> /\ req[r].pc = "codesFind"
    BY <1>6 DEF CodesFind, tables
  <2>2. CASE CodesToRemove(r) = {}
    <3>1. /\ \A s \in Requests \ {r} : req'[s] = req[s]
          /\ req'[r].pc \notin Spending
      BY <1>6, <2>2, FinishMoves DEF CodesFind, Refuse, Moves, Spending
    <3>2. req[r].code \in Codes
      BY <2>1 DEF TypeOK, LocalsOK, Locals
    <3>3. recovery'[req[r].code] = None
      BY <1>0, <2>1, <2>2, <3>2 DEF HoldOK, Clearing, CodesToRemove, CodesOf
    <3> QED
      BY <1>1, <2>1, <3>1, <3>3
  <2>3. CASE CodesToRemove(r) # {}
    <3>1. req' = [req EXCEPT ![r].pc = "codesDelete", ![r].found = CodesToRemove(r)]
      BY <1>6, <2>3 DEF CodesFind
    <3>2. /\ \A s \in Requests \ {r} : req'[s] = req[s]
          /\ req'[r].pc = "codesDelete" /\ req'[r].code = req[r].code
      BY <1>0, <3>1 DEF Request
    <3> QED
      BY <1>1, <2>1, <3>2 DEF Spending, Clearing
  <2> QED
    BY <2>2, <2>3
<1>7. CASE CodesDelete(r)
  <2>1. PICK d \in req[r].found \cap Codes :
           IF req[r].found # {d}
           THEN req' = [req EXCEPT ![r].found = @ \ {d}]
           ELSE req' = [req EXCEPT ![r].found = {}, ![r].pc = "codeMark"]
    BY <1>7 DEF CodesDelete
  <2>2. UNCHANGED spent /\ req[r].pc = "codesDelete"
    BY <1>7 DEF CodesDelete
  <2>3. /\ \A s \in Requests \ {r} : req'[s] = req[s]
        /\ req'[r].pc \in {"codesDelete", "codeMark"} /\ req'[r].code = req[r].code
    BY <1>0, <2>1, <2>2 DEF Request
  <2> QED
    BY <1>1, <2>2, <2>3 DEF Spending, Clearing
<1>8. CASE CodeMark(r)
  <2>1. /\ UNCHANGED spent /\ req[r].pc = "codeMark"
        /\ recovery' = [recovery EXCEPT ![req[r].code] = Marked(r)]
    BY <1>8 DEF CodeMark
  <2>2. /\ \A s \in Requests \ {r} : req'[s] = req[s]
        /\ req'[r].pc \notin Spending
    BY <1>8, FinishMoves DEF CodeMark, Moves, Spending
  <2>3. req[r].code \in Codes /\ recovery \in [Codes -> RecoveryRow \cup {None}]
    BY <2>1 DEF TypeOK, TypeRest, LocalsOK, Locals
  <2>4. recovery'[req[r].code] = None
    BY <1>0, <2>1, <2>3 DEF HoldOK, Clearing, Marked
  <2> QED
    BY <1>1, <2>1, <2>2, <2>4
<1> QED
  BY <1>2, <1>3, <1>4, <1>5, <1>6, <1>7, <1>8 DEF RecoveryStep

LEMMA SpendNext == TypeOK /\ TypeOK' /\ SpendInv /\ [Next]_vars => SpendInv'
<1> SUFFICES ASSUME TypeOK, TypeOK', SpendInv, [Next]_vars PROVE SpendInv'
  OBVIOUS
<1>1. CASE UNCHANGED vars
  BY <1>1 DEF vars, SpendInv, HoldInv, HoldOK, SpendBound, Full, Spenders, Removers
<1>2. ASSUME NEW r \in Requests, SessionStep(r) \/ RecoveryStep(r) \/ UserStep(r)
      PROVE  SpendInv'
  <2>1. ASSUME NEW s \in Requests PROVE HoldOK(req[s])'
    <3>1. CASE s = r
      BY <1>2, <3>1, HoldStep
    <3>2. CASE s # r
      <4>1. req'[s] = req[s]
        BY <1>2, <3>2, SessionMoves, RecoveryMoves, UserMoves DEF Moves
      <4> QED
        BY <1>2, <4>1, IssuedCodesKept, HoldOthers DEF SpendInv
    <3> QED
      BY <3>1, <3>2
  <2>2. \A c \in Codes : SpendBound(c)'
    BY <1>2, SpendStep
  <2> QED
    BY <2>1, <2>2 DEF SpendInv, HoldInv
<1>4. ASSUME NEW r \in Requests, Break(r) PROVE SpendInv'
  <2>1. UNCHANGED <<recovery, issued>> /\ \A s \in Requests \ {r} : req'[s] = req[s]
    BY <1>4, BreakMoves DEF Moves, tables
  <2>2. req'[r].pc = "idle"
    BY <1>4, BreakMoves DEF Moves
  <2>3. ASSUME NEW s \in Requests PROVE HoldOK(req[s])'
    <3>1. CASE s = r
      BY <2>2, <3>1 DEF HoldOK, Spending, Clearing
    <3>2. CASE s # r
      BY <2>1, <3>2 DEF HoldOK, SpendInv, HoldInv
    <3> QED
      BY <3>1, <3>2
  <2>4. \A c \in Codes : SpendBound(c)'
    BY <1>4, SpendBreak DEF SpendInv, HoldInv
  <2> QED
    BY <2>3, <2>4 DEF SpendInv, HoldInv
<1>3. CASE Tick \/ SessionBackground \/ RecoveryBackground
  <2>1. UNCHANGED <<req, spent, issued>>
    BY <1>3, BackgroundLeavesRequests DEF Tick, SessionBackground, CleanTokens, Exit, Start, DetachedFind,
       RemoveToken, RemoveTokenFails, RecoveryBackground, CleanCodes, RemoveCode, RemoveCodeFails, tables
  <2>2. \A c \in Codes : recovery'[c] \in {recovery[c], None}
    BY <1>3 DEF Tick, SessionBackground, CleanTokens, Exit, Start, DetachedFind, RemoveToken, RemoveTokenFails,
       RecoveryBackground, CleanCodes, RemoveCode, RemoveCodeFails, tables, TypeOK, TypeRest
  <2>3. ASSUME NEW s \in Requests PROVE HoldOK(req[s])'
    <3>1. \A c \in Codes \cap issued :
             recovery'[c] # None
               => recovery[c] # None /\ recovery'[c].user = recovery[c].user
      BY <2>2
    <3> QED
      BY <2>1, <3>1, HoldOthers DEF SpendInv
  <2>4. ASSUME NEW c \in Codes PROVE SpendBound(c)'
    <3>1. Spenders(c)' = Spenders(c) /\ Removers(c)' = Removers(c)
      BY <2>1 DEF Spenders, Removers
    <3>2. recovery'[c] # None => recovery[c] # None
      BY <2>2
    <3> QED
      BY <2>1, <3>1, <3>2 DEF SpendInv, SpendBound, Full
  <2> QED
    BY <2>3, <2>4 DEF SpendInv, HoldInv
<1> QED
  BY <1>1, <1>2, <1>3, <1>4 DEF Next, Step

\* A recovery code changes the password no more often than there are requests
\* in flight at one time, but for the changes that were cut off between the save
\* of the password and the removal of the code (updatePassword).
THEOREM CodesAreSpentOnce == Spec => []CodeSpentBound
<1>1. Init => SpendInv
  <2> SUFFICES ASSUME Init PROVE SpendInv
    OBVIOUS
  <2>1. \A s \in Requests : HoldOK(req[s])
    BY DEF Init, HoldOK, Idle, Fresh, Spending, Clearing
  <2>2. ASSUME NEW c \in Codes PROVE SpendBound(c)
    <3>1. Spenders(c) = {}
      BY DEF Init, Spenders, Idle, Fresh, Spending
    <3>2. recovery[c] = None /\ Full(c) = 0
      BY DEF Init, Full
    <3> QED
      BY <3>1, <3>2, FS_EmptySet, SlotsExist DEF SpendBound
  <2> QED
    BY <2>1, <2>2 DEF SpendInv, HoldInv
<1>2. TypeOK /\ SpendInv => CodeSpentBound
  <2> SUFFICES ASSUME TypeOK, SpendInv, NEW c \in Codes
               PROVE  spent[c].made <= Cardinality(Requests) + spent[c].cut
    BY DEF CodeSpentBound
  <2>1. Full(c) + Cardinality(Spenders(c)) <= Cardinality(Requests)
    BY DEF SpendInv, SpendBound
  <2> QED
    BY <2>1, FullInt, SpendFinite, SlotsExist DEF Full
<1> QED
  BY <1>1, <1>2, SpendNext, TypeCorrect, PTL DEF Spec
=============================================================================
