------------------------------ MODULE Sessions ------------------------------
(***************************************************************************)
(* Sessions: the auth middleware every request passes, login, logout, the  *)
(* removal of session tokens, the removals the middleware starts without   *)
(* waiting for them, and the cron job that deletes old token rows.         *)
(***************************************************************************)
EXTENDS AccountStore

(***************************************************************************)
(* The auth middleware.                                                    *)
(***************************************************************************)

\* A request without an Authorization header is a visitor at once. Operators
\* of the back office (AdminOps) sign in with accounts that are not among
\* Users: their sessions are not modelled, only what they do.
Arrive(r) ==
    /\ process = "up" /\ req[r].pc = "idle"
    /\ \E op \in Ops, i \in (issued \cap Idents) \cup {None} :
          /\ op \in AdminOps => i = None
          /\ req' = [req EXCEPT ![r] =
                       Fresh(op, i, IF i = None THEN "handler" ELSE "authToken")]
    /\ UNCHANGED <<clock, tables, background, spent>>

\* The request goes on as a visitor.
AsVisitor(r) == req' = [req EXCEPT ![r] = Fresh(req[r].op, None, "handler")]

\* removeTokenById: the promise is not awaited and has no catch.
DetachRemoval(i) ==
    /\ lookup[i] < MaxDetached
    /\ lookup' = [lookup EXCEPT ![i] = @ + 1]

\* A row found by its ident is good until it expires.
AcceptedEvenExpired(i) == token[i] # None
Accepted(i) == Unexpired(i)

\* findByToken; a missing row or, in production, another user agent makes the
\* request a visitor; an expired row is also removed in the background.
AuthToken(r) ==
    /\ req[r].pc = "authToken"
    /\ LET i == req[r].ident
       IN \/ /\ token[i] = None \/ Accepted(i)
             /\ AsVisitor(r) /\ UNCHANGED lookup
          \/ /\ token[i] # None /\ ~Accepted(i)
             /\ AsVisitor(r) /\ DetachRemoval(i)
          \/ /\ Accepted(i)
             /\ req' = [req EXCEPT ![r].pc = "authUser",
                                   ![r].user = token[i].user,
                                   ![r].expire = token[i].expire]
             /\ UNCHANGED lookup
    /\ UNCHANGED <<clock, tables, removing, expunging, process, spent>>

\* Only an active user signs in.
SignsInWithAnyStatus(u) == Visible(u)
SignsIn(u) == ActiveUser(u)

\* The owner is read by id: if deleted or not active, the row is removed in
\* the background and the request goes on as a visitor.
AuthUser(r) ==
    /\ req[r].pc = "authUser"
    /\ \/ SignsIn(req[r].user) /\ Goto(r, "authTouch") /\ UNCHANGED lookup
       \/ /\ ~SignsIn(req[r].user)
          /\ AsVisitor(r) /\ DetachRemoval(req[r].ident)
    /\ UNCHANGED <<clock, tables, removing, expunging, process, spent>>

\* The expiry moves when little is left of the one that was read at AuthToken.
Renewed(r) == req[r].expire - clock < AuthRefreshExpiresIn

\* The row after an upsert of what the request holds of it.
TouchedOrMade(r) ==
    IF Renewed(r)
    THEN [user |-> req[r].user, expire |-> clock + AuthExpiresIn]
    ELSE token[req[r].ident]

\* The row after the UPDATE by id: a row that is gone stays gone.
Touched(r) ==
    IF token[req[r].ident] # None /\ Renewed(r)
    THEN [token[req[r].ident] EXCEPT !.expire = clock + AuthExpiresIn]
    ELSE token[req[r].ident]

AuthTouch(r) ==
    /\ req[r].pc = "authTouch"
    /\ token' = [token EXCEPT ![req[r].ident] = Touched(r)]
    /\ req' = [req EXCEPT ![r] = [Fresh(req[r].op, req[r].ident, "handler")
                                   EXCEPT !.auth = req[r].user]]
    /\ UNCHANGED <<clock, user, recovery, issued, link, background, spent>>

(***************************************************************************)
(* login                                                                   *)
(***************************************************************************)

\* findByEmail and checkPassword. Refused: someone already signed in, no such
\* user, a user that is not active, a wrong password.
LoginFind(r) ==
    /\ At(r, "login", "handler")
    /\ \/ Refuse(r)
       \/ \E u \in Users :
             /\ req[r].auth = None /\ ActiveUser(u)
             /\ req' = [req EXCEPT ![r].pc = "loginCount", ![r].user = u,
                                   ![r].row = user[u]]
    /\ UNCHANGED <<clock, tables, background, spent>>

\* getAuthValidTokens and the limit of sessions.
PastSessionLimit(u) == Cardinality(ActiveTokens(u)) > MaxActiveSessions
AtSessionLimit(u) == Cardinality(ActiveTokens(u)) >= MaxActiveSessions

LoginCount(r) ==
    /\ req[r].pc = "loginCount"
    /\ IF AtSessionLimit(req[r].user) THEN Refuse(r) ELSE Goto(r, "loginInsert")
    /\ UNCHANGED <<clock, tables, background, spent>>

\* setupAuthToken: a new uuid, valid for AuthExpiresIn.
LoginInsert(r) ==
    /\ req[r].pc = "loginInsert"
    /\ \E i \in Idents \ issued :
          /\ token' = [token EXCEPT ![i] = [user |-> req[r].user,
                                            expire |-> clock + AuthExpiresIn]]
          /\ issued' = issued \cup {i}
    /\ Finish(r)
    /\ UNCHANGED <<clock, user, recovery, link, background, spent>>

(***************************************************************************)
(* logout and removeToken                                                  *)
(***************************************************************************)

\* requiredAuth, then findByToken once more; its row may be gone by now.
LogoutFind(r) ==
    /\ At(r, "logout", "handler")
    /\ IF req[r].auth # None /\ token[req[r].ident] # None
       THEN Goto(r, "tokenFind")
       ELSE Refuse(r)
    /\ UNCHANGED <<clock, tables, background, spent>>

\* A visitor may remove a session whose ident it knows; any other ident is
\* refused.
RemoveTokenStart(r) ==
    /\ At(r, "removeToken", "handler")
    /\ \/ Refuse(r)
       \/ \E i \in issued \cap Idents :
             req' = [req EXCEPT ![r].pc = "tokenFind", ![r].ident = i]
    /\ UNCHANGED <<clock, tables, background, spent>>

\* RepositoryAbstract.delete, first half: the rows are selected, and none is
\* a NotFoundError. removeAccountTokenByIdent selects one, the update of a
\* user (removeAccountTokenForUser) all of the user's.
Selected(r) ==
    IF req[r].op = "update"
    THEN TokensOf(req[r].user)
    ELSE {i \in {req[r].ident} : token[i] # None}

TokenFind(r) ==
    /\ req[r].pc = "tokenFind"
    /\ IF Selected(r) = {}
       THEN Refuse(r)
       ELSE req' = [req EXCEPT ![r].pc = "tokenDelete", ![r].found = Selected(r)]
    /\ UNCHANGED <<clock, tables, background, spent>>

\* Second half: every selected row is removed by id in a statement of its
\* own, in any order. Removing a row that is gone is no error.
TokenDelete(r) ==
    /\ req[r].pc = "tokenDelete"
    /\ \E i \in req[r].found \cap Idents :
          /\ token' = [token EXCEPT ![i] = None]
          /\ IF req[r].found # {i}
             THEN req' = [req EXCEPT ![r].found = @ \ {i}]
             ELSE IF req[r].op = "update"
             THEN req' = [req EXCEPT ![r].found = {}, ![r].pc = "updateSave"]
             ELSE Finish(r)
    /\ UNCHANGED <<clock, user, recovery, issued, link, background, spent>>

\* meDetails, meSessions, meEdit: the authentication, and 401 without. meEdit
\* writes a name and a language, which nothing else here depends on.
MeDetails(r) ==
    /\ At(r, "meDetails", "handler")
    /\ Finish(r)
    /\ UNCHANGED <<clock, tables, background, spent>>

(***************************************************************************)
(* Work nobody waits for                                                   *)
(***************************************************************************)

\* The SELECT of a detached removal. With no row left delete() throws, as it
\* does when the statement fails: the rejection is not handled, and server.ts
\* shuts the server down.
DetachedFind(i) ==
    /\ lookup[i] > 0
    /\ lookup' = [lookup EXCEPT ![i] = @ - 1]
    /\ \/ token[i] # None /\ removing' = removing \cup {i} /\ UNCHANGED process
       \/ process' = "stopping" /\ UNCHANGED removing
    /\ UNCHANGED <<clock, tables, expunging, req, spent>>

\* The rows that expired long ago, at the last instant included.
TokensLongOutdated ==
    {i \in Idents : token[i] # None /\ token[i].expire < clock - TokenRetention}
OutdatedTokens ==
    {i \in Idents : token[i] # None /\ token[i].expire <= clock - TokenRetention}

\* cleanAccountToken, while the process runs: SELECT the rows that expired long
\* ago. Finding none is a NotFoundError that executeCron takes for "0 removed".
CleanTokens ==
    /\ process # "exited"
    /\ OutdatedTokens # {} /\ removing' = removing \cup OutdatedTokens
    /\ UNCHANGED <<clock, tables, lookup, expunging, process, req, spent>>

\* The DELETE of a row that one of the two selected.
RemoveToken(i) ==
    /\ i \in removing
    /\ removing' = removing \ {i}
    /\ token' = [token EXCEPT ![i] = None]
    /\ UNCHANGED <<clock, user, recovery, issued, link, lookup, expunging, process,
                   req, spent>>

\* Or it fails: cron logs that, and of a detached removal it is a rejection that
\* nobody handles.
RemoveTokenFails(i) ==
    /\ i \in removing
    /\ removing' = removing \ {i}
    /\ process' \in {process, "stopping"}
    /\ UNCHANGED <<clock, tables, lookup, expunging, req, spent>>

\* The process exits, whatever made it stop: no request is left (it cut them off
\* just before), and what it did beside them is forgotten.
Exit ==
    /\ process # "exited" /\ \A r \in Requests : req[r].pc = "idle"
    /\ process' = "exited"
    /\ lookup' = [i \in Idents |-> 0] /\ removing' = {} /\ expunging' = {}
    /\ UNCHANGED <<clock, tables, req, spent>>

\* It may be started again, by hand or by a process manager.
Start ==
    /\ process = "exited" /\ process' = "up"
    /\ UNCHANGED <<clock, tables, lookup, removing, expunging, req, spent>>
-----------------------------------------------------------------------------
SessionStep(r) ==
    \/ Arrive(r) \/ AuthToken(r) \/ AuthUser(r) \/ AuthTouch(r)
    \/ LoginFind(r) \/ LoginCount(r) \/ LoginInsert(r)
    \/ LogoutFind(r) \/ RemoveTokenStart(r) \/ TokenFind(r) \/ TokenDelete(r)
    \/ MeDetails(r)

SessionBackground ==
    \/ CleanTokens \/ Exit \/ Start
    \/ \E i \in Idents : DetachedFind(i) \/ RemoveToken(i) \/ RemoveTokenFails(i)
=============================================================================
