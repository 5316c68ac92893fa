------------------------------ MODULE Account -------------------------------
(***************************************************************************)
(* The account subsystem: sessions, password recovery and user records     *)
(* served by one process over one database, with the clock, the detached   *)
(* removals and the cron jobs in between.                                  *)
(***************************************************************************)
EXTENDS Sessions, Recovery, UserRecords

\* Who is pending, who is active and which tokens are valid right now.
Standing == Users \X {"pending", "active"}
Good == {x \in Standing : Visible(x[1]) /\ user[x[1]].status = x[2]}
        \cup {i \in Idents : Unexpired(i)}

Init ==
    /\ clock = 0
    /\ user \in [Users -> {[status |-> s, deleted |-> FALSE, email |-> e, pwd |-> 0] :
                             s \in Statuses, e \in Emails} \cup {None}]
    /\ \A u, v \in Users : user[u] # None /\ user[v] # None /\ u # v
                              => user[u].email # user[v].email
    /\ token = [i \in Idents |-> None]
    /\ recovery = [c \in Codes |-> None]
    /\ issued = {} /\ link = {}
    /\ lookup = [i \in Idents |-> 0]
    /\ removing = {} /\ expunging = {}
    /\ process = "up"
    /\ req = [r \in Requests |-> Idle]
    /\ spent = [c \in Codes |-> [made |-> 0, cut |-> 0]]
    /\ seen = [r \in Requests |-> {}]

Tick ==
    /\ clock < Horizon /\ clock' = clock + 1
    /\ UNCHANGED <<tables, background, req, spent>>

\* A request ends at any of its steps: a statement or another call fails and the
\* error is answered, or the process exits. What it wrote before stays; no
\* handler wraps its steps in a transaction. A change of the password that ends
\* so before it removed its code leaves the code as it was.
LeavesCode(r) ==
    req[r].pc \in {"codesFind", "codesDelete"} /\ recovery[req[r].code] # None

Break(r) ==
    /\ req[r].pc # "idle"
    /\ Fail(r)
    /\ spent' = IF LeavesCode(r) THEN [spent EXCEPT ![req[r].code].cut = @ + 1] ELSE spent
    /\ UNCHANGED <<clock, tables, background>>

\* What every step adds to the history of the requests in flight: the standing
\* of the users, and whether the request's own token is valid.
Remember ==
    seen' = [r \in Requests |->
               IF req'[r].pc = "idle" THEN {}
               ELSE seen[r] \cup (Good' \cap (Standing \cup {req'[r].ident}))]

Step ==
    \/ Tick
    \/ \E r \in Requests : SessionStep(r) \/ RecoveryStep(r) \/ UserStep(r) \/ Break(r)
    \/ SessionBackground
    \/ RecoveryBackground

Next == Step /\ Remember

Spec == Init /\ [][Next]_vars

\* While the server is up cron runs its job again and again, and a DELETE that is
\* sent again and again does not fail each time. Nothing starts a process that
\* has exited.
Fairness ==
    /\ WF_vars(process = "up" /\ CleanTokens /\ Remember)
    /\ \A i \in Idents : SF_vars(RemoveToken(i) /\ Remember)

FairSpec == Spec /\ Fairness

-----------------------------------------------------------------------------
(* Type invariant: what Step changes, the locals of every request, and the *)
(* history that Remember adds. *)

TypeRest ==
    /\ clock \in Time
    /\ user \in [Users -> UserRow \cup {None}]
    /\ token \in [Idents -> TokenRow \cup {None}]
    /\ recovery \in [Codes -> RecoveryRow \cup {None}]
    /\ issued \subseteq Idents \cup Codes
    /\ link \subseteq Link
    /\ lookup \in [Idents -> Nat]
    /\ removing \subseteq Idents /\ expunging \subseteq Codes
    /\ process \in Phases
    /\ req \in [Requests -> Request]
    /\ spent \in [Codes -> Uses]

\* Which locals are set at which step, given the ids of the rows of user.
Locals(q, rows) ==
    /\ q.pc \in {"authToken", "authUser", "authTouch"} \/ q.auth # None
          => q.ident \in Idents
    /\ q.pc \in {"authUser", "authTouch", "loginCount", "loginInsert",
                 "recoverCount", "recoverInsert", "changeUser", "codesFind",
                 "codesDelete", "codeMark"}
          => q.user \in Users
    /\ q.pc \in {"changeSave", "updateEmail", "updateSave", "snapshotSave",
                 "softDelete", "confirmSave"}
          => q.user \in rows
    /\ q.pc \in {"tokenFind", "tokenDelete"}
          => IF q.op = "update" THEN q.user \in rows ELSE q.ident \in Idents
    /\ q.pc \in {"changeUser", "changeSave", "codesFind", "codesDelete", "codeMark"}
          => q.code \in Codes
    /\ q.pc \in {"loginCount", "loginInsert", "updateEmail", "snapshotSave"}
          => q.row \in UserRow
    /\ q.pc = "updateEmail" => q.op = "update"
    /\ q.pc = "createInsert" => q.email \in Emails /\ q.status \in Statuses
    /\ q.pc = "emailUpdateUser" => q.email \in Emails /\ q.auth \in Users

Rows == {u \in Users : user[u] # None}
LocalsOK == \A r \in Requests : Locals(req[r], Rows)

TypeOK ==
    /\ TypeRest
    /\ LocalsOK
    /\ seen \in [Requests -> SUBSET (Standing \cup Idents)]

-----------------------------------------------------------------------------
(* Safety. *)

\* login counts the sessions of a user and inserts the new one later, and the
\* middleware may extend a session that expired after it was read. Neither is
\* atomic, so the limit of active sessions can be passed, but never by more
\* than the other requests in flight: alone, a login keeps the limit.
SessionBound ==
    \A u \in Users :
        Cardinality(ActiveTokens(u)) <= MaxActiveSessions + Cardinality(Requests) - 1

\* The same for the recovery codes a user was sent within six hours.
RecoveryBound ==
    \A u \in Users :
        Cardinality(RecentCodes(u)) <= MaxRecoveries + Cardinality(Requests) - 1

\* A recovery code is looked up in one step, the password is saved in another
\* and the row of the code removed later, in no transaction. A code changes the
\* password as often as there are requests in flight at one time (once, when
\* they come one after the other), and once more for each change that failed or
\* was cut off before it removed the code, which is then as good as new.
CodeSpentBound == \A c \in Codes : spent[c].made <= Cardinality(Requests) + spent[c].cut

\* A request is signed in, or commits to a login, a recovery or a change of
\* the password, only for a user that was active, with a token that was valid,
\* and confirms an address only for a user that was pending, at some moment
\* since it arrived: whoever is deactivated, deleted or logged out cannot pass,
\* and no mailed link revives them, with a request sent afterwards.
Acts(q, S) ==
    /\ q.auth # None => <<q.auth, "active">> \in S
    /\ q.pc \in {"loginCount", "loginInsert", "recoverCount", "recoverInsert",
                 "changeSave"}
          => <<q.user, "active">> \in S
    /\ q.pc \in {"authUser", "authTouch"} => q.ident \in S
    /\ q.pc = "confirmSave" /\ q.email = None => <<q.user, "pending">> \in S
ActsOnSeen == \A r \in Requests : Acts(req[r], seen[r])

\* No two rows of the table user, deleted ones included, share an address,
\* although every handler checks that in a query of its own before it writes.
UniqueEmails ==
    \A u, v \in Users :
        user[u] # None /\ user[v] # None /\ user[u].email = user[v].email => u = v

-----------------------------------------------------------------------------
(* Action properties. *)

\* Revocation is final: once the row of a session is removed by a logout, a
\* removal, the update of its user, the middleware or cron, no request that
\* still holds the row (the middleware extends it later) brings it back.
RevokedStays == \A i \in Idents \cap issued : token[i] = None => token'[i] = None
RevocationFinal == [][RevokedStays]_vars

\* The same for recovery codes, whose row passwordRecoverChange saves after
\* its removal.
RemovedCodeStays ==
    \A c \in Codes \cap issued : recovery[c] = None => recovery'[c] = None
CodeRemovalFinal == [][RemovedCodeStays]_vars

\* No change of a password is lost: whatever entity a handler read earlier and
\* writes back, an older password never returns.
PasswordsOnlyGrow ==
    \A u \in Users : user[u] # None
        => user'[u] # None /\ user'[u].pwd >= user[u].pwd
NoLostPassword == [][PasswordsOnlyGrow]_vars

-----------------------------------------------------------------------------
(* Liveness. *)

Outdated(i) == token[i] # None /\ token[i].expire <= clock - TokenRetention

\* As long as the server is up, cron removes every session row that expired long
\* enough ago, unless the middleware, which read it before it expired, extends it
\* after all.
OutdatedSwept == \A i \in Idents : Outdated(i) ~> ~Outdated(i) \/ process # "up"
=============================================================================
