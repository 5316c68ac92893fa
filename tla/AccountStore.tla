---------------------------- MODULE AccountStore ----------------------------
(***************************************************************************)
(* What the account and user endpoints share: the three tables they read   *)
(* and write (user, account_token, account_recovery), the confirmation     *)
(* links that were mailed, the requests in flight, and the repository      *)
(* calls the handlers are made of.                                         *)
(*                                                                         *)
(* A request is served by asynchronous code. Everything a handler does     *)
(* between two awaits is one action; at every await any other request, a   *)
(* detached promise or a cron job may run. A database statement is atomic. *)
(*                                                                         *)
(* Time is counted in units coarse enough for a day to be a few of them.   *)
(***************************************************************************)
EXTENDS Integers, FiniteSets

CONSTANTS
    Users,                \* ids of the rows of the table user
    Emails,               \* addresses
    Idents,               \* uuids of session tokens
    Codes,                \* uuids of recovery tokens
    Requests,             \* slots for the requests in flight at one time
    Ops,                  \* the endpoints that clients call in this instance
    None,                 \* no row, no value
    MaxActiveSessions,    \* user.maxActiveSessions, forced to at least 1
    MaxRecoveries,        \* user.recoveryAttemptsInLastSixHours
    AuthExpiresIn,        \* user.authExpiresIn
    AuthRefreshExpiresIn, \* user.authRefreshExpiresIn
    RecoveryExpiresIn,    \* user.recoveryIdentExpiresIn
    AttemptWindow,        \* the six hours over which recovery attempts count
    TokenRetention,       \* how long an expired session row is kept
    RecoveryRetention,    \* how long an expired recovery row is kept
    Horizon,              \* bound of the clock
    MaxDetached,          \* bound of the detached removals of one token
    MaxPassword           \* bound of the password versions

Statuses == {"pending", "active", "inactive"}

VisitorOps == {"register", "login", "passwordRecover", "passwordRecoverChange",
               "emailConfirmSend"}
MemberOps == {"logout", "passwordUpdate", "emailUpdate", "meDetails", "meDelete"}
OpenOps == {"removeToken", "emailConfirm"}
AdminOps == {"create", "update", "statusUpdate", "delete", "restore"}
AllOps == VisitorOps \cup MemberOps \cup OpenOps \cup AdminOps

VARIABLES
    clock,     \* the wall clock
    user,      \* user[u]: the row with id u, or None
    token,     \* token[i]: the account_token row with ident i, or None
    recovery,  \* recovery[c]: the account_recovery row with ident c, or None
    issued,    \* idents and codes that were ever generated
    link,      \* payloads of the confirmation links that were ever mailed
    lookup,    \* lookup[i]: detached removals of i that have not run their SELECT
    removing,  \* idents selected by a detached removal or by cron, not yet deleted
    expunging, \* codes selected by cron, not yet deleted
    process,   \* is the server up, stopping, or has its process exited?
    req,       \* req[r]: the local state of the request in slot r
    spent,     \* history: password changes made with each recovery code, and how
               \* many of them were cut off before they removed the code
    seen       \* history: who was pending, who was active and which token was
               \* valid at some moment since the request in slot r arrived

tables == <<user, token, recovery, issued, link>>
background == <<lookup, removing, expunging, process>>
history == <<spent, seen>>
vars == <<clock, user, token, recovery, issued, link, lookup, removing,
          expunging, process, req, spent, seen>>

-----------------------------------------------------------------------------
(* Rows and request states. *)

Time == 0 .. Horizon
Passwords == 0 .. MaxPassword

\* A password is known by its version; every change makes a new one.
UserRow == [status : Statuses, deleted : BOOLEAN, email : Emails, pwd : Passwords]
TokenRow == [user : Users, expire : Nat]
RecoveryRow == [user : Users, created : Time, expire : Nat, used : BOOLEAN]
Link == [user : Users, email : Emails, new : Emails \cup {None}]

ASSUME StoreAssumption ==
    /\ IsFiniteSet(Requests) /\ Requests # {}
    /\ IsFiniteSet(Idents) /\ IsFiniteSet(Codes) /\ Idents \cap Codes = {}
    /\ Ops \subseteq AllOps
    /\ None \notin Users \cup Emails \cup Idents \cup Codes \cup Statuses
    /\ None \notin UserRow /\ None \notin TokenRow /\ None \notin RecoveryRow
    /\ MaxActiveSessions \in Nat \ {0}
    /\ MaxRecoveries \in Nat
    /\ AuthExpiresIn \in Nat /\ AuthRefreshExpiresIn \in Nat
    /\ RecoveryExpiresIn \in Nat /\ AttemptWindow \in Nat
    /\ TokenRetention \in Nat /\ RecoveryRetention \in Nat
    /\ Horizon \in Nat /\ MaxDetached \in Nat /\ MaxPassword \in Nat

Phases == {"up", "stopping", "exited"}
Uses == [made : Nat, cut : Nat]

Steps == {"idle", "authToken", "authUser", "authTouch", "handler",
          "loginCount", "loginInsert", "tokenFind", "tokenDelete",
          "recoverCount", "recoverInsert",
          "changeUser", "changeSave", "codesFind", "codesDelete", "codeMark",
          "createInsert", "updateEmail", "updateSave", "snapshotSave",
          "softDelete", "emailUpdateUser", "confirmSave"}

Request == [pc : Steps,
            op : AllOps \cup {None},
            ident : Idents \cup {None},     \* the session token at hand
            expire : Nat,                   \* its expire_at when it was read
            auth : Users \cup {None},       \* res.locals.auth.id
            user : Users \cup {None},       \* the user the handler works on
            row : UserRow \cup {None},      \* that user as the handler read it
            code : Codes \cup {None},       \* the recovery token at hand
            found : SUBSET (Idents \cup Codes),  \* rows selected for removal
            email : Emails \cup {None},     \* an address of the request body
            newPwd : BOOLEAN,               \* the body holds a new password
            status : Statuses \cup {None}]  \* the requested status

Fresh(op, i, pc) ==
    [pc |-> pc, op |-> op, ident |-> i, expire |-> 0, auth |-> None,
     user |-> None, row |-> None, code |-> None, found |-> {},
     email |-> None, newPwd |-> FALSE, status |-> None]

Idle == Fresh(None, None, "idle")

-----------------------------------------------------------------------------
(* Repository calls. *)

\* findById(id, FALSE), findByEmail(email, FALSE): soft-deleted rows are hidden.
Visible(u) == user[u] # None /\ ~user[u].deleted
ActiveUser(u) == Visible(u) /\ user[u].status = "active"

\* A row has the address, soft-deleted rows included.
EmailTaken(e, except) ==
    \E v \in Users \ {except} : user[v] # None /\ user[v].email = e

\* getAuthValidTokens: expire_at >= now.
Unexpired(i) == token[i] # None /\ token[i].expire >= clock
ActiveTokens(u) == {i \in Idents : Unexpired(i) /\ token[i].user = u}
TokensOf(u) == {i \in Idents : token[i] # None /\ token[i].user = u}

\* countRecoveryAttempts: created_at >= now - 6 hours.
RecentCodes(u) ==
    {c \in Codes : /\ recovery[c] # None
                   /\ recovery[c].user = u
                   /\ recovery[c].created >= clock - AttemptWindow}
CodesOf(u) == {c \in Codes : recovery[c] # None /\ recovery[c].user = u}

-----------------------------------------------------------------------------
(* Steps of a request. *)

\* The request in slot r is at step pc of the endpoint op.
At(r, op, pc) == req[r].pc = pc /\ req[r].op = op

\* The handler runs on to its next await.
Goto(r, pc) == req' = [req EXCEPT ![r].pc = pc]

\* The response is sent, a success, a refusal (4xx) or a failure (5xx): the
\* slot is free again and the locals are gone.
Finish(r) == req' = [req EXCEPT ![r] = Idle]

Refuse(r) == Finish(r)
Fail(r) == Finish(r)
=============================================================================
