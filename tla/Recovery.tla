------------------------------ MODULE Recovery ------------------------------
(***************************************************************************)
(* Password recovery: the request of a recovery code, the change of the    *)
(* password with it, the two endpoints that ask for the current password,  *)
(* and the cron job that deletes old recovery rows.                        *)
(***************************************************************************)
EXTENDS AccountStore

(***************************************************************************)
(* passwordRecover                                                         *)
(***************************************************************************)

\* findByEmail; only an active user may recover a password.
RecoverFind(r) ==
    /\ At(r, "passwordRecover", "handler")
    /\ \/ Refuse(r)
       \/ \E u \in Users :
             /\ req[r].auth = None /\ ActiveUser(u)
             /\ req' = [req EXCEPT ![r].pc = "recoverCount", ![r].user = u]
    /\ UNCHANGED <<clock, tables, background, spent>>

\* countRecoveryAttempts and the limit of attempts.
PastRecoveryLimit(u) == Cardinality(RecentCodes(u)) > MaxRecoveries
AtRecoveryLimit(u) == Cardinality(RecentCodes(u)) >= MaxRecoveries

RecoverCount(r) ==
    /\ req[r].pc = "recoverCount"
    /\ IF AtRecoveryLimit(req[r].user) THEN Refuse(r) ELSE Goto(r, "recoverInsert")
    /\ UNCHANGED <<clock, tables, background, spent>>

\* setupRecovery; the code is mailed without waiting.
RecoverInsert(r) ==
    /\ req[r].pc = "recoverInsert"
    /\ \E c \in Codes \ issued :
          /\ recovery' = [recovery EXCEPT ![c] =
                            [user |-> req[r].user, created |-> clock,
                             expire |-> clock + RecoveryExpiresIn, used |-> FALSE]]
          /\ issued' = issued \cup {c}
    /\ Finish(r)
    /\ UNCHANGED <<clock, user, token, link, background, spent>>

(***************************************************************************)
(* passwordRecoverChange                                                   *)
(***************************************************************************)

\* findByIdent. Refused: an unknown, used or expired code, or other metadata.
ChangeFind(r) ==
    /\ At(r, "passwordRecoverChange", "handler")
    /\ \/ Refuse(r)
       \/ \E c \in Codes :
             /\ req[r].auth = None
             /\ recovery[c] # None /\ ~recovery[c].used /\ recovery[c].expire >= clock
             /\ req' = [req EXCEPT ![r].pc = "changeUser", ![r].code = c,
                                   ![r].user = recovery[c].user]
    /\ UNCHANGED <<clock, tables, background, spent>>

\* findById and the status of the user.
ChangeUser(r) ==
    /\ req[r].pc = "changeUser"
    /\ IF ActiveUser(req[r].user) THEN Goto(r, "changeSave") ELSE Refuse(r)
    /\ UNCHANGED <<clock, tables, background, spent>>

\* updatePassword, first part: save({id, password, password_updated_at}).
ChangeSave(r) ==
    /\ req[r].pc = "changeSave"
    /\ user[req[r].user].pwd < MaxPassword
    /\ user' = [user EXCEPT ![req[r].user].pwd = @ + 1]
    /\ spent' = [spent EXCEPT ![req[r].code].made = @ + 1]
    /\ Goto(r, "codesFind")
    /\ UNCHANGED <<clock, token, recovery, issued, link, background>>

\* updatePassword, second part: removeAccountRecoveryForUser selects the
\* user's recovery rows; with none left it throws a NotFoundError.
OtherCodes(r) == CodesOf(req[r].user) \ {req[r].code}
CodesToRemove(r) == CodesOf(req[r].user)

CodesFind(r) ==
    /\ req[r].pc = "codesFind"
    /\ IF CodesToRemove(r) = {}
       THEN Refuse(r)
       ELSE req' = [req EXCEPT ![r].pc = "codesDelete", ![r].found = CodesToRemove(r)]
    /\ UNCHANGED <<clock, tables, background, spent>>

CodesDelete(r) ==
    /\ req[r].pc = "codesDelete"
    /\ \E c \in req[r].found \cap Codes :
          /\ recovery' = [recovery EXCEPT ![c] = None]
          /\ IF req[r].found # {c}
             THEN req' = [req EXCEPT ![r].found = @ \ {c}]
             ELSE req' = [req EXCEPT ![r].found = {}, ![r].pc = "codeMark"]
    /\ UNCHANGED <<clock, user, token, issued, link, background, spent>>

\* The row after an upsert that fills in the user, and after save({id,
\* used_at}): of a row that is gone, save makes an INSERT without user_id and
\* ident, which the database rejects.
MarkedOrMade(r) ==
    [user |-> req[r].user, created |-> clock, expire |-> clock, used |-> TRUE]
Marked(r) ==
    IF recovery[req[r].code] = None
    THEN None
    ELSE [recovery[req[r].code] EXCEPT !.used = TRUE]

\* passwordRecoverChange marks its code last; a rejected INSERT is a 500.
CodeMark(r) ==
    /\ req[r].pc = "codeMark"
    /\ recovery' = [recovery EXCEPT ![req[r].code] = Marked(r)]
    /\ Finish(r)
    /\ UNCHANGED <<clock, user, token, issued, link, background, spent>>

(***************************************************************************)
(* passwordUpdate and meDelete                                             *)
(***************************************************************************)

\* Both read the user with findById, which leaves out the column password
\* (select: false), and hand its missing hash to bcrypt.compare, which throws.
CheckCurrentPassword(r) ==
    /\ req[r].pc = "handler" /\ req[r].op \in {"passwordUpdate", "meDelete"}
    /\ IF req[r].auth # None /\ Visible(req[r].auth) THEN Fail(r) ELSE Refuse(r)
    /\ UNCHANGED <<clock, tables, background, spent>>

(***************************************************************************)
(* cleanAccountRecovery                                                    *)
(***************************************************************************)

CleanCodes ==
    /\ process # "exited"
    /\ LET old == {c \in Codes : /\ recovery[c] # None
                                 /\ recovery[c].expire <= clock - RecoveryRetention}
       IN old # {} /\ expunging' = expunging \cup old
    /\ UNCHANGED <<clock, tables, lookup, removing, process, req, spent>>

RemoveCode(c) ==
    /\ c \in expunging
    /\ expunging' = expunging \ {c}
    /\ recovery' = [recovery EXCEPT ![c] = None]
    /\ UNCHANGED <<clock, user, token, issued, link, lookup, removing, process, req,
                   spent>>

RemoveCodeFails(c) ==
    /\ c \in expunging
    /\ expunging' = expunging \ {c}
    /\ UNCHANGED <<clock, tables, lookup, removing, process, req, spent>>
-----------------------------------------------------------------------------
RecoveryStep(r) ==
    \/ RecoverFind(r) \/ RecoverCount(r) \/ RecoverInsert(r)
    \/ ChangeFind(r) \/ ChangeUser(r) \/ ChangeSave(r)
    \/ CodesFind(r) \/ CodesDelete(r) \/ CodeMark(r)
    \/ CheckCurrentPassword(r)

RecoveryBackground == CleanCodes \/ \E c \in Codes : RemoveCode(c) \/ RemoveCodeFails(c)
=============================================================================
