---------------------------- MODULE UserRecords -----------------------------
(***************************************************************************)
(* The rows of the table user: registration, the confirmation of an        *)
(* address, the change of an address, and the back office's create,        *)
(* update, status update, delete and restore.                              *)
(*                                                                         *)
(* save() of a partial entity writes the columns it names; save() of an    *)
(* entity that was read earlier writes back every column that differs from *)
(* the row, except the password, which is never read.                      *)
(***************************************************************************)
EXTENDS AccountStore

\* The unique index on user.email, and no such index.
NotRejected(e, except) == FALSE
IndexRejects(e, except) == EmailTaken(e, except)

(***************************************************************************)
(* register and create                                                     *)
(***************************************************************************)

\* findByEmail with deleted rows, then the answer 409 or 400.
CreateFind(r) ==
    /\ req[r].pc = "handler" /\ req[r].op \in {"register", "create"}
    /\ \/ Refuse(r)
       \/ \E e \in Emails, s \in Statuses :
             /\ req[r].auth = None
             /\ req[r].op = "register" => s = "pending"
             /\ ~EmailTaken(e, None)
             /\ req' = [req EXCEPT ![r].pc = "createInsert", ![r].email = e,
                                   ![r].status = s]
    /\ UNCHANGED <<clock, tables, background, spent>>

\* The INSERT, refused by the unique index if the address was taken since;
\* UserSubscriber.afterInsert mails a confirmation link to a pending user.
CreateInsert(r) ==
    /\ req[r].pc = "createInsert"
    /\ \/ /\ IndexRejects(req[r].email, None)
          /\ Fail(r) /\ UNCHANGED <<user, link>>
       \/ \E u \in Users :
             /\ ~IndexRejects(req[r].email, None) /\ user[u] = None
             /\ user' = [user EXCEPT ![u] = [status |-> req[r].status,
                                             deleted |-> FALSE,
                                             email |-> req[r].email, pwd |-> 0]]
             /\ link' = IF req[r].status = "pending"
                        THEN link \cup {[user |-> u, email |-> req[r].email,
                                         new |-> None]}
                        ELSE link
             /\ Finish(r)
    /\ UNCHANGED <<clock, token, recovery, issued, background, spent>>

(***************************************************************************)
(* emailConfirmSend, emailUpdate and emailConfirm                          *)
(***************************************************************************)

\* A new link for a user that is still pending.
ConfirmSend(r) ==
    /\ At(r, "emailConfirmSend", "handler")
    /\ \/ UNCHANGED link /\ Refuse(r)
       \/ \E u \in Users :
             /\ req[r].auth = None /\ Visible(u) /\ user[u].status = "pending"
             /\ link' = link \cup {[user |-> u, email |-> user[u].email, new |-> None]}
             /\ Finish(r)
    /\ UNCHANGED <<clock, user, token, recovery, issued, background, spent>>

\* The new address must be free, deleted rows included, when it is asked for.
EmailUpdateFind(r) ==
    /\ At(r, "emailUpdate", "handler")
    /\ \/ Refuse(r)
       \/ \E e \in Emails :
             /\ req[r].auth # None /\ ~EmailTaken(e, None)
             /\ req' = [req EXCEPT ![r].pc = "emailUpdateUser", ![r].email = e]
    /\ UNCHANGED <<clock, tables, background, spent>>

\* findById of the signed-in user, then the link that carries both addresses.
EmailUpdateUser(r) ==
    /\ req[r].pc = "emailUpdateUser"
    /\ LET u == req[r].auth
       IN IF Visible(u)
          THEN /\ link' = link \cup {[user |-> u, email |-> user[u].email,
                                      new |-> req[r].email]}
               /\ Finish(r)
          ELSE Refuse(r) /\ UNCHANGED link
    /\ UNCHANGED <<clock, user, token, recovery, issued, background, spent>>

\* A link is good for the address it was mailed for: the user must still have
\* that address, and without a new address must be pending (not merely not
\* active).
RedeemableWhenInactive(l) ==
    /\ Visible(l.user) /\ user[l.user].email = l.email
    /\ l.new = None => user[l.user].status # "active"
Redeemable(l) ==
    /\ Visible(l.user) /\ user[l.user].email = l.email
    /\ l.new = None => user[l.user].status = "pending"

ConfirmFind(r) ==
    /\ At(r, "emailConfirm", "handler")
    /\ \/ Refuse(r)
       \/ \E l \in link :
             /\ Redeemable(l)
             /\ req' = [req EXCEPT ![r].pc = "confirmSave", ![r].user = l.user,
                                   ![r].email = l.new]
    /\ UNCHANGED <<clock, tables, background, spent>>

\* save({id, email, ...}) or save({id, status, ...}).
ConfirmSave(r) ==
    /\ req[r].pc = "confirmSave"
    /\ LET u == req[r].user  e == req[r].email
       IN IF e # None /\ IndexRejects(e, u)
          THEN Fail(r) /\ UNCHANGED user
          ELSE /\ user' = IF e # None THEN [user EXCEPT ![u].email = e]
                                      ELSE [user EXCEPT ![u].status = "active"]
               /\ Finish(r)
    /\ UNCHANGED <<clock, token, recovery, issued, link, background, spent>>

(***************************************************************************)
(* update                                                                  *)
(***************************************************************************)

\* findById of any row, deleted or not; the body names an address, a new
\* password, both, or (email None, newPwd FALSE) other columns only.
UpdateFind(r) ==
    /\ At(r, "update", "handler")
    /\ \/ Refuse(r)
       \/ \E u \in Users, e \in Emails \cup {None}, p \in BOOLEAN :
             /\ user[u] # None
             /\ req' = [req EXCEPT ![r].pc = "updateEmail", ![r].user = u,
                                   ![r].row = user[u], ![r].email = e,
                                   ![r].newPwd = p]
    /\ UNCHANGED <<clock, tables, background, spent>>

\* findByEmail(email, TRUE, undefined, id), when the body has an address.
\* A new password, or an address that is not the one read (none at all
\* included), means that the user's sessions are removed first.
UpdateEmail(r) ==
    /\ req[r].pc = "updateEmail"
    /\ IF req[r].email # None /\ EmailTaken(req[r].email, req[r].user)
       THEN Refuse(r)
       ELSE Goto(r, IF req[r].newPwd \/ req[r].email # req[r].row.email
                    THEN "tokenFind" ELSE "updateSave")
    /\ UNCHANGED <<clock, tables, background, spent>>

\* The address after the save of the columns in the body: a column that is
\* undefined is left alone, not written as null.
BodyEmail(r) == req[r].email
SavedEmail(r) == IF req[r].email = None THEN user[req[r].user].email ELSE req[r].email

\* save() of the columns in the body.
UpdateSave(r) ==
    /\ req[r].pc = "updateSave"
    /\ LET u == req[r].user  e == req[r].email
       IN IF e # None /\ IndexRejects(e, u)
          THEN Fail(r) /\ UNCHANGED user
          ELSE /\ req[r].newPwd => user[u].pwd < MaxPassword
               /\ user' = [user EXCEPT ![u].email = SavedEmail(r),
                                       ![u].pwd = IF req[r].newPwd THEN @ + 1 ELSE @]
               /\ Finish(r)
    /\ UNCHANGED <<clock, token, recovery, issued, link, background, spent>>

(***************************************************************************)
(* statusUpdate, restore and delete                                        *)
(***************************************************************************)

\* updateStatus: findById, deleted or not; an unchanged status is refused.
StatusFind(r) ==
    /\ At(r, "statusUpdate", "handler")
    /\ \/ Refuse(r)
       \/ \E u \in Users, s \in {"active", "inactive"} :
             /\ user[u] # None /\ user[u].status # s
             /\ req' = [req EXCEPT ![r].pc = "snapshotSave", ![r].user = u,
                                   ![r].row = [user[u] EXCEPT !.status = s]]
    /\ UNCHANGED <<clock, tables, background, spent>>

\* RepositoryAbstract.restore: the row is read, deleted or not.
RestoreFind(r) ==
    /\ At(r, "restore", "handler")
    /\ \/ Refuse(r)
       \/ \E u \in Users :
             /\ user[u] # None
             /\ req' = [req EXCEPT ![r].pc = "snapshotSave", ![r].user = u,
                                   ![r].row = [user[u] EXCEPT !.deleted = FALSE]]
    /\ UNCHANGED <<clock, tables, background, spent>>

\* The row after the save of an entity that was read with its password, and of
\* one that was read without.
RewrittenWithPassword(r) == req[r].row
Rewritten(r) == [req[r].row EXCEPT !.pwd = user[req[r].user].pwd]

\* save() of the entity that was read, with the one column changed.
SnapshotSave(r) ==
    /\ req[r].pc = "snapshotSave"
    /\ LET u == req[r].user
       IN IF IndexRejects(req[r].row.email, u)
          THEN Fail(r) /\ UNCHANGED user
          ELSE /\ user' = [user EXCEPT ![u] = Rewritten(r)]
               /\ Finish(r)
    /\ UNCHANGED <<clock, token, recovery, issued, link, background, spent>>

\* RepositoryAbstract.delete: SELECT of the visible row, then softRemove. The
\* user's sessions and recovery codes are left alone.
DeleteFind(r) ==
    /\ At(r, "delete", "handler")
    /\ \/ Refuse(r)
       \/ \E u \in Users :
             /\ Visible(u)
             /\ req' = [req EXCEPT ![r].pc = "softDelete", ![r].user = u]
    /\ UNCHANGED <<clock, tables, background, spent>>

SoftDelete(r) ==
    /\ req[r].pc = "softDelete"
    /\ user' = [user EXCEPT ![req[r].user].deleted = TRUE]
    /\ Finish(r)
    /\ UNCHANGED <<clock, token, recovery, issued, link, background, spent>>
-----------------------------------------------------------------------------
UserStep(r) ==
    \/ CreateFind(r) \/ CreateInsert(r) \/ ConfirmSend(r)
    \/ EmailUpdateFind(r) \/ EmailUpdateUser(r) \/ ConfirmFind(r) \/ ConfirmSave(r)
    \/ UpdateFind(r) \/ UpdateEmail(r) \/ UpdateSave(r)
    \/ StatusFind(r) \/ RestoreFind(r) \/ SnapshotSave(r)
    \/ DeleteFind(r) \/ SoftDelete(r)
=============================================================================
