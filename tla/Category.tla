------------------------------ MODULE Category ------------------------------
(***************************************************************************)
(* The category tree: a table with a closure table, a status and soft      *)
(* deletion, changed by requests of the back office. What a handler does   *)
(* between two awaits is one action; what it writes in a transaction       *)
(* becomes visible at its end, and a row that an open transaction wrote is *)
(* locked: whoever writes it next waits.                                   *)
(*                                                                         *)
(* Nothing moves a category: update reads it without its parent, so the    *)
(* branch that would save a new parent is never entered, the checks of a   *)
(* new parent only refuse, and all that update writes is content. Content  *)
(* (labels and slugs) is left out; that it can be refused is a refusal.    *)
(***************************************************************************)
EXTENDS FiniteSets

CONSTANTS
    Categories,  \* ids of rows of the table category
    Requests,    \* slots for the requests in flight at one time
    None

Statuses == {"pending", "active", "inactive"}
Ops == {"create", "statusUpdate", "delete", "restore"}
Row == [parent : Categories \cup {None}, status : Statuses, deleted : BOOLEAN]
Columns == {"status", "deleted"}

ASSUME CategoryAssumption ==
    /\ IsFiniteSet(Requests)
    /\ None \notin Categories \cup Row \cup Ops \cup Statuses

VARIABLES
    cat,      \* cat[c]: the row with id c, or None
    closure,  \* the closure table: pairs of an ancestor and a descendant
    req,      \* req[r]: the locals of the request in slot r
    alone     \* history: no other request was in flight since r arrived

vars == <<cat, closure, req, alone>>

Steps == {"idle", "insert", "descendants", "deactivate",
          "saveRead", "saveWrite", "select", "softDelete"}

Request == [pc : Steps,
            op : Ops \cup {None},
            id : Categories \cup {None},      \* the category at hand
            parent : Categories \cup {None},  \* the parent of a new one
            row : Row \cup {None},            \* the entity to be saved
            todo : SUBSET Categories,         \* rows still to be deactivated
            locked : SUBSET Categories,       \* rows that were
            dirty : SUBSET Columns]           \* columns the save will write

Fresh(op, pc) == [pc |-> pc, op |-> op, id |-> None, parent |-> None, row |-> None,
                  todo |-> {}, locked |-> {}, dirty |-> {}]
Idle == Fresh(None, "idle")

Init ==
    /\ cat = [c \in Categories |-> None]
    /\ closure = {}
    /\ req = [r \in Requests |-> Idle]
    /\ alone = [r \in Requests |-> TRUE]

-----------------------------------------------------------------------------
Exists(c) == c # None /\ cat[c] # None
Live(c) == Exists(c) /\ ~cat[c].deleted
Active(c) == Live(c) /\ cat[c].status = "active"

\* findDescendants without the category itself; and a query of no rows.
NothingBelow(c) == {}
Below(c) == {d \in Categories \ {c} : <<c, d>> \in closure}

At(r, op, pc) == req[r].pc = pc /\ req[r].op = op
Goto(r, pc) == req' = [req EXCEPT ![r].pc = pc]

\* The response is sent and an open transaction ends, with its locks.
Finish(r) == req' = [req EXCEPT ![r] = Idle]

\* An exception is passed on to the error handler, which answers.
Refuse(r) == Finish(r) /\ UNCHANGED <<cat, closure>>

\* A request arrives in an idle slot and its first query is answered; one that
\* is refused then has changed nothing and is left out.
Begin(r, q) ==
    /\ req[r].pc = "idle"
    /\ req' = [req EXCEPT ![r] = q]
    /\ UNCHANGED <<cat, closure>>

-----------------------------------------------------------------------------
(* create *)

\* The parent is looked up among the rows that are not deleted.
CreateFind(r) ==
    \E p \in Categories \cup {None} :
        /\ p = None \/ Live(p)
        /\ Begin(r, [Fresh("create", "insert") EXCEPT !.parent = p])

\* What the closure table gets with a new row: the row itself below itself and
\* below whatever its parent is below; and one that takes no parent for one.
AlwaysParent(c, p) == {<<c, c>>, <<p, c>>}
Ancestry(c, p) == {<<c, c>>} \cup {<<a, c>> : a \in {b \in Categories : <<b, p>> \in closure}}

\* The row is inserted, then its content, in a transaction that ends here:
\* nobody sees the row before. It is refused for its content, or (a bound)
\* when the ids are used up.
CreateInsert(r) ==
    /\ req[r].pc = "insert"
    /\ \/ Refuse(r)
       \/ \E c \in Categories :
             /\ ~Exists(c)
             /\ cat' = [cat EXCEPT ![c] = [parent |-> req[r].parent,
                                           status |-> "pending", deleted |-> FALSE]]
             /\ closure' = closure \cup Ancestry(c, req[r].parent)
             /\ Finish(r)

-----------------------------------------------------------------------------
(* statusUpdate: one transaction from its SELECT to the save. *)

StatusFind(r) ==
    \E c \in Categories, s \in {"active", "inactive"} :
        /\ Exists(c) /\ cat[c].status # s
        /\ LET step == IF s = "inactive" THEN "descendants" ELSE "saveRead"
           IN Begin(r, [Fresh("statusUpdate", step) EXCEPT
                          !.id = c, !.row = [cat[c] EXCEPT !.status = s]])

\* The query of the active descendants. createDescendantsQueryBuilder gives it
\* the condition on the ancestor, which where() then replaces: what is left
\* selects every active category. And a query of no rows.
NoneActive(r) == {}
ActiveDescendants(r) == {d \in Categories \ {req[r].id} : Active(d)}

\* With any, the request is refused, or the client forces it.
StatusDescendants(r) ==
    /\ At(r, "statusUpdate", "descendants")
    /\ \/ ActiveDescendants(r) = {} /\ Goto(r, "saveRead") /\ UNCHANGED <<cat, closure>>
       \/ ActiveDescendants(r) # {} /\ Refuse(r)
       \/ /\ ActiveDescendants(r) # {}
          /\ req' = [req EXCEPT ![r].todo = ActiveDescendants(r), ![r].pc = "deactivate"]
          /\ UNCHANGED <<cat, closure>>

\* Nobody else's transaction has written the row.
Unlocked(r, c) == \A s \in Requests \ {r} : c \notin req[s].locked

\* UPDATE ... WHERE id IN (...): row after row, each locked to the end of the
\* transaction.
Deactivate(r) ==
    /\ req[r].pc = "deactivate"
    /\ \E d \in req[r].todo :
          /\ Unlocked(r, d)
          /\ req' = [req EXCEPT ![r].todo = @ \ {d}, ![r].locked = @ \cup {d},
                       ![r].pc = IF req[r].todo = {d} THEN "saveRead" ELSE @]
    /\ UNCHANGED <<cat, closure>>

-----------------------------------------------------------------------------
(* save() of an entity that was read before *)

\* It reads the row again and finds out which columns differ.
SaveRead(r) ==
    /\ req[r].pc = "saveRead"
    /\ req' = [req EXCEPT ![r].pc = "saveWrite",
                 ![r].dirty = {k \in Columns : req[r].row[k] # cat[req[r].id][k]}]
    /\ UNCHANGED <<cat, closure>>

\* The row after an UPDATE of these columns.
Saved(r) ==
    LET old == cat[req[r].id]  new == req[r].row  dirty == req[r].dirty
    IN [old EXCEPT !.status = IF "status" \in dirty THEN new.status ELSE @,
                   !.deleted = IF "deleted" \in dirty THEN new.deleted ELSE @]

\* The UPDATE, and the end of the transaction with all it wrote.
SaveWrite(r) ==
    /\ req[r].pc = "saveWrite"
    /\ req[r].dirty # {} => Unlocked(r, req[r].id)
    /\ cat' = [c \in Categories |->
                 IF c = req[r].id THEN Saved(r)
                 ELSE IF c \in req[r].locked THEN [cat[c] EXCEPT !.status = "inactive"]
                 ELSE cat[c]]
    /\ Finish(r)
    /\ UNCHANGED closure

-----------------------------------------------------------------------------
(* delete and restore *)

DeleteFind(r) ==
    \E c \in Categories :
        Live(c) /\ Begin(r, [Fresh("delete", "descendants") EXCEPT !.id = c])

DeleteDescendants(r) ==
    /\ At(r, "delete", "descendants")
    /\ IF \E d \in Below(req[r].id) : Live(d)
       THEN Refuse(r)
       ELSE Goto(r, "select") /\ UNCHANGED <<cat, closure>>

\* RepositoryAbstract.delete: the SELECT, then the softRemove.
DeleteSelect(r) ==
    /\ At(r, "delete", "select")
    /\ IF Live(req[r].id)
       THEN Goto(r, "softDelete") /\ UNCHANGED <<cat, closure>>
       ELSE Refuse(r)

SoftDelete(r) ==
    /\ req[r].pc = "softDelete"
    /\ Unlocked(r, req[r].id)
    /\ cat' = [cat EXCEPT ![req[r].id].deleted = TRUE]
    /\ Finish(r) /\ UNCHANGED closure

\* The parent is joined before withDeleted() is called, so a deleted parent is
\* not found, and only the status of one that is not deleted is checked.
RestoreFind(r) ==
    \E c \in Categories :
        /\ Exists(c) /\ cat[c].deleted
        /\ Live(cat[c].parent) => Active(cat[c].parent)
        /\ Begin(r, [Fresh("restore", "select") EXCEPT !.id = c])

\* RepositoryAbstract.restore: the SELECT, then the save.
RestoreSelect(r) ==
    /\ At(r, "restore", "select")
    /\ req' = [req EXCEPT ![r].row = [cat[req[r].id] EXCEPT !.deleted = FALSE],
                          ![r].pc = "saveRead"]
    /\ UNCHANGED <<cat, closure>>

-----------------------------------------------------------------------------
(* Locks. *)

Wanted(r) ==
    CASE req[r].pc = "deactivate" -> req[r].todo
      [] req[r].pc = "softDelete" -> {req[r].id}
      [] req[r].pc = "saveWrite" /\ req[r].dirty # {} -> {req[r].id}
      [] OTHER -> {}

WaitsFor(r, s) == s # r /\ Wanted(r) \cap req[s].locked # {}

\* The database detects that transactions wait for each other in a circle and
\* aborts one of them.
Abort(r) ==
    /\ \E S \in SUBSET Requests :
          r \in S /\ \A s \in S : \E t \in S : WaitsFor(s, t)
    /\ Refuse(r)

-----------------------------------------------------------------------------
Handle(r) ==
    \/ CreateFind(r) \/ CreateInsert(r)
    \/ StatusFind(r) \/ StatusDescendants(r) \/ Deactivate(r)
    \/ SaveRead(r) \/ SaveWrite(r)
    \/ DeleteFind(r) \/ DeleteDescendants(r) \/ DeleteSelect(r) \/ SoftDelete(r)
    \/ RestoreFind(r) \/ RestoreSelect(r)
    \/ Abort(r)

Remember ==
    alone' = [r \in Requests |->
                \/ req'[r].pc = "idle"
                \/ alone[r] /\ \A s \in Requests \ {r} : req'[s].pc = "idle"]

Next == (\E r \in Requests : Handle(r)) /\ Remember

Spec == Init /\ [][Next]_vars

-----------------------------------------------------------------------------
(* Type invariant: the variables, and the locals that are set at a step. *)

Rows == {c \in Categories : cat[c] # None}

Locals(q, rows) ==
    /\ q.pc = "insert" => q.parent \in rows \cup {None}
    /\ q.pc \in {"descendants", "deactivate", "saveRead", "saveWrite", "select",
                 "softDelete"} => q.id \in rows
    /\ q.pc \in {"deactivate", "saveRead", "saveWrite"} => q.row \in Row
    /\ q.pc = "descendants" /\ q.op = "statusUpdate" => q.row \in Row
    /\ q.todo \cup q.locked \subseteq rows

TypeOK ==
    /\ cat \in [Categories -> Row \cup {None}]
    /\ closure \subseteq Categories \X Categories
    /\ req \in [Requests -> Request]
    /\ alone \in [Requests -> BOOLEAN]
    /\ \A r \in Requests : Locals(req[r], Rows)

-----------------------------------------------------------------------------
(* Properties. *)

\* A live category below a deleted one cannot be reached from the roots.
Orphan(c) == Live(c) /\ Exists(cat[c].parent) /\ cat[cat[c].parent].deleted

\* create, delete and statusUpdate leave no new orphan when they run alone:
\* only requests that race (or restore, which never sees a deleted parent) do.
NoNewOrphan(r) ==
    alone[r] /\ req[r].op # "restore" /\ req'[r] # req[r]
        => \A c \in Categories : Orphan(c)' => Orphan(c)
AloneKeepsTree == [][\A r \in Requests : NoNewOrphan(r)]_vars

\* A category that is made inactive, by a request that runs alone, has no
\* active category below it, at any depth, whether forced or not.
CoversSubtree(r) ==
    /\ alone[r] /\ At(r, "statusUpdate", "saveWrite") /\ req[r].row.status = "inactive"
    /\ req'[r] # req[r]
    => \A d \in Below(req[r].id) : ~Active(d)'
DeactivationCovers == [][\A r \in Requests : CoversSubtree(r)]_vars

\* category.service.ts: "the active descendants will also be marked as
\* inactive": a status update changes the category and those below it.
OnlySubtreeChanges ==
    [][\A r \in Requests, c \in Categories :
          /\ At(r, "statusUpdate", "saveWrite") /\ req'[r] # req[r]
          /\ Exists(c) /\ cat'[c].status # cat[c].status
          => <<req[r].id, c>> \in closure]_vars
=============================================================================
