--------------------------- MODULE CategoryProofs ---------------------------
(***************************************************************************)
(* What holds of Category for any number of categories and requests: its   *)
(* types, and that a request which runs alone keeps the tree in order.     *)
(***************************************************************************)
EXTENDS Category, TLAPS

(***************************************************************************)
(* Types.                                                                  *)
(***************************************************************************)

LEMMA FreshType ==
    /\ Idle \in Request /\ Idle.pc = "idle" /\ Idle.locked = {} /\ Idle.todo = {}
    /\ \A op \in Ops, pc \in Steps :
          LET q == Fresh(op, pc)
          IN /\ q \in Request /\ q.pc = pc /\ q.op = op /\ q.id = None /\ q.parent = None
             /\ q.row = None /\ q.locked = {} /\ q.todo = {} /\ q.dirty = {}
BY DEF Idle, Fresh, Request, Steps

\* What a step of r does to the variables that have a type of their own.
Typed(r) ==
    /\ cat' \in [Categories -> Row \cup {None}]
    /\ closure' \subseteq Categories \X Categories
    /\ \E q \in Request : req' = [req EXCEPT ![r] = q] /\ Locals(q, Rows')
    /\ Rows \subseteq Rows'

LEMMA FinishTyped ==
    ASSUME TypeOK, NEW r \in Requests, Finish(r), Rows \subseteq Rows',
           cat' \in [Categories -> Row \cup {None}],
           closure' \subseteq Categories \X Categories
    PROVE  Typed(r)
BY FreshType DEF Typed, Finish, Locals

LEMMA RefuseTyped ==
    ASSUME TypeOK, NEW r \in Requests, Refuse(r)
    PROVE  Typed(r)
BY FinishTyped DEF Refuse, TypeOK, Rows

\* A step of r that changes only its locals.
LEMMA LocalsTyped ==
    ASSUME TypeOK, NEW r \in Requests, NEW q \in Request, req' = [req EXCEPT ![r] = q],
           Locals(q, Rows), UNCHANGED <<cat, closure>>
    PROVE  Typed(r)
BY DEF Typed, TypeOK, Rows

LEMMA RowsExist == \A c : Exists(c) /\ c \in Categories <=> c \in Rows
<1> SUFFICES ASSUME NEW c PROVE Exists(c) /\ c \in Categories <=> c \in Rows
  OBVIOUS
<1> QED
  BY CategoryAssumption DEF Exists, Rows

LEMMA TypeHandle ==
    ASSUME TypeOK, NEW r \in Requests, Handle(r)
    PROVE  Typed(r)
<1> DEFINE q == req[r]
<1>0. q \in Request /\ Locals(q, Rows) /\ req \in [Requests -> Request]
  BY DEF TypeOK
<1>c. cat \in [Categories -> Row \cup {None}] /\ closure \subseteq Categories \X Categories
  BY DEF TypeOK
<1>r. \A c \in Rows : c \in Categories /\ cat[c] \in Row
  BY <1>c DEF Rows
<1>1. CASE CreateFind(r)
  <2>1. PICK p \in Categories \cup {None} :
               /\ p = None \/ Live(p)
               /\ Begin(r, [Fresh("create", "insert") EXCEPT !.parent = p])
    BY <1>1 DEF CreateFind
  <2> DEFINE f == Fresh("create", "insert")
             w == [f EXCEPT !.parent = p]
  <2>2. f \in Request /\ f.pc = "insert" /\ f.todo = {} /\ f.locked = {}
    BY FreshType DEF Ops, Steps
  <2>3. w \in Request /\ w.pc = "insert" /\ w.parent = p /\ w.todo = {} /\ w.locked = {}
    BY <2>2 DEF Request
  <2>4. Locals(w, Rows)
    BY <2>1, <2>3, RowsExist DEF Locals, Live
  <2> QED
    BY <2>1, <2>3, <2>4, LocalsTyped DEF Begin
<1>2. CASE CreateInsert(r)
  <2>1. CASE Refuse(r)
    BY <2>1, RefuseTyped
  <2>2. ASSUME NEW c \in Categories, ~Exists(c), Finish(r),
               cat' = [cat EXCEPT ![c] = [parent |-> req[r].parent,
                                          status |-> "pending", deleted |-> FALSE]],
               closure' = closure \cup Ancestry(c, req[r].parent)
        PROVE  Typed(r)
    <3>1. [parent |-> q.parent, status |-> "pending", deleted |-> FALSE] \in Row
      BY <1>0 DEF Request, Row, Statuses
    <3>2. Ancestry(c, q.parent) \subseteq Categories \X Categories
      <4>1. \A a \in Categories : <<a, c>> \in Categories \X Categories
        OBVIOUS
      <4> QED
        BY <4>1 DEF Ancestry
    <3>3. cat' \in [Categories -> Row \cup {None}] /\ Rows \subseteq Rows'
      <4>1. cat' = [cat EXCEPT ![c] = [parent |-> q.parent, status |-> "pending",
                                       deleted |-> FALSE]]
        BY <2>2
      <4>2. cat' \in [Categories -> Row \cup {None}]
        BY <1>c, <3>1, <4>1
      <4>3. \A d \in Categories : cat[d] # None => cat'[d] # None
        BY <1>c, <3>1, <4>1, CategoryAssumption
      <4> QED
        BY <4>2, <4>3 DEF Rows
    <3>4. closure' \subseteq Categories \X Categories
      BY <1>c, <2>2, <3>2
    <3> QED
      BY <2>2, <3>3, <3>4, FinishTyped
  <2> QED
    BY <1>2, <2>1, <2>2 DEF CreateInsert
<1>3. CASE StatusFind(r)
  <2>1. PICK c \in Categories, s \in {"active", "inactive"} :
               /\ Exists(c)
               /\ LET step == IF s = "inactive" THEN "descendants" ELSE "saveRead"
                  IN Begin(r, [Fresh("statusUpdate", step) EXCEPT
                                 !.id = c, !.row = [cat[c] EXCEPT !.status = s]])
    BY <1>3 DEF StatusFind
  <2> DEFINE t == [cat[c] EXCEPT !.status = s]
             p == IF s = "inactive" THEN "descendants" ELSE "saveRead"
             f == Fresh("statusUpdate", p)
             w == [f EXCEPT !.id = c, !.row = t]
  <2>2. t \in Row /\ c \in Rows
    BY <1>r, <2>1, RowsExist DEF Row, Statuses
  <2>3. f \in Request /\ f.pc = p /\ f.todo = {} /\ f.locked = {}
    BY FreshType DEF Ops, Steps
  <2>4. /\ w \in Request /\ w.pc = p /\ w.id = c /\ w.row = t
        /\ w.todo = {} /\ w.locked = {}
    BY <2>2, <2>3 DEF Request
  <2>5. Locals(w, Rows)
    BY <2>2, <2>4 DEF Locals
  <2> QED
    BY <2>1, <2>4, <2>5, LocalsTyped DEF Begin
<1>4. CASE StatusDescendants(r)
  <2>1. CASE Refuse(r)
    BY <2>1, RefuseTyped
  <2>2. CASE Goto(r, "saveRead") /\ UNCHANGED <<cat, closure>>
    <3> DEFINE w == [q EXCEPT !.pc = "saveRead"]
    <3>1. w \in Request /\ req' = [req EXCEPT ![r] = w]
      BY <1>0, <2>2 DEF Request, Steps, Goto
    <3>2. w.id = q.id /\ w.row = q.row /\ w.pc = "saveRead" /\ w.todo = q.todo
          /\ w.locked = q.locked
      BY <1>0 DEF Request
    <3>3. Locals(w, Rows)
      BY <1>0, <1>4, <3>2 DEF Locals, StatusDescendants, At
    <3> QED
      BY <2>2, <3>1, <3>3, LocalsTyped
  <2>3. CASE /\ req' = [req EXCEPT ![r].todo = ActiveDescendants(r), ![r].pc = "deactivate"]
             /\ UNCHANGED <<cat, closure>>
    <3> DEFINE w == [q EXCEPT !.todo = ActiveDescendants(r), !.pc = "deactivate"]
    <3>1. w \in Request /\ req' = [req EXCEPT ![r] = w]
      BY <1>0, <2>3 DEF Request, Steps, ActiveDescendants
    <3>2. /\ w.id = q.id /\ w.row = q.row /\ w.pc = "deactivate"
          /\ w.todo \subseteq Rows /\ w.locked = q.locked
      BY <1>0, RowsExist DEF Request, ActiveDescendants, Active, Live
    <3>3. Locals(w, Rows)
      BY <1>0, <1>4, <3>2 DEF Locals, StatusDescendants, At
    <3> QED
      BY <2>3, <3>1, <3>3, LocalsTyped
  <2> QED
    BY <1>4, <2>1, <2>2, <2>3 DEF StatusDescendants
<1>5. CASE Deactivate(r)
  <2>1. PICK d \in q.todo :
               req' = [req EXCEPT ![r].todo = @ \ {d}, ![r].locked = @ \cup {d},
                       ![r].pc = IF req[r].todo = {d} THEN "saveRead" ELSE @]
    BY <1>5 DEF Deactivate
  <2> DEFINE p == IF q.todo = {d} THEN "saveRead" ELSE q.pc
             w == [q EXCEPT !.todo = @ \ {d}, !.locked = @ \cup {d}, !.pc = p]
  <2>2. w \in Request /\ req' = [req EXCEPT ![r] = w]
    BY <1>0, <2>1 DEF Request, Steps
  <2>3. w.id = q.id /\ w.row = q.row /\ w.pc = p /\ w.op = q.op
        /\ w.todo = q.todo \ {d} /\ w.locked = q.locked \cup {d}
    BY <1>0 DEF Request
  <2>4. Locals(w, Rows)
    BY <1>0, <1>5, <2>3 DEF Locals, Deactivate
  <2> QED
    BY <1>5, <2>2, <2>4, LocalsTyped DEF Deactivate
<1>6. CASE SaveRead(r)
  <2> DEFINE K == {k \in Columns : q.row[k] # cat[q.id][k]}
             w == [q EXCEPT !.pc = "saveWrite", !.dirty = K]
  <2>1. w \in Request /\ req' = [req EXCEPT ![r] = w]
    BY <1>0, <1>6 DEF Request, Steps, SaveRead
  <2>2. w.id = q.id /\ w.row = q.row /\ w.pc = "saveWrite" /\ w.todo = q.todo
        /\ w.locked = q.locked
    BY <1>0 DEF Request
  <2>3. Locals(w, Rows)
    BY <1>0, <1>6, <2>2 DEF Locals, SaveRead
  <2> QED
    BY <1>6, <2>1, <2>3, LocalsTyped DEF SaveRead
<1>7. CASE SaveWrite(r)
  <2>1. q.id \in Rows /\ q.row \in Row
    BY <1>0, <1>7 DEF Locals, SaveWrite
  <2>2. cat[q.id] \in Row
    BY <1>r, <2>1
  <2>3. Saved(r) \in Row
    BY <2>1, <2>2 DEF Saved, Row
  <2>4. q.locked \subseteq Rows
    BY <1>0 DEF Locals
  <2>5. ASSUME NEW c \in Rows
        PROVE  cat'[c] \in Row
    <3>1. cat[c] \in Row /\ [cat[c] EXCEPT !.status = "inactive"] \in Row
      BY <1>r DEF Row, Statuses
    <3> QED
      BY <1>7, <1>r, <2>3, <3>1 DEF SaveWrite
  <2>6. ASSUME NEW c \in Categories \ Rows
        PROVE  cat'[c] = None
    BY <1>7, <2>1, <2>4 DEF SaveWrite, Rows
  <2>7. cat' \in [Categories -> Row \cup {None}]
    BY <1>7, <2>5, <2>6 DEF SaveWrite
  <2>8. Rows \subseteq Rows'
    BY <2>5, CategoryAssumption DEF Rows
  <2> QED
    BY <1>7, <1>c, <2>7, <2>8, FinishTyped DEF SaveWrite
<1>8. CASE DeleteFind(r)
  <2>1. PICK c \in Categories :
               Live(c) /\ Begin(r, [Fresh("delete", "descendants") EXCEPT !.id = c])
    BY <1>8 DEF DeleteFind
  <2> DEFINE f == Fresh("delete", "descendants")
             w == [f EXCEPT !.id = c]
  <2>2. f \in Request /\ f.pc = "descendants" /\ f.op = "delete" /\ f.todo = {}
        /\ f.locked = {}
    BY FreshType DEF Ops, Steps
  <2>3. /\ w \in Request /\ w.pc = "descendants" /\ w.op = "delete" /\ w.id = c
        /\ w.todo = {} /\ w.locked = {}
    BY <2>2 DEF Request
  <2>4. Locals(w, Rows)
    BY <2>1, <2>3, RowsExist DEF Locals, Live
  <2> QED
    BY <2>1, <2>3, <2>4, LocalsTyped DEF Begin
<1>9. ASSUME NEW p \in {"select", "softDelete"}, Goto(r, p), UNCHANGED <<cat, closure>>,
             q.pc \in {"descendants", "select"}
      PROVE  Typed(r)
  <2> DEFINE w == [q EXCEPT !.pc = p]
  <2>1. w \in Request /\ req' = [req EXCEPT ![r] = w]
    BY <1>0, <1>9 DEF Request, Steps, Goto
  <2>2. w.id = q.id /\ w.pc = p /\ w.todo = q.todo /\ w.locked = q.locked
    BY <1>0 DEF Request
  <2>3. Locals(w, Rows)
    BY <1>0, <1>9, <2>2 DEF Locals
  <2> QED
    BY <1>9, <2>1, <2>3, LocalsTyped
<1>10. CASE DeleteDescendants(r) \/ DeleteSelect(r)
  BY <1>9, <1>10, RefuseTyped DEF DeleteDescendants, DeleteSelect, At
<1>11. CASE SoftDelete(r)
  <2>1. q.id \in Rows /\ cat[q.id] \in Row
    BY <1>0, <1>11, <1>r DEF Locals, SoftDelete
  <2>2. [cat[q.id] EXCEPT !.deleted = TRUE] \in Row
    BY <2>1 DEF Row
  <2>3. cat' = [cat EXCEPT ![q.id] = [cat[q.id] EXCEPT !.deleted = TRUE]]
    BY <1>11 DEF SoftDelete
  <2>4. cat' \in [Categories -> Row \cup {None}] /\ Rows \subseteq Rows'
    BY <1>c, <2>1, <2>2, <2>3, CategoryAssumption DEF Rows
  <2> QED
    BY <1>11, <1>c, <2>4, FinishTyped DEF SoftDelete
<1>12. CASE RestoreFind(r)
  <2>1. PICK c \in Categories :
               Exists(c) /\ Begin(r, [Fresh("restore", "select") EXCEPT !.id = c])
    BY <1>12 DEF RestoreFind
  <2> DEFINE f == Fresh("restore", "select")
             w == [f EXCEPT !.id = c]
  <2>2. f \in Request /\ f.pc = "select" /\ f.todo = {} /\ f.locked = {}
    BY FreshType DEF Ops, Steps
  <2>3. w \in Request /\ w.pc = "select" /\ w.id = c /\ w.todo = {} /\ w.locked = {}
    BY <2>2 DEF Request
  <2>4. Locals(w, Rows)
    BY <2>1, <2>3, RowsExist DEF Locals
  <2> QED
    BY <2>1, <2>3, <2>4, LocalsTyped DEF Begin
<1>13. CASE RestoreSelect(r)
  <2>1. q.id \in Rows /\ cat[q.id] \in Row
    BY <1>0, <1>13, <1>r DEF Locals, RestoreSelect, At
  <2> DEFINE t == [cat[q.id] EXCEPT !.deleted = FALSE]
             w == [q EXCEPT !.row = t, !.pc = "saveRead"]
  <2>2. t \in Row
    BY <2>1 DEF Row
  <2>3. w \in Request /\ req' = [req EXCEPT ![r] = w]
    BY <1>0, <1>13, <2>2 DEF Request, Steps, RestoreSelect
  <2>4. w.id = q.id /\ w.row = t /\ w.pc = "saveRead" /\ w.todo = q.todo
        /\ w.locked = q.locked
    BY <1>0 DEF Request
  <2>5. Locals(w, Rows)
    BY <1>0, <2>1, <2>2, <2>4 DEF Locals
  <2> QED
    BY <1>13, <2>3, <2>5, LocalsTyped DEF RestoreSelect
<1>14. CASE Abort(r)
  BY <1>14, RefuseTyped DEF Abort
<1> QED
  BY <1>1, <1>2, <1>3, <1>4, <1>5, <1>6, <1>7, <1>8, <1>10, <1>11, <1>12, <1>13, <1>14
     DEF Handle

LEMMA TypeNext == TypeOK /\ [Next]_vars => TypeOK'
<1> SUFFICES ASSUME TypeOK, [Next]_vars PROVE TypeOK'
  OBVIOUS
<1>1. CASE UNCHANGED vars
  BY <1>1 DEF TypeOK, vars, Rows
<1>2. CASE Next
  <2>1. PICK r \in Requests : Typed(r)
    BY <1>2, TypeHandle DEF Next
  <2>2. PICK q \in Request : req' = [req EXCEPT ![r] = q] /\ Locals(q, Rows')
    BY <2>1 DEF Typed
  <2>3. \A s \in Requests : Locals(req'[s], Rows')
    <3> SUFFICES ASSUME NEW s \in Requests PROVE Locals(req'[s], Rows')
      OBVIOUS
    <3>1. CASE s = r
      BY <2>2, <3>1 DEF TypeOK
    <3>2. CASE s # r
      <4>1. req'[s] = req[s] /\ Locals(req[s], Rows) /\ Rows \subseteq Rows'
        BY <2>1, <2>2, <3>2 DEF TypeOK, Typed
      <4> QED
        BY <4>1 DEF Locals
    <3> QED
      BY <3>1, <3>2
  <2>4. alone' \in [Requests -> BOOLEAN]
    BY <1>2 DEF Next, Remember
  <2> QED
    BY <2>1, <2>2, <2>3, <2>4 DEF TypeOK, Typed
<1> QED
  BY <1>1, <1>2

\* Every variable of the tree has its type, and a handler's locals name rows
\* that exist: no step works on a category that was never found.
THEOREM TypeCorrect == Spec => []TypeOK
<1>1. Init => TypeOK
  BY FreshType DEF Init, TypeOK, Locals
<1> QED
  BY <1>1, TypeNext, PTL DEF Spec

(***************************************************************************)
(* The tree. Two facts carry the proofs: a row is below its parent in the  *)
(* closure table, and what a request that runs alone has read still holds. *)
(***************************************************************************)

ClosureInv ==
    \A c \in Categories : Exists(c) =>
        /\ <<c, c>> \in closure
        /\ cat[c].parent # None => /\ cat[c].parent # c
                                  /\ <<cat[c].parent, c>> \in closure

\* What the locals q say of the tables, when nothing changed since they were read.
Current(q) ==
    /\ q.pc = "insert" => q.parent = None \/ Live(q.parent)
    /\ q.pc = "softDelete" \/ (q.pc = "select" /\ q.op = "delete") =>
          \A d \in Below(q.id) : ~Live(d)
    /\ \/ q.pc = "descendants" /\ q.op = "statusUpdate"
       \/ q.pc \in {"deactivate", "saveRead", "saveWrite"} /\ q.op # "restore"
       => q.row.deleted = cat[q.id].deleted
    /\ q.op = "statusUpdate" /\ q.row # None /\ q.row.status = "inactive" =>
          \A d \in Categories \ {q.id} : Active(d) =>
             /\ q.pc = "deactivate" => d \in q.todo \cup q.locked
             /\ q.pc \in {"saveRead", "saveWrite"} => d \in q.locked

AloneInv ==
    \A r \in Requests : req[r].pc # "idle" /\ alone[r] =>
        /\ \A s \in Requests \ {r} : req[s].pc = "idle"
        /\ Current(req[r])

TreeInv == TypeOK /\ ClosureInv /\ AloneInv

LEMMA OneAtATime ==
    ASSUME TypeOK, NEW r \in Requests, Handle(r)
    PROVE  \A s \in Requests \ {r} : req'[s] = req[s]
<1>1. PICK q \in Request : req' = [req EXCEPT ![r] = q]
  BY TypeHandle DEF Typed
<1> QED
  BY <1>1 DEF TypeOK

LEMMA Finished ==
    ASSUME TypeOK, NEW r \in Requests, Finish(r)
    PROVE  req'[r].pc = "idle"
BY FreshType DEF TypeOK, Finish

\* A step that does not end the request writes nothing, and what it read holds.
LEMMA CurrentStep ==
    ASSUME TypeOK, NEW r \in Requests, Handle(r),
           req[r].pc # "idle" => Current(req[r]), req'[r].pc # "idle"
    PROVE  UNCHANGED <<cat, closure>> /\ Current(req'[r])
<1> DEFINE q == req[r]
<1>0. q \in Request /\ Locals(q, Rows) /\ req \in [Requests -> Request]
  BY DEF TypeOK
<1>r. \A c \in Categories : Exists(c) => cat[c] \in Row /\ cat[c] # None
  BY DEF TypeOK, Exists
<1>1. CASE CreateFind(r)
  <2>1. PICK p \in Categories \cup {None} :
               /\ p = None \/ Live(p)
               /\ Begin(r, [Fresh("create", "insert") EXCEPT !.parent = p])
    BY <1>1 DEF CreateFind
  <2> DEFINE f == Fresh("create", "insert")
             w == [f EXCEPT !.parent = p]
  <2>2. f \in Request /\ f.pc = "insert" /\ f.op = "create"
    BY FreshType DEF Ops, Steps
  <2>3. w.pc = "insert" /\ w.parent = p /\ w.op = "create"
    BY <2>2 DEF Request
  <2>4. Current(w)
    BY <2>1, <2>3 DEF Current
  <2>5. req'[r] = w
    BY <1>0, <2>1 DEF Begin
  <2> QED
    BY <2>1, <2>4, <2>5 DEF Begin
<1>2. CASE StatusFind(r)
  <2>1. PICK c \in Categories, s \in {"active", "inactive"} :
               /\ Exists(c)
               /\ LET step == IF s = "inactive" THEN "descendants" ELSE "saveRead"
                  IN Begin(r, [Fresh("statusUpdate", step) EXCEPT
                                 !.id = c, !.row = [cat[c] EXCEPT !.status = s]])
    BY <1>2 DEF StatusFind
  <2> DEFINE t == [cat[c] EXCEPT !.status = s]
             p == IF s = "inactive" THEN "descendants" ELSE "saveRead"
             f == Fresh("statusUpdate", p)
             w == [f EXCEPT !.id = c, !.row = t]
  <2>2. t.status = s /\ t.deleted = cat[c].deleted
    BY <1>r, <2>1 DEF Row
  <2>3. f \in Request /\ f.pc = p /\ f.op = "statusUpdate"
    BY FreshType DEF Ops, Steps
  <2>4. w.pc = p /\ w.op = "statusUpdate" /\ w.id = c /\ w.row = t
    BY <2>3 DEF Request
  <2>5. Current(w)
    <3>1. /\ \/ w.pc = "descendants"
             \/ w.pc = "saveRead" /\ w.row.status = "active"
          /\ w.row.deleted = cat[w.id].deleted
      <4> HIDE DEF w, t, f
      <4>1. CASE s = "inactive"
        BY <2>2, <2>4, <4>1
      <4>2. CASE s = "active"
        BY <2>2, <2>4, <4>2
      <4> QED
        BY <4>1, <4>2
    <3> HIDE DEF w, t, f
    <3> QED
      BY <2>4, <3>1 DEF Current
  <2>6. req'[r] = w
    BY <1>0, <2>1 DEF Begin
  <2> QED
    BY <2>1, <2>5, <2>6 DEF Begin
<1>3. CASE StatusDescendants(r)
  <2>0. q.pc = "descendants" /\ q.op = "statusUpdate" /\ q.row.deleted = cat[q.id].deleted
    BY <1>3 DEF StatusDescendants, At, Current
  <2>1. CASE ActiveDescendants(r) = {} /\ Goto(r, "saveRead") /\ UNCHANGED <<cat, closure>>
    <3> DEFINE w == [q EXCEPT !.pc = "saveRead"]
    <3>1. req'[r] = w
      BY <1>0, <2>1 DEF Goto
    <3>2. w.id = q.id /\ w.row = q.row /\ w.pc = "saveRead" /\ w.op = "statusUpdate"
      BY <1>0, <2>0 DEF Request
    <3>3. \A d \in Categories \ {q.id} : ~Active(d)
      BY <2>1 DEF ActiveDescendants
    <3>4. Current(w)
      BY <2>0, <3>2, <3>3 DEF Current
    <3> QED
      BY <2>1, <3>1, <3>4
  <2>2. CASE /\ req' = [req EXCEPT ![r].todo = ActiveDescendants(r), ![r].pc = "deactivate"]
             /\ UNCHANGED <<cat, closure>>
    <3> DEFINE w == [q EXCEPT !.todo = ActiveDescendants(r), !.pc = "deactivate"]
    <3>1. req'[r] = w
      BY <1>0, <2>2
    <3>2. /\ w.id = q.id /\ w.row = q.row /\ w.pc = "deactivate" /\ w.op = "statusUpdate"
          /\ w.todo = ActiveDescendants(r)
      BY <1>0, <2>0 DEF Request
    <3>3. \A d \in Categories \ {q.id} : Active(d) => d \in w.todo
      BY <3>2 DEF ActiveDescendants
    <3>4. Current(w)
      BY <2>0, <3>2, <3>3 DEF Current
    <3> QED
      BY <2>2, <3>1, <3>4
  <2>3. CASE Refuse(r)
    BY <2>3, Finished DEF Refuse
  <2> QED
    BY <1>3, <2>1, <2>2, <2>3 DEF StatusDescendants
<1>4. CASE Deactivate(r)
  <2>1. PICK d \in q.todo :
               req' = [req EXCEPT ![r].todo = @ \ {d}, ![r].locked = @ \cup {d},
                       ![r].pc = IF req[r].todo = {d} THEN "saveRead" ELSE @]
    BY <1>4 DEF Deactivate
  <2> DEFINE p == IF q.todo = {d} THEN "saveRead" ELSE q.pc
             w == [q EXCEPT !.todo = @ \ {d}, !.locked = @ \cup {d}, !.pc = p]
  <2>2. req'[r] = w
    BY <1>0, <2>1
  <2>3. w.id = q.id /\ w.row = q.row /\ w.pc = p /\ w.op = q.op
        /\ w.todo = q.todo \ {d} /\ w.locked = q.locked \cup {d}
    BY <1>0 DEF Request
  <2>4. q.pc = "deactivate" /\ Current(q) /\ UNCHANGED <<cat, closure>>
    BY <1>4 DEF Deactivate
  <2>5. Current(w)
    BY <2>3, <2>4 DEF Current
  <2> QED
    BY <2>2, <2>4, <2>5
<1>5. CASE SaveRead(r)
  <2> DEFINE K == {k \in Columns : q.row[k] # cat[q.id][k]}
             w == [q EXCEPT !.pc = "saveWrite", !.dirty = K]
  <2>1. req'[r] = w /\ q.pc = "saveRead" /\ Current(q) /\ UNCHANGED <<cat, closure>>
    BY <1>0, <1>5 DEF SaveRead
  <2>2. /\ w.id = q.id /\ w.row = q.row /\ w.pc = "saveWrite" /\ w.op = q.op
        /\ w.locked = q.locked
    BY <1>0 DEF Request
  <2>3. Current(w)
    BY <2>1, <2>2 DEF Current
  <2> QED
    BY <2>1, <2>3
<1>6. CASE DeleteFind(r)
  <2>1. PICK c \in Categories : Begin(r, [Fresh("delete", "descendants") EXCEPT !.id = c])
    BY <1>6 DEF DeleteFind
  <2> DEFINE f == Fresh("delete", "descendants")
             w == [f EXCEPT !.id = c]
  <2>2. f \in Request /\ f.pc = "descendants" /\ f.op = "delete"
    BY FreshType DEF Ops, Steps
  <2>3. w.pc = "descendants" /\ w.op = "delete"
    BY <2>2 DEF Request
  <2>4. Current(w)
    BY <2>3 DEF Current
  <2>5. req'[r] = w
    BY <1>0, <2>1 DEF Begin
  <2> QED
    BY <2>1, <2>4, <2>5 DEF Begin
<1>7. CASE DeleteDescendants(r)
  <2>1. CASE Refuse(r)
    BY <2>1, Finished DEF Refuse
  <2>2. CASE (\A d \in Below(q.id) : ~Live(d)) /\ Goto(r, "select")
    <3> DEFINE w == [q EXCEPT !.pc = "select"]
    <3>1. req'[r] = w /\ q.op = "delete" /\ UNCHANGED <<cat, closure>>
      BY <1>0, <1>7, <2>2, Finished DEF Goto, DeleteDescendants, At, Refuse
    <3>2. w.id = q.id /\ w.pc = "select" /\ w.op = "delete"
      BY <1>0, <3>1 DEF Request
    <3>3. Current(w)
      BY <2>2, <3>2 DEF Current
    <3> QED
      BY <3>1, <3>3
  <2> QED
    BY <1>7, <2>1, <2>2 DEF DeleteDescendants
<1>8. CASE DeleteSelect(r)
  <2>1. CASE Refuse(r)
    BY <2>1, Finished DEF Refuse
  <2>2. CASE Goto(r, "softDelete") /\ UNCHANGED <<cat, closure>>
    <3> DEFINE w == [q EXCEPT !.pc = "softDelete"]
    <3>1. req'[r] = w /\ q.op = "delete" /\ q.pc = "select" /\ Current(q)
      BY <1>0, <1>8, <2>2 DEF Goto, DeleteSelect, At
    <3>2. w.id = q.id /\ w.pc = "softDelete" /\ w.op = "delete"
      BY <1>0, <3>1 DEF Request
    <3>3. Current(w)
      BY <3>1, <3>2 DEF Current
    <3> QED
      BY <2>2, <3>1, <3>3
  <2> QED
    BY <1>8, <2>1, <2>2 DEF DeleteSelect
<1>9. CASE RestoreFind(r)
  <2>1. PICK c \in Categories : Begin(r, [Fresh("restore", "select") EXCEPT !.id = c])
    BY <1>9 DEF RestoreFind
  <2> DEFINE f == Fresh("restore", "select")
             w == [f EXCEPT !.id = c]
  <2>2. f \in Request /\ f.pc = "select" /\ f.op = "restore"
    BY FreshType DEF Ops, Steps
  <2>3. w.pc = "select" /\ w.op = "restore"
    BY <2>2 DEF Request
  <2>4. Current(w)
    BY <2>3 DEF Current
  <2>5. req'[r] = w
    BY <1>0, <2>1 DEF Begin
  <2> QED
    BY <2>1, <2>4, <2>5 DEF Begin
<1>10. CASE RestoreSelect(r)
  <2> DEFINE t == [cat[q.id] EXCEPT !.deleted = FALSE]
             w == [q EXCEPT !.row = t, !.pc = "saveRead"]
  <2>1. req'[r] = w /\ q.op = "restore" /\ UNCHANGED <<cat, closure>>
    BY <1>0, <1>10 DEF RestoreSelect, At
  <2>2. w.pc = "saveRead" /\ w.op = "restore"
    BY <1>0, <2>1 DEF Request
  <2>3. Current(w)
    BY <2>2 DEF Current
  <2> QED
    BY <2>1, <2>3
<1>11. CASE CreateInsert(r) \/ SaveWrite(r) \/ SoftDelete(r) \/ Abort(r)
  BY <1>11, Finished DEF CreateInsert, SaveWrite, SoftDelete, Abort, Refuse
<1> QED
  BY <1>1, <1>2, <1>3, <1>4, <1>5, <1>6, <1>7, <1>8, <1>9, <1>10, <1>11 DEF Handle

\* Rows keep their parents, whatever else an action writes.
LEMMA ParentsKept ==
    ASSUME TypeOK, NEW r \in Requests, SaveWrite(r) \/ SoftDelete(r), NEW c \in Categories
    PROVE  (Exists(c)' <=> Exists(c)) /\ (Exists(c) => cat'[c].parent = cat[c].parent)
<1> DEFINE q == req[r]
<1>0. q \in Request /\ Locals(q, Rows) /\ cat \in [Categories -> Row \cup {None}]
  BY DEF TypeOK
<1>1. q.id \in Rows /\ q.locked \subseteq Rows
  BY <1>0 DEF SaveWrite, SoftDelete, Locals
<1>2. \A d \in Rows : cat[d] \in Row
  BY <1>0 DEF Rows
<1>3. CASE SaveWrite(r)
  <2>1. q.row \in Row /\ cat[q.id] \in Row
    BY <1>0, <1>1, <1>2, <1>3 DEF SaveWrite, Locals
  <2>2. Saved(r) \in Row /\ Saved(r).parent = cat[q.id].parent
    BY <2>1 DEF Saved, Row
  <2>3. cat'[c] = IF c = q.id THEN Saved(r)
                  ELSE IF c \in q.locked THEN [cat[c] EXCEPT !.status = "inactive"]
                  ELSE cat[c]
    BY <1>3 DEF SaveWrite
  <2>4. CASE c \in Rows
    <3>1. cat'[c] \in Row /\ cat'[c].parent = cat[c].parent
      BY <1>2, <2>2, <2>3, <2>4 DEF Row, Statuses
    <3> QED
      BY <2>4, <3>1, CategoryAssumption DEF Exists, Rows
  <2>5. CASE c \notin Rows
    BY <1>1, <2>3, <2>5 DEF Rows, Exists
  <2> QED
    BY <2>4, <2>5
<1>4. CASE SoftDelete(r)
  <2>1. cat' = [cat EXCEPT ![q.id] = [cat[q.id] EXCEPT !.deleted = TRUE]]
    BY <1>4 DEF SoftDelete
  <2>2. [cat[q.id] EXCEPT !.deleted = TRUE] \in Row
        /\ [cat[q.id] EXCEPT !.deleted = TRUE].parent = cat[q.id].parent
    BY <1>1, <1>2 DEF Row
  <2> QED
    BY <1>0, <1>1, <2>1, <2>2, CategoryAssumption DEF Exists, Rows
<1> QED
  BY <1>3, <1>4

LEMMA ClosureKept ==
    ASSUME TypeOK, ClosureInv, NEW r \in Requests, Handle(r)
    PROVE  ClosureInv'
<1>1. CASE UNCHANGED <<cat, closure>>
  BY <1>1 DEF ClosureInv, Exists
<1>2. CASE SaveWrite(r) \/ SoftDelete(r)
  <2>1. closure' = closure
    BY <1>2 DEF SaveWrite, SoftDelete
  <2> QED
    BY <1>2, <2>1, ParentsKept DEF ClosureInv
<1>3. CASE CreateInsert(r)
  <2>1. CASE Refuse(r)
    BY <1>1, <2>1 DEF Refuse
  <2>2. ASSUME NEW c \in Categories, ~Exists(c), Finish(r),
               cat' = [cat EXCEPT ![c] = [parent |-> req[r].parent,
                                          status |-> "pending", deleted |-> FALSE]],
               closure' = closure \cup Ancestry(c, req[r].parent)
        PROVE  ClosureInv'
    <3> DEFINE p == req[r].parent
               t == [parent |-> p, status |-> "pending", deleted |-> FALSE]
    <3>1. /\ p \in Categories \cup {None}
          /\ p # None => Exists(p) /\ <<p, p>> \in closure /\ p # c
      BY <1>3, <2>2 DEF CreateInsert, TypeOK, Locals, Rows, ClosureInv, Request, Exists
    <3>2. <<c, c>> \in closure' /\ (p # None => <<p, c>> \in closure')
      BY <2>2, <3>1 DEF Ancestry
    <3>3. cat' = [cat EXCEPT ![c] = t] /\ cat \in [Categories -> Row \cup {None}]
      BY <2>2 DEF TypeOK
    <3> SUFFICES ASSUME NEW d \in Categories, Exists(d)'
                 PROVE  /\ <<d, d>> \in closure'
                        /\ cat'[d].parent # None => /\ cat'[d].parent # d
                                                   /\ <<cat'[d].parent, d>> \in closure'
      BY DEF ClosureInv
    <3>4. CASE d = c
      <4>1. cat'[d] = t /\ t.parent = p
        BY <3>3, <3>4
      <4> QED
        BY <3>1, <3>2, <3>4, <4>1
    <3>5. CASE d # c
      <4>1. cat'[d] = cat[d] /\ Exists(d)
        BY <3>3, <3>5 DEF Exists
      <4> QED
        BY <2>2, <4>1 DEF ClosureInv
    <3> QED
      BY <3>4, <3>5
  <2> QED
    BY <1>3, <2>1, <2>2 DEF CreateInsert
<1> QED
  BY <1>1, <1>2, <1>3 DEF Handle, CreateFind, StatusFind, StatusDescendants, Deactivate,
     SaveRead, DeleteFind, DeleteDescendants, DeleteSelect, RestoreFind, RestoreSelect,
     Abort, Begin, Refuse

LEMMA Begun ==
    ASSUME TypeOK, NEW r \in Requests,
           CreateFind(r) \/ StatusFind(r) \/ DeleteFind(r) \/ RestoreFind(r)
    PROVE  req'[r].pc # "idle"
<1>1. \A q : Begin(r, q) => req'[r] = q
  BY DEF Begin, TypeOK
<1>2. \A op \in Ops, pc \in Steps : Fresh(op, pc) \in Request /\ Fresh(op, pc).pc = pc
  BY FreshType
<1>3. CASE CreateFind(r)
  <2> DEFINE f == Fresh("create", "insert")
  <2>1. \A p : [f EXCEPT !.parent = p].pc = "insert"
    BY <1>2 DEF Ops, Steps, Request
  <2> HIDE DEF f
  <2>2. \E p : req'[r] = [f EXCEPT !.parent = p]
    BY <1>1, <1>3 DEF CreateFind, f
  <2> QED
    BY <2>1, <2>2
<1>4. CASE StatusFind(r)
  <2> DEFINE f(s) == Fresh("statusUpdate", IF s = "inactive" THEN "descendants" ELSE "saveRead")
  <2>1. \A s, c, t : [f(s) EXCEPT !.id = c, !.row = t].pc \in {"descendants", "saveRead"}
    <3> SUFFICES ASSUME NEW s, NEW c, NEW t
                 PROVE  [f(s) EXCEPT !.id = c, !.row = t].pc \in {"descendants", "saveRead"}
      OBVIOUS
    <3>1. f(s) \in Request /\ f(s).pc \in {"descendants", "saveRead"}
      BY <1>2 DEF Ops, Steps
    <3> QED
      BY <3>1 DEF Request
  <2>2. PICK c \in Categories, s \in {"active", "inactive"} :
               Begin(r, [f(s) EXCEPT !.id = c, !.row = [cat[c] EXCEPT !.status = s]])
    BY <1>4 DEF StatusFind
  <2>3. req'[r] = [f(s) EXCEPT !.id = c, !.row = [cat[c] EXCEPT !.status = s]]
    BY <1>1, <2>2
  <2> QED
    BY <2>1, <2>3
<1>5. CASE DeleteFind(r) \/ RestoreFind(r)
  <2> DEFINE f == Fresh("delete", "descendants")
             g == Fresh("restore", "select")
  <2>1. \A c : [f EXCEPT !.id = c].pc = "descendants" /\ [g EXCEPT !.id = c].pc = "select"
    BY <1>2 DEF Ops, Steps, Request
  <2>2. \E c : req'[r] = [f EXCEPT !.id = c] \/ req'[r] = [g EXCEPT !.id = c]
    BY <1>1, <1>5 DEF DeleteFind, RestoreFind
  <2> QED
    BY <2>1, <2>2
<1> QED
  BY <1>3, <1>4, <1>5

LEMMA AloneKept ==
    ASSUME TreeInv, NEW r \in Requests, Handle(r), Remember
    PROVE  AloneInv'
<1>t. TypeOK
  BY DEF TreeInv
<1>1. \A s \in Requests \ {r} : req'[s] = req[s]
  BY <1>t, OneAtATime
<1> SUFFICES ASSUME NEW s \in Requests, req'[s].pc # "idle", alone'[s]
             PROVE  /\ \A u \in Requests \ {s} : req'[u].pc = "idle"
                    /\ Current(req[s])'
  BY DEF AloneInv
<1>2. alone[s] /\ \A u \in Requests \ {s} : req'[u].pc = "idle"
  BY DEF Remember
<1>3. CASE s = r
  <2>1. req[r].pc # "idle" => Current(req[r])
    BY <1>2, <1>3 DEF TreeInv, AloneInv
  <2>2. UNCHANGED <<cat, closure>> /\ Current(req'[r])
    BY <1>t, <1>3, <2>1, CurrentStep
  <2> QED
    BY <1>2, <1>3, <2>2 DEF Current, Below, Live, Active, Exists
\* Another request moved, so it was in flight before: then s was not alone.
<1>4. CASE s # r
  <2>1. req[s].pc # "idle" /\ req[r].pc = "idle" /\ req'[r].pc = "idle"
    BY <1>1, <1>2, <1>4 DEF TreeInv, AloneInv
  <2>2. req'[r].pc # "idle"
    <3>1. CreateFind(r) \/ StatusFind(r) \/ DeleteFind(r) \/ RestoreFind(r)
      BY <2>1 DEF Handle, CreateInsert, StatusDescendants, Deactivate, SaveRead, SaveWrite,
         DeleteDescendants, DeleteSelect, SoftDelete, RestoreSelect, At, Abort, WaitsFor,
         Wanted
    <3> QED
      BY <1>t, <3>1, Begun
  <2> QED
    BY <2>1, <2>2
<1> QED
  BY <1>3, <1>4

LEMMA TreeNext == TreeInv /\ [Next]_vars => TreeInv'
<1> SUFFICES ASSUME TreeInv, [Next]_vars PROVE TreeInv'
  OBVIOUS
<1>1. TypeOK'
  BY TypeNext DEF TreeInv
<1>2. CASE Next
  <2>1. PICK r \in Requests : Handle(r) /\ Remember
    BY <1>2 DEF Next
  <2> QED
    BY <1>1, <2>1, ClosureKept, AloneKept DEF TreeInv
<1>3. CASE UNCHANGED vars
  BY <1>1, <1>3 DEF TreeInv, ClosureInv, AloneInv, Current, Below, Live, Active, Exists, vars
<1> QED
  BY <1>2, <1>3

LEMMA TreeAlways == Spec => []TreeInv
<1>1. Init => TreeInv
  BY FreshType DEF Init, TreeInv, TypeOK, Locals, ClosureInv, AloneInv, Exists
<1> QED
  BY <1>1, TreeNext, PTL DEF Spec

\* What a request that runs alone writes at its last step.
LEMMA AloneWrites ==
    ASSUME TreeInv, NEW r \in Requests, Handle(r), alone[r], req'[r] # req[r],
           req'[r].pc = "idle"
    PROVE  Current(req[r])
<1>1. req[r].pc # "idle"
  BY Begun DEF TreeInv, Handle, CreateInsert, StatusDescendants, Deactivate, SaveRead,
     SaveWrite, DeleteDescendants, DeleteSelect, SoftDelete, RestoreSelect, At, Abort,
     WaitsFor, Wanted
<1> QED
  BY <1>1 DEF TreeInv, AloneInv

LEMMA AloneMakesNoOrphan ==
    ASSUME TreeInv, NEW r \in Requests, Handle(r)
    PROVE  NoNewOrphan(r)
<1> SUFFICES ASSUME alone[r], req[r].op # "restore", req'[r] # req[r],
                    NEW c \in Categories, Orphan(c)'
             PROVE  Orphan(c)
  BY DEF NoNewOrphan
<1> DEFINE q == req[r]
<1>t. TypeOK /\ ClosureInv
  BY DEF TreeInv
<1>0. q \in Request /\ Locals(q, Rows) /\ cat \in [Categories -> Row \cup {None}]
  BY <1>t DEF TypeOK
<1>1. CASE UNCHANGED <<cat, closure>>
  BY <1>1 DEF Orphan, Live, Exists
<1>2. CASE /\ Finish(r) /\ ~UNCHANGED <<cat, closure>>
           /\ CreateInsert(r) \/ SaveWrite(r) \/ SoftDelete(r)
  <2>1. Current(q)
    BY <1>t, <1>2, Finished, AloneWrites
  <2>2. CASE SaveWrite(r)
    <3>1. q.row.deleted = cat[q.id].deleted /\ q.row \in Row /\ q.id \in Rows
      BY <1>0, <2>1, <2>2 DEF Current, SaveWrite, Locals
    <3>2. cat[q.id] \in Row
      BY <1>0, <3>1 DEF Rows
    <3>3. Saved(r).deleted = cat[q.id].deleted
      BY <3>1, <3>2 DEF Saved, Row
    <3>4. \A d \in Categories : Exists(d) => cat'[d].deleted = cat[d].deleted
      <4> SUFFICES ASSUME NEW d \in Categories, Exists(d)
                   PROVE  cat'[d].deleted = cat[d].deleted
        OBVIOUS
      <4>1. cat[d] \in Row
        BY <1>0 DEF Exists
      <4>2. [cat[d] EXCEPT !.status = "inactive"].deleted = cat[d].deleted
        BY <4>1 DEF Row
      <4> QED
        BY <2>2, <3>3, <4>2 DEF SaveWrite
    <3>5. (Exists(c)' <=> Exists(c)) /\ (Exists(c) => cat'[c].parent = cat[c].parent)
      BY <1>t, <2>2, ParentsKept
    <3>6. Exists(c) /\ cat'[c].parent = cat[c].parent /\ cat'[c].deleted = cat[c].deleted
      BY <3>4, <3>5 DEF Orphan, Live
    <3>7. cat[c] \in Row
      BY <1>0, <3>6 DEF Exists
    <3>8. PICK p \in Categories : p = cat[c].parent
      BY <3>6, <3>7 DEF Orphan, Exists, Row
    <3>9. Exists(p) /\ cat'[p].deleted = cat[p].deleted
      <4>1. Exists(p)' <=> Exists(p)
        BY <1>t, <2>2, <3>8, ParentsKept
      <4>2. Exists(p)'
        BY <3>6, <3>8 DEF Orphan, Exists
      <4> QED
        BY <3>4, <4>1, <4>2
    <3> QED
      BY <3>6, <3>8, <3>9 DEF Orphan, Live
  <2>3. CASE SoftDelete(r)
    <3>1. q.id \in Rows /\ cat[q.id] \in Row /\ \A d \in Below(q.id) : ~Live(d)
      BY <1>0, <2>1, <2>3 DEF SoftDelete, Locals, Rows, Current
    <3>2. cat' = [cat EXCEPT ![q.id] = [cat[q.id] EXCEPT !.deleted = TRUE]]
      BY <2>3 DEF SoftDelete
    <3>3. c # q.id /\ cat'[c] = cat[c] /\ Live(c)
      <4>1. cat'[q.id].deleted
        BY <1>0, <3>1, <3>2 DEF Rows, Row
      <4> QED
        BY <1>0, <3>2, <4>1 DEF Orphan, Live, Exists
    <3>4. cat[c].parent # q.id
      BY <1>t, <3>1, <3>3, CategoryAssumption DEF ClosureInv, Below, Live, Exists, Rows
    <3>5. cat[c].parent \in Categories /\ Exists(cat[c].parent)'
      BY <1>0, <3>3 DEF Orphan, Live, Exists, Row
    <3>6. cat'[cat[c].parent] = cat[cat[c].parent]
      BY <1>0, <3>2, <3>4, <3>5
    <3> QED
      BY <3>3, <3>5, <3>6 DEF Orphan, Exists
  <2>4. CASE CreateInsert(r)
    <3>1. PICK n \in Categories :
                 /\ ~Exists(n)
                 /\ cat' = [cat EXCEPT ![n] = [parent |-> q.parent, status |-> "pending",
                                               deleted |-> FALSE]]
      BY <1>2, <2>4 DEF CreateInsert, Refuse
    <3>2. q.parent = None \/ Live(q.parent)
      BY <2>1, <2>4 DEF Current, CreateInsert
    <3>3. q.parent \in Categories \cup {None}
      BY <1>0 DEF Request
    <3>4. CASE c = n
      <4>1. cat'[c].parent = q.parent
        BY <1>0, <3>1, <3>4
      <4>2. q.parent # None /\ q.parent # n /\ cat'[q.parent] = cat[q.parent]
        BY <1>0, <3>1, <3>2, <3>3, <4>1 DEF Orphan, Exists, Live
      <4> QED
        BY <3>2, <4>1, <4>2 DEF Orphan, Live
    <3>5. CASE c # n
      <4>1. cat'[c] = cat[c] /\ cat'[n].deleted = FALSE /\ Live(c)
        BY <1>0, <3>1, <3>5 DEF Orphan, Live, Exists
      <4>2. cat[c].parent # n /\ cat[c].parent \in Categories
        BY <1>0, <4>1 DEF Orphan, Live, Exists, Row
      <4>3. cat'[cat[c].parent] = cat[cat[c].parent]
        BY <1>0, <3>1, <4>2
      <4> QED
        BY <4>1, <4>3 DEF Orphan, Exists
    <3> QED
      BY <3>4, <3>5
  <2> QED
    BY <1>2, <2>2, <2>3, <2>4
<1> QED
  BY <1>1, <1>2 DEF Handle, CreateFind, StatusFind, StatusDescendants, Deactivate,
     SaveRead, DeleteFind, DeleteDescendants, DeleteSelect, RestoreFind, RestoreSelect,
     Abort, Begin, Refuse, CreateInsert, SaveWrite, SoftDelete

LEMMA AloneCovers ==
    ASSUME TreeInv, NEW r \in Requests, Handle(r)
    PROVE  CoversSubtree(r)
<1> SUFFICES ASSUME alone[r], At(r, "statusUpdate", "saveWrite"),
                    req[r].row.status = "inactive", req'[r] # req[r],
                    NEW d \in Below(req[r].id)
             PROVE  ~Active(d)'
  BY DEF CoversSubtree
<1> DEFINE q == req[r]
<1>t. TypeOK
  BY DEF TreeInv
<1>0. q \in Request /\ Locals(q, Rows) /\ cat \in [Categories -> Row \cup {None}]
      /\ q.pc = "saveWrite" /\ q.op = "statusUpdate"
  BY <1>t DEF TypeOK, At
<1>1. CASE SaveWrite(r)
  <2>1. Current(q) /\ q.row # None
    BY <1>0, <1>t, <1>1, Finished, AloneWrites, CategoryAssumption DEF SaveWrite, Locals
  <2>2. Active(d) => d \in q.locked
    BY <1>0, <2>1 DEF Current, Below
  <2>3. d \in Categories /\ cat'[d] = IF d \in q.locked
                                      THEN [cat[d] EXCEPT !.status = "inactive"]
                                      ELSE cat[d]
    BY <1>1 DEF SaveWrite, Below
  <2>4. CASE d \in q.locked
    <3>1. cat[d] \in Row
      BY <1>0, <2>4 DEF Locals, Rows
    <3>2. cat'[d].status = "inactive"
      BY <2>3, <2>4, <3>1 DEF Row
    <3> QED
      BY <3>2 DEF Active
  <2>5. CASE d \notin q.locked
    BY <2>2, <2>3, <2>5 DEF Active, Live, Exists
  <2> QED
    BY <2>4, <2>5
\* The request is aborted.
<1>2. CASE Abort(r)
  <2>1. UNCHANGED cat /\ alone[r] /\ req[r].pc # "idle"
    BY <1>0, <1>2 DEF Abort, Refuse
  \* It cannot be: nobody else is in flight who could lock a row.
  <2>2. \A s \in Requests \ {r} : req[s].pc = "idle"
    BY <2>1 DEF TreeInv, AloneInv
  <2>3. PICK s \in Requests : WaitsFor(r, s) /\ \E u \in Requests : WaitsFor(s, u)
    BY <1>2 DEF Abort
  <2> QED
    BY <2>2, <2>3 DEF WaitsFor, Wanted
<1> QED
  BY <1>0, <1>1, <1>2 DEF Handle, CreateFind, CreateInsert, StatusFind, StatusDescendants,
     Deactivate, SaveRead, DeleteFind, DeleteDescendants, DeleteSelect, SoftDelete,
     RestoreFind, RestoreSelect, Begin, At

\* A create, a delete and a statusUpdate that run alone leave no new orphan, in a
\* tree of any size, whatever requests that raced before have left there.
THEOREM TreeIsKept == Spec => AloneKeepsTree
<1>1. TreeInv /\ [Next]_vars => [\A r \in Requests : NoNewOrphan(r)]_vars
  <2> SUFFICES ASSUME TreeInv, Next, NEW r \in Requests PROVE NoNewOrphan(r)
    OBVIOUS
  <2>1. PICK s \in Requests : Handle(s)
    BY DEF Next
  <2>2. CASE s = r
    BY <2>1, <2>2, AloneMakesNoOrphan
  <2>3. CASE s # r
    BY <2>1, <2>3, OneAtATime DEF NoNewOrphan, TreeInv
  <2> QED
    BY <2>2, <2>3
<1> QED
  BY <1>1, TreeAlways, PTL DEF Spec, AloneKeepsTree

\* A statusUpdate to inactive that runs alone leaves no active category below the
\* one it deactivates, in a tree of any size and depth.
THEOREM SubtreeIsCovered == Spec => DeactivationCovers
<1>1. TreeInv /\ [Next]_vars => [\A r \in Requests : CoversSubtree(r)]_vars
  <2> SUFFICES ASSUME TreeInv, Next, NEW r \in Requests PROVE CoversSubtree(r)
    OBVIOUS
  <2>1. PICK s \in Requests : Handle(s)
    BY DEF Next
  <2>2. CASE s = r
    BY <2>1, <2>2, AloneCovers
  <2>3. CASE s # r
    BY <2>1, <2>3, OneAtATime DEF CoversSubtree, TreeInv
  <2> QED
    BY <2>2, <2>3
<1> QED
  BY <1>1, TreeAlways, PTL DEF Spec, DeactivationCovers
=============================================================================
