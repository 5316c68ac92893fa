----------------------------- MODULE BackOffice ------------------------------
(***************************************************************************)
(* Operators at work on one table of the back office: concurrent requests  *)
(* run the scripts of Endpoints step by step against PostgreSQL (READ      *)
(* COMMITTED, transactions, row locks, unique indexes) and Redis, while    *)
(* administrators grant and revoke the permissions that the policies ask   *)
(* for and that the authentication of every request reads through the      *)
(* cache.                                                                  *)
(*                                                                         *)
(* A row has the columns that the properties tell apart: its unique key    *)
(* (slug and type, name, identity, address, label and language ...; for    *)
(* places the type), its status or, without one, its other columns, its    *)
(* parent (places and categories only), whether its texts were edited, and *)
(* whether it is soft-deleted.                                             *)
(***************************************************************************)
EXTENDS Endpoints, Integers, FiniteSets

CONSTANTS
    Features,       \* tables that an instance looks at, one per behaviour
    Rows,           \* ids
    Keys,           \* values of the unique key
    Requests,       \* slots for requests in flight
    Ops,            \* endpoints that clients call
    Contested,      \* permissions that are granted and revoked meanwhile
    Changing,       \* features that this happens with; with the others, nothing
                    \* is lost by a request that is past its authentication
    MaxArrivals,    \* bound: requests of a behaviour
    Single,         \* bound: features that take one request in a behaviour
    None

ASSUME BackOfficeAssumption ==
    /\ Features \subseteq DOMAIN Controllers
    /\ None \notin Rows /\ None \notin Keys /\ None \notin BOOLEAN
    /\ Contested \subseteq Permissions /\ Changing \subseteq DOMAIN Controllers
    /\ MaxArrivals \in Nat

VARIABLES
    feature,        \* the table looked at
    rows,           \* [Rows -> committed row or None]
    order,          \* [Rows -> sort_order], brands only
    grants,         \* [Permissions -> what grants it to the operator, see Grant]
    req,            \* [Requests -> request in flight]
    cache,          \* [Entries -> row stored under the key of its read, or None]
    permCache,      \* the operator's permissions stored in Redis, or None
    cleaning,       \* keys that pending calls of deleteByPattern will remove
    excused,        \* ghost: keys whose entry may be out of date, see SetRow
    arrivals,       \* requests so far
    watch           \* ghost: what each request could have seen since it arrived

vars == <<feature, rows, order, grants, req, cache, permCache, cleaning, excused,
          arrivals, watch>>
-----------------------------------------------------------------------------
Columns == {"key", "state", "parent", "content", "deleted"}
Row == [key : Keys, state : BOOLEAN, parent : Rows \cup {None}, content : BOOLEAN,
        deleted : BOOLEAN]
ASSUME NoneIsNothing == None \notin Row /\ {"perms", "shared"} \cap Rows = {}
\* The columns of the table itself: the texts are rows of another one.
Own == Columns \ {"content"}
Values(c) == CASE c = "key" -> Keys [] c = "parent" -> Rows \cup {None} [] OTHER -> BOOLEAN
\* Some columns with their values.
Part(S) == {d \in [S -> UNION {Values(c) : c \in S}] : \A c \in S : d[c] \in Values(c)}
Parts == UNION {Part(S) : S \in SUBSET Columns}
Nothing == [c \in {} |-> None]
OwnPart(d) == [c \in DOMAIN d \cap Own |-> d[c]]

Idle == [op |-> "none", row |-> None, perm |-> None, data |-> Nothing, ids |-> {},
         positions |-> <<>>, pc |-> 0, code |-> 0, perms |-> None, entity |-> Nothing,
         loaded |-> Nothing, pend |-> Nothing, got |-> None, saw |-> None, told |-> {},
         page |-> {}]

Live(i) == rows[i] # None /\ ~rows[i].deleted
\* A row of user_permission, and whether the row of permission that it is joined
\* with has the permission's name and is not deleted.
Grant == [row : {"none", "live", "deleted"}, named : BOOLEAN]
Granted == {p \in Permissions : grants[p].row = "live" /\ grants[p].named}
\* Where Redis keeps what a read of the row shows.
Entries == Rows \cup {"shared"}
Entry(i) == IF feature \in Unkeyed THEN "shared" ELSE i
CacheKeys == Entries \cup {"perms"}
\* policy.allowDeleted: whoever may delete sees deleted rows. (And a policy that
\* lets everybody.)
deletedForAll(q) == TRUE
allowDeleted(q) == q.perms # None /\ "delete" \in q.perms
Visible(q, i) == rows[i] # None /\ (rows[i].deleted => allowDeleted(q))
hasChildren(i) == \E j \in Rows : Live(j) /\ rows[j].parent = i

At(r, step) == req[r].pc > 0 /\ Script(feature, req[r].op)[req[r].pc] = step
Becomes(r, q) == req' = [req EXCEPT ![r] = q]
Next1(q) == [q EXCEPT !.pc = @ + 1]
\* The answer keeps what it shows. The transaction, if there is one, has ended.
Answer(q, code) == [Idle EXCEPT !.op = q.op, !.row = q.row, !.code = code, !.perms = q.perms,
                                !.got = q.got, !.page = q.page]
Fails(r, code) == Becomes(r, Answer(req[r], code))
-----------------------------------------------------------------------------
(* Locks. An uncommitted change holds the row, or its texts, and its key.   *)

Group(c) == IF c = "content" \/ (c = "key" /\ feature = "category") THEN "texts" ELSE "row"
Groups(d) == {Group(c) : c \in DOMAIN d}
RowFree(r, i, G) ==
    \A s \in Requests \ {r} : req[s].row = i => Groups(req[s].pend) \cap G = {}
\* Nobody is about to take the key or to give it up.
KeyFree(r, k) ==
    \A s \in Requests \ {r} :
        Entities[feature].unique /\ "key" \in DOMAIN req[s].pend
            => /\ req[s].pend.key # k
               /\ req[s].row \in Rows /\ rows[req[s].row] # None
                      => rows[req[s].row].key # k
\* Does a row have the key, deleted rows included? (And a search of live rows.)
UsedLive(k, i) == \E j \in Rows \ {i} : Live(j) /\ rows[j].key = k
Used(k, i) == \E j \in Rows \ {i} : rows[j] # None /\ rows[j].key = k
\* The unique index, deleted rows included.
Duplicate(k, i) == Entities[feature].unique /\ Used(k, i)

\* What SubscriberAbstract tells the listeners inside the transaction: the history
\* and the cache. (And a subscriber that tells the cache nothing.)
Tell(q, action) == [q EXCEPT !.told = @ \cup {action}]
CleanNothing(keys) == UNCHANGED cleaning
Clean(keys) == cleaning' = IF feature \in Announcing THEN cleaning \cup keys ELSE cleaning
-----------------------------------------------------------------------------
(* Arrival and authentication. *)

Bodies(op) ==
    CASE op \in {"create", "update"} ->
            {d \in UNION {Part(S) : S \in Validators[feature][op]} :
                "parent" \in DOMAIN d => d.parent # None}
      [] op = "statusUpdate" -> Part({"state"})
      [] OTHER -> {Nothing}

\* What a call names: a row, or the ids of log rows to delete, or the ids of the
\* brands in their new order, at least two.
Targets(op) == IF op \in {"create", "find", "orderUpdate"} \/ (op = "delete" /\ feature \in Logs)
               THEN {None} ELSE Rows
IdLists(op) == IF op = "delete" /\ feature \in Logs THEN SUBSET Rows \ {{}} ELSE {{}}
Orders(op) == IF op = "orderUpdate"
              THEN UNION {[1..n -> Rows] : n \in 2..Cardinality(Rows)} ELSE {<<>>}

Room == arrivals < IF feature \in Single THEN 1 ELSE MaxArrivals

\* A client calls an endpoint.
Arrive(r) ==
    /\ req[r].op = "none" /\ Room
    /\ arrivals' = arrivals + 1
    /\ \E op \in Ops \cap Routes[feature] :
       \E d \in Bodies(op), i \in Targets(op), S \in IdLists(op), P \in Orders(op) :
            Becomes(r, [Idle EXCEPT !.op = op, !.row = i, !.data = d, !.ids = S, !.positions = P,
                                    !.pc = IF feature \in Changing THEN 1 ELSE 3,
                                    !.perms = IF feature \in Changing THEN None ELSE Granted])
    /\ UNCHANGED <<feature, rows, order, grants, cache, permCache, cleaning, excused>>

\* An administrator changes the operator's permissions.
ArriveGrant(r) ==
    /\ req[r].op = "none" /\ Room /\ feature \in Changing
    /\ arrivals' = arrivals + 1
    /\ \E op \in Ops \cap GrantOps, p \in Contested :
            Becomes(r, [Idle EXCEPT !.op = op, !.perm = p, !.pc = 1])
    /\ UNCHANGED <<feature, rows, order, grants, cache, permCache, cleaning, excused>>

\* CacheProvider.get: what was stored is replaced by what the fetch returns, even
\* on a hit. (And a cache that answers with what it holds.)
ServedHit(hit, fresh) == IF hit = None THEN fresh ELSE hit
Served(hit, fresh) == fresh

FetchPerms(r) ==
    /\ At(r, "fetchPerms")
    /\ Becomes(r, Next1([req[r] EXCEPT !.perms = Served(permCache, Granted)]))
    /\ UNCHANGED <<feature, rows, order, grants, cache, permCache, cleaning, excused, arrivals>>

\* An entry that is out of date when it is written, or while a change that was
\* told already is not committed, is not removed by the call for that change.
\* When Redis fails, the error is logged and the answer is the same.
SetPerms(r) ==
    /\ At(r, "setPerms")
    /\ Becomes(r, Next1(req[r]))
    /\ \/ /\ permCache' = req[r].perms
          /\ excused' = IF req[r].perms = Granted THEN excused \ {"perms"}
                        ELSE excused \cup {"perms"}
       \/ UNCHANGED <<permCache, excused>>
    /\ UNCHANGED <<feature, rows, order, grants, cache, cleaning, arrivals>>

\* PolicyAbstract.can...: the permissions were read before.
Can(r) ==
    /\ At(r, "can")
    /\ IF Needs(req[r].op) \in req[r].perms THEN Becomes(r, Next1(req[r])) ELSE Fails(r, 403)
    /\ UNCHANGED <<feature, rows, order, grants, cache, permCache, cleaning, excused, arrivals>>
-----------------------------------------------------------------------------
(* Reads. *)

\* A fetch that finds nothing throws inside get, whose catch block fetches once
\* more (SetRow), as it does when Redis fails.
Fetch(r) ==
    /\ At(r, "fetch")
    /\ \E found \in BOOLEAN :
          /\ found => Visible(req[r], req[r].row)
          /\ Becomes(r, Next1([req[r] EXCEPT !.got =
                  IF found THEN Served(cache[Entry(req[r].row)], rows[req[r].row]) ELSE None]))
    /\ UNCHANGED <<feature, rows, order, grants, cache, permCache, cleaning, excused, arrivals>>

\* The texts are looked for in the language of res.locals.language, which nothing
\* sets (the middleware sets res.locals.lang), so the join finds none.
FetchTexts(r) ==
    /\ At(r, "fetchTexts")
    /\ Becomes(r, Next1(req[r]))
    /\ UNCHANGED <<feature, rows, order, grants, cache, permCache, cleaning, excused, arrivals>>
Readable(q) == Visible(q, q.row) /\ ~Entities[feature].texts

Show(q) == IF Readable(q) THEN Answer([q EXCEPT !.got = rows[q.row]], 200)
           ELSE Answer(q, 404)

Told(i) == \E s \in Requests : req[s].row = i /\ req[s].told # {} /\ req[s].pend # Nothing
SetRow(r) ==
    /\ At(r, "set")
    /\ LET q == req[r] IN
       IF q.got = None
       THEN Becomes(r, Show(q)) /\ UNCHANGED <<cache, excused>>
       ELSE /\ Becomes(r, Answer(q, 200))
            /\ \/ /\ cache' = [cache EXCEPT ![Entry(q.row)] = q.got]
                  /\ excused' = IF q.got = rows[q.row] /\ ~Told(q.row)
                                THEN excused \ {Entry(q.row)} ELSE excused \cup {Entry(q.row)}
               \/ UNCHANGED <<cache, excused>>
    /\ UNCHANGED <<feature, rows, order, grants, permCache, cleaning, arrivals>>

ShowRow(r) ==
    /\ At(r, "show")
    /\ Becomes(r, Show(req[r]))
    /\ UNCHANGED <<feature, rows, order, grants, cache, permCache, cleaning, excused, arrivals>>

\* findByFilter, with or without is_deleted: deleted rows are shown to those only
\* who may delete. Logs have no deleted rows. Rows with texts are listed when the
\* filter names their language.
List(r) ==
    /\ At(r, "list")
    /\ \E is_deleted, language \in BOOLEAN :
         LET q == req[r]
             shown == {i \in Rows : /\ IF is_deleted THEN Visible(q, i) ELSE Live(i)
                                    /\ Entities[feature].texts => language} IN
         Becomes(r, Answer([q EXCEPT !.page = {rows[i] : i \in shown}], 200))
    /\ UNCHANGED <<feature, rows, order, grants, cache, permCache, cleaning, excused, arrivals>>
-----------------------------------------------------------------------------
(* Checks before a write, each a query of its own. *)

Reads == UNCHANGED <<feature, rows, order, grants, cache, permCache, cleaning, excused, arrivals>>

FindRow(r) ==
    /\ At(r, "findRow")
    /\ LET q == req[r] IN
       IF Visible(q, q.row) THEN Becomes(r, Next1([q EXCEPT !.entity = OwnPart(rows[q.row])]))
       ELSE Fails(r, 404)
    /\ Reads

FindKey(r) ==
    /\ At(r, "findKey")
    /\ IF Used(req[r].data.key, None) THEN Fails(r, 409) ELSE Becomes(r, Next1(req[r]))
    /\ Reads

\* Looked for when the body gives the key. The client's query drops the conditions
\* without a value and finds any other client then. (And a query that also finds
\* the row itself.)
FoundEver(q) == "key" \in DOMAIN q.data /\ Used(q.data.key, None)
FoundElsewhere(q) == IF "key" \in DOMAIN q.data THEN Used(q.data.key, q.row)
                     ELSE feature = "client" /\ \E j \in Rows \ {q.row} : rows[j] # None
FindOtherKey(r) ==
    /\ At(r, "findOtherKey")
    /\ LET q == req[r] IN
       IF FoundElsewhere(q) THEN Fails(r, 409) ELSE Becomes(r, Next1(q))
    /\ Reads

\* PermissionService.create goes on as a restore of the deleted row it finds.
ReviveKey(r) ==
    /\ At(r, "reviveKey")
    /\ LET q == req[r] IN
       IF ~Used(q.data.key, None) THEN Becomes(r, Next1(q))
       ELSE \E i \in Rows :
              /\ rows[i] # None /\ rows[i].key = q.data.key
              /\ IF rows[i].deleted /\ allowDeleted(q)
                 THEN Becomes(r, [q EXCEPT !.op = "restore", !.row = i, !.data = Nothing, !.pc = 4])
                 ELSE Fails(r, 409)
    /\ Reads

Children(r) ==
    /\ At(r, "children")
    /\ IF hasChildren(req[r].row) THEN Fails(r, 400) ELSE Becomes(r, Next1(req[r]))
    /\ Reads

Retype(r) ==
    /\ At(r, "retype")
    /\ LET q == req[r] IN
       IF q.data.key # q.entity.key /\ hasChildren(q.row)
       THEN Fails(r, 400) ELSE Becomes(r, Next1(q))
    /\ Reads

\* The parent of a new category is looked for among the rows that are not deleted.
FindParent(r) ==
    /\ At(r, "findParent")
    /\ LET q == req[r] IN
       IF "parent" \in DOMAIN q.data /\ ~Live(q.data.parent)
       THEN Fails(r, 409) ELSE Becomes(r, Next1(q))
    /\ Reads

\* The row and those above it, by parents.
upwards(i) == LET up[n \in 0..Cardinality(Rows)] ==
                     IF n = 0 THEN {i} ELSE up[n-1] \cup {rows[j].parent : j \in up[n-1] \cap Rows}
              IN up[Cardinality(Rows)]
\* A new parent that is deleted, is not active or lies below (which is looked up
\* among the rows that are not deleted) is refused, and else forgotten.
RefusedParent(q) ==
    LET p == q.data.parent IN
    \/ rows[p].deleted /\ ~q.entity.deleted
    \/ ~rows[p].state /\ q.entity.state
    \/ ~rows[p].deleted /\ q.row \in upwards(p)
NewParent(r) ==
    /\ At(r, "newParent")
    /\ LET q == req[r] IN
       IF "parent" \notin DOMAIN q.data THEN Becomes(r, Next1(q))
       ELSE IF rows[q.data.parent] = None THEN Fails(r, 404)
       ELSE IF RefusedParent(q) THEN Fails(r, 400) ELSE Becomes(r, Next1(q))
    /\ Reads

\* A body with another address, or without one, ends the sessions of the user, who
\* may have none to delete (404).
EndSessions(r) ==
    /\ At(r, "endSessions")
    /\ LET q == req[r] IN
       \/ Becomes(r, Next1(q))
       \/ ("key" \in DOMAIN q.data => q.data.key # q.entity.key) /\ Fails(r, 404)
    /\ Reads

\* The whole entity that was read is saved with its new status.
SetStatus(r) ==
    /\ At(r, "setStatus")
    /\ LET q == req[r] IN
       IF q.entity.state = q.data.state THEN Fails(r, 400)
       ELSE Becomes(r, Next1([q EXCEPT !.entity.state = q.data.state]))
    /\ Reads

Pick(r) ==
    /\ At(r, "pick")
    /\ IF Live(req[r].row) THEN Becomes(r, Next1(req[r])) ELSE Fails(r, 404)
    /\ Reads

PickAny(r) ==
    /\ At(r, "pickAny")
    /\ LET i == req[r].row IN
       IF rows[i] = None THEN Fails(r, 404)
       ELSE Becomes(r, Next1([req[r] EXCEPT !.entity = [OwnPart(rows[i]) EXCEPT !.deleted = FALSE]]))
    /\ Reads

PickMany(r) ==
    /\ At(r, "pickMany")
    /\ LET found == {i \in req[r].ids : rows[i] # None} IN
       IF found = {} THEN Fails(r, 404) ELSE Becomes(r, Next1([req[r] EXCEPT !.ids = found]))
    /\ Reads

\* The brands in the list must be as many as there are.
Count(r) ==
    /\ At(r, "count")
    /\ LET q == req[r] IN
       IF Cardinality({i \in Rows : Visible(q, i)}) # Len(q.positions)
       THEN Fails(r, 400) ELSE Becomes(r, Next1(q))
    /\ Reads
-----------------------------------------------------------------------------
(* Writes: inside a transaction until commit. *)

Unstored == UNCHANGED <<feature, rows, order, grants, cache, permCache, excused, arrivals>>

\* INSERT of a row with these columns under an id that is not in use; the other
\* columns get their defaults. Waits for whoever holds the key.
Insert(r, i, d) ==
    /\ rows[i] = None /\ RowFree(r, i, {"row"})
    /\ KeyFree(r, d.key)
    /\ IF Duplicate(d.key, i) THEN Fails(r, 500)
       ELSE Becomes(r, Next1(Tell([req[r] EXCEPT !.row = i, !.pend =
                [key |-> d.key, state |-> IF "state" \in DOMAIN d THEN d.state ELSE TRUE,
                 parent |-> IF "parent" \in DOMAIN d THEN d.parent ELSE None,
                 content |-> FALSE, deleted |-> FALSE]], "created")))
    /\ UNCHANGED cleaning

\* A place needs a parent that exists, deleted or not (foreign key).
Save(r) ==
    /\ At(r, "insert")
    /\ LET d == req[r].data IN
       IF "parent" \in DOMAIN d /\ rows[d.parent] = None
       THEN Fails(r, 500) /\ UNCHANGED cleaning
       ELSE \E i \in Rows : Insert(r, i, d)
    /\ Unstored

\* The row of a category is pending and has no texts yet.
InsertNode(r) ==
    /\ At(r, "insertNode")
    /\ LET d == req[r].data IN
       \E i \in Rows :
          /\ rows[i] = None /\ RowFree(r, i, {"row"})
          /\ Becomes(r, Next1(Tell([req[r] EXCEPT !.row = i, !.pend =
                 [parent |-> IF "parent" \in DOMAIN d THEN d.parent ELSE None,
                  state |-> FALSE, content |-> FALSE, deleted |-> FALSE]], "created")))
    /\ UNCHANGED cleaning /\ Unstored

\* An update saves the columns of the body only. (And one that saves the row as
\* live with them.)
savedLive(q) == [c \in DOMAIN OwnPart(q.data) \cup {"deleted"} |->
                    IF c = "deleted" THEN FALSE ELSE q.data[c]]
updateData(q) == OwnPart(q.data)

\* save of an entity with an id loads the row first, deleted or not.
Load(r) ==
    /\ At(r, "load")
    /\ LET q == req[r] IN
       Becomes(r, Next1([q EXCEPT
           !.entity = IF q.op = "update" THEN updateData(q) ELSE @,
           !.loaded = IF rows[q.row] = None THEN Nothing ELSE OwnPart(rows[q.row])]))
    /\ Reads

Differs(q) == {c \in DOMAIN q.entity : q.entity[c] # q.loaded[c]}
\* A restore is an update that empties deleted_at. (And the condition reversed.)
isDeletion(q) == "deleted" \in Differs(q) /\ ~q.loaded.deleted
isRestore(q) == "deleted" \in Differs(q) /\ q.loaded.deleted

\* UPDATE of the columns that differ from the loaded row, however old the entity
\* is; nothing when none does. An id without a row is inserted.
Write(r) ==
    /\ At(r, "write")
    /\ LET q == req[r]
           diff == Differs(q) IN
       IF q.loaded = Nothing
       THEN IF "key" \in DOMAIN q.entity THEN Insert(r, q.row, q.entity)
            ELSE Fails(r, 500) /\ UNCHANGED cleaning
       ELSE IF diff = {} THEN Becomes(r, Next1(q)) /\ UNCHANGED cleaning
       ELSE /\ RowFree(r, q.row, {"row"})
            /\ "key" \in diff => KeyFree(r, q.entity.key)
            /\ IF \/ "key" \in diff /\ Duplicate(q.entity.key, q.row)
                  \/ "parent" \in diff /\ q.entity.parent # None /\ rows[q.entity.parent] = None
               THEN Fails(r, 500) /\ UNCHANGED cleaning
               ELSE /\ Becomes(r, Next1(Tell([q EXCEPT !.pend = [c \in diff |-> q.entity[c]]],
                                      IF isRestore(q) THEN "restored" ELSE "updated")))
                    /\ Clean({q.row})
    /\ Unstored

\* saveContent, if the body has texts: an upsert that no subscriber of the row hears
\* of, with the slug of a category, for which the index may refuse it.
TextColumns == {"content"} \cup IF feature = "category" THEN {"key"} ELSE {}
Content(r) ==
    /\ At(r, "content")
    /\ LET q == req[r] IN
       IF "content" \notin DOMAIN q.data THEN Becomes(r, Next1(q))
       ELSE /\ RowFree(r, q.row, {"texts"})
            /\ "key" \in TextColumns => KeyFree(r, q.data.key)
            /\ IF "key" \in TextColumns /\ Duplicate(q.data.key, q.row) THEN Fails(r, 409)
               ELSE Becomes(r, Next1([q EXCEPT !.pend = [c \in DOMAIN @ \cup TextColumns |->
                        IF c \in TextColumns THEN q.data[c] ELSE @[c]]]))
    /\ UNCHANGED cleaning /\ Unstored

SoftRemove(r) ==
    /\ At(r, "softRemove")
    /\ RowFree(r, req[r].row, {"row"})
    /\ Becomes(r, Next1(Tell([req[r] EXCEPT !.pend = [deleted |-> TRUE]], "deleted")))
    /\ Clean({req[r].row})
    /\ Unstored

\* The row with the uncommitted columns in place, or a new row. (And the columns
\* alone.)
PendingOnly(q) == q.pend
Merged(q) == IF rows[q.row] = None THEN q.pend
             ELSE [c \in Columns |-> IF c \in DOMAIN q.pend THEN q.pend[c] ELSE rows[q.row][c]]

Commit(r) ==
    /\ At(r, "commit")
    /\ LET q == req[r] IN
       /\ Becomes(r, Answer(q, 200))
       /\ IF q.pend = Nothing THEN UNCHANGED <<rows, excused>>
          ELSE /\ rows' = [rows EXCEPT ![q.row] = Merged(q)]
               /\ excused' = IF q.told = {} THEN excused \cup {q.row} ELSE excused
    /\ UNCHANGED <<feature, order, grants, cache, permCache, cleaning, arrivals>>

\* repository.remove of each, concurrently: one may fail while the others go on.
RemoveMany(r) ==
    /\ At(r, "removeMany")
    /\ LET q == req[r]
           rest(i) == [q EXCEPT !.ids = @ \ {i}]
           end(p, code) == IF p.ids = {} THEN Answer(p, IF p.code = 0 THEN code ELSE p.code) ELSE p IN
       \E i \in q.ids :
          \/ /\ rows' = [rows EXCEPT ![i] = None]
             /\ excused' = excused \cup {i}
             /\ Becomes(r, end(rest(i), 200))
          \/ /\ Becomes(r, end([rest(i) EXCEPT !.code = 500], 500))
             /\ UNCHANGED <<rows, excused>>
    /\ UNCHANGED <<feature, order, grants, cache, permCache, cleaning, arrivals>>

\* One UPDATE ... CASE id ... WHERE id IN ids; the first place of an id counts.
Reorder(r) ==
    /\ At(r, "order")
    /\ LET P == req[r].positions
           ids == {P[n] : n \in DOMAIN P}
           first(i) == CHOOSE n \in DOMAIN P : P[n] = i /\ \A m \in 1..(n-1) : P[m] # i IN
       /\ \A i \in ids : RowFree(r, i, {"row"})
       /\ order' = [i \in Rows |-> IF i \in ids /\ rows[i] # None
                                   THEN Len(P) - first(i) + 1 ELSE order[i]]
    /\ Becomes(r, Answer(req[r], 200))
    /\ UNCHANGED <<feature, rows, grants, cache, permCache, cleaning, excused, arrivals>>
-----------------------------------------------------------------------------
(* The permissions of the operator: rows of user_permission.               *)

Keep == UNCHANGED <<feature, rows, order, cache, permCache, arrivals>>

\* UserPermissionSubscriber tells the cache, also of an insert. (And one that
\* does not.)
PermsKept == UNCHANGED cleaning
PermsCleaned == cleaning' = cleaning \cup {"perms"}

FindGrant(r) ==
    /\ At(r, "findGrant")
    /\ LET q == [req[r] EXCEPT !.saw = grants[req[r].perm].row] IN
       Becomes(r, IF q.saw = "live" THEN Answer(q, 200) ELSE Next1(q))
    /\ Reads

\* A deleted row is restored by an UPDATE that loads no entity, so that no
\* subscriber tells the cache. A new row may meet the unique index.
SaveGrant(r) ==
    /\ At(r, "saveGrant")
    /\ LET q == req[r] IN
       IF q.saw = "none" /\ grants[q.perm].row # "none"
       THEN Fails(r, 500) /\ UNCHANGED <<grants, cleaning, excused>>
       ELSE /\ Becomes(r, Answer(q, 200))
            /\ grants' = [grants EXCEPT ![q.perm].row = "live"]
            /\ IF q.saw = "none"
               THEN PermsCleaned /\ UNCHANGED excused
               ELSE excused' = excused \cup {"perms"} /\ UNCHANGED cleaning
    /\ Keep

PickGrant(r) ==
    /\ At(r, "pickGrant")
    /\ IF grants[req[r].perm].row = "live" THEN Becomes(r, Next1(req[r])) ELSE Fails(r, 404)
    /\ Reads

\* The call for the cache is made before the change is committed.
RemoveGrant(r) ==
    /\ At(r, "removeGrant")
    /\ Becomes(r, Answer(req[r], 200))
    /\ grants' = [grants EXCEPT ![req[r].perm].row = "deleted"]
    /\ PermsCleaned
    /\ UNCHANGED excused
    /\ Keep

PickAnyGrant(r) ==
    /\ At(r, "pickAnyGrant")
    /\ IF grants[req[r].perm].row # "none" THEN Becomes(r, Next1(req[r])) ELSE Fails(r, 404)
    /\ Reads

RestoreGrant(r) ==
    /\ At(r, "restoreGrant")
    /\ Becomes(r, Answer(req[r], 200))
    /\ grants' = [grants EXCEPT ![req[r].perm].row = "live"]
    /\ IF grants[req[r].perm].row = "deleted" THEN PermsCleaned ELSE UNCHANGED cleaning
    /\ UNCHANGED excused
    /\ Keep

\* The row of the permission itself is deleted, restored or renamed, which changes
\* what those who are granted it may do, and is told to the cache as a change of
\* that row only. Counted as an arrival.
ChangePermission(p) ==
    /\ feature \in Changing /\ Room
    /\ arrivals' = arrivals + 1
    /\ grants' = [grants EXCEPT ![p].named = ~@]
    /\ excused' = IF Granted' = Granted THEN excused ELSE excused \cup {"perms"}
    /\ UNCHANGED <<feature, rows, order, req, cache, permCache, cleaning>>
-----------------------------------------------------------------------------
(* The rest of the world.                                                  *)

\* The database refuses a statement or the commit, or the connection is lost:
\* the transaction is rolled back, what subscribers told is not.
Breaks(r) ==
    /\ req[r].pc > 2
    /\ Fails(r, 500)
    /\ Reads

\* The response is sent and the slot is free again. Bound: as long as requests
\* arrive.
Respond(r) ==
    /\ req[r].op # "none" /\ req[r].pc = 0 /\ Room
    /\ Becomes(r, Idle)
    /\ Reads

\* A call of deleteByPattern scans the keys in batches and deletes each one that
\* it meets; an error is logged and ends it. The star of its pattern reaches keys
\* of other ids, which for those is one more Expire; no call reaches "shared".
Drop(k) ==
    /\ cache' = IF k = "perms" THEN cache ELSE [cache EXCEPT ![k] = None]
    /\ permCache' = IF k = "perms" THEN None ELSE permCache
    /\ excused' = excused \ {k}
CleanKey(k) ==
    /\ k \in cleaning
    /\ cleaning' = cleaning \ {k}
    /\ \/ Drop(k)
       \/ excused' = excused \cup {k} /\ UNCHANGED <<cache, permCache>>
    /\ UNCHANGED <<feature, rows, order, grants, req, arrivals>>
Expire(k) ==
    /\ IF k = "perms" THEN permCache # None ELSE cache[k] # None
    /\ Drop(k)
    /\ UNCHANGED <<feature, rows, order, grants, req, cleaning, arrivals>>

Step(r) ==
    \/ Arrive(r) \/ ArriveGrant(r) \/ FetchPerms(r) \/ SetPerms(r) \/ Can(r)
    \/ Fetch(r) \/ FetchTexts(r) \/ SetRow(r) \/ ShowRow(r) \/ List(r)
    \/ FindRow(r) \/ FindKey(r) \/ FindOtherKey(r) \/ ReviveKey(r) \/ Children(r)
    \/ Retype(r) \/ FindParent(r) \/ NewParent(r) \/ EndSessions(r) \/ SetStatus(r)
    \/ Pick(r) \/ PickAny(r) \/ PickMany(r) \/ Count(r)
    \/ Save(r) \/ InsertNode(r) \/ Load(r) \/ Write(r) \/ Content(r) \/ SoftRemove(r) \/ Commit(r)
    \/ RemoveMany(r) \/ Reorder(r)
    \/ FindGrant(r) \/ SaveGrant(r) \/ PickGrant(r) \/ RemoveGrant(r)
    \/ PickAnyGrant(r) \/ RestoreGrant(r)
    \/ Breaks(r) \/ Respond(r)

\* What a request could have seen since it arrived, and whether it was alone.
Unwatched == [rows |-> {}, granted |-> {}, alone |-> TRUE]
Sight(r) ==
    IF req'[r].op = "none" THEN Unwatched
    ELSE LET w == watch[r]
             fresh == IF req[r].op = "none" THEN Unwatched ELSE w IN
         [rows |-> IF req'[r].op = "read" THEN fresh.rows \cup {rows'[req'[r].row]} ELSE {},
          granted |-> fresh.granted \cup Granted',
          alone |-> fresh.alone /\ (req'[r] # req[r]
                        \/ (rows' = rows /\ order' = order /\ grants' = grants))]
Watched == watch' = [r \in Requests |-> Sight(r)]

Next ==
    /\ \/ \E r \in Requests : Step(r)
       \/ \E p \in Contested : ChangePermission(p)
       \/ \E k \in CacheKeys : CleanKey(k) \/ Expire(k)
    /\ Watched

\* Any table of rows as create, delete and restore leave them, an operator with
\* every permission or without those that are contested or the one to delete, and
\* Redis full of what earlier requests stored, perhaps for others; from there
\* entries expire.
Init ==
    /\ feature \in Features
    /\ rows \in {t \in [Rows -> Row \cup {None}] :
          /\ \A i \in Rows : t[i] # None =>
                /\ t[i].state \/ feature = "category"
                /\ ~t[i].content
                /\ ~Entities[feature].parent => t[i].parent = None
                /\ t[i].parent # None => t[t[i].parent] # None
          /\ Entities[feature].unique => \A i, j \in Rows :
                t[i] # None /\ t[j] # None /\ t[i].key = t[j].key => i = j}
    /\ feature = "category" => \A i \in Rows :
            rows[i] # None /\ rows[i].parent # None => i \notin upwards(rows[i].parent)
    /\ order = [i \in Rows |-> 0]
    /\ grants \in [Permissions -> {g \in Grant : g.named}]
    /\ \A p \in Permissions \ Granted :
            IF feature \in Changing THEN p \in Contested
            ELSE p = "delete" /\ grants[p].row # "none"
    /\ req = [r \in Requests |-> Idle]
    /\ \E i \in Rows : cache = [e \in Entries |->
            IF Entities[feature].texts \/ (feature \in Unkeyed <=> e # "shared") THEN None
            ELSE IF e = "shared" THEN rows[i] ELSE rows[e]]
    /\ permCache = IF feature \in Changing THEN Granted ELSE None
    /\ cleaning = {} /\ excused = {}
    /\ arrivals = 0
    /\ watch = [r \in Requests |-> Unwatched]

Spec == Init /\ [][Next]_vars
-----------------------------------------------------------------------------
(* Safety. *)

Request ==
    [op : {"none"} \cup Routes[feature] \cup GrantOps, row : Rows \cup {None},
     perm : Permissions \cup {None}, data : Parts, ids : SUBSET Rows, positions : Seq(Rows),
     pc : 0..10, code : {0, 200, 400, 403, 404, 409, 500}, perms : (SUBSET Permissions) \cup {None},
     entity : Parts, loaded : Parts, pend : Parts, got : Row \cup {None},
     saw : {"none", "live", "deleted", None},
     told : SUBSET {"created", "updated", "deleted", "restored"}, page : SUBSET Row]
TypeOK ==
    /\ feature \in Features
    /\ rows \in [Rows -> Row \cup {None}]
    /\ order \in [Rows -> Nat]
    /\ grants \in [Permissions -> Grant]
    /\ req \in [Requests -> Request]
    /\ cache \in [Entries -> Row \cup {None}]
    /\ permCache \in (SUBSET Permissions) \cup {None}
    /\ cleaning \subseteq CacheKeys /\ excused \subseteq CacheKeys
    /\ arrivals \in Nat

\* Two rows of a table never share the key that its services look for before
\* they write, deleted rows included, whatever runs between check and write.
UniqueKeys ==
    Entities[feature].unique => \A i, j \in Rows :
        rows[i] # None /\ rows[j] # None /\ rows[i].key = rows[j].key => i = j

\* An answer shows the row as it was committed at some moment since the request
\* arrived, and a deleted row to those only who may delete, whatever Redis holds:
\* the entry of a read outlives changes and was perhaps stored for an operator
\* who may see more.
ReadsFresh ==
    \A r \in Requests :
        LET q == req[r] IN
        /\ q.op = "read" /\ q.pc = 0 /\ q.code = 200
               => q.got \in watch[r].rows /\ (q.got.deleted => "delete" \in q.perms)
        /\ \A w \in q.page : w.deleted => "delete" \in q.perms

\* A request writes or reads only with a permission that the operator had at
\* some moment since it arrived: a revoked permission is of no use to a request
\* sent afterwards, although the permissions are cached for half an hour.
Passed(q) == q.op \notin {"none"} \cup GrantOps /\ (q.pc > 3 \/ q.code = 200)
ActsOnGranted ==
    \A r \in Requests : Passed(req[r]) => Needs(req[r].op) \in watch[r].granted

\* What Redis holds for a row or for the permissions is up to date, or a call
\* that will remove it is pending, or the change is not committed yet, or it is
\* one of the cases the code leaves to the time to live: a read that overlapped
\* the change, a failure of Redis, a change of the texts alone, the removal of a
\* log row, a permission granted again, or one whose own row was deleted, restored
\* or renamed. (The entry that the clients or the discounts share holds the row that
\* was read last: it is no row's, and no call removes it.)
StaleExplained ==
    /\ \A i \in Rows :
          cache[i] # None /\ cache[i] # rows[i] => i \in cleaning \cup excused
    /\ permCache # None /\ permCache # Granted => "perms" \in cleaning \cup excused

-----------------------------------------------------------------------------
(* Action properties. *)

\* An update never deletes a row or brings one back, even when it races with a
\* delete or a restore, and a delete changes nothing but the deletion, although
\* a change of the status and a restore save all columns they read before.
OwnColumns ==
    [][\A r \in Requests, i \in Rows :
          req'[r] # req[r] /\ rows[i] # None /\ rows'[i] # rows[i] /\ rows'[i] # None
            => /\ req[r].op = "update" => rows'[i].deleted = rows[i].deleted
               /\ req[r].op = "delete" => rows'[i] = [rows[i] EXCEPT !.deleted = TRUE]]_vars

\* The history names what a commit did: a row that appears was told as created,
\* one that comes back as restored, one that goes as deleted. (The exception: a
\* change of the status that read the row deleted deletes it once more when a
\* restore came in between, and is told as an update.)
HistoryTells ==
    [][\A r \in Requests, i \in Rows :
          feature \in Announcing /\ req'[r] # req[r] /\ rows'[i] # rows[i]
            => /\ rows[i] = None => "created" \in req[r].told
               /\ rows[i] # None /\ rows[i].deleted /\ ~rows'[i].deleted
                    => "restored" \in req[r].told
               /\ rows[i] # None /\ ~rows[i].deleted /\ rows'[i].deleted
                    => "deleted" \in req[r].told \/ req[r].op = "statusUpdate"]_vars

\* What an endpoint answers and leaves behind when it is one step. An update of
\* carriers and permissions does not look for the row.
NoLookup == {"carrier", "permission"}
Reference(q) ==
    LET i == q.row
        seen == Visible(q, i)
        value(c, old) == IF c \in DOMAIN q.data THEN q.data[c] ELSE old
        over == [c \in Columns |-> IF c = "parent" /\ feature = "category"
                                  THEN rows[i][c] ELSE value(c, rows[i][c])]
        new == [key |-> q.data.key, state |-> value("state", feature # "category"),
                parent |-> value("parent", None), content |-> value("content", FALSE),
                deleted |-> FALSE]
        taken(j) == IF "key" \in DOMAIN q.data THEN Duplicate(q.data.key, j)
                    ELSE feature = "client" /\ \E k \in Rows \ {j} : rows[k] # None
        moved == feature = "category" /\ "parent" \in DOMAIN q.data
        lost == moved /\ ~Live(q.data.parent)
        full == [q EXCEPT !.entity = rows[i]]
        keep(code) == [code |-> code, tables |-> {rows}]
        ok(f) == [code |-> 200, tables |-> {[rows EXCEPT ![i] = f]}] IN
    IF Needs(q.op) \notin q.perms THEN keep(403)
    ELSE CASE q.op = "create" ->
              IF taken(None) \/ lost THEN keep(409)
              ELSE [code |-> 200, tables |->
                     {[rows EXCEPT ![j] = new] : j \in {k \in Rows : rows[k] = None}}]
           [] q.op = "update" ->
              IF ~seen /\ feature \notin NoLookup THEN keep(404)
              ELSE IF moved /\ rows[q.data.parent] = None THEN keep(404)
              ELSE IF moved /\ RefusedParent(full) THEN keep(400)
              ELSE IF taken(i) THEN keep(409)
              ELSE IF feature = "place" /\ hasChildren(i) /\ q.data.key # rows[i].key
                   THEN keep(400) ELSE ok(over)
           [] q.op = "statusUpdate" ->
              IF ~seen THEN keep(404)
              ELSE IF rows[i].state = q.data.state THEN keep(400) ELSE ok(over)
           [] q.op = "delete" ->
              IF feature = "place" /\ hasChildren(i) THEN keep(400)
              ELSE IF Live(i) THEN ok([rows[i] EXCEPT !.deleted = TRUE]) ELSE keep(404)
           [] q.op = "restore" ->
              IF rows[i] = None THEN keep(404) ELSE ok([rows[i] EXCEPT !.deleted = FALSE])
           [] q.op = "read" -> keep(IF Readable(q) THEN 200 ELSE 404)
           [] q.op = "orderUpdate" ->
              keep(IF Cardinality({j \in Rows : Visible(q, j)}) = Len(q.positions)
                   THEN 200 ELSE 400)
           [] q.op = "find" -> keep(200)

\* A request during which no other one changed a row answers and leaves the table
\* as its endpoint would in one step, unless the server fails: what others left
\* in Redis, hold uncommitted or roll back makes no difference. (A carrier or a
\* permission that is updated under an unknown id is inserted, the logs are
\* deleted row by row, and the update of a user without sessions is refused when
\* it ends them. An update of a client without its identity is refused as soon as
\* there is another client.)
Judged(q) == /\ q.op \in Common \cup {"statusUpdate", "orderUpdate"} /\ q.perms # None
             /\ ~(feature \in NoLookup /\ q.op = "update" /\ rows[q.row] = None)
             /\ ~(feature \in Logs /\ q.op = "delete")
AloneIsAtomic ==
    [][\A r \in Requests :
          req[r].pc > 0 /\ req'[r].pc = 0 /\ req'[r].code # 500 /\ watch[r].alone
              /\ ~At(r, "endSessions")
              /\ Judged(req[r])
            => LET ref == Reference(req[r]) IN
               req'[r].code = ref.code /\ rows' \in ref.tables]_vars
=============================================================================
