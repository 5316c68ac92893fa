---------------------------- MODULE MCBackOffice ----------------------------
(***************************************************************************)
(* An instance of BackOffice for TLC: two requests that race over two rows *)
(* and two keys, for a feature of each kind.                               *)
(***************************************************************************)
EXTENDS BackOffice, TLC

Symmetry == Permutations(Requests) \cup Permutations(Rows) \cup Permutations(Keys)

\* Bound: lists and new orders are requested while nothing else runs, as are reads
\* of categories and those changes that name a parent; and the categories that two
\* requests change have none.
Lonely(q) == \/ q.op \in {"find", "orderUpdate"}
             \/ feature = "category" /\ (q.op = "read" \/ "parent" \in DOMAIN q.data)
Bounded == \/ arrivals <= 1
           \/ /\ \A r \in Requests : ~Lonely(req[r])
              /\ feature = "category" =>
                    \A i \in Rows : rows[i] # None => rows[i].parent = None
=============================================================================
