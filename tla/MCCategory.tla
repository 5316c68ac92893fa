----------------------------- MODULE MCCategory -----------------------------
(***************************************************************************)
(* Instances of Category for TLC: two requests race while two categories   *)
(* exist, and one request at a time changes a larger tree.                 *)
(***************************************************************************)
EXTENDS Category, Naturals, TLC

CONSTANT MaxRacing  \* the most rows while requests race

Symmetry == Permutations(Requests) \cup Permutations(Categories)

\* Bound: with more rows than that, one request is in flight.
Bounded ==
    Cardinality(Rows) > MaxRacing =>
        \A r, s \in Requests : req[r].pc # "idle" /\ req[s].pc # "idle" => r = s
=============================================================================
