----------------------------- MODULE MCAccount ------------------------------
(***************************************************************************)
(* Instances of Account for TLC. The configurations give every constant    *)
(* its value and name in Ops the endpoints that clients call.              *)
(***************************************************************************)
EXTENDS Account, TLC

\* Slots, sessions and codes are interchangeable. Not used with liveness.
Symmetry == Permutations(Requests) \cup Permutations(Idents) \cup Permutations(Codes)

\* So are users and addresses, when nothing else tells them apart.
RowSymmetry == Symmetry \cup Permutations(Users) \cup Permutations(Emails)

\* Bound: the detached removals that are under way are those of one session. (Rows
\* that cron selected do not count.)
FewRemovals ==
    Cardinality(removing \ OutdatedTokens) + Cardinality({i \in Idents : lookup[i] > 0}) <= 1

\* What clients do in each instance: members with many sessions, the back
\* office among members, the recovery of a password, and accounts from their
\* registration on.
SessionOps == {"login", "logout", "removeToken", "meDetails"}
BackOfficeOps == {"login", "statusUpdate", "update", "delete", "restore"}
RecoveryOps == {"passwordRecover", "passwordRecoverChange", "emailConfirmSend",
                "emailConfirm", "statusUpdate"}
SelfServiceOps == {"register", "emailConfirm", "emailUpdate", "login", "update"}
SweepOps == {"login", "meDetails", "passwordUpdate", "passwordRecover"}
=============================================================================
