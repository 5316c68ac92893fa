----------------------------- MODULE FeatureSet ------------------------------
(***************************************************************************)
(* What the feature manager promises about the directory of features: a    *)
(* feature comes when those that it needs are there, and goes when none    *)
(* that needs it is there. The manifests name both directions by hand      *)
(* (depends_on, depends_off). A rollback may lose a feature that others    *)
(* need; from then on nothing is promised.                                 *)
(***************************************************************************)
EXTENDS Naturals

CONSTANTS
    Names,          \* features that come and go
    depends_on,     \* [Names -> the features that it needs]
    depends_off     \* [Names -> the features that need it, or "core"]

\* The features that are named as needing one are enough to keep it while any
\* feature needs it: that one itself, or another that it needs too.
ManifestsAgree ==
    \A f \in Names : \A d \in depends_on[f] \cap Names :
        \/ "core" \in depends_off[d]
        \/ \E g \in depends_off[d] \cap Names : g = f \/ g \in depends_on[f]

VARIABLES
    installed,      \* features that have a directory
    lost            \* has a rollback removed the directory of one?

Init ==
    /\ installed \in SUBSET Names
    /\ \A f \in installed : depends_on[f] \cap Names \subseteq installed
    /\ lost = FALSE

Install(f) ==
    /\ f \notin installed /\ depends_on[f] \cap Names \subseteq installed
    /\ installed' = installed \cup {f} /\ UNCHANGED lost
Remove(f) ==
    /\ f \in installed /\ "core" \notin depends_off[f] /\ depends_off[f] \cap installed = {}
    /\ installed' = installed \ {f} /\ UNCHANGED lost
Lose(f) == installed' = installed \ {f} /\ lost' = TRUE
Regain(f) == lost /\ installed' = installed \cup {f} /\ UNCHANGED lost

Next == \E f \in Names : Install(f) \/ Remove(f) \/ Lose(f) \/ Regain(f)
Spec == Init /\ [][Next]_<<installed, lost>>

\* Whatever order features are installed, upgraded and removed in, those that a
\* feature needs stay with it.
Closed == ~lost => \A f \in installed : depends_on[f] \cap Names \subseteq installed
=============================================================================
