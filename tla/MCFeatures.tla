----------------------------- MODULE MCFeatures -----------------------------
(***************************************************************************)
(* An instance of FeatureManager for TLC: a chain of three features whose  *)
(* manifests are the repository's, and packages of three versions, of      *)
(* which the second drops a file and the third has it again.               *)
(***************************************************************************)
EXTENDS FeatureManager

Packages == <<{"manifest", "a"}, {"manifest"}, {"manifest", "a"}>>
=============================================================================
