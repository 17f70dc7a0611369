--------------------------- MODULE MCControlPlane ---------------------------
(* Instances of ControlPlane for TLC.                                      *)
EXTENDS ControlPlane, TLC

Symmetry == Permutations(Clients) \cup Permutations(Workers)
=============================================================================
