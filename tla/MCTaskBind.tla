----------------------------- MODULE MCTaskBind -----------------------------
(* TaskBind on small instances: the sets are given in the .cfg files.      *)
EXTENDS TaskBind, TLC

Symmetry == Permutations(Tasks) \cup Permutations(Workers)
=============================================================================
