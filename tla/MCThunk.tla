------------------------------ MODULE MCThunk ------------------------------
(* Instances of Thunk for TLC.                                             *)
EXTENDS Thunk, TLC

Symmetry == Permutations(Objs) \union Permutations(Threads \ {Main})
=============================================================================
