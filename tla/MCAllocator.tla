---------------------------- MODULE MCAllocator ----------------------------
(* Instances of Allocator for TLC.  Segments are interchangeable, and so   *)
(* are the threads other than Main.                                        *)
EXTENDS Allocator, TLC

Symmetry == Permutations(Segments) \union Permutations(Threads \ {Main})
=============================================================================
