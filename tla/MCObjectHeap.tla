---------------------------- MODULE MCObjectHeap ----------------------------
(* Instances of ObjectHeap for TLC.  Addresses are interchangeable, and so *)
(* are the threads other than Main.                                        *)
EXTENDS ObjectHeap, TLC

Symmetry == Permutations(Objs) \union Permutations(Threads \ {Main})
=============================================================================
