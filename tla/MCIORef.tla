------------------------------ MODULE MCIORef ------------------------------
(* Instances of IORef for TLC: programs without mutable references, that   *)
(* is ObjectHeap with all its operations, and programs with them.          *)
EXTENDS IORef, TLC

VARIABLE withRefs

Symmetry == Permutations(Objs) \union Permutations(Threads \ {Main})

MCNext ==
    /\ UNCHANGED withRefs
    /\ \/ withRefs /\ RefNext
       \/ ~withRefs /\ Next /\ UNCHANGED refVars

MCInit == RefInit /\ withRefs \in BOOLEAN

MCSpec == MCInit /\ [][MCNext]_<<allVars, withRefs>>
=============================================================================
