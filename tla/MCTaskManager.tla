--------------------------- MODULE MCTaskManager ---------------------------
(* TaskManager on small instances: the sets are given in the .cfg files.   *)
EXTENDS TaskManager, TLC

CONSTANTS
    FewTasks,   \* the tasks of programs whose task bodies make calls
    Programs    \* the kinds of programs of an instance

VARIABLE program

Symmetry == Permutations(Tasks) \cup Permutations(Workers)

(* Task bodies create tasks and wait for them, too.                        *)
NestedNext == Next /\ \A t \in Tasks \ FewTasks : status'[t] = "none"

(* One client makes more tasks than there are workers, whose bodies make   *)
(* no calls, and waits for them.                                           *)
FlatNext ==
    \/ LET c == CHOOSE c \in Clients : TRUE IN
       \/ \E t \in Tasks :
            /\ status[t] = "none" /\ t = CHOOSE x \in Tasks : status[x] = "none"
            /\ \E pr \in Prios : MkTask(c, t, {}, pr)
       \/ \E x \in handles[c] : TaskGet(c, {x})
    \/ \E th \in Threads : DropSome(th) \/ Internal(th) \/ SpuriousWakeup(th)
    \/ \E w \in Workers : Work(w)
    \/ \E c \in Clients : Shutdown(c) \/ Join(c)

MCNext ==
    /\ UNCHANGED program
    /\ \/ program = "nested" /\ NestedNext
       \/ program = "flat" /\ FlatNext

MCInit == Init /\ program \in Programs

MCSpec == MCInit /\ [][MCNext]_<<vars, program>>
MCFairSpec == MCSpec /\ Fairness
=============================================================================
