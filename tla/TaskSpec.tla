------------------------------ MODULE TaskSpec ------------------------------
(***************************************************************************)
(* What tasks promise to a program (runtime/object.h: mk_task, task_map,   *)
(* task_get, io_wait_any), without queues, workers, locks or reference     *)
(* counts.  TaskManager implements it.                                     *)
(*                                                                         *)
(* A task waits, is run once and has a value from then on until nobody     *)
(* needs it; a task that nobody needs before it has a value is cancelled.  *)
(***************************************************************************)
CONSTANTS Tasks, Threads

VARIABLES
    state,    \* per task, see States
    source,   \* per waiting task: the tasks whose values it needs to start
    waits     \* per thread: the tasks it waits for, of which one is enough

States == {"none", "waiting", "running", "done", "cancelled", "released"}

TaskInit ==
    /\ state = [t \in Tasks |-> "none"]
    /\ source = [t \in Tasks |-> {}]
    /\ waits = [th \in Threads |-> {}]

Move(t, from, to) ==
    /\ state[t] = from
    /\ state' = [state EXCEPT ![t] = to]

Create(t) ==
    /\ Move(t, "none", "waiting")
    /\ \E S \in SUBSET {x \in Tasks : state[x] \notin {"none", "cancelled", "released"}} :
        source' = [source EXCEPT ![t] = S]
    /\ UNCHANGED waits

CreatePure(t) == Move(t, "none", "done") /\ UNCHANGED <<source, waits>>

Start(t) ==
    /\ \A x \in source[t] : state[x] = "done"
    /\ Move(t, "waiting", "running")
    /\ source' = [source EXCEPT ![t] = {}]
    /\ UNCHANGED waits

GetValue(t) == Move(t, "running", "done") /\ UNCHANGED <<source, waits>>

(* Nobody waits for t, and no waiting task needs its value.                *)
Unneeded(t) ==
    /\ \A th \in Threads : t \notin waits[th]
    /\ \A u \in Tasks : t \notin source[u]

Discard(t) ==
    /\ Unneeded(t)
    /\ \/ Move(t, "waiting", "cancelled")
       \/ Move(t, "running", "cancelled")
       \/ Move(t, "done", "released")
    /\ source' = [source EXCEPT ![t] = {}]
    /\ UNCHANGED waits

Wait(th) ==
    /\ waits[th] = {}
    /\ \E S \in SUBSET {x \in Tasks : state[x] \in {"waiting", "running"}} :
        waits' = [waits EXCEPT ![th] = S]
    /\ UNCHANGED <<state, source>>

Wake(th) ==
    /\ \E x \in waits[th] : state[x] = "done"
    /\ waits' = [waits EXCEPT ![th] = {}]
    /\ UNCHANGED <<state, source>>

TaskNext ==
    \/ \E t \in Tasks : Create(t) \/ CreatePure(t) \/ Start(t) \/ GetValue(t) \/ Discard(t)
    \/ \E th \in Threads : Wait(th) \/ Wake(th)

TaskSpecification == TaskInit /\ [][TaskNext]_<<state, source, waits>>
=============================================================================
