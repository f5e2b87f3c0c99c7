---------------------------- MODULE TaskManager ----------------------------
(***************************************************************************)
(* The task manager of the Lean 4 runtime (runtime/object.cpp, class       *)
(* task_manager, and the task primitives built on it): a pool of worker    *)
(* threads, one queue per priority, reverse dependency lists, one mutex    *)
(* and two condition variables.                                            *)
(*                                                                         *)
(* A critical section of m_mutex is one action, enabled only while nobody  *)
(* holds the mutex, except handle_finished, which walks a list: there      *)
(* the worker keeps `mutex' over one action per list element.  What the    *)
(* code does without the lock (the check that opens task_get, a dec_ref,   *)
(* the list walk of deactivate_task) is an action of its own.              *)
(*                                                                         *)
(* Reference counts are modelled by their owners: a task is referenced by  *)
(* the threads whose local variables hold it (`handles', `junk') and by    *)
(* the closures that captured it (`caps').  The queues, the dependency     *)
(* lists and the workers' current tasks are uncounted pointers, as in the  *)
(* code, and whether they can dangle is what the module is about.          *)
(* The binds (task_bind) are added by the module TaskBind.                 *)
(***************************************************************************)
EXTENDS Integers, Sequences, FiniteSets

CONSTANTS
    Tasks,      \* the task objects the program may allocate
    NoTask,     \* the null task pointer
    Clients,    \* threads outside the pool (the main thread, ...)
    Workers,    \* the worker threads of the pool
    NoThread,   \* "nobody": the mutex is free
    MaxPrio,    \* LEAN_MAX_PRIO
    Prios,      \* the priorities the program asks for
    MaxCaps,    \* bound: tasks captured by one closure of the program
    MaxBlocked  \* bound: task bodies blocked in task_get at the same time

ASSUME TasksAssumption    == NoTask \notin Tasks
ASSUME ThreadsAssumption  == /\ Clients \cap Workers = {}
                             /\ NoThread \notin Clients \cup Workers
ASSUME MaxPrioAssumption  == MaxPrio \in Nat
ASSUME PriosAssumption    == Prios \subseteq Nat

Threads == Clients \cup Workers

VARIABLES
    status,       \* per task: "none", "active" (m_imp), "done" (m_value), "freed"
    closure,      \* m_imp->m_closure: "null", "fn" (of the program) or "map"
    caps,         \* the tasks captured by m_imp->m_closure
    deps,         \* the list m_head_dep / m_next_dep, head first
    prio,         \* m_imp->m_prio
    interrupted,  \* m_imp->m_interrupted
    deleted,      \* m_imp->m_deleted
    queues,       \* m_queues
    queuesSize,   \* m_queues_size
    maxPrio,      \* m_max_prio
    shuttingDown, \* m_shutting_down
    mutex,        \* the owner of m_mutex between two actions
    pc,           \* per thread: where it is
    cur,          \* per worker: its current task (worker_info::m_task)
    handles,      \* per thread: the tasks its local variables reference
    want,         \* per thread: the tasks it waits for
    tgt,          \* per thread: the task it is deactivating
    walk,         \* per thread: the rest of the list it is walking
    junk          \* per thread: references of a dead closure, not yet dropped

taskVars   == <<status, closure, caps, deps, prio, interrupted, deleted>>
queueVars  == <<queues, queuesSize, maxPrio>>
threadVars == <<cur, handles, want, tgt, walk, junk>>
vars == <<taskVars, queueVars, shuttingDown, mutex, pc, threadVars>>

----------------------------------------------------------------------------
ClientPcs == {"user", "get", "wait", "deact", "clean", "join", "end"}
WorkerPcs == {"absent", "loop", "sleep", "map", "user", "get", "wait",
              "deact", "clean", "relock", "finish", "exit"}
Pcs == ClientPcs \cup WorkerPcs

Kinds == {"null", "fn", "map"}

(***************************************************************************)
(* Type correctness: every field and local variable has a value of its     *)
(* declared kind, and m_max_prio indexes a queue of m_queues.              *)
(***************************************************************************)
TypeOK ==
    /\ status \in [Tasks -> {"none", "active", "done", "freed"}]
    /\ closure \in [Tasks -> Kinds]
    /\ caps \in [Tasks -> SUBSET Tasks]
    /\ deps \in [Tasks -> Seq(Tasks)]
    /\ prio \in [Tasks -> Nat]
    /\ interrupted \in [Tasks -> BOOLEAN]
    /\ deleted \in [Tasks -> BOOLEAN]
    /\ queues \in [0..MaxPrio -> Seq(Tasks)]
    /\ queuesSize \in Int
    /\ maxPrio \in 0..MaxPrio
    /\ shuttingDown \in BOOLEAN
    /\ mutex \in Threads \cup {NoThread}
    /\ pc \in [Threads -> Pcs]
    /\ cur \in [Threads -> Tasks \cup {NoTask}]
    /\ handles \in [Threads -> SUBSET Tasks]
    /\ want \in [Threads -> SUBSET Tasks]
    /\ tgt \in [Threads -> Tasks \cup {NoTask}]
    /\ walk \in [Threads -> Seq(Tasks)]
    /\ junk \in [Threads -> SUBSET Tasks]

Init ==
    /\ status = [t \in Tasks |-> "none"]
    /\ closure = [t \in Tasks |-> "null"]
    /\ caps = [t \in Tasks |-> {}]
    /\ deps = [t \in Tasks |-> <<>>]
    /\ prio = [t \in Tasks |-> 0]
    /\ interrupted = [t \in Tasks |-> FALSE]
    /\ deleted = [t \in Tasks |-> FALSE]
    /\ queues = [p \in 0..MaxPrio |-> <<>>]
    /\ queuesSize = 0
    /\ maxPrio = 0
    /\ shuttingDown = FALSE
    /\ mutex = NoThread
    /\ pc = [th \in Threads |-> IF th \in Workers THEN "absent" ELSE "user"]
    /\ cur = [th \in Threads |-> NoTask]
    /\ handles = [th \in Threads |-> {}]
    /\ want = [th \in Threads |-> {}]
    /\ tgt = [th \in Threads |-> NoTask]
    /\ walk = [th \in Threads |-> <<>>]
    /\ junk = [th \in Threads |-> {}]

----------------------------------------------------------------------------
(* The queues.                                                             *)

(* Faulty variant: off by one at the limit.                                *)
ClampOffByOne(p) == IF p > MaxPrio + 1 THEN MaxPrio ELSE p

Clamp(p) == IF p > MaxPrio THEN MaxPrio ELSE p

(* Faulty variant: a waiting worker is not notified.                       *)
SpawnOnly(pcs) ==
    IF \E w \in Workers : pcs[w] = "absent"
    THEN {[pcs EXCEPT ![w] = "loop"] : w \in {u \in Workers : pcs[u] = "absent"}}
    ELSE {pcs}

(* The worker that enqueue_core starts or notifies, if there is one: a     *)
(* worker still to be created, else one waiting on m_queue_cv.             *)
SpawnOrNotify(pcs) ==
    IF \E w \in Workers : pcs[w] = "absent"
    THEN {[pcs EXCEPT ![w] = "loop"] : w \in {u \in Workers : pcs[u] = "absent"}}
    ELSE IF \E w \in Workers : pcs[w] = "sleep"
    THEN {[pcs EXCEPT ![w] = "loop"] : w \in {u \in Workers : pcs[u] = "sleep"}}
    ELSE {pcs}

(* enqueue_core(t) where t asks for priority pr; pcs is the caller's own   *)
(* move of the program counters.                                           *)
EnqueueCore(t, pr, pcs) ==
    LET p == Clamp(pr) IN
    /\ maxPrio' = IF p > maxPrio THEN p ELSE maxPrio
    /\ queues' = [queues EXCEPT ![p] = Append(@, t)]
    /\ queuesSize' = queuesSize + 1
    /\ pc' \in SpawnOrNotify(pcs)

(* Where dequeue leaves m_max_prio when queue p has become empty: it stops *)
(* at the first non-empty queue below, or at 0.                            *)
LowerPrio(q, p) ==
    IF \E r \in 0..(p - 1) : q[r] # <<>>
    THEN CHOOSE r \in 0..(p - 1) :
            q[r] # <<>> /\ \A s \in (r + 1)..(p - 1) : q[s] = <<>>
    ELSE 0

(* Faulty variant: m_max_prio is not lowered.                              *)
DequeueKeepsPrio ==
    /\ queues' = [queues EXCEPT ![maxPrio] = Tail(@)]
    /\ queuesSize' = queuesSize - 1
    /\ maxPrio' = maxPrio

Dequeue ==
    LET q == [queues EXCEPT ![maxPrio] = Tail(@)] IN
    /\ queues' = q
    /\ queuesSize' = queuesSize - 1
    /\ maxPrio' = IF q[maxPrio] = <<>> THEN LowerPrio(q, maxPrio) ELSE maxPrio

----------------------------------------------------------------------------
(* Calls of the program.  A call is made by a client, or by a task body    *)
(* running on a worker; the program passes only tasks it has a reference   *)
(* to.  Clients make no call once the manager is being destroyed.          *)

CanCall(th) == pc[th] = "user" /\ (th \in Clients => ~shuttingDown)
MutexFree == mutex = NoThread
Step(th, p) == [pc EXCEPT ![th] = p]

Alloc(th, t, k, C, pr) ==
    /\ status[t] = "none"
    /\ status' = [status EXCEPT ![t] = "active"]
    /\ closure' = [closure EXCEPT ![t] = k]
    /\ caps' = [caps EXCEPT ![t] = C]
    /\ prio' = [prio EXCEPT ![t] = pr]
    /\ handles' = [handles EXCEPT ![th] = @ \cup {t}]

MkTask(th, t, C, pr) ==
    /\ CanCall(th) /\ MutexFree
    /\ C \subseteq handles[th] /\ Cardinality(C) <= MaxCaps
    /\ Alloc(th, t, "fn", C, pr)
    /\ EnqueueCore(t, pr, pc)
    /\ UNCHANGED <<deps, interrupted, deleted, shuttingDown, mutex, cur,
                   want, tgt, walk, junk>>

TaskPure(th, t) ==
    /\ CanCall(th)
    /\ status[t] = "none"
    /\ status' = [status EXCEPT ![t] = "done"]
    /\ handles' = [handles EXCEPT ![th] = @ \cup {t}]
    /\ UNCHANGED <<closure, caps, deps, prio, interrupted, deleted, queueVars,
                   shuttingDown, mutex, pc, cur, want, tgt, walk, junk>>

(* A new task t of kind k that depends on x: alloc_task and add_dep(x, t), *)
(* which enqueues t if x is ready.  The check that add_dep makes before it *)
(* takes the lock needs no step: m_value is never reset, so both checks    *)
(* lead to the same enqueue.                                               *)
NewDependent(th, x, t, k, pr, ready) ==
    /\ CanCall(th) /\ MutexFree
    /\ x \in handles[th]
    /\ Alloc(th, t, k, {x}, pr)
    /\ \/ /\ ready
          /\ EnqueueCore(t, pr, pc)
          /\ deps' = deps
       \/ /\ ~ready
          /\ deps' = [deps EXCEPT ![x] = <<t>> \o @]
          /\ UNCHANGED <<queueVars, pc>>
    /\ UNCHANGED <<interrupted, deleted, shuttingDown, mutex, cur, want, tgt,
                   walk, junk>>

(* Faulty variant: the task is enqueued before its source is finished.     *)
TaskMapAtOnce(th, x, t, pr) == NewDependent(th, x, t, "map", pr, TRUE)

TaskMap(th, x, t, pr) == NewDependent(th, x, t, "map", pr, status[x] = "done")

(* The bound on blocked task bodies; clients may always block.             *)
MayBlock(th) ==
    th \in Workers =>
        Cardinality({w \in Workers : pc[w] \in {"get", "wait"}}) < MaxBlocked

(* task_get (one task) and io_wait_any (several) find no value without the *)
(* lock, and go on to wait_for / wait_any.                                 *)
TaskGet(th, S) ==
    /\ CanCall(th) /\ MayBlock(th)
    /\ S # {} /\ S \subseteq handles[th]
    /\ \A x \in S : status[x] # "done"
    /\ pc' = Step(th, "get")
    /\ want' = [want EXCEPT ![th] = S]
    /\ UNCHANGED <<taskVars, queueVars, shuttingDown, mutex, cur, handles, tgt,
                   walk, junk>>

(* wait_for / wait_any with the lock: return, or wait on                   *)
(* m_task_finished_cv.                                                     *)
WaitFor(th) ==
    /\ pc[th] = "get" /\ MutexFree
    /\ \/ /\ \E x \in want[th] : status[x] = "done"
          /\ pc' = Step(th, "user")
          /\ want' = [want EXCEPT ![th] = {}]
       \/ /\ \A x \in want[th] : status[x] # "done"
          /\ pc' = Step(th, "wait")
          /\ want' = want
    /\ UNCHANGED <<taskVars, queueVars, shuttingDown, mutex, cur, handles, tgt,
                   walk, junk>>

RequestInterrupt(th, x) ==
    /\ CanCall(th) /\ MutexFree
    /\ x \in handles[th]
    /\ status[x] = "active"
    /\ interrupted' = [interrupted EXCEPT ![x] = TRUE]
    /\ UNCHANGED <<status, closure, caps, deps, prio, deleted, queueVars,
                   shuttingDown, mutex, pc, threadVars>>

----------------------------------------------------------------------------
(* Dropping references, and deactivate_task.                               *)

(* The reference count of x is not zero: hs and js are the references of   *)
(* the threads, cs those of the closures.                                  *)
Referenced(x, hs, js, cs) ==
    \/ \E th \in Threads : x \in hs[th] \cup js[th]
    \/ \E t \in Tasks : x \in cs[t]

(* Faulty variant: the references of closures are not counted.             *)
DecRefIgnoresClosures(th, x, p) ==
    IF \E u \in Threads : x \in handles'[u] \cup junk'[u]
    THEN pc' = Step(th, p) /\ tgt' = tgt
    ELSE pc' = Step(th, "deact") /\ tgt' = [tgt EXCEPT ![th] = x]

(* dec_ref(x): the last reference sends the thread into deactivate_task,   *)
(* otherwise it goes on at p.                                              *)
DecRef(th, x, p) ==
    IF Referenced(x, handles', junk', caps)
    THEN pc' = Step(th, p) /\ tgt' = tgt
    ELSE pc' = Step(th, "deact") /\ tgt' = [tgt EXCEPT ![th] = x]

Drop(th, x) ==
    /\ CanCall(th)
    /\ x \in handles[th]
    /\ handles' = [handles EXCEPT ![th] = @ \ {x}]
    /\ junk' = junk
    /\ DecRef(th, x, "user")
    /\ UNCHANGED <<taskVars, queueVars, shuttingDown, mutex, cur, want, walk>>

(* deactivate_task up to its unlock.  The task is freed when it has a      *)
(* value; else it is marked deleted and the thread takes its dependency    *)
(* list and its closure.                                                   *)
Deactivate(th, mark) ==
    LET t == tgt[th] IN
    /\ pc[th] = "deact" /\ MutexFree
    /\ \/ /\ status[t] = "done"
          /\ status' = [status EXCEPT ![t] = "freed"]
          /\ UNCHANGED <<closure, caps, deps, interrupted, deleted, walk, junk>>
       \/ /\ status[t] # "done"
          /\ closure' = [closure EXCEPT ![t] = "null"]
          /\ caps' = [caps EXCEPT ![t] = {}]
          /\ junk' = [junk EXCEPT ![th] = @ \cup caps[t]]
          /\ deps' = [deps EXCEPT ![t] = <<>>]
          /\ walk' = [walk EXCEPT ![th] = deps[t]]
          /\ interrupted' = [interrupted EXCEPT ![t] = TRUE]
          /\ deleted' = [deleted EXCEPT ![t] = mark]
          /\ UNCHANGED status
    /\ pc' = Step(th, "clean")
    /\ tgt' = [tgt EXCEPT ![th] = NoTask]
    /\ UNCHANGED <<prio, queueVars, shuttingDown, mutex, cur, handles, want>>

(* Faulty variant: m_deleted is not set.                                   *)
DeactivateUnmarked(th) == Deactivate(th, FALSE)

DeactivateTask(th) == Deactivate(th, TRUE)

(* The walk of deactivate_task over the dependencies, without the lock.    *)
FreeDep(th) ==
    /\ pc[th] = "clean" /\ walk[th] # <<>>
    /\ status' = [status EXCEPT ![Head(walk[th])] = "freed"]
    /\ walk' = [walk EXCEPT ![th] = Tail(@)]
    /\ UNCHANGED <<closure, caps, deps, prio, interrupted, deleted, queueVars,
                   shuttingDown, mutex, pc, cur, handles, want, tgt, junk>>

(* Faulty variant: the dead closure is leaked.                             *)
LeakCaptured(th) ==
    /\ pc[th] = "clean" /\ walk[th] = <<>> /\ junk[th] # {}
    /\ junk' = [junk EXCEPT ![th] = {}]
    /\ UNCHANGED <<taskVars, queueVars, shuttingDown, mutex, pc, cur, handles,
                   want, tgt, walk>>

(* dec_ref of the dead closure: it drops what it captured, and a task that *)
(* was last referenced there is deactivated in turn.                       *)
DropCaptured(th) ==
    /\ pc[th] = "clean" /\ walk[th] = <<>>
    /\ \E x \in junk[th] :
        /\ junk' = [junk EXCEPT ![th] = @ \ {x}]
        /\ handles' = handles
        /\ DecRef(th, x, "clean")
    /\ UNCHANGED <<taskVars, queueVars, shuttingDown, mutex, cur, want, walk>>

EndDrop(th) ==
    /\ pc[th] = "clean" /\ walk[th] = <<>> /\ junk[th] = {}
    /\ pc' = Step(th, "user")
    /\ UNCHANGED <<taskVars, queueVars, shuttingDown, mutex, threadVars>>

----------------------------------------------------------------------------
(* The worker loop of spawn_worker.                                        *)

WorkerExit(w) ==
    /\ pc[w] = "loop" /\ MutexFree
    /\ shuttingDown
    /\ pc' = Step(w, "exit")
    /\ UNCHANGED <<taskVars, queueVars, shuttingDown, mutex, threadVars>>

WorkerSleep(w) ==
    /\ pc[w] = "loop" /\ MutexFree
    /\ ~shuttingDown /\ queuesSize = 0
    /\ pc' = Step(w, "sleep")
    /\ UNCHANGED <<taskVars, queueVars, shuttingDown, mutex, threadVars>>

(* Faulty variant: m_shutting_down is not checked before every task.       *)
CanDequeueLate(w) == pc[w] = "loop" /\ MutexFree /\ queuesSize # 0

CanDequeue(w) == pc[w] = "loop" /\ MutexFree /\ ~shuttingDown /\ queuesSize # 0

WorkerDiscard(w) ==
    LET t == Head(queues[maxPrio]) IN
    /\ CanDequeue(w)
    /\ deleted[t]
    /\ Dequeue
    /\ status' = [status EXCEPT ![t] = "freed"]
    /\ UNCHANGED <<closure, caps, deps, prio, interrupted, deleted,
                   shuttingDown, mutex, pc, threadVars>>

(* Where a closure starts: in the code of the program, or in the function  *)
(* of the runtime that wraps it (task_map_fn).                             *)
BodyPc(k) == IF k \in {"null", "fn"} THEN "user" ELSE k

(* The worker takes the closure of the task and runs it.                   *)
WorkerStart(w) ==
    LET t == Head(queues[maxPrio]) IN
    /\ CanDequeue(w)
    /\ ~deleted[t]
    /\ Dequeue
    /\ cur' = [cur EXCEPT ![w] = t]
    /\ closure' = [closure EXCEPT ![t] = "null"]
    /\ caps' = [caps EXCEPT ![t] = {}]
    /\ handles' = [handles EXCEPT ![w] = caps[t]]
    /\ pc' = Step(w, BodyPc(closure[t]))
    /\ UNCHANGED <<status, deps, prio, interrupted, deleted, shuttingDown,
                   mutex, want, tgt, walk, junk>>

(* A function of the runtime that runs at p reads the value of the task it *)
(* was given, and drops that task.                                         *)
ReadSource(w, p) ==
    /\ pc[w] = p
    /\ \E x \in handles[w] :
        /\ handles' = [handles EXCEPT ![w] = @ \ {x}]
        /\ junk' = junk
        /\ DecRef(w, x, "user")
    /\ UNCHANGED <<taskVars, queueVars, shuttingDown, mutex, cur, want, walk>>

(* task_map_fn, up to its call of f.                                       *)
TaskMapFn(w) == ReadSource(w, "map")

(* The closure returns a value, its references dropped.                    *)
Return(w) ==
    /\ pc[w] = "user" /\ handles[w] = {}
    /\ pc' = Step(w, "relock")
    /\ UNCHANGED <<taskVars, queueVars, shuttingDown, mutex, threadVars>>

RelockDeleted(w) ==
    LET t == cur[w] IN
    /\ pc[w] = "relock" /\ MutexFree
    /\ deleted[t]
    /\ status' = [status EXCEPT ![t] = "freed"]
    /\ cur' = [cur EXCEPT ![w] = NoTask]
    /\ pc' = Step(w, "loop")
    /\ UNCHANGED <<closure, caps, deps, prio, interrupted, deleted, queueVars,
                   shuttingDown, mutex, handles, want, tgt, walk, junk>>

(* Enter handle_finished, with the lock: the list of the task is walked,   *)
(* and head is what is left in m_head_dep.                                 *)
EnterFinish(w, head) ==
    LET t == cur[w] IN
    /\ pc[w] = "relock" /\ MutexFree
    /\ ~deleted[t]
    /\ mutex' = w
    /\ walk' = [walk EXCEPT ![w] = deps[t]]
    /\ deps' = [deps EXCEPT ![t] = head]
    /\ pc' = Step(w, "finish")
    /\ UNCHANGED <<status, closure, caps, prio, interrupted, deleted,
                   queueVars, shuttingDown, cur, handles, want, tgt, junk>>

(* Faulty variant: m_head_dep is not reset.                                *)
RelockFinishKeepsHead(w) == EnterFinish(w, deps[cur[w]])

RelockFinish(w) == EnterFinish(w, <<>>)

(* One iteration of handle_finished, of a task with the flag i.            *)
FinishDep(w, i) ==
    LET it == Head(walk[w]) IN
    /\ pc[w] = "finish" /\ walk[w] # <<>>
    /\ walk' = [walk EXCEPT ![w] = Tail(@)]
    /\ interrupted' = [interrupted EXCEPT ![it] = @ \/ i]
    /\ \/ /\ deleted[it]
          /\ status' = [status EXCEPT ![it] = "freed"]
          /\ UNCHANGED <<queueVars, pc>>
       \/ /\ ~deleted[it]
          /\ EnqueueCore(it, prio[it], pc)
          /\ UNCHANGED status
    /\ UNCHANGED <<closure, caps, deps, prio, deleted, shuttingDown, mutex,
                   cur, handles, want, tgt, junk>>

(* Faulty variant: the interruption stops at the task itself.              *)
HandleFinishedQuietly(w) == FinishDep(w, FALSE)

HandleFinished(w) == FinishDep(w, interrupted[cur[w]])

(* The end of the loop body: the value is published, m_imp is released and *)
(* the threads in N are notified.                                          *)
Publish(w, N) ==
    /\ pc[w] = "finish" /\ walk[w] = <<>>
    /\ status' = [status EXCEPT ![cur[w]] = "done"]
    /\ cur' = [cur EXCEPT ![w] = NoTask]
    /\ mutex' = NoThread
    /\ pc' = [th \in Threads |-> IF th = w THEN "loop"
                                 ELSE IF th \in N THEN "get"
                                 ELSE pc[th]]
    /\ UNCHANGED <<closure, caps, deps, prio, interrupted, deleted, queueVars,
                   shuttingDown, handles, want, tgt, walk, junk>>

Waiters == {th \in Threads : pc[th] = "wait"}

(* Faulty variant: notify_one for notify_all.                              *)
FinishNotifyOne(w) ==
    \/ Waiters = {} /\ Publish(w, {})
    \/ \E th \in Waiters : Publish(w, {th})

Finish(w) == Publish(w, Waiters)

(* A condition variable may wake without a notification.                   *)
SpuriousWakeup(th) ==
    /\ \/ pc[th] = "sleep" /\ pc' = Step(th, "loop")
       \/ pc[th] = "wait" /\ pc' = Step(th, "get")
    /\ UNCHANGED <<taskVars, queueVars, shuttingDown, mutex, threadVars>>

----------------------------------------------------------------------------
(* The destructor.  The program leaves the scope of scoped_task_manager    *)
(* when its own threads hold no task any more.                             *)

Destroy(c, N) ==
    /\ ~shuttingDown /\ MutexFree
    /\ \A d \in Clients : pc[d] = "user" /\ handles[d] = {}
    /\ interrupted' = [t \in Tasks |->
                         interrupted[t] \/ \E w \in Workers : cur[w] = t]
    /\ shuttingDown' = TRUE
    /\ pc' = [th \in Threads |-> IF th = c THEN "join"
                                 ELSE IF th \in N THEN "loop"
                                 ELSE pc[th]]
    /\ UNCHANGED <<status, closure, caps, deps, prio, deleted, queueVars, mutex,
                   threadVars>>

(* Faulty variant: the sleeping workers are not notified.                  *)
ShutdownSilently(c) == Destroy(c, {})

Shutdown(c) == Destroy(c, {w \in Workers : pc[w] = "sleep"})

(* All workers joined: the tasks left in the queues are freed.             *)
Joined == \A w \in Workers : pc[w] \in {"absent", "exit"}

Join(c) ==
    /\ pc[c] = "join" /\ Joined
    /\ status' = [t \in Tasks |->
                    IF \E p \in 0..MaxPrio : \E i \in DOMAIN queues[p] : queues[p][i] = t
                    THEN "freed" ELSE status[t]]
    /\ queues' = [p \in 0..MaxPrio |-> <<>>]
    /\ queuesSize' = 0
    /\ maxPrio' = 0
    /\ pc' = Step(c, "end")
    /\ UNCHANGED <<closure, caps, deps, prio, interrupted, deleted,
                   shuttingDown, mutex, threadVars>>

----------------------------------------------------------------------------
Call(th) ==
    \/ \E t \in Tasks, C \in SUBSET handles[th], pr \in Prios : MkTask(th, t, C, pr)
    \/ \E t \in Tasks : TaskPure(th, t)
    \/ \E x \in handles[th], t \in Tasks, pr \in Prios : TaskMap(th, x, t, pr)
    \/ \E S \in SUBSET handles[th] : TaskGet(th, S)
    \/ \E x \in handles[th] : RequestInterrupt(th, x)

DropSome(th) == \E x \in handles[th] : Drop(th, x)

(* Steps a thread takes inside the runtime, once it has been called.       *)
Internal(th) ==
    \/ WaitFor(th)
    \/ DeactivateTask(th)
    \/ FreeDep(th)
    \/ DropCaptured(th)
    \/ EndDrop(th)

Work(w) ==
    \/ WorkerExit(w)
    \/ WorkerSleep(w)
    \/ WorkerDiscard(w)
    \/ WorkerStart(w)
    \/ TaskMapFn(w)
    \/ Return(w)
    \/ RelockDeleted(w)
    \/ RelockFinish(w)
    \/ HandleFinished(w)
    \/ Finish(w)

Next ==
    \/ \E th \in Threads : Call(th) \/ DropSome(th) \/ Internal(th) \/ SpuriousWakeup(th)
    \/ \E w \in Workers : Work(w)
    \/ \E c \in Clients : Shutdown(c) \/ Join(c)

Spec == Init /\ [][Next]_vars

(***************************************************************************)
(* Fairness: the threads are scheduled, m_mutex is granted to whoever      *)
(* waits for it once it stays free, a task body ends (it drops its         *)
(* references and returns) and the destructor, once called, goes on.       *)
(* Nothing forces the program to make a call.                              *)
(***************************************************************************)
Fairness ==
    /\ \A th \in Threads : WF_vars(Internal(th))
    /\ \A w \in Workers : WF_vars(Work(w)) /\ WF_vars(DropSome(w))
    /\ \A c \in Clients : WF_vars(Join(c))

FairSpec == Spec /\ Fairness

----------------------------------------------------------------------------
(* Properties.                                                             *)

Elems(s) == {s[i] : i \in DOMAIN s}

(* The positions in a family of lists.                                     *)
Slots(f) == UNION {{x} \X DOMAIN f[x] : x \in DOMAIN f}

Queued == UNION {Elems(queues[p]) : p \in 0..MaxPrio}

(***************************************************************************)
(* dequeue takes from the highest non-empty priority: m_max_prio is kept   *)
(* exact across enqueue and dequeue, and m_queues_size counts the queued   *)
(* tasks (lean_assert(!q.empty()) in dequeue).                             *)
(***************************************************************************)
QueuesConsistent ==
    /\ queuesSize = Cardinality(Slots(queues))
    /\ \A p \in 0..MaxPrio : p > maxPrio => queues[p] = <<>>
    /\ queuesSize # 0 => queues[maxPrio] # <<>>

Alive(t) == status[t] \in {"active", "done"}

(***************************************************************************)
(* A counted reference never leads to a dead task: what a thread or a      *)
(* closure references is allocated, is not marked deleted and is not being *)
(* deactivated, and a task is deactivated by one thread only.              *)
(***************************************************************************)
ReferencesAlive ==
    /\ \A x \in Tasks :
        Referenced(x, handles, junk, caps) => Alive(x) /\ ~deleted[x]
    /\ \A th \in Threads : tgt[th] # NoTask =>
        /\ Alive(tgt[th]) /\ ~deleted[tgt[th]]
        /\ ~Referenced(tgt[th], handles, junk, caps)
        /\ \A u \in Threads \ {th} : tgt[u] # tgt[th]
    /\ \A th \in Threads : want[th] \subseteq handles[th]

(* The places where the runtime keeps an uncounted pointer to task t.      *)
Places(t) ==
    LET At(f) == {s \in Slots(f) : f[s[1]][s[2]] = t} IN
    {<<"queue", s>> : s \in At(queues)}
    \cup {<<"dep", s>> : s \in At(deps)}
    \cup {<<"walk", s>> : s \in At(walk)}
    \cup {<<"run", w>> : w \in {w \in Workers : cur[w] = t}}

(***************************************************************************)
(* Every unfinished task is in exactly one place, and no pointer leads to  *)
(* a finished or freed one.  "Each task can be in at most one reverse      *)
(* dependency list" (object.h) is a part of it; so is that no task is run  *)
(* or freed twice (lean_assert(t->m_imp) in the worker loop) and that none *)
(* is lost: a task that is not done will be run, discarded or freed.       *)
(***************************************************************************)
ExactlyOnePlace ==
    \A t \in Tasks :
        /\ status[t] = "active" <=> Places(t) # {}
        /\ \A a, b \in Places(t) : a = b

(***************************************************************************)
(* A task that waits in a queue or a dependency list has its closure until *)
(* it is marked deleted: no worker applies a null closure, and no closure  *)
(* is leaked with a deleted task.                                          *)
(***************************************************************************)
WaitingTasksHaveClosure ==
    \A t \in Queued \cup (UNION {Elems(deps[x]) : x \in Tasks})
                    \cup (UNION {Elems(walk[th]) : th \in Threads}) :
        closure[t] = "null" <=> deleted[t]

(***************************************************************************)
(* deactivate_task frees the dependencies of a dead task without the lock  *)
(* because they are dead too: a dependency in use would reference it       *)
(* (lean_assert(it->m_imp->m_deleted)).                                    *)
(***************************************************************************)
DependentsOfDeadAreDead ==
    \A th \in Threads : pc[th] = "clean" =>
        \A x \in Elems(walk[th]) : status[x] = "active" /\ deleted[x]

(***************************************************************************)
(* An interruption of a task reaches the tasks that map it: when the task  *)
(* is finished, each of them has been interrupted before a worker can take *)
(* it, or is still to be visited by handle_finished.                       *)
(***************************************************************************)
InterruptReachesDependents ==
    \A w \in Workers, m \in Tasks :
        /\ pc[w] = "finish" /\ interrupted[cur[w]]
        /\ status[m] = "active" /\ closure[m] = "map" /\ cur[w] \in caps[m]
        => interrupted[m] \/ m \in Elems(walk[w])

(* A task as the program sees it.                                          *)
StateOf(t) ==
    CASE status[t] = "none"                  -> "none"
      [] status[t] # "none" /\ deleted[t]    -> "cancelled"
      [] status[t] = "active" /\ ~deleted[t] -> IF closure[t] = "null" THEN "running" ELSE "waiting"
      [] status[t] = "done" /\ ~deleted[t]   -> "done"
      [] status[t] = "freed" /\ ~deleted[t]  -> "released"

Abstract == INSTANCE TaskSpec WITH
    state  <- [t \in Tasks |-> StateOf(t)],
    source <- [t \in Tasks |-> IF closure[t] = "map" THEN caps[t] ELSE {}],
    waits  <- want

(***************************************************************************)
(* The task manager implements TaskSpec: whatever the threads do, a task   *)
(* is run at most once and not before the task it maps has its value       *)
(* (lean_assert(v != nullptr) in task_map_fn), has a value only after it   *)
(* was run, keeps it while somebody waits for it or maps it, and nobody    *)
(* returns from task_get without a value.                                  *)
(***************************************************************************)
ImplementsTaskSpec == Abstract!TaskSpecification

(***************************************************************************)
(* Once the destructor has announced the shutdown, every task that is      *)
(* running has been interrupted: no task is started behind its back.       *)
(***************************************************************************)
ShutdownInterruptsRunning ==
    shuttingDown => \A w \in Workers : cur[w] # NoTask => interrupted[cur[w]]

(***************************************************************************)
(* When the workers have been joined, the queues hold only tasks nobody    *)
(* references (lean_assert(o->m_imp && o->m_imp->m_deleted)), and after    *)
(* the destructor no task object is left.                                  *)
(***************************************************************************)
ShutdownReleasesAll ==
    \A c \in Clients :
        /\ pc[c] = "join" /\ Joined => \A t \in Queued : deleted[t]
        /\ pc[c] = "end" => \A t \in Tasks : status[t] \in {"none", "freed"}

(***************************************************************************)
(* Everyone who waits for a task returns, client or task body: no          *)
(* notification of m_task_finished_cv is lost between the check and the    *)
(* wait.  (The destructor abandons the task bodies that still wait.)       *)
(***************************************************************************)
EveryGetReturns ==
    \A th \in Threads : pc[th] \in {"get", "wait"} ~> pc[th] = "user" \/ shuttingDown

(***************************************************************************)
(* A task that stays referenced is eventually finished, unless the manager *)
(* is destroyed: no wakeup of m_queue_cv is lost, and no dependent is      *)
(* forgotten.                                                              *)
(***************************************************************************)
EveryTaskFinishes ==
    \A t \in Tasks :
        status[t] = "active" /\ ~deleted[t] ~> status[t] # "active" \/ deleted[t] \/ shuttingDown

(***************************************************************************)
(* The destructor returns, unless a task body waits in task_get for a task *)
(* that no worker will run any more.                                       *)
(***************************************************************************)
ShutdownTerminates ==
    \A c \in Clients :
        pc[c] = "join" ~> pc[c] = "end" \/ \E w \in Workers : pc[w] \in {"get", "wait"}
=============================================================================
