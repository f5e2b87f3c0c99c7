------------------------------ MODULE TaskBind ------------------------------
(***************************************************************************)
(* task_bind of the Lean 4 runtime, on top of TaskManager.  A bind task    *)
(* runs twice: task_bind_fn1 calls the program's function, which returns a *)
(* task y; the bind task then becomes a dependent of y and is run again,   *)
(* as task_bind_fn2, when y is finished.  Between the two runs the first   *)
(* worker returns a null value, and looks at the bind task once more.      *)
(***************************************************************************)
EXTENDS TaskManager

CONSTANT KeepBinds   \* the program keeps every bind task until it is done

ASSUME KeepBindsAssumption == KeepBinds \in BOOLEAN

VARIABLES
    phase,    \* per task: "none", or the run a bind task is in or waits for
    bindTo    \* per worker: new_task in task_bind_fn1

bindVars == <<phase, bindTo>>
allVars  == <<vars, bindVars>>

BindInit ==
    /\ Init
    /\ phase = [t \in Tasks |-> "none"]
    /\ bindTo = [w \in Workers |-> NoTask]

----------------------------------------------------------------------------
TaskBindCall(th, x, t, pr) ==
    /\ NewDependent(th, x, t, "bind1", pr, status[x] = "done")
    /\ phase' = [phase EXCEPT ![t] = "first"]
    /\ UNCHANGED bindTo

(* task_bind_fn1 up to its call of f, and task_bind_fn2.                   *)
TaskBindRead(w) ==
    /\ ReadSource(w, "bind1") \/ ReadSource(w, "bind2")
    /\ UNCHANGED bindVars

(* The program's function has returned the task y, the only reference it   *)
(* has left: the closure of the current task becomes task_bind_fn2(y).     *)
TaskBindFn1(w) ==
    LET t == cur[w] IN
    /\ pc[w] = "user" /\ phase[t] = "first"
    /\ \E y \in handles[w] :
        /\ handles[w] = {y}
        /\ closure' = [closure EXCEPT ![t] = "bind2"]
        /\ caps' = [caps EXCEPT ![t] = {y}]
        /\ bindTo' = [bindTo EXCEPT ![w] = y]
    /\ handles' = [handles EXCEPT ![w] = {}]
    /\ phase' = [phase EXCEPT ![t] = "second"]
    /\ pc' = Step(w, "addDep")
    /\ UNCHANGED <<status, deps, prio, interrupted, deleted, queueVars,
                   shuttingDown, mutex, cur, want, tgt, walk, junk>>

(* Faulty variant: the task is enqueued before y is finished.              *)
AddDepAtOnce(w) ==
    /\ pc[w] = "addDep" /\ MutexFree
    /\ EnqueueCore(cur[w], prio[cur[w]], Step(w, "relockNil"))
    /\ bindTo' = [bindTo EXCEPT ![w] = NoTask]
    /\ UNCHANGED <<taskVars, phase, shuttingDown, mutex, cur, handles, want, tgt,
                   walk, junk>>

(* Its last call, add_dep(new_task, g_current_task_object), and the return *)
(* of a null value.                                                        *)
TaskBindAddDep(w) ==
    LET t == cur[w]
        y == bindTo[w] IN
    /\ pc[w] = "addDep" /\ MutexFree
    /\ \/ /\ status[y] = "done"
          /\ EnqueueCore(t, prio[t], Step(w, "relockNil"))
          /\ deps' = deps
       \/ /\ status[y] # "done"
          /\ deps' = [deps EXCEPT ![y] = <<t>> \o @]
          /\ pc' = Step(w, "relockNil")
          /\ UNCHANGED queueVars
    /\ bindTo' = [bindTo EXCEPT ![w] = NoTask]
    /\ UNCHANGED <<status, closure, caps, prio, interrupted, deleted, phase,
                   shuttingDown, mutex, cur, handles, want, tgt, walk, junk>>

(* Faulty variant: a task without a value is put back in its queue.        *)
RelockNilEnqueues(w) ==
    /\ pc[w] = "relockNil" /\ MutexFree
    /\ cur' = [cur EXCEPT ![w] = NoTask]
    /\ EnqueueCore(cur[w], prio[cur[w]], Step(w, "loop"))
    /\ UNCHANGED <<taskVars, shuttingDown, mutex, handles, want, tgt, walk, junk,
                   bindVars>>

(* The worker loop after a null value: only a deleted task is disposed of. *)
(* m_deleted is read through m_imp; where another worker has deleted m_imp *)
(* by now, which ReturnedTaskHasImp is about, the code follows a null      *)
(* pointer, and the model goes on as if the flag were not set.             *)
RelockNil(w) ==
    LET t == cur[w] IN
    /\ pc[w] = "relockNil" /\ MutexFree
    /\ status' = IF deleted[t] THEN [status EXCEPT ![t] = "freed"] ELSE status
    /\ cur' = [cur EXCEPT ![w] = NoTask]
    /\ pc' = Step(w, "loop")
    /\ UNCHANGED <<closure, caps, deps, prio, interrupted, deleted, queueVars,
                   shuttingDown, mutex, handles, want, tgt, walk, junk, bindVars>>

BindStep(w) ==
    TaskBindRead(w) \/ TaskBindFn1(w) \/ TaskBindAddDep(w) \/ RelockNil(w)

----------------------------------------------------------------------------
(* The second run of a bind task is code of the runtime: it makes no call. *)
InProgram(th) == th \in Workers /\ cur[th] # NoTask => phase[cur[th]] # "second"

(* The discipline of the program that KeepBinds stands for.                *)
MayDrop(x) == KeepBinds => phase[x] = "none" \/ status[x] = "done"

(* The second run drops its source and returns; the first ends in          *)
(* TaskBindFn1.                                                            *)
BindWork(w) ==
    /\ pc[w] = "user" => phase[cur[w]] # "first"
    /\ Work(w)
    /\ UNCHANGED bindVars

BindDrop(th) ==
    /\ \E x \in handles[th] : MayDrop(x) /\ Drop(th, x)
    /\ UNCHANGED bindVars

BindNext ==
    \/ \E th \in Threads :
        \/ InProgram(th) /\ Call(th) /\ UNCHANGED bindVars
        \/ InProgram(th) /\ \E x \in handles[th], t \in Tasks, pr \in Prios : TaskBindCall(th, x, t, pr)
        \/ BindDrop(th)
        \/ (Internal(th) \/ SpuriousWakeup(th)) /\ UNCHANGED bindVars
    \/ \E w \in Workers : BindWork(w) \/ BindStep(w)
    \/ \E c \in Clients : (Shutdown(c) \/ Join(c)) /\ UNCHANGED bindVars

BindSpec == BindInit /\ [][BindNext]_allVars

----------------------------------------------------------------------------
(***************************************************************************)
(* lean_assert(t->m_imp) in the worker loop: the task a worker returns to  *)
(* after having run its closure still has its m_imp.                       *)
(***************************************************************************)
ReturnedTaskHasImp ==
    \A w \in Workers :
        pc[w] \in {"relock", "relockNil"} /\ MutexFree => status[cur[w]] = "active"

(***************************************************************************)
(* A bind reads a value that is there: task_bind_fn1 runs after its source *)
(* is finished, task_bind_fn2 after the task that f returned is, and       *)
(* add_dep is given a task that has not been freed.                        *)
(***************************************************************************)
BindSourceIsDone ==
    \A w \in Workers :
        /\ pc[w] \in {"bind1", "bind2"} =>
            handles[w] # {} /\ \A x \in handles[w] : status[x] = "done"
        /\ pc[w] = "addDep" => Alive(bindTo[w]) /\ caps[cur[w]] = {bindTo[w]}

(***************************************************************************)
(* Every unfinished task is kept exactly once, counting a worker between   *)
(* add_dep and its return as an additional holder of a bind task.          *)
(***************************************************************************)
BindExactlyOnePlace ==
    \A t \in Tasks :
        LET P == {a \in Places(t) :
                    ~ \E w \in Workers : a = <<"run", w>> /\ pc[w] = "relockNil"} IN
        /\ status[t] = "active" <=> P # {}
        /\ \A a, b \in P : a = b

(***************************************************************************)
(* What the task manager relies on holds with binds, too, whose closure    *)
(* and source change between two runs: references lead to live tasks,      *)
(* waiting tasks have their closure, and the dependents of a dead task are *)
(* dead.                                                                   *)
(***************************************************************************)
BindTasksAlive == ReferencesAlive /\ WaitingTasksHaveClosure /\ DependentsOfDeadAreDead
=============================================================================
