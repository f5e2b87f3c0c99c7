--------------------------- MODULE TaskBindProofs ---------------------------
(***************************************************************************)
(* The invariants of task_bind, for every set of tasks and threads.  With  *)
(* KeepBinds, TaskBind implements the task manager in which a task that    *)
(* has been run may become a dependent of the task its body has left       *)
(* (Rebind): the mapping below makes task_bind_fn1, task_bind_fn2 and the  *)
(* call of add_dep between them one such step, and what TaskManagerProofs  *)
(* shows of the task manager carries over.                                 *)
(***************************************************************************)
EXTENDS TaskBind, SequenceTheorems, TLAPS

(* A worker in the call of add_dep is still in the body of its task, and   *)
(* after a null value it has left the task already.                        *)
PcOf(p) ==
    CASE p \in {"bind1", "bind2"} -> "map"
      [] p = "addDep"             -> "user"
      [] p = "relockNil"          -> "loop"
      [] OTHER                    -> p

KindOf(k) == IF k \in {"bind1", "bind2"} THEN "map" ELSE k

AddsDep(t) == \E w \in Workers : pc[w] = "addDep" /\ cur[w] = t

(* Before add_dep, the task y is a local variable of the body.             *)
pcBar      == [th \in Threads |-> PcOf(pc[th])]
closureBar == [t \in Tasks |-> IF AddsDep(t) THEN "null" ELSE KindOf(closure[t])]
capsBar    == [t \in Tasks |-> IF AddsDep(t) THEN {} ELSE caps[t]]
handlesBar == [th \in Threads |-> IF pc[th] = "addDep" THEN {bindTo[th]} ELSE handles[th]]
curBar     == [th \in Threads |-> IF pc[th] = "relockNil" THEN NoTask ELSE cur[th]]

(* The mapping forgets the interruption flags, on which no step depends.   *)
flagsBar   == [t \in Tasks |-> TRUE]

B == INSTANCE TaskManagerProofs WITH
        pc <- pcBar, closure <- closureBar, caps <- capsBar, handles <- handlesBar,
        cur <- curBar, interrupted <- flagsBar

BindPcs == Pcs \cup {"bind1", "bind2", "addDep", "relockNil"}

BindTypes ==
    /\ pc \in [Threads -> BindPcs]
    /\ closure \in [Tasks -> Kinds \cup {"bind1", "bind2"}]
    /\ caps \in [Tasks -> SUBSET Tasks]
    /\ handles \in [Threads -> SUBSET Tasks]
    /\ cur \in [Threads -> Tasks \cup {NoTask}]
    /\ phase \in [Tasks -> {"none", "first", "second"}]
    /\ bindTo \in [Workers -> Tasks \cup {NoTask}]

(* The closure of a task is the one of the run it waits for, and a bind    *)
(* task is never marked deleted.                                           *)
PhaseInv ==
    \A t \in Tasks :
        /\ phase[t] = "none" => closure[t] \in {"null", "fn", "map"}
        /\ phase[t] = "first" => closure[t] \in {"null", "bind1"}
        /\ phase[t] = "second" => closure[t] \in {"null", "bind2"}
        /\ phase[t] # "none" => ~deleted[t] /\ status[t] # "none"

(* Where a thread is in the two runs of its bind task.                     *)
RunInv ==
    \A th \in Threads :
        /\ pc[th] \in {"bind1", "bind2", "addDep", "relockNil"} =>
              th \in Workers /\ cur[th] \in Tasks
        /\ pc[th] = "bind1" => phase[cur[th]] = "first"
        /\ pc[th] \in {"bind2", "addDep", "relockNil"} => phase[cur[th]] = "second"
        /\ pc[th] = "addDep" =>
              /\ bindTo[th] \in Tasks /\ handles[th] = {}
              /\ closure[cur[th]] = "bind2" /\ caps[cur[th]] = {bindTo[th]}

(* What KeepBinds gives: a bind task that is not done has an owner that    *)
(* will not drop it, a thread or another bind task.                        *)
Kept(b) ==
    \/ \E th \in Threads : b \in handles[th]
    \/ \E t \in Tasks : closure[t] = "bind2" /\ b \in caps[t]

KeptInv == \A b \in Tasks : phase[b] # "none" /\ status[b] = "active" => Kept(b)

BindInv == BindTypes /\ PhaseInv /\ RunInv /\ KeptInv

----------------------------------------------------------------------------
(* The task manager's own types, which the mapping leaves alone.           *)
LEMMA PlainTypes ==
    ASSUME B!TaskInv
    PROVE  /\ status \in [Tasks -> {"none", "active", "done", "freed"}]
           /\ deps \in [Tasks -> Seq(Tasks)] /\ prio \in [Tasks -> Nat]
           /\ deleted \in [Tasks -> BOOLEAN] /\ queues \in [0..MaxPrio -> Seq(Tasks)]
           /\ want \in [Threads -> SUBSET Tasks] /\ junk \in [Threads -> SUBSET Tasks]
           /\ tgt \in [Threads -> Tasks \cup {NoTask}] /\ walk \in [Threads -> Seq(Tasks)]
BY DEF B!TaskInv, B!PlaceInv, B!TypeInv, B!TypeOK, B!Threads, Threads

(* A task is run by one worker, not counting the one that has just left it. *)
LEMMA RunsAlone ==
    ASSUME B!TaskInv, BindInv, NEW w \in Workers, cur[w] \in Tasks, pc[w] # "relockNil"
    PROVE  /\ status[cur[w]] = "active"
           /\ \A u \in Workers : u # w /\ pc[u] # "relockNil" => cur[u] # cur[w]
<1>1. B!PlacedOnce(cur[w])
  BY DEF B!TaskInv, B!PlaceInv
<1>2. curBar[w] = cur[w] /\ B!IsRun(cur[w])
  BY DEF curBar, Threads, B!IsRun
<1>3. \A u \in Workers : pc[u] # "relockNil" => curBar[u] = cur[u]
  BY DEF curBar, Threads
<1> QED BY <1>1, <1>2, <1>3 DEF B!PlacedOnce

LEMMA AddsDepRuns ==
    ASSUME B!TaskInv, BindInv, NEW t \in Tasks, AddsDep(t)
    PROVE  status[t] = "active" /\ phase[t] = "second" /\ closure[t] = "bind2"
BY RunsAlone DEF AddsDep, BindInv, RunInv, Threads

(* The reference counts are those of the mapped state, also when the       *)
(* threads have moved their references already.                            *)
LEMMA SameCounts ==
    ASSUME BindInv, NEW x, NEW hs, NEW hsBar, NEW js,
           \A th \in Threads : IF pc[th] = "addDep" THEN hs[th] = {} /\ hsBar[th] = {bindTo[th]}
                               ELSE hsBar[th] = hs[th]
    PROVE  Referenced(x, hs, js, caps) <=> B!Referenced(x, hsBar, js, capsBar)
<1>1. ASSUME NEW w \in Threads, pc[w] = "addDep"
      PROVE  cur[w] \in Tasks /\ caps[cur[w]] = {bindTo[w]} /\ w \in Workers
  BY <1>1 DEF BindInv, RunInv
<1>2. \A t \in Tasks : capsBar[t] = IF AddsDep(t) THEN {} ELSE caps[t]
  BY DEF capsBar
<1>3. ASSUME NEW t \in Tasks, AddsDep(t), x \in caps[t]
      PROVE  \E w \in Threads : x \in hsBar[w]
  BY <1>1, <1>3 DEF AddsDep, Threads
<1>4. ASSUME NEW w \in Threads, pc[w] = "addDep", x \in hsBar[w]
      PROVE  \E t \in Tasks : x \in caps[t]
  BY <1>1, <1>4
<1> QED BY <1>2, <1>3, <1>4 DEF Referenced, B!Referenced, B!Threads, Threads

LEMMA SameReferences ==
    ASSUME BindInv
    PROVE  \A x : Referenced(x, handles, junk, caps) <=> B!Referenced(x, handlesBar, junk, capsBar)
<1>1. \A th \in Threads : IF pc[th] = "addDep" THEN handles[th] = {} /\ handlesBar[th] = {bindTo[th]}
                          ELSE handlesBar[th] = handles[th]
  BY DEF BindInv, RunInv, handlesBar
<1> QED BY <1>1, SameCounts

(* A bind task that is not done is never deactivated.                      *)
LEMMA KeptIsLive ==
    ASSUME B!TaskInv, BindInv, NEW b \in Tasks, phase[b] # "none", status[b] = "active"
    PROVE  /\ Referenced(b, handles, junk, caps)
           /\ \A th \in Threads : tgt[th] # b
<1>1. Referenced(b, handles, junk, caps)
  BY DEF BindInv, KeptInv, Kept, Referenced
<1>2. B!ReferencesAlive
  BY DEF B!TaskInv, B!OwnerInv
<1> QED BY <1>1, <1>2, SameReferences, TasksAssumption DEF B!ReferencesAlive, B!Threads, Threads

----------------------------------------------------------------------------
(* How the mapped state follows the steps of TaskManager, none of which    *)
(* takes a thread into or out of add_dep or the return of a null value.    *)
Between(th) == pc[th] \in {"addDep", "relockNil"}

BindsStay ==
    /\ \A th \in Threads :
        /\ Between(th)' \/ Between(th) => pc'[th] = pc[th] /\ cur'[th] = cur[th]
        /\ pc[th] = "addDep" => handles'[th] = handles[th]
    /\ UNCHANGED bindTo

LEMMA AddsDepStays ==
    ASSUME BindsStay
    PROVE  \A t : AddsDep(t)' <=> AddsDep(t)
BY DEF BindsStay, Between, AddsDep, Threads

LEMMA SpawnMoves ==
    ASSUME NEW pcs, DOMAIN pcs = Threads, NEW q \in SpawnOrNotify(pcs)
    PROVE  /\ DOMAIN q = Threads
           /\ \A u \in Threads :
                q[u] = pcs[u] \/ (u \in Workers /\ pcs[u] \in {"absent", "sleep"} /\ q[u] = "loop")
BY DEF SpawnOrNotify, Threads

LEMMA SpawnBar ==
    ASSUME NEW pcs, DOMAIN pcs = Threads, NEW q \in SpawnOrNotify(pcs)
    PROVE  [th \in Threads |-> PcOf(q[th])] \in B!SpawnOrNotify([th \in Threads |-> PcOf(pcs[th])])
<1> DEFINE Bar(f) == [th \in Threads |-> PcOf(f[th])]
<1>1. \A w \in Workers : /\ Bar(pcs)[w] = "absent" <=> pcs[w] = "absent"
                         /\ Bar(pcs)[w] = "sleep" <=> pcs[w] = "sleep"
  BY DEF PcOf, Threads
<1>2. \A w \in Workers : Bar([pcs EXCEPT ![w] = "loop"]) = [Bar(pcs) EXCEPT ![w] = "loop"]
  BY DEF PcOf, Threads
<1> HIDE DEF Bar
<1>3. CASE \E w \in Workers : pcs[w] = "absent"
  <2>1. PICK w \in Workers : pcs[w] = "absent" /\ q = [pcs EXCEPT ![w] = "loop"]
    BY <1>3 DEF SpawnOrNotify
  <2>2. Bar(pcs)[w] = "absent" /\ Bar(q) = [Bar(pcs) EXCEPT ![w] = "loop"]
    BY <1>1, <1>2, <2>1
  <2> QED BY <2>2 DEF B!SpawnOrNotify, Bar
<1>4. CASE ~(\E w \in Workers : pcs[w] = "absent") /\ \E w \in Workers : pcs[w] = "sleep"
  <2>1. PICK w \in Workers : pcs[w] = "sleep" /\ q = [pcs EXCEPT ![w] = "loop"]
    BY <1>4 DEF SpawnOrNotify
  <2>2. Bar(pcs)[w] = "sleep" /\ Bar(q) = [Bar(pcs) EXCEPT ![w] = "loop"]
    BY <1>1, <1>2, <2>1
  <2>3. ~(\E u \in Workers : Bar(pcs)[u] = "absent")
    BY <1>1, <1>4
  <2> QED BY <2>2, <2>3 DEF B!SpawnOrNotify, Bar
<1>5. CASE ~\E w \in Workers : pcs[w] \in {"absent", "sleep"}
  <2>1. q = pcs /\ ~\E w \in Workers : Bar(pcs)[w] \in {"absent", "sleep"}
    BY <1>1, <1>5 DEF SpawnOrNotify
  <2> QED BY <2>1 DEF B!SpawnOrNotify, Bar
<1> QED BY <1>3, <1>4, <1>5

LEMMA BarStep ==
    ASSUME BindTypes, NEW th \in Threads, NEW p, NEW q, q = Step(th, p)
    PROVE  [u \in Threads |-> PcOf(q[u])] = B!Step(th, PcOf(p))
BY DEF BindTypes, Step, B!Step, pcBar

LEMMA BarPc ==
    ASSUME BindTypes, NEW th \in Threads, NEW p
    PROVE  /\ pc' = Step(th, p) => pcBar' = B!Step(th, PcOf(p))
           /\ pc' = pc => pcBar' = pcBar
           /\ pc' \in SpawnOrNotify(pc) => pcBar' \in B!SpawnOrNotify(pcBar)
           /\ pc' \in SpawnOrNotify(Step(th, p)) =>
                pcBar' \in B!SpawnOrNotify(B!Step(th, PcOf(p)))
<1>1. pc' = Step(th, p) => pcBar' = B!Step(th, PcOf(p))
  BY BarStep DEF pcBar
<1>2. ASSUME pc' \in SpawnOrNotify(pc) PROVE pcBar' \in B!SpawnOrNotify(pcBar)
  <2>1. DOMAIN pc = Threads
    BY DEF BindTypes
  <2> QED BY <1>2, <2>1, SpawnBar DEF pcBar
<1>3. ASSUME pc' \in SpawnOrNotify(Step(th, p))
      PROVE  pcBar' \in B!SpawnOrNotify(B!Step(th, PcOf(p)))
  <2>1. DOMAIN Step(th, p) = Threads
    BY DEF BindTypes, Step
  <2>2. [u \in Threads |-> PcOf(Step(th, p)[u])] = B!Step(th, PcOf(p))
    BY BarStep
  <2>3. [u \in Threads |-> PcOf(pc'[u])] \in B!SpawnOrNotify([u \in Threads |-> PcOf(Step(th, p)[u])])
    BY <1>3, <2>1, SpawnBar
  <2> QED BY <2>2, <2>3 DEF pcBar
<1>4. pc' = pc => pcBar' = pcBar
  BY DEF pcBar
<1> QED BY <1>1, <1>2, <1>3, <1>4

LEMMA BarClosure ==
    ASSUME BindTypes, BindsStay
    PROVE  /\ UNCHANGED <<closure, caps>> => UNCHANGED <<closureBar, capsBar>>
           /\ \A t \in Tasks : \A k, C :
                ~AddsDep(t) /\ closure' = [closure EXCEPT ![t] = k]
                            /\ caps' = [caps EXCEPT ![t] = C] =>
                /\ closureBar' = [closureBar EXCEPT ![t] = KindOf(k)]
                /\ capsBar' = [capsBar EXCEPT ![t] = C]
BY AddsDepStays DEF BindTypes, closureBar, capsBar

LEMMA BarThreads ==
    ASSUME BindTypes, BindsStay
    PROVE  /\ UNCHANGED handles => UNCHANGED handlesBar
           /\ UNCHANGED cur => UNCHANGED curBar
           /\ \A th \in Threads : \A H : pc[th] # "addDep" /\ handles' = [handles EXCEPT ![th] = H] =>
                handlesBar' = [handlesBar EXCEPT ![th] = H]
           /\ \A th \in Threads : \A t : pc[th] # "relockNil" /\ cur' = [cur EXCEPT ![th] = t] =>
                curBar' = [curBar EXCEPT ![th] = t]
<1>1. \A th \in Threads : /\ pc'[th] = "addDep" <=> pc[th] = "addDep"
                          /\ pc'[th] = "relockNil" <=> pc[th] = "relockNil"
                          /\ th \in Workers => bindTo'[th] = bindTo[th]
  BY DEF BindsStay, Between
<1>2. UNCHANGED bindTo
  BY DEF BindsStay
<1> QED BY <1>1, <1>2 DEF BindTypes, handlesBar, curBar

(* The steps of TaskManager, by the thread that takes them.                *)
OldStep(th) ==
    \/ Call(th) \/ DropSome(th) \/ Internal(th) \/ SpuriousWakeup(th)
    \/ th \in Workers /\ Work(th)
    \/ th \in Clients /\ (Shutdown(th) \/ Join(th))

(* A task that is about to be run is in a queue only.                      *)
LEMMA HeadWaits ==
    ASSUME B!TaskInv, BindInv, queuesSize # 0
    PROVE  LET h == Head(queues[maxPrio]) IN
           /\ h \in Tasks /\ status[h] = "active" /\ ~AddsDep(h)
           /\ \A w \in Workers : pc[w] # "relockNil" => cur[w] # h
<1> DEFINE h == Head(queues[maxPrio])
<1>1. B!QueueInv
  BY DEF B!TaskInv, B!PlaceInv, B!TypeInv
<1>2. queues[maxPrio] # <<>> /\ maxPrio \in 0..MaxPrio /\ queues[maxPrio] \in Seq(Tasks)
  BY <1>1 DEF B!QueueInv, B!QueuesConsistent, B!QueueType
<1>3. h \in Tasks /\ h = queues[maxPrio][1] /\ 1 \in DOMAIN queues[maxPrio]
  BY <1>2, HeadTailProperties
<1> HIDE DEF h
<1>4. B!InQueue(h) /\ B!PlacedOnce(h)
  BY <1>2, <1>3 DEF B!InQueue, B!Elems, B!TaskInv, B!PlaceInv
<1>5. status[h] = "active" /\ ~B!IsRun(h)
  BY <1>4 DEF B!PlacedOnce
<1>6. \A w \in Workers : pc[w] # "relockNil" => cur[w] # h
  BY <1>5 DEF B!IsRun, curBar, Threads
<1>7. ~AddsDep(h)
  BY <1>6 DEF AddsDep
<1> QED BY <1>3, <1>5, <1>6, <1>7 DEF h

LEMMA OldStepsStay ==
    ASSUME B!TaskInv, BindInv, NEW th \in Threads, OldStep(th), UNCHANGED bindVars
    PROVE  BindsStay
<1>0. BindTypes /\ DOMAIN pc = Threads /\ UNCHANGED bindTo
  BY DEF BindInv, BindTypes, bindVars
<1>1. CASE Call(th)
  <2>1. /\ cur' = cur
        /\ \A u \in Threads : u # th => handles'[u] = handles[u]
        /\ pc[th] = "user"
    BY <1>0, <1>1 DEF Call, MkTask, TaskPure, TaskMap, NewDependent, Alloc, TaskGet,
                      RequestInterrupt, threadVars, BindTypes, CanCall
  <2>2. pc' = pc \/ pc' \in SpawnOrNotify(pc) \/ pc' = [pc EXCEPT ![th] = "get"]
    BY <1>1 DEF Call, MkTask, TaskPure, TaskMap, NewDependent, TaskGet, EnqueueCore,
                RequestInterrupt, Step
  <2> QED BY <1>0, <2>1, <2>2, SpawnMoves DEF BindsStay, Between
<1>2. CASE DropSome(th) \/ Internal(th) \/ SpuriousWakeup(th)
  <2>1. /\ cur' = cur
        /\ \A u \in Threads : u # th => handles'[u] = handles[u]
        /\ ~Between(th)
    BY <1>0, <1>2 DEF DropSome, Drop, Internal, WaitFor, DeactivateTask, Deactivate, FreeDep,
                      DropCaptured, EndDrop, SpuriousWakeup, threadVars, BindTypes, CanCall, Between
  <2>2. pc' = pc \/ \E p \in Pcs : pc' = [pc EXCEPT ![th] = p]
    BY <1>2 DEF DropSome, Drop, DecRef, Internal, WaitFor, DeactivateTask, Deactivate, FreeDep,
                DropCaptured, EndDrop, SpuriousWakeup, Step, Pcs, ClientPcs, WorkerPcs
  <2> QED BY <1>0, <2>1, <2>2 DEF BindsStay, Between, BindTypes, Pcs, ClientPcs, WorkerPcs
<1>3. CASE th \in Workers /\ Work(th)
  <2>1. /\ \A u \in Threads : u # th => handles'[u] = handles[u] /\ cur'[u] = cur[u]
        /\ ~Between(th)
    BY <1>0, <1>3 DEF Work, WorkerExit, WorkerSleep, WorkerDiscard, WorkerStart, CanDequeue, TaskMapFn,
                      ReadSource, Return, RelockDeleted, RelockFinish, EnterFinish,
                      HandleFinished, FinishDep, Finish, Publish, threadVars, BindTypes, Between
  <2>2. CASE Finish(th)
    BY <1>0, <2>1, <2>2 DEF Finish, Publish, Waiters, BindsStay, Between, BindTypes
  <2>3. CASE WorkerStart(th)
    <3>1. Head(queues[maxPrio]) \in Tasks
      BY <2>3, HeadWaits DEF WorkerStart, CanDequeue
    <3>2. BodyPc(closure[Head(queues[maxPrio])]) \in {"user", "map", "bind1", "bind2"}
      BY <1>0, <3>1 DEF BindTypes, BodyPc, Kinds
    <3>3. pc' = [pc EXCEPT ![th] = BodyPc(closure[Head(queues[maxPrio])])]
      BY <2>3 DEF WorkerStart, Step
    <3> QED BY <1>0, <2>1, <3>2, <3>3 DEF BindsStay, Between
  <2>4. CASE ~Finish(th) /\ ~WorkerStart(th)
    <3>1. \/ pc' = pc \/ pc' \in SpawnOrNotify(pc)
          \/ \E p \in Pcs : pc' = [pc EXCEPT ![th] = p]
      BY <1>3, <2>4 DEF Work, WorkerExit, WorkerSleep, WorkerDiscard, TaskMapFn,
                        ReadSource, DecRef, Return, RelockDeleted, RelockFinish, EnterFinish,
                        HandleFinished, FinishDep, EnqueueCore, Step, Pcs, ClientPcs, WorkerPcs
    <3>2. pc' \in SpawnOrNotify(pc) => \A u \in Threads :
             pc'[u] = pc[u] \/ (u \in Workers /\ pc[u] \in {"absent", "sleep"} /\ pc'[u] = "loop")
      BY <1>0, SpawnMoves
    <3>3. \A u \in Threads : Between(u)' \/ Between(u) => pc'[u] = pc[u]
      BY <1>0, <2>1, <3>1, <3>2 DEF Between, Pcs, ClientPcs, WorkerPcs
    <3> QED BY <1>0, <2>1, <3>3 DEF BindsStay, Between
  <2> QED BY <2>2, <2>3, <2>4
<1>4. CASE th \in Clients /\ (Shutdown(th) \/ Join(th))
  <2>1. UNCHANGED <<cur, handles>> /\ ~Between(th)
    BY <1>0, <1>4 DEF Shutdown, Destroy, Join, threadVars, Between
  <2> QED BY <1>0, <1>4, <2>1 DEF Shutdown, Destroy, Join, Step, BindsStay, Between
<1> QED BY <1>1, <1>2, <1>3, <1>4 DEF OldStep

----------------------------------------------------------------------------
(* Every step of TaskManager is that step of the mapped state.             *)

LEMMA SameCardinality == \A S : B!Cardinality(S) = Cardinality(S)
BY DEF Cardinality, B!Cardinality

LEMMA RefineEnqueue ==
    ASSUME NEW t, NEW pr, NEW pcs, NEW pcsBar,
           EnqueueCore(t, pr, pcs), pc' \in SpawnOrNotify(pcs) => pcBar' \in B!SpawnOrNotify(pcsBar)
    PROVE  B!EnqueueCore(t, pr, pcsBar)
BY DEF EnqueueCore, B!EnqueueCore, Clamp, B!Clamp

(* A new task, and what it is given.                                       *)
LEMMA RefineAlloc ==
    ASSUME B!TaskInv, BindInv, BindsStay, NEW th \in Threads, NEW t \in Tasks, NEW k, NEW C, NEW pr,
           pc[th] = "user", Alloc(th, t, k, C, pr)
    PROVE  B!Alloc(th, t, KindOf(k), C, pr)
<1>1. BindTypes /\ status[t] = "none" /\ ~AddsDep(t) /\ handlesBar[th] = handles[th]
  BY AddsDepRuns DEF Alloc, BindInv, handlesBar
<1>2. /\ closureBar' = [closureBar EXCEPT ![t] = KindOf(k)]
      /\ capsBar' = [capsBar EXCEPT ![t] = C]
  BY <1>1, BarClosure DEF Alloc
<1>3. handlesBar' = [handlesBar EXCEPT ![th] = handles[th] \cup {t}]
  BY <1>1, BarThreads DEF Alloc
<1> QED BY <1>1, <1>2, <1>3 DEF Alloc, B!Alloc

LEMMA RefineNewDependent ==
    ASSUME B!TaskInv, BindInv, BindsStay, NEW th \in Threads, NEW x, NEW t \in Tasks, NEW k, NEW pr,
           NEW ready, NewDependent(th, x, t, k, pr, ready)
    PROVE  B!NewDependent(th, x, t, KindOf(k), pr, ready)
<1>0. BindTypes /\ pc[th] = "user" /\ pcBar[th] = "user" /\ handlesBar[th] = handles[th]
  BY DEF NewDependent, CanCall, BindInv, handlesBar, pcBar, PcOf
<1>1. B!CanCall(th) /\ B!MutexFree /\ x \in handlesBar[th]
  BY <1>0 DEF NewDependent, CanCall, B!CanCall, MutexFree, B!MutexFree
<1>2. B!Alloc(th, t, KindOf(k), {x}, pr)
  BY <1>0, RefineAlloc DEF NewDependent
<1>3. UNCHANGED curBar /\ UNCHANGED flagsBar
  BY <1>0, BarThreads DEF NewDependent, flagsBar
<1>4. \/ ready /\ B!EnqueueCore(t, pr, pcBar) /\ deps' = deps
      \/ ~ready /\ deps' = [deps EXCEPT ![x] = <<t>> \o @] /\ UNCHANGED <<queueVars, pcBar>>
  <2>1. CASE ready /\ EnqueueCore(t, pr, pc) /\ deps' = deps
    <3>1. pc' \in SpawnOrNotify(pc) => pcBar' \in B!SpawnOrNotify(pcBar)
      BY <1>0, BarPc
    <3> QED BY <2>1, <3>1, RefineEnqueue
  <2>2. CASE ~ready /\ deps' = [deps EXCEPT ![x] = <<t>> \o @] /\ UNCHANGED <<queueVars, pc>>
    <3>1. UNCHANGED pcBar
      BY <1>0, <2>2, BarPc
    <3> QED BY <2>2, <3>1
  <2> QED BY <2>1, <2>2 DEF NewDependent
<1> QED BY <1>1, <1>2, <1>3, <1>4 DEF NewDependent, B!NewDependent, queueVars, B!queueVars

LEMMA RefineCall ==
    ASSUME B!TaskInv, BindInv, BindsStay, NEW th \in Threads, Call(th)
    PROVE  B!Call(th)
<1>0. BindTypes /\ pc[th] = "user" /\ pcBar[th] = "user" /\ handlesBar[th] = handles[th]
  BY DEF Call, MkTask, TaskPure, TaskMap, NewDependent, TaskGet, RequestInterrupt, CanCall,
         BindInv, handlesBar, pcBar, PcOf
<1>a. (CanCall(th) => B!CanCall(th)) /\ (MutexFree <=> B!MutexFree) /\ UNCHANGED flagsBar
  BY <1>0 DEF CanCall, B!CanCall, MutexFree, B!MutexFree, flagsBar
<1>b. /\ UNCHANGED <<closure, caps>> => UNCHANGED <<closureBar, capsBar>>
      /\ UNCHANGED handles => UNCHANGED handlesBar
      /\ UNCHANGED cur => UNCHANGED curBar
      /\ UNCHANGED pc => UNCHANGED pcBar
  BY <1>0, BarClosure, BarThreads, BarPc
<1>1. ASSUME NEW t \in Tasks, NEW C \in SUBSET handles[th], NEW pr \in Prios, MkTask(th, t, C, pr)
      PROVE  B!MkTask(th, t, C, pr)
  <2>1. B!Alloc(th, t, "fn", C, pr)
    BY <1>0, <1>1, RefineAlloc DEF MkTask, KindOf
  <2>2. pc' \in SpawnOrNotify(pc) => pcBar' \in B!SpawnOrNotify(pcBar)
    BY <1>0, BarPc
  <2>3. B!EnqueueCore(t, pr, pcBar)
    BY <1>1, <2>2, RefineEnqueue DEF MkTask
  <2> QED BY <1>0, <1>1, <1>a, <1>b, <2>1, <2>3, SameCardinality DEF MkTask, B!MkTask
<1>2. ASSUME NEW t \in Tasks, TaskPure(th, t)
      PROVE  B!TaskPure(th, t)
  <2>1. handlesBar' = [handlesBar EXCEPT ![th] = handlesBar[th] \cup {t}]
    BY <1>0, <1>2, BarThreads DEF TaskPure
  <2> QED BY <1>0, <1>2, <1>a, <1>b, <2>1 DEF TaskPure, B!TaskPure, queueVars, B!queueVars
<1>3. ASSUME NEW x \in handles[th], NEW t \in Tasks, NEW pr \in Prios, TaskMap(th, x, t, pr)
      PROVE  B!TaskMap(th, x, t, pr)
  BY <1>3, RefineNewDependent DEF TaskMap, B!TaskMap, KindOf
<1>4. ASSUME NEW S \in SUBSET handles[th], TaskGet(th, S)
      PROVE  B!TaskGet(th, S)
  <2>1. pcBar' = B!Step(th, "get")
    BY <1>0, <1>4, BarPc DEF TaskGet, PcOf
  <2>2. {w \in Workers : pc[w] \in {"get", "wait"}} = {w \in Workers : pcBar[w] \in {"get", "wait"}}
    BY DEF pcBar, PcOf, Threads
  <2>3. B!MayBlock(th)
    BY <1>4, <2>2, SameCardinality DEF TaskGet, MayBlock, B!MayBlock
  <2> QED BY <1>0, <1>4, <1>a, <1>b, <2>1, <2>3
          DEF TaskGet, B!TaskGet, taskVars, B!taskVars, queueVars, B!queueVars
<1>5. ASSUME NEW x \in handles[th], RequestInterrupt(th, x)
      PROVE  B!RequestInterrupt(th, x)
  <2>1. flagsBar' = [flagsBar EXCEPT ![x] = TRUE]
    BY DEF flagsBar
  <2> QED BY <1>0, <1>5, <1>a, <1>b, <2>1
          DEF RequestInterrupt, B!RequestInterrupt, queueVars, B!queueVars, threadVars, B!threadVars
<1> QED BY <1>0, <1>1, <1>2, <1>3, <1>4, <1>5 DEF Call, B!Call

(* dec_ref finds the same count.                                           *)
LEMMA RefineDecRef ==
    ASSUME BindInv, BindsStay, NEW th \in Threads, NEW x, NEW p, PcOf(p) = p, DecRef(th, x, p)
    PROVE  B!DecRef(th, x, p)
<1>1. \A u \in Threads : IF pc[u] = "addDep" THEN handles'[u] = {} /\ handlesBar'[u] = {bindTo[u]}
                         ELSE handlesBar'[u] = handles'[u]
  <2>1. \A u \in Threads : handlesBar'[u] = IF pc'[u] = "addDep" THEN {bindTo'[u]} ELSE handles'[u]
    BY DEF handlesBar
  <2>2. \A u \in Threads : /\ pc'[u] = "addDep" <=> pc[u] = "addDep"
                           /\ pc[u] = "addDep" => handles'[u] = handles[u]
    BY DEF BindsStay, Between
  <2> QED BY <2>1, <2>2 DEF BindsStay, BindInv, RunInv
<1>2. Referenced(x, handles', junk', caps) <=> B!Referenced(x, handlesBar', junk', capsBar)
  BY <1>1, SameCounts
<1>3. /\ pc' = Step(th, p) => pcBar' = B!Step(th, p)
      /\ pc' = Step(th, "deact") => pcBar' = B!Step(th, "deact")
  <2>1. PcOf("deact") = "deact"
    BY DEF PcOf
  <2> QED BY <2>1, BarPc DEF BindInv
<1> QED BY <1>2, <1>3 DEF DecRef, B!DecRef

LEMMA RefineDrop ==
    ASSUME BindInv, BindsStay, NEW th \in Threads, DropSome(th)
    PROVE  B!DropSome(th)
<1>0. BindTypes /\ pc[th] = "user" /\ pcBar[th] = "user" /\ handlesBar[th] = handles[th]
  BY DEF DropSome, Drop, CanCall, BindInv, handlesBar, pcBar, PcOf
<1>1. PICK x \in handles[th] : Drop(th, x)
  BY DEF DropSome
<1>2. B!CanCall(th)
  BY <1>0, <1>1 DEF Drop, CanCall, B!CanCall
<1>3. UNCHANGED <<closureBar, capsBar, curBar, flagsBar>>
  BY <1>0, <1>1, BarClosure, BarThreads DEF Drop, taskVars, flagsBar
<1>4. handlesBar' = [handlesBar EXCEPT ![th] = handlesBar[th] \ {x}]
  BY <1>0, <1>1, BarThreads DEF Drop
<1>5. B!DecRef(th, x, "user")
  BY <1>1, RefineDecRef DEF Drop, PcOf
<1>6. B!Drop(th, x)
  BY <1>0, <1>1, <1>2, <1>3, <1>4, <1>5
     DEF Drop, B!Drop, taskVars, B!taskVars, queueVars, B!queueVars
<1> QED BY <1>0, <1>6 DEF B!DropSome

LEMMA RefineInternal ==
    ASSUME B!TaskInv, BindInv, BindsStay, NEW th \in Threads, Internal(th) \/ SpuriousWakeup(th)
    PROVE  B!Internal(th) \/ B!SpuriousWakeup(th)
<1>0. BindTypes /\ UNCHANGED flagsBar /\ (MutexFree <=> B!MutexFree) /\ PcOf(pc[th]) = pcBar[th]
  BY DEF BindInv, MutexFree, B!MutexFree, flagsBar, pcBar
<1>a. \A p \in {"user", "get", "wait", "deact", "clean", "sleep", "loop"} : PcOf(p) = p
  BY DEF PcOf
<1>b. \A p \in {"user", "get", "wait", "deact", "clean", "sleep", "loop"} :
         pc' = Step(th, p) => pcBar' = B!Step(th, p)
  BY <1>0, <1>a, BarPc
<1>c. /\ UNCHANGED <<closure, caps>> => UNCHANGED <<closureBar, capsBar>>
      /\ UNCHANGED handles => UNCHANGED handlesBar
      /\ UNCHANGED cur => UNCHANGED curBar
      /\ UNCHANGED pc => UNCHANGED pcBar
  BY <1>0, BarClosure, BarThreads, BarPc
<1>1. CASE WaitFor(th)
  BY <1>0, <1>1, <1>a, <1>b, <1>c
     DEF WaitFor, B!WaitFor, taskVars, B!taskVars, queueVars, B!queueVars, B!Internal
<1>2. CASE DeactivateTask(th)
  <2>1. pc[th] = "deact" /\ B!TypeInv /\ B!ReferencesAlive /\ pcBar[th] = "deact"
    BY <1>0, <1>2, <1>a DEF DeactivateTask, Deactivate, B!TaskInv, B!PlaceInv, B!OwnerInv
  <2>2. tgt[th] \in Tasks
    BY <2>1 DEF B!TypeInv, B!TypeOK, B!ControlInv, B!Threads, Threads
  <2>3. ~AddsDep(tgt[th])
    BY <2>2, AddsDepRuns, KeptIsLive
  <2>4. capsBar[tgt[th]] = caps[tgt[th]]
    BY <2>2, <2>3 DEF capsBar
  <2>5. ASSUME status[tgt[th]] # "done"
        PROVE  /\ closureBar' = [closureBar EXCEPT ![tgt[th]] = "null"]
               /\ capsBar' = [capsBar EXCEPT ![tgt[th]] = {}]
               /\ junk' = [junk EXCEPT ![th] = @ \cup capsBar[tgt[th]]]
    <3>1. /\ closure' = [closure EXCEPT ![tgt[th]] = "null"]
          /\ caps' = [caps EXCEPT ![tgt[th]] = {}]
          /\ junk' = [junk EXCEPT ![th] = @ \cup caps[tgt[th]]]
      BY <1>2, <2>5 DEF DeactivateTask, Deactivate
    <3> QED BY <1>0, <2>2, <2>3, <2>4, <3>1, BarClosure DEF KindOf
  <2>6. flagsBar' = [flagsBar EXCEPT ![tgt[th]] = TRUE]
    BY DEF flagsBar
  <2>7. pcBar' = B!Step(th, "clean")
    BY <1>2, <1>b DEF DeactivateTask, Deactivate
  <2>8. B!DeactivateTask(th)
    BY <1>0, <1>2, <1>c, <2>1, <2>5, <2>6, <2>7
       DEF DeactivateTask, B!DeactivateTask, Deactivate, B!Deactivate, queueVars, B!queueVars
  <2> QED BY <2>8 DEF B!Internal
<1>3. CASE FreeDep(th)
  BY <1>0, <1>3, <1>a, <1>c DEF FreeDep, B!FreeDep, queueVars, B!queueVars, B!Internal
<1>4. CASE DropCaptured(th)
  <2>1. PICK x \in junk[th] :
          /\ junk' = [junk EXCEPT ![th] = @ \ {x}]
          /\ handles' = handles
          /\ DecRef(th, x, "clean")
    BY <1>4 DEF DropCaptured
  <2>2. B!DecRef(th, x, "clean")
    BY <1>a, <2>1, RefineDecRef
  <2>3. pcBar[th] = "clean"
    BY <1>0, <1>4, <1>a DEF DropCaptured
  <2>4. B!DropCaptured(th)
    BY <1>0, <1>4, <1>c, <2>1, <2>2, <2>3
       DEF DropCaptured, B!DropCaptured, taskVars, B!taskVars, queueVars, B!queueVars
  <2> QED BY <2>4 DEF B!Internal
<1>5. CASE EndDrop(th)
  <2>1. pcBar' = B!Step(th, "user") /\ pcBar[th] = "clean"
    BY <1>0, <1>5, <1>a, <1>b DEF EndDrop
  <2> QED BY <1>0, <1>5, <1>c, <2>1
          DEF EndDrop, B!EndDrop, taskVars, B!taskVars, queueVars, B!queueVars,
              threadVars, B!threadVars, B!Internal
<1>6. CASE SpuriousWakeup(th)
  <2>1. \/ pcBar[th] = "sleep" /\ pcBar' = B!Step(th, "loop")
        \/ pcBar[th] = "wait" /\ pcBar' = B!Step(th, "get")
    BY <1>0, <1>6, <1>a, <1>b DEF SpuriousWakeup
  <2> QED BY <1>0, <1>6, <1>c, <2>1
          DEF SpuriousWakeup, B!SpuriousWakeup, taskVars, B!taskVars, queueVars, B!queueVars,
              threadVars, B!threadVars
<1> QED BY <1>1, <1>2, <1>3, <1>4, <1>5, <1>6 DEF Internal

LEMMA RefineReadSource ==
    ASSUME BindInv, BindsStay, NEW w \in Workers, NEW p \in {"map", "bind1", "bind2"}, ReadSource(w, p)
    PROVE  B!TaskMapFn(w)
<1>0. /\ BindTypes /\ w \in Threads /\ pc[w] \in {"map", "bind1", "bind2"}
      /\ pcBar[w] = "map" /\ handlesBar[w] = handles[w]
  BY DEF ReadSource, BindInv, handlesBar, pcBar, PcOf, Threads
<1>1. PICK x \in handles[w] :
        /\ handles' = [handles EXCEPT ![w] = @ \ {x}]
        /\ junk' = junk
        /\ DecRef(w, x, "user")
  BY DEF ReadSource
<1>2. UNCHANGED <<closureBar, capsBar, curBar, flagsBar>>
  BY <1>0, BarClosure, BarThreads DEF ReadSource, taskVars, flagsBar
<1>3. handlesBar' = [handlesBar EXCEPT ![w] = handlesBar[w] \ {x}]
  BY <1>0, <1>1, BarThreads
<1>4. B!DecRef(w, x, "user")
  BY <1>0, <1>1, RefineDecRef DEF PcOf
<1> QED BY <1>0, <1>1, <1>2, <1>3, <1>4
        DEF ReadSource, B!TaskMapFn, B!ReadSource, taskVars, B!taskVars, queueVars, B!queueVars

LEMMA RefineDequeue == Dequeue => B!Dequeue
BY DEF Dequeue, B!Dequeue, LowerPrio, B!LowerPrio

LEMMA RefineStart ==
    ASSUME B!TaskInv, BindInv, BindsStay, NEW w \in Workers, WorkerStart(w)
    PROVE  B!WorkerStart(w)
<1> DEFINE h == Head(queues[maxPrio])
<1>0. /\ BindTypes /\ w \in Threads /\ pc[w] = "loop" /\ pcBar[w] = "loop" /\ B!CanDequeue(w)
  BY DEF WorkerStart, CanDequeue, B!CanDequeue, MutexFree, B!MutexFree, BindInv, pcBar, PcOf, Threads
<1>1. h \in Tasks /\ ~AddsDep(h)
  BY HeadWaits DEF WorkerStart, CanDequeue
<1>2. /\ ~deleted[h] /\ Dequeue
      /\ cur' = [cur EXCEPT ![w] = h]
      /\ closure' = [closure EXCEPT ![h] = "null"]
      /\ caps' = [caps EXCEPT ![h] = {}]
      /\ handles' = [handles EXCEPT ![w] = caps[h]]
      /\ pc' = Step(w, BodyPc(closure[h]))
  BY DEF WorkerStart
<1> HIDE DEF h
<1>3. closureBar[h] = KindOf(closure[h]) /\ capsBar[h] = caps[h]
  BY <1>1 DEF closureBar, capsBar
<1>4. PcOf(BodyPc(closure[h])) = B!BodyPc(closureBar[h])
  BY <1>0, <1>1, <1>3 DEF BindTypes, Kinds, KindOf, PcOf, BodyPc, B!BodyPc
<1>5. pcBar' = B!Step(w, B!BodyPc(closureBar[h]))
  BY <1>0, <1>2, <1>4, BarPc
<1>6. closureBar' = [closureBar EXCEPT ![h] = "null"] /\ capsBar' = [capsBar EXCEPT ![h] = {}]
  BY <1>0, <1>1, <1>2, BarClosure DEF KindOf
<1>7. curBar' = [curBar EXCEPT ![w] = h] /\ handlesBar' = [handlesBar EXCEPT ![w] = capsBar[h]]
  BY <1>0, <1>2, <1>3, BarThreads
<1>8. UNCHANGED flagsBar
  BY DEF flagsBar
<1> QED BY <1>0, <1>2, <1>5, <1>6, <1>7, <1>8, RefineDequeue DEF WorkerStart, B!WorkerStart, h

LEMMA RefineWork ==
    ASSUME B!TaskInv, BindInv, BindsStay, NEW w \in Workers, Work(w)
    PROVE  B!Work(w)
<1>0. /\ BindTypes /\ w \in Threads /\ UNCHANGED flagsBar /\ (MutexFree <=> B!MutexFree)
      /\ PcOf(pc[w]) = pcBar[w]
  BY DEF BindInv, MutexFree, B!MutexFree, flagsBar, pcBar, Threads
<1>a. \A p \in {"user", "relock", "finish", "exit", "sleep", "loop"} : PcOf(p) = p
  BY DEF PcOf
<1>b. \A p \in {"user", "relock", "finish", "exit", "sleep", "loop"} :
         pc' = Step(w, p) => pcBar' = B!Step(w, p)
  BY <1>0, <1>a, BarPc
<1>c. /\ UNCHANGED <<closure, caps>> => UNCHANGED <<closureBar, capsBar>>
      /\ UNCHANGED handles => UNCHANGED handlesBar
      /\ UNCHANGED cur => UNCHANGED curBar
      /\ UNCHANGED pc => UNCHANGED pcBar
  BY <1>0, BarClosure, BarThreads, BarPc
<1>d. pc[w] \in {"relock", "finish"} =>
        /\ curBar[w] = cur[w]
        /\ cur' = [cur EXCEPT ![w] = NoTask] => curBar' = [curBar EXCEPT ![w] = NoTask]
  BY <1>0, BarThreads DEF curBar
<1>e. pc[w] = "user" => handlesBar[w] = handles[w]
  BY <1>0 DEF handlesBar
<1>1. CASE WorkerExit(w) \/ WorkerSleep(w)
  <2>1. /\ \/ WorkerExit(w) /\ pcBar' = B!Step(w, "exit")
           \/ WorkerSleep(w) /\ pcBar' = B!Step(w, "sleep")
        /\ pcBar[w] = "loop"
    BY <1>0, <1>1, <1>a, <1>b DEF WorkerExit, WorkerSleep
  <2> QED BY <1>0, <1>c, <2>1
          DEF WorkerExit, B!WorkerExit, WorkerSleep, B!WorkerSleep, taskVars, B!taskVars,
              queueVars, B!queueVars, threadVars, B!threadVars, B!Work
<1>2. CASE WorkerDiscard(w)
  <2>1. B!CanDequeue(w) /\ B!Dequeue
    BY <1>0, <1>2, <1>a, RefineDequeue DEF WorkerDiscard, CanDequeue, B!CanDequeue
  <2> QED BY <1>0, <1>2, <1>c, <2>1
          DEF WorkerDiscard, B!WorkerDiscard, threadVars, B!threadVars, B!Work
<1>3. CASE WorkerStart(w)
  BY <1>3, RefineStart DEF B!Work
<1>4. CASE TaskMapFn(w)
  BY <1>4, RefineReadSource DEF TaskMapFn, B!Work
<1>5. CASE Return(w)
  <2>1. pcBar' = B!Step(w, "relock") /\ pcBar[w] = "user" /\ handlesBar[w] = {}
    BY <1>0, <1>5, <1>a, <1>b, <1>e DEF Return
  <2> QED BY <1>0, <1>5, <1>c, <2>1
          DEF Return, B!Return, taskVars, B!taskVars, queueVars, B!queueVars,
              threadVars, B!threadVars, B!Work
<1>6. CASE RelockDeleted(w)
  <2>1. /\ pcBar' = B!Step(w, "loop") /\ pcBar[w] = "relock" /\ curBar[w] = cur[w]
        /\ curBar' = [curBar EXCEPT ![w] = NoTask]
    BY <1>0, <1>6, <1>a, <1>b, <1>d DEF RelockDeleted
  <2> QED BY <1>0, <1>6, <1>c, <2>1
          DEF RelockDeleted, B!RelockDeleted, queueVars, B!queueVars, B!Work
<1>7. CASE RelockFinish(w)
  <2>1. pcBar' = B!Step(w, "finish") /\ pcBar[w] = "relock" /\ curBar[w] = cur[w]
    BY <1>0, <1>7, <1>a, <1>b, <1>d DEF RelockFinish, EnterFinish
  <2> QED BY <1>0, <1>7, <1>c, <2>1
          DEF RelockFinish, B!RelockFinish, EnterFinish, B!EnterFinish, queueVars, B!queueVars, B!Work
<1>8. CASE HandleFinished(w)
  <2>1. pcBar[w] = "finish" /\ \A i : flagsBar' = [flagsBar EXCEPT ![Head(walk[w])] = @ \/ i]
    BY <1>0, <1>8, <1>a DEF HandleFinished, FinishDep, flagsBar
  <2>2. pc' \in SpawnOrNotify(pc) => pcBar' \in B!SpawnOrNotify(pcBar)
    BY <1>0, BarPc
  <2>3. EnqueueCore(Head(walk[w]), prio[Head(walk[w])], pc) =>
           B!EnqueueCore(Head(walk[w]), prio[Head(walk[w])], pcBar)
    BY <2>2, RefineEnqueue
  <2> QED BY <1>0, <1>8, <1>c, <2>1, <2>3
          DEF HandleFinished, B!HandleFinished, FinishDep, B!FinishDep, queueVars, B!queueVars, B!Work
<1>9. CASE Finish(w)
  <2>1. /\ pcBar[w] = "finish" /\ curBar[w] = cur[w]
        /\ curBar' = [curBar EXCEPT ![w] = NoTask]
    BY <1>0, <1>9, <1>a, <1>d DEF Finish, Publish
  <2>2. B!Waiters = Waiters
    BY DEF Waiters, B!Waiters, B!Threads, Threads, pcBar, PcOf
  <2>3. pcBar' = [th \in Threads |-> IF th = w THEN "loop" ELSE IF th \in Waiters THEN "get"
                                     ELSE pcBar[th]]
    BY <1>9 DEF Finish, Publish, pcBar, PcOf
  <2> QED BY <1>0, <1>9, <1>c, <2>1, <2>2, <2>3
          DEF Finish, B!Finish, Publish, B!Publish, queueVars, B!queueVars, B!Threads, Threads, B!Work
<1> QED BY <1>1, <1>2, <1>3, <1>4, <1>5, <1>6, <1>7, <1>8, <1>9 DEF Work

LEMMA RefineDestroy ==
    ASSUME BindInv, BindsStay, NEW c \in Clients, Shutdown(c) \/ Join(c)
    PROVE  B!Shutdown(c) \/ B!Join(c)
<1>0. /\ BindTypes /\ c \in Threads /\ (MutexFree <=> B!MutexFree)
      /\ \A th \in Threads : pcBar[th] = PcOf(pc[th])
  BY DEF BindInv, MutexFree, B!MutexFree, pcBar, Threads
<1>c. /\ UNCHANGED <<closure, caps>> => UNCHANGED <<closureBar, capsBar>>
      /\ UNCHANGED handles => UNCHANGED handlesBar
      /\ UNCHANGED cur => UNCHANGED curBar
  BY <1>0, BarClosure, BarThreads
<1>1. CASE Shutdown(c)
  <2>1. flagsBar' = [t \in Tasks |-> flagsBar[t] \/ \E w \in Workers : curBar[w] = t]
    BY DEF flagsBar
  <2>2. {w \in Workers : pc[w] = "sleep"} = {w \in Workers : pcBar[w] = "sleep"}
    BY <1>0 DEF PcOf, Threads
  <2>3. pcBar' = [th \in Threads |-> IF th = c THEN "join"
                                     ELSE IF th \in {w \in Workers : pc[w] = "sleep"} THEN "loop"
                                     ELSE pcBar[th]]
    BY <1>1 DEF Shutdown, Destroy, pcBar, PcOf
  <2>4. \A d \in Clients : pcBar[d] = "user" /\ handlesBar[d] = {}
    BY <1>0, <1>1 DEF Shutdown, Destroy, PcOf, handlesBar, Threads
  <2>5. B!Shutdown(c)
    BY <1>0, <1>1, <1>c, <2>1, <2>2, <2>3, <2>4
       DEF Shutdown, B!Shutdown, Destroy, B!Destroy, queueVars, B!queueVars, threadVars,
           B!threadVars, B!Threads, Threads
  <2> QED BY <2>5
<1>2. CASE Join(c)
  <2>1. pcBar[c] = "join" /\ B!Joined
    BY <1>0, <1>2 DEF Join, Joined, B!Joined, PcOf, Threads
  <2>2. pcBar' = B!Step(c, "end")
    BY <1>0, <1>2, BarPc DEF Join, PcOf
  <2>3. UNCHANGED flagsBar
    BY DEF flagsBar
  <2> QED BY <1>0, <1>2, <1>c, <2>1, <2>2, <2>3 DEF Join, B!Join, threadVars, B!threadVars
<1> QED BY <1>1, <1>2

LEMMA RefineOld ==
    ASSUME B!TaskInv, BindInv, NEW th \in Threads, OldStep(th), UNCHANGED bindVars
    PROVE  B!Next
<1>1. BindsStay
  BY OldStepsStay
<1>2. CASE Call(th) \/ DropSome(th) \/ Internal(th) \/ SpuriousWakeup(th)
  BY <1>1, <1>2, RefineCall, RefineDrop, RefineInternal DEF B!Next, B!Threads, Threads
<1>3. CASE th \in Workers /\ Work(th)
  BY <1>1, <1>3, RefineWork DEF B!Next
<1>4. CASE th \in Clients /\ (Shutdown(th) \/ Join(th))
  BY <1>1, <1>4, RefineDestroy DEF B!Next
<1> QED BY <1>2, <1>3, <1>4 DEF OldStep

----------------------------------------------------------------------------
(* The steps of task_bind.                                                 *)

(* task_bind itself and the read of its source are those of task_map.      *)
LEMMA BindCallStays ==
    ASSUME BindInv, NEW th \in Threads, NEW x, NEW t, NEW pr, TaskBindCall(th, x, t, pr)
    PROVE  BindsStay
<1>1. /\ BindTypes /\ DOMAIN pc = Threads /\ UNCHANGED <<bindTo, cur>> /\ pc[th] = "user"
      /\ \A u \in Threads : u # th => handles'[u] = handles[u]
      /\ pc' = pc \/ pc' \in SpawnOrNotify(pc)
  BY DEF BindInv, BindTypes, TaskBindCall, NewDependent, Alloc, EnqueueCore, CanCall
<1> QED BY <1>1, SpawnMoves DEF BindsStay, Between

LEMMA RefineBindCall ==
    ASSUME B!TaskInv, BindInv, NEW th \in Threads, NEW x \in handles[th], NEW t \in Tasks, NEW pr \in Prios,
           TaskBindCall(th, x, t, pr)
    PROVE  B!Next
<1>1. BindsStay
  BY BindCallStays
<1>2. NewDependent(th, x, t, "bind1", pr, status[x] = "done") /\ pc[th] = "user"
  BY DEF TaskBindCall, NewDependent, CanCall
<1>3. B!NewDependent(th, x, t, "map", pr, status[x] = "done") /\ handlesBar[th] = handles[th]
  BY <1>1, <1>2, RefineNewDependent DEF KindOf, handlesBar
<1> QED BY <1>3 DEF B!Next, B!Call, B!TaskMap, B!Threads, Threads

LEMMA BindReadStays ==
    ASSUME BindInv, NEW w \in Workers, TaskBindRead(w)
    PROVE  BindsStay
<1>1. /\ BindTypes /\ UNCHANGED <<bindTo, cur>> /\ pc[w] \in {"bind1", "bind2"}
      /\ \A u \in Threads : u # w => handles'[u] = handles[u]
      /\ pc' = [pc EXCEPT ![w] = "user"] \/ pc' = [pc EXCEPT ![w] = "deact"]
  BY DEF BindInv, BindTypes, TaskBindRead, ReadSource, DecRef, Step, bindVars, Threads
<1> QED BY <1>1 DEF BindsStay, Between, BindTypes, Threads

LEMMA RefineBindRead ==
    ASSUME BindInv, NEW w \in Workers, TaskBindRead(w)
    PROVE  B!Next
BY BindReadStays, RefineReadSource DEF TaskBindRead, B!Next, B!Work

(* A body that runs has taken its closure.                                 *)
LEMMA BodyHasClosure ==
    ASSUME B!TaskInv, BindInv, NEW w \in Workers, pc[w] = "user"
    PROVE  /\ cur[w] \in Tasks /\ ~AddsDep(cur[w])
           /\ closure[cur[w]] = "null" /\ caps[cur[w]] = {}
<1>0. BindTypes /\ w \in Threads /\ B!ControlInv /\ B!ClosureInv
  BY DEF BindInv, B!TaskInv, B!PlaceInv, B!TypeInv, B!OwnerInv, Threads
<1>1. pcBar[w] = "user" /\ curBar[w] = cur[w]
  BY <1>0 DEF pcBar, PcOf, curBar
<1>2. cur[w] \in Tasks
  BY <1>0, <1>1 DEF B!ControlInv, B!RunningPcs, BindTypes
<1>3. ~AddsDep(cur[w])
  BY <1>2, RunsAlone DEF AddsDep
<1>4. closureBar[cur[w]] = "null" /\ capsBar[cur[w]] = {}
  BY <1>0, <1>1, <1>2 DEF B!ClosureInv, B!IsRun
<1> QED BY <1>2, <1>3, <1>4 DEF closureBar, capsBar, KindOf

(* task_bind_fn1 has handed y to the new closure, but not yet the task.    *)
LEMMA RefineFn1 ==
    ASSUME B!TaskInv, BindInv, NEW w \in Workers, TaskBindFn1(w)
    PROVE  UNCHANGED B!vars
<1>0. BindTypes /\ w \in Threads /\ pc[w] = "user"
  BY DEF BindInv, TaskBindFn1, Threads
<1>1. /\ cur[w] \in Tasks /\ ~AddsDep(cur[w])
      /\ closure[cur[w]] = "null" /\ caps[cur[w]] = {}
  BY <1>0, BodyHasClosure
<1>2. PICK y \in handles[w] :
        /\ handles[w] = {y}
        /\ closure' = [closure EXCEPT ![cur[w]] = "bind2"]
        /\ caps' = [caps EXCEPT ![cur[w]] = {y}]
        /\ bindTo' = [bindTo EXCEPT ![w] = y]
  BY DEF TaskBindFn1
<1>3. /\ handles' = [handles EXCEPT ![w] = {}] /\ pc' = [pc EXCEPT ![w] = "addDep"]
      /\ UNCHANGED <<status, deps, prio, deleted, queueVars, shuttingDown, mutex, cur, want, tgt,
                     walk, junk>>
  BY DEF TaskBindFn1, Step
<1>4. \A t : AddsDep(t)' <=> AddsDep(t) \/ t = cur[w]
  BY <1>0, <1>3 DEF AddsDep, BindTypes, Threads
<1>5. UNCHANGED pcBar
  BY <1>0, <1>3 DEF pcBar, PcOf, BindTypes
<1>6. UNCHANGED <<closureBar, capsBar>>
  <2>1. \A t \in Tasks : /\ (IF AddsDep(t)' THEN "null" ELSE KindOf(closure'[t])) =
                            (IF AddsDep(t) THEN "null" ELSE KindOf(closure[t]))
                         /\ (IF AddsDep(t)' THEN {} ELSE caps'[t]) =
                            (IF AddsDep(t) THEN {} ELSE caps[t])
    BY <1>0, <1>1, <1>2, <1>4 DEF BindTypes, KindOf
  <2> QED BY <2>1 DEF closureBar, capsBar
<1>7. UNCHANGED handlesBar
  <2>1. \A th \in Threads : (IF pc'[th] = "addDep" THEN {bindTo'[th]} ELSE handles'[th]) =
                            (IF pc[th] = "addDep" THEN {bindTo[th]} ELSE handles[th])
    BY <1>0, <1>2, <1>3 DEF BindTypes, BindInv, RunInv
  <2> QED BY <2>1 DEF handlesBar
<1>8. UNCHANGED <<curBar, flagsBar>>
  BY <1>0, <1>3 DEF curBar, flagsBar, BindTypes
<1> QED BY <1>3, <1>5, <1>6, <1>7, <1>8
        DEF B!vars, B!taskVars, B!queueVars, B!threadVars, queueVars

(* add_dep makes the task wait again.                                      *)
LEMMA RefineAddDep ==
    ASSUME B!TaskInv, BindInv, NEW w \in Workers, TaskBindAddDep(w)
    PROVE  B!Rebind(w)
<1> DEFINE t == cur[w]
           y == bindTo[w]
<1>0. /\ BindTypes /\ w \in Threads /\ pc[w] = "addDep"
      /\ bindTo' = [bindTo EXCEPT ![w] = NoTask]
      /\ UNCHANGED <<status, closure, caps, prio, deleted, shuttingDown, mutex, cur,
                     handles, want, tgt, walk, junk>>
  BY DEF BindInv, TaskBindAddDep, Threads
<1>1. /\ t \in Tasks /\ y \in Tasks /\ handles[w] = {} /\ ~deleted[t]
      /\ closure[t] = "bind2" /\ caps[t] = {y}
  BY <1>0 DEF BindInv, RunInv, PhaseInv
<1>2. \A u \in Workers : u # w /\ pc[u] = "addDep" => cur[u] # t
  BY <1>0, <1>1, RunsAlone
<1>3. \A u \in Threads : (pc'[u] = "addDep" <=> u # w /\ pc[u] = "addDep")
                         /\ (pc'[u] = "relockNil" <=> u = w \/ pc[u] = "relockNil")
  <2>1. /\ DOMAIN Step(w, "relockNil") = Threads
        /\ pc' \in SpawnOrNotify(Step(w, "relockNil")) \/ pc' = Step(w, "relockNil")
    BY <1>0 DEF BindTypes, Step, TaskBindAddDep, EnqueueCore
  <2>2. \A u \in Threads : \/ pc'[u] = Step(w, "relockNil")[u]
                           \/ /\ Step(w, "relockNil")[u] \in {"absent", "sleep"}
                              /\ pc'[u] = "loop"
    BY <2>1, SpawnMoves
  <2> QED BY <1>0, <2>2 DEF Step, BindTypes
<1>4. \A u \in Tasks : AddsDep(u)' <=> AddsDep(u) /\ u # t
  BY <1>0, <1>2, <1>3 DEF AddsDep, Threads
<1>5. capsBar' = [capsBar EXCEPT ![t] = {y}] /\ closureBar' = [closureBar EXCEPT ![t] = "map"]
  BY <1>0, <1>1, <1>4 DEF capsBar, closureBar, KindOf
<1>6. handlesBar' = [handlesBar EXCEPT ![w] = {}]
  BY <1>0, <1>1, <1>3 DEF handlesBar, BindTypes, BindInv, RunInv
<1>7. curBar' = [curBar EXCEPT ![w] = NoTask] /\ curBar[w] = t
  BY <1>0, <1>3 DEF curBar
<1>8. handlesBar[w] = {y} /\ pcBar[w] = "user" /\ B!MutexFree /\ UNCHANGED flagsBar
  BY <1>0 DEF handlesBar, pcBar, PcOf, TaskBindAddDep, MutexFree, B!MutexFree, flagsBar
<1>9. \/ status[y] = "done" /\ B!EnqueueCore(t, prio[t], B!Step(w, "loop")) /\ deps' = deps
      \/ /\ status[y] # "done" /\ deps' = [deps EXCEPT ![y] = <<t>> \o @]
         /\ pcBar' = B!Step(w, "loop") /\ UNCHANGED B!queueVars
  <2>1. PcOf("relockNil") = "loop"
    BY DEF PcOf
  <2>2. /\ pc' \in SpawnOrNotify(Step(w, "relockNil")) => pcBar' \in B!SpawnOrNotify(B!Step(w, "loop"))
        /\ pc' = Step(w, "relockNil") => pcBar' = B!Step(w, "loop")
    BY <1>0, <2>1, BarPc
  <2>3. CASE status[y] = "done" /\ EnqueueCore(t, prio[t], Step(w, "relockNil")) /\ deps' = deps
    BY <2>2, <2>3, RefineEnqueue
  <2>4. CASE /\ status[y] # "done" /\ deps' = [deps EXCEPT ![y] = <<t>> \o @]
             /\ pc' = Step(w, "relockNil") /\ UNCHANGED queueVars
    BY <2>2, <2>4 DEF queueVars, B!queueVars
  <2> QED BY <2>3, <2>4 DEF TaskBindAddDep
<1> HIDE DEF t, y
<1> QED BY <1>0, <1>1, <1>5, <1>6, <1>7, <1>8, <1>9 DEF B!Rebind

(* The worker leaves the task a second time, and finds nothing to do.      *)
LEMMA RefineRelockNil ==
    ASSUME BindInv, NEW w \in Workers, RelockNil(w)
    PROVE  UNCHANGED B!vars /\ status' = status
<1>0. /\ BindTypes /\ w \in Threads /\ pc[w] = "relockNil" /\ ~deleted[cur[w]]
      /\ pc' = [pc EXCEPT ![w] = "loop"] /\ cur' = [cur EXCEPT ![w] = NoTask]
  BY DEF BindInv, RunInv, PhaseInv, RelockNil, Step, Threads
<1>1. UNCHANGED <<status, closure, caps, deps, prio, deleted, queueVars, shuttingDown, mutex, handles,
                  want, tgt, walk, junk, bindTo>>
  BY <1>0 DEF RelockNil, bindVars
<1>2. \A t : AddsDep(t)' <=> AddsDep(t)
  BY <1>0 DEF AddsDep, BindTypes, Threads
<1>3. UNCHANGED pcBar /\ UNCHANGED curBar
  BY <1>0 DEF pcBar, PcOf, curBar, BindTypes
<1>4. UNCHANGED handlesBar
  BY <1>0, <1>1 DEF handlesBar, BindTypes
<1>5. UNCHANGED <<closureBar, capsBar, flagsBar>>
  BY <1>1, <1>2 DEF closureBar, capsBar, flagsBar
<1> QED BY <1>1, <1>3, <1>4, <1>5 DEF B!vars, B!taskVars, B!queueVars, B!threadVars, queueVars

----------------------------------------------------------------------------
(* BindInv is kept: first, by the steps of TaskManager.                    *)

LEMMA DeactivatedIsNoBind ==
    ASSUME B!TaskInv, BindInv, NEW th \in Threads, pc[th] = "deact", status[tgt[th]] # "done"
    PROVE  tgt[th] \in Tasks /\ phase[tgt[th]] = "none" /\ ~AddsDep(tgt[th])
<1>1. B!TypeInv /\ B!ReferencesAlive /\ pcBar[th] = "deact"
  BY DEF B!TaskInv, B!PlaceInv, B!OwnerInv, pcBar, PcOf
<1>2. tgt[th] \in Tasks /\ tgt[th] # NoTask
  BY <1>1, TasksAssumption DEF B!TypeInv, B!TypeOK, B!ControlInv, B!Threads, Threads
<1>3. status[tgt[th]] = "active"
  BY <1>1, <1>2 DEF B!ReferencesAlive, B!Alive, B!Threads, Threads
<1>4. phase[tgt[th]] = "none"
  BY <1>2, <1>3, KeptIsLive
<1> QED BY <1>2, <1>4, AddsDepRuns

(* What a step of TaskManager does to the tasks.                           *)
LEMMA OldTasks ==
    ASSUME B!TaskInv, BindInv, NEW th \in Threads, OldStep(th), UNCHANGED bindVars
    PROVE  /\ closure' \in [Tasks -> Kinds \cup {"bind1", "bind2"}] /\ caps' \in [Tasks -> SUBSET Tasks]
           /\ \A t \in Tasks : phase[t] = "none" => closure'[t] \in {"null", "fn", "map"}
           /\ \A t \in Tasks : phase[t] # "none" =>
                /\ deleted'[t] = deleted[t] /\ status'[t] # "none"
                /\ status'[t] = "active" => status[t] = "active"
                /\ \/ closure'[t] = closure[t] /\ caps'[t] = caps[t]
                   \/ closure'[t] = "null" /\ ~AddsDep(t) /\ WorkerStart(th)
<1>0. BindTypes /\ PhaseInv
  BY DEF BindInv
<1>a. /\ status \in [Tasks -> {"none", "active", "done", "freed"}]
      /\ deleted \in [Tasks -> BOOLEAN] /\ walk \in [Threads -> Seq(Tasks)]
  BY PlainTypes
<1>1. CASE Call(th)
  <2>1. \A t \in Tasks : /\ phase[t] # "none" => status[t] # "none"
                         /\ phase[t] = "none" => closure[t] \in {"null", "fn", "map"}
    BY <1>0 DEF PhaseInv
  <2>2. ASSUME NEW u \in Tasks, NEW C \in SUBSET handles[th], NEW pr, MkTask(th, u, C, pr)
        PROVE  /\ closure' = [closure EXCEPT ![u] = "fn"] /\ caps' = [caps EXCEPT ![u] = C]
               /\ C \in SUBSET Tasks
               /\ status' = [status EXCEPT ![u] = "active"] /\ deleted' = deleted /\ status[u] = "none"
    BY <1>0, <2>2 DEF MkTask, Alloc, BindTypes
  <2>3. ASSUME NEW x \in handles[th], NEW u \in Tasks, NEW pr, TaskMap(th, x, u, pr)
        PROVE  /\ closure' = [closure EXCEPT ![u] = "map"] /\ caps' = [caps EXCEPT ![u] = {x}]
               /\ {x} \in SUBSET Tasks
               /\ status' = [status EXCEPT ![u] = "active"] /\ deleted' = deleted /\ status[u] = "none"
    BY <1>0, <2>3 DEF TaskMap, NewDependent, Alloc, BindTypes
  <2>4. \/ \E u \in Tasks, k \in {"fn", "map"}, C \in SUBSET Tasks :
             /\ closure' = [closure EXCEPT ![u] = k] /\ caps' = [caps EXCEPT ![u] = C]
             /\ status' = [status EXCEPT ![u] = "active"] /\ deleted' = deleted /\ status[u] = "none"
        \/ \E u \in Tasks : /\ UNCHANGED <<closure, caps, deleted>> /\ status[u] = "none"
                            /\ status' = [status EXCEPT ![u] = "done"]
        \/ UNCHANGED <<status, closure, caps, deleted>>
    BY <1>1, <2>2, <2>3 DEF Call, TaskPure, TaskGet, RequestInterrupt, taskVars
  <2>5. CASE \E u \in Tasks, k \in {"fn", "map"}, C \in SUBSET Tasks :
             /\ closure' = [closure EXCEPT ![u] = k] /\ caps' = [caps EXCEPT ![u] = C]
             /\ status' = [status EXCEPT ![u] = "active"] /\ deleted' = deleted /\ status[u] = "none"
    <3>1. PICK u \in Tasks, k \in {"fn", "map"}, C \in SUBSET Tasks :
             /\ closure' = [closure EXCEPT ![u] = k] /\ caps' = [caps EXCEPT ![u] = C]
             /\ status' = [status EXCEPT ![u] = "active"] /\ deleted' = deleted /\ status[u] = "none"
      BY <2>5
    <3> QED BY <1>0, <1>a, <2>1, <3>1 DEF BindTypes, Kinds
  <2>6. CASE \E u \in Tasks : /\ UNCHANGED <<closure, caps, deleted>> /\ status[u] = "none"
                              /\ status' = [status EXCEPT ![u] = "done"]
    BY <1>0, <1>a, <2>1, <2>6 DEF BindTypes
  <2>7. CASE UNCHANGED <<status, closure, caps, deleted>>
    BY <1>0, <2>1, <2>7 DEF BindTypes
  <2> QED BY <2>4, <2>5, <2>6, <2>7
<1>2. CASE DeactivateTask(th)
  <2>1. CASE status[tgt[th]] = "done"
    BY <1>0, <1>2, <1>a, <2>1 DEF DeactivateTask, Deactivate, BindTypes, PhaseInv
  <2>2. CASE status[tgt[th]] # "done"
    <3>1. tgt[th] \in Tasks /\ phase[tgt[th]] = "none"
      BY <1>2, <2>2, DeactivatedIsNoBind DEF DeactivateTask, Deactivate
    <3>2. /\ closure' = [closure EXCEPT ![tgt[th]] = "null"]
          /\ caps' = [caps EXCEPT ![tgt[th]] = {}]
          /\ deleted' = [deleted EXCEPT ![tgt[th]] = TRUE]
          /\ status' = status
      BY <1>2, <2>2 DEF DeactivateTask, Deactivate
    <3> QED BY <1>0, <1>a, <3>1, <3>2 DEF BindTypes, PhaseInv, Kinds
  <2> QED BY <2>1, <2>2
<1>3. CASE FreeDep(th)
  BY <1>0, <1>3, <1>a DEF FreeDep, BindTypes, PhaseInv
<1>4. CASE th \in Workers /\ WorkerStart(th)
  <2>1. Head(queues[maxPrio]) \in Tasks /\ ~AddsDep(Head(queues[maxPrio]))
    BY <1>4, HeadWaits DEF WorkerStart, CanDequeue
  <2> QED BY <1>0, <1>4, <1>a, <2>1 DEF WorkerStart, BindTypes, PhaseInv, Kinds
<1>5. CASE th \in Workers /\ (WorkerDiscard(th) \/ RelockDeleted(th) \/ HandleFinished(th) \/ Finish(th))
  <2>1. /\ UNCHANGED <<closure, caps, deleted>>
        /\ status' = status \/ \E u : status' = [status EXCEPT ![u] = "freed"]
                            \/ status' = [status EXCEPT ![u] = "done"]
    BY <1>5 DEF WorkerDiscard, RelockDeleted, HandleFinished, FinishDep, Finish, Publish
  <2> QED BY <1>0, <1>a, <2>1 DEF BindTypes, PhaseInv
<1>6. CASE th \in Clients /\ Join(th)
  BY <1>0, <1>6, <1>a DEF Join, BindTypes, PhaseInv
<1>7. CASE \/ DropSome(th) \/ WaitFor(th) \/ DropCaptured(th) \/ EndDrop(th) \/ SpuriousWakeup(th)
           \/ WorkerExit(th) \/ WorkerSleep(th) \/ TaskMapFn(th) \/ Return(th) \/ RelockFinish(th)
           \/ Shutdown(th)
  <2>1. UNCHANGED <<status, closure, caps, deleted>>
    BY <1>7 DEF DropSome, Drop, WaitFor, DropCaptured, EndDrop, SpuriousWakeup, WorkerExit, WorkerSleep,
                TaskMapFn, ReadSource, Return, RelockFinish, EnterFinish, Shutdown, Destroy, taskVars
  <2> QED BY <1>0, <2>1 DEF BindTypes, PhaseInv
<1> QED BY <1>1, <1>2, <1>3, <1>4, <1>5, <1>6, <1>7 DEF OldStep, Internal, Work

(* What it does to the threads.                                            *)
LEMMA OldThreads ==
    ASSUME B!TaskInv, BindInv, NEW th \in Threads, OldStep(th), UNCHANGED bindVars
    PROVE  /\ pc' \in [Threads -> BindPcs] /\ handles' \in [Threads -> SUBSET Tasks]
           /\ cur' \in [Threads -> Tasks \cup {NoTask}]
           /\ \A u \in Threads : pc'[u] \in {"bind1", "bind2"} =>
                \/ pc'[u] = pc[u] /\ cur'[u] = cur[u]
                \/ /\ u \in Workers /\ cur'[u] \in Tasks /\ closure[cur'[u]] = pc'[u]
<1>0. BindTypes /\ DOMAIN pc = Threads
  BY DEF BindInv, BindTypes
<1>1. CASE Call(th)
  <2>0. cur' = cur /\ (handles' = handles \/ \E t \in Tasks : handles' = [handles EXCEPT ![th] = @ \cup {t}])
    BY <1>1 DEF Call, MkTask, TaskPure, TaskMap, NewDependent, Alloc, TaskGet,
                RequestInterrupt, threadVars
  <2>1. cur' = cur /\ handles' \in [Threads -> SUBSET Tasks]
    BY <1>0, <2>0 DEF BindTypes
  <2>2. pc' = pc \/ pc' \in SpawnOrNotify(pc) \/ pc' = [pc EXCEPT ![th] = "get"]
    BY <1>1 DEF Call, MkTask, TaskPure, TaskMap, NewDependent, TaskGet, EnqueueCore,
                RequestInterrupt, Step
  <2>3. pc' \in [Threads -> BindPcs] /\ \A u \in Threads : pc'[u] = pc[u] \/ pc'[u] \in {"loop", "get"}
    <3>1. CASE pc' \in SpawnOrNotify(pc)
      BY <1>0, <3>1 DEF BindTypes, BindPcs, Pcs, WorkerPcs, SpawnOrNotify, Threads
    <3>2. CASE pc' = pc \/ pc' = [pc EXCEPT ![th] = "get"]
      BY <1>0, <3>2 DEF BindTypes, BindPcs, Pcs, WorkerPcs
    <3> QED BY <2>2, <3>1, <3>2
  <2> QED BY <1>0, <2>1, <2>3 DEF BindTypes
<1>2. CASE DropSome(th) \/ Internal(th) \/ SpuriousWakeup(th)
  <2>1. cur' = cur /\ handles' \in [Threads -> SUBSET Tasks]
    BY <1>0, <1>2 DEF DropSome, Drop, Internal, WaitFor, DeactivateTask, Deactivate, FreeDep,
                      DropCaptured, EndDrop, SpuriousWakeup, threadVars, BindTypes
  <2>2. pc' = pc \/ \E p \in {"user", "get", "wait", "deact", "clean", "loop"} : pc' = [pc EXCEPT ![th] = p]
    BY <1>2 DEF DropSome, Drop, DecRef, Internal, WaitFor, DeactivateTask, Deactivate, FreeDep,
                DropCaptured, EndDrop, SpuriousWakeup, Step
  <2> QED BY <1>0, <2>1, <2>2 DEF BindTypes, BindPcs, Pcs, ClientPcs, WorkerPcs
<1>3. CASE th \in Workers /\ Work(th)
  <2>1. CASE WorkerStart(th)
    <3>1. Head(queues[maxPrio]) \in Tasks
      BY <2>1, HeadWaits DEF WorkerStart, CanDequeue
    <3>2. BodyPc(closure[Head(queues[maxPrio])]) \in {"user", "map", "bind1", "bind2"}
      BY <1>0, <3>1 DEF BindTypes, BodyPc, Kinds
    <3>3. BodyPc(closure[Head(queues[maxPrio])]) \in {"bind1", "bind2"} =>
             BodyPc(closure[Head(queues[maxPrio])]) = closure[Head(queues[maxPrio])]
      BY DEF BodyPc
    <3>4. /\ pc' = [pc EXCEPT ![th] = BodyPc(closure[Head(queues[maxPrio])])]
          /\ cur' = [cur EXCEPT ![th] = Head(queues[maxPrio])]
          /\ handles' = [handles EXCEPT ![th] = caps[Head(queues[maxPrio])]]
      BY <2>1 DEF WorkerStart, Step
    <3> QED BY <1>0, <1>3, <3>1, <3>2, <3>3, <3>4 DEF BindTypes, BindPcs, Pcs, ClientPcs, WorkerPcs
  <2>2. CASE ~WorkerStart(th)
    <3>1. /\ cur' = cur \/ cur' = [cur EXCEPT ![th] = NoTask]
          /\ handles' \in [Threads -> SUBSET Tasks]
      BY <1>0, <1>3, <2>2 DEF Work, WorkerExit, WorkerSleep, WorkerDiscard, TaskMapFn,
                        ReadSource, Return, RelockDeleted, RelockFinish, EnterFinish,
                        HandleFinished, FinishDep, Finish, Publish, threadVars, BindTypes
    <3>2. CASE Finish(th)
      BY <1>0, <3>1, <3>2 DEF Finish, Publish, BindTypes, BindPcs, Pcs, WorkerPcs
    <3>3. CASE HandleFinished(th)
      <4>1. (pc' = pc \/ pc' \in SpawnOrNotify(pc)) /\ cur' = cur
        BY <3>3 DEF HandleFinished, FinishDep, EnqueueCore
      <4>2. pc' \in [Threads -> BindPcs] /\ \A u \in Threads : pc'[u] = pc[u] \/ pc'[u] = "loop"
        BY <1>0, <4>1 DEF BindTypes, BindPcs, Pcs, WorkerPcs, SpawnOrNotify, Threads
      <4> QED BY <1>0, <3>1, <4>1, <4>2 DEF BindTypes
    <3>4. CASE ~Finish(th) /\ ~HandleFinished(th)
      <4>1. \/ pc' = pc /\ cur' = cur
            \/ \E p \in {"exit", "sleep", "user", "deact", "relock", "loop", "finish"} :
                  pc' = [pc EXCEPT ![th] = p]
        BY <1>3, <2>2, <3>4 DEF Work, WorkerExit, WorkerSleep, WorkerDiscard, TaskMapFn,
                        ReadSource, DecRef, Return, RelockDeleted, RelockFinish, EnterFinish, Step,
                        threadVars
      <4> QED BY <1>0, <3>1, <4>1 DEF BindTypes, BindPcs, Pcs, ClientPcs, WorkerPcs
    <3> QED BY <3>2, <3>3, <3>4
  <2> QED BY <2>1, <2>2
<1>4. CASE th \in Clients /\ (Shutdown(th) \/ Join(th))
  <2>1. UNCHANGED <<cur, handles>>
    BY <1>4 DEF Shutdown, Destroy, Join, threadVars
  <2> QED BY <1>0, <1>4, <2>1 DEF Shutdown, Destroy, Join, Step, BindTypes, BindPcs, Pcs, ClientPcs, WorkerPcs
<1> QED BY <1>1, <1>2, <1>3, <1>4 DEF OldStep

(* No step of TaskManager drops the owner of an unfinished bind task, as   *)
(* long as the program does not.                                           *)
LEMMA OldKeeps ==
    ASSUME B!TaskInv, B!SourceInv, BindInv, KeepBinds, NEW th \in Threads,
           \/ Call(th) \/ BindDrop(th) \/ Internal(th) \/ SpuriousWakeup(th)
           \/ th \in Workers /\ Work(th)
           \/ th \in Clients /\ (Shutdown(th) \/ Join(th)),
           UNCHANGED bindVars,
           NEW b \in Tasks, phase[b] # "none", status[b] = "active"
    PROVE  Kept(b)'
<1>0. BindTypes /\ Kept(b) /\ OldStep(th)
  BY DEF BindInv, KeptInv, OldStep, BindDrop, DropSome
<1>1. CASE th \in Workers /\ WorkerStart(th)
  <2> DEFINE h == Head(queues[maxPrio])
  <2>1. h \in Tasks
    BY <1>1, HeadWaits DEF WorkerStart, CanDequeue
  <2>2. /\ handles' = [handles EXCEPT ![th] = caps[h]]
        /\ closure' = [closure EXCEPT ![h] = "null"] /\ caps' = [caps EXCEPT ![h] = {}]
        /\ pc[th] = "loop"
    BY <1>1 DEF WorkerStart, CanDequeue
  <2>3. handles[th] = {}
    BY <1>1, <2>2 DEF B!TaskInv, B!LocalInv, pcBar, PcOf, handlesBar, Threads
  <2> HIDE DEF h
  <2>4. CASE \E u \in Threads : b \in handles[u]
    <3>1. PICK u \in Threads : b \in handles[u]
      BY <2>4
    <3>2. b \in handles'[u]
      BY <1>0, <2>2, <2>3, <3>1 DEF BindTypes
    <3> QED BY <3>1, <3>2 DEF Kept
  <2>5. CASE \E t \in Tasks : closure[t] = "bind2" /\ b \in caps[t]
    <3>1. PICK t \in Tasks : closure[t] = "bind2" /\ b \in caps[t]
      BY <2>5
    <3>2. t = h => b \in handles'[th]
      BY <1>0, <2>2, <3>1 DEF BindTypes
    <3>3. t # h => closure'[t] = "bind2" /\ b \in caps'[t]
      BY <1>0, <2>2, <3>1 DEF BindTypes
    <3> QED BY <3>1, <3>2, <3>3 DEF Kept
  <2> QED BY <1>0, <2>4, <2>5 DEF Kept
<1>2. CASE ~(th \in Workers /\ WorkerStart(th))
  <2>1. \A t \in Tasks : closure[t] = "bind2" => closure'[t] = closure[t] /\ caps'[t] = caps[t]
    <3> SUFFICES ASSUME NEW t \in Tasks, closure[t] = "bind2"
                 PROVE  closure'[t] = closure[t] /\ caps'[t] = caps[t]
      OBVIOUS
    <3>1. phase[t] # "none"
      BY DEF BindInv, PhaseInv
    <3>2. WorkerStart(th) => th \in Workers
      <4>1. ASSUME th \notin Workers, WorkerStart(th) PROVE FALSE
        <5>1. pc[th] = "loop" /\ th \in Clients
          BY <4>1 DEF WorkerStart, CanDequeue, Threads
        <5> QED BY <5>1 DEF B!TaskInv, B!PlaceInv, B!TypeInv, B!ControlInv, B!ClientPcs, pcBar, PcOf
      <4> QED BY <4>1
    <3> QED BY <1>0, <1>2, <3>1, <3>2, OldTasks
  <2>2. \A u \in Threads : b \in handles[u] => b \in handles'[u]
    <3>1. CASE Call(th)
      <4>1. handles' = handles \/ \E t \in Tasks : handles' = [handles EXCEPT ![th] = @ \cup {t}]
        BY <3>1 DEF Call, MkTask, TaskPure, TaskMap, NewDependent, Alloc, TaskGet,
                    RequestInterrupt, threadVars
      <4> QED BY <1>0, <4>1 DEF BindTypes
    <3>2. CASE BindDrop(th)
      <4>1. PICK x \in handles[th] : MayDrop(x) /\ Drop(th, x)
        BY <3>2 DEF BindDrop
      <4>2. x # b
        BY <4>1 DEF MayDrop
      <4> QED BY <1>0, <4>1, <4>2 DEF Drop, BindTypes
    <3>3. CASE th \in Workers /\ TaskMapFn(th)
      <4>1. PICK x \in handles[th] : handles' = [handles EXCEPT ![th] = @ \ {x}]
        BY <3>3 DEF TaskMapFn, ReadSource
      <4>2. pc[th] = "map" /\ pcBar[th] = "map" /\ handlesBar[th] = handles[th]
        BY <3>3 DEF TaskMapFn, ReadSource, pcBar, PcOf, handlesBar
      <4>3. x # b
        BY <3>3, <4>1, <4>2 DEF B!SourceInv
      <4> QED BY <1>0, <4>1, <4>3 DEF BindTypes
    <3>4. CASE \/ Internal(th) \/ SpuriousWakeup(th)
               \/ th \in Workers /\ Work(th) /\ ~TaskMapFn(th)
               \/ th \in Clients /\ (Shutdown(th) \/ Join(th))
      <4>1. UNCHANGED handles
        BY <1>2, <3>4 DEF Internal, WaitFor, DeactivateTask, Deactivate, FreeDep, DropCaptured, EndDrop,
                    SpuriousWakeup, Work, WorkerExit, WorkerSleep, WorkerDiscard, Return, RelockDeleted,
                    RelockFinish, EnterFinish, HandleFinished, FinishDep, Finish, Publish,
                    Shutdown, Destroy, Join, threadVars
      <4> QED BY <4>1
    <3> QED BY <3>1, <3>2, <3>3, <3>4
  <2> QED BY <1>0, <2>1, <2>2 DEF Kept
<1> QED BY <1>1, <1>2

LEMMA OldInv ==
    ASSUME B!TaskInv, B!SourceInv, BindInv, KeepBinds, NEW th \in Threads,
           \/ Call(th) \/ BindDrop(th) \/ Internal(th) \/ SpuriousWakeup(th)
           \/ th \in Workers /\ Work(th)
           \/ th \in Clients /\ (Shutdown(th) \/ Join(th)),
           UNCHANGED bindVars
    PROVE  BindInv'
<1>0. /\ BindTypes /\ PhaseInv /\ RunInv /\ OldStep(th) /\ UNCHANGED <<phase, bindTo>>
  BY DEF BindInv, OldStep, BindDrop, DropSome, bindVars
<1>1. BindsStay
  BY <1>0, OldStepsStay
<1>2. /\ closure' \in [Tasks -> Kinds \cup {"bind1", "bind2"}] /\ caps' \in [Tasks -> SUBSET Tasks]
      /\ \A t \in Tasks : phase[t] = "none" => closure'[t] \in {"null", "fn", "map"}
      /\ \A t \in Tasks : phase[t] # "none" =>
           /\ deleted'[t] = deleted[t] /\ status'[t] # "none"
           /\ status'[t] = "active" => status[t] = "active"
           /\ \/ closure'[t] = closure[t] /\ caps'[t] = caps[t]
              \/ closure'[t] = "null" /\ ~AddsDep(t)
  BY <1>0, OldTasks
<1>3. /\ pc' \in [Threads -> BindPcs] /\ handles' \in [Threads -> SUBSET Tasks]
      /\ cur' \in [Threads -> Tasks \cup {NoTask}]
      /\ \A u \in Threads : pc'[u] \in {"bind1", "bind2"} =>
           \/ pc'[u] = pc[u] /\ cur'[u] = cur[u]
           \/ /\ u \in Workers /\ cur'[u] \in Tasks /\ closure[cur'[u]] = pc'[u]
  BY <1>0, OldThreads
<1>4. BindTypes'
  BY <1>0, <1>2, <1>3 DEF BindTypes
<1>5. PhaseInv'
  BY <1>0, <1>2 DEF PhaseInv, BindTypes
<1>6. RunInv'
  <2> SUFFICES ASSUME NEW u \in Threads
               PROVE  /\ pc'[u] \in {"bind1", "bind2", "addDep", "relockNil"} =>
                            u \in Workers /\ cur'[u] \in Tasks
                      /\ pc'[u] = "bind1" => phase'[cur'[u]] = "first"
                      /\ pc'[u] \in {"bind2", "addDep", "relockNil"} => phase'[cur'[u]] = "second"
                      /\ pc'[u] = "addDep" =>
                            /\ bindTo'[u] \in Tasks /\ handles'[u] = {}
                            /\ closure'[cur'[u]] = "bind2" /\ caps'[cur'[u]] = {bindTo'[u]}
    BY DEF RunInv
  <2>1. CASE pc'[u] \in {"bind1", "bind2"}
    BY <1>0, <1>3, <2>1 DEF RunInv, PhaseInv, BindTypes
  <2>2. CASE pc'[u] = "relockNil"
    BY <1>0, <1>1, <2>2 DEF RunInv, BindsStay, Between
  <2>3. CASE pc'[u] = "addDep"
    <3>1. /\ pc[u] = "addDep" /\ cur'[u] = cur[u] /\ handles'[u] = handles[u]
          /\ u \in Workers /\ cur[u] \in Tasks /\ phase[cur[u]] = "second"
          /\ bindTo[u] \in Tasks /\ handles[u] = {}
          /\ closure[cur[u]] = "bind2" /\ caps[cur[u]] = {bindTo[u]}
      BY <1>0, <1>1, <2>3 DEF RunInv, BindsStay, Between
    <3>2. AddsDep(cur[u])
      BY <3>1 DEF AddsDep
    <3> QED BY <1>0, <1>2, <2>3, <3>1, <3>2
  <2> QED BY <2>1, <2>2, <2>3
<1>7. KeptInv'
  BY <1>0, <1>2, OldKeeps DEF KeptInv
<1> QED BY <1>4, <1>5, <1>6, <1>7 DEF BindInv

(* Then, by the steps of task_bind.                                        *)
LEMMA BindCallInv ==
    ASSUME B!TaskInv, BindInv, NEW th \in Threads, NEW x \in handles[th], NEW t \in Tasks, NEW pr,
           TaskBindCall(th, x, t, pr)
    PROVE  BindInv'
<1>0. BindTypes /\ PhaseInv /\ RunInv /\ KeptInv /\ BindsStay
  BY BindCallStays DEF BindInv
<1>a. status \in [Tasks -> {"none", "active", "done", "freed"}] /\ deleted \in [Tasks -> BOOLEAN]
  BY PlainTypes
<1>1. /\ pc[th] = "user" /\ status[t] = "none" /\ {x} \in SUBSET Tasks
      /\ status' = [status EXCEPT ![t] = "active"] /\ deleted' = deleted
      /\ closure' = [closure EXCEPT ![t] = "bind1"] /\ caps' = [caps EXCEPT ![t] = {x}]
      /\ handles' = [handles EXCEPT ![th] = @ \cup {t}]
      /\ phase' = [phase EXCEPT ![t] = "first"] /\ UNCHANGED <<bindTo, cur>>
      /\ pc' = pc \/ pc' \in SpawnOrNotify(pc)
  BY <1>0 DEF TaskBindCall, NewDependent, Alloc, CanCall, EnqueueCore, BindTypes
<1>2. phase[t] = "none" /\ ~deleted[t] /\ closure[t] \in {"null", "fn", "map"}
  <2>1. ~deleted[t]
    BY <1>1 DEF B!TaskInv, B!OwnerInv, B!ClosureInv
  <2> QED BY <1>0, <1>1, <2>1 DEF PhaseInv, BindTypes
<1>3. /\ pc' \in [Threads -> BindPcs]
      /\ \A u \in Threads : pc'[u] \in {"bind1", "bind2", "addDep", "relockNil"} => pc'[u] = pc[u]
  <2>1. CASE pc' = pc
    BY <1>0, <2>1 DEF BindTypes
  <2>2. CASE pc' \in SpawnOrNotify(pc)
    BY <1>0, <2>2 DEF BindTypes, BindPcs, Pcs, WorkerPcs, SpawnOrNotify, Threads
  <2> QED BY <1>1, <2>1, <2>2
<1>4. BindTypes'
  BY <1>0, <1>1, <1>3 DEF BindTypes
<1>5. PhaseInv'
  BY <1>0, <1>1, <1>2, <1>a DEF PhaseInv, BindTypes
<1>6. RunInv'
  <2>1. \A u \in Threads : pc'[u] \in {"bind1", "bind2", "addDep", "relockNil"} =>
           pc'[u] = pc[u] /\ cur[u] # t /\ cur[u] \in Tasks
    BY <1>0, <1>2, <1>3 DEF RunInv
  <2>2. \A u \in Threads : pc'[u] = "addDep" => handles'[u] = handles[u]
    BY <1>0, <1>1, <2>1 DEF BindTypes
  <2> QED BY <1>0, <1>1, <2>1, <2>2 DEF RunInv, BindTypes
<1>7. KeptInv'
  <2> SUFFICES ASSUME NEW b \in Tasks, phase'[b] # "none", status'[b] = "active" PROVE Kept(b)'
    BY DEF KeptInv
  <2>1. CASE b = t
    BY <1>0, <1>1, <2>1 DEF Kept, BindTypes
  <2>2. CASE b # t
    <3>1. Kept(b)
      BY <1>0, <1>1, <1>a, <2>2 DEF KeptInv, BindTypes
    <3>2. \A u \in Threads : b \in handles[u] => b \in handles'[u]
      BY <1>0, <1>1 DEF BindTypes
    <3>3. \A u \in Tasks : closure[u] = "bind2" => closure'[u] = "bind2" /\ caps'[u] = caps[u]
      BY <1>0, <1>1, <1>2 DEF BindTypes
    <3> QED BY <3>1, <3>2, <3>3 DEF Kept
  <2> QED BY <2>1, <2>2
<1> QED BY <1>4, <1>5, <1>6, <1>7 DEF BindInv

LEMMA BindReadInv ==
    ASSUME B!SourceInv, BindInv, NEW w \in Workers, TaskBindRead(w)
    PROVE  BindInv'
<1>0. BindTypes /\ PhaseInv /\ RunInv /\ KeptInv /\ w \in Threads
  BY DEF BindInv, Threads
<1>1. /\ pc[w] \in {"bind1", "bind2"}
      /\ UNCHANGED <<status, deleted, closure, caps, cur, phase, bindTo>>
      /\ pc' = [pc EXCEPT ![w] = "user"] \/ pc' = [pc EXCEPT ![w] = "deact"]
      /\ \E x \in handles[w] : handles' = [handles EXCEPT ![w] = @ \ {x}]
  BY DEF TaskBindRead, ReadSource, DecRef, Step, taskVars, bindVars
<1>2. PICK x \in handles[w] : handles' = [handles EXCEPT ![w] = @ \ {x}]
  BY <1>1
<1>3. status[x] = "done"
  BY <1>0, <1>1 DEF B!SourceInv, pcBar, PcOf, handlesBar
<1>4. BindTypes'
  BY <1>0, <1>1, <1>2 DEF BindTypes, BindPcs, Pcs, WorkerPcs
<1>5. PhaseInv'
  BY <1>0, <1>1 DEF PhaseInv
<1>6. RunInv'
  <2>1. \A u \in Threads : pc'[u] \in {"bind1", "bind2", "addDep", "relockNil"} =>
           u # w /\ pc'[u] = pc[u] /\ handles'[u] = handles[u]
    BY <1>0, <1>1, <1>2 DEF BindTypes
  <2> QED BY <1>0, <1>1, <2>1 DEF RunInv
<1>7. KeptInv'
  <2> SUFFICES ASSUME NEW b \in Tasks, phase'[b] # "none", status'[b] = "active" PROVE Kept(b)'
    BY DEF KeptInv
  <2>1. Kept(b) /\ b # x
    BY <1>0, <1>1, <1>3 DEF KeptInv
  <2>2. \A u \in Threads : b \in handles[u] => b \in handles'[u]
    BY <1>0, <1>2, <2>1 DEF BindTypes
  <2> QED BY <1>1, <2>1, <2>2 DEF Kept
<1> QED BY <1>4, <1>5, <1>6, <1>7 DEF BindInv

LEMMA Fn1Inv ==
    ASSUME B!TaskInv, BindInv, NEW w \in Workers, TaskBindFn1(w)
    PROVE  BindInv'
<1>0. BindTypes /\ PhaseInv /\ RunInv /\ KeptInv /\ w \in Threads /\ pc[w] = "user"
  BY DEF BindInv, TaskBindFn1, Threads
<1>1. /\ cur[w] \in Tasks /\ closure[cur[w]] = "null" /\ caps[cur[w]] = {}
      /\ \A u \in Workers : u # w /\ pc[u] # "relockNil" => cur[u] # cur[w]
  BY <1>0, BodyHasClosure, RunsAlone
<1>2. PICK y \in handles[w] :
        /\ handles[w] = {y}
        /\ closure' = [closure EXCEPT ![cur[w]] = "bind2"]
        /\ caps' = [caps EXCEPT ![cur[w]] = {y}]
        /\ bindTo' = [bindTo EXCEPT ![w] = y]
  BY DEF TaskBindFn1
<1>3. /\ handles' = [handles EXCEPT ![w] = {}] /\ pc' = [pc EXCEPT ![w] = "addDep"]
      /\ phase[cur[w]] = "first" /\ phase' = [phase EXCEPT ![cur[w]] = "second"]
      /\ UNCHANGED <<status, deleted, cur>>
  BY DEF TaskBindFn1, Step
<1>4. y \in Tasks /\ {y} \in SUBSET Tasks
  BY <1>0, <1>2 DEF BindTypes
<1>5. BindTypes'
  BY <1>0, <1>1, <1>2, <1>3, <1>4 DEF BindTypes, BindPcs
<1>6. PhaseInv'
  BY <1>0, <1>1, <1>2, <1>3 DEF PhaseInv, BindTypes
<1>7. RunInv'
  <2>1. \A u \in Threads : u # w /\ pc'[u] \in {"bind1", "bind2", "addDep", "relockNil"} =>
           /\ pc'[u] = pc[u] /\ handles'[u] = handles[u] /\ bindTo'[u] = bindTo[u]
           /\ cur[u] # cur[w]
    BY <1>0, <1>1, <1>2, <1>3 DEF BindTypes, RunInv
  <2>2. /\ pc'[w] = "addDep" /\ handles'[w] = {} /\ bindTo'[w] = y /\ phase'[cur[w]] = "second"
        /\ closure'[cur[w]] = "bind2" /\ caps'[cur[w]] = {y}
    BY <1>0, <1>1, <1>2, <1>3 DEF BindTypes
  <2>3. \A t \in Tasks : t # cur[w] => closure'[t] = closure[t] /\ caps'[t] = caps[t] /\ phase'[t] = phase[t]
    BY <1>0, <1>2, <1>3 DEF BindTypes
  <2> QED BY <1>0, <1>1, <1>3, <1>4, <2>1, <2>2, <2>3 DEF RunInv
<1>8. KeptInv'
  <2> SUFFICES ASSUME NEW b \in Tasks, phase'[b] # "none", status'[b] = "active" PROVE Kept(b)'
    BY DEF KeptInv
  <2>1. Kept(b)
    BY <1>0, <1>1, <1>3 DEF KeptInv, BindTypes
  <2>2. closure'[cur[w]] = "bind2" /\ y \in caps'[cur[w]]
    BY <1>0, <1>1, <1>2 DEF BindTypes
  <2>3. CASE b = y
    BY <1>1, <2>2, <2>3 DEF Kept
  <2>4. CASE b # y
    <3>1. \A u \in Threads : b \in handles[u] => b \in handles'[u]
      BY <1>0, <1>2, <1>3, <2>4 DEF BindTypes
    <3>2. \A t \in Tasks : closure[t] = "bind2" => closure'[t] = "bind2" /\ caps'[t] = caps[t]
      BY <1>0, <1>1, <1>2 DEF BindTypes
    <3> QED BY <2>1, <3>1, <3>2 DEF Kept
  <2> QED BY <2>3, <2>4
<1> QED BY <1>5, <1>6, <1>7, <1>8 DEF BindInv

LEMMA AddDepInv ==
    ASSUME BindInv, NEW w \in Workers, TaskBindAddDep(w) \/ RelockNil(w)
    PROVE  BindInv'
<1>0. BindTypes /\ PhaseInv /\ RunInv /\ KeptInv /\ w \in Threads
  BY DEF BindInv, Threads
<1>1. UNCHANGED <<status, deleted, closure, caps, handles, phase>>
  <2>1. CASE TaskBindAddDep(w)
    BY <2>1 DEF TaskBindAddDep
  <2>2. CASE RelockNil(w)
    BY <2>2, RefineRelockNil DEF RelockNil, bindVars
  <2> QED BY <2>1, <2>2
<1>2. CASE TaskBindAddDep(w)
  <2>1. /\ pc[w] = "addDep" /\ cur' = cur /\ bindTo' = [bindTo EXCEPT ![w] = NoTask]
        /\ pc' \in SpawnOrNotify(Step(w, "relockNil")) \/ pc' = Step(w, "relockNil")
    BY <1>2 DEF TaskBindAddDep, EnqueueCore
  <2>2. Step(w, "relockNil") \in [Threads -> BindPcs]
    BY <1>0 DEF BindTypes, BindPcs, Step
  <2>3. pc' \in [Threads -> BindPcs]
    <3>1. \A f \in [Threads -> BindPcs], u \in Workers : [f EXCEPT ![u] = "loop"] \in [Threads -> BindPcs]
      BY DEF BindPcs, Pcs, WorkerPcs
    <3> HIDE DEF BindPcs
    <3> QED BY <2>1, <2>2, <3>1 DEF SpawnOrNotify
  <2>4. \A u \in Threads : \/ pc'[u] = Step(w, "relockNil")[u]
                           \/ pc'[u] = "loop"
    BY <2>1, <2>2, SpawnMoves
  <2>5. \A u \in Threads : pc'[u] = "loop" \/ (u = w /\ pc'[u] = "relockNil") \/ (u # w /\ pc'[u] = pc[u])
    BY <1>0, <2>4 DEF Step, BindTypes
  <2>6. BindTypes'
    BY <1>0, <1>1, <2>1, <2>3 DEF BindTypes
  <2>7. RunInv'
    BY <1>0, <1>1, <2>1, <2>5 DEF RunInv, BindTypes
  <2> QED BY <1>0, <1>1, <2>6, <2>7 DEF BindInv, PhaseInv, KeptInv, Kept
<1>3. CASE RelockNil(w)
  <2>1. /\ pc' = [pc EXCEPT ![w] = "loop"] /\ cur' = [cur EXCEPT ![w] = NoTask]
        /\ UNCHANGED bindTo
    BY <1>3 DEF RelockNil, Step, bindVars
  <2>2. BindTypes'
    BY <1>0, <1>1, <2>1 DEF BindTypes, BindPcs, Pcs, WorkerPcs
  <2>3. RunInv'
    BY <1>0, <1>1, <2>1 DEF RunInv, BindTypes
  <2> QED BY <1>0, <1>1, <2>2, <2>3 DEF BindInv, PhaseInv, KeptInv, Kept
<1> QED BY <1>2, <1>3

----------------------------------------------------------------------------
(* The invariant of TaskBind: that of the mapped state, and BindInv.       *)
BindsInv == B!TaskInv /\ B!SourceInv /\ BindInv

LEMMA BindsInit == BindInit => B!Start /\ BindsInv
<1> SUFFICES ASSUME BindInit PROVE B!Start /\ BindsInv
  OBVIOUS
<1>0. /\ status = [t \in Tasks |-> "none"] /\ closure = [t \in Tasks |-> "null"]
      /\ caps = [t \in Tasks |-> {}] /\ deleted = [t \in Tasks |-> FALSE]
      /\ pc = [th \in Threads |-> IF th \in Workers THEN "absent" ELSE "user"]
      /\ cur = [th \in Threads |-> NoTask] /\ handles = [th \in Threads |-> {}]
      /\ phase = [t \in Tasks |-> "none"] /\ bindTo = [w \in Workers |-> NoTask]
  BY DEF BindInit, Init
<1>1. \A t : ~AddsDep(t)
  BY <1>0 DEF AddsDep, Threads
<1>2. /\ pcBar = pc /\ cur = curBar /\ handles = handlesBar
      /\ closure = closureBar /\ caps = capsBar
      /\ flagsBar \in [Tasks -> BOOLEAN]
  BY <1>0, <1>1 DEF pcBar, PcOf, curBar, handlesBar, closureBar, capsBar, KindOf, flagsBar
<1>3. B!Start
  BY <1>2 DEF BindInit, Init, B!Start, B!Threads, Threads
<1>4. B!TaskInv /\ B!SourceInv
  BY <1>3, B!SourceInit, TasksAssumption, ThreadsAssumption, MaxPrioAssumption, PriosAssumption
<1>5. BindInv
  BY <1>0 DEF BindInv, BindTypes, PhaseInv, RunInv, KeptInv, BindPcs, Pcs, ClientPcs, WorkerPcs, Kinds,
              Threads
<1> QED BY <1>3, <1>4, <1>5 DEF BindsInv

(* Every step of TaskBind is a step of the task manager with Rebind.       *)
LEMMA BindSteps ==
    ASSUME KeepBinds, BindsInv, [BindNext]_allVars
    PROVE  [B!RebindingNext]_B!vars /\ BindInv'
<1>0. B!TaskInv /\ B!SourceInv /\ BindInv
  BY DEF BindsInv
<1>1. ASSUME NEW th \in Threads, UNCHANGED bindVars,
             \/ Call(th) \/ BindDrop(th) \/ Internal(th) \/ SpuriousWakeup(th)
             \/ th \in Workers /\ Work(th)
             \/ th \in Clients /\ (Shutdown(th) \/ Join(th))
      PROVE  B!RebindingNext /\ BindInv'
  <2>1. OldStep(th)
    BY <1>1 DEF OldStep, BindDrop, DropSome
  <2> QED BY <1>0, <1>1, <2>1, RefineOld, OldInv DEF B!RebindingNext
<1>2. ASSUME NEW th \in Threads, NEW x \in handles[th], NEW t \in Tasks, NEW pr \in Prios,
             TaskBindCall(th, x, t, pr)
      PROVE  B!RebindingNext /\ BindInv'
  BY <1>0, <1>2, RefineBindCall, BindCallInv DEF B!RebindingNext
<1>3. ASSUME NEW w \in Workers, TaskBindRead(w)
      PROVE  B!RebindingNext /\ BindInv'
  BY <1>0, <1>3, RefineBindRead, BindReadInv DEF B!RebindingNext
<1>4. ASSUME NEW w \in Workers, TaskBindFn1(w)
      PROVE  UNCHANGED B!vars /\ BindInv'
  BY <1>0, <1>4, RefineFn1, Fn1Inv
<1>5. ASSUME NEW w \in Workers, TaskBindAddDep(w)
      PROVE  B!RebindingNext /\ BindInv'
  BY <1>0, <1>5, RefineAddDep, AddDepInv DEF B!RebindingNext
<1>6. ASSUME NEW w \in Workers, RelockNil(w)
      PROVE  UNCHANGED B!vars /\ BindInv'
  BY <1>0, <1>6, RefineRelockNil, AddDepInv
<1>7. CASE BindNext
  <2>1. CASE \E th \in Threads : InProgram(th) /\ Call(th) /\ UNCHANGED bindVars
    BY <1>1, <2>1
  <2>2. CASE \E th \in Threads, x \in UNION {handles[u] : u \in Threads}, t \in Tasks, pr \in Prios :
                x \in handles[th] /\ TaskBindCall(th, x, t, pr)
    BY <1>2, <2>2
  <2>3. CASE \E th \in Threads : BindDrop(th)
    BY <1>1, <2>3 DEF BindDrop
  <2>4. CASE \E th \in Threads : (Internal(th) \/ SpuriousWakeup(th)) /\ UNCHANGED bindVars
    BY <1>1, <2>4
  <2>5. CASE \E w \in Workers : BindWork(w)
    <3>1. PICK w \in Workers : Work(w) /\ UNCHANGED bindVars
      BY <2>5 DEF BindWork
    <3> QED BY <1>1, <3>1 DEF Threads
  <2>6. CASE \E w \in Workers : BindStep(w)
    BY <1>3, <1>4, <1>5, <1>6, <2>6 DEF BindStep
  <2>7. CASE \E c \in Clients : (Shutdown(c) \/ Join(c)) /\ UNCHANGED bindVars
    <3>1. PICK c \in Clients : (Shutdown(c) \/ Join(c)) /\ UNCHANGED bindVars
      BY <2>7
    <3> QED BY <1>1, <3>1 DEF Threads
  <2> QED BY <1>7, <2>1, <2>2, <2>3, <2>4, <2>5, <2>6, <2>7 DEF BindNext
<1>8. CASE UNCHANGED allVars
  <2>1. /\ UNCHANGED <<status, closure, caps, deps, prio, deleted, queues, queuesSize, maxPrio, shuttingDown,
                       mutex, pc, cur, handles, want, tgt, walk, junk, phase, bindTo>>
    BY <1>8 DEF allVars, vars, bindVars, taskVars, queueVars, threadVars
  <2>2. \A t : AddsDep(t)' <=> AddsDep(t)
    BY <2>1 DEF AddsDep
  <2>3. UNCHANGED B!vars
    BY <2>1, <2>2 DEF B!vars, B!taskVars, B!queueVars, B!threadVars, pcBar, closureBar, capsBar,
                      handlesBar, curBar, flagsBar
  <2>4. BindInv'
    BY <1>0, <2>1 DEF BindInv, BindTypes, PhaseInv, RunInv, KeptInv, Kept
  <2> QED BY <2>3, <2>4
<1> QED BY <1>7, <1>8

LEMMA BindsStep ==
    ASSUME KeepBinds, BindsInv, [BindNext]_allVars
    PROVE  BindsInv'
<1>1. [B!RebindingNext]_B!vars /\ BindInv'
  BY BindSteps
<1>2. B!TaskInv' /\ B!SourceInv'
  BY <1>1, B!RebindingStep, TasksAssumption, ThreadsAssumption, MaxPrioAssumption, PriosAssumption
     DEF BindsInv
<1> QED BY <1>1, <1>2 DEF BindsInv

LEMMA BindsInvariant ==
    ASSUME KeepBinds
    PROVE  BindSpec => []BindsInv
<1>1. BindsInv /\ [BindNext]_allVars => BindsInv'
  BY BindsStep
<1> QED BY <1>1, BindsInit, PTL DEF BindSpec

----------------------------------------------------------------------------
(***************************************************************************)
(* task_bind adds one step to the task manager: when the program keeps its *)
(* bind tasks until they are done, everything task_bind_fn1, task_bind_fn2 *)
(* and add_dep do is a step of TaskManager, or makes a task that has been  *)
(* run wait for the task its body has returned.                            *)
(***************************************************************************)
THEOREM BindImplementsRebinding ==
    ASSUME KeepBinds
    PROVE  BindSpec => B!RebindingSpec
<1>1. BindsInv /\ [BindNext]_allVars => [B!RebindingNext]_B!vars
  BY BindSteps
<1> QED BY <1>1, BindsInit, BindsInvariant, PTL DEF BindSpec, B!RebindingSpec

LEMMA BindsAlive == BindsInv => BindTasksAlive
<1> SUFFICES ASSUME BindsInv PROVE BindTasksAlive
  OBVIOUS
<1>0. B!TaskInv /\ BindInv
  BY DEF BindsInv
<1>1. ReferencesAlive
  <2>1. B!ReferencesAlive /\ B!LocalInv
    BY <1>0 DEF B!TaskInv, B!OwnerInv
  <2>2. \A th \in Threads : want[th] \subseteq handles[th]
    <3> SUFFICES ASSUME NEW th \in Threads PROVE want[th] \subseteq handles[th]
      OBVIOUS
    <3>1. want[th] # {} => pc[th] # "addDep"
      BY <2>1 DEF B!LocalInv, B!Threads, Threads, pcBar, PcOf
    <3> QED BY <2>1, <3>1 DEF B!ReferencesAlive, B!Threads, Threads, handlesBar
  <2> QED BY <1>0, <2>1, <2>2, SameReferences
          DEF ReferencesAlive, B!ReferencesAlive, Alive, B!Alive, B!Threads, Threads
<1>2. WaitingTasksHaveClosure
  <2>1. B!WaitingTasksHaveClosure
    BY <1>0, B!WaitingHaveClosure, TasksAssumption, ThreadsAssumption, MaxPrioAssumption, PriosAssumption
  <2> SUFFICES ASSUME NEW t \in Queued \cup (UNION {Elems(deps[x]) : x \in Tasks})
                                     \cup (UNION {Elems(walk[th]) : th \in Threads})
               PROVE  closure[t] = "null" <=> deleted[t]
    BY DEF WaitingTasksHaveClosure
  <2>2. B!InQueue(t) \/ B!InDeps(t) \/ B!InWalk(t)
    BY DEF Queued, Elems, B!InQueue, B!InDeps, B!InWalk, B!Elems, B!Threads, Threads
  <2>3. t \in Tasks
    <3>1. /\ \A p \in 0..MaxPrio : queues[p] \in Seq(Tasks)
          /\ \A x \in Tasks : deps[x] \in Seq(Tasks)
          /\ \A th \in Threads : walk[th] \in Seq(Tasks)
      BY <1>0, PlainTypes
    <3> QED BY <2>2, <3>1, ElementOfSeq DEF B!InQueue, B!InDeps, B!InWalk, B!Elems, B!Threads, Threads
  <2>4. ~B!IsRun(t)
    BY <1>0, <2>2, <2>3 DEF B!TaskInv, B!PlaceInv, B!PlacedOnce
  <2>5. ~AddsDep(t)
    BY <2>4 DEF AddsDep, B!IsRun, curBar, Threads
  <2>6. closureBar[t] = KindOf(closure[t])
    BY <2>3, <2>5 DEF closureBar
  <2>7. closureBar[t] = "null" <=> deleted[t]
    BY <2>1 DEF B!WaitingTasksHaveClosure, Queued, B!Queued, Elems, B!Elems, B!Threads, Threads
  <2> QED BY <2>6, <2>7 DEF KindOf
<1>3. DependentsOfDeadAreDead
  <2>1. B!DependentsOfDeadAreDead
    BY <1>0, B!WalkedAreDead, TasksAssumption, ThreadsAssumption, MaxPrioAssumption, PriosAssumption
  <2> QED BY <2>1 DEF DependentsOfDeadAreDead, B!DependentsOfDeadAreDead, Elems, B!Elems, B!Threads, Threads,
                      pcBar, PcOf
<1> QED BY <1>1, <1>2, <1>3 DEF BindTasksAlive

LEMMA BindsPlaced == BindsInv => BindExactlyOnePlace
<1> SUFFICES ASSUME BindsInv, NEW t \in Tasks
             PROVE  LET P == {a \in Places(t) :
                                ~ \E w \in Workers : a = <<"run", w>> /\ pc[w] = "relockNil"} IN
                    /\ status[t] = "active" <=> P # {}
                    /\ \A a, b \in P : a = b
  BY DEF BindExactlyOnePlace
<1> DEFINE P == {a \in Places(t) : ~ \E w \in Workers : a = <<"run", w>> /\ pc[w] = "relockNil"}
<1>1. B!ExactlyOnePlace
  BY B!PlacedOnceIsOnePlace, TasksAssumption, ThreadsAssumption, MaxPrioAssumption, PriosAssumption
     DEF BindsInv, B!TaskInv
<1>2. P = B!Places(t)
  <2>1. \A w \in Workers : curBar[w] = t <=> cur[w] = t /\ pc[w] # "relockNil"
    BY TasksAssumption DEF curBar, Threads
  <2> QED BY <2>1 DEF Places, B!Places, Slots, B!Slots
<1> HIDE DEF P
<1>3. (status[t] = "active" <=> P # {}) /\ \A a, b \in P : a = b
  BY <1>1, <1>2 DEF B!ExactlyOnePlace
<1> QED BY <1>3 DEF P

LEMMA BindsRead == BindsInv => BindSourceIsDone
<1> SUFFICES ASSUME BindsInv, NEW w \in Workers
             PROVE  /\ pc[w] \in {"bind1", "bind2"} =>
                         handles[w] # {} /\ \A x \in handles[w] : status[x] = "done"
                    /\ pc[w] = "addDep" => Alive(bindTo[w]) /\ caps[cur[w]] = {bindTo[w]}
  BY DEF BindSourceIsDone
<1>0. w \in Threads /\ B!SourceInv /\ B!ReferencesAlive /\ BindInv
  BY DEF BindsInv, B!TaskInv, B!OwnerInv, Threads
<1>1. ASSUME pc[w] \in {"bind1", "bind2"}
      PROVE  handles[w] # {} /\ \A x \in handles[w] : status[x] = "done"
  BY <1>0, <1>1 DEF B!SourceInv, pcBar, PcOf, handlesBar
<1>2. ASSUME pc[w] = "addDep"
      PROVE  Alive(bindTo[w]) /\ caps[cur[w]] = {bindTo[w]}
  <2>1. bindTo[w] \in Tasks /\ cur[w] \in Tasks /\ caps[cur[w]] = {bindTo[w]}
    BY <1>0, <1>2 DEF BindInv, RunInv
  <2>2. Referenced(bindTo[w], handles, junk, caps)
    BY <2>1 DEF Referenced
  <2>3. Alive(bindTo[w])
    BY <1>0, <2>1, <2>2, SameReferences DEF B!ReferencesAlive, B!Alive, Alive
  <2> QED BY <2>1, <2>3
<1> QED BY <1>1, <1>2

(***************************************************************************)
(* What the task manager relies on holds with task_bind: when the program  *)
(* keeps its bind tasks until they are done, no reference leads to a dead  *)
(* task, no worker applies a null closure and deactivate_task frees only   *)
(* dead dependencies, although a bind task is given a new closure between  *)
(* its two runs.                                                           *)
(***************************************************************************)
THEOREM BindKeepsTasksAlive ==
    ASSUME KeepBinds
    PROVE  BindSpec => []BindTasksAlive
BY BindsInvariant, BindsAlive, PTL

(***************************************************************************)
(* A bind task is never lost or run by two workers: add_dep puts it in one *)
(* dependency list or queue while the worker of task_bind_fn1 still points *)
(* to it, and that worker disposes of nothing when it comes back.          *)
(***************************************************************************)
THEOREM BindsHaveOnePlace ==
    ASSUME KeepBinds
    PROVE  BindSpec => []BindExactlyOnePlace
BY BindsInvariant, BindsPlaced, PTL

(***************************************************************************)
(* task_bind_fn1 and task_bind_fn2 read a value that is there, and add_dep *)
(* is given a task that is alive, in every interleaving.                   *)
(***************************************************************************)
THEOREM BindsReadValues ==
    ASSUME KeepBinds
    PROVE  BindSpec => []BindSourceIsDone
BY BindsInvariant, BindsRead, PTL
=============================================================================
