------------------------- MODULE TaskManagerProofs -------------------------
(***************************************************************************)
(* Theorems about TaskManager, for every set of tasks and threads and      *)
(* every number of priorities.                                             *)
(***************************************************************************)
EXTENDS TaskManager, FiniteSetTheorems, SequenceTheorems,
        WellFoundedInduction, TLAPS

(***************************************************************************)
(* A non-empty set of naturals below n has a greatest element.             *)
(***************************************************************************)
LEMMA GreatestElement ==
    ASSUME NEW n \in Nat, NEW S, S \subseteq 0..n, S # {}
    PROVE  \E m \in S : \A k \in S : k <= m
<1> DEFINE T == {n - s : s \in S}
<1>1. T \subseteq Nat /\ T # {}
  <2>1. \A s \in S : s \in Nat /\ s <= n
    OBVIOUS
  <2>2. \A s \in S : n - s \in Nat
    BY <2>1
  <2> QED BY <2>2
<1> DEFINE R == OpToRel(<, Nat)
<1>2. PICK x \in T : \A y \in T : ~ (<<y, x>> \in R)
  <2> HIDE DEF T, R
  <2> QED BY <1>1, NatLessThanWellFounded, WFMin DEF R
<1>3. \A y \in T : ~ (y < x)
  BY <1>1, <1>2 DEF OpToRel
<1>4. PICK m \in S : x = n - m
  OBVIOUS
<1>5. \A k \in S : k <= m
  <2> TAKE k \in S
  <2>1. n - k \in T
    OBVIOUS
  <2>2. ~ (n - k < n - m)
    BY <2>1, <1>3, <1>4
  <2> QED BY <2>2
<1> QED BY <1>5

(***************************************************************************)
(* The search of dequeue for the next priority ends at the highest         *)
(* non-empty queue below p, or at 0 if they are all empty.                 *)
(***************************************************************************)
LEMMA LowerPrioIsHighest ==
    ASSUME NEW p \in Nat, NEW q
    PROVE  LET r == LowerPrio(q, p) IN
           /\ r \in 0..p
           /\ \A s \in (r + 1)..(p - 1) : q[s] = <<>>
           /\ (\E s \in 0..(p - 1) : q[s] # <<>>) => q[r] # <<>> /\ r \in 0..(p - 1)
<1>1. CASE ~ \E s \in 0..(p - 1) : q[s] # <<>>
  BY <1>1 DEF LowerPrio
<1>2. CASE \E s \in 0..(p - 1) : q[s] # <<>>
  <2> DEFINE S == {s \in 0..(p - 1) : q[s] # <<>>}
  <2>1. S \subseteq 0..p /\ S # {}
    BY <1>2
  <2>2. \E m \in S : \A k \in S : k <= m
    <3> HIDE DEF S
    <3> QED BY <2>1, GreatestElement
  <2>3. \E m \in 0..(p - 1) :
           q[m] # <<>> /\ \A s \in (m + 1)..(p - 1) : q[s] = <<>>
    BY <2>2
  <2> DEFINE P(m) == q[m] # <<>> /\ \A s \in (m + 1)..(p - 1) : q[s] = <<>>
  <2> DEFINE r == CHOOSE m \in 0..(p - 1) : P(m)
  <2>4. LowerPrio(q, p) = r
    BY <1>2 DEF LowerPrio
  <2>5. r \in 0..(p - 1) /\ P(r)
    <3> HIDE DEF P
    <3> QED BY <2>3 DEF P
  <2> HIDE DEF r
  <2>6. r \in 0..p
    BY <2>5
  <2> QED BY <2>4, <2>5, <2>6
<1> QED BY <1>1, <1>2

----------------------------------------------------------------------------
(* m_queues and the slots of its queues.                                   *)

QueueType == [0..MaxPrio -> Seq(Tasks)]

(* Appending to a queue adds one slot.                                     *)
LEMMA SlotsAppend ==
    ASSUME NEW q \in QueueType, NEW p \in 0..MaxPrio, NEW t \in Tasks
    PROVE  LET r == [q EXCEPT ![p] = Append(@, t)] IN
           /\ r \in QueueType
           /\ Slots(r) = Slots(q) \cup {<<p, Len(q[p]) + 1>>}
           /\ <<p, Len(q[p]) + 1>> \notin Slots(q)
<1> DEFINE r == [q EXCEPT ![p] = Append(@, t)]
<1>1. q[p] \in Seq(Tasks) /\ Append(q[p], t) \in Seq(Tasks)
  BY DEF QueueType
<1>2. r \in QueueType
  BY <1>1 DEF QueueType
<1>3. DOMAIN r[p] = DOMAIN q[p] \cup {Len(q[p]) + 1} /\ Len(q[p]) + 1 \notin DOMAIN q[p]
  BY <1>1 DEF QueueType
<1>4. \A x \in 0..MaxPrio : x # p => r[x] = q[x]
  BY DEF QueueType
<1>5. Slots(r) = Slots(q) \cup {<<p, Len(q[p]) + 1>>}
  <2> HIDE DEF r
  <2> QED BY <1>2, <1>3, <1>4 DEF Slots, QueueType
<1>6. <<p, Len(q[p]) + 1>> \notin Slots(q)
  BY <1>3 DEF Slots, QueueType
<1> QED BY <1>2, <1>5, <1>6

(* Taking the head of a queue removes one slot.                            *)
LEMMA SlotsTail ==
    ASSUME NEW q \in QueueType, NEW p \in 0..MaxPrio, q[p] # <<>>
    PROVE  LET r == [q EXCEPT ![p] = Tail(@)] IN
           /\ r \in QueueType
           /\ Slots(r) = Slots(q) \ {<<p, Len(q[p])>>}
           /\ <<p, Len(q[p])>> \in Slots(q)
<1> DEFINE r == [q EXCEPT ![p] = Tail(@)]
<1>1. q[p] \in Seq(Tasks) /\ Tail(q[p]) \in Seq(Tasks)
  BY HeadTailProperties DEF QueueType
<1>2. r \in QueueType
  BY <1>1 DEF QueueType
<1>3. DOMAIN r[p] = DOMAIN q[p] \ {Len(q[p])} /\ Len(q[p]) \in DOMAIN q[p]
  <2>1. Len(q[p]) \in Nat \ {0} /\ Len(Tail(q[p])) = Len(q[p]) - 1
    BY <1>1, HeadTailProperties, EmptySeq
  <2>2. r[p] = Tail(q[p])
    BY DEF QueueType
  <2>3. DOMAIN q[p] = 1..Len(q[p]) /\ DOMAIN r[p] = 1..(Len(q[p]) - 1)
    <3>1. DOMAIN q[p] = 1..Len(q[p])
      BY <1>1, LenProperties
    <3>2. DOMAIN Tail(q[p]) = 1..Len(Tail(q[p]))
      BY <1>1, LenProperties
    <3> QED BY <2>1, <2>2, <3>1, <3>2
  <2> QED BY <2>1, <2>3
<1>4. \A x \in 0..MaxPrio : x # p => r[x] = q[x]
  BY DEF QueueType
<1>5. Slots(r) = Slots(q) \ {<<p, Len(q[p])>>}
  <2> HIDE DEF r
  <2> QED BY <1>2, <1>3, <1>4 DEF Slots, QueueType
<1>6. <<p, Len(q[p])>> \in Slots(q)
  BY <1>3 DEF Slots, QueueType
<1> QED BY <1>2, <1>5, <1>6

(* There is no slot exactly when all queues are empty.                     *)
LEMMA SlotsEmpty ==
    ASSUME NEW q \in QueueType
    PROVE  Slots(q) = {} <=> \A p \in 0..MaxPrio : q[p] = <<>>
<1>1. \A p \in 0..MaxPrio : q[p] \in Seq(Tasks)
  BY DEF QueueType
<1>2. \A p \in 0..MaxPrio : q[p] = <<>> <=> ~ \E i \in DOMAIN q[p] : TRUE
  <2> TAKE p \in 0..MaxPrio
  <2> DEFINE s == q[p]
  <2>1. s \in Seq(Tasks)
    BY <1>1
  <2> HIDE DEF s
  <2>2. s # <<>> => 1 \in DOMAIN s
    BY <2>1
  <2>3. s = <<>> => ~ \E i \in DOMAIN s : TRUE
    BY <2>1
  <2> QED BY <2>2, <2>3 DEF s
<1>3. ASSUME NEW p \in 0..MaxPrio, NEW i \in DOMAIN q[p]
      PROVE  <<p, i>> \in Slots(q)
  BY DEF Slots, QueueType
<1>4. ASSUME NEW s \in Slots(q)
      PROVE  \E p \in 0..MaxPrio : \E i \in DOMAIN q[p] : TRUE
  BY DEF Slots, QueueType
<1> QED BY <1>2, <1>3, <1>4

(***************************************************************************)
(* The inductive form of QueuesConsistent: the slots are finite, and       *)
(* m_max_prio falls back to 0 when the last task has been dequeued.        *)
(***************************************************************************)
QueueInv ==
    /\ queues \in QueueType
    /\ maxPrio \in 0..MaxPrio
    /\ IsFiniteSet(Slots(queues))
    /\ queues[maxPrio] = <<>> => maxPrio = 0
    /\ QueuesConsistent

(* enqueue_core keeps m_max_prio and m_queues_size exact.                  *)
LEMMA EnqueueCoreKeepsQueues ==
    ASSUME QueueInv, NEW t \in Tasks, NEW pr \in Nat, NEW pcs,
           EnqueueCore(t, pr, pcs)
    PROVE  QueueInv'
<1> DEFINE p == Clamp(pr)
<1> DEFINE s == <<p, Len(queues[p]) + 1>>
<1>1. p \in 0..MaxPrio
  BY MaxPrioAssumption DEF Clamp
<1>2. queues' = [queues EXCEPT ![p] = Append(@, t)] /\ queuesSize' = queuesSize + 1
  BY DEF EnqueueCore
<1>3. maxPrio' = IF p > maxPrio THEN p ELSE maxPrio
  BY DEF EnqueueCore
<1> HIDE DEF p
<1>4. /\ queues' \in QueueType
      /\ Slots(queues') = Slots(queues) \cup {s}
      /\ s \notin Slots(queues)
  BY <1>1, <1>2, SlotsAppend DEF QueueInv
<1>5. /\ IsFiniteSet(Slots(queues'))
      /\ Cardinality(Slots(queues')) = Cardinality(Slots(queues)) + 1
  <2> HIDE DEF s
  <2> QED BY <1>4, FS_AddElement DEF QueueInv
<1>6. maxPrio' \in 0..MaxPrio
  BY <1>1, <1>3 DEF QueueInv
<1>7. queuesSize' = Cardinality(Slots(queues'))
  BY <1>2, <1>5 DEF QueueInv, QueuesConsistent
<1>8. \A r \in 0..MaxPrio : r # p => queues'[r] = queues[r]
  BY <1>1, <1>2 DEF QueueInv, QueueType
<1>9. queues'[p] # <<>>
  BY <1>1, <1>2, AppendProperties DEF QueueInv, QueueType
<1>10. ASSUME NEW r \in 0..MaxPrio, r > maxPrio'
       PROVE  queues'[r] = <<>>
  BY <1>1, <1>3, <1>8, <1>10 DEF QueueInv, QueuesConsistent
<1>11. queues'[maxPrio'] # <<>>
  <2>1. CASE maxPrio' = p
    BY <2>1, <1>9
  <2>2. CASE maxPrio' # p
    <3>1. maxPrio' = maxPrio /\ p <= maxPrio /\ p # maxPrio
      BY <2>2, <1>1, <1>3 DEF QueueInv
    <3>2. queues[maxPrio] # <<>>
      BY <3>1, <1>1 DEF QueueInv
    <3> QED BY <3>1, <3>2, <1>8 DEF QueueInv
  <2> QED BY <2>1, <2>2
<1> QED BY <1>4, <1>5, <1>6, <1>7, <1>10, <1>11 DEF QueueInv, QueuesConsistent

(* dequeue finds a task, keeps m_queues_size exact and leaves m_max_prio   *)
(* at the highest priority that still has one.                             *)
LEMMA DequeueKeepsQueues ==
    ASSUME QueueInv, queuesSize # 0, Dequeue
    PROVE  /\ QueueInv'
           /\ queues[maxPrio] # <<>>
           /\ Head(queues[maxPrio]) \in Tasks
<1> DEFINE q == [queues EXCEPT ![maxPrio] = Tail(@)]
<1> DEFINE s == <<maxPrio, Len(queues[maxPrio])>>
<1>1. queues[maxPrio] # <<>> /\ maxPrio \in 0..MaxPrio /\ queues[maxPrio] \in Seq(Tasks)
  BY DEF QueueInv, QueuesConsistent, QueueType
<1>2. Head(queues[maxPrio]) \in Tasks
  BY <1>1, HeadTailProperties
<1>3. queues' = q /\ queuesSize' = queuesSize - 1
  BY DEF Dequeue
<1>4. maxPrio' = IF q[maxPrio] = <<>> THEN LowerPrio(q, maxPrio) ELSE maxPrio
  BY DEF Dequeue
<1>5. q \in QueueType /\ Slots(q) = Slots(queues) \ {s} /\ s \in Slots(queues)
  BY <1>1, SlotsTail DEF QueueInv
<1>6. \A r \in 0..MaxPrio : r # maxPrio => q[r] = queues[r]
  BY <1>1 DEF QueueInv, QueueType
<1> HIDE DEF q
<1>7. /\ IsFiniteSet(Slots(q))
      /\ Cardinality(Slots(q)) = Cardinality(Slots(queues)) - 1
  <2> HIDE DEF s
  <2> QED BY <1>5, FS_RemoveElement DEF QueueInv
<1>8. queuesSize' = Cardinality(Slots(q))
  BY <1>3, <1>7 DEF QueueInv, QueuesConsistent
<1>9. /\ maxPrio' \in 0..MaxPrio
      /\ \A r \in 0..MaxPrio : r > maxPrio' => q[r] = <<>>
      /\ q[maxPrio'] = <<>> => maxPrio' = 0
  <2>1. CASE q[maxPrio] # <<>>
    BY <2>1, <1>1, <1>4, <1>6 DEF QueueInv, QueuesConsistent
  <2>2. CASE q[maxPrio] = <<>>
    <3> DEFINE m == LowerPrio(q, maxPrio)
    <3>1. maxPrio' = m
      BY <2>2, <1>4
    <3>2. /\ m \in 0..maxPrio
          /\ \A r \in (m + 1)..(maxPrio - 1) : q[r] = <<>>
          /\ (\E r \in 0..(maxPrio - 1) : q[r] # <<>>) => q[m] # <<>>
      <4>1. maxPrio \in Nat
        BY <1>1, MaxPrioAssumption
      <4> QED BY <4>1, LowerPrioIsHighest
    <3> HIDE DEF m
    <3>3. m \in 0..MaxPrio
      BY <1>1, <3>2, MaxPrioAssumption
    <3>4. ASSUME NEW r \in 0..MaxPrio, r > m
          PROVE  q[r] = <<>>
      <4>1. CASE r > maxPrio
        BY <4>1, <1>1, <1>6 DEF QueueInv, QueuesConsistent
      <4>2. CASE r = maxPrio
        BY <4>2, <2>2
      <4>3. CASE r < maxPrio
        BY <4>3, <3>2, <3>4, <1>1
      <4> QED BY <4>1, <4>2, <4>3, <1>1
    <3>5. ASSUME q[m] = <<>>
          PROVE  m = 0
      <4>1. \A r \in 0..(maxPrio - 1) : q[r] = <<>>
        BY <3>2, <3>5
      <4>2. LowerPrio(q, maxPrio) = 0
        <5>1. ~ \E r \in 0..(maxPrio - 1) : q[r] # <<>>
          BY <4>1
        <5> QED BY <5>1 DEF LowerPrio
      <4> QED BY <4>2 DEF m
    <3> QED BY <3>1, <3>3, <3>4, <3>5
  <2> QED BY <2>1, <2>2
<1>10. queuesSize' # 0 => q[maxPrio'] # <<>>
  <2> SUFFICES ASSUME q[maxPrio'] = <<>> PROVE queuesSize' = 0
    OBVIOUS
  <2>1. \A r \in 0..MaxPrio : q[r] = <<>>
    BY <1>9, MaxPrioAssumption
  <2>2. Slots(q) = {}
    BY <2>1, <1>5, SlotsEmpty
  <2> QED BY <2>2, <1>8, FS_EmptySet
<1> QED BY <1>1, <1>2, <1>3, <1>5, <1>7, <1>8, <1>9, <1>10 DEF QueueInv, QueuesConsistent

----------------------------------------------------------------------------
(* enqueue_core moves no thread but the worker it starts or notifies.      *)
LEMMA SpawnOrNotifyMoves ==
    ASSUME NEW pcs \in [Threads -> Pcs], NEW r \in SpawnOrNotify(pcs)
    PROVE  /\ r \in [Threads -> Pcs]
           /\ \A th \in Threads :
                \/ r[th] = pcs[th]
                \/ th \in Workers /\ pcs[th] \in {"absent", "sleep"} /\ r[th] = "loop"
<1>1. CASE r = pcs
  BY <1>1
<1>2. CASE \E w \in Workers : pcs[w] \in {"absent", "sleep"} /\ r = [pcs EXCEPT ![w] = "loop"]
  BY <1>2 DEF Pcs, WorkerPcs, Threads
<1> QED BY <1>1, <1>2 DEF SpawnOrNotify

LEMMA QueuesUnchanged ==
    ASSUME QueueInv, UNCHANGED queueVars
    PROVE  QueueInv'
BY DEF QueueInv, QueuesConsistent, QueueType, Slots, queueVars

(***************************************************************************)
(* What the program counters say of the local variables: a worker has a    *)
(* current task from the time it dequeues it until it has disposed of it,  *)
(* and m_mutex is kept over several steps only in handle_finished.         *)
(***************************************************************************)
RunningPcs == {"map", "user", "get", "wait", "deact", "clean", "relock", "finish"}

ControlInv ==
    /\ \A w \in Workers : pc[w] \in WorkerPcs /\ (cur[w] # NoTask <=> pc[w] \in RunningPcs)
    /\ \A c \in Clients : pc[c] \in ClientPcs /\ cur[c] = NoTask
    /\ \A th \in Threads : tgt[th] # NoTask <=> pc[th] = "deact"
    /\ \A th \in Threads : mutex = th <=> pc[th] = "finish"

TypeInv == TypeOK /\ QueueInv /\ ControlInv

(* The initial states, whatever the interruption flags of the tasks that   *)
(* are not allocated yet: nobody has read or written them.                 *)
Start ==
    /\ status = [t \in Tasks |-> "none"]
    /\ closure = [t \in Tasks |-> "null"]
    /\ caps = [t \in Tasks |-> {}]
    /\ deps = [t \in Tasks |-> <<>>]
    /\ prio = [t \in Tasks |-> 0]
    /\ interrupted \in [Tasks -> BOOLEAN]
    /\ deleted = [t \in Tasks |-> FALSE]
    /\ queues = [p \in 0..MaxPrio |-> <<>>] /\ queuesSize = 0 /\ maxPrio = 0
    /\ shuttingDown = FALSE /\ mutex = NoThread
    /\ pc = [th \in Threads |-> IF th \in Workers THEN "absent" ELSE "user"]
    /\ cur = [th \in Threads |-> NoTask] /\ tgt = [th \in Threads |-> NoTask]
    /\ handles = [th \in Threads |-> {}] /\ want = [th \in Threads |-> {}]
    /\ walk = [th \in Threads |-> <<>>]
    /\ junk = [th \in Threads |-> {}]

LEMMA InitStarts == Init => Start
BY DEF Init, Start

LEMMA TypeInit == Start => TypeInv
<1> SUFFICES ASSUME Start PROVE TypeInv
  OBVIOUS
<1>1. TypeOK
  <2>1. pc \in [Threads -> Pcs]
    BY DEF Start, Pcs, ClientPcs, WorkerPcs
  <2>2. 0 \in 0..MaxPrio
    BY MaxPrioAssumption
  <2>3. /\ deps \in [Tasks -> Seq(Tasks)]
        /\ queues \in [0..MaxPrio -> Seq(Tasks)]
        /\ walk \in [Threads -> Seq(Tasks)]
    BY DEF Start
  <2>4. /\ cur \in [Threads -> Tasks \cup {NoTask}]
        /\ tgt \in [Threads -> Tasks \cup {NoTask}]
        /\ mutex \in Threads \cup {NoThread}
    BY DEF Start
  <2>5. /\ status \in [Tasks -> {"none", "active", "done", "freed"}]
        /\ closure \in [Tasks -> Kinds]
        /\ caps \in [Tasks -> SUBSET Tasks]
        /\ prio \in [Tasks -> Nat]
        /\ interrupted \in [Tasks -> BOOLEAN]
        /\ deleted \in [Tasks -> BOOLEAN]
    BY DEF Start, Kinds
  <2>6. /\ handles \in [Threads -> SUBSET Tasks]
        /\ want \in [Threads -> SUBSET Tasks]
        /\ junk \in [Threads -> SUBSET Tasks]
        /\ queuesSize \in Int
        /\ maxPrio \in 0..MaxPrio
    BY <2>2 DEF Start
  <2>7. shuttingDown \in BOOLEAN
    BY DEF Start
  <2> QED BY <2>6, <2>7, <2>1, <2>2, <2>3, <2>4, <2>5 DEF TypeOK
<1>2. QueueInv
  <2>1. queues \in QueueType /\ \A p \in 0..MaxPrio : queues[p] = <<>>
    BY DEF Start, QueueType
  <2>2. Slots(queues) = {}
    BY <2>1, SlotsEmpty
  <2>3. IsFiniteSet(Slots(queues)) /\ Cardinality(Slots(queues)) = 0
    BY <2>2, FS_EmptySet
  <2> QED BY <2>1, <2>3, MaxPrioAssumption DEF Start, QueueInv, QueuesConsistent
<1>3. ControlInv
  BY ThreadsAssumption DEF Start, ControlInv, ClientPcs, WorkerPcs, RunningPcs, Threads
<1> QED BY <1>1, <1>2, <1>3 DEF TypeInv

LEMMA TypeCall ==
    ASSUME TypeInv, NEW th \in Threads, Call(th)
    PROVE  (TypeOK /\ QueueInv)'
<1> USE DEF TypeInv
<1>1. ASSUME NEW t \in Tasks, NEW C \in SUBSET handles[th], NEW pr \in Prios,
             MkTask(th, t, C, pr)
      PROVE  (TypeOK /\ QueueInv)'
  <2>1. pr \in Nat
    BY PriosAssumption
  <2>2. QueueInv'
    BY <1>1, <2>1, EnqueueCoreKeepsQueues DEF MkTask
  <2>3. pc' \in [Threads -> Pcs]
    BY <1>1, SpawnOrNotifyMoves DEF MkTask, EnqueueCore, TypeOK
  <2>4. C \subseteq Tasks
    BY DEF TypeOK
  <2>5. /\ status' \in [Tasks -> {"none", "active", "done", "freed"}]
        /\ closure' \in [Tasks -> Kinds]
        /\ caps' \in [Tasks -> SUBSET Tasks]
        /\ prio' \in [Tasks -> Nat]
        /\ handles' \in [Threads -> SUBSET Tasks]
    BY <1>1, <2>1, <2>4 DEF MkTask, Alloc, TypeOK, Kinds
  <2>6. queues' \in [0..MaxPrio -> Seq(Tasks)] /\ maxPrio' \in 0..MaxPrio /\ queuesSize' \in Int
    BY <1>1, <2>2 DEF QueueInv, QueueType, MkTask, EnqueueCore, TypeOK
  <2> QED BY <1>1, <2>2, <2>3, <2>5, <2>6 DEF MkTask, TypeOK
<1>2. ASSUME NEW t \in Tasks, TaskPure(th, t)
      PROVE  (TypeOK /\ QueueInv)'
  <2>1. TypeOK'
    BY <1>2 DEF TaskPure, TypeOK, queueVars
  <2> QED BY <1>2, <2>1, QueuesUnchanged DEF TaskPure
<1>3. ASSUME NEW x \in handles[th], NEW t \in Tasks, NEW pr \in Prios,
             TaskMap(th, x, t, pr)
      PROVE  (TypeOK /\ QueueInv)'
  <2>1. pr \in Nat /\ x \in Tasks
    BY PriosAssumption DEF TypeOK
  <2>2. /\ status' \in [Tasks -> {"none", "active", "done", "freed"}]
        /\ closure' \in [Tasks -> Kinds]
        /\ caps' \in [Tasks -> SUBSET Tasks]
        /\ prio' \in [Tasks -> Nat]
        /\ handles' \in [Threads -> SUBSET Tasks]
    BY <1>3, <2>1 DEF TaskMap, NewDependent, Alloc, TypeOK, Kinds
  <2>3. CASE EnqueueCore(t, pr, pc) /\ deps' = deps
    <3>1. QueueInv'
      BY <2>1, <2>3, EnqueueCoreKeepsQueues
    <3>2. pc' \in [Threads -> Pcs]
      BY <2>3, SpawnOrNotifyMoves DEF EnqueueCore, TypeOK
    <3>3. queues' \in [0..MaxPrio -> Seq(Tasks)] /\ maxPrio' \in 0..MaxPrio /\ queuesSize' \in Int
      BY <2>3, <3>1 DEF QueueInv, QueueType, EnqueueCore, TypeOK
    <3> QED BY <1>3, <2>2, <2>3, <3>1, <3>2, <3>3 DEF TaskMap, NewDependent, TypeOK
  <2>4. CASE deps' = [deps EXCEPT ![x] = <<t>> \o @] /\ UNCHANGED <<queueVars, pc>>
    <3>1. deps' \in [Tasks -> Seq(Tasks)]
      BY <2>1, <2>4 DEF TypeOK
    <3>2. QueueInv'
      BY <2>4, QueuesUnchanged
    <3> QED BY <1>3, <2>2, <2>4, <3>1, <3>2 DEF TaskMap, NewDependent, TypeOK, queueVars
  <2> QED BY <1>3, <2>3, <2>4 DEF TaskMap, NewDependent
<1>4. ASSUME NEW S \in SUBSET handles[th], TaskGet(th, S)
      PROVE  (TypeOK /\ QueueInv)'
  <2>1. TypeOK'
    BY <1>4 DEF TaskGet, Step, TypeOK, Pcs, ClientPcs, taskVars, queueVars
  <2> QED BY <1>4, <2>1, QueuesUnchanged DEF TaskGet
<1>5. ASSUME NEW x \in handles[th], RequestInterrupt(th, x)
      PROVE  (TypeOK /\ QueueInv)'
  <2>1. TypeOK'
    BY <1>5 DEF RequestInterrupt, TypeOK, queueVars, threadVars
  <2> QED BY <1>5, <2>1, QueuesUnchanged DEF RequestInterrupt
<1> QED BY <1>1, <1>2, <1>3, <1>4, <1>5 DEF Call

LEMMA TypeInternal ==
    ASSUME TypeInv, NEW th \in Threads, DropSome(th) \/ Internal(th) \/ SpuriousWakeup(th)
    PROVE  (TypeOK /\ QueueInv)'
<1> USE DEF TypeInv, Step, Pcs, ClientPcs, WorkerPcs
<1>1. CASE DropSome(th)
  <2>1. TypeOK'
    <3>1. PICK x \in handles[th] :
             /\ handles' = [handles EXCEPT ![th] = @ \ {x}]
             /\ junk' = junk
             /\ DecRef(th, x, "user")
             /\ UNCHANGED <<taskVars, queueVars, shuttingDown, mutex, cur, want, walk>>
      BY <1>1 DEF DropSome, Drop
    <3>2. x \in Tasks
      BY <3>1 DEF TypeOK
    <3>3. handles' \in [Threads -> SUBSET Tasks]
      BY <3>1 DEF TypeOK
    <3>4. pc' \in [Threads -> Pcs] /\ tgt' \in [Threads -> Tasks \cup {NoTask}]
      <4>1. CASE pc' = Step(th, "user") /\ tgt' = tgt
        BY <4>1 DEF TypeOK
      <4>2. CASE pc' = Step(th, "deact") /\ tgt' = [tgt EXCEPT ![th] = x]
        BY <3>2, <4>2 DEF TypeOK
      <4> QED BY <3>1, <4>1, <4>2 DEF DecRef
    <3> QED BY <3>1, <3>3, <3>4 DEF TypeOK, taskVars, queueVars
  <2> QED BY <1>1, <2>1, QueuesUnchanged DEF DropSome, Drop
<1>2. CASE WaitFor(th)
  <2>1. TypeOK'
    BY <1>2 DEF WaitFor, TypeOK, taskVars, queueVars
  <2> QED BY <1>2, <2>1, QueuesUnchanged DEF WaitFor
<1>3. CASE DeactivateTask(th)
  <2>1. TypeOK'
    <3> DEFINE t == tgt[th]
    <3>1. pc' \in [Threads -> Pcs] /\ tgt' \in [Threads -> Tasks \cup {NoTask}]
      BY <1>3 DEF DeactivateTask, Deactivate, TypeOK
    <3>2. CASE /\ status' = [status EXCEPT ![t] = "freed"]
               /\ UNCHANGED <<closure, caps, deps, interrupted, deleted, walk, junk>>
      BY <1>3, <3>1, <3>2 DEF DeactivateTask, Deactivate, TypeOK, queueVars
    <3>3. CASE status[t] # "done"
      <4>1. t \in Tasks
        BY <1>3 DEF DeactivateTask, Deactivate, TypeOK, ControlInv
      <4>2. /\ closure' = [closure EXCEPT ![t] = "null"]
            /\ caps' = [caps EXCEPT ![t] = {}]
            /\ junk' = [junk EXCEPT ![th] = @ \cup caps[t]]
            /\ deps' = [deps EXCEPT ![t] = <<>>]
            /\ walk' = [walk EXCEPT ![th] = deps[t]]
            /\ interrupted' = [interrupted EXCEPT ![t] = TRUE]
            /\ deleted' = [deleted EXCEPT ![t] = TRUE]
            /\ UNCHANGED <<status, prio, queueVars, shuttingDown, mutex, cur, handles, want>>
        BY <1>3, <3>3 DEF DeactivateTask, Deactivate
      <4> HIDE DEF t
      <4>3. closure' \in [Tasks -> Kinds] /\ caps' \in [Tasks -> SUBSET Tasks]
        BY <4>1, <4>2 DEF TypeOK, Kinds
      <4>4. interrupted' \in [Tasks -> BOOLEAN] /\ deleted' \in [Tasks -> BOOLEAN]
        BY <4>1, <4>2 DEF TypeOK
      <4>5. deps' \in [Tasks -> Seq(Tasks)]
        BY <4>1, <4>2 DEF TypeOK
      <4>6. junk' \in [Threads -> SUBSET Tasks] /\ walk' \in [Threads -> Seq(Tasks)]
        BY <4>1, <4>2 DEF TypeOK
      <4> QED BY <3>1, <4>2, <4>3, <4>4, <4>5, <4>6 DEF TypeOK, queueVars
    <3> QED BY <1>3, <3>2, <3>3 DEF DeactivateTask, Deactivate
  <2> QED BY <1>3, <2>1, QueuesUnchanged DEF DeactivateTask, Deactivate
<1>4. CASE FreeDep(th)
  <2>1. walk' \in [Threads -> Seq(Tasks)]
    BY <1>4, HeadTailProperties DEF FreeDep, TypeOK
  <2>2. TypeOK'
    BY <1>4, <2>1 DEF FreeDep, TypeOK, queueVars
  <2> QED BY <1>4, <2>2, QueuesUnchanged DEF FreeDep
<1>5. CASE DropCaptured(th)
  <2>1. TypeOK'
    <3>1. PICK x \in junk[th] :
             /\ junk' = [junk EXCEPT ![th] = @ \ {x}]
             /\ handles' = handles
             /\ DecRef(th, x, "clean")
             /\ UNCHANGED <<taskVars, queueVars, shuttingDown, mutex, cur, want, walk>>
      BY <1>5 DEF DropCaptured
    <3>2. x \in Tasks
      BY <3>1 DEF TypeOK
    <3>3. junk' \in [Threads -> SUBSET Tasks]
      BY <3>1 DEF TypeOK
    <3>4. pc' \in [Threads -> Pcs] /\ tgt' \in [Threads -> Tasks \cup {NoTask}]
      <4>1. CASE pc' = Step(th, "clean") /\ tgt' = tgt
        BY <4>1 DEF TypeOK
      <4>2. CASE pc' = Step(th, "deact") /\ tgt' = [tgt EXCEPT ![th] = x]
        BY <3>2, <4>2 DEF TypeOK
      <4> QED BY <3>1, <4>1, <4>2 DEF DecRef
    <3> QED BY <3>1, <3>3, <3>4 DEF TypeOK, taskVars, queueVars
  <2> QED BY <1>5, <2>1, QueuesUnchanged DEF DropCaptured
<1>6. CASE EndDrop(th)
  <2>1. TypeOK'
    BY <1>6 DEF EndDrop, TypeOK, taskVars, queueVars, threadVars
  <2> QED BY <1>6, <2>1, QueuesUnchanged DEF EndDrop
<1>7. CASE SpuriousWakeup(th)
  <2>1. TypeOK'
    BY <1>7 DEF SpuriousWakeup, TypeOK, taskVars, queueVars, threadVars
  <2> QED BY <1>7, <2>1, QueuesUnchanged DEF SpuriousWakeup
<1> QED BY <1>1, <1>2, <1>3, <1>4, <1>5, <1>6, <1>7 DEF Internal

LEMMA TypeWork ==
    ASSUME TypeInv, NEW w \in Workers, Work(w)
    PROVE  (TypeOK /\ QueueInv)'
<1> USE DEF TypeInv, Step, Pcs, ClientPcs, WorkerPcs, Threads
<1>1. CASE WorkerExit(w) \/ WorkerSleep(w) \/ Return(w)
  <2>1. TypeOK'
    BY <1>1 DEF WorkerExit, WorkerSleep, Return, TypeOK, taskVars, queueVars, threadVars
  <2> QED BY <1>1, <2>1, QueuesUnchanged DEF WorkerExit, WorkerSleep, Return
<1>2. CASE WorkerDiscard(w)
  <2>1. QueueInv'
    BY <1>2, DequeueKeepsQueues DEF WorkerDiscard, CanDequeue
  <2>2. queuesSize' \in Int
    BY <1>2 DEF WorkerDiscard, Dequeue, TypeOK
  <2> QED BY <1>2, <2>1, <2>2 DEF WorkerDiscard, TypeOK, QueueInv, QueueType, threadVars
<1>3. CASE WorkerStart(w)
  <2> DEFINE t == Head(queues[maxPrio])
  <2>1. QueueInv' /\ t \in Tasks
    BY <1>3, DequeueKeepsQueues DEF WorkerStart, CanDequeue
  <2>2. queuesSize' \in Int
    BY <1>3 DEF WorkerStart, Dequeue, TypeOK
  <2>3. BodyPc(closure[t]) \in Pcs
    BY <2>1 DEF BodyPc, TypeOK, Kinds
  <2> QED BY <1>3, <2>1, <2>2, <2>3 DEF WorkerStart, TypeOK, Kinds, QueueInv, QueueType
<1>4. CASE TaskMapFn(w)
  <2>1. TypeOK'
    <3>1. PICK x \in handles[w] :
             /\ handles' = [handles EXCEPT ![w] = @ \ {x}]
             /\ junk' = junk
             /\ DecRef(w, x, "user")
             /\ UNCHANGED <<taskVars, queueVars, shuttingDown, mutex, cur, want, walk>>
      BY <1>4 DEF TaskMapFn, ReadSource
    <3>2. x \in Tasks
      BY <3>1 DEF TypeOK
    <3>3. handles' \in [Threads -> SUBSET Tasks]
      BY <3>1 DEF TypeOK
    <3>4. pc' \in [Threads -> Pcs] /\ tgt' \in [Threads -> Tasks \cup {NoTask}]
      <4>1. CASE pc' = Step(w, "user") /\ tgt' = tgt
        BY <4>1 DEF TypeOK
      <4>2. CASE pc' = Step(w, "deact") /\ tgt' = [tgt EXCEPT ![w] = x]
        BY <3>2, <4>2 DEF TypeOK
      <4> QED BY <3>1, <4>1, <4>2 DEF DecRef
    <3> QED BY <3>1, <3>3, <3>4 DEF TypeOK, taskVars, queueVars
  <2> QED BY <1>4, <2>1, QueuesUnchanged DEF TaskMapFn, ReadSource
<1>5. CASE RelockDeleted(w)
  <2>1. TypeOK'
    BY <1>5 DEF RelockDeleted, TypeOK, queueVars
  <2> QED BY <1>5, <2>1, QueuesUnchanged DEF RelockDeleted
<1>6. CASE RelockFinish(w)
  <2>1. TypeOK'
    <3>1. cur[w] \in Tasks
      BY <1>6 DEF RelockFinish, EnterFinish, TypeOK, ControlInv, RunningPcs
    <3>2. walk' \in [Threads -> Seq(Tasks)] /\ deps' \in [Tasks -> Seq(Tasks)]
      BY <1>6, <3>1 DEF RelockFinish, EnterFinish, TypeOK
    <3> QED BY <1>6, <3>2 DEF RelockFinish, EnterFinish, TypeOK, queueVars
  <2> QED BY <1>6, <2>1, QueuesUnchanged DEF RelockFinish, EnterFinish
<1>7. CASE HandleFinished(w)
  <2> DEFINE it == Head(walk[w])
  <2>1. it \in Tasks /\ walk' \in [Threads -> Seq(Tasks)]
    BY <1>7, HeadTailProperties DEF HandleFinished, FinishDep, TypeOK
  <2>2. interrupted' \in [Tasks -> BOOLEAN]
    BY <1>7, <2>1 DEF HandleFinished, FinishDep, TypeOK
  <2>3. CASE deleted[it] /\ status' = [status EXCEPT ![it] = "freed"] /\ UNCHANGED <<queueVars, pc>>
    <3>1. QueueInv'
      BY <2>3, QueuesUnchanged
    <3> QED BY <1>7, <2>1, <2>2, <2>3, <3>1 DEF HandleFinished, FinishDep, TypeOK, queueVars
  <2>4. CASE EnqueueCore(it, prio[it], pc) /\ UNCHANGED status
    <3>1. QueueInv'
      BY <2>1, <2>4, EnqueueCoreKeepsQueues DEF TypeOK
    <3>2. pc' \in [Threads -> Pcs]
      BY <2>4, SpawnOrNotifyMoves DEF EnqueueCore, TypeOK
    <3>3. queues' \in [0..MaxPrio -> Seq(Tasks)] /\ maxPrio' \in 0..MaxPrio /\ queuesSize' \in Int
      BY <2>4, <3>1 DEF QueueInv, QueueType, EnqueueCore, TypeOK
    <3> QED BY <1>7, <2>1, <2>2, <2>4, <3>1, <3>2, <3>3 DEF HandleFinished, FinishDep, TypeOK
  <2> QED BY <1>7, <2>3, <2>4 DEF HandleFinished, FinishDep
<1>8. CASE Finish(w)
  <2>1. TypeOK'
    BY <1>8 DEF Finish, Publish, Waiters, TypeOK, queueVars
  <2> QED BY <1>8, <2>1, QueuesUnchanged DEF Finish, Publish
<1> QED BY <1>1, <1>2, <1>3, <1>4, <1>5, <1>6, <1>7, <1>8 DEF Work

LEMMA TypeDestroy ==
    ASSUME TypeInv, NEW c \in Clients, Shutdown(c) \/ Join(c)
    PROVE  (TypeOK /\ QueueInv)'
<1> USE DEF TypeInv, Step, Pcs, ClientPcs, WorkerPcs, Threads
<1>1. CASE Shutdown(c)
  <2>1. TypeOK'
    BY <1>1 DEF Shutdown, Destroy, TypeOK, queueVars, threadVars
  <2> QED BY <1>1, <2>1, QueuesUnchanged DEF Shutdown, Destroy
<1>2. CASE Join(c)
  <2>1. queues' \in QueueType /\ \A p \in 0..MaxPrio : queues'[p] = <<>>
    BY <1>2 DEF Join, QueueType
  <2>2. Slots(queues') = {}
    BY <2>1, SlotsEmpty
  <2>3. IsFiniteSet(Slots(queues')) /\ Cardinality(Slots(queues')) = 0
    BY <2>2, FS_EmptySet
  <2>4. QueueInv'
    BY <1>2, <2>1, <2>3, MaxPrioAssumption DEF Join, QueueInv, QueuesConsistent
  <2>5. status' \in [Tasks -> {"none", "active", "done", "freed"}]
    BY <1>2 DEF Join, TypeOK
  <2> QED BY <1>2, <2>1, <2>4, <2>5 DEF Join, TypeOK, QueueInv, QueueType, threadVars
<1> QED BY <1>1, <1>2

LEMMA ControlStep ==
    ASSUME TypeInv, Next
    PROVE  ControlInv'
<1> USE TasksAssumption, ThreadsAssumption
    DEF TypeInv, ControlInv, Step, ClientPcs, WorkerPcs, RunningPcs, Threads
<1>0. /\ pc \in [Threads -> Pcs]
      /\ cur \in [Threads -> Tasks \cup {NoTask}]
      /\ tgt \in [Threads -> Tasks \cup {NoTask}]
      /\ mutex \in Threads \cup {NoThread}
  BY DEF TypeOK
<1>1. ASSUME NEW th \in Threads, Call(th)
      PROVE  ControlInv'
  <2>1. ASSUME NEW r \in SpawnOrNotify(pc), pc' = r, UNCHANGED <<cur, tgt, mutex>>
        PROVE  ControlInv'
    <3>1. \A u \in Threads :
             \/ pc'[u] = pc[u]
             \/ u \in Workers /\ pc[u] \in {"absent", "sleep"} /\ pc'[u] = "loop"
      BY <1>0, <2>1, SpawnOrNotifyMoves
    <3> QED BY <2>1, <3>1
  <2>2. ASSUME UNCHANGED <<pc, cur, tgt, mutex>>
        PROVE  ControlInv'
    BY <2>2
  <2>3. ASSUME NEW S \in SUBSET handles[th], TaskGet(th, S)
        PROVE  ControlInv'
    BY <2>3 DEF TaskGet, CanCall, TypeOK
  <2> QED BY <1>1, <2>1, <2>2, <2>3
        DEF Call, MkTask, TaskPure, TaskMap, NewDependent, RequestInterrupt, EnqueueCore, threadVars
<1>2. ASSUME NEW th \in Threads, DropSome(th) \/ Internal(th) \/ SpuriousWakeup(th)
      PROVE  ControlInv'
  <2>1. ASSUME NEW x \in Tasks, NEW p \in {"user", "clean"},
               pc[th] \in {"user", "clean", "map"}, pc[th] = "map" => th \in Workers,
               DecRef(th, x, p), UNCHANGED <<cur, mutex>>
        PROVE  ControlInv'
    <3>1. CASE pc' = [pc EXCEPT ![th] = p] /\ tgt' = tgt
      BY <1>0, <2>1, <3>1
    <3>2. CASE pc' = [pc EXCEPT ![th] = "deact"] /\ tgt' = [tgt EXCEPT ![th] = x]
      BY <1>0, <2>1, <3>2
    <3> QED BY <2>1, <3>1, <3>2 DEF DecRef
  <2>2. CASE DropSome(th)
    BY <2>1, <2>2 DEF DropSome, Drop, CanCall, TypeOK
  <2>3. CASE DropCaptured(th)
    BY <2>1, <2>3 DEF DropCaptured, TypeOK
  <2>4. CASE WaitFor(th)
    BY <2>4 DEF WaitFor, TypeOK
  <2>5. CASE DeactivateTask(th)
    BY <2>5 DEF DeactivateTask, Deactivate, TypeOK
  <2>6. CASE FreeDep(th)
    BY <2>6 DEF FreeDep
  <2>7. CASE EndDrop(th)
    BY <2>7 DEF EndDrop, TypeOK, threadVars
  <2>8. CASE SpuriousWakeup(th)
    BY <2>8 DEF SpuriousWakeup, TypeOK, threadVars
  <2> QED BY <1>2, <2>2, <2>3, <2>4, <2>5, <2>6, <2>7, <2>8 DEF Internal
<1>3. ASSUME NEW w \in Workers, Work(w)
      PROVE  ControlInv'
  <2>1. CASE WorkerExit(w) \/ WorkerSleep(w) \/ Return(w)
    <3>1. /\ \/ pc[w] = "loop" /\ pc' = [pc EXCEPT ![w] = "exit"]
             \/ pc[w] = "loop" /\ pc' = [pc EXCEPT ![w] = "sleep"]
             \/ pc[w] = "user" /\ pc' = [pc EXCEPT ![w] = "relock"]
          /\ UNCHANGED <<cur, tgt, mutex>>
      BY <2>1 DEF WorkerExit, WorkerSleep, Return, threadVars
    <3> QED BY <1>0, <3>1
  <2>2. CASE WorkerDiscard(w)
    BY <2>2 DEF WorkerDiscard, threadVars
  <2>3. CASE WorkerStart(w)
    <3> DEFINE t == Head(queues[maxPrio])
    <3>1. t \in Tasks
      BY <2>3, DequeueKeepsQueues DEF WorkerStart, CanDequeue
    <3>2. BodyPc(closure[t]) \in {"user", "map"}
      BY <3>1 DEF BodyPc, TypeOK, Kinds
    <3> QED BY <2>3, <3>1, <3>2 DEF WorkerStart, CanDequeue, TypeOK
  <2>4. CASE TaskMapFn(w)
    <3>1. PICK x \in handles[w] : DecRef(w, x, "user")
      BY <2>4 DEF TaskMapFn, ReadSource
    <3>2. x \in Tasks /\ pc[w] = "map" /\ UNCHANGED <<cur, mutex>>
      BY <2>4, <3>1 DEF TaskMapFn, ReadSource, TypeOK
    <3>3. CASE pc' = [pc EXCEPT ![w] = "user"] /\ tgt' = tgt
      BY <1>0, <3>2, <3>3
    <3>4. CASE pc' = [pc EXCEPT ![w] = "deact"] /\ tgt' = [tgt EXCEPT ![w] = x]
      BY <1>0, <3>2, <3>4
    <3> QED BY <3>1, <3>3, <3>4 DEF DecRef
  <2>5. CASE RelockDeleted(w)
    BY <2>5 DEF RelockDeleted, TypeOK
  <2>6. CASE RelockFinish(w)
    BY <2>6 DEF RelockFinish, EnterFinish, MutexFree, TypeOK
  <2>7. CASE HandleFinished(w)
    <3>1. CASE UNCHANGED pc
      BY <2>7, <3>1 DEF HandleFinished, FinishDep
    <3>2. CASE pc' \in SpawnOrNotify(pc)
      <4>1. \A u \in Threads :
               \/ pc'[u] = pc[u]
               \/ u \in Workers /\ pc[u] \in {"absent", "sleep"} /\ pc'[u] = "loop"
        BY <1>0, <3>2, SpawnOrNotifyMoves
      <4>2. UNCHANGED <<cur, tgt, mutex>>
        BY <2>7 DEF HandleFinished, FinishDep
      <4> QED BY <4>1, <4>2
    <3> QED BY <2>7, <3>1, <3>2 DEF HandleFinished, FinishDep, EnqueueCore
  <2>8. CASE Finish(w)
    BY <2>8 DEF Finish, Publish, Waiters, TypeOK
  <2> QED BY <1>3, <2>1, <2>2, <2>3, <2>4, <2>5, <2>6, <2>7, <2>8 DEF Work
<1>4. ASSUME NEW c \in Clients, Shutdown(c) \/ Join(c)
      PROVE  ControlInv'
  <2>1. CASE Shutdown(c)
    BY <2>1 DEF Shutdown, Destroy, MutexFree, TypeOK, threadVars
  <2>2. CASE Join(c)
    BY <2>2 DEF Join, TypeOK, threadVars
  <2> QED BY <1>4, <2>1, <2>2
<1> QED BY <1>1, <1>2, <1>3, <1>4 DEF Next

(* Every step keeps the inductive invariant.                               *)
LEMMA TypeStep == TypeInv /\ [Next]_vars => TypeInv'
<1> SUFFICES ASSUME TypeInv, [Next]_vars PROVE TypeInv'
  OBVIOUS
<1>1. CASE UNCHANGED vars
  <2>1. TypeOK'
    BY <1>1 DEF vars, taskVars, queueVars, threadVars, TypeInv, TypeOK
  <2>2. ControlInv'
    BY <1>1 DEF vars, threadVars, TypeInv, ControlInv
  <2> QED BY <1>1, <2>1, <2>2, QueuesUnchanged DEF vars, TypeInv
<1>2. CASE Next
  BY <1>2, TypeCall, TypeInternal, TypeWork, TypeDestroy, ControlStep DEF Next, TypeInv
<1> QED BY <1>1, <1>2

(***************************************************************************)
(* Whatever the program calls and however the threads interleave, every    *)
(* step keeps the types and the queues' bookkeeping.                       *)
(***************************************************************************)
THEOREM TypeInvariant == Spec => [](TypeOK /\ QueuesConsistent)
<1>1. TypeInv => TypeOK /\ QueuesConsistent
  BY DEF TypeInv, QueueInv
<1> QED BY InitStarts, TypeInit, TypeStep, <1>1, PTL DEF Spec

(* The types alone: m_queues_size stays a natural number, and what a       *)
(* thread's pointers, the queues and the dependency lists hold are tasks   *)
(* wherever task_manager dereferences them.                                *)
THEOREM TypesHold == Spec => []TypeOK
BY TypeInvariant, PTL

----------------------------------------------------------------------------
(* An interruption is never taken back, and nothing but the destructor     *)
(* begins the shutdown.                                                    *)
LEMMA InterruptionsStay ==
    ASSUME TypeOK, [Next]_vars
    PROVE  /\ \A t \in Tasks : interrupted[t] => interrupted'[t]
           /\ shuttingDown' = shuttingDown \/ \E c \in Clients : Shutdown(c)
<1>1. CASE UNCHANGED vars
  BY <1>1 DEF vars, taskVars
<1>2. ASSUME NEW th \in Threads,
             Call(th) \/ DropSome(th) \/ Internal(th) \/ SpuriousWakeup(th)
      PROVE  /\ \A t \in Tasks : interrupted[t] => interrupted'[t]
             /\ shuttingDown' = shuttingDown
  <2>1. CASE Call(th)
    BY <2>1 DEF Call, MkTask, TaskPure, TaskMap, NewDependent, TaskGet,
                RequestInterrupt, taskVars, TypeOK
  <2>2. CASE DropSome(th)
    BY <2>2 DEF DropSome, Drop, taskVars
  <2>3. CASE Internal(th)
    <3>1. CASE DeactivateTask(th)
      <4>1. UNCHANGED interrupted \/ interrupted' = [interrupted EXCEPT ![tgt[th]] = TRUE]
        BY <3>1 DEF DeactivateTask, Deactivate
      <4>2. shuttingDown' = shuttingDown
        BY <3>1 DEF DeactivateTask, Deactivate
      <4> QED BY <4>1, <4>2 DEF TypeOK
    <3>2. CASE ~DeactivateTask(th)
      BY <2>3, <3>2 DEF Internal, WaitFor, FreeDep, DropCaptured, EndDrop, taskVars
    <3> QED BY <3>1, <3>2
  <2>4. CASE SpuriousWakeup(th)
    BY <2>4 DEF SpuriousWakeup, taskVars
  <2> QED BY <1>2, <2>1, <2>2, <2>3, <2>4
<1>3. ASSUME NEW w \in Workers, Work(w)
      PROVE  /\ \A t \in Tasks : interrupted[t] => interrupted'[t]
             /\ shuttingDown' = shuttingDown
  <2>1. CASE HandleFinished(w)
    BY <2>1 DEF HandleFinished, FinishDep, TypeOK
  <2>2. CASE ~HandleFinished(w)
    BY <1>3, <2>2 DEF Work, WorkerExit, WorkerSleep, WorkerDiscard, WorkerStart,
                      TaskMapFn, ReadSource, Return, RelockDeleted, RelockFinish,
                      EnterFinish, Finish, Publish, taskVars
  <2> QED BY <2>1, <2>2
<1>4. ASSUME NEW c \in Clients, Shutdown(c) \/ Join(c)
      PROVE  /\ \A t \in Tasks : interrupted[t] => interrupted'[t]
             /\ shuttingDown' = shuttingDown \/ Shutdown(c)
  BY <1>4 DEF Shutdown, Destroy, Join, TypeOK
<1> QED BY <1>1, <1>2, <1>3, <1>4 DEF Next

(* A worker gets a task only while the manager is not shutting down.       *)
LEMMA NoStartInShutdown ==
    ASSUME TypeOK, [Next]_vars, shuttingDown, NEW w \in Workers
    PROVE  cur'[w] = cur[w] \/ cur'[w] = NoTask
<1>0. w \in Threads
  BY DEF Threads
<1>1. CASE UNCHANGED vars
  BY <1>1 DEF vars, threadVars
<1>2. ASSUME NEW th \in Threads,
             Call(th) \/ DropSome(th) \/ Internal(th) \/ SpuriousWakeup(th)
      PROVE  cur' = cur
  <2>1. CASE Call(th)
    BY <2>1 DEF Call, MkTask, TaskPure, TaskMap, NewDependent, TaskGet,
                RequestInterrupt, threadVars
  <2>2. CASE DropSome(th)
    BY <2>2 DEF DropSome, Drop
  <2>3. CASE Internal(th)
    BY <2>3 DEF Internal, WaitFor, DeactivateTask, Deactivate, FreeDep,
                DropCaptured, EndDrop, threadVars
  <2>4. CASE SpuriousWakeup(th)
    BY <2>4 DEF SpuriousWakeup, threadVars
  <2> QED BY <1>2, <2>1, <2>2, <2>3, <2>4
<1>3. ASSUME NEW u \in Workers, Work(u)
      PROVE  cur' = cur \/ cur' = [cur EXCEPT ![u] = NoTask]
  BY <1>3 DEF Work, WorkerExit, WorkerSleep, WorkerDiscard, WorkerStart, CanDequeue,
              TaskMapFn, ReadSource, Return, RelockDeleted, RelockFinish,
              EnterFinish, HandleFinished, FinishDep, Finish, Publish, threadVars
<1>4. ASSUME NEW c \in Clients, Shutdown(c) \/ Join(c)
      PROVE  cur' = cur
  BY <1>4 DEF Shutdown, Destroy, Join, threadVars
<1> QED BY <1>0, <1>1, <1>2, <1>3, <1>4 DEF Next, TypeOK

(***************************************************************************)
(* After the destructor has set m_shutting_down, every running task has    *)
(* been asked to stop: no worker has slipped a task past the destructor's  *)
(* look at the workers, and nothing takes an interruption back.            *)
(***************************************************************************)
THEOREM ShutdownInterrupts == Spec => []ShutdownInterruptsRunning
<1>1. Init => ShutdownInterruptsRunning
  BY DEF Init, ShutdownInterruptsRunning
<1>2. TypeInv /\ ShutdownInterruptsRunning /\ [Next]_vars => ShutdownInterruptsRunning'
  <2> SUFFICES ASSUME TypeInv, ShutdownInterruptsRunning, [Next]_vars, shuttingDown',
                      NEW w \in Workers, cur'[w] # NoTask
               PROVE  interrupted'[cur'[w]]
    BY DEF ShutdownInterruptsRunning
  <2>0. TypeOK /\ TypeOK' /\ w \in Threads
    BY TypeStep DEF TypeInv, Threads
  <2>1. cur'[w] \in Tasks
    BY <2>0 DEF TypeOK
  <2>2. CASE shuttingDown
    <3>1. cur'[w] = cur[w]
      BY <2>0, <2>2, NoStartInShutdown
    <3>2. interrupted[cur[w]]
      BY <2>2, <3>1 DEF ShutdownInterruptsRunning
    <3> QED BY <2>0, <2>1, <3>1, <3>2, InterruptionsStay
  <2>3. CASE \E c \in Clients : Shutdown(c)
    BY <2>1, <2>3 DEF Shutdown, Destroy, threadVars
  <2> QED BY <2>0, <2>2, <2>3, InterruptionsStay
<1> QED BY InitStarts, TypeInit, TypeStep, <1>1, <1>2, PTL DEF Spec

----------------------------------------------------------------------------
(***************************************************************************)
(* Where the task manager keeps its uncounted pointers: every unfinished   *)
(* task is in exactly one queue, dependency list, walked list or worker,   *)
(* for every set of tasks and threads.                                     *)
(***************************************************************************)

(* No task occurs twice in a list.                                         *)
NoDup(s) == \A i, j \in DOMAIN s : s[i] = s[j] => i = j

LEMMA ElemsEmpty == Elems(<<>>) = {} /\ NoDup(<<>>)
BY DEF Elems, NoDup

LEMMA ElemsOfSeq ==
    ASSUME NEW s \in Seq(Tasks)
    PROVE  /\ Elems(s) \subseteq Tasks
           /\ s = <<>> <=> Elems(s) = {}
<1>1. DOMAIN s = 1..Len(s) /\ Len(s) \in Nat /\ \A i \in 1..Len(s) : s[i] \in Tasks
  BY LenProperties, ElementOfSeq
<1>2. Elems(s) \subseteq Tasks
  BY <1>1 DEF Elems
<1>3. s # <<>> => 1 \in DOMAIN s
  BY <1>1, EmptySeq
<1> QED BY <1>2, <1>3, ElemsEmpty DEF Elems

(* A task put at the end of a list, as in enqueue_core.                    *)
LEMMA ElemsAppend ==
    ASSUME NEW s \in Seq(Tasks), NEW t \in Tasks
    PROVE  /\ Elems(Append(s, t)) = Elems(s) \cup {t}
           /\ NoDup(s) /\ t \notin Elems(s) => NoDup(Append(s, t))
<1> DEFINE r == Append(s, t)
<1> DEFINE n == Len(s)
<1>1. n \in Nat /\ DOMAIN s = 1..n /\ DOMAIN r = 1..(n + 1)
  BY LenProperties, AppendProperties
<1>2. r[n + 1] = t /\ \A i \in 1..n : r[i] = s[i]
  BY AppendProperties
<1>3. \A i \in 1..(n + 1) : i = n + 1 \/ i \in 1..n
  BY <1>1
<1>4. 1..n \subseteq 1..(n + 1) /\ n + 1 \in 1..(n + 1)
  BY <1>1
<1> HIDE DEF r, n
<1>5. Elems(r) = Elems(s) \cup {t}
  BY <1>1, <1>2, <1>3, <1>4 DEF Elems
<1>6. ASSUME NoDup(s), t \notin Elems(s) PROVE NoDup(r)
  BY <1>1, <1>2, <1>3, <1>6 DEF Elems, NoDup
<1> QED BY <1>5, <1>6 DEF r

(* A task put at the head of a list, as in add_dep.                        *)
LEMMA ElemsCons ==
    ASSUME NEW s \in Seq(Tasks), NEW t \in Tasks
    PROVE  /\ Elems(<<t>> \o s) = Elems(s) \cup {t}
           /\ NoDup(s) /\ t \notin Elems(s) => NoDup(<<t>> \o s)
<1> DEFINE r == <<t>> \o s
<1> DEFINE n == Len(s)
<1>1. n \in Nat /\ DOMAIN s = 1..n /\ DOMAIN r = 1..(n + 1)
  <2>1. <<t>> \in Seq(Tasks) /\ Len(<<t>>) = 1
    OBVIOUS
  <2>2. r \in Seq(Tasks) /\ Len(r) = 1 + n
    BY <2>1, ConcatProperties
  <2>3. n \in Nat /\ DOMAIN s = 1..n
    BY LenProperties
  <2>4. DOMAIN r = 1..Len(r)
    BY <2>2, LenProperties
  <2> QED BY <2>2, <2>3, <2>4
<1>2. r[1] = t /\ \A i \in 2..(n + 1) : r[i] = s[i - 1] /\ i - 1 \in 1..n
  OBVIOUS
<1>3. \A i \in 1..(n + 1) : i = 1 \/ i \in 2..(n + 1)
  BY <1>1
<1>4. \A i \in 1..n : i + 1 \in 2..(n + 1) /\ r[i + 1] = s[i]
  BY <1>1, <1>2
<1>5. 1 \in 1..(n + 1) /\ 2..(n + 1) \subseteq 1..(n + 1)
  BY <1>1
<1> HIDE DEF r, n
<1>6. Elems(r) = Elems(s) \cup {t}
  <2>1. ASSUME NEW u \in Elems(r) PROVE u \in Elems(s) \cup {t}
    BY <1>1, <1>2, <1>3 DEF Elems
  <2>2. ASSUME NEW u \in Elems(s) PROVE u \in Elems(r)
    <3>1. PICK i \in 1..n : u = s[i]
      BY <1>1 DEF Elems
    <3> QED BY <3>1, <1>1, <1>4, <1>5 DEF Elems
  <2>3. t \in Elems(r)
    BY <1>1, <1>2, <1>5 DEF Elems
  <2> QED BY <2>1, <2>2, <2>3
<1>7. ASSUME NoDup(s), t \notin Elems(s) PROVE NoDup(r)
  <2> SUFFICES ASSUME NEW i \in 1..(n + 1), NEW j \in 1..(n + 1), r[i] = r[j]
               PROVE  i = j
    BY <1>1 DEF NoDup
  <2>1. \A k \in 1..n : s[k] # t
    BY <1>1, <1>7 DEF Elems
  <2>2. CASE i = 1 \/ j = 1
    BY <1>2, <1>3, <2>1, <2>2
  <2>3. CASE i \in 2..(n + 1) /\ j \in 2..(n + 1)
    <3>1. s[i - 1] = s[j - 1] /\ i - 1 \in 1..n /\ j - 1 \in 1..n
      BY <1>2, <2>3
    <3>2. i - 1 = j - 1
      BY <3>1, <1>1, <1>7 DEF NoDup
    <3> QED BY <3>2
  <2> QED BY <1>3, <2>2, <2>3
<1> QED BY <1>6, <1>7 DEF r

(* The head of a list taken off, as in dequeue and in the list walks.      *)
LEMMA ElemsTail ==
    ASSUME NEW s \in Seq(Tasks), s # <<>>, NoDup(s)
    PROVE  /\ Head(s) \in Elems(s)
           /\ Elems(Tail(s)) = Elems(s) \ {Head(s)}
           /\ NoDup(Tail(s))
<1> DEFINE r == Tail(s)
<1> DEFINE n == Len(s)
<1>1. n \in Nat /\ n >= 1 /\ DOMAIN s = 1..n /\ DOMAIN r = 1..(n - 1)
  <2>1. n \in Nat /\ DOMAIN s = 1..n
    BY LenProperties
  <2>2. n # 0
    BY EmptySeq
  <2>3. r \in Seq(Tasks) /\ Len(r) = n - 1
    BY HeadTailProperties
  <2>4. DOMAIN r = 1..Len(r)
    BY <2>3, LenProperties
  <2> QED BY <2>1, <2>2, <2>3, <2>4
<1>2. Head(s) = s[1] /\ \A i \in 1..(n - 1) : r[i] = s[i + 1]
  BY HeadTailProperties
<1>3. \A i \in 1..n : i = 1 \/ i - 1 \in 1..(n - 1)
  BY <1>1
<1>4. \A i \in 1..(n - 1) : i + 1 \in 1..n /\ i + 1 # 1
  BY <1>1
<1>5. 1 \in 1..n
  BY <1>1
<1> HIDE DEF r, n
<1>6. Head(s) \in Elems(s)
  BY <1>1, <1>2, <1>5 DEF Elems
<1>7. Elems(r) = Elems(s) \ {Head(s)}
  <2>1. ASSUME NEW u \in Elems(r) PROVE u \in Elems(s) /\ u # Head(s)
    <3>1. PICK i \in 1..(n - 1) : u = s[i + 1]
      BY <1>1, <1>2 DEF Elems
    <3> QED BY <3>1, <1>1, <1>2, <1>4, <1>5 DEF Elems, NoDup
  <2>2. ASSUME NEW u \in Elems(s), u # Head(s) PROVE u \in Elems(r)
    <3>1. PICK i \in 1..n : u = s[i]
      BY <1>1 DEF Elems
    <3>2. i - 1 \in 1..(n - 1)
      BY <3>1, <2>2, <1>2, <1>3
    <3>3. r[i - 1] = s[(i - 1) + 1]
      BY <3>2, <1>2
    <3>4. (i - 1) + 1 = i
      OBVIOUS
    <3> QED BY <3>1, <3>2, <3>3, <3>4, <1>1 DEF Elems
  <2> QED BY <2>1, <2>2
<1>8. NoDup(r)
  <2> SUFFICES ASSUME NEW i \in 1..(n - 1), NEW j \in 1..(n - 1), r[i] = r[j]
               PROVE  i = j
    BY <1>1 DEF NoDup
  <2>1. s[i + 1] = s[j + 1] /\ i + 1 \in 1..n /\ j + 1 \in 1..n
    BY <1>2, <1>4
  <2>2. i + 1 = j + 1
    BY <2>1, <1>1 DEF NoDup
  <2> QED BY <2>2
<1> QED BY <1>6, <1>7, <1>8 DEF r

----------------------------------------------------------------------------
(* The four kinds of places.                                               *)
InQueue(t) == \E p \in 0..MaxPrio : t \in Elems(queues[p])
InDeps(t)  == \E x \in Tasks : t \in Elems(deps[x])
InWalk(t)  == \E th \in Threads : t \in Elems(walk[th])
IsRun(t)   == \E w \in Workers : cur[w] = t

ListInv ==
    /\ \A p \in 0..MaxPrio : NoDup(queues[p])
    /\ \A x \in Tasks : NoDup(deps[x])
    /\ \A th \in Threads : NoDup(walk[th])

(* A task has one place while it is active, and none otherwise.            *)
PlacedOnce(t) ==
    /\ \A p, r \in 0..MaxPrio : t \in Elems(queues[p]) /\ t \in Elems(queues[r]) => p = r
    /\ \A x, y \in Tasks : t \in Elems(deps[x]) /\ t \in Elems(deps[y]) => x = y
    /\ \A u, v \in Threads : t \in Elems(walk[u]) /\ t \in Elems(walk[v]) => u = v
    /\ \A u, v \in Workers : cur[u] = t /\ cur[v] = t => u = v
    /\ InQueue(t) => ~InDeps(t) /\ ~InWalk(t) /\ ~IsRun(t)
    /\ InDeps(t) => ~InWalk(t) /\ ~IsRun(t)
    /\ InWalk(t) => ~IsRun(t)
    /\ status[t] = "active" <=> InQueue(t) \/ InDeps(t) \/ InWalk(t) \/ IsRun(t)

(* Lists are walked in deactivate_task and in handle_finished only.        *)
WalkInv == \A th \in Threads : walk[th] # <<>> => pc[th] \in {"clean", "finish"}

PlaceInv == TypeInv /\ ListInv /\ WalkInv /\ \A t \in Tasks : PlacedOnce(t)

(* A step that does not move task u.                                       *)
Stays(u) ==
    /\ \A p \in 0..MaxPrio : u \in Elems(queues'[p]) <=> u \in Elems(queues[p])
    /\ \A x \in Tasks : u \in Elems(deps'[x]) <=> u \in Elems(deps[x])
    /\ \A th \in Threads : u \in Elems(walk'[th]) <=> u \in Elems(walk[th])
    /\ \A w \in Workers : cur'[w] = u <=> cur[w] = u
    /\ status'[u] = "active" <=> status[u] = "active"

LEMMA StaysPlaced ==
    ASSUME NEW u \in Tasks, PlacedOnce(u), Stays(u)
    PROVE  PlacedOnce(u)'
BY DEF PlacedOnce, Stays, InQueue, InDeps, InWalk, IsRun

LEMMA ListsUnchanged ==
    ASSUME ListInv, UNCHANGED <<queues, deps, walk>>
    PROVE  ListInv'
BY DEF ListInv

LEMMA PlacesUnchanged ==
    ASSUME PlaceInv, UNCHANGED <<queues, deps, walk, cur>>,
           \A u \in Tasks : status'[u] = "active" <=> status[u] = "active"
    PROVE  ListInv' /\ \A u \in Tasks : PlacedOnce(u)'
<1>1. \A u \in Tasks : Stays(u)
  BY DEF Stays
<1>2. \A u \in Tasks : PlacedOnce(u)
  BY DEF PlaceInv
<1>3. ListInv'
  BY ListsUnchanged DEF PlaceInv
<1> QED BY <1>1, <1>2, <1>3, StaysPlaced

(* enqueue_core adds t to one queue.                                       *)
LEMMA EnqueueElems ==
    ASSUME TypeInv, ListInv, NEW t \in Tasks, ~InQueue(t), NEW pr \in Nat, NEW pcs,
           EnqueueCore(t, pr, pcs)
    PROVE  /\ \E c \in 0..MaxPrio : \A p \in 0..MaxPrio :
                Elems(queues'[p]) = IF p = c THEN Elems(queues[p]) \cup {t}
                                    ELSE Elems(queues[p])
           /\ \A p \in 0..MaxPrio : NoDup(queues'[p])
<1> DEFINE c == Clamp(pr)
<1>1. c \in 0..MaxPrio
  BY MaxPrioAssumption DEF Clamp
<1>2. queues' = [queues EXCEPT ![c] = Append(@, t)]
  BY DEF EnqueueCore
<1> HIDE DEF c
<1>3. \A p \in 0..MaxPrio : queues[p] \in Seq(Tasks)
  BY DEF TypeInv, TypeOK
<1>4. \A p \in 0..MaxPrio : queues'[p] = IF p = c THEN Append(queues[p], t) ELSE queues[p]
  BY <1>2 DEF TypeInv, TypeOK
<1>5. \A p \in 0..MaxPrio : t \notin Elems(queues[p]) /\ NoDup(queues[p])
  BY DEF InQueue, ListInv
<1>6. Elems(queues'[c]) = Elems(queues[c]) \cup {t} /\ NoDup(queues'[c])
  BY <1>1, <1>3, <1>4, <1>5, ElemsAppend
<1>7. \A p \in 0..MaxPrio : p # c => queues'[p] = queues[p]
  BY <1>4
<1> QED BY <1>1, <1>5, <1>6, <1>7

(* dequeue takes the head of one queue.                                    *)
LEMMA DequeueElems ==
    ASSUME PlaceInv, queuesSize # 0, Dequeue
    PROVE  LET h == Head(queues[maxPrio]) IN
           /\ h \in Tasks /\ InQueue(h)
           /\ \A p \in 0..MaxPrio : Elems(queues'[p]) = Elems(queues[p]) \ {h}
           /\ \A p \in 0..MaxPrio : NoDup(queues'[p])
<1> DEFINE h == Head(queues[maxPrio])
<1>1. queues[maxPrio] # <<>> /\ h \in Tasks /\ maxPrio \in 0..MaxPrio
  BY DequeueKeepsQueues DEF PlaceInv, TypeInv, TypeOK
<1>2. queues' = [queues EXCEPT ![maxPrio] = Tail(@)]
  BY DEF Dequeue
<1>3. \A p \in 0..MaxPrio : queues[p] \in Seq(Tasks) /\ NoDup(queues[p])
  BY DEF PlaceInv, TypeInv, TypeOK, ListInv
<1>4. queues'[maxPrio] = Tail(queues[maxPrio]) /\ \A p \in 0..MaxPrio : p # maxPrio => queues'[p] = queues[p]
  BY <1>1, <1>2 DEF PlaceInv, TypeInv, TypeOK
<1>5. /\ h \in Elems(queues[maxPrio])
      /\ Elems(queues'[maxPrio]) = Elems(queues[maxPrio]) \ {h}
      /\ NoDup(queues'[maxPrio])
  BY <1>1, <1>3, <1>4, ElemsTail
<1> HIDE DEF h
<1>6. \A p \in 0..MaxPrio : h \in Elems(queues[p]) => p = maxPrio
  BY <1>1, <1>5 DEF PlaceInv, PlacedOnce
<1>7. InQueue(h)
  BY <1>1, <1>5 DEF InQueue
<1> QED BY <1>1, <1>3, <1>4, <1>5, <1>6, <1>7 DEF h

(* A worker or a deleting thread takes the head of the list it walks.      *)
LEMMA WalkElems ==
    ASSUME PlaceInv, NEW th \in Threads, walk[th] # <<>>,
           walk' = [walk EXCEPT ![th] = Tail(@)]
    PROVE  LET it == Head(walk[th]) IN
           /\ it \in Tasks /\ it \in Elems(walk[th]) /\ InWalk(it)
           /\ \A u \in Threads : Elems(walk'[u]) = Elems(walk[u]) \ {it}
           /\ \A u \in Threads : NoDup(walk'[u])
<1> DEFINE it == Head(walk[th])
<1>1. \A u \in Threads : walk[u] \in Seq(Tasks) /\ NoDup(walk[u])
  BY DEF PlaceInv, TypeInv, TypeOK, ListInv
<1>2. walk'[th] = Tail(walk[th]) /\ \A u \in Threads : u # th => walk'[u] = walk[u]
  BY DEF PlaceInv, TypeInv, TypeOK
<1>3. it \in Elems(walk[th]) /\ Elems(walk'[th]) = Elems(walk[th]) \ {it} /\ NoDup(walk'[th])
  BY <1>1, <1>2, ElemsTail
<1> HIDE DEF it
<1>4. it \in Tasks
  BY <1>1, <1>3, ElemsOfSeq
<1>5. \A u \in Threads : it \in Elems(walk[u]) => u = th
  BY <1>3, <1>4 DEF PlaceInv, PlacedOnce
<1>6. InWalk(it)
  BY <1>3 DEF InWalk
<1> QED BY <1>1, <1>2, <1>3, <1>4, <1>5, <1>6 DEF it

(* deactivate_task and handle_finished take the whole list of task x.      *)
LEMMA TakeListElems ==
    ASSUME PlaceInv, NEW th \in Threads, NEW x \in Tasks, walk[th] = <<>>,
           walk' = [walk EXCEPT ![th] = deps[x]], deps' = [deps EXCEPT ![x] = <<>>]
    PROVE  /\ Elems(walk'[th]) = Elems(deps[x]) /\ Elems(walk[th]) = {}
           /\ \A u \in Threads : u # th => walk'[u] = walk[u]
           /\ Elems(deps'[x]) = {} /\ deps'[x] = <<>>
           /\ \A y \in Tasks : y # x => deps'[y] = deps[y]
           /\ \A u \in Threads : NoDup(walk'[u])
           /\ \A y \in Tasks : NoDup(deps'[y])
<1>1. walk'[th] = deps[x] /\ \A u \in Threads : u # th => walk'[u] = walk[u]
  BY DEF PlaceInv, TypeInv, TypeOK
<1>2. deps'[x] = <<>> /\ \A y \in Tasks : y # x => deps'[y] = deps[y]
  BY DEF PlaceInv, TypeInv, TypeOK
<1> QED BY <1>1, <1>2, ElemsEmpty DEF PlaceInv, ListInv

----------------------------------------------------------------------------
(* The steps.  A task that is not mentioned stays where it is.             *)

Placed == ListInv /\ \A u \in Tasks : PlacedOnce(u)

(* mk_task, and task_map of a finished task: the new task is enqueued.     *)
LEMMA PlaceNewQueued ==
    ASSUME PlaceInv, NEW t \in Tasks, status[t] = "none",
           status' = [status EXCEPT ![t] = "active"], UNCHANGED <<deps, walk, cur>>,
           NEW pr \in Nat, EnqueueCore(t, pr, pc)
    PROVE  Placed'
<1>0. TypeInv /\ ListInv /\ \A u \in Tasks : PlacedOnce(u)
  BY DEF PlaceInv
<1>1. ~InQueue(t) /\ ~InDeps(t) /\ ~InWalk(t) /\ ~IsRun(t)
  BY <1>0 DEF PlacedOnce
<1>2. PICK c \in 0..MaxPrio : \A p \in 0..MaxPrio :
         Elems(queues'[p]) = IF p = c THEN Elems(queues[p]) \cup {t} ELSE Elems(queues[p])
  BY <1>0, <1>1, EnqueueElems
<1>3. \A p \in 0..MaxPrio : NoDup(queues'[p])
  BY <1>0, <1>1, EnqueueElems
<1>4. status'[t] = "active" /\ \A u \in Tasks : u # t => status'[u] = status[u]
  BY <1>0 DEF TypeInv, TypeOK
<1>5. \A u \in Tasks : u # t => Stays(u)
  <2> TAKE u \in Tasks
  <2> HAVE u # t
  <2>1. \A p \in 0..MaxPrio : u \in Elems(queues'[p]) <=> u \in Elems(queues[p])
    BY <1>2
  <2> QED BY <1>4, <2>1 DEF Stays
<1>6. PlacedOnce(t)'
  BY <1>1, <1>2, <1>4 DEF PlacedOnce, InQueue, InDeps, InWalk, IsRun
<1>7. ListInv'
  BY <1>0, <1>3 DEF ListInv
<1> QED BY <1>0, <1>5, <1>6, <1>7, StaysPlaced DEF Placed

(* task_map of an unfinished task: the new task heads its list.            *)
LEMMA PlaceNewDependent ==
    ASSUME PlaceInv, NEW t \in Tasks, NEW x \in Tasks, status[t] = "none",
           status' = [status EXCEPT ![t] = "active"], UNCHANGED <<queues, walk, cur>>,
           deps' = [deps EXCEPT ![x] = <<t>> \o @]
    PROVE  Placed'
<1>0. TypeInv /\ ListInv /\ \A u \in Tasks : PlacedOnce(u)
  BY DEF PlaceInv
<1>1. ~InQueue(t) /\ ~InDeps(t) /\ ~InWalk(t) /\ ~IsRun(t)
  BY <1>0 DEF PlacedOnce
<1>2. deps'[x] = <<t>> \o deps[x] /\ \A y \in Tasks : y # x => deps'[y] = deps[y]
  BY <1>0 DEF TypeInv, TypeOK
<1>3. deps[x] \in Seq(Tasks) /\ NoDup(deps[x]) /\ t \notin Elems(deps[x])
  BY <1>0, <1>1 DEF TypeInv, TypeOK, ListInv, InDeps
<1>4. Elems(deps'[x]) = Elems(deps[x]) \cup {t} /\ NoDup(deps'[x])
  BY <1>2, <1>3, ElemsCons
<1>5. status'[t] = "active" /\ \A u \in Tasks : u # t => status'[u] = status[u]
  BY <1>0 DEF TypeInv, TypeOK
<1>6. \A u \in Tasks : u # t => Stays(u)
  BY <1>2, <1>4, <1>5 DEF Stays
<1>7. PlacedOnce(t)'
  BY <1>1, <1>2, <1>4, <1>5 DEF PlacedOnce, InQueue, InDeps, InWalk, IsRun
<1>8. ListInv'
  BY <1>0, <1>2, <1>4 DEF ListInv
<1> QED BY <1>0, <1>6, <1>7, <1>8, StaysPlaced DEF Placed

(* deactivate_task and handle_finished take the list of a task over.       *)
LEMMA PlaceTakeList ==
    ASSUME PlaceInv, NEW th \in Threads, NEW x \in Tasks, walk[th] = <<>>,
           walk' = [walk EXCEPT ![th] = deps[x]], deps' = [deps EXCEPT ![x] = <<>>],
           UNCHANGED <<status, queues, cur>>
    PROVE  Placed'
<1>0. ListInv /\ \A u \in Tasks : PlacedOnce(u)
  BY DEF PlaceInv
<1>1. /\ Elems(walk'[th]) = Elems(deps[x]) /\ Elems(walk[th]) = {}
      /\ \A u \in Threads : u # th => walk'[u] = walk[u]
      /\ Elems(deps'[x]) = {}
      /\ \A y \in Tasks : y # x => deps'[y] = deps[y]
  BY TakeListElems
<1>2. \A u \in Tasks : u \notin Elems(deps[x]) => Stays(u)
  BY <1>1 DEF Stays
<1>3. ASSUME NEW u \in Elems(deps[x]), u \in Tasks
      PROVE  PlacedOnce(u)'
  <2>1. PlacedOnce(u) /\ InDeps(u)
    BY <1>0, <1>3 DEF InDeps
  <2>2. /\ ~InQueue(u) /\ ~InWalk(u) /\ ~IsRun(u)
        /\ \A y \in Tasks : u \in Elems(deps[y]) => y = x
        /\ status[u] = "active"
    BY <2>1, <1>3 DEF PlacedOnce
  <2>3. ~InQueue(u)' /\ ~IsRun(u)' /\ ~InDeps(u)' /\ status'[u] = "active"
    BY <2>2, <1>1 DEF InQueue, IsRun, InDeps
  <2>4. /\ \A v \in Threads : u \in Elems(walk'[v]) => v = th
        /\ InWalk(u)'
    BY <2>2, <1>1, <1>3 DEF InWalk
  <2>5. \A y \in Tasks : u \notin Elems(deps'[y])
    BY <2>3 DEF InDeps
  <2>6. \A p \in 0..MaxPrio : u \notin Elems(queues'[p])
    BY <2>3 DEF InQueue
  <2>7. \A w \in Workers : cur'[w] # u
    BY <2>3 DEF IsRun
  <2> QED BY <2>3, <2>4, <2>5, <2>6, <2>7 DEF PlacedOnce
<1>4. ListInv'
  BY <1>0, TakeListElems DEF ListInv
<1> QED BY <1>0, <1>2, <1>3, <1>4, StaysPlaced DEF Placed

(* A task that leaves the list it is in is freed or enqueued.              *)
LEMMA PlaceWalk ==
    ASSUME PlaceInv, NEW th \in Threads, walk[th] # <<>>,
           walk' = [walk EXCEPT ![th] = Tail(@)], UNCHANGED <<deps, cur>>,
           \/ status' = [status EXCEPT ![Head(walk[th])] = "freed"] /\ UNCHANGED queues
           \/ EnqueueCore(Head(walk[th]), prio[Head(walk[th])], pc) /\ UNCHANGED status
    PROVE  Placed'
<1>0. TypeInv /\ ListInv /\ \A u \in Tasks : PlacedOnce(u)
  BY DEF PlaceInv
<1>1. PICK it : it = Head(walk[th])
  OBVIOUS
<1>a. /\ it \in Tasks /\ it \in Elems(walk[th]) /\ InWalk(it)
      /\ \A u \in Threads : Elems(walk'[u]) = Elems(walk[u]) \ {it}
      /\ \A u \in Threads : NoDup(walk'[u])
  BY <1>1, WalkElems
<1>2. \/ status' = [status EXCEPT ![it] = "freed"] /\ UNCHANGED queues
      \/ EnqueueCore(it, prio[it], pc) /\ UNCHANGED status
  BY <1>1
<1>3. ~InQueue(it) /\ ~InDeps(it) /\ ~IsRun(it) /\ status[it] = "active"
  BY <1>0, <1>a DEF PlacedOnce
<1>4. ~InWalk(it)' /\ ~InDeps(it)' /\ ~IsRun(it)'
  BY <1>a, <1>3 DEF InWalk, InDeps, IsRun
<1>5. CASE status' = [status EXCEPT ![it] = "freed"] /\ UNCHANGED queues
  <2>1. status'[it] = "freed" /\ \A u \in Tasks : u # it => status'[u] = status[u]
    BY <1>0, <1>a, <1>5 DEF TypeInv, TypeOK
  <2>2. \A u \in Tasks : u # it => Stays(u)
    BY <1>a, <1>5, <2>1 DEF Stays
  <2>3. ~InQueue(it)'
    BY <1>3, <1>5 DEF InQueue
  <2>4. PlacedOnce(it)'
    BY <1>4, <2>1, <2>3 DEF PlacedOnce, InQueue, InDeps, InWalk, IsRun
  <2>5. ListInv'
    BY <1>0, <1>a, <1>5 DEF ListInv
  <2> QED BY <1>0, <1>a, <2>2, <2>4, <2>5, StaysPlaced DEF Placed
<1>6. CASE EnqueueCore(it, prio[it], pc) /\ UNCHANGED status
  <2>1. prio[it] \in Nat
    BY <1>0, <1>a DEF TypeInv, TypeOK
  <2>2. PICK c \in 0..MaxPrio : \A p \in 0..MaxPrio :
           Elems(queues'[p]) = IF p = c THEN Elems(queues[p]) \cup {it} ELSE Elems(queues[p])
    BY <1>0, <1>a, <1>3, <1>6, <2>1, EnqueueElems
  <2>3. \A p \in 0..MaxPrio : NoDup(queues'[p])
    BY <1>0, <1>a, <1>3, <1>6, <2>1, EnqueueElems
  <2>4. \A u \in Tasks : u # it => Stays(u)
    BY <1>a, <1>6, <2>2 DEF Stays
  <2>5. \A p \in 0..MaxPrio : it \in Elems(queues'[p]) <=> p = c
    BY <1>3, <2>2 DEF InQueue
  <2>6. PlacedOnce(it)'
    BY <1>3, <1>4, <1>6, <2>5 DEF PlacedOnce, InQueue, InDeps, InWalk, IsRun
  <2>7. ListInv'
    BY <1>0, <1>a, <2>3 DEF ListInv
  <2> QED BY <1>0, <1>a, <2>4, <2>6, <2>7, StaysPlaced DEF Placed
<1> QED BY <1>2, <1>5, <1>6

(* A worker dequeues a task, and frees it or runs it.                      *)
LEMMA PlaceDequeue ==
    ASSUME PlaceInv, NEW w \in Workers, queuesSize # 0, Dequeue, cur[w] = NoTask,
           UNCHANGED <<deps, walk>>,
           \/ status' = [status EXCEPT ![Head(queues[maxPrio])] = "freed"] /\ UNCHANGED cur
           \/ cur' = [cur EXCEPT ![w] = Head(queues[maxPrio])] /\ UNCHANGED status
    PROVE  Placed'
<1>0. TypeInv /\ ListInv /\ \A u \in Tasks : PlacedOnce(u)
  BY DEF PlaceInv
<1>1. PICK h : h = Head(queues[maxPrio])
  OBVIOUS
<1>a. /\ h \in Tasks /\ InQueue(h)
      /\ \A p \in 0..MaxPrio : Elems(queues'[p]) = Elems(queues[p]) \ {h}
      /\ \A p \in 0..MaxPrio : NoDup(queues'[p])
  BY <1>1, DequeueElems
<1>2. \/ status' = [status EXCEPT ![h] = "freed"] /\ UNCHANGED cur
      \/ cur' = [cur EXCEPT ![w] = h] /\ UNCHANGED status
  BY <1>1
<1>3. ~InDeps(h) /\ ~InWalk(h) /\ ~IsRun(h) /\ status[h] = "active"
  BY <1>0, <1>a DEF PlacedOnce
<1>4. ~InQueue(h)' /\ ~InDeps(h)' /\ ~InWalk(h)'
  BY <1>a, <1>3 DEF InQueue, InDeps, InWalk
<1>5. ListInv'
  BY <1>0, <1>a DEF ListInv
<1>6. CASE status' = [status EXCEPT ![h] = "freed"] /\ UNCHANGED cur
  <2>1. status'[h] = "freed" /\ \A u \in Tasks : u # h => status'[u] = status[u]
    BY <1>0, <1>a, <1>6 DEF TypeInv, TypeOK
  <2>2. \A u \in Tasks : u # h => Stays(u)
    BY <1>a, <1>6, <2>1 DEF Stays
  <2>3. ~IsRun(h)'
    BY <1>3, <1>6 DEF IsRun
  <2>4. PlacedOnce(h)'
    BY <1>4, <2>1, <2>3 DEF PlacedOnce, InQueue, InDeps, InWalk, IsRun
  <2> QED BY <1>0, <1>5, <2>2, <2>4, StaysPlaced DEF Placed
<1>7. CASE cur' = [cur EXCEPT ![w] = h] /\ UNCHANGED status
  <2>1. cur'[w] = h /\ \A v \in Workers : v # w => cur'[v] = cur[v]
    BY <1>0, <1>7 DEF TypeInv, TypeOK, Threads
  <2>2. \A u \in Tasks : u # h => Stays(u)
    BY <1>a, <1>7, <2>1, TasksAssumption DEF Stays
  <2>3. \A v \in Workers : cur'[v] = h <=> v = w
    BY <1>3, <2>1 DEF IsRun
  <2>4. PlacedOnce(h)'
    BY <1>3, <1>4, <1>7, <2>3 DEF PlacedOnce, InQueue, InDeps, InWalk, IsRun
  <2> QED BY <1>0, <1>5, <2>2, <2>4, StaysPlaced DEF Placed
<1> QED BY <1>2, <1>6, <1>7

(* A worker is done with its task.                                         *)
LEMMA PlaceLeaveWorker ==
    ASSUME PlaceInv, NEW w \in Workers, cur[w] \in Tasks,
           status'[cur[w]] # "active",
           \A u \in Tasks : u # cur[w] => status'[u] = status[u],
           cur' = [cur EXCEPT ![w] = NoTask], UNCHANGED <<queues, deps, walk>>
    PROVE  Placed'
<1>0. TypeInv /\ ListInv /\ \A u \in Tasks : PlacedOnce(u)
  BY DEF PlaceInv
<1>1. PICK t \in Tasks : IsRun(t) /\ cur[w] = t
  BY DEF IsRun
<1>2. cur'[w] = NoTask /\ \A v \in Workers : v # w => cur'[v] = cur[v]
  BY <1>0 DEF TypeInv, TypeOK, Threads
<1>3. status'[t] # "active" /\ \A u \in Tasks : u # t => status'[u] = status[u]
  BY <1>1
<1>4. \A u \in Tasks : u # t => Stays(u)
  BY <1>1, <1>2, <1>3, TasksAssumption DEF Stays
<1>5. ~InQueue(t) /\ ~InDeps(t) /\ ~InWalk(t) /\ \A v \in Workers : cur[v] = t => v = w
  BY <1>0, <1>1 DEF PlacedOnce
<1>6. ~InQueue(t)' /\ ~InDeps(t)' /\ ~InWalk(t)' /\ ~IsRun(t)'
  BY <1>1, <1>2, <1>5, TasksAssumption DEF InQueue, InDeps, InWalk, IsRun
<1>7. PlacedOnce(t)'
  BY <1>3, <1>6 DEF PlacedOnce, InQueue, InDeps, InWalk, IsRun
<1>8. ListInv'
  BY <1>0, ListsUnchanged
<1> QED BY <1>0, <1>4, <1>7, <1>8, StaysPlaced DEF Placed

(* The destructor frees what is left in the queues.                        *)
LEMMA PlaceJoin ==
    ASSUME PlaceInv, NEW c \in Clients, Join(c)
    PROVE  Placed'
<1>0. TypeInv /\ ListInv /\ \A u \in Tasks : PlacedOnce(u)
  BY DEF PlaceInv
<1>1. /\ \A p \in 0..MaxPrio : queues'[p] = <<>>
      /\ \A t \in Tasks : status'[t] = IF InQueue(t) THEN "freed" ELSE status[t]
      /\ UNCHANGED <<deps, walk, cur>>
  BY DEF Join, InQueue, Elems, threadVars
<1>2. \A p \in 0..MaxPrio : Elems(queues'[p]) = {} /\ NoDup(queues'[p])
  BY <1>1, ElemsEmpty
<1>3. ListInv'
  BY <1>0, <1>1, <1>2 DEF ListInv
<1>4. ASSUME NEW t \in Tasks
      PROVE  PlacedOnce(t)'
  <2>1. CASE InQueue(t)
    <3>1. ~InDeps(t) /\ ~InWalk(t) /\ ~IsRun(t) /\ status'[t] = "freed"
      BY <1>0, <1>1, <2>1 DEF PlacedOnce
    <3>2. ~InQueue(t)' /\ ~InDeps(t)' /\ ~InWalk(t)' /\ ~IsRun(t)'
      BY <1>1, <1>2, <3>1 DEF InQueue, InDeps, InWalk, IsRun
    <3> QED BY <3>1, <3>2 DEF PlacedOnce, InQueue, InDeps, InWalk, IsRun
  <2>2. CASE ~InQueue(t)
    <3>1. Stays(t)
      BY <1>1, <1>2, <2>2 DEF Stays, InQueue
    <3> QED BY <1>0, <3>1, StaysPlaced
  <2> QED BY <2>1, <2>2
<1> QED BY <1>3, <1>4 DEF Placed

(* The list a thread has not yet taken is empty.                           *)
LEMMA NoWalkYet ==
    ASSUME PlaceInv, NEW th \in Threads, pc[th] \notin {"clean", "finish"}
    PROVE  walk[th] = <<>>
BY DEF PlaceInv, WalkInv

LEMMA PlaceStep ==
    ASSUME PlaceInv, Next
    PROVE  Placed'
<1> USE DEF Placed
<1>1. ASSUME UNCHANGED <<status, queues, deps, walk, cur>> PROVE Placed'
  BY <1>1, PlacesUnchanged
<1>2. ASSUME NEW th \in Threads, Call(th)
      PROVE  Placed'
  <2>1. ASSUME NEW t \in Tasks, NEW C \in SUBSET handles[th], NEW pr \in Prios,
               MkTask(th, t, C, pr)
        PROVE  Placed'
    <3>1. pr \in Nat
      BY PriosAssumption
    <3> QED BY <2>1, <3>1, PlaceNewQueued DEF MkTask, Alloc
  <2>2. ASSUME NEW t \in Tasks, TaskPure(th, t)
        PROVE  Placed'
    <3>1. \A u \in Tasks : status'[u] = "active" <=> status[u] = "active"
      BY <2>2 DEF TaskPure, PlaceInv, TypeInv, TypeOK
    <3> QED BY <2>2, <3>1, PlacesUnchanged DEF TaskPure, queueVars
  <2>3. ASSUME NEW x \in handles[th], NEW t \in Tasks, NEW pr \in Prios,
               TaskMap(th, x, t, pr)
        PROVE  Placed'
    <3>1. pr \in Nat /\ x \in Tasks
      BY PriosAssumption DEF PlaceInv, TypeInv, TypeOK
    <3>2. CASE EnqueueCore(t, pr, pc) /\ deps' = deps
      BY <2>3, <3>1, <3>2, PlaceNewQueued DEF TaskMap, NewDependent, Alloc
    <3>3. CASE deps' = [deps EXCEPT ![x] = <<t>> \o @] /\ UNCHANGED <<queueVars, pc>>
      BY <2>3, <3>1, <3>3, PlaceNewDependent DEF TaskMap, NewDependent, Alloc, queueVars
    <3> QED BY <2>3, <3>2, <3>3 DEF TaskMap, NewDependent
  <2>4. CASE \/ \E S \in SUBSET handles[th] : TaskGet(th, S)
             \/ \E x \in handles[th] : RequestInterrupt(th, x)
    BY <2>4, <1>1 DEF TaskGet, RequestInterrupt, taskVars, queueVars, threadVars
  <2> QED BY <1>2, <2>1, <2>2, <2>3, <2>4 DEF Call
<1>3. ASSUME NEW th \in Threads, DropSome(th) \/ Internal(th) \/ SpuriousWakeup(th)
      PROVE  Placed'
  <2>1. CASE DropSome(th) \/ WaitFor(th) \/ DropCaptured(th) \/ EndDrop(th) \/ SpuriousWakeup(th)
    BY <2>1, <1>1 DEF DropSome, Drop, WaitFor, DropCaptured, EndDrop, SpuriousWakeup,
                      taskVars, queueVars, threadVars
  <2>2. CASE DeactivateTask(th)
    <3>1. tgt[th] \in Tasks
      BY <2>2 DEF DeactivateTask, Deactivate, PlaceInv, TypeInv, ControlInv, TypeOK
    <3>2. CASE status[tgt[th]] = "done"
      <4>1. \A u \in Tasks : status'[u] = "active" <=> status[u] = "active"
        BY <2>2, <3>1, <3>2 DEF DeactivateTask, Deactivate, PlaceInv, TypeInv, TypeOK
      <4>2. UNCHANGED <<queues, deps, walk, cur>>
        BY <2>2, <3>2 DEF DeactivateTask, Deactivate, queueVars
      <4> QED BY <4>1, <4>2, PlacesUnchanged
    <3>3. CASE status[tgt[th]] # "done"
      <4>1. walk[th] = <<>>
        BY <2>2, NoWalkYet DEF DeactivateTask, Deactivate
      <4>2. /\ walk' = [walk EXCEPT ![th] = deps[tgt[th]]]
            /\ deps' = [deps EXCEPT ![tgt[th]] = <<>>]
            /\ UNCHANGED <<status, queues, cur>>
        BY <2>2, <3>3 DEF DeactivateTask, Deactivate, queueVars
      <4> QED BY <3>1, <4>1, <4>2, PlaceTakeList
    <3> QED BY <3>2, <3>3
  <2>3. CASE FreeDep(th)
    BY <2>3, PlaceWalk DEF FreeDep, queueVars
  <2> QED BY <1>3, <2>1, <2>2, <2>3 DEF Internal
<1>4. ASSUME NEW w \in Workers, Work(w)
      PROVE  Placed'
  <2>0. w \in Threads /\ (pc[w] \in RunningPcs => cur[w] \in Tasks) /\ (pc[w] \notin RunningPcs => cur[w] = NoTask)
    BY DEF Threads, PlaceInv, TypeInv, TypeOK, ControlInv
  <2>1. CASE WorkerExit(w) \/ WorkerSleep(w) \/ TaskMapFn(w) \/ Return(w)
    BY <2>1, <1>1 DEF WorkerExit, WorkerSleep, TaskMapFn, ReadSource, Return,
                      taskVars, queueVars, threadVars
  <2>2. CASE WorkerDiscard(w) \/ WorkerStart(w)
    <3>1. cur[w] = NoTask
      BY <2>0, <2>2 DEF WorkerDiscard, WorkerStart, CanDequeue, RunningPcs
    <3> QED BY <2>2, <3>1, PlaceDequeue DEF WorkerDiscard, WorkerStart, CanDequeue, threadVars
  <2>3. CASE RelockDeleted(w)
    <3>1. cur[w] \in Tasks
      BY <2>0, <2>3 DEF RelockDeleted, RunningPcs
    <3>2. status'[cur[w]] = "freed" /\ \A u \in Tasks : u # cur[w] => status'[u] = status[u]
      BY <2>3, <3>1 DEF RelockDeleted, PlaceInv, TypeInv, TypeOK
    <3> QED BY <2>3, <3>1, <3>2, PlaceLeaveWorker DEF RelockDeleted, queueVars
  <2>4. CASE RelockFinish(w)
    <3>1. cur[w] \in Tasks /\ walk[w] = <<>>
      BY <2>0, <2>4, NoWalkYet DEF RelockFinish, EnterFinish, RunningPcs
    <3> QED BY <2>0, <2>4, <3>1, PlaceTakeList DEF RelockFinish, EnterFinish, queueVars
  <2>5. CASE HandleFinished(w)
    BY <2>0, <2>5, PlaceWalk DEF HandleFinished, FinishDep, queueVars
  <2>6. CASE Finish(w)
    <3>1. cur[w] \in Tasks
      BY <2>0, <2>6 DEF Finish, Publish, RunningPcs
    <3>2. status'[cur[w]] = "done" /\ \A u \in Tasks : u # cur[w] => status'[u] = status[u]
      BY <2>6, <3>1 DEF Finish, Publish, PlaceInv, TypeInv, TypeOK
    <3> QED BY <2>6, <3>1, <3>2, PlaceLeaveWorker DEF Finish, Publish, queueVars
  <2> QED BY <1>4, <2>1, <2>2, <2>3, <2>4, <2>5, <2>6 DEF Work
<1>5. ASSUME NEW c \in Clients, Shutdown(c) \/ Join(c)
      PROVE  Placed'
  BY <1>1, <1>5, PlaceJoin DEF Shutdown, Destroy, queueVars, threadVars
<1> QED BY <1>2, <1>3, <1>4, <1>5 DEF Next

LEMMA WalkStep ==
    ASSUME PlaceInv, Next
    PROVE  WalkInv'
<1> USE DEF WalkInv, Step
<1>0. /\ pc \in [Threads -> Pcs] /\ walk \in [Threads -> Seq(Tasks)]
      /\ WalkInv /\ Workers \subseteq Threads
  BY DEF PlaceInv, TypeInv, TypeOK, Threads
<1>1. ASSUME NEW r \in SpawnOrNotify(pc), pc' = r, UNCHANGED walk
      PROVE  WalkInv'
  BY <1>0, <1>1, SpawnOrNotifyMoves
<1>2. ASSUME NEW th \in Threads, NEW p, pc' = [pc EXCEPT ![th] = p], UNCHANGED walk,
             walk[th] = <<>>
      PROVE  WalkInv'
  BY <1>0, <1>2
<1>3. ASSUME UNCHANGED <<pc, walk>>
      PROVE  WalkInv'
  BY <1>0, <1>3
<1>4. ASSUME NEW th \in Threads, Call(th)
      PROVE  WalkInv'
  <2>1. pc[th] \notin {"clean", "finish"} => walk[th] = <<>>
    BY <1>0
  <2>2. CASE \E S \in SUBSET handles[th] : TaskGet(th, S)
    BY <1>2, <2>1, <2>2 DEF TaskGet, CanCall
  <2> QED BY <1>1, <1>3, <1>4, <2>2
        DEF Call, MkTask, TaskPure, TaskMap, NewDependent, RequestInterrupt, EnqueueCore, threadVars
<1>5. ASSUME NEW th \in Threads, DropSome(th) \/ Internal(th) \/ SpuriousWakeup(th)
      PROVE  WalkInv'
  <2>1. pc[th] \notin {"clean", "finish"} => walk[th] = <<>>
    BY <1>0
  <2>2. CASE DropSome(th)
    BY <1>2, <2>1, <2>2 DEF DropSome, Drop, CanCall, DecRef
  <2>3. CASE DropCaptured(th)
    BY <1>2, <2>3 DEF DropCaptured, DecRef
  <2>4. CASE WaitFor(th)
    BY <1>2, <2>1, <2>4 DEF WaitFor
  <2>5. CASE DeactivateTask(th)
    <3>1. pc' = [pc EXCEPT ![th] = "clean"] /\ \A u \in Threads : u # th => walk'[u] = walk[u]
      BY <1>0, <2>5 DEF DeactivateTask, Deactivate
    <3> QED BY <1>0, <3>1
  <2>6. CASE FreeDep(th)
    <3>1. pc' = pc /\ pc[th] = "clean" /\ \A u \in Threads : u # th => walk'[u] = walk[u]
      BY <1>0, <2>6 DEF FreeDep
    <3> QED BY <1>0, <3>1
  <2>7. CASE EndDrop(th)
    BY <1>2, <2>7 DEF EndDrop, threadVars
  <2>8. CASE SpuriousWakeup(th)
    BY <1>2, <2>1, <2>8 DEF SpuriousWakeup, threadVars
  <2> QED BY <1>5, <2>2, <2>3, <2>4, <2>5, <2>6, <2>7, <2>8 DEF Internal
<1>6. ASSUME NEW w \in Workers, Work(w)
      PROVE  WalkInv'
  <2>0. w \in Threads
    BY DEF Threads
  <2>1. pc[w] \notin {"clean", "finish"} => walk[w] = <<>>
    BY <1>0, <2>0
  <2>2. CASE WorkerExit(w) \/ WorkerSleep(w) \/ WorkerStart(w) \/ TaskMapFn(w)
             \/ Return(w) \/ RelockDeleted(w)
    BY <1>2, <2>0, <2>1, <2>2 DEF WorkerExit, WorkerSleep, WorkerStart, CanDequeue, TaskMapFn,
       ReadSource, DecRef, Return, RelockDeleted, threadVars
  <2>3. CASE WorkerDiscard(w)
    BY <1>3, <2>3 DEF WorkerDiscard, threadVars
  <2>4. CASE RelockFinish(w)
    <3>1. pc' = [pc EXCEPT ![w] = "finish"] /\ \A u \in Threads : u # w => walk'[u] = walk[u]
      BY <1>0, <2>0, <2>4 DEF RelockFinish, EnterFinish
    <3> QED BY <1>0, <2>0, <3>1
  <2>5. CASE HandleFinished(w)
    <3>1. pc[w] = "finish" /\ \A u \in Threads : u # w => walk'[u] = walk[u]
      BY <1>0, <2>0, <2>5 DEF HandleFinished, FinishDep
    <3>2. pc' = pc \/ pc' \in SpawnOrNotify(pc)
      BY <2>5 DEF HandleFinished, FinishDep, EnqueueCore
    <3>3. \A u \in Threads : pc[u] \in {"clean", "finish"} => pc'[u] = pc[u]
      BY <1>0, <3>2, SpawnOrNotifyMoves
    <3> QED BY <1>0, <2>0, <3>1, <3>3
  <2>6. CASE Finish(w)
    BY <1>0, <2>0, <2>6 DEF Finish, Publish, Waiters
  <2> QED BY <1>6, <2>2, <2>3, <2>4, <2>5, <2>6 DEF Work
<1>7. ASSUME NEW c \in Clients, Shutdown(c) \/ Join(c)
      PROVE  WalkInv'
  <2>0. c \in Threads /\ pc[c] # "finish" /\ (pc[c] \notin {"clean", "finish"} => walk[c] = <<>>)
    BY <1>0 DEF Threads, PlaceInv, TypeInv, ControlInv, ClientPcs
  <2>1. CASE Shutdown(c)
    <3>1. \A u \in Threads : \/ pc'[u] = pc[u]
                             \/ pc[u] \notin {"clean", "finish"} /\ pc'[u] \in {"join", "loop"}
      BY <2>0, <2>1 DEF Shutdown, Destroy
    <3> QED BY <1>0, <2>1, <3>1 DEF Shutdown, Destroy, threadVars
  <2>2. CASE Join(c)
    BY <1>2, <2>0, <2>2 DEF Join, threadVars
  <2> QED BY <1>7, <2>1, <2>2
<1> QED BY <1>4, <1>5, <1>6, <1>7 DEF Next

(* What the invariant says of Places, the set of pointers to a task.       *)
LEMMA SlotsOfElems ==
    ASSUME NEW f, NEW t
    PROVE  (\E s \in Slots(f) : f[s[1]][s[2]] = t) <=> \E x \in DOMAIN f : t \in Elems(f[x])
<1>1. ASSUME NEW u \in Slots(f)
      PROVE  u[1] \in DOMAIN f /\ u[2] \in DOMAIN f[u[1]]
  BY DEF Slots
<1>2. ASSUME NEW x \in DOMAIN f, t \in Elems(f[x])
      PROVE  \E s \in Slots(f) : f[s[1]][s[2]] = t
  <2>1. PICK i \in DOMAIN f[x] : f[x][i] = t
    BY <1>2 DEF Elems
  <2>2. <<x, i>> \in Slots(f)
    BY DEF Slots
  <2> QED BY <2>1, <2>2
<1> QED BY <1>1, <1>2 DEF Elems

LEMMA OneSlot ==
    ASSUME NEW f, NEW t, \A x \in DOMAIN f : NoDup(f[x]),
           \A x, y \in DOMAIN f : t \in Elems(f[x]) /\ t \in Elems(f[y]) => x = y,
           NEW r \in Slots(f), f[r[1]][r[2]] = t,
           NEW s \in Slots(f), f[s[1]][s[2]] = t
    PROVE  r = s
<1>1. ASSUME NEW u \in Slots(f)
      PROVE  u = <<u[1], u[2]>> /\ u[1] \in DOMAIN f /\ u[2] \in DOMAIN f[u[1]]
  BY DEF Slots
<1>2. t \in Elems(f[r[1]]) /\ t \in Elems(f[s[1]])
  BY <1>1 DEF Elems
<1>3. r[1] = s[1]
  BY <1>1, <1>2
<1>4. r[2] = s[2]
  BY <1>1, <1>3 DEF NoDup
<1> QED BY <1>1, <1>3, <1>4

LEMMA PlacedOnceIsOnePlace ==
    ASSUME PlaceInv
    PROVE  ExactlyOnePlace
<1> SUFFICES ASSUME NEW t \in Tasks
             PROVE  /\ status[t] = "active" <=> Places(t) # {}
                    /\ \A a, b \in Places(t) : a = b
  BY DEF ExactlyOnePlace
<1>0. /\ PlacedOnce(t) /\ ListInv
      /\ DOMAIN queues = 0..MaxPrio /\ DOMAIN deps = Tasks /\ DOMAIN walk = Threads
  BY DEF PlaceInv, TypeInv, TypeOK
<1> DEFINE At(f) == {s \in Slots(f) : f[s[1]][s[2]] = t}
<1>1. /\ InQueue(t) <=> At(queues) # {}
      /\ InDeps(t) <=> At(deps) # {}
      /\ InWalk(t) <=> At(walk) # {}
  BY <1>0, SlotsOfElems DEF InQueue, InDeps, InWalk
<1>2. /\ \A r, s \in At(queues) : r = s
      /\ \A r, s \in At(deps) : r = s
      /\ \A r, s \in At(walk) : r = s
  BY <1>0, OneSlot DEF PlacedOnce, ListInv
<1>3. \A a : a \in Places(t) <=>
         \/ \E s \in At(queues) : a = <<"queue", s>>
         \/ \E s \in At(deps) : a = <<"dep", s>>
         \/ \E s \in At(walk) : a = <<"walk", s>>
         \/ \E w \in Workers : cur[w] = t /\ a = <<"run", w>>
  BY DEF Places
<1> HIDE DEF At
<1>4. Places(t) # {} <=> InQueue(t) \/ InDeps(t) \/ InWalk(t) \/ IsRun(t)
  BY <1>1, <1>3 DEF IsRun
<1>5. ASSUME NEW a \in Places(t), NEW b \in Places(t)
      PROVE  a = b
  <2>1. CASE InQueue(t)
    <3>1. ~InDeps(t) /\ ~InWalk(t) /\ ~IsRun(t)
      BY <1>0, <2>1 DEF PlacedOnce
    <3> QED BY <3>1, <1>1, <1>2, <1>3 DEF IsRun
  <2>2. CASE InDeps(t)
    <3>1. ~InQueue(t) /\ ~InWalk(t) /\ ~IsRun(t)
      BY <1>0, <2>2 DEF PlacedOnce
    <3> QED BY <3>1, <1>1, <1>2, <1>3 DEF IsRun
  <2>3. CASE InWalk(t)
    <3>1. ~InQueue(t) /\ ~InDeps(t) /\ ~IsRun(t)
      BY <1>0, <2>3 DEF PlacedOnce
    <3> QED BY <3>1, <1>1, <1>2, <1>3 DEF IsRun
  <2>4. CASE IsRun(t)
    <3>1. ~InQueue(t) /\ ~InDeps(t) /\ ~InWalk(t)
      BY <1>0, <2>4 DEF PlacedOnce
    <3>2. \A u, v \in Workers : cur[u] = t /\ cur[v] = t => u = v
      BY <1>0 DEF PlacedOnce
    <3> QED BY <3>1, <3>2, <1>1, <1>3
  <2> QED BY <1>4, <2>1, <2>2, <2>3, <2>4
<1> QED BY <1>0, <1>4, <1>5 DEF PlacedOnce

LEMMA PlaceInit == Start => PlaceInv
<1> SUFFICES ASSUME Start PROVE PlaceInv
  OBVIOUS
<1>1. /\ \A p \in 0..MaxPrio : queues[p] = <<>>
      /\ \A x \in Tasks : deps[x] = <<>> /\ status[x] = "none"
      /\ \A th \in Threads : walk[th] = <<>> /\ cur[th] = NoTask
  BY DEF Start
<1>2. ListInv /\ WalkInv
  BY <1>1, ElemsEmpty DEF ListInv, WalkInv
<1>3. ASSUME NEW t \in Tasks PROVE PlacedOnce(t)
  <2>1. ~InQueue(t) /\ ~InDeps(t) /\ ~InWalk(t) /\ ~IsRun(t)
    BY <1>1, ElemsEmpty, TasksAssumption DEF InQueue, InDeps, InWalk, IsRun, Threads
  <2> QED BY <1>1, <2>1 DEF PlacedOnce, InQueue, InDeps, InWalk, IsRun
<1> QED BY <1>2, <1>3, TypeInit DEF PlaceInv

LEMMA PlaceInvStep == PlaceInv /\ [Next]_vars => PlaceInv'
<1> SUFFICES ASSUME PlaceInv, [Next]_vars PROVE PlaceInv'
  OBVIOUS
<1>1. TypeInv'
  BY TypeStep DEF PlaceInv
<1>2. CASE Next
  BY <1>1, <1>2, PlaceStep, WalkStep DEF PlaceInv, Placed
<1>3. CASE UNCHANGED vars
  <2>1. UNCHANGED <<status, queues, deps, walk, cur, pc>>
    BY <1>3 DEF vars, taskVars, queueVars, threadVars
  <2>2. WalkInv'
    BY <2>1 DEF PlaceInv, WalkInv
  <2>3. ListInv' /\ \A u \in Tasks : PlacedOnce(u)'
    BY <2>1, PlacesUnchanged
  <2> QED BY <1>1, <2>2, <2>3 DEF PlaceInv
<1> QED BY <1>2, <1>3

(***************************************************************************)
(* No uncounted pointer of the task manager is ever duplicated, lost or    *)
(* left behind: an unfinished task is in exactly one queue, one dependency *)
(* list or one worker, whatever the threads do, and a finished or freed    *)
(* one is in none.                                                         *)
(***************************************************************************)
THEOREM OnePlace == Spec => []ExactlyOnePlace
<1>1. PlaceInv => ExactlyOnePlace
  BY PlacedOnceIsOnePlace
<1> QED BY InitStarts, PlaceInit, PlaceInvStep, <1>1, PTL DEF Spec

----------------------------------------------------------------------------
(***************************************************************************)
(* Why the uncounted pointers of the task manager never dangle: who owns a *)
(* task, when its closure is gone, and what is left when the manager is    *)
(* destroyed.                                                              *)
(***************************************************************************)

Live(t) == Alive(t) /\ ~deleted[t]

(* A task has its closure from its creation until a worker takes it or the *)
(* task is marked deleted, and a task that has its value is not deleted.   *)
ClosureInv ==
    \A t \in Tasks :
        /\ deleted[t] => status[t] \in {"active", "freed"}
        /\ closure[t] # "null" <=> status[t] = "active" /\ ~deleted[t] /\ ~IsRun(t)
        /\ closure[t] = "null" => caps[t] = {}

(* Nothing is leaked: a live task has an owner, or a thread is about to    *)
(* deactivate it.                                                          *)
NoLeakInv ==
    \A t \in Tasks : Live(t) =>
        Referenced(t, handles, junk, caps) \/ \E th \in Threads : tgt[th] = t

(* The body or the closure of t can name x.                                *)
Knows(t, x) ==
    \/ x \in caps[t]
    \/ \E w \in Workers : cur[w] = t /\ x \in handles[w]

(* A task learns of another one by capturing it or by creating it, so no   *)
(* cycle keeps tasks alive: every set of tasks has a member that none of   *)
(* the set knows.                                                          *)
FoundedInv ==
    \A S \in SUBSET Tasks : S # {} => \E t \in S : \A u \in S : ~Knows(u, t)

OwnerInv == ClosureInv /\ ReferencesAlive /\ NoLeakInv /\ FoundedInv

(* The tasks in a thread's variables, by its place in the code.            *)
LocalInv ==
    /\ \A th \in Threads : want[th] # {} => pc[th] \in {"get", "wait"}
    /\ \A w \in Workers : handles[w] # {} =>
          pc[w] \in {"map", "user", "get", "wait", "deact", "clean"}
    /\ \A th \in Threads : junk[th] # {} => pc[th] \in {"deact", "clean"}

ownerVars == <<status, closure, caps, deleted, handles, junk, tgt, want, cur>>

OwnerTypes ==
    /\ status \in [Tasks -> {"none", "active", "done", "freed"}]
    /\ closure \in [Tasks -> Kinds]
    /\ caps \in [Tasks -> SUBSET Tasks]
    /\ deleted \in [Tasks -> BOOLEAN]
    /\ handles \in [Threads -> SUBSET Tasks]
    /\ junk \in [Threads -> SUBSET Tasks]
    /\ want \in [Threads -> SUBSET Tasks]
    /\ tgt \in [Threads -> Tasks \cup {NoTask}]
    /\ cur \in [Threads -> Tasks \cup {NoTask}]

(* No task learns of another one.                                          *)
LEMMA FoundedKept ==
    ASSUME FoundedInv,
           \A u, x \in Tasks : Knows(u, x)' => Knows(u, x)
    PROVE  FoundedInv'
BY DEF FoundedInv

(* A new task t in the hands of its creator th.  Nobody knows t, except    *)
(* the task that th runs, which knows whatever t captured.                 *)
LEMMA FoundedNew ==
    ASSUME OwnerTypes, ReferencesAlive, FoundedInv, NEW th \in Threads,
           NEW t \in Tasks, status[t] = "none", ~IsRun(t), UNCHANGED cur,
           \A u \in Tasks : u # t => caps'[u] = caps[u],
           caps'[t] \subseteq handles[th],
           handles'[th] = handles[th] \cup {t},
           \A u \in Threads : u # th => handles'[u] = handles[u]
    PROVE  FoundedInv'
<1>1. /\ \A u \in Tasks : t \notin caps[u]
      /\ \A u \in Threads : t \notin handles[u]
  BY DEF ReferencesAlive, Referenced, Alive
<1>2. /\ \A u, x \in Tasks : u # t /\ x # t => (Knows(u, x)' <=> Knows(u, x))
      /\ \A x \in Tasks : Knows(t, x)' => x # t /\ x \in handles[th]
      /\ \A u \in Tasks : Knows(u, t)' => th \in Workers /\ cur[th] = u /\ u # t
  BY <1>1 DEF Knows, IsRun, Threads
<1> SUFFICES ASSUME NEW S \in SUBSET Tasks, S # {}
             PROVE  \E m \in S : \A u \in S : ~Knows(u, m)'
  BY DEF FoundedInv
<1>3. CASE t \in S /\ \A u \in S : ~Knows(u, t)'
  BY <1>3
<1>4. CASE t \notin S
  <2>1. PICK m \in S : \A u \in S : ~Knows(u, m)
    BY DEF FoundedInv
  <2> QED BY <1>2, <1>4, <2>1
<1>5. CASE t \in S /\ \E u \in S : Knows(u, t)'
  <2>1. PICK r \in S : th \in Workers /\ cur[th] = r /\ r # t
    BY <1>2, <1>5
  <2>2. PICK m \in S \ {t} : \A u \in S \ {t} : ~Knows(u, m)
    BY <2>1 DEF FoundedInv
  <2>3. ~Knows(t, m)'
    <3>1. m \notin handles[th]
      BY <2>1, <2>2 DEF Knows
    <3> QED BY <1>2, <2>2, <3>1
  <2> QED BY <1>2, <2>2, <2>3
<1> QED BY <1>3, <1>4, <1>5

LEMMA OwnerUnchanged ==
    ASSUME OwnerInv, UNCHANGED ownerVars
    PROVE  OwnerInv'
<1> USE DEF ownerVars
<1>1. ClosureInv'
  BY DEF OwnerInv, ClosureInv, IsRun
<1>2. ReferencesAlive'
  BY DEF OwnerInv, ReferencesAlive, Referenced, Alive
<1>3. NoLeakInv'
  BY DEF OwnerInv, NoLeakInv, Referenced, Live, Alive
<1>4. FoundedInv'
  <2>1. \A u, x \in Tasks : Knows(u, x)' => Knows(u, x)
    BY DEF Knows
  <2> QED BY <2>1, FoundedKept DEF OwnerInv
<1> QED BY <1>1, <1>2, <1>3, <1>4 DEF OwnerInv

(* mk_task and task_map: a new task in the hands of its creator.           *)
LEMMA OwnerAlloc ==
    ASSUME OwnerTypes, OwnerInv, NEW th \in Threads, NEW t \in Tasks, NEW C \in SUBSET handles[th],
           NEW k \in {"fn", "map"}, NEW pr, Alloc(th, t, k, C, pr), ~IsRun(t),
           UNCHANGED <<deleted, junk, tgt, want, cur>>
    PROVE  OwnerInv'
<1>1. /\ status[t] = "none" /\ status'[t] = "active"
      /\ \A u \in Tasks : u # t => status'[u] = status[u]
  BY DEF Alloc, OwnerTypes
<1>2. /\ closure'[t] = k /\ caps'[t] = C
      /\ \A u \in Tasks : u # t => closure'[u] = closure[u] /\ caps'[u] = caps[u]
  BY DEF Alloc, OwnerTypes
<1>3. /\ handles'[th] = handles[th] \cup {t}
      /\ \A u \in Threads : u # th => handles'[u] = handles[u]
  BY DEF Alloc, OwnerTypes
<1>4. ClosureInv'
  BY <1>1, <1>2 DEF OwnerInv, ClosureInv, IsRun
<1>5. \A x \in Tasks : Referenced(x, handles', junk', caps') <=> Referenced(x, handles, junk, caps) \/ x = t
  <2>1. caps[t] = {}
    BY <1>1 DEF OwnerInv, ClosureInv
  <2> TAKE x \in Tasks
  <2>2. Referenced(x, handles', junk', caps') => Referenced(x, handles, junk, caps) \/ x = t
    BY <1>2, <1>3 DEF Referenced
  <2>3. Referenced(x, handles, junk, caps) \/ x = t => Referenced(x, handles', junk', caps')
    BY <1>2, <1>3, <2>1 DEF Referenced
  <2> QED BY <2>2, <2>3
<1>6. ~Referenced(t, handles, junk, caps) /\ \A u \in Threads : tgt[u] # t
  BY <1>1, TasksAssumption DEF OwnerInv, ReferencesAlive, Alive
<1>7. ~deleted[t]
  BY <1>1 DEF OwnerInv, ClosureInv
<1>8. ReferencesAlive'
  <2>1. \A x \in Tasks : Referenced(x, handles, junk, caps)' => Alive(x)' /\ ~deleted'[x]
    BY <1>1, <1>5, <1>7 DEF OwnerInv, ReferencesAlive, Alive
  <2>2. \A u \in Threads : tgt'[u] # NoTask =>
            /\ tgt'[u] \in Tasks /\ tgt'[u] # t
            /\ Alive(tgt[u])' /\ ~deleted'[tgt'[u]]
            /\ ~Referenced(tgt[u], handles, junk, caps)'
            /\ \A v \in Threads \ {u} : tgt'[v] # tgt'[u]
    BY <1>1, <1>5, <1>6 DEF OwnerInv, ReferencesAlive, Alive, OwnerTypes
  <2>3. \A u \in Threads : want'[u] \subseteq handles'[u]
    BY <1>3 DEF OwnerInv, ReferencesAlive
  <2> QED BY <2>1, <2>2, <2>3 DEF ReferencesAlive
<1>9. NoLeakInv'
  BY <1>1, <1>5 DEF OwnerInv, NoLeakInv, Live, Alive
<1>10. FoundedInv'
  BY <1>1, <1>2, <1>3, FoundedNew DEF OwnerInv
<1> QED BY <1>4, <1>8, <1>9, <1>10 DEF OwnerInv

LEMMA OwnerPure ==
    ASSUME OwnerTypes, OwnerInv, NEW th \in Threads, NEW t \in Tasks, TaskPure(th, t),
           ~IsRun(t)
    PROVE  OwnerInv'
<1>0. UNCHANGED <<closure, caps, deleted, junk, tgt, want, cur>>
  BY DEF TaskPure
<1>1. /\ status[t] = "none" /\ status'[t] = "done"
      /\ \A u \in Tasks : u # t => status'[u] = status[u]
  BY DEF TaskPure, OwnerTypes
<1>2. /\ handles'[th] = handles[th] \cup {t}
      /\ \A u \in Threads : u # th => handles'[u] = handles[u]
  BY DEF TaskPure, OwnerTypes
<1>3. ClosureInv'
  BY <1>0, <1>1 DEF OwnerInv, ClosureInv, IsRun
<1>4. \A x \in Tasks : Referenced(x, handles', junk', caps') <=> Referenced(x, handles, junk, caps) \/ x = t
  BY <1>0, <1>2 DEF Referenced
<1>5. ~Referenced(t, handles, junk, caps) /\ \A u \in Threads : tgt[u] # t
  BY <1>1, TasksAssumption DEF OwnerInv, ReferencesAlive, Alive
<1>6. ~deleted[t] /\ caps[t] = {}
  BY <1>1 DEF OwnerInv, ClosureInv
<1>7. ReferencesAlive'
  <2>1. \A x \in Tasks : Referenced(x, handles, junk, caps)' => Alive(x)' /\ ~deleted'[x]
    BY <1>0, <1>1, <1>4, <1>6 DEF OwnerInv, ReferencesAlive, Alive
  <2>2. \A u \in Threads : tgt'[u] # NoTask =>
            /\ tgt'[u] \in Tasks /\ tgt'[u] # t
            /\ Alive(tgt[u])' /\ ~deleted'[tgt'[u]]
            /\ ~Referenced(tgt[u], handles, junk, caps)'
            /\ \A v \in Threads \ {u} : tgt'[v] # tgt'[u]
    BY <1>0, <1>1, <1>4, <1>5 DEF OwnerInv, ReferencesAlive, Alive, OwnerTypes
  <2>3. \A u \in Threads : want'[u] \subseteq handles'[u]
    BY <1>0, <1>2 DEF OwnerInv, ReferencesAlive
  <2> QED BY <2>1, <2>2, <2>3 DEF ReferencesAlive
<1>8. NoLeakInv'
  BY <1>0, <1>1, <1>4 DEF OwnerInv, NoLeakInv, Live, Alive
<1>9. FoundedInv'
  BY <1>0, <1>1, <1>2, <1>6, FoundedNew DEF OwnerInv
<1> QED BY <1>3, <1>7, <1>8, <1>9 DEF OwnerInv

(* dec_ref by a thread that holds x in a variable: x keeps an owner, or    *)
(* the thread is sent to deactivate it.                                    *)
LEMMA OwnerDecRef ==
    ASSUME OwnerTypes, OwnerInv, NEW th \in Threads, NEW x \in Tasks, NEW p, DecRef(th, x, p),
           \/ /\ x \in handles[th] /\ want[th] = {}
              /\ handles' = [handles EXCEPT ![th] = @ \ {x}] /\ junk' = junk
           \/ /\ x \in junk[th]
              /\ junk' = [junk EXCEPT ![th] = @ \ {x}] /\ handles' = handles,
           tgt[th] = NoTask, UNCHANGED <<status, closure, caps, deleted, want, cur>>
    PROVE  OwnerInv'
<1>1. Referenced(x, handles, junk, caps) /\ Live(x) /\ \A u \in Threads : tgt[u] # x
  BY TasksAssumption DEF Referenced, OwnerInv, ReferencesAlive, Live
<1>2. \A y \in Tasks : y # x => (Referenced(y, handles', junk', caps') <=> Referenced(y, handles, junk, caps))
  <2>1. \A u \in Threads, y \in Tasks : y # x =>
           (y \in handles'[u] \cup junk'[u] <=> y \in handles[u] \cup junk[u])
    BY DEF OwnerTypes
  <2> QED BY <2>1 DEF Referenced
<1>3. \A u \in Threads : want'[u] \subseteq handles'[u]
  BY DEF OwnerTypes, OwnerInv, ReferencesAlive
<1>4. ClosureInv' /\ FoundedInv'
  <2>1. ClosureInv'
    BY DEF OwnerInv, ClosureInv, IsRun
  <2>2. \A u, y \in Tasks : Knows(u, y)' => Knows(u, y)
    BY DEF Knows, OwnerTypes, Threads
  <2> QED BY <2>1, <2>2, FoundedKept DEF OwnerInv
<1>5. CASE Referenced(x, handles', junk', caps')
  <2>1. tgt' = tgt
    BY <1>5 DEF DecRef
  <2>2. \A y \in Tasks : Referenced(y, handles', junk', caps') <=> Referenced(y, handles, junk, caps)
    BY <1>1, <1>2, <1>5
  <2>3. \A y \in Tasks : Referenced(y, handles, junk, caps)' => Alive(y)' /\ ~deleted'[y]
    BY <2>2 DEF OwnerInv, ReferencesAlive, Alive
  <2>4. \A u \in Threads : tgt'[u] # NoTask =>
            /\ Alive(tgt[u])' /\ ~deleted'[tgt'[u]]
            /\ ~Referenced(tgt[u], handles, junk, caps)'
            /\ \A v \in Threads \ {u} : tgt'[v] # tgt'[u]
    BY <2>1, <2>2 DEF OwnerInv, ReferencesAlive, Alive, OwnerTypes
  <2>5. ReferencesAlive'
    BY <1>3, <2>3, <2>4 DEF ReferencesAlive
  <2>6. NoLeakInv'
    BY <2>1, <2>2 DEF OwnerInv, NoLeakInv, Live, Alive
  <2> QED BY <1>4, <2>5, <2>6 DEF OwnerInv
<1>6. CASE ~Referenced(x, handles', junk', caps')
  <2>1. tgt'[th] = x /\ \A u \in Threads : u # th => tgt'[u] = tgt[u]
    <3>1. UNCHANGED caps
      OBVIOUS
    <3>2. tgt' = [tgt EXCEPT ![th] = x]
      BY <1>6, <3>1 DEF DecRef
    <3> QED BY <3>2 DEF OwnerTypes
  <2>2. \A y \in Tasks : Referenced(y, handles', junk', caps') <=> Referenced(y, handles, junk, caps) /\ y # x
    BY <1>2, <1>6
  <2>3. \A y \in Tasks : Referenced(y, handles, junk, caps)' => Alive(y)' /\ ~deleted'[y]
    BY <2>2 DEF OwnerInv, ReferencesAlive, Alive
  <2>4. ASSUME NEW u \in Threads, tgt'[u] # NoTask
        PROVE  /\ Alive(tgt[u])' /\ ~deleted'[tgt'[u]]
               /\ ~Referenced(tgt[u], handles, junk, caps)'
               /\ \A v \in Threads \ {u} : tgt'[v] # tgt'[u]
    <3>1. CASE u = th
      BY <3>1, <1>1, <1>6, <2>1 DEF Live, Alive
    <3>2. CASE u # th
      <4>1. tgt'[u] = tgt[u] /\ tgt[u] \in Tasks /\ tgt[u] # x
        BY <3>2, <1>1, <2>1, <2>4 DEF OwnerTypes
      <4> QED BY <4>1, <2>1, <2>2, <2>4 DEF OwnerInv, ReferencesAlive, Alive
    <3> QED BY <3>1, <3>2
  <2>5. ReferencesAlive'
    BY <1>3, <2>3, <2>4 DEF ReferencesAlive
  <2>6. NoLeakInv'
    <3> SUFFICES ASSUME NEW y \in Tasks, Live(y)'
                 PROVE  Referenced(y, handles', junk', caps') \/ \E u \in Threads : tgt'[u] = y
      BY DEF NoLeakInv
    <3>1. Live(y)
      BY DEF Live, Alive
    <3>2. Referenced(y, handles, junk, caps) \/ \E u \in Threads : tgt[u] = y
      BY <3>1 DEF OwnerInv, NoLeakInv
    <3> QED BY <3>2, <2>1, <2>2, TasksAssumption
  <2> QED BY <1>4, <2>5, <2>6 DEF OwnerInv
<1> QED BY <1>5, <1>6

(* Tasks that are marked deleted are freed: nobody owns them.              *)
LEMMA OwnerFree ==
    ASSUME OwnerTypes, OwnerInv, NEW S \in SUBSET Tasks,
           \A u \in S : status[u] = "active" /\ deleted[u] /\ status'[u] = "freed",
           \A u \in Tasks \ S : status'[u] = status[u],
           \A u \in Tasks \ S : IsRun(u)' <=> IsRun(u),
           \A w \in Workers : cur'[w] \in {cur[w], NoTask},
           UNCHANGED <<closure, caps, deleted, handles, junk, tgt, want>>
    PROVE  OwnerInv'
<1>1. \A u \in Tasks : Live(u)' <=> Live(u)
  BY DEF Live, Alive
<1>2. ClosureInv'
  BY DEF OwnerInv, ClosureInv
<1>3. ReferencesAlive'
  BY <1>1 DEF OwnerInv, ReferencesAlive, Referenced, Live, OwnerTypes
<1>4. NoLeakInv'
  BY <1>1 DEF OwnerInv, NoLeakInv, Referenced
<1>5. FoundedInv'
  <2>1. \A u, x \in Tasks : Knows(u, x)' => Knows(u, x)
    BY TasksAssumption DEF Knows
  <2> QED BY <2>1, FoundedKept DEF OwnerInv
<1> QED BY <1>2, <1>3, <1>4, <1>5 DEF OwnerInv

(* deactivate_task of the last owner.                                      *)
LEMMA OwnerDeactivate ==
    ASSUME OwnerTypes, OwnerInv, NEW th \in Threads, tgt[th] # NoTask, DeactivateTask(th)
    PROVE  OwnerInv'
<1>1. PICK t \in Tasks : t = tgt[th]
  BY DEF OwnerTypes
<1>2. /\ Live(t) /\ ~Referenced(t, handles, junk, caps)
      /\ \A u \in Threads \ {th} : tgt[u] # t
  BY <1>1, TasksAssumption DEF OwnerInv, ReferencesAlive, Live
<1>3. tgt'[th] = NoTask /\ (\A u \in Threads : u # th => tgt'[u] = tgt[u]) /\ UNCHANGED <<handles, want, cur>>
  BY DEF DeactivateTask, Deactivate, OwnerTypes
<1>4. CASE status[t] = "done"
  <2>1. /\ status'[t] = "freed" /\ \A u \in Tasks : u # t => status'[u] = status[u]
        /\ UNCHANGED <<closure, caps, deleted, junk>>
    BY <1>1, <1>4 DEF DeactivateTask, Deactivate, OwnerTypes
  <2>2. ClosureInv'
    BY <1>4, <2>1, <1>3 DEF OwnerInv, ClosureInv, IsRun
  <2>3. \A x \in Tasks : Referenced(x, handles', junk', caps') <=> Referenced(x, handles, junk, caps)
    BY <1>3, <2>1 DEF Referenced
  <2>4. ReferencesAlive'
    <3>1. \A y \in Tasks : Referenced(y, handles, junk, caps)' => Alive(y)' /\ ~deleted'[y]
      BY <1>2, <2>1, <2>3 DEF OwnerInv, ReferencesAlive, Alive
    <3>2. \A u \in Threads : tgt'[u] # NoTask =>
              /\ Alive(tgt[u])' /\ ~deleted'[tgt'[u]]
              /\ ~Referenced(tgt[u], handles, junk, caps)'
              /\ \A v \in Threads \ {u} : tgt'[v] # tgt'[u]
      BY <1>2, <1>3, <2>1, <2>3 DEF OwnerInv, ReferencesAlive, Alive, OwnerTypes
    <3>3. \A u \in Threads : want'[u] \subseteq handles'[u]
      BY <1>3 DEF OwnerInv, ReferencesAlive
    <3> QED BY <3>1, <3>2, <3>3 DEF ReferencesAlive
  <2>5. NoLeakInv'
    BY <1>1, <1>3, <2>1, <2>3 DEF OwnerInv, NoLeakInv, Live, Alive
  <2>6. FoundedInv'
    <3>1. \A u, x \in Tasks : Knows(u, x)' => Knows(u, x)
      BY <1>3, <2>1 DEF Knows
    <3> QED BY <3>1, FoundedKept DEF OwnerInv
  <2> QED BY <2>2, <2>4, <2>5, <2>6 DEF OwnerInv
<1>5. CASE status[t] # "done"
  <2>0. status[t] = "active" /\ UNCHANGED status
    BY <1>1, <1>2, <1>5 DEF Live, Alive, DeactivateTask, Deactivate
  <2>1. /\ closure'[t] = "null" /\ caps'[t] = {} /\ deleted'[t] = TRUE
        /\ \A u \in Tasks : u # t => closure'[u] = closure[u] /\ caps'[u] = caps[u] /\ deleted'[u] = deleted[u]
    BY <1>1, <1>5 DEF DeactivateTask, Deactivate, OwnerTypes
  <2>2. /\ junk'[th] = junk[th] \cup caps[t]
        /\ \A u \in Threads : u # th => junk'[u] = junk[u]
    BY <1>1, <1>5 DEF DeactivateTask, Deactivate, OwnerTypes
  <2>3. ClosureInv'
    BY <1>3, <2>0, <2>1 DEF OwnerInv, ClosureInv, IsRun
  <2>4. \A x \in Tasks : Referenced(x, handles', junk', caps') <=> Referenced(x, handles, junk, caps)
    <3> TAKE x \in Tasks
    <3>1. Referenced(x, handles', junk', caps') => Referenced(x, handles, junk, caps)
      BY <1>3, <2>1, <2>2 DEF Referenced
    <3>2. Referenced(x, handles, junk, caps) => Referenced(x, handles', junk', caps')
      BY <1>3, <2>1, <2>2 DEF Referenced
    <3> QED BY <3>1, <3>2
  <2>5. ReferencesAlive'
    <3>1. \A y \in Tasks : Referenced(y, handles, junk, caps)' => Alive(y)' /\ ~deleted'[y]
      BY <1>2, <2>0, <2>1, <2>4 DEF OwnerInv, ReferencesAlive, Alive
    <3>2. \A u \in Threads : tgt'[u] # NoTask =>
              /\ Alive(tgt[u])' /\ ~deleted'[tgt'[u]]
              /\ ~Referenced(tgt[u], handles, junk, caps)'
              /\ \A v \in Threads \ {u} : tgt'[v] # tgt'[u]
      BY <1>2, <1>3, <2>0, <2>1, <2>4 DEF OwnerInv, ReferencesAlive, Alive, OwnerTypes
    <3>3. \A u \in Threads : want'[u] \subseteq handles'[u]
      BY <1>3 DEF OwnerInv, ReferencesAlive
    <3> QED BY <3>1, <3>2, <3>3 DEF ReferencesAlive
  <2>6. NoLeakInv'
    BY <1>1, <1>3, <2>0, <2>1, <2>4 DEF OwnerInv, NoLeakInv, Live, Alive
  <2>7. FoundedInv'
    <3>1. \A u, x \in Tasks : Knows(u, x)' => Knows(u, x)
      BY <1>3, <2>1 DEF Knows
    <3> QED BY <3>1, FoundedKept DEF OwnerInv
  <2> QED BY <2>3, <2>5, <2>6, <2>7 DEF OwnerInv
<1> QED BY <1>4, <1>5

(* A worker takes the closure of t, and with it what it captured.          *)
LEMMA OwnerStart ==
    ASSUME OwnerTypes, OwnerInv, NEW w \in Workers, NEW t \in Tasks, ~deleted[t], status[t] = "active",
           handles[w] = {}, want[w] = {}, cur[w] = NoTask,
           cur' = [cur EXCEPT ![w] = t],
           closure' = [closure EXCEPT ![t] = "null"],
           caps' = [caps EXCEPT ![t] = {}],
           handles' = [handles EXCEPT ![w] = caps[t]],
           UNCHANGED <<status, deleted, junk, tgt, want>>
    PROVE  OwnerInv'
<1>0. w \in Threads
  BY DEF Threads
<1>1. /\ closure'[t] = "null" /\ caps'[t] = {}
      /\ \A u \in Tasks : u # t => closure'[u] = closure[u] /\ caps'[u] = caps[u]
  BY DEF OwnerTypes
<1>2. /\ handles'[w] = caps[t] /\ \A u \in Threads : u # w => handles'[u] = handles[u]
      /\ cur'[w] = t /\ \A u \in Threads : u # w => cur'[u] = cur[u]
  BY <1>0 DEF OwnerTypes
<1>3. IsRun(t)' /\ \A u \in Tasks : u # t => (IsRun(u)' <=> IsRun(u))
  BY <1>2, TasksAssumption DEF IsRun, Threads
<1>4. ClosureInv'
  BY <1>1, <1>3 DEF OwnerInv, ClosureInv
<1>5. \A x \in Tasks : Referenced(x, handles', junk', caps') <=> Referenced(x, handles, junk, caps)
  <2> TAKE x \in Tasks
  <2>1. Referenced(x, handles', junk', caps') => Referenced(x, handles, junk, caps)
    BY <1>0, <1>1, <1>2 DEF Referenced
  <2>2. Referenced(x, handles, junk, caps) => Referenced(x, handles', junk', caps')
    BY <1>0, <1>1, <1>2 DEF Referenced
  <2> QED BY <2>1, <2>2
<1>6. ReferencesAlive'
  <2>1. \A y \in Tasks : Referenced(y, handles, junk, caps)' => Alive(y)' /\ ~deleted'[y]
    BY <1>5 DEF OwnerInv, ReferencesAlive, Alive
  <2>2. \A u \in Threads : tgt'[u] # NoTask =>
            /\ Alive(tgt[u])' /\ ~deleted'[tgt'[u]]
            /\ ~Referenced(tgt[u], handles, junk, caps)'
            /\ \A v \in Threads \ {u} : tgt'[v] # tgt'[u]
    BY <1>5 DEF OwnerInv, ReferencesAlive, Alive, OwnerTypes
  <2>3. \A u \in Threads : want'[u] \subseteq handles'[u]
    BY <1>2 DEF OwnerInv, ReferencesAlive
  <2> QED BY <2>1, <2>2, <2>3 DEF ReferencesAlive
<1>7. NoLeakInv'
  BY <1>5 DEF OwnerInv, NoLeakInv, Live, Alive
<1>8. FoundedInv'
  <2>1. \A u, x \in Tasks : Knows(u, x)' => Knows(u, x)
    BY <1>1, <1>2 DEF Knows, Threads
  <2> QED BY <2>1, FoundedKept DEF OwnerInv
<1> QED BY <1>4, <1>6, <1>7, <1>8 DEF OwnerInv

(* The value of a task is published.                                       *)
LEMMA OwnerPublish ==
    ASSUME OwnerTypes, OwnerInv, NEW t \in Tasks, status[t] = "active", ~deleted[t], IsRun(t),
           status' = [status EXCEPT ![t] = "done"],
           \A u \in Tasks : u # t => (IsRun(u)' <=> IsRun(u)),
           \A w \in Workers : cur'[w] \in {cur[w], NoTask},
           UNCHANGED <<closure, caps, deleted, handles, junk, tgt, want>>
    PROVE  OwnerInv'
<1>1. status'[t] = "done" /\ \A u \in Tasks : u # t => status'[u] = status[u]
  BY DEF OwnerTypes
<1>2. \A u \in Tasks : Live(u)' <=> Live(u)
  BY <1>1 DEF Live, Alive
<1>3. ClosureInv'
  BY <1>1 DEF OwnerInv, ClosureInv
<1>4. ReferencesAlive'
  BY <1>2 DEF OwnerInv, ReferencesAlive, Referenced, Live, OwnerTypes
<1>5. NoLeakInv'
  BY <1>2 DEF OwnerInv, NoLeakInv, Referenced
<1>6. FoundedInv'
  <2>1. \A u, x \in Tasks : Knows(u, x)' => Knows(u, x)
    BY TasksAssumption DEF Knows
  <2> QED BY <2>1, FoundedKept DEF OwnerInv
<1> QED BY <1>3, <1>4, <1>5, <1>6 DEF OwnerInv

(* A thread begins or ends to wait for tasks it references.                *)
LEMMA OwnerWant ==
    ASSUME OwnerTypes, OwnerInv, NEW th \in Threads, NEW S \in SUBSET handles[th],
           want' = [want EXCEPT ![th] = S],
           UNCHANGED <<status, closure, caps, deleted, handles, junk, tgt, cur>>
    PROVE  OwnerInv'
<1>1. \A u \in Threads : want'[u] \subseteq handles[u]
  BY DEF OwnerTypes, OwnerInv, ReferencesAlive
<1>2. ReferencesAlive'
  BY <1>1 DEF OwnerInv, ReferencesAlive, Referenced, Alive
<1>3. ClosureInv' /\ NoLeakInv'
  BY DEF OwnerInv, ClosureInv, IsRun, NoLeakInv, Referenced, Live, Alive
<1>4. FoundedInv'
  <2>1. \A u, x \in Tasks : Knows(u, x)' => Knows(u, x)
    BY DEF Knows
  <2> QED BY <2>1, FoundedKept DEF OwnerInv
<1> QED BY <1>2, <1>3, <1>4 DEF OwnerInv

----------------------------------------------------------------------------
(* The dependency lists.                                                   *)

(* Only a task in use has dependents; a dependent that is in use captured  *)
(* it; deactivate_task walks dead tasks; and the task that a worker is     *)
(* finishing is in use and gets no new dependents.                         *)
DepsInv ==
    /\ \A x \in Tasks : deps[x] # <<>> => status[x] = "active" /\ ~deleted[x]
    /\ \A x \in Tasks : \A m \in Elems(deps[x]) : ~deleted[m] => x \in caps[m]
    /\ \A th \in Threads : pc[th] = "clean" => \A m \in Elems(walk[th]) : deleted[m]
    /\ \A w \in Workers : pc[w] = "finish" => ~deleted[cur[w]] /\ deps[cur[w]] = <<>>

(* A task that maps x waits in the list of x until x is being finished.    *)
MapInv ==
    \A t, x \in Tasks : closure[t] = "map" /\ x \in caps[t] =>
        \/ status[x] = "done"
        \/ t \in Elems(deps[x])
        \/ \E w \in Workers : pc[w] = "finish" /\ cur[w] = x

DependInv == DepsInv /\ MapInv /\ InterruptReachesDependents

FinishingStays == \A w \in Workers : pc'[w] = "finish" <=> pc[w] = "finish"

NoneFinishing == \A w \in Workers : pc[w] # "finish"

LEMMA MutexFreeNoneFinishing ==
    ASSUME TypeInv, MutexFree
    PROVE  NoneFinishing
BY ThreadsAssumption DEF TypeInv, ControlInv, MutexFree, NoneFinishing, Threads

(* A step that moves no list, no closure and no mark, and interrupts       *)
(* nobody while a task is being finished.                                  *)
LEMMA DependUnchanged ==
    ASSUME DependInv, UNCHANGED <<status, closure, caps, deleted, deps, walk>>,
           FinishingStays,
           \A w \in Workers : pc[w] = "finish" => cur'[w] = cur[w],
           \A th \in Threads : pc'[th] = "clean" => pc[th] = "clean" \/ walk[th] = <<>>,
           UNCHANGED interrupted \/ NoneFinishing
    PROVE  DependInv'
<1>1. DepsInv'
  BY ElemsEmpty DEF DependInv, DepsInv, FinishingStays
<1>2. MapInv'
  BY DEF DependInv, MapInv, FinishingStays
<1>3. InterruptReachesDependents'
  BY DEF DependInv, InterruptReachesDependents, FinishingStays, NoneFinishing
<1> QED BY <1>1, <1>2, <1>3 DEF DependInv

(* A new task that waits in no list.                                       *)
LEMMA DependNew ==
    ASSUME PlaceInv, OwnerInv, DependInv, NEW t \in Tasks, status[t] = "none",
           UNCHANGED <<deleted, deps, walk, cur, interrupted>>,
           \A u \in Tasks : u # t =>
              status'[u] = status[u] /\ closure'[u] = closure[u] /\ caps'[u] = caps[u],
           closure'[t] = "map" => \A x \in caps'[t] : x # t /\ status[x] = "done",
           FinishingStays, \A th \in Threads : pc'[th] = "clean" => pc[th] = "clean",
           status'[t] # "active" \/ NoneFinishing
    PROVE  DependInv'
<1>1. ~InDeps(t)
  BY DEF PlaceInv, PlacedOnce
<1>2. \A x \in Tasks : t \notin Elems(deps[x])
  BY <1>1 DEF InDeps
<1>3. DepsInv'
  <2>1. \A x \in Tasks : Elems(deps[x]) \subseteq Tasks
    BY ElemsOfSeq DEF PlaceInv, TypeInv, TypeOK
  <2>2. \A x \in Tasks : \A m \in Elems(deps'[x]) : ~deleted'[m] => x \in caps'[m]
    BY <1>2, <2>1 DEF DependInv, DepsInv
  <2>3. \A x \in Tasks : deps'[x] # <<>> => status'[x] = "active" /\ ~deleted'[x]
    BY DEF DependInv, DepsInv
  <2> QED BY <2>2, <2>3 DEF DependInv, DepsInv, FinishingStays
<1>4. MapInv'
  BY DEF DependInv, MapInv, FinishingStays
<1>5. InterruptReachesDependents'
  BY DEF DependInv, InterruptReachesDependents, FinishingStays, NoneFinishing
<1> QED BY <1>3, <1>4, <1>5 DEF DependInv

(* task_map of an unfinished task.                                         *)
LEMMA DependNewDependent ==
    ASSUME PlaceInv, OwnerInv, DependInv, NEW t \in Tasks, NEW x \in Tasks,
           status[t] = "none", status[x] = "active", ~deleted[x], NoneFinishing,
           status' = [status EXCEPT ![t] = "active"],
           caps' = [caps EXCEPT ![t] = {x}],
           \A u \in Tasks : u # t => closure'[u] = closure[u],
           deps' = [deps EXCEPT ![x] = <<t>> \o @],
           UNCHANGED <<deleted, walk, cur, pc>>
    PROVE  DependInv'
<1>0. TypeOK
  BY DEF PlaceInv, TypeInv
<1>1. deps'[x] = <<t>> \o deps[x] /\ \A y \in Tasks : y # x => deps'[y] = deps[y]
  BY <1>0 DEF TypeOK
<1>2. Elems(deps'[x]) = Elems(deps[x]) \cup {t}
  BY <1>0, <1>1, ElemsCons DEF TypeOK
<1>3. ~InDeps(t)
  BY DEF PlaceInv, PlacedOnce
<1>4. \A y \in Tasks : t \notin Elems(deps[y])
  BY <1>3 DEF InDeps
<1>5. /\ caps'[t] = {x} /\ status'[t] = "active"
      /\ \A u \in Tasks : u # t => caps'[u] = caps[u] /\ status'[u] = status[u]
  BY <1>0 DEF TypeOK
<1>6. DepsInv'
  <2>1. \A y \in Tasks : deps'[y] # <<>> => status'[y] = "active" /\ ~deleted'[y]
    BY <1>1, <1>5 DEF DependInv, DepsInv
  <2>2. \A y \in Tasks : \A m \in Elems(deps'[y]) : ~deleted'[m] => y \in caps'[m]
    <3> TAKE y \in Tasks
    <3> TAKE m \in Elems(deps'[y])
    <3>0. m \in Tasks
      <4>1. deps[y] \in Seq(Tasks)
        BY <1>0 DEF TypeOK
      <4>2. m \in Elems(deps[y]) \/ m = t
        BY <1>1, <1>2
      <4> QED BY <4>1, <4>2, ElemsOfSeq
    <3>1. CASE m = t
      BY <3>1, <1>1, <1>2, <1>4, <1>5
    <3>2. CASE m # t
      BY <3>0, <3>2, <1>1, <1>2, <1>5 DEF DependInv, DepsInv
    <3> QED BY <3>1, <3>2
  <2> QED BY <2>1, <2>2 DEF DependInv, DepsInv, NoneFinishing
<1>7. MapInv'
  BY <1>1, <1>2, <1>5 DEF DependInv, MapInv
<1>8. InterruptReachesDependents'
  BY DEF InterruptReachesDependents, NoneFinishing
<1> QED BY <1>6, <1>7, <1>8 DEF DependInv

(* Deleted tasks are freed, and leave the lists.                           *)
LEMMA DependFree ==
    ASSUME PlaceInv, DependInv, NEW S \in SUBSET Tasks,
           \A u \in S : status[u] = "active" /\ deleted[u] /\ status'[u] = "freed",
           \A u \in Tasks \ S : status'[u] = status[u],
           UNCHANGED <<closure, caps, deleted, deps>>,
           \A th \in Threads : Elems(walk'[th]) = Elems(walk[th]) \ S \/ walk'[th] = walk[th],
           FinishingStays, \A th \in Threads : pc'[th] = "clean" => pc[th] = "clean",
           \A w \in Workers : pc[w] = "finish" => cur'[w] = cur[w],
           UNCHANGED interrupted \/ NoneFinishing
    PROVE  DependInv'
<1>1. DepsInv'
  <2>1. \A x \in Tasks : deps'[x] # <<>> => status'[x] = "active" /\ ~deleted'[x]
    BY DEF DependInv, DepsInv
  <2>2. \A th \in Threads : pc'[th] = "clean" => \A m \in Elems(walk'[th]) : deleted'[m]
    BY DEF DependInv, DepsInv
  <2> QED BY <2>1, <2>2 DEF DependInv, DepsInv, FinishingStays
<1>2. MapInv'
  BY DEF DependInv, MapInv, FinishingStays
<1>3. InterruptReachesDependents'
  <2> SUFFICES ASSUME NEW w \in Workers, NEW m \in Tasks, pc'[w] = "finish", interrupted'[cur'[w]],
                      status'[m] = "active", closure'[m] = "map", cur'[w] \in caps'[m]
               PROVE  interrupted'[m] \/ m \in Elems(walk'[w])
    BY DEF InterruptReachesDependents
  <2>1. pc[w] = "finish" /\ cur'[w] = cur[w] /\ UNCHANGED interrupted /\ m \notin S
    BY DEF FinishingStays, NoneFinishing
  <2>2. interrupted[m] \/ m \in Elems(walk[w])
    BY <2>1 DEF DependInv, InterruptReachesDependents
  <2>3. w \in Threads
    BY DEF Threads
  <2> QED BY <2>1, <2>2, <2>3
<1> QED BY <1>1, <1>2, <1>3 DEF DependInv

(* A list is taken from task x by a thread that deletes x or finishes it.  *)
LEMMA DependDeactivate ==
    ASSUME PlaceInv, OwnerInv, DependInv, NEW th \in Threads, NEW t \in Tasks,
           t = tgt[th], status[t] = "active", NoneFinishing, DeactivateTask(th)
    PROVE  DependInv'
<1>0. TypeOK
  BY DEF PlaceInv, TypeInv
<1>1. /\ walk' = [walk EXCEPT ![th] = deps[t]] /\ deps' = [deps EXCEPT ![t] = <<>>]
      /\ pc' = [pc EXCEPT ![th] = "clean"] /\ walk[th] = <<>> /\ UNCHANGED status
  BY NoWalkYet DEF DeactivateTask, Deactivate, Step
<1>2. /\ Elems(walk'[th]) = Elems(deps[t])
      /\ \A u \in Threads : u # th => walk'[u] = walk[u]
      /\ deps'[t] = <<>> /\ Elems(deps'[t]) = {}
      /\ \A y \in Tasks : y # t => deps'[y] = deps[y]
  BY <1>1, TakeListElems
<1>3. /\ closure'[t] = "null" /\ caps'[t] = {} /\ deleted'[t] = TRUE
      /\ \A u \in Tasks : u # t => closure'[u] = closure[u] /\ caps'[u] = caps[u] /\ deleted'[u] = deleted[u]
  BY <1>0 DEF DeactivateTask, Deactivate, TypeOK
<1>4. \A u \in Tasks : t \notin caps[u]
  BY TasksAssumption DEF OwnerInv, ReferencesAlive, Referenced
<1>5. /\ \A x \in Tasks : Elems(deps[x]) \subseteq Tasks
      /\ \A u \in Threads : Elems(walk[u]) \subseteq Tasks
  BY <1>0, ElemsOfSeq DEF TypeOK
<1>6. \A u \in Threads : pc'[u] = IF u = th THEN "clean" ELSE pc[u]
  BY <1>0, <1>1 DEF TypeOK
<1>7. NoneFinishing'
  BY <1>6 DEF NoneFinishing, Threads
<1>8. DepsInv'
  <2>1. \A x \in Tasks : deps'[x] # <<>> => status'[x] = "active" /\ ~deleted'[x]
    BY <1>1, <1>2, <1>3 DEF DependInv, DepsInv
  <2>2. \A x \in Tasks : \A m \in Elems(deps'[x]) : ~deleted'[m] => x \in caps'[m]
    BY <1>2, <1>3, <1>5 DEF DependInv, DepsInv
  <2>3. \A m \in Elems(deps[t]) : deleted[m]
    BY <1>4, <1>5 DEF DependInv, DepsInv
  <2>4. ASSUME NEW u \in Threads, pc'[u] = "clean", NEW m \in Elems(walk'[u])
        PROVE  deleted'[m]
    <3>1. CASE u = th
      BY <3>1, <2>3, <2>4, <1>2, <1>3, <1>5
    <3>2. CASE u # th
      BY <3>2, <2>4, <1>2, <1>3, <1>5, <1>6 DEF DependInv, DepsInv
    <3> QED BY <3>1, <3>2
  <2> QED BY <1>7, <2>1, <2>2, <2>4 DEF DepsInv, NoneFinishing
<1>9. MapInv'
  <2> SUFFICES ASSUME NEW u \in Tasks, NEW x \in Tasks, closure'[u] = "map", x \in caps'[u]
               PROVE  status'[x] = "done" \/ u \in Elems(deps'[x])
    BY DEF MapInv
  <2>1. u # t /\ closure[u] = "map" /\ x \in caps[u] /\ x # t
    BY <1>3, <1>4
  <2>2. status[x] = "done" \/ u \in Elems(deps[x])
    BY <2>1 DEF DependInv, MapInv, NoneFinishing
  <2> QED BY <2>1, <2>2, <1>1, <1>2
<1>10. InterruptReachesDependents'
  BY <1>7 DEF InterruptReachesDependents, NoneFinishing
<1> QED BY <1>8, <1>9, <1>10 DEF DependInv

LEMMA DependEnterFinish ==
    ASSUME PlaceInv, OwnerInv, DependInv, NEW w \in Workers, NEW t \in Tasks,
           t = cur[w], status[t] = "active", NoneFinishing, RelockFinish(w)
    PROVE  DependInv'
<1>0. TypeOK /\ w \in Threads
  BY DEF PlaceInv, TypeInv, Threads
<1>1. /\ walk' = [walk EXCEPT ![w] = deps[t]] /\ deps' = [deps EXCEPT ![t] = <<>>]
      /\ pc' = [pc EXCEPT ![w] = "finish"] /\ walk[w] = <<>> /\ ~deleted[t]
      /\ UNCHANGED <<status, closure, caps, deleted, cur, interrupted>>
  BY <1>0, NoWalkYet DEF RelockFinish, EnterFinish, Step
<1>2. /\ Elems(walk'[w]) = Elems(deps[t])
      /\ \A u \in Threads : u # w => walk'[u] = walk[u]
      /\ deps'[t] = <<>> /\ Elems(deps'[t]) = {}
      /\ \A y \in Tasks : y # t => deps'[y] = deps[y]
  BY <1>0, <1>1, TakeListElems
<1>3. \A u \in Threads : pc'[u] = IF u = w THEN "finish" ELSE pc[u]
  BY <1>0, <1>1 DEF TypeOK
<1>4. \A v \in Workers : pc'[v] = "finish" <=> v = w
  BY <1>3 DEF NoneFinishing, Threads
<1>5. DepsInv'
  <2>1. \A x \in Tasks : deps'[x] # <<>> => status'[x] = "active" /\ ~deleted'[x]
    BY <1>1, <1>2 DEF DependInv, DepsInv
  <2>2. \A x \in Tasks : \A m \in Elems(deps'[x]) : ~deleted'[m] => x \in caps'[m]
    BY <1>1, <1>2 DEF DependInv, DepsInv
  <2>3. \A u \in Threads : pc'[u] = "clean" => \A m \in Elems(walk'[u]) : deleted'[m]
    BY <1>1, <1>2, <1>3 DEF DependInv, DepsInv
  <2>4. \A v \in Workers : pc'[v] = "finish" => ~deleted'[cur'[v]] /\ deps'[cur'[v]] = <<>>
    BY <1>1, <1>2, <1>4
  <2> QED BY <2>1, <2>2, <2>3, <2>4 DEF DepsInv
<1>6. MapInv'
  <2> SUFFICES ASSUME NEW u \in Tasks, NEW x \in Tasks, closure'[u] = "map", x \in caps'[u]
               PROVE  \/ status'[x] = "done" \/ u \in Elems(deps'[x])
                      \/ \E v \in Workers : pc'[v] = "finish" /\ cur'[v] = x
    BY DEF MapInv
  <2>1. status[x] = "done" \/ u \in Elems(deps[x])
    BY <1>1 DEF DependInv, MapInv, NoneFinishing
  <2>2. pc'[w] = "finish" /\ cur'[w] = t
    BY <1>1, <1>4
  <2> QED BY <2>1, <2>2, <1>1, <1>2
<1>7. InterruptReachesDependents'
  <2> SUFFICES ASSUME NEW m \in Tasks, closure'[m] = "map", t \in caps'[m]
               PROVE  m \in Elems(walk'[w])
    BY <1>1, <1>4 DEF InterruptReachesDependents
  <2>1. status[t] = "done" \/ m \in Elems(deps[t])
    BY <1>1 DEF DependInv, MapInv, NoneFinishing
  <2> QED BY <2>1, <1>2
<1> QED BY <1>5, <1>6, <1>7 DEF DependInv

(* A worker takes a task from a queue and runs its closure.                *)
LEMMA DependStart ==
    ASSUME PlaceInv, DependInv, NEW w \in Workers, NEW t \in Tasks, InQueue(t), NoneFinishing,
           closure' = [closure EXCEPT ![t] = "null"], caps' = [caps EXCEPT ![t] = {}],
           NEW p \in {"user", "map"}, pc' = [pc EXCEPT ![w] = p],
           UNCHANGED <<status, deleted, deps, walk, interrupted>>
    PROVE  DependInv'
<1>0. TypeOK /\ w \in Threads
  BY DEF PlaceInv, TypeInv, Threads
<1>1. /\ closure'[t] = "null" /\ caps'[t] = {}
      /\ \A u \in Tasks : u # t => closure'[u] = closure[u] /\ caps'[u] = caps[u]
  BY <1>0 DEF TypeOK
<1>2. \A x \in Tasks : t \notin Elems(deps[x]) /\ Elems(deps[x]) \subseteq Tasks
  <2>1. ~InDeps(t)
    BY DEF PlaceInv, PlacedOnce
  <2> QED BY <1>0, <2>1, ElemsOfSeq DEF InDeps, TypeOK
<1>3. \A u \in Threads : pc'[u] = IF u = w THEN p ELSE pc[u]
  BY <1>0 DEF TypeOK
<1>4. NoneFinishing'
  BY <1>3 DEF NoneFinishing, Threads
<1>5. DepsInv'
  <2>1. \A x \in Tasks : \A m \in Elems(deps'[x]) : ~deleted'[m] => x \in caps'[m]
    BY <1>1, <1>2 DEF DependInv, DepsInv
  <2>2. \A u \in Threads : pc'[u] = "clean" => pc[u] = "clean"
    BY <1>3
  <2> QED BY <1>4, <2>1, <2>2 DEF DependInv, DepsInv, NoneFinishing
<1>6. MapInv'
  BY <1>1 DEF DependInv, MapInv, NoneFinishing
<1>7. InterruptReachesDependents'
  BY <1>4 DEF InterruptReachesDependents, NoneFinishing
<1> QED BY <1>5, <1>6, <1>7 DEF DependInv

(* One dependent is interrupted along with the task, and enqueued.         *)
LEMMA DependHandle ==
    ASSUME PlaceInv, DependInv, NEW w \in Workers, HandleFinished(w)
    PROVE  DependInv'
<1>0. TypeOK /\ ControlInv /\ w \in Threads /\ pc[w] = "finish" /\ walk[w] # <<>>
  BY DEF PlaceInv, TypeInv, Threads, HandleFinished, FinishDep
<1>1. PICK it : it = Head(walk[w])
  OBVIOUS
<1>2. /\ it \in Tasks /\ InWalk(it)
      /\ \A u \in Threads : Elems(walk'[u]) = Elems(walk[u]) \ {it}
  BY <1>0, <1>1, WalkElems DEF HandleFinished, FinishDep
<1>3. status[it] = "active" /\ ~IsRun(it)
  BY <1>2 DEF PlaceInv, PlacedOnce
<1>4. UNCHANGED <<closure, caps, deps, deleted, cur>>
  BY DEF HandleFinished, FinishDep
<1>5. pc' = pc \/ pc' \in SpawnOrNotify(pc)
  BY DEF HandleFinished, FinishDep, EnqueueCore
<1>6. \A u \in Threads : \/ pc'[u] = pc[u]
                         \/ pc[u] \in {"absent", "sleep"} /\ pc'[u] = "loop"
  BY <1>0, <1>5, SpawnOrNotifyMoves DEF TypeOK
<1>7. \A v \in Workers : pc'[v] = "finish" <=> v = w
  BY <1>0, <1>6 DEF ControlInv, Threads
<1>8. /\ interrupted'[it] <=> interrupted[it] \/ interrupted[cur[w]]
      /\ \A u \in Tasks : u # it => interrupted'[u] = interrupted[u]
  BY <1>0, <1>1, <1>2 DEF HandleFinished, FinishDep, TypeOK
<1>9. cur[w] \in Tasks /\ cur[w] # it
  BY <1>0, <1>3 DEF ControlInv, RunningPcs, TypeOK, IsRun
<1>10. \A u \in Tasks : status'[u] = status[u] \/ (u = it /\ deleted[it] /\ status'[u] = "freed")
  BY <1>0, <1>1 DEF HandleFinished, FinishDep, TypeOK
<1>11. DepsInv'
  <2>1. \A x \in Tasks : deps'[x] # <<>> => status'[x] = "active" /\ ~deleted'[x]
    BY <1>4, <1>10 DEF DependInv, DepsInv
  <2>2. \A u \in Threads : pc'[u] = "clean" => \A m \in Elems(walk'[u]) : deleted'[m]
    BY <1>2, <1>4, <1>6 DEF DependInv, DepsInv
  <2>3. \A v \in Workers : pc'[v] = "finish" => ~deleted'[cur'[v]] /\ deps'[cur'[v]] = <<>>
    BY <1>0, <1>4, <1>7 DEF DependInv, DepsInv
  <2> QED BY <1>4, <2>1, <2>2, <2>3 DEF DependInv, DepsInv
<1>12. MapInv'
  <2> SUFFICES ASSUME NEW u \in Tasks, NEW x \in Tasks, closure'[u] = "map", x \in caps'[u]
               PROVE  \/ status'[x] = "done" \/ u \in Elems(deps'[x])
                      \/ \E v \in Workers : pc'[v] = "finish" /\ cur'[v] = x
    BY DEF MapInv
  <2>1. \/ status[x] = "done" \/ u \in Elems(deps[x])
        \/ \E v \in Workers : pc[v] = "finish" /\ cur[v] = x
    BY <1>4 DEF DependInv, MapInv
  <2>2. \A v \in Workers : pc[v] = "finish" => pc'[v] = "finish"
    BY <1>6 DEF Threads
  <2> QED BY <2>1, <2>2, <1>3, <1>4, <1>10
<1>13. InterruptReachesDependents'
  <2> SUFFICES ASSUME NEW m \in Tasks, interrupted'[cur[w]], status'[m] = "active",
                      closure[m] = "map", cur[w] \in caps[m]
               PROVE  interrupted'[m] \/ m \in Elems(walk'[w])
    BY <1>4, <1>7 DEF InterruptReachesDependents
  <2>1. interrupted[cur[w]]
    BY <1>8, <1>9
  <2>2. status[m] = "active"
    BY <1>10
  <2>3. interrupted[m] \/ m \in Elems(walk[w])
    BY <1>0, <2>1, <2>2 DEF DependInv, InterruptReachesDependents
  <2> QED BY <2>1, <2>3, <1>0, <1>2, <1>8
<1> QED BY <1>11, <1>12, <1>13 DEF DependInv

LEMMA DependFinish ==
    ASSUME PlaceInv, DependInv, NEW w \in Workers, Finish(w)
    PROVE  DependInv'
<1>0. TypeOK /\ ControlInv /\ w \in Threads /\ pc[w] = "finish" /\ walk[w] = <<>>
  BY DEF PlaceInv, TypeInv, Threads, Finish, Publish
<1>1. cur[w] \in Tasks
  BY <1>0 DEF ControlInv, RunningPcs, TypeOK
<1>2. UNCHANGED <<closure, caps, deps, deleted, walk, interrupted>>
  BY DEF Finish, Publish
<1>3. \A u \in Threads : \/ pc'[u] = pc[u]
                         \/ pc'[u] \in {"loop", "get"}
  BY DEF Finish, Publish
<1>4. NoneFinishing'
  <2>1. \A v \in Workers : pc[v] = "finish" => v = w
    BY <1>0 DEF ControlInv, Threads
  <2>2. pc'[w] = "loop"
    BY <1>0 DEF Finish, Publish
  <2> QED BY <1>3, <2>1, <2>2 DEF NoneFinishing, Threads
<1>5. status'[cur[w]] = "done" /\ \A u \in Tasks : u # cur[w] => status'[u] = status[u]
  BY <1>0, <1>1 DEF Finish, Publish, TypeOK
<1>6. deps[cur[w]] = <<>>
  BY <1>0 DEF DependInv, DepsInv
<1>7. DepsInv'
  BY <1>2, <1>3, <1>4, <1>5, <1>6 DEF DependInv, DepsInv, NoneFinishing
<1>8. MapInv'
  <2> SUFFICES ASSUME NEW u \in Tasks, NEW x \in Tasks, closure[u] = "map", x \in caps[u]
               PROVE  status'[x] = "done" \/ u \in Elems(deps[x])
    BY <1>2 DEF MapInv
  <2>1. \/ status[x] = "done" \/ u \in Elems(deps[x])
        \/ \E v \in Workers : pc[v] = "finish" /\ cur[v] = x
    BY DEF DependInv, MapInv
  <2>2. \A v \in Workers : pc[v] = "finish" => v = w
    BY <1>0 DEF ControlInv, Threads
  <2> QED BY <2>1, <2>2, <1>5
<1>9. InterruptReachesDependents'
  BY <1>4 DEF InterruptReachesDependents, NoneFinishing
<1> QED BY <1>7, <1>8, <1>9 DEF DependInv

----------------------------------------------------------------------------
(* The threads.                                                            *)

(* The steps of one thread.                                                *)
StepOf(th) ==
    \/ Call(th) \/ DropSome(th) \/ Internal(th) \/ SpuriousWakeup(th)
    \/ th \in Workers /\ Work(th)
    \/ th \in Clients /\ (Shutdown(th) \/ Join(th))

LEMMA NextIsStepOf ==
    ASSUME Next
    PROVE  \E th \in Threads : StepOf(th)
BY DEF Next, StepOf, Threads

LEMMA EnqueueMoves ==
    ASSUME TypeOK, pc' \in SpawnOrNotify(pc), NEW u \in Threads
    PROVE  \/ pc'[u] = pc[u]
           \/ u \in Workers /\ pc[u] \in {"absent", "sleep"} /\ pc'[u] = "loop"
BY SpawnOrNotifyMoves DEF TypeOK

(* A step of one thread leaves the variables of the others alone, and      *)
(* moves another one only to wake it up or to start it.                    *)
LEMMA OthersKeep ==
    ASSUME TypeInv, NEW th \in Threads, StepOf(th), NEW u \in Threads, u # th
    PROVE  /\ \/ pc'[u] = pc[u]
              \/ pc[u] = "wait" /\ pc'[u] = "get"
              \/ u \in Workers /\ pc[u] \in {"absent", "sleep"} /\ pc'[u] = "loop"
           /\ handles'[u] = handles[u] /\ want'[u] = want[u] /\ junk'[u] = junk[u]
<1>0. TypeOK
  BY DEF TypeInv
<1>1. CASE Call(th)
  <2>1. handles'[u] = handles[u] /\ want'[u] = want[u] /\ junk'[u] = junk[u]
    BY <1>0, <1>1 DEF Call, MkTask, TaskPure, TaskMap, NewDependent, Alloc, TaskGet,
                      RequestInterrupt, threadVars, TypeOK
  <2>2. \/ pc' = pc \/ pc' \in SpawnOrNotify(pc)
        \/ pc' = [pc EXCEPT ![th] = "get"]
    BY <1>1 DEF Call, MkTask, TaskPure, TaskMap, NewDependent, TaskGet, EnqueueCore,
                RequestInterrupt, Step
  <2>3. CASE pc' \in SpawnOrNotify(pc)
    BY <1>0, <2>1, <2>3, EnqueueMoves
  <2>4. CASE pc' = pc \/ pc' = [pc EXCEPT ![th] = "get"]
    BY <1>0, <2>1, <2>4 DEF TypeOK
  <2> QED BY <2>2, <2>3, <2>4
<1>2. CASE DropSome(th) \/ Internal(th) \/ SpuriousWakeup(th)
  <2>1. handles'[u] = handles[u] /\ want'[u] = want[u] /\ junk'[u] = junk[u]
    BY <1>0, <1>2 DEF DropSome, Drop, Internal, WaitFor, DeactivateTask, Deactivate, FreeDep,
                      DropCaptured, EndDrop, SpuriousWakeup, threadVars, TypeOK
  <2>2. pc' = pc \/ \E p \in Pcs : pc' = [pc EXCEPT ![th] = p]
    BY <1>2 DEF DropSome, Drop, DecRef, Internal, WaitFor, DeactivateTask, Deactivate, FreeDep,
                DropCaptured, EndDrop, SpuriousWakeup, Step, Pcs, ClientPcs, WorkerPcs
  <2> QED BY <1>0, <2>1, <2>2 DEF TypeOK
<1>3. CASE th \in Workers /\ Work(th)
  <2>1. handles'[u] = handles[u] /\ want'[u] = want[u] /\ junk'[u] = junk[u]
    BY <1>0, <1>3 DEF Work, WorkerExit, WorkerSleep, WorkerDiscard, WorkerStart, TaskMapFn,
                      ReadSource, Return, RelockDeleted, RelockFinish, EnterFinish,
                      HandleFinished, FinishDep, Finish, Publish, threadVars, TypeOK
  <2>2. CASE Finish(th)
    BY <2>1, <2>2 DEF Finish, Publish, Waiters
  <2>3. CASE ~Finish(th)
    <3>1. \/ pc' = pc \/ pc' \in SpawnOrNotify(pc)
          \/ \E p : pc' = [pc EXCEPT ![th] = p]
      BY <1>3, <2>3 DEF Work, WorkerExit, WorkerSleep, WorkerDiscard, WorkerStart, TaskMapFn,
                        ReadSource, DecRef, Return, RelockDeleted, RelockFinish, EnterFinish,
                        HandleFinished, FinishDep, EnqueueCore, Step
    <3>2. CASE pc' \in SpawnOrNotify(pc)
      BY <1>0, <2>1, <3>2, EnqueueMoves
    <3>3. CASE pc' = pc \/ \E p : pc' = [pc EXCEPT ![th] = p]
      BY <1>0, <2>1, <3>3 DEF TypeOK
    <3> QED BY <3>1, <3>2, <3>3
  <2> QED BY <2>2, <2>3
<1>4. CASE th \in Clients /\ (Shutdown(th) \/ Join(th))
  BY <1>0, <1>4 DEF Shutdown, Destroy, Join, Step, threadVars, TypeOK
<1> QED BY <1>1, <1>2, <1>3, <1>4 DEF StepOf

(* What LocalInv says of one thread.                                       *)
LocalOK(th) ==
    /\ want[th] # {} => pc[th] \in {"get", "wait"}
    /\ th \in Workers /\ handles[th] # {} =>
          pc[th] \in {"map", "user", "get", "wait", "deact", "clean"}
    /\ junk[th] # {} => pc[th] \in {"deact", "clean"}

LEMMA LocalStep ==
    ASSUME TypeInv, LocalInv, NEW th \in Threads, StepOf(th)
    PROVE  LocalInv'
<1>0. TypeOK /\ ControlInv /\ \A u \in Threads : LocalOK(u)
  BY DEF TypeInv, LocalInv, LocalOK, Threads
<1>1. \A u \in Threads : u # th => LocalOK(u)'
  <2> TAKE u \in Threads
  <2> HAVE u # th
  <2>1. /\ \/ pc'[u] = pc[u]
           \/ pc[u] = "wait" /\ pc'[u] = "get"
           \/ u \in Workers /\ pc[u] \in {"absent", "sleep"} /\ pc'[u] = "loop"
        /\ handles'[u] = handles[u] /\ want'[u] = want[u] /\ junk'[u] = junk[u]
    BY OthersKeep
  <2>2. LocalOK(u)
    BY <1>0
  <2> QED BY <2>1, <2>2 DEF LocalOK
<1>l. LocalOK(th)
  BY <1>0
<1>2. LocalOK(th)'
  <2>1. CASE Call(th)
    <3>1. pc[th] = "user" /\ want[th] = {} /\ junk[th] = {}
      BY <2>1, <1>l DEF Call, MkTask, TaskPure, TaskMap, NewDependent, TaskGet,
                        RequestInterrupt, CanCall, LocalOK
    <3>2. CASE \E S \in SUBSET handles[th] : TaskGet(th, S)
      BY <1>0, <1>l, <3>1, <3>2 DEF TaskGet, Step, LocalOK, TypeOK
    <3>3. CASE ~ \E S \in SUBSET handles[th] : TaskGet(th, S)
      <4>1. want' = want /\ junk' = junk /\ (pc' = pc \/ pc' \in SpawnOrNotify(pc))
        BY <2>1, <3>3 DEF Call, MkTask, TaskPure, TaskMap, NewDependent, EnqueueCore,
                          RequestInterrupt, threadVars
      <4>2. pc'[th] = "user"
        BY <1>0, <3>1, <4>1, EnqueueMoves
      <4> QED BY <3>1, <4>1, <4>2 DEF LocalOK
    <3> QED BY <3>2, <3>3
  <2>2. CASE DropSome(th)
    <3>1. pc[th] = "user" /\ want[th] = {} /\ junk[th] = {}
      BY <2>2, <1>l DEF DropSome, Drop, CanCall, LocalOK
    <3>2. want' = want /\ junk' = junk /\ pc'[th] \in {"user", "deact"}
      BY <1>0, <2>2 DEF DropSome, Drop, DecRef, Step, TypeOK
    <3> QED BY <3>1, <3>2 DEF LocalOK
  <2>3. CASE WaitFor(th)
    BY <1>0, <1>l, <2>3 DEF WaitFor, Step, LocalOK, TypeOK
  <2>4. CASE DeactivateTask(th)
    <3>1. want'[th] = {} /\ pc'[th] = "clean"
      BY <1>0, <1>l, <2>4 DEF DeactivateTask, Deactivate, Step, LocalOK, TypeOK
    <3> QED BY <3>1 DEF LocalOK
  <2>5. CASE FreeDep(th)
    BY <1>l, <2>5 DEF FreeDep, LocalOK
  <2>6. CASE DropCaptured(th)
    <3>1. want'[th] = {} /\ pc'[th] \in {"clean", "deact"}
      BY <1>0, <1>l, <2>6 DEF DropCaptured, DecRef, Step, LocalOK, TypeOK
    <3> QED BY <3>1 DEF LocalOK
  <2>7. CASE EndDrop(th)
    BY <1>0, <1>l, <2>7 DEF EndDrop, Step, LocalOK, TypeOK, threadVars
  <2>8. CASE SpuriousWakeup(th)
    BY <1>0, <1>l, <2>8 DEF SpuriousWakeup, Step, LocalOK, TypeOK, threadVars
  <2>9. ASSUME th \in Workers, Work(th)
        PROVE  LocalOK(th)'
    <3>1. CASE WorkerStart(th)
      <4> DEFINE t == Head(queues[maxPrio])
      <4>1. t \in Tasks
        BY <3>1, DequeueKeepsQueues DEF WorkerStart, CanDequeue, TypeInv
      <4>2. BodyPc(closure[t]) \in {"user", "map"}
        BY <1>0, <4>1 DEF BodyPc, TypeOK, Kinds
      <4>3. pc'[th] \in {"user", "map"}
        BY <1>0, <3>1, <4>2 DEF WorkerStart, Step, TypeOK
      <4>4. want'[th] = {} /\ junk'[th] = {}
        BY <1>l, <3>1 DEF WorkerStart, CanDequeue, LocalOK
      <4> QED BY <4>3, <4>4 DEF LocalOK
    <3>2. CASE TaskMapFn(th)
      <4>1. want' = want /\ junk' = junk /\ pc[th] = "map" /\ pc'[th] \in {"user", "deact"}
        BY <1>0, <3>2 DEF TaskMapFn, ReadSource, DecRef, Step, TypeOK
      <4> QED BY <1>l, <4>1 DEF LocalOK
    <3>3. CASE Finish(th)
      BY <1>l, <3>3 DEF Finish, Publish, LocalOK
    <3>4. CASE HandleFinished(th)
      <4>1. UNCHANGED <<want, junk, handles>> /\ pc[th] = "finish"
        BY <3>4 DEF HandleFinished, FinishDep
      <4> QED BY <1>l, <4>1 DEF LocalOK
    <3>5. CASE WorkerExit(th) \/ WorkerSleep(th) \/ WorkerDiscard(th) \/ RelockDeleted(th) \/ RelockFinish(th)
      <4>1. UNCHANGED <<want, junk, handles>> /\ pc[th] \in {"loop", "relock"}
        BY <3>5 DEF WorkerExit, WorkerSleep, WorkerDiscard, CanDequeue, RelockDeleted,
                    RelockFinish, EnterFinish, threadVars
      <4> QED BY <1>l, <2>9, <4>1 DEF LocalOK
    <3>6. CASE Return(th)
      <4>1. UNCHANGED <<want, junk, handles>> /\ pc[th] = "user" /\ handles[th] = {}
        BY <3>6 DEF Return, threadVars
      <4> QED BY <1>l, <2>9, <4>1 DEF LocalOK
    <3> QED BY <2>9, <3>1, <3>2, <3>3, <3>4, <3>5, <3>6 DEF Work
  <2>10. ASSUME th \in Clients, Shutdown(th) \/ Join(th)
         PROVE  LocalOK(th)'
    <3>1. UNCHANGED <<want, junk, handles>> /\ pc[th] \in {"user", "join"} /\ th \notin Workers
      BY <2>10, ThreadsAssumption DEF Shutdown, Destroy, Join, threadVars
    <3> QED BY <1>l, <3>1 DEF LocalOK
  <2> QED BY <2>1, <2>2, <2>3, <2>4, <2>5, <2>6, <2>7, <2>8, <2>9, <2>10 DEF StepOf, Internal
<1>3. \A u \in Threads : LocalOK(u)'
  BY <1>1, <1>2
<1> QED BY <1>3 DEF LocalInv, LocalOK, Threads

----------------------------------------------------------------------------
(* The destructor.                                                         *)

(* While the manager is destroyed the clients hold no task, and after that *)
(* no worker and no task is left.                                          *)
ShutInv ==
    /\ shuttingDown => \A c \in Clients : pc[c] \in {"user", "join", "end"} /\ handles[c] = {}
    /\ \A c \in Clients : pc[c] \in {"join", "end"} => shuttingDown
    /\ \A c \in Clients : pc[c] = "end" =>
          Joined /\ \A t \in Tasks : status[t] \in {"none", "freed"}

TaskInv == PlaceInv /\ OwnerInv /\ DependInv /\ LocalInv /\ ShutInv

(* A set of live tasks that are owned by closures only would have no       *)
(* member that none of the set knows: when no thread owns a task, no task  *)
(* is live.                                                                *)
LEMMA NobodyOwnsNothingLives ==
    ASSUME TypeOK, OwnerInv,
           \A th \in Threads : handles[th] = {} /\ junk[th] = {} /\ tgt[th] = NoTask
    PROVE  \A t \in Tasks : ~Live(t)
<1>1. \A t \in Tasks : Live(t) => \E u \in Tasks : Live(u) /\ t \in caps[u]
  <2> TAKE t \in Tasks
  <2> HAVE Live(t)
  <2>1. PICK u \in Tasks : t \in caps[u]
    BY TasksAssumption DEF OwnerInv, NoLeakInv, Referenced
  <2>2. closure[u] # "null"
    BY <2>1 DEF OwnerInv, ClosureInv
  <2>3. Live(u)
    BY <2>2 DEF OwnerInv, ClosureInv, Live, Alive
  <2> QED BY <2>1, <2>3
<1> DEFINE S == {t \in Tasks : Live(t)}
<1>2. SUFFICES ASSUME S # {} PROVE FALSE
  OBVIOUS
<1>3. PICK t \in S : \A u \in S : ~Knows(u, t)
  <2>1. S \in SUBSET Tasks
    OBVIOUS
  <2> HIDE DEF S
  <2> QED BY <1>2, <2>1 DEF OwnerInv, FoundedInv
<1> QED BY <1>1, <1>3 DEF Knows

(* When the workers have been joined, the tasks that are left are deleted  *)
(* and in the queues.                                                      *)
LEMMA OnlyDeletedLeft ==
    ASSUME TaskInv, NEW c \in Clients, pc[c] = "join", Joined
    PROVE  /\ \A t \in Tasks : status[t] # "done" /\ (status[t] = "active" <=> InQueue(t))
           /\ \A t \in Tasks : InQueue(t) => deleted[t]
<1>0. TypeOK /\ ControlInv /\ shuttingDown
  BY DEF TaskInv, PlaceInv, TypeInv, ShutInv
<1>1. \A th \in Threads : /\ pc[th] \in {"user", "join", "end", "absent", "exit"}
                          /\ th \in Workers => pc[th] \in {"absent", "exit"}
                          /\ th \in Clients => handles[th] = {}
  BY <1>0, ThreadsAssumption DEF TaskInv, ShutInv, Joined, Threads
<1>2. \A th \in Threads : handles[th] = {} /\ junk[th] = {} /\ tgt[th] = NoTask
  BY <1>0, <1>1 DEF TaskInv, LocalInv, ControlInv, Threads
<1>3. \A t \in Tasks : ~Live(t)
  BY <1>0, <1>2, NobodyOwnsNothingLives DEF TaskInv
<1>4. \A t \in Tasks : status[t] # "done"
  BY <1>3 DEF Live, Alive, TaskInv, OwnerInv, ClosureInv
<1>5. ASSUME NEW t \in Tasks PROVE ~InDeps(t) /\ ~InWalk(t) /\ ~IsRun(t)
  <2>1. \A x \in Tasks : deps[x] = <<>>
    BY <1>3 DEF TaskInv, DependInv, DepsInv, Live, Alive
  <2>2. \A th \in Threads : walk[th] = <<>>
    BY <1>1 DEF TaskInv, PlaceInv, WalkInv
  <2>3. \A w \in Workers : cur[w] = NoTask
    BY <1>0, <1>1 DEF ControlInv, RunningPcs, Threads
  <2> QED BY <2>1, <2>2, <2>3, ElemsEmpty, TasksAssumption DEF InDeps, InWalk, IsRun
<1>6. \A t \in Tasks : status[t] = "active" <=> InQueue(t)
  BY <1>5 DEF TaskInv, PlaceInv, PlacedOnce
<1>7. \A t \in Tasks : InQueue(t) => deleted[t]
  BY <1>3, <1>6 DEF Live, Alive
<1> QED BY <1>4, <1>6, <1>7

(* Once the shutdown has begun, the clients do nothing but join.           *)
LEMMA ClientsOnlyJoin ==
    ASSUME TaskInv, shuttingDown, NEW c \in Clients, StepOf(c)
    PROVE  Join(c)
<1>1. pc[c] \in {"user", "join", "end"} /\ c \notin Workers /\ c \in Threads
  BY ThreadsAssumption DEF TaskInv, ShutInv, Threads
<1>2. ~CanCall(c)
  BY DEF CanCall
<1>3. ~Call(c) /\ ~DropSome(c)
  BY <1>2 DEF Call, MkTask, TaskPure, TaskMap, NewDependent, TaskGet, RequestInterrupt, DropSome, Drop
<1>4. ~Internal(c) /\ ~SpuriousWakeup(c)
  BY <1>1 DEF Internal, WaitFor, DeactivateTask, Deactivate, FreeDep, DropCaptured, EndDrop, SpuriousWakeup
<1>5. ~Shutdown(c)
  BY DEF Shutdown, Destroy
<1> QED BY <1>1, <1>3, <1>4, <1>5 DEF StepOf

(* A worker that is not running does nothing.                              *)
LEMMA AbsentWorkersRest ==
    ASSUME TypeInv, NEW w \in Workers, pc[w] \in {"absent", "exit"}, StepOf(w)
    PROVE  FALSE
<1>1. w \notin Clients
  BY ThreadsAssumption
<1>2. ~Call(w) /\ ~DropSome(w)
  BY DEF CanCall, Call, MkTask, TaskPure, TaskMap, NewDependent, TaskGet, RequestInterrupt, DropSome, Drop
<1>3. ~Internal(w) /\ ~SpuriousWakeup(w)
  BY DEF Internal, WaitFor, DeactivateTask, Deactivate, FreeDep, DropCaptured, EndDrop, SpuriousWakeup
<1>4. ~Work(w)
  BY DEF Work, WorkerExit, WorkerSleep, WorkerDiscard, WorkerStart, CanDequeue, TaskMapFn, ReadSource,
         Return, RelockDeleted, RelockFinish, EnterFinish, HandleFinished, FinishDep, Finish, Publish
<1> QED BY <1>1, <1>2, <1>3, <1>4 DEF StepOf

LEMMA ShutStep ==
    ASSUME TaskInv, NEW th \in Threads, StepOf(th)
    PROVE  ShutInv'
<1>0. TypeInv /\ TypeOK /\ ControlInv /\ ShutInv
  BY DEF TaskInv, PlaceInv, TypeInv
<1>o. \A c \in Clients : c # th => pc'[c] = pc[c] \/ (pc[c] = "wait" /\ pc'[c] = "get")
  BY <1>0, OthersKeep, ThreadsAssumption DEF Threads
<1>h. \A c \in Clients : c # th => handles'[c] = handles[c]
  BY <1>0, OthersKeep DEF Threads
<1>1. CASE th \in Clients /\ Join(th)
  <2>1. pc[th] = "join" /\ Joined /\ shuttingDown
    BY <1>0, <1>1 DEF Join, ShutInv
  <2>2. /\ \A t \in Tasks : status'[t] = IF InQueue(t) THEN "freed" ELSE status[t]
        /\ pc' = [pc EXCEPT ![th] = "end"] /\ UNCHANGED <<shuttingDown, handles>>
    BY <1>1 DEF Join, InQueue, Elems, Step, threadVars
  <2>3. \A t \in Tasks : status'[t] \in {"none", "freed"}
    <3> TAKE t \in Tasks
    <3>1. status[t] \in {"none", "active", "freed"} /\ (status[t] = "active" <=> InQueue(t))
      BY <1>0, <1>1, <2>1, OnlyDeletedLeft DEF TypeOK
    <3> QED BY <2>2, <3>1
  <2>4. \A u \in Threads : pc'[u] = IF u = th THEN "end" ELSE pc[u]
    BY <1>0, <2>2 DEF TypeOK
  <2>5. Joined'
    BY <1>1, <2>1, <2>4, ThreadsAssumption DEF Joined, Threads
  <2> QED BY <1>0, <2>1, <2>2, <2>3, <2>4, <2>5 DEF ShutInv, Threads
<1>2. CASE shuttingDown /\ ~(th \in Clients /\ Join(th))
  <2>1. th \in Workers /\ th \notin Clients
    BY <1>2, ClientsOnlyJoin, ThreadsAssumption DEF Threads
  <2>2. \A c \in Clients : pc'[c] = pc[c] /\ handles'[c] = handles[c]
    BY <1>0, <1>2, <1>o, <1>h, <2>1 DEF ShutInv
  <2>3. \A c \in Clients : pc[c] # "end"
    <3> SUFFICES ASSUME NEW c \in Clients, pc[c] = "end" PROVE FALSE
      OBVIOUS
    <3>1. pc[th] \in {"absent", "exit"}
      BY <1>0, <2>1 DEF ShutInv, Joined
    <3> QED BY <1>0, <2>1, <3>1, AbsentWorkersRest
  <2>4. shuttingDown'
    BY <1>2, <1>0, InterruptionsStay, <2>1 DEF StepOf, Next, Shutdown, Destroy
  <2> QED BY <1>0, <1>2, <2>2, <2>3, <2>4 DEF ShutInv
<1>3. CASE ~shuttingDown /\ th \in Clients /\ Shutdown(th)
  <2>1. /\ \A c \in Clients : pc[c] = "user" /\ handles[c] = {}
        /\ \A u \in Clients : pc'[u] = IF u = th THEN "join" ELSE "user"
        /\ UNCHANGED handles /\ shuttingDown'
    BY <1>3, ThreadsAssumption DEF Shutdown, Destroy, threadVars, Threads
  <2> QED BY <2>1 DEF ShutInv
<1>4. CASE ~shuttingDown /\ ~(th \in Clients /\ (Shutdown(th) \/ Join(th)))
  <2>1. ~shuttingDown'
    <3>1. CASE Call(th)
      BY <1>4, <3>1 DEF Call, MkTask, TaskPure, TaskMap, NewDependent, TaskGet, RequestInterrupt
    <3>2. CASE DropSome(th) \/ Internal(th) \/ SpuriousWakeup(th)
      BY <1>4, <3>2 DEF DropSome, Drop, Internal, WaitFor, DeactivateTask, Deactivate, FreeDep,
                        DropCaptured, EndDrop, SpuriousWakeup
    <3>3. CASE th \in Workers /\ Work(th)
      BY <1>4, <3>3 DEF Work, WorkerExit, WorkerSleep, WorkerDiscard, WorkerStart, TaskMapFn,
                        ReadSource, Return, RelockDeleted, RelockFinish, EnterFinish,
                        HandleFinished, FinishDep, Finish, Publish
    <3> QED BY <1>4, <3>1, <3>2, <3>3 DEF StepOf
  <2>2. \A c \in Clients : pc[c] \notin {"join", "end"}
    BY <1>0, <1>4 DEF ShutInv
  <2>3. ASSUME th \in Clients PROVE pc'[th] \notin {"join", "end"}
    <3>1. CASE Call(th)
      <4>1. \/ pc' = pc \/ pc' \in SpawnOrNotify(pc)
            \/ pc' = [pc EXCEPT ![th] = "get"]
        BY <3>1 DEF Call, MkTask, TaskPure, TaskMap, NewDependent, TaskGet, EnqueueCore,
                    RequestInterrupt, Step
      <4>2. CASE pc' \in SpawnOrNotify(pc)
        BY <1>0, <2>2, <2>3, <4>2, EnqueueMoves
      <4>3. CASE pc' = pc \/ pc' = [pc EXCEPT ![th] = "get"]
        BY <1>0, <2>2, <2>3, <4>3 DEF TypeOK
      <4> QED BY <4>1, <4>2, <4>3
    <3>2. CASE DropSome(th) \/ Internal(th) \/ SpuriousWakeup(th)
      <4>1. pc' = pc \/ \E p \in {"user", "wait", "clean", "deact", "loop", "get"} : pc' = [pc EXCEPT ![th] = p]
        BY <3>2 DEF DropSome, Drop, DecRef, Internal, WaitFor, DeactivateTask, Deactivate, FreeDep,
                    DropCaptured, EndDrop, SpuriousWakeup, Step
      <4> QED BY <1>0, <2>2, <2>3, <4>1 DEF TypeOK
    <3> QED BY <1>4, <2>3, <3>1, <3>2, ThreadsAssumption DEF StepOf
  <2>4. \A c \in Clients : pc'[c] \notin {"join", "end"}
    BY <1>o, <2>2, <2>3
  <2> QED BY <2>1, <2>4 DEF ShutInv
<1> QED BY <1>1, <1>2, <1>3, <1>4

----------------------------------------------------------------------------
(* Every step keeps the ownership of tasks and the dependency lists.       *)

(* A step of th that changes no task, moves no list and touches no         *)
(* reference of a task.                                                    *)
LEMMA QuietStep ==
    ASSUME TaskInv, NEW th \in Threads, NEW p \in Pcs, pc' = [pc EXCEPT ![th] = p],
           p # "finish", pc[th] # "finish", p = "clean" => pc[th] = "clean",
           UNCHANGED <<status, closure, caps, deleted, deps, walk, cur, interrupted>>
    PROVE  DependInv'
<1>0. TypeOK
  BY DEF TaskInv, PlaceInv, TypeInv
<1>1. \A u \in Threads : pc'[u] = IF u = th THEN p ELSE pc[u]
  BY <1>0 DEF TypeOK
<1>2. FinishingStays
  BY <1>1 DEF FinishingStays, Threads
<1>3. \A u \in Threads : pc'[u] = "clean" => pc[u] = "clean" \/ walk[u] = <<>>
  BY <1>1
<1> QED BY <1>2, <1>3, DependUnchanged DEF TaskInv

LEMMA OwnStepCall ==
    ASSUME TaskInv, NEW th \in Threads, Call(th)
    PROVE  (OwnerInv /\ DependInv)'
<1>0. /\ TypeInv /\ TypeOK /\ OwnerTypes /\ PlaceInv /\ OwnerInv /\ DependInv
      /\ \A t \in Tasks : PlacedOnce(t)
  BY DEF TaskInv, PlaceInv, TypeInv, TypeOK, OwnerTypes
<1>e. ASSUME pc' \in SpawnOrNotify(pc)
      PROVE  FinishingStays /\ \A u \in Threads : pc'[u] = "clean" => pc[u] = "clean"
  <2>1. \A u \in Threads : \/ pc'[u] = pc[u]
                           \/ pc[u] \in {"absent", "sleep"} /\ pc'[u] = "loop"
    BY <1>0, <1>e, EnqueueMoves
  <2> QED BY <2>1 DEF FinishingStays, Threads
<1>1. ASSUME NEW t \in Tasks, NEW C \in SUBSET handles[th], NEW pr \in Prios, MkTask(th, t, C, pr)
      PROVE  (OwnerInv /\ DependInv)'
  <2>1. /\ Alloc(th, t, "fn", C, pr) /\ EnqueueCore(t, pr, pc) /\ MutexFree
        /\ UNCHANGED <<deps, interrupted, deleted, cur, want, tgt, walk, junk>>
    BY <1>1 DEF MkTask
  <2>2. status[t] = "none" /\ ~IsRun(t)
    BY <1>0, <2>1 DEF Alloc, PlacedOnce
  <2>3. OwnerInv'
    BY <1>0, <2>1, <2>2, OwnerAlloc
  <2>4. /\ closure'[t] = "fn"
        /\ \A u \in Tasks : u # t =>
              status'[u] = status[u] /\ closure'[u] = closure[u] /\ caps'[u] = caps[u]
    BY <1>0, <2>1 DEF Alloc, TypeOK
  <2>5. FinishingStays /\ NoneFinishing /\ \A u \in Threads : pc'[u] = "clean" => pc[u] = "clean"
    BY <1>0, <1>e, <2>1, MutexFreeNoneFinishing DEF EnqueueCore
  <2>6. DependInv'
    BY <1>0, <2>1, <2>2, <2>4, <2>5, DependNew
  <2> QED BY <2>3, <2>6
<1>2. ASSUME NEW t \in Tasks, TaskPure(th, t)
      PROVE  (OwnerInv /\ DependInv)'
  <2>1. OwnerInv'
    <3>1. ~IsRun(t)
      BY <1>0, <1>2 DEF TaskPure, PlacedOnce
    <3> QED BY <1>0, <1>2, <3>1, OwnerPure
  <2>2. /\ status[t] = "none" /\ status'[t] = "done"
        /\ \A u \in Tasks : u # t => status'[u] = status[u]
        /\ UNCHANGED <<closure, caps, deleted, deps, walk, cur, interrupted, pc>>
    BY <1>0, <1>2 DEF TaskPure, TypeOK
  <2>3. closure[t] # "map"
    BY <1>0, <2>2 DEF OwnerInv, ClosureInv
  <2>4. DependInv'
    BY <1>0, <2>2, <2>3, DependNew DEF FinishingStays
  <2> QED BY <2>1, <2>4
<1>3. ASSUME NEW x \in handles[th], NEW t \in Tasks, NEW pr \in Prios, TaskMap(th, x, t, pr)
      PROVE  (OwnerInv /\ DependInv)'
  <2>1. /\ Alloc(th, t, "map", {x}, pr) /\ MutexFree
        /\ UNCHANGED <<interrupted, deleted, cur, want, tgt, walk, junk>>
    BY <1>3 DEF TaskMap, NewDependent
  <2>2. status[t] = "none" /\ ~IsRun(t) /\ {x} \in SUBSET handles[th]
    BY <1>0, <2>1 DEF Alloc, PlacedOnce
  <2>3. OwnerInv'
    BY <1>0, <2>1, <2>2, OwnerAlloc
  <2>4. x \in Tasks /\ Live(x) /\ x # t
    BY <1>0, <2>2 DEF TypeOK, OwnerInv, ReferencesAlive, Referenced, Live, Alive
  <2>5. NoneFinishing
    BY <1>0, <2>1, MutexFreeNoneFinishing
  <2>6. CASE status[x] = "done" /\ EnqueueCore(t, pr, pc) /\ deps' = deps
    <3>1. /\ caps'[t] = {x}
          /\ \A u \in Tasks : u # t =>
              status'[u] = status[u] /\ closure'[u] = closure[u] /\ caps'[u] = caps[u]
      BY <1>0, <2>1 DEF Alloc, TypeOK
    <3>2. FinishingStays /\ \A u \in Threads : pc'[u] = "clean" => pc[u] = "clean"
      BY <1>e, <2>6 DEF EnqueueCore
    <3>3. DependInv'
      BY <1>0, <2>1, <2>2, <2>4, <2>5, <2>6, <3>1, <3>2, DependNew
    <3> QED BY <2>3, <3>3
  <2>7. CASE status[x] # "done" /\ deps' = [deps EXCEPT ![x] = <<t>> \o @] /\ UNCHANGED <<queueVars, pc>>
    <3>1. status[x] = "active" /\ ~deleted[x]
      BY <2>4, <2>7 DEF Live, Alive
    <3>2. /\ status' = [status EXCEPT ![t] = "active"] /\ caps' = [caps EXCEPT ![t] = {x}]
          /\ \A u \in Tasks : u # t => closure'[u] = closure[u]
      BY <1>0, <2>1 DEF Alloc, TypeOK
    <3>3. DependInv'
      BY <1>0, <2>1, <2>2, <2>4, <2>5, <2>7, <3>1, <3>2, DependNewDependent
    <3> QED BY <2>3, <3>3
  <2> QED BY <1>3, <2>6, <2>7 DEF TaskMap, NewDependent
<1>4. ASSUME NEW S \in SUBSET handles[th], TaskGet(th, S)
      PROVE  (OwnerInv /\ DependInv)'
  <2>1. OwnerInv'
    BY <1>0, <1>4, OwnerWant DEF TaskGet, taskVars
  <2>2. DependInv'
    BY <1>0, <1>4, QuietStep DEF TaskGet, CanCall, Step, taskVars, Pcs, ClientPcs
  <2> QED BY <2>1, <2>2
<1>5. ASSUME NEW x \in handles[th], RequestInterrupt(th, x)
      PROVE  (OwnerInv /\ DependInv)'
  <2>1. OwnerInv'
    BY <1>0, <1>5, OwnerUnchanged DEF RequestInterrupt, ownerVars, threadVars
  <2>2. NoneFinishing
    BY <1>0, <1>5, MutexFreeNoneFinishing DEF RequestInterrupt
  <2>3. DependInv'
    BY <1>0, <1>5, <2>2, DependUnchanged DEF RequestInterrupt, threadVars, FinishingStays
  <2> QED BY <2>1, <2>3
<1> QED BY <1>1, <1>2, <1>3, <1>4, <1>5 DEF Call

LEMMA OwnStepInternal ==
    ASSUME TaskInv, NEW th \in Threads, DropSome(th) \/ Internal(th) \/ SpuriousWakeup(th)
    PROVE  (OwnerInv /\ DependInv)'
<1>0. /\ TypeInv /\ TypeOK /\ ControlInv /\ OwnerTypes /\ PlaceInv /\ OwnerInv /\ DependInv
      /\ LocalInv /\ \A t \in Tasks : PlacedOnce(t)
  BY DEF TaskInv, PlaceInv, TypeInv, TypeOK, OwnerTypes
<1>1. CASE DropSome(th)
  <2>1. PICK x \in handles[th] : Drop(th, x)
    BY <1>1 DEF DropSome
  <2>2. pc[th] = "user" /\ x \in Tasks /\ want[th] = {} /\ tgt[th] = NoTask
    BY <1>0, <2>1 DEF Drop, CanCall, TypeOK, LocalInv, ControlInv
  <2>3. OwnerInv'
    BY <1>0, <2>1, <2>2, OwnerDecRef DEF Drop, taskVars
  <2>4. pc' = [pc EXCEPT ![th] = "user"] \/ pc' = [pc EXCEPT ![th] = "deact"]
    BY <2>1 DEF Drop, DecRef, Step
  <2>5. DependInv'
    BY <1>0, <2>1, <2>2, <2>4, QuietStep DEF Drop, taskVars, Pcs, ClientPcs
  <2> QED BY <2>3, <2>5
<1>2. CASE DropCaptured(th)
  <2>1. PICK x \in junk[th] :
           junk' = [junk EXCEPT ![th] = @ \ {x}] /\ handles' = handles /\ DecRef(th, x, "clean")
    BY <1>2 DEF DropCaptured
  <2>2. pc[th] = "clean" /\ x \in Tasks /\ tgt[th] = NoTask
    BY <1>0, <1>2 DEF DropCaptured, TypeOK, ControlInv
  <2>3. UNCHANGED <<status, closure, caps, deleted, want, cur, deps, walk, interrupted>>
    BY <1>2 DEF DropCaptured, taskVars
  <2>4. OwnerInv'
    BY <1>0, <2>1, <2>2, <2>3, OwnerDecRef
  <2>5. pc' = [pc EXCEPT ![th] = "clean"] \/ pc' = [pc EXCEPT ![th] = "deact"]
    BY <2>1 DEF DecRef, Step
  <2>6. DependInv'
    BY <1>0, <2>2, <2>3, <2>5, QuietStep DEF Pcs, ClientPcs
  <2> QED BY <2>4, <2>6
<1>3. CASE WaitFor(th)
  <2>1. /\ \/ want' = [want EXCEPT ![th] = {}] \/ UNCHANGED want
        /\ UNCHANGED <<status, closure, caps, deleted, handles, junk, tgt, cur, deps, walk, interrupted>>
    BY <1>3 DEF WaitFor, taskVars
  <2>2. OwnerInv'
    BY <1>0, <2>1, OwnerWant, OwnerUnchanged DEF ownerVars
  <2>3. pc[th] = "get" /\ (pc' = [pc EXCEPT ![th] = "user"] \/ pc' = [pc EXCEPT ![th] = "wait"])
    BY <1>3 DEF WaitFor, Step
  <2>4. DependInv'
    BY <2>1, <2>3, QuietStep DEF Pcs, ClientPcs
  <2> QED BY <2>2, <2>4
<1>4. CASE DeactivateTask(th)
  <2>1. pc[th] = "deact" /\ tgt[th] \in Tasks /\ NoneFinishing
    BY <1>0, <1>4, MutexFreeNoneFinishing DEF DeactivateTask, Deactivate, ControlInv, TypeOK
  <2>2. OwnerInv'
    BY <1>0, <1>4, <2>1, TasksAssumption, OwnerDeactivate
  <2>3. PICK t \in Tasks : t = tgt[th]
    BY <2>1
  <2>4. CASE status[t] = "done"
    <3>1. /\ status'[t] = "freed" /\ \A u \in Tasks : u # t => status'[u] = status[u]
          /\ UNCHANGED <<closure, caps, deleted, deps, walk, interrupted, cur>>
      BY <1>0, <1>4, <2>3, <2>4 DEF DeactivateTask, Deactivate, TypeOK
    <3>2. \A u \in Threads : pc'[u] = IF u = th THEN "clean" ELSE pc[u]
      BY <1>0, <1>4 DEF DeactivateTask, Deactivate, Step, TypeOK
    <3>3. NoneFinishing'
      BY <2>1, <3>2 DEF NoneFinishing, Threads
    <3>4. walk[th] = <<>> /\ deps[t] = <<>> /\ \A u \in Tasks : t \notin caps[u]
      <4>1. walk[th] = <<>>
        BY <1>0, <2>1, NoWalkYet
      <4>2. deps[t] = <<>>
        BY <1>0, <2>4 DEF DependInv, DepsInv
      <4>3. \A u \in Tasks : t \notin caps[u]
        BY <1>0, <2>3, TasksAssumption DEF OwnerInv, ReferencesAlive, Referenced
      <4> QED BY <4>1, <4>2, <4>3
    <3>5. DepsInv'
      BY <1>0, <3>1, <3>2, <3>3, <3>4, ElemsEmpty DEF DependInv, DepsInv, NoneFinishing
    <3>6. MapInv'
      BY <1>0, <2>1, <3>1, <3>4 DEF DependInv, MapInv, NoneFinishing
    <3>7. InterruptReachesDependents'
      BY <3>3 DEF InterruptReachesDependents, NoneFinishing
    <3> QED BY <2>2, <3>5, <3>6, <3>7 DEF DependInv
  <2>5. CASE status[t] # "done"
    <3>1. status[t] = "active"
      BY <1>0, <2>3, <2>5, TasksAssumption DEF OwnerInv, ReferencesAlive, Alive
    <3> QED BY <1>0, <1>4, <2>1, <2>2, <2>3, <3>1, DependDeactivate
  <2> QED BY <2>4, <2>5
<1>5. CASE FreeDep(th)
  <2>1. PICK it : it = Head(walk[th])
    OBVIOUS
  <2>2. /\ pc[th] = "clean" /\ walk[th] # <<>> /\ walk' = [walk EXCEPT ![th] = Tail(@)]
        /\ status' = [status EXCEPT ![it] = "freed"]
        /\ UNCHANGED <<closure, caps, deps, interrupted, deleted, pc, cur, handles, want, tgt, junk>>
    BY <1>5, <2>1 DEF FreeDep
  <2>3. /\ it \in Tasks /\ it \in Elems(walk[th]) /\ InWalk(it)
        /\ \A u \in Threads : Elems(walk'[u]) = Elems(walk[u]) \ {it}
    BY <1>0, <2>1, <2>2, WalkElems
  <2>4. status[it] = "active" /\ deleted[it] /\ ~IsRun(it)
    BY <1>0, <2>2, <2>3 DEF PlacedOnce, DependInv, DepsInv
  <2>5. status'[it] = "freed" /\ \A u \in Tasks \ {it} : status'[u] = status[u]
    BY <1>0, <2>2, <2>3 DEF TypeOK
  <2>6. \A u \in Tasks \ {it} : IsRun(u)' <=> IsRun(u)
    BY <2>2 DEF IsRun
  <2>7. OwnerInv'
    BY <1>0, <2>2, <2>3, <2>4, <2>5, <2>6, OwnerFree
  <2>8. DependInv'
    BY <1>0, <2>2, <2>3, <2>4, <2>5, DependFree DEF FinishingStays
  <2> QED BY <2>7, <2>8
<1>6. CASE EndDrop(th) \/ SpuriousWakeup(th)
  <2>1. UNCHANGED <<status, closure, caps, deleted, handles, junk, tgt, want, cur, deps, walk, interrupted>>
    BY <1>6 DEF EndDrop, SpuriousWakeup, taskVars, threadVars
  <2>2. OwnerInv'
    BY <1>0, <2>1, OwnerUnchanged DEF ownerVars
  <2>3. /\ pc[th] \in {"clean", "sleep", "wait"}
        /\ \E p \in {"user", "loop", "get"} : pc' = [pc EXCEPT ![th] = p]
    BY <1>6 DEF EndDrop, SpuriousWakeup, Step
  <2>4. DependInv'
    BY <2>1, <2>3, QuietStep DEF Pcs, ClientPcs, WorkerPcs
  <2> QED BY <2>2, <2>4
<1> QED BY <1>1, <1>2, <1>3, <1>4, <1>5, <1>6 DEF Internal

LEMMA OwnStepWork ==
    ASSUME TaskInv, NEW w \in Workers, Work(w)
    PROVE  (OwnerInv /\ DependInv)'
<1>0. /\ TypeInv /\ TypeOK /\ ControlInv /\ OwnerTypes /\ PlaceInv /\ OwnerInv /\ DependInv
      /\ LocalInv /\ w \in Threads /\ \A t \in Tasks : PlacedOnce(t)
  BY DEF TaskInv, PlaceInv, TypeInv, TypeOK, OwnerTypes, Threads
<1>1. CASE WorkerExit(w) \/ WorkerSleep(w) \/ Return(w)
  <2>1. UNCHANGED <<status, closure, caps, deleted, handles, junk, tgt, want, cur, deps, walk, interrupted>>
    BY <1>1 DEF WorkerExit, WorkerSleep, Return, taskVars, threadVars
  <2>2. OwnerInv'
    BY <1>0, <2>1, OwnerUnchanged DEF ownerVars
  <2>3. /\ pc[w] \in {"loop", "user"}
        /\ \E p \in {"exit", "sleep", "relock"} : pc' = [pc EXCEPT ![w] = p]
    BY <1>1 DEF WorkerExit, WorkerSleep, Return, Step
  <2>4. DependInv'
    BY <1>0, <2>1, <2>3, QuietStep DEF Pcs, WorkerPcs
  <2> QED BY <2>2, <2>4
<1>2. CASE WorkerDiscard(w)
  <2>1. PICK h : h = Head(queues[maxPrio])
    OBVIOUS
  <2>2. h \in Tasks /\ InQueue(h)
    BY <1>0, <1>2, <2>1, DequeueElems DEF WorkerDiscard, CanDequeue
  <2>3. /\ deleted[h] /\ status' = [status EXCEPT ![h] = "freed"]
        /\ UNCHANGED <<closure, caps, deps, interrupted, deleted, pc, cur, handles, want, tgt, walk, junk>>
    BY <1>2, <2>1 DEF WorkerDiscard, threadVars
  <2>4. status[h] = "active" /\ status'[h] = "freed" /\ \A u \in Tasks \ {h} : status'[u] = status[u]
    BY <1>0, <2>2, <2>3 DEF PlacedOnce, TypeOK
  <2>5. \A u \in Tasks \ {h} : IsRun(u)' <=> IsRun(u)
    BY <2>3 DEF IsRun
  <2>6. OwnerInv'
    BY <1>0, <2>2, <2>3, <2>4, <2>5, OwnerFree
  <2>7. DependInv'
    BY <1>0, <2>2, <2>3, <2>4, DependFree DEF FinishingStays
  <2> QED BY <2>6, <2>7
<1>3. CASE WorkerStart(w)
  <2>1. PICK h : h = Head(queues[maxPrio])
    OBVIOUS
  <2>2. h \in Tasks /\ InQueue(h)
    BY <1>0, <1>3, <2>1, DequeueElems DEF WorkerStart, CanDequeue
  <2>3. PICK p : p = BodyPc(closure[h])
    OBVIOUS
  <2>4. p \in {"user", "map"}
    BY <1>0, <2>2, <2>3 DEF BodyPc, TypeOK, Kinds
  <2>5. /\ ~deleted[h] /\ cur' = [cur EXCEPT ![w] = h]
        /\ closure' = [closure EXCEPT ![h] = "null"] /\ caps' = [caps EXCEPT ![h] = {}]
        /\ handles' = [handles EXCEPT ![w] = caps[h]] /\ pc' = [pc EXCEPT ![w] = p]
        /\ pc[w] = "loop" /\ MutexFree
        /\ UNCHANGED <<status, deps, interrupted, deleted, want, tgt, walk, junk>>
    BY <1>3, <2>1, <2>3 DEF WorkerStart, CanDequeue, Step
  <2>6. status[h] = "active" /\ handles[w] = {} /\ want[w] = {} /\ cur[w] = NoTask
    BY <1>0, <2>2, <2>5 DEF PlacedOnce, LocalInv, ControlInv, RunningPcs
  <2>7. OwnerInv'
    BY <1>0, <2>2, <2>5, <2>6, OwnerStart
  <2>8. NoneFinishing
    BY <1>0, <2>5, MutexFreeNoneFinishing
  <2>9. DependInv'
    BY <1>0, <2>2, <2>4, <2>5, <2>8, DependStart
  <2> QED BY <2>7, <2>9
<1>4. CASE TaskMapFn(w)
  <2>1. PICK x \in handles[w] :
           handles' = [handles EXCEPT ![w] = @ \ {x}] /\ junk' = junk /\ DecRef(w, x, "user")
    BY <1>4 DEF TaskMapFn, ReadSource
  <2>2. pc[w] = "map" /\ x \in Tasks /\ tgt[w] = NoTask /\ want[w] = {}
    BY <1>0, <1>4 DEF TaskMapFn, ReadSource, TypeOK, ControlInv, LocalInv
  <2>3. UNCHANGED <<status, closure, caps, deleted, want, cur, deps, walk, interrupted>>
    BY <1>4 DEF TaskMapFn, ReadSource, taskVars
  <2>4. OwnerInv'
    BY <1>0, <2>1, <2>2, <2>3, OwnerDecRef
  <2>5. pc' = [pc EXCEPT ![w] = "user"] \/ pc' = [pc EXCEPT ![w] = "deact"]
    BY <2>1 DEF DecRef, Step
  <2>6. DependInv'
    BY <1>0, <2>2, <2>3, <2>5, QuietStep DEF Pcs, ClientPcs
  <2> QED BY <2>4, <2>6
<1>5. CASE RelockDeleted(w)
  <2>1. PICK t : t = cur[w]
    OBVIOUS
  <2>2. /\ pc[w] = "relock" /\ MutexFree /\ deleted[t] /\ status' = [status EXCEPT ![t] = "freed"]
        /\ cur' = [cur EXCEPT ![w] = NoTask] /\ pc' = [pc EXCEPT ![w] = "loop"]
        /\ UNCHANGED <<closure, caps, deps, interrupted, deleted, handles, want, tgt, walk, junk>>
    BY <1>5, <2>1 DEF RelockDeleted, Step
  <2>3. t \in Tasks /\ IsRun(t)
    BY <1>0, <2>1, <2>2 DEF ControlInv, RunningPcs, TypeOK, IsRun
  <2>4. status[t] = "active" /\ status'[t] = "freed" /\ \A u \in Tasks \ {t} : status'[u] = status[u]
    BY <1>0, <2>2, <2>3 DEF PlacedOnce, TypeOK
  <2>5. \A u \in Tasks \ {t} : IsRun(u)' <=> IsRun(u)
    <3>1. \A v \in Threads : cur'[v] = IF v = w THEN NoTask ELSE cur[v]
      BY <1>0, <2>2 DEF TypeOK
    <3> QED BY <2>1, <3>1, TasksAssumption DEF IsRun, Threads
  <2>e. \A v \in Workers : cur'[v] \in {cur[v], NoTask}
    BY <1>0, <2>2 DEF TypeOK, Threads
  <2>6. OwnerInv'
    <3>1. {t} \in SUBSET Tasks /\ \A u \in {t} : status[u] = "active" /\ deleted[u] /\ status'[u] = "freed"
      BY <2>2, <2>3, <2>4
    <3> QED BY <1>0, <2>2, <2>4, <2>5, <2>e, <3>1, OwnerFree
  <2>7. NoneFinishing
    BY <1>0, <2>2, MutexFreeNoneFinishing
  <2>8. FinishingStays /\ \A u \in Threads : pc'[u] = "clean" => pc[u] = "clean"
    <3>1. \A v \in Threads : pc'[v] = IF v = w THEN "loop" ELSE pc[v]
      BY <1>0, <2>2 DEF TypeOK
    <3> QED BY <2>7, <3>1 DEF FinishingStays, NoneFinishing, Threads
  <2>9. \A v \in Workers : pc[v] = "finish" => cur'[v] = cur[v]
    BY <2>7 DEF NoneFinishing
  <2>10. {t} \in SUBSET Tasks /\ \A u \in {t} : status[u] = "active" /\ deleted[u] /\ status'[u] = "freed"
    BY <2>2, <2>3, <2>4
  <2>11. DependInv'
    BY <1>0, <2>2, <2>4, <2>7, <2>8, <2>9, <2>10, DependFree
  <2> QED BY <2>6, <2>11
<1>6. CASE RelockFinish(w)
  <2>1. PICK t : t = cur[w]
    OBVIOUS
  <2>2. /\ pc[w] = "relock" /\ MutexFree
        /\ UNCHANGED <<status, closure, caps, deleted, handles, junk, tgt, want, cur>>
    BY <1>6 DEF RelockFinish, EnterFinish
  <2>3. t \in Tasks /\ IsRun(t)
    BY <1>0, <2>1, <2>2 DEF ControlInv, RunningPcs, TypeOK, IsRun
  <2>4. status[t] = "active"
    BY <1>0, <2>3 DEF PlacedOnce
  <2>5. OwnerInv'
    BY <1>0, <2>2, OwnerUnchanged DEF ownerVars
  <2>6. NoneFinishing
    BY <1>0, <2>2, MutexFreeNoneFinishing
  <2>7. DependInv'
    BY <1>0, <1>6, <2>1, <2>3, <2>4, <2>6, DependEnterFinish
  <2> QED BY <2>5, <2>7
<1>7. CASE HandleFinished(w)
  <2>1. PICK it : it = Head(walk[w])
    OBVIOUS
  <2>2. walk[w] # <<>> /\ UNCHANGED <<closure, caps, deleted, cur, handles, want, tgt, junk>>
    BY <1>7 DEF HandleFinished, FinishDep
  <2>3. it \in Tasks /\ InWalk(it)
    BY <1>0, <1>7, <2>1, <2>2, WalkElems DEF HandleFinished, FinishDep
  <2>4. status[it] = "active"
    BY <1>0, <2>3 DEF PlacedOnce
  <2>5. CASE deleted[it] /\ status' = [status EXCEPT ![it] = "freed"]
    <3>1. status'[it] = "freed" /\ \A u \in Tasks \ {it} : status'[u] = status[u]
      BY <1>0, <2>3, <2>5 DEF TypeOK
    <3>2. \A u \in Tasks \ {it} : IsRun(u)' <=> IsRun(u)
      BY <2>2 DEF IsRun
    <3>3. OwnerInv'
      BY <1>0, <2>2, <2>3, <2>4, <2>5, <3>1, <3>2, OwnerFree
    <3> QED BY <1>0, <1>7, <3>3, DependHandle
  <2>6. CASE UNCHANGED status
    <3>1. OwnerInv'
      BY <1>0, <2>2, <2>6, OwnerUnchanged DEF ownerVars
    <3> QED BY <1>0, <1>7, <3>1, DependHandle
  <2> QED BY <1>7, <2>1, <2>5, <2>6 DEF HandleFinished, FinishDep
<1>8. CASE Finish(w)
  <2>1. PICK t : t = cur[w]
    OBVIOUS
  <2>2. /\ pc[w] = "finish" /\ status' = [status EXCEPT ![t] = "done"]
        /\ cur' = [cur EXCEPT ![w] = NoTask]
        /\ UNCHANGED <<closure, caps, deleted, handles, want, tgt, junk>>
    BY <1>8, <2>1 DEF Finish, Publish
  <2>3. t \in Tasks /\ IsRun(t) /\ ~deleted[t]
    BY <1>0, <2>1, <2>2 DEF ControlInv, RunningPcs, TypeOK, IsRun, DependInv, DepsInv
  <2>4. status[t] = "active"
    BY <1>0, <2>3 DEF PlacedOnce
  <2>5. \A u \in Tasks : u # t => (IsRun(u)' <=> IsRun(u))
    <3>1. \A v \in Threads : cur'[v] = IF v = w THEN NoTask ELSE cur[v]
      BY <1>0, <2>2 DEF TypeOK
    <3> QED BY <2>1, <3>1, TasksAssumption DEF IsRun, Threads
  <2>e. \A v \in Workers : cur'[v] \in {cur[v], NoTask}
    BY <1>0, <2>2 DEF TypeOK, Threads
  <2>6. OwnerInv'
    BY <1>0, <2>2, <2>3, <2>4, <2>5, <2>e, OwnerPublish
  <2> QED BY <1>0, <1>8, <2>6, DependFinish
<1> QED BY <1>1, <1>2, <1>3, <1>4, <1>5, <1>6, <1>7, <1>8 DEF Work

LEMMA OwnStepDestroy ==
    ASSUME TaskInv, NEW c \in Clients, Shutdown(c) \/ Join(c)
    PROVE  (OwnerInv /\ DependInv)'
<1>0. /\ TypeInv /\ TypeOK /\ ControlInv /\ OwnerTypes /\ PlaceInv /\ OwnerInv /\ DependInv
      /\ c \in Threads /\ c \notin Workers
  BY ThreadsAssumption DEF TaskInv, PlaceInv, TypeInv, TypeOK, OwnerTypes, Threads
<1>1. CASE Shutdown(c)
  <2>1. UNCHANGED <<status, closure, caps, deleted, handles, junk, tgt, want, cur, deps, walk>>
    BY <1>1 DEF Shutdown, Destroy, threadVars
  <2>2. OwnerInv'
    BY <1>0, <2>1, OwnerUnchanged DEF ownerVars
  <2>3. NoneFinishing
    BY <1>0, <1>1, MutexFreeNoneFinishing DEF Shutdown, Destroy
  <2>4. \A u \in Threads : pc'[u] = pc[u] \/ (pc'[u] = "join" /\ u = c) \/ pc'[u] = "loop"
    BY <1>1 DEF Shutdown, Destroy
  <2>5. FinishingStays /\ \A u \in Threads : pc'[u] = "clean" => pc[u] = "clean"
    BY <2>3, <2>4 DEF FinishingStays, NoneFinishing, Threads
  <2>6. DependInv'
    BY <1>0, <2>1, <2>3, <2>5, DependUnchanged
  <2> QED BY <2>2, <2>6
<1>2. CASE Join(c)
  <2>1. pc[c] = "join" /\ Joined
    BY <1>2 DEF Join
  <2>2. /\ \A t \in Tasks : status'[t] = IF InQueue(t) THEN "freed" ELSE status[t]
        /\ pc' = [pc EXCEPT ![c] = "end"]
        /\ UNCHANGED <<closure, caps, deleted, handles, junk, tgt, want, cur, deps, walk, interrupted>>
    BY <1>2 DEF Join, InQueue, Elems, Step, threadVars
  <2>3. PICK S : S = {t \in Tasks : InQueue(t)}
    OBVIOUS
  <2>4. S \in SUBSET Tasks /\ \A u \in S : status[u] = "active" /\ deleted[u] /\ status'[u] = "freed"
    BY <2>1, <2>2, <2>3, OnlyDeletedLeft
  <2>5. \A u \in Tasks \ S : status'[u] = status[u] /\ (IsRun(u)' <=> IsRun(u))
    BY <2>2, <2>3 DEF IsRun
  <2>6. OwnerInv'
    BY <1>0, <2>2, <2>4, <2>5, OwnerFree
  <2>7. \A u \in Threads : pc'[u] = IF u = c THEN "end" ELSE pc[u]
    BY <1>0, <2>2 DEF TypeOK
  <2>8. FinishingStays /\ \A u \in Threads : pc'[u] = "clean" => pc[u] = "clean"
    BY <1>0, <2>7 DEF FinishingStays, Threads
  <2>9. DependInv'
    BY <1>0, <2>2, <2>4, <2>5, <2>8, DependFree
  <2> QED BY <2>6, <2>9
<1> QED BY <1>1, <1>2

LEMMA TaskInit == Start => TaskInv
<1> SUFFICES ASSUME Start PROVE TaskInv
  OBVIOUS
<1>1. PlaceInv
  BY PlaceInit
<1>2. ClosureInv /\ NoLeakInv
  BY DEF Start, ClosureInv, NoLeakInv, Live, Alive
<1>3. ReferencesAlive
  BY DEF Start, ReferencesAlive, Referenced
<1>4. FoundedInv
  <2>1. \A u, x \in Tasks : ~Knows(u, x)
    BY DEF Start, Knows, Threads
  <2> QED BY <2>1 DEF FoundedInv
<1>5. \A w \in Threads : pc[w] \in {"absent", "user"}
  BY DEF Start
<1>6. DepsInv /\ MapInv /\ InterruptReachesDependents
  <2>1. DepsInv
    BY <1>5, ElemsEmpty DEF Start, DepsInv, Threads
  <2>2. MapInv
    BY DEF Start, MapInv
  <2>3. InterruptReachesDependents
    BY <1>5 DEF InterruptReachesDependents, Threads
  <2> QED BY <2>1, <2>2, <2>3
<1>7. LocalInv
  BY DEF Start, LocalInv, Threads
<1>8. ShutInv
  BY <1>5 DEF Start, ShutInv, Threads
<1> QED BY <1>1, <1>2, <1>3, <1>4, <1>6, <1>7, <1>8 DEF TaskInv, OwnerInv, DependInv

LEMMA TaskStep == TaskInv /\ [Next]_vars => TaskInv'
<1> SUFFICES ASSUME TaskInv, [Next]_vars PROVE TaskInv'
  OBVIOUS
<1>1. PlaceInv'
  BY PlaceInvStep DEF TaskInv
<1>2. CASE Next
  <2>1. PICK th \in Threads : StepOf(th)
    BY <1>2, NextIsStepOf
  <2>2. LocalInv' /\ ShutInv'
    BY <2>1, LocalStep, ShutStep DEF TaskInv, PlaceInv
  <2>3. OwnerInv' /\ DependInv'
    BY <2>1, OwnStepCall, OwnStepInternal, OwnStepWork, OwnStepDestroy DEF StepOf
  <2> QED BY <1>1, <2>2, <2>3 DEF TaskInv
<1>3. CASE UNCHANGED vars
  <2>1. OwnerInv'
    BY <1>3, OwnerUnchanged DEF TaskInv, ownerVars, vars, taskVars, threadVars
  <2>2. DependInv'
    BY <1>3, DependUnchanged DEF TaskInv, vars, taskVars, threadVars, FinishingStays
  <2>3. LocalInv'
    BY <1>3 DEF TaskInv, LocalInv, vars, threadVars
  <2>4. ShutInv'
    BY <1>3 DEF TaskInv, ShutInv, Joined, vars, taskVars, threadVars
  <2> QED BY <1>1, <2>1, <2>2, <2>3, <2>4 DEF TaskInv
<1> QED BY <1>2, <1>3

LEMMA TaskInvariant == Spec => []TaskInv
BY InitStarts, TaskInit, TaskStep, PTL DEF Spec

----------------------------------------------------------------------------
(***************************************************************************)
(* No counted reference leads to a dead task: what a local variable or a   *)
(* closure references is neither freed nor marked deleted, nor being       *)
(* deactivated, whatever the threads do (dec_ref, deactivate_task).        *)
(***************************************************************************)
THEOREM ReferencesStayAlive == Spec => []ReferencesAlive
<1>1. TaskInv => ReferencesAlive
  BY DEF TaskInv, OwnerInv
<1> QED BY <1>1, TaskInvariant, PTL

LEMMA WaitingHaveClosure == TaskInv => WaitingTasksHaveClosure
<1> SUFFICES ASSUME TaskInv,
                    NEW t \in Queued \cup (UNION {Elems(deps[x]) : x \in Tasks})
                                    \cup (UNION {Elems(walk[th]) : th \in Threads})
             PROVE  closure[t] = "null" <=> deleted[t]
  BY DEF WaitingTasksHaveClosure
<1>1. /\ \A p \in 0..MaxPrio : queues[p] \in Seq(Tasks)
      /\ \A x \in Tasks : deps[x] \in Seq(Tasks)
      /\ \A th \in Threads : walk[th] \in Seq(Tasks)
  BY DEF TaskInv, PlaceInv, TypeInv, TypeOK
<1>2. InQueue(t) \/ InDeps(t) \/ InWalk(t)
  BY DEF Queued, InQueue, InDeps, InWalk
<1>3. t \in Tasks
  BY <1>1, <1>2, ElemsOfSeq DEF InQueue, InDeps, InWalk
<1>4. status[t] = "active" /\ ~IsRun(t)
  BY <1>2, <1>3 DEF TaskInv, PlaceInv, PlacedOnce
<1> QED BY <1>3, <1>4 DEF TaskInv, OwnerInv, ClosureInv

(***************************************************************************)
(* A task in a queue or a dependency list has its closure unless it is     *)
(* marked deleted: spawn_worker applies no null closure, and               *)
(* deactivate_task leaks none.                                             *)
(***************************************************************************)
THEOREM ClosuresWait == Spec => []WaitingTasksHaveClosure
BY WaitingHaveClosure, TaskInvariant, PTL

LEMMA WalkedAreDead == TaskInv => DependentsOfDeadAreDead
<1> SUFFICES ASSUME TaskInv, NEW th \in Threads, pc[th] = "clean", NEW x \in Elems(walk[th])
             PROVE  status[x] = "active" /\ deleted[x]
  BY DEF DependentsOfDeadAreDead
<1>1. x \in Tasks /\ InWalk(x)
  BY ElemsOfSeq DEF TaskInv, PlaceInv, TypeInv, TypeOK, InWalk
<1>2. status[x] = "active"
  BY <1>1 DEF TaskInv, PlaceInv, PlacedOnce
<1> QED BY <1>2 DEF TaskInv, DependInv, DepsInv

(***************************************************************************)
(* The list that deactivate_task walks without the lock holds dead tasks   *)
(* only (lean_assert(it->m_imp->m_deleted)): nobody else can reach them.   *)
(***************************************************************************)
THEOREM DeadDependents == Spec => []DependentsOfDeadAreDead
BY WalkedAreDead, TaskInvariant, PTL

(***************************************************************************)
(* handle_finished passes the interruption of a task on to every task that *)
(* maps it before a worker can take that one.                              *)
(***************************************************************************)
THEOREM InterruptsReach == Spec => []InterruptReachesDependents
<1>1. TaskInv => InterruptReachesDependents
  BY DEF TaskInv, DependInv
<1> QED BY <1>1, TaskInvariant, PTL

(***************************************************************************)
(* What the destructor finds in the queues is marked deleted               *)
(* (lean_assert(o->m_imp && o->m_imp->m_deleted)), and when it returns no  *)
(* task object is left.                                                    *)
(***************************************************************************)
THEOREM ShutdownReleases == Spec => []ShutdownReleasesAll
<1>1. TaskInv => ShutdownReleasesAll
  <2> SUFFICES ASSUME TaskInv, NEW c \in Clients
               PROVE  /\ pc[c] = "join" /\ Joined => \A t \in Queued : deleted[t]
                      /\ pc[c] = "end" => \A t \in Tasks : status[t] \in {"none", "freed"}
    BY DEF ShutdownReleasesAll
  <2>1. ASSUME pc[c] = "join", Joined, NEW t \in Queued
        PROVE  deleted[t]
    <3>1. InQueue(t)
      BY DEF Queued, InQueue
    <3>2. t \in Tasks
      BY <3>1, ElemsOfSeq DEF InQueue, TaskInv, PlaceInv, TypeInv, TypeOK
    <3> QED BY <2>1, <3>1, <3>2, OnlyDeletedLeft
  <2>2. pc[c] = "end" => \A t \in Tasks : status[t] \in {"none", "freed"}
    BY DEF TaskInv, ShutInv
  <2> QED BY <2>1, <2>2
<1> QED BY <1>1, TaskInvariant, PTL

----------------------------------------------------------------------------
(***************************************************************************)
(* The task manager implements TaskSpec, step by step, for every set of    *)
(* tasks and threads.                                                      *)
(***************************************************************************)

SourceOf(t) == IF closure[t] = "map" THEN caps[t] ELSE {}

(* What TaskSpec sees of a state.                                          *)
Seen == <<[t \in Tasks |-> StateOf(t)],
          [t \in Tasks |-> IF closure[t] = "map" THEN caps[t] ELSE {}],
          want>>

(* The states of a task that the fields of its object stand for.           *)
LEMMA StatesAre ==
    ASSUME TypeOK, NEW t \in Tasks
    PROVE  /\ StateOf(t) = "none"      <=> status[t] = "none"
           /\ StateOf(t) = "cancelled" <=> status[t] # "none" /\ deleted[t]
           /\ StateOf(t) = "waiting"   <=> status[t] = "active" /\ ~deleted[t] /\ closure[t] # "null"
           /\ StateOf(t) = "running"   <=> status[t] = "active" /\ ~deleted[t] /\ closure[t] = "null"
           /\ StateOf(t) = "done"      <=> status[t] = "done" /\ ~deleted[t]
           /\ StateOf(t) = "released"  <=> status[t] = "freed" /\ ~deleted[t]
<1>1. /\ status[t] \in {"none", "active", "done", "freed"}
      /\ deleted[t] \in BOOLEAN
  BY DEF TypeOK
<1> QED BY <1>1 DEF StateOf

LEMMA StatesWillBe ==
    ASSUME TypeOK', NEW t \in Tasks
    PROVE  /\ StateOf(t)' = "none"      <=> status'[t] = "none"
           /\ StateOf(t)' = "cancelled" <=> status'[t] # "none" /\ deleted'[t]
           /\ StateOf(t)' = "waiting"   <=> status'[t] = "active" /\ ~deleted'[t] /\ closure'[t] # "null"
           /\ StateOf(t)' = "running"   <=> status'[t] = "active" /\ ~deleted'[t] /\ closure'[t] = "null"
           /\ StateOf(t)' = "done"      <=> status'[t] = "done" /\ ~deleted'[t]
           /\ StateOf(t)' = "released"  <=> status'[t] = "freed" /\ ~deleted'[t]
<1>1. /\ status'[t] \in {"none", "active", "done", "freed"}
      /\ deleted'[t] \in BOOLEAN
  BY DEF TypeOK
<1> QED BY <1>1 DEF StateOf

(* A step that does not change the fields of a task, or frees the object   *)
(* of a cancelled one.                                                     *)
SameTask(u) ==
    /\ closure'[u] = closure[u] /\ caps'[u] = caps[u] /\ deleted'[u] = deleted[u]
    /\ \/ status'[u] = status[u]
       \/ deleted[u] /\ status[u] # "none" /\ status'[u] # "none"

LEMMA SameTaskSeen ==
    ASSUME TypeOK, TypeOK', NEW u \in Tasks, SameTask(u)
    PROVE  StateOf(u)' = StateOf(u) /\ SourceOf(u)' = SourceOf(u)
<1>1. SourceOf(u)' = SourceOf(u)
  BY DEF SameTask, SourceOf
<1>2. CASE status'[u] = status[u]
  BY <1>1, <1>2 DEF SameTask, StateOf
<1>3. CASE deleted[u] /\ status[u] # "none" /\ status'[u] # "none"
  <2>1. StateOf(u) = "cancelled"
    BY <1>3, StatesAre
  <2>2. StateOf(u)' = "cancelled"
    BY <1>3, StatesWillBe DEF SameTask
  <2> QED BY <1>1, <2>1, <2>2
<1> QED BY <1>2, <1>3 DEF SameTask

LEMMA NothingSeen ==
    ASSUME TypeOK, TypeOK', \A u \in Tasks : SameTask(u), UNCHANGED want
    PROVE  UNCHANGED Seen
<1>1. \A u \in Tasks : StateOf(u)' = StateOf(u) /\ SourceOf(u)' = SourceOf(u)
  BY SameTaskSeen
<1>2. [t \in Tasks |-> StateOf(t)]' = [t \in Tasks |-> StateOf(t)]
  BY <1>1
<1>3. [t \in Tasks |-> IF closure[t] = "map" THEN caps[t] ELSE {}]'
        = [t \in Tasks |-> IF closure[t] = "map" THEN caps[t] ELSE {}]
  BY <1>1 DEF SourceOf
<1> QED BY <1>2, <1>3 DEF Seen

(* A step that changes task t only.                                        *)
LEMMA TaskMoves ==
    ASSUME TypeOK, TypeOK', NEW t \in Tasks, \A u \in Tasks : u # t => SameTask(u),
           NEW a, NEW b, StateOf(t) = a, StateOf(t)' = b, NEW S, SourceOf(t)' = S
    PROVE  /\ Abstract!Move(t, a, b)
           /\ [x \in Tasks |-> IF closure[x] = "map" THEN caps[x] ELSE {}]'
                = [[x \in Tasks |-> IF closure[x] = "map" THEN caps[x] ELSE {}] EXCEPT ![t] = S]
<1>1. \A u \in Tasks : u # t => StateOf(u)' = StateOf(u) /\ SourceOf(u)' = SourceOf(u)
  BY SameTaskSeen
<1>2. [x \in Tasks |-> StateOf(x)]' = [[x \in Tasks |-> StateOf(x)] EXCEPT ![t] = b]
  BY <1>1
<1>3. [x \in Tasks |-> IF closure[x] = "map" THEN caps[x] ELSE {}]'
        = [[x \in Tasks |-> IF closure[x] = "map" THEN caps[x] ELSE {}] EXCEPT ![t] = S]
  BY <1>1 DEF SourceOf
<1> QED BY <1>2, <1>3 DEF Abstract!Move

----------------------------------------------------------------------------
(* Every step of a thread is one of TaskSpec, or changes nothing it sees.  *)

(* A task that somebody references is in use.                              *)
LEMMA ReferencedInUse ==
    ASSUME TaskInv, NEW x \in Tasks, Referenced(x, handles, junk, caps)
    PROVE  StateOf(x) \in {"waiting", "running", "done"} /\ (StateOf(x) = "done" <=> status[x] = "done")
<1>1. TypeOK /\ Alive(x) /\ ~deleted[x]
  BY DEF TaskInv, PlaceInv, TypeInv, OwnerInv, ReferencesAlive
<1> QED BY <1>1, StatesAre DEF Alive

(* mk_task and task_map: t needs the values of the tasks in S.             *)
LEMMA AllocCreates ==
    ASSUME TaskInv, TypeOK', NEW th \in Threads, NEW t \in Tasks, NEW k \in {"fn", "map"},
           NEW C \in SUBSET handles[th], NEW pr, Alloc(th, t, k, C, pr), UNCHANGED <<deleted, want>>
    PROVE  Abstract!Create(t)
<1>0. TypeOK /\ ClosureInv /\ C \in SUBSET Tasks
  BY DEF TaskInv, PlaceInv, TypeInv, TypeOK, OwnerInv
<1>1. /\ status[t] = "none" /\ status'[t] = "active" /\ closure'[t] = k /\ caps'[t] = C
      /\ \A u \in Tasks : u # t => SameTask(u)
  BY <1>0 DEF Alloc, TypeOK, SameTask
<1>2. ~deleted[t] /\ ~deleted'[t]
  BY <1>0, <1>1 DEF ClosureInv
<1>3. StateOf(t) = "none" /\ StateOf(t)' = "waiting"
  BY <1>0, <1>1, <1>2, StatesAre, StatesWillBe
<1>4. PICK S : S = IF k = "map" THEN C ELSE {}
  OBVIOUS
<1>5. SourceOf(t)' = S
  BY <1>1, <1>4 DEF SourceOf
<1>6. /\ Abstract!Move(t, "none", "waiting")
      /\ [x \in Tasks |-> IF closure[x] = "map" THEN caps[x] ELSE {}]'
           = [[x \in Tasks |-> IF closure[x] = "map" THEN caps[x] ELSE {}] EXCEPT ![t] = S]
  BY <1>0, <1>1, <1>3, <1>5, TaskMoves
<1>7. \A x \in S : x \in Tasks /\ StateOf(x) \in {"waiting", "running", "done"}
  BY <1>0, <1>4, ReferencedInUse DEF Referenced
<1>8. S \in SUBSET {x \in Tasks : [y \in Tasks |-> StateOf(y)][x] \notin {"none", "cancelled", "released"}}
  BY <1>7
<1> QED BY <1>6, <1>8 DEF Abstract!Create

LEMMA SpecCall ==
    ASSUME TaskInv, TypeOK', NEW th \in Threads, Call(th)
    PROVE  Abstract!TaskNext \/ UNCHANGED Seen
<1>0. TypeOK /\ ClosureInv /\ ReferencesAlive
  BY DEF TaskInv, PlaceInv, TypeInv, OwnerInv
<1>1. ASSUME NEW t \in Tasks, NEW C \in SUBSET handles[th], NEW pr \in Prios, MkTask(th, t, C, pr)
      PROVE  Abstract!TaskNext
  <2>1. Abstract!Create(t)
    BY <1>1, AllocCreates DEF MkTask
  <2> QED BY <2>1 DEF Abstract!TaskNext
<1>2. ASSUME NEW t \in Tasks, TaskPure(th, t)
      PROVE  Abstract!TaskNext
  <2>1. /\ status[t] = "none" /\ status'[t] = "done"
        /\ UNCHANGED <<closure, caps, deleted, want>>
        /\ \A u \in Tasks : u # t => SameTask(u)
    BY <1>0, <1>2 DEF TaskPure, TypeOK, SameTask
  <2>2. ~deleted[t]
    BY <1>0, <2>1 DEF ClosureInv
  <2>3. StateOf(t) = "none" /\ StateOf(t)' = "done"
    BY <1>0, <2>1, <2>2, StatesAre, StatesWillBe
  <2>4. Abstract!Move(t, "none", "done")
    BY <1>0, <2>1, <2>3, TaskMoves
  <2>5. Abstract!CreatePure(t)
    BY <2>1, <2>4 DEF Abstract!CreatePure
  <2> QED BY <2>5 DEF Abstract!TaskNext
<1>3. ASSUME NEW x \in handles[th], NEW t \in Tasks, NEW pr \in Prios, TaskMap(th, x, t, pr)
      PROVE  Abstract!TaskNext
  <2>1. Alloc(th, t, "map", {x}, pr) /\ UNCHANGED <<deleted, want>> /\ {x} \in SUBSET handles[th]
    BY <1>3 DEF TaskMap, NewDependent
  <2>2. Abstract!Create(t)
    BY <2>1, AllocCreates
  <2> QED BY <2>2 DEF Abstract!TaskNext
<1>4. ASSUME NEW S \in SUBSET handles[th], TaskGet(th, S)
      PROVE  Abstract!TaskNext
  <2>1. /\ pc[th] = "user" /\ want' = [want EXCEPT ![th] = S] /\ \A x \in S : status[x] # "done"
        /\ UNCHANGED <<status, closure, caps, deleted>>
    BY <1>4 DEF TaskGet, CanCall, taskVars
  <2>2. want[th] = {} /\ S \in SUBSET Tasks
    BY <1>0, <2>1 DEF TaskInv, LocalInv, TypeOK
  <2>3. \A x \in S : x \in Tasks /\ StateOf(x) \in {"waiting", "running"}
    BY <2>1, <2>2, ReferencedInUse DEF Referenced
  <2>4. S \in SUBSET {x \in Tasks : [y \in Tasks |-> StateOf(y)][x] \in {"waiting", "running"}}
    BY <2>3
  <2>5. UNCHANGED <<[y \in Tasks |-> StateOf(y)],
                    [y \in Tasks |-> IF closure[y] = "map" THEN caps[y] ELSE {}]>>
    BY <2>1 DEF StateOf
  <2>6. Abstract!Wait(th)
    BY <2>1, <2>2, <2>4, <2>5 DEF Abstract!Wait
  <2> QED BY <2>6 DEF Abstract!TaskNext
<1>5. ASSUME NEW x \in handles[th], RequestInterrupt(th, x)
      PROVE  UNCHANGED Seen
  BY <1>0, <1>5, NothingSeen DEF RequestInterrupt, threadVars, SameTask
<1> QED BY <1>1, <1>2, <1>3, <1>4, <1>5 DEF Call

LEMMA SpecInternal ==
    ASSUME TaskInv, TypeOK', NEW th \in Threads, DropSome(th) \/ Internal(th) \/ SpuriousWakeup(th)
    PROVE  Abstract!TaskNext \/ UNCHANGED Seen
<1>0. TypeOK /\ ControlInv /\ ClosureInv /\ ReferencesAlive /\ PlaceInv
  BY DEF TaskInv, PlaceInv, TypeInv, OwnerInv
<1>1. CASE DropSome(th) \/ DropCaptured(th) \/ EndDrop(th) \/ SpuriousWakeup(th)
  BY <1>0, <1>1, NothingSeen DEF DropSome, Drop, DropCaptured, EndDrop, SpuriousWakeup, taskVars, threadVars, SameTask
<1>2. CASE WaitFor(th)
  <2>1. UNCHANGED <<status, closure, caps, deleted>>
    BY <1>2 DEF WaitFor, taskVars
  <2>2. CASE want' = want
    BY <1>0, <2>1, <2>2, NothingSeen DEF SameTask
  <2>3. ASSUME NEW x \in want[th], status[x] = "done", want' = [want EXCEPT ![th] = {}]
        PROVE  Abstract!TaskNext
    <3>1. x \in Tasks /\ Referenced(x, handles, junk, caps)
      BY <1>0 DEF ReferencesAlive, Referenced, TypeOK
    <3>2. [y \in Tasks |-> StateOf(y)][x] = "done"
      BY <2>3, <3>1, ReferencedInUse
    <3>3. UNCHANGED <<[y \in Tasks |-> StateOf(y)],
                      [y \in Tasks |-> IF closure[y] = "map" THEN caps[y] ELSE {}]>>
      BY <2>1 DEF StateOf
    <3>4. Abstract!Wake(th)
      BY <2>3, <3>2, <3>3 DEF Abstract!Wake
    <3> QED BY <3>4 DEF Abstract!TaskNext
  <2> QED BY <1>2, <2>2, <2>3 DEF WaitFor
<1>3. CASE DeactivateTask(th)
  <2>1. PICK t : t = tgt[th]
    OBVIOUS
  <2>2. t \in Tasks /\ tgt[th] # NoTask
    BY <1>0, <1>3, <2>1 DEF DeactivateTask, Deactivate, ControlInv, TypeOK
  <2>3. Alive(t) /\ ~deleted[t] /\ ~Referenced(t, handles, junk, caps)
    BY <1>0, <2>1, <2>2 DEF ReferencesAlive
  <2>4. Abstract!Unneeded(t)
    <3>1. \A u \in Threads : t \notin want[u]
      BY <1>0, <2>3 DEF ReferencesAlive, Referenced
    <3>2. \A u \in Tasks : t \notin [y \in Tasks |-> IF closure[y] = "map" THEN caps[y] ELSE {}][u]
      BY <2>3 DEF Referenced
    <3> QED BY <3>1, <3>2 DEF Abstract!Unneeded
  <2>5. UNCHANGED want /\ \A u \in Tasks : u # t => SameTask(u)
    BY <1>0, <1>3, <2>1 DEF DeactivateTask, Deactivate, TypeOK, SameTask
  <2>6. CASE status[t] = "done"
    <3>1. status'[t] = "freed" /\ UNCHANGED <<closure, caps, deleted>>
      BY <1>0, <1>3, <2>1, <2>2, <2>6 DEF DeactivateTask, Deactivate, TypeOK
    <3>2. closure[t] = "null"
      BY <1>0, <2>2, <2>6 DEF ClosureInv
    <3>3. StateOf(t) = "done" /\ StateOf(t)' = "released" /\ SourceOf(t)' = {}
      BY <1>0, <2>2, <2>3, <2>6, <3>1, <3>2, StatesAre, StatesWillBe DEF SourceOf
    <3>4. /\ Abstract!Move(t, "done", "released")
          /\ [x \in Tasks |-> IF closure[x] = "map" THEN caps[x] ELSE {}]'
               = [[x \in Tasks |-> IF closure[x] = "map" THEN caps[x] ELSE {}] EXCEPT ![t] = {}]
      BY <1>0, <2>2, <2>5, <3>3, TaskMoves
    <3>5. Abstract!Discard(t)
      BY <2>4, <2>5, <3>4 DEF Abstract!Discard
    <3> QED BY <2>2, <3>5 DEF Abstract!TaskNext
  <2>7. CASE status[t] # "done"
    <3>1. /\ status' = status /\ deleted'[t] = TRUE /\ closure'[t] = "null"
      BY <1>0, <1>3, <2>1, <2>2, <2>7 DEF DeactivateTask, Deactivate, TypeOK
    <3>2. status[t] = "active"
      BY <2>3, <2>7 DEF Alive
    <3>3. StateOf(t) \in {"waiting", "running"} /\ StateOf(t)' = "cancelled" /\ SourceOf(t)' = {}
      BY <1>0, <2>2, <2>3, <3>1, <3>2, StatesAre, StatesWillBe DEF SourceOf
    <3>4. /\ Abstract!Move(t, StateOf(t), "cancelled")
          /\ [x \in Tasks |-> IF closure[x] = "map" THEN caps[x] ELSE {}]'
               = [[x \in Tasks |-> IF closure[x] = "map" THEN caps[x] ELSE {}] EXCEPT ![t] = {}]
      BY <1>0, <2>2, <2>5, <3>3, TaskMoves
    <3>5. Abstract!Discard(t)
      BY <2>4, <2>5, <3>3, <3>4 DEF Abstract!Discard
    <3> QED BY <2>2, <3>5 DEF Abstract!TaskNext
  <2> QED BY <2>6, <2>7
<1>4. CASE FreeDep(th)
  <2>1. PICK it : it = Head(walk[th])
    OBVIOUS
  <2>2. /\ pc[th] = "clean" /\ walk[th] # <<>> /\ walk' = [walk EXCEPT ![th] = Tail(@)]
        /\ status' = [status EXCEPT ![it] = "freed"] /\ UNCHANGED <<closure, caps, deleted, want>>
    BY <1>4, <2>1 DEF FreeDep
  <2>3. it \in Tasks /\ it \in Elems(walk[th]) /\ InWalk(it)
    BY <1>0, <2>1, <2>2, WalkElems
  <2>4. status[it] = "active" /\ deleted[it]
    BY <2>2, <2>3 DEF TaskInv, PlaceInv, PlacedOnce, DependInv, DepsInv
  <2>5. \A u \in Tasks : SameTask(u)
    BY <1>0, <2>2, <2>3, <2>4 DEF SameTask, TypeOK
  <2> QED BY <1>0, <2>2, <2>5, NothingSeen
<1> QED BY <1>1, <1>2, <1>3, <1>4 DEF Internal

LEMMA SpecWork ==
    ASSUME TaskInv, TypeOK', NEW w \in Workers, Work(w)
    PROVE  Abstract!TaskNext \/ UNCHANGED Seen
<1>0. TypeInv /\ TypeOK /\ ControlInv /\ OwnerInv /\ ClosureInv /\ ReferencesAlive /\ PlaceInv /\ w \in Threads
  BY DEF TaskInv, PlaceInv, TypeInv, OwnerInv, Threads
<1>1. CASE WorkerExit(w) \/ WorkerSleep(w) \/ TaskMapFn(w) \/ Return(w) \/ RelockFinish(w)
  BY <1>0, <1>1, NothingSeen DEF WorkerExit, WorkerSleep, TaskMapFn, ReadSource, Return,
                                 RelockFinish, EnterFinish, taskVars, threadVars, SameTask
<1>2. CASE WorkerDiscard(w)
  <2>1. PICK h : h = Head(queues[maxPrio])
    OBVIOUS
  <2>2. h \in Tasks /\ InQueue(h)
    BY <1>0, <1>2, <2>1, DequeueElems DEF WorkerDiscard, CanDequeue
  <2>3. /\ deleted[h] /\ status' = [status EXCEPT ![h] = "freed"]
        /\ UNCHANGED <<closure, caps, deleted, want>>
    BY <1>2, <2>1 DEF WorkerDiscard, threadVars
  <2>4. status[h] = "active"
    BY <2>2 DEF TaskInv, PlaceInv, PlacedOnce
  <2>5. \A u \in Tasks : SameTask(u)
    BY <1>0, <2>2, <2>3, <2>4 DEF SameTask, TypeOK
  <2> QED BY <1>0, <2>3, <2>5, NothingSeen
<1>3. CASE WorkerStart(w)
  <2>1. PICK h : h = Head(queues[maxPrio])
    OBVIOUS
  <2>2. h \in Tasks /\ InQueue(h)
    BY <1>0, <1>3, <2>1, DequeueElems DEF WorkerStart, CanDequeue
  <2>3. /\ ~deleted[h] /\ closure' = [closure EXCEPT ![h] = "null"]
        /\ caps' = [caps EXCEPT ![h] = {}] /\ MutexFree /\ UNCHANGED <<status, deleted, want>>
    BY <1>3, <2>1 DEF WorkerStart, CanDequeue
  <2>4. status[h] = "active" /\ ~InDeps(h) /\ ~IsRun(h)
    BY <2>2 DEF TaskInv, PlaceInv, PlacedOnce
  <2>5. closure[h] # "null"
    BY <1>0, <2>2, <2>3, <2>4 DEF ClosureInv
  <2>6. closure'[h] = "null" /\ \A u \in Tasks : u # h => SameTask(u)
    BY <1>0, <2>2, <2>3 DEF SameTask, TypeOK
  <2>7. StateOf(h) = "waiting" /\ StateOf(h)' = "running" /\ SourceOf(h)' = {}
    BY <1>0, <2>2, <2>3, <2>4, <2>5, <2>6, StatesAre, StatesWillBe DEF SourceOf
  <2>8. /\ Abstract!Move(h, "waiting", "running")
        /\ [x \in Tasks |-> IF closure[x] = "map" THEN caps[x] ELSE {}]'
             = [[x \in Tasks |-> IF closure[x] = "map" THEN caps[x] ELSE {}] EXCEPT ![h] = {}]
    BY <1>0, <2>2, <2>6, <2>7, TaskMoves
  <2>9. ASSUME NEW x \in [y \in Tasks |-> IF closure[y] = "map" THEN caps[y] ELSE {}][h]
        PROVE  [y \in Tasks |-> StateOf(y)][x] = "done"
    <3>1. closure[h] = "map" /\ x \in caps[h]
      BY <2>2
    <3>2. x \in Tasks
      BY <1>0, <2>2, <3>1 DEF TypeOK
    <3>3. NoneFinishing
      BY <1>0, <2>3, MutexFreeNoneFinishing
    <3>4. h \notin Elems(deps[x])
      BY <2>4, <3>2 DEF InDeps
    <3>5. status[x] = "done"
      BY <2>2, <3>1, <3>2, <3>3, <3>4 DEF TaskInv, DependInv, MapInv, NoneFinishing
    <3> QED BY <2>2, <3>1, <3>2, <3>5, ReferencedInUse DEF Referenced
  <2>10. Abstract!Start(h)
    BY <2>3, <2>8, <2>9 DEF Abstract!Start
  <2> QED BY <2>2, <2>10 DEF Abstract!TaskNext
<1>4. CASE RelockDeleted(w)
  <2>1. PICK t : t = cur[w]
    OBVIOUS
  <2>2. /\ pc[w] = "relock" /\ deleted[t] /\ status' = [status EXCEPT ![t] = "freed"]
        /\ UNCHANGED <<closure, caps, deleted, want>>
    BY <1>4, <2>1 DEF RelockDeleted
  <2>3. t \in Tasks /\ IsRun(t)
    BY <1>0, <2>1, <2>2 DEF ControlInv, RunningPcs, TypeOK, IsRun
  <2>4. status[t] = "active"
    BY <2>3 DEF TaskInv, PlaceInv, PlacedOnce
  <2>5. \A u \in Tasks : SameTask(u)
    BY <1>0, <2>2, <2>3, <2>4 DEF SameTask, TypeOK
  <2> QED BY <1>0, <2>2, <2>5, NothingSeen
<1>5. CASE HandleFinished(w)
  <2>1. PICK it : it = Head(walk[w])
    OBVIOUS
  <2>2. walk[w] # <<>> /\ UNCHANGED <<closure, caps, deleted, want>>
    BY <1>5 DEF HandleFinished, FinishDep
  <2>3. it \in Tasks /\ InWalk(it)
    BY <1>0, <1>5, <2>1, <2>2, WalkElems DEF HandleFinished, FinishDep
  <2>4. status[it] = "active"
    BY <2>3 DEF TaskInv, PlaceInv, PlacedOnce
  <2>5. status' = status \/ (deleted[it] /\ status' = [status EXCEPT ![it] = "freed"])
    BY <1>5, <2>1 DEF HandleFinished, FinishDep
  <2>6. \A u \in Tasks : SameTask(u)
    BY <1>0, <2>2, <2>3, <2>4, <2>5 DEF SameTask, TypeOK
  <2> QED BY <1>0, <2>2, <2>6, NothingSeen
<1>6. CASE Finish(w)
  <2>1. PICK t : t = cur[w]
    OBVIOUS
  <2>2. /\ pc[w] = "finish" /\ status' = [status EXCEPT ![t] = "done"]
        /\ UNCHANGED <<closure, caps, deleted, want>>
    BY <1>6, <2>1 DEF Finish, Publish
  <2>3. t \in Tasks /\ IsRun(t) /\ ~deleted[t]
    BY <1>0, <2>1, <2>2 DEF ControlInv, RunningPcs, TypeOK, IsRun, TaskInv, DependInv, DepsInv
  <2>4. status[t] = "active"
    BY <2>3 DEF TaskInv, PlaceInv, PlacedOnce
  <2>5. closure[t] = "null"
    BY <1>0, <2>3 DEF ClosureInv
  <2>6. status'[t] = "done" /\ \A u \in Tasks : u # t => SameTask(u)
    BY <1>0, <2>2, <2>3 DEF SameTask, TypeOK
  <2>7. StateOf(t) = "running" /\ StateOf(t)' = "done"
    BY <1>0, <2>2, <2>3, <2>4, <2>5, <2>6, StatesAre, StatesWillBe
  <2>8. Abstract!Move(t, "running", "done")
    BY <1>0, <2>3, <2>6, <2>7, TaskMoves
  <2>9. Abstract!GetValue(t)
    BY <2>2, <2>8 DEF Abstract!GetValue
  <2> QED BY <2>3, <2>9 DEF Abstract!TaskNext
<1> QED BY <1>1, <1>2, <1>3, <1>4, <1>5, <1>6 DEF Work

LEMMA SpecDestroy ==
    ASSUME TaskInv, TypeOK', NEW c \in Clients, Shutdown(c) \/ Join(c)
    PROVE  UNCHANGED Seen
<1>0. TypeOK
  BY DEF TaskInv, PlaceInv, TypeInv
<1>1. CASE Shutdown(c)
  BY <1>0, <1>1, NothingSeen DEF Shutdown, Destroy, threadVars, SameTask
<1>2. CASE Join(c)
  <2>1. pc[c] = "join" /\ Joined
    BY <1>2 DEF Join
  <2>2. /\ \A t \in Tasks : status'[t] = IF InQueue(t) THEN "freed" ELSE status[t]
        /\ UNCHANGED <<closure, caps, deleted, want>>
    BY <1>2 DEF Join, InQueue, Elems, threadVars
  <2>3. \A t \in Tasks : InQueue(t) => status[t] = "active" /\ deleted[t]
    BY <2>1, OnlyDeletedLeft
  <2>4. \A u \in Tasks : SameTask(u)
    BY <2>2, <2>3 DEF SameTask
  <2> QED BY <1>0, <2>2, <2>4, NothingSeen
<1> QED BY <1>1, <1>2

LEMMA SpecInit == Init => Abstract!TaskInit
<1> SUFFICES ASSUME Init PROVE Abstract!TaskInit
  OBVIOUS
<1>1. \A t \in Tasks : StateOf(t) = "none"
  <2>1. TypeOK /\ \A t \in Tasks : status[t] = "none"
    BY InitStarts, TypeInit DEF TypeInv, Init
  <2> QED BY <2>1, StatesAre
<1>2. [t \in Tasks |-> StateOf(t)] = [t \in Tasks |-> "none"]
  BY <1>1
<1>3. [t \in Tasks |-> IF closure[t] = "map" THEN caps[t] ELSE {}] = [t \in Tasks |-> {}]
  BY DEF Init
<1>4. want = [th \in Threads |-> {}]
  BY DEF Init
<1> QED BY <1>2, <1>3, <1>4 DEF Abstract!TaskInit

LEMMA SpecStep ==
    ASSUME TaskInv, TaskInv', [Next]_vars
    PROVE  [Abstract!TaskNext]_Seen
<1>0. TypeOK /\ TypeOK'
  BY DEF TaskInv, PlaceInv, TypeInv
<1>1. CASE UNCHANGED vars
  <2>1. UNCHANGED <<status, closure, caps, deleted, want>>
    BY <1>1 DEF vars, taskVars, threadVars
  <2> QED BY <1>0, <2>1, NothingSeen DEF SameTask
<1>2. CASE Next
  <2>1. PICK th \in Threads : StepOf(th)
    BY <1>2, NextIsStepOf
  <2> QED BY <1>0, <2>1, SpecCall, SpecInternal, SpecWork, SpecDestroy DEF StepOf
<1> QED BY <1>1, <1>2

(***************************************************************************)
(* The task manager implements TaskSpec: whatever the threads do, a task   *)
(* is run at most once, not before the task it maps has its value, gets    *)
(* its value only by being run, keeps it while somebody waits for it or    *)
(* maps it, and task_get returns only with a value.                        *)
(***************************************************************************)
THEOREM ImplementsTasks == Spec => ImplementsTaskSpec
<1>1. TaskInv /\ TaskInv' /\ [Next]_vars => [Abstract!TaskNext]_Seen
  BY SpecStep
<1> QED BY <1>1, SpecInit, InitStarts, TaskInit, TaskStep, PTL
        DEF Spec, ImplementsTaskSpec, Abstract!TaskSpecification, Seen

----------------------------------------------------------------------------
(***************************************************************************)
(* The step by which a task that has been run becomes a dependent of the   *)
(* task y that its body has left, as task_bind_fn1 does at its end.  No    *)
(* action of TaskManager does this; that it keeps the invariant is what    *)
(* the proofs about TaskBind rest on.                                      *)
(***************************************************************************)
Rebind(w) ==
    LET t == cur[w] IN
    /\ pc[w] = "user" /\ MutexFree /\ ~deleted[t]
    /\ \E y \in handles[w] :
        /\ handles[w] = {y}
        /\ caps' = [caps EXCEPT ![t] = {y}]
        /\ \/ /\ status[y] = "done"
              /\ EnqueueCore(t, prio[t], Step(w, "loop"))
              /\ deps' = deps
           \/ /\ status[y] # "done"
              /\ deps' = [deps EXCEPT ![y] = <<t>> \o @]
              /\ pc' = Step(w, "loop")
              /\ UNCHANGED queueVars
    /\ closure' = [closure EXCEPT ![t] = "map"]
    /\ handles' = [handles EXCEPT ![w] = {}]
    /\ cur' = [cur EXCEPT ![w] = NoTask]
    /\ UNCHANGED <<status, prio, interrupted, deleted, shuttingDown, mutex, want,
                   tgt, walk, junk>>

(* What a Rebind changes, in terms of the worker, the task and y.          *)
LEMMA RebindFacts ==
    ASSUME TaskInv, NEW w \in Workers, Rebind(w)
    PROVE  /\ cur[w] \in Tasks /\ status[cur[w]] = "active" /\ IsRun(cur[w])
           /\ closure[cur[w]] = "null" /\ caps[cur[w]] = {}
           /\ \A u \in Workers : u # w => cur[u] # cur[w]
           /\ \E y \in Tasks :
                /\ handles[w] = {y} /\ y # cur[w] /\ Live(y)
                /\ caps' = [caps EXCEPT ![cur[w]] = {y}]
                /\ \/ /\ status[y] = "done" /\ deps' = deps
                      /\ EnqueueCore(cur[w], prio[cur[w]], Step(w, "loop"))
                   \/ /\ status[y] = "active" /\ deps' = [deps EXCEPT ![y] = <<cur[w]>> \o @]
                      /\ pc' = Step(w, "loop") /\ UNCHANGED queueVars
           /\ pc' \in [Threads -> Pcs] /\ pc'[w] = "loop"
           /\ \A u \in Threads : u # w =>
                pc'[u] = pc[u] \/ (u \in Workers /\ pc[u] \in {"absent", "sleep"} /\ pc'[u] = "loop")
<1>0. TypeOK /\ ControlInv /\ OwnerInv /\ w \in Threads /\ \A t \in Tasks : PlacedOnce(t)
  BY DEF TaskInv, PlaceInv, TypeInv, Threads
<1>1. cur[w] \in Tasks
  BY <1>0 DEF Rebind, ControlInv, RunningPcs, TypeOK
<1>2. IsRun(cur[w]) /\ status[cur[w]] = "active" /\ \A u \in Workers : u # w => cur[u] # cur[w]
  BY <1>0, <1>1 DEF IsRun, PlacedOnce
<1>3. closure[cur[w]] = "null" /\ caps[cur[w]] = {}
  BY <1>0, <1>1, <1>2 DEF OwnerInv, ClosureInv
<1>4. PICK y \in handles[w] :
        /\ handles[w] = {y}
        /\ caps' = [caps EXCEPT ![cur[w]] = {y}]
        /\ \/ /\ status[y] = "done"
              /\ EnqueueCore(cur[w], prio[cur[w]], Step(w, "loop"))
              /\ deps' = deps
           \/ /\ status[y] # "done"
              /\ deps' = [deps EXCEPT ![y] = <<cur[w]>> \o @]
              /\ pc' = Step(w, "loop")
              /\ UNCHANGED queueVars
  BY DEF Rebind
<1>5. y \in Tasks /\ Live(y)
  <2>1. y \in Tasks
    BY <1>0 DEF TypeOK
  <2> QED BY <1>0, <2>1 DEF OwnerInv, ReferencesAlive, Referenced, Live
<1>6. y # cur[w]
  <2> SUFFICES ASSUME y = cur[w] PROVE FALSE
    OBVIOUS
  <2>1. Knows(y, y)
    BY <1>4 DEF Knows
  <2>2. {y} \in SUBSET Tasks /\ {y} # {}
    BY <1>5
  <2>3. \E t \in {y} : \A u \in {y} : ~Knows(u, t)
    BY <1>0, <2>2 DEF OwnerInv, FoundedInv
  <2> QED BY <2>1, <2>3
<1>7. Step(w, "loop") \in [Threads -> Pcs] /\ \A u \in Threads : Step(w, "loop")[u] = IF u = w THEN "loop" ELSE pc[u]
  BY <1>0 DEF Step, TypeOK, Pcs, WorkerPcs
<1>8. pc' \in SpawnOrNotify(Step(w, "loop")) \/ pc' = Step(w, "loop")
  BY <1>4 DEF EnqueueCore
<1>9. /\ pc' \in [Threads -> Pcs] /\ pc'[w] = "loop"
      /\ \A u \in Threads : u # w =>
           pc'[u] = pc[u] \/ (u \in Workers /\ pc[u] \in {"absent", "sleep"} /\ pc'[u] = "loop")
  <2>1. CASE pc' = Step(w, "loop")
    BY <1>0, <1>7, <2>1
  <2>2. CASE pc' \in SpawnOrNotify(Step(w, "loop"))
    <3> HIDE DEF Step
    <3>1. /\ pc' \in [Threads -> Pcs]
          /\ \A u \in Threads :
                \/ pc'[u] = Step(w, "loop")[u]
                \/ u \in Workers /\ Step(w, "loop")[u] \in {"absent", "sleep"} /\ pc'[u] = "loop"
      BY <1>7, <2>2, SpawnOrNotifyMoves
    <3> QED BY <1>0, <1>7, <3>1
  <2> QED BY <1>8, <2>1, <2>2
<1>10. status[y] # "done" => status[y] = "active"
  BY <1>5 DEF Live, Alive
<1> QED BY <1>1, <1>2, <1>3, <1>4, <1>5, <1>6, <1>9, <1>10

LEMMA RebindTypes ==
    ASSUME TaskInv, NEW w \in Workers, Rebind(w)
    PROVE  TypeInv'
<1>0. TypeOK /\ QueueInv /\ ControlInv /\ LocalInv /\ w \in Threads
  BY DEF TaskInv, PlaceInv, TypeInv, Threads
<1>1. PICK t \in Tasks : t = cur[w]
  BY RebindFacts
<1>2. PICK y \in Tasks :
        /\ caps' = [caps EXCEPT ![t] = {y}]
        /\ \/ /\ deps' = deps
              /\ EnqueueCore(t, prio[t], Step(w, "loop"))
           \/ /\ deps' = [deps EXCEPT ![y] = <<t>> \o @]
              /\ UNCHANGED queueVars
  BY <1>1, RebindFacts
<1>3. /\ pc' \in [Threads -> Pcs] /\ pc'[w] = "loop"
      /\ \A u \in Threads : u # w =>
           pc'[u] = pc[u] \/ (u \in Workers /\ pc[u] \in {"absent", "sleep"} /\ pc'[u] = "loop")
  BY RebindFacts
<1>4. /\ closure' = [closure EXCEPT ![t] = "map"]
      /\ handles' = [handles EXCEPT ![w] = {}]
      /\ cur' = [cur EXCEPT ![w] = NoTask]
      /\ UNCHANGED <<status, prio, interrupted, deleted, shuttingDown, mutex, want, tgt, walk, junk>>
  BY <1>1 DEF Rebind
<1>5. QueueInv'
  <2>1. prio[t] \in Nat
    BY <1>0 DEF TypeOK
  <2> QED BY <1>0, <1>2, <2>1, EnqueueCoreKeepsQueues, QueuesUnchanged
<1>6. TypeOK'
  <2>1. deps' \in [Tasks -> Seq(Tasks)]
    <3>1. deps \in [Tasks -> Seq(Tasks)]
      BY <1>0 DEF TypeOK
    <3>2. <<t>> \in Seq(Tasks) /\ deps[y] \in Seq(Tasks)
      BY <3>1
    <3>3. <<t>> \o deps[y] \in Seq(Tasks)
      BY <3>2, ConcatProperties
    <3> QED BY <1>2, <3>1, <3>3
  <2>2. queues' \in [0..MaxPrio -> Seq(Tasks)] /\ maxPrio' \in 0..MaxPrio /\ queuesSize' \in Int
    <3>1. queues' \in [0..MaxPrio -> Seq(Tasks)] /\ maxPrio' \in 0..MaxPrio
      BY <1>5 DEF QueueInv, QueueType
    <3>2. queuesSize' \in Int
      BY <1>0, <1>2 DEF TypeOK, EnqueueCore, queueVars
    <3> QED BY <3>1, <3>2
  <2>3. /\ closure' \in [Tasks -> Kinds] /\ caps' \in [Tasks -> SUBSET Tasks]
        /\ handles' \in [Threads -> SUBSET Tasks] /\ cur' \in [Threads -> Tasks \cup {NoTask}]
    BY <1>0, <1>2, <1>4 DEF TypeOK, Kinds
  <2> QED BY <1>0, <1>3, <1>4, <2>1, <2>2, <2>3 DEF TypeOK
<1>7. ControlInv'
  <2>1. pc[w] = "user" /\ \A u \in Threads : cur'[u] = IF u = w THEN NoTask ELSE cur[u]
    BY <1>0, <1>4 DEF Rebind, TypeOK
  <2>2. \A u \in Workers : pc'[u] \in WorkerPcs /\ (cur'[u] # NoTask <=> pc'[u] \in RunningPcs)
    BY <1>0, <1>3, <2>1 DEF ControlInv, WorkerPcs, RunningPcs, Threads
  <2>3. \A c \in Clients : pc'[c] \in ClientPcs /\ cur'[c] = NoTask
    BY <1>0, <1>3, <2>1, ThreadsAssumption DEF ControlInv, Threads
  <2>4. \A u \in Threads : (tgt'[u] # NoTask <=> pc'[u] = "deact") /\ (mutex' = u <=> pc'[u] = "finish")
    BY <1>0, <1>3, <1>4, <2>1 DEF ControlInv
  <2> QED BY <2>2, <2>3, <2>4 DEF ControlInv
<1> QED BY <1>5, <1>6, <1>7 DEF TypeInv

LEMMA RebindPlaces ==
    ASSUME TaskInv, NEW w \in Workers, Rebind(w)
    PROVE  Placed' /\ WalkInv'
<1>0. TypeInv /\ TypeOK /\ ListInv /\ WalkInv /\ w \in Threads /\ \A u \in Tasks : PlacedOnce(u)
  BY DEF TaskInv, PlaceInv, TypeInv, Threads
<1>1. PICK t \in Tasks : t = cur[w] /\ IsRun(t) /\ \A u \in Workers : u # w => cur[u] # t
  <2>1. cur[w] \in Tasks /\ IsRun(cur[w]) /\ \A u \in Workers : u # w => cur[u] # cur[w]
    BY RebindFacts
  <2> QED BY <2>1
<1>2. PICK y \in Tasks :
        \/ /\ deps' = deps
           /\ EnqueueCore(t, prio[t], Step(w, "loop"))
        \/ /\ deps' = [deps EXCEPT ![y] = <<t>> \o @]
           /\ UNCHANGED queueVars
  BY <1>1, RebindFacts
<1>3. cur' = [cur EXCEPT ![w] = NoTask] /\ UNCHANGED <<status, walk>>
  BY DEF Rebind
<1>4. WalkInv'
  BY <1>0, <1>3, RebindFacts DEF WalkInv, Rebind
<1>5. ~InQueue(t) /\ ~InDeps(t) /\ ~InWalk(t) /\ status[t] = "active"
  BY <1>0, <1>1 DEF PlacedOnce
<1>6. \A v \in Threads : cur'[v] = IF v = w THEN NoTask ELSE cur[v]
  BY <1>0, <1>3 DEF TypeOK
<1>7. ~IsRun(t)' /\ \A u \in Tasks : u # t => \A v \in Workers : cur'[v] = u <=> cur[v] = u
  BY <1>1, <1>6, TasksAssumption DEF IsRun, Threads
<1>8. CASE deps' = deps /\ EnqueueCore(t, prio[t], Step(w, "loop"))
  <2>1. prio[t] \in Nat
    BY <1>0 DEF TypeOK
  <2>2. PICK c \in 0..MaxPrio : \A p \in 0..MaxPrio :
           Elems(queues'[p]) = IF p = c THEN Elems(queues[p]) \cup {t} ELSE Elems(queues[p])
    BY <1>0, <1>5, <1>8, <2>1, EnqueueElems
  <2>3. \A p \in 0..MaxPrio : NoDup(queues'[p])
    BY <1>0, <1>5, <1>8, <2>1, EnqueueElems
  <2>4. \A u \in Tasks : u # t => Stays(u)
    <3> TAKE u \in Tasks
    <3> HAVE u # t
    <3>1. \A p \in 0..MaxPrio : u \in Elems(queues'[p]) <=> u \in Elems(queues[p])
      BY <2>2
    <3> QED BY <1>3, <1>7, <1>8, <3>1 DEF Stays
  <2>5. \A p \in 0..MaxPrio : t \in Elems(queues'[p]) <=> p = c
    BY <1>5, <2>2 DEF InQueue
  <2>6. InQueue(t)' /\ ~InDeps(t)' /\ ~InWalk(t)' /\ status'[t] = "active"
    BY <1>3, <1>5, <1>8, <2>5 DEF InQueue, InDeps, InWalk
  <2>7. PlacedOnce(t)'
    BY <1>7, <2>5, <2>6 DEF PlacedOnce, InDeps, InWalk, IsRun
  <2>8. ListInv'
    BY <1>0, <1>3, <1>8, <2>3 DEF ListInv
  <2> QED BY <1>0, <1>4, <2>4, <2>7, <2>8, StaysPlaced DEF Placed
<1>9. CASE deps' = [deps EXCEPT ![y] = <<t>> \o @] /\ UNCHANGED queueVars
  <2>0. UNCHANGED queues
    BY <1>9 DEF queueVars
  <2>1. deps'[y] = <<t>> \o deps[y] /\ \A x \in Tasks : x # y => deps'[x] = deps[x]
    BY <1>0, <1>9 DEF TypeOK
  <2>2. deps[y] \in Seq(Tasks) /\ NoDup(deps[y]) /\ \A x \in Tasks : t \notin Elems(deps[x])
    BY <1>0, <1>5 DEF TypeOK, ListInv, InDeps
  <2>3. Elems(deps'[y]) = Elems(deps[y]) \cup {t} /\ NoDup(deps'[y])
    BY <2>1, <2>2, ElemsCons
  <2>4. \A u \in Tasks : u # t => Stays(u)
    BY <1>3, <1>7, <2>0, <2>1, <2>3 DEF Stays
  <2>5. \A x \in Tasks : t \in Elems(deps'[x]) <=> x = y
    BY <2>1, <2>2, <2>3
  <2>6. InDeps(t)' /\ ~InQueue(t)' /\ ~InWalk(t)' /\ status'[t] = "active"
    BY <1>3, <1>5, <2>0, <2>5 DEF InQueue, InDeps, InWalk
  <2>7. PlacedOnce(t)'
    BY <1>7, <2>5, <2>6 DEF PlacedOnce, InQueue, InWalk, IsRun
  <2>8. ListInv'
    BY <1>0, <1>3, <2>0, <2>1, <2>3 DEF ListInv
  <2> QED BY <1>0, <1>4, <2>4, <2>7, <2>8, StaysPlaced DEF Placed
<1> QED BY <1>2, <1>8, <1>9

LEMMA RebindOwners ==
    ASSUME TaskInv, NEW w \in Workers, Rebind(w)
    PROVE  OwnerInv'
<1>0. TypeOK /\ OwnerInv /\ LocalInv /\ w \in Threads
  BY DEF TaskInv, PlaceInv, TypeInv, Threads
<1>1. PICK t \in Tasks : /\ t = cur[w] /\ status[t] = "active" /\ ~deleted[t] /\ caps[t] = {}
                         /\ \A u \in Workers : u # w => cur[u] # t
  <2>1. /\ cur[w] \in Tasks /\ status[cur[w]] = "active" /\ ~deleted[cur[w]] /\ caps[cur[w]] = {}
        /\ \A u \in Workers : u # w => cur[u] # cur[w]
    BY RebindFacts DEF Rebind
  <2> QED BY <2>1
<1>2. PICK y \in Tasks : handles[w] = {y} /\ caps' = [caps EXCEPT ![t] = {y}]
  <2>1. PICK y \in handles[w] : handles[w] = {y} /\ caps' = [caps EXCEPT ![cur[w]] = {y}]
    BY DEF Rebind
  <2>2. y \in Tasks
    BY <1>0 DEF TypeOK
  <2> QED BY <1>1, <2>1, <2>2
<1>3. /\ closure' = [closure EXCEPT ![t] = "map"]
      /\ handles' = [handles EXCEPT ![w] = {}]
      /\ cur' = [cur EXCEPT ![w] = NoTask] /\ pc[w] = "user"
      /\ UNCHANGED <<status, deleted, want, tgt, junk>>
  BY <1>1 DEF Rebind
<1>4. /\ closure'[t] = "map" /\ caps'[t] = {y}
      /\ \A u \in Tasks : u # t => closure'[u] = closure[u] /\ caps'[u] = caps[u]
  BY <1>0, <1>2, <1>3 DEF TypeOK
<1>5. /\ handles'[w] = {} /\ \A u \in Threads : u # w => handles'[u] = handles[u]
      /\ cur'[w] = NoTask /\ \A u \in Threads : u # w => cur'[u] = cur[u]
  BY <1>0, <1>3 DEF TypeOK
<1>6. ~IsRun(t)' /\ \A u \in Tasks : u # t => (IsRun(u)' <=> IsRun(u))
  BY <1>1, <1>5, TasksAssumption DEF IsRun, Threads
<1>7. ClosureInv'
  BY <1>0, <1>1, <1>3, <1>4, <1>6 DEF OwnerInv, ClosureInv
<1>8. \A x \in Tasks : Referenced(x, handles', junk', caps') <=> Referenced(x, handles, junk, caps)
  <2> TAKE x \in Tasks
  <2>1. Referenced(x, handles', junk', caps') => Referenced(x, handles, junk, caps)
    BY <1>0, <1>2, <1>3, <1>4, <1>5 DEF Referenced
  <2>2. Referenced(x, handles, junk, caps) => Referenced(x, handles', junk', caps')
    BY <1>0, <1>1, <1>2, <1>3, <1>4, <1>5 DEF Referenced
  <2> QED BY <2>1, <2>2
<1>9. ReferencesAlive'
  <2>1. \A x \in Tasks : Referenced(x, handles, junk, caps)' => Alive(x)' /\ ~deleted'[x]
    BY <1>0, <1>3, <1>8 DEF OwnerInv, ReferencesAlive, Alive
  <2>2. \A u \in Threads : tgt'[u] # NoTask =>
            /\ Alive(tgt[u])' /\ ~deleted'[tgt'[u]]
            /\ ~Referenced(tgt[u], handles, junk, caps)'
            /\ \A v \in Threads \ {u} : tgt'[v] # tgt'[u]
    BY <1>0, <1>3, <1>8 DEF OwnerInv, ReferencesAlive, Alive, TypeOK
  <2>3. \A u \in Threads : want'[u] \subseteq handles'[u]
    BY <1>0, <1>3, <1>5 DEF OwnerInv, ReferencesAlive, LocalInv
  <2> QED BY <2>1, <2>2, <2>3 DEF ReferencesAlive
<1>10. NoLeakInv'
  BY <1>0, <1>3, <1>8 DEF OwnerInv, NoLeakInv, Live, Alive
<1>11. FoundedInv'
  <2>1. \A u, x \in Tasks : Knows(u, x)' => Knows(u, x)
    BY <1>1, <1>2, <1>4, <1>5, TasksAssumption DEF Knows, Threads
  <2> QED BY <1>0, <2>1, FoundedKept DEF OwnerInv
<1> QED BY <1>7, <1>9, <1>10, <1>11 DEF OwnerInv

LEMMA RebindDepends ==
    ASSUME TaskInv, NEW w \in Workers, Rebind(w)
    PROVE  DependInv'
<1>0. TypeInv /\ TypeOK /\ OwnerInv /\ DependInv /\ w \in Threads /\ \A u \in Tasks : PlacedOnce(u)
  BY DEF TaskInv, PlaceInv, TypeInv, Threads
<1>1. PICK t \in Tasks : t = cur[w] /\ IsRun(t)
  BY RebindFacts
<1>2. PICK y \in Tasks : /\ Live(y) /\ caps' = [caps EXCEPT ![t] = {y}]
                         /\ \/ status[y] = "done" /\ deps' = deps
                            \/ status[y] = "active" /\ deps' = [deps EXCEPT ![y] = <<t>> \o @]
  BY <1>1, RebindFacts
<1>3. /\ closure' = [closure EXCEPT ![t] = "map"] /\ pc[w] = "user"
      /\ UNCHANGED <<status, deleted, walk, interrupted>>
  BY <1>1 DEF Rebind
<1>4. /\ closure'[t] = "map" /\ caps'[t] = {y}
      /\ \A u \in Tasks : u # t => closure'[u] = closure[u] /\ caps'[u] = caps[u]
  BY <1>0, <1>2, <1>3 DEF TypeOK
<1>5. NoneFinishing
  BY <1>0, MutexFreeNoneFinishing DEF Rebind
<1>6. /\ NoneFinishing' /\ \A u \in Threads : pc'[u] = "clean" => pc[u] = "clean"
  <2>1. /\ pc'[w] = "loop"
        /\ \A u \in Threads : u # w =>
             pc'[u] = pc[u] \/ (u \in Workers /\ pc[u] \in {"absent", "sleep"} /\ pc'[u] = "loop")
    BY RebindFacts
  <2> QED BY <1>3, <1>5, <2>1 DEF NoneFinishing, Threads
<1>7. \A x \in Tasks : t \notin Elems(deps[x]) /\ deps[x] \in Seq(Tasks) /\ Elems(deps[x]) \subseteq Tasks
  <2>1. ~InDeps(t)
    BY <1>0, <1>1 DEF PlacedOnce
  <2> QED BY <1>0, <2>1, ElemsOfSeq DEF InDeps, TypeOK
<1>8. /\ \A x \in Tasks : x # y => deps'[x] = deps[x]
      /\ \/ status[y] = "done" /\ deps'[y] = deps[y]
         \/ status[y] = "active" /\ Elems(deps'[y]) = Elems(deps[y]) \cup {t}
  <2>1. CASE deps' = deps
    BY <1>2, <2>1, <1>0, <1>7, ElemsCons DEF TypeOK
  <2>2. CASE status[y] = "active" /\ deps' = [deps EXCEPT ![y] = <<t>> \o @]
    <3>1. deps'[y] = <<t>> \o deps[y] /\ \A x \in Tasks : x # y => deps'[x] = deps[x]
      BY <1>0, <2>2 DEF TypeOK
    <3> QED BY <2>2, <3>1, <1>7, ElemsCons
  <2> QED BY <1>2, <2>1, <2>2
<1>9. DepsInv'
  <2>1. \A x \in Tasks : deps'[x] # <<>> => status'[x] = "active" /\ ~deleted'[x]
    BY <1>0, <1>2, <1>3, <1>8 DEF DependInv, DepsInv, Live
  <2>2. ASSUME NEW x \in Tasks, NEW m \in Elems(deps'[x]), ~deleted'[m]
        PROVE  x \in caps'[m]
    <3>1. CASE m = t
      BY <3>1, <2>2, <1>4, <1>7, <1>8
    <3>2. CASE m # t
      <4>1. m \in Elems(deps[x]) /\ m \in Tasks
        BY <3>2, <2>2, <1>7, <1>8
      <4> QED BY <3>2, <4>1, <2>2, <1>0, <1>3, <1>4 DEF DependInv, DepsInv
    <3> QED BY <3>1, <3>2
  <2>3. \A u \in Threads : pc'[u] = "clean" => \A m \in Elems(walk'[u]) : deleted'[m]
    BY <1>0, <1>3, <1>6 DEF DependInv, DepsInv
  <2> QED BY <1>6, <2>1, <2>2, <2>3 DEF DepsInv, NoneFinishing
<1>10. MapInv'
  <2> SUFFICES ASSUME NEW u \in Tasks, NEW x \in Tasks, closure'[u] = "map", x \in caps'[u]
               PROVE  status'[x] = "done" \/ u \in Elems(deps'[x])
    BY DEF MapInv
  <2>1. CASE u = t
    BY <2>1, <1>3, <1>4, <1>8
  <2>2. CASE u # t
    <3>1. status[x] = "done" \/ u \in Elems(deps[x])
      BY <2>2, <1>0, <1>4, <1>5 DEF DependInv, MapInv, NoneFinishing
    <3> QED BY <3>1, <1>3, <1>8
  <2> QED BY <2>1, <2>2
<1>11. InterruptReachesDependents'
  BY <1>6 DEF InterruptReachesDependents, NoneFinishing
<1> QED BY <1>9, <1>10, <1>11 DEF DependInv

LEMMA RebindStep ==
    ASSUME TaskInv, NEW w \in Workers, Rebind(w)
    PROVE  TaskInv'
<1>0. TypeOK /\ LocalInv /\ ShutInv /\ w \in Threads /\ pc[w] = "user"
  BY DEF TaskInv, PlaceInv, TypeInv, Threads, Rebind
<1>1. PlaceInv'
  BY RebindTypes, RebindPlaces DEF PlaceInv, Placed
<1>2. /\ pc'[w] = "loop"
      /\ \A u \in Threads : u # w =>
           pc'[u] = pc[u] \/ (u \in Workers /\ pc[u] \in {"absent", "sleep"} /\ pc'[u] = "loop")
  BY RebindFacts
<1>3. /\ \A u \in Threads : handles'[u] = IF u = w THEN {} ELSE handles[u]
      /\ UNCHANGED <<status, shuttingDown, want, junk>>
  BY <1>0 DEF Rebind, TypeOK
<1>4. LocalInv'
  BY <1>0, <1>2, <1>3 DEF LocalInv, Threads
<1>5. ShutInv'
  <2>1. \A c \in Clients : c # w /\ c \in Threads /\ pc'[c] = pc[c] /\ handles'[c] = handles[c]
    BY <1>2, <1>3, ThreadsAssumption DEF Threads
  <2>2. \A c \in Clients : pc[c] # "end"
    BY <1>0 DEF ShutInv, Joined
  <2> QED BY <1>0, <1>3, <2>1, <2>2 DEF ShutInv
<1> QED BY <1>1, <1>4, <1>5, RebindOwners, RebindDepends DEF TaskInv

----------------------------------------------------------------------------
(* A function of the runtime that wraps a task runs when that task has its *)
(* value (lean_assert(v != nullptr) in task_map_fn).                       *)
SourceInv ==
    /\ \A t \in Tasks : closure[t] = "map" => caps[t] # {}
    /\ \A w \in Workers : pc[w] = "map" =>
          handles[w] # {} /\ \A x \in handles[w] : status[x] = "done"

(* A value is never taken back.                                            *)
LEMMA ValuesStay ==
    ASSUME TaskInv, NEW th \in Threads, StepOf(th), NEW x \in Tasks, status[x] = "done"
    PROVE  status'[x] \in {"done", "freed"}
<1>0. TypeOK
  BY DEF TaskInv, PlaceInv, TypeInv
<1>1. CASE Call(th) \/ DropSome(th) \/ SpuriousWakeup(th)
  BY <1>0, <1>1 DEF Call, MkTask, TaskPure, TaskMap, NewDependent, Alloc, TaskGet,
                    RequestInterrupt, DropSome, Drop, SpuriousWakeup, taskVars, TypeOK
<1>2. CASE Internal(th)
  BY <1>0, <1>2 DEF Internal, WaitFor, DeactivateTask, Deactivate, FreeDep, DropCaptured,
                    EndDrop, taskVars, TypeOK
<1>3. CASE th \in Workers /\ Work(th)
  BY <1>0, <1>3 DEF Work, WorkerExit, WorkerSleep, WorkerDiscard, WorkerStart, TaskMapFn,
                    ReadSource, Return, RelockDeleted, RelockFinish, EnterFinish,
                    HandleFinished, FinishDep, Finish, Publish, taskVars, TypeOK
<1>4. CASE th \in Clients /\ (Shutdown(th) \/ Join(th))
  BY <1>4 DEF Shutdown, Destroy, Join
<1> QED BY <1>1, <1>2, <1>3, <1>4 DEF StepOf

(* A closure that wraps a task holds it.                                   *)
LEMMA SourceKept ==
    ASSUME TaskInv, SourceInv, NEW th \in Threads, StepOf(th), NEW t \in Tasks,
           closure'[t] = "map"
    PROVE  caps'[t] # {}
<1>0. closure[t] = "map" => caps[t] # {}
  BY DEF SourceInv
<1>t. TypeOK
  BY DEF TaskInv, PlaceInv, TypeInv
<1>1. CASE Call(th)
  <2>1. CASE \E u \in Tasks, C \in SUBSET handles[th], pr \in Prios : MkTask(th, u, C, pr)
    BY <1>0, <1>t, <2>1 DEF MkTask, Alloc, TypeOK
  <2>2. CASE \E x \in handles[th], u \in Tasks, pr \in Prios : TaskMap(th, x, u, pr)
    <3>1. PICK x \in handles[th], u \in Tasks :
            closure' = [closure EXCEPT ![u] = "map"] /\ caps' = [caps EXCEPT ![u] = {x}]
      BY <2>2 DEF TaskMap, NewDependent, Alloc
    <3> QED BY <1>0, <1>t, <3>1 DEF TypeOK
  <2>3. CASE UNCHANGED <<closure, caps>>
    BY <1>0, <2>3
  <2> QED BY <1>1, <2>1, <2>2, <2>3 DEF Call, TaskPure, TaskGet, RequestInterrupt, taskVars
<1>2. CASE DeactivateTask(th)
  BY <1>0, <1>t, <1>2 DEF DeactivateTask, Deactivate, TypeOK
<1>3. CASE th \in Workers /\ WorkerStart(th)
  BY <1>0, <1>t, <1>3 DEF WorkerStart, TypeOK
<1>4. CASE UNCHANGED <<closure, caps>>
  BY <1>0, <1>4
<1>5. \/ Call(th) \/ DeactivateTask(th) \/ (th \in Workers /\ WorkerStart(th))
      \/ UNCHANGED <<closure, caps>>
  <2>1. CASE DropSome(th) \/ Internal(th) \/ SpuriousWakeup(th)
    BY <2>1 DEF DropSome, Drop, Internal, WaitFor, FreeDep, DropCaptured, EndDrop,
                SpuriousWakeup, taskVars
  <2>2. CASE th \in Workers /\ Work(th)
    BY <2>2 DEF Work, WorkerExit, WorkerSleep, WorkerDiscard, TaskMapFn, ReadSource, Return,
                RelockDeleted, RelockFinish, EnterFinish, HandleFinished, FinishDep, Finish,
                Publish, taskVars
  <2>3. CASE th \in Clients /\ (Shutdown(th) \/ Join(th))
    BY <2>3 DEF Shutdown, Destroy, Join
  <2> QED BY <2>1, <2>2, <2>3 DEF StepOf
<1> QED BY <1>1, <1>2, <1>3, <1>4, <1>5

(* Nobody but a worker that takes such a closure gets to its first line.   *)
LEMMA OnlyStartsGetToMap ==
    ASSUME TaskInv, NEW w \in Workers, StepOf(w), pc'[w] = "map"
    PROVE  WorkerStart(w)
<1>0. TypeInv /\ TypeOK /\ w \in Threads /\ w \notin Clients
  BY ThreadsAssumption DEF TaskInv, PlaceInv, TypeInv, Threads
<1>1. CASE Call(w)
  <2>1. pc[w] = "user"
    BY <1>1 DEF Call, MkTask, TaskPure, TaskMap, NewDependent, TaskGet, RequestInterrupt, CanCall
  <2>2. \/ pc' = pc \/ pc' \in SpawnOrNotify(pc) \/ pc' = [pc EXCEPT ![w] = "get"]
    BY <1>1 DEF Call, MkTask, TaskPure, TaskMap, NewDependent, TaskGet, EnqueueCore,
                RequestInterrupt, Step
  <2>3. pc'[w] # "map"
    BY <1>0, <2>1, <2>2, EnqueueMoves DEF TypeOK
  <2> QED BY <2>3
<1>2. CASE DropSome(w) \/ Internal(w) \/ SpuriousWakeup(w)
  <2>1. \/ pc[w] = "clean" /\ pc' = pc
        \/ \E p \in {"user", "wait", "clean", "deact", "loop", "get"} : pc' = [pc EXCEPT ![w] = p]
    BY <1>2 DEF DropSome, Drop, DecRef, Internal, WaitFor, DeactivateTask, Deactivate, FreeDep,
                DropCaptured, EndDrop, SpuriousWakeup, Step
  <2> QED BY <1>0, <2>1 DEF TypeOK
<1>3. CASE Work(w) /\ ~WorkerStart(w)
  <2>1. CASE HandleFinished(w)
    <3>1. pc[w] = "finish" /\ (pc' = pc \/ pc' \in SpawnOrNotify(pc))
      BY <2>1 DEF HandleFinished, FinishDep, EnqueueCore
    <3> QED BY <1>0, <3>1, EnqueueMoves
  <2>2. CASE Finish(w)
    BY <1>0, <2>2 DEF Finish, Publish
  <2>3. CASE ~HandleFinished(w) /\ ~Finish(w)
    <3>1. \/ pc[w] = "loop" /\ pc' = pc
          \/ \E p \in {"exit", "sleep", "user", "deact", "relock", "loop", "finish"} :
                pc' = [pc EXCEPT ![w] = p]
      BY <1>3, <2>3 DEF Work, WorkerExit, WorkerSleep, WorkerDiscard, CanDequeue, TaskMapFn,
                        ReadSource, DecRef, Return, RelockDeleted, RelockFinish, EnterFinish, Step
    <3> QED BY <1>0, <3>1 DEF TypeOK
  <2> QED BY <2>1, <2>2, <2>3
<1> QED BY <1>0, <1>1, <1>2, <1>3 DEF StepOf

LEMMA SourceStep ==
    ASSUME TaskInv, TaskInv', SourceInv, NEW th \in Threads, StepOf(th)
    PROVE  SourceInv'
<1>0. TypeInv /\ TypeOK
  BY DEF TaskInv, PlaceInv, TypeInv
<1> SUFFICES ASSUME NEW w \in Workers, pc'[w] = "map"
             PROVE  handles'[w] # {} /\ \A x \in handles'[w] : status'[x] = "done"
  BY SourceKept DEF SourceInv
<1>1. ASSUME NEW x \in handles'[w] PROVE x \in Tasks /\ status'[x] \in {"active", "done"}
  BY <1>1 DEF TaskInv, PlaceInv, TypeInv, TypeOK, OwnerInv, ReferencesAlive, Referenced, Alive, Threads
<1>2. CASE w # th
  <2>1. pc[w] = "map" /\ handles'[w] = handles[w]
    BY <1>0, <1>2, OthersKeep DEF Threads
  <2>2. handles[w] # {} /\ \A x \in handles[w] : status[x] = "done"
    BY <2>1 DEF SourceInv
  <2> QED BY <1>1, <2>1, <2>2, ValuesStay
<1>3. CASE w = th
  <2>1. WorkerStart(w)
    BY <1>3, OnlyStartsGetToMap
  <2>2. PICK t : t = Head(queues[maxPrio])
    OBVIOUS
  <2>3. t \in Tasks /\ InQueue(t)
    BY <2>1, <2>2, DequeueElems DEF WorkerStart, CanDequeue, TaskInv
  <2>4. /\ MutexFree /\ UNCHANGED status
        /\ handles' = [handles EXCEPT ![w] = caps[t]] /\ pc' = [pc EXCEPT ![w] = BodyPc(closure[t])]
    BY <2>1, <2>2 DEF WorkerStart, CanDequeue, Step
  <2>5. handles'[w] = caps[t] /\ closure[t] = "map"
    BY <1>0, <2>3, <2>4 DEF TypeOK, Threads, BodyPc, Kinds
  <2>6. caps[t] # {}
    BY <2>3, <2>5 DEF SourceInv
  <2>7. NoneFinishing
    BY <1>0, <2>4, MutexFreeNoneFinishing
  <2>8. ~InDeps(t)
    BY <2>3 DEF TaskInv, PlaceInv, PlacedOnce
  <2>9. ASSUME NEW x \in caps[t] PROVE status[x] = "done"
    BY <1>1, <2>3, <2>5, <2>7, <2>8, <2>9 DEF TaskInv, DependInv, MapInv, NoneFinishing, InDeps
  <2> QED BY <2>4, <2>5, <2>6, <2>9
<1> QED BY <1>2, <1>3

LEMMA RebindSources ==
    ASSUME TaskInv, SourceInv, NEW w \in Workers, Rebind(w)
    PROVE  SourceInv'
<1>0. TypeOK /\ w \in Threads
  BY DEF TaskInv, PlaceInv, TypeInv, Threads
<1>1. PICK y \in handles[w] : caps' = [caps EXCEPT ![cur[w]] = {y}]
  BY DEF Rebind
<1>2. /\ closure' = [closure EXCEPT ![cur[w]] = "map"] /\ UNCHANGED status
      /\ handles' = [handles EXCEPT ![w] = {}]
  BY DEF Rebind
<1>3. \A t \in Tasks : closure'[t] = "map" => caps'[t] # {}
  BY <1>0, <1>1, <1>2 DEF SourceInv, TypeOK
<1>4. /\ pc'[w] = "loop"
      /\ \A u \in Threads : u # w =>
           pc'[u] = pc[u] \/ (u \in Workers /\ pc[u] \in {"absent", "sleep"} /\ pc'[u] = "loop")
  BY RebindFacts
<1>5. \A u \in Workers : pc'[u] = "map" => u # w /\ pc[u] = "map" /\ handles'[u] = handles[u]
  BY <1>0, <1>2, <1>4 DEF TypeOK, Threads
<1> QED BY <1>2, <1>3, <1>5 DEF SourceInv

LEMMA SourceInit == Start => TaskInv /\ SourceInv
<1>1. Start => SourceInv
  BY DEF Start, SourceInv, Threads
<1> QED BY <1>1, TaskInit

(* The task manager with tasks that wait again after they have been run.   *)
RebindingNext == Next \/ \E w \in Workers : Rebind(w)
RebindingSpec == Start /\ [][RebindingNext]_vars

LEMMA RebindingStep ==
    ASSUME TaskInv, SourceInv, [RebindingNext]_vars
    PROVE  TaskInv' /\ SourceInv'
<1>1. CASE Next
  <2>1. TaskInv'
    BY <1>1, TaskStep
  <2> QED BY <1>1, <2>1, NextIsStepOf, SourceStep
<1>2. CASE UNCHANGED vars
  <2>1. TaskInv'
    BY <1>2, TaskStep
  <2>2. SourceInv'
    BY <1>2 DEF SourceInv, vars, taskVars, threadVars
  <2> QED BY <2>1, <2>2
<1>3. CASE \E w \in Workers : Rebind(w)
  BY <1>3, RebindStep, RebindSources
<1> QED BY <1>1, <1>2, <1>3 DEF RebindingNext
=============================================================================
