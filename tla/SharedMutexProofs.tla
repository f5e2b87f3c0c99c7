------------------------- MODULE SharedMutexProofs -------------------------
(***************************************************************************)
(* Theorems about SharedMutex, for every finite set of threads, every      *)
(* depth of nested locks and every limit of readers.                       *)
(***************************************************************************)
EXTENDS SharedMutex, FiniteSetTheorems, SequenceTheorems, TLAPS

(* The threads that m_state counts as readers.                             *)
ReadersOf(own, hs) == {th \in Threads : own # th /\ hs[th] # <<>>}

Modes == {"x", "s"}

LockInv == TypeOK /\ StateMatchesHolders

(***************************************************************************)
(* What pushing and popping a mode does to the stack of a thread.          *)
(***************************************************************************)
LEMMA PushedStack ==
    ASSUME NEW s \in Seq(Modes), NEW m \in Modes
    PROVE  /\ Append(s, m) \in Seq(Modes)
           /\ Append(s, m) # <<>>
           /\ Len(Append(s, m)) = Len(s) + 1
           /\ Head(Append(s, m)) = IF s = <<>> THEN m ELSE Head(s)
<1>1. Append(s, m) \in Seq(Modes) /\ Append(s, m) # <<>> /\ Len(Append(s, m)) = Len(s) + 1
  BY AppendProperties
<1>2. Head(Append(s, m)) = Append(s, m)[1]
  BY <1>1
<1>3. CASE s = <<>>
  BY <1>2, <1>3
<1>4. CASE s # <<>>
  BY <1>2, <1>4, EmptySeq
<1> QED BY <1>1, <1>3, <1>4

LEMMA PoppedStack ==
    ASSUME NEW s \in Seq(Modes), s # <<>>
    PROVE  LET r == SubSeq(s, 1, Len(s) - 1) IN
           /\ r \in Seq(Modes)
           /\ Len(s) \in Nat \ {0} /\ Len(r) = Len(s) - 1
           /\ r = <<>> <=> Len(s) = 1
           /\ r # <<>> => Head(r) = Head(s)
           /\ Head(s) \in Modes
           /\ Len(s) = 1 => s[Len(s)] = Head(s)
<1> DEFINE r == SubSeq(s, 1, Len(s) - 1)
<1>1. Len(s) \in Nat \ {0} /\ Head(s) = s[1] /\ Head(s) \in Modes
  BY EmptySeq, HeadTailProperties
<1>2. r \in Seq(Modes) /\ Len(r) = Len(s) - 1
  BY <1>1
<1>3. r = <<>> <=> Len(s) = 1
  <2> HIDE DEF r
  <2>1. r = <<>> => Len(r) = 0
    OBVIOUS
  <2>2. r # <<>> => Len(r) # 0
    BY <1>2, EmptySeq
  <2> QED BY <1>1, <1>2, <2>1, <2>2
<1>4. r # <<>> => Head(r) = Head(s)
  BY <1>1, <1>2, <1>3
<1> QED BY <1>1, <1>2, <1>3, <1>4

----------------------------------------------------------------------------
(* The number of readers changes by one when a thread enters or leaves.    *)
LEMMA ReadersFinite ==
    ASSUME NEW own, NEW hs
    PROVE  IsFiniteSet(ReadersOf(own, hs))
BY LockAssumption, FS_Subset DEF ReadersOf

LEMMA ReaderCount ==
    ASSUME NEW S, IsFiniteSet(S), NEW th
    PROVE  /\ Cardinality(S) \in Nat
           /\ Cardinality(S) = 0 <=> S = {}
           /\ th \notin S => Cardinality(S \cup {th}) = Cardinality(S) + 1
           /\ th \in S => Cardinality(S \ {th}) = Cardinality(S) - 1
BY FS_CardinalityType, FS_EmptySet, FS_AddElement, FS_RemoveElement

LEMMA ReadersAreCounted ==
    ASSUME LockInv
    PROVE  readers = Cardinality(ReadersOf(rwOwner, holds)) /\ readers \in Nat
BY DEF LockInv, TypeOK, StateMatchesHolders, ReadersOf

(* Nobody has the lock when m_state counts no reader and there is no owner. *)
LEMMA NobodyHolds ==
    ASSUME LockInv, readers = 0, rwOwner = NoThread, NEW th \in Threads
    PROVE  holds[th] = <<>>
<1>1. ReadersOf(rwOwner, holds) = {}
  BY ReadersAreCounted, ReadersFinite, ReaderCount
<1> QED BY <1>1, LockAssumption DEF ReadersOf

LEMMA LockInit == Init => LockInv
<1> SUFFICES ASSUME Init PROVE LockInv
  OBVIOUS
<1>1. TypeOK
  <2>1. 0 \in 0..MaxReaders
    BY LockAssumption
  <2>2. holds \in [Threads -> Seq({"x", "s"})]
    BY DEF Init
  <2> QED BY <2>1, <2>2 DEF Init, TypeOK
<1>2. ReadersOf(rwOwner, holds) = {}
  BY DEF Init, ReadersOf
<1>3. Cardinality(ReadersOf(rwOwner, holds)) = 0
  BY <1>2, FS_EmptySet
<1>4. StateMatchesHolders
  BY <1>3, LockAssumption DEF Init, StateMatchesHolders, ReadersOf
<1> QED BY <1>1, <1>4 DEF LockInv

(***************************************************************************)
(* The steps that neither take nor release the lock: a call of lock or     *)
(* lock_shared, and what concerns only the sleeping threads.               *)
(***************************************************************************)
LEMMA KeepsLock ==
    ASSUME LockInv, NEW th \in Threads, NEW p \in {"lock", "shared"},
           UNCHANGED <<lockVars, holds>>,
           gate1' \subseteq Threads, gate2' \subseteq Threads,
           \/ pc' = pc
           \/ pc[th] = "client" /\ holds[th] = <<>> /\ pc' = [pc EXCEPT ![th] = p]
    PROVE  LockInv'
<1>1. TypeOK'
  BY DEF LockInv, TypeOK, lockVars
<1>2. \A u \in Threads : /\ pc'[u] = "drain" <=> pc[u] = "drain"
                         /\ pc'[u] # "client" => holds[u] = <<>>
  BY DEF LockInv, TypeOK, StateMatchesHolders
<1>3. StateMatchesHolders'
  BY <1>2 DEF LockInv, StateMatchesHolders, lockVars
<1> QED BY <1>1, <1>3 DEF LockInv

(***************************************************************************)
(* A thread gets the exclusive lock only when nobody has the lock.         *)
(***************************************************************************)
LEMMA TakesExclusive ==
    ASSUME LockInv, NEW th \in Threads,
           readers = 0, ~writeEntered \/ pc[th] = "drain",
           BecomeOwner(th), writeEntered' = TRUE,
           UNCHANGED <<readers, gate1, gate2>>
    PROVE  LockInv'
<1>1. rwOwner = NoThread
  BY DEF LockInv, TypeOK, StateMatchesHolders
<1>2. \A u \in Threads : holds[u] = <<>>
  BY <1>1, NobodyHolds
<1>3. \A u \in Threads : pc[u] = "drain" => u = th
  BY DEF LockInv, StateMatchesHolders, TypeOK
<1>4. /\ rwOwner' = th /\ rwCounter' = 1
      /\ holds' = [holds EXCEPT ![th] = <<"x">>]
      /\ pc' = [pc EXCEPT ![th] = "client"]
  <2>1. holds' = [holds EXCEPT ![th] = Append(holds[th], "x")]
    BY DEF BecomeOwner, Push
  <2>2. Append(<<>>, "x") = <<"x">> /\ holds[th] = <<>>
    BY <1>2
  <2> QED BY <2>1, <2>2 DEF BecomeOwner, Goto
<1>5. TypeOK'
  BY <1>4 DEF LockInv, TypeOK
<1>6. ReadersOf(rwOwner', holds') = {}
  BY <1>2, <1>4 DEF ReadersOf, LockInv, TypeOK
<1>7. readers' = Cardinality(ReadersOf(rwOwner', holds'))
  BY <1>6, FS_EmptySet
<1>8. \A u \in Threads : /\ holds'[u] = IF u = th THEN <<"x">> ELSE <<>>
                         /\ pc'[u] = IF u = th THEN "client" ELSE pc[u]
                         /\ pc'[u] # "drain"
  BY <1>2, <1>3, <1>4 DEF LockInv, TypeOK
<1>9. StateMatchesHolders'
  BY <1>4, <1>7, <1>8, LockAssumption DEF StateMatchesHolders, ReadersOf
<1> QED BY <1>5, <1>9 DEF LockInv

(* A writer that enters keeps others out until the readers have left.      *)
LEMMA EntersForWriting ==
    ASSUME LockInv, NEW th \in Threads,
           pc[th] = "lock", ~writeEntered, writeEntered' = TRUE,
           Goto(th, "drain"), gate2' = gate2 \cup {th},
           UNCHANGED <<rwOwner, rwCounter, holds, readers, gate1>>
    PROVE  LockInv'
<1>1. TypeOK'
  BY DEF LockInv, TypeOK, Goto
<1>2. \A u \in Threads : pc'[u] = IF u = th THEN "drain" ELSE pc[u]
  BY DEF LockInv, TypeOK, Goto
<1>3. rwOwner = NoThread /\ \A u \in Threads : pc[u] # "drain"
  BY DEF LockInv, TypeOK, StateMatchesHolders
<1>4. StateMatchesHolders'
  BY <1>2, <1>3, LockAssumption DEF LockInv, StateMatchesHolders
<1> QED BY <1>1, <1>4 DEF LockInv

(* The owner takes the lock again: the counter follows its stack.          *)
LEMMA TakesAgain ==
    ASSUME LockInv, NEW th \in Threads, NEW m \in Modes, LockAgain(th, m)
    PROVE  LockInv'
<1>1. holds[th] \in Seq(Modes) /\ holds[th] # <<>> /\ Head(holds[th]) = "x"
  BY DEF LockInv, TypeOK, StateMatchesHolders, LockAgain, Modes
<1>2. /\ Append(holds[th], m) \in Seq(Modes) /\ Append(holds[th], m) # <<>>
      /\ Len(Append(holds[th], m)) = Len(holds[th]) + 1
      /\ Head(Append(holds[th], m)) = "x"
  BY <1>1, PushedStack
<1>3. holds' = [holds EXCEPT ![th] = Append(holds[th], m)]
  BY DEF LockAgain, Push
<1>4. \A u \in Threads : holds'[u] = IF u = th THEN Append(holds[th], m) ELSE holds[u]
  BY <1>3 DEF LockInv, TypeOK
<1>5. TypeOK'
  BY <1>2, <1>3 DEF LockInv, TypeOK, LockAgain, Modes
<1>6. ReadersOf(rwOwner', holds') = ReadersOf(rwOwner, holds)
  BY <1>4 DEF ReadersOf, LockAgain
<1>7. rwOwner = th /\ th # NoThread
  BY LockAssumption DEF LockAgain
<1>8. StateMatchesHolders'
  BY <1>1, <1>2, <1>4, <1>6, <1>7 DEF LockInv, StateMatchesHolders, ReadersOf, LockAgain, Calls
<1> QED BY <1>5, <1>8 DEF LockInv

(* The owner ends a nested lock, or gives the lock away with the last one. *)
LEMMA ReleasesNested ==
    ASSUME LockInv, NEW th \in Threads, rwOwner = th, pc[th] = "client",
           Pop(th), rwCounter' = rwCounter - 1, rwCounter > 1,
           UNCHANGED <<rwOwner, writeEntered, readers, gate1, gate2, pc>>
    PROVE  LockInv'
<1> DEFINE r == SubSeq(holds[th], 1, Len(holds[th]) - 1)
<1>1. holds[th] \in Seq(Modes) /\ holds[th] # <<>> /\ Head(holds[th]) = "x"
  BY DEF LockInv, TypeOK, StateMatchesHolders, Modes
<1>2. th # NoThread /\ rwCounter = Len(holds[th])
  BY LockAssumption DEF LockInv, StateMatchesHolders
<1>3. r \in Seq(Modes) /\ Len(r) = Len(holds[th]) - 1 /\ r # <<>> /\ Head(r) = "x"
  BY <1>1, <1>2, PoppedStack
<1>4. holds' = [holds EXCEPT ![th] = r]
  BY DEF Pop
<1> HIDE DEF r
<1>5. \A u \in Threads : holds'[u] = IF u = th THEN r ELSE holds[u]
  BY <1>4 DEF LockInv, TypeOK
<1>6. TypeOK'
  BY <1>2, <1>3, <1>4 DEF LockInv, TypeOK, Modes
<1>7. ReadersOf(rwOwner', holds') = ReadersOf(rwOwner, holds)
  BY <1>5 DEF ReadersOf
<1>8. StateMatchesHolders'
  BY <1>1, <1>2, <1>3, <1>5, <1>7 DEF LockInv, StateMatchesHolders, ReadersOf
<1> QED BY <1>6, <1>8 DEF LockInv

LEMMA ReleasesLast ==
    ASSUME LockInv, NEW th \in Threads, rwOwner = th, pc[th] = "client",
           Pop(th), rwCounter' = rwCounter - 1, rwCounter = 1,
           rwOwner' = NoThread, writeEntered' = FALSE, readers' = 0,
           gate1' = {}, UNCHANGED <<gate2, pc>>
    PROVE  LockInv'
<1> DEFINE r == SubSeq(holds[th], 1, Len(holds[th]) - 1)
<1>1. holds[th] \in Seq(Modes) /\ holds[th] # <<>>
  BY DEF LockInv, TypeOK, StateMatchesHolders, Modes
<1>2. th # NoThread /\ Len(holds[th]) = 1 /\ readers = 0 /\ writeEntered
  BY LockAssumption DEF LockInv, StateMatchesHolders
<1>3. r = <<>>
  BY <1>1, <1>2, PoppedStack
<1>4. holds' = [holds EXCEPT ![th] = <<>>]
  BY <1>3 DEF Pop
<1>5. ReadersOf(rwOwner, holds) = {}
  BY <1>2, ReadersAreCounted, ReadersFinite, ReaderCount
<1>6. \A u \in Threads : holds'[u] = <<>> /\ pc[u] # "drain"
  BY <1>2, <1>4, <1>5 DEF LockInv, TypeOK, ReadersOf, StateMatchesHolders
<1>7. TypeOK'
  <2>1. 0 \in 0..MaxReaders /\ rwCounter' \in Nat
    BY LockAssumption
  <2>2. holds' \in [Threads -> Seq({"x", "s"})]
    BY <1>4 DEF LockInv, TypeOK
  <2> QED BY <2>1, <2>2 DEF LockInv, TypeOK
<1>8. Cardinality(ReadersOf(rwOwner', holds')) = 0
  <2>1. ReadersOf(rwOwner', holds') = {}
    BY <1>6 DEF ReadersOf
  <2> QED BY <2>1, FS_EmptySet
<1>9. StateMatchesHolders'
  BY <1>6, <1>8, LockAssumption DEF LockInv, StateMatchesHolders, ReadersOf
<1> QED BY <1>7, <1>9 DEF LockInv

(* A reader gets the lock, when no writer has entered, and gives it back.  *)
LEMMA TakesShared ==
    ASSUME LockInv, NEW th \in Threads, MayRead, holds[th] = <<>>,
           pc[th] # "drain", readers' = readers + 1, Push(th, "s"), Goto(th, "client"),
           UNCHANGED <<rwOwner, rwCounter, writeEntered, gate1, gate2>>
    PROVE  LockInv'
<1>1. rwOwner = NoThread /\ th # NoThread
  BY LockAssumption DEF LockInv, TypeOK, StateMatchesHolders, MayRead
<1>2. \A u \in Threads : /\ holds'[u] = IF u = th THEN <<"s">> ELSE holds[u]
                         /\ pc'[u] = IF u = th THEN "client" ELSE pc[u]
  BY DEF LockInv, TypeOK, Push, Goto
<1>3. ReadersOf(rwOwner', holds') = ReadersOf(rwOwner, holds) \cup {th}
  BY <1>1, <1>2 DEF ReadersOf
<1>4. th \notin ReadersOf(rwOwner, holds)
  BY DEF ReadersOf
<1>5. readers' = Cardinality(ReadersOf(rwOwner', holds'))
  BY <1>3, <1>4, ReadersAreCounted, ReadersFinite, ReaderCount
<1>6. TypeOK'
  <2>1. readers' \in 0..MaxReaders
    BY LockAssumption DEF LockInv, TypeOK, MayRead
  <2>2. holds' \in [Threads -> Seq({"x", "s"})] /\ pc' \in [Threads -> {"client", "lock", "drain", "shared"}]
    BY DEF LockInv, TypeOK, Push, Goto
  <2> QED BY <2>1, <2>2 DEF LockInv, TypeOK
<1>7. StateMatchesHolders'
  <2>1. <<"s">> # <<>> /\ Head(<<"s">>) = "s" /\ Len(<<"s">>) = 1
    OBVIOUS
  <2>2. \A u \in Threads : u # NoThread /\ pc'[u] # "drain"
    BY <1>2, LockAssumption DEF LockInv, StateMatchesHolders, MayRead
  <2>3. rwCounter' = 0 /\ rwOwner' = NoThread /\ ~writeEntered'
    BY <1>1 DEF LockInv, StateMatchesHolders, MayRead
  <2>4. \A u \in Threads :
           /\ ~ (holds'[u] # <<>> /\ Head(holds'[u]) = "x")
           /\ pc'[u] # "client" => holds'[u] = <<>>
           /\ Len(holds'[u]) <= 1
    <3> TAKE u \in Threads
    <3>1. CASE u = th
      <4>1. holds'[u] = <<"s">> /\ pc'[u] = "client"
        BY <1>2, <3>1
      <4> HIDE <1>2
      <4> QED BY <2>1, <4>1
    <3>2. CASE u # th
      BY <1>1, <1>2, <2>2, <3>2 DEF LockInv, StateMatchesHolders
    <3> QED BY <3>1, <3>2
  <2> QED BY <1>5, <2>2, <2>3, <2>4 DEF StateMatchesHolders, ReadersOf
<1> QED BY <1>6, <1>7 DEF LockInv

LEMMA ReleasesShared ==
    ASSUME LockInv, NEW th \in Threads, rwOwner # th, holds[th] # <<>>,
           pc[th] = "client", readers' = readers - 1, Pop(th),
           gate1' \subseteq Threads, gate2' \subseteq Threads,
           UNCHANGED <<rwOwner, rwCounter, writeEntered, pc>>
    PROVE  LockInv'
<1> DEFINE r == SubSeq(holds[th], 1, Len(holds[th]) - 1)
<1>1. holds[th] \in Seq(Modes) /\ Len(holds[th]) <= 1
  BY DEF LockInv, TypeOK, StateMatchesHolders, Modes
<1>2. r = <<>>
  BY <1>1, PoppedStack
<1>3. holds' = [holds EXCEPT ![th] = <<>>]
  BY <1>2 DEF Pop
<1>4. \A u \in Threads : holds'[u] = IF u = th THEN <<>> ELSE holds[u]
  BY <1>3 DEF LockInv, TypeOK
<1>5. ReadersOf(rwOwner', holds') = ReadersOf(rwOwner, holds) \ {th}
  BY <1>4 DEF ReadersOf
<1>6. th \in ReadersOf(rwOwner, holds)
  BY DEF ReadersOf
<1>7. /\ readers' = Cardinality(ReadersOf(rwOwner', holds'))
      /\ readers # 0
  BY <1>5, <1>6, ReadersAreCounted, ReadersFinite, ReaderCount
<1>8. TypeOK'
  BY <1>3, <1>7, LockAssumption DEF LockInv, TypeOK
<1>9. StateMatchesHolders'
  <2>1. \A u \in Threads :
           /\ rwOwner = u <=> holds'[u] # <<>> /\ Head(holds'[u]) = "x"
           /\ pc'[u] # "client" => holds'[u] = <<>>
           /\ rwOwner # u => Len(holds'[u]) <= 1
    BY <1>4 DEF LockInv, StateMatchesHolders
  <2>2. rwCounter' = IF rwOwner' = NoThread THEN 0 ELSE Len(holds'[rwOwner'])
    BY <1>4 DEF LockInv, StateMatchesHolders, TypeOK
  <2>3. \A u \in Threads : rwOwner # u
    BY <1>7 DEF LockInv, StateMatchesHolders
  <2> QED BY <1>7, <2>1, <2>2, <2>3 DEF LockInv, StateMatchesHolders, ReadersOf
<1> QED BY <1>8, <1>9 DEF LockInv

----------------------------------------------------------------------------
(* notify_one leaves only threads asleep that were asleep.                 *)
LEMMA NotifyOneWakes ==
    ASSUME NEW g, g \subseteq Threads, NEW h \in NotifyOne(g)
    PROVE  h \subseteq Threads
BY DEF NotifyOne

(* A thread that has the lock in exclusive mode at the top is the owner.   *)
LEMMA TopOfStack ==
    ASSUME LockInv, NEW th \in Threads, holds[th] # <<>>
    PROVE  /\ Top(th) = "x" => rwOwner = th
           /\ Top(th) = "s" /\ rwOwner = th => rwCounter > 1
           /\ rwOwner = th => rwCounter \in Nat \ {0}
<1> DEFINE n == Len(holds[th])
<1>1. holds[th] \in Seq(Modes)
  BY DEF LockInv, TypeOK, Modes
<1>2. n \in Nat \ {0}
  BY <1>1, PoppedStack
<1>3. n = 1 => Top(th) = Head(holds[th])
  BY <1>1, PoppedStack DEF Top
<1>4. rwOwner = th => rwCounter = n /\ Head(holds[th]) = "x"
  BY LockAssumption DEF LockInv, StateMatchesHolders
<1>5. rwOwner # th => n <= 1
  BY DEF LockInv, StateMatchesHolders
<1>6. Head(holds[th]) = "x" => rwOwner = th
  BY DEF LockInv, StateMatchesHolders
<1> HIDE DEF n
<1>7. n = 1 \/ n > 1
  BY <1>2
<1>8. n > 1 => rwOwner = th
  BY <1>2, <1>5
<1> QED BY <1>2, <1>3, <1>4, <1>6, <1>7, <1>8

LEMMA LockStep == LockInv /\ [Next]_vars => LockInv'
<1> SUFFICES ASSUME LockInv, [Next]_vars PROVE LockInv'
  OBVIOUS
<1>1. CASE UNCHANGED vars
  BY <1>1 DEF vars, lockVars, LockInv, TypeOK, StateMatchesHolders
<1>2. ASSUME NEW th \in Threads, NEW m \in {"x", "s"}, LockAgain(th, m)
      PROVE  LockInv'
  BY <1>2, TakesAgain DEF Modes
<1>3. ASSUME NEW th \in Threads,
             Lock(th) \/ TryLock(th) \/ LockShared(th) \/ TryLockShared(th)
      PROVE  LockInv'
  <2>1. CASE Lock(th)
    BY <2>1, KeepsLock DEF Lock, Calls, Goto, LockInv, TypeOK
  <2>2. CASE TryLock(th)
    BY <2>2, TakesExclusive DEF TryLock
  <2>3. CASE LockShared(th)
    BY <2>3, KeepsLock DEF LockShared, Calls, Goto, LockInv, TypeOK
  <2>4. CASE TryLockShared(th)
    <3>1. Goto(th, "client")
      BY <2>4 DEF TryLockShared, Calls, Goto, LockInv, TypeOK
    <3> QED BY <2>4, <3>1, TakesShared DEF TryLockShared, Calls
  <2> QED BY <1>3, <2>1, <2>2, <2>3, <2>4
<1>4. ASSUME NEW th \in Threads, Loops(th)
      PROVE  LockInv'
  <2>1. CASE LockLoop(th)
    <3>1. CASE writeEntered
      BY <2>1, <3>1, KeepsLock DEF LockLoop, LockInv, TypeOK
    <3>2. CASE ~writeEntered /\ readers # 0
      BY <2>1, <3>2, EntersForWriting DEF LockLoop
    <3>3. CASE ~writeEntered /\ readers = 0
      BY <2>1, <3>3, TakesExclusive DEF LockLoop
    <3> QED BY <3>1, <3>2, <3>3
  <2>2. CASE DrainLoop(th)
    <3>1. CASE readers # 0
      BY <2>2, <3>1, KeepsLock DEF DrainLoop, LockInv, TypeOK
    <3>2. CASE readers = 0
      <4>1. writeEntered' = TRUE
        BY <2>2, <3>2 DEF DrainLoop, LockInv, StateMatchesHolders, TypeOK
      <4> QED BY <2>2, <3>2, <4>1, TakesExclusive DEF DrainLoop
    <3> QED BY <3>1, <3>2
  <2>3. CASE SharedLoop(th)
    <3>1. CASE MayRead
      <4>1. holds[th] = <<>>
        BY <2>3 DEF SharedLoop, LockInv, StateMatchesHolders
      <4> QED BY <2>3, <3>1, <4>1, TakesShared DEF SharedLoop
    <3>2. CASE ~MayRead
      BY <2>3, <3>2, KeepsLock DEF SharedLoop, LockInv, TypeOK
    <3> QED BY <3>1, <3>2
  <2> QED BY <1>4, <2>1, <2>2, <2>3 DEF Loops
<1>5. ASSUME NEW th \in Threads, Unlock(th)
      PROVE  LockInv'
  <2>1. rwOwner = th /\ rwCounter \in Nat \ {0}
    BY <1>5, TopOfStack DEF Unlock
  <2>2. CASE rwCounter > 1
    <3>1. Pop(th) /\ rwCounter' = rwCounter - 1 /\ rwCounter' > 0 /\ pc[th] = "client"
      BY <1>5, <2>1, <2>2 DEF Unlock
    <3>2. UNCHANGED <<rwOwner, writeEntered, readers, gate1, gate2, pc>>
      BY <1>5, <3>1 DEF Unlock
    <3> QED BY <2>1, <2>2, <3>1, <3>2, ReleasesNested
  <2>3. CASE rwCounter = 1
    <3>1. Pop(th) /\ rwCounter' = rwCounter - 1 /\ ~(rwCounter' > 0) /\ pc[th] = "client"
      BY <1>5, <2>1, <2>3 DEF Unlock
    <3>2. /\ rwOwner' = NoThread /\ writeEntered' = FALSE /\ readers' = 0
          /\ gate1' = {} /\ UNCHANGED <<gate2, pc>>
      BY <1>5, <3>1 DEF Unlock
    <3> QED BY <2>1, <2>3, <3>1, <3>2, ReleasesLast
  <2> QED BY <2>1, <2>2, <2>3
<1>6. ASSUME NEW th \in Threads, UnlockShared(th)
      PROVE  LockInv'
  <2>1. CASE rwOwner = th
    <3>1. rwCounter > 1
      BY <1>6, <2>1, TopOfStack DEF UnlockShared
    <3> QED BY <1>6, <2>1, <3>1, ReleasesNested DEF UnlockShared
  <2>2. CASE rwOwner # th
    <3>1. gate1' \subseteq Threads /\ gate2' \subseteq Threads
      BY <1>6, <2>2, NotifyOneWakes DEF UnlockShared, LockInv, TypeOK
    <3> QED BY <1>6, <2>2, <3>1, ReleasesShared DEF UnlockShared
  <2> QED BY <2>1, <2>2
<1>7. ASSUME NEW th \in Threads, SpuriousWakeup(th)
      PROVE  LockInv'
  BY <1>7, KeepsLock DEF SpuriousWakeup, LockInv, TypeOK
<1> QED BY <1>1, <1>2, <1>3, <1>4, <1>5, <1>6, <1>7 DEF Next, Release

(***************************************************************************)
(* m_rw_owner, m_rw_counter and m_state always say exactly who has the     *)
(* lock: a writer has it alone, and nested releases give it away exactly   *)
(* with the last one.                                                      *)
(***************************************************************************)
THEOREM HoldersInvariant == Spec => [](TypeOK /\ StateMatchesHolders)
<1>1. LockInv => TypeOK /\ StateMatchesHolders
  BY DEF LockInv
<1> QED BY LockInit, LockStep, <1>1, PTL DEF Spec

----------------------------------------------------------------------------
(* The writer that has entered, for the abstract lock.                     *)
LEMMA EnteredIs ==
    ASSUME LockInv
    PROVE  /\ \A th \in Threads : Entered = th <=> pc[th] = "drain"
           /\ Entered \in Threads \cup {NoThread}
           /\ Entered = NoThread <=> \A th \in Threads : pc[th] # "drain"
<1>1. CASE \E th \in Threads : pc[th] = "drain"
  <2>1. PICK th \in Threads : pc[th] = "drain"
    BY <1>1
  <2>2. \A u \in Threads : pc[u] = "drain" => u = th
    BY <2>1 DEF LockInv, StateMatchesHolders
  <2>3. Entered = th
    BY <2>1, <2>2 DEF Entered
  <2> QED BY <2>1, <2>2, <2>3, LockAssumption
<1>2. CASE ~ \E th \in Threads : pc[th] = "drain"
  BY <1>2, LockAssumption DEF Entered
<1> QED BY <1>1, <1>2

(* It stays the same in steps that leave the threads in the drain loop.    *)
LEMMA EnteredStays ==
    ASSUME LockInv, LockInv',
           \A th \in Threads : pc'[th] = "drain" <=> pc[th] = "drain"
    PROVE  Entered' = Entered
BY EnteredIs DEF Entered

LEMMA ExclusiveIs ==
    ASSUME LockInv, NEW th \in Threads
    PROVE  RW!Exclusive(th) <=> rwOwner = th
BY DEF RW!Exclusive, LockInv, StateMatchesHolders

(* Where the writer has not entered, nobody has the lock exclusively.      *)
LEMMA NoWriter ==
    ASSUME LockInv, ~writeEntered
    PROVE  Entered = NoThread /\ \A u \in Threads : ~RW!Exclusive(u)
BY EnteredIs, ExclusiveIs DEF LockInv, StateMatchesHolders

LEMMA BecomeOwnerAcquires ==
    ASSUME LockInv, LockInv', NEW th \in Threads,
           readers = 0, ~writeEntered \/ pc[th] = "drain", BecomeOwner(th)
    PROVE  RW!AcquireExclusive(th)
<1>1. rwOwner = NoThread
  BY DEF LockInv, TypeOK, StateMatchesHolders
<1>2. \A u \in Threads : holds[u] = <<>>
  BY <1>1, NobodyHolds
<1>3. Entered \in {NoThread, th}
  BY EnteredIs, NoWriter
<1>4. Entered' = NoThread
  <2>1. pc' = [pc EXCEPT ![th] = "client"]
    BY DEF BecomeOwner, Goto
  <2>2. \A u \in Threads : pc'[u] # "drain"
    BY <1>3, <2>1, EnteredIs, LockAssumption DEF LockInv, TypeOK
  <2> QED BY <2>2 DEF Entered
<1>5. Len(<<>>) < MaxDepth /\ holds[th] = <<>>
  BY <1>2, LockAssumption
<1> QED BY <1>2, <1>3, <1>4, <1>5 DEF RW!AcquireExclusive, RW!Push, BecomeOwner, Push

(* A release of a lock object is one of the abstract lock.                 *)
LEMMA PopReleases ==
    ASSUME LockInv, LockInv', NEW th \in Threads, holds[th] # <<>>, Pop(th), UNCHANGED pc
    PROVE  RW!Release(th)
<1>1. Entered' = Entered
  BY EnteredStays
<1> QED BY <1>1 DEF RW!Release, Pop

LEMMA RWInit == Init => RW!Init
BY DEF Init, RW!Init, Entered

LEMMA RWStep ==
    ASSUME LockInv, LockInv', [Next]_vars
    PROVE  [RW!Next]_(RW!rwVars)
<1> USE DEF RW!rwVars
<1>1. CASE UNCHANGED vars
  BY <1>1 DEF vars, Entered
<1>2. ASSUME NEW th \in Threads, NEW m \in {"x", "s"}, LockAgain(th, m)
      PROVE  RW!Next
  <2>1. Entered' = Entered
    BY <1>2, EnteredStays DEF LockAgain
  <2>2. RW!AcquireAgain(th, m)
    BY <1>2, <2>1, ExclusiveIs DEF LockAgain, Calls, Push, RW!AcquireAgain, RW!Push
  <2> QED BY <2>2 DEF RW!Next
<1>3. ASSUME NEW th \in Threads, Lock(th) \/ LockShared(th)
      PROVE  UNCHANGED <<holds, Entered>>
  <2>1. \A u \in Threads : pc'[u] = "drain" <=> pc[u] = "drain"
    BY <1>3 DEF Lock, LockShared, Calls, Goto, LockInv, TypeOK
  <2> QED BY <1>3, <2>1, EnteredStays DEF Lock, LockShared
<1>4. ASSUME NEW th \in Threads, TryLock(th)
      PROVE  RW!Next
  BY <1>4, BecomeOwnerAcquires DEF TryLock, RW!Next
<1>5. ASSUME NEW th \in Threads, MayRead, holds[th] = <<>>, pc[th] # "drain",
             Push(th, "s"), pc' = [pc EXCEPT ![th] = "client"]
      PROVE  RW!Next
  <2>1. Entered' = Entered
    BY <1>5, EnteredStays DEF LockInv, TypeOK
  <2>2. Entered = NoThread /\ \A u \in Threads : ~RW!Exclusive(u)
    BY <1>5, NoWriter DEF MayRead
  <2>3. Len(<<>>) < MaxDepth
    BY LockAssumption
  <2>4. RW!AcquireShared(th)
    BY <1>5, <2>1, <2>2, <2>3 DEF RW!AcquireShared, RW!Push, Push
  <2> QED BY <2>4 DEF RW!Next
<1>6. ASSUME NEW th \in Threads, TryLockShared(th)
      PROVE  RW!Next
  <2>1. pc' = [pc EXCEPT ![th] = "client"] /\ pc[th] # "drain"
    BY <1>6 DEF TryLockShared, Calls, LockInv, TypeOK
  <2> QED BY <1>5, <1>6, <2>1 DEF TryLockShared
<1>7. ASSUME NEW th \in Threads, Loops(th)
      PROVE  RW!Next \/ UNCHANGED <<holds, Entered>>
  <2>1. CASE LockLoop(th)
    <3>1. CASE writeEntered
      BY <2>1, <3>1, EnteredStays DEF LockLoop
    <3>2. CASE ~writeEntered /\ readers # 0
      <4>1. Goto(th, "drain") /\ holds' = holds
        BY <2>1, <3>2 DEF LockLoop
      <4>2. pc'[th] = "drain"
        BY <4>1 DEF Goto, LockInv, TypeOK
      <4>3. Entered' = th
        <5>1. \A u \in Threads : pc'[u] = "drain" => u = th
          BY <4>2 DEF LockInv, StateMatchesHolders
        <5> QED BY <4>2, <5>1 DEF Entered
      <4>4. holds[th] = <<>>
        BY <2>1 DEF LockLoop, LockInv, StateMatchesHolders
      <4>5. RW!Enter(th)
        BY <3>2, <4>1, <4>3, <4>4, NoWriter DEF RW!Enter
      <4> QED BY <4>5 DEF RW!Next
    <3>3. CASE ~writeEntered /\ readers = 0
      BY <2>1, <3>3, BecomeOwnerAcquires DEF LockLoop, RW!Next
    <3> QED BY <3>1, <3>2, <3>3
  <2>2. CASE DrainLoop(th)
    <3>1. CASE readers # 0
      BY <2>2, <3>1, EnteredStays DEF DrainLoop
    <3>2. CASE readers = 0
      BY <2>2, <3>2, BecomeOwnerAcquires DEF DrainLoop, RW!Next
    <3> QED BY <3>1, <3>2
  <2>3. CASE SharedLoop(th)
    <3>1. CASE MayRead
      <4>1. holds[th] = <<>>
        BY <2>3 DEF SharedLoop, LockInv, StateMatchesHolders
      <4> QED BY <1>5, <2>3, <3>1, <4>1 DEF SharedLoop, Goto
    <3>2. CASE ~MayRead
      BY <2>3, <3>2, EnteredStays DEF SharedLoop
    <3> QED BY <3>1, <3>2
  <2> QED BY <1>7, <2>1, <2>2, <2>3 DEF Loops
<1>8. ASSUME NEW th \in Threads, Release(th)
      PROVE  RW!Next
  BY <1>8, PopReleases DEF Release, Unlock, UnlockShared, RW!Next
<1>9. ASSUME NEW th \in Threads, SpuriousWakeup(th)
      PROVE  UNCHANGED <<holds, Entered>>
  BY <1>9, EnteredStays DEF SpuriousWakeup
<1> QED BY <1>1, <1>2, <1>3, <1>4, <1>6, <1>7, <1>8, <1>9 DEF Next

(***************************************************************************)
(* shared_mutex is a reader-writer lock that prefers writers: every step   *)
(* is one of RWLock, or changes nothing that the clients of the lock see.  *)
(***************************************************************************)
THEOREM SafelyImplementsRWLock == Spec => RW!SafetySpec
<1>1. LockInv /\ LockInv' /\ [Next]_vars => [RW!Next]_(RW!rwVars)
  BY RWStep
<1> QED BY LockInit, LockStep, RWInit, <1>1, PTL DEF Spec, RW!SafetySpec
=============================================================================
