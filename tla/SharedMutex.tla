----------------------------- MODULE SharedMutex -----------------------------
(***************************************************************************)
(* shared_mutex (util/shared_mutex.cpp), the reader-writer lock of the     *)
(* option declarations.  m_mutex protects the members, so that an action   *)
(* is what a thread does between taking m_mutex and releasing or waiting:  *)
(* a thread at pc "lock", "drain" or "shared" is about to evaluate the     *)
(* condition of the while loop around a wait, and does so unless it sleeps *)
(* at the gate.                                                            *)
(*                                                                         *)
(* Clients take the lock by the objects shared_lock and exclusive_lock: it *)
(* is released in the reverse order.  A thread that has the lock only in   *)
(* shared mode does not ask for it again: lock would wait for the thread   *)
(* itself, and lock_shared would wait behind a writer that waits for it.   *)
(***************************************************************************)
EXTENDS Naturals, Sequences, FiniteSets

CONSTANTS
    Threads,
    NoThread,      \* thread::id(): no owner
    MaxReaders,    \* the mask readers: how many readers m_state can count
    MaxDepth       \* bound: lock objects of a thread that are alive at a time

(***************************************************************************)
(* A thread that releases the lock at the limit of readers wakes one of    *)
(* those that wait for it: there must not be two.  (The limit in the code  *)
(* is 2^31 - 1.)                                                           *)
(***************************************************************************)
ASSUME LockAssumption ==
    /\ NoThread \notin Threads
    /\ IsFiniteSet(Threads)
    /\ MaxDepth \in Nat \ {0}
    /\ MaxReaders \in Nat \ {0}
    /\ Cardinality(Threads) <= MaxReaders + 1

VARIABLES
    rwOwner,         \* m_rw_owner
    rwCounter,       \* m_rw_counter
    writeEntered,    \* the bit write_entered of m_state
    readers,         \* the other bits of m_state
    gate1, gate2,    \* the threads asleep on the condition variables
    pc,              \* per thread: the call it is in
    holds            \* per thread: the modes of its lock objects

lockVars == <<rwOwner, rwCounter, writeEntered, readers>>
vars     == <<lockVars, gate1, gate2, pc, holds>>

Init ==
    /\ rwOwner = NoThread /\ rwCounter = 0
    /\ writeEntered = FALSE /\ readers = 0
    /\ gate1 = {} /\ gate2 = {}
    /\ pc = [th \in Threads |-> "client"]
    /\ holds = [th \in Threads |-> <<>>]

----------------------------------------------------------------------------
Push(th, m) == holds' = [holds EXCEPT ![th] = Append(@, m)]
Pop(th)     == holds' = [holds EXCEPT ![th] = SubSeq(@, 1, Len(@) - 1)]
Goto(th, p) == pc' = [pc EXCEPT ![th] = p]
Top(th)     == holds[th][Len(holds[th])]

(* notify_one: it wakes a thread that sleeps at gate, if there is one.     *)
NotifyOne(gate) ==
    IF gate = {} THEN {gate} ELSE {gate \ {th} : th \in gate}

Calls(th) == pc[th] = "client" /\ Len(holds[th]) < MaxDepth

(* Every operation by the owner of the exclusive lock: it is nested.       *)
LockAgain(th, m) ==
    /\ Calls(th) /\ rwOwner = th
    /\ rwCounter' = rwCounter + 1
    /\ Push(th, m)
    /\ UNCHANGED <<rwOwner, writeEntered, readers, gate1, gate2, pc>>

BecomeOwner(th) ==
    /\ rwOwner' = th /\ rwCounter' = 1
    /\ Push(th, "x") /\ Goto(th, "client")

----------------------------------------------------------------------------
Lock(th) ==
    /\ Calls(th) /\ rwOwner # th /\ holds[th] = <<>>
    /\ Goto(th, "lock")
    /\ UNCHANGED <<lockVars, gate1, gate2, holds>>

(* The loop at gate1; then write_entered is set and, in the same critical  *)
(* section, the condition of the loop at gate2 is evaluated.               *)
LockLoop(th) ==
    /\ pc[th] = "lock" /\ th \notin gate1
    /\ IF writeEntered
       THEN gate1' = gate1 \cup {th} /\ UNCHANGED <<lockVars, gate2, pc, holds>>
       ELSE /\ writeEntered' = TRUE
            /\ IF readers # 0
               THEN /\ gate2' = gate2 \cup {th} /\ Goto(th, "drain")
                    /\ UNCHANGED <<rwOwner, rwCounter, holds>>
               ELSE BecomeOwner(th) /\ UNCHANGED gate2
            /\ UNCHANGED <<readers, gate1>>

(* Faulty variant: the wait at gate2 is not in a loop.                     *)
DrainOnce(th) ==
    /\ pc[th] = "drain" /\ th \notin gate2
    /\ BecomeOwner(th) /\ UNCHANGED <<writeEntered, readers, gate1, gate2>>

(* The loop at gate2.                                                      *)
DrainLoop(th) ==
    /\ pc[th] = "drain" /\ th \notin gate2
    /\ IF readers # 0
       THEN gate2' = gate2 \cup {th} /\ UNCHANGED <<lockVars, pc, holds>>
       ELSE BecomeOwner(th) /\ UNCHANGED <<writeEntered, readers, gate2>>
    /\ UNCHANGED gate1

(* try_lock; where it returns false it changes nothing.                    *)
TryLock(th) ==
    /\ Calls(th) /\ rwOwner # th
    /\ ~writeEntered /\ readers = 0
    /\ writeEntered' = TRUE
    /\ BecomeOwner(th)
    /\ UNCHANGED <<readers, gate1, gate2>>

(* Faulty variant: one of the threads at the gate is woken, not all.       *)
UnlockNotifiesOne(th) ==
    /\ pc[th] = "client" /\ holds[th] # <<>> /\ Top(th) = "x"
    /\ Pop(th)
    /\ rwCounter' = rwCounter - 1
    /\ IF rwCounter' > 0
       THEN UNCHANGED <<rwOwner, writeEntered, readers, gate1>>
       ELSE /\ rwOwner' = NoThread /\ writeEntered' = FALSE /\ readers' = 0
            /\ gate1' \in NotifyOne(gate1)
    /\ UNCHANGED <<gate2, pc>>

Unlock(th) ==
    /\ pc[th] = "client" /\ holds[th] # <<>> /\ Top(th) = "x"
    /\ Pop(th)
    /\ rwCounter' = rwCounter - 1
    /\ IF rwCounter' > 0
       THEN UNCHANGED <<rwOwner, writeEntered, readers, gate1>>
       ELSE /\ rwOwner' = NoThread /\ writeEntered' = FALSE /\ readers' = 0
            /\ gate1' = {}
    /\ UNCHANGED <<gate2, pc>>

----------------------------------------------------------------------------
LockShared(th) ==
    /\ Calls(th) /\ rwOwner # th /\ holds[th] = <<>>
    /\ Goto(th, "shared")
    /\ UNCHANGED <<lockVars, gate1, gate2, holds>>

MayRead == ~writeEntered /\ readers # MaxReaders

(* The loop at gate1 of lock_shared.                                       *)
SharedLoop(th) ==
    /\ pc[th] = "shared" /\ th \notin gate1
    /\ IF MayRead
       THEN /\ readers' = readers + 1 /\ Push(th, "s") /\ Goto(th, "client")
            /\ UNCHANGED <<rwOwner, rwCounter, writeEntered, gate1>>
       ELSE gate1' = gate1 \cup {th} /\ UNCHANGED <<lockVars, pc, holds>>
    /\ UNCHANGED gate2

(* try_lock_shared; where it returns false it changes nothing.             *)
TryLockShared(th) ==
    /\ Calls(th) /\ rwOwner # th /\ holds[th] = <<>> /\ MayRead
    /\ readers' = readers + 1 /\ Push(th, "s")
    /\ UNCHANGED <<rwOwner, rwCounter, writeEntered, gate1, gate2, pc>>

(* Faulty variant: the owner's nested lock is counted as a reader's.       *)
UnlockSharedOfOwner(th) ==
    /\ pc[th] = "client" /\ holds[th] # <<>> /\ Top(th) = "s"
    /\ Pop(th)
    /\ readers' = IF readers = 0 THEN MaxReaders ELSE readers - 1
    /\ gate2' \in IF writeEntered /\ readers' = 0 THEN NotifyOne(gate2) ELSE {gate2}
    /\ gate1' \in IF ~writeEntered /\ readers' = MaxReaders - 1
                  THEN NotifyOne(gate1) ELSE {gate1}
    /\ UNCHANGED <<rwOwner, rwCounter, writeEntered, pc>>

UnlockShared(th) ==
    /\ pc[th] = "client" /\ holds[th] # <<>> /\ Top(th) = "s"
    /\ Pop(th)
    /\ IF rwOwner = th
       THEN rwCounter' = rwCounter - 1 /\ UNCHANGED <<readers, gate1, gate2>>
       ELSE /\ readers' = readers - 1
            /\ gate2' \in IF writeEntered /\ readers' = 0 THEN NotifyOne(gate2) ELSE {gate2}
            /\ gate1' \in IF ~writeEntered /\ readers' = MaxReaders - 1
                          THEN NotifyOne(gate1) ELSE {gate1}
            /\ UNCHANGED rwCounter
    /\ UNCHANGED <<rwOwner, writeEntered, pc>>

(* A wait may end without a notification.                                  *)
SpuriousWakeup(th) ==
    /\ th \in gate1 \cup gate2
    /\ gate1' = gate1 \ {th} /\ gate2' = gate2 \ {th}
    /\ UNCHANGED <<lockVars, pc, holds>>

----------------------------------------------------------------------------
Loops(th)   == LockLoop(th) \/ DrainLoop(th) \/ SharedLoop(th)
Release(th) == Unlock(th) \/ UnlockShared(th)

Next ==
    \E th \in Threads :
        \/ \E m \in {"x", "s"} : LockAgain(th, m)
        \/ Lock(th) \/ TryLock(th) \/ LockShared(th) \/ TryLockShared(th)
        \/ Loops(th) \/ Release(th) \/ SpuriousWakeup(th)

Spec == Init /\ [][Next]_vars

(***************************************************************************)
(* Fairness: a thread that does not sleep gets m_mutex and goes on, and    *)
(* the scope of a lock object ends, however often the lock is taken and    *)
(* released again inside it.                                               *)
(***************************************************************************)
Fairness ==
    \A th \in Threads :
        /\ WF_vars(Loops(th))
        /\ \A d \in 1..MaxDepth : SF_vars(Len(holds[th]) = d /\ Release(th))

FairSpec == Spec /\ Fairness

----------------------------------------------------------------------------
TypeOK ==
    /\ rwOwner \in Threads \cup {NoThread}
    /\ rwCounter \in Nat
    /\ writeEntered \in BOOLEAN
    /\ readers \in 0..MaxReaders
    /\ gate1 \subseteq Threads /\ gate2 \subseteq Threads
    /\ pc \in [Threads -> {"client", "lock", "drain", "shared"}]
    /\ holds \in [Threads -> Seq({"x", "s"})]

(***************************************************************************)
(* m_rw_owner, m_rw_counter and m_state say exactly who has the lock and   *)
(* in which mode, so that no writer has it together with anyone else, and  *)
(* the assertions of the code on m_rw_counter hold: a nested release never *)
(* gives the lock away early, and the last one always does.                *)
(***************************************************************************)
StateMatchesHolders ==
    /\ rwCounter = IF rwOwner = NoThread THEN 0 ELSE Len(holds[rwOwner])
    /\ \A th \in Threads :
        /\ rwOwner = th <=> holds[th] # <<>> /\ Head(holds[th]) = "x"
        /\ rwOwner = th => readers = 0 /\ writeEntered
        /\ pc[th] = "drain" => writeEntered /\ rwOwner = NoThread
        /\ pc[th] # "client" => holds[th] = <<>>
        /\ rwOwner # th => Len(holds[th]) <= 1
    /\ readers = Cardinality({th \in Threads : rwOwner # th /\ holds[th] # <<>>})
    /\ writeEntered => rwOwner # NoThread \/ \E th \in Threads : pc[th] = "drain"
    /\ \A t, u \in Threads : pc[t] = "drain" /\ pc[u] = "drain" => t = u

(***************************************************************************)
(* A thread sleeps only as long as what it waits for has not happened:     *)
(* every sleeper is woken again, the writer that has entered and those     *)
(* that wait behind it.                                                    *)
(***************************************************************************)
SleepersWake == \A th \in Threads : th \in gate1 \cup gate2 ~> th \notin gate1 \cup gate2

Entered ==
    IF \E th \in Threads : pc[th] = "drain"
    THEN CHOOSE th \in Threads : pc[th] = "drain"
    ELSE NoThread

RW == INSTANCE RWLock WITH held <- holds, entered <- Entered

(***************************************************************************)
(* shared_mutex is a reader-writer lock that prefers writers, and a writer *)
(* that has entered gets it.                                               *)
(***************************************************************************)
ImplementsRWLock == RW!Spec
=============================================================================
