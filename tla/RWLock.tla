------------------------------- MODULE RWLock -------------------------------
(***************************************************************************)
(* What shared_mutex (util/shared_mutex.h) promises: a reader-writer lock  *)
(* that prefers writers.  A writer first enters, which keeps new readers   *)
(* out, and gets the lock when the readers have left; the thread that has  *)
(* the exclusive lock may take the lock again, in either mode.  The stack  *)
(* held[th] is that of the lock objects (shared_lock, exclusive_lock) that *)
(* are alive on the stack of thread th.                                    *)
(***************************************************************************)
EXTENDS Naturals, Sequences

CONSTANTS Threads, NoThread, MaxDepth

VARIABLES
    held,      \* per thread: the modes in which it has the lock
    entered    \* the writer that keeps new readers out, or NoThread

rwVars == <<held, entered>>

Exclusive(th) == held[th] # <<>> /\ Head(held[th]) = "x"
Push(th, m)   == Len(held[th]) < MaxDepth /\ held' = [held EXCEPT ![th] = Append(@, m)]

Init == held = [th \in Threads |-> <<>>] /\ entered = NoThread

AcquireAgain(th, m) == Exclusive(th) /\ Push(th, m) /\ UNCHANGED entered

AcquireShared(th) ==
    /\ entered = NoThread /\ \A u \in Threads : ~Exclusive(u)
    /\ Push(th, "s")
    /\ UNCHANGED entered

Enter(th) ==
    /\ entered = NoThread /\ \A u \in Threads : ~Exclusive(u)
    /\ held[th] = <<>>
    /\ entered' = th
    /\ UNCHANGED held

AcquireExclusive(th) ==
    /\ entered \in {NoThread, th} /\ \A u \in Threads : held[u] = <<>>
    /\ Push(th, "x")
    /\ entered' = NoThread

Release(th) ==
    /\ held[th] # <<>>
    /\ held' = [held EXCEPT ![th] = SubSeq(@, 1, Len(@) - 1)]
    /\ UNCHANGED entered

Next ==
    \E th \in Threads :
        \/ \E m \in {"x", "s"} : AcquireAgain(th, m)
        \/ AcquireShared(th) \/ Enter(th) \/ AcquireExclusive(th) \/ Release(th)

SafetySpec == Init /\ [][Next]_rwVars

(* A writer that has entered gets the lock once the readers have left.     *)
Spec ==
    /\ SafetySpec
    /\ \A th \in Threads : WF_rwVars(entered = th /\ AcquireExclusive(th))
=============================================================================
