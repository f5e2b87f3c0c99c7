-------------------------------- MODULE IORef --------------------------------
(***************************************************************************)
(* IO.Ref, the mutable references of the Lean 4 runtime (runtime/io.cpp),  *)
(* on top of ObjectHeap.  A reference that several threads may see is read *)
(* by taking its value out and putting it back; in between it is empty.    *)
(* Operations that find the reference empty and return the error "null     *)
(* reference read" change nothing and have no action, except io_ref_swap.  *)
(***************************************************************************)
EXTENDS ObjectHeap

CONSTANTS
    MaxIORefs,    \* bound: references that exist at the same time
    SwapEmpty     \* the program swaps single-threaded references it has reset

ASSUME RefAssumption == MaxIORefs \in Nat /\ SwapEmpty \in BOOLEAN

VARIABLES
    ioRef,    \* per thread: the reference io_ref_get is reading, or Null
    ioVal     \* per thread: the value it has taken out

refVars == <<ioRef, ioVal>>
allVars == <<vars, refVars>>

RefInit ==
    /\ Init
    /\ ioRef = [th \in Threads |-> Null]
    /\ ioVal = [th \in Threads |-> Null]

RefMaybeMT(r) == mem[r] \in {"mt", "persistent"}
Uses(th, r) == Running(th) /\ ioRef[th] = Null /\ kind[r] = "ref" /\ own[th][r] > 0
AsObj(v) == IF v \in Objs THEN v ELSE Null

----------------------------------------------------------------------------
IoMkRef(th, r, a) ==
    /\ Running(th) /\ ioRef[th] = Null /\ kind[r] = "free" /\ Owns(th, a, Null)
    /\ Cardinality({o \in Objs : kind[o] = "ref"}) < MaxIORefs
    /\ kind' = [kind EXCEPT ![r] = "ref"]
    /\ rc' = [rc EXCEPT ![r] = 1]
    /\ fld' = [fld EXCEPT ![r] = <<a, Null>>]
    /\ SetOwn(th, Gain(Lose(own[th], a, Null), r))
    /\ UNCHANGED <<mem, pend, todo, task, ioRef, ioVal>>

(* io_ref_get of a single-threaded reference.                              *)
GetST(th, r) ==
    /\ Uses(th, r) /\ ~RefMaybeMT(r) /\ fld[r][1] # Null
    /\ rc' = IncAll(rc, fld[r][1], Null)
    /\ SetOwn(th, Gain(own[th], fld[r][1]))
    /\ UNCHANGED <<kind, mem, fld, pend, todo, task, refVars>>

(* io_ref_get of any other one: the value is exchanged with null, and its  *)
(* count increased ...                                                     *)
GetTake(th, r) ==
    /\ Uses(th, r) /\ RefMaybeMT(r) /\ fld[r][1] # Null
    /\ SumFunction(own[th]) < MaxRefs
    /\ ioRef' = [ioRef EXCEPT ![th] = r]
    /\ ioVal' = [ioVal EXCEPT ![th] = fld[r][1]]
    /\ fld' = [fld EXCEPT ![r][1] = Null]
    /\ rc' = IncAll(rc, fld[r][1], Null)
    /\ UNCHANGED <<kind, mem, threadVars>>

(* Faulty variant: what another thread has stored meanwhile is forgotten.  *)
GetPutBackForgets(th) ==
    LET r == ioRef[th] IN
    /\ r # Null
    /\ fld' = [fld EXCEPT ![r][1] = ioVal[th]]
    /\ SetOwn(th, Gain(own[th], ioVal[th]))
    /\ ioRef' = [ioRef EXCEPT ![th] = Null]
    /\ ioVal' = [ioVal EXCEPT ![th] = Null]
    /\ UNCHANGED <<kind, mem, rc, pend, todo, task>>

(* ... and the value is put back; what another thread has stored meanwhile *)
(* is released.                                                            *)
GetPutBack(th) ==
    LET r == ioRef[th] IN
    /\ r # Null
    /\ fld' = [fld EXCEPT ![r][1] = ioVal[th]]
    /\ pend' = [pend EXCEPT ![th] = AsObj(fld[r][1])]
    /\ SetOwn(th, Gain(own[th], ioVal[th]))
    /\ ioRef' = [ioRef EXCEPT ![th] = Null]
    /\ ioVal' = [ioVal EXCEPT ![th] = Null]
    /\ UNCHANGED <<kind, mem, rc, todo, task>>

IoRefReset(th, r) ==
    /\ Uses(th, r)
    /\ fld' = [fld EXCEPT ![r][1] = Null]
    /\ pend' = [pend EXCEPT ![th] = AsObj(fld[r][1])]
    /\ UNCHANGED <<kind, mem, rc, own, todo, task, ioRef, ioVal>>

(* mem after mark_mt of what is stored in r, if r may be multi-threaded.   *)
MarkStored(r, a) == IF RefMaybeMT(r) THEN MarkMT(a) ELSE mem

IoRefSet(th, r, a) ==
    /\ Uses(th, r) /\ Owns(th, r, a)
    /\ mem' = MarkStored(r, a)
    /\ fld' = [fld EXCEPT ![r][1] = a]
    /\ pend' = [pend EXCEPT ![th] = AsObj(fld[r][1])]
    /\ SetOwn(th, Lose(own[th], a, Null))
    /\ UNCHANGED <<kind, rc, todo, task, ioRef, ioVal>>

(* io_ref_swap.  A multi-threaded reference that is empty gets the new     *)
(* value although the operation fails; a single-threaded one does not, and *)
(* the new value is not released.                                          *)
IoRefSwap(th, r, a) ==
    /\ Uses(th, r) /\ Owns(th, r, a)
    /\ fld[r][1] # Null \/ SwapEmpty \/ RefMaybeMT(r)
    /\ mem' = MarkStored(r, a)
    /\ fld' = IF fld[r][1] # Null \/ RefMaybeMT(r) THEN [fld EXCEPT ![r][1] = a] ELSE fld
    /\ SetOwn(th, Gain(Lose(own[th], a, Null), fld[r][1]))
    /\ UNCHANGED <<kind, rc, pend, todo, task, ioRef, ioVal>>

RefOp(th) ==
    \E r \in Objs :
        \/ GetST(th, r) \/ GetTake(th, r) \/ IoRefReset(th, r)
        \/ \E a \in Values : IoMkRef(th, r, a) \/ IoRefSet(th, r, a) \/ IoRefSwap(th, r, a)

(* The part of ObjectHeap that programs with references are checked with.  *)
HeapOp(th) ==
    /\ ioRef[th] = Null
    /\ \/ \E o \in Objs : Alloc(th, o, Box, Box) \/ Dec(th, o) \/ Inc(th, o)
       \/ \E o \in Objs : InitConstant(th, o) \/ ReadConstant(th, o)
       \/ \E w \in Threads, o, c \in Objs : MkTask(th, w, o, c)
       \/ FinishTask(th, Box)
       \/ DecPending(th)
       \/ \E o \in Objs : DelCore(th, o)
    /\ UNCHANGED refVars

RefNext == \E th \in Threads : HeapOp(th) \/ RefOp(th) \/ GetPutBack(th)

RefSpec == RefInit /\ [][RefNext]_allVars

(* Programs with all operations of ObjectHeap and all of this module.  A   *)
(* thread inside io_ref_get does nothing else.                             *)
ProgramNext ==
    \E th \in Threads :
        \/ ioRef[th] = Null /\ Step(th) /\ UNCHANGED refVars
        \/ RefOp(th) \/ GetPutBack(th)

ProgramSpec == RefInit /\ [][ProgramNext]_allVars

----------------------------------------------------------------------------
(* References(o) and those that io_ref_get holds.                          *)
RefReferences(o) ==
    References(o) + Total([th \in Threads |-> 2 * Times(o, ioVal[th], Null)])

(* The counter of an object in the heap is the number of references to it, *)
(* and none is to memory that del has freed or is about to free: whichever *)
(* threads release references at the same time, and while values are taken *)
(* out of an IO.Ref, put back, and stored by others in between, nothing is *)
(* freed too early, leaked, lost or duplicated.                            *)
RefCountsAreExact ==
    \A o \in Objs :
        IF kind[o] = "free" \/ \E th \in Threads : o \in todo[th]
        THEN RefReferences(o) = 0
        ELSE IsHeapObj(o) => rc[o] = RefReferences(o)

(* Every object in the heap can be reached from a thread, a task or a      *)
(* persistent object: del follows the fields of what it deletes.  (Objects *)
(* that an IO.Ref holds on to may be in a cycle.)                          *)
NothingLeaks ==
    LET anchors == {x \in Objs : mem[x] = "persistent" \/ kind[x] = "ref"}
                   \union (UNION {Roots(th) : th \in Threads})
                   \union {x \in Objs : \E th \in Threads : x \in {ioVal[th], task[th]}}
    IN  \A o \in Objs : kind[o] # "free" => o \in Below(anchors)
=============================================================================
