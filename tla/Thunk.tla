-------------------------------- MODULE Thunk --------------------------------
(***************************************************************************)
(* The thunks of the Lean 4 runtime (runtime/object.h, runtime/object.cpp),*)
(* on top of ObjectHeap.  The first field of a thunk is m_value, the       *)
(* second one m_closure.  Several threads may force a thunk: the one that  *)
(* gets the closure evaluates it, the others wait in a loop for the value. *)
(*                                                                         *)
(* The closures that thunk_map and thunk_bind make are objects of their    *)
(* own kinds.  Forcing a thunk inside the evaluation of another one is     *)
(* left out, so such closures are made of thunks that have a value.        *)
(***************************************************************************)
EXTENDS ObjectHeap

VARIABLES
    tpc,    \* per thread: where it is in thunk_get_core
    tcur,   \* per thread: the thunk it forces
    tclo,   \* per thread: the closure that apply_1 evaluates
    targ,   \* per thread: the thunk thunk_map or thunk_bind gave that closure
    tres    \* per thread: the result of the closure

thunkVars == <<tpc, tcur, tclo, targ, tres>>
allVars   == <<vars, thunkVars>>

ThunkInit ==
    /\ Init
    /\ tpc = [th \in Threads |-> "none"]
    /\ tcur = [th \in Threads |-> Null]
    /\ tclo = [th \in Threads |-> Null]
    /\ targ = [th \in Threads |-> Null]
    /\ tres = [th \in Threads |-> Null]

Idle(th) == Running(th) /\ tpc[th] = "none"
Uses(th, t) == Idle(th) /\ kind[t] = "thunk" /\ own[th][t] > 0

----------------------------------------------------------------------------
(* A new object o of kind k whose fields are a and b.                      *)
NewObj(th, o, k, a, b) ==
    /\ Idle(th) /\ kind[o] = "free" /\ Owns(th, a, b)
    /\ kind' = [kind EXCEPT ![o] = k]
    /\ rc' = [rc EXCEPT ![o] = 1]
    /\ fld' = [fld EXCEPT ![o] = <<a, b>>]
    /\ SetOwn(th, Gain(Lose(own[th], a, b), o))
    /\ UNCHANGED <<mem, pend, todo, task, thunkVars>>

IsClosure(c) == c \in Objs /\ kind[c] \in {"data", "mapfn", "bindfn"}

MkThunk(th, t, c)   == IsClosure(c) /\ NewObj(th, t, "thunk", Null, c)
ThunkPure(th, t, v) == NewObj(th, t, "thunk", v, Null)

(* The closures of thunk_map and thunk_bind on a thunk x; mk_thunk of them *)
(* is MkThunk.                                                             *)
MapClosure(th, o, x) ==
    /\ kind[x] = "thunk" /\ fld[x][1] # Null
    /\ NewObj(th, o, "mapfn", x, Null)
BindClosure(th, o, x) ==
    /\ kind[x] = "thunk" /\ fld[x][1] # Null
    /\ NewObj(th, o, "bindfn", x, Null)

(* thunk_get_own of a thunk that has a value.                              *)
ThunkGet(th, t) ==
    /\ Uses(th, t) /\ fld[t][1] # Null
    /\ rc' = IncAll(rc, fld[t][1], Null)
    /\ SetOwn(th, Gain(own[th], fld[t][1]))
    /\ UNCHANGED <<kind, mem, fld, pend, todo, task, thunkVars>>

(* thunk_get finds no value and calls thunk_get_core.                      *)
ThunkGetCore(th, t) ==
    /\ Uses(th, t) /\ fld[t][1] = Null
    /\ SumFunction(own[th]) < MaxRefs
    /\ tpc' = [tpc EXCEPT ![th] = "exchange"]
    /\ tcur' = [tcur EXCEPT ![th] = t]
    /\ UNCHANGED <<vars, tclo, targ, tres>>

(* Faulty variant: the closure is read, and stays in the thunk.            *)
ExchangeLoads(th) ==
    LET c == fld[tcur[th]][2] IN
    /\ tpc[th] = "exchange"
    /\ tpc' = [tpc EXCEPT ![th] = IF c = Null THEN "wait" ELSE "eval"]
    /\ tclo' = [tclo EXCEPT ![th] = c]
    /\ UNCHANGED <<vars, tcur, targ, tres>>

(* The exchange of m_closure with null, and what apply_1 does before the   *)
(* call: the code gets the arguments of an exclusive closure, or copies of *)
(* those of a shared one.                                                  *)
Exchange(th) ==
    LET t == tcur[th]
        c == fld[t][2]
        x == fld[c][1]
        y == fld[c][2]
    IN  /\ tpc[th] = "exchange"
        /\ \/ /\ c = Null
              /\ tpc' = [tpc EXCEPT ![th] = "wait"]
              /\ UNCHANGED <<vars, tclo, targ>>
           \/ /\ c # Null
              /\ tpc' = [tpc EXCEPT ![th] = "eval"]
              /\ tclo' = [tclo EXCEPT ![th] = c]
              /\ IF kind[c] = "data"
                 THEN own' = [own EXCEPT ![th] = Gain(Gain(@, x), y)] /\ UNCHANGED targ
                 ELSE targ' = [targ EXCEPT ![th] = x] /\ UNCHANGED own
              /\ IF IsExclusive(c)
                 THEN /\ fld' = [fld EXCEPT ![t][2] = Null, ![c] = <<Null, Null>>]
                      /\ UNCHANGED rc
                 ELSE /\ fld' = [fld EXCEPT ![t][2] = Null]
                      /\ rc' = IncAll(rc, x, y)
              /\ UNCHANGED <<kind, mem, pend, todo, task>>
        /\ UNCHANGED <<tcur, tres>>

(* References that the code of a closure may use: not the borrowed one.    *)
Spare(th, o) == own[th][o] > IF o = tcur[th] THEN 1 ELSE 0

(* Thread th executes the code of a closure of kind k, and the code        *)
(* returns r to apply_1.                                                   *)
Evaluating(th, k) == Running(th) /\ tpc[th] = "eval" /\ kind[tclo[th]] = k
Result(th, r) ==
    /\ tres' = [tres EXCEPT ![th] = r]
    /\ tpc' = [tpc EXCEPT ![th] = "release"]
    /\ UNCHANGED <<tcur, tclo>>

CodeReturns(th, r) ==
    /\ Evaluating(th, "data")
    /\ r \in Objs => Spare(th, r)
    /\ LocalStores \/ mem[tcur[th]] = "st" \/ ~IsST(r)
    /\ Result(th, r)
    /\ SetOwn(th, Lose(own[th], r, Null))
    /\ UNCHANGED <<kind, mem, rc, fld, pend, todo, task, targ>>

(* thunk_map_fn_closure: f gets a reference to the value v, and returns v  *)
(* or a scalar; then v is released, and t is not.                          *)
MapFn(th, r) ==
    LET v == fld[targ[th]][1] IN
    /\ Evaluating(th, "mapfn")
    /\ r \in {v, Box}
    /\ Result(th, r)
    /\ rc' = IF r = v THEN rc ELSE DecAll(rc, v, Null)
    /\ todo' = [todo EXCEPT ![th] = IF r = v THEN {} ELSE Zeroed(v, Null)]
    /\ targ' = [targ EXCEPT ![th] = Null]
    /\ UNCHANGED <<kind, mem, fld, own, pend, task>>

(* Faulty variant: thunk_bind_fn_closure as thunk_map_fn_closure.          *)
BindFnDecsValue(th, r) ==
    LET v == fld[targ[th]][1] IN
    /\ Evaluating(th, "bindfn")
    /\ r \in {v, Box}
    /\ Result(th, r)
    /\ rc' = IF r = v THEN rc ELSE DecAll(rc, v, Null)
    /\ todo' = [todo EXCEPT ![th] = IF r = v THEN {} ELSE Zeroed(v, Null)]
    /\ targ' = [targ EXCEPT ![th] = Null]
    /\ UNCHANGED <<kind, mem, fld, own, pend, task>>

(* thunk_bind_fn_closure: the same, but x is released.                     *)
BindFn(th, r) ==
    LET v == fld[targ[th]][1] IN
    /\ Evaluating(th, "bindfn")
    /\ r \in {v, Box}
    /\ Result(th, r)
    /\ rc' = IncAll(rc, r, Null)
    /\ pend' = [pend EXCEPT ![th] = targ[th]]
    /\ targ' = [targ EXCEPT ![th] = Null]
    /\ UNCHANGED <<kind, mem, fld, own, todo, task>>

(* The end of apply_1: free_closure_obj of an exclusive closure, which has *)
(* no arguments any more, or dec_ref of a shared one.                      *)
Release(th) ==
    /\ Running(th) /\ tpc[th] = "release"
    /\ pend' = [pend EXCEPT ![th] = tclo[th]]
    /\ tclo' = [tclo EXCEPT ![th] = Null]
    /\ tpc' = [tpc EXCEPT ![th] = "store"]
    /\ UNCHANGED <<objVars, own, todo, task, tcur, targ, tres>>

(* Faulty variant: the result is returned to this thread only.             *)
StoreForgets(th) ==
    /\ Running(th) /\ tpc[th] = "store"
    /\ own' = [own EXCEPT ![th] = Gain(@, tres[th])]
    /\ tpc' = [tpc EXCEPT ![th] = "none"]
    /\ tcur' = [tcur EXCEPT ![th] = Null]
    /\ tres' = [tres EXCEPT ![th] = Null]
    /\ UNCHANGED <<objVars, pend, todo, task, tclo, targ>>

(* thunk_get_core stores the result in m_value and returns it;             *)
(* thunk_get_own makes a reference for the caller.                         *)
Store(th) ==
    LET r == tres[th] IN
    /\ Running(th) /\ tpc[th] = "store"
    /\ fld' = [fld EXCEPT ![tcur[th]][1] = r]
    /\ rc' = IncAll(rc, r, Null)
    /\ own' = [own EXCEPT ![th] = Gain(@, r)]
    /\ tpc' = [tpc EXCEPT ![th] = "none"]
    /\ tcur' = [tcur EXCEPT ![th] = Null]
    /\ tres' = [tres EXCEPT ![th] = Null]
    /\ UNCHANGED <<kind, mem, pend, todo, task, tclo, targ>>

(* The loop of a thread that waits for the value sees it.                  *)
WaitEnds(th) ==
    LET t == tcur[th] IN
    /\ tpc[th] = "wait" /\ fld[t][1] # Null
    /\ rc' = IncAll(rc, fld[t][1], Null)
    /\ SetOwn(th, Gain(own[th], fld[t][1]))
    /\ tpc' = [tpc EXCEPT ![th] = "none"]
    /\ tcur' = [tcur EXCEPT ![th] = Null]
    /\ UNCHANGED <<kind, mem, fld, pend, todo, task, tclo, targ, tres>>

----------------------------------------------------------------------------
(* The part of ObjectHeap that programs with thunks are checked with.      *)
HeapOp(th) ==
    /\ \/ DecPending(th)
       \/ \E o \in Objs : DelCore(th, o)
       \/ \E o \in Objs : /\ Idle(th) \/ Evaluating(th, "data")
                          /\ Alloc(th, o, Box, Box) \/ (Spare(th, o) /\ Dec(th, o))
       \/ \E o, a \in Objs : tpc[th] = "none" /\ Alloc(th, o, a, Box)
       \/ \E o \in Objs : tpc[th] = "none" /\ Inc(th, o)
       \/ \E w \in Threads, o, c \in Objs : tpc[th] = "none" /\ MkTask(th, w, o, c)
       \/ tpc[th] = "none" /\ FinishTask(th, Box)
    /\ UNCHANGED thunkVars

ThunkOp(th) ==
    \/ \E t \in Objs : ThunkGet(th, t) \/ ThunkGetCore(th, t)
    \/ \E t, c \in Objs : MkThunk(th, t, c) \/ BindClosure(th, t, c)
    \/ \E t \in Objs, v \in Values : ThunkPure(th, t, v)
    \/ Exchange(th) \/ Release(th) \/ Store(th) \/ WaitEnds(th)

Return(th) == \E r \in Values : CodeReturns(th, r) \/ BindFn(th, r)

ThunkNext == \E th \in Threads : HeapOp(th) \/ ThunkOp(th) \/ Return(th)

ThunkSpec == ThunkInit /\ [][ThunkNext]_allVars

(* Programs that use thunk_map, too.                                       *)
MapNext ==
    \/ ThunkNext
    \/ \E th \in Threads :
        \/ \E o, x \in Objs : MapClosure(th, o, x)
        \/ \E r \in Values : MapFn(th, r)

MapSpec == ThunkInit /\ [][MapNext]_allVars

(* Threads are scheduled, and the code of a closure ends.                  *)
FairThunkSpec ==
    /\ ThunkSpec
    /\ \A th \in Threads :
        /\ SF_allVars(Return(th))
        /\ WF_allVars(Exchange(th))
        /\ WF_allVars(Release(th))
        /\ WF_allVars(Store(th))
        /\ WF_allVars(WaitEnds(th))
        /\ WF_allVars(DecPending(th) /\ UNCHANGED thunkVars)
        /\ WF_allVars((\E o \in Objs : DelCore(th, o)) /\ UNCHANGED thunkVars)

----------------------------------------------------------------------------
(* References(o) and those of the closures being evaluated.                *)
ThunkReferences(o) ==
    References(o)
    + Total([th \in Threads |-> Times(o, tclo[th], targ[th]) + Times(o, tres[th], Null)])

(* The counters are exact while threads force the same thunk at the same   *)
(* time: the closure is consumed once, everyone who gets the value has a   *)
(* reference of its own, and no reference is to memory that has been freed *)
(* or is about to be.                                                      *)
ThunkCountsAreExact ==
    \A o \in Objs :
        IF kind[o] = "free" \/ \E th \in Threads : o \in todo[th]
        THEN ThunkReferences(o) = 0
        ELSE IsHeapObj(o) => rc[o] = ThunkReferences(o)

(* Thread th is in the branch of thunk_get_core that calls apply_1.        *)
Applies(th) == tpc[th] \in {"eval", "release", "store"}

(* lean_assert(to_thunk(t)->m_value == nullptr) in thunk_get_core: of all  *)
(* threads that force a thunk one evaluates it, until it is done the thunk *)
(* has no value and no closure, and the others wait only for a thunk that  *)
(* has its value or that a thread evaluates.                               *)
OneEvaluator ==
    \A th \in Threads :
        /\ Applies(th) =>
            /\ fld[tcur[th]] = <<Null, Null>>
            /\ \A u \in Threads \ {th} : Applies(u) => tcur[u] # tcur[th]
        /\ tpc[th] = "wait" =>
            \/ fld[tcur[th]][1] # Null
            \/ \E u \in Threads : Applies(u) /\ tcur[u] = tcur[th]

(* object.h:121: of a borrowed result, as that of thunk_get, the caller    *)
(* "is not responsible for decreasing the RC".  A caller that releases     *)
(* nothing it has only borrowed leaves no reference, neither that of the   *)
(* thunk to its value nor any other, to memory that is freed.              *)
NothingRefersToFreed ==
    \A o \in Objs :
        kind[o] = "free" \/ (\E th \in Threads : o \in todo[th]) => ThunkReferences(o) = 0

(* Every thread that forces a thunk gets its value.                        *)
ForcingEnds == \A th \in Threads : tpc[th] # "none" ~> tpc[th] = "none"
=============================================================================
