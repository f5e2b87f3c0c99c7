----------------------------- MODULE ThunkProofs -----------------------------
(***************************************************************************)
(* Reference counting is exact, and every thunk has one evaluator, in the  *)
(* programs of ThunkSpec with any number of threads, objects and           *)
(* references: what is in the local variables of thunk_get_core and        *)
(* apply_1 is counted, too.                                                *)
(***************************************************************************)
EXTENDS Thunk, ObjectHeapProofs

(* The references that are in the local variables of thunk_get_core.       *)
LocalsOf(th, o) == Times(o, tclo[th], targ[th]) + Times(o, tres[th], Null)
Locals == [o \in Objs |-> Total([th \in Threads |-> LocalsOf(th, o)])]

ThunkTypes ==
    /\ tpc \in [Threads -> {"none", "exchange", "wait", "eval", "release", "store"}]
    /\ tcur \in [Threads -> Objs \union {Null}]
    /\ tclo \in [Threads -> Objs \union {Null}]
    /\ targ \in [Threads -> Objs \union {Null}]
    /\ tres \in [Threads -> Pointers]

(* Which local variables a thread uses where; it keeps a reference to the  *)
(* thunk that it forces.                                                   *)
Forces(th) ==
    tcur[th] \in Objs /\ kind[tcur[th]] = "thunk" /\ own[th][tcur[th]] > 0

Control(th) ==
    /\ tpc[th] # "none" => Forces(th)
    /\ tclo[th] # Null <=> tpc[th] \in {"eval", "release"}
    /\ tres[th] # Null <=> tpc[th] \in {"release", "store"}
    /\ tpc[th] # "eval" => targ[th] = Null
    /\ tpc[th] = "eval" => \/ kind[tclo[th]] = "data" /\ targ[th] = Null
                           \/ kind[tclo[th]] = "bindfn" /\ targ[th] # Null

(* A thunk has a closure, an evaluator, or a value.                        *)
ThunkState(t) ==
    kind[t] = "thunk" =>
        /\ fld[t][2] # Null => /\ fld[t][2] \in Objs /\ fld[t][1] = Null
                               /\ kind[fld[t][2]] \in {"data", "bindfn"}
        /\ fld[t] = <<Null, Null>> => \E th \in Threads : Applies(th) /\ tcur[th] = t

(* Nobody can get a reference to o from here.                              *)
Unheld(o) ==
    /\ \A th \in Threads : own[th][o] = 0
    /\ \A x \in Objs : fld[x][1] # o /\ fld[x][2] # o

(* The closure of thunk_bind has its argument, until an evaluator that has *)
(* the only reference to the closure takes it.                             *)
Argument(c) ==
    /\ kind[c] # "mapfn"
    /\ kind[c] = "bindfn" =>
        /\ fld[c][2] = Null
        /\ \/ fld[c][1] \in Objs
           \/ Unheld(c) /\ \A th \in Threads : tres[th] # c

Evaluator(th) ==
    /\ Applies(th) =>
        /\ fld[tcur[th]] = <<Null, Null>>
        /\ \A u \in Threads : Applies(u) /\ tcur[u] = tcur[th] => u = th
    /\ tpc[th] = "wait" => fld[tcur[th]][2] = Null

ControlInv == ThunkTypes /\ \A th \in Threads : Control(th)
StateInv ==
    /\ \A o \in Objs : ThunkState(o) /\ Argument(o)
    /\ \A th \in Threads : Evaluator(th)

ThunkInv == ControlInv /\ StateInv /\ HeapInv(Locals)

----------------------------------------------------------------------------
(* Sums of local variables.                                                *)

LEMMA LocalsType ==
    ASSUME NEW o \in Objs
    PROVE  /\ \A th \in Threads : LocalsOf(th, o) \in Nat
           /\ [th \in Threads |-> LocalsOf(th, o)] \in [Threads -> Nat]
           /\ Locals[o] = Total([th \in Threads |-> LocalsOf(th, o)]) /\ Locals[o] \in Nat
<1>1. \A th \in Threads : LocalsOf(th, o) \in Nat
  BY TimesType DEF LocalsOf
<1>2. Locals[o] = Total([th \in Threads |-> LocalsOf(th, o)])
  BY DEF Locals
<1> HIDE DEF LocalsOf
<1> QED BY <1>1, <1>2, PairsFinite, ThreadsAssumption

LEMMA LocalsAreNat == Locals \in [Objs -> Nat]
<1>1. \A o \in Objs : Total([th \in Threads |-> LocalsOf(th, o)]) \in Nat
  BY LocalsType
<1> QED BY <1>1 DEF Locals

LEMMA LocalsAreNatNext == Locals' \in [Objs -> Nat]
<1>1. (Locals \in [Objs -> Nat])'
  BY LocalsAreNat, PTL
<1> QED BY <1>1

(* How the sum changes with the variables of one thread.                   *)
LEMMA LocalsUpdate ==
    ASSUME NEW th \in Threads,
           \A t \in Threads : t # th => tclo'[t] = tclo[t] /\ targ'[t] = targ[t] /\ tres'[t] = tres[t],
           NEW o \in Objs
    PROVE  /\ Locals'[o] \in Nat /\ Locals[o] \in Nat
           /\ LocalsOf(th, o) \in Nat /\ LocalsOf(th, o)' \in Nat
           /\ Locals[o] >= LocalsOf(th, o)
           /\ Locals'[o] + LocalsOf(th, o) = Locals[o] + LocalsOf(th, o)'
<1>1. PICK f : f = [t \in Threads |-> LocalsOf(t, o)]
  OBVIOUS
<1>2. PICK g : g = [t \in Threads |-> LocalsOf(t, o)']
  OBVIOUS
<1>3. \A t \in Threads : LocalsOf(t, o) \in Nat /\ LocalsOf(t, o)' \in Nat
  BY TimesType DEF LocalsOf
<1>4. f \in [Threads -> Nat] /\ Locals[o] = Total(f) /\ f[th] = LocalsOf(th, o)
  BY <1>1, LocalsType
<1>5. g \in [Threads -> Nat] /\ g[th] = LocalsOf(th, o)'
  BY <1>2, <1>3
<1>6. Locals'[o] = Total(g)
  BY <1>2 DEF Locals, LocalsOf, Total, Times
<1>7. \A t \in Threads : t # th => g[t] = f[t]
  BY <1>1, <1>2 DEF LocalsOf, Times
<1>8. /\ Total(f) \in Nat /\ Total(g) \in Nat /\ Total(f) >= f[th]
      /\ Total(g) = Total(f) - f[th] + g[th]
  BY <1>4, <1>5, <1>7, TotalUpdate, ThreadsAssumption
<1>9. f[th] \in Nat /\ g[th] \in Nat
  BY <1>4, <1>5
<1> QED BY <1>4, <1>5, <1>6, <1>8, <1>9

LEMMA LocalsStay ==
    ASSUME UNCHANGED <<tclo, targ, tres>>
    PROVE  Locals' = Locals
BY DEF Locals, LocalsOf, Total, Times

LEMMA HeapInvLocals ==
    ASSUME NEW Y, Y = Locals', HeapInv(Y)'
    PROVE  HeapInv(Locals)'
<1>1. ASSUME NEW o \in Objs PROVE Counted(Locals, o)'
  BY DEF HeapInv, Counted
<1> QED BY <1>1 DEF HeapInv

----------------------------------------------------------------------------
(* The references in the fields of x and z, which may be the same object.  *)
StoresBoth(x, z, o) == IF x = z THEN Stores(x, o) ELSE Stores(x, o) + Stores(z, o)

(* How the references to o change when one thread and the fields of two    *)
(* objects change.                                                         *)
LEMMA ReferencesUpdateBoth ==
    ASSUME HeapTypes, HeapTypes', NEW th \in Threads, NEW x \in Objs, NEW z \in Objs,
           \A t \in Threads : t # th => own'[t] = own[t] /\ pend'[t] = pend[t],
           \A y \in Objs : y \notin {x, z} => fld'[y] = fld[y],
           NEW o \in Objs
    PROVE  /\ References(o) \in Nat /\ References(o)' \in Nat
           /\ Holds(th, o) \in Nat /\ Holds(th, o)' \in Nat
           /\ StoresBoth(x, z, o) \in Nat /\ StoresBoth(x, z, o)' \in Nat
           /\ References(o) >= Holds(th, o) + StoresBoth(x, z, o)
           /\ References(o)' = References(o) - Holds(th, o) + Holds(th, o)'
                               - StoresBoth(x, z, o) + StoresBoth(x, z, o)'
<1>1. CASE x = z
  <2>1. /\ References(o) \in Nat /\ References(o)' \in Nat
        /\ Holds(th, o) \in Nat /\ Holds(th, o)' \in Nat
        /\ Stores(x, o) \in Nat /\ Stores(x, o)' \in Nat
        /\ References(o) >= Holds(th, o) + Stores(x, o)
        /\ References(o)' = References(o) - Holds(th, o) + Holds(th, o)'
                            - Stores(x, o) + Stores(x, o)'
    BY <1>1, ReferencesUpdate
  <2>2. StoresBoth(x, z, o) = Stores(x, o) /\ StoresBoth(x, z, o)' = Stores(x, o)'
    BY <1>1 DEF StoresBoth
  <2> QED BY <2>1, <2>2
<1>2. CASE x # z
  <2> DEFINE f == [t \in Threads |-> Holds(t, o)]
             g == [y \in Objs |-> Stores(y, o)]
             ff == [t \in Threads |-> Holds(t, o)']
             gg == [y \in Objs |-> Stores(y, o)']
             mid == [y \in Objs |-> IF y = x THEN Stores(y, o)' ELSE Stores(y, o)]
  <2>1. /\ f \in [Threads -> Nat] /\ g \in [Objs -> Nat]
        /\ References(o) = Total(f) + Total(g)
    BY HoldsType
  <2>2. /\ \A t \in Threads : Holds(t, o)' \in Nat
        /\ \A y \in Objs : Stores(y, o)' \in Nat /\ Stores(y, o) \in Nat
    <3>1. ASSUME NEW t \in Threads PROVE Holds(t, o)' \in Nat
      BY TimesType DEF HeapTypes, Holds
    <3>2. ASSUME NEW y \in Objs PROVE Stores(y, o)' \in Nat /\ Stores(y, o) \in Nat
      BY TimesType DEF Stores
    <3> QED BY <3>1, <3>2
  <2>3. /\ ff \in [Threads -> Nat] /\ gg \in [Objs -> Nat] /\ mid \in [Objs -> Nat]
    BY <2>2
  <2>4. References(o)' = Total(ff) + Total(gg)
    BY DEF References, Holds, Stores, Total, Times
  <2>5. \A t \in Threads : t # th => ff[t] = f[t]
    BY DEF Holds, Times
  <2>6. \A y \in Objs : y # x => mid[y] = g[y]
    OBVIOUS
  <2>7. \A y \in Objs : y # z => gg[y] = mid[y]
    BY DEF Stores, Times
  <2>8. /\ f[th] = Holds(th, o) /\ ff[th] = Holds(th, o)'
        /\ g[x] = Stores(x, o) /\ mid[x] = Stores(x, o)'
        /\ mid[z] = Stores(z, o) /\ gg[z] = Stores(z, o)'
    BY <1>2
  <2>9. /\ StoresBoth(x, z, o) = Stores(x, o) + Stores(z, o)
        /\ StoresBoth(x, z, o)' = Stores(x, o)' + Stores(z, o)'
    BY <1>2 DEF StoresBoth
  <2> DEFINE other == [y \in Objs |-> IF y = x THEN 0 ELSE Stores(y, o)]
  <2>10. other \in [Objs -> Nat] /\ other[z] = Stores(z, o) /\ other[x] = 0
         /\ \A y \in Objs : y # x => other[y] = g[y]
    BY <1>2, <2>2
  <2> HIDE DEF f, g, ff, gg, mid, other
  <2>11. /\ Total(f) \in Nat /\ Total(ff) \in Nat /\ Total(f) >= f[th]
         /\ Total(ff) = Total(f) - f[th] + ff[th]
    BY <2>1, <2>3, <2>5, TotalUpdate, ThreadsAssumption
  <2>12. /\ Total(g) \in Nat /\ Total(mid) \in Nat
         /\ Total(mid) = Total(g) - g[x] + mid[x]
    BY <2>1, <2>3, <2>6, TotalUpdate, ObjsAssumption
  <2>13. Total(gg) \in Nat /\ Total(gg) = Total(mid) - mid[z] + gg[z]
    BY <2>3, <2>7, TotalUpdate, ObjsAssumption
  <2>14. /\ Total(other) \in Nat
         /\ Total(other) = Total(g) - g[x] + other[x]
    BY <2>1, <2>10, TotalUpdate, ObjsAssumption
  <2>15. Total(other) >= other[z]
    BY <2>10, TotalUpdate, ObjsAssumption
  <2>16. /\ f[th] \in Nat /\ ff[th] \in Nat /\ g[x] \in Nat /\ mid[x] \in Nat
         /\ mid[z] \in Nat /\ gg[z] \in Nat /\ other[z] \in Nat
    BY <2>1, <2>3, <2>10
  <2>17. References(o) >= Holds(th, o) + (Stores(x, o) + Stores(z, o))
    BY <2>1, <2>8, <2>10, <2>11, <2>12, <2>14, <2>15, <2>16
  <2>18. References(o)' = References(o) - Holds(th, o) + Holds(th, o)'
                          - (Stores(x, o) + Stores(z, o)) + (Stores(x, o)' + Stores(z, o)')
    BY <2>1, <2>4, <2>8, <2>11, <2>12, <2>13, <2>16
  <2> QED BY <2>1, <2>4, <2>8, <2>9, <2>11, <2>12, <2>13, <2>16, <2>17, <2>18
<1> QED BY <1>1, <1>2

(* Thread th moves references between its variables and the fields of x    *)
(* and z; one reference to each of v and w is made and counted.            *)
Shifts(th, x, z, v, w) ==
    /\ kind[x] \notin {"free", "task"} /\ kind[z] \notin {"free", "task"}
    /\ rc' = IncAll(rc, v, w)
    /\ own' \in [Threads -> [Objs -> Nat]]
    /\ pend' \in [Threads -> Objs \union {Null}]
    /\ fld' \in [Objs -> Pointers \X Pointers]
    /\ \A t \in Threads : t # th =>
        /\ own'[t] = own[t] /\ pend'[t] = pend[t]
        /\ tclo'[t] = tclo[t] /\ targ'[t] = targ[t] /\ tres'[t] = tres[t]
    /\ \A y \in Objs : y \notin {x, z} => fld'[y] = fld[y]
    /\ \A o \in Objs : Holds(th, o)' + StoresBoth(x, z, o)' + LocalsOf(th, o)'
                       = Holds(th, o) + StoresBoth(x, z, o) + LocalsOf(th, o) + Times(o, v, w)
    /\ pend'[th] # Null => todo[th] = {}
    /\ UNCHANGED <<kind, mem, todo, task>>

LEMMA ShiftBalance ==
    ASSUME NEW h0 \in Nat, NEW h1 \in Nat, NEW s0 \in Nat, NEW s1 \in Nat, NEW l0 \in Nat,
           NEW l1 \in Nat, NEW x \in Nat, NEW y \in Nat, NEW i \in Nat, NEW r0 \in Nat,
           NEW r1 \in Nat, h1 + s1 + l1 = h0 + s0 + l0 + i, y + l0 = x + l1,
           r1 = r0 - h0 + h1 - s0 + s1
    PROVE  r1 + y = r0 + x + i
OBVIOUS

(* One reference to each of v and w is made and counted.                   *)
LEMMA CountsGrow ==
    ASSUME NEW X \in [Objs -> Nat], NEW Y \in [Objs -> Nat], HeapInv(X), HeapTypes',
           NEW v, NEW w, UNCHANGED <<kind, mem, todo>>,
           \A o \in Objs :
               /\ rc'[o] = IF IsHeapObj(o) THEN rc[o] + Times(o, v, w) ELSE rc[o]
               /\ References(o)' + Y[o] = References(o) + X[o] + Times(o, v, w)
               /\ Dead(o) => Times(o, v, w) = 0
    PROVE  (\A o \in Objs : Counted(Y, o)') /\ TodoInv'
<1> DEFINE T == [o \in Objs |-> Times(o, v, w)]
<1>1. T \in [Objs -> Nat] /\ \A o \in Objs : T[o] = Times(o, v, w)
  BY TimesType
<1> HIDE DEF T
<1>2. PICK N \in SUBSET Objs : N = {}
  OBVIOUS
<1>3. ASSUME NEW o \in Objs \ N
      PROVE  /\ kind'[o] = kind[o]
             /\ IsHeapObj(o)' => IsHeapObj(o)
             /\ rc'[o] = IF IsHeapObj(o) THEN rc[o] + T[o] ELSE rc[o]
             /\ References(o)' + Y[o] = References(o) + X[o] + T[o]
             /\ Dead(o) => T[o] = 0 /\ mem'[o] = mem[o]
  BY <1>1 DEF IsHeapObj
<1>4. \A o \in N : /\ kind[o] = "free" /\ kind'[o] # "free" /\ rc'[o] = 1
                   /\ References(o)' + Y[o] = 1
  BY <1>2
<1> QED BY <1>1, <1>3, <1>4, GrowStep

LEMMA ShiftStep ==
    ASSUME HeapInv(Locals), NEW th \in Threads, NEW x \in Objs, NEW z \in Objs,
           NEW v \in Pointers, NEW w \in Pointers,
           v \in Objs => ~ Dead(v), w \in Objs => ~ Dead(w), Shifts(th, x, z, v, w)
    PROVE  HeapInv(Locals)'
<1> USE DEF Shifts
<1>1. HeapTypes
  BY DEF HeapInv
<1>2. /\ IncAll(rc, v, w) \in [Objs -> Nat]
      /\ \A o \in Objs : rc'[o] = IF IsHeapObj(o) THEN rc[o] + Times(o, v, w) ELSE rc[o]
  BY <1>1, CountTypes
<1>3. HeapTypes'
  BY <1>1, <1>2 DEF HeapTypes
<1>4. PICK X \in [Objs -> Nat] : X = Locals
  BY LocalsAreNat
<1>5. PICK Y \in [Objs -> Nat] : Y = Locals'
  BY LocalsAreNatNext
<1>6. HeapInv(X)
  BY <1>4
<1>7. ASSUME NEW o \in Objs
      PROVE  /\ References(o)' + Y[o] = References(o) + X[o] + Times(o, v, w)
             /\ Dead(o) => Times(o, v, w) = 0
  <2>1. /\ References(o) \in Nat /\ References(o)' \in Nat
        /\ Holds(th, o) \in Nat /\ Holds(th, o)' \in Nat
        /\ StoresBoth(x, z, o) \in Nat /\ StoresBoth(x, z, o)' \in Nat
        /\ References(o)' = References(o) - Holds(th, o) + Holds(th, o)'
                            - StoresBoth(x, z, o) + StoresBoth(x, z, o)'
    BY <1>1, <1>3, ReferencesUpdateBoth
  <2>2. /\ LocalsOf(th, o) \in Nat /\ LocalsOf(th, o)' \in Nat
        /\ Y[o] + LocalsOf(th, o) = X[o] + LocalsOf(th, o)'
    BY <1>4, <1>5, LocalsUpdate
  <2>3. Holds(th, o)' + StoresBoth(x, z, o)' + LocalsOf(th, o)'
        = Holds(th, o) + StoresBoth(x, z, o) + LocalsOf(th, o) + Times(o, v, w)
    OBVIOUS
  <2>4. X[o] \in Nat /\ Y[o] \in Nat /\ Times(o, v, w) \in Nat
    BY TimesType
  <2>5. Dead(o) => Times(o, v, w) = 0
    BY TimesValue
  <2> HIDE DEF Shifts
  <2>6. References(o)' + Y[o] = References(o) + X[o] + Times(o, v, w)
    BY <2>1, <2>2, <2>3, <2>4, ShiftBalance
  <2> QED BY <2>5, <2>6
<1>8. (\A o \in Objs : Counted(Y, o)') /\ TodoInv'
  <2>1. UNCHANGED <<kind, mem, todo>>
    OBVIOUS
  <2> HIDE DEF Shifts
  <2> QED BY <1>2, <1>3, <1>6, <1>7, <2>1, CountsGrow
<1>9. FreeInv'
  BY DEF HeapInv, FreeInv
<1>10. TaskInv'
  <2>1. ASSUME NEW u \in Threads, task'[u] # Null
        PROVE  kind'[task'[u]] = "task" /\ fld'[task'[u]] = <<Null, Null>>
    <3>1. /\ task'[u] = task[u] /\ task[u] \in Objs /\ task[u] \notin {x, z}
          /\ kind[task[u]] = "task" /\ fld[task[u]] = <<Null, Null>>
      BY <1>1, <2>1 DEF HeapInv, TaskInv, HeapTypes
    <3> QED BY <3>1
  <2>2. \A o \in Objs : kind'[o] = "task" => mem'[o] = "mt"
    BY DEF HeapInv, TaskInv
  <2>3. \A u, t \in Threads : task'[u] = task'[t] /\ task'[u] # Null => u = t
    BY DEF HeapInv, TaskInv
  <2> HIDE DEF Shifts
  <2> QED BY <2>1, <2>2, <2>3 DEF TaskInv
<1>11. PendInv'
  BY DEF HeapInv, PendInv
<1>12. HeapInv(Y)'
  BY <1>3, <1>8, <1>9, <1>10, <1>11 DEF HeapInv
<1> QED BY <1>5, <1>12, HeapInvLocals

----------------------------------------------------------------------------
(* What the invariant says of thunks is kept.                              *)

LEMMA InvFacts ==
    ASSUME ThunkInv
    PROVE  /\ HeapTypes /\ ThunkTypes /\ HeapInv(Locals) /\ Locals \in [Objs -> Nat]
           /\ \A th \in Threads : Control(th) /\ Evaluator(th)
           /\ \A o \in Objs : ThunkState(o) /\ Argument(o)
BY LocalsAreNat DEF ThunkInv, ControlInv, StateInv, HeapInv

LEMMA HeldLives ==
    ASSUME ThunkInv, NEW o \in Objs
    PROVE  /\ \A th \in Threads : own[th][o] > 0 => ~ Dead(o)
           /\ \A x \in Objs : fld[x][1] = o \/ fld[x][2] = o => ~ Dead(o)
<1>1. HeapInv(Locals) /\ Locals \in [Objs -> Nat]
  BY InvFacts
<1>2. PICK X \in [Objs -> Nat] : X = Locals
  BY <1>1
<1>3. HeapInv(X)
  BY <1>1, <1>2
<1> QED BY <1>3, HeldAlive

LEMMA LocalLives ==
    ASSUME ThunkInv, NEW o \in Objs, NEW th \in Threads, o \in {tclo[th], targ[th], tres[th]}
    PROVE  ~ Dead(o)
<1>1. HeapInv(Locals) /\ Locals[o] \in Nat /\ HeapTypes
  BY InvFacts
<1>2. PICK f : f = [t \in Threads |-> LocalsOf(t, o)]
  OBVIOUS
<1>3. /\ LocalsOf(th, o) \in Nat /\ f[th] = LocalsOf(th, o)
      /\ f \in [Threads -> Nat] /\ Locals[o] = Total(f)
  BY <1>2, LocalsType
<1>4. Total(f) >= f[th]
  BY <1>3, TotalUpdate, ThreadsAssumption
<1>5. LocalsOf(th, o) > 0
  <2>1. Times(o, tclo[th], targ[th]) \in Nat /\ Times(o, tres[th], Null) \in Nat
    BY TimesType
  <2>2. Times(o, tclo[th], targ[th]) > 0 \/ Times(o, tres[th], Null) > 0
    BY TimesValue
  <2> QED BY <2>1, <2>2 DEF LocalsOf
<1>6. References(o) \in Nat
  BY <1>1, ReferencesNat
<1>7. References(o) + Locals[o] > 0
  BY <1>1, <1>3, <1>4, <1>5, <1>6
<1> QED BY <1>1, <1>7 DEF HeapInv, Counted

(* An operation of the heap by th; the objects in N are new.               *)
KeepsThunks(th, N) ==
    /\ UNCHANGED thunkVars
    /\ \A o \in Objs \ N : kind'[o] \in {"thunk", "data", "mapfn", "bindfn"} =>
            kind'[o] = kind[o] /\ fld'[o] = fld[o]
    /\ \A o \in Objs : ~ Dead(o) /\ kind[o] \in {"thunk", "data", "bindfn"} =>
            kind'[o] = kind[o] /\ fld'[o] = fld[o]
    /\ \A u \in Threads, o \in Objs :
            /\ own[u][o] > 0
            /\ u # th \/ (tpc[th] # "none" /\ tcur[th] = o)
            => own'[u][o] > 0
    /\ \A o \in Objs \ N : Unheld(o) => Unheld(o)'
    /\ \A o \in N : kind[o] = "free"

LEMMA KeptControl ==
    ASSUME ThunkInv, NEW th \in Threads, NEW N \in SUBSET Objs, KeepsThunks(th, N)
    PROVE  ControlInv'
<1>1. ThunkTypes /\ UNCHANGED <<tpc, tcur, tclo, targ, tres>>
  BY InvFacts DEF KeepsThunks, thunkVars
<1>2. ThunkTypes'
  BY <1>1 DEF ThunkTypes
<1>3. ASSUME NEW u \in Threads PROVE Control(u)'
  <2>1. Control(u)
    BY InvFacts
  <2>2. tpc[u] # "none" => Forces(u)'
    <3> SUFFICES ASSUME tpc[u] # "none" PROVE Forces(u)'
      OBVIOUS
    <3>1. tcur[u] \in Objs /\ kind[tcur[u]] = "thunk" /\ own[u][tcur[u]] > 0
      BY <2>1 DEF Control, Forces
    <3>2. ~ Dead(tcur[u])
      BY <3>1, HeldLives
    <3>3. kind'[tcur[u]] = "thunk" /\ own'[u][tcur[u]] > 0
      BY <3>1, <3>2 DEF KeepsThunks
    <3> QED BY <1>1, <3>1, <3>3 DEF Forces
  <2>3. tpc[u] = "eval" => kind'[tclo[u]] = kind[tclo[u]]
    <3> SUFFICES ASSUME tpc[u] = "eval" PROVE kind'[tclo[u]] = kind[tclo[u]]
      OBVIOUS
    <3>1. tclo[u] \in Objs /\ kind[tclo[u]] \in {"data", "bindfn"}
      BY <1>1, <2>1 DEF Control, ThunkTypes
    <3>2. ~ Dead(tclo[u])
      BY <3>1, LocalLives
    <3> QED BY <3>1, <3>2 DEF KeepsThunks
  <2> QED BY <1>1, <2>1, <2>2, <2>3 DEF Control
<1> QED BY <1>2, <1>3 DEF ControlInv

LEMMA KeptState ==
    ASSUME ThunkInv, NEW th \in Threads, NEW N \in SUBSET Objs, KeepsThunks(th, N),
           \A o \in N : ThunkState(o)' /\ Argument(o)'
    PROVE  StateInv'
<1>1. /\ ThunkTypes /\ UNCHANGED <<tpc, tcur, tclo, targ, tres>>
      /\ \A u \in Threads : Applies(u)' <=> Applies(u)
  BY InvFacts DEF KeepsThunks, thunkVars, Applies
<1>2. ASSUME NEW t \in Objs, t \notin N PROVE ThunkState(t)'
  <2> SUFFICES ASSUME kind'[t] = "thunk"
               PROVE  /\ fld'[t][2] # Null => /\ fld'[t][2] \in Objs /\ fld'[t][1] = Null
                                              /\ kind'[fld'[t][2]] \in {"data", "bindfn"}
                      /\ fld'[t] = <<Null, Null>> =>
                            \E u \in Threads : Applies(u)' /\ tcur'[u] = t
    BY DEF ThunkState
  <2>1. kind[t] = "thunk" /\ fld'[t] = fld[t]
    BY <1>2 DEF KeepsThunks
  <2>2. ThunkState(t)
    BY InvFacts
  <2>3. ASSUME fld[t][2] # Null
        PROVE  fld[t][2] \in Objs /\ fld[t][1] = Null /\ kind'[fld[t][2]] \in {"data", "bindfn"}
    <3>1. fld[t][2] \in Objs /\ fld[t][1] = Null /\ kind[fld[t][2]] \in {"data", "bindfn"}
      BY <2>1, <2>2, <2>3 DEF ThunkState
    <3>2. ~ Dead(fld[t][2])
      BY <3>1, HeldLives
    <3> QED BY <3>1, <3>2 DEF KeepsThunks
  <2>4. fld[t] = <<Null, Null>> => \E u \in Threads : Applies(u) /\ tcur[u] = t
    BY <2>1, <2>2 DEF ThunkState
  <2> QED BY <1>1, <2>1, <2>3, <2>4
<1>3. ASSUME NEW c \in Objs, c \notin N PROVE Argument(c)'
  <2>1. Argument(c)
    BY InvFacts
  <2>2. kind'[c] # "mapfn"
    BY <1>3, <2>1 DEF KeepsThunks, Argument
  <2>3. ASSUME kind'[c] = "bindfn"
        PROVE  /\ fld'[c][2] = Null
               /\ fld'[c][1] \in Objs \/ (Unheld(c)' /\ \A u \in Threads : tres'[u] # c)
    <3>1. kind[c] = "bindfn" /\ fld'[c] = fld[c] /\ (Unheld(c) => Unheld(c)')
      BY <1>3, <2>3 DEF KeepsThunks
    <3> QED BY <1>1, <2>1, <3>1 DEF Argument
  <2> QED BY <2>2, <2>3 DEF Argument
<1>4. ASSUME NEW u \in Threads PROVE Evaluator(u)'
  <2>1. Evaluator(u) /\ Control(u)
    BY InvFacts
  <2>2. tpc[u] # "none" => fld'[tcur[u]] = fld[tcur[u]]
    <3> SUFFICES ASSUME tpc[u] # "none" PROVE fld'[tcur[u]] = fld[tcur[u]]
      OBVIOUS
    <3>1. tcur[u] \in Objs /\ kind[tcur[u]] = "thunk" /\ own[u][tcur[u]] > 0
      BY <2>1 DEF Control, Forces
    <3>2. ~ Dead(tcur[u])
      BY <3>1, HeldLives
    <3> QED BY <3>1, <3>2 DEF KeepsThunks
  <2>3. Applies(u) => tpc[u] # "none"
    BY DEF Applies
  <2> QED BY <1>1, <2>1, <2>2, <2>3 DEF Evaluator
<1> QED BY <1>2, <1>3, <1>4 DEF StateInv

(* A step of thread th inside thunk_get_core.                              *)
StepsAlone(th) ==
    /\ kind' = kind /\ ThunkTypes'
    /\ \A u \in Threads : u # th =>
        /\ own'[u] = own[u] /\ tpc'[u] = tpc[u] /\ tcur'[u] = tcur[u]
        /\ tclo'[u] = tclo[u] /\ targ'[u] = targ[u] /\ tres'[u] = tres[u]

LEMMA AloneControl ==
    ASSUME ThunkInv, NEW th \in Threads, StepsAlone(th), Control(th)'
    PROVE  ControlInv'
<1>1. ASSUME NEW u \in Threads, u # th PROVE Control(u)'
  <2>1. Control(u)
    BY InvFacts
  <2>2. /\ own'[u] = own[u] /\ tpc'[u] = tpc[u] /\ tcur'[u] = tcur[u] /\ kind' = kind
        /\ tclo'[u] = tclo[u] /\ targ'[u] = targ[u] /\ tres'[u] = tres[u]
    BY <1>1 DEF StepsAlone
  <2> QED BY <2>1, <2>2 DEF Control, Forces
<1> QED BY <1>1 DEF StepsAlone, ControlInv

(* A step that changes no field, and does not make th an evaluator or end  *)
(* its evaluation.                                                         *)
LEMMA AloneState ==
    ASSUME ThunkInv, NEW th \in Threads, StepsAlone(th), fld' = fld,
           Applies(th)' <=> Applies(th), Applies(th) => tcur'[th] = tcur[th],
           tpc'[th] = "wait" => fld[tcur'[th]][2] = Null,
           \A o \in Objs : /\ kind[o] = "bindfn" /\ Unheld(o)
                           /\ \A u \in Threads : tres[u] # o
                           => Unheld(o)' /\ tres'[th] # o
    PROVE  StateInv'
<1>1. /\ kind' = kind
      /\ \A u \in Threads : u # th => tpc'[u] = tpc[u] /\ tcur'[u] = tcur[u] /\ tres'[u] = tres[u]
  BY DEF StepsAlone
<1>2. \A u \in Threads : /\ Applies(u)' <=> Applies(u)
                         /\ Applies(u) => tcur'[u] = tcur[u]
  BY <1>1 DEF Applies
<1>3. ASSUME NEW t \in Objs PROVE ThunkState(t)'
  <2>1. ThunkState(t)
    BY InvFacts
  <2>2. ThunkState(t)' <=>
        (kind[t] = "thunk" =>
            /\ fld[t][2] # Null => /\ fld[t][2] \in Objs /\ fld[t][1] = Null
                                   /\ kind[fld[t][2]] \in {"data", "bindfn"}
            /\ fld[t] = <<Null, Null>> => \E u \in Threads : Applies(u)' /\ tcur'[u] = t)
    BY <1>1 DEF ThunkState
  <2> QED BY <1>2, <2>1, <2>2 DEF ThunkState
<1>4. ASSUME NEW c \in Objs PROVE Argument(c)'
  <2>1. Argument(c)
    BY InvFacts
  <2>2. (\A u \in Threads : tres[u] # c) /\ tres'[th] # c => \A u \in Threads : tres'[u] # c
    BY <1>1
  <2> QED BY <1>1, <2>1, <2>2 DEF Argument
<1>5. ASSUME NEW u \in Threads PROVE Evaluator(u)'
  <2>1. Evaluator(u)
    BY InvFacts
  <2>2. /\ Applies(u)' => /\ fld'[tcur'[u]] = <<Null, Null>>
                          /\ \A t \in Threads : Applies(t)' /\ tcur'[t] = tcur'[u] => t = u
    BY <1>2, <2>1 DEF Evaluator
  <2>3. tpc'[u] = "wait" => fld'[tcur'[u]][2] = Null
    BY <1>1, <2>1 DEF Evaluator
  <2> QED BY <2>2, <2>3 DEF Evaluator
<1> QED BY <1>3, <1>4, <1>5 DEF StateInv

----------------------------------------------------------------------------
(* The operations of the heap.                                             *)

LEMMA QuietKeeps ==
    ASSUME ThunkInv, NEW th \in Threads, UNCHANGED thunkVars, UNCHANGED <<kind, fld>>,
           \A u \in Threads, o \in Objs :
               /\ own[u][o] > 0 /\ (u # th \/ (tpc[th] # "none" /\ tcur[th] = o)) => own'[u][o] > 0
               /\ own[u][o] = 0 => own'[u][o] = 0
    PROVE  KeepsThunks(th, {})
BY DEF KeepsThunks, Unheld

LEMMA DecKeeps ==
    ASSUME ThunkInv, NEW th \in Threads, NEW o \in Objs, Spare(th, o), Dec(th, o),
           UNCHANGED thunkVars
    PROVE  KeepsThunks(th, {})
<1>1. /\ own' = [own EXCEPT ![th] = Lose(own[th], o, Null)] /\ UNCHANGED <<kind, fld>>
      /\ HeapTypes /\ own[th][o] > 0
  BY InvFacts DEF Dec, SetOwn
<1>2. ASSUME NEW u \in Threads, NEW x \in Objs
      PROVE  /\ own[u][x] > 0 /\ (u # th \/ (tpc[th] # "none" /\ tcur[th] = x)) => own'[u][x] > 0
             /\ own[u][x] = 0 => own'[u][x] = 0
  <2>1. CASE u # th
    BY <1>1, <2>1 DEF HeapTypes
  <2>2. CASE u = th
    <3>1. own'[u][x] = own[u][x] - Times(x, o, Null) /\ own[u][x] \in Nat
      BY <1>1, <2>2, CountTypes DEF HeapTypes
    <3>2. Times(x, o, Null) = IF x = o THEN 1 ELSE 0
      BY TimesValue, NullIsNoObj
    <3>3. x = o /\ tcur[th] = x => own[u][x] > 1
      BY <2>2 DEF Spare
    <3> QED BY <1>1, <2>2, <3>1, <3>2, <3>3
  <2> QED BY <2>1, <2>2
<1> QED BY <1>1, <1>2, QuietKeeps

LEMMA IncKeeps ==
    ASSUME ThunkInv, NEW th \in Threads, NEW o \in Objs, Inc(th, o), UNCHANGED thunkVars
    PROVE  KeepsThunks(th, {})
<1>1. /\ own' = [own EXCEPT ![th] = Gain(own[th], o)] /\ UNCHANGED <<kind, fld>>
      /\ HeapTypes /\ own[th][o] > 0
  BY InvFacts DEF Inc, SetOwn
<1>2. ASSUME NEW u \in Threads, NEW x \in Objs
      PROVE  (own[u][x] > 0 => own'[u][x] > 0) /\ (own[u][x] = 0 => own'[u][x] = 0)
  <2>1. CASE u # th
    BY <1>1, <2>1 DEF HeapTypes
  <2>2. CASE u = th
    <3>1. own'[u][x] = own[u][x] + Times(x, o, Null) /\ own[u][x] \in Nat
      BY <1>1, <2>2, CountTypes DEF HeapTypes
    <3>2. Times(x, o, Null) = IF x = o THEN 1 ELSE 0
      BY TimesValue, NullIsNoObj
    <3> QED BY <1>1, <2>2, <3>1, <3>2
  <2> QED BY <2>1, <2>2
<1> QED BY <1>1, <1>2, QuietKeeps

LEMMA DelCoreKeepsThunks ==
    ASSUME ThunkInv, NEW th \in Threads, NEW o \in Objs, DelCore(th, o), UNCHANGED thunkVars
    PROVE  KeepsThunks(th, {})
<1>1. own' = own /\ Dead(o) /\ HeapTypes
  BY InvFacts DEF DelCore, Dead
<1>2. \/ UNCHANGED <<kind, fld>>
      \/ kind' = [kind EXCEPT ![o] = "free"] /\ fld' = [fld EXCEPT ![o] = <<Null, Null>>]
  BY DEF DelCore, objVars
<1>3. CASE UNCHANGED <<kind, fld>>
  BY <1>1, <1>3, QuietKeeps
<1>4. CASE kind' = [kind EXCEPT ![o] = "free"] /\ fld' = [fld EXCEPT ![o] = <<Null, Null>>]
  <2>1. \A x \in Objs : x # o => kind'[x] = kind[x] /\ fld'[x] = fld[x]
    BY <1>1, <1>4 DEF HeapTypes
  <2>2. kind'[o] = "free" /\ fld'[o] = <<Null, Null>>
    BY <1>1, <1>4 DEF HeapTypes
  <2>3. ASSUME NEW x \in Objs, Unheld(x) PROVE Unheld(x)'
    <3>1. \A y \in Objs : fld'[y][1] # x /\ fld'[y][2] # x
      BY <2>1, <2>2, <2>3, NullIsNoObj DEF Unheld
    <3> QED BY <1>1, <2>3, <3>1 DEF Unheld
  <2> QED BY <1>1, <2>1, <2>2, <2>3 DEF KeepsThunks
<1> QED BY <1>2, <1>3, <1>4

(* A new object n that th owns; its fields were references of th.          *)
LEMMA MakeKeepsThunks ==
    ASSUME ThunkInv, NEW th \in Threads, NEW n \in Objs, NEW a, NEW b,
           kind[n] = "free", Owns(th, a, b),
           tpc[th] = "none" \/ (a \notin Objs /\ b \notin Objs),
           \A o \in Objs : o # n => kind'[o] = kind[o],
           fld' = [fld EXCEPT ![n] = <<a, b>>],
           own' = [own EXCEPT ![th] = Gain(Lose(own[th], a, b), n)],
           UNCHANGED thunkVars
    PROVE  KeepsThunks(th, {n})
<1>1. HeapTypes /\ Dead(n)
  BY InvFacts DEF Dead
<1>2. /\ \A o \in Objs : o # n => fld'[o] = fld[o]
      /\ fld'[n] = <<a, b>>
  BY <1>1 DEF HeapTypes
<1>3. ASSUME NEW x \in Objs
      PROVE  /\ Lose(own[th], a, b) \in [Objs -> Nat]
             /\ Lose(own[th], a, b)[x] = own[th][x] - Times(x, a, b)
             /\ own[th][x] >= Times(x, a, b)
             /\ own'[th][x] = own[th][x] - Times(x, a, b) + Times(x, n, Null)
             /\ own[th][x] \in Nat /\ Times(x, a, b) \in Nat
             /\ Times(x, n, Null) = IF x = n THEN 1 ELSE 0
             /\ Times(x, a, b) = (IF a = x THEN 1 ELSE 0) + (IF b = x THEN 1 ELSE 0)
  BY <1>1, CountTypes, TimesValue, TimesType, NullIsNoObj DEF HeapTypes, Gain, Owns
<1>4. \A u \in Threads : u # th => own'[u] = own[u]
  BY <1>1 DEF HeapTypes
<1>5. ASSUME NEW u \in Threads, NEW x \in Objs, own[u][x] > 0,
             u # th \/ (tpc[th] # "none" /\ tcur[th] = x)
      PROVE  own'[u][x] > 0
  <2>1. CASE u # th
    BY <1>4, <1>5, <2>1
  <2>2. CASE u = th
    <3>1. Times(x, a, b) = 0
      BY <1>3, <1>5, <2>2
    <3> QED BY <1>3, <1>5, <2>2, <3>1
  <2> QED BY <2>1, <2>2
<1>6. ASSUME NEW x \in Objs, x # n, Unheld(x) PROVE Unheld(x)'
  <2>1. own[th][x] = 0
    BY <1>6 DEF Unheld
  <2>2. a # x /\ b # x /\ Times(x, a, b) = 0
    <3>1. Times(x, a, b) = 0
      BY <1>3, <2>1
    <3>2. Times(x, a, b) = (IF a = x THEN 1 ELSE 0) + (IF b = x THEN 1 ELSE 0)
      BY <1>3
    <3> QED BY <3>1, <3>2
  <2>3. own'[th][x] = 0
    BY <1>3, <1>6, <2>1, <2>2
  <2>4. \A y \in Objs : fld'[y][1] # x /\ fld'[y][2] # x
    BY <1>2, <1>6, <2>2 DEF Unheld
  <2> QED BY <1>4, <1>6, <2>3, <2>4 DEF Unheld
<1>7. \A o \in Objs \ {n} : kind'[o] = kind[o] /\ fld'[o] = fld[o]
  BY <1>2
<1> QED BY <1>1, <1>5, <1>6, <1>7 DEF KeepsThunks

LEMMA AllocKeepsThunks ==
    ASSUME ThunkInv, NEW th \in Threads, NEW n \in Objs, NEW a \in Values, Alloc(th, n, a, Box),
           tpc[th] = "none" \/ a = Box, UNCHANGED thunkVars
    PROVE  KeepsThunks(th, {n}) /\ ThunkState(n)' /\ Argument(n)'
<1>1. /\ kind[n] = "free" /\ Owns(th, a, Box) /\ kind' = [kind EXCEPT ![n] = "data"]
      /\ fld' = [fld EXCEPT ![n] = <<a, Box>>]
      /\ own' = [own EXCEPT ![th] = Gain(Lose(own[th], a, Box), n)] /\ HeapTypes
  BY InvFacts DEF Alloc, SetOwn
<1>2. kind'[n] = "data" /\ \A o \in Objs : o # n => kind'[o] = kind[o]
  BY <1>1 DEF HeapTypes
<1>3. Box \notin Objs
  BY ObjsAssumption
<1>4. KeepsThunks(th, {n})
  BY <1>1, <1>2, <1>3, MakeKeepsThunks
<1> QED BY <1>2, <1>4 DEF ThunkState, Argument

LEMMA MkTaskKeepsThunks ==
    ASSUME ThunkInv, NEW th \in Threads, NEW w \in Threads, NEW n \in Objs, NEW c \in Objs,
           MkTask(th, w, n, c), tpc[th] = "none", UNCHANGED thunkVars
    PROVE  KeepsThunks(th, {n}) /\ ThunkState(n)' /\ Argument(n)'
<1>1. /\ kind[n] = "free" /\ own[th][c] > 0 /\ kind' = [kind EXCEPT ![n] = "task"] /\ fld' = fld
      /\ own' = [own EXCEPT ![th] = Gain(Lose(own[th], c, Null), n), ![w] = Gain(own[w], c)]
      /\ HeapTypes /\ Dead(n)
  BY InvFacts DEF MkTask, Dead
<1>2. kind'[n] = "task" /\ \A o \in Objs : o # n => kind'[o] = kind[o]
  BY <1>1 DEF HeapTypes
<1>3. ASSUME NEW u \in Threads, NEW x \in Objs
      PROVE  /\ own[u][x] > 0 /\ u # th => own'[u][x] > 0
             /\ own[u][x] = 0 /\ own[th][x] = 0 /\ x # n => own'[u][x] = 0
  <2>1. Times(x, c, Null) = (IF x = c THEN 1 ELSE 0) /\ Times(x, n, Null) = (IF x = n THEN 1 ELSE 0)
    BY TimesValue, NullIsNoObj
  <2>2. own[u][x] \in Nat /\ own[th][x] \in Nat
    BY <1>1 DEF HeapTypes
  <2>3. CASE u = w
    <3>1. own'[u][x] = own[u][x] + Times(x, c, Null)
      BY <1>1, <2>3 DEF HeapTypes, Gain
    <3> QED BY <1>1, <2>1, <2>2, <3>1
  <2>4. CASE u # w /\ u = th
    <3>1. own'[u][x] = own[u][x] - Times(x, c, Null) + Times(x, n, Null)
      BY <1>1, <2>4 DEF HeapTypes, Gain, Lose
    <3>2. own[th][x] = 0 => x # c
      BY <1>1
    <3> QED BY <2>1, <2>2, <2>4, <3>1, <3>2
  <2>5. CASE u # w /\ u # th
    BY <1>1, <2>5 DEF HeapTypes
  <2> QED BY <2>3, <2>4, <2>5
<1>4. ASSUME NEW x \in Objs \ {n}, Unheld(x) PROVE Unheld(x)'
  BY <1>1, <1>3, <1>4 DEF Unheld
<1>5. \A o \in Objs : kind'[o] \in {"thunk", "data", "mapfn", "bindfn"} => kind'[o] = kind[o]
  BY <1>2
<1>6. KeepsThunks(th, {n})
  BY <1>1, <1>2, <1>3, <1>4, <1>5 DEF KeepsThunks
<1> QED BY <1>2, <1>6 DEF ThunkState, Argument

LEMMA FinishTaskKeepsThunks ==
    ASSUME ThunkInv, NEW th \in Threads, FinishTask(th, Box), tpc[th] = "none",
           UNCHANGED thunkVars
    PROVE  KeepsThunks(th, {})
<1>1. PICK o : o = task[th]
  OBVIOUS
<1>2. /\ o \in Objs /\ kind[o] = "task" /\ HeapTypes
      /\ own' = [own EXCEPT ![th] = [x \in Objs |-> 0]]
      /\ \/ kind' = [kind EXCEPT ![o] = "free"] /\ fld' = fld
         \/ kind' = kind /\ fld' = [fld EXCEPT ![o][1] = Box]
  <2>1. task[th] # Null /\ HeapTypes /\ HeapInv(Locals)
    BY InvFacts DEF FinishTask, Running
  <2>2. o \in Objs /\ kind[o] = "task"
    BY <1>1, <2>1 DEF HeapTypes, HeapInv, TaskInv
  <2> QED BY <1>1, <2>1, <2>2 DEF FinishTask
<1>3. /\ \A x \in Objs : x # o => kind'[x] = kind[x] /\ fld'[x] = fld[x]
      /\ kind'[o] \in {"free", "task"}
      /\ fld'[o][1] \in {fld[o][1], Box} /\ fld'[o][2] = fld[o][2]
  BY <1>2 DEF HeapTypes
<1>4. \A u \in Threads, x \in Objs : own[u][x] = 0 => own'[u][x] = 0
  BY <1>2 DEF HeapTypes
<1>5. \A u \in Threads : u # th => own'[u] = own[u]
  BY <1>2 DEF HeapTypes
<1>6. ASSUME NEW x \in Objs, Unheld(x) PROVE Unheld(x)'
  <2>1. \A y \in Objs : fld'[y][1] # x /\ fld'[y][2] # x
    BY <1>2, <1>3, <1>6, ObjsAssumption DEF Unheld
  <2> QED BY <1>4, <1>6, <2>1 DEF Unheld
<1> QED BY <1>2, <1>3, <1>5, <1>6 DEF KeepsThunks

LEMMA CountsStay ==
    ASSUME NEW X, X = Locals, HeapInv(X)', UNCHANGED <<tclo, targ, tres>>
    PROVE  HeapInv(Locals)'
<1>1. X = Locals'
  BY LocalsStay
<1> QED BY <1>1, HeapInvLocals

LEMMA HeapOpStep ==
    ASSUME ThunkInv, NEW th \in Threads, HeapOp(th)
    PROVE  ThunkInv'
<1>1. UNCHANGED thunkVars /\ UNCHANGED <<tclo, targ, tres>>
  BY DEF HeapOp, thunkVars
<1>2. PICK X \in [Objs -> Nat] : X = Locals
  BY LocalsAreNat
<1>3. HeapInv(X)
  BY <1>2, InvFacts
<1>4. CASE DecPending(th)
  <2>1. HeapInv(X)'
    BY <1>3, <1>4, DecPendingStep
  <2>2. KeepsThunks(th, {})
    <3>1. own' = own /\ UNCHANGED <<kind, fld>>
      BY <1>4 DEF DecPending
    <3> QED BY <1>1, <3>1, QuietKeeps
  <2> QED BY <1>1, <1>2, <2>1, <2>2, CountsStay, KeptControl, KeptState DEF ThunkInv
<1>5. ASSUME NEW o \in Objs, DelCore(th, o) PROVE ThunkInv'
  <2>1. HeapInv(X)'
    BY <1>3, <1>5, DelCoreStep
  <2>2. KeepsThunks(th, {})
    BY <1>1, <1>5, DelCoreKeepsThunks
  <2> QED BY <1>1, <1>2, <2>1, <2>2, CountsStay, KeptControl, KeptState DEF ThunkInv
<1>6. ASSUME NEW o \in Objs, NEW a \in Values, Alloc(th, o, a, Box), tpc[th] = "none" \/ a = Box
      PROVE  ThunkInv'
  <2>1. HeapInv(X)'
    <3>1. /\ Running(th) /\ kind[o] = "free" /\ Owns(th, a, Box)
          /\ kind' = [kind EXCEPT ![o] = "data"] /\ rc' = [rc EXCEPT ![o] = 1]
          /\ fld' = [fld EXCEPT ![o] = <<a, Box>>]
          /\ own' = [own EXCEPT ![th] = Gain(Lose(own[th], a, Box), o)]
          /\ UNCHANGED <<mem, pend, todo, task>>
      BY <1>6 DEF Alloc, SetOwn
    <3>2. "data" \in Kinds \ {"free", "task"} /\ a \in Pointers /\ Box \in Pointers
      BY DEF Kinds, Pointers, Values
    <3> QED BY <1>3, <3>1, <3>2, AllocStep
  <2>2. KeepsThunks(th, {o}) /\ ThunkState(o)' /\ Argument(o)'
    BY <1>1, <1>6, AllocKeepsThunks
  <2> QED BY <1>1, <1>2, <2>1, <2>2, CountsStay, KeptControl, KeptState DEF ThunkInv
<1>7. ASSUME NEW o \in Objs, Spare(th, o), Dec(th, o) PROVE ThunkInv'
  <2>1. HeapInv(X)'
    BY <1>3, <1>7, DecStep
  <2>2. KeepsThunks(th, {})
    BY <1>1, <1>7, DecKeeps
  <2> QED BY <1>1, <1>2, <2>1, <2>2, CountsStay, KeptControl, KeptState DEF ThunkInv
<1>8. ASSUME NEW o \in Objs, Inc(th, o) PROVE ThunkInv'
  <2>1. HeapInv(X)'
    BY <1>3, <1>8, IncStep
  <2>2. KeepsThunks(th, {})
    BY <1>1, <1>8, IncKeeps
  <2> QED BY <1>1, <1>2, <2>1, <2>2, CountsStay, KeptControl, KeptState DEF ThunkInv
<1>9. ASSUME NEW w \in Threads, NEW o \in Objs, NEW c \in Objs, tpc[th] = "none",
             MkTask(th, w, o, c)
      PROVE  ThunkInv'
  <2>1. HeapInv(X)'
    BY <1>3, <1>9, MkTaskStep
  <2>2. KeepsThunks(th, {o}) /\ ThunkState(o)' /\ Argument(o)'
    BY <1>1, <1>9, MkTaskKeepsThunks
  <2> QED BY <1>1, <1>2, <2>1, <2>2, CountsStay, KeptControl, KeptState DEF ThunkInv
<1>10. CASE tpc[th] = "none" /\ FinishTask(th, Box)
  <2>1. HeapInv(X)'
    <3>1. Box \in Values
      BY DEF Values
    <3> QED BY <1>3, <1>10, <3>1, FinishTaskStep
  <2>2. KeepsThunks(th, {})
    BY <1>1, <1>10, FinishTaskKeepsThunks
  <2> QED BY <1>1, <1>2, <2>1, <2>2, CountsStay, KeptControl, KeptState DEF ThunkInv
<1>11. Box \in Values /\ Objs \subseteq Values
  BY DEF Values
<1> QED BY <1>4, <1>5, <1>6, <1>7, <1>8, <1>9, <1>10, <1>11 DEF HeapOp

----------------------------------------------------------------------------
(* New thunks and closures.                                                *)

LEMMA NewObjStep ==
    ASSUME ThunkInv, NEW th \in Threads, NEW o \in Objs, NEW k \in {"thunk", "bindfn"},
           NEW a \in Pointers, NEW b \in Pointers, NewObj(th, o, k, a, b),
           k = "thunk" => \/ a = Null /\ IsClosure(b)
                          \/ a \in Values /\ b = Null,
           k = "bindfn" => a \in Objs /\ b = Null
    PROVE  ThunkInv'
<1>1. /\ Running(th) /\ tpc[th] = "none" /\ kind[o] = "free" /\ Owns(th, a, b)
      /\ kind' = [kind EXCEPT ![o] = k] /\ rc' = [rc EXCEPT ![o] = 1]
      /\ fld' = [fld EXCEPT ![o] = <<a, b>>]
      /\ own' = [own EXCEPT ![th] = Gain(Lose(own[th], a, b), o)]
      /\ UNCHANGED <<mem, pend, todo, task, thunkVars>>
  BY DEF NewObj, SetOwn, Idle
<1>2. PICK X \in [Objs -> Nat] : X = Locals
  BY LocalsAreNat
<1>3. HeapInv(X) /\ HeapTypes
  BY <1>2, InvFacts
<1>4. HeapInv(X)'
  <2>1. k \in Kinds \ {"free", "task"}
    BY DEF Kinds
  <2> QED BY <1>1, <1>3, <2>1, AllocStep
<1>5. /\ kind'[o] = k /\ fld'[o] = <<a, b>>
      /\ \A x \in Objs : x # o => kind'[x] = kind[x]
  BY <1>1, <1>3 DEF HeapTypes
<1>6. KeepsThunks(th, {o})
  BY <1>1, <1>5, MakeKeepsThunks
<1>7. ThunkState(o)'
  <2>1. ASSUME IsClosure(b) PROVE b \in Objs /\ kind'[b] \in {"data", "bindfn"}
    <3>1. b \in Objs /\ kind[b] \in {"data", "bindfn"}
      BY <2>1, InvFacts DEF IsClosure, Argument
    <3> QED BY <1>1, <1>5, <3>1
  <2>2. Null \notin Values
    BY ObjsAssumption DEF Values
  <2> QED BY <1>5, <2>1, <2>2, ObjsAssumption DEF ThunkState
<1>8. Argument(o)'
  BY <1>5 DEF Argument
<1>9. UNCHANGED <<tclo, targ, tres>>
  BY <1>1 DEF thunkVars
<1> QED BY <1>2, <1>4, <1>6, <1>7, <1>8, <1>9, CountsStay, KeptControl, KeptState DEF ThunkInv

LEMMA MkThunkStep ==
    ASSUME ThunkInv, NEW th \in Threads, NEW t \in Objs, NEW c \in Objs, MkThunk(th, t, c)
    PROVE  ThunkInv'
BY NewObjStep DEF MkThunk, Pointers

LEMMA ThunkPureStep ==
    ASSUME ThunkInv, NEW th \in Threads, NEW t \in Objs, NEW v \in Values, ThunkPure(th, t, v)
    PROVE  ThunkInv'
BY NewObjStep DEF ThunkPure, Pointers, Values

LEMMA BindClosureStep ==
    ASSUME ThunkInv, NEW th \in Threads, NEW o \in Objs, NEW x \in Objs, BindClosure(th, o, x)
    PROVE  ThunkInv'
BY NewObjStep DEF BindClosure, Pointers

----------------------------------------------------------------------------
(* The steps of thunk_get_core.                                            *)

(* A thread gets a reference of its own to the value v of a thunk t.       *)
LEMMA GetsValue ==
    ASSUME ThunkInv, NEW th \in Threads, NEW t \in Objs, NEW v, v = fld[t][1],
           rc' = IncAll(rc, v, Null), own' = [own EXCEPT ![th] = Gain(own[th], v)],
           UNCHANGED <<kind, mem, fld, pend, todo, task, tclo, targ, tres>>
    PROVE  /\ HeapInv(Locals)'
           /\ \A o \in Objs : /\ Unheld(o) => Unheld(o)'
                              /\ own[th][o] > 0 => own'[th][o] > 0
           /\ \A u \in Threads : u # th => own'[u] = own[u]
<1>1. PICK X \in [Objs -> Nat] : X = Locals
  BY LocalsAreNat
<1>2. HeapInv(X) /\ HeapTypes
  BY <1>1, InvFacts
<1>3. v \in Pointers /\ (v \in Objs => ~ Dead(v))
  BY <1>2, HeldLives DEF HeapTypes
<1>4. HeapInv(X)'
  BY <1>2, <1>3, GainOne
<1>5. ASSUME NEW o \in Objs
      PROVE  (own[th][o] > 0 => own'[th][o] > 0) /\ (o # v => own'[th][o] = own[th][o])
  <2>1. own'[th][o] = own[th][o] + Times(o, v, Null) /\ own[th][o] \in Nat
    BY <1>2, CountTypes DEF HeapTypes
  <2>2. Times(o, v, Null) = IF o = v THEN 1 ELSE 0
    BY TimesValue, NullIsNoObj
  <2> QED BY <2>1, <2>2
<1>6. \A u \in Threads : u # th => own'[u] = own[u]
  BY <1>2 DEF HeapTypes
<1>7. ASSUME NEW o \in Objs, Unheld(o) PROVE Unheld(o)'
  <2>1. o # v
    BY <1>7 DEF Unheld
  <2> QED BY <1>5, <1>6, <1>7, <2>1 DEF Unheld
<1> QED BY <1>1, <1>4, <1>5, <1>6, <1>7, CountsStay

LEMMA ThunkGetStep ==
    ASSUME ThunkInv, NEW th \in Threads, NEW t \in Objs, ThunkGet(th, t)
    PROVE  ThunkInv'
<1>1. /\ rc' = IncAll(rc, fld[t][1], Null) /\ own' = [own EXCEPT ![th] = Gain(own[th], fld[t][1])]
      /\ UNCHANGED <<kind, mem, fld, pend, todo, task, tpc, tcur, tclo, targ, tres>>
      /\ UNCHANGED thunkVars
  BY DEF ThunkGet, SetOwn, thunkVars
<1>2. /\ HeapInv(Locals)'
      /\ \A o \in Objs : (Unheld(o) => Unheld(o)') /\ (own[th][o] > 0 => own'[th][o] > 0)
      /\ \A u \in Threads : u # th => own'[u] = own[u]
  BY <1>1, GetsValue
<1>3. KeepsThunks(th, {})
  BY <1>1, <1>2 DEF KeepsThunks
<1> QED BY <1>2, <1>3, KeptControl, KeptState DEF ThunkInv

LEMMA ThunkGetCoreStep ==
    ASSUME ThunkInv, NEW th \in Threads, NEW t \in Objs, ThunkGetCore(th, t)
    PROVE  ThunkInv'
<1>1. /\ tpc[th] = "none" /\ kind[t] = "thunk" /\ own[th][t] > 0
      /\ tpc' = [tpc EXCEPT ![th] = "exchange"] /\ tcur' = [tcur EXCEPT ![th] = t]
      /\ UNCHANGED <<kind, mem, rc, fld, own, pend, todo, task, tclo, targ, tres>>
  BY DEF ThunkGetCore, Uses, Idle, vars, objVars, threadVars
<1>2. HeapTypes /\ ThunkTypes /\ Control(th)
  BY InvFacts
<1>3. /\ ThunkTypes' /\ tpc'[th] = "exchange" /\ tcur'[th] = t
      /\ \A u \in Threads : u # th => tpc'[u] = tpc[u] /\ tcur'[u] = tcur[u]
  BY <1>1, <1>2 DEF ThunkTypes
<1>4. StepsAlone(th)
  BY <1>1, <1>3 DEF StepsAlone
<1>5. Control(th)'
  BY <1>1, <1>2, <1>3 DEF Control, Forces
<1>6. ~ Applies(th) /\ ~ Applies(th)'
  BY <1>1, <1>3 DEF Applies
<1>7. \A o \in Objs : Unheld(o) => Unheld(o)'
  BY <1>1 DEF Unheld
<1>8. StateInv'
  BY <1>1, <1>3, <1>4, <1>6, <1>7, AloneState
<1>9. HeapInv(Locals)'
  <2>1. PICK X \in [Objs -> Nat] : X = Locals
    BY LocalsAreNat
  <2>2. HeapInv(X)
    BY <2>1, InvFacts
  <2>3. HeapInv(X)'
    <3>1. \A o \in Objs : References(o)' = References(o) /\ (Dead(o)' <=> Dead(o))
                          /\ (IsHeapObj(o)' <=> IsHeapObj(o))
      BY <1>1 DEF References, Dead, IsHeapObj, Total, Times
    <3>2. \A o \in Objs : Counted(X, o)'
      BY <1>1, <2>2, <3>1 DEF HeapInv, Counted
    <3> QED BY <1>1, <2>2, <3>2 DEF HeapInv, HeapTypes, TodoInv, FreeInv, TaskInv, PendInv,
                                     IsHeapObj
  <2> QED BY <1>1, <2>1, <2>3, CountsStay
<1> QED BY <1>4, <1>5, <1>8, <1>9, AloneControl DEF ThunkInv

LEMMA WaitEndsStep ==
    ASSUME ThunkInv, NEW th \in Threads, WaitEnds(th)
    PROVE  ThunkInv'
<1>1. PICK t : t = tcur[th]
  OBVIOUS
<1>2. /\ tpc[th] = "wait" /\ rc' = IncAll(rc, fld[t][1], Null)
      /\ own' = [own EXCEPT ![th] = Gain(own[th], fld[t][1])]
      /\ tpc' = [tpc EXCEPT ![th] = "none"] /\ tcur' = [tcur EXCEPT ![th] = Null]
      /\ UNCHANGED <<kind, mem, fld, pend, todo, task, tclo, targ, tres>>
  BY <1>1 DEF WaitEnds, SetOwn
<1>3. HeapTypes /\ ThunkTypes /\ Control(th) /\ t \in Objs
  BY <1>1, <1>2, InvFacts DEF Control, Forces
<1>4. /\ HeapInv(Locals)'
      /\ \A o \in Objs : Unheld(o) => Unheld(o)'
      /\ \A u \in Threads : u # th => own'[u] = own[u]
  BY <1>2, <1>3, GetsValue
<1>5. /\ ThunkTypes' /\ tpc'[th] = "none" /\ tcur'[th] = Null
      /\ \A u \in Threads : u # th => tpc'[u] = tpc[u] /\ tcur'[u] = tcur[u]
  BY <1>2, <1>3 DEF ThunkTypes
<1>6. StepsAlone(th)
  BY <1>2, <1>4, <1>5 DEF StepsAlone
<1>7. Control(th)'
  BY <1>2, <1>3, <1>5 DEF Control
<1>8. ~ Applies(th) /\ ~ Applies(th)'
  BY <1>2, <1>5 DEF Applies
<1>9. StateInv'
  BY <1>2, <1>4, <1>5, <1>6, <1>8, AloneState
<1> QED BY <1>4, <1>6, <1>7, <1>9, AloneControl DEF ThunkInv

----------------------------------------------------------------------------
(* The evaluation of a closure.                                            *)

LEMMA LocalsNext ==
    ASSUME NEW th, NEW o
    PROVE  LocalsOf(th, o)' = Times(o, tclo'[th], targ'[th]) + Times(o, tres'[th], Null)
BY DEF LocalsOf, Times

LEMMA LocalSums ==
    ASSUME NEW th, NEW o, NEW t, NEW v, own[th][o] \in Nat, own'[th][o] \in Nat,
           fld' = fld,
           own'[th][o] + Times(o, pend'[th], Null)
           + Times(o, tclo'[th], targ'[th]) + Times(o, tres'[th], Null)
           = own[th][o] + Times(o, pend[th], Null)
             + Times(o, tclo[th], targ[th]) + Times(o, tres[th], Null) + Times(o, v, Null)
    PROVE  Holds(th, o)' + StoresBoth(t, t, o)' + LocalsOf(th, o)'
           = Holds(th, o) + StoresBoth(t, t, o) + LocalsOf(th, o) + Times(o, v, Null)
<1>1. /\ Holds(th, o)' = own'[th][o] + Times(o, pend'[th], Null)
      /\ LocalsOf(th, o)' = Times(o, tclo'[th], targ'[th]) + Times(o, tres'[th], Null)
  BY HoldsNext, LocalsNext
<1>2. /\ Holds(th, o) = own[th][o] + Times(o, pend[th], Null)
      /\ LocalsOf(th, o) = Times(o, tclo[th], targ[th]) + Times(o, tres[th], Null)
  BY DEF Holds, LocalsOf
<1>3. StoresBoth(t, t, o)' = StoresBoth(t, t, o) /\ StoresBoth(t, t, o) \in Nat
  <2>1. StoresBoth(t, t, o)' = Times(o, fld'[t][1], fld'[t][2])
    BY DEF StoresBoth, Stores, Times
  <2>2. StoresBoth(t, t, o) = Times(o, fld[t][1], fld[t][2])
    BY DEF StoresBoth, Stores, Times
  <2> QED BY <2>1, <2>2, TimesType
<1>4. /\ Times(o, pend'[th], Null) \in Nat /\ Times(o, pend[th], Null) \in Nat
      /\ Times(o, tclo'[th], targ'[th]) \in Nat /\ Times(o, tclo[th], targ[th]) \in Nat
      /\ Times(o, tres'[th], Null) \in Nat /\ Times(o, tres[th], Null) \in Nat
      /\ Times(o, v, Null) \in Nat
  BY TimesType
<1> QED BY <1>1, <1>2, <1>3, <1>4

(* The local variables and the references of th change, and no field does. *)
LEMMA LocalShift ==
    ASSUME ThunkInv, NEW th \in Threads, NEW v \in Pointers, v \in Objs => ~ Dead(v),
           rc' = IncAll(rc, v, Null), UNCHANGED <<kind, mem, fld, todo, task>>,
           own' \in [Threads -> [Objs -> Nat]], pend' \in [Threads -> Objs \union {Null}],
           \A u \in Threads : u # th =>
               /\ own'[u] = own[u] /\ pend'[u] = pend[u]
               /\ tclo'[u] = tclo[u] /\ targ'[u] = targ[u] /\ tres'[u] = tres[u],
           pend'[th] # Null => todo[th] = {},
           \A o \in Objs : own'[th][o] + Times(o, pend'[th], Null)
                           + Times(o, tclo'[th], targ'[th]) + Times(o, tres'[th], Null)
                           = own[th][o] + Times(o, pend[th], Null)
                             + Times(o, tclo[th], targ[th]) + Times(o, tres[th], Null)
                             + Times(o, v, Null),
           NEW t \in Objs, kind[t] = "thunk"
    PROVE  HeapInv(Locals)'
<1>1. HeapInv(Locals) /\ HeapTypes
  BY InvFacts
<1>2. fld' \in [Objs -> Pointers \X Pointers]
  BY <1>1 DEF HeapTypes
<1>3. ASSUME NEW o \in Objs
      PROVE  Holds(th, o)' + StoresBoth(t, t, o)' + LocalsOf(th, o)'
             = Holds(th, o) + StoresBoth(t, t, o) + LocalsOf(th, o) + Times(o, v, Null)
  <2>1. own[th][o] \in Nat /\ own'[th][o] \in Nat
    BY <1>1 DEF HeapTypes
  <2> QED BY <2>1, LocalSums
<1>4. Shifts(th, t, t, v, Null)
  <2>1. kind[t] \notin {"free", "task"}
    OBVIOUS
  <2> QED BY <1>2, <1>3, <2>1 DEF Shifts
<1>5. Null \in Pointers /\ Null \notin Objs
  BY ObjsAssumption DEF Pointers
<1> QED BY <1>1, <1>4, <1>5, ShiftStep

LEMMA CodeReturnsStep ==
    ASSUME ThunkInv, NEW th \in Threads, NEW r \in Values, CodeReturns(th, r)
    PROVE  ThunkInv'
<1>1. /\ Running(th) /\ tpc[th] = "eval" /\ kind[tclo[th]] = "data" /\ (r \in Objs => Spare(th, r))
      /\ tres' = [tres EXCEPT ![th] = r] /\ tpc' = [tpc EXCEPT ![th] = "release"]
      /\ own' = [own EXCEPT ![th] = Lose(own[th], r, Null)]
      /\ UNCHANGED <<kind, mem, rc, fld, pend, todo, task, tcur, tclo, targ>>
  BY DEF CodeReturns, Evaluating, Result, SetOwn
<1>2. /\ HeapTypes /\ ThunkTypes /\ Control(th) /\ Forces(th) /\ r \in Pointers /\ r # Null
  BY <1>1, InvFacts, ObjsAssumption DEF Control, Values, Pointers
<1>3. /\ ThunkTypes' /\ tpc'[th] = "release" /\ tres'[th] = r
      /\ \A u \in Threads : u # th => tpc'[u] = tpc[u] /\ tres'[u] = tres[u]
  BY <1>1, <1>2 DEF ThunkTypes
<1>4. ASSUME NEW o \in Objs
      PROVE  /\ own[th][o] \in Nat
             /\ Times(o, r, Null) = IF o = r THEN 1 ELSE 0
             /\ Lose(own[th], r, Null)[o] = own[th][o] - Times(o, r, Null)
             /\ o = r => own[th][o] > 0
             /\ o = r /\ o = tcur[th] => own[th][o] > 1
  <2>1. own[th][o] \in Nat
    BY <1>2 DEF HeapTypes
  <2>2. Times(o, r, Null) = IF o = r THEN 1 ELSE 0
    BY TimesValue, NullIsNoObj
  <2>3. Lose(own[th], r, Null)[o] = own[th][o] - Times(o, r, Null)
    BY DEF Lose
  <2> QED BY <1>1, <2>1, <2>2, <2>3 DEF Spare
<1>5. Lose(own[th], r, Null) \in [Objs -> Nat]
  <2>1. \A o \in Objs : own[th][o] - Times(o, r, Null) \in Nat
    BY <1>4
  <2> QED BY <2>1 DEF Lose
<1>6. /\ own' \in [Threads -> [Objs -> Nat]] /\ own'[th] = Lose(own[th], r, Null)
      /\ \A u \in Threads : u # th => own'[u] = own[u]
  BY <1>1, <1>2, <1>5 DEF HeapTypes
<1>7. tcur[th] \in Objs /\ kind[tcur[th]] = "thunk" /\ own'[th][tcur[th]] > 0
  BY <1>2, <1>4, <1>6 DEF Forces
<1>8. tres[th] = Null /\ targ[th] = Null /\ pend[th] = Null
  BY <1>1, <1>2 DEF Control, Running
<1>9. HeapInv(Locals)'
  <2>1. Null \in Pointers /\ Null \notin Objs /\ rc' = IncAll(rc, Null, Null)
    BY <1>1, <1>2, ObjsAssumption, IncNothing DEF Pointers
  <2>2. ASSUME NEW o \in Objs
        PROVE  own'[th][o] + Times(o, pend'[th], Null)
               + Times(o, tclo'[th], targ'[th]) + Times(o, tres'[th], Null)
               = own[th][o] + Times(o, pend[th], Null)
                 + Times(o, tclo[th], targ[th]) + Times(o, tres[th], Null) + Times(o, Null, Null)
    <3>1. own'[th][o] = own[th][o] - Times(o, r, Null) /\ Times(o, Null, Null) = 0
      BY <1>4, <1>6, NullIsNoObj
    <3>2. Times(o, tclo[th], targ[th]) \in Nat
      BY TimesType
    <3>3. Times(o, tres[th], Null) = 0 /\ Times(o, tres'[th], Null) = Times(o, r, Null)
          /\ Times(o, pend[th], Null) = 0
          /\ Times(o, pend'[th], Null) = 0
      BY <1>1, <1>3, <1>8, NullIsNoObj
    <3>4. Times(o, tclo'[th], targ'[th]) = Times(o, tclo[th], targ[th])
      BY <1>1
    <3> QED BY <1>4, <3>1, <3>2, <3>3, <3>4
  <2>3. /\ pend' \in [Threads -> Objs \union {Null}] /\ pend'[th] = Null
        /\ \A u \in Threads : u # th =>
               /\ own'[u] = own[u] /\ pend'[u] = pend[u]
               /\ tclo'[u] = tclo[u] /\ targ'[u] = targ[u] /\ tres'[u] = tres[u]
    BY <1>1, <1>2, <1>3, <1>6, <1>8 DEF HeapTypes
  <2>4. UNCHANGED <<kind, mem, fld, todo, task>> /\ tcur[th] \in Objs
        /\ kind[tcur[th]] = "thunk" /\ own' \in [Threads -> [Objs -> Nat]]
    BY <1>1, <1>6, <1>7
  <2> QED BY <2>1, <2>2, <2>3, <2>4, LocalShift
<1>10. StepsAlone(th)
  BY <1>1, <1>3, <1>6 DEF StepsAlone
<1>11. Control(th)'
  BY <1>1, <1>2, <1>3, <1>7, <1>8 DEF Control, Forces
<1>12. Applies(th) /\ Applies(th)'
  BY <1>1, <1>3 DEF Applies
<1>13. ASSUME NEW o \in Objs, Unheld(o) PROVE Unheld(o)' /\ tres'[th] # o
  <2>1. o # r
    BY <1>4, <1>13 DEF Unheld
  <2>2. \A u \in Threads : own'[u][o] = 0
    BY <1>4, <1>6, <1>13, <2>1 DEF Unheld
  <2> QED BY <1>1, <1>3, <1>13, <2>1, <2>2 DEF Unheld
<1>14. StateInv'
  BY <1>1, <1>3, <1>10, <1>12, <1>13, AloneState
<1> QED BY <1>9, <1>10, <1>11, <1>14, AloneControl DEF ThunkInv

LEMMA BindFnStep ==
    ASSUME ThunkInv, NEW th \in Threads, NEW r \in Values, BindFn(th, r)
    PROVE  ThunkInv'
<1>1. PICK x : x = targ[th]
  OBVIOUS
<1>2. /\ Running(th) /\ tpc[th] = "eval" /\ kind[tclo[th]] = "bindfn"
      /\ r \in {fld[x][1], Box} /\ rc' = IncAll(rc, r, Null)
      /\ tres' = [tres EXCEPT ![th] = r] /\ tpc' = [tpc EXCEPT ![th] = "release"]
      /\ pend' = [pend EXCEPT ![th] = x] /\ targ' = [targ EXCEPT ![th] = Null]
      /\ UNCHANGED <<kind, mem, fld, own, todo, task, tcur, tclo>>
  BY <1>1 DEF BindFn, Evaluating, Result
<1>3. /\ HeapTypes /\ ThunkTypes /\ Control(th) /\ Forces(th) /\ r \in Pointers /\ r # Null
  BY <1>2, InvFacts, ObjsAssumption DEF Control, Values, Pointers
<1>4. /\ x \in Objs /\ tres[th] = Null /\ pend[th] = Null /\ todo[th] = {}
  BY <1>1, <1>2, <1>3 DEF Control, Running, ThunkTypes
<1>5. /\ ThunkTypes' /\ tpc'[th] = "release" /\ tres'[th] = r /\ targ'[th] = Null
      /\ \A u \in Threads : u # th => tpc'[u] = tpc[u] /\ tres'[u] = tres[u] /\ targ'[u] = targ[u]
  BY <1>2, <1>3 DEF ThunkTypes
<1>6. /\ pend' \in [Threads -> Objs \union {Null}] /\ pend'[th] = x
      /\ \A u \in Threads : u # th => pend'[u] = pend[u]
  BY <1>2, <1>3, <1>4 DEF HeapTypes
<1>7. r \in Objs => r = fld[x][1]
  BY <1>2, ObjsAssumption
<1>8. HeapInv(Locals)'
  <2>1. r \in Objs => ~ Dead(r)
    BY <1>4, <1>7, HeldLives
  <2>2. ASSUME NEW o \in Objs
        PROVE  own'[th][o] + Times(o, pend'[th], Null)
               + Times(o, tclo'[th], targ'[th]) + Times(o, tres'[th], Null)
               = own[th][o] + Times(o, pend[th], Null)
                 + Times(o, tclo[th], targ[th]) + Times(o, tres[th], Null) + Times(o, r, Null)
    <3>1. own'[th][o] = own[th][o] /\ own[th][o] \in Nat /\ tclo'[th] = tclo[th]
      BY <1>2, <1>3 DEF HeapTypes
    <3>2. Times(o, tres[th], Null) = 0 /\ Times(o, tres'[th], Null) = Times(o, r, Null)
          /\ Times(o, pend[th], Null) = 0 /\ Times(o, r, Null) \in Nat
      BY <1>4, <1>5, NullIsNoObj, TimesType
    <3>3. Times(o, x, Null) = IF o = x THEN 1 ELSE 0
      BY TimesValue, NullIsNoObj
    <3>4. /\ Times(o, tclo[th], x) = (IF tclo[th] = o THEN 1 ELSE 0) + (IF x = o THEN 1 ELSE 0)
          /\ Times(o, tclo[th], Null) = IF tclo[th] = o THEN 1 ELSE 0
      BY TimesValue, NullIsNoObj
    <3>5. Times(o, tclo'[th], targ'[th]) + Times(o, x, Null) = Times(o, tclo[th], targ[th])
      BY <1>1, <1>5, <3>1, <3>3, <3>4
    <3>6. Times(o, tclo'[th], targ'[th]) \in Nat /\ Times(o, x, Null) \in Nat
          /\ Times(o, pend'[th], Null) = Times(o, x, Null)
      BY <1>6, TimesType
    <3> QED BY <3>1, <3>2, <3>5, <3>6
  <2>3. /\ own' \in [Threads -> [Objs -> Nat]]
        /\ \A u \in Threads : u # th =>
               /\ own'[u] = own[u] /\ pend'[u] = pend[u]
               /\ tclo'[u] = tclo[u] /\ targ'[u] = targ[u] /\ tres'[u] = tres[u]
        /\ tcur[th] \in Objs /\ kind[tcur[th]] = "thunk"
    BY <1>2, <1>3, <1>5, <1>6 DEF HeapTypes, Forces
  <2> QED BY <1>2, <1>3, <1>4, <1>6, <2>1, <2>2, <2>3, LocalShift
<1>9. StepsAlone(th)
  BY <1>2, <1>5 DEF StepsAlone
<1>10. Control(th)'
  BY <1>2, <1>3, <1>5 DEF Control, Forces
<1>11. Applies(th) /\ Applies(th)'
  BY <1>2, <1>5 DEF Applies
<1>12. ASSUME NEW o \in Objs, Unheld(o) PROVE Unheld(o)' /\ tres'[th] # o
  BY <1>2, <1>4, <1>5, <1>7, <1>12 DEF Unheld
<1>13. StateInv'
  BY <1>2, <1>5, <1>9, <1>11, <1>12, AloneState
<1> QED BY <1>8, <1>9, <1>10, <1>13, AloneControl DEF ThunkInv

LEMMA ReleaseStep ==
    ASSUME ThunkInv, NEW th \in Threads, Release(th)
    PROVE  ThunkInv'
<1>1. PICK c : c = tclo[th]
  OBVIOUS
<1>2. /\ Running(th) /\ tpc[th] = "release" /\ tpc' = [tpc EXCEPT ![th] = "store"]
      /\ pend' = [pend EXCEPT ![th] = c] /\ tclo' = [tclo EXCEPT ![th] = Null]
      /\ UNCHANGED <<kind, mem, rc, fld, own, todo, task, tcur, targ, tres>>
  BY <1>1 DEF Release, objVars
<1>3. HeapTypes /\ ThunkTypes /\ Control(th) /\ Forces(th)
  BY <1>2, InvFacts DEF Control
<1>4. c \in Objs /\ targ[th] = Null /\ pend[th] = Null /\ todo[th] = {}
  BY <1>1, <1>2, <1>3 DEF Control, Running, ThunkTypes
<1>5. /\ ThunkTypes' /\ tpc'[th] = "store" /\ tclo'[th] = Null
      /\ \A u \in Threads : u # th => tpc'[u] = tpc[u] /\ tclo'[u] = tclo[u]
  BY <1>2, <1>3 DEF ThunkTypes
<1>6. /\ pend' \in [Threads -> Objs \union {Null}] /\ pend'[th] = c
      /\ \A u \in Threads : u # th => pend'[u] = pend[u]
  BY <1>2, <1>3, <1>4 DEF HeapTypes
<1>7. HeapInv(Locals)'
  <2>1. Null \in Pointers /\ Null \notin Objs /\ rc' = IncAll(rc, Null, Null)
    BY <1>2, <1>3, ObjsAssumption, IncNothing DEF Pointers
  <2>2. ASSUME NEW o \in Objs
        PROVE  own'[th][o] + Times(o, pend'[th], Null)
               + Times(o, tclo'[th], targ'[th]) + Times(o, tres'[th], Null)
               = own[th][o] + Times(o, pend[th], Null)
                 + Times(o, tclo[th], targ[th]) + Times(o, tres[th], Null) + Times(o, Null, Null)
    <3>1. own'[th][o] = own[th][o] /\ own[th][o] \in Nat /\ tres'[th] = tres[th]
          /\ targ'[th] = Null
      BY <1>2, <1>3, <1>4 DEF HeapTypes
    <3>2. Times(o, pend[th], Null) = 0 /\ Times(o, tclo'[th], targ'[th]) = 0
          /\ Times(o, tclo[th], targ[th]) = Times(o, c, Null)
          /\ Times(o, pend'[th], Null) = Times(o, c, Null) /\ Times(o, Null, Null) = 0
      BY <1>1, <1>4, <1>5, <1>6, <3>1, NullIsNoObj
    <3>3. Times(o, tres[th], Null) \in Nat /\ Times(o, c, Null) \in Nat
      BY TimesType
    <3> QED BY <3>1, <3>2, <3>3
  <2>3. /\ own' \in [Threads -> [Objs -> Nat]]
        /\ \A u \in Threads : u # th =>
               /\ own'[u] = own[u] /\ pend'[u] = pend[u]
               /\ tclo'[u] = tclo[u] /\ targ'[u] = targ[u] /\ tres'[u] = tres[u]
        /\ tcur[th] \in Objs /\ kind[tcur[th]] = "thunk"
    BY <1>2, <1>3, <1>5, <1>6 DEF HeapTypes, Forces
  <2> QED BY <1>2, <1>3, <1>4, <1>6, <2>1, <2>2, <2>3, LocalShift
<1>8. StepsAlone(th)
  BY <1>2, <1>5 DEF StepsAlone
<1>9. Control(th)'
  BY <1>2, <1>3, <1>4, <1>5 DEF Control, Forces
<1>10. Applies(th) /\ Applies(th)'
  BY <1>2, <1>5 DEF Applies
<1>11. ASSUME NEW o \in Objs PROVE Unheld(o) => Unheld(o)'
  BY <1>2 DEF Unheld
<1>12. StateInv'
  BY <1>2, <1>5, <1>8, <1>10, <1>11, AloneState
<1> QED BY <1>7, <1>8, <1>9, <1>12, AloneControl DEF ThunkInv

LEMMA StoreStep ==
    ASSUME ThunkInv, NEW th \in Threads, Store(th)
    PROVE  ThunkInv'
<1>1. PICK t : t = tcur[th]
  OBVIOUS
<1>2. PICK r : r = tres[th]
  OBVIOUS
<1>3. /\ Running(th) /\ tpc[th] = "store" /\ fld' = [fld EXCEPT ![t][1] = r]
      /\ rc' = IncAll(rc, r, Null) /\ own' = [own EXCEPT ![th] = Gain(own[th], r)]
      /\ tpc' = [tpc EXCEPT ![th] = "none"] /\ tcur' = [tcur EXCEPT ![th] = Null]
      /\ tres' = [tres EXCEPT ![th] = Null]
      /\ UNCHANGED <<kind, mem, pend, todo, task, tclo, targ>>
  <2>1. own \in [Threads -> [Objs -> Nat]]
    BY InvFacts DEF HeapTypes
  <2> QED BY <1>1, <1>2, <2>1 DEF Store
<1>4. /\ HeapTypes /\ ThunkTypes /\ Control(th) /\ Evaluator(th) /\ Applies(th)
      /\ t \in Objs /\ kind[t] = "thunk" /\ fld[t] = <<Null, Null>>
  BY <1>1, <1>3, InvFacts DEF Control, Forces, Evaluator, Applies
<1>5. /\ r \in Pointers /\ r # Null /\ tclo[th] = Null /\ targ[th] = Null /\ pend[th] = Null
      /\ r \in Objs => ~ Dead(r)
  <2>1. r \in Pointers /\ r # Null /\ tclo[th] = Null /\ targ[th] = Null /\ pend[th] = Null
    BY <1>2, <1>3, <1>4 DEF Control, ThunkTypes, Running
  <2> QED BY <1>2, <2>1, LocalLives
<1>6. /\ ThunkTypes' /\ tpc'[th] = "none" /\ tcur'[th] = Null /\ tres'[th] = Null
      /\ \A u \in Threads : u # th => tpc'[u] = tpc[u] /\ tcur'[u] = tcur[u] /\ tres'[u] = tres[u]
  <2>1. Null \in Pointers
    BY DEF Pointers
  <2> QED BY <1>3, <1>4, <2>1 DEF ThunkTypes
<1>7. /\ fld' \in [Objs -> Pointers \X Pointers] /\ fld'[t] = <<r, Null>>
      /\ \A o \in Objs : o # t => fld'[o] = fld[o]
  BY <1>3, <1>4, <1>5 DEF HeapTypes
<1>8. /\ own' \in [Threads -> [Objs -> Nat]]
      /\ \A o \in Objs : own'[th][o] = own[th][o] + Times(o, r, Null)
      /\ \A u \in Threads : u # th => own'[u] = own[u]
  BY <1>3, <1>4, CountTypes DEF HeapTypes
<1>9. HeapInv(Locals)'
  <2>1. ASSUME NEW o \in Objs
        PROVE  Holds(th, o)' + StoresBoth(t, t, o)' + LocalsOf(th, o)'
               = Holds(th, o) + StoresBoth(t, t, o) + LocalsOf(th, o) + Times(o, r, Null)
    <3>1. Holds(th, o)' = own'[th][o] + Times(o, pend'[th], Null)
          /\ Holds(th, o) = own[th][o] + Times(o, pend[th], Null)
      BY HoldsNext DEF Holds
    <3>2. LocalsOf(th, o)' = Times(o, tclo'[th], targ'[th]) + Times(o, tres'[th], Null)
          /\ LocalsOf(th, o) = Times(o, tclo[th], targ[th]) + Times(o, tres[th], Null)
      BY LocalsNext DEF LocalsOf
    <3>3. StoresBoth(t, t, o)' = Times(o, fld'[t][1], fld'[t][2])
          /\ StoresBoth(t, t, o) = Times(o, fld[t][1], fld[t][2])
      BY DEF StoresBoth, Stores, Times
    <3>4. Times(o, Null, Null) = 0 /\ Times(o, r, Null) \in Nat /\ own[th][o] \in Nat
      BY <1>4, NullIsNoObj, TimesType DEF HeapTypes
    <3>5. /\ Holds(th, o)' = own[th][o] + Times(o, r, Null) /\ Holds(th, o) = own[th][o]
      BY <1>3, <1>5, <1>8, <3>1, <3>4
    <3>6. LocalsOf(th, o)' = 0 /\ LocalsOf(th, o) = Times(o, r, Null)
      BY <1>2, <1>3, <1>5, <1>6, <3>2, <3>4
    <3>7. StoresBoth(t, t, o)' = Times(o, r, Null) /\ StoresBoth(t, t, o) = 0
      BY <1>4, <1>7, <3>3, <3>4
    <3> QED BY <3>4, <3>5, <3>6, <3>7
  <2>2. Shifts(th, t, t, r, Null)
    <3>1. /\ kind[t] \notin {"free", "task"} /\ pend' \in [Threads -> Objs \union {Null}]
          /\ pend'[th] = Null
          /\ \A u \in Threads : u # th =>
              /\ own'[u] = own[u] /\ pend'[u] = pend[u]
              /\ tclo'[u] = tclo[u] /\ targ'[u] = targ[u] /\ tres'[u] = tres[u]
      BY <1>3, <1>4, <1>5, <1>6, <1>8 DEF HeapTypes
    <3> QED BY <1>3, <1>7, <1>8, <2>1, <3>1 DEF Shifts
  <2>3. HeapInv(Locals) /\ Null \in Pointers /\ Null \notin Objs
    BY InvFacts, ObjsAssumption DEF Pointers
  <2> QED BY <1>4, <1>5, <2>2, <2>3, ShiftStep
<1>10. StepsAlone(th)
  BY <1>3, <1>6, <1>8 DEF StepsAlone
<1>11. Control(th)'
  BY <1>3, <1>5, <1>6 DEF Control
<1>12. \A u \in Threads : Applies(u)' <=> Applies(u) /\ u # th
  BY <1>6 DEF Applies
<1>13. StateInv'
  <2>1. ASSUME NEW o \in Objs PROVE ThunkState(o)'
    <3>1. CASE o = t
      BY <1>5, <1>7, <3>1, ObjsAssumption DEF ThunkState
    <3>2. CASE o # t
      <4>1. ThunkState(o) /\ fld'[o] = fld[o] /\ kind' = kind
        BY <1>3, <1>7, <3>2, InvFacts
      <4>2. (\E u \in Threads : Applies(u) /\ tcur[u] = o)
             => \E u \in Threads : Applies(u)' /\ tcur'[u] = o
        BY <1>1, <1>6, <1>12, <3>2
      <4> QED BY <4>1, <4>2 DEF ThunkState
    <3> QED BY <3>1, <3>2
  <2>2. ASSUME NEW c \in Objs PROVE Argument(c)'
    <3>1. Argument(c) /\ kind' = kind
      BY <1>3, InvFacts
    <3>2. kind[c] = "bindfn" => fld'[c] = fld[c]
      BY <1>4, <1>7
    <3>3. ASSUME Unheld(c), \A u \in Threads : tres[u] # c
          PROVE  Unheld(c)' /\ \A u \in Threads : tres'[u] # c
      <4>1. c # r /\ c # Null
        BY <1>2, <3>3, ObjsAssumption
      <4>2. \A u \in Threads : own'[u][c] = 0
        <5>1. Times(c, r, Null) = 0
          BY <4>1, TimesValue
        <5> QED BY <1>8, <3>3, <5>1 DEF Unheld
      <4>3. \A x \in Objs : fld'[x][1] # c /\ fld'[x][2] # c
        BY <1>7, <3>3, <4>1 DEF Unheld
      <4> QED BY <1>6, <3>3, <4>1, <4>2, <4>3 DEF Unheld
    <3> QED BY <3>1, <3>2, <3>3 DEF Argument
  <2>3. ASSUME NEW u \in Threads PROVE Evaluator(u)'
    <3>1. Evaluator(u) /\ Control(u)
      BY InvFacts
    <3>2. CASE u = th
      BY <1>6, <1>12, <3>2 DEF Evaluator
    <3>3. CASE u # th
      <4>1. tpc'[u] = tpc[u] /\ tcur'[u] = tcur[u]
        BY <1>6, <3>3
      <4>2. Applies(u) => tcur[u] # t /\ tcur[u] \in Objs
        BY <1>1, <1>4, <3>1, <3>3 DEF Evaluator, Control, Forces, Applies
      <4>3. tpc[u] = "wait" => tcur[u] \in Objs
        BY <3>1 DEF Control, Forces
      <4>4. Applies(u)' => /\ fld'[tcur'[u]] = <<Null, Null>>
                           /\ \A w \in Threads : Applies(w)' /\ tcur'[w] = tcur'[u] => w = u
        BY <1>6, <1>7, <1>12, <3>1, <4>1, <4>2 DEF Evaluator
      <4>5. tpc'[u] = "wait" => fld'[tcur'[u]][2] = Null
        BY <1>7, <3>1, <4>1, <4>3 DEF Evaluator
      <4> QED BY <4>4, <4>5 DEF Evaluator
    <3> QED BY <3>2, <3>3
  <2> QED BY <2>1, <2>2, <2>3 DEF StateInv
<1> QED BY <1>9, <1>10, <1>11, <1>13, AloneControl DEF ThunkInv

----------------------------------------------------------------------------
(* The exchange.                                                           *)

LEMMA ExchangeNullStep ==
    ASSUME ThunkInv, NEW th \in Threads, Exchange(th), fld[tcur[th]][2] = Null
    PROVE  ThunkInv'
<1>1. /\ tpc[th] = "exchange" /\ tpc' = [tpc EXCEPT ![th] = "wait"]
      /\ UNCHANGED <<kind, mem, rc, fld, own, pend, todo, task, tcur, tclo, targ, tres>>
  BY DEF Exchange, vars, objVars, threadVars
<1>2. HeapTypes /\ ThunkTypes /\ Control(th) /\ Forces(th)
  BY <1>1, InvFacts DEF Control
<1>3. /\ ThunkTypes' /\ tpc'[th] = "wait" /\ \A u \in Threads : u # th => tpc'[u] = tpc[u]
  BY <1>1, <1>2 DEF ThunkTypes
<1>4. StepsAlone(th)
  BY <1>1, <1>3 DEF StepsAlone
<1>5. Control(th)'
  BY <1>1, <1>2, <1>3 DEF Control, Forces
<1>6. ~ Applies(th) /\ ~ Applies(th)'
  BY <1>1, <1>3 DEF Applies
<1>7. \A o \in Objs : Unheld(o) => Unheld(o)'
  BY <1>1 DEF Unheld
<1>8. StateInv'
  BY <1>1, <1>3, <1>4, <1>6, <1>7, AloneState
<1>9. HeapInv(Locals)'
  <2>1. Null \in Pointers /\ Null \notin Objs /\ rc' = IncAll(rc, Null, Null)
    BY <1>1, <1>2, ObjsAssumption, IncNothing DEF Pointers
  <2>2. ASSUME NEW o \in Objs
        PROVE  own'[th][o] + Times(o, pend'[th], Null)
               + Times(o, tclo'[th], targ'[th]) + Times(o, tres'[th], Null)
               = own[th][o] + Times(o, pend[th], Null)
                 + Times(o, tclo[th], targ[th]) + Times(o, tres[th], Null) + Times(o, Null, Null)
    <3>1. own[th][o] \in Nat /\ Times(o, Null, Null) = 0
      BY <1>2, NullIsNoObj DEF HeapTypes
    <3>2. /\ Times(o, pend[th], Null) \in Nat /\ Times(o, tclo[th], targ[th]) \in Nat
          /\ Times(o, tres[th], Null) \in Nat
      BY TimesType
    <3>3. /\ own'[th][o] = own[th][o] /\ pend'[th] = pend[th] /\ tclo'[th] = tclo[th]
          /\ targ'[th] = targ[th] /\ tres'[th] = tres[th]
      BY <1>1
    <3> QED BY <3>1, <3>2, <3>3
  <2>3. /\ own' \in [Threads -> [Objs -> Nat]] /\ pend' \in [Threads -> Objs \union {Null}]
        /\ pend'[th] # Null => todo[th] = {}
        /\ tcur[th] \in Objs /\ kind[tcur[th]] = "thunk"
        /\ UNCHANGED <<kind, mem, fld, todo, task>>
        /\ \A u \in Threads : u # th =>
               /\ own'[u] = own[u] /\ pend'[u] = pend[u]
               /\ tclo'[u] = tclo[u] /\ targ'[u] = targ[u] /\ tres'[u] = tres[u]
    BY <1>1, <1>2, InvFacts DEF HeapTypes, Forces, HeapInv, PendInv
  <2> QED BY <2>1, <2>2, <2>3, LocalShift
<1> QED BY <1>4, <1>5, <1>8, <1>9, AloneControl DEF ThunkInv

(* Thread th takes the closure c, with the fields x and y, from t.         *)
Takes(th, t, c, x, y) ==
    /\ tpc[th] = "exchange" /\ tcur[th] = t /\ own[th][t] > 0
    /\ tclo[th] = Null /\ targ[th] = Null /\ tres[th] = Null
    /\ kind[t] = "thunk" /\ kind[c] \in {"data", "bindfn"}
    /\ fld[t] = <<Null, c>> /\ fld[c] = <<x, y>>
    /\ kind[c] = "bindfn" => x \in Objs /\ y = Null
    /\ tpc' = [tpc EXCEPT ![th] = "eval"] /\ tclo' = [tclo EXCEPT ![th] = c]
    /\ IF kind[c] = "data"
       THEN own' = [own EXCEPT ![th] = Gain(Gain(own[th], x), y)] /\ targ' = targ
       ELSE targ' = [targ EXCEPT ![th] = x] /\ own' = own
    /\ fld' \in [Objs -> Pointers \X Pointers] /\ fld'[t] = <<Null, Null>>
    /\ \A o \in Objs : o \notin {t, c} => fld'[o] = fld[o]
    /\ IF IsExclusive(c)
       THEN fld'[c] = <<Null, Null>> /\ rc' = rc
       ELSE fld'[c] = fld[c] /\ rc' = IncAll(rc, x, y)
    /\ UNCHANGED <<kind, mem, pend, todo, task, tcur, tres>>

LEMMA ExchangeTakes ==
    ASSUME ThunkInv, NEW th \in Threads, Exchange(th), fld[tcur[th]][2] # Null
    PROVE  \E t, c \in Objs, x, y \in Pointers : Takes(th, t, c, x, y)
<1>1. PICK t : t = tcur[th]
  OBVIOUS
<1>2. PICK c : c = fld[t][2]
  OBVIOUS
<1>3. PICK x : x = fld[c][1]
  OBVIOUS
<1>4. PICK y : y = fld[c][2]
  OBVIOUS
<1>5. HeapTypes /\ ThunkTypes /\ tpc[th] = "exchange" /\ Control(th)
  BY InvFacts DEF Exchange
<1>6. own \in [Threads -> [Objs -> Nat]] /\ fld \in [Objs -> Pointers \X Pointers]
  BY <1>5 DEF HeapTypes
<1>7. /\ tpc' = [tpc EXCEPT ![th] = "eval"] /\ tclo' = [tclo EXCEPT ![th] = c]
      /\ IF kind[c] = "data"
         THEN own' = [own EXCEPT ![th] = Gain(Gain(own[th], x), y)] /\ targ' = targ
         ELSE targ' = [targ EXCEPT ![th] = x] /\ own' = own
      /\ IF IsExclusive(c)
         THEN fld' = [fld EXCEPT ![t][2] = Null, ![c] = <<Null, Null>>] /\ rc' = rc
         ELSE fld' = [fld EXCEPT ![t][2] = Null] /\ rc' = IncAll(rc, x, y)
      /\ UNCHANGED <<kind, mem, pend, todo, task, tcur, tres>>
  BY <1>1, <1>2, <1>3, <1>4, <1>6 DEF Exchange
<1>8. /\ t \in Objs /\ kind[t] = "thunk" /\ own[th][t] > 0
      /\ tclo[th] = Null /\ targ[th] = Null /\ tres[th] = Null
  BY <1>1, <1>5 DEF Control, Forces
<1>9. /\ c \in Objs /\ fld[t] = <<Null, c>> /\ kind[c] \in {"data", "bindfn"} /\ t # c
  BY <1>1, <1>2, <1>6, <1>8, InvFacts DEF ThunkState
<1>10. x \in Pointers /\ y \in Pointers /\ fld[c] = <<x, y>>
  BY <1>3, <1>4, <1>6, <1>9
<1>11. kind[c] = "bindfn" => x \in Objs /\ y = Null
  BY <1>2, <1>3, <1>4, <1>8, <1>9, InvFacts DEF Argument, Unheld
<1>12. /\ fld' \in [Objs -> Pointers \X Pointers] /\ fld'[t] = <<Null, Null>>
       /\ \A o \in Objs : o \notin {t, c} => fld'[o] = fld[o]
       /\ fld'[c] = IF IsExclusive(c) THEN <<Null, Null>> ELSE fld[c]
  <2>1. Null \in Pointers
    BY DEF Pointers
  <2>2. CASE IsExclusive(c)
    BY <1>6, <1>7, <1>8, <1>9, <2>1, <2>2
  <2>3. CASE ~ IsExclusive(c)
    BY <1>6, <1>7, <1>8, <1>9, <2>1, <2>3
  <2> QED BY <2>2, <2>3
<1>13. Takes(th, t, c, x, y)
  BY <1>1, <1>5, <1>7, <1>8, <1>9, <1>10, <1>11, <1>12 DEF Takes
<1> QED BY <1>8, <1>9, <1>10, <1>13

LEMMA TakesOwn ==
    ASSUME ThunkInv, NEW th \in Threads, NEW t \in Objs, NEW c \in Objs,
           NEW x \in Pointers, NEW y \in Pointers, Takes(th, t, c, x, y)
    PROVE  /\ own' \in [Threads -> [Objs -> Nat]]
           /\ \A u \in Threads : u # th => own'[u] = own[u]
           /\ \A o \in Objs :
                own'[th][o] = own[th][o] + IF kind[c] = "data" THEN Times(o, x, y) ELSE 0
<1>1. own \in [Threads -> [Objs -> Nat]]
  BY InvFacts DEF HeapTypes
<1>2. CASE kind[c] = "data"
  <2>1. own' = [own EXCEPT ![th] = Gain(Gain(own[th], x), y)]
    BY <1>2 DEF Takes
  <2>2. ASSUME NEW o \in Objs
        PROVE  /\ Gain(Gain(own[th], x), y)[o] = own[th][o] + Times(o, x, y)
               /\ Gain(Gain(own[th], x), y)[o] \in Nat
    <3>1. Gain(Gain(own[th], x), y)[o] = own[th][o] + Times(o, x, Null) + Times(o, y, Null)
      BY DEF Gain
    <3>2. /\ Times(o, x, Null) = IF x = o THEN 1 ELSE 0
          /\ Times(o, y, Null) = IF y = o THEN 1 ELSE 0
          /\ Times(o, x, y) = (IF x = o THEN 1 ELSE 0) + (IF y = o THEN 1 ELSE 0)
      BY TimesValue, NullIsNoObj
    <3>3. own[th][o] \in Nat
      BY <1>1
    <3> QED BY <3>1, <3>2, <3>3
  <2>3. Gain(Gain(own[th], x), y) \in [Objs -> Nat]
    <3>1. PICK f : f = Gain(own[th], x)
      OBVIOUS
    <3>2. Gain(f, y) = [o \in Objs |-> f[o] + Times(o, y, Null)]
      BY DEF Gain
    <3>3. \A o \in Objs : f[o] + Times(o, y, Null) \in Nat
      BY <2>2, <3>1, <3>2
    <3> QED BY <3>1, <3>2, <3>3
  <2> QED BY <1>1, <1>2, <2>1, <2>2, <2>3
<1>3. CASE kind[c] # "data"
  <2>1. own' = own
    BY <1>3 DEF Takes
  <2>2. \A o \in Objs : own[th][o] \in Nat
    BY <1>1
  <2> QED BY <1>1, <1>3, <2>1, <2>2
<1> QED BY <1>2, <1>3

LEMMA TakesHeap ==
    ASSUME ThunkInv, NEW th \in Threads, NEW t \in Objs, NEW c \in Objs,
           NEW x \in Pointers, NEW y \in Pointers, Takes(th, t, c, x, y)
    PROVE  HeapInv(Locals)'
<1>1. HeapInv(Locals) /\ HeapTypes /\ ThunkTypes
  BY InvFacts
<1>2. /\ t # c /\ kind[t] \notin {"free", "task"} /\ kind[c] \notin {"free", "task"}
      /\ tclo[th] = Null /\ targ[th] = Null /\ tres[th] = Null
      /\ fld[t] = <<Null, c>> /\ fld[c] = <<x, y>> /\ fld'[t] = <<Null, Null>>
      /\ fld' \in [Objs -> Pointers \X Pointers]
      /\ \A o \in Objs : o \notin {t, c} => fld'[o] = fld[o]
      /\ UNCHANGED <<kind, mem, pend, todo, task, tres>>
  BY DEF Takes
<1>3. /\ tclo'[th] = c /\ targ'[th] = IF kind[c] = "data" THEN Null ELSE x
      /\ \A u \in Threads : u # th => tclo'[u] = tclo[u] /\ targ'[u] = targ[u]
  BY <1>1 DEF Takes, ThunkTypes
<1>4. /\ own' \in [Threads -> [Objs -> Nat]]
      /\ \A u \in Threads : u # th => own'[u] = own[u]
      /\ \A o \in Objs :
            own'[th][o] = own[th][o] + IF kind[c] = "data" THEN Times(o, x, y) ELSE 0
  BY TakesOwn
<1>5. kind[c] # "data" => y = Null
  BY DEF Takes
<1>6. ASSUME NEW v, NEW w, NEW o \in Objs, fld'[c] = <<v, w>>,
             \/ v = Null /\ w = Null
             \/ v = x /\ w = y
      PROVE  Holds(th, o)' + StoresBoth(t, c, o)' + LocalsOf(th, o)'
             = Holds(th, o) + StoresBoth(t, c, o) + LocalsOf(th, o) + Times(o, v, w)
  <2>1. Holds(th, o)' = own'[th][o] + Times(o, pend'[th], Null)
        /\ Holds(th, o) = own[th][o] + Times(o, pend[th], Null)
    BY HoldsNext DEF Holds
  <2>2. LocalsOf(th, o)' = Times(o, tclo'[th], targ'[th]) + Times(o, tres'[th], Null)
        /\ LocalsOf(th, o) = Times(o, tclo[th], targ[th]) + Times(o, tres[th], Null)
    BY LocalsNext DEF LocalsOf
  <2>3. /\ StoresBoth(t, c, o)' = Times(o, fld'[t][1], fld'[t][2]) + Times(o, fld'[c][1], fld'[c][2])
        /\ StoresBoth(t, c, o) = Times(o, fld[t][1], fld[t][2]) + Times(o, fld[c][1], fld[c][2])
    BY <1>2, HoldsNext DEF StoresBoth, Stores
  <2>4. /\ Times(o, Null, Null) = 0 /\ own[th][o] \in Nat
        /\ Times(o, c, Null) \in Nat /\ Times(o, x, y) \in Nat /\ Times(o, v, w) \in Nat
        /\ Times(o, pend[th], Null) \in Nat
        /\ Times(o, Null, c) = Times(o, c, Null)
        /\ kind[c] # "data" => Times(o, c, x) = Times(o, c, Null) + Times(o, x, y)
    <3>1. Times(o, Null, c) = Times(o, c, Null)
      BY TimesValue, NullIsNoObj
    <3>2. kind[c] # "data" => Times(o, c, x) = Times(o, c, Null) + Times(o, x, y)
      BY <1>5, TimesValue, NullIsNoObj
    <3> QED BY <1>1, <3>1, <3>2, NullIsNoObj, TimesType DEF HeapTypes
  <2>5. StoresBoth(t, c, o)' = Times(o, v, w)
        /\ StoresBoth(t, c, o) = Times(o, c, Null) + Times(o, x, y)
    BY <1>2, <1>6, <2>3, <2>4
  <2>6. LocalsOf(th, o) = 0
        /\ LocalsOf(th, o)' = IF kind[c] = "data" THEN Times(o, c, Null)
                              ELSE Times(o, c, Null) + Times(o, x, y)
    BY <1>2, <1>3, <2>2, <2>4
  <2>7. own'[th][o] = own[th][o] + IF kind[c] = "data" THEN Times(o, x, y) ELSE 0
    BY <1>4
  <2>8. pend'[th] = pend[th]
    BY <1>2
  <2> QED BY <2>1, <2>4, <2>5, <2>6, <2>7, <2>8
<1>7. /\ pend' \in [Threads -> Objs \union {Null}] /\ (pend'[th] # Null => todo[th] = {})
      /\ \A u \in Threads : u # th =>
          /\ own'[u] = own[u] /\ pend'[u] = pend[u]
          /\ tclo'[u] = tclo[u] /\ targ'[u] = targ[u] /\ tres'[u] = tres[u]
  BY <1>1, <1>2, <1>3, <1>4 DEF HeapTypes, HeapInv, PendInv
<1>8. Null \in Pointers /\ Null \notin Objs
  BY ObjsAssumption DEF Pointers
<1>9. CASE IsExclusive(c)
  <2>1. fld'[c] = <<Null, Null>> /\ rc' = IncAll(rc, Null, Null)
    BY <1>1, <1>8, <1>9, IncNothing DEF Takes
  <2>2. Shifts(th, t, c, Null, Null)
    BY <1>2, <1>4, <1>6, <1>7, <2>1 DEF Shifts
  <2> QED BY <1>1, <1>8, <2>2, ShiftStep
<1>10. CASE ~ IsExclusive(c)
  <2>1. fld'[c] = <<x, y>> /\ rc' = IncAll(rc, x, y)
    BY <1>2, <1>10 DEF Takes
  <2>2. Shifts(th, t, c, x, y)
    BY <1>2, <1>4, <1>6, <1>7, <2>1 DEF Shifts
  <2>3. (x \in Objs => ~ Dead(x)) /\ (y \in Objs => ~ Dead(y))
    BY <1>2, HeldLives
  <2> QED BY <1>1, <2>2, <2>3, ShiftStep
<1> QED BY <1>9, <1>10

(* The thunk holds the only reference to an exclusive closure.             *)
LEMMA ExclusiveIsUnheld ==
    ASSUME ThunkInv, NEW t \in Objs, NEW c \in Objs, IsExclusive(c), kind[t] = "thunk",
           fld[t] = <<Null, c>>
    PROVE  /\ \A u \in Threads : own[u][c] = 0 /\ tres[u] # c
           /\ \A z \in Objs : z # t => fld[z][1] # c /\ fld[z][2] # c
<1>1. HeapTypes /\ HeapInv(Locals) /\ Locals[c] \in Nat
  BY InvFacts
<1>2. ~ Dead(c)
  <2>1. fld[t][2] = c
    OBVIOUS
  <2> QED BY <2>1, HeldLives
<1>3. rc[c] = References(c) + Locals[c] /\ rc[c] <= 1 /\ rc[c] \in Nat
  <2>1. rc[c] \in Nat
    BY <1>1 DEF HeapTypes
  <2>2. Counted(Locals, c)
    BY <1>1 DEF HeapInv
  <2>3. IsHeapObj(c) /\ ~ (rc[c] > 1)
    BY DEF IsExclusive, IsShared
  <2> QED BY <1>2, <2>1, <2>2, <2>3 DEF Counted
<1>4. Stores(t, c) = 1
  BY TimesValue, NullIsNoObj DEF Stores
<1>5. ASSUME NEW u \in Threads PROVE own[u][c] = 0 /\ Locals[c] = 0 /\ References(c) = 1
  <2>1. References(c) \in Nat /\ References(c) >= Holds(u, c) + Stores(t, c) /\ Holds(u, c) \in Nat
    BY <1>1, ReferencesBound
  <2>2. Holds(u, c) = own[u][c] + Times(c, pend[u], Null) /\ own[u][c] \in Nat
        /\ Times(c, pend[u], Null) \in Nat
    BY <1>1, TimesType DEF HeapTypes, Holds
  <2>3. Locals[c] \in Nat
    BY <1>1
  <2>4. References(c) = 1 /\ Locals[c] = 0 /\ Holds(u, c) = 0
    BY <1>3, <1>4, <2>1, <2>3
  <2> QED BY <2>2, <2>4
<1>6. ASSUME NEW u \in Threads PROVE tres[u] # c
  <2>1. Locals[c] = 0 /\ Locals[c] >= LocalsOf(u, c)
    <3>1. PICK f : f = [w \in Threads |-> LocalsOf(w, c)]
      OBVIOUS
    <3>2. f \in [Threads -> Nat] /\ Locals[c] = Total(f) /\ f[u] = LocalsOf(u, c)
      BY <3>1, LocalsType
    <3>3. Total(f) >= f[u]
      BY <3>2, TotalUpdate, ThreadsAssumption
    <3> QED BY <1>5, <3>2, <3>3
  <2>2. LocalsOf(u, c) = Times(c, tclo[u], targ[u]) + Times(c, tres[u], Null)
        /\ Times(c, tclo[u], targ[u]) \in Nat /\ Times(c, tres[u], Null) \in Nat
    BY TimesType DEF LocalsOf
  <2>3. Times(c, tres[u], Null) = 0
    BY <2>1, <2>2
  <2>4. Times(c, tres[u], Null) = IF tres[u] = c THEN 1 ELSE 0
    BY TimesValue, NullIsNoObj
  <2> QED BY <2>3, <2>4
<1>7. ASSUME NEW z \in Objs, z # t PROVE fld[z][1] # c /\ fld[z][2] # c
  <2>1. PICK g : g = [a \in Objs |-> Stores(a, c)]
    OBVIOUS
  <2>2. PICK h : h = [a \in Objs |-> IF a = t THEN 0 ELSE Stores(a, c)]
    OBVIOUS
  <2>3. \A a \in Objs : Stores(a, c) \in Nat
    BY TimesType DEF Stores
  <2>4. /\ g \in [Objs -> Nat] /\ h \in [Objs -> Nat] /\ g[t] = 1 /\ h[t] = 0
        /\ h[z] = Stores(z, c) /\ \A a \in Objs : a # t => h[a] = g[a]
    BY <1>4, <1>7, <2>1, <2>2, <2>3
  <2>5. Total(h) = Total(g) - g[t] + h[t] /\ Total(g) \in Nat
    BY <2>4, TotalUpdate, ObjsAssumption
  <2>6. Total(h) >= h[z]
    BY <2>4, TotalUpdate, ObjsAssumption
  <2>7. Total(g) <= 1
    <3>1. PICK f : f = [w \in Threads |-> Holds(w, c)]
      OBVIOUS
    <3>2. References(c) = Total(f) + Total(g) /\ f \in [Threads -> Nat]
      BY <1>1, <2>1, <3>1, HoldsType
    <3>3. Total(f) \in Nat
      BY <3>2, TotalUpdate, ThreadsAssumption
    <3>4. References(c) = 1
      BY <1>5, ThreadsAssumption
    <3> QED BY <2>5, <3>2, <3>3, <3>4
  <2>8. Stores(z, c) = 0
    BY <2>3, <2>4, <2>5, <2>6, <2>7
  <2>9. Stores(z, c) = (IF fld[z][1] = c THEN 1 ELSE 0) + (IF fld[z][2] = c THEN 1 ELSE 0)
    BY TimesValue DEF Stores
  <2> QED BY <2>8, <2>9
<1> QED BY <1>5, <1>6, <1>7

LEMMA TakesControl ==
    ASSUME ThunkInv, NEW th \in Threads, NEW t \in Objs, NEW c \in Objs,
           NEW x \in Pointers, NEW y \in Pointers, Takes(th, t, c, x, y)
    PROVE  StepsAlone(th) /\ Control(th)' /\ tpc'[th] = "eval"
           /\ \A u \in Threads : u # th => tpc'[u] = tpc[u]
<1>1. ThunkTypes /\ HeapTypes
  BY InvFacts
<1>2. /\ tpc' = [tpc EXCEPT ![th] = "eval"] /\ tclo' = [tclo EXCEPT ![th] = c]
      /\ UNCHANGED <<kind, tcur, tres>>
      /\ tcur[th] = t /\ kind[t] = "thunk" /\ own[th][t] > 0 /\ tres[th] = Null
      /\ \/ kind[c] = "data" /\ targ' = targ /\ targ[th] = Null
         \/ kind[c] = "bindfn" /\ targ' = [targ EXCEPT ![th] = x] /\ x \in Objs
  BY DEF Takes
<1>3. /\ own' \in [Threads -> [Objs -> Nat]]
      /\ \A u \in Threads : u # th => own'[u] = own[u]
      /\ \A o \in Objs :
            own'[th][o] = own[th][o] + IF kind[c] = "data" THEN Times(o, x, y) ELSE 0
  BY TakesOwn
<1>4. own'[th][t] > 0
  <2>1. own[th][t] \in Nat /\ Times(t, x, y) \in Nat
    BY <1>1, TimesType DEF HeapTypes
  <2> QED BY <1>2, <1>3, <2>1
<1>5. targ' \in [Threads -> Objs \union {Null}] /\ \A u \in Threads : u # th => targ'[u] = targ[u]
  BY <1>1, <1>2 DEF ThunkTypes
<1>6. /\ \/ kind[c] = "data" /\ targ'[th] = Null
         \/ kind[c] = "bindfn" /\ targ'[th] \in Objs
  BY <1>1, <1>2 DEF ThunkTypes
<1>7. /\ ThunkTypes' /\ tpc'[th] = "eval" /\ tclo'[th] = c
      /\ \A u \in Threads : u # th => tpc'[u] = tpc[u] /\ tclo'[u] = tclo[u]
  BY <1>1, <1>2, <1>5 DEF ThunkTypes
<1>8. StepsAlone(th)
  BY <1>2, <1>3, <1>5, <1>7 DEF StepsAlone
<1>9. Control(th)'
  BY <1>2, <1>4, <1>6, <1>7, ObjsAssumption DEF Control, Forces
<1> QED BY <1>7, <1>8, <1>9

LEMMA TakesState ==
    ASSUME ThunkInv, NEW th \in Threads, NEW t \in Objs, NEW c \in Objs,
           NEW x \in Pointers, NEW y \in Pointers, Takes(th, t, c, x, y)
    PROVE  StateInv'
<1>1. /\ tpc[th] = "exchange" /\ tcur[th] = t /\ kind[t] = "thunk" /\ kind[c] \in {"data", "bindfn"}
      /\ fld[t] = <<Null, c>> /\ fld[c] = <<x, y>> /\ (kind[c] = "bindfn" => x \in Objs /\ y = Null)
      /\ fld'[t] = <<Null, Null>> /\ \A o \in Objs : o \notin {t, c} => fld'[o] = fld[o]
      /\ fld'[c] = (IF IsExclusive(c) THEN <<Null, Null>> ELSE fld[c])
      /\ UNCHANGED <<kind, tcur, tres>> /\ t # c
  BY DEF Takes
<1>2. tpc'[th] = "eval" /\ \A u \in Threads : u # th => tpc'[u] = tpc[u]
  BY TakesControl
<1>3. /\ Applies(th)' /\ ~ Applies(th)
      /\ \A u \in Threads : u # th => (Applies(u)' <=> Applies(u))
  BY <1>1, <1>2 DEF Applies
<1>4. /\ \A u \in Threads : u # th => own'[u] = own[u]
      /\ \A o \in Objs :
            own'[th][o] = own[th][o] + IF kind[c] = "data" THEN Times(o, x, y) ELSE 0
  BY TakesOwn
<1>5. ASSUME NEW o \in Objs PROVE ThunkState(o)'
  <2>1. CASE o = t
    BY <1>1, <1>3, <2>1 DEF ThunkState
  <2>2. CASE o # t /\ kind[o] = "thunk"
    <3>1. ThunkState(o) /\ fld'[o] = fld[o]
      BY <1>1, <2>2, InvFacts
    <3>2. (\E u \in Threads : Applies(u) /\ tcur[u] = o)
          => \E u \in Threads : Applies(u)' /\ tcur'[u] = o
      BY <1>1, <1>3
    <3> QED BY <1>1, <3>1, <3>2 DEF ThunkState
  <2>3. CASE kind[o] # "thunk"
    BY <1>1, <2>3 DEF ThunkState
  <2> QED BY <2>1, <2>2, <2>3
<1>6. ASSUME NEW o \in Objs PROVE Argument(o)'
  <2>1. Argument(o)
    BY InvFacts
  <2>2. CASE o # c /\ kind[o] = "bindfn"
    <3>1. fld'[o] = fld[o]
      BY <1>1, <2>2
    <3>2. ASSUME Unheld(o) PROVE Unheld(o)'
      <4>1. x # o /\ y # o /\ c # o
        BY <1>1, <3>2 DEF Unheld
      <4>2. Times(o, x, y) = 0
        BY <4>1, TimesValue
      <4>3. \A u \in Threads : own'[u][o] = 0
        BY <1>4, <3>2, <4>2 DEF Unheld
      <4>4. \A z \in Objs : fld'[z][1] # o /\ fld'[z][2] # o
        BY <1>1, <3>2, NullIsNoObj DEF Unheld
      <4> QED BY <4>3, <4>4 DEF Unheld
    <3> QED BY <1>1, <2>1, <2>2, <3>1, <3>2 DEF Argument
  <2>3. CASE o = c /\ kind[o] = "bindfn" /\ ~ IsExclusive(c)
    BY <1>1, <2>3 DEF Argument
  <2>4. CASE o = c /\ kind[o] = "bindfn" /\ IsExclusive(c)
    <3>1. /\ \A u \in Threads : own[u][c] = 0 /\ tres[u] # c
          /\ \A z \in Objs : z # t => fld[z][1] # c /\ fld[z][2] # c
      BY <1>1, <2>4, ExclusiveIsUnheld
    <3>2. \A u \in Threads : own'[u][c] = 0
      BY <1>4, <2>4, <3>1
    <3>3. \A z \in Objs : fld'[z][1] # c /\ fld'[z][2] # c
      BY <1>1, <2>4, <3>1, NullIsNoObj
    <3>4. Unheld(c)' /\ \A u \in Threads : tres'[u] # c
      BY <1>1, <3>1, <3>2, <3>3 DEF Unheld
    <3> QED BY <1>1, <2>4, <3>4 DEF Argument
  <2>5. CASE kind[o] # "bindfn"
    BY <1>1, <2>1, <2>5 DEF Argument
  <2> QED BY <2>2, <2>3, <2>4, <2>5
<1>7. ASSUME NEW u \in Threads, Applies(u) PROVE tcur[u] \in Objs \ {t, c}
  <2>1. Evaluator(u) /\ Control(u) /\ tpc[u] # "none"
    BY <1>7, InvFacts DEF Applies
  <2>2. tcur[u] \in Objs /\ kind[tcur[u]] = "thunk" /\ fld[tcur[u]] = <<Null, Null>>
    BY <1>7, <2>1 DEF Evaluator, Control, Forces
  <2>3. tcur[u] # t
    BY <1>1, <2>2, NullIsNoObj
  <2> QED BY <1>1, <2>2, <2>3
<1>8. ASSUME NEW u \in Threads PROVE Evaluator(u)'
  <2>1. Evaluator(u) /\ Control(u)
    BY InvFacts
  <2>2. CASE u = th
    BY <1>1, <1>2, <1>3, <1>7, <2>2 DEF Evaluator
  <2>3. CASE u # th
    <3>1. Applies(u)' => /\ fld'[tcur'[u]] = <<Null, Null>>
                         /\ \A w \in Threads : Applies(w)' /\ tcur'[w] = tcur'[u] => w = u
      BY <1>1, <1>3, <1>7, <2>1, <2>3 DEF Evaluator
    <3>2. tpc[u] = "wait" => fld'[tcur[u]][2] = Null
      <4> SUFFICES ASSUME tpc[u] = "wait" PROVE fld'[tcur[u]][2] = Null
        OBVIOUS
      <4>1. tcur[u] \in Objs /\ kind[tcur[u]] = "thunk" /\ fld[tcur[u]][2] = Null
        BY <2>1 DEF Evaluator, Control, Forces
      <4> QED BY <1>1, <4>1
    <3> QED BY <1>1, <1>2, <2>3, <3>1, <3>2 DEF Evaluator
  <2> QED BY <2>2, <2>3
<1> QED BY <1>5, <1>6, <1>8 DEF StateInv

LEMMA ExchangeStep ==
    ASSUME ThunkInv, NEW th \in Threads, Exchange(th)
    PROVE  ThunkInv'
<1>1. CASE fld[tcur[th]][2] # Null
  <2>1. PICK t \in Objs, c \in Objs, x \in Pointers, y \in Pointers : Takes(th, t, c, x, y)
    BY <1>1, ExchangeTakes
  <2>2. HeapInv(Locals)'
    BY <2>1, TakesHeap
  <2>3. StepsAlone(th) /\ Control(th)' /\ StateInv'
    BY <2>1, TakesControl, TakesState
  <2> QED BY <2>2, <2>3, AloneControl DEF ThunkInv
<1> QED BY <1>1, ExchangeNullStep

----------------------------------------------------------------------------
LEMMA ThunkInvInit == ThunkInit => ThunkInv
<1> SUFFICES ASSUME ThunkInit PROVE ThunkInv
  OBVIOUS
<1>1. /\ Init /\ tpc = [th \in Threads |-> "none"] /\ tcur = [th \in Threads |-> Null]
      /\ tclo = [th \in Threads |-> Null] /\ targ = [th \in Threads |-> Null]
      /\ tres = [th \in Threads |-> Null]
  BY DEF ThunkInit
<1>2. ControlInv
  BY <1>1 DEF ControlInv, ThunkTypes, Pointers, Control
<1>3. StateInv
  BY <1>1 DEF StateInv, Init, ThunkState, Argument, Evaluator, Applies
<1>4. \A o \in Objs : Locals[o] = 0
  <2> SUFFICES ASSUME NEW o \in Objs PROVE Locals[o] = 0
    OBVIOUS
  <2>1. \A th \in Threads : LocalsOf(th, o) = 0
    <3>1. Times(o, Null, Null) = 0
      BY NullIsNoObj
    <3> QED BY <1>1, <3>1 DEF LocalsOf
  <2>2. PICK f : f = [th \in Threads |-> LocalsOf(th, o)]
    OBVIOUS
  <2>3. f \in [Threads -> Nat] /\ Locals[o] = Total(f)
    BY <2>2, LocalsType
  <2>4. \A th \in Threads : f[th] = 0
    BY <2>1, <2>2
  <2> QED BY <2>3, <2>4, TotalZero, ThreadsAssumption
<1>5. HeapInv(Locals)
  <2>1. PICK X \in [Objs -> Nat] : X = Locals
    BY LocalsAreNat
  <2>2. HeapInv(X)
    BY <1>1, <1>4, <2>1, HeapInit
  <2> QED BY <2>1, <2>2
<1> QED BY <1>2, <1>3, <1>5 DEF ThunkInv

LEMMA ThunkStutter ==
    ASSUME ThunkInv, UNCHANGED allVars
    PROVE  ThunkInv'
<1>1. UNCHANGED <<kind, mem, rc, fld, own, pend, todo, task>> /\ UNCHANGED thunkVars
      /\ UNCHANGED <<tclo, targ, tres>>
  BY DEF allVars, vars, objVars, threadVars, thunkVars
<1>2. PICK X \in [Objs -> Nat] : X = Locals
  BY LocalsAreNat
<1>3. HeapInv(X)
  BY <1>2, InvFacts
<1>4. HeapInv(X)'
  <2>1. \A o \in Objs : References(o)' = References(o) /\ (Dead(o)' <=> Dead(o))
                        /\ (IsHeapObj(o)' <=> IsHeapObj(o))
    BY <1>1 DEF References, Dead, IsHeapObj, Total, Times
  <2>2. \A o \in Objs : Counted(X, o)'
    BY <1>1, <1>3, <2>1 DEF HeapInv, Counted
  <2> QED BY <1>1, <1>3, <2>2 DEF HeapInv, HeapTypes, TodoInv, FreeInv, TaskInv, PendInv, IsHeapObj
<1>5. KeepsThunks(Main, {})
  BY <1>1, ThreadsAssumption, QuietKeeps
<1> QED BY <1>1, <1>2, <1>4, <1>5, CountsStay, KeptControl, KeptState, ThreadsAssumption DEF ThunkInv

LEMMA ThunkInvNext == ThunkInv /\ [ThunkNext]_allVars => ThunkInv'
<1>1. ASSUME ThunkInv, NEW th \in Threads, ThunkOp(th) PROVE ThunkInv'
  BY <1>1, ThunkGetStep, ThunkGetCoreStep, MkThunkStep, BindClosureStep, ThunkPureStep,
     ExchangeStep, ReleaseStep, StoreStep, WaitEndsStep DEF ThunkOp
<1>2. ASSUME ThunkInv, NEW th \in Threads, Return(th) PROVE ThunkInv'
  BY <1>2, CodeReturnsStep, BindFnStep DEF Return
<1> QED BY <1>1, <1>2, HeapOpStep, ThunkStutter DEF ThunkNext

LEMMA ThunkInvAlways == ThunkSpec => []ThunkInv
BY ThunkInvInit, ThunkInvNext, PTL DEF ThunkSpec

LEMMA InvCountsExact == ThunkInv => ThunkCountsAreExact
<1> SUFFICES ASSUME ThunkInv, NEW o \in Objs
             PROVE  IF kind[o] = "free" \/ \E th \in Threads : o \in todo[th]
                    THEN ThunkReferences(o) = 0
                    ELSE IsHeapObj(o) => rc[o] = ThunkReferences(o)
  BY DEF ThunkCountsAreExact
<1>1. HeapInv(Locals) /\ Locals[o] \in Nat /\ References(o) \in Nat
  BY InvFacts, ReferencesNat
<1>2. ThunkReferences(o) = References(o) + Locals[o]
  BY DEF ThunkReferences, Locals, LocalsOf
<1>3. Counted(Locals, o)
  BY <1>1 DEF HeapInv
<1> HIDE DEF ThunkReferences
<1> QED BY <1>1, <1>2, <1>3 DEF Counted, Dead

LEMMA InvOneEvaluator == ThunkInv => OneEvaluator
<1> SUFFICES ASSUME ThunkInv, NEW th \in Threads
             PROVE  /\ Applies(th) =>
                        /\ fld[tcur[th]] = <<Null, Null>>
                        /\ \A u \in Threads \ {th} : Applies(u) => tcur[u] # tcur[th]
                    /\ tpc[th] = "wait" =>
                        \/ fld[tcur[th]][1] # Null
                        \/ \E u \in Threads : Applies(u) /\ tcur[u] = tcur[th]
  BY DEF OneEvaluator
<1>1. Evaluator(th) /\ Control(th) /\ HeapTypes
  BY InvFacts
<1>2. ASSUME tpc[th] = "wait", fld[tcur[th]][1] = Null
      PROVE  \E u \in Threads : Applies(u) /\ tcur[u] = tcur[th]
  <2>1. /\ tcur[th] \in Objs /\ kind[tcur[th]] = "thunk" /\ fld[tcur[th]][2] = Null
        /\ ThunkState(tcur[th])
    BY <1>1, <1>2, InvFacts DEF Control, Forces, Evaluator
  <2>2. fld[tcur[th]] = <<Null, Null>>
    BY <1>1, <1>2, <2>1 DEF HeapTypes
  <2> QED BY <2>1, <2>2 DEF ThunkState
<1> QED BY <1>1, <1>2 DEF Evaluator

(* With any number of threads that force the same thunks, make and apply   *)
(* the closures of thunk_bind and give values to each other, the counters  *)
(* are exact: an exclusive closure is consumed by the one thread that got  *)
(* it, a shared one stays complete, and the value has a reference for the  *)
(* thunk and one for everyone who got it from thunk_get_core.              *)
THEOREM ThunkCounts == ThunkSpec => []ThunkCountsAreExact
BY ThunkInvAlways, InvCountsExact, PTL

(* The assertion of thunk_get_core and the end of its waiting loop: of any *)
(* number of threads that force a thunk one evaluates the closure, and a   *)
(* thread that waits finds the value or a thread that is to store it.      *)
THEOREM OneEvaluates == ThunkSpec => []OneEvaluator
BY ThunkInvAlways, InvOneEvaluator, PTL
=============================================================================
