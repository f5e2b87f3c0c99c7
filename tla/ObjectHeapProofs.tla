-------------------------- MODULE ObjectHeapProofs --------------------------
(***************************************************************************)
(* What the steps of ObjectHeap do to the reference counters, for any      *)
(* number of threads, objects and references.  The modules on top of       *)
(* ObjectHeap hold references of their own, X[o] of them to the object o.  *)
(***************************************************************************)
EXTENDS ObjectHeap, SumsProofs, FiniteSetTheorems, TLAPS

LEMMA TimesValue ==
    ASSUME NEW o, NEW a, NEW b
    PROVE  Times(o, a, b) = (IF a = o THEN 1 ELSE 0) + (IF b = o THEN 1 ELSE 0)
<1> DEFINE I == {i \in {1, 2} : <<a, b>>[i] = o}
<1>1. I = (IF a = o THEN {1} ELSE {}) \union (IF b = o THEN {2} ELSE {})
  OBVIOUS
<1>2. Cardinality({}) = 0 /\ Cardinality({1}) = 1 /\ Cardinality({2}) = 1
  BY FS_EmptySet, FS_Singleton
<1>3. Cardinality({1} \union {2}) = 2
  <2>1. IsFiniteSet({1})
    BY FS_Singleton
  <2>2. Cardinality({1} \union {2}) = Cardinality({1}) + 1
    BY <2>1, FS_AddElement
  <2> QED BY <1>2, <2>2
<1> HIDE DEF I
<1>4. CASE a = o /\ b = o
  BY <1>1, <1>3, <1>4 DEF Times, I
<1>5. CASE a = o /\ b # o
  <2>1. I = {1}
    BY <1>1, <1>5
  <2> QED BY <1>2, <1>5, <2>1 DEF Times, I
<1>6. CASE a # o /\ b = o
  <2>1. I = {2}
    BY <1>1, <1>6
  <2> QED BY <1>2, <1>6, <2>1 DEF Times, I
<1>7. CASE a # o /\ b # o
  <2>1. I = {}
    BY <1>1, <1>7
  <2> QED BY <1>2, <1>7, <2>1 DEF Times, I
<1> QED BY <1>4, <1>5, <1>6, <1>7

----------------------------------------------------------------------------
(* The invariant.                                                          *)

Kinds    == {"free", "data", "task", "ref", "thunk", "mapfn", "bindfn"}
Pointers == Objs \union {Box, Null}

(* TypeOK with the kinds of objects that other modules add.                *)
HeapTypes ==
    /\ kind \in [Objs -> Kinds]
    /\ mem \in [Objs -> {"st", "mt", "persistent"}]
    /\ rc \in [Objs -> Nat]
    /\ fld \in [Objs -> Pointers \X Pointers]
    /\ own \in [Threads -> [Objs -> Nat]]
    /\ pend \in [Threads -> Objs \union {Null}]
    /\ todo \in [Threads -> SUBSET Objs]
    /\ task \in [Threads -> Objs \union {Null}]

Holds(th, o)  == own[th][o] + Times(o, pend[th], Null)
Stores(x, o)  == Times(o, fld[x][1], fld[x][2])

(* The memory of o has been freed, or del is about to free it.             *)
Dead(o) == kind[o] = "free" \/ \E th \in Threads : o \in todo[th]

Counted(X, o) ==
    IF Dead(o) THEN References(o) + X[o] = 0
    ELSE IsHeapObj(o) => rc[o] = References(o) + X[o]

(* del deletes every object once: one thread has it on its list.           *)
TodoInv ==
    /\ \A th \in Threads : \A o \in todo[th] :
            kind[o] # "free" /\ IsHeapObj(o) /\ rc[o] = 0
    /\ \A th, u \in Threads : th # u => todo[th] \intersect todo[u] = {}

FreeInv ==
    \A o \in Objs : kind[o] = "free" => fld[o] = <<Null, Null>> /\ mem[o] = "st"

(* A task that runs has no value, and one worker.                          *)
TaskInv ==
    /\ \A o \in Objs : kind[o] = "task" => mem[o] = "mt"
    /\ \A w \in Threads : task[w] # Null =>
            kind[task[w]] = "task" /\ fld[task[w]] = <<Null, Null>>
    /\ \A w, u \in Threads : task[w] = task[u] /\ task[w] # Null => w = u

(* A primitive that ends with a dec does not delete anything before.       *)
PendInv == \A th \in Threads : pend[th] # Null => todo[th] = {}

HeapInv(X) ==
    /\ HeapTypes /\ TodoInv /\ FreeInv /\ TaskInv /\ PendInv
    /\ \A o \in Objs : Counted(X, o)

----------------------------------------------------------------------------
LEMMA TimesType ==
    ASSUME NEW o, NEW a, NEW b
    PROVE  Times(o, a, b) \in Nat /\ Times(o, a, b) <= 2
BY TimesValue

LEMMA HoldsNext ==
    ASSUME NEW th, NEW x, NEW o
    PROVE  /\ Holds(th, o)' = own'[th][o] + Times(o, pend'[th], Null)
           /\ Stores(x, o)' = Times(o, fld'[x][1], fld'[x][2])
BY DEF Holds, Stores, Times

LEMMA HoldsType ==
    ASSUME HeapTypes, NEW o \in Objs
    PROVE  /\ [th \in Threads |-> Holds(th, o)] \in [Threads -> Nat]
           /\ [x \in Objs |-> Stores(x, o)] \in [Objs -> Nat]
           /\ References(o) = Total([th \in Threads |-> Holds(th, o)])
                              + Total([x \in Objs |-> Stores(x, o)])
           /\ References(o) \in Nat
<1>1. ASSUME NEW th \in Threads PROVE Holds(th, o) \in Nat
  BY TimesType DEF HeapTypes, Holds
<1>2. ASSUME NEW x \in Objs PROVE Stores(x, o) \in Nat
  BY TimesType DEF Stores
<1>3. /\ [th \in Threads |-> Holds(th, o)] \in [Threads -> Nat]
      /\ [x \in Objs |-> Stores(x, o)] \in [Objs -> Nat]
  BY <1>1, <1>2
<1>4. References(o) = Total([th \in Threads |-> Holds(th, o)])
                      + Total([x \in Objs |-> Stores(x, o)])
  BY DEF References, Holds, Stores
<1>5. /\ Total([th \in Threads |-> Holds(th, o)]) \in Nat
      /\ Total([x \in Objs |-> Stores(x, o)]) \in Nat
  BY <1>3, PairsFinite, ThreadsAssumption, ObjsAssumption
<1> QED BY <1>3, <1>4, <1>5

LEMMA ReferencesNat == HeapTypes => \A o \in Objs : References(o) \in Nat
BY HoldsType

LEMMA ReferencesNatNext == HeapTypes' => (\A o \in Objs : References(o) \in Nat)'
BY ReferencesNat, PTL

(* How the references to o change when one thread and the fields of one    *)
(* object change.                                                          *)
LEMMA ReferencesUpdate ==
    ASSUME HeapTypes, HeapTypes', NEW th \in Threads, NEW x \in Objs,
           \A t \in Threads : t # th => own'[t] = own[t] /\ pend'[t] = pend[t],
           \A y \in Objs : y # x => fld'[y] = fld[y],
           NEW o \in Objs
    PROVE  /\ References(o) \in Nat /\ References(o)' \in Nat
           /\ Holds(th, o) \in Nat /\ Holds(th, o)' \in Nat
           /\ Stores(x, o) \in Nat /\ Stores(x, o)' \in Nat
           /\ References(o) >= Holds(th, o) + Stores(x, o)
           /\ References(o)' = References(o) - Holds(th, o) + Holds(th, o)'
                               - Stores(x, o) + Stores(x, o)'
<1> DEFINE f == [t \in Threads |-> Holds(t, o)]
           g == [y \in Objs |-> Stores(y, o)]
           ff == [t \in Threads |-> Holds(t, o)']
           gg == [y \in Objs |-> Stores(y, o)']
<1>1. /\ f \in [Threads -> Nat] /\ g \in [Objs -> Nat]
      /\ References(o) = Total(f) + Total(g)
  BY HoldsType
<1>2. /\ ff \in [Threads -> Nat] /\ gg \in [Objs -> Nat]
      /\ References(o)' = Total(ff) + Total(gg)
  <2>1. ASSUME NEW t \in Threads PROVE Holds(t, o)' \in Nat
    BY TimesType DEF HeapTypes, Holds
  <2>2. ASSUME NEW y \in Objs PROVE Stores(y, o)' \in Nat
    BY TimesType DEF Stores
  <2>3. References(o)' = Total(ff) + Total(gg)
    BY DEF References, Holds, Stores, Total, Times
  <2> QED BY <2>1, <2>2, <2>3
<1>3. \A t \in Threads : t # th => ff[t] = f[t]
  BY DEF Holds, Times
<1>4. \A y \in Objs : y # x => gg[y] = g[y]
  BY DEF Stores, Times
<1>5. f[th] = Holds(th, o) /\ ff[th] = Holds(th, o)' /\ g[x] = Stores(x, o)
      /\ gg[x] = Stores(x, o)'
  OBVIOUS
<1> HIDE DEF f, g, ff, gg
<1>6. /\ Total(f) \in Nat /\ Total(ff) \in Nat /\ Total(f) >= f[th]
      /\ Total(ff) = Total(f) - f[th] + ff[th]
  BY <1>1, <1>2, <1>3, TotalUpdate, ThreadsAssumption
<1>7. /\ Total(g) \in Nat /\ Total(gg) \in Nat /\ Total(g) >= g[x]
      /\ Total(gg) = Total(g) - g[x] + gg[x]
  BY <1>1, <1>2, <1>4, TotalUpdate, ObjsAssumption
<1>8. f[th] \in Nat /\ ff[th] \in Nat /\ g[x] \in Nat /\ gg[x] \in Nat
  BY <1>1, <1>2
<1> QED BY <1>1, <1>2, <1>5, <1>6, <1>7, <1>8

(* References that exist keep their object alive.                          *)
LEMMA ReferencesBound ==
    ASSUME HeapTypes, NEW th \in Threads, NEW x \in Objs, NEW o \in Objs
    PROVE  References(o) \in Nat /\ References(o) >= Holds(th, o) + Stores(x, o)
           /\ Holds(th, o) \in Nat /\ Stores(x, o) \in Nat
<1> DEFINE f == [t \in Threads |-> Holds(t, o)]
           g == [y \in Objs |-> Stores(y, o)]
<1>1. /\ f \in [Threads -> Nat] /\ g \in [Objs -> Nat]
      /\ References(o) = Total(f) + Total(g) /\ References(o) \in Nat
  BY HoldsType
<1>2. f[th] = Holds(th, o) /\ g[x] = Stores(x, o)
  OBVIOUS
<1> HIDE DEF f, g
<1>3. Total(f) \in Nat /\ Total(f) >= f[th]
  BY <1>1, TotalUpdate, ThreadsAssumption
<1>4. Total(g) \in Nat /\ Total(g) >= g[x]
  BY <1>1, TotalUpdate, ObjsAssumption
<1>5. f[th] \in Nat /\ g[x] \in Nat
  BY <1>1
<1> QED BY <1>1, <1>2, <1>3, <1>4, <1>5

----------------------------------------------------------------------------
(* The three ways in which counters and references change together.  X and *)
(* Y are the references of other modules before and after the step.        *)

(* Objects in N are new; T[o] references to o are made and counted.  Dead  *)
(* objects get none.                                                       *)
LEMMA GrowStep ==
    ASSUME NEW X \in [Objs -> Nat], NEW Y \in [Objs -> Nat], HeapInv(X), HeapTypes',
           NEW N \in SUBSET Objs, NEW T \in [Objs -> Nat],
           UNCHANGED todo,
           \A o \in N : /\ kind[o] = "free" /\ kind'[o] # "free" /\ rc'[o] = 1
                        /\ References(o)' + Y[o] = 1,
           \A o \in Objs \ N :
               /\ kind'[o] = kind[o]
               /\ IsHeapObj(o)' => IsHeapObj(o)
               /\ rc'[o] = IF IsHeapObj(o) THEN rc[o] + T[o] ELSE rc[o]
               /\ References(o)' + Y[o] = References(o) + X[o] + T[o]
               /\ Dead(o) => T[o] = 0 /\ mem'[o] = mem[o]
    PROVE  (\A o \in Objs : Counted(Y, o)') /\ TodoInv'
<1>1. \A o \in Objs : References(o) \in Nat /\ References(o)' \in Nat
  BY ReferencesNat, ReferencesNatNext DEF HeapInv
<1>2. ASSUME NEW o \in Objs PROVE Counted(Y, o)'
  <2>1. CASE o \in N
    <3>1. \A th \in Threads : o \notin todo'[th]
      BY <2>1 DEF HeapInv, TodoInv
    <3> QED BY <2>1, <3>1 DEF Counted, Dead
  <2>2. CASE o \notin N
    <3>1. Dead(o)' <=> Dead(o)
      BY <2>2 DEF Dead
    <3>2. Counted(X, o)
      BY DEF HeapInv
    <3>3. rc[o] \in Nat /\ T[o] \in Nat /\ X[o] \in Nat /\ Y[o] \in Nat
      BY DEF HeapInv, HeapTypes
    <3>4. CASE Dead(o)
      <4>1. T[o] = 0
        BY <2>2, <3>2, <3>3, <3>4 DEF Counted
      <4> QED BY <1>1, <2>2, <3>1, <3>2, <3>3, <3>4, <4>1 DEF Counted
    <3>5. CASE ~ Dead(o)
      BY <1>1, <2>2, <3>1, <3>2, <3>3, <3>5 DEF Counted
    <3> QED BY <3>4, <3>5
  <2> QED BY <2>1, <2>2
<1>3. TodoInv'
  <2>1. ASSUME NEW th \in Threads, NEW o \in todo'[th]
        PROVE  kind'[o] # "free" /\ IsHeapObj(o)' /\ rc'[o] = 0
    <3>1. /\ o \in Objs /\ o \in todo[th] /\ Dead(o) /\ kind[o] # "free"
          /\ IsHeapObj(o) /\ rc[o] = 0
      BY DEF HeapInv, HeapTypes, TodoInv, Dead
    <3>2. o \notin N /\ T[o] = 0 /\ mem'[o] = mem[o] /\ kind'[o] = kind[o]
      BY <3>1
    <3>3. IsHeapObj(o)'
      BY <3>1, <3>2 DEF IsHeapObj
    <3> QED BY <3>1, <3>2, <3>3
  <2> QED BY <2>1 DEF HeapInv, TodoInv
<1> QED BY <1>2, <1>3

(* A reference to a and one to b are dropped by th, which goes on to       *)
(* delete what nobody refers to any more; the objects in F are freed.      *)
Drops(th, a, b, F) ==
    /\ rc' = DecAll(rc, a, b)
    /\ todo'[th] = (todo[th] \ F) \union Zeroed(a, b)
    /\ \A u \in Threads : u # th => todo'[u] = todo[u]
    /\ \A o \in F : kind'[o] = "free"
    /\ \A o \in Objs \ F : kind'[o] = kind[o] /\ mem'[o] = mem[o]

LEMMA DropStep ==
    ASSUME NEW X \in [Objs -> Nat], NEW Y \in [Objs -> Nat], HeapInv(X), HeapTypes',
           NEW th \in Threads, NEW a, NEW b, NEW F \in SUBSET todo[th], Drops(th, a, b, F),
           \A o \in Objs : References(o)' + Y[o] + Times(o, a, b) = References(o) + X[o]
    PROVE  (\A o \in Objs : Counted(Y, o)') /\ TodoInv'
<1> USE DEF Drops
<1>1. \A o \in Objs : References(o) \in Nat /\ References(o)' \in Nat
  BY ReferencesNat, ReferencesNatNext DEF HeapInv
<1>2. /\ todo \in [Threads -> SUBSET Objs] /\ F \subseteq Objs
      /\ \A u \in Threads : u # th => todo'[u] = todo[u]
      /\ todo'[th] = (todo[th] \ F) \union Zeroed(a, b)
  BY DEF HeapInv, HeapTypes
<1>3. \A o \in Objs : /\ Times(o, a, b) \in Nat /\ X[o] \in Nat /\ Y[o] \in Nat
                      /\ rc[o] \in Nat
                      /\ rc'[o] = IF IsHeapObj(o) THEN rc[o] - Times(o, a, b) ELSE rc[o]
  BY TimesType DEF HeapInv, HeapTypes, DecAll
<1>4. ASSUME NEW o \in Zeroed(a, b)
      PROVE  /\ o \in Objs /\ ~ Dead(o) /\ IsHeapObj(o) /\ rc'[o] = 0
             /\ References(o)' + Y[o] = 0
  <2>1. o \in Objs /\ IsHeapObj(o) /\ Times(o, a, b) > 0 /\ rc[o] = Times(o, a, b)
    BY DEF Zeroed
  <2>2. References(o) + X[o] > 0
    BY <1>1, <1>3, <2>1
  <2>3. Counted(X, o)
    BY <2>1 DEF HeapInv
  <2>4. ~ Dead(o) /\ rc[o] = References(o) + X[o]
    BY <2>1, <2>2, <2>3 DEF Counted
  <2>5. rc'[o] = rc[o] - Times(o, a, b)
    BY <1>3, <2>1
  <2>6. References(o)' + Y[o] + Times(o, a, b) = References(o) + X[o]
    BY <2>1
  <2> QED BY <1>1, <1>3, <2>1, <2>4, <2>5, <2>6
<1>5. ASSUME NEW o \in Objs PROVE Dead(o)' <=> Dead(o) \/ o \in Zeroed(a, b)
  <2>1. CASE o \in F
    BY <1>2, <2>1 DEF Dead
  <2>2. CASE o \notin F
    BY <1>2, <2>2 DEF Dead
  <2> QED BY <2>1, <2>2
<1>6. ASSUME NEW o \in Objs PROVE Counted(Y, o)'
  <2>1. CASE o \in Zeroed(a, b)
    BY <1>4, <1>5, <2>1 DEF Counted
  <2>2. CASE Dead(o)
    <3>1. References(o) + X[o] = 0
      BY <2>2 DEF HeapInv, Counted
    <3>2. References(o)' + Y[o] + Times(o, a, b) = References(o) + X[o]
      OBVIOUS
    <3>3. /\ References(o) \in Nat /\ References(o)' \in Nat /\ Times(o, a, b) \in Nat
          /\ X[o] \in Nat /\ Y[o] \in Nat
      BY <1>1, <1>3
    <3>4. References(o)' + Y[o] = 0
      BY <3>1, <3>2, <3>3
    <3> QED BY <1>5, <2>2, <3>4 DEF Counted
  <2>3. CASE o \notin Zeroed(a, b) /\ ~ Dead(o)
    <3>1. o \notin F /\ ~ Dead(o)'
      BY <1>5, <2>3 DEF Dead
    <3>2. IsHeapObj(o)' <=> IsHeapObj(o)
      BY <3>1 DEF IsHeapObj
    <3>3. IsHeapObj(o) => rc[o] = References(o) + X[o]
      BY <2>3 DEF HeapInv, Counted
    <3> QED BY <1>1, <1>3, <3>1, <3>2, <3>3 DEF Counted
  <2> QED BY <2>1, <2>2, <2>3
<1>7. TodoInv'
  <2>1. ASSUME NEW u \in Threads, NEW o \in todo'[u]
        PROVE  kind'[o] # "free" /\ IsHeapObj(o)' /\ rc'[o] = 0
    <3>1. CASE o \in Zeroed(a, b)
      <4>1. o \notin F
        BY <1>4, <3>1 DEF Dead
      <4> QED BY <1>4, <3>1, <4>1 DEF Dead, IsHeapObj
    <3>2. CASE o \notin Zeroed(a, b)
      <4>1. o \in todo[u] /\ o \in Objs /\ o \notin F
        <5>1. CASE u = th
          BY <1>2, <3>2, <5>1
        <5>2. CASE u # th
          BY <1>2, <5>2 DEF HeapInv, TodoInv
        <5> QED BY <5>1, <5>2
      <4>2. kind[o] # "free" /\ IsHeapObj(o) /\ rc[o] = 0 /\ Dead(o)
        BY <4>1 DEF HeapInv, TodoInv, Dead
      <4>3. References(o) + X[o] = 0
        BY <4>1, <4>2 DEF HeapInv, Counted
      <4>4. References(o)' + Y[o] + Times(o, a, b) = References(o) + X[o]
        BY <4>1
      <4>5. Times(o, a, b) = 0
        <5>1. /\ References(o) \in Nat /\ References(o)' \in Nat /\ Times(o, a, b) \in Nat
              /\ X[o] \in Nat /\ Y[o] \in Nat
          BY <1>1, <1>3, <4>1
        <5> HIDE DEF Drops
        <5> QED BY <4>3, <4>4, <5>1
      <4> QED BY <1>3, <4>1, <4>2, <4>5 DEF IsHeapObj
    <3> QED BY <3>1, <3>2
  <2>2. ASSUME NEW t \in Threads, NEW u \in Threads, t # u
        PROVE  todo'[t] \intersect todo'[u] = {}
    <3>1. \A v \in Threads : todo[v] \intersect Zeroed(a, b) = {}
      BY <1>4 DEF Dead
    <3>2. todo[t] \intersect todo[u] = {}
      BY <2>2 DEF HeapInv, TodoInv
    <3> QED BY <1>2, <2>2, <3>1, <3>2
  <2> QED BY <2>1, <2>2 DEF TodoInv
<1> QED BY <1>6, <1>7

(* References that exist are to objects that live.                         *)
LEMMA Alive ==
    ASSUME NEW X \in [Objs -> Nat], HeapInv(X), NEW o \in Objs, References(o) + X[o] > 0
    PROVE  ~ Dead(o)
BY DEF HeapInv, Counted

LEMMA HeldAlive ==
    ASSUME NEW X \in [Objs -> Nat], HeapInv(X), NEW o \in Objs
    PROVE  /\ \A th \in Threads : own[th][o] > 0 => ~ Dead(o)
           /\ \A th \in Threads : pend[th] = o => ~ Dead(o)
           /\ \A x \in Objs : fld[x][1] = o \/ fld[x][2] = o => ~ Dead(o)
<1>1. HeapTypes /\ X[o] \in Nat
  BY DEF HeapInv
<1>2. ASSUME NEW th \in Threads, own[th][o] > 0 \/ pend[th] = o PROVE ~ Dead(o)
  <2>1. Holds(th, o) > 0
    BY <1>1, <1>2, TimesValue DEF Holds, HeapTypes
  <2>2. References(o) \in Nat /\ References(o) >= Holds(th, o) + Stores(o, o)
        /\ Holds(th, o) \in Nat /\ Stores(o, o) \in Nat
    BY <1>1, ReferencesBound
  <2>3. References(o) + X[o] > 0
    BY <1>1, <2>1, <2>2
  <2> QED BY <2>3, Alive
<1>3. ASSUME NEW x \in Objs, fld[x][1] = o \/ fld[x][2] = o PROVE ~ Dead(o)
  <2>1. Stores(x, o) > 0
    BY <1>3, TimesValue DEF Stores
  <2>2. References(o) \in Nat /\ References(o) >= Holds(Main, o) + Stores(x, o)
        /\ Holds(Main, o) \in Nat /\ Stores(x, o) \in Nat
    BY <1>1, ReferencesBound, ThreadsAssumption
  <2>3. References(o) + X[o] > 0
    BY <1>1, <2>1, <2>2
  <2> QED BY <2>3, Alive
<1> QED BY <1>2, <1>3

(* The counters and the references of a thread after inc and dec.          *)
LEMMA CountTypes ==
    ASSUME HeapTypes, NEW th \in Threads, NEW a, NEW b
    PROVE  /\ IncAll(rc, a, b) \in [Objs -> Nat]
           /\ \A o \in Objs : IncAll(rc, a, b)[o]
                              = IF IsHeapObj(o) THEN rc[o] + Times(o, a, b) ELSE rc[o]
           /\ Gain(own[th], a) \in [Objs -> Nat]
           /\ \A o \in Objs : Gain(own[th], a)[o] = own[th][o] + Times(o, a, Null)
           /\ Owns(th, a, b) => Lose(own[th], a, b) \in [Objs -> Nat]
           /\ \A o \in Objs : Lose(own[th], a, b)[o] = own[th][o] - Times(o, a, b)
BY TimesType DEF HeapTypes, IncAll, Gain, Lose, Owns

LEMMA DecAllType ==
    ASSUME NEW X \in [Objs -> Nat], HeapInv(X), NEW a, NEW b,
           \A o \in Objs : Times(o, a, b) <= References(o) + X[o]
    PROVE  /\ DecAll(rc, a, b) \in [Objs -> Nat]
           /\ Zeroed(a, b) \in SUBSET Objs
<1>1. ASSUME NEW o \in Objs, IsHeapObj(o)
      PROVE  rc[o] - Times(o, a, b) \in Nat
  <2>1. /\ rc[o] \in Nat /\ Times(o, a, b) \in Nat /\ X[o] \in Nat
        /\ References(o) \in Nat /\ Times(o, a, b) <= References(o) + X[o]
    BY TimesType, ReferencesNat DEF HeapInv, HeapTypes
  <2>2. Counted(X, o)
    BY DEF HeapInv
  <2>3. Times(o, a, b) = 0 \/ rc[o] = References(o) + X[o]
    BY <1>1, <2>1, <2>2 DEF Counted
  <2> QED BY <2>1, <2>3
<1>2. \A o \in Objs : rc[o] \in Nat
  BY DEF HeapInv, HeapTypes
<1> QED BY <1>1, <1>2 DEF DecAll, Zeroed

LEMMA NullIsNoObj == \A o \in Objs : o # Null /\ o # Box /\ Times(o, Null, Null) = 0
                                     /\ Times(o, Box, Null) = 0
BY ObjsAssumption, TimesValue

----------------------------------------------------------------------------
(* The steps of ObjectHeap.                                                *)

(* A thread gets a counted reference to something that lives.              *)
LEMMA GainOne ==
    ASSUME NEW X \in [Objs -> Nat], HeapInv(X), NEW th \in Threads, NEW v \in Pointers,
           v \in Objs => ~ Dead(v),
           own' = [own EXCEPT ![th] = Gain(own[th], v)], rc' = IncAll(rc, v, Null),
           UNCHANGED <<kind, mem, fld, pend, todo, task>>
    PROVE  HeapInv(X)'
<1>1. HeapTypes
  BY DEF HeapInv
<1>2. /\ IncAll(rc, v, Null) \in [Objs -> Nat] /\ Gain(own[th], v) \in [Objs -> Nat]
      /\ \A o \in Objs : rc'[o] = IF IsHeapObj(o) THEN rc[o] + Times(o, v, Null) ELSE rc[o]
      /\ \A o \in Objs : Gain(own[th], v)[o] = own[th][o] + Times(o, v, Null)
  BY <1>1, CountTypes
<1>3. HeapTypes'
  BY <1>1, <1>2 DEF HeapTypes
<1>4. own'[th] = Gain(own[th], v) /\ \A t \in Threads : t # th => own'[t] = own[t]
  BY <1>1 DEF HeapTypes
<1>5. ASSUME NEW o \in Objs
      PROVE  /\ References(o)' + X[o] = References(o) + X[o] + Times(o, v, Null)
             /\ Times(o, v, Null) \in Nat
             /\ Dead(o) => Times(o, v, Null) = 0
  <2>1. Holds(th, o)' = Holds(th, o) + Times(o, v, Null) /\ Stores(o, o)' = Stores(o, o)
    <3>1. own'[th][o] = own[th][o] + Times(o, v, Null)
      BY <1>2, <1>4
    <3>2. own[th][o] \in Nat /\ Times(o, v, Null) \in Nat /\ Times(o, pend[th], Null) \in Nat
      BY <1>1, TimesType DEF HeapTypes
    <3>3. Times(o, pend[th], Null)' = Times(o, pend[th], Null)
      BY DEF Times
    <3> QED BY <3>1, <3>2, <3>3 DEF Holds, Stores, Times
  <2>2. /\ References(o) \in Nat /\ References(o)' \in Nat
        /\ Holds(th, o) \in Nat /\ Holds(th, o)' \in Nat
        /\ Stores(o, o) \in Nat /\ Stores(o, o)' \in Nat
        /\ References(o)' = References(o) - Holds(th, o) + Holds(th, o)'
                            - Stores(o, o) + Stores(o, o)'
    BY <1>1, <1>3, <1>4, ReferencesUpdate
  <2>3. Times(o, v, Null) \in Nat /\ X[o] \in Nat
    BY TimesType
  <2>4. Dead(o) => Times(o, v, Null) = 0
    BY TimesValue, NullIsNoObj
  <2> QED BY <2>1, <2>2, <2>3, <2>4
<1>6. (\A o \in Objs : Counted(X, o)') /\ TodoInv'
  <2> DEFINE T == [o \in Objs |-> Times(o, v, Null)]
  <2>1. T \in [Objs -> Nat] /\ \A o \in Objs : T[o] = Times(o, v, Null)
    BY <1>5
  <2> HIDE DEF T
  <2>2. PICK N \in SUBSET Objs : N = {}
    OBVIOUS
  <2>3. \A o \in Objs \ N :
               /\ kind'[o] = kind[o]
               /\ IsHeapObj(o)' => IsHeapObj(o)
               /\ rc'[o] = IF IsHeapObj(o) THEN rc[o] + T[o] ELSE rc[o]
               /\ References(o)' + X[o] = References(o) + X[o] + T[o]
               /\ Dead(o) => T[o] = 0 /\ mem'[o] = mem[o]
    BY <1>2, <1>5, <2>1 DEF IsHeapObj
  <2>4. \A o \in N : /\ kind[o] = "free" /\ kind'[o] # "free" /\ rc'[o] = 1
                     /\ References(o)' + X[o] = 1
    BY <2>2
  <2>5. UNCHANGED todo
    OBVIOUS
  <2> QED BY <1>3, <2>1, <2>3, <2>4, <2>5, GrowStep
<1>7. FreeInv' /\ TaskInv' /\ PendInv'
  BY DEF HeapInv, FreeInv, TaskInv, PendInv
<1> QED BY <1>3, <1>6, <1>7 DEF HeapInv

LEMMA IncStep ==
    ASSUME NEW X \in [Objs -> Nat], HeapInv(X), NEW th \in Threads, NEW o \in Objs, Inc(th, o)
    PROVE  HeapInv(X)'
BY GainOne, HeldAlive DEF Inc, SetOwn, Pointers

LEMMA ProjStep ==
    ASSUME NEW X \in [Objs -> Nat], HeapInv(X), NEW th \in Threads, NEW o \in Objs,
           NEW i \in {1, 2}, Proj(th, o, i)
    PROVE  HeapInv(X)'
<1>1. PICK v \in Objs : v = fld[o][i]
  BY DEF Proj
<1>2. ~ Dead(v)
  BY <1>1, HeldAlive
<1>3. /\ rc' = IncAll(rc, v, Null) /\ own' = [own EXCEPT ![th] = Gain(own[th], v)]
      /\ UNCHANGED <<kind, mem, fld, pend, todo, task>>
  BY <1>1 DEF Proj, SetOwn
<1> QED BY <1>2, <1>3, GainOne DEF Pointers

LEMMA ReadConstantStep ==
    ASSUME NEW X \in [Objs -> Nat], HeapInv(X), NEW th \in Threads, NEW o \in Objs,
           ReadConstant(th, o)
    PROVE  HeapInv(X)'
<1>1. /\ mem[o] = "persistent" /\ own' = [own EXCEPT ![th] = Gain(own[th], o)]
      /\ UNCHANGED <<kind, mem, rc, fld, pend, todo, task>>
  BY DEF ReadConstant, SetOwn, objVars
<1>2. ~ Dead(o)
  BY <1>1 DEF HeapInv, TodoInv, FreeInv, Dead, IsHeapObj
<1>3. rc = IncAll(rc, o, Null)
  <2>1. IncAll(rc, o, Null) \in [Objs -> Nat] /\ rc \in [Objs -> Nat]
    BY CountTypes DEF HeapInv, HeapTypes
  <2>2. ASSUME NEW x \in Objs PROVE IncAll(rc, o, Null)[x] = rc[x]
    <3>1. IncAll(rc, o, Null)[x] = IF IsHeapObj(x) THEN rc[x] + Times(x, o, Null) ELSE rc[x]
      BY CountTypes DEF HeapInv
    <3>2. IsHeapObj(x) => Times(x, o, Null) = 0
      BY <1>1, TimesValue, NullIsNoObj DEF IsHeapObj
    <3>3. rc[x] \in Nat
      BY <2>1
    <3> QED BY <3>1, <3>2, <3>3
  <2> QED BY <2>1, <2>2
<1> QED BY <1>1, <1>2, <1>3, GainOne DEF Pointers

(* A thread gives up a reference to v, and dec is called for it.           *)
GivesUp(th, v) ==
    /\ todo[th] = {} /\ pend'[th] = Null
    /\ own' \in [Threads -> [Objs -> Nat]]
    /\ pend' \in [Threads -> Objs \union {Null}]
    /\ \A t \in Threads : t # th => own'[t] = own[t] /\ pend'[t] = pend[t]
    /\ \A o \in Objs : own'[th][o] + Times(o, v, Null)
                       = own[th][o] + Times(o, pend[th], Null)
    /\ rc' = DecAll(rc, v, Null)
    /\ todo' = [todo EXCEPT ![th] = Zeroed(v, Null)]
    /\ UNCHANGED <<kind, mem, fld, task>>

LEMMA DropHeld ==
    ASSUME NEW X \in [Objs -> Nat], HeapInv(X), NEW th \in Threads, NEW v, GivesUp(th, v)
    PROVE  HeapInv(X)'
<1> USE DEF GivesUp
<1>1. HeapTypes
  BY DEF HeapInv
<1>2. ASSUME NEW o \in Objs
      PROVE  /\ Times(o, v, Null) \in Nat /\ Times(o, v, Null) <= Holds(th, o)
             /\ Holds(th, o)' + Times(o, v, Null) = Holds(th, o)
  <2>1. /\ own'[th][o] \in Nat /\ Times(o, v, Null) \in Nat /\ own[th][o] \in Nat
        /\ Times(o, pend[th], Null) \in Nat
    BY <1>1, TimesType DEF HeapTypes
  <2>2. Holds(th, o) = own[th][o] + Times(o, pend[th], Null)
    BY DEF Holds
  <2>3. Holds(th, o)' = own'[th][o] + Times(o, Null, Null)
    BY DEF Holds, Times
  <2>4. Holds(th, o)' = own'[th][o]
    BY <2>1, <2>3, NullIsNoObj
  <2> QED BY <2>1, <2>2, <2>4
<1>3. \A o \in Objs : Times(o, v, Null) <= References(o) + X[o]
  <2> TAKE o \in Objs
  <2>1. /\ References(o) \in Nat /\ References(o) >= Holds(th, o) + Stores(o, o)
        /\ Holds(th, o) \in Nat /\ Stores(o, o) \in Nat
    BY <1>1, ReferencesBound
  <2>2. X[o] \in Nat
    OBVIOUS
  <2> QED BY <1>2, <2>1, <2>2
<1>4. DecAll(rc, v, Null) \in [Objs -> Nat] /\ Zeroed(v, Null) \in SUBSET Objs
  BY <1>3, DecAllType
<1>5. HeapTypes'
  BY <1>1, <1>4 DEF HeapTypes
<1>6. ASSUME NEW o \in Objs
      PROVE  References(o)' + X[o] + Times(o, v, Null) = References(o) + X[o]
  <2>1. Stores(o, o)' = Stores(o, o)
    BY DEF Stores, Times
  <2>2. /\ References(o) \in Nat /\ References(o)' \in Nat
        /\ Holds(th, o) \in Nat /\ Holds(th, o)' \in Nat
        /\ Stores(o, o) \in Nat /\ Stores(o, o)' \in Nat
        /\ References(o)' = References(o) - Holds(th, o) + Holds(th, o)'
                            - Stores(o, o) + Stores(o, o)'
    BY <1>1, <1>5, ReferencesUpdate
  <2>3. X[o] \in Nat
    OBVIOUS
  <2> QED BY <1>2, <2>1, <2>2, <2>3
<1>7. (\A o \in Objs : Counted(X, o)') /\ TodoInv'
  <2>1. PICK F \in SUBSET todo[th] : F = {}
    OBVIOUS
  <2>2. Drops(th, v, Null, F)
    BY <1>1, <2>1 DEF Drops, HeapTypes
  <2> QED BY <1>5, <1>6, <2>2, DropStep
<1>8. FreeInv' /\ TaskInv'
  BY DEF HeapInv, FreeInv, TaskInv
<1>9. PendInv'
  BY <1>1 DEF HeapInv, PendInv, HeapTypes
<1> QED BY <1>5, <1>7, <1>8, <1>9 DEF HeapInv

LEMMA DecStep ==
    ASSUME NEW X \in [Objs -> Nat], HeapInv(X), NEW th \in Threads, NEW o \in Objs, Dec(th, o)
    PROVE  HeapInv(X)'
<1>1. HeapTypes
  BY DEF HeapInv
<1>2. /\ pend[th] = Null /\ todo[th] = {} /\ own[th][o] > 0
      /\ rc' = DecAll(rc, o, Null) /\ todo' = [todo EXCEPT ![th] = Zeroed(o, Null)]
      /\ own' = [own EXCEPT ![th] = Lose(own[th], o, Null)]
      /\ UNCHANGED <<kind, mem, fld, pend, task>>
  BY DEF Dec, Running, SetOwn
<1>3. Owns(th, o, Null)
  BY <1>1, <1>2, TimesValue, NullIsNoObj DEF Owns, HeapTypes
<1>4. /\ Lose(own[th], o, Null) \in [Objs -> Nat]
      /\ \A x \in Objs : Lose(own[th], o, Null)[x] = own[th][x] - Times(x, o, Null)
  BY <1>1, <1>3, CountTypes
<1>5. /\ own' \in [Threads -> [Objs -> Nat]] /\ pend' \in [Threads -> Objs \union {Null}]
      /\ own'[th] = Lose(own[th], o, Null)
      /\ \A t \in Threads : t # th => own'[t] = own[t] /\ pend'[t] = pend[t]
  BY <1>1, <1>2, <1>4 DEF HeapTypes
<1>6. ASSUME NEW x \in Objs
      PROVE  own'[th][x] + Times(x, o, Null) = own[th][x] + Times(x, pend[th], Null)
  <2>1. own[th][x] \in Nat /\ Times(x, o, Null) \in Nat
    BY <1>1, TimesType DEF HeapTypes
  <2> QED BY <1>2, <1>4, <1>5, <2>1, NullIsNoObj
<1>7. GivesUp(th, o)
  BY <1>2, <1>5, <1>6 DEF GivesUp
<1> QED BY <1>7, DropHeld

LEMMA DecPendingStep ==
    ASSUME NEW X \in [Objs -> Nat], HeapInv(X), NEW th \in Threads, DecPending(th)
    PROVE  HeapInv(X)'
<1>1. HeapTypes
  BY DEF HeapInv
<1>2. PICK v \in Objs : v = pend[th]
  BY <1>1 DEF DecPending, HeapTypes
<1>3. /\ v # Null /\ rc' = DecAll(rc, v, Null)
      /\ todo' = [todo EXCEPT ![th] = Zeroed(v, Null)]
      /\ pend' = [pend EXCEPT ![th] = Null]
      /\ UNCHANGED <<kind, mem, fld, own, task>>
  BY <1>2 DEF DecPending
<1>4. todo[th] = {}
  BY <1>2, <1>3 DEF HeapInv, PendInv
<1>5. /\ own' \in [Threads -> [Objs -> Nat]] /\ pend' \in [Threads -> Objs \union {Null}]
      /\ pend'[th] = Null
      /\ \A t \in Threads : t # th => own'[t] = own[t] /\ pend'[t] = pend[t]
  BY <1>1, <1>3 DEF HeapTypes
<1>6. \A x \in Objs : own'[th][x] + Times(x, v, Null) = own[th][x] + Times(x, pend[th], Null)
  BY <1>2, <1>3
<1>7. GivesUp(th, v)
  BY <1>3, <1>4, <1>5, <1>6 DEF GivesUp
<1> QED BY <1>7, DropHeld

(* del takes an object off its list: a task that runs stays, any other     *)
(* object gives up the references in its fields and is freed.              *)
LEMMA DelCoreStep ==
    ASSUME NEW X \in [Objs -> Nat], HeapInv(X), NEW th \in Threads, NEW o \in Objs,
           DelCore(th, o)
    PROVE  HeapInv(X)'
<1>1. HeapTypes
  BY DEF HeapInv
<1>2. PICK a \in Pointers : a = fld[o][1]
  BY <1>1 DEF HeapTypes
<1>3. PICK b \in Pointers : b = fld[o][2]
  BY <1>1 DEF HeapTypes
<1>4. o \in todo[th] /\ UNCHANGED <<own, pend, task>>
  BY DEF DelCore
<1>5. kind[o] # "free" /\ IsHeapObj(o) /\ rc[o] = 0 /\ Dead(o) /\ References(o) + X[o] = 0
  BY <1>4 DEF HeapInv, TodoInv, Dead, Counted
<1>6. CASE \E w \in Threads : task[w] = o
  <2>1. todo' = [todo EXCEPT ![th] = @ \ {o}] /\ UNCHANGED <<kind, mem, rc, fld>>
    BY <1>6 DEF DelCore, objVars
  <2>2. HeapTypes'
    BY <1>1, <1>4, <2>1 DEF HeapTypes
  <2>3. \A u \in Threads : todo'[u] \subseteq todo[u]
        /\ \A x \in todo[u] : x # o => x \in todo'[u]
    BY <1>1, <2>1 DEF HeapTypes
  <2>4. TodoInv' /\ FreeInv' /\ TaskInv' /\ PendInv'
    BY <1>4, <2>1, <2>3 DEF HeapInv, TodoInv, FreeInv, TaskInv, PendInv, IsHeapObj
  <2>5. ASSUME NEW x \in Objs PROVE Counted(X, x)'
    <3>1. References(x)' = References(x) /\ rc'[x] = rc[x] /\ (IsHeapObj(x)' <=> IsHeapObj(x))
      BY <1>4, <2>1 DEF References, Total, Times, IsHeapObj
    <3>2. CASE x = o
      <4>1. \A u \in Threads : o \notin todo'[u]
        BY <1>1, <1>4, <2>1, <2>3 DEF HeapInv, TodoInv, HeapTypes
      <4> QED BY <1>5, <2>1, <3>1, <3>2, <4>1 DEF Counted, Dead
    <3>3. CASE x # o
      <4>1. Dead(x)' <=> Dead(x)
        BY <2>1, <2>3, <3>3 DEF Dead
      <4> QED BY <3>1, <4>1 DEF HeapInv, Counted
    <3> QED BY <3>2, <3>3
  <2> QED BY <2>2, <2>4, <2>5 DEF HeapInv
<1>7. CASE ~ \E w \in Threads : task[w] = o
  <2>1. /\ rc' = DecAll(rc, a, b)
        /\ todo' = [todo EXCEPT ![th] = (@ \ {o}) \union Zeroed(a, b)]
        /\ kind' = [kind EXCEPT ![o] = "free"]
        /\ mem' = [mem EXCEPT ![o] = "st"]
        /\ fld' = [fld EXCEPT ![o] = <<Null, Null>>]
    BY <1>2, <1>3, <1>7 DEF DelCore
  <2>2. \A x \in Objs : Times(x, a, b) <= References(x) + X[x]
    <3> TAKE x \in Objs
    <3>1. /\ References(x) \in Nat /\ References(x) >= Holds(th, x) + Stores(o, x)
          /\ Holds(th, x) \in Nat /\ Stores(o, x) \in Nat
      BY <1>1, ReferencesBound
    <3>2. X[x] \in Nat /\ Stores(o, x) = Times(x, a, b)
      BY <1>2, <1>3 DEF Stores
    <3> QED BY <3>1, <3>2
  <2>3. DecAll(rc, a, b) \in [Objs -> Nat] /\ Zeroed(a, b) \in SUBSET Objs
    BY <2>2, DecAllType
  <2>4. HeapTypes'
    <3>1. todo' \in [Threads -> SUBSET Objs]
      BY <1>1, <2>1, <2>3 DEF HeapTypes
    <3>2. fld' \in [Objs -> Pointers \X Pointers]
      BY <1>1, <2>1 DEF HeapTypes, Pointers
    <3>3. kind' \in [Objs -> Kinds]
      BY <1>1, <2>1 DEF HeapTypes, Kinds
    <3>4. mem' \in [Objs -> {"st", "mt", "persistent"}]
      BY <1>1, <2>1 DEF HeapTypes
    <3>5. rc' \in [Objs -> Nat]
      BY <2>1, <2>3
    <3> QED BY <1>1, <1>4, <3>1, <3>2, <3>3, <3>4, <3>5 DEF HeapTypes
  <2>5. fld'[o] = <<Null, Null>> /\ \A y \in Objs : y # o => fld'[y] = fld[y]
    BY <1>1, <2>1 DEF HeapTypes
  <2>6. ASSUME NEW x \in Objs
        PROVE  References(x)' + X[x] + Times(x, a, b) = References(x) + X[x]
    <3>1. Stores(o, x) = Times(x, a, b) /\ Holds(th, x)' = Holds(th, x)
      BY <1>2, <1>3, <1>4 DEF Stores, Holds, Times
    <3>2. Stores(o, x)' = Times(x, Null, Null)
      BY <2>5 DEF Stores, Times
    <3>3. Stores(o, x)' = 0
      BY <3>2, NullIsNoObj
    <3>4. /\ References(x) \in Nat /\ References(x)' \in Nat
          /\ Holds(th, x) \in Nat /\ Holds(th, x)' \in Nat
          /\ Stores(o, x) \in Nat /\ Stores(o, x)' \in Nat
          /\ References(x)' = References(x) - Holds(th, x) + Holds(th, x)'
                              - Stores(o, x) + Stores(o, x)'
      BY <1>1, <1>4, <2>4, <2>5, ReferencesUpdate
    <3>5. X[x] \in Nat
      OBVIOUS
    <3> QED BY <3>1, <3>3, <3>4, <3>5
  <2>7. (\A x \in Objs : Counted(X, x)') /\ TodoInv'
    <3>1. PICK F \in SUBSET todo[th] : F = {o}
      BY <1>4
    <3>2. Drops(th, a, b, F)
      BY <1>1, <2>1, <3>1 DEF Drops, HeapTypes
    <3> QED BY <2>4, <2>6, <3>2, DropStep
  <2>8. FreeInv'
    BY <1>1, <2>1, <2>5 DEF HeapInv, FreeInv, HeapTypes
  <2>9. TaskInv'
    BY <1>1, <1>4, <1>7, <2>1, <2>5 DEF HeapInv, TaskInv, HeapTypes
  <2>10. PendInv'
    BY <1>1, <1>4, <2>1 DEF HeapInv, PendInv, HeapTypes
  <2> QED BY <2>4, <2>7, <2>8, <2>9, <2>10 DEF HeapInv
<1> QED BY <1>6, <1>7

(* References are handed over from th to w.                                *)
LEMMA ReferencesHandOver ==
    ASSUME HeapTypes, HeapTypes', NEW th \in Threads, NEW w \in Threads, th # w,
           \A t \in Threads : t \notin {th, w} => own'[t] = own[t], UNCHANGED <<pend, fld>>,
           NEW o \in Objs
    PROVE  /\ References(o) \in Nat /\ References(o)' \in Nat
           /\ Holds(th, o) \in Nat /\ Holds(th, o)' \in Nat
           /\ Holds(w, o) \in Nat /\ Holds(w, o)' \in Nat
           /\ References(o) >= Holds(th, o)
           /\ References(o) >= Holds(w, o)
           /\ References(o)' = References(o) - Holds(th, o) + Holds(th, o)'
                               - Holds(w, o) + Holds(w, o)'
<1> DEFINE f == [t \in Threads |-> Holds(t, o)]
           g == [y \in Objs |-> Stores(y, o)]
           ff == [t \in Threads |-> Holds(t, o)']
           mid == [t \in Threads |-> IF t = th THEN Holds(t, o)' ELSE Holds(t, o)]
<1>1. /\ f \in [Threads -> Nat] /\ g \in [Objs -> Nat]
      /\ References(o) = Total(f) + Total(g)
  BY HoldsType
<1>2. \A t \in Threads : Holds(t, o)' \in Nat /\ Holds(t, o) \in Nat
  <2> TAKE t \in Threads
  <2>1. Holds(t, o)' \in Nat
    BY TimesType DEF HeapTypes, Holds
  <2>2. Holds(t, o) \in Nat
    BY TimesType DEF HeapTypes, Holds
  <2> QED BY <2>1, <2>2
<1>3. ff \in [Threads -> Nat] /\ mid \in [Threads -> Nat]
  BY <1>2
<1>4. References(o)' = Total(ff) + Total(g)
  BY DEF References, Holds, Stores, Total, Times
<1>5. \A t \in Threads : t # th => mid[t] = f[t]
  OBVIOUS
<1>6. \A t \in Threads : t # w => ff[t] = mid[t]
  BY DEF Holds, Times
<1>7. /\ f[th] = Holds(th, o) /\ mid[th] = Holds(th, o)' /\ f[w] = Holds(w, o)
      /\ mid[w] = Holds(w, o) /\ ff[w] = Holds(w, o)'
  OBVIOUS
<1> HIDE DEF f, g, ff, mid
<1>8. /\ Total(f) \in Nat /\ Total(mid) \in Nat /\ Total(f) >= f[th]
      /\ Total(mid) = Total(f) - f[th] + mid[th]
  BY <1>1, <1>3, <1>5, TotalUpdate, ThreadsAssumption
<1>9. /\ Total(ff) \in Nat /\ Total(ff) = Total(mid) - mid[w] + ff[w]
  BY <1>3, <1>6, TotalUpdate, ThreadsAssumption
<1>10. Total(f) >= f[w]
  BY <1>1, TotalUpdate, ThreadsAssumption
<1>11. Total(g) \in Nat
  BY <1>1, PairsFinite, ObjsAssumption
<1>12. /\ Holds(th, o) \in Nat /\ Holds(th, o)' \in Nat
       /\ Holds(w, o) \in Nat /\ Holds(w, o)' \in Nat
  BY <1>2
<1> QED BY <1>1, <1>4, <1>7, <1>8, <1>9, <1>10, <1>11, <1>12

----------------------------------------------------------------------------
(* Markings visit objects that live.                                       *)
LEMMA VisitedAlive ==
    ASSUME NEW X \in [Objs -> Nat], HeapInv(X), NEW c, c \in Objs => ~ Dead(c), NEW M
    PROVE  \A x \in Visited(c, M) : x \in Objs /\ mem[x] \in M /\ ~ Dead(x)
<1> DEFINE S == {x \in Objs : ~ Dead(x)}
<1>1. {c} \intersect Objs \subseteq S
  OBVIOUS
<1>2. Closed(S, M)
  <2>1. ASSUME NEW y \in S, NEW z \in {fld[y][1], fld[y][2]} \intersect Objs PROVE z \in S
    BY HeldAlive
  <2> HIDE DEF S
  <2> QED BY <2>1 DEF Closed
<1>3. S \in SUBSET Objs
  OBVIOUS
<1>4. ASSUME NEW x \in Visited(c, M) PROVE x \in S /\ mem[x] \in M
  <2> HIDE DEF S
  <2> QED BY <1>1, <1>2, <1>3 DEF Visited
<1> QED BY <1>4

(* What a marking may do to the memory of the objects.                     *)
Remarks(m) ==
    /\ m \in [Objs -> {"st", "mt", "persistent"}]
    /\ \A o \in Objs : m[o] # mem[o] => ~ Dead(o) /\ IsHeapObj(o) /\ kind[o] # "task"

LEMMA MarkMTRemarks ==
    ASSUME NEW X \in [Objs -> Nat], HeapInv(X), NEW c, c \in Objs => ~ Dead(c)
    PROVE  Remarks(MarkMT(c))
<1>1. \A x \in Visited(c, {"st"}) : x \in Objs /\ mem[x] \in {"st"} /\ ~ Dead(x)
  BY VisitedAlive
<1>2. \A x \in Objs : kind[x] = "task" => mem[x] = "mt"
  BY DEF HeapInv, TaskInv
<1> QED BY <1>1, <1>2 DEF Remarks, MarkMT, IsHeapObj, HeapInv, HeapTypes

LEMMA MarkPersistentRemarks ==
    ASSUME NEW X \in [Objs -> Nat], HeapInv(X), NEW c, c \in Objs => ~ Dead(c),
           \A x \in Objs : kind[x] # "task"
    PROVE  Remarks(MarkPersistent(c))
<1>1. \A x \in Visited(c, {"st", "mt"}) : x \in Objs /\ mem[x] \in {"st", "mt"} /\ ~ Dead(x)
  BY VisitedAlive
<1> QED BY <1>1 DEF Remarks, MarkPersistent, IsHeapObj, HeapInv, HeapTypes

----------------------------------------------------------------------------
LEMMA IncNothing ==
    ASSUME HeapTypes, NEW v, v \notin Objs
    PROVE  IncAll(rc, v, Null) = rc /\ \A o \in Objs : Times(o, v, Null) = 0
<1>1. \A o \in Objs : Times(o, v, Null) = 0
  BY TimesValue, NullIsNoObj
<1>2. \A o \in Objs : rc[o] \in Nat
  BY DEF HeapTypes
<1> QED BY <1>1, <1>2 DEF IncAll, HeapTypes

(* Thread th makes the object n with the fields a and b, of references it  *)
(* has and a new one to v.                                                 *)
Makes(th, n, k, a, b, v) ==
    /\ kind[n] = "free" /\ todo[th] = {}
    /\ kind' = [kind EXCEPT ![n] = k]
    /\ rc' = [IncAll(rc, v, Null) EXCEPT ![n] = 1]
    /\ fld' = [fld EXCEPT ![n] = <<a, b>>]
    /\ own' \in [Threads -> [Objs -> Nat]]
    /\ pend' \in [Threads -> Objs \union {Null}]
    /\ \A t \in Threads : t # th => own'[t] = own[t] /\ pend'[t] = pend[t]
    /\ \A o \in Objs : own'[th][o] + Times(o, pend'[th], Null) + Times(o, a, b)
                       = Holds(th, o) + Times(o, v, Null) + Times(o, n, Null)
    /\ UNCHANGED <<mem, todo, task>>

LEMMA MakeStep ==
    ASSUME NEW X \in [Objs -> Nat], HeapInv(X), NEW th \in Threads, NEW n \in Objs,
           NEW k \in Kinds \ {"free", "task"}, NEW a \in Pointers, NEW b \in Pointers,
           NEW v \in Pointers, v \in Objs => ~ Dead(v), Makes(th, n, k, a, b, v)
    PROVE  HeapInv(X)'
<1> USE DEF Makes
<1>1. HeapTypes
  BY DEF HeapInv
<1>2. /\ IncAll(rc, v, Null) \in [Objs -> Nat]
      /\ \A o \in Objs : IncAll(rc, v, Null)[o]
                         = IF IsHeapObj(o) THEN rc[o] + Times(o, v, Null) ELSE rc[o]
  BY <1>1, CountTypes
<1>3. HeapTypes'
  <2>1. kind' \in [Objs -> Kinds]
    BY <1>1 DEF HeapTypes
  <2>2. fld' \in [Objs -> Pointers \X Pointers]
    BY <1>1 DEF HeapTypes
  <2>3. rc' \in [Objs -> Nat]
    BY <1>2
  <2> QED BY <1>1, <2>1, <2>2, <2>3 DEF HeapTypes
<1>4. fld'[n] = <<a, b>> /\ \A y \in Objs : y # n => fld'[y] = fld[y]
  BY <1>1 DEF HeapTypes
<1>5. kind'[n] = k /\ \A y \in Objs : y # n => kind'[y] = kind[y]
  BY <1>1 DEF HeapTypes
<1>6. Dead(n) /\ fld[n] = <<Null, Null>>
  BY DEF Dead, HeapInv, FreeInv
<1>7. ASSUME NEW o \in Objs
      PROVE  /\ References(o)' = References(o) + Times(o, v, Null) + Times(o, n, Null)
             /\ References(o) \in Nat
             /\ Dead(o) => Times(o, v, Null) = 0
  <2>1. /\ References(o) \in Nat /\ References(o)' \in Nat
        /\ Holds(th, o) \in Nat /\ Holds(th, o)' \in Nat
        /\ Stores(n, o) \in Nat /\ Stores(n, o)' \in Nat
        /\ References(o)' = References(o) - Holds(th, o) + Holds(th, o)'
                            - Stores(n, o) + Stores(n, o)'
    BY <1>1, <1>3, <1>4, ReferencesUpdate
  <2>2. Stores(n, o) = 0
    BY <1>6, NullIsNoObj DEF Stores
  <2>3. Stores(n, o)' = Times(o, a, b)
    <3>1. fld'[n][1] = a /\ fld'[n][2] = b
      BY <1>4
    <3> QED BY <3>1, HoldsNext
  <2>4. Holds(th, o)' = own'[th][o] + Times(o, pend'[th], Null)
    BY HoldsNext
  <2>5. Holds(th, o)' + Times(o, a, b) = Holds(th, o) + Times(o, v, Null) + Times(o, n, Null)
    BY <2>4
  <2>6. Times(o, a, b) \in Nat /\ Times(o, v, Null) \in Nat /\ Times(o, n, Null) \in Nat
    BY TimesType
  <2>7. Dead(o) => Times(o, v, Null) = 0
    BY TimesValue, NullIsNoObj
  <2> HIDE DEF Makes
  <2> QED BY <2>1, <2>2, <2>3, <2>5, <2>6, <2>7
<1>8. (\A o \in Objs : Counted(X, o)') /\ TodoInv'
  <2> DEFINE T == [o \in Objs |-> Times(o, v, Null)]
  <2>1. T \in [Objs -> Nat] /\ \A o \in Objs : T[o] = Times(o, v, Null)
    BY TimesType
  <2> HIDE DEF T
  <2>2. PICK N \in SUBSET Objs : N = {n}
    OBVIOUS
  <2>3. ASSUME NEW o \in Objs \ N
        PROVE  /\ kind'[o] = kind[o]
               /\ IsHeapObj(o)' => IsHeapObj(o)
               /\ rc'[o] = IF IsHeapObj(o) THEN rc[o] + T[o] ELSE rc[o]
               /\ References(o)' + X[o] = References(o) + X[o] + T[o]
               /\ Dead(o) => T[o] = 0 /\ mem'[o] = mem[o]
    <3>1. Times(o, n, Null) = 0
      BY <2>2, TimesValue, NullIsNoObj
    <3>2. rc'[o] = IncAll(rc, v, Null)[o]
      BY <1>2, <2>2
    <3>3. IsHeapObj(o)' => IsHeapObj(o)
      BY DEF IsHeapObj
    <3>4. X[o] \in Nat /\ References(o) \in Nat /\ Times(o, v, Null) \in Nat
      BY <1>7, TimesType
    <3>5. References(o)' + X[o] = References(o) + X[o] + T[o]
      BY <1>7, <2>1, <3>1, <3>4
    <3> QED BY <1>2, <1>5, <1>7, <2>1, <2>2, <3>2, <3>3, <3>5
  <2>4. ASSUME NEW o \in N
        PROVE  /\ kind[o] = "free" /\ kind'[o] # "free" /\ rc'[o] = 1
               /\ References(o)' + X[o] = 1
    <3>1. o = n
      BY <2>2
    <3>2. References(n) + X[n] = 0 /\ References(n) \in Nat /\ X[n] \in Nat
      BY <1>6, <1>7 DEF HeapInv, Counted
    <3>3. Times(n, n, Null) = 1 /\ Times(n, v, Null) = 0
      BY <1>6, <1>7, TimesValue, NullIsNoObj
    <3>4. References(n)' = 1 /\ X[n] = 0
      BY <1>7, <3>2, <3>3
    <3> QED BY <1>2, <1>5, <3>1, <3>4
  <2>5. UNCHANGED todo
    OBVIOUS
  <2> HIDE DEF Makes
  <2> QED BY <1>3, <2>1, <2>3, <2>4, <2>5, GrowStep
<1>9. FreeInv'
  BY <1>4, <1>5 DEF HeapInv, FreeInv
<1>10. TaskInv'
  <2>1. \A w \in Threads : task[w] # Null => task[w] \in Objs /\ task[w] # n
    BY <1>1 DEF HeapInv, TaskInv, HeapTypes
  <2>2. ASSUME NEW w \in Threads, task'[w] # Null
        PROVE  kind'[task'[w]] = "task" /\ fld'[task'[w]] = <<Null, Null>>
    <3>1. /\ task'[w] = task[w] /\ task[w] \in Objs /\ task[w] # n
          /\ kind[task[w]] = "task" /\ fld[task[w]] = <<Null, Null>>
      BY <2>1, <2>2 DEF HeapInv, TaskInv
    <3> QED BY <1>4, <1>5, <3>1
  <2>3. ASSUME NEW o \in Objs, kind'[o] = "task" PROVE mem'[o] = "mt"
    BY <1>5, <2>3 DEF HeapInv, TaskInv
  <2>4. \A w, u \in Threads : task'[w] = task'[u] /\ task'[w] # Null => w = u
    BY DEF HeapInv, TaskInv
  <2> HIDE DEF Makes
  <2> QED BY <2>2, <2>3, <2>4 DEF TaskInv
<1>11. PendInv'
  BY DEF HeapInv, PendInv
<1> QED BY <1>3, <1>8, <1>9, <1>10, <1>11 DEF HeapInv

LEMMA AllocStep ==
    ASSUME NEW X \in [Objs -> Nat], HeapInv(X), NEW th \in Threads, NEW n \in Objs,
           NEW k \in Kinds \ {"free", "task"}, NEW a \in Pointers, NEW b \in Pointers,
           Running(th), kind[n] = "free", Owns(th, a, b),
           kind' = [kind EXCEPT ![n] = k], rc' = [rc EXCEPT ![n] = 1],
           fld' = [fld EXCEPT ![n] = <<a, b>>],
           own' = [own EXCEPT ![th] = Gain(Lose(own[th], a, b), n)],
           UNCHANGED <<mem, pend, todo, task>>
    PROVE  HeapInv(X)'
<1>1. HeapTypes
  BY DEF HeapInv
<1>2. pend[th] = Null /\ todo[th] = {}
  BY DEF Running
<1>3. /\ Lose(own[th], a, b) \in [Objs -> Nat]
      /\ \A o \in Objs : Lose(own[th], a, b)[o] = own[th][o] - Times(o, a, b)
  BY <1>1, CountTypes
<1>4. /\ Gain(Lose(own[th], a, b), n) \in [Objs -> Nat]
      /\ \A o \in Objs : Gain(Lose(own[th], a, b), n)[o]
                         = Lose(own[th], a, b)[o] + Times(o, n, Null)
  BY <1>3, TimesType DEF Gain
<1>5. /\ own' \in [Threads -> [Objs -> Nat]] /\ own'[th] = Gain(Lose(own[th], a, b), n)
      /\ \A t \in Threads : t # th => own'[t] = own[t] /\ pend'[t] = pend[t]
  BY <1>1, <1>4 DEF HeapTypes
<1>6. IncAll(rc, Null, Null) = rc
  BY <1>1, IncNothing, NullIsNoObj
<1>7. ASSUME NEW o \in Objs
      PROVE  own'[th][o] + Times(o, pend'[th], Null) + Times(o, a, b)
             = Holds(th, o) + Times(o, Null, Null) + Times(o, n, Null)
  <2>1. own'[th][o] = own[th][o] - Times(o, a, b) + Times(o, n, Null)
    BY <1>3, <1>4, <1>5
  <2>2. Times(o, pend'[th], Null) = 0 /\ Holds(th, o) = own[th][o] + 0
        /\ Times(o, Null, Null) = 0
    BY <1>2, NullIsNoObj DEF Holds
  <2>3. own[th][o] \in Nat /\ Times(o, a, b) \in Nat /\ Times(o, n, Null) \in Nat
    BY <1>1, TimesType DEF HeapTypes
  <2> QED BY <2>1, <2>2, <2>3
<1>8. Makes(th, n, k, a, b, Null)
  BY <1>1, <1>2, <1>5, <1>6, <1>7 DEF Makes, HeapTypes
<1>9. Null \in Pointers /\ Null \notin Objs
  BY ObjsAssumption DEF Pointers
<1> QED BY <1>8, <1>9, MakeStep

(* A thread that runs compiled code releases nothing.                      *)
LEMMA IdleHolds ==
    ASSUME HeapTypes, HeapTypes', NEW th \in Threads, NEW o \in Objs
    PROVE  /\ pend[th] = Null => Holds(th, o) = own[th][o]
           /\ pend'[th] = Null => Holds(th, o)' = own'[th][o]
<1>1. own[th][o] \in Nat /\ own'[th][o] \in Nat /\ Times(o, Null, Null) = 0
  BY NullIsNoObj DEF HeapTypes
<1>2. Holds(th, o) = own[th][o] + Times(o, pend[th], Null)
  BY DEF Holds
<1>3. Holds(th, o)' = own'[th][o] + Times(o, pend'[th], Null)
  BY HoldsNext
<1> QED BY <1>1, <1>2, <1>3

LEMMA OwnsOne ==
    ASSUME HeapTypes, NEW th \in Threads, NEW o \in Objs, own[th][o] > 0
    PROVE  Owns(th, o, Null)
<1>1. ASSUME NEW x \in Objs PROVE own[th][x] >= Times(x, o, Null)
  <2>1. own[th][x] \in Nat
    BY DEF HeapTypes
  <2>2. Times(x, o, Null) = IF x = o THEN 1 ELSE 0
    BY TimesValue, NullIsNoObj
  <2> QED BY <2>1, <2>2
<1> QED BY <1>1 DEF Owns

SetsField(o, i, v) == fld' = [fld EXCEPT ![o][i] = v]

LEMMA FieldUpdate ==
    ASSUME HeapTypes, NEW o \in Objs, NEW i \in {1, 2}, NEW v \in Pointers,
           SetsField(o, i, v)
    PROVE  /\ fld' \in [Objs -> Pointers \X Pointers]
           /\ \A y \in Objs : y # o => fld'[y] = fld[y]
           /\ fld'[o][i] = v /\ fld'[o][3 - i] = fld[o][3 - i]
           /\ \A x \in Objs : Times(x, fld'[o][1], fld'[o][2]) + Times(x, fld[o][i], Null)
                               = Stores(o, x) + Times(x, v, Null)
<1>1. fld \in [Objs -> Pointers \X Pointers] /\ fld[o] = <<fld[o][1], fld[o][2]>>
      /\ fld[o][1] \in Pointers /\ fld[o][2] \in Pointers
  BY DEF HeapTypes
<1>2. PICK p \in Pointers \X Pointers :
        /\ p = [fld[o] EXCEPT ![i] = v]
        /\ p[i] = v /\ p[3 - i] = fld[o][3 - i]
  <2>1. CASE i = 1
    <3>1. [fld[o] EXCEPT ![i] = v] = <<v, fld[o][2]>>
      BY <1>1, <2>1
    <3> QED BY <1>1, <2>1, <3>1
  <2>2. CASE i = 2
    <3>1. [fld[o] EXCEPT ![i] = v] = <<fld[o][1], v>>
      BY <1>1, <2>2
    <3> QED BY <1>1, <2>2, <3>1
  <2> QED BY <2>1, <2>2
<1>3. fld' = [fld EXCEPT ![o] = p]
  BY <1>2 DEF SetsField
<1>4. /\ fld' \in [Objs -> Pointers \X Pointers] /\ fld'[o] = p
      /\ \A y \in Objs : y # o => fld'[y] = fld[y]
  BY <1>1, <1>3
<1>5. ASSUME NEW x \in Objs
      PROVE  Times(x, fld'[o][1], fld'[o][2]) + Times(x, fld[o][i], Null)
             = Stores(o, x) + Times(x, v, Null)
  <2>1. CASE i = 1
    <3>1. fld'[o][1] = v /\ fld'[o][2] = fld[o][2]
      BY <1>2, <1>4, <2>1
    <3> QED BY <2>1, <3>1, TimesValue, NullIsNoObj DEF Stores
  <2>2. CASE i = 2
    <3>1. fld'[o][1] = fld[o][1] /\ fld'[o][2] = v
      BY <1>2, <1>4, <2>2
    <3> QED BY <2>2, <3>1, TimesValue, NullIsNoObj DEF Stores
  <2> QED BY <2>1, <2>2
<1> QED BY <1>2, <1>4, <1>5

LEMMA ArraySetCopyStep ==
    ASSUME NEW X \in [Objs -> Nat], HeapInv(X), NEW th \in Threads, NEW o \in Objs,
           NEW i \in {1, 2}, NEW v \in Values, NEW n \in Objs, ArraySetCopy(th, o, i, v, n)
    PROVE  HeapInv(X)'
<1>1. HeapTypes
  BY DEF HeapInv
<1>2. /\ pend[th] = Null /\ todo[th] = {} /\ kind[n] = "free" /\ Owns(th, o, v)
      /\ kind' = [kind EXCEPT ![n] = "data"]
      /\ fld' = [fld EXCEPT ![n] = [fld[o] EXCEPT ![i] = v]]
      /\ rc' = [IncAll(rc, fld[o][3 - i], Null) EXCEPT ![n] = 1]
      /\ pend' = [pend EXCEPT ![th] = o]
      /\ own' = [own EXCEPT ![th] = Gain(Lose(own[th], o, v), n)]
      /\ UNCHANGED <<mem, todo, task>>
  BY DEF ArraySetCopy, Running, SetOwn
<1>3. PICK e \in Pointers : e = fld[o][3 - i]
  BY <1>1 DEF HeapTypes
<1>4. e \in Objs => ~ Dead(e)
  BY <1>3, HeldAlive
<1>5. v \in Pointers
  BY DEF Values, Pointers
<1>6. PICK a \in Pointers, b \in Pointers :
        /\ [fld[o] EXCEPT ![i] = v] = <<a, b>>
        /\ (a = v /\ b = e) \/ (a = e /\ b = v)
  <2>1. fld[o] \in Pointers \X Pointers /\ fld[o] = <<fld[o][1], fld[o][2]>>
    BY <1>1 DEF HeapTypes
  <2>2. CASE i = 1
    <3>1. [fld[o] EXCEPT ![i] = v] = <<v, e>>
      BY <1>3, <2>1, <2>2
    <3> QED BY <1>5, <3>1
  <2>3. CASE i = 2
    <3>1. [fld[o] EXCEPT ![i] = v] = <<e, v>>
      BY <1>3, <2>1, <2>3
    <3> QED BY <1>5, <3>1
  <2> QED BY <2>2, <2>3
<1>7. /\ Lose(own[th], o, v) \in [Objs -> Nat]
      /\ \A x \in Objs : Lose(own[th], o, v)[x] = own[th][x] - Times(x, o, v)
  BY <1>1, <1>2, CountTypes
<1>8. /\ Gain(Lose(own[th], o, v), n) \in [Objs -> Nat]
      /\ \A x \in Objs : Gain(Lose(own[th], o, v), n)[x]
                         = Lose(own[th], o, v)[x] + Times(x, n, Null)
  BY <1>7, TimesType DEF Gain
<1>9. /\ own' \in [Threads -> [Objs -> Nat]] /\ own'[th] = Gain(Lose(own[th], o, v), n)
      /\ pend' \in [Threads -> Objs \union {Null}] /\ pend'[th] = o
      /\ \A t \in Threads : t # th => own'[t] = own[t] /\ pend'[t] = pend[t]
  BY <1>1, <1>2, <1>8 DEF HeapTypes
<1>10. ASSUME NEW x \in Objs
       PROVE  own'[th][x] + Times(x, pend'[th], Null) + Times(x, a, b)
              = Holds(th, x) + Times(x, e, Null) + Times(x, n, Null)
  <2>1. own'[th][x] = own[th][x] - Times(x, o, v) + Times(x, n, Null)
    BY <1>7, <1>8, <1>9
  <2>2. Holds(th, x) = own[th][x] + 0
    BY <1>2, NullIsNoObj DEF Holds
  <2>3. own[th][x] \in Nat /\ Times(x, n, Null) \in Nat
    BY <1>1, TimesType DEF HeapTypes
  <2>4. Times(x, pend'[th], Null) + Times(x, a, b) = Times(x, e, Null) + Times(x, o, v)
    BY <1>6, <1>9, TimesValue, NullIsNoObj
  <2>5. /\ Times(x, pend'[th], Null) \in Nat /\ Times(x, a, b) \in Nat
        /\ Times(x, e, Null) \in Nat /\ Times(x, o, v) \in Nat
    BY TimesType
  <2> QED BY <2>1, <2>2, <2>3, <2>4, <2>5
<1>11. Makes(th, n, "data", a, b, e)
  BY <1>2, <1>3, <1>6, <1>9, <1>10 DEF Makes
<1>12. "data" \in Kinds \ {"free", "task"}
  BY DEF Kinds
<1> QED BY <1>4, <1>11, <1>12, MakeStep

(* Thread th moves references between itself, the fields of x and other    *)
(* modules, and gets a new one to v.  Objects that live may be marked.     *)
Moves(th, x, v, X, Y) ==
    /\ kind[x] \notin {"free", "task"}
    /\ rc' = IncAll(rc, v, Null)
    /\ own' \in [Threads -> [Objs -> Nat]]
    /\ pend' \in [Threads -> Objs \union {Null}]
    /\ fld' \in [Objs -> Pointers \X Pointers]
    /\ \A t \in Threads : t # th => own'[t] = own[t] /\ pend'[t] = pend[t]
    /\ \A y \in Objs : y # x => fld'[y] = fld[y]
    /\ \A o \in Objs : own'[th][o] + Times(o, pend'[th], Null)
                       + Times(o, fld'[x][1], fld'[x][2]) + Y[o]
                       = Holds(th, o) + Stores(x, o) + X[o] + Times(o, v, Null)
    /\ pend'[th] # Null => todo[th] = {}
    /\ Remarks(mem')
    /\ UNCHANGED <<kind, todo, task>>

LEMMA MoveStep ==
    ASSUME NEW X \in [Objs -> Nat], NEW Y \in [Objs -> Nat], HeapInv(X), NEW th \in Threads,
           NEW x \in Objs, NEW v \in Pointers, v \in Objs => ~ Dead(v), Moves(th, x, v, X, Y)
    PROVE  HeapInv(Y)'
<1> USE DEF Moves
<1>1. HeapTypes
  BY DEF HeapInv
<1>2. /\ IncAll(rc, v, Null) \in [Objs -> Nat]
      /\ \A o \in Objs : rc'[o] = IF IsHeapObj(o) THEN rc[o] + Times(o, v, Null) ELSE rc[o]
  BY <1>1, CountTypes
<1>3. HeapTypes'
  BY <1>1, <1>2 DEF HeapTypes, Remarks
<1>4. ASSUME NEW o \in Objs
      PROVE  /\ References(o)' + Y[o] = References(o) + X[o] + Times(o, v, Null)
             /\ Dead(o) => Times(o, v, Null) = 0
  <2>1. /\ References(o) \in Nat /\ References(o)' \in Nat
        /\ Holds(th, o) \in Nat /\ Holds(th, o)' \in Nat
        /\ Stores(x, o) \in Nat /\ Stores(x, o)' \in Nat
        /\ References(o)' = References(o) - Holds(th, o) + Holds(th, o)'
                            - Stores(x, o) + Stores(x, o)'
    BY <1>1, <1>3, ReferencesUpdate
  <2>2. Holds(th, o)' + Stores(x, o)' + Y[o]
        = Holds(th, o) + Stores(x, o) + X[o] + Times(o, v, Null)
    BY HoldsNext
  <2>3. X[o] \in Nat /\ Y[o] \in Nat /\ Times(o, v, Null) \in Nat
    BY TimesType
  <2>4. Dead(o) => Times(o, v, Null) = 0
    BY TimesValue, NullIsNoObj
  <2> HIDE DEF Moves
  <2> QED BY <2>1, <2>2, <2>3, <2>4
<1>5. (\A o \in Objs : Counted(Y, o)') /\ TodoInv'
  <2> DEFINE T == [o \in Objs |-> Times(o, v, Null)]
  <2>1. T \in [Objs -> Nat] /\ \A o \in Objs : T[o] = Times(o, v, Null)
    BY TimesType
  <2> HIDE DEF T
  <2>2. PICK N \in SUBSET Objs : N = {}
    OBVIOUS
  <2>3. ASSUME NEW o \in Objs \ N
        PROVE  /\ kind'[o] = kind[o]
               /\ IsHeapObj(o)' => IsHeapObj(o)
               /\ rc'[o] = IF IsHeapObj(o) THEN rc[o] + T[o] ELSE rc[o]
               /\ References(o)' + Y[o] = References(o) + X[o] + T[o]
               /\ Dead(o) => T[o] = 0 /\ mem'[o] = mem[o]
    <3>1. mem'[o] = mem[o] \/ (~ Dead(o) /\ IsHeapObj(o))
      BY DEF Remarks
    <3>2. IsHeapObj(o)' => IsHeapObj(o)
      BY <3>1 DEF IsHeapObj
    <3> QED BY <1>2, <1>4, <2>1, <3>1, <3>2
  <2>4. \A o \in N : /\ kind[o] = "free" /\ kind'[o] # "free" /\ rc'[o] = 1
                     /\ References(o)' + Y[o] = 1
    BY <2>2
  <2>5. UNCHANGED todo
    OBVIOUS
  <2> HIDE DEF Moves
  <2> QED BY <1>3, <2>1, <2>3, <2>4, <2>5, GrowStep
<1>6. FreeInv'
  <2>1. ASSUME NEW o \in Objs, kind'[o] = "free"
        PROVE  fld'[o] = <<Null, Null>> /\ mem'[o] = "st"
    BY <2>1 DEF HeapInv, FreeInv, Dead, Remarks
  <2> QED BY <2>1 DEF FreeInv
<1>7. TaskInv'
  <2>1. ASSUME NEW w \in Threads, task'[w] # Null
        PROVE  kind'[task'[w]] = "task" /\ fld'[task'[w]] = <<Null, Null>>
    <3>1. /\ task'[w] = task[w] /\ task[w] \in Objs /\ task[w] # x
          /\ kind[task[w]] = "task" /\ fld[task[w]] = <<Null, Null>>
      BY <1>1, <2>1 DEF HeapInv, TaskInv, HeapTypes
    <3> QED BY <3>1
  <2>2. ASSUME NEW o \in Objs, kind'[o] = "task" PROVE mem'[o] = "mt"
    BY <2>2 DEF HeapInv, TaskInv, Remarks
  <2>3. \A w, u \in Threads : task'[w] = task'[u] /\ task'[w] # Null => w = u
    BY DEF HeapInv, TaskInv
  <2> HIDE DEF Moves
  <2> QED BY <2>1, <2>2, <2>3 DEF TaskInv
<1>8. PendInv'
  BY DEF HeapInv, PendInv
<1> QED BY <1>3, <1>5, <1>6, <1>7, <1>8 DEF HeapInv

LEMMA InitConstantStep ==
    ASSUME NEW X \in [Objs -> Nat], HeapInv(X), NEW th \in Threads, NEW o \in Objs,
           InitConstant(th, o)
    PROVE  HeapInv(X)'
<1>1. HeapTypes
  BY DEF HeapInv
<1>2. /\ own[th][o] > 0 /\ \A x \in Objs : kind[x] # "task"
      /\ mem' = MarkPersistent(o) /\ UNCHANGED <<kind, rc, fld, own, pend, todo, task>>
  BY DEF InitConstant, threadVars
<1>3. ~ Dead(o)
  BY <1>2, HeldAlive
<1>4. Remarks(mem')
  BY <1>2, <1>3, MarkPersistentRemarks
<1>5. kind[o] \notin {"free", "task"}
  BY <1>2, <1>3 DEF Dead
<1>6. rc' = IncAll(rc, Null, Null) /\ \A x \in Objs : Times(x, Null, Null) = 0
  BY <1>1, <1>2, IncNothing, NullIsNoObj
<1>7. ASSUME NEW x \in Objs
      PROVE  own'[th][x] + Times(x, pend'[th], Null) + Times(x, fld'[o][1], fld'[o][2]) + X[x]
             = Holds(th, x) + Stores(o, x) + X[x] + Times(x, Null, Null)
  <2>1. Holds(th, x) \in Nat /\ Stores(o, x) \in Nat /\ X[x] \in Nat
    BY <1>1, ReferencesBound
  <2>2. own'[th][x] + Times(x, pend'[th], Null) = Holds(th, x)
        /\ Times(x, fld'[o][1], fld'[o][2]) = Stores(o, x)
    BY <1>2 DEF Holds, Stores
  <2> QED BY <1>6, <2>1, <2>2
<1>8. pend'[th] # Null => todo[th] = {}
  BY <1>2 DEF HeapInv, PendInv
<1>9. Moves(th, o, Null, X, X)
  <2>1. /\ own' \in [Threads -> [Objs -> Nat]] /\ pend' \in [Threads -> Objs \union {Null}]
        /\ fld' \in [Objs -> Pointers \X Pointers]
    BY <1>1, <1>2 DEF HeapTypes
  <2>2. /\ \A t \in Threads : t # th => own'[t] = own[t] /\ pend'[t] = pend[t]
        /\ \A y \in Objs : y # o => fld'[y] = fld[y]
    BY <1>2
  <2>3. UNCHANGED <<kind, todo, task>>
    BY <1>2
  <2> QED BY <1>4, <1>5, <1>6, <1>7, <1>8, <2>1, <2>2, <2>3 DEF Moves
<1>10. Null \in Pointers /\ Null \notin Objs
  BY ObjsAssumption DEF Pointers
<1> QED BY <1>9, <1>10, MoveStep

LEMMA ArraySetInPlaceStep ==
    ASSUME NEW X \in [Objs -> Nat], HeapInv(X), NEW th \in Threads, NEW o \in Objs,
           NEW i \in {1, 2}, NEW v \in Values, ArraySetInPlace(th, o, i, v)
    PROVE  HeapInv(X)'
<1>1. HeapTypes
  BY DEF HeapInv
<1>2. PICK e \in Pointers : e = fld[o][i]
  BY <1>1 DEF HeapTypes
<1>3. /\ pend[th] = Null /\ todo[th] = {} /\ kind[o] = "data" /\ Owns(th, o, v) /\ o # v
      /\ fld' = [fld EXCEPT ![o][i] = v] /\ rc' = DecAll(rc, e, Null)
      /\ todo' = [todo EXCEPT ![th] = Zeroed(e, Null)]
      /\ own' = [own EXCEPT ![th] = Lose(own[th], v, Null)]
      /\ UNCHANGED <<kind, mem, pend, task>>
  BY <1>2 DEF ArraySetInPlace, Running, SetOwn
<1>4. Owns(th, v, Null)
  <2>1. ASSUME NEW x \in Objs PROVE own[th][x] >= Times(x, v, Null)
    <3>1. own[th][x] >= Times(x, o, v)
      BY <1>3 DEF Owns
    <3>2. Times(x, o, v) >= Times(x, v, Null)
      BY TimesValue, NullIsNoObj
    <3>3. own[th][x] \in Nat /\ Times(x, o, v) \in Nat /\ Times(x, v, Null) \in Nat
      BY <1>1, TimesType DEF HeapTypes
    <3> QED BY <3>1, <3>2, <3>3
  <2> QED BY <2>1 DEF Owns
<1>5. /\ Lose(own[th], v, Null) \in [Objs -> Nat]
      /\ \A x \in Objs : Lose(own[th], v, Null)[x] = own[th][x] - Times(x, v, Null)
  BY <1>1, <1>4, CountTypes
<1>6. /\ own' \in [Threads -> [Objs -> Nat]] /\ own'[th] = Lose(own[th], v, Null)
      /\ \A t \in Threads : t # th => own'[t] = own[t] /\ pend'[t] = pend[t]
  BY <1>1, <1>3, <1>5 DEF HeapTypes
<1>7. v \in Pointers
  BY DEF Pointers, Values
<1>8. /\ fld' \in [Objs -> Pointers \X Pointers]
      /\ \A y \in Objs : y # o => fld'[y] = fld[y]
      /\ \A x \in Objs : Times(x, fld'[o][1], fld'[o][2]) + Times(x, e, Null)
                          = Stores(o, x) + Times(x, v, Null)
  <2>1. SetsField(o, i, v)
    BY <1>3 DEF SetsField
  <2> QED BY <1>1, <1>2, <1>7, <2>1, FieldUpdate
<1>9. \A x \in Objs : Times(x, e, Null) <= References(x) + X[x]
  <2> TAKE x \in Objs
  <2>1. /\ References(x) \in Nat /\ References(x) >= Holds(th, x) + Stores(o, x)
        /\ Holds(th, x) \in Nat /\ Stores(o, x) \in Nat
    BY <1>1, ReferencesBound
  <2>2. Times(x, e, Null) <= Stores(o, x)
    BY <1>2, TimesValue, NullIsNoObj DEF Stores
  <2>3. X[x] \in Nat /\ Times(x, e, Null) \in Nat
    BY TimesType
  <2> QED BY <2>1, <2>2, <2>3
<1>10. DecAll(rc, e, Null) \in [Objs -> Nat] /\ Zeroed(e, Null) \in SUBSET Objs
  BY <1>9, DecAllType
<1>11. HeapTypes'
  <2>1. todo' \in [Threads -> SUBSET Objs]
    BY <1>1, <1>3, <1>10 DEF HeapTypes
  <2>2. rc' \in [Objs -> Nat]
    BY <1>3, <1>10
  <2> QED BY <1>1, <1>3, <1>6, <1>8, <2>1, <2>2 DEF HeapTypes
<1>12. ASSUME NEW x \in Objs
       PROVE  References(x)' + X[x] + Times(x, e, Null) = References(x) + X[x]
  <2>1. /\ References(x) \in Nat /\ References(x)' \in Nat
        /\ Holds(th, x) \in Nat /\ Holds(th, x)' \in Nat
        /\ Stores(o, x) \in Nat /\ Stores(o, x)' \in Nat
        /\ References(x)' = References(x) - Holds(th, x) + Holds(th, x)'
                            - Stores(o, x) + Stores(o, x)'
    BY <1>1, <1>6, <1>8, <1>11, ReferencesUpdate
  <2>2. Stores(o, x)' + Times(x, e, Null) = Stores(o, x) + Times(x, v, Null)
    BY <1>8, HoldsNext
  <2>3. Holds(th, x)' + Times(x, v, Null) = Holds(th, x)
    <3>1. Holds(th, x)' = own'[th][x] /\ Holds(th, x) = own[th][x]
      BY <1>1, <1>3, <1>11, IdleHolds
    <3>3. own[th][x] \in Nat /\ Times(x, v, Null) \in Nat
      BY <1>1, TimesType DEF HeapTypes
    <3> QED BY <1>5, <1>6, <3>1, <3>3
  <2>4. X[x] \in Nat /\ Times(x, e, Null) \in Nat /\ Times(x, v, Null) \in Nat
    BY TimesType
  <2> QED BY <2>1, <2>2, <2>3, <2>4
<1>13. (\A x \in Objs : Counted(X, x)') /\ TodoInv'
  <2>1. PICK F \in SUBSET todo[th] : F = {}
    OBVIOUS
  <2>2. Drops(th, e, Null, F)
    BY <1>1, <1>3, <2>1 DEF Drops, HeapTypes
  <2> QED BY <1>11, <1>12, <2>2, DropStep
<1>14. FreeInv'
  BY <1>3, <1>8 DEF HeapInv, FreeInv
<1>15. TaskInv'
  <2>1. ASSUME NEW w \in Threads, task'[w] # Null
        PROVE  kind'[task'[w]] = "task" /\ fld'[task'[w]] = <<Null, Null>>
    <3>1. /\ task'[w] = task[w] /\ task[w] \in Objs /\ task[w] # o
          /\ kind[task[w]] = "task" /\ fld[task[w]] = <<Null, Null>>
      BY <1>1, <1>3, <2>1 DEF HeapInv, TaskInv, HeapTypes
    <3> QED BY <1>3, <1>8, <3>1
  <2> QED BY <1>3, <2>1 DEF HeapInv, TaskInv
<1>16. PendInv'
  BY <1>1, <1>3 DEF HeapInv, PendInv, HeapTypes
<1> QED BY <1>11, <1>13, <1>14, <1>15, <1>16 DEF HeapInv

LEMMA MkTaskStep ==
    ASSUME NEW X \in [Objs -> Nat], HeapInv(X), NEW th \in Threads, NEW w \in Threads,
           NEW o \in Objs, NEW c \in Objs, MkTask(th, w, o, c)
    PROVE  HeapInv(X)'
<1>1. HeapTypes
  BY DEF HeapInv
<1>2. /\ pend[th] = Null /\ todo[th] = {} /\ kind[o] = "free" /\ own[th][c] > 0
      /\ task[w] = Null /\ pend[w] = Null /\ todo[w] = {} /\ th # w
      /\ kind' = [kind EXCEPT ![o] = "task"] /\ rc' = [rc EXCEPT ![o] = 1]
      /\ mem' = [MarkMT(c) EXCEPT ![o] = "mt"] /\ task' = [task EXCEPT ![w] = o]
      /\ own' = [own EXCEPT ![th] = Gain(Lose(own[th], c, Null), o), ![w] = Gain(own[w], c)]
      /\ UNCHANGED <<fld, pend, todo>>
  BY DEF MkTask, Running
<1>3. ~ Dead(c) /\ Dead(o) /\ c # o /\ fld[o] = <<Null, Null>>
  BY <1>2, HeldAlive DEF Dead, HeapInv, FreeInv
<1>4. Owns(th, c, Null)
  BY <1>1, <1>2, OwnsOne
<1>5. /\ Lose(own[th], c, Null) \in [Objs -> Nat]
      /\ \A x \in Objs : Lose(own[th], c, Null)[x] = own[th][x] - Times(x, c, Null)
  BY <1>1, <1>4, CountTypes
<1>6. /\ Gain(Lose(own[th], c, Null), o) \in [Objs -> Nat]
      /\ \A x \in Objs : Gain(Lose(own[th], c, Null), o)[x]
                         = Lose(own[th], c, Null)[x] + Times(x, o, Null)
  BY <1>5, TimesType DEF Gain
<1>7. /\ Gain(own[w], c) \in [Objs -> Nat]
      /\ \A x \in Objs : Gain(own[w], c)[x] = own[w][x] + Times(x, c, Null)
  BY <1>1, CountTypes
<1>8. /\ own' \in [Threads -> [Objs -> Nat]]
      /\ own'[th] = Gain(Lose(own[th], c, Null), o) /\ own'[w] = Gain(own[w], c)
      /\ \A t \in Threads : t \notin {th, w} => own'[t] = own[t]
  BY <1>1, <1>2, <1>6, <1>7 DEF HeapTypes
<1>9. Remarks(MarkMT(c))
  BY <1>3, MarkMTRemarks
<1>10. /\ mem' \in [Objs -> {"st", "mt", "persistent"}] /\ mem'[o] = "mt"
       /\ \A x \in Objs : x # o => mem'[x] = MarkMT(c)[x]
  BY <1>2, <1>9 DEF Remarks
<1>11. /\ kind' \in [Objs -> Kinds] /\ kind'[o] = "task"
       /\ \A x \in Objs : x # o => kind'[x] = kind[x]
  BY <1>1, <1>2 DEF HeapTypes, Kinds
<1>12. rc' \in [Objs -> Nat] /\ rc'[o] = 1 /\ \A x \in Objs : x # o => rc'[x] = rc[x]
  BY <1>1, <1>2 DEF HeapTypes
<1>13. /\ task' \in [Threads -> Objs \union {Null}] /\ task'[w] = o
       /\ \A t \in Threads : t # w => task'[t] = task[t]
  BY <1>1, <1>2 DEF HeapTypes
<1>14. HeapTypes'
  BY <1>1, <1>2, <1>8, <1>10, <1>11, <1>12, <1>13 DEF HeapTypes
<1>15. ASSUME NEW x \in Objs
       PROVE  /\ References(x)' = References(x) + Times(x, o, Null)
              /\ References(x) \in Nat
  <2>1. /\ References(x) \in Nat /\ References(x)' \in Nat
        /\ Holds(th, x) \in Nat /\ Holds(th, x)' \in Nat
        /\ Holds(w, x) \in Nat /\ Holds(w, x)' \in Nat
        /\ References(x)' = References(x) - Holds(th, x) + Holds(th, x)'
                            - Holds(w, x) + Holds(w, x)'
    BY <1>1, <1>2, <1>8, <1>14, ReferencesHandOver
  <2>2. own[th][x] \in Nat /\ own[w][x] \in Nat /\ Times(x, c, Null) \in Nat
        /\ Times(x, o, Null) \in Nat
    BY <1>1, TimesType DEF HeapTypes
  <2>3. Holds(th, x) = own[th][x] /\ Holds(w, x) = own[w][x]
    BY <1>1, <1>2, <1>14, IdleHolds
  <2>4. Holds(th, x)' = own'[th][x] /\ Holds(w, x)' = own'[w][x]
    BY <1>1, <1>2, <1>14, IdleHolds
  <2>5. /\ own'[th][x] = own[th][x] - Times(x, c, Null) + Times(x, o, Null)
        /\ own'[w][x] = own[w][x] + Times(x, c, Null)
    BY <1>5, <1>6, <1>7, <1>8
  <2> QED BY <2>1, <2>2, <2>3, <2>4, <2>5
<1>16. (\A x \in Objs : Counted(X, x)') /\ TodoInv'
  <2> DEFINE T == [x \in Objs |-> 0]
  <2>1. T \in [Objs -> Nat] /\ \A x \in Objs : T[x] = 0
    OBVIOUS
  <2> HIDE DEF T
  <2>2. PICK N \in SUBSET Objs : N = {o}
    OBVIOUS
  <2>3. ASSUME NEW x \in Objs \ N
        PROVE  /\ kind'[x] = kind[x]
               /\ IsHeapObj(x)' => IsHeapObj(x)
               /\ rc'[x] = IF IsHeapObj(x) THEN rc[x] + T[x] ELSE rc[x]
               /\ References(x)' + X[x] = References(x) + X[x] + T[x]
               /\ Dead(x) => T[x] = 0 /\ mem'[x] = mem[x]
    <3>1. mem'[x] = mem[x] \/ (~ Dead(x) /\ IsHeapObj(x))
      BY <1>9, <1>10, <2>2 DEF Remarks
    <3>2. IsHeapObj(x)' => IsHeapObj(x)
      BY <3>1 DEF IsHeapObj
    <3>3. X[x] \in Nat /\ References(x) \in Nat /\ Times(x, o, Null) = 0 /\ rc[x] \in Nat
      BY <1>1, <1>15, <2>2, TimesValue, NullIsNoObj DEF HeapTypes
    <3>4. References(x)' + X[x] = References(x) + X[x] + T[x]
      BY <1>15, <2>1, <3>3
    <3> QED BY <1>11, <1>12, <2>1, <2>2, <3>1, <3>2, <3>3, <3>4
  <2>4. ASSUME NEW x \in N
        PROVE  /\ kind[x] = "free" /\ kind'[x] # "free" /\ rc'[x] = 1
               /\ References(x)' + X[x] = 1
    <3>1. References(o) + X[o] = 0 /\ References(o) \in Nat /\ X[o] \in Nat
      BY <1>3, <1>15 DEF HeapInv, Counted
    <3>2. Times(o, o, Null) = 1
      BY TimesValue, NullIsNoObj
    <3>3. References(o)' = 1 /\ X[o] = 0
      BY <1>15, <3>1, <3>2
    <3> QED BY <1>2, <1>11, <1>12, <2>2, <3>3
  <2>5. UNCHANGED todo
    BY <1>2
  <2> QED BY <1>14, <2>1, <2>3, <2>4, <2>5, GrowStep
<1>17. FreeInv'
  <2>1. ASSUME NEW x \in Objs, kind'[x] = "free"
        PROVE  fld'[x] = <<Null, Null>> /\ mem'[x] = "st"
    BY <1>2, <1>9, <1>10, <1>11, <2>1 DEF HeapInv, FreeInv, Dead, Remarks
  <2> QED BY <2>1 DEF FreeInv
<1>18. TaskInv'
  <2>1. \A t \in Threads : task[t] # Null =>
            /\ task[t] \in Objs /\ task[t] # o /\ t # w
            /\ kind[task[t]] = "task" /\ fld[task[t]] = <<Null, Null>>
    BY <1>1, <1>2 DEF HeapInv, TaskInv, HeapTypes
  <2>2. ASSUME NEW t \in Threads, task'[t] # Null
        PROVE  kind'[task'[t]] = "task" /\ fld'[task'[t]] = <<Null, Null>>
    BY <1>2, <1>3, <1>11, <1>13, <2>1, <2>2
  <2>3. ASSUME NEW x \in Objs, kind'[x] = "task" PROVE mem'[x] = "mt"
    BY <1>9, <1>10, <1>11, <2>3 DEF HeapInv, TaskInv, Remarks
  <2>4. ASSUME NEW t \in Threads, NEW u \in Threads, task'[t] = task'[u], task'[t] # Null
        PROVE  t = u
    BY <1>13, <2>1, <2>4 DEF HeapInv, TaskInv
  <2> QED BY <2>2, <2>3, <2>4 DEF TaskInv
<1>19. PendInv'
  BY <1>2 DEF HeapInv, PendInv
<1> QED BY <1>14, <1>16, <1>17, <1>18, <1>19 DEF HeapInv

(* The value of a task that nobody waits for is released, and the task is  *)
(* freed; otherwise the task gets the value.                               *)
LEMMA FinishTaskStep ==
    ASSUME NEW X \in [Objs -> Nat], HeapInv(X), NEW w \in Threads, NEW v \in Values,
           FinishTask(w, v)
    PROVE  HeapInv(X)'
<1>1. HeapTypes
  BY DEF HeapInv
<1>2. PICK o \in Objs : o = task[w]
  BY <1>1 DEF FinishTask, Running, HeapTypes
<1>3. /\ pend[w] = Null /\ todo[w] = {} /\ own[w] = [x \in Objs |-> Times(x, v, Null)]
      /\ own' = [own EXCEPT ![w] = [x \in Objs |-> 0]]
      /\ task' = [task EXCEPT ![w] = Null] /\ UNCHANGED <<rc, todo>>
  BY DEF FinishTask, Running
<1>4. /\ kind[o] = "task" /\ mem[o] = "mt" /\ fld[o] = <<Null, Null>>
      /\ \A u \in Threads : u # w => task[u] # o
  BY <1>2, NullIsNoObj DEF HeapInv, TaskInv
<1>5. /\ own' \in [Threads -> [Objs -> Nat]] /\ own'[w] = [x \in Objs |-> 0]
      /\ \A t \in Threads : t # w => own'[t] = own[t]
  BY <1>1, <1>3 DEF HeapTypes
<1>6. /\ task' \in [Threads -> Objs \union {Null}] /\ task'[w] = Null
      /\ \A t \in Threads : t # w => task'[t] = task[t]
  BY <1>1, <1>3 DEF HeapTypes
<1>7. v \in Pointers
  BY DEF Pointers, Values
<1>8. CASE IsDeleted(o)
  <2>1. /\ pend' = [pend EXCEPT ![w] = IF v \in Objs THEN v ELSE Null]
        /\ kind' = [kind EXCEPT ![o] = "free"] /\ mem' = [mem EXCEPT ![o] = "st"]
        /\ UNCHANGED fld
    BY <1>2, <1>8 DEF FinishTask
  <2>2. rc[o] = 0 /\ \A th \in Threads : o \notin todo[th]
    BY <1>8 DEF IsDeleted
  <2>3. /\ pend' \in [Threads -> Objs \union {Null}]
        /\ pend'[w] = IF v \in Objs THEN v ELSE Null
        /\ \A t \in Threads : t # w => pend'[t] = pend[t]
    BY <1>1, <2>1 DEF HeapTypes
  <2>4. /\ kind' \in [Objs -> Kinds] /\ kind'[o] = "free"
        /\ \A x \in Objs : x # o => kind'[x] = kind[x]
    BY <1>1, <2>1 DEF HeapTypes, Kinds
  <2>5. /\ mem' \in [Objs -> {"st", "mt", "persistent"}] /\ mem'[o] = "st"
        /\ \A x \in Objs : x # o => mem'[x] = mem[x]
    BY <1>1, <2>1 DEF HeapTypes
  <2>6. HeapTypes'
    BY <1>1, <1>3, <1>5, <1>6, <2>1, <2>3, <2>4, <2>5 DEF HeapTypes
  <2>7. ASSUME NEW x \in Objs PROVE References(x)' = References(x)
    <3>1. /\ References(x) \in Nat /\ References(x)' \in Nat
          /\ Holds(w, x) \in Nat /\ Holds(w, x)' \in Nat
          /\ Stores(x, x) \in Nat /\ Stores(x, x)' \in Nat
          /\ References(x)' = References(x) - Holds(w, x) + Holds(w, x)'
                              - Stores(x, x) + Stores(x, x)'
      BY <1>1, <1>5, <2>1, <2>3, <2>6, ReferencesUpdate
    <3>2. Stores(x, x)' = Stores(x, x)
      BY <2>1, HoldsNext DEF Stores
    <3>3. Holds(w, x) = Times(x, v, Null)
      BY <1>1, <1>3, <2>6, IdleHolds
    <3>4. Holds(w, x)' = 0 + Times(x, pend'[w], Null)
      BY <1>5, HoldsNext
    <3>5. Times(x, pend'[w], Null) = Times(x, v, Null) /\ Times(x, v, Null) \in Nat
      BY <2>3, TimesValue, NullIsNoObj
    <3> QED BY <3>1, <3>2, <3>3, <3>4, <3>5
  <2>8. References(o) + X[o] = 0
    <3>1. ~ Dead(o) /\ IsHeapObj(o)
      BY <1>4, <2>2 DEF Dead, IsHeapObj
    <3>2. Counted(X, o)
      BY DEF HeapInv
    <3> QED BY <2>2, <3>1, <3>2 DEF Counted
  <2>9. ASSUME NEW x \in Objs PROVE Counted(X, x)'
    <3>1. CASE x = o
      BY <2>4, <2>7, <2>8, <3>1 DEF Counted, Dead
    <3>2. CASE x # o
      <4>1. (Dead(x)' <=> Dead(x)) /\ (IsHeapObj(x)' <=> IsHeapObj(x)) /\ rc'[x] = rc[x]
        BY <1>3, <2>4, <2>5, <3>2 DEF Dead, IsHeapObj
      <4>2. Counted(X, x)
        BY DEF HeapInv
      <4> QED BY <2>7, <4>1, <4>2 DEF Counted
    <3> QED BY <3>1, <3>2
  <2>10. TodoInv'
    <3>1. ASSUME NEW th \in Threads, NEW x \in todo'[th]
          PROVE  kind'[x] # "free" /\ IsHeapObj(x)' /\ rc'[x] = 0
      <4>1. /\ x \in todo[th] /\ x # o /\ x \in Objs
            /\ kind[x] # "free" /\ IsHeapObj(x) /\ rc[x] = 0
        BY <1>1, <1>3, <2>2 DEF HeapInv, TodoInv, HeapTypes
      <4> QED BY <1>3, <2>4, <2>5, <4>1 DEF IsHeapObj
    <3> QED BY <1>3, <3>1 DEF HeapInv, TodoInv
  <2>11. FreeInv'
    BY <1>4, <2>1, <2>4, <2>5 DEF HeapInv, FreeInv
  <2>12. TaskInv'
    <3>1. ASSUME NEW t \in Threads, task'[t] # Null
          PROVE  kind'[task'[t]] = "task" /\ fld'[task'[t]] = <<Null, Null>>
      <4>1. /\ task'[t] = task[t] /\ task[t] # o /\ task[t] \in Objs
            /\ kind[task[t]] = "task" /\ fld[task[t]] = <<Null, Null>>
        BY <1>1, <1>4, <1>6, <3>1 DEF HeapInv, TaskInv, HeapTypes
      <4> QED BY <2>1, <2>4, <4>1
    <3>2. ASSUME NEW x \in Objs, kind'[x] = "task" PROVE mem'[x] = "mt"
      BY <2>4, <2>5, <3>2 DEF HeapInv, TaskInv
    <3>3. ASSUME NEW t \in Threads, NEW u \in Threads, task'[t] = task'[u], task'[t] # Null
          PROVE  t = u
      BY <1>6, <3>3 DEF HeapInv, TaskInv
    <3> QED BY <3>1, <3>2, <3>3 DEF TaskInv
  <2>13. PendInv'
    BY <1>3, <2>3 DEF HeapInv, PendInv
  <2> QED BY <2>6, <2>9, <2>10, <2>11, <2>12, <2>13 DEF HeapInv
<1>9. CASE ~ IsDeleted(o)
  <2>1. fld' = [fld EXCEPT ![o][1] = v] /\ UNCHANGED <<pend, kind, mem>>
    BY <1>2, <1>9 DEF FinishTask
  <2>2. /\ fld' \in [Objs -> Pointers \X Pointers]
        /\ \A y \in Objs : y # o => fld'[y] = fld[y]
        /\ \A x \in Objs : Times(x, fld'[o][1], fld'[o][2]) + Times(x, Null, Null)
                           = Stores(o, x) + Times(x, v, Null)
    <3>1. SetsField(o, 1, v) /\ fld[o][1] = Null
      BY <1>4, <2>1 DEF SetsField
    <3> QED BY <1>1, <1>7, <3>1, FieldUpdate
  <2>3. HeapTypes'
    BY <1>1, <1>3, <1>5, <1>6, <2>1, <2>2 DEF HeapTypes
  <2>4. ASSUME NEW x \in Objs PROVE References(x)' = References(x) /\ References(x) \in Nat
    <3>1. /\ References(x) \in Nat /\ References(x)' \in Nat
          /\ Holds(w, x) \in Nat /\ Holds(w, x)' \in Nat
          /\ Stores(o, x) \in Nat /\ Stores(o, x)' \in Nat
          /\ References(x)' = References(x) - Holds(w, x) + Holds(w, x)'
                              - Stores(o, x) + Stores(o, x)'
      BY <1>1, <1>5, <2>1, <2>2, <2>3, ReferencesUpdate
    <3>2. Holds(w, x) = Times(x, v, Null) /\ Holds(w, x)' = 0
      BY <1>1, <1>3, <1>5, <2>1, <2>3, IdleHolds
    <3>3. Stores(o, x)' + 0 = Stores(o, x) + Times(x, v, Null)
      BY <2>2, HoldsNext, NullIsNoObj
    <3> QED BY <3>1, <3>2, <3>3
  <2>5. (\A x \in Objs : Counted(X, x)') /\ TodoInv'
    <3>1. PICK T \in [Objs -> Nat] : T = [x \in Objs |-> 0]
      OBVIOUS
    <3>2. PICK N \in SUBSET Objs : N = {}
      OBVIOUS
    <3>3. ASSUME NEW x \in Objs \ N
          PROVE  /\ kind'[x] = kind[x]
                 /\ IsHeapObj(x)' => IsHeapObj(x)
                 /\ rc'[x] = IF IsHeapObj(x) THEN rc[x] + T[x] ELSE rc[x]
                 /\ References(x)' + X[x] = References(x) + X[x] + T[x]
                 /\ Dead(x) => T[x] = 0 /\ mem'[x] = mem[x]
      <4>1. T[x] = 0 /\ rc[x] \in Nat /\ X[x] \in Nat
        BY <1>1, <3>1 DEF HeapTypes
      <4> QED BY <1>3, <2>1, <2>4, <4>1 DEF IsHeapObj
    <3>4. \A x \in N : /\ kind[x] = "free" /\ kind'[x] # "free" /\ rc'[x] = 1
                       /\ References(x)' + X[x] = 1
      BY <3>2
    <3>5. UNCHANGED todo
      BY <1>3
    <3> QED BY <2>3, <3>3, <3>4, <3>5, GrowStep
  <2>6. FreeInv'
    BY <1>4, <2>1, <2>2 DEF HeapInv, FreeInv
  <2>7. TaskInv'
    <3>1. ASSUME NEW t \in Threads, task'[t] # Null
          PROVE  kind'[task'[t]] = "task" /\ fld'[task'[t]] = <<Null, Null>>
      <4>1. /\ task'[t] = task[t] /\ task[t] # o /\ task[t] \in Objs
            /\ kind[task[t]] = "task" /\ fld[task[t]] = <<Null, Null>>
        BY <1>1, <1>4, <1>6, <3>1 DEF HeapInv, TaskInv, HeapTypes
      <4> QED BY <2>1, <2>2, <4>1
    <3>2. ASSUME NEW x \in Objs, kind'[x] = "task" PROVE mem'[x] = "mt"
      BY <2>1, <3>2 DEF HeapInv, TaskInv
    <3>3. ASSUME NEW t \in Threads, NEW u \in Threads, task'[t] = task'[u], task'[t] # Null
          PROVE  t = u
      BY <1>6, <3>3 DEF HeapInv, TaskInv
    <3> QED BY <3>1, <3>2, <3>3 DEF TaskInv
  <2>8. PendInv'
    BY <1>3, <2>1 DEF HeapInv, PendInv
  <2> QED BY <2>3, <2>5, <2>6, <2>7, <2>8 DEF HeapInv
<1> QED BY <1>8, <1>9

----------------------------------------------------------------------------
LEMMA HeapInit ==
    ASSUME Init, NEW X \in [Objs -> Nat], \A o \in Objs : X[o] = 0
    PROVE  HeapInv(X)
<1>1. HeapTypes
  <2>1. /\ kind \in [Objs -> Kinds] /\ fld \in [Objs -> Pointers \X Pointers]
        /\ rc \in [Objs -> Nat] /\ mem \in [Objs -> {"st", "mt", "persistent"}]
    BY DEF Init, Kinds, Pointers
  <2>2. /\ own \in [Threads -> [Objs -> Nat]] /\ pend \in [Threads -> Objs \union {Null}]
        /\ todo \in [Threads -> SUBSET Objs] /\ task \in [Threads -> Objs \union {Null}]
    BY DEF Init
  <2> QED BY <2>1, <2>2 DEF HeapTypes
<1>2. TodoInv /\ FreeInv /\ PendInv
  BY DEF Init, TodoInv, FreeInv, PendInv
<1>3. TaskInv
  BY DEF Init, TaskInv
<1>4. ASSUME NEW o \in Objs PROVE Counted(X, o)
  <2>1. \A th \in Threads : Holds(th, o) = 0
    BY NullIsNoObj DEF Init, Holds
  <2>2. \A x \in Objs : Stores(x, o) = 0
    BY NullIsNoObj DEF Init, Stores
  <2>3. /\ [th \in Threads |-> Holds(th, o)] = [th \in Threads |-> 0]
        /\ [x \in Objs |-> Stores(x, o)] = [x \in Objs |-> 0]
    BY <2>1, <2>2
  <2>4. References(o) = Total([th \in Threads |-> 0]) + Total([x \in Objs |-> 0])
    BY <1>1, <2>3, HoldsType
  <2>5. References(o) = 0 + 0
    BY <2>4, TotalZero, ThreadsAssumption, ObjsAssumption
  <2>6. kind[o] = "free"
    BY DEF Init
  <2> QED BY <2>5, <2>6 DEF Counted, Dead
<1> QED BY <1>1, <1>2, <1>3, <1>4 DEF HeapInv

(* Every step of every thread keeps the counters exact.                    *)
LEMMA HeapStep ==
    ASSUME NEW X \in [Objs -> Nat], HeapInv(X), NEW th \in Threads, Step(th)
    PROVE  HeapInv(X)'
<1>1. ASSUME NEW o \in Objs, NEW a \in Values, NEW b \in Values, Alloc(th, o, a, b)
      PROVE  HeapInv(X)'
  <2>1. a \in Pointers /\ b \in Pointers /\ "data" \in Kinds \ {"free", "task"}
    BY DEF Values, Pointers, Kinds
  <2>2. /\ Running(th) /\ kind[o] = "free" /\ Owns(th, a, b)
        /\ kind' = [kind EXCEPT ![o] = "data"] /\ rc' = [rc EXCEPT ![o] = 1]
        /\ fld' = [fld EXCEPT ![o] = <<a, b>>]
        /\ own' = [own EXCEPT ![th] = Gain(Lose(own[th], a, b), o)]
        /\ UNCHANGED <<mem, pend, todo, task>>
    BY <1>1 DEF Alloc, SetOwn
  <2> QED BY <2>1, <2>2, AllocStep
<1>2. CASE Compute(th)
  BY <1>1, <1>2, IncStep, DecStep, InitConstantStep, ReadConstantStep, ProjStep,
     ArraySetInPlaceStep, ArraySetCopyStep DEF Compute
<1>3. CASE \E w \in Threads, o, c \in Objs : MkTask(th, w, o, c)
  BY <1>3, MkTaskStep
<1> QED BY <1>2, <1>3, DecPendingStep, DelCoreStep, FinishTaskStep DEF Step

(* A step of th leaves alone what another thread t does with an object     *)
(* that t owns.                                                            *)
LEMMA StepOthers ==
    ASSUME NEW X \in [Objs -> Nat], HeapInv(X), NEW th \in Threads, Step(th),
           NEW t \in Threads, t # th, NEW r \in Objs, own[t][r] > 0, kind[r] = "ref"
    PROVE  pend'[t] = pend[t] /\ todo'[t] = todo[t] /\ own'[t][r] > 0 /\ kind'[r] = "ref"
<1>1. HeapTypes
  BY DEF HeapInv
<1>2. ~ Dead(r)
  BY HeldAlive
<1>3. CASE Compute(th)
  BY <1>1, <1>3 DEF Compute, Alloc, Inc, Dec, InitConstant, ReadConstant, Proj, ArraySetInPlace,
     ArraySetCopy, SetOwn, HeapTypes, objVars, threadVars
<1>4. CASE DecPending(th)
  BY <1>1, <1>4 DEF DecPending, HeapTypes
<1>5. CASE \E o \in Objs : DelCore(th, o)
  BY <1>1, <1>2, <1>5 DEF DelCore, HeapTypes, objVars, Dead
<1>6. ASSUME NEW w \in Threads, NEW o \in Objs, NEW c \in Objs, MkTask(th, w, o, c)
      PROVE  pend'[t] = pend[t] /\ todo'[t] = todo[t] /\ own'[t][r] > 0 /\ kind'[r] = "ref"
  <2>1. /\ Gain(own[w], c) \in [Objs -> Nat]
        /\ \A x \in Objs : Gain(own[w], c)[x] = own[w][x] + Times(x, c, Null)
    BY <1>1, TimesType DEF Gain, HeapTypes
  <2>2. own[w][r] \in Nat /\ Times(r, c, Null) \in Nat
    BY <1>1, TimesType DEF HeapTypes
  <2>3. own'[t] = own[t] \/ (t = w /\ own'[t] = Gain(own[w], c))
    BY <1>1, <1>6 DEF MkTask, HeapTypes
  <2>4. own'[t][r] > 0
    BY <2>1, <2>2, <2>3
  <2> QED BY <1>1, <1>6, <2>4 DEF MkTask, HeapTypes
<1>7. CASE \E v \in Values : FinishTask(th, v)
  <2>1. task[th] # r
    BY NullIsNoObj DEF HeapInv, TaskInv
  <2> QED BY <1>1, <1>7, <2>1 DEF FinishTask, HeapTypes
<1> QED BY <1>3, <1>4, <1>5, <1>6, <1>7 DEF Step

(* What a step may do to the fields of an object that stays what it is.    *)
LEMMA StepUnseen ==
    ASSUME NEW X \in [Objs -> Nat], HeapInv(X), NEW th \in Threads, Step(th),
           NEW o \in Objs, kind[o] = "data", kind'[o] = "data", fld'[o] # fld[o]
    PROVE  References(o) = 1 /\ mem[o] # "persistent"
<1>1. HeapTypes
  BY DEF HeapInv
<1>2. ASSUME NEW x \in Objs, NEW i \in {1, 2}, NEW v \in Values, ArraySetInPlace(th, x, i, v)
      PROVE  References(o) = 1 /\ mem[o] # "persistent"
  <2>1. o = x
    BY <1>1, <1>2 DEF ArraySetInPlace, HeapTypes
  <2>2. IsHeapObj(o) /\ ~ (rc[o] > 1) /\ own[th][o] >= Times(o, o, v)
    BY <1>2, <2>1 DEF ArraySetInPlace, IsExclusive, IsShared, Owns
  <2>3. own[th][o] \in Nat /\ own[th][o] > 0 /\ rc[o] \in Nat /\ X[o] \in Nat
    BY <1>1, <2>2, TimesValue, NullIsNoObj DEF HeapTypes
  <2>4. ~ Dead(o)
    BY <2>3, HeldAlive
  <2>5. rc[o] = References(o) + X[o]
    BY <2>2, <2>4 DEF HeapInv, Counted
  <2>6. /\ References(o) \in Nat /\ References(o) >= Holds(th, o) + Stores(o, o)
        /\ Holds(th, o) \in Nat /\ Stores(o, o) \in Nat
    BY <1>1, ReferencesBound
  <2>7. Holds(th, o) >= own[th][o]
    BY <2>3, TimesType DEF Holds
  <2>8. mem[o] # "persistent"
    BY <2>2 DEF IsHeapObj
  <2> QED BY <2>2, <2>3, <2>5, <2>6, <2>7, <2>8
<1>3. CASE Compute(th)
  BY <1>1, <1>2, <1>3 DEF Compute, Alloc, Inc, Dec, InitConstant, ReadConstant, Proj,
     ArraySetCopy, HeapTypes, objVars
<1>4. CASE DecPending(th)
  BY <1>4 DEF DecPending
<1>5. CASE \E x \in Objs : DelCore(th, x)
  BY <1>1, <1>5 DEF DelCore, HeapTypes, objVars
<1>6. CASE \E w \in Threads, x, c \in Objs : MkTask(th, w, x, c)
  BY <1>6 DEF MkTask
<1>7. CASE \E v \in Values : FinishTask(th, v)
  <2>1. PICK v \in Values : FinishTask(th, v)
    BY <1>7
  <2>2. task[th] # Null /\ kind[task[th]] = "task" /\ task[th] # o
    BY <2>1 DEF FinishTask, Running, HeapInv, TaskInv
  <2> QED BY <1>1, <2>1, <2>2 DEF FinishTask, HeapTypes
<1> QED BY <1>3, <1>4, <1>5, <1>6, <1>7 DEF Step

----------------------------------------------------------------------------
(* Who may use the counter of a single-threaded object: lab names a thread *)
(* for each, the same one for the objects it refers to.                    *)
Fields(o) == {fld[o][1], fld[o][2]} \intersect Objs

EdgeInv(lab) ==
    \A o \in Objs : \A y \in Fields(o) : mem[y] = "st" => mem[o] = "st" /\ lab[y] = lab[o]
RootInv(lab) ==
    \A th \in Threads : \A o \in Roots(th) : mem[o] = "st" => lab[o] = th
Labels(lab) == EdgeInv(lab) /\ RootInv(lab)

(* Without references of any kind.                                         *)
LEMMA Loose ==
    ASSUME NEW X \in [Objs -> Nat], HeapInv(X), NEW o \in Objs, References(o) + X[o] = 0
    PROVE  /\ \A th \in Threads : own[th][o] = 0 /\ pend[th] # o
           /\ \A x \in Objs : o \notin Fields(x)
           /\ X[o] = 0
<1>1. HeapTypes /\ X[o] \in Nat /\ References(o) \in Nat
  BY ReferencesNat DEF HeapInv
<1>2. ASSUME NEW th \in Threads PROVE own[th][o] = 0 /\ pend[th] # o
  <2>1. References(o) >= Holds(th, o) + Stores(o, o)
        /\ Holds(th, o) \in Nat /\ Stores(o, o) \in Nat
    BY <1>1, ReferencesBound
  <2>2. Holds(th, o) = own[th][o] + Times(o, pend[th], Null)
    BY DEF Holds
  <2>3. own[th][o] \in Nat /\ Times(o, pend[th], Null) \in Nat
    BY <1>1, TimesType DEF HeapTypes
  <2>4. own[th][o] = 0 /\ Times(o, pend[th], Null) = 0
    BY <1>1, <2>1, <2>2, <2>3
  <2> QED BY <2>4, TimesValue, NullIsNoObj
<1>3. ASSUME NEW x \in Objs PROVE o \notin Fields(x)
  <2>1. References(o) >= Holds(Main, o) + Stores(x, o)
        /\ Holds(Main, o) \in Nat /\ Stores(x, o) \in Nat
    BY <1>1, ReferencesBound, ThreadsAssumption
  <2>2. Stores(x, o) = 0
    BY <1>1, <2>1
  <2>3. fld[x][1] # o /\ fld[x][2] # o
    BY <2>2, TimesValue DEF Stores
  <2> QED BY <2>3 DEF Fields
<1> QED BY <1>1, <1>2, <1>3

LEMMA DeadLoose ==
    ASSUME NEW X \in [Objs -> Nat], HeapInv(X), NEW o \in Objs, Dead(o)
    PROVE  References(o) + X[o] = 0
BY DEF HeapInv, Counted

(* Thread th keeps the labels: memory is not reused for the single-        *)
(* threaded heap except the objects in N, which nobody refers to and th    *)
(* gets; and what th stores or gets is its own.                            *)
Keeps(lab, th, N, X) ==
    /\ \A o \in N : References(o) + X[o] = 0
    /\ \A y \in Objs \ N : mem'[y] = "st" => mem[y] = "st"
    /\ \A o \in Objs : \A y \in Fields(o)' : mem'[y] = "st" =>
            \/ o \notin N /\ y \notin N /\ y \in Fields(o) /\ mem'[o] = "st"
            \/ mem'[o] = "st" /\ (o \in N \/ lab[o] = th) /\ (y \in N \/ lab[y] = th)
    /\ \A t \in Threads : \A o \in Roots(t)' : mem'[o] = "st" =>
            \/ o \in N /\ t = th
            \/ o \notin N /\ (o \in Roots(t) \/ (t = th /\ lab[o] = th))

Relabel(lab, N, th) == [o \in Objs |-> IF o \in N THEN th ELSE lab[o]]

LEMMA LabelStep ==
    ASSUME NEW lab \in [Objs -> Threads], Labels(lab), NEW th \in Threads,
           NEW N \in SUBSET Objs, NEW X, Keeps(lab, th, N, X)
    PROVE  Relabel(lab, N, th) \in [Objs -> Threads] /\ Labels(Relabel(lab, N, th))'
<1>0. /\ Relabel(lab, N, th) \in [Objs -> Threads]
      /\ \A o \in Objs : Relabel(lab, N, th)[o] = IF o \in N THEN th ELSE lab[o]
  BY DEF Relabel
<1>1. PICK new \in [Objs -> Threads] :
        /\ new = Relabel(lab, N, th)
        /\ \A o \in Objs : new[o] = IF o \in N THEN th ELSE lab[o]
  BY <1>0
<1>2. EdgeInv(new)'
  <2>1. ASSUME NEW o \in Objs, NEW y \in Fields(o)', mem'[y] = "st"
        PROVE  mem'[o] = "st" /\ new[y] = new[o]
    <3>1. y \in Objs
      BY DEF Fields
    <3>2. CASE o \notin N /\ y \notin N /\ y \in Fields(o) /\ mem'[o] = "st"
      <4>1. mem[y] = "st"
        BY <2>1, <3>1, <3>2 DEF Keeps
      <4>2. lab[y] = lab[o]
        BY <3>2, <4>1 DEF Labels, EdgeInv
      <4> QED BY <1>1, <3>1, <3>2, <4>2
    <3>3. CASE mem'[o] = "st" /\ (o \in N \/ lab[o] = th) /\ (y \in N \/ lab[y] = th)
      BY <1>1, <3>1, <3>3
    <3> QED BY <2>1, <3>2, <3>3 DEF Keeps
  <2> QED BY <2>1 DEF EdgeInv
<1>3. RootInv(new)'
  <2>1. ASSUME NEW t \in Threads, NEW o \in Roots(t)', mem'[o] = "st" PROVE new[o] = t
    <3>1. o \in Objs
      BY DEF Roots
    <3>2. CASE o \in N /\ t = th
      BY <1>1, <3>1, <3>2
    <3>3. CASE o \notin N /\ (o \in Roots(t) \/ (t = th /\ lab[o] = th))
      <4>1. mem[o] = "st"
        BY <2>1, <3>1, <3>3 DEF Keeps
      <4> QED BY <1>1, <3>1, <3>3, <4>1 DEF Labels, RootInv
    <3> QED BY <2>1, <3>2, <3>3 DEF Keeps
  <2> QED BY <2>1 DEF RootInv
<1> QED BY <1>1, <1>2, <1>3 DEF Labels

----------------------------------------------------------------------------
(* A marking m leaves nothing single-threaded that a marked object refers  *)
(* to.                                                                     *)
Seals(m) ==
    /\ \A y \in Objs : m[y] = "st" => mem[y] = "st"
    /\ \A x \in Objs : \A y \in Fields(x) : m[y] = "st" /\ mem[x] = "st" => m[x] = "st"

LEMMA VisitedClosed ==
    ASSUME NEW c, NEW M, NEW x \in Visited(c, M), NEW y \in Fields(x), mem[y] \in M
    PROVE  y \in Visited(c, M)
<1>1. x \in Objs /\ mem[x] \in M /\ y \in Objs /\ y \in {fld[x][1], fld[x][2]} \intersect Objs
  BY DEF Visited, Fields
<1>2. ASSUME NEW S \in SUBSET Objs, {c} \intersect Objs \subseteq S, Closed(S, M) PROVE y \in S
  <2>1. x \in S
    BY <1>2 DEF Visited
  <2> QED BY <1>1, <1>2, <2>1 DEF Closed
<1> QED BY <1>1, <1>2 DEF Visited

LEMMA MarkSeals ==
    ASSUME NEW c
    PROVE  /\ Seals(MarkMT(c)) /\ Seals(MarkPersistent(c)) /\ Seals(mem)
           /\ c \in Objs => MarkMT(c)[c] # "st"
<1>1. Seals(MarkMT(c))
  <2>1. ASSUME NEW x \in Objs, NEW y \in Fields(x), MarkMT(c)[y] = "st", mem[x] = "st"
        PROVE  MarkMT(c)[x] = "st"
    <3>1. y \in Objs
      BY DEF Fields
    <3>2. y \notin Visited(c, {"st"}) /\ mem[y] \in {"st"}
      BY <2>1, <3>1 DEF MarkMT
    <3>3. x \notin Visited(c, {"st"})
      BY <3>2, VisitedClosed
    <3> QED BY <2>1, <3>3 DEF MarkMT
  <2>2. \A y \in Objs : MarkMT(c)[y] = "st" => mem[y] = "st"
    BY DEF MarkMT
  <2> QED BY <2>1, <2>2 DEF Seals
<1>2. Seals(MarkPersistent(c))
  <2>1. ASSUME NEW x \in Objs, NEW y \in Fields(x), MarkPersistent(c)[y] = "st", mem[x] = "st"
        PROVE  MarkPersistent(c)[x] = "st"
    <3>1. y \in Objs
      BY DEF Fields
    <3>2. y \notin Visited(c, {"st", "mt"}) /\ mem[y] \in {"st", "mt"}
      BY <2>1, <3>1 DEF MarkPersistent
    <3>3. x \notin Visited(c, {"st", "mt"})
      BY <3>2, VisitedClosed
    <3> QED BY <2>1, <3>3 DEF MarkPersistent
  <2>2. \A y \in Objs : MarkPersistent(c)[y] = "st" => mem[y] = "st"
    BY DEF MarkPersistent
  <2> QED BY <2>1, <2>2 DEF Seals
<1>3. Seals(mem)
  BY DEF Seals
<1>4. c \in Objs /\ mem[c] = "st" => c \in Visited(c, {"st"})
  BY DEF Visited
<1>5. c \in Objs => MarkMT(c)[c] # "st"
  BY <1>4 DEF MarkMT
<1> QED BY <1>1, <1>2, <1>3, <1>5

Kept(lab, th, X) == \E N \in SUBSET Objs : Keeps(lab, th, N, X)

(* Thread th changes the fields of r only, to objects that are its own.    *)
StoresOwn(lab, th, r) ==
    /\ Seals(mem')
    /\ \A y \in Objs : y # r => fld'[y] = fld[y]
    /\ \A y \in Fields(r)' : \/ y \in Fields(r)
                             \/ mem'[y] = "st" => mem'[r] = "st" /\ lab[r] = th /\ lab[y] = th
    /\ \A t \in Threads : \A o \in Roots(t)' :
            o \in Roots(t) \/ mem'[o] # "st" \/ (t = th /\ lab[o] = th)

LEMMA StoreKeeps ==
    ASSUME NEW lab \in [Objs -> Threads], Labels(lab), NEW th \in Threads, NEW r \in Objs, NEW X,
           StoresOwn(lab, th, r)
    PROVE  Kept(lab, th, X)
<1>1. PICK N \in SUBSET Objs : N = {}
  OBVIOUS
<1>2. ASSUME NEW o \in Objs, NEW y \in Fields(o)', mem'[y] = "st"
      PROVE  \/ y \in Fields(o) /\ mem'[o] = "st"
             \/ mem'[o] = "st" /\ lab[o] = th /\ lab[y] = th
  <2>1. y \in Objs
    BY DEF Fields
  <2>2. CASE y \in Fields(o)
    <3>1. mem[y] = "st"
      BY <1>2, <2>1 DEF StoresOwn, Seals
    <3>2. mem[o] = "st"
      BY <2>2, <3>1 DEF Labels, EdgeInv
    <3> QED BY <1>2, <2>2, <3>2 DEF StoresOwn, Seals
  <2>3. CASE y \notin Fields(o)
    <3>1. o = r
      BY <2>3 DEF StoresOwn, Fields
    <3> QED BY <1>2, <2>3, <3>1 DEF StoresOwn
  <2> QED BY <2>2, <2>3
<1>3. ASSUME NEW t \in Threads, NEW o \in Roots(t)', mem'[o] = "st"
      PROVE  o \in Roots(t) \/ (t = th /\ lab[o] = th)
  BY <1>3 DEF StoresOwn
<1>4. \A y \in Objs : mem'[y] = "st" => mem[y] = "st"
  BY DEF StoresOwn, Seals
<1>5. Keeps(lab, th, N, X)
  BY <1>1, <1>2, <1>3, <1>4 DEF Keeps
<1> QED BY <1>5 DEF Kept

(* Thread th makes the object n of objects that are its own.               *)
MakesOwn(lab, th, n, a, b) ==
    /\ kind[n] = "free" /\ UNCHANGED <<mem, todo>>
    /\ fld' = [fld EXCEPT ![n] = <<a, b>>]
    /\ \A y \in {a, b} \intersect Objs : mem[y] = "st" => lab[y] = th
    /\ \A t \in Threads : t # th => own'[t] = own[t] /\ pend'[t] = pend[t]
    /\ \A o \in Roots(th)' : o = n \/ o \in Roots(th)

LEMMA MakeKeeps ==
    ASSUME NEW X \in [Objs -> Nat], HeapInv(X), NEW lab \in [Objs -> Threads], Labels(lab),
           NEW th \in Threads, NEW n \in Objs, NEW a, NEW b, MakesOwn(lab, th, n, a, b)
    PROVE  Kept(lab, th, X)
<1> USE DEF MakesOwn
<1>1. HeapTypes
  BY DEF HeapInv
<1>2. PICK N \in SUBSET Objs : N = {n}
  OBVIOUS
<1>3. Dead(n) /\ mem[n] = "st" /\ \A t \in Threads : n \notin todo[t]
  BY DEF Dead, HeapInv, FreeInv, TodoInv
<1>4. References(n) + X[n] = 0
  BY <1>3, DeadLoose
<1>5. /\ \A t \in Threads : own[t][n] = 0 /\ pend[t] # n
      /\ \A x \in Objs : n \notin Fields(x)
  BY <1>4, Loose
<1>6. fld'[n] = <<a, b>> /\ \A y \in Objs : y # n => fld'[y] = fld[y]
  BY <1>1 DEF HeapTypes
<1>7. ASSUME NEW o \in Objs, NEW y \in Fields(o)', mem'[y] = "st"
      PROVE  \/ o \notin N /\ y \notin N /\ y \in Fields(o) /\ mem'[o] = "st"
             \/ mem'[o] = "st" /\ (o \in N \/ lab[o] = th) /\ (y \in N \/ lab[y] = th)
  <2>1. y \in Objs
    BY DEF Fields
  <2>2. CASE o = n
    <3>1. y \in {a, b} \intersect Objs
      BY <1>6, <2>1, <2>2 DEF Fields
    <3> QED BY <1>2, <1>3, <1>7, <2>2, <3>1
  <2>3. CASE o # n
    <3>1. y \in Fields(o) /\ y # n
      BY <1>5, <1>6, <2>3 DEF Fields
    <3>2. mem[o] = "st"
      BY <1>7, <3>1 DEF Labels, EdgeInv
    <3> QED BY <1>2, <2>3, <3>1, <3>2
  <2> QED BY <2>2, <2>3
<1>8. ASSUME NEW t \in Threads, NEW o \in Roots(t)', mem'[o] = "st"
      PROVE  \/ o \in N /\ t = th
             \/ o \notin N /\ (o \in Roots(t) \/ (t = th /\ lab[o] = th))
  <2>1. CASE t = th
    BY <1>2, <2>1, <1>8
  <2>2. CASE t # th
    <3>1. o \in Roots(t)
      BY <2>2 DEF Roots
    <3>2. o # n
      BY <1>3, <1>5, <3>1 DEF Roots
    <3> QED BY <1>2, <3>1, <3>2
  <2> QED BY <2>1, <2>2
<1>9. Keeps(lab, th, N, X)
  <2>1. \A o \in N : References(o) + X[o] = 0
    BY <1>2, <1>4
  <2>2. \A y \in Objs \ N : mem'[y] = "st" => mem[y] = "st"
    OBVIOUS
  <2> HIDE DEF MakesOwn
  <2> QED BY <1>7, <1>8, <2>1, <2>2 DEF Keeps
<1> QED BY <1>9 DEF Kept

(* The object x that th frees has no references left.                      *)
FreesOwn(lab, th, x) ==
    /\ \A y \in Objs : y # x => fld'[y] = fld[y] /\ mem'[y] = mem[y]
    /\ fld'[x] = <<Null, Null>>
    /\ \A t \in Threads : x \notin Roots(t)'
    /\ \A t \in Threads : \A o \in Roots(t)' :
            o \in Roots(t) \/ mem[o] # "st" \/ (t = th /\ lab[o] = th)

LEMMA FreeKeeps ==
    ASSUME NEW X \in [Objs -> Nat], HeapInv(X), NEW lab \in [Objs -> Threads], Labels(lab),
           NEW th \in Threads, NEW x \in Objs, References(x) + X[x] = 0, FreesOwn(lab, th, x)
    PROVE  Kept(lab, th, X)
<1> USE DEF FreesOwn
<1>1. PICK N \in SUBSET Objs : N = {x}
  OBVIOUS
<1>2. \A y \in Objs : x \notin Fields(y)
  BY Loose
<1>3. ASSUME NEW o \in Objs, NEW y \in Fields(o)', mem'[y] = "st"
      PROVE  o \notin N /\ y \notin N /\ y \in Fields(o) /\ mem'[o] = "st"
  <2>1. o # x
    BY NullIsNoObj DEF Fields
  <2>2. y \in Fields(o) /\ y # x /\ y \in Objs
    BY <1>2, <2>1 DEF Fields
  <2>3. mem[o] = "st"
    BY <1>3, <2>2 DEF Labels, EdgeInv
  <2> QED BY <1>1, <2>1, <2>2, <2>3
<1>4. ASSUME NEW t \in Threads, NEW o \in Roots(t)', mem'[o] = "st"
      PROVE  o \notin N /\ (o \in Roots(t) \/ (t = th /\ lab[o] = th))
  <2>1. o \in Objs /\ o # x
    BY DEF Roots
  <2> QED BY <1>1, <1>4, <2>1
<1>5. Keeps(lab, th, N, X)
  <2>1. \A o \in N : References(o) + X[o] = 0
    BY <1>1
  <2>2. \A y \in Objs \ N : mem'[y] = "st" => mem[y] = "st"
    BY <1>1
  <2> HIDE DEF FreesOwn
  <2> QED BY <1>3, <1>4, <2>1, <2>2 DEF Keeps
<1> QED BY <1>5 DEF Kept

(* What th reads in an object it can use is its own.                       *)
LEMMA OwnField ==
    ASSUME NEW lab, Labels(lab), NEW th \in Threads, NEW o \in Roots(th),
           NEW e \in Fields(o), mem[e] = "st"
    PROVE  mem[o] = "st" /\ lab[e] = th /\ lab[o] = th
<1>1. o \in Objs
  BY DEF Roots
<1> QED BY <1>1 DEF Labels, EdgeInv, RootInv

LEMMA CountsComeFrom ==
    ASSUME NEW mine \in [Objs -> Nat], NEW o \in Objs
    PROVE  /\ \A v : Gain(mine, v)[o] > 0 => mine[o] > 0 \/ o = v
           /\ \A a, b : Lose(mine, a, b)[o] > 0 => mine[o] > 0
           /\ \A a, b, v : Gain(Lose(mine, a, b), v)[o] > 0 => mine[o] > 0 \/ o = v
           /\ \A a, b : o \in Zeroed(a, b) => o = a \/ o = b
<1>1. mine[o] \in Nat
  OBVIOUS
<1>2. ASSUME NEW v PROVE Gain(mine, v)[o] = mine[o] + IF v = o THEN 1 ELSE 0
  BY TimesValue, NullIsNoObj DEF Gain
<1>3. ASSUME NEW a, NEW b
      PROVE  /\ Lose(mine, a, b)[o] = mine[o] - Times(o, a, b) /\ Times(o, a, b) \in Nat
             /\ Times(o, a, b) > 0 => o = a \/ o = b
  BY TimesValue, TimesType DEF Lose
<1>4. ASSUME NEW a, NEW b, NEW v
      PROVE  Gain(Lose(mine, a, b), v)[o] = Lose(mine, a, b)[o] + IF v = o THEN 1 ELSE 0
  <2>1. Gain(Lose(mine, a, b), v)[o] = Lose(mine, a, b)[o] + Times(o, v, Null)
    BY DEF Gain
  <2> QED BY <2>1, TimesValue, NullIsNoObj
<1>5. \A a, b : o \in Zeroed(a, b) => o = a \/ o = b
  BY <1>3 DEF Zeroed
<1>6. \A v : Gain(mine, v)[o] > 0 => mine[o] > 0 \/ o = v
  BY <1>1, <1>2
<1>7. \A a, b : Lose(mine, a, b)[o] > 0 => mine[o] > 0
  BY <1>1, <1>3
<1>8. \A a, b, v : Gain(Lose(mine, a, b), v)[o] > 0 => mine[o] > 0 \/ o = v
  <2> TAKE a, b, v
  <2>1. CASE v = o
    BY <2>1
  <2>2. CASE v # o
    <3>1. Gain(Lose(mine, a, b), v)[o] = mine[o] - Times(o, a, b) + 0
      BY <1>3, <1>4, <2>2
    <3> QED BY <1>1, <1>3, <3>1
  <2> QED BY <2>1, <2>2
<1> QED BY <1>5, <1>6, <1>7, <1>8

(* Steps that change neither fields nor memory.                            *)
LEMMA RerootKeeps ==
    ASSUME NEW lab \in [Objs -> Threads], Labels(lab), NEW th \in Threads, NEW X,
           UNCHANGED <<mem, fld>>,
           \A t \in Threads : \A o \in Roots(t)' :
                o \in Roots(t) \/ mem[o] # "st" \/ (t = th /\ lab[o] = th)
    PROVE  Kept(lab, th, X)
<1>1. CASE Objs = {}
  <2>1. Keeps(lab, th, {}, X)
    BY <1>1 DEF Keeps, Roots
  <2> QED BY <2>1 DEF Kept
<1>2. CASE Objs # {}
  <2>1. PICK r \in Objs : TRUE
    BY <1>2
  <2>2. Seals(mem')
    BY MarkSeals DEF Seals
  <2>3. \A o \in Objs : Fields(o)' = Fields(o)
    BY DEF Fields
  <2>4. StoresOwn(lab, th, r)
    BY <2>2, <2>3 DEF StoresOwn
  <2> QED BY <2>4, StoreKeeps
<1> QED BY <1>1, <1>2

LEMMA RerootStepsKeep ==
    ASSUME NEW X \in [Objs -> Nat], HeapInv(X), NEW lab \in [Objs -> Threads], Labels(lab),
           NEW th \in Threads, NEW o \in Objs,
           \/ Inc(th, o) \/ Dec(th, o) \/ ReadConstant(th, o) \/ DecPending(th)
           \/ \E i \in {1, 2} : Proj(th, o, i)
    PROVE  Kept(lab, th, X)
<1>1. HeapTypes
  BY DEF HeapInv
<1>2. own[th] \in [Objs -> Nat]
  BY <1>1 DEF HeapTypes
<1>3. UNCHANGED <<mem, fld>>
  BY DEF Inc, Dec, ReadConstant, DecPending, Proj, objVars
<1>4. \A t \in Threads : t # th => own'[t] = own[t] /\ pend'[t] = pend[t] /\ todo'[t] = todo[t]
  BY <1>1 DEF Inc, Dec, ReadConstant, DecPending, Proj, SetOwn, HeapTypes
<1>5. ASSUME NEW x \in Roots(th)'
      PROVE  x \in Roots(th) \/ mem[x] # "st" \/ lab[x] = th
  <2>1. x \in Objs /\ (own'[th][x] > 0 \/ pend'[th] = x \/ x \in todo'[th])
    BY DEF Roots
  <2>2. CASE Inc(th, o)
    <3>1. /\ own'[th] = Gain(own[th], o) /\ own[th][o] > 0
          /\ pend'[th] = pend[th] /\ todo'[th] = todo[th]
      BY <1>1, <2>2 DEF Inc, SetOwn, HeapTypes
    <3> QED BY <1>2, <2>1, <3>1, CountsComeFrom DEF Roots
  <2>3. CASE Dec(th, o)
    <3>1. /\ own'[th] = Lose(own[th], o, Null) /\ own[th][o] > 0
          /\ pend'[th] = pend[th] /\ todo'[th] = Zeroed(o, Null)
      BY <1>1, <2>3 DEF Dec, SetOwn, HeapTypes
    <3> QED BY <1>2, <2>1, <3>1, CountsComeFrom, NullIsNoObj DEF Roots
  <2>4. CASE ReadConstant(th, o)
    <3>1. /\ own'[th] = Gain(own[th], o) /\ mem[o] # "st"
          /\ pend'[th] = pend[th] /\ todo'[th] = todo[th]
      BY <1>1, <2>4 DEF ReadConstant, SetOwn, HeapTypes
    <3> QED BY <1>2, <2>1, <3>1, CountsComeFrom DEF Roots
  <2>5. CASE DecPending(th)
    <3>1. /\ own'[th] = own[th] /\ pend'[th] = Null /\ todo'[th] = Zeroed(pend[th], Null)
      BY <1>1, <2>5 DEF DecPending, HeapTypes
    <3> QED BY <1>2, <2>1, <3>1, CountsComeFrom, NullIsNoObj DEF Roots
  <2>6. ASSUME NEW i \in {1, 2}, Proj(th, o, i)
        PROVE  x \in Roots(th) \/ mem[x] # "st" \/ lab[x] = th
    <3>1. /\ own'[th] = Gain(own[th], fld[o][i]) /\ own[th][o] > 0 /\ fld[o][i] \in Fields(o)
          /\ pend'[th] = pend[th] /\ todo'[th] = todo[th]
      BY <1>1, <2>6 DEF Proj, SetOwn, HeapTypes, Fields
    <3>2. o \in Roots(th)
      BY <3>1 DEF Roots
    <3>3. mem[fld[o][i]] # "st" \/ lab[fld[o][i]] = th
      BY <3>1, <3>2, OwnField
    <3> QED BY <1>2, <2>1, <3>1, <3>3, CountsComeFrom DEF Roots
  <2> QED BY <2>2, <2>3, <2>4, <2>5, <2>6
<1>6. ASSUME NEW t \in Threads, NEW x \in Roots(t)'
      PROVE  x \in Roots(t) \/ mem[x] # "st" \/ (t = th /\ lab[x] = th)
  <2>1. CASE t = th
    BY <1>5, <2>1
  <2>2. CASE t # th
    BY <1>4, <2>2 DEF Roots
  <2> QED BY <2>1, <2>2
<1> QED BY <1>3, <1>6, RerootKeeps

LEMMA AllocKeeps ==
    ASSUME NEW X \in [Objs -> Nat], HeapInv(X), NEW lab \in [Objs -> Threads], Labels(lab),
           NEW th \in Threads, NEW n \in Objs, NEW a, NEW b,
           kind[n] = "free", Owns(th, a, b), fld' = [fld EXCEPT ![n] = <<a, b>>],
           own' = [own EXCEPT ![th] = Gain(Lose(own[th], a, b), n)],
           UNCHANGED <<mem, pend, todo>>
    PROVE  Kept(lab, th, X)
<1>1. HeapTypes
  BY DEF HeapInv
<1>2. /\ own[th] \in [Objs -> Nat] /\ own'[th] = Gain(Lose(own[th], a, b), n)
      /\ \A t \in Threads : t # th => own'[t] = own[t] /\ pend'[t] = pend[t]
  BY <1>1 DEF HeapTypes
<1>3. ASSUME NEW y \in {a, b} \intersect Objs, mem[y] = "st" PROVE lab[y] = th
  <2>1. own[th][y] >= Times(y, a, b) /\ own[th][y] \in Nat
    BY <1>2 DEF Owns
  <2>2. Times(y, a, b) > 0 /\ Times(y, a, b) \in Nat
    BY TimesValue
  <2>3. y \in Roots(th)
    BY <2>1, <2>2 DEF Roots
  <2> QED BY <1>3, <2>3 DEF Labels, RootInv
<1>4. ASSUME NEW o \in Roots(th)' PROVE o = n \/ o \in Roots(th)
  <2>1. o \in Objs /\ (own'[th][o] > 0 \/ pend[th] = o \/ o \in todo[th])
    BY DEF Roots
  <2> QED BY <1>2, <2>1, CountsComeFrom DEF Roots
<1>5. MakesOwn(lab, th, n, a, b)
  BY <1>2, <1>3, <1>4 DEF MakesOwn
<1> QED BY <1>5, MakeKeeps

LEMMA ArraySetCopyKeeps ==
    ASSUME NEW X \in [Objs -> Nat], HeapInv(X), NEW lab \in [Objs -> Threads], Labels(lab),
           NEW th \in Threads, NEW o \in Objs, NEW i \in {1, 2}, NEW v \in Values, NEW n \in Objs,
           ArraySetCopy(th, o, i, v, n)
    PROVE  Kept(lab, th, X)
<1>1. HeapTypes
  BY DEF HeapInv
<1>2. /\ kind[n] = "free" /\ Owns(th, o, v)
      /\ fld' = [fld EXCEPT ![n] = [fld[o] EXCEPT ![i] = v]]
      /\ pend' = [pend EXCEPT ![th] = o]
      /\ own' = [own EXCEPT ![th] = Gain(Lose(own[th], o, v), n)]
      /\ UNCHANGED <<mem, todo>>
  BY DEF ArraySetCopy, SetOwn
<1>3. /\ own[th] \in [Objs -> Nat] /\ own'[th] = Gain(Lose(own[th], o, v), n)
      /\ pend'[th] = o
      /\ \A t \in Threads : t # th => own'[t] = own[t] /\ pend'[t] = pend[t]
  BY <1>1, <1>2 DEF HeapTypes
<1>4. PICK a, b : /\ [fld[o] EXCEPT ![i] = v] = <<a, b>>
                  /\ {a, b} \intersect Objs \subseteq {v} \union Fields(o)
  <2>1. fld[o] \in Pointers \X Pointers /\ fld[o] = <<fld[o][1], fld[o][2]>>
    BY <1>1 DEF HeapTypes
  <2>2. CASE i = 1
    <3>1. [fld[o] EXCEPT ![i] = v] = <<v, fld[o][2]>>
      BY <2>1, <2>2
    <3> QED BY <3>1 DEF Fields
  <2>3. CASE i = 2
    <3>1. [fld[o] EXCEPT ![i] = v] = <<fld[o][1], v>>
      BY <2>1, <2>3
    <3> QED BY <3>1 DEF Fields
  <2> QED BY <2>2, <2>3
<1>5. o \in Roots(th) /\ (v \in Objs => v \in Roots(th))
  <2>1. ASSUME NEW x \in Objs, x = o \/ x = v PROVE own[th][x] > 0
    <3>1. own[th][x] >= Times(x, o, v) /\ own[th][x] \in Nat
      BY <1>2, <1>3 DEF Owns
    <3>2. Times(x, o, v) > 0 /\ Times(x, o, v) \in Nat
      BY <2>1, TimesValue
    <3> QED BY <3>1, <3>2
  <2> QED BY <2>1 DEF Roots
<1>6. ASSUME NEW y \in {a, b} \intersect Objs, mem[y] = "st" PROVE lab[y] = th
  <2>1. CASE y = v
    BY <1>5, <1>6, <2>1 DEF Labels, RootInv
  <2>2. CASE y \in Fields(o)
    BY <1>5, <1>6, <2>2, OwnField
  <2> QED BY <1>4, <2>1, <2>2
<1>7. ASSUME NEW x \in Roots(th)' PROVE x = n \/ x \in Roots(th)
  <2>1. x \in Objs /\ (own'[th][x] > 0 \/ o = x \/ x \in todo[th])
    BY <1>2, <1>3 DEF Roots
  <2> QED BY <1>3, <1>5, <2>1, CountsComeFrom DEF Roots
<1>8. MakesOwn(lab, th, n, a, b)
  <2>1. fld' = [fld EXCEPT ![n] = <<a, b>>] /\ UNCHANGED <<mem, todo>>
    BY <1>2, <1>4
  <2> QED BY <1>2, <1>3, <1>6, <1>7, <2>1 DEF MakesOwn
<1> QED BY <1>8, MakeKeeps

(* Only single-threaded arrays get single-threaded elements.               *)
LEMMA ArraySetInPlaceKeeps ==
    ASSUME NEW X \in [Objs -> Nat], HeapInv(X), NEW lab \in [Objs -> Threads], Labels(lab),
           ~ LocalStores, NEW th \in Threads, NEW o \in Objs, NEW i \in {1, 2},
           NEW v \in Values, ArraySetInPlace(th, o, i, v)
    PROVE  Kept(lab, th, X)
<1>1. HeapTypes
  BY DEF HeapInv
<1>2. PICK e : e = fld[o][i]
  OBVIOUS
<1>3. /\ Owns(th, o, v) /\ (mem[o] = "st" \/ ~ IsST(v))
      /\ fld' = [fld EXCEPT ![o][i] = v]
      /\ todo' = [todo EXCEPT ![th] = Zeroed(e, Null)]
      /\ own' = [own EXCEPT ![th] = Lose(own[th], v, Null)]
      /\ UNCHANGED <<mem, pend>>
  BY <1>2 DEF ArraySetInPlace, SetOwn
<1>4. /\ own[th] \in [Objs -> Nat] /\ own'[th] = Lose(own[th], v, Null)
      /\ todo'[th] = Zeroed(e, Null)
      /\ \A t \in Threads : t # th => own'[t] = own[t] /\ todo'[t] = todo[t]
  BY <1>1, <1>3 DEF HeapTypes
<1>5. o \in Roots(th) /\ (v \in Objs => v \in Roots(th))
  <2>1. ASSUME NEW x \in Objs, x = o \/ x = v PROVE own[th][x] > 0
    <3>1. own[th][x] >= Times(x, o, v) /\ own[th][x] \in Nat
      BY <1>3, <1>4 DEF Owns
    <3>2. Times(x, o, v) > 0 /\ Times(x, o, v) \in Nat
      BY <2>1, TimesValue
    <3> QED BY <3>1, <3>2
  <2> QED BY <2>1 DEF Roots
<1>6. /\ \A y \in Objs : y # o => fld'[y] = fld[y]
      /\ fld'[o][i] = v /\ fld'[o][3 - i] = fld[o][3 - i]
  <2>1. SetsField(o, i, v) /\ v \in Pointers
    BY <1>3 DEF SetsField, Pointers, Values
  <2> QED BY <1>1, <2>1, FieldUpdate
<1>7. ASSUME NEW y \in Fields(o)'
      PROVE  \/ y \in Fields(o)
             \/ mem'[y] = "st" => mem'[o] = "st" /\ lab[o] = th /\ lab[y] = th
  <2>1. y = v \/ y \in Fields(o)
    <3>1. CASE i = 1
      BY <1>6, <3>1 DEF Fields
    <3>2. CASE i = 2
      <4>1. fld'[o][1] = fld[o][1] /\ fld'[o][2] = v
        BY <1>6, <3>2
      <4> QED BY <4>1 DEF Fields
    <3> QED BY <3>1, <3>2
  <2>2. y \in Objs
    BY DEF Fields
  <2>3. ASSUME y = v, mem[y] = "st" PROVE mem[o] = "st" /\ lab[o] = th /\ lab[y] = th
    BY <1>3, <1>5, <2>2, <2>3 DEF IsST, Labels, RootInv
  <2> QED BY <1>3, <2>1, <2>3
<1>8. ASSUME NEW t \in Threads, NEW x \in Roots(t)'
      PROVE  x \in Roots(t) \/ mem'[x] # "st" \/ (t = th /\ lab[x] = th)
  <2>1. CASE t # th
    BY <1>3, <1>4, <2>1 DEF Roots
  <2>2. CASE t = th
    <3>1. x \in Objs /\ (own'[th][x] > 0 \/ pend[th] = x \/ x \in todo'[th])
      BY <1>3, <2>2 DEF Roots
    <3>2. x \in Roots(th) \/ x = e
      BY <1>4, <3>1, CountsComeFrom, NullIsNoObj DEF Roots
    <3>3. x = e => x \in Fields(o)
      BY <1>2, <3>1 DEF Fields
    <3>4. x = e /\ mem[x] = "st" => lab[x] = th
      BY <1>5, <3>3, OwnField
    <3> QED BY <1>3, <2>2, <3>2, <3>4
  <2> QED BY <2>1, <2>2
<1>9. Seals(mem')
  BY <1>3, MarkSeals
<1>10. StoresOwn(lab, th, o)
  BY <1>6, <1>7, <1>8, <1>9 DEF StoresOwn
<1> QED BY <1>10, StoreKeeps

LEMMA InitConstantKeeps ==
    ASSUME NEW lab \in [Objs -> Threads], Labels(lab), NEW X,
           NEW th \in Threads, NEW o \in Objs, InitConstant(th, o)
    PROVE  Kept(lab, th, X)
<1>1. mem' = MarkPersistent(o) /\ UNCHANGED <<fld, own, pend, todo>>
  BY DEF InitConstant, threadVars
<1>2. Seals(mem')
  BY <1>1, MarkSeals
<1>3. Fields(o)' = Fields(o) /\ \A t \in Threads : Roots(t)' = Roots(t)
  BY <1>1 DEF Fields, Roots
<1>4. StoresOwn(lab, th, o)
  BY <1>1, <1>2, <1>3 DEF StoresOwn
<1> QED BY <1>4, StoreKeeps

LEMMA MkTaskKeeps ==
    ASSUME NEW X \in [Objs -> Nat], HeapInv(X), NEW lab \in [Objs -> Threads], Labels(lab),
           NEW th \in Threads, NEW w \in Threads, NEW o \in Objs, NEW c \in Objs,
           MkTask(th, w, o, c)
    PROVE  Kept(lab, th, X)
<1>1. HeapTypes
  BY DEF HeapInv
<1>2. /\ kind[o] = "free" /\ mem' = [MarkMT(c) EXCEPT ![o] = "mt"]
      /\ own' = [own EXCEPT ![th] = Gain(Lose(own[th], c, Null), o), ![w] = Gain(own[w], c)]
      /\ th # w /\ UNCHANGED <<fld, pend, todo>>
  BY DEF MkTask, Running
<1>3. /\ own[th] \in [Objs -> Nat] /\ own'[th] = Gain(Lose(own[th], c, Null), o)
      /\ own[w] \in [Objs -> Nat] /\ own'[w] = Gain(own[w], c)
      /\ \A t \in Threads : t \notin {th, w} => own'[t] = own[t]
  BY <1>1, <1>2 DEF HeapTypes
<1>4. mem'[o] = "mt" /\ \A x \in Objs : x # o => mem'[x] = MarkMT(c)[x]
  BY <1>2 DEF MarkMT
<1>5. Fields(o) = {} /\ \A x \in Objs : Fields(x)' = Fields(x)
  BY <1>2, NullIsNoObj DEF Fields, HeapInv, FreeInv
<1>6. Seals(MarkMT(c)) /\ MarkMT(c)[c] # "st"
  BY MarkSeals
<1>7. Seals(mem')
  <2>1. \A y \in Objs : mem'[y] = "st" => mem[y] = "st"
    BY <1>4, <1>6 DEF Seals
  <2>2. ASSUME NEW x \in Objs, NEW y \in Fields(x), mem'[y] = "st", mem[x] = "st"
        PROVE  mem'[x] = "st"
    <3>1. y \in Objs /\ x # o /\ y # o
      BY <1>4, <1>5, <2>2 DEF Fields
    <3> QED BY <1>4, <1>6, <2>2, <3>1 DEF Seals
  <2> QED BY <2>1, <2>2 DEF Seals
<1>8. ASSUME NEW t \in Threads, NEW x \in Roots(t)' PROVE x \in Roots(t) \/ mem'[x] # "st"
  <2>1. x \in Objs /\ (own'[t][x] > 0 \/ pend[t] = x \/ x \in todo[t])
    BY <1>2 DEF Roots
  <2>2. CASE t \notin {th, w}
    BY <1>3, <2>1, <2>2 DEF Roots
  <2>3. CASE t = th
    <3>1. x \in Roots(th) \/ x = o
      BY <1>3, <2>1, <2>3, CountsComeFrom DEF Roots
    <3> QED BY <1>4, <2>3, <3>1
  <2>4. CASE t = w
    <3>1. x \in Roots(w) \/ x = c
      BY <1>3, <2>1, <2>4, CountsComeFrom DEF Roots
    <3>2. mem'[c] # "st"
      BY <1>4, <1>6
    <3> QED BY <2>4, <3>1, <3>2
  <2> QED BY <2>2, <2>3, <2>4
<1>9. StoresOwn(lab, th, o)
  BY <1>2, <1>5, <1>7, <1>8 DEF StoresOwn
<1> QED BY <1>9, StoreKeeps

LEMMA DelCoreKeeps ==
    ASSUME NEW X \in [Objs -> Nat], HeapInv(X), NEW lab \in [Objs -> Threads], Labels(lab),
           NEW th \in Threads, NEW o \in Objs, DelCore(th, o)
    PROVE  Kept(lab, th, X)
<1>1. HeapTypes
  BY DEF HeapInv
<1>2. o \in todo[th] /\ UNCHANGED <<own, pend>>
  BY DEF DelCore
<1>3. CASE \E w \in Threads : task[w] = o
  <2>1. todo' = [todo EXCEPT ![th] = @ \ {o}] /\ UNCHANGED <<mem, fld>>
    BY <1>3 DEF DelCore, objVars
  <2>2. \A t \in Threads : todo'[t] \subseteq todo[t]
    BY <1>1, <2>1 DEF HeapTypes
  <2>3. \A t \in Threads : \A x \in Roots(t)' : x \in Roots(t)
    BY <1>2, <2>2 DEF Roots
  <2> QED BY <2>1, <2>3, RerootKeeps
<1>4. CASE ~ \E w \in Threads : task[w] = o
  <2>1. PICK a, b : a = fld[o][1] /\ b = fld[o][2]
    OBVIOUS
  <2>2. /\ todo' = [todo EXCEPT ![th] = (@ \ {o}) \union Zeroed(a, b)]
        /\ mem' = [mem EXCEPT ![o] = "st"] /\ fld' = [fld EXCEPT ![o] = <<Null, Null>>]
    BY <1>4, <2>1 DEF DelCore
  <2>3. /\ fld'[o] = <<Null, Null>>
        /\ \A y \in Objs : y # o => fld'[y] = fld[y] /\ mem'[y] = mem[y]
    BY <1>1, <2>2 DEF HeapTypes
  <2>4. /\ todo'[th] = (todo[th] \ {o}) \union Zeroed(a, b)
        /\ \A t \in Threads : t # th => todo'[t] = todo[t]
    BY <1>1, <2>2 DEF HeapTypes
  <2>5. Dead(o) /\ o \in Roots(th) /\ References(o) + X[o] = 0
    BY <1>2, DeadLoose DEF Dead, Roots
  <2>6. /\ \A t \in Threads : own[t][o] = 0 /\ pend[t] # o
        /\ \A x \in Objs : o \notin Fields(x)
    BY <2>5, Loose
  <2>7. \A x \in Zeroed(a, b) : x \in Fields(o)
    <3>1. ASSUME NEW x \in Zeroed(a, b) PROVE x \in Objs /\ (x = a \/ x = b)
      <4>1. x \in Objs
        BY DEF Zeroed
      <4>2. own[th] \in [Objs -> Nat]
        BY <1>1 DEF HeapTypes
      <4> QED BY <4>1, <4>2, CountsComeFrom
    <3> QED BY <2>1, <3>1 DEF Fields
  <2>8. ASSUME NEW t \in Threads PROVE o \notin Roots(t)'
    <3>1. o \notin todo'[t]
      BY <1>2, <2>4, <2>6, <2>7 DEF HeapInv, TodoInv
    <3> QED BY <1>2, <2>6, <3>1 DEF Roots
  <2>9. ASSUME NEW t \in Threads, NEW x \in Roots(t)'
        PROVE  x \in Roots(t) \/ mem[x] # "st" \/ (t = th /\ lab[x] = th)
    <3>1. x \in Objs /\ (own[t][x] > 0 \/ pend[t] = x \/ x \in todo'[t])
      BY <1>2 DEF Roots
    <3>2. x \in Roots(t) \/ (t = th /\ x \in Fields(o))
      BY <2>4, <2>7, <3>1 DEF Roots
    <3> QED BY <2>5, <3>2, OwnField
  <2>10. FreesOwn(lab, th, o)
    BY <2>3, <2>8, <2>9 DEF FreesOwn
  <2> QED BY <2>5, <2>10, FreeKeeps
<1> QED BY <1>3, <1>4

LEMMA FinishTaskKeeps ==
    ASSUME NEW X \in [Objs -> Nat], HeapInv(X), NEW lab \in [Objs -> Threads], Labels(lab),
           ~ LocalStores, NEW w \in Threads, NEW v \in Values, FinishTask(w, v)
    PROVE  Kept(lab, w, X)
<1>1. HeapTypes
  BY DEF HeapInv
<1>2. PICK o \in Objs : o = task[w]
  BY <1>1 DEF FinishTask, Running, HeapTypes
<1>3. /\ own[w] = [x \in Objs |-> Times(x, v, Null)] /\ ~ IsST(v)
      /\ own' = [own EXCEPT ![w] = [x \in Objs |-> 0]] /\ UNCHANGED todo
  BY DEF FinishTask
<1>4. kind[o] = "task" /\ mem[o] = "mt" /\ fld[o] = <<Null, Null>>
  BY <1>2, NullIsNoObj DEF HeapInv, TaskInv
<1>5. /\ own'[w] = [x \in Objs |-> 0] /\ \A t \in Threads : t # w => own'[t] = own[t]
  BY <1>1, <1>3 DEF HeapTypes
<1>6. CASE IsDeleted(o)
  <2>1. /\ pend' = [pend EXCEPT ![w] = IF v \in Objs THEN v ELSE Null]
        /\ mem' = [mem EXCEPT ![o] = "st"] /\ UNCHANGED fld
    BY <1>2, <1>6 DEF FinishTask
  <2>2. rc[o] = 0 /\ \A th \in Threads : o \notin todo[th]
    BY <1>6 DEF IsDeleted
  <2>3. References(o) + X[o] = 0
    <3>1. ~ Dead(o) /\ IsHeapObj(o)
      BY <1>4, <2>2 DEF Dead, IsHeapObj
    <3>2. Counted(X, o)
      BY DEF HeapInv
    <3> QED BY <2>2, <3>1, <3>2 DEF Counted
  <2>4. \A t \in Threads : own[t][o] = 0 /\ pend[t] # o
    BY <2>3, Loose
  <2>5. v # o
    <3>1. Times(o, o, Null) = 1
      BY TimesValue, NullIsNoObj
    <3>2. own[w][o] = Times(o, v, Null)
      BY <1>3
    <3> QED BY <2>4, <3>1, <3>2
  <2>6. /\ pend'[w] = IF v \in Objs THEN v ELSE Null
        /\ \A t \in Threads : t # w => pend'[t] = pend[t]
    BY <1>1, <2>1 DEF HeapTypes
  <2>7. ASSUME NEW t \in Threads, NEW x \in Roots(t)'
        PROVE  x # o /\ (x \in Roots(t) \/ mem[x] # "st")
    <3>1. x \in Objs /\ (own'[t][x] > 0 \/ pend'[t] = x \/ x \in todo[t])
      BY <1>3 DEF Roots
    <3>2. CASE t # w
      <4>1. own'[t] = own[t] /\ pend'[t] = pend[t]
        BY <1>5, <2>6, <3>2
      <4> QED BY <2>2, <2>4, <3>1, <4>1 DEF Roots
    <3>3. CASE t = w
      <4>1. ~ (own'[w][x] > 0)
        BY <1>5, <3>1
      <4>2. x \in todo[w] \/ x = v
        BY <2>6, <3>1, <3>3, <4>1, NullIsNoObj
      <4> QED BY <1>3, <2>2, <2>5, <3>1, <3>3, <4>2 DEF Roots, IsST
    <3> QED BY <3>2, <3>3
  <2>8. \A y \in Objs : y # o => fld'[y] = fld[y] /\ mem'[y] = mem[y]
    BY <1>1, <2>1 DEF HeapTypes
  <2>9. FreesOwn(lab, w, o)
    BY <1>4, <2>1, <2>7, <2>8 DEF FreesOwn
  <2> QED BY <2>3, <2>9, FreeKeeps
<1>7. CASE ~ IsDeleted(o)
  <2>1. fld' = [fld EXCEPT ![o][1] = v] /\ UNCHANGED <<pend, mem>>
    BY <1>2, <1>7 DEF FinishTask
  <2>2. /\ \A y \in Objs : y # o => fld'[y] = fld[y]
        /\ fld'[o][1] = v /\ fld'[o][2] = fld[o][2]
    <3>1. SetsField(o, 1, v) /\ v \in Pointers
      BY <2>1 DEF SetsField, Pointers, Values
    <3>2. fld'[o][1] = v /\ fld'[o][3 - 1] = fld[o][3 - 1]
          /\ \A y \in Objs : y # o => fld'[y] = fld[y]
      BY <1>1, <3>1, FieldUpdate
    <3> QED BY <3>2
  <2>3. \A y \in Fields(o)' : y \in Fields(o) \/ mem'[y] # "st"
    BY <1>3, <2>1, <2>2 DEF Fields, IsST
  <2>4. ASSUME NEW t \in Threads, NEW x \in Roots(t)' PROVE x \in Roots(t)
    <3>1. x \in Objs /\ (own'[t][x] > 0 \/ pend[t] = x \/ x \in todo[t])
      BY <1>3, <2>1 DEF Roots
    <3>2. own'[t][x] > 0 => own'[t] = own[t]
      BY <1>5, <3>1
    <3> QED BY <3>1, <3>2 DEF Roots
  <2>5. Seals(mem')
    BY <2>1, MarkSeals
  <2>6. StoresOwn(lab, w, o)
    BY <2>2, <2>3, <2>4, <2>5 DEF StoresOwn
  <2> QED BY <2>6, StoreKeeps
<1> QED BY <1>6, <1>7

LEMMA StepKeeps ==
    ASSUME NEW X \in [Objs -> Nat], HeapInv(X), NEW lab \in [Objs -> Threads], Labels(lab),
           ~ LocalStores, NEW th \in Threads, Step(th)
    PROVE  Kept(lab, th, X)
<1>1. ASSUME NEW o \in Objs, NEW a \in Values, NEW b \in Values, Alloc(th, o, a, b)
      PROVE  Kept(lab, th, X)
  <2>1. /\ kind[o] = "free" /\ Owns(th, a, b) /\ fld' = [fld EXCEPT ![o] = <<a, b>>]
        /\ own' = [own EXCEPT ![th] = Gain(Lose(own[th], a, b), o)]
        /\ UNCHANGED <<mem, pend, todo>>
    BY <1>1 DEF Alloc, SetOwn
  <2> QED BY <2>1, AllocKeeps
<1>2. CASE Compute(th)
  BY <1>1, <1>2, RerootStepsKeep, InitConstantKeeps, ArraySetInPlaceKeeps, ArraySetCopyKeeps
     DEF Compute
<1>3. CASE DecPending(th)
  <2>1. pend[th] \in Objs
    BY <1>3 DEF DecPending, HeapInv, HeapTypes
  <2> QED BY <1>3, <2>1, RerootStepsKeep
<1>4. CASE \E w \in Threads, o, c \in Objs : MkTask(th, w, o, c)
  BY <1>4, MkTaskKeeps
<1> QED BY <1>2, <1>3, <1>4, DelCoreKeeps, FinishTaskKeeps DEF Step

----------------------------------------------------------------------------
LEMMA LabelsSeal ==
    ASSUME NEW lab, Labels(lab)
    PROVE  MTReachesNoST
<1> SUFFICES ASSUME NEW o \in Objs, mem[o] # "st", NEW x \in Below({o}) PROVE mem[x] # "st"
  BY DEF MTReachesNoST
<1> DEFINE T == {y \in Objs : mem[y] # "st"}
<1>1. Closed(T, {"st", "mt", "persistent"})
  <2>1. ASSUME NEW y \in T, NEW z \in {fld[y][1], fld[y][2]} \intersect Objs PROVE z \in T
    BY DEF Labels, EdgeInv, Fields
  <2> HIDE DEF T
  <2> QED BY <2>1 DEF Closed
<1>2. T \in SUBSET Objs /\ {o} \subseteq T
  OBVIOUS
<1>3. x \in T
  <2> HIDE DEF T
  <2> QED BY <1>1, <1>2 DEF Below
<1> QED BY <1>3

LEMMA LabelsSeparate ==
    ASSUME NEW lab, Labels(lab)
    PROVE  STObjectsAreLocal
<1>1. ASSUME NEW th \in Threads, NEW x \in Below(Roots(th)), mem[x] = "st" PROVE lab[x] = th
  <2> DEFINE T == {y \in Objs : mem[y] = "st" => lab[y] = th}
  <2>1. Closed(T, {"st", "mt", "persistent"})
    <3>1. ASSUME NEW y \in T, NEW z \in {fld[y][1], fld[y][2]} \intersect Objs PROVE z \in T
      BY DEF Labels, EdgeInv, Fields
    <3> HIDE DEF T
    <3> QED BY <3>1 DEF Closed
  <2>2. T \in SUBSET Objs /\ Roots(th) \subseteq T
    BY DEF Labels, RootInv, Roots
  <2>3. x \in T
    <3> HIDE DEF T
    <3> QED BY <2>1, <2>2 DEF Below
  <2> QED BY <1>1, <2>3
<1> QED BY <1>1 DEF STObjectsAreLocal

----------------------------------------------------------------------------
(* Objects without references are on the list of del, or are tasks that    *)
(* still run; and data, which refers to older data only, has no cycles.    *)
Unreferenced(o) == kind[o] # "free" /\ IsHeapObj(o) /\ rc[o] = 0
Handled(o) == \/ \E th \in Threads : o \in todo[th]
              \/ \E w \in Threads : task[w] = o

ZeroInv == \A o \in Objs : Unreferenced(o) => Handled(o)

(* Every set of data objects has one that the others do not refer to.      *)
Founded ==
    \A U \in SUBSET {x \in Objs : kind[x] = "data"} :
        U # {} => \E x \in U : \A y \in U : x \notin Fields(y)

LEMMA ZeroCounts ==
    ASSUME HeapTypes, NEW o \in Objs, IsHeapObj(o)
    PROVE  /\ \A v : IncAll(rc, v, Null)[o] = 0 => rc[o] = 0
           /\ \A a, b : DecAll(rc, a, b)[o] = 0 => rc[o] = 0 \/ o \in Zeroed(a, b)
<1>1. rc[o] \in Nat
  BY DEF HeapTypes
<1>2. ASSUME NEW v, IncAll(rc, v, Null)[o] = 0 PROVE rc[o] = 0
  <2>1. Times(o, v, Null) \in Nat
    BY TimesType
  <2>2. IncAll(rc, v, Null)[o] = rc[o] + Times(o, v, Null)
    BY DEF IncAll
  <2> QED BY <1>1, <1>2, <2>1, <2>2
<1>3. ASSUME NEW a, NEW b, DecAll(rc, a, b)[o] = 0 PROVE rc[o] = 0 \/ o \in Zeroed(a, b)
  <2>1. Times(o, a, b) \in Nat
    BY TimesType
  <2>2. DecAll(rc, a, b)[o] = rc[o] - Times(o, a, b)
    BY DEF DecAll
  <2>3. rc[o] = Times(o, a, b)
    BY <1>1, <1>3, <2>1, <2>2
  <2> QED BY <1>1, <2>1, <2>3 DEF Zeroed
<1> QED BY <1>2, <1>3

(* What is unreferenced after a step was so before, and is still handled,  *)
(* or is handled now.                                                      *)
LEMMA ZeroKept ==
    ASSUME \A o \in Objs : Unreferenced(o)' => Handled(o)' \/ (Unreferenced(o) /\ (Handled(o) => Handled(o)')),
           ZeroInv
    PROVE  ZeroInv'
BY DEF ZeroInv

LEMMA ZeroIncStep ==
    ASSUME HeapTypes, ZeroInv, NEW v, rc' = IncAll(rc, v, Null),
           UNCHANGED <<kind, mem, todo, task>>
    PROVE  ZeroInv'
<1>1. ASSUME NEW o \in Objs, Unreferenced(o)'
      PROVE  Unreferenced(o) /\ (Handled(o) => Handled(o)')
  <2>1. kind[o] # "free" /\ IsHeapObj(o) /\ IncAll(rc, v, Null)[o] = 0
    BY <1>1 DEF Unreferenced, IsHeapObj
  <2>2. rc[o] = 0
    BY <2>1, ZeroCounts
  <2> QED BY <2>1, <2>2 DEF Unreferenced, Handled
<1> QED BY <1>1, ZeroKept

(* Thread th, with nothing on its list, releases v.                        *)
LEMMA ZeroDecStep ==
    ASSUME HeapTypes, ZeroInv, NEW th \in Threads, NEW v, todo[th] = {},
           rc' = DecAll(rc, v, Null), todo' = [todo EXCEPT ![th] = Zeroed(v, Null)],
           UNCHANGED <<kind, mem, task>>
    PROVE  ZeroInv'
<1>0. todo'[th] = Zeroed(v, Null) /\ \A t \in Threads : t # th => todo'[t] = todo[t]
  BY DEF HeapTypes
<1>1. ASSUME NEW o \in Objs, Unreferenced(o)'
      PROVE  Handled(o)' \/ (Unreferenced(o) /\ (Handled(o) => Handled(o)'))
  <2>1. kind[o] # "free" /\ IsHeapObj(o) /\ DecAll(rc, v, Null)[o] = 0
    BY <1>1 DEF Unreferenced, IsHeapObj
  <2>2. rc[o] = 0 \/ o \in Zeroed(v, Null)
    BY <2>1, ZeroCounts
  <2>3. Handled(o) => Handled(o)'
    BY <1>0 DEF Handled
  <2> QED BY <1>0, <2>1, <2>2, <2>3 DEF Unreferenced, Handled
<1> QED BY <1>1, ZeroKept

(* Objects are made with a reference, and marked.                          *)
LEMMA ZeroMakeStep ==
    ASSUME HeapTypes, ZeroInv, NEW n, NEW v,
           n \in Objs => rc'[n] = 1,
           \A o \in Objs : o # n => rc'[o] = IncAll(rc, v, Null)[o] /\ kind'[o] = kind[o],
           \A o \in Objs : o # n /\ mem'[o] \in {"st", "mt"} => IsHeapObj(o),
           todo' = todo, \A w \in Threads : task[w] # Null => task'[w] = task[w]
    PROVE  ZeroInv'
<1>1. ASSUME NEW o \in Objs, Unreferenced(o)'
      PROVE  Unreferenced(o) /\ (Handled(o) => Handled(o)')
  <2>1. o # n
    BY <1>1 DEF Unreferenced
  <2>2. kind[o] # "free" /\ IsHeapObj(o) /\ IncAll(rc, v, Null)[o] = 0
    BY <1>1, <2>1 DEF Unreferenced, IsHeapObj
  <2>3. rc[o] = 0
    BY <2>2, ZeroCounts
  <2>4. Handled(o) => Handled(o)'
    BY NullIsNoObj DEF Handled
  <2> QED BY <2>2, <2>3, <2>4 DEF Unreferenced
<1> QED BY <1>1, ZeroKept

LEMMA ZeroDelCore ==
    ASSUME HeapTypes, ZeroInv, NEW th \in Threads, NEW o \in Objs, DelCore(th, o)
    PROVE  ZeroInv'
<1>1. CASE \E w \in Threads : task[w] = o
  <2>1. UNCHANGED <<kind, mem, rc, task>> /\ todo' = [todo EXCEPT ![th] = @ \ {o}]
    BY <1>1 DEF DelCore, objVars
  <2>2. \A t \in Threads : \A x \in Objs : x # o /\ x \in todo[t] => x \in todo'[t]
    BY <2>1 DEF HeapTypes
  <2>3. ASSUME NEW x \in Objs, Unreferenced(x)' PROVE Unreferenced(x) /\ Handled(x)'
    <3>1. Unreferenced(x)
      BY <2>1, <2>3 DEF Unreferenced, IsHeapObj
    <3>2. Handled(x)
      BY <3>1 DEF ZeroInv
    <3> QED BY <1>1, <2>1, <2>2, <3>1, <3>2 DEF Handled
  <2> QED BY <2>3, ZeroKept
<1>2. CASE ~ \E w \in Threads : task[w] = o
  <2>1. PICK a, b : a = fld[o][1] /\ b = fld[o][2]
    OBVIOUS
  <2>2. /\ rc' = DecAll(rc, a, b) /\ todo' = [todo EXCEPT ![th] = (@ \ {o}) \union Zeroed(a, b)]
        /\ kind' = [kind EXCEPT ![o] = "free"] /\ mem' = [mem EXCEPT ![o] = "st"] /\ task' = task
    BY <1>2, <2>1 DEF DelCore
  <2>3. /\ todo'[th] = (todo[th] \ {o}) \union Zeroed(a, b)
        /\ \A t \in Threads : t # th => todo'[t] = todo[t]
        /\ kind'[o] = "free" /\ \A x \in Objs : x # o => kind'[x] = kind[x] /\ mem'[x] = mem[x]
    BY <2>2 DEF HeapTypes
  <2>4. ASSUME NEW x \in Objs, Unreferenced(x)'
        PROVE  Handled(x)' \/ (Unreferenced(x) /\ (Handled(x) => Handled(x)'))
    <3>1. x # o /\ kind[x] # "free" /\ IsHeapObj(x) /\ DecAll(rc, a, b)[x] = 0
      BY <2>2, <2>3, <2>4 DEF Unreferenced, IsHeapObj
    <3>2. rc[x] = 0 \/ x \in Zeroed(a, b)
      BY <3>1, ZeroCounts
    <3>3. Handled(x) => Handled(x)'
      BY <2>2, <2>3, <3>1 DEF Handled
    <3> QED BY <2>3, <3>1, <3>2, <3>3 DEF Unreferenced, Handled
  <2> QED BY <2>4, ZeroKept
<1> QED BY <1>1, <1>2

LEMMA ZeroFinishTask ==
    ASSUME HeapTypes, ZeroInv, NEW w \in Threads, NEW v, FinishTask(w, v)
    PROVE  ZeroInv'
<1>1. PICK o : o = task[w]
  OBVIOUS
<1>2. rc' = rc /\ todo' = todo /\ task' = [task EXCEPT ![w] = Null]
  BY DEF FinishTask
<1>3. \A t \in Threads : t # w => task'[t] = task[t]
  BY <1>2 DEF HeapTypes
<1>4. /\ \A x \in Objs : x # o => kind'[x] = kind[x] /\ mem'[x] = mem[x]
      /\ IsDeleted(o) /\ o \in Objs => kind'[o] = "free"
      /\ ~ IsDeleted(o) => kind' = kind /\ mem' = mem
  BY <1>1 DEF FinishTask, HeapTypes
<1>5. ASSUME NEW x \in Objs, Unreferenced(x)'
      PROVE  Handled(x)' \/ (Unreferenced(x) /\ (Handled(x) => Handled(x)'))
  <2>1. CASE x # o
    BY <1>1, <1>2, <1>3, <1>4, <1>5, <2>1 DEF Unreferenced, IsHeapObj, Handled
  <2>2. CASE x = o
    <3>1. ~ IsDeleted(x) /\ rc[x] = 0
      BY <1>2, <1>4, <1>5, <2>2 DEF Unreferenced
    <3>2. \E t \in Threads : x \in todo[t]
      BY <3>1 DEF IsDeleted
    <3> QED BY <1>2, <3>2 DEF Handled
  <2> QED BY <2>1, <2>2
<1> QED BY <1>5, ZeroKept

LEMMA ZeroStep ==
    ASSUME NEW X \in [Objs -> Nat], HeapInv(X), ZeroInv, NEW th \in Threads, Step(th)
    PROVE  ZeroInv'
<1>1. HeapTypes /\ PendInv
  BY DEF HeapInv
<1>2. rc = IncAll(rc, Null, Null)
  BY <1>1, IncNothing, NullIsNoObj
<1>3. ASSUME NEW o \in Objs, NEW a, NEW b, Alloc(th, o, a, b) PROVE ZeroInv'
  <2>1. /\ rc'[o] = 1 /\ \A x \in Objs : x # o => rc'[x] = rc[x] /\ kind'[x] = kind[x]
        /\ UNCHANGED <<mem, todo, task>>
    BY <1>1, <1>3 DEF Alloc, HeapTypes
  <2>2. \A x \in Objs : mem'[x] \in {"st", "mt"} => IsHeapObj(x)
    BY <2>1 DEF IsHeapObj
  <2> QED BY <1>1, <1>2, <2>1, <2>2, ZeroMakeStep
<1>4. ASSUME NEW o \in Objs, Inc(th, o) \/ ReadConstant(th, o) \/ \E i \in {1, 2} : Proj(th, o, i)
      PROVE  ZeroInv'
  <2>1. PICK v : rc' = IncAll(rc, v, Null)
    BY <1>2, <1>4 DEF Inc, ReadConstant, Proj, objVars
  <2>2. UNCHANGED <<kind, mem, todo, task>>
    BY <1>4 DEF Inc, ReadConstant, Proj, objVars
  <2> QED BY <1>1, <2>1, <2>2, ZeroIncStep
<1>5. ASSUME NEW o \in Objs, Dec(th, o) PROVE ZeroInv'
  <2>1. /\ todo[th] = {} /\ rc' = DecAll(rc, o, Null)
        /\ todo' = [todo EXCEPT ![th] = Zeroed(o, Null)] /\ UNCHANGED <<kind, mem, task>>
    BY <1>5 DEF Dec, Running
  <2> QED BY <1>1, <2>1, ZeroDecStep
<1>6. ASSUME NEW o \in Objs, InitConstant(th, o) PROVE ZeroInv'
  <2>1. UNCHANGED <<kind, rc, todo, task>> /\ mem' = MarkPersistent(o)
    BY <1>6 DEF InitConstant, threadVars
  <2>2. \A x \in Objs : mem'[x] \in {"st", "mt"} => IsHeapObj(x)
    BY <2>1 DEF IsHeapObj, MarkPersistent
  <2>3. Null \notin Objs
    BY NullIsNoObj
  <2> QED BY <1>1, <1>2, <2>1, <2>2, <2>3, ZeroMakeStep
<1>7. ASSUME NEW o \in Objs, NEW i \in {1, 2}, NEW v \in Values, ArraySetInPlace(th, o, i, v)
      PROVE  ZeroInv'
  <2>1. PICK e : e = fld[o][i]
    OBVIOUS
  <2>2. /\ todo[th] = {} /\ rc' = DecAll(rc, e, Null)
        /\ todo' = [todo EXCEPT ![th] = Zeroed(e, Null)] /\ UNCHANGED <<kind, mem, task>>
    BY <1>7, <2>1 DEF ArraySetInPlace, Running
  <2> QED BY <1>1, <2>2, ZeroDecStep
<1>8. ASSUME NEW o \in Objs, NEW n \in Objs, NEW i \in {1, 2}, NEW v \in Values,
             ArraySetCopy(th, o, i, v, n)
      PROVE  ZeroInv'
  <2>1. PICK e : e = fld[o][3 - i]
    OBVIOUS
  <2>2. /\ rc' = [IncAll(rc, e, Null) EXCEPT ![n] = 1] /\ kind' = [kind EXCEPT ![n] = "data"]
        /\ UNCHANGED <<mem, todo, task>>
    BY <1>8, <2>1 DEF ArraySetCopy
  <2>3. rc'[n] = 1 /\ \A x \in Objs : x # n => rc'[x] = IncAll(rc, e, Null)[x] /\ kind'[x] = kind[x]
    BY <1>1, <2>2 DEF IncAll, HeapTypes
  <2>4. \A x \in Objs : mem'[x] \in {"st", "mt"} => IsHeapObj(x)
    BY <2>2 DEF IsHeapObj
  <2> QED BY <1>1, <2>2, <2>3, <2>4, ZeroMakeStep
<1>9. CASE Compute(th)
  BY <1>3, <1>4, <1>5, <1>6, <1>7, <1>8, <1>9 DEF Compute
<1>10. CASE DecPending(th)
  <2>1. PICK v : v = pend[th]
    OBVIOUS
  <2>2. /\ todo[th] = {} /\ rc' = DecAll(rc, v, Null)
        /\ todo' = [todo EXCEPT ![th] = Zeroed(v, Null)] /\ UNCHANGED <<kind, mem, task>>
    BY <1>1, <1>10, <2>1 DEF DecPending, PendInv
  <2> QED BY <1>1, <2>2, ZeroDecStep
<1>11. ASSUME NEW w \in Threads, NEW o \in Objs, NEW c \in Objs, MkTask(th, w, o, c) PROVE ZeroInv'
  <2>1. /\ rc' = [rc EXCEPT ![o] = 1] /\ kind' = [kind EXCEPT ![o] = "task"]
        /\ mem' = [MarkMT(c) EXCEPT ![o] = "mt"] /\ todo' = todo
        /\ task[w] = Null /\ task' = [task EXCEPT ![w] = o]
    BY <1>11 DEF MkTask
  <2>2. rc'[o] = 1 /\ \A x \in Objs : x # o => rc'[x] = rc[x] /\ kind'[x] = kind[x]
    BY <1>1, <2>1 DEF HeapTypes
  <2>3. \A x \in Objs : x # o => mem'[x] = MarkMT(c)[x]
    BY <2>1 DEF MarkMT
  <2>4. \A x \in Objs : x # o /\ mem'[x] \in {"st", "mt"} => IsHeapObj(x)
    BY <2>3 DEF IsHeapObj, MarkMT, Visited
  <2>5. \A t \in Threads : task[t] # Null => task'[t] = task[t]
    BY <1>1, <2>1 DEF HeapTypes
  <2> QED BY <1>1, <1>2, <2>1, <2>2, <2>4, <2>5, ZeroMakeStep
<1>12. CASE \E o \in Objs : DelCore(th, o)
  BY <1>1, <1>12, ZeroDelCore
<1>13. CASE \E v \in Values : FinishTask(th, v)
  BY <1>1, <1>13, ZeroFinishTask
<1> QED BY <1>9, <1>10, <1>11, <1>12, <1>13 DEF Step

(* One object n may become data or get new fields, if no data refers to    *)
(* it.                                                                     *)
LEMMA FoundedKept ==
    ASSUME Founded, NEW n,
           \A y \in Objs : kind'[y] = "data" /\ y # n => kind[y] = "data" /\ Fields(y)' \subseteq Fields(y),
           \A y \in Objs : kind'[y] = "data" => n \notin Fields(y)'
    PROVE  Founded'
<1>1. ASSUME NEW U \in SUBSET {x \in Objs : kind'[x] = "data"}, U # {}
      PROVE  \E x \in U : \A y \in U : x \notin Fields(y)'
  <2>1. CASE n \in U
    BY <2>1
  <2>2. CASE n \notin U
    <3>1. U \in SUBSET {x \in Objs : kind[x] = "data"}
      BY <2>2
    <3>2. PICK x \in U : \A y \in U : x \notin Fields(y)
      BY <1>1, <3>1 DEF Founded
    <3>3. \A y \in U : Fields(y)' \subseteq Fields(y)
      BY <2>2
    <3> QED BY <3>2, <3>3
  <2> QED BY <2>1, <2>2
<1> QED BY <1>1 DEF Founded

(* The fields of data stay, or shrink.                                     *)
LEMMA FoundedStays ==
    ASSUME Founded,
           \A y \in Objs : kind'[y] = "data" => kind[y] = "data" /\ Fields(y)' \subseteq Fields(y)
    PROVE  Founded'
<1>1. \A y \in Objs : Null \notin Fields(y)'
  BY NullIsNoObj DEF Fields
<1> QED BY <1>1, FoundedKept

LEMMA FoundedMakes ==
    ASSUME NEW X \in [Objs -> Nat], HeapInv(X), Founded, NEW n \in Objs, kind[n] = "free",
           \A y \in Objs : y # n => kind'[y] = kind[y] /\ fld'[y] = fld[y],
           n \notin Fields(n)'
    PROVE  Founded'
<1>1. References(n) + X[n] = 0
  BY DeadLoose DEF Dead
<1>2. \A y \in Objs : n \notin Fields(y)
  BY <1>1, Loose
<1>3. \A y \in Objs : y # n => Fields(y)' = Fields(y)
  BY DEF Fields
<1> QED BY <1>2, <1>3, FoundedKept

(* What a thread owns is not free, and an owned object without further     *)
(* references is in no field.                                              *)
LEMMA SoleOwner ==
    ASSUME NEW X \in [Objs -> Nat], HeapInv(X), NEW th \in Threads, NEW o \in Objs,
           own[th][o] > 0, IsExclusive(o)
    PROVE  \A y \in Objs : o \notin Fields(y)
<1>1. HeapTypes /\ X[o] \in Nat /\ own[th][o] \in Nat /\ rc[o] \in Nat
  BY DEF HeapInv, HeapTypes
<1>2. ~ Dead(o)
  BY <1>1, HeldAlive
<1>3. rc[o] = References(o) + X[o] /\ ~ (rc[o] > 1)
  BY <1>2 DEF HeapInv, Counted, IsExclusive, IsShared
<1>4. ASSUME NEW y \in Objs PROVE o \notin Fields(y)
  <2>1. /\ References(o) \in Nat /\ References(o) >= Holds(th, o) + Stores(y, o)
        /\ Holds(th, o) \in Nat /\ Stores(y, o) \in Nat
    BY <1>1, ReferencesBound
  <2>2. Holds(th, o) >= own[th][o]
    BY <1>1, TimesType DEF Holds
  <2>3. Stores(y, o) = 0
    BY <1>1, <1>3, <2>1, <2>2
  <2>4. fld[y][1] # o /\ fld[y][2] # o
    BY <2>3, TimesValue DEF Stores
  <2> QED BY <2>4 DEF Fields
<1> QED BY <1>4

LEMMA FoundedStep ==
    ASSUME NEW X \in [Objs -> Nat], HeapInv(X), Founded, NEW th \in Threads, Step(th)
    PROVE  Founded'
<1>1. HeapTypes
  BY DEF HeapInv
<1>2. ASSUME NEW x \in Objs, NEW a, NEW b, Owns(th, a, b), kind[x] = "free" PROVE x # a /\ x # b
  <2>1. References(x) + X[x] = 0
    BY <1>2, DeadLoose DEF Dead
  <2>2. own[th][x] = 0
    BY <2>1, Loose
  <2>3. own[th][x] >= Times(x, a, b) /\ Times(x, a, b) \in Nat
    BY <1>2, TimesType DEF Owns
  <2> QED BY <2>2, <2>3, TimesValue
<1>3. ASSUME NEW o \in Objs, NEW a, NEW b, Alloc(th, o, a, b) PROVE Founded'
  <2>1. /\ kind[o] = "free" /\ Owns(th, a, b) /\ fld'[o] = <<a, b>>
        /\ \A y \in Objs : y # o => kind'[y] = kind[y] /\ fld'[y] = fld[y]
    BY <1>1, <1>3 DEF Alloc, HeapTypes
  <2>2. o \notin Fields(o)'
    BY <1>2, <2>1 DEF Fields
  <2> QED BY <2>1, <2>2, FoundedMakes
<1>4. ASSUME NEW o \in Objs, NEW n \in Objs, NEW i \in {1, 2}, NEW v \in Values,
             ArraySetCopy(th, o, i, v, n)
      PROVE  Founded'
  <2>1. /\ kind[n] = "free" /\ Owns(th, o, v) /\ fld'[n] = [fld[o] EXCEPT ![i] = v]
        /\ \A y \in Objs : y # n => kind'[y] = kind[y] /\ fld'[y] = fld[y]
    BY <1>1, <1>4 DEF ArraySetCopy, HeapTypes
  <2>2. n # v
    BY <1>2, <2>1
  <2>3. References(n) + X[n] = 0
    BY <2>1, DeadLoose DEF Dead
  <2>4. n \notin Fields(o)
    BY <2>3, Loose
  <2>5. {fld'[n][1], fld'[n][2]} \subseteq {v, fld[o][1], fld[o][2]}
    BY <1>1, <2>1 DEF HeapTypes
  <2>6. n \notin Fields(n)'
    BY <2>2, <2>4, <2>5 DEF Fields
  <2> QED BY <2>1, <2>6, FoundedMakes
<1>5. ASSUME NEW o \in Objs, NEW i \in {1, 2}, NEW v \in Values, ArraySetInPlace(th, o, i, v)
      PROVE  Founded'
  <2>1. /\ o # v /\ Owns(th, o, v) /\ IsExclusive(o) /\ kind' = kind
        /\ fld' = [fld EXCEPT ![o][i] = v]
    BY <1>5 DEF ArraySetInPlace
  <2>2. own[th][o] > 0
    <3>1. own[th][o] >= Times(o, o, v) /\ own[th][o] \in Nat
      BY <1>1, <2>1 DEF Owns, HeapTypes
    <3>2. Times(o, o, v) > 0 /\ Times(o, o, v) \in Nat
      BY TimesValue, TimesType
    <3> QED BY <3>1, <3>2
  <2>3. \A y \in Objs : o \notin Fields(y)
    BY <2>1, <2>2, SoleOwner
  <2>4. \A y \in Objs : y # o => fld'[y] = fld[y]
    BY <1>1, <2>1 DEF HeapTypes
  <2>5. {fld'[o][1], fld'[o][2]} \subseteq {v, fld[o][1], fld[o][2]}
    BY <1>1, <2>1 DEF HeapTypes
  <2>6. \A y \in Objs : y # o => Fields(y)' = Fields(y)
    BY <2>4 DEF Fields
  <2>7. o \notin Fields(o)'
    BY <2>1, <2>3, <2>5 DEF Fields
  <2>8. \A y \in Objs : o \notin Fields(y)'
    BY <2>3, <2>6, <2>7
  <2> QED BY <2>1, <2>6, <2>8, FoundedKept
<1>6. ASSUME \A y \in Objs : kind'[y] = "data" => kind[y] = "data" /\ fld'[y] = fld[y]
      PROVE  Founded'
  <2>1. \A y \in Objs : kind'[y] = "data" => kind[y] = "data" /\ Fields(y)' \subseteq Fields(y)
    BY <1>6 DEF Fields
  <2> QED BY <2>1, FoundedStays
<1>7. ASSUME NEW o \in Objs, Inc(th, o) \/ Dec(th, o) \/ InitConstant(th, o) \/ ReadConstant(th, o)
                             \/ \E i \in {1, 2} : Proj(th, o, i)
      PROVE  Founded'
  BY <1>6, <1>7 DEF Inc, Dec, InitConstant, ReadConstant, Proj, objVars
<1>8. CASE Compute(th)
  BY <1>3, <1>4, <1>5, <1>7, <1>8 DEF Compute
<1>9. CASE DecPending(th)
  BY <1>6, <1>9 DEF DecPending
<1>10. CASE \E o \in Objs : DelCore(th, o)
  <2>1. \A y \in Objs : kind'[y] = "data" => kind[y] = "data" /\ fld'[y] = fld[y]
    BY <1>1, <1>10 DEF DelCore, HeapTypes, objVars
  <2> QED BY <1>6, <2>1
<1>11. CASE \E w \in Threads, o, c \in Objs : MkTask(th, w, o, c)
  <2>1. \A y \in Objs : kind'[y] = "data" => kind[y] = "data" /\ fld'[y] = fld[y]
    BY <1>1, <1>11 DEF MkTask, HeapTypes
  <2> QED BY <1>6, <2>1
<1>12. CASE \E v \in Values : FinishTask(th, v)
  <2>1. kind[task[th]] = "task" /\ task[th] \in Objs
    BY <1>1, <1>12 DEF FinishTask, Running, HeapInv, TaskInv, HeapTypes
  <2>2. \A y \in Objs : kind'[y] = "data" => kind[y] = "data" /\ fld'[y] = fld[y]
    BY <1>1, <1>12, <2>1 DEF FinishTask, HeapTypes
  <2> QED BY <1>6, <2>2
<1> QED BY <1>8, <1>9, <1>10, <1>11, <1>12 DEF Step

(* A reference that is counted is somewhere.                               *)
LEMMA ReferencesSomewhere ==
    ASSUME HeapTypes, NEW o \in Objs, References(o) # 0
    PROVE  \/ \E th \in Threads : own[th][o] > 0 \/ pend[th] = o
           \/ \E y \in Objs : o \in Fields(y)
<1> SUFFICES ASSUME \A th \in Threads : ~ (own[th][o] > 0) /\ pend[th] # o,
                    \A y \in Objs : o \notin Fields(y)
             PROVE  References(o) = 0
  OBVIOUS
<1>1. ASSUME NEW th \in Threads PROVE Holds(th, o) = 0
  <2>1. own[th][o] = 0
    BY DEF HeapTypes
  <2>2. Times(o, pend[th], Null) = 0
    BY TimesValue, NullIsNoObj
  <2> QED BY <2>1, <2>2 DEF Holds
<1>2. ASSUME NEW y \in Objs PROVE Stores(y, o) = 0
  <2>1. fld[y][1] # o /\ fld[y][2] # o
    BY DEF Fields
  <2> QED BY <2>1, TimesValue DEF Stores
<1>3. /\ [th \in Threads |-> Holds(th, o)] = [th \in Threads |-> 0]
      /\ [y \in Objs |-> Stores(y, o)] = [y \in Objs |-> 0]
  BY <1>1, <1>2
<1>4. /\ Total([th \in Threads |-> Holds(th, o)]) = 0
      /\ Total([y \in Objs |-> Stores(y, o)]) = 0
  BY <1>3, TotalZero, ThreadsAssumption, ObjsAssumption
<1>5. References(o) = Total([th \in Threads |-> Holds(th, o)]) + Total([y \in Objs |-> Stores(y, o)])
  BY HoldsType
<1> QED BY <1>4, <1>5
=============================================================================
