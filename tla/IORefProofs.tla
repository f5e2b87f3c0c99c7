----------------------------- MODULE IORefProofs -----------------------------
(***************************************************************************)
(* Reference counting is exact for every program of ObjectHeap and IORef,  *)
(* with any number of threads, objects and references: what io_ref_get has *)
(* taken out of a reference is counted twice, once for the reference that  *)
(* gets it back and once for the caller.                                   *)
(***************************************************************************)
EXTENDS IORef, ObjectHeapProofs

(* The references that are in the local variables of io_ref_get.           *)
TakenBy(o) == [th \in Threads |-> 2 * Times(o, ioVal[th], Null)]
Taken == [o \in Objs |-> Total(TakenBy(o))]

RefTypes ==
    /\ ioRef \in [Threads -> Objs \union {Null}]
    /\ ioVal \in [Threads -> Pointers]

(* Inside io_ref_get a thread owns the reference it reads, and does        *)
(* nothing else.                                                           *)
GetInv ==
    \A th \in Threads :
        /\ ioRef[th] # Null => /\ pend[th] = Null /\ todo[th] = {}
                               /\ own[th][ioRef[th]] > 0 /\ kind[ioRef[th]] = "ref"
        /\ ioRef[th] = Null => ioVal[th] = Null

RefInv == RefTypes /\ GetInv /\ HeapInv(Taken)

LEMMA TakenByType ==
    ASSUME RefTypes, NEW o \in Objs
    PROVE  /\ TakenBy(o) \in [Threads -> Nat]
           /\ \A th \in Threads : TakenBy(o)[th] = 2 * Times(o, ioVal[th], Null)
           /\ Taken[o] = Total(TakenBy(o)) /\ Taken[o] \in Nat
<1>1. /\ TakenBy(o) \in [Threads -> Nat]
      /\ \A th \in Threads : TakenBy(o)[th] = 2 * Times(o, ioVal[th], Null)
  BY TimesType DEF TakenBy
<1>2. Taken[o] = Total(TakenBy(o))
  BY DEF Taken
<1> QED BY <1>1, <1>2, PairsFinite, ThreadsAssumption

LEMMA TakenType == RefTypes => Taken \in [Objs -> Nat]
<1> SUFFICES ASSUME RefTypes PROVE Taken \in [Objs -> Nat]
  OBVIOUS
<1>1. \A o \in Objs : Total(TakenBy(o)) \in Nat
  BY TakenByType
<1> QED BY <1>1 DEF Taken

LEMMA TakenTypeNext == RefTypes' => (Taken \in [Objs -> Nat])'
BY TakenType, PTL

(* How the taken references change with what one thread has taken.         *)
LEMMA TakenUpdate ==
    ASSUME RefTypes, RefTypes', NEW th \in Threads,
           \A t \in Threads : t # th => ioVal'[t] = ioVal[t]
    PROVE  /\ Taken \in [Objs -> Nat] /\ Taken' \in [Objs -> Nat]
           /\ \A o \in Objs : Taken'[o] + 2 * Times(o, ioVal[th], Null)
                              = Taken[o] + 2 * Times(o, ioVal'[th], Null)
<1>1. Taken \in [Objs -> Nat] /\ Taken' \in [Objs -> Nat]
  BY TakenType, TakenTypeNext
<1>2. ASSUME NEW o \in Objs
      PROVE  Taken'[o] + 2 * Times(o, ioVal[th], Null) = Taken[o] + 2 * Times(o, ioVal'[th], Null)
  <2>1. PICK f : f = TakenBy(o)
    OBVIOUS
  <2>2. PICK g : g = [t \in Threads |-> 2 * Times(o, ioVal'[t], Null)]
    OBVIOUS
  <2>3. f \in [Threads -> Nat] /\ Taken[o] = Total(f) /\ f[th] = 2 * Times(o, ioVal[th], Null)
    BY <2>1, TakenByType
  <2>4. g \in [Threads -> Nat] /\ g[th] = 2 * Times(o, ioVal'[th], Null)
    BY <2>2, TimesType
  <2>5. Taken'[o] = Total(g)
    BY <2>2 DEF Taken, TakenBy, Total, Times
  <2>6. \A t \in Threads : t # th => g[t] = f[t]
    BY <2>1, <2>2 DEF TakenBy
  <2>7. /\ Total(f) \in Nat /\ Total(g) \in Nat /\ Total(f) >= f[th]
        /\ Total(g) = Total(f) - f[th] + g[th]
    BY <2>3, <2>4, <2>6, TotalUpdate, ThreadsAssumption
  <2>8. f[th] \in Nat /\ g[th] \in Nat
    BY <2>3, <2>4
  <2>9. Taken'[o] + f[th] = Taken[o] + g[th]
    BY <2>3, <2>5, <2>7, <2>8
  <2> QED BY <2>3, <2>4, <2>9
<1> QED BY <1>1, <1>2

LEMMA TakenStays ==
    ASSUME UNCHANGED refVars
    PROVE  Taken' = Taken
BY DEF refVars, Taken, TakenBy, Total, Times

LEMMA HeapInvNext ==
    ASSUME NEW Y, Y = Taken', HeapInv(Y)'
    PROVE  HeapInv(Taken)'
<1>1. ASSUME NEW o \in Objs PROVE Counted(Taken, o)'
  BY DEF HeapInv, Counted
<1> QED BY <1>1 DEF HeapInv

LEMMA OwnsSecond ==
    ASSUME HeapTypes, NEW th \in Threads, NEW o, NEW v, Owns(th, o, v)
    PROVE  Owns(th, v, Null)
<1>1. ASSUME NEW x \in Objs PROVE own[th][x] >= Times(x, v, Null)
  <2>1. own[th][x] >= Times(x, o, v)
    BY DEF Owns
  <2>2. Times(x, o, v) >= Times(x, v, Null)
    BY TimesValue, NullIsNoObj
  <2>3. own[th][x] \in Nat /\ Times(x, o, v) \in Nat /\ Times(x, v, Null) \in Nat
    BY TimesType DEF HeapTypes
  <2> QED BY <2>1, <2>2, <2>3
<1> QED BY <1>1 DEF Owns

----------------------------------------------------------------------------
(* An operation on the reference r of thread th moves references between   *)
(* the thread, the field of r and the local variables of io_ref_get.       *)
RefMoves(th, r, old, new, v) ==
    /\ kind[r] = "ref" /\ todo[th] = {} /\ pend[th] = Null
    /\ old = fld[r][1] /\ new \in Pointers
    /\ fld' = [fld EXCEPT ![r][1] = new]
    /\ rc' = IncAll(rc, v, Null)
    /\ own' \in [Threads -> [Objs -> Nat]]
    /\ pend' \in [Threads -> Objs \union {Null}]
    /\ \A t \in Threads : t # th => own'[t] = own[t] /\ pend'[t] = pend[t]
    /\ \A t \in Threads : t # th => ioVal'[t] = ioVal[t]
    /\ \A o \in Objs : own'[th][o] + Times(o, pend'[th], Null) + Times(o, new, Null)
                       + 2 * Times(o, ioVal'[th], Null)
                       = own[th][o] + Times(o, old, Null) + 2 * Times(o, ioVal[th], Null)
                         + Times(o, v, Null)
    /\ Remarks(mem')
    /\ UNCHANGED <<kind, todo, task>>

LEMMA Balance ==
    ASSUME NEW own0 \in Nat, NEW own1 \in Nat, NEW pnd \in Nat, NEW new \in Nat,
           NEW old \in Nat, NEW val0 \in Nat, NEW val1 \in Nat, NEW inc \in Nat,
           NEW fld0 \in Nat, NEW fld1 \in Nat, NEW x \in Nat, NEW y \in Nat,
           own1 + pnd + new + val1 = own0 + old + val0 + inc,
           fld1 + old = fld0 + new, y + val0 = x + val1
    PROVE  own1 + pnd + fld1 + y = own0 + fld0 + x + inc
OBVIOUS

LEMMA RefMoveStep ==
    ASSUME RefInv, RefTypes', NEW th \in Threads, NEW r \in Objs, NEW old \in Pointers, NEW new,
           NEW v \in Pointers, v \in Objs => ~ Dead(v), RefMoves(th, r, old, new, v)
    PROVE  HeapInv(Taken)'
<1> USE DEF RefMoves
<1>1. HeapTypes /\ RefTypes /\ HeapInv(Taken)
  BY DEF RefInv, HeapInv
<1>2. PICK X : X = Taken
  OBVIOUS
<1>3. PICK Y : Y = Taken'
  OBVIOUS
<1>4. /\ X \in [Objs -> Nat] /\ Y \in [Objs -> Nat]
      /\ \A o \in Objs : Y[o] + 2 * Times(o, ioVal[th], Null)
                         = X[o] + 2 * Times(o, ioVal'[th], Null)
  BY <1>1, <1>2, <1>3, TakenUpdate
<1>5. HeapInv(X)
  BY <1>1, <1>2
<1>6. /\ fld' \in [Objs -> Pointers \X Pointers]
      /\ \A y \in Objs : y # r => fld'[y] = fld[y]
      /\ \A x \in Objs : Times(x, fld'[r][1], fld'[r][2]) + Times(x, fld[r][1], Null)
                         = Stores(r, x) + Times(x, new, Null)
  <2>1. SetsField(r, 1, new)
    BY DEF SetsField
  <2>2. 1 \in {1, 2} /\ new \in Pointers
    OBVIOUS
  <2> QED BY <1>1, <2>1, <2>2, FieldUpdate
<1>7. ASSUME NEW o \in Objs
      PROVE  own'[th][o] + Times(o, pend'[th], Null) + Times(o, fld'[r][1], fld'[r][2]) + Y[o]
             = Holds(th, o) + Stores(r, o) + X[o] + Times(o, v, Null)
  <2>1. Holds(th, o) = own[th][o] + 0
    BY NullIsNoObj DEF Holds
  <2>2. /\ own[th][o] \in Nat /\ own'[th][o] \in Nat /\ X[o] \in Nat /\ Y[o] \in Nat
    BY <1>1, <1>4 DEF HeapTypes
  <2>3. /\ Times(o, pend'[th], Null) \in Nat /\ Times(o, fld'[r][1], fld'[r][2]) \in Nat
        /\ Times(o, old, Null) \in Nat /\ Times(o, new, Null) \in Nat
        /\ Times(o, v, Null) \in Nat /\ Times(o, ioVal[th], Null) \in Nat
        /\ Times(o, ioVal'[th], Null) \in Nat /\ Stores(r, o) \in Nat
    BY TimesType DEF Stores
  <2>4. Times(o, fld'[r][1], fld'[r][2]) + Times(o, old, Null)
        = Stores(r, o) + Times(o, new, Null)
    BY <1>6
  <2>5. Y[o] + 2 * Times(o, ioVal[th], Null) = X[o] + 2 * Times(o, ioVal'[th], Null)
    BY <1>4
  <2>6. own'[th][o] + Times(o, pend'[th], Null) + Times(o, new, Null)
        + 2 * Times(o, ioVal'[th], Null)
        = own[th][o] + Times(o, old, Null) + 2 * Times(o, ioVal[th], Null) + Times(o, v, Null)
    OBVIOUS
  <2>7. 2 * Times(o, ioVal[th], Null) \in Nat /\ 2 * Times(o, ioVal'[th], Null) \in Nat
    BY <2>3
  <2>8. own[th][o] + 0 = own[th][o]
    BY <2>2
  <2> HIDE DEF RefMoves
  <2> QED BY <2>1, <2>2, <2>3, <2>4, <2>5, <2>6, <2>7, <2>8, Balance
<1>8. Moves(th, r, v, X, Y)
  <2>1. kind[r] \notin {"free", "task"} /\ UNCHANGED <<kind, todo, task>>
    OBVIOUS
  <2> QED BY <1>6, <1>7, <2>1 DEF Moves
<1>9. HeapInv(Y)'
  <2> HIDE DEF RefMoves
  <2> QED BY <1>4, <1>5, <1>8, MoveStep
<1> QED BY <1>3, <1>9, HeapInvNext

(* What io_ref_get of other threads relies on stays.                       *)
Undisturbed(th) ==
    /\ ioRef' \in [Threads -> Objs \union {Null}] /\ ioVal' \in [Threads -> Pointers]
    /\ UNCHANGED <<kind, todo>>
    /\ \A t \in Threads : t # th => /\ own'[t] = own[t] /\ pend'[t] = pend[t]
                                    /\ ioRef'[t] = ioRef[t] /\ ioVal'[t] = ioVal[t]

LEMMA GetInvKept ==
    ASSUME RefInv, NEW th \in Threads, Undisturbed(th), ioRef'[th] = Null, ioVal'[th] = Null
    PROVE  RefTypes' /\ GetInv'
<1>1. RefTypes'
  BY DEF Undisturbed, RefTypes
<1>2. ASSUME NEW t \in Threads, t # th, ioRef'[t] # Null
      PROVE  /\ pend'[t] = Null /\ todo'[t] = {}
             /\ own'[t][ioRef'[t]] > 0 /\ kind'[ioRef'[t]] = "ref"
  <2>1. /\ ioRef'[t] = ioRef[t] /\ own'[t] = own[t] /\ pend'[t] = pend[t]
        /\ todo' = todo /\ kind' = kind
    BY <1>2 DEF Undisturbed
  <2> QED BY <1>2, <2>1 DEF RefInv, GetInv
<1>3. ASSUME NEW t \in Threads, t # th, ioRef'[t] = Null PROVE ioVal'[t] = Null
  BY <1>3 DEF Undisturbed, RefInv, GetInv
<1> QED BY <1>1, <1>2, <1>3 DEF GetInv

(* The facts every operation on a reference starts from.                   *)
LEMMA UsesFacts ==
    ASSUME RefInv, NEW th \in Threads, NEW r \in Objs, Uses(th, r)
    PROVE  /\ HeapTypes /\ RefTypes /\ Taken \in [Objs -> Nat] /\ HeapInv(Taken)
           /\ pend[th] = Null /\ todo[th] = {} /\ ioRef[th] = Null /\ ioVal[th] = Null
           /\ kind[r] = "ref" /\ own[th][r] > 0
           /\ fld[r][1] \in Pointers
           /\ fld[r][1] \in Objs => ~ Dead(fld[r][1])
<1>1. HeapTypes /\ RefTypes /\ HeapInv(Taken)
  BY DEF RefInv, HeapInv
<1>2. Taken \in [Objs -> Nat]
  BY <1>1, TakenType
<1>3. /\ pend[th] = Null /\ todo[th] = {} /\ ioRef[th] = Null
      /\ kind[r] = "ref" /\ own[th][r] > 0
  BY DEF Uses, Running
<1>4. ioVal[th] = Null
  BY <1>3 DEF RefInv, GetInv
<1>5. fld[r][1] \in Pointers
  BY <1>1 DEF HeapTypes
<1>6. fld[r][1] \in Objs => ~ Dead(fld[r][1])
  BY <1>1, <1>2, HeldAlive
<1> QED BY <1>1, <1>2, <1>3, <1>4, <1>5, <1>6

LEMMA NoRemark == ASSUME HeapTypes, mem' = mem PROVE Remarks(mem')
BY DEF Remarks, HeapTypes

LEMMA GetSTStep ==
    ASSUME RefInv, NEW th \in Threads, NEW r \in Objs, GetST(th, r)
    PROVE  RefInv'
<1>1. Uses(th, r) /\ UNCHANGED <<kind, mem, fld, pend, todo, task, ioRef, ioVal>>
      /\ rc' = IncAll(rc, fld[r][1], Null) /\ own' = [own EXCEPT ![th] = Gain(own[th], fld[r][1])]
  BY DEF GetST, SetOwn, refVars
<1>2. /\ HeapTypes /\ RefTypes /\ ioRef[th] = Null /\ ioVal[th] = Null
      /\ HeapInv(Taken) /\ Taken \in [Objs -> Nat]
  BY <1>1, UsesFacts
<1>3. PICK v \in Pointers : v = fld[r][1] /\ (v \in Objs => ~ Dead(v))
  BY <1>1, UsesFacts
<1>4. PICK X \in [Objs -> Nat] : X = Taken
  BY <1>2
<1>5. HeapInv(X)'
  <2>1. HeapInv(X)
    BY <1>2, <1>4
  <2>2. /\ rc' = IncAll(rc, v, Null) /\ own' = [own EXCEPT ![th] = Gain(own[th], v)]
        /\ UNCHANGED <<kind, mem, fld, pend, todo, task>>
    BY <1>1, <1>3
  <2> QED BY <1>3, <2>1, <2>2, GainOne
<1>6. HeapInv(Taken)'
  <2>1. Taken' = Taken
    BY <1>1, TakenStays DEF refVars
  <2> QED BY <1>4, <1>5, <2>1, HeapInvNext
<1>7. Undisturbed(th)
  BY <1>1, <1>2 DEF Undisturbed, RefTypes, HeapTypes
<1> QED BY <1>1, <1>2, <1>6, <1>7, GetInvKept DEF RefInv

LEMMA GetTakeStep ==
    ASSUME RefInv, NEW th \in Threads, NEW r \in Objs, GetTake(th, r)
    PROVE  RefInv'
<1>1. /\ Uses(th, r) /\ fld[r][1] # Null /\ UNCHANGED <<kind, mem, own, pend, todo, task>>
      /\ ioRef' = [ioRef EXCEPT ![th] = r] /\ ioVal' = [ioVal EXCEPT ![th] = fld[r][1]]
      /\ fld' = [fld EXCEPT ![r][1] = Null] /\ rc' = IncAll(rc, fld[r][1], Null)
  BY DEF GetTake, threadVars
<1>2. /\ HeapTypes /\ RefTypes /\ ioRef[th] = Null /\ ioVal[th] = Null
      /\ pend[th] = Null /\ todo[th] = {} /\ kind[r] = "ref" /\ own[th][r] > 0
  BY <1>1, UsesFacts
<1>3. PICK v \in Pointers : v = fld[r][1] /\ (v \in Objs => ~ Dead(v))
  BY <1>1, UsesFacts
<1>4. /\ ioRef' \in [Threads -> Objs \union {Null}] /\ ioVal' \in [Threads -> Pointers]
      /\ ioRef'[th] = r /\ ioVal'[th] = v
      /\ \A t \in Threads : t # th => ioRef'[t] = ioRef[t] /\ ioVal'[t] = ioVal[t]
  BY <1>1, <1>2, <1>3 DEF RefTypes
<1>5. RefTypes'
  BY <1>4 DEF RefTypes
<1>6. GetInv'
  BY <1>1, <1>2, <1>4, NullIsNoObj DEF RefInv, GetInv
<1>7. ASSUME NEW o \in Objs
      PROVE  own'[th][o] + Times(o, pend'[th], Null) + Times(o, Null, Null)
             + 2 * Times(o, ioVal'[th], Null)
             = own[th][o] + Times(o, v, Null) + 2 * Times(o, ioVal[th], Null)
               + Times(o, v, Null)
  <2>1. own'[th][o] = own[th][o] /\ own[th][o] \in Nat /\ Times(o, v, Null) \in Nat
    BY <1>1, <1>2, TimesType DEF HeapTypes
  <2>2. /\ Times(o, pend'[th], Null) = 0 /\ Times(o, Null, Null) = 0
        /\ Times(o, ioVal[th], Null) = 0 /\ Times(o, ioVal'[th], Null) = Times(o, v, Null)
    BY <1>1, <1>2, <1>4, NullIsNoObj
  <2> QED BY <2>1, <2>2
<1>8. RefMoves(th, r, v, Null, v)
  <2>1. Null \in Pointers /\ Remarks(mem')
    BY <1>1, <1>2, NoRemark DEF Pointers
  <2>2. /\ own' \in [Threads -> [Objs -> Nat]] /\ pend' \in [Threads -> Objs \union {Null}]
        /\ \A t \in Threads : t # th => own'[t] = own[t] /\ pend'[t] = pend[t]
    BY <1>1, <1>2 DEF HeapTypes
  <2> QED BY <1>1, <1>2, <1>3, <1>4, <1>7, <2>1, <2>2 DEF RefMoves
<1> QED BY <1>3, <1>5, <1>6, <1>8, RefMoveStep DEF RefInv

LEMMA AsObjTimes ==
    ASSUME NEW v \in Pointers
    PROVE  AsObj(v) \in Objs \union {Null} /\ \A o \in Objs : Times(o, AsObj(v), Null) = Times(o, v, Null)
BY TimesValue, NullIsNoObj DEF AsObj, Pointers

LEMMA GetPutBackStep ==
    ASSUME RefInv, NEW th \in Threads, GetPutBack(th)
    PROVE  RefInv'
<1>1. HeapTypes /\ RefTypes /\ HeapInv(Taken)
  BY DEF RefInv, HeapInv
<1>2. PICK r \in Objs : r = ioRef[th]
  BY <1>1 DEF GetPutBack, RefTypes
<1>3. PICK w \in Pointers : w = ioVal[th]
  BY <1>1 DEF RefTypes
<1>4. PICK v \in Pointers : v = fld[r][1]
  BY <1>1 DEF HeapTypes
<1>5. /\ fld' = [fld EXCEPT ![r][1] = w] /\ pend' = [pend EXCEPT ![th] = AsObj(v)]
      /\ own' = [own EXCEPT ![th] = Gain(own[th], w)]
      /\ ioRef' = [ioRef EXCEPT ![th] = Null] /\ ioVal' = [ioVal EXCEPT ![th] = Null]
      /\ UNCHANGED <<kind, mem, rc, todo, task>>
  BY <1>2, <1>3, <1>4 DEF GetPutBack, SetOwn
<1>6. pend[th] = Null /\ todo[th] = {} /\ kind[r] = "ref"
  BY <1>2, NullIsNoObj DEF RefInv, GetInv
<1>7. /\ ioRef' \in [Threads -> Objs \union {Null}] /\ ioVal' \in [Threads -> Pointers]
      /\ ioRef'[th] = Null /\ ioVal'[th] = Null
      /\ \A t \in Threads : t # th => ioRef'[t] = ioRef[t] /\ ioVal'[t] = ioVal[t]
  BY <1>1, <1>5 DEF RefTypes, Pointers
<1>8. /\ Gain(own[th], w) \in [Objs -> Nat]
      /\ \A o \in Objs : Gain(own[th], w)[o] = own[th][o] + Times(o, w, Null)
  BY <1>1, TimesType DEF Gain, HeapTypes
<1>9. /\ own' \in [Threads -> [Objs -> Nat]] /\ own'[th] = Gain(own[th], w)
      /\ pend' \in [Threads -> Objs \union {Null}] /\ pend'[th] = AsObj(v)
      /\ \A t \in Threads : t # th => own'[t] = own[t] /\ pend'[t] = pend[t]
  BY <1>1, <1>5, <1>8, AsObjTimes DEF HeapTypes
<1>10. Undisturbed(th)
  BY <1>5, <1>7, <1>9 DEF Undisturbed
<1>11. RefTypes' /\ GetInv'
  BY <1>7, <1>10, GetInvKept
<1>12. ASSUME NEW o \in Objs
       PROVE  own'[th][o] + Times(o, pend'[th], Null) + Times(o, w, Null)
              + 2 * Times(o, ioVal'[th], Null)
              = own[th][o] + Times(o, v, Null) + 2 * Times(o, ioVal[th], Null)
                + Times(o, Null, Null)
  <2>1. own'[th][o] = own[th][o] + Times(o, w, Null)
    BY <1>8, <1>9
  <2>2. own[th][o] \in Nat /\ Times(o, w, Null) \in Nat /\ Times(o, v, Null) \in Nat
    BY <1>1, TimesType DEF HeapTypes
  <2>3. /\ Times(o, pend'[th], Null) = Times(o, v, Null) /\ Times(o, Null, Null) = 0
        /\ Times(o, ioVal[th], Null) = Times(o, w, Null) /\ Times(o, ioVal'[th], Null) = 0
    BY <1>3, <1>7, <1>9, AsObjTimes, NullIsNoObj
  <2> QED BY <2>1, <2>2, <2>3
<1>13. RefMoves(th, r, v, w, Null)
  <2>1. Remarks(mem') /\ rc' = IncAll(rc, Null, Null)
    BY <1>1, <1>5, NoRemark, IncNothing, NullIsNoObj
  <2>2. /\ fld' = [fld EXCEPT ![r][1] = w] /\ UNCHANGED <<kind, todo, task>>
        /\ kind[r] = "ref" /\ todo[th] = {} /\ pend[th] = Null
    BY <1>5, <1>6
  <2>3. /\ own' \in [Threads -> [Objs -> Nat]] /\ pend' \in [Threads -> Objs \union {Null}]
        /\ \A t \in Threads : t # th => own'[t] = own[t] /\ pend'[t] = pend[t]
        /\ \A t \in Threads : t # th => ioVal'[t] = ioVal[t]
    BY <1>7, <1>9
  <2> QED BY <1>4, <1>12, <2>1, <2>2, <2>3 DEF RefMoves
<1>14. Null \in Pointers /\ Null \notin Objs
  BY ObjsAssumption DEF Pointers
<1> QED BY <1>11, <1>13, <1>14, RefMoveStep DEF RefInv

LEMMA IoRefResetStep ==
    ASSUME RefInv, NEW th \in Threads, NEW r \in Objs, IoRefReset(th, r)
    PROVE  RefInv'
<1>1. PICK v : v = fld[r][1]
  OBVIOUS
<1>2. /\ Uses(th, r) /\ fld' = [fld EXCEPT ![r][1] = Null]
      /\ pend' = [pend EXCEPT ![th] = AsObj(v)]
      /\ UNCHANGED <<kind, mem, rc, own, todo, task, ioRef, ioVal>>
  BY <1>1 DEF IoRefReset
<1>3. /\ HeapTypes /\ RefTypes /\ ioRef[th] = Null /\ ioVal[th] = Null
      /\ pend[th] = Null /\ todo[th] = {} /\ kind[r] = "ref" /\ v \in Pointers
  BY <1>1, <1>2, UsesFacts
<1>4. /\ own' \in [Threads -> [Objs -> Nat]]
      /\ pend' \in [Threads -> Objs \union {Null}] /\ pend'[th] = AsObj(v)
      /\ \A t \in Threads : t # th => own'[t] = own[t] /\ pend'[t] = pend[t]
  BY <1>2, <1>3, AsObjTimes DEF HeapTypes
<1>5. Undisturbed(th)
  BY <1>2, <1>3, <1>4 DEF Undisturbed, RefTypes
<1>6. RefTypes' /\ GetInv'
  BY <1>2, <1>3, <1>5, GetInvKept
<1>7. ASSUME NEW o \in Objs
      PROVE  own'[th][o] + Times(o, pend'[th], Null) + Times(o, Null, Null)
             + 2 * Times(o, ioVal'[th], Null)
             = own[th][o] + Times(o, v, Null) + 2 * Times(o, ioVal[th], Null)
               + Times(o, Null, Null)
  <2>1. own'[th][o] = own[th][o] /\ own[th][o] \in Nat /\ Times(o, v, Null) \in Nat
    BY <1>2, <1>3, TimesType DEF HeapTypes
  <2>2. /\ Times(o, pend'[th], Null) = Times(o, v, Null) /\ Times(o, Null, Null) = 0
        /\ Times(o, ioVal[th], Null) = 0 /\ Times(o, ioVal'[th], Null) = 0
    BY <1>2, <1>3, <1>4, AsObjTimes, NullIsNoObj
  <2> QED BY <2>1, <2>2
<1>8. Null \in Pointers /\ Null \notin Objs
  BY ObjsAssumption DEF Pointers
<1>9. RefMoves(th, r, v, Null, Null)
  <2>1. Remarks(mem') /\ rc' = IncAll(rc, Null, Null)
    BY <1>2, <1>3, NoRemark, IncNothing, NullIsNoObj
  <2>2. /\ fld' = [fld EXCEPT ![r][1] = Null] /\ UNCHANGED <<kind, todo, task>>
        /\ kind[r] = "ref" /\ todo[th] = {} /\ pend[th] = Null
    BY <1>2, <1>3
  <2>3. /\ own' \in [Threads -> [Objs -> Nat]] /\ pend' \in [Threads -> Objs \union {Null}]
        /\ \A t \in Threads : t # th => own'[t] = own[t] /\ pend'[t] = pend[t]
        /\ \A t \in Threads : t # th => ioVal'[t] = ioVal[t]
    BY <1>2, <1>4
  <2> QED BY <1>1, <1>7, <1>8, <2>1, <2>2, <2>3 DEF RefMoves
<1> QED BY <1>3, <1>6, <1>8, <1>9, RefMoveStep DEF RefInv

(* What is stored in a reference lives, and may be marked.                 *)
LEMMA StoredRemarks ==
    ASSUME RefInv, NEW th \in Threads, NEW r \in Objs, NEW a \in Values, Owns(th, r, a)
    PROVE  Remarks(MarkStored(r, a))
<1>1. HeapTypes /\ RefTypes /\ HeapInv(Taken) /\ Taken \in [Objs -> Nat]
  BY TakenType DEF RefInv, HeapInv
<1>2. a \in Objs => ~ Dead(a)
  <2>1. ASSUME a \in Objs PROVE own[th][a] > 0
    <3>1. own[th][a] \in Nat /\ own[th][a] >= Times(a, r, a)
      BY <1>1, <2>1 DEF Owns, HeapTypes
    <3>2. Times(a, r, a) > 0
      BY TimesValue
    <3>3. Times(a, r, a) \in Nat
      BY TimesType
    <3> QED BY <3>1, <3>2, <3>3
  <2> QED BY <1>1, <2>1, HeldAlive
<1>3. Remarks(MarkMT(a))
  BY <1>1, <1>2, MarkMTRemarks
<1>4. Remarks(mem)
  BY <1>1 DEF Remarks, HeapTypes
<1> QED BY <1>3, <1>4 DEF MarkStored

LEMMA IoRefSetStep ==
    ASSUME RefInv, NEW th \in Threads, NEW r \in Objs, NEW a \in Values, IoRefSet(th, r, a)
    PROVE  RefInv'
<1>1. PICK v : v = fld[r][1]
  OBVIOUS
<1>2. /\ Uses(th, r) /\ Owns(th, r, a) /\ fld' = [fld EXCEPT ![r][1] = a]
      /\ mem' = MarkStored(r, a) /\ pend' = [pend EXCEPT ![th] = AsObj(v)]
      /\ own' = [own EXCEPT ![th] = Lose(own[th], a, Null)]
      /\ UNCHANGED <<kind, rc, todo, task, ioRef, ioVal>>
  BY <1>1 DEF IoRefSet, SetOwn
<1>3. /\ HeapTypes /\ RefTypes /\ ioRef[th] = Null /\ ioVal[th] = Null
      /\ pend[th] = Null /\ todo[th] = {} /\ kind[r] = "ref" /\ v \in Pointers
  BY <1>1, <1>2, UsesFacts
<1>4. /\ Lose(own[th], a, Null) \in [Objs -> Nat]
      /\ \A x \in Objs : Lose(own[th], a, Null)[x] = own[th][x] - Times(x, a, Null)
  <2>1. Owns(th, a, Null)
    BY <1>2, <1>3, OwnsSecond
  <2> QED BY <1>3, <2>1, CountTypes
<1>5. /\ own' \in [Threads -> [Objs -> Nat]] /\ own'[th] = Lose(own[th], a, Null)
      /\ pend' \in [Threads -> Objs \union {Null}] /\ pend'[th] = AsObj(v)
      /\ \A t \in Threads : t # th => own'[t] = own[t] /\ pend'[t] = pend[t]
  BY <1>2, <1>3, <1>4, AsObjTimes DEF HeapTypes
<1>6. Undisturbed(th)
  BY <1>2, <1>3, <1>5 DEF Undisturbed, RefTypes
<1>7. RefTypes' /\ GetInv'
  BY <1>2, <1>3, <1>6, GetInvKept
<1>8. ASSUME NEW o \in Objs
      PROVE  own'[th][o] + Times(o, pend'[th], Null) + Times(o, a, Null)
             + 2 * Times(o, ioVal'[th], Null)
             = own[th][o] + Times(o, v, Null) + 2 * Times(o, ioVal[th], Null)
               + Times(o, Null, Null)
  <2>1. own'[th][o] = own[th][o] - Times(o, a, Null)
    BY <1>4, <1>5
  <2>2. own[th][o] \in Nat /\ Times(o, v, Null) \in Nat /\ Times(o, a, Null) \in Nat
    BY <1>3, TimesType DEF HeapTypes
  <2>3. /\ Times(o, pend'[th], Null) = Times(o, v, Null) /\ Times(o, Null, Null) = 0
        /\ Times(o, ioVal[th], Null) = 0 /\ Times(o, ioVal'[th], Null) = 0
    BY <1>2, <1>3, <1>5, AsObjTimes, NullIsNoObj
  <2> QED BY <2>1, <2>2, <2>3
<1>9. Null \in Pointers /\ Null \notin Objs /\ a \in Pointers
  BY ObjsAssumption DEF Pointers, Values
<1>10. RefMoves(th, r, v, a, Null)
  <2>1. Remarks(mem')
    BY <1>2, StoredRemarks
  <2>2. rc' = IncAll(rc, Null, Null)
    BY <1>2, <1>3, IncNothing, NullIsNoObj
  <2>3. /\ fld' = [fld EXCEPT ![r][1] = a] /\ UNCHANGED <<kind, todo, task>>
        /\ kind[r] = "ref" /\ todo[th] = {} /\ pend[th] = Null
    BY <1>2, <1>3
  <2>4. /\ own' \in [Threads -> [Objs -> Nat]] /\ pend' \in [Threads -> Objs \union {Null}]
        /\ \A t \in Threads : t # th => own'[t] = own[t] /\ pend'[t] = pend[t]
        /\ \A t \in Threads : t # th => ioVal'[t] = ioVal[t]
    BY <1>2, <1>5
  <2> QED BY <1>1, <1>8, <1>9, <2>1, <2>2, <2>3, <2>4 DEF RefMoves
<1> QED BY <1>3, <1>7, <1>9, <1>10, RefMoveStep DEF RefInv

(* A reference that may be multi-threaded takes the new value even if it   *)
(* was empty; programs without SwapEmpty swap no other empty reference.    *)
LEMMA IoRefSwapStep ==
    ASSUME RefInv, ~ SwapEmpty, NEW th \in Threads, NEW r \in Objs, NEW a \in Values,
           IoRefSwap(th, r, a)
    PROVE  RefInv'
<1>1. PICK v : v = fld[r][1]
  OBVIOUS
<1>2. /\ Uses(th, r) /\ Owns(th, r, a) /\ fld' = [fld EXCEPT ![r][1] = a]
      /\ mem' = MarkStored(r, a)
      /\ own' = [own EXCEPT ![th] = Gain(Lose(own[th], a, Null), v)]
      /\ UNCHANGED <<kind, rc, pend, todo, task, ioRef, ioVal>>
  BY <1>1 DEF IoRefSwap, SetOwn
<1>3. /\ HeapTypes /\ RefTypes /\ ioRef[th] = Null /\ ioVal[th] = Null
      /\ pend[th] = Null /\ todo[th] = {} /\ kind[r] = "ref" /\ v \in Pointers
  BY <1>1, <1>2, UsesFacts
<1>4. /\ Lose(own[th], a, Null) \in [Objs -> Nat]
      /\ \A x \in Objs : Lose(own[th], a, Null)[x] = own[th][x] - Times(x, a, Null)
  <2>1. Owns(th, a, Null)
    BY <1>2, <1>3, OwnsSecond
  <2> QED BY <1>3, <2>1, CountTypes
<1>5. /\ Gain(Lose(own[th], a, Null), v) \in [Objs -> Nat]
      /\ \A x \in Objs : Gain(Lose(own[th], a, Null), v)[x]
                         = Lose(own[th], a, Null)[x] + Times(x, v, Null)
  BY <1>4, TimesType DEF Gain
<1>6. /\ own' \in [Threads -> [Objs -> Nat]] /\ own'[th] = Gain(Lose(own[th], a, Null), v)
      /\ pend' \in [Threads -> Objs \union {Null}] /\ pend'[th] = Null
      /\ \A t \in Threads : t # th => own'[t] = own[t] /\ pend'[t] = pend[t]
  BY <1>2, <1>3, <1>5 DEF HeapTypes
<1>7. Undisturbed(th)
  BY <1>2, <1>3, <1>6 DEF Undisturbed, RefTypes
<1>8. RefTypes' /\ GetInv'
  BY <1>2, <1>3, <1>7, GetInvKept
<1>9. ASSUME NEW o \in Objs
      PROVE  own'[th][o] + Times(o, pend'[th], Null) + Times(o, a, Null)
             + 2 * Times(o, ioVal'[th], Null)
             = own[th][o] + Times(o, v, Null) + 2 * Times(o, ioVal[th], Null)
               + Times(o, Null, Null)
  <2>1. own'[th][o] = own[th][o] - Times(o, a, Null) + Times(o, v, Null)
    BY <1>4, <1>5, <1>6
  <2>2. own[th][o] \in Nat /\ Times(o, v, Null) \in Nat /\ Times(o, a, Null) \in Nat
    BY <1>3, TimesType DEF HeapTypes
  <2>3. /\ Times(o, pend'[th], Null) = 0 /\ Times(o, Null, Null) = 0
        /\ Times(o, ioVal[th], Null) = 0 /\ Times(o, ioVal'[th], Null) = 0
    BY <1>2, <1>3, <1>6, NullIsNoObj
  <2> QED BY <2>1, <2>2, <2>3
<1>10. Null \in Pointers /\ Null \notin Objs /\ a \in Pointers
  BY ObjsAssumption DEF Pointers, Values
<1>11. RefMoves(th, r, v, a, Null)
  <2>1. Remarks(mem')
    BY <1>2, StoredRemarks
  <2>2. rc' = IncAll(rc, Null, Null)
    BY <1>2, <1>3, IncNothing, NullIsNoObj
  <2>3. /\ fld' = [fld EXCEPT ![r][1] = a] /\ UNCHANGED <<kind, todo, task>>
        /\ kind[r] = "ref" /\ todo[th] = {} /\ pend[th] = Null
    BY <1>2, <1>3
  <2>4. /\ own' \in [Threads -> [Objs -> Nat]] /\ pend' \in [Threads -> Objs \union {Null}]
        /\ \A t \in Threads : t # th => own'[t] = own[t] /\ pend'[t] = pend[t]
        /\ \A t \in Threads : t # th => ioVal'[t] = ioVal[t]
    BY <1>2, <1>6
  <2> QED BY <1>1, <1>9, <1>10, <2>1, <2>2, <2>3, <2>4 DEF RefMoves
<1> QED BY <1>3, <1>8, <1>10, <1>11, RefMoveStep DEF RefInv

LEMMA IoMkRefStep ==
    ASSUME RefInv, NEW th \in Threads, NEW r \in Objs, NEW a \in Values, IoMkRef(th, r, a)
    PROVE  RefInv'
<1>1. /\ Running(th) /\ ioRef[th] = Null /\ kind[r] = "free" /\ Owns(th, a, Null)
      /\ kind' = [kind EXCEPT ![r] = "ref"] /\ rc' = [rc EXCEPT ![r] = 1]
      /\ fld' = [fld EXCEPT ![r] = <<a, Null>>]
      /\ own' = [own EXCEPT ![th] = Gain(Lose(own[th], a, Null), r)]
      /\ UNCHANGED <<mem, pend, todo, task>> /\ UNCHANGED <<ioRef, ioVal>>
  BY DEF IoMkRef, SetOwn
<1>2. HeapTypes /\ RefTypes /\ HeapInv(Taken) /\ Taken \in [Objs -> Nat]
  BY TakenType DEF RefInv, HeapInv
<1>3. PICK X \in [Objs -> Nat] : X = Taken
  BY <1>2
<1>4. HeapInv(X)'
  <2>1. HeapInv(X)
    BY <1>2, <1>3
  <2>2. a \in Pointers /\ Null \in Pointers /\ "ref" \in Kinds \ {"free", "task"}
    BY DEF Pointers, Values, Kinds
  <2> QED BY <1>1, <2>1, <2>2, AllocStep
<1>5. HeapInv(Taken)'
  <2>1. Taken' = Taken
    BY <1>1, TakenStays DEF refVars
  <2> QED BY <1>3, <1>4, <2>1, HeapInvNext
<1>6. RefTypes'
  BY <1>1, <1>2 DEF RefTypes
<1>7. GetInv'
  <2>1. ASSUME NEW t \in Threads, ioRef'[t] # Null
        PROVE  /\ pend'[t] = Null /\ todo'[t] = {}
               /\ own'[t][ioRef'[t]] > 0 /\ kind'[ioRef'[t]] = "ref"
    <3>1. /\ ioRef'[t] = ioRef[t] /\ ioRef[t] # Null /\ t # th /\ ioRef[t] \in Objs
      BY <1>1, <1>2, <2>1 DEF RefTypes
    <3>2. /\ pend[t] = Null /\ todo[t] = {} /\ own[t][ioRef[t]] > 0 /\ kind[ioRef[t]] = "ref"
      BY <3>1 DEF RefInv, GetInv
    <3>3. own'[t] = own[t] /\ kind'[ioRef[t]] = "ref"
      BY <1>1, <1>2, <3>1, <3>2 DEF HeapTypes
    <3> QED BY <1>1, <3>1, <3>2, <3>3
  <2>2. ASSUME NEW t \in Threads, ioRef'[t] = Null PROVE ioVal'[t] = Null
    BY <1>1, <2>2 DEF RefInv, GetInv
  <2> QED BY <2>1, <2>2 DEF GetInv
<1> QED BY <1>5, <1>6, <1>7 DEF RefInv

LEMMA ProgramHeapStep ==
    ASSUME RefInv, NEW th \in Threads, ioRef[th] = Null, Step(th), UNCHANGED refVars
    PROVE  RefInv'
<1>1. HeapTypes /\ RefTypes /\ HeapInv(Taken) /\ Taken \in [Objs -> Nat]
  BY TakenType DEF RefInv, HeapInv
<1>2. PICK X \in [Objs -> Nat] : X = Taken
  BY <1>1
<1>3. HeapInv(X) /\ HeapInv(X)'
  <2>1. HeapInv(X)
    BY <1>1, <1>2
  <2> QED BY <2>1, HeapStep
<1>4. HeapInv(Taken)'
  BY <1>2, <1>3, TakenStays, HeapInvNext
<1>5. UNCHANGED <<ioRef, ioVal>>
  BY DEF refVars
<1>6. RefTypes'
  BY <1>1, <1>5 DEF RefTypes
<1>7. GetInv'
  <2>1. ASSUME NEW t \in Threads, ioRef'[t] # Null
        PROVE  /\ pend'[t] = Null /\ todo'[t] = {}
               /\ own'[t][ioRef'[t]] > 0 /\ kind'[ioRef'[t]] = "ref"
    <3>1. PICK r \in Objs : r = ioRef[t]
      BY <1>1, <1>5, <2>1 DEF RefTypes
    <3>2. /\ pend[t] = Null /\ todo[t] = {} /\ own[t][r] > 0 /\ kind[r] = "ref" /\ t # th
      BY <1>5, <2>1, <3>1 DEF RefInv, GetInv
    <3>3. pend'[t] = pend[t] /\ todo'[t] = todo[t] /\ own'[t][r] > 0 /\ kind'[r] = "ref"
      BY <1>3, <3>2, StepOthers
    <3> QED BY <1>5, <3>1, <3>2, <3>3
  <2>2. ASSUME NEW t \in Threads, ioRef'[t] = Null PROVE ioVal'[t] = Null
    BY <1>5, <2>2 DEF RefInv, GetInv
  <2> QED BY <2>1, <2>2 DEF GetInv
<1> QED BY <1>4, <1>6, <1>7 DEF RefInv

LEMMA ProgramStep ==
    ASSUME RefInv, ~ SwapEmpty, ProgramNext
    PROVE  RefInv'
<1>1. PICK th \in Threads : \/ ioRef[th] = Null /\ Step(th) /\ UNCHANGED refVars
                            \/ RefOp(th) \/ GetPutBack(th)
  BY DEF ProgramNext
<1>2. CASE RefOp(th)
  BY <1>2, GetSTStep, GetTakeStep, IoRefResetStep, IoMkRefStep, IoRefSetStep, IoRefSwapStep
     DEF RefOp
<1> QED BY <1>1, <1>2, ProgramHeapStep, GetPutBackStep

LEMMA ProgramStutter ==
    ASSUME RefInv, UNCHANGED allVars
    PROVE  RefInv'
<1>1. UNCHANGED <<kind, mem, rc, fld, own, pend, todo, task, ioRef, ioVal>>
  BY DEF allVars, vars, objVars, threadVars, refVars
<1>2. RefTypes' /\ GetInv'
  BY <1>1 DEF RefInv, RefTypes, GetInv
<1>3. HeapTypes' /\ TodoInv' /\ FreeInv' /\ TaskInv' /\ PendInv'
  BY <1>1 DEF RefInv, HeapInv, HeapTypes, TodoInv, FreeInv, TaskInv, PendInv, IsHeapObj
<1>4. Taken' = Taken
  BY <1>1, TakenStays DEF refVars
<1>5. ASSUME NEW o \in Objs PROVE Counted(Taken, o)'
  <2>1. References(o)' = References(o)
    BY <1>1 DEF References, Total, Times
  <2>2. Counted(Taken, o)
    BY DEF RefInv, HeapInv
  <2> QED BY <1>1, <1>4, <2>1, <2>2 DEF Counted, Dead, IsHeapObj
<1> QED BY <1>2, <1>3, <1>5 DEF RefInv, HeapInv

LEMMA ProgramInit == RefInit => RefInv
<1> SUFFICES ASSUME RefInit PROVE RefInv
  OBVIOUS
<1>1. RefTypes
  BY DEF RefInit, RefTypes, Pointers
<1>2. GetInv
  BY DEF RefInit, GetInv
<1>3. ASSUME NEW o \in Objs PROVE Taken[o] = 0
  <2>1. \A th \in Threads : 2 * Times(o, ioVal[th], Null) = 0
    BY NullIsNoObj DEF RefInit
  <2>2. TakenBy(o) = [th \in Threads |-> 0]
    BY <2>1 DEF TakenBy
  <2>3. Total(TakenBy(o)) = 0
    BY <2>2, TotalZero, ThreadsAssumption
  <2> QED BY <1>1, <2>3, TakenByType
<1>4. Taken \in [Objs -> Nat]
  BY <1>1, TakenType
<1>5. PICK X \in [Objs -> Nat] : X = Taken
  BY <1>4
<1>6. HeapInv(X)
  BY <1>3, <1>5, HeapInit DEF RefInit
<1> QED BY <1>1, <1>2, <1>5, <1>6 DEF RefInv

LEMMA ExactCounts == RefInv => RefCountsAreExact
<1> SUFFICES ASSUME RefInv, NEW o \in Objs
             PROVE  IF kind[o] = "free" \/ \E th \in Threads : o \in todo[th]
                    THEN RefReferences(o) = 0
                    ELSE IsHeapObj(o) => rc[o] = RefReferences(o)
  BY DEF RefCountsAreExact
<1>1. RefReferences(o) = References(o) + Taken[o]
  BY DEF RefReferences, Taken, TakenBy
<1>2. Counted(Taken, o)
  BY DEF RefInv, HeapInv
<1> QED BY <1>1, <1>2 DEF Counted, Dead

(* Programs that do not swap an empty single-threaded reference never leak *)
(* or free too early, with any number of threads, objects and references:  *)
(* the counters of the heap are the numbers of references, whichever       *)
(* threads release them or take values out of an IO.Ref at the same time.  *)
THEOREM CountsAreExact == ~ SwapEmpty => (ProgramSpec => []RefCountsAreExact)
<1> SUFFICES ASSUME ~ SwapEmpty PROVE ProgramSpec => []RefCountsAreExact
  OBVIOUS
<1>1. RefInit => RefInv
  BY ProgramInit
<1>2. RefInv /\ [ProgramNext]_allVars => RefInv'
  BY ProgramStep, ProgramStutter
<1>3. RefInv => RefCountsAreExact
  BY ExactCounts
<1> QED BY <1>1, <1>2, <1>3, PTL DEF ProgramSpec

(* In the same programs, an array that array_uset changes in place has one *)
(* reference, the one of the thread that changes it.                       *)
THEOREM InPlaceUpdates == ~ SwapEmpty => (ProgramSpec => UpdatesAreUnseen)
<1> SUFFICES ASSUME ~ SwapEmpty PROVE ProgramSpec => UpdatesAreUnseen
  OBVIOUS
<1> DEFINE Unseen == \A o \in Objs :
              kind[o] = "data" /\ kind'[o] = "data" /\ fld'[o] # fld[o]
              => References(o) = 1 /\ mem[o] # "persistent"
<1>1. RefInit => RefInv
  BY ProgramInit
<1>2. RefInv /\ [ProgramNext]_allVars => RefInv'
  BY ProgramStep, ProgramStutter
<1>3. RefInv /\ [ProgramNext]_allVars => [Unseen]_vars
  <2> SUFFICES ASSUME RefInv, [ProgramNext]_allVars PROVE [Unseen]_vars
    OBVIOUS
  <2>1. CASE UNCHANGED allVars
    BY <2>1 DEF allVars
  <2>2. HeapTypes /\ RefTypes /\ HeapInv(Taken) /\ Taken \in [Objs -> Nat]
    BY TakenType DEF RefInv, HeapInv
  <2>3. ASSUME NEW th \in Threads, Step(th) PROVE Unseen
    BY <2>2, <2>3, StepUnseen
  <2>4. ASSUME NEW th \in Threads, RefOp(th) PROVE Unseen
    <3>1. PICK r \in Objs :
            \/ GetST(th, r) \/ GetTake(th, r) \/ IoRefReset(th, r)
            \/ \E a \in Values : IoMkRef(th, r, a) \/ IoRefSet(th, r, a) \/ IoRefSwap(th, r, a)
      BY <2>4 DEF RefOp
    <3>2. kind[r] # "data"
      BY <3>1 DEF GetST, GetTake, IoRefReset, IoMkRef, IoRefSet, IoRefSwap, Uses
    <3>3. \A o \in Objs : o # r => fld'[o] = fld[o]
      BY <2>2, <3>1 DEF GetST, GetTake, IoRefReset, IoMkRef, IoRefSet, IoRefSwap, HeapTypes
    <3> QED BY <3>2, <3>3
  <2>5. ASSUME NEW th \in Threads, GetPutBack(th) PROVE Unseen
    <3>1. PICK r \in Objs : r = ioRef[th]
      BY <2>2, <2>5 DEF GetPutBack, RefTypes
    <3>2. kind[r] # "data"
      BY <2>5, <3>1 DEF GetPutBack, RefInv, GetInv
    <3>3. \A o \in Objs : o # r => fld'[o] = fld[o]
      BY <2>2, <2>5, <3>1 DEF GetPutBack, HeapTypes
    <3> QED BY <3>2, <3>3
  <2> HIDE DEF Unseen
  <2> QED BY <2>1, <2>3, <2>4, <2>5 DEF ProgramNext
<1> QED BY <1>1, <1>2, <1>3, PTL DEF ProgramSpec, UpdatesAreUnseen

----------------------------------------------------------------------------
(* Only the thread lab[o] uses a single-threaded object o, and what        *)
(* io_ref_get takes out of a reference is not single-threaded.             *)
TakenMT == \A th \in Threads : ioVal[th] \in Objs => mem[ioVal[th]] # "st"
Labelled == \E lab \in [Objs -> Threads] : Labels(lab)

LocalInv == TakenMT /\ Labelled

LEMMA KeptLabelled ==
    ASSUME NEW lab \in [Objs -> Threads], Labels(lab), NEW th \in Threads, NEW X,
           Kept(lab, th, X)
    PROVE  Labelled'
<1>1. PICK N \in SUBSET Objs : Keeps(lab, th, N, X)
  BY DEF Kept
<1>2. PICK new : new = Relabel(lab, N, th)
  OBVIOUS
<1>3. new \in [Objs -> Threads] /\ Labels(new)'
  BY <1>1, <1>2, LabelStep
<1> QED BY <1>3 DEF Labelled

(* Thread th stores new in the first field of its object r.                *)
Exchanges(lab, th, r, new) ==
    /\ own[th][r] > 0 /\ fld' = [fld EXCEPT ![r][1] = new] /\ Seals(mem') /\ todo' = todo
    /\ new \in Objs /\ mem'[new] = "st" => mem'[r] = "st" /\ lab[r] = th /\ lab[new] = th
    /\ \A t \in Threads : t # th => own'[t] = own[t] /\ pend'[t] = pend[t]
    /\ \A o \in Objs : own'[th][o] > 0 => own[th][o] > 0 \/ o = fld[r][1] \/ mem[o] # "st"
    /\ pend'[th] = pend[th] \/ pend'[th] = AsObj(fld[r][1])

LEMMA ExchangeKeeps ==
    ASSUME HeapTypes, NEW lab \in [Objs -> Threads], Labels(lab), NEW th \in Threads,
           NEW r \in Objs, NEW new, Exchanges(lab, th, r, new)
    PROVE  Labelled'
<1> USE DEF Exchanges
<1>1. fld'[r] = [fld[r] EXCEPT ![1] = new] /\ \A y \in Objs : y # r => fld'[y] = fld[y]
  BY DEF HeapTypes
<1>2. fld'[r][1] = new /\ fld'[r][2] = fld[r][2]
  BY <1>1 DEF HeapTypes
<1>3. ASSUME NEW y \in Fields(r)'
      PROVE  \/ y \in Fields(r)
             \/ mem'[y] = "st" => mem'[r] = "st" /\ lab[r] = th /\ lab[y] = th
  BY <1>2 DEF Fields
<1>4. r \in Roots(th)
  BY DEF Roots
<1>5. ASSUME NEW o \in Objs, o = fld[r][1] PROVE mem'[o] # "st" \/ lab[o] = th
  <2>1. o \in Fields(r)
    BY <1>5 DEF Fields
  <2>2. mem[o] # "st" \/ lab[o] = th
    BY <1>4, <2>1, OwnField
  <2> QED BY <2>2 DEF Seals
<1>6. ASSUME NEW o \in Roots(th)' PROVE o \in Roots(th) \/ mem'[o] # "st" \/ lab[o] = th
  <2>1. o \in Objs /\ (own'[th][o] > 0 \/ pend'[th] = o \/ o \in todo[th])
    BY DEF Roots
  <2>2. CASE own'[th][o] > 0
    BY <1>5, <2>1, <2>2 DEF Roots, Seals
  <2>3. CASE pend'[th] = o
    BY <1>5, <2>1, <2>3, NullIsNoObj DEF Roots, AsObj
  <2> QED BY <2>1, <2>2, <2>3 DEF Roots
<1>7. ASSUME NEW t \in Threads, NEW o \in Roots(t)'
      PROVE  o \in Roots(t) \/ mem'[o] # "st" \/ (t = th /\ lab[o] = th)
  <2>1. CASE t # th
    BY <2>1 DEF Roots
  <2> QED BY <1>6, <2>1
<1>8. StoresOwn(lab, th, r)
  <2>1. Seals(mem')
    OBVIOUS
  <2> HIDE DEF Exchanges
  <2> QED BY <1>1, <1>3, <1>7, <2>1 DEF StoresOwn
<1>9. PICK X : X = Taken
  OBVIOUS
<1> HIDE DEF Exchanges
<1> QED BY <1>8, <1>9, StoreKeeps, KeptLabelled

(* What is taken stays as it is when th takes nothing.                     *)
LEMMA TakenMTKept ==
    ASSUME TakenMT, NEW th \in Threads, Seals(mem'),
           \A t \in Threads : t # th => ioVal'[t] = ioVal[t],
           ioVal'[th] \in Objs => mem[ioVal'[th]] # "st"
    PROVE  TakenMT'
<1>1. ASSUME NEW t \in Threads, ioVal'[t] \in Objs PROVE mem'[ioVal'[t]] # "st"
  <2>1. mem[ioVal'[t]] # "st"
    BY <1>1 DEF TakenMT
  <2> QED BY <1>1, <2>1 DEF Seals
<1> QED BY <1>1 DEF TakenMT

LEMMA SealsStays ==
    ASSUME mem' = mem
    PROVE  Seals(mem')
BY DEF Seals

LEMMA GetSTLocal ==
    ASSUME RefInv, LocalInv, NEW th \in Threads, NEW r \in Objs, GetST(th, r)
    PROVE  LocalInv'
<1>1. /\ Uses(th, r) /\ UNCHANGED <<mem, fld, pend, todo, ioVal>>
      /\ own' = [own EXCEPT ![th] = Gain(own[th], fld[r][1])]
  BY DEF GetST, SetOwn, refVars
<1>2. HeapTypes /\ own[th][r] > 0 /\ own[th] \in [Objs -> Nat]
  BY <1>1, UsesFacts DEF HeapTypes
<1>3. PICK lab \in [Objs -> Threads] : Labels(lab)
  BY DEF LocalInv, Labelled
<1>4. Exchanges(lab, th, r, fld[r][1])
  <2>1. fld' = [fld EXCEPT ![r][1] = fld[r][1]]
    BY <1>1, <1>2 DEF HeapTypes
  <2>2. r \in Roots(th)
    BY <1>2 DEF Roots
  <2>3. fld[r][1] \in Objs /\ mem'[fld[r][1]] = "st"
        => mem'[r] = "st" /\ lab[r] = th /\ lab[fld[r][1]] = th
    BY <1>1, <1>3, <2>2, OwnField DEF Fields
  <2>4. /\ own'[th] = Gain(own[th], fld[r][1])
        /\ \A t \in Threads : t # th => own'[t] = own[t]
    BY <1>1, <1>2 DEF HeapTypes
  <2>5. \A o \in Objs : own'[th][o] > 0 => own[th][o] > 0 \/ o = fld[r][1]
    BY <1>2, <2>4, CountsComeFrom
  <2> QED BY <1>1, <1>2, <2>1, <2>3, <2>4, <2>5, SealsStays DEF Exchanges
<1>5. TakenMT'
  BY <1>1 DEF LocalInv, TakenMT
<1> QED BY <1>2, <1>3, <1>4, <1>5, ExchangeKeeps DEF LocalInv

LEMMA GetTakeLocal ==
    ASSUME RefInv, LocalInv, NEW th \in Threads, NEW r \in Objs, GetTake(th, r)
    PROVE  LocalInv'
<1>1. /\ Uses(th, r) /\ UNCHANGED <<mem, own, pend, todo>> /\ mem[r] # "st"
      /\ fld' = [fld EXCEPT ![r][1] = Null] /\ ioVal' = [ioVal EXCEPT ![th] = fld[r][1]]
  BY DEF GetTake, RefMaybeMT, threadVars
<1>2. HeapTypes /\ RefTypes /\ own[th][r] > 0 /\ Seals(mem')
  BY <1>1, UsesFacts, SealsStays
<1>3. PICK lab \in [Objs -> Threads] : Labels(lab)
  BY DEF LocalInv, Labelled
<1>4. Exchanges(lab, th, r, Null)
  BY <1>1, <1>2, NullIsNoObj DEF Exchanges
<1>5. fld[r][1] \in Objs => mem[fld[r][1]] # "st"
  BY <1>1, <1>3 DEF Labels, EdgeInv, Fields
<1>6. TakenMT'
  <2>1. ioVal'[th] = fld[r][1] /\ \A t \in Threads : t # th => ioVal'[t] = ioVal[t]
    BY <1>1, <1>2 DEF RefTypes
  <2> QED BY <1>2, <1>5, <2>1, TakenMTKept DEF LocalInv
<1> QED BY <1>2, <1>3, <1>4, <1>6, ExchangeKeeps DEF LocalInv

LEMMA GetPutBackLocal ==
    ASSUME RefInv, LocalInv, NEW th \in Threads, GetPutBack(th)
    PROVE  LocalInv'
<1>1. HeapTypes /\ RefTypes
  BY DEF RefInv, HeapInv
<1>2. PICK r \in Objs : r = ioRef[th]
  BY <1>1 DEF GetPutBack, RefTypes
<1>3. PICK w : w = ioVal[th]
  OBVIOUS
<1>4. /\ fld' = [fld EXCEPT ![r][1] = w] /\ pend' = [pend EXCEPT ![th] = AsObj(fld[r][1])]
      /\ own' = [own EXCEPT ![th] = Gain(own[th], w)]
      /\ ioVal' = [ioVal EXCEPT ![th] = Null] /\ UNCHANGED <<mem, todo>>
  BY <1>2, <1>3 DEF GetPutBack, SetOwn
<1>5. own[th][r] > 0 /\ own[th] \in [Objs -> Nat] /\ Seals(mem')
  BY <1>1, <1>2, <1>4, NullIsNoObj, SealsStays DEF RefInv, GetInv, HeapTypes
<1>6. w \in Objs => mem[w] # "st"
  BY <1>3 DEF LocalInv, TakenMT
<1>7. PICK lab \in [Objs -> Threads] : Labels(lab)
  BY DEF LocalInv, Labelled
<1>8. Exchanges(lab, th, r, w)
  <2>1. /\ own'[th] = Gain(own[th], w) /\ pend'[th] = AsObj(fld[r][1])
        /\ \A t \in Threads : t # th => own'[t] = own[t] /\ pend'[t] = pend[t]
    BY <1>1, <1>4 DEF HeapTypes
  <2>2. \A o \in Objs : own'[th][o] > 0 => own[th][o] > 0 \/ o = w
    BY <1>5, <2>1, CountsComeFrom
  <2> QED BY <1>4, <1>5, <1>6, <2>1, <2>2 DEF Exchanges
<1>9. TakenMT'
  <2>1. ioVal'[th] = Null /\ \A t \in Threads : t # th => ioVal'[t] = ioVal[t]
    BY <1>1, <1>4 DEF RefTypes
  <2> QED BY <1>5, <2>1, TakenMTKept, NullIsNoObj DEF LocalInv
<1> QED BY <1>1, <1>7, <1>8, <1>9, ExchangeKeeps DEF LocalInv

LEMMA IoRefResetLocal ==
    ASSUME RefInv, LocalInv, NEW th \in Threads, NEW r \in Objs, IoRefReset(th, r)
    PROVE  LocalInv'
<1>1. /\ Uses(th, r) /\ UNCHANGED <<mem, own, todo, ioVal>>
      /\ fld' = [fld EXCEPT ![r][1] = Null] /\ pend' = [pend EXCEPT ![th] = AsObj(fld[r][1])]
  BY DEF IoRefReset
<1>2. HeapTypes /\ own[th][r] > 0 /\ Seals(mem')
  BY <1>1, UsesFacts, SealsStays
<1>3. PICK lab \in [Objs -> Threads] : Labels(lab)
  BY DEF LocalInv, Labelled
<1>4. Exchanges(lab, th, r, Null)
  <2>1. pend'[th] = AsObj(fld[r][1]) /\ \A t \in Threads : t # th => pend'[t] = pend[t]
    BY <1>1, <1>2 DEF HeapTypes
  <2> QED BY <1>1, <1>2, <2>1, NullIsNoObj DEF Exchanges
<1>5. TakenMT'
  BY <1>1 DEF LocalInv, TakenMT
<1> QED BY <1>2, <1>3, <1>4, <1>5, ExchangeKeeps DEF LocalInv

(* Storing a in r: if r may be multi-threaded, a has been marked; if not,  *)
(* the thread that owns both is the only one to use them.                  *)
LEMMA StoredIsOwn ==
    ASSUME HeapTypes, NEW lab, Labels(lab), NEW th \in Threads, NEW r \in Objs, NEW a \in Values,
           Owns(th, r, a), mem' = MarkStored(r, a)
    PROVE  /\ Seals(mem')
           /\ a \in Objs /\ mem'[a] = "st" => mem'[r] = "st" /\ lab[r] = th /\ lab[a] = th
<1>1. Seals(mem')
  BY MarkSeals DEF MarkStored
<1>2. ASSUME a \in Objs, mem'[a] = "st" PROVE mem'[r] = "st" /\ lab[r] = th /\ lab[a] = th
  <2>1. ~ RefMaybeMT(r)
    BY <1>2, MarkSeals DEF MarkStored
  <2>2. mem' = mem /\ mem[r] = "st"
    BY <2>1 DEF MarkStored, RefMaybeMT, HeapTypes
  <2>3. ASSUME NEW x \in Objs, x = r \/ x = a PROVE x \in Roots(th)
    <3>1. own[th][x] >= Times(x, r, a) /\ own[th][x] \in Nat
      BY DEF Owns, HeapTypes
    <3>2. Times(x, r, a) > 0 /\ Times(x, r, a) \in Nat
      BY <2>3, TimesValue
    <3> QED BY <3>1, <3>2 DEF Roots
  <2>4. r \in Roots(th) /\ a \in Roots(th)
    BY <1>2, <2>3
  <2> QED BY <1>2, <2>2, <2>4 DEF Labels, RootInv
<1> QED BY <1>1, <1>2

LEMMA IoRefSetLocal ==
    ASSUME RefInv, LocalInv, NEW th \in Threads, NEW r \in Objs, NEW a \in Values,
           IoRefSet(th, r, a)
    PROVE  LocalInv'
<1>1. /\ Uses(th, r) /\ Owns(th, r, a) /\ fld' = [fld EXCEPT ![r][1] = a]
      /\ mem' = MarkStored(r, a) /\ pend' = [pend EXCEPT ![th] = AsObj(fld[r][1])]
      /\ own' = [own EXCEPT ![th] = Lose(own[th], a, Null)] /\ UNCHANGED <<todo, ioVal>>
  BY DEF IoRefSet, SetOwn
<1>2. HeapTypes /\ own[th][r] > 0 /\ own[th] \in [Objs -> Nat] /\ ioVal[th] = Null
  BY <1>1, UsesFacts DEF HeapTypes
<1>3. PICK lab \in [Objs -> Threads] : Labels(lab)
  BY DEF LocalInv, Labelled
<1>4. /\ Seals(mem')
      /\ a \in Objs /\ mem'[a] = "st" => mem'[r] = "st" /\ lab[r] = th /\ lab[a] = th
  BY <1>1, <1>2, <1>3, StoredIsOwn
<1>5. Exchanges(lab, th, r, a)
  <2>1. /\ own'[th] = Lose(own[th], a, Null) /\ pend'[th] = AsObj(fld[r][1])
        /\ \A t \in Threads : t # th => own'[t] = own[t] /\ pend'[t] = pend[t]
    BY <1>1, <1>2 DEF HeapTypes
  <2>2. \A o \in Objs : own'[th][o] > 0 => own[th][o] > 0
    BY <1>2, <2>1, CountsComeFrom
  <2> QED BY <1>1, <1>2, <1>4, <2>1, <2>2 DEF Exchanges
<1>6. TakenMT'
  BY <1>1, <1>2, <1>4, TakenMTKept, NullIsNoObj DEF LocalInv
<1> QED BY <1>2, <1>3, <1>5, <1>6, ExchangeKeeps DEF LocalInv

LEMMA IoRefSwapLocal ==
    ASSUME RefInv, LocalInv, ~ SwapEmpty, NEW th \in Threads, NEW r \in Objs, NEW a \in Values,
           IoRefSwap(th, r, a)
    PROVE  LocalInv'
<1>1. /\ Uses(th, r) /\ Owns(th, r, a) /\ fld' = [fld EXCEPT ![r][1] = a]
      /\ mem' = MarkStored(r, a)
      /\ own' = [own EXCEPT ![th] = Gain(Lose(own[th], a, Null), fld[r][1])]
      /\ UNCHANGED <<pend, todo, ioVal>>
  BY DEF IoRefSwap, SetOwn
<1>2. HeapTypes /\ own[th][r] > 0 /\ own[th] \in [Objs -> Nat] /\ ioVal[th] = Null
  BY <1>1, UsesFacts DEF HeapTypes
<1>3. PICK lab \in [Objs -> Threads] : Labels(lab)
  BY DEF LocalInv, Labelled
<1>4. /\ Seals(mem')
      /\ a \in Objs /\ mem'[a] = "st" => mem'[r] = "st" /\ lab[r] = th /\ lab[a] = th
  BY <1>1, <1>2, <1>3, StoredIsOwn
<1>5. Exchanges(lab, th, r, a)
  <2>1. /\ own'[th] = Gain(Lose(own[th], a, Null), fld[r][1])
        /\ \A t \in Threads : t # th => own'[t] = own[t]
    BY <1>1, <1>2 DEF HeapTypes
  <2>2. \A o \in Objs : own'[th][o] > 0 => own[th][o] > 0 \/ o = fld[r][1]
    BY <1>2, <2>1, CountsComeFrom
  <2> QED BY <1>1, <1>2, <1>4, <2>1, <2>2 DEF Exchanges
<1>6. TakenMT'
  BY <1>1, <1>2, <1>4, TakenMTKept, NullIsNoObj DEF LocalInv
<1> QED BY <1>2, <1>3, <1>5, <1>6, ExchangeKeeps DEF LocalInv

LEMMA IoMkRefLocal ==
    ASSUME RefInv, LocalInv, NEW th \in Threads, NEW r \in Objs, NEW a \in Values,
           IoMkRef(th, r, a)
    PROVE  LocalInv'
<1>1. /\ kind[r] = "free" /\ Owns(th, a, Null) /\ fld' = [fld EXCEPT ![r] = <<a, Null>>]
      /\ own' = [own EXCEPT ![th] = Gain(Lose(own[th], a, Null), r)]
      /\ UNCHANGED <<mem, pend, todo>> /\ UNCHANGED ioVal
  BY DEF IoMkRef, SetOwn
<1>2. HeapInv(Taken) /\ Taken \in [Objs -> Nat]
  BY TakenType DEF RefInv, HeapInv
<1>3. PICK X \in [Objs -> Nat] : X = Taken
  BY <1>2
<1>4. PICK lab \in [Objs -> Threads] : Labels(lab)
  BY DEF LocalInv, Labelled
<1>5. Kept(lab, th, X)
  <2>1. HeapInv(X)
    BY <1>2, <1>3
  <2> QED BY <1>1, <1>4, <2>1, AllocKeeps
<1>6. TakenMT'
  BY <1>1 DEF LocalInv, TakenMT
<1> QED BY <1>4, <1>5, <1>6, KeptLabelled DEF LocalInv

(* What is taken is counted, so that its memory is not reused.             *)
LEMMA TakenCounted ==
    ASSUME RefTypes, NEW th \in Threads, ioVal[th] \in Objs
    PROVE  Taken[ioVal[th]] > 0
<1>1. PICK o \in Objs : o = ioVal[th]
  OBVIOUS
<1>2. PICK f : f = TakenBy(o)
  OBVIOUS
<1>3. f \in [Threads -> Nat] /\ f[th] = 2 * Times(o, ioVal[th], Null) /\ Taken[o] = Total(f)
  BY <1>2, TakenByType
<1>4. Total(f) \in Nat /\ Total(f) >= f[th]
  BY <1>3, TotalUpdate, ThreadsAssumption
<1>5. Times(o, ioVal[th], Null) = 1
  BY <1>1, TimesValue, NullIsNoObj
<1>6. f[th] = 2
  BY <1>3, <1>5
<1>7. Taken[o] > 0
  BY <1>3, <1>4, <1>6
<1> QED BY <1>1, <1>7

LEMMA HeapStepLocal ==
    ASSUME RefInv, LocalInv, ~ LocalStores, NEW th \in Threads, Step(th), UNCHANGED refVars
    PROVE  LocalInv'
<1>1. RefTypes /\ HeapInv(Taken) /\ Taken \in [Objs -> Nat] /\ ioVal' = ioVal
  BY TakenType DEF RefInv, HeapInv, refVars
<1>2. PICK X \in [Objs -> Nat] : X = Taken
  BY <1>1
<1>3. HeapInv(X)
  BY <1>1, <1>2
<1>4. PICK lab \in [Objs -> Threads] : Labels(lab)
  BY DEF LocalInv, Labelled
<1>5. Kept(lab, th, X)
  BY <1>3, <1>4, StepKeeps
<1>6. PICK N \in SUBSET Objs : Keeps(lab, th, N, X)
  BY <1>5 DEF Kept
<1>7. ASSUME NEW t \in Threads, ioVal'[t] \in Objs PROVE mem'[ioVal'[t]] # "st"
  <2>1. PICK y \in Objs : y = ioVal[t]
    BY <1>1, <1>7
  <2>2. X[y] > 0 /\ X[y] \in Nat
    BY <1>1, <1>2, <2>1, TakenCounted
  <2>3. ASSUME y \in N PROVE FALSE
    <3>1. References(y) + X[y] = 0
      BY <1>6, <2>3 DEF Keeps
    <3>2. X[y] = 0
      BY <1>3, <3>1, Loose
    <3> QED BY <2>2, <3>2
  <2>4. mem[y] # "st"
    BY <2>1 DEF LocalInv, TakenMT
  <2> QED BY <1>1, <1>6, <2>1, <2>3, <2>4 DEF Keeps
<1> QED BY <1>4, <1>5, <1>7, KeptLabelled DEF LocalInv, TakenMT

LEMMA ProgramStepLocal ==
    ASSUME RefInv, LocalInv, ~ SwapEmpty, ~ LocalStores, [ProgramNext]_allVars
    PROVE  LocalInv'
<1>1. CASE UNCHANGED allVars
  <2>1. UNCHANGED <<mem, fld, own, pend, todo, ioVal>>
    BY <1>1 DEF allVars, vars, objVars, threadVars, refVars
  <2>2. PICK lab \in [Objs -> Threads] : Labels(lab)
    BY DEF LocalInv, Labelled
  <2>3. Labels(lab)'
    BY <2>1, <2>2 DEF Labels, EdgeInv, RootInv, Fields, Roots
  <2> QED BY <2>1, <2>3 DEF LocalInv, TakenMT, Labelled
<1>2. ASSUME NEW th \in Threads, RefOp(th) PROVE LocalInv'
  BY <1>2, GetSTLocal, GetTakeLocal, IoRefResetLocal, IoMkRefLocal, IoRefSetLocal, IoRefSwapLocal
     DEF RefOp
<1> QED BY <1>1, <1>2, HeapStepLocal, GetPutBackLocal DEF ProgramNext

LEMMA ProgramInitLocal == RefInit => LocalInv
<1> SUFFICES ASSUME RefInit PROVE LocalInv
  OBVIOUS
<1>1. PICK lab \in [Objs -> Threads] : lab = [o \in Objs |-> Main]
  BY ThreadsAssumption
<1>2. \A o \in Objs : Fields(o) = {}
  BY NullIsNoObj DEF RefInit, Init, Fields
<1>3. \A th \in Threads : Roots(th) = {}
  BY NullIsNoObj DEF RefInit, Init, Roots
<1>4. Labels(lab)
  BY <1>2, <1>3 DEF Labels, EdgeInv, RootInv
<1>5. TakenMT
  BY NullIsNoObj DEF RefInit, TakenMT
<1> QED BY <1>1, <1>4, <1>5 DEF LocalInv, Labelled

LEMMA LocalImplies == LocalInv => MTReachesNoST /\ STObjectsAreLocal
BY LabelsSeal, LabelsSeparate DEF LocalInv, Labelled

(* With any number of threads, objects and references, whatever can be     *)
(* reached from a multi-threaded or persistent object is not               *)
(* single-threaded: mark_mt in mk_task, io_ref_set and io_ref_swap marks   *)
(* everything that becomes visible to other threads.  The programs swap no *)
(* empty single-threaded reference, and put no unmarked object into a      *)
(* multi-threaded array or into the result of a task.                      *)
THEOREM MTSealed == ~ SwapEmpty /\ ~ LocalStores => (ProgramSpec => []MTReachesNoST)
<1> SUFFICES ASSUME ~ SwapEmpty, ~ LocalStores PROVE ProgramSpec => []MTReachesNoST
  OBVIOUS
<1>1. RefInit => RefInv /\ LocalInv
  BY ProgramInit, ProgramInitLocal
<1>2. RefInv /\ LocalInv /\ [ProgramNext]_allVars => RefInv' /\ LocalInv'
  BY ProgramStep, ProgramStutter, ProgramStepLocal
<1>3. LocalInv => MTReachesNoST
  BY LocalImplies
<1> QED BY <1>1, <1>2, <1>3, PTL DEF ProgramSpec

(* In the same programs, no two threads can reach the same single-threaded *)
(* object, so that its counter is updated without synchronisation by one   *)
(* thread only.                                                            *)
THEOREM STLocal == ~ SwapEmpty /\ ~ LocalStores => (ProgramSpec => []STObjectsAreLocal)
<1> SUFFICES ASSUME ~ SwapEmpty, ~ LocalStores PROVE ProgramSpec => []STObjectsAreLocal
  OBVIOUS
<1>1. RefInit => RefInv /\ LocalInv
  BY ProgramInit, ProgramInitLocal
<1>2. RefInv /\ LocalInv /\ [ProgramNext]_allVars => RefInv' /\ LocalInv'
  BY ProgramStep, ProgramStutter, ProgramStepLocal
<1>3. LocalInv => STObjectsAreLocal
  BY LocalImplies
<1> QED BY <1>1, <1>2, <1>3, PTL DEF ProgramSpec

----------------------------------------------------------------------------
(* Leaks.  Data, even when it is updated in place, forms no cycles; what   *)
(* may do so is an IO.Ref, and a task that gets hold of itself through an  *)
(* IO.Ref and returns itself.                                              *)
Anchors ==
    {x \in Objs : mem[x] = "persistent" \/ (kind[x] # "data" /\ Fields(x) # {})}
    \union (UNION {Roots(th) : th \in Threads})
    \union {x \in Objs : \E th \in Threads : x \in {ioVal[th], task[th]}}

(* Every object in the heap can be reached from a thread, a running task,  *)
(* a persistent object, or a reference or task that holds on to something: *)
(* del releases what it deletes down to the last field.                    *)
OnlyCyclesLeak == \A o \in Objs : kind[o] # "free" => o \in Below(Anchors)

LeakInv == RefInv /\ ZeroInv /\ Founded

LEMMA RefOpZero ==
    ASSUME RefInv, ZeroInv, NEW th \in Threads, RefOp(th) \/ GetPutBack(th)
    PROVE  ZeroInv'
<1>1. HeapTypes
  BY DEF RefInv, HeapInv
<1>2. rc = IncAll(rc, Null, Null)
  BY <1>1, IncNothing, NullIsNoObj
<1>3. ASSUME NEW r \in Objs, GetST(th, r) \/ GetTake(th, r) PROVE ZeroInv'
  <2>1. PICK v : rc' = IncAll(rc, v, Null)
    BY <1>3 DEF GetST, GetTake
  <2>2. UNCHANGED <<kind, mem, todo, task>>
    BY <1>3 DEF GetST, GetTake, threadVars
  <2> QED BY <1>1, <2>1, <2>2, ZeroIncStep
<1>4. ASSUME UNCHANGED <<kind, rc, todo, task>>,
             \A x \in Objs : mem'[x] \in {"st", "mt"} => IsHeapObj(x)
      PROVE  ZeroInv'
  BY <1>1, <1>2, <1>4, ZeroMakeStep, NullIsNoObj
<1>5. CASE GetPutBack(th)
  <2>1. UNCHANGED <<kind, mem, rc, todo, task>>
    BY <1>5 DEF GetPutBack
  <2> QED BY <1>4, <2>1 DEF IsHeapObj
<1>6. ASSUME NEW r \in Objs, IoRefReset(th, r) PROVE ZeroInv'
  <2>1. UNCHANGED <<kind, mem, rc, todo, task>>
    BY <1>6 DEF IoRefReset
  <2> QED BY <1>4, <2>1 DEF IsHeapObj
<1>7. ASSUME NEW r \in Objs, NEW a \in Values, IoRefSet(th, r, a) \/ IoRefSwap(th, r, a)
      PROVE  ZeroInv'
  <2>1. UNCHANGED <<kind, rc, todo, task>> /\ mem' = MarkStored(r, a)
    BY <1>7 DEF IoRefSet, IoRefSwap
  <2>2. \A x \in Objs : mem'[x] \in {"st", "mt"} => IsHeapObj(x)
    BY <2>1 DEF MarkStored, MarkMT, Visited, IsHeapObj
  <2> QED BY <1>4, <2>1, <2>2
<1>8. ASSUME NEW r \in Objs, NEW a \in Values, IoMkRef(th, r, a) PROVE ZeroInv'
  <2>1. /\ rc'[r] = 1 /\ \A x \in Objs : x # r => rc'[x] = rc[x] /\ kind'[x] = kind[x]
        /\ UNCHANGED <<mem, todo, task>>
    BY <1>1, <1>8 DEF IoMkRef, HeapTypes
  <2>2. \A x \in Objs : mem'[x] \in {"st", "mt"} => IsHeapObj(x)
    BY <2>1 DEF IsHeapObj
  <2> QED BY <1>1, <1>2, <2>1, <2>2, ZeroMakeStep
<1> QED BY <1>3, <1>5, <1>6, <1>7, <1>8 DEF RefOp

(* Operations on references change no other object.                        *)
LEMMA RefOpChanges ==
    ASSUME RefInv, NEW th \in Threads, RefOp(th) \/ GetPutBack(th)
    PROVE  \A y \in Objs : kind'[y] # "ref" => kind[y] = kind'[y] /\ fld'[y] = fld[y]
<1>1. HeapTypes /\ RefTypes
  BY DEF RefInv, HeapInv
<1>2. CASE GetPutBack(th)
  <2>1. ioRef[th] \in Objs /\ kind[ioRef[th]] = "ref"
    BY <1>1, <1>2 DEF GetPutBack, RefInv, GetInv, RefTypes
  <2> QED BY <1>1, <1>2, <2>1 DEF GetPutBack, HeapTypes
<1>3. CASE RefOp(th)
  <2>1. PICK r \in Objs :
          \/ GetST(th, r) \/ GetTake(th, r) \/ IoRefReset(th, r)
          \/ \E a \in Values : IoMkRef(th, r, a) \/ IoRefSet(th, r, a) \/ IoRefSwap(th, r, a)
    BY <1>3 DEF RefOp
  <2>2. kind'[r] = "ref"
    BY <1>1, <2>1 DEF GetST, GetTake, IoRefReset, IoMkRef, IoRefSet, IoRefSwap, Uses, HeapTypes
  <2>3. \A y \in Objs : y # r => kind'[y] = kind[y] /\ fld'[y] = fld[y]
    BY <1>1, <2>1 DEF GetST, GetTake, IoRefReset, IoMkRef, IoRefSet, IoRefSwap, HeapTypes
  <2> QED BY <2>2, <2>3
<1> QED BY <1>2, <1>3

LEMMA RefOpFounded ==
    ASSUME RefInv, Founded, NEW th \in Threads, RefOp(th) \/ GetPutBack(th)
    PROVE  Founded'
<1>1. \A y \in Objs : kind'[y] = "data" => kind[y] = "data" /\ fld'[y] = fld[y]
  BY RefOpChanges
<1>2. \A y \in Objs : kind'[y] = "data" => kind[y] = "data" /\ Fields(y)' \subseteq Fields(y)
  BY <1>1 DEF Fields
<1> QED BY <1>2, FoundedStays

LEMMA LeakStep ==
    ASSUME LeakInv, ~ SwapEmpty, [ProgramNext]_allVars
    PROVE  LeakInv'
<1>1. RefInv'
  BY ProgramStep, ProgramStutter DEF LeakInv
<1>2. CASE UNCHANGED allVars
  <2>1. UNCHANGED <<kind, mem, rc, fld, todo, task>>
    BY <1>2 DEF allVars, vars, objVars, threadVars
  <2>2. ZeroInv' /\ Founded'
    BY <2>1 DEF LeakInv, ZeroInv, Founded, Unreferenced, Handled, IsHeapObj, Fields
  <2> QED BY <1>1, <2>2 DEF LeakInv
<1>3. CASE ProgramNext
  <2>1. PICK th \in Threads : Step(th) \/ RefOp(th) \/ GetPutBack(th)
    BY <1>3 DEF ProgramNext
  <2>2. HeapInv(Taken) /\ Taken \in [Objs -> Nat]
    BY TakenType DEF LeakInv, RefInv, HeapInv
  <2>3. PICK X \in [Objs -> Nat] : HeapInv(X)
    BY <2>2
  <2>4. ZeroInv'
    BY <2>1, <2>3, ZeroStep, RefOpZero DEF LeakInv
  <2>5. Founded'
    BY <2>1, <2>3, FoundedStep, RefOpFounded DEF LeakInv
  <2> QED BY <1>1, <2>4, <2>5 DEF LeakInv
<1> QED BY <1>2, <1>3

LEMMA LeakInit == RefInit => LeakInv
<1> SUFFICES ASSUME RefInit PROVE LeakInv
  OBVIOUS
<1>1. \A o \in Objs : kind[o] = "free"
  BY DEF RefInit, Init
<1>2. ZeroInv
  BY <1>1 DEF ZeroInv, Unreferenced
<1>3. Founded
  BY <1>1 DEF Founded
<1> QED BY <1>2, <1>3, ProgramInit DEF LeakInv

LEMMA TakenSomewhere ==
    ASSUME RefTypes, NEW o \in Objs, Taken[o] # 0
    PROVE  \E th \in Threads : ioVal[th] = o
<1> SUFFICES ASSUME \A th \in Threads : ioVal[th] # o PROVE Taken[o] = 0
  OBVIOUS
<1>1. \A th \in Threads : 2 * Times(o, ioVal[th], Null) = 0
  BY TimesValue, NullIsNoObj
<1>2. TakenBy(o) = [th \in Threads |-> 0]
  BY <1>1 DEF TakenBy
<1>3. Total(TakenBy(o)) = 0
  BY <1>2, TotalZero, ThreadsAssumption
<1> QED BY <1>3, TakenByType

LEMMA BelowClosed ==
    ASSUME HeapTypes, NEW S \in SUBSET Objs
    PROVE  S \subseteq Below(S) /\ \A y \in Below(S) : Fields(y) \subseteq Below(S)
<1>1. S \subseteq Below(S)
  BY DEF Below
<1>2. ASSUME NEW y \in Below(S), NEW z \in Fields(y) PROVE z \in Below(S)
  <2>1. y \in Objs /\ z \in Objs /\ z \in {fld[y][1], fld[y][2]} \intersect Objs
        /\ mem[y] \in {"st", "mt", "persistent"}
    BY DEF Below, Fields, HeapTypes
  <2>2. ASSUME NEW T \in SUBSET Objs, S \subseteq T, Closed(T, {"st", "mt", "persistent"})
        PROVE  z \in T
    <3>1. y \in T
      BY <2>2 DEF Below
    <3> QED BY <2>1, <2>2, <3>1 DEF Closed
  <2> QED BY <2>1, <2>2 DEF Below
<1> QED BY <1>1, <1>2

LEMMA LeakInvImplies == LeakInv => OnlyCyclesLeak
<1> SUFFICES ASSUME LeakInv PROVE OnlyCyclesLeak
  OBVIOUS
<1>1. /\ RefTypes /\ HeapTypes /\ FreeInv /\ HeapInv(Taken) /\ ZeroInv /\ Founded
      /\ Taken \in [Objs -> Nat]
  BY TakenType DEF LeakInv, RefInv, HeapInv
<1> DEFINE U == {x \in Objs : kind[x] # "free" /\ x \notin Below(Anchors)}
<1>2. PICK A \in SUBSET Objs : A = Anchors
  BY DEF Anchors, Roots
<1>3. A \subseteq Below(A) /\ \A y \in Below(A) : Fields(y) \subseteq Below(A)
  BY <1>1, BelowClosed
<1>4. ASSUME NEW x \in U PROVE \E y \in U : kind[y] = "data" /\ x \in Fields(y)
  <2>1. x \in Objs /\ kind[x] # "free" /\ x \notin Below(A) /\ x \notin A
    BY <1>2, <1>3
  <2>2. /\ mem[x] # "persistent"
        /\ \A th \in Threads : x \notin Roots(th) /\ ioVal[th] # x /\ task[th] # x
    BY <1>2, <2>1 DEF Anchors
  <2>3. \A th \in Threads : ~ (own[th][x] > 0) /\ pend[th] # x /\ x \notin todo[th]
    BY <2>1, <2>2 DEF Roots
  <2>4. ~ Handled(x) /\ ~ Dead(x) /\ IsHeapObj(x)
    BY <1>1, <2>1, <2>2, <2>3 DEF Handled, Dead, IsHeapObj, HeapTypes
  <2>5. rc[x] # 0
    BY <1>1, <2>1, <2>4 DEF ZeroInv, Unreferenced
  <2>6. rc[x] = References(x) + Taken[x]
    BY <1>1, <2>1, <2>4 DEF HeapInv, Counted
  <2>7. Taken[x] = 0
    BY <1>1, <2>1, <2>2, TakenSomewhere
  <2>8. References(x) # 0
    BY <2>5, <2>6, <2>7
  <2>9. PICK y \in Objs : x \in Fields(y)
    BY <1>1, <2>1, <2>3, <2>8, ReferencesSomewhere
  <2>10. y \notin Below(A)
    BY <1>3, <2>1, <2>9
  <2>11. kind[y] # "free"
    BY <1>1, <2>9, NullIsNoObj DEF FreeInv, Fields
  <2>12. kind[y] = "data"
    BY <1>2, <1>3, <2>9, <2>10 DEF Anchors
  <2> QED BY <1>2, <2>9, <2>10, <2>11, <2>12
<1>5. U = {}
  <2> SUFFICES ASSUME NEW x \in U PROVE FALSE
    OBVIOUS
  <2> DEFINE D == {y \in U : kind[y] = "data"}
  <2>1. D \in SUBSET {y \in Objs : kind[y] = "data"} /\ D # {}
    BY <1>4
  <2>2. PICK z \in D : \A y \in D : z \notin Fields(y)
    <3> HIDE DEF D
    <3> QED BY <1>1, <2>1 DEF Founded
  <2> QED BY <1>4, <2>2
<1> QED BY <1>5 DEF OnlyCyclesLeak

(* With any number of threads, objects and references, and any use of      *)
(* array_uset, tasks and IO.Ref, memory is leaked only by cycles through   *)
(* an IO.Ref or through a task that is part of its own result.             *)
THEOREM Leaks == ~ SwapEmpty => (ProgramSpec => []OnlyCyclesLeak)
<1> SUFFICES ASSUME ~ SwapEmpty PROVE ProgramSpec => []OnlyCyclesLeak
  OBVIOUS
<1>1. RefInit => LeakInv
  BY LeakInit
<1>2. LeakInv /\ [ProgramNext]_allVars => LeakInv'
  BY LeakStep
<1>3. LeakInv => OnlyCyclesLeak
  BY LeakInvImplies
<1> QED BY <1>1, <1>2, <1>3, PTL DEF ProgramSpec

----------------------------------------------------------------------------
(* The programs that are model-checked are some of these.                  *)
LEMMA RefStepIsProgramStep == RefNext => ProgramNext
<1> SUFFICES ASSUME RefNext PROVE ProgramNext
  OBVIOUS
<1>1. PICK th \in Threads : HeapOp(th) \/ RefOp(th) \/ GetPutBack(th)
  BY DEF RefNext
<1>2. Box \in Values
  BY DEF Values
<1>3. HeapOp(th) => ioRef[th] = Null /\ Step(th) /\ UNCHANGED refVars
  BY <1>2 DEF HeapOp, Step, Compute
<1> QED BY <1>1, <1>3 DEF ProgramNext

(* In them, only references refer to anything.                             *)
Flat == \A x \in Objs : kind[x] # "ref" => Fields(x) = {}

LEMMA FlatHeapOp ==
    ASSUME RefInv, Flat, NEW th \in Threads, HeapOp(th)
    PROVE  Flat'
<1>1. HeapTypes /\ TaskInv
  BY DEF RefInv, HeapInv
<1>2. Null \notin Objs /\ Box \notin Objs
  BY ObjsAssumption
<1>3. ASSUME NEW o \in Objs, fld'[o][1] \notin Objs, fld'[o][2] \notin Objs,
             \A y \in Objs : y # o => kind'[y] = kind[y] /\ fld'[y] = fld[y]
      PROVE  Flat'
  BY <1>3 DEF Flat, Fields
<1>4. ASSUME fld' = fld, \A y \in Objs : kind'[y] # "ref" => kind[y] # "ref"
      PROVE  Flat'
  BY <1>4 DEF Flat, Fields
<1>5. ASSUME NEW o \in Objs, Alloc(th, o, Box, Box) PROVE Flat'
  <2>1. fld'[o] = <<Box, Box>> /\ \A y \in Objs : y # o => kind'[y] = kind[y] /\ fld'[y] = fld[y]
    BY <1>1, <1>5 DEF Alloc, HeapTypes
  <2> QED BY <1>2, <1>3, <2>1
<1>6. ASSUME NEW o \in Objs, Dec(th, o) \/ Inc(th, o) \/ InitConstant(th, o)
                             \/ ReadConstant(th, o) \/ DecPending(th)
      PROVE  Flat'
  BY <1>4, <1>6 DEF Dec, Inc, InitConstant, ReadConstant, DecPending, objVars
<1>7. ASSUME NEW w \in Threads, NEW o \in Objs, NEW c \in Objs, MkTask(th, w, o, c) PROVE Flat'
  <2>1. fld' = fld /\ kind[o] = "free" /\ kind' = [kind EXCEPT ![o] = "task"]
    BY <1>7 DEF MkTask
  <2> QED BY <1>1, <1>4, <2>1 DEF HeapTypes
<1>8. CASE FinishTask(th, Box)
  <2>1. PICK o \in Objs : o = task[th] /\ kind[o] = "task"
    BY <1>1, <1>8 DEF FinishTask, Running, TaskInv, HeapTypes
  <2>2. CASE IsDeleted(o)
    <3>1. fld' = fld /\ kind' = [kind EXCEPT ![o] = "free"]
      BY <1>8, <2>1, <2>2 DEF FinishTask
    <3> QED BY <1>1, <1>4, <2>1, <3>1 DEF HeapTypes
  <2>3. CASE ~ IsDeleted(o)
    <3>1. fld' = [fld EXCEPT ![o][1] = Box] /\ kind' = kind
      BY <1>8, <2>1, <2>3 DEF FinishTask
    <3>2. fld'[o][1] = Box /\ fld'[o][2] = fld[o][2] /\ \A y \in Objs : y # o => fld'[y] = fld[y]
      BY <1>1, <3>1 DEF HeapTypes
    <3>3. fld[o][2] \notin Objs
      BY <2>1 DEF Flat, Fields
    <3> QED BY <1>2, <1>3, <3>1, <3>2, <3>3
  <2> QED BY <2>2, <2>3
<1>9. ASSUME NEW o \in Objs, DelCore(th, o) PROVE Flat'
  <2>1. CASE \E w \in Threads : task[w] = o
    <3>1. fld' = fld /\ kind' = kind
      BY <1>9, <2>1 DEF DelCore, objVars
    <3> QED BY <1>4, <3>1
  <2>2. CASE ~ \E w \in Threads : task[w] = o
    <3>1. kind' = [kind EXCEPT ![o] = "free"] /\ fld' = [fld EXCEPT ![o] = <<Null, Null>>]
      BY <1>9, <2>2 DEF DelCore
    <3>2. fld'[o] = <<Null, Null>> /\ \A y \in Objs : y # o => kind'[y] = kind[y] /\ fld'[y] = fld[y]
      BY <1>1, <3>1 DEF HeapTypes
    <3> QED BY <1>2, <1>3, <3>2
  <2> QED BY <2>1, <2>2
<1>10. CASE DecPending(th)
  BY <1>4, <1>10 DEF DecPending
<1> QED BY <1>5, <1>6, <1>7, <1>8, <1>9, <1>10 DEF HeapOp

LEMMA FlatStep ==
    ASSUME RefInv, Flat, [RefNext]_allVars
    PROVE  Flat'
<1>1. CASE UNCHANGED allVars
  BY <1>1 DEF Flat, Fields, allVars, vars, objVars
<1>2. ASSUME NEW th \in Threads, RefOp(th) \/ GetPutBack(th) PROVE Flat'
  BY <1>2, RefOpChanges DEF Flat, Fields
<1> QED BY <1>1, <1>2, FlatHeapOp DEF RefNext

LEMMA FlatImplies ==
    ASSUME OnlyCyclesLeak, Flat
    PROVE  NothingLeaks
<1>1. PICK S : S = {x \in Objs : mem[x] = "persistent" \/ kind[x] = "ref"}
                   \union (UNION {Roots(th) : th \in Threads})
                   \union {x \in Objs : \E th \in Threads : x \in {ioVal[th], task[th]}}
  OBVIOUS
<1>2. Anchors \subseteq S
  BY <1>1 DEF Anchors, Flat
<1>3. Below(Anchors) \subseteq Below(S)
  BY <1>2 DEF Below
<1>4. \A o \in Objs : kind[o] # "free" => o \in Below(S)
  BY <1>3 DEF OnlyCyclesLeak
<1> QED BY <1>1, <1>4 DEF NothingLeaks

(* In the programs of the run, whose data holds boxed scalars and whose    *)
(* tasks return them, every object that no IO.Ref keeps can be reached     *)
(* from a thread, a task or a persistent object, with any number of        *)
(* threads, objects and references: dec and del leave nothing behind.      *)
THEOREM NoLeaks == ~ SwapEmpty => (RefSpec => []NothingLeaks)
<1> SUFFICES ASSUME ~ SwapEmpty PROVE RefSpec => []NothingLeaks
  OBVIOUS
<1>1. RefInit => LeakInv /\ Flat
  <2>1. RefInit => Flat
    BY NullIsNoObj DEF RefInit, Init, Flat, Fields
  <2> QED BY <2>1, LeakInit
<1>2. LeakInv /\ Flat /\ [RefNext]_allVars => LeakInv' /\ Flat'
  <2>1. [RefNext]_allVars => [ProgramNext]_allVars
    BY RefStepIsProgramStep
  <2>2. LeakInv => RefInv
    BY DEF LeakInv
  <2> QED BY <2>1, <2>2, LeakStep, FlatStep
<1>3. LeakInv /\ Flat => NothingLeaks
  BY LeakInvImplies, FlatImplies
<1> QED BY <1>1, <1>2, <1>3, PTL DEF RefSpec
=============================================================================
