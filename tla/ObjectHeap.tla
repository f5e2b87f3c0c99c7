----------------------------- MODULE ObjectHeap -----------------------------
(***************************************************************************)
(* The objects of the Lean 4 runtime and their reference counts            *)
(* (runtime/object.h, runtime/object.cpp).                                 *)
(*                                                                         *)
(* Compiled code owns references, which it duplicates with inc, gives up   *)
(* with dec and stores in objects.  An object starts in the single-        *)
(* threaded heap, where its count is updated without synchronisation, and  *)
(* is moved by mark_mt to the multi-threaded heap before another thread    *)
(* may see it.  Arrays are updated in place when nobody else can see them. *)
(*                                                                         *)
(* Constructors, closures and arrays all are objects with two fields.      *)
(* Tasks are here only a way to give objects to another thread; their      *)
(* queues are modelled in TaskManager.                                     *)
(***************************************************************************)
EXTENDS Integers, FiniteSets, Functions, Sums

CONSTANTS
    Threads,
    Main,          \* the thread that initialises the program
    Objs,          \* the addresses of objects
    Null,          \* the null pointer
    Box,           \* a boxed scalar
    MaxRefs,       \* bound: references a thread owns at the same time
    LocalStores    \* compiled code may let tasks return single-threaded
                   \* objects, or store them in multi-threaded arrays

ASSUME ThreadsAssumption == Main \in Threads /\ IsFiniteSet(Threads)
ASSUME ObjsAssumption ==
    /\ IsFiniteSet(Objs) /\ Null \notin Objs /\ Box \notin Objs /\ Null # Box
    /\ MaxRefs \in Nat
    /\ LocalStores \in BOOLEAN

VARIABLES
    kind,   \* per address: "free", "data" or "task" (more in other modules)
    mem,    \* per object: m_mem_kind
    rc,     \* per object: the reference counter
    fld,    \* per object: its two fields; the first one of a task is m_value
    own,    \* per thread and object: references the thread's code owns
    pend,   \* per thread: the object it is about to dec
    todo,   \* per thread: the objects del has still to delete
    task    \* per thread: the task it runs

objVars    == <<kind, mem, rc, fld>>
threadVars == <<own, pend, todo, task>>
vars == <<objVars, threadVars>>

Values == Objs \union {Box}

Init ==
    /\ kind = [o \in Objs |-> "free"]
    /\ mem = [o \in Objs |-> "st"]
    /\ rc = [o \in Objs |-> 0]
    /\ fld = [o \in Objs |-> <<Null, Null>>]
    /\ own = [th \in Threads |-> [o \in Objs |-> 0]]
    /\ pend = [th \in Threads |-> Null]
    /\ todo = [th \in Threads |-> {}]
    /\ task = [th \in Threads |-> Null]

----------------------------------------------------------------------------
IsST(v)      == v \in Objs /\ mem[v] = "st"
IsHeapObj(o) == mem[o] \in {"st", "mt"}
IsShared(o)  == rc[o] > 1

(* Faulty variant: persistent objects have a count, too.                   *)
IsExclusiveByCount(o) == ~IsShared(o)
IsExclusive(o) == IsHeapObj(o) /\ ~IsShared(o)

(* How often o is among the values a and b.                                *)
Times(o, a, b) == Cardinality({i \in {1, 2} : <<a, b>>[i] = o})

(* The counts after inc of the values a and b, or dec of them.             *)
IncAll(count, a, b) ==
    [o \in Objs |-> IF IsHeapObj(o) THEN count[o] + Times(o, a, b) ELSE count[o]]
DecAll(count, a, b) ==
    [o \in Objs |-> IF IsHeapObj(o) THEN count[o] - Times(o, a, b) ELSE count[o]]

(* The objects whose count gets zero by dec of the values a and b.         *)
Zeroed(a, b) ==
    {o \in Objs : IsHeapObj(o) /\ Times(o, a, b) > 0 /\ rc[o] = Times(o, a, b)}

(* References of thread th come and go.                                    *)
Owns(th, a, b) == \A o \in Objs : own[th][o] >= Times(o, a, b)
Gain(mine, a)  == [o \in Objs |-> mine[o] + Times(o, a, Null)]
Lose(mine, a, b) == [o \in Objs |-> mine[o] - Times(o, a, b)]
SetOwn(th, mine) ==
    /\ SumFunction(mine) <= MaxRefs
    /\ own' = [own EXCEPT ![th] = mine]

(* Thread th executes compiled code.                                       *)
Running(th) ==
    /\ pend[th] = Null /\ todo[th] = {}
    /\ th = Main \/ task[th] # Null

----------------------------------------------------------------------------
(* alloc_cnstr and cnstr_set of every field, alloc_closure and             *)
(* closure_set, mk_array: the new object takes over the references.        *)
Alloc(th, o, a, b) ==
    /\ Running(th) /\ kind[o] = "free" /\ Owns(th, a, b)
    /\ kind' = [kind EXCEPT ![o] = "data"]
    /\ rc' = [rc EXCEPT ![o] = 1]
    /\ fld' = [fld EXCEPT ![o] = <<a, b>>]
    /\ SetOwn(th, Gain(Lose(own[th], a, b), o))
    /\ UNCHANGED <<mem, pend, todo, task>>

Inc(th, o) ==
    /\ Running(th) /\ own[th][o] > 0
    /\ rc' = IncAll(rc, o, Null)
    /\ SetOwn(th, Gain(own[th], o))
    /\ UNCHANGED <<kind, mem, fld, pend, todo, task>>

Dec(th, o) ==
    /\ Running(th) /\ own[th][o] > 0
    /\ rc' = DecAll(rc, o, Null)
    /\ todo' = [todo EXCEPT ![th] = Zeroed(o, Null)]
    /\ SetOwn(th, Lose(own[th], o, Null))
    /\ UNCHANGED <<kind, mem, fld, pend, task>>

(* The dec that ends a primitive.                                          *)
DecPending(th) ==
    /\ pend[th] # Null
    /\ rc' = DecAll(rc, pend[th], Null)
    /\ todo' = [todo EXCEPT ![th] = Zeroed(pend[th], Null)]
    /\ pend' = [pend EXCEPT ![th] = Null]
    /\ UNCHANGED <<kind, mem, fld, own, task>>

(* Faulty variant: the objects in the fields keep their counts.            *)
DelCoreShallow(th, o) ==
    /\ o \in todo[th] /\ kind[o] # "task"
    /\ kind' = [kind EXCEPT ![o] = "free"]
    /\ mem' = [mem EXCEPT ![o] = "st"]
    /\ fld' = [fld EXCEPT ![o] = <<Null, Null>>]
    /\ todo' = [todo EXCEPT ![th] = @ \ {o}]
    /\ UNCHANGED <<rc, own, pend, task>>

(* One turn of the loop of del: the fields are released and the memory is  *)
(* freed.  The memory of the counters links the objects to delete; the     *)
(* model takes them in any order.  A task that is still running is only    *)
(* marked as deleted: its count stays zero.                                *)
DelCore(th, o) ==
    LET a == fld[o][1]
        b == fld[o][2]
        deactivated == \E w \in Threads : task[w] = o
    IN  /\ o \in todo[th]
        /\ IF deactivated
           THEN /\ todo' = [todo EXCEPT ![th] = @ \ {o}]
                /\ UNCHANGED objVars
           ELSE /\ rc' = DecAll(rc, a, b)
                /\ todo' = [todo EXCEPT ![th] = (@ \ {o}) \union Zeroed(a, b)]
                /\ kind' = [kind EXCEPT ![o] = "free"]
                /\ mem' = [mem EXCEPT ![o] = "st"]
                /\ fld' = [fld EXCEPT ![o] = <<Null, Null>>]
        /\ UNCHANGED <<own, pend, task>>

(* cnstr_get, array_uget, or task_get of a finished task, and inc.         *)
Proj(th, o, i) ==
    /\ Running(th) /\ own[th][o] > 0 /\ fld[o][i] \in Objs
    /\ rc' = IncAll(rc, fld[o][i], Null)
    /\ SetOwn(th, Gain(own[th], fld[o][i]))
    /\ UNCHANGED <<kind, mem, fld, pend, todo, task>>

----------------------------------------------------------------------------
(* array_uset of an exclusive array: the old element is released.          *)
ArraySetInPlace(th, o, i, v) ==
    /\ Running(th) /\ kind[o] = "data" /\ o # v
    /\ Owns(th, o, v) /\ IsExclusive(o)
    /\ LocalStores \/ mem[o] = "st" \/ ~IsST(v)
    /\ fld' = [fld EXCEPT ![o][i] = v]
    /\ rc' = DecAll(rc, fld[o][i], Null)
    /\ todo' = [todo EXCEPT ![th] = Zeroed(fld[o][i], Null)]
    /\ SetOwn(th, Lose(own[th], v, Null))
    /\ UNCHANGED <<kind, mem, pend, task>>

(* array_uset of a shared array: copy_array makes n, whose elements get a  *)
(* reference, and releases o; the new element takes its place.             *)
ArraySetCopy(th, o, i, v, n) ==
    LET j == 3 - i IN
    /\ Running(th) /\ kind[o] = "data" /\ kind[n] = "free"
    /\ Owns(th, o, v) /\ ~IsExclusive(o)
    /\ kind' = [kind EXCEPT ![n] = "data"]
    /\ fld' = [fld EXCEPT ![n] = [fld[o] EXCEPT ![i] = v]]
    /\ rc' = [IncAll(rc, fld[o][j], Null) EXCEPT ![n] = 1]
    /\ pend' = [pend EXCEPT ![th] = o]
    /\ SetOwn(th, Gain(Lose(own[th], o, v), n))
    /\ UNCHANGED <<mem, todo, task>>

----------------------------------------------------------------------------
(* What the objects in S refer to, those in memory of the kinds M, is in S. *)
Closed(S, M) ==
    \A y \in S : mem[y] \in M => {fld[y][1], fld[y][2]} \intersect Objs \subseteq S

(* The objects that a marking visits from o, through objects in memory of  *)
(* one of the kinds M.                                                     *)
Visited(o, M) ==
    {x \in Objs : /\ mem[x] \in M
                  /\ \A S \in SUBSET Objs :
                        {o} \intersect Objs \subseteq S /\ Closed(S, M) => x \in S}

(* Faulty variant: what the object refers to is not marked.                *)
MarkMTShallow(o) == [x \in Objs |-> IF x = o /\ mem[x] = "st" THEN "mt" ELSE mem[x]]

(* mem after mark_mt(o), which stops at objects that are not single-       *)
(* threaded, and after mark_persistent(o).                                 *)
MarkMT(o) == [x \in Objs |-> IF x \in Visited(o, {"st"}) THEN "mt" ELSE mem[x]]
MarkPersistent(o) ==
    [x \in Objs |-> IF x \in Visited(o, {"st", "mt"}) THEN "persistent" ELSE mem[x]]

(* A constant of the program is marked when the program is initialised.    *)
InitConstant(th, o) ==
    /\ th = Main /\ Running(th) /\ own[th][o] > 0
    /\ \A x \in Objs : kind[x] # "task"
    /\ mem' = MarkPersistent(o)
    /\ UNCHANGED <<kind, rc, fld, threadVars>>

(* Compiled code of any thread reads a constant.                           *)
ReadConstant(th, o) ==
    /\ Running(th) /\ mem[o] = "persistent"
    /\ SetOwn(th, Gain(own[th], o))
    /\ UNCHANGED <<objVars, pend, todo, task>>

(* Faulty variant: the closure is not marked.                              *)
MkTaskUnmarked(th, w, o, c) ==
    /\ Running(th) /\ kind[o] = "free" /\ c \in Objs /\ own[th][c] > 0
    /\ w # Main /\ task[w] = Null /\ pend[w] = Null /\ todo[w] = {}
    /\ kind' = [kind EXCEPT ![o] = "task"]
    /\ rc' = [rc EXCEPT ![o] = 1]
    /\ mem' = [mem EXCEPT ![o] = "mt"]
    /\ task' = [task EXCEPT ![w] = o]
    /\ own' = [own EXCEPT ![th] = Gain(Lose(own[th], c, Null), o), ![w] = Gain(own[w], c)]
    /\ UNCHANGED <<fld, pend, todo>>

(* mk_task(c), run by the worker w: the closure is marked and handed over. *)
MkTask(th, w, o, c) ==
    /\ Running(th) /\ kind[o] = "free" /\ c \in Objs /\ own[th][c] > 0
    /\ w # Main /\ task[w] = Null /\ pend[w] = Null /\ todo[w] = {}
    /\ kind' = [kind EXCEPT ![o] = "task"]
    /\ rc' = [rc EXCEPT ![o] = 1]
    /\ mem' = [MarkMT(c) EXCEPT ![o] = "mt"]
    /\ task' = [task EXCEPT ![w] = o]
    /\ own' = [own EXCEPT ![th] = Gain(Lose(own[th], c, Null), o), ![w] = Gain(own[w], c)]
    /\ UNCHANGED <<fld, pend, todo>>

(* m_deleted of a running task: its last reference is gone, and del is     *)
(* done with it.                                                           *)
IsDeleted(o) == rc[o] = 0 /\ \A th \in Threads : o \notin todo[th]

(* The worker's code has returned v, the only reference it has left.       *)
FinishTask(w, v) ==
    LET o == task[w] IN
    /\ Running(w) /\ w # Main
    /\ own[w] = [x \in Objs |-> Times(x, v, Null)]
    /\ LocalStores \/ ~IsST(v)
    /\ IF IsDeleted(o)
       THEN /\ pend' = [pend EXCEPT ![w] = IF v \in Objs THEN v ELSE Null]
            /\ kind' = [kind EXCEPT ![o] = "free"]
            /\ mem' = [mem EXCEPT ![o] = "st"]
            /\ UNCHANGED fld
       ELSE /\ fld' = [fld EXCEPT ![o][1] = v]
            /\ UNCHANGED <<pend, kind, mem>>
    /\ own' = [own EXCEPT ![w] = [x \in Objs |-> 0]]
    /\ task' = [task EXCEPT ![w] = Null]
    /\ UNCHANGED <<rc, todo>>

----------------------------------------------------------------------------
Compute(th) ==
    \/ \E o \in Objs, a, b \in Values : Alloc(th, o, a, b)
    \/ \E o \in Objs : Inc(th, o) \/ Dec(th, o) \/ InitConstant(th, o) \/ ReadConstant(th, o)
    \/ \E o \in Objs, i \in {1, 2} : Proj(th, o, i)
    \/ \E o \in Objs, i \in {1, 2}, v \in Values : ArraySetInPlace(th, o, i, v)
    \/ \E o, n \in Objs, i \in {1, 2}, v \in Values : ArraySetCopy(th, o, i, v, n)

Step(th) ==
    \/ Compute(th)
    \/ DecPending(th)
    \/ \E o \in Objs : DelCore(th, o)
    \/ \E w \in Threads, o, c \in Objs : MkTask(th, w, o, c)
    \/ \E v \in Values : FinishTask(th, v)

Next == \E th \in Threads : Step(th)

Spec == Init /\ [][Next]_vars

----------------------------------------------------------------------------
(* Every variable has its type, and no reference counter gets negative.    *)
TypeOK ==
    /\ kind \in [Objs -> {"free", "data", "task"}]
    /\ mem \in [Objs -> {"st", "mt", "persistent"}]
    /\ rc \in [Objs -> Nat]
    /\ fld \in [Objs -> (Values \union {Null}) \X (Values \union {Null})]
    /\ own \in [Threads -> [Objs -> Nat]]
    /\ pend \in [Threads -> Objs \union {Null}]
    /\ todo \in [Threads -> SUBSET Objs]
    /\ task \in [Threads -> Objs \union {Null}]

(* The references to o that exist: those threads own or are about to       *)
(* release, and those in the fields of objects.                            *)
References(o) ==
    Total([th \in Threads |-> own[th][o] + Times(o, pend[th], Null)])
    + Total([x \in Objs |-> Times(o, fld[x][1], fld[x][2])])

(* The objects in S and those that can be reached from them.               *)
Below(S) ==
    {x \in Objs : \A T \in SUBSET Objs :
        S \subseteq T /\ Closed(T, {"st", "mt", "persistent"}) => x \in T}

Roots(th) == {o \in Objs : own[th][o] > 0 \/ pend[th] = o \/ o \in todo[th]}

(* "All objects reachable from an object in the MTHeap are in MTHeap,      *)
(* Persistent or Region", and the same for persistent objects: whoever     *)
(* reads a field of a shared object gets one whose counter is updated      *)
(* atomically.                                                             *)
MTReachesNoST ==
    \A o \in Objs : kind[o] # "free" /\ mem[o] # "st" =>
        \A x \in Below({o}) : mem[x] # "st"

(* The counter of a single-threaded object is updated without              *)
(* synchronisation: only one thread can reach such an object.              *)
STObjectsAreLocal ==
    \A s, t \in Threads : s # t =>
        \A o \in Below(Roots(s)) \intersect Below(Roots(t)) : mem[o] # "st"

(* An array that changes in place is seen by the thread that changes it    *)
(* and by nobody else: a holder of a value never sees it change.           *)
UpdatesAreUnseen ==
    [][\A o \in Objs :
          kind[o] = "data" /\ kind'[o] = "data" /\ fld'[o] # fld[o]
          => References(o) = 1 /\ mem[o] # "persistent"]_vars
=============================================================================
