# TLA+ models of Lean 4

This directory holds TLA+ models of the C++ runtime that every compiled Lean 4
program runs on (`src/src/runtime`), of the lock and the trees of `util`, of
three algorithms the kernel is built on and of one pass of the compiler, the TLC
instances that check them and TLAPS proofs about them. The runtime is where the
concurrency, the hand-made memory management and the shutdown order of the
system are; the kernel and the compiler are sequential, and what can be wrong
there is an algorithm on terms. Paths below are relative to `src/src/`, those
of `.lean` files to `src/library/init/lean/compiler/ir/`.

Files: `X.tla` is the model of a component, `MCX.tla` its instance for TLC,
`MCX_run.cfg` the constants and properties of a run, `XProofs.tla` theorems.
`PROJECT.json` lists components, runs, the lines each definition stands for,
the deviations found, the hazards and the theorems.

    tlc -workers 2 -config MCTaskManager_safety.cfg MCTaskManager
    tlapm TaskManagerProofs.tla
    tlapm IORefProofs.tla

`tlapm` checks the proofs of the named module and takes the lemmas of the
modules it extends as proved there; `ObjectHeapProofs` and `TaskManagerProofs`
take some minutes.

## 1. Inventory

| component | state | operations | interacts with |
|---|---|---|---|
| task manager (`runtime/object.cpp` 589-1068) | one deque of tasks per priority, reverse dependency lists, per task closure / value / flags, the workers, one mutex, two condition variables | `mk_task`, `task_pure`, `task_map`, `task_bind`, `task_get`, `io_wait_any`, `io_request_interrupt`, drop of the last reference (`deactivate_task`), the worker loop, the destructor | runs closures; holds uncounted pointers to tasks whose counts live in the object heap |
| object heap (`object.h`, `object.cpp` 92-330, 857-923, 1070-1134) | per object a counter and a memory kind (single-threaded, multi-threaded, persistent, ...) | `inc`, `dec`, `del`, allocation, projections, in-place or copying updates, `mark_mt`, `mark_persistent` | used by everything; frees into the allocator; `del` of a task calls the task manager |
| thunks (`object.h` 477-490, 728-751, `object.cpp` 533-587, `apply.cpp`) | closure and value, both atomic | `mk_thunk`, `thunk_pure`, `thunk_get`, `thunk_map`, `thunk_bind` | evaluated by whoever forces them; shared between threads once marked |
| `IO.Ref` (`io.cpp` 144-248) | one value, possibly null | make, get, set, reset, swap | the only mutable objects; persistent ones are shared by all threads |
| small-object allocator (`alloc.cpp`) | per thread a heap: current page, free page list, segments, export and import lists; global list of orphan heaps | `alloc`, `dealloc`, export, import, thread start and end, adoption of segments | `alloc_heap_object`, `free_heap_obj`; thread finalizers |
| persistent arrays (`object.cpp` 333-510) | a root with the data, and differences | get, set, push, pop, copy, reroot | object heap; may not be marked multi-threaded |
| read-write lock (`util/shared_mutex.cpp`) | owner, recursion count, state word, two gates | lock, try, unlock, shared or not | option declarations |
| red-black trees (`util/rb_tree.h`) | nodes with counters, shared between copies | insert, erase, erase_min, copy, searches, walks | `rb_map`, `name_set`: contexts, environments |
| universe levels (`kernel/level.cpp`) | pure | constructors, `normalize`, `is_equivalent`, `is_geq`, `instantiate` | the type checker compares sorts |
| bound variables (`kernel/expr.cpp`, `instantiate.cpp`, `abstract.cpp`, `replace_fn.cpp`) | pure | lift, lower, `instantiate`, `abstract`, beta | everything that goes under a binder |
| known equalities (`kernel/equiv_manager.cpp`) | a union-find forest and the node of each expression | `is_equiv`, `add_equiv` | the type checker asks it first |
| memory reuse (`resetreuse.lean`, `livevars.lean`) | pure | `insertResetReuse` | emits `reset`/`reuse`, whose run-time part is the object heap's |
| thread support (`thread.cpp`) | finalizers per thread | register, run | allocator, workers |
| arithmetic, strings, compaction, serialization, interruption (`object.h`, `mpz.cpp`, `utf8.cpp`, `compact.cpp`, `serializer.cpp`, `interrupt.cpp`) | - | pure or stream operations | object heap |
| rest of kernel, library and compiler; frontend, shell, standard library | terms, environments, contexts | - | use the runtime as a library |

Hard behaviours, with the lines where they bite, are listed under `hazards` in
`PROJECT.json`. In short: pointers that are not counted next to references
that are; work done after an unlock on the assumption that nobody else can see
the object; condition variables shared by unrelated waiters; a destructor that
runs while task bodies do; counters that are atomic or not depending on a mark
that must have been set before; null as both "empty" and "busy"; and memory
whose owner changes while others hold pieces of it.

What makes each component correct: the task manager runs every task that is
still wanted once, after its source, and frees every one exactly once, and
whoever waits returns; the heap's counters equal the references that exist and
an unsynchronised counter is seen by one thread; a thunk is evaluated once and
everyone gets its value; a reference neither loses nor duplicates an owned
value; the allocator never loses an object, hands it out twice or lets two
threads write a page header; the lock excludes and forgets no sleeper; a tree
is the map its operations describe and never changes a copy; a comparison of
levels never takes the smaller universe for the bigger; substitution captures
nothing; the known equalities are those that follow from what was added; and a
variable whose memory is reused is not used any more.

## 2. Modules

### TaskManager, TaskBind

`TaskManager` is `class task_manager` and the task primitives. A variable per
field of a task (`status` stands for which of `m_imp` and `m_value` is set),
the queues, `m_max_prio`, `m_queues_size`, and per thread its program counter
and its local task pointers. A critical section of `m_mutex` is one action
enabled while `mutex` is free; `handle_finished` walks a list with the mutex
held and is one action per element; everything the code does without the lock
(the first check of `task_get`, `dec_ref`, the walk of `deactivate_task` over
dead dependents, running a closure) is an action of its own. Condition
variables are sets of threads at `sleep` or `wait`; `notify_one` picks any,
wakeups may be spurious. Reference counts are not stored: a task is referenced
by the threads (`handles`, `junk`) and closures (`caps`) that hold it, and the
last one to drop it enters `deactivate_task`.

`TaskBind` adds `task_bind`: the current task of a worker becomes a dependent
of the task its function returned, and is run a second time.

`TaskSpec` is what tasks promise to a program, without queues, workers, locks
or counts: a task waits, runs once, when the values it needs are there, has a
value from then on while somebody needs it, and is cancelled otherwise. The
refinement mapping is `StateOf` and `Abstract` in `TaskManager`: a task that is
marked `m_deleted` is cancelled even though its object may still be in a queue
or a list, and a running task is one whose closure has been taken.

Left out: values that hold task references, thunks in place of tasks (used
only when there is no task manager), exceptions, heartbeats.

### ObjectHeap

Every address has a kind, a memory kind, a counter and two fields; a thread has
the multiset of references its compiled code owns, the object it is about to
`dec` and the objects `del` has still to delete. Compiled code is any sequence
of allocations, `inc`, `dec`, projections, array updates, reads of constants,
`mk_task`, within `MaxRefs` owned references. One turn of the loop of `del` is
one action, so two threads delete concurrently. `mark_mt` and
`mark_persistent` mark the objects their recursion visits, which are those in
every set that has the object and, with each single-threaded (or not persistent)
member, what this one refers to (`Closed`, `Visited`). A running task whose last
reference is gone is in the `todo` list of a thread until `deactivate_task` has
set `m_deleted`, and `IsDeleted` afterwards. References are counted as pairs of a
holder and a number (`Total` in `Sums`), so that the proofs can use cardinalities.

### IORef, Thunk

Both extend `ObjectHeap`, which stays the owner of counters and marks, and add
program counters for the primitives that take several steps. `io_ref_get` of a
shared reference is two exchanges with other threads in between. `Thunk`
follows `thunk_get_core`: the exchange of `m_closure`, the code of the closure,
the release of the closure at the end of `apply_1`, the store of `m_value`, and
the waiting loop of the threads that came second. The closures of `thunk_map`
and `thunk_bind` are object kinds of their own. A closure forces only thunks
that have their value: evaluation inside an evaluation is left out. To bound the
state space each module is checked with a part of the heap operations (`HeapOp`);
the proofs are about `ProgramSpec`, which has all of those of `ObjectHeap` and
all of `IORef`.

### Allocator

Objects of one page are interchangeable: a page has a number of free and live
objects, and object lists are bags of pages. Page lists keep the `next` and
`prev` pointers the code keeps, stale ones included. One size class. The
sections under the mutexes of heaps and of the heap manager are atomic; the
move of a segment's pages to its adopter is one action per page, because other
threads read the owner of a page without a lock.

### SharedMutex, RWLock

`SharedMutex` is `class shared_mutex`. `m_mutex` protects all of it, so an
action is a stretch of code between two points where it is released: the
beginning of a call, one turn of a loop around a wait. The threads asleep at the
two condition variables are sets; `notify_one` removes any of them, and a wait
may end without notification. `m_state` is kept as its two parts. The calls are
those of the lock objects, released in reverse order; a thread that has the lock
in shared mode does not ask again, because it would wait for itself. `RWLock` is
the abstract lock: readers, one entered writer that keeps new readers out, one
owner who may nest. The mapping takes the entered writer to be the thread in the
second loop of `lock`.

### RBTree, Level, Terms, EquivManager, ResetReuse

Sequential algorithms as operators with the names of the source, each with a
small state machine that builds its inputs with the program's own constructors
and each compared with a definition that does not share its method:

- `RBTree`: all sequences of `insert`, `erase`, `erase_min` and copies on one
  tree, against the set of values they leave. A reference counter is a mark
  "shared", set by a copy; `ensure_unshared` clears it and passes it on.
- `Level`: `normalize`, `is_norm_lt`, `is_geq`, `is_equivalent`, `mk_max`,
  `mk_imax`, `instantiate`, against the universe that a level denotes under
  every assignment. `is_eqp` in `normalize` is the operator `Unchanged`.
- `Terms`: `replace` takes the function as an operator, as in the code;
  `instantiate`, `instantiate_rev` with their shortcuts, `abstract`,
  `apply_beta`, `head_beta_reduce`, `cheap_beta_reduce`, against simultaneous
  substitution in the style of de Bruijn.
- `EquivManager`: the forest with ranks; `is_equiv_core` returns the new forest
  next to its answer and reads the roots before its recursive calls, as the code
  does. The reference are all interpretations of the expressions that respect
  compounds.
- `ResetReuse`: `S`, `D`, `Dmain`, `R` and `hasLiveVar` on function bodies with
  one join point; `split` and `isTerminal` become the case distinction. What it
  produces is judged by a walk over all paths.

## 3. Runs

| run | asks | instance |
|---|---|---|
| `task_safety` | queue bookkeeping, no dangling uncounted pointer, every unfinished task in exactly one place, no null closure, dependents of the dead are dead, interruption reaches dependents, clean shutdown; `TaskManager` implements `TaskSpec` | 1 client, 2 workers, 3 tasks, priorities 0 and 2 with `MaxPrio` 1 (so clamping happens), 2 bodies may block |
| `task_live` | gets return, wanted tasks finish, the destructor returns | 2 clients, 2 workers of which one may be blocked; either 2 tasks whose bodies make every call, or 3 tasks whose bodies make none |
| `bind_kept` | the same safety for `task_bind` | 2 workers, 3 tasks, the program keeps bind tasks |
| `bind_race` | *violated*: a worker finds `m_imp` after running a closure | 2 workers |
| `heap_counts` | counters exact, nothing dangles or leaks, no single-threaded object behind a multi-threaded one or seen by two threads, in-place updates unseen; the same around the exchanges of `IO.Ref` | 2 threads, 3 objects of which one may be a reference, 2 owned references each |
| `heap_result` | *violated*: a counter that is not atomic is seen by one thread, when tasks return fresh objects | as before without `IO.Ref`, `LocalStores` |
| `thunk_counts` | one evaluator, waiters have one and end, counters exact | 2 threads, 3 objects |
| `thunk_map` | *violated*: nothing refers to an object that is being freed, when `thunk_map` is used | 4 objects |
| `alloc_lists` | no object lost or doubled, page lists well formed, one owner per segment | 2 threads of which one ends, 2 segments of 3 pages of 2 objects, export after 2 |
| `alloc_adopt` | *violated*: `lean_assert(prev)` in `page_list_remove` | 3 threads, one starts after another has ended |
| `rwlock` | the state word, owner and counter match the holders; `SharedMutex` implements `RWLock`, liveness of the entered writer included; sleepers wake | 4 threads, at most 3 readers, 2 nested locks |
| `algorithms` | trees, levels, terms, known equalities and memory reuse against their reference definitions | 6 keys with 2 data; levels of depth 3 over 2 parameters, universes to 2; terms of 6 constructors, 2 free variables, indices to 2; 6 expressions, 3 calls; bodies of 6 instructions, 2 parameters, 3 constructors |

Why the bounds are enough: three tasks give a source, a dependent and a third
that captures or waits for either; two workers give every race between two
critical sections, and one more client adds only callers that a task body
already is. Three objects give a container, a content and a task or a closure;
two owned references are what it takes to share and to update. The allocator's
instance has pages that fill, empty, are recycled, exported, imported and
adopted while exports are under way; `MaxCut` pages can be cut out of a segment
or behind its end, one more than fit, so that the code's lack of a check is seen.
Four threads are a writer, one that
overtakes it and two readers, and with three readers the limit is reached. Six
keys give trees of black height two, in which every rotation and both moves of
`erase` happen (each of them is needed for `TreeIsBalancedMap`). Levels of depth
three nest `imax` in `max` and the other way round; terms of six constructors
put a substituted variable under two binders. The three subjects with several
inputs at once (two levels, a term and a substitution, two expressions) take one
input from all built ones and the other from a fixed small set. Symmetry is used
for objects, threads other than the main one, segments, tasks and the parameters
of function bodies, only in runs without liveness properties.

`algorithms` picks one subject per behaviour and leaves the others idle: it is
five instances in one run.

Deadlock is checked except where a program may end or exhaust its addresses
(`task_*`, `bind_*`: the program may make no further call; `heap_counts`: a
cycle through a reference is never freed; `thunk_counts`: a stuck thread fails
`ForcingEnds`).

Fairness. `FairSpec` gives weak fairness to each thread's steps inside the
runtime, to each worker's loop, to a body's dropping of its references and to
the destructor's join: the operating system schedules threads, a mutex that
stays free is obtained, and bodies terminate, which is the programs' duty. No
call of the program is fair. Notifications are actions of the notifier, so a
lost wakeup would be a violation (spurious wakeups are possible and not fair).
In `SharedMutex` the turns of the loops are weakly fair, and the end of the scope
of each lock object is strongly fair: inside it the thread may take and release
the lock again any number of times, which disables the release for a while. That
a waiting call returns is not claimed: readers and writers that have not entered
may be overtaken for ever, and the code does not promise otherwise.
`FairThunkSpec` is the same for thunks; the end of a closure's code has strong
fairness, because the code may release objects any number of times before it
returns, and while it does the return is not enabled.

## 4. What the violations show

The models follow the code; where the code does not keep what a comment or an
assertion of the repository says, a constant restricts programs so that the
rest can be checked, and lifting the restriction gives the counterexample.
Four are runs (`findings` in `PROJECT.json`):

- `bind_race`: `task_bind_fn1` publishes the current task before its worker is
  done with it; another worker may finish the second run and delete `m_imp`
  before the first one checks `t->m_imp` (`object.cpp:687`).
- `heap_result`: the value of a task is published without `mark_mt`
  (`object.cpp:694`); two threads then update a counter that is not atomic.
- `thunk_map`: `thunk_map_fn_closure` releases the value it has borrowed and not
  the thunk it has been given (`object.cpp:567`). In the trace a thunk has the
  only reference to its value; forcing a thunk made of it by `thunk_map` sends
  the value to `del` while `m_value` still refers to it, and the first thunk is
  never released.
- `alloc_adopt`: `init_heap` forgets the pages that `alloc_segment` has adopted
  (`alloc.cpp:354`).

Five more are configurations kept beside the runs, each with the property that a
comment or an assertion states and that TLC refutes:

- `MCAllocator_export.cfg` (`ImportListIsOwn`, 3 threads): `export_objs` reads the
  heaps of its objects in one loop and locks them in another (`alloc.cpp:251`,
  `:271`); in between the heap ends, a third thread adopts its last segment and
  deletes it (`:287`). The objects are linked to freed memory, where `:97` says
  the list "contains object by this heap". The model keeps a list for the deleted
  heap and nobody reads it (`Carries` does not count it).
- `MCAllocator_self.cfg` (`ExportsToOthers`, 3 threads): an object waits on the
  export list while its page is adopted by the very heap; `lean_assert(h !=
  this)` (`alloc.cpp:252`) is false. Without assertions the object goes to the
  heap's own import list and is not lost.
- `MCAllocator_full.cfg` (`NewPageInSegment`, 5 segments of 1 page): a thread ends
  with two segments of which one is full. An adopter makes it its current segment
  (`alloc.cpp:289`), and `alloc_page` cuts a page out behind its end (`:303`),
  although a full segment is replaced at once according to `:306`. `TakePage` has
  no other guard than the bound `MaxCut`.
- `MCAlgorithms_joins.cfg` (`ResetAfterLastUse`): `Dmain` returns for a join point
  the flag of its body `v` and drops that of the rest `b`
  (`resetreuse.lean:90-95`), where the comment at `:76` wants "`flag == true` if
  `x` is live in `b`": in an alternative of a case on `x`, a variable used in `b`
  only counts as dead, and is reset before the declaration of the join point,
  ahead of its use. `ResetReuseIsSafe` names exactly these bodies
  (`UsedBeforeJoin`) and demands of all others that no variable is used after its
  reset; of these, too, that memory is reused once on every path.
- `MCAlgorithms_ctor.cfg` (`ReuseBuildsCtor`): `S` builds `Expr.reuse w c ...` with
  the constructor `c` of the object whose memory is reused, not `c'`, the one to
  be built (`resetreuse.lean:43`; `basic.lean:149` says "`reuse x in ctor_i ys`").
  For two constructors of the same size the result is of the wrong one.
  `ResetReuseIsSafe` says that this happens only with `updtHeader` set.

Others can be reproduced by changing one constant:

- `KeepBinds = FALSE` in `bind_kept`: a bind task dropped during its first run
  is freed by its worker although it is in a dependency list
  (`BindSourceIsDone`, `BindExactlyOnePlace` fail).
- `LocalStores = TRUE` in `heap_counts`: `array_uset` on an exclusive
  multi-threaded array (`object.h:1434`) stores unmarked objects
  (`MTReachesNoST`), and so does `thunk_get_core` on a marked thunk
  (`object.cpp:550`).
- `SwapEmpty = TRUE` in `heap_counts`: `io_ref_swap` on an empty single-threaded
  reference leaks its argument (`io.cpp:243`, `RefCountsAreExact`).
- `io_ref_get` on a shared reference (`io.cpp:177-181`): a second reader in
  between gets "null reference read", and a value stored in between is released
  in favour of the old one. `RefCountsAreExact` shows that no reference is lost
  or doubled by it; which value wins is not a property of the model.
- More threads than `MaxReaders + 1` in `rwlock`: when two readers leave at the
  limit, `unlock_shared` notifies for the first only (`shared_mutex.cpp:117`),
  and with two threads at gate1 `SleepersWake` fails. The limit in the code is
  2^31 - 1.

In the reset/reuse pass `hasCtorUsing` compares the arguments with the variable
of its pattern, which hides the parameter (`resetreuse.lean:113`); it is a
heuristic only, and the model has it as it is. A case on a variable inside a case on the same variable is assumed to have been
removed by the simplifier. Levels: `normalize` is not idempotent and
`is_equivalent` does not find all equivalent levels (`imax (max 0 u) 1`), where
`level.h:150` reads as if it did; the kernel then rejects what it might accept.

## 5. Proofs

All theorems hold for every value of the constants that satisfies the named
assumptions of the module; the sets of tasks and threads need not be finite
unless said so.

### Task manager

Assumptions: `NoTask` is no task, clients and workers are disjoint, `NoThread`
is no thread, `MaxPrio` and the priorities are natural numbers. `TaskManagerProofs` first proves what the rest takes for granted:

- `TypeInvariant`: `Spec => [](TypeOK /\ QueuesConsistent)`, and its first
  half alone, `TypesHold`. `dequeue` takes
  the head of the queue of `m_max_prio` without looking, so the queues must be
  non-empty there whenever `m_queues_size` is not 0. This is not inductive by
  itself. The invariant `TypeInv` adds that `m_queues_size` counts a finite set
  of slots (`QueueInv`; cardinality is only defined for finite sets) and what
  the program counters say about the local pointers that actions dereference
  (`ControlInv`: a worker in the loop body has a current task, a thread in
  `deactivate_task` has a target, the mutex is held exactly in
  `handle_finished`). The lemmas `SlotsAppend`, `SlotsTail` and
  `LowerPrioIsHighest` carry the arithmetic of `enqueue_core` and `dequeue`.
- `ShutdownInterrupts`: `Spec => []ShutdownInterruptsRunning`, from `TypeInv`,
  the fact that no step takes an interruption back, and that a worker takes a
  task only while `m_shutting_down` is not set.

Then `OnePlace`: `Spec => []ExactlyOnePlace`. `PlaceInv`
states it by membership instead of by positions (`PlacedOnce`: no task is in two
lists of a kind or in lists of two kinds), with no list holding a task twice
(`ListInv`) and lists being walked only in the two walking places of the code
(`WalkInv`, so that a thread that takes over a list drops none). Six lemmas, one
for each way in which a task changes its place, carry the step.

Five invariants are about reference counts, closures, dependents and the
destructor. They depend on each other, so one
invariant `TaskInv` is inductive, and each theorem is a consequence of it:

- `ReferencesStayAlive` (`ReferencesAlive`) and `ClosuresWait`
  (`WaitingTasksHaveClosure`) need `OwnerInv`: a task has its closure exactly
  while it is unfinished, not deleted and not taken by a worker (`ClosureInv`),
  and a live task has an owner or is about to be deactivated (`NoLeakInv`).
- `DeadDependents` (`DependentsOfDeadAreDead`) and `InterruptsReach`
  (`InterruptReachesDependents`) need `DependInv`: a dependent that is not
  deleted has captured the task in whose list it is (so a task that nobody
  references has only deleted dependents), a task that maps another one is in
  its list until that one is being finished (`MapInv`), and the list of the task
  being finished is empty and stays so.
- `ShutdownReleases` (`ShutdownReleasesAll`) needs, next to `ShutInv` (what the
  clients do while the manager is destroyed), that tasks cannot keep each other
  alive. `FoundedInv` says that every set of tasks has a member that no task
  of the set knows, in its closure or in its running body: a task knows only
  what it captured and what it creates. When no thread owns a task, every
  live task would have to be captured by a live one
  (`NobodyOwnsNothingLives`), which the set of the live tasks refutes.
- `LocalInv` says at which places of the code a thread's variables hold tasks.

`ImplementsTasks`: `Spec => ImplementsTaskSpec` is the refinement that `task_safety` checks. Creating, starting, finishing, dropping
the last reference and waiting are steps of `TaskSpec`; every other step is
invisible to it, because an object that is freed later was cancelled when it was
marked deleted. `MapInv` with `OnePlace` gives the guard of `Start`: a task in a
queue is in no dependency list, so the task it maps has its value.

### Binds

`TaskBindProofs`, under the same assumptions and for programs that keep their
bind tasks until they are done (`KeepBinds`; without it section 4 has the
counterexample). A bind task is run twice, and in between two workers may point
to it, so the invariants of the task manager do not hold of the state of
`TaskBind` as it stands. They hold of its image under a mapping: the worker
between `task_bind_fn1` and `add_dep` is still in the body of the task and holds
`y` in a local variable, a worker that returns the null value has left the task
already, both functions of bind are `task_map_fn`, and the interruption flags
are forgotten (no step depends on them).
`BindImplementsRebinding` says that under this mapping every step is one of
`TaskManager` or `Rebind`, by which a task that has been run waits for the task
its body has left; `TaskManagerProofs` shows at its end that `Rebind` keeps
`TaskInv` too, and `SourceInv` (a wrapper function runs when its source has its
value). The creation order of the tasks is no help there: `y` may be younger than
the bind task, which is why `FoundedInv` is about what tasks know.

That the steps map needs `BindInv`: closure and phase of a task agree
(`PhaseInv`), what a worker has at the new places of the code (`RunInv`), and
what `KeepBinds` is for, `KeptInv`: an unfinished bind task is owned by a
variable of a thread or by the closure of another bind task, so it is never
deactivated, and the worker that comes back finds nothing to free. Three
theorems read the invariants of the mapped state as those of `TaskBind`:
`BindKeepsTasksAlive` (`BindTasksAlive`), `BindsHaveOnePlace`
(`BindExactlyOnePlace`) and `BindsReadValues` (`BindSourceIsDone`).

### Object heap and `IO.Ref`

Assumptions: finitely many threads and addresses; `Null`, `Box` and objects are
different. Programs are those of `ProgramSpec`: any number of threads, objects
and references, all operations. Two constants say what programs do not do, and
without it the statements are false (section 4): `~SwapEmpty`, no swap of an
empty single-threaded reference; and for the marks `~LocalStores`, no unmarked
object into a multi-threaded array or the result of a task.

- `CountsAreExact` (`RefCountsAreExact`). `HeapInv(X)` in `ObjectHeapProofs` says
  it of the heap alone: the counter of `o` is `References(o) + X[o]`, where `X`
  are the references that other modules hold; `IORefProofs` puts in what
  `io_ref_get` has taken out, twice per value (`Taken`). It is inductive together
  with: an object is on the list of one thread in `del` and has count zero
  (`TodoInv`), freed memory has no fields and is single-threaded (`FreeInv`), a
  running task has one worker and no value (`TaskInv`), a primitive that ends
  with `dec` deletes nothing before (`PendInv`), and a thread inside `io_ref_get`
  owns the reference and does nothing else (`GetInv`). Every operation is one of
  four kinds, and each has its lemma: references are made and counted
  (`GrowStep`), released (`DropStep`), moved (`MoveStep`), or an object is made
  (`MakeStep`). The sums are cardinalities of sets of pairs; `TotalUpdate` in
  `SumsProofs` is what changes when one holder does.
- `InPlaceUpdates` (`UpdatesAreUnseen`) follows: `is_exclusive` reads the count,
  the thread owns one reference, so there is no other.
- `MTSealed` (`MTReachesNoST`) and `STLocal` (`STObjectsAreLocal`). Reachability
  is not inductive, a labelling is: `Labels(lab)` names a thread for every
  single-threaded object, the same one for what it refers to, and that of every
  thread that uses it; nothing that is not single-threaded refers to it. `Keeps`
  says what a step must do to preserve some labelling: only memory without
  references (the counts are needed here) gets a new label, and a thread stores
  and gets only what carries its own. `MarkSeals` is the part of `mark_mt` and
  `mark_persistent`: they leave nothing single-threaded behind what they mark.
  The two properties follow because the labelled objects are a closed set.
- `Leaks` (`OnlyCyclesLeak`, defined in `IORefProofs`): what no thread, running
  task or persistent object reaches is kept by an `IO.Ref` or by the result of a
  task. It needs that an object with count zero is in `del` or running
  (`ZeroInv`) and that data has no cycles, stated as: every set of data objects
  has one that the others do not refer to (`Founded`); an update in place keeps
  it because nothing refers to an exclusive array. `NothingLeaks` itself is false
  for these programs: a task that gets itself out of an `IO.Ref` may return
  itself. `NoLeaks` proves it for `RefSpec`, the programs with references of
  `heap_counts`, where only references refer to objects (`Flat`).

### Thunks

`ThunkProofs`, on top of `ObjectHeapProofs` and under the same assumptions, for
the programs of `ThunkSpec` (all of the thunk primitives but `thunk_map`, which
section 4 refutes), proves `ThunkCounts` (`ThunkCountsAreExact`) and
`OneEvaluates` (`OneEvaluator`). `ThunkInv` has three parts. `HeapInv(Locals)`:
counters are exact when the references in the local variables of
`thunk_get_core` and `apply_1` are counted, the value being stored included.
`ControlInv`: at each place of the code the thread has the thunk it forces, an
exclusive closure has been emptied and a shared one not, and the thunk is alive
because its caller owns a reference to it. `StateInv`: a thunk with neither
closure nor value is being evaluated by a thread, and by one only. The waiting
threads of `OneEvaluator` follow: the thunk they look at is in that state or has
its value.

### Allocator

Assumptions: `None` is neither a thread nor a segment, the sizes of pages
and segments are positive.
`AllocatorProofs` proves `OneOwner`: `Spec => []SegmentsHaveOneOwner`, the
adoption defect of section 4 included. `AllocInv` adds to it (`OwnerInv`) that a
heap in the list of orphans, popped from it or deleted has no thread and is in
one of these conditions only (`OrphanInv`), that a thread has popped an orphan
exactly at the places of the code between `pop_orphan` and the end of the
adoption (`AdoptInv`), that there is a segment wherever the code takes the first
one (`SegmentInv`) and where `import_objs` and `export_objs` return to
(`ReturnInv`).

`NoObjectLost`: `Spec /\ []AdoptionIsSound => []ObjectsConserved`, for finitely
many threads, since the objects they carry are added up (`ObjectsOf`).
`AdoptionIsSound` is about the execution, not about the constants: pages lie
within their segments, nothing is on the import list of a deleted heap, a page
header is written only by the thread that owns the page or has popped the orphan
that does, and a page taken from the list of free pages has a free object. The
code does not guarantee it (`alloc_adopt`, `MCAllocator_export.cfg`,
`MCAllocator_full.cfg`), and where it fails the code writes freed or foreign memory or has a data race on a free
list, after which nothing can be said about objects. The theorem says that these
are the only ways to lose one. In the instance of `alloc_lists` the condition
always holds.

`ConserveInv` adds to `AllocInv` that every page pointer a thread follows leads
to a page with a header (`PointerInv`: the current page, the free list, the
`next` pointers and the objects under way), that a page being set up is known to
nobody else (`FreshInv`), that a page without a header has no objects and nothing
is being pushed outside `import_objs` (`CountInv`), and the sum with the objects
sent to deleted heaps included (`AllConserved`). Of the condition
`NothingSentToDeleted` uses that there are none of these, and `EnoughFree` that a
page gives no object it does not have: `numFree` is never negative.

### Read-write lock

`SharedMutexProofs`, for finitely many threads, at most one more than the limit
of readers (beyond it section 4 has a lost wakeup; the limit is 2^31 - 1):

- `HoldersInvariant`: `Spec => [](TypeOK /\ StateMatchesHolders)`, which is
  inductive as it stands once the readers are counted as a finite set
  (cardinality lemmas for one thread more or less).
- `SafelyImplementsRWLock`: `Spec => RW!SafetySpec`. The thread in the second
  loop of `lock` is the entered writer; a lock obtained, nested or released is
  one step of `RWLock`, everything else is invisible.

### Only model-checked

The liveness properties, and the liveness part of `ImplementsRWLock`: fairness
and `ENABLED` are out of reach of the prover. Everything about `RBTree`, `Level`,
`Terms`, `EquivManager` and `ResetReuse`, whose operators are recursive on data:
what they compute needs induction over data. `PageListsWellFormed` of
`Allocator`: it holds in the instance of `alloc_lists` and not for all constants,
since the code breaks it after the adoptions of section 4.

## 6. Not modelled

See `components` in `PROJECT.json`. Of the 460000 lines of C++, some 358000
are `stage0`, generated from the `.lean` files for bootstrapping: modelling
generated code says nothing. Of the rest:

- type checker, reduction, inductive types, unification, tactics, elaborator,
  parser and pretty printer work on dependent type theory or on text. Their
  correctness is about logic and language, not about states that a small
  instance could enumerate; what they share and what is finite about it (levels,
  bound variables, known equalities, trees) is modelled.
- other passes of the compiler depend on types and on the whole program.
- persistent arrays (`object.cpp` 333-510) are called by their tests only;
  `library/parray.h` by a hash table nobody includes.
- thread finalizers, arithmetic on boxed numbers, strings, compaction,
  serialization, interruption polls: single checks, byte-level code or I/O of
  one thread.
- GMP and the JSON library are not part of the program.

In the modelled parts `LEAN_LAZY_RC`, builds without `LEAN_MULTI_THREAD`, stack
objects and weak memory effects (the code's atomics are sequentially consistent
except the counters, whose operations commute) are left out. Hazards without a
property (`PROJECT.json`): a task created while the destructor iterates over
the workers (`object.cpp:754`), and a value released with the mutex held that is
the last reference to a task (`object.cpp:689`).

## 7. Plan

1. Done: `TaskManager`, `TaskBind`, `ObjectHeap`, `IORef`, `Thunk`, `Allocator`,
   `SharedMutex`, their abstract specifications `TaskSpec` and `RWLock`, the
   sequential algorithms; the proofs of every safety property of `TaskManager`
   and, for programs that keep their bind tasks, `TaskBind`, of the safety of
   `SharedMutex` (refinements included), of the properties of `ObjectHeap`,
   `IORef` (`NothingLeaks` for some programs) and `Thunk`, and of
   `SegmentsHaveOneOwner` and, while adoptions are sound, `ObjectsConserved` of
   `Allocator`.
2. Next: `TaskBind` without `KeepBinds`, once the race of `bind_race` is fixed in
   the code; what holds of the allocator's page lists for all constants.
