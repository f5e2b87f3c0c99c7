----------------------------- MODULE Allocator -----------------------------
(***************************************************************************)
(* The small-object allocator of the Lean 4 runtime (runtime/alloc.cpp).   *)
(* Every thread has a heap of pages cut out of segments; an object freed   *)
(* by another thread travels through that thread's export list and the     *)
(* owner's import list; the heap of a thread that ends becomes an orphan   *)
(* whose segments other heaps adopt, one at a time.                        *)
(*                                                                         *)
(* Objects of one page are interchangeable, so a page counts its free and  *)
(* live objects and the lists of objects are bags of pages.  The lists of  *)
(* pages keep their next and prev pointers, which the code does not always *)
(* reset.  One size class is modelled: classes share only the segments.    *)
(* A heap is named after the thread that created it.                       *)
(***************************************************************************)
EXTENDS Integers, Sequences, FiniteSets, Functions, Sums

CONSTANTS
    Threads,          \* every thread that ever runs
    Main,             \* the main thread: its heap is never finalized
    None,             \* the null pointer, for heaps and segments
    Segments,         \* the segments the program may allocate
    PagesPerSegment,  \* pages that fit in a segment
    ObjsPerPage,      \* objects that fit in a page: m_max_free
    MaxToExport,      \* LEAN_MAX_TO_EXPORT_OBJS
    MaxLive,          \* bound: objects live at the same time
    MaxPages,         \* bound: pages a thread other than Main may set up
    MaxCut,           \* bound: pages cut out of a segment, or behind its end
    LateStarts        \* threads may start after others have ended

ASSUME MainAssumption ==
    /\ Main \in Threads /\ IsFiniteSet(Threads)
    /\ None \notin Threads \union Segments
ASSUME SizesAssumption ==
    /\ PagesPerSegment \in Nat \ {0}
    /\ ObjsPerPage \in Nat \ {0}
    /\ MaxToExport \in Nat
    /\ MaxCut \in Nat /\ MaxCut >= PagesPerSegment
    /\ LateStarts \in BOOLEAN

(* The pages after the PagesPerSegment-th lie behind the end of m_data.    *)
(* That this memory is nobody else's is the most favourable outcome.       *)
Pages  == Segments \X (1..MaxCut)
NoPage == <<>>
Empty  == [p \in Pages |-> 0]

VARIABLES
    pc,         \* per thread: where it is
    after,      \* per thread: where push_free_obj, or export_objs, returns to
    init,       \* per thread: it is in init_heap
    newPage,    \* per thread: the page alloc_page is about to set up
    todo,       \* per thread: objects it has taken to give them back to their pages
    entries,    \* per thread: export_objs' objects, by heap
    adopted,    \* per thread: the orphan it has popped
    aseg,       \* per thread: the segment of the orphan it adopts
    moved,      \* per thread: pages of that segment already moved
    dead,       \* the heaps that have been deleted
    orphans,    \* heap_manager::m_orphans
    segs,       \* per heap: its segments, m_curr_segment first
    cur,        \* per heap: m_curr_page
    pageFree,   \* per heap: m_page_free_list
    toExport,   \* per heap: m_to_export_list
    toImport,   \* per heap: m_to_import_list
    used,       \* per segment: pages cut out of it
    heap, next, prev, numFree, inFree,  \* per page: its header
    live        \* per page: objects the program holds

threadVars == <<pc, after, init, newPage, todo, entries, adopted, aseg, moved>>
heapVars   == <<dead, orphans, segs, cur, pageFree, toExport, toImport, used>>
pageVars   == <<heap, next, prev, numFree, inFree, live>>
vars == <<threadVars, heapVars, pageVars>>

NumPages   == Cardinality(Segments) * MaxCut
Plus(a, b) == [p \in Pages |-> a[p] + b[p]]
Add(a, q)  == [a EXCEPT ![q] = @ + 1]
Take(a, q) == [a EXCEPT ![q] = @ - 1]
Size(a)    == SumFunction(a)

Elems(s)   == {s[i] : i \in DOMAIN s}

Goto(th, l) == pc' = [pc EXCEPT ![th] = l]
Call(th, l, ret) == Goto(th, l) /\ after' = [after EXCEPT ![th] = ret]

Init ==
    /\ pc = [t \in Threads |-> "absent"]
    /\ after = [t \in Threads |-> "run"]
    /\ init = [t \in Threads |-> FALSE]
    /\ newPage = [t \in Threads |-> NoPage]
    /\ todo = [t \in Threads |-> Empty]
    /\ entries = [t \in Threads |-> [h \in Threads |-> Empty]]
    /\ adopted = [t \in Threads |-> None]
    /\ aseg = [t \in Threads |-> None]
    /\ moved = [t \in Threads |-> 0]
    /\ dead = {}
    /\ orphans = <<>>
    /\ segs = [t \in Threads |-> <<>>]
    /\ cur = [t \in Threads |-> NoPage]
    /\ pageFree = [t \in Threads |-> NoPage]
    /\ toExport = [t \in Threads |-> Empty]
    /\ toImport = [t \in Threads |-> Empty]
    /\ used = [s \in Segments |-> 0]
    /\ heap = [p \in Pages |-> None]
    /\ next = [p \in Pages |-> NoPage]
    /\ prev = [p \in Pages |-> NoPage]
    /\ numFree = Empty
    /\ inFree = [p \in Pages |-> FALSE]
    /\ live = Empty

----------------------------------------------------------------------------
(* The lists of pages.  page_list_insert leaves new_head's prev as it was. *)
(* The head of the list is changed by the caller.                          *)
PageListInsert(head, p) ==
    /\ next' = [next EXCEPT ![p] = head]
    /\ prev' = IF head = NoPage THEN prev ELSE [prev EXCEPT ![head] = p]

(* page_list_remove from the middle of a list, then page_list_insert at    *)
(* the head of another one.  The code follows prev without a test.         *)
PageListTransfer(p, head) ==
    LET n == next[p]
        q == prev[p]
    IN  /\ q # NoPage
        /\ next' = [next EXCEPT ![q] = n, ![p] = head]
        /\ prev' = [x \in Pages |-> CASE x = head -> p
                                      [] x = n /\ x # head -> q
                                      [] OTHER -> prev[x]]

HasManyFree(n) == n > ObjsPerPage \div 4

(* The page leaves its heap's m_curr_page list with this object.           *)
Recycles(p) ==
    /\ ~inFree[p]
    /\ HasManyFree(numFree[p] + 1)
    /\ p # cur[heap[p]]

(* Faulty variant: the successor keeps its pointer to the removed page.    *)
PushFreeObjOneWay(p) ==
    /\ numFree' = Add(numFree, p)
    /\ IF Recycles(p)
       THEN /\ prev[p] # NoPage
            /\ next' = [next EXCEPT ![prev[p]] = next[p], ![p] = pageFree[heap[p]]]
            /\ prev' = IF pageFree[heap[p]] = NoPage THEN prev
                       ELSE [prev EXCEPT ![pageFree[heap[p]]] = p]
            /\ pageFree' = [pageFree EXCEPT ![heap[p]] = p]
            /\ inFree' = [inFree EXCEPT ![p] = TRUE]
       ELSE UNCHANGED <<next, prev, pageFree, inFree>>

PushFreeObj(p) ==
    /\ numFree' = Add(numFree, p)
    /\ IF Recycles(p)
       THEN /\ PageListTransfer(p, pageFree[heap[p]])
            /\ pageFree' = [pageFree EXCEPT ![heap[p]] = p]
            /\ inFree' = [inFree EXCEPT ![p] = TRUE]
       ELSE UNCHANGED <<next, prev, pageFree, inFree>>

(* import_objs of heap h by thread th: the list is taken under h's mutex,  *)
(* then its objects are pushed on their pages one by one.                  *)
ImportObjs(th, h, ret) ==
    /\ todo' = [todo EXCEPT ![th] = toImport[h]]
    /\ toImport' = [toImport EXCEPT ![h] = Empty]
    /\ Call(th, "push", ret)

Push(th) ==
    /\ pc[th] = "push"
    /\ \E p \in Pages :
        /\ todo[th][p] > 0
        /\ todo' = [todo EXCEPT ![th] = Take(@, p)]
        /\ PushFreeObj(p)
    /\ UNCHANGED <<pc, after, init, newPage, entries, adopted, aseg, moved, dead,
                   orphans, segs, cur, toExport, toImport, used, heap, live>>

PushDone(th) ==
    /\ pc[th] = "push" /\ todo[th] = Empty
    /\ Call(th, after[th], "run")
    /\ UNCHANGED <<init, newPage, todo, entries, adopted, aseg, moved,
                   heapVars, pageVars>>

----------------------------------------------------------------------------
(* init_heap: a segment, then the first page.                              *)
StartThread(th) ==
    /\ pc[th] = "absent"
    /\ th # Main => pc[Main] # "absent" /\ ~init[Main]
    /\ Goto(th, "segment")
    /\ init' = [init EXCEPT ![th] = TRUE]
    /\ UNCHANGED <<after, newPage, todo, entries, adopted, aseg, moved, heapVars,
                   pageVars>>

(* alloc_segment returns to init_heap, or to alloc_page.                   *)
SegmentReturns(th) == Goto(th, IF newPage[th] = NoPage THEN "page" ELSE "format")

NewSegment(th) ==
    /\ pc[th] = "segment" /\ orphans = <<>>
    /\ \E s \in Segments :
        /\ \A h \in Threads : s \notin Elems(segs[h]) /\ aseg[h] # s
        /\ segs' = [segs EXCEPT ![th] = <<s>> \o @]
    /\ SegmentReturns(th)
    /\ UNCHANGED <<after, init, newPage, todo, entries, adopted, aseg, moved, dead,
                   orphans, cur, pageFree, toExport, toImport, used, pageVars>>

(* Faulty variant: the segment stays in the orphan's list.                 *)
PopOrphanShared(th) ==
    /\ pc[th] = "segment" /\ orphans # <<>>
    /\ adopted' = [adopted EXCEPT ![th] = Head(orphans)]
    /\ aseg' = [aseg EXCEPT ![th] = Head(segs[Head(orphans)])]
    /\ orphans' = Tail(orphans)
    /\ Goto(th, "move")
    /\ UNCHANGED <<after, init, newPage, todo, entries, moved, dead, segs, cur,
                   pageFree, toExport, toImport, used, pageVars>>

PopOrphan(th) ==
    /\ pc[th] = "segment" /\ orphans # <<>>
    /\ LET h == Head(orphans) IN
        /\ adopted' = [adopted EXCEPT ![th] = h]
        /\ aseg' = [aseg EXCEPT ![th] = Head(segs[h])]
        /\ segs' = [segs EXCEPT ![h] = Tail(@)]
    /\ orphans' = Tail(orphans)
    /\ Goto(th, "move")
    /\ UNCHANGED <<after, init, newPage, todo, entries, moved, dead, cur, pageFree,
                   toExport, toImport, used, pageVars>>

(* One turn of the loop in segment::move_to_heap.                          *)
MovePage(th) ==
    LET p == <<aseg[th], moved[th] + 1>> IN
    /\ pc[th] = "move" /\ moved[th] < used[aseg[th]]
    /\ moved' = [moved EXCEPT ![th] = @ + 1]
    /\ heap' = [heap EXCEPT ![p] = th]
    /\ IF inFree[p]
       THEN /\ PageListInsert(pageFree[th], p)
            /\ pageFree' = [pageFree EXCEPT ![th] = p]
            /\ UNCHANGED cur
       ELSE /\ PageListInsert(cur[th], p)
            /\ cur' = [cur EXCEPT ![th] = p]
            /\ UNCHANGED pageFree
    /\ UNCHANGED <<pc, after, init, newPage, todo, entries, adopted, aseg, dead,
                   orphans, segs, toExport, toImport, used, numFree, inFree, live>>

MoveDone(th) ==
    /\ pc[th] = "move" /\ moved[th] = used[aseg[th]]
    /\ ImportObjs(th, adopted[th], "settle")
    /\ UNCHANGED <<init, newPage, entries, adopted, aseg, moved, dead, orphans, segs,
                   cur, pageFree, toExport, used, pageVars>>

(* The end of alloc_segment: the orphan goes back to the list, or is       *)
(* deleted with its last segment.                                          *)
Settle(th) ==
    LET h == adopted[th] IN
    /\ pc[th] = "settle"
    /\ IF segs[h] # <<>>
       THEN orphans' = <<h>> \o orphans /\ UNCHANGED dead
       ELSE dead' = dead \union {h} /\ UNCHANGED orphans
    /\ segs' = [segs EXCEPT ![th] = <<aseg[th]>> \o @]
    /\ adopted' = [adopted EXCEPT ![th] = None]
    /\ aseg' = [aseg EXCEPT ![th] = None]
    /\ moved' = [moved EXCEPT ![th] = 0]
    /\ SegmentReturns(th)
    /\ UNCHANGED <<after, init, newPage, todo, entries, cur, pageFree, toExport,
                   toImport, used, pageVars>>

(* alloc_page cuts a page out of the current segment, whether or not it    *)
(* has one left, and gets a new segment at once when none is left then.    *)
TakePage(th) ==
    LET s == Head(segs[th]) IN
    /\ pc[th] = "page" /\ used[s] < MaxCut
    /\ newPage' = [newPage EXCEPT ![th] = <<s, used[s] + 1>>]
    /\ used' = [used EXCEPT ![s] = @ + 1]
    /\ cur' = IF init[th] THEN [cur EXCEPT ![th] = NoPage] ELSE cur
    /\ Goto(th, IF used[s] + 1 >= PagesPerSegment THEN "segment" ELSE "format")
    /\ UNCHANGED <<after, init, todo, entries, adopted, aseg, moved, dead, orphans,
                   segs, pageFree, toExport, toImport, pageVars>>

(* The objects alloc_page puts in a page.                                  *)
NumFreeOfPage == ObjsPerPage

(* The rest of alloc_page; its caller is init_heap, or alloc, which takes  *)
(* the first object of the page.                                           *)
Format(th) ==
    LET p == newPage[th] IN
    /\ pc[th] = "format"
    /\ heap' = [heap EXCEPT ![p] = th]
    /\ PageListInsert(cur[th], p)
    /\ cur' = [cur EXCEPT ![th] = p]
    /\ inFree' = [inFree EXCEPT ![p] = FALSE]
    /\ IF init[th]
       THEN /\ numFree' = [numFree EXCEPT ![p] = NumFreeOfPage]
            /\ pageFree' = [pageFree EXCEPT ![th] = NoPage]
            /\ UNCHANGED live
       ELSE /\ numFree' = [numFree EXCEPT ![p] = NumFreeOfPage - 1]
            /\ live' = Add(live, p)
            /\ UNCHANGED pageFree
    /\ newPage' = [newPage EXCEPT ![th] = NoPage]
    /\ init' = [init EXCEPT ![th] = FALSE]
    /\ Goto(th, "run")
    /\ UNCHANGED <<after, todo, entries, adopted, aseg, moved, dead, orphans, segs,
                   toExport, toImport, used>>

----------------------------------------------------------------------------
MayAlloc(th) == pc[th] = "run" /\ Size(live) < MaxLive

(* alloc when the current page has a free object.                          *)
AllocFast(th) ==
    /\ MayAlloc(th) /\ numFree[cur[th]] > 0
    /\ numFree' = Take(numFree, cur[th])
    /\ live' = Add(live, cur[th])
    /\ UNCHANGED <<threadVars, heapVars, heap, next, prev, inFree>>

(* alloc when it has to take a page of the list of free pages.             *)
AllocRecycle(th) ==
    LET p == pageFree[th] IN
    /\ MayAlloc(th) /\ numFree[cur[th]] = 0 /\ p # NoPage
    /\ pageFree' = [pageFree EXCEPT ![th] = next[p]]
    /\ inFree' = [inFree EXCEPT ![p] = FALSE]
    /\ PageListInsert(cur[th], p)
    /\ cur' = [cur EXCEPT ![th] = p]
    /\ numFree' = Take(numFree, p)
    /\ live' = Add(live, p)
    /\ UNCHANGED <<threadVars, dead, orphans, segs, toExport, toImport, used, heap>>

(* Bound: the page is not the last of its segment, or there is a segment   *)
(* for this thread and for every other one that may need one.              *)
SegmentAvailable(th) ==
    LET taken == UNION {Elems(segs[h]) \union {aseg[h]} : h \in Threads}
    IN  \/ used[Head(segs[th])] + 1 < PagesPerSegment
        \/ Cardinality(Segments \ taken) + Len(orphans)
             > Cardinality({t \in Threads \ {th} : pc[t] \notin {"run", "export", "gone"}})

(* alloc when it has to import objects and set up a new page.              *)
AllocSlow(th) ==
    /\ MayAlloc(th) /\ numFree[cur[th]] = 0 /\ pageFree[th] = NoPage
    /\ th # Main => Cardinality({p \in Pages : heap[p] = th}) < MaxPages
    /\ SegmentAvailable(th)
    /\ ImportObjs(th, th, "page")
    /\ UNCHANGED <<init, newPage, entries, adopted, aseg, moved, dead, orphans, segs,
                   cur, pageFree, toExport, used, pageVars>>

(* dealloc of an object of this heap.                                      *)
DeallocLocal(th, p) ==
    /\ pc[th] = "run" /\ live[p] > 0 /\ heap[p] = th
    /\ live' = Take(live, p)
    /\ PushFreeObj(p)
    /\ UNCHANGED <<threadVars, dead, orphans, segs, cur, toExport, toImport, used, heap>>

(* dealloc of an object of another heap.                                   *)
DeallocForeign(th, p) ==
    /\ pc[th] = "run" /\ live[p] > 0 /\ heap[p] # th
    /\ live' = Take(live, p)
    /\ toExport' = [toExport EXCEPT ![th] = Add(@, p)]
    /\ IF Size(toExport[th]) + 1 > MaxToExport
       THEN Call(th, "export", "run")
       ELSE UNCHANGED <<pc, after>>
    /\ UNCHANGED <<init, newPage, todo, entries, adopted, aseg, moved, dead, orphans,
                   segs, cur, pageFree, toImport, used, heap, next, prev, numFree, inFree>>

----------------------------------------------------------------------------
(* export_objs first sorts the objects by the heap of their page ...       *)
ExportSort(th) ==
    /\ pc[th] = "export"
    /\ \E p \in Pages :
        /\ toExport[th][p] > 0
        /\ toExport' = [toExport EXCEPT ![th] = Take(@, p)]
        /\ entries' = [entries EXCEPT ![th][heap[p]] = Add(@, p)]
    /\ UNCHANGED <<pc, after, init, newPage, todo, adopted, aseg, moved, dead, orphans,
                   segs, cur, pageFree, toImport, used, pageVars>>

(* Faulty variant: the objects replace the import list.                    *)
ExportSendOverwrites(th) ==
    /\ pc[th] = "export" /\ toExport[th] = Empty
    /\ \E h \in Threads :
        /\ entries[th][h] # Empty
        /\ toImport' = [toImport EXCEPT ![h] = entries[th][h]]
        /\ entries' = [entries EXCEPT ![th][h] = Empty]
    /\ UNCHANGED <<pc, after, init, newPage, todo, adopted, aseg, moved, dead, orphans,
                   segs, cur, pageFree, toExport, used, pageVars>>

(* ... and then gives each heap its objects, under that heap's mutex.  The *)
(* heap may have been deleted in the meantime: the objects are linked to   *)
(* freed memory then, where nobody looks for them.                         *)
ExportSend(th) ==
    /\ pc[th] = "export" /\ toExport[th] = Empty
    /\ \E h \in Threads :
        /\ entries[th][h] # Empty
        /\ toImport' = [toImport EXCEPT ![h] = Plus(@, entries[th][h])]
        /\ entries' = [entries EXCEPT ![th][h] = Empty]
    /\ UNCHANGED <<pc, after, init, newPage, todo, adopted, aseg, moved, dead, orphans,
                   segs, cur, pageFree, toExport, used, pageVars>>

Exported(th) ==
    /\ pc[th] = "export" /\ toExport[th] = Empty
    /\ \A h \in Threads : entries[th][h] = Empty

(* export_objs returns to dealloc.                                         *)
ExportDone(th) ==
    /\ Exported(th) /\ after[th] = "run"
    /\ Goto(th, "run")
    /\ UNCHANGED <<after, init, newPage, todo, entries, adopted, aseg, moved, heapVars,
                   pageVars>>

----------------------------------------------------------------------------
(* finalize_heap: export, import, push_orphan.                             *)
ExitThread(th) ==
    /\ pc[th] = "run" /\ th # Main
    /\ LateStarts \/ \A t \in Threads : pc[t] # "absent" /\ ~init[t]
    /\ Call(th, "export", "orphan")
    /\ UNCHANGED <<init, newPage, todo, entries, adopted, aseg, moved, heapVars, pageVars>>

ExitImport(th) ==
    /\ Exported(th) /\ after[th] = "orphan"
    /\ ImportObjs(th, th, "orphan")
    /\ UNCHANGED <<init, newPage, entries, adopted, aseg, moved, dead, orphans, segs,
                   cur, pageFree, toExport, used, pageVars>>

PushOrphan(th) ==
    /\ pc[th] = "orphan"
    /\ orphans' = <<th>> \o orphans
    /\ Goto(th, "gone")
    /\ UNCHANGED <<after, init, newPage, todo, entries, adopted, aseg, moved, dead, segs,
                   cur, pageFree, toExport, toImport, used, pageVars>>

Next ==
    \E th \in Threads :
        \/ StartThread(th) \/ NewSegment(th) \/ PopOrphan(th) \/ MovePage(th)
        \/ MoveDone(th) \/ Settle(th) \/ TakePage(th) \/ Format(th)
        \/ AllocFast(th) \/ AllocRecycle(th) \/ AllocSlow(th)
        \/ \E p \in Pages : DeallocLocal(th, p) \/ DeallocForeign(th, p)
        \/ Push(th) \/ PushDone(th)
        \/ ExportSort(th) \/ ExportSend(th) \/ ExportDone(th)
        \/ ExitThread(th) \/ ExitImport(th) \/ PushOrphan(th)

Spec == Init /\ [][Next]_vars

----------------------------------------------------------------------------
Controls == {"absent", "segment", "move", "settle", "page", "format", "run", "push",
             "export", "orphan", "gone"}
Counts   == [Pages -> 0..ObjsPerPage]
PagePtrs == Pages \union {NoPage}
Heaps    == Threads \union {None}

(* Every variable has its type: in particular a page never counts more     *)
(* free objects than alloc_page put in it.                                 *)
TypeOK ==
    /\ pc \in [Threads -> Controls]
    /\ after \in [Threads -> {"run", "settle", "page", "orphan"}]
    /\ init \in [Threads -> BOOLEAN]
    /\ newPage \in [Threads -> PagePtrs]
    /\ \A t \in Threads : todo[t] \in Counts /\ toExport[t] \in Counts /\ toImport[t] \in Counts
    /\ \A t, h \in Threads : entries[t][h] \in Counts
    /\ adopted \in [Threads -> Heaps]
    /\ aseg \in [Threads -> Segments \union {None}]
    /\ moved \in [Threads -> 0..MaxCut]
    /\ dead \subseteq Threads
    /\ \A i \in DOMAIN orphans : orphans[i] \in Threads
    /\ \A t \in Threads : Elems(segs[t]) \subseteq Segments
    /\ cur \in [Threads -> PagePtrs] /\ pageFree \in [Threads -> PagePtrs]
    /\ used \in [Segments -> 0..MaxCut]
    /\ heap \in [Pages -> Heaps]
    /\ next \in [Pages -> PagePtrs] /\ prev \in [Pages -> PagePtrs]
    /\ numFree \in Counts /\ live \in Counts
    /\ inFree \in [Pages -> BOOLEAN]

(* The objects of page p that are on the lists of thread t and its heap; a *)
(* deleted heap has no list.                                               *)
Carries(t, p) ==
    todo[t][p] + toExport[t][p] + (IF t \in dead THEN 0 ELSE toImport[t][p])
        + Total([h \in Threads |-> entries[t][h][p]])

(* The objects of page p, wherever they are.                               *)
ObjectsOf(p) == numFree[p] + live[p] + Total([t \in Threads |-> Carries(t, p)])

(* No object is lost or freed twice on its way from dealloc through the    *)
(* export and import lists back to its page, whatever threads end and      *)
(* whichever heap adopts the page meanwhile: each object of a page is in   *)
(* the program's hands, free, or on exactly one list.                      *)
ObjectsConserved ==
    \A p \in Pages : /\ numFree[p] >= 0
                     /\ ObjectsOf(p) = IF heap[p] = None THEN 0 ELSE ObjsPerPage

(* The heap's lists may be looked at: it exists and its pages are not      *)
(* being moved to another heap.                                            *)
Settled(h) ==
    /\ h \notin dead
    /\ \A t \in Threads : adopted[t] # h

(* The list that starts at head: n is its n-th page.                       *)
WalkFrom(head) ==
    LET at[n \in 1..(NumPages + 1)] ==
            IF n = 1 THEN head
            ELSE IF at[n - 1] = NoPage THEN NoPage ELSE next[at[n - 1]]
    IN  at

IsListOf(head, S) ==
    LET at == WalkFrom(head)
    IN  /\ at[NumPages + 1] = NoPage
        /\ {at[n] : n \in DOMAIN at} \ {NoPage} = S

(* Every page of a heap is in the one of its two lists that                *)
(* m_in_page_free_list names, the lists end, and in m_curr_page prev leads *)
(* from every page but the first to its predecessor, although neither      *)
(* insertion nor removal resets it: page_list_remove follows it.  A page   *)
(* in the list of free pages has a free object (alloc's lean_assert(r)).   *)
PageListsWellFormed ==
    \A h \in Threads : Settled(h) =>
        LET mine == {p \in Pages : heap[p] = h}
        IN  /\ IsListOf(cur[h], {p \in mine : ~inFree[p]})
            /\ IsListOf(pageFree[h], {p \in mine : inFree[p]})
            /\ \A p \in mine : inFree[p] => numFree[p] > 0
            /\ \A p \in mine : ~inFree[p] /\ p # cur[h] =>
                    prev[p] # NoPage /\ next[prev[p]] = p

(***************************************************************************)
(* What must not happen for objects to be conserved, and what the code     *)
(* does not rule out (MCAllocator_export.cfg, MCAllocator_full.cfg): a     *)
(* page behind the end of its segment, objects sent to a heap that has     *)
(* been deleted, a page header that is written by a thread which neither   *)
(* owns the page nor has popped the orphan that does (the counts and free  *)
(* lists have no lock), and a page without free objects in the list of     *)
(* pages to be recycled (alloc's lean_assert(r)).                          *)
(***************************************************************************)
AdoptionIsSound ==
    /\ \A s \in Segments : used[s] <= PagesPerSegment
    /\ \A h \in dead : toImport[h] = Empty
    /\ \A th \in Threads, p \in Pages :
        /\ pc[th] = "push" /\ todo[th][p] > 0 => heap[p] \in {th, adopted[th]}
        /\ pc[th] = "run" /\ p \in {cur[th], pageFree[th]} => heap[p] = th
        /\ pc[th] = "run" /\ p = pageFree[th] => numFree[p] > 0

(* A segment belongs to one heap, or to the thread that is adopting it; a  *)
(* heap that has been deleted has none.                                    *)
SegmentsHaveOneOwner ==
    /\ \A h, k \in Threads : \A i \in DOMAIN segs[h], j \in DOMAIN segs[k] :
            segs[h][i] = segs[k][j] => h = k /\ i = j
    /\ \A h, k \in Threads : aseg[k] \notin Elems(segs[h])
    /\ \A h, k \in Threads : aseg[h] = aseg[k] /\ aseg[h] # None => h = k
    /\ \A h \in dead : segs[h] = <<>>

----------------------------------------------------------------------------
(* What the code asserts or says of itself.                                *)

(* page_list_remove's lean_assert(prev): a page that dealloc or            *)
(* import_objs moves to the list of free pages has a predecessor.          *)
RemovedPageHasPrev ==
    \A th \in Threads, p \in Pages :
        /\ \/ pc[th] = "push" /\ todo[th][p] > 0
           \/ pc[th] = "run" /\ live[p] > 0 /\ heap[p] = th
        /\ Recycles(p)
        => prev[p] # NoPage

(* alloc.cpp:97 of m_to_import_list: "The following list contains object   *)
(* by this heap that were deallocated by other heaps."  Only while the     *)
(* pages of an orphan are moved, its list has objects of pages that have   *)
(* just been moved.                                                        *)
ImportListIsOwn ==
    \A h \in Threads, p \in Pages :
        toImport[h][p] > 0 /\ (\A t \in Threads : adopted[t] # h) => heap[p] = h

(* export_objs' lean_assert(h != this): no object that it finds on the     *)
(* export list belongs to the heap itself.                                 *)
ExportsToOthers == \A th \in Threads : entries[th][th] = Empty

(* alloc_page's "s is full, we need to allocate a new one": a full segment *)
(* is replaced at once, so that the next page lies within its segment.     *)
NewPageInSegment ==
    \A th \in Threads : newPage[th] # NoPage => newPage[th][2] <= PagesPerSegment
=============================================================================
