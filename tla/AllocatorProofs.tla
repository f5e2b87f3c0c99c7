-------------------------- MODULE AllocatorProofs --------------------------
(***************************************************************************)
(* The small-object allocator: for any number of threads, segments, pages  *)
(* and objects, and whatever threads start, end, free and adopt meanwhile, *)
(* a segment has one owner; and no object of a page is lost or doubled     *)
(* while adoptions are sound (AdoptionIsSound), which the code does not    *)
(* guarantee.                                                              *)
(***************************************************************************)
EXTENDS Allocator, SumsProofs, FiniteSetTheorems, TLAPS

(* alloc_segment, between pop_orphan and the moment the adopted segment    *)
(* is put in the adopter's list.                                           *)
Adopting(t) ==
    \/ pc[t] \in {"move", "settle"}
    \/ pc[t] = "push" /\ after[t] = "settle"

(* A thread whose heap has been given its first segment, outside of        *)
(* alloc_segment.                                                          *)
Equipped(t) ==
    \/ pc[t] \in {"page", "format", "run", "export", "orphan"}
    \/ pc[t] = "push" /\ after[t] \in {"page", "orphan"}

NoDuplicates(s) == \A i, j \in DOMAIN s : s[i] = s[j] => i = j

OwnerTypes ==
    /\ pc \in [Threads -> Controls]
    /\ after \in [Threads -> {"run", "settle", "page", "orphan"}]
    /\ adopted \in [Threads -> Heaps]
    /\ aseg \in [Threads -> Segments \union {None}]
    /\ dead \subseteq Threads
    /\ orphans \in Seq(Threads)
    /\ segs \in [Threads -> Seq(Segments)]

(* import_objs is called from three places, export_objs from two.          *)
ReturnInv ==
    \A t \in Threads :
        /\ pc[t] = "push" => after[t] \in {"settle", "page", "orphan"}
        /\ pc[t] = "export" => after[t] \in {"run", "orphan"}

(* A thread has popped an orphan and taken its first segment exactly while *)
(* it is adopting.                                                         *)
AdoptInv ==
    \A t \in Threads : IF Adopting(t)
                       THEN adopted[t] \in Threads /\ aseg[t] \in Segments
                       ELSE adopted[t] = None /\ aseg[t] = None

(* Head(segs[th]) is there where alloc_page and pop_orphan's caller use it. *)
SegmentInv ==
    /\ \A t \in Threads : Equipped(t) => segs[t] # <<>>
    /\ \A h \in Elems(orphans) : segs[h] # <<>>
    /\ \A h \in dead : segs[h] = <<>>

(* A heap in the list of orphans, popped from it or deleted has no thread, *)
(* and is in one of these conditions only, once.                           *)
OrphanInv ==
    /\ NoDuplicates(orphans)
    /\ \A h \in Elems(orphans) \union dead : pc[h] = "gone"
    /\ Elems(orphans) \cap dead = {}
    /\ \A t \in Threads : adopted[t] # None =>
            pc[adopted[t]] = "gone" /\ adopted[t] \notin Elems(orphans) \union dead
    /\ \A t, u \in Threads : adopted[t] = adopted[u] /\ adopted[t] # None => t = u

(* SegmentsHaveOneOwner in terms of the sets of segments.                  *)
OwnerInv ==
    /\ \A h \in Threads : NoDuplicates(segs[h])
    /\ \A h, k \in Threads : h # k => Elems(segs[h]) \cap Elems(segs[k]) = {}
    /\ \A h, k \in Threads : aseg[k] \notin Elems(segs[h])
    /\ \A h, k \in Threads : aseg[h] = aseg[k] /\ aseg[h] # None => h = k

AllocInv ==
    /\ OwnerTypes /\ ReturnInv /\ AdoptInv /\ SegmentInv /\ OrphanInv /\ OwnerInv

----------------------------------------------------------------------------
(* What a list is after an insertion at its head, or a removal there.      *)
LEMMA Cons ==
    ASSUME NEW S, NEW x \in S, NEW s \in Seq(S)
    PROVE  /\ <<x>> \o s \in Seq(S)
           /\ <<x>> \o s # <<>>
           /\ Elems(<<x>> \o s) = {x} \union Elems(s)
           /\ NoDuplicates(s) /\ x \notin Elems(s) => NoDuplicates(<<x>> \o s)
<1> DEFINE c == <<x>> \o s
<1>1. /\ c \in Seq(S) /\ c # <<>>
      /\ DOMAIN c = 1..(Len(s) + 1) /\ DOMAIN s = 1..Len(s) /\ Len(s) \in Nat
      /\ c[1] = x
      /\ \A i \in 1..Len(s) : c[i + 1] = s[i]
  OBVIOUS
<1>2. \A i \in DOMAIN c : i = 1 \/ (i - 1 \in DOMAIN s /\ c[i] = s[i - 1])
  <2> TAKE i \in DOMAIN c
  <2>1. i = 1 \/ (i - 1 \in 1..Len(s) /\ i = (i - 1) + 1)
    BY <1>1
  <2> QED BY <1>1, <2>1
<1>3. Elems(c) = {x} \union Elems(s)
  <2>1. Elems(c) \subseteq {x} \union Elems(s)
    BY <1>1, <1>2 DEF Elems
  <2>2. x \in Elems(c)
    BY <1>1 DEF Elems
  <2>3. ASSUME NEW i \in DOMAIN s
        PROVE  s[i] \in Elems(c)
    <3>1. i + 1 \in DOMAIN c /\ c[i + 1] = s[i]
      BY <1>1
    <3> QED BY <3>1 DEF Elems
  <2> QED BY <2>1, <2>2, <2>3 DEF Elems
<1>4. ASSUME NoDuplicates(s), x \notin Elems(s)
      PROVE  NoDuplicates(c)
  <2> SUFFICES ASSUME NEW i \in DOMAIN c, NEW j \in DOMAIN c, c[i] = c[j]
               PROVE  i = j
    BY DEF NoDuplicates
  <2>1. i \in Int /\ j \in Int
    BY <1>1
  <2> HIDE DEF c
  <2> QED BY <1>1, <1>2, <1>4, <2>1 DEF NoDuplicates, Elems
<1> QED BY <1>1, <1>3, <1>4

LEMMA Uncons ==
    ASSUME NEW S, NEW s \in Seq(S), s # <<>>
    PROVE  /\ Head(s) \in S /\ Tail(s) \in Seq(S)
           /\ Elems(s) = {Head(s)} \union Elems(Tail(s))
           /\ NoDuplicates(s) => NoDuplicates(Tail(s)) /\ Head(s) \notin Elems(Tail(s))
<1>1. /\ Head(s) \in S /\ Tail(s) \in Seq(S) /\ Head(s) = s[1]
      /\ DOMAIN s = 1..Len(s) /\ Len(s) \in Nat \ {0}
      /\ DOMAIN Tail(s) = 1..(Len(s) - 1)
      /\ \A i \in 1..(Len(s) - 1) : Tail(s)[i] = s[i + 1]
  OBVIOUS
<1>2. ASSUME NEW i \in DOMAIN s
      PROVE  s[i] = Head(s) \/ s[i] \in Elems(Tail(s))
  <2>1. i = 1 \/ (i - 1 \in 1..(Len(s) - 1) /\ i = (i - 1) + 1)
    BY <1>1
  <2> QED BY <1>1, <2>1 DEF Elems
<1>3. ASSUME NEW i \in DOMAIN Tail(s)
      PROVE  i + 1 \in DOMAIN s /\ Tail(s)[i] = s[i + 1] /\ i + 1 # 1
  BY <1>1
<1>4. 1 \in DOMAIN s
  BY <1>1
<1>5. Elems(s) = {Head(s)} \union Elems(Tail(s))
  BY <1>1, <1>2, <1>3, <1>4 DEF Elems
<1>6. ASSUME NoDuplicates(s)
      PROVE  NoDuplicates(Tail(s)) /\ Head(s) \notin Elems(Tail(s))
  <2>1. NoDuplicates(Tail(s))
    <3> SUFFICES ASSUME NEW i \in DOMAIN Tail(s), NEW j \in DOMAIN Tail(s),
                        Tail(s)[i] = Tail(s)[j]
                 PROVE  i = j
      BY DEF NoDuplicates
    <3>1. i + 1 = j + 1
      BY <1>3, <1>6 DEF NoDuplicates
    <3> QED BY <1>1, <3>1
  <2>2. Head(s) \notin Elems(Tail(s))
    BY <1>1, <1>3, <1>4, <1>6 DEF NoDuplicates, Elems
  <2> QED BY <2>1, <2>2
<1> QED BY <1>1, <1>5, <1>6

----------------------------------------------------------------------------
LEMMA AllocInit == Init => AllocInv
<1> SUFFICES ASSUME Init PROVE AllocInv
  OBVIOUS
<1> USE DEF Init
<1>1. OwnerTypes
  BY DEF OwnerTypes, Controls, Heaps
<1>2. ReturnInv /\ AdoptInv
  BY DEF ReturnInv, AdoptInv, Adopting
<1>3. SegmentInv /\ OrphanInv
  BY DEF SegmentInv, OrphanInv, Equipped, Elems, NoDuplicates
<1>4. OwnerInv
  BY DEF OwnerInv, Elems, NoDuplicates
<1> QED BY <1>1, <1>2, <1>3, <1>4 DEF AllocInv

(* A step that moves no segment and no heap: one thread goes on, and       *)
(* neither begins nor ends an adoption nor its life.                       *)
LEMMA QuietStep ==
    ASSUME AllocInv, NEW th \in Threads, NEW l \in Controls,
           NEW r \in {"run", "settle", "page", "orphan"},
           pc' = [pc EXCEPT ![th] = l], after' = [after EXCEPT ![th] = r],
           pc[th] # "gone",
           Adopting(th)' <=> Adopting(th),
           Equipped(th)' => Equipped(th),
           l = "push" => r \in {"settle", "page", "orphan"},
           l = "export" => r \in {"run", "orphan"},
           UNCHANGED <<adopted, aseg, dead, orphans, segs>>
    PROVE  AllocInv'
<1>1. OwnerTypes'
  BY DEF AllocInv, OwnerTypes
<1>2. /\ \A t \in Threads : t # th => pc'[t] = pc[t] /\ after'[t] = after[t]
      /\ pc'[th] = l /\ after'[th] = r
  BY DEF AllocInv, OwnerTypes
<1>3. \A t \in Threads : (Adopting(t)' <=> Adopting(t)) /\ (Equipped(t)' => Equipped(t))
  BY <1>2 DEF Adopting, Equipped
<1>4. \A t \in Threads : pc[t] = "gone" => pc'[t] = "gone"
  BY <1>2
<1>5. ReturnInv'
  BY <1>2 DEF AllocInv, ReturnInv
<1>6. AdoptInv'
  BY <1>3 DEF AllocInv, AdoptInv
<1>7. SegmentInv'
  BY <1>3 DEF AllocInv, SegmentInv
<1>8. OrphanInv'
  <2>1. dead \subseteq Threads /\ Elems(orphans) \subseteq Threads
        /\ adopted \in [Threads -> Threads \union {None}]
    BY DEF AllocInv, OwnerTypes, Elems, Heaps
  <2> QED BY <1>4, <2>1 DEF AllocInv, OrphanInv
<1>9. OwnerInv'
  BY DEF AllocInv, OwnerInv
<1> QED BY <1>1, <1>5, <1>6, <1>7, <1>8, <1>9 DEF AllocInv

(* A segment that nobody has comes from the operating system.              *)
LEMMA NewSegmentStep ==
    ASSUME AllocInv, NEW th \in Threads, NewSegment(th)
    PROVE  AllocInv'
<1>1. PICK s \in Segments :
        /\ \A h \in Threads : s \notin Elems(segs[h]) /\ aseg[h] # s
        /\ segs' = [segs EXCEPT ![th] = <<s>> \o @]
  BY DEF NewSegment
<1>2. PICK l \in {"page", "format"} : pc' = [pc EXCEPT ![th] = l]
  BY DEF NewSegment, SegmentReturns, Goto
<1>3. /\ pc[th] = "segment" /\ orphans = <<>>
      /\ UNCHANGED <<after, adopted, aseg, dead, orphans>>
  BY DEF NewSegment
<1>4. /\ segs \in [Threads -> Seq(Segments)] /\ pc \in [Threads -> Controls]
      /\ None \notin Segments
  BY MainAssumption DEF AllocInv, OwnerTypes
<1>5. /\ segs' \in [Threads -> Seq(Segments)] /\ segs'[th] # <<>>
      /\ Elems(segs'[th]) = {s} \union Elems(segs[th])
      /\ NoDuplicates(segs[th]) => NoDuplicates(segs'[th])
      /\ \A h \in Threads : h # th => segs'[h] = segs[h]
  <2>1. segs[th] \in Seq(Segments)
    BY <1>4
  <2>2. segs'[th] = <<s>> \o segs[th]
    BY <1>1, <1>4
  <2>3. /\ <<s>> \o segs[th] \in Seq(Segments)
        /\ <<s>> \o segs[th] # <<>>
        /\ Elems(<<s>> \o segs[th]) = {s} \union Elems(segs[th])
        /\ NoDuplicates(segs[th]) /\ s \notin Elems(segs[th])
             => NoDuplicates(<<s>> \o segs[th])
    BY <2>1, Cons
  <2> QED BY <1>1, <1>4, <2>2, <2>3
<1>6. /\ \A t \in Threads : t # th => pc'[t] = pc[t]
      /\ pc'[th] = l
  BY <1>2, <1>4
<1>7. OwnerTypes'
  BY <1>2, <1>3, <1>4, <1>5 DEF AllocInv, OwnerTypes, Controls
<1>8. \A t \in Threads : /\ Adopting(t)' <=> Adopting(t)
                         /\ t # th => (Equipped(t)' <=> Equipped(t))
  BY <1>3, <1>6 DEF Adopting, Equipped
<1>9. ReturnInv' /\ AdoptInv'
  BY <1>3, <1>6, <1>8 DEF AllocInv, ReturnInv, AdoptInv
<1>10. th \notin dead /\ dead \subseteq Threads
  BY <1>3 DEF AllocInv, OrphanInv, OwnerTypes
<1>11. SegmentInv'
  <2>1. \A t \in Threads : Equipped(t)' => segs'[t] # <<>>
    BY <1>5, <1>8 DEF AllocInv, SegmentInv
  <2>2. Elems(orphans') = {}
    BY <1>3 DEF Elems
  <2>3. \A h \in dead' : segs'[h] = <<>>
    BY <1>3, <1>5, <1>10 DEF AllocInv, SegmentInv
  <2> QED BY <2>1, <2>2, <2>3 DEF SegmentInv
<1>12. OrphanInv'
  <2>1. \A t \in Threads : pc[t] = "gone" => pc'[t] = "gone"
    BY <1>3, <1>6
  <2>2. dead \subseteq Threads /\ Elems(orphans) \subseteq Threads
        /\ adopted \in [Threads -> Threads \union {None}]
    BY DEF AllocInv, OwnerTypes, Elems, Heaps
  <2> QED BY <1>3, <2>1, <2>2 DEF AllocInv, OrphanInv
<1>13. OwnerInv'
  <2> USE DEF OwnerInv
  <2>1. \A h \in Threads : NoDuplicates(segs'[h])
    BY <1>5 DEF AllocInv
  <2>2. \A h, k \in Threads : h # k => Elems(segs'[h]) \cap Elems(segs'[k]) = {}
    BY <1>1, <1>5 DEF AllocInv
  <2>3. \A h, k \in Threads : aseg'[k] \notin Elems(segs'[h])
    BY <1>1, <1>3, <1>5 DEF AllocInv
  <2> QED BY <1>3, <2>1, <2>2, <2>3 DEF AllocInv
<1> QED BY <1>7, <1>9, <1>11, <1>12, <1>13 DEF AllocInv

(* pop_orphan gives the orphan to one thread, which takes its first        *)
(* segment out of the orphan's list.                                       *)
LEMMA PopOrphanStep ==
    ASSUME AllocInv, NEW th \in Threads, PopOrphan(th)
    PROVE  AllocInv'
<1>1. PICK h : h = Head(orphans)
  OBVIOUS
<1>2. PICK s : s = Head(segs[h])
  OBVIOUS
<1>3. /\ pc[th] = "segment" /\ orphans # <<>>
      /\ adopted' = [adopted EXCEPT ![th] = h]
      /\ aseg' = [aseg EXCEPT ![th] = s]
      /\ segs' = [segs EXCEPT ![h] = Tail(@)]
      /\ orphans' = Tail(orphans)
      /\ pc' = [pc EXCEPT ![th] = "move"]
      /\ UNCHANGED <<after, dead>>
  BY <1>1, <1>2 DEF PopOrphan, Goto
<1>4. /\ segs \in [Threads -> Seq(Segments)] /\ pc \in [Threads -> Controls]
      /\ orphans \in Seq(Threads) /\ adopted \in [Threads -> Threads \union {None}]
      /\ aseg \in [Threads -> Segments \union {None}] /\ dead \subseteq Threads
      /\ None \notin Segments /\ None \notin Threads
  BY MainAssumption DEF AllocInv, OwnerTypes, Heaps
<1>5. /\ h \in Threads /\ Tail(orphans) \in Seq(Threads)
      /\ Elems(orphans) = {h} \union Elems(orphans')
      /\ NoDuplicates(orphans) => NoDuplicates(orphans') /\ h \notin Elems(orphans')
  BY <1>1, <1>3, <1>4, Uncons
<1>6. /\ h \in Elems(orphans) /\ segs[h] # <<>> /\ pc[h] = "gone" /\ h \notin dead
      /\ h \notin Elems(orphans') /\ NoDuplicates(orphans')
      /\ Elems(orphans') \subseteq Elems(orphans)
      /\ \A t \in Threads : adopted[t] # h
  <2>1. h \in Elems(orphans) /\ Elems(orphans') \subseteq Elems(orphans) /\ h # None
    BY <1>4, <1>5
  <2>2. segs[h] # <<>>
    BY <2>1 DEF AllocInv, SegmentInv
  <2>3. /\ pc[h] = "gone" /\ h \notin dead /\ NoDuplicates(orphans)
        /\ \A t \in Threads : adopted[t] # h
    BY <2>1 DEF AllocInv, OrphanInv
  <2> QED BY <1>5, <2>1, <2>2, <2>3
<1>7. /\ s \in Segments /\ segs' \in [Threads -> Seq(Segments)]
      /\ Elems(segs[h]) = {s} \union Elems(segs'[h])
      /\ NoDuplicates(segs[h]) => NoDuplicates(segs'[h]) /\ s \notin Elems(segs'[h])
      /\ \A k \in Threads : k # h => segs'[k] = segs[k]
  <2>1. segs[h] \in Seq(Segments)
    BY <1>4, <1>5
  <2>2. segs'[h] = Tail(segs[h])
    BY <1>3, <1>4, <1>5
  <2>3. /\ s \in Segments /\ Tail(segs[h]) \in Seq(Segments)
        /\ Elems(segs[h]) = {s} \union Elems(Tail(segs[h]))
        /\ NoDuplicates(segs[h])
             => NoDuplicates(Tail(segs[h])) /\ s \notin Elems(Tail(segs[h]))
    BY <1>2, <1>6, <2>1, Uncons
  <2> QED BY <1>3, <1>4, <2>2, <2>3
<1>8. /\ \A t \in Threads : t # th => /\ pc'[t] = pc[t] /\ adopted'[t] = adopted[t]
                                      /\ aseg'[t] = aseg[t]
      /\ pc'[th] = "move" /\ adopted'[th] = h /\ aseg'[th] = s
      /\ th # h
  BY <1>3, <1>4, <1>6
<1>9. OwnerTypes'
  BY <1>3, <1>4, <1>5, <1>7 DEF AllocInv, OwnerTypes, Controls, Heaps
<1>10. \A t \in Threads : /\ t # th => (Adopting(t)' <=> Adopting(t))
                          /\ Adopting(th)'
                          /\ Equipped(t)' => Equipped(t) /\ pc'[t] # "gone"
  BY <1>3, <1>8 DEF Adopting, Equipped
<1>11. ReturnInv' /\ AdoptInv'
  BY <1>3, <1>5, <1>7, <1>8, <1>10 DEF AllocInv, ReturnInv, AdoptInv
<1>12. SegmentInv'
  <2>1. \A t \in Threads : Equipped(t)' => segs'[t] # <<>>
    BY <1>6, <1>7, <1>8, <1>10 DEF AllocInv, SegmentInv
  <2>2. \A k \in Elems(orphans') : k \in Threads /\ segs'[k] # <<>>
    <3>1. Elems(orphans) \subseteq Threads
      BY <1>4 DEF Elems
    <3> QED BY <1>6, <1>7, <3>1 DEF AllocInv, SegmentInv
  <2>3. \A k \in dead' : segs'[k] = <<>>
    BY <1>3, <1>4, <1>6, <1>7 DEF AllocInv, SegmentInv
  <2> QED BY <2>1, <2>2, <2>3 DEF SegmentInv
<1>13. OrphanInv'
  <2>1. \A t \in Threads : pc[t] = "gone" => pc'[t] = "gone"
    BY <1>3, <1>8
  <2>2. dead \subseteq Threads /\ Elems(orphans) \subseteq Threads
    BY <1>4 DEF Elems
  <2>3. \A k \in Elems(orphans') \union dead' : pc'[k] = "gone"
    BY <1>3, <1>6, <2>1, <2>2 DEF AllocInv, OrphanInv
  <2>4. Elems(orphans') \cap dead' = {}
    BY <1>3, <1>6 DEF AllocInv, OrphanInv
  <2>5. \A t \in Threads : adopted'[t] # None =>
            pc'[adopted'[t]] = "gone" /\ adopted'[t] \notin Elems(orphans') \union dead'
    BY <1>3, <1>4, <1>5, <1>6, <1>8, <2>1 DEF AllocInv, OrphanInv
  <2>6. \A t, u \in Threads : adopted'[t] = adopted'[u] /\ adopted'[t] # None => t = u
    BY <1>6, <1>8 DEF AllocInv, OrphanInv
  <2> QED BY <1>6, <2>3, <2>4, <2>5, <2>6 DEF OrphanInv
<1>14. OwnerInv'
  <2> USE DEF OwnerInv
  <2>1. \A k \in Threads : NoDuplicates(segs'[k]) /\ Elems(segs'[k]) \subseteq Elems(segs[k])
    BY <1>7 DEF AllocInv
  <2>2. \A j, k \in Threads : j # k => Elems(segs'[j]) \cap Elems(segs'[k]) = {}
    BY <2>1 DEF AllocInv
  <2>3. \A k \in Threads : s \notin Elems(segs'[k])
    BY <1>5, <1>7 DEF AllocInv
  <2>4. \A j, k \in Threads : aseg'[k] \notin Elems(segs'[j])
    BY <1>8, <2>1, <2>3 DEF AllocInv
  <2>5. \A t \in Threads : aseg[t] # s
    BY <1>5, <1>7 DEF AllocInv
  <2>6. \A j, k \in Threads : aseg'[j] = aseg'[k] /\ aseg'[j] # None => j = k
    BY <1>8, <2>5 DEF AllocInv
  <2> QED BY <2>1, <2>2, <2>4, <2>6
<1> QED BY <1>9, <1>11, <1>12, <1>13, <1>14 DEF AllocInv

(* The end of an adoption: the segment gets its new owner and the orphan   *)
(* goes back to the list or is deleted.                                    *)
LEMMA SettleStep ==
    ASSUME AllocInv, NEW th \in Threads, Settle(th)
    PROVE  AllocInv'
<1>1. PICK h : h = adopted[th]
  OBVIOUS
<1>2. PICK s : s = aseg[th]
  OBVIOUS
<1>3. PICK l \in {"page", "format"} : pc' = [pc EXCEPT ![th] = l]
  BY DEF Settle, SegmentReturns, Goto
<1>4. /\ pc[th] = "settle"
      /\ IF segs[h] # <<>>
         THEN orphans' = <<h>> \o orphans /\ UNCHANGED dead
         ELSE dead' = dead \union {h} /\ UNCHANGED orphans
      /\ segs' = [segs EXCEPT ![th] = <<s>> \o @]
      /\ adopted' = [adopted EXCEPT ![th] = None]
      /\ aseg' = [aseg EXCEPT ![th] = None]
      /\ UNCHANGED after
  BY <1>1, <1>2 DEF Settle
<1>5. /\ segs \in [Threads -> Seq(Segments)] /\ pc \in [Threads -> Controls]
      /\ orphans \in Seq(Threads) /\ adopted \in [Threads -> Threads \union {None}]
      /\ aseg \in [Threads -> Segments \union {None}] /\ dead \subseteq Threads
      /\ None \notin Segments /\ None \notin Threads
  BY MainAssumption DEF AllocInv, OwnerTypes, Heaps
<1>6. h \in Threads /\ s \in Segments
  BY <1>1, <1>2, <1>4 DEF AllocInv, AdoptInv, Adopting
<1>7. /\ pc[h] = "gone" /\ h \notin Elems(orphans) /\ h \notin dead /\ th # h
      /\ \A t \in Threads : t # th => adopted[t] # h
  BY <1>1, <1>4, <1>5, <1>6 DEF AllocInv, OrphanInv
<1>8. /\ segs' \in [Threads -> Seq(Segments)] /\ segs'[th] # <<>>
      /\ Elems(segs'[th]) = {s} \union Elems(segs[th])
      /\ NoDuplicates(segs[th]) /\ s \notin Elems(segs[th]) => NoDuplicates(segs'[th])
      /\ \A k \in Threads : k # th => segs'[k] = segs[k]
  <2>1. segs[th] \in Seq(Segments)
    BY <1>5
  <2>2. segs'[th] = <<s>> \o segs[th]
    BY <1>4, <1>5
  <2>3. /\ <<s>> \o segs[th] \in Seq(Segments)
        /\ <<s>> \o segs[th] # <<>>
        /\ Elems(<<s>> \o segs[th]) = {s} \union Elems(segs[th])
        /\ NoDuplicates(segs[th]) /\ s \notin Elems(segs[th])
             => NoDuplicates(<<s>> \o segs[th])
    BY <1>6, <2>1, Cons
  <2> QED BY <1>4, <1>5, <2>2, <2>3
<1>9. /\ \A t \in Threads : t # th => /\ pc'[t] = pc[t] /\ adopted'[t] = adopted[t]
                                      /\ aseg'[t] = aseg[t]
      /\ pc'[th] = l /\ adopted'[th] = None /\ aseg'[th] = None
  BY <1>3, <1>4, <1>5
<1>10. /\ orphans' \in Seq(Threads) /\ dead' \subseteq Threads /\ NoDuplicates(orphans')
       /\ \/ Elems(orphans') = Elems(orphans) \union {h} /\ dead' = dead /\ segs[h] # <<>>
          \/ Elems(orphans') = Elems(orphans) /\ dead' = dead \union {h} /\ segs[h] = <<>>
  <2>1. NoDuplicates(orphans)
    BY DEF AllocInv, OrphanInv
  <2>2. /\ <<h>> \o orphans \in Seq(Threads)
        /\ Elems(<<h>> \o orphans) = {h} \union Elems(orphans)
        /\ NoDuplicates(<<h>> \o orphans)
    BY <1>5, <1>6, <1>7, <2>1, Cons
  <2> QED BY <1>4, <1>5, <1>6, <2>1, <2>2
<1>11. OwnerTypes'
  BY <1>3, <1>4, <1>5, <1>8, <1>10 DEF AllocInv, OwnerTypes, Controls, Heaps
<1>12. \A t \in Threads : /\ t # th => /\ Adopting(t)' <=> Adopting(t)
                                       /\ Equipped(t)' <=> Equipped(t)
                          /\ ~ Adopting(th)'
  BY <1>4, <1>9 DEF Adopting, Equipped
<1>13. ReturnInv' /\ AdoptInv'
  BY <1>4, <1>9, <1>12 DEF AllocInv, ReturnInv, AdoptInv
<1>14. dead \subseteq Threads /\ Elems(orphans) \subseteq Threads
       /\ th \notin dead /\ th \notin Elems(orphans)
  BY <1>4, <1>5 DEF Elems, AllocInv, OrphanInv
<1>15. SegmentInv'
  <2>1. \A t \in Threads : Equipped(t)' => segs'[t] # <<>>
    BY <1>8, <1>12 DEF AllocInv, SegmentInv
  <2>2. \A k \in Elems(orphans') : segs'[k] # <<>>
    BY <1>6, <1>8, <1>7, <1>10, <1>14 DEF AllocInv, SegmentInv
  <2>3. \A k \in dead' : segs'[k] = <<>>
    BY <1>6, <1>8, <1>7, <1>10, <1>14 DEF AllocInv, SegmentInv
  <2> QED BY <2>1, <2>2, <2>3 DEF SegmentInv
<1>16. OrphanInv'
  <2>1. \A t \in Threads : pc[t] = "gone" => pc'[t] = "gone"
    BY <1>4, <1>9
  <2>2. Elems(orphans') \union dead' = Elems(orphans) \union dead \union {h}
    BY <1>10
  <2>3. \A k \in Elems(orphans') \union dead' : pc'[k] = "gone"
    BY <1>6, <1>7, <1>14, <2>1, <2>2 DEF AllocInv, OrphanInv
  <2>4. Elems(orphans') \cap dead' = {}
    BY <1>7, <1>10 DEF AllocInv, OrphanInv
  <2>5. \A t \in Threads : adopted'[t] # None =>
            pc'[adopted'[t]] = "gone" /\ adopted'[t] \notin Elems(orphans') \union dead'
    <3> SUFFICES ASSUME NEW t \in Threads, adopted'[t] # None
                 PROVE  /\ pc'[adopted'[t]] = "gone"
                        /\ adopted'[t] \notin Elems(orphans') \union dead'
      OBVIOUS
    <3>1. t # th /\ adopted'[t] = adopted[t] /\ adopted[t] \in Threads /\ adopted[t] # h
      BY <1>5, <1>7, <1>9
    <3>2. pc[adopted[t]] = "gone" /\ adopted[t] \notin Elems(orphans) \union dead
      BY <3>1, <1>5 DEF AllocInv, OrphanInv
    <3> QED BY <2>1, <2>2, <3>1, <3>2
  <2>6. \A t, u \in Threads : adopted'[t] = adopted'[u] /\ adopted'[t] # None => t = u
    BY <1>9 DEF AllocInv, OrphanInv
  <2> QED BY <1>10, <2>3, <2>4, <2>5, <2>6 DEF OrphanInv
<1>17. OwnerInv'
  <2> USE DEF OwnerInv
  <2>1. \A k \in Threads : s \notin Elems(segs[k])
    BY <1>2 DEF AllocInv
  <2>2. \A k \in Threads : NoDuplicates(segs'[k])
    BY <1>8, <2>1 DEF AllocInv
  <2>3. \A j, k \in Threads : j # k => Elems(segs'[j]) \cap Elems(segs'[k]) = {}
    <3> SUFFICES ASSUME NEW j \in Threads, NEW k \in Threads, j # k
                 PROVE  Elems(segs'[j]) \cap Elems(segs'[k]) = {}
      OBVIOUS
    <3>1. Elems(segs[j]) \cap Elems(segs[k]) = {}
      BY DEF AllocInv
    <3>2. CASE j = th
      BY <1>8, <2>1, <3>1, <3>2
    <3>3. CASE k = th
      BY <1>8, <2>1, <3>1, <3>3
    <3> QED BY <1>8, <3>1, <3>2, <3>3
  <2>4. \A t \in Threads : t # th => aseg[t] # s
    BY <1>2, <1>5, <1>6 DEF AllocInv
  <2>5. \A j \in Threads : None \notin Elems(segs'[j])
    BY <1>5, <1>8 DEF Elems
  <2>6. \A j, k \in Threads : aseg'[k] \notin Elems(segs'[j])
    BY <1>8, <1>9, <2>4, <2>5 DEF AllocInv
  <2>7. \A j, k \in Threads : aseg'[j] = aseg'[k] /\ aseg'[j] # None => j = k
    BY <1>9 DEF AllocInv
  <2> QED BY <2>2, <2>3, <2>6, <2>7
<1> QED BY <1>11, <1>13, <1>15, <1>16, <1>17 DEF AllocInv

(* push_orphan of finalize_heap.                                           *)
LEMMA PushOrphanStep ==
    ASSUME AllocInv, NEW th \in Threads, PushOrphan(th)
    PROVE  AllocInv'
<1>1. /\ pc[th] = "orphan" /\ orphans' = <<th>> \o orphans
      /\ pc' = [pc EXCEPT ![th] = "gone"]
      /\ UNCHANGED <<after, adopted, aseg, dead, segs>>
  BY DEF PushOrphan, Goto
<1>2. /\ pc \in [Threads -> Controls] /\ orphans \in Seq(Threads) /\ dead \subseteq Threads
      /\ adopted \in [Threads -> Threads \union {None}] /\ Elems(orphans) \subseteq Threads
  BY DEF AllocInv, OwnerTypes, Heaps, Elems
<1>3. /\ th \notin Elems(orphans) /\ th \notin dead /\ segs[th] # <<>>
      /\ \A t \in Threads : adopted[t] # None => adopted[t] # th
  BY <1>1 DEF AllocInv, OrphanInv, SegmentInv, Equipped
<1>4. /\ orphans' \in Seq(Threads) /\ NoDuplicates(orphans')
      /\ Elems(orphans') = {th} \union Elems(orphans)
  <2>1. NoDuplicates(orphans)
    BY DEF AllocInv, OrphanInv
  <2> QED BY <1>1, <1>2, <1>3, <2>1, Cons
<1>5. /\ \A t \in Threads : t # th => pc'[t] = pc[t]
      /\ pc'[th] = "gone"
  BY <1>1, <1>2
<1>6. OwnerTypes'
  BY <1>1, <1>4 DEF AllocInv, OwnerTypes, Controls
<1>7. \A t \in Threads : (Adopting(t)' <=> Adopting(t)) /\ (Equipped(t)' => Equipped(t))
  BY <1>1, <1>5 DEF Adopting, Equipped
<1>8. ReturnInv' /\ AdoptInv'
  BY <1>1, <1>5, <1>7 DEF AllocInv, ReturnInv, AdoptInv
<1>9. SegmentInv'
  BY <1>1, <1>3, <1>4, <1>7 DEF AllocInv, SegmentInv
<1>10. OrphanInv'
  <2>1. \A t \in Threads : pc[t] = "gone" => pc'[t] = "gone"
    BY <1>1, <1>5
  <2>2. \A k \in Elems(orphans') \union dead' : pc'[k] = "gone"
    BY <1>1, <1>2, <1>4, <1>5, <2>1 DEF AllocInv, OrphanInv
  <2>3. Elems(orphans') \cap dead' = {}
    BY <1>1, <1>3, <1>4 DEF AllocInv, OrphanInv
  <2>4. \A t \in Threads : adopted'[t] # None =>
            pc'[adopted'[t]] = "gone" /\ adopted'[t] \notin Elems(orphans') \union dead'
    BY <1>1, <1>2, <1>3, <1>4, <2>1 DEF AllocInv, OrphanInv
  <2>5. \A t, u \in Threads : adopted'[t] = adopted'[u] /\ adopted'[t] # None => t = u
    BY <1>1 DEF AllocInv, OrphanInv
  <2> QED BY <1>4, <2>2, <2>3, <2>4, <2>5 DEF OrphanInv
<1>11. OwnerInv'
  BY <1>1 DEF AllocInv, OwnerInv
<1> QED BY <1>6, <1>8, <1>9, <1>10, <1>11 DEF AllocInv

----------------------------------------------------------------------------
LEMMA AllocStep == AllocInv /\ [Next]_vars => AllocInv'
<1> SUFFICES ASSUME AllocInv, [Next]_vars PROVE AllocInv'
  OBVIOUS
<1>1. CASE UNCHANGED vars
  BY <1>1 DEF vars, threadVars, heapVars, AllocInv, OwnerTypes, ReturnInv, AdoptInv,
              SegmentInv, OrphanInv, OwnerInv, Adopting, Equipped
<1>2. ASSUME NEW th \in Threads,
             \/ StartThread(th) \/ NewSegment(th) \/ PopOrphan(th) \/ MovePage(th)
             \/ MoveDone(th) \/ Settle(th) \/ TakePage(th) \/ Format(th)
             \/ AllocFast(th) \/ AllocRecycle(th) \/ AllocSlow(th)
             \/ \E p \in Pages : DeallocLocal(th, p) \/ DeallocForeign(th, p)
             \/ Push(th) \/ PushDone(th)
             \/ ExportSort(th) \/ ExportSend(th) \/ ExportDone(th)
             \/ ExitThread(th) \/ ExitImport(th) \/ PushOrphan(th)
      PROVE  AllocInv'
  <2> DEFINE Quiet(l, r) ==
        /\ pc' = [pc EXCEPT ![th] = l] /\ after' = [after EXCEPT ![th] = r]
        /\ pc[th] # "gone"
        /\ Adopting(th)' <=> Adopting(th)
        /\ Equipped(th)' => Equipped(th)
        /\ l = "push" => r \in {"settle", "page", "orphan"}
        /\ l = "export" => r \in {"run", "orphan"}
        /\ UNCHANGED <<adopted, aseg, dead, orphans, segs>>
  <2>1. ASSUME NEW l \in Controls, NEW r \in {"run", "settle", "page", "orphan"}, Quiet(l, r)
        PROVE  AllocInv'
    BY <2>1, QuietStep
  <2>2. /\ pc \in [Threads -> Controls]
        /\ after \in [Threads -> {"run", "settle", "page", "orphan"}]
        /\ pc[th] = "push" => after[th] \in {"settle", "page", "orphan"}
        /\ pc[th] = "export" => after[th] \in {"run", "orphan"}
    BY DEF AllocInv, OwnerTypes, ReturnInv
  <2>3. ASSUME NEW l \in Controls, NEW r \in {"run", "settle", "page", "orphan"},
               pc' = [pc EXCEPT ![th] = l], after' = [after EXCEPT ![th] = r]
        PROVE  pc'[th] = l /\ after'[th] = r
    BY <2>2, <2>3
  <2>4. UNCHANGED pc => pc' = [pc EXCEPT ![th] = pc[th]]
    BY <2>2
  <2>5. UNCHANGED after => after' = [after EXCEPT ![th] = after[th]]
    BY <2>2
  <2>6. \A l : Goto(th, l) <=> pc' = [pc EXCEPT ![th] = l]
    BY DEF Goto
  <2>7. \A l, r : Call(th, l, r) <=> /\ pc' = [pc EXCEPT ![th] = l]
                                     /\ after' = [after EXCEPT ![th] = r]
    BY DEF Call, Goto
  <2>8. CASE \/ MovePage(th) \/ AllocFast(th) \/ AllocRecycle(th) \/ Push(th)
             \/ ExportSort(th) \/ ExportSend(th)
             \/ \E p \in Pages : DeallocLocal(th, p)
    <3>1. /\ pc[th] \in {"move", "run", "push", "export"}
          /\ UNCHANGED <<pc, after, adopted, aseg, dead, orphans, segs>>
      BY <2>8 DEF MovePage, AllocFast, AllocRecycle, MayAlloc, Push, ExportSort, ExportSend,
                  DeallocLocal, threadVars, heapVars
    <3>2. Quiet(pc[th], after[th])
      BY <2>2, <2>4, <2>5, <3>1 DEF Adopting, Equipped
    <3> HIDE DEF Quiet
    <3> QED BY <2>1, <2>2, <3>2
  <2>9. CASE StartThread(th)
    <3>1. Quiet("segment", after[th])
      BY <2>2, <2>3, <2>5, <2>6, <2>9 DEF StartThread, heapVars, Adopting, Equipped
    <3> HIDE DEF Quiet
    <3> QED BY <2>1, <2>2, <3>1 DEF Controls
  <2>10. CASE MoveDone(th)
    <3>1. Quiet("push", "settle")
      BY <2>2, <2>3, <2>7, <2>10 DEF MoveDone, ImportObjs, Adopting, Equipped
    <3> HIDE DEF Quiet
    <3> QED BY <2>1, <3>1 DEF Controls
  <2>11. CASE TakePage(th)
    <3>1. PICK l \in {"segment", "format"} : Goto(th, l)
      BY <2>11 DEF TakePage
    <3>2. pc[th] = "page" /\ UNCHANGED <<after, adopted, aseg, dead, orphans, segs>>
      BY <2>11 DEF TakePage
    <3>3. Quiet(l, after[th])
      BY <2>2, <2>3, <2>5, <2>6, <3>1, <3>2 DEF Adopting, Equipped
    <3> HIDE DEF Quiet
    <3> QED BY <2>1, <2>2, <3>1, <3>3 DEF Controls
  <2>12. CASE Format(th)
    <3>1. Quiet("run", after[th])
      BY <2>2, <2>3, <2>5, <2>6, <2>12 DEF Format, Adopting, Equipped
    <3> HIDE DEF Quiet
    <3> QED BY <2>1, <2>2, <3>1 DEF Controls
  <2>13. CASE AllocSlow(th)
    <3>1. Quiet("push", "page")
      BY <2>2, <2>3, <2>7, <2>13 DEF AllocSlow, MayAlloc, ImportObjs, Adopting, Equipped
    <3> HIDE DEF Quiet
    <3> QED BY <2>1, <3>1 DEF Controls
  <2>14. CASE \E p \in Pages : DeallocForeign(th, p)
    <3>1. /\ pc[th] = "run" /\ UNCHANGED <<adopted, aseg, dead, orphans, segs>>
          /\ Call(th, "export", "run") \/ UNCHANGED <<pc, after>>
      BY <2>14 DEF DeallocForeign
    <3>2. CASE Call(th, "export", "run")
      <4>1. Quiet("export", "run")
        BY <2>2, <2>3, <2>7, <3>1, <3>2 DEF Adopting, Equipped
      <4> HIDE DEF Quiet
      <4> QED BY <2>1, <4>1 DEF Controls
    <3>3. CASE UNCHANGED <<pc, after>>
      <4>1. Quiet("run", after[th])
        BY <2>2, <2>4, <2>5, <3>1, <3>3 DEF Adopting, Equipped
      <4> HIDE DEF Quiet
      <4> QED BY <2>1, <2>2, <4>1 DEF Controls
    <3> QED BY <3>1, <3>2, <3>3
  <2>15. CASE PushDone(th)
    <3>1. pc[th] = "push" /\ after[th] \in Controls
      BY <2>2, <2>15 DEF PushDone, Controls
    <3>2. Quiet(after[th], "run")
      BY <2>2, <2>3, <2>7, <2>15, <3>1 DEF PushDone, heapVars, Adopting, Equipped
    <3> HIDE DEF Quiet
    <3> QED BY <2>1, <3>1, <3>2
  <2>16. CASE ExportDone(th)
    <3>1. Quiet("run", after[th])
      BY <2>2, <2>3, <2>5, <2>6, <2>16
         DEF ExportDone, Exported, heapVars, Adopting, Equipped
    <3> HIDE DEF Quiet
    <3> QED BY <2>1, <2>2, <3>1 DEF Controls
  <2>17. CASE ExitThread(th)
    <3>1. Quiet("export", "orphan")
      BY <2>2, <2>3, <2>7, <2>17 DEF ExitThread, heapVars, Adopting, Equipped
    <3> HIDE DEF Quiet
    <3> QED BY <2>1, <3>1 DEF Controls
  <2>18. CASE ExitImport(th)
    <3>1. Quiet("push", "orphan")
      BY <2>2, <2>3, <2>7, <2>18 DEF ExitImport, Exported, ImportObjs, Adopting, Equipped
    <3> HIDE DEF Quiet
    <3> QED BY <2>1, <3>1 DEF Controls
  <2> QED
    BY <1>2, <2>8, <2>9, <2>10, <2>11, <2>12, <2>13, <2>14, <2>15, <2>16, <2>17, <2>18,
       NewSegmentStep, PopOrphanStep, SettleStep, PushOrphanStep
<1> QED BY <1>1, <1>2 DEF Next

(* However threads that start, end and allocate interleave, a segment      *)
(* belongs to one heap or to the one thread that is adopting it, and a     *)
(* deleted heap has none (heap::alloc_segment, heap_manager).              *)
THEOREM OneOwner == Spec => []SegmentsHaveOneOwner
<1>1. AllocInv => SegmentsHaveOneOwner
  <2> SUFFICES ASSUME AllocInv PROVE SegmentsHaveOneOwner
    OBVIOUS
  <2>1. ASSUME NEW h \in Threads, NEW k \in Threads,
               NEW i \in DOMAIN segs[h], NEW j \in DOMAIN segs[k], segs[h][i] = segs[k][j]
        PROVE  h = k /\ i = j
    <3>1. segs[h][i] \in Elems(segs[h]) /\ segs[k][j] \in Elems(segs[k])
      BY DEF Elems
    <3>2. h = k
      BY <2>1, <3>1 DEF AllocInv, OwnerInv
    <3> QED BY <2>1, <3>2 DEF AllocInv, OwnerInv, NoDuplicates
  <2> QED BY <2>1 DEF AllocInv, OwnerInv, SegmentInv, SegmentsHaveOneOwner
<1> QED BY <1>1, AllocInit, AllocStep, PTL DEF Spec

----------------------------------------------------------------------------
(* The objects of a page, those included that have been linked to a heap   *)
(* after it was deleted.                                                   *)
CarriesAll(t, p) ==
    todo[t][p] + toExport[t][p] + toImport[t][p] + Total([h \in Threads |-> entries[t][h][p]])

AllObjectsOf(p) == numFree[p] + live[p] + Total([t \in Threads |-> CarriesAll(t, p)])

AllConserved ==
    \A p \in Pages : AllObjectsOf(p) = IF heap[p] = None THEN 0 ELSE ObjsPerPage

CountTypes ==
    /\ todo \in [Threads -> [Pages -> Nat]] /\ toExport \in [Threads -> [Pages -> Nat]]
    /\ toImport \in [Threads -> [Pages -> Nat]]
    /\ entries \in [Threads -> [Threads -> [Pages -> Nat]]]
    /\ numFree \in [Pages -> Int] /\ live \in [Pages -> Nat]

PageTypes ==
    /\ newPage \in [Threads -> PagePtrs] /\ moved \in [Threads -> Nat]
    /\ used \in [Segments -> 0..MaxCut]
    /\ heap \in [Pages -> Heaps]

(* alloc_page has cut p out of its segment, and its header is to be        *)
(* written.                                                                *)
CutBy(t, p) == newPage[t] = p /\ p # NoPage

(* The thread is in alloc_page, after it has cut the page out.             *)
SettingUp(t) == pc[t] \in {"segment", "format"} \/ Adopting(t)

(* The header of a page is written once, by the thread that cut it out of  *)
(* a segment of its own; until then nobody knows the page.                 *)
FreshInv ==
    /\ \A t \in Threads, p \in Pages : CutBy(t, p) =>
        /\ SettingUp(t)
        /\ p[1] \in Elems(segs[t]) /\ p[2] <= used[p[1]]
        /\ \A u \in Threads : CutBy(u, p) => u = t
    /\ \A t \in Threads : pc[t] = "format" => newPage[t] \in Pages
    /\ \A p \in Pages : heap[p] = None <=> p[2] > used[p[1]] \/ \E t \in Threads : CutBy(t, p)

KnownPages == {p \in Pages : heap[p] # None}
KnownPtrs  == KnownPages \union {NoPage}

(* The pointers that alloc and push_free_obj follow lead to pages with a   *)
(* header.                                                                 *)
PointerInv ==
    /\ cur \in [Threads -> KnownPtrs] /\ pageFree \in [Threads -> KnownPtrs]
    /\ next \in [Pages -> KnownPtrs]

(* A page without header has no objects.                                   *)
NoObjects(p) ==
    /\ numFree[p] = 0 /\ live[p] = 0
    /\ \A t \in Threads : todo[t][p] = 0 /\ toExport[t][p] = 0 /\ toImport[t][p] = 0
    /\ \A t, h \in Threads : entries[t][h][p] = 0

CountInv ==
    /\ CountTypes /\ AllConserved
    /\ \A p \in Pages : heap[p] = None => NoObjects(p)
    /\ \A t \in Threads : pc[t] # "push" => \A p \in Pages : todo[t][p] = 0

PageInv == PageTypes /\ FreshInv /\ PointerInv

ConserveInv == AllocInv /\ PageInv /\ CountInv

----------------------------------------------------------------------------
LEMMA NoPageIsNoPage == NoPage \notin Pages /\ Pages \subseteq PagePtrs /\ NoPage \in PagePtrs
BY DEF NoPage, Pages, PagePtrs

LEMMA PageParts ==
    ASSUME NEW p \in Pages
    PROVE  /\ p[1] \in Segments /\ p[2] \in 1..MaxCut /\ p = <<p[1], p[2]>>
           /\ p # NoPage
BY NoPageIsNoPage DEF Pages

Sent(t, p) == Total([h \in Threads |-> entries[t][h][p]])

LEMMA SentType ==
    ASSUME CountTypes, NEW t \in Threads, NEW p \in Pages
    PROVE  /\ Sent(t, p) \in Nat /\ CarriesAll(t, p) \in Nat
           /\ CarriesAll(t, p) = todo[t][p] + toExport[t][p] + toImport[t][p] + Sent(t, p)
<1>1. [h \in Threads |-> entries[t][h][p]] \in [Threads -> Nat]
  BY DEF CountTypes
<1>2. Sent(t, p) \in Nat
  BY <1>1, PairsFinite, MainAssumption DEF Sent
<1>3. CarriesAll(t, p) = todo[t][p] + toExport[t][p] + toImport[t][p] + Sent(t, p)
  BY DEF CarriesAll, Sent
<1>4. todo[t][p] \in Nat /\ toExport[t][p] \in Nat /\ toImport[t][p] \in Nat
  BY DEF CountTypes
<1> QED BY <1>2, <1>3, <1>4

LEMMA SentTypes ==
    CountTypes => \A t \in Threads, p \in Pages :
        /\ Sent(t, p) \in Nat /\ CarriesAll(t, p) \in Nat
        /\ CarriesAll(t, p) = todo[t][p] + toExport[t][p] + toImport[t][p] + Sent(t, p)
BY SentType

LEMMA SentTypesNext ==
    CountTypes' => (\A t \in Threads, p \in Pages :
        /\ Sent(t, p) \in Nat /\ CarriesAll(t, p) \in Nat
        /\ CarriesAll(t, p) = todo[t][p] + toExport[t][p] + toImport[t][p] + Sent(t, p))'
BY SentTypes, PTL

LEMMA SentTypeNext ==
    ASSUME CountTypes', NEW t \in Threads, NEW p \in Pages
    PROVE  /\ Sent(t, p)' \in Nat /\ CarriesAll(t, p)' \in Nat
           /\ CarriesAll(t, p)' = todo'[t][p] + toExport'[t][p] + toImport'[t][p] + Sent(t, p)'
BY SentTypesNext

LEMMA SentUpdate ==
    ASSUME CountTypes, CountTypes', NEW t \in Threads, NEW h \in Threads, NEW p \in Pages,
           \A k \in Threads : k # h => entries'[t][k][p] = entries[t][k][p]
    PROVE  /\ Sent(t, p) \in Nat /\ Sent(t, p)' \in Nat
           /\ Sent(t, p)' = Sent(t, p) - entries[t][h][p] + entries'[t][h][p]
<1>1. PICK f : f = [k \in Threads |-> entries[t][k][p]]
  OBVIOUS
<1>2. PICK g : g = [k \in Threads |-> entries'[t][k][p]]
  OBVIOUS
<1>3. f \in [Threads -> Nat] /\ g \in [Threads -> Nat]
  BY <1>1, <1>2 DEF CountTypes
<1>4. /\ f[h] = entries[t][h][p] /\ g[h] = entries'[t][h][p]
      /\ \A k \in Threads : k # h => g[k] = f[k]
  BY <1>1, <1>2
<1>5. Sent(t, p) = Total(f) /\ Sent(t, p)' = Total(g)
  BY <1>1, <1>2 DEF Sent, Total
<1>6. Total(f) \in Nat /\ Total(g) \in Nat /\ Total(g) = Total(f) - f[h] + g[h]
  BY <1>3, <1>4, TotalUpdate, MainAssumption
<1> QED BY <1>4, <1>5, <1>6

LEMMA SentStays ==
    ASSUME NEW t \in Threads, NEW p \in Pages, entries'[t] = entries[t]
    PROVE  Sent(t, p)' = Sent(t, p)
BY DEF Sent, Total

CarriesBoth(t, u, p) == IF t = u THEN CarriesAll(t, p) ELSE CarriesAll(t, p) + CarriesAll(u, p)

(* The objects of page p when only the lists of t and u change.            *)
LEMMA ObjectsUpdate ==
    ASSUME CountTypes, CountTypes', NEW t \in Threads, NEW u \in Threads, NEW p \in Pages,
           \A k \in Threads : k \notin {t, u} =>
               /\ todo'[k] = todo[k] /\ toExport'[k] = toExport[k]
               /\ toImport'[k] = toImport[k] /\ entries'[k] = entries[k]
    PROVE  /\ AllObjectsOf(p) \in Int /\ AllObjectsOf(p)' \in Int
           /\ CarriesBoth(t, u, p) \in Nat /\ CarriesBoth(t, u, p)' \in Nat
           /\ AllObjectsOf(p)' = AllObjectsOf(p) - (numFree[p] + live[p] + CarriesBoth(t, u, p))
                              + (numFree'[p] + live'[p] + CarriesBoth(t, u, p)')
<1>1. PICK f : f = [k \in Threads |-> CarriesAll(k, p)]
  OBVIOUS
<1>2. PICK g : g = [k \in Threads |-> CarriesAll(k, p)']
  OBVIOUS
<1>3. f \in [Threads -> Nat] /\ g \in [Threads -> Nat]
  BY <1>1, <1>2, SentType, SentTypeNext
<1>4. ASSUME NEW k \in Threads, k \notin {t, u} PROVE g[k] = f[k]
  <2>1. Sent(k, p)' = Sent(k, p)
    BY <1>4, SentStays
  <2>2. /\ CarriesAll(k, p) = todo[k][p] + toExport[k][p] + toImport[k][p] + Sent(k, p)
        /\ CarriesAll(k, p)' = todo'[k][p] + toExport'[k][p] + toImport'[k][p] + Sent(k, p)'
    BY SentType, SentTypeNext
  <2> QED BY <1>1, <1>2, <1>4, <2>1, <2>2
<1>5. /\ AllObjectsOf(p) = numFree[p] + live[p] + Total(f)
      /\ AllObjectsOf(p)' = numFree'[p] + live'[p] + Total(g)
  <2>1. AllObjectsOf(p) = numFree[p] + live[p] + Total(f)
    BY <1>1 DEF AllObjectsOf
  <2>2. AllObjectsOf(p)' = numFree'[p] + live'[p] + Total(g)
    BY <1>2 DEF AllObjectsOf, Total
  <2> QED BY <2>1, <2>2
<1>6. /\ Total(f) \in Nat /\ Total(g) \in Nat
      /\ Total(g) = Total(f) - AtBoth(f, t, u) + AtBoth(g, t, u)
  BY <1>3, <1>4, TotalUpdateTwo, MainAssumption
<1>7. AtBoth(f, t, u) = CarriesBoth(t, u, p) /\ AtBoth(g, t, u) = CarriesBoth(t, u, p)'
  BY <1>1, <1>2 DEF AtBoth, CarriesBoth
<1>8. CarriesBoth(t, u, p) \in Nat /\ CarriesBoth(t, u, p)' \in Nat
  BY SentType, SentTypeNext DEF CarriesBoth
<1>9. numFree[p] \in Int /\ live[p] \in Nat /\ numFree'[p] \in Int /\ live'[p] \in Nat
  BY DEF CountTypes
<1> QED BY <1>5, <1>6, <1>7, <1>8, <1>9

----------------------------------------------------------------------------
(* Steps that keep the number of objects of every page.                    *)

(* A thread outside of import_objs has nothing to push.                    *)
NothingToPush(t) == pc[t] # "push" => \A p \in Pages : todo[t][p] = 0

LEMMA CountsStay ==
    ASSUME CountInv, UNCHANGED <<todo, toExport, toImport, entries, numFree, live>>,
           \A p \in Pages : heap'[p] = None <=> heap[p] = None,
           \A t \in Threads : NothingToPush(t)'
    PROVE  CountInv'
<1>1. CountTypes'
  BY DEF CountInv, CountTypes
<1>2. ASSUME NEW p \in Pages PROVE AllObjectsOf(p)' = AllObjectsOf(p) /\ (NoObjects(p)' <=> NoObjects(p))
  BY DEF AllObjectsOf, CarriesAll, Total, NoObjects
<1>3. AllConserved'
  BY <1>2 DEF CountInv, AllConserved
<1> QED BY <1>1, <1>2, <1>3 DEF CountInv, NothingToPush

(* Objects move between the lists of two threads, the pages and the        *)
(* program.                                                                *)
LEMMA CountsMove ==
    ASSUME CountInv, CountTypes', NEW t \in Threads, NEW u \in Threads, UNCHANGED heap,
           \A k \in Threads : k \notin {t, u} =>
               /\ todo'[k] = todo[k] /\ toExport'[k] = toExport[k]
               /\ toImport'[k] = toImport[k] /\ entries'[k] = entries[k],
           \A p \in Pages : /\ numFree'[p] + live'[p] + CarriesBoth(t, u, p)'
                               = numFree[p] + live[p] + CarriesBoth(t, u, p)
                            /\ heap[p] = None => NoObjects(p)',
           \A k \in Threads : NothingToPush(k)'
    PROVE  CountInv'
<1>1. ASSUME NEW p \in Pages PROVE AllObjectsOf(p)' = AllObjectsOf(p)
  <2>1. CountTypes
    BY DEF CountInv
  <2>2. /\ AllObjectsOf(p) \in Int /\ AllObjectsOf(p)' \in Int
        /\ CarriesBoth(t, u, p) \in Nat /\ CarriesBoth(t, u, p)' \in Nat
        /\ AllObjectsOf(p)' = AllObjectsOf(p) - (numFree[p] + live[p] + CarriesBoth(t, u, p))
                           + (numFree'[p] + live'[p] + CarriesBoth(t, u, p)')
    BY <2>1, ObjectsUpdate
  <2>3. numFree[p] \in Int /\ live[p] \in Nat /\ numFree'[p] \in Int /\ live'[p] \in Nat
    BY <2>1 DEF CountTypes
  <2>4. numFree'[p] + live'[p] + CarriesBoth(t, u, p)'
        = numFree[p] + live[p] + CarriesBoth(t, u, p)
    OBVIOUS
  <2> QED BY <2>2, <2>3, <2>4
<1>2. AllConserved'
  BY <1>1 DEF CountInv, AllConserved
<1> QED BY <1>2 DEF CountInv, NothingToPush

LEMMA Regroup ==
    ASSUME NEW a \in Int, NEW b \in Int, NEW c \in Int, NEW d \in Int, NEW e \in Int, NEW f \in Int
    PROVE  /\ a + b + (c + d + e + f) = a + b + c + d + e + f
           /\ a + (b - 1) + c + (d + 1) + e + f = a + b + c + d + e + f
OBVIOUS

(* One object of page q moves.                                             *)
LEMMA OneMoves ==
    ASSUME CountInv, CountTypes', NEW th \in Threads, NEW q \in Pages, UNCHANGED heap,
           heap[q] # None,
           \A k \in Threads : k # th =>
               /\ todo'[k] = todo[k] /\ toExport'[k] = toExport[k]
               /\ toImport'[k] = toImport[k] /\ entries'[k] = entries[k],
           \A p \in Pages : p # q =>
               /\ todo'[th][p] = todo[th][p] /\ toExport'[th][p] = toExport[th][p]
               /\ toImport'[th][p] = toImport[th][p]
               /\ \A h \in Threads : entries'[th][h][p] = entries[th][h][p]
               /\ numFree'[p] = numFree[p] /\ live'[p] = live[p],
           numFree'[q] + live'[q] + todo'[th][q] + toExport'[th][q] + toImport'[th][q] + Sent(th, q)'
           = numFree[q] + live[q] + todo[th][q] + toExport[th][q] + toImport[th][q] + Sent(th, q),
           \A k \in Threads : NothingToPush(k)'
    PROVE  CountInv'
<1>1. CountTypes
  BY DEF CountInv
<1>2. ASSUME NEW p \in Pages
      PROVE  /\ CarriesBoth(th, th, p) = todo[th][p] + toExport[th][p] + toImport[th][p] + Sent(th, p)
             /\ CarriesBoth(th, th, p)'
                = todo'[th][p] + toExport'[th][p] + toImport'[th][p] + Sent(th, p)'
             /\ todo[th][p] \in Nat /\ toExport[th][p] \in Nat /\ toImport[th][p] \in Nat
             /\ todo'[th][p] \in Nat /\ toExport'[th][p] \in Nat /\ toImport'[th][p] \in Nat
             /\ Sent(th, p) \in Nat /\ Sent(th, p)' \in Nat
             /\ numFree[p] \in Int /\ live[p] \in Nat /\ numFree'[p] \in Int /\ live'[p] \in Nat
  <2>1. CarriesBoth(th, th, p) = CarriesAll(th, p) /\ CarriesBoth(th, th, p)' = CarriesAll(th, p)'
    BY DEF CarriesBoth
  <2>2. /\ Sent(th, p) \in Nat
        /\ CarriesAll(th, p) = todo[th][p] + toExport[th][p] + toImport[th][p] + Sent(th, p)
    BY <1>1, SentType
  <2>3. /\ Sent(th, p)' \in Nat
        /\ CarriesAll(th, p)' = todo'[th][p] + toExport'[th][p] + toImport'[th][p] + Sent(th, p)'
    BY SentTypeNext
  <2> QED BY <1>1, <2>1, <2>2, <2>3 DEF CountTypes
<1>3. ASSUME NEW p \in Pages
      PROVE  numFree'[p] + live'[p] + CarriesBoth(th, th, p)'
             = numFree[p] + live[p] + CarriesBoth(th, th, p)
  <2>1. numFree'[p] + live'[p] + todo'[th][p] + toExport'[th][p] + toImport'[th][p] + Sent(th, p)'
        = numFree[p] + live[p] + todo[th][p] + toExport[th][p] + toImport[th][p] + Sent(th, p)
    <3>1. CASE p = q
      BY <3>1
    <3>2. CASE p # q
      <4>1. /\ \A h \in Threads : entries'[th][h][p] = entries[th][h][p]
            /\ numFree'[p] = numFree[p] /\ live'[p] = live[p]
            /\ todo'[th][p] = todo[th][p] /\ toExport'[th][p] = toExport[th][p]
            /\ toImport'[th][p] = toImport[th][p]
        BY <3>2
      <4>2. /\ entries[th][th][p] \in Nat /\ Sent(th, p) \in Nat
            /\ Sent(th, p)' = Sent(th, p) - entries[th][th][p] + entries'[th][th][p]
        BY <1>1, <4>1, SentUpdate DEF CountTypes
      <4>3. Sent(th, p)' = Sent(th, p)
        BY <4>1, <4>2
      <4> QED BY <4>1, <4>3
    <3> QED BY <3>1, <3>2
  <2>2. numFree[p] + live[p] + CarriesBoth(th, th, p)
        = numFree[p] + live[p] + todo[th][p] + toExport[th][p] + toImport[th][p] + Sent(th, p)
    BY <1>2, Regroup
  <2>3. numFree'[p] + live'[p] + CarriesBoth(th, th, p)'
        = numFree'[p] + live'[p] + todo'[th][p] + toExport'[th][p] + toImport'[th][p] + Sent(th, p)'
    BY <1>2, Regroup
  <2> QED BY <2>1, <2>2, <2>3
<1>4. ASSUME NEW p \in Pages, heap[p] = None PROVE NoObjects(p)'
  <2>1. NoObjects(p) /\ p # q
    BY <1>4 DEF CountInv
  <2>2. ASSUME NEW k \in Threads
        PROVE  /\ todo'[k][p] = 0 /\ toExport'[k][p] = 0 /\ toImport'[k][p] = 0
               /\ \A h \in Threads : entries'[k][h][p] = 0
    BY <2>1 DEF NoObjects
  <2> QED BY <2>1, <2>2 DEF NoObjects
<1> QED BY <1>3, <1>4, CountsMove

(* push_free_obj counts the object, and changes only the lists of pages.   *)
LEMMA PushCounts ==
    ASSUME CountTypes, NEW p \in Pages, PushFreeObj(p)
    PROVE  /\ numFree' \in [Pages -> Int] /\ numFree'[p] = numFree[p] + 1
           /\ \A q \in Pages : q # p => numFree'[q] = numFree[q]
BY DEF PushFreeObj, Add, CountTypes

LEMMA PushCountStep ==
    ASSUME CountInv, NEW th \in Threads, Push(th)
    PROVE  CountInv'
<1>1. PICK p \in Pages : /\ todo[th][p] > 0 /\ todo' = [todo EXCEPT ![th] = Take(@, p)]
                         /\ PushFreeObj(p)
  BY DEF Push
<1>2. pc[th] = "push" /\ UNCHANGED <<pc, entries, toExport, toImport, heap, live>>
  BY DEF Push
<1>3. CountTypes
  BY DEF CountInv
<1>4. /\ todo' \in [Threads -> [Pages -> Nat]] /\ todo'[th][p] = todo[th][p] - 1
      /\ \A q \in Pages : q # p => todo'[th][q] = todo[th][q]
      /\ \A t \in Threads : t # th => todo'[t] = todo[t]
  BY <1>1, <1>3 DEF CountTypes, Take
<1>5. /\ numFree' \in [Pages -> Int] /\ numFree'[p] = numFree[p] + 1
      /\ \A q \in Pages : q # p => numFree'[q] = numFree[q]
  BY <1>1, <1>3, PushCounts
<1>6. CountTypes'
  BY <1>2, <1>3, <1>4, <1>5 DEF CountTypes
<1>7. heap[p] # None
  BY <1>1 DEF CountInv, NoObjects
<1>8. numFree'[p] + live'[p] + todo'[th][p] + toExport'[th][p] + toImport'[th][p] + Sent(th, p)'
      = numFree[p] + live[p] + todo[th][p] + toExport[th][p] + toImport[th][p] + Sent(th, p)
  <2>1. Sent(th, p)' = Sent(th, p) /\ Sent(th, p) \in Nat
    BY <1>2, <1>3, SentStays, SentType
  <2>2. /\ numFree[p] \in Int /\ live[p] \in Nat /\ todo[th][p] \in Nat
        /\ toExport[th][p] \in Nat /\ toImport[th][p] \in Nat
    BY <1>3 DEF CountTypes
  <2>3. live'[p] = live[p] /\ toExport'[th][p] = toExport[th][p] /\ toImport'[th][p] = toImport[th][p]
    BY <1>2
  <2> QED BY <1>4, <1>5, <2>1, <2>2, <2>3
<1>9. ASSUME NEW t \in Threads PROVE NothingToPush(t)'
  BY <1>2, <1>4 DEF CountInv, NothingToPush
<1> QED BY <1>2, <1>4, <1>5, <1>6, <1>7, <1>8, <1>9, OneMoves

LEMMA DeallocLocalCountStep ==
    ASSUME CountInv, NEW th \in Threads, NEW p \in Pages, DeallocLocal(th, p)
    PROVE  CountInv'
<1>1. /\ pc[th] = "run" /\ live[p] > 0 /\ live' = Take(live, p) /\ PushFreeObj(p)
      /\ UNCHANGED <<pc, todo, entries, toExport, toImport, heap>>
  BY DEF DeallocLocal, threadVars
<1>2. CountTypes
  BY DEF CountInv
<1>3. /\ live' \in [Pages -> Nat] /\ live'[p] = live[p] - 1
      /\ \A q \in Pages : q # p => live'[q] = live[q]
  BY <1>1, <1>2 DEF CountTypes, Take
<1>4. /\ numFree' \in [Pages -> Int] /\ numFree'[p] = numFree[p] + 1
      /\ \A q \in Pages : q # p => numFree'[q] = numFree[q]
  BY <1>1, <1>2, PushCounts
<1>5. CountTypes'
  BY <1>1, <1>2, <1>3, <1>4 DEF CountTypes
<1>6. heap[p] # None
  BY <1>1 DEF CountInv, NoObjects
<1>7. numFree'[p] + live'[p] + todo'[th][p] + toExport'[th][p] + toImport'[th][p] + Sent(th, p)'
      = numFree[p] + live[p] + todo[th][p] + toExport[th][p] + toImport[th][p] + Sent(th, p)
  <2>1. Sent(th, p)' = Sent(th, p) /\ Sent(th, p) \in Nat
    BY <1>1, <1>2, SentStays, SentType
  <2>2. /\ numFree[p] \in Int /\ live[p] \in Nat /\ todo[th][p] \in Nat
        /\ toExport[th][p] \in Nat /\ toImport[th][p] \in Nat
    BY <1>2 DEF CountTypes
  <2>3. todo'[th][p] = todo[th][p] /\ toExport'[th][p] = toExport[th][p]
        /\ toImport'[th][p] = toImport[th][p]
    BY <1>1
  <2> QED BY <1>3, <1>4, <2>1, <2>2, <2>3
<1>8. ASSUME NEW t \in Threads PROVE NothingToPush(t)'
  BY <1>1 DEF CountInv, NothingToPush
<1> QED BY <1>1, <1>3, <1>4, <1>5, <1>6, <1>7, <1>8, OneMoves

LEMMA DeallocForeignCountStep ==
    ASSUME CountInv, AllocInv, NEW th \in Threads, NEW p \in Pages, DeallocForeign(th, p)
    PROVE  CountInv'
<1>1. /\ pc[th] = "run" /\ live[p] > 0 /\ live' = Take(live, p)
      /\ toExport' = [toExport EXCEPT ![th] = Add(@, p)]
      /\ pc' = [pc EXCEPT ![th] = "export"] \/ pc' = pc
      /\ UNCHANGED <<todo, entries, toImport, numFree, heap>>
  BY DEF DeallocForeign, Call, Goto
<1>2. CountTypes /\ pc \in [Threads -> Controls]
  BY DEF CountInv, AllocInv, OwnerTypes
<1>3. /\ live' \in [Pages -> Nat] /\ live'[p] = live[p] - 1
      /\ \A q \in Pages : q # p => live'[q] = live[q]
  BY <1>1, <1>2 DEF CountTypes, Take
<1>4. /\ toExport' \in [Threads -> [Pages -> Nat]] /\ toExport'[th][p] = toExport[th][p] + 1
      /\ \A q \in Pages : q # p => toExport'[th][q] = toExport[th][q]
      /\ \A t \in Threads : t # th => toExport'[t] = toExport[t]
  BY <1>1, <1>2 DEF CountTypes, Add
<1>5. CountTypes'
  BY <1>1, <1>2, <1>3, <1>4 DEF CountTypes
<1>6. heap[p] # None
  BY <1>1 DEF CountInv, NoObjects
<1>7. numFree'[p] + live'[p] + todo'[th][p] + toExport'[th][p] + toImport'[th][p] + Sent(th, p)'
      = numFree[p] + live[p] + todo[th][p] + toExport[th][p] + toImport[th][p] + Sent(th, p)
  <2>1. Sent(th, p)' = Sent(th, p) /\ Sent(th, p) \in Nat
    BY <1>1, <1>2, SentStays, SentType
  <2>2. /\ numFree[p] \in Int /\ live[p] \in Nat /\ todo[th][p] \in Nat
        /\ toExport[th][p] \in Nat /\ toImport[th][p] \in Nat
    BY <1>2 DEF CountTypes
  <2>3. todo'[th][p] = todo[th][p] /\ numFree'[p] = numFree[p]
        /\ toImport'[th][p] = toImport[th][p]
    BY <1>1
  <2>4. PICK a \in Int, b \in Int, c \in Int, d \in Int, e \in Int, f \in Int :
            /\ a = numFree[p] /\ b = live[p] /\ c = todo[th][p] /\ d = toExport[th][p]
            /\ e = toImport[th][p] /\ f = Sent(th, p)
    <3>1. /\ numFree[p] \in Int /\ live[p] \in Int /\ todo[th][p] \in Int
          /\ toExport[th][p] \in Int /\ toImport[th][p] \in Int /\ Sent(th, p) \in Int
      BY <2>1, <2>2
    <3> QED BY <3>1, Zenon
  <2>5. a + (b - 1) + c + (d + 1) + e + f = a + b + c + d + e + f
    BY Regroup
  <2> QED BY <1>3, <1>4, <2>1, <2>3, <2>4, <2>5
<1>8. ASSUME NEW t \in Threads PROVE NothingToPush(t)'
  BY <1>1, <1>2 DEF CountInv, NothingToPush
<1> QED BY <1>1, <1>3, <1>4, <1>5, <1>6, <1>7, <1>8, OneMoves

(* alloc takes an object of the page q, or of no page.                     *)
LEMMA TakesObject ==
    ASSUME CountInv, NEW th \in Threads, NEW q, q \in Pages => heap[q] # None,
           numFree' = Take(numFree, q), live' = Add(live, q),
           UNCHANGED <<pc, todo, entries, toExport, toImport, heap>>
    PROVE  CountInv'
<1>1. CountTypes
  BY DEF CountInv
<1>2. ASSUME NEW t \in Threads PROVE NothingToPush(t)'
  BY DEF CountInv, NothingToPush
<1>3. CASE q \in Pages
  <2>1. /\ numFree' \in [Pages -> Int] /\ numFree'[q] = numFree[q] - 1
        /\ live' \in [Pages -> Nat] /\ live'[q] = live[q] + 1
        /\ \A p \in Pages : p # q => numFree'[p] = numFree[p] /\ live'[p] = live[p]
    BY <1>1, <1>3 DEF CountTypes, Take, Add
  <2>2. CountTypes'
    BY <1>1, <2>1 DEF CountTypes
  <2>3. numFree'[q] + live'[q] + todo'[th][q] + toExport'[th][q] + toImport'[th][q] + Sent(th, q)'
        = numFree[q] + live[q] + todo[th][q] + toExport[th][q] + toImport[th][q] + Sent(th, q)
    <3>1. Sent(th, q)' = Sent(th, q) /\ Sent(th, q) \in Nat
      BY <1>1, <1>3, SentStays, SentType
    <3>2. /\ numFree[q] \in Int /\ live[q] \in Nat /\ todo[th][q] \in Nat
          /\ toExport[th][q] \in Nat /\ toImport[th][q] \in Nat
      BY <1>1, <1>3 DEF CountTypes
    <3>3. todo'[th][q] = todo[th][q] /\ toExport'[th][q] = toExport[th][q]
          /\ toImport'[th][q] = toImport[th][q]
      OBVIOUS
    <3> QED BY <2>1, <3>1, <3>2, <3>3
  <2> QED BY <1>2, <1>3, <2>1, <2>2, <2>3, OneMoves
<1>4. CASE q \notin Pages
  <2>1. numFree' = numFree /\ live' = live
    BY <1>1, <1>4 DEF CountTypes, Take, Add
  <2> QED BY <1>2, <2>1, CountsStay
<1> QED BY <1>3, <1>4

LEMMA ExportSortCountStep ==
    ASSUME CountInv, PageTypes, NEW th \in Threads, ExportSort(th)
    PROVE  CountInv'
<1>1. PICK p \in Pages : /\ toExport[th][p] > 0
                         /\ toExport' = [toExport EXCEPT ![th] = Take(@, p)]
                         /\ entries' = [entries EXCEPT ![th][heap[p]] = Add(@, p)]
  BY DEF ExportSort
<1>2. UNCHANGED <<pc, todo, toImport, heap, numFree, live>>
  BY DEF ExportSort, pageVars
<1>3. CountTypes
  BY DEF CountInv
<1>4. heap[p] # None
  BY <1>1 DEF CountInv, NoObjects
<1>5. heap[p] \in Threads
  BY <1>4 DEF PageTypes, Heaps
<1>6. PICK h \in Threads : h = heap[p]
  BY <1>5
<1>7. /\ toExport' \in [Threads -> [Pages -> Nat]] /\ toExport'[th][p] = toExport[th][p] - 1
      /\ \A q \in Pages : q # p => toExport'[th][q] = toExport[th][q]
      /\ \A t \in Threads : t # th => toExport'[t] = toExport[t]
  BY <1>1, <1>3 DEF CountTypes, Take
<1>8. /\ entries' \in [Threads -> [Threads -> [Pages -> Nat]]]
      /\ entries'[th][h][p] = entries[th][h][p] + 1
      /\ \A k \in Threads : k # h => entries'[th][k] = entries[th][k]
      /\ \A q \in Pages : q # p => entries'[th][h][q] = entries[th][h][q]
      /\ \A t \in Threads : t # th => entries'[t] = entries[t]
  <2>1. entries' = [entries EXCEPT ![th][h] = Add(@, p)]
    BY <1>1, <1>6
  <2>2. entries \in [Threads -> [Threads -> [Pages -> Nat]]]
    BY <1>3 DEF CountTypes
  <2>3. /\ Add(entries[th][h], p) \in [Pages -> Nat]
        /\ Add(entries[th][h], p)[p] = entries[th][h][p] + 1
        /\ \A q \in Pages : q # p => Add(entries[th][h], p)[q] = entries[th][h][q]
    BY <2>2 DEF Add
  <2>4. PICK a \in [Pages -> Nat] : a = Add(entries[th][h], p)
    BY <2>3
  <2>5. entries' = [entries EXCEPT ![th][h] = a]
    BY <2>1, <2>4
  <2> QED BY <2>2, <2>3, <2>4, <2>5
<1>9. CountTypes'
  BY <1>2, <1>3, <1>7, <1>8 DEF CountTypes
<1>10. numFree'[p] + live'[p] + todo'[th][p] + toExport'[th][p] + toImport'[th][p] + Sent(th, p)'
       = numFree[p] + live[p] + todo[th][p] + toExport[th][p] + toImport[th][p] + Sent(th, p)
  <2>1. /\ Sent(th, p) \in Nat /\ entries[th][h][p] \in Nat
        /\ Sent(th, p)' = Sent(th, p) - entries[th][h][p] + entries'[th][h][p]
    BY <1>3, <1>8, <1>9, SentUpdate DEF CountTypes
  <2>2. Sent(th, p)' = Sent(th, p) + 1
    BY <1>8, <2>1
  <2>3. /\ numFree[p] \in Int /\ live[p] \in Nat /\ todo[th][p] \in Nat
        /\ toExport[th][p] \in Nat /\ toImport[th][p] \in Nat
    BY <1>3 DEF CountTypes
  <2>4. PICK a \in Int, b \in Int, c \in Int, d \in Int, e \in Int, f \in Int :
            /\ a = numFree[p] /\ b = live[p] /\ c = todo[th][p] /\ d = toExport[th][p]
            /\ e = toImport[th][p] /\ f = Sent(th, p)
    <3>1. /\ numFree[p] \in Int /\ live[p] \in Int /\ todo[th][p] \in Int
          /\ toExport[th][p] \in Int /\ toImport[th][p] \in Int /\ Sent(th, p) \in Int
      BY <2>1, <2>3
    <3> QED BY <3>1, Zenon
  <2>5. a + b + c + (d - 1) + e + (f + 1) = a + b + c + d + e + f
    BY Regroup
  <2> QED BY <1>2, <1>7, <2>2, <2>4, <2>5
<1>11. ASSUME NEW t \in Threads PROVE NothingToPush(t)'
  BY <1>2 DEF CountInv, NothingToPush
<1>12. \A q \in Pages : q # p =>
          /\ todo'[th][q] = todo[th][q] /\ toExport'[th][q] = toExport[th][q]
          /\ toImport'[th][q] = toImport[th][q]
          /\ \A k \in Threads : entries'[th][k][q] = entries[th][k][q]
          /\ numFree'[q] = numFree[q] /\ live'[q] = live[q]
  BY <1>2, <1>7, <1>8
<1>13. \A k \in Threads : k # th =>
          /\ todo'[k] = todo[k] /\ toExport'[k] = toExport[k]
          /\ toImport'[k] = toImport[k] /\ entries'[k] = entries[k]
  BY <1>2, <1>7, <1>8
<1>14. UNCHANGED heap
  BY <1>2
<1> QED BY <1>4, <1>9, <1>10, <1>11, <1>12, <1>13, <1>14, OneMoves

LEMMA TwoSums ==
    ASSUME NEW a \in Int, NEW b \in Int, NEW c \in Int, NEW d \in Int, NEW x \in Int,
           NEW k \in Int, NEW l \in Int, NEW m \in Int, NEW n \in Int
    PROVE  /\ a + b + (c + x) + (d - x) = a + b + c + d
           /\ c + b + 0 + d = 0 + b + c + d
           /\ (a + b + c + (d - x)) + (k + l + (m + x) + n) = (a + b + c + d) + (k + l + m + n)
           /\ (m + b + c + d) + (k + l + 0 + n) = (0 + b + c + d) + (k + l + m + n)
OBVIOUS

(* The lists of threads t and u, in terms of their parts.                  *)
LEMMA BothParts ==
    ASSUME CountTypes, NEW t \in Threads, NEW u \in Threads, NEW p \in Pages
    PROVE  /\ t = u => CarriesBoth(t, u, p)
                       = todo[t][p] + toExport[t][p] + toImport[t][p] + Sent(t, p)
           /\ t # u => CarriesBoth(t, u, p)
                       = (todo[t][p] + toExport[t][p] + toImport[t][p] + Sent(t, p))
                         + (todo[u][p] + toExport[u][p] + toImport[u][p] + Sent(u, p))
BY SentType DEF CarriesBoth

LEMMA BothPartsAll ==
    CountTypes => \A t, u \in Threads, p \in Pages :
        /\ t = u => CarriesBoth(t, u, p)
                    = todo[t][p] + toExport[t][p] + toImport[t][p] + Sent(t, p)
        /\ t # u => CarriesBoth(t, u, p)
                    = (todo[t][p] + toExport[t][p] + toImport[t][p] + Sent(t, p))
                      + (todo[u][p] + toExport[u][p] + toImport[u][p] + Sent(u, p))
BY BothParts

LEMMA BothPartsAllNext ==
    CountTypes' => (\A t, u \in Threads, p \in Pages :
        /\ t = u => CarriesBoth(t, u, p)
                    = todo[t][p] + toExport[t][p] + toImport[t][p] + Sent(t, p)
        /\ t # u => CarriesBoth(t, u, p)
                    = (todo[t][p] + toExport[t][p] + toImport[t][p] + Sent(t, p))
                      + (todo[u][p] + toExport[u][p] + toImport[u][p] + Sent(u, p)))'
BY BothPartsAll, PTL

LEMMA BothPartsNext ==
    ASSUME CountTypes', NEW t \in Threads, NEW u \in Threads, NEW p \in Pages
    PROVE  /\ t = u => CarriesBoth(t, u, p)'
                       = todo'[t][p] + toExport'[t][p] + toImport'[t][p] + Sent(t, p)'
           /\ t # u => CarriesBoth(t, u, p)'
                       = (todo'[t][p] + toExport'[t][p] + toImport'[t][p] + Sent(t, p)')
                         + (todo'[u][p] + toExport'[u][p] + toImport'[u][p] + Sent(u, p)')
BY BothPartsAllNext

LEMMA ExportSendCountStep ==
    ASSUME CountInv, NEW th \in Threads, ExportSend(th)
    PROVE  CountInv'
<1>1. PICK h \in Threads : /\ toImport' = [toImport EXCEPT ![h] = Plus(@, entries[th][h])]
                           /\ entries' = [entries EXCEPT ![th][h] = Empty]
  BY DEF ExportSend
<1>2. UNCHANGED <<pc, todo, toExport, heap, numFree, live>>
  BY DEF ExportSend, pageVars
<1>3. CountTypes
  BY DEF CountInv
<1>4. /\ toImport' \in [Threads -> [Pages -> Nat]]
      /\ \A p \in Pages : toImport'[h][p] = toImport[h][p] + entries[th][h][p]
      /\ \A t \in Threads : t # h => toImport'[t] = toImport[t]
  BY <1>1, <1>3 DEF CountTypes, Plus
<1>5. /\ entries' \in [Threads -> [Threads -> [Pages -> Nat]]]
      /\ \A p \in Pages : entries'[th][h][p] = 0
      /\ \A k \in Threads : k # h => entries'[th][k] = entries[th][k]
      /\ \A t \in Threads : t # th => entries'[t] = entries[t]
  BY <1>1, <1>3 DEF CountTypes, Empty
<1>6. CountTypes'
  BY <1>2, <1>3, <1>4, <1>5 DEF CountTypes
<1>7. ASSUME NEW p \in Pages
      PROVE  numFree'[p] + live'[p] + CarriesBoth(th, h, p)'
             = numFree[p] + live[p] + CarriesBoth(th, h, p)
  <2>1. /\ entries[th][h][p] \in Nat /\ Sent(th, p) \in Nat /\ Sent(h, p) \in Nat
        /\ todo[th][p] \in Nat /\ toExport[th][p] \in Nat /\ toImport[th][p] \in Nat
        /\ todo[h][p] \in Nat /\ toExport[h][p] \in Nat /\ toImport[h][p] \in Nat
    BY <1>3, SentType DEF CountTypes
  <2>2. Sent(th, p)' = Sent(th, p) - entries[th][h][p]
    <3>1. Sent(th, p)' = Sent(th, p) - entries[th][h][p] + entries'[th][h][p]
      BY <1>3, <1>5, <1>6, SentUpdate
    <3> QED BY <1>5, <2>1, <3>1
  <2>3. h # th => Sent(h, p)' = Sent(h, p)
    BY <1>5, SentStays
  <2>4. PICK a \in Int, b \in Int, c \in Int, d \in Int, x \in Int :
            /\ a = todo[th][p] /\ b = toExport[th][p] /\ c = toImport[th][p]
            /\ d = Sent(th, p) /\ x = entries[th][h][p]
    <3>1. /\ todo[th][p] \in Int /\ toExport[th][p] \in Int /\ toImport[th][p] \in Int
          /\ Sent(th, p) \in Int /\ entries[th][h][p] \in Int
      BY <2>1
    <3> QED BY <3>1, Zenon
  <2>5. PICK k \in Int, l \in Int, m \in Int, n \in Int :
            k = todo[h][p] /\ l = toExport[h][p] /\ m = toImport[h][p] /\ n = Sent(h, p)
    <3>1. /\ todo[h][p] \in Int /\ toExport[h][p] \in Int /\ toImport[h][p] \in Int
          /\ Sent(h, p) \in Int
      BY <2>1
    <3> QED BY <3>1, Zenon
  <2>6. CarriesBoth(th, h, p)' = CarriesBoth(th, h, p)
    <3>1. CASE th = h
      <4>1. CarriesBoth(th, h, p) = a + b + c + d
        BY <1>3, <2>4, <3>1, BothParts
      <4>2. CarriesBoth(th, h, p)'
            = todo'[th][p] + toExport'[th][p] + toImport'[th][p] + Sent(th, p)'
        BY <1>6, <3>1, BothPartsNext
      <4>3. toImport'[th][p] = c + x /\ Sent(th, p)' = d - x
        BY <1>4, <2>2, <2>4, <3>1
      <4>4. todo'[th][p] = a /\ toExport'[th][p] = b
        BY <1>2, <2>4
      <4>5. CarriesBoth(th, h, p)' = a + b + (c + x) + (d - x)
        BY <4>2, <4>3, <4>4
      <4> QED BY <4>1, <4>5, TwoSums
    <3>2. CASE th # h
      <4>1. CarriesBoth(th, h, p) = (a + b + c + d) + (k + l + m + n)
        BY <1>3, <2>4, <2>5, <3>2, BothParts
      <4>2. CarriesBoth(th, h, p)'
            = (todo'[th][p] + toExport'[th][p] + toImport'[th][p] + Sent(th, p)')
              + (todo'[h][p] + toExport'[h][p] + toImport'[h][p] + Sent(h, p)')
        BY <1>6, <3>2, BothPartsNext
      <4>3. /\ toImport'[th][p] = c /\ Sent(th, p)' = d - x
            /\ toImport'[h][p] = m + x /\ Sent(h, p)' = n
        BY <1>4, <2>2, <2>3, <2>4, <2>5, <3>2
      <4>4. todo'[th][p] = a /\ toExport'[th][p] = b /\ todo'[h][p] = k /\ toExport'[h][p] = l
        BY <1>2, <2>4, <2>5
      <4>5. CarriesBoth(th, h, p)' = (a + b + c + (d - x)) + (k + l + (m + x) + n)
        BY <4>2, <4>3, <4>4
      <4> QED BY <4>1, <4>5, TwoSums
    <3> QED BY <3>1, <3>2
  <2> QED BY <1>2, <2>6
<1>8. ASSUME NEW p \in Pages, heap[p] = None PROVE NoObjects(p)'
  <2>1. NoObjects(p)
    BY <1>8 DEF CountInv
  <2>2. ASSUME NEW t \in Threads PROVE toImport'[t][p] = 0
    BY <1>4, <2>1 DEF NoObjects
  <2>3. ASSUME NEW t \in Threads, NEW k \in Threads PROVE entries'[t][k][p] = 0
    <3>1. entries[t][k][p] = 0
      BY <2>1 DEF NoObjects
    <3>2. CASE t = th /\ k = h
      BY <1>5, <3>2
    <3>3. CASE t = th /\ k # h
      BY <1>5, <3>1, <3>3
    <3>4. CASE t # th
      BY <1>5, <3>1, <3>4
    <3> QED BY <3>2, <3>3, <3>4
  <2> QED BY <1>2, <2>1, <2>2, <2>3 DEF NoObjects
<1>9. ASSUME NEW t \in Threads PROVE NothingToPush(t)'
  BY <1>2 DEF CountInv, NothingToPush
<1>10. \A k \in Threads : k \notin {th, h} =>
          /\ todo'[k] = todo[k] /\ toExport'[k] = toExport[k]
          /\ toImport'[k] = toImport[k] /\ entries'[k] = entries[k]
  BY <1>2, <1>4, <1>5
<1>11. UNCHANGED heap
  BY <1>2
<1> QED BY <1>6, <1>7, <1>8, <1>9, <1>10, <1>11, CountsMove

(* import_objs takes the objects that were sent to a heap.                 *)
LEMMA ImportCountStep ==
    ASSUME CountInv, AllocInv, NEW th \in Threads, NEW h \in Threads, NEW ret,
           pc[th] # "push", ImportObjs(th, h, ret),
           UNCHANGED <<entries, toExport, heap, numFree, live>>
    PROVE  CountInv'
<1>1. /\ todo' = [todo EXCEPT ![th] = toImport[h]]
      /\ toImport' = [toImport EXCEPT ![h] = Empty]
      /\ pc' = [pc EXCEPT ![th] = "push"]
  BY DEF ImportObjs, Call, Goto
<1>2. CountTypes /\ pc \in [Threads -> Controls]
  BY DEF CountInv, AllocInv, OwnerTypes
<1>3. /\ toImport' \in [Threads -> [Pages -> Nat]] /\ \A p \in Pages : toImport'[h][p] = 0
      /\ \A t \in Threads : t # h => toImport'[t] = toImport[t]
  BY <1>1, <1>2 DEF CountTypes, Empty
<1>4. /\ todo' \in [Threads -> [Pages -> Nat]] /\ todo'[th] = toImport[h]
      /\ \A t \in Threads : t # th => todo'[t] = todo[t]
  BY <1>1, <1>2 DEF CountTypes
<1>5. CountTypes'
  BY <1>2, <1>3, <1>4 DEF CountTypes
<1>6. \A p \in Pages : todo[th][p] = 0
  BY DEF CountInv
<1>7. ASSUME NEW p \in Pages
      PROVE  numFree'[p] + live'[p] + CarriesBoth(th, h, p)'
             = numFree[p] + live[p] + CarriesBoth(th, h, p)
  <2>1. /\ Sent(th, p) \in Nat /\ Sent(h, p) \in Nat
        /\ todo[th][p] \in Nat /\ toExport[th][p] \in Nat /\ toImport[th][p] \in Nat
        /\ todo[h][p] \in Nat /\ toExport[h][p] \in Nat /\ toImport[h][p] \in Nat
    BY <1>2, SentType DEF CountTypes
  <2>2. Sent(th, p)' = Sent(th, p) /\ Sent(h, p)' = Sent(h, p)
    BY SentStays
  <2>3. PICK b \in Int, c \in Int, d \in Int :
            b = toExport[th][p] /\ c = toImport[th][p] /\ d = Sent(th, p)
    BY <2>1
  <2>4. PICK k \in Int, l \in Int, m \in Int, n \in Int :
            k = todo[h][p] /\ l = toExport[h][p] /\ m = toImport[h][p] /\ n = Sent(h, p)
    <3>1. /\ todo[h][p] \in Int /\ toExport[h][p] \in Int /\ toImport[h][p] \in Int
          /\ Sent(h, p) \in Int
      BY <2>1
    <3> QED BY <3>1, Zenon
  <2>5. CarriesBoth(th, h, p)' = CarriesBoth(th, h, p)
    <3>1. CASE th = h
      <4>1. CarriesBoth(th, h, p) = 0 + b + c + d
        BY <1>2, <1>6, <2>3, <3>1, BothParts
      <4>2. CarriesBoth(th, h, p)'
            = todo'[th][p] + toExport'[th][p] + toImport'[th][p] + Sent(th, p)'
        BY <1>5, <3>1, BothPartsNext
      <4>3. todo'[th][p] = c /\ toExport'[th][p] = b /\ toImport'[th][p] = 0 /\ Sent(th, p)' = d
        BY <1>3, <1>4, <2>2, <2>3, <3>1
      <4>4. CarriesBoth(th, h, p)' = c + b + 0 + d
        BY <4>2, <4>3
      <4> QED BY <4>1, <4>4, TwoSums
    <3>2. CASE th # h
      <4>1. CarriesBoth(th, h, p) = (0 + b + c + d) + (k + l + m + n)
        BY <1>2, <1>6, <2>3, <2>4, <3>2, BothParts
      <4>2. CarriesBoth(th, h, p)'
            = (todo'[th][p] + toExport'[th][p] + toImport'[th][p] + Sent(th, p)')
              + (todo'[h][p] + toExport'[h][p] + toImport'[h][p] + Sent(h, p)')
        BY <1>5, <3>2, BothPartsNext
      <4>3. todo'[th][p] = m /\ toExport'[th][p] = b /\ toImport'[th][p] = c /\ Sent(th, p)' = d
        BY <1>3, <1>4, <2>2, <2>3, <2>4, <3>2
      <4>4. todo'[h][p] = k /\ toExport'[h][p] = l /\ toImport'[h][p] = 0 /\ Sent(h, p)' = n
        BY <1>3, <1>4, <2>2, <2>4, <3>2
      <4>5. CarriesBoth(th, h, p)' = (m + b + c + d) + (k + l + 0 + n)
        BY <4>2, <4>3, <4>4
      <4> QED BY <4>1, <4>5, TwoSums
    <3> QED BY <3>1, <3>2
  <2> QED BY <2>5
<1>8. ASSUME NEW p \in Pages, heap[p] = None PROVE NoObjects(p)'
  <2>1. NoObjects(p)
    BY <1>8 DEF CountInv
  <2>2. ASSUME NEW t \in Threads PROVE toImport'[t][p] = 0 /\ todo'[t][p] = 0
    BY <1>3, <1>4, <2>1 DEF NoObjects
  <2> QED BY <2>1, <2>2 DEF NoObjects
<1>9. ASSUME NEW t \in Threads PROVE NothingToPush(t)'
  <2>1. CASE t = th
    BY <1>1, <1>2, <2>1 DEF NothingToPush
  <2>2. CASE t # th
    BY <1>1, <1>2, <1>4, <2>2 DEF CountInv, NothingToPush
  <2> QED BY <2>1, <2>2
<1>10. \A k \in Threads : k \notin {th, h} =>
          /\ todo'[k] = todo[k] /\ toExport'[k] = toExport[k]
          /\ toImport'[k] = toImport[k] /\ entries'[k] = entries[k]
  BY <1>3, <1>4
<1> QED BY <1>5, <1>7, <1>8, <1>9, <1>10, CountsMove

(* alloc_page gives a page its objects.                                    *)
LEMMA FormatCountStep ==
    ASSUME ConserveInv, NEW th \in Threads, Format(th)
    PROVE  CountInv'
<1>1. PICK p : p = newPage[th]
  OBVIOUS
<1>2. p \in Pages /\ CutBy(th, p)
  BY <1>1, NoPageIsNoPage DEF Format, ConserveInv, PageInv, FreshInv, CutBy
<1>3. heap[p] = None /\ NoObjects(p) /\ AllObjectsOf(p) = 0
  BY <1>2 DEF ConserveInv, PageInv, FreshInv, CountInv, AllConserved
<1>4. CountTypes /\ pc \in [Threads -> Controls] /\ heap \in [Pages -> Heaps]
  BY DEF ConserveInv, CountInv, AllocInv, OwnerTypes, PageInv, PageTypes
<1>5. UNCHANGED <<todo, entries, toExport, toImport>>
  BY DEF Format
<1>6. /\ numFree' \in [Pages -> Int] /\ live' \in [Pages -> Nat]
      /\ numFree'[p] + live'[p] = ObjsPerPage
      /\ \A q \in Pages : q # p => numFree'[q] = numFree[q] /\ live'[q] = live[q]
  <2>1. numFree[p] = 0 /\ live[p] = 0
    BY <1>3 DEF NoObjects
  <2>2. ObjsPerPage \in Nat
    BY SizesAssumption
  <2>3. numFree \in [Pages -> Int] /\ live \in [Pages -> Nat]
    BY <1>4 DEF CountTypes
  <2>4. CASE init[th]
    <3>1. numFree' = [numFree EXCEPT ![p] = ObjsPerPage] /\ live' = live
      BY <1>1, <2>4 DEF Format, NumFreeOfPage
    <3> QED BY <1>2, <2>1, <2>2, <2>3, <3>1
  <2>5. CASE ~init[th]
    <3>1. numFree' = [numFree EXCEPT ![p] = ObjsPerPage - 1] /\ live' = [live EXCEPT ![p] = @ + 1]
      BY <1>1, <2>5 DEF Format, NumFreeOfPage, Add
    <3> QED BY <1>2, <2>1, <2>2, <2>3, <3>1
  <2> QED BY <2>4, <2>5
<1>7. CountTypes'
  BY <1>4, <1>5, <1>6 DEF CountTypes
<1>8. heap' = [heap EXCEPT ![p] = th] /\ pc' = [pc EXCEPT ![th] = "run"] /\ th # None
  BY <1>1, MainAssumption DEF Format, Goto
<1>9. ASSUME NEW q \in Pages
      PROVE  /\ AllObjectsOf(q) \in Int /\ AllObjectsOf(q)' \in Int
             /\ AllObjectsOf(q)' = AllObjectsOf(q) - (numFree[q] + live[q]) + (numFree'[q] + live'[q])
  <2>1. /\ AllObjectsOf(q) \in Int /\ AllObjectsOf(q)' \in Int
        /\ CarriesBoth(th, th, q) \in Nat
        /\ AllObjectsOf(q)' = AllObjectsOf(q) - (numFree[q] + live[q] + CarriesBoth(th, th, q))
                           + (numFree'[q] + live'[q] + CarriesBoth(th, th, q)')
    BY <1>4, <1>5, <1>7, ObjectsUpdate
  <2>2. CarriesBoth(th, th, q)' = CarriesBoth(th, th, q)
    BY <1>5 DEF CarriesBoth, CarriesAll, Total
  <2>3. numFree[q] \in Int /\ live[q] \in Nat /\ numFree'[q] \in Int /\ live'[q] \in Nat
    BY <1>4, <1>7 DEF CountTypes
  <2> QED BY <2>1, <2>2, <2>3
<1>10. ASSUME NEW q \in Pages
       PROVE  AllObjectsOf(q)' = IF heap'[q] = None THEN 0 ELSE ObjsPerPage
  <2>1. CASE q = p
    <3>1. numFree[p] + live[p] = 0
      BY <1>3 DEF NoObjects
    <3>2. AllObjectsOf(p)' = ObjsPerPage
      BY <1>2, <1>3, <1>6, <1>9, <3>1, SizesAssumption
    <3> QED BY <1>2, <1>4, <1>8, <2>1, <3>2
  <2>2. CASE q # p
    <3>1. AllObjectsOf(q)' = AllObjectsOf(q)
      <4>1. numFree'[q] = numFree[q] /\ live'[q] = live[q]
        BY <1>6, <2>2
      <4>2. numFree[q] + live[q] \in Int
        BY <1>4 DEF CountTypes
      <4> QED BY <1>9, <4>1, <4>2
    <3> QED BY <1>2, <1>4, <1>8, <2>2, <3>1 DEF ConserveInv, CountInv, AllConserved
  <2> QED BY <2>1, <2>2
<1>11. AllConserved'
  BY <1>10 DEF AllConserved
<1>12. ASSUME NEW q \in Pages, heap'[q] = None PROVE NoObjects(q)'
  <2>1. q # p /\ heap[q] = None
    BY <1>2, <1>4, <1>8, <1>12
  <2>2. NoObjects(q)
    BY <2>1 DEF ConserveInv, CountInv
  <2> QED BY <1>5, <1>6, <2>1, <2>2 DEF NoObjects
<1>13. ASSUME NEW t \in Threads, pc'[t] # "push" PROVE \A q \in Pages : todo'[t][q] = 0
  <2>1. pc[t] # "push"
    BY <1>4, <1>8, <1>13 DEF Format
  <2> QED BY <1>5, <2>1 DEF ConserveInv, CountInv
<1> QED BY <1>7, <1>11, <1>12, <1>13 DEF CountInv

(* The page that move_to_heap looks at has a header: no thread that is     *)
(* setting up a page owns its segment.                                     *)
LEMMA MovedPage ==
    ASSUME AllocInv, PageInv, NEW th \in Threads, MovePage(th)
    PROVE  /\ <<aseg[th], moved[th] + 1>> \in Pages
           /\ heap[<<aseg[th], moved[th] + 1>>] # None
<1>1. PICK s \in Segments : s = aseg[th]
  BY DEF AllocInv, AdoptInv, Adopting, MovePage
<1>2. /\ moved[th] \in Nat /\ used[s] \in 0..MaxCut /\ moved[th] < used[s]
      /\ MaxCut \in Nat
  BY <1>1, SizesAssumption DEF PageInv, PageTypes, MovePage
<1>3. PICK n \in 1..MaxCut : n = moved[th] + 1 /\ ~(n > used[s])
  BY <1>2
<1>4. PICK p \in Pages : p = <<s, n>>
  BY DEF Pages
<1>5. p[1] = s /\ p[2] = n
  BY <1>4
<1>6. ASSUME NEW t \in Threads, CutBy(t, p) PROVE FALSE
  <2>1. s \in Elems(segs[t])
    BY <1>5, <1>6 DEF PageInv, FreshInv
  <2> QED BY <1>1, <2>1 DEF AllocInv, OwnerInv
<1>7. heap[p] # None
  BY <1>3, <1>5, <1>6 DEF PageInv, FreshInv
<1> QED BY <1>1, <1>3, <1>4, <1>7

LEMMA CountStep ==
    ASSUME ConserveInv, Next
    PROVE  CountInv'
<1>1. PICK th \in Threads :
        \/ StartThread(th) \/ NewSegment(th) \/ PopOrphan(th) \/ MovePage(th)
        \/ MoveDone(th) \/ Settle(th) \/ TakePage(th) \/ Format(th)
        \/ AllocFast(th) \/ AllocRecycle(th) \/ AllocSlow(th)
        \/ \E p \in Pages : DeallocLocal(th, p) \/ DeallocForeign(th, p)
        \/ Push(th) \/ PushDone(th)
        \/ ExportSort(th) \/ ExportSend(th) \/ ExportDone(th)
        \/ ExitThread(th) \/ ExitImport(th) \/ PushOrphan(th)
  BY DEF Next
<1>2. AllocInv /\ PageInv /\ PageTypes /\ PointerInv /\ CountInv /\ AdoptInv
  BY DEF ConserveInv, PageInv, AllocInv
<1>3. pc \in [Threads -> Controls] /\ heap \in [Pages -> Heaps] /\ todo \in [Threads -> [Pages -> Nat]]
  BY <1>2 DEF AllocInv, OwnerTypes, PageTypes, CountInv, CountTypes
<1>4. ASSUME UNCHANGED <<todo, toExport, toImport, entries, numFree, live, heap>>,
             NEW l, pc' = [pc EXCEPT ![th] = l],
             pc[th] # "push" \/ todo[th] = Empty
      PROVE  CountInv'
  <2>1. \A p \in Pages : todo[th][p] = 0
    BY <1>2, <1>4 DEF CountInv, Empty
  <2>2. ASSUME NEW t \in Threads PROVE NothingToPush(t)'
    <3>1. CASE t = th
      BY <1>4, <2>1, <3>1 DEF NothingToPush
    <3>2. CASE t # th
      BY <1>2, <1>3, <1>4, <3>2 DEF NothingToPush, CountInv
    <3> QED BY <3>1, <3>2
  <2> QED BY <1>2, <1>4, <2>2, CountsStay
<1>5. CASE \/ StartThread(th) \/ NewSegment(th) \/ PopOrphan(th) \/ Settle(th) \/ TakePage(th)
           \/ PushDone(th) \/ ExportDone(th) \/ ExitThread(th) \/ PushOrphan(th)
  <2>1. /\ UNCHANGED <<todo, toExport, toImport, entries, numFree, live, heap>>
        /\ pc[th] # "push" \/ todo[th] = Empty
    BY <1>5 DEF StartThread, NewSegment, PopOrphan, Settle, TakePage, PushDone, ExportDone,
                Exported, ExitThread, PushOrphan, heapVars, pageVars
  <2>2. \E l : pc' = [pc EXCEPT ![th] = l]
    BY <1>5 DEF StartThread, NewSegment, SegmentReturns, PopOrphan, Settle, TakePage, PushDone,
                ExportDone, ExitThread, PushOrphan, Goto, Call
  <2> QED BY <1>4, <2>1, <2>2
<1>6. CASE MovePage(th)
  <2>1. PICK p \in Pages : p = <<aseg[th], moved[th] + 1>> /\ heap[p] # None
    BY <1>2, <1>6, MovedPage
  <2>2. /\ heap' = [heap EXCEPT ![p] = th] /\ th # None
        /\ UNCHANGED <<pc, todo, toExport, toImport, entries, numFree, live>>
    BY <1>6, <2>1, MainAssumption DEF MovePage
  <2>3. \A q \in Pages : heap'[q] = None <=> heap[q] = None
    BY <1>3, <2>1, <2>2
  <2>4. ASSUME NEW t \in Threads PROVE NothingToPush(t)'
    BY <1>2, <2>2 DEF NothingToPush, CountInv
  <2> QED BY <1>2, <2>2, <2>3, <2>4, CountsStay
<1>7. CASE MoveDone(th)
  <2>1. /\ adopted[th] \in Threads /\ pc[th] # "push" /\ ImportObjs(th, adopted[th], "settle")
        /\ UNCHANGED <<entries, toExport, heap, numFree, live>>
    BY <1>2, <1>7 DEF MoveDone, AdoptInv, Adopting, pageVars
  <2> QED BY <1>2, <2>1, ImportCountStep
<1>8. CASE AllocSlow(th)
  <2>1. /\ pc[th] # "push" /\ ImportObjs(th, th, "page")
        /\ UNCHANGED <<entries, toExport, heap, numFree, live>>
    BY <1>8 DEF AllocSlow, MayAlloc, pageVars
  <2> QED BY <1>2, <2>1, ImportCountStep
<1>9. CASE ExitImport(th)
  <2>1. /\ pc[th] # "push" /\ ImportObjs(th, th, "orphan")
        /\ UNCHANGED <<entries, toExport, heap, numFree, live>>
    BY <1>9 DEF ExitImport, Exported, pageVars
  <2> QED BY <1>2, <2>1, ImportCountStep
<1>10. CASE AllocFast(th)
  <2>1. cur[th] \in Pages => heap[cur[th]] # None
    BY <1>2, NoPageIsNoPage DEF PointerInv, KnownPtrs, KnownPages
  <2>2. /\ numFree' = Take(numFree, cur[th]) /\ live' = Add(live, cur[th])
        /\ UNCHANGED <<pc, todo, entries, toExport, toImport, heap>>
    BY <1>10 DEF AllocFast, threadVars, heapVars
  <2> QED BY <1>2, <2>1, <2>2, TakesObject
<1>11. CASE AllocRecycle(th)
  <2>1. pageFree[th] \in Pages => heap[pageFree[th]] # None
    BY <1>2, NoPageIsNoPage DEF PointerInv, KnownPtrs, KnownPages
  <2>2. /\ numFree' = Take(numFree, pageFree[th]) /\ live' = Add(live, pageFree[th])
        /\ UNCHANGED <<pc, todo, entries, toExport, toImport, heap>>
    BY <1>11 DEF AllocRecycle, threadVars
  <2> QED BY <1>2, <2>1, <2>2, TakesObject
<1> QED
  BY <1>1, <1>2, <1>5, <1>6, <1>7, <1>8, <1>9, <1>10, <1>11, FormatCountStep, PushCountStep,
     DeallocLocalCountStep, DeallocForeignCountStep, ExportSortCountStep, ExportSendCountStep

----------------------------------------------------------------------------
(* The headers of pages, and the pointers to them.                         *)

LEMMA NotSettingUp ==
    ASSUME PageTypes, FreshInv, NEW t \in Threads, ~SettingUp(t)
    PROVE  newPage[t] = NoPage
BY NoPageIsNoPage DEF PageTypes, FreshInv, CutBy, PagePtrs

(* No page is cut out or formatted, and a thread that is setting up a page *)
(* goes on and keeps its segments.                                         *)
LEMMA FreshStays ==
    ASSUME FreshInv, UNCHANGED <<newPage, used>>,
           \A p \in Pages : heap'[p] = None <=> heap[p] = None,
           \A t \in Threads : newPage[t] \in Pages =>
               SettingUp(t)' /\ Elems(segs[t]) \subseteq Elems(segs'[t]),
           \A t \in Threads : pc'[t] = "format" => newPage[t] \in Pages
    PROVE  FreshInv'
<1>1. \A t \in Threads, p \in Pages : CutBy(t, p)' <=> CutBy(t, p)
  BY DEF CutBy
<1>2. ASSUME NEW t \in Threads, NEW p \in Pages, CutBy(t, p)
      PROVE  /\ SettingUp(t)' /\ p[1] \in Elems(segs'[t]) /\ p[2] <= used'[p[1]]
             /\ \A u \in Threads : CutBy(u, p) => u = t
  <2>1. newPage[t] \in Pages
    BY <1>2 DEF CutBy
  <2>2. p[1] \in Elems(segs[t]) /\ p[2] <= used[p[1]] /\ \A u \in Threads : CutBy(u, p) => u = t
    BY <1>2 DEF FreshInv
  <2> QED BY <2>1, <2>2
<1>3. \A p \in Pages : heap'[p] = None <=>
          p[2] > used'[p[1]] \/ \E t \in Threads : CutBy(t, p)'
  BY <1>1 DEF FreshInv
<1>4. \A t \in Threads : pc'[t] = "format" => newPage'[t] \in Pages
  OBVIOUS
<1>5. \A t \in Threads, p \in Pages : CutBy(t, p)' =>
          /\ SettingUp(t)' /\ p[1] \in Elems(segs'[t]) /\ p[2] <= used'[p[1]]
          /\ \A u \in Threads : CutBy(u, p)' => u = t
  BY <1>1, <1>2
<1>6. \A t \in Threads : Elems(segs[t])' = Elems(segs'[t])
  BY DEF Elems
<1> QED BY <1>3, <1>4, <1>5, <1>6 DEF FreshInv

(* The same for one thread that takes a step.                              *)
LEMMA FreshThreadStep ==
    ASSUME AllocInv, PageTypes, FreshInv, NEW th \in Threads, NEW l, NEW r,
           UNCHANGED <<newPage, used>>,
           \A p \in Pages : heap'[p] = None <=> heap[p] = None,
           pc' = [pc EXCEPT ![th] = l], after' = [after EXCEPT ![th] = r],
           newPage[th] \in Pages => SettingUp(th)',
           l = "format" => newPage[th] \in Pages,
           \A t \in Threads : newPage[t] \in Pages => Elems(segs[t]) \subseteq Elems(segs'[t])
    PROVE  FreshInv'
<1>1. pc \in [Threads -> Controls] /\ after \in [Threads -> {"run", "settle", "page", "orphan"}]
  BY DEF AllocInv, OwnerTypes
<1>2. \A t \in Threads : t # th => pc'[t] = pc[t] /\ after'[t] = after[t]
  BY <1>1
<1>3. \A t \in Threads : t # th => (SettingUp(t)' <=> SettingUp(t))
  BY <1>2 DEF SettingUp, Adopting
<1>4. \A t \in Threads : newPage[t] \in Pages => SettingUp(t)
  BY NotSettingUp, NoPageIsNoPage
<1>5. \A t \in Threads : newPage[t] \in Pages =>
          SettingUp(t)' /\ Elems(segs[t]) \subseteq Elems(segs'[t])
  BY <1>3, <1>4
<1>6. \A t \in Threads : pc'[t] = "format" => newPage[t] \in Pages
  BY <1>1, <1>2 DEF FreshInv
<1> QED BY <1>5, <1>6, FreshStays

LEMMA KnownGrow ==
    ASSUME PointerInv, \A p \in Pages : heap[p] # None => heap'[p] # None
    PROVE  /\ KnownPtrs \subseteq KnownPtrs'
           /\ cur \in [Threads -> KnownPtrs'] /\ pageFree \in [Threads -> KnownPtrs']
           /\ next \in [Pages -> KnownPtrs']
<1>1. KnownPtrs \subseteq KnownPtrs'
  BY DEF KnownPtrs, KnownPages
<1> QED BY <1>1 DEF PointerInv

LEMMA PointersStay ==
    ASSUME PointerInv, UNCHANGED <<cur, pageFree, next>>,
           \A p \in Pages : heap'[p] = None <=> heap[p] = None
    PROVE  PointerInv'
BY KnownGrow DEF PointerInv

(* push_free_obj on a page that a heap owns.                               *)
LEMMA PushPointers ==
    ASSUME PointerInv, NEW p \in Pages, heap[p] \in Threads, PushFreeObj(p), UNCHANGED <<heap, cur>>
    PROVE  PointerInv'
<1>1. p \in KnownPtrs /\ next[p] \in KnownPtrs /\ pageFree[heap[p]] \in KnownPtrs
  BY MainAssumption DEF PointerInv, KnownPtrs, KnownPages
<1>2. UNCHANGED KnownPtrs
  BY DEF KnownPtrs, KnownPages
<1>3. CASE ~Recycles(p)
  BY <1>2, <1>3 DEF PushFreeObj, PointerInv
<1>4. CASE Recycles(p)
  <2>1. /\ PageListTransfer(p, pageFree[heap[p]])
        /\ pageFree' = [pageFree EXCEPT ![heap[p]] = p]
    BY <1>4 DEF PushFreeObj
  <2>2. next' \in [Pages -> KnownPtrs]
    <3>1. next' = [next EXCEPT ![prev[p]] = next[p], ![p] = pageFree[heap[p]]]
      BY <2>1 DEF PageListTransfer
    <3>2. PICK q : q = prev[p]
      OBVIOUS
    <3>3. [next EXCEPT ![q] = next[p]] \in [Pages -> KnownPtrs]
      BY <1>1 DEF PointerInv
    <3> QED BY <1>1, <3>1, <3>2, <3>3
  <2>3. pageFree' \in [Threads -> KnownPtrs]
    BY <1>1, <2>1 DEF PointerInv
  <2> QED BY <1>2, <2>2, <2>3 DEF PointerInv
<1> QED BY <1>3, <1>4

(* move_to_heap, format and the other steps that write a page header or a  *)
(* pointer to one.                                                         *)
LEMMA MovePagePageStep ==
    ASSUME AllocInv, PageInv, NEW th \in Threads, MovePage(th)
    PROVE  PageInv'
<1>1. PICK p \in Pages : p = <<aseg[th], moved[th] + 1>> /\ heap[p] # None
  BY MovedPage
<1>2. PageTypes /\ FreshInv /\ PointerInv
  BY DEF PageInv
<1>3. /\ heap' = [heap EXCEPT ![p] = th] /\ moved' = [moved EXCEPT ![th] = @ + 1]
      /\ UNCHANGED <<pc, after, newPage, used, segs>>
  BY <1>1 DEF MovePage
<1>4. PageTypes'
  BY <1>2, <1>3 DEF PageTypes, Heaps
<1>5. \A q \in Pages : heap'[q] = None <=> heap[q] = None
  BY <1>1, <1>2, <1>3, MainAssumption DEF PageTypes
<1>6. FreshInv'
  <2>1. \A t \in Threads : newPage[t] \in Pages => SettingUp(t)
    BY <1>2, NotSettingUp, NoPageIsNoPage
  <2>2. \A t \in Threads : SettingUp(t)' <=> SettingUp(t)
    BY <1>3 DEF SettingUp, Adopting
  <2>3. \A t \in Threads : pc'[t] = "format" => newPage[t] \in Pages
    BY <1>2, <1>3 DEF FreshInv
  <2> QED BY <1>2, <1>3, <1>5, <2>1, <2>2, <2>3, FreshStays
<1>7. PointerInv'
  <2>1. /\ p \in KnownPtrs'
        /\ cur \in [Threads -> KnownPtrs'] /\ pageFree \in [Threads -> KnownPtrs']
        /\ next \in [Pages -> KnownPtrs']
    BY <1>1, <1>2, <1>5, KnownGrow DEF KnownPtrs, KnownPages
  <2>2. CASE inFree[p]
    <3>1. /\ next' = [next EXCEPT ![p] = pageFree[th]] /\ cur' = cur
          /\ pageFree' = [pageFree EXCEPT ![th] = p]
      BY <1>1, <2>2 DEF MovePage, PageListInsert
    <3> QED BY <2>1, <3>1 DEF PointerInv
  <2>3. CASE ~inFree[p]
    <3>1. /\ next' = [next EXCEPT ![p] = cur[th]] /\ pageFree' = pageFree
          /\ cur' = [cur EXCEPT ![th] = p]
      BY <1>1, <2>3 DEF MovePage, PageListInsert
    <3> QED BY <2>1, <3>1 DEF PointerInv
  <2> QED BY <2>2, <2>3
<1> QED BY <1>4, <1>6, <1>7 DEF PageInv

(* alloc_page cuts the next page out of the heap's first segment.          *)
LEMMA TakePagePageStep ==
    ASSUME AllocInv, PageInv, NEW th \in Threads, TakePage(th)
    PROVE  PageInv'
<1>1. PageTypes /\ FreshInv /\ PointerInv
  BY DEF PageInv
<1>2. /\ pc \in [Threads -> Controls] /\ segs \in [Threads -> Seq(Segments)]
      /\ pc[th] = "page" /\ segs[th] # <<>>
  BY DEF AllocInv, OwnerTypes, SegmentInv, Equipped, TakePage
<1>3. PICK s \in Segments : s = Head(segs[th]) /\ s \in Elems(segs[th])
  BY <1>2, Uncons
<1>4. PICK n \in Nat : n = used[s] + 1 /\ n \in 1..MaxCut
  <2>1. used[s] \in 0..MaxCut /\ MaxCut \in Nat
    BY <1>1, SizesAssumption DEF PageTypes
  <2>2. used[s] < MaxCut
    BY <1>3 DEF TakePage
  <2>3. used[s] + 1 \in Nat /\ used[s] + 1 \in 1..MaxCut
    BY <2>1, <2>2
  <2> QED BY <2>3, Zenon
<1>5. PICK p \in Pages : p = <<s, n>> /\ p[1] = s /\ p[2] = n
  <2>1. <<s, n>> \in Pages
    BY <1>4 DEF Pages
  <2>2. <<s, n>>[1] = s /\ <<s, n>>[2] = n
    OBVIOUS
  <2> QED BY <2>1, <2>2
<1>6. PICK l \in {"segment", "format"} : pc' = [pc EXCEPT ![th] = l]
  BY DEF TakePage, Goto
<1>7. /\ newPage' = [newPage EXCEPT ![th] = p] /\ used' = [used EXCEPT ![s] = n]
      /\ UNCHANGED <<after, moved, segs, heap, next, pageFree>>
      /\ cur' = cur \/ cur' = [cur EXCEPT ![th] = NoPage]
  BY <1>3, <1>4, <1>5 DEF TakePage, pageVars
<1>8. newPage[th] = NoPage
  BY <1>1, <1>2, NotSettingUp DEF SettingUp, Adopting
<1>9. PageTypes'
  BY <1>1, <1>4, <1>7, NoPageIsNoPage DEF PageTypes
<1>10. /\ \A q \in Pages : CutBy(th, q)' <=> q = p
       /\ \A q \in Pages : ~CutBy(th, q)
       /\ \A t \in Threads, q \in Pages : t # th => (CutBy(t, q)' <=> CutBy(t, q))
  BY <1>1, <1>7, <1>8, NoPageIsNoPage DEF CutBy, PageTypes
<1>11. /\ \A t \in Threads : ~CutBy(t, p)
       /\ heap[p] = None
  <2>1. ~(p[2] <= used[p[1]]) /\ p[2] > used[p[1]]
    BY <1>1, <1>4, <1>5 DEF PageTypes
  <2> QED BY <1>1, <2>1 DEF FreshInv
<1>12. /\ used'[s] = n
       /\ \A x \in Segments : x # s => used'[x] = used[x]
       /\ \A x \in Segments : used[x] \in Nat
  BY <1>1, <1>7, SizesAssumption DEF PageTypes
<1>13. ASSUME NEW t \in Threads, NEW q \in Pages, CutBy(t, q)'
       PROVE  /\ SettingUp(t)' /\ q[1] \in Elems(segs[t])' /\ q[2] <= used'[q[1]]
              /\ \A u \in Threads : CutBy(u, q)' => u = t
  <2>1. Elems(segs[t])' = Elems(segs[t])
    BY <1>7 DEF Elems
  <2>2. q[1] \in Segments /\ q[2] \in Nat /\ q = <<q[1], q[2]>>
    BY PageParts, SizesAssumption
  <2>3. CASE t = th
    <3>1. q = p
      BY <1>10, <1>13, <2>3
    <3>2. SettingUp(t)'
      BY <1>2, <1>6, <2>3 DEF SettingUp
    <3> QED BY <1>3, <1>4, <1>5, <1>10, <1>11, <1>12, <2>1, <2>3, <3>1, <3>2
  <2>4. CASE t # th
    <3>1. CutBy(t, q)
      BY <1>10, <1>13, <2>4
    <3>2. /\ SettingUp(t) /\ q[1] \in Elems(segs[t]) /\ q[2] <= used[q[1]]
          /\ \A u \in Threads : CutBy(u, q) => u = t
      BY <1>1, <3>1 DEF FreshInv
    <3>3. SettingUp(t)'
      BY <1>2, <1>6, <1>7, <2>4, <3>2 DEF SettingUp, Adopting
    <3>4. q[2] <= used'[q[1]]
      BY <1>4, <1>12, <2>2, <3>2
    <3>5. q # p
      BY <1>11, <3>1
    <3> QED BY <1>10, <2>1, <3>2, <3>3, <3>4, <3>5
  <2> QED BY <2>3, <2>4
<1>14. ASSUME NEW t \in Threads, pc'[t] = "format" PROVE newPage'[t] \in Pages
  BY <1>1, <1>2, <1>6, <1>7, <1>14 DEF FreshInv, PageTypes
<1>15. ASSUME NEW q \in Pages
       PROVE  heap'[q] = None <=> q[2] > used'[q[1]] \/ \E t \in Threads : CutBy(t, q)'
  <2>1. q[1] \in Segments /\ q[2] \in Nat /\ q = <<q[1], q[2]>>
    BY PageParts, SizesAssumption
  <2>2. CASE q = p
    BY <1>7, <1>10, <1>11, <2>2
  <2>3. CASE q # p
    <3>1. (\E t \in Threads : CutBy(t, q)') <=> \E t \in Threads : CutBy(t, q)
      BY <1>10, <2>3
    <3>2. q[2] > used'[q[1]] <=> q[2] > used[q[1]]
      <4>1. CASE q[1] # s
        BY <1>12, <2>1, <4>1
      <4>2. CASE q[1] = s
        <5>1. q[2] # n
          BY <1>5, <2>1, <2>3, <4>2
        <5> QED BY <1>4, <1>12, <2>1, <4>2, <5>1
      <4> QED BY <4>1, <4>2
    <3> QED BY <1>1, <1>7, <3>1, <3>2 DEF FreshInv
  <2> QED BY <2>2, <2>3
<1>16. FreshInv'
  BY <1>13, <1>14, <1>15 DEF FreshInv
<1>17. PointerInv'
  <2>1. KnownPtrs' = KnownPtrs /\ NoPage \in KnownPtrs
    BY <1>7 DEF KnownPtrs, KnownPages
  <2> QED BY <1>1, <1>7, <2>1 DEF PointerInv
<1> QED BY <1>9, <1>16, <1>17 DEF PageInv

(* The rest of alloc_page writes the header.                               *)
LEMMA FormatPageStep ==
    ASSUME AllocInv, PageInv, NEW th \in Threads, Format(th)
    PROVE  PageInv'
<1>1. PageTypes /\ FreshInv /\ PointerInv
  BY DEF PageInv
<1>2. PICK p \in Pages : p = newPage[th]
  BY <1>1 DEF Format, FreshInv
<1>3. CutBy(th, p)
  BY <1>2, NoPageIsNoPage DEF CutBy
<1>4. /\ heap' = [heap EXCEPT ![p] = th] /\ next' = [next EXCEPT ![p] = cur[th]]
      /\ cur' = [cur EXCEPT ![th] = p]
      /\ pageFree' = pageFree \/ pageFree' = [pageFree EXCEPT ![th] = NoPage]
      /\ newPage' = [newPage EXCEPT ![th] = NoPage] /\ pc' = [pc EXCEPT ![th] = "run"]
      /\ UNCHANGED <<after, moved, segs, used>>
  BY <1>2 DEF Format, PageListInsert, Goto
<1>5. pc \in [Threads -> Controls] /\ pc[th] = "format" /\ th # None
  BY MainAssumption DEF AllocInv, OwnerTypes, Format
<1>6. PageTypes'
  BY <1>1, <1>4, NoPageIsNoPage DEF PageTypes, Heaps
<1>7. /\ \A q \in Pages : ~CutBy(th, q)' /\ (CutBy(th, q) => q = p)
      /\ \A t \in Threads, q \in Pages : t # th => (CutBy(t, q)' <=> CutBy(t, q))
  BY <1>1, <1>2, <1>4, NoPageIsNoPage DEF CutBy, PageTypes
<1>8. /\ p[2] <= used[p[1]] /\ \A u \in Threads : CutBy(u, p) => u = th
      /\ p[1] \in Segments /\ p[2] \in Nat /\ used[p[1]] \in Nat
  BY <1>1, <1>3, PageParts, SizesAssumption DEF FreshInv, PageTypes
<1>9. ASSUME NEW t \in Threads, NEW q \in Pages, CutBy(t, q)'
      PROVE  /\ SettingUp(t)' /\ q[1] \in Elems(segs[t])' /\ q[2] <= used'[q[1]]
             /\ \A u \in Threads : CutBy(u, q)' => u = t
  <2>1. t # th /\ CutBy(t, q)
    BY <1>7, <1>9
  <2>2. /\ SettingUp(t) /\ q[1] \in Elems(segs[t]) /\ q[2] <= used[q[1]]
        /\ \A u \in Threads : CutBy(u, q) => u = t
    BY <1>1, <2>1 DEF FreshInv
  <2>3. SettingUp(t)'
    BY <1>4, <1>5, <2>1, <2>2 DEF SettingUp, Adopting
  <2>4. Elems(segs[t])' = Elems(segs[t])
    BY <1>4 DEF Elems
  <2> QED BY <1>4, <1>7, <2>2, <2>3, <2>4
<1>10. ASSUME NEW t \in Threads, pc'[t] = "format" PROVE newPage'[t] \in Pages
  BY <1>1, <1>4, <1>5, <1>10 DEF FreshInv, PageTypes
<1>11. ASSUME NEW q \in Pages
       PROVE  heap'[q] = None <=> q[2] > used'[q[1]] \/ \E t \in Threads : CutBy(t, q)'
  <2>1. CASE q = p
    <3>1. heap'[q] # None
      BY <1>1, <1>4, <1>5, <2>1 DEF PageTypes
    <3>2. ~(q[2] > used'[q[1]])
      BY <1>4, <1>8, <2>1
    <3>3. \A t \in Threads : ~CutBy(t, q)'
      BY <1>7, <1>8, <2>1
    <3> QED BY <3>1, <3>2, <3>3
  <2>2. CASE q # p
    <3>1. (\E t \in Threads : CutBy(t, q)') <=> \E t \in Threads : CutBy(t, q)
      BY <1>7, <2>2
    <3>2. heap'[q] = heap[q] /\ used'[q[1]] = used[q[1]]
      BY <1>1, <1>4, <2>2 DEF PageTypes
    <3> QED BY <1>1, <3>1, <3>2 DEF FreshInv
  <2> QED BY <2>1, <2>2
<1>12. FreshInv'
  BY <1>9, <1>10, <1>11 DEF FreshInv
<1>13. PointerInv'
  <2>1. \A q \in Pages : heap[q] # None => heap'[q] # None
    BY <1>1, <1>4, <1>5 DEF PageTypes
  <2>2. /\ p \in KnownPtrs' /\ NoPage \in KnownPtrs'
        /\ cur \in [Threads -> KnownPtrs'] /\ pageFree \in [Threads -> KnownPtrs']
        /\ next \in [Pages -> KnownPtrs']
    BY <1>1, <1>4, <1>5, <2>1, KnownGrow DEF KnownPtrs, KnownPages, PageTypes
  <2> QED BY <1>4, <2>2 DEF PointerInv
<1> QED BY <1>6, <1>12, <1>13 DEF PageInv

(* alloc_segment, with the orphan's segments and with its own.             *)
LEMMA SegmentPageStep ==
    ASSUME AllocInv, PageInv, NEW th \in Threads,
           NewSegment(th) \/ Settle(th) \/ PopOrphan(th)
    PROVE  PageInv'
<1>1. PageTypes /\ FreshInv /\ PointerInv
  BY DEF PageInv
<1>2. /\ segs \in [Threads -> Seq(Segments)] /\ orphans \in Seq(Threads)
      /\ after \in [Threads -> {"run", "settle", "page", "orphan"}]
      /\ pc \in [Threads -> Controls] /\ AdoptInv /\ OrphanInv
  BY DEF AllocInv, OwnerTypes
<1>3. UNCHANGED <<after, newPage, used, heap, next, cur, pageFree>>
  BY DEF NewSegment, Settle, PopOrphan, pageVars
<1>4. after' = [after EXCEPT ![th] = after[th]]
  BY <1>2, <1>3
<1>5. PageTypes'
  <2>1. moved' = moved \/ moved' = [moved EXCEPT ![th] = 0]
    BY DEF NewSegment, Settle, PopOrphan
  <2> QED BY <1>1, <1>3, <2>1 DEF PageTypes
<1>6. CASE NewSegment(th) \/ Settle(th)
  <2>1. PICK s \in Segments : segs' = [segs EXCEPT ![th] = <<s>> \o @]
    BY <1>2, <1>6 DEF NewSegment, Settle, AdoptInv, Adopting
  <2>2. PICK l : l = IF newPage[th] = NoPage THEN "page" ELSE "format"
    OBVIOUS
  <2>3. pc' = [pc EXCEPT ![th] = l]
    BY <1>6, <2>2 DEF NewSegment, Settle, SegmentReturns, Goto
  <2>4. Elems(segs[th]) \subseteq Elems(<<s>> \o segs[th])
    BY <1>2, Cons
  <2>5. \A t \in Threads : Elems(segs[t]) \subseteq Elems(segs'[t])
    BY <1>2, <2>1, <2>4
  <2>6. l = "format" => newPage[th] \in Pages
    BY <1>1, <2>2 DEF PageTypes, PagePtrs
  <2>7. newPage[th] \in Pages => SettingUp(th)'
    BY <1>2, <2>2, <2>3, NoPageIsNoPage DEF SettingUp
  <2> QED BY <1>1, <1>3, <1>4, <1>5, <2>3, <2>5, <2>6, <2>7, FreshThreadStep, PointersStay
          DEF PageInv
<1>7. CASE PopOrphan(th)
  <2>1. orphans # <<>> /\ pc' = [pc EXCEPT ![th] = "move"]
        /\ segs' = [segs EXCEPT ![Head(orphans)] = Tail(@)]
    BY <1>7 DEF PopOrphan, Goto
  <2>2. PICK h \in Threads : h = Head(orphans) /\ h \in Elems(orphans)
    BY <1>2, <2>1, Uncons
  <2>3. pc[h] = "gone"
    BY <1>2, <2>2 DEF OrphanInv
  <2>4. newPage[h] = NoPage
    BY <1>1, <2>3, NotSettingUp DEF SettingUp, Adopting
  <2>5. \A t \in Threads : newPage[t] \in Pages => Elems(segs[t]) \subseteq Elems(segs'[t])
    BY <1>2, <2>1, <2>2, <2>4, NoPageIsNoPage
  <2>6. SettingUp(th)'
    BY <1>2, <2>1 DEF SettingUp, Adopting
  <2> QED BY <1>1, <1>3, <1>4, <1>5, <2>1, <2>5, <2>6, FreshThreadStep, PointersStay DEF PageInv
<1> QED BY <1>6, <1>7

(* The other steps leave the headers and the segments alone, and their     *)
(* thread is setting up a page afterwards if it was before.                *)
LEMMA PageStays ==
    ASSUME AllocInv, PageInv, NEW th \in Threads, NEW l, NEW r,
           UNCHANGED <<newPage, moved, used, heap, segs>>,
           pc' = [pc EXCEPT ![th] = l], after' = [after EXCEPT ![th] = r],
           SettingUp(th) => SettingUp(th)', l # "format", PointerInv'
    PROVE  PageInv'
<1>1. PageTypes /\ FreshInv
  BY DEF PageInv
<1>2. PageTypes'
  BY <1>1 DEF PageTypes
<1>3. newPage[th] \in Pages => SettingUp(th)'
  BY <1>1, NotSettingUp, NoPageIsNoPage
<1>4. FreshInv'
  BY <1>1, <1>3, FreshThreadStep
<1> QED BY <1>2, <1>4 DEF PageInv

LEMMA PageStep ==
    ASSUME ConserveInv, Next
    PROVE  PageInv'
<1>1. PICK th \in Threads :
        \/ StartThread(th) \/ NewSegment(th) \/ PopOrphan(th) \/ MovePage(th)
        \/ MoveDone(th) \/ Settle(th) \/ TakePage(th) \/ Format(th)
        \/ AllocFast(th) \/ AllocRecycle(th) \/ AllocSlow(th)
        \/ \E p \in Pages : DeallocLocal(th, p) \/ DeallocForeign(th, p)
        \/ Push(th) \/ PushDone(th)
        \/ ExportSort(th) \/ ExportSend(th) \/ ExportDone(th)
        \/ ExitThread(th) \/ ExitImport(th) \/ PushOrphan(th)
  BY DEF Next
<1>2. AllocInv /\ PageInv /\ PageTypes /\ FreshInv /\ PointerInv /\ CountInv
  BY DEF ConserveInv, PageInv
<1>3. /\ pc \in [Threads -> Controls] /\ heap \in [Pages -> Heaps]
      /\ after \in [Threads -> {"run", "settle", "page", "orphan"}]
      /\ pc[th] = "push" => after[th] \in {"settle", "page", "orphan"}
  BY <1>2 DEF AllocInv, OwnerTypes, ReturnInv, PageTypes
<1>4. /\ pc' = pc => pc' = [pc EXCEPT ![th] = pc[th]]
      /\ after' = after => after' = [after EXCEPT ![th] = after[th]]
  BY <1>3
<1>5. CASE \/ StartThread(th) \/ MoveDone(th) \/ AllocSlow(th) \/ PushDone(th) \/ ExportDone(th)
           \/ ExitThread(th) \/ ExitImport(th) \/ PushOrphan(th)
           \/ \E p \in Pages : DeallocForeign(th, p)
  <2>1. UNCHANGED <<newPage, moved, used, heap, segs, cur, pageFree, next>>
    BY <1>5 DEF StartThread, MoveDone, AllocSlow, PushDone, ExportDone, ExitThread, ExitImport,
                PushOrphan, DeallocForeign, heapVars, pageVars
  <2>2. PointerInv'
    BY <1>2, <2>1, PointersStay
  <2>3. CASE \/ StartThread(th) \/ MoveDone(th) \/ AllocSlow(th) \/ PushDone(th)
             \/ ExportDone(th) \/ ExitThread(th) \/ ExitImport(th) \/ PushOrphan(th)
    <3>1. \E l, r : /\ pc' = [pc EXCEPT ![th] = l] /\ after' = [after EXCEPT ![th] = r]
                    /\ l # "format" /\ (SettingUp(th) => SettingUp(th)')
      <4>1. CASE StartThread(th)
        <5>1. pc' = [pc EXCEPT ![th] = "segment"] /\ after' = [after EXCEPT ![th] = after[th]]
          BY <1>4, <4>1 DEF StartThread, Goto
        <5> QED BY <1>3, <5>1 DEF SettingUp
      <4>2. CASE MoveDone(th)
        <5>1. pc' = [pc EXCEPT ![th] = "push"] /\ after' = [after EXCEPT ![th] = "settle"]
          BY <4>2 DEF MoveDone, ImportObjs, Call, Goto
        <5> QED BY <1>3, <5>1 DEF SettingUp, Adopting
      <4>3. CASE AllocSlow(th)
        <5>1. /\ pc' = [pc EXCEPT ![th] = "push"] /\ after' = [after EXCEPT ![th] = "page"]
              /\ pc[th] = "run"
          BY <4>3 DEF AllocSlow, MayAlloc, ImportObjs, Call, Goto
        <5> QED BY <1>3, <5>1 DEF SettingUp, Adopting
      <4>4. CASE PushDone(th)
        <5>1. /\ pc' = [pc EXCEPT ![th] = after[th]] /\ after' = [after EXCEPT ![th] = "run"]
              /\ pc[th] = "push"
          BY <4>4 DEF PushDone, Call, Goto
        <5> QED BY <1>3, <5>1 DEF SettingUp, Adopting
      <4>5. CASE ExportDone(th)
        <5>1. /\ pc' = [pc EXCEPT ![th] = "run"] /\ after' = [after EXCEPT ![th] = after[th]]
              /\ pc[th] = "export"
          BY <1>4, <4>5 DEF ExportDone, Exported, Goto
        <5> QED BY <1>3, <5>1 DEF SettingUp, Adopting
      <4>6. CASE ExitThread(th)
        <5>1. /\ pc' = [pc EXCEPT ![th] = "export"] /\ after' = [after EXCEPT ![th] = "orphan"]
              /\ pc[th] = "run"
          BY <4>6 DEF ExitThread, Call, Goto
        <5> QED BY <1>3, <5>1 DEF SettingUp, Adopting
      <4>7. CASE ExitImport(th)
        <5>1. /\ pc' = [pc EXCEPT ![th] = "push"] /\ after' = [after EXCEPT ![th] = "orphan"]
              /\ pc[th] = "export"
          BY <4>7 DEF ExitImport, Exported, ImportObjs, Call, Goto
        <5> QED BY <1>3, <5>1 DEF SettingUp, Adopting
      <4>8. CASE PushOrphan(th)
        <5>1. /\ pc' = [pc EXCEPT ![th] = "gone"] /\ after' = [after EXCEPT ![th] = after[th]]
              /\ pc[th] = "orphan"
          BY <1>4, <4>8 DEF PushOrphan, Goto
        <5> QED BY <1>3, <5>1 DEF SettingUp, Adopting
      <4> QED BY <2>3, <4>1, <4>2, <4>3, <4>4, <4>5, <4>6, <4>7, <4>8
    <3> QED BY <1>2, <2>1, <2>2, <3>1, PageStays
  <2>4. CASE \E p \in Pages : DeallocForeign(th, p)
    <3>1. /\ pc[th] = "run"
          /\ \/ pc' = [pc EXCEPT ![th] = "export"] /\ after' = [after EXCEPT ![th] = "run"]
             \/ pc' = [pc EXCEPT ![th] = pc[th]] /\ after' = [after EXCEPT ![th] = after[th]]
      BY <1>4, <2>4 DEF DeallocForeign, Call, Goto
    <3>2. ~SettingUp(th)
      BY <3>1 DEF SettingUp, Adopting
    <3> QED BY <1>2, <2>1, <2>2, <3>1, <3>2, PageStays
  <2> QED BY <1>5, <2>3, <2>4
<1>6. CASE \/ AllocFast(th) \/ AllocRecycle(th) \/ Push(th) \/ ExportSort(th) \/ ExportSend(th)
           \/ \E p \in Pages : DeallocLocal(th, p)
  <2>1. UNCHANGED <<pc, after, newPage, moved, used, heap, segs>> /\ pc[th] \in {"run", "push", "export"}
    BY <1>6 DEF AllocFast, AllocRecycle, MayAlloc, Push, ExportSort, ExportSend, DeallocLocal,
                threadVars, heapVars, pageVars
  <2>2. SettingUp(th) => SettingUp(th)'
    BY <2>1 DEF SettingUp, Adopting
  <2>3. UNCHANGED KnownPtrs
    BY <2>1 DEF KnownPtrs, KnownPages
  <2>4. PointerInv'
    <3>1. CASE AllocFast(th) \/ ExportSort(th) \/ ExportSend(th)
      <4>1. UNCHANGED <<cur, pageFree, next>>
        BY <3>1 DEF AllocFast, ExportSort, ExportSend, heapVars, pageVars
      <4> QED BY <1>2, <2>1, <4>1, PointersStay
    <3>2. CASE AllocRecycle(th)
      <4>1. /\ pageFree' = [pageFree EXCEPT ![th] = next[pageFree[th]]]
            /\ next' = [next EXCEPT ![pageFree[th]] = cur[th]]
            /\ cur' = [cur EXCEPT ![th] = pageFree[th]]
            /\ pageFree[th] # NoPage
        BY <3>2 DEF AllocRecycle, PageListInsert
      <4>2. pageFree[th] \in Pages /\ pageFree[th] \in KnownPtrs /\ cur[th] \in KnownPtrs
        BY <1>2, <4>1 DEF PointerInv, KnownPtrs, KnownPages
      <4>3. next[pageFree[th]] \in KnownPtrs
        BY <1>2, <4>2 DEF PointerInv
      <4> QED BY <1>2, <2>3, <4>1, <4>2, <4>3 DEF PointerInv
    <3>3. ASSUME NEW p \in Pages, PushFreeObj(p), heap[p] # None, UNCHANGED cur
          PROVE  PointerInv'
      <4>1. heap[p] \in Threads
        BY <1>3, <3>3 DEF Heaps
      <4> QED BY <1>2, <2>1, <3>3, <4>1, PushPointers
    <3>4. CASE Push(th)
      <4>1. PICK p \in Pages : todo[th][p] > 0 /\ PushFreeObj(p)
        BY <3>4 DEF Push
      <4>2. heap[p] # None
        BY <1>2, <4>1 DEF CountInv, NoObjects
      <4> QED BY <3>3, <3>4, <4>1, <4>2 DEF Push
    <3>5. CASE \E p \in Pages : DeallocLocal(th, p)
      <4>1. PICK p \in Pages : DeallocLocal(th, p)
        BY <3>5
      <4>2. heap[p] # None /\ PushFreeObj(p) /\ UNCHANGED cur
        BY <4>1, MainAssumption DEF DeallocLocal
      <4> QED BY <3>3, <4>2
    <3> QED BY <1>6, <3>1, <3>2, <3>4, <3>5
  <2>5. /\ pc' = [pc EXCEPT ![th] = pc[th]] /\ after' = [after EXCEPT ![th] = after[th]]
        /\ pc[th] # "format"
    BY <1>4, <2>1
  <2> QED BY <1>2, <2>1, <2>2, <2>4, <2>5, PageStays
<1> QED
  BY <1>1, <1>2, <1>5, <1>6, MovePagePageStep, TakePagePageStep, FormatPageStep, SegmentPageStep

LEMMA ConserveInit == Init => ConserveInv
<1> SUFFICES ASSUME Init PROVE ConserveInv
  OBVIOUS
<1>1. AllocInv
  BY AllocInit
<1>2. PageTypes
  BY NoPageIsNoPage, SizesAssumption DEF Init, PageTypes, Heaps
<1>3. \A t \in Threads, p \in Pages : ~CutBy(t, p)
  BY DEF Init, CutBy
<1>4. FreshInv
  <2>1. \A t \in Threads : pc[t] # "format"
    BY DEF Init
  <2>2. ASSUME NEW p \in Pages PROVE heap[p] = None /\ p[2] > used[p[1]]
    <3>1. p[1] \in Segments /\ p[2] \in 1..MaxCut
      BY PageParts
    <3> QED BY <3>1, SizesAssumption DEF Init
  <2> QED BY <1>3, <2>1, <2>2 DEF FreshInv
<1>5. PointerInv
  BY DEF Init, PointerInv, KnownPtrs
<1>6. CountTypes
  BY DEF Init, CountTypes, Empty
<1>7. ASSUME NEW p \in Pages PROVE NoObjects(p) /\ heap[p] = None
  BY DEF Init, NoObjects, Empty
<1>8. ASSUME NEW p \in Pages PROVE AllObjectsOf(p) = 0
  <2>1. ASSUME NEW t \in Threads PROVE CarriesAll(t, p) = 0
    <3>1. [h \in Threads |-> entries[t][h][p]] = [h \in Threads |-> 0]
      BY <1>7 DEF NoObjects
    <3>2. Sent(t, p) = 0
      BY <3>1, TotalZero, MainAssumption DEF Sent
    <3>3. todo[t][p] = 0 /\ toExport[t][p] = 0 /\ toImport[t][p] = 0
      BY <1>7 DEF NoObjects
    <3>4. CarriesAll(t, p) = todo[t][p] + toExport[t][p] + toImport[t][p] + Sent(t, p)
      BY <1>6, SentType
    <3> QED BY <3>2, <3>3, <3>4
  <2>2. [t \in Threads |-> CarriesAll(t, p)] = [t \in Threads |-> 0]
    BY <2>1
  <2>3. Total([t \in Threads |-> CarriesAll(t, p)]) = 0
    BY <2>2, TotalZero, MainAssumption
  <2>4. numFree[p] = 0 /\ live[p] = 0
    BY <1>7 DEF NoObjects
  <2> QED BY <2>3, <2>4 DEF AllObjectsOf
<1>9. \A t \in Threads, p \in Pages : todo[t][p] = 0
  BY DEF Init, Empty
<1>10. CountInv
  BY <1>6, <1>7, <1>8, <1>9 DEF CountInv, AllConserved
<1> QED BY <1>1, <1>2, <1>4, <1>5, <1>10 DEF ConserveInv, PageInv

LEMMA ConserveStep == ConserveInv /\ [Next]_vars => ConserveInv'
<1> SUFFICES ASSUME ConserveInv, [Next]_vars PROVE ConserveInv'
  OBVIOUS
<1>1. AllocInv'
  BY AllocStep DEF ConserveInv
<1>2. CASE Next
  BY <1>1, <1>2, CountStep, PageStep DEF ConserveInv
<1>3. CASE UNCHANGED vars
  <2>1. UNCHANGED <<pc, after, todo, toExport, toImport, entries, numFree, live, heap, newPage,
                    moved, used, segs, cur, pageFree, next>>
    BY <1>3 DEF vars, threadVars, heapVars, pageVars
  <2>2. PageTypes /\ FreshInv /\ PointerInv /\ CountInv
    BY DEF ConserveInv, PageInv
  <2>3. CountInv'
    <3>1. ASSUME NEW t \in Threads PROVE NothingToPush(t)'
      BY <2>1, <2>2 DEF NothingToPush, CountInv
    <3> QED BY <2>1, <2>2, <3>1, CountsStay
  <2>4. PageTypes' /\ PointerInv'
    BY <2>1, <2>2, PointersStay DEF PageTypes
  <2>5. FreshInv'
    <3>1. \A t \in Threads : newPage[t] \in Pages => SettingUp(t)
      BY <2>2, NotSettingUp, NoPageIsNoPage
    <3>2. \A t \in Threads : SettingUp(t)' <=> SettingUp(t)
      BY <2>1 DEF SettingUp, Adopting
    <3>3. \A t \in Threads : pc'[t] = "format" => newPage[t] \in Pages
      BY <2>1, <2>2 DEF FreshInv
    <3> QED BY <2>1, <2>2, <3>1, <3>2, <3>3, FreshStays
  <2> QED BY <1>1, <2>3, <2>4, <2>5 DEF ConserveInv, PageInv
<1> QED BY <1>2, <1>3

(* No object is taken from a page that has none, as long as the pages that *)
(* alloc recycles have one.                                                *)
EnoughFree == \A p \in Pages : numFree[p] >= 0

LEMMA EnoughFreeStep ==
    ASSUME ConserveInv, EnoughFree, AdoptionIsSound, [Next]_vars
    PROVE  EnoughFree'
<1>1. numFree \in [Pages -> Int] /\ ObjsPerPage \in Nat \ {0}
  BY SizesAssumption DEF ConserveInv, CountInv, CountTypes
<1>2. CASE UNCHANGED numFree
  BY <1>2 DEF EnoughFree
<1>3. ASSUME NEW q \in Pages, numFree' = Add(numFree, q)
      PROVE  EnoughFree'
  BY <1>1, <1>3 DEF EnoughFree, Add
<1>4. ASSUME NEW q, numFree' = Take(numFree, q), q \in Pages => numFree[q] > 0
      PROVE  EnoughFree'
  BY <1>1, <1>4 DEF EnoughFree, Take
<1>5. ASSUME NEW th \in Threads, Format(th)
      PROVE  EnoughFree'
  <2>1. PICK n \in Nat : numFree' = [numFree EXCEPT ![newPage[th]] = n]
    <3>1. /\ ObjsPerPage \in Nat /\ ObjsPerPage - 1 \in Nat
      BY <1>1
    <3> QED BY <1>5, <3>1 DEF Format, NumFreeOfPage
  <2> QED BY <1>1, <2>1 DEF EnoughFree
<1>6. CASE Next
  <2>1. PICK th \in Threads :
        \/ StartThread(th) \/ NewSegment(th) \/ PopOrphan(th) \/ MovePage(th)
        \/ MoveDone(th) \/ Settle(th) \/ TakePage(th) \/ Format(th)
        \/ AllocFast(th) \/ AllocRecycle(th) \/ AllocSlow(th)
        \/ \E p \in Pages : DeallocLocal(th, p) \/ DeallocForeign(th, p)
        \/ Push(th) \/ PushDone(th)
        \/ ExportSort(th) \/ ExportSend(th) \/ ExportDone(th)
        \/ ExitThread(th) \/ ExitImport(th) \/ PushOrphan(th)
    BY <1>6 DEF Next
  <2>2. CASE \/ StartThread(th) \/ NewSegment(th) \/ PopOrphan(th) \/ MovePage(th)
             \/ MoveDone(th) \/ Settle(th) \/ TakePage(th)
    BY <1>2, <2>2 DEF StartThread, NewSegment, PopOrphan, MovePage, MoveDone, Settle, TakePage,
                      pageVars
  <2>3. CASE \/ AllocSlow(th) \/ PushDone(th) \/ ExportSort(th) \/ ExportSend(th)
             \/ ExportDone(th) \/ ExitThread(th) \/ ExitImport(th) \/ PushOrphan(th)
             \/ \E p \in Pages : DeallocForeign(th, p)
    BY <1>2, <2>3 DEF AllocSlow, PushDone, ExportSort, ExportSend, ExportDone, ExitThread,
                      ExitImport, PushOrphan, DeallocForeign, pageVars
  <2>4. CASE AllocFast(th)
    BY <1>4, <2>4 DEF AllocFast
  <2>5. CASE AllocRecycle(th)
    <3>1. numFree' = Take(numFree, pageFree[th]) /\ pc[th] = "run"
      BY <2>5 DEF AllocRecycle, MayAlloc
    <3>2. pageFree[th] \in Pages => numFree[pageFree[th]] > 0
      BY <3>1 DEF AdoptionIsSound
    <3> QED BY <1>4, <3>1, <3>2
  <2>6. CASE Push(th) \/ \E p \in Pages : DeallocLocal(th, p)
    BY <1>3, <2>6 DEF Push, DeallocLocal, PushFreeObj
  <2> QED BY <1>5, <2>1, <2>2, <2>3, <2>4, <2>5, <2>6
<1>7. CASE UNCHANGED vars
  BY <1>2, <1>7 DEF vars, pageVars
<1> QED BY <1>6, <1>7

(* Where nothing has been sent to a deleted heap, the two ways of counting *)
(* the objects agree.                                                      *)
LEMMA NothingSentToDeleted ==
    ASSUME AllConserved, EnoughFree, AdoptionIsSound
    PROVE  ObjectsConserved
<1> SUFFICES ASSUME NEW p \in Pages PROVE ObjectsOf(p) = AllObjectsOf(p)
  BY DEF AllConserved, EnoughFree, ObjectsConserved
<1>1. ASSUME NEW t \in Threads
      PROVE  (IF t \in dead THEN 0 ELSE toImport[t][p]) = toImport[t][p]
  BY DEF AdoptionIsSound, Empty
<1>2. \A t \in Threads : Carries(t, p) = CarriesAll(t, p)
  BY <1>1 DEF Carries, CarriesAll
<1>3. [t \in Threads |-> Carries(t, p)] = [t \in Threads |-> CarriesAll(t, p)]
  BY <1>2
<1> QED BY <1>3 DEF ObjectsOf, AllObjectsOf

(* However threads start, end, allocate, free and adopt, and for any       *)
(* number of them and any sizes of segments, pages and export lists: in    *)
(* every execution in which no page is cut out behind its segment, no      *)
(* object is sent to a deleted heap, only its owner writes a page header   *)
(* and pages to be recycled have a free object, each object of a page is   *)
(* in the program's hands, free, or on exactly one list (alloc, dealloc,   *)
(* import_objs, export_objs and alloc_page).                               *)
THEOREM NoObjectLost == Spec /\ []AdoptionIsSound => []ObjectsConserved
<1>1. Init => EnoughFree
  BY DEF Init, EnoughFree, Empty
<1>2. ConserveInv /\ EnoughFree /\ AdoptionIsSound => ObjectsConserved
  BY NothingSentToDeleted DEF ConserveInv, CountInv
<1>3. ConserveInv /\ EnoughFree /\ AdoptionIsSound /\ [Next]_vars => EnoughFree'
  BY EnoughFreeStep
<1> QED BY <1>1, <1>2, <1>3, ConserveInit, ConserveStep, PTL DEF Spec
=============================================================================
