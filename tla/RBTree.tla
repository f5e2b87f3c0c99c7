------------------------------- MODULE RBTree -------------------------------
(***************************************************************************)
(* rb_tree (util/rb_tree.h), the left-leaning red-black trees under rb_map *)
(* and name_set.  A node is <<red, left, value, right, shared>>, where     *)
(* shared stands for a reference counter above 1.  Copying a tree shares   *)
(* its root, and copying a shared node shares its children; a node may     *)
(* only be changed while it is not shared.  A value is a pair of a key,    *)
(* which is all that CMP compares, and the data of rb_map.                 *)
(***************************************************************************)
EXTENDS Integers, Sequences, FiniteSets

CONSTANTS Keys, Data

ASSUME RBAssumption == Keys \subseteq Int /\ IsFiniteSet(Keys)

VARIABLES
    root,        \* m_root
    contents     \* the values that the operations so far have left in it

rbVars == <<root, contents>>

Nil == <<>>
IsRed(n) == n # Nil /\ n[1]
Left(n)  == n[2]
Val(n)   == n[3]
Right(n) == n[4]
Cmp(v, w) == v[1] - w[1]

SetRed(n, c)   == <<c, n[2], n[3], n[4], n[5]>>
SetLeft(n, l)  == <<n[1], l, n[3], n[4], n[5]>>
SetVal(n, v)   == <<n[1], n[2], v, n[4], n[5]>>
SetRight(n, r) == <<n[1], n[2], n[3], r, n[5]>>

Share(n) == IF n = Nil THEN Nil ELSE <<n[1], n[2], n[3], n[4], TRUE>>

(* A shared node is replaced by a copy, which shares its children.         *)
EnsureUnshared(n) ==
    IF n # Nil /\ n[5] THEN <<n[1], Share(Left(n)), Val(n), Share(Right(n)), FALSE>> ELSE n

SetBlack(n) == IF IsRed(n) THEN SetRed(EnsureUnshared(n), FALSE) ELSE n

RotateLeft(h) ==
    LET x == EnsureUnshared(Right(h))
    IN  SetRed(SetLeft(x, SetRed(SetRight(h, Left(x)), TRUE)), h[1])

(* Faulty variant: the child is changed although it may be shared.         *)
RotateRightInPlace(h) ==
    LET x == Left(h)
    IN  SetRed(SetRight(x, SetRed(SetLeft(h, Right(x)), TRUE)), h[1])

RotateRight(h) ==
    LET x == EnsureUnshared(Left(h))
    IN  SetRed(SetRight(x, SetRed(SetLeft(h, Right(x)), TRUE)), h[1])

FlipColors(h) ==
    LET l == EnsureUnshared(Left(h))
        r == EnsureUnshared(Right(h))
    IN  SetRed(SetLeft(SetRight(h, SetRed(r, ~r[1])), SetRed(l, ~l[1])), ~h[1])

(* Faulty variant: a red right child is left where it is.                  *)
FixupNoLeft(h0) ==
    LET h2 == IF IsRed(Left(h0)) /\ IsRed(Left(Left(h0))) THEN RotateRight(h0) ELSE h0
    IN  IF IsRed(Left(h2)) /\ IsRed(Right(h2)) THEN FlipColors(h2) ELSE h2

Fixup(h0) ==
    LET h1 == IF IsRed(Right(h0)) /\ ~IsRed(Left(h0)) THEN RotateLeft(h0) ELSE h0
        h2 == IF IsRed(Left(h1)) /\ IsRed(Left(Left(h1))) THEN RotateRight(h1) ELSE h1
    IN  IF IsRed(Left(h2)) /\ IsRed(Right(h2)) THEN FlipColors(h2) ELSE h2

RECURSIVE InsertNode(_, _)
InsertNode(n, v) ==
    IF n = Nil THEN <<TRUE, Nil, v, Nil, FALSE>>
    ELSE LET h == EnsureUnshared(n)
             c == Cmp(v, Val(h))
         IN  Fixup(IF c = 0 THEN SetVal(h, v)
                   ELSE IF c < 0 THEN SetLeft(h, InsertNode(Left(h), v))
                   ELSE SetRight(h, InsertNode(Right(h), v)))

MoveRedLeft(h0) ==
    LET h == FlipColors(h0) IN
    IF Right(h) # Nil /\ IsRed(Left(Right(h)))
    THEN FlipColors(RotateLeft(SetRight(h, RotateRight(Right(h)))))
    ELSE h

MoveRedRight(h0) ==
    LET h == FlipColors(h0) IN
    IF Left(h) # Nil /\ IsRed(Left(Left(h))) THEN FlipColors(RotateRight(h)) ELSE h

(* The descent to the left of erase and erase_min.                         *)
GoLeft(h) == IF ~IsRed(Left(h)) /\ ~IsRed(Left(Left(h))) THEN MoveRedLeft(h) ELSE h

RECURSIVE EraseMinAt(_)
EraseMinAt(n) ==
    IF Left(n) = Nil THEN Nil
    ELSE LET h == GoLeft(EnsureUnshared(n)) IN Fixup(SetLeft(h, EraseMinAt(Left(h))))

RECURSIVE MinOf(_)
MinOf(n) == IF Left(n) = Nil THEN Val(n) ELSE MinOf(Left(n))

RECURSIVE MaxOf(_)
MaxOf(n) == IF Right(n) = Nil THEN Val(n) ELSE MaxOf(Right(n))

(* What erase does at the node of the value: the least value on its right  *)
(* takes its place.                                                        *)
EraseHere(h) == SetRight(SetVal(h, MinOf(Right(h))), EraseMinAt(Right(h)))

RECURSIVE EraseAt(_, _)
EraseAt(n, v) ==
    IF Cmp(v, Val(n)) < 0
    THEN LET h == GoLeft(EnsureUnshared(n)) IN Fixup(SetLeft(h, EraseAt(Left(h), v)))
    ELSE LET h0 == EnsureUnshared(n)
             h1 == IF IsRed(Left(h0)) THEN RotateRight(h0) ELSE h0
         IN  IF Cmp(v, Val(h1)) = 0 /\ Right(h1) = Nil THEN Nil
             ELSE LET h2 == IF ~IsRed(Right(h1)) /\ ~IsRed(Left(Right(h1)))
                            THEN MoveRedRight(h1) ELSE h1
                  IN  Fixup(IF Cmp(v, Val(h2)) = 0 THEN EraseHere(h2)
                            ELSE SetRight(h2, EraseAt(Right(h2), v)))

(* find and contains, as the path that the loop follows.                   *)
RECURSIVE Find(_, _)
Find(n, v) ==
    IF n = Nil THEN Nil
    ELSE LET c == Cmp(v, Val(n)) IN
         IF c = 0 THEN Val(n) ELSE Find(IF c < 0 THEN Left(n) ELSE Right(n), v)

RECURSIVE FindNextGreaterOrEqual(_, _)
FindNextGreaterOrEqual(v, n) ==
    IF n = Nil THEN Nil
    ELSE LET c == Cmp(v, Val(n)) IN
         IF c = 0 THEN Val(n)
         ELSE IF c > 0 THEN FindNextGreaterOrEqual(v, Right(n))
         ELSE LET onLeft == FindNextGreaterOrEqual(v, Left(n))
              IN  IF onLeft # Nil THEN onLeft ELSE Val(n)

RECURSIVE ToBuffer(_)
ToBuffer(n) == IF n = Nil THEN <<>> ELSE ToBuffer(Left(n)) \o <<Val(n)>> \o ToBuffer(Right(n))

(* The values that for_each_greater visits, in its order.                  *)
RECURSIVE Greater(_, _)
Greater(v, n) ==
    IF n = Nil THEN <<>>
    ELSE LET c == Cmp(v, Val(n)) IN
         IF c = 0 THEN ToBuffer(Right(n))
         ELSE IF c > 0 THEN Greater(v, Right(n))
         ELSE Greater(v, Left(n)) \o <<Val(n)>> \o ToBuffer(Right(n))

----------------------------------------------------------------------------
RBInit == root = Nil /\ contents = {}

Without(k) == {w \in contents : w[1] # k}

Insert(k, d) ==
    /\ root' = SetBlack(InsertNode(root, <<k, d>>))
    /\ contents' = Without(k) \cup {<<k, d>>}

(* erase, which does nothing unless the tree contains the value.           *)
Erase(k) ==
    /\ root' = IF Find(root, <<k>>) = Nil THEN root ELSE SetBlack(EraseAt(root, <<k>>))
    /\ contents' = Without(k)

EraseMin ==
    /\ root # Nil
    /\ root' = SetBlack(EraseMinAt(root))
    /\ contents' = {w \in contents : \E x \in contents : x[1] < w[1]}

(* The copy constructor and the assignments.                               *)
Copy == root' = Share(root) /\ UNCHANGED contents

RBNext ==
    \/ Copy
    \/ \E k \in Keys : Erase(k) \/ \E d \in Data : Insert(k, d)
    \/ EraseMin

----------------------------------------------------------------------------
Least(S) == IF S = {} THEN Nil ELSE CHOOSE v \in S : \A w \in S : v[1] <= w[1]

IsMap ==
    LET b == ToBuffer(root) IN
    /\ {b[i] : i \in DOMAIN b} = contents
    /\ \A i, j \in DOMAIN b : i < j => Cmp(b[i], b[j]) < 0
    /\ root # Nil => MinOf(root) = b[1] /\ MaxOf(root) = b[Len(b)]
    /\ \A k \in Keys :
        LET from(n) == {v \in contents : v[1] >= n}
            rest    == Greater(<<k>>, root)
        IN  /\ Find(root, <<k>>) = Least({v \in contents : v[1] = k})
            /\ FindNextGreaterOrEqual(<<k>>, root) = Least(from(k))
            /\ {rest[i] : i \in DOMAIN rest} = from(k + 1)
            /\ \A i \in DOMAIN rest \ {1} : Cmp(rest[i - 1], rest[i]) < 0

(* The black nodes on each path from the root to a leaf.                   *)
RECURSIVE BlackHeights(_)
BlackHeights(n) ==
    IF n = Nil THEN {0}
    ELSE {h + IF n[1] THEN 0 ELSE 1 : h \in BlackHeights(Left(n)) \cup BlackHeights(Right(n))}

RECURSIVE LeansLeft(_)
LeansLeft(n) ==
    n # Nil =>
        /\ ~IsRed(Right(n))
        /\ n[1] => ~IsRed(Left(n))
        /\ LeansLeft(Left(n)) /\ LeansLeft(Right(n))

(***************************************************************************)
(* The tree is the finite map that its operations describe: it holds what  *)
(* has been inserted last and not erased, and every search and every walk  *)
(* in order finds it.  check_invariant holds between any two operations:   *)
(* every path has the same number of black nodes and no two consecutive    *)
(* red ones; and the red nodes lean left, which the case analysis of fixup *)
(* relies on.                                                              *)
(***************************************************************************)
TreeIsBalancedMap ==
    /\ IsMap
    /\ ~IsRed(root)
    /\ Cardinality(BlackHeights(root)) = 1
    /\ LeansLeft(root)

RECURSIVE Nodes(_)
Nodes(n) == IF n = Nil THEN {} ELSE {n} \cup Nodes(Left(n)) \cup Nodes(Right(n))

(* A tree without the marks of its nodes.                                  *)
RECURSIVE Plain(_)
Plain(n) == IF n = Nil THEN Nil ELSE <<n[1], Plain(Left(n)), Val(n), Plain(Right(n))>>

(***************************************************************************)
(* "It uses a O(1) copy operation.  Different trees can share nodes": an   *)
(* operation changes no node that another tree can see (which is what      *)
(* lean_assert(!h.is_shared()) is for): the shared nodes after it are      *)
(* nodes of the tree before it.                                            *)
(***************************************************************************)
CopiesKeepTheirNodes ==
    [][\A n \in Nodes(root') : n[5] => Plain(n) \in {Plain(m) : m \in Nodes(root)}]_rbVars
=============================================================================
