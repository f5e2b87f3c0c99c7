------------------------------- MODULE Level -------------------------------
(***************************************************************************)
(* Universe levels (kernel/level.cpp).  A level is a tuple that starts     *)
(* with its kind; universe metavariables, which these operations treat     *)
(* like parameters, are left out.  The kernel trusts is_geq and            *)
(* is_equivalent when it compares sorts; both work on normal forms that    *)
(* normalize computes by flattening, sorting and merging the arguments of  *)
(* max.                                                                    *)
(***************************************************************************)
EXTENDS Naturals, Sequences, FiniteSets, TLC

CONSTANTS
    Params,          \* the universe parameters, numbers for their order
    MaxLevelDepth,   \* bound: how often constructors are applied
    MaxUniverse      \* bound: parameters are assigned 0..MaxUniverse

ASSUME LevelAssumption ==
    Params \subseteq Nat /\ MaxLevelDepth \in Nat /\ MaxUniverse \in Nat

VARIABLES
    lvl,     \* a level that a program builds
    other    \* another one, to compare it with

levelVars == <<lvl, other>>

Zero       == <<"zero">>
Succ(l)    == <<"succ", l>>
Max2(a, b) == <<"max", a, b>>
IMax(a, b) == <<"imax", a, b>>
Param(p)   == <<"param", p>>

Is(k, l)   == l[1] = k
KindNo(l)  == CASE Is("zero", l) -> 0 [] Is("succ", l) -> 1 [] Is("max", l) -> 2
                [] Is("imax", l) -> 3 [] Is("param", l) -> 4

RECURSIVE ToOffset(_)
ToOffset(l) ==
    IF Is("succ", l) THEN LET p == ToOffset(l[2]) IN <<p[1], p[2] + 1>> ELSE <<l, 0>>

IsExplicit(l) == ToOffset(l)[1] = Zero

RECURSIVE LevelDepth(_)
LevelDepth(l) ==
    CASE Is("succ", l) -> LevelDepth(l[2]) + 1
      [] Is("max", l) \/ Is("imax", l) ->
            LET a == LevelDepth(l[2])
                b == LevelDepth(l[3])
            IN  (IF a > b THEN a ELSE b) + 1
      [] OTHER -> 1

RECURSIVE IsNotZero(_)
IsNotZero(l) ==
    CASE Is("succ", l) -> TRUE
      [] Is("max", l)  -> IsNotZero(l[2]) \/ IsNotZero(l[3])
      [] Is("imax", l) -> IsNotZero(l[3])
      [] OTHER -> FALSE

MkMax(a, b) ==
    LET p == ToOffset(a)
        q == ToOffset(b)
    IN  IF IsExplicit(a) /\ IsExplicit(b) THEN IF LevelDepth(a) >= LevelDepth(b) THEN a ELSE b
        ELSE IF a = b THEN a
        ELSE IF a = Zero THEN b
        ELSE IF b = Zero THEN a
        ELSE IF Is("max", b) /\ a \in {b[2], b[3]} THEN b
        ELSE IF Is("max", a) /\ b \in {a[2], a[3]} THEN a
        ELSE IF p[1] = q[1] THEN IF p[2] > q[2] THEN a ELSE b
        ELSE Max2(a, b)

(* Faulty variant: imax u v = max u v whenever v may be positive.          *)
MkIMaxEager(a, b) ==
    IF b = Zero THEN b ELSE MkMax(a, b)

MkIMax(a, b) ==
    IF IsNotZero(b) THEN MkMax(a, b)
    ELSE IF b = Zero \/ a = Zero THEN b
    ELSE IF a = b THEN a
    ELSE IMax(a, b)

(* The total order of the normalisation procedure.                         *)
RECURSIVE IsNormLt(_, _)
IsNormLt(a, b) ==
    LET p == ToOffset(a)
        q == ToOffset(b)
        l == p[1]
        m == q[1]
    IN  IF l = m THEN p[2] < q[2]
        ELSE IF l[1] # m[1] THEN KindNo(l) < KindNo(m)
        ELSE IF Is("param", l) THEN l[2] < m[2]
        ELSE IF l[2] # m[2] THEN IsNormLt(l[2], m[2])
        ELSE IsNormLt(l[3], m[3])

RECURSIVE PushMaxArgs(_)
PushMaxArgs(l) == IF Is("max", l) THEN PushMaxArgs(l[2]) \o PushMaxArgs(l[3]) ELSE <<l>>

(* mk_max of a buffer, from the right.                                     *)
RECURSIVE MkMaxOf(_)
MkMaxOf(s) == IF Len(s) = 1 THEN s[1] ELSE MkMax(Head(s), MkMaxOf(Tail(s)))

RECURSIVE MkSucc(_, _)
MkSucc(l, k) == IF k = 0 THEN l ELSE Succ(MkSucc(l, k - 1))

(* Where the merge of the sorted arguments starts: at the greatest         *)
(* explicit one, or after it if a later one has the same offset or more.   *)
MergeFrom(args) ==
    LET n == Cardinality({i \in DOMAIN args : IsExplicit(args[i])})
        k == ToOffset(args[n])[2]
    IN  IF n = 0 THEN 1
        ELSE IF \E j \in n + 1..Len(args) : ToOffset(args[j])[2] >= k THEN n + 1 ELSE n

(* Faulty variant: the first of the arguments l, l+1, l+2 is kept.         *)
MergeFirst(args) ==
    LET from == MergeFrom(args)
        keep == {i \in from..Len(args) :
                   i = from \/ ToOffset(args[i])[1] # ToOffset(args[i - 1])[1]}
    IN  [i \in 1..Cardinality(keep) |->
           args[CHOOSE j \in keep : Cardinality({x \in keep : x <= j}) = i]]

(* Of the arguments l+k with the same l, which are in a row, the last one  *)
(* has the greatest k and is kept.                                         *)
Merge(args) ==
    LET keep == {i \in MergeFrom(args)..Len(args) :
                   i = Len(args) \/ ToOffset(args[i])[1] # ToOffset(args[i + 1])[1]}
    IN  [i \in 1..Cardinality(keep) |->
           args[CHOOSE j \in keep : Cardinality({x \in keep : x <= j}) = i]]

(* normalize returns its argument, the same object.                        *)
RECURSIVE Unchanged(_)
Unchanged(l) ==
    LET r == ToOffset(l)[1] IN
    CASE Is("max", r)  -> FALSE
      [] Is("imax", r) -> Unchanged(r[2]) /\ Unchanged(r[3])
      [] OTHER -> TRUE

RECURSIVE NormalizeAll(_), Normalize(_)
NormalizeAll(s) ==
    IF s = <<>> THEN <<>> ELSE PushMaxArgs(Normalize(Head(s))) \o NormalizeAll(Tail(s))
Normalize(l) ==
    LET r == ToOffset(l)[1]
        k == ToOffset(l)[2]
    IN  CASE Unchanged(l) -> l
          [] Is("imax", r) /\ ~Unchanged(l) -> MkSucc(MkIMax(Normalize(r[2]), Normalize(r[3])), k)
          [] Is("max", r) ->
                LET args == Merge(SortSeq(NormalizeAll(PushMaxArgs(r)), IsNormLt))
                IN  MkMaxOf([i \in DOMAIN args |-> MkSucc(args[i], k)])

IsEquivalent(a, b) == a = b \/ Normalize(a) = Normalize(b)

(* is_geq_core of normal forms.                                            *)
RECURSIVE IsGeqCore(_, _)
IsGeq(a, b) == IsGeqCore(Normalize(a), Normalize(b))
IsGeqCore(a, b) ==
    LET p == ToOffset(a)
        q == ToOffset(b)
    IN  IF a = b \/ b = Zero THEN TRUE
        ELSE IF Is("max", b) THEN IsGeq(a, b[2]) /\ IsGeq(a, b[3])
        ELSE IF Is("max", a) /\ (IsGeq(a[2], b) \/ IsGeq(a[3], b)) THEN TRUE
        ELSE IF Is("imax", b) THEN IsGeq(a, b[2]) /\ IsGeq(a, b[3])
        ELSE IF Is("imax", a) THEN IsGeq(a[3], b)
        ELSE IF p[1] = q[1] \/ q[1] = Zero THEN p[2] >= q[2]
        ELSE p[2] = q[2] /\ p[2] > 0 /\ IsGeq(p[1], q[1])

(* instantiate with the levels f[p] for the parameters p, by replace,      *)
(* update_succ and update_max, which rebuild what has changed.             *)
RECURSIVE InstLevel(_, _)
InstLevel(l, f) ==
    IF Is("param", l) THEN f[l[2]]
    ELSE IF Is("zero", l) THEN l
    ELSE IF Is("succ", l) THEN Succ(InstLevel(l[2], f))
    ELSE LET a == InstLevel(l[2], f)
             b == InstLevel(l[3], f)
         IN  IF <<a, b>> = <<l[2], l[3]>> THEN l
             ELSE IF Is("max", l) THEN MkMax(a, b) ELSE MkIMax(a, b)

----------------------------------------------------------------------------
(* Programs build levels with the constructors.                            *)
Simple ==
    LET atoms == {Zero} \cup {Param(p) : p \in Params}
    IN  atoms \cup {Succ(a) : a \in atoms}
              \cup {Max2(a, b) : a, b \in atoms} \cup {IMax(a, b) : a, b \in atoms}

LevelInit == lvl \in {Zero} \cup {Param(p) : p \in Params} /\ other \in Simple

Build ==
    /\ LevelDepth(lvl) < MaxLevelDepth
    /\ \/ lvl' = Succ(lvl)
       \/ \E x \in Simple :
            LevelDepth(x) < MaxLevelDepth /\ lvl' \in {Max2(lvl, x), IMax(lvl, x), IMax(x, lvl)}
    /\ UNCHANGED other

Restart == LevelDepth(lvl) = MaxLevelDepth /\ lvl' = Zero /\ UNCHANGED other

LevelNext == Build \/ Restart

----------------------------------------------------------------------------
Assignments == [Params -> 0..MaxUniverse]

(* The universe that a level denotes under the assignment A.               *)
RECURSIVE Eval(_, _)
Eval(l, A) ==
    CASE Is("zero", l)  -> 0
      [] Is("param", l) -> A[l[2]]
      [] Is("succ", l)  -> Eval(l[2], A) + 1
      [] OTHER ->
            LET a == Eval(l[2], A)
                b == Eval(l[3], A)
            IN  IF Is("imax", l) /\ b = 0 THEN 0 ELSE IF a > b THEN a ELSE b

(***************************************************************************)
(* normalize, mk_max, mk_imax and instantiate return levels that denote    *)
(* the right universe under every assignment, and is_not_zero tells the    *)
(* truth about it.                                                         *)
(***************************************************************************)
LevelOpsKeepMeaning ==
    LET norm == Normalize(lvl)
        max  == MkMax(lvl, other)
        imax == MkIMax(lvl, other)
        inst == InstLevel(lvl, [p \in Params |-> other])
    IN  \A A \in Assignments :
            /\ Eval(norm, A) = Eval(lvl, A)
            /\ Eval(max, A) = Eval(Max2(lvl, other), A)
            /\ Eval(imax, A) = Eval(IMax(lvl, other), A)
            /\ Eval(inst, A) = Eval(lvl, [p \in Params |-> Eval(other, A)])
            /\ IsNotZero(lvl) => Eval(lvl, A) > 0

(***************************************************************************)
(* is_norm_lt is "a total order on level expressions" in which "succ(l) is *)
(* an immediate successor of l" and "zero is the minimal element": sorting *)
(* puts the arguments that normalize merges side by side.                  *)
(***************************************************************************)
NormLtIsTotalOrder ==
    LET lt(a, b) == IsNormLt(a, b) IN
    /\ ~lt(lvl, lvl)
    /\ lvl # other => (lt(lvl, other) <=> ~lt(other, lvl))
    /\ lvl # Zero => lt(Zero, lvl)
    /\ lt(lvl, Succ(lvl)) /\ ~(lt(lvl, other) /\ lt(other, Succ(lvl)))
    /\ lt(lvl, other) => \A x \in Simple : lt(other, x) => lt(lvl, x)

(***************************************************************************)
(* "If the result is true, then forall assignments A [...] l1[A] is bigger *)
(* or equal to l2[A]" (level.h), levels that is_equivalent accepts denote  *)
(* the same universe, and is_norm_lt is a total order: the kernel never    *)
(* takes a smaller universe for a bigger one.                              *)
(***************************************************************************)
ComparisonsAreSound ==
    /\ NormLtIsTotalOrder
    /\ IsGeq(lvl, other) => \A A \in Assignments : Eval(lvl, A) >= Eval(other, A)
    /\ IsGeq(other, lvl) => \A A \in Assignments : Eval(other, A) >= Eval(lvl, A)
    /\ IsEquivalent(lvl, other) => \A A \in Assignments : Eval(lvl, A) = Eval(other, A)
=============================================================================
