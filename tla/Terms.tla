------------------------------- MODULE Terms -------------------------------
(***************************************************************************)
(* Bound variables of kernel terms: lift_loose_bvars, lower_loose_bvars    *)
(* (kernel/expr.cpp), instantiate, instantiate_rev and beta reduction      *)
(* (kernel/instantiate.cpp) and abstract (kernel/abstract.cpp), all on top *)
(* of replace (kernel/replace_fn.cpp).                                     *)
(*                                                                         *)
(* A term is a tuple that starts with its kind.  Pi is built and traversed *)
(* like "lam"; constants, sorts and literals are like an "fvar" that       *)
(* nobody abstracts; mdata and proj only pass on to their argument.  The   *)
(* types in free variables (legacy code) and the saturation of indices at  *)
(* the greatest unsigned are left out, and so is the cache of replace,     *)
(* keyed by object and offset, which has no effect on results.             *)
(***************************************************************************)
EXTENDS Naturals, Sequences, SequencesExt

CONSTANTS
    FVars,        \* names of free variables
    MaxBVar,      \* bound: indices of bound variables
    MaxTermSize   \* bound: how many constructors a term is built of

ASSUME TermAssumption == MaxBVar \in Nat /\ MaxTermSize \in Nat

VARIABLES
    term,    \* a term that a program builds
    subst    \* the terms to instantiate its loose bound variables with

termVars == <<term, subst>>

BVar(i)      == <<"bvar", i>>
FVar(x)      == <<"fvar", x>>
App(f, a)    == <<"app", f, a>>
Lam(t, b)    == <<"lam", t, b>>
Let(t, v, b) == <<"let", t, v, b>>

IsK(k, e) == e[1] = k
SafeDec(n) == IF n = 0 THEN 0 ELSE n - 1
Greatest(m, n) == IF m > n THEN m ELSE n

(* The field of a term that its constructor computes.                      *)
RECURSIVE LooseBVarRange(_)
LooseBVarRange(e) ==
    CASE IsK("bvar", e) -> e[2] + 1
      [] IsK("fvar", e) -> 0
      [] IsK("app", e)  -> Greatest(LooseBVarRange(e[2]), LooseBVarRange(e[3]))
      [] IsK("lam", e)  -> Greatest(LooseBVarRange(e[2]), SafeDec(LooseBVarRange(e[3])))
      [] IsK("let", e)  -> Greatest(LooseBVarRange(e[2]),
                               Greatest(LooseBVarRange(e[3]), SafeDec(LooseBVarRange(e[4]))))

HasLooseBVars(e) == LooseBVarRange(e) > 0

RECURSIVE HasFVar(_)
HasFVar(e) == IsK("fvar", e) \/ \E i \in 2..Len(e) : ~IsK("bvar", e) /\ HasFVar(e[i])

(***************************************************************************)
(* replace: F(e, offset) is the result for the subterm e under offset      *)
(* binders, or None for a subterm whose own subterms are visited.  The     *)
(* offset grows by one on the way into the body of a binder.               *)
(***************************************************************************)
None == <<>>

OffsetOf(e, i, offset) == IF e[1] \in {"lam", "let"} /\ i = Len(e) THEN offset + 1 ELSE offset

RECURSIVE Replace(_, _, _)
Replace(e, F(_, _), offset) ==
    LET r == F(e, offset) IN
    IF r # None THEN r
    ELSE IF e[1] \in {"bvar", "fvar"} THEN e
    ELSE [i \in DOMAIN e |-> IF i = 1 THEN e[1] ELSE Replace(e[i], F, OffsetOf(e, i, offset))]

LiftLooseBVars(e, s, d) ==
    LET F(m, offset) ==
            IF s + offset >= LooseBVarRange(m) THEN m
            ELSE IF IsK("bvar", m) /\ m[2] >= s + offset THEN BVar(m[2] + d)
            ELSE None
    IN  IF d = 0 \/ s >= LooseBVarRange(e) THEN e ELSE Replace(e, F, 0)

LowerLooseBVars(e, s, d) ==
    LET F(m, offset) ==
            IF s + offset >= LooseBVarRange(m) THEN m
            ELSE IF IsK("bvar", m) /\ m[2] >= s + offset THEN BVar(m[2] - d)
            ELSE None
    IN  IF d = 0 \/ s >= LooseBVarRange(e) THEN e ELSE Replace(e, F, 0)

(* The search stops at subterms without loose variables from i on.         *)
RECURSIVE HasLooseBVar(_, _)
HasLooseBVar(e, i) ==
    /\ i < LooseBVarRange(e)
    /\ CASE IsK("bvar", e) -> e[2] = i
         [] IsK("fvar", e) -> FALSE
         [] IsK("app", e)  -> HasLooseBVar(e[2], i) \/ HasLooseBVar(e[3], i)
         [] IsK("lam", e)  -> HasLooseBVar(e[2], i) \/ HasLooseBVar(e[3], i + 1)
         [] IsK("let", e)  -> \/ HasLooseBVar(e[2], i) \/ HasLooseBVar(e[3], i)
                              \/ HasLooseBVar(e[4], i + 1)

(***************************************************************************)
(* instantiate_easy_fn: a variable, or an application spine of closed      *)
(* terms and variables that are all instantiated, needs no traversal.      *)
(***************************************************************************)
RECURSIVE InstantiateEasy(_, _, _)
InstantiateEasy(a, sub, app) ==
    LET x == InstantiateEasy(a[3], sub, FALSE)
        f == InstantiateEasy(a[2], sub, TRUE)
    IN  IF ~HasLooseBVars(a) THEN a
        ELSE IF IsK("bvar", a) THEN IF a[2] < Len(sub) THEN sub[a[2] + 1] ELSE None
        ELSE IF app /\ IsK("app", a) /\ x # None /\ f # None THEN App(f, x)
        ELSE None

(* Faulty variant: what is put under binders is not lifted.                *)
InstantiateTermUnlifted(e, s, sub) ==
    LET n == Len(sub)
        F(m, offset) ==
            LET s1 == s + offset IN
            IF s1 >= LooseBVarRange(m) THEN m
            ELSE IF ~IsK("bvar", m) \/ m[2] < s1 THEN None
            ELSE IF m[2] < s1 + n THEN sub[m[2] - s1 + 1]
            ELSE BVar(m[2] - n)
    IN  IF s >= LooseBVarRange(e) \/ n = 0 THEN e ELSE Replace(e, F, 0)

InstantiateTerm(e, s, sub) ==
    LET n == Len(sub)
        F(m, offset) ==
            LET s1 == s + offset IN
            IF s1 >= LooseBVarRange(m) THEN m
            ELSE IF ~IsK("bvar", m) \/ m[2] < s1 THEN None
            ELSE IF m[2] < s1 + n THEN LiftLooseBVars(sub[m[2] - s1 + 1], 0, offset)
            ELSE BVar(m[2] - n)
        easy == InstantiateEasy(e, sub, TRUE)
    IN  IF s >= LooseBVarRange(e) \/ n = 0 THEN e
        ELSE IF s = 0 /\ easy # None THEN easy
        ELSE Replace(e, F, 0)

(* instantiate_rev is the same code with the indices of subst reversed.    *)
InstantiateRev(e, sub) == InstantiateTerm(e, 0, Reverse(sub))

(* Faulty variant: the depth under binders is forgotten.                   *)
AbstractFlat(e, xs) ==
    LET F(m, offset) ==
            LET at == {i \in DOMAIN xs : m = FVar(xs[i])} IN
            IF ~HasFVar(m) THEN m
            ELSE IF at # {} THEN BVar(Len(xs) - CHOOSE i \in at : \A j \in at : j <= i)
            ELSE None
    IN  Replace(e, F, 0)

(* abstract; the last of equal variables is the one that is found.         *)
Abstract(e, xs) ==
    LET F(m, offset) ==
            LET at == {i \in DOMAIN xs : m = FVar(xs[i])} IN
            IF ~HasFVar(m) THEN m
            ELSE IF at # {} THEN BVar(offset + Len(xs) - CHOOSE i \in at : \A j \in at : j <= i)
            ELSE None
    IN  Replace(e, F, 0)

----------------------------------------------------------------------------
RECURSIVE AppFn(_), AppArgs(_), MkApp(_, _)
AppFn(e)       == IF IsK("app", e) THEN AppFn(e[2]) ELSE e
AppArgs(e)     == IF IsK("app", e) THEN Append(AppArgs(e[2]), e[3]) ELSE <<>>
MkApp(f, args) == IF args = <<>> THEN f ELSE MkApp(App(f, Head(args)), Tail(args))

IsHeadBeta(e) == IsK("app", e) /\ IsK("lam", AppFn(e))

(* The body under the first m lambdas of f.                                *)
RECURSIVE BodyAt(_, _)
BodyAt(f, m) == IF m = 0 THEN f ELSE BodyAt(f[3], m - 1)

RECURSIVE NumLams(_)
NumLams(f) == IF IsK("lam", f) THEN NumLams(f[3]) + 1 ELSE 0

Least2(m, n) == IF m < n THEN m ELSE n

(* Faulty variant: the arguments are given to the lambdas in their order.  *)
ApplyBetaUnreversed(f, args) ==
    LET m == Least2(NumLams(f), Len(args)) IN
    MkApp(InstantiateTerm(BodyAt(f, m), 0, SubSeq(args, 1, m)), SubSeq(args, m + 1, Len(args)))

(* apply_beta; the code has the arguments in reverse order.                *)
ApplyBeta(f, args) ==
    LET m == Least2(NumLams(f), Len(args)) IN
    MkApp(InstantiateTerm(BodyAt(f, m), 0, Reverse(SubSeq(args, 1, m))),
          SubSeq(args, m + 1, Len(args)))

RECURSIVE HeadBetaReduce(_)
HeadBetaReduce(e) ==
    IF IsHeadBeta(e) THEN HeadBetaReduce(ApplyBeta(AppFn(e), AppArgs(e))) ELSE e

(* cheap_beta_reduce, of a term without loose bound variables.             *)
CheapBetaReduce(e) ==
    LET args == AppArgs(e)
        i    == Least2(NumLams(AppFn(e)), Len(args))
        fn   == BodyAt(AppFn(e), i)
        rest == SubSeq(args, i + 1, Len(args))
    IN  IF ~IsHeadBeta(e) THEN e
        ELSE IF ~HasLooseBVars(fn) THEN MkApp(fn, rest)
        ELSE IF IsK("bvar", fn) THEN MkApp(args[i - fn[2]], rest)
        ELSE e

----------------------------------------------------------------------------
(* Programs build terms with the constructors.                             *)
Atoms == {BVar(i) : i \in 0..MaxBVar} \cup {FVar(x) : x \in FVars}

RECURSIVE TermSize(_)
TermSize(e) ==
    CASE e[1] \in {"bvar", "fvar"} -> 1
      [] e[1] \in {"app", "lam"}   -> 1 + TermSize(e[2]) + TermSize(e[3])
      [] IsK("let", e) -> 1 + TermSize(e[2]) + TermSize(e[3]) + TermSize(e[4])

TermInit ==
    /\ term \in Atoms
    /\ \E x \in FVars : subst \in {<<FVar(x), Lam(FVar(x), BVar(0))>>,
                                   <<App(BVar(1), FVar(x)), Lam(BVar(0), App(BVar(0), BVar(1)))>>}

MkTerm ==
    /\ \E x \in Atoms : term' \in {App(term, x), App(x, term), Lam(term, x), Lam(x, term)}
                               \cup {Let(x, term, y) : y \in Atoms} \cup {Let(x, y, term) : y \in Atoms}
    /\ TermSize(term') <= MaxTermSize
    /\ UNCHANGED subst

NewTerm == TermSize(term) + 2 > MaxTermSize /\ term' \in Atoms /\ UNCHANGED subst

TermNext == MkTerm \/ NewTerm

----------------------------------------------------------------------------
(***************************************************************************)
(* Simultaneous substitution, as de Bruijn defines it: the variable i      *)
(* stands for the term sg[i], and under a binder 0 stands for itself and   *)
(* the variables of everything else are renamed.                           *)
(***************************************************************************)
RECURSIVE Rename(_, _)
Rename(e, rn) ==
    LET under == [i \in Nat |-> IF i = 0 THEN 0 ELSE rn[i - 1] + 1] IN
    CASE IsK("bvar", e) -> BVar(rn[e[2]])
      [] IsK("fvar", e) -> e
      [] IsK("app", e)  -> App(Rename(e[2], rn), Rename(e[3], rn))
      [] IsK("lam", e)  -> Lam(Rename(e[2], rn), Rename(e[3], under))
      [] IsK("let", e)  -> Let(Rename(e[2], rn), Rename(e[3], rn), Rename(e[4], under))

RECURSIVE Subst(_, _)
Subst(e, sg) ==
    LET up    == [i \in Nat |-> i + 1]
        under == [i \in Nat |-> IF i = 0 THEN BVar(0) ELSE Rename(sg[i - 1], up)]
    IN  CASE IsK("bvar", e) -> sg[e[2]]
          [] IsK("fvar", e) -> e
          [] IsK("app", e)  -> App(Subst(e[2], sg), Subst(e[3], sg))
          [] IsK("lam", e)  -> Lam(Subst(e[2], sg), Subst(e[3], under))
          [] IsK("let", e)  -> Let(Subst(e[2], sg), Subst(e[3], sg), Subst(e[4], under))

(* The variables below s stay, the next ones are sub, the others go down.  *)
SubstAt(e, s, sub) ==
    Subst(e, [i \in Nat |-> IF i < s THEN BVar(i)
                            ELSE IF i < s + Len(sub) THEN sub[i - s + 1]
                            ELSE BVar(i - Len(sub))])

RenameAt(e, s, d) == Rename(e, [i \in Nat |-> IF i < s THEN i ELSE i + d])

(***************************************************************************)
(* instantiate and instantiate_rev, with their shortcuts, are simultaneous *)
(* substitution, and lifting and lowering are renamings: no variable is    *)
(* captured and none is taken for another.                                 *)
(***************************************************************************)
InstantiateIsSubst ==
    /\ \A s \in 0..MaxBVar : \A n \in 0..Len(subst) :
        LET sub == SubSeq(subst, 1, n) IN
        InstantiateTerm(term, s, sub) = SubstAt(term, s, sub)
    /\ InstantiateRev(term, subst) = SubstAt(term, 0, Reverse(subst))
    /\ \A s \in 0..MaxBVar, d \in 1..2 :
        LET up == LiftLooseBVars(term, s, d) IN
        /\ up = RenameAt(term, s, d)
        /\ LowerLooseBVars(up, s + d, d) = term
        /\ ~HasLooseBVar(up, s)

(***************************************************************************)
(* abstract and instantiate_rev are inverses: abstracting variables of a   *)
(* closed term and putting them back gives the term, and a term that gets  *)
(* fresh variables for its loose ones is found again by abstracting them.  *)
(***************************************************************************)
AbstractInvertsInstantiate ==
    \A x, y \in FVars :
        LET xs == IF x = y THEN <<x>> ELSE <<x, y>>
            vs == [i \in DOMAIN xs |-> FVar(xs[i])]
            ab == Abstract(term, xs)
        IN  /\ ~HasLooseBVars(term) =>
                /\ InstantiateRev(ab, vs) = term
                /\ LooseBVarRange(ab) <= Len(xs)
            /\ LooseBVarRange(term) <= Len(xs) /\ ab = term
               => Abstract(InstantiateRev(term, vs), xs) = term

(* One beta step at the head, and the term it leads to in the end.         *)
RECURSIVE HeadSteps(_, _)
HeadSteps(e, n) ==
    IF n = 0 \/ ~IsHeadBeta(e) THEN e
    ELSE LET args == AppArgs(e)
         IN  HeadSteps(MkApp(SubstAt(AppFn(e)[3], 0, <<Head(args)>>), Tail(args)), n - 1)

(***************************************************************************)
(* head_beta_reduce, which gives several arguments to several lambdas at   *)
(* once, gets to the term that single steps get to; cheap_beta_reduce gets *)
(* to one on the way.                                                      *)
(***************************************************************************)
BetaIsSteps ==
    LET redex == MkApp(term, subst) IN
    /\ HeadBetaReduce(redex) = HeadSteps(redex, MaxTermSize)
    /\ ~HasLooseBVars(redex) =>
        \E n \in 0..Len(AppArgs(redex)) : CheapBetaReduce(redex) = HeadSteps(redex, n)
=============================================================================
