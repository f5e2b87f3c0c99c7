----------------------------- MODULE ResetReuse -----------------------------
(***************************************************************************)
(* The pass insertResetReuse of the IR compiler                            *)
(* (library/init/lean/compiler/ir/resetreuse.lean) and the analysis of     *)
(* live variables it uses (livevars.lean).  Where a constructor object x   *)
(* has been taken apart and is not used any more, the pass inserts         *)
(* w := reset x, and lets a later constructor of the same size reuse the   *)
(* memory w.                                                               *)
(*                                                                         *)
(* A function body is a tuple that starts with its kind:                   *)
(*   <<"vdecl", x, e, b>>    let x := e; b                                 *)
(*   <<"jdecl", j, v, b>>    the join point j is v in b                    *)
(*   <<"case", x, alts>>     alts is a sequence of <<constructor, body>>   *)
(*   <<"ret", x>>, <<"jmp", j>>                                            *)
(* and an expression is <<"ctor", c, ys>>, <<"reset", x>>,                 *)
(* <<"reuse", w, c, updtHeader, ys>> or <<"use", ys>>, which stands for    *)
(* projections, applications and so on.  A constructor is <<index, size>>. *)
(* Types, parameters of join points, and instructions that only occur      *)
(* after later passes are left out.                                        *)
(***************************************************************************)
EXTENDS Naturals, Sequences, FiniteSets

CONSTANTS
    PVars,         \* the parameters of the function
    Ctors,         \* the constructors of their type
    MaxBodySize    \* bound: instructions of a body

ASSUME IRAssumption ==
    /\ Ctors \subseteq Nat \X Nat /\ IsFiniteSet(Ctors) /\ Cardinality(Ctors) > 1
    /\ MaxBodySize \in Nat

VARIABLE prog    \* the body of a function

IsB(k, b) == b[1] = k
J == "j"         \* the only join point of a function

ExprVars(e) ==
    CASE e[1] = "ctor"  -> e[3]
      [] e[1] = "reset" -> {e[2]}
      [] e[1] = "reuse" -> {e[2]} \cup e[5]
      [] e[1] = "use"   -> e[2]

(***************************************************************************)
(* hasLiveVar: x occurs in b, or in the body of a join point that b jumps  *)
(* to.  The context jp is the body of the join point in scope, or <<>>; it *)
(* is empty as soon as it has been visited.                                *)
(***************************************************************************)
RECURSIVE HasLiveVar(_, _, _)
HasLiveVar(b, jp, x) ==
    CASE IsB("vdecl", b) -> x \in ExprVars(b[3]) \/ HasLiveVar(b[4], jp, x)
      [] IsB("jdecl", b) -> HasLiveVar(b[3], jp, x) \/ HasLiveVar(b[4], jp, x)
      [] IsB("jmp", b)   -> jp # <<>> /\ HasLiveVar(jp, <<>>, x)
      [] IsB("ret", b)   -> b[2] = x
      [] IsB("case", b)  -> b[2] = x \/ \E i \in DOMAIN b[3] : HasLiveVar(b[3][i][2], jp, x)

MayReuse(c, d) == c[2] = d[2]

(* S: the first constructor on each path that fits reuses the memory w.    *)
RECURSIVE S(_, _, _)
S(w, c, b) ==
    CASE IsB("vdecl", b) ->
            IF b[3][1] = "ctor" /\ MayReuse(c, b[3][2])
            THEN <<"vdecl", b[2], <<"reuse", w, c, c[1] # b[3][2][1], b[3][3]>>, b[4]>>
            ELSE <<"vdecl", b[2], b[3], S(w, c, b[4])>>
      [] IsB("jdecl", b) ->
            LET v == S(w, c, b[3]) IN
            IF v = b[3] THEN <<"jdecl", b[2], v, S(w, c, b[4])>> ELSE <<"jdecl", b[2], v, b[4]>>
      [] IsB("case", b) ->
            <<"case", b[2], [i \in DOMAIN b[3] |-> <<b[3][i][1], S(w, c, b[3][i][2])>>]>>
      [] b[1] \in {"ret", "jmp"} -> b

RECURSIVE Size(_)
Size(b) ==
    CASE IsB("vdecl", b) -> 1 + Size(b[4])
      [] IsB("jdecl", b) -> 1 + Size(b[3]) + Size(b[4])
      [] IsB("case", b)  ->
            LET sizes[i \in 0..Len(b[3])] ==
                    IF i = 0 THEN 1 ELSE sizes[i - 1] + Size(b[3][i][2])
            IN  sizes[Len(b[3])]
      [] b[1] \in {"ret", "jmp"} -> 1

(* mkFresh: a name that no other reset on the same path has.               *)
Fresh(x, b) == <<"w", x, Size(b)>>

TryS(x, c, b) ==
    LET w == Fresh(x, b)
        r == S(w, c, b)
    IN  IF r = b THEN b ELSE <<"vdecl", w, <<"reset", x>>, r>>

Dfinalize(x, c, r) == IF r[2] THEN r[1] ELSE TryS(x, c, r[1])

(* Faulty variant: the variable is taken to be dead before its last use.   *)
DInstrEarly(x, c, e, r) ==
    <<<<"vdecl", e[2], e[3], r[1]>>, r[2]>>

(* Dmain of an instruction e, where r is the result for what follows it.   *)
DInstr(x, c, e, r) ==
    IF r[2] \/ x \notin ExprVars(e[3])
    THEN <<<<"vdecl", e[2], e[3], r[1]>>, r[2]>>
    ELSE <<<<"vdecl", e[2], e[3], TryS(x, c, r[1])>>, TRUE>>

(***************************************************************************)
(* Dmain: the new body and the flag found, for "x is live in the body".    *)
(* Of a join point it returns the flag of v, not that of b.                *)
(***************************************************************************)
RECURSIVE Dmain(_, _, _, _)
Dmain(x, c, jp, b) ==
    CASE IsB("case", b) ->
            IF HasLiveVar(b, jp, x)
            THEN LET alt(i) == <<b[3][i][1], Dfinalize(x, c, Dmain(x, c, jp, b[3][i][2]))>>
                 IN  <<<<"case", b[2], [i \in DOMAIN b[3] |-> alt(i)]>>, TRUE>>
            ELSE <<b, FALSE>>
      [] IsB("jdecl", b) ->
            LET r == Dmain(x, c, b[3], b[4])
                v == Dmain(x, c, jp, b[3])
            IN  <<<<"jdecl", b[2], v[1], r[1]>>, v[2]>>
      [] b[1] \in {"ret", "jmp"} -> <<b, HasLiveVar(b, jp, x)>>
      [] IsB("vdecl", b) -> DInstr(x, c, b, Dmain(x, c, jp, b[4]))

(* hasCtorUsing: the variable of the pattern hides the parameter x, so     *)
(* that the arguments are compared with the variable they define.          *)
RECURSIVE HasCtorUsing(_, _)
HasCtorUsing(x, b) ==
    CASE IsB("vdecl", b) -> (b[3][1] = "ctor" /\ b[2] \in b[3][3]) \/ HasCtorUsing(x, b[4])
      [] IsB("jdecl", b) -> HasCtorUsing(x, b[3]) \/ HasCtorUsing(x, b[4])
      [] b[1] \in {"ret", "jmp", "case"} -> FALSE

D(x, c, jp, b) ==
    IF HasCtorUsing(x, b) THEN b ELSE Dfinalize(x, c, Dmain(x, c, jp, b))

IsScalar(c) == c[2] = 0

(* R; insertResetReuse is R of the body of a function.                     *)
RECURSIVE R(_, _)
R(jp, b) ==
    CASE IsB("case", b) ->
            LET alt(a) == LET r == R(jp, a[2])
                          IN  <<a[1], IF IsScalar(a[1]) THEN r ELSE D(b[2], a[1], jp, r)>>
            IN  <<"case", b[2], [i \in DOMAIN b[3] |-> alt(b[3][i])]>>
      [] IsB("jdecl", b) ->
            LET v == R(jp, b[3]) IN <<"jdecl", b[2], v, R(v, b[4])>>
      [] IsB("vdecl", b) -> <<"vdecl", b[2], b[3], R(jp, b[4])>>
      [] b[1] \in {"ret", "jmp"} -> b

----------------------------------------------------------------------------
(* Functions, built from the end: instructions with new variables, case on *)
(* a parameter, and one join point.  Jumps: the join point of b is still   *)
(* to be declared.                                                         *)
RECURSIVE Jumps(_)
Jumps(b) ==
    CASE IsB("vdecl", b) -> Jumps(b[4])
      [] IsB("case", b)  -> \E i \in DOMAIN b[3] : Jumps(b[3][i][2])
      [] b[1] \in {"ret", "jdecl", "jmp"} -> IsB("jmp", b)

(* The variables on which b does a case.                                   *)
RECURSIVE Scrutinees(_)
Scrutinees(b) ==
    CASE IsB("vdecl", b) -> Scrutinees(b[4])
      [] IsB("jdecl", b) -> Scrutinees(b[3]) \cup Scrutinees(b[4])
      [] IsB("case", b)  -> {b[2]} \cup UNION {Scrutinees(b[3][i][2]) : i \in DOMAIN b[3]}
      [] b[1] \in {"ret", "jmp"} -> {}

Ends == {<<"ret", x>> : x \in PVars}

IRExprs == {<<"use", {x}>> : x \in PVars} \cup {<<"ctor", c, {x}>> : c \in Ctors, x \in PVars}

IRInit == prog \in Ends \cup {<<"jmp", J>>}

(* R leaves alone what comes before the first case: the last place of the  *)
(* bound is kept for a case or a join point.                               *)
AddInstr ==
    /\ Size(prog) < MaxBodySize - 1
    /\ \E e \in IRExprs : prog' = <<"vdecl", Size(prog), e, prog>>

(* The other alternative returns, or jumps to the same join point; it      *)
(* builds nothing, so its constructor d makes no difference.  The          *)
(* simplifier has removed a case on a variable whose constructor is known. *)
AddCase ==
    \E x \in PVars, c \in Ctors, b \in Ends \cup IF Jumps(prog) THEN {<<"jmp", J>>} ELSE {} :
        LET d == CHOOSE k \in Ctors : k # c IN
        /\ x \notin Scrutinees(prog)
        /\ prog' = <<"case", x, <<<<c, prog>>, <<d, b>>>>>>

(* The body so far jumps to a join point, which is declared here.          *)
AddJoin ==
    /\ Jumps(prog)
    /\ \E e \in IRExprs : prog' = <<"jdecl", J, <<"vdecl", "r", e, <<"ret", "r">>>>, prog>>

Another == Size(prog) >= MaxBodySize - 1 /\ prog' \in Ends \cup {<<"jmp", J>>}

IRNext == (Size(prog) < MaxBodySize /\ (AddInstr \/ AddCase \/ AddJoin)) \/ Another

----------------------------------------------------------------------------
Result == R(<<>>, prog)

(* On no path through b, the join point jp included, is a variable used    *)
(* that is in dead or has been reset before.                               *)
RECURSIVE UsesAlive(_, _, _)
UsesAlive(b, jp, dead) ==
    CASE IsB("vdecl", b) ->
            /\ ExprVars(b[3]) \cap dead = {}
            /\ UsesAlive(b[4], jp, IF b[3][1] = "reset" THEN dead \cup {b[3][2]} ELSE dead)
      [] IsB("jdecl", b) -> UsesAlive(b[4], b[3], dead)
      [] IsB("case", b)  -> b[2] \notin dead /\ \A i \in DOMAIN b[3] : UsesAlive(b[3][i][2], jp, dead)
      [] IsB("jmp", b)   -> jp = <<>> \/ UsesAlive(jp, <<>>, dead)
      [] IsB("ret", b)   -> b[2] \notin dead

(* On every path through b memory is reused only when it is in avail, or   *)
(* has been reset before, and has not been reused since.                   *)
RECURSIVE ReusesOnce(_, _, _)
ReusesOnce(b, jp, avail) ==
    CASE IsB("vdecl", b) ->
            /\ b[3][1] = "reuse" => b[3][2] \in avail
            /\ ReusesOnce(b[4], jp, CASE b[3][1] = "reset" -> avail \cup {b[2]}
                                      [] b[3][1] = "reuse" -> avail \ {b[3][2]}
                                      [] b[3][1] \in {"ctor", "use"} -> avail)
      [] IsB("jdecl", b) -> ReusesOnce(b[4], b[3], avail)
      [] IsB("case", b)  -> \A i \in DOMAIN b[3] : ReusesOnce(b[3][i][2], jp, avail)
      [] IsB("jmp", b)   -> jp = <<>> \/ ReusesOnce(jp, <<>>, avail)
      [] IsB("ret", b)   -> TRUE

(* b is o with resets put in and constructions turned into reuses with the *)
(* same arguments: of the constructor that o builds, if exact, and else of *)
(* one of its size, with updtHeader set when it is another one.            *)
RECURSIVE Rewrites(_, _, _)
Rewrites(b, o, exact) ==
    CASE IsB("vdecl", b) /\ b[3][1] = "reset" -> Rewrites(b[4], o, exact)
      [] IsB("vdecl", b) /\ b[3][1] # "reset" ->
            /\ IsB("vdecl", o) /\ o[2] = b[2] /\ Rewrites(b[4], o[4], exact)
            /\ \/ b[3] = o[3]
               \/ /\ b[3][1] = "reuse" /\ o[3][1] = "ctor" /\ b[3][5] = o[3][3]
                  /\ b[3][3][2] = o[3][2][2]
                  /\ IF exact THEN b[3][3] = o[3][2] ELSE b[3][4] <=> b[3][3] # o[3][2]
      [] IsB("jdecl", b) ->
            /\ IsB("jdecl", o) /\ o[2] = b[2]
            /\ Rewrites(b[3], o[3], exact) /\ Rewrites(b[4], o[4], exact)
      [] IsB("case", b) ->
            /\ IsB("case", o) /\ o[2] = b[2] /\ Len(o[3]) = Len(b[3])
            /\ \A i \in DOMAIN b[3] :
                    b[3][i][1] = o[3][i][1] /\ Rewrites(b[3][i][2], o[3][i][2], exact)
      [] b[1] \in {"ret", "jmp"} -> b = o

(* In an alternative of a case on a variable of xs, b declares a join      *)
(* point that does not use this variable, although the rest of b does.     *)
RECURSIVE UsedBeforeJoin(_, _)
UsedBeforeJoin(b, xs) ==
    CASE IsB("vdecl", b) -> UsedBeforeJoin(b[4], xs)
      [] IsB("case", b)  -> \E i \in DOMAIN b[3] : UsedBeforeJoin(b[3][i][2], xs \cup {b[2]})
      [] IsB("jdecl", b) ->
            \E x \in xs : HasLiveVar(b[4], <<>>, x) /\ ~HasLiveVar(b[3], <<>>, x)
      [] b[1] \in {"ret", "jmp"} -> FALSE

(***************************************************************************)
(* On every path through the new body, join points included, memory that   *)
(* has been reset is reused at most once; the new body builds the same     *)
(* objects, but that a reuse may name another constructor of the same size *)
(* when its flag updtHeader says so; and no variable is used once it has   *)
(* been reset, unless it is used before a join point that does not use it  *)
(* (R, Dmain, S).  ReuseBuildsCtor and ResetAfterLastUse are without the   *)
(* two exceptions, which the code makes.                                   *)
(***************************************************************************)
ResetReuseIsSafe ==
    ~Jumps(prog) =>
        /\ ReusesOnce(Result, <<>>, {})
        /\ Rewrites(Result, prog, FALSE)
        /\ UsedBeforeJoin(prog, {}) \/ UsesAlive(Result, <<>>, {})

----------------------------------------------------------------------------
(* What the code says of itself.                                           *)

(* resetreuse.lean:76, of Dmain: "`flag == true` if `x` is live in `b`",   *)
(* so that no variable is reset before its last use, also where a join     *)
(* point is declared.                                                      *)
ResetAfterLastUse == ~Jumps(prog) => UsesAlive(Result, <<>>, {})

(* basic.lean:149, of Expr.reuse: "`reuse x in ctor_i ys` instruction in   *)
(* the paper", which builds an object of the constructor ctor_i: the one   *)
(* that was to be built before S put in the reuse.                         *)
ReuseBuildsCtor == ~Jumps(prog) => Rewrites(Result, prog, TRUE)
=============================================================================
