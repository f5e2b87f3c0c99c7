---------------------------- MODULE MCAlgorithms ----------------------------
(***************************************************************************)
(* The sequential algorithms, each on inputs of its own: a behaviour picks *)
(* one of them and leaves the others idle.                                 *)
(***************************************************************************)
EXTENDS RBTree, Level, Terms, EquivManager, ResetReuse

CONSTANT Subjects

VARIABLE subject

(* Two constructors of one size, and a larger one.                         *)
MCCtors == {<<0, 1>>, <<1, 1>>, <<2, 2>>}

(* Compounds whose second parts become equal one after the other.          *)
MCExprs ==
    LET a == <<1>>
        b == <<2>>
    IN  {a, b, <<a, a>>, <<a, b>>, <<a, <<a, a>>>>, <<a, <<a, b>>>>}

(* The parameters of a function are interchangeable.                       *)
MCSymmetry == Permutations(PVars)

(* Expressions of one shape collide.                                       *)
MCHashOf(e) == IF Len(e) = 1 THEN 0 ELSE 1 + Len(e[2])

MCInit ==
    /\ subject \in Subjects
    /\ IF subject = "tree"  THEN RBInit    ELSE root = Nil /\ contents = {}
    /\ IF subject = "level" THEN LevelInit ELSE lvl = Zero /\ other = Zero
    /\ IF subject = "term"  THEN TermInit  ELSE term = BVar(0) /\ subst = <<>>
    /\ IF subject = "equiv" THEN EquivInit ELSE uf = Empty /\ calls = 0 /\ given = {}
    /\ IF subject = "ir"    THEN IRInit    ELSE prog = <<"jmp", J>>

MCNext ==
    /\ UNCHANGED subject
    /\ \/ subject = "tree"  /\ RBNext    /\ UNCHANGED <<levelVars, termVars, eqVars, prog>>
       \/ subject = "level" /\ LevelNext /\ UNCHANGED <<rbVars, termVars, eqVars, prog>>
       \/ subject = "term"  /\ TermNext  /\ UNCHANGED <<rbVars, levelVars, eqVars, prog>>
       \/ subject = "equiv" /\ EquivNext /\ UNCHANGED <<rbVars, levelVars, termVars, prog>>
       \/ subject = "ir"    /\ IRNext    /\ UNCHANGED <<rbVars, levelVars, termVars, eqVars>>

MCSpec == MCInit /\ [][MCNext]_<<subject, rbVars, levelVars, termVars, eqVars, prog>>
=============================================================================
