---------------------------- MODULE EquivManager ----------------------------
(***************************************************************************)
(* equiv_manager (kernel/equiv_manager.cpp): the union-find structure in   *)
(* which the type checker keeps the pairs of expressions that it has found *)
(* to be definitionally equal.  is_equiv compares two expressions up to    *)
(* those pairs, and itself merges what it finds equal on the way.          *)
(*                                                                         *)
(* An expression is an atom <<k>> (Const, Sort, Lit: compared by value) or *)
(* a compound <<f, x>>, whose two parts are compared in order (App,        *)
(* Lambda, Pi; MData, Proj and Let have one or three parts).  Bound        *)
(* variables, which are equal to themselves only, are left out.            *)
(***************************************************************************)
EXTENDS Naturals, Sequences, FiniteSets

CONSTANTS
    Exprs,          \* the expressions asked about; has the parts of its members
    HashOf(_),      \* hash: external
    MaxCalls        \* bound: calls of is_equiv and add_equiv

Parts(e) == IF Len(e) = 2 THEN {e[1], e[2]} ELSE {}

ASSUME EquivAssumption ==
    /\ \A e \in Exprs : Len(e) \in {1, 2} /\ Parts(e) \subseteq Exprs
    /\ MaxCalls \in Nat

VARIABLES
    uf,           \* m_nodes and m_to_node: [parent, rank, node]
    calls,        \* calls so far
    given         \* history: the pairs given to add_equiv

eqVars == <<uf, calls, given>>

Empty == [parent |-> <<>>, rank |-> <<>>, node |-> <<>>]

EquivInit == uf = Empty /\ calls = 0 /\ given = {}

RECURSIVE FindRoot(_, _)
FindRoot(u, n) == IF u.parent[n] = n THEN n ELSE FindRoot(u, u.parent[n])

(* to_node, with mk_node for an expression that has none.                  *)
ToNode(u, e) ==
    IF e \in DOMAIN u.node THEN u
    ELSE LET r == Len(u.parent) + 1
         IN  [parent |-> Append(u.parent, r), rank |-> Append(u.rank, 0),
              node |-> [x \in DOMAIN u.node \cup {e} |-> IF x = e THEN r ELSE u.node[x]]]

(* Faulty variant: n1 and n2 are taken to be the roots of their classes.   *)
MergeUnrooted(u, n1, n2) ==
    IF n1 = n2 THEN u
    ELSE IF u.rank[n1] < u.rank[n2] THEN [u EXCEPT !.parent[n1] = n2]
    ELSE IF u.rank[n1] > u.rank[n2] THEN [u EXCEPT !.parent[n2] = n1]
    ELSE [u EXCEPT !.parent[n2] = n1, !.rank[n1] = @ + 1]

MergeNodes(u, n1, n2) ==
    LET r1 == FindRoot(u, n1)
        r2 == FindRoot(u, n2)
    IN  IF r1 = r2 THEN u
        ELSE IF u.rank[r1] < u.rank[r2] THEN [u EXCEPT !.parent[r1] = r2]
        ELSE IF u.rank[r1] > u.rank[r2] THEN [u EXCEPT !.parent[r2] = r1]
        ELSE [u EXCEPT !.parent[r2] = r1, !.rank[r1] = @ + 1]

(***************************************************************************)
(* is_equiv_core: the answer and the new structure.  The roots r1 and r2   *)
(* are read before the calls for the parts, which may merge their classes. *)
(* eqp: equal expressions are the same object (is_eqp).                    *)
(***************************************************************************)
RECURSIVE IsEquivCore(_, _, _, _, _)
IsEquivCore(u, eqp, useHash, a, b) ==
    IF eqp /\ a = b THEN <<TRUE, u>>
    ELSE IF useHash /\ HashOf(a) # HashOf(b) THEN <<FALSE, u>>
    ELSE LET u1 == ToNode(ToNode(u, a), b)
             r1 == FindRoot(u1, u1.node[a])
             r2 == FindRoot(u1, u1.node[b])
         IN  IF r1 = r2 THEN <<TRUE, u1>>
             ELSE IF Len(a) # Len(b) \/ Len(a) = 1 THEN <<FALSE, u1>>
             ELSE LET f == IsEquivCore(u1, eqp, useHash, a[1], b[1])
                      x == IF f[1] THEN IsEquivCore(f[2], eqp, useHash, a[2], b[2]) ELSE <<FALSE, f[2]>>
                  IN  <<x[1], IF x[1] THEN MergeNodes(x[2], r1, r2) ELSE x[2]>>

IsEquiv ==
    \E a, b \in Exprs, eqp, useHash \in BOOLEAN :
        /\ calls < MaxCalls /\ calls' = calls + 1
        /\ uf' = IsEquivCore(uf, eqp, useHash, a, b)[2]
        /\ UNCHANGED given

(* The type checker has found e1 and e2 to be definitionally equal.        *)
AddEquiv ==
    \E e1, e2 \in Exprs :
        /\ calls < MaxCalls /\ calls' = calls + 1
        /\ LET u == ToNode(ToNode(uf, e1), e2) IN uf' = MergeNodes(u, u.node[e1], u.node[e2])
        /\ given' = given \cup {{e1, e2}}

(* A new type checker has a manager of its own.                            *)
NewManager ==
    /\ calls = MaxCalls /\ calls' = 0
    /\ uf' = Empty /\ given' = {}

EquivNext == IsEquiv \/ AddEquiv \/ NewManager

----------------------------------------------------------------------------
(* The ways to make some expressions equal that respect compounds: k maps  *)
(* each expression to the chosen member of its class.                      *)
Respects(k) ==
    \A a, b \in Exprs :
        Len(a) = 2 /\ Len(b) = 2 /\ k[a[1]] = k[b[1]] /\ k[a[2]] = k[b[2]] => k[a] = k[b]

Interpretations ==
    {[e \in Exprs |-> CHOOSE x \in Exprs : k[x] = k[e]] :
        k \in {f \in [Exprs -> Exprs] : Respects(f)}}

(***************************************************************************)
(* The classes say exactly what the given pairs say: an interpretation     *)
(* makes every expression equal to its parent, hence to its class, if and  *)
(* only if it makes the pairs equal.  So is_equiv never equates what does  *)
(* not follow, whatever it merges on the way, and no merge loses a pair;   *)
(* and every search for a root ends, since the rank increases towards it.  *)
(***************************************************************************)
ClassesAreExact ==
    LET up == [e \in DOMAIN uf.node |->
                CHOOSE x \in DOMAIN uf.node : uf.node[x] = uf.parent[uf.node[e]]]
    IN  /\ \A k \in Interpretations :
            (\A q \in given : \A a, b \in q : k[a] = k[b])
                <=> \A e \in DOMAIN up : k[e] = k[up[e]]
        /\ \A n \in DOMAIN uf.parent :
            uf.parent[n] # n => uf.rank[n] < uf.rank[uf.parent[n]]
=============================================================================
