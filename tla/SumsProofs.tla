----------------------------- MODULE SumsProofs -----------------------------
(***************************************************************************)
(* Lemmas about the sums that count references and free objects.           *)
(***************************************************************************)
EXTENDS Sums, FiniteSetTheorems, TLAPS

Pairs(f) == UNION {{x} \X (1..f[x]) : x \in DOMAIN f}

LEMMA PairsFinite ==
    ASSUME NEW S, IsFiniteSet(S), NEW f \in [S -> Nat]
    PROVE  /\ IsFiniteSet(Pairs(f))
           /\ Total(f) \in Nat /\ Total(f) = Cardinality(Pairs(f))
           /\ \A x, n : <<x, n>> \in Pairs(f) <=> x \in S /\ n \in 1..f[x]
           /\ \A z \in Pairs(f) : z = <<z[1], z[2]>>
<1> DEFINE P == {{x} \X (1..f[x]) : x \in S}
           g == [x \in S |-> {x} \X (1..f[x])]
<1>1. g \in Surjection(S, P)
  BY DEF Surjection
<1>2. IsFiniteSet(P)
  BY <1>1, FS_Surjection
<1>3. ASSUME NEW T \in P PROVE IsFiniteSet(T)
  <2>1. PICK x \in S : T = {x} \X (1..f[x])
    OBVIOUS
  <2>2. 1 \in Int /\ f[x] \in Int
    OBVIOUS
  <2>3. IsFiniteSet({x}) /\ IsFiniteSet(1..f[x])
    BY <2>2, FS_Singleton, FS_Interval
  <2> QED BY <2>1, <2>3, FS_Product
<1>4. Pairs(f) = UNION P
  BY DEF Pairs
<1>5. IsFiniteSet(Pairs(f))
  BY <1>2, <1>3, <1>4, FS_UNION
<1>6. Total(f) = Cardinality(Pairs(f))
  BY DEF Total, Pairs
<1>7. Total(f) \in Nat
  BY <1>5, <1>6, FS_CardinalityType
<1>8. \A x, n : <<x, n>> \in Pairs(f) <=> x \in S /\ n \in 1..f[x]
  BY DEF Pairs
<1>9. \A z \in Pairs(f) : z = <<z[1], z[2]>>
  BY DEF Pairs
<1> QED BY <1>5, <1>6, <1>7, <1>8, <1>9

(* A sum changes by as much as the one summand that changes, and is at     *)
(* least as large as each summand.                                         *)
LEMMA TotalUpdate ==
    ASSUME NEW S, IsFiniteSet(S), NEW f \in [S -> Nat], NEW g \in [S -> Nat], NEW x \in S,
           \A y \in S : y # x => g[y] = f[y]
    PROVE  /\ Total(f) \in Nat /\ Total(g) \in Nat
           /\ Total(f) >= f[x]
           /\ Total(g) = Total(f) - f[x] + g[x]
<1> DEFINE Rest == {z \in Pairs(f) : z[1] # x}
<1>1. ASSUME NEW h \in [S -> Nat], \A y \in S : y # x => h[y] = f[y]
      PROVE  /\ Total(h) = Cardinality(Rest) + h[x]
             /\ Cardinality(Rest) \in Nat
  <2>1. Pairs(h) = Rest \union ({x} \X (1..h[x]))
    <3>1. ASSUME NEW z \in Pairs(h) PROVE z \in Rest \union ({x} \X (1..h[x]))
      <4>1. z = <<z[1], z[2]>> /\ z[1] \in S /\ z[2] \in 1..h[z[1]]
        BY PairsFinite
      <4>2. CASE z[1] = x
        BY <4>1, <4>2
      <4>3. CASE z[1] # x
        <5>1. <<z[1], z[2]>> \in Pairs(f)
          BY <4>1, <4>3, <1>1, PairsFinite
        <5> QED BY <4>1, <4>3, <5>1
      <4> QED BY <4>2, <4>3
    <3>2. ASSUME NEW z \in Rest PROVE z \in Pairs(h)
      <4>1. z = <<z[1], z[2]>> /\ z[1] \in S /\ z[2] \in 1..f[z[1]] /\ z[1] # x
        BY PairsFinite
      <4>2. <<z[1], z[2]>> \in Pairs(h)
        BY <4>1, <1>1, PairsFinite
      <4> QED BY <4>1, <4>2
    <3>3. ASSUME NEW z \in {x} \X (1..h[x]) PROVE z \in Pairs(h)
      <4>1. z = <<x, z[2]>> /\ z[2] \in 1..h[x]
        OBVIOUS
      <4>2. <<x, z[2]>> \in Pairs(h)
        BY <4>1, PairsFinite
      <4> QED BY <4>1, <4>2
    <3> QED BY <3>1, <3>2, <3>3
  <2>2. Rest \cap ({x} \X (1..h[x])) = {}
    OBVIOUS
  <2>3. IsFiniteSet(Rest)
    BY PairsFinite, FS_Subset
  <2>4. IsFiniteSet({x} \X (1..h[x])) /\ Cardinality({x} \X (1..h[x])) = h[x]
    <3>1. IsFiniteSet({x}) /\ Cardinality({x}) = 1
      BY FS_Singleton
    <3>2. IsFiniteSet(1..h[x]) /\ Cardinality(1..h[x]) = h[x]
      BY FS_Interval
    <3>3. Cardinality({x} \X (1..h[x])) = 1 * h[x]
      BY <3>1, <3>2, FS_Product
    <3> QED BY <3>1, <3>2, <3>3, FS_Product
  <2>5. Cardinality(Rest) \in Nat
    BY <2>3, FS_CardinalityType
  <2>6. Cardinality(Pairs(h)) = Cardinality(Rest) + h[x] - Cardinality({})
    BY <2>1, <2>2, <2>3, <2>4, FS_Union
  <2>7. Total(h) = Cardinality(Pairs(h))
    BY PairsFinite
  <2> QED BY <2>5, <2>6, <2>7, FS_EmptySet
<1>2. Total(f) = Cardinality(Rest) + f[x] /\ Total(g) = Cardinality(Rest) + g[x]
      /\ Cardinality(Rest) \in Nat
  BY <1>1
<1> QED BY <1>2

(* The same for two summands, which may be the same one.                   *)
AtBoth(f, x, z) == IF x = z THEN f[x] ELSE f[x] + f[z]

LEMMA TotalUpdateTwo ==
    ASSUME NEW S, IsFiniteSet(S), NEW f \in [S -> Nat], NEW g \in [S -> Nat], NEW x \in S,
           NEW z \in S, \A y \in S : y \notin {x, z} => g[y] = f[y]
    PROVE  /\ Total(f) \in Nat /\ Total(g) \in Nat
           /\ Total(g) = Total(f) - AtBoth(f, x, z) + AtBoth(g, x, z)
<1>1. CASE x = z
  <2>1. /\ Total(f) \in Nat /\ Total(g) \in Nat
        /\ Total(g) = Total(f) - f[x] + g[x]
    BY <1>1, TotalUpdate
  <2> QED BY <1>1, <2>1 DEF AtBoth
<1>2. CASE x # z
  <2>1. PICK m : m = [y \in S |-> IF y = x THEN g[y] ELSE f[y]]
    OBVIOUS
  <2>2. /\ m \in [S -> Nat] /\ m[x] = g[x] /\ m[z] = f[z]
        /\ \A y \in S : y # x => m[y] = f[y]
        /\ \A y \in S : y # z => g[y] = m[y]
    BY <1>2, <2>1
  <2>3. /\ Total(f) \in Nat /\ Total(m) \in Nat
        /\ Total(m) = Total(f) - f[x] + m[x]
    BY <2>2, TotalUpdate
  <2>4. Total(g) \in Nat /\ Total(g) = Total(m) - m[z] + g[z]
    BY <2>2, TotalUpdate
  <2>5. f[x] \in Nat /\ f[z] \in Nat /\ g[x] \in Nat /\ g[z] \in Nat
    OBVIOUS
  <2>6. AtBoth(f, x, z) = f[x] + f[z] /\ AtBoth(g, x, z) = g[x] + g[z]
    BY <1>2 DEF AtBoth
  <2> QED BY <2>2, <2>3, <2>4, <2>5, <2>6
<1> QED BY <1>1, <1>2

LEMMA TotalZero ==
    ASSUME NEW S, IsFiniteSet(S)
    PROVE  Total([x \in S |-> 0]) = 0
<1> DEFINE f == [x \in S |-> 0]
<1>1. f \in [S -> Nat]
  OBVIOUS
<1>2. Pairs(f) = {}
  BY DEF Pairs
<1>3. Total(f) = Cardinality(Pairs(f))
  BY <1>1, PairsFinite
<1> QED BY <1>2, <1>3, FS_EmptySet
=============================================================================
