---------------------------- MODULE SumTheorems ----------------------------
(***************************************************************************)
(* Sums over finite sets, as MapThenSumSet of FiniteSetsExt computes them,  *)
(* and what the proofs need besides: counted units, appended sequences and  *)
(* divisions.                                                               *)
(***************************************************************************)
EXTENDS Integers, Sequences, FiniteSetsExt, FiniteSetTheorems, TLAPS

(***************************************************************************)
(* A set of subsets of a finite set that holds a set whenever it holds what *)
(* is left of it without one element holds all of them.                     *)
(***************************************************************************)
LEMMA SubsetInduction ==
  ASSUME NEW S, IsFiniteSet(S), NEW G \in SUBSET (SUBSET S),
         \A s \in SUBSET S : (\A x \in s : s \ {x} \in G) => s \in G
  PROVE  G = SUBSET S
  <1>1. PICK T : T = (SUBSET S) \ G
    OBVIOUS
  <1>2. SUFFICES ASSUME T # {} PROVE FALSE
    BY <1>1
  <1>3. T \subseteq FiniteSubsetsOf(S)
    BY <1>1, FS_FiniteSubsetsOfFinite
  <1>4. IsWellFoundedOn(StrictSubsetOrdering(S), FiniteSubsetsOf(S))
    BY FS_StrictSubsetOrderingWellFounded
  <1>5. PICK s \in T : \A t \in T : <<t, s>> \notin StrictSubsetOrdering(S)
    BY <1>2, <1>3, <1>4, WFMin
  <1>6. s \in SUBSET S /\ s \notin G
    BY <1>1, <1>5
  <1>7. ASSUME NEW x \in s PROVE s \ {x} \in G
    <2>1. s \ {x} \subseteq s /\ s \ {x} # s /\ s \ {x} \in SUBSET S
      BY <1>6
    <2>2. <<s \ {x}, s>> \in StrictSubsetOrdering(S)
      BY <1>6, <2>1 DEF StrictSubsetOrdering
    <2> QED BY <2>1, <2>2, <1>1, <1>5
  <1> QED BY <1>6, <1>7

(***************************************************************************)
(* g gives the sum of f over every subset of S.                             *)
(***************************************************************************)
IsSum(g, f, S) ==
  /\ g \in [SUBSET S -> Int]
  /\ g[{}] = 0
  /\ \A s \in SUBSET S : \A x \in s : g[s] = f[x] + g[s \ {x}]

LEMMA SumExists ==
  ASSUME NEW S, IsFiniteSet(S), NEW f, \A x \in S : f[x] \in Int
  PROVE  \E g : IsSum(g, f, S)
  <1>1. PICK G : G = {s \in SUBSET S : \E g : IsSum(g, f, s)}
    OBVIOUS
  <1>2. ASSUME NEW s \in SUBSET S, \A x \in s : s \ {x} \in G PROVE s \in G
    <2>1. CASE s = {}
      <3>1. IsSum([t \in SUBSET s |-> 0], f, s)
        BY <2>1 DEF IsSum
      <3> QED BY <3>1, <1>1
    <2>2. CASE s # {}
      <3>1. PICK x \in s : TRUE
        BY <2>2
      <3>2. PICK r : r = s \ {x}
        OBVIOUS
      <3>3. PICK g : IsSum(g, f, r)
        BY <3>2, <1>1, <1>2
      <3>4. PICK h : h = [t \in SUBSET s |-> IF x \in t THEN f[x] + g[t \ {x}] ELSE g[t]]
        OBVIOUS
      <3>5. f[x] \in Int
        OBVIOUS
      <3>6. /\ \A t \in SUBSET s : x \in t => t \ {x} \in SUBSET r
            /\ \A t \in SUBSET s : x \notin t => t \in SUBSET r
        BY <3>2
      <3>7. \A t \in SUBSET r : g[t] \in Int
        BY <3>3 DEF IsSum
      <3>8. h \in [SUBSET s -> Int]
        BY <3>4, <3>5, <3>6, <3>7
      <3>9. h[{}] = 0
        BY <3>3, <3>4 DEF IsSum
      <3>10. ASSUME NEW t \in SUBSET s, NEW y \in t PROVE h[t] = f[y] + h[t \ {y}]
        <4>0. f[y] \in Int /\ t \ {y} \in SUBSET s
          OBVIOUS
        <4>1. CASE x \notin t
          <5>1. t \in SUBSET r /\ y \in t
            BY <3>6, <4>1
          <5>2. h[t] = g[t] /\ h[t \ {y}] = g[t \ {y}]
            BY <3>4, <4>0, <4>1
          <5> QED BY <5>1, <5>2, <3>3 DEF IsSum
        <4>2. CASE x \in t /\ y = x
          <5>1. h[t] = f[x] + g[t \ {x}]
            BY <3>4, <4>2
          <5>2. h[t \ {y}] = g[t \ {x}]
            BY <3>4, <4>0, <4>2
          <5> QED BY <5>1, <5>2, <4>2
        <4>3. CASE x \in t /\ y # x
          <5>1. h[t] = f[x] + g[t \ {x}]
            BY <3>4, <4>3
          <5>2. h[t \ {y}] = f[x] + g[(t \ {y}) \ {x}]
            BY <3>4, <4>0, <4>3
          <5>3. (t \ {y}) \ {x} = (t \ {x}) \ {y} /\ y \in t \ {x}
            BY <4>3
          <5>4. PICK u : u = t \ {x}
            OBVIOUS
          <5>5. u \in SUBSET r /\ u \ {y} \in SUBSET r /\ y \in u
            BY <5>3, <5>4, <3>6, <4>3
          <5>6. g[u] = f[y] + g[u \ {y}]
            BY <5>5, <3>3 DEF IsSum
          <5>7. g[u] \in Int /\ g[u \ {y}] \in Int
            BY <5>5, <3>7
          <5>8. PICK a, b, c \in Int : a = f[x] /\ b = f[y] /\ c = g[u \ {y}]
            BY <5>7, <3>5, <4>0
          <5>9. h[t] = a + (b + c)
            BY <5>1, <5>4, <5>6, <5>8
          <5>10. h[t \ {y}] = a + c
            BY <5>2, <5>3, <5>4, <5>8
          <5>11. a + (b + c) = b + (a + c)
            BY <5>8
          <5> QED BY <5>8, <5>9, <5>10, <5>11
        <4> QED BY <4>1, <4>2, <4>3
      <3>11. IsSum(h, f, s)
        BY <3>8, <3>9, <3>10 DEF IsSum
      <3> QED BY <3>11, <1>1
    <2> QED BY <2>1, <2>2
  <1>3. G \in SUBSET (SUBSET S)
    BY <1>1
  <1>4. \A s \in SUBSET S : (\A x \in s : s \ {x} \in G) => s \in G
    BY <1>2
  <1>5. G = SUBSET S
    BY <1>3, <1>4, SubsetInduction, Zenon
  <1> QED BY <1>1, <1>5

(***************************************************************************)
(* Whatever follows the equation of a sum for one element of every subset,  *)
(* as a fold does, is the sum.                                              *)
(***************************************************************************)
Follows(h, f, S) ==
  /\ h[{}] = 0
  /\ \A s \in SUBSET S : s # {} => \E x \in s : h[s] = f[x] + h[s \ {x}]

LEMMA SumUnique ==
  ASSUME NEW S, IsFiniteSet(S), NEW f, NEW g, IsSum(g, f, S), NEW h, Follows(h, f, S)
  PROVE  \A s \in SUBSET S : h[s] = g[s]
  <1>1. PICK G : G = {s \in SUBSET S : h[s] = g[s]}
    OBVIOUS
  <1>2. ASSUME NEW s \in SUBSET S, \A x \in s : s \ {x} \in G PROVE s \in G
    <2>1. CASE s = {}
      BY <2>1, <1>1 DEF IsSum, Follows
    <2>2. CASE s # {}
      <3>1. PICK x \in s : h[s] = f[x] + h[s \ {x}]
        BY <2>2 DEF Follows
      <3>2. h[s \ {x}] = g[s \ {x}]
        BY <1>1, <1>2
      <3>3. g[s] = f[x] + g[s \ {x}]
        BY DEF IsSum
      <3> QED BY <1>1, <3>1, <3>2, <3>3
    <2> QED BY <2>1, <2>2
  <1>3. G \in SUBSET (SUBSET S)
    BY <1>1
  <1>4. \A s \in SUBSET S : (\A x \in s : s \ {x} \in G) => s \in G
    BY <1>2
  <1>5. G = SUBSET S
    BY <1>3, <1>4, SubsetInduction, Zenon
  <1> QED BY <1>1, <1>5

(***************************************************************************)
(* The sum of f over S.                                                     *)
(***************************************************************************)
SumOver(f, S) == (CHOOSE g : IsSum(g, f, S))[S]

LEMMA SumOverIsSum ==
  ASSUME NEW S, IsFiniteSet(S), NEW f, \A x \in S : f[x] \in Int
  PROVE  \E g : IsSum(g, f, S) /\ SumOver(f, S) = g[S]
  <1>1. \E g : IsSum(g, f, S)
    BY SumExists
  <1> QED BY <1>1 DEF SumOver

LEMMA SumOverType ==
  ASSUME NEW S, IsFiniteSet(S), NEW f, \A x \in S : f[x] \in Int
  PROVE  SumOver(f, S) \in Int
  <1>1. PICK g : IsSum(g, f, S) /\ SumOver(f, S) = g[S]
    BY SumOverIsSum
  <1> QED BY <1>1 DEF IsSum

LEMMA SumOverEmpty ==
  ASSUME NEW f PROVE SumOver(f, {}) = 0
  <1>1. IsFiniteSet({})
    BY FS_EmptySet
  <1>2. PICK g : IsSum(g, f, {}) /\ SumOver(f, {}) = g[{}]
    BY <1>1, SumOverIsSum
  <1> QED BY <1>2 DEF IsSum

(***************************************************************************)
(* A sum depends only on the summands.                                      *)
(***************************************************************************)
LEMMA SumOverSame ==
  ASSUME NEW S, IsFiniteSet(S), NEW f, NEW h, \A x \in S : f[x] \in Int /\ h[x] = f[x]
  PROVE  SumOver(h, S) = SumOver(f, S)
  <1>1. PICK g : IsSum(g, f, S) /\ SumOver(f, S) = g[S]
    BY SumOverIsSum
  <1>2. PICK k : IsSum(k, h, S) /\ SumOver(h, S) = k[S]
    BY SumOverIsSum
  <1>3. k[{}] = 0
    BY <1>2 DEF IsSum
  <1>4. \A s \in SUBSET S : s # {} => \E x \in s : k[s] = f[x] + k[s \ {x}]
    BY <1>2 DEF IsSum
  <1>5. \A s \in SUBSET S : k[s] = g[s]
    <2>1. Follows(k, f, S)
      BY <1>3, <1>4 DEF Follows
    <2> QED BY <2>1, <1>1, SumUnique
  <1> QED BY <1>1, <1>2, <1>5

(***************************************************************************)
(* One more summand.                                                        *)
(***************************************************************************)
LEMMA SumOverAdd ==
  ASSUME NEW S, IsFiniteSet(S), NEW e, e \notin S, NEW f, \A x \in S \cup {e} : f[x] \in Int
  PROVE  /\ IsFiniteSet(S \cup {e})
         /\ SumOver(f, S \cup {e}) = f[e] + SumOver(f, S)
  <1>0. PICK U : U = S \cup {e}
    OBVIOUS
  <1>1. IsFiniteSet(U)
    BY <1>0, FS_AddElement
  <1>2. PICK g : IsSum(g, f, U) /\ SumOver(f, U) = g[U]
    BY <1>0, <1>1, SumOverIsSum
  <1>3. PICK k : IsSum(k, f, S) /\ SumOver(f, S) = k[S]
    BY SumOverIsSum
  <1>4. g[{}] = 0
    BY <1>2 DEF IsSum
  <1>5. \A s \in SUBSET S : s # {} => \E x \in s : g[s] = f[x] + g[s \ {x}]
    BY <1>0, <1>2 DEF IsSum
  <1>6. \A s \in SUBSET S : g[s] = k[s]
    <2>1. Follows(g, f, S)
      BY <1>4, <1>5 DEF Follows
    <2> QED BY <2>1, <1>3, SumUnique
  <1>7. g[U] = f[e] + g[U \ {e}]
    BY <1>0, <1>2 DEF IsSum
  <1>8. U \ {e} = S
    BY <1>0
  <1> QED BY <1>0, <1>1, <1>2, <1>3, <1>6, <1>7, <1>8

(***************************************************************************)
(* What the recursive function of MapThenSumSet computes is the sum.        *)
(***************************************************************************)
FoldStep(h, f, s) ==
  IF s = {} THEN 0
  ELSE LET x == CHOOSE x \in s : TRUE IN f[x] + h[s \ {x}]

Folds(h, f, S) == h = [s \in SUBSET S |-> FoldStep(h, f, s)]

LEMMA FoldExists ==
  ASSUME NEW S, IsFiniteSet(S), NEW f, \A x \in S : f[x] \in Int
  PROVE  \E h : Folds(h, f, S)
  <1>1. PICK g : IsSum(g, f, S)
    BY SumExists
  <1>2. g = [s \in SUBSET S |-> g[s]]
    BY <1>1 DEF IsSum
  <1>3. ASSUME NEW s \in SUBSET S
        PROVE  g[s] = FoldStep(g, f, s)
    <2>1. CASE s = {}
      BY <1>1, <2>1 DEF IsSum, FoldStep
    <2>2. CASE s # {}
      <3>1. PICK y \in s : y = CHOOSE x \in s : TRUE
        BY <2>2
      <3>2. g[s] = f[y] + g[s \ {y}]
        BY <1>1 DEF IsSum
      <3> QED BY <2>2, <3>1, <3>2 DEF FoldStep
    <2> QED BY <2>1, <2>2
  <1>4. Folds(g, f, S)
    BY <1>2, <1>3 DEF Folds
  <1> QED BY <1>4

LEMMA FoldIsSum ==
  ASSUME NEW S, IsFiniteSet(S), NEW f, \A x \in S : f[x] \in Int, NEW h, Folds(h, f, S)
  PROVE  h[S] = SumOver(f, S)
  <1>1. PICK g : IsSum(g, f, S) /\ SumOver(f, S) = g[S]
    BY SumOverIsSum
  <1>2. h[{}] = 0
    BY DEF Folds, FoldStep
  <1>3. ASSUME NEW s \in SUBSET S, s # {} PROVE \E x \in s : h[s] = f[x] + h[s \ {x}]
    <2>1. PICK y \in s : y = CHOOSE x \in s : TRUE
      BY <1>3
    <2>2. h[s] = f[y] + h[s \ {y}]
      BY <1>3, <2>1 DEF Folds, FoldStep
    <2> QED BY <2>2
  <1>4. \A s \in SUBSET S : h[s] = g[s]
    <2>1. Follows(h, f, S)
      BY <1>2, <1>3 DEF Follows
    <2> QED BY <2>1, <1>1, SumUnique
  <1> QED BY <1>1, <1>4

\* Taking an element out of a sum.
LEMMA SumWithout ==
  ASSUME NEW S, IsFiniteSet(S), NEW e \in S, NEW f, \A x \in S : f[x] \in Int
  PROVE  /\ IsFiniteSet(S \ {e})
         /\ SumOver(f, S) = f[e] + SumOver(f, S \ {e})
<1>1. PICK T : T = S \ {e}
  OBVIOUS
<1>2. IsFiniteSet(T)
  BY <1>1, FS_Subset
<1>3. T \cup {e} = S /\ e \notin T
  BY <1>1
<1>4. \A x \in T \cup {e} : f[x] \in Int
  BY <1>3
<1>5. SumOver(f, T \cup {e}) = f[e] + SumOver(f, T)
  BY <1>2, <1>3, <1>4, SumOverAdd
<1> QED
  BY <1>1, <1>2, <1>3, <1>5

\* A sum of natural numbers is one.
LEMMA SumNat ==
  ASSUME NEW S, IsFiniteSet(S), NEW f, \A x \in S : f[x] \in Nat
  PROVE  SumOver(f, S) \in Nat
<1>1. PICK g : IsSum(g, f, S) /\ SumOver(f, S) = g[S]
  BY SumOverIsSum
<1>2. PICK G : G = {s \in SUBSET S : g[s] \in Nat}
  OBVIOUS
<1>3. ASSUME NEW s \in SUBSET S, \A x \in s : s \ {x} \in G PROVE s \in G
  <2>1. CASE s = {}
    BY <1>1, <1>2, <2>1 DEF IsSum
  <2>2. CASE s # {}
    <3>1. PICK x \in s : TRUE
      BY <2>2
    <3>2. g[s] = f[x] + g[s \ {x}]
      BY <1>1, <3>1 DEF IsSum
    <3>3. g[s \ {x}] \in Nat /\ f[x] \in Nat
      BY <1>2, <1>3, <3>1
    <3>4. g[s] \in Nat
      BY <3>2, <3>3
    <3> QED
      BY <1>2, <3>4
  <2> QED
    BY <2>1, <2>2
<1>4. G \in SUBSET (SUBSET S)
  BY <1>2
<1>5. G = SUBSET S
  BY <1>3, <1>4, SubsetInduction
<1> QED
  BY <1>1, <1>2, <1>5

\* Over S, f adds up to n and g to m.
AddUp(S, f, g, n, m) ==
  /\ IsFiniteSet(S) /\ \A x \in S : f[x] \in Int /\ g[x] \in Int
  /\ SumOver(f, S) = n /\ SumOver(g, S) = m

\* The sums depend on the values over S alone.
LEMMA AddUpSame ==
  ASSUME NEW S, NEW f, NEW g, NEW n, NEW m, AddUp(S, f, g, n, m),
         NEW f2, NEW g2, \A x \in S : f2[x] = f[x] /\ g2[x] = g[x]
  PROVE  AddUp(S, f2, g2, n, m)
<1>1. IsFiniteSet(S) /\ \A x \in S : f[x] \in Int /\ g[x] \in Int
  BY DEF AddUp
<1>2. SumOver(f2, S) = SumOver(f, S)
  BY <1>1, SumOverSame
<1>3. SumOver(g2, S) = SumOver(g, S)
  BY <1>1, SumOverSame
<1> QED
  BY <1>1, <1>2, <1>3 DEF AddUp

\* One more element adds its values.
LEMMA AddUpMore ==
  ASSUME NEW S, NEW f, NEW g, NEW n, NEW m, AddUp(S, f, g, n, m),
         NEW x, x \notin S, f[x] \in Int, g[x] \in Int
  PROVE  AddUp(S \cup {x}, f, g, n + f[x], m + g[x])
<1>1. IsFiniteSet(S) /\ \A y \in S \cup {x} : f[y] \in Int /\ g[y] \in Int
  BY DEF AddUp
<1>2. SumOver(f, S) \in Int /\ SumOver(g, S) \in Int
  BY <1>1, SumOverType
<1>3. IsFiniteSet(S \cup {x}) /\ SumOver(f, S \cup {x}) = f[x] + SumOver(f, S)
  BY <1>1, SumOverAdd
<1>4. SumOver(g, S \cup {x}) = g[x] + SumOver(g, S)
  BY <1>1, SumOverAdd
<1>5. PICK i \in Int, j \in Int, k \in Int, l \in Int : i = f[x] /\ j = g[x] /\ k = n /\ l = m
  BY <1>2 DEF AddUp
<1>6. i + k = k + i /\ j + l = l + j
  OBVIOUS
<1> QED
  BY <1>1, <1>3, <1>4, <1>5, <1>6 DEF AddUp

-----------------------------------------------------------------------------
\* n units of r, counted from 1.
UnitsTo(r, n) == {r} \X (1 .. n)

\* The units of r after the m-th.
LEMMA CountUnits ==
  ASSUME NEW r, NEW m \in Nat, NEW n \in Nat, m <= n
  PROVE  IsFiniteSet({r} \X (m + 1 .. n)) /\ Cardinality({r} \X (m + 1 .. n)) = n - m
<1>1. IsFiniteSet(m + 1 .. n) /\ Cardinality(m + 1 .. n) = n - m
  <2>1. PICK l \in Int : l = m + 1
    OBVIOUS
  <2>2. n \in Int
    OBVIOUS
  <2>3. IsFiniteSet(l .. n) /\ Cardinality(l .. n) = IF l > n THEN 0 ELSE n - l + 1
    BY <2>2, FS_Interval
  <2> QED
    BY <2>1, <2>3
<1>2. IsFiniteSet({r}) /\ Cardinality({r}) = 1
  BY FS_Singleton
<1>3. /\ IsFiniteSet({r} \X (m + 1 .. n))
      /\ Cardinality({r} \X (m + 1 .. n)) = Cardinality({r}) * Cardinality(m + 1 .. n)
  BY <1>1, <1>2, FS_Product
<1> QED
  BY <1>1, <1>2, <1>3

\* With n units of r a set holds at most n more.
LEMMA UnitsAdded ==
  ASSUME NEW S, IsFiniteSet(S), NEW T, NEW r, NEW n \in Nat, T \subseteq S \cup UnitsTo(r, n)
  PROVE  IsFiniteSet(T) /\ Cardinality(T) <= Cardinality(S) + n
<1>1. PICK D : D = UnitsTo(r, n)
  OBVIOUS
<1>2. IsFiniteSet(D) /\ Cardinality(D) = n
  <2>1. IsFiniteSet({r} \X (0 + 1 .. n)) /\ Cardinality({r} \X (0 + 1 .. n)) = n - 0
    <3>1. 0 \in Nat /\ 0 <= n
      OBVIOUS
    <3> QED
      BY <3>1, CountUnits
  <2> QED
    BY <1>1, <2>1 DEF UnitsTo
<1>3. /\ IsFiniteSet(S \cup D)
      /\ Cardinality(S \cup D) = Cardinality(S) + Cardinality(D) - Cardinality(S \cap D)
  BY <1>2, FS_Union
<1>4. Cardinality(S \cap D) \in Nat /\ Cardinality(S) \in Nat
  BY FS_Intersection, FS_CardinalityType
<1>5. IsFiniteSet(T) /\ Cardinality(T) <= Cardinality(S \cup D)
  BY <1>1, <1>3, FS_Subset
<1>6. Cardinality(T) \in Nat
  BY <1>5, FS_CardinalityType
<1> QED
  BY <1>2, <1>3, <1>4, <1>5, <1>6

\* With m units of r in place of n, a set holds n - m less.
LEMMA UnitsTaken ==
  ASSUME NEW S, IsFiniteSet(S), NEW r, NEW m \in Nat, NEW n \in Nat, m <= n,
         UnitsTo(r, n) \subseteq S,
         NEW T, T = (S \ UnitsTo(r, n)) \cup UnitsTo(r, m)
  PROVE  /\ IsFiniteSet(T) /\ Cardinality(S) \in Nat /\ n - m <= Cardinality(S)
         /\ Cardinality(T) = Cardinality(S) - (n - m)
<1>1. PICK D : D = {r} \X (m + 1 .. n)
  OBVIOUS
<1>2. Cardinality(D) = n - m
  BY <1>1, CountUnits
<1>3. D \subseteq S /\ S \cap D = D
  <2>1. D \subseteq UnitsTo(r, n)
    BY <1>1 DEF UnitsTo
  <2> QED
    BY <2>1
<1>4. T = S \ D
  BY <1>1 DEF UnitsTo
<1>5. IsFiniteSet(T) /\ Cardinality(T) = Cardinality(S) - Cardinality(D)
  BY <1>3, <1>4, FS_Difference
<1>6. Cardinality(T) \in Nat /\ Cardinality(S) \in Nat
  BY <1>5, FS_CardinalityType
<1> QED
  BY <1>2, <1>5, <1>6

-----------------------------------------------------------------------------
\* A row with a dedupe key of its own is appended to rows with one each.
LEMMA AppendKeepsRows ==
  ASSUME NEW S, NEW box \in Seq(S), NEW row \in S, NEW new, new = Append(box, row),
         \A i \in DOMAIN box : box[i].dedupe # row.dedupe,
         \A i, j \in DOMAIN box : box[i].dedupe = box[j].dedupe => i = j
  PROVE  /\ new \in Seq(S)
         /\ \A i, j \in DOMAIN new : new[i].dedupe = new[j].dedupe => i = j
         /\ \A i \in DOMAIN box : i \in DOMAIN new /\ new[i] = box[i]
         /\ \A i \in DOMAIN new : i \in DOMAIN box \/ new[i] = row
<1>1. PICK n \in Nat : n = Len(box) /\ DOMAIN box = 1 .. n
  OBVIOUS
<1>2. new \in Seq(S) /\ DOMAIN new = 1 .. n + 1 /\ new[n + 1] = row
  BY <1>1
<1>3. \A i \in 1 .. n : new[i] = box[i]
  BY <1>1
<1>4. \A i \in DOMAIN new : i \in DOMAIN box \/ i = n + 1
  BY <1>1, <1>2
<1> QED
  BY <1>1, <1>2, <1>3, <1>4

\* What is in a sequence stays where it is when something is appended.
LEMMA AppendStays ==
  ASSUME NEW S, NEW box \in Seq(S), NEW row, NEW new, new = Append(box, row)
  PROVE  /\ new \in Seq(S \cup {row})
         /\ Len(box) \in Nat /\ DOMAIN box = 1 .. Len(box)
         /\ DOMAIN new = 1 .. (Len(box) + 1) /\ Len(new) = Len(box) + 1
         /\ new[Len(box) + 1] = row
         /\ \A i \in DOMAIN box : i \in DOMAIN new /\ new[i] = box[i]
         /\ \A i \in DOMAIN new : i \in DOMAIN box \/ i = Len(box) + 1
<1>1. PICK T : T = S \cup {row}
  OBVIOUS
<1>2. box \in Seq(T) /\ row \in T
  BY <1>1
<1>3. PICK n \in Nat : n = Len(box) /\ DOMAIN box = 1 .. n
  BY <1>2
<1>4. new \in Seq(T) /\ DOMAIN new = 1 .. (n + 1) /\ new[n + 1] = row /\ Len(new) = n + 1
      /\ \A i \in 1 .. n : new[i] = box[i]
  BY <1>2, <1>3
<1> QED BY <1>1, <1>3, <1>4

-----------------------------------------------------------------------------
(***************************************************************************)
(* Division as the code uses it, of a number that is not negative by one    *)
(* that is positive.                                                        *)
(***************************************************************************)
LEMMA DivisionBounds ==
  ASSUME NEW n \in Nat, NEW d \in Nat \ {0}
  PROVE  /\ n \div d \in Nat
         /\ (n \div d) * d <= n
         /\ n < (n \div d) * d + d
<1>1. n \div d \in Nat
  BY SMT
<1>2. n = d * (n \div d) + (n % d) /\ n % d \in 0 .. (d - 1)
  BY SMT
<1> QED
  BY <1>1, <1>2, SMT

(***************************************************************************)
(* Rounding up by adding d - 1 gives the least multiple of d that reaches n. *)
(***************************************************************************)
LEMMA RoundedUp ==
  ASSUME NEW n \in Nat, NEW d \in Nat \ {0}
  PROVE  LET m == (n + d - 1) \div d
         IN m \in Nat /\ m * d >= n /\ (m - 1) * d < n
<1> DEFINE m == (n + d - 1) \div d
<1>1. n + d - 1 \in Nat
  BY SMT
<1>2. m \in Nat /\ m * d <= n + d - 1 /\ n + d - 1 < m * d + d
  BY <1>1, DivisionBounds
<1> HIDE DEF m
<1>3. m * d \in Int /\ (m - 1) * d = m * d - d
  BY <1>2, SMT
<1>4. m \in Nat /\ m * d >= n /\ (m - 1) * d < n
  BY <1>2, <1>3, SMT
<1> QED
  BY <1>4 DEF m

LEMMA PositiveProduct ==
  ASSUME NEW a \in Nat \ {0}, NEW b \in Nat \ {0}
  PROVE  a * b \in Nat \ {0}
BY SMT
=============================================================================
