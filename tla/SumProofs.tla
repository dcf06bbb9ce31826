------------------------------ MODULE SumProofs ------------------------------
(***************************************************************************)
(* Sums over finite sets, and the largest of finitely many numbers, as      *)
(* balances, totals and limits use them.  The community modules define a    *)
(* sum by taking elements away in an order that CHOOSE fixes; what is       *)
(* proved here is that the order does not matter, and how a sum changes     *)
(* with its set.                                                            *)
(***************************************************************************)
EXTENDS Integers, FiniteSetsExt, FiniteSetTheorems, WellFoundedInduction, TLAPS

Picked(s) == CHOOSE x \in s : TRUE

(* g says what the elements of every part of S weigh together, with the     *)
(* order in which MapThenFoldSet takes them away.                           *)
Adds(g, f, S) ==
  g = [s \in SUBSET S |-> IF s = {} THEN 0 ELSE f[Picked(s)] + g[s \ {Picked(s)}]]

(* What f adds up to over S.                                                *)
Total(f, S) == CHOOSE v : \E g : Adds(g, f, S) /\ v = g[S]

Weighs(f, S) == IsFiniteSet(S) /\ \A x \in S : f[x] \in Int

-----------------------------------------------------------------------------
(* Every set of numbers that has a member has a least one.                  *)
LEMMA Least ==
  ASSUME NEW T \in SUBSET Nat, T # {}
  PROVE  \E n \in T : \A m \in T : n <= m
<1>1. PICK R : R = {ss \in Nat \X Nat : ss[1] < ss[2]}
  OBVIOUS
<1>2. IsWellFoundedOn(R, Nat)
  BY <1>1, NatLessThanWellFounded DEF OpToRel
<1>3. \E n \in T : \A m \in T : ~(<<m, n>> \in R)
  BY <1>2, WFMin
<1>4. \A m, n \in T : m < n => <<m, n>> \in R
  BY <1>1
<1>5. PICK n \in T : \A m \in T : ~(<<m, n>> \in R)
  BY <1>3
<1>6. \A m \in T : ~(m < n)
  BY <1>4, <1>5
<1>7. \A m \in T : n <= m
  BY <1>6
<1> QED
  BY <1>7

(* A part that has lost an element is smaller.                              *)
LEMMA Smaller ==
  ASSUME NEW s, IsFiniteSet(s), NEW x \in s
  PROVE  /\ IsFiniteSet(s \ {x}) /\ Cardinality(s) \in Nat \ {0}
         /\ Cardinality(s \ {x}) = Cardinality(s) - 1
<1>1. IsFiniteSet(s \ {x}) /\ Cardinality(s \ {x}) = Cardinality(s) - 1
  BY FS_RemoveElement
<1>2. Cardinality(s) \in Nat /\ Cardinality(s) # 0
  BY FS_CardinalityType, FS_EmptySet
<1> QED
  BY <1>1, <1>2

LEMMA PickedIsIn == \A s : s # {} => Picked(s) \in s
  BY DEF Picked

(* What holds of a part as soon as it holds of the parts with one element   *)
(* less, holds of every part.                                               *)
LEMMA PartsInduction ==
  ASSUME NEW S, IsFiniteSet(S), NEW G,
         \A s \in SUBSET S : (\A x \in s : s \ {x} \in G) => s \in G
  PROVE  \A s \in SUBSET S : s \in G
<1>1. \A s \in SUBSET S : IsFiniteSet(s) /\ Cardinality(s) \in Nat
  BY FS_Subset, FS_CardinalityType
<1> DEFINE Sizes == {Cardinality(s) : s \in {r \in SUBSET S : r \notin G}}
<1> SUFFICES ASSUME NEW r \in SUBSET S, r \notin G PROVE FALSE
  OBVIOUS
<1>2. Sizes \in SUBSET Nat /\ Sizes # {}
  BY <1>1
<1>3. PICK n \in Sizes : \A m \in Sizes : n <= m
  <2> HIDE DEF Sizes
  <2> QED
    BY <1>2, Least
<1>4. PICK s \in SUBSET S : s \notin G /\ n = Cardinality(s)
  OBVIOUS
<1>5. ASSUME NEW x \in s PROVE s \ {x} \in G
  <2>1. Cardinality(s \ {x}) = n - 1 /\ n \in Nat
    BY <1>1, <1>4, Smaller
  <2>2. s \ {x} \in SUBSET S
    OBVIOUS
  <2>3. CASE s \ {x} \notin G
    <3>1. n - 1 \in Sizes
      BY <2>1, <2>2, <2>3
    <3> QED
      BY <1>3, <2>1, <3>1
  <2> QED
    BY <2>3
<1> QED
  BY <1>4, <1>5

(* There is such a g: for the parts of one element more it is what the      *)
(* definition makes of it for the smaller ones.                             *)
LEMMA AddsExists ==
  ASSUME NEW S, IsFiniteSet(S), NEW f
  PROVE  \E g : Adds(g, f, S)
<1> DEFINE Parts(n) == {s \in SUBSET S : Cardinality(s) <= n}
           Up(n, g) == /\ DOMAIN g = Parts(n)
                       /\ \A s \in Parts(n) : g[s] = IF s = {} THEN 0 ELSE f[Picked(s)] + g[s \ {Picked(s)}]
           Bad == {n \in Nat : ~\E g : Up(n, g)}
<1>1. \A s \in SUBSET S : IsFiniteSet(s) /\ Cardinality(s) \in Nat
  BY FS_Subset, FS_CardinalityType
<1>2. ASSUME NEW n \in Nat, NEW s \in Parts(n + 1), s # {} PROVE s \ {Picked(s)} \in Parts(n)
  <2>1. Picked(s) \in s /\ s \in SUBSET S /\ Cardinality(s) <= n + 1
    BY <1>2, PickedIsIn
  <2>2. Cardinality(s \ {Picked(s)}) = Cardinality(s) - 1 /\ Cardinality(s) \in Nat
    BY <1>1, <2>1, Smaller
  <2> QED
    BY <2>1, <2>2
<1>3. ASSUME NEW s \in Parts(0) PROVE s = {}
  <2>1. Cardinality(s) = 0
    BY <1>1
  <2> QED
    BY <1>1, <2>1, FS_EmptySet
<1>4. \E g : Up(0, g)
  <2>1. PICK g : g = [s \in Parts(0) |-> 0]
    OBVIOUS
  <2>2. Up(0, g)
    BY <1>3, <2>1
  <2> QED
    BY <2>2
<1>5. ASSUME NEW n \in Nat, NEW g, Up(n, g) PROVE \E h : Up(n + 1, h)
  <2>1. PICK h : h = [s \in Parts(n + 1) |-> IF s = {} THEN 0 ELSE f[Picked(s)] + g[s \ {Picked(s)}]]
    OBVIOUS
  <2>2. \A s \in Parts(n) : s \in Parts(n + 1)
    BY <1>1
  <2>3. \A s \in Parts(n) : h[s] = g[s]
    BY <1>5, <2>1, <2>2
  <2>4. \A s \in Parts(n + 1) : h[s] = IF s = {} THEN 0 ELSE f[Picked(s)] + h[s \ {Picked(s)}]
    BY <1>2, <2>1, <2>3
  <2>5. Up(n + 1, h)
    BY <2>1, <2>4
  <2> QED
    BY <2>5
<1> HIDE DEF Up
<1>6. \A n \in Nat : \E g : Up(n, g)
  <2> SUFFICES ASSUME Bad # {} PROVE FALSE
    OBVIOUS
  <2>1. PICK n \in Bad : \A m \in Bad : n <= m
    <3>1. Bad \in SUBSET Nat
      OBVIOUS
    <3> HIDE DEF Bad
    <3> QED
      BY <3>1, Least
  <2>2. n # 0
    BY <1>4
  <2>3. n - 1 \in Nat /\ n - 1 \notin Bad
    BY <2>1, <2>2
  <2>4. PICK g : Up(n - 1, g)
    BY <2>3
  <2>5. \E h : Up((n - 1) + 1, h)
    BY <1>5, <2>3, <2>4
  <2>6. (n - 1) + 1 = n
    OBVIOUS
  <2> QED
    BY <2>5, <2>6
<1>7. Cardinality(S) \in Nat /\ Parts(Cardinality(S)) = SUBSET S
  BY <1>1, FS_Subset, FS_CardinalityType
<1>8. PICK g : Up(Cardinality(S), g)
  BY <1>6, <1>7
<1>9. PICK h : h = [s \in SUBSET S |-> g[s]]
  OBVIOUS
<1>10. \A s \in SUBSET S : h[s] = IF s = {} THEN 0 ELSE f[Picked(s)] + h[s \ {Picked(s)}]
  BY <1>7, <1>8, <1>9 DEF Up
<1> HIDE DEF Parts
<1>11. Adds(h, f, S)
  BY <1>9, <1>10, Zenon DEF Adds
<1> QED
  BY <1>11

(* What g says of a part depends on nothing but f on that part.             *)
LEMMA AddsOnce ==
  ASSUME NEW S, NEW T, NEW f, NEW h, NEW g, NEW k, Adds(g, f, S), Adds(k, h, T),
         NEW s \in SUBSET S, s \subseteq T, IsFiniteSet(s), \A x \in s : f[x] = h[x]
  PROVE  g[s] = k[s]
<1> DEFINE G == {r \in SUBSET s : g[r] = k[r]}
<1>1. ASSUME NEW r \in SUBSET s, \A x \in r : r \ {x} \in G PROVE r \in G
  <2>1. /\ g[r] = IF r = {} THEN 0 ELSE f[Picked(r)] + g[r \ {Picked(r)}]
        /\ k[r] = IF r = {} THEN 0 ELSE h[Picked(r)] + k[r \ {Picked(r)}]
    <3>1. r \in SUBSET S /\ r \in SUBSET T
      OBVIOUS
    <3> QED
      BY <3>1, Zenon DEF Adds
  <2>2. CASE r = {}
    BY <2>1, <2>2
  <2>3. CASE r # {}
    <3>1. Picked(r) \in r
      BY <2>3, PickedIsIn
    <3>2. g[r \ {Picked(r)}] = k[r \ {Picked(r)}] /\ f[Picked(r)] = h[Picked(r)]
      BY <1>1, <3>1
    <3> QED
      BY <2>1, <2>3, <3>2
  <2> QED
    BY <2>2, <2>3
<1>2. \A r \in SUBSET s : r \in G
  <2> HIDE DEF G
  <2> QED
    BY <1>1, PartsInduction
<1> QED
  BY <1>2

LEMMA TotalIs ==
  ASSUME NEW S, NEW T, S \subseteq T, IsFiniteSet(T), NEW f, NEW g, Adds(g, f, T)
  PROVE  Total(f, S) = g[S]
<1>1. IsFiniteSet(S)
  BY FS_Subset
<1>2. \E k : Adds(k, f, S)
  BY <1>1, AddsExists
<1>3. PICK k : Adds(k, f, S) /\ Total(f, S) = k[S]
  BY <1>2 DEF Total
<1>4. S \in SUBSET S
  OBVIOUS
<1>5. k[S] = g[S]
  BY <1>1, <1>3, <1>4, AddsOnce
<1> QED
  BY <1>3, <1>5

-----------------------------------------------------------------------------
(* A sum is a number, nothing adds up to nothing, and any element can be    *)
(* taken away first.                                                        *)
LEMMA TotalTakes ==
  ASSUME NEW S, NEW f, Weighs(f, S)
  PROVE  /\ Total(f, {}) = 0
         /\ Total(f, S) \in Int
         /\ \A x \in S : Total(f, S) = f[x] + Total(f, S \ {x})
<1>1. PICK g : Adds(g, f, S)
  BY AddsExists DEF Weighs
<1>2. \A s \in SUBSET S : Total(f, s) = g[s]
  BY <1>1, TotalIs DEF Weighs
<1>3. \A s \in SUBSET S : g[s] = IF s = {} THEN 0 ELSE f[Picked(s)] + g[s \ {Picked(s)}]
  BY <1>1, Zenon DEF Adds
<1>4. g[{}] = 0
  BY <1>3
<1> DEFINE Whole == {s \in SUBSET S : g[s] \in Int}
           G == {s \in SUBSET S : \A x \in s : g[s] = f[x] + g[s \ {x}]}
<1>5. ASSUME NEW s \in SUBSET S, \A x \in s : s \ {x} \in Whole PROVE s \in Whole
  <2>1. CASE s = {}
    BY <1>4, <2>1
  <2>2. CASE s # {}
    <3>1. PICK y \in s : g[s] = f[y] + g[s \ {y}]
      BY <1>3, <2>2, PickedIsIn
    <3>2. g[s \ {y}] \in Int /\ f[y] \in Int
      BY <1>5 DEF Weighs
    <3> QED
      BY <3>1, <3>2
  <2> QED
    BY <2>1, <2>2
<1>6. \A s \in SUBSET S : s \in Whole
  <2> HIDE DEF Whole
  <2> QED
    BY <1>5, PartsInduction DEF Weighs
<1>7. ASSUME NEW s \in SUBSET S, \A x \in s : s \ {x} \in G PROVE s \in G
  <2>1. ASSUME NEW x \in s PROVE g[s] = f[x] + g[s \ {x}]
    <3>1. PICK y \in s : g[s] = f[y] + g[s \ {y}]
      BY <1>3, <2>1, PickedIsIn
    <3>2. CASE x = y
      BY <3>1, <3>2
    <3>3. CASE x # y
      <4>1. x \in s \ {y} /\ y \in s \ {x}
        BY <3>3
      <4>2. g[s \ {y}] = f[x] + g[(s \ {y}) \ {x}]
        BY <1>7, <4>1
      <4>3. g[s \ {x}] = f[y] + g[(s \ {x}) \ {y}]
        BY <1>7, <4>1
      <4>4. PICK r \in SUBSET S : r = (s \ {x}) \ {y} /\ r = (s \ {y}) \ {x}
        <5>1. (s \ {y}) \ {x} = (s \ {x}) \ {y} /\ (s \ {x}) \ {y} \in SUBSET S
          OBVIOUS
        <5> QED
          BY <5>1
      <4>5. f[x] \in Int /\ f[y] \in Int /\ g[r] \in Int
        BY <1>6 DEF Weighs
      <4>6. g[s] = f[y] + (f[x] + g[r]) /\ g[s \ {x}] = f[y] + g[r]
        BY <3>1, <4>2, <4>3, <4>4
      <4> QED
        BY <4>5, <4>6
    <3> QED
      BY <3>2, <3>3
  <2> QED
    BY <2>1
<1>8. \A s \in SUBSET S : s \in G
  <2> HIDE DEF G
  <2> QED
    BY <1>7, PartsInduction DEF Weighs
<1>9. \A x \in S : S \ {x} \in SUBSET S
  OBVIOUS
<1>10. S \in SUBSET S /\ {} \in SUBSET S
  OBVIOUS
<1> QED
  BY <1>2, <1>4, <1>6, <1>8, <1>9, <1>10

(* What is added to a set is added to its sum.                              *)
LEMMA TotalAdds ==
  ASSUME NEW S, NEW f, Weighs(f, S), NEW x, x \notin S, f[x] \in Int
  PROVE  Weighs(f, S \cup {x}) /\ Total(f, S \cup {x}) = f[x] + Total(f, S)
<1>1. IsFiniteSet(S \cup {x})
  BY FS_AddElement DEF Weighs
<1>2. Weighs(f, S \cup {x})
  BY <1>1 DEF Weighs
<1>3. (S \cup {x}) \ {x} = S /\ x \in S \cup {x}
  OBVIOUS
<1> QED
  BY <1>2, <1>3, TotalTakes

(* A sum depends on nothing but the weights of its set.                     *)
LEMMA TotalSame ==
  ASSUME NEW S, IsFiniteSet(S), NEW f, NEW h, \A x \in S : f[x] = h[x]
  PROVE  Total(f, S) = Total(h, S)
<1>1. PICK g : Adds(g, f, S)
  BY AddsExists
<1>2. PICK k : Adds(k, h, S)
  BY AddsExists
<1>3. g[S] = k[S]
  <2>1. S \in SUBSET S
    OBVIOUS
  <2> QED
    BY <1>1, <1>2, <2>1, AddsOnce
<1>4. Total(f, S) = g[S] /\ Total(h, S) = k[S]
  BY <1>1, <1>2, TotalIs
<1> QED
  BY <1>3, <1>4

(* Without negative weights no part exceeds the whole.                      *)
LEMMA TotalGrows ==
  ASSUME NEW S, NEW f, Weighs(f, S), \A x \in S : f[x] >= 0, NEW T \in SUBSET S
  PROVE  Weighs(f, T) /\ 0 <= Total(f, T) /\ Total(f, T) <= Total(f, S)
<1>1. \A s \in SUBSET S : Weighs(f, s)
  BY FS_Subset DEF Weighs
<1> DEFINE G == {s \in SUBSET S : 0 <= Total(f, s) /\ \A r \in SUBSET s : Total(f, r) <= Total(f, s)}
<1>2. ASSUME NEW s \in SUBSET S, \A x \in s : s \ {x} \in G PROVE s \in G
  <2>1. Total(f, s) \in Int /\ Total(f, {}) = 0
    BY <1>1, TotalTakes
  <2>2. ASSUME NEW r \in SUBSET s PROVE Total(f, r) <= Total(f, s)
    <3>1. CASE r = s
      BY <2>1, <3>1
    <3>2. CASE r # s
      <4>1. PICK x \in s : x \notin r
        BY <3>2
      <4>2. Total(f, s) = f[x] + Total(f, s \ {x})
        BY <1>1, TotalTakes
      <4>3. r \in SUBSET (s \ {x}) /\ r \in SUBSET S /\ s \ {x} \in SUBSET S
        BY <4>1
      <4>4. Total(f, r) <= Total(f, s \ {x})
        BY <1>2, <4>3
      <4>5. Total(f, r) \in Int /\ Total(f, s \ {x}) \in Int /\ f[x] \in Int /\ f[x] >= 0
        BY <1>1, <4>3, TotalTakes DEF Weighs
      <4> QED
        BY <4>2, <4>4, <4>5
    <3> QED
      BY <3>1, <3>2
  <2>3. 0 <= Total(f, s)
    BY <2>1, <2>2
  <2> QED
    BY <2>2, <2>3
<1>3. \A s \in SUBSET S : s \in G
  <2> HIDE DEF G
  <2> QED
    BY <1>2, PartsInduction DEF Weighs
<1>4. S \in SUBSET S
  OBVIOUS
<1> QED
  BY <1>1, <1>3, <1>4

(* What weighs nothing may be left out.                                     *)
LEMMA TotalZeros ==
  ASSUME NEW S, NEW f, Weighs(f, S), NEW T \in SUBSET S, \A x \in S \ T : f[x] = 0
  PROVE  Weighs(f, T) /\ Total(f, S) = Total(f, T)
<1>1. \A s \in SUBSET S : Weighs(f, s)
  BY FS_Subset DEF Weighs
<1> DEFINE G == {s \in SUBSET S : Total(f, s) = Total(f, s \cap T)}
<1>2. ASSUME NEW s \in SUBSET S, \A x \in s : s \ {x} \in G PROVE s \in G
  <2>1. CASE s \subseteq T
    <3>1. s \cap T = s
      BY <2>1
    <3> QED
      BY <3>1
  <2>2. CASE ~(s \subseteq T)
    <3>1. PICK x \in s : x \notin T
      BY <2>2
    <3>2. Total(f, s) = f[x] + Total(f, s \ {x}) /\ f[x] = 0
      BY <1>1, <3>1, TotalTakes
    <3>3. s \ {x} \in G /\ (s \ {x}) \cap T = s \cap T
      BY <1>2, <3>1
    <3>4. Total(f, s \ {x}) \in Int
      BY <1>1, TotalTakes
    <3> QED
      BY <3>2, <3>3, <3>4
  <2> QED
    BY <2>1, <2>2
<1>3. \A s \in SUBSET S : s \in G
  <2> HIDE DEF G
  <2> QED
    BY <1>2, PartsInduction DEF Weighs
<1>4. S \in SUBSET S /\ S \cap T = T
  OBVIOUS
<1> QED
  BY <1>1, <1>3, <1>4

(* What a function makes of finitely many values is finitely many.         *)
LEMMA ImageIsFinite ==
  ASSUME NEW S, IsFiniteSet(S), NEW f
  PROVE  IsFiniteSet({f[x] : x \in S})
<1>1. PICK T : T = {f[x] : x \in S}
  OBVIOUS
<1>2. PICK g : g = [x \in S |-> f[x]]
  OBVIOUS
<1>3. g \in Surjection(S, T)
  BY <1>1, <1>2 DEF Surjection
<1> QED
  BY <1>1, <1>3, FS_Surjection

(* The largest of finitely many numbers is one of them.                     *)
LEMMA Largest ==
  ASSUME NEW S \in SUBSET Int, IsFiniteSet(S), S # {}
  PROVE  Max(S) \in S /\ \A x \in S : x <= Max(S)
<1> DEFINE G == {s \in SUBSET S : s = {} \/ \E m \in s : \A x \in s : x <= m}
<1>1. ASSUME NEW s \in SUBSET S, \A x \in s : s \ {x} \in G PROVE s \in G
  <2>1. CASE s = {}
    BY <2>1
  <2>2. ASSUME NEW x \in s PROVE s \in G
    <3>1. CASE s \ {x} = {}
      <4>1. \A y \in s : y <= x
        BY <3>1
      <4> QED
        BY <4>1
    <3>2. CASE s \ {x} # {}
      <4>1. PICK m \in s \ {x} : \A y \in s \ {x} : y <= m
        BY <1>1, <3>2
      <4>2. CASE x <= m
        <5>1. \A y \in s : y <= m
          BY <4>1, <4>2
        <5> QED
          BY <4>1, <5>1
      <4>3. CASE ~(x <= m)
        <5>1. \A y \in s : y <= x
          BY <4>1, <4>3
        <5> QED
          BY <5>1
      <4> QED
        BY <4>2, <4>3
    <3> QED
      BY <3>1, <3>2
  <2> QED
    BY <2>1, <2>2
<1> HIDE DEF G
<1>2. \A s \in SUBSET S : s \in G
  BY <1>1, PartsInduction
<1>3. S \in SUBSET S
  OBVIOUS
<1>4. \E m \in S : \A x \in S : x <= m
  BY <1>2, <1>3 DEF G
<1>5. \E m \in S : \A x \in S : m >= x
  BY <1>4
<1> QED
  BY <1>5 DEF Max
=============================================================================
