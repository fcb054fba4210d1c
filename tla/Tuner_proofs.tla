---------------------------- MODULE Tuner_proofs ----------------------------
(***************************************************************************)
(* What car-tune writes, and what the costs tell.  The costs have to be    *)
(* compared, so first every number an episode computes is shown to be one, *)
(* from the geometry of the track and the models of the vehicle up to the  *)
(* score of several episodes.  Then the episode itself: its outcome shows  *)
(* in the verdict, and what the car senses of the walls, by clipping and by *)
(* rays, is what separation and orientation say of them.                   *)
(***************************************************************************)
EXTENDS Tuner, FiniteSetTheorems, SequenceTheorems, WellFoundedInduction, TLAPS

(* A set of natural numbers has a least element.                            *)
LEMMA LeastElement ==
  ASSUME NEW T, T \subseteq Nat, T # {}
  PROVE  \E x \in T : \A y \in T : x <= y
<1>. DEFINE R == {ss \in Nat \X Nat : ss[1] < ss[2]}
<1>1. IsWellFoundedOn(R, Nat)
  BY NatLessThanWellFounded DEF OpToRel
<1>. HIDE DEF R
<1>2. PICK x \in T : \A y \in T : ~ (<<y, x>> \in R)
  BY <1>1, WFMin
<1>3. ASSUME NEW y \in T, y < x PROVE FALSE
  <2>1. <<y, x>> \in Nat \X Nat /\ <<y, x>>[1] = y /\ <<y, x>>[2] = x
    BY <1>2
  <2>. QED  BY <1>2, <1>3, <2>1 DEF R
<1>. QED  BY <1>2, <1>3

(* A set of numbers below a bound has a greatest element.                   *)
LEMMA GreatestElement ==
  ASSUME NEW n \in Nat, NEW T, T \subseteq 0..n, T # {}
  PROVE  /\ \E x \in T : \A y \in T : x >= y
         /\ Max(T) \in T /\ \A y \in T : Max(T) >= y
<1>. DEFINE Mirror == {n - x : x \in T}
<1>1. Mirror \subseteq Nat /\ Mirror # {}
  <2>1. ASSUME NEW x \in T PROVE n - x \in Nat
    BY x \in 0..n
  <2>2. PICK x : x \in T
    OBVIOUS
  <2>. QED  BY <2>1, <2>2
<1>2. PICK m \in Mirror : \A k \in Mirror : m <= k
  BY <1>1, LeastElement
<1>3. PICK x \in T : m = n - x
  BY <1>2
<1>4. ASSUME NEW y \in T PROVE x >= y
  <2>1. n - y \in Mirror /\ n - x <= n - y
    BY <1>2, <1>3
  <2>. QED  BY <2>1
<1>5. \E z \in T : \A y \in T : z >= y
  BY <1>3, <1>4
<1>6. Max(T) \in T /\ \A y \in T : Max(T) >= y
  BY <1>5 DEF Max
<1>. QED  BY <1>5, <1>6

-----------------------------------------------------------------------------
(* Sums                                                                     *)

(* g gives every set of D the sum of f over it.                             *)
Adds(f, D, g) ==
  g = [s \in D |-> IF s = {} THEN 0
                   ELSE f[CHOOSE x \in s : TRUE] + g[s \ {CHOOSE x \in s : TRUE}]]

LEMMA SumsExist ==
  ASSUME NEW S, IsFiniteSet(S), NEW f
  PROVE  \E g : Adds(f, SUBSET S, g)
<1>. DEFINE D(n) == {t \in SUBSET S : Cardinality(t) <= n}
            Bad == {n \in Nat : ~ \E g : Adds(f, D(n), g)}
<1>1. 0 \notin Bad
  <2>1. \A t \in D(0) : t = {}
    <3>. SUFFICES ASSUME NEW t \in D(0) PROVE t = {}
      OBVIOUS
    <3>1. IsFiniteSet(t) /\ Cardinality(t) \in Nat /\ Cardinality(t) <= 0
      BY FS_Subset, FS_CardinalityType
    <3>. QED  BY <3>1, FS_EmptySet
  <2>2. Adds(f, D(0), [t \in D(0) |-> 0])
    BY <2>1 DEF Adds
  <2>. QED  BY <2>2
<1>2. ASSUME NEW n \in Nat, n \notin Bad PROVE n + 1 \notin Bad
  <2>1. PICK g : Adds(f, D(n), g)
    BY <1>2
  <2>. DEFINE Pick(s) == CHOOSE x \in s : TRUE
              h == [s \in D(n + 1) |-> IF s = {} THEN 0 ELSE f[Pick(s)] + g[s \ {Pick(s)}]]
  <2>2. ASSUME NEW s \in D(n + 1), s # {}
        PROVE  s \ {Pick(s)} \in D(n) /\ s \ {Pick(s)} \in D(n + 1)
    <3>1. Pick(s) \in s
      BY <2>2
    <3>2. IsFiniteSet(s) /\ Cardinality(s) \in Nat /\ Cardinality(s) <= n + 1
      BY FS_Subset, FS_CardinalityType
    <3>3. Cardinality(s \ {Pick(s)}) = Cardinality(s) - 1
      BY <3>1, <3>2, FS_RemoveElement
    <3>. QED  BY <3>2, <3>3
  <2>3. ASSUME NEW s \in D(n), s \in D(n + 1) PROVE h[s] = g[s]
    BY <2>1, <2>3 DEF Adds
  <2>. HIDE DEF D
  <2>4. ASSUME NEW s \in D(n + 1), s # {}
        PROVE  h[s] = f[Pick(s)] + h[s \ {Pick(s)}]
    <3>1. h[s \ {Pick(s)}] = g[s \ {Pick(s)}]
      BY <2>2, <2>3, <2>4
    <3>2. h[s] = f[Pick(s)] + g[s \ {Pick(s)}]
      BY <2>4
    <3>. HIDE DEF h
    <3>. QED  BY <3>1, <3>2
  <2>5. Adds(f, D(n + 1), h)
    <3>1. ASSUME NEW s \in D(n + 1)
          PROVE  h[s] = IF s = {} THEN 0 ELSE f[Pick(s)] + h[s \ {Pick(s)}]
      <4>1. s = {} => h[s] = 0
        OBVIOUS
      <4>. HIDE DEF h
      <4>. QED  BY <2>4, <4>1
    <3>2. h = [s \in D(n + 1) |-> h[s]]
      OBVIOUS
    <3>. HIDE DEF h
    <3>. QED  BY <3>1, <3>2 DEF Adds
  <2>. QED  BY <2>5
<1>3. Bad = {}
  <2>. SUFFICES ASSUME Bad # {} PROVE FALSE
    OBVIOUS
  <2>. HIDE DEF D
  <2>1. PICK m \in Bad : \A k \in Bad : m <= k
    BY LeastElement
  <2>2. m \in Nat /\ m # 0 /\ m - 1 \in Nat /\ m - 1 \notin Bad
    <3>1. m \in Nat /\ m # 0
      BY <1>1
    <3>. HIDE DEF Bad
    <3>. QED  BY <2>1, <3>1
  <2>3. m - 1 + 1 = m
    BY <2>2
  <2>. QED  BY <1>2, <2>2, <2>3
<1>4. D(Cardinality(S)) = SUBSET S /\ Cardinality(S) \in Nat
  BY FS_Subset, FS_CardinalityType
<1>. HIDE DEF D
<1>5. PICK g : Adds(f, D(Cardinality(S)), g)
  BY <1>3, <1>4
<1>. QED  BY <1>4, <1>5

(* A sum of natural numbers is one, at least each of them and at most their *)
(* greatest as often as there are numbers.                                  *)
LEMMA SumIsNat ==
  ASSUME NEW S, IsFiniteSet(S), NEW f \in [S -> Nat]
  PROVE  /\ SumFunction(f) \in Nat /\ \A i \in S : SumFunction(f) >= f[i]
         /\ \A m \in Nat : (\A i \in S : f[i] <= m) => SumFunction(f) <= m * Cardinality(S)
<1>. DEFINE g == CHOOSE h : Adds(f, SUBSET S, h)
            Bounded(s, m) == (\A i \in s : f[i] <= m) => g[s] <= m * Cardinality(s)
            Sums(s) == /\ g[s] \in Nat /\ \A i \in s : g[s] >= f[i]
                       /\ \A m \in Nat : Bounded(s, m)
            Bad == {n \in Nat : \E s \in SUBSET S : Cardinality(s) = n /\ ~ Sums(s)}
<1>1. SumFunction(f) = g[S]
  BY DEF SumFunction, SumFunctionOnSet, FoldFunctionOnSet, MapThenFoldSet, Adds
<1>2. Adds(f, SUBSET S, g)
  BY SumsExist
<1>. HIDE DEF g
<1>3. ASSUME NEW s \in SUBSET S, \A t \in SUBSET S : Cardinality(t) < Cardinality(s) => Sums(t)
      PROVE  Sums(s)
  <2>1. CASE s = {}
    <3>1. g[s] = 0 /\ Cardinality(s) = 0
      BY <1>2, <2>1, FS_EmptySet DEF Adds
    <3>. QED  BY <2>1, <3>1
  <2>2. CASE s # {}
    <3>. DEFINE x == CHOOSE y \in s : TRUE
    <3>1. x \in s
      BY <2>2
    <3>2. IsFiniteSet(s) /\ Cardinality(s) \in Nat
      BY FS_Subset, FS_CardinalityType
    <3>3. Cardinality(s \ {x}) = Cardinality(s) - 1
      BY <3>1, <3>2, FS_RemoveElement
    <3>4. g[s] = f[x] + g[s \ {x}]
      BY <1>2, <2>2 DEF Adds
    <3>. HIDE DEF x
    <3>5. s \ {x} \in SUBSET S /\ Cardinality(s \ {x}) < Cardinality(s)
      BY <3>2, <3>3
    <3>6. Sums(s \ {x})
      BY <1>3, <3>5
    <3>7. f[x] \in Nat
      BY <3>1
    <3>8. g[s] \in Nat /\ \A i \in s : g[s] >= f[i]
      <4>1. g[s \ {x}] \in Nat /\ \A i \in s \ {x} : g[s \ {x}] >= f[i]
        BY <3>6
      <4>2. \A i \in s : f[i] \in Nat
        OBVIOUS
      <4>3. ASSUME NEW i \in s PROVE g[s] >= f[i]
        <5>1. CASE i = x
          BY <3>4, <3>7, <4>1, <5>1
        <5>2. CASE i \in s \ {x}
          <6>1. f[i] \in Nat /\ g[s \ {x}] >= f[i]
            BY <4>1, <4>2, <5>2
          <6>. QED  BY <3>4, <3>7, <4>1, <6>1
        <5>. QED  BY <5>1, <5>2
      <4>. QED  BY <3>4, <3>7, <4>1, <4>3
    <3>9. ASSUME NEW m \in Nat, \A i \in s : f[i] <= m PROVE g[s] <= m * Cardinality(s)
      <4>1. g[s \ {x}] \in Nat /\ g[s \ {x}] <= m * Cardinality(s \ {x})
        BY <3>6, <3>9
      <4>2. f[x] <= m
        BY <3>1, <3>9
      <4>3. m * Cardinality(s) = m * (Cardinality(s) - 1) + m
        BY <3>2
      <4>4. m * (Cardinality(s) - 1) \in Int
        BY <3>2
      <4>. QED  BY <3>3, <3>4, <3>7, <4>1, <4>2, <4>3, <4>4
    <3>10. \A m \in Nat : Bounded(s, m)
      BY <3>9
    <3>. HIDE DEF Bounded
    <3>. QED  BY <3>8, <3>10
  <2>. QED  BY <2>1, <2>2
<1>4. Bad = {}
  <2>. SUFFICES ASSUME Bad # {} PROVE FALSE
    OBVIOUS
  <2>. HIDE DEF Sums
  <2>1. PICK m \in Bad : \A k \in Bad : m <= k
    BY LeastElement
  <2>2. PICK s \in SUBSET S : Cardinality(s) = m /\ ~ Sums(s)
    OBVIOUS
  <2>3. ASSUME NEW t \in SUBSET S, Cardinality(t) < Cardinality(s), ~ Sums(t) PROVE FALSE
    <3>1. Cardinality(t) \in Nat /\ Cardinality(s) \in Nat
      BY FS_Subset, FS_CardinalityType
    <3>2. Cardinality(t) \in Bad
      BY <2>3, <3>1
    <3>. HIDE DEF Bad
    <3>. QED  BY <2>1, <2>2, <2>3, <3>1, <3>2
  <2>4. \A t \in SUBSET S : Cardinality(t) < Cardinality(s) => Sums(t)
    BY <2>3
  <2>5. Sums(s)
    BY <1>3, <2>4
  <2>. QED  BY <2>2, <2>5
<1>5. S \in SUBSET S /\ Cardinality(S) \in Nat
  BY FS_CardinalityType
<1>6. Sums(S)
  <2>. HIDE DEF Sums
  <2>. QED  BY <1>4, <1>5
<1>. QED  BY <1>1, <1>6

(* Induction over the subsets of a finite set, by their size.               *)
LEMMA SubsetInduction ==
  ASSUME NEW S, IsFiniteSet(S), NEW P,
         \A s \in SUBSET S :
           (\A t \in SUBSET S : Cardinality(t) < Cardinality(s) => t \in P) => s \in P
  PROVE  SUBSET S \subseteq P
<1>. DEFINE Bad == {n \in Nat : \E s \in SUBSET S : Cardinality(s) = n /\ s \notin P}
<1>1. \A s \in SUBSET S : IsFiniteSet(s) /\ Cardinality(s) \in Nat
  BY FS_Subset, FS_CardinalityType
<1>2. ASSUME Bad # {} PROVE FALSE
  <2>1. PICK m \in Bad : \A k \in Bad : m <= k
    BY <1>2, LeastElement
  <2>2. PICK s \in SUBSET S : Cardinality(s) = m /\ s \notin P
    OBVIOUS
  <2>3. PICK t \in SUBSET S : Cardinality(t) < Cardinality(s) /\ t \notin P
    BY <2>2
  <2>4. Cardinality(t) \in Bad
    BY <1>1, <2>3
  <2>. HIDE DEF Bad
  <2>. QED  BY <1>1, <2>1, <2>2, <2>3, <2>4
<1>. QED  BY <1>1, <1>2

(* g adds in any order.                                                     *)
AddsUp(f, S, g) == \A s \in SUBSET S : g[s] \in Nat /\ \A x \in s : g[s] = f[x] + g[s \ {x}]

(* Any element of a set may be the first one that is added.                 *)
LEMMA SumFromAny ==
  ASSUME NEW S, IsFiniteSet(S), NEW f \in [S -> Nat], NEW g, Adds(f, SUBSET S, g)
  PROVE  AddsUp(f, S, g)
<1>. DEFINE P == {s \in SUBSET S : g[s] \in Nat /\ \A x \in s : g[s] = f[x] + g[s \ {x}]}
<1>1. ASSUME NEW s \in SUBSET S,
             \A t \in SUBSET S : Cardinality(t) < Cardinality(s) => t \in P
      PROVE  s \in P
  <2>1. CASE s = {}
    <3>1. g[s] = 0
      BY <2>1 DEF Adds
    <3>. QED  BY <2>1, <3>1
  <2>2. CASE s # {}
    <3>. DEFINE c == CHOOSE y \in s : TRUE
    <3>1. c \in s
      BY <2>2
    <3>2. g[s] = f[c] + g[s \ {c}]
      BY <2>2 DEF Adds
    <3>3. \A x \in s : s \ {x} \in SUBSET S /\ Cardinality(s \ {x}) < Cardinality(s)
      <4>1. IsFiniteSet(s) /\ Cardinality(s) \in Nat
        BY FS_Subset, FS_CardinalityType
      <4>2. \A x \in s : Cardinality(s \ {x}) = Cardinality(s) - 1
        BY <4>1, FS_RemoveElement
      <4>. QED  BY <4>1, <4>2
    <3>. HIDE DEF c
    <3>4. \A x \in s : g[s \ {x}] \in Nat /\ \A y \in s \ {x} : g[s \ {x}] = f[y] + g[(s \ {x}) \ {y}]
      BY <1>1, <3>3
    <3>5. \A x \in s : f[x] \in Nat
      OBVIOUS
    <3>6. ASSUME NEW x \in s PROVE g[s] = f[x] + g[s \ {x}]
      <4>1. CASE x = c
        BY <3>2, <4>1
      <4>2. CASE x # c
        <5>. DEFINE rest == (s \ {x}) \ {c}
        <5>1. (s \ {c}) \ {x} = rest
          OBVIOUS
        <5>2. g[s \ {c}] = f[x] + g[rest]
          BY <3>1, <3>4, <4>2, <5>1
        <5>3. g[s \ {x}] = f[c] + g[rest]
          BY <3>1, <3>4, <4>2
        <5>4. g[rest] \in Nat
          <6>1. rest \in SUBSET S /\ s \ {x} \in SUBSET S
            OBVIOUS
          <6>2. Cardinality(rest) < Cardinality(s)
            <7>1. IsFiniteSet(s) /\ IsFiniteSet(s \ {x}) /\ Cardinality(s) \in Nat
              BY FS_Subset, FS_CardinalityType
            <7>2. Cardinality(s \ {x}) = Cardinality(s) - 1
              BY <7>1, FS_RemoveElement
            <7>3. Cardinality(rest) = Cardinality(s \ {x}) - 1
              BY <3>1, <4>2, <7>1, FS_RemoveElement
            <7>. QED  BY <7>1, <7>2, <7>3
          <6>. QED  BY <1>1, <6>1, <6>2
        <5>. HIDE DEF rest
        <5>. QED  BY <3>1, <3>2, <3>5, <5>2, <5>3, <5>4
      <4>. QED  BY <4>1, <4>2
    <3>7. g[s] \in Nat
      BY <3>1, <3>2, <3>4, <3>5
    <3>. QED  BY <3>6, <3>7
  <2>. QED  BY <2>1, <2>2
<1>. HIDE DEF P
<1>2. SUBSET S \subseteq P
  BY <1>1, SubsetInduction
<1>. QED  BY <1>2 DEF P, AddsUp

Agree(f, h, T) == \A i \in T : h[i] = f[i]

(* The sum over a part is what the sum over the whole has for it.           *)
LEMMA SumsAgree ==
  ASSUME NEW S, IsFiniteSet(S), NEW T, T \subseteq S, NEW f, NEW h,
         Agree(f, h, T),
         NEW g, Adds(f, SUBSET S, g), NEW k, Adds(h, SUBSET T, k)
  PROVE  Agree(g, k, SUBSET T)
<1>. DEFINE P == {s \in SUBSET T : k[s] = g[s]}
<1>0. IsFiniteSet(T)
  BY FS_Subset
<1>1. ASSUME NEW s \in SUBSET T,
             \A t \in SUBSET T : Cardinality(t) < Cardinality(s) => t \in P
      PROVE  s \in P
  <2>0. s \in SUBSET S
    OBVIOUS
  <2>1. CASE s = {}
    BY <2>0, <2>1 DEF Adds
  <2>2. CASE s # {}
    <3>. DEFINE c == CHOOSE y \in s : TRUE
    <3>1. c \in s
      BY <2>2
    <3>2. g[s] = f[c] + g[s \ {c}] /\ k[s] = h[c] + k[s \ {c}]
      BY <2>0, <2>2 DEF Adds
    <3>3. s \ {c} \in SUBSET T /\ Cardinality(s \ {c}) < Cardinality(s)
      <4>1. IsFiniteSet(s) /\ Cardinality(s) \in Nat
        BY <1>0, FS_Subset, FS_CardinalityType
      <4>2. Cardinality(s \ {c}) = Cardinality(s) - 1
        BY <3>1, <4>1, FS_RemoveElement
      <4>. QED  BY <4>1, <4>2
    <3>. HIDE DEF c
    <3>4. k[s \ {c}] = g[s \ {c}] /\ h[c] = f[c]
      BY <1>1, <3>1, <3>3 DEF Agree
    <3>. QED  BY <3>2, <3>4
  <2>. QED  BY <2>1, <2>2
<1>. HIDE DEF P
<1>2. SUBSET T \subseteq P
  BY <1>0, <1>1, SubsetInduction
<1>. QED  BY <1>2 DEF P, Agree

(* A sum over a part of S, and the sum with one element more                *)
LEMMA SumOfParts ==
  ASSUME NEW S, IsFiniteSet(S), NEW f \in [S -> Nat]
  PROVE  \E g : /\ \A T \in SUBSET S : g[T] = SumFunction([i \in T |-> f[i]]) /\ g[T] \in Nat
                /\ g[{}] = 0
                /\ \A T \in SUBSET S : \A x \in S \ T : g[T \cup {x}] = f[x] + g[T]
                /\ \A T \in SUBSET S : g[T] <= g[S]
<1>1. PICK g : Adds(f, SUBSET S, g)
  BY SumsExist
<1>2. \A s \in SUBSET S : g[s] \in Nat /\ \A x \in s : g[s] = f[x] + g[s \ {x}]
  <2>1. AddsUp(f, S, g)
    BY <1>1, SumFromAny
  <2>. QED  BY <2>1 DEF AddsUp
<1>3. ASSUME NEW T \in SUBSET S PROVE g[T] = SumFunction([i \in T |-> f[i]])
  <2>. DEFINE h == [i \in T |-> f[i]]
              k == CHOOSE a : Adds(h, SUBSET T, a)
  <2>1. DOMAIN h = T
    OBVIOUS
  <2>2. SumFunction(h) = k[T]
    BY <2>1 DEF SumFunction, SumFunctionOnSet, FoldFunctionOnSet, MapThenFoldSet, Adds
  <2>3. Agree(f, h, T)
    BY DEF Agree
  <2>4. IsFiniteSet(T)
    BY FS_Subset
  <2>. HIDE DEF h
  <2>5. Adds(h, SUBSET T, k)
    BY <2>4, SumsExist
  <2>. HIDE DEF k
  <2>6. Agree(g, k, SUBSET T)
    BY <1>1, <2>3, <2>5, SumsAgree
  <2>7. k[T] = g[T]
    BY <2>6 DEF Agree
  <2>. QED  BY <2>2, <2>7 DEF h
<1>4. g[{}] = 0
  BY <1>1 DEF Adds
<1>5. ASSUME NEW T \in SUBSET S, NEW x \in S \ T PROVE g[T \cup {x}] = f[x] + g[T]
  <2>1. (T \cup {x}) \ {x} = T /\ T \cup {x} \in SUBSET S /\ x \in T \cup {x}
    OBVIOUS
  <2>. QED  BY <1>2, <2>1
<1>6. \A T \in SUBSET S : g[T] <= g[S]
  <2>. DEFINE P == {s \in SUBSET S : \A t \in SUBSET s : g[t] <= g[s]}
  <2>1. ASSUME NEW s \in SUBSET S,
               \A t \in SUBSET S : Cardinality(t) < Cardinality(s) => t \in P
        PROVE  s \in P
    <3>. SUFFICES ASSUME NEW t \in SUBSET s PROVE g[t] <= g[s]
      OBVIOUS
    <3>0. g[s] \in Nat /\ g[t] \in Nat
      BY <1>2
    <3>1. CASE t = s
      BY <3>0, <3>1
    <3>2. CASE t # s
      <4>1. PICK x \in s : x \notin t
        BY <3>2
      <4>2. s \ {x} \in SUBSET S /\ t \in SUBSET (s \ {x})
        BY <4>1
      <4>3. Cardinality(s \ {x}) < Cardinality(s)
        <5>1. IsFiniteSet(s) /\ Cardinality(s) \in Nat
          BY FS_Subset, FS_CardinalityType
        <5>2. Cardinality(s \ {x}) = Cardinality(s) - 1
          BY <4>1, <5>1, FS_RemoveElement
        <5>. QED  BY <5>1, <5>2
      <4>4. g[t] <= g[s \ {x}]
        BY <2>1, <4>2, <4>3
      <4>5. g[s] = f[x] + g[s \ {x}] /\ g[s \ {x}] \in Nat /\ f[x] \in Nat
        BY <1>2, <4>1, <4>2
      <4>. QED  BY <3>0, <4>4, <4>5
    <3>. QED  BY <3>1, <3>2
  <2>. HIDE DEF P
  <2>2. SUBSET S \subseteq P
    BY <2>1, SubsetInduction
  <2>. QED  BY <2>2 DEF P
<1>. QED  BY <1>2, <1>3, <1>4, <1>5, <1>6

-----------------------------------------------------------------------------
(* The track                                                                *)

LEMMA MaxOfTwo ==
  ASSUME NEW a \in Int, NEW b \in Int
  PROVE  /\ Max({a, b}) \in {a, b} /\ Max({a, b}) \in Int
         /\ Max({a, b}) >= a /\ Max({a, b}) >= b
<1>1. \E x \in {a, b} : \A y \in {a, b} : x >= y
  OBVIOUS
<1>2. Max({a, b}) \in {a, b} /\ \A y \in {a, b} : Max({a, b}) >= y
  BY <1>1 DEF Max
<1>. QED  BY <1>2

LEMMA MaxWithNumber ==
  ASSUME NEW a \in Int
  PROVE  Max({a, 0}) \in Nat /\ Max({a, 1}) \in Nat \ {0}
<1>1. 0 \in Int /\ 1 \in Int
  OBVIOUS
<1>2. Max({a, 0}) \in Int /\ Max({a, 0}) >= 0
  BY <1>1, MaxOfTwo
<1>3. Max({a, 1}) \in Int /\ Max({a, 1}) >= 1
  BY <1>1, MaxOfTwo
<1>. QED  BY <1>2, <1>3

LEMMA MaxOfThree ==
  ASSUME NEW a \in Int, NEW b \in Int, NEW c \in Int
  PROVE  Max({a, b, c}) \in Int /\ Max({a, b, c}) >= c
<1>1. \E x \in {a, b, c} : \A y \in {a, b, c} : x >= y
  OBVIOUS
<1>2. Max({a, b, c}) \in {a, b, c} /\ \A y \in {a, b, c} : Max({a, b, c}) >= y
  BY <1>1 DEF Max
<1>. QED  BY <1>2

LEMMA DirectionIsTyped ==
  /\ \A yaw \in Int : Cos(yaw) \in Int /\ Sin(yaw) \in Int
  /\ Cos(0) = 1 /\ Cos(1) = 0 /\ Cos(2) = -1 /\ Cos(3) = 0
  /\ Sin(0) = 0 /\ Sin(1) = 1 /\ Sin(2) = 0 /\ Sin(3) = -1
<1>1. ASSUME NEW yaw \in Int PROVE Cos(yaw) \in Int /\ Sin(yaw) \in Int
  <2>1. (yaw % 4) + 1 \in 1..4
    OBVIOUS
  <2>2. (yaw % 4) + 1 = 1 \/ (yaw % 4) + 1 = 2 \/ (yaw % 4) + 1 = 3 \/ (yaw % 4) + 1 = 4
    BY <2>1
  <2>. QED  BY <2>2 DEF Cos, Sin
<1>2. 0 % 4 = 0 /\ 1 % 4 = 1 /\ 2 % 4 = 2 /\ 3 % 4 = 3
  OBVIOUS
<1>3. Cos(0) = 1 /\ Cos(1) = 0 /\ Cos(2) = -1 /\ Cos(3) = 0
  BY <1>2 DEF Cos
<1>4. Sin(0) = 0 /\ Sin(1) = 1 /\ Sin(2) = 0 /\ Sin(3) = -1
  BY <1>2 DEF Sin
<1>. QED  BY <1>1, <1>3, <1>4

LEMMA WaypointIsPoint ==
  ASSUME NEW i \in DOMAIN Waypoints
  PROVE  /\ Next_(i) \in DOMAIN Waypoints /\ i \in Nat
         /\ Waypoints[i].x \in Int /\ Waypoints[i].y \in Int
<1>1. Len(Waypoints) \in Nat /\ i \in 1..Len(Waypoints) /\ DOMAIN Waypoints = 1..Len(Waypoints)
  BY WaypointsArePoints
<1>2. i % Len(Waypoints) \in 0..(Len(Waypoints) - 1)
  BY <1>1
<1>3. Next_(i) \in 1..Len(Waypoints)
  BY <1>1, <1>2 DEF Next_
<1>4. Waypoints[i] \in [x : Int, y : Int]
  <2>. DEFINE Points == [x : Int, y : Int]
  <2>1. Waypoints \in Seq(Points)
    BY WaypointsArePoints
  <2>. HIDE DEF Points
  <2>2. Waypoints[i] \in Points
    BY <1>1, <2>1
  <2>. QED  BY <2>2 DEF Points
<1>5. Waypoints[i].x \in Int /\ Waypoints[i].y \in Int
  BY <1>4
<1>6. i \in Nat /\ Next_(i) \in DOMAIN Waypoints
  BY <1>1, <1>3
<1>. QED  BY <1>5, <1>6

LEMMA LengthIsNat ==
  ASSUME NEW i \in DOMAIN Waypoints
  PROVE  Length(i) \in Nat
<1>. DEFINE a == Waypoints[i]
            b == Waypoints[Next_(i)]
<1>1. a.x \in Int /\ a.y \in Int /\ b.x \in Int /\ b.y \in Int
  BY WaypointIsPoint
<1>2. b.x - a.x \in Int /\ a.x - b.x \in Int /\ b.y - a.y \in Int /\ a.y - b.y \in Int
  BY <1>1
<1>3. Max({b.x - a.x, a.x - b.x}) \in Nat /\ Max({b.y - a.y, a.y - b.y}) \in Nat
  <2>1. Max({b.x - a.x, a.x - b.x}) \in Int /\ Max({b.x - a.x, a.x - b.x}) >= b.x - a.x
          /\ Max({b.x - a.x, a.x - b.x}) >= a.x - b.x
    BY <1>2, MaxOfTwo
  <2>2. Max({b.y - a.y, a.y - b.y}) \in Int /\ Max({b.y - a.y, a.y - b.y}) >= b.y - a.y
          /\ Max({b.y - a.y, a.y - b.y}) >= a.y - b.y
    BY <1>2, MaxOfTwo
  <2>. HIDE DEF a, b
  <2>. QED  BY <1>1, <2>1, <2>2
<1>4. Length(i) = Max({b.x - a.x, a.x - b.x}) + Max({b.y - a.y, a.y - b.y})
  BY DEF Length
<1>. HIDE DEF a, b
<1>. QED  BY <1>3, <1>4

LEMMA SegmentsAreFinite ==
  /\ IsFiniteSet(Segments) /\ Segments \subseteq DOMAIN Waypoints /\ Segments \subseteq Nat
  /\ Segments # {}
<1>1. Len(Waypoints) \in Nat /\ DOMAIN Waypoints = 1..Len(Waypoints)
  BY WaypointsArePoints
<1>2. IsFiniteSet(DOMAIN Waypoints)
  BY <1>1, FS_Interval
<1>3. Segments \in SUBSET DOMAIN Waypoints
  BY DEF Segments
<1>4. IsFiniteSet(Segments)
  BY <1>2, <1>3, FS_Subset
<1>. QED  BY <1>1, <1>3, <1>4, WorldHasTrack DEF HasTrack

LEMMA TrackHasLength == TrackLength \in Nat \ {0}
<1>. DEFINE f == [i \in Segments |-> Length(i)]
<1>1. f \in [Segments -> Nat]
  BY SegmentsAreFinite, LengthIsNat
<1>2. PICK i \in Segments : f[i] > 0
  BY SegmentsAreFinite DEF Segments
<1>3. TrackLength = SumFunction(f)
  BY DEF TrackLength
<1>4. f[i] \in Nat
  BY <1>1
<1>. HIDE DEF f
<1>5. SumFunction(f) \in Nat /\ SumFunction(f) >= f[i]
  BY <1>1, SegmentsAreFinite, SumIsNat
<1>. QED  BY <1>2, <1>3, <1>4, <1>5

LEMMA StartIsNat == ASSUME NEW i PROVE StartOf(i) \in Nat
<1>. DEFINE before == {k \in Segments : k < i}
            f == [j \in before |-> Length(j)]
<1>1. f \in [before -> Nat]
  BY SegmentsAreFinite, LengthIsNat
<1>2. before \in SUBSET Segments
  OBVIOUS
<1>3. IsFiniteSet(before)
  BY <1>2, SegmentsAreFinite, FS_Subset
<1>4. StartOf(i) = SumFunction(f)
  BY DEF StartOf
<1>. HIDE DEF f, before
<1>. QED  BY <1>1, <1>3, <1>4, SumIsNat

(* Neighbours lie on a line along an axis, so there is a heading.           *)
LEMMA HeadingIsTyped ==
  ASSUME NEW i \in Segments
  PROVE  HeadingOf(i) \in 0..3
<1>. DEFINE a == Waypoints[i]
            b == Waypoints[Next_(i)]
            dx == b.x - a.x
            dy == b.y - a.y
<1>0. i \in DOMAIN Waypoints
  BY SegmentsAreFinite
<1>1. a.x \in Int /\ a.y \in Int /\ b.x \in Int /\ b.y \in Int
  BY <1>0, WaypointIsPoint
<1>2. /\ Max({b.x - a.x, a.x - b.x}) \in {b.x - a.x, a.x - b.x}
      /\ Max({b.x - a.x, a.x - b.x}) >= b.x - a.x /\ Max({b.x - a.x, a.x - b.x}) >= a.x - b.x
  <2>. HIDE DEF a, b
  <2>1. b.x - a.x \in Int /\ a.x - b.x \in Int
    BY <1>1
  <2>. QED  BY <2>1, MaxOfTwo
<1>3. /\ Max({b.y - a.y, a.y - b.y}) \in {b.y - a.y, a.y - b.y}
      /\ Max({b.y - a.y, a.y - b.y}) >= b.y - a.y /\ Max({b.y - a.y, a.y - b.y}) >= a.y - b.y
  <2>. HIDE DEF a, b
  <2>1. b.y - a.y \in Int /\ a.y - b.y \in Int
    BY <1>1
  <2>. QED  BY <2>1, MaxOfTwo
<1>4. Length(i) = Max({b.x - a.x, a.x - b.x}) + Max({b.y - a.y, a.y - b.y})
  BY DEF Length
<1>5. b.x = a.x \/ b.y = a.y
  BY <1>0, WaypointsAlongAxes
<1>. DEFINE Fits(h) == b.x = a.x + Length(i) * Cos(h) /\ b.y = a.y + Length(i) * Sin(h)
<1>6. Length(i) \in Nat
  BY <1>0, LengthIsNat
<1>7. \E h \in 0..3 : Fits(h)
  <2>. HIDE DEF a, b
  <2>1. CASE b.y = a.y /\ b.x >= a.x
    <3>1. Length(i) = b.x - a.x
      BY <1>1, <1>2, <1>3, <1>4, <2>1
    <3>2. Fits(0)
      BY <1>1, <2>1, <3>1, DirectionIsTyped
    <3>. QED  BY <3>2
  <2>2. CASE b.y = a.y /\ b.x < a.x
    <3>1. Length(i) = a.x - b.x
      BY <1>1, <1>2, <1>3, <1>4, <2>2
    <3>2. Fits(2)
      BY <1>1, <2>2, <3>1, DirectionIsTyped
    <3>. QED  BY <3>2
  <2>3. CASE b.x = a.x /\ b.y >= a.y
    <3>1. Length(i) = b.y - a.y
      BY <1>1, <1>2, <1>3, <1>4, <2>3
    <3>2. Fits(1)
      BY <1>1, <2>3, <3>1, DirectionIsTyped
    <3>. QED  BY <3>2
  <2>4. CASE b.x = a.x /\ b.y < a.y
    <3>1. Length(i) = a.y - b.y
      BY <1>1, <1>2, <1>3, <1>4, <2>4
    <3>2. Fits(3)
      BY <1>1, <2>4, <3>1, DirectionIsTyped
    <3>. QED  BY <3>2
  <2>. QED  BY <1>1, <1>5, <2>1, <2>2, <2>3, <2>4
<1>8. HeadingOf(i) = CHOOSE h \in 0..3 : Fits(h)
  BY DEF HeadingOf
<1>. HIDE DEF Fits
<1>. QED  BY <1>7, <1>8

LEMMA ClampIsTyped ==
  ASSUME NEW v \in Int, NEW lo \in Int, NEW hi \in Int
  PROVE  /\ Clamp(v, lo, hi) \in Int
         /\ lo <= hi => Clamp(v, lo, hi) \in lo..hi
BY DEF Clamp

LEMMA PlaceIsTyped ==
  ASSUME NEW i \in Segments, NEW p \in [x : Int, y : Int]
  PROVE  /\ ProjectOnto(i, p).i = i /\ ProjectOnto(i, p).s \in Int
         /\ ProjectOnto(i, p).dist2 \in Nat /\ ProjectOnto(i, p).heading \in Int
<1>. DEFINE seg == Track[i]
            along == (p.x - seg.a.x) * seg.cos + (p.y - seg.a.y) * seg.sin
            u == Clamp(along, 0, seg.len)
            ex == p.x - (seg.a.x + u * seg.cos)
            ey == p.y - (seg.a.y + u * seg.sin)
<1>1. i \in DOMAIN Waypoints
  BY SegmentsAreFinite
<1>2. seg.a.x \in Int /\ seg.a.y \in Int
  BY <1>1, WaypointIsPoint DEF Track
<1>3. seg.len \in Int /\ seg.start \in Int /\ seg.heading \in Int
  <2>1. seg.len = Length(i) /\ seg.start = StartOf(i) /\ seg.heading = HeadingOf(i)
    BY DEF Track
  <2>. QED  BY <1>1, <2>1, LengthIsNat, StartIsNat, HeadingIsTyped
<1>4. seg.cos \in Int /\ seg.sin \in Int
  <2>1. seg.cos = Cos(HeadingOf(i)) /\ seg.sin = Sin(HeadingOf(i))
    BY DEF Track
  <2>2. HeadingOf(i) \in Int
    BY HeadingIsTyped
  <2>. QED  BY <2>1, <2>2, DirectionIsTyped
<1>. HIDE DEF seg
<1>5. along \in Int
  BY <1>2, <1>4
<1>. HIDE DEF along
<1>6. u \in Int
  BY <1>3, <1>5 DEF Clamp
<1>. HIDE DEF u
<1>7. ex \in Int /\ ey \in Int
  BY <1>2, <1>4, <1>6
<1>8. ProjectOnto(i, p) = [i |-> i, s |-> seg.start + u, heading |-> seg.heading,
                           dist2 |-> ex * ex + ey * ey]
  BY DEF ProjectOnto, seg, along, u
<1>. HIDE DEF ex, ey
<1>9. ex * ex >= 0 /\ ey * ey >= 0 /\ ex * ex \in Int /\ ey * ey \in Int
  BY <1>7
<1>. QED  BY <1>3, <1>6, <1>8, <1>9

(* There is a first of the nearest segments.                                *)
LEMMA ProjectIsNearest ==
  ASSUME NEW p \in [x : Int, y : Int]
  PROVE  \E i \in Segments :
           /\ Project(p) = ProjectOnto(i, p)
           /\ \A j \in Segments : ProjectOnto(i, p).dist2 <= ProjectOnto(j, p).dist2
<1>. DEFINE all == {ProjectOnto(i, p) : i \in Segments}
            dists == {ProjectOnto(i, p).dist2 : i \in Segments}
            First(q) == \A r \in all : q.dist2 < r.dist2 \/ (q.dist2 = r.dist2 /\ q.i <= r.i)
<1>1. PICK d \in dists : \A e \in dists : d <= e
  <2>1. dists \subseteq Nat /\ dists # {}
    BY PlaceIsTyped, SegmentsAreFinite
  <2>. HIDE DEF dists
  <2>. QED  BY <2>1, LeastElement
<1>. DEFINE nearest == {i \in Segments : ProjectOnto(i, p).dist2 = d}
<1>2. PICK i \in nearest : \A j \in nearest : i <= j
  <2>1. nearest \subseteq Nat /\ nearest # {}
    BY <1>1, SegmentsAreFinite
  <2>. HIDE DEF nearest
  <2>. QED  BY <2>1, LeastElement
<1>3. ASSUME NEW j \in Segments
      PROVE  \/ ProjectOnto(i, p).dist2 < ProjectOnto(j, p).dist2
             \/ /\ ProjectOnto(i, p).dist2 = ProjectOnto(j, p).dist2
                /\ ProjectOnto(i, p).i <= ProjectOnto(j, p).i
  <2>1. ProjectOnto(i, p).dist2 = d /\ i \in Segments
    BY <1>2
  <2>2. ProjectOnto(j, p).dist2 \in dists /\ d <= ProjectOnto(j, p).dist2
    BY <1>1
  <2>3. ProjectOnto(j, p).dist2 \in Nat /\ d \in Nat
    BY <2>1, PlaceIsTyped
  <2>4. ProjectOnto(i, p).i = i /\ ProjectOnto(j, p).i = j
    BY <2>1, PlaceIsTyped
  <2>5. ProjectOnto(j, p).dist2 = d => i <= j
    BY <1>2
  <2>. QED  BY <2>1, <2>2, <2>3, <2>4, <2>5
<1>4. ProjectOnto(i, p) \in all /\ First(ProjectOnto(i, p))
  BY <1>2, <1>3
<1>5. Project(p) = CHOOSE q \in all : First(q)
  BY DEF Project
<1>6. Project(p) \in all /\ First(Project(p))
  <2>. HIDE DEF First, all
  <2>. QED  BY <1>4, <1>5
<1>7. PICK k \in Segments : Project(p) = ProjectOnto(k, p)
  BY <1>6
<1>8. ASSUME NEW j \in Segments
      PROVE  ProjectOnto(k, p).dist2 <= ProjectOnto(j, p).dist2
  <2>1. ProjectOnto(k, p).dist2 \in Nat /\ ProjectOnto(j, p).dist2 \in Nat
    BY PlaceIsTyped
  <2>2. ProjectOnto(j, p) \in all
    OBVIOUS
  <2>3. \/ ProjectOnto(k, p).dist2 < ProjectOnto(j, p).dist2
        \/ ProjectOnto(k, p).dist2 = ProjectOnto(j, p).dist2
    BY <1>6, <1>7, <2>2
  <2>. QED  BY <2>1, <2>3
<1>. QED  BY <1>7, <1>8

LEMMA ProjectIsTyped ==
  ASSUME NEW p \in [x : Int, y : Int]
  PROVE  /\ Project(p).s \in Int /\ Project(p).heading \in Int
         /\ Project(p).dist2 \in Nat
BY ProjectIsNearest, PlaceIsTyped

-----------------------------------------------------------------------------
(* The vehicle                                                              *)

Cars == [x : Int, y : Int, yaw : Int, v : Nat, rate : Int]
Cmds == [steer : Int, throttle : Int]

LEMMA QuotientIsTyped ==
  ASSUME NEW v \in Int, NEW d \in Nat \ {0}
  PROVE  Quotient(v, d) \in Int
<1>1. Abs(v) \in Nat /\ Sign(v) \in {-1, 1}
  BY DEF Abs, Sign
<1>2. Abs(v) \div d \in Int
  BY <1>1
<1>3. Sign(v) * (Abs(v) \div d) \in Int
  BY <1>1, <1>2
<1>. QED  BY <1>3 DEF Quotient

LEMMA MovedIsTyped ==
  ASSUME NEW c \in Cars, NEW rate \in Int, NEW v \in Nat
  PROVE  Moved(c, rate, v) \in Cars
<1>1. c.x \in Int /\ c.y \in Int /\ c.yaw \in Int /\ c.v \in Int
  BY DEF Cars
<1>2. Cos(c.yaw) \in Int /\ Sin(c.yaw) \in Int
  BY <1>1, DirectionIsTyped
<1>3. (c.yaw + rate) % 4 \in Int
  BY <1>1
<1>4. c.v * Cos(c.yaw) * Cell \in Int /\ c.v * Sin(c.yaw) * Cell \in Int
  BY <1>1, <1>2, VehicleIsTyped
<1>. QED  BY <1>1, <1>3, <1>4 DEF Moved, Cars

LEMMA KinematicYawRateIsTyped ==
  ASSUME NEW v \in Int, NEW steer \in Int
  PROVE  KinematicYawRate(v, steer) \in Int
<1>1. Max({v, 0}) \in Nat
  BY MaxWithNumber
<1>2. Max({v, 0}) * steer \in Int
  BY <1>1
<1>. QED  BY <1>2, QuotientIsTyped, VehicleIsTyped DEF KinematicYawRate

LEMMA KinematicStepIsTyped ==
  ASSUME NEW c \in Cars, NEW cmd \in Cmds
  PROVE  KinematicStep(c, cmd) \in Cars
<1>. DEFINE throttle == Clamp(cmd.throttle, -FullThrottle, FullThrottle)
            wanted == throttle * MotorGain - DragK * c.v * Abs(c.v)
            accel == Clamp(wanted, -AccelMax, AccelMax)
<1>1. c.v \in Int /\ cmd.throttle \in Int /\ cmd.steer \in Int
  BY DEF Cars, Cmds
<1>2. throttle \in Int
  BY <1>1, VehicleIsTyped DEF Clamp
<1>. HIDE DEF throttle
<1>3. Abs(c.v) \in Int
  BY <1>1 DEF Abs
<1>4. wanted \in Int
  BY <1>1, <1>2, <1>3, VehicleIsTyped
<1>. HIDE DEF wanted
<1>5. accel \in Int
  BY <1>4, VehicleIsTyped DEF Clamp
<1>. HIDE DEF accel
<1>6. c.v + accel \in Int
  BY <1>1, <1>5
<1>7. Max({c.v + accel, 0}) \in Nat
  BY <1>6, MaxWithNumber
<1>8. KinematicYawRate(c.v, cmd.steer) \in Int
  BY <1>1, KinematicYawRateIsTyped
<1>9. KinematicStep(c, cmd) = Moved(c, KinematicYawRate(c.v, cmd.steer), Max({c.v + accel, 0}))
  BY DEF KinematicStep, accel, wanted, throttle
<1>. QED  BY <1>7, <1>8, <1>9, MovedIsTyped

(* The groups of an identified model's parameters                           *)
LEMMA ParamsAreTyped ==
  ASSUME NEW vehicle, IsModel(vehicle)
  PROVE  /\ FromParamsWithBase(vehicle.params).servo \in ServoParams
         /\ FromParamsWithBase(vehicle.params).low_speed \in LowSpeedParams
BY VehicleIsTyped DEF IsModel, FromParamsWithBase

LEMMA ServoIsTyped ==
  ASSUME NEW servo \in ServoParams, NEW actual \in Int, NEW target \in Int
  PROVE  UpdateServo(servo, actual, target) \in Int
<1>. DEFINE error == target - actual
            effective == IF Abs(error) <= servo.backlash THEN 0
                         ELSE error - servo.backlash * Sign(error)
            wanted == IF servo.gain = 0 THEN effective ELSE effective * servo.gain
            delta == Clamp(wanted, -servo.limit, servo.limit)
<1>1. servo.backlash \in Int /\ servo.gain \in Int /\ servo.limit \in Int
  BY DEF ServoParams
<1>2. error \in Int
  OBVIOUS
<1>. HIDE DEF error
<1>3. effective \in Int
  BY <1>1, <1>2 DEF Sign
<1>. HIDE DEF effective
<1>4. wanted \in Int
  BY <1>1, <1>3
<1>. HIDE DEF wanted
<1>5. delta \in Int
  BY <1>1, <1>4 DEF Clamp
<1>. HIDE DEF delta
<1>6. UpdateServo(servo, actual, target)
        = actual + IF effective # 0 /\ Abs(delta) > Abs(effective) THEN effective ELSE delta
  BY DEF UpdateServo, delta, wanted, effective, error
<1>. QED  BY <1>3, <1>5, <1>6

LEMMA StableYawRateIsTyped ==
  ASSUME NEW low \in LowSpeedParams, NEW v \in Int, NEW steer \in Int, NEW forced \in Int
  PROVE  StableYawRate(low, v, steer, forced) \in Int
<1>. DEFINE span == Max({low.end - low.start, 1})
            weight == Clamp(v - low.start, 0, span)
            kinematic == KinematicYawRate(v, steer)
            limit == Abs(kinematic) * Max({low.margin, 1})
            blend == Quotient(kinematic * (span - weight) + forced * weight, span)
<1>1. low.start \in Int /\ low.end \in Int /\ low.margin \in Int
  BY DEF LowSpeedParams
<1>2. span \in Nat \ {0}
  <2>1. low.end - low.start \in Int
    BY <1>1
  <2>. QED  BY <2>1, MaxWithNumber
<1>. HIDE DEF span
<1>3. weight \in Int
  BY <1>1, <1>2 DEF Clamp
<1>. HIDE DEF weight
<1>4. kinematic \in Int
  BY KinematicYawRateIsTyped
<1>. HIDE DEF kinematic
<1>5. limit \in Int
  <2>1. Max({low.margin, 1}) \in Nat \ {0}
    BY <1>1, MaxWithNumber
  <2>. QED  BY <1>4, <2>1 DEF Abs
<1>. HIDE DEF limit
<1>6. blend \in Int
  <2>1. kinematic * (span - weight) + forced * weight \in Int
    BY <1>2, <1>3, <1>4
  <2>. QED  BY <1>2, <2>1, QuotientIsTyped
<1>. HIDE DEF blend
<1>7. StableYawRate(low, v, steer, forced) = IF limit > 0 THEN Clamp(blend, -limit, limit) ELSE 0
  BY DEF StableYawRate, blend, limit, kinematic, weight, span
<1>. QED  BY <1>5, <1>6, <1>7 DEF Clamp

LEMMA DynamicStepIsTyped ==
  ASSUME NEW params, params.low_speed \in LowSpeedParams, NEW c \in Cars,
         NEW input, input.steer \in Int, NEW force \in Forces(c, input)
  PROVE  DynamicStep(params, c, input, force) \in Cars
<1>1. c.v \in Int
  BY DEF Cars
<1>2. force.v \in Int /\ force.rate \in Int
  <2>1. PICK dv \in SpeedChanges, r \in ForcedYawRates : force = [v |-> c.v + dv, rate |-> r]
    BY DEF Forces
  <2>2. dv \in Int /\ r \in Int
    BY VehicleIsTyped
  <2>. QED  BY <1>1, <2>1, <2>2
<1>3. Max({force.v, 0}) \in Nat
  BY <1>2, MaxWithNumber
<1>4. StableYawRate(params.low_speed, c.v, input.steer, force.rate) \in Int
  BY <1>1, <1>2, StableYawRateIsTyped
<1>. QED  BY <1>3, <1>4, MovedIsTyped DEF DynamicStep

-----------------------------------------------------------------------------
(* An episode                                                               *)

Entries == [cmd : Cmds, at : Int]
ScoreType == [ticks : Nat, best : Nat, laps : Nat, speed : Nat, off : Nat, rates : Nat,
              last : Seq(Cmds), unavailable : Nat, finish : Seq(Nat), crashed : BOOLEAN]
Results == [cost : Nat, finish : Seq(Nat), laps : Nat, crashed : BOOLEAN, ticks : Nat]

(* The process keeps the world, the model and the latency of its job.       *)
WorldIsJobs ==
  /\ job \in Jobs
  /\ model = job.model /\ latency = job.latency /\ start = job.start

SourceTyped ==
  /\ car \in Cars /\ memory.steer \in Int
  /\ cell \in Cmds /\ applied \in Cmds /\ queue \in Seq(Entries)
  /\ simUs \in Nat
ProgressTyped ==
  /\ progress.unwrapped \in Int
  /\ progress.last # << >> => progress.last[1] \in Int
EpisodeTyped == SourceTyped /\ ProgressTyped /\ score \in ScoreType

LEMMA NeutralIsTyped == Neutral \in Cmds
BY DEF Neutral, Cmds

LEMMA InitEpisodeTyped == Init => WorldIsJobs /\ EpisodeTyped
<1>. SUFFICES ASSUME Init PROVE WorldIsJobs /\ EpisodeTyped
  OBVIOUS
<1>1. WorldIsJobs
  BY DEF Init, SourceInit, WorldIsJobs
<1>2. start.x \in Int /\ start.y \in Int /\ start.yaw \in Int
  BY <1>1, JobsAssumption DEF WorldIsJobs
<1>3. car \in Cars
  BY <1>2 DEF Init, SourceInit, AtStart, Cars
<1>4. memory.steer \in Int /\ simUs \in Nat
  BY DEF Init, SourceInit, AtRest
<1>5. cell \in Cmds /\ applied \in Cmds /\ queue \in Seq(Entries)
  BY NeutralIsTyped DEF Init, SourceInit
<1>6. ProgressTyped
  BY DEF Init, SourceInit, NoProgress, ProgressTyped
<1>7. score \in ScoreType
  BY DEF Init, SourceInit, NoScore, ScoreType
<1>. QED  BY <1>1, <1>3, <1>4, <1>5, <1>6, <1>7 DEF EpisodeTyped, SourceTyped

LEMMA NewEpisodeIsTyped ==
  ASSUME WorldIsJobs, NewEpisode
  PROVE  EpisodeTyped'
<1>1. start.x \in Int /\ start.y \in Int /\ start.yaw \in Int
  BY JobsAssumption DEF WorldIsJobs
<1>2. car' \in Cars
  BY <1>1 DEF NewEpisode, AtStart, Cars
<1>3. memory'.steer \in Int /\ simUs' \in Nat
  BY DEF NewEpisode, AtRest
<1>4. cell' \in Cmds /\ applied' \in Cmds /\ queue' \in Seq(Entries)
  BY NeutralIsTyped DEF NewEpisode
<1>5. ProgressTyped'
  BY DEF NewEpisode, NoProgress, ProgressTyped
<1>6. score' \in ScoreType
  BY DEF NewEpisode, NoScore, ScoreType
<1>. QED  BY <1>2, <1>3, <1>4, <1>5, <1>6 DEF EpisodeTyped, SourceTyped

(* The latency buffer                                                       *)
LEMMA PollIsTyped ==
  ASSUME WorldIsJobs, SourceTyped, PollDue
  PROVE  queue' \in Seq(Entries) /\ applied' \in Cmds
<1>. DEFINE q == Append(queue, [cmd |-> cell, at |-> simUs + latency])
            due == Due(q, simUs)
<1>1. q \in Seq(Entries)
  <2>1. latency \in Int
    BY JobsAssumption DEF WorldIsJobs
  <2>2. [cmd |-> cell, at |-> simUs + latency] \in Entries
    BY <2>1 DEF SourceTyped, Entries
  <2>. QED  BY <2>2 DEF SourceTyped
<1>2. Len(q) \in Nat /\ DOMAIN q = 1..Len(q)
  BY <1>1
<1>. HIDE DEF q
<1>3. due \subseteq 1..Len(q)
  BY <1>2 DEF Due
<1>4. queue' = SubSeq(q, Max(due \cup {0}) + 1, Len(q))
  BY DEF PollDue, q
<1>5. applied' = IF due = {} THEN applied ELSE q[Max(due)].cmd
  BY DEF PollDue, q
<1>. HIDE DEF due
<1>6. Max(due \cup {0}) \in 0..Len(q)
  <2>1. due \cup {0} \subseteq 0..Len(q) /\ due \cup {0} # {}
    BY <1>2, <1>3
  <2>2. Max(due \cup {0}) \in due \cup {0}
    BY <1>2, <2>1, GreatestElement
  <2>. QED  BY <2>1, <2>2
<1>7. queue' \in Seq(Entries)
  <2>1. PICK m \in 0..Len(q) : m = Max(due \cup {0})
    BY <1>6
  <2>2. \A i \in m + 1 .. Len(q) : q[i] \in Entries
    BY <1>1, <1>2, <2>1
  <2>3. m + 1 \in Int /\ Len(q) \in Int
    BY <1>2, <2>1
  <2>4. SubSeq(q, m + 1, Len(q)) \in Seq(Entries)
    BY <1>1, <1>2, <2>1, <2>2, <2>3, SubSeqProperties
  <2>. QED  BY <1>4, <2>1, <2>4
<1>8. CASE due = {}
  BY <1>5, <1>7, <1>8 DEF SourceTyped
<1>9. CASE due # {}
  <2>1. due \subseteq 0..Len(q)
    BY <1>2, <1>3
  <2>2. Max(due) \in due
    BY <1>2, <1>9, <2>1, GreatestElement
  <2>3. q[Max(due)] \in Entries
    <3>1. PICK k \in 1..Len(q) : k = Max(due)
      BY <1>3, <2>2
    <3>. HIDE DEF Entries
    <3>. QED  BY <1>1, <3>1
  <2>4. q[Max(due)].cmd \in Cmds
    BY <2>3 DEF Entries
  <2>. QED  BY <1>5, <1>7, <1>9, <2>4
<1>. QED  BY <1>8, <1>9

LEMMA DriveIsTyped ==
  ASSUME WorldIsJobs, SourceTyped, applied' \in Cmds, Drive
  PROVE  car' \in Cars /\ memory'.steer \in Int
<1>1. CASE model.kind = "kinematic"
  <2>1. car' = KinematicStep(car, applied') /\ memory' = memory
    BY <1>1 DEF Drive
  <2>2. car' \in Cars
    BY <2>1, KinematicStepIsTyped DEF SourceTyped
  <2>. QED  BY <2>1, <2>2 DEF SourceTyped
<1>2. CASE model.kind # "kinematic"
  <2>. DEFINE params == FromParamsWithBase(model.params)
              input == UpdateActuators(params, memory, applied')
  <2>1. memory' = input /\ \E f \in Forces(car, input) : car' = DynamicStep(params, car, input, f)
    BY <1>2 DEF Drive
  <2>2. IsModel(model)
    BY JobsAssumption DEF WorldIsJobs
  <2>3. params.servo \in ServoParams /\ params.low_speed \in LowSpeedParams
    BY <2>2, ParamsAreTyped
  <2>. HIDE DEF params
  <2>4. applied'.steer \in Int /\ memory.steer \in Int
    BY DEF Cmds, SourceTyped
  <2>5. UpdateServo(params.servo, memory.steer, applied'.steer) \in Int
    BY <2>3, <2>4, ServoIsTyped
  <2>6. input.steer \in Int
    BY <2>5 DEF UpdateActuators
  <2>. HIDE DEF input
  <2>7. car' \in Cars
    BY <2>1, <2>3, <2>6, DynamicStepIsTyped DEF SourceTyped
  <2>. QED  BY <2>1, <2>6, <2>7
<1>. QED  BY <1>1, <1>2

LEMMA AdvanceIsTyped ==
  ASSUME ProgressTyped, NEW place, place.s \in Int, progress' = Advance(progress, place)
  PROVE  ProgressTyped'
<1>1. progress'.last = <<place.s>> /\ progress'.last[1] \in Int
  BY DEF Advance
<1>2. progress'.unwrapped = IF progress.last = << >> THEN progress.unwrapped
                            ELSE progress.unwrapped + Unwrap(place.s - progress.last[1])
  BY DEF Advance
<1>3. ASSUME NEW delta \in Int PROVE Unwrap(delta) \in Int
  BY TrackHasLength DEF Unwrap
<1>4. CASE progress.last = << >>
  BY <1>1, <1>2, <1>4 DEF ProgressTyped
<1>5. CASE progress.last # << >>
  <2>1. place.s - progress.last[1] \in Int
    BY <1>5 DEF ProgressTyped
  <2>2. Unwrap(place.s - progress.last[1]) \in Int
    BY <1>3, <2>1
  <2>. QED  BY <1>1, <1>2, <1>5, <2>2 DEF ProgressTyped
<1>. QED  BY <1>4, <1>5

(* A square of a number is a natural number, and a weighted sum of two of   *)
(* them is one.                                                             *)
LEMMA SquaresAreNat ==
  ASSUME NEW k \in Nat, NEW l \in Nat, NEW m \in Int, NEW n \in Int
  PROVE  /\ Square(m) \in Nat
         /\ k * Square(m) + l * Square(n) \in Nat
<1>1. ASSUME NEW i \in Int PROVE Square(i) \in Nat
  <2>1. i * i \in Int /\ i * i >= 0
    OBVIOUS
  <2>. QED  BY <2>1 DEF Square
<1>2. PICK a \in Nat, b \in Nat : a = Square(m) /\ b = Square(n)
  BY <1>1
<1>3. k * a + l * b \in Nat
  OBVIOUS
<1>. QED  BY <1>1, <1>2, <1>3

LEMMA RoughnessIsNat ==
  ASSUME car' \in Cars, score \in ScoreType,
         NEW cmd, cmd.steer \in Int, cmd.throttle \in Int,
         NEW place, place.dist2 \in Nat, place.heading \in Int
  PROVE  Off(place) \in Nat /\ Change(cmd) \in Nat
<1>1. /\ Weights.lateral \in Nat /\ Weights.heading \in Nat
      /\ Weights.steering \in Nat /\ Weights.throttle \in Nat
  BY EpisodeBounds
<1>2. Off(place) \in Nat
  <2>1. PICK h \in Int : h = HeadingError(car'.yaw, place)
    BY DEF HeadingError, Cars
  <2>2. Square(h) \in Nat
    BY SquaresAreNat
  <2>3. PICK a \in Nat, b \in Nat : /\ a = Weights.lateral * place.dist2
                                    /\ b = Weights.heading * Square(h)
    BY <1>1, <2>2
  <2>. QED  BY <2>1, <2>3 DEF Off
<1>3. Change(cmd) \in Nat
  <2>1. CASE score.last = << >>
    BY <2>1 DEF Change
  <2>2. CASE score.last # << >>
    <3>1. score.last \in Seq(Cmds)
      BY DEF ScoreType
    <3>2. score.last[1] \in Cmds
      <4>. HIDE DEF Cmds
      <4>1. Len(score.last) \in Nat /\ Len(score.last) # 0
        BY <2>2, <3>1
      <4>. QED  BY <3>1, <4>1
    <3>3. PICK m \in Int, n \in Int : /\ m = cmd.steer - score.last[1].steer
                                      /\ n = cmd.throttle - score.last[1].throttle
      BY <3>2 DEF Cmds
    <3>4. Weights.steering * Square(m) + Weights.throttle * Square(n) \in Nat
      BY <1>1, SquaresAreNat
    <3>. QED  BY <2>2, <3>3, <3>4 DEF Change
  <2>. QED  BY <2>1, <2>2
<1>. QED  BY <1>2, <1>3

LEMMA AccumulateIsTyped ==
  ASSUME ProgressTyped', car' \in Cars, simUs' \in Nat, score \in ScoreType,
         NEW cmd, cmd.steer \in Int, cmd.throttle \in Int,
         NEW place, place.dist2 \in Nat, place.heading \in Int, Accumulate(cmd, place)
  PROVE  score' \in ScoreType
<1>. DEFINE furthest == Max({score.best, progress'.unwrapped, 0})
            speed == score.speed + Max({car'.v, 0})
            finish == IF progress'.unwrapped >= Required THEN <<simUs'>> ELSE << >>
<1>1. score.best \in Int /\ score.speed \in Nat /\ score.ticks \in Nat
        /\ score.off \in Nat /\ score.rates \in Nat
        /\ score.unavailable \in Nat /\ score.crashed \in BOOLEAN
  BY DEF ScoreType
<1>2. progress'.unwrapped \in Int /\ car'.v \in Int
  BY DEF ProgressTyped, Cars
<1>3. furthest \in Nat
  <2>1. 0 \in Int
    OBVIOUS
  <2>2. furthest \in Int /\ furthest >= 0
    BY <1>1, <1>2, <2>1, MaxOfThree
  <2>. QED  BY <2>2
<1>4. speed \in Nat
  <2>1. Max({car'.v, 0}) \in Nat
    BY <1>2, MaxWithNumber
  <2>. QED  BY <1>1, <2>1
<1>5. Lap(progress') \in Nat
  <2>1. Max({progress'.unwrapped, 0}) \in Nat
    BY <1>2, MaxWithNumber
  <2>. QED  BY <2>1, TrackHasLength DEF Lap
<1>6. finish \in Seq(Nat)
  OBVIOUS
<1>. HIDE DEF furthest, speed, finish
<1>7. PICK off \in Nat, change \in Nat : off = Off(place) /\ change = Change(cmd)
  BY RoughnessIsNat
<1>8. PICK last \in Seq(Cmds) : last = <<[steer |-> cmd.steer, throttle |-> cmd.throttle]>>
  <2>1. [steer |-> cmd.steer, throttle |-> cmd.throttle] \in Cmds
    BY DEF Cmds
  <2>2. <<[steer |-> cmd.steer, throttle |-> cmd.throttle]>> \in Seq(Cmds)
    <3>. HIDE DEF Cmds
    <3>. QED  BY <2>1
  <2>. QED  BY <2>2
<1>9. score' = [score EXCEPT
        !.ticks = @ + 1, !.best = furthest, !.laps = Lap(progress'), !.speed = speed,
        !.off = @ + off, !.rates = @ + change, !.last = last,
        !.unavailable = @ + IF cmd.available THEN 0 ELSE 1, !.finish = finish]
  BY <1>7, <1>8 DEF Accumulate, furthest, speed, finish
<1>10. /\ score.ticks + 1 \in Nat /\ score.off + off \in Nat /\ score.rates + change \in Nat
       /\ score.unavailable + (IF cmd.available THEN 0 ELSE 1) \in Nat
  <2>1. score.ticks + 1 \in Nat /\ score.unavailable + (IF cmd.available THEN 0 ELSE 1) \in Nat
    <3>1. PICK t \in Nat, u \in Nat : t = score.ticks /\ u = score.unavailable
      BY <1>1
    <3>2. t + 1 \in Nat /\ u + 0 \in Nat /\ u + 1 \in Nat
      OBVIOUS
    <3>. QED  BY <3>1, <3>2, Zenon
  <2>2. PICK o \in Nat, r \in Nat, d \in Nat, e \in Nat :
          o = score.off /\ r = score.rates /\ d = off /\ e = change
    BY <1>1, <1>7
  <2>3. o + d \in Nat /\ r + e \in Nat
    OBVIOUS
  <2>. QED  BY <2>1, <2>2, <2>3
<1>11. score' = [ticks |-> score.ticks + 1, best |-> furthest, laps |-> Lap(progress'),
                 speed |-> speed, off |-> score.off + off, rates |-> score.rates + change,
                 last |-> last,
                 unavailable |-> score.unavailable + (IF cmd.available THEN 0 ELSE 1),
                 finish |-> finish, crashed |-> score.crashed]
  BY <1>9 DEF ScoreType
<1>. QED  BY <1>1, <1>3, <1>4, <1>5, <1>6, <1>10, <1>11 DEF ScoreType

LEMMA TickIsTyped ==
  ASSUME WorldIsJobs, EpisodeTyped, Tick
  PROVE  EpisodeTyped'
<1>1. queue' \in Seq(Entries) /\ applied' \in Cmds
  BY PollIsTyped DEF Tick, EpisodeTyped
<1>2. car' \in Cars /\ memory'.steer \in Int
  BY <1>1, DriveIsTyped DEF Tick, EpisodeTyped
<1>3. simUs' \in Nat
  BY EpisodeBounds DEF Tick, EpisodeTyped, SourceTyped
<1>4. CASE exhausted'
  <2>1. score' = [score EXCEPT !.crashed = TRUE] /\ UNCHANGED <<cell, progress>>
    BY <1>4 DEF Tick
  <2>2. score' \in ScoreType
    BY <2>1 DEF EpisodeTyped, ScoreType
  <2>3. ProgressTyped'
    BY <2>1 DEF EpisodeTyped, ProgressTyped
  <2>. QED  BY <1>1, <1>2, <1>3, <2>1, <2>2, <2>3 DEF EpisodeTyped, SourceTyped
<1>5. CASE ~ exhausted'
  <2>. DEFINE place == Project(Point(car'.x, car'.y))
  <2>1. PICK cmd \in Commands : Apply(cmd) /\ Accumulate(cmd, place)
    BY <1>5 DEF Tick
  <2>2. progress' = Advance(progress, place)
    BY <1>5 DEF Tick
  <2>3. place.s \in Int /\ place.heading \in Int /\ place.dist2 \in Nat
    <3>1. Point(car'.x, car'.y) \in [x : Int, y : Int]
      BY <1>2 DEF Point, Cars
    <3>. QED  BY <3>1, ProjectIsTyped
  <2>. HIDE DEF place
  <2>4. ProgressTyped'
    BY <2>2, <2>3, AdvanceIsTyped DEF EpisodeTyped
  <2>5. score' \in ScoreType
    <3>1. cmd.steer \in Int /\ cmd.throttle \in Int
      BY CommandsAreNumbers
    <3>. QED  BY <1>2, <1>3, <2>1, <2>3, <2>4, <3>1, AccumulateIsTyped DEF EpisodeTyped
  <2>6. cell' \in Cmds
    <3>1. cmd.steer \in Int /\ cmd.throttle \in Int
      BY CommandsAreNumbers
    <3>2. Clamp(cmd.throttle, -FullThrottle, FullThrottle) \in Int
      BY <3>1, VehicleIsTyped DEF Clamp
    <3>. QED  BY <2>1, <3>1, <3>2 DEF Apply, Cmds
  <2>. QED  BY <1>1, <1>2, <1>3, <2>4, <2>5, <2>6 DEF EpisodeTyped, SourceTyped
<1>. QED  BY <1>4, <1>5

-----------------------------------------------------------------------------
(* Scores                                                                   *)

LEMMA RequiredIsPositive == Required \in Nat \ {0}
<1>1. TargetLaps \in Nat \ {0} /\ TrackLength \in Nat \ {0}
  BY EpisodeBounds, TrackHasLength
<1>2. TargetLaps * TrackLength \in Nat \ {0}
  BY <1>1
<1>. QED  BY <1>2 DEF Required

(* A quotient of natural numbers is one.                                    *)
LEMMA DivIsNat ==
  ASSUME NEW a \in Nat, NEW b \in Nat \ {0}
  PROVE  a \div b \in Nat
OBVIOUS

LEMMA FinishedCostIsNat ==
  ASSUME NEW s \in ScoreType, s.ticks # 0, s.finish # << >>
  PROVE  FinishedCost(s) \in Nat
<1>1. /\ s.ticks \in Nat \ {0} /\ s.off \in Nat /\ s.rates \in Nat
      /\ s.unavailable \in Nat /\ s.finish \in Seq(Nat)
  BY DEF ScoreType
<1>2. s.finish[1] \in Nat
  <2>1. Len(s.finish) \in Nat /\ Len(s.finish) # 0
    BY <1>1
  <2>. QED  BY <1>1, <2>1
<1>3. TickUs * Required \in Nat \ {0}
  BY RequiredIsPositive, EpisodeBounds
<1>4. 100 * s.finish[1] * TargetSpeed * Cell \in Nat
  <2>1. 100 * s.finish[1] \in Nat
    BY <1>2
  <2>2. TargetSpeed \in Nat /\ Cell \in Nat
    BY EpisodeBounds, VehicleIsTyped
  <2>3. 100 * s.finish[1] * TargetSpeed \in Nat
    BY <2>1, <2>2
  <2>. QED  BY <2>2, <2>3
<1>5. 1000 * s.unavailable \in Nat
  BY <1>1
<1>. DEFINE slow == (100 * s.finish[1] * TargetSpeed * Cell) \div (TickUs * Required)
            off == s.off \div s.ticks
            jerky == s.rates \div Max({s.ticks - 1, 1})
            left == (1000 * s.unavailable) \div s.ticks
<1>6. FinishedCost(s) = slow + off + jerky + left
  BY DEF FinishedCost
<1>7. slow \in Nat
  BY <1>3, <1>4, DivIsNat
<1>8. off \in Nat /\ jerky \in Nat /\ left \in Nat
  <2>1. PICK ticks \in Nat \ {0} : ticks = s.ticks
    BY <1>1
  <2>2. PICK changes \in Nat \ {0} : changes = Max({s.ticks - 1, 1})
    <3>1. s.ticks - 1 \in Int /\ 1 \in Int
      BY <1>1
    <3>2. Max({s.ticks - 1, 1}) \in Int /\ Max({s.ticks - 1, 1}) >= 1
      BY <3>1, MaxOfTwo
    <3>. QED  BY <3>2
  <2>3. PICK o \in Nat, r \in Nat, u \in Nat :
          o = s.off /\ r = s.rates /\ u = 1000 * s.unavailable
    BY <1>1, <1>5
  <2>4. o \div ticks \in Nat /\ r \div changes \in Nat /\ u \div ticks \in Nat
    BY DivIsNat
  <2>5. off = o \div ticks
    BY <2>1, <2>3
  <2>6. jerky = r \div changes
    BY <2>2, <2>3
  <2>7. left = u \div ticks
    BY <2>1, <2>3
  <2>. HIDE DEF off, jerky, left
  <2>. QED  BY <2>4, <2>5, <2>6, <2>7
<1>. HIDE DEF slow, off, jerky, left
<1>. QED  BY <1>6, <1>7, <1>8

(* A failure costs at least the band of failures.                           *)
LEMMA FailedCostIsNat ==
  ASSUME NEW s \in ScoreType, s.ticks # 0
  PROVE  FailedCost(s) \in Nat /\ FailedCost(s) >= FailedBand
<1>. DEFINE missing == 100 - Ratio(s)
            slow == Max({MinAvgSpeed * s.ticks - s.speed, 0})
<1>1. s.ticks \in Nat \ {0} /\ s.best \in Nat /\ s.speed \in Nat /\ s.unavailable \in Nat
  BY DEF ScoreType
<1>2. missing \in Nat
  <2>1. 100 * s.best \in Nat
    BY <1>1
  <2>2. (100 * s.best) \div Required \in Nat
    BY <2>1, RequiredIsPositive, DivIsNat
  <2>3. Ratio(s) \in 0..100
    BY <2>2 DEF Ratio, Clamp
  <2>. QED  BY <2>3
<1>. HIDE DEF missing
<1>3. 5 * Square(missing) \in Nat
  <2>1. missing * missing \in Nat
    BY <1>2
  <2>. QED  BY <2>1 DEF Square
<1>4. MinAvgSpeed * s.ticks \in Nat \ {0}
  BY <1>1, EpisodeBounds
<1>5. slow \in Nat
  <2>1. MinAvgSpeed * s.ticks - s.speed \in Int
    BY <1>1, <1>4
  <2>. QED  BY <2>1, MaxWithNumber
<1>. HIDE DEF slow
<1>6. (5000 * slow) \div (MinAvgSpeed * s.ticks) \in Nat
  <2>1. 5000 * slow \in Nat
    BY <1>5
  <2>. QED  BY <1>4, <2>1, DivIsNat
<1>7. (1000 * s.unavailable) \div s.ticks \in Nat
  <2>1. 1000 * s.unavailable \in Nat
    BY <1>1
  <2>. QED  BY <1>1, <2>1, DivIsNat
<1>8. FailedCost(s) = FailedBand + 5 * Square(missing) + (IF s.crashed THEN 10000 ELSE 0)
                        + (5000 * slow) \div (MinAvgSpeed * s.ticks)
                        + (1000 * s.unavailable) \div s.ticks
  BY DEF FailedCost, missing, slow
<1>9. FailedBand \in Nat /\ (IF s.crashed THEN 10000 ELSE 0) \in Nat
  BY DEF FailedBand
<1>. QED  BY <1>3, <1>6, <1>7, <1>8, <1>9

LEMMA FinishIsTyped ==
  ASSUME NEW s \in ScoreType
  PROVE  Finish(s) \in Results
<1>1. s.ticks \in Nat /\ s.finish \in Seq(Nat) /\ s.laps \in Nat /\ s.crashed \in BOOLEAN
  BY DEF ScoreType
<1>2. Finish(s).cost \in Nat
  <2>1. CASE s.ticks = 0
    BY <2>1 DEF Finish, InvalidCost
  <2>2. CASE s.ticks # 0 /\ s.finish # << >>
    BY <2>2, FinishedCostIsNat DEF Finish
  <2>3. CASE s.ticks # 0 /\ s.finish = << >>
    BY <2>3, FailedCostIsNat DEF Finish
  <2>. QED  BY <2>1, <2>2, <2>3
<1>3. Finish(s) = [cost |-> Finish(s).cost, finish |-> s.finish, laps |-> s.laps,
                   crashed |-> s.crashed, ticks |-> s.ticks]
  BY DEF Finish
<1>. QED  BY <1>1, <1>2, <1>3 DEF Results

(* The cost of several episodes: their mean, and a part of the distance of  *)
(* the dearest, i, and the cheapest, j.                                     *)
LEMMA CostOfSeveral ==
  ASSUME NEW several \in Seq(Results), several # << >>, NEW weight \in Int
  PROVE  \E total \in Nat : \E i, j \in DOMAIN several :
           /\ Aggregate(several, weight).cost
                = total \div Len(several)
                    + weight * ((several[i].cost - several[j].cost) \div 2)
           /\ several[j].cost <= several[i].cost
           /\ \A k \in DOMAIN several : several[k].cost <= total
           /\ \A m \in Nat : (\A k \in DOMAIN several : several[k].cost <= m)
                               => total <= m * Len(several)
<1>. DEFINE cost == [i \in DOMAIN several |-> several[i].cost]
            costs == {several[i].cost : i \in DOMAIN several}
            total == SumFunction(cost)
<1>1. Len(several) \in Nat \ {0} /\ DOMAIN several = 1..Len(several)
  OBVIOUS
<1>2. IsFiniteSet(DOMAIN several) /\ Cardinality(DOMAIN several) = Len(several)
  BY <1>1, FS_Interval
<1>3. \A i \in DOMAIN several : several[i].cost \in Nat
  <2>1. TAKE i \in DOMAIN several
  <2>2. several[i] \in Results
    <3>. HIDE DEF Results
    <3>. QED  BY <1>1, <2>1
  <2>. QED  BY <2>2 DEF Results
<1>4. cost \in [DOMAIN several -> Nat] /\ \A i \in DOMAIN several : cost[i] = several[i].cost
  BY <1>3
<1>5. /\ total \in Nat /\ \A i \in DOMAIN several : total >= cost[i]
      /\ \A m \in Nat : (\A i \in DOMAIN several : cost[i] <= m)
                          => total <= m * Cardinality(DOMAIN several)
  <2>. HIDE DEF cost
  <2>. QED  BY <1>2, <1>4, SumIsNat
<1>6. Aggregate(several, weight).cost
        = total \div Len(several) + weight * ((Max(costs) - Min(costs)) \div 2)
  BY DEF Aggregate, total, cost, costs
<1>. HIDE DEF cost, total
<1>7. costs \subseteq 0..total /\ costs # {}
  <2>1. \A i \in DOMAIN several : several[i].cost \in 0..total
    <3>1. TAKE i \in DOMAIN several
    <3>2. several[i].cost \in Nat /\ several[i].cost <= total
      BY <1>3, <1>4, <1>5
    <3>. QED  BY <1>5, <3>2
  <2>2. 1 \in DOMAIN several
    BY <1>1
  <2>. QED  BY <2>1, <2>2
<1>8. PICK i \in DOMAIN several : Max(costs) = several[i].cost
  <2>1. Max(costs) \in costs
    <3>. HIDE DEF costs
    <3>. QED  BY <1>5, <1>7, GreatestElement
  <2>. QED  BY <2>1
<1>9. PICK j \in DOMAIN several :
        Min(costs) = several[j].cost /\ several[j].cost <= several[i].cost
  <2>1. costs \subseteq Nat
    BY <1>3
  <2>2. \E x \in costs : \A y \in costs : x <= y
    <3>. HIDE DEF costs
    <3>. QED  BY <1>7, <2>1, LeastElement
  <2>3. Min(costs) \in costs /\ \A y \in costs : Min(costs) <= y
    <3>. HIDE DEF costs
    <3>. QED  BY <2>2 DEF Min
  <2>. QED  BY <2>3
<1>. HIDE DEF costs
<1>10. \A k \in DOMAIN several : several[k].cost <= total
  BY <1>3, <1>4, <1>5
<1>11. ASSUME NEW m \in Nat, \A k \in DOMAIN several : several[k].cost <= m
       PROVE  total <= m * Len(several)
  BY <1>2, <1>4, <1>5, <1>11
<1>. QED  BY <1>5, <1>6, <1>8, <1>9, <1>10, <1>11

LEMMA VerdictIsTyped ==
  ASSUME NEW several \in Seq(Results), NEW weight \in Int
  PROVE  Aggregate(several, weight).cost \in Int
<1>1. CASE several = << >>
  BY <1>1 DEF Aggregate, InvalidCost
<1>2. CASE several # << >>
  <2>1. PICK total \in Nat, i \in DOMAIN several, j \in DOMAIN several :
          Aggregate(several, weight).cost
            = total \div Len(several) + weight * ((several[i].cost - several[j].cost) \div 2)
    BY <1>2, CostOfSeveral
  <2>2. Len(several) \in Nat \ {0} /\ several[i] \in Results /\ several[j] \in Results
    <3>. HIDE DEF Results
    <3>. QED  BY <1>2
  <2>3. (several[i].cost - several[j].cost) \div 2 \in Int
    BY <2>2 DEF Results
  <2>4. total \div Len(several) \in Nat
    BY <2>2, DivIsNat
  <2>5. weight * ((several[i].cost - several[j].cost) \div 2) \in Int
    BY <2>3
  <2>. QED  BY <2>1, <2>4, <2>5
<1>. QED  BY <1>1, <1>2

-----------------------------------------------------------------------------
(* The inductive invariant                                                  *)

(* OnlyTheSpaceIsTuned, of a given job                                      *)
TunedFor(j, written) ==
  /\ \E tuned \in IF j.kind = "cma" THEN {j.space}
                  ELSE {DOMAIN params : params \in j.candidates} :
       \A k \in DOMAIN Defaults \ {MapperKey} :
         IF k \in tuned THEN written[k] \in Params[k].lo .. Params[k].hi
         ELSE written[k] = Said(j.file, k)
  /\ written[MapperKey] = 0

TypeOK == WorldIsJobs /\ EpisodeTyped /\ scores \in Seq(Results) /\ tried \in Nat

(* What is driven or judged is valid and a member of the search space.      *)
DrivenIsValid ==
  stage \in {"episode", "replay", "judge"} =>
    /\ job.kind # "dump" /\ (job.source = "sim" <=> stage # "replay")
    /\ ValidateRuntimeConfig(config) /\ TunedFor(job, config)

(* A cost below the invalid one was given to a valid configuration.         *)
JudgedAreTuned ==
  \A j \in judged :
    /\ j.cost \in Int /\ TunedFor(job, j.config)
    /\ j.cost < InvalidCost => ValidateRuntimeConfig(j.config)

(* overall_best is the cheapest individual so far, and is there as soon as  *)
(* there is one.                                                            *)
BestIsCheapest ==
  IF best = << >> THEN judged = {} /\ tried = 0
  ELSE /\ [config |-> best[1].config, cost |-> best[1].cost] \in judged
       /\ \A j \in judged : best[1].cost <= j.cost

(* sim_best is the cheapest verdict so far; individuals that it does not    *)
(* know were not driven.                                                    *)
SimBestIsCheapest ==
  /\ simBest # << >> => /\ job.source = "sim" /\ simBest[1].cost \in Int
                        /\ \E j \in judged : j.cost = simBest[1].cost
  /\ \A j \in judged : job.source = "sim" /\ j.cost < InvalidCost =>
       simBest # << >> /\ simBest[1].cost <= j.cost

IInv == /\ TypeOK /\ DrivenIsValid /\ JudgedAreTuned /\ BestIsCheapest
        /\ SimBestIsCheapest /\ BestOfTheSpaceIsWritten

-----------------------------------------------------------------------------
(* Configurations                                                           *)

(* A clamped value is in its range.                                         *)
LEMMA ClampSpecIsInRange ==
  ASSUME NEW spec, IsRange(spec), NEW raw \in Int
  PROVE  ClampSpec(spec, raw) \in spec.lo .. spec.hi
<1>1. Round(raw) \in Int
  BY DEF Round, Quotient, Sign, Abs
<1>2. ASSUME NEW v \in Int PROVE Clamp(v, spec.lo, spec.hi) \in spec.lo .. spec.hi
  BY DEF Clamp, IsRange
<1>. QED  BY <1>1, <1>2 DEF ClampSpec

(* What is read of a file has a number for every key, the one that it says. *)
LEMMA FileIsRead ==
  ASSUME NEW j \in Jobs
  PROVE  /\ DOMAIN LoadRuntimeConfig(j.file) = DOMAIN Defaults
         /\ \A k \in DOMAIN Defaults : /\ LoadRuntimeConfig(j.file)[k] = Said(j.file, k)
                                       /\ Said(j.file, k) \in Int
<1>. DEFINE file == j.file
            merged == Overlaid(Defaults, file.algo)
            control == Compat(file.control)
<1>1. /\ \A k \in DOMAIN Defaults : Defaults[k] \in Int
      /\ \A c \in ControlKeys : CompatDefaults[c] \in Int
  BY SpaceAssumption DEF IsNumbers, ControlKeys
<1>2. IsFile(file)
  BY JobsAssumption
<1>. HIDE DEF file
<1>3. /\ \A a \in DOMAIN file.algo : file.algo[a] \in Int
      /\ \A c \in DOMAIN file.control : file.control[c] \in Int
  BY <1>2 DEF IsFile, IsNumbers
<1>4. /\ DOMAIN merged = DOMAIN Defaults
      /\ \A k \in DOMAIN Defaults :
           merged[k] = IF k \in DOMAIN file.algo THEN file.algo[k] ELSE Defaults[k]
  BY DEF Overlaid
<1>5. /\ DOMAIN control = ControlKeys
      /\ \A c \in ControlKeys :
           control[c] = IF c \in DOMAIN file.control THEN file.control[c] ELSE CompatDefaults[c]
  BY DEF Compat, Overlaid, ControlKeys
<1>6. RuntimeFromCar(file) = Overlaid(merged, control)
  BY DEF RuntimeFromCar
<1>. HIDE DEF merged, control
<1>7. /\ DOMAIN RuntimeFromCar(file) = DOMAIN Defaults
      /\ \A k \in DOMAIN Defaults :
           RuntimeFromCar(file)[k] = IF k \in ControlKeys THEN control[k] ELSE merged[k]
  BY <1>4, <1>5, <1>6 DEF Overlaid
<1>8. LoadRuntimeConfig(file) = IF file.kind = "car" THEN RuntimeFromCar(file)
                                ELSE IF file.kind = "runtime" THEN merged ELSE Defaults
  BY DEF LoadRuntimeConfig, merged
<1>9. DOMAIN LoadRuntimeConfig(file) = DOMAIN Defaults
  BY <1>4, <1>7, <1>8
<1>10. ASSUME NEW k \in DOMAIN Defaults
       PROVE  LoadRuntimeConfig(file)[k] = Said(file, k) /\ Said(file, k) \in Int
  <2>1. CASE file.kind = "car"
    BY <1>1, <1>3, <1>4, <1>5, <1>7, <1>8, <2>1 DEF Said
  <2>2. CASE file.kind = "runtime"
    BY <1>1, <1>3, <1>4, <1>8, <2>2 DEF Said
  <2>3. CASE file.kind \notin {"car", "runtime"}
    BY <1>1, <1>8, <2>3 DEF Said
  <2>. QED  BY <2>1, <2>2, <2>3
<1>. QED  BY <1>9, <1>10 DEF file

LEMMA BaseIsRead ==
  ASSUME job \in Jobs
  PROVE  /\ DOMAIN BaseConfig = DOMAIN Defaults
         /\ BaseConfig[MapperKey] = 0
         /\ \A k \in DOMAIN Defaults \ {MapperKey} :
              BaseConfig[k] = Said(job.file, k) /\ BaseConfig[k] \in Int
<1>. DEFINE file == LoadRuntimeConfig(job.file)
<1>1. /\ DOMAIN file = DOMAIN Defaults
      /\ \A k \in DOMAIN Defaults : file[k] = Said(job.file, k) /\ file[k] \in Int
  BY FileIsRead
<1>2. BaseConfig = [file EXCEPT ![MapperKey] = 0]
  BY DEF BaseConfig
<1>3. MapperKey \in DOMAIN Defaults
  BY SpaceAssumption
<1>. HIDE DEF file
<1>. QED  BY <1>1, <1>2, <1>3

(* Applying a candidate changes the keys it names, and nothing else.        *)
LEMMA AppliesNamedKeys ==
  ASSUME NEW base, NEW params, IsNumbers(params), NEW k \in DOMAIN base,
         DOMAIN params \subseteq Keys
  PROVE  LET written == ApplyToRuntimeConfig(base, params)
         IN IF k \in DOMAIN params THEN written[k] \in Params[k].lo .. Params[k].hi
            ELSE written[k] = base[k]
<1>. DEFINE written == ApplyToRuntimeConfig(base, params)
<1>1. written[k] = IF k \in DOMAIN params THEN ClampSpec(Params[k], params[k]) ELSE base[k]
  BY DEF ApplyToRuntimeConfig
<1>2. CASE k \in DOMAIN params
  <2>1. params[k] \in Int /\ IsRange(Params[k])
    BY <1>2, SpaceAssumption DEF IsNumbers
  <2>2. ClampSpec(Params[k], params[k]) \in Params[k].lo .. Params[k].hi
    BY <2>1, ClampSpecIsInRange
  <2>. QED  BY <1>1, <1>2, <2>2
<1>3. CASE k \notin DOMAIN params
  BY <1>1, <1>3
<1>. QED  BY <1>2, <1>3

(* A dumped range holds the values dumped with it.                          *)
LEMMA EntryIsInRange ==
  ASSUME job \in Jobs, NEW k \in Keys
  PROVE  {Entry(k).default, Entry(k).current} \subseteq Entry(k).low .. Entry(k).high
<1>. DEFINE range == IF k \in DOMAIN Overrides THEN Overrides[k] ELSE Params[k]
            spec == [kind |-> Params[k].kind, lo |-> range.lo, hi |-> range.hi]
<1>1. IsRange(range) /\ Params[k].default \in Int
  BY SpaceAssumption
<1>2. BaseConfig[k] \in Int
  BY BaseIsRead, SpaceAssumption
<1>. HIDE DEF range
<1>3. IsRange(spec) /\ spec.lo = range.lo /\ spec.hi = range.hi
  BY <1>1 DEF IsRange
<1>4. Entry(k).low = range.lo /\ Entry(k).high = range.hi
        /\ Entry(k).default = ClampSpec(spec, Params[k].default)
        /\ Entry(k).current = ClampSpec(spec, BaseConfig[k])
  BY DEF Entry, range
<1>. HIDE DEF spec
<1>5. ClampSpec(spec, Params[k].default) \in spec.lo .. spec.hi
        /\ ClampSpec(spec, BaseConfig[k]) \in spec.lo .. spec.hi
  BY <1>1, <1>2, <1>3, ClampSpecIsInRange
<1>. QED  BY <1>3, <1>4, <1>5

LEMMA TunedForItsJob ==
  ASSUME NEW written
  PROVE  OnlyTheSpaceIsTuned(written) <=> TunedFor(job, written)
BY DEF OnlyTheSpaceIsTuned, TunedFor

(* An individual of CMA-ES or the candidate, whatever it says               *)
LEMMA EvaluatedIsTuned ==
  ASSUME job \in Jobs, NEW params, DOMAIN params \subseteq Keys,
         \/ job.kind = "cma" /\ params \in [job.space -> RawValues]
         \/ job.kind = "candidate" /\ params \in job.candidates
  PROVE  TunedFor(job, ApplyToRuntimeConfig(BaseConfig, params))
<1>. DEFINE written == ApplyToRuntimeConfig(BaseConfig, params)
<1>1. IsNumbers(params)
  <2>1. CASE job.kind = "cma" /\ params \in [job.space -> RawValues]
    <3>1. \A k \in DOMAIN params : params[k] \in RawValues
      BY <2>1
    <3>. QED  BY <3>1, SpaceAssumption DEF IsNumbers
  <2>2. CASE job.kind = "candidate" /\ params \in job.candidates
    BY <2>2, JobsAssumption
  <2>. QED  BY <2>1, <2>2
<1>2. /\ \A k \in DOMAIN Defaults \ {MapperKey} :
           IF k \in DOMAIN params THEN written[k] \in Params[k].lo .. Params[k].hi
           ELSE written[k] = Said(job.file, k)
      /\ written[MapperKey] = 0
  <2>1. /\ DOMAIN BaseConfig = DOMAIN Defaults /\ BaseConfig[MapperKey] = 0
        /\ \A k \in DOMAIN Defaults \ {MapperKey} : BaseConfig[k] = Said(job.file, k)
    BY BaseIsRead
  <2>2. ASSUME NEW k \in DOMAIN Defaults
        PROVE  IF k \in DOMAIN params THEN written[k] \in Params[k].lo .. Params[k].hi
               ELSE written[k] = BaseConfig[k]
    BY <1>1, <2>1, AppliesNamedKeys
  <2>. HIDE DEF written
  <2>3. MapperKey \in DOMAIN Defaults /\ MapperKey \notin DOMAIN params
    BY SpaceAssumption
  <2>. QED  BY <2>1, <2>2, <2>3
<1>3. DOMAIN params \in IF job.kind = "cma" THEN {job.space}
                        ELSE {DOMAIN p : p \in job.candidates}
  OBVIOUS
<1>. HIDE DEF written
<1>4. TunedFor(job, written)
  BY <1>2, <1>3 DEF TunedFor
<1>. QED  BY <1>4 DEF written

-----------------------------------------------------------------------------
(* Steps                                                                    *)

LEMMA EpisodeStays ==
  ASSUME WorldIsJobs, EpisodeTyped, UNCHANGED <<episode, job>>
  PROVE  WorldIsJobs' /\ EpisodeTyped'
BY DEF WorldIsJobs, EpisodeTyped, SourceTyped, ProgressTyped, episode, world, source

(* An individual is judged: the books and the best of them                  *)
LEMMA ReturnIsBooked ==
  ASSUME JudgedAreTuned, BestIsCheapest, tried \in Nat, UNCHANGED job,
         NEW cost \in Int, Return(cost),
         TunedFor(job, config'), cost < InvalidCost => ValidateRuntimeConfig(config')
  PROVE  JudgedAreTuned' /\ BestIsCheapest' /\ tried' \in Nat
<1>. DEFINE new == [config |-> config', cost |-> cost]
<1>1. judged' = judged \cup {new} /\ tried' = tried + 1
  BY DEF Return
<1>2. best' = IF best = << >> \/ cost < best[1].cost THEN <<new>> ELSE best
  BY DEF Return, Remember
<1>3. new.config = config' /\ new.cost = cost
  OBVIOUS
<1>. HIDE DEF new
<1>4. JudgedAreTuned'
  <2>1. ASSUME NEW j \in judged'
        PROVE  /\ j.cost \in Int /\ TunedFor(job, j.config)
               /\ j.cost < InvalidCost => ValidateRuntimeConfig(j.config)
    <3>1. CASE j \in judged
      BY <3>1 DEF JudgedAreTuned
    <3>2. CASE j = new
      BY <1>3, <3>2
    <3>. QED  BY <1>1, <2>1, <3>1, <3>2
  <2>. QED  BY <2>1 DEF JudgedAreTuned
<1>5. BestIsCheapest'
  <2>1. \A j \in judged : j.cost \in Int
    BY DEF JudgedAreTuned
  <2>2. CASE best = << >> \/ cost < best[1].cost
    <3>1. best' = <<new>> /\ best'[1] = new /\ best' # << >>
      BY <1>2, <2>2
    <3>2. [config |-> new.config, cost |-> new.cost] = new
      BY DEF new
    <3>3. ASSUME NEW j \in judged' PROVE new.cost <= j.cost
      <4>1. CASE j \in judged
        <5>1. best # << >> /\ cost < best[1].cost /\ best[1].cost <= j.cost
                /\ [config |-> best[1].config, cost |-> best[1].cost] \in judged
          BY <2>2, <4>1 DEF BestIsCheapest
        <5>2. best[1].cost \in Int
          BY <2>1, <5>1
        <5>. QED  BY <1>3, <2>1, <4>1, <5>1, <5>2
      <4>2. CASE j = new
        BY <1>3, <4>2
      <4>. QED  BY <1>1, <3>3, <4>1, <4>2
    <3>. QED  BY <1>1, <3>1, <3>2, <3>3 DEF BestIsCheapest
  <2>3. CASE best # << >> /\ ~ (cost < best[1].cost)
    <3>1. best' = best /\ best' # << >>
      BY <1>2, <2>3
    <3>2. [config |-> best[1].config, cost |-> best[1].cost] \in judged
            /\ \A j \in judged : best[1].cost <= j.cost
      BY <2>3 DEF BestIsCheapest
    <3>3. best[1].cost <= new.cost
      <4>1. best[1].cost \in Int
        BY <2>1, <3>2
      <4>. QED  BY <1>3, <2>3, <4>1
    <3>. QED  BY <1>1, <3>1, <3>2, <3>3 DEF BestIsCheapest
  <2>. QED  BY <2>2, <2>3
<1>. QED  BY <1>1, <1>4, <1>5

(* What was not driven by the simulator leaves sim_best the cheapest.       *)
LEMMA SimBestStays ==
  ASSUME SimBestIsCheapest, UNCHANGED <<job, simBest>>, judged \subseteq judged',
         \A j \in judged' \ judged : job.source = "sim" => ~ (j.cost < InvalidCost)
  PROVE  SimBestIsCheapest'
BY DEF SimBestIsCheapest

LEMMA BooksStay ==
  ASSUME JudgedAreTuned, BestIsCheapest, SimBestIsCheapest, tried \in Nat,
         UNCHANGED <<job, simBest, best, tried, judged>>
  PROVE  JudgedAreTuned' /\ BestIsCheapest' /\ SimBestIsCheapest' /\ tried' \in Nat
BY DEF JudgedAreTuned, BestIsCheapest, SimBestIsCheapest

(* A candidate is applied, and an episode begins unless it is invalid.      *)
LEMMA EvaluateIsSafe ==
  ASSUME IInv, stage = "next", UNCHANGED <<job, simBest>>,
         NEW params, DOMAIN params \subseteq Keys, Evaluate(params),
         \/ job.kind = "cma" /\ params \in [job.space -> RawValues]
         \/ job.kind = "candidate" /\ params \in job.candidates
  PROVE  IInv'
<1>. USE DEF IInv, TypeOK
<1>1. job \in Jobs
  BY DEF WorldIsJobs
<1>2. config' = ApplyToRuntimeConfig(BaseConfig, params) /\ scores' = << >>
  BY DEF Evaluate
<1>3. TunedFor(job, config')
  BY <1>1, <1>2, EvaluatedIsTuned
<1>4. scores' \in Seq(Results)
  BY <1>2
<1>5. CASE /\ job.kind = "cma" /\ Return(ErrorCost) /\ stage' = "next"
           /\ UNCHANGED episode
  <2>1. WorldIsJobs' /\ EpisodeTyped'
    BY <1>5, EpisodeStays
  <2>2. ErrorCost \in Int /\ ~ (ErrorCost < InvalidCost)
    BY DEF ErrorCost, InvalidCost
  <2>3. JudgedAreTuned' /\ BestIsCheapest' /\ tried' \in Nat
    BY <1>3, <1>5, <2>2, ReturnIsBooked
  <2>4. SimBestIsCheapest'
    <3>1. judged' = judged \cup {[config |-> config', cost |-> ErrorCost]}
      BY <1>5 DEF Return
    <3>2. \A j \in judged' \ judged : ~ (j.cost < InvalidCost)
      BY <2>2, <3>1
    <3>. QED  BY <3>1, <3>2, SimBestStays
  <2>5. DrivenIsValid' /\ BestOfTheSpaceIsWritten'
    BY <1>5 DEF DrivenIsValid, BestOfTheSpaceIsWritten
  <2>. QED  BY <1>4, <2>1, <2>3, <2>4, <2>5
<1>6. CASE /\ job.kind = "candidate" /\ UNCHANGED <<episode, best, tried, judged>>
           /\ \/ stage' = "failed"
              \/ /\ stage' = "done"
                 /\ out' = <<[status |-> "invalid", config |-> config', cost |-> InvalidCost]>>
  <2>1. WorldIsJobs' /\ EpisodeTyped'
    BY <1>6, EpisodeStays
  <2>2. JudgedAreTuned' /\ BestIsCheapest' /\ SimBestIsCheapest' /\ tried' \in Nat
    BY <1>6, BooksStay
  <2>3. DrivenIsValid'
    BY <1>6 DEF DrivenIsValid
  <2>4. BestOfTheSpaceIsWritten'
    <3>1. CASE stage' = "failed"
      BY <3>1 DEF BestOfTheSpaceIsWritten
    <3>2. CASE out' = <<[status |-> "invalid", config |-> config', cost |-> InvalidCost]>>
      <4>1. out'[1].config = config'
        BY <3>2
      <4>2. TunedFor(job', out'[1].config)
        BY <1>3, <4>1
      <4>3. OnlyTheSpaceIsTuned(out[1].config)'
        BY <4>2, TunedForItsJob DEF OnlyTheSpaceIsTuned, TunedFor
      <4>. QED  BY <1>6, <4>3 DEF BestOfTheSpaceIsWritten
    <3>. QED  BY <1>6, <3>1, <3>2
  <2>. QED  BY <1>4, <2>1, <2>2, <2>3, <2>4
<1>7. CASE /\ ValidateRuntimeConfig(config')
           /\ stage' = IF job.source = "sim" THEN "episode" ELSE "replay"
           /\ NewEpisode /\ UNCHANGED <<world, best, tried, judged, out>>
  <2>1. WorldIsJobs'
    BY <1>7 DEF WorldIsJobs, world
  <2>2. EpisodeTyped'
    BY <1>7, NewEpisodeIsTyped
  <2>3. JudgedAreTuned' /\ BestIsCheapest' /\ SimBestIsCheapest' /\ tried' \in Nat
    BY <1>7, BooksStay
  <2>4. DrivenIsValid'
    BY <1>3, <1>7 DEF DrivenIsValid
  <2>5. BestOfTheSpaceIsWritten'
    BY <1>7 DEF BestOfTheSpaceIsWritten
  <2>. QED  BY <1>4, <2>1, <2>2, <2>3, <2>4, <2>5
<1>. HIDE DEF IInv, TypeOK
<1>. QED  BY <1>5, <1>6, <1>7 DEF Evaluate

LEMMA InitIsSafe == Init => IInv
<1>. SUFFICES ASSUME Init PROVE IInv
  OBVIOUS
<1>1. TypeOK
  BY InitEpisodeTyped DEF Init, TypeOK
<1>2. DrivenIsValid /\ BestOfTheSpaceIsWritten
  BY DEF Init, DrivenIsValid, BestOfTheSpaceIsWritten
<1>3. JudgedAreTuned /\ BestIsCheapest /\ SimBestIsCheapest
  BY DEF Init, JudgedAreTuned, BestIsCheapest, SimBestIsCheapest
<1>. QED  BY <1>1, <1>2, <1>3 DEF IInv

LEMMA SampleIsSafe == IInv /\ Sample => IInv'
<1>. SUFFICES ASSUME IInv, Sample PROVE IInv'
  OBVIOUS
<1>1. PICK params \in [job.space -> RawValues] : Evaluate(params)
  BY DEF Sample
<1>2. job \in Jobs
  BY DEF IInv, TypeOK, WorldIsJobs
<1>3. DOMAIN params \subseteq Keys
  BY <1>2, JobsAssumption
<1>. QED  BY <1>1, <1>3, EvaluateIsSafe DEF Sample

LEMMA ReadCandidateIsSafe == IInv /\ ReadCandidate => IInv'
<1>. SUFFICES ASSUME IInv, ReadCandidate PROVE IInv'
  OBVIOUS
<1>1. PICK params \in job.candidates :
        IF Applies(params) THEN Evaluate(params)
        ELSE stage' = "failed"
             /\ UNCHANGED <<episode, config, scores, best, tried, judged, out>>
  BY DEF ReadCandidate
<1>2. CASE Applies(params)
  BY <1>1, <1>2, EvaluateIsSafe DEF ReadCandidate, Applies
<1>3. CASE ~ Applies(params)
  <2>1. stage' = "failed" /\ scores' = scores
          /\ UNCHANGED <<episode, job, simBest, best, tried, judged>>
    BY <1>1, <1>3 DEF ReadCandidate
  <2>2. TypeOK'
    BY <2>1, EpisodeStays DEF IInv, TypeOK
  <2>3. JudgedAreTuned' /\ BestIsCheapest' /\ SimBestIsCheapest'
    BY <2>1, BooksStay DEF IInv, TypeOK
  <2>4. DrivenIsValid' /\ BestOfTheSpaceIsWritten'
    BY <2>1 DEF DrivenIsValid, BestOfTheSpaceIsWritten
  <2>. QED  BY <2>2, <2>3, <2>4 DEF IInv
<1>. QED  BY <1>2, <1>3

LEMMA DumpIsSafe == IInv /\ DumpSearchSpace => IInv'
<1>. SUFFICES ASSUME IInv, DumpSearchSpace PROVE IInv'
  OBVIOUS
<1>1. stage' = "done" /\ scores' = scores
        /\ UNCHANGED <<episode, job, simBest, best, tried, judged>>
  BY DEF DumpSearchSpace
<1>2. TypeOK'
  BY <1>1, EpisodeStays DEF IInv, TypeOK
<1>3. JudgedAreTuned' /\ BestIsCheapest' /\ SimBestIsCheapest'
  BY <1>1, BooksStay DEF IInv, TypeOK
<1>4. DrivenIsValid'
  BY <1>1 DEF DrivenIsValid
<1>5. BestOfTheSpaceIsWritten'
  <2>1. job' = job /\ job.kind = "dump" /\ job \in Jobs /\ job.space \subseteq Keys
    BY JobsAssumption DEF DumpSearchSpace, IInv, TypeOK, WorldIsJobs
  <2>2. out'[1].entries = {Entry(k) : k \in job.space}
    BY DEF DumpSearchSpace
  <2>3. ASSUME NEW e \in out'[1].entries
        PROVE  {e.default, e.current} \subseteq e.low .. e.high
    BY <2>1, <2>2, EntryIsInRange
  <2>. QED  BY <1>1, <2>1, <2>3 DEF BestOfTheSpaceIsWritten
<1>. QED  BY <1>2, <1>3, <1>4, <1>5 DEF IInv

LEMMA DrivesIsSafe == IInv /\ Drives => IInv'
<1>. SUFFICES ASSUME IInv, Drives PROVE IInv'
  OBVIOUS
<1>1. Tick /\ stage = "episode"
        /\ UNCHANGED <<job, stage, config, scores, simBest, best, tried, judged, out>>
  BY DEF Drives
<1>2. EpisodeTyped'
  BY <1>1, TickIsTyped DEF IInv, TypeOK
<1>3. WorldIsJobs'
  BY <1>1 DEF Tick, IInv, TypeOK, WorldIsJobs, world
<1>4. JudgedAreTuned' /\ BestIsCheapest' /\ SimBestIsCheapest' /\ tried' \in Nat
  BY <1>1, BooksStay DEF IInv, TypeOK
<1>5. DrivenIsValid' /\ BestOfTheSpaceIsWritten'
  BY <1>1 DEF IInv, DrivenIsValid, BestOfTheSpaceIsWritten
<1>. QED  BY <1>1, <1>2, <1>3, <1>4, <1>5 DEF IInv, TypeOK

LEMMA EndEpisodeIsSafe == IInv /\ EndEpisode => IInv'
<1>. SUFFICES ASSUME IInv, EndEpisode PROVE IInv'
  OBVIOUS
<1>1. stage = "episode" /\ stage' \in {"episode", "judge"} /\ NewEpisode
        /\ UNCHANGED <<world, job, config, simBest, best, tried, judged, out>>
  BY DEF EndEpisode
<1>2. scores' \in Seq(Results)
  <2>1. Finish(score) \in Results
    BY FinishIsTyped DEF IInv, TypeOK, EpisodeTyped
  <2>2. scores \in Seq(Results)
    BY DEF IInv, TypeOK
  <2>. HIDE DEF Results
  <2>. QED  BY <2>1, <2>2 DEF EndEpisode
<1>3. EpisodeTyped'
  BY <1>1, NewEpisodeIsTyped DEF IInv, TypeOK
<1>4. WorldIsJobs'
  BY <1>1 DEF IInv, TypeOK, WorldIsJobs, world
<1>5. JudgedAreTuned' /\ BestIsCheapest' /\ SimBestIsCheapest' /\ tried' \in Nat
  BY <1>1, BooksStay DEF IInv, TypeOK
<1>6. DrivenIsValid'
  BY <1>1 DEF IInv, DrivenIsValid
<1>7. BestOfTheSpaceIsWritten'
  BY <1>1 DEF BestOfTheSpaceIsWritten
<1>. QED  BY <1>2, <1>3, <1>4, <1>5, <1>6, <1>7 DEF IInv, TypeOK

(* A candidate's score is written with the configuration it was given.      *)
LEMMA CandidateIsTuned ==
  ASSUME job.kind \notin {"cma", "dump"}, UNCHANGED job,
         TunedFor(job, config), out'[1].config = config
  PROVE  BestOfTheSpaceIsWritten'
<1>1. TunedFor(job', out'[1].config)
  OBVIOUS
<1>2. OnlyTheSpaceIsTuned(out[1].config)'
  BY <1>1 DEF OnlyTheSpaceIsTuned, TunedFor
<1>. QED  BY <1>2 DEF BestOfTheSpaceIsWritten

LEMMA JudgeSimIsSafe == IInv /\ JudgeSim => IInv'
<1>. SUFFICES ASSUME IInv, JudgeSim PROVE IInv'
  OBVIOUS
<1>1. stage = "judge" /\ UNCHANGED <<episode, job, scores>>
  BY DEF JudgeSim
<1>2. WorldIsJobs' /\ EpisodeTyped' /\ scores' \in Seq(Results)
  BY <1>1, EpisodeStays DEF IInv, TypeOK
<1>3. /\ job.kind # "dump" /\ job.source = "sim"
      /\ ValidateRuntimeConfig(config) /\ TunedFor(job, config)
  BY <1>1 DEF IInv, DrivenIsValid
<1>4. Verdict.cost \in Int
  <2>1. job.weight \in Int
    BY JobsAssumption DEF IInv, TypeOK, WorldIsJobs
  <2>. QED  BY <2>1, VerdictIsTyped DEF Verdict, IInv, TypeOK
<1>5. CASE job.kind = "cma"
  <2>1. /\ simBest' = IF simBest = << >> \/ Verdict.cost < simBest[1].cost
                      THEN <<Verdict>> ELSE simBest
        /\ config' = config /\ Return(Verdict.cost) /\ stage' = "next"
    BY <1>5 DEF JudgeSim
  <2>2. JudgedAreTuned' /\ BestIsCheapest' /\ tried' \in Nat
    BY <1>1, <1>3, <1>4, <2>1, ReturnIsBooked DEF IInv, TypeOK
  <2>3. SimBestIsCheapest'
    <3>. DEFINE new == [config |-> config', cost |-> Verdict.cost]
    <3>1. judged' = judged \cup {new} /\ new.cost = Verdict.cost
      BY <2>1 DEF Return
    <3>2. \A j \in judged : j.cost \in Int
      BY DEF IInv, JudgedAreTuned
    <3>3. simBest # << >> => simBest[1].cost \in Int
      BY DEF IInv, SimBestIsCheapest
    <3>4. \A j \in judged : j.cost < InvalidCost => simBest # << >> /\ simBest[1].cost <= j.cost
      BY <1>3 DEF IInv, SimBestIsCheapest
    <3>. HIDE DEF new
    <3>5. CASE simBest = << >> \/ Verdict.cost < simBest[1].cost
      <4>1. simBest' = <<Verdict>> /\ simBest' # << >> /\ simBest'[1].cost = Verdict.cost
        BY <2>1, <3>5
      <4>2. ASSUME NEW j \in judged', j.cost < InvalidCost PROVE Verdict.cost <= j.cost
        <5>1. CASE j = new
          BY <1>4, <3>1, <5>1
        <5>2. CASE j \in judged
          BY <1>4, <3>2, <3>3, <3>4, <3>5, <4>2, <5>2
        <5>. QED  BY <3>1, <4>2, <5>1, <5>2
      <4>. QED  BY <1>1, <1>3, <1>4, <3>1, <4>1, <4>2 DEF SimBestIsCheapest
    <3>6. CASE simBest # << >> /\ ~ (Verdict.cost < simBest[1].cost)
      <4>1. simBest' = simBest
        BY <2>1, <3>6
      <4>2. ASSUME NEW j \in judged', j.cost < InvalidCost PROVE simBest[1].cost <= j.cost
        <5>1. CASE j = new
          BY <1>4, <3>1, <3>3, <3>6, <5>1
        <5>2. CASE j \in judged
          BY <3>4, <4>2, <5>2
        <5>. QED  BY <3>1, <4>2, <5>1, <5>2
      <4>3. \E j \in judged' : j.cost = simBest[1].cost
        BY <3>1, <3>6 DEF IInv, SimBestIsCheapest
      <4>. QED  BY <1>1, <1>3, <3>3, <3>6, <4>1, <4>2, <4>3 DEF SimBestIsCheapest
    <3>. QED  BY <3>5, <3>6
  <2>4. DrivenIsValid' /\ BestOfTheSpaceIsWritten'
    BY <2>1 DEF DrivenIsValid, BestOfTheSpaceIsWritten
  <2>. QED  BY <1>2, <2>2, <2>3, <2>4 DEF IInv, TypeOK
<1>6. CASE job.kind # "cma"
  <2>1. /\ out' = <<[status |-> Status(Verdict), config |-> config, cost |-> Verdict.cost]>>
        /\ stage' = "done" /\ UNCHANGED <<config, simBest, best, tried, judged>>
    BY <1>6 DEF JudgeSim
  <2>2. JudgedAreTuned' /\ BestIsCheapest' /\ SimBestIsCheapest' /\ tried' \in Nat
    BY <1>1, <2>1, BooksStay DEF IInv, TypeOK
  <2>3. DrivenIsValid'
    BY <2>1 DEF DrivenIsValid
  <2>4. out'[1].config = config
    BY <2>1
  <2>5. BestOfTheSpaceIsWritten'
    BY <1>1, <1>3, <1>6, <2>4, CandidateIsTuned
  <2>. QED  BY <1>2, <2>2, <2>3, <2>5 DEF IInv, TypeOK
<1>. QED  BY <1>5, <1>6

LEMMA JudgeReplayIsSafe == IInv /\ JudgeReplay => IInv'
<1>. SUFFICES ASSUME IInv, JudgeReplay PROVE IInv'
  OBVIOUS
<1>1. stage = "replay" /\ UNCHANGED <<episode, job, scores, simBest>>
  BY DEF JudgeReplay
<1>2. WorldIsJobs' /\ EpisodeTyped' /\ scores' \in Seq(Results)
  BY <1>1, EpisodeStays DEF IInv, TypeOK
<1>3. /\ job.kind # "dump" /\ job.source # "sim"
      /\ ValidateRuntimeConfig(config) /\ TunedFor(job, config)
  BY <1>1 DEF IInv, DrivenIsValid
<1>4. PICK cost \in ReplayCosts \cup {InvalidCost, ErrorCost} :
        IF job.kind = "cma"
        THEN UNCHANGED config /\ Return(cost) /\ stage' = "next" /\ UNCHANGED out
        ELSE /\ \/ stage' = "failed"
                \/ stage' = "done" /\ \E status :
                     out' = <<[status |-> status, config |-> config, cost |-> cost]>>
             /\ UNCHANGED <<config, best, tried, judged>>
  BY DEF JudgeReplay
<1>5. cost \in Int
  BY SpaceAssumption DEF ErrorCost, InvalidCost
<1>6. CASE job.kind = "cma"
  <2>1. config' = config /\ Return(cost) /\ stage' = "next"
    BY <1>4, <1>6
  <2>2. JudgedAreTuned' /\ BestIsCheapest' /\ tried' \in Nat
    BY <1>1, <1>3, <1>5, <2>1, ReturnIsBooked DEF IInv, TypeOK
  <2>3. judged \subseteq judged'
    BY <2>1 DEF Return
  <2>4. SimBestIsCheapest'
    BY <1>1, <1>3, <2>3, SimBestStays DEF IInv
  <2>5. DrivenIsValid' /\ BestOfTheSpaceIsWritten'
    BY <2>1 DEF DrivenIsValid, BestOfTheSpaceIsWritten
  <2>. QED  BY <1>2, <2>2, <2>4, <2>5 DEF IInv, TypeOK
<1>7. CASE job.kind # "cma"
  <2>1. stage' \in {"failed", "done"} /\ UNCHANGED <<config, best, tried, judged>>
    BY <1>4, <1>7
  <2>2. JudgedAreTuned' /\ BestIsCheapest' /\ SimBestIsCheapest' /\ tried' \in Nat
    BY <1>1, <2>1, BooksStay DEF IInv, TypeOK
  <2>3. DrivenIsValid'
    BY <2>1 DEF DrivenIsValid
  <2>4. CASE stage' = "failed"
    <3>1. BestOfTheSpaceIsWritten'
      BY <2>4 DEF BestOfTheSpaceIsWritten
    <3>. QED  BY <1>2, <2>2, <2>3, <3>1 DEF IInv, TypeOK
  <2>5. CASE stage' = "done"
    <3>1. out'[1].config = config
      BY <1>4, <1>7, <2>5
    <3>2. BestOfTheSpaceIsWritten'
      BY <1>1, <1>3, <1>7, <3>1, CandidateIsTuned
    <3>. QED  BY <1>2, <2>2, <2>3, <3>2 DEF IInv, TypeOK
  <2>. QED  BY <2>1, <2>4, <2>5
<1>. QED  BY <1>6, <1>7

LEMMA WriteTunedIsSafe == IInv /\ WriteTuned => IInv'
<1>. SUFFICES ASSUME IInv, WriteTuned PROVE IInv'
  OBVIOUS
<1>1. /\ job.kind = "cma" /\ tried = job.generations * job.population
      /\ out' = <<[status |-> "tuned", config |-> best[1].config, cost |-> best[1].cost]>>
      /\ stage' = "done"
      /\ UNCHANGED <<episode, job, config, scores, simBest, best, tried, judged>>
  BY DEF WriteTuned
<1>2. TypeOK'
  BY <1>1, EpisodeStays DEF IInv, TypeOK
<1>3. JudgedAreTuned' /\ BestIsCheapest' /\ SimBestIsCheapest'
  BY <1>1, BooksStay DEF IInv, TypeOK
<1>4. DrivenIsValid'
  BY <1>1 DEF DrivenIsValid
<1>5. best # << >>
  <2>1. job.generations \in Nat \ {0} /\ job.population \in Nat \ {0}
    BY <1>1, JobsAssumption DEF IInv, TypeOK, WorldIsJobs
  <2>2. job.generations * job.population \in Nat \ {0}
    BY <2>1
  <2>. QED  BY <1>1, <2>2 DEF IInv, BestIsCheapest
<1>. DEFINE winner == [config |-> best[1].config, cost |-> best[1].cost]
<1>6. out'[1].config = winner.config /\ out'[1].cost = winner.cost
  BY <1>1
<1>7. winner \in judged /\ \A j \in judged : winner.cost <= j.cost
  BY <1>5 DEF IInv, BestIsCheapest
<1>8. winner = [config |-> winner.config, cost |-> winner.cost]
  OBVIOUS
<1>. HIDE DEF winner
<1>9. /\ \A j \in judged : j.cost \in Int
      /\ TunedFor(job, winner.config)
      /\ winner.cost < InvalidCost => ValidateRuntimeConfig(winner.config)
  BY <1>7 DEF IInv, JudgedAreTuned
<1>10. (\E j \in judged : j.cost < InvalidCost) => ValidateRuntimeConfig(winner.config)
  <2>1. ASSUME NEW j \in judged, j.cost < InvalidCost PROVE winner.cost < InvalidCost
    BY <1>7, <1>9, <2>1 DEF InvalidCost
  <2>. QED  BY <1>9, <2>1
<1>11. ASSUME simBest # << >>, simBest[1].cost < InvalidCost PROVE simBest[1].cost = winner.cost
  <2>1. job.source = "sim" /\ simBest[1].cost \in Int
    BY <1>11 DEF IInv, SimBestIsCheapest
  <2>2. winner.cost <= simBest[1].cost
    BY <1>7, <1>11 DEF IInv, SimBestIsCheapest
  <2>3. winner.cost \in Int /\ winner.cost < InvalidCost
    BY <1>7, <1>9, <1>11, <2>1, <2>2 DEF InvalidCost
  <2>4. simBest[1].cost <= winner.cost
    BY <1>7, <2>1, <2>3 DEF IInv, SimBestIsCheapest
  <2>. QED  BY <2>1, <2>2, <2>3, <2>4
<1>12. IsTheBest(out[1])'
  BY <1>1, <1>6, <1>7, <1>8, <1>10, <1>11 DEF IsTheBest
<1>13. OnlyTheSpaceIsTuned(out[1].config)'
  BY <1>1, <1>6, <1>9 DEF OnlyTheSpaceIsTuned, TunedFor
<1>14. BestOfTheSpaceIsWritten'
  BY <1>1, <1>12, <1>13 DEF BestOfTheSpaceIsWritten
<1>. QED  BY <1>2, <1>3, <1>4, <1>14 DEF IInv

LEMMA StutterIsSafe == IInv /\ UNCHANGED vars => IInv'
<1>. SUFFICES ASSUME IInv, UNCHANGED vars PROVE IInv'
  OBVIOUS
<1>1. UNCHANGED <<episode, job, stage, config, scores, simBest, best, tried, judged, out>>
  BY DEF vars
<1>2. TypeOK'
  BY <1>1, EpisodeStays DEF IInv, TypeOK
<1>3. JudgedAreTuned' /\ BestIsCheapest' /\ SimBestIsCheapest'
  BY <1>1, BooksStay DEF IInv, TypeOK
<1>4. DrivenIsValid'
  BY <1>1 DEF IInv, DrivenIsValid
<1>5. BestOfTheSpaceIsWritten'
  BY <1>1 DEF IInv, BestOfTheSpaceIsWritten, IsTheBest, OnlyTheSpaceIsTuned
<1>. QED  BY <1>2, <1>3, <1>4, <1>5 DEF IInv

LEMMA Invariance == Spec => []IInv
<1>1. ASSUME IInv, [Next \/ Done]_vars PROVE IInv'
  BY <1>1, DumpIsSafe, SampleIsSafe, ReadCandidateIsSafe, DrivesIsSafe, EndEpisodeIsSafe,
     JudgeSimIsSafe, JudgeReplayIsSafe, WriteTunedIsSafe, StutterIsSafe DEF Next, Done
<1>. QED  BY <1>1, InitIsSafe, PTL DEF Spec

(* The state of a search is typed: scores, episodes and commands are        *)
(* numbers and sequences of them, whatever the commands, the forces, the    *)
(* vehicle's parameters and the world (tune.rs, evaluate.rs, score.rs).     *)
THEOREM SearchIsTyped == Spec => []TypeOK
<1>1. IInv => TypeOK
  BY DEF IInv
<1>. QED  BY <1>1, Invariance, PTL

(* What car-tune writes is the cheapest individual of all generations, in   *)
(* the ranges of its search space, valid if any evaluation had a cost of    *)
(* its own, whatever the order and failures of the evaluations (tune.rs:    *)
(* run_cma and main, candidate.rs, space.rs).                               *)
THEOREM TheBestIsWritten == Spec => []BestOfTheSpaceIsWritten
<1>1. IInv => BestOfTheSpaceIsWritten
  BY DEF IInv
<1>. QED  BY <1>1, Invariance, PTL
-----------------------------------------------------------------------------
(* What the scores tell                                                     *)

(* Each tick is counted; a crash ends an episode before its laps are        *)
(* counted; and the laps are all there exactly when it is finished.         *)
EpisodeIsCounted ==
  /\ score.crashed <=> exhausted
  /\ exhausted => score.finish = << >>
  /\ score.finish # << >> => score.ticks # 0
  /\ score.finish # << >> <=> score.laps >= TargetLaps

(* A finished episode has all its laps and no crash; any other one has too  *)
(* few laps and a cost in the band of failures.                             *)
TellsItsOutcome(result) ==
  IF result.finish # << >>
  THEN result.laps >= TargetLaps /\ ~ result.crashed
  ELSE result.laps < TargetLaps /\ result.cost >= FailedBand

Asked == Max({job.seeds, 1})

OutcomesAreTold ==
  /\ EpisodeIsCounted
  /\ \A i \in DOMAIN scores : TellsItsOutcome(scores[i])
  /\ stage = "episode" => Len(scores) < Asked
  /\ stage = "judge" => Len(scores) \in 1..Asked

LEMMA DivIsMonotone ==
  ASSUME NEW a \in Nat, NEW b \in Nat, NEW c \in Nat \ {0}, a <= b
  PROVE  a \div c <= b \div c
OBVIOUS

(* A new episode has counted nothing.                                       *)
LEMMA NewEpisodeIsCounted == NewEpisode => EpisodeIsCounted'
<1>. SUFFICES ASSUME NewEpisode PROVE EpisodeIsCounted'
  OBVIOUS
<1>1. score' = NoScore /\ simUs' = 0 /\ exhausted' = FALSE
  BY DEF NewEpisode
<1>2. score'.laps = 0 /\ score'.finish = << >> /\ score'.crashed = FALSE
  BY <1>1 DEF NoScore
<1>. QED  BY <1>1, <1>2, EpisodeBounds DEF EpisodeIsCounted

(* Whoever has gone the way of all laps has completed them, and nobody else *)
(* has.                                                                     *)
LEMMA LapsAreCompleted ==
  ASSUME NEW gone \in Int
  PROVE  gone >= Required <=> Max({gone, 0}) \div TrackLength >= TargetLaps
<1>1. TrackLength \in Nat \ {0} /\ TargetLaps \in Nat \ {0}
  BY TrackHasLength, EpisodeBounds
<1>2. PICK way \in Nat : way = Max({gone, 0}) /\ way >= gone /\ (way = gone \/ way = 0)
  <2>1. 0 \in Int
    OBVIOUS
  <2>. QED  BY <2>1, MaxOfTwo, MaxWithNumber
<1>3. PICK asked \in Nat \ {0} : asked = TargetLaps * TrackLength
  BY <1>1
<1>4. gone >= Required <=> way >= asked
  BY <1>2, <1>3 DEF Required
<1>5. PICK length \in Nat \ {0}, laps \in Nat : length = TrackLength /\ laps = TargetLaps
  BY <1>1
<1>6. way >= laps * length <=> way \div length >= laps
  <2>1. ASSUME way \div length >= laps PROVE way >= laps * length
    BY <2>1
  <2>2. ASSUME way >= laps * length PROVE way \div length >= laps
    <3>1. laps * length \in Nat /\ (laps * length) \div length = laps
      OBVIOUS
    <3>. QED  BY <2>2, <3>1, DivIsMonotone
  <2>3. laps * length \in Nat /\ way \div length \in Nat
    OBVIOUS
  <2>. QED  BY <2>1, <2>2, <2>3
<1>. QED  BY <1>2, <1>3, <1>4, <1>5, <1>6

LEMMA TickIsCounted ==
  ASSUME WorldIsJobs, EpisodeTyped, EpisodeIsCounted, Tick
  PROVE  EpisodeIsCounted'
<1>1. score.ticks \in Nat /\ score \in ScoreType
  BY DEF EpisodeTyped, ScoreType
<1>2. /\ ~ exhausted /\ score.finish = << >> /\ ~ score.crashed
      /\ ~ (score.laps >= TargetLaps)
  BY DEF Tick, Running, EpisodeIsCounted
<1>3. EpisodeTyped'
  BY TickIsTyped
<1>4. exhausted' \in BOOLEAN
  BY <1>2 DEF Tick, FootprintIntersectsWall
<1>5. CASE exhausted'
  <2>1. score' = [score EXCEPT !.crashed = TRUE]
    BY <1>5 DEF Tick
  <2>2. /\ score'.crashed = TRUE /\ score'.finish = score.finish
        /\ score'.laps = score.laps
    BY <1>1, <2>1 DEF ScoreType
  <2>. QED  BY <1>2, <1>5, <2>2 DEF EpisodeIsCounted
<1>6. CASE ~ exhausted'
  <2>1. PICK cmd, place : Accumulate(cmd, place)
    BY <1>6 DEF Tick
  <2>2. /\ score'.ticks = score.ticks + 1 /\ score'.laps = Lap(progress')
        /\ score'.finish = IF progress'.unwrapped >= Required THEN <<simUs'>> ELSE << >>
        /\ score'.crashed = score.crashed
    BY <1>1, <2>1 DEF Accumulate, ScoreType
  <2>3. progress'.unwrapped >= Required <=> Lap(progress') >= TargetLaps
    BY <1>3, LapsAreCompleted DEF EpisodeTyped, ProgressTyped, Lap
  <2>4. score'.finish # << >> <=> progress'.unwrapped >= Required
    BY <2>2
  <2>. QED  BY <1>1, <1>2, <1>6, <2>2, <2>3, <2>4 DEF EpisodeIsCounted
<1>. QED  BY <1>4, <1>5, <1>6

LEMMA FinishTellsItsOutcome ==
  ASSUME EpisodeTyped, EpisodeIsCounted
  PROVE  TellsItsOutcome(Finish(score))
<1>1. /\ Finish(score).finish = score.finish /\ Finish(score).laps = score.laps
      /\ Finish(score).crashed = score.crashed
  BY DEF Finish
<1>2. CASE score.finish # << >>
  BY <1>1, <1>2 DEF TellsItsOutcome, EpisodeIsCounted
<1>3. CASE score.finish = << >>
  <2>1. Finish(score).cost = IF score.ticks = 0 THEN InvalidCost ELSE FailedCost(score)
    BY <1>3 DEF Finish
  <2>2. Finish(score).cost >= FailedBand
    <3>1. score.ticks # 0 => FailedCost(score) >= FailedBand
      BY FailedCostIsNat DEF EpisodeTyped
    <3>. QED  BY <2>1, <3>1 DEF InvalidCost, FailedBand
  <2>3. score.laps < TargetLaps
    BY <1>3, EpisodeBounds DEF EpisodeIsCounted, EpisodeTyped, ScoreType
  <2>. QED  BY <1>1, <1>3, <2>2, <2>3 DEF TellsItsOutcome
<1>. QED  BY <1>2, <1>3

(* The scores grow by the outcome of an episode or not at all.              *)
LEMMA OutcomesStay ==
  ASSUME OutcomesAreTold, UNCHANGED <<episode, job, scores>>,
         stage' \in {"next", "done", "failed"}
  PROVE  OutcomesAreTold'
BY DEF OutcomesAreTold, EpisodeIsCounted, episode, source, Asked

LEMMA EvaluateTells ==
  ASSUME OutcomesAreTold, Asked \in Nat \ {0}, UNCHANGED job, NEW params, Evaluate(params)
  PROVE  OutcomesAreTold'
<1>1. scores' = << >> /\ Len(scores') = 0 /\ DOMAIN scores' = {}
  BY DEF Evaluate
<1>2. stage' \in {"next", "done", "failed", "episode", "replay"}
  BY DEF Evaluate
<1>3. EpisodeIsCounted'
  <2>1. UNCHANGED episode \/ NewEpisode
    BY DEF Evaluate
  <2>2. CASE UNCHANGED episode
    BY <2>2 DEF OutcomesAreTold, EpisodeIsCounted, episode, source
  <2>. QED  BY <2>1, <2>2, NewEpisodeIsCounted
<1>4. Asked' = Asked
  BY DEF Asked
<1>. QED  BY <1>1, <1>2, <1>3, <1>4 DEF OutcomesAreTold

LEMMA EndEpisodeTells ==
  ASSUME IInv, OutcomesAreTold, Asked \in Nat \ {0}, EndEpisode
  PROVE  OutcomesAreTold'
<1>1. /\ stage = "episode" /\ NewEpisode /\ scores' = Append(scores, Finish(score))
      /\ stage' = (IF Len(scores') < Asked THEN "episode" ELSE "judge") /\ job' = job
  BY DEF EndEpisode, Asked
<1>2. scores \in Seq(Results) /\ EpisodeTyped
  BY DEF IInv, TypeOK
<1>3. Finish(score) \in Results
  BY <1>2, FinishIsTyped DEF EpisodeTyped
<1>4. TellsItsOutcome(Finish(score))
  BY <1>2, FinishTellsItsOutcome DEF OutcomesAreTold
<1>5. PICK last \in Results : last = Finish(score) /\ TellsItsOutcome(last)
  BY <1>3, <1>4
<1>. HIDE DEF Results
<1>6. /\ Len(scores) \in Nat /\ DOMAIN scores = 1..Len(scores)
      /\ Len(scores') = Len(scores) + 1 /\ DOMAIN scores' = 1..Len(scores) + 1
      /\ \A i \in 1..Len(scores) : scores'[i] = scores[i]
      /\ scores'[Len(scores) + 1] = last
  BY <1>1, <1>2, <1>5
<1>7. \A i \in DOMAIN scores' : TellsItsOutcome(scores'[i])
  <2>1. ASSUME NEW i \in DOMAIN scores' PROVE TellsItsOutcome(scores'[i])
    <3>1. CASE i \in 1..Len(scores)
      BY <1>6, <3>1 DEF OutcomesAreTold
    <3>2. CASE i = Len(scores) + 1
      BY <1>5, <1>6, <3>2
    <3>. QED  BY <1>6, <3>1, <3>2
  <2>. QED  BY <2>1
<1>8. Len(scores) < Asked /\ Asked' = Asked
  BY <1>1 DEF OutcomesAreTold, Asked
<1>9. EpisodeIsCounted'
  BY <1>1, NewEpisodeIsCounted
<1>10. stage' = "episode" => Len(scores') < Asked'
  BY <1>1, <1>8
<1>11. stage' = "judge" => Len(scores') \in 1..Asked'
  BY <1>1, <1>6, <1>8
<1>12. (\A i \in DOMAIN scores : TellsItsOutcome(scores[i]))'
  BY <1>7 DEF TellsItsOutcome
<1>. QED  BY <1>9, <1>10, <1>11, <1>12 DEF OutcomesAreTold

LEMMA StepTells ==
  ASSUME IInv, OutcomesAreTold, Asked \in Nat \ {0}, [Next \/ Done]_vars
  PROVE  OutcomesAreTold'
<1>1. ASSUME DumpSearchSpace PROVE OutcomesAreTold'
  BY <1>1, OutcomesStay DEF DumpSearchSpace
<1>2. ASSUME Sample PROVE OutcomesAreTold'
  BY <1>2, EvaluateTells DEF Sample
<1>3. ASSUME ReadCandidate PROVE OutcomesAreTold'
  <2>1. PICK params \in job.candidates :
          IF Applies(params) THEN Evaluate(params)
          ELSE stage' = "failed" /\ UNCHANGED <<episode, scores>>
    BY <1>3 DEF ReadCandidate
  <2>2. UNCHANGED job
    BY <1>3 DEF ReadCandidate
  <2>. QED  BY <2>1, <2>2, EvaluateTells, OutcomesStay
<1>4. ASSUME Drives PROVE OutcomesAreTold'
  <2>1. Tick /\ UNCHANGED <<job, stage, scores>>
    BY <1>4 DEF Drives
  <2>2. EpisodeIsCounted'
    BY <2>1, TickIsCounted DEF IInv, TypeOK, OutcomesAreTold
  <2>. QED  BY <2>1, <2>2 DEF OutcomesAreTold, Asked
<1>5. ASSUME EndEpisode PROVE OutcomesAreTold'
  BY <1>5, EndEpisodeTells
<1>6. ASSUME JudgeSim PROVE OutcomesAreTold'
  BY <1>6, OutcomesStay DEF JudgeSim
<1>7. ASSUME JudgeReplay PROVE OutcomesAreTold'
  BY <1>7, OutcomesStay DEF JudgeReplay
<1>8. ASSUME WriteTuned PROVE OutcomesAreTold'
  BY <1>8, OutcomesStay DEF WriteTuned
<1>9. ASSUME UNCHANGED vars PROVE OutcomesAreTold'
  <2>1. UNCHANGED <<episode, job, stage, scores>>
    BY <1>9 DEF vars
  <2>. QED  BY <2>1 DEF OutcomesAreTold, EpisodeIsCounted, episode, source, Asked
<1>. QED  BY <1>1, <1>2, <1>3, <1>4, <1>5, <1>6, <1>7, <1>8, <1>9 DEF Next, Done

LEMMA AskedIsPositive ==
  ASSUME job \in Jobs
  PROVE  Asked \in Nat \ {0}
<1>1. PICK seeds \in Int : seeds = job.seeds
  BY JobsAssumption
<1>2. Max({seeds, 1}) \in Nat \ {0}
  BY MaxWithNumber
<1>. QED  BY <1>1, <1>2 DEF Asked

LEMMA Telling == Spec => [](IInv /\ OutcomesAreTold)
<1>1. Init => OutcomesAreTold
  <2>. SUFFICES ASSUME Init PROVE OutcomesAreTold
    OBVIOUS
  <2>1. /\ score = NoScore /\ simUs = 0 /\ exhausted = FALSE
        /\ scores = << >> /\ stage = "next"
    BY DEF Init, SourceInit
  <2>2. EpisodeIsCounted
    BY <2>1, EpisodeBounds DEF EpisodeIsCounted, NoScore
  <2>. QED  BY <2>1, <2>2 DEF OutcomesAreTold
<1>2. ASSUME IInv, OutcomesAreTold, [Next \/ Done]_vars PROVE OutcomesAreTold'
  <2>1. Asked \in Nat \ {0}
    BY <1>2, AskedIsPositive DEF IInv, TypeOK, WorldIsJobs
  <2>. QED  BY <1>2, <2>1, StepTells
<1>. QED  BY <1>1, <1>2, Invariance, PTL DEF Spec

(* One failure is dear enough for the mean of all costs.                    *)
LEMMA CostTells ==
  ASSUME NEW several \in Seq(Results), NEW k \in DOMAIN several,
         several[k].cost >= FailedBand, NEW weight \in Nat
  PROVE  Aggregate(several, weight).cost >= FailedBand \div Len(several)
<1>1. several # << >> /\ Len(several) \in Nat \ {0}
  <2>. HIDE DEF Results
  <2>. QED  OBVIOUS
<1>2. PICK total \in Nat, i \in DOMAIN several, j \in DOMAIN several :
        /\ Aggregate(several, weight).cost
             = total \div Len(several) + weight * ((several[i].cost - several[j].cost) \div 2)
        /\ several[j].cost <= several[i].cost
        /\ \A m \in DOMAIN several : several[m].cost <= total
  <2>1. weight \in Int
    OBVIOUS
  <2>. HIDE DEF Results
  <2>. QED  BY <1>1, <2>1, CostOfSeveral
<1>3. \A m \in DOMAIN several : several[m].cost \in Nat
  <2>1. ASSUME NEW m \in DOMAIN several PROVE several[m].cost \in Nat
    <3>1. several[m] \in Results
      <4>. HIDE DEF Results
      <4>. QED  OBVIOUS
    <3>. QED  BY <3>1 DEF Results
  <2>. QED  BY <2>1
<1>4. PICK high \in Nat, low \in Nat, c \in Nat :
        /\ high = several[i].cost /\ low = several[j].cost /\ low <= high
        /\ c = several[k].cost
  BY <1>2, <1>3
<1>5. PICK spread \in Nat : spread = (high - low) \div 2
  BY <1>4, high - low \in Nat
<1>6. PICK n \in Nat \ {0}, band \in Nat : n = Len(several) /\ band = FailedBand
  BY <1>1 DEF FailedBand
<1>7. band <= total
  <2>1. c <= total
    BY <1>2, <1>4
  <2>2. band <= c
    BY <1>4, <1>6
  <2>. QED  BY <2>1, <2>2
<1>8. band \div n <= total \div n /\ total \div n \in Nat /\ band \div n \in Nat
  BY <1>7, DivIsMonotone, DivIsNat
<1>9. weight * spread \in Nat
  OBVIOUS
<1>10. Aggregate(several, weight).cost = total \div n + weight * spread
  BY <1>2, <1>4, <1>5, <1>6
<1>. QED  BY <1>6, <1>8, <1>9, <1>10

(* The fewest laps of several episodes are all laps only if each has them.  *)
LEMMA FewestLaps ==
  ASSUME NEW several \in Seq(Results), several # << >>, NEW weight
  PROVE  Aggregate(several, weight).laps >= TargetLaps
           <=> \A i \in DOMAIN several : several[i].laps >= TargetLaps
<1>. DEFINE laps == {several[i].laps : i \in DOMAIN several}
<1>1. Aggregate(several, weight).laps = Min(laps)
  BY DEF Aggregate
<1>2. laps \subseteq Nat /\ laps # {}
  <2>1. ASSUME NEW i \in DOMAIN several PROVE several[i].laps \in Nat
    <3>1. several[i] \in Results
      <4>. HIDE DEF Results
      <4>. QED  OBVIOUS
    <3>. QED  BY <3>1 DEF Results
  <2>2. 1 \in DOMAIN several
    <3>. HIDE DEF Results
    <3>. QED  OBVIOUS
  <2>. QED  BY <2>1, <2>2
<1>3. Min(laps) \in laps /\ \A l \in laps : Min(laps) <= l
  <2>. HIDE DEF laps
  <2>1. \E l \in laps : \A m \in laps : l <= m
    BY <1>2, LeastElement
  <2>. QED  BY <2>1 DEF Min
<1>4. Min(laps) >= TargetLaps <=> \A l \in laps : l >= TargetLaps
  <2>. HIDE DEF laps
  <2>1. PICK asked \in Nat, least \in Nat : asked = TargetLaps /\ least = Min(laps)
    BY <1>2, <1>3, EpisodeBounds
  <2>2. ASSUME least >= asked, NEW l \in laps PROVE l >= asked
    BY <1>2, <1>3, <2>1, <2>2
  <2>. QED  BY <1>3, <2>1, <2>2
<1>. QED  BY <1>1, <1>4

(* A verdict hides no failure: a crash with one of its seeds shows in a     *)
(* candidate's status, its laps are all there only if every episode was     *)
(* finished, a finished episode touched nothing, and one failure alone      *)
(* keeps the cost high, for any number of seeds and however rough the       *)
(* others were (evaluate.rs: finish, aggregate_sim_scores; score.rs).       *)
THEOREM VerdictsTellOutcomes == Spec => []ScoresTellOutcomes
<1>1. ASSUME IInv, OutcomesAreTold PROVE ScoresTellOutcomes
  <2>. SUFFICES ASSUME stage = "judge"
       PROVE  /\ Status(Verdict) = "crashed" <=> \E i \in DOMAIN scores : scores[i].crashed
              /\ Verdict.laps >= TargetLaps
                   <=> \A i \in DOMAIN scores : scores[i].finish # << >>
              /\ \A i \in DOMAIN scores :
                   IF scores[i].finish # << >> THEN ~ scores[i].crashed
                   ELSE job.weight >= 0 => Verdict.cost >= FailedBand \div Len(scores)
    BY DEF ScoresTellOutcomes
  <2>1. /\ job \in Jobs /\ scores \in Seq(Results)
        /\ \A i \in DOMAIN scores : TellsItsOutcome(scores[i])
    BY <1>1 DEF IInv, TypeOK, WorldIsJobs, OutcomesAreTold
  <2>2. scores # << >>
    <3>1. Asked \in Nat \ {0} /\ Len(scores) \in 1..Asked
      BY <1>1, <2>1, AskedIsPositive DEF OutcomesAreTold
    <3>. SUFFICES ASSUME scores = << >> PROVE FALSE
      OBVIOUS
    <3>. QED  BY <3>1, Len(<< >>) = 0
  <2>3. Status(Verdict) = "crashed" <=> \E i \in DOMAIN scores : scores[i].crashed
    <3>1. Verdict.crashed <=> \E i \in DOMAIN scores : scores[i].crashed
      BY <2>2 DEF Verdict, Aggregate
    <3>. QED  BY <3>1 DEF Status
  <2>4. ASSUME NEW i \in DOMAIN scores
        PROVE  scores[i].finish # << >> <=> scores[i].laps >= TargetLaps
    <3>1. scores[i] \in Results
      <4>. HIDE DEF Results
      <4>. QED  BY <2>1
    <3>2. scores[i].laps \in Nat /\ TargetLaps \in Nat
      BY <3>1, EpisodeBounds DEF Results
    <3>. QED  BY <2>1, <3>2 DEF TellsItsOutcome
  <2>5. Verdict.laps >= TargetLaps <=> \A i \in DOMAIN scores : scores[i].finish # << >>
    <3>. HIDE DEF Results
    <3>. QED  BY <2>1, <2>2, <2>4, FewestLaps DEF Verdict
  <2>6. ASSUME NEW i \in DOMAIN scores, scores[i].finish # << >>
        PROVE  ~ scores[i].crashed
    BY <2>1, <2>6 DEF TellsItsOutcome
  <2>7. ASSUME NEW i \in DOMAIN scores, scores[i].finish = << >>, job.weight >= 0
        PROVE  Verdict.cost >= FailedBand \div Len(scores)
    <3>1. job.weight \in Nat
      BY <2>1, <2>7, JobsAssumption
    <3>2. scores[i].cost >= FailedBand
      BY <2>1, <2>7 DEF TellsItsOutcome
    <3>. HIDE DEF Results
    <3>. QED  BY <2>1, <3>1, <3>2, CostTells DEF Verdict
  <2>. QED  BY <2>3, <2>5, <2>6, <2>7
<1>2. IInv /\ OutcomesAreTold => ScoresTellOutcomes
  BY <1>1
<1>. QED  BY <1>2, Telling, PTL

-----------------------------------------------------------------------------
(* Directions                                                               *)

LEMMA DirectionIsUnit ==
  ASSUME NEW h \in Int
  PROVE  \/ Cos(h) = 1 /\ Sin(h) = 0
         \/ Cos(h) = 0 /\ Sin(h) = 1
         \/ Cos(h) = -1 /\ Sin(h) = 0
         \/ Cos(h) = 0 /\ Sin(h) = -1
<1>1. PICK k \in 0..3 : k = h % 4
  OBVIOUS
<1>2. k = 0 \/ k = 1 \/ k = 2 \/ k = 3
  OBVIOUS
<1>. QED  BY <1>1, <1>2 DEF Cos, Sin

-----------------------------------------------------------------------------
(* Fractions                                                                *)

(* What Frac makes: a denominator is positive.                              *)
Fractions == Int \X (Nat \ {0})

LEMMA FracIsTyped ==
  ASSUME NEW n \in Int, NEW d \in Int, d # 0
  PROVE  /\ Frac(n, d) \in Fractions
         /\ d > 0 => Frac(n, d)[1] = n /\ Frac(n, d)[2] = d
         /\ d < 0 => Frac(n, d)[1] = -n /\ Frac(n, d)[2] = -d
BY DEF Frac, Fractions

(* Products with a positive number keep the order.                          *)
LEMMA ProductOrder ==
  ASSUME NEW k \in Nat \ {0}, NEW a \in Int, NEW b \in Int
  PROVE  /\ a < b <=> k * a < k * b
         /\ a <= b <=> k * a <= k * b
<1>1. ASSUME NEW p \in Int, NEW q \in Int, p < q PROVE k * p < k * q
  <2>1. PICK d \in Nat \ {0} : q = p + d
    BY <1>1, q - p \in Nat \ {0}, q = p + (q - p)
  <2>2. PICK kp \in Int, kd \in Nat : kp = k * p /\ kd = k * d /\ kd > 0
    <3>1. k * d \in Nat /\ k * d > 0
      OBVIOUS
    <3>. QED  BY <3>1
  <2>3. k * q = kp + kd
    BY <2>1, <2>2
  <2>. QED  BY <2>2, <2>3
<1>2. a < b \/ a = b \/ b < a
  OBVIOUS
<1>3. k * a \in Int /\ k * b \in Int
  OBVIOUS
<1>4. CASE a < b
  BY <1>1, <1>3, <1>4
<1>5. CASE a = b
  BY <1>3, <1>5
<1>6. CASE b < a
  BY <1>1, <1>3, <1>6
<1>. QED  BY <1>2, <1>4, <1>5, <1>6

LEMMA FractionOrder ==
  ASSUME NEW f \in Fractions, NEW g \in Fractions, NEW h \in Fractions
  PROVE  /\ ~ Less(f, f)
         /\ ~ (Less(f, g) /\ Less(g, f))
         /\ ~ Less(g, f) /\ ~ Less(h, g) => ~ Less(h, f)
<1>1. PICK a \in Int, b \in Nat \ {0} : f = <<a, b>>
  BY DEF Fractions
<1>2. PICK c \in Int, d \in Nat \ {0} : g = <<c, d>>
  BY DEF Fractions
<1>3. PICK e \in Int, k \in Nat \ {0} : h = <<e, k>>
  BY DEF Fractions
<1>4. /\ Less(f, f) <=> a * b < a * b
      /\ Less(f, g) <=> a * d < c * b
      /\ Less(g, f) <=> c * b < a * d
      /\ Less(h, g) <=> e * d < c * k
      /\ Less(h, f) <=> e * b < a * k
  BY <1>1, <1>2, <1>3 DEF Less
<1>5. /\ a * b \in Int /\ a * d \in Int /\ c * b \in Int
      /\ e * d \in Int /\ c * k \in Int /\ e * b \in Int /\ a * k \in Int
  OBVIOUS
<1>6. ASSUME a * d <= c * b, c * k <= e * d PROVE a * k <= e * b
  <2>1. k * (a * d) <= k * (c * b)
    BY <1>5, <1>6, ProductOrder
  <2>2. b * (c * k) <= b * (e * d)
    BY <1>5, <1>6, ProductOrder
  <2>3. /\ k * (a * d) = d * (a * k) /\ k * (c * b) = b * (c * k)
        /\ b * (e * d) = d * (e * b)
    OBVIOUS
  <2>4. d * (a * k) <= d * (e * b)
    <3>1. PICK x \in Int, y \in Int, z \in Int :
            x = k * (a * d) /\ y = k * (c * b) /\ z = b * (e * d)
      BY <1>5
    <3>. QED  BY <2>1, <2>2, <2>3, <3>1
  <2>. QED  BY <1>5, <2>4, ProductOrder
<1>. QED  BY <1>4, <1>5, <1>6

-----------------------------------------------------------------------------
(* Clipping                                                                 *)

(* What is left of a segment between lower and upper bounds: the part from  *)
(* the greatest lower to the least upper one, or nothing if one of the      *)
(* lower bounds is beyond an upper one, or the segment is outside anyway.   *)
ClippedTo(part, lower, upper, free) ==
  IF part = << >>
  THEN ~ free \/ \E l \in lower, u \in upper : Less(u, l)
  ELSE free /\ \E lo \in lower, hi \in upper :
         /\ part = <<lo, hi>> /\ ~ Less(hi, lo)
         /\ \A l \in lower : ~ Less(lo, l)
         /\ \A u \in upper : ~ Less(u, hi)

LowerBounds(p, q) == IF p < 0 THEN {Frac(q, p)} ELSE {}
UpperBounds(p, q) == IF p > 0 THEN {Frac(q, p)} ELSE {}
Stays(p, q) == p = 0 => q >= 0

LEMMA BoundsAreTyped ==
  ASSUME NEW p \in Int, NEW q \in Int
  PROVE  LowerBounds(p, q) \subseteq Fractions /\ UpperBounds(p, q) \subseteq Fractions
BY FracIsTyped DEF LowerBounds, UpperBounds

LEMMA ClipIsExact ==
  ASSUME NEW lower, lower \subseteq Fractions, NEW upper, upper \subseteq Fractions,
         NEW free \in BOOLEAN, NEW part, ClippedTo(part, lower, upper, free),
         NEW p \in Int, NEW q \in Int
  PROVE  ClippedTo(ClipSegment(part, p, q), lower \cup LowerBounds(p, q),
                   upper \cup UpperBounds(p, q), free /\ Stays(p, q))
<1>. DEFINE r == Frac(q, p)
            clipped == ClipSegment(part, p, q)
            lowers == lower \cup LowerBounds(p, q)
            uppers == upper \cup UpperBounds(p, q)
            frees == free /\ Stays(p, q)
<1>1. CASE part = << >>
  <2>1. clipped = << >>
    BY <1>1 DEF ClipSegment
  <2>2. ~ free \/ \E l \in lower, u \in upper : Less(u, l)
    BY <1>1 DEF ClippedTo
  <2>3. ~ frees \/ \E l \in lowers, u \in uppers : Less(u, l)
    BY <2>2
  <2>. HIDE DEF clipped, lowers, uppers, frees
  <2>4. ClippedTo(clipped, lowers, uppers, frees)
    BY <2>1, <2>3 DEF ClippedTo
  <2>. QED  BY <2>4 DEF clipped, lowers, uppers, frees
<1>2. CASE part # << >>
  <2>1. PICK lo \in lower, hi \in upper :
          /\ part = <<lo, hi>> /\ ~ Less(hi, lo)
          /\ \A l \in lower : ~ Less(lo, l)
          /\ \A u \in upper : ~ Less(u, hi)
    BY <1>2 DEF ClippedTo
  <2>2. free = TRUE /\ lo \in Fractions /\ hi \in Fractions /\ part[1] = lo /\ part[2] = hi
    BY <1>2, <2>1 DEF ClippedTo
  <2>3. CASE p = 0
    <3>1. clipped = IF q >= 0 THEN part ELSE << >>
      BY <1>2, <2>3 DEF ClipSegment
    <3>2. lowers = lower /\ uppers = upper /\ (frees <=> q >= 0)
      BY <2>2, <2>3 DEF LowerBounds, UpperBounds, Stays
    <3>. HIDE DEF clipped, lowers, uppers, frees
    <3>3. CASE q >= 0
      <4>1. clipped = part /\ frees
        BY <3>1, <3>2, <3>3
      <4>2. ClippedTo(clipped, lowers, uppers, frees)
        BY <1>2, <2>1, <3>2, <4>1 DEF ClippedTo
      <4>. QED  BY <4>2 DEF clipped, lowers, uppers, frees
    <3>4. CASE ~ q >= 0
      <4>1. clipped = << >> /\ ~ frees
        BY <3>1, <3>2, <3>4
      <4>2. ClippedTo(clipped, lowers, uppers, frees)
        BY <4>1 DEF ClippedTo
      <4>. QED  BY <4>2 DEF clipped, lowers, uppers, frees
    <3>. QED  BY <3>3, <3>4
  <2>4. CASE p < 0
    <3>1. /\ lowers = lower \cup {r} /\ uppers = upper /\ frees
      BY <2>2, <2>4 DEF LowerBounds, UpperBounds, Stays
    <3>2. clipped = IF Less(hi, r) THEN << >>
                    ELSE <<IF Less(lo, r) THEN r ELSE lo, hi>>
      BY <1>2, <2>2, <2>4 DEF ClipSegment
    <3>3. r \in Fractions
      BY <2>4, FracIsTyped
    <3>. HIDE DEF clipped, lowers, uppers, frees, r
    <3>4. CASE Less(hi, r)
      <4>1. clipped = << >> /\ r \in lowers /\ hi \in uppers
        BY <3>1, <3>2, <3>4
      <4>2. ClippedTo(clipped, lowers, uppers, frees)
        BY <3>4, <4>1 DEF ClippedTo
      <4>. QED  BY <4>2 DEF clipped, lowers, uppers, frees
    <3>5. CASE ~ Less(hi, r) /\ Less(lo, r)
      <4>1. clipped = <<r, hi>> /\ r \in lowers /\ hi \in uppers /\ clipped # << >>
        BY <3>1, <3>2, <3>5
      <4>2. ~ Less(r, lo) /\ ~ Less(r, r)
        BY <2>2, <3>3, <3>5, FractionOrder
      <4>3. ASSUME NEW l \in lower PROVE ~ Less(r, l)
        <5>1. l \in Fractions /\ ~ Less(lo, l)
          BY <2>1
        <5>. QED  BY <2>2, <3>3, <4>2, <5>1, FractionOrder
      <4>4. \A l \in lowers : ~ Less(r, l)
        BY <3>1, <4>2, <4>3
      <4>5. ClippedTo(clipped, lowers, uppers, frees)
        BY <2>1, <3>1, <3>5, <4>1, <4>4 DEF ClippedTo
      <4>. QED  BY <4>5 DEF clipped, lowers, uppers, frees
    <3>6. CASE ~ Less(hi, r) /\ ~ Less(lo, r)
      <4>1. clipped = <<lo, hi>> /\ lo \in lowers /\ hi \in uppers /\ clipped # << >>
        BY <3>1, <3>2, <3>6
      <4>2. \A l \in lowers : ~ Less(lo, l)
        BY <2>1, <3>1, <3>6
      <4>3. ClippedTo(clipped, lowers, uppers, frees)
        BY <2>1, <3>1, <4>1, <4>2 DEF ClippedTo
      <4>. QED  BY <4>3 DEF clipped, lowers, uppers, frees
    <3>. QED  BY <3>4, <3>5, <3>6
  <2>5. CASE p > 0
    <3>1. /\ lowers = lower /\ uppers = upper \cup {r} /\ frees
      BY <2>2, <2>5 DEF LowerBounds, UpperBounds, Stays
    <3>2. clipped = IF Less(r, lo) THEN << >>
                    ELSE <<lo, IF Less(r, hi) THEN r ELSE hi>>
      BY <1>2, <2>2, <2>5 DEF ClipSegment
    <3>3. r \in Fractions
      BY <2>5, FracIsTyped
    <3>. HIDE DEF clipped, lowers, uppers, frees, r
    <3>4. CASE Less(r, lo)
      <4>1. clipped = << >> /\ lo \in lowers /\ r \in uppers
        BY <3>1, <3>2, <3>4
      <4>2. ClippedTo(clipped, lowers, uppers, frees)
        BY <3>4, <4>1 DEF ClippedTo
      <4>. QED  BY <4>2 DEF clipped, lowers, uppers, frees
    <3>5. CASE ~ Less(r, lo) /\ Less(r, hi)
      <4>1. clipped = <<lo, r>> /\ lo \in lowers /\ r \in uppers /\ clipped # << >>
        BY <3>1, <3>2, <3>5
      <4>2. ~ Less(hi, r) /\ ~ Less(r, r)
        BY <2>2, <3>3, <3>5, FractionOrder
      <4>3. ASSUME NEW u \in upper PROVE ~ Less(u, r)
        <5>1. u \in Fractions /\ ~ Less(u, hi)
          BY <2>1
        <5>. QED  BY <2>2, <3>3, <4>2, <5>1, FractionOrder
      <4>4. \A u \in uppers : ~ Less(u, r)
        BY <3>1, <4>2, <4>3
      <4>5. ClippedTo(clipped, lowers, uppers, frees)
        BY <2>1, <3>1, <3>5, <4>1, <4>4 DEF ClippedTo
      <4>. QED  BY <4>5 DEF clipped, lowers, uppers, frees
    <3>6. CASE ~ Less(r, lo) /\ ~ Less(r, hi)
      <4>1. clipped = <<lo, hi>> /\ lo \in lowers /\ hi \in uppers /\ clipped # << >>
        BY <3>1, <3>2, <3>6
      <4>2. \A u \in uppers : ~ Less(u, hi)
        BY <2>1, <3>1, <3>6
      <4>3. ClippedTo(clipped, lowers, uppers, frees)
        BY <2>1, <3>1, <4>1, <4>2 DEF ClippedTo
      <4>. QED  BY <4>3 DEF clipped, lowers, uppers, frees
    <3>. QED  BY <3>4, <3>5, <3>6
  <2>. QED  BY <2>3, <2>4, <2>5
<1>. QED  BY <1>1, <1>2

(* The whole clip: something is left if the bounds agree.                   *)
LEMMA ClipTells ==
  ASSUME NEW lower, lower \subseteq Fractions, NEW upper, upper \subseteq Fractions,
         NEW free \in BOOLEAN, NEW part, ClippedTo(part, lower, upper, free)
  PROVE  part # << >> <=> free /\ \A l \in lower, u \in upper : ~ Less(u, l)
<1>1. CASE part = << >>
  BY <1>1 DEF ClippedTo
<1>2. CASE part # << >>
  <2>1. PICK lo \in lower, hi \in upper :
          /\ ~ Less(hi, lo)
          /\ \A l \in lower : ~ Less(lo, l)
          /\ \A u \in upper : ~ Less(u, hi)
    BY <1>2 DEF ClippedTo
  <2>2. ASSUME NEW l \in lower, NEW u \in upper PROVE ~ Less(u, l)
    <3>1. ~ Less(lo, l) /\ ~ Less(hi, lo) /\ ~ Less(u, hi)
      BY <2>1
    <3>2. lo \in Fractions /\ hi \in Fractions /\ l \in Fractions /\ u \in Fractions
      OBVIOUS
    <3>3. ~ Less(hi, l)
      BY <3>1, <3>2, FractionOrder
    <3>. QED  BY <3>1, <3>2, <3>3, FractionOrder
  <2>. QED  BY <1>2, <2>2 DEF ClippedTo
<1>. QED  BY <1>1, <1>2

(* Apart: a segment from a to b and the box of the footprint, in the car's  *)
(* frame, with a line between them along a side of the box or the segment.  *)
Side(a, b, px, py) == (b.x - a.x) * (py - a.y) - (b.y - a.y) * (px - a.x)
LeftOf(a, b) == \A lx \in {-HalfLength, HalfLength}, ly \in {-HalfWidth, HalfWidth} :
                  Side(a, b, lx, ly) > 0
RightOf(a, b) == \A lx \in {-HalfLength, HalfLength}, ly \in {-HalfWidth, HalfWidth} :
                   Side(a, b, lx, ly) < 0
Beyond(s, t, half) == (s > half /\ t > half) \/ (s < -half /\ t < -half)
Apart(a, b) == \/ Beyond(a.x, b.x, HalfLength) \/ Beyond(a.y, b.y, HalfWidth)
               \/ LeftOf(a, b) \/ RightOf(a, b)

(* A segment along one axis, from s by d, between -half and half: it is the *)
(* one from at up by m, mirrored or not.                                    *)
Bounded(s, d, half, at, m) ==
  /\ \/ at = s /\ m = d
     \/ at = -s /\ m = -d
  /\ m = 0 => /\ LowerBounds(-d, s + half) \cup LowerBounds(d, half - s) = {}
              /\ UpperBounds(-d, s + half) \cup UpperBounds(d, half - s) = {}
              /\ Stays(-d, s + half) /\ Stays(d, half - s) <=> at >= -half /\ at <= half
  /\ m > 0 => /\ LowerBounds(-d, s + half) \cup LowerBounds(d, half - s) = {<<-half - at, m>>}
              /\ UpperBounds(-d, s + half) \cup UpperBounds(d, half - s) = {<<half - at, m>>}
              /\ Stays(-d, s + half) /\ Stays(d, half - s)

LEMMA BoundsAlongAnAxis ==
  ASSUME NEW s \in Int, NEW d \in Int, NEW half \in Nat \ {0}
  PROVE  \E at \in Int, m \in Nat : Bounded(s, d, half, at, m)
<1>1. CASE d = 0
  <2>1. /\ LowerBounds(-d, s + half) \cup LowerBounds(d, half - s) = {}
        /\ UpperBounds(-d, s + half) \cup UpperBounds(d, half - s) = {}
    BY <1>1 DEF LowerBounds, UpperBounds
  <2>2. Stays(-d, s + half) /\ Stays(d, half - s) <=> s >= -half /\ s <= half
    <3>1. -d = 0
      <4>1. ~ (-d < 0) /\ ~ (-d > 0) /\ -d \in Int
        BY <1>1
      <4>. QED  BY <4>1
    <3>2. Stays(-d, s + half) <=> s + half >= 0
      BY <3>1 DEF Stays
    <3>3. Stays(d, half - s) <=> half - s >= 0
      BY <1>1 DEF Stays
    <3>. QED  BY <3>2, <3>3
  <2>. QED  BY <1>1, <2>1, <2>2 DEF Bounded
<1>2. CASE d > 0
  <2>1. /\ LowerBounds(-d, s + half) = {<<-half - s, d>>} /\ LowerBounds(d, half - s) = {}
        /\ UpperBounds(-d, s + half) = {} /\ UpperBounds(d, half - s) = {<<half - s, d>>}
    <3>1. Frac(s + half, -d) = <<-half - s, d>> /\ Frac(half - s, d) = <<half - s, d>>
      BY <1>2 DEF Frac
    <3>. QED  BY <1>2, <3>1 DEF LowerBounds, UpperBounds
  <2>2. Stays(-d, s + half) /\ Stays(d, half - s)
    BY <1>2 DEF Stays
  <2>. QED  BY <1>2, <2>1, <2>2 DEF Bounded
<1>3. CASE d < 0
  <2>0. PICK at \in Int, m \in Nat : at = -s /\ m = -d /\ m > 0
    BY <1>3
  <2>1. /\ LowerBounds(-d, s + half) = {} /\ LowerBounds(d, half - s) = {<<-half - at, m>>}
        /\ UpperBounds(-d, s + half) = {<<half - at, m>>} /\ UpperBounds(d, half - s) = {}
    <3>1. Frac(s + half, -d) = <<half - at, m>> /\ Frac(half - s, d) = <<-half - at, m>>
      BY <1>3, <2>0 DEF Frac
    <3>. QED  BY <1>3, <3>1 DEF LowerBounds, UpperBounds
  <2>2. Stays(-d, s + half) /\ Stays(d, half - s)
    BY <1>3 DEF Stays
  <2>3. /\ LowerBounds(-d, s + half) \cup LowerBounds(d, half - s) = {<<-half - at, m>>}
        /\ UpperBounds(-d, s + half) \cup UpperBounds(d, half - s) = {<<half - at, m>>}
    BY <2>1
  <2>4. ~ m = 0
    BY <2>0
  <2>. WITNESS at \in Int, m \in Nat
  <2>5. \/ at = s /\ m = d
        \/ at = -s /\ m = -d
    BY <2>0
  <2>. QED  BY <2>2, <2>3, <2>4, <2>5, Zenon DEF Bounded
<1>4. d = 0 \/ d > 0 \/ d < 0
  OBVIOUS
<1>. QED  BY <1>1, <1>2, <1>3, <1>4, Zenon

(* The four clips together                                                  *)
LEMMA BoxIsClipped ==
  ASSUME NEW a, NEW b, a.x \in Int, a.y \in Int, b.x \in Int, b.y \in Int
  PROVE  LET dx == b.x - a.x
             dy == b.y - a.y
             lx == LowerBounds(-dx, a.x + HalfLength) \cup LowerBounds(dx, HalfLength - a.x)
             ux == UpperBounds(-dx, a.x + HalfLength) \cup UpperBounds(dx, HalfLength - a.x)
             ly == LowerBounds(-dy, a.y + HalfWidth) \cup LowerBounds(dy, HalfWidth - a.y)
             uy == UpperBounds(-dy, a.y + HalfWidth) \cup UpperBounds(dy, HalfWidth - a.y)
         IN SegmentIntersectsBox(a, b) <=>
              /\ Stays(-dx, a.x + HalfLength) /\ Stays(dx, HalfLength - a.x)
              /\ Stays(-dy, a.y + HalfWidth) /\ Stays(dy, HalfWidth - a.y)
              /\ \A l \in {<<0, 1>>} \cup lx \cup ly, u \in {<<1, 1>>} \cup ux \cup uy : ~ Less(u, l)
<1>1. PICK dx \in Int, dy \in Int, p \in Int, q \in Int, r \in Int, s \in Int :
        /\ dx = b.x - a.x /\ dy = b.y - a.y
        /\ p = a.x + HalfLength /\ q = HalfLength - a.x
        /\ r = a.y + HalfWidth /\ s = HalfWidth - a.y
  <2>1. /\ b.x - a.x \in Int /\ b.y - a.y \in Int
        /\ a.x + HalfLength \in Int /\ HalfLength - a.x \in Int
        /\ a.y + HalfWidth \in Int /\ HalfWidth - a.y \in Int
    BY FootprintIsNat
  <2>. QED  BY <2>1
<1>. DEFINE left == ClipSegment(<< <<0, 1>>, <<1, 1>> >>, -dx, p)
            right == ClipSegment(left, dx, q)
            below == ClipSegment(right, -dy, r)
            above == ClipSegment(below, dy, s)
            l0 == {<<0, 1>>}
            u0 == {<<1, 1>>}
            l1 == l0 \cup LowerBounds(-dx, p)
            u1 == u0 \cup UpperBounds(-dx, p)
            l2 == l1 \cup LowerBounds(dx, q)
            u2 == u1 \cup UpperBounds(dx, q)
            l3 == l2 \cup LowerBounds(-dy, r)
            u3 == u2 \cup UpperBounds(-dy, r)
            l4 == l3 \cup LowerBounds(dy, s)
            u4 == u3 \cup UpperBounds(dy, s)
            f1 == TRUE /\ Stays(-dx, p)
            f2 == f1 /\ Stays(dx, q)
            f3 == f2 /\ Stays(-dy, r)
            f4 == f3 /\ Stays(dy, s)
<1>2. SegmentIntersectsBox(a, b) <=> above # << >>
  BY <1>1 DEF SegmentIntersectsBox
<1>3. -dx \in Int /\ -dy \in Int
  OBVIOUS
<1>4. l0 \subseteq Fractions /\ u0 \subseteq Fractions
  BY DEF Fractions
<1>5. /\ l1 \subseteq Fractions /\ u1 \subseteq Fractions
      /\ l2 \subseteq Fractions /\ u2 \subseteq Fractions
      /\ l3 \subseteq Fractions /\ u3 \subseteq Fractions
      /\ l4 \subseteq Fractions /\ u4 \subseteq Fractions
  <2>1. /\ LowerBounds(-dx, p) \subseteq Fractions /\ UpperBounds(-dx, p) \subseteq Fractions
        /\ LowerBounds(dx, q) \subseteq Fractions /\ UpperBounds(dx, q) \subseteq Fractions
        /\ LowerBounds(-dy, r) \subseteq Fractions /\ UpperBounds(-dy, r) \subseteq Fractions
        /\ LowerBounds(dy, s) \subseteq Fractions /\ UpperBounds(dy, s) \subseteq Fractions
    BY <1>3, BoundsAreTyped
  <2>. HIDE DEF l0, u0
  <2>. QED  BY <1>4, <2>1
<1>6. ClippedTo(<< <<0, 1>>, <<1, 1>> >>, l0, u0, TRUE)
  <2>1. ~ Less(<<1, 1>>, <<0, 1>>) /\ ~ Less(<<0, 1>>, <<0, 1>>) /\ ~ Less(<<1, 1>>, <<1, 1>>)
    BY DEF Less
  <2>2. << <<0, 1>>, <<1, 1>> >> # << >>
    OBVIOUS
  <2>. QED  BY <2>1, <2>2 DEF ClippedTo
<1>7. f1 \in BOOLEAN /\ f2 \in BOOLEAN /\ f3 \in BOOLEAN /\ f4 \in BOOLEAN
  OBVIOUS
<1>. HIDE DEF l0, u0
<1>8. ClippedTo(left, l1, u1, f1)
  BY <1>3, <1>4, <1>6, ClipIsExact
<1>. HIDE DEF left, l1, u1, f1
<1>9. ClippedTo(right, l2, u2, f2)
  BY <1>5, <1>7, <1>8, ClipIsExact
<1>. HIDE DEF right, l2, u2, f2
<1>10. ClippedTo(below, l3, u3, f3)
  BY <1>3, <1>5, <1>7, <1>9, ClipIsExact
<1>. HIDE DEF below, l3, u3, f3
<1>11. ClippedTo(above, l4, u4, f4)
  BY <1>5, <1>7, <1>10, ClipIsExact
<1>. HIDE DEF above, l4, u4, f4
<1>12. above # << >> <=> f4 /\ \A l \in l4, u \in u4 : ~ Less(u, l)
  BY <1>5, <1>7, <1>11, ClipTells
<1>13. /\ l4 = {<<0, 1>>} \cup (LowerBounds(-dx, p) \cup LowerBounds(dx, q))
                 \cup (LowerBounds(-dy, r) \cup LowerBounds(dy, s))
       /\ u4 = {<<1, 1>>} \cup (UpperBounds(-dx, p) \cup UpperBounds(dx, q))
                 \cup (UpperBounds(-dy, r) \cup UpperBounds(dy, s))
       /\ f4 <=> Stays(-dx, p) /\ Stays(dx, q) /\ Stays(-dy, r) /\ Stays(dy, s)
  BY DEF l4, l3, l2, l1, l0, u4, u3, u2, u1, u0, f4, f3, f2, f1
<1>. QED  BY <1>1, <1>2, <1>12, <1>13

(* The same for a segment that is mirrored to run from A upwards by m along *)
(* the one axis, and from B by n along the other.                           *)
Missed(A, m, B, n) ==
  \/ A > HalfLength \/ A + m < -HalfLength
  \/ B > HalfWidth \/ B + n < -HalfWidth
  \/ n * A - m * B > m * HalfWidth + n * HalfLength
  \/ m * B - n * A > m * HalfWidth + n * HalfLength

Mirrored(s, t, at, m) == \/ at = s /\ m = t - s
                         \/ at = -s /\ m = s - t

LEMMA BeyondIsMirrored ==
  ASSUME NEW s \in Int, NEW t \in Int, NEW at \in Int, NEW m \in Nat, Mirrored(s, t, at, m),
         NEW half \in Nat
  PROVE  Beyond(s, t, half) <=> at > half \/ at + m < -half
<1>1. CASE at = s /\ m = t - s
  BY <1>1 DEF Beyond
<1>2. CASE at = -s /\ m = s - t
  BY <1>2 DEF Beyond
<1>. QED  BY <1>1, <1>2 DEF Mirrored

LEMMA SidesAreMirrored ==
  ASSUME NEW a, NEW b, a.x \in Int, a.y \in Int, b.x \in Int, b.y \in Int,
         NEW A \in Int, NEW m \in Nat, NEW B \in Int, NEW n \in Nat,
         Mirrored(a.x, b.x, A, m), Mirrored(a.y, b.y, B, n)
  PROVE  LeftOf(a, b) \/ RightOf(a, b) <=>
           \/ n * A - m * B > m * HalfWidth + n * HalfLength
           \/ m * B - n * A > m * HalfWidth + n * HalfLength
<1>1. PICK mw \in Nat, nl \in Nat, mb \in Int, na \in Int :
        mw = m * HalfWidth /\ nl = n * HalfLength /\ mb = m * B /\ na = n * A
  <2>1. m * HalfWidth \in Nat /\ n * HalfLength \in Nat /\ m * B \in Int /\ n * A \in Int
    BY FootprintIsNat
  <2>. QED  BY <2>1
<1>. DEFINE pp == Side(a, b, HalfLength, HalfWidth)
            pm == Side(a, b, HalfLength, -HalfWidth)
            mp == Side(a, b, -HalfLength, HalfWidth)
            mm == Side(a, b, -HalfLength, -HalfWidth)
<1>2. /\ LeftOf(a, b) <=> pp > 0 /\ pm > 0 /\ mp > 0 /\ mm > 0
      /\ RightOf(a, b) <=> pp < 0 /\ pm < 0 /\ mp < 0 /\ mm < 0
  BY DEF LeftOf, RightOf
<1>3. PICK p \in Int, q \in Int, r \in Int, s \in Int, L \in Nat, W \in Nat :
        p = a.x /\ q = a.y /\ r = b.x /\ s = b.y /\ L = HalfLength /\ W = HalfWidth
  BY FootprintIsNat
<1>4. /\ pp = (r - p) * (W - q) - (s - q) * (L - p)
      /\ pm = (r - p) * (-W - q) - (s - q) * (L - p)
      /\ mp = (r - p) * (W - q) - (s - q) * (-L - p)
      /\ mm = (r - p) * (-W - q) - (s - q) * (-L - p)
  BY <1>3 DEF Side
<1>. HIDE DEF pp, pm, mp, mm
<1>5. CASE A = p /\ m = r - p /\ B = q /\ n = s - q
  <2>1. /\ pp = mw - mb - nl + na /\ pm = -mw - mb - nl + na
        /\ mp = mw - mb + nl + na /\ mm = -mw - mb + nl + na
    <3>1. /\ pp = m * (W - B) - n * (L - A) /\ pm = m * (-W - B) - n * (L - A)
          /\ mp = m * (W - B) - n * (-L - A) /\ mm = m * (-W - B) - n * (-L - A)
      BY <1>4, <1>5
    <3>. QED  BY <1>1, <1>3, <3>1
  <2>. QED  BY <1>1, <1>2, <2>1
<1>6. CASE A = p /\ m = r - p /\ B = -q /\ n = q - s
  <2>1. /\ pp = mw + mb + nl - na /\ pm = -mw + mb + nl - na
        /\ mp = mw + mb - nl - na /\ mm = -mw + mb - nl - na
    <3>1. /\ pp = m * (W + B) + n * (L - A) /\ pm = m * (-W + B) + n * (L - A)
          /\ mp = m * (W + B) + n * (-L - A) /\ mm = m * (-W + B) + n * (-L - A)
      <4>1. q = -B /\ s - q = -n /\ r - p = m /\ p = A
        BY <1>6
      <4>. QED  BY <1>4, <4>1
    <3>. QED  BY <1>1, <1>3, <3>1
  <2>. QED  BY <1>1, <1>2, <2>1
<1>7. CASE A = -p /\ m = p - r /\ B = q /\ n = s - q
  <2>1. /\ pp = -mw + mb - nl - na /\ pm = mw + mb - nl - na
        /\ mp = -mw + mb + nl - na /\ mm = mw + mb + nl - na
    <3>1. /\ pp = -(m * (W - B)) - n * (L + A) /\ pm = -(m * (-W - B)) - n * (L + A)
          /\ mp = -(m * (W - B)) - n * (-L + A) /\ mm = -(m * (-W - B)) - n * (-L + A)
      <4>1. q = B /\ s - q = n /\ r - p = -m /\ p = -A
        BY <1>7
      <4>. QED  BY <1>4, <4>1
    <3>. QED  BY <1>1, <1>3, <3>1
  <2>. QED  BY <1>1, <1>2, <2>1
<1>8. CASE A = -p /\ m = p - r /\ B = -q /\ n = q - s
  <2>1. /\ pp = -mw - mb + nl + na /\ pm = mw - mb + nl + na
        /\ mp = -mw - mb - nl + na /\ mm = mw - mb - nl + na
    <3>1. /\ pp = -(m * (W + B)) + n * (L + A) /\ pm = -(m * (-W + B)) + n * (L + A)
          /\ mp = -(m * (W + B)) + n * (-L + A) /\ mm = -(m * (-W + B)) + n * (-L + A)
      <4>1. q = -B /\ s - q = -n /\ r - p = -m /\ p = -A
        BY <1>8
      <4>. QED  BY <1>4, <4>1
    <3>. QED  BY <1>1, <1>3, <3>1
  <2>. QED  BY <1>1, <1>2, <2>1
<1>. QED  BY <1>3, <1>5, <1>6, <1>7, <1>8 DEF Mirrored

LEMMA ApartIsMissed ==
  ASSUME NEW a, NEW b, a.x \in Int, a.y \in Int, b.x \in Int, b.y \in Int,
         NEW A \in Int, NEW m \in Nat, NEW B \in Int, NEW n \in Nat,
         Mirrored(a.x, b.x, A, m), Mirrored(a.y, b.y, B, n)
  PROVE  Apart(a, b) <=> Missed(A, m, B, n)
<1>1. /\ Beyond(a.x, b.x, HalfLength) <=> A > HalfLength \/ A + m < -HalfLength
      /\ Beyond(a.y, b.y, HalfWidth) <=> B > HalfWidth \/ B + n < -HalfWidth
  BY BeyondIsMirrored, FootprintIsNat
<1>2. LeftOf(a, b) \/ RightOf(a, b) <=>
           \/ n * A - m * B > m * HalfWidth + n * HalfLength
           \/ m * B - n * A > m * HalfWidth + n * HalfLength
  BY SidesAreMirrored
<1>. QED  BY <1>1, <1>2 DEF Apart, Missed

(* What is left of the clips along the mirrored axes.                       *)
Meets(A, m, B, n) ==
  LET lx == IF m = 0 THEN {} ELSE {<<-HalfLength - A, m>>}
      ux == IF m = 0 THEN {} ELSE {<<HalfLength - A, m>>}
      ly == IF n = 0 THEN {} ELSE {<<-HalfWidth - B, n>>}
      uy == IF n = 0 THEN {} ELSE {<<HalfWidth - B, n>>}
  IN /\ m = 0 => A >= -HalfLength /\ A <= HalfLength
     /\ n = 0 => B >= -HalfWidth /\ B <= HalfWidth
     /\ \A l \in {<<0, 1>>} \cup lx \cup ly, u \in {<<1, 1>>} \cup ux \cup uy : ~ Less(u, l)

LEMMA MeetsOrMisses ==
  ASSUME HalfLength > 0, HalfWidth > 0,
         NEW A \in Int, NEW m \in Nat, NEW B \in Int, NEW n \in Nat
  PROVE  Meets(A, m, B, n) <=> ~ Missed(A, m, B, n)
<1>1. PICK L \in Nat, W \in Nat : L = HalfLength /\ W = HalfWidth /\ L > 0 /\ W > 0
  BY FootprintIsNat
<1>2. PICK mw \in Nat, nl \in Nat, mb \in Int, na \in Int :
        mw = m * W /\ nl = n * L /\ mb = m * B /\ na = n * A
  <2>1. m * W \in Nat /\ n * L \in Nat /\ m * B \in Int /\ n * A \in Int
    OBVIOUS
  <2>. QED  BY <2>1
<1>3. Missed(A, m, B, n) <=>
        \/ A > L \/ A + m < -L \/ B > W \/ B + n < -W
        \/ na - mb > mw + nl \/ mb - na > mw + nl
  BY <1>1, <1>2 DEF Missed
<1>4. ~ Less(<<1, 1>>, <<0, 1>>)
  BY DEF Less
<1>5. ASSUME NEW at \in Int, NEW k \in Nat \ {0}, NEW half \in Nat
      PROVE  /\ Less(<<1, 1>>, <<-half - at, k>>) <=> at + k < -half
             /\ Less(<<half - at, k>>, <<0, 1>>) <=> at > half
             /\ ~ Less(<<half - at, k>>, <<-half - at, k>>)
  <2>1. /\ Less(<<1, 1>>, <<-half - at, k>>) <=> at + k < -half
        /\ Less(<<half - at, k>>, <<0, 1>>) <=> at > half
    BY DEF Less
  <2>2. k * (half - at) >= k * (-half - at)
    BY ProductOrder
  <2>3. Less(<<half - at, k>>, <<-half - at, k>>) <=> k * (half - at) < k * (-half - at)
    BY DEF Less
  <2>. QED  BY <2>1, <2>2, <2>3
<1>6. CASE m = 0 /\ n = 0
  <2>1. Meets(A, m, B, n) <=> A >= -L /\ A <= L /\ B >= -W /\ B <= W
    BY <1>1, <1>4, <1>6 DEF Meets
  <2>2. mw = 0 /\ nl = 0 /\ mb = 0 /\ na = 0
    BY <1>2, <1>6
  <2>. QED  BY <1>3, <1>6, <2>1, <2>2
<1>7. CASE m = 0 /\ n > 0
  <2>1. Meets(A, m, B, n) <=> A >= -L /\ A <= L /\ ~ B + n < -W /\ ~ B > W
    <3>1. Meets(A, m, B, n) <=>
            /\ A >= -L /\ A <= L
            /\ \A l \in {<<0, 1>>, <<-W - B, n>>}, u \in {<<1, 1>>, <<W - B, n>>} : ~ Less(u, l)
      BY <1>1, <1>7 DEF Meets
    <3>. QED  BY <1>4, <1>5, <1>7, <3>1
  <2>2. mw = 0 /\ mb = 0
    BY <1>2, <1>7
  <2>3. (na > nl <=> A > L) /\ (-na > nl <=> A < -L)
    <3>1. (L < A <=> n * L < n * A) /\ (A < -L <=> n * A < n * (-L))
      BY <1>7, ProductOrder
    <3>2. n * (-L) = -nl
      BY <1>2
    <3>. QED  BY <1>2, <3>1, <3>2
  <2>. QED  BY <1>3, <1>7, <2>1, <2>2, <2>3
<1>8. CASE m > 0 /\ n = 0
  <2>1. Meets(A, m, B, n) <=> B >= -W /\ B <= W /\ ~ A + m < -L /\ ~ A > L
    <3>1. Meets(A, m, B, n) <=>
            /\ B >= -W /\ B <= W
            /\ \A l \in {<<0, 1>>, <<-L - A, m>>}, u \in {<<1, 1>>, <<L - A, m>>} : ~ Less(u, l)
      BY <1>1, <1>8 DEF Meets
    <3>. QED  BY <1>4, <1>5, <1>8, <3>1
  <2>2. nl = 0 /\ na = 0
    BY <1>2, <1>8
  <2>3. (mb > mw <=> B > W) /\ (-mb > mw <=> B < -W)
    <3>1. (W < B <=> m * W < m * B) /\ (B < -W <=> m * B < m * (-W))
      BY <1>8, ProductOrder
    <3>2. m * (-W) = -mw
      BY <1>2
    <3>. QED  BY <1>2, <3>1, <3>2
  <2>. QED  BY <1>3, <1>8, <2>1, <2>2, <2>3
<1>9. CASE m > 0 /\ n > 0
  <2>1. Meets(A, m, B, n) <=>
          \A l \in {<<0, 1>>, <<-L - A, m>>, <<-W - B, n>>},
             u \in {<<1, 1>>, <<L - A, m>>, <<W - B, n>>} : ~ Less(u, l)
    BY <1>1, <1>9 DEF Meets
  <2>2. /\ Less(<<W - B, n>>, <<-L - A, m>>) <=> mb - na > mw + nl
        /\ Less(<<L - A, m>>, <<-W - B, n>>) <=> na - mb > mw + nl
    <3>1. /\ Less(<<W - B, n>>, <<-L - A, m>>) <=> (W - B) * m < (-L - A) * n
          /\ Less(<<L - A, m>>, <<-W - B, n>>) <=> (L - A) * n < (-W - B) * m
      BY DEF Less
    <3>2. /\ (W - B) * m = mw - mb /\ (-L - A) * n = -nl - na
          /\ (L - A) * n = nl - na /\ (-W - B) * m = -mw - mb
      BY <1>2
    <3>. QED  BY <3>1, <3>2
  <2>3. /\ Less(<<1, 1>>, <<-L - A, m>>) <=> A + m < -L
        /\ Less(<<L - A, m>>, <<0, 1>>) <=> A > L
        /\ ~ Less(<<L - A, m>>, <<-L - A, m>>)
    BY <1>5, <1>9
  <2>4. /\ Less(<<1, 1>>, <<-W - B, n>>) <=> B + n < -W
        /\ Less(<<W - B, n>>, <<0, 1>>) <=> B > W
        /\ ~ Less(<<W - B, n>>, <<-W - B, n>>)
    BY <1>5, <1>9
  <2>. QED  BY <1>3, <1>4, <2>1, <2>2, <2>3, <2>4
<1>10. (m = 0 \/ m > 0) /\ (n = 0 \/ n > 0)
  OBVIOUS
<1>. QED  BY <1>6, <1>7, <1>8, <1>9, <1>10, Zenon

LEMMA BoxIsMet ==
  ASSUME HalfLength > 0, HalfWidth > 0,
         NEW a, NEW b, a.x \in Int, a.y \in Int, b.x \in Int, b.y \in Int
  PROVE  SegmentIntersectsBox(a, b) <=> ~ Apart(a, b)
<1>. DEFINE dx == b.x - a.x
            dy == b.y - a.y
            lx == LowerBounds(-dx, a.x + HalfLength) \cup LowerBounds(dx, HalfLength - a.x)
            ux == UpperBounds(-dx, a.x + HalfLength) \cup UpperBounds(dx, HalfLength - a.x)
            ly == LowerBounds(-dy, a.y + HalfWidth) \cup LowerBounds(dy, HalfWidth - a.y)
            uy == UpperBounds(-dy, a.y + HalfWidth) \cup UpperBounds(dy, HalfWidth - a.y)
            inx == Stays(-dx, a.x + HalfLength) /\ Stays(dx, HalfLength - a.x)
            iny == Stays(-dy, a.y + HalfWidth) /\ Stays(dy, HalfWidth - a.y)
<1>1. SegmentIntersectsBox(a, b) <=>
        inx /\ iny /\ \A l \in {<<0, 1>>} \cup lx \cup ly, u \in {<<1, 1>>} \cup ux \cup uy : ~ Less(u, l)
  BY BoxIsClipped
<1>2. dx \in Int /\ dy \in Int /\ HalfLength \in Nat \ {0} /\ HalfWidth \in Nat \ {0}
  BY FootprintIsNat
<1>3. PICK A \in Int, m \in Nat : Bounded(a.x, dx, HalfLength, A, m)
  BY <1>2, BoundsAlongAnAxis
<1>4. /\ \/ A = a.x /\ m = dx
         \/ A = -a.x /\ m = -dx
      /\ m = 0 => /\ lx = {} /\ ux = {}
                  /\ inx <=> A >= -HalfLength /\ A <= HalfLength
      /\ m > 0 => /\ lx = {<<-HalfLength - A, m>>} /\ ux = {<<HalfLength - A, m>>} /\ inx
  BY <1>3, Zenon DEF Bounded
<1>5. PICK B \in Int, n \in Nat : Bounded(a.y, dy, HalfWidth, B, n)
  BY <1>2, BoundsAlongAnAxis
<1>6. /\ \/ B = a.y /\ n = dy
         \/ B = -a.y /\ n = -dy
      /\ n = 0 => /\ ly = {} /\ uy = {}
                  /\ iny <=> B >= -HalfWidth /\ B <= HalfWidth
      /\ n > 0 => /\ ly = {<<-HalfWidth - B, n>>} /\ uy = {<<HalfWidth - B, n>>} /\ iny
  BY <1>5, Zenon DEF Bounded
<1>7. Mirrored(a.x, b.x, A, m) /\ Mirrored(a.y, b.y, B, n)
  <2>1. -dx = a.x - b.x /\ -dy = a.y - b.y
    OBVIOUS
  <2>. QED  BY <1>4, <1>6, <2>1 DEF Mirrored
<1>. HIDE DEF lx, ux, ly, uy, inx, iny
<1>8. SegmentIntersectsBox(a, b) <=> Meets(A, m, B, n)
  <2>1. (m = 0 \/ m > 0) /\ (n = 0 \/ n > 0) /\ ~ (m = 0 /\ m > 0) /\ ~ (n = 0 /\ n > 0)
    OBVIOUS
  <2>2. /\ lx = IF m = 0 THEN {} ELSE {<<-HalfLength - A, m>>}
        /\ ux = IF m = 0 THEN {} ELSE {<<HalfLength - A, m>>}
        /\ inx <=> (m = 0 => A >= -HalfLength /\ A <= HalfLength)
    BY <1>4, <2>1, Zenon
  <2>3. /\ ly = IF n = 0 THEN {} ELSE {<<-HalfWidth - B, n>>}
        /\ uy = IF n = 0 THEN {} ELSE {<<HalfWidth - B, n>>}
        /\ iny <=> (n = 0 => B >= -HalfWidth /\ B <= HalfWidth)
    BY <1>6, <2>1, Zenon
  <2>. QED  BY <1>1, <2>2, <2>3, Zenon DEF Meets
<1>9. Meets(A, m, B, n) <=> ~ Missed(A, m, B, n)
  BY MeetsOrMisses
<1>10. Apart(a, b) <=> Missed(A, m, B, n)
  BY <1>7, ApartIsMissed
<1>. QED  BY <1>8, <1>9, <1>10

-----------------------------------------------------------------------------
(* Walls                                                                    *)

(* A wall's envelope is around its two ends.                                *)
Framed(seg) ==
  /\ seg.a.x \in Int /\ seg.a.y \in Int /\ seg.b.x \in Int /\ seg.b.y \in Int
  /\ seg.lo.x \in {seg.a.x, seg.b.x} /\ seg.lo.x <= seg.a.x /\ seg.lo.x <= seg.b.x
  /\ seg.lo.y \in {seg.a.y, seg.b.y} /\ seg.lo.y <= seg.a.y /\ seg.lo.y <= seg.b.y
  /\ seg.hi.x \in {seg.a.x, seg.b.x} /\ seg.hi.x >= seg.a.x /\ seg.hi.x >= seg.b.x
  /\ seg.hi.y \in {seg.a.y, seg.b.y} /\ seg.hi.y >= seg.a.y /\ seg.hi.y >= seg.b.y

LEMMA BoundsOfTwo ==
  ASSUME NEW s \in Int, NEW t \in Int
  PROVE  /\ Min({s, t}) \in {s, t} /\ Min({s, t}) <= s /\ Min({s, t}) <= t
         /\ Max({s, t}) \in {s, t} /\ Max({s, t}) >= s /\ Max({s, t}) >= t
<1>1. \E x \in {s, t} : \A y \in {s, t} : x <= y
  OBVIOUS
<1>2. Min({s, t}) \in {s, t} /\ \A y \in {s, t} : Min({s, t}) <= y
  BY <1>1 DEF Min
<1>. QED  BY <1>2, MaxOfTwo

LEMMA EnvelopeOfTwo ==
  ASSUME NEW p \in [x : Int, y : Int], NEW q \in [x : Int, y : Int]
  PROVE  /\ Lo({p, q}).x = Min({p.x, q.x}) /\ Lo({p, q}).y = Min({p.y, q.y})
         /\ Hi({p, q}).x = Max({p.x, q.x}) /\ Hi({p, q}).y = Max({p.y, q.y})
<1>1. /\ {r.x : r \in {p, q}} = {p.x, q.x} /\ {r.y : r \in {p, q}} = {p.y, q.y}
  OBVIOUS
<1>. QED  BY <1>1 DEF Lo, Hi, Point

LEMMA LoopIsFramed ==
  ASSUME NEW points \in Seq([x : Int, y : Int])
  PROVE  IsFiniteSet(LoopToSegs(points)) /\ \A seg \in LoopToSegs(points) : Framed(seg)
<1>. DEFINE Points == [x : Int, y : Int]
            n == Len(points)
            of(i) == Wall(points[i], points[(i % n) + 1])
<1>1. n \in Nat /\ DOMAIN points = 1..n /\ \A i \in 1..n : points[i] \in Points
  <2>1. points \in Seq(Points)
    OBVIOUS
  <2>. HIDE DEF Points
  <2>. QED  BY <2>1
<1>2. LoopToSegs(points) = {of(i) : i \in 1..n}
  BY <1>1 DEF LoopToSegs
<1>3. IsFiniteSet(1..n)
  BY <1>1, FS_Interval
<1>4. IsFiniteSet({of(i) : i \in 1..n})
  <2>. DEFINE f == [i \in 1..n |-> of(i)]
              T == {of(i) : i \in 1..n}
  <2>1. f \in Surjection(1..n, T)
    <3>. HIDE DEF of
    <3>. QED  BY DEF Surjection
  <2>. HIDE DEF of, f, T
  <2>2. IsFiniteSet(T)
    BY <1>3, <2>1, FS_Surjection
  <2>. QED  BY <2>2 DEF T
<1>5. ASSUME NEW i \in 1..n PROVE Framed(of(i))
  <2>1. (i % n) + 1 \in 1..n
    <3>1. i % n \in 0..(n - 1)
      BY <1>1
    <3>. QED  BY <1>1, <3>1
  <2>2. PICK a \in Points, b \in Points : of(i) = Wall(a, b)
    BY <1>1, <2>1
  <2>3. Framed(Wall(a, b))
    <3>1. a.x \in Int /\ a.y \in Int /\ b.x \in Int /\ b.y \in Int
      OBVIOUS
    <3>2. /\ Wall(a, b).a = a /\ Wall(a, b).b = b
          /\ Wall(a, b).lo = Lo({a, b}) /\ Wall(a, b).hi = Hi({a, b})
      BY DEF Wall
    <3>3. /\ Wall(a, b).lo.x = Min({a.x, b.x}) /\ Wall(a, b).lo.y = Min({a.y, b.y})
          /\ Wall(a, b).hi.x = Max({a.x, b.x}) /\ Wall(a, b).hi.y = Max({a.y, b.y})
      <4>1. /\ Lo({a, b}).x = Min({a.x, b.x}) /\ Lo({a, b}).y = Min({a.y, b.y})
            /\ Hi({a, b}).x = Max({a.x, b.x}) /\ Hi({a, b}).y = Max({a.y, b.y})
        BY EnvelopeOfTwo
      <4>. QED  BY <3>2, <4>1
    <3>4. /\ Min({a.x, b.x}) \in {a.x, b.x} /\ Min({a.x, b.x}) <= a.x /\ Min({a.x, b.x}) <= b.x
          /\ Max({a.x, b.x}) \in {a.x, b.x} /\ Max({a.x, b.x}) >= a.x /\ Max({a.x, b.x}) >= b.x
      BY <3>1, BoundsOfTwo
    <3>5. /\ Min({a.y, b.y}) \in {a.y, b.y} /\ Min({a.y, b.y}) <= a.y /\ Min({a.y, b.y}) <= b.y
          /\ Max({a.y, b.y}) \in {a.y, b.y} /\ Max({a.y, b.y}) >= a.y /\ Max({a.y, b.y}) >= b.y
      BY <3>1, BoundsOfTwo
    <3>. HIDE DEF Points
    <3>. QED  BY <3>1, <3>2, <3>3, <3>4, <3>5 DEF Framed
  <2>. QED  BY <2>2, <2>3
<1>. HIDE DEF of
<1>. QED  BY <1>2, <1>4, <1>5

LEMMA WallsAreFramed == IsFiniteSet(Walls) /\ \A seg \in Walls : Framed(seg)
<1>1. /\ IsFiniteSet(LoopToSegs(InnerWalls)) /\ \A seg \in LoopToSegs(InnerWalls) : Framed(seg)
      /\ IsFiniteSet(LoopToSegs(OuterWalls)) /\ \A seg \in LoopToSegs(OuterWalls) : Framed(seg)
  BY LoopIsFramed, WallsArePoints
<1>. QED  BY <1>1, FS_Union DEF Walls

-----------------------------------------------------------------------------
(* The footprint                                                            *)

Corner(pose, lx, ly) == Point(pose.x + lx * Cos(pose.yaw) - ly * Sin(pose.yaw),
                              pose.y + lx * Sin(pose.yaw) + ly * Cos(pose.yaw))

(* Separated, for any pose                                                  *)
ClearOf(seg, pose) ==
  LET corners == FootprintCorners(pose)
      side(p) == (seg.b.x - seg.a.x) * (p.y - seg.a.y) - (seg.b.y - seg.a.y) * (p.x - seg.a.x)
  IN \/ \A p \in corners : p.x < seg.a.x /\ p.x < seg.b.x
     \/ \A p \in corners : p.x > seg.a.x /\ p.x > seg.b.x
     \/ \A p \in corners : p.y < seg.a.y /\ p.y < seg.b.y
     \/ \A p \in corners : p.y > seg.a.y /\ p.y > seg.b.y
     \/ \A p \in corners : side(p) > 0
     \/ \A p \in corners : side(p) < 0

LEMMA SeparatedIsClear == ASSUME NEW seg PROVE Separated(seg) <=> ClearOf(seg, car)
BY DEF Separated, ClearOf

(* Turned by a quarter, the box of the footprint is a box again.            *)
LEMMA FootprintIsABox ==
  ASSUME NEW pose, pose.x \in Int, pose.y \in Int, pose.yaw \in Int
  PROVE  \E ex \in Nat, ey \in Nat :
           /\ ex \in {HalfLength, HalfWidth} /\ ey \in {HalfLength, HalfWidth}
           /\ FootprintCorners(pose) =
                {Point(pose.x + ex, pose.y + ey), Point(pose.x + ex, pose.y - ey),
                 Point(pose.x - ex, pose.y + ey), Point(pose.x - ex, pose.y - ey)}
<1>1. PICK X \in Int, Y \in Int, L \in Nat, W \in Nat :
        X = pose.x /\ Y = pose.y /\ L = HalfLength /\ W = HalfWidth
  BY FootprintIsNat
<1>2. FootprintCorners(pose) = {Corner(pose, L, W), Corner(pose, L, -W),
                                Corner(pose, -L, W), Corner(pose, -L, -W)}
  BY <1>1 DEF FootprintCorners, Corner
<1>3. CASE Cos(pose.yaw) = 1 /\ Sin(pose.yaw) = 0
  <2>1. /\ Corner(pose, L, W) = Point(X + L, Y + W)
        /\ Corner(pose, L, -W) = Point(X + L, Y - W)
        /\ Corner(pose, -L, W) = Point(X - L, Y + W)
        /\ Corner(pose, -L, -W) = Point(X - L, Y - W)
    BY <1>1, <1>3 DEF Corner, Point
  <2>. QED  BY <1>1, <1>2, <2>1
<1>4. CASE Cos(pose.yaw) = 0 /\ Sin(pose.yaw) = 1
  <2>1. /\ Corner(pose, L, W) = Point(X - W, Y + L)
        /\ Corner(pose, L, -W) = Point(X + W, Y + L)
        /\ Corner(pose, -L, W) = Point(X - W, Y - L)
        /\ Corner(pose, -L, -W) = Point(X + W, Y - L)
    BY <1>1, <1>4 DEF Corner, Point
  <2>2. FootprintCorners(pose) = {Point(X + W, Y + L), Point(X + W, Y - L),
                                  Point(X - W, Y + L), Point(X - W, Y - L)}
    BY <1>2, <2>1
  <2>. QED  BY <1>1, <2>2
<1>5. CASE Cos(pose.yaw) = -1 /\ Sin(pose.yaw) = 0
  <2>1. /\ Corner(pose, L, W) = Point(X - L, Y - W)
        /\ Corner(pose, L, -W) = Point(X - L, Y + W)
        /\ Corner(pose, -L, W) = Point(X + L, Y - W)
        /\ Corner(pose, -L, -W) = Point(X + L, Y + W)
    BY <1>1, <1>5 DEF Corner, Point
  <2>2. FootprintCorners(pose) = {Point(X + L, Y + W), Point(X + L, Y - W),
                                  Point(X - L, Y + W), Point(X - L, Y - W)}
    BY <1>2, <2>1
  <2>. QED  BY <1>1, <2>2
<1>6. CASE Cos(pose.yaw) = 0 /\ Sin(pose.yaw) = -1
  <2>1. /\ Corner(pose, L, W) = Point(X + W, Y - L)
        /\ Corner(pose, L, -W) = Point(X - W, Y - L)
        /\ Corner(pose, -L, W) = Point(X + W, Y + L)
        /\ Corner(pose, -L, -W) = Point(X - W, Y + L)
    BY <1>1, <1>6 DEF Corner, Point
  <2>2. FootprintCorners(pose) = {Point(X + W, Y + L), Point(X + W, Y - L),
                                  Point(X - W, Y + L), Point(X - W, Y - L)}
    BY <1>2, <2>1
  <2>. QED  BY <1>1, <2>2
<1>. QED  BY <1>3, <1>4, <1>5, <1>6, DirectionIsUnit

(* A wall whose envelope does not meet the one of the footprint is clear of *)
(* it.                                                                      *)
LEMMA FarIsClear ==
  ASSUME NEW pose, pose.x \in Int, pose.y \in Int, pose.yaw \in Int,
         NEW seg \in Walls, seg \notin Near(FootprintCorners(pose))
  PROVE  ClearOf(seg, pose)
<1>1. PICK ex \in Nat, ey \in Nat :
        FootprintCorners(pose) =
                {Point(pose.x + ex, pose.y + ey), Point(pose.x + ex, pose.y - ey),
                 Point(pose.x - ex, pose.y + ey), Point(pose.x - ex, pose.y - ey)}
  BY FootprintIsABox
<1>. DEFINE corners == FootprintCorners(pose)
<1>2. /\ {p.x : p \in corners} = {pose.x + ex, pose.x - ex}
      /\ {p.y : p \in corners} = {pose.y + ey, pose.y - ey}
  BY <1>1 DEF Point
<1>3. \A p \in corners : /\ p.x \in {pose.x + ex, pose.x - ex}
                         /\ p.y \in {pose.y + ey, pose.y - ey}
  BY <1>1 DEF Point
<1>. HIDE DEF corners
<1>4. /\ Lo(corners).x <= pose.x - ex /\ Lo(corners).y <= pose.y - ey
      /\ Hi(corners).x >= pose.x + ex /\ Hi(corners).y >= pose.y + ey
      /\ Lo(corners).x \in Int /\ Lo(corners).y \in Int
      /\ Hi(corners).x \in Int /\ Hi(corners).y \in Int
  <2>1. /\ Lo(corners).x = Min({pose.x + ex, pose.x - ex})
        /\ Lo(corners).y = Min({pose.y + ey, pose.y - ey})
        /\ Hi(corners).x = Max({pose.x + ex, pose.x - ex})
        /\ Hi(corners).y = Max({pose.y + ey, pose.y - ey})
    BY <1>2 DEF Lo, Hi, Point
  <2>2. /\ pose.x + ex \in Int /\ pose.x - ex \in Int
        /\ pose.y + ey \in Int /\ pose.y - ey \in Int
    OBVIOUS
  <2>3. /\ Min({pose.x + ex, pose.x - ex}) \in {pose.x + ex, pose.x - ex}
        /\ Min({pose.x + ex, pose.x - ex}) <= pose.x - ex
        /\ Max({pose.x + ex, pose.x - ex}) \in {pose.x + ex, pose.x - ex}
        /\ Max({pose.x + ex, pose.x - ex}) >= pose.x + ex
    BY <2>2, BoundsOfTwo
  <2>4. /\ Min({pose.y + ey, pose.y - ey}) \in {pose.y + ey, pose.y - ey}
        /\ Min({pose.y + ey, pose.y - ey}) <= pose.y - ey
        /\ Max({pose.y + ey, pose.y - ey}) \in {pose.y + ey, pose.y - ey}
        /\ Max({pose.y + ey, pose.y - ey}) >= pose.y + ey
    BY <2>2, BoundsOfTwo
  <2>. QED  BY <2>1, <2>2, <2>3, <2>4
<1>5. Framed(seg)
  BY WallsAreFramed
<1>6. \/ seg.lo.x > Hi(corners).x \/ seg.hi.x < Lo(corners).x
      \/ seg.lo.y > Hi(corners).y \/ seg.hi.y < Lo(corners).y
  BY <1>4, <1>5 DEF Near, Framed, corners
<1>7. \/ \A p \in corners : p.x < seg.a.x /\ p.x < seg.b.x
      \/ \A p \in corners : p.x > seg.a.x /\ p.x > seg.b.x
      \/ \A p \in corners : p.y < seg.a.y /\ p.y < seg.b.y
      \/ \A p \in corners : p.y > seg.a.y /\ p.y > seg.b.y
  BY <1>3, <1>4, <1>5, <1>6 DEF Framed
<1>. QED  BY <1>7 DEF ClearOf, corners

(* All of some points before two others, or all behind them                 *)
PassedX(pts, s, t) == \/ \A p \in pts : p.x < s /\ p.x < t
                      \/ \A p \in pts : p.x > s /\ p.x > t
PassedY(pts, s, t) == \/ \A p \in pts : p.y < s /\ p.y < t
                      \/ \A p \in pts : p.y > s /\ p.y > t
BoxAround(X, Y, ex, ey) == {Point(X + ex, Y + ey), Point(X + ex, Y - ey),
                            Point(X - ex, Y + ey), Point(X - ex, Y - ey)}

LEMMA BoxIsPassed ==
  ASSUME NEW X \in Int, NEW Y \in Int, NEW ex \in Nat, NEW ey \in Nat,
         NEW s \in Int, NEW t \in Int
  PROVE  /\ PassedX(BoxAround(X, Y, ex, ey), s, t) <=> Beyond(s - X, t - X, ex)
         /\ PassedY(BoxAround(X, Y, ex, ey), s, t) <=> Beyond(s - Y, t - Y, ey)
<1>. DEFINE pts == BoxAround(X, Y, ex, ey)
<1>1. /\ (\A p \in pts : p.x < s /\ p.x < t) <=> X + ex < s /\ X + ex < t
      /\ (\A p \in pts : p.x > s /\ p.x > t) <=> X - ex > s /\ X - ex > t
  BY DEF Point, BoxAround
<1>2. /\ (\A p \in pts : p.y < s /\ p.y < t) <=> Y + ey < s /\ Y + ey < t
      /\ (\A p \in pts : p.y > s /\ p.y > t) <=> Y - ey > s /\ Y - ey > t
  BY DEF Point, BoxAround
<1>. HIDE DEF pts
<1>3. PassedX(pts, s, t) <=> Beyond(s - X, t - X, ex)
  BY <1>1 DEF Beyond, PassedX
<1>4. PassedY(pts, s, t) <=> Beyond(s - Y, t - Y, ey)
  BY <1>2 DEF Beyond, PassedY
<1>. QED  BY <1>3, <1>4 DEF pts

(* Seen from the car, a wall is clear of the footprint if it is apart from  *)
(* the box.                                                                 *)
LEMMA ClearIsApart ==
  ASSUME NEW pose, pose.x \in Int, pose.y \in Int, pose.yaw \in Int,
         NEW seg, seg.a.x \in Int, seg.a.y \in Int, seg.b.x \in Int, seg.b.y \in Int
  PROVE  /\ ClearOf(seg, pose) <=> Apart(WorldToVehicle(seg.a, pose), WorldToVehicle(seg.b, pose))
         /\ WorldToVehicle(seg.a, pose).x \in Int /\ WorldToVehicle(seg.a, pose).y \in Int
         /\ WorldToVehicle(seg.b, pose).x \in Int /\ WorldToVehicle(seg.b, pose).y \in Int
<1>1. PICK X \in Int, Y \in Int, L \in Nat, W \in Nat,
           sx \in Int, sy \in Int, tx \in Int, ty \in Int :
        /\ X = pose.x /\ Y = pose.y /\ L = HalfLength /\ W = HalfWidth
        /\ sx = seg.a.x /\ sy = seg.a.y /\ tx = seg.b.x /\ ty = seg.b.y
  BY FootprintIsNat
<1>. DEFINE a == WorldToVehicle(seg.a, pose)
            b == WorldToVehicle(seg.b, pose)
            side(p) == (tx - sx) * (p.y - sy) - (ty - sy) * (p.x - sx)
            corners == FootprintCorners(pose)
            alongx == PassedX(corners, sx, tx)
            alongy == PassedY(corners, sy, ty)
<1>2. ClearOf(seg, pose) <=> \/ alongx \/ alongy
                             \/ \A p \in corners : side(p) > 0
                             \/ \A p \in corners : side(p) < 0
  BY <1>1 DEF ClearOf, PassedX, PassedY
<1>3. /\ corners = {Corner(pose, lx, ly) : lx \in {-L, L}, ly \in {-W, W}}
      /\ corners = {Corner(pose, L, W), Corner(pose, L, -W),
                    Corner(pose, -L, W), Corner(pose, -L, -W)}
  BY <1>1 DEF FootprintCorners, Corner
<1>. DEFINE Seen == /\ a.x \in Int /\ a.y \in Int /\ b.x \in Int /\ b.y \in Int
                    /\ \A lx \in {-L, L}, ly \in {-W, W} :
                         Side(a, b, lx, ly) = side(Corner(pose, lx, ly))
                    /\ (alongx \/ alongy) <=> Beyond(a.x, b.x, L) \/ Beyond(a.y, b.y, W)
<1>4. ASSUME Cos(pose.yaw) = 1 /\ Sin(pose.yaw) = 0 PROVE Seen
  <2>1. /\ a.x = sx - X /\ a.y = sy - Y /\ b.x = tx - X /\ b.y = ty - Y
    BY <1>1, <1>4 DEF WorldToVehicle, Point
  <2>2. ASSUME NEW lx \in {-L, L}, NEW ly \in {-W, W}
        PROVE  /\ Corner(pose, lx, ly).x = X + lx /\ Corner(pose, lx, ly).y = Y + ly
               /\ Side(a, b, lx, ly) = side(Corner(pose, lx, ly))
    <3>1. lx \in Int /\ ly \in Int
      OBVIOUS
    <3>2. Corner(pose, lx, ly).x = X + lx /\ Corner(pose, lx, ly).y = Y + ly
      BY <1>1, <1>4, <3>1 DEF Corner, Point
    <3>. HIDE DEF a, b
    <3>3. Side(a, b, lx, ly)
            = ((tx - X) - (sx - X)) * (ly - (sy - Y)) - ((ty - Y) - (sy - Y)) * (lx - (sx - X))
      BY <2>1 DEF Side
    <3>. QED  BY <3>1, <3>2, <3>3
  <2>3. corners = BoxAround(X, Y, L, W)
    <3>1. /\ Corner(pose, L, W) = Point(X + L, Y + W)
          /\ Corner(pose, L, -W) = Point(X + L, Y - W)
          /\ Corner(pose, -L, W) = Point(X - L, Y + W)
          /\ Corner(pose, -L, -W) = Point(X - L, Y - W)
      BY <1>1, <1>4 DEF Corner, Point
    <3>. HIDE DEF corners
    <3>. QED  BY <1>3, <3>1 DEF BoxAround
  <2>. HIDE DEF a, b, corners, side
  <2>4. alongx <=> Beyond(sx - X, tx - X, L)
    BY <2>3, BoxIsPassed
  <2>5. alongy <=> Beyond(sy - Y, ty - Y, W)
    BY <2>3, BoxIsPassed
  <2>. HIDE DEF alongx, alongy
  <2>. QED  BY <2>1, <2>2, <2>4, <2>5
<1>5. ASSUME Cos(pose.yaw) = 0 /\ Sin(pose.yaw) = 1 PROVE Seen
  <2>1. /\ a.x = sy - Y /\ a.y = -(sx - X) /\ b.x = ty - Y /\ b.y = -(tx - X)
    BY <1>1, <1>5 DEF WorldToVehicle, Point
  <2>2. ASSUME NEW lx \in {-L, L}, NEW ly \in {-W, W}
        PROVE  Side(a, b, lx, ly) = side(Corner(pose, lx, ly))
    <3>1. lx \in Int /\ ly \in Int
      OBVIOUS
    <3>2. Corner(pose, lx, ly).x = X - ly /\ Corner(pose, lx, ly).y = Y + lx
      BY <1>1, <1>5, <3>1 DEF Corner, Point
    <3>. HIDE DEF a, b
    <3>3. Side(a, b, lx, ly)
            = ((ty - Y) - (sy - Y)) * (ly - -(sx - X)) - (-(tx - X) - -(sx - X)) * (lx - (sy - Y))
      BY <2>1 DEF Side
    <3>. QED  BY <3>1, <3>2, <3>3
  <2>3. corners = BoxAround(X, Y, W, L)
    <3>1. /\ Corner(pose, L, W) = Point(X - W, Y + L)
          /\ Corner(pose, L, -W) = Point(X + W, Y + L)
          /\ Corner(pose, -L, W) = Point(X - W, Y - L)
          /\ Corner(pose, -L, -W) = Point(X + W, Y - L)
      BY <1>1, <1>5 DEF Corner, Point
    <3>. HIDE DEF corners
    <3>. QED  BY <1>3, <3>1 DEF BoxAround
  <2>. HIDE DEF a, b, corners, side
  <2>4. alongx <=> Beyond(sx - X, tx - X, W)
    BY <2>3, BoxIsPassed
  <2>5. alongy <=> Beyond(sy - Y, ty - Y, L)
    BY <2>3, BoxIsPassed
  <2>. HIDE DEF alongx, alongy
  <2>6. Beyond(-(sx - X), -(tx - X), W) <=> Beyond(sx - X, tx - X, W)
    BY DEF Beyond
  <2>. QED  BY <2>1, <2>2, <2>4, <2>5, <2>6
<1>6. ASSUME Cos(pose.yaw) = -1 /\ Sin(pose.yaw) = 0 PROVE Seen
  <2>1. /\ a.x = -(sx - X) /\ a.y = -(sy - Y) /\ b.x = -(tx - X) /\ b.y = -(ty - Y)
    BY <1>1, <1>6 DEF WorldToVehicle, Point
  <2>2. ASSUME NEW lx \in {-L, L}, NEW ly \in {-W, W}
        PROVE  Side(a, b, lx, ly) = side(Corner(pose, lx, ly))
    <3>1. lx \in Int /\ ly \in Int
      OBVIOUS
    <3>2. Corner(pose, lx, ly).x = X - lx /\ Corner(pose, lx, ly).y = Y - ly
      BY <1>1, <1>6, <3>1 DEF Corner, Point
    <3>. HIDE DEF a, b
    <3>3. Side(a, b, lx, ly)
            = (-(tx - X) - -(sx - X)) * (ly - -(sy - Y)) - (-(ty - Y) - -(sy - Y)) * (lx - -(sx - X))
      BY <2>1 DEF Side
    <3>. QED  BY <3>1, <3>2, <3>3
  <2>3. corners = BoxAround(X, Y, L, W)
    <3>1. /\ Corner(pose, L, W) = Point(X - L, Y - W)
          /\ Corner(pose, L, -W) = Point(X - L, Y + W)
          /\ Corner(pose, -L, W) = Point(X + L, Y - W)
          /\ Corner(pose, -L, -W) = Point(X + L, Y + W)
      BY <1>1, <1>6 DEF Corner, Point
    <3>. HIDE DEF corners
    <3>. QED  BY <1>3, <3>1 DEF BoxAround
  <2>. HIDE DEF a, b, corners, side
  <2>4. alongx <=> Beyond(sx - X, tx - X, L)
    BY <2>3, BoxIsPassed
  <2>5. alongy <=> Beyond(sy - Y, ty - Y, W)
    BY <2>3, BoxIsPassed
  <2>. HIDE DEF alongx, alongy
  <2>6. /\ Beyond(-(sx - X), -(tx - X), L) <=> Beyond(sx - X, tx - X, L)
        /\ Beyond(-(sy - Y), -(ty - Y), W) <=> Beyond(sy - Y, ty - Y, W)
    BY DEF Beyond
  <2>. QED  BY <2>1, <2>2, <2>4, <2>5, <2>6
<1>7. ASSUME Cos(pose.yaw) = 0 /\ Sin(pose.yaw) = -1 PROVE Seen
  <2>1. /\ a.x = -(sy - Y) /\ a.y = sx - X /\ b.x = -(ty - Y) /\ b.y = tx - X
    BY <1>1, <1>7 DEF WorldToVehicle, Point
  <2>2. ASSUME NEW lx \in {-L, L}, NEW ly \in {-W, W}
        PROVE  Side(a, b, lx, ly) = side(Corner(pose, lx, ly))
    <3>1. lx \in Int /\ ly \in Int
      OBVIOUS
    <3>2. Corner(pose, lx, ly).x = X + ly /\ Corner(pose, lx, ly).y = Y - lx
      BY <1>1, <1>7, <3>1 DEF Corner, Point
    <3>. HIDE DEF a, b
    <3>3. Side(a, b, lx, ly)
            = (-(ty - Y) - -(sy - Y)) * (ly - (sx - X)) - ((tx - X) - (sx - X)) * (lx - -(sy - Y))
      BY <2>1 DEF Side
    <3>. QED  BY <3>1, <3>2, <3>3
  <2>3. corners = BoxAround(X, Y, W, L)
    <3>1. /\ Corner(pose, L, W) = Point(X + W, Y - L)
          /\ Corner(pose, L, -W) = Point(X - W, Y - L)
          /\ Corner(pose, -L, W) = Point(X + W, Y + L)
          /\ Corner(pose, -L, -W) = Point(X - W, Y + L)
      BY <1>1, <1>7 DEF Corner, Point
    <3>. HIDE DEF corners
    <3>. QED  BY <1>3, <3>1 DEF BoxAround
  <2>. HIDE DEF a, b, corners, side
  <2>4. alongx <=> Beyond(sx - X, tx - X, W)
    BY <2>3, BoxIsPassed
  <2>5. alongy <=> Beyond(sy - Y, ty - Y, L)
    BY <2>3, BoxIsPassed
  <2>. HIDE DEF alongx, alongy
  <2>6. Beyond(-(sy - Y), -(ty - Y), L) <=> Beyond(sy - Y, ty - Y, L)
    BY DEF Beyond
  <2>. QED  BY <2>1, <2>2, <2>4, <2>5, <2>6
<1>8. Seen
  <2>. HIDE DEF Seen
  <2>. QED  BY <1>4, <1>5, <1>6, <1>7, DirectionIsUnit
<1>. HIDE DEF a, b, corners, alongx, alongy, side
<1>9. /\ (\A p \in corners : side(p) > 0) <=> LeftOf(a, b)
      /\ (\A p \in corners : side(p) < 0) <=> RightOf(a, b)
  BY <1>1, <1>3, <1>8 DEF LeftOf, RightOf
<1>10. ClearOf(seg, pose) <=> Apart(a, b)
  BY <1>1, <1>2, <1>8, <1>9 DEF Apart
<1>. QED  BY <1>8, <1>10 DEF a, b

(* The crash test finds the walls that the footprint is not clear of.       *)
LEMMA CrashIsExact ==
  ASSUME HalfLength > 0, HalfWidth > 0,
         NEW pose, pose.x \in Int, pose.y \in Int, pose.yaw \in Int
  PROVE  FootprintIntersectsWall(pose) <=> \E seg \in Walls : ~ ClearOf(seg, pose)
<1>1. ASSUME NEW seg \in Walls
      PROVE  SegmentIntersectsBox(WorldToVehicle(seg.a, pose), WorldToVehicle(seg.b, pose))
               <=> ~ ClearOf(seg, pose)
  <2>1. seg.a.x \in Int /\ seg.a.y \in Int /\ seg.b.x \in Int /\ seg.b.y \in Int
    BY WallsAreFramed DEF Framed
  <2>2. PICK a, b : a = WorldToVehicle(seg.a, pose) /\ b = WorldToVehicle(seg.b, pose)
    OBVIOUS
  <2>3. /\ ClearOf(seg, pose) <=> Apart(a, b)
        /\ a.x \in Int /\ a.y \in Int /\ b.x \in Int /\ b.y \in Int
    BY <2>1, <2>2, ClearIsApart
  <2>4. SegmentIntersectsBox(a, b) <=> ~ Apart(a, b)
    BY <2>3, BoxIsMet
  <2>. QED  BY <2>2, <2>3, <2>4
<1>2. Near(FootprintCorners(pose)) \subseteq Walls
  BY DEF Near
<1>3. \A seg \in Walls : seg \notin Near(FootprintCorners(pose)) => ClearOf(seg, pose)
  BY FarIsClear
<1>. QED  BY <1>1, <1>2, <1>3 DEF FootprintIntersectsWall

-----------------------------------------------------------------------------
(* Rays                                                                     *)

(* The ends of a wall, as seen along a ray from o in direction d            *)
Units == {Point(1, 0), Point(0, 1), Point(-1, 0), Point(0, -1)}
Fwd(p, o, d) == (p.x - o.x) * d.x + (p.y - o.y) * d.y
Lat(p, o, d) == (p.y - o.y) * d.x - (p.x - o.x) * d.y

(* How far ahead the line of the wall is, as a fraction: ahead and behind   *)
(* have the same sign as the sides have an order.                           *)
Across(f, l, g, m) == IF m > l THEN <<f * m - l * g, m - l>> ELSE <<l * g - f * m, l - m>>

LEMMA HitsAreAcross ==
  ASSUME NEW seg, seg.a.x \in Int, seg.a.y \in Int, seg.b.x \in Int, seg.b.y \in Int,
         NEW o, o.x \in Int, o.y \in Int, NEW d \in Units
  PROVE  LET f == Fwd(seg.a, o, d)
             l == Lat(seg.a, o, d)
             g == Fwd(seg.b, o, d)
             m == Lat(seg.b, o, d)
             t == Across(f, l, g, m)
         IN /\ f \in Int /\ l \in Int /\ g \in Int /\ m \in Int
            /\ Hits(seg, o, d) = IF l # m /\ Opposite(l, m) /\ t[1] >= 0 THEN {t} ELSE {}
<1>1. PICK ax \in Int, ay \in Int, ex \in Int, ey \in Int :
        /\ ax = seg.a.x - o.x /\ ay = seg.a.y - o.y
        /\ ex = seg.b.x - seg.a.x /\ ey = seg.b.y - seg.a.y
  <2>1. /\ seg.a.x - o.x \in Int /\ seg.a.y - o.y \in Int
        /\ seg.b.x - seg.a.x \in Int /\ seg.b.y - seg.a.y \in Int
    OBVIOUS
  <2>. QED  BY <2>1
<1>2. seg.b.x - o.x = ax + ex /\ seg.b.y - o.y = ay + ey
  BY <1>1
<1>. DEFINE f == Fwd(seg.a, o, d)
            l == Lat(seg.a, o, d)
            g == Fwd(seg.b, o, d)
            m == Lat(seg.b, o, d)
            det == ax * ey - ay * ex
            t == Across(f, l, g, m)
<1>3. /\ f \in Int /\ l \in Int /\ g \in Int /\ m \in Int /\ det \in Int
      /\ d.x * ey - d.y * ex = m - l /\ ax * d.y - ay * d.x = -l
      /\ f * m - l * g = det
  <2>1. /\ f = ax * d.x + ay * d.y /\ l = ay * d.x - ax * d.y
        /\ g = (ax + ex) * d.x + (ay + ey) * d.y /\ m = (ay + ey) * d.x - (ax + ex) * d.y
    BY <1>1, <1>2 DEF Fwd, Lat
  <2>. HIDE DEF f, l, g, m
  <2>2. CASE d = Point(1, 0)
    <3>1. d.x = 1 /\ d.y = 0
      BY <2>2 DEF Point
    <3>2. f = ax /\ l = ay /\ g = ax + ex /\ m = ay + ey
      BY <2>1, <3>1
    <3>. QED  BY <3>1, <3>2
  <2>3. CASE d = Point(0, 1)
    <3>1. d.x = 0 /\ d.y = 1
      BY <2>3 DEF Point
    <3>2. f = ay /\ l = -ax /\ g = ay + ey /\ m = -(ax + ex)
      BY <2>1, <3>1
    <3>. QED  BY <3>1, <3>2
  <2>4. CASE d = Point(-1, 0)
    <3>1. d.x = -1 /\ d.y = 0
      BY <2>4 DEF Point
    <3>2. f = -ax /\ l = -ay /\ g = -(ax + ex) /\ m = -(ay + ey)
      BY <2>1, <3>1
    <3>. QED  BY <3>1, <3>2
  <2>5. CASE d = Point(0, -1)
    <3>1. d.x = 0 /\ d.y = -1
      BY <2>5 DEF Point
    <3>2. f = -ay /\ l = ax /\ g = -(ay + ey) /\ m = ax + ex
      BY <2>1, <3>1
    <3>. QED  BY <3>1, <3>2
  <2>. QED  BY <2>2, <2>3, <2>4, <2>5 DEF Units
<1>. DEFINE w == Frac(det, m - l)
            u == Frac(-l, m - l)
<1>4. Hits(seg, o, d) = IF m - l # 0 /\ w[1] >= 0 /\ u[1] >= 0 /\ u[1] <= u[2] THEN {w} ELSE {}
  <2>. HIDE DEF l, m
  <2>. QED  BY <1>1, <1>3 DEF Hits
<1>. HIDE DEF f, l, g, m, det
<1>5. Hits(seg, o, d) = IF l # m /\ Opposite(l, m) /\ t[1] >= 0 THEN {t} ELSE {}
  <2>1. CASE l = m
    BY <1>3, <1>4, <2>1
  <2>2. CASE m > l
    <3>1. w = <<det, m - l>> /\ u = <<-l, m - l>> /\ t = <<det, m - l>>
      BY <1>3, <2>2 DEF Frac, Across
    <3>2. Opposite(l, m) <=> -l >= 0 /\ -l <= m - l
      BY <1>3, <2>2 DEF Opposite
    <3>. HIDE DEF w, u, t
    <3>. QED  BY <1>3, <1>4, <2>2, <3>1, <3>2
  <2>3. CASE m < l
    <3>1. w = <<-det, l - m>> /\ u = <<l, l - m>> /\ t = <<-det, l - m>>
      <4>1. l * g - f * m = -det
        <5>1. PICK fm \in Int, lg \in Int : fm = f * m /\ lg = l * g
          BY <1>3
        <5>. QED  BY <1>3, <5>1
      <4>. QED  BY <1>3, <2>3, <4>1 DEF Frac, Across
    <3>2. Opposite(l, m) <=> l >= 0 /\ l <= l - m
      BY <1>3, <2>3 DEF Opposite
    <3>. HIDE DEF w, u, t
    <3>. QED  BY <1>3, <1>4, <2>3, <3>1, <3>2
  <2>4. l = m \/ m > l \/ m < l
    BY <1>3
  <2>. QED  BY <2>1, <2>2, <2>3, <2>4
<1>. HIDE DEF t
<1>. QED  BY <1>3, <1>5 DEF f, l, g, m, t

(* A hit is a place between the ends of the wall: its distance is the one   *)
(* of the ends, weighted so that their sides cancel.                        *)
Weighted(t, f, l, g, m, a, b) ==
  /\ a + b > 0 /\ t = <<a * f + b * g, a + b>> /\ a * l + b * m = 0

LEMMA HitIsBetween ==
  ASSUME NEW f \in Int, NEW l \in Int, NEW g \in Int, NEW m \in Int, l # m, Opposite(l, m)
  PROVE  \E a \in Nat, b \in Nat : Weighted(Across(f, l, g, m), f, l, g, m, a, b)
<1>1. CASE m > l
  <2>1. PICK a \in Nat, b \in Nat : a = m /\ b = -l
    BY <1>1 DEF Opposite
  <2>2. f * m - l * g = a * f + b * g
    <3>1. l = -b
      BY <2>1
    <3>. QED  BY <2>1, <3>1
  <2>3. a * l + b * m = 0 /\ a + b = m - l /\ a + b > 0
    BY <1>1, <2>1
  <2>4. Weighted(Across(f, l, g, m), f, l, g, m, a, b)
    BY <1>1, <2>2, <2>3 DEF Across, Weighted
  <2>. QED  BY <2>4
<1>2. CASE m < l
  <2>1. PICK a \in Nat, b \in Nat : a = -m /\ b = l
    BY <1>2 DEF Opposite
  <2>2. l * g - f * m = a * f + b * g
    <3>1. m = -a
      BY <2>1
    <3>. QED  BY <2>1, <3>1
  <2>3. a * l + b * m = 0 /\ a + b = l - m /\ a + b > 0
    BY <1>2, <2>1
  <2>4. Weighted(Across(f, l, g, m), f, l, g, m, a, b)
    BY <1>2, <2>2, <2>3 DEF Across, Weighted
  <2>. QED  BY <2>4
<1>. QED  BY <1>1, <1>2

LEMMA WeightsKeepBounds ==
  ASSUME NEW a \in Nat, NEW b \in Nat, a + b > 0, NEW f \in Int, NEW g \in Int, NEW r \in Int
  PROVE  /\ f > r /\ g > r => a * f + b * g > r * (a + b)
         /\ f < r /\ g < r => a * f + b * g < r * (a + b)
<1>1. ASSUME NEW p \in Nat, NEW q \in Nat \ {0}
      PROVE  p * q >= p
  OBVIOUS
<1>2. CASE f > r /\ g > r
  <2>1. PICK x \in Nat \ {0}, y \in Nat \ {0} : f = r + x /\ g = r + y
    <3>1. f - r \in Nat \ {0} /\ g - r \in Nat \ {0} /\ f = r + (f - r) /\ g = r + (g - r)
      BY <1>2
    <3>. QED  BY <3>1
  <2>2. a * f + b * g = r * (a + b) + (a * x + b * y)
    BY <2>1
  <2>3. a * x >= a /\ b * y >= b
    BY <1>1
  <2>4. PICK ax \in Int, by \in Int, z \in Int : ax = a * x /\ by = b * y /\ z = r * (a + b)
    OBVIOUS
  <2>. QED  BY <1>2, <2>2, <2>3, <2>4
<1>3. CASE f < r /\ g < r
  <2>1. PICK x \in Nat \ {0}, y \in Nat \ {0} : f = r - x /\ g = r - y
    <3>1. r - f \in Nat \ {0} /\ r - g \in Nat \ {0} /\ f = r - (r - f) /\ g = r - (r - g)
      BY <1>3
    <3>. QED  BY <3>1
  <2>2. a * f + b * g = r * (a + b) - (a * x + b * y)
    BY <2>1
  <2>3. a * x >= a /\ b * y >= b
    BY <1>1
  <2>4. PICK ax \in Int, by \in Int, z \in Int : ax = a * x /\ by = b * y /\ z = r * (a + b)
    OBVIOUS
  <2>. QED  BY <1>3, <2>2, <2>3, <2>4
<1>. QED  BY <1>2, <1>3

(* What a hit says of the ends of its wall                                  *)
LEMMA HitTells ==
  ASSUME NEW seg, seg.a.x \in Int, seg.a.y \in Int, seg.b.x \in Int, seg.b.y \in Int,
         NEW o, o.x \in Int, o.y \in Int, NEW d \in Units, NEW t \in Hits(seg, o, d)
  PROVE  LET f == Fwd(seg.a, o, d)
             l == Lat(seg.a, o, d)
             g == Fwd(seg.b, o, d)
             m == Lat(seg.b, o, d)
         IN /\ t \in Fractions /\ t[1] >= 0
            /\ ~ (l > 0 /\ m > 0) /\ ~ (l < 0 /\ m < 0) /\ ~ (f < 0 /\ g < 0)
            /\ \A r \in Nat : t[1] <= r * t[2] => ~ (f > r /\ g > r)
            /\ t[1] = 0 => \E a \in Nat, b \in Nat :
                             a + b > 0 /\ a * f + b * g = 0 /\ a * l + b * m = 0
<1>. DEFINE f == Fwd(seg.a, o, d)
            l == Lat(seg.a, o, d)
            g == Fwd(seg.b, o, d)
            m == Lat(seg.b, o, d)
<1>1. /\ f \in Int /\ l \in Int /\ g \in Int /\ m \in Int
      /\ l # m /\ Opposite(l, m) /\ t = Across(f, l, g, m) /\ t[1] >= 0
  BY HitsAreAcross
<1>. HIDE DEF f, l, g, m
<1>2. PICK a \in Nat, b \in Nat : Weighted(t, f, l, g, m, a, b)
  BY <1>1, HitIsBetween
<1>3. PICK n \in Int : n = a * f + b * g
  BY <1>1
<1>4. a + b > 0 /\ t[1] = n /\ t[2] = a + b /\ a * l + b * m = 0 /\ t \in Fractions
  BY <1>1, <1>2, <1>3 DEF Weighted, Fractions
<1>5. ~ (l > 0 /\ m > 0) /\ ~ (l < 0 /\ m < 0)
  BY <1>1 DEF Opposite
<1>6. ~ (f < 0 /\ g < 0)
  BY <1>1, <1>3, <1>4, WeightsKeepBounds
<1>7. ASSUME NEW r \in Nat, t[1] <= r * t[2] PROVE ~ (f > r /\ g > r)
  <2>1. r * (a + b) \in Int /\ n <= r * (a + b)
    BY <1>4, <1>7
  <2>. QED  BY <1>1, <1>3, <1>4, <2>1, WeightsKeepBounds
<1>. QED  BY <1>1, <1>3, <1>4, <1>5, <1>6, <1>7 DEF f, l, g, m

(* A wall that is hit within r is near the ray.                             *)
LEMMA HitIsNear ==
  ASSUME NEW seg \in Walls, NEW o \in [x : Int, y : Int], NEW d \in Units,
         NEW t \in Hits(seg, o, d), NEW r \in Nat, t[1] <= r * t[2]
  PROVE  seg \in Near({o, Point(o.x + d.x * r, o.y + d.y * r)})
<1>. DEFINE end == Point(o.x + d.x * r, o.y + d.y * r)
<1>1. Framed(seg) /\ o.x \in Int /\ o.y \in Int
  BY WallsAreFramed
<1>2. PICK ax \in Int, ay \in Int, bx \in Int, by \in Int :
        /\ ax = seg.a.x - o.x /\ ay = seg.a.y - o.y
        /\ bx = seg.b.x - o.x /\ by = seg.b.y - o.y
  <2>1. /\ seg.a.x - o.x \in Int /\ seg.a.y - o.y \in Int
        /\ seg.b.x - o.x \in Int /\ seg.b.y - o.y \in Int
    BY <1>1 DEF Framed
  <2>. QED  BY <2>1
<1>. DEFINE f == Fwd(seg.a, o, d)
            l == Lat(seg.a, o, d)
            g == Fwd(seg.b, o, d)
            m == Lat(seg.b, o, d)
<1>3. /\ ~ (l > 0 /\ m > 0) /\ ~ (l < 0 /\ m < 0)
      /\ ~ (f < 0 /\ g < 0) /\ ~ (f > r /\ g > r)
  BY <1>1, HitTells DEF Framed
<1>4. /\ f = ax * d.x + ay * d.y /\ l = ay * d.x - ax * d.y
      /\ g = bx * d.x + by * d.y /\ m = by * d.x - bx * d.y
  BY <1>2 DEF Fwd, Lat
<1>. HIDE DEF f, l, g, m
<1>5. /\ end \in [x : Int, y : Int]
      /\ ~ (ax > 0 /\ bx > 0 /\ ax > end.x - o.x /\ bx > end.x - o.x)
      /\ ~ (ax < 0 /\ bx < 0 /\ ax < end.x - o.x /\ bx < end.x - o.x)
      /\ ~ (ay > 0 /\ by > 0 /\ ay > end.y - o.y /\ by > end.y - o.y)
      /\ ~ (ay < 0 /\ by < 0 /\ ay < end.y - o.y /\ by < end.y - o.y)
  <2>1. CASE d = Point(1, 0)
    <3>1. d.x = 1 /\ d.y = 0 /\ end = Point(o.x + r, o.y)
      BY <1>1, <2>1 DEF Point
    <3>. QED  BY <1>1, <1>3, <1>4, <3>1 DEF Point
  <2>2. CASE d = Point(0, 1)
    <3>1. d.x = 0 /\ d.y = 1 /\ end = Point(o.x, o.y + r)
      BY <1>1, <2>2 DEF Point
    <3>. QED  BY <1>1, <1>3, <1>4, <3>1 DEF Point
  <2>3. CASE d = Point(-1, 0)
    <3>1. d.x = -1 /\ d.y = 0 /\ end = Point(o.x - r, o.y)
      BY <1>1, <2>3 DEF Point
    <3>. QED  BY <1>1, <1>3, <1>4, <3>1 DEF Point
  <2>4. CASE d = Point(0, -1)
    <3>1. d.x = 0 /\ d.y = -1 /\ end = Point(o.x, o.y - r)
      BY <1>1, <2>4 DEF Point
    <3>. QED  BY <1>1, <1>3, <1>4, <3>1 DEF Point
  <2>. QED  BY <2>1, <2>2, <2>3, <2>4 DEF Units
<1>. HIDE DEF end
<1>6. end.x \in Int /\ end.y \in Int
  BY <1>5
<1>7. /\ Lo({o, end}).x <= o.x /\ Lo({o, end}).x <= end.x /\ Lo({o, end}).x \in Int
      /\ Lo({o, end}).y <= o.y /\ Lo({o, end}).y <= end.y /\ Lo({o, end}).y \in Int
      /\ Hi({o, end}).x >= o.x /\ Hi({o, end}).x >= end.x /\ Hi({o, end}).x \in Int
      /\ Hi({o, end}).y >= o.y /\ Hi({o, end}).y >= end.y /\ Hi({o, end}).y \in Int
  <2>1. /\ Lo({o, end}).x = Min({o.x, end.x}) /\ Lo({o, end}).y = Min({o.y, end.y})
        /\ Hi({o, end}).x = Max({o.x, end.x}) /\ Hi({o, end}).y = Max({o.y, end.y})
    BY <1>5, EnvelopeOfTwo
  <2>2. /\ Min({o.x, end.x}) \in {o.x, end.x} /\ Min({o.x, end.x}) <= o.x
        /\ Min({o.x, end.x}) <= end.x
        /\ Max({o.x, end.x}) \in {o.x, end.x} /\ Max({o.x, end.x}) >= o.x
        /\ Max({o.x, end.x}) >= end.x
    BY <1>1, <1>6, BoundsOfTwo
  <2>3. /\ Min({o.y, end.y}) \in {o.y, end.y} /\ Min({o.y, end.y}) <= o.y
        /\ Min({o.y, end.y}) <= end.y
        /\ Max({o.y, end.y}) \in {o.y, end.y} /\ Max({o.y, end.y}) >= o.y
        /\ Max({o.y, end.y}) >= end.y
    BY <1>1, <1>6, BoundsOfTwo
  <2>. QED  BY <1>1, <1>6, <2>1, <2>2, <2>3
<1>8. /\ seg.lo.x <= Hi({o, end}).x /\ seg.hi.x >= Lo({o, end}).x
      /\ seg.lo.y <= Hi({o, end}).y /\ seg.hi.y >= Lo({o, end}).y
  BY <1>1, <1>2, <1>5, <1>6, <1>7 DEF Framed
<1>9. seg \in Near({o, end})
  BY <1>8 DEF Near
<1>. QED  BY <1>9 DEF end

(* A ray that is hit at once starts on the wall.                            *)
LEMMA HitAtOnce ==
  ASSUME NEW seg \in Walls, NEW o \in [x : Int, y : Int], NEW d \in Units,
         NEW t \in Hits(seg, o, d), t[1] = 0
  PROVE  LiesOn(o, seg)
<1>1. Framed(seg) /\ o.x \in Int /\ o.y \in Int
  BY WallsAreFramed
<1>2. PICK ax \in Int, ay \in Int, bx \in Int, by \in Int :
        /\ ax = seg.a.x - o.x /\ ay = seg.a.y - o.y
        /\ bx = seg.b.x - o.x /\ by = seg.b.y - o.y
  <2>1. /\ seg.a.x - o.x \in Int /\ seg.a.y - o.y \in Int
        /\ seg.b.x - o.x \in Int /\ seg.b.y - o.y \in Int
    BY <1>1 DEF Framed
  <2>. QED  BY <2>1
<1>. DEFINE f == Fwd(seg.a, o, d)
            l == Lat(seg.a, o, d)
            g == Fwd(seg.b, o, d)
            m == Lat(seg.b, o, d)
<1>3. PICK a \in Nat, b \in Nat : a + b > 0 /\ a * f + b * g = 0 /\ a * l + b * m = 0
  BY <1>1, HitTells DEF Framed
<1>4. /\ f = ax * d.x + ay * d.y /\ l = ay * d.x - ax * d.y
      /\ g = bx * d.x + by * d.y /\ m = by * d.x - bx * d.y
  BY <1>2 DEF Fwd, Lat
<1>. HIDE DEF f, l, g, m
<1>5. a * ax + b * bx = 0 /\ a * ay + b * by = 0
  <2>1. CASE d = Point(1, 0)
    <3>1. d.x = 1 /\ d.y = 0
      BY <2>1 DEF Point
    <3>2. f = ax /\ l = ay /\ g = bx /\ m = by
      BY <1>4, <3>1
    <3>. QED  BY <1>3, <3>2
  <2>2. CASE d = Point(0, 1)
    <3>1. d.x = 0 /\ d.y = 1
      BY <2>2 DEF Point
    <3>2. f = ay /\ l = -ax /\ g = by /\ m = -bx
      BY <1>4, <3>1
    <3>. QED  BY <1>3, <3>2
  <2>3. CASE d = Point(-1, 0)
    <3>1. d.x = -1 /\ d.y = 0
      BY <2>3 DEF Point
    <3>2. f = -ax /\ l = -ay /\ g = -bx /\ m = -by
      BY <1>4, <3>1
    <3>. QED  BY <1>3, <3>2
  <2>4. CASE d = Point(0, -1)
    <3>1. d.x = 0 /\ d.y = -1
      BY <2>4 DEF Point
    <3>2. f = -ay /\ l = ax /\ g = -by /\ m = bx
      BY <1>4, <3>1
    <3>. QED  BY <1>3, <3>2
  <2>. QED  BY <2>1, <2>2, <2>3, <2>4 DEF Units
<1>6. Opposite(ax, bx) /\ Opposite(ay, by)
  <2>1. ASSUME NEW p \in Int, NEW q \in Int, a * p + b * q = 0 PROVE Opposite(p, q)
    <3>1. ~ (p > 0 /\ q > 0) /\ ~ (p < 0 /\ q < 0)
      BY <1>3, <2>1, WeightsKeepBounds
    <3>. QED  BY <3>1 DEF Opposite
  <2>. QED  BY <1>5, <2>1
<1>7. ax * by - ay * bx = 0
  <2>1. a * (ax * by - ay * bx) = 0 /\ b * (ax * by - ay * bx) = 0
    <3>1. a * (ax * by - ay * bx) = (a * ax + b * bx) * by - (a * ay + b * by) * bx
      OBVIOUS
    <3>2. b * (ax * by - ay * bx) = (a * ay + b * by) * ax * 1 - (a * ax + b * bx) * ay
      OBVIOUS
    <3>3. 0 * by - 0 * bx = 0 /\ 0 * ax * 1 - 0 * ay = 0
      OBVIOUS
    <3>. QED  BY <1>5, <3>1, <3>2, <3>3
  <2>2. PICK z \in Int : z = ax * by - ay * bx
    OBVIOUS
  <2>3. ASSUME NEW c \in Nat \ {0}, c * z = 0 PROVE z = 0
    BY <2>3
  <2>4. a # 0 \/ b # 0
    BY <1>3
  <2>. QED  BY <2>1, <2>2, <2>3, <2>4
<1>8. Orientation(seg.a, seg.b, o) = ax * by - ay * bx
  <2>1. Orientation(seg.a, seg.b, o) = (bx - ax) * (-ay) - (by - ay) * (-ax)
    <3>1. /\ seg.b.x - seg.a.x = bx - ax /\ o.y - seg.a.y = -ay
          /\ seg.b.y - seg.a.y = by - ay /\ o.x - seg.a.x = -ax
      BY <1>1, <1>2 DEF Framed
    <3>. QED  BY <3>1 DEF Orientation
  <2>. QED  BY <2>1
<1>. QED  BY <1>2, <1>6, <1>7, <1>8 DEF LiesOn

LEMMA OppositeScaled ==
  ASSUME NEW c \in Nat \ {0}, NEW s \in Int, NEW t \in Int
  PROVE  Opposite(c * s, c * t) <=> Opposite(s, t)
<1>1. /\ (0 <= s <=> c * 0 <= c * s) /\ (s <= 0 <=> c * s <= c * 0)
      /\ (0 <= t <=> c * 0 <= c * t) /\ (t <= 0 <=> c * t <= c * 0)
  BY ProductOrder
<1>2. PICK cs \in Int, ct \in Int : cs = c * s /\ ct = c * t
  OBVIOUS
<1>3. c * 0 = 0
  OBVIOUS
<1>. QED  BY <1>1, <1>2, <1>3 DEF Opposite

(* The orientations of four points by their differences                     *)
LEMMA OrientationsOfFour ==
  ASSUME NEW F \in Int, NEW L \in Int, NEW G \in Int, NEW M \in Int, NEW n \in Int
  PROVE  /\ (G - F) * (-L) - (M - L) * (-F) = F * M - L * G
         /\ (G - F) * (-L) - (M - L) * (n - F) = F * M - L * G - n * (M - L)
         /\ (-M - -L) * (-F) - (G - F) * (-(-L)) = F * M - L * G
         /\ (-M - -L) * (n - F) - (G - F) * (-(-L)) = F * M - L * G - n * (M - L)
         /\ (-G - -F) * (-(-L)) - (-M - -L) * (-(-F)) = F * M - L * G
         /\ (-G - -F) * (-(-L)) - (-M - -L) * (-n - -F) = F * M - L * G - n * (M - L)
         /\ (M - L) * (-(-F)) - (-G - -F) * (-L) = F * M - L * G
         /\ (M - L) * (-n - -F) - (-G - -F) * (-L) = F * M - L * G - n * (M - L)
<1>1. /\ (G - F) * (-L) - (M - L) * (-F) = F * M - L * G
      /\ (G - F) * (-L) - (M - L) * (n - F) = F * M - L * G - n * (M - L)
  OBVIOUS
<1>2. /\ (-M - -L) * (-F) - (G - F) * (-(-L)) = F * M - L * G
      /\ (-M - -L) * (n - F) - (G - F) * (-(-L)) = F * M - L * G - n * (M - L)
  OBVIOUS
<1>3. /\ (-G - -F) * (-(-L)) - (-M - -L) * (-(-F)) = F * M - L * G
      /\ (-G - -F) * (-(-L)) - (-M - -L) * (-n - -F) = F * M - L * G - n * (M - L)
  OBVIOUS
<1>4. /\ (M - L) * (-(-F)) - (-G - -F) * (-L) = F * M - L * G
      /\ (M - L) * (-n - -F) - (-G - -F) * (-L) = F * M - L * G - n * (M - L)
  OBVIOUS
<1>. QED  BY <1>1, <1>2, <1>3, <1>4

(* In the frame of the ray                                                  *)
RayOriented(a, b, p, q, k, n, f, l, g, m) ==
  /\ Orientation(a, b, p) = k * (k * (f * m - l * g))
  /\ Orientation(a, b, q) = k * (k * (f * m - l * g) - n * (m - l))
  /\ Orientation(p, q, a) = k * (n * l) /\ Orientation(p, q, b) = k * (n * m)

LEMMA OrientationsAlongARay ==
  ASSUME NEW seg, seg.a.x \in Int, seg.a.y \in Int, seg.b.x \in Int, seg.b.y \in Int,
         NEW o, o.x \in Int, o.y \in Int, NEW d \in Units,
         NEW k \in Nat \ {0}, NEW n \in Nat \ {0},
         NEW f \in Int, NEW l \in Int, NEW g \in Int, NEW m \in Int,
         f = Fwd(seg.a, o, d), l = Lat(seg.a, o, d), g = Fwd(seg.b, o, d), m = Lat(seg.b, o, d),
         NEW p, NEW q, NEW a, NEW b,
         p = Point(k * o.x, k * o.y), q = Point(p.x + n * d.x, p.y + n * d.y),
         a = Point(k * seg.a.x, k * seg.a.y), b = Point(k * seg.b.x, k * seg.b.y)
  PROVE  RayOriented(a, b, p, q, k, n, f, l, g, m)
<1>1. PICK X \in Int, Y \in Int, ax \in Int, ay \in Int, bx \in Int, by \in Int :
        /\ X = o.x /\ Y = o.y
        /\ ax = seg.a.x - X /\ ay = seg.a.y - Y
        /\ bx = seg.b.x - X /\ by = seg.b.y - Y
  <2>1. /\ seg.a.x - o.x \in Int /\ seg.a.y - o.y \in Int
        /\ seg.b.x - o.x \in Int /\ seg.b.y - o.y \in Int
    OBVIOUS
  <2>. QED  BY <2>1
<1>2. /\ f = ax * d.x + ay * d.y /\ l = ay * d.x - ax * d.y
      /\ g = bx * d.x + by * d.y /\ m = by * d.x - bx * d.y
  BY <1>1 DEF Fwd, Lat
<1>3. PICK px \in Int, py \in Int, kx \in Int, ky \in Int, lx \in Int, ly \in Int :
        /\ px = k * X /\ py = k * Y
        /\ kx = k * ax /\ ky = k * ay /\ lx = k * bx /\ ly = k * by
  <2>1. /\ k * X \in Int /\ k * Y \in Int /\ k * ax \in Int /\ k * ay \in Int
        /\ k * bx \in Int /\ k * by \in Int
    OBVIOUS
  <2>. QED  BY <2>1, Zenon
<1>4. /\ p.x = px /\ p.y = py
      /\ q.x = px + n * d.x /\ q.y = py + n * d.y
      /\ a.x = px + kx /\ a.y = py + ky
      /\ b.x = px + lx /\ b.y = py + ly
  <2>1. p.x = px /\ p.y = py
    BY <1>1, <1>3 DEF Point
  <2>2. q.x = px + n * d.x /\ q.y = py + n * d.y
    BY <2>1 DEF Point
  <2>3. /\ seg.a.x = X + ax /\ seg.a.y = Y + ay /\ seg.b.x = X + bx /\ seg.b.y = Y + by
    BY <1>1
  <2>4. /\ k * (X + ax) = px + kx /\ k * (Y + ay) = py + ky
        /\ k * (X + bx) = px + lx /\ k * (Y + by) = py + ly
    BY <1>3
  <2>5. /\ a.x = k * seg.a.x /\ a.y = k * seg.a.y /\ b.x = k * seg.b.x /\ b.y = k * seg.b.y
    BY DEF Point
  <2>6. /\ a.x = px + kx /\ a.y = py + ky /\ b.x = px + lx /\ b.y = py + ly
    BY <2>3, <2>4, <2>5
  <2>. QED  BY <2>1, <2>2, <2>6
<1>5. PICK F \in Int, L \in Int, G \in Int, M \in Int :
        F = k * f /\ L = k * l /\ G = k * g /\ M = k * m
  <2>1. \A i, j \in Int : i * j \in Int
    OBVIOUS
  <2>2. k * f \in Int /\ k * l \in Int /\ k * g \in Int /\ k * m \in Int
    BY <2>1
  <2>. QED  BY <2>2, Zenon
<1>6. /\ Orientation(a, b, p) = F * M - L * G
      /\ Orientation(a, b, q) = F * M - L * G - n * (M - L)
      /\ Orientation(p, q, a) = n * L /\ Orientation(p, q, b) = n * M
  <2>1. CASE d = Point(1, 0)
    <3>1. d.x = 1 /\ d.y = 0
      BY <2>1 DEF Point
    <3>2. ax = f /\ ay = l /\ bx = g /\ by = m
      BY <1>2, <3>1
    <3>3. kx = F /\ ky = L /\ lx = G /\ ly = M
      BY <1>3, <1>5, <3>2
    <3>4. q.x = px + n /\ q.y = py + 0
      BY <1>4, <3>1
    <3>5. /\ Orientation(a, b, p) = (G - F) * (-L) - (M - L) * (-F)
          /\ Orientation(a, b, q) = (G - F) * (-L) - (M - L) * (n - F)
      <4>1. /\ b.x - a.x = G - F /\ b.y - a.y = M - L
            /\ p.x - a.x = -F /\ p.y - a.y = -L
            /\ q.x - a.x = n - F /\ q.y - a.y = -L
        BY <1>4, <3>3, <3>4
      <4>. QED  BY <4>1 DEF Orientation
    <3>6. /\ Orientation(p, q, a) = (n) * (L) - (0) * (F)
          /\ Orientation(p, q, b) = (n) * (M) - (0) * (G)
      <4>1. /\ q.x - p.x = n /\ q.y - p.y = 0
            /\ a.x - p.x = F /\ a.y - p.y = L /\ b.x - p.x = G /\ b.y - p.y = M
        BY <1>4, <3>3, <3>4
      <4>. QED  BY <4>1 DEF Orientation
    <3>7. Orientation(p, q, a) = n * L /\ Orientation(p, q, b) = n * M
      BY <3>6
    <3>. QED  BY <3>5, <3>7, OrientationsOfFour
  <2>2. CASE d = Point(0, 1)
    <3>1. d.x = 0 /\ d.y = 1
      BY <2>2 DEF Point
    <3>2. ax = -l /\ ay = f /\ bx = -m /\ by = g
      BY <1>2, <3>1
    <3>3. kx = -L /\ ky = F /\ lx = -M /\ ly = G
      BY <1>3, <1>5, <3>2
    <3>4. q.x = px + 0 /\ q.y = py + n
      BY <1>4, <3>1
    <3>5. /\ Orientation(a, b, p) = (-M - -L) * (-F) - (G - F) * (-(-L))
          /\ Orientation(a, b, q) = (-M - -L) * (n - F) - (G - F) * (-(-L))
      <4>1. /\ b.x - a.x = -M - -L /\ b.y - a.y = G - F
            /\ p.x - a.x = -(-L) /\ p.y - a.y = -F
            /\ q.x - a.x = -(-L) /\ q.y - a.y = n - F
        BY <1>4, <3>3, <3>4
      <4>. QED  BY <4>1 DEF Orientation
    <3>6. /\ Orientation(p, q, a) = (0) * (F) - (n) * (-L)
          /\ Orientation(p, q, b) = (0) * (G) - (n) * (-M)
      <4>1. /\ q.x - p.x = 0 /\ q.y - p.y = n
            /\ a.x - p.x = -L /\ a.y - p.y = F /\ b.x - p.x = -M /\ b.y - p.y = G
        BY <1>4, <3>3, <3>4
      <4>. QED  BY <4>1 DEF Orientation
    <3>7. Orientation(p, q, a) = n * L /\ Orientation(p, q, b) = n * M
      BY <3>6
    <3>. QED  BY <3>5, <3>7, OrientationsOfFour
  <2>3. CASE d = Point(-1, 0)
    <3>1. d.x = -1 /\ d.y = 0
      BY <2>3 DEF Point
    <3>2. ax = -f /\ ay = -l /\ bx = -g /\ by = -m
      BY <1>2, <3>1
    <3>3. kx = -F /\ ky = -L /\ lx = -G /\ ly = -M
      BY <1>3, <1>5, <3>2
    <3>4. q.x = px + -n /\ q.y = py + 0
      BY <1>4, <3>1
    <3>5. /\ Orientation(a, b, p) = (-G - -F) * (-(-L)) - (-M - -L) * (-(-F))
          /\ Orientation(a, b, q) = (-G - -F) * (-(-L)) - (-M - -L) * (-n - -F)
      <4>1. /\ b.x - a.x = -G - -F /\ b.y - a.y = -M - -L
            /\ p.x - a.x = -(-F) /\ p.y - a.y = -(-L)
            /\ q.x - a.x = -n - -F /\ q.y - a.y = -(-L)
        BY <1>4, <3>3, <3>4
      <4>. QED  BY <4>1 DEF Orientation
    <3>6. /\ Orientation(p, q, a) = (-n) * (-L) - (0) * (-F)
          /\ Orientation(p, q, b) = (-n) * (-M) - (0) * (-G)
      <4>1. /\ q.x - p.x = -n /\ q.y - p.y = 0
            /\ a.x - p.x = -F /\ a.y - p.y = -L /\ b.x - p.x = -G /\ b.y - p.y = -M
        BY <1>4, <3>3, <3>4
      <4>. QED  BY <4>1 DEF Orientation
    <3>7. Orientation(p, q, a) = n * L /\ Orientation(p, q, b) = n * M
      BY <3>6
    <3>. QED  BY <3>5, <3>7, OrientationsOfFour
  <2>4. CASE d = Point(0, -1)
    <3>1. d.x = 0 /\ d.y = -1
      BY <2>4 DEF Point
    <3>2. ax = l /\ ay = -f /\ bx = m /\ by = -g
      BY <1>2, <3>1
    <3>3. kx = L /\ ky = -F /\ lx = M /\ ly = -G
      BY <1>3, <1>5, <3>2
    <3>4. q.x = px + 0 /\ q.y = py + -n
      BY <1>4, <3>1
    <3>5. /\ Orientation(a, b, p) = (M - L) * (-(-F)) - (-G - -F) * (-L)
          /\ Orientation(a, b, q) = (M - L) * (-n - -F) - (-G - -F) * (-L)
      <4>1. /\ b.x - a.x = M - L /\ b.y - a.y = -G - -F
            /\ p.x - a.x = -L /\ p.y - a.y = -(-F)
            /\ q.x - a.x = -L /\ q.y - a.y = -n - -F
        BY <1>4, <3>3, <3>4
      <4>. QED  BY <4>1 DEF Orientation
    <3>6. /\ Orientation(p, q, a) = (0) * (-F) - (-n) * (L)
          /\ Orientation(p, q, b) = (0) * (-G) - (-n) * (M)
      <4>1. /\ q.x - p.x = 0 /\ q.y - p.y = -n
            /\ a.x - p.x = L /\ a.y - p.y = -F /\ b.x - p.x = M /\ b.y - p.y = -G
        BY <1>4, <3>3, <3>4
      <4>. QED  BY <4>1 DEF Orientation
    <3>7. Orientation(p, q, a) = n * L /\ Orientation(p, q, b) = n * M
      BY <3>6
    <3>. QED  BY <3>5, <3>7, OrientationsOfFour
  <2>. QED  BY <2>1, <2>2, <2>3, <2>4 DEF Units
<1>7. F * M - L * G = k * (k * (f * m - l * g))
  BY <1>5
<1>8. k * (k * (f * m - l * g)) - n * (M - L) = k * (k * (f * m - l * g) - n * (m - l))
  <2>1. n * (M - L) = k * (n * (m - l))
    BY <1>5
  <2>2. PICK u \in Int, v \in Int : u = k * (f * m - l * g) /\ v = n * (m - l)
    OBVIOUS
  <2>3. k * u - k * v = k * (u - v)
    OBVIOUS
  <2>. QED  BY <2>1, <2>2, <2>3
<1>9. n * L = k * (n * l) /\ n * M = k * (n * m)
  BY <1>5
<1>. QED  BY <1>6, <1>7, <1>8, <1>9 DEF RayOriented

(* A ray as far as n/k crosses the walls that are hit within n/k.           *)
LEMMA CrossingIsAHit ==
  ASSUME NEW seg, seg.a.x \in Int, seg.a.y \in Int, seg.b.x \in Int, seg.b.y \in Int,
         NEW o, o.x \in Int, o.y \in Int, NEW d \in Units,
         NEW k \in Nat \ {0}, NEW n \in Nat \ {0}
  PROVE  LET p == Point(k * o.x, k * o.y)
         IN Crosses(seg, p, Point(p.x + n * d.x, p.y + n * d.y), k)
              <=> \E t \in Hits(seg, o, d) : k * t[1] <= n * t[2]
<1>0. PICK p, q, a, b :
        /\ p = Point(k * o.x, k * o.y) /\ q = Point(p.x + n * d.x, p.y + n * d.y)
        /\ a = Point(k * seg.a.x, k * seg.a.y) /\ b = Point(k * seg.b.x, k * seg.b.y)
  OBVIOUS
<1>1. PICK f \in Int, l \in Int, g \in Int, m \in Int :
        /\ f = Fwd(seg.a, o, d) /\ l = Lat(seg.a, o, d)
        /\ g = Fwd(seg.b, o, d) /\ m = Lat(seg.b, o, d)
        /\ Hits(seg, o, d) = IF l # m /\ Opposite(l, m) /\ Across(f, l, g, m)[1] >= 0
                             THEN {Across(f, l, g, m)} ELSE {}
  BY HitsAreAcross
<1>2. PICK T \in Int, e \in Int : T = f * m - l * g /\ e = m - l
  OBVIOUS
<1>3. /\ Orientation(a, b, p) = k * (k * T)
      /\ Orientation(a, b, q) = k * (k * T - n * e)
      /\ Orientation(p, q, a) = k * (n * l) /\ Orientation(p, q, b) = k * (n * m)
  <2>1. /\ f = Fwd(seg.a, o, d) /\ l = Lat(seg.a, o, d)
        /\ g = Fwd(seg.b, o, d) /\ m = Lat(seg.b, o, d)
    BY <1>1
  <2>2. RayOriented(a, b, p, q, k, n, f, l, g, m)
    BY <1>0, <2>1, OrientationsAlongARay
  <2>. QED  BY <1>2, <2>2 DEF RayOriented
<1>4. Across(f, l, g, m) = IF e > 0 THEN <<T, e>> ELSE <<-T, -e>>
  <2>1. l * g - f * m = -T
    <3>1. PICK fm \in Int, lg \in Int : fm = f * m /\ lg = l * g
      OBVIOUS
    <3>. QED  BY <1>2, <3>1
  <2>2. (e > 0 <=> m > l) /\ -e = l - m
    BY <1>2
  <2>3. Across(f, l, g, m) = IF m > l THEN <<T, e>> ELSE <<-T, l - m>>
    BY <1>2, <2>1 DEF Across
  <2>. QED  BY <2>2, <2>3
<1>5. Crosses(seg, p, q, k) <=>
        /\ Orientation(a, b, p) # Orientation(a, b, q)
        /\ Opposite(Orientation(a, b, p), Orientation(a, b, q))
        /\ Opposite(Orientation(p, q, a), Orientation(p, q, b))
  BY <1>0 DEF Crosses
<1>6. PICK kT \in Int, ne \in Int, nl \in Int, nm \in Int :
        kT = k * T /\ ne = n * e /\ nl = n * l /\ nm = n * m
  OBVIOUS
<1>7. Opposite(Orientation(a, b, p), Orientation(a, b, q)) <=> Opposite(kT, kT - ne)
  <2>1. k * T \in Int /\ k * T - n * e \in Int
    BY <1>6
  <2>2. Opposite(k * (k * T), k * (k * T - n * e)) <=> Opposite(k * T, k * T - n * e)
    BY <2>1, OppositeScaled
  <2>. QED  BY <1>3, <1>6, <2>2
<1>8. Opposite(Orientation(p, q, a), Orientation(p, q, b)) <=> Opposite(l, m)
  <2>1. Opposite(k * nl, k * nm) <=> Opposite(nl, nm)
    BY OppositeScaled
  <2>2. Opposite(n * l, n * m) <=> Opposite(l, m)
    BY OppositeScaled
  <2>. QED  BY <1>3, <1>6, <2>1, <2>2
<1>9. Orientation(a, b, p) # Orientation(a, b, q) <=> ne # 0
  <2>1. ASSUME NEW s \in Int, NEW t \in Int, k * s = k * t PROVE s = t
    BY <2>1
  <2>2. kT - ne \in Int /\ (kT = kT - ne <=> ne = 0)
    OBVIOUS
  <2>. QED  BY <1>3, <1>6, <2>1, <2>2
<1>10. /\ (0 < e <=> 0 < ne) /\ (e < 0 <=> ne < 0) /\ (0 <= T <=> 0 <= kT) /\ (T <= 0 <=> kT <= 0)
  <2>1. /\ (0 < e <=> n * 0 < n * e) /\ (e < 0 <=> n * e < n * 0)
        /\ (0 <= T <=> k * 0 <= k * T) /\ (T <= 0 <=> k * T <= k * 0)
    BY ProductOrder
  <2>2. n * 0 = 0 /\ k * 0 = 0
    OBVIOUS
  <2>. QED  BY <1>6, <2>1, <2>2
<1>11. Crosses(seg, p, q, k) <=> ne # 0 /\ Opposite(kT, kT - ne) /\ Opposite(l, m)
  BY <1>5, <1>7, <1>8, <1>9
<1>12. Crosses(seg, p, q, k) <=> \E t \in Hits(seg, o, d) : k * t[1] <= n * t[2]
  <2>1. CASE e = 0
    <3>1. l = m /\ ne = 0
      BY <1>2, <1>6, <2>1
    <3>. QED  BY <1>1, <1>11, <3>1
  <2>2. CASE e > 0
    <3>1. l # m /\ Across(f, l, g, m) = <<T, e>>
      BY <1>2, <1>4, <2>2
    <3>2. (\E t \in Hits(seg, o, d) : k * t[1] <= n * t[2]) <=> Opposite(l, m) /\ T >= 0 /\ kT <= ne
      BY <1>1, <1>6, <3>1
    <3>3. ne # 0 /\ Opposite(kT, kT - ne) <=> T >= 0 /\ kT <= ne
      BY <1>10, <2>2 DEF Opposite
    <3>. QED  BY <1>11, <3>2, <3>3
  <2>3. CASE e < 0
    <3>1. l # m /\ Across(f, l, g, m) = <<-T, -e>>
      BY <1>2, <1>4, <2>3
    <3>2. k * (-T) = -kT /\ n * (-e) = -ne
      BY <1>6
    <3>3. (\E t \in Hits(seg, o, d) : k * t[1] <= n * t[2]) <=> Opposite(l, m) /\ -T >= 0 /\ -kT <= -ne
      BY <1>1, <3>1, <3>2
    <3>4. ne # 0 /\ Opposite(kT, kT - ne) <=> -T >= 0 /\ -kT <= -ne
      BY <1>10, <2>3 DEF Opposite
    <3>. QED  BY <1>11, <3>3, <3>4
  <2>. QED  BY <2>1, <2>2, <2>3
<1>. QED  BY <1>0, <1>12

LEMMA LeastFraction ==
  ASSUME NEW S, IsFiniteSet(S), S \subseteq Fractions, S # {}
  PROVE  Least(S) \in S /\ \A g \in S : ~ Less(g, Least(S))
<1>. DEFINE P == {T \in SUBSET S : T # {} => \E f \in T : \A g \in T : ~ Less(g, f)}
<1>1. ASSUME NEW T \in SUBSET S,
             \A t \in SUBSET S : Cardinality(t) < Cardinality(T) => t \in P
      PROVE  T \in P
  <2>1. CASE T = {}
    BY <2>1
  <2>2. CASE T # {}
    <3>1. PICK x : x \in T
      BY <2>2
    <3>2. T \ {x} \in SUBSET S /\ Cardinality(T \ {x}) < Cardinality(T)
      <4>1. IsFiniteSet(T)
        BY FS_Subset
      <4>2. Cardinality(T \ {x}) = Cardinality(T) - 1
        BY <3>1, <4>1, FS_RemoveElement
      <4>3. Cardinality(T) \in Nat
        BY <4>1, FS_CardinalityType
      <4>. QED  BY <4>2, <4>3
    <3>3. T \ {x} \in P
      BY <1>1, <3>2
    <3>4. ~ Less(x, x)
      BY <3>1, FractionOrder
    <3>5. CASE T \ {x} = {}
      <4>1. \A g \in T : g = x
        BY <3>5
      <4>. QED  BY <3>1, <3>4, <4>1
    <3>6. CASE T \ {x} # {}
      <4>1. PICK f \in T \ {x} : \A g \in T \ {x} : ~ Less(g, f)
        BY <3>3, <3>6
      <4>2. CASE Less(x, f)
        <5>1. ~ Less(f, x)
          BY <3>1, <4>2, FractionOrder
        <5>2. ASSUME NEW g \in T \ {x} PROVE ~ Less(g, x)
          <6>1. ~ Less(g, f) /\ g \in Fractions /\ f \in Fractions /\ x \in Fractions
            BY <3>1, <4>1
          <6>. QED  BY <5>1, <6>1, FractionOrder
        <5>. QED  BY <3>1, <3>4, <5>2
      <4>3. CASE ~ Less(x, f)
        BY <4>1, <4>3
      <4>. QED  BY <4>2, <4>3
    <3>. QED  BY <3>5, <3>6
  <2>. QED  BY <2>1, <2>2
<1>. HIDE DEF P
<1>2. SUBSET S \subseteq P
  BY <1>1, SubsetInduction
<1>3. \E f \in S : \A g \in S : ~ Less(g, f)
  BY <1>2 DEF P
<1>. QED  BY <1>3 DEF Least

(* A wall that is clear of the footprint does not go through its centre.    *)
LEMMA ClearIsOff ==
  ASSUME NEW pose, pose.x \in Int, pose.y \in Int, pose.yaw \in Int,
         NEW seg \in Walls, ClearOf(seg, pose)
  PROVE  ~ LiesOn(pose, seg)
<1>1. seg.a.x \in Int /\ seg.a.y \in Int /\ seg.b.x \in Int /\ seg.b.y \in Int
  BY WallsAreFramed DEF Framed
<1>2. PICK ex \in Nat, ey \in Nat :
        FootprintCorners(pose) =
                {Point(pose.x + ex, pose.y + ey), Point(pose.x + ex, pose.y - ey),
                 Point(pose.x - ex, pose.y + ey), Point(pose.x - ex, pose.y - ey)}
  BY FootprintIsABox
<1>. DEFINE corners == FootprintCorners(pose)
            side(p) == (seg.b.x - seg.a.x) * (p.y - seg.a.y) - (seg.b.y - seg.a.y) * (p.x - seg.a.x)
            c == Point(pose.x + ex, pose.y + ey)
            e == Point(pose.x - ex, pose.y - ey)
<1>3. c \in corners /\ e \in corners
  BY <1>2
<1>4. /\ c.x = pose.x + ex /\ c.y = pose.y + ey /\ e.x = pose.x - ex /\ e.y = pose.y - ey
  BY DEF Point
<1>. HIDE DEF corners, c, e
<1>5. CASE \/ \A p \in corners : p.x < seg.a.x /\ p.x < seg.b.x
           \/ \A p \in corners : p.x > seg.a.x /\ p.x > seg.b.x
  BY <1>1, <1>3, <1>4, <1>5 DEF LiesOn, Opposite
<1>6. CASE \/ \A p \in corners : p.y < seg.a.y /\ p.y < seg.b.y
           \/ \A p \in corners : p.y > seg.a.y /\ p.y > seg.b.y
  BY <1>1, <1>3, <1>4, <1>6 DEF LiesOn, Opposite
<1>7. CASE \/ \A p \in corners : side(p) > 0
           \/ \A p \in corners : side(p) < 0
  <2>1. \/ side(c) > 0 /\ side(e) > 0
        \/ side(c) < 0 /\ side(e) < 0
    BY <1>3, <1>7
  <2>2. PICK u \in Int, v \in Int, s \in Int, t \in Int :
          /\ u = seg.b.x - seg.a.x /\ v = seg.b.y - seg.a.y
          /\ s = pose.x - seg.a.x /\ t = pose.y - seg.a.y
    <3>1. /\ seg.b.x - seg.a.x \in Int /\ seg.b.y - seg.a.y \in Int
          /\ pose.x - seg.a.x \in Int /\ pose.y - seg.a.y \in Int
      BY <1>1
    <3>. QED  BY <3>1
  <2>3. Orientation(seg.a, seg.b, pose) = u * t - v * s
    BY <2>2 DEF Orientation
  <2>4. side(c) = u * (t + ey) - v * (s + ex) /\ side(e) = u * (t - ey) - v * (s - ex)
    <3>1. /\ c.x - seg.a.x = s + ex /\ c.y - seg.a.y = t + ey
          /\ e.x - seg.a.x = s - ex /\ e.y - seg.a.y = t - ey
      BY <1>1, <1>4, <2>2
    <3>. QED  BY <2>2, <3>1
  <2>5. PICK ut \in Int, ue \in Int, vs \in Int, ve \in Int :
          ut = u * t /\ ue = u * ey /\ vs = v * s /\ ve = v * ex
    OBVIOUS
  <2>6. side(c) = ut + ue - vs - ve /\ side(e) = ut - ue - vs + ve
    BY <2>4, <2>5
  <2>. HIDE DEF side
  <2>7. ut - vs # 0
    BY <2>1, <2>6
  <2>. QED  BY <2>3, <2>5, <2>7 DEF LiesOn
<1>. QED  BY <1>5, <1>6, <1>7 DEF ClearOf, corners

(* What a ray may end on                                                    *)
Ends(o, d) ==
  {<<LidarRange, 1>>} \cup
    UNION {Hits(seg, o, d) : seg \in Near({o, Point(o.x + d.x * LidarRange, o.y + d.y * LidarRange)})}

LEMMA WallsAreHit ==
  ASSUME NEW seg \in Walls, NEW o \in [x : Int, y : Int], NEW d \in Units
  PROVE  /\ seg.a.x \in Int /\ seg.a.y \in Int /\ seg.b.x \in Int /\ seg.b.y \in Int
         /\ IsFiniteSet(Hits(seg, o, d))
         /\ \A t \in Hits(seg, o, d) : t \in Fractions /\ t[1] >= 0
<1>1. seg.a.x \in Int /\ seg.a.y \in Int /\ seg.b.x \in Int /\ seg.b.y \in Int
  BY WallsAreFramed DEF Framed
<1>2. \A t \in Hits(seg, o, d) : t \in Fractions /\ t[1] >= 0
  BY <1>1, HitTells
<1>3. Hits(seg, o, d) = {} \/ \E t : Hits(seg, o, d) = {t}
  BY <1>1, HitsAreAcross
<1>4. IsFiniteSet(Hits(seg, o, d))
  BY <1>3, FS_EmptySet, FS_Singleton
<1>. QED  BY <1>1, <1>2, <1>4

LEMMA RaycastIsLeast ==
  ASSUME NEW o \in [x : Int, y : Int], NEW d \in Units
  PROVE  /\ Ends(o, d) \subseteq Fractions
         /\ Raycast(o, d, LidarRange) \in Ends(o, d)
         /\ \A t \in Ends(o, d) : ~ Less(t, Raycast(o, d, LidarRange))
<1>. DEFINE near == Near({o, Point(o.x + d.x * LidarRange, o.y + d.y * LidarRange)})
            f == [seg \in near |-> Hits(seg, o, d)]
            T == {Hits(seg, o, d) : seg \in near}
<1>1. near \subseteq Walls /\ IsFiniteSet(near)
  <2>1. near \subseteq Walls
    BY DEF Near
  <2>. QED  BY <2>1, WallsAreFramed, FS_Subset
<1>. HIDE DEF near
<1>2. f \in Surjection(near, T)
  BY DEF Surjection
<1>. HIDE DEF f
<1>3. IsFiniteSet(T)
  <2>. HIDE DEF T
  <2>. QED  BY <1>1, <1>2, FS_Surjection
<1>4. \A S \in T : IsFiniteSet(S) /\ S \subseteq Fractions
  BY <1>1, WallsAreHit
<1>5. Ends(o, d) = {<<LidarRange, 1>>} \cup UNION T
  BY DEF Ends, near
<1>. HIDE DEF T
<1>6. IsFiniteSet(UNION T)
  BY <1>3, <1>4, FS_UNION
<1>7. IsFiniteSet(Ends(o, d))
  <2>. DEFINE U == UNION T
              e == <<LidarRange, 1>>
  <2>0. IsFiniteSet(U) /\ Ends(o, d) = {e} \cup U
    BY <1>5, <1>6
  <2>. HIDE DEF U, e
  <2>1. IsFiniteSet(U \cup {e})
    BY <2>0, FS_AddElement
  <2>2. Ends(o, d) = U \cup {e}
    BY <2>0
  <2>. QED  BY <2>1, <2>2
<1>8. Ends(o, d) \subseteq Fractions /\ Ends(o, d) # {}
  <2>1. <<LidarRange, 1>> \in Fractions
    BY RangeIsPositive DEF Fractions
  <2>2. UNION T \subseteq Fractions
    BY <1>4
  <2>. QED  BY <1>5, <2>1, <2>2
<1>9. Raycast(o, d, LidarRange) = Least(Ends(o, d))
  <2>. HIDE DEF Least
  <2>. QED  BY Zenon DEF Raycast, Ends
<1>. QED  BY <1>7, <1>8, <1>9, LeastFraction

(* A wall that is hit before the end of the ray is among the ends.          *)
LEMMA EarlyHitIsAnEnd ==
  ASSUME NEW seg \in Walls, NEW o \in [x : Int, y : Int], NEW d \in Units,
         NEW t \in Hits(seg, o, d), ~ Less(<<LidarRange, 1>>, t)
  PROVE  t \in Ends(o, d)
<1>1. t \in Fractions
  BY WallsAreHit
<1>2. t[1] <= LidarRange * t[2]
  <2>1. PICK n \in Int, m \in Nat \ {0} : t = <<n, m>>
    BY <1>1 DEF Fractions
  <2>2. PICK rm \in Int : rm = LidarRange * m
    BY RangeIsPositive
  <2>. QED  BY <2>1, <2>2 DEF Less
<1>3. LidarRange \in Nat
  BY RangeIsPositive
<1>4. seg \in Near({o, Point(o.x + d.x * LidarRange, o.y + d.y * LidarRange)})
  BY <1>2, <1>3, HitIsNear
<1>. QED  BY <1>4 DEF Ends

LEMMA AheadIsUnit == ASSUME NEW yaw \in Int PROVE Ahead(yaw) \in Units
BY DirectionIsUnit DEF Ahead, Units

(* No wall crosses a ray before its end.                                    *)
LEMMA NothingBefore ==
  ASSUME NEW o \in [x : Int, y : Int], NEW d \in Units, NEW r \in Fractions, r[1] > 0,
         ~ Less(<<LidarRange, 1>>, r), \A t \in Ends(o, d) : ~ Less(t, r),
         NEW seg \in Walls,
         NEW k, k = 4 * r[2], NEW origin, origin = Point(k * o.x, k * o.y),
         NEW n, n = 4 * r[1] - 1
  PROVE  ~ Crosses(seg, origin, Point(origin.x + n * d.x, origin.y + n * d.y), k)
<1>1. PICK rn \in Nat \ {0}, rd \in Nat \ {0} : r = <<rn, rd>>
  BY DEF Fractions
<1>2. k \in Nat \ {0} /\ n \in Nat \ {0} /\ k = 4 * rd /\ n = 4 * rn - 1
  BY <1>1
<1>3. o.x \in Int /\ o.y \in Int
  OBVIOUS
<1>4. ASSUME NEW t \in Hits(seg, o, d), k * t[1] <= n * t[2] PROVE FALSE
  <2>1. PICK tn \in Int, td \in Nat \ {0} : t = <<tn, td>>
    <3>1. t \in Fractions
      BY WallsAreHit
    <3>. QED  BY <3>1 DEF Fractions
  <2>2. PICK x \in Int, y \in Int : x = rd * tn /\ y = rn * td
    OBVIOUS
  <2>3. k * tn = 4 * x /\ n * td = 4 * y - td
    BY <1>2, <2>2
  <2>4. x < y
    BY <1>4, <2>1, <2>3
  <2>5. Less(t, r)
    BY <1>1, <2>1, <2>2, <2>4 DEF Less
  <2>6. <<LidarRange, 1>> \in Fractions /\ t \in Fractions
    BY WallsAreHit, RangeIsPositive DEF Fractions
  <2>7. ~ Less(r, t)
    BY <2>5, <2>6, FractionOrder
  <2>8. ~ Less(<<LidarRange, 1>>, t)
    BY <2>6, <2>7, FractionOrder
  <2>. QED  BY <2>5, <2>8, EarlyHitIsAnEnd
<1>5. seg.a.x \in Int /\ seg.a.y \in Int /\ seg.b.x \in Int /\ seg.b.y \in Int
  BY WallsAreFramed DEF Framed
<1>. QED  BY <1>2, <1>3, <1>4, <1>5, CrossingIsAHit

(* The ranges of a car that is on no wall                                   *)
LEMMA RangesAreExact ==
  ASSUME car.x \in Int, car.y \in Int, car.yaw \in Int,
         \A seg \in Walls : ~ LiesOn(car, seg), NEW angle \in -2..1
  PROVE  RangeIsExact(SynthesizeLidar(car), angle)
<1>. DEFINE o == Point(car.x, car.y)
            d == Ahead(car.yaw + angle)
            r == Raycast(o, d, LidarRange)
            scan == SynthesizeLidar(car)
            found == {pt.dist : pt \in {q \in scan : q.angle = angle}}
            dist == IF found = {} THEN <<LidarRange, 1>> ELSE CHOOSE f \in found : TRUE
            k == 4 * dist[2]
            origin == Point(k * car.x, k * car.y)
            end(n) == Point(origin.x + n * d.x, origin.y + n * d.y)
<1>1. o \in [x : Int, y : Int] /\ o.x = car.x /\ o.y = car.y /\ d \in Units
  <2>1. car.yaw + angle \in Int
    OBVIOUS
  <2>. QED  BY <2>1, AheadIsUnit DEF Point
<1>2. RangeIsExact(scan, angle) <=>
        /\ found # {} => \E seg \in Walls : Crosses(seg, origin, end(4 * dist[1]), k)
        /\ \A seg \in Walls : ~ Crosses(seg, origin, end(4 * dist[1] - 1), k)
  BY Zenon DEF RangeIsExact
<1>3. found = IF Less(r, <<LidarRange, 1>>) THEN {r} ELSE {}
  <2>. DEFINE at(a) == Raycast(o, Ahead(car.yaw + a), LidarRange)
  <2>. HIDE DEF o
  <2>1. scan = {pt \in {[angle |-> a, dist |-> at(a)] : a \in -2..1} : Less(pt.dist, <<LidarRange, 1>>)}
    BY Zenon DEF SynthesizeLidar, o
  <2>. HIDE DEF at, scan
  <2>2. {q \in scan : q.angle = angle} =
          IF Less(at(angle), <<LidarRange, 1>>) THEN {[angle |-> angle, dist |-> at(angle)]} ELSE {}
    <3>. DEFINE pt == [angle |-> angle, dist |-> at(angle)]
    <3>1. ASSUME NEW q \in scan, q.angle = angle
          PROVE  q = pt /\ Less(at(angle), <<LidarRange, 1>>)
      <4>1. PICK a \in -2..1 : q = [angle |-> a, dist |-> at(a)]
        BY <2>1, <3>1
      <4>2. a = angle /\ q.dist = at(angle)
        BY <3>1, <4>1
      <4>. QED  BY <2>1, <4>1, <4>2
    <3>2. Less(at(angle), <<LidarRange, 1>>) => pt \in scan
      <4>1. pt.dist = at(angle) /\ pt \in {[angle |-> a, dist |-> at(a)] : a \in -2..1}
        OBVIOUS
      <4>. HIDE DEF pt
      <4>. QED  BY <2>1, <4>1
    <3>3. pt.angle = angle
      OBVIOUS
    <3>. HIDE DEF pt
    <3>4. {q \in scan : q.angle = angle} = IF Less(at(angle), <<LidarRange, 1>>) THEN {pt} ELSE {}
      BY <3>1, <3>2, <3>3
    <3>. QED  BY <3>4 DEF pt
  <2>3. found = IF Less(at(angle), <<LidarRange, 1>>) THEN {at(angle)} ELSE {}
    <3>. DEFINE mine == {q \in scan : q.angle = angle}
    <3>1. found = {pt.dist : pt \in mine}
      OBVIOUS
    <3>2. CASE Less(at(angle), <<LidarRange, 1>>)
      <4>1. mine = {[angle |-> angle, dist |-> at(angle)]}
        BY <2>2, <3>2
      <4>2. [angle |-> angle, dist |-> at(angle)].dist = at(angle)
        OBVIOUS
      <4>. HIDE DEF mine, found
      <4>3. found = {at(angle)}
        BY <3>1, <4>1, <4>2
      <4>. QED  BY <3>2, <4>3
    <3>3. CASE ~ Less(at(angle), <<LidarRange, 1>>)
      <4>1. mine = {}
        BY <2>2, <3>3
      <4>. HIDE DEF mine, found
      <4>. QED  BY <3>1, <3>3, <4>1
    <3>. QED  BY <3>2, <3>3
  <2>. QED  BY <2>3 DEF at
<1>. HIDE DEF o, d
<1>4. r \in Ends(o, d) /\ r \in Fractions /\ \A t \in Ends(o, d) : ~ Less(t, r)
  BY <1>1, RaycastIsLeast
<1>5. <<LidarRange, 1>> \in Fractions
  BY RangeIsPositive DEF Fractions
<1>. HIDE DEF r, scan, found
<1>6. CASE Less(r, <<LidarRange, 1>>)
  <2>1. found = {r} /\ dist = r
    BY <1>3, <1>6
  <2>2. r # <<LidarRange, 1>>
    BY <1>5, <1>6, FractionOrder
  <2>3. PICK seg \in Walls : r \in Hits(seg, o, d)
    BY <1>4, <2>2 DEF Ends, Near
  <2>4. r[1] >= 0
    BY <1>1, <2>3, WallsAreHit
  <2>5. r[1] # 0
    <3>1. ASSUME r[1] = 0 PROVE LiesOn(car, seg)
      <4>1. LiesOn(o, seg)
        BY <1>1, <2>3, <3>1, HitAtOnce
      <4>. QED  BY <1>1, <4>1 DEF LiesOn, Orientation
    <3>. QED  BY <3>1
  <2>6. PICK rn \in Nat \ {0}, rd \in Nat \ {0} : r = <<rn, rd>>
    BY <1>4, <2>4, <2>5 DEF Fractions
  <2>7. ~ Less(<<LidarRange, 1>>, r)
    BY <1>4, <1>5, <1>6, FractionOrder
  <2>. HIDE DEF dist
  <2>8. k = 4 * rd /\ origin = Point(k * o.x, k * o.y)
    BY <1>1, <2>1, <2>6
  <2>9. Crosses(seg, origin, end(4 * rn), k)
    <3>1. k * r[1] <= (4 * rn) * r[2]
      BY <2>6, <2>8
    <3>2. /\ seg.a.x \in Int /\ seg.a.y \in Int /\ seg.b.x \in Int /\ seg.b.y \in Int
          /\ o.x \in Int /\ o.y \in Int /\ k \in Nat \ {0} /\ 4 * rn \in Nat \ {0}
      BY <1>1, <2>6, <2>8, WallsAreHit
    <3>. HIDE DEF k
    <3>3. Crosses(seg, Point(k * o.x, k * o.y),
                  Point(Point(k * o.x, k * o.y).x + (4 * rn) * d.x,
                        Point(k * o.x, k * o.y).y + (4 * rn) * d.y), k)
      BY <1>1, <2>3, <3>1, <3>2, CrossingIsAHit
    <3>. HIDE DEF origin
    <3>. QED  BY <2>8, <3>3
  <2>10. ASSUME NEW wall \in Walls PROVE ~ Crosses(wall, origin, end(4 * dist[1] - 1), k)
    <3>1. r[1] > 0 /\ k = 4 * r[2] /\ 4 * dist[1] - 1 = 4 * r[1] - 1
      BY <2>1, <2>6
    <3>. HIDE DEF k, origin
    <3>. QED  BY <1>1, <1>4, <2>7, <2>8, <3>1, NothingBefore
  <2>11. \E w \in Walls : Crosses(w, origin, end(4 * dist[1]), k)
    <3>1. dist[1] = rn
      BY <2>1, <2>6
    <3>. HIDE DEF k, origin
    <3>. QED  BY <2>9, <3>1
  <2>. QED  BY <1>2, <2>10, <2>11 DEF scan
<1>7. CASE ~ Less(r, <<LidarRange, 1>>)
  <2>1. found = {} /\ dist = <<LidarRange, 1>>
    BY <1>3, <1>7
  <2>2. \A t \in Ends(o, d) : ~ Less(t, <<LidarRange, 1>>)
    <3>1. ASSUME NEW t \in Ends(o, d) PROVE ~ Less(t, <<LidarRange, 1>>)
      <4>1. t \in Fractions /\ ~ Less(t, r)
        BY <1>1, <1>4, RaycastIsLeast
      <4>. QED  BY <1>4, <1>5, <1>7, <4>1, FractionOrder
    <3>. QED  BY <3>1
  <2>3. ~ Less(<<LidarRange, 1>>, <<LidarRange, 1>>)
    BY <1>5, FractionOrder
  <2>. HIDE DEF dist
  <2>4. k = 4 * dist[2] /\ origin = Point(k * o.x, k * o.y)
    BY <1>1
  <2>5. dist \in Fractions /\ dist[1] > 0
    BY <1>5, <2>1, RangeIsPositive
  <2>. HIDE DEF k, origin
  <2>6. ASSUME NEW wall \in Walls PROVE ~ Crosses(wall, origin, end(4 * dist[1] - 1), k)
    BY <1>1, <2>1, <2>2, <2>3, <2>4, <2>5, NothingBefore
  <2>. QED  BY <1>2, <2>1, <2>6 DEF scan
<1>. QED  BY <1>6, <1>7

(* What the source knows of the walls: it is exhausted by a crash and by    *)
(* nothing else, but it has not looked at the start.                        *)
CrashIsKnown ==
  /\ exhausted => FootprintIntersectsWall(car)
  /\ ~ exhausted => \/ simUs = 0 /\ car = AtStart(start)
                    \/ ~ FootprintIntersectsWall(car)

LEMMA NewEpisodeKnows ==
  ASSUME NewEpisode, UNCHANGED world
  PROVE  CrashIsKnown'
BY DEF NewEpisode, world, CrashIsKnown

LEMMA CrashStaysKnown ==
  ASSUME CrashIsKnown, UNCHANGED episode
  PROVE  CrashIsKnown'
BY DEF CrashIsKnown, episode, source, world

LEMMA TickKnows == Tick => CrashIsKnown'
<1>1. ASSUME Tick PROVE CrashIsKnown'
  <2>1. exhausted' = (exhausted \/ FootprintIntersectsWall(car')) /\ ~ exhausted
    BY <1>1 DEF Tick, Running
  <2>2. exhausted' <=> FootprintIntersectsWall(car')
    BY <2>1
  <2>. QED  BY <2>2 DEF CrashIsKnown
<1>. QED  BY <1>1

LEMMA EvaluateKnows ==
  ASSUME CrashIsKnown, NEW params, Evaluate(params)
  PROVE  CrashIsKnown'
<1>1. UNCHANGED episode \/ (NewEpisode /\ UNCHANGED world)
  BY DEF Evaluate
<1>. QED  BY <1>1, CrashStaysKnown, NewEpisodeKnows

LEMMA StepKnows == CrashIsKnown /\ [Next \/ Done]_vars => CrashIsKnown'
<1>. SUFFICES ASSUME CrashIsKnown, [Next \/ Done]_vars PROVE CrashIsKnown'
  OBVIOUS
<1>1. CASE UNCHANGED vars
  BY <1>1, CrashStaysKnown DEF vars
<1>2. CASE Drives
  BY <1>2, TickKnows DEF Drives
<1>3. CASE EndEpisode
  BY <1>3, NewEpisodeKnows DEF EndEpisode
<1>4. CASE Sample
  BY <1>4, EvaluateKnows DEF Sample
<1>5. CASE ReadCandidate
  BY <1>5, EvaluateKnows, CrashStaysKnown DEF ReadCandidate
<1>6. CASE DumpSearchSpace \/ JudgeSim \/ JudgeReplay \/ WriteTuned
  BY <1>6, CrashStaysKnown DEF DumpSearchSpace, JudgeSim, JudgeReplay, WriteTuned
<1>. QED  BY <1>1, <1>2, <1>3, <1>4, <1>5, <1>6 DEF Next, Done

(* A car that drives is on no wall, neither at its start nor later.         *)
LEMMA DrivesOffTheWalls ==
  ASSUME StartsOffTheWalls, IInv, CrashIsKnown, ~ exhausted, NEW seg \in Walls
  PROVE  ~ LiesOn(car, seg)
<1>1. job \in Jobs /\ start = job.start
  BY DEF IInv, TypeOK, WorldIsJobs
<1>2. car.x \in Int /\ car.y \in Int /\ car.yaw \in Int
  BY DEF IInv, TypeOK, EpisodeTyped, SourceTyped, Cars
<1>3. CASE car = AtStart(start)
  <2>1. car.x = start.x /\ car.y = start.y
    BY <1>3 DEF AtStart
  <2>2. LiesOn(car, seg) <=> LiesOn(start, seg)
    BY <2>1 DEF LiesOn, Orientation
  <2>. QED  BY <1>1, <2>2 DEF StartsOffTheWalls
<1>4. CASE ~ FootprintIntersectsWall(car)
  <2>1. ClearOf(seg, car)
    BY <1>2, <1>4, CrashIsExact DEF StartsOffTheWalls
  <2>. QED  BY <1>2, <2>1, ClearIsOff
<1>. QED  BY <1>3, <1>4 DEF CrashIsKnown

LEMMA WallsAreSensed ==
  ASSUME StartsOffTheWalls, IInv, CrashIsKnown
  PROVE  SensesTheWalls
<1>1. car.x \in Int /\ car.y \in Int /\ car.yaw \in Int
  BY DEF IInv, TypeOK, EpisodeTyped, SourceTyped, Cars
<1>2. FootprintIntersectsWall(car) <=> \E seg \in Walls : ~ Separated(seg)
  BY <1>1, CrashIsExact, SeparatedIsClear DEF StartsOffTheWalls
<1>3. CASE exhausted
  BY <1>2, <1>3 DEF CrashIsKnown, SensesTheWalls
<1>4. CASE ~ exhausted
  <2>1. ASSUME simUs > 0 PROVE \A seg \in Walls : Separated(seg)
    <3>1. simUs # 0
      BY <2>1
    <3>. QED  BY <1>2, <1>4, <3>1 DEF CrashIsKnown
  <2>2. \A seg \in Walls : ~ LiesOn(car, seg)
    BY <1>4, DrivesOffTheWalls
  <2>3. \A angle \in -2..1 : RangeIsExact(SynthesizeLidar(car), angle)
    BY <1>1, <2>2, RangesAreExact
  <2>. QED  BY <1>4, <2>1, <2>3, Zenon DEF SensesTheWalls
<1>. QED  BY <1>3, <1>4

(* The simulator senses its walls as they are, whatever their shape, the    *)
(* footprint and the drive: the clipping of a wall at the footprint's box   *)
(* finds a crash if and only if no axis separates the two, the envelopes of *)
(* the spatial index lose no wall, and a range ends on the nearest wall     *)
(* (world.rs: footprint_intersects_wall, segment_intersects_box, raycast    *)
(* and ray_intersect).                                                      *)
THEOREM SensingIsExact ==
  ASSUME StartsOffTheWalls
  PROVE  Spec => []SensesTheWalls
<1>1. Init => CrashIsKnown
  BY DEF Init, SourceInit, CrashIsKnown
<1>2. CrashIsKnown /\ [Next \/ Done]_vars => CrashIsKnown'
  BY StepKnows
<1>3. IInv /\ CrashIsKnown => SensesTheWalls
  BY WallsAreSensed
<1>. QED  BY <1>1, <1>2, <1>3, Invariance, PTL DEF Spec
=============================================================================
