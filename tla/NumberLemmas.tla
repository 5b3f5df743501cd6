---------------------------- MODULE NumberLemmas ----------------------------
(***************************************************************************)
(* Facts about numbers and finite sets that the proofs of several          *)
(* components rest on: the extrema of a set of numbers, the cardinality of *)
(* small sets, and how products and quotients grow.                        *)
(***************************************************************************)
EXTENDS Integers, FiniteSetsExt, FiniteSetTheorems, WellFoundedInduction, TLAPS

\* A set of natural numbers has a least element.
LEMMA LeastNatural ==
    ASSUME NEW S \in SUBSET Nat, S # {}
    PROVE  Min(S) \in S /\ \A x \in S : Min(S) <= x
<1>1. PICK x \in S : \A y \in S : ~(<<y, x>> \in OpToRel(<, Nat))
  BY NatLessThanWellFounded, WFMin
<1>2. \A y \in S : ~(y < x)
  BY <1>1 DEF OpToRel
<1>3. \A y \in S : x <= y
  BY <1>2
<1>4. QED
  BY <1>3 DEF Min

\* A bounded one has a greatest.
LEMMA GreatestNatural ==
    ASSUME NEW n \in Nat, NEW S \in SUBSET (0..n), S # {}
    PROVE  Max(S) \in S /\ \A x \in S : x <= Max(S)
<1> DEFINE T == {n - x : x \in S}
<1>1. T \subseteq Nat /\ T # {}
  <2>1. \A x \in S : n - x \in Nat
    OBVIOUS
  <2>2. QED
    BY <2>1
<1>2. Min(T) \in T /\ \A y \in T : Min(T) <= y
  BY <1>1, LeastNatural
<1> HIDE DEF T
<1>3. PICK x \in S : Min(T) = n - x
  BY <1>2 DEF T
<1>4. \A y \in S : n - x <= n - y
  BY <1>2, <1>3 DEF T
<1>5. \A y \in S : x >= y
  BY <1>4
<1>6. QED
  BY <1>5 DEF Max

\* As many elements as are equal to one another: none or one.
LEMMA AtMostOne ==
    ASSUME NEW S, \A x, y \in S : x = y
    PROVE  IsFiniteSet(S) /\ Cardinality(S) <= 1
<1>1. CASE S = {}
  BY <1>1, FS_EmptySet
<1>2. CASE S # {}
  <2>1. PICK x \in S : TRUE
    BY <1>2
  <2>2. S = {x}
    BY <2>1
  <2>3. IsFiniteSet({x}) /\ Cardinality({x}) = 1
    BY FS_Singleton
  <2>4. QED
    BY <2>2, <2>3
<1>3. QED
  BY <1>1, <1>2

\* A product grows with its factor.
LEMMA ProductMonotone ==
    ASSUME NEW x \in Int, NEW y \in Int, NEW z \in Nat, x <= y
    PROVE  x * z \in Int /\ y * z \in Int /\ x * z <= y * z
BY SMTT(20)

\* A quotient by a positive number is a natural number that grows with its dividend.
LEMMA QuotientMonotone ==
    ASSUME NEW T \in Nat \ {0}, NEW t \in Nat, NEW u \in Nat, t <= u
    PROVE  t \div T \in Nat /\ t \div T <= u \div T
<1> DEFINE q == t \div T
           r == u \div T
<1>1. q \in Nat /\ r \in Nat /\ T * q <= t /\ u < T * (r + 1)
  OBVIOUS
<1>2. T * q < T * (r + 1)
  BY <1>1
<1> HIDE DEF q, r
<1>3. q < r + 1
  BY <1>1, <1>2, SMTT(30)
<1>4. QED
  BY <1>1, <1>3 DEF q, r

\* What a quotient times its divisor makes.
LEMMA QuotientTimes ==
    ASSUME NEW T \in Nat \ {0}, NEW t \in Nat
    PROVE  /\ t \div T \in Nat
           /\ (t \div T) * T <= t
           /\ t < (t \div T) * T + T
BY SMTT(20)

\* One more element makes a set larger by one at most.
LEMMA OneMore ==
    ASSUME NEW S, IsFiniteSet(S), NEW x
    PROVE  /\ IsFiniteSet(S \cup {x})
           /\ Cardinality(S \cup {x}) \in Nat /\ Cardinality(S) \in Nat
           /\ Cardinality(S \cup {x}) <= Cardinality(S) + 1
<1>1. Cardinality(S) \in Nat
  BY FS_CardinalityType
<1>2. IsFiniteSet(S \cup {x})
      /\ Cardinality(S \cup {x}) = IF x \in S THEN Cardinality(S) ELSE Cardinality(S) + 1
  BY FS_AddElement
<1>3. QED
  BY <1>1, <1>2

\* A union is no larger than its parts.
LEMMA UnionBound ==
    ASSUME NEW S, IsFiniteSet(S), NEW T, IsFiniteSet(T)
    PROVE  /\ IsFiniteSet(S \cup T)
           /\ Cardinality(S \cup T) \in Nat
           /\ Cardinality(S \cup T) <= Cardinality(S) + Cardinality(T)
<1>1. S \cap T \in SUBSET S
  OBVIOUS
<1>2. IsFiniteSet(S \cap T)
  BY <1>1, FS_Subset
<1>3. Cardinality(S) \in Nat /\ Cardinality(T) \in Nat /\ Cardinality(S \cap T) \in Nat
  BY <1>2, FS_CardinalityType
<1>4. IsFiniteSet(S \cup T)
      /\ Cardinality(S \cup T) = Cardinality(S) + Cardinality(T) - Cardinality(S \cap T)
  BY FS_Union
<1>5. QED
  BY <1>3, <1>4, FS_CardinalityType

\* A quotient times its divisor is no larger than the dividend, which may be negative.
LEMMA QuotientBelow ==
    ASSUME NEW T \in Nat \ {0}, NEW t \in Int
    PROVE  t \div T \in Int /\ (t \div T) * T <= t
BY SMTT(20)

\* The least of two numbers.
LEMMA LeastOfTwo ==
    ASSUME NEW x \in Int, NEW y \in Int
    PROVE  Min({x, y}) \in Int /\ Min({x, y}) <= x /\ Min({x, y}) <= y
<1>1. \E z \in {x, y} : \A w \in {x, y} : z <= w
  <2>1. CASE x <= y
    BY <2>1
  <2>2. CASE ~ (x <= y)
    BY <2>2
  <2>3. QED
    BY <2>1, <2>2
<1>2. Min({x, y}) \in {x, y} /\ \A w \in {x, y} : Min({x, y}) <= w
  BY <1>1 DEF Min
<1>3. QED
  BY <1>2

\* The greatest of two numbers.
LEMMA GreatestOfTwo ==
    ASSUME NEW x \in Int, NEW y \in Int
    PROVE  Max({x, y}) = IF x >= y THEN x ELSE y
<1> DEFINE m == IF x >= y THEN x ELSE y
<1>1. m \in {x, y} /\ \A z \in {x, y} : m >= z
  OBVIOUS
<1>2. \A z \in {x, y} : (\A w \in {x, y} : z >= w) => z = m
  OBVIOUS
<1>3. QED
  BY <1>1, <1>2 DEF Max

\* The least of two numbers.
LEMMA LesserOfTwo ==
    ASSUME NEW x \in Int, NEW y \in Int
    PROVE  Min({x, y}) = IF x <= y THEN x ELSE y
<1> DEFINE m == IF x <= y THEN x ELSE y
<1>1. m \in {x, y} /\ \A z \in {x, y} : m <= z
  OBVIOUS
<1>2. \A z \in {x, y} : (\A w \in {x, y} : z <= w) => z = m
  OBVIOUS
<1>3. QED
  BY <1>1, <1>2 DEF Min

\* A number that is among some and above all of them is the greatest.
LEMMA GreatestIs ==
    ASSUME NEW S \in SUBSET Int, NEW m \in S, \A x \in S : m >= x
    PROVE  Max(S) = m
<1>1. PICK g : g = Max(S) /\ g \in S /\ \A x \in S : g >= x
  BY DEF Max
<1>2. g = m
  BY <1>1
<1>3. QED
  BY <1>1, <1>2

\* One that is below all of them is the least.
LEMMA LeastIs ==
    ASSUME NEW S \in SUBSET Int, NEW m \in S, \A x \in S : m <= x
    PROVE  Min(S) = m
<1>1. PICK g : g = Min(S) /\ g \in S /\ \A x \in S : g <= x
  BY DEF Min
<1>2. g = m
  BY <1>1
<1>3. QED
  BY <1>1, <1>2
=============================================================================
