----------------------------- MODULE Arithmetic -----------------------------
(***************************************************************************)
(* Sums over finite sets, powers of ten, and divisions that round down.    *)
(*                                                                         *)
(* The fold of the community modules picks the elements of a sum in an     *)
(* order of its own; what is proved here is that the order does not matter:*)
(* a sum of natural numbers is the number of their units, so that it grows *)
(* and shrinks with the set as one expects.                                *)
(***************************************************************************)
EXTENDS FiniteSetsExt, FiniteSetTheorems, WellFoundedInduction, TLAPS

SumOver(f, S) == MapThenSumSet(LAMBDA x : f[x], S)

(* f[x] many units for every x of the set. *)
Units(f, S) == {unit \in S \X Nat : unit[2] < f[unit[1]]}

(* Every non-empty set of natural numbers has a least element. *)
LEMMA LeastNumber ==
    ASSUME NEW T, T \subseteq Nat, T # {}
    PROVE \E n \in T : \A k \in T : n <= k
<1> DEFINE less == {ss \in Nat \X Nat : ss[1] < ss[2]}
<1>1. IsWellFoundedOn(less, Nat)
  BY NatLessThanWellFounded DEF OpToRel
<1> HIDE DEF less
<1>2. PICK n \in T : \A k \in T : ~(<<k, n>> \in less)
  BY <1>1, WFMin, Zenon
<1>3. ASSUME NEW k \in T PROVE n <= k
  <2>1. n \in Nat /\ k \in Nat /\ ~(<<k, n>> \in less)
    BY <1>2
  <2>2. QED
    BY <2>1 DEF less
<1>4. QED
  BY <1>3

LEMMA UnitsOfOne ==
    ASSUME NEW x, NEW n \in Nat
    PROVE /\ IsFiniteSet({x} \X (0..(n - 1)))
          /\ Cardinality({x} \X (0..(n - 1))) = n
<1>1. IsFiniteSet({x}) /\ Cardinality({x}) = 1
  BY FS_Singleton
<1>2. IsFiniteSet(0..(n - 1)) /\ Cardinality(0..(n - 1)) = n
  BY FS_Interval
<1>3. QED
  BY <1>1, <1>2, FS_Product

LEMMA UnitsWithout ==
    ASSUME NEW f, NEW S, \A y \in S : f[y] \in Nat, NEW x \in S,
           IsFiniteSet(Units(f, S \ {x}))
    PROVE /\ IsFiniteSet(Units(f, S))
          /\ Cardinality(Units(f, S)) = f[x] + Cardinality(Units(f, S \ {x}))
<1> DEFINE own == {x} \X (0..(f[x] - 1))
           others == Units(f, S \ {x})
<1>1. IsFiniteSet(own) /\ Cardinality(own) = f[x]
  BY UnitsOfOne
<1>2. Units(f, S) = own \cup others /\ own \cap others = {}
  BY DEF Units
<1>3. Cardinality(others) \in Nat /\ f[x] \in Nat
  BY FS_CardinalityType
<1> HIDE DEF own, others
<1>4. IsFiniteSet(own \cup others)
      /\ Cardinality(own \cup others) =
             Cardinality(own) + Cardinality(others) - Cardinality(own \cap others)
  BY <1>1, FS_Union DEF others
<1>5. Cardinality(own \cap others) = 0
  BY <1>2, FS_EmptySet
<1>6. QED
  BY <1>1, <1>2, <1>3, <1>4, <1>5 DEF others

(* A smallest set of those with a property that fails for some set. *)
LEMMA SmallestSet ==
    ASSUME NEW S, IsFiniteSet(S), NEW Bad, Bad \subseteq SUBSET S, Bad # {}
    PROVE \E T \in Bad : \A U \in Bad : Cardinality(T) <= Cardinality(U)
<1> DEFINE sizes == {Cardinality(T) : T \in Bad}
<1>1. sizes \subseteq Nat /\ sizes # {}
  BY FS_Subset, FS_CardinalityType
<1>2. PICK n \in sizes : \A k \in sizes : n <= k
  BY <1>1, LeastNumber
<1>3. QED
  BY <1>2

LEMMA UnitsFinite ==
    ASSUME NEW f, NEW S, IsFiniteSet(S), \A y \in S : f[y] \in Nat
    PROVE IsFiniteSet(Units(f, S))
<1> DEFINE Bad == {T \in SUBSET S : ~IsFiniteSet(Units(f, T))}
<1> SUFFICES ASSUME Bad # {} PROVE FALSE
  OBVIOUS
<1>1. PICK T \in Bad : \A U \in Bad : Cardinality(T) <= Cardinality(U)
  BY SmallestSet
<1>2. T \subseteq S /\ IsFiniteSet(T) /\ Cardinality(T) \in Nat
  BY FS_Subset, FS_CardinalityType
<1>3. CASE T = {}
  <2>1. Units(f, T) = {}
    BY <1>3 DEF Units
  <2>2. QED
    BY <2>1, FS_EmptySet
<1>4. CASE T # {}
  <2>1. PICK x \in T : TRUE
    BY <1>4
  <2>2. IsFiniteSet(T \ {x}) /\ Cardinality(T \ {x}) = Cardinality(T) - 1
    BY <1>2, FS_RemoveElement
  <2>3. T \ {x} \notin Bad
    BY <1>1, <1>2, <2>2
  <2>4. IsFiniteSet(Units(f, T \ {x}))
    BY <1>2, <2>3
  <2>5. QED
    BY <1>2, <2>4, UnitsWithout
<1>5. QED
  BY <1>3, <1>4

(* Two functions that satisfy the equation of the fold are the same. *)
LEMMA SumIsCount ==
    ASSUME NEW f, NEW S, IsFiniteSet(S), \A y \in S : f[y] \in Nat
    PROVE SumOver(f, S) = Cardinality(Units(f, S))
<1> DEFINE first(s) == CHOOSE x \in s : TRUE
           count == [s \in SUBSET S |-> Cardinality(Units(f, s))]
           Fold(g) == [s \in SUBSET S |-> IF s = {} THEN 0 ELSE f[first(s)] + g[s \ {first(s)}]]
           iter == CHOOSE g : g = Fold(g)
<1>1. SumOver(f, S) = iter[S]
  BY DEF SumOver, MapThenSumSet, MapThenFoldSet
<1>2. ASSUME NEW s \in SUBSET S, s # {}
      PROVE /\ first(s) \in s
            /\ s \ {first(s)} \in SUBSET S
            /\ count[s] = f[first(s)] + count[s \ {first(s)}]
  <2>1. first(s) \in s
    BY <1>2
  <2>2. IsFiniteSet(s \ {first(s)})
    BY FS_Subset
  <2> HIDE DEF first
  <2>3. IsFiniteSet(Units(f, s \ {first(s)}))
    BY <2>2, UnitsFinite
  <2>4. QED
    BY <2>1, <2>3, UnitsWithout
<1>3. count[{}] = 0
  <2>1. Units(f, {}) = {}
    BY DEF Units
  <2>2. QED
    BY <2>1, FS_EmptySet
<1> HIDE DEF first
<1>4. count = Fold(count)
  BY <1>2, <1>3
<1>5. iter = Fold(iter)
  BY <1>4
<1> HIDE DEF count, iter
<1>6. iter[S] = count[S]
  <2> DEFINE Bad == {s \in SUBSET S : iter[s] # count[s]}
  <2> SUFFICES ASSUME Bad # {} PROVE FALSE
    OBVIOUS
  <2>1. PICK s \in Bad : \A u \in Bad : Cardinality(s) <= Cardinality(u)
    BY SmallestSet
  <2>2. IsFiniteSet(s) /\ Cardinality(s) \in Nat
    BY FS_Subset, FS_CardinalityType
  <2>3. s # {}
    BY <1>3, <1>5
  <2>4. first(s) \in s /\ s \ {first(s)} \in SUBSET S
    BY <1>2, <2>3
  <2>5. Cardinality(s \ {first(s)}) = Cardinality(s) - 1
    BY <2>2, <2>4, FS_RemoveElement
  <2>6. s \ {first(s)} \notin Bad
    BY <2>1, <2>2, <2>5
  <2>7. iter[s] = f[first(s)] + iter[s \ {first(s)}]
    BY <1>5, <2>3
  <2>8. QED
    BY <1>2, <2>3, <2>4, <2>6, <2>7
<1>7. QED
  BY <1>1, <1>6 DEF count

-----------------------------------------------------------------------------
LEMMA SumEmpty == ASSUME NEW f PROVE SumOver(f, {}) = 0
<1>1. Units(f, {}) = {}
  BY DEF Units
<1>2. QED
  BY <1>1, SumIsCount, FS_EmptySet

LEMMA SumType ==
    ASSUME NEW f, NEW S, IsFiniteSet(S), \A y \in S : f[y] \in Nat
    PROVE SumOver(f, S) \in Nat
BY SumIsCount, UnitsFinite, FS_CardinalityType

(* A sum without one of its elements. *)
LEMMA SumWithout ==
    ASSUME NEW f, NEW S, IsFiniteSet(S), \A y \in S : f[y] \in Nat, NEW x \in S
    PROVE SumOver(f, S) = SumOver(f, S \ {x}) + f[x]
<1>1. IsFiniteSet(S \ {x})
  BY FS_Subset
<1>2. IsFiniteSet(Units(f, S \ {x})) /\ Cardinality(Units(f, S \ {x})) \in Nat
  BY <1>1, UnitsFinite, FS_CardinalityType
<1>3. SumOver(f, S) = f[x] + Cardinality(Units(f, S \ {x}))
  BY <1>2, SumIsCount, UnitsWithout
<1>4. QED
  BY <1>1, <1>2, <1>3, SumIsCount

(* A sum with one more element. *)
LEMMA SumWith ==
    ASSUME NEW f, NEW S, IsFiniteSet(S), NEW x, x \notin S,
           \A y \in S \cup {x} : f[y] \in Nat
    PROVE SumOver(f, S \cup {x}) = SumOver(f, S) + f[x]
<1>1. IsFiniteSet(S \cup {x}) /\ (S \cup {x}) \ {x} = S
  BY FS_AddElement
<1>2. QED
  BY <1>1, SumWithout

(* Functions with the same values have the same sum. *)
LEMMA SumSame ==
    ASSUME NEW f, NEW g, NEW S, IsFiniteSet(S),
           \A y \in S : f[y] \in Nat /\ g[y] = f[y]
    PROVE SumOver(g, S) = SumOver(f, S)
<1>1. Units(g, S) = Units(f, S)
  BY DEF Units
<1>2. QED
  BY <1>1, SumIsCount
-----------------------------------------------------------------------------
(* Powers of ten: that a function with their recursion exists is shown with
   the number of words of n digits. *)
IsTenPowers(ten) == ten[0] = 1 /\ \A n \in Nat : ten[n + 1] = 10 * ten[n]

Words(n) == [1..n -> 0..9]

LEMMA WordsStep ==
    ASSUME NEW n \in Nat, IsFiniteSet(Words(n))
    PROVE /\ IsFiniteSet(Words(n + 1))
          /\ Cardinality(Words(n + 1)) = 10 * Cardinality(Words(n))
<1> DEFINE digits == 0..9
           join == [pair \in Words(n) \X digits |->
                       [i \in 1..(n + 1) |-> IF i = n + 1 THEN pair[2] ELSE pair[1][i]]]
<1>1. IsFiniteSet(digits) /\ Cardinality(digits) = 10
  <2>1. 0 \in Int /\ 9 \in Int /\ ~(0 > 9) /\ 9 - 0 + 1 = 10
    OBVIOUS
  <2>2. IsFiniteSet(0..9) /\ Cardinality(0..9) = IF 0 > 9 THEN 0 ELSE 9 - 0 + 1
    BY <2>1, FS_Interval
  <2>3. QED
    BY <2>1, <2>2
<1>2. /\ IsFiniteSet(Words(n) \X digits)
      /\ Cardinality(Words(n) \X digits) = Cardinality(Words(n)) * 10
  BY <1>1, FS_Product
<1>3. join \in Bijection(Words(n) \X digits, Words(n + 1))
  <2>1. join \in [Words(n) \X digits -> Words(n + 1)]
    BY DEF Words
  <2>2. ASSUME NEW v \in Words(n) \X digits, NEW w \in Words(n) \X digits, join[v] = join[w]
        PROVE v = w
    <3>1. v[2] = w[2]
      <4>1. n + 1 \in 1..(n + 1)
        OBVIOUS
      <4>2. join[v][n + 1] = v[2] /\ join[w][n + 1] = w[2]
        BY <4>1
      <4>3. QED
        BY <2>2, <4>2
    <3>2. \A i \in 1..n : v[1][i] = w[1][i]
      <4> TAKE i \in 1..n
      <4>1. i \in 1..(n + 1) /\ i # n + 1
        OBVIOUS
      <4>2. join[v][i] = v[1][i] /\ join[w][i] = w[1][i]
        BY <4>1
      <4>3. QED
        BY <2>2, <4>2
    <3>3. v[1] = w[1]
      BY <3>2 DEF Words
    <3>4. QED
      BY <3>1, <3>3
  <2>3. ASSUME NEW word \in Words(n + 1)
        PROVE \E v \in Words(n) \X digits : join[v] = word
    <3> DEFINE v == <<[i \in 1..n |-> word[i]], word[n + 1]>>
    <3>1. n + 1 \in 1..(n + 1) /\ 1..n \subseteq 1..(n + 1)
      OBVIOUS
    <3>2. v \in Words(n) \X digits
      BY <3>1 DEF Words
    <3>3. \A i \in 1..(n + 1) : i # n + 1 => i \in 1..n
      OBVIOUS
    <3>4. join[v] = word
      BY <3>2, <3>3 DEF Words
    <3>5. QED
      BY <3>2, <3>4
  <2> HIDE DEF join, digits
  <2>4. QED
    BY <2>1, <2>2, <2>3 DEF Bijection, Injection, Surjection, IsInjective
<1> HIDE DEF join, digits
<1>4. Cardinality(Words(n)) \in Nat
  BY FS_CardinalityType
<1>5. /\ IsFiniteSet(Words(n + 1))
      /\ Cardinality(Words(n + 1)) = Cardinality(Words(n) \X digits)
  BY <1>2, <1>3, FS_Bijection DEF ExistsBijection
<1>6. QED
  BY <1>2, <1>4, <1>5

LEMMA NoWord == IsFiniteSet(Words(0)) /\ Cardinality(Words(0)) = 1
<1>1. 1..0 = {}
  OBVIOUS
<1>2. PICK empty : empty \in Words(0)
  <2>1. [i \in 1..0 |-> 0] \in Words(0)
    BY DEF Words
  <2>2. QED
    BY <2>1
<1>3. ASSUME NEW w \in Words(0) PROVE w = empty
  <2>1. \A i \in 1..0 : w[i] = empty[i]
    BY <1>1
  <2>2. QED
    BY <1>2, <2>1 DEF Words
<1>4. Words(0) = {empty}
  BY <1>2, <1>3
<1>5. QED
  BY <1>4, FS_Singleton

LEMMA WordsFinite == ASSUME NEW n \in Nat PROVE IsFiniteSet(Words(n))
<1> DEFINE bad == {k \in Nat : ~IsFiniteSet(Words(k))}
<1> SUFFICES ASSUME bad # {} PROVE FALSE
  OBVIOUS
<1>1. PICK k \in bad : \A j \in bad : k <= j
  BY LeastNumber
<1>2. k # 0
  BY <1>1, NoWord
<1>3. k - 1 \in Nat /\ k - 1 \notin bad /\ (k - 1) + 1 = k
  BY <1>1, <1>2
<1>4. IsFiniteSet(Words((k - 1) + 1))
  BY <1>3, WordsStep
<1>5. QED
  BY <1>1, <1>3, <1>4

(* A function that is defined by this recursion obeys it. *)
LEMMA TenPowers ==
    ASSUME NEW ten, ten = CHOOSE f : f = [n \in Nat |-> IF n = 0 THEN 1 ELSE 10 * f[n - 1]]
    PROVE IsTenPowers(ten)
<1> DEFINE count == [n \in Nat |-> Cardinality(Words(n))]
           Is(f) == f = [n \in Nat |-> IF n = 0 THEN 1 ELSE 10 * f[n - 1]]
<1>1. \A n \in Nat : n # 0 => Cardinality(Words(n)) = 10 * Cardinality(Words(n - 1))
  <2> TAKE n \in Nat
  <2> HAVE n # 0
  <2>1. n - 1 \in Nat /\ (n - 1) + 1 = n
    OBVIOUS
  <2>2. Cardinality(Words((n - 1) + 1)) = 10 * Cardinality(Words(n - 1))
    BY <2>1, WordsFinite, WordsStep
  <2>3. QED
    BY <2>1, <2>2
<1>2. Is(count)
  <2>1. \A n \in Nat : count[n] = IF n = 0 THEN 1 ELSE 10 * count[n - 1]
    BY <1>1, NoWord
  <2>2. QED
    BY <2>1
<1>3. ten = CHOOSE f : Is(f)
  OBVIOUS
<1>4. Is(ten)
  <2> HIDE DEF Is
  <2>1. QED
    BY <1>2, <1>3
<1>5. \A n \in Nat : ten[n] = IF n = 0 THEN 1 ELSE 10 * ten[n - 1]
  BY <1>4
<1> HIDE DEF Is
<1>6. ten[0] = 1
  BY <1>5
<1>7. ASSUME NEW n \in Nat PROVE ten[n + 1] = 10 * ten[n]
  <2>1. n + 1 \in Nat /\ n + 1 # 0 /\ (n + 1) - 1 = n
    OBVIOUS
  <2>2. QED
    BY <1>5, <2>1
<1>8. QED
  BY <1>6, <1>7 DEF IsTenPowers

LEMMA TenPowersType ==
    ASSUME NEW ten, IsTenPowers(ten), NEW n \in Nat
    PROVE ten[n] \in Nat \ {0}
<1> DEFINE bad == {k \in Nat : ten[k] \notin Nat \ {0}}
<1> SUFFICES ASSUME bad # {} PROVE FALSE
  OBVIOUS
<1>1. PICK k \in bad : \A j \in bad : k <= j
  BY LeastNumber
<1>2. k # 0
  BY <1>1 DEF IsTenPowers
<1>3. k - 1 \in Nat /\ k - 1 \notin bad /\ (k - 1) + 1 = k
  BY <1>1, <1>2
<1>4. ten[(k - 1) + 1] = 10 * ten[k - 1]
  BY <1>3 DEF IsTenPowers
<1>5. ten[k - 1] \in Nat \ {0}
  BY <1>3
<1>6. QED
  BY <1>1, <1>3, <1>4, <1>5

LEMMA TenPowersSum ==
    ASSUME NEW ten, IsTenPowers(ten), NEW m \in Nat, NEW n \in Nat
    PROVE ten[m + n] = ten[m] * ten[n]
<1> DEFINE bad == {k \in Nat : ten[m + k] # ten[m] * ten[k]}
<1> SUFFICES ASSUME bad # {} PROVE FALSE
  OBVIOUS
<1>1. PICK k \in bad : \A j \in bad : k <= j
  BY LeastNumber
<1>2. k # 0
  BY <1>1, TenPowersType DEF IsTenPowers
<1>3. k - 1 \in Nat /\ k - 1 \notin bad /\ (k - 1) + 1 = k /\ m + k = (m + (k - 1)) + 1
  BY <1>1, <1>2
<1>4. ten[(k - 1) + 1] = 10 * ten[k - 1] /\ ten[(m + (k - 1)) + 1] = 10 * ten[m + (k - 1)]
  BY <1>3 DEF IsTenPowers
<1>5. ten[m + (k - 1)] = ten[m] * ten[k - 1]
  BY <1>3
<1>6. ten[m] \in Nat /\ ten[k - 1] \in Nat
  BY <1>3, TenPowersType
<1>7. ten[m + k] = ten[m] * ten[k]
  BY <1>3, <1>4, <1>5, <1>6
<1>8. QED
  BY <1>1, <1>7
-----------------------------------------------------------------------------
(* Division. *)
LEMMA NoDifference == ASSUME NEW x \in Int PROVE x - x = 0
OBVIOUS

LEMMA DivFacts ==
    ASSUME NEW a \in Nat, NEW b \in Nat \ {0}
    PROVE a \div b \in Nat /\ (a \div b) * b <= a /\ a < (a \div b + 1) * b
OBVIOUS

\* Two divisions that round down, seen as one.
LEMMA TwoDivisions ==
    ASSUME NEW w \in Nat, NEW a \in Nat \ {0}, NEW b \in Nat \ {0}
    PROVE LET q == (w \div a) \div b
          IN  q \in Nat /\ q * (a * b) <= w /\ w < (q + 1) * (a * b)
<1> DEFINE p == w \div a
           q == p \div b
<1>1. p \in Nat /\ p * a <= w /\ w < (p + 1) * a
  BY DivFacts
<1> HIDE DEF p
<1>2. q \in Nat /\ q * b <= p /\ p < (q + 1) * b
  BY <1>1, DivFacts
<1> HIDE DEF q
<1>3. (q * b) * a <= p * a
  BY <1>1, <1>2
<1>4. p + 1 <= (q + 1) * b
  BY <1>1, <1>2
<1>5. (p + 1) * a <= ((q + 1) * b) * a
  BY <1>1, <1>2, <1>4
<1>6. (q * b) * a = q * (a * b) /\ ((q + 1) * b) * a = (q + 1) * (a * b)
  BY <1>2
<1>7. p * a \in Nat /\ (p + 1) * a \in Nat /\ q * (a * b) \in Nat /\ (q + 1) * (a * b) \in Nat
  BY <1>1, <1>2
<1>8. q * (a * b) <= w
  BY <1>1, <1>3, <1>6, <1>7
<1>9. w < (q + 1) * (a * b)
  BY <1>1, <1>5, <1>6, <1>7
<1>10. QED
  BY <1>2, <1>8, <1>9 DEF q, p

\* The amount for the gas limit, scaled down to the gas that was used.
Scales(fee, corrected, k, unit, amount, kept) ==
  /\ fee \in Nat \ {0} /\ corrected \in Nat /\ corrected <= fee
  /\ k \in Nat /\ unit \in Nat \ {0} /\ amount \in Nat /\ kept \in Nat
  /\ amount * unit <= fee * k /\ fee * k < (amount + 1) * unit
  /\ kept = (amount * corrected) \div fee

LEMMA ScaledFairly ==
    ASSUME NEW fee, NEW corrected, NEW k, NEW unit, NEW amount, NEW kept,
           Scales(fee, corrected, k, unit, amount, kept)
    PROVE kept * unit <= corrected * k /\ corrected * k < (kept + 2) * unit
<1>0. /\ fee \in Nat \ {0} /\ corrected \in Nat /\ corrected <= fee
      /\ k \in Nat /\ unit \in Nat \ {0} /\ amount \in Nat /\ kept \in Nat
      /\ amount * unit <= fee * k /\ fee * k < (amount + 1) * unit
      /\ kept = (amount * corrected) \div fee
  BY DEF Scales
<1> SUFFICES ASSUME fee \in Nat \ {0}, corrected \in Nat, corrected <= fee,
                    k \in Nat, unit \in Nat \ {0}, amount \in Nat, kept \in Nat,
                    amount * unit <= fee * k, fee * k < (amount + 1) * unit,
                    kept = (amount * corrected) \div fee
             PROVE kept * unit <= corrected * k /\ corrected * k < (kept + 2) * unit
  BY <1>0
<1>1. amount * corrected \in Nat
  OBVIOUS
<1>2. kept * fee <= amount * corrected /\ amount * corrected < (kept + 1) * fee
  BY <1>1, DivFacts
<1>3. kept * unit <= corrected * k
  <2>1. (kept * fee) * unit <= (amount * corrected) * unit
    BY <1>1, <1>2
  <2>2. (amount * unit) * corrected <= (fee * k) * corrected
    OBVIOUS
  <2>3. (kept * fee) * unit = (kept * unit) * fee
    OBVIOUS
  <2>4. (amount * corrected) * unit = (amount * unit) * corrected
    OBVIOUS
  <2>5. (fee * k) * corrected = (corrected * k) * fee
    OBVIOUS
  <2>6. kept * unit \in Nat /\ corrected * k \in Nat /\ (amount * unit) * corrected \in Nat
    OBVIOUS
  <2>7. (kept * unit) * fee <= (corrected * k) * fee
    BY <2>1, <2>2, <2>3, <2>4, <2>5, <2>6
  <2>8. QED
    BY <2>6, <2>7
<1>4. corrected * k < (kept + 2) * unit
  <2>1. (fee * k) * corrected <= ((amount + 1) * unit) * corrected
    OBVIOUS
  <2>2. ((amount + 1) * unit) * corrected = (amount * corrected) * unit + corrected * unit
    OBVIOUS
  <2>3. (amount * corrected) * unit < ((kept + 1) * fee) * unit
    BY <1>1, <1>2
  <2>4. corrected * unit <= fee * unit
    OBVIOUS
  <2>5. ((kept + 1) * fee) * unit + fee * unit = ((kept + 2) * unit) * fee
    OBVIOUS
  <2>6. (fee * k) * corrected = (corrected * k) * fee
    OBVIOUS
  <2>7. /\ corrected * k \in Nat /\ (kept + 2) * unit \in Nat /\ corrected * unit \in Nat
        /\ (amount * corrected) * unit \in Nat /\ ((kept + 1) * fee) * unit \in Nat
        /\ fee * unit \in Nat /\ (corrected * k) * fee \in Nat /\ ((kept + 2) * unit) * fee \in Nat
    OBVIOUS
  <2>8. (amount * corrected) * unit + corrected * unit < ((kept + 1) * fee) * unit + fee * unit
    BY <2>3, <2>4, <2>7
  <2>9. (corrected * k) * fee < ((kept + 2) * unit) * fee
    BY <2>1, <2>2, <2>5, <2>6, <2>7, <2>8
  <2>10. QED
    BY <2>7, <2>9
<1>5. QED
  BY <1>3, <1>4
=============================================================================
