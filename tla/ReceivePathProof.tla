-------------------------- MODULE ReceivePathProof --------------------------
(***************************************************************************)
(* The path from the wire to the receive unit, for FIFOs of every size, any*)
(* frames, any number of them and of resets.  The numbers come first:      *)
(* induction, which is got from the library's statement that inclusion is  *)
(* well-founded on finite sets, and powers of two, which count the subsets *)
(* of a set; then pointers, their Gray codes and what each side makes of a *)
(* late sample of the other's.  Then the types; the FIFO, a queue; what the*)
(* receiver owes; and what the words say, on the sequence of those taken,  *)
(* in the FIFO and at its input.                                           *)
(***************************************************************************)
EXTENDS ReceivePath, SequenceTheorems, FiniteSetTheorems, FunctionTheorems, WellFoundedInduction, TLAPS

\* Any set of natural numbers that is not empty has a least member: the initial
\* segments up to its members have one under inclusion.
LEMMA LeastNatural ==
  ASSUME NEW S \in SUBSET Nat, S # {}
  PROVE  \E m \in S : \A k \in S : m <= k
<1> DEFINE T == {0..n : n \in S}
           R == StrictSubsetOrdering(Nat)
<1>1. T \subseteq FiniteSubsetsOf(Nat)
  <2> SUFFICES ASSUME NEW n \in S PROVE 0..n \in FiniteSubsetsOf(Nat)
    OBVIOUS
  <2>1. IsFiniteSet(0..n) BY FS_Interval
  <2> QED BY <2>1 DEF FiniteSubsetsOf
<1>2. T # {}
  OBVIOUS
<1>3. IsWellFoundedOn(R, FiniteSubsetsOf(Nat))
  BY FS_StrictSubsetOrderingWellFounded
<1>4. PICK x \in T : \A y \in T : ~(<<y, x>> \in R)
  <2> HIDE DEF T, R
  <2> QED BY <1>1, <1>2, <1>3, WFMin
<1>5. PICK m \in S : x = 0..m
  OBVIOUS
<1>6. ASSUME NEW k \in S, k < m PROVE FALSE
  <2>1. m \in 0..m /\ m \notin 0..k BY <1>6
  <2>2. 0..k \subseteq 0..m BY <1>6
  <2>3. 0..k \in SUBSET Nat /\ 0..m \in SUBSET Nat OBVIOUS
  <2>4. <<0..k, 0..m>> \in R
    BY <2>1, <2>2, <2>3 DEF StrictSubsetOrdering
  <2> QED BY <1>4, <1>5, <2>4
<1> QED BY <1>6

\* Induction: a set with zero and the successor of each of its members is Nat.
LEMMA Induction ==
  ASSUME NEW S \in SUBSET Nat, 0 \in S, \A n \in S : n + 1 \in S
  PROVE  S = Nat
<1> SUFFICES ASSUME Nat \ S # {} PROVE FALSE
  OBVIOUS
<1>1. PICK m \in Nat \ S : \A k \in Nat \ S : m <= k
  BY LeastNatural
<1>2. m - 1 \in Nat /\ ~(m <= m - 1)
  OBVIOUS
<1> QED BY <1>1, <1>2

\* A set of natural numbers with a bound has a greatest member.
LEMMA GreatestNatural ==
  ASSUME NEW S \in SUBSET Nat, S # {}, NEW b \in Nat, \A k \in S : k <= b
  PROVE  \E m \in S : \A k \in S : k <= m
<1> DEFINE T == {b - k : k \in S}
<1>1. T \in SUBSET Nat /\ T # {}
  <2>1. \A k \in S : b - k \in Nat OBVIOUS
  <2> QED BY <2>1
<1>2. PICK t \in T : \A k \in T : t <= k
  <2> HIDE DEF T
  <2> QED BY <1>1, LeastNatural
<1>3. PICK m \in S : t = b - m
  OBVIOUS
<1>4. ASSUME NEW k \in S PROVE k <= m
  BY <1>2, <1>3
<1> QED BY <1>4

-----------------------------------------------------------------------------
\* Powers of two, by way of the subsets of an interval.

\* A power of two counts the subsets of a set, which is how TLAPS comes to know it.
LEMMA PowerIsSubsets ==
  ASSUME NEW n \in Nat
  PROVE  /\ IsFiniteSet(SUBSET (1..n))
         /\ Cardinality(SUBSET (1..n)) = 2^n
<1>1. IsFiniteSet(1..n) /\ Cardinality(1..n) = n
  <2>1. IsFiniteSet(1..n) /\ Cardinality(1..n) = IF 1 > n THEN 0 ELSE n - 1 + 1
    BY FS_Interval
  <2> QED BY <2>1
<1>2. IsFiniteSet(SUBSET (1..n)) /\ Cardinality(SUBSET (1..n)) = 2^Cardinality(1..n)
  BY <1>1, FS_SUBSET
<1> QED BY <1>1, <1>2

\* A power of two is a positive number.
LEMMA PowerPositive ==
  ASSUME NEW n \in Nat
  PROVE  2^n \in Nat /\ 2^n > 0
<1>1. Cardinality(SUBSET (1..n)) \in Nat
  BY PowerIsSubsets, FS_CardinalityType
<1>2. Cardinality(SUBSET (1..n)) # 0
  <2>1. SUBSET (1..n) # {} OBVIOUS
  <2> QED BY <2>1, PowerIsSubsets, FS_EmptySet
<1>3. 2^n = Cardinality(SUBSET (1..n)) BY PowerIsSubsets
<1> QED BY <1>1, <1>2, <1>3

\* The first power.
LEMMA PowerZero == 2^0 = 1
<1>1. SUBSET (1..0) = {{}}
  OBVIOUS
<1>2. Cardinality({{}}) = 1
  BY FS_Singleton
<1>3. Cardinality(SUBSET (1..0)) = 2^0
  BY PowerIsSubsets
<1> QED BY <1>1, <1>2, <1>3

\* And twice the one before.
LEMMA PowerStep ==
  ASSUME NEW n \in Nat
  PROVE  2^(n + 1) = 2 * 2^n
<1> DEFINE A == SUBSET (1..n)
           B == {T \cup {n + 1} : T \in A}
           f == [T \in A |-> T \cup {n + 1}]
<1>1. IsFiniteSet(A) /\ Cardinality(A) = 2^n
  BY PowerIsSubsets
<1>2. IsFiniteSet(B) /\ Cardinality(B) = Cardinality(A)
  <2>1. f \in Bijection(A, B)
    <3>1. f \in [A -> B] OBVIOUS
    <3>2. \A s, t \in A : f[s] = f[t] => s = t
      <4>1. n + 1 \notin 1..n OBVIOUS
      <4>2. \A s \in A : s = f[s] \ {n + 1} BY <4>1
      <4> HIDE DEF f
      <4> QED BY <4>2
    <3>3. \A b \in B : \E a \in A : f[a] = b OBVIOUS
    <3> HIDE DEF f, A, B
    <3> QED BY <3>1, <3>2, <3>3 DEF Bijection, Injection, Surjection, IsInjective
  <2> HIDE DEF A, B, f
  <2> QED BY <1>1, <2>1, FS_Bijection DEF ExistsBijection
<1>3. A \cup B = SUBSET (1..(n + 1))
  <2>1. ASSUME NEW S \in SUBSET (1..(n + 1)) PROVE S \in A \cup B
    <3>1. CASE n + 1 \in S
      <4>1. S \ {n + 1} \in A OBVIOUS
      <4>2. S = (S \ {n + 1}) \cup {n + 1} BY <3>1
      <4> QED BY <4>1, <4>2
    <3>2. CASE n + 1 \notin S
      BY <3>2
    <3> QED BY <3>1, <3>2
  <2>2. 1..n \subseteq 1..(n + 1) /\ n + 1 \in 1..(n + 1) OBVIOUS
  <2>3. A \subseteq SUBSET (1..(n + 1)) BY <2>2
  <2>4. B \subseteq SUBSET (1..(n + 1)) BY <2>2
  <2> HIDE DEF A, B
  <2> QED BY <2>1, <2>3, <2>4
<1>4. A \cap B = {}
  OBVIOUS
<1>5. IsFiniteSet(A \cup B) /\ Cardinality(A \cup B) = 2^n + 2^n - 0
  <2>1. Cardinality(A \cap B) = 0 BY <1>4, FS_EmptySet
  <2> HIDE DEF A, B
  <2> QED BY <1>1, <1>2, <2>1, FS_Union
<1>6. Cardinality(SUBSET (1..(n + 1))) = 2^(n + 1)
  BY PowerIsSubsets
<1>7. 2^(n + 1) = 2^n + 2^n - 0
  <2> HIDE DEF A, B
  <2> QED BY <1>3, <1>5, <1>6
<1>8. \A p \in Nat : p + p - 0 = 2 * p
  OBVIOUS
<1>9. 2^n \in Nat
  BY PowerPositive
<1> QED BY <1>7, <1>8, <1>9

-----------------------------------------------------------------------------
\* Division by powers of two.

\* A quotient and a remainder less than the divisor are the only ones.
LEMMA DivisionUnique ==
  ASSUME NEW b \in Nat, NEW d \in Nat, d > 0, NEW q \in Nat, NEW r \in Nat,
         b = d * q + r, r < d
  PROVE  b \div d = q
OBVIOUS

\* Each number is its divisor times the quotient, and a remainder.
LEMMA Division ==
  ASSUME NEW b \in Nat, NEW d \in Nat, d > 0
  PROVE  /\ b \div d \in Nat
         /\ \E r \in Nat : r < d /\ b = d * (b \div d) + r
OBVIOUS

\* Nothing is shifted out.
LEMMA QuotientZero == ASSUME NEW b \in Nat PROVE b \div 2^0 = b
BY PowerZero

\* Each quotient is half the one before.
LEMMA QuotientStep ==
  ASSUME NEW b \in Nat, NEW i \in Nat
  PROVE  /\ b \div 2^i \in Nat
         /\ b \div 2^(i + 1) = (b \div 2^i) \div 2
<1> DEFINE p == 2^i
           q == b \div p
           h == q \div 2
<1>1. p \in Nat /\ p > 0
  BY PowerPositive
<1>2. q \in Nat
  <2> HIDE DEF p
  <2> QED BY <1>1, Division
<1>3. PICK r \in Nat : r < p /\ b = p * q + r
  <2> HIDE DEF p
  <2> QED BY <1>1, Division
<1>4. h \in Nat /\ \E o \in 0..1 : q = 2 * h + o
  <2> HIDE DEF q
  <2> QED BY <1>2
<1>5. PICK o \in 0..1 : q = 2 * h + o
  BY <1>4
<1>6. b = (2 * p) * h + (p * o + r) /\ p * o + r \in Nat /\ p * o + r < 2 * p
  <2> HIDE DEF p, q, h
  <2>1. CASE o = 0 BY <2>1, <1>1, <1>2, <1>3, <1>4, <1>5
  <2>2. CASE o = 1 BY <2>2, <1>1, <1>2, <1>3, <1>4, <1>5
  <2> QED BY <2>1, <2>2
<1>7. b \div (2 * p) = h
  <2> DEFINE rr == p * o + r
  <2>1. 2 * p \in Nat /\ 2 * p > 0 BY <1>1
  <2>2. rr \in Nat /\ rr < 2 * p /\ b = (2 * p) * h + rr BY <1>6
  <2> HIDE DEF p, q, h, rr
  <2> QED BY <1>4, <2>1, <2>2, DivisionUnique
<1> QED BY <1>2, <1>7, PowerStep

-----------------------------------------------------------------------------
\* The pointers, their codes, and the code halfway round.
Pointers == 0..(2 * DEPTH - 1)
Half(b, i) == b \div 2^i
Codes == [0..AW -> 0..1]
After(b) == (b + 1) % (2 * DEPTH)
Flip(g) == [i \in 0..AW |-> IF i >= AW - 1 THEN 1 - g[i] ELSE g[i]]
Across(b) == IF b < DEPTH THEN b + DEPTH ELSE b - DEPTH

\* The depth is a power of two, of four or more, and a pointer counts to twice that.
LEMMA Sizes ==
  /\ DEPTH \in Nat /\ DEPTH > 0 /\ 2^(AW + 1) = 2 * DEPTH
  /\ AW \in Nat /\ AW >= 2
BY FifoAssumption, PowerPositive, PowerStep DEF DEPTH

\* A pointer moves on by one and comes round.
LEMMA AfterIs ==
  ASSUME NEW b \in Pointers
  PROVE  /\ After(b) = IF b + 1 = 2 * DEPTH THEN 0 ELSE b + 1
         /\ After(b) \in Pointers
<1>1. \A n \in Nat, m \in Nat : n < m => n % m = n
  OBVIOUS
<1>2. \A m \in Nat : m > 0 => m % m = 0
  OBVIOUS
<1>3. 2 * DEPTH \in Nat /\ 2 * DEPTH > 0 /\ b + 1 \in Nat
  BY Sizes DEF Pointers
<1>4. CASE b + 1 = 2 * DEPTH
  BY <1>2, <1>3, <1>4 DEF After, Pointers
<1>5. CASE b + 1 < 2 * DEPTH
  BY <1>1, <1>3, <1>5 DEF After, Pointers
<1> QED BY <1>3, <1>4, <1>5, Sizes DEF Pointers

\* A pointer without its lowest bits: each more is one halving more.
LEMMA HalfFacts ==
  /\ \A b \in Nat : Half(b, 0) = b
  /\ \A b \in Nat, i \in Nat : Half(b, i) \in Nat
  /\ \A b \in Nat, i \in Nat : Half(b, i + 1) \in Nat
  /\ \A b \in Nat, i \in Nat : Half(b, i + 1) = Half(b, i) \div 2
<1>1. ASSUME NEW b \in Nat, NEW i \in Nat
      PROVE  Half(b, i) \in Nat /\ Half(b, i + 1) = Half(b, i) \div 2
  BY QuotientZero, QuotientStep DEF Half
<1>2. ASSUME NEW b \in Nat PROVE Half(b, 0) = b
  BY QuotientZero DEF Half
<1>3. \A i \in Nat : i + 1 \in Nat
  OBVIOUS
<1> QED BY <1>1, <1>2, <1>3

\* The same at the places of a pointer's bits.
LEMMA HalfAt ==
  ASSUME NEW b \in Nat, NEW i \in 0..AW
  PROVE  /\ i \in Nat /\ i + 1 \in Nat
         /\ Half(b, i) \in Nat /\ Half(b, i + 1) \in Nat
         /\ Half(b, i + 1) = Half(b, i) \div 2
<1>1. i \in Nat /\ i + 1 \in Nat
  BY Sizes
<1>2. Half(b, i) \in Nat
  BY <1>1, HalfFacts
<1>3. Half(b, i + 1) \in Nat
  BY <1>1, HalfFacts
<1>4. Half(b, i + 1) = Half(b, i) \div 2
  BY <1>1, HalfFacts
<1> QED BY <1>1, <1>2, <1>3, <1>4

\* Nothing is above the top bit.
LEMMA HalfTop ==
  ASSUME NEW b \in Pointers
  PROVE  Half(b, AW + 1) = 0
<1>1. b \in Nat /\ b < 2^(AW + 1) /\ 2^(AW + 1) \in Nat
  BY Sizes DEF Pointers
<1>2. b = 2^(AW + 1) * 0 + b
  BY <1>1
<1> QED BY <1>1, <1>2, DivisionUnique DEF Half

\* A bit of the code is the exclusive or of two neighbouring bits.
LEMMA GrayEntry ==
  ASSUME NEW b \in Nat, NEW i \in 0..AW
  PROVE  bin2gray(b)[i] = (Half(b, i) + Half(b, i + 1)) % 2
<1>1. \A x, y \in Nat : ((x % 2) + (y % 2)) % 2 = (x + y) % 2
  OBVIOUS
<1>2. Half(b, i) \in Nat /\ Half(b, i + 1) \in Nat
  BY HalfAt
<1>3. bin2gray(b)[i] = ((Half(b, i) % 2) + (Half(b, i + 1) % 2)) % 2
  BY DEF bin2gray, Bit, Half
<1> QED BY <1>1, <1>2, <1>3

\* A code is made of bits.
LEMMA GrayType ==
  ASSUME NEW b \in Nat
  PROVE  bin2gray(b) \in Codes
<1>1. \A x \in Nat : x % 2 \in 0..1
  OBVIOUS
<1>2. \A i \in 0..AW : Half(b, i) + Half(b, i + 1) \in Nat
  BY HalfAt
<1>3. \A i \in 0..AW : bin2gray(b)[i] \in 0..1
  BY <1>1, <1>2, GrayEntry
<1>4. bin2gray(b) = [i \in 0..AW |-> bin2gray(b)[i]]
  BY DEF bin2gray
<1> QED BY <1>3, <1>4 DEF Codes

\* Two pointers with the same code are the same pointer.
THEOREM GrayInjective ==
  ASSUME NEW b \in Pointers, NEW c \in Pointers, bin2gray(b) = bin2gray(c)
  PROVE  b = c
<1> DEFINE S == {k \in Nat : k <= AW + 1 => Half(b, AW + 1 - k) = Half(c, AW + 1 - k)}
<1>0. b \in Nat /\ c \in Nat /\ AW \in Nat
  BY Sizes DEF Pointers
<1>1. 0 \in S
  BY <1>0, HalfTop
<1>2. ASSUME NEW k \in S PROVE k + 1 \in S
  <2> SUFFICES ASSUME k + 1 <= AW + 1
               PROVE  Half(b, AW + 1 - (k + 1)) = Half(c, AW + 1 - (k + 1))
    OBVIOUS
  <2> DEFINE i == AW - k
  <2>1. i \in 0..AW /\ i + 1 = AW + 1 - k /\ AW + 1 - (k + 1) = i
    BY <1>0
  <2>2. Half(b, i + 1) = Half(c, i + 1)
    <3>1. k <= AW + 1 BY <1>0
    <3>2. Half(b, AW + 1 - k) = Half(c, AW + 1 - k) BY <3>1
    <3> HIDE DEF i
    <3> QED BY <2>1, <3>2
  <2>3. (Half(b, i) + Half(b, i + 1)) % 2 = (Half(c, i) + Half(c, i + 1)) % 2
    <3> HIDE DEF i
    <3> QED BY <1>0, <2>1, GrayEntry
  <2>4. /\ Half(b, i) \in Nat /\ Half(b, i + 1) = Half(b, i) \div 2
        /\ Half(c, i) \in Nat /\ Half(c, i + 1) = Half(c, i) \div 2
    <3> HIDE DEF i
    <3> QED BY <1>0, <2>1, HalfAt
  <2>5. \A x, y \in Nat : x \div 2 = y \div 2 /\ (x + x \div 2) % 2 = (y + y \div 2) % 2 => x = y
    OBVIOUS
  <2>6. Half(b, i) = Half(c, i)
    <3> HIDE DEF i
    <3> QED BY <2>2, <2>3, <2>4, <2>5
  <2> QED BY <2>1, <2>6
<1>3. S = Nat
  <2> HIDE DEF S
  <2>1. S \in SUBSET Nat BY DEF S
  <2> QED BY <1>1, <1>2, <2>1, Induction
<1>4. Half(b, 0) = Half(c, 0)
  <2>1. AW + 1 \in S BY <1>0, <1>3
  <2>2. AW + 1 - (AW + 1) = 0 BY <1>0
  <2> QED BY <2>1, <2>2, <1>0
<1> QED BY <1>0, <1>4, HalfFacts

-----------------------------------------------------------------------------
\* The halves of a number and of its successor: equal, or one apart, and once equal
\* for good.

\* The next number's upper bits are the same or one more.
LEMMA HalfNext ==
  ASSUME NEW b \in Nat, NEW i \in Nat
  PROVE  Half(b + 1, i) \in {Half(b, i), Half(b, i) + 1}
<1> DEFINE S == {k \in Nat : Half(b + 1, k) \in {Half(b, k), Half(b, k) + 1}}
<1>1. 0 \in S
  BY HalfFacts
<1>2. ASSUME NEW k \in S PROVE k + 1 \in S
  <2>1. /\ Half(b, k) \in Nat /\ Half(b, k + 1) = Half(b, k) \div 2
        /\ Half(b + 1, k) \in Nat /\ Half(b + 1, k + 1) = Half(b + 1, k) \div 2
    BY HalfFacts
  <2>2. \A x, y \in Nat : y \in {x, x + 1} => y \div 2 \in {x \div 2, x \div 2 + 1}
    OBVIOUS
  <2> QED BY <2>1, <2>2
<1>3. S = Nat
  <2> HIDE DEF S
  <2>1. S \in SUBSET Nat BY DEF S
  <2> QED BY <1>1, <1>2, <2>1, Induction
<1> QED BY <1>3

\* Once they are the same the bits above them are too.
LEMMA HalfMeets ==
  ASSUME NEW b \in Nat, NEW m \in Nat, Half(b + 1, m) = Half(b, m), NEW i \in Nat, m <= i
  PROVE  Half(b + 1, i) = Half(b, i)
<1> DEFINE S == {k \in Nat : Half(b + 1, m + k) = Half(b, m + k)}
<1>1. 0 \in S
  OBVIOUS
<1>2. ASSUME NEW k \in S PROVE k + 1 \in S
  <2>1. m + k \in Nat /\ m + (k + 1) = (m + k) + 1
    OBVIOUS
  <2>2. /\ Half(b, (m + k) + 1) = Half(b, m + k) \div 2
        /\ Half(b + 1, (m + k) + 1) = Half(b + 1, m + k) \div 2
    BY <2>1, HalfFacts
  <2> QED BY <2>1, <2>2
<1>3. S = Nat
  <2> HIDE DEF S
  <2>1. S \in SUBSET Nat BY DEF S
  <2> QED BY <1>1, <1>2, <2>1, Induction
<1>4. i - m \in Nat /\ m + (i - m) = i
  OBVIOUS
<1>5. Half(b + 1, m + (i - m)) = Half(b, m + (i - m))
  BY <1>3, <1>4
<1> QED BY <1>4, <1>5

\* The code a reset gives the pointers is that of zero.
LEMMA GrayZero == bin2gray(0) = Zero
<1>1. \A k \in Nat : Half(0, k) = 0
  <2> SUFFICES ASSUME NEW k \in Nat PROVE 0 \div 2^k = 0
    BY DEF Half
  <2>1. 2^k \in Nat /\ 2^k > 0 BY PowerPositive
  <2>2. 0 = 2^k * 0 + 0 BY <2>1
  <2> QED BY <2>1, <2>2, DivisionUnique
<1>2. ASSUME NEW i \in 0..AW PROVE bin2gray(0)[i] = 0
  <2>1. i \in Nat /\ i + 1 \in Nat BY Sizes
  <2>2. bin2gray(0)[i] = (Half(0, i) + Half(0, i + 1)) % 2
    BY GrayEntry
  <2>3. Half(0, i) = 0 /\ Half(0, i + 1) = 0
    BY <1>1, <2>1
  <2>4. (0 + 0) % 2 = 0 OBVIOUS
  <2> QED BY <2>2, <2>3, <2>4
<1>3. bin2gray(0) = [i \in 0..AW |-> bin2gray(0)[i]]
  BY DEF bin2gray
<1> QED BY <1>2, <1>3 DEF Zero

\* A pointer that moves, or comes round, changes no more than one bit of its code.
THEOREM GrayStep ==
  ASSUME NEW b \in Pointers
  PROVE  \E k \in 0..AW : \A i \in 0..AW \ {k} : bin2gray(b)[i] = bin2gray(After(b))[i]
<1>0. b \in Nat /\ b + 1 \in Nat /\ AW \in Nat /\ AW + 1 \in Nat /\ After(b) \in Nat
  BY Sizes, AfterIs DEF Pointers
<1>1. CASE b + 1 < 2 * DEPTH
  <2> DEFINE E == {i \in Nat : Half(b + 1, i) = Half(b, i)}
  <2>1. b + 1 \in Pointers /\ After(b) = b + 1
    BY <1>1, AfterIs, Sizes DEF Pointers
  <2>2. AW + 1 \in E
    BY <1>0, <2>1, HalfTop
  <2>3. PICK m \in E : \A i \in E : m <= i
    <3> HIDE DEF E
    <3>1. E \in SUBSET Nat BY DEF E
    <3> QED BY <2>2, <3>1, LeastNatural
  <2>4. m # 0
    BY <1>0, HalfFacts
  <2>5. m - 1 \in 0..AW
    BY <1>0, <2>2, <2>3, <2>4
  <2>6. ASSUME NEW i \in 0..AW, i # m - 1
        PROVE  bin2gray(b)[i] = bin2gray(b + 1)[i]
    <3>1. /\ Half(b, i) \in Nat /\ Half(b, i + 1) \in Nat
          /\ Half(b + 1, i) \in Nat /\ Half(b + 1, i + 1) \in Nat
      BY <1>0, HalfAt
    <3>2. CASE i < m - 1
      <4>1. i \notin E /\ i + 1 \notin E
        BY <2>3, <3>2, <1>0
      <4>2. Half(b + 1, i) = Half(b, i) + 1 /\ Half(b + 1, i + 1) = Half(b, i + 1) + 1
        BY <1>0, <4>1, HalfNext
      <4>3. \A x, y \in Nat : (x + y) % 2 = ((x + 1) + (y + 1)) % 2
        OBVIOUS
      <4> QED BY <1>0, <3>1, <4>2, <4>3, GrayEntry
    <3>3. CASE i >= m
      <4>1. Half(b + 1, i) = Half(b, i) /\ Half(b + 1, i + 1) = Half(b, i + 1)
        <5>1. i \in Nat /\ i + 1 \in Nat /\ m \in Nat /\ m <= i /\ m <= i + 1
          BY <1>0, <3>3
        <5> QED BY <1>0, <2>3, <5>1, HalfMeets
      <4> QED BY <1>0, <4>1, GrayEntry
    <3> QED BY <1>0, <2>3, <2>6, <3>2, <3>3
  <2> QED BY <2>1, <2>5, <2>6
<1>2. CASE b + 1 = 2 * DEPTH
  <2>1. After(b) = 0 /\ 0 \in Pointers
    BY <1>2, AfterIs, Sizes DEF Pointers
  <2>2. Half(b + 1, AW + 1) = 1 /\ Half(b, AW + 1) = 0
    <3>1. b + 1 = 2^(AW + 1) * 1 + 0 /\ 2^(AW + 1) \in Nat /\ 2^(AW + 1) > 0
      BY <1>0, <1>2, Sizes
    <3>2. (b + 1) \div 2^(AW + 1) = 1
      BY <1>0, <3>1, DivisionUnique
    <3> QED BY <3>2, HalfTop DEF Half
  <2>3. ASSUME NEW i \in 0..AW
        PROVE  Half(b, i) % 2 = 1
    <3>1. i \in Nat /\ i + 1 \in Nat /\ i + 1 <= AW + 1
      BY <1>0
    <3>2. Half(b + 1, i) # Half(b, i) /\ Half(b + 1, i + 1) # Half(b, i + 1)
      BY <1>0, <2>2, <3>1, HalfMeets
    <3>3. Half(b + 1, i) = Half(b, i) + 1
      BY <1>0, <3>1, <3>2, HalfNext
    <3>4. /\ Half(b, i) \in Nat
          /\ Half(b, i + 1) = Half(b, i) \div 2
          /\ Half(b + 1, i + 1) = Half(b + 1, i) \div 2
      BY <1>0, HalfAt
    <3>5. \A x \in Nat : (x + 1) \div 2 # x \div 2 => x % 2 = 1
      OBVIOUS
    <3> QED BY <3>2, <3>3, <3>4, <3>5
  <2>4. ASSUME NEW i \in 0..AW, i # AW
        PROVE  bin2gray(b)[i] = 0
    <3>1. Half(b, i) % 2 = 1 /\ Half(b, i + 1) % 2 = 1
      BY <1>0, <2>3, <2>4
    <3>2. Half(b, i) \in Nat /\ Half(b, i + 1) \in Nat
      BY <1>0, HalfAt
    <3>3. \A x, y \in Nat : x % 2 = 1 /\ y % 2 = 1 => (x + y) % 2 = 0
      OBVIOUS
    <3> QED BY <1>0, <3>1, <3>2, <3>3, GrayEntry
  <2>5. \A i \in 0..AW : bin2gray(0)[i] = 0
    BY GrayZero DEF Zero
  <2> QED BY <1>0, <2>1, <2>4, <2>5
<1> QED BY <1>0, <1>1, <1>2, Sizes DEF Pointers

-----------------------------------------------------------------------------
\* Halfway round: the two top bits of the code, and no other, are turned over.

\* Adding the depth adds to the top bit alone, and shows so in each halving.
LEMMA HalfAcross ==
  ASSUME NEW b \in Nat, NEW i \in 0..AW
  PROVE  Half(b + DEPTH, i) = Half(b, i) + 2^(AW - i)
<1> DEFINE S == {k \in Nat : k <= AW => Half(b + DEPTH, k) = Half(b, k) + 2^(AW - k)}
<1>0. AW \in Nat /\ DEPTH \in Nat
  BY Sizes
<1>1. 0 \in S
  <2>1. AW - 0 = AW BY <1>0
  <2> QED BY <1>0, <2>1, HalfFacts DEF DEPTH
<1>2. ASSUME NEW k \in S PROVE k + 1 \in S
  <2> SUFFICES ASSUME k + 1 <= AW
               PROVE  Half(b + DEPTH, k + 1) = Half(b, k + 1) + 2^(AW - (k + 1))
    OBVIOUS
  <2> DEFINE j == AW - (k + 1)
  <2>1. j \in Nat /\ AW - k = j + 1
    BY <1>0
  <2>2. 2^(j + 1) = 2 * 2^j /\ 2^j \in Nat
    BY <2>1, PowerStep, PowerPositive
  <2>3. Half(b + DEPTH, k) = Half(b, k) + 2 * 2^j
    BY <1>0, <2>1, <2>2
  <2>4. /\ Half(b, k) \in Nat /\ Half(b, k + 1) = Half(b, k) \div 2
        /\ Half(b + DEPTH, k + 1) = Half(b + DEPTH, k) \div 2
    <3>1. k \in Nat /\ b + DEPTH \in Nat BY <1>0
    <3>2. Half(b, k) \in Nat /\ Half(b, k + 1) = Half(b, k) \div 2
      BY <3>1, HalfFacts
    <3>3. Half(b + DEPTH, k + 1) = Half(b + DEPTH, k) \div 2
      BY <3>1, HalfFacts
    <3> QED BY <3>2, <3>3
  <2>5. \A x, y \in Nat : (x + 2 * y) \div 2 = x \div 2 + y
    OBVIOUS
  <2> HIDE DEF j
  <2>6. Half(b + DEPTH, k + 1) = Half(b, k + 1) + 2^j
    BY <2>2, <2>3, <2>4, <2>5
  <2> QED BY <2>6 DEF j
<1>3. S = Nat
  <2> HIDE DEF S
  <2>1. S \in SUBSET Nat BY DEF S
  <2> QED BY <1>1, <1>2, <2>1, Induction
<1> QED BY <1>0, <1>3

\* A pointer in the first half of its round, and the one halfway round from it,
\* have codes that differ in the two top bits.
LEMMA GrayAcrossUp ==
  ASSUME NEW b \in Nat, b < DEPTH
  PROVE  bin2gray(b + DEPTH) = Flip(bin2gray(b))
<1>0. /\ AW \in Nat /\ AW >= 2 /\ DEPTH \in Nat /\ b + DEPTH \in Nat
      /\ b \in Pointers /\ b + DEPTH \in Pointers
  BY Sizes DEF Pointers
<1> DEFINE g == bin2gray(b)
           h == bin2gray(b + DEPTH)
<1>1. ASSUME NEW i \in 0..AW
      PROVE  h[i] = IF i >= AW - 1 THEN 1 - g[i] ELSE g[i]
  <2>1. /\ g[i] = (Half(b, i) + Half(b, i + 1)) % 2
        /\ h[i] = (Half(b + DEPTH, i) + Half(b + DEPTH, i + 1)) % 2
    BY <1>0, GrayEntry
  <2>2. Half(b, i) \in Nat /\ Half(b, i + 1) \in Nat
    BY <1>0, HalfAt
  <2>3. Half(b + DEPTH, i) = Half(b, i) + 2^(AW - i)
    BY <1>0, HalfAcross
  <2>4. CASE i = AW
    <3>1. 2^(AW - i) = 1
      <4>1. AW - i = 0 BY <1>0, <2>4
      <4> QED BY <4>1, PowerZero
    <3>2. Half(b + DEPTH, i + 1) = 0 /\ Half(b, i + 1) = 0
      BY <1>0, <2>4, HalfTop
    <3>3. \A x \in Nat : ((x + 1) + 0) % 2 = 1 - ((x + 0) % 2)
      OBVIOUS
    <3> HIDE DEF g, h
    <3> QED BY <1>0, <2>1, <2>2, <2>3, <2>4, <3>1, <3>2, <3>3
  <2>5. CASE i < AW
    <3> DEFINE j == AW - (i + 1)
    <3>1. j \in Nat /\ AW - i = j + 1 /\ i + 1 \in 0..AW
      BY <1>0, <2>5
    <3>2. 2^(AW - i) = 2 * 2^j /\ 2^j \in Nat
      BY <3>1, PowerStep, PowerPositive
    <3>3. Half(b + DEPTH, i + 1) = Half(b, i + 1) + 2^j
      BY <1>0, <3>1, HalfAcross
    <3>4. CASE j = 0
      <4>1. 2^j = 1 BY <3>4, PowerZero
      <4>2. \A x, y \in Nat : ((x + 2 * 1) + (y + 1)) % 2 = 1 - ((x + y) % 2)
        OBVIOUS
      <4>3. i >= AW - 1 BY <1>0, <3>4
      <4> HIDE DEF g, h, j
      <4> QED BY <2>1, <2>2, <2>3, <3>2, <3>3, <4>1, <4>2, <4>3
    <3>5. CASE j # 0
      <4> DEFINE l == j - 1
      <4>1. l \in Nat /\ j = l + 1 /\ ~(i >= AW - 1) BY <1>0, <2>5, <3>1, <3>5
      <4>2. 2^j = 2 * 2^l /\ 2^l \in Nat
        <5> HIDE DEF j, l
        <5> QED BY <4>1, PowerStep, PowerPositive
      <4>3. \A x, y, z \in Nat : ((x + 2 * (2 * z)) + (y + 2 * z)) % 2 = (x + y) % 2
        OBVIOUS
      <4> HIDE DEF g, h, j, l
      <4> QED BY <2>1, <2>2, <2>3, <3>2, <3>3, <4>1, <4>2, <4>3
    <3> QED BY <3>4, <3>5
  <2> QED BY <1>0, <2>4, <2>5
<1>2. h = [i \in 0..AW |-> h[i]]
  BY DEF bin2gray
<1> HIDE DEF g, h
<1>3. h = Flip(g)
  BY <1>1, <1>2 DEF Flip
<1> QED BY <1>3 DEF g, h

\* Turning the two top bits twice changes nothing.
LEMMA FlipTwice ==
  ASSUME NEW g \in Codes
  PROVE  Flip(g) \in Codes /\ Flip(Flip(g)) = g
<1>1. AW \in Nat BY Sizes
<1>2. \A h \in Codes : Flip(h) \in Codes
  BY <1>1 DEF Flip, Codes
<1>3. \A x \in 0..1 : 1 - (1 - x) = x OBVIOUS
<1>4. \A i \in 0..AW : Flip(Flip(g))[i] = g[i]
  BY <1>1, <1>3 DEF Flip, Codes
<1>5. Flip(Flip(g)) \in [0..AW -> 0..1] /\ g \in [0..AW -> 0..1]
  BY <1>2 DEF Codes
<1>6. Flip(Flip(g)) = [i \in 0..AW |-> Flip(Flip(g))[i]] /\ g = [i \in 0..AW |-> g[i]]
  BY <1>5
<1>7. Flip(Flip(g)) = g
  BY <1>4, <1>6, Zenon
<1> QED BY <1>2, <1>7

\* The same from either half.
LEMMA GrayAcross ==
  ASSUME NEW b \in Pointers
  PROVE  /\ Across(b) \in Pointers
         /\ bin2gray(Across(b)) = Flip(bin2gray(b))
<1>1. DEPTH \in Nat /\ b \in Nat /\ Across(b) \in Pointers
  BY Sizes DEF Pointers, Across
<1>2. CASE b < DEPTH
  BY <1>1, <1>2, GrayAcrossUp DEF Across
<1>3. CASE b >= DEPTH
  <2>1. b - DEPTH \in Nat /\ b - DEPTH < DEPTH /\ (b - DEPTH) + DEPTH = b /\ Across(b) = b - DEPTH
    BY <1>1, <1>3, Sizes DEF Pointers, Across
  <2>2. bin2gray(b) = Flip(bin2gray(b - DEPTH))
    BY <2>1, GrayAcrossUp
  <2> QED BY <1>1, <2>1, <2>2, FlipTwice, GrayType
<1> QED BY <1>1, <1>2, <1>3

\* The codes match but for the two top bits just when one pointer is halfway round
\* from the other.
THEOREM FullPattern ==
  ASSUME NEW w \in Pointers, NEW r \in Pointers
  PROVE  bin2gray(w) = Flip(bin2gray(r)) <=> w = Across(r)
BY GrayAcross, GrayInjective

-----------------------------------------------------------------------------
\* Remainders: of what is less than the divisor, of what is once or twice round,
\* and of a difference.
LEMMA Remainders ==
  ASSUME NEW d \in Nat, d > 0, NEW x \in Nat, x < d
  PROVE  /\ x % d = x
         /\ (x + d) % d = x
         /\ (x + 2 * d) % d = x
         /\ (x - d) % d = x
OBVIOUS

\* How far one pointer is ahead of another, and the pointer so many moves ago.
Ahead(w, r) == IF w >= r THEN w - r ELSE w - r + 2 * DEPTH
Ago(x, a) == IF x >= a THEN x - a ELSE x - a + 2 * DEPTH
Place(x) == IF x < DEPTH THEN x ELSE IF x < 2 * DEPTH THEN x - DEPTH ELSE x - 2 * DEPTH

\* The FIFO's level without a remainder.
LEMMA LevelIs ==
  ASSUME NEW w \in Pointers, NEW r \in Pointers
  PROVE  (w - r) % (2 * DEPTH) = Ahead(w, r) /\ Ahead(w, r) \in Nat
<1> DEFINE d == 2 * DEPTH
<1>1. d \in Nat /\ d > 0 /\ w \in Nat /\ r \in Nat /\ w < d /\ r < d
  BY Sizes DEF Pointers
<1>2. CASE w >= r
  <2> DEFINE x == w - r
  <2>1. x \in Nat /\ x < d BY <1>1, <1>2
  <2>2. x % d = x
    <3> HIDE DEF x, d
    <3> QED BY <1>1, <2>1, Remainders
  <2> QED BY <1>2, <2>1, <2>2 DEF Ahead
<1>3. CASE w < r
  <2> DEFINE x == w - r + d
  <2>1. x \in Nat /\ x < d /\ w - r = x - d BY <1>1, <1>3
  <2>2. (x - d) % d = x
    <3> HIDE DEF x, d
    <3> QED BY <1>1, <2>1, Remainders
  <2> QED BY <1>1, <1>3, <2>1, <2>2 DEF Ahead
<1> QED BY <1>1, <1>2, <1>3

\* A pointer's place in the memory without a remainder.
LEMMA PlaceIs ==
  ASSUME NEW x \in Nat, x < 3 * DEPTH
  PROVE  x % DEPTH = Place(x) /\ Place(x) \in 0..(DEPTH - 1)
<1>1. DEPTH \in Nat /\ DEPTH > 0
  BY Sizes
<1>2. \A d, y \in Nat : d > 0 /\ y < d => y % d = y /\ (y + d) % d = y
                                        /\ (y + 2 * d) % d = y
  BY Remainders
<1>3. CASE x < DEPTH
  BY <1>1, <1>2, <1>3 DEF Place
<1>4. CASE x >= DEPTH /\ x < 2 * DEPTH
  <2> DEFINE y == x - DEPTH
  <2>1. y \in Nat /\ y < DEPTH /\ x = y + DEPTH /\ Place(x) = y
    BY <1>1, <1>4 DEF Place
  <2> HIDE DEF y
  <2> QED BY <1>1, <1>2, <2>1
<1>5. CASE x >= 2 * DEPTH
  <2> DEFINE y == x - 2 * DEPTH
  <2>1. y \in Nat /\ y < DEPTH /\ x = y + 2 * DEPTH /\ Place(x) = y
    BY <1>1, <1>5 DEF Place
  <2> HIDE DEF y
  <2> QED BY <1>1, <1>2, <2>1
<1> QED BY <1>1, <1>3, <1>4, <1>5

\* What a pointer was one move earlier.
LEMMA AgoIs ==
  ASSUME NEW x \in Pointers, NEW a \in 0..DEPTH
  PROVE  /\ Ago(x, a) \in Pointers /\ Ago(x, 0) = x
         /\ Ago(After(x), a + 1) = Ago(x, a)
BY AfterIs, Sizes DEF Ago, Pointers

\* A sample of a pointer as it moves shows it before or after: one bit changes.
LEMMA SampleIs ==
  ASSUME NEW x \in Pointers, NEW y \in {x, After(x)},
         NEW seen \in Caught(bin2gray(x), y)
  PROVE  seen = bin2gray(x) \/ seen = bin2gray(y)
<1> DEFINE g == bin2gray(x)
           h == bin2gray(y)
<1>1. x \in Nat /\ y \in Nat /\ After(x) \in Pointers
  BY AfterIs DEF Pointers
<1>2. g = [i \in 0..AW |-> g[i]] /\ h = [i \in 0..AW |-> h[i]]
  BY DEF bin2gray
<1>3. \E k \in 0..AW : \A i \in 0..AW \ {k} : g[i] = h[i]
  <2>1. 0 \in 0..AW BY Sizes
  <2> QED BY <2>1, GrayStep
<1>4. PICK late \in SUBSET {i \in 0..AW : g[i] # h[i]} :
        seen = [i \in 0..AW |-> IF i \in late THEN g[i] ELSE h[i]]
  BY DEF Caught
<1> HIDE DEF g, h
<1>5. PICK k \in 0..AW : \A i \in 0..AW \ {k} : g[i] = h[i]
  BY <1>3
<1>6. CASE k \in late
  <2>1. \A i \in 0..AW : seen[i] = g[i] BY <1>4, <1>5, <1>6
  <2>2. seen = [i \in 0..AW |-> seen[i]] BY <1>4
  <2>3. seen = g BY <1>2, <2>1, <2>2
  <2> QED BY <2>3 DEF g
<1>7. CASE k \notin late
  <2>1. \A i \in 0..AW : seen[i] = h[i] BY <1>4, <1>5, <1>7
  <2>2. seen = [i \in 0..AW |-> seen[i]] BY <1>4
  <2>3. seen = h BY <1>2, <2>1, <2>2
  <2> QED BY <2>3 DEF h
<1> QED BY <1>6, <1>7

\* A write side that sees the read pointer of a moves ago sees a full FIFO just when
\* the words, and those it does not know to be gone, fill it.
LEMMA FullIs ==
  ASSUME NEW w \in Pointers, NEW r \in Pointers, NEW a \in Nat, Ahead(w, r) + a <= DEPTH
  PROVE  bin2gray(w) = Flip(bin2gray(Ago(r, a))) <=> Ahead(w, r) + a = DEPTH
<1>1. a \in 0..DEPTH /\ DEPTH \in Nat
  BY Sizes DEF Ahead, Pointers
<1>2. Ago(r, a) \in Pointers
  BY <1>1, AgoIs
<1>3. w = Across(Ago(r, a)) <=> Ahead(w, r) + a = DEPTH
  BY <1>1, Sizes DEF Across, Ago, Ahead, Pointers
<1> QED BY <1>2, <1>3, FullPattern

\* A read side that sees the write pointer of b moves ago sees an empty FIFO just when
\* it does not know of any of the words.
LEMMA EmptyIs ==
  ASSUME NEW w \in Pointers, NEW r \in Pointers, Ahead(w, r) <= DEPTH,
         NEW b \in Nat, b <= Ahead(w, r)
  PROVE  bin2gray(r) = bin2gray(Ago(w, b)) <=> b = Ahead(w, r)
<1>1. b \in 0..DEPTH
  BY Sizes DEF Ahead, Pointers
<1>2. Ago(w, b) \in Pointers
  BY <1>1, AgoIs
<1>3. r = Ago(w, b) <=> b = Ahead(w, r)
  BY <1>1, Sizes DEF Ago, Ahead, Pointers
<1> QED BY <1>2, <1>3, GrayInjective

\* The level counts what is written and what is read.
LEMMA AheadMoves ==
  ASSUME NEW w \in Pointers, NEW r \in Pointers
  PROVE  /\ Ahead(w, r) \in Nat
         /\ Ahead(w, r) <= DEPTH => Ahead(After(w), r) = Ahead(w, r) + 1
         /\ Ahead(w, r) > 0 => Ahead(w, After(r)) = Ahead(w, r) - 1
<1>1. /\ After(w) = IF w + 1 = 2 * DEPTH THEN 0 ELSE w + 1
      /\ After(r) = IF r + 1 = 2 * DEPTH THEN 0 ELSE r + 1
  BY AfterIs
<1>2. /\ w \in Nat /\ r \in Nat /\ DEPTH \in Nat /\ DEPTH > 1
      /\ w < 2 * DEPTH /\ r < 2 * DEPTH
  <2>1. AW - 1 \in Nat /\ AW = (AW - 1) + 1 BY Sizes
  <2>2. PICK n \in Nat : AW = n + 1 BY <2>1
  <2>3. DEPTH = 2 * 2^n /\ 2^n \in Nat /\ 2^n > 0
    BY <2>2, PowerStep, PowerPositive DEF DEPTH
  <2> QED BY <2>3 DEF Pointers
<1> QED BY <1>1, <1>2 DEF Ahead

-----------------------------------------------------------------------------
\* What each side knows of the other: its pointer as it was some moves ago.  The
\* write side counts with room that is already free, the read side with words that
\* are there, so neither is ever wrong the other way.

FifoType ==
  /\ wbin \in Pointers /\ rbin \in Pointers
  /\ wgray = bin2gray(wbin) /\ rgray = bin2gray(rbin)
  /\ Level <= DEPTH
WriterSees ==
  \E a1, a2 \in Nat :
    /\ a1 <= a2 /\ Level + a2 <= DEPTH
    /\ rgray_w1 = bin2gray(Ago(rbin, a1)) /\ rgray_w2 = bin2gray(Ago(rbin, a2))
ReaderCaught ==
  \E b \in Nat : b <= Level /\ wgray_r1 = bin2gray(Ago(wbin, b))
ReaderSees ==
  \E b1, b2 \in Nat :
    /\ b1 <= b2 /\ b2 <= Level
    /\ wgray_r1 = bin2gray(Ago(wbin, b1)) /\ wgray_r2 = bin2gray(Ago(wbin, b2))

\* The pointers after a step that writes, or not, and reads, or not.
Turns(wr, get) ==
  /\ wbin' = IF wr THEN After(wbin) ELSE wbin
  /\ rbin' = IF get THEN After(rbin) ELSE rbin
  /\ wgray' = bin2gray(wbin') /\ rgray' = bin2gray(rbin')
WriterSamples == rgray_w1' \in {bin2gray(rbin), bin2gray(rbin')} /\ rgray_w2' = rgray_w1
WriterWaits(wr) == ~wr /\ rgray_w1' = rgray_w1 /\ rgray_w2' = rgray_w2
ReaderSamples == wgray_r1' \in {bin2gray(wbin), bin2gray(wbin')} /\ wgray_r2' = wgray_r1
Put(wr, word) == IF wr THEN <<word>> ELSE <<>>
Count(b) == IF b THEN 1 ELSE 0
Stores(wr, word) == mem' = IF wr THEN [mem EXCEPT ![wbin % DEPTH] = word] ELSE mem
ReaderWaits(get) == ~get /\ wgray_r1' = wgray_r1 /\ wgray_r2' = wgray_r2

\* A write side that sees the queue full is never wrong by less.
LEMMA RoomToWrite ==
  ASSUME FifoType, WriterSees, ~wfull
  PROVE  Level < DEPTH
<1>1. PICK a1, a2 \in Nat :
        /\ a1 <= a2 /\ Level + a2 <= DEPTH
        /\ rgray_w1 = bin2gray(Ago(rbin, a1)) /\ rgray_w2 = bin2gray(Ago(rbin, a2))
  BY DEF WriterSees
<1>2. Level = Ahead(wbin, rbin) /\ Level \in Nat /\ DEPTH \in Nat
  BY LevelIs, Sizes DEF FifoType, Level
<1>3. wfull <=> wgray = Flip(rgray_w2)
  BY DEF wfull, Flip
<1>4. Level + a2 # DEPTH
  BY <1>1, <1>2, <1>3, FullIs DEF FifoType
<1> QED BY <1>1, <1>2, <1>4

\* A read side that sees a word has one.
LEMMA WordToRead ==
  ASSUME FifoType, ReaderSees, ~rempty
  PROVE  Level > 0
<1>1. PICK b1, b2 \in Nat :
        /\ b1 <= b2 /\ b2 <= Level
        /\ wgray_r1 = bin2gray(Ago(wbin, b1)) /\ wgray_r2 = bin2gray(Ago(wbin, b2))
  BY DEF ReaderSees
<1>2. Level = Ahead(wbin, rbin) /\ Level \in Nat
  BY LevelIs DEF FifoType, Level
<1>3. b2 # Level
  BY <1>1, <1>2, EmptyIs DEF FifoType, rempty
<1> QED BY <1>1, <1>2, <1>3

\* So it does over a step in which both may move.
LEMMA LevelMoves ==
  ASSUME FifoType, NEW wr \in BOOLEAN, NEW get \in BOOLEAN, Turns(wr, get),
         wr => Level < DEPTH, get => Level > 0
  PROVE  /\ FifoType'
         /\ Level' = Level + (IF wr THEN 1 ELSE 0) - (IF get THEN 1 ELSE 0)
<1>1. wbin' \in Pointers /\ rbin' \in Pointers
  BY AfterIs DEF FifoType, Turns
<1>2. Level = Ahead(wbin, rbin) /\ Level \in Nat /\ DEPTH \in Nat /\ Level <= DEPTH
  BY LevelIs, Sizes DEF FifoType, Level
<1>3. Level' = Ahead(wbin', rbin') /\ Level' \in Nat
  BY <1>1, LevelIs DEF Level
<1>4. Level' = Level + (IF wr THEN 1 ELSE 0) - (IF get THEN 1 ELSE 0)
  <2>1. Ahead(wbin', rbin) = Level + (IF wr THEN 1 ELSE 0)
    BY <1>2, AheadMoves DEF FifoType, Turns
  <2>2. Ahead(wbin', rbin) \in Nat /\ (get => Ahead(wbin', rbin) > 0)
    BY <1>2, <2>1
  <2>3. Ahead(wbin', rbin') = Ahead(wbin', rbin) - (IF get THEN 1 ELSE 0)
    BY <1>1, <2>2, AheadMoves DEF FifoType, Turns
  <2> QED BY <1>2, <1>3, <2>1, <2>3
<1> QED BY <1>1, <1>2, <1>3, <1>4 DEF FifoType, Turns

\* What the write side knows stays so.
LEMMA WriterStep ==
  ASSUME FifoType, WriterSees, NEW wr \in BOOLEAN, NEW get \in BOOLEAN, Turns(wr, get),
         wr => ~wfull, get => Level > 0, WriterSamples \/ WriterWaits(wr)
  PROVE  WriterSees'
<1>1. PICK a1, a2 \in Nat :
        /\ a1 <= a2 /\ Level + a2 <= DEPTH
        /\ rgray_w1 = bin2gray(Ago(rbin, a1)) /\ rgray_w2 = bin2gray(Ago(rbin, a2))
  BY DEF WriterSees
<1>2. Level = Ahead(wbin, rbin) /\ Level \in Nat /\ DEPTH \in Nat
  BY LevelIs, Sizes DEF FifoType, Level
<1>3. Level' = Level + (IF wr THEN 1 ELSE 0) - (IF get THEN 1 ELSE 0)
  BY LevelMoves, RoomToWrite
<1>4. wr => Level + a2 < DEPTH
  <2>1. wfull <=> wgray = Flip(rgray_w2)
    BY DEF wfull, Flip
  <2> QED BY <1>1, <1>2, <2>1, FullIs DEF FifoType
<1> DEFINE g == IF get THEN 1 ELSE 0
<1>5. \A a \in 0..DEPTH : Ago(rbin', a + g) = Ago(rbin, a) /\ Ago(rbin', 0) = rbin'
  BY AgoIs, AfterIs DEF FifoType, Turns
<1>6. CASE WriterSamples
  <2>1. rgray_w1' = bin2gray(Ago(rbin', 0)) \/ rgray_w1' = bin2gray(Ago(rbin', g))
    <3>1. Ago(rbin', 0) = rbin' /\ Ago(rbin', g) = rbin
      BY AgoIs, AfterIs, Sizes DEF FifoType, Turns
    <3> QED BY <1>6, <3>1 DEF WriterSamples
  <2>2. PICK n \in {0, g} : rgray_w1' = bin2gray(Ago(rbin', n))
    BY <2>1
  <2>3. rgray_w2' = bin2gray(Ago(rbin', a1 + g))
    BY <1>1, <1>2, <1>5, <1>6 DEF WriterSamples
  <2>4. n \in Nat /\ a1 + g \in Nat /\ n <= a1 + g /\ Level' + (a1 + g) <= DEPTH
    BY <1>1, <1>2, <1>3, <1>4
  <2> QED BY <2>2, <2>3, <2>4 DEF WriterSees
<1>7. CASE WriterWaits(wr)
  <2>1. rgray_w1' = bin2gray(Ago(rbin', a1 + g)) /\ rgray_w2' = bin2gray(Ago(rbin', a2 + g))
    BY <1>1, <1>2, <1>5, <1>7 DEF WriterWaits
  <2>2. a1 + g \in Nat /\ a2 + g \in Nat /\ a1 + g <= a2 + g /\ Level' + (a2 + g) <= DEPTH
    BY <1>1, <1>2, <1>3, <1>7 DEF WriterWaits
  <2> QED BY <2>1, <2>2 DEF WriterSees
<1> QED BY <1>6, <1>7

\* So does what the read side knows.
LEMMA ReaderStep ==
  ASSUME FifoType, NEW wr \in BOOLEAN, NEW get \in BOOLEAN, Turns(wr, get),
         wr => Level < DEPTH, get => ReaderSees /\ ~rempty, ReaderSamples \/ ReaderWaits(get)
  PROVE  /\ ReaderSamples => ReaderCaught'
         /\ ReaderSamples /\ ~get /\ ReaderCaught => ReaderSees'
         /\ ReaderCaught /\ ReaderWaits(get) => ReaderCaught'
         /\ ReaderSees => ReaderSees'
<1>1. get => Level > 0
  BY WordToRead
<1>2. Level = Ahead(wbin, rbin) /\ Level \in Nat /\ DEPTH \in Nat /\ Level <= DEPTH
  BY LevelIs, Sizes DEF FifoType, Level
<1>3. Level' = Level + (IF wr THEN 1 ELSE 0) - (IF get THEN 1 ELSE 0)
  BY <1>1, LevelMoves
<1> DEFINE g == IF wr THEN 1 ELSE 0
<1>4. \A b \in 0..DEPTH : Ago(wbin', b + g) = Ago(wbin, b) /\ Ago(wbin', 0) = wbin'
  BY AgoIs, AfterIs DEF FifoType, Turns
<1>5. ASSUME ReaderSamples PROVE \E n \in {0, g} : wgray_r1' = bin2gray(Ago(wbin', n))
  <2>1. Ago(wbin', 0) = wbin' /\ Ago(wbin', g) = wbin
    BY AgoIs, AfterIs, Sizes DEF FifoType, Turns
  <2> QED BY <1>5, <2>1 DEF ReaderSamples
<1>6. ASSUME ReaderSamples PROVE ReaderCaught'
  <2>1. PICK n \in {0, g} : wgray_r1' = bin2gray(Ago(wbin', n))
    BY <1>5, <1>6
  <2>2. n \in Nat /\ n <= Level'
    BY <1>1, <1>2, <1>3
  <2> QED BY <2>1, <2>2 DEF ReaderCaught
<1>7. ASSUME ReaderSamples, ~get, ReaderCaught PROVE ReaderSees'
  <2>1. PICK n \in {0, g} : wgray_r1' = bin2gray(Ago(wbin', n))
    BY <1>5, <1>7
  <2>2. PICK b \in Nat : b <= Level /\ wgray_r1 = bin2gray(Ago(wbin, b))
    BY <1>7 DEF ReaderCaught
  <2>3. wgray_r2' = bin2gray(Ago(wbin', b + g))
    BY <1>2, <1>4, <1>7, <2>2 DEF ReaderSamples
  <2>4. n \in Nat /\ b + g \in Nat /\ n <= b + g /\ b + g <= Level'
    BY <1>2, <1>3, <1>7, <2>2
  <2> QED BY <2>1, <2>3, <2>4 DEF ReaderSees
<1>8. ASSUME ReaderCaught, ReaderWaits(get) PROVE ReaderCaught'
  <2>1. PICK b \in Nat : b <= Level /\ wgray_r1 = bin2gray(Ago(wbin, b))
    BY <1>8 DEF ReaderCaught
  <2>2. wgray_r1' = bin2gray(Ago(wbin', b + g))
    BY <1>2, <1>4, <1>8, <2>1 DEF ReaderWaits
  <2>3. b + g \in Nat /\ b + g <= Level'
    BY <1>2, <1>3, <1>8, <2>1 DEF ReaderWaits
  <2> QED BY <2>2, <2>3 DEF ReaderCaught
<1>9. ASSUME ReaderSees PROVE ReaderSees'
  <2>1. PICK b1, b2 \in Nat :
          /\ b1 <= b2 /\ b2 <= Level
          /\ wgray_r1 = bin2gray(Ago(wbin, b1)) /\ wgray_r2 = bin2gray(Ago(wbin, b2))
    BY <1>9 DEF ReaderSees
  <2>2. get => b2 < Level
    BY <1>2, <2>1, EmptyIs DEF FifoType, rempty
  <2>3. CASE ReaderSamples
    <3>1. PICK n \in {0, g} : wgray_r1' = bin2gray(Ago(wbin', n))
      BY <1>5, <2>3
    <3>2. wgray_r2' = bin2gray(Ago(wbin', b1 + g))
      BY <1>2, <1>4, <2>1, <2>3 DEF ReaderSamples
    <3>3. n \in Nat /\ b1 + g \in Nat /\ n <= b1 + g /\ b1 + g <= Level'
      BY <1>2, <1>3, <2>1, <2>2
    <3> QED BY <3>1, <3>2, <3>3 DEF ReaderSees
  <2>4. CASE ReaderWaits(get)
    <3>1. wgray_r1' = bin2gray(Ago(wbin', b1 + g)) /\ wgray_r2' = bin2gray(Ago(wbin', b2 + g))
      BY <1>2, <1>4, <2>1, <2>4 DEF ReaderWaits
    <3>2. b1 + g \in Nat /\ b2 + g \in Nat /\ b1 + g <= b2 + g /\ b2 + g <= Level'
      BY <1>2, <1>3, <2>1, <2>4 DEF ReaderWaits
    <3> QED BY <3>1, <3>2 DEF ReaderSees
  <2> QED BY <2>3, <2>4
<1> QED BY <1>6, <1>7, <1>8, <1>9

-----------------------------------------------------------------------------
\* The contents, as a sequence.
LEMMA ContentsIs ==
  ASSUME FifoType, NEW Words, mem \in [0..(DEPTH - 1) -> Words]
  PROVE  /\ Contents \in Seq(Words) /\ Len(Contents) = Level /\ Level \in Nat
         /\ \A i \in 1..Level : Contents[i] = mem[Place(rbin + i - 1)]
         /\ Level > 0 => rd_data = Head(Contents)
<1>1. /\ Level \in Nat /\ DEPTH \in Nat /\ DEPTH > 0 /\ Level <= DEPTH
      /\ rbin \in Nat /\ rbin < 2 * DEPTH
  BY LevelIs, Sizes DEF FifoType, Level, Pointers
<1>2. ASSUME NEW i \in 1..Level
      PROVE  /\ mem[(rbin + i - 1) % DEPTH] = mem[Place(rbin + i - 1)]
             /\ mem[Place(rbin + i - 1)] \in Words
  <2>1. rbin + i - 1 \in Nat /\ rbin + i - 1 < 3 * DEPTH
    BY <1>1
  <2> QED BY <2>1, PlaceIs
<1>3. Contents \in [1..Level -> Words] /\ \A i \in 1..Level : Contents[i] = mem[Place(rbin + i - 1)]
  BY <1>2 DEF Contents
<1>4. Contents \in Seq(Words) /\ Len(Contents) = Level
  BY <1>1, <1>3
<1>5. Level > 0 => rd_data = Head(Contents)
  <2> SUFFICES ASSUME Level > 0 PROVE rd_data = Contents[1]
    BY <1>4
  <2>1. rbin % DEPTH = Place(rbin) /\ rbin + 1 - 1 = rbin /\ 1 \in 1..Level
    <3>1. rbin < 3 * DEPTH BY <1>1
    <3> QED BY <1>1, <3>1, PlaceIs
  <2>2. Contents[1] = mem[Place(rbin + 1 - 1)]
    BY <1>3, <2>1
  <2> QED BY <2>1, <2>2 DEF rd_data
<1> QED BY <1>1, <1>3, <1>4, <1>5

\* The words of a sequence without its first, or all, with another at the end, or none.
Turned(s, get, b, w) == SubSeq(s, Count(get) + 1, Len(s)) \o Put(b, w)

\* Each word of it.
LEMMA QueueTurn ==
  ASSUME NEW S, NEW s \in Seq(S), NEW get \in BOOLEAN, Count(get) <= Len(s),
         NEW b \in BOOLEAN, NEW w \in S, NEW n \in Nat, n = Len(s) - Count(get)
  PROVE  /\ Turned(s, get, b, w) \in Seq(S)
         /\ Len(Turned(s, get, b, w)) = n + Count(b)
         /\ \A i \in 1..(n + Count(b)) :
              Turned(s, get, b, w)[i] =
                IF i <= n THEN s[i + Count(get)] ELSE w
<1>0. PICK g \in 0..1 : g = Count(get)
  BY DEF Count
<1> DEFINE r == SubSeq(s, g + 1, Len(s))
<1>1. /\ r \in Seq(S) /\ Len(r) = Len(s) - g /\ Len(s) \in Nat
      /\ \A i \in 1..Len(r) : r[i] = s[i + g]
  BY <1>0
<1>2. CASE b
  <2> HIDE DEF r
  <2>1. /\ r \o <<w>> \in Seq(S) /\ Len(r \o <<w>>) = Len(r) + 1
        /\ \A i \in 1..(Len(r) + 1) : (r \o <<w>>)[i] = IF i <= Len(r) THEN r[i] ELSE w
    BY <1>1
  <2>2. Put(b, w) = <<w>> /\ Count(b) = 1
    BY <1>2 DEF Put, Count
  <2>3. Len(r) = n /\ \A i \in 1..n : r[i] = s[i + g]
    BY <1>0, <1>1
  <2>4. \A i \in 1..(n + 1) : (r \o <<w>>)[i] = IF i <= n THEN s[i + g] ELSE w
    BY <2>1, <2>3
  <2>5. r = SubSeq(s, Count(get) + 1, Len(s))
    BY <1>0 DEF r
  <2> QED BY <1>0, <2>1, <2>2, <2>3, <2>4, <2>5 DEF Turned
<1>3. CASE ~b
  <2> HIDE DEF r
  <2>1. r \o <<>> = r
    BY <1>1
  <2>2. Put(b, w) = <<>> /\ Count(b) = 0
    BY <1>3 DEF Put, Count
  <2> QED BY <1>0, <1>1, <2>1, <2>2 DEF r, Turned
<1> QED BY <1>2, <1>3

\* A step takes the first word out, or not, and puts one in at the end, or not.
LEMMA ContentsMove ==
  ASSUME FifoType, NEW Words, mem \in [0..(DEPTH - 1) -> Words],
         NEW wr \in BOOLEAN, NEW get \in BOOLEAN, Turns(wr, get),
         wr => Level < DEPTH, get => Level > 0,
         NEW word \in Words, Stores(wr, word)
  PROVE  /\ mem' \in [0..(DEPTH - 1) -> Words]
         /\ Contents' = SubSeq(Contents, Count(get) + 1, Len(Contents)) \o Put(wr, word)
<1> DEFINE g == Count(get)
           p == Count(wr)
           c == Turned(Contents, get, wr, word)
<1>0. g = (IF get THEN 1 ELSE 0) /\ p = (IF wr THEN 1 ELSE 0)
  BY DEF Count
<1>1. /\ Level \in Nat /\ DEPTH \in Nat /\ DEPTH > 0 /\ Level <= DEPTH
      /\ rbin \in Nat /\ rbin < 2 * DEPTH /\ wbin \in Nat /\ wbin < 2 * DEPTH
      /\ Level = Ahead(wbin, rbin)
  BY LevelIs, Sizes DEF FifoType, Level, Pointers
<1>2. wbin % DEPTH = Place(wbin) /\ Place(wbin) \in 0..(DEPTH - 1)
  <2>1. wbin < 3 * DEPTH BY <1>1
  <2> QED BY <1>1, <2>1, PlaceIs
<1>3. mem' \in [0..(DEPTH - 1) -> Words]
  BY <1>2 DEF Stores
<1>4. FifoType' /\ Level' = Level + p - g
  BY LevelMoves, <1>0
<1>5. /\ Contents \in Seq(Words) /\ Len(Contents) = Level
      /\ \A i \in 1..Level : Contents[i] = mem[Place(rbin + i - 1)]
  BY ContentsIs
<1>6. /\ Contents' \in Seq(Words) /\ Len(Contents') = Level' /\ Level' \in Nat
      /\ \A i \in 1..Level' : Contents'[i] = mem'[Place(rbin' + i - 1)]
  <2>1. /\ Level' \in Nat /\ Level' <= DEPTH
        /\ rbin' \in Nat /\ rbin' < 2 * DEPTH /\ DEPTH \in Nat
    <3>1. wbin' \in Pointers /\ rbin' \in Pointers /\ Level' <= DEPTH
      BY <1>4 DEF FifoType
    <3>2. Level' \in Nat
      BY <3>1, LevelIs DEF Level
    <3> QED BY <1>1, <3>1, <3>2 DEF Pointers
  <2>2. ASSUME NEW i \in 1..Level'
        PROVE  /\ mem'[(rbin' + i - 1) % DEPTH] = mem'[Place(rbin' + i - 1)]
               /\ mem'[Place(rbin' + i - 1)] \in Words
    <3>1. rbin' + i - 1 \in Nat /\ rbin' + i - 1 < 3 * DEPTH
      <4>1. \A r, l, d \in Nat : \A n \in 1..l :
              r < 2 * d /\ l <= d => r + n - 1 \in Nat /\ r + n - 1 < 3 * d
        OBVIOUS
      <4> QED BY <2>1, <4>1
    <3> QED BY <1>3, <3>1, PlaceIs
  <2>3. /\ Contents' \in [1..Level' -> Words]
        /\ \A i \in 1..Level' : Contents'[i] = mem'[Place(rbin' + i - 1)]
    BY <2>2 DEF Contents
  <2> QED BY <2>1, <2>3
<1>7. /\ c \in Seq(Words) /\ Len(c) = Level'
      /\ \A i \in 1..Level' : c[i] = IF i <= Level - g THEN Contents[i + g] ELSE word
  <2>1. PICK n \in Nat : n = Level - g
    BY <1>0, <1>1
  <2>2. Contents \in Seq(Words) /\ Count(get) <= Len(Contents) /\ n = Len(Contents) - Count(get)
    BY <1>0, <1>1, <1>5, <2>1
  <2>3. Level' = n + p
    BY <1>0, <1>1, <1>4, <2>1
  <2>4. /\ c \in Seq(Words) /\ Len(c) = n + p
        /\ \A i \in 1..(n + p) : c[i] = IF i <= n THEN Contents[i + g] ELSE word
    BY <2>2, QueueTurn
  <2> HIDE DEF c, p, g
  <2> QED BY <2>1, <2>3, <2>4
<1>8. \A i \in 1..Level' : i <= Level - g => Contents'[i] = Contents[i + g]
  <2> SUFFICES ASSUME NEW i \in 1..Level', i <= Level - g
               PROVE  Contents'[i] = Contents[i + g]
    OBVIOUS
  <2>1. i + g \in 1..Level
    BY <1>0, <1>1, <1>6
  <2>2. Contents[i + g] = mem[Place(rbin + (i + g) - 1)]
    <3> HIDE DEF g
    <3> QED BY <1>5, <2>1
  <2>3. Place(rbin' + i - 1) = Place(rbin + (i + g) - 1)
    <3>1. rbin' = IF get THEN (IF rbin + 1 = 2 * DEPTH THEN 0 ELSE rbin + 1) ELSE rbin
      BY AfterIs DEF FifoType, Turns
    <3> QED BY <1>0, <1>1, <3>1 DEF Place
  <2>4. wr => Place(rbin + (i + g) - 1) # Place(wbin)
    BY <1>0, <1>1 DEF Place, Ahead
  <2>5. mem'[Place(rbin' + i - 1)] = mem[Place(rbin + (i + g) - 1)]
    <3>1. Place(rbin + (i + g) - 1) \in 0..(DEPTH - 1)
      BY <1>1, <2>1 DEF Place
    <3> QED BY <1>2, <2>3, <2>4, <3>1 DEF Stores
  <2> QED BY <1>6, <2>2, <2>5
<1>9. \A i \in 1..Level' : ~(i <= Level - g) => Contents'[i] = word
  <2> SUFFICES ASSUME NEW i \in 1..Level', ~(i <= Level - g)
               PROVE  mem'[Place(rbin' + i - 1)] = word
    BY <1>6
  <2>1. wr /\ i = Level - g + 1
    BY <1>0, <1>1, <1>4
  <2>2. Place(rbin' + i - 1) = Place(wbin)
    <3>1. rbin' = IF get THEN (IF rbin + 1 = 2 * DEPTH THEN 0 ELSE rbin + 1) ELSE rbin
      BY AfterIs DEF FifoType, Turns
    <3> QED BY <1>0, <1>1, <2>1, <3>1 DEF Place, Ahead
  <2> QED BY <1>2, <2>1, <2>2 DEF Stores
<1>10. Contents' = c
  <2> HIDE DEF c, g, p
  <2>1. \A i \in 1..Level' : Contents'[i] = c[i]
    BY <1>7, <1>8, <1>9
  <2>2. ASSUME NEW s \in Seq(Words), NEW t \in Seq(Words), NEW n \in Nat,
               Len(s) = n, Len(t) = n, \A i \in 1..n : s[i] = t[i]
        PROVE  s = t
    BY <2>2
  <2> QED BY <1>6, <1>7, <2>1, <2>2
<1> QED BY <1>3, <1>10 DEF Turned

-----------------------------------------------------------------------------
\* The path.

Errors == {"bad", "dribble", "overrun"}
Syms == [of : Frames \cup {Junk}, n : Int]
DataWords == [end : {FALSE}, err : {{}}, byte : Syms]
EndWords == [end : {TRUE}, err : SUBSET Errors, byte : {Junk}]
Words == DataWords \cup EndWords \cup {None, Noise}

RxStates ==
      [state : {"RX_IDLE", "RX_PREAMBLE", "RX_DATA", "RX_END"}, lo_nibble : Syms,
          odd : BOOLEAN, crc : Syms, crc_err_q : BOOLEAN, dribble_q : BOOLEAN,
          overrun_q : BOOLEAN, rx_er_q : BOOLEAN, dl : Seq(Syms),
          fifo_wr_o : BOOLEAN, fifo_data_o : Words]
RxType == rx \in RxStates
PathType ==
  /\ RxType
  /\ air \in [of : Frames \cup {Junk}, n : Nat]
  /\ core_rst \in BOOLEAN /\ rx_rst_q \in 0..3 /\ calm \in 0..2 /\ started \in BOOLEAN
  /\ taken \in Seq(Words) /\ owed \in Int
  /\ mem \in [0..(DEPTH - 1) -> Words]
  /\ wbin \in Pointers /\ rbin \in Pointers
  /\ wgray = bin2gray(wbin) /\ rgray = bin2gray(rbin)

Live == ~core_rst /\ rx_rst_q < 3

Blank ==
  /\ wbin = 0 /\ rbin = 0 /\ rgray_w1 = Zero /\ rgray_w2 = Zero
  /\ rx = NewRx /\ taken = <<>> /\ owed = 0
ResetInv ==
  /\ core_rst => rx_rst_q = 3
  /\ ~core_rst /\ rx_rst_q = 3 => rbin = 0 /\ ~started /\ calm = 0 /\ taken = <<>>
  /\ Live /\ rx_rst_q > 0 => Blank

ViewInv ==
  Live =>
    /\ FifoType /\ WriterSees
    /\ calm >= 1 => ReaderCaught
    /\ calm = 2 => ReaderSees
    /\ started => calm = 2

\* What the receiver writes, and when.
Sending == rx.fifo_wr_o
WriteInv ==
  /\ rx.state \in {"RX_PREAMBLE", "RX_END"} => ~Sending
  /\ Sending /\ rx.state = "RX_IDLE" => rx.fifo_data_o \in EndWords
  /\ Sending /\ rx.state = "RX_DATA" => rx.fifo_data_o \in DataWords
  /\ Sending /\ rx.fifo_data_o.end => ~wfull

\* What is owed is in the FIFO, at its input, or yet to be written.
EndsAt(s) == {i \in 1..Len(s) : s[i].end}
Ends(s) == Cardinality(EndsAt(s))
Pending == rx.state \in {"RX_DATA", "RX_END"}
AtInput == Count(Sending /\ rx.fifo_data_o.end)
InHand == Count(Pending)
OwedInv == owed = Ends(Contents) + AtInput + InHand

\* The first n words of s end with the first m bytes of f, and these are all since
\* an end word.
Follows(s, n, f, m) ==
  /\ m \in 0..n
  /\ \A j \in 1..m : ~s[n - m + j].end /\ s[n - m + j].byte = [of |-> f, n |-> j]
  /\ n = m \/ s[n - m].end
Closed(s) == s = <<>> \/ s[Len(s)].end
Good(w) == w.end /\ w.err = {}
Sent(s, n) == \E f \in Frames : Clean(f) /\ Follows(s, n, f, Fr[f].bytes - 4)
AllGood(s) == \A i \in 1..Len(s) : Good(s[i]) => Sent(s, i - 1)
TakenInv ==
  /\ AllGood(taken)
  /\ \A i \in 1..(Len(taken) - 1) : ~taken[i].end

\* The words taken since the last end word and those to come, the one at the input
\* included.
Out == IF Sending THEN <<rx.fifo_data_o>> ELSE <<>>
T == taken \o Contents
NoErrors == ~rx.crc_err_q /\ ~rx.dribble_q /\ ~rx.overrun_q /\ ~rx.rx_er_q
Least(a, b) == IF a <= b THEN a ELSE b
Fresh == InData /\ Symbol.n = 1

\* The receiver after k symbols of f and nothing else.
Whole(s, f, k) ==
  /\ k \in Nat /\ k > 0 /\ rx.odd = (k % 2 = 1)
  /\ rx.odd => rx.lo_nibble = [of |-> f, n |-> k]
  /\ Len(rx.dl) = Least(k \div 2, 4)
  /\ \A i \in 1..Len(rx.dl) : rx.dl[i] = [of |-> f, n |-> (k \div 2) - Len(rx.dl) + i]
  /\ Fr[f].er => rx.rx_er_q
  /\ dv => air.of = f /\ air.n = Lead(f) + k + 1
  /\ ~rx.overrun_q => Follows(s, Len(s), f, (k \div 2) - Len(rx.dl))
DataInv(s) ==
  /\ dv => InData
  /\ Sending => ~rx.odd
  /\ Sending /\ ~rx.overrun_q => ~wfull
  /\ rx.crc.of = Junk => rx.crc.n \in {0, 0 - 1}
  /\ rx.crc.of = Junk /\ rx.crc.n = 0 /\ Fresh => ~rx.odd /\ rx.dl = <<>> /\ Closed(s)
  /\ rx.crc.of # Junk => Whole(s, rx.crc.of, rx.crc.n)
StreamInv(s) ==
  /\ AllGood(s)
  /\ rx.state \in {"RX_IDLE", "RX_PREAMBLE"} => Closed(s)
  /\ rx.state = "RX_PREAMBLE" => rx.dl = <<>> /\ ~rx.odd /\ rx.crc = NoSymbols
  /\ rx.state = "RX_DATA" => DataInv(s)
  /\ rx.state = "RX_END" /\ NoErrors => Sent(s, Len(s))

-----------------------------------------------------------------------------
\* The types of what is on the wire.
LEMMA SymbolIs ==
  ASSUME PathType
  PROVE  Symbol \in Syms /\ NoSymbols \in Syms /\ None \in Words /\ (dv => air.of \in Frames)
<1>1. dv => air.of \in Frames /\ Lead(air.of) \in Nat
  BY FramesAssumption DEF PathType, dv, Lead
<1>2. NoSymbols \in Syms
  BY DEF NoSymbols, Syms
<1>3. Symbol \in Syms
  BY <1>1, <1>2 DEF Symbol, InData, PathType, Syms
<1> QED BY <1>1, <1>2, <1>3 DEF Words, None

\* The receiver's registers keep their types out of each of its states.
LEMMA IdleType ==
  ASSUME RxType PROVE Idle(dv) \in RxStates
<1> DEFINE fresh == [Quiet EXCEPT !.odd = FALSE, !.dl = <<>>, !.rx_er_q = FALSE,
                                  !.crc = NoSymbols]
<1>1. Quiet \in RxStates
  BY DEF RxType, RxStates, Quiet
<1>2. fresh \in RxStates
  <2>1. NoSymbols \in Syms /\ <<>> \in Seq(Syms)
    BY DEF NoSymbols, Syms
  <2> HIDE DEF Quiet
  <2> QED BY <1>1, <2>1 DEF RxStates
<1>3. [fresh EXCEPT !.state = "RX_PREAMBLE", !.overrun_q = FALSE,
                    !.dribble_q = FALSE, !.crc_err_q = FALSE] \in RxStates
  <2> HIDE DEF fresh
  <2> QED BY <1>2 DEF RxStates
<1> QED BY <1>2, <1>3 DEF Idle

\* In the preamble.
LEMMA PreambleType ==
  ASSUME RxType, NEW looks, NEW s \in Syms PROVE Preamble(dv, looks, s) \in RxStates
<1>1. Quiet \in RxStates /\ Goes("RX_IDLE") \in RxStates /\ Goes("RX_DATA") \in RxStates
  BY DEF RxType, RxStates, Quiet, Goes
<1>2. NoSymbols \in Syms /\ HALF \in BOOLEAN
  BY DEF NoSymbols, Syms, HALF
<1>3. /\ [Goes("RX_DATA") EXCEPT !.odd = FALSE, !.crc = NoSymbols] \in RxStates
      /\ [Goes("RX_DATA") EXCEPT !.odd = HALF, !.lo_nibble = s] \in RxStates
  <2> DEFINE g == Goes("RX_DATA")
  <2> HIDE DEF g
  <2>1. g \in RxStates BY <1>1 DEF g
  <2>2. /\ [g EXCEPT !.odd = FALSE, !.crc = NoSymbols] \in RxStates
        /\ [g EXCEPT !.odd = HALF, !.lo_nibble = s] \in RxStates
    BY <1>2, <2>1 DEF RxStates
  <2> QED BY <2>2 DEF g
<1> QED BY <1>1, <1>3 DEF Preamble

\* In the data.
LEMMA DataType ==
  ASSUME RxType, NEW s \in Syms, NEW ok \in BOOLEAN, NEW full \in BOOLEAN, NEW e \in BOOLEAN
  PROVE  Data(dv, e, s, ok, full) \in RxStates
<1>1. Crc(s) \in Syms
  BY DEF Crc, Syms
<1>2. NewByte(s) \in Syms
  BY DEF NewByte, Syms
<1>3. Passed(NewByte(s)) \in RxStates
  <2>1. CASE Len(rx.dl) = 4
    <3>1. Head(rx.dl) \in Syms /\ Append(Tail(rx.dl), NewByte(s)) \in Seq(Syms)
      <4>1. rx.dl \in Seq(Syms) BY DEF RxType, RxStates
      <4>2. rx.dl # <<>> BY <2>1
      <4>3. Head(rx.dl) \in Syms /\ Tail(rx.dl) \in Seq(Syms)
        BY <4>1, <4>2
      <4> QED BY <1>2, <4>3
    <3>2. [end |-> FALSE, err |-> {}, byte |-> Head(rx.dl)] \in Words
      BY <3>1 DEF Words, DataWords
    <3> QED BY <2>1, <3>1, <3>2 DEF RxType, RxStates, Passed, Quiet
  <2>2. CASE Len(rx.dl) # 4
    <3>1. Append(rx.dl, NewByte(s)) \in Seq(Syms)
      BY <1>2 DEF RxType, RxStates
    <3> QED BY <2>2, <3>1 DEF RxType, RxStates, Passed, Quiet
  <2> QED BY <2>1, <2>2
<1>4. CASE ~dv
  BY <1>4 DEF RxType, RxStates, Data, Goes, Quiet, HALF
<1>5. CASE dv /\ ~byte_now
  BY <1>1, <1>5 DEF RxType, RxStates, Data, byte_now
<1>6. CASE dv /\ byte_now
  BY <1>1, <1>3, <1>6 DEF RxType, RxStates, Data, Overrun
<1> QED BY <1>4, <1>5, <1>6

\* At the end.
LEMMA EndType ==
  ASSUME RxType, NEW full \in BOOLEAN PROVE End(full) \in RxStates /\ EndWord \in EndWords
<1>1. EndWord \in EndWords
  BY DEF EndWord, EndWords, Errors
<1> QED BY <1>1 DEF RxType, RxStates, End, Goes, Quiet, Words

\* And so on an edge of rx_clk.
LEMMA RxEdgeType ==
  ASSUME PathType, NEW rst, NEW looks,
         RxEdge(rst, dv, er, looks, Symbol, crc_ok, wfull)
  PROVE  rx' \in RxStates
<1>1. RxType /\ Symbol \in Syms
  BY SymbolIs DEF PathType
<1>2. er \in BOOLEAN /\ crc_ok \in BOOLEAN /\ wfull \in BOOLEAN
  BY DEF er, crc_ok, wfull
<1>3. NewRx \in RxStates
  <2>1. None \in Words /\ NoSymbols \in Syms /\ <<>> \in Seq(Syms)
    BY SymbolIs
  <2> QED BY <2>1 DEF NewRx, RxStates
<1>4. /\ Idle(dv) \in RxStates /\ Preamble(dv, looks, Symbol) \in RxStates
      /\ Data(dv, er, Symbol, crc_ok, wfull) \in RxStates /\ End(wfull) \in RxStates
  BY <1>1, <1>2, IdleType, PreambleType, DataType, EndType
<1> QED BY <1>1, <1>3, <1>4 DEF RxEdge, RxType, RxStates

\* The wire keeps its type.
LEMMA AirType ==
  ASSUME PathType, AirMoves
  PROVE  air' \in [of : Frames \cup {Junk}, n : Nat]
<1>1. air.n + 1 \in Nat /\ 1 \in Nat
  BY DEF PathType
<1>2. CASE dv
  BY <1>1, <1>2 DEF AirMoves, PathType, Silence
<1>3. CASE ~dv
  BY <1>1, <1>3 DEF AirMoves, PathType, Silence
<1> QED BY <1>2, <1>3

\* What the read side is given is a word.
LEMMA DataRead ==
  ASSUME PathType
  PROVE  /\ rd_data \in Words /\ Took \in Seq(Words)
         /\ wbin % DEPTH \in 0..(DEPTH - 1)
<1>1. rbin \in Nat /\ rbin < 3 * DEPTH /\ wbin \in Nat /\ wbin < 3 * DEPTH
  BY Sizes DEF PathType, Pointers
<1>2. rbin % DEPTH \in 0..(DEPTH - 1) /\ wbin % DEPTH \in 0..(DEPTH - 1)
  BY <1>1, PlaceIs
<1>3. rd_data \in Words
  BY <1>2 DEF PathType, rd_data
<1> QED BY <1>2, <1>3 DEF PathType, Took

\* The write side's registers after an edge of rx_clk, the read side's after one of clk.
LEMMA WriteSide ==
  ASSUME PathType, NEW seen, RxSide(seen)
  PROVE  /\ rx' \in RxStates /\ air' \in [of : Frames \cup {Junk}, n : Nat]
         /\ mem' \in [0..(DEPTH - 1) -> Words]
         /\ wbin' \in Pointers /\ wgray' = bin2gray(wbin')
<1>1. rx' \in RxStates /\ air' \in [of : Frames \cup {Junk}, n : Nat]
  BY RxEdgeType, AirType DEF RxSide
<1>2. rx.fifo_data_o \in Words
  BY DEF PathType, RxType, RxStates
<1>3. mem' \in [0..(DEPTH - 1) -> Words]
  BY <1>2, DataRead DEF RxSide, WriteEdge, PathType
<1>4. wbin' \in {0, wbin, After(wbin)} /\ wgray' = bin2gray(wbin')
  BY DEF RxSide, WriteEdge, wbin_next, Moved, After
<1>5. 0 \in Pointers /\ After(wbin) \in Pointers
  BY Sizes, AfterIs DEF PathType, Pointers
<1> QED BY <1>1, <1>3, <1>4, <1>5 DEF PathType

\* The read side's registers after an edge of clk.
LEMMA ReadSide ==
  ASSUME PathType, NEW seen, NEW takes \in BOOLEAN, ClkSide(seen, takes)
  PROVE  /\ taken' \in Seq(Words) /\ started' \in BOOLEAN /\ calm' \in 0..2
         /\ core_rst' \in BOOLEAN
         /\ rbin' \in Pointers /\ rgray' = bin2gray(rbin')
<1>1. rbin' \in {0, rbin, After(rbin)} /\ rgray' = bin2gray(rbin')
  BY DEF ClkSide, ReadEdge, rbin_next, Moved, After
<1>2. 0 \in Pointers /\ After(rbin) \in Pointers
  BY Sizes, AfterIs DEF PathType, Pointers
<1>3. taken' \in Seq(Words)
  <2>1. <<>> \in Seq(Words) OBVIOUS
  <2> QED BY <2>1, DataRead DEF ClkSide, PathType
<1>4. calm' \in 0..2 /\ core_rst' \in BOOLEAN
  <2>1. calm \in 0..2
    BY DEF PathType
  <2>2. \A b \in BOOLEAN : (IF b THEN 0 ELSE IF calm < 2 THEN calm + 1 ELSE calm) \in 0..2
    BY <2>1
  <2>3. calm' \in 0..2
    BY <2>1, <2>2 DEF ClkSide
  <2>4. core_rst' \in BOOLEAN
    BY DEF ClkSide
  <2> QED BY <2>3, <2>4
<1>5. started' \in BOOLEAN
  BY DEF ClkSide
<1> QED BY <1>1, <1>2, <1>3, <1>4, <1>5 DEF PathType

\* A step keeps every type.
LEMMA TypeStep ==
  ASSUME PathType, [Next]_vars
  PROVE  PathType'
<1>1. \A k \in 0..3 : (IF core_rst THEN 3 ELSE IF k > 0 THEN k - 1 ELSE 0) \in 0..3
  OBVIOUS
<1>2. SyncMoves \in 0..3
  BY DEF PathType, SyncMoves, rx_rst
<1>3. /\ owed \in Int /\ owed + Begun \in Int
      /\ \A b \in BOOLEAN : owed - Ended(b) \in Int
      /\ \A b \in BOOLEAN : owed + Begun - Ended(b) \in Int
  BY DEF PathType, Begun, Ended
<1>4. CASE RxClk
  <2>1. /\ rx' \in RxStates /\ air' \in [of : Frames \cup {Junk}, n : Nat]
        /\ mem' \in [0..(DEPTH - 1) -> Words]
        /\ wbin' \in Pointers /\ wgray' = bin2gray(wbin')
    BY <1>4, WriteSide DEF RxClk
  <2> QED BY <1>2, <1>3, <1>4, <2>1 DEF RxClk, PathType, RxType, rVars
<1>5. CASE Clk
  <2>1. PICK takes \in BOOLEAN :
          ClkSide(wgray, takes) /\ owed' = IF core_rst' THEN 0 ELSE owed - Ended(takes)
    BY <1>5 DEF Clk
  <2>2. /\ taken' \in Seq(Words) /\ started' \in BOOLEAN /\ calm' \in 0..2
        /\ core_rst' \in BOOLEAN
        /\ rbin' \in Pointers /\ rgray' = bin2gray(rbin')
    BY <2>1, ReadSide
  <2> QED BY <1>3, <1>5, <2>1, <2>2 DEF Clk, PathType, RxType, wVars
<1>6. CASE Both
  <2>1. PICK takes \in BOOLEAN :
          /\ \E seen \in Caught(rgray, rbin_next(core_rst, takes)) : RxSide(seen)
          /\ \E seen \in Caught(wgray, wbin_next(rx_rst, rx.fifo_wr_o)) : ClkSide(seen, takes)
          /\ owed' = IF core_rst' \/ rx_rst THEN 0 ELSE owed + Begun - Ended(takes)
          /\ rx_rst_q' = IF core_rst' THEN 3 ELSE SyncMoves
    BY <1>6 DEF Both
  <2>2. /\ taken' \in Seq(Words) /\ started' \in BOOLEAN /\ calm' \in 0..2
        /\ core_rst' \in BOOLEAN
        /\ rbin' \in Pointers /\ rgray' = bin2gray(rbin')
    BY <2>1, ReadSide
  <2>3. /\ rx' \in RxStates /\ air' \in [of : Frames \cup {Junk}, n : Nat]
        /\ mem' \in [0..(DEPTH - 1) -> Words]
        /\ wbin' \in Pointers /\ wgray' = bin2gray(wbin')
    BY <2>1, WriteSide
  <2> QED BY <1>2, <1>3, <2>1, <2>2, <2>3 DEF PathType, RxType
<1>7. CASE UNCHANGED vars
  BY <1>7 DEF vars, pathVars, fifoVars, wVars, rVars, PathType, RxType, RxStates
<1> QED BY <1>4, <1>5, <1>6, <1>7 DEF Next

-----------------------------------------------------------------------------
\* A step while neither side is in reset: the FIFO writes or not and reads or not.
RxTicks(wr) ==
  /\ wr = do_wr(rx.fifo_wr_o)
  /\ \E looks \in Looks : RxEdge(FALSE, dv, er, looks, Symbol, crc_ok, wfull)
  /\ AirMoves
RxRests == rx' = rx /\ air' = air
CalmGrows == calm' = IF calm < 2 THEN calm + 1 ELSE calm

WriterPart(wr) ==
  \/ RxTicks(wr) /\ WriterSamples
  \/ RxRests /\ WriterWaits(wr)
ReaderPart(get) ==
  \/ ReaderSamples /\ CalmGrows /\ (started' => started \/ calm = 2)
  \/ ReaderWaits(get) /\ calm' = calm /\ started' = started
Running(wr, get) ==
  /\ Turns(wr, get) /\ WriterPart(wr) /\ ReaderPart(get)
  /\ Stores(wr, rx.fifo_data_o)
  /\ wr => ~wfull
  /\ get => started /\ ~rempty
  /\ taken' = IF get THEN Took ELSE taken
  /\ Live' => owed' = owed + Begun - Ended(get)
  /\ rx_rst_q' = IF core_rst' THEN 3 ELSE 0

\* An edge of rx_clk out of reset, as a step of the FIFO and of the receiver.
LEMMA WriteEdgeRuns ==
  ASSUME PathType, rx_rst_q = 0, NEW seen, RxSide(seen), NEW wr, wr = do_wr(rx.fifo_wr_o)
  PROVE  /\ wbin' = IF wr THEN After(wbin) ELSE wbin
         /\ wgray' = bin2gray(wbin')
         /\ rgray_w1' = seen /\ rgray_w2' = rgray_w1
         /\ Stores(wr, rx.fifo_data_o)
         /\ RxTicks(wr)
<1>1. rx_rst = FALSE
  BY DEF rx_rst
<1>2. WriteEdge(FALSE, rx.fifo_wr_o, rx.fifo_data_o, seen)
  BY <1>1 DEF RxSide
<1>3. wbin_next(FALSE, rx.fifo_wr_o) = IF wr THEN After(wbin) ELSE wbin
  BY DEF wbin_next, Moved, After
<1>4. /\ wbin' = IF wr THEN After(wbin) ELSE wbin
      /\ wgray' = bin2gray(wbin')
      /\ rgray_w1' = seen /\ rgray_w2' = rgray_w1
      /\ Stores(wr, rx.fifo_data_o)
  BY <1>2, <1>3 DEF WriteEdge, Stores
<1>5. RxTicks(wr)
  BY <1>1 DEF RxSide, RxTicks
<1> QED BY <1>4, <1>5

\* An edge of clk out of reset, as a step of the FIFO and of the receive unit.
LEMMA ReadEdgeRuns ==
  ASSUME PathType, ~core_rst, rx_rst_q < 3, StartsLate,
         NEW seen, NEW get \in BOOLEAN, ClkSide(seen, get)
  PROVE  /\ rbin' = IF get THEN After(rbin) ELSE rbin
         /\ rgray' = bin2gray(rbin')
         /\ wgray_r1' = seen /\ wgray_r2' = wgray_r1
         /\ get => started /\ ~rempty
         /\ taken' = IF get THEN Took ELSE taken
         /\ CalmGrows /\ (started' => started \/ calm = 2)
<1>1. core_rst = FALSE /\ rx_rst_q # 3
  BY DEF PathType
<1>2. get => started /\ ~rempty
  BY DEF ClkSide, rd_en
<1>3. ReadEdge(FALSE, get, seen)
  BY <1>1 DEF ClkSide
<1>4. rbin_next(FALSE, get) = IF get THEN After(rbin) ELSE rbin
  BY <1>2 DEF rbin_next, Moved, After, do_rd
<1>5. /\ rbin' = IF get THEN After(rbin) ELSE rbin
      /\ rgray' = bin2gray(rbin')
      /\ wgray_r1' = seen /\ wgray_r2' = wgray_r1
  BY <1>3, <1>4 DEF ReadEdge
<1>6. taken' = IF get THEN Took ELSE taken
  BY <1>1 DEF ClkSide
<1>7. CalmGrows
  BY <1>1 DEF ClkSide, CalmGrows
<1>8. started' => started \/ calm = 2
  BY DEF ClkSide, AtRest
<1> QED BY <1>2, <1>5, <1>6, <1>7, <1>8

\* Every step between two resets is one in which the FIFO writes or not and reads or
\* not, the two edges at once included.
LEMMA RunningStep ==
  ASSUME PathType, Live, rx_rst_q = 0, StartsLate, Next
  PROVE  \E wr, get \in BOOLEAN : Running(wr, get)
<1>0. ~core_rst /\ rx_rst = FALSE /\ SyncMoves = 0 /\ core_rst = FALSE
  BY DEF Live, rx_rst, SyncMoves, PathType
<1>1. CASE RxClk
  <2> DEFINE w == do_wr(rx.fifo_wr_o)
  <2>1. PICK wr \in BOOLEAN : wr = do_wr(rx.fifo_wr_o)
    BY DEF do_wr
  <2>2. /\ wbin' = IF wr THEN After(wbin) ELSE wbin
        /\ wgray' = bin2gray(wbin')
        /\ rgray_w1' = rgray /\ rgray_w2' = rgray_w1
        /\ Stores(wr, rx.fifo_data_o)
        /\ RxTicks(wr)
    BY <1>1, <2>1, WriteEdgeRuns DEF RxClk
  <2>3. Turns(wr, FALSE) /\ WriterSamples /\ ReaderWaits(FALSE)
    BY <1>1, <2>2 DEF Turns, WriterSamples, ReaderWaits, RxClk, rVars, PathType
  <2>4. owed' = owed + Begun - Ended(FALSE)
    BY <1>0, <1>1 DEF RxClk, Ended, Begun, PathType
  <2>5. Running(wr, FALSE)
    BY <1>0, <1>1, <2>1, <2>2, <2>3, <2>4
       DEF RxClk, Running, WriterPart, ReaderPart, do_wr, PathType
  <2> QED BY <2>5
<1>2. CASE Clk
  <2>1. PICK get \in BOOLEAN :
          ClkSide(wgray, get) /\ owed' = IF core_rst' THEN 0 ELSE owed - Ended(get)
    BY <1>2 DEF Clk
  <2>2. /\ rbin' = IF get THEN After(rbin) ELSE rbin
        /\ rgray' = bin2gray(rbin')
        /\ wgray_r1' = wgray /\ wgray_r2' = wgray_r1
        /\ get => started /\ ~rempty
        /\ taken' = IF get THEN Took ELSE taken
        /\ CalmGrows /\ (started' => started \/ calm = 2)
    BY <1>0, <2>1, ReadEdgeRuns DEF Live
  <2>3. Turns(FALSE, get) /\ WriterWaits(FALSE) /\ ReaderSamples /\ RxRests
    BY <1>2, <2>2 DEF Turns, WriterWaits, ReaderSamples, RxRests, Clk, wVars, PathType
  <2>4. Live' => owed' = owed + Begun - Ended(get)
    BY <1>2, <2>1 DEF Clk, Ended, Begun, PathType, Live
  <2>5. Running(FALSE, get)
    BY <1>0, <1>2, <2>2, <2>3, <2>4 DEF Clk, Running, WriterPart, ReaderPart, wVars, Stores
  <2> QED BY <2>5
<1>3. CASE Both
  <2>1. PICK get \in BOOLEAN :
          /\ \E seen \in Caught(rgray, rbin_next(core_rst, get)) : RxSide(seen)
          /\ \E seen \in Caught(wgray, wbin_next(rx_rst, rx.fifo_wr_o)) : ClkSide(seen, get)
          /\ owed' = IF core_rst' \/ rx_rst THEN 0 ELSE owed + Begun - Ended(get)
          /\ rx_rst_q' = IF core_rst' THEN 3 ELSE SyncMoves
    BY <1>3 DEF Both
  <2>2. PICK rs \in Caught(rgray, rbin_next(FALSE, get)) : RxSide(rs)
    BY <1>0, <2>1
  <2>3. PICK ws \in Caught(wgray, wbin_next(FALSE, rx.fifo_wr_o)) : ClkSide(ws, get)
    BY <1>0, <2>1
  <2>4. PICK wr \in BOOLEAN : wr = do_wr(rx.fifo_wr_o)
    BY DEF do_wr
  <2>5. /\ wbin' = IF wr THEN After(wbin) ELSE wbin
        /\ wgray' = bin2gray(wbin')
        /\ rgray_w1' = rs /\ rgray_w2' = rgray_w1
        /\ Stores(wr, rx.fifo_data_o)
        /\ RxTicks(wr)
    BY <2>2, <2>4, WriteEdgeRuns
  <2>6. /\ rbin' = IF get THEN After(rbin) ELSE rbin
        /\ rgray' = bin2gray(rbin')
        /\ wgray_r1' = ws /\ wgray_r2' = wgray_r1
        /\ get => started /\ ~rempty
        /\ taken' = IF get THEN Took ELSE taken
        /\ CalmGrows /\ (started' => started \/ calm = 2)
    BY <1>0, <2>3, ReadEdgeRuns DEF Live
  <2>7. wbin_next(FALSE, rx.fifo_wr_o) = wbin' /\ rbin_next(FALSE, get) = rbin'
    BY <2>4, <2>5, <2>6 DEF wbin_next, rbin_next, Moved, After, do_rd
  <2>8. rs \in {bin2gray(rbin), bin2gray(rbin')}
    <3>1. rbin \in Pointers /\ rbin' \in {rbin, After(rbin)} /\ rgray = bin2gray(rbin)
      BY <2>6 DEF PathType
    <3>2. rs \in Caught(bin2gray(rbin), rbin')
      BY <2>2, <2>7, <3>1
    <3> QED BY <3>1, <3>2, SampleIs
  <2>9. ws \in {bin2gray(wbin), bin2gray(wbin')}
    <3>1. wbin \in Pointers /\ wbin' \in {wbin, After(wbin)} /\ wgray = bin2gray(wbin)
      BY <2>5 DEF PathType
    <3>2. ws \in Caught(bin2gray(wbin), wbin')
      BY <2>3, <2>7, <3>1
    <3> QED BY <3>1, <3>2, SampleIs
  <2>10. Turns(wr, get) /\ WriterSamples /\ ReaderSamples
    BY <2>5, <2>6, <2>8, <2>9 DEF Turns, WriterSamples, ReaderSamples
  <2>11. Live' => owed' = owed + Begun - Ended(get)
    BY <1>0, <2>1 DEF Live
  <2>12. rx_rst_q' = IF core_rst' THEN 3 ELSE 0
    BY <1>0, <2>1
  <2>13. Running(wr, get)
    BY <2>4, <2>5, <2>6, <2>10, <2>11, <2>12 DEF Running, WriterPart, ReaderPart, do_wr
  <2> QED BY <2>13
<1> QED BY <1>1, <1>2, <1>3 DEF Next

\* Through it each side still knows no more than there is.
LEMMA ViewStep ==
  ASSUME PathType, ViewInv, Live, NEW wr \in BOOLEAN, NEW get \in BOOLEAN, Running(wr, get)
  PROVE  /\ FifoType /\ FifoType' /\ ViewInv'
         /\ wr => Level < DEPTH
         /\ get => Level > 0
         /\ Level' = Level + (IF wr THEN 1 ELSE 0) - (IF get THEN 1 ELSE 0)
<1>1. FifoType /\ WriterSees /\ (started => calm = 2) /\ calm \in 0..2
  BY DEF ViewInv, PathType
<1>2. (calm >= 1 => ReaderCaught) /\ (calm = 2 => ReaderSees)
  BY DEF ViewInv
<1>3. Turns(wr, get) /\ (wr => ~wfull) /\ (get => ReaderSees /\ ~rempty)
  BY <1>1, <1>2 DEF Running
<1>4. (wr => Level < DEPTH) /\ (get => Level > 0)
  BY <1>1, <1>3, RoomToWrite, WordToRead
<1>5. FifoType' /\ Level' = Level + (IF wr THEN 1 ELSE 0) - (IF get THEN 1 ELSE 0)
  BY <1>1, <1>3, <1>4, LevelMoves
<1>6. WriterSees'
  <2>1. WriterSamples \/ WriterWaits(wr)
    BY DEF Running, WriterPart
  <2> QED BY <1>1, <1>3, <1>4, <2>1, WriterStep
<1>7. /\ calm' >= 1 => ReaderCaught'
      /\ calm' = 2 => ReaderSees'
      /\ started' => calm' = 2
  <2>1. ReaderSamples \/ ReaderWaits(get)
    BY DEF Running, ReaderPart
  <2>2. /\ ReaderSamples => ReaderCaught'
        /\ ReaderSamples /\ ~get /\ ReaderCaught => ReaderSees'
        /\ ReaderCaught /\ ReaderWaits(get) => ReaderCaught'
        /\ ReaderSees => ReaderSees'
    BY <1>1, <1>3, <1>4, <2>1, ReaderStep
  <2>3. get => calm = 2
    BY <1>1 DEF Running
  <2>4. CASE ReaderSamples /\ CalmGrows /\ (started' => started \/ calm = 2)
    BY <1>1, <1>2, <2>2, <2>3, <2>4 DEF CalmGrows
  <2>5. CASE ReaderWaits(get) /\ calm' = calm /\ started' = started
    BY <1>1, <1>2, <2>2, <2>5
  <2> QED BY <2>4, <2>5 DEF Running, ReaderPart
<1> QED BY <1>1, <1>4, <1>5, <1>6, <1>7 DEF ViewInv

\* Both sides know of an empty FIFO when it is one.
LEMMA BlankViews ==
  Blank /\ PathType => FifoType /\ WriterSees /\ Level = 0
<1> SUFFICES ASSUME Blank, PathType
             PROVE  FifoType /\ WriterSees /\ Level = 0
  OBVIOUS
<1>1. 0 \in Pointers /\ Ago(0, 0) = 0 /\ Ahead(0, 0) = 0 /\ DEPTH \in Nat
  BY Sizes DEF Pointers, Ago, Ahead
<1>2. Level = 0
  BY <1>1, LevelIs DEF Level, Blank
<1>3. FifoType
  BY <1>1, <1>2 DEF FifoType, PathType
<1>4. rgray_w1 = bin2gray(Ago(rbin, 0)) /\ rgray_w2 = bin2gray(Ago(rbin, 0))
  BY <1>1, GrayZero DEF Blank
<1>5. 0 \in Nat /\ 0 <= 0 /\ Level + 0 <= DEPTH
  BY <1>1, <1>2
<1> QED BY <1>2, <1>3, <1>4, <1>5 DEF WriterSees

\* The same after a step.
LEMMA BlankViewsNext ==
  Blank' /\ PathType' => FifoType' /\ WriterSees' /\ (Level = 0)'
BY BlankViews, PTL

\* A step that is still in reset, or comes out of it, leaves everything as at first.
LEMMA BlankStep ==
  ASSUME PathType, ResetInv, ViewInv, StartsLate, Next, Live', ~(Live /\ rx_rst_q = 0)
  PROVE  Blank' /\ ViewInv'
<1>0. PathType'
  BY TypeStep
<1>1. ~core_rst /\ core_rst = FALSE
  <2>1. ASSUME core_rst PROVE FALSE
    <3>1. rx_rst_q = 3 /\ SyncMoves = 3
      BY <2>1 DEF ResetInv, SyncMoves
    <3>2. rx_rst_q' = 3 \/ core_rst'
      BY <2>1, <3>1 DEF Next, RxClk, Clk, Both
    <3> QED BY <3>2 DEF Live
  <2> QED BY <2>1 DEF PathType
<1>2. rx_rst_q \in 1..3 /\ rx_rst = TRUE /\ SyncMoves = rx_rst_q - 1
  BY <1>1 DEF Live, PathType, rx_rst, SyncMoves
<1>3. rbin = 0 /\ taken = <<>> /\ (rx_rst_q < 3 => Blank)
  BY <1>1, <1>2 DEF ResetInv, Blank, Live
<1>4. ASSUME NEW get \in BOOLEAN, get => rd_en
      PROVE  ~get
  <2>1. CASE rx_rst_q = 3
    BY <1>1, <1>4, <2>1 DEF ResetInv, rd_en
  <2>2. CASE rx_rst_q < 3
    <3>1. Live /\ Blank /\ Level = 0 /\ FifoType
      BY <1>1, <1>2, <1>3, <2>2, BlankViews DEF Live
    <3>2. started => ReaderSees
      BY <3>1 DEF ViewInv
    <3>3. ReaderSees => rempty
      BY <3>1, WordToRead
    <3> QED BY <1>4, <3>2, <3>3 DEF rd_en
  <2>3. rx_rst_q = 3 \/ rx_rst_q < 3
    BY <1>2
  <2> QED BY <2>1, <2>2, <2>3
<1>5. ASSUME NEW seen, RxSide(seen)
      PROVE  /\ wbin' = 0 /\ rgray_w1' = Zero /\ rgray_w2' = Zero /\ rx' = NewRx
             /\ wgray' = bin2gray(0)
  BY <1>2, <1>5 DEF RxSide, WriteEdge, wbin_next, RxEdge
<1>6. ASSUME NEW seen, NEW get \in BOOLEAN, ClkSide(seen, get)
      PROVE  /\ rbin' = 0 /\ taken' = <<>> /\ ~get
             /\ wgray_r1' = seen /\ wgray_r2' = wgray_r1
             /\ started' => started \/ calm = 2
             /\ calm' = IF rx_rst_q = 3 THEN 0 ELSE IF calm < 2 THEN calm + 1 ELSE calm
             /\ rx_rst_q = 3 => ~started'
  <2>1. ~get /\ get = FALSE
    BY <1>4, <1>6 DEF ClkSide
  <2>2. ReadEdge(FALSE, FALSE, seen)
    BY <1>1, <1>6, <2>1 DEF ClkSide
  <2>3. rbin_next(FALSE, FALSE) = 0
    BY <1>3 DEF rbin_next, Moved, do_rd
  <2>4. rbin' = 0 /\ wgray_r1' = seen /\ wgray_r2' = wgray_r1
    BY <2>2, <2>3 DEF ReadEdge
  <2>5. taken' = <<>>
    BY <1>1, <1>3, <1>6, <2>1 DEF ClkSide
  <2>6. /\ started' => started \/ calm = 2
        /\ calm' = IF rx_rst_q = 3 THEN 0 ELSE IF calm < 2 THEN calm + 1 ELSE calm
    BY <1>1, <1>6 DEF ClkSide, AtRest
  <2>7. rx_rst_q = 3 => ~started'
    <3> SUFFICES ASSUME rx_rst_q = 3 PROVE ~started'
      OBVIOUS
    <3>1. ~started /\ ~AtRest
      BY <1>1 DEF AtRest, ResetInv
    <3>2. started' = (~core_rst /\ (started \/ AtRest \/ ~StartsLate))
      BY <1>6 DEF ClkSide
    <3> QED BY <3>1, <3>2
  <2> QED BY <2>1, <2>4, <2>5, <2>6, <2>7
<1>7. Blank' => FifoType' /\ WriterSees'
  BY <1>0, BlankViewsNext
<1>8. ASSUME rx_rst_q < 3, RxClk \/ Clk \/ Both
      PROVE  Blank /\ FifoType /\ (calm >= 1 => ReaderCaught) /\ (calm = 2 => ReaderSees)
             /\ (started => calm = 2) /\ calm \in 0..2
  <2>1. Live /\ Blank
    BY <1>1, <1>3, <1>8 DEF Live
  <2> QED BY <2>1 DEF ViewInv, PathType
<1>9. CASE RxClk
  <2>1. Blank' /\ wgray' = bin2gray(0)
    BY <1>1, <1>2, <1>3, <1>5, <1>9 DEF RxClk, Blank, rVars
  <2>2. calm' = calm /\ started' = started /\ rbin' = rbin
        /\ wgray_r1' = wgray_r1 /\ wgray_r2' = wgray_r2
    BY <1>9 DEF RxClk, rVars
  <2>3. CASE rx_rst_q = 3
    <3>1. calm' = 0 /\ ~started'
      BY <1>1, <2>2, <2>3 DEF ResetInv
    <3> QED BY <1>7, <2>1, <3>1 DEF ViewInv
  <2>4. CASE rx_rst_q < 3
    <3>1. /\ Blank /\ FifoType /\ (calm >= 1 => ReaderCaught) /\ (calm = 2 => ReaderSees)
          /\ (started => calm = 2)
      BY <1>8, <1>9, <2>4
    <3>2. Turns(FALSE, FALSE) /\ ReaderWaits(FALSE)
      BY <1>9, <2>1, <2>2, <3>1 DEF Turns, ReaderWaits, Blank, FifoType, RxClk, rVars
    <3>3. (ReaderCaught => ReaderCaught') /\ (ReaderSees => ReaderSees')
      BY <3>1, <3>2, ReaderStep
    <3> QED BY <1>7, <2>1, <2>2, <3>1, <3>3 DEF ViewInv
  <2>5. rx_rst_q = 3 \/ rx_rst_q < 3
    BY <1>2
  <2> QED BY <2>1, <2>3, <2>4, <2>5
<1>10. ASSUME NEW seen, ClkSide(seen, FALSE), Blank', wgray' = bin2gray(0),
              rx_rst_q < 3 => seen = bin2gray(0),
              RxClk \/ Clk \/ Both
       PROVE  ViewInv'
  <2>1. /\ wgray_r1' = seen /\ wgray_r2' = wgray_r1
        /\ started' => started \/ calm = 2
        /\ calm' = IF rx_rst_q = 3 THEN 0 ELSE IF calm < 2 THEN calm + 1 ELSE calm
        /\ rx_rst_q = 3 => ~started'
    BY <1>6, <1>10
  <2>2. CASE rx_rst_q = 3
    <3>1. calm' = 0 /\ ~started'
      BY <2>1, <2>2
    <3> QED BY <1>7, <1>10, <3>1 DEF ViewInv
  <2>3. CASE rx_rst_q < 3
    <3>1. /\ Blank /\ FifoType /\ (calm >= 1 => ReaderCaught) /\ (calm = 2 => ReaderSees)
          /\ (started => calm = 2) /\ calm \in 0..2
      BY <1>8, <1>10, <2>3
    <3>2. Turns(FALSE, FALSE) /\ ReaderSamples
      BY <1>6, <1>10, <2>1, <2>3, <3>1 DEF Turns, ReaderSamples, Blank, FifoType, ClkSide, ReadEdge
    <3>3. /\ ReaderCaught'
          /\ ReaderCaught => ReaderSees'
          /\ ReaderSees => ReaderSees'
      BY <3>1, <3>2, ReaderStep
    <3>4. calm' = IF calm < 2 THEN calm + 1 ELSE calm
      BY <2>1, <2>3
    <3> QED BY <1>7, <1>10, <2>1, <3>1, <3>3, <3>4 DEF ViewInv
  <2>4. rx_rst_q = 3 \/ rx_rst_q < 3
    BY <1>2
  <2> QED BY <2>2, <2>3, <2>4
<1>11. CASE Clk
  <2>1. PICK get \in BOOLEAN :
          ClkSide(wgray, get) /\ owed' = IF core_rst' THEN 0 ELSE owed - Ended(get)
    BY <1>11 DEF Clk
  <2>2. rbin' = 0 /\ taken' = <<>> /\ ~get /\ get = FALSE
    BY <1>6, <2>1
  <2>3. rx_rst_q' = rx_rst_q /\ rx_rst_q < 3 /\ ~core_rst'
    BY <1>2, <1>11 DEF Clk, Live
  <2>4. Blank
    BY <1>3, <2>3
  <2>5. Blank' /\ wgray' = wgray
    <3>1. Ended(get) = 0
      BY <2>2 DEF Ended
    <3>2. owed' = 0
      BY <2>1, <2>3, <2>4, <3>1 DEF Blank
    <3> QED BY <1>11, <2>2, <2>4, <3>2 DEF Clk, Blank, wVars
  <2>6. wgray = bin2gray(0)
    BY <2>4 DEF Blank, PathType
  <2> QED BY <1>10, <1>11, <2>1, <2>2, <2>5, <2>6
<1>12. CASE Both
  <2>1. PICK get \in BOOLEAN :
          /\ \E seen \in Caught(rgray, rbin_next(core_rst, get)) : RxSide(seen)
          /\ \E seen \in Caught(wgray, wbin_next(rx_rst, rx.fifo_wr_o)) : ClkSide(seen, get)
          /\ owed' = IF core_rst' \/ rx_rst THEN 0 ELSE owed + Begun - Ended(get)
    BY <1>12 DEF Both
  <2>2. PICK rs \in Caught(rgray, rbin_next(core_rst, get)) : RxSide(rs)
    BY <2>1
  <2>3. PICK ws \in Caught(wgray, 0) : ClkSide(ws, get)
    BY <1>2, <2>1 DEF wbin_next
  <2>4. rbin' = 0 /\ taken' = <<>> /\ ~get /\ get = FALSE
    BY <1>6, <2>3
  <2>5. /\ wbin' = 0 /\ rgray_w1' = Zero /\ rgray_w2' = Zero /\ rx' = NewRx
        /\ wgray' = bin2gray(0)
    BY <1>5, <2>2
  <2>6. Blank'
    BY <1>2, <2>1, <2>4, <2>5 DEF Blank
  <2>7. rx_rst_q < 3 => ws = bin2gray(0)
    <3> SUFFICES ASSUME rx_rst_q < 3 PROVE ws = bin2gray(0)
      OBVIOUS
    <3>1. wgray = bin2gray(0) /\ 0 \in Pointers
      BY <1>3, Sizes DEF Blank, PathType, Pointers
    <3> QED BY <2>3, <3>1, SampleIs
  <2> QED BY <1>10, <1>12, <2>3, <2>4, <2>5, <2>6, <2>7
<1> QED BY <1>9, <1>11, <1>12 DEF Next

\* A step keeps what a reset promises.
LEMMA ResetStep ==
  ASSUME PathType, ResetInv, ViewInv, StartsLate, Next
  PROVE  ResetInv'
<1>0. /\ core_rst \in BOOLEAN /\ rx_rst_q \in 0..3 /\ calm \in 0..2
      /\ core_rst' \in BOOLEAN /\ rx_rst_q' \in 0..3
  BY TypeStep DEF PathType
<1>1. core_rst' => rx_rst_q' = 3
  <2>1. core_rst => SyncMoves = 3 /\ rx_rst_q = 3
    BY DEF SyncMoves, ResetInv
  <2> QED BY <2>1 DEF Next, RxClk, Clk, Both
<1>2. ASSUME ~core_rst', rx_rst_q' = 3
      PROVE  rbin' = 0 /\ ~started' /\ calm' = 0 /\ taken' = <<>>
  <2>1. rx_rst_q = 3
    BY <1>0, <1>2 DEF Next, RxClk, Clk, Both, SyncMoves, rx_rst, ResetInv
  <2>2. CASE core_rst
    <3>1. SyncMoves = 3
      BY <2>2 DEF SyncMoves
    <3>2. ~RxClk
      BY <1>2, <2>2 DEF RxClk
    <3>3. \E seen : \E get \in BOOLEAN : ClkSide(seen, get)
      BY <3>2 DEF Next, Clk, Both
    <3>4. rbin' = 0 /\ ~started' /\ calm' = 0 /\ taken' = <<>>
      BY <2>2, <3>3 DEF ClkSide, ReadEdge, rbin_next
    <3> QED BY <3>4
  <2>3. CASE ~core_rst
    <3>1. rbin = 0 /\ ~started /\ calm = 0 /\ taken = <<>> /\ core_rst = FALSE
      BY <1>0, <2>1, <2>3 DEF ResetInv
    <3>2. SyncMoves = 2
      BY <2>1, <2>3 DEF SyncMoves, rx_rst
    <3>3. Clk
      BY <1>2, <3>2 DEF Next, RxClk, Both
    <3>4. PICK get \in BOOLEAN : ClkSide(wgray, get)
      BY <3>3 DEF Clk
    <3>5. ~get /\ get = FALSE
      BY <3>1, <3>4 DEF ClkSide, rd_en
    <3>6. rbin' = 0 /\ taken' = <<>> /\ calm' = 0
      BY <2>1, <3>1, <3>4, <3>5 DEF ClkSide, ReadEdge, rbin_next, Moved, do_rd
    <3>7. ~started'
      <4>1. ~AtRest
        BY <2>1 DEF AtRest
      <4> QED BY <3>1, <3>4, <4>1 DEF ClkSide
    <3> QED BY <3>6, <3>7
  <2> QED BY <2>2, <2>3
<1>3. ASSUME Live', rx_rst_q' > 0 PROVE Blank'
  <2>1. ~(Live /\ rx_rst_q = 0)
    <3>1. ASSUME Live, rx_rst_q = 0 PROVE FALSE
      <4>1. PICK wr, get \in BOOLEAN : Running(wr, get)
        BY <3>1, RunningStep
      <4> QED BY <1>3, <4>1 DEF Running, Live
    <3> QED BY <3>1
  <2> QED BY <1>3, <2>1, BlankStep
<1> QED BY <1>1, <1>2, <1>3 DEF ResetInv

\* The FIFO's own invariant.
QueueInv == PathType /\ ResetInv /\ ViewInv

\* At first it holds.
LEMMA QueueInvInit == Init => QueueInv
<1> SUFFICES ASSUME Init PROVE QueueInv
  OBVIOUS
<1>1. 0 \in Pointers /\ DEPTH \in Nat /\ DEPTH > 0
  BY Sizes DEF Pointers
<1>2. /\ rx = NewRx /\ air = [of |-> Junk, n |-> MinGap] /\ core_rst = FALSE /\ rx_rst_q = 0
      /\ calm = 2 /\ started = FALSE /\ taken = <<>> /\ owed = 0
      /\ mem = [i \in 0..(DEPTH - 1) |-> Noise]
      /\ wbin = 0 /\ wgray = Zero /\ rgray_w1 = Zero /\ rgray_w2 = Zero
      /\ rbin = 0 /\ rgray = Zero /\ wgray_r1 = Zero /\ wgray_r2 = Zero
  BY DEF Init, FifoInit, Silence
<1>3. NewRx \in RxStates
  <2>1. None \in Words /\ NoSymbols \in Syms /\ <<>> \in Seq(Syms)
    BY DEF Words, NoSymbols, Syms
  <2> QED BY <2>1 DEF NewRx, RxStates
<1>4. PathType
  <2>1. MinGap \in Nat /\ Noise \in Words /\ <<>> \in Seq(Words)
    BY PathAssumption DEF Words
  <2>2. air \in [of : Frames \cup {Junk}, n : Nat]
    BY <1>2, <2>1
  <2>3. mem \in [0..(DEPTH - 1) -> Words]
    BY <1>2, <2>1
  <2> QED BY <1>1, <1>2, <1>3, <2>1, <2>2, <2>3, GrayZero DEF PathType, RxType
<1>5. Blank /\ ResetInv
  BY <1>2 DEF Blank, ResetInv, Live
<1>6. FifoType /\ WriterSees /\ Level = 0
  BY <1>4, <1>5, BlankViews
<1>7. ReaderSees /\ ReaderCaught
  <2>1. wgray_r1 = bin2gray(Ago(wbin, 0)) /\ wgray_r2 = bin2gray(Ago(wbin, 0))
    BY <1>1, <1>2, AgoIs, Sizes, GrayZero
  <2>2. 0 \in Nat /\ 0 <= 0 /\ 0 <= Level
    BY <1>6
  <2> QED BY <2>1, <2>2 DEF ReaderSees, ReaderCaught
<1> QED BY <1>2, <1>4, <1>5, <1>6, <1>7 DEF QueueInv, ViewInv

\* And through every step.
LEMMA QueueInvStep ==
  ASSUME QueueInv, StartsLate, [Next]_vars
  PROVE  QueueInv'
<1>1. PathType'
  BY TypeStep DEF QueueInv
<1>2. CASE Next
  <2>1. ResetInv'
    BY <1>2, ResetStep DEF QueueInv
  <2>2. ASSUME Live' PROVE ViewInv'
    <3>1. CASE Live /\ rx_rst_q = 0
      <4>1. PICK wr, get \in BOOLEAN : Running(wr, get)
        BY <1>2, <3>1, RunningStep DEF QueueInv
      <4> QED BY <3>1, <4>1, ViewStep DEF QueueInv
    <3>2. CASE ~(Live /\ rx_rst_q = 0)
      BY <1>2, <2>2, <3>2, BlankStep DEF QueueInv
    <3> QED BY <3>1, <3>2
  <2>3. ~Live' => ViewInv'
    BY DEF ViewInv
  <2> QED BY <1>1, <2>1, <2>2, <2>3 DEF QueueInv
<1>3. CASE UNCHANGED vars
  BY <1>1, <1>3
     DEF vars, pathVars, fifoVars, wVars, rVars, QueueInv, ResetInv, ViewInv, Blank, Live,
         FifoType, WriterSees, ReaderSees, ReaderCaught, Level
<1> QED BY <1>2, <1>3

-----------------------------------------------------------------------------
q == IF Resetting THEN <<>> ELSE Contents

\* A step takes a word out of the queue or puts one in, or both, or empties it in reset.
LEMMA QueueStep ==
  ASSUME QueueInv, StartsLate, [Next]_vars
  PROVE  [Promise!Moves \/ Promise!Cleared]_q
<1> SUFFICES ASSUME Next, q' # q PROVE Promise!Moves \/ Promise!Cleared
  <2>1. ASSUME UNCHANGED vars PROVE q' = q
    BY <2>1 DEF vars, pathVars, fifoVars, wVars, rVars, q, Resetting, rx_rst, Contents, Level
  <2> QED BY <2>1
<1>1. CASE Resetting'
  BY <1>1 DEF q, Promise!Cleared
<1>2. CASE ~Resetting' /\ ~(Live /\ rx_rst_q = 0)
  <2>1. Live' /\ Resetting
    BY <1>2, TypeStep DEF QueueInv, PathType, Live, Resetting, rx_rst
  <2>2. Blank' /\ PathType'
    BY <1>2, <2>1, BlankStep, TypeStep DEF QueueInv
  <2>3. Level' = 0
    BY <2>2, BlankViewsNext
  <2>4. Contents' = <<>>
    BY <2>3 DEF Contents
  <2> QED BY <1>2, <2>1, <2>4 DEF q
<1>3. CASE ~Resetting' /\ Live /\ rx_rst_q = 0
  <2>1. PICK wr, get \in BOOLEAN : Running(wr, get)
    BY <1>3, RunningStep DEF QueueInv
  <2>2. FifoType /\ (wr => Level < DEPTH) /\ (get => Level > 0)
    BY <1>3, <2>1, ViewStep DEF QueueInv
  <2>3. rx.fifo_data_o \in Words /\ mem \in [0..(DEPTH - 1) -> Words]
    BY DEF QueueInv, PathType, RxType, RxStates
  <2>4. /\ Contents \in Seq(Words) /\ Len(Contents) = Level /\ Level \in Nat
        /\ Level > 0 => rd_data = Head(Contents)
    BY <2>2, <2>3, ContentsIs
  <2>5. Contents' = SubSeq(Contents, Count(get) + 1, Len(Contents)) \o Put(wr, rx.fifo_data_o)
    <3>1. Turns(wr, get) /\ Stores(wr, rx.fifo_data_o)
      BY <2>1 DEF Running
    <3>2. FifoType /\ (wr => Level < DEPTH) /\ (get => Level > 0)
      BY <2>2
    <3> QED BY <2>3, <3>1, <3>2, ContentsMove, Zenon
  <2>6. q = Contents /\ q' = Contents'
    BY <1>3 DEF q, Resetting, Live, rx_rst
  <2> DEFINE put == Put(wr, rx.fifo_data_o)
             g == Count(get)
             offered == IF rx.fifo_wr_o THEN <<rx.fifo_data_o>> ELSE <<>>
  <2>7. put \in {<<>>, offered}
    BY <2>1 DEF Running, WriterPart, RxTicks, WriterWaits, do_wr, Put
  <2>8. g \in 0..1 /\ g <= Len(q) /\ Len(q) + Len(put) <= DEPTH
    <3>1. DEPTH \in Nat /\ Level <= DEPTH /\ Len(put) = IF wr THEN 1 ELSE 0
      BY <2>2, Sizes DEF FifoType, Put
    <3> HIDE DEF put
    <3> QED BY <2>2, <2>4, <2>6, <3>1 DEF Count
  <2>9. q' = SubSeq(q, g + 1, Len(q)) \o put
    BY <2>5, <2>6
  <2>10. g = 1 => (IF taken' = <<>> THEN <<>> ELSE <<taken'[Len(taken')]>>) = <<Head(q)>>
    <3> SUFFICES ASSUME get
                 PROVE  taken' # <<>> /\ taken'[Len(taken')] = rd_data
      BY <2>2, <2>4, <2>6 DEF Count
    <3>1. taken' = Took /\ taken \in Seq(Words)
      BY <2>1 DEF Running, QueueInv, PathType
    <3>2. CASE taken # <<>> /\ taken[Len(taken)].end
      BY <3>1, <3>2 DEF Took
    <3>3. CASE ~(taken # <<>> /\ taken[Len(taken)].end)
      BY <3>1, <3>3 DEF Took
    <3> QED BY <3>2, <3>3
  <2> HIDE DEF put, g, offered
  <2>11. Promise!Moves
    BY <2>7, <2>8, <2>9, <2>10 DEF Promise!Moves, q, offered
  <2> QED BY <2>11
<1> QED BY <1>1, <1>2, <1>3

\* The FIFO between the receiver's clock and the chip's is a queue of DEPTH words,
\* for every power of two, whatever the two clocks do, whatever a sample catches of
\* a pointer that moves, and through resets that reach the sides at different times.
THEOREM QueueKept == ASSUME StartsLate PROVE Spec => QueuePromise
<1>1. Init => QueueInv
  BY QueueInvInit
<1>2. QueueInv /\ [Next]_vars => QueueInv'
  BY QueueInvStep
<1>3. Init => Promise!QueueInit
  <2> SUFFICES ASSUME Init PROVE Contents = <<>>
    BY DEF Promise!QueueInit, Resetting
  <2>1. QueueInv /\ Blank
    BY QueueInvInit DEF Init, FifoInit, Blank
  <2>2. Level = 0
    BY <2>1, BlankViews DEF QueueInv
  <2> QED BY <2>2 DEF Contents
<1>4. QueueInv /\ [Next]_vars =>
        [Promise!Moves \/ Promise!Cleared]_(IF Resetting THEN <<>> ELSE Contents)
  BY QueueStep DEF q
<1> QED BY <1>1, <1>2, <1>3, <1>4, PTL DEF Spec, QueuePromise, Promise!Queue

-----------------------------------------------------------------------------
\* Only the first n words matter.
LEMMA FollowsSame ==
  ASSUME NEW s, NEW t, NEW n \in Nat, \A i \in 1..n : s[i] = t[i], NEW f, NEW m, Follows(s, n, f, m)
  PROVE  Follows(t, n, f, m)
BY DEF Follows

\* A word more at the end.
LEMMA AppendGood ==
  ASSUME NEW s \in Seq(Words), AllGood(s), NEW w \in Words, Good(w) => Sent(s, Len(s))
  PROVE  AllGood(Append(s, w))
<1> DEFINE t == Append(s, w)
<1>1. /\ Len(s) \in Nat /\ Len(t) = Len(s) + 1 /\ \A i \in 1..Len(s) : t[i] = s[i]
      /\ t[Len(s) + 1] = w
  OBVIOUS
<1> HIDE DEF t
<1>2. ASSUME NEW n \in 0..Len(s), Sent(s, n) PROVE Sent(t, n)
  <2>1. n \in Nat /\ \A i \in 1..n : s[i] = t[i]
    BY <1>1
  <2>2. PICK f \in Frames : Clean(f) /\ Follows(s, n, f, Fr[f].bytes - 4)
    BY <1>2 DEF Sent
  <2>3. Follows(t, n, f, Fr[f].bytes - 4)
    BY <2>1, <2>2, FollowsSame
  <2> QED BY <2>2, <2>3 DEF Sent
<1>3. ASSUME NEW i \in 1..Len(t), Good(t[i]) PROVE Sent(t, i - 1)
  <2>1. CASE i \in 1..Len(s)
    <3>1. Sent(s, i - 1)
      BY <1>1, <1>3, <2>1 DEF AllGood
    <3>2. i - 1 \in 0..Len(s)
      BY <1>1, <2>1
    <3> QED BY <1>2, <3>1, <3>2
  <2>2. CASE i = Len(s) + 1
    <3>1. i - 1 = Len(s) /\ Len(s) \in 0..Len(s) /\ Good(w)
      BY <1>1, <1>3, <2>2
    <3> QED BY <1>2, <3>1
  <2> QED BY <1>1, <2>1, <2>2
<1>4. AllGood(t)
  BY <1>3 DEF AllGood
<1> QED BY <1>4 DEF t

\* One fewer at the end.
LEMMA FrontGood ==
  ASSUME NEW s \in Seq(Words), NEW w \in Words, AllGood(Append(s, w))
  PROVE  AllGood(s)
<1> DEFINE t == Append(s, w)
<1>1. Len(s) \in Nat /\ Len(t) = Len(s) + 1 /\ \A i \in 1..Len(s) : t[i] = s[i]
  OBVIOUS
<1>2. AllGood(t)
  OBVIOUS
<1> HIDE DEF t
<1>3. ASSUME NEW i \in 1..Len(s), Good(s[i]) PROVE Sent(s, i - 1)
  <2>1. i \in 1..Len(t) /\ Good(t[i]) /\ i - 1 \in Nat /\ \A j \in 1..(i - 1) : t[j] = s[j]
    BY <1>1, <1>3
  <2>2. Sent(t, i - 1)
    BY <1>2, <2>1 DEF AllGood
  <2>3. PICK f \in Frames : Clean(f) /\ Follows(t, i - 1, f, Fr[f].bytes - 4)
    BY <2>2 DEF Sent
  <2>4. Follows(s, i - 1, f, Fr[f].bytes - 4)
    BY <2>1, <2>3, FollowsSame
  <2> QED BY <2>3, <2>4 DEF Sent
<1> QED BY <1>3 DEF AllGood

\* One byte more.
LEMMA FollowsMore ==
  ASSUME NEW s \in Seq(Words), NEW f, NEW m \in Nat, Follows(s, Len(s), f, m),
         NEW w \in DataWords, w.byte = [of |-> f, n |-> m + 1]
  PROVE  Follows(Append(s, w), Len(s) + 1, f, m + 1)
<1> DEFINE t == Append(s, w)
           n == Len(s)
<1>1. n \in Nat /\ \A i \in 1..n : t[i] = s[i]
  OBVIOUS
<1>2. t[n + 1] = w
  BY DEF Words
<1>3. m \in 0..n /\ (n = m \/ s[n - m].end)
      /\ \A j \in 1..m : ~s[n - m + j].end /\ s[n - m + j].byte = [of |-> f, n |-> j]
  BY DEF Follows
<1> HIDE DEF t, n
<1>4. ASSUME NEW j \in 1..(m + 1)
      PROVE  ~t[(n + 1) - (m + 1) + j].end /\ t[(n + 1) - (m + 1) + j].byte = [of |-> f, n |-> j]
  <2>1. CASE j \in 1..m
    <3>1. (n + 1) - (m + 1) + j = n - m + j /\ n - m + j \in 1..n
      BY <1>1, <1>3, <2>1
    <3> QED BY <1>1, <1>3, <2>1, <3>1
  <2>2. CASE j = m + 1
    <3>1. (n + 1) - (m + 1) + j = n + 1
      BY <1>1, <2>2
    <3> QED BY <1>2, <2>2, <3>1 DEF DataWords
  <2> QED BY <2>1, <2>2
<1>5. n + 1 = m + 1 \/ t[(n + 1) - (m + 1)].end
  <2>1. n = m \/ n - m \in 1..n
    BY <1>1, <1>3
  <2>2. (n + 1) - (m + 1) = n - m
    BY <1>1
  <2> QED BY <1>1, <1>3, <2>1, <2>2
<1>6. m + 1 \in 0..(n + 1)
  BY <1>1, <1>3
<1>7. Follows(t, n + 1, f, m + 1)
  BY <1>4, <1>5, <1>6 DEF Follows
<1> QED BY <1>7 DEF t, n

\* After an end word no bytes follow.
LEMMA ClosedFollows ==
  ASSUME NEW s \in Seq(Words), NEW f, Closed(s)
  PROVE  Follows(s, Len(s), f, 0)
<1>1. Len(s) \in Nat /\ Len(s) - 0 = Len(s) /\ (s = <<>> => Len(s) = 0)
  OBVIOUS
<1> QED BY <1>1 DEF Closed, Follows

\* What goes with the words before an end word that has been taken.
Cut(s, k) == SubSeq(s, k + 1, Len(s))
CutAt(s, k) == k \in 0..Len(s) /\ (k > 0 => s[k].end)

\* The words that are left.
LEMMA CutIs ==
  ASSUME NEW s \in Seq(Words), NEW k, CutAt(s, k)
  PROVE  /\ Cut(s, k) \in Seq(Words) /\ Len(Cut(s, k)) = Len(s) - k /\ k \in 0..Len(s)
         /\ \A i \in 1..(Len(s) - k) : Cut(s, k)[i] = s[k + i]
BY DEF Cut, CutAt

\* What the end words answer for is not lost with the words before them.
LEMMA FollowsCut ==
  ASSUME NEW s \in Seq(Words), NEW k, CutAt(s, k), NEW n \in k..Len(s), NEW f, NEW m,
         Follows(s, n, f, m)
  PROVE  Follows(Cut(s, k), n - k, f, m)
<1>1. /\ Cut(s, k) \in Seq(Words) /\ Len(Cut(s, k)) = Len(s) - k /\ k \in 0..Len(s)
      /\ \A i \in 1..(Len(s) - k) : Cut(s, k)[i] = s[k + i]
  BY CutIs
<1>2. m \in 0..n /\ (n = m \/ s[n - m].end)
      /\ \A j \in 1..m : ~s[n - m + j].end /\ s[n - m + j].byte = [of |-> f, n |-> j]
  BY DEF Follows
<1>3. Len(s) \in Nat /\ k \in Nat /\ n \in Nat /\ m \in Nat /\ (k > 0 => s[k].end)
  BY <1>1, <1>2 DEF CutAt
<1>4. m <= n - k
  <2> SUFFICES ASSUME m > n - k PROVE FALSE
    BY <1>3
  <2>1. k > 0 /\ k - (n - m) \in 1..m /\ n - m + (k - (n - m)) = k
    BY <1>2, <1>3
  <2> QED BY <1>2, <1>3, <2>1
<1>5. ASSUME NEW j \in 1..m
      PROVE  Cut(s, k)[(n - k) - m + j] = s[n - m + j]
  <2>1. (n - k) - m + j \in 1..(Len(s) - k) /\ k + ((n - k) - m + j) = n - m + j
    BY <1>3, <1>4
  <2> QED BY <1>1, <2>1
<1>6. n - k = m \/ Cut(s, k)[(n - k) - m].end
  <2> SUFFICES ASSUME n - k # m PROVE Cut(s, k)[(n - k) - m].end
    OBVIOUS
  <2>1. (n - k) - m \in 1..(Len(s) - k) /\ k + ((n - k) - m) = n - m /\ n # m
    BY <1>3, <1>4
  <2> QED BY <1>1, <1>2, <2>1
<1>7. m \in 0..(n - k)
  BY <1>3, <1>4
<1> QED BY <1>2, <1>5, <1>6, <1>7 DEF Follows

\* So all the end words are still answered for.
LEMMA CutGood ==
  ASSUME NEW s \in Seq(Words), NEW k, CutAt(s, k)
  PROVE  /\ Cut(s, k) \in Seq(Words)
         /\ AllGood(s) => AllGood(Cut(s, k))
         /\ Closed(s) => Closed(Cut(s, k))
         /\ Sent(s, Len(s)) => Sent(Cut(s, k), Len(Cut(s, k)))
         /\ \A f, m : Follows(s, Len(s), f, m) => Follows(Cut(s, k), Len(Cut(s, k)), f, m)
<1> DEFINE c == Cut(s, k)
<1>1. /\ c \in Seq(Words) /\ Len(c) = Len(s) - k /\ k \in 0..Len(s) /\ Len(s) \in Nat
      /\ \A i \in 1..(Len(s) - k) : c[i] = s[k + i]
  BY CutIs
<1>2. ASSUME NEW n \in k..Len(s), Sent(s, n) PROVE Sent(c, n - k)
  <2>1. PICK f \in Frames : Clean(f) /\ Follows(s, n, f, Fr[f].bytes - 4)
    BY <1>2 DEF Sent
  <2>2. Follows(c, n - k, f, Fr[f].bytes - 4)
    BY <2>1, FollowsCut
  <2> QED BY <2>1, <2>2 DEF Sent
<1>3. \A f, m : Follows(s, Len(s), f, m) => Follows(c, Len(c), f, m)
  BY <1>1, FollowsCut
<1> HIDE DEF c
<1>4. ASSUME AllGood(s), NEW i \in 1..Len(c), Good(c[i]) PROVE Sent(c, i - 1)
  <2>1. k + i \in 1..Len(s) /\ c[i] = s[k + i] /\ (k + i) - 1 \in k..Len(s)
        /\ ((k + i) - 1) - k = i - 1
    BY <1>1
  <2>2. Sent(s, (k + i) - 1)
    BY <1>4, <2>1 DEF AllGood
  <2> QED BY <1>2, <2>1, <2>2
<1>5. Closed(s) => Closed(c)
  <2> SUFFICES ASSUME Closed(s), c # <<>> PROVE c[Len(c)].end
    BY DEF Closed
  <2>1. Len(c) \in 1..(Len(s) - k) /\ k + Len(c) = Len(s) /\ s # <<>>
    BY <1>1
  <2> QED BY <1>1, <2>1 DEF Closed
<1>6. Sent(s, Len(s)) => Sent(c, Len(c))
  BY <1>1, <1>2
<1>7. AllGood(s) => AllGood(c)
  BY <1>4 DEF AllGood
<1> QED BY <1>1, <1>3, <1>5, <1>6, <1>7 DEF c

\* The receive unit takes a word: what it had taken goes if that word was an end word.
LEMMA TakeCuts ==
  ASSUME taken \in Seq(Words), Contents \in Seq(Words), NEW get \in BOOLEAN,
         get => Contents # <<>> /\ rd_data = Head(Contents),
         taken' = IF get THEN Took ELSE taken
  PROVE  \E k : /\ CutAt(T, k)
                /\ taken' \o SubSeq(Contents, Count(get) + 1, Len(Contents)) = Cut(T, k)
<1> DEFINE C == Contents
<1>0. T \in Seq(Words) /\ Len(T) = Len(taken) + Len(C) /\ Len(taken) \in Nat /\ Len(C) \in Nat
      /\ (\A i \in 1..Len(taken) : T[i] = taken[i])
      /\ (\A i \in 1..Len(C) : T[Len(taken) + i] = C[i])
  BY DEF T
<1>1. CASE ~get
  <2>1. Count(get) + 1 = 1 /\ taken' = taken
    BY <1>1 DEF Count
  <2>2. SubSeq(C, 1, Len(C)) = C /\ SubSeq(T, 1, Len(T)) = T
    BY <1>0
  <2>3. CutAt(T, 0) /\ Cut(T, 0) = T
    BY <1>0, <2>2 DEF CutAt, Cut
  <2> QED BY <2>1, <2>2, <2>3 DEF T
<1>2. CASE get /\ ~(taken # <<>> /\ taken[Len(taken)].end)
  <2>1. Count(get) + 1 = 2 /\ taken' = Append(taken, Head(C)) /\ C # <<>>
    BY <1>2 DEF Count, Took
  <2>2. Append(taken, Head(C)) \o SubSeq(C, 2, Len(C)) = T
    <3>1. Tail(C) = SubSeq(C, 2, Len(C)) /\ Head(C) \in Words /\ Tail(C) \in Seq(Words)
      BY <2>1, TailIsSubSeq, HeadTailProperties
    <3>2. Append(taken, Head(C)) = taken \o <<Head(C)>> /\ <<Head(C)>> \in Seq(Words)
      BY <3>1, AppendIsConcat
    <3>3. (taken \o <<Head(C)>>) \o Tail(C) = taken \o (<<Head(C)>> \o Tail(C))
      BY <3>1, <3>2, ConcatAssociative
    <3>4. <<Head(C)>> \o Tail(C) = C
      BY <1>0, <2>1
    <3> QED BY <3>1, <3>2, <3>3, <3>4 DEF T
  <2>3. CutAt(T, 0) /\ Cut(T, 0) = T
    <3>1. SubSeq(T, 1, Len(T)) = T BY <1>0
    <3> QED BY <1>0, <3>1 DEF CutAt, Cut
  <2> QED BY <2>1, <2>2, <2>3
<1>3. CASE get /\ taken # <<>> /\ taken[Len(taken)].end
  <2>1. Count(get) + 1 = 2 /\ taken' = <<Head(C)>> /\ C # <<>>
    BY <1>3 DEF Count, Took
  <2>2. <<Head(C)>> \o SubSeq(C, 2, Len(C)) = C
    BY <1>0, <2>1
  <2>3. Cut(T, Len(taken)) = C
    BY <1>0 DEF Cut
  <2>4. CutAt(T, Len(taken))
    <3>1. Len(taken) \in 1..Len(taken)
      BY <1>0, <1>3
    <3> QED BY <1>0, <1>3, <3>1 DEF CutAt
  <2> QED BY <2>1, <2>2, <2>3, <2>4
<1> QED BY <1>1, <1>2, <1>3

\* The word at the input is not touched by that.
LEMMA CutOut ==
  ASSUME NEW s \in Seq(Words), NEW t \in Seq(Words), NEW k, CutAt(s, k)
  PROVE  CutAt(s \o t, k) /\ Cut(s, k) \o t = Cut(s \o t, k)
<1> DEFINE u == s \o t
           c == Cut(s, k)
           d == Cut(u, k)
           e == c \o t
<1>1. /\ u \in Seq(Words) /\ Len(u) = Len(s) + Len(t) /\ Len(s) \in Nat /\ Len(t) \in Nat
      /\ \A i \in 1..(Len(s) + Len(t)) : u[i] = IF i <= Len(s) THEN s[i] ELSE t[i - Len(s)]
  BY ConcatProperties
<1> HIDE DEF u
<1>2. k \in 0..Len(s) /\ CutAt(u, k)
  BY <1>1 DEF CutAt
<1>3. /\ c \in Seq(Words) /\ Len(c) = Len(s) - k
      /\ \A i \in 1..(Len(s) - k) : c[i] = s[k + i]
  BY CutIs
<1>4. /\ d \in Seq(Words) /\ Len(d) = Len(u) - k
      /\ \A i \in 1..(Len(u) - k) : d[i] = u[k + i]
  BY <1>1, <1>2, CutIs
<1> HIDE DEF c, d
<1>5. /\ e \in Seq(Words) /\ Len(e) = Len(c) + Len(t)
      /\ \A i \in 1..(Len(c) + Len(t)) : e[i] = IF i <= Len(c) THEN c[i] ELSE t[i - Len(c)]
  BY <1>3, ConcatProperties
<1> HIDE DEF e
<1>6. ASSUME NEW i \in 1..Len(d) PROVE e[i] = d[i]
  <2>1. i \in 1..(Len(u) - k) /\ k + i \in 1..(Len(s) + Len(t)) /\ i \in 1..(Len(c) + Len(t))
        /\ (i <= Len(c) <=> k + i <= Len(s)) /\ (k + i) - Len(s) = i - Len(c)
        /\ (i <= Len(c) => i \in 1..(Len(s) - k))
    BY <1>1, <1>2, <1>3, <1>4
  <2>2. d[i] = IF k + i <= Len(s) THEN s[k + i] ELSE t[(k + i) - Len(s)]
    BY <1>1, <1>4, <2>1
  <2>3. e[i] = IF i <= Len(c) THEN c[i] ELSE t[i - Len(c)]
    BY <1>5, <2>1
  <2> QED BY <1>3, <2>1, <2>2, <2>3
<1>7. Len(e) = Len(d)
  BY <1>1, <1>2, <1>3, <1>4, <1>5
<1>8. e = d
  BY <1>4, <1>5, <1>6, <1>7, SeqEqual
<1> QED BY <1>2, <1>8 DEF u, c, d, e

\* Room that the receiver sees stays until it writes.
LEMMA RoomStays ==
  ASSUME FifoType, WriterSees, ~wfull, NEW get \in BOOLEAN, Turns(FALSE, get), get => Level > 0,
         WriterSamples \/ WriterWaits(FALSE)
  PROVE  ~wfull'
<1>1. PICK a1, a2 \in Nat :
        /\ a1 <= a2 /\ Level + a2 <= DEPTH
        /\ rgray_w1 = bin2gray(Ago(rbin, a1)) /\ rgray_w2 = bin2gray(Ago(rbin, a2))
  BY DEF WriterSees
<1>2. Level = Ahead(wbin, rbin) /\ Level \in Nat /\ DEPTH \in Nat
  BY LevelIs, Sizes DEF FifoType, Level
<1>3. (wfull <=> wgray = Flip(rgray_w2)) /\ (wfull' <=> wgray' = Flip(rgray_w2'))
  BY DEF wfull, Flip
<1>4. Level + a2 < DEPTH
  BY <1>1, <1>2, <1>3, FullIs DEF FifoType
<1>5. CASE WriterWaits(FALSE)
  BY <1>3, <1>5 DEF WriterWaits, Turns, FifoType
<1>6. CASE WriterSamples
  <2> DEFINE g == IF get THEN 1 ELSE 0
  <2>1. Ago(rbin', a1 + g) = Ago(rbin, a1)
    BY <1>1, <1>2, AgoIs, AfterIs DEF FifoType, Turns
  <2>2. rgray_w2' = bin2gray(Ago(rbin', a1 + g))
    BY <1>1, <1>6, <2>1 DEF WriterSamples
  <2>3. FifoType' /\ Level' = Level + 0 - g
    BY LevelMoves
  <2>4. Level' = Ahead(wbin', rbin') /\ wbin' \in Pointers /\ rbin' \in Pointers
        /\ wgray' = bin2gray(wbin')
    BY <2>3, LevelIs DEF FifoType, Level
  <2>5. a1 + g \in Nat /\ Ahead(wbin', rbin') + (a1 + g) <= DEPTH
        /\ Ahead(wbin', rbin') + (a1 + g) # DEPTH
    BY <1>1, <1>2, <1>4, <2>3, <2>4
  <2> HIDE DEF g
  <2> QED BY <1>3, <2>2, <2>4, <2>5, FullIs
<1> QED BY <1>5, <1>6

-----------------------------------------------------------------------------
\* What is written, when, and what is owed.

\* What a running step does to the queue, to its input and to what was taken.
LEMMA RunFacts ==
  ASSUME QueueInv, Live, NEW wr \in BOOLEAN, NEW get \in BOOLEAN, Running(wr, get)
  PROVE  /\ Contents \in Seq(Words) /\ Contents' \in Seq(Words)
         /\ get => Contents # <<>> /\ rd_data = Head(Contents)
         /\ Contents' = SubSeq(Contents, Count(get) + 1, Len(Contents)) \o Put(wr, rx.fifo_data_o)
         /\ RxTicks(wr) \/ (RxRests /\ ~wr /\ wfull' = wfull)
         /\ ~wfull /\ ~wr => ~wfull'
         /\ taken \in Seq(Words) /\ taken' = IF get THEN Took ELSE taken
<1>1. /\ FifoType /\ FifoType' /\ (wr => Level < DEPTH) /\ (get => Level > 0)
  BY ViewStep DEF QueueInv
<1>2. rx.fifo_data_o \in Words /\ mem \in [0..(DEPTH - 1) -> Words]
  BY DEF QueueInv, PathType, RxType, RxStates
<1>3. /\ Contents \in Seq(Words) /\ Len(Contents) = Level /\ Level \in Nat
      /\ Level > 0 => rd_data = Head(Contents)
  BY <1>1, <1>2, ContentsIs
<1>4. Turns(wr, get) /\ Stores(wr, rx.fifo_data_o)
  BY DEF Running
<1>5. Contents' = SubSeq(Contents, Count(get) + 1, Len(Contents)) \o Put(wr, rx.fifo_data_o)
  BY <1>1, <1>2, <1>4, ContentsMove, Zenon
<1>6. Put(wr, rx.fifo_data_o) \in Seq(Words)
  BY <1>2 DEF Put
<1>7. SubSeq(Contents, Count(get) + 1, Len(Contents)) \in Seq(Words)
  BY <1>3 DEF Count
<1>8. Contents' \in Seq(Words)
  BY <1>5, <1>6, <1>7, ConcatProperties
<1>9. RxTicks(wr) \/ (RxRests /\ ~wr /\ wfull' = wfull)
  <2>1. CASE RxTicks(wr)
    BY <2>1
  <2>2. CASE RxRests /\ WriterWaits(wr)
    <3>1. wgray' = wgray /\ rgray_w2' = rgray_w2 /\ ~wr
      BY <1>1, <1>4, <2>2 DEF WriterWaits, Turns, FifoType
    <3> QED BY <2>2, <3>1 DEF wfull
  <2> QED BY <2>1, <2>2 DEF Running, WriterPart
<1>10. ASSUME ~wfull, ~wr PROVE ~wfull'
  <2>1. wr = FALSE /\ Turns(FALSE, get)
    BY <1>4, <1>10
  <2>2. WriterSamples \/ WriterWaits(FALSE)
    BY <2>1 DEF Running, WriterPart
  <2>3. WriterSees
    BY DEF QueueInv, ViewInv
  <2> QED BY <1>1, <1>10, <2>1, <2>2, <2>3, RoomStays
<1>11. taken \in Seq(Words) /\ taken' = IF get THEN Took ELSE taken
  BY DEF QueueInv, PathType, Running
<1> QED BY <1>1, <1>3, <1>5, <1>8, <1>9, <1>10, <1>11

\* The receiver keeps its promise of what it writes, and when.
LEMMA WriteStep ==
  ASSUME QueueInv, Live, WriteInv, NEW wr \in BOOLEAN, NEW get \in BOOLEAN, Running(wr, get)
  PROVE  WriteInv'
<1>1. /\ RxTicks(wr) \/ (RxRests /\ ~wr /\ wfull' = wfull)
      /\ ~wfull /\ ~wr => ~wfull'
  BY RunFacts
<1>2. CASE RxRests /\ ~wr /\ wfull' = wfull
  BY <1>2 DEF RxRests, WriteInv, Sending
<1>3. CASE RxTicks(wr)
  <2>1. PICK looks \in Looks : RxEdge(FALSE, dv, er, looks, Symbol, crc_ok, wfull)
    BY <1>3 DEF RxTicks
  <2>2. rx \in RxStates /\ rx' \in RxStates
    BY <2>1, RxEdgeType DEF QueueInv, PathType, RxType
  <2>3. CASE rx.state = "RX_IDLE"
    <3>1. rx' = Idle(dv)
      BY <2>1, <2>3 DEF RxEdge
    <3>2. rx'.fifo_wr_o = FALSE
      BY <2>2, <3>1 DEF Idle, Quiet, RxStates
    <3> QED BY <3>2 DEF WriteInv, Sending
  <2>4. CASE rx.state = "RX_PREAMBLE"
    <3>1. rx' = Preamble(dv, looks, Symbol)
      BY <2>1, <2>4 DEF RxEdge
    <3>2. rx'.fifo_wr_o = FALSE
      BY <2>2, <3>1 DEF Preamble, Goes, Quiet, RxStates
    <3> QED BY <3>2 DEF WriteInv, Sending
  <2>5. CASE rx.state = "RX_DATA"
    <3>1. rx' = Data(dv, er, Symbol, crc_ok, wfull)
      BY <2>1, <2>5 DEF RxEdge
    <3>2. CASE ~(dv /\ byte_now /\ Len(rx.dl) = 4)
      <4>1. rx'.fifo_wr_o = FALSE
        BY <2>2, <3>1, <3>2 DEF Data, Goes, Quiet, Passed, RxStates
      <4> QED BY <4>1 DEF WriteInv, Sending
    <3>3. CASE dv /\ byte_now /\ Len(rx.dl) = 4
      <4>1. rx'.state = "RX_DATA"
            /\ rx'.fifo_data_o = [end |-> FALSE, err |-> {}, byte |-> Head(rx.dl)]
        BY <2>2, <2>5, <3>1, <3>3 DEF Data, Quiet, Passed, RxStates
      <4>2. Head(rx.dl) \in Syms
        <5>1. rx.dl \in Seq(Syms)
          BY <2>2 DEF RxStates
        <5>2. rx.dl # <<>>
          BY <3>3
        <5> QED BY <5>1, <5>2
      <4>3. rx'.fifo_data_o \in DataWords /\ ~rx'.fifo_data_o.end
        BY <4>1, <4>2 DEF DataWords
      <4> QED BY <4>1, <4>3 DEF WriteInv, Sending
    <3> QED BY <3>2, <3>3
  <2>6. CASE rx.state = "RX_END"
    <3>1. rx' = End(wfull)
      BY <2>1, <2>6 DEF RxEdge
    <3>2. CASE wfull
      <4>1. rx'.fifo_wr_o = FALSE
        BY <2>2, <3>1, <3>2 DEF End, Quiet, RxStates
      <4> QED BY <4>1 DEF WriteInv, Sending
    <3>3. CASE ~wfull
      <4>1. rx'.state = "RX_IDLE" /\ rx'.fifo_data_o = EndWord
        BY <2>2, <3>1, <3>3 DEF End, Goes, Quiet, RxStates
      <4>2. ~wr
        BY <1>3, <2>6 DEF RxTicks, do_wr, WriteInv, Sending
      <4>3. EndWord \in EndWords
        BY <2>2, EndType DEF RxType
      <4> QED BY <1>1, <3>3, <4>1, <4>2, <4>3 DEF WriteInv, Sending
    <3> QED BY <3>2, <3>3
  <2> QED BY <2>2, <2>3, <2>4, <2>5, <2>6 DEF RxStates
<1> QED BY <1>1, <1>2, <1>3

\* The end words in a sequence can be counted.
LEMMA EndsIs ==
  ASSUME NEW s \in Seq(Words)
  PROVE  IsFiniteSet(EndsAt(s)) /\ Ends(s) \in Nat
<1>1. IsFiniteSet(1..Len(s))
  BY FS_Interval
<1>2. IsFiniteSet(EndsAt(s))
  BY <1>1, FS_Subset DEF EndsAt
<1> QED BY <1>2, FS_CardinalityType DEF Ends

\* There are none in the empty one.
LEMMA EndsNone == EndsAt(<<>>) = {} /\ Ends(<<>>) = 0
<1>1. EndsAt(<<>>) = {}
  BY DEF EndsAt
<1> QED BY <1>1, FS_EmptySet DEF Ends

\* One end word more at the end, or one fewer at the beginning.
LEMMA EndsAppend ==
  ASSUME NEW s \in Seq(Words), NEW w \in Words
  PROVE  Ends(Append(s, w)) = Ends(s) + Count(w.end)
<1> DEFINE t == Append(s, w)
           n == Len(s) + 1
<1>1. /\ t \in Seq(Words) /\ Len(t) = n /\ n \in Nat /\ t[n] = w
      /\ \A i \in 1..Len(s) : t[i] = s[i]
  BY AppendProperties
<1> HIDE DEF t
<1>2. IsFiniteSet(EndsAt(s)) /\ Ends(s) \in Nat
  BY EndsIs
<1>3. 1..n = (1..Len(s)) \cup {n} /\ n \notin 1..Len(s)
  OBVIOUS
<1> HIDE DEF n
<1>4. CASE w.end
  <2>1. EndsAt(t) = EndsAt(s) \cup {n} /\ n \notin EndsAt(s)
    BY <1>1, <1>3, <1>4 DEF EndsAt
  <2> QED BY <1>2, <1>4, <2>1, FS_AddElement DEF Ends, Count, t
<1>5. CASE ~w.end
  <2>1. EndsAt(t) = EndsAt(s)
    BY <1>1, <1>3, <1>5 DEF EndsAt
  <2> QED BY <1>2, <1>5, <2>1 DEF Ends, Count, t
<1> QED BY <1>4, <1>5

\* One word fewer at the beginning.
LEMMA EndsRest ==
  ASSUME NEW s \in Seq(Words), s # <<>>
  PROVE  Ends(s) = Ends(SubSeq(s, 2, Len(s))) + Count(Head(s).end)
<1> DEFINE r == SubSeq(s, 2, Len(s))
           b == [i \in EndsAt(r) |-> i + 1]
           S == EndsAt(s) \ {1}
<1>1. Len(s) \in Nat /\ Len(s) >= 1 /\ Head(s) = s[1]
  OBVIOUS
<1>2. r \in Seq(Words) /\ Len(r) = Len(s) - 1 /\ \A i \in 1..(Len(s) - 1) : r[i] = s[i + 1]
  <2>1. \A i \in 2..Len(s) : s[i] \in Words
    BY <1>1
  <2>2. /\ r \in Seq(Words) /\ Len(r) = IF 2 <= Len(s) THEN Len(s) - 2 + 1 ELSE 0
        /\ \A i \in 1..(Len(s) - 2 + 1) : r[i] = s[2 + i - 1]
    BY <1>1, <2>1, SubSeqProperties
  <2> HIDE DEF r
  <2>3. Len(s) - 2 + 1 = Len(s) - 1 /\ Len(r) = Len(s) - 1
    <3>1. PICK n \in Nat : n = Len(s)
      BY <1>1
    <3>2. n >= 1 /\ Len(r) = IF 2 <= n THEN n - 2 + 1 ELSE 0
      BY <1>1, <2>2, <3>1
    <3>3. n - 2 + 1 = n - 1 /\ (2 <= n \/ n = 1)
      BY <3>2
    <3> QED BY <3>1, <3>2, <3>3
  <2>4. ASSUME NEW i \in 1..(Len(s) - 1) PROVE r[i] = s[i + 1]
    <3>1. 2 + i - 1 = i + 1
      BY <1>1
    <3>2. r[i] = s[2 + i - 1]
      BY <2>2, <2>3
    <3> QED BY <3>1, <3>2
  <2> QED BY <2>2, <2>3, <2>4
<1> HIDE DEF r
<1>3. IsFiniteSet(EndsAt(s)) /\ Ends(s) \in Nat /\ IsFiniteSet(EndsAt(r)) /\ Ends(r) \in Nat
  BY <1>2, EndsIs
<1>4. \A i \in EndsAt(r) : i + 1 \in S
  BY <1>1, <1>2 DEF EndsAt
<1>5. \A i \in S : i - 1 \in EndsAt(r) /\ (i - 1) + 1 = i
  BY <1>1, <1>2 DEF EndsAt
<1>6. \A i \in EndsAt(r) : i \in Nat
  BY DEF EndsAt
<1> HIDE DEF S
<1>7. /\ b \in [EndsAt(r) -> S]
      /\ \A x, y \in EndsAt(r) : b[x] = b[y] => x = y
      /\ \A j \in S : \E x \in EndsAt(r) : b[x] = j
  BY <1>4, <1>5, <1>6
<1>8. b \in Bijection(EndsAt(r), S)
  <2> HIDE DEF b
  <2> QED BY <1>7, Fun_IsBij
<1>9. ExistsBijection(EndsAt(r), S)
  BY <1>8 DEF ExistsBijection
<1>10. Cardinality(S) = Ends(r)
  BY <1>3, <1>9, FS_Bijection DEF Ends
<1>11. Cardinality(S) = IF 1 \in EndsAt(s) THEN Ends(s) - 1 ELSE Ends(s)
  BY <1>3, FS_RemoveElement DEF S, Ends
<1>12. 1 \in EndsAt(s) <=> Head(s).end
  BY <1>1 DEF EndsAt
<1>13. Ends(s) = Ends(r) + Count(Head(s).end)
  <2>1. CASE Head(s).end
    BY <1>3, <1>10, <1>11, <1>12, <2>1 DEF Count
  <2>2. CASE ~Head(s).end
    BY <1>3, <1>10, <1>11, <1>12, <2>2 DEF Count
  <2> QED BY <2>1, <2>2
<1> QED BY <1>13 DEF r

\* What is owed stays equal to the end words on their way.
LEMMA OwedStep ==
  ASSUME QueueInv, Live, WriteInv, OwedInv, NEW wr \in BOOLEAN, NEW get \in BOOLEAN,
         Running(wr, get), Live'
  PROVE  OwedInv'
<1> DEFINE C == Contents
           R == SubSeq(C, Count(get) + 1, Len(C))
           w == rx.fifo_data_o
           put == Count(wr /\ w.end)
<1>1. /\ C \in Seq(Words) /\ Contents' \in Seq(Words)
      /\ get => C # <<>> /\ rd_data = Head(C)
      /\ Contents' = R \o Put(wr, w)
      /\ RxTicks(wr) \/ (RxRests /\ ~wr /\ wfull' = wfull)
  BY RunFacts
<1>2. rx \in RxStates /\ w \in Words
  BY DEF QueueInv, PathType, RxType, RxStates
<1>3. R \in Seq(Words) /\ Ends(C) = Ends(R) + Ended(get) /\ Ends(R) \in Nat
  <2>1. CASE get
    <3>1. R = SubSeq(C, 2, Len(C)) /\ R \in Seq(Words)
      BY <1>1, <2>1 DEF Count
    <3>2. Ends(C) = Ends(R) + Count(Head(C).end)
      BY <1>1, <2>1, <3>1, EndsRest
    <3>3. Count(Head(C).end) = Ended(get)
      BY <1>1, <2>1 DEF Ended, Count
    <3> QED BY <3>1, <3>2, <3>3, EndsIs
  <2>2. CASE ~get
    <3>1. R = C /\ Ended(get) = 0
      BY <1>1, <2>2 DEF Count, Ended
    <3>2. Ends(C) \in Nat /\ Ends(R) = Ends(C)
      BY <1>1, <3>1, EndsIs
    <3> HIDE DEF R, C
    <3> QED BY <1>1, <3>1, <3>2
  <2> QED BY <2>1, <2>2
<1> HIDE DEF R
<1>4. Ends(Contents') = Ends(R) + put
  <2>1. CASE wr
    <3>1. Contents' = Append(R, w)
      BY <1>1, <1>2, <1>3, <2>1, AppendIsConcat DEF Put
    <3>2. put = Count(w.end)
      BY <2>1 DEF Count
    <3> QED BY <1>2, <1>3, <3>1, <3>2, EndsAppend
  <2>2. CASE ~wr
    <3>1. Contents' = R
      BY <1>1, <1>3, <2>2, ConcatEmptySeq DEF Put
    <3>2. put = 0
      BY <2>2 DEF Count
    <3> QED BY <1>3, <3>1, <3>2
  <2> QED BY <2>1, <2>2
<1>5. owed = Ends(C) + AtInput + InHand
  BY DEF OwedInv
<1>6. owed' = owed + Begun - Ended(get)
  BY DEF Running
<1>7. Ended(get) \in Nat /\ Begun \in Nat /\ AtInput \in Nat /\ InHand \in Nat
      /\ AtInput' \in Nat /\ InHand' \in Nat /\ put \in Nat
  BY DEF Ended, Begun, AtInput, InHand, Count
<1>8. \/ put = AtInput /\ AtInput' + InHand' = InHand + Begun
      \/ put = 0 /\ Begun = 0 /\ AtInput' = AtInput /\ InHand' = InHand
  <2>1. CASE RxRests /\ ~wr
    <3>1. Begun = 0 /\ put = 0
      BY <2>1 DEF Begun, Count, RxRests
    <3>2. AtInput' = AtInput /\ InHand' = InHand
      BY <2>1 DEF RxRests, AtInput, InHand, Sending, Pending, Count
    <3> QED BY <3>1, <3>2
  <2>2. CASE RxTicks(wr)
    <3>1. PICK looks \in Looks : RxEdge(FALSE, dv, er, looks, Symbol, crc_ok, wfull)
      BY <2>2 DEF RxTicks
    <3>2. put = AtInput
      BY <2>2 DEF RxTicks, do_wr, WriteInv, AtInput, Sending, Count
    <3>3. AtInput' + InHand' = InHand + Begun
      <4>1. CASE rx.state = "RX_IDLE"
        <5>1. rx' = Idle(dv)
          BY <3>1, <4>1 DEF RxEdge
        <5>2. rx'.fifo_wr_o = FALSE /\ rx'.state \in {"RX_IDLE", "RX_PREAMBLE"}
          BY <1>2, <4>1, <5>1 DEF Idle, Quiet, RxStates
        <5> QED BY <4>1, <5>2 DEF AtInput, InHand, Sending, Pending, Count, Begun
      <4>2. CASE rx.state = "RX_PREAMBLE"
        <5>1. rx' = Preamble(dv, looks, Symbol)
          BY <3>1, <4>2 DEF RxEdge
        <5>2. rx'.fifo_wr_o = FALSE /\ rx'.state \in {"RX_IDLE", "RX_PREAMBLE", "RX_DATA"}
          BY <1>2, <4>2, <5>1 DEF Preamble, Goes, Quiet, RxStates
        <5> QED BY <4>2, <5>2 DEF AtInput, InHand, Sending, Pending, Count, Begun
      <4>3. CASE rx.state = "RX_DATA"
        <5>1. rx' = Data(dv, er, Symbol, crc_ok, wfull)
          BY <3>1, <4>3 DEF RxEdge
        <5>2. rx'.state \in {"RX_DATA", "RX_END"}
          BY <1>2, <4>3, <5>1 DEF Data, Goes, Quiet, Passed, RxStates
        <5>3. rx'.fifo_wr_o = FALSE \/ rx'.fifo_data_o.end = FALSE
          BY <1>2, <4>3, <5>1 DEF Data, Goes, Quiet, Passed, RxStates
        <5> QED BY <4>3, <5>2, <5>3 DEF AtInput, InHand, Sending, Pending, Count, Begun
      <4>4. CASE rx.state = "RX_END"
        <5>1. rx' = End(wfull)
          BY <3>1, <4>4 DEF RxEdge
        <5>2. CASE wfull
          <6>1. rx'.fifo_wr_o = FALSE /\ rx'.state = "RX_END"
            BY <1>2, <4>4, <5>1, <5>2 DEF End, Quiet, RxStates
          <6> QED BY <4>4, <6>1 DEF AtInput, InHand, Sending, Pending, Count, Begun
        <5>3. CASE ~wfull
          <6>1. rx'.fifo_wr_o = TRUE /\ rx'.state = "RX_IDLE" /\ rx'.fifo_data_o.end = TRUE
            BY <1>2, <4>4, <5>1, <5>3 DEF End, Goes, Quiet, RxStates, EndWord
          <6> QED BY <4>4, <6>1 DEF AtInput, InHand, Sending, Pending, Count, Begun
        <5> QED BY <5>2, <5>3
      <4> QED BY <1>2, <4>1, <4>2, <4>3, <4>4 DEF RxStates
    <3> HIDE DEF put
    <3> HIDE DEF put
    <3> QED BY <3>2, <3>3
  <2> QED BY <1>1, <2>1, <2>2
<1>9. owed' = Ends(Contents') + AtInput' + InHand'
  <2>1. Ends(Contents') \in Nat
    BY <1>1, EndsIs
  <2>2. PICK o \in Int, r \in Nat, c \in Nat : o = owed /\ r = Ends(R) /\ c = Ends(Contents')
    BY <1>3, <2>1 DEF QueueInv, PathType
  <2> HIDE DEF put
  <2>3. PICK e \in Nat, b \in Nat, p \in Nat : e = Ended(get) /\ b = Begun /\ p = put
    BY <1>7
  <2>4. PICK a \in Nat, i \in Nat, a1 \in Nat, i1 \in Nat :
          a = AtInput /\ i = InHand /\ a1 = AtInput' /\ i1 = InHand'
    BY <1>7
  <2>5. c = r + p /\ o = (r + e) + a + i
    BY <1>3, <1>4, <1>5, <2>2, <2>3, <2>4
  <2>6. \/ p = a /\ a1 + i1 = i + b
        \/ p = 0 /\ b = 0 /\ a1 = a /\ i1 = i
    BY <1>8, <2>3, <2>4
  <2>7. (o + b) - e = c + a1 + i1
    BY <2>5, <2>6
  <2> QED BY <1>6, <2>2, <2>3, <2>4, <2>7
<1> QED BY <1>9 DEF OwedInv

-----------------------------------------------------------------------------
\* The stream of words, through each state of the receiver.

Stream == T \o Out

\* What is good is good up to any word.
LEMMA PrefixGood ==
  ASSUME NEW a \in Seq(Words), NEW b \in Seq(Words), AllGood(a \o b)
  PROVE  AllGood(a)
<1> DEFINE c == a \o b
<1>1. /\ Len(a) \in Nat /\ Len(b) \in Nat /\ Len(c) = Len(a) + Len(b)
      /\ \A i \in 1..Len(a) : c[i] = a[i]
  OBVIOUS
<1>2. AllGood(c)
  OBVIOUS
<1> HIDE DEF c
<1>3. ASSUME NEW i \in 1..Len(a), Good(a[i]) PROVE Sent(a, i - 1)
  <2>1. i \in 1..Len(c) /\ Good(c[i]) /\ i - 1 \in Nat /\ \A j \in 1..(i - 1) : c[j] = a[j]
    BY <1>1, <1>3
  <2>2. Sent(c, i - 1)
    BY <1>2, <2>1 DEF AllGood
  <2>3. PICK f \in Frames : Clean(f) /\ Follows(c, i - 1, f, Fr[f].bytes - 4)
    BY <2>2 DEF Sent
  <2>4. Follows(a, i - 1, f, Fr[f].bytes - 4)
    BY <2>1, <2>3, FollowsSame
  <2> QED BY <2>3, <2>4 DEF Sent
<1> QED BY <1>3 DEF AllGood

\* The invariant does not depend on words before an end word that is taken.
LEMMA StreamCut ==
  ASSUME NEW s \in Seq(Words), NEW k, CutAt(s, k), StreamInv(s)
  PROVE  StreamInv(Cut(s, k))
<1> DEFINE c == Cut(s, k)
<1>1. /\ AllGood(s) => AllGood(c)
      /\ Closed(s) => Closed(c)
      /\ Sent(s, Len(s)) => Sent(c, Len(c))
      /\ \A f, m : Follows(s, Len(s), f, m) => Follows(c, Len(c), f, m)
  BY CutGood
<1> HIDE DEF c
<1>2. \A f, n : Whole(s, f, n) => Whole(c, f, n)
  BY <1>1 DEF Whole
<1>3. DataInv(s) => DataInv(c)
  BY <1>1, <1>2 DEF DataInv
<1> QED BY <1>1, <1>3 DEF StreamInv, c

\* The next symbol on the wire: of the same frame, or the first of another.
LEMMA AirNext ==
  ASSUME PathType, AirMoves, dv
  PROVE  /\ air.of \in Frames /\ Lead(air.of) \in Nat /\ air.n \in Nat
         /\ dv' => air'.of = air.of /\ air'.n = air.n + 1
         /\ air.n = Lead(air.of) + Symbols(air.of) => ~dv'
         /\ InData => /\ Symbol.of = air.of /\ Symbol.n = air.n - Lead(air.of) /\ Symbol.n >= 1
                      /\ Symbol = [of |-> air.of, n |-> Symbol.n] /\ Symbol.n \in Nat
                      /\ dv' => InData'
                      /\ ~Fresh'
<1>1. air.of \in Frames /\ Lead(air.of) \in Nat /\ air.n \in Nat
  BY FramesAssumption DEF PathType, dv, Lead
<1>2. air' = IF air.n = Lead(air.of) + Symbols(air.of)
             THEN Silence(1) ELSE [air EXCEPT !.n = @ + 1]
  BY DEF AirMoves
<1>3. /\ dv' => air'.of = air.of /\ air'.n = air.n + 1
      /\ air.n = Lead(air.of) + Symbols(air.of) => ~dv'
  BY <1>2 DEF Silence, dv, PathType
<1>4. ASSUME InData
      PROVE  /\ Symbol.of = air.of /\ Symbol.n = air.n - Lead(air.of) /\ Symbol.n >= 1
             /\ Symbol = [of |-> air.of, n |-> Symbol.n] /\ Symbol.n \in Nat
             /\ dv' => InData'
             /\ ~Fresh'
  <2>1. air.n > Lead(air.of) /\ Symbol = [air EXCEPT !.n = @ - Lead(air.of)]
    BY <1>4 DEF InData, Symbol
  <2>2. Symbol = [of |-> air.of, n |-> air.n - Lead(air.of)]
    BY <2>1 DEF PathType
  <2>3. dv' => InData' /\ air'.n - Lead(air'.of) > 1
    BY <1>1, <1>3, <2>1 DEF InData
  <2>4. ~Fresh'
    <3> SUFFICES ASSUME Fresh' PROVE FALSE
      OBVIOUS
    <3>1. dv' /\ InData' /\ Symbol'.n = 1
      BY DEF Fresh, InData
    <3>2. air' \in [of : Frames \cup {Junk}, n : Nat]
      BY AirType
    <3>3. Symbol'.n = air'.n - Lead(air'.of)
      BY <3>1, <3>2 DEF Symbol
    <3> QED BY <2>3, <3>1, <3>3
  <2>5. Symbol.of = air.of /\ Symbol.n = air.n - Lead(air.of)
    BY <2>2
  <2>6. Symbol.n >= 1 /\ Symbol.n \in Nat
    BY <1>1, <2>1, <2>5
  <2>7. Symbol = [of |-> air.of, n |-> Symbol.n]
    BY <2>2, <2>5
  <2> QED BY <2>3, <2>4, <2>5, <2>6, <2>7
<1> QED BY <1>1, <1>3, <1>4

\* What has been let through the FIFO's input is as good as what was offered.
Through(s, t) ==
  /\ t = s \/ (Sending /\ wfull /\ s = Append(t, rx.fifo_data_o))
  /\ Stream' = t \o Out'

\* A dropped byte breaks nothing: it leaves an overrun.
LEMMA ThroughGood ==
  ASSUME PathType, NEW s \in Seq(Words), AllGood(s), NEW t \in Seq(Words), Through(s, t)
  PROVE  /\ AllGood(t) /\ (~(Sending /\ wfull) => t = s)
         /\ ~Sending' => Stream' = t
         /\ Sending' => Stream' = Append(t, rx'.fifo_data_o)
<1>1. rx.fifo_data_o \in Words
  BY DEF PathType, RxType, RxStates
<1>2. AllGood(t) /\ (~(Sending /\ wfull) => t = s)
  BY <1>1, FrontGood DEF Through
<1>3. ~Sending' => Stream' = t
  BY ConcatEmptySeq DEF Through, Out
<1>4. Sending' => Stream' = Append(t, rx'.fifo_data_o)
  <2>1. t \o <<rx'.fifo_data_o>> = Append(t, rx'.fifo_data_o)
    OBVIOUS
  <2> QED BY <2>1 DEF Through, Out
<1> QED BY <1>2, <1>3, <1>4

\* Out of RX_IDLE.
LEMMA StreamIdle ==
  ASSUME PathType, WriteInv, NEW s \in Seq(Words), StreamInv(s), NEW t \in Seq(Words),
         Through(s, t), rx.state = "RX_IDLE", rx' = Idle(dv)
  PROVE  StreamInv(Stream)'
<1>1. rx \in RxStates
  BY DEF PathType, RxType
<1>2. /\ rx'.fifo_wr_o = FALSE /\ rx'.state \in {"RX_IDLE", "RX_PREAMBLE"}
      /\ rx'.dl = <<>> /\ rx'.odd = FALSE /\ rx'.crc = NoSymbols
  BY <1>1 DEF Idle, Quiet, RxStates
<1>3. ~(Sending /\ wfull)
  <2>1. Sending => rx.fifo_data_o.end
    BY DEF WriteInv, EndWords
  <2> QED BY <2>1 DEF WriteInv
<1>4. AllGood(s) /\ Closed(s)
  BY DEF StreamInv
<1>5. Stream' = s
  BY <1>2, <1>3, <1>4, ThroughGood DEF Sending
<1> QED BY <1>2, <1>4, <1>5 DEF StreamInv

\* Out of RX_PREAMBLE.
LEMMA StreamPreamble ==
  ASSUME PathType, WriteInv, NEW s \in Seq(Words), StreamInv(s), NEW t \in Seq(Words),
         Through(s, t), AirMoves, rx.state = "RX_PREAMBLE",
         NEW looks \in Looks, rx' = Preamble(dv, looks, Symbol)
  PROVE  StreamInv(Stream)'
<1>1. rx \in RxStates
  BY DEF PathType, RxType
<1>2. AllGood(s) /\ Closed(s) /\ rx.dl = <<>> /\ ~rx.odd /\ rx.crc = NoSymbols /\ ~Sending
  BY DEF StreamInv, WriteInv
<1>3. rx'.fifo_wr_o = FALSE /\ rx'.dl = rx.dl /\ rx'.crc = NoSymbols
  BY <1>1, <1>2 DEF Preamble, Goes, Quiet, RxStates
<1>4. Stream' = s
  BY <1>2, <1>3, ThroughGood DEF Sending
<1>5. CASE rx'.state \in {"RX_IDLE", "RX_PREAMBLE"}
  <2>1. rx'.state = "RX_PREAMBLE" => rx'.odd = rx.odd
    BY <1>1, <1>5 DEF Preamble, Goes, Quiet, RxStates
  <2> QED BY <1>2, <1>3, <1>4, <1>5, <2>1 DEF StreamInv
<1>6. CASE rx'.state = "RX_DATA"
  <2>1. dv /\ looks # "PRE" /\ (looks = "SFD" => rx'.odd = FALSE)
    BY <1>1, <1>6 DEF Preamble, Goes, Quiet, RxStates
  <2>2. looks \in {"SFD", "OTHER"} /\ (looks = "OTHER" => InData)
    BY <2>1 DEF Looks
  <2>3. dv' => InData'
    <3>1. CASE InData
      BY <2>1, <3>1, AirNext
    <3>2. CASE ~InData
      <4>1. air.n > Fr[air.of].pre
        BY <2>1, <2>2, <3>2 DEF Looks
      <4>2. air.of \in Frames /\ air.n \in Nat /\ (dv' => air'.of = air.of /\ air'.n = air.n + 1)
        BY <2>1, AirNext
      <4>3. air.n + 1 > Lead(air.of)
        BY <4>1, <4>2, FramesAssumption DEF Lead
      <4> QED BY <4>2, <4>3 DEF InData
    <3> QED BY <3>1, <3>2
  <2>4. Fresh' => ~rx'.odd
    <3>1. looks = "OTHER" => ~Fresh'
      BY <2>1, <2>2, AirNext
    <3> QED BY <2>1, <2>2, <3>1
  <2>5. rx'.crc.of = Junk /\ rx'.crc.n = 0
    BY <1>3 DEF NoSymbols
  <2>6. DataInv(Stream)'
    BY <1>2, <1>3, <1>4, <2>3, <2>4, <2>5 DEF DataInv, Sending
  <2> QED BY <1>2, <1>4, <1>6, <2>6 DEF StreamInv
<1>7. rx'.state \in {"RX_IDLE", "RX_PREAMBLE", "RX_DATA"}
  BY <1>1 DEF Preamble, Goes, Quiet, RxStates
<1> QED BY <1>5, <1>6, <1>7

\* Out of RX_END.
LEMMA StreamEnd ==
  ASSUME PathType, WriteInv, NEW s \in Seq(Words), StreamInv(s), NEW t \in Seq(Words),
         Through(s, t), rx.state = "RX_END", rx' = End(wfull)
  PROVE  StreamInv(Stream)'
<1>1. rx \in RxStates
  BY DEF PathType, RxType
<1>2. AllGood(s) /\ (NoErrors => Sent(s, Len(s))) /\ ~Sending
  BY DEF StreamInv, WriteInv
<1>3. CASE wfull
  <2>1. rx' = Quiet
    BY <1>3 DEF End
  <2>2. rx'.fifo_wr_o = FALSE /\ rx'.state = "RX_END" /\ (NoErrors' <=> NoErrors)
    BY <1>1, <2>1 DEF Quiet, RxStates, NoErrors
  <2>3. Stream' = s
    BY <1>2, <2>2, ThroughGood DEF Sending
  <2> QED BY <1>2, <2>2, <2>3 DEF StreamInv
<1>4. CASE ~wfull
  <2>1. rx'.fifo_wr_o = TRUE /\ rx'.state = "RX_IDLE" /\ rx'.fifo_data_o = EndWord
    BY <1>1, <1>4 DEF End, Goes, Quiet, RxStates
  <2>2. Stream' = Append(s, EndWord) /\ EndWord \in Words
    BY <1>2, <2>1, ThroughGood, EndType DEF Sending, Words, PathType
  <2>3. Good(EndWord) => NoErrors
    BY DEF Good, EndWord, NoErrors
  <2>4. AllGood(Append(s, EndWord))
    BY <1>2, <2>2, <2>3, AppendGood
  <2>5. Closed(Append(s, EndWord))
    <3>1. Append(s, EndWord)[Len(Append(s, EndWord))] = EndWord /\ EndWord.end
      BY <2>2 DEF EndWord
    <3> QED BY <3>1 DEF Closed
  <2> QED BY <2>1, <2>2, <2>4, <2>5 DEF StreamInv
<1> QED BY <1>3, <1>4

-----------------------------------------------------------------------------
\* Halves: of an odd number, of the even one before it, and the shorter of it and
\* four.
LEMMA Halves ==
  ASSUME NEW k \in Nat, k > 0
  PROVE  /\ k \div 2 \in Nat /\ (k - 1) \div 2 \in Nat
         /\ k % 2 = 1 => (k - 1) \div 2 = k \div 2 /\ (k - 1) % 2 = 0
         /\ k % 2 # 1 => /\ (k - 1) \div 2 = (k \div 2) - 1 /\ k % 2 = 0
                         /\ (k - 1) % 2 = 1 /\ k \div 2 >= 1
OBVIOUS

\* The frame is over.
LEMMA StreamOver ==
  ASSUME PathType, DATA_W = 4, NEW s \in Seq(Words), StreamInv(s), NEW t \in Seq(Words),
         Through(s, t), rx.state = "RX_DATA", ~dv, rx' = Data(dv, er, Symbol, crc_ok, wfull)
  PROVE  StreamInv(Stream)'
<1>1. rx \in RxStates
  BY DEF PathType, RxType
<1>2. AllGood(s) /\ DataInv(s)
  BY DEF StreamInv
<1>3. rx' = [Goes("RX_END") EXCEPT !.dribble_q = HALF /\ rx.odd, !.crc_err_q = ~crc_ok,
                                   !.rx_er_q = @ \/ er]
  BY DEF Data
<1>4. /\ rx'.state = "RX_END" /\ rx'.fifo_wr_o = FALSE
      /\ rx'.crc_err_q = ~crc_ok /\ rx'.overrun_q = rx.overrun_q
      /\ rx'.rx_er_q = (rx.rx_er_q \/ er)
  BY <1>1, <1>3 DEF Goes, Quiet, RxStates
<1>5. AllGood(t) /\ Stream' = t
  BY <1>2, <1>4, ThroughGood DEF Sending
<1>6. ASSUME NoErrors' PROVE Sent(t, Len(t))
  <2>1. crc_ok /\ ~rx.overrun_q /\ ~rx.rx_er_q
    BY <1>4, <1>6 DEF NoErrors
  <2> DEFINE f == rx.crc.of
             k == rx.crc.n
  <2>2. f # Junk /\ f \in Frames /\ Fr[f].ok /\ ~Fr[f].half /\ k = Symbols(f)
    BY <1>1, <2>1 DEF crc_ok, RxStates, Syms
  <2>3. Whole(s, f, k)
    BY <1>2, <2>2 DEF DataInv
  <2>4. Fr[f].bytes \in Nat /\ Fr[f].bytes >= 4 /\ k = 2 * Fr[f].bytes
    BY <2>2, FramesAssumption DEF Symbols, HALF
  <2>5. k \div 2 = Fr[f].bytes
    BY <2>4
  <2>6. Len(rx.dl) = 4
    BY <2>3, <2>4, <2>5 DEF Whole, Least
  <2>7. ~Fr[f].er /\ Follows(s, Len(s), f, Fr[f].bytes - 4)
    BY <2>1, <2>3, <2>5, <2>6 DEF Whole
  <2>8. Clean(f)
    BY <2>2, <2>4, <2>7 DEF Clean
  <2>9. t = s
    BY <1>2, <2>1, ThroughGood DEF DataInv
  <2> QED BY <2>2, <2>7, <2>8, <2>9 DEF Sent
<1> QED BY <1>4, <1>5, <1>6 DEF StreamInv

\* The first half of a byte.
LEMMA StreamHalf ==
  ASSUME PathType, DATA_W = 4, NEW s \in Seq(Words), StreamInv(s), NEW t \in Seq(Words),
         Through(s, t), AirMoves, rx.state = "RX_DATA", dv, ~byte_now,
         rx' = Data(dv, er, Symbol, crc_ok, wfull)
  PROVE  StreamInv(Stream)'
<1>1. rx \in RxStates
  BY DEF PathType, RxType
<1>2. AllGood(s) /\ DataInv(s) /\ InData
  BY DEF StreamInv, DataInv
<1>3. rx' = [rx EXCEPT !.odd = ~@, !.crc = Crc(Symbol), !.rx_er_q = @ \/ er,
                       !.lo_nibble = Symbol, !.fifo_wr_o = FALSE]
  BY <1>1 DEF Data, RxStates
<1>4. ~rx.odd /\ rx.odd = FALSE
  BY <1>1 DEF byte_now, HALF, RxStates
<1>5. /\ rx'.state = "RX_DATA" /\ rx'.fifo_wr_o = FALSE /\ rx'.odd = TRUE
      /\ rx'.crc = Crc(Symbol) /\ rx'.rx_er_q = (rx.rx_er_q \/ er) /\ rx'.lo_nibble = Symbol
      /\ rx'.dl = rx.dl /\ rx'.overrun_q = rx.overrun_q
  BY <1>1, <1>3, <1>4 DEF RxStates
<1>6. AllGood(t) /\ Stream' = t /\ (~rx.overrun_q => t = s)
  BY <1>2, <1>5, ThroughGood DEF Sending, DataInv
<1>7. /\ air.of \in Frames /\ Lead(air.of) \in Nat /\ air.n \in Nat
      /\ dv' => air'.of = air.of /\ air'.n = air.n + 1
      /\ Symbol.of = air.of /\ Symbol.n = air.n - Lead(air.of) /\ Symbol.n >= 1
      /\ Symbol = [of |-> air.of, n |-> Symbol.n] /\ Symbol.n \in Nat
      /\ dv' => InData'
      /\ ~Fresh'
  BY <1>2, AirNext
<1>8. air.of # Junk
  BY <1>7, FramesAssumption
<1>9. CASE rx.crc.n # Symbol.n - 1
  <2>1. rx'.crc = [of |-> Junk, n |-> 0 - 1]
    BY <1>5, <1>9 DEF Crc
  <2>2. rx'.crc.of = Junk /\ rx'.crc.n = 0 - 1 /\ rx'.crc.n # 0
    <3>1. \A x \in Int : x = 0 - 1 => x # 0
      OBVIOUS
    <3>2. 0 - 1 \in Int
      OBVIOUS
    <3>3. \A x : [of |-> Junk, n |-> x].of = Junk /\ [of |-> Junk, n |-> x].n = x
      OBVIOUS
    <3>4. rx'.crc.of = Junk /\ rx'.crc.n = 0 - 1
      BY <2>1, <3>3, Zenon
    <3> QED BY <3>1, <3>2, <3>4, Zenon
  <2>3. rx'.crc.n \in {0, 0 - 1} /\ ~Sending'
    BY <1>5, <2>2 DEF Sending
  <2>4. DataInv(Stream)'
    BY <1>7, <2>2, <2>3 DEF DataInv
  <2> QED BY <1>5, <1>6, <2>4 DEF StreamInv
<1>10. CASE rx.crc.n = Symbol.n - 1
  <2> DEFINE f == air.of
             k == Symbol.n
  <2>1. rx'.crc = Symbol /\ rx'.crc.of = f /\ rx'.crc.n = k
    BY <1>5, <1>7, <1>10 DEF Crc
  <2>2. k \in Nat /\ k > 0 /\ (dv' => air'.of = f /\ air'.n = Lead(f) + k + 1)
    BY <1>7
  <2>3. Fr[f].er => rx'.rx_er_q
    <3>1. CASE rx.crc.of # Junk
      BY <1>2, <1>5 DEF er
    <3>2. CASE rx.crc.of = Junk
      BY <1>2, <1>5 DEF er
    <3> QED BY <3>1, <3>2
  <2>4. /\ k % 2 = 1 /\ Len(rx.dl) = Least(k \div 2, 4)
        /\ \A i \in 1..Len(rx.dl) : rx.dl[i] = [of |-> f, n |-> (k \div 2) - Len(rx.dl) + i]
        /\ ~rx.overrun_q => Follows(s, Len(s), f, (k \div 2) - Len(rx.dl))
    <3>1. CASE rx.crc.of # Junk
      <4>1. Whole(s, rx.crc.of, rx.crc.n)
        BY <1>2, <3>1 DEF DataInv
      <4>2. rx.crc.of = f /\ rx.crc.n = k - 1 /\ k - 1 > 0 /\ rx.odd = ((k - 1) % 2 = 1)
        BY <1>10, <4>1 DEF Whole
      <4>3. k % 2 = 1 /\ (k - 1) \div 2 = k \div 2
        BY <1>4, <2>2, <4>2, Halves
      <4> QED BY <4>1, <4>2, <4>3 DEF Whole
    <3>2. CASE rx.crc.of = Junk
      <4>1. rx.crc.n = 0 /\ k = 1
        BY <1>2, <1>10, <2>2, <3>2 DEF DataInv
      <4>2. rx.dl = <<>> /\ Closed(s)
        BY <1>2, <3>2, <4>1 DEF DataInv, Fresh
      <4>3. Follows(s, Len(s), f, 0)
        BY <4>2, ClosedFollows
      <4>4. 1 % 2 = 1 /\ 1 \div 2 = 0 /\ Len(<<>>) = 0 /\ Least(0, 4) = 0 /\ 0 - 0 = 0
        BY DEF Least
      <4> QED BY <4>1, <4>2, <4>3, <4>4
    <3> QED BY <3>1, <3>2
  <2> HIDE DEF f, k
  <2>5. Whole(Stream, rx.crc.of, rx.crc.n)'
    <3>1. rx'.odd = (k % 2 = 1)
      BY <1>5, <2>4
    <3>2. rx'.lo_nibble = [of |-> f, n |-> k]
      BY <1>5, <1>7 DEF f, k
    <3>3. ~rx'.overrun_q => Follows(t, Len(t), f, (k \div 2) - Len(rx'.dl))
      BY <1>5, <1>6, <2>4
    <3>4. /\ Len(rx'.dl) = Least(k \div 2, 4)
          /\ \A i \in 1..Len(rx'.dl) : rx'.dl[i] = [of |-> f, n |-> (k \div 2) - Len(rx'.dl) + i]
      BY <1>5, <2>4
    <3>5. /\ rx'.crc.n \in Nat /\ rx'.crc.n > 0
          /\ dv' => air'.of = rx'.crc.of /\ air'.n = Lead(rx'.crc.of) + rx'.crc.n + 1
          /\ Fr[rx'.crc.of].er => rx'.rx_er_q
      BY <2>1, <2>2, <2>3
    <3>6. /\ rx'.odd = (rx'.crc.n % 2 = 1)
          /\ rx'.odd => rx'.lo_nibble = [of |-> rx'.crc.of, n |-> rx'.crc.n]
      BY <2>1, <3>1, <3>2
    <3>7. /\ ~rx'.overrun_q => Follows(Stream', Len(Stream'), rx'.crc.of, (rx'.crc.n \div 2) - Len(rx'.dl))
          /\ Len(rx'.dl) = Least(rx'.crc.n \div 2, 4)
      BY <1>6, <2>1, <3>3, <3>4
    <3>8. \A i \in 1..Len(rx'.dl) :
            rx'.dl[i] = [of |-> rx'.crc.of, n |-> (rx'.crc.n \div 2) - Len(rx'.dl) + i]
      BY <2>1, <3>4
    <3> QED BY <3>5, <3>6, <3>7, <3>8 DEF Whole
  <2>6. DataInv(Stream)'
    BY <1>5, <1>7, <1>8, <2>1, <2>5 DEF DataInv, Sending, f
  <2> QED BY <1>5, <1>6, <2>6 DEF StreamInv
<1> QED BY <1>9, <1>10

\* The delay line with one byte more, and the word for the byte that leaves it.
Line(l, f, m) ==
  /\ Len(l) = Least(m, 4)
  /\ \A i \in 1..Len(l) : l[i] = [of |-> f, n |-> m - Len(l) + i]
IsByte(b, f, n) == b = [of |-> f, n |-> n]
Shifted(l, byte) == IF Len(l) = 4 THEN Append(Tail(l), byte) ELSE Append(l, byte)

\* One byte more, as a number of symbols.
LEMMA OneMore ==
  ASSUME NEW r \in Seq(Syms), NEW b \in Syms
  PROVE  /\ Len(Append(r, b)) = Len(r) + 1 /\ Append(r, b)[Len(r) + 1] = b
         /\ \A i \in 1..Len(r) : Append(r, b)[i] = r[i]
BY AppendProperties

\* The delay line holds the last four bytes after a shift as well.
LEMMA LineShifts ==
  ASSUME NEW l \in Seq(Syms), NEW f, NEW m \in Nat, NEW b \in Syms
  PROVE  Line(l, f, m) /\ IsByte(b, f, m + 1) =>
           /\ Line(Shifted(l, b), f, m + 1)
           /\ Len(l) = 4 => /\ Head(l) = [of |-> f, n |-> (m - 4) + 1] /\ m - 4 \in Nat
                            /\ (m + 1) - Len(Shifted(l, b)) = (m - 4) + 1
           /\ Len(l) # 4 => (m + 1) - Len(Shifted(l, b)) = 0 /\ m - Len(l) = 0
<1>1. ASSUME Line(l, f, m), IsByte(b, f, m + 1)
      PROVE  /\ Line(Shifted(l, b), f, m + 1)
             /\ Len(l) = 4 => /\ Head(l) = [of |-> f, n |-> (m - 4) + 1] /\ m - 4 \in Nat
                              /\ (m + 1) - Len(Shifted(l, b)) = (m - 4) + 1
             /\ Len(l) # 4 => (m + 1) - Len(Shifted(l, b)) = 0 /\ m - Len(l) = 0
  <2> DEFINE x == Shifted(l, b)
  <2>0. /\ b \in Syms /\ b = [of |-> f, n |-> m + 1]
        /\ x = IF Len(l) = 4 THEN Append(Tail(l), b) ELSE Append(l, b)
        /\ Len(l) = Least(m, 4)
        /\ \A i \in 1..Len(l) : l[i] = [of |-> f, n |-> m - Len(l) + i]
    BY <1>1 DEF Line, Shifted, IsByte
  <2> HIDE DEF x
  <2>1. CASE Len(l) = 4
    <3>1. m \in Nat /\ m >= 4 /\ l # <<>>
      <4>1. l # <<>>
        BY <2>1
      <4>2. m >= 4
        <5>1. Len(l) = Least(m, 4)
          BY <2>0
        <5>2. Least(m, 4) = 4
          BY <2>1, <5>1
        <5> QED BY <5>2 DEF Least
      <4> QED BY <4>1, <4>2
    <3>2. Tail(l) \in Seq(Syms) /\ Len(Tail(l)) = 3 /\ Head(l) = l[1]
          /\ Tail(l)[1] = l[2] /\ Tail(l)[2] = l[3] /\ Tail(l)[3] = l[4]
      <4>1. /\ Tail(l) \in Seq(Syms) /\ Len(Tail(l)) = Len(l) - 1 /\ Head(l) = l[1]
            /\ \A i \in 1..Len(Tail(l)) : Tail(l)[i] = l[i + 1]
        BY <3>1, HeadTailProperties
      <4>2. 4 - 1 = 3 /\ 1 + 1 = 2 /\ 2 + 1 = 3 /\ 3 + 1 = 4
        OBVIOUS
      <4>3. Len(Tail(l)) = 3
        BY <2>1, <4>1, <4>2, Zenon
      <4>4. 1 \in 1..Len(Tail(l)) /\ 2 \in 1..Len(Tail(l)) /\ 3 \in 1..Len(Tail(l))
        <5>1. \A n : n = 3 => 1 \in 1..n /\ 2 \in 1..n /\ 3 \in 1..n
          OBVIOUS
        <5> QED BY <4>3, <5>1, Zenon
      <4> QED BY <4>1, <4>2, <4>3, <4>4, Zenon
    <3>3. Len(x) = 4 /\ x[1] = l[2] /\ x[2] = l[3] /\ x[3] = l[4] /\ x[4] = b
      <4> DEFINE r == Tail(l)
      <4>1. x = Append(r, b) /\ r \in Seq(Syms) /\ Len(r) = 3
        BY <2>0, <2>1, <3>2
      <4>2. r[1] = l[2] /\ r[2] = l[3] /\ r[3] = l[4]
        BY <3>2
      <4> HIDE DEF r
      <4>3. Len(x) = 4 /\ x[4] = b /\ x[1] = r[1] /\ x[2] = r[2] /\ x[3] = r[3]
        <5>1. /\ Len(x) = Len(r) + 1 /\ x[Len(r) + 1] = b
              /\ \A i \in 1..Len(r) : x[i] = r[i]
          <6>1. /\ Len(Append(r, b)) = Len(r) + 1 /\ Append(r, b)[Len(r) + 1] = b
                /\ \A i \in 1..Len(r) : Append(r, b)[i] = r[i]
            BY <4>1, OneMore
          <6> QED BY <4>1, <6>1, Zenon
        <5>2. 3 + 1 = 4 /\ 1 \in 1..3 /\ 2 \in 1..3 /\ 3 \in 1..3
          OBVIOUS
        <5> QED BY <4>1, <5>1, <5>2, Zenon
      <4> QED BY <4>2, <4>3
    <3>4. /\ l[1] = [of |-> f, n |-> m - 4 + 1] /\ l[2] = [of |-> f, n |-> m - 4 + 2]
          /\ l[3] = [of |-> f, n |-> m - 4 + 3] /\ l[4] = [of |-> f, n |-> m - 4 + 4]
      <4>1. 1 \in 1..Len(l) /\ 2 \in 1..Len(l) /\ 3 \in 1..Len(l) /\ 4 \in 1..Len(l)
        BY <2>1
      <4>2. \A i \in 1..Len(l) : l[i] = [of |-> f, n |-> m - 4 + i]
        BY <2>0, <2>1
      <4> QED BY <4>1, <4>2, Zenon
    <3>5. /\ m - 4 + 2 = (m + 1) - 4 + 1 /\ m - 4 + 3 = (m + 1) - 4 + 2
          /\ m - 4 + 4 = (m + 1) - 4 + 3 /\ m + 1 = (m + 1) - 4 + 4
      OBVIOUS
    <3>6. \A i \in 1..4 : x[i] = [of |-> f, n |-> (m + 1) - 4 + i]
      <4>1. \A i \in 1..4 : i = 1 \/ i = 2 \/ i = 3 \/ i = 4
        OBVIOUS
      <4>2. /\ x[1] = [of |-> f, n |-> (m + 1) - 4 + 1] /\ x[2] = [of |-> f, n |-> (m + 1) - 4 + 2]
            /\ x[3] = [of |-> f, n |-> (m + 1) - 4 + 3] /\ x[4] = [of |-> f, n |-> (m + 1) - 4 + 4]
        BY <2>0, <3>3, <3>4, <3>5
      <4> QED BY <4>1, <4>2
    <3>7. Least(m + 1, 4) = 4 /\ m - 4 \in Nat /\ (m + 1) - 4 = (m - 4) + 1
      BY <3>1 DEF Least
    <3>8. Line(x, f, m + 1)
      BY <3>3, <3>6, <3>7 DEF Line
    <3> QED BY <2>1, <3>2, <3>3, <3>4, <3>7, <3>8 DEF x
  <2>2. CASE Len(l) # 4
    <3>1. m < 4 /\ Len(l) = m
      BY <2>0, <2>2 DEF Least
    <3>2. Len(x) = m + 1 /\ x[m + 1] = b /\ \A i \in 1..m : x[i] = l[i]
      BY <2>0, <2>2, <3>1
    <3>3. Least(m + 1, 4) = m + 1 /\ (m + 1) - (m + 1) = 0 /\ m - m = 0
      BY <3>1 DEF Least
    <3>4. ASSUME NEW i \in 1..(m + 1) PROVE x[i] = [of |-> f, n |-> (m + 1) - (m + 1) + i]
      <4>1. CASE i \in 1..m
        <5>1. l[i] = [of |-> f, n |-> m - m + i] /\ m - m + i = (m + 1) - (m + 1) + i
          BY <2>0, <3>1, <4>1
        <5> QED BY <3>2, <4>1, <5>1
      <4>2. CASE i = m + 1
        <5>1. m + 1 = (m + 1) - (m + 1) + i
          BY <4>2
        <5> QED BY <2>0, <3>2, <4>2, <5>1
      <4>3. i \in 1..m \/ i = m + 1
        OBVIOUS
      <4> QED BY <4>1, <4>2, <4>3
    <3>5. Line(x, f, m + 1)
      BY <3>2, <3>3, <3>4 DEF Line
    <3> QED BY <2>2, <3>1, <3>2, <3>3, <3>5 DEF x
  <2> QED BY <2>1, <2>2 DEF x
<1> QED BY <1>1

\* The second half of a byte: the byte goes into the delay line, and the one that
\* leaves it becomes a word.
LEMMA StreamByte ==
  ASSUME PathType, DATA_W = 4, NEW s \in Seq(Words), StreamInv(s), NEW t \in Seq(Words),
         Through(s, t), AirMoves, ~wfull /\ ~Sending => ~wfull',
         rx.state = "RX_DATA", dv, byte_now, rx' = Data(dv, er, Symbol, crc_ok, wfull)
  PROVE  StreamInv(Stream)'
<1> DEFINE b == NewByte(Symbol)
           dw == [end |-> FALSE, err |-> {}, byte |-> Head(rx.dl)]
<1>1. rx \in RxStates /\ rx.dl \in Seq(Syms) /\ b \in Syms
  <2>1. b \in Syms
    BY SymbolIs DEF NewByte, Syms
  <2> QED BY <2>1 DEF PathType, RxType, RxStates
<1>2. AllGood(s) /\ DataInv(s) /\ InData
  BY DEF StreamInv, DataInv
<1>3. rx.odd /\ rx.odd = TRUE /\ ~Sending
  BY <1>1, <1>2 DEF byte_now, HALF, DataInv, RxStates
<1>4. rx' = [Passed(b) EXCEPT !.odd = ~rx.odd, !.crc = Crc(Symbol), !.rx_er_q = rx.rx_er_q \/ er,
                              !.overrun_q = Overrun(wfull)]
  BY <1>1 DEF Data, RxStates
<1>5. /\ rx'.state = "RX_DATA" /\ rx'.odd = FALSE /\ rx'.crc = Crc(Symbol)
      /\ rx'.rx_er_q = (rx.rx_er_q \/ er) /\ rx'.overrun_q = Overrun(wfull)
      /\ rx'.fifo_wr_o = (Len(rx.dl) = 4)
      /\ Len(rx.dl) = 4 => rx'.fifo_data_o = dw
      /\ rx'.dl = IF Len(rx.dl) = 4 THEN Append(Tail(rx.dl), b) ELSE Append(rx.dl, b)
  <2> HIDE DEF b
  <2>1. CASE Len(rx.dl) = 4
    BY <1>1, <1>3, <1>4, <2>1 DEF Passed, Quiet, RxStates
  <2>2. CASE Len(rx.dl) # 4
    BY <1>1, <1>3, <1>4, <2>2 DEF Passed, Quiet, RxStates
  <2> QED BY <2>1, <2>2
<1>6. Len(rx.dl) = 4 => dw \in DataWords /\ dw \in Words
  <2>1. Len(rx.dl) = 4 => rx.dl # <<>>
    OBVIOUS
  <2> QED BY <1>1, <2>1 DEF DataWords, Words
<1>7. /\ t = s
      /\ Len(rx.dl) # 4 => Stream' = s
      /\ Len(rx.dl) = 4 => Stream' = Append(s, dw)
  <2> HIDE DEF dw
  <2> QED BY <1>2, <1>3, <1>5, ThroughGood DEF Sending
<1>8. AllGood(Stream')
  <2>1. ~Good(dw)
    BY DEF Good
  <2>2. Len(rx.dl) = 4 => AllGood(Append(s, dw))
    <3> HIDE DEF dw
    <3> QED BY <1>2, <1>6, <2>1, AppendGood
  <2> QED BY <1>2, <1>7, <2>2
<1>9. Sending' /\ ~rx'.overrun_q => ~wfull'
  BY <1>3, <1>5 DEF Sending, Overrun
<1>10. /\ air.of \in Frames /\ Lead(air.of) \in Nat /\ air.n \in Nat
       /\ dv' => air'.of = air.of /\ air'.n = air.n + 1
       /\ Symbol.of = air.of /\ Symbol.n = air.n - Lead(air.of) /\ Symbol.n >= 1
       /\ Symbol = [of |-> air.of, n |-> Symbol.n] /\ Symbol.n \in Nat
       /\ dv' => InData'
       /\ ~Fresh'
  BY <1>2, AirNext
<1>11. air.of # Junk
  BY <1>10, FramesAssumption
<1>12. CASE rx.crc.n # Symbol.n - 1
  <2>1. rx'.crc = [of |-> Junk, n |-> 0 - 1]
    BY <1>5, <1>12 DEF Crc
  <2>2. rx'.crc.of = Junk /\ rx'.crc.n = 0 - 1 /\ rx'.crc.n # 0
    <3>1. \A x \in Int : x = 0 - 1 => x # 0
      OBVIOUS
    <3>2. 0 - 1 \in Int
      OBVIOUS
    <3>3. \A x : [of |-> Junk, n |-> x].of = Junk /\ [of |-> Junk, n |-> x].n = x
      OBVIOUS
    <3>4. rx'.crc.of = Junk /\ rx'.crc.n = 0 - 1
      BY <2>1, <3>3, Zenon
    <3> QED BY <3>1, <3>2, <3>4, Zenon
  <2>3. rx'.crc.n \in {0, 0 - 1} /\ ~rx'.odd
    BY <1>5, <2>2
  <2>4. DataInv(Stream)'
    BY <1>9, <1>10, <2>2, <2>3 DEF DataInv
  <2> QED BY <1>5, <1>8, <2>4 DEF StreamInv
<1>13. CASE rx.crc.n = Symbol.n - 1
  <2> DEFINE f == air.of
             k == Symbol.n
             m == (k - 1) \div 2
  <2>1. rx'.crc = Symbol /\ rx'.crc.of = f /\ rx'.crc.n = k
    BY <1>5, <1>10, <1>13 DEF Crc
  <2>2. k \in Nat /\ k > 0 /\ (dv' => air'.of = f /\ air'.n = Lead(f) + k + 1)
    BY <1>10
  <2>3. Fr[f].er => rx'.rx_er_q
    <3>1. CASE rx.crc.of # Junk
      BY <1>2, <1>5 DEF er
    <3>2. CASE rx.crc.of = Junk
      BY <1>2, <1>5 DEF er
    <3> QED BY <3>1, <3>2
  <2>4. rx.crc.of # Junk
    <3> SUFFICES ASSUME rx.crc.of = Junk PROVE FALSE
      OBVIOUS
    <3>1. rx.crc.n = 0 /\ k = 1
      BY <1>2, <1>13, <2>2 DEF DataInv
    <3> QED BY <1>2, <1>3, <3>1 DEF DataInv, Fresh
  <2>5. Whole(s, f, k - 1) /\ rx.crc.of = f
    <3>1. Whole(s, rx.crc.of, rx.crc.n)
      BY <1>2, <2>4 DEF DataInv
    <3>2. rx.crc.of = f
      BY <3>1 DEF Whole
    <3> QED BY <1>13, <3>1, <3>2
  <2>6. /\ (k - 1) % 2 = 1 /\ rx.lo_nibble = [of |-> f, n |-> k - 1]
        /\ Len(rx.dl) = Least(m, 4)
        /\ \A i \in 1..Len(rx.dl) : rx.dl[i] = [of |-> f, n |-> m - Len(rx.dl) + i]
        /\ ~rx.overrun_q => Follows(s, Len(s), f, m - Len(rx.dl))
    BY <1>3, <2>5 DEF Whole
  <2>7. k % 2 = 0 /\ k % 2 # 1 /\ k \div 2 = m + 1 /\ m \in Nat
    <3>1. m \in Nat /\ k \div 2 \in Nat
      BY <2>2, Halves
    <3>2. k % 2 # 1
      <4> SUFFICES ASSUME k % 2 = 1 PROVE FALSE
        OBVIOUS
      <4>1. (k - 1) % 2 = 0
        BY <2>2, Halves
      <4> QED BY <2>6, <4>1
    <3>3. k % 2 = 0 /\ m = (k \div 2) - 1
      BY <2>2, <3>2, Halves
    <3> QED BY <3>1, <3>2, <3>3
  <2>8. b = [of |-> f, n |-> m + 1]
    <3>1. rx.lo_nibble = [Symbol EXCEPT !.n = @ - 1]
      <4>1. [Symbol EXCEPT !.n = @ - 1] = [of |-> f, n |-> k - 1]
        BY <1>10
      <4> QED BY <2>6, <4>1
    <3> QED BY <1>10, <2>7, <3>1 DEF NewByte, HALF
  <2> HIDE DEF f, k, m, b, dw
  <2>9. /\ Len(rx'.dl) = Least(m + 1, 4)
        /\ \A i \in 1..Len(rx'.dl) : rx'.dl[i] = [of |-> f, n |-> (m + 1) - Len(rx'.dl) + i]
        /\ Len(rx.dl) = 4 => /\ Head(rx.dl) = [of |-> f, n |-> (m - 4) + 1] /\ m - 4 \in Nat
                             /\ (m + 1) - Len(rx'.dl) = (m - 4) + 1
        /\ Len(rx.dl) # 4 => (m + 1) - Len(rx'.dl) = 0 /\ m - Len(rx.dl) = 0
    <3>1. Line(rx.dl, f, m)
      BY <2>6 DEF Line
    <3>2. rx'.dl = Shifted(rx.dl, b)
      BY <1>5 DEF Shifted
    <3>3. /\ Line(rx'.dl, f, m + 1)
          /\ Len(rx.dl) = 4 => /\ Head(rx.dl) = [of |-> f, n |-> (m - 4) + 1] /\ m - 4 \in Nat
                               /\ (m + 1) - Len(rx'.dl) = (m - 4) + 1
          /\ Len(rx.dl) # 4 => (m + 1) - Len(rx'.dl) = 0 /\ m - Len(rx.dl) = 0
      <4>1. /\ Line(Shifted(rx.dl, b), f, m + 1)
            /\ Len(rx.dl) = 4 => /\ Head(rx.dl) = [of |-> f, n |-> (m - 4) + 1] /\ m - 4 \in Nat
                                 /\ (m + 1) - Len(Shifted(rx.dl, b)) = (m - 4) + 1
            /\ Len(rx.dl) # 4 => (m + 1) - Len(Shifted(rx.dl, b)) = 0 /\ m - Len(rx.dl) = 0
        <5>1. IsByte(b, f, m + 1)
          BY <2>8 DEF IsByte
        <5> QED BY <1>1, <2>7, <3>1, <5>1, LineShifts, Zenon
      <4> QED BY <3>2, <4>1, Zenon
    <3> QED BY <3>3 DEF Line
  <2>10. ~rx'.overrun_q => Follows(Stream', Len(Stream'), f, (m + 1) - Len(rx'.dl))
    <3> SUFFICES ASSUME ~rx'.overrun_q
                 PROVE  Follows(Stream', Len(Stream'), f, (m + 1) - Len(rx'.dl))
      OBVIOUS
    <3>1. Follows(s, Len(s), f, m - Len(rx.dl))
      BY <1>5, <2>6 DEF Overrun
    <3>2. CASE Len(rx.dl) = 4
      <4>1. dw \in DataWords /\ dw.byte = [of |-> f, n |-> (m - 4) + 1] /\ m - 4 \in Nat
        BY <1>6, <2>9, <3>2 DEF dw
      <4>2. Follows(s, Len(s), f, m - 4)
        BY <3>1, <3>2
      <4>3. Follows(Append(s, dw), Len(s) + 1, f, (m - 4) + 1)
        BY <4>1, <4>2, FollowsMore
      <4>4. Len(Append(s, dw)) = Len(s) + 1
        BY <1>6, <3>2, AppendProperties
      <4> QED BY <1>7, <2>9, <3>2, <4>3, <4>4
    <3>3. CASE Len(rx.dl) # 4
      BY <1>7, <2>9, <3>1, <3>3
    <3> QED BY <3>2, <3>3
  <2>11. Whole(Stream, rx.crc.of, rx.crc.n)'
    <3>1. rx'.crc.n \div 2 = m + 1
      BY <2>1, <2>7
    <3>2. /\ rx'.crc.n \in Nat /\ rx'.crc.n > 0
          /\ dv' => air'.of = rx'.crc.of /\ air'.n = Lead(rx'.crc.of) + rx'.crc.n + 1
          /\ Fr[rx'.crc.of].er => rx'.rx_er_q
      BY <2>1, <2>2, <2>3
    <3>3. /\ rx'.odd = (rx'.crc.n % 2 = 1)
          /\ rx'.odd => rx'.lo_nibble = [of |-> rx'.crc.of, n |-> rx'.crc.n]
      BY <1>5, <2>1, <2>7
    <3>4. /\ ~rx'.overrun_q => Follows(Stream', Len(Stream'), rx'.crc.of, (rx'.crc.n \div 2) - Len(rx'.dl))
          /\ Len(rx'.dl) = Least(rx'.crc.n \div 2, 4)
      BY <2>1, <2>9, <2>10, <3>1
    <3>5. \A i \in 1..Len(rx'.dl) :
            rx'.dl[i] = [of |-> rx'.crc.of, n |-> (rx'.crc.n \div 2) - Len(rx'.dl) + i]
      BY <2>1, <2>9, <3>1
    <3> QED BY <3>2, <3>3, <3>4, <3>5 DEF Whole
  <2>12. DataInv(Stream)'
    <3>1. ~rx'.odd /\ rx'.crc.of # Junk
      BY <1>5, <1>11, <2>1 DEF f
    <3> QED BY <1>9, <1>10, <2>11, <3>1 DEF DataInv
  <2> QED BY <1>5, <1>8, <2>12 DEF StreamInv
<1> QED BY <1>12, <1>13

-----------------------------------------------------------------------------
\* The stream of words, through a step.

\* Nothing happens on this side.
LEMMA StreamRests ==
  ASSUME NEW s, StreamInv(s), RxRests, wfull' = wfull, Stream' = s
  PROVE  StreamInv(Stream)'
<1>1. /\ rx' = rx /\ air' = air /\ (dv' <=> dv) /\ (InData' <=> InData) /\ (Fresh' <=> Fresh)
      /\ (Sending' <=> Sending) /\ (NoErrors' <=> NoErrors)
  BY DEF RxRests, dv, InData, Fresh, Symbol, Sending, NoErrors
<1>2. \A f, k : Whole(s, f, k) => Whole(Stream, f, k)'
  BY <1>1 DEF Whole
<1>3. DataInv(s) => DataInv(Stream)'
  <2> SUFFICES ASSUME DataInv(s) PROVE DataInv(Stream)'
    OBVIOUS
  <2>1. rx.crc.of # Junk => Whole(Stream, rx.crc.of, rx.crc.n)'
    BY <1>1 DEF DataInv, Whole
  <2> QED BY <1>1, <2>1 DEF DataInv
<1> QED BY <1>1, <1>3 DEF StreamInv

\* An edge of rx_clk, in any state of the receiver.
LEMMA StreamTicks ==
  ASSUME QueueInv, DATA_W = 4, WriteInv, NEW wr, RxTicks(wr), ~wfull /\ ~wr => ~wfull',
         NEW s \in Seq(Words), StreamInv(s), NEW t \in Seq(Words), Through(s, t)
  PROVE  StreamInv(Stream)'
<1>1. PathType /\ rx.state \in {"RX_IDLE", "RX_PREAMBLE", "RX_DATA", "RX_END"}
  BY DEF QueueInv, PathType, RxType, RxStates
<1>2. PICK looks \in Looks : RxEdge(FALSE, dv, er, looks, Symbol, crc_ok, wfull)
  BY DEF RxTicks
<1>3. AirMoves /\ (~wfull /\ ~Sending => ~wfull')
  BY DEF RxTicks, do_wr, Sending
<1>4. CASE rx.state = "RX_IDLE"
  BY <1>1, <1>2, <1>4, StreamIdle DEF RxEdge
<1>5. CASE rx.state = "RX_PREAMBLE"
  BY <1>1, <1>2, <1>3, <1>5, StreamPreamble DEF RxEdge
<1>6. CASE rx.state = "RX_DATA"
  <2>1. rx' = Data(dv, er, Symbol, crc_ok, wfull)
    BY <1>2, <1>6 DEF RxEdge
  <2>2. CASE ~dv
    BY <1>1, <1>6, <2>1, <2>2, StreamOver
  <2>3. CASE dv /\ ~byte_now
    BY <1>1, <1>3, <1>6, <2>1, <2>3, StreamHalf
  <2>4. CASE dv /\ byte_now
    BY <1>1, <1>3, <1>6, <2>1, <2>4, StreamByte
  <2> QED BY <2>2, <2>3, <2>4
<1>7. CASE rx.state = "RX_END"
  BY <1>1, <1>2, <1>7, StreamEnd DEF RxEdge
<1> QED BY <1>1, <1>4, <1>5, <1>6, <1>7

\* A step, in which the receive unit may take a word too.
LEMMA StreamStep ==
  ASSUME QueueInv, Live, DATA_W = 4, WriteInv, StreamInv(Stream), TakenInv,
         NEW wr \in BOOLEAN, NEW get \in BOOLEAN, Running(wr, get)
  PROVE  StreamInv(Stream)' /\ TakenInv'
<1> DEFINE rest == SubSeq(Contents, Count(get) + 1, Len(Contents))
           w == rx.fifo_data_o
<1>1. /\ Contents \in Seq(Words) /\ Contents' \in Seq(Words)
      /\ get => Contents # <<>> /\ rd_data = Head(Contents)
      /\ Contents' = rest \o Put(wr, w)
      /\ RxTicks(wr) \/ (RxRests /\ ~wr /\ wfull' = wfull)
      /\ ~wfull /\ ~wr => ~wfull'
      /\ taken \in Seq(Words) /\ taken' = IF get THEN Took ELSE taken
  BY RunFacts
<1>2. PICK k : CutAt(T, k) /\ taken' \o rest = Cut(T, k)
  BY <1>1, TakeCuts
<1>3. w \in Words /\ T \in Seq(Words) /\ Out \in Seq(Words) /\ Put(wr, w) \in Seq(Words)
  <2>1. w \in Words
    BY DEF QueueInv, PathType, RxType, RxStates
  <2>2. T \in Seq(Words)
    BY <1>1, ConcatProperties DEF T
  <2> QED BY <2>1, <2>2 DEF Out, Put
<1>4. rest \in Seq(Words) /\ taken' \in Seq(Words)
  <2>1. rest \in Seq(Words)
    BY <1>1 DEF Count
  <2>2. Took \in Seq(Words)
    BY DataRead DEF QueueInv
  <2> QED BY <1>1, <2>1, <2>2
<1> HIDE DEF rest
<1> DEFINE c == Cut(T, k)
           s == c \o Out
<1>5. /\ c \in Seq(Words) /\ s \in Seq(Words) /\ s = Cut(Stream, k) /\ StreamInv(s)
  <2>1. c \in Seq(Words)
    BY <1>2, <1>3, CutIs
  <2>2. CutAt(Stream, k) /\ s = Cut(Stream, k)
    BY <1>2, <1>3, CutOut DEF Stream
  <2>3. Stream \in Seq(Words) /\ s \in Seq(Words)
    BY <1>3, <2>1, ConcatProperties DEF Stream
  <2>4. StreamInv(Cut(Stream, k))
    BY <2>2, <2>3, StreamCut
  <2> QED BY <2>1, <2>2, <2>3, <2>4
<1>6. T' = c \o Put(wr, w) /\ T' \in Seq(Words)
  <2>1. T' = taken' \o (rest \o Put(wr, w))
    BY <1>1 DEF T
  <2>2. T' = (taken' \o rest) \o Put(wr, w)
    <3>1. (taken' \o rest) \o Put(wr, w) = taken' \o (rest \o Put(wr, w))
      <4> DEFINE p == Put(wr, w)
      <4>1. p \in Seq(Words)
        BY <1>3
      <4> HIDE DEF p
      <4>2. (taken' \o rest) \o p = taken' \o (rest \o p)
        BY <1>4, <4>1, ConcatAssociative
      <4> QED BY <4>2 DEF p
    <3> QED BY <2>1, <3>1, Zenon
  <2>3. c \o Put(wr, w) \in Seq(Words)
    BY <1>3, <1>5, ConcatProperties
  <2> QED BY <1>2, <2>2, <2>3
<1>7. c = taken' \o rest
  BY <1>2
<1> HIDE DEF c
<1>8. AllGood(taken')
  <2>1. AllGood(c \o Out)
    BY <1>5 DEF StreamInv
  <2>2. AllGood(c)
    BY <1>3, <1>5, <2>1, PrefixGood
  <2> QED BY <1>4, <1>7, <2>2, PrefixGood
<1>9. TakenInv'
  <2>1. \A i \in 1..(Len(taken') - 1) : ~taken'[i].end
    <3>1. CASE ~get
      BY <1>1, <3>1 DEF TakenInv
    <3>2. CASE get /\ taken # <<>> /\ taken[Len(taken)].end
      <4>1. Len(taken') = 1
        BY <1>1, <3>2 DEF Took
      <4> QED BY <4>1
    <3>3. CASE get /\ ~(taken # <<>> /\ taken[Len(taken)].end)
      <4>1. taken' = Append(taken, rd_data)
        BY <1>1, <3>3 DEF Took
      <4>2. Len(taken) \in Nat /\ Len(taken') = Len(taken) + 1
            /\ \A i \in 1..Len(taken) : taken'[i] = taken[i]
        <5>1. rd_data \in Words
          BY DataRead DEF QueueInv
        <5>2. /\ Len(Append(taken, rd_data)) = Len(taken) + 1
              /\ \A i \in 1..Len(taken) : Append(taken, rd_data)[i] = taken[i]
          BY <1>1, <5>1, AppendProperties
        <5>3. Len(taken) \in Nat
          BY <1>1
        <5> QED BY <4>1, <5>2, <5>3, Zenon
      <4>3. ASSUME NEW i \in 1..Len(taken) PROVE ~taken[i].end
        <5>1. i \in 1..(Len(taken) - 1) \/ (i = Len(taken) /\ taken # <<>>)
          BY <4>2
        <5> QED BY <3>3, <5>1 DEF TakenInv
      <4>4. Len(taken') - 1 = Len(taken)
        BY <4>2
      <4> QED BY <4>2, <4>3, <4>4
    <3> QED BY <3>1, <3>2, <3>3
  <2> QED BY <1>8, <2>1 DEF TakenInv
<1>10. Stream' = T' \o Out'
  BY DEF Stream
<1>11. CASE RxRests /\ ~wr /\ wfull' = wfull
  <2>1. T' = c
    BY <1>5, <1>6, <1>11, ConcatEmptySeq DEF Put
  <2>2. Out' = Out
    BY <1>11 DEF Out, Sending, RxRests
  <2>3. Stream' = s
    BY <1>10, <2>1, <2>2
  <2> HIDE DEF s
  <2> QED BY <1>5, <1>9, <1>11, <2>3, StreamRests
<1>12. CASE RxTicks(wr)
  <2>1. wr = (Sending /\ ~wfull)
    BY <1>12 DEF RxTicks, do_wr, Sending
  <2>2. T' = s \/ (Sending /\ wfull /\ s = Append(T', w))
    <3>1. CASE wr
      BY <1>6, <2>1, <3>1 DEF Put, Out
    <3>2. CASE ~wr /\ ~Sending
      BY <1>6, <3>2 DEF Put, Out
    <3>3. CASE ~wr /\ Sending
      <4>1. wfull /\ T' = c
        BY <1>5, <1>6, <2>1, <3>3, ConcatEmptySeq DEF Put
      <4>2. s = Append(c, w)
        BY <1>3, <1>5, <3>3, AppendIsConcat DEF Out
      <4> QED BY <3>3, <4>1, <4>2
    <3> QED BY <3>1, <3>2, <3>3
  <2> HIDE DEF s
  <2>3. Through(s, T')
    BY <1>10, <2>2 DEF Through
  <2>4. StreamInv(Stream)'
    BY <1>1, <1>5, <1>6, <1>12, <2>3, StreamTicks
  <2> QED BY <1>9, <2>4
<1> QED BY <1>1, <1>11, <1>12

-----------------------------------------------------------------------------
\* The theorems.

WrittenInv == Live => WriteInv /\ OwedInv
OrderedInv == TakenInv /\ (Live => StreamInv(Stream))

\* After a reset the invariants hold.
LEMMA BlankRx ==
  Blank /\ PathType => WriteInv /\ OwedInv /\ TakenInv /\ StreamInv(Stream)
<1> SUFFICES ASSUME Blank, PathType
             PROVE  WriteInv /\ OwedInv /\ TakenInv /\ StreamInv(Stream)
  OBVIOUS
<1>1. Contents = <<>>
  BY BlankViews DEF Contents
<1>2. rx.state = "RX_IDLE" /\ ~Sending /\ taken = <<>> /\ owed = 0
  BY DEF Blank, NewRx, Sending
<1>3. WriteInv
  BY <1>2 DEF WriteInv
<1>4. OwedInv
  BY <1>1, <1>2, EndsNone DEF OwedInv, AtInput, InHand, Pending, Count
<1>5. Stream = <<>>
  BY <1>1, <1>2 DEF Stream, T, Out
<1>6. AllGood(<<>>) /\ Closed(<<>>)
  BY DEF AllGood, Closed
<1>7. TakenInv
  BY <1>2, <1>6 DEF TakenInv
<1>8. StreamInv(Stream)
  BY <1>2, <1>5, <1>6 DEF StreamInv
<1> QED BY <1>3, <1>4, <1>7, <1>8

\* The same after a step.
LEMMA BlankRxNext ==
  Blank' /\ PathType' => WriteInv' /\ OwedInv' /\ TakenInv' /\ StreamInv(Stream)'
BY BlankRx, PTL

\* Nothing is taken in reset.
LEMMA TakenRests ==
  ASSUME QueueInv, StartsLate, Next, ~(Live /\ rx_rst_q = 0)
  PROVE  taken' \in {<<>>, taken}
<1>1. CASE RxClk
  BY <1>1 DEF RxClk
<1>2. ASSUME NEW seen, NEW get \in BOOLEAN, ClkSide(seen, get)
      PROVE  taken' \in {<<>>, taken}
  <2>1. CASE core_rst
    BY <1>2, <2>1 DEF ClkSide
  <2>2. CASE ~core_rst
    <3>1. ~get
      <4>1. CASE rx_rst_q = 3
        BY <1>2, <2>2, <4>1 DEF ClkSide, rd_en, QueueInv, ResetInv
      <4>2. CASE rx_rst_q # 3
        <5>1. Live /\ Blank /\ PathType
          BY <2>2, <4>2 DEF Live, QueueInv, PathType, ResetInv
        <5>2. Level = 0 /\ FifoType
          BY <5>1, BlankViews
        <5>3. started => ReaderSees
          BY <5>1 DEF QueueInv, ViewInv
        <5>4. ReaderSees => rempty
          BY <5>2, WordToRead
        <5> QED BY <1>2, <5>3, <5>4 DEF ClkSide, rd_en
      <4> QED BY <4>1, <4>2
    <3> QED BY <1>2, <2>2, <3>1 DEF ClkSide
  <2> QED BY <2>1, <2>2
<1>3. CASE Clk
  BY <1>2, <1>3 DEF Clk
<1>4. CASE Both
  BY <1>2, <1>4 DEF Both
<1> QED BY <1>1, <1>3, <1>4 DEF Next

\* What is written and what is owed, through every step.
LEMMA WrittenStep ==
  ASSUME QueueInv, WrittenInv, StartsLate, [Next]_vars
  PROVE  WrittenInv'
<1>1. CASE Next
  <2> SUFFICES ASSUME Live' PROVE WriteInv' /\ OwedInv'
    BY DEF WrittenInv
  <2>1. CASE Live /\ rx_rst_q = 0
    <3>1. PICK wr, get \in BOOLEAN : Running(wr, get)
      BY <1>1, <2>1, RunningStep DEF QueueInv
    <3> QED BY <2>1, <3>1, WriteStep, OwedStep DEF WrittenInv
  <2>2. CASE ~(Live /\ rx_rst_q = 0)
    <3>1. Blank' /\ PathType'
      BY <1>1, <2>2, BlankStep, TypeStep DEF QueueInv
    <3> QED BY <3>1, BlankRxNext
  <2> QED BY <2>1, <2>2
<1>2. CASE UNCHANGED vars
  <2>1. /\ (Live' <=> Live) /\ (WriteInv' <=> WriteInv)
    BY <1>2 DEF vars, pathVars, fifoVars, wVars, rVars, Live, WriteInv, Sending, wfull
  <2>2. owed' = owed /\ Contents' = Contents /\ AtInput' = AtInput /\ InHand' = InHand
    BY <1>2 DEF vars, pathVars, fifoVars, wVars, rVars, Contents, Level, AtInput, InHand,
                Sending, Pending
  <2> QED BY <2>1, <2>2 DEF WrittenInv, OwedInv
<1> QED BY <1>1, <1>2

\* What is taken and what is to come, through every step.
LEMMA OrderedStep ==
  ASSUME QueueInv, WrittenInv, OrderedInv, StartsLate, DATA_W = 4, [Next]_vars
  PROVE  OrderedInv'
<1>1. CASE Next
  <2>1. CASE Live /\ rx_rst_q = 0
    <3>1. PICK wr, get \in BOOLEAN : Running(wr, get)
      BY <1>1, <2>1, RunningStep DEF QueueInv
    <3> QED BY <2>1, <3>1, StreamStep DEF WrittenInv, OrderedInv
  <2>2. CASE ~(Live /\ rx_rst_q = 0)
    <3>1. TakenInv'
      <4>1. taken' \in {<<>>, taken}
        BY <1>1, <2>2, TakenRests
      <4>2. taken' = <<>> => TakenInv'
        BY DEF TakenInv, AllGood
      <4>3. taken' = taken => TakenInv'
        BY DEF OrderedInv, TakenInv
      <4> QED BY <4>1, <4>2, <4>3
    <3>2. Live' => Blank' /\ PathType'
      BY <1>1, <2>2, BlankStep, TypeStep DEF QueueInv
    <3> QED BY <3>1, <3>2, BlankRxNext DEF OrderedInv
  <2> QED BY <2>1, <2>2
<1>2. CASE UNCHANGED vars
  <2>1. /\ RxRests /\ wfull' = wfull /\ (Live' <=> Live) /\ taken' = taken
    BY <1>2 DEF vars, pathVars, fifoVars, wVars, rVars, RxRests, wfull, Live
  <2>2. Stream' = Stream
    BY <1>2 DEF vars, pathVars, fifoVars, wVars, rVars, Stream, T, Out, Sending, Contents, Level
  <2>3. Live => StreamInv(Stream)'
    <3>1. PICK s : s = Stream
      OBVIOUS
    <3> QED BY <2>1, <2>2, <3>1, StreamRests DEF OrderedInv
  <2> QED BY <2>1, <2>3 DEF OrderedInv, TakenInv
<1> QED BY <1>1, <1>2

\* Once all is quiet, every frame begun has been reported with an end word.
THEOREM EveryFrameReported == ASSUME StartsLate PROVE Spec => []Reported
<1>1. Init => QueueInv /\ WrittenInv
  <2>1. Init => Blank /\ PathType
    BY QueueInvInit DEF Init, FifoInit, Blank, QueueInv
  <2> QED BY <2>1, QueueInvInit, BlankRx DEF WrittenInv
<1>2. QueueInv /\ WrittenInv /\ [Next]_vars => QueueInv' /\ WrittenInv'
  BY QueueInvStep, WrittenStep
<1>3. QueueInv /\ WrittenInv => Reported
  <2> SUFFICES ASSUME QueueInv, WrittenInv, AllQuiet PROVE owed = 0
    BY DEF Reported
  <2>1. Live
    BY DEF AllQuiet, Resetting, rx_rst, Live, QueueInv, PathType
  <2>2. Contents = <<>> /\ AtInput = 0 /\ InHand = 0
    BY DEF AllQuiet, AtInput, InHand, Sending, Pending, Count
  <2> QED BY <2>1, <2>2, EndsNone DEF WrittenInv, OwedInv
<1> QED BY <1>1, <1>2, <1>3, PTL DEF Spec

\* A frame that is reported without an error was sent, whole.
THEOREM WholeFramesOnly == ASSUME StartsLate, DATA_W = 4 PROVE Spec => []GoodIsWhole
<1>1. Init => QueueInv /\ WrittenInv /\ OrderedInv
  <2>1. Init => Blank /\ PathType
    BY QueueInvInit DEF Init, FifoInit, Blank, QueueInv
  <2> QED BY <2>1, QueueInvInit, BlankRx DEF WrittenInv, OrderedInv
<1>2. QueueInv /\ WrittenInv /\ OrderedInv /\ [Next]_vars
        => QueueInv' /\ WrittenInv' /\ OrderedInv'
  BY QueueInvStep, WrittenStep, OrderedStep
<1>3. QueueInv /\ OrderedInv => GoodIsWhole
  <2> SUFFICES ASSUME QueueInv, OrderedInv, Complete, taken[Len(taken)].err = {}
               PROVE  \E f \in Frames :
                        /\ Clean(f) /\ Len(taken) = Len(Bytes(f)) + 1
                        /\ \A i \in 1..Len(Bytes(f)) : taken[i].byte = Bytes(f)[i]
    BY DEF GoodIsWhole
  <2> DEFINE n == Len(taken)
  <2>1. n \in Nat /\ n >= 1 /\ Good(taken[n])
    BY DEF QueueInv, PathType, Complete, Good
  <2>2. Sent(taken, n - 1)
    BY <2>1 DEF OrderedInv, TakenInv, AllGood
  <2>3. PICK f \in Frames : Clean(f) /\ Follows(taken, n - 1, f, Fr[f].bytes - 4)
    BY <2>2 DEF Sent
  <2> DEFINE m == Fr[f].bytes - 4
  <2>4. m \in 0..(n - 1) /\ (n - 1 = m \/ taken[(n - 1) - m].end)
        /\ \A j \in 1..m : taken[(n - 1) - m + j].byte = [of |-> f, n |-> j]
    BY <2>3 DEF Follows
  <2>5. \A i \in 1..(n - 1) : ~taken[i].end
    BY DEF OrderedInv, TakenInv
  <2> HIDE DEF n, m
  <2>6. n - 1 = m /\ n = m + 1
    <3> SUFFICES ASSUME n - 1 # m PROVE FALSE
      BY <2>1, <2>4
    <3>1. (n - 1) - m \in 1..(n - 1) /\ taken[(n - 1) - m].end
      BY <2>1, <2>4
    <3> QED BY <2>5, <3>1
  <2>7. Bytes(f) = [i \in 1..m |-> [of |-> f, n |-> i]] /\ Len(Bytes(f)) = m
    BY <2>1, <2>4, <2>6 DEF Bytes, m
  <2>8. \A i \in 1..m : taken[i].byte = Bytes(f)[i]
    <3> SUFFICES ASSUME NEW i \in 1..m PROVE taken[i].byte = Bytes(f)[i]
      OBVIOUS
    <3>1. (n - 1) - m + i = i
      BY <2>1, <2>4, <2>6
    <3>2. taken[i].byte = [of |-> f, n |-> i]
      BY <2>4, <3>1
    <3> QED BY <2>7, <3>2
  <2> QED BY <2>3, <2>6, <2>7, <2>8 DEF n
<1> QED BY <1>1, <1>2, <1>3, PTL DEF Spec
=============================================================================
