---------------------------- MODULE SharedProof ----------------------------
(***************************************************************************)
(* The copy routines' theorems, for frames of any length, cut into any     *)
(* pieces, at any alignment of either end.                                 *)
(***************************************************************************)
EXTENDS SharedMemory, FiniteSetTheorems, WellFoundedInduction, TLAPS

\* The theorems' assumption: a chain of mbufs has no empty one.
NoEmptyPiece == MinPiece = 1
-----------------------------------------------------------------------------
\* Any set of natural numbers that is not empty has a least member: the initial
\* segments up to its members have one under inclusion.
LEMMA LeastNatural ==
  ASSUME NEW S \in SUBSET Nat, S # {}
  PROVE  \E m \in S : \A k \in S : m <= k
<1> DEFINE T == {0..n : n \in S}
           R == StrictSubsetOrdering(Nat)
<1>1. T \subseteq FiniteSubsetsOf(Nat)
  <2> SUFFICES ASSUME NEW n \in S PROVE 0..n \in FiniteSubsetsOf(Nat)
    OBVIOUS
  <2>1. IsFiniteSet(0..n) BY FS_Interval
  <2> QED BY <2>1 DEF FiniteSubsetsOf
<1>2. T # {}
  OBVIOUS
<1>3. IsWellFoundedOn(R, FiniteSubsetsOf(Nat))
  BY FS_StrictSubsetOrderingWellFounded
<1>4. PICK x \in T : \A y \in T : ~(<<y, x>> \in R)
  <2> HIDE DEF T, R
  <2> QED BY <1>1, <1>2, <1>3, WFMin
<1>5. PICK m \in S : x = 0..m
  OBVIOUS
<1>6. ASSUME NEW k \in S, k < m PROVE FALSE
  <2>1. m \in 0..m /\ m \notin 0..k BY <1>6
  <2>2. 0..k \subseteq 0..m BY <1>6
  <2>3. 0..k \in SUBSET Nat /\ 0..m \in SUBSET Nat OBVIOUS
  <2>4. <<0..k, 0..m>> \in R
    BY <2>1, <2>2, <2>3 DEF StrictSubsetOrdering
  <2> QED BY <1>4, <1>5, <2>4
<1> QED BY <1>6

\* Induction: a set with zero and the successor of each of its members is Nat.
LEMMA Induction ==
  ASSUME NEW S \in SUBSET Nat, 0 \in S, \A n \in S : n + 1 \in S
  PROVE  S = Nat
<1> SUFFICES ASSUME Nat \ S # {} PROVE FALSE
  OBVIOUS
<1>1. PICK m \in Nat \ S : \A k \in Nat \ S : m <= k
  BY LeastNatural
<1>2. m - 1 \in Nat /\ ~(m <= m - 1)
  OBVIOUS
<1> QED BY <1>1, <1>2

-----------------------------------------------------------------------------
\* Memories of bytes, and n bytes of src from s laid over m from d.

Octets == 0..255
IsMemory(m) == \A a \in DOMAIN m : m[a] \in Octets
Over(m, d, src, s, n) ==
  [x \in DOMAIN m |-> IF x - d \in 0..(n - 1) THEN Byte(src, s + (x - d)) ELSE m[x]]

\* m is a function of natural numbers.
OnNat(m) == m = [x \in DOMAIN m |-> m[x]] /\ DOMAIN m \subseteq Nat

LEMMA ByteIs ==
  ASSUME NEW m, IsMemory(m), NEW a
  PROVE  Byte(m, a) \in Octets
BY DEF Byte, IsMemory, Octets

LEMMA OverNone ==
  ASSUME NEW m, OnNat(m), NEW d \in Nat, NEW src, NEW s
  PROVE  Over(m, d, src, s, 0) = m
<1>1. \A x \in DOMAIN m : x - d \notin 0..(0 - 1)
  BY DEF OnNat
<1>2. Over(m, d, src, s, 0) = [x \in DOMAIN m |-> m[x]]
  BY <1>1 DEF Over
<1> QED BY <1>2 DEF OnNat

LEMMA OverOnNat ==
  ASSUME NEW m, OnNat(m), NEW d, NEW src, NEW s, NEW n
  PROVE  OnNat(Over(m, d, src, s, n)) /\ DOMAIN Over(m, d, src, s, n) = DOMAIN m
BY DEF OnNat, Over

\* One byte more.
LEMMA OverNext ==
  ASSUME NEW m, OnNat(m), NEW d \in Nat, NEW src, NEW s \in Nat, NEW n \in Nat
  PROVE  Put(Over(m, d, src, s, n), d + n, Byte(src, s + n)) = Over(m, d, src, s, n + 1)
<1> DEFINE o == Over(m, d, src, s, n)
           p == Put(o, d + n, Byte(src, s + n))
           q == Over(m, d, src, s, n + 1)
<1>1. DOMAIN o = DOMAIN m /\ DOMAIN q = DOMAIN m /\ DOMAIN p = DOMAIN m
  BY DEF Over, Put
<1>2. p = [x \in DOMAIN m |-> p[x]] /\ q = [x \in DOMAIN m |-> q[x]]
  BY <1>1 DEF Over, Put
<1>3. ASSUME NEW x \in DOMAIN m PROVE p[x] = q[x]
  <2>1. x \in Nat
    BY DEF OnNat
  <2>2. p[x] = IF x = d + n THEN Byte(src, s + n) ELSE o[x]
    BY <1>1 DEF Over, Put
  <2>3. CASE x = d + n
    <3>1. x - d = n /\ x - d \in 0..(n + 1 - 1)
      BY <2>1, <2>3
    <3>2. q[x] = Byte(src, s + n)
      BY <3>1 DEF Over
    <3> QED BY <2>2, <2>3, <3>2
  <2>4. CASE x # d + n
    <3>1. x - d \in 0..(n + 1 - 1) <=> x - d \in 0..(n - 1)
      BY <2>1, <2>4
    <3> QED BY <2>2, <2>4, <3>1 DEF Over
  <2> QED BY <2>3, <2>4
<1> HIDE DEF p, q
<1>4. p = q
  BY <1>2, <1>3
<1> QED BY <1>4 DEF p, q

\* And many.
LEMMA OverOver ==
  ASSUME NEW m, OnNat(m), NEW d \in Nat, NEW src, NEW s \in Nat, NEW j \in Nat, NEW k \in Nat
  PROVE  Over(Over(m, d, src, s, j), d + j, src, s + j, k) = Over(m, d, src, s, j + k)
<1> DEFINE o == Over(m, d, src, s, j)
           p == Over(o, d + j, src, s + j, k)
           q == Over(m, d, src, s, j + k)
<1>1. DOMAIN o = DOMAIN m /\ DOMAIN q = DOMAIN m /\ DOMAIN p = DOMAIN m
  BY DEF Over
<1>2. p = [x \in DOMAIN m |-> p[x]] /\ q = [x \in DOMAIN m |-> q[x]]
  BY <1>1 DEF Over
<1>3. ASSUME NEW x \in DOMAIN m PROVE p[x] = q[x]
  <2>1. x \in Nat
    BY DEF OnNat
  <2>2. p[x] = IF x - (d + j) \in 0..(k - 1) THEN Byte(src, s + j + (x - (d + j))) ELSE o[x]
    BY <1>1 DEF Over
  <2>3. q[x] = IF x - d \in 0..(j + k - 1) THEN Byte(src, s + (x - d)) ELSE m[x]
    BY DEF Over
  <2>4. o[x] = IF x - d \in 0..(j - 1) THEN Byte(src, s + (x - d)) ELSE m[x]
    BY DEF Over
  <2>5. s + j + (x - (d + j)) = s + (x - d)
    BY <2>1
  <2>6. x - d \in 0..(j + k - 1) <=> x - (d + j) \in 0..(k - 1) \/ x - d \in 0..(j - 1)
    BY <2>1
  <2> HIDE DEF p, q, o
  <2> QED BY <2>2, <2>3, <2>4, <2>5, <2>6
<1> HIDE DEF p, q
<1>4. p = q
  BY <1>2, <1>3
<1> QED BY <1>4 DEF p, q
-----------------------------------------------------------------------------
\* The loops.  IsLoop says of a function that it is the loop's, turn by turn:
\* g is what a turn makes of memory.

\* Two bytes of src, one after the other.
TwoBytes(m, d, src, s, i) ==
  Put(Put(m, d + 2 * i - 2, Byte(src, s + 2 * i - 2)), d + 2 * i - 1, Byte(src, s + 2 * i - 1))

IsWords(f, dst, d, src, s, n) ==
  f = [i \in 0..n |-> IF i = 0 THEN dst ELSE TwoBytes(f[i - 1], d, src, s, i)]

IsStores(f, dst, a, w, n) ==
  f = [i \in 0..n |-> IF i = 0 THEN dst ELSE StoreWord(f[i - 1], a + 2 * i - 2, w[i])]

LEMMA OverTwo ==
  ASSUME NEW m, OnNat(m), NEW d \in Nat, NEW src, NEW s \in Nat, NEW i \in Nat \ {0}
  PROVE  TwoBytes(Over(m, d, src, s, 2 * (i - 1)), d, src, s, i) = Over(m, d, src, s, 2 * i)
<1> DEFINE j == 2 * (i - 1)
           k == j + 1
<1>1. /\ j \in Nat /\ k \in Nat /\ j + 1 = k
      /\ d + 2 * i - 2 = d + j /\ s + 2 * i - 2 = s + j
      /\ d + 2 * i - 1 = d + k /\ s + 2 * i - 1 = s + k /\ k + 1 = 2 * i
  OBVIOUS
<1> HIDE DEF j, k
<1>2. Put(Over(m, d, src, s, j), d + j, Byte(src, s + j)) = Over(m, d, src, s, k)
  BY <1>1, OverNext
<1>3. Put(Over(m, d, src, s, k), d + k, Byte(src, s + k)) = Over(m, d, src, s, k + 1)
  BY <1>1, OverNext
<1>4. TwoBytes(Over(m, d, src, s, j), d, src, s, i) = Over(m, d, src, s, 2 * i)
  BY <1>1, <1>2, <1>3 DEF TwoBytes
<1> QED BY <1>4 DEF j

\* The loop of sixteen-bit accesses, as far as it goes.
LEMMA WordsGo ==
  ASSUME NEW m, OnNat(m), NEW d \in Nat, NEW src, NEW s \in Nat, NEW n \in Nat
  PROVE  IsWords([i \in 0..n |-> Over(m, d, src, s, 2 * i)], m, d, src, s, n)
<1> DEFINE f == [i \in 0..n |-> Over(m, d, src, s, 2 * i)]
<1>1. ASSUME NEW i \in 0..n
      PROVE  f[i] = IF i = 0 THEN m ELSE TwoBytes(f[i - 1], d, src, s, i)
  <2>1. CASE i = 0
    BY <2>1, OverNone
  <2>2. CASE i # 0
    <3>1. i \in Nat \ {0} /\ i - 1 \in 0..n
      BY <2>2
    <3> QED BY <2>2, <3>1, OverTwo
  <2> QED BY <2>1, <2>2
<1>2. f = [i \in 0..n |-> f[i]]
  OBVIOUS
<1> HIDE DEF f
<1>3. IsWords(f, m, d, src, s, n)
  BY <1>1, <1>2, Zenon DEF IsWords
<1> QED BY <1>3 DEF f

\* Two functions that are the same loop's are the same.
LEMMA WordsOne ==
  ASSUME NEW m, NEW d, NEW src, NEW s, NEW n \in Nat,
         NEW f, IsWords(f, m, d, src, s, n), NEW g, IsWords(g, m, d, src, s, n)
  PROVE  f[n] = g[n]
<1> DEFINE Same == {k \in Nat : k <= n => f[k] = g[k]}
<1>0. /\ \A i \in 0..n : f[i] = IF i = 0 THEN m ELSE TwoBytes(f[i - 1], d, src, s, i)
      /\ \A i \in 0..n : g[i] = IF i = 0 THEN m ELSE TwoBytes(g[i - 1], d, src, s, i)
  <2>1. f = [i \in 0..n |-> IF i = 0 THEN m ELSE TwoBytes(f[i - 1], d, src, s, i)]
    BY DEF IsWords
  <2>2. g = [i \in 0..n |-> IF i = 0 THEN m ELSE TwoBytes(g[i - 1], d, src, s, i)]
    BY DEF IsWords
  <2> QED BY <2>1, <2>2, Zenon
<1>1. 0 \in Same
  BY <1>0
<1>2. ASSUME NEW k \in Same PROVE k + 1 \in Same
  <2>1. SUFFICES ASSUME k + 1 <= n PROVE f[k + 1] = g[k + 1]
    OBVIOUS
  <2>2. k + 1 \in 0..n /\ k + 1 # 0 /\ (k + 1) - 1 = k /\ f[k] = g[k]
    BY <2>1
  <2> QED BY <1>0, <2>2
<1>3. Same = Nat
  BY <1>1, <1>2, Induction
<1> QED BY <1>3

LEMMA WordsIs ==
  ASSUME NEW m, OnNat(m), NEW d \in Nat, NEW src, NEW s \in Nat, NEW n \in Nat
  PROVE  Words(m, d, src, s, n) = Over(m, d, src, s, 2 * n)
<1> DEFINE g == [i \in 0..n |-> Over(m, d, src, s, 2 * i)]
           f == CHOOSE f : IsWords(f, m, d, src, s, n)
<1>1. IsWords(g, m, d, src, s, n)
  BY WordsGo
<1>2. IsWords(f, m, d, src, s, n)
  BY <1>1, Zenon
<1>3. Words(m, d, src, s, n) = f[n]
  BY DEF Words, IsWords, TwoBytes
<1> HIDE DEF f
<1>4. f[n] = g[n]
  BY <1>1, <1>2, WordsOne
<1> QED BY <1>3, <1>4
-----------------------------------------------------------------------------
\* A 68000 word stored is its two bytes.

LEMMA Halves ==
  ASSUME NEW b \in Octets, NEW c \in Octets
  PROVE  (256 * b + c) % 256 = c /\ (256 * b + c) \div 256 = b
BY DEF Octets

LEMMA PutSwaps ==
  ASSUME NEW m, OnNat(m), NEW x, NEW y, x # y, NEW b, NEW c
  PROVE  Put(Put(m, x, b), y, c) = Put(Put(m, y, c), x, b)
<1> DEFINE p == Put(Put(m, x, b), y, c)
           q == Put(Put(m, y, c), x, b)
<1>1. DOMAIN p = DOMAIN m /\ DOMAIN q = DOMAIN m
  BY DEF Put
<1>2. p = [z \in DOMAIN m |-> p[z]] /\ q = [z \in DOMAIN m |-> q[z]]
  BY <1>1 DEF Put, OnNat
<1>3. \A z \in DOMAIN m : p[z] = q[z]
  BY DEF Put
<1> HIDE DEF p, q
<1>4. p = q
  BY <1>2, <1>3
<1> QED BY <1>4 DEF p, q

\* Word i of those that lie at s in src.
WordAt(src, s, i) == 256 * Byte(src, s + 2 * i - 2) + Byte(src, s + 2 * i - 1)

LEMMA StoreTwo ==
  ASSUME NEW m, OnNat(m), NEW d \in Nat, NEW src, IsMemory(src), NEW s \in Nat,
         NEW i \in Nat \ {0}
  PROVE  StoreWord(m, d + 2 * i - 2, WordAt(src, s, i)) = TwoBytes(m, d, src, s, i)
<1> DEFINE a == d + 2 * i - 2
           b == Byte(src, s + 2 * i - 2)
           c == Byte(src, s + 2 * i - 1)
<1>1. b \in Octets /\ c \in Octets
  BY ByteIs
<1>2. a + 1 = d + 2 * i - 1 /\ a # a + 1
  OBVIOUS
<1> HIDE DEF a, b, c
<1>3. StoreWord(m, a, 256 * b + c) = Put(Put(m, a + 1, c), a, b)
  BY <1>1, Halves DEF StoreWord
<1>4. Put(Put(m, a + 1, c), a, b) = Put(Put(m, a, b), a + 1, c)
  BY <1>2, PutSwaps
<1> QED BY <1>2, <1>3, <1>4 DEF a, b, c, WordAt, TwoBytes

LEMMA StoresGo ==
  ASSUME NEW m, OnNat(m), NEW d \in Nat, NEW src, IsMemory(src), NEW s \in Nat,
         NEW n \in Nat, NEW w, \A i \in 1..n : w[i] = WordAt(src, s, i)
  PROVE  IsStores([i \in 0..n |-> Over(m, d, src, s, 2 * i)], m, d, w, n)
<1> DEFINE f == [i \in 0..n |-> Over(m, d, src, s, 2 * i)]
<1>1. ASSUME NEW i \in 0..n
      PROVE  f[i] = IF i = 0 THEN m ELSE StoreWord(f[i - 1], d + 2 * i - 2, w[i])
  <2>1. CASE i = 0
    BY <2>1, OverNone
  <2>2. CASE i # 0
    <3>1. i \in Nat \ {0} /\ i - 1 \in 0..n /\ i \in 1..n
      BY <2>2
    <3>2. OnNat(f[i - 1]) /\ f[i - 1] = Over(m, d, src, s, 2 * (i - 1))
      BY <3>1, OverOnNat
    <3> HIDE DEF f
    <3>3. StoreWord(f[i - 1], d + 2 * i - 2, w[i]) = TwoBytes(f[i - 1], d, src, s, i)
      BY <3>1, <3>2, StoreTwo
    <3>4. TwoBytes(f[i - 1], d, src, s, i) = Over(m, d, src, s, 2 * i)
      BY <3>1, <3>2, OverTwo
    <3> QED BY <2>2, <3>3, <3>4 DEF f
  <2> QED BY <2>1, <2>2
<1>2. f = [i \in 0..n |-> f[i]]
  OBVIOUS
<1> HIDE DEF f
<1>3. IsStores(f, m, d, w, n)
  BY <1>1, <1>2, Zenon DEF IsStores
<1> QED BY <1>3 DEF f

LEMMA StoresOne ==
  ASSUME NEW m, NEW d, NEW w, NEW n \in Nat,
         NEW f, IsStores(f, m, d, w, n), NEW g, IsStores(g, m, d, w, n)
  PROVE  f[n] = g[n]
<1> DEFINE Same == {k \in Nat : k <= n => f[k] = g[k]}
<1>0. /\ \A i \in 0..n : f[i] = IF i = 0 THEN m ELSE StoreWord(f[i - 1], d + 2 * i - 2, w[i])
      /\ \A i \in 0..n : g[i] = IF i = 0 THEN m ELSE StoreWord(g[i - 1], d + 2 * i - 2, w[i])
  <2>1. f = [i \in 0..n |-> IF i = 0 THEN m ELSE StoreWord(f[i - 1], d + 2 * i - 2, w[i])]
    BY DEF IsStores
  <2>2. g = [i \in 0..n |-> IF i = 0 THEN m ELSE StoreWord(g[i - 1], d + 2 * i - 2, w[i])]
    BY DEF IsStores
  <2> QED BY <2>1, <2>2, Zenon
<1>1. 0 \in Same
  BY <1>0
<1>2. ASSUME NEW k \in Same PROVE k + 1 \in Same
  <2>1. SUFFICES ASSUME k + 1 <= n PROVE f[k + 1] = g[k + 1]
    OBVIOUS
  <2>2. k + 1 \in 0..n /\ k + 1 # 0 /\ (k + 1) - 1 = k /\ f[k] = g[k]
    BY <2>1
  <2> QED BY <1>0, <2>2
<1>3. Same = Nat
  BY <1>1, <1>2, Induction
<1> QED BY <1>3

LEMMA StoresIs ==
  ASSUME NEW m, OnNat(m), NEW d \in Nat, NEW src, IsMemory(src), NEW s \in Nat,
         NEW n \in Nat, NEW w, \A i \in 1..n : w[i] = WordAt(src, s, i)
  PROVE  StoreWords(m, d, w, n) = Over(m, d, src, s, 2 * n)
<1> DEFINE g == [i \in 0..n |-> Over(m, d, src, s, 2 * i)]
           f == CHOOSE f : IsStores(f, m, d, w, n)
<1>1. IsStores(g, m, d, w, n)
  BY StoresGo
<1>2. IsStores(f, m, d, w, n)
  BY <1>1, Zenon
<1>3. StoreWords(m, d, w, n) = f[n]
  BY DEF StoreWords, IsStores
<1> HIDE DEF f
<1>4. f[n] = g[n]
  BY <1>1, <1>2, StoresOne
<1> QED BY <1>3, <1>4
-----------------------------------------------------------------------------
\* The routines.

\* A first byte or none, words, a last byte or none.
Pieced(m, d, src, s, odd, n) ==
  LET middle == Over(Over(m, d, src, s, odd), d + odd, src, s + odd, 2 * (n \div 2))
  IN  IF n % 2 = 1
      THEN Put(middle, d + odd + n - 1, Byte(src, s + odd + n - 1)) ELSE middle

LEMMA PiecedIs ==
  ASSUME NEW m, OnNat(m), NEW d \in Nat, NEW src, NEW s \in Nat,
         NEW odd \in 0..1, NEW n \in Nat
  PROVE  Pieced(m, d, src, s, odd, n) = Over(m, d, src, s, odd + n)
<1> DEFINE h == 2 * (n \div 2)
           k == odd + h
<1>1. /\ h \in Nat /\ k \in Nat /\ odd + h = k /\ n % 2 \in {0, 1}
      /\ n % 2 = 1 => k + 1 = odd + n /\ d + odd + n - 1 = d + k /\ s + odd + n - 1 = s + k
      /\ n % 2 = 0 => k = odd + n
  OBVIOUS
<1> HIDE DEF h, k
<1>2. Over(Over(m, d, src, s, odd), d + odd, src, s + odd, h) = Over(m, d, src, s, k)
  BY <1>1, OverOver
<1>3. Put(Over(m, d, src, s, k), d + k, Byte(src, s + k)) = Over(m, d, src, s, k + 1)
  BY <1>1, OverNext
<1>4. Pieced(m, d, src, s, odd, n)
        = IF n % 2 = 1 THEN Put(Over(m, d, src, s, k), d + odd + n - 1,
                                Byte(src, s + odd + n - 1))
          ELSE Over(m, d, src, s, k)
  BY <1>2 DEF Pieced, h
<1> QED BY <1>1, <1>3, <1>4

\* The first byte.
LEMMA FirstIs ==
  ASSUME NEW m, OnNat(m), NEW d \in Nat, NEW src, NEW s \in Nat, NEW odd \in 0..1
  PROVE  (IF odd = 1 THEN Put(m, d, Byte(src, s)) ELSE m) = Over(m, d, src, s, odd)
<1>1. Over(m, d, src, s, 0) = m
  BY OverNone
<1>2. Put(Over(m, d, src, s, 0), d + 0, Byte(src, s + 0)) = Over(m, d, src, s, 0 + 1)
  BY OverNext
<1>3. d + 0 = d /\ s + 0 = s /\ 0 + 1 = 1
  OBVIOUS
<1>4. Put(m, d, Byte(src, s)) = Over(m, d, src, s, 1)
  BY <1>1, <1>2, <1>3
<1> QED BY <1>1, <1>4

\* The ISA cards' copyin and copyout, at either alignment, of anything but
\* nothing: the bytes asked for and no other (the loops over sixteen-bit
\* accesses and the bytes before and after).
LEMMA DribbledIs ==
  ASSUME NEW m, OnNat(m), NEW d \in Nat, NEW src, NEW s \in Nat,
         NEW size \in 1..(SizeMod - 1), NEW at \in Nat
  PROVE  Dribbled(m, d, src, s, size, at) = Over(m, d, src, s, size)
<1> DEFINE odd == at % 2
           n == size - odd
<1>1. odd \in 0..1 /\ n \in Nat /\ odd + n = size
  OBVIOUS
<1>2. (size - odd) % SizeMod = n
  BY SharedAssumption
<1>3. n \div 2 \in Nat /\ d + odd \in Nat /\ s + odd \in Nat
  BY <1>1
<1> HIDE DEF odd
<1>4. (IF odd = 1 THEN Put(m, d, Byte(src, s)) ELSE m) = Over(m, d, src, s, odd)
  BY <1>1, FirstIs
<1> HIDE DEF n
<1>5. Words(Over(m, d, src, s, odd), d + odd, src, s + odd, n \div 2)
        = Over(Over(m, d, src, s, odd), d + odd, src, s + odd, 2 * (n \div 2))
  <2> DEFINE h == n \div 2
             to == d + odd
             from == s + odd
  <2>1. h \in Nat /\ to \in Nat /\ from \in Nat
    BY <1>3
  <2>2. OnNat(Over(m, d, src, s, odd))
    BY OverOnNat
  <2> HIDE DEF h, to, from
  <2>3. Words(Over(m, d, src, s, odd), to, src, from, h)
          = Over(Over(m, d, src, s, odd), to, src, from, 2 * h)
    BY <2>1, <2>2, WordsIs
  <2> QED BY <2>3 DEF h, to, from
<1>6. Dribbled(m, d, src, s, size, at) = Pieced(m, d, src, s, odd, n)
  BY <1>2, <1>4, <1>5 DEF Dribbled, Pieced, odd
<1>7. Pieced(m, d, src, s, odd, n) = Over(m, d, src, s, odd + n)
  BY <1>1, PiecedIs
<1> QED BY <1>1, <1>6, <1>7

\* wmemcpy, at any alignment of source and destination: the same, and nothing
\* for nothing.
LEMMA WmemcpyIs ==
  ASSUME NEW m, OnNat(m), NEW d \in Nat, NEW src, IsMemory(src), NEW s \in Nat, NEW l \in Nat
  PROVE  wmemcpy(m, d, src, s, l) = Over(m, d, src, s, l)
<1>1. CASE l = 0
  BY <1>1, OverNone DEF wmemcpy
<1>2. CASE l # 0
  <2> DEFINE odd == s % 2
             n == l - odd
             word == [i \in 1..(n \div 2) |-> 256 * Byte(src, s + odd + 2 * i - 2)
                                              + Byte(src, s + odd + 2 * i - 1)]
  <2>1. odd \in 0..1 /\ n \in Nat /\ odd + n = l
    BY <1>2
  <2>2. n \div 2 \in Nat /\ d + odd \in Nat /\ s + odd \in Nat
    BY <2>1
  <2> HIDE DEF odd
  <2>3. (IF odd = 1 THEN Put(m, d, Byte(src, s)) ELSE m) = Over(m, d, src, s, odd)
    BY <2>1, FirstIs
  <2> HIDE DEF n
  <2>4. \A i \in 1..(n \div 2) : word[i] = WordAt(src, s + odd, i)
    BY DEF WordAt
  <2> HIDE DEF word
  <2>5. StoreWords(Over(m, d, src, s, odd), d + odd, word, n \div 2)
          = Over(Over(m, d, src, s, odd), d + odd, src, s + odd, 2 * (n \div 2))
    <3>1. OnNat(Over(m, d, src, s, odd))
      BY OverOnNat
    <3> DEFINE h == n \div 2
               to == d + odd
               from == s + odd
    <3>2. h \in Nat /\ to \in Nat /\ from \in Nat
      BY <2>2
    <3>3. \A i \in 1..h : word[i] = WordAt(src, from, i)
      BY <2>4
    <3> HIDE DEF h, to, from
    <3>4. StoreWords(Over(m, d, src, s, odd), to, word, h)
            = Over(Over(m, d, src, s, odd), to, src, from, 2 * h)
      BY <3>1, <3>2, <3>3, StoresIs
    <3> QED BY <3>4 DEF h, to, from
  <2>6. wmemcpy(m, d, src, s, l) = Pieced(m, d, src, s, odd, n)
    BY <1>2, <2>3, <2>5 DEF wmemcpy, Pieced, odd, n, word
  <2>7. Pieced(m, d, src, s, odd, n) = Over(m, d, src, s, odd + n)
    BY <2>1, PiecedIs
  <2> QED BY <2>1, <2>6, <2>7
<1> QED BY <1>1, <1>2

\* A memory where nothing is, to clear from.
Nowhere == [a \in {} |-> 0]

LEMMA Nothing ==
  /\ IsMemory(Nowhere) /\ \A a : Byte(Nowhere, a) = 0
  /\ \A i : WordAt(Nowhere, 0, i) = 0
BY DEF Nowhere, IsMemory, Byte, WordAt

\* wmemset with nothing: the bytes asked for, and no other.
LEMMA WmemsetIs ==
  ASSUME NEW m, OnNat(m), NEW d \in Nat, NEW l \in Nat
  PROVE  wmemset(m, d, 0, l) = Over(m, d, Nowhere, 0, l)
<1>1. CASE l = 0
  BY <1>1, OverNone DEF wmemset
<1>2. CASE l # 0
  <2> DEFINE front == d % 2
             back == IF d + front # d + l /\ (d + l) % 2 = 1 THEN 1 ELSE 0
             words == (l - front - back) \div 2
             first == IF front = 1 THEN Put(m, d, 0) ELSE m
             last == IF back = 1 THEN Put(first, d + l - 1, 0) ELSE first
             o == Over(last, d + front, Nowhere, 0, 2 * words)
             q == Over(m, d, Nowhere, 0, l)
  <2>1. front \in {0, 1} /\ back \in {0, 1}
    OBVIOUS
  <2>2. words \in Nat /\ front + 2 * words + back = l
    <3>1. CASE d % 2 = 0
      BY <1>2, <3>1
    <3>2. CASE d % 2 = 1
      BY <1>2, <3>2
    <3> QED BY <3>1, <3>2
  <2> HIDE DEF front, back, words
  <2>3. OnNat(first) /\ DOMAIN first = DOMAIN m /\ OnNat(last) /\ DOMAIN last = DOMAIN m
    BY DEF OnNat, Put
  <2>4. d + front \in Nat
    BY <2>1
  <2> HIDE DEF last
  <2>5. StoreWords(last, d + front, [i \in 1..words |-> 0], words) = o
    <3>1. \A i \in 1..words : [j \in 1..words |-> 0][i] = WordAt(Nowhere, 0, i)
      BY Nothing
    <3> QED BY <2>2, <2>3, <2>4, <3>1, Nothing, StoresIs
  <2>6. wmemset(m, d, 0, l) = StoreWords(last, d + front, [i \in 1..words |-> 0], words)
    <3>1. 0 % 256 = 0
      OBVIOUS
    <3> QED BY <1>2, <3>1 DEF wmemset, front, back, words, last
  <2>7. ASSUME NEW x \in DOMAIN m PROVE o[x] = q[x]
    <3>1. x \in Nat
      BY DEF OnNat
    <3>2. q[x] = IF x - d \in 0..(l - 1) THEN 0 ELSE m[x]
      BY Nothing DEF Over
    <3>3. o[x] = IF x - (d + front) \in 0..(2 * words - 1) THEN 0 ELSE last[x]
      BY <2>3, Nothing DEF Over
    <3>4. last[x] = IF back = 1 /\ x = d + l - 1 THEN 0
                    ELSE IF front = 1 /\ x = d THEN 0 ELSE m[x]
      BY DEF last, Put
    <3>5. x - d \in 0..(l - 1) <=> \/ x - (d + front) \in 0..(2 * words - 1)
                                   \/ back = 1 /\ x = d + l - 1
                                   \/ front = 1 /\ x = d
      BY <1>2, <2>1, <2>2, <3>1
    <3> QED BY <3>2, <3>3, <3>4, <3>5
  <2>8. o = [x \in DOMAIN m |-> o[x]] /\ q = [x \in DOMAIN m |-> q[x]]
    BY <2>3 DEF Over
  <2> HIDE DEF o, q
  <2>9. o = q
    BY <2>7, <2>8
  <2> QED BY <2>5, <2>6, <2>9 DEF q
<1> QED BY <1>1, <1>2
-----------------------------------------------------------------------------
\* The inductive invariant: CopyExact, and how far the frame has come.

\* A copy back begins when the copy out is over.
Progress ==
  /\ glue \in [how : {"isa", "vme", "clear"}, at : {0, 1}, host : {0, 1}]
  /\ sent \in 0..FrameLen /\ taken \in 0..FrameLen /\ (taken > 0 => sent = FrameLen)

CopyIInv == struct = "frame" => Progress /\ CopyExact

\* A memory of that size that holds n bytes of the frame from a.
Holding(a, n) == [x \in 0..(Space - 1) |-> IF x - a \in 0..(n - 1) THEN Octet(x - a)
                                           ELSE Unwritten(x)]

LEMMA HoldingIs ==
  CopyExact <=> (struct = "frame" => /\ board = Holding(glue.at, sent)
                                     /\ host = Holding(glue.host, taken))
BY DEF CopyExact, Holding

LEMMA MemoryIs ==
  ASSUME NEW a \in Nat, NEW n \in Nat
  PROVE  OnNat(Holding(a, n)) /\ IsMemory(Holding(a, n)) /\ IsMemory(Mbufs)
<1>1. \A x \in 0..(Space - 1) : Unwritten(x) \in Octets
  BY SharedAssumption DEF Unwritten, Octets
<1>2. \A i \in Nat : Octet(i) \in Octets
  BY DEF Octet, Octets
<1>3. \A x \in 0..(Space - 1) : x - a \in 0..(n - 1) => x - a \in Nat
  BY SharedAssumption
<1>4. IsMemory(Holding(a, n))
  BY <1>1, <1>2, <1>3 DEF IsMemory, Holding
<1>5. \A x \in 0..(Space - 1) : x - glue.host \in 0..(FrameLen - 1) => x - glue.host \in Nat
  BY SharedAssumption
<1>6. IsMemory(Mbufs)
  <2>1. 7 \in Octets
    BY DEF Octets
  <2> QED BY <1>2, <1>5, <2>1 DEF IsMemory, Mbufs
<1>7. OnNat(Holding(a, n))
  BY SharedAssumption DEF OnNat, Holding
<1> QED BY <1>4, <1>6, <1>7

\* The provers match a sum better by its name.
IsSum(x, y, z) == x = y + z

\* The next k bytes laid over a memory that holds n, from one that has them.
LEMMA HoldingMore ==
  ASSUME NEW a \in 0..1, NEW n \in Nat, NEW k \in Nat, NEW d, IsSum(d, a, n),
         NEW t, IsSum(t, n, k), NEW src, NEW s \in Nat,
         \A i \in 0..(k - 1) : Byte(src, s + i) = Octet(n + i)
  PROVE  Over(Holding(a, n), d, src, s, k) = Holding(a, t)
<1> DEFINE o == Over(Holding(a, n), d, src, s, k)
           q == Holding(a, t)
           D == 0..(Space - 1)
<1>0. d = a + n /\ t = n + k
  BY DEF IsSum
<1>1. o = [x \in D |-> o[x]] /\ q = [x \in D |-> q[x]]
  BY DEF Over, Holding
<1>2. ASSUME NEW x \in D PROVE o[x] = q[x]
  <2>1. x \in Nat
    BY SharedAssumption
  <2>2. o[x] = IF x - d \in 0..(k - 1) THEN Byte(src, s + (x - d)) ELSE Holding(a, n)[x]
    BY DEF Over, Holding
  <2>3. Holding(a, n)[x] = IF x - a \in 0..(n - 1) THEN Octet(x - a) ELSE Unwritten(x)
    BY DEF Holding
  <2>4. q[x] = IF x - a \in 0..(t - 1) THEN Octet(x - a) ELSE Unwritten(x)
    BY DEF Holding
  <2>5. x - a \in 0..(t - 1) <=> x - d \in 0..(k - 1) \/ x - a \in 0..(n - 1)
    BY <1>0, <2>1
  <2>6. n + (x - d) = x - a
    BY <1>0, <2>1
  <2>7. x - d \in 0..(k - 1) => Byte(src, s + (x - d)) = Octet(x - a)
    BY <2>6
  <2> HIDE DEF o, q
  <2> QED BY <2>2, <2>3, <2>4, <2>5, <2>7
<1> HIDE DEF o, q
<1>3. o = q
  BY <1>1, <1>2
<1> QED BY <1>3 DEF o, q

LEMMA OverNowhere ==
  ASSUME NEW m, NEW d, NEW s, NEW n
  PROVE  Over(m, d, Nowhere, 0, n) = Over(m, d, Nowhere, s, n)
BY Nothing DEF Over

LEMMA CopyInit ==
  ASSUME Init PROVE CopyIInv
<1>1. SUFFICES ASSUME struct = "frame" PROVE Progress /\ CopyExact
  BY DEF CopyIInv
<1>2. glue \in [how : {"isa", "vme", "clear"}, at : {0, 1}, host : {0, 1}]
      /\ board = Clean /\ sent = 0 /\ host = Clean /\ taken = 0
  BY DEF Init
<1>3. Progress
  BY <1>2, SharedAssumption DEF Progress
<1>4. \A a \in {0, 1} : Holding(a, 0) = Clean
  <2>1. ASSUME NEW a \in {0, 1}, NEW x \in 0..(Space - 1) PROVE x - a \notin 0..(0 - 1)
    OBVIOUS
  <2> QED BY <2>1 DEF Holding, Clean
<1> QED BY <1>2, <1>3, <1>4, HoldingIs

LEMMA CopyOutStep ==
  ASSUME NoEmptyPiece, CopyIInv, CopyOut PROVE CopyIInv'
<1> DEFINE at == glue.at
           from == glue.host
           d == at + sent
           s == from + sent
<1>1. /\ struct = "frame" /\ glue' = glue /\ struct' = struct /\ host' = host
      /\ taken' = taken /\ taken = 0 /\ Progress
      /\ board = Holding(at, sent) /\ host = Holding(from, 0)
  BY HoldingIs DEF CopyOut, CopyIInv
<1>2. at \in 0..1 /\ from \in 0..1 /\ glue.how \in {"isa", "vme", "clear"}
  BY <1>1 DEF Progress
<1>3. PICK size \in 1..(FrameLen - sent) :
        /\ board' = CASE glue.how = "isa" -> copyout(board, d, Mbufs, s, size)
                      [] glue.how = "vme" -> wmemcpy(board, d, Mbufs, s, size)
                      [] glue.how = "clear" -> wmemset(board, d, 0, size)
        /\ sent' = sent + size
  BY DEF CopyOut, NoEmptyPiece
<1> DEFINE t == sent + size
<1>4. /\ size \in Nat /\ size \in 1..(SizeMod - 1) /\ t <= FrameLen /\ sent \in Nat /\ t \in Nat
      /\ d \in Nat /\ s \in Nat /\ at \in Nat /\ from \in Nat /\ FrameLen \in Nat
  BY <1>1, <1>2, SharedAssumption DEF Progress
<1>5. d = at + sent /\ s = from + sent /\ t = sent + size /\ sent' = t
      /\ IsSum(d, at, sent) /\ IsSum(t, sent, size)
  BY <1>3 DEF IsSum
<1> HIDE DEF d, s, t, at, from
<1>6. OnNat(board) /\ IsMemory(Mbufs)
  BY <1>1, <1>4, MemoryIs
<1>7. ASSUME NEW src, \A i \in 0..(size - 1) : Byte(src, s + i) = Octet(sent + i)
      PROVE  Over(board, d, src, s, size) = Holding(at, t)
  <2>1. /\ at \in 0..1 /\ sent \in Nat /\ size \in Nat /\ s \in Nat
        /\ IsSum(d, at, sent) /\ IsSum(t, sent, size)
    BY <1>2, <1>4, <1>5
  <2>2. Over(Holding(at, sent), d, src, s, size) = Holding(at, t)
    BY <2>1, <1>7, HoldingMore
  <2> QED BY <1>1, <2>2
<1>8. ASSUME glue.how \in {"isa", "vme"} PROVE board' = Holding(at, t)
  <2>1. board' = Over(board, d, Mbufs, s, size)
    <3>1. CASE glue.how = "isa"
      <4>1. board' = Dribbled(board, d, Mbufs, s, size, d)
        BY <1>3, <3>1 DEF copyout
      <4> QED BY <1>4, <1>6, <4>1, DribbledIs
    <3>2. CASE glue.how = "vme"
      <4>1. board' = wmemcpy(board, d, Mbufs, s, size)
        BY <1>3, <3>2
      <4> QED BY <1>4, <1>6, <4>1, WmemcpyIs
    <3> QED BY <1>8, <3>1, <3>2
  <2>2. ASSUME NEW i \in 0..(size - 1) PROVE Byte(Mbufs, s + i) = Octet(sent + i)
    <3> DEFINE x == s + i
               k == sent + i
    <3>1. x \in 0..(Space - 1) /\ x - from = k /\ k \in 0..(FrameLen - 1)
      BY <1>2, <1>4, <1>5, SharedAssumption
    <3> HIDE DEF x, k
    <3>2. Byte(Mbufs, x) = Octet(k)
      BY <3>1 DEF Byte, Mbufs, from
    <3> QED BY <3>2 DEF x, k
  <2> QED BY <1>7, <2>1, <2>2
<1>9. ASSUME glue.how = "clear" PROVE board' = Holding(at, t)
  <2>1. board' = wmemset(board, d, 0, size)
    BY <1>3, <1>9
  <2>2. board' = Over(board, d, Nowhere, 0, size)
    BY <1>4, <1>6, <2>1, WmemsetIs
  <2>3. board' = Over(board, d, Nowhere, s, size)
    BY <2>2, OverNowhere
  <2>4. \A i \in 0..(size - 1) : Byte(Nowhere, s + i) = Octet(sent + i)
    BY <1>9, Nothing DEF Octet
  <2> QED BY <1>7, <2>3, <2>4
<1>10. board' = Holding(at, t)
  BY <1>2, <1>8, <1>9
<1>11. Progress'
  BY <1>1, <1>4, <1>5 DEF Progress
<1>12. CopyExact'
  BY <1>1, <1>5, <1>10 DEF CopyExact, Holding, Octet, at, from
<1> QED BY <1>11, <1>12 DEF CopyIInv

LEMMA CopyInStep ==
  ASSUME CopyIInv, CopyIn PROVE CopyIInv'
<1> DEFINE at == glue.at
           to == glue.host
           d == to + taken
           s == at + taken
<1>1. /\ struct = "frame" /\ glue' = glue /\ struct' = struct /\ board' = board
      /\ sent' = sent /\ sent = FrameLen /\ Progress /\ glue.how \in {"isa", "vme"}
      /\ board = Holding(at, FrameLen) /\ host = Holding(to, taken)
  BY HoldingIs DEF CopyIn, CopyIInv, Progress
<1>2. at \in 0..1 /\ to \in 0..1
  BY <1>1 DEF Progress
<1>3. PICK size \in 1..(FrameLen - taken) :
        /\ host' = IF glue.how = "isa" THEN copyin(host, d, board, s, size)
                   ELSE wmemcpy(host, d, board, s, size)
        /\ taken' = taken + size
  BY DEF CopyIn
<1> DEFINE t == taken + size
<1>4. /\ size \in Nat /\ size \in 1..(SizeMod - 1) /\ t <= FrameLen /\ taken \in Nat /\ t \in Nat
      /\ d \in Nat /\ s \in Nat /\ at \in Nat /\ to \in Nat /\ FrameLen \in Nat
  BY <1>1, <1>2, SharedAssumption DEF Progress
<1>5. d = to + taken /\ s = at + taken /\ t = taken + size /\ taken' = t
      /\ IsSum(d, to, taken) /\ IsSum(t, taken, size)
  BY <1>3 DEF IsSum
<1> HIDE DEF d, s, t, at, to
<1>6. OnNat(host) /\ IsMemory(board)
  BY <1>1, <1>4, MemoryIs
<1>7. host' = Over(host, d, board, s, size)
  <2>1. CASE glue.how = "isa"
    <3>1. host' = Dribbled(host, d, board, s, size, s)
      BY <1>3, <2>1 DEF copyin
    <3> QED BY <1>4, <1>6, <3>1, DribbledIs
  <2>2. CASE glue.how = "vme"
    <3>1. host' = wmemcpy(host, d, board, s, size)
      BY <1>3, <2>2
    <3> QED BY <1>4, <1>6, <3>1, WmemcpyIs
  <2> QED BY <1>1, <2>1, <2>2
<1>8. ASSUME NEW i \in 0..(size - 1) PROVE Byte(board, s + i) = Octet(taken + i)
  <2> DEFINE x == s + i
             k == taken + i
  <2>1. x \in 0..(Space - 1) /\ x - at = k /\ k \in 0..(FrameLen - 1)
    BY <1>2, <1>4, <1>5, SharedAssumption
  <2> HIDE DEF x, k
  <2>2. Byte(board, x) = Octet(k)
    BY <1>1, <2>1 DEF Byte, Holding
  <2> QED BY <2>2 DEF x, k
<1>9. host' = Holding(to, t)
  <2>1. /\ to \in 0..1 /\ taken \in Nat /\ size \in Nat /\ s \in Nat
        /\ IsSum(d, to, taken) /\ IsSum(t, taken, size)
    BY <1>2, <1>4, <1>5
  <2>2. Over(Holding(to, taken), d, board, s, size) = Holding(to, t)
    BY <2>1, <1>8, HoldingMore
  <2> QED BY <1>1, <1>7, <2>2
<1>10. Progress'
  BY <1>1, <1>4, <1>5 DEF Progress
<1>11. CopyExact'
  BY <1>1, <1>5, <1>9 DEF CopyExact, Holding, Octet, at, to
<1> QED BY <1>10, <1>11 DEF CopyIInv

\* The inductive invariant of the copying.
THEOREM CopyInductive == ASSUME NoEmptyPiece PROVE Spec => []CopyIInv
<1>1. ASSUME CopyIInv, [Next]_vars PROVE CopyIInv'
  <2>1. CASE Write \/ Configure
    BY <1>1, <2>1 DEF Write, Configure, CopyIInv
  <2>2. CASE UNCHANGED vars
    BY <1>1, <2>2 DEF vars, CopyIInv, Progress, CopyExact, Octet
  <2> QED BY <1>1, <2>1, <2>2, CopyOutStep, CopyInStep DEF Next
<1> QED BY <1>1, CopyInit, PTL DEF Spec

\* A frame of any length, cut into any pieces that are not empty, arrives whole
\* and in its place on the board and again in the host, at any alignment of
\* either, with no byte beside it touched (ef_copyout, ef_copyin, ai_copyout,
\* ai_copyin, wmemcpy, wmemset).
THEOREM CopiesExact == ASSUME NoEmptyPiece PROVE Spec => []CopyExact
<1>1. CopyIInv => CopyExact
  BY DEF CopyIInv, CopyExact
<1> QED BY <1>1, CopyInductive, PTL
=============================================================================
