---------------------------- MODULE ZenPkeProofs ----------------------------
(***************************************************************************)
(* Proofs about the encryption under the ZEN KEM.  FastInversion (pke.c)   *)
(* is Newton's iteration on polynomials over {0,1}: its levels need the    *)
(* laws of products modulo x^n + 1 for every n, which are proved here from *)
(* counting.  SimpleDecode is then a calculation with the same laws.       *)
(* Then what the reductions before it leave of the product, and at the end *)
(* the measure of key generation.                                          *)
(***************************************************************************)
EXTENDS ZenPke, FiniteSetTheorems, WellFoundedInduction, TLAPS

-----------------------------------------------------------------------------
(* A set of naturals has a least element: the least counterexample takes    *)
(* the place of induction below.                                            *)
LEMMA Smallest ==
  ASSUME NEW T \in SUBSET Nat, T # {}
  PROVE  \E x \in T : \A y \in T : x <= y
<1> DEFINE R == OpToRel(<, Nat)
<1>1. IsWellFoundedOn(R, Nat)
  BY NatLessThanWellFounded
<1>2. \A x, y \in Nat : x < y => <<x, y>> \in R
  BY DEF OpToRel
<1> HIDE DEF R
<1>3. T \subseteq Nat /\ T # {}
  OBVIOUS
<1>4. PICK x \in T : \A y \in T : ~(<<y, x>> \in R)
  BY <1>1, <1>3, WFMin, Zenon
<1>5. ASSUME NEW y \in T PROVE x <= y
  <2>1. x \in Nat /\ y \in Nat /\ ~(<<y, x>> \in R)
    BY <1>3, <1>4
  <2>2. ~(y < x)
    BY <1>2, <2>1, Zenon
  <2> QED BY <2>1, <2>2
<1> QED BY <1>4, <1>5

(* What a remainder is, for every integer. *)
LEMMA Quotient ==
  ASSUME NEW x \in Int, NEW n \in Nat \ {0}
  PROVE  x % n \in 0 .. n - 1 /\ \E q \in Int : x = q * n + (x % n)
<1> DEFINE q == x \div n
           r == x % n
<1>1. r \in 0 .. n - 1 /\ q \in Int
  OBVIOUS
<1>2. r = x - n * q
  BY SMTT(30)
<1>3. x = q * n + r
  <2> HIDE DEF q, r
  <2>1. n * q \in Int /\ n * q = q * n
    BY <1>1
  <2> QED BY <1>1, <1>2, <2>1
<1> HIDE DEF q
<1>4. \E p \in Int : x = p * n + (x % n)
  <2>1. q \in Int /\ x = q * n + (x % n)
    BY <1>1, <1>3
  <2> QED BY <2>1, Zenon
<1> QED BY <1>1, <1>4

(* A number written with a remainder has that remainder. *)
LEMMA ModUnique ==
  ASSUME NEW n \in Nat \ {0}, NEW q \in Int, NEW r \in 0 .. n - 1
  PROVE  (q * n + r) % n = r
OBVIOUS

(* Multiples of the modulus do not count. *)
LEMMA ModPlus ==
  ASSUME NEW n \in Nat \ {0}, NEW q \in Int, NEW x \in Int
  PROVE  (x + q * n) % n = x % n
<1> DEFINE r == x % n
<1>1. r \in 0 .. n - 1
  BY Quotient
<1>2. PICK p \in Int : x = p * n + r
  BY Quotient
<1> HIDE DEF r
<1>3. p + q \in Int /\ x + q * n = (p + q) * n + r
  BY <1>1, <1>2
<1>4. (x + q * n) % n = r
  BY <1>1, <1>3, ModUnique
<1> QED BY <1>4 DEF r

(* Reducing modulo a multiple first changes nothing. *)
LEMMA ModMod ==
  ASSUME NEW n \in Nat \ {0}, NEW m \in Nat \ {0}, m % n = 0, NEW x \in Int
  PROVE  (x % m) % n = x % n
<1> DEFINE r == x % m
<1>0. PICK h \in Int : m = h * n
  <2>0. m \in Int
    OBVIOUS
  <2>1. PICK h \in Int : m = h * n + (m % n)
    BY <2>0, Quotient, Zenon
  <2>2. h * n \in Int
    OBVIOUS
  <2> QED BY <2>1, <2>2
<1>2. PICK p \in Int : x = p * m + r
  BY Quotient
<1>3. r \in Int
  BY Quotient
<1> HIDE DEF r
<1>4. p * m = (p * h) * n /\ p * h \in Int
  BY <1>0
<1>5. x % n = r % n
  <2>1. x = r + (p * h) * n
    BY <1>2, <1>3, <1>4
  <2> QED BY <1>3, <1>4, <2>1, ModPlus
<1> QED BY <1>5 DEF r

(* A sum and a difference may be reduced at any time. *)
LEMMA ModSum ==
  ASSUME NEW n \in Nat \ {0}, NEW x \in Int, NEW y \in Int
  PROVE  ((x % n) + y) % n = (x + y) % n /\ (x - (y % n)) % n = (x - y) % n
<1> DEFINE r == x % n
           s == y % n
<1>1. r \in Int /\ s \in Int
  BY Quotient
<1>2. PICK p \in Int : x = p * n + r
  BY Quotient
<1>3. PICK q \in Int : y = q * n + s
  BY Quotient
<1> HIDE DEF r, s
<1> DEFINE u == p * n
           v == q * n
<1>4. u \in Int /\ v \in Int
  OBVIOUS
<1>5. x + y = (r + y) + u /\ x - s = (x - y) + v
  <2> HIDE DEF u, v
  <2>1. x = u + r /\ y = v + s
    BY <1>2, <1>3 DEF u, v
  <2> QED BY <1>1, <1>4, <2>1
<1>6. (x + y) % n = (r + y) % n /\ (x - s) % n = (x - y) % n
  <2>1. ((r + y) + u) % n = (r + y) % n
    <3>1. r + y \in Int
      BY <1>1
    <3> QED BY <3>1, ModPlus
  <2>2. ((x - y) + v) % n = (x - y) % n
    <3>1. x - y \in Int
      OBVIOUS
    <3> QED BY <3>1, ModPlus
  <2> QED BY <1>5, <2>1, <2>2
<1> QED BY <1>6 DEF r, s

-----------------------------------------------------------------------------
(* Polynomials over {0,1} are sets of exponents: a coefficient is the       *)
(* parity of a number of terms, and a sum of polynomials is their symmetric *)
(* difference.                                                              *)
Odd(S) == Cardinality(S) % 2 = 1
SymDiff(S, T) == (S \ T) \cup (T \ S)

(* No element is even, one is odd. *)
LEMMA OddSmall == ~Odd({}) /\ \A x : Odd({x})
<1>1. Cardinality({}) = 0 /\ \A x : Cardinality({x}) = 1
  BY FS_EmptySet, FS_Singleton
<1> QED BY <1>1 DEF Odd

(* Parities of disjoint sets add. *)
LEMMA OddUnion ==
  ASSUME NEW S, NEW T, IsFiniteSet(S), IsFiniteSet(T), S \cap T = {}
  PROVE  Odd(S \cup T) <=> ~(Odd(S) <=> Odd(T))
<1>1. Cardinality(S) \in Nat /\ Cardinality(T) \in Nat
  BY FS_CardinalityType
<1>2. Cardinality(S \cup T) = Cardinality(S) + Cardinality(T)
  <2>1. Cardinality(S \cap T) = 0
    BY FS_EmptySet
  <2>2. Cardinality(S \cup T) = Cardinality(S) + Cardinality(T) - Cardinality(S \cap T)
    BY FS_Union, Zenon
  <2> QED BY <1>1, <2>1, <2>2
<1> QED BY <1>1, <1>2 DEF Odd

(* Parities add even when sets overlap: what is in both counts twice. *)
LEMMA OddSymDiff ==
  ASSUME NEW S, NEW T, IsFiniteSet(S), IsFiniteSet(T)
  PROVE  IsFiniteSet(SymDiff(S, T)) /\ (Odd(SymDiff(S, T)) <=> ~(Odd(S) <=> Odd(T)))
<1> DEFINE A == S \ T
           B == T \ S
           C == S \cap T
<1>1. IsFiniteSet(A) /\ IsFiniteSet(B) /\ IsFiniteSet(C)
  BY FS_Subset
<1>2. /\ A \cap B = {} /\ A \cap C = {} /\ B \cap C = {}
      /\ SymDiff(S, T) = A \cup B /\ S = A \cup C /\ T = B \cup C
  BY DEF SymDiff
<1> HIDE DEF A, B, C
<1>3. Odd(A \cup B) <=> ~(Odd(A) <=> Odd(B))
  BY <1>1, <1>2, OddUnion
<1>4. Odd(A \cup C) <=> ~(Odd(A) <=> Odd(C))
  BY <1>1, <1>2, OddUnion
<1>5. Odd(B \cup C) <=> ~(Odd(B) <=> Odd(C))
  BY <1>1, <1>2, OddUnion
<1>6. IsFiniteSet(A \cup B)
  BY <1>1, FS_Union
<1> QED BY <1>2, <1>3, <1>4, <1>5, <1>6

(* Sets that correspond one to one have the same parity. *)
LEMMA OddBijection ==
  ASSUME NEW S, NEW T, IsFiniteSet(S), NEW g \in [S -> T],
         \A x, y \in S : g[x] = g[y] => x = y, \A z \in T : \E x \in S : g[x] = z
  PROVE  IsFiniteSet(T) /\ (Odd(S) <=> Odd(T))
<1>1. g \in Bijection(S, T)
  BY DEF Bijection, Injection, Surjection, IsInjective
<1>2. ExistsBijection(S, T)
  BY <1>1 DEF ExistsBijection
<1> QED BY <1>2, FS_Bijection DEF Odd

(* A product of two numbers is odd when both are. *)
LEMMA OddTimes ==
  ASSUME NEW m \in Nat, NEW n \in Nat
  PROVE  (m * n) % 2 = 1 <=> (m % 2 = 1 /\ n % 2 = 1)
<1>1. PICK p, r \in Int : m = 2 * p + r /\ r = m % 2 /\ r \in {0, 1}
  <2>1. m = 2 * (m \div 2) + (m % 2) /\ (m \div 2) \in Int /\ (m % 2) \in Int /\ (m % 2) \in {0, 1}
    OBVIOUS
  <2> QED BY <2>1
<1>2. PICK q, s \in Int : n = 2 * q + s /\ s = n % 2 /\ s \in {0, 1}
  <2>1. n = 2 * (n \div 2) + (n % 2) /\ (n \div 2) \in Int /\ (n % 2) \in Int /\ (n % 2) \in {0, 1}
    OBVIOUS
  <2> QED BY <2>1
<1> DEFINE d == p * n + r * q
<1>3. d \in Int /\ m * n = 2 * d + r * s
  <2>1. m * n = 2 * (p * n) + r * n
    BY <1>1
  <2>2. r * n = 2 * (r * q) + r * s
    BY <1>1, <1>2
  <2>3. p * n \in Int /\ r * q \in Int /\ r * s \in Int /\ m * n \in Int /\ r * n \in Int
    OBVIOUS
  <2> QED BY <2>1, <2>2, <2>3
<1>4. r * s = IF r = 1 /\ s = 1 THEN 1 ELSE 0
  BY <1>1, <1>2
<1> HIDE DEF d
<1>5. (2 * d + r * s) % 2 = r * s
  BY <1>3, <1>4
<1> QED BY <1>1, <1>2, <1>3, <1>4, <1>5

(* A set of pairs has the product of the parities. *)
LEMMA OddProduct ==
  ASSUME NEW S, NEW T, IsFiniteSet(S), IsFiniteSet(T)
  PROVE  Odd(S \X T) <=> Odd(S) /\ Odd(T)
<1>1. Cardinality(S) \in Nat /\ Cardinality(T) \in Nat /\ Cardinality(S \X T) = Cardinality(S) * Cardinality(T)
  BY FS_CardinalityType, FS_Product
<1> QED BY <1>1, OddTimes DEF Odd

(* A set split by a value of its elements, by the first component of pairs, *)
(* and by the sum of both: the values at which an odd number of elements    *)
(* lie.                                                                     *)
Rows(S, r, n) == {i \in 0 .. n - 1 : Odd({x \in S : r[x] = i})}
Slices(A, P, R) == {x \in P : Odd({y \in R : <<x, y>> \in A})}
Sums(A, n) == {i \in 0 .. n - 1 : Odd({z \in A : (z[1] + z[2]) % n = i})}

(* A set is odd when an odd number of its rows are: counting by rows, which *)
(* every law of products below rests on.  With a least number of rows for   *)
(* which this fails, one row is taken away.                                 *)
LEMMA OddRows ==
  ASSUME NEW S, IsFiniteSet(S), NEW n \in Nat, NEW r \in [S -> 0 .. n - 1]
  PROVE  Odd(S) <=> Odd(Rows(S, r, n))
<1> DEFINE Row(i) == {x \in S : r[x] = i}
           Low(m) == {x \in S : r[x] < m}
           Upto(m) == {i \in 0 .. m - 1 : Odd(Row(i))}
           T == {m \in Nat : ~(Odd(Low(m)) <=> Odd(Upto(m)))}
<1>1. \A x \in S : r[x] \in Nat /\ r[x] < n
  OBVIOUS
<1>2. \A i \in Nat : IsFiniteSet(Row(i)) /\ IsFiniteSet(Low(i)) /\ IsFiniteSet(Upto(i))
  <2> TAKE i \in Nat
  <2>1. IsFiniteSet(0 .. i - 1)
    BY FS_Interval
  <2>2. Row(i) \subseteq S /\ Low(i) \subseteq S /\ Upto(i) \subseteq 0 .. i - 1
    OBVIOUS
  <2> HIDE DEF Row, Low, Upto
  <2> QED BY <2>1, <2>2, FS_Subset
<1>3. Low(0) = {} /\ Upto(0) = {}
  BY <1>1
<1>4. ASSUME NEW m \in Nat
      PROVE  /\ Low(m + 1) = Low(m) \cup Row(m) /\ Low(m) \cap Row(m) = {}
             /\ Upto(m + 1) = IF Odd(Row(m)) THEN Upto(m) \cup {m} ELSE Upto(m)
             /\ Upto(m) \cap {m} = {}
  <2>1. \A i \in Int : i \in 0 .. (m + 1) - 1 <=> (i \in 0 .. m - 1 \/ i = m)
    OBVIOUS
  <2>2. Upto(m + 1) = IF Odd(Row(m)) THEN Upto(m) \cup {m} ELSE Upto(m)
    <3>1. \A i : i \in 0 .. (m + 1) - 1 <=> (i \in 0 .. m - 1 \/ i = m)
      BY <2>1
    <3> HIDE DEF Row
    <3> QED BY <3>1
  <2>3. Low(m + 1) = Low(m) \cup Row(m)
    <3>1. \A x \in S : r[x] < m + 1 <=> (r[x] < m \/ r[x] = m)
      BY <1>1
    <3> QED BY <3>1
  <2>4. Low(m) \cap Row(m) = {} /\ Upto(m) \cap {m} = {}
    OBVIOUS
  <2> QED BY <2>2, <2>3, <2>4
<1>5. Low(n) = S /\ Upto(n) = Rows(S, r, n)
  BY <1>1 DEF Rows
<1>6. T = {}
  <2> SUFFICES ASSUME T # {} PROVE FALSE
    OBVIOUS
  <2>1. PICK m \in T : \A y \in T : m <= y
    <3>1. T \in SUBSET Nat
      OBVIOUS
    <3> HIDE DEF T
    <3> QED BY <3>1, Smallest
  <2>2. m \in Nat /\ ~(Odd(Low(m)) <=> Odd(Upto(m)))
    BY <2>1
  <2>3. m # 0
    <3> HIDE DEF Low, Upto
    <3> QED BY <1>3, <2>2
  <2>4. m - 1 \in Nat /\ (m - 1) + 1 = m
    BY <2>2, <2>3
  <2>5. Odd(Low(m - 1)) <=> Odd(Upto(m - 1))
    <3>1. ~(m - 1 \in T)
      BY <2>1, <2>4
    <3> HIDE DEF Low, Upto
    <3> QED BY <2>4, <3>1
  <2> DEFINE b == m - 1
  <2>6. b \in Nat /\ b + 1 = m
    BY <2>4
  <2>7. Odd(Low(b)) <=> Odd(Upto(b))
    BY <2>5
  <2> HIDE DEF b, T, Low, Row, Upto
  <2>8. /\ Low(m) = Low(b) \cup Row(b) /\ Low(b) \cap Row(b) = {}
        /\ Upto(m) = IF Odd(Row(b)) THEN Upto(b) \cup {b} ELSE Upto(b)
        /\ Upto(b) \cap {b} = {}
    BY <1>4, <2>6
  <2>9. Odd(Low(m)) <=> ~(Odd(Low(b)) <=> Odd(Row(b)))
    BY <1>2, <2>6, <2>8, OddUnion
  <2>10. Odd(Upto(b) \cup {b}) <=> ~(Odd(Upto(b)) <=> TRUE)
    <3>1. IsFiniteSet({b}) /\ Odd({b})
      BY FS_Singleton, OddSmall
    <3> QED BY <1>2, <2>6, <2>8, <3>1, OddUnion
  <2> QED BY <2>2, <2>7, <2>8, <2>9, <2>10
<1>7. Odd(Low(n)) <=> Odd(Upto(n))
  <2> HIDE DEF Low, Upto
  <2> QED BY <1>6
<1> HIDE DEF Low, Upto
<1> QED BY <1>5, <1>7

-----------------------------------------------------------------------------
(* The exponent that times x^i is x^j. *)
Back(n, j, i) == (j + n - i) % n

(* Back without a remainder. *)
LEMMA BackIs ==
  ASSUME NEW n \in Nat \ {0}, NEW j \in 0 .. n - 1, NEW i \in 0 .. n - 1
  PROVE  Back(n, j, i) = (IF i <= j THEN j - i ELSE j + n - i) /\ Back(n, j, i) \in 0 .. n - 1
<1>1. CASE i <= j
  <2>1. j - i \in 0 .. n - 1 /\ 1 \in Int /\ j + n - i = 1 * n + (j - i)
    BY <1>1
  <2> QED BY <1>1, <2>1, ModUnique DEF Back
<1>2. CASE ~(i <= j)
  <2>1. j + n - i \in 0 .. n - 1 /\ 0 \in Int /\ j + n - i = 0 * n + (j + n - i)
    BY <1>2
  <2> QED BY <1>2, <2>1, ModUnique DEF Back
<1> QED BY <1>1, <1>2

(* A sum of exponents without a remainder. *)
LEMMA SumIs ==
  ASSUME NEW n \in Nat \ {0}, NEW i \in 0 .. n - 1, NEW s \in 0 .. n - 1
  PROVE  (i + s) % n = (IF i + s < n THEN i + s ELSE i + s - n) /\ (i + s) % n \in 0 .. n - 1
<1>1. CASE i + s < n
  <2>1. i + s \in 0 .. n - 1 /\ 0 \in Int /\ i + s = 0 * n + (i + s)
    BY <1>1
  <2> QED BY <1>1, <2>1, ModUnique
<1>2. CASE ~(i + s < n)
  <2>1. i + s - n \in 0 .. n - 1 /\ 1 \in Int /\ i + s = 1 * n + (i + s - n)
    BY <1>2
  <2> QED BY <1>2, <2>1, ModUnique
<1> QED BY <1>1, <1>2

(* Back is the difference that belongs to the sum of exponents. *)
LEMMA BackSum ==
  ASSUME NEW n \in Nat \ {0}, NEW j \in 0 .. n - 1, NEW i \in 0 .. n - 1, NEW s \in 0 .. n - 1
  PROVE  /\ (i + s) % n = j <=> s = Back(n, j, i)
         /\ Back(n, Back(n, j, i), s) = Back(n, j, (i + s) % n)
         /\ Back(n, Back(n, j, i), s) = Back(n, Back(n, j, s), i)
         /\ Back(n, j, Back(n, j, i)) = i
<1> DEFINE b == Back(n, j, i)
           c == Back(n, j, s)
           t == (i + s) % n
<1>1. b = (IF i <= j THEN j - i ELSE j + n - i) /\ b \in 0 .. n - 1
  BY BackIs
<1>2. c = (IF s <= j THEN j - s ELSE j + n - s) /\ c \in 0 .. n - 1
  BY BackIs
<1>3. t = (IF i + s < n THEN i + s ELSE i + s - n) /\ t \in 0 .. n - 1
  BY SumIs
<1> HIDE DEF b, c, t
<1>4. Back(n, b, s) = (IF s <= b THEN b - s ELSE b + n - s)
  BY <1>1, BackIs
<1>5. Back(n, c, i) = (IF i <= c THEN c - i ELSE c + n - i)
  BY <1>2, BackIs
<1>6. Back(n, j, t) = (IF t <= j THEN j - t ELSE j + n - t)
  BY <1>3, BackIs
<1>7. Back(n, j, b) = (IF b <= j THEN j - b ELSE j + n - b)
  BY <1>1, BackIs
<1>8. /\ t = j <=> s = b
      /\ Back(n, b, s) = Back(n, j, t)
      /\ Back(n, b, s) = Back(n, c, i) /\ Back(n, j, b) = i
  BY <1>1, <1>2, <1>3, <1>4, <1>5, <1>6, <1>7
<1> QED BY <1>8 DEF b, c, t

(* Back, folded from modulus m to a divisor n. *)
LEMMA BackFold ==
  ASSUME NEW n \in Nat \ {0}, NEW m \in Nat \ {0}, m % n = 0, NEW j \in Int, NEW i \in Int
  PROVE  Back(m, j, i) % n = Back(n, j % n, i % n)
<1> DEFINE r == j % n
           s == i % n
<1>1. r \in Int /\ s \in Int
  BY Quotient
<1>2. Back(m, j, i) % n = (j + m - i) % n
  <2>1. j + m - i \in Int
    OBVIOUS
  <2> QED BY <2>1, ModMod, Zenon DEF Back
<1>3. PICK h \in Int : m = h * n
  <2>1. m \in Int
    OBVIOUS
  <2>2. PICK h \in Int : m = h * n + (m % n)
    BY <2>1, Quotient, Zenon
  <2> QED BY <2>2
<1>4. (j + m - i) % n = (j - i) % n
  <2>1. j + m - i = (j - i) + h * n /\ j - i \in Int
    BY <1>3
  <2>2. ((j - i) + h * n) % n = (j - i) % n
    BY <2>1, ModPlus, Zenon
  <2> QED BY <2>1, <2>2, Zenon
<1>5. (r + n - s) % n = (r - s) % n
  <2> HIDE DEF r, s
  <2>1. r + n - s = (r - s) + 1 * n /\ r - s \in Int /\ 1 \in Int
    BY <1>1
  <2>2. ((r - s) + 1 * n) % n = (r - s) % n
    BY <2>1, ModPlus, Zenon
  <2> QED BY <2>1, <2>2, Zenon
<1>6. (r - s) % n = (j - i) % n
  <2>1. (r - s) % n = (r - i) % n
    BY <1>1, ModSum
  <2>2. (r + (0 - i)) % n = (j + (0 - i)) % n
    <3>1. 0 - i \in Int
      OBVIOUS
    <3> QED BY <3>1, ModSum, Zenon
  <2>3. r - i = r + (0 - i) /\ j - i = j + (0 - i)
    <3> HIDE DEF r
    <3> QED BY <1>1
  <2> QED BY <2>1, <2>2, <2>3
<1> QED BY <1>2, <1>4, <1>5, <1>6 DEF Back

(* Polynomials modulo x^n + 1, their product, and a polynomial of any       *)
(* degree folded modulo x^n + 1.                                            *)
Poly(n) == SUBSET (0 .. n - 1)
Conv(n, P, R) == {j \in 0 .. n - 1 : Odd({i \in P : Back(n, j, i) \in R})}
FoldSet(n, P) == {j \in 0 .. n - 1 : Odd({i \in P : i % n = j})}

(* A polynomial has finitely many terms. *)
LEMMA PolyFinite ==
  ASSUME NEW n \in Nat, NEW P \in Poly(n)
  PROVE  IsFiniteSet(P)
<1>1. IsFiniteSet(0 .. n - 1)
  BY FS_Interval
<1> QED BY <1>1, FS_Subset DEF Poly

(* Counting pairs by their first component. *)
LEMMA OddSlices ==
  ASSUME NEW n \in Nat, NEW P \in Poly(n), NEW R, IsFiniteSet(R), NEW A \in SUBSET (P \X R)
  PROVE  Odd(A) <=> Odd(Slices(A, P, R))
<1> DEFINE r == [z \in A |-> z[1]]
           Row(i) == {z \in A : r[z] = i}
           Slice(i) == {y \in R : <<i, y>> \in A}
<1>1. IsFiniteSet(A)
  <2>1. IsFiniteSet(P \X R)
    BY PolyFinite, FS_Product
  <2> QED BY <2>1, FS_Subset
<1>2. r \in [A -> 0 .. n - 1]
  BY DEF Poly
<1>3. Odd(A) <=> Odd(Rows(A, r, n))
  <2> HIDE DEF r
  <2> QED BY <1>1, <1>2, OddRows
<1>4. ASSUME NEW i \in 0 .. n - 1 PROVE Odd(Row(i)) <=> i \in P /\ Odd(Slice(i))
  <2>1. CASE i \in P
    <3> DEFINE g == [y \in Slice(i) |-> <<i, y>>]
    <3>1. IsFiniteSet(Slice(i))
      <4>1. Slice(i) \subseteq R
        OBVIOUS
      <4> QED BY <4>1, FS_Subset
    <3>2. g \in [Slice(i) -> Row(i)] /\ \A x, y \in Slice(i) : g[x] = g[y] => x = y
      OBVIOUS
    <3>3. ASSUME NEW z \in Row(i) PROVE \E x \in Slice(i) : g[x] = z
      <4>1. z \in P \X R /\ z \in A /\ z[1] = i
        OBVIOUS
      <4>2. z = <<i, z[2]>> /\ z[2] \in R
        BY <4>1
      <4>3. z[2] \in Slice(i) /\ g[z[2]] = z
        BY <4>1, <4>2
      <4> QED BY <4>3
    <3> HIDE DEF g, Slice, Row
    <3> QED BY <2>1, <3>1, <3>2, <3>3, OddBijection
  <2>2. CASE i \notin P
    <3>1. Row(i) = {}
      BY <2>2
    <3> HIDE DEF Row
    <3> QED BY <2>2, <3>1, OddSmall
  <2> QED BY <2>1, <2>2
<1>5. {i \in 0 .. n - 1 : Odd(Row(i))} = {x \in P : Odd(Slice(x))}
  <2> HIDE DEF Row, Slice
  <2> QED BY <1>4 DEF Poly
<1>6. Rows(A, r, n) = Slices(A, P, R)
  BY <1>5 DEF Rows, Slices
<1> QED BY <1>3, <1>6

(* A coefficient of a product counts the pairs of terms that meet there. *)
LEMMA ConvPairs ==
  ASSUME NEW n \in Nat \ {0}, NEW P \in Poly(n), NEW R \in Poly(n), NEW j \in 0 .. n - 1
  PROVE  j \in Conv(n, P, R) <=> Odd({z \in P \X R : (z[1] + z[2]) % n = j})
<1> DEFINE A == {z \in P \X R : (z[1] + z[2]) % n = j}
           Slice(x) == {y \in R : <<x, y>> \in A}
<1>1. P \subseteq 0 .. n - 1 /\ R \subseteq 0 .. n - 1
  BY DEF Poly
<1>2. Odd(A) <=> Odd(Slices(A, P, R))
  <2>1. IsFiniteSet(R) /\ A \in SUBSET (P \X R) /\ n \in Nat
    BY PolyFinite
  <2> HIDE DEF A
  <2> QED BY <2>1, OddSlices
<1>3. ASSUME NEW x \in P PROVE Odd(Slice(x)) <=> Back(n, j, x) \in R
  <2>1. x \in 0 .. n - 1
    BY <1>1
  <2>2. \A y \in R : <<x, y>> \in A <=> y = Back(n, j, x)
    <3> TAKE y \in R
    <3>1. y \in 0 .. n - 1
      BY <1>1
    <3>2. (x + y) % n = j <=> y = Back(n, j, x)
      BY <2>1, <3>1, BackSum
    <3>3. <<x, y>> \in A <=> (x + y) % n = j
      OBVIOUS
    <3> QED BY <3>2, <3>3
  <2>3. Slice(x) = IF Back(n, j, x) \in R THEN {Back(n, j, x)} ELSE {}
    <3> HIDE DEF A
    <3> QED BY <2>2
  <2> HIDE DEF Slice
  <2> QED BY <2>3, OddSmall
<1>4. {x \in P : Odd(Slice(x))} = {x \in P : Back(n, j, x) \in R}
  <2> HIDE DEF Slice
  <2> QED BY <1>3
<1>5. {x \in P : Odd(Slice(x))} = Slices(A, P, R)
  BY DEF Slices
<1> QED
  <2> HIDE DEF Slice
  <2> QED BY <1>2, <1>4, <1>5 DEF Conv

(* Counting pairs by the exponent at which they meet. *)
LEMMA OddSums ==
  ASSUME NEW n \in Nat \ {0}, NEW P \in Poly(n), NEW R \in Poly(n), NEW A \in SUBSET (P \X R)
  PROVE  IsFiniteSet(A) /\ (Odd(A) <=> Odd(Sums(A, n)))
<1> DEFINE r == [z \in A |-> (z[1] + z[2]) % n]
<1>1. IsFiniteSet(A)
  <2>1. IsFiniteSet(P \X R)
    BY PolyFinite, FS_Product
  <2> QED BY <2>1, FS_Subset
<1>2. r \in [A -> 0 .. n - 1]
  <2> SUFFICES ASSUME NEW z \in A PROVE (z[1] + z[2]) % n \in 0 .. n - 1
    OBVIOUS
  <2>1. z[1] \in 0 .. n - 1 /\ z[2] \in 0 .. n - 1
    BY DEF Poly
  <2> QED BY <2>1, SumIs
<1>3. Odd(A) <=> Odd(Rows(A, r, n))
  <2> HIDE DEF r
  <2> QED BY <1>1, <1>2, OddRows
<1>4. Rows(A, r, n) = Sums(A, n)
  BY DEF Rows, Sums
<1> QED
  <2> HIDE DEF r
  <2> QED BY <1>1, <1>3, <1>4

(* Products and folded polynomials are polynomials. *)
LEMMA ConvType ==
  ASSUME NEW n \in Nat \ {0}, NEW P, NEW R
  PROVE  Conv(n, P, R) \in Poly(n) /\ FoldSet(n, P) \in Poly(n)
BY DEF Conv, FoldSet, Poly

(* So are sums. *)
LEMMA XorType ==
  ASSUME NEW n \in Nat \ {0}, NEW P \in Poly(n), NEW R \in Poly(n)
  PROVE  SymDiff(P, R) \in Poly(n)
BY DEF SymDiff, Poly

(* Products commute. *)
LEMMA ConvComm ==
  ASSUME NEW n \in Nat \ {0}, NEW P \in Poly(n), NEW R \in Poly(n)
  PROVE  Conv(n, P, R) = Conv(n, R, P)
<1> SUFFICES ASSUME NEW j \in 0 .. n - 1 PROVE j \in Conv(n, P, R) <=> j \in Conv(n, R, P)
  BY ConvType DEF Poly
<1> DEFINE A == {x \in P : Back(n, j, x) \in R}
           B == {y \in R : Back(n, j, y) \in P}
           g == [x \in A |-> Back(n, j, x)]
<1>1. P \subseteq 0 .. n - 1 /\ R \subseteq 0 .. n - 1
  BY DEF Poly
<1>2. \A x \in 0 .. n - 1 : Back(n, j, Back(n, j, x)) = x
  BY BackSum
<1>3. IsFiniteSet(A)
  <2>1. A \subseteq P /\ IsFiniteSet(P)
    BY PolyFinite
  <2> QED BY <2>1, FS_Subset
<1>4. g \in [A -> B]
  BY <1>1, <1>2
<1>5. \A x, y \in A : g[x] = g[y] => x = y
  BY <1>1, <1>2
<1>6. \A z \in B : \E x \in A : g[x] = z
  <2> TAKE z \in B
  <2>1. Back(n, j, z) \in A /\ g[Back(n, j, z)] = z
    BY <1>1, <1>2
  <2> QED BY <2>1
<1>7. Odd(A) <=> Odd(B)
  <2> HIDE DEF A, B, g
  <2> QED BY <1>3, <1>4, <1>5, <1>6, OddBijection
<1> QED BY <1>7 DEF Conv

(* Products distribute over sums. *)
LEMMA ConvXor ==
  ASSUME NEW n \in Nat \ {0}, NEW P \in Poly(n), NEW R \in Poly(n), NEW S \in Poly(n)
  PROVE  Conv(n, P, SymDiff(R, S)) = SymDiff(Conv(n, P, R), Conv(n, P, S))
<1> SUFFICES ASSUME NEW j \in 0 .. n - 1
             PROVE  j \in Conv(n, P, SymDiff(R, S)) <=> ~(j \in Conv(n, P, R) <=> j \in Conv(n, P, S))
  BY DEF Conv, SymDiff
<1> DEFINE A(X) == {x \in P : Back(n, j, x) \in X}
<1>1. A(SymDiff(R, S)) = SymDiff(A(R), A(S))
  BY DEF SymDiff
<1>2. \A X : IsFiniteSet(A(X))
  <2>1. IsFiniteSet(P) /\ \A X : A(X) \subseteq P
    BY PolyFinite
  <2> HIDE DEF A
  <2> QED BY <2>1, FS_Subset
<1>3. Odd(A(SymDiff(R, S))) <=> ~(Odd(A(R)) <=> Odd(A(S)))
  <2> HIDE DEF A
  <2> QED BY <1>1, <1>2, OddSymDiff
<1> QED BY <1>3 DEF Conv

(* The product with x^c shifts; the product with 0 is 0. *)
LEMMA ConvShift ==
  ASSUME NEW n \in Nat \ {0}, NEW c \in 0 .. n - 1, NEW P
  PROVE  /\ \A j \in 0 .. n - 1 : j \in Conv(n, {c}, P) <=> Back(n, j, c) \in P
         /\ Conv(n, {}, P) = {}
<1>1. \A j : {i \in {c} : Back(n, j, i) \in P} = IF Back(n, j, c) \in P THEN {c} ELSE {}
  OBVIOUS
<1>2. \A j : {i \in {} : Back(n, j, i) \in P} = {}
  OBVIOUS
<1> QED BY <1>1, <1>2, OddSmall DEF Conv

(* 1 is the unit of products. *)
LEMMA ConvOne ==
  ASSUME NEW n \in Nat \ {0}, NEW P \in Poly(n)
  PROVE  Conv(n, {0}, P) = P
<1>1. 0 \in 0 .. n - 1 /\ \A j \in 0 .. n - 1 : Back(n, j, 0) = j
  BY BackIs
<1>2. \A j \in 0 .. n - 1 : j \in Conv(n, {0}, P) <=> Back(n, j, 0) \in P
  BY <1>1, ConvShift
<1>3. P \subseteq 0 .. n - 1 /\ Conv(n, {0}, P) \subseteq 0 .. n - 1
  BY ConvType DEF Poly
<1> QED BY <1>1, <1>2, <1>3

(* Products associate: both sides count the triples of terms by their sum. *)
LEMMA ConvAssoc ==
  ASSUME NEW n \in Nat \ {0}, NEW P \in Poly(n), NEW R \in Poly(n), NEW S \in Poly(n)
  PROVE  Conv(n, Conv(n, P, R), S) = Conv(n, P, Conv(n, R, S))
<1> SUFFICES ASSUME NEW j \in 0 .. n - 1
             PROVE  j \in Conv(n, Conv(n, P, R), S) <=> j \in Conv(n, P, Conv(n, R, S))
  BY ConvType DEF Poly
<1> DEFINE T == {z \in P \X R : Back(n, j, (z[1] + z[2]) % n) \in S}
<1>1. P \subseteq 0 .. n - 1 /\ R \subseteq 0 .. n - 1
  BY DEF Poly
<1>2. Odd(T) <=> Odd(Slices(T, P, R))
  <2>1. IsFiniteSet(R) /\ T \in SUBSET (P \X R) /\ n \in Nat
    BY PolyFinite
  <2> HIDE DEF T
  <2> QED BY <2>1, OddSlices
<1>3. Slices(T, P, R) = {x \in P : Back(n, j, x) \in Conv(n, R, S)}
  <2> SUFFICES ASSUME NEW x \in P
               PROVE  Odd({y \in R : <<x, y>> \in T}) <=> Back(n, j, x) \in Conv(n, R, S)
    BY DEF Slices
  <2>1. x \in 0 .. n - 1
    BY <1>1
  <2>2. Back(n, j, x) \in 0 .. n - 1
    BY <2>1, BackIs
  <2>3. ASSUME NEW y \in R PROVE <<x, y>> \in T <=> Back(n, Back(n, j, x), y) \in S
    <3>1. y \in 0 .. n - 1
      BY <1>1
    <3>2. Back(n, Back(n, j, x), y) = Back(n, j, (x + y) % n)
      BY <2>1, <3>1, BackSum
    <3> QED BY <3>2
  <2>4. {y \in R : <<x, y>> \in T} = {y \in R : Back(n, Back(n, j, x), y) \in S}
    <3> HIDE DEF T
    <3> QED BY <2>3
  <2> HIDE DEF T
  <2> QED BY <2>2, <2>4 DEF Conv
<1>4. Odd(T) <=> Odd(Sums(T, n))
  <2>1. T \in SUBSET (P \X R)
    OBVIOUS
  <2> HIDE DEF T
  <2> QED BY <2>1, OddSums
<1>5. Sums(T, n) = {i \in Conv(n, P, R) : Back(n, j, i) \in S}
  <2> SUFFICES ASSUME NEW i \in 0 .. n - 1
               PROVE  Odd({z \in T : (z[1] + z[2]) % n = i}) <=> i \in Conv(n, P, R) /\ Back(n, j, i) \in S
    BY ConvType DEF Sums, Poly
  <2>1. CASE Back(n, j, i) \in S
    <3>1. {z \in T : (z[1] + z[2]) % n = i} = {z \in P \X R : (z[1] + z[2]) % n = i}
      BY <2>1
    <3> HIDE DEF T
    <3> QED BY <2>1, <3>1, ConvPairs
  <2>2. CASE Back(n, j, i) \notin S
    <3>1. {z \in T : (z[1] + z[2]) % n = i} = {}
      BY <2>2
    <3> HIDE DEF T
    <3> QED BY <2>2, <3>1, OddSmall
  <2> QED BY <2>1, <2>2
<1> QED
  <2> HIDE DEF T
  <2> QED BY <1>2, <1>3, <1>4, <1>5 DEF Conv

(* Folding distributes over sums. *)
LEMMA FoldXor ==
  ASSUME NEW n \in Nat \ {0}, NEW P, IsFiniteSet(P), NEW R, IsFiniteSet(R)
  PROVE  FoldSet(n, SymDiff(P, R)) = SymDiff(FoldSet(n, P), FoldSet(n, R))
<1> SUFFICES ASSUME NEW j \in 0 .. n - 1
             PROVE  j \in FoldSet(n, SymDiff(P, R)) <=> ~(j \in FoldSet(n, P) <=> j \in FoldSet(n, R))
  BY DEF FoldSet, SymDiff
<1> DEFINE A(X) == {x \in X : x % n = j}
<1>1. A(SymDiff(P, R)) = SymDiff(A(P), A(R))
  BY DEF SymDiff
<1>2. IsFiniteSet(A(P)) /\ IsFiniteSet(A(R))
  <2>1. A(P) \subseteq P /\ A(R) \subseteq R
    OBVIOUS
  <2> HIDE DEF A
  <2> QED BY <2>1, FS_Subset
<1>3. Odd(A(SymDiff(P, R))) <=> ~(Odd(A(P)) <=> Odd(A(R)))
  <2> HIDE DEF A
  <2> QED BY <1>1, <1>2, OddSymDiff
<1> QED BY <1>3 DEF FoldSet

(* What is below the degree folds to itself. *)
LEMMA FoldSmall ==
  ASSUME NEW n \in Nat \ {0}, NEW P \in Poly(n)
  PROVE  FoldSet(n, P) = P /\ \A x \in 0 .. n - 1 : x % n = x
<1>1. ASSUME NEW x \in 0 .. n - 1 PROVE x % n = x
  <2>1. 0 \in Int /\ 0 * n + x = x
    OBVIOUS
  <2> QED BY <2>1, ModUnique
<1>2. ASSUME NEW j \in 0 .. n - 1 PROVE {i \in P : i % n = j} = IF j \in P THEN {j} ELSE {}
  BY <1>1 DEF Poly
<1>3. P = {j \in 0 .. n - 1 : j \in P}
  BY DEF Poly
<1>4. FoldSet(n, P) = {j \in 0 .. n - 1 : j \in P}
  <2>1. ASSUME NEW j \in 0 .. n - 1 PROVE Odd({i \in P : i % n = j}) <=> j \in P
    <3> DEFINE A == {i \in P : i % n = j}
    <3>1. A = IF j \in P THEN {j} ELSE {}
      BY <1>2
    <3> HIDE DEF A
    <3>2. Odd(A) <=> j \in P
      BY <3>1, OddSmall
    <3> QED BY <3>2 DEF A
  <2> QED BY <2>1 DEF FoldSet
<1> QED BY <1>1, <1>3, <1>4

(* A single term folds to a single term. *)
LEMMA FoldSingle ==
  ASSUME NEW n \in Nat \ {0}, NEW x \in Int
  PROVE  FoldSet(n, {x}) = {x % n}
<1>1. x % n \in 0 .. n - 1
  BY Quotient
<1>2. \A j : {i \in {x} : i % n = j} = IF x % n = j THEN {x} ELSE {}
  OBVIOUS
<1>3. \A j : Odd({i \in {x} : i % n = j}) <=> j = x % n
  BY <1>2, OddSmall
<1> QED BY <1>1, <1>3 DEF FoldSet

(* Folding in two steps is folding at once. *)
LEMMA FoldFold ==
  ASSUME NEW n \in Nat \ {0}, NEW m \in Nat \ {0}, m % n = 0, NEW P \in SUBSET Int, IsFiniteSet(P)
  PROVE  FoldSet(n, FoldSet(m, P)) = FoldSet(n, P)
<1> SUFFICES ASSUME NEW j \in 0 .. n - 1
             PROVE  j \in FoldSet(n, FoldSet(m, P)) <=> j \in FoldSet(n, P)
  BY DEF FoldSet
<1> DEFINE A == {i \in P : i % n = j}
           r == [i \in A |-> i % m]
<1>1. IsFiniteSet(A) /\ r \in [A -> 0 .. m - 1]
  <2>1. A \subseteq P
    OBVIOUS
  <2>2. \A i \in A : i % m \in 0 .. m - 1
    BY Quotient
  <2> QED BY <2>1, <2>2, FS_Subset
<1>2. Odd(A) <=> Odd(Rows(A, r, m))
  <2> HIDE DEF A, r
  <2> QED BY <1>1, OddRows
<1>3. Rows(A, r, m) = {l \in FoldSet(m, P) : l % n = j}
  <2> SUFFICES ASSUME NEW l \in 0 .. m - 1
               PROVE  Odd({i \in A : r[i] = l}) <=> Odd({i \in P : i % m = l}) /\ l % n = j
    BY DEF Rows, FoldSet
  <2>1. \A i \in P : i % m = l => i % n = l % n
    <3> TAKE i \in P
    <3>1. i \in Int
      OBVIOUS
    <3>2. (i % m) % n = i % n
      BY <3>1, ModMod
    <3> QED BY <3>2
  <2>2. {i \in A : r[i] = l} = IF l % n = j THEN {i \in P : i % m = l} ELSE {}
    BY <2>1
  <2> HIDE DEF A, r
  <2> QED BY <2>2, OddSmall
<1> QED
  <2>1. Odd({i \in P : i % n = j}) <=> Odd({l \in FoldSet(m, P) : l % n = j})
    BY <1>2, <1>3
  <2>2. \A X : j \in FoldSet(n, X) <=> Odd({i \in X : i % n = j})
    BY DEF FoldSet
  <2> QED BY <2>1, <2>2

(* Folding is a homomorphism: a product modulo x^m + 1 folds to the product *)
(* of the folded factors.  FastInversion relies on it when it multiplies    *)
(* the folded k by finv.                                                    *)
LEMMA FoldConv ==
  ASSUME NEW n \in Nat \ {0}, NEW m \in Nat \ {0}, m % n = 0, NEW P \in Poly(m), NEW R \in Poly(m)
  PROVE  FoldSet(n, Conv(m, P, R)) = Conv(n, FoldSet(n, P), FoldSet(n, R))
<1> SUFFICES ASSUME NEW j \in 0 .. n - 1
             PROVE  j \in FoldSet(n, Conv(m, P, R)) <=> j \in Conv(n, FoldSet(n, P), FoldSet(n, R))
  BY DEF FoldSet, Conv
<1> DEFINE T == {z \in P \X R : (z[1] + z[2]) % n = j}
           r == [z \in T |-> z[1] % n]
<1>1. P \subseteq 0 .. m - 1 /\ R \subseteq 0 .. m - 1 /\ T \in SUBSET (P \X R)
  BY DEF Poly
<1>2. IsFiniteSet(T) /\ (Odd(T) <=> Odd(Sums(T, m)))
  <2> HIDE DEF T
  <2> QED BY <1>1, OddSums
<1>3. Sums(T, m) = {l \in Conv(m, P, R) : l % n = j}
  <2> SUFFICES ASSUME NEW l \in 0 .. m - 1
               PROVE  Odd({z \in T : (z[1] + z[2]) % m = l}) <=> l \in Conv(m, P, R) /\ l % n = j
    BY ConvType DEF Sums, Poly
  <2>1. \A z \in P \X R : (z[1] + z[2]) % m = l => (z[1] + z[2]) % n = l % n
    <3> TAKE z \in P \X R
    <3>1. z[1] + z[2] \in Int
      <4>1. z[1] \in P /\ z[2] \in R
        OBVIOUS
      <4>2. \A x \in P : x \in Int
        BY <1>1
      <4>3. \A y \in R : y \in Int
        BY <1>1
      <4>4. z[1] \in Int /\ z[2] \in Int
        BY <4>1, <4>2, <4>3
      <4> QED BY <4>4
    <3>2. ((z[1] + z[2]) % m) % n = (z[1] + z[2]) % n
      BY <3>1, ModMod
    <3> QED BY <3>2
  <2>2. {z \in T : (z[1] + z[2]) % m = l} =
           IF l % n = j THEN {z \in P \X R : (z[1] + z[2]) % m = l} ELSE {}
    BY <2>1
  <2>3. l \in Conv(m, P, R) <=> Odd({z \in P \X R : (z[1] + z[2]) % m = l})
    BY ConvPairs
  <2> HIDE DEF T
  <2> QED BY <2>2, <2>3, OddSmall
<1>4. r \in [T -> 0 .. n - 1]
  <2> SUFFICES ASSUME NEW z \in T PROVE z[1] % n \in 0 .. n - 1
    OBVIOUS
  <2>1. z[1] \in Int
    <3>1. z[1] \in P
      OBVIOUS
    <3>2. \A x \in P : x \in Int
      BY <1>1
    <3> QED BY <3>1, <3>2
  <2> QED BY <2>1, Quotient
<1>5. Odd(T) <=> Odd(Rows(T, r, n))
  <2> HIDE DEF T, r
  <2> QED BY <1>2, <1>4, OddRows
<1>6. Rows(T, r, n) = {u \in FoldSet(n, P) : Back(n, j, u) \in FoldSet(n, R)}
  <2> DEFINE X(u) == {x \in P : x % n = u}
             Y(u) == {y \in R : y % n = u}
  <2> SUFFICES ASSUME NEW u \in 0 .. n - 1
               PROVE  Odd({z \in T : r[z] = u}) <=> Odd(X(u)) /\ Odd(Y(Back(n, j, u)))
    <3>1. \A u \in 0 .. n - 1 : Back(n, j, u) \in 0 .. n - 1
      BY BackIs
    <3> HIDE DEF T, r
    <3> QED BY <3>1 DEF Rows, FoldSet
  <2>1. IsFiniteSet(X(u)) /\ IsFiniteSet(Y(Back(n, j, u)))
    <3>1. X(u) \subseteq P /\ Y(Back(n, j, u)) \subseteq R /\ IsFiniteSet(P) /\ IsFiniteSet(R)
      BY PolyFinite
    <3> HIDE DEF X, Y
    <3> QED BY <3>1, FS_Subset
  <2>2. ASSUME NEW x \in P, NEW y \in R
        PROVE  (x + y) % n = j /\ x % n = u <=> x % n = u /\ y % n = Back(n, j, u)
    <3>1. x \in Int /\ y \in Int
      BY <1>1
    <3>2. x % n \in 0 .. n - 1 /\ y % n \in 0 .. n - 1
      BY <3>1, Quotient
    <3>3. (x + y) % n = ((x % n) + (y % n)) % n
      <4>1. (x + y) % n = ((x % n) + y) % n
        BY <3>1, ModSum
      <4> DEFINE v == x % n
                 w == y % n
      <4>3. v \in Int /\ w \in Int
        BY <3>2
      <4>2. (y + v) % n = (w + v) % n
        <5> HIDE DEF v
        <5> QED BY <3>1, <4>3, ModSum
      <4>4. y + v = v + y /\ w + v = v + w
        <5> HIDE DEF v, w
        <5> QED BY <3>1, <4>3
      <4> QED BY <4>1, <4>2, <4>4
    <3> DEFINE v == x % n
               w == y % n
    <3>4. v \in 0 .. n - 1 /\ w \in 0 .. n - 1
      BY <3>2
    <3>5. (v + w) % n = j <=> w = Back(n, j, v)
      <4> HIDE DEF v, w
      <4> QED BY <3>4, BackSum
    <3> QED BY <3>3, <3>5
  <2>3. {z \in T : r[z] = u} = X(u) \X Y(Back(n, j, u))
    <3>1. {z \in T : r[z] = u} = {z \in P \X R : (z[1] + z[2]) % n = j /\ z[1] % n = u}
      OBVIOUS
    <3>2. \A z \in P \X R : (z[1] + z[2]) % n = j /\ z[1] % n = u
                            <=> z[1] % n = u /\ z[2] % n = Back(n, j, u)
      BY <2>2
    <3>3. X(u) \X Y(Back(n, j, u)) = {z \in P \X R : z[1] % n = u /\ z[2] % n = Back(n, j, u)}
      OBVIOUS
    <3> QED BY <3>1, <3>2, <3>3
  <2> HIDE DEF T, r, X, Y
  <2> QED BY <2>1, <2>3, OddProduct
<1> QED
  <2>1. j \in FoldSet(n, Conv(m, P, R)) <=> Odd({l \in Conv(m, P, R) : l % n = j})
    BY DEF FoldSet
  <2>2. \A A, B : j \in Conv(n, A, B) <=> Odd({u \in A : Back(n, j, u) \in B})
    BY DEF Conv
  <2> HIDE DEF T, r
  <2> QED BY <1>2, <1>3, <1>5, <1>6, <2>1, <2>2

-----------------------------------------------------------------------------
(* The code's division of a polynomial by x^n + 1 (k[j] ^= k[j - n], first  *)
(* to last), and x^n + 1 itself modulo x^m + 1.                             *)
DivSet(m, n, P) == {j \in 0 .. m - 1 : Odd({i \in 0 .. j : i % n = j % n /\ i \in P})}
XPlusOne(m, n) == SymDiff({0}, {n % m})

(* Numbers with the same remainder that differ by less than the modulus are *)
(* equal.                                                                   *)
LEMMA ModNear ==
  ASSUME NEW n \in Nat \ {0}, NEW x \in Int, NEW y \in Int, x % n = y % n, x <= y, y < x + n
  PROVE  x = y
<1>1. (y - (x % n)) % n = (y - x) % n
  BY ModSum
<1>2. (y - (y % n)) % n = (y - y) % n
  BY ModSum
<1>3. (y - x) % n = (y - y) % n
  BY <1>1, <1>2
<1>4. y - x \in 0 .. n - 1 /\ y - y \in 0 .. n - 1 /\ y - y = 0
  OBVIOUS
<1>5. \A z \in 0 .. n - 1 : z % n = z
  <2> TAKE z \in 0 .. n - 1
  <2>1. 0 \in Int /\ 0 * n + z = z
    OBVIOUS
  <2> QED BY <2>1, ModUnique
<1>6. y - x = y - y
  BY <1>3, <1>4, <1>5, Zenon
<1> QED BY <1>4, <1>6

(* Dividing and multiplying again gives the dividend but for what it leaves *)
(* when it is folded: the division is exact when that is 0.                 *)
LEMMA DivBack ==
  ASSUME NEW m \in Nat \ {0}, NEW n \in 1 .. m - 1, m % n = 0, NEW P \in Poly(m)
  PROVE  Conv(m, XPlusOne(m, n), DivSet(m, n, P)) = SymDiff(P, FoldSet(n, P))
<1> DEFINE D == DivSet(m, n, P)
           Low(j) == {i \in 0 .. j : i % n = j % n /\ i \in P}
<1>1. n \in Nat \ {0} /\ n \in 0 .. m - 1 /\ 0 \in 0 .. m - 1 /\ n % m = n
  <2>1. n \in 0 .. m - 1 /\ 0 \in Int /\ 0 * m + n = n
    OBVIOUS
  <2>2. n % m = n
    BY <2>1, ModUnique
  <2> QED BY <2>2
<1>2. D \in Poly(m) /\ P \subseteq 0 .. m - 1 /\ {0} \in Poly(m) /\ {n} \in Poly(m)
  BY <1>1 DEF DivSet, Poly
<1>3. \A j \in 0 .. m - 1 : j \in D <=> Odd(Low(j))
  BY DEF DivSet
<1>4. Conv(m, XPlusOne(m, n), D) = SymDiff(D, Conv(m, {n}, D))
  <2>1. XPlusOne(m, n) = SymDiff({0}, {n}) /\ XPlusOne(m, n) \in Poly(m)
    BY <1>1, <1>2, XorType DEF XPlusOne
  <2>2. Conv(m, D, SymDiff({0}, {n})) = SymDiff(Conv(m, D, {0}), Conv(m, D, {n}))
    BY <1>2, ConvXor
  <2>3. Conv(m, D, {0}) = D /\ Conv(m, D, {n}) = Conv(m, {n}, D)
    BY <1>2, ConvComm, ConvOne
  <2>4. Conv(m, XPlusOne(m, n), D) = Conv(m, D, XPlusOne(m, n))
    BY <1>2, <2>1, ConvComm
  <2> QED BY <2>1, <2>2, <2>3, <2>4
<1>5. ASSUME NEW j \in 0 .. m - 1, n <= j
      PROVE  ~(Odd(Low(j)) <=> Odd(Low(j - n))) <=> j \in P
  <2>1. (j - n) % n = j % n
    <3>1. j - n \in Int /\ (j - n) + 1 * n = j /\ 1 \in Int
      BY <1>1
    <3>2. ((j - n) + 1 * n) % n = (j - n) % n
      BY <1>1, <3>1, ModPlus, Zenon
    <3> QED BY <3>1, <3>2
  <2>2. ASSUME NEW i \in 0 .. j, i % n = j % n PROVE i <= j - n \/ i = j
    <3>1. SUFFICES ASSUME ~(i <= j - n) PROVE i = j
      OBVIOUS
    <3>2. i <= j /\ j < i + n /\ i \in Int /\ j \in Int
      BY <1>1, <3>1
    <3> QED BY <1>1, <2>2, <3>2, ModNear
  <2> DEFINE J == IF j \in P THEN {j} ELSE {}
  <2>3. Low(j) = Low(j - n) \cup J /\ Low(j - n) \cap J = {}
    <3>1. \A i \in Int : i \in 0 .. j - n <=> i \in 0 .. j /\ i <= j - n
      BY <1>1
    <3>2. ~(j <= j - n) /\ j \in 0 .. j
      BY <1>1
    <3> QED BY <2>1, <2>2, <3>1, <3>2
  <2>4. IsFiniteSet(Low(j - n)) /\ IsFiniteSet(J) /\ (Odd(J) <=> j \in P)
    <3>1. IsFiniteSet(P) /\ Low(j - n) \subseteq P
      BY PolyFinite
    <3> QED BY <3>1, FS_Subset, FS_Singleton, FS_EmptySet, OddSmall
  <2> HIDE DEF Low, J
  <2> QED BY <2>3, <2>4, OddUnion
<1>6. ASSUME NEW j \in 0 .. m - 1, j < n
      PROVE  (Odd(Low(j)) <=> j \in P) /\ (Odd(Low(j + m - n)) <=> j \in FoldSet(n, P))
  <2>1. j % n = j
    <3>1. 0 \in Int /\ 0 * n + j = j /\ j \in 0 .. n - 1
      BY <1>1, <1>6
    <3> QED BY <1>1, <3>1, ModUnique
  <2>2. Low(j) = IF j \in P THEN {j} ELSE {}
    <3>1. ASSUME NEW i \in 0 .. j, i % n = j % n PROVE i = j
      <4>1. i <= j /\ j < i + n /\ i \in Int /\ j \in Int
        BY <1>6
      <4> QED BY <1>1, <3>1, <4>1, ModNear
    <3>2. j \in 0 .. j
      OBVIOUS
    <3> QED BY <3>1, <3>2
  <2> DEFINE l == j + m - n
  <2>3. l \in 0 .. m - 1
    BY <1>6
  <2>4. l % n = j
    <3>1. PICK h \in Int : m = h * n + (m % n)
      <4>1. m \in Int
        OBVIOUS
      <4> QED BY <1>1, <4>1, Quotient, Zenon
    <3>2. l = (h - 1) * n + j /\ h - 1 \in Int /\ j \in 0 .. n - 1
      BY <1>1, <1>6, <3>1
    <3>3. n \in Nat \ {0}
      BY <1>1
    <3>4. ((h - 1) * n + j) % n = j
      BY <3>2, <3>3, ModUnique, Zenon
    <3> QED BY <3>2, <3>4, Zenon
  <2>5. ASSUME NEW i \in P, i % n = j PROVE i \in 0 .. l
    <3>1. i \in 0 .. m - 1
      BY <1>2
    <3>2. SUFFICES ASSUME ~(i <= l) PROVE FALSE
      BY <2>3, <3>1
    <3>3. l <= i /\ i < l + n /\ i \in Int /\ l \in Int
      BY <1>1, <2>3, <3>1, <3>2
    <3>4. l = i
      <4> HIDE DEF l
      <4> QED BY <1>1, <2>4, <2>5, <3>3, ModNear
    <3> QED BY <3>2, <3>3, <3>4
  <2>6. Low(l) = {i \in P : i % n = j}
    <3> HIDE DEF l
    <3> QED BY <2>4, <2>5
  <2>7. j \in FoldSet(n, P) <=> Odd(Low(l))
    <3>1. j \in 0 .. n - 1
      BY <1>6
    <3> HIDE DEF Low
    <3> QED BY <2>6, <3>1 DEF FoldSet
  <2> HIDE DEF Low
  <2> QED BY <2>2, <2>7, OddSmall
<1>7. ASSUME NEW j \in 0 .. m - 1
      PROVE  ~(j \in D <=> j \in Conv(m, {n}, D)) <=> ~(j \in P <=> j \in FoldSet(n, P))
  <2>1. j \in Conv(m, {n}, D) <=> Back(m, j, n) \in D
    BY <1>1, ConvShift
  <2>2. Back(m, j, n) = (IF n <= j THEN j - n ELSE j + m - n) /\ Back(m, j, n) \in 0 .. m - 1
    BY <1>1, BackIs
  <2>3. j \in FoldSet(n, P) => j < n
    BY <1>1 DEF FoldSet
  <2>4. CASE n <= j
    <3>1. ~(j < n)
      BY <1>1, <2>4
    <3> HIDE DEF D, Low
    <3> QED BY <1>3, <1>5, <2>1, <2>2, <2>3, <2>4, <3>1
  <2>5. CASE j < n
    <3>1. ~(n <= j)
      BY <1>1, <2>5
    <3> HIDE DEF D, Low
    <3> QED BY <1>3, <1>6, <2>1, <2>2, <2>5, <3>1
  <2> QED BY <1>1, <2>4, <2>5
<1>8. Conv(m, {n}, D) \subseteq 0 .. m - 1 /\ FoldSet(n, P) \subseteq 0 .. m - 1 /\ D \subseteq 0 .. m - 1
  BY <1>1, <1>2, ConvType DEF FoldSet, Poly
<1>9. SymDiff(D, Conv(m, {n}, D)) = SymDiff(P, FoldSet(n, P))
  <2> HIDE DEF D
  <2> QED BY <1>2, <1>7, <1>8 DEF SymDiff
<1> QED BY <1>4, <1>9

(* A polynomial that repeats itself with period n: the product with it      *)
(* repeats too, and is that of the folded factors.                          *)
LEMMA ConvPeriodic ==
  ASSUME NEW n \in Nat \ {0}, NEW m \in Nat \ {0}, m % n = 0, NEW P \in Poly(n), NEW H \in Poly(m),
         NEW j \in 0 .. m - 1
  PROVE  j \in Conv(m, {i \in 0 .. m - 1 : i % n \in P}, H) <=> j % n \in Conv(n, P, FoldSet(n, H))
<1> DEFINE T == {i \in 0 .. m - 1 : i % n \in P}
           A == {i \in H : Back(m, j, i) \in T}
           r == [i \in A |-> i % n]
<1>1. H \subseteq 0 .. m - 1 /\ T \in Poly(m)
  BY DEF Poly
<1>2. j % n \in 0 .. n - 1
  <2>1. j \in Int
    OBVIOUS
  <2> QED BY <2>1, Quotient
<1>3. \A i \in H : Back(m, j, i) \in T <=> Back(n, j % n, i % n) \in P
  <2> TAKE i \in H
  <2>1. i \in 0 .. m - 1 /\ i \in Int /\ j \in Int
    BY <1>1
  <2>2. Back(m, j, i) \in 0 .. m - 1
    BY <2>1, BackIs
  <2>3. Back(m, j, i) % n = Back(n, j % n, i % n)
    <3>1. \A u, v \in Int : Back(m, u, v) % n = Back(n, u % n, v % n)
      BY BackFold
    <3> QED BY <2>1, <3>1, Zenon
  <2> QED BY <2>2, <2>3
<1>4. IsFiniteSet(A) /\ r \in [A -> 0 .. n - 1]
  <2>1. IsFiniteSet(H) /\ A \subseteq H
    BY PolyFinite
  <2>2. \A i \in A : i % n \in 0 .. n - 1
    BY <1>1, Quotient
  <2> HIDE DEF A
  <2> QED BY <2>1, <2>2, FS_Subset
<1>5. Odd(A) <=> Odd(Rows(A, r, n))
  <2> HIDE DEF A, r
  <2> QED BY <1>4, OddRows
<1>6. Rows(A, r, n) = {u \in FoldSet(n, H) : Back(n, j % n, u) \in P}
  <2> SUFFICES ASSUME NEW u \in 0 .. n - 1
               PROVE  Odd({i \in A : r[i] = u}) <=> Odd({i \in H : i % n = u}) /\ Back(n, j % n, u) \in P
    BY DEF Rows, FoldSet
  <2>1. {i \in A : r[i] = u} = IF Back(n, j % n, u) \in P THEN {i \in H : i % n = u} ELSE {}
    <3>1. {i \in A : r[i] = u} = {i \in H : i % n = u /\ Back(m, j, i) \in T}
      OBVIOUS
    <3> HIDE DEF A, r, T
    <3> QED BY <1>3, <3>1
  <2> HIDE DEF A, r
  <2> QED BY <2>1, OddSmall
<1>7. j \in Conv(m, T, H) <=> Odd(A)
  <2>1. Conv(m, T, H) = Conv(m, H, T)
    <3> HIDE DEF T
    <3> QED BY <1>1, ConvComm
  <2>2. j \in Conv(m, H, T) <=> Odd(A)
    BY DEF Conv
  <2> QED BY <2>1, <2>2
<1>8. j % n \in Conv(n, P, FoldSet(n, H)) <=> Odd({u \in FoldSet(n, H) : Back(n, j % n, u) \in P})
  <2>1. FoldSet(n, H) \in Poly(n)
    BY ConvType
  <2>2. Conv(n, P, FoldSet(n, H)) = Conv(n, FoldSet(n, H), P)
    BY <2>1, ConvComm
  <2> QED BY <1>2, <2>2 DEF Conv
<1> QED
  <2> HIDE DEF A, r, T
  <2>1. j \in Conv(m, T, H) <=> j % n \in Conv(n, P, FoldSet(n, H))
    BY <1>5, <1>6, <1>7, <1>8
  <2> QED BY <2>1 DEF T

(* The product with x^n + 1 adds a shifted copy. *)
LEMMA ConvXPlusOne ==
  ASSUME NEW m \in Nat \ {0}, NEW n \in 1 .. m, NEW P \in Poly(m)
  PROVE  /\ XPlusOne(m, n) \in Poly(m)
         /\ Conv(m, XPlusOne(m, n), P) = SymDiff(P, Conv(m, {n % m}, P))
<1> DEFINE c == n % m
<1>1. c \in 0 .. m - 1
  <2>1. n \in Int
    OBVIOUS
  <2> QED BY <2>1, Quotient
<1> HIDE DEF c
<1>2. {0} \in Poly(m) /\ {c} \in Poly(m)
  BY <1>1 DEF Poly
<1>3. SymDiff({0}, {c}) \in Poly(m)
  BY <1>2, XorType
<1>4. Conv(m, P, SymDiff({0}, {c})) = SymDiff(Conv(m, P, {0}), Conv(m, P, {c}))
  BY <1>2, ConvXor
<1>5. Conv(m, P, {0}) = P /\ Conv(m, P, {c}) = Conv(m, {c}, P)
  BY <1>2, ConvComm, ConvOne
<1>6. Conv(m, SymDiff({0}, {c}), P) = Conv(m, P, SymDiff({0}, {c}))
  BY <1>3, ConvComm
<1>7. SymDiff({0}, {c}) = XPlusOne(m, n)
  BY DEF XPlusOne, c
<1> QED BY <1>3, <1>4, <1>5, <1>6, <1>7 DEF c

(* Remainders at the modulus. *)
LEMMA ModSmall ==
  ASSUME NEW m \in Nat \ {0}, NEW x \in 0 .. m - 1
  PROVE  x % m = x /\ m % m = 0
<1>1. 0 \in Int /\ 0 * m + x = x
  OBVIOUS
<1>2. x % m = x
  BY <1>1, ModUnique
<1>3. 1 \in Int /\ 0 \in 0 .. m - 1 /\ 1 * m + 0 = m
  OBVIOUS
<1>4. m % m = 0
  BY <1>3, ModUnique
<1> QED BY <1>2, <1>4

(* The square of x^n + 1 is x^2n + 1: why a level of FastInversion doubles  *)
(* the precision.                                                           *)
LEMMA XPlusOneSquare ==
  ASSUME NEW m \in Nat \ {0}, NEW n \in 1 .. m - 1, 2 * n <= m
  PROVE  Conv(m, XPlusOne(m, n), XPlusOne(m, n)) = XPlusOne(m, 2 * n)
<1> DEFINE c == IF 2 * n = m THEN 0 ELSE 2 * n
<1>1. n \in 0 .. m - 1 /\ n \in 1 .. m /\ c \in 0 .. m - 1 /\ c # n
  OBVIOUS
<1>2. n % m = n
  BY <1>1, ModSmall
<1>3. (2 * n) % m = c
  <2>1. CASE 2 * n = m
    BY <2>1, <1>1, ModSmall
  <2>2. CASE 2 * n # m
    <3>1. 2 * n \in 0 .. m - 1
      BY <2>2
    <3> QED BY <2>2, <3>1, ModSmall
  <2> QED BY <2>1, <2>2
<1>4. XPlusOne(m, n) = SymDiff({0}, {n}) /\ XPlusOne(m, 2 * n) = SymDiff({0}, {c})
  BY <1>2, <1>3 DEF XPlusOne
<1>5. XPlusOne(m, n) = {0, n}
  BY <1>4 DEF SymDiff
<1>6. XPlusOne(m, n) \in Poly(m)
  BY <1>1, ConvXPlusOne DEF Poly
<1>7. Conv(m, XPlusOne(m, n), XPlusOne(m, n)) = SymDiff({0, n}, Conv(m, {n}, {0, n}))
  BY <1>1, <1>2, <1>5, <1>6, ConvXPlusOne
<1>8. ASSUME NEW j \in 0 .. m - 1 PROVE j \in Conv(m, {n}, {0, n}) <=> j \in {n, c}
  <2>1. j \in Conv(m, {n}, {0, n}) <=> Back(m, j, n) \in {0, n}
    BY <1>1, ConvShift
  <2>2. Back(m, j, n) = (IF n <= j THEN j - n ELSE j + m - n)
    BY <1>1, BackIs
  <2> QED BY <2>1, <2>2
<1>9. Conv(m, {n}, {0, n}) = {n, c}
  <2>1. Conv(m, {n}, {0, n}) \subseteq 0 .. m - 1 /\ {n, c} \subseteq 0 .. m - 1
    BY <1>1, ConvType DEF Poly
  <2> HIDE DEF c
  <2> QED BY <1>8, <2>1
<1> HIDE DEF c
<1>10. SymDiff({0, n}, {n, c}) = SymDiff({0}, {c})
  BY <1>1 DEF SymDiff
<1> QED BY <1>4, <1>7, <1>9, <1>10

(* x^n + 1 folds to 0 at degree n. *)
LEMMA FoldXPlusOne ==
  ASSUME NEW m \in Nat \ {0}, NEW n \in 1 .. m
  PROVE  FoldSet(n, XPlusOne(m, n)) = {} /\ FoldSet(n, {0}) = {0}
<1>1. n \in Nat \ {0} /\ 0 \in 0 .. n - 1
  OBVIOUS
<1>2. 0 % n = 0 /\ n % n = 0
  BY <1>1, ModSmall
<1>3. FoldSet(n, {0}) = {0} /\ FoldSet(n, {n}) = {0} /\ FoldSet(n, {}) = {}
  <2>1. 0 \in Int /\ n \in Int
    OBVIOUS
  <2>2. FoldSet(n, {0}) = {0 % n} /\ FoldSet(n, {n}) = {n % n}
    BY <1>1, <2>1, FoldSingle
  <2>3. \A j : {i \in {} : i % n = j} = {}
    OBVIOUS
  <2>4. FoldSet(n, {}) = {}
    BY <2>3, OddSmall DEF FoldSet
  <2> QED BY <1>2, <2>2, <2>4
<1>4. CASE n = m
  <2>1. XPlusOne(m, n) = SymDiff({0}, {0})
    BY <1>2, <1>4 DEF XPlusOne
  <2>2. XPlusOne(m, n) = {}
    BY <2>1 DEF SymDiff
  <2> QED BY <1>3, <2>2
<1>5. CASE n < m
  <2>1. n \in 0 .. m - 1
    BY <1>5
  <2>2. n % m = n
    BY <2>1, ModSmall
  <2>3. XPlusOne(m, n) = SymDiff({0}, {n})
    BY <2>2 DEF XPlusOne
  <2>4. FoldSet(n, SymDiff({0}, {n})) = SymDiff(FoldSet(n, {0}), FoldSet(n, {n}))
    <3>1. IsFiniteSet({0}) /\ IsFiniteSet({n})
      BY FS_Singleton
    <3> QED BY <1>1, <3>1, FoldXor
  <2>5. SymDiff({0}, {0}) = {}
    BY DEF SymDiff
  <2> QED BY <1>3, <2>3, <2>4, <2>5
<1> QED BY <1>4, <1>5

-----------------------------------------------------------------------------
(* A level n of FastInversion with the inverse V so far and the quotient K: *)
(* 1 + F V = (x^n + 1) K modulo x^m + 1, and n divides m.                   *)
Level(m, n, F, V, K) ==
  /\ n \in 1 .. m /\ m % n = 0 /\ F \in Poly(m) /\ V \in Poly(n) /\ K \in Poly(m)
  /\ SymDiff({0}, Conv(m, F, V)) = Conv(m, XPlusOne(m, n), K)

(* At level n the inverse is right modulo x^n + 1. *)
LEMMA LevelInverts ==
  ASSUME NEW m \in Nat \ {0}, NEW n, NEW F, NEW V, NEW K, Level(m, n, F, V, K)
  PROVE  Conv(n, FoldSet(n, F), V) = {0}
<1>1. /\ n \in 1 .. m /\ n \in Nat \ {0} /\ m % n = 0
      /\ F \in Poly(m) /\ V \in Poly(n) /\ V \in Poly(m) /\ K \in Poly(m)
      /\ 0 \in 0 .. n - 1
  BY DEF Level, Poly
<1> DEFINE X == XPlusOne(m, n)
           Z == Conv(m, F, V)
           Y == Conv(n, FoldSet(n, F), V)
<1>2. X \in Poly(m)
  BY <1>1, ConvXPlusOne
<1>3. FoldSet(n, Conv(m, X, K)) = Conv(n, FoldSet(n, X), FoldSet(n, K))
  BY <1>1, <1>2, FoldConv
<1>4. FoldSet(n, Z) = Conv(n, FoldSet(n, F), FoldSet(n, V)) /\ FoldSet(n, V) = V
  BY <1>1, FoldConv, FoldSmall
<1>5. FoldSet(n, X) = {} /\ FoldSet(n, {0}) = {0}
  BY <1>1, FoldXPlusOne
<1>6. Conv(n, {}, FoldSet(n, K)) = {}
  BY <1>1, ConvShift
<1>7. FoldSet(n, SymDiff({0}, Z)) = SymDiff(FoldSet(n, {0}), FoldSet(n, Z))
  <2>1. IsFiniteSet({0})
    BY FS_Singleton
  <2>2. IsFiniteSet(Z)
    BY ConvType, PolyFinite
  <2> HIDE DEF Z
  <2> QED BY <1>1, <2>1, <2>2, FoldXor
<1>8. SymDiff({0}, Z) = Conv(m, X, K)
  BY DEF Level
<1>9. SymDiff({0}, Y) = {}
  BY <1>3, <1>4, <1>5, <1>6, <1>7, <1>8
<1> HIDE DEF Y
<1>10. Y = {0}
  BY <1>9 DEF SymDiff
<1> QED BY <1>10 DEF Y

(* One step takes level n to level 2 n: with B = V K modulo x^n + 1 the     *)
(* term K + B F folds to 0, so that its division by x^n + 1 is exact, and   *)
(* the new inverse is V + (x^n + 1) B.                                      *)
LEMMA LevelDoubles ==
  ASSUME NEW m \in Nat \ {0}, NEW n \in 1 .. m - 1, 2 * n <= m, m % (2 * n) = 0,
         NEW F, NEW V, NEW K, Level(m, n, F, V, K)
  PROVE  LET B == Conv(n, V, FoldSet(n, K))
             W == SymDiff(K, Conv(m, B, F))
         IN  /\ Level(m, 2 * n, F, SymDiff(V, Conv(m, XPlusOne(m, n), B)), DivSet(m, n, W))
             /\ B \in Poly(n) /\ W \in Poly(m)
<1> DEFINE G == FoldSet(n, K)
           E == FoldSet(n, F)
           B == Conv(n, V, G)
           BF == Conv(m, B, F)
           W == SymDiff(K, BF)
           X == XPlusOne(m, n)
           XB == Conv(m, X, B)
           D == DivSet(m, n, W)
           V2 == SymDiff(V, XB)
<1>1. /\ n \in 1 .. m /\ n \in Nat \ {0} /\ m % n = 0 /\ n \in 0 .. m - 1
      /\ F \in Poly(m) /\ V \in Poly(n) /\ V \in Poly(m) /\ K \in Poly(m)
  BY DEF Level, Poly
<1>2. G \in Poly(n) /\ E \in Poly(n) /\ B \in Poly(n)
  BY <1>1, ConvType
<1>3. B \in Poly(m)
  <2> HIDE DEF B
  <2> QED BY <1>2 DEF Poly
<1>4. BF \in Poly(m) /\ X \in Poly(m) /\ XB \in Poly(m)
  BY <1>1, ConvType, ConvXPlusOne
<1>5. W \in Poly(m)
  <2> HIDE DEF BF
  <2> QED BY <1>1, <1>4, XorType
<1>6. D \in Poly(m)
  BY DEF DivSet, Poly
<1>7. FoldSet(n, W) = {}
  <2>1. FoldSet(n, W) = SymDiff(G, FoldSet(n, BF))
    <3>1. IsFiniteSet(K) /\ IsFiniteSet(BF)
      BY <1>1, <1>4, PolyFinite
    <3> HIDE DEF BF
    <3> QED BY <1>1, <3>1, FoldXor
  <2>2. FoldSet(n, BF) = Conv(n, FoldSet(n, B), E)
    <3> HIDE DEF B
    <3> QED BY <1>1, <1>3, FoldConv
  <2>3. FoldSet(n, B) = B
    <3> HIDE DEF B
    <3> QED BY <1>1, <1>2, FoldSmall
  <2>4. B = Conv(n, G, V) /\ Conv(n, V, E) = Conv(n, E, V)
    <3> HIDE DEF G, E
    <3> QED BY <1>1, <1>2, ConvComm
  <2>5. Conv(n, Conv(n, G, V), E) = Conv(n, G, Conv(n, V, E))
    <3> HIDE DEF G, E
    <3> QED BY <1>1, <1>2, ConvAssoc
  <2>6. Conv(n, E, V) = {0}
    BY LevelInverts
  <2>7. Conv(n, G, {0}) = G
    <3>1. {0} \in Poly(n)
      BY <1>1 DEF Poly
    <3>2. Conv(n, G, {0}) = Conv(n, {0}, G) /\ Conv(n, {0}, G) = G
      <4> HIDE DEF G
      <4> QED BY <1>1, <1>2, <3>1, ConvComm, ConvOne
    <3> QED BY <3>2
  <2>8. FoldSet(n, BF) = G
    <3> HIDE DEF G, E, BF
    <3> QED BY <2>2, <2>3, <2>4, <2>5, <2>6, <2>7
  <2>9. SymDiff(G, G) = {}
    BY DEF SymDiff
  <2> HIDE DEF W, G, BF
  <2> QED BY <2>1, <2>8, <2>9
<1>8. Conv(m, X, D) = W
  <2>1. Conv(m, X, D) = SymDiff(W, FoldSet(n, W))
    <3> HIDE DEF W
    <3> QED BY <1>1, <1>5, DivBack
  <2>2. SymDiff(W, {}) = W
    BY DEF SymDiff
  <2> HIDE DEF W, D, X
  <2> QED BY <1>7, <2>1, <2>2
<1>9. Conv(m, F, V2) = SymDiff(Conv(m, F, V), Conv(m, X, BF))
  <2>1. Conv(m, F, V2) = SymDiff(Conv(m, F, V), Conv(m, F, XB))
    <3> HIDE DEF XB
    <3> QED BY <1>1, <1>4, ConvXor
  <2>2. Conv(m, F, XB) = Conv(m, XB, F)
    <3> HIDE DEF XB
    <3> QED BY <1>1, <1>4, ConvComm
  <2>3. Conv(m, XB, F) = Conv(m, X, BF)
    <3> HIDE DEF B, X
    <3> QED BY <1>1, <1>3, <1>4, ConvAssoc
  <2> HIDE DEF XB, V2, X, BF
  <2> QED BY <2>1, <2>2, <2>3
<1>10. SymDiff({0}, Conv(m, F, V2)) = Conv(m, XPlusOne(m, 2 * n), D)
  <2>1. SymDiff({0}, Conv(m, F, V)) = Conv(m, X, K)
    BY DEF Level
  <2>2. Conv(m, X, W) = SymDiff(Conv(m, X, K), Conv(m, X, BF))
    <3> HIDE DEF X, BF
    <3> QED BY <1>1, <1>4, ConvXor
  <2>3. \A S, T, U : SymDiff(S, SymDiff(T, U)) = SymDiff(SymDiff(S, T), U)
    BY DEF SymDiff
  <2>4. SymDiff({0}, Conv(m, F, V2)) = Conv(m, X, W)
    <3> HIDE DEF X, W, V2, BF
    <3> QED BY <1>9, <2>1, <2>2, <2>3
  <2>5. Conv(m, X, Conv(m, X, D)) = Conv(m, Conv(m, X, X), D)
    <3> HIDE DEF X, D
    <3> QED BY <1>4, <1>6, ConvAssoc
  <2>6. Conv(m, X, X) = XPlusOne(m, 2 * n)
    BY XPlusOneSquare
  <2> HIDE DEF X, W, V2, D
  <2> QED BY <1>8, <2>4, <2>5, <2>6
<1>11. V2 \in Poly(2 * n)
  <2> DEFINE S == Conv(m, {n}, B)
  <2>1. n % m = n
    BY <1>1, ModSmall
  <2>2. XB = SymDiff(B, S)
    <3> HIDE DEF B
    <3> QED BY <1>1, <1>3, <2>1, ConvXPlusOne
  <2>3. S \in Poly(2 * n)
    <3>1. ASSUME NEW j \in S PROVE j \in 0 .. 2 * n - 1
      <4>1. j \in 0 .. m - 1
        BY ConvType DEF Poly
      <4>2. Back(m, j, n) \in B
        <5> HIDE DEF B
        <5> QED BY <1>1, <4>1, ConvShift
      <4>3. Back(m, j, n) < n
        <5>1. B \subseteq 0 .. n - 1
          BY <1>2 DEF Poly
        <5>2. Back(m, j, n) \in 0 .. n - 1
          BY <4>2, <5>1, Zenon
        <5> QED BY <5>2
      <4>4. Back(m, j, n) = (IF n <= j THEN j - n ELSE j + m - n)
        BY <1>1, <4>1, BackIs
      <4> HIDE DEF B
      <4> QED BY <4>1, <4>3, <4>4
    <3> HIDE DEF S
    <3> QED BY <3>1 DEF Poly
  <2>4. B \in Poly(2 * n) /\ V \in Poly(2 * n)
    <3> HIDE DEF B
    <3> QED BY <1>1, <1>2 DEF Poly
  <2> HIDE DEF B, S, XB
  <2> QED BY <2>2, <2>3, <2>4 DEF Poly, SymDiff
<1>12. 2 * n \in 1 .. m
  OBVIOUS
<1>13. Level(m, 2 * n, F, V2, D)
  <2> HIDE DEF V2, D
  <2> QED BY <1>1, <1>6, <1>10, <1>11, <1>12 DEF Level
<1> QED BY <1>2, <1>5, <1>13

(* The first level, for every F with an odd number of terms.  The code      *)
(* divides F and not F + 1: what its division by x + 1 leaves over is that  *)
(* 1.                                                                       *)
LEMMA LevelOne ==
  ASSUME NEW m \in Nat \ {0, 1}, NEW F \in Poly(m), Odd(F)
  PROVE  Level(m, 1, F, {0}, DivSet(m, 1, F))
<1> DEFINE D == DivSet(m, 1, F)
<1>1. 1 \in 1 .. m - 1 /\ 1 \in Nat \ {0} /\ {0} \in Poly(1) /\ {0} \in Poly(m) /\ D \in Poly(m)
  BY DEF Poly, DivSet
<1>2. \A x \in Int : x % 1 = 0
  <2> TAKE x \in Int
  <2>1. x % 1 \in 0 .. 1 - 1
    BY <1>1, Quotient
  <2> QED BY <2>1
<1>3. m % 1 = 0
  BY <1>2
<1>4. FoldSet(1, F) = {0}
  <2>1. \A i \in F : i \in Int
    BY DEF Poly
  <2>2. {i \in F : i % 1 = 0} = F
    BY <1>2, <2>1
  <2>3. 0 .. 1 - 1 = {0}
    OBVIOUS
  <2> QED BY <2>2, <2>3 DEF FoldSet
<1>5. Conv(m, XPlusOne(m, 1), D) = SymDiff(F, {0})
  BY <1>1, <1>3, <1>4, DivBack
<1>6. Conv(m, F, {0}) = F
  BY <1>1, ConvComm, ConvOne
<1>7. SymDiff({0}, F) = SymDiff(F, {0})
  BY DEF SymDiff
<1>8. 1 \in 1 .. m
  OBVIOUS
<1> HIDE DEF D
<1>9. Level(m, 1, F, {0}, D)
  BY <1>1, <1>3, <1>5, <1>6, <1>7, <1>8 DEF Level
<1> QED BY <1>9 DEF D

-----------------------------------------------------------------------------
(* Polynomials of the model, functions to {0,1}, as sets of exponents;      *)
(* OddAt reads any function by the parity of its values.                    *)
Bits(n) == [0 .. n - 1 -> {0, 1}]
Ones(n, p) == {i \in 0 .. n - 1 : p[i] = 1}
OddAt(n, p) == {i \in 0 .. n - 1 : p[i] % 2 = 1}

(* Both are polynomials. *)
LEMMA OnesType ==
  ASSUME NEW n \in Nat \ {0}, NEW p
  PROVE  Ones(n, p) \in Poly(n) /\ OddAt(n, p) \in Poly(n)
BY DEF Ones, OddAt, Poly

(* A function to {0,1} is determined by its ones. *)
LEMMA OnesEqual ==
  ASSUME NEW n \in Nat \ {0}, NEW p \in Bits(n), NEW q \in Bits(n), Ones(n, p) = Ones(n, q)
  PROVE  p = q
<1>1. ASSUME NEW i \in 0 .. n - 1 PROVE p[i] = q[i]
  <2>1. p[i] \in {0, 1} /\ q[i] \in {0, 1}
    BY DEF Bits
  <2>2. i \in Ones(n, p) <=> i \in Ones(n, q)
    OBVIOUS
  <2>3. p[i] = 1 <=> q[i] = 1
    BY <2>2 DEF Ones
  <2> QED BY <2>1, <2>3
<1> QED BY <1>1 DEF Bits

(* A function defined by parities, as a set. *)
LEMMA ParityBits ==
  ASSUME NEW n \in Nat \ {0}, NEW A, IsFiniteSet(A), NEW S, NEW p, p = [j \in 0 .. n - 1 |-> Cardinality(S[j]) % 2],
         \A j \in 0 .. n - 1 : S[j] \subseteq A
  PROVE  p \in Bits(n) /\ Ones(n, p) = {j \in 0 .. n - 1 : Odd(S[j])}
<1>1. ASSUME NEW j \in 0 .. n - 1 PROVE Cardinality(S[j]) % 2 \in {0, 1}
  <2>1. IsFiniteSet(S[j])
    BY FS_Subset
  <2>2. Cardinality(S[j]) \in Nat
    BY <2>1, FS_CardinalityType
  <2> QED BY <2>2
<1>2. \A j \in 0 .. n - 1 : p[j] = Cardinality(S[j]) % 2
  OBVIOUS
<1>3. Ones(n, p) = {j \in 0 .. n - 1 : Odd(S[j])}
  BY <1>2 DEF Ones, Odd
<1>4. p \in Bits(n)
  BY <1>1 DEF Bits
<1> QED BY <1>3, <1>4

(* Times2 is the product. *)
LEMMA Times2Is ==
  ASSUME NEW n \in Nat \ {0}, NEW p, NEW q
  PROVE  Times2(n, p, q) \in Bits(n) /\ Ones(n, Times2(n, p, q)) = Conv(n, Ones(n, p), Ones(n, q))
<1> DEFINE S == [j \in 0 .. n - 1 |-> {i \in 0 .. n - 1 : p[i] = 1 /\ q[(j + n - i) % n] = 1}]
           t == Times2(n, p, q)
<1>1. IsFiniteSet(0 .. n - 1) /\ \A j \in 0 .. n - 1 : S[j] \subseteq 0 .. n - 1
  BY FS_Interval
<1>2. t = [j \in 0 .. n - 1 |-> Cardinality(S[j]) % 2]
  BY DEF Times2
<1>3. t \in Bits(n) /\ Ones(n, t) = {j \in 0 .. n - 1 : Odd(S[j])}
  <2> DEFINE A == 0 .. n - 1
  <2>1. IsFiniteSet(A) /\ \A j \in 0 .. n - 1 : S[j] \subseteq A
    BY <1>1
  <2> HIDE DEF t, S, A
  <2> QED BY <1>2, <2>1, ParityBits
<1>4. ASSUME NEW j \in 0 .. n - 1
      PROVE  S[j] = {i \in Ones(n, p) : Back(n, j, i) \in Ones(n, q)}
  <2>1. S[j] = {i \in 0 .. n - 1 : p[i] = 1 /\ q[Back(n, j, i)] = 1}
    BY DEF Back
  <2>2. \A i \in 0 .. n - 1 : Back(n, j, i) \in 0 .. n - 1
    BY BackIs
  <2> HIDE DEF S
  <2> QED BY <2>1, <2>2 DEF Ones
<1>5. Ones(n, t) = Conv(n, Ones(n, p), Ones(n, q))
  <2> HIDE DEF S, t
  <2> QED BY <1>3, <1>4 DEF Conv
<1> QED BY <1>3, <1>5

(* Fold is folding, of the parities of its argument. *)
LEMMA FoldIs ==
  ASSUME NEW n \in Nat \ {0}, NEW length \in Nat \ {0}, NEW p
  PROVE  /\ Fold(p, length, n) \in Bits(n)
         /\ Ones(n, Fold(p, length, n)) = FoldSet(n, OddAt(length, p))
         /\ p \in Bits(length) => OddAt(length, p) = Ones(length, p)
<1> DEFINE S == [j \in 0 .. n - 1 |-> {i \in 0 .. length - 1 : i % n = j /\ p[i] % 2 = 1}]
           t == Fold(p, length, n)
<1>1. IsFiniteSet(0 .. length - 1) /\ \A j \in 0 .. n - 1 : S[j] \subseteq 0 .. length - 1
  BY FS_Interval
<1>2. t = [j \in 0 .. n - 1 |-> Cardinality(S[j]) % 2]
  BY DEF Fold
<1>3. t \in Bits(n) /\ Ones(n, t) = {j \in 0 .. n - 1 : Odd(S[j])}
  <2> HIDE DEF t, S
  <2> QED BY <1>1, <1>2, ParityBits
<1>4. ASSUME NEW j \in 0 .. n - 1 PROVE S[j] = {i \in OddAt(length, p) : i % n = j}
  BY DEF OddAt
<1>5. Ones(n, t) = FoldSet(n, OddAt(length, p))
  <2> HIDE DEF S, t
  <2> QED BY <1>3, <1>4 DEF FoldSet
<1>6. ASSUME p \in Bits(length) PROVE OddAt(length, p) = Ones(length, p)
  <2>1. \A i \in 0 .. length - 1 : p[i] \in {0, 1}
    BY <1>6 DEF Bits
  <2>2. \A i \in 0 .. length - 1 : p[i] % 2 = 1 <=> p[i] = 1
    BY <2>1
  <2> QED BY <2>2 DEF OddAt, Ones
<1> QED BY <1>3, <1>5, <1>6

(* Divide is the division. *)
LEMMA DivideIs ==
  ASSUME N4 \in Nat \ {0}, NEW n \in Nat \ {0}, NEW p
  PROVE  Divide(p, n) \in Bits(N4) /\ Ones(N4, Divide(p, n)) = DivSet(N4, n, Ones(N4, p))
<1> DEFINE S == [j \in 0 .. N4 - 1 |-> {i \in 0 .. j : i % n = j % n /\ p[i] = 1}]
           t == Divide(p, n)
<1>1. IsFiniteSet(0 .. N4 - 1) /\ \A j \in 0 .. N4 - 1 : S[j] \subseteq 0 .. N4 - 1
  <2>1. IsFiniteSet(0 .. N4 - 1)
    BY FS_Interval
  <2>2. \A j \in 0 .. N4 - 1 : 0 .. j \subseteq 0 .. N4 - 1
    OBVIOUS
  <2> QED BY <2>1, <2>2
<1>2. t = [j \in 0 .. N4 - 1 |-> Cardinality(S[j]) % 2]
  BY DEF Divide
<1>3. t \in Bits(N4) /\ Ones(N4, t) = {j \in 0 .. N4 - 1 : Odd(S[j])}
  <2> HIDE DEF t, S
  <2> QED BY <1>1, <1>2, ParityBits
<1>4. ASSUME NEW j \in 0 .. N4 - 1 PROVE S[j] = {i \in 0 .. j : i % n = j % n /\ i \in Ones(N4, p)}
  <2>1. \A i \in 0 .. j : i \in Ones(N4, p) <=> p[i] = 1
    BY DEF Ones
  <2> QED BY <2>1
<1>5. Ones(N4, t) = DivSet(N4, n, Ones(N4, p))
  <2> HIDE DEF S, t
  <2> QED BY <1>3, <1>4 DEF DivSet
<1> QED BY <1>3, <1>5

(* Xor is the sum. *)
LEMMA XorIs ==
  ASSUME NEW n \in Nat \ {0}, NEW p \in Bits(n), NEW q \in Bits(n)
  PROVE  Xor(p, q) \in Bits(n) /\ Ones(n, Xor(p, q)) = SymDiff(Ones(n, p), Ones(n, q))
<1>1. \A i \in 0 .. n - 1 : p[i] \in {0, 1} /\ q[i] \in {0, 1}
  BY DEF Bits
<1>2. Xor(p, q) = [j \in 0 .. n - 1 |-> (p[j] + q[j]) % 2]
  BY DEF Bits, Xor
<1>3. \A i \in 0 .. n - 1 : (p[i] + q[i]) % 2 = IF p[i] = q[i] THEN 0 ELSE 1
  BY <1>1
<1>4. Xor(p, q) \in Bits(n)
  BY <1>2, <1>3 DEF Bits
<1>5. \A i \in 0 .. n - 1 : Xor(p, q)[i] = 1 <=> ~(p[i] = 1 <=> q[i] = 1)
  BY <1>1, <1>2, <1>3
<1> QED BY <1>4, <1>5 DEF Ones, SymDiff

(* Extend keeps the terms. *)
LEMMA ExtendIs ==
  ASSUME N4 \in Nat \ {0}, NEW n \in 1 .. N4, NEW p \in Bits(n)
  PROVE  Extend(p, n) \in Bits(N4) /\ Ones(N4, Extend(p, n)) = Ones(n, p)
<1>1. \A j \in 0 .. n - 1 : j \in 0 .. N4 - 1 /\ p[j] \in {0, 1}
  BY DEF Bits
<1>2. \A j \in 0 .. N4 - 1 : j < n <=> j \in 0 .. n - 1
  OBVIOUS
<1>3. Extend(p, n) = [j \in 0 .. N4 - 1 |-> IF j < n THEN p[j] ELSE 0]
  BY DEF Extend
<1>4. Extend(p, n) \in Bits(N4)
  BY <1>1, <1>2, <1>3 DEF Bits
<1>5. \A j \in 0 .. N4 - 1 : Extend(p, n)[j] = 1 <=> j \in 0 .. n - 1 /\ p[j] = 1
  BY <1>2, <1>3
<1> QED BY <1>1, <1>4, <1>5 DEF Ones

(* What FastInversion adds to finv, b written twice, is (x^n + 1) b. *)
LEMMA TwiceIs ==
  ASSUME N4 \in Nat \ {0}, NEW n \in 1 .. N4 - 1, 2 * n <= N4, NEW p \in Bits(n)
  PROVE  LET t == [j \in 0 .. N4 - 1 |-> IF j < 2 * n THEN p[j % n] ELSE 0]
         IN  t \in Bits(N4) /\ Ones(N4, t) = Conv(N4, XPlusOne(N4, n), Ones(n, p))
<1> DEFINE t == [j \in 0 .. N4 - 1 |-> IF j < 2 * n THEN p[j % n] ELSE 0]
           B == Ones(n, p)
<1>1. n \in Nat \ {0} /\ n \in 1 .. N4 /\ n \in 0 .. N4 - 1
  OBVIOUS
<1>2. B \subseteq 0 .. n - 1 /\ B \subseteq 0 .. N4 - 1 /\ B \in Poly(N4)
  BY DEF Ones, Poly
<1>3. n % N4 = n
  BY <1>1, ModSmall
<1>4. Conv(N4, XPlusOne(N4, n), B) = SymDiff(B, Conv(N4, {n}, B))
  <2> HIDE DEF B
  <2> QED BY <1>1, <1>2, <1>3, ConvXPlusOne
<1>5. \A j \in 0 .. 2 * n - 1 : j % n = (IF j < n THEN j ELSE j - n) /\ j % n \in 0 .. n - 1
  <2> TAKE j \in 0 .. 2 * n - 1
  <2>1. CASE j < n
    <3>1. j \in 0 .. n - 1
      BY <2>1
    <3> QED BY <1>1, <2>1, <3>1, ModSmall
  <2>2. CASE ~(j < n)
    <3>1. j - n \in 0 .. n - 1 /\ 1 \in Int /\ 1 * n + (j - n) = j
      BY <2>2
    <3>2. (1 * n + (j - n)) % n = j - n
      BY <1>1, <3>1, ModUnique, Zenon
    <3> QED BY <2>2, <3>1, <3>2
  <2> QED BY <2>1, <2>2
<1>6. \A i \in 0 .. n - 1 : p[i] \in {0, 1}
  BY DEF Bits
<1>7. t \in Bits(N4)
  <2> SUFFICES ASSUME NEW j \in 0 .. N4 - 1 PROVE (IF j < 2 * n THEN p[j % n] ELSE 0) \in {0, 1}
    BY DEF Bits
  <2>1. CASE j < 2 * n
    <3>1. j \in 0 .. 2 * n - 1
      BY <2>1
    <3> QED BY <1>5, <1>6, <2>1, <3>1
  <2> QED BY <2>1
<1>8. ASSUME NEW j \in 0 .. N4 - 1
      PROVE  t[j] = 1 <=> ~(j \in B <=> j \in Conv(N4, {n}, B))
  <2>1. j \in Conv(N4, {n}, B) <=> Back(N4, j, n) \in B
    <3> HIDE DEF B
    <3> QED BY <1>1, ConvShift
  <2>2. Back(N4, j, n) = (IF n <= j THEN j - n ELSE j + N4 - n)
    BY <1>1, BackIs
  <2>3. t[j] = (IF j < 2 * n THEN p[j % n] ELSE 0)
    OBVIOUS
  <2>4. \A i \in Int : i \in B <=> i \in 0 .. n - 1 /\ p[i] = 1
    BY DEF Ones
  <2>5. CASE j < n
    <3>1. j \in 0 .. 2 * n - 1 /\ j < 2 * n /\ ~(n <= j) /\ j \in 0 .. n - 1 /\ j + N4 - n \notin 0 .. n - 1
      BY <2>5
    <3>2. t[j] = p[j]
      BY <1>5, <2>3, <2>5, <3>1
    <3>3. j \in Int /\ j + N4 - n \in Int
      OBVIOUS
    <3> HIDE DEF t, B
    <3> QED BY <2>1, <2>2, <2>4, <3>1, <3>2, <3>3
  <2>6. CASE n <= j /\ j < 2 * n
    <3>1. j \in 0 .. 2 * n - 1 /\ ~(j < n) /\ j \notin 0 .. n - 1 /\ j - n \in 0 .. n - 1
      BY <2>6
    <3>2. t[j] = p[j - n]
      BY <1>5, <2>3, <2>6, <3>1
    <3>3. j \in Int /\ j - n \in Int
      OBVIOUS
    <3> HIDE DEF t, B
    <3> QED BY <2>1, <2>2, <2>4, <2>6, <3>1, <3>2, <3>3
  <2>7. CASE 2 * n <= j
    <3>1. ~(j < 2 * n) /\ n <= j /\ j \notin 0 .. n - 1 /\ j - n \notin 0 .. n - 1
      BY <2>7
    <3>2. t[j] = 0
      BY <2>3, <3>1
    <3>3. j \in Int /\ j - n \in Int
      OBVIOUS
    <3> HIDE DEF t, B
    <3> QED BY <2>1, <2>2, <2>4, <3>1, <3>2, <3>3
  <2> QED BY <2>5, <2>6, <2>7
<1>9. Ones(N4, t) = SymDiff(B, Conv(N4, {n}, B))
  <2>1. Conv(N4, {n}, B) \subseteq 0 .. N4 - 1
    BY ConvType DEF Poly
  <2> HIDE DEF t, B
  <2> QED BY <1>2, <1>8, <2>1 DEF Ones, SymDiff
<1> HIDE DEF t
<1> QED BY <1>4, <1>7, <1>9 DEF t

(* The partial sums of TimesQ. *)
Partial(n, t, s) == s = [i \in 0 .. n |-> IF i = 0 THEN 0 ELSE s[i - 1] + t[i - 1]]

(* They exist, which a least number of terms without them would contradict. *)
LEMMA PartialExists ==
  ASSUME NEW n \in Nat, NEW t \in [0 .. n - 1 -> Int]
  PROVE  \E s \in [0 .. n -> Int] : Partial(n, t, s)
<1> DEFINE T == {m \in 0 .. n : ~\E s \in [0 .. m -> Int] : Partial(m, t, s)}
<1>1. T = {}
  <2> SUFFICES ASSUME T # {} PROVE FALSE
    OBVIOUS
  <2>1. PICK m \in T : \A y \in T : m <= y
    <3>1. T \in SUBSET Nat
      OBVIOUS
    <3> HIDE DEF T
    <3> QED BY <3>1, Smallest
  <2>2. m \in 0 .. n /\ ~\E s \in [0 .. m -> Int] : Partial(m, t, s)
    BY <2>1
  <2>3. CASE m = 0
    <3> DEFINE s == [i \in 0 .. 0 |-> 0]
    <3>1. s \in [0 .. 0 -> Int] /\ Partial(0, t, s)
      BY DEF Partial
    <3> QED BY <2>2, <2>3, <3>1
  <2>4. CASE m # 0
    <3> DEFINE b == m - 1
    <3>1. b \in 0 .. n /\ b < m /\ m = b + 1 /\ b \in 0 .. n - 1 /\ b \in Nat
      BY <2>2, <2>4
    <3>2. b \notin T
      BY <2>1, <3>1
    <3>3. PICK s \in [0 .. b -> Int] : Partial(b, t, s)
      BY <3>1, <3>2
    <3> HIDE DEF b, T
    <3> DEFINE u == [i \in 0 .. m |-> IF i = m THEN s[b] + t[b] ELSE s[i]]
    <3>4. t[b] \in Int /\ s[b] \in Int /\ \A i \in 0 .. b : s[i] \in Int
      BY <3>1
    <3>5. \A i \in 0 .. m : i = m \/ i \in 0 .. b
      BY <3>1
    <3>6. u \in [0 .. m -> Int]
      BY <3>4, <3>5
    <3>7. \A i \in 0 .. b : s[i] = IF i = 0 THEN 0 ELSE s[i - 1] + t[i - 1]
      BY <3>3 DEF Partial
    <3>8. ASSUME NEW i \in 0 .. m PROVE u[i] = IF i = 0 THEN 0 ELSE u[i - 1] + t[i - 1]
      <4>1. CASE i = m
        <5>1. i # 0 /\ i - 1 = b /\ b \in 0 .. m /\ b # m
          BY <3>1, <4>1
        <5>2. u[i] = s[b] + t[b] /\ u[b] = s[b]
          BY <4>1, <5>1
        <5> HIDE DEF u
        <5> QED BY <5>1, <5>2
      <4>2. CASE i # m /\ i = 0
        <5>1. u[i] = s[i] /\ i \in 0 .. b
          BY <3>5, <4>2
        <5> HIDE DEF u
        <5> QED BY <3>7, <4>2, <5>1
      <4>3. CASE i # m /\ i # 0
        <5>1. i \in 0 .. b /\ i - 1 \in 0 .. m /\ i - 1 # m
          BY <3>1, <3>5, <4>3
        <5>2. u[i] = s[i] /\ u[i - 1] = s[i - 1]
          BY <4>3, <5>1
        <5> HIDE DEF u
        <5> QED BY <3>7, <4>3, <5>1, <5>2
      <4> QED BY <4>1, <4>2, <4>3
    <3>9. Partial(m, t, u)
      <4>1. u = [i \in 0 .. m |-> u[i]]
        OBVIOUS
      <4>2. u = [i \in 0 .. m |-> IF i = 0 THEN 0 ELSE u[i - 1] + t[i - 1]]
        <5> HIDE DEF u
        <5> QED BY <3>8, <4>1
      <4> QED BY <4>2 DEF Partial
    <3> HIDE DEF u
    <3> QED BY <2>2, <3>6, <3>9
  <2> QED BY <2>3, <2>4
<1>2. n \in 0 .. n
  OBVIOUS
<1>3. n \notin T
  <2> HIDE DEF T
  <2> QED BY <1>1
<1> QED BY <1>2, <1>3

(* They are integers. *)
LEMMA PartialType ==
  ASSUME NEW n \in Nat, NEW t \in [0 .. n - 1 -> Int], NEW s, Partial(n, t, s)
  PROVE  \A i \in 0 .. n : s[i] \in Int
<1> DEFINE T == {i \in 0 .. n : s[i] \notin Int}
<1>1. \A i \in 0 .. n : s[i] = IF i = 0 THEN 0 ELSE s[i - 1] + t[i - 1]
  BY DEF Partial
<1>2. SUFFICES ASSUME T # {} PROVE FALSE
  OBVIOUS
<1>3. PICK m \in T : \A y \in T : m <= y
  <2>1. T \in SUBSET Nat
    OBVIOUS
  <2> HIDE DEF T
  <2> QED BY <1>2, <2>1, Smallest
<1>4. m \in 0 .. n /\ s[m] \notin Int
  BY <1>3
<1>5. m # 0 /\ s[m] = s[m - 1] + t[m - 1]
  BY <1>1, <1>4
<1>6. m - 1 \in 0 .. n /\ m - 1 \in 0 .. n - 1 /\ ~(m <= m - 1)
  BY <1>4, <1>5
<1>7. s[m - 1] \in Int /\ t[m - 1] \in Int
  BY <1>3, <1>6
<1> QED BY <1>4, <1>5, <1>7

(* The parity of two integers. *)
LEMMA TwoOdd ==
  ASSUME NEW x \in Int, NEW y \in Int
  PROVE  (x + y) % 2 = 1 <=> ~(x % 2 = 1 <=> y % 2 = 1)
OBVIOUS

(* The parity of a sum is that of the number of its odd terms. *)
LEMMA PartialParity ==
  ASSUME NEW n \in Nat, NEW t \in [0 .. n - 1 -> Int], NEW s, Partial(n, t, s)
  PROVE  s[n] % 2 = 1 <=> Odd(OddAt(n, t))
<1> DEFINE T == {i \in 0 .. n : ~(s[i] % 2 = 1 <=> Odd(OddAt(i, t)))}
<1>1. \A i \in 0 .. n : s[i] \in Int /\ s[i] = IF i = 0 THEN 0 ELSE s[i - 1] + t[i - 1]
  BY PartialType DEF Partial
<1>2. \A i \in Nat : IsFiniteSet(OddAt(i, t))
  <2> TAKE i \in Nat
  <2>1. 0 \in Int /\ i - 1 \in Int
    OBVIOUS
  <2>2. IsFiniteSet(0 .. i - 1)
    BY <2>1, FS_Interval, Zenon
  <2>3. OddAt(i, t) \subseteq 0 .. i - 1
    BY DEF OddAt
  <2> QED BY <2>2, <2>3, FS_Subset, Zenon
<1>3. T = {}
  <2> SUFFICES ASSUME T # {} PROVE FALSE
    OBVIOUS
  <2>1. PICK m \in T : \A y \in T : m <= y
    <3>1. T \in SUBSET Nat
      OBVIOUS
    <3> HIDE DEF T
    <3> QED BY <3>1, Smallest
  <2>2. m \in 0 .. n /\ ~(s[m] % 2 = 1 <=> Odd(OddAt(m, t)))
    BY <2>1
  <2>3. m # 0
    <3> SUFFICES ASSUME m = 0 PROVE FALSE
      OBVIOUS
    <3>1. s[m] = 0 /\ OddAt(m, t) = {}
      BY <1>1, <2>2 DEF OddAt
    <3>2. s[m] % 2 = 0
      BY <3>1
    <3>3. 0 # 1
      OBVIOUS
    <3> HIDE DEF T
    <3> QED BY <2>2, <3>1, <3>2, <3>3, OddSmall, Zenon
  <2> DEFINE b == m - 1
  <2>4. b \in 0 .. n /\ b \in 0 .. n - 1 /\ m = b + 1 /\ ~(m <= b) /\ b \in Nat
    BY <2>2, <2>3
  <2>5. s[b] % 2 = 1 <=> Odd(OddAt(b, t))
    BY <2>1, <2>4
  <2>6. s[m] = s[b] + t[b]
    BY <1>1, <2>2, <2>3
  <2> HIDE DEF b, T
  <2>7. s[b] \in Int /\ t[b] \in Int
    BY <1>1, <2>4
  <2>8. s[m] % 2 = 1 <=> ~(s[b] % 2 = 1 <=> t[b] % 2 = 1)
    <3>1. (s[b] + t[b]) % 2 = 1 <=> ~(s[b] % 2 = 1 <=> t[b] % 2 = 1)
      BY <2>7, TwoOdd, Zenon
    <3> QED BY <2>6, <3>1, Zenon
  <2> DEFINE B == IF t[b] % 2 = 1 THEN {b} ELSE {}
  <2>9. OddAt(m, t) = OddAt(b, t) \cup B /\ OddAt(b, t) \cap B = {}
    <3>1. \A i : i \in 0 .. m - 1 <=> i \in 0 .. b - 1 \/ i = b
      BY <2>4
    <3>2. b \notin 0 .. b - 1
      BY <2>4
    <3> QED BY <3>1, <3>2 DEF OddAt
  <2>10. IsFiniteSet(B) /\ (Odd(B) <=> t[b] % 2 = 1)
    BY FS_Singleton, FS_EmptySet, OddSmall
  <2>11. Odd(OddAt(b, t) \cup B) <=> ~(Odd(OddAt(b, t)) <=> Odd(B))
    <3> HIDE DEF B
    <3> QED BY <1>2, <2>4, <2>9, <2>10, OddUnion
  <2> HIDE DEF B
  <2>12. Odd(OddAt(m, t)) <=> ~(Odd(OddAt(b, t)) <=> t[b] % 2 = 1)
    BY <2>9, <2>10, <2>11, Zenon
  <2> QED BY <2>2, <2>5, <2>8, <2>12, Zenon
<1>4. n \in 0 .. n /\ n \notin T
  <2>1. n \in 0 .. n
    OBVIOUS
  <2> HIDE DEF T
  <2> QED BY <1>3, <2>1
<1> QED BY <1>4

(* A sum as the model writes it. *)
LEMMA SumParity ==
  ASSUME NEW n \in Nat, NEW t \in [0 .. n - 1 -> Int]
  PROVE  Sum(n, LAMBDA i : t[i]) % 2 = 1 <=> Odd(OddAt(n, t))
<1> DEFINE body(s) == [i \in 0 .. n |-> IF i = 0 THEN 0 ELSE s[i - 1] + t[i - 1]]
           c == CHOOSE s : s = body(s)
<1>1. Sum(n, LAMBDA i : t[i]) = c[n]
  BY DEF Sum
<1>2. \E s : s = body(s)
  <2>1. \E s : Partial(n, t, s)
    BY PartialExists
  <2> QED BY <2>1 DEF Partial
<1>3. c = body(c)
  <2> HIDE DEF body
  <2> QED BY <1>2
<1>4. Partial(n, t, c)
  <2> HIDE DEF c
  <2> QED BY <1>3 DEF Partial
<1> HIDE DEF c
<1> QED BY <1>1, <1>4, PartialParity

(* Folding keeps the parity of the number of terms. *)
LEMMA FoldParity ==
  ASSUME NEW n \in Nat \ {0}, NEW S \in SUBSET Nat, IsFiniteSet(S)
  PROVE  Odd(S) <=> Odd(FoldSet(n, S))
<1> DEFINE r == [x \in S |-> x % n]
<1>1. r \in [S -> 0 .. n - 1]
  <2> SUFFICES ASSUME NEW x \in S PROVE x % n \in 0 .. n - 1
    OBVIOUS
  <2>1. x \in Int
    OBVIOUS
  <2> QED BY <2>1, Quotient
<1>2. Odd(S) <=> Odd(Rows(S, r, n))
  <2> HIDE DEF r
  <2> QED BY <1>1, OddRows
<1>3. Rows(S, r, n) = FoldSet(n, S)
  BY DEF Rows, FoldSet
<1> HIDE DEF r
<1> QED BY <1>2, <1>3

(* TimesQ returns integers: the least exponent at which a partial sum is    *)
(* none does not exist.                                                     *)
LEMMA TimesQType ==
  ASSUME N4 \in Nat \ {0}, Q \in Nat \ {0}, NEW p \in [0 .. N - 1 -> Int], NEW q \in [0 .. N - 1 -> Int]
  PROVE  TimesQ(p, q) \in [0 .. N - 1 -> Int]
<1>1. N \in Nat \ {0} /\ Q2 \in Int
  BY DEF N, Q2
<1> DEFINE term(j, i) == IF i <= j THEN p[i] * q[j - i] ELSE -p[i] * q[N + j - i]
           body(j, s) == [i \in 0 .. N |-> IF i = 0 THEN 0 ELSE s[i - 1] + term(j, i - 1)]
           sum(j) == (CHOOSE s : s = body(j, s))[N]
<1>2. ASSUME NEW j \in 0 .. N - 1 PROVE sum(j) \in Int
  <2> DEFINE t == [i \in 0 .. N - 1 |-> term(j, i)]
  <2>1. t \in [0 .. N - 1 -> Int]
    <3> SUFFICES ASSUME NEW i \in 0 .. N - 1 PROVE term(j, i) \in Int
      OBVIOUS
    <3>1. CASE i <= j
      <4>1. j - i \in 0 .. N - 1
        BY <1>1, <3>1
      <4>2. p[i] \in Int /\ q[j - i] \in Int
        BY <4>1
      <4> QED BY <3>1, <4>2
    <3>2. CASE ~(i <= j)
      <4>1. N + j - i \in 0 .. N - 1
        BY <1>1, <3>2
      <4>2. p[i] \in Int /\ q[N + j - i] \in Int
        BY <4>1
      <4> QED BY <3>2, <4>2
    <3> QED BY <3>1, <3>2
  <2>2. \A i \in 0 .. N : i # 0 => t[i - 1] = term(j, i - 1)
    BY <1>1
  <2> HIDE DEF t, term
  <2>3. \A s : Partial(N, t, s) <=> s = body(j, s)
    BY <2>2 DEF Partial
  <2>4. \E s : s = body(j, s)
    <3>1. \E s : Partial(N, t, s)
      BY <1>1, <2>1, PartialExists
    <3> HIDE DEF body
    <3> QED BY <2>3, <3>1
  <2> DEFINE c == CHOOSE s : s = body(j, s)
  <2>5. c = body(j, c)
    <3> HIDE DEF body
    <3> QED BY <2>4
  <2>6. c[N] \in Int
    <3>1. Partial(N, t, c)
      <4> HIDE DEF body, c
      <4> QED BY <2>3, <2>5
    <3> HIDE DEF c
    <3>2. N \in Nat /\ N \in 0 .. N
      BY <1>1
    <3> QED BY <2>1, <3>1, <3>2, PartialType
  <2> QED BY <2>6
<1>3. TimesQ(p, q) = [j \in 0 .. N - 1 |-> Centre(sum(j))]
  BY DEF TimesQ, Sum
<1>4. \A x \in Int : Centre(x) \in Int
  BY <1>1 DEF Centre
<1> HIDE DEF sum
<1> QED BY <1>2, <1>3, <1>4

-----------------------------------------------------------------------------
(* What the variables are while the proofs look at them. *)
Types ==
  /\ phase \in {"f", "invert", "g", "keys", "packed", "sent", "multiplied", "decrypted"}
  /\ phase \in {"f", "invert", "g", "keys"} =>
       /\ tries \in [0 .. Nonces - 1 -> [f : Samples, fOk : BOOLEAN, gOk : BOOLEAN]]
       /\ nonce \in 0 .. Nonces - 1
  /\ f \in Samples /\ finv \in Bits(N4) /\ msg \in Bits(N4)
  /\ phase = "invert" => k \in Bits(N4)
  /\ phase \notin {"f", "invert"} => level = N4
  /\ phase = "sent" => ct \in [0 .. N - 1 -> Int]
  /\ phase \in {"multiplied", "decrypted"} => a \in [0 .. N - 1 -> Int]

(* The sizes of the polynomials and the sets of inputs. *)
LEMMA Sizes ==
  /\ N4 \in Nat \ {0, 1} /\ N4 \in Nat \ {0} /\ N2 \in Nat \ {0} /\ N \in Nat \ {0} /\ N2 = 2 * N4 /\ N = 4 * N4
  /\ Q \in Nat \ {0} /\ Q2 \in Int /\ QInv \in Int /\ Mont \in Int /\ Nonces \in Nat \ {0}
  /\ Samples \subseteq [0 .. N - 1 -> -1 .. 1] /\ Messages \subseteq Bits(N4)
  /\ \A b \in Blurs : \A j \in 0 .. N - 1 : b[j] \in Int
<1>1. N2 = 2 * N4 /\ N = 4 * N4 /\ Q2 = Q \div 2
  BY DEF N2, N, Q2
<1>2. N4 \in Nat \ {0, 1} /\ Q \in Nat \ {0}
  BY ZenAssumption
<1>3. N4 \in Nat \ {0} /\ N2 \in Nat \ {0} /\ N \in Nat \ {0} /\ Q2 \in Int
  BY <1>1, <1>2
<1>4. \A b \in Blurs : \A j \in 0 .. N - 1 : b[j] \in Int
  BY ZenAssumption
<1>5. /\ QInv \in Int /\ Mont \in Int /\ Nonces \in Nat \ {0}
      /\ Samples \subseteq [0 .. N - 1 -> -1 .. 1] /\ Messages \subseteq Bits(N4)
  BY ZenAssumption DEF Bits
<1> QED BY <1>1, <1>2, <1>3, <1>4, <1>5

(* The nonce stays one byte. *)
LEMMA NonceComesRound ==
  ASSUME NEW x \in Int
  PROVE  x % Nonces \in 0 .. Nonces - 1
BY Sizes, Quotient

(* The polynomials 1 and 0. *)
LEMMA OneIs == One \in Bits(N4) /\ Zero(N4) \in Bits(N4) /\ Ones(N4, One) = {0}
<1>1. N4 \in Nat \ {0}
  BY Sizes
<1> QED BY <1>1 DEF One, Zero, Bits, Ones

(* A compressed ciphertext has integers for its coefficients. *)
LEMMA CipherIsInt ==
  ASSUME NEW m \in Messages, NEW blur \in Blurs
  PROVE  [j \in 0 .. N - 1 |-> Compress((blur[j] + m[j % N4] * ((Q + 1) \div 2)) % Q)] \in [0 .. N - 1 -> Int]
<1> SUFFICES ASSUME NEW j \in 0 .. N - 1
             PROVE  Compress((blur[j] + m[j % N4] * ((Q + 1) \div 2)) % Q) \in Int
  OBVIOUS
<1> DEFINE h == (Q + 1) \div 2
           b == blur[j]
           i == j % N4
           e == m[i]
<1>1. b \in Int /\ h \in Int /\ Q \in Nat \ {0}
  BY Sizes
<1>2. i \in 0 .. N4 - 1
  <2>1. j \in Int /\ N4 \in Nat \ {0}
    BY Sizes
  <2> QED BY <2>1, Quotient
<1>3. e \in {0, 1}
  <2>1. m \in Bits(N4)
    BY Sizes
  <2> HIDE DEF i
  <2> QED BY <1>2, <2>1 DEF Bits
<1> HIDE DEF h, b, e
<1>4. b + e * h \in Int
  BY <1>1, <1>3
<1>5. (b + e * h) % Q \in Int
  BY <1>1, <1>4, Quotient
<1>6. \A x \in Int : Compress(x) \in Int
  BY DEF Compress
<1> QED BY <1>5, <1>6 DEF h, b, e, i

(* So has what the Montgomery reduction returns. *)
LEMMA ReducedIsInt ==
  ASSUME NEW x \in Int
  PROVE  MontgomeryReduce(x) \in Int
<1>1. \A y \in Int : Signed16(y) \in Int
  BY DEF Signed16
<1>2. Signed16(x) * QInv \in Int
  BY <1>1, Sizes
<1>3. Signed16(Signed16(x) * QInv) * Q \in Int
  BY <1>1, <1>2, Sizes
<1> QED BY <1>3 DEF MontgomeryReduce

(* And the product of Multiply, whatever poly_intt leaves of it. *)
LEMMA ProductIsInt ==
  ASSUME NEW c \in [0 .. N - 1 -> Int], NEW g \in Samples, NEW far, NEW wrap \in Wraps
  PROVE  LET t == TimesQ([j \in 0 .. N - 1 |-> Decompress(c[j])], g)
         IN  LET p == [j \in 0 .. N - 1 |-> Leave(Centre(t[j] + wrap[j]), j \in far)]
             IN  [j \in 0 .. N - 1 |-> MontgomeryReduce((IF j < N2 THEN p[j + N2] - p[j] ELSE p[j - N2] + p[j]) * Mont)]
                   \in [0 .. N - 1 -> Int]
<1> DEFINE d == [j \in 0 .. N - 1 |-> Decompress(c[j])]
           t == TimesQ(d, g)
           p == [j \in 0 .. N - 1 |-> Leave(Centre(t[j] + wrap[j]), j \in far)]
<1>1. d \in [0 .. N - 1 -> Int]
  <2>1. \A x \in Int : Decompress(x) \in Int
    BY Sizes DEF Decompress
  <2> QED BY <2>1
<1>2. g \in [0 .. N - 1 -> Int]
  BY Sizes
<1>3. t \in [0 .. N - 1 -> Int]
  <2> HIDE DEF d
  <2> QED BY <1>1, <1>2, Sizes, TimesQType
<1> HIDE DEF t
<1>4. p \in [0 .. N - 1 -> Int]
  <2>1. \A x \in Int : Centre(x) \in Int
    BY Sizes DEF Centre
  <2>2. \A x \in Int, y \in BOOLEAN : Leave(x, y) \in Int
    BY Sizes DEF Leave, Other
  <2>3. wrap \in [0 .. N - 1 -> Int]
    BY ZenAssumption
  <2>4. ASSUME NEW j \in 0 .. N - 1 PROVE Leave(Centre(t[j] + wrap[j]), j \in far) \in Int
    <3> DEFINE x == Centre(t[j] + wrap[j])
               y == j \in far
    <3>1. x \in Int
      <4>1. t[j] + wrap[j] \in Int
        BY <1>3, <2>3
      <4> QED BY <2>1, <4>1
    <3>2. y \in BOOLEAN
      OBVIOUS
    <3> HIDE DEF x, y
    <3>3. Leave(x, y) \in Int
      BY <2>2, <3>1, <3>2
    <3> QED BY <3>3 DEF x, y
  <2> QED BY <2>4
<1> HIDE DEF p
<1>5. ASSUME NEW j \in 0 .. N - 1
      PROVE  (IF j < N2 THEN p[j + N2] - p[j] ELSE p[j - N2] + p[j]) * Mont \in Int
  <2>1. CASE j < N2
    <3>1. j + N2 \in 0 .. N - 1
      BY <2>1, Sizes
    <3>2. p[j + N2] - p[j] \in Int
      BY <1>4, <3>1
    <3> QED BY <2>1, <3>2, Sizes
  <2>2. CASE ~(j < N2)
    <3>1. j - N2 \in 0 .. N - 1
      BY <2>2, Sizes
    <3>2. p[j - N2] + p[j] \in Int
      BY <1>4, <3>1
    <3> QED BY <2>2, <3>2, Sizes
  <2> QED BY <2>1, <2>2
<1>6. [j \in 0 .. N - 1 |-> MontgomeryReduce((IF j < N2 THEN p[j + N2] - p[j] ELSE p[j - N2] + p[j]) * Mont)]
        \in [0 .. N - 1 -> Int]
  BY <1>5, ReducedIsInt
<1> QED BY <1>6 DEF p, t

(* Products over {0,1} and quotients have bits for coefficients. *)
LEMMA DecodedIsBits ==
  ASSUME NEW p, NEW q
  PROVE  Times2(N4, p, q) \in Bits(N4) /\ Divide(p, 1) \in Bits(N4)
<1>1. 1 \in Nat \ {0}
  OBVIOUS
<1> QED BY <1>1, Sizes, Times2Is, DivideIs

(* So have k and finv after a level. *)
LEMMA LevelStep ==
  ASSUME NEW n \in 1 .. N4 - 1, 2 * n <= N4, NEW b \in Bits(n), NEW p, NEW v \in Bits(N4)
  PROVE  /\ Divide(p, n) \in Bits(N4)
         /\ Xor(v, [j \in 0 .. N4 - 1 |-> IF j < 2 * n THEN b[j % n] ELSE 0]) \in Bits(N4)
<1>1. n \in Nat \ {0} /\ N4 \in Nat \ {0}
  BY Sizes
<1> DEFINE t == [j \in 0 .. N4 - 1 |-> IF j < 2 * n THEN b[j % n] ELSE 0]
<1>2. t \in Bits(N4)
  BY <1>1, TwiceIs
<1>3. Xor(v, t) \in Bits(N4)
  <2> HIDE DEF t
  <2> QED BY <1>1, <1>2, XorIs
<1> QED BY <1>1, <1>3, DivideIs

(* The level after a proper divisor of N4 divides N4: here N4 has to be a   *)
(* power of two.                                                            *)
LEMMA NextPower ==
  ASSUME NEW n \in 1 .. N4 - 1, N4 % n = 0
  PROVE  N4 % (2 * n) = 0 /\ 2 * n <= N4
<1>1. N4 % (2 * n) = 0
  BY ZenAssumption DEF PowerOfTwo
<1>2. N4 \in Nat \ {0} /\ 2 * n \in Nat \ {0}
  BY Sizes
<1>3. ASSUME N4 < 2 * n PROVE FALSE
  <2>1. N4 \in 0 .. (2 * n) - 1
    BY <1>2, <1>3
  <2>2. N4 % (2 * n) = N4
    BY <1>2, <2>1, ModSmall
  <2> QED BY <1>1, <1>2, <2>2
<1> QED BY <1>1, <1>2, <1>3

(* One iteration of FastInversion's loop, on the model's operators: a level *)
(* n becomes a level 2 n.                                                   *)
LEMMA InvertOneLevel ==
  ASSUME NEW n \in 1 .. N4 - 1, NEW F \in Bits(N4), NEW v \in Bits(N4), NEW h \in Bits(N4),
         Level(N4, n, Ones(N4, F), Ones(N4, v), Ones(N4, h))
  PROVE  LET b == Times2(n, v, Fold(h, N4, n))
             h2 == Divide(Xor(h, Times2(N4, Extend(b, n), F)), n)
             v2 == Xor(v, [j \in 0 .. N4 - 1 |-> IF j < 2 * n THEN b[j % n] ELSE 0])
         IN  /\ v2 \in Bits(N4) /\ h2 \in Bits(N4)
             /\ Level(N4, 2 * n, Ones(N4, F), Ones(N4, v2), Ones(N4, h2))
<1> DEFINE b == Times2(n, v, Fold(h, N4, n))
           e == Extend(b, n)
           bF == Times2(N4, e, F)
           w == Xor(h, bF)
           h2 == Divide(w, n)
           t == [j \in 0 .. N4 - 1 |-> IF j < 2 * n THEN b[j % n] ELSE 0]
           v2 == Xor(v, t)
           B == Conv(n, Ones(N4, v), FoldSet(n, Ones(N4, h)))
           W == SymDiff(Ones(N4, h), Conv(N4, B, Ones(N4, F)))
<1>1. N4 \in Nat \ {0} /\ n \in Nat \ {0} /\ n \in 1 .. N4 /\ N4 % n = 0 /\ Ones(N4, v) \in Poly(n)
  BY Sizes DEF Level
<1>2. N4 % (2 * n) = 0 /\ 2 * n <= N4
  BY <1>1, NextPower
<1>3. Ones(n, v) = Ones(N4, v)
  <2>1. Ones(N4, v) \subseteq 0 .. n - 1 /\ 0 .. n - 1 \subseteq 0 .. N4 - 1
    BY <1>1 DEF Poly
  <2> QED BY <2>1 DEF Ones
<1>4. b \in Bits(n) /\ Ones(n, b) = B
  <2> DEFINE g == Fold(h, N4, n)
  <2>1. Ones(n, g) = FoldSet(n, Ones(N4, h))
    BY <1>1, FoldIs
  <2>2. b \in Bits(n) /\ Ones(n, b) = Conv(n, Ones(n, v), Ones(n, g))
    BY <1>1, Times2Is
  <2> HIDE DEF g
  <2> QED BY <1>3, <2>1, <2>2
<1> HIDE DEF b
<1>5. e \in Bits(N4) /\ Ones(N4, e) = B
  BY <1>1, <1>4, ExtendIs
<1> HIDE DEF e
<1>6. bF \in Bits(N4) /\ Ones(N4, bF) = Conv(N4, B, Ones(N4, F))
  BY <1>1, <1>5, Times2Is
<1> HIDE DEF bF
<1>7. w \in Bits(N4) /\ Ones(N4, w) = W
  <2> HIDE DEF B
  <2> QED BY <1>1, <1>6, XorIs
<1> HIDE DEF w
<1>8. h2 \in Bits(N4) /\ Ones(N4, h2) = DivSet(N4, n, W)
  <2> HIDE DEF W
  <2> QED BY <1>1, <1>7, DivideIs
<1>9. t \in Bits(N4) /\ Ones(N4, t) = Conv(N4, XPlusOne(N4, n), B)
  <2> HIDE DEF B
  <2> QED BY <1>1, <1>2, <1>4, TwiceIs
<1> HIDE DEF t
<1>10. v2 \in Bits(N4) /\ Ones(N4, v2) = SymDiff(Ones(N4, v), Conv(N4, XPlusOne(N4, n), B))
  <2> HIDE DEF B
  <2> QED BY <1>1, <1>9, XorIs
<1>11. Level(N4, 2 * n, Ones(N4, F), SymDiff(Ones(N4, v), Conv(N4, XPlusOne(N4, n), B)), DivSet(N4, n, W))
  BY <1>1, <1>2, LevelDoubles
<1> HIDE DEF h2, v2, B, W
<1>12. v2 \in Bits(N4) /\ h2 \in Bits(N4) /\ Level(N4, 2 * n, Ones(N4, F), Ones(N4, v2), Ones(N4, h2))
  BY <1>8, <1>10, <1>11
<1> QED BY <1>12 DEF h2, v2, w, bF, e, b, t

(* FastInversion before its loop is at level 1. *)
LEMMA BeginInversion ==
  ASSUME NEW F \in Bits(N4), Odd(Ones(N4, F))
  PROVE  Level(N4, 1, Ones(N4, F), Ones(N4, One), Ones(N4, Divide(F, 1)))
<1>1. Ones(N4, F) \in Poly(N4) /\ 1 \in Nat \ {0}
  BY Sizes, OnesType
<1>2. Ones(N4, Divide(F, 1)) = DivSet(N4, 1, Ones(N4, F))
  BY <1>1, Sizes, DivideIs
<1>3. Level(N4, 1, Ones(N4, F), {0}, DivSet(N4, 1, Ones(N4, F)))
  BY <1>1, Sizes, LevelOne
<1> QED BY <1>2, <1>3, OneIs

(* A level n means that f times finv is 1 modulo x^n + 1. *)
LEMMA LevelIsInverse ==
  ASSUME NEW n, NEW g, NEW v \in Bits(N4), NEW K, Level(N4, n, Ones(N4, Fold(g, N, N4)), Ones(N4, v), K)
  PROVE  Times2(n, Fold(g, N, n), Fold(v, N4, n)) = [j \in 0 .. n - 1 |-> One[j]]
<1> DEFINE p == Fold(g, N, n)
           u == Fold(v, N4, n)
           t == Times2(n, p, u)
           o == [j \in 0 .. n - 1 |-> One[j]]
           F == Ones(N4, Fold(g, N, N4))
           V == Ones(N4, v)
           G == OddAt(N, g)
<1>1. n \in 1 .. N4 /\ n \in Nat \ {0} /\ N4 % n = 0 /\ V \in Poly(n) /\ N4 \in Nat \ {0} /\ N \in Nat \ {0}
  BY Sizes DEF Level
<1>2. Conv(n, FoldSet(n, F), V) = {0}
  <2>1. Level(N4, n, F, V, K)
    OBVIOUS
  <2> HIDE DEF F, V
  <2> QED BY <1>1, <2>1, LevelInverts
<1>3. G \subseteq Int /\ IsFiniteSet(G)
  <2>1. G \in Poly(N)
    BY <1>1, OnesType
  <2> HIDE DEF G
  <2> QED BY <1>1, <2>1, PolyFinite DEF Poly
<1>4. F = FoldSet(N4, G)
  BY <1>1, FoldIs
<1>5. FoldSet(n, F) = FoldSet(n, G)
  <2>1. G \in SUBSET Int
    BY <1>3
  <2> HIDE DEF F, G
  <2> QED BY <1>1, <1>3, <1>4, <2>1, FoldFold
<1>6. Ones(n, p) = FoldSet(n, G)
  BY <1>1, FoldIs
<1>7. Ones(n, u) = V
  <2>1. Ones(n, u) = FoldSet(n, V)
    BY <1>1, FoldIs
  <2>2. FoldSet(n, V) = V
    <3> HIDE DEF V
    <3> QED BY <1>1, FoldSmall
  <2> QED BY <2>1, <2>2
<1>8. t \in Bits(n) /\ Ones(n, t) = Conv(n, Ones(n, p), Ones(n, u))
  <2> HIDE DEF p, u
  <2> QED BY <1>1, Times2Is
<1>9. Ones(n, t) = {0}
  <2> HIDE DEF p, u, t, F, G, V
  <2> QED BY <1>2, <1>5, <1>6, <1>7, <1>8
<1>10. o \in Bits(n) /\ Ones(n, o) = {0}
  <2>1. \A j \in 0 .. n - 1 : j \in 0 .. N4 - 1 /\ One[j] = IF j = 0 THEN 1 ELSE 0
    BY <1>1 DEF One
  <2> QED BY <1>1, <2>1 DEF Bits, Ones
<1>11. t = o
  <2> HIDE DEF t, o
  <2> QED BY <1>1, <1>8, <1>9, <1>10, OnesEqual
<1> QED BY <1>11

(* FastInversion is always at a level: k is the quotient that makes finv    *)
(* right.                                                                   *)
Doubling ==
  phase = "invert" => Level(N4, level, Ones(N4, F2), Ones(N4, finv), Ones(N4, k))

(* The inductive invariant of key generation. *)
KeyInv == Types /\ Doubling /\ Inverts

(* It holds in the beginning. *)
LEMMA KeyInit == Init => KeyInv
<1> SUFFICES ASSUME Init PROVE KeyInv
  OBVIOUS
<1>1. phase = "f" /\ finv = One /\ msg = Zero(N4) /\ f = tries[0].f /\ nonce = 1 % Nonces
      /\ tries \in [0 .. Nonces - 1 -> [f : Samples, fOk : BOOLEAN, gOk : BOOLEAN]]
  BY DEF Init
<1>2. nonce \in 0 .. Nonces - 1 /\ 0 \in 0 .. Nonces - 1
  <2>1. 1 \in Int /\ Nonces \in Nat \ {0}
    BY Sizes
  <2>2. 1 % Nonces \in 0 .. Nonces - 1
    BY <2>1, NonceComesRound
  <2>3. 0 \in 0 .. Nonces - 1
    BY <2>1
  <2> QED BY <1>1, <2>2, <2>3
<1>3. f \in Samples
  BY <1>1, <1>2
<1>4. Types
  BY <1>1, <1>2, <1>3, OneIs DEF Types
<1> QED BY <1>1, <1>4 DEF KeyInv, Doubling, Inverts

(* A rejected candidate is replaced before anything is inverted. *)
LEMMA KeyRetry == KeyInv /\ RetryF => KeyInv'
<1> SUFFICES ASSUME KeyInv, RetryF PROVE KeyInv'
  OBVIOUS
<1>1. /\ phase = "f" /\ phase' = "f" /\ f' = tries[nonce].f /\ nonce' = (nonce + 1) % Nonces
      /\ tries' = tries /\ finv' = finv /\ msg' = msg
  BY DEF RetryF
<1>2. /\ tries \in [0 .. Nonces - 1 -> [f : Samples, fOk : BOOLEAN, gOk : BOOLEAN]]
      /\ nonce \in 0 .. Nonces - 1 /\ finv \in Bits(N4) /\ msg \in Bits(N4)
  BY <1>1 DEF KeyInv, Types
<1>3. nonce' \in 0 .. Nonces - 1
  BY <1>1, <1>2, NonceComesRound
<1>4. f' \in Samples
  BY <1>1, <1>2
<1>5. Types'
  BY <1>1, <1>2, <1>3, <1>4 DEF Types
<1> QED BY <1>1, <1>5 DEF KeyInv, Doubling, Inverts

(* An accepted one has an odd number of terms, which starts FastInversion   *)
(* at level 1.                                                              *)
LEMMA KeyAccept == KeyInv /\ AcceptF => KeyInv'
<1> SUFFICES ASSUME KeyInv, AcceptF PROVE KeyInv'
  OBVIOUS
<1>1. /\ phase = "f" /\ phase' = "invert" /\ level' = 1 /\ finv' = One /\ k' = Divide(F2, 1) /\ Invertible2
      /\ UNCHANGED <<tries, nonce, f, msg>>
  BY DEF AcceptF
<1>2. F2 \in Bits(N4)
  BY Sizes, FoldIs DEF F2
<1>3. Odd(Ones(N4, F2))
  BY <1>1 DEF Invertible2, Odd, Ones
<1>4. F2' = F2
  BY <1>1 DEF F2
<1>5. Level(N4, 1, Ones(N4, F2), Ones(N4, One), Ones(N4, Divide(F2, 1)))
  BY <1>2, <1>3, BeginInversion
<1>6. Level(N4, level', Ones(N4, F2'), Ones(N4, finv'), Ones(N4, k'))
  BY <1>1, <1>4, <1>5
<1>7. Types'
  BY <1>1, OneIs, DecodedIsBits DEF KeyInv, Types
<1>8. Times2(level', Fold(f', N, level'), Fold(finv', N4, level')) = [j \in 0 .. level' - 1 |-> One[j]]
  <2>1. Level(N4, level', Ones(N4, Fold(f', N, N4)), Ones(N4, finv'), Ones(N4, k'))
    BY <1>6 DEF F2
  <2>2. finv' \in Bits(N4)
    BY <1>1, OneIs
  <2> QED BY <2>1, <2>2, LevelIsInverse
<1> QED BY <1>6, <1>7, <1>8 DEF KeyInv, Doubling, Inverts

(* The loop of FastInversion. *)
LEMMA KeyLevel == KeyInv /\ InvertLevel => KeyInv'
<1> SUFFICES ASSUME KeyInv, InvertLevel PROVE KeyInv'
  OBVIOUS
<1> DEFINE b == Times2(level, finv, Fold(k, N4, level))
<1>1. /\ phase = "invert" /\ phase' = "invert" /\ level < N4 /\ level' = 2 * level
      /\ k' = Divide(Xor(k, Times2(N4, Extend(b, level), F2)), level)
      /\ finv' = Xor(finv, [j \in 0 .. N4 - 1 |-> IF j < 2 * level THEN b[j % level] ELSE 0])
      /\ UNCHANGED <<tries, nonce, f, msg>>
  BY DEF InvertLevel
<1>2. /\ finv \in Bits(N4) /\ k \in Bits(N4)
      /\ Level(N4, level, Ones(N4, F2), Ones(N4, finv), Ones(N4, k))
  BY <1>1 DEF KeyInv, Types, Doubling
<1>3. level \in 1 .. N4 - 1
  <2>1. level \in 1 .. N4
    BY <1>2 DEF Level
  <2> QED BY <1>1, <2>1, Sizes
<1>4. F2 \in Bits(N4) /\ F2' = F2
  BY <1>1, Sizes, FoldIs DEF F2
<1>5. finv' \in Bits(N4) /\ k' \in Bits(N4) /\ Level(N4, level', Ones(N4, F2'), Ones(N4, finv'), Ones(N4, k'))
  BY <1>1, <1>2, <1>3, <1>4, InvertOneLevel
<1> HIDE DEF b
<1>6. Types'
  BY <1>1, <1>5 DEF KeyInv, Types
<1>7. Times2(level', Fold(f', N, level'), Fold(finv', N4, level')) = [j \in 0 .. level' - 1 |-> One[j]]
  <2>1. Level(N4, level', Ones(N4, Fold(f', N, N4)), Ones(N4, finv'), Ones(N4, k'))
    BY <1>5 DEF F2
  <2> QED BY <1>5, <2>1, LevelIsInverse
<1> QED BY <1>5, <1>6, <1>7 DEF KeyInv, Doubling, Inverts

(* Everything else leaves f and its inverse alone. *)
LEMMA InvertsStays ==
  Inverts /\ phase # "f" /\ UNCHANGED <<level, f, finv>> => Inverts'
BY DEF Inverts

(* Every step preserves the invariant. *)
LEMMA KeyStep == KeyInv /\ [Next]_vars => KeyInv'
<1> SUFFICES ASSUME KeyInv, [Next]_vars PROVE KeyInv'
  OBVIOUS
<1>1. CASE RetryF
  BY <1>1, KeyRetry
<1>2. CASE AcceptF
  BY <1>2, KeyAccept
<1>3. CASE InvertLevel
  BY <1>3, KeyLevel
<1>4. CASE StartG
  <2>1. /\ phase = "invert" /\ phase' = "g" /\ level = N4 /\ nonce' = (nonce + 1) % Nonces
        /\ UNCHANGED <<tries, level, f, finv, msg>>
    BY <1>4 DEF StartG
  <2>2. nonce' \in 0 .. Nonces - 1
    <3>1. nonce \in Int
      BY <2>1 DEF KeyInv, Types
    <3> QED BY <2>1, <3>1, NonceComesRound
  <2>3. Types'
    BY <2>1, <2>2 DEF KeyInv, Types
  <2> QED BY <2>1, <2>3, InvertsStays DEF KeyInv, Doubling
<1>5. CASE TestG
  <2>1. /\ phase = "g" /\ phase' \in {"g", "keys"} /\ nonce' \in {nonce, (nonce + 1) % Nonces}
        /\ UNCHANGED <<tries, level, f, finv, msg>>
    BY <1>5 DEF TestG
  <2>2. nonce' \in 0 .. Nonces - 1
    <3>1. nonce \in Int /\ nonce \in 0 .. Nonces - 1
      BY <2>1 DEF KeyInv, Types
    <3> QED BY <2>1, <3>1, NonceComesRound
  <2>3. Types'
    BY <2>1, <2>2 DEF KeyInv, Types
  <2> QED BY <2>1, <2>3, InvertsStays DEF KeyInv, Doubling
<1>6. CASE Pack
  <2>1. phase = "keys" /\ phase' = "packed" /\ UNCHANGED <<level, f, finv, msg>>
    BY <1>6 DEF Pack
  <2>2. Types'
    BY <2>1 DEF KeyInv, Types
  <2> QED BY <2>1, <2>2, InvertsStays DEF KeyInv, Doubling
<1>7. CASE Encrypt
  <2>1. phase = "packed" /\ phase' = "sent" /\ UNCHANGED <<level, f, finv>>
    BY <1>7 DEF Encrypt, keygen
  <2>2. PICK m \in Messages, blur \in Blurs :
          /\ msg' = m
          /\ ct' = [j \in 0 .. N - 1 |-> Compress((blur[j] + m[j % N4] * ((Q + 1) \div 2)) % Q)]
    BY <1>7 DEF Encrypt
  <2>3. msg' \in Bits(N4) /\ ct' \in [0 .. N - 1 -> Int]
    BY <2>2, Sizes, CipherIsInt
  <2>4. Types'
    BY <2>1, <2>3 DEF KeyInv, Types
  <2> QED BY <2>1, <2>4, InvertsStays DEF KeyInv, Doubling
<1>8. CASE Multiply
  <2>1. phase = "sent" /\ phase' = "multiplied" /\ UNCHANGED <<level, f, finv, msg>>
    BY <1>8 DEF Multiply, keygen
  <2>2. a' \in [0 .. N - 1 -> Int]
    <3>1. ct \in [0 .. N - 1 -> Int] /\ f \in Samples
      BY <2>1 DEF KeyInv, Types
    <3> DEFINE t == TimesQ([j \in 0 .. N - 1 |-> Decompress(ct[j])], f)
               left(far, wrap) == [j \in 0 .. N - 1 |-> Leave(Centre(t[j] + wrap[j]), j \in far)]
               times(p) == [j \in 0 .. N - 1 |->
                              MontgomeryReduce((IF j < N2 THEN p[j + N2] - p[j] ELSE p[j - N2] + p[j]) * Mont)]
    <3>2. PICK far \in Fars, wrap \in Wraps : a' = times(left(far, wrap))
      BY <1>8 DEF Multiply
    <3>3. times(left(far, wrap)) \in [0 .. N - 1 -> Int]
      BY <3>1, ProductIsInt
    <3> HIDE DEF left, times
    <3> QED BY <3>2, <3>3
  <2>3. Types'
    BY <2>1, <2>2 DEF KeyInv, Types
  <2> QED BY <2>1, <2>3, InvertsStays DEF KeyInv, Doubling
<1>9. CASE SimpleDecode
  <2>1. phase = "multiplied" /\ phase' = "decrypted" /\ UNCHANGED <<level, f, finv, msg, a>>
    BY <1>9 DEF SimpleDecode, keygen
  <2>2. Types'
    BY <2>1 DEF KeyInv, Types
  <2> QED BY <2>1, <2>2, InvertsStays DEF KeyInv, Doubling
<1>10. CASE UNCHANGED vars
  BY <1>10 DEF vars, keygen, KeyInv, Types, Doubling, Inverts, F2
<1> QED BY <1>1, <1>2, <1>3, <1>4, <1>5, <1>6, <1>7, <1>8, <1>9, <1>10 DEF Next

(* At each level of FastInversion f times finv is 1 modulo x^level + 1, and *)
(* the secret key that is packed holds an inverse of f modulo 2 and x^N4 +  *)
(* 1: for every candidate with an odd number of terms and every power of    *)
(* two N4.                                                                  *)
THEOREM Inversion == Spec => []Inverts
<1>1. KeyInv => Inverts
  BY DEF KeyInv
<1> QED BY <1>1, KeyInit, KeyStep, PTL DEF Spec

-----------------------------------------------------------------------------
(* e selects one exponent per place: 0 where no parity is wrong, and the    *)
(* wrong one of i and i + N4 otherwise.  All places without an error select *)
(* exponent 0, which matters when their number is odd.                      *)
PlaceOf(e, Fl) ==
  \A i \in 0 .. N4 - 1 :
    \/ e[i] = 0 /\ i \notin Fl /\ i + N4 \notin Fl
    \/ e[i] \in {i, i + N4} /\ Fl \cap {i, i + N4} = {e[i]}

Extra(Fl) == IF Odd(Fl) THEN {0} ELSE {}

(* The polynomial SimpleDecode builds from the selected exponents: the      *)
(* errors, plus the term 1 when their number is odd.  N4 is even, so the    *)
(* places without an error are odd in number when those with one are.       *)
LEMMA Places ==
  ASSUME NEW e \in [0 .. N4 - 1 -> 0 .. N2 - 1], NEW Fl \in Poly(N2), PlaceOf(e, Fl)
  PROVE  {j \in 0 .. N2 - 1 : Odd({i \in 0 .. N4 - 1 : e[i] = j})} = SymDiff(Fl, Extra(Fl))
<1> DEFINE E == {i \in 0 .. N4 - 1 : i \in Fl \/ i + N4 \in Fl}
           Z == {i \in 0 .. N4 - 1 : i \notin Fl /\ i + N4 \notin Fl}
           g == [i \in E |-> e[i]]
           At(j) == {i \in 0 .. N4 - 1 : e[i] = j}
           half(j) == IF j < N4 THEN j ELSE j - N4
<1>1. N4 \in Nat \ {0, 1} /\ N2 = 2 * N4 /\ Fl \subseteq 0 .. N2 - 1
  BY Sizes DEF Poly
<1>2. \A j \in Fl : half(j) \in E /\ j \in {half(j), half(j) + N4}
  BY <1>1
<1>3. \A i \in E : e[i] \in {i, i + N4} /\ Fl \cap {i, i + N4} = {e[i]}
  BY DEF PlaceOf
<1>4. \A i \in Z : e[i] = 0
  BY DEF PlaceOf
<1>5. IsFiniteSet(E) /\ IsFiniteSet(Z) /\ E \cap Z = {} /\ E \cup Z = 0 .. N4 - 1
  <2>0. IsFiniteSet(0 .. N4 - 1)
    BY <1>1, FS_Interval
  <2>1. E \subseteq 0 .. N4 - 1 /\ Z \subseteq 0 .. N4 - 1
    OBVIOUS
  <2>2. IsFiniteSet(E) /\ IsFiniteSet(Z)
    <3> HIDE DEF E, Z
    <3> QED BY <2>0, <2>1, FS_Subset
  <2> QED BY <2>2
<1>6. ~Odd(0 .. N4 - 1)
  <2>1. N4 % 1 = 0 /\ 1 \in 1 .. N4 - 1
    BY <1>1
  <2>2. N4 % (2 * 1) = 0
    BY <2>1, NextPower
  <2>3. Cardinality(0 .. N4 - 1) = N4
    BY <1>1, FS_Interval
  <2> QED BY <1>1, <2>2, <2>3 DEF Odd
<1>7. Odd(E) <=> Odd(Fl)
  <2>1. g \in [E -> Fl]
    BY <1>3
  <2>2. \A x, y \in E : g[x] = g[y] => x = y
    <3> TAKE x, y \in E
    <3>1. g[x] \in {x, x + N4} /\ g[y] \in {y, y + N4} /\ x \in 0 .. N4 - 1 /\ y \in 0 .. N4 - 1
      BY <1>3
    <3> HIDE DEF g, E
    <3> QED BY <1>1, <3>1
  <2>3. \A z \in Fl : \E x \in E : g[x] = z
    <3> TAKE z \in Fl
    <3>1. half(z) \in E /\ z \in {half(z), half(z) + N4}
      BY <1>2
    <3>2. g[half(z)] = z
      <4>1. g[half(z)] = e[half(z)]
        <5> HIDE DEF half, E
        <5> QED BY <3>1
      <4>2. Fl \cap {half(z), half(z) + N4} = {e[half(z)]}
        <5> HIDE DEF half, E
        <5> QED BY <1>3, <3>1
      <4> HIDE DEF half, E, g
      <4> QED BY <3>1, <4>1, <4>2
    <3> HIDE DEF half, E, g
    <3> QED BY <3>1, <3>2
  <2>4. IsFiniteSet(E)
    BY <1>5
  <2> HIDE DEF E, g, half
  <2> QED BY <2>1, <2>2, <2>3, <2>4, OddBijection, ZenonT(60)
<1>8. Odd(Z) <=> Odd(Fl)
  <2>1. Odd(E \cup Z) <=> ~(Odd(E) <=> Odd(Z))
    <3> HIDE DEF E, Z
    <3> QED BY <1>5, OddUnion
  <2> HIDE DEF E, Z
  <2> QED BY <1>5, <1>6, <1>7, <2>1
<1>9. ASSUME NEW j \in 0 .. N2 - 1, NEW i \in E PROVE e[i] = j <=> j \in Fl /\ i = half(j)
  <2>1. i \in 0 .. N4 - 1 /\ e[i] \in {i, i + N4} /\ Fl \cap {i, i + N4} = {e[i]}
    BY <1>3
  <2>2. j \in {i, i + N4} <=> i = half(j)
    BY <1>1, <2>1
  <2> HIDE DEF half, E
  <2> QED BY <2>1, <2>2
<1>10. ASSUME NEW j \in 0 .. N2 - 1, j # 0 PROVE Odd(At(j)) <=> j \in Fl
  <2>1. \A i \in 0 .. N4 - 1 : i \in E \/ i \in Z
    BY <1>5
  <2>2. At(j) = IF j \in Fl THEN {half(j)} ELSE {}
    <3>1. \A i \in 0 .. N4 - 1 : e[i] = j <=> j \in Fl /\ i = half(j)
      <4> TAKE i \in 0 .. N4 - 1
      <4>1. CASE i \in E
        <5> HIDE DEF E, half
        <5> QED BY <1>9, <4>1
      <4>2. CASE i \in Z
        <5>1. e[i] # j
          BY <1>4, <1>10, <4>2
        <5>2. ~(j \in Fl /\ i = half(j))
          <6>1. j \in Fl /\ i = half(j) => i \in E
            <7> HIDE DEF E, half
            <7> QED BY <1>2
          <6> HIDE DEF E, half, Z
          <6> QED BY <1>5, <4>2, <6>1
        <5> QED BY <5>1, <5>2
      <4> QED BY <2>1, <4>1, <4>2
    <3>2. j \in Fl => half(j) \in 0 .. N4 - 1
      BY <1>2
    <3> HIDE DEF half
    <3> QED BY <3>1, <3>2
  <2> HIDE DEF At, half
  <2> QED BY <2>2, OddSmall
<1>11. Odd(At(0)) <=> ~(0 \in Fl <=> Odd(Fl))
  <2> DEFINE O == IF 0 \in Fl THEN {0} ELSE {}
  <2>1. 0 \in 0 .. N2 - 1 /\ 0 \in 0 .. N4 - 1 /\ half(0) = 0
    BY <1>1
  <2>2. At(0) = Z \cup O /\ Z \cap O = {}
    <3>1. \A i \in 0 .. N4 - 1 : e[i] = 0 <=> i \in Z \/ (0 \in Fl /\ i = 0)
      <4> TAKE i \in 0 .. N4 - 1
      <4>1. CASE i \in E
        <5>1. e[i] = 0 <=> 0 \in Fl /\ i = 0
          <6> HIDE DEF E, half
          <6> QED BY <1>9, <2>1, <4>1
        <5>2. i \notin Z
          <6> HIDE DEF E, Z
          <6> QED BY <1>5, <4>1
        <5> QED BY <5>1, <5>2
      <4>2. CASE i \in Z
        <5> QED BY <1>4, <4>2
      <4>3. i \in E \/ i \in Z
        BY <1>5
      <4> QED BY <4>1, <4>2, <4>3
    <3>2. 0 \in Fl => 0 \notin Z
      OBVIOUS
    <3>3. Z \subseteq 0 .. N4 - 1
      OBVIOUS
    <3> HIDE DEF Z
    <3> QED BY <2>1, <3>1, <3>2, <3>3
  <2>3. IsFiniteSet(O) /\ (Odd(O) <=> 0 \in Fl)
    BY FS_Singleton, FS_EmptySet, OddSmall
  <2>4. Odd(Z \cup O) <=> ~(Odd(Z) <=> Odd(O))
    <3> HIDE DEF Z, O
    <3> QED BY <1>5, <2>2, <2>3, OddUnion
  <2> HIDE DEF At, Z, O
  <2> QED BY <1>8, <2>2, <2>3, <2>4
<1>12. \A j \in 0 .. N2 - 1 : Odd(At(j)) <=> ~(j \in Fl <=> j \in Extra(Fl))
  <2> HIDE DEF At
  <2> QED BY <1>10, <1>11 DEF Extra
<1> HIDE DEF At
<1>13. {j \in 0 .. N2 - 1 : Odd(At(j))} = SymDiff(Fl, Extra(Fl))
  <2>1. Extra(Fl) \subseteq 0 .. N2 - 1
    BY <1>1 DEF Extra
  <2> HIDE DEF Extra
  <2> QED BY <1>1, <1>12, <2>1 DEF SymDiff
<1> QED BY <1>13 DEF At

(* N4 divides N2. *)
LEMMA Divides == N2 % N4 = 0
<1>1. N4 \in Nat \ {0} /\ 2 \in Int /\ 0 \in 0 .. N4 - 1 /\ N2 = 2 * N4 + 0
  BY Sizes
<1>2. (2 * N4 + 0) % N4 = 0
  BY <1>1, ModUnique, Zenon
<1> QED BY <1>1, <1>2

(* A message written twice, times f, times an inverse of f modulo x^N4 + 1, *)
(* is the message.                                                          *)
LEMMA Unmasked ==
  ASSUME NEW H \in Poly(N2), NEW V \in Poly(N4), NEW P \in Poly(N4), Conv(N4, FoldSet(N4, H), V) = {0},
         NEW j \in 0 .. N4 - 1
  PROVE  j \in Conv(N2, Conv(N2, {i \in 0 .. N2 - 1 : i % N4 \in P}, H), V) <=> j \in P
<1> DEFINE T == {i \in 0 .. N2 - 1 : i % N4 \in P}
           HV == Conv(N2, H, V)
<1>1. /\ N4 \in Nat \ {0} /\ N2 \in Nat \ {0} /\ N2 = 2 * N4 /\ T \in Poly(N2) /\ V \in Poly(N2) /\ HV \in Poly(N2)
      /\ j \in 0 .. N2 - 1 /\ {0} \in Poly(N4)
  BY Sizes, ConvType DEF Poly
<1>2. N2 % N4 = 0
  BY Divides
<1>3. j % N4 = j
  BY <1>1, ModSmall
<1>4. Conv(N2, Conv(N2, T, H), V) = Conv(N2, T, HV)
  <2> HIDE DEF T
  <2> QED BY <1>1, ConvAssoc
<1>5. j \in Conv(N2, T, HV) <=> j % N4 \in Conv(N4, P, FoldSet(N4, HV))
  <2> HIDE DEF HV
  <2> QED BY <1>1, <1>2, ConvPeriodic
<1>6. FoldSet(N4, HV) = Conv(N4, FoldSet(N4, H), FoldSet(N4, V)) /\ FoldSet(N4, V) = V
  BY <1>1, <1>2, FoldConv, FoldSmall
<1>7. Conv(N4, P, {0}) = P
  BY <1>1, ConvComm, ConvOne
<1> HIDE DEF T, HV
<1>8. j \in Conv(N2, Conv(N2, T, H), V) <=> j \in P
  BY <1>3, <1>4, <1>5, <1>6, <1>7
<1> QED BY <1>8 DEF T

(* The parity of four integers. *)
LEMMA FourOdd ==
  ASSUME NEW w \in Int, NEW x \in Int, NEW y \in Int, NEW z \in Int
  PROVE  /\ (w + x + y + z) % 2 \in {0, 1}
         /\ (w + x + y + z) % 2 = 1 <=>
              ~(~(w % 2 = 1 <=> y % 2 = 1) <=> ~(x % 2 = 1 <=> z % 2 = 1))
OBVIOUS

(* The coefficients of a folded to N2 are the parities of two of them. *)
LEMMA SumHas ==
  ASSUME NEW i \in 0 .. N2 - 1
  PROVE  i \in FoldSet(N2, OddAt(N, a)) <=> ~(a[i] % 2 = 1 <=> a[i + N2] % 2 = 1)
<1> DEFINE A == IF a[i] % 2 = 1 THEN {i} ELSE {}
           B == IF a[i + N2] % 2 = 1 THEN {i + N2} ELSE {}
           C == {x \in OddAt(N, a) : x % N2 = i}
<1>1. N2 \in Nat \ {0} /\ N = 2 * N2 /\ i \in 0 .. N - 1 /\ i + N2 \in 0 .. N - 1 /\ i # i + N2 /\ i \in Int /\ i + N2 \in Int
  BY Sizes
<1>2. i % N2 = i /\ (i + N2) % N2 = i
  <2>1. i % N2 = i
    BY <1>1, ModSmall
  <2>2. 1 \in Int /\ 1 * N2 + i = i + N2
    BY <1>1
  <2>3. (1 * N2 + i) % N2 = i
    BY <1>1, <2>2, ModUnique, Zenon
  <2> QED BY <2>1, <2>2, <2>3
<1>3. ASSUME NEW x \in 0 .. N - 1, x % N2 = i PROVE x = i \/ x = i + N2
  <2>1. CASE x < N2
    <3>1. x \in 0 .. N2 - 1
      BY <1>1, <2>1
    <3>2. x % N2 = x
      BY <1>1, <3>1, ModSmall
    <3> QED BY <1>3, <3>2
  <2>2. CASE ~(x < N2)
    <3>1. x - N2 \in 0 .. N2 - 1 /\ 1 \in Int /\ 1 * N2 + (x - N2) = x
      BY <1>1, <2>2
    <3>2. (1 * N2 + (x - N2)) % N2 = x - N2
      BY <1>1, <3>1, ModUnique, Zenon
    <3>3. x - N2 = i
      BY <1>3, <3>1, <3>2, Zenon
    <3> QED BY <1>1, <3>3
  <2> QED BY <2>1, <2>2
<1>4. C = A \cup B /\ A \cap B = {}
  <2>1. \A x : x \in C <=> x \in 0 .. N - 1 /\ a[x] % 2 = 1 /\ x % N2 = i
    BY DEF OddAt
  <2>2. \A x : x \in C <=> (x = i /\ a[i] % 2 = 1) \/ (x = i + N2 /\ a[i + N2] % 2 = 1)
    <3> HIDE DEF C
    <3> QED BY <1>1, <1>2, <1>3, <2>1
  <2> HIDE DEF C
  <2> QED BY <1>1, <2>2
<1>5. /\ IsFiniteSet(A) /\ IsFiniteSet(B)
      /\ Odd(A) <=> a[i] % 2 = 1
      /\ Odd(B) <=> a[i + N2] % 2 = 1
  BY FS_Singleton, FS_EmptySet, OddSmall
<1>6. Odd(A \cup B) <=> ~(Odd(A) <=> Odd(B))
  <2> HIDE DEF A, B
  <2> QED BY <1>4, <1>5, OddUnion
<1>7. i \in FoldSet(N2, OddAt(N, a)) <=> Odd(C)
  BY DEF FoldSet
<1> HIDE DEF A, B, C
<1> QED BY <1>4, <1>5, <1>6, <1>7

(* Delta says which places have a wrong parity in one half but not in the   *)
(* other.                                                                   *)
LEMMA DeltaHas ==
  ASSUME a \in [0 .. N - 1 -> Int], NEW i \in 0 .. N4 - 1
  PROVE  LET S == FoldSet(N2, OddAt(N, a))
         IN  Delta(i) \in {0, 1} /\ (Delta(i) = 1 <=> ~(i \in S <=> i + N4 \in S))
<1> DEFINE S == FoldSet(N2, OddAt(N, a))
<1>1. /\ N4 \in Nat \ {0} /\ N2 = 2 * N4 /\ N = 4 * N4 /\ i \in 0 .. N2 - 1 /\ i + N4 \in 0 .. N2 - 1
      /\ i \in 0 .. N - 1 /\ i + N4 \in 0 .. N - 1 /\ i + N2 \in 0 .. N - 1 /\ i + 3 * N4 \in 0 .. N - 1
      /\ (i + N4) + N2 = i + 3 * N4
  BY Sizes
<1>2. a[i] \in Int /\ a[i + N4] \in Int /\ a[i + N2] \in Int /\ a[i + 3 * N4] \in Int
  BY <1>1
<1>3. i \in S <=> ~(a[i] % 2 = 1 <=> a[i + N2] % 2 = 1)
  BY <1>1, SumHas
<1>4. i + N4 \in S <=> ~(a[i + N4] % 2 = 1 <=> a[i + 3 * N4] % 2 = 1)
  <2>1. i + N4 \in S <=> ~(a[i + N4] % 2 = 1 <=> a[(i + N4) + N2] % 2 = 1)
    BY <1>1, SumHas
  <2> QED BY <1>1, <2>1
<1> HIDE DEF S
<1>5. /\ Delta(i) \in {0, 1}
      /\ Delta(i) = 1 <=> ~(~(a[i] % 2 = 1 <=> a[i + N2] % 2 = 1) <=> ~(a[i + N4] % 2 = 1 <=> a[i + 3 * N4] % 2 = 1))
  <2> DEFINE w == a[i]
             x == a[i + N4]
             y == a[i + N2]
             z == a[i + 3 * N4]
  <2>1. w \in Int /\ x \in Int /\ y \in Int /\ z \in Int
    BY <1>2
  <2>2. Delta(i) = (w + x + y + z) % 2
    BY DEF Delta
  <2> HIDE DEF w, x, y, z
  <2>3. /\ Delta(i) \in {0, 1}
        /\ Delta(i) = 1 <=> ~(~(w % 2 = 1 <=> y % 2 = 1) <=> ~(x % 2 = 1 <=> z % 2 = 1))
    BY <2>1, <2>2, FourOdd
  <2> QED BY <2>3 DEF w, x, y, z
<1>6. Delta(i) \in {0, 1} /\ (Delta(i) = 1 <=> ~(i \in S <=> i + N4 \in S))
  BY <1>3, <1>4, <1>5
<1> QED BY <1>6 DEF S

(* Wide keeps the terms. *)
LEMMA WideIs ==
  ASSUME NEW p \in Bits(N4)
  PROVE  Wide(p) \in Bits(N2) /\ Ones(N2, Wide(p)) = Ones(N4, p)
<1>1. N4 \in Nat \ {0} /\ N2 = 2 * N4
  BY Sizes
<1>2. \A j \in 0 .. N4 - 1 : j \in 0 .. N2 - 1 /\ p[j] \in {0, 1}
  BY <1>1 DEF Bits
<1>3. \A j \in 0 .. N2 - 1 : j < N4 <=> j \in 0 .. N4 - 1
  BY <1>1
<1>4. Wide(p) = [j \in 0 .. N2 - 1 |-> IF j < N4 THEN p[j] ELSE 0]
  BY DEF Wide
<1>5. Wide(p) \in Bits(N2)
  BY <1>2, <1>3, <1>4 DEF Bits
<1>6. \A j \in 0 .. N2 - 1 : Wide(p)[j] = 1 <=> j \in 0 .. N4 - 1 /\ p[j] = 1
  BY <1>3, <1>4
<1> QED BY <1>2, <1>5, <1>6 DEF Ones

(* Flipped is the difference of what was computed and message times f. *)
LEMMA FlippedIs ==
  ASSUME msg \in Bits(N4)
  PROVE  LET S == FoldSet(N2, OddAt(N, a))
             C == Conv(N2, {i \in 0 .. N2 - 1 : i % N4 \in Ones(N4, msg)}, FoldSet(N2, OddAt(N, f)))
         IN  Flipped = SymDiff(S, C) /\ S \in Poly(N2) /\ C \in Poly(N2)
<1> DEFINE twice == [j \in 0 .. N2 - 1 |-> msg[j % N4]]
           sum == Fold(a, N, N2)
           H == Fold(f, N, N2)
           clean == Times2(N2, twice, H)
           T == {i \in 0 .. N2 - 1 : i % N4 \in Ones(N4, msg)}
           S == FoldSet(N2, OddAt(N, a))
           C == Conv(N2, T, FoldSet(N2, OddAt(N, f)))
<1>1. N4 \in Nat \ {0} /\ N2 \in Nat \ {0} /\ N \in Nat \ {0}
  BY Sizes
<1>2. Ones(N2, twice) = T
  <2>1. ASSUME NEW j \in 0 .. N2 - 1 PROVE j % N4 \in 0 .. N4 - 1 /\ twice[j] = msg[j % N4]
    <3>1. j \in Int
      OBVIOUS
    <3>2. j % N4 \in 0 .. N4 - 1
      BY <1>1, <3>1, Quotient
    <3> QED BY <3>2
  <2> HIDE DEF twice
  <2> QED BY <2>1 DEF Ones
<1>3. sum \in Bits(N2) /\ Ones(N2, sum) = S /\ Ones(N2, H) = FoldSet(N2, OddAt(N, f))
  BY <1>1, FoldIs
<1>4. clean \in Bits(N2) /\ Ones(N2, clean) = C
  <2>1. clean \in Bits(N2) /\ Ones(N2, clean) = Conv(N2, Ones(N2, twice), Ones(N2, H))
    <3> HIDE DEF twice, H
    <3> QED BY <1>1, Times2Is
  <2> HIDE DEF clean, twice, H
  <2> QED BY <1>2, <1>3, <2>1
<1>5. Flipped = {j \in 0 .. N2 - 1 : sum[j] # clean[j]}
  BY DEF Flipped
<1>6. S \in Poly(N2) /\ C \in Poly(N2)
  BY <1>1, ConvType
<1> HIDE DEF sum, clean, S, C
<1>7. \A j \in 0 .. N2 - 1 : sum[j] # clean[j] <=> ~(j \in S <=> j \in C)
  <2> TAKE j \in 0 .. N2 - 1
  <2>1. sum[j] \in {0, 1} /\ clean[j] \in {0, 1}
    BY <1>3, <1>4 DEF Bits
  <2>2. j \in S <=> sum[j] = 1
    BY <1>3 DEF Ones
  <2>3. j \in C <=> clean[j] = 1
    BY <1>4 DEF Ones
  <2> QED BY <2>1, <2>2, <2>3
<1>8. Flipped = SymDiff(S, C)
  BY <1>5, <1>6, <1>7 DEF SymDiff, Poly
<1> QED BY <1>6, <1>8 DEF S, C

(* When all errors are correctable, Correction is their polynomial, plus 1  *)
(* when their number is odd.                                                *)
LEMMA CorrectionIs ==
  ASSUME msg \in Bits(N4), a \in [0 .. N - 1 -> Int], AllCorrectable
  PROVE  Ones(N2, Correction) = SymDiff(Flipped, Extra(Flipped))
<1> DEFINE e == [i \in 0 .. N4 - 1 |-> IF Delta(i) = 0 THEN 0 ELSE IF EvenWins(i) THEN i ELSE i + N4]
           R == [j \in 0 .. N2 - 1 |-> {i \in 0 .. N4 - 1 : e[i] = j}]
           S == FoldSet(N2, OddAt(N, a))
           s == Ones(N4, msg)
           H == FoldSet(N2, OddAt(N, f))
           T == {i \in 0 .. N2 - 1 : i % N4 \in s}
           C == Conv(N2, T, H)
<1>1. N4 \in Nat \ {0} /\ N2 \in Nat \ {0} /\ N2 = 2 * N4
  BY Sizes
<1>2. Flipped = SymDiff(S, C) /\ S \in Poly(N2) /\ C \in Poly(N2)
  BY FlippedIs
<1>3. ASSUME NEW i \in 0 .. N4 - 1 PROVE i \in C <=> i + N4 \in C
  <2>1. i \in 0 .. N2 - 1 /\ i + N4 \in 0 .. N2 - 1
    BY <1>1
  <2>2. N2 % N4 = 0 /\ (i + N4) % N4 = i % N4
    <3>1. N2 % N4 = 0
      BY Divides
    <3>3. i \in Int /\ 1 \in Int /\ i + N4 = i + 1 * N4
      BY <1>1
    <3>4. (i + 1 * N4) % N4 = i % N4
      BY <1>1, <3>3, ModPlus, Zenon
    <3> QED BY <3>1, <3>3, <3>4
  <2>3. s \in Poly(N4) /\ H \in Poly(N2)
    BY <1>1, OnesType, ConvType
  <2> DEFINE D == Conv(N4, s, FoldSet(N4, H))
  <2>4. \A j \in 0 .. N2 - 1 : j \in C <=> j % N4 \in D
    <3> HIDE DEF s, H
    <3> QED BY <1>1, <2>2, <2>3, ConvPeriodic
  <2> HIDE DEF C, D
  <2> QED BY <2>1, <2>2, <2>4
<1> HIDE DEF C
<1>4. ASSUME NEW i \in 0 .. N4 - 1
      PROVE  Delta(i) \in {0, 1} /\ (Delta(i) = 1 <=> ~(i \in Flipped <=> i + N4 \in Flipped))
  <2>1. Delta(i) \in {0, 1} /\ (Delta(i) = 1 <=> ~(i \in S <=> i + N4 \in S))
    BY DeltaHas
  <2> HIDE DEF S
  <2> QED BY <1>2, <1>3, <2>1 DEF SymDiff
<1>5. ASSUME NEW i \in 0 .. N4 - 1
      PROVE  \/ Flipped \cap {i, i + N4} = {}
             \/ Flipped \cap {i, i + N4} = {IF EvenWins(i) THEN i ELSE i + N4}
  BY DEF AllCorrectable, Correctable
<1>6. e \in [0 .. N4 - 1 -> 0 .. N2 - 1]
  <2>1. \A i \in 0 .. N4 - 1 : 0 \in 0 .. N2 - 1 /\ i \in 0 .. N2 - 1 /\ i + N4 \in 0 .. N2 - 1
    BY <1>1
  <2> QED BY <2>1
<1>7. PlaceOf(e, Flipped)
  <2> SUFFICES ASSUME NEW i \in 0 .. N4 - 1
               PROVE  \/ e[i] = 0 /\ i \notin Flipped /\ i + N4 \notin Flipped
                      \/ e[i] \in {i, i + N4} /\ Flipped \cap {i, i + N4} = {e[i]}
    BY DEF PlaceOf
  <2>1. e[i] = IF Delta(i) = 0 THEN 0 ELSE IF EvenWins(i) THEN i ELSE i + N4
    OBVIOUS
  <2>2. i # i + N4
    BY <1>1
  <2> HIDE DEF e
  <2>3. CASE Flipped \cap {i, i + N4} = {}
    <3>1. i \notin Flipped /\ i + N4 \notin Flipped
      BY <2>3
    <3> QED BY <1>4, <2>1, <3>1
  <2>4. CASE Flipped \cap {i, i + N4} = {IF EvenWins(i) THEN i ELSE i + N4}
    <3>1. ~(i \in Flipped <=> i + N4 \in Flipped)
      BY <2>2, <2>4
    <3>2. Delta(i) = 1
      BY <1>4, <3>1
    <3>3. e[i] = IF EvenWins(i) THEN i ELSE i + N4
      BY <2>1, <3>2
    <3> QED BY <2>4, <3>3
  <2> QED BY <1>5, <2>3, <2>4
<1>8. Flipped \in Poly(N2)
  <2> HIDE DEF S
  <2> QED BY <1>1, <1>2, XorType
<1>9. {j \in 0 .. N2 - 1 : Odd({i \in 0 .. N4 - 1 : e[i] = j})} = SymDiff(Flipped, Extra(Flipped))
  <2> HIDE DEF e
  <2> QED BY <1>6, <1>7, <1>8, Places
<1>10. Correction = [j \in 0 .. N2 - 1 |-> Cardinality(R[j]) % 2]
  BY DEF Correction
<1>11. Ones(N2, Correction) = {j \in 0 .. N2 - 1 : Odd(R[j])}
  <2>1. IsFiniteSet(0 .. N4 - 1)
    BY <1>1, FS_Interval
  <2> DEFINE A == 0 .. N4 - 1
  <2>2. IsFiniteSet(A) /\ \A j \in 0 .. N2 - 1 : R[j] \subseteq A
    BY <2>1
  <2> HIDE DEF R, A
  <2> QED BY <1>1, <1>10, <2>2, ParityBits
<1>12. {j \in 0 .. N2 - 1 : Odd(R[j])} = {j \in 0 .. N2 - 1 : Odd({i \in 0 .. N4 - 1 : e[i] = j})}
  OBVIOUS
<1> HIDE DEF e, R
<1> QED BY <1>9, <1>11, <1>12

(* SimpleDecode returns the message exactly when the number of errors is    *)
(* even: f_inv times an even error cancels, and the extra 1 of an odd       *)
(* number leaves f_inv itself, which is not 0.                              *)
LEMMA Decodes ==
  ASSUME msg \in Bits(N4), finv \in Bits(N4), a \in [0 .. N - 1 -> Int],
         Times2(N4, Fold(f, N, N4), Fold(finv, N4, N4)) = [j \in 0 .. N4 - 1 |-> One[j]],
         AllCorrectable
  PROVE  LET mp == Times2(N2, Fold(a, N, N2), Wide(finv))
             t2 == Times2(N2, Correction, Wide(finv))
             r == [j \in 0 .. N4 - 1 |-> (mp[j] + t2[j]) % 2]
         IN  r = msg <=> ~Odd(Flipped)
<1> DEFINE sum == Fold(a, N, N2)
           w == Wide(finv)
           mp == Times2(N2, sum, w)
           t2 == Times2(N2, Correction, w)
           r == [j \in 0 .. N4 - 1 |-> (mp[j] + t2[j]) % 2]
           S == FoldSet(N2, OddAt(N, a))
           s == Ones(N4, msg)
           V == Ones(N4, finv)
           G == OddAt(N, f)
           H == FoldSet(N2, G)
           T == {i \in 0 .. N2 - 1 : i % N4 \in s}
           C == Conv(N2, T, H)
           X == Extra(Flipped)
           XV == IF Odd(Flipped) THEN V ELSE {}
<1>1. N4 \in Nat \ {0} /\ N2 \in Nat \ {0} /\ N \in Nat \ {0} /\ N2 = 2 * N4
  BY Sizes
<1>2. Flipped = SymDiff(S, C) /\ S \in Poly(N2) /\ C \in Poly(N2)
  BY FlippedIs
<1>3. V \in Poly(N4) /\ V \in Poly(N2) /\ s \in Poly(N4) /\ H \in Poly(N2) /\ G \in Poly(N)
  <2>1. V \in Poly(N4) /\ s \in Poly(N4) /\ H \in Poly(N2) /\ G \in Poly(N)
    BY <1>1, OnesType, ConvType
  <2> HIDE DEF V
  <2> QED BY <1>1, <2>1 DEF Poly
<1>4. w \in Bits(N2) /\ Ones(N2, w) = V
  BY WideIs
<1>5. Ones(N2, sum) = S
  BY <1>1, FoldIs
<1>6. mp \in Bits(N2) /\ Ones(N2, mp) = Conv(N2, S, V)
  <2>1. mp \in Bits(N2) /\ Ones(N2, mp) = Conv(N2, Ones(N2, sum), Ones(N2, w))
    <3> HIDE DEF sum, w
    <3> QED BY <1>1, Times2Is
  <2> HIDE DEF sum, w, mp
  <2> QED BY <1>4, <1>5, <2>1
<1>7. t2 \in Bits(N2) /\ Ones(N2, t2) = Conv(N2, SymDiff(Flipped, X), V)
  <2>1. t2 \in Bits(N2) /\ Ones(N2, t2) = Conv(N2, Ones(N2, Correction), Ones(N2, w))
    <3> HIDE DEF w
    <3> QED BY <1>1, Times2Is
  <2>2. Ones(N2, Correction) = SymDiff(Flipped, X)
    BY CorrectionIs
  <2> HIDE DEF w, t2, X
  <2> QED BY <1>4, <2>1, <2>2
<1>8. SymDiff(Conv(N2, S, V), Conv(N2, SymDiff(Flipped, X), V)) = SymDiff(Conv(N2, C, V), XV)
  <2>1. Flipped \in Poly(N2)
    <3> HIDE DEF S, C
    <3> QED BY <1>1, <1>2, XorType
  <2>2. {0} \in Poly(N2) /\ {} \in Poly(N2)
    BY <1>1 DEF Poly
  <2>3. X \in Poly(N2)
    BY <2>2 DEF Extra
  <2>4. Conv(N2, X, V) = XV
    <3>1. Conv(N2, {0}, V) = V
      <4> HIDE DEF V
      <4> QED BY <1>1, <1>3, ConvOne
    <3>2. 0 \in 0 .. N2 - 1
      BY <1>1
    <3>3. Conv(N2, {}, V) = {}
      <4> HIDE DEF V
      <4> QED BY <1>1, <3>2, ConvShift
    <3> HIDE DEF V
    <3> QED BY <3>1, <3>3 DEF Extra
  <2> DEFINE Y == SymDiff(Flipped, X)
             SF == SymDiff(S, Y)
  <2>5. Y \in Poly(N2)
    <3> HIDE DEF X
    <3> QED BY <1>1, <2>1, <2>3, XorType
  <2>6. SF = SymDiff(C, X)
    <3> HIDE DEF S, C, X
    <3> QED BY <1>2 DEF SymDiff
  <2> HIDE DEF S, C, V, X, XV, Y
  <2>7. Conv(N2, V, SF) = SymDiff(Conv(N2, V, S), Conv(N2, V, Y))
    BY <1>1, <1>2, <1>3, <2>5, ConvXor
  <2>8. Conv(N2, V, SymDiff(C, X)) = SymDiff(Conv(N2, V, C), Conv(N2, V, X))
    BY <1>1, <1>2, <1>3, <2>3, ConvXor
  <2>9. Conv(N2, V, S) = Conv(N2, S, V) /\ Conv(N2, V, Y) = Conv(N2, Y, V)
    BY <1>1, <1>2, <1>3, <2>5, ConvComm
  <2>10. Conv(N2, V, C) = Conv(N2, C, V) /\ Conv(N2, V, X) = Conv(N2, X, V)
    BY <1>1, <1>2, <1>3, <2>3, ConvComm
  <2>11. SymDiff(Conv(N2, S, V), Conv(N2, Y, V)) = SymDiff(Conv(N2, C, V), XV)
    <3> HIDE DEF SF
    <3> QED BY <2>4, <2>6, <2>7, <2>8, <2>9, <2>10
  <2> QED BY <2>11 DEF Y
<1>9. Conv(N4, FoldSet(N4, H), V) = {0}
  <2> DEFINE p == Fold(f, N, N4)
             u == Fold(finv, N4, N4)
  <2>1. Ones(N4, p) = FoldSet(N4, G) /\ Ones(N4, u) = FoldSet(N4, V)
    BY <1>1, FoldIs
  <2>2. FoldSet(N4, V) = V
    <3> HIDE DEF V
    <3> QED BY <1>1, <1>3, FoldSmall
  <2>3. FoldSet(N4, H) = FoldSet(N4, G)
    <3>1. N2 % N4 = 0
      BY Divides
    <3>2. IsFiniteSet(G) /\ G \in SUBSET Int
      <4> HIDE DEF G
      <4>1. IsFiniteSet(G)
        BY <1>1, <1>3, PolyFinite
      <4>2. G \subseteq 0 .. N - 1
        BY <1>3 DEF Poly
      <4> QED BY <4>1, <4>2
    <3> HIDE DEF G
    <3> QED BY <1>1, <3>1, <3>2, FoldFold
  <2>4. Ones(N4, Times2(N4, p, u)) = Conv(N4, Ones(N4, p), Ones(N4, u))
    BY <1>1, Times2Is
  <2>5. Times2(N4, p, u) = One
    BY DEF One
  <2> HIDE DEF p, u, G, H, V
  <2> QED BY <2>1, <2>2, <2>3, <2>4, <2>5, OneIs
<1>10. ASSUME NEW j \in 0 .. N4 - 1 PROVE j \in Conv(N2, C, V) <=> j \in s
  <2> HIDE DEF H, V, s
  <2> QED BY <1>3, <1>9, Unmasked
<1>11. ASSUME NEW j \in 0 .. N4 - 1 PROVE r[j] = msg[j] <=> j \notin XV
  <2>1. j \in 0 .. N2 - 1
    BY <1>1
  <2>2. r[j] = (mp[j] + t2[j]) % 2
    OBVIOUS
  <2> DEFINE Y == SymDiff(Flipped, X)
  <2>3. mp[j] \in {0, 1} /\ t2[j] \in {0, 1}
    <3> HIDE DEF mp, t2
    <3> QED BY <1>6, <1>7, <2>1 DEF Bits
  <2>4. mp[j] = 1 <=> j \in Conv(N2, S, V)
    <3> HIDE DEF mp, S, V
    <3> QED BY <1>6, <2>1 DEF Ones
  <2>5. t2[j] = 1 <=> j \in Conv(N2, Y, V)
    <3> HIDE DEF t2, Y, V
    <3> QED BY <1>7, <2>1 DEF Ones, Y
  <2>6. ~(mp[j] = 1 <=> t2[j] = 1) <=> ~(j \in s <=> j \in XV)
    <3>1. ~(j \in Conv(N2, S, V) <=> j \in Conv(N2, Y, V)) <=> ~(j \in Conv(N2, C, V) <=> j \in XV)
      <4> HIDE DEF S, V, C, XV, X
      <4> QED BY <1>8 DEF SymDiff
    <3> HIDE DEF mp, t2, S, V, C, XV, X, Y, s
    <3> QED BY <1>10, <2>4, <2>5, <3>1
  <2>7. msg[j] \in {0, 1} /\ (msg[j] = 1 <=> j \in s)
    BY DEF Bits, Ones
  <2>8. (mp[j] + t2[j]) % 2 = IF ~(mp[j] = 1 <=> t2[j] = 1) THEN 1 ELSE 0
    <3> HIDE DEF mp, t2
    <3> QED BY <2>3
  <2> HIDE DEF s, mp, t2, r, XV
  <2> QED BY <2>2, <2>6, <2>7, <2>8
<1>12. msg = [j \in 0 .. N4 - 1 |-> msg[j]] /\ r = [j \in 0 .. N4 - 1 |-> r[j]]
  BY DEF Bits
<1>13. r = msg <=> \A j \in 0 .. N4 - 1 : r[j] = msg[j]
  <2> HIDE DEF r
  <2> QED BY <1>12
<1>14. V # {} /\ V \subseteq 0 .. N4 - 1
  <2>1. V \subseteq 0 .. N4 - 1
    <3> HIDE DEF V
    <3> QED BY <1>3 DEF Poly
  <2>2. SUFFICES ASSUME V = {} PROVE FALSE
    BY <2>1
  <2>3. Conv(N4, FoldSet(N4, H), {}) = {}
    <3>1. \A A, j : {i \in A : Back(N4, j, i) \in {}} = {}
      OBVIOUS
    <3> QED BY <3>1, OddSmall DEF Conv
  <2> HIDE DEF V, H
  <2> QED BY <1>9, <2>2, <2>3
<1>15. (\A j \in 0 .. N4 - 1 : j \notin XV) <=> ~Odd(Flipped)
  <2> HIDE DEF V
  <2> QED BY <1>14
<1>16. r = msg <=> ~Odd(Flipped)
  <2> HIDE DEF r, XV
  <2> QED BY <1>11, <1>13, <1>15
<1> QED BY <1>16

(* An odd number of errors loses the message even when each of them could   *)
(* be corrected: the places without an error select exponent 0              *)
(* (SimpleDecode, m4/pke.c) and add f_inv to the result.                    *)
OddLost ==
  phase = "decrypted" /\ AllCorrectable /\ Cardinality(Flipped) % 2 = 1 => got # msg

(* The inductive invariant of decryption. *)
DecryptInv == KeyInv /\ EvenDecrypts /\ OddLost

(* Nothing is decrypted in the beginning. *)
LEMMA DecryptInit == Init => DecryptInv
BY KeyInit DEF DecryptInv, EvenDecrypts, OddLost, Init

(* Every step preserves the invariant: only SimpleDecode decrypts. *)
LEMMA DecryptStep == DecryptInv /\ [Next]_vars => DecryptInv'
<1> SUFFICES ASSUME DecryptInv, [Next]_vars PROVE EvenDecrypts' /\ OddLost'
  BY KeyStep DEF DecryptInv
<1>1. CASE SimpleDecode
  <2>1. /\ phase = "multiplied" /\ UNCHANGED <<f, finv, msg, a>>
        /\ got' = [j \in 0 .. N4 - 1 |-> (Times2(N2, Fold(a, N, N2), Wide(finv))[j]
                                          + Times2(N2, Correction, Wide(finv))[j]) % 2]
    BY <1>1 DEF SimpleDecode
  <2>2. msg \in Bits(N4) /\ finv \in Bits(N4) /\ a \in [0 .. N - 1 -> Int] /\ level = N4
    BY <2>1 DEF DecryptInv, KeyInv, Types
  <2>3. Times2(N4, Fold(f, N, N4), Fold(finv, N4, N4)) = [j \in 0 .. N4 - 1 |-> One[j]]
    BY <2>1, <2>2 DEF DecryptInv, KeyInv, Inverts
  <2>4. AllCorrectable => (got' = msg <=> ~Odd(Flipped))
    BY <2>1, <2>2, <2>3, Decodes
  <2>5. Flipped' = Flipped
    BY <2>1 DEF Flipped
  <2>6. AllCorrectable' <=> AllCorrectable
    BY <2>1, <2>5 DEF AllCorrectable, Correctable, EvenWins, Near, Abs, Least
  <2>7. ~(0 = 1)
    OBVIOUS
  <2> QED BY <2>1, <2>4, <2>5, <2>6, <2>7 DEF EvenDecrypts, OddLost, Odd
<1>2. CASE UNCHANGED vars
  <2>1. UNCHANGED <<phase, f, msg, a, got>>
    BY <1>2 DEF vars
  <2>2. Flipped' = Flipped
    BY <2>1 DEF Flipped
  <2>3. AllCorrectable' <=> AllCorrectable
    BY <2>1, <2>2 DEF AllCorrectable, Correctable, EvenWins, Near, Abs, Least
  <2> QED BY <2>1, <2>2, <2>3 DEF DecryptInv, EvenDecrypts, OddLost
<1>3. CASE Next /\ ~SimpleDecode
  <2>1. phase' # "decrypted"
    BY <1>3 DEF Next, RetryF, AcceptF, InvertLevel, StartG, TestG, Pack, Encrypt, Multiply
  <2> QED BY <2>1 DEF EvenDecrypts, OddLost
<1> QED BY <1>1, <1>2, <1>3

(* Decryption returns the message whenever the errors are correctable and   *)
(* even in number: for every key the key generation can make, every message *)
(* and every blur.                                                          *)
THEOREM EvenErrors == Spec => []EvenDecrypts
<1>1. DecryptInv => EvenDecrypts
  BY DEF DecryptInv
<1> QED BY <1>1, DecryptInit, DecryptStep, PTL DEF Spec

(* With an odd number of correctable errors decryption never returns the    *)
(* message: the run zen_error shows one case.                               *)
THEOREM OddErrors == Spec => []OddLost
<1>1. DecryptInv => OddLost
  BY DEF DecryptInv
<1> QED BY <1>1, DecryptInit, DecryptStep, PTL DEF Spec

-----------------------------------------------------------------------------
(* What ntt.h says of its constants: QINV is the inverse of Q modulo 2^16   *)
(* and MONT is 2^16 modulo Q; and poly_intt reaches no less far than the    *)
(* representatives nearest to zero do.                                      *)
ReductionsRight ==
  /\ (Q * QInv) % 65536 = 1 /\ (Mont - 65536) % Q = 0
  /\ Q2 <= Reach

(* A reduction of a difference times MONT adds no more than this to Q / 2.  *)
Edge == (2 * Reach * Abs(Mont)) \div 65536 + 1

(* A coefficient of (x^N2 + 1) times t.                                     *)
TimesXPlusOne(t, j) == IF j < N2 THEN t[j + N2] - t[j] ELSE t[j - N2] + t[j]

(* ct times f, with wrapped sums. *)
Transformed(wrap) ==
  LET t == TimesQ([j \in 0 .. N - 1 |-> Decompress(ct[j])], f)
  IN [j \in 0 .. N - 1 |-> t[j] + wrap[j]]

(* What the decoding starts from is the product modulo Q, whichever         *)
(* representatives poly_intt left, and the one nearest to zero unless it is *)
(* within Edge of Q / 2.                                                    *)
ProductRight ==
  phase \in {"multiplied", "decrypted"} =>
    \E wrap \in Wraps : \A j \in 0 .. N - 1 :
      (a[j] - TimesXPlusOne(Transformed(wrap), j)) % Q = 0 /\ Abs(a[j]) <= Q2 + Edge

(* Numbers that are equal modulo Q. *)
Same(x, y) == \E n \in Int : x = y + n * Q

LEMMA SameMod ==
  ASSUME NEW x \in Int, NEW y \in Int
  PROVE  Same(x, y) <=> (x - y) % Q = 0
<1>1. Q \in Nat \ {0} /\ x - y \in Int
  BY Sizes
<1>2. ASSUME Same(x, y) PROVE (x - y) % Q = 0
  <2>1. PICK n \in Int : x = y + n * Q
    BY <1>2 DEF Same
  <2>2. x - y = n * Q + 0 /\ 0 \in 0 .. Q - 1
    BY <1>1, <2>1
  <2> QED BY <1>1, <2>2, ModUnique
<1>3. ASSUME (x - y) % Q = 0 PROVE Same(x, y)
  <2> DEFINE d == x - y
  <2>1. PICK n \in Int : d = n * Q + (d % Q)
    BY <1>1, Quotient, Zenon
  <2>2. d % Q = 0
    BY <1>3
  <2>3. n * Q \in Int
    BY <1>1
  <2>4. d = n * Q
    <3> HIDE DEF d
    <3> QED BY <2>1, <2>2, <2>3
  <2>5. x = y + n * Q
    BY <2>3, <2>4
  <2> QED BY <2>5 DEF Same
<1> QED BY <1>2, <1>3

LEMMA SameSum ==
  ASSUME NEW x \in Int, NEW y \in Int, NEW u \in Int, NEW v \in Int, Same(x, y), Same(u, v)
  PROVE  Same(x + u, y + v) /\ Same(x - u, y - v)
<1>1. PICK m \in Int : x = y + m * Q
  BY DEF Same
<1>2. PICK n \in Int : u = v + n * Q
  BY DEF Same
<1>3. m + n \in Int /\ m - n \in Int /\ m * Q \in Int /\ n * Q \in Int
  BY Sizes
<1>4. x + u = y + v + (m + n) * Q /\ x - u = y - v + (m - n) * Q
  <2>1. (m + n) * Q = m * Q + n * Q /\ (m - n) * Q = m * Q - n * Q
    BY Sizes
  <2> QED BY <1>1, <1>2, <1>3, <2>1
<1> QED BY <1>3, <1>4 DEF Same

LEMMA SameThen ==
  ASSUME NEW x \in Int, NEW y \in Int, NEW u \in Int, Same(x, y), Same(y, u)
  PROVE  Same(x, u)
<1>1. PICK m \in Int : x = y + m * Q
  BY DEF Same
<1>2. PICK n \in Int : y = u + n * Q
  BY DEF Same
<1>3. x = u + (m + n) * Q /\ m + n \in Int
  <2>1. (m + n) * Q = m * Q + n * Q /\ m * Q \in Int /\ n * Q \in Int
    BY Sizes
  <2> QED BY <1>1, <1>2, <2>1
<1> QED BY <1>3 DEF Same

(* poly_intt leaves a representative of at most Reach. *)
LEMMA LeaveIs ==
  ASSUME ReductionsRight, NEW x \in Int, NEW far \in BOOLEAN
  PROVE  LET y == Leave(Centre(x), far) IN y \in Int /\ Same(y, x) /\ -Reach <= y /\ y <= Reach
<1>1. Q \in Nat \ {0} /\ Q2 \in Nat /\ Q <= 2 * Q2 + 1 /\ Reach \in Nat /\ Q2 <= Reach
  BY Sizes, ZenAssumption DEF Q2, ReductionsRight
<1> DEFINE c == Centre(x)
           r == (x + Q2) % Q
<1>2. c \in Int /\ -Q2 <= c /\ c <= Q2 /\ Same(c, x)
  <2>1. x + Q2 \in Int
    BY <1>1
  <2>2. r \in 0 .. Q - 1 /\ \E n \in Int : x + Q2 = n * Q + r
    BY <1>1, <2>1, Quotient
  <2>3. c = r - Q2
    BY DEF Centre
  <2> HIDE DEF r, c
  <2>4. PICK n \in Int : x + Q2 = n * Q + r
    BY <2>2
  <2>5. n * Q \in Int /\ -n \in Int /\ (-n) * Q = -(n * Q)
    BY <1>1
  <2>6. c = x + (-n) * Q
    BY <1>1, <2>2, <2>3, <2>4, <2>5
  <2>7. c \in Int /\ -Q2 <= c /\ c <= Q2
    BY <1>1, <2>2, <2>3
  <2> QED BY <2>5, <2>6, <2>7 DEF Same
<1> HIDE DEF c
<1>3. Other(c) \in Int /\ Same(Other(c), c)
  <2>1. Other(c) = c + 1 * Q \/ Other(c) = c + (-1) * Q
    BY <1>1, <1>2 DEF Other
  <2>2. Other(c) \in Int
    BY <1>1, <1>2 DEF Other
  <2> QED BY <2>1, <2>2 DEF Same
<1>4. CASE far /\ Abs(Other(c)) <= Reach
  <2> DEFINE o == Other(c)
  <2>1. Leave(c, far) = o
    BY <1>4 DEF Leave
  <2>2. o \in Int /\ Same(o, x)
    BY <1>2, <1>3, SameThen
  <2>3. -Reach <= o /\ o <= Reach
    <3> HIDE DEF o
    <3>1. Abs(o) <= Reach
      BY <1>4 DEF o
    <3> QED BY <1>1, <2>2, <3>1 DEF Abs
  <2> QED BY <2>1, <2>2, <2>3 DEF c
<1>5. CASE ~(far /\ Abs(Other(c)) <= Reach)
  <2>1. Leave(c, far) = c
    BY <1>5 DEF Leave
  <2>2. -Reach <= c /\ c <= Reach
    BY <1>1, <1>2
  <2> QED BY <1>2, <2>1, <2>2 DEF c
<1> QED BY <1>4, <1>5

(* Bounds on products. *)
LEMMA ProductSize ==
  ASSUME NEW x \in Int, NEW y \in Int, NEW m \in Nat, NEW w \in Nat,
         -m <= x, x <= m, -w <= y, y <= w
  PROVE  x * y \in Int /\ m * w \in Nat /\ -(m * w) <= x * y /\ x * y <= m * w
<1>1. (m - x) * (w - y) >= 0 /\ (m + x) * (w + y) >= 0 /\ (m - x) * (w + y) >= 0 /\ (m + x) * (w - y) >= 0
  OBVIOUS
<1>2. (m - x) * (w - y) + (m + x) * (w + y) = 2 * (m * w) + 2 * (x * y)
  OBVIOUS
<1>3. (m - x) * (w + y) + (m + x) * (w - y) = 2 * (m * w) - 2 * (x * y)
  OBVIOUS
<1>4. x * y \in Int /\ m * w \in Nat
  OBVIOUS
<1> QED BY <1>1, <1>2, <1>3, <1>4

(* Where 65536 divides a multiple of Q, Q divides the quotient: QInv says   *)
(* that they have no common factor.                                         *)
LEMMA QuotientOfMultiple ==
  ASSUME NEW e \in Int, NEW w \in Int, NEW s \in Int,
         QInv * Q = 65536 * s + 1, 65536 * e = w * Q
  PROVE  e * QInv - s * w \in Int /\ e = (e * QInv - s * w) * Q
<1>1. Q \in Int /\ QInv \in Int
  BY Sizes
<1>2. e * (QInv * Q) = 65536 * (s * e) + e
  <2>1. e * (65536 * s + 1) = 65536 * (s * e) + e
    OBVIOUS
  <2> QED BY <2>1
<1>3. 65536 * (s * e) = (s * w) * Q
  <2>1. s * (65536 * e) = 65536 * (s * e)
    OBVIOUS
  <2>2. s * (w * Q) = (s * w) * Q
    BY <1>1
  <2>3. s * (65536 * e) = s * (w * Q)
    OBVIOUS
  <2> QED BY <2>1, <2>2, <2>3
<1>4. e * QInv \in Int /\ s * w \in Int /\ (s * w) * Q \in Int /\ 65536 * (s * e) \in Int
  BY <1>1
<1>5. (e * QInv - s * w) * Q = (e * QInv) * Q - (s * w) * Q
  <2> DEFINE p == e * QInv
             q == s * w
  <2>1. p \in Int /\ q \in Int
    BY <1>4
  <2> HIDE DEF p, q
  <2>2. (p - q) * Q = p * Q - q * Q
    BY <1>1, <2>1
  <2> QED BY <2>2 DEF p, q
<1>6. (e * QInv) * Q = e * (QInv * Q)
  BY <1>1
<1> QED BY <1>2, <1>3, <1>4, <1>5, <1>6

(* The inverse of Q, written out. *)
LEMMA InverseIs ==
  ASSUME ReductionsRight
  PROVE  \E s \in Int : QInv * Q = 65536 * s + 1
<1> DEFINE y == QInv * Q
<1>1. Q * QInv = y /\ y \in Int
  BY Sizes
<1>2. y % 65536 = 1
  BY <1>1 DEF ReductionsRight
<1> HIDE DEF y
<1>3. y = 65536 * (y \div 65536) + 1 /\ y \div 65536 \in Int
  BY <1>1, <1>2
<1> QED BY <1>3 DEF y

(* The conversion to 16 bits takes away a multiple of 2^16. *)
LEMMA SignedIs ==
  ASSUME NEW x \in Int
  PROVE  /\ Signed16(x) \in Int /\ -32768 <= Signed16(x) /\ Signed16(x) <= 32767
         /\ \E i \in Int : Signed16(x) = x - 65536 * i
<1>1. Signed16(x) \in Int /\ -32768 <= Signed16(x) /\ Signed16(x) <= 32767
  BY DEF Signed16
<1> DEFINE i == (x + 32768) \div 65536
<1>2. i \in Int /\ Signed16(x) = x - 65536 * i
  BY DEF Signed16
<1> HIDE DEF i
<1> QED BY <1>1, <1>2

(* The division of a Montgomery reduction leaves no remainder. *)
LEMMA MontgomeryDivides ==
  ASSUME ReductionsRight, NEW x \in Int
  PROVE  \E t \in Int : -32768 <= t /\ t <= 32767 /\ 65536 * MontgomeryReduce(x) = x - t * Q
<1> DEFINE u == Signed16(x)
           v == u * QInv
           t == Signed16(v)
           c == x - t * Q
<1>1. Q \in Int /\ QInv \in Int
  BY Sizes
<1>2. PICK i \in Int : u = x - 65536 * i
  BY SignedIs
<1>3. u \in Int
  BY SignedIs
<1>4. v \in Int
  <2> HIDE DEF u
  <2> QED BY <1>1, <1>3
<1>5. t \in Int /\ -32768 <= t /\ t <= 32767 /\ \E j \in Int : t = v - 65536 * j
  <2> HIDE DEF v
  <2> QED BY <1>4, SignedIs
<1>6. PICK j \in Int : t = v - 65536 * j
  BY <1>5
<1>7. PICK s \in Int : QInv * Q = 65536 * s + 1
  BY InverseIs
<1>8. MontgomeryReduce(x) = c \div 65536
  BY DEF MontgomeryReduce
<1>9. v = u * QInv
  OBVIOUS
<1> HIDE DEF u, v, t
<1>10. t * Q = v * Q - 65536 * (j * Q)
  <2>1. (v - 65536 * j) * Q = v * Q - 65536 * (j * Q)
    BY <1>1, <1>4
  <2> QED BY <1>6, <2>1
<1>11. v * Q = 65536 * (u * s) + u
  <2>1. v * Q = u * (QInv * Q)
    <3>1. (u * QInv) * Q = u * (QInv * Q)
      BY <1>1, <1>3
    <3> QED BY <1>9, <3>1
  <2>2. u * (65536 * s + 1) = 65536 * (u * s) + u
    BY <1>3
  <2> QED BY <1>7, <2>1, <2>2
<1>12. PICK n \in Int : c = 65536 * n
  <2>1. u * s \in Int /\ j * Q \in Int
    BY <1>1, <1>3
  <2>2. c = 65536 * (i + j * Q - u * s) /\ i + j * Q - u * s \in Int
    <3> DEFINE g == u * s
               h == j * Q
               y == t * Q
    <3>1. g \in Int /\ h \in Int
      BY <2>1
    <3>2. y = v * Q - 65536 * h
      BY <1>10
    <3>3. v * Q = 65536 * g + u
      BY <1>11
    <3>4. c = x - y
      OBVIOUS
    <3> HIDE DEF g, h, y, c
    <3>5. c = 65536 * (i + h - g) /\ i + h - g \in Int
      BY <1>2, <1>3, <3>1, <3>2, <3>3, <3>4
    <3> QED BY <3>5 DEF g, h
  <2> HIDE DEF c
  <2> QED BY <2>2
<1>13. 65536 * (c \div 65536) = c
  <2> HIDE DEF c
  <2> QED BY <1>12
<1>14. 65536 * MontgomeryReduce(x) = x - t * Q
  BY <1>8, <1>13
<1> QED BY <1>5, <1>14

(* The reduction of a difference times MONT is the difference. *)
LEMMA ReducedIs ==
  ASSUME ReductionsRight, NEW d \in Int, -(2 * Reach) <= d, d <= 2 * Reach
  PROVE  LET r == MontgomeryReduce(d * Mont) IN r \in Int /\ Same(r, d) /\ Abs(r) <= Q2 + Edge
<1> DEFINE x == d * Mont
           r == MontgomeryReduce(x)
           A == Abs(Mont)
           B == 2 * Reach * A
<1>1. Q \in Nat /\ QInv \in Int /\ Mont \in Int /\ Reach \in Nat
  BY Sizes, ZenAssumption
<1>2. Q2 \in Nat /\ Q <= 2 * Q2 + 1
  BY <1>1 DEF Q2
<1>3. x \in Int
  BY <1>1
<1>4. r \in Int
  <2> HIDE DEF x
  <2> QED BY <1>3, ReducedIsInt
<1>5. \E t \in Int : -32768 <= t /\ t <= 32767 /\ 65536 * r = x - t * Q
  <2> HIDE DEF x
  <2> QED BY <1>3, MontgomeryDivides
<1>6. A \in Nat /\ -A <= Mont /\ Mont <= A
  BY <1>1 DEF Abs
<1>7. B \in Nat /\ -B <= x /\ x <= B
  <2> HIDE DEF A
  <2>1. 2 * Reach \in Nat
    BY <1>1
  <2>2. (2 * Reach) * A \in Nat /\ -((2 * Reach) * A) <= d * Mont /\ d * Mont <= (2 * Reach) * A
    BY <1>1, <1>6, <2>1, ProductSize
  <2> QED BY <2>2
<1>8. Edge = B \div 65536 + 1
  BY DEF Edge
<1>9. x = d * Mont
  OBVIOUS
<1> HIDE DEF r, x, A, B
<1>10. Edge \in Nat /\ B < 65536 * Edge
  BY <1>7, <1>8
<1>11. PICK t \in Int : -32768 <= t /\ t <= 32767 /\ 65536 * r = x - t * Q
  BY <1>5
<1>12. t \in Int /\ t * Q \in Int /\ -(32768 * Q) <= t * Q /\ t * Q <= 32768 * Q
  <2>1. t \in Int /\ -32768 <= t /\ t <= 32768 /\ 32768 \in Nat
    BY <1>11
  <2>2. Q \in Int /\ -Q <= Q /\ Q <= Q
    BY <1>1
  <2> QED BY <1>1, <2>1, <2>2, ProductSize
<1>13. Abs(r) <= Q2 + Edge
  <2> DEFINE y == t * Q
  <2>1. y \in Int /\ -(32768 * Q) <= y /\ y <= 32768 * Q /\ 65536 * r = x - y
    BY <1>11, <1>12
  <2> HIDE DEF y
  <2>2. 65536 * r < 65536 * Edge + 32768 * Q /\ -(65536 * r) < 65536 * Edge + 32768 * Q
    BY <1>1, <1>3, <1>4, <1>7, <1>10, <2>1
  <2>3. r <= Q2 + Edge /\ -r <= Q2 + Edge
    BY <1>1, <1>2, <1>4, <1>10, <2>2
  <2> QED BY <1>4, <2>3 DEF Abs
<1>14. Same(r, d)
  <2>1. Same(Mont, 65536)
    <3>1. (Mont - 65536) % Q = 0
      BY DEF ReductionsRight
    <3>2. 65536 \in Int
      OBVIOUS
    <3> QED BY <1>1, <3>1, <3>2, SameMod
  <2>2. PICK m \in Int : Mont = 65536 + m * Q
    BY <2>1 DEF Same
  <2>3. PICK s \in Int : QInv * Q = 65536 * s + 1
    BY InverseIs
  <2> DEFINE e == r - d
             w == d * m - t
             z == e * QInv - s * w
  <2>4. w \in Int /\ e \in Int
    BY <1>4, <1>12
  <2>5. 65536 * e = w * Q
    <3> DEFINE g == (d * m) * Q
               h == t * Q
    <3>1. x = 65536 * d + g
      <4>1. d * (65536 + m * Q) = 65536 * d + (d * m) * Q
        BY <1>1
      <4> QED BY <1>9, <2>2, <4>1
    <3>2. w * Q = g - h
      <4> DEFINE b == d * m
      <4>1. b \in Int
        OBVIOUS
      <4> HIDE DEF b
      <4>2. (b - t) * Q = b * Q - t * Q
        BY <1>1, <1>12, <4>1
      <4> QED BY <4>2 DEF b
    <3>3. g \in Int /\ h \in Int /\ 65536 * r = x - h
      BY <1>1, <1>11, <1>12
    <3> HIDE DEF g, h, w
    <3> QED BY <1>3, <1>4, <3>1, <3>2, <3>3
  <2> HIDE DEF w, e
  <2>6. z \in Int /\ e = z * Q
    BY <2>3, <2>4, <2>5, QuotientOfMultiple
  <2> HIDE DEF z
  <2>7. z * Q \in Int
    BY <1>1, <2>6
  <2>8. r = d + z * Q
    <3>1. e = r - d
      BY DEF e
    <3> QED BY <1>4, <2>4, <2>6, <2>7, <3>1
  <2> QED BY <2>6, <2>8 DEF Same
<1> QED BY <1>4, <1>13, <1>14 DEF r, x

(* The product with x^N2 + 1 of what poly_intt leaves of t.  *)
LEMMA LeftIs ==
  ASSUME ReductionsRight, NEW t \in [0 .. N - 1 -> Int], NEW far, NEW j \in 0 .. N - 1
  PROVE  LET p == [i \in 0 .. N - 1 |-> Leave(Centre(t[i]), i \in far)]
             r == MontgomeryReduce(TimesXPlusOne(p, j) * Mont)
         IN  r \in Int /\ Same(r, TimesXPlusOne(t, j)) /\ Abs(r) <= Q2 + Edge
<1> DEFINE p == [i \in 0 .. N - 1 |-> Leave(Centre(t[i]), i \in far)]
           d == TimesXPlusOne(p, j)
           r == MontgomeryReduce(d * Mont)
<1>1. N = 2 * N2 /\ N2 \in Nat \ {0} /\ Reach \in Nat
  BY Sizes, ZenAssumption
<1>2. ASSUME NEW i \in 0 .. N - 1
      PROVE  p[i] \in Int /\ Same(p[i], t[i]) /\ -Reach <= p[i] /\ p[i] <= Reach
  <2> DEFINE b == i \in far
  <2>1. p[i] = Leave(Centre(t[i]), b) /\ t[i] \in Int /\ b \in BOOLEAN
    OBVIOUS
  <2> HIDE DEF p, b
  <2> QED BY <2>1, LeaveIs
<1> HIDE DEF p
<1>3. d \in Int /\ Same(d, TimesXPlusOne(t, j)) /\ -(2 * Reach) <= d /\ d <= 2 * Reach
  <2>1. CASE j < N2
    <3> DEFINE i == j + N2
    <3>1. i \in 0 .. N - 1 /\ d = p[i] - p[j] /\ TimesXPlusOne(t, j) = t[i] - t[j]
      BY <1>1, <2>1 DEF TimesXPlusOne
    <3> HIDE DEF i, d
    <3>2. t[i] \in Int /\ t[j] \in Int
      BY <3>1
    <3>3. Same(p[i] - p[j], t[i] - t[j])
      BY <1>2, <3>1, <3>2, SameSum
    <3>4. /\ p[i] \in Int /\ -Reach <= p[i] /\ p[i] <= Reach
          /\ p[j] \in Int /\ -Reach <= p[j] /\ p[j] <= Reach
      BY <1>2, <3>1
    <3>5. Same(d, TimesXPlusOne(t, j))
      BY <3>1, <3>3
    <3>6. d \in Int /\ -(2 * Reach) <= d /\ d <= 2 * Reach
      <4> DEFINE x == p[i]
                 y == p[j]
      <4>1. x \in Int /\ -Reach <= x /\ x <= Reach /\ y \in Int /\ -Reach <= y /\ y <= Reach
        BY <3>4
      <4>2. d = x - y
        BY <3>1
      <4> HIDE DEF x, y
      <4> QED BY <1>1, <4>1, <4>2
    <3> QED BY <3>5, <3>6
  <2>2. CASE ~(j < N2)
    <3> DEFINE i == j - N2
    <3>1. i \in 0 .. N - 1 /\ d = p[i] + p[j] /\ TimesXPlusOne(t, j) = t[i] + t[j]
      BY <1>1, <2>2 DEF TimesXPlusOne
    <3> HIDE DEF i, d
    <3>2. t[i] \in Int /\ t[j] \in Int
      BY <3>1
    <3>3. Same(p[i] + p[j], t[i] + t[j])
      BY <1>2, <3>1, <3>2, SameSum
    <3>4. /\ p[i] \in Int /\ -Reach <= p[i] /\ p[i] <= Reach
          /\ p[j] \in Int /\ -Reach <= p[j] /\ p[j] <= Reach
      BY <1>2, <3>1
    <3>5. Same(d, TimesXPlusOne(t, j))
      BY <3>1, <3>3
    <3>6. d \in Int /\ -(2 * Reach) <= d /\ d <= 2 * Reach
      <4> DEFINE x == p[i]
                 y == p[j]
      <4>1. x \in Int /\ -Reach <= x /\ x <= Reach /\ y \in Int /\ -Reach <= y /\ y <= Reach
        BY <3>4
      <4>2. d = x + y
        BY <3>1
      <4> HIDE DEF x, y
      <4> QED BY <1>1, <4>1, <4>2
    <3> QED BY <3>5, <3>6
  <2> QED BY <2>1, <2>2
<1>4. TimesXPlusOne(t, j) \in Int
  BY <1>1 DEF TimesXPlusOne
<1>5. r \in Int /\ Same(r, d) /\ Abs(r) <= Q2 + Edge
  <2> HIDE DEF d
  <2> QED BY <1>3, ReducedIs
<1>6. Same(r, TimesXPlusOne(t, j))
  <2> HIDE DEF r, d
  <2> QED BY <1>3, <1>4, <1>5, SameThen
<1> QED BY <1>5, <1>6 DEF p

(* Multiply makes the product; the steps before have none and decoding      *)
(* keeps it.                                                                *)
LEMMA ProductStep ==
  ASSUME ReductionsRight, KeyInv, ProductRight, [Next]_vars
  PROVE  ProductRight'
<1>1. CASE Multiply
  <2>1. phase = "sent" /\ UNCHANGED <<ct, f>>
    BY <1>1 DEF Multiply
  <2>2. ct \in [0 .. N - 1 -> Int] /\ f \in Samples
    BY <2>1 DEF KeyInv, Types
  <2> DEFINE c == [j \in 0 .. N - 1 |-> Decompress(ct[j])]
             t == TimesQ(c, f)
             left(far, wrap) == [j \in 0 .. N - 1 |-> Leave(Centre(t[j] + wrap[j]), j \in far)]
             times(p) == [j \in 0 .. N - 1 |->
                            MontgomeryReduce((IF j < N2 THEN p[j + N2] - p[j] ELSE p[j - N2] + p[j]) * Mont)]
  <2>3. PICK far \in Fars, wrap \in Wraps : a' = times(left(far, wrap))
    BY <1>1 DEF Multiply
  <2>4. t \in [0 .. N - 1 -> Int]
    <3>1. c \in [0 .. N - 1 -> Int]
      <4>1. \A x \in Int : Decompress(x) \in Int
        BY Sizes DEF Decompress
      <4> QED BY <2>2, <4>1
    <3>2. f \in [0 .. N - 1 -> Int]
      <4>1. f \in [0 .. N - 1 -> -1 .. 1]
        BY <2>2, Sizes
      <4> QED BY <4>1
    <3> HIDE DEF c
    <3> QED BY <3>1, <3>2, Sizes, TimesQType
  <2>5. Transformed(wrap) = [j \in 0 .. N - 1 |-> t[j] + wrap[j]]
    BY DEF Transformed
  <2>6. Transformed(wrap)' = Transformed(wrap)
    BY <2>1 DEF Transformed
  <2> HIDE DEF t
  <2> DEFINE s == Transformed(wrap)
             p == [j \in 0 .. N - 1 |-> Leave(Centre(s[j]), j \in far)]
  <2>7. s \in [0 .. N - 1 -> Int]
    <3>1. wrap \in [0 .. N - 1 -> Int]
      BY ZenAssumption
    <3> QED BY <2>4, <2>5, <3>1
  <2>8. left(far, wrap) = p
    BY <2>5
  <2> HIDE DEF s
  <2>9. ASSUME NEW j \in 0 .. N - 1
        PROVE  (a'[j] - TimesXPlusOne(s, j)) % Q = 0 /\ Abs(a'[j]) <= Q2 + Edge
    <3> DEFINE r == MontgomeryReduce(TimesXPlusOne(p, j) * Mont)
    <3>1. a' = times(p)
      BY <2>3, <2>8
    <3>2. a'[j] = r
      <4> HIDE DEF p
      <4> QED BY <3>1 DEF TimesXPlusOne
    <3>3. r \in Int /\ Same(r, TimesXPlusOne(s, j)) /\ Abs(r) <= Q2 + Edge
      BY <2>7, LeftIs
    <3>4. TimesXPlusOne(s, j) \in Int
      <4>1. N = 2 * N2 /\ N2 \in Nat
        BY Sizes
      <4> QED BY <2>7, <4>1 DEF TimesXPlusOne
    <3> HIDE DEF r
    <3>5. (r - TimesXPlusOne(s, j)) % Q = 0
      BY <3>3, <3>4, SameMod
    <3> QED BY <3>2, <3>3, <3>5
  <2> HIDE DEF p
  <2>10. \A j \in 0 .. N - 1 :
           (a'[j] - TimesXPlusOne(Transformed(wrap)', j)) % Q = 0 /\ Abs(a'[j]) <= Q2 + Edge
    BY <2>6, <2>9 DEF s
  <2>11. \A w : Transformed(w)' = Transformed(w)
    BY <2>1 DEF Transformed
  <2> QED BY <2>6, <2>10, <2>11 DEF ProductRight, TimesXPlusOne, Abs
<1>2. CASE SimpleDecode \/ UNCHANGED vars
  <2>1. UNCHANGED <<a, ct, f>> /\ (phase' \in {"multiplied", "decrypted"} => phase \in {"multiplied", "decrypted"})
    BY <1>2 DEF SimpleDecode, vars, keygen
  <2> QED BY <2>1 DEF ProductRight, Transformed
<1>3. CASE Next /\ ~Multiply /\ ~SimpleDecode
  <2>1. phase' \notin {"multiplied", "decrypted"}
    BY <1>3 DEF Next, RetryF, AcceptF, InvertLevel, StartG, TestG, Pack, Encrypt
  <2> QED BY <2>1 DEF ProductRight
<1> QED BY <1>1, <1>2, <1>3 DEF Next

(* Where QINV and MONT are what ntt.h takes them for, decoding starts from  *)
(* the product of x^N2 + 1, the ciphertext and f modulo Q plus the sums     *)
(* that wrapped, whichever representatives poly_intt left; and from the     *)
(* ones nearest to zero but for coefficients within Edge of Q / 2.          *)
THEOREM ProductCentred ==
  ASSUME ReductionsRight
  PROVE  Spec => []ProductRight
<1>1. Init => KeyInv /\ ProductRight
  BY KeyInit DEF Init, ProductRight
<1>2. KeyInv /\ ProductRight /\ [Next]_vars => (KeyInv /\ ProductRight)'
  BY KeyStep, ProductStep
<1> QED BY <1>1, <1>2, PTL DEF Spec

-----------------------------------------------------------------------------
(* Key generation.  The candidate of nonce n for f would be accepted.      *)
Accepted(n) ==
  Cardinality({i \in 0 .. N4 - 1 : Fold(tries[n].f, N, N4)[i] = 1}) % 2 = 1 /\ tries[n].fOk

(* The guard of key generation and the sum that says whether a candidate    *)
(* will do are the same: folding keeps the parity.                          *)
LEMMA AcceptedIs ==
  ASSUME NEW n, tries[n].f \in [0 .. N - 1 -> Int]
  PROVE  Accepted(n) <=> Suitable(n)
<1> DEFINE t == tries[n].f
           F == Fold(t, N, N4)
<1>1. N \in Nat \ {0} /\ N4 \in Nat \ {0}
  BY Sizes
<1>2. Sum(N, LAMBDA i : t[i]) % 2 = 1 <=> Odd(OddAt(N, t))
  <2>1. N \in Nat /\ t \in [0 .. N - 1 -> Int]
    BY <1>1
  <2> HIDE DEF t
  <2> QED BY <2>1, SumParity
<1>3. OddAt(N, t) \in SUBSET Nat /\ IsFiniteSet(OddAt(N, t))
  <2>1. IsFiniteSet(0 .. N - 1) /\ OddAt(N, t) \subseteq 0 .. N - 1 /\ 0 .. N - 1 \subseteq Nat
    BY <1>1, FS_Interval DEF OddAt
  <2> HIDE DEF t
  <2> QED BY <2>1, FS_Subset
<1>4. Odd(OddAt(N, t)) <=> Odd(FoldSet(N4, OddAt(N, t)))
  <2> HIDE DEF t
  <2> QED BY <1>1, <1>3, FoldParity
<1>5. Ones(N4, F) = FoldSet(N4, OddAt(N, t))
  <2> HIDE DEF t
  <2> QED BY <1>1, FoldIs
<1>6. Accepted(n) <=> Odd(Ones(N4, F)) /\ tries[n].fOk
  BY DEF Accepted, Odd, Ones
<1>7. Suitable(n) <=> Sum(N, LAMBDA i : t[i]) % 2 = 1 /\ tries[n].fOk
  BY DEF Suitable
<1> HIDE DEF t, F
<1> QED BY <1>2, <1>4, <1>5, <1>6, <1>7

(* What CanHaveKeys says of some nonces, of nf and ng.                      *)
HasKeys(nf, ng) == phase \in {"f", "invert", "g"} /\ Suitable(nf) /\ tries[ng].gOk

(* Steps of the nonce from x to y. *)
Ahead(x, y) == IF x <= y THEN y - x ELSE y - x + Nonces

(* What key generation has left to do at most: nonces to try, levels.       *)
Left(nf, ng) ==
  CASE phase = "f" -> Ahead(fNonce, nf) + N4 + Nonces + 2
    [] phase = "invert" -> N4 - level + Nonces + 1
    [] phase = "g" -> Ahead(gNonce, ng) + 1
    [] OTHER -> 0

Limit == 2 * Nonces + N4 + 1

KeyGenShrinks ==
  /\ [](phase = "invert" => level \in 1 .. N4)
  /\ [](\A nf, ng \in 0 .. Nonces - 1 : HasKeys(nf, ng) => Left(nf, ng) \in 1 .. Limit)
  /\ [][\A nf, ng \in 0 .. Nonces - 1 : HasKeys(nf, ng) => Left(nf, ng)' < Left(nf, ng)]_vars

(* The nonce is one past that of the candidate being tested. *)
InTurn ==
  /\ phase = "f" => fNonce \in 0 .. Nonces - 1 /\ nonce = (fNonce + 1) % Nonces /\ f = tries[fNonce].f
  /\ phase = "g" => gNonce \in 0 .. Nonces - 1 /\ nonce = (gNonce + 1) % Nonces

(* The next nonce is one step nearer to any other, also when it wraps.      *)
LEMMA NearerByOne ==
  ASSUME NEW x \in 0 .. Nonces - 1, NEW y \in 0 .. Nonces - 1
  PROVE  /\ Ahead(x, y) \in 0 .. Nonces - 1
         /\ x # y => Ahead((x + 1) % Nonces, y) < Ahead(x, y)
<1>1. Nonces \in Nat \ {0} /\ x \in Nat /\ y \in Nat
  BY Sizes
<1>2. CASE x + 1 < Nonces
  <2>1. (x + 1) % Nonces = x + 1
    <3>1. x + 1 \in 0 .. Nonces - 1
      BY <1>1, <1>2
    <3> QED BY <1>1, <3>1, ModSmall
  <2> QED BY <1>1, <1>2, <2>1 DEF Ahead
<1>3. CASE x + 1 = Nonces
  <2>1. (x + 1) % Nonces = 0
    BY <1>1, <1>3
  <2> QED BY <1>1, <1>3, <2>1 DEF Ahead
<1> QED BY <1>1, <1>2, <1>3

(* In the loop of FastInversion the level is one of its levels. *)
LEMMA LevelInRange == KeyInv /\ phase = "invert" => level \in 1 .. N4
BY DEF KeyInv, Doubling, Level

(* The nonce keeps up. *)
LEMMA TurnStep == KeyInv /\ InTurn /\ [Next]_vars => InTurn'
<1> SUFFICES ASSUME KeyInv, InTurn, [Next]_vars PROVE InTurn'
  OBVIOUS
<1>1. phase \in {"f", "invert", "g"} => nonce \in 0 .. Nonces - 1
  BY DEF KeyInv, Types
<1>2. CASE RetryF
  BY <1>1, <1>2 DEF RetryF, InTurn
<1>3. CASE StartG
  BY <1>1, <1>3 DEF StartG, InTurn
<1>4. CASE TestG
  BY <1>1, <1>4 DEF TestG, InTurn
<1>5. CASE UNCHANGED vars
  BY <1>5 DEF vars, keygen, InTurn
<1>6. CASE AcceptF \/ InvertLevel \/ Pack \/ Encrypt \/ Multiply \/ SimpleDecode
  <2>1. phase' \notin {"f", "g"}
    BY <1>6 DEF AcceptF, InvertLevel, Pack, Encrypt, Multiply, SimpleDecode
  <2> QED BY <2>1 DEF InTurn
<1> QED BY <1>2, <1>3, <1>4, <1>5, <1>6 DEF Next

(* A candidate for f that is accepted is none that is rejected: the nonce   *)
(* has not come to it.                                                      *)
LEMMA RetryLeaves ==
  ASSUME KeyInv, InTurn, RetryF, NEW nf \in 0 .. Nonces - 1, NEW ng \in 0 .. Nonces - 1, Accepted(nf)
  PROVE  Left(nf, ng)' < Left(nf, ng)
<1>1. phase = "f" /\ phase' = "f" /\ fNonce' = nonce /\ ~(Invertible2 /\ tries[fNonce].fOk)
  BY DEF RetryF
<1>2. fNonce \in 0 .. Nonces - 1 /\ nonce = (fNonce + 1) % Nonces /\ f = tries[fNonce].f
  BY <1>1 DEF InTurn
<1>3. fNonce # nf
  BY <1>1, <1>2 DEF Accepted, Invertible2, F2
<1>4. Nonces \in Nat \ {0} /\ N4 \in Nat /\ nonce \in 0 .. Nonces - 1
  BY <1>1, Sizes DEF KeyInv, Types
<1>5. /\ Ahead(fNonce, nf) \in 0 .. Nonces - 1 /\ Ahead(nonce, nf) \in 0 .. Nonces - 1
      /\ Ahead(nonce, nf) < Ahead(fNonce, nf)
  BY <1>2, <1>3, <1>4, NearerByOne
<1>6. Left(nf, ng) = Ahead(fNonce, nf) + N4 + Nonces + 2
  BY <1>1 DEF Left
<1>7. Left(nf, ng)' = Ahead(nonce, nf) + N4 + Nonces + 2
  BY <1>1 DEF Left, Ahead
<1> QED BY <1>4, <1>5, <1>6, <1>7

(* The same for g; the first that is accepted ends the loop. *)
LEMMA TestLeaves ==
  ASSUME KeyInv, InTurn, TestG, NEW nf \in 0 .. Nonces - 1, NEW ng \in 0 .. Nonces - 1, tries[ng].gOk
  PROVE  Left(nf, ng)' < Left(nf, ng)
<1>1. phase = "g" /\ gNonce \in 0 .. Nonces - 1 /\ nonce = (gNonce + 1) % Nonces
  BY DEF TestG, InTurn
<1>2. Nonces \in Nat \ {0} /\ nonce \in 0 .. Nonces - 1
  BY <1>1, Sizes DEF KeyInv, Types
<1>3. Ahead(gNonce, ng) \in 0 .. Nonces - 1 /\ Left(nf, ng) = Ahead(gNonce, ng) + 1
  BY <1>1, NearerByOne DEF Left
<1>4. CASE tries[gNonce].gOk
  <2>1. phase' = "keys"
    BY <1>4 DEF TestG
  <2>2. Left(nf, ng)' = 0
    BY <2>1 DEF Left
  <2> QED BY <1>2, <1>3, <2>2
<1>5. CASE ~tries[gNonce].gOk
  <2>1. phase' = "g" /\ gNonce' = nonce
    BY <1>1, <1>5 DEF TestG
  <2>2. Left(nf, ng)' = Ahead(nonce, ng) + 1
    BY <2>1 DEF Left, Ahead
  <2>3. gNonce # ng
    BY <1>5
  <2>4. Ahead(nonce, ng) \in 0 .. Nonces - 1 /\ Ahead(nonce, ng) < Ahead(gNonce, ng)
    BY <1>1, <1>2, <2>3, NearerByOne
  <2> QED BY <1>2, <1>3, <2>2, <2>4
<1> QED BY <1>4, <1>5

(* Every step of key generation leaves less. *)
LEMMA StepLeaves ==
  ASSUME KeyInv, InTurn, KeyInv', Next,
         NEW nf \in 0 .. Nonces - 1, NEW ng \in 0 .. Nonces - 1, HasKeys(nf, ng)
  PROVE  Left(nf, ng)' < Left(nf, ng)
<1>1. Nonces \in Nat \ {0} /\ N4 \in Nat \ {0}
  BY Sizes
<1>2. CASE RetryF
  <2>1. tries[nf].f \in Samples
    BY DEF HasKeys, KeyInv, Types
  <2>2. tries[nf].f \in [0 .. N - 1 -> Int]
    <3>1. tries[nf].f \in [0 .. N - 1 -> -1 .. 1]
      BY <2>1, Sizes
    <3>2. -1 .. 1 \subseteq Int
      OBVIOUS
    <3> QED BY <3>1, <3>2
  <2> QED BY <1>2, <2>2, AcceptedIs, RetryLeaves DEF HasKeys
<1>3. CASE TestG
  BY <1>3, TestLeaves DEF HasKeys
<1>4. CASE AcceptF
  <2>1. phase = "f" /\ phase' = "invert" /\ level' = 1
    BY <1>4 DEF AcceptF
  <2>2. Ahead(fNonce, nf) \in 0 .. Nonces - 1 /\ Left(nf, ng) = Ahead(fNonce, nf) + N4 + Nonces + 2
    BY <2>1, NearerByOne DEF InTurn, Left
  <2>3. Left(nf, ng)' = N4 - 1 + Nonces + 1
    BY <2>1 DEF Left
  <2> QED BY <1>1, <2>2, <2>3
<1>5. CASE InvertLevel
  <2>1. phase = "invert" /\ phase' = "invert" /\ level' = 2 * level
    BY <1>5 DEF InvertLevel
  <2>2. level \in 1 .. N4
    BY <2>1, LevelInRange
  <2>3. Left(nf, ng) = N4 - level + Nonces + 1 /\ Left(nf, ng)' = N4 - 2 * level + Nonces + 1
    BY <2>1 DEF Left
  <2> QED BY <1>1, <2>2, <2>3
<1>6. CASE StartG
  <2>1. phase = "invert" /\ phase' = "g" /\ level = N4 /\ gNonce' = nonce
    BY <1>6 DEF StartG
  <2>2. Ahead(nonce, ng) \in 0 .. Nonces - 1
    BY <2>1, NearerByOne DEF KeyInv, Types
  <2>3. Left(nf, ng) = N4 - N4 + Nonces + 1 /\ Left(nf, ng)' = Ahead(nonce, ng) + 1
    BY <2>1 DEF Left, Ahead
  <2> QED BY <1>1, <2>2, <2>3
<1>7. CASE Pack \/ Encrypt \/ Multiply \/ SimpleDecode
  BY <1>7 DEF Pack, Encrypt, Multiply, SimpleDecode, HasKeys
<1> QED BY <1>2, <1>3, <1>4, <1>5, <1>6, <1>7 DEF Next

(* Where some nonce has an f and some nonce has a g, key generation takes   *)
(* at most Limit steps, although the byte of the nonce wraps and both loops *)
(* share it; and the level of FastInversion, which doubles, never passes    *)
(* N4, where its loop stops.                                                *)
THEOREM KeyGenEndsBy == Spec => KeyGenShrinks
<1>1. Init => KeyInv /\ InTurn
  <2> SUFFICES ASSUME Init PROVE InTurn
    BY KeyInit
  <2>1. 0 \in 0 .. Nonces - 1
    BY Sizes
  <2> QED BY <2>1 DEF Init, InTurn
<1>2. KeyInv /\ InTurn /\ [Next]_vars => (KeyInv /\ InTurn)'
  BY KeyStep, TurnStep
<1>3. KeyInv => (phase = "invert" => level \in 1 .. N4)
  BY LevelInRange
<1>4. KeyInv /\ InTurn => \A nf, ng \in 0 .. Nonces - 1 : HasKeys(nf, ng) => Left(nf, ng) \in 1 .. Limit
  <2> SUFFICES ASSUME KeyInv, InTurn, NEW nf \in 0 .. Nonces - 1, NEW ng \in 0 .. Nonces - 1,
                      HasKeys(nf, ng)
               PROVE  Left(nf, ng) \in 1 .. Limit
    OBVIOUS
  <2>1. Nonces \in Nat \ {0} /\ N4 \in Nat \ {0}
    BY Sizes
  <2>2. CASE phase = "f"
    BY <2>1, <2>2, NearerByOne DEF InTurn, Left, Limit
  <2>3. CASE phase = "invert"
    BY <2>1, <2>3, LevelInRange DEF Left, Limit
  <2>4. CASE phase = "g"
    BY <2>1, <2>4, NearerByOne DEF InTurn, Left, Limit
  <2> QED BY <2>2, <2>3, <2>4 DEF HasKeys
<1>5. KeyInv /\ InTurn /\ (KeyInv /\ InTurn)' /\ [Next]_vars =>
        [\A nf, ng \in 0 .. Nonces - 1 : HasKeys(nf, ng) => Left(nf, ng)' < Left(nf, ng)]_vars
  BY StepLeaves
<1> QED BY <1>1, <1>2, <1>3, <1>4, <1>5, PTL DEF Spec, KeyGenShrinks
=============================================================================
