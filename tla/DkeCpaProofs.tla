---------------------------- MODULE DkeCpaProofs ----------------------------
(***************************************************************************)
(* Proofs about two parts of the DKE encryption under the KEM (dkecpa.c):  *)
(* the reconciliation of its key bits and the sampling of its matrix.      *)
(*                                                                         *)
(* Reconcile, for every coefficient, coin and noise of the three sizes:    *)
(* lemmas reduce the bit-level arithmetic of reduce.c and getsignal to     *)
(* statements modulo q; the argument itself is in ResponderRest and the    *)
(* lemmas after it.                                                        *)
(*                                                                         *)
(* MatrixSampler, for every set of sizes and every stream: coefficient k   *)
(* is pinned by its rank, the number of accepted candidates before it      *)
(* among those its implementation looks at (Looked), whatever bytes the    *)
(* end of a block drops.  Ranks need no induction, because a rank grows by *)
(* at most one from a byte to the next (RankNext), and two accepted        *)
(* candidates of the same rank are the same (RankInjective).  The last     *)
(* part shows that sampling comes to its end.                              *)
(***************************************************************************)
EXTENDS Reconcile, MatrixSampler, FiniteSetTheorems, SequenceTheorems, TLAPS

-----------------------------------------------------------------------------
(* Reconciliation. *)

(* The two moduli. *)
LEMMA Moduli ==
  ASSUME NEW a \in Algs
  PROVE  \/ Q(a) = 3329 /\ Half(a) = 1664 /\ Barrett(a) = 20159
         \/ Q(a) = 7681 /\ Half(a) = 3840 /\ Barrett(a) = 8737
BY DEF Algs, Q, Half, Barrett

LEMMA SmallModulo ==
  ASSUME NEW x \in Int, 0 <= x, x < 65536
  PROVE  x % 65536 = x
OBVIOUS

LEMMA Int16Keeps ==
  ASSUME NEW x \in Int, -32768 <= x, x <= 32767
  PROVE  Int16(x) = x
<1>1. x + 32768 \in Int /\ 0 <= x + 32768 /\ x + 32768 < 65536
  OBVIOUS
<1>2. (x + 32768) % 65536 = x + 32768
  BY <1>1, SmallModulo
<1>3. QED
  BY <1>2 DEF Int16

(* Division by the constants of reduce.b and poly.b, as two inequalities.  *)
LEMMA Quotients ==
  ASSUME NEW x \in Int
  PROVE  /\ x \div 67108864 \in Int /\ x \div 4194304 \in Int /\ x \div 2097152 \in Int
         /\ x \div 64 \in Int /\ x \div 32 \in Int /\ x \div 16 \in Int
         /\ 67108864 * (x \div 67108864) <= x /\ x < 67108864 * (x \div 67108864) + 67108864
         /\ 4194304 * (x \div 4194304) <= x /\ x < 4194304 * (x \div 4194304) + 4194304
         /\ 2097152 * (x \div 2097152) <= x /\ x < 2097152 * (x \div 2097152) + 2097152
         /\ 64 * (x \div 64) <= x /\ x < 64 * (x \div 64) + 64
         /\ 32 * (x \div 32) <= x /\ x < 32 * (x \div 32) + 32
         /\ 16 * (x \div 16) <= x /\ x < 16 * (x \div 16) + 16
         /\ x = 64 * (x \div 64) + (x % 64)
OBVIOUS

LEMMA Barrett3329 ==
  ASSUME NEW x \in Int, -20000 <= x, x <= 20000, NEW t \in Int,
         67108864 * t <= 20159 * x + 33554432, 20159 * x + 33554432 < 67108864 * t + 67108864
  PROVE  -1664 <= x - t * 3329 /\ x - t * 3329 <= 1664 /\ -7 <= t /\ t <= 7
OBVIOUS

LEMMA Barrett7681 ==
  ASSUME NEW x \in Int, -20000 <= x, x <= 20000, NEW t \in Int,
         67108864 * t <= 8737 * x + 33554432, 8737 * x + 33554432 < 67108864 * t + 67108864
  PROVE  -3840 <= x - t * 7681 /\ x - t * 7681 <= 3840 /\ -3 <= t /\ t <= 3
OBVIOUS

(* barrett_reduce returns the centred representative. *)
LEMMA ReduceCentres ==
  ASSUME NEW a \in Algs, NEW x \in Int, -20000 <= x, x <= 20000
  PROVE  /\ BarrettReduce(a, x) \in Centred(a)
         /\ \E t \in Int : BarrettReduce(a, x) = x - t * Q(a)
<1> DEFINE y == Barrett(a) * x + 33554432
           t == y \div 67108864
<1>1. Barrett(a) \in Int /\ Q(a) \in Int /\ Half(a) \in Int
  BY Moduli
<1>2. y \in Int /\ t \in Int /\ 67108864 * t <= y /\ y < 67108864 * t + 67108864
  BY <1>1, Quotients
<1>3. /\ -Half(a) <= x - t * Q(a) /\ x - t * Q(a) <= Half(a)
      /\ -7 <= t /\ t <= 7 /\ -32768 <= t * Q(a) /\ t * Q(a) <= 32767
  <2>1. CASE Q(a) = 3329 /\ Half(a) = 1664 /\ Barrett(a) = 20159
    <3> HIDE DEF t
    <3>1. 67108864 * t <= 20159 * x + 33554432 /\ 20159 * x + 33554432 < 67108864 * t + 67108864
      BY <1>2, <2>1
    <3>2. t \in Int
      BY <1>2
    <3>3. QED
      BY <3>1, <3>2, <2>1, Barrett3329
  <2>2. CASE Q(a) = 7681 /\ Half(a) = 3840 /\ Barrett(a) = 8737
    <3> HIDE DEF t
    <3>1. 67108864 * t <= 8737 * x + 33554432 /\ 8737 * x + 33554432 < 67108864 * t + 67108864
      BY <1>2, <2>2
    <3>2. t \in Int
      BY <1>2
    <3>3. QED
      BY <3>1, <3>2, <2>2, Barrett7681
  <2>3. QED
    BY <2>1, <2>2, Moduli
<1> HIDE DEF t
<1>4. Int16(t) = t /\ Int16(t * Q(a)) = t * Q(a)
  BY <1>1, <1>2, <1>3, Int16Keeps
<1>5. x - t * Q(a) \in Int /\ -32768 <= x - t * Q(a) /\ x - t * Q(a) <= 32767
  BY <1>1, <1>2, <1>3, Moduli
<1>6. Int16(x - t * Q(a)) = x - t * Q(a)
  BY <1>5, Int16Keeps
<1>7. BarrettReduce(a, x) = x - t * Q(a)
  BY <1>4, <1>6 DEF BarrettReduce, t
<1>8. QED
  BY <1>7, <1>2, <1>3, <1>5, <1>1 DEF Centred

(* A residue class has one centred representative. *)
LEMMA Unique3329 ==
  ASSUME NEW x \in Int, NEW y \in Int, NEW n \in Int,
         -1664 <= x, x <= 1664, -1664 <= y, y <= 1664, x = y + n * 3329
  PROVE  x = y
OBVIOUS

LEMMA Unique7681 ==
  ASSUME NEW x \in Int, NEW y \in Int, NEW n \in Int,
         -3840 <= x, x <= 3840, -3840 <= y, y <= 3840, x = y + n * 7681
  PROVE  x = y
OBVIOUS

LEMMA CentredUnique ==
  ASSUME NEW a \in Algs, NEW x \in Centred(a), NEW y \in Centred(a), NEW n \in Int,
         x = y + n * Q(a)
  PROVE  x = y
<1>1. CASE Q(a) = 3329 /\ Half(a) = 1664
  <2>1. /\ x \in Int /\ -1664 <= x /\ x <= 1664
        /\ y \in Int /\ -1664 <= y /\ y <= 1664
    BY <1>1 DEF Centred
  <2>2. x = y + n * 3329
    BY <1>1
  <2>3. QED
    BY <2>1, <2>2, Unique3329
<1>2. CASE Q(a) = 7681 /\ Half(a) = 3840
  <2>1. /\ x \in Int /\ -3840 <= x /\ x <= 3840
        /\ y \in Int /\ -3840 <= y /\ y <= 3840
    BY <1>2 DEF Centred
  <2>2. x = y + n * 7681
    BY <1>2
  <2>3. QED
    BY <2>1, <2>2, Unique7681
<1>3. QED
  BY <1>1, <1>2, Moduli

(* So a reduction finds any centred value congruent to its argument. *)
LEMMA ReduceFinds ==
  ASSUME NEW a \in Algs, NEW x \in Int, -20000 <= x, x <= 20000,
         NEW y \in Centred(a), NEW n \in Int, x = y + n * Q(a)
  PROVE  BarrettReduce(a, x) = y
<1>1. PICK t \in Int : BarrettReduce(a, x) = x - t * Q(a)
  BY ReduceCentres
<1>2. Q(a) \in Int /\ y \in Int
  BY Moduli DEF Centred
<1>3. BarrettReduce(a, x) = y + (n - t) * Q(a)
  BY <1>1, <1>2
<1>4. QED
  BY <1>3, ReduceCentres, CentredUnique

LEMMA CentreCentres ==
  ASSUME NEW a \in Algs, NEW x \in Int
  PROVE  /\ Centre(a, x) \in Centred(a)
         /\ \E n \in Int : Centre(a, x) = x + n * Q(a)
<1> DEFINE n == -((x + Half(a)) \div Q(a))
<1>1. CASE Q(a) = 3329 /\ Half(a) = 1664
  <2>1. /\ (x + 1664) % 3329 \in 0 .. 3328 /\ (x + 1664) \div 3329 \in Int
        /\ x + 1664 = 3329 * ((x + 1664) \div 3329) + ((x + 1664) % 3329)
    OBVIOUS
  <2>2. Centre(a, x) = x + n * Q(a) /\ n \in Int
    BY <1>1, <2>1 DEF Centre
  <2>3. Centre(a, x) \in Centred(a)
    BY <1>1, <2>1 DEF Centre, Centred
  <2>4. QED
    BY <2>2, <2>3
<1>2. CASE Q(a) = 7681 /\ Half(a) = 3840
  <2>1. /\ (x + 3840) % 7681 \in 0 .. 7680 /\ (x + 3840) \div 7681 \in Int
        /\ x + 3840 = 7681 * ((x + 3840) \div 7681) + ((x + 3840) % 7681)
    OBVIOUS
  <2>2. Centre(a, x) = x + n * Q(a) /\ n \in Int
    BY <1>2, <2>1 DEF Centre
  <2>3. Centre(a, x) \in Centred(a)
    BY <1>2, <2>1 DEF Centre, Centred
  <2>4. QED
    BY <2>2, <2>3
<1>3. QED
  BY <1>1, <1>2, Moduli

-----------------------------------------------------------------------------
(* What getsignal computes from a coefficient u in 0 .. q-1, in linear     *)
(* inequalities: h and l are the two parts of the scaled value, p the part *)
(* of the product carried over, s the shifted product, f the result of     *)
(* fromsignal for the masked s.                                            *)
LEMMA Signal128 ==
  ASSUME NEW u \in Int, 0 <= u, u <= 3328, NEW h \in Int, NEW l \in Int, NEW p \in Int,
         NEW s \in Int, NEW w \in Int, NEW f \in Int,
         16 * u + 1665 = 64 * h + l, 0 <= l, l < 64,
         64 * p <= 80635 * l, 80635 * l < 64 * p + 64,
         4194304 * s <= 80635 * h + p, 80635 * h + p < 4194304 * s + 4194304,
         w = IF s = 16 THEN 0 ELSE s,
         16 * f <= 3329 * w, 3329 * w < 16 * f + 16
  PROVE  /\ 0 <= s /\ s <= 16 /\ 0 <= f /\ f <= 3329
         /\ s # 16 => -104 <= u - f /\ u - f <= 104
         /\ s = 16 => -104 <= u - 3329 /\ f = 0
<1>1. 0 <= s /\ s <= 16
  OBVIOUS
<1>2. CASE s = 16
  BY <1>2
<1>3. CASE s # 16
  BY <1>1, <1>3
<1>4. QED
  BY <1>1, <1>2, <1>3

LEMMA Signal256 ==
  ASSUME NEW u \in Int, 0 <= u, u <= 3328, NEW h \in Int, NEW l \in Int, NEW p \in Int,
         NEW s \in Int, NEW w \in Int, NEW f \in Int,
         32 * u + 1664 = 64 * h + l, 0 <= l, l < 64,
         64 * p <= 40318 * l, 40318 * l < 64 * p + 64,
         2097152 * s <= 40318 * h + p, 40318 * h + p < 2097152 * s + 2097152,
         w = IF s = 32 THEN 0 ELSE s,
         32 * f <= 3329 * w, 3329 * w < 32 * f + 32
  PROVE  /\ 0 <= s /\ s <= 32 /\ 0 <= f /\ f <= 3329
         /\ s # 32 => -52 <= u - f /\ u - f <= 52
         /\ s = 32 => -52 <= u - 3329 /\ f = 0
<1>1. 0 <= s /\ s <= 32
  OBVIOUS
<1>2. CASE s = 32
  BY <1>2
<1>3. CASE s # 32
  BY <1>1, <1>3
<1>4. QED
  BY <1>1, <1>2, <1>3

LEMMA Signal512 ==
  ASSUME NEW u \in Int, 0 <= u, u <= 7680, NEW h \in Int, NEW l \in Int, NEW p \in Int,
         NEW s \in Int, NEW w \in Int, NEW f \in Int,
         16 * u + 3840 = 64 * h + l, 0 <= l, l < 64,
         64 * p <= 34948 * l, 34948 * l < 64 * p + 64,
         4194304 * s <= 34948 * h + p, 34948 * h + p < 4194304 * s + 4194304,
         w = IF s = 16 THEN 0 ELSE s,
         16 * f <= 7681 * w, 7681 * w < 16 * f + 16
  PROVE  /\ 0 <= s /\ s <= 16 /\ 0 <= f /\ f <= 7681
         /\ s # 16 => -240 <= u - f /\ u - f <= 240
         /\ s = 16 => -240 <= u - 7681 /\ f = 0
<1>1. 0 <= s /\ s <= 16
  OBVIOUS
<1>2. CASE s = 16
  BY <1>2
<1>3. CASE s # 16
  BY <1>1, <1>3
<1>4. QED
  BY <1>1, <1>2, <1>3

-----------------------------------------------------------------------------
LEMMA SmallRemainders ==
  /\ \A s \in Int : 0 <= s /\ s <= 16 => s % 16 = (IF s = 16 THEN 0 ELSE s)
  /\ \A s \in Int : 0 <= s /\ s <= 32 => s % 32 = (IF s = 32 THEN 0 ELSE s)
OBVIOUS

(* The scaled value of the three sizes, from its parts. *)
LEMMA SignalClose ==
  ASSUME NEW a \in Algs, NEW u \in Centred(a)
  PROVE  /\ GetSignal(a, u) \in 0 .. Levels(a) - 1
         /\ FromSignal(a, GetSignal(a, u)) \in 0 .. Q(a)
         /\ \E j \in Int :
              u - FromSignal(a, GetSignal(a, u)) + j * Q(a) \in -(Loss(a) - 1) .. Loss(a) - 1
<1> DEFINE v == Positive(a, u)
           d == Levels(a) * v + Round(a)
           h == d \div 64
           l == d % 64
           p == (l * Mul(a)) \div 64
           s == Scaled(a, u)
           w == GetSignal(a, u)
           f == FromSignal(a, w)
<1>1. CASE a = "DKE-128"
  <2>1. /\ Q(a) = 3329 /\ Half(a) = 1664 /\ Levels(a) = 16 /\ Round(a) = 1665
        /\ Mul(a) = 80635 /\ Scale(a) = 4194304 /\ Loss(a) = 105
    BY <1>1 DEF Q, Half, Levels, Round, Mul, Scale, Loss
  <2>2. /\ u \in -1664 .. 1664 /\ v \in Int /\ 0 <= v /\ v <= 3328
        /\ v = u \/ v = u + 3329
    BY <2>1 DEF Centred, Positive
  <2>3. /\ h \in Int /\ l \in Int /\ 16 * v + 1665 = 64 * h + l /\ 0 <= l /\ l < 64
    BY <2>1, <2>2, Quotients
  <2>4. /\ p \in Int /\ 64 * p <= 80635 * l /\ 80635 * l < 64 * p + 64
    BY <2>1, <2>3, Quotients
  <2>5. s = (80635 * h + p) \div 4194304
    BY <2>1, <2>3 DEF Scaled
  <2>6. /\ s \in Int /\ 4194304 * s <= 80635 * h + p /\ 80635 * h + p < 4194304 * s + 4194304
    <3> HIDE DEF s, h, p, l
    <3>1. QED
      BY <2>3, <2>4, <2>5, Quotients
  <2>7. 0 <= s /\ s <= 16
    <3> HIDE DEF s, h, p, l
    <3>1. QED
      BY <2>2, <2>3, <2>4, <2>6
  <2>8. w = (IF s = 16 THEN 0 ELSE s) /\ w \in 0 .. 15
    BY <2>1, <2>6, <2>7, SmallRemainders DEF GetSignal
  <2>9. f \in Int /\ 16 * f <= 3329 * w /\ 3329 * w < 16 * f + 16
    BY <2>1, <2>8, Quotients DEF FromSignal
  <2> HIDE DEF s, h, p, l, w, f, v
  <2>10. /\ 0 <= f /\ f <= 3329
         /\ s # 16 => -104 <= v - f /\ v - f <= 104
         /\ s = 16 => -104 <= v - 3329 /\ f = 0
    BY <2>2, <2>3, <2>4, <2>6, <2>8, <2>9, Signal128
  <2>11. \E j \in {-1, 0, 1} : u - f + j * 3329 \in -104 .. 104
    BY <2>2, <2>9, <2>10
  <2>12. GetSignal(a, u) \in 0 .. Levels(a) - 1 /\ f \in 0 .. Q(a)
    BY <2>1, <2>8, <2>9, <2>10 DEF w
  <2>13. \E j \in Int : u - f + j * Q(a) \in -(Loss(a) - 1) .. Loss(a) - 1
    BY <2>1, <2>11
  <2>14. QED
    BY <2>12, <2>13 DEF w, f
<1>2. CASE a = "DKE-256"
  <2>1. /\ Q(a) = 3329 /\ Half(a) = 1664 /\ Levels(a) = 32 /\ Round(a) = 1664
        /\ Mul(a) = 40318 /\ Scale(a) = 2097152 /\ Loss(a) = 53
    BY <1>2 DEF Q, Half, Levels, Round, Mul, Scale, Loss
  <2>2. /\ u \in -1664 .. 1664 /\ v \in Int /\ 0 <= v /\ v <= 3328
        /\ v = u \/ v = u + 3329
    BY <2>1 DEF Centred, Positive
  <2>3. /\ h \in Int /\ l \in Int /\ 32 * v + 1664 = 64 * h + l /\ 0 <= l /\ l < 64
    BY <2>1, <2>2, Quotients
  <2>4. /\ p \in Int /\ 64 * p <= 40318 * l /\ 40318 * l < 64 * p + 64
    BY <2>1, <2>3, Quotients
  <2>5. s = (40318 * h + p) \div 2097152
    BY <2>1, <2>3 DEF Scaled
  <2>6. /\ s \in Int /\ 2097152 * s <= 40318 * h + p /\ 40318 * h + p < 2097152 * s + 2097152
    <3> HIDE DEF s, h, p, l
    <3>1. QED
      BY <2>3, <2>4, <2>5, Quotients
  <2>7. 0 <= s /\ s <= 32
    <3> HIDE DEF s, h, p, l
    <3>1. QED
      BY <2>2, <2>3, <2>4, <2>6
  <2>8. w = (IF s = 32 THEN 0 ELSE s) /\ w \in 0 .. 31
    BY <2>1, <2>6, <2>7, SmallRemainders DEF GetSignal
  <2>9. f \in Int /\ 32 * f <= 3329 * w /\ 3329 * w < 32 * f + 32
    BY <2>1, <2>8, Quotients DEF FromSignal
  <2> HIDE DEF s, h, p, l, w, f, v
  <2>10. /\ 0 <= f /\ f <= 3329
         /\ s # 32 => -52 <= v - f /\ v - f <= 52
         /\ s = 32 => -52 <= v - 3329 /\ f = 0
    BY <2>2, <2>3, <2>4, <2>6, <2>8, <2>9, Signal256
  <2>11. \E j \in {-1, 0, 1} : u - f + j * 3329 \in -52 .. 52
    BY <2>2, <2>9, <2>10
  <2>12. GetSignal(a, u) \in 0 .. Levels(a) - 1 /\ f \in 0 .. Q(a)
    BY <2>1, <2>8, <2>9, <2>10 DEF w
  <2>13. \E j \in Int : u - f + j * Q(a) \in -(Loss(a) - 1) .. Loss(a) - 1
    BY <2>1, <2>11
  <2>14. QED
    BY <2>12, <2>13 DEF w, f
<1>3. CASE a = "DKE-512"
  <2>1. /\ Q(a) = 7681 /\ Half(a) = 3840 /\ Levels(a) = 16 /\ Round(a) = 3840
        /\ Mul(a) = 34948 /\ Scale(a) = 4194304 /\ Loss(a) = 241
    BY <1>3 DEF Q, Half, Levels, Round, Mul, Scale, Loss
  <2>2. /\ u \in -3840 .. 3840 /\ v \in Int /\ 0 <= v /\ v <= 7680
        /\ v = u \/ v = u + 7681
    BY <2>1 DEF Centred, Positive
  <2>3. /\ h \in Int /\ l \in Int /\ 16 * v + 3840 = 64 * h + l /\ 0 <= l /\ l < 64
    BY <2>1, <2>2, Quotients
  <2>4. /\ p \in Int /\ 64 * p <= 34948 * l /\ 34948 * l < 64 * p + 64
    BY <2>1, <2>3, Quotients
  <2>5. s = (34948 * h + p) \div 4194304
    BY <2>1, <2>3 DEF Scaled
  <2>6. /\ s \in Int /\ 4194304 * s <= 34948 * h + p /\ 34948 * h + p < 4194304 * s + 4194304
    <3> HIDE DEF s, h, p, l
    <3>1. QED
      BY <2>3, <2>4, <2>5, Quotients
  <2>7. 0 <= s /\ s <= 16
    <3> HIDE DEF s, h, p, l
    <3>1. QED
      BY <2>2, <2>3, <2>4, <2>6
  <2>8. w = (IF s = 16 THEN 0 ELSE s) /\ w \in 0 .. 15
    BY <2>1, <2>6, <2>7, SmallRemainders DEF GetSignal
  <2>9. f \in Int /\ 16 * f <= 7681 * w /\ 7681 * w < 16 * f + 16
    BY <2>1, <2>8, Quotients DEF FromSignal
  <2> HIDE DEF s, h, p, l, w, f, v
  <2>10. /\ 0 <= f /\ f <= 7681
         /\ s # 16 => -240 <= v - f /\ v - f <= 240
         /\ s = 16 => -240 <= v - 7681 /\ f = 0
    BY <2>2, <2>3, <2>4, <2>6, <2>8, <2>9, Signal512
  <2>11. \E j \in {-1, 0, 1} : u - f + j * 7681 \in -240 .. 240
    BY <2>2, <2>9, <2>10
  <2>12. GetSignal(a, u) \in 0 .. Levels(a) - 1 /\ f \in 0 .. Q(a)
    BY <2>1, <2>8, <2>9, <2>10 DEF w
  <2>13. \E j \in Int : u - f + j * Q(a) \in -(Loss(a) - 1) .. Loss(a) - 1
    BY <2>1, <2>11
  <2>14. QED
    BY <2>12, <2>13 DEF w, f
<1>4. QED
  BY <1>1, <1>2, <1>3 DEF Algs

-----------------------------------------------------------------------------
LEMMA Distribute ==
  ASSUME NEW x \in Int, NEW y \in Int, NEW q \in Int
  PROVE  /\ x * q \in Int /\ y * q \in Int
         /\ (x - y) * q = x * q - y * q /\ (x + y) * q = x * q + y * q
OBVIOUS

LEMMA Regroup ==
  ASSUME NEW k \in Int, NEW b \in Int, NEW u \in Int, NEW f \in Int,
         NEW nq \in Int, NEW jq \in Int, NEW dq \in Int, k + b = u + nq, dq = nq - jq
  PROVE  k - f = ((u - f + jq) - b) + dq
OBVIOUS

(* Rest of a coefficient k, when k less the signal is y modulo q. *)
LEMMA RestFinds ==
  ASSUME NEW a \in Algs, NEW k \in Centred(a), NEW w \in Int, FromSignal(a, w) \in 0 .. Q(a),
         NEW y \in Centred(a), NEW n \in Int, k - FromSignal(a, w) = y + n * Q(a)
  PROVE  Rest(a, k, w) = y
<1> DEFINE x == k - FromSignal(a, w)
<1>1. /\ x \in Int /\ -20000 <= x /\ x <= 20000
      /\ -32768 <= x /\ x <= 32767
  BY Moduli DEF Centred
<1>2. Int16(x) = x
  BY <1>1, Int16Keeps
<1>3. x = y + n * Q(a)
  OBVIOUS
<1> HIDE DEF x
<1>4. BarrettReduce(a, x) = y
  BY <1>1, <1>3, ReduceFinds
<1>5. QED
  BY <1>2, <1>4 DEF Rest, x

LEMMA Losses ==
  ASSUME NEW a \in Algs
  PROVE  /\ Loss(a) \in Nat /\ Half(a) \in Nat /\ Q(a) \in Nat /\ Levels(a) \in Nat
         /\ 0 < Loss(a) /\ 2 * Loss(a) < Half(a)
BY DEF Algs, Loss, Half, Q, Levels

(* The argument.  The signal depends on the reduced u of k + b alone, and  *)
(* the rest of k is that of u less the coin: within Loss of zero.          *)
LEMMA ResponderRest ==
  ASSUME alg \in Algs, NEW u \in Centred(alg)
  PROVE  /\ GetSignal(alg, u) \in 0 .. Levels(alg) - 1
         /\ FromSignal(alg, GetSignal(alg, u)) \in 0 .. Q(alg)
         /\ \E z \in -(Loss(alg) - 1) .. Loss(alg) - 1 :
              \A k \in Centred(alg), b \in {0, -1}, n \in Int :
                k + b = u + n * Q(alg) =>
                  /\ SignalOf(k, b) = GetSignal(alg, u)
                  /\ Rest(alg, k, GetSignal(alg, u)) = z - b
                  /\ \E m \in Int : k - FromSignal(alg, GetSignal(alg, u)) = (z - b) + m * Q(alg)
<1> DEFINE w == GetSignal(alg, u)
           f == FromSignal(alg, w)
<1>1. /\ w \in 0 .. Levels(alg) - 1 /\ f \in 0 .. Q(alg)
      /\ \E j \in Int : u - f + j * Q(alg) \in -(Loss(alg) - 1) .. Loss(alg) - 1
  BY SignalClose
<1>2. PICK j \in Int : u - f + j * Q(alg) \in -(Loss(alg) - 1) .. Loss(alg) - 1
  BY <1>1
<1> DEFINE z == u - f + j * Q(alg)
<1>3. ASSUME NEW k \in Centred(alg), NEW b \in {0, -1}, NEW n \in Int,
             k + b = u + n * Q(alg)
      PROVE  /\ SignalOf(k, b) = w
             /\ Rest(alg, k, w) = z - b
             /\ \E m \in Int : k - f = (z - b) + m * Q(alg)
  <2>1. /\ k + b \in Int /\ -20000 <= k + b /\ k + b <= 20000
        /\ -32768 <= k + b /\ k + b <= 32767
    BY Moduli DEF Centred
  <2>2. Int16(k + b) = k + b
    BY <2>1, Int16Keeps
  <2>3. BarrettReduce(alg, k + b) = u
    BY <1>3, <2>1, ReduceFinds
  <2>4. SignalOf(k, b) = w
    BY <2>2, <2>3 DEF SignalOf
  <2> HIDE DEF w, f
  <2>5. /\ Q(alg) \in Int /\ k \in Int /\ u \in Int /\ f \in Int /\ b \in Int
    BY <1>1, Moduli DEF Centred
  <2>6. k - f = (z - b) + (n - j) * Q(alg)
    <3> DEFINE nq == n * Q(alg)
               jq == j * Q(alg)
               dq == (n - j) * Q(alg)
    <3>1. nq \in Int /\ jq \in Int /\ dq = nq - jq
      BY <2>5, <1>2, Distribute
    <3>2. k + b = u + nq
      BY <1>3
    <3> HIDE DEF nq, jq, dq
    <3>3. k - f = ((u - f + jq) - b) + dq
      BY <2>5, <3>1, <3>2, Regroup
    <3>4. QED
      BY <3>3 DEF jq, dq
  <2>7. z - b \in Centred(alg)
    <3>1. /\ Loss(alg) \in Int /\ Half(alg) \in Int /\ 0 < Loss(alg)
          /\ 2 * Loss(alg) < Half(alg)
      BY Losses
    <3> HIDE DEF z
    <3>2. z \in -(Loss(alg) - 1) .. Loss(alg) - 1
      BY <1>2 DEF z
    <3>3. QED
      BY <3>1, <3>2 DEF Centred
  <2>8. w \in Int
    BY <1>1, Losses
  <2>9. Rest(alg, k, w) = z - b
    <3>1. n - j \in Int
      BY <1>2
    <3> HIDE DEF z
    <3>2. QED
      BY <2>6, <2>7, <2>8, <1>1, <3>1, RestFinds DEF f
  <2>10. QED
    BY <2>4, <2>6, <2>9, <1>2
<1>4. QED
  BY <1>1, <1>2, <1>3

-----------------------------------------------------------------------------
(* The inductive invariant: what each step has computed so far. *)
Values ==
  /\ alg \in Algs /\ kB \in Centred(alg) /\ kA \in Centred(alg)
  /\ e \in Errors(alg) /\ coin \in {0, -1}
  /\ done \in {"kB", "signal", "B", "A"}
  /\ \E n \in Int : kA = kB + 2 * e + n * Q(alg)

Computed ==
  /\ IF done = "kB" THEN sig = 0 ELSE sig = SignalOf(kB, coin)
  /\ IF done \in {"kB", "signal"} THEN bitB = 0 ELSE bitB = KeyBit(alg, kB, sig)
  /\ IF done # "A" THEN bitA = 0 ELSE bitA = KeyBit(alg, kA, sig)

IInv == Values /\ Computed

LEMMA InitInv == RInit => IInv
<1> SUFFICES ASSUME RInit PROVE IInv
  OBVIOUS
<1>1. alg \in Algs /\ kB \in Int /\ e \in Int
  BY ErrorsAssumption, Moduli DEF RInit, Centred
<1>2. kA \in Centred(alg) /\ \E n \in Int : kA = kB + 2 * e + n * Q(alg)
  <2>1. kB + 2 * e \in Int
    BY <1>1
  <2>2. QED
    BY <1>1, <2>1, CentreCentres DEF RInit
<1>3. QED
  BY <1>1, <1>2 DEF RInit, IInv, Values, Computed

LEMMA NextInv == IInv /\ [RNext]_rvars => IInv'
<1> SUFFICES ASSUME IInv, [RNext]_rvars PROVE IInv'
  OBVIOUS
<1> USE DEF IInv, Values, Computed
<1>1. CASE Signal
  BY <1>1 DEF Signal, SignalOf
<1>2. CASE DeriveB
  BY <1>2 DEF DeriveB, SignalOf
<1>3. CASE DeriveA
  BY <1>3 DEF DeriveA, SignalOf
<1>4. CASE UNCHANGED rvars
  BY <1>4 DEF rvars, SignalOf
<1>5. QED
  BY <1>1, <1>2, <1>3, <1>4 DEF RNext

(* The signal and the key bits are those of the coefficient and the coin.  *)
THEOREM Inductive == RSpec => []IInv
BY InitInv, NextInv, PTL DEF RSpec

(* A pair of a coefficient and a coin has a reduced u. *)
LEMMA Reduced ==
  ASSUME alg \in Algs, NEW k \in Centred(alg), NEW b \in {0, -1}
  PROVE  \E u \in Centred(alg), n \in Int : k + b = u + n * Q(alg)
<1>1. /\ k + b \in Int /\ -20000 <= k + b /\ k + b <= 20000 /\ Q(alg) \in Int
  BY Moduli DEF Centred
<1>2. PICK t \in Int : /\ BarrettReduce(alg, k + b) = (k + b) - t * Q(alg)
                       /\ BarrettReduce(alg, k + b) \in Centred(alg)
  BY <1>1, ReduceCentres
<1> DEFINE u == BarrettReduce(alg, k + b)
           tq == t * Q(alg)
<1>3. tq \in Int /\ u = (k + b) - tq
  BY <1>1, <1>2
<1> HIDE DEF tq
<1>4. k + b = u + tq
  BY <1>1, <1>3
<1>5. QED
  BY <1>2, <1>4 DEF tq

(* The state after the signal: the rest of kB is small, and the signal     *)
(* lies within it. *)
LEMMA Signalled ==
  ASSUME Values, NEW b \in {0, -1}, NEW k \in Centred(alg)
  PROVE  \E y \in -Loss(alg) .. Loss(alg), m \in Int :
           /\ SignalOf(k, b) \in 0 .. Levels(alg) - 1
           /\ FromSignal(alg, SignalOf(k, b)) \in 0 .. Q(alg)
           /\ Rest(alg, k, SignalOf(k, b)) = y
           /\ k - FromSignal(alg, SignalOf(k, b)) = y + m * Q(alg)
<1>0. alg \in Algs
  BY DEF Values
<1>1. PICK u \in Centred(alg), n \in Int : k + b = u + n * Q(alg)
  BY <1>0, Reduced
<1> DEFINE w == GetSignal(alg, u)
<1>2. /\ w \in 0 .. Levels(alg) - 1
      /\ FromSignal(alg, w) \in 0 .. Q(alg)
      /\ \E z \in -(Loss(alg) - 1) .. Loss(alg) - 1 :
           /\ SignalOf(k, b) = w
           /\ Rest(alg, k, w) = z - b
           /\ \E m \in Int : k - FromSignal(alg, w) = (z - b) + m * Q(alg)
  BY <1>0, <1>1, ResponderRest
<1>3. PICK z \in -(Loss(alg) - 1) .. Loss(alg) - 1 :
           /\ SignalOf(k, b) = w
           /\ Rest(alg, k, w) = z - b
           /\ \E m \in Int : k - FromSignal(alg, w) = (z - b) + m * Q(alg)
  BY <1>2
<1>4. z - b \in -Loss(alg) .. Loss(alg)
  BY <1>0, Losses
<1> HIDE DEF w
<1>5. QED
  BY <1>2, <1>3, <1>4

(* The bits of two integers that differ by an even, and by an odd number.  *)
LEMMA EvenApart ==
  ASSUME NEW x \in Int, NEW y \in Int
  PROVE  (x + 2 * y) % 2 = x % 2
OBVIOUS

LEMMA OddApart ==
  ASSUME NEW x \in Int
  PROVE  (x + 1) % 2 # x % 2
OBVIOUS

LEMMA Bits ==
  ASSUME NEW x \in Int
  PROVE  x % 2 \in {0, 1}
OBVIOUS

LEMMA KeyBits ==
  ASSUME NEW a \in Algs, NEW k \in Centred(a), NEW w \in Int, FromSignal(a, w) \in 0 .. Q(a)
  PROVE  KeyBit(a, k, w) \in {0, 1}
<1> DEFINE x == k - FromSignal(a, w)
<1>1. /\ x \in Int /\ -20000 <= x /\ x <= 20000
      /\ -32768 <= x /\ x <= 32767
  BY Moduli DEF Centred
<1> HIDE DEF x
<1>2. Int16(x) = x /\ BarrettReduce(a, x) \in Int
  <2>1. BarrettReduce(a, x) \in Centred(a)
    BY <1>1, ReduceCentres
  <2>2. QED
    BY <1>1, <2>1, Int16Keeps, Moduli DEF Centred
<1>3. KeyBit(a, k, w) = BarrettReduce(a, x) % 2
  BY <1>2 DEF KeyBit, Rest, x
<1>4. QED
  BY <1>2, <1>3, Bits

-----------------------------------------------------------------------------
(* Coefficients stay centred, the signal fits its bits, the key bits are   *)
(* bits (dkecpa.b of the three sizes).                                     *)
THEOREM ReconcileTypes == RSpec => []RTypeOK
<1>1. IInv => RTypeOK
  <2> SUFFICES ASSUME IInv PROVE RTypeOK
    OBVIOUS
  <2> USE DEF IInv, Values, Computed
  <2>1. /\ SignalOf(kB, coin) \in 0 .. Levels(alg) - 1
        /\ FromSignal(alg, SignalOf(kB, coin)) \in 0 .. Q(alg)
    BY Signalled
  <2>2. /\ SignalOf(kB, coin) \in Int /\ 0 \in 0 .. Levels(alg) - 1
    BY <2>1 DEF Levels, Algs
  <2>3. sig \in 0 .. Levels(alg) - 1
    BY <2>1, <2>2
  <2>4. bitB \in {0, 1}
    BY <2>1, <2>2, KeyBits
  <2>5. bitA \in {0, 1}
    BY <2>1, <2>2, KeyBits
  <2>6. QED
    BY <2>3, <2>4, <2>5 DEF RTypeOK
<1>2. QED
  BY <1>1, Inductive, PTL

(* With noise below half the modulus less the loss, both sides of every    *)
(* exchange derive the same bit (dke_utils.b, derive_ss).                  *)
THEOREM KeyBitsAgree == RSpec => []BitsAgree
<1>1. IInv => BitsAgree
  <2> SUFFICES ASSUME IInv, done = "A", Tolerable(alg, e) PROVE bitA = bitB
    BY DEF BitsAgree
  <2> DEFINE f == FromSignal(alg, sig)
  <2>0. Values /\ alg \in Algs /\ sig = SignalOf(kB, coin) /\ bitB = KeyBit(alg, kB, sig) /\ bitA = KeyBit(alg, kA, sig)
    BY DEF IInv, Values, Computed
  <2>1. PICK y \in -Loss(alg) .. Loss(alg), m \in Int :
          /\ sig \in 0 .. Levels(alg) - 1 /\ f \in 0 .. Q(alg)
          /\ Rest(alg, kB, sig) = y
          /\ kB - f = y + m * Q(alg)
    BY <2>0, Signalled DEF Values
  <2>2. PICK n \in Int : kA = kB + 2 * e + n * Q(alg)
    BY <2>0 DEF Values
  <2>3. /\ Loss(alg) \in Int /\ Half(alg) \in Int /\ Q(alg) \in Int /\ Levels(alg) \in Int
        /\ e \in Int /\ kA \in Centred(alg) /\ kA \in Int /\ kB \in Int
    BY <2>0, Losses, ErrorsAssumption DEF Values, Centred
  <2>4. sig \in Int /\ f \in Int /\ y \in Int /\ y + 2 * e \in Centred(alg)
    BY <2>1, <2>3 DEF Tolerable, Centred
  <2>5. kA - f = (y + 2 * e) + (m + n) * Q(alg)
    <3> DEFINE nq == n * Q(alg)
               mq == m * Q(alg)
               dq == (m + n) * Q(alg)
    <3>1. nq \in Int /\ mq \in Int /\ dq = mq + nq
      BY <2>1, <2>2, <2>3, Distribute
    <3>2. kA = kB + 2 * e + nq /\ kB - f = y + mq
      BY <2>1, <2>2
    <3> HIDE DEF nq, mq, dq, f
    <3>3. kA - f = (y + 2 * e) + dq
      BY <2>3, <2>4, <3>1, <3>2
    <3>4. QED
      BY <3>3 DEF dq
  <2>6. Rest(alg, kA, sig) = y + 2 * e
    <3>1. m + n \in Int
      BY <2>1, <2>2
    <3>2. QED
      BY <2>0, <2>1, <2>3, <2>4, <2>5, <3>1, RestFinds
  <2>7. (y + 2 * e) % 2 = y % 2
    BY <2>3, <2>4, EvenApart
  <2>8. QED
    BY <2>0, <2>1, <2>6, <2>7 DEF KeyBit
<1>2. QED
  BY <1>1, Inductive, PTL

(* A signal is as likely with either bit: the coin pairs the coefficients  *)
(* that send it (dke_utils.b, rand_to_poly).                               *)
THEOREM Hiding == RSpec => []SignalHides
<1>1. IInv => SignalHides
  <2> DEFINE kt == Centre(alg, IF coin = 0 THEN kB + 1 ELSE kB - 1)
             ct == -1 - coin
  <2> SUFFICES ASSUME IInv, done \in {"B", "A"}
               PROVE  SignalOf(kt, ct) = sig /\ KeyBit(alg, kt, sig) # bitB
    BY DEF SignalHides, Twin
  <2>0. /\ alg \in Algs /\ kB \in Centred(alg) /\ coin \in {0, -1}
        /\ sig = SignalOf(kB, coin) /\ bitB = KeyBit(alg, kB, sig)
    BY DEF IInv, Values, Computed
  <2>1. PICK u \in Centred(alg), n \in Int : kB + coin = u + n * Q(alg)
    BY <2>0, Reduced
  <2>2. PICK z \in -(Loss(alg) - 1) .. Loss(alg) - 1 :
          \A k \in Centred(alg), b \in {0, -1}, i \in Int :
            k + b = u + i * Q(alg) =>
              /\ SignalOf(k, b) = GetSignal(alg, u)
              /\ Rest(alg, k, GetSignal(alg, u)) = z - b
    BY <2>0, ResponderRest
  <2>3. /\ SignalOf(kB, coin) = GetSignal(alg, u)
        /\ Rest(alg, kB, GetSignal(alg, u)) = z - coin
    BY <2>0, <2>1, <2>2
  <2>4. /\ kB \in Int /\ Q(alg) \in Int /\ Loss(alg) \in Int /\ u \in Int /\ ct \in {0, -1}
        /\ z \in Int
    BY <2>0, Losses, Moduli DEF Centred
  <2>5. /\ kt \in Centred(alg)
        /\ \E j \in Int : kt + ct = (kB + coin) + j * Q(alg)
    <3> DEFINE x == IF coin = 0 THEN kB + 1 ELSE kB - 1
    <3>1. x \in Int /\ x + ct = kB + coin
      BY <2>0, <2>4
    <3> HIDE DEF x
    <3>2. /\ Centre(alg, x) \in Centred(alg)
          /\ \E j \in Int : Centre(alg, x) = x + j * Q(alg)
      BY <2>0, <3>1, CentreCentres
    <3>3. kt = Centre(alg, x)
      BY DEF x
    <3> HIDE DEF kt
    <3>4. PICK j \in Int : kt = x + j * Q(alg)
      BY <3>2, <3>3
    <3> DEFINE jq == j * Q(alg)
    <3>5. jq \in Int /\ kt = x + jq
      BY <2>4, <3>4
    <3> HIDE DEF jq, ct
    <3>6. kt + ct = (kB + coin) + jq
      BY <2>0, <2>4, <3>1, <3>5
    <3>7. QED
      BY <3>2, <3>3, <3>6 DEF jq
  <2>6. PICK j \in Int : kt + ct = (kB + coin) + j * Q(alg)
    BY <2>5
  <2>7. kt + ct = u + (n + j) * Q(alg) /\ n + j \in Int
    <3> DEFINE nq == n * Q(alg)
               jq == j * Q(alg)
               dq == (n + j) * Q(alg)
    <3>1. nq \in Int /\ jq \in Int /\ dq = nq + jq
      BY <2>1, <2>4, <2>6, Distribute
    <3>2. kt + ct = (kB + coin) + jq /\ kB + coin = u + nq
      BY <2>1, <2>6
    <3> HIDE DEF nq, jq, dq
    <3>3. kt + ct = u + dq
      BY <2>4, <3>1, <3>2
    <3>4. QED
      BY <3>3 DEF dq
  <2> HIDE DEF kt, ct
  <2>8. /\ SignalOf(kt, ct) = GetSignal(alg, u)
        /\ Rest(alg, kt, GetSignal(alg, u)) = z - ct
    BY <2>2, <2>4, <2>5, <2>7
  <2>9. (z - coin) % 2 # (z - ct) % 2
    <3>1. z \in Int /\ z + 1 \in Int /\ (z + 1) % 2 # z % 2
      BY <2>4, OddApart
    <3>2. CASE coin = 0
      <4>1. z - coin = z /\ z - ct = z + 1
        BY <2>4, <3>2 DEF ct
      <4>2. QED
        BY <3>1, <4>1
    <3>3. CASE coin = -1
      <4>1. z - coin = z + 1 /\ z - ct = z
        BY <2>4, <3>3 DEF ct
      <4>2. QED
        BY <3>1, <4>1
    <3>4. QED
      BY <2>0, <3>2, <3>3
  <2>10. QED
    BY <2>0, <2>3, <2>8, <2>9 DEF KeyBit
<1>2. QED
  BY <1>1, Inductive, PTL

-----------------------------------------------------------------------------
(* The matrix. *)

AcceptedIn(g, m) == m \in g \/ m >= Undecided

(* The accepted ones below m among the candidates in C; g is "good".       *)
Before(C, g, m) == {d \in 0 .. m - 1 : d \in C /\ AcceptedIn(g, d)}
RankOf(C, g, m) == Cardinality(Before(C, g, m))

LEMMA BeforeFinite ==
  ASSUME NEW C, NEW g, NEW m \in Nat
  PROVE  IsFiniteSet(Before(C, g, m)) /\ RankOf(C, g, m) \in Nat
<1>1. IsFiniteSet(0 .. m - 1)
  BY FS_Interval
<1>2. Before(C, g, m) \in SUBSET (0 .. m - 1)
  BY DEF Before
<1>3. IsFiniteSet(Before(C, g, m))
  BY <1>1, <1>2, FS_Subset
<1>4. QED
  BY <1>3, FS_CardinalityType DEF RankOf

LEMMA RankZero ==
  ASSUME NEW C, NEW g
  PROVE  RankOf(C, g, 0) = 0
<1>1. Before(C, g, 0) = {}
  BY DEF Before
<1>2. QED
  BY <1>1, FS_EmptySet DEF RankOf

LEMMA RankNext ==
  ASSUME NEW C, NEW g, NEW m \in Nat
  PROVE  RankOf(C, g, m + 1) =
           IF m \in C /\ AcceptedIn(g, m) THEN RankOf(C, g, m) + 1 ELSE RankOf(C, g, m)
<1>1. CASE m \in C /\ AcceptedIn(g, m)
  <2>1. Before(C, g, m + 1) = Before(C, g, m) \cup {m}
    BY <1>1 DEF Before
  <2>2. m \notin Before(C, g, m)
    BY DEF Before
  <2>3. Cardinality(Before(C, g, m) \cup {m}) = Cardinality(Before(C, g, m)) + 1
    BY <2>2, BeforeFinite, FS_AddElement
  <2>4. QED
    BY <1>1, <2>1, <2>3 DEF RankOf
<1>2. CASE ~(m \in C /\ AcceptedIn(g, m))
  <2>1. Before(C, g, m + 1) = Before(C, g, m)
    BY <1>2 DEF Before
  <2>2. QED
    BY <1>2, <2>1 DEF RankOf
<1>3. QED
  BY <1>1, <1>2

(* Bytes that hold no candidate do not change the rank. *)
LEMMA RankGap ==
  ASSUME NEW C, NEW g, NEW m \in Nat, NEW n \in Nat, m <= n, \A d \in m .. n - 1 : d \notin C
  PROVE  RankOf(C, g, n) = RankOf(C, g, m)
<1>1. Before(C, g, n) = Before(C, g, m)
  BY DEF Before
<1>2. QED
  BY <1>1 DEF RankOf

(* A rank depends on the candidates below only. *)
LEMMA RankBelow ==
  ASSUME NEW C, NEW D, NEW g, NEW m \in Nat, \A d \in 0 .. m - 1 : d \in C <=> d \in D
  PROVE  RankOf(C, g, m) = RankOf(D, g, m)
<1>1. Before(C, g, m) = Before(D, g, m)
  BY DEF Before
<1>2. QED
  BY <1>1 DEF RankOf

LEMMA RankInjective ==
  ASSUME NEW C, NEW g, NEW a \in Nat, NEW b \in Nat, a \in C, AcceptedIn(g, a),
         b \in C, AcceptedIn(g, b), RankOf(C, g, a) = RankOf(C, g, b)
  PROVE  a = b
<1>1. ASSUME NEW x \in Nat, NEW y \in Nat, x \in C, AcceptedIn(g, x), x < y
      PROVE  RankOf(C, g, x) < RankOf(C, g, y)
  <2>1. x + 1 \in Nat /\ x + 1 <= y
    BY <1>1
  <2>2. Before(C, g, x + 1) \in SUBSET Before(C, g, y)
    BY <1>1 DEF Before
  <2>3. RankOf(C, g, x + 1) <= RankOf(C, g, y)
    BY <2>1, <2>2, BeforeFinite, FS_Subset DEF RankOf
  <2>4. RankOf(C, g, x + 1) = RankOf(C, g, x) + 1
    BY <1>1, RankNext
  <2>5. RankOf(C, g, x) \in Nat /\ RankOf(C, g, y) \in Nat
    BY BeforeFinite
  <2>6. QED
    BY <2>3, <2>4, <2>5
<1>2. RankOf(C, g, a) \in Nat
  BY BeforeFinite
<1>3. ~(a < b) /\ ~(b < a)
  BY <1>1, <1>2
<1>4. QED
  BY <1>3

-----------------------------------------------------------------------------
(* What is taken so far grows by one candidate at its end, whether it is   *)
(* stored in the polynomial, gathered, or completes the gathered ones.     *)
LEMMA AppendedAtEnd ==
  ASSUME NEW s \in Seq(Nat), NEW m \in Nat
  PROVE  /\ s \o <<m>> \in Seq(Nat) /\ Len(s \o <<m>>) = Len(s) + 1
         /\ \A k \in 1 .. Len(s) : (s \o <<m>>)[k] = s[k]
         /\ (s \o <<m>>)[Len(s) + 1] = m
<1>1. Append(s, m) = s \o <<m>>
  BY AppendIsConcat
<1>2. QED
  BY <1>1, AppendProperties

-----------------------------------------------------------------------------
(* The sizes, and what a squeeze adds. *)
LEMMA SizeFacts ==
  ASSUME NEW z \in Sizes, NEW i \in Impls
  PROVE  /\ z.group \in Nat \ {0} /\ z.per \in Nat \ {0} /\ z.per <= z.group
         /\ z.block[i] \in Nat /\ z.first[i] \in Nat \ {0} /\ z.group <= z.block[i]
         /\ z.stream \in BOOLEAN
<1>1. z \in [group : Nat, per : Nat, block : [Impls -> Nat],
             first : [Impls -> Nat], stream : BOOLEAN]
  BY SizeAssumption DEF SizeAssumption
<1>2. 0 < z.per /\ z.per <= z.group /\ 0 < z.first[i] /\ z.group <= z.block[i]
  BY SizeAssumption DEF SizeAssumption
<1>3. QED
  BY <1>1, <1>2

LEMMA ProductNat ==
  ASSUME NEW a \in Nat, NEW b \in Nat
  PROVE  a * b \in Nat
OBVIOUS

LEMMA AdvanceType ==
  ASSUME NEW i \in Impls, NEW len \in Nat
  PROVE  Advance(i, len) \in Nat /\ len <= Advance(i, len)
<1>1. Unit \in Nat \ {0}
  BY SizeAssumption DEF SizeAssumption
<1> DEFINE q == (len + Unit - 1) \div Unit
<1>2. q \in Nat
  BY <1>1
<1>3. Unit * q \in Nat /\ len <= Unit * q
  <2>1. len + Unit - 1 \in Nat
    BY <1>1
  <2>2. len + Unit - 1 < Unit * q + Unit
    BY <1>1, <2>1
  <2>3. Unit * q \in Nat
    BY <1>1, <1>2, ProductNat
  <2>4. QED
    BY <1>1, <2>2, <2>3
<1>4. RoundUp(len) = Unit * q
  BY DEF RoundUp
<1>5. QED
  BY <1>3, <1>4 DEF Advance

-----------------------------------------------------------------------------
(* The part of the invariant that holds for every size. *)
Stream(i) == i = "m4" /\ size.stream

Shape(i) ==
  /\ pos[i] <= buflen[i] /\ base[i] + buflen[i] <= xof[i]
  /\ pc[i] = "start" => xof[i] = 0 /\ base[i] = 0 /\ pos[i] = 0 /\ poly[i] = <<>> /\ c[i] = <<>>
  /\ pc[i] = "test" => pos[i] + size.group <= buflen[i]
  /\ pc[i] = "done" => Full(i)
  /\ Stream(i) => \E k \in Nat : Len(poly[i]) = k * Gather
  /\ ~Stream(i) => c[i] = <<>>
  /\ Len(poly[i]) <= N
  /\ Full(i) => c[i] = <<>>

Shapes == TypeOK /\ \A i \in Impls : Shape(i)

(* Whole gatherings fill a polynomial exactly. *)
LEMMA Multiples ==
  ASSUME NEW k \in Nat, NEW n \in Nat, NEW g \in Nat \ {0}, k * g < n * g
  PROVE  (k + 1) * g = k * g + g /\ k * g + g <= n * g
<1>1. k < n
  <2>1. SUFFICES ASSUME n <= k PROVE FALSE
    OBVIOUS
  <2>2. PICK d \in Nat : k = n + d
    <3>1. k - n \in Nat /\ k = n + (k - n)
      BY <2>1
    <3>2. QED
      BY <3>1
  <2>3. k * g = n * g + d * g
    BY <2>2
  <2>4. d * g \in Nat /\ n * g \in Nat
    BY ProductNat
  <2>5. QED
    BY <2>3, <2>4
<1>2. PICK d \in Nat : n = k + 1 + d
  <2>1. n - k - 1 \in Nat /\ n = k + 1 + (n - k - 1)
    BY <1>1
  <2>2. QED
    BY <2>1
<1>3. n * g = k * g + g + d * g /\ (k + 1) * g = k * g + g
  BY <1>2
<1>4. d * g \in Nat /\ k * g \in Nat
  BY ProductNat
<1>5. QED
  BY <1>3, <1>4

LEMMA Room ==
  ASSUME NEW i \in Impls, Shapes, ~Full(i)
  PROVE  /\ Len(poly[i]) \in Nat /\ Len(c[i]) \in Nat
         /\ Len(poly[i]) < N /\ (Stream(i) => Len(poly[i]) + Gather <= N)
<1>1. N \in Nat /\ Gather \in Nat \ {0} /\ \E k \in 1..N : N = k * Gather
  BY SizeAssumption DEF SizeAssumption
<1>2. poly[i] \in Seq(Nat) /\ c[i] \in Seq(Nat)
  BY DEF Shapes, TypeOK
<1>3. Len(poly[i]) \in Nat /\ Len(c[i]) \in Nat
  BY <1>2, LenProperties
<1>4. Len(poly[i]) < N
  BY <1>1, <1>3 DEF Full
<1>5. ASSUME Stream(i) PROVE Len(poly[i]) + Gather <= N
  <2>1. PICK k \in Nat : Len(poly[i]) = k * Gather
    BY <1>5 DEF Shapes, Shape
  <2>2. PICK n \in Nat : N = n * Gather
    BY <1>1
  <2>3. QED
    BY <1>1, <1>4, <2>1, <2>2, Multiples
<1>6. QED
  BY <1>3, <1>4, <1>5

(* Store, in its three cases. *)
LEMMA StoreEffect ==
  ASSUME NEW i \in Impls, NEW m \in Nat, Shapes, ~Full(i), Store(i, m)
  PROVE  /\ c' \in [Impls -> Seq(Nat)] /\ poly' \in [Impls -> Seq(Nat)]
         /\ \A j \in Impls \ {i} : c'[j] = c[j] /\ poly'[j] = poly[j]
         /\ poly'[i] \o c'[i] = (poly[i] \o c[i]) \o <<m>>
         /\ Len(c'[i]) < Gather /\ Len(poly'[i]) <= N
         /\ Stream(i) => \E k \in Nat : Len(poly'[i]) = k * Gather
         /\ ~Stream(i) => c'[i] = <<>>
         /\ Len(poly'[i]) >= N => c'[i] = <<>>
<1> DEFINE p == poly[i]  g == c[i]
<1>0. /\ N \in Nat /\ Gather \in Nat \ {0}
      /\ c \in [Impls -> Seq(Nat)] /\ poly \in [Impls -> Seq(Nat)] /\ Len(c[i]) < Gather
  BY SizeAssumption DEF SizeAssumption, Shapes, TypeOK
<1>1. p \in Seq(Nat) /\ g \in Seq(Nat)
  BY <1>0
<1>2. /\ Len(p) \in Nat /\ Len(g) \in Nat
      /\ Len(p) < N /\ (Stream(i) => Len(p) + Gather <= N)
  BY Room
<1>3. /\ Append(p, m) = p \o <<m>> /\ p \o <<>> = p
      /\ p \o Append(g, m) = (p \o g) \o <<m>>
      /\ Append(p, m) \in Seq(Nat) /\ Append(g, m) \in Seq(Nat)
      /\ (p \o g) \o <<m>> \in Seq(Nat) /\ ((p \o g) \o <<m>>) \o <<>> = (p \o g) \o <<m>>
      /\ Len((p \o g) \o <<m>>) = Len(p) + Len(g) + 1
      /\ Len(Append(g, m)) = Len(g) + 1 /\ Len(Append(p, m)) = Len(p) + 1
  <2> HIDE DEF p, g
  <2>1. <<m>> \in Seq(Nat) /\ Len(<<m>>) = 1
    OBVIOUS
  <2>2. Append(p, m) = p \o <<m>> /\ Append(g, m) = g \o <<m>>
    BY <1>1, AppendIsConcat
  <2>3. p \o (g \o <<m>>) = (p \o g) \o <<m>>
    BY <1>1, <2>1, ConcatAssociative
  <2>4. /\ Append(g, m) \in Seq(Nat) /\ Len(Append(g, m)) = Len(g) + 1
        /\ Append(p, m) \in Seq(Nat) /\ Len(Append(p, m)) = Len(p) + 1
    BY <1>1, AppendProperties
  <2>5. p \o g \in Seq(Nat) /\ Len(p \o g) = Len(p) + Len(g)
    BY <1>1, ConcatProperties
  <2>6. (p \o g) \o <<m>> \in Seq(Nat) /\ Len((p \o g) \o <<m>>) = Len(p \o g) + 1
    BY <2>1, <2>5, ConcatProperties
  <2>7. p \o <<>> = p /\ ((p \o g) \o <<m>>) \o <<>> = (p \o g) \o <<m>>
    BY <1>1, <2>6, ConcatEmptySeq
  <2>8. QED
    BY <2>2, <2>3, <2>4, <2>5, <2>6, <2>7
<1>4. Len(<<>>) = 0 /\ <<>> \in Seq(Nat)
  OBVIOUS
<1>5. CASE Stream(i) /\ Len(g) + 1 < Gather
  <2>1. c' = [c EXCEPT ![i] = Append(g, m)] /\ poly' = poly
    BY <1>5 DEF Store, Stream
  <2>2. c'[i] = Append(g, m) /\ poly'[i] = p
    BY <1>0, <2>1
  <2>3. \E k \in Nat : Len(poly'[i]) = k * Gather
    BY <1>5, <2>2 DEF Shapes, Shape
  <2>4. /\ c' \in [Impls -> Seq(Nat)] /\ poly' \in [Impls -> Seq(Nat)]
        /\ \A j \in Impls \ {i} : c'[j] = c[j] /\ poly'[j] = poly[j]
    BY <1>0, <1>3, <2>1
  <2>5. Len(c'[i]) < Gather /\ Len(poly'[i]) <= N /\ ~(Len(poly'[i]) >= N)
    BY <1>0, <1>2, <1>3, <1>5, <2>2
  <2>6. poly'[i] \o c'[i] = (p \o g) \o <<m>>
    BY <1>3, <2>2
  <2>7. QED
    BY <1>5, <2>3, <2>4, <2>5, <2>6
<1>6. CASE Stream(i) /\ ~(Len(g) + 1 < Gather)
  <2>1. c' = [c EXCEPT ![i] = <<>>] /\ poly' = [poly EXCEPT ![i] = (p \o g) \o <<m>>]
    BY <1>6 DEF Store, Stream
  <2>2. c'[i] = <<>> /\ poly'[i] = (p \o g) \o <<m>>
    BY <1>0, <2>1
  <2>3. Len(g) + 1 = Gather /\ Len(poly'[i]) = Len(p) + Gather
    <3>1. Len(g) < Gather
      BY <1>0
    <3>2. Len(poly'[i]) = Len((p \o g) \o <<m>>)
      BY <2>2, Zenon
    <3>3. Len((p \o g) \o <<m>>) = Len(p) + Len(g) + 1
      BY <1>3
    <3>4. Gather \in Nat /\ ~(Len(g) + 1 < Gather)
      BY <1>0, <1>6
    <3>5. Len(g) \in Nat /\ Len(p) \in Nat
      BY <1>2
    <3> HIDE DEF p, g
    <3>6. Len(g) + 1 = Gather
      BY <3>1, <3>4, <3>5
    <3>7. QED
      BY <3>2, <3>3, <3>5, <3>6
  <2>4. \E k \in Nat : Len(poly'[i]) = k * Gather
    <3>1. PICK k \in Nat : Len(p) = k * Gather
      BY <1>6 DEF Shapes, Shape
    <3>2. (k + 1) * Gather = k * Gather + Gather
      BY <1>0
    <3>3. QED
      BY <2>3, <3>1, <3>2
  <2>5. /\ c' \in [Impls -> Seq(Nat)] /\ poly' \in [Impls -> Seq(Nat)]
        /\ \A j \in Impls \ {i} : c'[j] = c[j] /\ poly'[j] = poly[j]
    BY <1>0, <1>3, <1>4, <2>1
  <2>6. Len(c'[i]) < Gather /\ Len(poly'[i]) <= N
    BY <1>0, <1>2, <1>4, <1>6, <2>2, <2>3
  <2>7. QED
    BY <1>3, <1>6, <2>2, <2>4, <2>5, <2>6
<1>7. CASE ~Stream(i)
  <2>1. c' = c /\ poly' = [poly EXCEPT ![i] = Append(p, m)]
    BY <1>7 DEF Store, Stream
  <2>2. c'[i] = <<>> /\ g = <<>> /\ poly'[i] = p \o <<m>>
    BY <1>0, <1>3, <1>7, <2>1 DEF Shapes, Shape
  <2>3. /\ c' \in [Impls -> Seq(Nat)] /\ poly' \in [Impls -> Seq(Nat)]
        /\ \A j \in Impls \ {i} : c'[j] = c[j] /\ poly'[j] = poly[j]
    BY <1>0, <1>3, <2>1
  <2>4. Len(c'[i]) < Gather /\ Len(poly'[i]) <= N
    BY <1>0, <1>2, <1>3, <1>4, <2>2
  <2>5. poly'[i] \o c'[i] = (p \o g) \o <<m>>
    <3>1. (p \o <<m>>) \o <<>> = p \o <<m>>
      BY <1>3, ConcatEmptySeq
    <3>2. QED
      BY <1>3, <2>2, <3>1
  <2>6. QED
    BY <1>7, <2>2, <2>3, <2>4, <2>5
<1>8. QED
  BY <1>5, <1>6, <1>7

-----------------------------------------------------------------------------
(* A squeeze and the move to the next candidate, variable by variable. *)
LEMMA SqueezeEffect ==
  ASSUME NEW i \in Impls, NEW b \in Nat, TypeOK, Squeeze(i, b)
  PROVE  /\ xof' \in [Impls -> Nat] /\ base' \in [Impls -> Nat]
         /\ buflen' \in [Impls -> Nat] /\ pos' \in [Impls -> Nat]
         /\ \A j \in Impls \ {i} : /\ xof'[j] = xof[j] /\ base'[j] = base[j]
                                   /\ buflen'[j] = buflen[j] /\ pos'[j] = pos[j]
         /\ base'[i] = xof[i] /\ buflen'[i] = b * size.block[i] /\ pos'[i] = 0
         /\ xof'[i] = xof[i] + Advance(i, b * size.block[i])
         /\ base'[i] + buflen'[i] <= xof'[i]
<1> DEFINE len == b * size.block[i]
<1>1. /\ xof \in [Impls -> Nat] /\ base \in [Impls -> Nat] /\ buflen \in [Impls -> Nat]
      /\ pos \in [Impls -> Nat] /\ size \in Sizes
  BY DEF TypeOK
<1>2. len \in Nat
  BY <1>1, SizeFacts, ProductNat
<1>3. /\ base' = [base EXCEPT ![i] = xof[i]] /\ buflen' = [buflen EXCEPT ![i] = len]
      /\ xof' = [xof EXCEPT ![i] = xof[i] + Advance(i, len)]
      /\ pos' = [pos EXCEPT ![i] = 0]
  BY DEF Squeeze
<1> HIDE DEF len
<1>4. Advance(i, len) \in Nat /\ len <= Advance(i, len)
  BY <1>2, AdvanceType
<1>5. xof[i] \in Nat /\ xof[i] + Advance(i, len) \in Nat
  BY <1>1, <1>4
<1>6. /\ xof' \in [Impls -> Nat] /\ base' \in [Impls -> Nat]
      /\ buflen' \in [Impls -> Nat] /\ pos' \in [Impls -> Nat]
      /\ \A j \in Impls \ {i} : /\ xof'[j] = xof[j] /\ base'[j] = base[j]
                                /\ buflen'[j] = buflen[j] /\ pos'[j] = pos[j]
      /\ base'[i] = xof[i] /\ buflen'[i] = len /\ pos'[i] = 0
      /\ xof'[i] = xof[i] + Advance(i, len)
  BY <1>1, <1>2, <1>3, <1>5
<1>7. base'[i] + buflen'[i] <= xof'[i]
  BY <1>2, <1>4, <1>5, <1>6
<1>8. QED
  BY <1>6, <1>7 DEF len

LEMMA LaneEffect ==
  ASSUME NEW i \in Impls, TypeOK, pc[i] = "test", NextLane(i)
  PROVE  /\ pc' \in [Impls -> {"start", "loop", "test", "done"}]
         /\ pos' \in [Impls -> Nat] /\ lane' \in [Impls -> Nat] /\ lane'[i] < size.per
         /\ \A j \in Impls \ {i} : pc'[j] = pc[j] /\ pos'[j] = pos[j] /\ lane'[j] = lane[j]
         /\ \/ /\ lane[i] + 1 < size.per /\ lane'[i] = lane[i] + 1
               /\ pc'[i] = "test" /\ pos'[i] = pos[i]
            \/ /\ lane[i] + 1 = size.per /\ pc'[i] = "loop"
               /\ pos'[i] = pos[i] + size.group
<1>1. /\ pc \in [Impls -> {"start", "loop", "test", "done"}] /\ size \in Sizes
      /\ pos \in [Impls -> Nat] /\ lane \in [Impls -> Nat] /\ lane[i] < size.per
  BY DEF TypeOK
<1>2. size.per \in Nat /\ size.group \in Nat
  BY <1>1, SizeFacts
<1> DEFINE per == size.per  group == size.group
<1> HIDE DEF per, group
<1>3. CASE lane[i] + 1 < per
  <2>1. lane' = [lane EXCEPT ![i] = lane[i] + 1] /\ pc' = pc /\ pos' = pos
    BY <1>3 DEF NextLane, per
  <2>2. QED
    BY <1>1, <1>2, <1>3, <2>1 DEF per
<1>4. CASE ~(lane[i] + 1 < per)
  <2>1. /\ pc' = [pc EXCEPT ![i] = "loop"] /\ pos' = [pos EXCEPT ![i] = pos[i] + group]
        /\ lane' = lane
    BY <1>4 DEF NextLane, per, group
  <2>2. lane[i] + 1 = per
    BY <1>1, <1>2, <1>4 DEF per
  <2>3. pos[i] + group \in Nat
    BY <1>1, <1>2 DEF group
  <2>4. QED
    BY <1>1, <2>1, <2>2, <2>3 DEF per, group
<1>5. QED
  BY <1>3, <1>4

(* The state of an implementation that does not move. *)
Same(j) ==
  /\ pc'[j] = pc[j] /\ xof'[j] = xof[j] /\ base'[j] = base[j] /\ buflen'[j] = buflen[j]
  /\ pos'[j] = pos[j] /\ lane'[j] = lane[j] /\ c'[j] = c[j] /\ poly'[j] = poly[j]

LEMMA ShapeFrame ==
  ASSUME NEW j \in Impls, Shape(j), Same(j), size' = size
  PROVE  Shape(j)'
BY DEF Shape, Same, Stream, Full

LEMMA Others ==
  ASSUME NEW i \in Impls, Shapes, TypeOK', size' = size, Shape(i)',
         \A j \in Impls \ {i} : Same(j)
  PROVE  Shapes'
<1>1. ASSUME NEW j \in Impls PROVE Shape(j)'
  BY ShapeFrame DEF Shapes
<1>2. QED
  BY <1>1 DEF Shapes

LEMMA ShapesStart ==
  ASSUME NEW i \in Impls, Shapes, Start(i)
  PROVE  Shapes' /\ size' = size /\ good' = good /\ \A j \in Impls \ {i} : Same(j)
<1>1. TypeOK /\ Shape(i) /\ size \in Sizes
  BY DEF Shapes, TypeOK
<1>2. /\ Squeeze(i, size.first[i]) /\ pc' = [pc EXCEPT ![i] = "loop"]
      /\ UNCHANGED <<size, good, lane, c, poly>>
  BY DEF Start
<1>3. size.first[i] \in Nat
  BY <1>1, SizeFacts
<1>4. /\ xof' \in [Impls -> Nat] /\ base' \in [Impls -> Nat]
      /\ buflen' \in [Impls -> Nat] /\ pos' \in [Impls -> Nat]
      /\ \A j \in Impls \ {i} : /\ xof'[j] = xof[j] /\ base'[j] = base[j]
                                /\ buflen'[j] = buflen[j] /\ pos'[j] = pos[j]
      /\ pos'[i] = 0 /\ base'[i] + buflen'[i] <= xof'[i]
  BY <1>1, <1>2, <1>3, SqueezeEffect
<1>5. /\ pc' \in [Impls -> {"start", "loop", "test", "done"}] /\ pc'[i] = "loop"
      /\ \A j \in Impls \ {i} : pc'[j] = pc[j]
  BY <1>1, <1>2 DEF TypeOK
<1>6. TypeOK'
  BY <1>1, <1>2, <1>4, <1>5 DEF TypeOK
<1>7. \A j \in Impls \ {i} : Same(j)
  BY <1>2, <1>4, <1>5 DEF Same
<1>8. Shape(i)'
  <2>1. pos'[i] <= buflen'[i]
    BY <1>4
  <2>2. QED
    BY <1>1, <1>2, <1>4, <1>5, <2>1 DEF Shape, Stream, Full
<1>9. QED
  BY <1>2, <1>6, <1>7, <1>8, Others

LEMMA ShapesRefill ==
  ASSUME NEW i \in Impls, Shapes, Refill(i)
  PROVE  Shapes' /\ size' = size /\ good' = good /\ \A j \in Impls \ {i} : Same(j)
<1>1. TypeOK /\ Shape(i)
  BY DEF Shapes
<1>2. Squeeze(i, 1) /\ UNCHANGED <<size, good, pc, lane, c, poly>> /\ pc[i] = "loop"
  BY DEF Refill
<1>3. /\ xof' \in [Impls -> Nat] /\ base' \in [Impls -> Nat]
      /\ buflen' \in [Impls -> Nat] /\ pos' \in [Impls -> Nat]
      /\ \A j \in Impls \ {i} : /\ xof'[j] = xof[j] /\ base'[j] = base[j]
                                /\ buflen'[j] = buflen[j] /\ pos'[j] = pos[j]
      /\ pos'[i] = 0 /\ base'[i] + buflen'[i] <= xof'[i]
  BY <1>1, <1>2, SqueezeEffect
<1>4. TypeOK'
  BY <1>1, <1>2, <1>3 DEF TypeOK
<1>5. \A j \in Impls \ {i} : Same(j)
  BY <1>2, <1>3 DEF Same
<1>6. Shape(i)'
  <2>1. pos'[i] <= buflen'[i]
    BY <1>3
  <2>2. QED
    BY <1>1, <1>2, <1>3, <2>1 DEF Shape, Stream, Full
<1>7. QED
  BY <1>2, <1>4, <1>5, <1>6, Others

LEMMA ShapesNextGroup ==
  ASSUME NEW i \in Impls, Shapes, NextGroup(i)
  PROVE  Shapes' /\ size' = size /\ good' = good /\ \A j \in Impls \ {i} : Same(j)
<1>1. TypeOK /\ Shape(i) /\ size \in Sizes
  BY DEF Shapes, TypeOK
<1>2. /\ Fits(i) /\ pc' = [pc EXCEPT ![i] = "test"] /\ lane' = [lane EXCEPT ![i] = 0]
      /\ UNCHANGED <<size, good, buffer, pos, c, poly>>
  BY DEF NextGroup
<1>3. /\ pc' \in [Impls -> {"start", "loop", "test", "done"}] /\ pc'[i] = "test"
      /\ lane' \in [Impls -> Nat] /\ lane'[i] = 0
      /\ \A j \in Impls \ {i} : pc'[j] = pc[j] /\ lane'[j] = lane[j]
  BY <1>1, <1>2 DEF TypeOK
<1>4. 0 < size.per
  BY <1>1, SizeFacts
<1>5. TypeOK'
  BY <1>1, <1>2, <1>3, <1>4 DEF TypeOK, buffer
<1>6. \A j \in Impls \ {i} : Same(j)
  BY <1>2, <1>3 DEF Same, buffer
<1>7. Shape(i)'
  BY <1>1, <1>2, <1>3 DEF Shape, Stream, Full, Fits, buffer
<1>8. QED
  BY <1>2, <1>5, <1>6, <1>7, Others

LEMMA ShapesTest ==
  ASSUME NEW i \in Impls, Shapes, Test(i)
  PROVE  Shapes' /\ size' = size /\ good' = good /\ \A j \in Impls \ {i} : Same(j)
<1> DEFINE m == base[i] + pos[i] + lane[i]
<1>1. TypeOK /\ Shape(i) /\ size \in Sizes
  BY DEF Shapes, TypeOK
<1>2. /\ pc[i] = "test" /\ NextLane(i) /\ UNCHANGED <<size, good, buffer>>
      /\ IF Accepted(m) /\ ~Full(i) THEN Store(i, m) ELSE UNCHANGED <<c, poly>>
  BY DEF Test
<1>3. m \in Nat
  BY <1>1 DEF TypeOK
<1> HIDE DEF m
<1>4. /\ pc' \in [Impls -> {"start", "loop", "test", "done"}]
      /\ pos' \in [Impls -> Nat] /\ lane' \in [Impls -> Nat] /\ lane'[i] < size.per
      /\ \A j \in Impls \ {i} : pc'[j] = pc[j] /\ pos'[j] = pos[j] /\ lane'[j] = lane[j]
      /\ \/ pc'[i] = "test" /\ pos'[i] = pos[i]
         \/ pc'[i] = "loop" /\ pos'[i] = pos[i] + size.group
  BY <1>1, <1>2, LaneEffect
<1>5. /\ c' \in [Impls -> Seq(Nat)] /\ poly' \in [Impls -> Seq(Nat)]
      /\ \A j \in Impls \ {i} : c'[j] = c[j] /\ poly'[j] = poly[j]
      /\ Len(c'[i]) < Gather /\ Len(poly'[i]) <= N
      /\ Stream(i) => \E k \in Nat : Len(poly'[i]) = k * Gather
      /\ ~Stream(i) => c'[i] = <<>>
      /\ Len(poly'[i]) >= N => c'[i] = <<>>
  <2>1. CASE Accepted(m) /\ ~Full(i)
    BY <1>2, <1>3, <2>1, StoreEffect
  <2>2. CASE ~(Accepted(m) /\ ~Full(i))
    <3>1. c' = c /\ poly' = poly
      BY <1>2, <2>2
    <3>2. QED
      BY <1>1, <3>1 DEF TypeOK, Shape, Full
  <2>3. QED
    BY <2>1, <2>2
<1>6. TypeOK'
  BY <1>1, <1>2, <1>4, <1>5 DEF TypeOK, buffer
<1>7. \A j \in Impls \ {i} : Same(j)
  BY <1>2, <1>4, <1>5 DEF Same, buffer
<1>8. Shape(i)'
  <2>1. pos[i] + size.group <= buflen[i] /\ pos[i] <= buflen[i] /\ base[i] + buflen[i] <= xof[i]
    BY <1>1, <1>2 DEF Shape
  <2>2. /\ pos'[i] <= buflen'[i] /\ base'[i] + buflen'[i] <= xof'[i]
        /\ pc'[i] = "test" => pos'[i] + size'.group <= buflen'[i]
    BY <1>2, <1>4, <2>1 DEF buffer
  <2>3. pc'[i] # "start" /\ pc'[i] # "done"
    BY <1>4
  <2>4. QED
    BY <1>2, <1>5, <2>2, <2>3 DEF Shape, Stream, Full
<1>9. QED
  BY <1>2, <1>6, <1>7, <1>8, Others

LEMMA ShapesFinish ==
  ASSUME NEW i \in Impls, Shapes, Finish(i)
  PROVE  Shapes' /\ size' = size /\ good' = good /\ \A j \in Impls \ {i} : Same(j)
<1>1. TypeOK /\ Shape(i)
  BY DEF Shapes
<1>2. /\ Full(i) /\ pc[i] = "loop" /\ pc' = [pc EXCEPT ![i] = "done"]
      /\ UNCHANGED <<size, good, buffer, pos, lane, c, poly>>
  BY DEF Finish
<1>3. /\ pc' \in [Impls -> {"start", "loop", "test", "done"}] /\ pc'[i] = "done"
      /\ \A j \in Impls \ {i} : pc'[j] = pc[j]
  BY <1>1, <1>2 DEF TypeOK
<1>4. TypeOK'
  BY <1>1, <1>2, <1>3 DEF TypeOK, buffer
<1>5. \A j \in Impls \ {i} : Same(j)
  BY <1>2, <1>3 DEF Same, buffer
<1>6. Shape(i)'
  BY <1>1, <1>2, <1>3 DEF Shape, Stream, Full, buffer
<1>7. QED
  BY <1>2, <1>4, <1>5, <1>6, Others

LEMMA ShapesInit == Init => Shapes
<1> SUFFICES ASSUME Init PROVE Shapes
  OBVIOUS
<1>1. N \in Nat /\ Gather \in Nat \ {0} /\ \E k \in 1..N : N = k * Gather
  BY SizeAssumption DEF SizeAssumption
<1>2. size \in Sizes /\ good \subseteq 0 .. Undecided - 1
  BY DEF Init
<1>3. 0 < size.per
  BY <1>2, Impls # {}, SizeFacts DEF Impls
<1>4. <<>> \in Seq(Nat) /\ Len(<<>>) = 0
  OBVIOUS
<1>5. TypeOK
  BY <1>1, <1>2, <1>3, <1>4 DEF Init, TypeOK
<1>6. ASSUME NEW i \in Impls PROVE Shape(i)
  <2>1. /\ pc[i] = "start" /\ xof[i] = 0 /\ base[i] = 0 /\ buflen[i] = 0 /\ pos[i] = 0
        /\ c[i] = <<>> /\ poly[i] = <<>>
    BY DEF Init
  <2>2. 0 = 0 * Gather
    BY <1>1
  <2>3. QED
    BY <1>1, <1>4, <2>1, <2>2 DEF Shape, Full
<1>7. QED
  BY <1>5, <1>6 DEF Shapes

LEMMA ShapesNext == Shapes /\ [Next]_vars => Shapes'
<1> SUFFICES ASSUME Shapes, [Next]_vars PROVE Shapes'
  OBVIOUS
<1>1. CASE Next
  <2>1. PICK i \in Impls : Start(i) \/ Refill(i) \/ NextGroup(i) \/ Test(i) \/ Finish(i)
    BY <1>1 DEF Next
  <2>2. QED
    BY <2>1, ShapesStart, ShapesRefill, ShapesNextGroup, ShapesTest, ShapesFinish
<1>2. CASE UNCHANGED vars
  BY <1>2 DEF Shapes, TypeOK, Shape, Stream, Full, vars, buffer
<1>3. QED
  BY <1>1, <1>2

(* The variables of the sampler keep their types, and fewer than Gather    *)
(* candidates wait in c, whatever the sizes.                               *)
THEOREM Types == Spec => []TypeOK
<1>1. Shapes => TypeOK
  BY DEF Shapes
<1>2. QED
  BY <1>1, ShapesInit, ShapesNext, PTL DEF Spec

(* Whatever the sizes and the stream, a group is read inside the buffer    *)
(* and no coefficient is stored past the polynomial: what matacc gathers   *)
(* fits, because N is a multiple of Gather.                                *)
THEOREM Bounds == Spec => []InBounds
<1>1. ASSUME Shapes PROVE InBounds
  <2>1. ASSUME NEW i \in Impls
        PROVE  /\ pc[i] = "test" => pos[i] + size.group <= buflen[i]
                                      /\ base[i] + buflen[i] <= xof[i]
               /\ Len(poly[i]) + Len(c[i]) <= N
    <3>1. Shape(i) /\ Len(c[i]) < Gather /\ c[i] \in Seq(Nat) /\ poly[i] \in Seq(Nat)
      BY <1>1 DEF Shapes, TypeOK
    <3>2. Len(c[i]) \in Nat /\ Len(poly[i]) \in Nat
      BY <3>1, LenProperties
    <3>3. N \in Nat /\ Gather \in Nat /\ Len(<<>>) = 0
      BY SizeAssumption DEF SizeAssumption
    <3>4. CASE Full(i) \/ ~Stream(i)
      <4>1. c[i] = <<>> /\ Len(poly[i]) <= N
        BY <3>1, <3>4 DEF Shape
      <4>2. QED
        BY <3>1, <3>2, <3>3, <4>1 DEF Shape
    <3>5. CASE ~Full(i) /\ Stream(i)
      <4>1. Len(poly[i]) + Gather <= N
        BY <1>1, <3>5, Room
      <4> DEFINE p == Len(poly[i])  g == Len(c[i])
      <4>2. p \in Nat /\ g \in Nat /\ g < Gather /\ p + Gather <= N
        BY <3>1, <3>2, <4>1
      <4>3. p + g <= N
        <5> HIDE DEF p, g
        <5>1. QED
          BY <3>3, <4>2
      <4>4. QED
        BY <3>1, <4>3 DEF Shape
    <3>6. QED
      BY <3>4, <3>5
  <2>2. QED
    BY <2>1 DEF InBounds
<1>2. QED
  BY <1>1, ShapesInit, ShapesNext, PTL DEF Spec

-----------------------------------------------------------------------------
(* Where an implementation looks in the stream, for every set of sizes.    *)
(* The operators take size and good, which never change, as parameters.    *)
Groups(z, n) == \E k \in Nat : n = k * z.group

FirstLength(z, i) == z.first[i] * z.block[i]

(* A buffer of len bytes that begins at byte s: the first one, or a refill.*)
Buffer(z, i, s, len) ==
  \/ s = 0 /\ len = FirstLength(z, i)
  \/ /\ len = z.block[i]
     /\ \E r \in Nat : s = Advance(i, FirstLength(z, i)) + r * Advance(i, z.block[i])

(* m is in the lanes of a group that fits in the buffer. *)
InBuffer(z, s, len, m) ==
  \E p \in Nat : Groups(z, p) /\ p + z.group <= len /\ s + p <= m /\ m < s + p + z.per

Looked(z, i) ==
  {m \in Nat : \E s, len \in Nat : Buffer(z, i, s, len) /\ InBuffer(z, s, len, m)}

(* Entry k of s is the accepted candidate number k, and lies before h.     *)
InOrder(C, g, s, h) ==
  \A k \in 1 .. Len(s) :
    s[k] \in C /\ AcceptedIn(g, s[k]) /\ RankOf(C, g, s[k]) = k - 1 /\ s[k] < h

Here(i) == base[i] + pos[i] + (IF pc[i] = "test" THEN lane[i] ELSE 0)

Aligned(i) ==
  /\ pc[i] # "start" =>
       Buffer(size, i, base[i], buflen[i]) /\ xof[i] = base[i] + Advance(i, buflen[i])
  /\ Groups(size, pos[i])
  /\ InOrder(Looked(size, i), good, Taken(i), Here(i))
  /\ ~Full(i) => RankOf(Looked(size, i), good, Here(i)) = Len(Taken(i))

Pinned == Shapes /\ \A i \in Impls : Aligned(i)

(* Arithmetic of groups. *)
LEMMA Monotone ==
  ASSUME NEW a \in Nat, NEW b \in Nat, NEW g \in Nat, a <= b
  PROVE  a * g <= b * g
<1>1. PICK d \in Nat : b = a + d
  <2>1. b - a \in Nat /\ b = a + (b - a)
    OBVIOUS
  <2>2. QED
    BY <2>1
<1>2. b * g = a * g + d * g
  BY <1>1
<1>3. d * g \in Nat /\ a * g \in Nat
  BY ProductNat
<1>4. QED
  BY <1>2, <1>3

LEMMA GroupsSum ==
  ASSUME NEW z \in Sizes, NEW a, NEW b, Groups(z, a), Groups(z, b)
  PROVE  /\ Groups(z, a + b) /\ Groups(z, a + z.group) /\ Groups(z, 0) /\ a \in Nat /\ b \in Nat
         /\ a <= b => Groups(z, b - a)
         /\ a < b => a + z.group <= b
<1>1. z.group \in Nat \ {0}
  BY SizeFacts, Impls # {} DEF Impls
<1> DEFINE g == z.group
<1>2. PICK k \in Nat : a = k * g
  BY DEF Groups
<1>3. PICK n \in Nat : b = n * g
  BY DEF Groups
<1> HIDE DEF g
<1>4. a + b = (k + n) * g /\ a + g = (k + 1) * g /\ 0 = 0 * g /\ a \in Nat /\ b \in Nat
  BY <1>1, <1>2, <1>3, ProductNat DEF g
<1>5. ASSUME a < b PROVE a + g <= b
  BY <1>1, <1>2, <1>3, <1>5, Multiples DEF g
<1>6. ASSUME a <= b PROVE \E d \in Nat : b - a = d * g
  <2>1. k <= n
    <3>1. SUFFICES ASSUME n < k PROVE FALSE
      OBVIOUS
    <3>2. (n + 1) * g <= k * g /\ (n + 1) * g = n * g + g
      BY <1>1, <3>1, Monotone DEF g
    <3>3. QED
      BY <1>1, <1>2, <1>3, <1>4, <1>6, <3>2 DEF g
  <2>2. n - k \in Nat /\ (n - k) * g = n * g - k * g
    BY <1>1, <2>1 DEF g
  <2>3. QED
    BY <1>2, <1>3, <2>2
<1>7. k + n \in Nat /\ k + 1 \in Nat
  OBVIOUS
<1>8. QED
  BY <1>4, <1>5, <1>6, <1>7 DEF Groups, g

-----------------------------------------------------------------------------
(* Buffers do not overlap. *)
LEMMA AdvanceFacts ==
  ASSUME NEW z \in Sizes, NEW i \in Impls
  PROVE  /\ z.block[i] \in Nat /\ z.group <= z.block[i] /\ z.block[i] > 0
         /\ FirstLength(z, i) \in Nat /\ FirstLength(z, i) > 0
         /\ Advance(i, z.block[i]) \in Nat /\ z.block[i] <= Advance(i, z.block[i])
         /\ Advance(i, FirstLength(z, i)) \in Nat
         /\ FirstLength(z, i) <= Advance(i, FirstLength(z, i))
<1> DEFINE b == z.block[i]  f == z.first[i]
<1>1. b \in Nat /\ f \in Nat \ {0} /\ z.group <= b /\ z.group \in Nat \ {0}
  BY SizeFacts
<1>2. FirstLength(z, i) = f * b
  BY DEF FirstLength
<1> HIDE DEF b, f
<1>3. b > 0
  BY <1>1
<1>4. f * b \in Nat /\ 1 * b <= f * b /\ 1 * b = b
  BY <1>1, ProductNat, Monotone
<1>5. f * b > 0
  <2> DEFINE x == f * b
  <2>1. x \in Nat /\ b <= x
    BY <1>4
  <2> HIDE DEF x
  <2>2. x > 0
    BY <1>1, <1>3, <2>1
  <2>3. QED
    BY <2>2 DEF x
<1>6. /\ Advance(i, b) \in Nat /\ b <= Advance(i, b)
      /\ Advance(i, f * b) \in Nat /\ f * b <= Advance(i, f * b)
  BY <1>1, <1>4, AdvanceType
<1>7. QED
  BY <1>1, <1>2, <1>3, <1>4, <1>5, <1>6 DEF b

LEMMA BufferFacts ==
  ASSUME NEW z \in Sizes, NEW i \in Impls, NEW s, NEW len, Buffer(z, i, s, len)
  PROVE  /\ s \in Nat /\ len \in Nat /\ Advance(i, len) \in Nat /\ len <= Advance(i, len)
         /\ Buffer(z, i, s + Advance(i, len), z.block[i])
<1> DEFINE F == Advance(i, FirstLength(z, i))  B == Advance(i, z.block[i])
<1>1. F \in Nat /\ B \in Nat
  BY AdvanceFacts
<1>2. CASE s = 0 /\ len = FirstLength(z, i)
  <2>1. s + Advance(i, len) = F + 0 * B
    <3>1. Advance(i, len) = F
      BY <1>2
    <3> HIDE DEF F, B
    <3>2. QED
      BY <1>1, <1>2, <3>1
  <2>2. QED
    BY <1>2, <2>1, AdvanceFacts DEF Buffer
<1>3. CASE len = z.block[i] /\ \E r \in Nat : s = F + r * B
  <2>1. PICK r \in Nat : s = F + r * B
    BY <1>3
  <2>2. s + Advance(i, len) = F + (r + 1) * B /\ s \in Nat
    <3>1. Advance(i, len) = B
      BY <1>3
    <3> HIDE DEF F, B
    <3>2. r * B \in Nat
      BY <1>1, ProductNat
    <3>3. QED
      BY <1>1, <2>1, <3>1, <3>2
  <2>3. \E q \in Nat : s + Advance(i, len) = F + q * B
    <3>1. r + 1 \in Nat
      OBVIOUS
    <3> HIDE DEF F, B
    <3>2. QED
      BY <2>2, <3>1
  <2>4. Buffer(z, i, s + Advance(i, len), z.block[i])
    BY <2>3 DEF Buffer
  <2>5. QED
    BY <1>3, <2>2, <2>4, AdvanceFacts
<1>4. QED
  BY <1>2, <1>3 DEF Buffer

LEMMA BuffersApart ==
  ASSUME NEW z \in Sizes, NEW i \in Impls, NEW s, NEW len, NEW t, NEW n,
         Buffer(z, i, s, len), Buffer(z, i, t, n)
  PROVE  /\ s < t => s + Advance(i, len) <= t
         /\ s = t => len = n
<1> DEFINE F == Advance(i, FirstLength(z, i))  B == Advance(i, z.block[i])
<1>1. F \in Nat /\ B \in Nat /\ F > 0 /\ B > 0
  BY AdvanceFacts
<1>2. \/ s = 0 /\ len = FirstLength(z, i)
      \/ len = z.block[i] /\ \E r \in Nat : s = F + r * B
  BY DEF Buffer
<1>3. \/ t = 0 /\ n = FirstLength(z, i)
      \/ n = z.block[i] /\ \E r \in Nat : t = F + r * B
  BY DEF Buffer
<1>4. CASE s = 0 /\ len = FirstLength(z, i)
  <2>1. Advance(i, len) = F
    BY <1>4
  <2> HIDE DEF F, B
  <2>2. CASE t = 0 /\ n = FirstLength(z, i)
    BY <1>4, <2>2
  <2>3. CASE n = z.block[i] /\ \E r \in Nat : t = F + r * B
    <3>1. PICK r \in Nat : t = F + r * B
      BY <2>3
    <3>2. r * B \in Nat
      BY <1>1, ProductNat
    <3>3. QED
      BY <1>1, <1>4, <2>1, <3>1, <3>2
  <2>4. QED
    BY <1>3, <2>2, <2>3
<1>5. CASE len = z.block[i] /\ \E r \in Nat : s = F + r * B
  <2>1. Advance(i, len) = B
    BY <1>5
  <2> HIDE DEF F, B
  <2>2. PICK r \in Nat : s = F + r * B
    BY <1>5
  <2>3. r * B \in Nat
    BY <1>1, ProductNat
  <2>4. CASE t = 0
    BY <1>1, <2>2, <2>3, <2>4
  <2>5. CASE n = z.block[i] /\ \E q \in Nat : t = F + q * B
    <3>1. PICK q \in Nat : t = F + q * B
      BY <2>5
    <3>2. q * B \in Nat
      BY <1>1, ProductNat
    <3>3. ASSUME s < t PROVE s + B <= t
      <4>1. r * B < q * B
        BY <1>1, <2>2, <2>3, <3>1, <3>2, <3>3
      <4>2. r * B + B <= q * B
        BY <1>1, <4>1, Multiples
      <4>3. QED
        BY <1>1, <2>2, <2>3, <3>1, <3>2, <4>2
    <3>4. QED
      BY <1>5, <2>1, <2>5, <3>3
  <2>6. QED
    BY <1>3, <2>4, <2>5
<1>6. QED
  BY <1>2, <1>4, <1>5

(* Between the beginning of a buffer and that of the next, what is looked  *)
(* at lies in this buffer.                                                 *)
LEMMA LookedHere ==
  ASSUME NEW z \in Sizes, NEW i \in Impls, NEW s, NEW len, Buffer(z, i, s, len),
         NEW m \in Nat, s <= m, m < s + Advance(i, len)
  PROVE  m \in Looked(z, i) <=> InBuffer(z, s, len, m)
<1>1. s \in Nat /\ len \in Nat /\ Advance(i, len) \in Nat
  BY BufferFacts
<1>2. ASSUME m \in Looked(z, i) PROVE InBuffer(z, s, len, m)
  <2>1. PICK t, n \in Nat : Buffer(z, i, t, n) /\ InBuffer(z, t, n, m)
    BY <1>2 DEF Looked
  <2>2. PICK p \in Nat : p + z.group <= n /\ t + p <= m /\ m < t + p + z.per
    BY <2>1 DEF InBuffer
  <2>3. Advance(i, n) \in Nat /\ n <= Advance(i, n)
    BY <2>1, BufferFacts
  <2>4. z.group \in Nat /\ z.per \in Nat /\ z.per <= z.group
    BY SizeFacts
  <2>5. t <= m /\ m < t + Advance(i, n)
    BY <2>1, <2>2, <2>3, <2>4
  <2>6. ~(s < t)
    <3>1. SUFFICES ASSUME s < t PROVE FALSE
      OBVIOUS
    <3>2. s + Advance(i, len) <= t
      BY <2>1, <3>1, BuffersApart
    <3>3. QED
      BY <1>1, <2>1, <2>5, <3>2
  <2>7. ~(t < s)
    <3>1. SUFFICES ASSUME t < s PROVE FALSE
      OBVIOUS
    <3>2. t + Advance(i, n) <= s
      BY <2>1, <3>1, BuffersApart
    <3>3. QED
      BY <1>1, <2>1, <2>3, <2>5, <3>2
  <2>8. s = t
    BY <1>1, <2>1, <2>6, <2>7
  <2>9. len = n
    BY <2>1, <2>8, BuffersApart
  <2>10. QED
    BY <2>1, <2>8, <2>9
<1>3. QED
  BY <1>1, <1>2 DEF Looked

(* Behind the lanes of a group nothing is looked at, up to the next group  *)
(* that fits.                                                              *)
LEMMA BehindLanes ==
  ASSUME NEW z \in Sizes, NEW i \in Impls, NEW s, NEW len, Buffer(z, i, s, len),
         NEW p, Groups(z, p), p + z.group <= len,
         NEW m \in Nat, s + p + z.per <= m, m < s + p + z.group
  PROVE  m \notin Looked(z, i)
<1>1. s \in Nat /\ len \in Nat /\ Advance(i, len) \in Nat /\ len <= Advance(i, len)
  BY BufferFacts
<1>2. z.group \in Nat /\ z.per \in Nat /\ z.per <= z.group
  BY SizeFacts
<1>3. p \in Nat
  BY GroupsSum
<1>4. s <= m /\ m < s + Advance(i, len)
  BY <1>1, <1>2, <1>3
<1>5. SUFFICES ASSUME NEW q \in Nat, Groups(z, q), s + q <= m, m < s + q + z.per PROVE FALSE
  BY <1>4, LookedHere DEF InBuffer
<1>6. p < q => p + z.group <= q
  BY <1>5, GroupsSum
<1>7. q < p => q + z.group <= p
  BY <1>5, GroupsSum
<1>8. QED
  BY <1>1, <1>2, <1>3, <1>5, <1>6, <1>7

(* Nor at the end of a buffer where no group fits. *)
LEMMA BehindGroups ==
  ASSUME NEW z \in Sizes, NEW i \in Impls, NEW s, NEW len, Buffer(z, i, s, len),
         NEW p, Groups(z, p), ~(p + z.group <= len),
         NEW m \in Nat, s + p <= m, m < s + Advance(i, len)
  PROVE  m \notin Looked(z, i)
<1>1. s \in Nat /\ len \in Nat /\ Advance(i, len) \in Nat /\ len <= Advance(i, len)
  BY BufferFacts
<1>2. z.group \in Nat /\ z.per \in Nat /\ z.per <= z.group
  BY SizeFacts
<1>3. p \in Nat
  BY GroupsSum
<1>4. s <= m
  BY <1>1, <1>3
<1>5. SUFFICES ASSUME NEW q \in Nat, Groups(z, q), q + z.group <= len, m < s + q + z.per PROVE FALSE
  BY <1>4, LookedHere DEF InBuffer
<1>6. q < p => q + z.group <= p
  BY <1>5, GroupsSum
<1>7. QED
  BY <1>1, <1>2, <1>3, <1>5, <1>6

-----------------------------------------------------------------------------
(* Aligned is kept by each action of the implementation that moves. *)
LEMMA AlignedFrame ==
  ASSUME NEW j \in Impls, Aligned(j), Same(j), size' = size, good' = good
  PROVE  Aligned(j)'
BY DEF Aligned, Same, Full, Here, Taken

(* Entries stay in order when the place they lie before moves on. *)
LEMMA InOrderLater ==
  ASSUME NEW C, NEW g, NEW s \in Seq(Nat), NEW h \in Nat, NEW n \in Nat, h <= n, InOrder(C, g, s, h)
  PROVE  InOrder(C, g, s, n)
<1>1. ASSUME NEW k \in 1 .. Len(s) PROVE s[k] \in Nat
  BY ElementOfSeq
<1>2. QED
  BY <1>1 DEF InOrder

LEMMA AlignedStart ==
  ASSUME NEW i \in Impls, Shapes, Aligned(i), Start(i)
  PROVE  Aligned(i)'
<1>1. TypeOK /\ Shape(i) /\ size \in Sizes
  BY DEF Shapes, TypeOK
<1>2. /\ pc[i] = "start" /\ Squeeze(i, size.first[i]) /\ pc' = [pc EXCEPT ![i] = "loop"]
      /\ UNCHANGED <<size, good, c, poly>>
  BY DEF Start
<1>3. pc'[i] = "loop" /\ xof[i] = 0 /\ Here(i) = 0
  BY <1>1, <1>2 DEF Here, Shape, TypeOK
<1>4. size.first[i] \in Nat
  BY <1>1, SizeFacts
<1>5. /\ base'[i] = xof[i] /\ buflen'[i] = FirstLength(size, i) /\ pos'[i] = 0
      /\ xof'[i] = xof[i] + Advance(i, FirstLength(size, i))
  BY <1>1, <1>2, <1>4, SqueezeEffect DEF FirstLength
<1>6. Buffer(size, i, base'[i], buflen'[i]) /\ xof'[i] = base'[i] + Advance(i, buflen'[i])
  BY <1>3, <1>5 DEF Buffer
<1>7. Here(i)' = Here(i) /\ Groups(size, pos'[i])
  <2>1. Here(i)' = base'[i] + pos'[i] + 0
    BY <1>3 DEF Here
  <2>2. Groups(size, pos[i]) /\ Groups(size, 0)
    BY <1>1, GroupsSum DEF Aligned
  <2>3. QED
    BY <1>3, <1>5, <2>1, <2>2
<1>8. Taken(i)' = Taken(i) /\ (Full(i)' <=> Full(i))
  BY <1>2 DEF Taken, Full
<1>9. QED
  BY <1>2, <1>6, <1>7, <1>8 DEF Aligned

(* What a refill drops holds nothing that is looked at. *)
LEMMA AlignedRefill ==
  ASSUME NEW i \in Impls, Shapes, Aligned(i), Refill(i)
  PROVE  Aligned(i)'
<1> DEFINE C == Looked(size, i)
<1>1. TypeOK /\ Shape(i) /\ size \in Sizes
  BY DEF Shapes, TypeOK
<1>2. /\ pc[i] = "loop" /\ Squeeze(i, 1) /\ ~Fits(i)
      /\ UNCHANGED <<size, good, pc, c, poly>>
  BY DEF Refill
<1>3. /\ base'[i] = xof[i] /\ buflen'[i] = size.block[i] /\ pos'[i] = 0
      /\ xof'[i] = xof[i] + Advance(i, size.block[i])
  <2>1. 1 * size.block[i] = size.block[i]
    BY <1>1, SizeFacts
  <2>2. QED
    BY <1>1, <1>2, <2>1, SqueezeEffect
<1>4. /\ Buffer(size, i, base[i], buflen[i]) /\ xof[i] = base[i] + Advance(i, buflen[i])
      /\ Groups(size, pos[i]) /\ InOrder(C, good, Taken(i), Here(i))
      /\ ~Full(i) => RankOf(C, good, Here(i)) = Len(Taken(i))
  BY <1>2 DEF Aligned
<1>5. /\ Buffer(size, i, xof[i], size.block[i])
      /\ Advance(i, buflen[i]) \in Nat /\ buflen[i] <= Advance(i, buflen[i])
  BY <1>1, <1>4, BufferFacts
<1>6. base[i] \in Nat /\ pos[i] \in Nat /\ xof[i] \in Nat /\ pos[i] <= buflen[i] /\ buflen[i] \in Nat
  BY <1>1 DEF TypeOK, Shape
<1>7. Here(i) = base[i] + pos[i] /\ Here(i)' = xof[i] /\ Here(i) \in Nat /\ Here(i) <= xof[i]
  <2>1. Here(i) = base[i] + pos[i] + 0 /\ Here(i)' = base'[i] + pos'[i] + 0
    BY <1>2 DEF Here
  <2>2. QED
    BY <1>3, <1>4, <1>5, <1>6, <2>1
<1> HIDE DEF C
<1>8. RankOf(C, good, xof[i]) = RankOf(C, good, Here(i))
  <2>1. ASSUME NEW d \in Here(i) .. xof[i] - 1 PROVE d \notin C
    <3>1. d \in Nat /\ base[i] + pos[i] <= d /\ d < base[i] + Advance(i, buflen[i])
      BY <1>4, <1>6, <1>7
    <3>2. QED
      BY <1>1, <1>2, <1>4, <3>1, BehindGroups DEF C, Fits
  <2>2. QED
    BY <1>6, <1>7, <2>1, RankGap
<1>9. Taken(i)' = Taken(i) /\ (Full(i)' <=> Full(i)) /\ Taken(i) \in Seq(Nat)
  <2>1. poly[i] \in Seq(Nat) /\ c[i] \in Seq(Nat)
    BY <1>1 DEF TypeOK
  <2>2. QED
    BY <1>2, <2>1, ConcatProperties DEF Taken, Full
<1>10. InOrder(C, good, Taken(i), xof[i])
  BY <1>4, <1>6, <1>7, <1>9, InOrderLater
<1>11. Groups(size, 0)
  BY <1>1, <1>4, GroupsSum
<1>12. QED
  BY <1>2, <1>3, <1>4, <1>5, <1>7, <1>8, <1>9, <1>10, <1>11 DEF Aligned, C

LEMMA AlignedNextGroup ==
  ASSUME NEW i \in Impls, Shapes, Aligned(i), NextGroup(i)
  PROVE  Aligned(i)'
<1>1. TypeOK
  BY DEF Shapes
<1>2. /\ pc[i] = "loop" /\ pc' = [pc EXCEPT ![i] = "test"] /\ lane' = [lane EXCEPT ![i] = 0]
      /\ UNCHANGED <<size, good, buffer, pos, c, poly>>
  BY DEF NextGroup
<1>3. pc'[i] = "test" /\ lane'[i] = 0
  BY <1>1, <1>2 DEF TypeOK
<1>4. Here(i)' = Here(i)
  BY <1>2, <1>3 DEF Here, buffer
<1>5. Taken(i)' = Taken(i) /\ (Full(i)' <=> Full(i))
  BY <1>2 DEF Taken, Full
<1>6. QED
  BY <1>2, <1>4, <1>5 DEF Aligned, buffer

LEMMA AlignedFinish ==
  ASSUME NEW i \in Impls, Shapes, Aligned(i), Finish(i)
  PROVE  Aligned(i)'
<1>1. TypeOK
  BY DEF Shapes
<1>2. /\ pc[i] = "loop" /\ pc' = [pc EXCEPT ![i] = "done"]
      /\ UNCHANGED <<size, good, buffer, pos, lane, c, poly>>
  BY DEF Finish
<1>3. pc'[i] = "done"
  BY <1>1, <1>2 DEF TypeOK
<1>4. Here(i)' = Here(i)
  BY <1>2, <1>3 DEF Here, buffer
<1>5. Taken(i)' = Taken(i) /\ (Full(i)' <=> Full(i))
  BY <1>2 DEF Taken, Full
<1>6. QED
  BY <1>2, <1>4, <1>5 DEF Aligned, buffer

(* The candidate just tested is the next in rank. *)
LEMMA InOrderNext ==
  ASSUME NEW C, NEW g, NEW s \in Seq(Nat), NEW m \in Nat,
         InOrder(C, g, s, m), m \in C, AcceptedIn(g, m), RankOf(C, g, m) = Len(s)
  PROVE  InOrder(C, g, s \o <<m>>, m + 1)
<1>1. /\ Len(s \o <<m>>) = Len(s) + 1 /\ Len(s) \in Nat
      /\ \A k \in 1 .. Len(s) : (s \o <<m>>)[k] = s[k]
      /\ (s \o <<m>>)[Len(s) + 1] = m
  BY AppendedAtEnd, LenProperties
<1> DEFINE t == s \o <<m>>
<1>2. InOrder(C, g, s, m + 1)
  BY InOrderLater, m + 1 \in Nat, m <= m + 1
<1>3. ASSUME NEW k \in 1 .. Len(t)
      PROVE  t[k] \in C /\ AcceptedIn(g, t[k]) /\ RankOf(C, g, t[k]) = k - 1 /\ t[k] < m + 1
  <2>1. CASE k \in 1 .. Len(s)
    <3>1. t[k] = s[k]
      BY <1>1, <2>1
    <3>2. s[k] \in C /\ AcceptedIn(g, s[k]) /\ RankOf(C, g, s[k]) = k - 1 /\ s[k] < m + 1
      BY <1>2, <2>1 DEF InOrder
    <3>3. QED
      BY <3>1, <3>2, Zenon
  <2>2. CASE k = Len(s) + 1
    <3>1. t[k] = m /\ k - 1 = Len(s) /\ m < m + 1
      BY <1>1, <2>2
    <3>2. QED
      BY <3>1, Zenon
  <2>3. k \in 1 .. Len(s) \/ k = Len(s) + 1
    BY <1>1
  <2>4. QED
    BY <2>1, <2>2, <2>3
<1>4. QED
  BY <1>3 DEF InOrder

LEMMA NextPlace ==
  ASSUME NEW x \in Nat, NEW y \in Nat, NEW l \in Nat
  PROVE  x + y + (l + 1) = x + y + l + 1 /\ x + (y + l) + 0 = x + y + l
OBVIOUS

LEMMA AlignedTest ==
  ASSUME NEW i \in Impls, Shapes, Aligned(i), Test(i)
  PROVE  Aligned(i)'
<1> DEFINE m == base[i] + pos[i] + lane[i]
           t == Taken(i)
           C == Looked(size, i)
<1>1. TypeOK /\ Shape(i) /\ size \in Sizes
  BY DEF Shapes, TypeOK
<1>2. /\ pc[i] = "test" /\ NextLane(i) /\ UNCHANGED <<size, good, buffer>>
      /\ IF Accepted(m) /\ ~Full(i) THEN Store(i, m) ELSE UNCHANGED <<c, poly>>
  BY DEF Test
<1>3. size.per \in Nat /\ size.group \in Nat /\ size.per <= size.group
  BY <1>1, SizeFacts
<1>4. /\ base[i] \in Nat /\ pos[i] \in Nat /\ lane[i] \in Nat /\ lane[i] < size.per
      /\ poly[i] \in Seq(Nat) /\ c[i] \in Seq(Nat) /\ buflen[i] \in Nat
      /\ pos[i] + size.group <= buflen[i]
  BY <1>1, <1>2 DEF TypeOK, Shape
<1>5. m \in Nat /\ m + 1 \in Nat
  BY <1>4
<1>6. /\ Buffer(size, i, base[i], buflen[i]) /\ xof[i] = base[i] + Advance(i, buflen[i])
      /\ Groups(size, pos[i]) /\ Groups(size, pos[i] + size.group)
      /\ InOrder(C, good, t, m)
      /\ ~Full(i) => RankOf(C, good, m) = Len(t)
  BY <1>1, <1>2, GroupsSum DEF Aligned, Here
<1>7. m \in C
  <2>1. base[i] + pos[i] <= m /\ m < base[i] + pos[i] + size.per
    BY <1>3, <1>4
  <2>2. InBuffer(size, base[i], buflen[i], m)
    BY <1>4, <1>6, <2>1 DEF InBuffer
  <2>3. QED
    BY <1>4, <1>5, <1>6, <2>2 DEF Looked
<1>8. t \in Seq(Nat) /\ Len(t) \in Nat
  BY <1>4, ConcatProperties, LenProperties DEF Taken
<1>9. Accepted(m) <=> AcceptedIn(good, m)
  BY DEF Accepted, AcceptedIn
<1>10. RankOf(C, good, m + 1) = IF AcceptedIn(good, m) THEN RankOf(C, good, m) + 1
                                                      ELSE RankOf(C, good, m)
  <2> HIDE DEF C, m
  <2>1. QED
    BY <1>5, <1>7, RankNext
<1>11. /\ InOrder(C, good, Taken(i)', m + 1) /\ Taken(i)' \in Seq(Nat)
       /\ ~Full(i)' => RankOf(C, good, m + 1) = Len(Taken(i)')
  <2>1. CASE Accepted(m) /\ ~Full(i)
    <3>1. Taken(i)' = t \o <<m>>
      BY <1>2, <1>5, <2>1, StoreEffect DEF Taken
    <3>2. AcceptedIn(good, m) /\ RankOf(C, good, m) = Len(t)
      BY <1>6, <1>9, <2>1
    <3> HIDE DEF t, m, C
    <3>3. InOrder(C, good, t \o <<m>>, m + 1)
      BY <1>5, <1>6, <1>7, <1>8, <3>2, InOrderNext
    <3>4. Len(t \o <<m>>) = Len(t) + 1 /\ t \o <<m>> \in Seq(Nat)
      BY <1>5, <1>8, AppendedAtEnd
    <3>5. RankOf(C, good, m + 1) = Len(t) + 1
      BY <1>10, <3>2
    <3>6. QED
      BY <3>1, <3>3, <3>4, <3>5
  <2>2. CASE ~(Accepted(m) /\ ~Full(i))
    <3>1. Taken(i)' = t /\ (Full(i)' <=> Full(i))
      BY <1>2, <2>2 DEF Taken, Full
    <3>2. ~Full(i) => ~AcceptedIn(good, m)
      BY <1>9, <2>2
    <3> HIDE DEF t, m, C
    <3>3. ~Full(i) => RankOf(C, good, m + 1) = Len(t)
      BY <1>6, <1>10, <3>2
    <3>4. InOrder(C, good, t, m + 1)
      BY <1>5, <1>6, <1>8, InOrderLater, m <= m + 1
    <3>5. QED
      BY <1>8, <3>1, <3>3, <3>4
  <2>3. QED
    BY <2>1, <2>2
<1>12. base'[i] = base[i] /\ buflen'[i] = buflen[i] /\ xof'[i] = xof[i] /\ size' = size /\ good' = good
  BY <1>2 DEF buffer
<1>13. /\ RankOf(C, good, Here(i)') = RankOf(C, good, m + 1) /\ Groups(size, pos'[i])
       /\ Here(i)' \in Nat /\ m + 1 <= Here(i)' /\ pc'[i] # "start"
  <2>1. CASE lane'[i] = lane[i] + 1 /\ pc'[i] = "test" /\ pos'[i] = pos[i]
    <3>1. Here(i)' = base[i] + pos[i] + (lane[i] + 1)
      BY <1>12, <2>1 DEF Here
    <3>2. base[i] + pos[i] + (lane[i] + 1) = m + 1
      BY <1>4, NextPlace
    <3>3. QED
      BY <1>5, <1>6, <2>1, <3>1, <3>2
  <2>2. CASE lane[i] + 1 = size.per /\ pc'[i] = "loop" /\ pos'[i] = pos[i] + size.group
    <3> DEFINE a == base[i] + pos[i]  y == a + size.group
    <3>1. Here(i)' = base[i] + (pos[i] + size.group) + 0
      BY <1>12, <2>2 DEF Here
    <3>2. base[i] + (pos[i] + size.group) + 0 = y /\ y \in Nat
      <4> HIDE DEF m, t, C
      <4>1. QED
        BY <1>3, <1>4
    <3>3. m + 1 = a + size.per
      <4>1. base[i] + pos[i] + lane[i] + 1 = base[i] + pos[i] + (lane[i] + 1)
        BY ZenonT(60), <1>3, <1>4, NextPlace
      <4>2. QED
        BY <2>2, <4>1
    <3>4. m + 1 <= y
      <4> HIDE DEF m
      <4>1. QED
        BY <1>3, <1>4, <3>3
    <3>5. \A d \in m + 1 .. y - 1 : d \notin C
      <4>1. TAKE d \in m + 1 .. y - 1
      <4> HIDE DEF m
      <4>2. d \in Nat /\ base[i] + pos[i] + size.per <= d /\ d < base[i] + pos[i] + size.group
        <5>1. m \in Nat /\ d \in Int /\ m + 1 <= d /\ d < y
          BY <1>5, <3>2
        <5>2. d \in Nat
          BY <5>1
        <5>3. base[i] + pos[i] + size.per <= d
          BY <1>3, <1>4, <3>3, <5>1
        <5>4. d < base[i] + pos[i] + size.group
          BY <5>1
        <5>5. QED
          BY <5>2, <5>3, <5>4
      <4>3. QED
        BY <1>1, <1>4, <1>6, <4>2, BehindLanes
    <3> HIDE DEF m, y, C
    <3>6. RankOf(C, good, y) = RankOf(C, good, m + 1)
      BY <1>5, <3>2, <3>4, <3>5, RankGap
    <3>7. QED
      BY <1>6, <2>2, <3>1, <3>2, <3>4, <3>6
  <2>3. QED
    BY <1>1, <1>2, <2>1, <2>2, LaneEffect
<1> HIDE DEF m, t, C
<1>14. InOrder(C, good, Taken(i)', Here(i)')
  BY <1>5, <1>11, <1>13, InOrderLater
<1>15. C = Looked(size, i)
  BY DEF C
<1>16. QED
  BY <1>6, <1>11, <1>12, <1>13, <1>14, <1>15 DEF Aligned

LEMMA PinnedInit == Init => Pinned
<1> SUFFICES ASSUME Init, NEW i \in Impls PROVE Aligned(i)
  BY ShapesInit DEF Pinned
<1>1. size \in Sizes
  BY DEF Init
<1>2. /\ pc[i] = "start" /\ xof[i] = 0 /\ base[i] = 0 /\ buflen[i] = 0 /\ pos[i] = 0
      /\ c[i] = <<>> /\ poly[i] = <<>>
  BY DEF Init
<1>3. Groups(size, 0)
  <2>1. size.group \in Nat /\ 0 = 0 * size.group
    BY <1>1, SizeFacts
  <2>2. QED
    BY <2>1 DEF Groups
<1>4. Taken(i) = <<>> /\ Len(<<>>) = 0
  BY <1>2, ConcatEmptySeq DEF Taken
<1>5. Here(i) = 0
  BY <1>2 DEF Here
<1>6. RankOf(Looked(size, i), good, 0) = 0
  BY RankZero
<1>7. InOrder(Looked(size, i), good, <<>>, 0)
  BY <1>4 DEF InOrder
<1>8. QED
  BY <1>2, <1>3, <1>4, <1>5, <1>6, <1>7 DEF Aligned

LEMMA PinnedNext == Pinned /\ [Next]_vars => Pinned'
<1> SUFFICES ASSUME Pinned, [Next]_vars PROVE Pinned'
  OBVIOUS
<1>1. Shapes /\ Shapes' /\ \A n \in Impls : Aligned(n)
  BY ShapesNext DEF Pinned
<1>2. CASE Next
  <2>1. PICK i \in Impls : Start(i) \/ Refill(i) \/ NextGroup(i) \/ Test(i) \/ Finish(i)
    BY <1>2 DEF Next
  <2>2. size' = size /\ good' = good /\ \A j \in Impls \ {i} : Same(j)
    BY <1>1, <2>1, ShapesStart, ShapesRefill, ShapesNextGroup, ShapesTest, ShapesFinish
  <2>3. Aligned(i)'
    BY <1>1, <2>1,
       AlignedStart, AlignedRefill, AlignedNextGroup, AlignedTest, AlignedFinish
  <2>4. \A j \in Impls : Aligned(j)'
    BY <1>1, <2>2, <2>3, AlignedFrame
  <2>5. QED
    BY <1>1, <2>4 DEF Pinned
<1>3. CASE UNCHANGED vars
  <2>1. size' = size /\ good' = good /\ \A j \in Impls : Same(j)
    BY <1>3 DEF vars, buffer, Same
  <2>2. QED
    BY <1>1, <2>1, AlignedFrame DEF Pinned
<1>4. QED
  BY <1>2, <1>3

-----------------------------------------------------------------------------
(* Where blocks are whole groups, both look at every candidate of the      *)
(* stream.                                                                 *)
LEMMA InGroup ==
  ASSUME NEW z \in Sizes, NEW a, NEW m \in Nat, Groups(z, a), a <= m, m < a + z.per
  PROVE  \E k \in 0 .. m : k * z.group <= m /\ m < k * z.group + z.per
<1>1. z.group \in Nat \ {0} /\ z.per \in Nat
  BY SizeFacts, Impls # {} DEF Impls
<1> DEFINE g == z.group
<1>2. PICK k \in Nat : a = k * g
  BY DEF Groups
<1> HIDE DEF g
<1>3. k <= k * g
  <2>1. k * 1 <= k * g /\ k * 1 = k
    <3>1. 1 <= g /\ g \in Nat
      BY <1>1 DEF g
    <3>2. 1 * k <= g * k /\ 1 * k = k /\ g * k = k * g
      BY <3>1, Monotone
    <3>3. QED
      BY <3>2
  <2>2. QED
    BY <2>1
<1>4. k * g \in Nat
  BY <1>1, ProductNat DEF g
<1>5. k \in 0 .. m /\ k * g <= m /\ m < k * g + z.per
  BY <1>1, <1>2, <1>3, <1>4
<1>6. QED
  BY <1>5 DEF g

(* A number is a multiple of another and a rest. *)
LEMMA WithRest ==
  ASSUME NEW x \in Nat, NEW b \in Nat \ {0}
  PROVE  \E q \in Nat : q * b <= x /\ x < q * b + b
<1>1. x \div b \in Nat /\ (x \div b) * b <= x /\ x < (x \div b) * b + b
  OBVIOUS
<1>2. QED
  BY <1>1

LEMMA WholeLooked ==
  ASSUME NEW z \in Sizes, NEW i \in Impls, Whole(z), NEW m \in Nat
  PROVE  m \in Looked(z, i) <=> \E k \in 0 .. m : k * z.group <= m /\ m < k * z.group + z.per
<1> DEFINE g == z.group  b == z.block[i]  f == FirstLength(z, i)
<1>1. g \in Nat \ {0} /\ z.per \in Nat /\ z.per <= g /\ b \in Nat \ {0} /\ f \in Nat
  BY SizeFacts, AdvanceFacts
<1>2. Advance(i, b) = b /\ Advance(i, f) = f
  <2>1. 1 * b = b
    BY <1>1
  <2>2. QED
    BY <2>1 DEF Advance, Whole, Impls, FirstLength
<1>3. Groups(z, b) /\ \A q \in Nat : Groups(z, q * b)
  <2>1. PICK k \in Nat : b = k * g
    BY SizeFacts DEF Whole
  <2>2. ASSUME NEW q \in Nat PROVE \E n \in Nat : q * b = n * g
    <3> HIDE DEF g, b
    <3>1. q * b = (q * k) * g /\ q * k \in Nat
      BY <1>1, <2>1, ProductNat
    <3>2. QED
      BY <3>1
  <2>3. QED
    BY <2>1, <2>2 DEF Groups
<1>4. Groups(z, f)
  BY <1>3, SizeFacts DEF FirstLength
<1>5. ASSUME m \in Looked(z, i)
      PROVE  \E k \in 0 .. m : k * g <= m /\ m < k * g + z.per
  <2>1. PICK s, n, p \in Nat :
          Buffer(z, i, s, n) /\ Groups(z, p) /\ s + p <= m /\ m < s + p + z.per
    BY <1>5 DEF Looked, InBuffer
  <2>2. Groups(z, s)
    <3>1. CASE s = 0
      BY <1>3, <3>1, GroupsSum
    <3>2. CASE \E r \in Nat : s = f + r * b
      BY <1>2, <1>3, <1>4, <3>2, GroupsSum
    <3>3. QED
      BY <1>2, <2>1, <3>1, <3>2 DEF Buffer
  <2>3. Groups(z, s + p)
    BY <2>1, <2>2, GroupsSum
  <2>4. QED
    BY <2>1, <2>3, InGroup
<1>6. ASSUME NEW k \in 0 .. m, k * g <= m, m < k * g + z.per
      PROVE  m \in Looked(z, i)
  <2> DEFINE a == k * g
  <2>1. Groups(z, a) /\ a \in Nat
    <3>1. k \in Nat
      BY <1>6
    <3>2. a \in Nat
      <4> HIDE DEF g
      <4>1. QED
        BY <1>1, <3>1, ProductNat
    <3>3. \E n \in Nat : a = n * z.group
      BY <3>1
    <3>4. QED
      BY <3>2, <3>3 DEF Groups
  <2>2. a <= m /\ m < a + z.per
    BY <1>6
  <2> HIDE DEF a, b, f, g
  <2>3. CASE a < f
    <3>1. a + g <= f
      BY <1>4, <2>1, <2>3, GroupsSum DEF g
    <3>2. Buffer(z, i, 0, f)
      BY DEF Buffer, f
    <3>3. 0 + a <= m /\ m < 0 + a + z.per
      BY <1>1, <2>1, <2>2
    <3>4. InBuffer(z, 0, f, m)
      BY <2>1, <3>1, <3>3 DEF InBuffer, g
    <3>5. QED
      BY <1>1, <3>2, <3>4 DEF Looked
  <2>4. CASE f <= a
    <3>1. Groups(z, a - f) /\ a - f \in Nat
      BY <1>1, <1>4, <2>1, <2>4, GroupsSum
    <3>2. PICK q \in Nat : q * b <= a - f /\ a - f < q * b + b
      BY <1>1, <3>1, WithRest
    <3> DEFINE w == q * b  p == a - f - w
    <3>3. w \in Nat /\ Groups(z, w)
      BY <1>1, <1>3, ProductNat DEF b
    <3>4. w <= a - f /\ a - f < w + b
      BY <3>2
    <3> HIDE DEF w
    <3>5. Groups(z, p) /\ p \in Nat /\ p < b
      <4> DEFINE d == a - f
      <4>1. d \in Nat /\ w <= d /\ Groups(z, d)
        BY <3>1, <3>4
      <4>2. Groups(z, d - w)
        <5> HIDE DEF d
        <5>1. QED
          BY <3>3, <4>1, GroupsSum
      <4>3. d - w \in Nat /\ d - w < b
        <5>1. d < w + b
          BY <3>4
        <5> HIDE DEF d
        <5>2. QED
          BY <1>1, <3>3, <4>1, <5>1
      <4>4. QED
        BY <4>2, <4>3
    <3>6. p + g <= b
      BY <1>3, <3>5, GroupsSum DEF b, g
    <3>7. Buffer(z, i, f + w, b) /\ f + w \in Nat
      <4>1. \E r \in Nat : f + w = Advance(i, f) + r * Advance(i, b)
        BY <1>1, <1>2, <3>3 DEF w
      <4>2. QED
        BY <1>1, <3>3, <4>1 DEF Buffer, f, b
    <3>8. (f + w) + p <= m /\ m < (f + w) + p + z.per
      BY <1>1, <2>1, <2>2, <2>4, <3>3
    <3>9. InBuffer(z, f + w, b, m)
      <4> HIDE DEF p
      <4>1. QED
        BY <3>5, <3>6, <3>8 DEF InBuffer, g
    <3>10. QED
      BY <1>1, <3>7, <3>9 DEF Looked
  <2>5. QED
    BY <1>1, <2>1, <2>3, <2>4
<1>7. QED
  BY <1>5, <1>6

(* Where they are not, but the first buffers are equally long, m4 looks at *)
(* what the reference looks at as long as one refill is enough for it.     *)
LEMMA ShortenedLooked ==
  ASSUME NEW z \in Sizes, Shortened(z), NEW s, NEW len, Buffer(z, "m4", s, len),
         s + Advance("m4", len) <= (z.first["m4"] + 1) * z.block["m4"],
         NEW p, Groups(z, p), p <= len, NEW m \in Nat, m < s + p
  PROVE  m \in Looked(z, "m4") <=> m \in Looked(z, "ref")
<1> DEFINE f == FirstLength(z, "m4")  b == z.block["m4"]  B == z.block["ref"]
<1>0. "m4" \in Impls /\ "ref" \in Impls
  BY DEF Impls
<1>1. /\ FirstLength(z, "ref") = f /\ Advance("m4", f) = f /\ Advance("ref", f) = f
      /\ b <= B /\ Advance("ref", B) = B
  BY DEF Shortened, FirstLength, Advance
<1>2. /\ f \in Nat /\ b \in Nat \ {0} /\ B \in Nat /\ f > 0
      /\ Advance("m4", b) \in Nat /\ b <= Advance("m4", b)
  BY <1>0, AdvanceFacts
<1>3. (z.first["m4"] + 1) * b = f + b
  <2>1. z.first["m4"] \in Nat
    BY <1>0, SizeFacts
  <2>2. QED
    BY <1>2, <2>1 DEF FirstLength
<1>4. s \in Nat /\ len \in Nat /\ p \in Nat
  BY <1>0, BufferFacts, GroupsSum
<1>5. Buffer(z, "m4", 0, f) /\ Buffer(z, "ref", 0, f)
  BY <1>1 DEF Buffer
<1>6. CASE m < f
  <2>1. 0 <= m /\ m < 0 + Advance("m4", f) /\ m < 0 + Advance("ref", f)
    BY <1>1, <1>2, <1>6
  <2> HIDE DEF f
  <2>2. m \in Looked(z, "m4") <=> InBuffer(z, 0, f, m)
    BY <1>0, <1>5, <2>1, LookedHere
  <2>3. m \in Looked(z, "ref") <=> InBuffer(z, 0, f, m)
    BY <1>0, <1>5, <2>1, LookedHere
  <2>4. QED
    BY <2>2, <2>3
<1>7. CASE f <= m
  <2>1. s = f /\ len = b
    <3>1. CASE s = 0 /\ len = f
      <4> HIDE DEF f
      <4>1. QED
        BY <1>2, <1>4, <1>7, <3>1
    <3>2. CASE len = b /\ \E r \in Nat : s = f + r * Advance("m4", b)
      <4> DEFINE A == Advance("m4", b)
      <4>1. PICK r \in Nat : s = f + r * A
        BY <3>2
      <4>2. f + r * A + A <= f + b
        BY <1>3, <3>2, <4>1
      <4>3. A \in Nat /\ b <= A
        BY <1>2
      <4> HIDE DEF A, f, b
      <4>4. ASSUME r # 0 PROVE FALSE
        <5>1. 1 * A <= r * A /\ 1 * A = A /\ r * A \in Nat
          BY <4>3, <4>4, Monotone, ProductNat
        <5>2. QED
          BY <1>2, <4>2, <4>3, <5>1
      <4>5. 0 * A = 0
        BY <4>3
      <4>6. QED
        BY <1>2, <3>2, <4>1, <4>4, <4>5
    <3>3. QED
      BY <1>1, <3>1, <3>2 DEF Buffer
  <2>2. Buffer(z, "m4", f, b)
    BY <2>1
  <2>3. Buffer(z, "ref", f, B)
    BY <1>0, <1>1, <1>5, BufferFacts
  <2> HIDE DEF f, b, B
  <2>4. f <= m /\ m < f + Advance("m4", b) /\ m < f + Advance("ref", B)
    BY <1>1, <1>2, <1>4, <1>7, <2>1
  <2>5. m \in Looked(z, "m4") <=> InBuffer(z, f, b, m)
    BY <1>0, <2>2, <2>4, LookedHere
  <2>6. m \in Looked(z, "ref") <=> InBuffer(z, f, B, m)
    BY <1>0, <2>3, <2>4, LookedHere
  <2>7. ASSUME NEW q \in Nat, Groups(z, q), f + q <= m
        PROVE  q + z.group <= b /\ q + z.group <= B
    <3>1. q < p
      BY <1>2, <1>4, <2>1, <2>7
    <3>2. q + z.group <= p
      BY <2>7, <3>1, GroupsSum
    <3>3. z.group \in Nat
      BY <1>0, SizeFacts
    <3>4. QED
      BY <1>1, <1>2, <1>4, <2>1, <3>2, <3>3
  <2>8. InBuffer(z, f, b, m) <=> InBuffer(z, f, B, m)
    BY <2>7 DEF InBuffer
  <2>9. QED
    BY <2>5, <2>6, <2>8
<1>8. QED
  BY <1>2, <1>6, <1>7

(* Where blocks are whole groups, coefficient k is the accepted candidate  *)
(* number k of the stream, in the reference and in m4.                     *)
THEOREM EachInOrder == Spec => []FirstAccepted
<1>1. ASSUME Pinned, Whole(size), NEW i \in Impls, NEW k \in 1 .. Len(Taken(i))
      PROVE  Candidate(Taken(i)[k]) /\ Accepted(Taken(i)[k]) /\ Rank(Taken(i)[k]) = k - 1
  <2> DEFINE x == Taken(i)[k]  C == Looked(size, i)
  <2>1. Aligned(i) /\ TypeOK /\ size \in Sizes
    BY <1>1 DEF Pinned, Shapes, TypeOK
  <2>2. x \in C /\ AcceptedIn(good, x) /\ RankOf(C, good, x) = k - 1
    BY <2>1 DEF Aligned, InOrder
  <2>3. x \in Nat
    BY <2>2 DEF Looked
  <2>4. \A m \in Nat : m \in C <=> Candidate(m)
    BY <1>1, <2>1, WholeLooked DEF Candidate
  <2> HIDE DEF x, C
  <2>5. \A m : AcceptedIn(good, m) <=> Accepted(m)
    BY DEF AcceptedIn, Accepted
  <2>6. Before(C, good, x) = {d \in 0 .. x - 1 : Candidate(d) /\ Accepted(d)}
    <3>1. \A d \in 0 .. x - 1 : d \in Nat
      BY <2>3
    <3>2. QED
      BY <2>4, <2>5, <3>1 DEF Before
  <2>7. Rank(x) = RankOf(C, good, x)
    BY <2>6 DEF Rank, RankOf
  <2>8. QED
    BY <2>2, <2>3, <2>4, <2>5, <2>7 DEF x
<1>2. Pinned => FirstAccepted
  BY <1>1 DEF FirstAccepted
<1>3. QED
  BY <1>2, PinnedInit, PinnedNext, PTL DEF Spec

(* The reference and m4 sample the same polynomial from every stream: for  *)
(* blocks of whole groups however many refills each of them needs, for     *)
(* others as long as m4 needs one at most.                                 *)
THEOREM Agreement == Spec => []SameMatrix
<1>1. ASSUME Pinned, \A i \in Impls : pc[i] = "done",
             Whole(size) \/ xof["m4"] <= (size.first["m4"] + 1) * size.block["m4"]
      PROVE  poly["ref"] = poly["m4"]
  <2> DEFINE r == poly["ref"]  s == poly["m4"]  h == base["m4"] + pos["m4"]
             C == Looked(size, "m4")  D == Looked(size, "ref")
  <2>0. "m4" \in Impls /\ "ref" \in Impls /\ TypeOK /\ size \in Sizes
    BY <1>1 DEF Impls, Pinned, Shapes, TypeOK
  <2>1. ASSUME NEW i \in Impls
        PROVE  /\ Len(poly[i]) = N /\ poly[i] \in Seq(Nat)
               /\ InOrder(Looked(size, i), good, poly[i], base[i] + pos[i])
    <3>1. Aligned(i) /\ Shape(i) /\ pc[i] = "done" /\ TypeOK
      BY <1>1 DEF Pinned, Shapes
    <3>2. poly[i] \in Seq(Nat) /\ c[i] = <<>> /\ Len(poly[i]) <= N /\ Len(poly[i]) >= N
      BY <3>1 DEF Shape, TypeOK, Full
    <3>3. Len(poly[i]) \in Nat /\ N \in Nat
      BY <3>2, LenProperties, SizeAssumption DEF SizeAssumption
    <3>4. Taken(i) = poly[i]
      BY <3>2, ConcatEmptySeq DEF Taken
    <3>5. Here(i) = base[i] + pos[i]
      <4>1. Here(i) = base[i] + pos[i] + 0
        BY <3>1 DEF Here
      <4>2. base[i] \in Nat /\ pos[i] \in Nat
        BY <3>1 DEF TypeOK
      <4>3. QED
        BY <4>1, <4>2
    <3>6. QED
      BY <3>1, <3>2, <3>3, <3>4, <3>5 DEF Aligned
  <2>2. /\ r \in Seq(Nat) /\ s \in Seq(Nat) /\ Len(r) = N /\ Len(s) = N
        /\ InOrder(D, good, r, base["ref"] + pos["ref"]) /\ InOrder(C, good, s, h)
    BY <2>0, <2>1
  <2>3. ASSUME NEW m \in Nat, m < h PROVE m \in C <=> m \in D
    <3>1. CASE Whole(size)
      BY <2>0, <3>1, WholeLooked
    <3>2. CASE ~Whole(size)
      <4>1. Shortened(size) /\ xof["m4"] <= (size.first["m4"] + 1) * size.block["m4"]
        BY <1>1, <2>0, <3>2, LayoutAssumption DEF LayoutAssumption
      <4>2. /\ Buffer(size, "m4", base["m4"], buflen["m4"]) /\ Groups(size, pos["m4"])
            /\ xof["m4"] = base["m4"] + Advance("m4", buflen["m4"])
            /\ pos["m4"] <= buflen["m4"]
        <5>1. pc["m4"] = "done" /\ Aligned("m4") /\ Shape("m4")
          BY <1>1, <2>0 DEF Pinned, Shapes
        <5>2. QED
          BY <5>1 DEF Aligned, Shape
      <4>3. QED
        BY <2>0, <2>3, <4>1, <4>2, ShortenedLooked
    <3>3. QED
      BY <3>1, <3>2
  <2> HIDE DEF r, s, h, C, D
  <2>4. ASSUME NEW k \in 1 .. Len(r) PROVE r[k] = s[k]
    <3> DEFINE x == r[k]  y == s[k]
    <3>1. x \in Nat /\ y \in Nat
      BY <2>2, <2>4, ElementOfSeq
    <3>2. /\ x \in D /\ AcceptedIn(good, x) /\ RankOf(D, good, x) = k - 1
          /\ y \in C /\ AcceptedIn(good, y) /\ RankOf(C, good, y) = k - 1 /\ y < h
      BY <2>2, <2>4 DEF InOrder
    <3> HIDE DEF x, y
    <3>3. h \in Nat
      <4>1. base["m4"] \in Nat /\ pos["m4"] \in Nat
        BY <2>0 DEF TypeOK, Impls
      <4>2. QED
        BY <4>1 DEF h
    <3>4. RankOf(C, good, y) = RankOf(D, good, y)
      <4>1. \A d \in 0 .. y - 1 : d \in Nat /\ d < h
        BY <3>1, <3>2, <3>3
      <4>2. \A d \in 0 .. y - 1 : d \in C <=> d \in D
        BY <2>3, <4>1
      <4>3. QED
        BY <3>1, <4>2, RankBelow
    <3>5. y \in D
      BY <2>3, <3>1, <3>2
    <3>6. x = y
      BY <3>1, <3>2, <3>4, <3>5, RankInjective
    <3>7. QED
      BY <3>6 DEF x, y
  <2>5. QED
    BY <2>2, <2>4, SeqEqual DEF r, s
<1>2. Pinned => SameMatrix
  BY <1>1 DEF SameMatrix
<1>3. QED
  BY <1>2, PinnedInit, PinnedNext, PTL DEF Spec

-----------------------------------------------------------------------------
(* Sampling ends because every step brings its implementation nearer, in   *)
(* the lexicographic order of three naturals: the phases to come; the      *)
(* bytes before Undecided and the coefficients missing, less those that    *)
(* the group begun will take away; the steps to the next group.            *)
Spot(i) == base[i] + pos[i]
Stock(i) == Len(poly[i]) + Len(c[i])
Ahead(n) == IF n < Undecided THEN Undecided - n ELSE 0

(* The first candidate of the group will be stored. *)
Certain(i) == lane[i] = 0 /\ Spot(i) >= Undecided /\ ~Full(i)

Phase(i) == IF pc[i] = "start" THEN 2 ELSE IF pc[i] = "done" THEN 0 ELSE 1

Todo(i) ==
  IF pc[i] = "test" THEN Ahead(Spot(i) + size.group) + (N - Stock(i)) - (IF Certain(i) THEN 1 ELSE 0)
  ELSE Ahead(Spot(i)) + (N - Stock(i))

Turn(i) ==
  IF pc[i] = "test" THEN size.per - lane[i] + 2
  ELSE IF Fits(i) THEN 0 ELSE 1

Progress(i) ==
  \/ Phase(i)' < Phase(i)
  \/ Phase(i)' = Phase(i) /\ Todo(i)' < Todo(i)
  \/ Phase(i)' = Phase(i) /\ Todo(i)' = Todo(i) /\ Turn(i)' < Turn(i)

Still(j) == Phase(j)' = Phase(j) /\ Todo(j)' = Todo(j) /\ Turn(j)' = Turn(j)

OneProgresses == \E i \in Impls : Progress(i) /\ \A j \in Impls \ {i} : Still(j)

SamplingShrinks ==
  /\ [](\A i \in Impls : Phase(i) \in Nat /\ Todo(i) \in Nat /\ Turn(i) \in Nat)
  /\ [][OneProgresses]_vars

(* What the measures are made of. *)
LEMMA Measured ==
  ASSUME NEW i \in Impls, Shapes, InBounds
  PROVE  /\ Spot(i) \in Nat /\ Stock(i) \in Nat /\ Stock(i) <= N /\ N \in Nat /\ Undecided \in Nat
         /\ size.group \in Nat \ {0} /\ size.per \in Nat \ {0}
         /\ lane[i] \in Nat /\ lane[i] < size.per
         /\ ~Full(i) => Stock(i) < N
<1>1. TypeOK /\ Shape(i) /\ size \in Sizes
  BY DEF Shapes, TypeOK
<1>2. N \in Nat /\ Undecided \in Nat /\ Gather \in Nat
  BY SizeAssumption DEF SizeAssumption
<1>3. size.group \in Nat \ {0} /\ size.per \in Nat \ {0}
  BY <1>1, SizeFacts
<1>4. /\ base[i] \in Nat /\ pos[i] \in Nat /\ lane[i] \in Nat /\ lane[i] < size.per
      /\ poly[i] \in Seq(Nat) /\ c[i] \in Seq(Nat) /\ Len(c[i]) < Gather
  BY <1>1 DEF TypeOK
<1>5. Spot(i) \in Nat
  BY <1>4 DEF Spot
<1>6. Len(poly[i]) \in Nat /\ Len(c[i]) \in Nat
  BY <1>4, LenProperties
<1>7. Stock(i) \in Nat /\ Stock(i) <= N
  <2> DEFINE p == Len(poly[i])  g == Len(c[i])
  <2>1. p \in Nat /\ g \in Nat /\ p + g <= N /\ Stock(i) = p + g
    BY <1>6 DEF InBounds, Stock
  <2> HIDE DEF p, g
  <2>2. QED
    BY <2>1
<1>8. ASSUME ~Full(i) PROVE Stock(i) < N
  <2> DEFINE p == Len(poly[i])  g == Len(c[i])
  <2>1. p \in Nat /\ g \in Nat /\ p < N /\ (Stream(i) => p + Gather <= N) /\ g < Gather
    BY <1>4, <1>8, Room
  <2>2. Stream(i) \/ g = 0
    <3>1. ~Stream(i) => c[i] = <<>>
      BY <1>1 DEF Shape
    <3>2. QED
      BY <3>1
  <2>3. p + g < N
    <3> HIDE DEF p, g
    <3>1. QED
      BY <1>2, <2>1, <2>2
  <2>4. QED
    BY <2>3 DEF Stock
<1>9. QED
  BY <1>2, <1>3, <1>4, <1>5, <1>7, <1>8

LEMMA AheadFalls ==
  ASSUME NEW n \in Nat, NEW k \in Nat
  PROVE  /\ Ahead(n) \in Nat /\ Ahead(n + k) <= Ahead(n)
         /\ n < Undecided /\ k # 0 => Ahead(n + k) < Ahead(n)
         /\ n >= Undecided => Ahead(n) = 0 /\ Ahead(n + k) = 0
<1>1. Undecided \in Nat
  BY SizeAssumption DEF SizeAssumption
<1>2. QED
  BY <1>1 DEF Ahead

LEMMA MeasuresNat ==
  ASSUME NEW i \in Impls, Shapes, InBounds
  PROVE  Phase(i) \in Nat /\ Todo(i) \in Nat /\ Turn(i) \in Nat
<1> DEFINE s == Spot(i)  k == Stock(i)
<1>1. /\ s \in Nat /\ k \in Nat /\ k <= N /\ N \in Nat /\ (~Full(i) => k < N)
      /\ size.group \in Nat /\ size.per \in Nat /\ lane[i] \in Nat /\ lane[i] < size.per
  BY Measured
<1>2. Ahead(s) \in Nat /\ Ahead(s + size.group) \in Nat
  BY <1>1, AheadFalls
<1>3. Todo(i) \in Nat
  <2> DEFINE a == Ahead(s)  b == Ahead(s + size.group)
  <2>1. Todo(i) = IF pc[i] = "test" THEN b + (N - k) - (IF Certain(i) THEN 1 ELSE 0) ELSE a + (N - k)
    BY DEF Todo
  <2>2. Certain(i) => k < N
    BY <1>1 DEF Certain
  <2>3. a \in Nat /\ b \in Nat
    BY <1>2
  <2> HIDE DEF a, b, k
  <2>4. QED
    BY <1>1, <2>1, <2>2, <2>3
<1>4. Turn(i) \in Nat
  BY <1>1 DEF Turn
<1>5. QED
  BY <1>3, <1>4 DEF Phase

(* An implementation that does not move is where it was. *)
LEMMA StillFrame ==
  ASSUME NEW j \in Impls, Same(j), size' = size
  PROVE  Still(j)
<1>1. Spot(j)' = Spot(j) /\ Stock(j)' = Stock(j) /\ (Full(j)' <=> Full(j)) /\ (Fits(j)' <=> Fits(j))
  BY DEF Same, Spot, Stock, Full, Fits
<1>2. Certain(j)' <=> Certain(j)
  BY <1>1 DEF Certain, Same
<1>3. Todo(j)' = Todo(j)
  BY <1>1, <1>2 DEF Todo, Ahead, Same
<1>4. QED
  BY <1>1, <1>3 DEF Still, Phase, Turn, Same

LEMMA RefillProgress ==
  ASSUME NEW i \in Impls, Shapes, InBounds, Refill(i)
  PROVE  Progress(i)
<1>1. TypeOK /\ Shape(i) /\ size \in Sizes
  BY DEF Shapes, TypeOK
<1>2. /\ Squeeze(i, 1) /\ UNCHANGED <<size, good, pc, lane, c, poly>> /\ pc[i] = "loop" /\ ~Fits(i)
  BY DEF Refill
<1>3. base'[i] = xof[i] /\ buflen'[i] = 1 * size.block[i] /\ pos'[i] = 0
  BY <1>1, <1>2, SqueezeEffect
<1>4. /\ base[i] \in Nat /\ pos[i] \in Nat /\ buflen[i] \in Nat /\ xof[i] \in Nat
      /\ pos[i] <= buflen[i] /\ base[i] + buflen[i] <= xof[i]
  BY <1>1 DEF TypeOK, Shape
<1>5. \E d \in Nat : Spot(i)' = Spot(i) + d
  <2>1. Spot(i)' = xof[i] + 0 /\ Spot(i) = base[i] + pos[i]
    BY <1>3 DEF Spot
  <2>2. xof[i] - (base[i] + pos[i]) \in Nat
    BY <1>4
  <2>3. Spot(i)' = Spot(i) + (xof[i] - (base[i] + pos[i]))
    BY <1>4, <2>1
  <2>4. QED
    BY <2>2, <2>3
<1>6. Ahead(Spot(i)') <= Ahead(Spot(i)) /\ Ahead(Spot(i)) \in Nat /\ Ahead(Spot(i)') \in Nat
  <2>1. PICK d \in Nat : Spot(i)' = Spot(i) + d
    BY <1>5
  <2>2. Spot(i) \in Nat /\ Spot(i) + d \in Nat
    BY Measured
  <2>3. Ahead(Spot(i) + d) <= Ahead(Spot(i)) /\ Ahead(Spot(i)) \in Nat /\ Ahead(Spot(i) + d) \in Nat
    BY <2>2, AheadFalls
  <2>4. QED
    BY <2>1, <2>3
<1>7. Fits(i)'
  <2>1. size.block[i] \in Nat /\ size.group \in Nat /\ size.group <= size.block[i]
    BY <1>1, SizeFacts
  <2>2. QED
    BY <1>2, <1>3, <2>1 DEF Fits
<1>8. Todo(i) = Ahead(Spot(i)) + (N - Stock(i)) /\ Todo(i)' = Ahead(Spot(i)') + (N - Stock(i))
  BY <1>2 DEF Todo, Stock, Ahead
<1>9. Todo(i)' <= Todo(i) /\ Todo(i) \in Int /\ Todo(i)' \in Int
  <2>1. N \in Nat /\ Stock(i) \in Nat
    BY Measured
  <2>2. QED
    BY <1>6, <1>8, <2>1
<1>10. Phase(i)' = Phase(i) /\ Turn(i)' = 0 /\ Turn(i) = 1
  BY <1>2, <1>7 DEF Phase, Turn
<1>11. QED
  BY <1>9, <1>10 DEF Progress

LEMMA NextGroupProgress ==
  ASSUME NEW i \in Impls, Shapes, InBounds, NextGroup(i)
  PROVE  Progress(i)
<1>1. TypeOK
  BY DEF Shapes
<1>2. /\ pc[i] = "loop" /\ ~Full(i) /\ pc'[i] = "test" /\ lane'[i] = 0
      /\ UNCHANGED <<size, buffer, pos, c, poly>>
  BY <1>1 DEF NextGroup, TypeOK
<1>3. Spot(i)' = Spot(i) /\ Stock(i)' = Stock(i) /\ ~Full(i)'
  BY <1>2 DEF Spot, Stock, Full, buffer
<1>4. Certain(i)' <=> Spot(i) >= Undecided
  BY <1>2, <1>3 DEF Certain
<1> DEFINE a == Ahead(Spot(i))  b == Ahead(Spot(i) + size.group)  r == N - Stock(i)
<1>5. /\ a \in Nat /\ b \in Nat /\ r \in Nat
      /\ Spot(i) < Undecided => b < a
      /\ Spot(i) >= Undecided => a = 0 /\ b = 0
      /\ Spot(i) \in Nat /\ Undecided \in Nat
  <2>1. /\ Spot(i) \in Nat /\ Stock(i) \in Nat /\ Stock(i) <= N /\ N \in Nat /\ Undecided \in Nat
        /\ size.group \in Nat /\ size.group # 0
    BY Measured
  <2>2. r \in Nat
    BY <2>1
  <2>3. Spot(i) + size.group \in Nat
    BY <2>1
  <2>4. QED
    BY <2>1, <2>2, <2>3, AheadFalls
<1>6. Todo(i) = a + r
  BY <1>2 DEF Todo
<1>7. Todo(i)' = b + r - (IF Spot(i) >= Undecided THEN 1 ELSE 0)
  BY <1>2, <1>3, <1>4 DEF Todo, Ahead
<1>8. Todo(i)' < Todo(i)
  <2> HIDE DEF a, b, r
  <2>1. CASE Spot(i) < Undecided
    BY <1>5, <1>6, <1>7, <2>1
  <2>2. CASE Spot(i) >= Undecided
    BY <1>5, <1>6, <1>7, <2>2
  <2>3. QED
    BY <1>5, <2>1, <2>2
<1>9. Phase(i)' = Phase(i)
  BY <1>2 DEF Phase
<1>10. QED
  BY <1>8, <1>9 DEF Progress

(* A candidate adds at most one coefficient, and the first of a group that *)
(* starts at Undecided or later adds one.                                  *)
LEMMA StockStep ==
  ASSUME NEW i \in Impls, Shapes, InBounds, Test(i)
  PROVE  Stock(i)' \in Nat /\ Stock(i)' >= Stock(i) /\ (Certain(i) => Stock(i)' = Stock(i) + 1)
<1> DEFINE m == base[i] + pos[i] + lane[i]
<1>1. TypeOK
  BY DEF Shapes
<1>2. IF Accepted(m) /\ ~Full(i) THEN Store(i, m) ELSE UNCHANGED <<c, poly>>
  BY DEF Test
<1>3. /\ m \in Nat /\ poly[i] \in Seq(Nat) /\ c[i] \in Seq(Nat)
      /\ Len(poly[i]) \in Nat /\ Len(c[i]) \in Nat
  BY <1>1, LenProperties DEF TypeOK
<1>4. Certain(i) => Accepted(m) /\ ~Full(i)
  <2>1. base[i] \in Nat /\ pos[i] \in Nat
    BY <1>1 DEF TypeOK
  <2>2. QED
    BY <2>1 DEF Certain, Accepted, Spot
<1>5. CASE Accepted(m) /\ ~Full(i)
  <2>1. /\ poly'[i] \o c'[i] = (poly[i] \o c[i]) \o <<m>>
        /\ poly'[i] \in Seq(Nat) /\ c'[i] \in Seq(Nat)
    BY <1>2, <1>3, <1>5, StoreEffect
  <2>2. Len(poly'[i] \o c'[i]) = Len(poly'[i]) + Len(c'[i])
    BY <2>1, ConcatProperties
  <2>3. Len((poly[i] \o c[i]) \o <<m>>) = Len(poly[i]) + Len(c[i]) + 1
    <3> DEFINE t == poly[i] \o c[i]
    <3>1. t \in Seq(Nat) /\ Len(t) = Len(poly[i]) + Len(c[i])
      BY <1>3, ConcatProperties
    <3> HIDE DEF t, m
    <3>2. Len(t \o <<m>>) = Len(t) + 1
      BY <1>3, <3>1, AppendedAtEnd
    <3>3. QED
      BY <3>1, <3>2 DEF t
  <2>4. Stock(i)' = Stock(i) + 1
    BY <2>1, <2>2, <2>3 DEF Stock
  <2>5. Stock(i) \in Nat
    BY Measured
  <2>6. QED
    BY <2>4, <2>5
<1>6. CASE ~(Accepted(m) /\ ~Full(i))
  <2>1. Stock(i)' = Stock(i)
    BY <1>2, <1>6 DEF Stock
  <2>2. Stock(i) \in Nat
    BY Measured
  <2>3. QED
    BY <1>4, <1>6, <2>1, <2>2
<1>7. QED
  BY <1>5, <1>6

LEMMA TestProgress ==
  ASSUME NEW i \in Impls, Shapes, InBounds, Test(i)
  PROVE  Progress(i)
<1>1. TypeOK
  BY DEF Shapes
<1>2. pc[i] = "test" /\ NextLane(i) /\ size' = size /\ base' = base
  BY DEF Test, buffer
<1>3. \/ lane'[i] = lane[i] + 1 /\ pc'[i] = "test" /\ pos'[i] = pos[i]
      \/ pc'[i] = "loop" /\ pos'[i] = pos[i] + size.group
  BY <1>1, <1>2, LaneEffect
<1>4. /\ Spot(i) \in Nat /\ Stock(i) \in Nat /\ N \in Nat /\ size.group \in Nat
      /\ size.per \in Nat /\ lane[i] \in Nat /\ lane[i] < size.per
  BY Measured
<1>5. Stock(i)' \in Nat /\ Stock(i)' >= Stock(i) /\ (Certain(i) => Stock(i)' = Stock(i) + 1)
  BY StockStep
<1> DEFINE b == Ahead(Spot(i) + size.group)
           k == Stock(i)
           l == Stock(i)'
<1>6. b \in Nat
  <2>1. Spot(i) + size.group \in Nat
    BY <1>4
  <2>2. QED
    BY <2>1, AheadFalls
<1>7. Todo(i) = b + (N - k) - (IF Certain(i) THEN 1 ELSE 0)
  BY <1>2 DEF Todo
<1>8. Todo(i)' = b + (N - l)
  <2>1. CASE lane'[i] = lane[i] + 1 /\ pc'[i] = "test" /\ pos'[i] = pos[i]
    <3>1. Spot(i)' = Spot(i) /\ size'.group = size.group
      BY <1>2, <2>1 DEF Spot
    <3>2. ~Certain(i)'
      BY <1>4, <2>1 DEF Certain
    <3>3. Todo(i)' = Ahead(Spot(i)' + size'.group) + (N - Stock(i)') - 0
      BY <2>1, <3>2 DEF Todo, Ahead
    <3>4. Todo(i)' = b + (N - l) - 0
      BY <3>1, <3>3
    <3> HIDE DEF b, l
    <3>5. QED
      BY <1>4, <1>5, <1>6, <3>4 DEF l
  <2>2. CASE pc'[i] = "loop" /\ pos'[i] = pos[i] + size.group
    <3>1. Spot(i)' = Spot(i) + size.group
      <4>1. base[i] \in Nat /\ pos[i] \in Nat
        BY <1>1 DEF TypeOK
      <4>2. QED
        BY <1>2, <1>4, <2>2, <4>1 DEF Spot
    <3>2. QED
      BY <2>2, <3>1 DEF Todo, Ahead
  <2>3. QED
    BY <1>3, <2>1, <2>2
<1>9. Todo(i)' <= Todo(i) /\ Todo(i)' \in Int /\ Todo(i) \in Int
  <2> HIDE DEF b, k, l
  <2>1. k \in Nat /\ l \in Nat /\ l >= k /\ (Certain(i) => l = k + 1)
    BY <1>4, <1>5 DEF k, l
  <2>2. QED
    BY <1>4, <1>6, <1>7, <1>8, <2>1
<1>10. Turn(i) = size.per - lane[i] + 2 /\ Phase(i) = 1 /\ Phase(i)' = 1
  BY <1>2, <1>3 DEF Turn, Phase
<1>11. Turn(i)' < Turn(i)
  <2>1. CASE lane'[i] = lane[i] + 1 /\ pc'[i] = "test"
    <3>1. Turn(i)' = size.per - (lane[i] + 1) + 2
      BY <1>2, <2>1 DEF Turn
    <3>2. QED
      BY <1>4, <1>10, <3>1
  <2>2. CASE pc'[i] = "loop"
    <3>1. Turn(i)' = 0 \/ Turn(i)' = 1
      BY <2>2 DEF Turn
    <3>2. QED
      BY <1>4, <1>10, <3>1
  <2>3. QED
    BY <1>3, <2>1, <2>2
<1>12. QED
  BY <1>9, <1>10, <1>11 DEF Progress

(* With candidates below q for certain from some byte of the stream on,    *)
(* rej_uniform and matacc take finitely many steps, whatever the sizes of  *)
(* blocks and groups and whatever a block drops at its end.                *)
THEOREM SamplingEnds == Spec => SamplingShrinks
<1>1. ASSUME Shapes, InBounds, NEW i \in Impls,
             Start(i) \/ Refill(i) \/ NextGroup(i) \/ Test(i) \/ Finish(i)
      PROVE  Progress(i) /\ \A j \in Impls \ {i} : Still(j)
  <2>1. size' = size /\ \A j \in Impls \ {i} : Same(j)
    BY <1>1, ShapesStart, ShapesRefill, ShapesNextGroup, ShapesTest, ShapesFinish
  <2>2. \A j \in Impls \ {i} : Still(j)
    BY <2>1, StillFrame
  <2>3. TypeOK
    BY <1>1 DEF Shapes
  <2>4. CASE Start(i) \/ Finish(i)
    <3>1. \/ pc[i] = "start" /\ pc'[i] = "loop"
          \/ pc[i] = "loop" /\ pc'[i] = "done"
      BY <2>3, <2>4 DEF Start, Finish, TypeOK
    <3>2. Phase(i)' < Phase(i)
      BY <3>1 DEF Phase
    <3>3. QED
      BY <2>2, <3>2 DEF Progress
  <2>5. QED
    BY <1>1, <2>2, <2>4, RefillProgress, NextGroupProgress, TestProgress
<1>2. Shapes /\ InBounds /\ [Next]_vars => [OneProgresses]_vars
  BY <1>1 DEF Next, OneProgresses
<1>3. Shapes /\ InBounds => \A i \in Impls : Phase(i) \in Nat /\ Todo(i) \in Nat /\ Turn(i) \in Nat
  BY MeasuresNat
<1>4. QED
  BY <1>2, <1>3, Bounds, ShapesInit, ShapesNext, PTL DEF Spec, SamplingShrinks
=============================================================================
