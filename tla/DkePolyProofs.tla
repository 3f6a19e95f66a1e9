--------------------------- MODULE DkePolyProofs ---------------------------
(***************************************************************************)
(* The sums of the polynomial arithmetic fit in 16 bits, whatever the      *)
(* coefficients, roots and errors, for every modulus and every number of   *)
(* layers and products that SumsFit allows.  Then, where QInv is the       *)
(* inverse of Q and the constant of the Barrett reduction is accurate      *)
(* enough, the coefficient is the exact one modulo Q, and the standard     *)
(* representative where it is packed or compared.                          *)
(***************************************************************************)
EXTENDS DkePoly, TLAPS

(* Between two reductions a transform adds less than Q per layer, and a    *)
(* sum of products less than 2 Q per product.  DKE-256 has room for it;    *)
(* for DKE-512, 2 K Q is 61448.                                            *)
SumsFit ==
  /\ 4 <= Q /\ Q <= 10922
  /\ Largest + Layers * Q <= 32767
  /\ 2 * K * Q <= 32767

Within(x, b) == x \in Int /\ -b <= x /\ x <= b

-----------------------------------------------------------------------------
(* What PolyAssumption says of the constants, and that table entries,      *)
(* errors and neighbours are within their bounds.                          *)
LEMMA Constants ==
  /\ Q \in Nat /\ Q >= 1 /\ QInv \in Int /\ K \in Nat /\ K >= 1 /\ Layers \in Nat /\ Layers >= 1
  /\ Largest \in Nat /\ Half \in Nat /\ 2 * Half <= Q /\ Q <= 2 * Half + 1 /\ Within(Scale, Half)
<1>1. Q \in Nat /\ Q >= 1 /\ QInv \in Int /\ K \in Nat /\ K >= 1 /\ Layers \in Nat /\ Layers >= 1 /\ Largest \in Nat
  BY PolyAssumption DEF PolyAssumption
<1>2. Half \in Nat /\ 2 * Half <= Q /\ Q <= 2 * Half + 1
  BY <1>1 DEF Half
<1>3. Scale \in -Half .. Half
  BY PolyAssumption DEF PolyAssumption
<1> QED BY <1>1, <1>2, <1>3 DEF Within

LEMMA RootsSmall == ASSUME NEW z \in Zetas PROVE Within(z, Half)
<1>1. z \in -Half .. Half
  BY PolyAssumption DEF PolyAssumption
<1> QED BY <1>1, Constants DEF Within

LEMMA NoiseSmall == ASSUME NEW e \in Noise PROVE Within(e, Half)
<1>1. e \in -Half .. Half
  BY PolyAssumption DEF PolyAssumption
<1> QED BY <1>1, Constants DEF Within

LEMMA LeftSmall == ASSUME NEW a \in Left PROVE Within(a, 32767)
<1>1. a \in Nat /\ a <= 32767
  BY PolyAssumption DEF PolyAssumption
<1> QED BY <1>1, Constants DEF Within

LEMMA NearSmall == ASSUME NEW w \in Nat, NEW p \in Near(w) PROVE Within(p, w)
<1>1. p \in -w .. w
  BY DEF Near
<1>2. -w \in Int
  OBVIOUS
<1>3. p \in Int /\ -w <= p /\ p <= w
  BY <1>1, <1>2
<1> QED BY <1>3 DEF Within

-----------------------------------------------------------------------------
(* The conversion to int16_t. *)
LEMMA SignedRange ==
  ASSUME NEW x \in Int
  PROVE  Signed16(x) \in Int /\ -32768 <= Signed16(x) /\ Signed16(x) <= 32767
BY DEF Signed16

LEMMA SignedSame ==
  ASSUME NEW x \in Int, -32768 <= x, x <= 32767
  PROVE  Signed16(x) = x
BY DEF Signed16

LEMMA SignedFits ==
  ASSUME NEW x \in Int, -32768 <= x, x <= 32767
  PROVE  Fits16(x)
BY SignedSame DEF Fits16

LEMMA SignedDifference ==
  ASSUME NEW x \in Int, NEW y \in Int
  PROVE  Signed16(x - Signed16(y)) = Signed16(x - y)
BY DEF Signed16

(* Bounds on products. *)
LEMMA ProductBound ==
  ASSUME NEW x, NEW y, NEW m \in Nat, NEW w \in Nat, Within(x, m), Within(y, w)
  PROVE  Within(x * y, m * w)
<1>1. x \in Int /\ y \in Int /\ -m <= x /\ x <= m /\ -w <= y /\ y <= w
  BY DEF Within
<1>2. (m - x) * (w - y) >= 0 /\ (m + x) * (w + y) >= 0 /\ (m - x) * (w + y) >= 0 /\ (m + x) * (w - y) >= 0
  BY <1>1
<1>3. (m - x) * (w - y) + (m + x) * (w + y) = 2 * (m * w) + 2 * (x * y)
  BY <1>1
<1>4. (m - x) * (w + y) + (m + x) * (w - y) = 2 * (m * w) - 2 * (x * y)
  BY <1>1
<1>5. x * y \in Int /\ m * w \in Int
  BY <1>1
<1> QED BY <1>2, <1>3, <1>4, <1>5 DEF Within

(* A Montgomery reduction divides by 2^16, after adding at most 2^15 Q.    *)
LEMMA MontgomeryBound ==
  ASSUME NEW x, NEW b \in Nat, Within(x, b), 4 <= Q, Q <= 10922, b <= 16384 * Q
  PROVE  Within(MontgomeryReduce(x), Q)
<1> DEFINE t == Signed16(Signed16(x) * QInv)
           c == x - t * Q
           d == c \div 65536
<1>1. x \in Int /\ -b <= x /\ x <= b
  BY DEF Within
<1>2. t \in Int /\ -32768 <= t /\ t <= 32767
  BY <1>1, SignedRange, Constants
<1>3. Within(t, 32768) /\ Within(Q, Q)
  BY <1>2, Constants DEF Within
<1>4. Within(t * Q, 32768 * Q)
  BY <1>3, ProductBound, Constants
<1>5. c \in Int /\ -(49152 * Q) <= c /\ c <= 49152 * Q
  <2>1. t * Q \in Int /\ -(32768 * Q) <= t * Q /\ t * Q <= 32768 * Q
    BY <1>4 DEF Within
  <2> HIDE DEF t
  <2> QED BY <2>1, <1>1, Constants
<1>6. d \in Int /\ 65536 * d <= c /\ c < 65536 * d + 65536
  <2> HIDE DEF c
  <2> QED BY <1>5
<1>7. Within(d, Q) /\ -32768 <= d /\ d <= 32767
  <2> HIDE DEF c, d
  <2> QED BY <1>5, <1>6, Constants DEF Within
<1>8. MontgomeryReduce(x) = Signed16(d)
  BY DEF MontgomeryReduce
<1>9. Signed16(d) = d
  <2> HIDE DEF d
  <2> QED BY <1>6, <1>7, SignedSame
<1> QED BY <1>7, <1>8, <1>9

LEMMA FqmulBound ==
  ASSUME NEW x, NEW y, NEW m \in Nat, NEW w \in Nat, Within(x, m), Within(y, w),
         4 <= Q, Q <= 10922, m * w <= 16384 * Q
  PROVE  Within(Fqmul(x, y), Q)
<1>1. Within(x * y, m * w) /\ m * w \in Nat
  BY ProductBound
<1> QED BY <1>1, MontgomeryBound DEF Fqmul
LEMMA ReachBound ==
  ASSUME NEW w \in Nat, NEW m \in Nat, 4 <= Q, Q <= 10922, m * w <= 16384 * Q
  PROVE  Reach(w, m) \in Nat /\ Reach(w, m) <= Q
<1> DEFINE s == m * w + 32768 * Q
<1>1. s \in Nat /\ s <= 49152 * Q
  BY Constants
<1>2. s \div 65536 \in Nat /\ s \div 65536 + 1 <= Q
  <2> HIDE DEF s
  <2> QED BY <1>1, Constants
<1> QED BY <1>2, Constants DEF Reach

(* Products of a root with anything in 16 bits, and of three moduli.       *)
LEMMA HalfTimes16 == ASSUME NEW w \in Nat, w <= 32767 PROVE Half * w <= 16384 * Q
<1>1. Half * w <= Half * 32767
  BY Constants
<1> QED BY <1>1, Constants

LEMMA QTimesQ == ASSUME NEW m \in Nat, NEW w \in Nat, m <= Q, w <= Q, Q <= 10922 PROVE m * w <= 16384 * Q
<1>1. m * w <= Q * w
  BY Constants
<1>2. Q * w <= Q * 10922
  BY Constants
<1> QED BY <1>1, <1>2, Constants

LEMMA HalfTimesTwoQ == ASSUME NEW m \in Nat, m <= Half, Q <= 10922 PROVE m * (2 * Q) <= 16384 * Q
<1>1. m * (2 * Q) = (2 * m) * Q /\ 2 * m \in Nat /\ 2 * m <= Q
  BY Constants
<1> QED BY <1>1, QTimesQ, Constants

(* The quotient of a Barrett reduction, and the error of its constant.     *)
Quotient(x) == (BarrettV * x + 33554432) \div 67108864
Error == BarrettV * Q - 67108864

(* A Barrett reduction leaves less than Q: V Q differs from 2^26 by at     *)
(* most Half, so the quotient is wrong by little more than its rounding.   *)
LEMMA BarrettQuotient ==
  ASSUME NEW x \in Int, -32768 <= x, x <= 32767, 4 <= Q, Q <= 10922
  PROVE  /\ Quotient(x) \in Int /\ Error \in Int
         /\ 67108864 * (Quotient(x) * Q) <= 67108864 * x + Error * x + 33554432 * Q
         /\ 67108864 * x + Error * x + 33554432 * Q <= 67108864 * (Quotient(x) * Q) + 67108864 * Q
         /\ BarrettReduce(x) = x - Quotient(x) * Q
         /\ Within(BarrettReduce(x), Q)
<1> DEFINE V == BarrettV
           t == (V * x + 33554432) \div 67108864
           delta == V * Q - 67108864
<1>1. V \in Nat /\ delta \in Int /\ Within(delta, Half)
  <2>1. 67108864 + Half \in Nat
    BY Constants
  <2>2. V \in Nat /\ Q * V <= 67108864 + Half /\ 67108864 + Half < Q * V + Q
    BY <2>1, Constants DEF BarrettV
  <2>3. V * Q = Q * V
    BY <2>2, Constants
  <2> HIDE DEF V
  <2> QED BY <2>2, <2>3, Constants DEF Within
<1>2. Within(delta * x, Half * 32768)
  <2>1. Within(x, 32768)
    BY DEF Within
  <2> HIDE DEF delta
  <2> QED BY <2>1, <1>1, ProductBound, Constants
<1>3. t \in Int /\ 67108864 * t <= V * x + 33554432 /\ V * x + 33554432 < 67108864 * t + 67108864
  <2>1. V * x \in Int
    BY <1>1
  <2> HIDE DEF V
  <2> QED BY <2>1
<1>4. (V * x) * Q = 67108864 * x + delta * x
  <2>1. (V * x) * Q = (V * Q) * x
    BY <1>1, Constants
  <2>2. V * Q = 67108864 + delta /\ V * Q \in Int
    BY <1>1, Constants
  <2> HIDE DEF V, delta
  <2> QED BY <2>1, <2>2, <1>1
<1>5. 67108864 * (t * Q) <= 67108864 * x + delta * x + 33554432 * Q
  <2>1. (67108864 * t) * Q <= (V * x + 33554432) * Q
    <3>1. 67108864 * t \in Int /\ V * x + 33554432 \in Int
      BY <1>1, <1>3
    <3> HIDE DEF t, V
    <3> QED BY <1>3, <3>1, Constants
  <2>2. (67108864 * t) * Q = 67108864 * (t * Q)
    BY <1>3, Constants
  <2>3. (V * x + 33554432) * Q = (V * x) * Q + 33554432 * Q
    BY <1>1, Constants
  <2> QED BY <2>1, <2>2, <2>3, <1>4
<1>6. 67108864 * x + delta * x + 33554432 * Q <= 67108864 * (t * Q) + 67108864 * Q
  <2>1. (V * x + 33554432) * Q <= (67108864 * t + 67108864) * Q
    <3>1. 67108864 * t + 67108864 \in Int /\ V * x + 33554432 \in Int
      BY <1>1, <1>3
    <3> HIDE DEF t, V
    <3> QED BY <1>3, <3>1, Constants
  <2>2. (67108864 * t + 67108864) * Q = 67108864 * (t * Q) + 67108864 * Q
    BY <1>3, Constants
  <2>3. (V * x + 33554432) * Q = (V * x) * Q + 33554432 * Q
    BY <1>1, Constants
  <2> QED BY <2>1, <2>2, <2>3, <1>4
<1>7. Within(x - t * Q, Q)
  <2>1. delta * x \in Int /\ -(16384 * Q) <= delta * x /\ delta * x <= 16384 * Q
    <3>1. delta * x \in Int /\ -(Half * 32768) <= delta * x /\ delta * x <= Half * 32768
      BY <1>2 DEF Within
    <3> HIDE DEF delta
    <3> QED BY <3>1, Constants
  <2>2. t * Q \in Int
    BY <1>3, Constants
  <2> HIDE DEF t, delta
  <2> QED BY <2>1, <2>2, <1>5, <1>6, Constants DEF Within
<1>8. -32768 <= t /\ t <= 32767
  <2>1. t * Q \in Int /\ -(32768 + Q) <= t * Q /\ t * Q <= 32768 + Q
    <3>1. t * Q \in Int
      BY <1>3, Constants
    <3> HIDE DEF t
    <3> QED BY <3>1, <1>7, Constants DEF Within
  <2>2. t >= 32768 => t * Q >= 32768 * Q
    <3> HIDE DEF t
    <3> QED BY <1>3, Constants
  <2>3. t <= -32769 => t * Q <= -(32769 * Q)
    <3> HIDE DEF t
    <3> QED BY <1>3, Constants
  <2> HIDE DEF t
  <2> QED BY <2>1, <2>2, <2>3, <1>3, Constants
<1>9. BarrettReduce(x) = Signed16(x - t * Q)
  <2>1. Signed16(t) = t
    <3> HIDE DEF t
    <3> QED BY <1>3, <1>8, SignedSame
  <2>2. BarrettReduce(x) = Signed16(x - Signed16(t * Q))
    BY <2>1 DEF BarrettReduce
  <2>3. t * Q \in Int
    BY <1>3, Constants
  <2> HIDE DEF t
  <2> QED BY <2>2, <2>3, SignedDifference
<1>10. Signed16(x - t * Q) = x - t * Q
  <2> HIDE DEF t
  <2> QED BY <1>7, SignedSame, Constants DEF Within
<1>11. t = Quotient(x) /\ delta = Error
  BY DEF Quotient, Error
<1> HIDE DEF t, delta
<1> QED BY <1>1, <1>3, <1>5, <1>6, <1>7, <1>9, <1>10, <1>11

(* barrett_reduce leaves at most Q. *)
LEMMA BarrettBound ==
  ASSUME NEW x \in Int, -32768 <= x, x <= 32767, 4 <= Q, Q <= 10922
  PROVE  Within(BarrettReduce(x), Q)
BY BarrettQuotient

-----------------------------------------------------------------------------
Phases == {"ntt", "vector", "even", "odd", "product", "inverse", "plain", "sent", "key"}

NttInv == phase = "ntt" => step <= Layers /\ Within(r, Largest + step * Q) /\ width <= Largest + step * Q
SumInv == phase \in {"even", "odd"} => step <= K /\ Within(r, step * (2 * Q)) /\ width = Half
ReducedInv == phase \notin {"ntt", "even", "odd"} => Within(r, Q) /\ width <= Q

IInv ==
  /\ phase \in Phases /\ step \in Nat /\ r \in Int /\ width \in Nat /\ lost = FALSE
  /\ NttInv /\ SumInv /\ ReducedInv

LEMMA Sizes == ASSUME SumsFit PROVE 4 <= Q /\ Q <= 10922 /\ Largest + Layers * Q <= 32767 /\ K * (2 * Q) <= 32767
<1>1. K * (2 * Q) = 2 * K * Q
  BY Constants
<1> QED BY <1>1 DEF SumsFit

(* What fits is stored, and what is reduced is small. *)
LEMMA StoreFits ==
  ASSUME SumsFit, NEW b \in Nat, b <= 32767, NEW x, Within(x, b)
  PROVE  /\ Signed16(x) = x /\ Fits16(x) /\ x \in Int
         /\ BarrettReduce(x) \in Int /\ Within(BarrettReduce(x), Q)
<1>1. x \in Int /\ -32768 <= x /\ x <= 32767
  BY DEF Within
<1>2. Within(BarrettReduce(x), Q)
  BY <1>1, BarrettBound, Sizes
<1> QED BY <1>1, <1>2, SignedSame, SignedFits DEF Within

LEMMA WithinSum ==
  ASSUME NEW x, NEW y, NEW b \in Nat, NEW c \in Nat, Within(x, b), Within(y, c)
  PROVE  Within(x + y, b + c) /\ Within(x - y, b + c)
BY DEF Within

LEMMA WithinMore ==
  ASSUME NEW x, NEW b \in Nat, NEW c \in Nat, Within(x, b), b <= c
  PROVE  Within(x, c)
BY DEF Within

LEMMA HalfBelow == Half <= Q
BY Constants

-----------------------------------------------------------------------------
(* Each action keeps the bounds. *)
LEMMA InitFits == ASSUME SumsFit, Init PROVE IInv
<1>1. phase = "ntt" /\ step = 0 /\ r \in Near(Largest) /\ width = Largest /\ lost = FALSE
  BY DEF Init
<1>2. Within(r, Largest) /\ r \in Int
  BY <1>1, NearSmall, Constants DEF Within
<1>3. Largest + 0 * Q = Largest
  BY Constants
<1> QED BY <1>1, <1>2, <1>3, Constants DEF IInv, NttInv, SumInv, ReducedInv, Phases

LEMMA LayerRoom ==
  ASSUME SumsFit, NEW n \in Nat, n < Layers
  PROVE  /\ Largest + n * Q \in Nat /\ Largest + n * Q <= 32767
         /\ Largest + (n + 1) * Q = Largest + n * Q + Q /\ Largest + (n + 1) * Q <= 32767
         /\ Largest + (n + 1) * Q \in Nat
<1>1. (n + 1) * Q = n * Q + Q /\ n * Q \in Nat
  BY Constants
<1>2. (n + 1) * Q <= Layers * Q
  BY Constants
<1>3. Layers * Q \in Nat
  BY Constants
<1> QED BY <1>1, <1>2, <1>3, Constants, Sizes

LEMMA NttFits == ASSUME SumsFit, IInv, NttLayer PROVE IInv'
<1> DEFINE b == Largest + step * Q
           reduce == step + 1 \in ReduceAfter
<1>1. /\ phase = "ntt" /\ step \in Nat /\ step < Layers /\ lost = FALSE /\ width \in Nat
      /\ Within(r, b) /\ width <= b
      /\ phase' = "ntt" /\ step' = step + 1
      /\ width' = IF reduce THEN Half ELSE width + Reach(width, Half)
  BY DEF IInv, NttInv, NttLayer
<1>2. /\ b \in Nat /\ b <= 32767 /\ Largest + step' * Q = b + Q /\ b + Q <= 32767
  BY <1>1, LayerRoom
<1>3. PICK z \in Zetas, p \in Near(width) : Store(r + Fqmul(z, p), reduce) \/ Store(p - Fqmul(z, r), reduce)
  BY DEF NttLayer
<1> HIDE DEF b, reduce
<1>4. Within(z, Half) /\ Within(p, b)
  BY <1>1, <1>2, RootsSmall, NearSmall, WithinMore
<1>5. Within(Fqmul(z, p), Q) /\ Within(Fqmul(z, r), Q)
  BY <1>1, <1>2, <1>4, FqmulBound, HalfTimes16, Constants, Sizes
<1>6. Within(r + Fqmul(z, p), b + Q) /\ Within(p - Fqmul(z, r), b + Q)
  <2>1. Within(r, b) /\ b \in Nat /\ Q \in Nat
    BY <1>1, <1>2, Constants
  <2>2. Within(r + Fqmul(z, p), b + Q)
    BY <2>1, <1>5, WithinSum
  <2>3. Within(p - Fqmul(z, r), b + Q)
    BY <2>1, <1>4, <1>5, WithinSum
  <2> QED BY <2>2, <2>3
<1>8. lost' = FALSE /\ r' \in Int /\ Within(r', b + Q)
  <2>1. PICK x : Within(x, b + Q) /\ Store(x, reduce)
    BY <1>3, <1>6
  <2>2. b + Q \in Nat /\ Q <= b + Q
    BY <1>2, Constants
  <2>3. /\ Signed16(x) = x /\ Fits16(x) /\ x \in Int
        /\ BarrettReduce(x) \in Int /\ Within(BarrettReduce(x), b + Q)
    BY <2>1, <2>2, <1>2, StoreFits, WithinMore, Constants
  <2>4. lost' = FALSE /\ r' = IF reduce THEN BarrettReduce(x) ELSE x
    BY <2>1, <2>3, <1>1 DEF Store, KeptIf
  <2> QED BY <2>1, <2>3, <2>4
<1>9. width' \in Nat /\ width' <= b + Q
  <2>1. width <= 32767 /\ Half \in Nat
    BY <1>1, <1>2, Constants
  <2>2. Half * width <= 16384 * Q
    BY <1>1, <2>1, HalfTimes16
  <2>3. Reach(width, Half) \in Nat /\ Reach(width, Half) <= Q
    BY <1>1, <2>1, <2>2, ReachBound, Sizes
  <2> QED BY <2>3, <1>1, <1>2, HalfBelow, Constants
<1>10. NttInv'
  <2>1. step' <= Layers /\ Largest + step' * Q = b + Q
    BY <1>1, <1>2, Constants
  <2> QED BY <2>1, <1>8, <1>9 DEF NttInv
<1>11. SumInv' /\ ReducedInv' /\ phase' \in Phases /\ step' \in Nat
  BY <1>1 DEF SumInv, ReducedInv, Phases
<1> QED BY <1>8, <1>9, <1>10, <1>11 DEF IInv

(* A phase that starts with what a reduction or product left. *)
LEMMA ReducedStep ==
  ASSUME phase' \in {"vector", "product", "inverse", "plain", "sent", "key"}, step' \in Nat,
         Within(r', Q), width' \in Nat, width' <= Q, lost' = FALSE
  PROVE  IInv'
BY DEF IInv, NttInv, SumInv, ReducedInv, Phases, Within

LEMMA GotoReduced ==
  ASSUME NEW p \in {"vector", "product", "inverse", "plain", "sent", "key"}, Goto(p, Half),
         Within(r', Q), lost' = FALSE
  PROVE  IInv'
BY ReducedStep, HalfBelow, Constants DEF Goto

LEMMA EndNttFits == ASSUME SumsFit, IInv, EndNtt PROVE IInv'
<1> DEFINE b == Largest + step * Q
<1>1. /\ lost = FALSE /\ step = Layers /\ Within(r, b) /\ Goto("vector", Half)
      /\ r' = BarrettReduce(Signed16(r)) /\ KeptIf(Fits16(r))
  BY DEF IInv, NttInv, EndNtt, Store
<1>2. b \in Nat /\ b <= 32767
  BY <1>1, Sizes, Constants
<1> HIDE DEF b
<1>3. lost' = FALSE /\ Within(r', Q)
  <2>1. Signed16(r) = r /\ Fits16(r) /\ Within(BarrettReduce(r), Q)
    BY <1>1, <1>2, StoreFits
  <2> QED BY <1>1, <2>1 DEF KeptIf
<1> QED BY <1>1, <1>3, GotoReduced

LEMMA StartSumFits == ASSUME SumsFit, IInv, StartSum PROVE IInv'
<1>1. phase' \in {"even", "odd"} /\ step' = 0 /\ width' = Half /\ r' = 0 /\ lost' = FALSE
  BY DEF StartSum, Goto, IInv
<1>2. Within(0, 0 * (2 * Q))
  BY Constants DEF Within
<1> QED BY <1>1, <1>2, Constants DEF IInv, NttInv, SumInv, ReducedInv, Phases

LEMMA SumRoom ==
  ASSUME SumsFit, NEW n \in Nat, n <= K
  PROVE  /\ n * (2 * Q) \in Nat /\ n * (2 * Q) <= 32767
         /\ (n + 1) * (2 * Q) = n * (2 * Q) + 2 * Q
<1>1. n * (2 * Q) <= K * (2 * Q)
  BY Constants
<1>2. n * (2 * Q) \in Nat /\ K * (2 * Q) \in Nat /\ (n + 1) * (2 * Q) = n * (2 * Q) + 2 * Q
  BY Constants
<1> QED BY <1>1, <1>2, Sizes

LEMMA BasemulBound ==
  ASSUME SumsFit, NEW even, NEW a0 \in Left, NEW a1 \in Left, NEW b0 \in Near(Half), NEW b1 \in Near(Half),
         NEW z \in Zetas
  PROVE  Within(Basemul(even, a0, a1, b0, b1, z), 2 * Q)
<1>1. Within(a0, 32767) /\ Within(a1, 32767) /\ Within(b0, Half) /\ Within(b1, Half) /\ Within(z, Half)
  BY LeftSmall, RootsSmall, NearSmall, Constants
<1>2. Q * Half <= 16384 * Q /\ 32767 * Half <= 16384 * Q
  BY QTimesQ, Constants, HalfBelow, Sizes
<1>3. Within(Fqmul(a1, b1), Q) /\ Within(Fqmul(a0, b0), Q) /\ Within(Fqmul(a0, b1), Q) /\ Within(Fqmul(a1, b0), Q)
  BY <1>1, <1>2, FqmulBound, Constants, Sizes
<1>4. Within(Fqmul(Fqmul(a1, b1), z), Q)
  BY <1>1, <1>2, <1>3, FqmulBound, Constants, Sizes
<1>5. Q + Q = 2 * Q
  BY Constants
<1>6. /\ Within(Fqmul(Fqmul(a1, b1), z) + Fqmul(a0, b0), 2 * Q)
      /\ Within(Fqmul(a0, b1) + Fqmul(a1, b0), 2 * Q)
  BY <1>3, <1>4, <1>5, WithinSum, Constants
<1> QED BY <1>6 DEF Basemul

LEMMA AddFits == ASSUME SumsFit, IInv, AddProduct PROVE IInv'
<1> DEFINE even == phase = "even"
           b == step * (2 * Q)
<1>1. /\ phase \in {"even", "odd"} /\ step \in Nat /\ step < K /\ lost = FALSE /\ Within(r, b)
      /\ width = Half /\ phase' = phase /\ step' = step + 1 /\ width' = width
  BY DEF IInv, SumInv, AddProduct
<1>2. PICK a0 \in Left, a1 \in Left, b0 \in Near(width), b1 \in Near(width), z \in Zetas :
        /\ r' = Signed16(r + Signed16(Basemul(even, a0, a1, b0, b1, z)))
        /\ KeptIf(/\ Fits16(Basemul(even, a0, a1, b0, b1, z))
                  /\ Fits16(r + Basemul(even, a0, a1, b0, b1, z)))
  BY ZenonT(60) DEF AddProduct
<1> DEFINE product == Basemul(even, a0, a1, b0, b1, z)
<1>3. Within(product, 2 * Q)
  BY <1>1, BasemulBound
<1>4. b \in Nat /\ b + 2 * Q <= 32767 /\ step' * (2 * Q) = b + 2 * Q
  <2>1. step + 1 \in Nat /\ step + 1 <= K /\ step \in Nat /\ step <= K
    BY <1>1, Constants
  <2>2. (step + 1) * (2 * Q) <= 32767
    BY <2>1, SumRoom
  <2>3. b \in Nat /\ (step + 1) * (2 * Q) = b + 2 * Q
    BY <2>1, SumRoom
  <2> QED BY <2>2, <2>3, <1>1
<1> HIDE DEF b, product
<1>5. Within(r + product, b + 2 * Q)
  BY <1>1, <1>3, <1>4, WithinSum, Constants
<1>6. /\ product \in Int /\ -32768 <= product /\ product <= 32767
      /\ r + product \in Int /\ -32768 <= r + product /\ r + product <= 32767
  BY <1>3, <1>4, <1>5, Constants, Sizes DEF Within
<1>7. Signed16(product) = product /\ Signed16(r + product) = r + product /\ Fits16(product) /\ Fits16(r + product)
  BY <1>6, SignedSame, SignedFits
<1>8. r' = r + product /\ lost' = FALSE
  BY <1>1, <1>2, <1>7 DEF product, KeptIf
<1> QED BY <1>1, <1>4, <1>5, <1>6, <1>8, Constants DEF IInv, NttInv, SumInv, ReducedInv, Phases

LEMMA EndSumFits == ASSUME SumsFit, IInv, EndSum PROVE IInv'
<1> DEFINE b == step * (2 * Q)
<1>1. /\ lost = FALSE /\ step \in Nat /\ step = K /\ Within(r, b) /\ Goto("product", Half)
      /\ r' = BarrettReduce(Signed16(r)) /\ KeptIf(Fits16(r))
  BY DEF IInv, SumInv, EndSum, Store
<1>2. b \in Nat /\ b <= 32767
  BY <1>1, SumRoom, Constants
<1> HIDE DEF b
<1>3. lost' = FALSE /\ Within(r', Q)
  <2>1. Signed16(r) = r /\ Fits16(r) /\ Within(BarrettReduce(r), Q)
    BY <1>1, <1>2, StoreFits
  <2> QED BY <1>1, <2>1 DEF KeptIf
<1> QED BY <1>1, <1>3, GotoReduced
LEMMA InMont == 65536 % Q \in 0 .. Q - 1 /\ Times(65536, 65536) \in 0 .. Q - 1
BY Constants DEF Times

LEMMA PublishFits == ASSUME SumsFit, IInv, Publish PROVE IInv'
<1> DEFINE f == Times(65536, 65536)
<1>1. phase = "product" /\ lost = FALSE /\ Within(r, Q) /\ Goto("sent", Half)
  BY DEF IInv, ReducedInv, Publish
<1>2. PICK e \in Near(Half) :
        r' = BarrettReduce(Signed16(MontgomeryReduce(r * f) + e)) /\ KeptIf(Fits16(MontgomeryReduce(r * f) + e))
  BY DEF Publish, Store
<1>3. Within(f, Q)
  BY InMont, Constants DEF Within
<1> HIDE DEF f
<1>4. Within(MontgomeryReduce(r * f), Q)
  <2>1. Q * Q <= 16384 * Q
    BY QTimesQ, Constants, Sizes
  <2>2. Within(Fqmul(r, f), Q)
    BY <1>1, <1>3, <2>1, FqmulBound, Constants, Sizes
  <2> QED BY <2>2 DEF Fqmul
<1>5. Within(MontgomeryReduce(r * f) + e, Q + Half)
  BY <1>4, NearSmall, WithinSum, Constants
<1>6. Q + Half \in Nat /\ Q + Half <= 32767
  BY Constants, Sizes
<1> DEFINE x == MontgomeryReduce(r * f) + e
<1>7. Signed16(x) = x /\ Fits16(x) /\ Within(BarrettReduce(x), Q)
  BY <1>5, <1>6, StoreFits
<1>8. lost' = FALSE /\ Within(r', Q)
  BY <1>1, <1>2, <1>7 DEF KeptIf
<1> QED BY <1>1, <1>8, GotoReduced

LEMMA StartInverseFits == ASSUME SumsFit, IInv, StartInverse PROVE IInv'
<1>1. Within(r, Q) /\ lost = FALSE /\ Goto("inverse", Half) /\ r' = r /\ lost' = lost
  BY DEF IInv, ReducedInv, StartInverse
<1>2. lost' = FALSE /\ Within(r', Q)
  BY <1>1
<1> QED BY <1>1, <1>2, GotoReduced

LEMMA InverseFits == ASSUME SumsFit, IInv, InverseLayer PROVE IInv'
<1>1. /\ phase' = "inverse" /\ step \in Nat /\ step' = step + 1 /\ lost = FALSE
      /\ Within(r, Q) /\ width \in Nat /\ width <= Q /\ width' = Reach(2 * width, Half)
  BY DEF IInv, ReducedInv, InverseLayer
<1>2. PICK z \in Zetas, p \in Near(width) :
        \/ r' = BarrettReduce(Signed16(r + p)) /\ KeptIf(Fits16(r + p))
        \/ r' = Fqmul(z, Signed16(r - p)) /\ KeptIf(Fits16(r - p))
  BY DEF InverseLayer, Store
<1>3. Within(r + p, Q + Q) /\ Within(r - p, Q + Q)
  <2>1. Within(p, Q)
    BY <1>1, NearSmall, WithinMore, Constants
  <2> QED BY <1>1, <2>1, WithinSum, Constants
<1>4. Q + Q \in Nat /\ Q + Q <= 32767 /\ Q + Q = 2 * Q
  BY Constants, Sizes
<1>5. /\ Signed16(r + p) = r + p /\ Fits16(r + p) /\ Within(BarrettReduce(r + p), Q)
      /\ Signed16(r - p) = r - p /\ Fits16(r - p)
  BY <1>3, <1>4, StoreFits
<1>6. Half * (2 * Q) <= 16384 * Q
  BY HalfTimesTwoQ, Constants, Sizes
<1>7. Within(Fqmul(z, r - p), Q)
  <2>1. Within(z, Half) /\ Within(r - p, 2 * Q) /\ 2 * Q \in Nat
    BY <1>3, <1>4, RootsSmall
  <2> QED BY <2>1, <1>6, FqmulBound, Constants, Sizes
<1>8. lost' = FALSE /\ Within(r', Q)
  BY <1>1, <1>2, <1>5, <1>7 DEF KeptIf
<1>9. width' \in Nat /\ width' <= Q
  <2>1. 2 * width \in Nat /\ Half * (2 * width) <= Half * (2 * Q)
    BY <1>1, Constants
  <2>2. Half * (2 * width) <= 16384 * Q
    BY <2>1, <1>6, <1>1, Constants
  <2> QED BY <2>1, <2>2, <1>1, ReachBound, Constants, Sizes
<1>10. step' \in Nat /\ phase' \in {"vector", "product", "inverse", "plain", "sent", "key"}
  BY <1>1
<1> QED BY <1>8, <1>9, <1>10, ReducedStep

LEMMA EndInverseFits == ASSUME SumsFit, IInv, EndInverse PROVE IInv'
<1>1. Within(r, Q) /\ lost = FALSE /\ Goto("plain", Half) /\ r' = Fqmul(r, Scale) /\ lost' = lost
  BY DEF IInv, ReducedInv, EndInverse
<1>2. Q * Half <= 16384 * Q /\ 32767 * Half <= 16384 * Q
  BY QTimesQ, Constants, HalfBelow, Sizes
<1>3. Within(Fqmul(r, Scale), Q)
  BY <1>1, <1>2, FqmulBound, Constants, Sizes
<1>4. lost' = FALSE /\ Within(r', Q)
  BY <1>1, <1>3
<1> QED BY <1>1, <1>4, GotoReduced

LEMMA RespondFits == ASSUME SumsFit, IInv, Respond PROVE IInv'
<1>1. Within(r, Q) /\ lost = FALSE /\ Goto("sent", Half)
  BY DEF IInv, ReducedInv, Respond
<1>2. PICK e \in Noise : r' = BarrettReduce(Signed16(r + e)) /\ KeptIf(Fits16(r + e))
  BY DEF Respond, Store
<1>3. Within(r + e, Q + Half)
  BY <1>1, NoiseSmall, WithinSum, Constants
<1>4. Q + Half \in Nat /\ Q + Half <= 32767
  BY Constants, Sizes
<1>5. Signed16(r + e) = r + e /\ Fits16(r + e) /\ Within(BarrettReduce(r + e), Q)
  BY <1>3, <1>4, StoreFits
<1>6. lost' = FALSE /\ Within(r', Q)
  BY <1>1, <1>2, <1>5 DEF KeptIf
<1> QED BY <1>1, <1>6, GotoReduced

LEMMA DeriveFits == ASSUME SumsFit, IInv, DeriveKey PROVE IInv'
<1>1. Within(r, Q) /\ lost = FALSE /\ Goto("key", Half)
  BY DEF IInv, ReducedInv, DeriveKey
<1>2. PICK e \in Noise :
        /\ r' = BarrettReduce(Signed16(2 * Signed16(r + e)))
        /\ KeptIf(Fits16(r + e) /\ Fits16(2 * (r + e)))
  BY DEF DeriveKey
<1>3. Within(r + e, Q + Half)
  BY <1>1, NoiseSmall, WithinSum, Constants
<1>4. Q + Half \in Nat /\ Q + Half <= 32767 /\ 3 * Q \in Nat /\ 3 * Q <= 32767
  BY Constants, Sizes
<1>5. Within(2 * (r + e), 3 * Q)
  <2>1. r \in Int /\ e \in Int
    BY <1>1, NoiseSmall DEF Within
  <2> QED BY <2>1, <1>3, Constants DEF Within
<1>6. Signed16(r + e) = r + e /\ Fits16(r + e)
  BY <1>3, <1>4, StoreFits
<1>7. Signed16(2 * (r + e)) = 2 * (r + e) /\ Fits16(2 * (r + e)) /\ Within(BarrettReduce(2 * (r + e)), Q)
  BY <1>5, <1>4, StoreFits
<1>8. lost' = FALSE /\ Within(r', Q)
  BY <1>1, <1>2, <1>6, <1>7 DEF KeptIf
<1> QED BY <1>1, <1>8, GotoReduced

(* The inductive invariant: bounds on the coefficient and on those it      *)
(* meets, which grow with the steps of a phase.                            *)
THEOREM SumsInvariant == ASSUME SumsFit PROVE Spec => []IInv
<1>1. Init => IInv
  BY InitFits
<1>2. IInv /\ UNCHANGED vars => IInv'
  BY DEF vars, IInv, NttInv, SumInv, ReducedInv, Phases, Within
<1>3. IInv /\ Next => IInv'
  BY NttFits, EndNttFits, StartSumFits, AddFits, EndSumFits, PublishFits, StartInverseFits,
     InverseFits, EndInverseFits, RespondFits, DeriveFits DEF Next
<1>4. IInv /\ [Next]_vars => IInv'
  BY <1>2, <1>3
<1> QED BY <1>1, <1>4, PTL DEF Spec

(* No store of ntt.c, poly.c and polyvec.c loses bits when SumsFit.        *)
THEOREM SumsKeepTheirBits == ASSUME SumsFit PROVE Spec => []NothingLost
<1>1. IInv => NothingLost
  BY DEF IInv, NothingLost
<1> QED BY SumsInvariant, <1>1, PTL

-----------------------------------------------------------------------------
(* What the code takes from tables. *)
ConstantsRight ==
  /\ (Q * QInv) % 65536 = 1
  /\ Q = 2 * Half + 1
  /\ Within(Error, 1023)

Cong(x, y) == x \in Int /\ y \in Int /\ \E n \in Int : x = y + n * Q

-----------------------------------------------------------------------------
(* Congruence modulo Q. *)
LEMMA CongSame == ASSUME NEW x \in Int PROVE Cong(x, x)
<1>1. x = x + 0 * Q /\ 0 \in Int
  BY Constants
<1> QED BY <1>1 DEF Cong

LEMMA CongBack == ASSUME NEW x, NEW y, Cong(x, y) PROVE Cong(y, x)
<1>1. x \in Int /\ y \in Int
  BY DEF Cong
<1>2. PICK n \in Int : x = y + n * Q
  BY DEF Cong
<1>3. y = x + (-n) * Q /\ -n \in Int
  BY <1>1, <1>2, Constants
<1> QED BY <1>1, <1>3 DEF Cong

LEMMA CongThen == ASSUME NEW x, NEW y, NEW u, Cong(x, y), Cong(y, u) PROVE Cong(x, u)
<1>1. x \in Int /\ y \in Int /\ u \in Int
  BY DEF Cong
<1>2. PICK n \in Int : x = y + n * Q
  BY DEF Cong
<1>3. PICK m \in Int : y = u + m * Q
  BY DEF Cong
<1>4. x = u + (n + m) * Q /\ n + m \in Int
  BY <1>1, <1>2, <1>3, Constants
<1> QED BY <1>1, <1>4 DEF Cong

LEMMA CongSum ==
  ASSUME NEW x, NEW y, NEW u, NEW v, Cong(x, y), Cong(u, v)
  PROVE  Cong(x + u, y + v) /\ Cong(x - u, y - v)
<1>1. x \in Int /\ y \in Int /\ u \in Int /\ v \in Int
  BY DEF Cong
<1>2. PICK n \in Int : x = y + n * Q
  BY DEF Cong
<1>3. PICK m \in Int : u = v + m * Q
  BY DEF Cong
<1>4. x + u = y + v + (n + m) * Q /\ n + m \in Int
  BY <1>1, <1>2, <1>3, Constants
<1>5. x - u = y - v + (n - m) * Q /\ n - m \in Int
  BY <1>1, <1>2, <1>3, Constants
<1> QED BY <1>1, <1>4, <1>5 DEF Cong

LEMMA CongTimes ==
  ASSUME NEW x, NEW y, Cong(x, y), NEW c \in Int
  PROVE  Cong(x * c, y * c) /\ Cong(c * x, c * y)
<1>1. x \in Int /\ y \in Int
  BY DEF Cong
<1>2. PICK n \in Int : x = y + n * Q
  BY DEF Cong
<1>3. (n * Q) * c = (n * c) * Q /\ n * c \in Int
  BY Constants
<1>4. (y + n * Q) * c = y * c + (n * Q) * c
  BY <1>1, Constants
<1>5. x * c = y * c + (n * c) * Q /\ x * c \in Int /\ y * c \in Int
  BY <1>1, <1>2, <1>3, <1>4
<1>6. c * x = x * c /\ c * y = y * c
  BY <1>1
<1> QED BY <1>3, <1>5, <1>6 DEF Cong

LEMMA CongProduct ==
  ASSUME NEW x, NEW y, NEW u, NEW v, Cong(x, y), Cong(u, v)
  PROVE  Cong(x * u, y * v)
<1>1. x \in Int /\ y \in Int /\ u \in Int /\ v \in Int
  BY DEF Cong
<1>2. Cong(x * u, y * u) /\ Cong(y * u, y * v)
  BY <1>1, CongTimes
<1> QED BY <1>2, CongThen

LEMMA CongMod == ASSUME NEW x \in Int PROVE x % Q \in 0 .. Q - 1 /\ Cong(x % Q, x)
<1> DEFINE n == x \div Q
           m == x % Q
<1>1. m \in 0 .. Q - 1 /\ n \in Int
  BY Constants
<1>2. m = x - Q * n
  BY Constants, SMTT(30)
<1>3. m \in Int /\ -n \in Int /\ m = x + (-n) * Q
  <2> HIDE DEF n, m
  <2> QED BY <1>1, <1>2, Constants
<1> QED BY <1>1, <1>3 DEF Cong

LEMMA CongZero == ASSUME NEW x \in Int PROVE x % Q = 0 <=> Cong(x, 0)
<1>1. ASSUME x % Q = 0 PROVE Cong(x, 0)
  BY <1>1, CongMod, CongBack
<1>2. ASSUME Cong(x, 0) PROVE x % Q = 0
  <2>1. Cong(x % Q, 0) /\ x % Q \in 0 .. Q - 1
    BY <1>2, CongMod, CongThen
  <2>2. PICK n \in Int : x % Q = 0 + n * Q
    BY <2>1 DEF Cong
  <2>3. n >= 1 => n * Q >= Q
    BY Constants
  <2>4. n <= -1 => n * Q <= -Q
    BY Constants
  <2>5. n = 0 => n * Q = 0
    BY Constants
  <2>6. n * Q \in Int
    BY Constants
  <2> QED BY <2>1, <2>2, <2>3, <2>4, <2>5, <2>6, Constants
<1> QED BY <1>1, <1>2
-----------------------------------------------------------------------------
(* QInv makes 2^16 invertible modulo Q. *)
LEMMA RInvRight == ASSUME SumsFit, ConstantsRight PROVE RInv \in Int /\ Cong(RInv * 65536, 1)
<1> DEFINE s == (Q * QInv) \div 65536
           x == (-s) % Q
<1>1. Q * QInv \in Int /\ s \in Int /\ Q * QInv = 65536 * s + 1
  <2>1. Q * QInv \in Int /\ (Q * QInv) % 65536 = 1
    BY Constants DEF ConstantsRight
  <2> QED BY <2>1
<1>2. x \in 0 .. Q - 1 /\ Cong(x, -s)
  BY <1>1, CongMod
<1>3. Cong(x * 65536, 1)
  <2>1. Cong(x * 65536, (-s) * 65536)
    BY <1>2, CongTimes
  <2>2. (-s) * 65536 = 1 + (-QInv) * Q /\ -QInv \in Int /\ (-s) * 65536 \in Int
    <3>1. (-QInv) * Q = -(Q * QInv)
      BY Constants
    <3> HIDE DEF s
    <3> QED BY <1>1, <3>1, Constants
  <2>3. Cong((-s) * 65536, 1)
    BY <2>2 DEF Cong
  <2> QED BY <2>1, <2>3, CongThen
<1>4. (x * 65536) % Q = 1 /\ x \in 1 .. Q - 1
  <2>1. x * 65536 \in Int /\ x \in Int
    BY <1>2
  <2>2. (x * 65536) % Q \in 0 .. Q - 1 /\ Cong((x * 65536) % Q, 1)
    BY <2>1, <1>3, CongMod, CongThen
  <2>3. (x * 65536) % Q = 1
    <3> DEFINE m == (x * 65536) % Q
    <3>1. PICK n \in Int : m = 1 + n * Q
      BY <2>2 DEF Cong
    <3>2. (n >= 1 => n * Q >= Q) /\ (n <= -1 => n * Q <= -Q) /\ (n = 0 => n * Q = 0) /\ n * Q \in Int
      BY Constants
    <3>3. m \in 0 .. Q - 1
      BY <2>2
    <3> HIDE DEF m
    <3>4. m = 1
      BY <3>1, <3>2, <3>3, Constants, Sizes
    <3> QED BY <3>4 DEF m
  <2>4. x # 0
    <3>1. ASSUME x = 0 PROVE FALSE
      <4>1. Cong(0, 1)
        BY <1>3, <3>1
      <4>2. PICK n \in Int : 0 = 1 + n * Q
        BY <4>1 DEF Cong
      <4>3. (n >= 0 => n * Q >= 0) /\ (n <= -1 => n * Q <= -Q) /\ n * Q \in Int
        BY Constants
      <4> QED BY <4>2, <4>3, Constants, Sizes
    <3> QED BY <3>1
  <2> HIDE DEF x
  <2> QED BY <1>2, <2>3, <2>4, Constants
<1>5. RInv \in 1 .. Q - 1 /\ (RInv * 65536) % Q = 1
  <2>1. \E y \in 1 .. Q - 1 : (y * 65536) % Q = 1
    BY <1>4
  <2> QED BY <2>1 DEF RInv
<1>6. RInv \in Int /\ RInv * 65536 \in Int
  BY <1>5, Constants
<1> QED BY <1>5, <1>6, CongMod, CongBack

(* The division of a Montgomery reduction leaves no remainder. *)
LEMMA MontgomeryExact ==
  ASSUME SumsFit, ConstantsRight, NEW x, NEW b \in Nat, Within(x, b), b <= 16384 * Q
  PROVE  Cong(MontgomeryReduce(x), x * RInv)
<1> DEFINE u == Signed16(x)
           v == u * QInv
           t == Signed16(v)
           c == x - t * Q
           d == c \div 65536
           s == (Q * QInv) \div 65536
           i == (x + 32768) \div 65536
           j == (v + 32768) \div 65536
<1>1. x \in Int
  BY DEF Within
<1>2. i \in Int /\ u = x - 65536 * i /\ u \in Int
  BY <1>1 DEF Signed16
<1>3. v \in Int
  <2> HIDE DEF u
  <2> QED BY <1>2, Constants
<1>4. j \in Int /\ t = v - 65536 * j /\ t \in Int
  <2> HIDE DEF v
  <2> QED BY <1>3 DEF Signed16
<1>5. s \in Int /\ QInv * Q = 65536 * s + 1
  <2>1. Q * QInv \in Int /\ (Q * QInv) % 65536 = 1 /\ QInv * Q = Q * QInv
    BY Constants DEF ConstantsRight
  <2> QED BY <2>1
<1>6. \E n \in Int : t * Q = x + 65536 * n
  <2>1. t * Q = v * Q - 65536 * (j * Q)
    <3> HIDE DEF t, v, j
    <3> QED BY <1>3, <1>4, Constants
  <2>2. v * Q = u * (QInv * Q)
    <3> HIDE DEF u
    <3> QED BY <1>2, Constants
  <2>3. u * (QInv * Q) = 65536 * (u * s) + u
    <3> HIDE DEF u, s
    <3>1. u * (65536 * s + 1) = 65536 * (u * s) + u
      BY <1>2, <1>5
    <3> QED BY <1>5, <3>1
  <2>4. u * s \in Int /\ j * Q \in Int
    <3> HIDE DEF u, s, j
    <3> QED BY <1>2, <1>4, <1>5, Constants
  <2>5. t * Q = x + 65536 * (u * s - i - j * Q) /\ u * s - i - j * Q \in Int
    <3>1. t * Q = 65536 * (u * s) + (x - 65536 * i) - 65536 * (j * Q)
      <4>1. 65536 * i \in Int /\ u = x - 65536 * i
        BY <1>2
      <4> HIDE DEF u, s, i, j, t, v
      <4> QED BY <2>1, <2>2, <2>3, <2>4, <4>1, <1>1, <1>2
    <3>2. t * Q \in Int
      BY <1>4, Constants
    <3> HIDE DEF u, s, i, j, t
    <3> QED BY <2>4, <3>1, <3>2, <1>1, <1>2
  <2> QED BY <2>5
<1>7. 65536 * d = c /\ d \in Int /\ c \in Int
  <2>1. PICK n \in Int : t * Q = x + 65536 * n
    BY <1>6
  <2>2. c = 65536 * (-n)
    BY <2>1, <1>1
  <2> HIDE DEF c
  <2> QED BY <2>2
<1>8. MontgomeryReduce(x) = d
  <2>1. MontgomeryReduce(x) = Signed16(d) /\ Within(MontgomeryReduce(x), Q)
    BY MontgomeryBound, Sizes DEF MontgomeryReduce
  <2>2. -32768 <= d /\ d <= 32767
    <3>1. -32768 <= t /\ t <= 32767 /\ t \in Int
      BY <1>3, SignedRange
    <3>2. Within(t, 32768) /\ Within(Q, Q)
      BY <3>1, Constants DEF Within
    <3>3. Within(t * Q, 32768 * Q)
      BY <3>2, ProductBound, Constants
    <3>4. -(49152 * Q) <= c /\ c <= 49152 * Q
      <4>1. t * Q \in Int /\ -(32768 * Q) <= t * Q /\ t * Q <= 32768 * Q
        BY <3>3 DEF Within
      <4>2. -b <= x /\ x <= b
        BY DEF Within
      <4> HIDE DEF t
      <4> QED BY <4>1, <4>2, <1>1, Constants
    <3> HIDE DEF d, c
    <3> QED BY <3>4, <1>7, Constants, Sizes
  <2> HIDE DEF d
  <2> QED BY <2>1, <2>2, <1>7, SignedSame
<1>9. Cong(d * 65536, x)
  <2>1. d * 65536 = x + (-t) * Q /\ -t \in Int /\ d * 65536 \in Int
    <3>1. (-t) * Q = -(t * Q) /\ t * Q \in Int
      <4> HIDE DEF t
      <4> QED BY <1>4, Constants
    <3>2. d * 65536 = x - t * Q
      <4> HIDE DEF d
      <4> QED BY <1>7
    <3> HIDE DEF d, t
    <3> QED BY <3>1, <3>2, <1>1, <1>4, <1>7
  <2> QED BY <2>1, <1>1 DEF Cong
<1> HIDE DEF d
<1>10. Cong((d * 65536) * RInv, x * RInv)
  BY <1>9, RInvRight, CongTimes
<1>11. Cong(d * (RInv * 65536), d * 1)
  BY <1>7, RInvRight, CongTimes
<1>12. d * (RInv * 65536) = (d * 65536) * RInv /\ d * 1 = d
  BY <1>7, RInvRight
<1>13. Cong(d, (d * 65536) * RInv)
  BY <1>11, <1>12, CongBack
<1> QED BY <1>8, <1>10, <1>13, CongThen
(* barrett_reduce returns the centred representative. *)
LEMMA BarrettExact ==
  ASSUME SumsFit, ConstantsRight, NEW x \in Int, -32768 <= x, x <= 32767
  PROVE  Cong(BarrettReduce(x), x) /\ Within(BarrettReduce(x), Half)
<1>1. /\ Quotient(x) \in Int /\ Error \in Int
      /\ 67108864 * (Quotient(x) * Q) <= 67108864 * x + Error * x + 33554432 * Q
      /\ 67108864 * x + Error * x + 33554432 * Q <= 67108864 * (Quotient(x) * Q) + 67108864 * Q
      /\ BarrettReduce(x) = x - Quotient(x) * Q
  BY BarrettQuotient, Sizes
<1>2. Within(Error * x, 1023 * 32768)
  <2>1. Within(x, 32768) /\ Within(Error, 1023)
    BY DEF Within, ConstantsRight
  <2> QED BY <2>1, ProductBound
<1>3. Error * x \in Int /\ -33521664 <= Error * x /\ Error * x <= 33521664
  BY <1>2 DEF Within
<1>4. Quotient(x) * Q \in Int /\ (-Quotient(x)) * Q = -(Quotient(x) * Q) /\ -Quotient(x) \in Int
  BY <1>1, Constants
<1>5. Within(x - Quotient(x) * Q, Half)
  <2>1. Q = 2 * Half + 1
    BY DEF ConstantsRight
  <2> QED BY <1>1, <1>3, <1>4, <2>1, Constants DEF Within
<1>6. Cong(x - Quotient(x) * Q, x)
  <2>1. x - Quotient(x) * Q = x + (-Quotient(x)) * Q /\ x - Quotient(x) * Q \in Int
    BY <1>4
  <2> QED BY <2>1, <1>4 DEF Cong
<1> QED BY <1>1, <1>5, <1>6

(* The exact products. *)
LEMMA TimesExact ==
  ASSUME NEW x \in Int, NEW y \in Int
  PROVE  Times(x, y) \in 0 .. Q - 1 /\ Cong(Times(x, y), x * y)
<1>1. Cong(x % Q, x) /\ Cong(y % Q, y)
  BY CongMod
<1>2. Cong((x % Q) * (y % Q), x * y) /\ (x % Q) * (y % Q) \in Int
  <2>1. Cong((x % Q) * (y % Q), x * y)
    BY <1>1, CongProduct
  <2> QED BY <2>1 DEF Cong
<1>3. ((x % Q) * (y % Q)) % Q \in 0 .. Q - 1 /\ Cong(((x % Q) * (y % Q)) % Q, (x % Q) * (y % Q))
  BY <1>2, CongMod
<1>4. Times(x, y) = ((x % Q) * (y % Q)) % Q
  BY DEF Times
<1> QED BY <1>2, <1>3, <1>4, CongThen

LEMMA MontExact ==
  ASSUME SumsFit, ConstantsRight, NEW x \in Int, NEW y \in Int
  PROVE  Mont(x, y) \in 0 .. Q - 1 /\ Cong(Mont(x, y), (x * y) * RInv)
<1>1. Times(x, y) \in Int /\ Cong(Times(x, y), x * y)
  <2>1. Cong(Times(x, y), x * y)
    BY TimesExact
  <2> QED BY <2>1 DEF Cong
<1>2. Mont(x, y) \in 0 .. Q - 1 /\ Cong(Mont(x, y), Times(x, y) * RInv)
  <2>1. Mont(x, y) = Times(Times(x, y), RInv) /\ RInv \in Int
    BY RInvRight DEF Mont
  <2> DEFINE t == Times(x, y)
  <2>2. t \in Int
    BY <1>1
  <2> HIDE DEF t
  <2>3. Times(t, RInv) \in 0 .. Q - 1 /\ Cong(Times(t, RInv), t * RInv)
    BY <2>1, <2>2, TimesExact
  <2> QED BY <2>1, <2>3 DEF t
<1>3. Cong(Times(x, y) * RInv, (x * y) * RInv)
  BY <1>1, CongTimes, RInvRight
<1> QED BY <1>2, <1>3, CongThen

(* fqmul computes the exact product of the residues. *)
LEMMA FqmulExact ==
  ASSUME SumsFit, ConstantsRight, NEW x, NEW y, NEW u, NEW v, Cong(x, u), Cong(y, v),
         NEW m \in Nat, NEW w \in Nat, Within(x, m), Within(y, w), m * w <= 16384 * Q
  PROVE  Cong(Fqmul(x, y), Mont(u, v))
<1>1. u \in Int /\ v \in Int /\ x \in Int /\ y \in Int
  BY DEF Cong
<1>2. Within(x * y, m * w) /\ m * w \in Nat
  BY ProductBound
<1>3. Cong(Fqmul(x, y), (x * y) * RInv)
  BY <1>2, MontgomeryExact DEF Fqmul
<1>4. Cong(x * y, u * v)
  BY CongProduct
<1>5. Cong((x * y) * RInv, (u * v) * RInv)
  BY <1>4, CongTimes, RInvRight
<1>6. Cong((u * v) * RInv, Mont(u, v))
  BY <1>1, MontExact, CongBack
<1> QED BY <1>3, <1>5, <1>6, CongThen

-----------------------------------------------------------------------------
EInv ==
  /\ want \in 0 .. Q - 1 /\ Cong(r, want)
  /\ phase \in {"vector", "sent", "key"} => Within(r, Half)

LEMMA WantMod ==
  ASSUME NEW x, NEW y \in Int, Cong(x, y), want' = y % Q
  PROVE  want' \in 0 .. Q - 1 /\ Cong(x, want')
<1>1. y % Q \in 0 .. Q - 1 /\ Cong(y, y % Q)
  BY CongMod, CongBack
<1> QED BY <1>1, CongThen

LEMMA Reduced ==
  ASSUME SumsFit, ConstantsRight, NEW x \in Int, Fits16(x)
  PROVE  /\ Signed16(x) = x
         /\ Cong(BarrettReduce(Signed16(x)), x) /\ Within(BarrettReduce(Signed16(x)), Half)
<1>1. Signed16(x) = x
  BY DEF Fits16
<1>2. -32768 <= x /\ x <= 32767
  BY <1>1, SignedRange
<1> QED BY <1>1, <1>2, BarrettExact

LEMMA NttBounds == ASSUME SumsFit, IInv, phase = "ntt", step < Layers PROVE Within(r, 32767) /\ width <= 32767 /\ width \in Nat
<1>1. step \in Nat /\ Within(r, Largest + step * Q) /\ width <= Largest + step * Q /\ width \in Nat
  BY DEF IInv, NttInv
<1>2. Largest + step * Q \in Nat /\ Largest + step * Q <= 32767
  BY <1>1, LayerRoom
<1> DEFINE b == Largest + step * Q
<1> HIDE DEF b
<1>3. Within(r, b) /\ width <= b /\ b \in Nat /\ b <= 32767
  BY <1>1, <1>2 DEF b
<1> QED BY <1>1, <1>3, WithinMore

(* Each action does to r, modulo Q, what it does to want. *)
LEMMA InitExact == ASSUME Init, SumsFit PROVE EInv
<1>1. r \in Int /\ want = r % Q /\ phase = "ntt"
  BY NearSmall, Constants DEF Init, Within
<1> QED BY <1>1, CongMod, CongBack DEF EInv

LEMMA NttExact == ASSUME SumsFit, ConstantsRight, IInv, IInv', EInv, NttLayer PROVE EInv'
<1> DEFINE reduce == step + 1 \in ReduceAfter
<1>1. phase = "ntt" /\ step < Layers /\ phase' = "ntt" /\ lost' = FALSE
  BY DEF NttLayer, IInv
<1>2. Within(r, 32767) /\ width <= 32767 /\ width \in Nat /\ want \in Int /\ Cong(r, want)
  BY <1>1, NttBounds, Constants DEF EInv
<1>3. PICK z \in Zetas, p \in Near(width) :
        \/ Store(r + Fqmul(z, p), reduce) /\ want' = (want + Mont(z, p)) % Q
        \/ Store(p - Fqmul(z, r), reduce) /\ want' = (p - Mont(z, want)) % Q
  BY DEF NttLayer
<1>4. Within(z, Half) /\ Within(p, 32767) /\ z \in Int /\ p \in Int
  <2>1. Within(z, Half) /\ Within(p, 32767)
    BY <1>2, RootsSmall, NearSmall, WithinMore
  <2> QED BY <2>1 DEF Within
<1>5. Half * 32767 <= 16384 * Q
  BY HalfTimes16
<1>6. Cong(Fqmul(z, p), Mont(z, p)) /\ Cong(Fqmul(z, r), Mont(z, want))
  <2>1. Cong(z, z) /\ Cong(p, p)
    BY <1>4, CongSame
  <2> QED BY <1>2, <1>4, <1>5, <2>1, FqmulExact, Constants
<1>7. PICK x, y : Cong(x, y) /\ Store(x, reduce) /\ want' = y % Q
  <2>1. Cong(r + Fqmul(z, p), want + Mont(z, p))
    BY <1>2, <1>6, CongSum
  <2>2. Cong(p - Fqmul(z, r), p - Mont(z, want))
    BY <1>4, <1>6, CongSame, CongSum
  <2> QED BY <1>3, <2>1, <2>2
<1>8. x \in Int /\ y \in Int
  BY <1>7 DEF Cong
<1>9. Fits16(x)
  BY <1>1, <1>7 DEF Store, KeptIf
<1>10. Cong(r', x)
  <2>1. r' = IF reduce THEN BarrettReduce(Signed16(x)) ELSE Signed16(x)
    BY <1>7 DEF Store
  <2> QED BY <2>1, <1>8, <1>9, Reduced, CongSame
<1>11. Cong(r', y)
  BY <1>7, <1>10, CongThen
<1>12. want' \in 0 .. Q - 1 /\ Cong(r', want')
  BY <1>7, <1>8, <1>11, WantMod
<1> QED BY <1>1, <1>12 DEF EInv

LEMMA EndSumsExact == ASSUME SumsFit, ConstantsRight, IInv, IInv', EInv, EndNtt \/ EndSum PROVE EInv'
<1>1. /\ r' = BarrettReduce(Signed16(r)) /\ KeptIf(Fits16(r)) /\ want' = want /\ lost' = FALSE /\ r \in Int
  BY DEF EndNtt, EndSum, Store, IInv
<1>2. Fits16(r)
  BY <1>1 DEF KeptIf
<1>3. Cong(r', r) /\ Within(r', Half)
  BY <1>1, <1>2, Reduced
<1> QED BY <1>1, <1>3, CongThen DEF EInv

LEMMA StartSumExact == ASSUME StartSum PROVE EInv'
<1>1. r' = 0 /\ want' = 0 /\ phase' \in {"even", "odd"}
  BY DEF StartSum, Goto
<1>2. 0 \in 0 .. Q - 1 /\ Cong(0, 0)
  BY CongSame, Constants
<1> QED BY <1>1, <1>2 DEF EInv
LEMMA BasemulExact ==
  ASSUME SumsFit, ConstantsRight, NEW even \in BOOLEAN, NEW a0 \in Left, NEW a1 \in Left,
         NEW b0 \in Near(Half), NEW b1 \in Near(Half), NEW z \in Zetas
  PROVE  Cong(Basemul(even, a0, a1, b0, b1, z), ExactBasemul(even, a0, a1, b0, b1, z))
<1>1. Within(a0, 32767) /\ Within(a1, 32767) /\ Within(b0, Half) /\ Within(b1, Half) /\ Within(z, Half)
  BY LeftSmall, RootsSmall, NearSmall, Constants
<1>2. Q * Half <= 16384 * Q /\ 32767 * Half <= 16384 * Q
  BY QTimesQ, Constants, HalfBelow, Sizes
<1>3. Cong(a0, a0) /\ Cong(a1, a1) /\ Cong(b0, b0) /\ Cong(b1, b1) /\ Cong(z, z)
  BY <1>1, CongSame DEF Within
<1>4. /\ Cong(Fqmul(a1, b1), Mont(a1, b1)) /\ Cong(Fqmul(a0, b0), Mont(a0, b0))
      /\ Cong(Fqmul(a0, b1), Mont(a0, b1)) /\ Cong(Fqmul(a1, b0), Mont(a1, b0))
  BY <1>1, <1>2, <1>3, FqmulExact, Constants
<1>5. Within(Fqmul(a1, b1), Q)
  BY <1>1, <1>2, FqmulBound, Constants, Sizes
<1>6. Cong(Fqmul(Fqmul(a1, b1), z), Mont(Mont(a1, b1), z))
  BY <1>1, <1>2, <1>3, <1>4, <1>5, FqmulExact, Constants
<1>7. /\ Cong(Fqmul(Fqmul(a1, b1), z) + Fqmul(a0, b0), Mont(Mont(a1, b1), z) + Mont(a0, b0))
      /\ Cong(Fqmul(a0, b1) + Fqmul(a1, b0), Mont(a0, b1) + Mont(a1, b0))
  BY <1>4, <1>6, CongSum
<1>8. CASE even
  <2>1. Basemul(even, a0, a1, b0, b1, z) = Fqmul(Fqmul(a1, b1), z) + Fqmul(a0, b0)
    BY <1>8 DEF Basemul
  <2>2. ExactBasemul(even, a0, a1, b0, b1, z) = Mont(Mont(a1, b1), z) + Mont(a0, b0)
    BY <1>8 DEF ExactBasemul
  <2> QED BY <1>7, <2>1, <2>2
<1>9. CASE ~even
  <2>1. Basemul(even, a0, a1, b0, b1, z) = Fqmul(a0, b1) + Fqmul(a1, b0)
    BY <1>9 DEF Basemul
  <2>2. ExactBasemul(even, a0, a1, b0, b1, z) = Mont(a0, b1) + Mont(a1, b0)
    BY <1>9 DEF ExactBasemul
  <2> QED BY <1>7, <2>1, <2>2
<1> QED BY <1>8, <1>9

LEMMA AddExact == ASSUME SumsFit, ConstantsRight, IInv, IInv', EInv, AddProduct PROVE EInv'
<1> DEFINE even == phase = "even"
<1>1. phase' \in {"even", "odd"} /\ lost' = FALSE /\ width = Half /\ Cong(r, want)
  BY DEF IInv, SumInv, AddProduct, EInv
<1>2. PICK a0 \in Left, a1 \in Left, b0 \in Near(width), b1 \in Near(width), z \in Zetas :
        /\ r' = Signed16(r + Signed16(Basemul(even, a0, a1, b0, b1, z)))
        /\ KeptIf(/\ Fits16(Basemul(even, a0, a1, b0, b1, z))
                  /\ Fits16(r + Basemul(even, a0, a1, b0, b1, z)))
        /\ want' = (want + ExactBasemul(even, a0, a1, b0, b1, z)) % Q
  BY DEF AddProduct
<1> DEFINE product == Basemul(even, a0, a1, b0, b1, z)
           exact == ExactBasemul(even, a0, a1, b0, b1, z)
<1>3. Cong(product, exact)
  BY <1>1, BasemulExact
<1>4. Fits16(product) /\ Fits16(r + product)
  BY <1>1, <1>2 DEF KeptIf
<1> HIDE DEF product, exact
<1>5. r' = r + product /\ want' = (want + exact) % Q
  BY <1>2, <1>4 DEF Fits16, product, exact
<1>6. Cong(r + product, want + exact) /\ want + exact \in Int
  <2>1. Cong(r + product, want + exact)
    BY <1>1, <1>3, CongSum
  <2> QED BY <2>1 DEF Cong
<1>7. want' \in 0 .. Q - 1 /\ Cong(r', want')
  BY <1>5, <1>6, WantMod
<1> QED BY <1>1, <1>7 DEF EInv

(* A coefficient is stored, reduced and sent. *)
LEMMA SentExact ==
  ASSUME SumsFit, ConstantsRight, IInv', NEW x, NEW y, Cong(x, y),
         r' = BarrettReduce(Signed16(x)), Fits16(x), want' = y % Q
  PROVE  EInv'
<1>1. x \in Int /\ y \in Int
  BY DEF Cong
<1>2. Cong(r', x) /\ Within(r', Half)
  BY <1>1, Reduced
<1>3. Cong(r', y)
  BY <1>2, CongThen
<1>4. want' \in 0 .. Q - 1 /\ Cong(r', want')
  BY <1>1, <1>3, WantMod
<1> QED BY <1>2, <1>4 DEF EInv

LEMMA PublishExact == ASSUME SumsFit, ConstantsRight, IInv, IInv', EInv, Publish PROVE EInv'
<1> DEFINE f == Times(65536, 65536)
<1>1. Within(r, Q) /\ Cong(r, want) /\ lost' = FALSE
  BY DEF IInv, ReducedInv, Publish, EInv
<1>2. PICK e \in Near(Half) :
        /\ r' = BarrettReduce(Signed16(MontgomeryReduce(r * f) + e)) /\ KeptIf(Fits16(MontgomeryReduce(r * f) + e))
        /\ want' = (Mont(want, f) + e) % Q
  BY DEF Publish, Store
<1>3. Within(f, Q) /\ f \in Int
  BY InMont, Constants DEF Within
<1> HIDE DEF f
<1>4. Cong(MontgomeryReduce(r * f), Mont(want, f))
  <2>1. Q * Q <= 16384 * Q
    BY QTimesQ, Constants, Sizes
  <2>2. Cong(Fqmul(r, f), Mont(want, f))
    BY <1>1, <1>3, <2>1, CongSame, FqmulExact, Constants
  <2> QED BY <2>2 DEF Fqmul
<1>5. Cong(e, e)
  BY NearSmall, CongSame, Constants DEF Within
<1>6. Cong(MontgomeryReduce(r * f) + e, Mont(want, f) + e)
  BY <1>4, <1>5, CongSum
<1>7. Fits16(MontgomeryReduce(r * f) + e)
  BY <1>1, <1>2 DEF KeptIf
<1> QED BY <1>2, <1>6, <1>7, SentExact

LEMMA StartInverseExact == ASSUME EInv, StartInverse PROVE EInv'
<1>1. r' = r /\ want' = want /\ phase' = "inverse"
  BY DEF StartInverse, Goto
<1> QED BY <1>1 DEF EInv

LEMMA InverseExact == ASSUME SumsFit, ConstantsRight, IInv, IInv', EInv, InverseLayer PROVE EInv'
<1>1. /\ phase' = "inverse" /\ lost' = FALSE /\ Within(r, Q) /\ width \in Nat /\ width <= Q
      /\ Cong(r, want) /\ want \in Int /\ r \in Int
  BY Constants DEF IInv, ReducedInv, InverseLayer, EInv
<1>2. PICK z \in Zetas, p \in Near(width) :
        \/ r' = BarrettReduce(Signed16(r + p)) /\ KeptIf(Fits16(r + p)) /\ want' = (want + p) % Q
        \/ r' = Fqmul(z, Signed16(r - p)) /\ KeptIf(Fits16(r - p)) /\ want' = Mont(z, want - p)
  BY DEF InverseLayer, Store
<1>3. Within(p, Q) /\ p \in Int /\ Within(z, Half) /\ z \in Int
  <2>1. Within(p, Q) /\ Within(z, Half)
    BY <1>1, NearSmall, RootsSmall, WithinMore, Constants
  <2> QED BY <2>1 DEF Within
<1>4. Cong(r + p, want + p) /\ Cong(r - p, want - p)
  BY <1>1, <1>3, CongSame, CongSum
<1>5. CASE r' = BarrettReduce(Signed16(r + p)) /\ KeptIf(Fits16(r + p)) /\ want' = (want + p) % Q
  <2>1. Fits16(r + p)
    BY <1>1, <1>5 DEF KeptIf
  <2> QED BY <1>4, <1>5, <2>1, SentExact
<1>6. CASE r' = Fqmul(z, Signed16(r - p)) /\ KeptIf(Fits16(r - p)) /\ want' = Mont(z, want - p)
  <2>1. r' = Fqmul(z, r - p)
    BY <1>1, <1>6 DEF KeptIf, Fits16
  <2>2. Within(r - p, 2 * Q) /\ 2 * Q \in Nat
    <3>1. Q \in Nat /\ Q + Q = 2 * Q
      BY Constants
    <3>2. Within(r - p, Q + Q)
      BY <1>1, <1>3, <3>1, WithinSum
    <3> QED BY <3>1, <3>2
  <2>3. Half * (2 * Q) <= 16384 * Q
    BY HalfTimesTwoQ, Constants, Sizes
  <2>4. Cong(Fqmul(z, r - p), Mont(z, want - p))
    BY <1>3, <1>4, <2>2, <2>3, CongSame, FqmulExact, Constants
  <2>5. Mont(z, want - p) \in 0 .. Q - 1
    <3>1. want - p \in Int
      BY <1>1, <1>3
    <3> QED BY <1>3, <3>1, MontExact
  <2> QED BY <1>1, <1>6, <2>1, <2>4, <2>5 DEF EInv
<1> QED BY <1>2, <1>5, <1>6

LEMMA EndInverseExact == ASSUME SumsFit, ConstantsRight, IInv, EInv, EndInverse PROVE EInv'
<1>1. /\ phase' = "plain" /\ Within(r, Q) /\ Cong(r, want) /\ want \in Int
      /\ r' = Fqmul(r, Scale) /\ want' = Mont(want, Scale)
  BY Constants DEF IInv, ReducedInv, EndInverse, EInv, Goto
<1>2. Q * Half <= 16384 * Q /\ 32767 * Half <= 16384 * Q
  BY QTimesQ, Constants, HalfBelow, Sizes
<1>3. Within(Scale, Half) /\ Scale \in Int /\ Cong(Scale, Scale)
  <2>1. Within(Scale, Half) /\ Scale \in Int
    BY Constants DEF Within
  <2> QED BY <2>1, CongSame
<1>4. Cong(Fqmul(r, Scale), Mont(want, Scale))
  BY <1>1, <1>2, <1>3, FqmulExact, Constants
<1>5. Mont(want, Scale) \in 0 .. Q - 1
  BY <1>1, <1>3, MontExact
<1> QED BY <1>1, <1>4, <1>5 DEF EInv

LEMMA RespondExact == ASSUME SumsFit, ConstantsRight, IInv, IInv', EInv, Respond PROVE EInv'
<1>1. Cong(r, want) /\ lost' = FALSE
  BY DEF IInv, EInv
<1>2. PICK e \in Noise :
        r' = BarrettReduce(Signed16(r + e)) /\ KeptIf(Fits16(r + e)) /\ want' = (want + e) % Q
  BY DEF Respond, Store
<1>3. Cong(r + e, want + e)
  <2>1. Cong(e, e)
    BY NoiseSmall, CongSame DEF Within
  <2> QED BY <1>1, <2>1, CongSum
<1>4. Fits16(r + e)
  BY <1>1, <1>2 DEF KeptIf
<1> QED BY <1>2, <1>3, <1>4, SentExact

LEMMA DeriveExact == ASSUME SumsFit, ConstantsRight, IInv, IInv', EInv, DeriveKey PROVE EInv'
<1>1. Cong(r, want) /\ lost' = FALSE
  BY DEF IInv, EInv
<1>2. PICK e \in Noise :
        /\ r' = BarrettReduce(Signed16(2 * Signed16(r + e)))
        /\ KeptIf(Fits16(r + e) /\ Fits16(2 * (r + e)))
        /\ want' = (2 * (want + e)) % Q
  BY DEF DeriveKey
<1>3. Fits16(r + e) /\ Fits16(2 * (r + e))
  BY <1>1, <1>2 DEF KeptIf
<1>4. Cong(2 * (r + e), 2 * (want + e))
  <2>1. Cong(e, e)
    BY NoiseSmall, CongSame DEF Within
  <2>2. Cong(r + e, want + e)
    BY <1>1, <2>1, CongSum
  <2> QED BY <2>2, CongTimes
<1>5. r' = BarrettReduce(Signed16(2 * (r + e)))
  BY <1>2, <1>3 DEF Fits16
<1> QED BY <1>2, <1>3, <1>4, <1>5, SentExact

-----------------------------------------------------------------------------
(* The coefficient is congruent to the exact one, and centred where it was *)
(* reduced last.                                                           *)
THEOREM ExactInvariant == ASSUME SumsFit, ConstantsRight PROVE Spec => []EInv
<1>1. Init => EInv
  BY InitExact
<1>2. EInv /\ UNCHANGED vars => EInv'
  BY DEF vars, EInv
<1>3. IInv /\ IInv' /\ EInv /\ Next => EInv'
  BY NttExact, EndSumsExact, StartSumExact, AddExact, PublishExact, StartInverseExact,
     InverseExact, EndInverseExact, RespondExact, DeriveExact DEF Next
<1>4. IInv /\ IInv' /\ EInv /\ [Next]_vars => EInv'
  BY <1>2, <1>3
<1> QED BY SumsInvariant, <1>1, <1>4, PTL DEF Spec

(* No late reduction loses a multiple of 2^16, and none changes the        *)
(* residue, on the whole way through ntt.c, poly.c and polyvec.c.          *)
THEOREM ArithmeticIsExact == ASSUME SumsFit, ConstantsRight PROVE Spec => []Exact
<1>1. EInv => Exact
  <2> SUFFICES ASSUME EInv PROVE Exact
    OBVIOUS
  <2>1. Cong(r, want) /\ Cong(want, want) /\ r \in Int /\ want \in Int
    BY CongSame DEF EInv, Cong
  <2>2. Cong(r - want, want - want) /\ want - want = 0 /\ r - want \in Int
    BY <2>1, CongSum
  <2> QED BY <2>2, CongZero DEF Exact
<1> QED BY ExactInvariant, <1>1, PTL

(* One conditional addition of Q makes what is packed or compared the      *)
(* standard representative (poly_tobytes, getsignal).                      *)
THEOREM SentIsCanonical == ASSUME SumsFit, ConstantsRight PROVE Spec => []SentCanonical
<1>1. EInv => SentCanonical
  <2> SUFFICES ASSUME EInv, phase \in {"vector", "sent", "key"} PROVE Canonical(r) = want
    BY DEF SentCanonical
  <2>1. want \in 0 .. Q - 1 /\ Within(r, Half) /\ Cong(r, want)
    BY DEF EInv
  <2>2. PICK n \in Int : r = want + n * Q
    BY <2>1 DEF Cong
  <2>3. (n >= 1 => n * Q >= Q) /\ (n <= -2 => n * Q <= -(2 * Q)) /\ (n = 0 => n * Q = 0) /\ (n = -1 => n * Q = -Q)
    BY Constants
  <2>4. n * Q \in Int
    BY Constants
  <2> QED BY <2>1, <2>2, <2>3, <2>4, Constants, Sizes DEF Within, Canonical
<1> QED BY ExactInvariant, <1>1, PTL

(* The hypotheses hold of parameters.h, reduce.h and ntt.c of DKE-128      *)
(* (K = 2) and DKE-256 (K = 4).                                            *)
THEOREM TwoSizesCovered ==
  ASSUME Q = 3329, QInv + 3327 = 0, K \in {2, 4}, Layers = 7, Largest = 4095
  PROVE  SumsFit /\ ConstantsRight
<1>1. SumsFit
  BY DEF SumsFit
<1>2. Half = 1664
  BY DEF Half
<1>3. BarrettV = 20159
  BY <1>2 DEF BarrettV
<1>4. Error = 447
  BY <1>3 DEF Error
<1>5. (Q * QInv) % 65536 = 1
  <2> DEFINE k == 0 - 169
  <2>1. k \in Int /\ Q * QInv \in Int /\ Q * QInv = 65536 * k + 1
    BY Constants, SMT
  <2> HIDE DEF k
  <2> QED BY <2>1, SMT
<1> QED BY <1>1, <1>2, <1>4, <1>5 DEF ConstantsRight, Within
=============================================================================
