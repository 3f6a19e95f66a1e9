------------------------------ MODULE DkePoly ------------------------------
(***************************************************************************)
(* The polynomial arithmetic of the DKE reference code: a coefficient on   *)
(* its way through ntt.c, poly.c and polyvec.c in the order of dkecpa.c.   *)
(* Values are kept in 16 bits and reduced only here and there, because the *)
(* sums between two reductions are meant to fit.                           *)
(*                                                                         *)
(* One coefficient r is followed; the coefficients it meets are any values *)
(* up to width, which bounds all coefficients of the polynomial.  want is  *)
(* what exact arithmetic modulo Q makes of the same operations.            *)
(***************************************************************************)
EXTENDS Integers

CONSTANTS
  Q, QInv,      \* the modulus, and its inverse modulo 2^16
  K,            \* products in a sum
  Layers,       \* layers of the transforms
  ReduceAfter,  \* the layers of ntt that end in a reduction of all
  Zetas,        \* powers of the root, centred
  Scale,        \* f of invntt
  Largest,      \* bound on the coefficients a transform starts from
  Left,         \* coefficients of the matrix, or of an unpacked vector, which may pass Q
  Noise,        \* coefficients of an error polynomial, and 0
  Some(_)       \* values among which r meets those up to a bound

Half == Q \div 2

ASSUME PolyAssumption ==
  /\ Q \in Nat \ {0} /\ QInv \in Int /\ K \in Nat \ {0} /\ Layers \in Nat \ {0} /\ Scale \in -Half .. Half
  /\ Zetas \subseteq -Half .. Half /\ Largest \in Nat
  /\ Left \subseteq Nat /\ (\A a \in Left : a <= 32767) /\ Noise \subseteq -Half .. Half

-----------------------------------------------------------------------------
Int16 == -32768 .. 32767

(* Conversion to int16_t. *)
Signed16(x) == ((x + 32768) % 65536) - 32768

MontgomeryReduce(a) ==
  LET t == Signed16(Signed16(a) * QInv) IN Signed16((a - t * Q) \div 65536)

(* The high half of the product, not corrected. *)
FqmulHigh(a, b) == Signed16((a * b) \div 65536)

Fqmul(a, b) == MontgomeryReduce(a * b)

BarrettV == (67108864 + Half) \div Q

(* Rounded towards minus infinity, not to the nearest. *)
BarrettFloor(a) == Signed16(a - Signed16(Signed16((BarrettV * a) \div 67108864) * Q))

BarrettReduce(a) == Signed16(a - Signed16(Signed16((BarrettV * a + 33554432) \div 67108864) * Q))

(* basemul's two coefficients, of which the even one has one more factor.  *)
Basemul(even, a0, a1, b0, b1, z) ==
  IF even THEN Fqmul(Fqmul(a1, b1), z) + Fqmul(a0, b0) ELSE Fqmul(a0, b1) + Fqmul(a1, b0)

(* What r may meet among the values up to w. *)
Near(w) == Some(w) \cap (-w .. w) \cap Int16

(* Residues modulo Q, and the product that fqmul computes.                 *)
RInv == CHOOSE x \in 1 .. Q - 1 : (x * 65536) % Q = 1
Times(x, y) == ((x % Q) * (y % Q)) % Q
Mont(x, y) == Times(Times(x, y), RInv)

ExactBasemul(even, a0, a1, b0, b1, z) ==
  IF even THEN Mont(Mont(a1, b1), z) + Mont(a0, b0) ELSE Mont(a0, b1) + Mont(a1, b0)

(* No product of a value up to m and one up to w is larger.                *)
Reach(w, m) == (m * w + 32768 * Q) \div 65536 + 1

VARIABLES
  phase,  \* "ntt", "vector", "even", "odd", "product", "inverse", "plain", "sent", "key"
  step,   \* layers or products done in the phase
  r,      \* the coefficient
  want,   \* its exact residue
  width,  \* bound on the coefficients r meets in the phase
  lost    \* whether a store has not fitted in 16 bits
vars == <<phase, step, r, want, width, lost>>

Init ==
  /\ phase = "ntt" /\ step = 0 /\ r \in Near(Largest) /\ want = r % Q
  /\ width = Largest /\ lost = FALSE

Fits16(x) == Signed16(x) = x

KeptIf(fits) == lost' = IF fits THEN lost ELSE TRUE

(* x is stored, and then perhaps reduced. *)
Store(x, reduce) ==
  /\ r' = IF reduce THEN BarrettReduce(Signed16(x)) ELSE Signed16(x)
  /\ KeptIf(Fits16(x))

Goto(p, w) == phase' = p /\ step' = 0 /\ width' = w

-----------------------------------------------------------------------------
(* A layer of ntt; r is either coefficient of its butterfly.               *)
NttLayer ==
  /\ phase = "ntt" /\ step < Layers
  /\ \E z \in Zetas, p \in Near(width) :
       \/ Store(r + Fqmul(z, p), step + 1 \in ReduceAfter) /\ want' = (want + Mont(z, p)) % Q
       \/ Store(p - Fqmul(z, r), step + 1 \in ReduceAfter) /\ want' = (p - Mont(z, want)) % Q
  /\ width' = IF step + 1 \in ReduceAfter THEN Half ELSE width + Reach(width, Half)
  /\ step' = step + 1 /\ UNCHANGED phase

(* The reduction of poly_ntt. *)
EndNtt ==
  /\ phase = "ntt" /\ step = Layers
  /\ Store(r, TRUE) /\ Goto("vector", Half) /\ UNCHANGED want

(* polyvec_basemul_acc_montgomery begins the coefficients of a product.    *)
StartSum ==
  /\ phase = "vector"
  /\ \E p \in {"even", "odd"} : Goto(p, Half)
  /\ r' = 0 /\ want' = 0 /\ UNCHANGED lost

AddProduct ==
  /\ phase \in {"even", "odd"} /\ step < K
  /\ \E a0, a1 \in Left, b0, b1 \in Near(width), z \in Zetas :
       LET product == Basemul(phase = "even", a0, a1, b0, b1, z)
       IN /\ r' = Signed16(r + Signed16(product))
          /\ KeptIf(Fits16(product) /\ Fits16(r + product))
          /\ want' = (want + ExactBasemul(phase = "even", a0, a1, b0, b1, z)) % Q
  /\ step' = step + 1 /\ UNCHANGED <<phase, width>>

EndSum ==
  /\ phase \in {"even", "odd"} /\ step = K
  /\ Store(r, TRUE) /\ Goto("product", Half) /\ UNCHANGED want

(* DKE*_Initiate: poly_tomont, the transformed error, and the reduction.   *)
Publish ==
  /\ phase = "product"
  /\ \E e \in Near(Half) :
       LET f == Times(65536, 65536)
       IN Store(MontgomeryReduce(r * f) + e, TRUE) /\ want' = (Mont(want, f) + e) % Q
  /\ Goto("sent", Half)

StartInverse ==
  /\ phase = "product" /\ Goto("inverse", Half) /\ UNCHANGED <<r, want, lost>>

(* The sum of the inverse butterfly is not reduced. *)
InverseLayerLazy ==
  /\ phase = "inverse" /\ step < Layers
  /\ \E z \in Zetas, p \in Near(width) :
       \/ Store(r + p, FALSE) /\ want' = (want + p) % Q
       \/ /\ r' = Fqmul(z, Signed16(r - p)) /\ KeptIf(Fits16(r - p))
          /\ want' = Mont(z, want - p)
  /\ width' = 2 * width
  /\ step' = step + 1 /\ UNCHANGED phase

(* A layer of invntt; r is either coefficient of its butterfly.            *)
InverseLayer ==
  /\ phase = "inverse" /\ step < Layers
  /\ \E z \in Zetas, p \in Near(width) :
       \/ Store(r + p, TRUE) /\ want' = (want + p) % Q
       \/ /\ r' = Fqmul(z, Signed16(r - p)) /\ KeptIf(Fits16(r - p))
          /\ want' = Mont(z, want - p)
  /\ width' = Reach(2 * width, Half)
  /\ step' = step + 1 /\ UNCHANGED phase

EndInverse ==
  /\ phase = "inverse" /\ step = Layers
  /\ r' = Fqmul(r, Scale) /\ want' = Mont(want, Scale) /\ UNCHANGED lost
  /\ Goto("plain", Half)

(* pB of DKE*_Response. *)
Respond ==
  /\ phase = "plain"
  /\ \E e \in Noise : Store(r + e, TRUE) /\ want' = (want + e) % Q
  /\ Goto("sent", Half)

(* kB of DKE*_Response, and kA of DKE*_DeriveSecret, which adds no noise.  *)
DeriveKey ==
  /\ phase = "plain"
  /\ \E e \in Noise :
       /\ r' = BarrettReduce(Signed16(2 * Signed16(r + e)))
       /\ KeptIf(Fits16(r + e) /\ Fits16(2 * (r + e)))
       /\ want' = (2 * (want + e)) % Q
  /\ Goto("key", Half)

Next ==
  \/ NttLayer \/ EndNtt \/ StartSum \/ AddProduct \/ EndSum \/ Publish
  \/ StartInverse \/ InverseLayer \/ EndInverse \/ Respond \/ DeriveKey

Spec == Init /\ [][Next]_vars

-----------------------------------------------------------------------------
(* The coefficient is always what exact arithmetic gives: no sum, however  *)
(* late its reduction, and no reduction loses a multiple of 2^16.          *)
Exact == (r - want) % Q = 0

(* Nothing stored in 16 bits is larger than 16 bits. *)
NothingLost == ~lost

(* What is reduced is centred, so that the one conditional addition of Q   *)
(* in poly_tobytes and getsignal gives the standard representative.        *)
Canonical(x) == IF x < 0 THEN x + Q ELSE x
SentCanonical == phase \in {"vector", "sent", "key"} => Canonical(r) = want
=============================================================================
