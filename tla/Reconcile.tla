------------------------------ MODULE Reconcile ------------------------------
(***************************************************************************)
(* The reconciliation of DKE: how the responder (B) and the initiator (A)  *)
(* of dkecpa.c turn one coefficient of their approximately equal           *)
(* polynomials kB and kA into the same key bit (dke_utils.c, poly.c and    *)
(* reduce.c of the three sizes).  B shifts kB by a random coin, sends the  *)
(* nearest of 2^l multiples of q/2^l as the signal, and both subtract it   *)
(* and take the parity of the centred rest.                                *)
(*                                                                         *)
(* kA is kB + 2e modulo q, where e is the noise of the exchange; every     *)
(* coefficient goes through these steps on its own.                        *)
(***************************************************************************)
EXTENDS Integers

CONSTANT Errors(_)   \* values of e looked at, per algorithm

Algs == {"DKE-128", "DKE-256", "DKE-512"}

ASSUME ErrorsAssumption == \A alg \in Algs : Errors(alg) \subseteq Int

(* DKE*_Q, 2^DKE*_L, and the constants of getsignal: the rounding term,    *)
(* round(2^s / q), and 2^s with s = 28 or 27, of which 2^6 are set apart.  *)
Q(alg)      == IF alg = "DKE-512" THEN 7681 ELSE 3329
Levels(alg) == IF alg = "DKE-256" THEN 32 ELSE 16
Round(alg)  == CASE alg = "DKE-128" -> 1665 [] alg = "DKE-256" -> 1664 [] alg = "DKE-512" -> 3840
Mul(alg)    == CASE alg = "DKE-128" -> 80635 [] alg = "DKE-256" -> 40318 [] alg = "DKE-512" -> 34948
Scale(alg)  == IF alg = "DKE-256" THEN 2097152 ELSE 4194304
Half(alg)   == Q(alg) \div 2

Centred(alg) == -Half(alg) .. Half(alg)

(* The value an int16_t holds after x was assigned to it. *)
Int16(x) == ((x + 32768) % 65536) - 32768

(* reduce.c: v = ((1 << 26) + q/2) / q; t = (v * a + (1 << 25)) >> 26.     *)
Barrett(alg) == (67108864 + Half(alg)) \div Q(alg)
BarrettReduce(alg, a) ==
  LET t == Int16((Barrett(alg) * a + 33554432) \div 67108864)
  IN Int16(a - Int16(t * Q(alg)))

(* getsignal: u is mapped to 0 .. q-1, scaled, rounded and masked.  The    *)
(* product (d * Mul) >> s takes d in two parts, as 64 * (d \div 64) +      *)
(* d % 64, to stay within 32 bits; what the code's uint32_t loses of it    *)
(* the mask drops as well.                                                 *)
Positive(alg, u) == IF u < 0 THEN u + Q(alg) ELSE u
Scaled(alg, u) ==
  LET d == Levels(alg) * Positive(alg, u) + Round(alg)
  IN ((d \div 64) * Mul(alg) + ((d % 64) * Mul(alg)) \div 64) \div Scale(alg)

(* GetSignal with a step left out: the rounding term, then the mask. *)
SignalUnrounded(alg, u) ==
  LET d == Levels(alg) * Positive(alg, u)
  IN (((d \div 64) * Mul(alg) + ((d % 64) * Mul(alg)) \div 64) \div Scale(alg)) % Levels(alg)

SignalUnmasked(alg, u) == Scaled(alg, u)

GetSignal(alg, u) == Scaled(alg, u) % Levels(alg)

(* fromsignal: (w * q) >> l. *)
FromSignal(alg, w) == (w * Q(alg)) \div Levels(alg)

(* apply_signal and mod2 *)
Rest(alg, k, w) == BarrettReduce(alg, Int16(k - FromSignal(alg, w)))
KeyBit(alg, k, w) == Rest(alg, k, w) % 2

-----------------------------------------------------------------------------
VARIABLES
  alg,        \* the size in use
  kB, kA,     \* the coefficient, as reduced by either side
  e,          \* the noise between them
  coin,       \* 0 or -1: a bit of the coins of B
  sig,        \* the signal, part of the ciphertext
  bitB, bitA, \* the key bits
  done          \* what was done last

rvars == <<alg, kB, kA, e, coin, sig, bitB, bitA, done>>

(* The noise leaves kA at kB + 2e, and DKE*_poly_reduce centres it.        *)
Centre(a, x) == ((x + Half(a)) % Q(a)) - Half(a)

RInit ==
  /\ alg \in Algs
  /\ kB \in Centred(alg) /\ e \in Errors(alg) /\ kA = Centre(alg, kB + 2 * e)
  /\ coin \in {0, -1}
  /\ sig = 0 /\ bitB = 0 /\ bitA = 0 /\ done = "kB"

(* DKE*_signal without rand_to_poly. *)
SignalOfK(k, b) == GetSignal(alg, BarrettReduce(alg, k))

(* DKE*_signal: rand_to_poly, add, reduce, getsignal. *)
SignalOf(k, b) == GetSignal(alg, BarrettReduce(alg, Int16(k + b)))

Signal ==
  /\ done = "kB" /\ done' = "signal"
  /\ sig' = SignalOf(kB, coin)
  /\ UNCHANGED <<alg, kB, kA, e, coin, bitB, bitA>>

(* DKE*_derive_ss at the end of DKE*_Response. *)
DeriveB ==
  /\ done = "signal" /\ done' = "B"
  /\ bitB' = KeyBit(alg, kB, sig)
  /\ UNCHANGED <<alg, kB, kA, e, coin, sig, bitA>>

(* DKE*_derive_ss at the end of DKE*_DeriveSecret. *)
DeriveA ==
  /\ done = "B" /\ done' = "A"
  /\ bitA' = KeyBit(alg, kA, sig)
  /\ UNCHANGED <<alg, kB, kA, e, coin, sig, bitB>>

RNext == Signal \/ DeriveB \/ DeriveA

RSpec == RInit /\ [][RNext]_rvars

-----------------------------------------------------------------------------
(* What a signal and a coin take from half the modulus: one half of a step *)
(* and the coin.                                                           *)
Loss(a) == Q(a) \div (2 * Levels(a)) + 1

Small(a, x) == x \in -Loss(a) .. Loss(a)
Tolerable(a, x) == 2 * x \in -(Half(a) - Loss(a)) .. Half(a) - Loss(a)

(* Coefficients are centred and the signal fits its bits.                  *)
RTypeOK ==
  /\ alg \in Algs /\ kB \in Centred(alg) /\ kA \in Centred(alg)
  /\ e \in Errors(alg) /\ coin \in {0, -1}
  /\ sig \in 0 .. Levels(alg) - 1 /\ bitB \in {0, 1} /\ bitA \in {0, 1}
  /\ done \in {"kB", "signal", "B", "A"}

(* Both sides derive the same bit whenever twice the noise stays below     *)
(* half the modulus less one half of a signal step: the reductions and the *)
(* magic constants lose nothing more (dke_utils.c, derive_ss).             *)
BitsAgree == done = "A" /\ Tolerable(alg, e) => bitA = bitB

(* The signal tells nothing of the bit: for every coefficient and coin     *)
(* there is another pair, kB moved by one with the other coin, that sends  *)
(* the same signal and has the other bit; the twin of the twin is the pair *)
(* itself (dke_utils.c, rand_to_poly).                                     *)
Twin(k, b) == <<Centre(alg, IF b = 0 THEN k + 1 ELSE k - 1), -1 - b>>
SignalHides ==
  done \in {"B", "A"} =>
    LET twin == Twin(kB, coin)
    IN /\ SignalOf(twin[1], twin[2]) = sig
       /\ KeyBit(alg, twin[1], sig) # bitB
=============================================================================
