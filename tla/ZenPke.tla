------------------------------- MODULE ZenPke -------------------------------
(***************************************************************************)
(* The public-key encryption under the ZEN KEM (pke.c): key generation,    *)
(* which tries candidates until they are invertible and inverts f modulo   *)
(* 2 by doubling, encryption, and decryption with its correction of        *)
(* coefficients that left the centred range.  Polynomials are functions    *)
(* from their exponents.  The number-theoretic transforms are the products *)
(* they compute, up to what the inverse one leaves of them in 16 bits, and *)
(* h s + e of the encryption is any blur of the message.                   *)
(***************************************************************************)
EXTENDS Integers, FiniteSets

CONSTANTS
  N4,       \* ZEN_N4, a power of two: bits of a message
  Q, QInv,  \* ZEN_Q, QINV
  Mont,     \* MONT, 2^16 modulo Q
  Nonces,   \* values of the one-byte nonce
  Samples,  \* candidates for f
  Messages, \* the messages sent
  Blurs,    \* what an encryption adds to the message: h s + e
  Reach,    \* poly_intt leaves coefficients of at most this size, beyond Q / 2
  Fars,     \* sets of exponents at which it leaves the farther representative
  Wraps     \* what 16-bit sums of it that wrapped add to the product

N == 4 * N4
N2 == 2 * N4
Q2 == Q \div 2

(* Twice a proper divisor of N4 divides it too: it is a power of two. *)
PowerOfTwo == \A d \in 1 .. N4 - 1 : N4 % d = 0 => N4 % (2 * d) = 0

ASSUME ZenAssumption ==
  /\ PowerOfTwo
  /\ N4 \in Nat \ {0, 1} /\ Q \in Nat \ {0} /\ QInv \in Int /\ Mont \in Int /\ Nonces \in Nat \ {0}
  /\ Samples \subseteq [0 .. N - 1 -> -1 .. 1]
  /\ Messages \subseteq [0 .. N4 - 1 -> {0, 1}] /\ Blurs \subseteq [0 .. N - 1 -> Int]
  /\ Reach \in Nat /\ Wraps \subseteq [0 .. N - 1 -> Int]

-----------------------------------------------------------------------------
Sum(n, term(_)) ==
  LET upTo[i \in 0 .. n] == IF i = 0 THEN 0 ELSE upTo[i - 1] + term(i - 1) IN upTo[n]

Signed16(x) == ((x + 32768) % 65536) - 32768
MontgomeryReduce(x) == (x - Signed16(Signed16(x) * QInv) * Q) \div 65536

(* The representative modulo Q that is nearest to zero. *)
Centre(x) == ((x + Q2) % Q) - Q2

(* The other small one, and what poly_intt leaves of a residue. *)
Abs(x) == IF x < 0 THEN -x ELSE x
Other(x) == IF x > 0 THEN x - Q ELSE x + Q
Leave(x, far) == IF far /\ Abs(Other(x)) <= Reach THEN Other(x) ELSE x

(* Products modulo x^n + 1 over {0,1}, where a sum is the parity of its     *)
(* terms, and modulo x^N + 1 and Q.                                        *)
Times2(n, p, q) ==
  [j \in 0 .. n - 1 |-> Cardinality({i \in 0 .. n - 1 : p[i] = 1 /\ q[(j + n - i) % n] = 1}) % 2]
TimesQ(p, q) ==
  [j \in 0 .. N - 1 |->
     Centre(Sum(N, LAMBDA i : IF i <= j THEN p[i] * q[j - i] ELSE -p[i] * q[N + j - i]))]

(* A polynomial over {0,1} modulo x^n + 1. *)
Fold(p, length, n) ==
  [j \in 0 .. n - 1 |-> Cardinality({i \in 0 .. length - 1 : i % n = j /\ p[i] % 2 = 1}) % 2]

Xor(p, q) == [j \in DOMAIN p |-> (p[j] + q[j]) % 2]

(* k[j] ^= k[j - n], first to last. *)
Divide(p, n) == [j \in 0 .. N4 - 1 |-> Cardinality({i \in 0 .. j : i % n = j % n /\ p[i] = 1}) % 2]

Extend(p, n) == [j \in 0 .. N4 - 1 |-> IF j < n THEN p[j] ELSE 0]

-----------------------------------------------------------------------------
VARIABLES
  phase,   \* "f", "invert", "g", "keys", "packed", "sent",
           \* "multiplied", "decrypted"
  tries,   \* per nonce: the candidate for f, and whether f and g have no zero block modulo Q
  nonce,   \* the next one
  fNonce, gNonce,  \* those of the candidates being tested
  f,       \* the key, and a candidate before
  level,   \* finv is right modulo x^level + 1
  k, finv, \* FastInversion
  msg, ct, \* a message, and the compressed ciphertext
  a,       \* (x^N2 + 1) times ct times f
  got      \* the decryption
keygen == <<tries, nonce, fNonce, gNonce, level, k>>
vars == <<phase, keygen, f, finv, msg, ct, a, got>>

Zero(n) == [j \in 0 .. n - 1 |-> 0]
One == [j \in 0 .. N4 - 1 |-> IF j = 0 THEN 1 ELSE 0]

Init ==
  /\ phase = "f" /\ level = 1 /\ k = Zero(N4) /\ finv = One
  /\ tries \in [0 .. Nonces - 1 -> [f : Samples, fOk : BOOLEAN, gOk : BOOLEAN]]
  /\ nonce = 1 % Nonces /\ fNonce = 0 /\ gNonce = 0 /\ f = tries[0].f
  /\ msg = Zero(N4) /\ ct = Zero(N) /\ a = Zero(N) /\ got = Zero(N4)

(* f modulo x^N4 + 1 and 2, and whether it has an odd number of terms.     *)
F2 == Fold(f, N, N4)
Invertible2 == Cardinality({i \in 0 .. N4 - 1 : F2[i] = 1}) % 2 = 1

(* The next candidate comes from the same nonce. *)
RetryFSame ==
  /\ phase = "f" /\ ~(Invertible2 /\ tries[fNonce].fOk)
  /\ fNonce' = nonce /\ f' = tries[nonce].f
  /\ UNCHANGED <<phase, tries, nonce, gNonce, level, k, finv, msg, ct, a, got>>

RetryF ==
  /\ phase = "f" /\ ~(Invertible2 /\ tries[fNonce].fOk)
  /\ fNonce' = nonce /\ f' = tries[nonce].f /\ nonce' = (nonce + 1) % Nonces
  /\ UNCHANGED <<phase, tries, gNonce, level, k, finv, msg, ct, a, got>>

(* FastInversion begins with (f + 1) / (x + 1), without the 1: it is what   *)
(* the division leaves over.                                                *)
AcceptF ==
  /\ phase = "f" /\ Invertible2 /\ tries[fNonce].fOk
  /\ phase' = "invert" /\ level' = 1 /\ finv' = One /\ k' = Divide(F2, 1)
  /\ UNCHANGED <<tries, nonce, fNonce, gNonce, f, msg, ct, a, got>>

(* k is not divided. *)
InvertLevelUndivided ==
  /\ phase = "invert" /\ level < N4
  /\ LET b == Times2(level, finv, Fold(k, N4, level))
     IN /\ k' = Xor(k, Times2(N4, Extend(b, level), F2))
        /\ finv' = Xor(finv, [j \in 0 .. N4 - 1 |-> IF j < 2 * level THEN b[j % level] ELSE 0])
  /\ level' = 2 * level
  /\ UNCHANGED <<phase, tries, nonce, fNonce, gNonce, f, msg, ct, a, got>>

(* One level of FastInversion: b = k / f modulo x^n + 1 makes the inverse   *)
(* right modulo its square.                                                 *)
InvertLevel ==
  /\ phase = "invert" /\ level < N4
  /\ LET b == Times2(level, finv, Fold(k, N4, level))
     IN /\ k' = Divide(Xor(k, Times2(N4, Extend(b, level), F2)), level)
        /\ finv' = Xor(finv, [j \in 0 .. N4 - 1 |-> IF j < 2 * level THEN b[j % level] ELSE 0])
  /\ level' = 2 * level
  /\ UNCHANGED <<phase, tries, nonce, fNonce, gNonce, f, msg, ct, a, got>>

StartG ==
  /\ phase = "invert" /\ level = N4 /\ phase' = "g"
  /\ gNonce' = nonce /\ nonce' = (nonce + 1) % Nonces
  /\ UNCHANGED <<tries, fNonce, f, level, k, finv, msg, ct, a, got>>

TestG ==
  /\ phase = "g"
  /\ IF tries[gNonce].gOk THEN phase' = "keys" /\ UNCHANGED <<nonce, gNonce>>
     ELSE gNonce' = nonce /\ nonce' = (nonce + 1) % Nonces /\ UNCHANGED phase
  /\ UNCHANGED <<tries, fNonce, f, level, k, finv, msg, ct, a, got>>

(* poly_compress and poly_decompress: eight bits of x in 0 .. Q - 1.       *)
Compress(x) == (((2 * x + 3) * 10908) \div 65536) % 256
Decompress(x) == (x * Q + 128) \div 256

(* The secret key is f and finv; the locals of key generation are gone.    *)
Pack ==
  /\ phase = "keys" /\ phase' = "packed"
  /\ tries' = <<>> /\ nonce' = 0 /\ fNonce' = 0 /\ gNonce' = 0 /\ k' = Zero(N4)
  /\ UNCHANGED <<f, level, finv, msg, ct, a, got>>

(* pke_enc: bit j is in four coefficients. *)
Encrypt ==
  /\ phase = "packed" /\ phase' = "sent"
  /\ \E m \in Messages, blur \in Blurs :
       /\ msg' = m
       /\ ct' = [j \in 0 .. N - 1 |-> Compress((blur[j] + m[j % N4] * ((Q + 1) \div 2)) % Q)]
  /\ UNCHANGED <<keygen, f, finv, a, got>>

(* pke_dec: ct times f, as poly_intt leaves it, times x^N2 + 1.             *)
Multiply ==
  /\ phase = "sent" /\ phase' = "multiplied"
  /\ LET t == TimesQ([j \in 0 .. N - 1 |-> Decompress(ct[j])], f)
     IN \E far \in Fars, wrap \in Wraps :
          LET p == [j \in 0 .. N - 1 |-> Leave(Centre(t[j] + wrap[j]), j \in far)]
          IN a' = [j \in 0 .. N - 1 |->
                     MontgomeryReduce((IF j < N2 THEN p[j + N2] - p[j] ELSE p[j - N2] + p[j]) * Mont)]
  /\ UNCHANGED <<keygen, f, finv, msg, ct, got>>

Least(x, y) == IF x <= y THEN x ELSE y
Near(j) == Q2 - Abs(a[j])

(* Which of the coefficients of place i is nearest to Q / 2.               *)
EvenWins(i) == Least(Near(i), Near(i + N2)) <= Least(Near(i + N4), Near(i + 3 * N4))

(* The parity of the coefficients of place i but one. *)
DeltaOfThree(i) == (a[i] + a[i + N4] + a[i + N2]) % 2

(* The parity of the four coefficients of place i: they are copies.        *)
Delta(i) == (a[i] + a[i + N4] + a[i + N2] + a[i + 3 * N4]) % 2

(* t2, before it is multiplied by f2.  A place without an error selects     *)
(* exponent 0.                                                              *)
Correction ==
  LET exponent(i) == IF Delta(i) = 0 THEN 0 ELSE IF EvenWins(i) THEN i ELSE i + N4
  IN [j \in 0 .. N2 - 1 |-> Cardinality({i \in 0 .. N4 - 1 : exponent(i) = j}) % 2]

Wide(p) == [j \in 0 .. N2 - 1 |-> IF j < N4 THEN p[j] ELSE 0]

SimpleDecode ==
  /\ phase = "multiplied" /\ phase' = "decrypted"
  /\ LET mp == Times2(N2, Fold(a, N, N2), Wide(finv))
         t2 == Times2(N2, Correction, Wide(finv))
     IN got' = [j \in 0 .. N4 - 1 |-> (mp[j] + t2[j]) % 2]
  /\ UNCHANGED <<keygen, f, finv, msg, ct, a>>

Next ==
  RetryF \/ AcceptF \/ InvertLevel \/ StartG \/ TestG \/ Pack \/ Encrypt
  \/ Multiply \/ SimpleDecode

(* A sequential program takes its next step. *)
Spec == Init /\ [][Next]_vars /\ WF_vars(Next)

-----------------------------------------------------------------------------
(* FastInversion doubles the precision at each level: f times finv is 1    *)
(* modulo x^level + 1, although the code divides f and not f + 1.          *)
Inverts ==
  phase # "f" =>
    Times2(level, Fold(f, N, level), Fold(finv, N4, level)) = [j \in 0 .. level - 1 |-> One[j]]

(* Places whose parity is not that of message times f: a coefficient left   *)
(* the centred range.                                                       *)
Flipped ==
  LET twice == [j \in 0 .. N2 - 1 |-> msg[j % N4]]
      sum == Fold(a, N, N2)
      clean == Times2(N2, twice, Fold(f, N, N2))
  IN {j \in 0 .. N2 - 1 : sum[j] # clean[j]}

(* One coefficient of a place left the range, and it is the one that came   *)
(* back nearest to the edge.                                                *)
Correctable(i) ==
  \/ Flipped \cap {i, i + N4} = {}
  \/ Flipped \cap {i, i + N4} = {IF EvenWins(i) THEN i ELSE i + N4}
AllCorrectable == \A i \in 0 .. N4 - 1 : Correctable(i)

(* What can be corrected is corrected when the number of errors is even: in *)
(* particular without any, for every f, message and blur.                   *)
EvenDecrypts ==
  phase = "decrypted" /\ AllCorrectable /\ Cardinality(Flipped) % 2 = 0 => got = msg

(* A single error is corrected: the product of S, in which only places with *)
(* an error stand for a term, and f_inv is the correction (m4/pke.c:144).   *)
OneErrorCorrected ==
  phase = "decrypted" /\ AllCorrectable /\ Cardinality(Flipped) = 1 => got = msg

Suitable(n) == Sum(N, LAMBDA i : tries[n].f[i]) % 2 = 1 /\ tries[n].fOk

(* Key generation ends although its nonce comes round, if any nonce has an  *)
(* f and any a g.                                                           *)
CanHaveKeys ==
  /\ phase \in {"f", "invert", "g"}
  /\ (\E n \in 0 .. Nonces - 1 : Suitable(n)) /\ (\E n \in 0 .. Nonces - 1 : tries[n].gOk)
KeyGenEnds == CanHaveKeys ~> phase = "keys"
=============================================================================
