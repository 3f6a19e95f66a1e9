------------------------------- MODULE DkeKem -------------------------------
(***************************************************************************)
(* The DKE key-encapsulation mechanism, crypto_kem/DKE-*: the reconciling  *)
(* lattice exchange (dkecpa.c) and the Fujisaki-Okamoto transform around   *)
(* it (dkecca.c), over symbolic values.  A value is a tuple whose first    *)
(* element says how it was computed; hashes and XOFs are free constructors *)
(* (no collision), and the one-time pad is undone by its own pad only.     *)
(***************************************************************************)

CONSTANT Failing   \* coins whose noise exceeds what the signal reconciles

-----------------------------------------------------------------------------
(* DKE128_Initiate: the packed public key ends with the matrix seed.       *)
Pk(d) == [pA |-> <<"pA", d>>, seed |-> <<"seed", d>>]

(* The copy of pk in sk is that of another key. *)
KeyGenWrongPk(d, z) == [pk |-> Pk(d), sk |-> [sA |-> d, pk |-> Pk(z), z |-> z]]

(* DKEM128_KeyGen: sk = skCPA | pk | rejection value                       *)
KeyGen(d, z) == [pk |-> Pk(d), sk |-> [sA |-> d, pk |-> Pk(d), z |-> z]]

(* DKE128_Response: provisional secret and CPA ciphertext (pB, signal).    *)
Response(pk, r) == [cpa |-> <<"cpa", pk, r>>, ss |-> <<"ss", pk, r>>]

(* A CPA ciphertext hit by a small error still decodes to the same secret, *)
(* one hit by a large error does not.                                      *)
Near(cpa) == <<"near", cpa>>
Far(x)    == <<"far", x>>
Exact(cpa) == IF cpa[1] = "near" THEN cpa[2] ELSE cpa

(* DKE128_DeriveSecret *)
DeriveSecret(sA, cpa) ==
  LET c == Exact(cpa)
  IN IF c[1] = "cpa" /\ c[2] = Pk(sA) /\ c[3][2] \notin Failing
     THEN <<"ss", c[2], c[3]>> ELSE <<"noise", sA, cpa>>

Unpad(tag, ss) == IF tag[1] = "pad" /\ tag[2] = ss THEN tag[3] ELSE <<"noise", tag, ss>>

(* DKEM128_Internal: the encapsulation, deterministic in its coins.        *)
Internal(pk, coins) ==
  LET r    == <<"xof", coins, pk.seed>>
      resp == Response(pk, r)
  IN [ct |-> [cpa |-> resp.cpa, tag |-> <<"pad", resp.ss, coins>>],
      k  |-> <<"k", resp.ss>>]

(* Only the tag is compared. *)
VerifyTag(ct, ctA) == ct.tag = ctA.tag

(* DKE1_verify over the whole ciphertext, CPA part and tag. *)
Verify(ct, ctA) == ct = ctA

(* DKEM128_Decaps: undo the pad, encrypt again, and return the true key    *)
(* or the rejection key of the tag.                                        *)
Decaps(sk, ct) ==
  LET ssA   == DeriveSecret(sk.sA, ct.cpa)
      again == Internal(sk.pk, Unpad(ct.tag, ssA))
  IN IF Verify(ct, again.ct) THEN again.k ELSE <<"rej", sk.z, ct.tag>>
=============================================================================
