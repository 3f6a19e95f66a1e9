-------------------------------- MODULE AdKex --------------------------------
(***************************************************************************)
(* The two-pass authenticated key exchange of crypto_kex/ADKEX-*           *)
(* (KEX_AlgorithmInstance.c, adkex_derand.c).  Each API function is one    *)
(* action; all its state is in the buffers its caller holds (sta, stb, the *)
(* messages) and in the shared generator drng_algorithm.  No function      *)
(* checks its inputs, so any number of initiators and responders may       *)
(* interleave, restart a pass over an old buffer, and be handed messages   *)
(* that are lost, late, repeated, delivered to another peer or damaged.    *)
(***************************************************************************)
EXTENDS Naturals, FiniteSets, DkeKem

CONSTANTS
  Initiators,   \* callers with a buffer sta
  Responders,   \* callers with a buffer stb
  Servers,      \* holders of a long-term key pair (pkb, skb)
  None,         \* an unused buffer
  MaxDraws,     \* bound on the calls of get_random_number
  MaxDamage     \* bound on the number of damaged copies of messages

ASSUME AdKexAssumption == MaxDraws \in Nat /\ MaxDamage \in Nat

VARIABLES
  draws,     \* calls of get_random_number(&drng_algorithm, ...) so far
  skb,       \* long-term secret key of each server
  pkbs,      \* public keys ever published
  sta, stb,  \* the state buffers
  m1s, m2s,  \* first and second messages that may arrive, any number of times
  damage,
  offers,    \* history: the contents sta ever had, with the pkb used
  answers,   \* history: the contents stb ever had, with key and messages used
  doneA,     \* history: what kex_derive_ss_a computed, for which arguments
  doneB      \* history: what kex_derive_ss_b computed

network == <<m1s, m2s, damage>>
history == <<offers, answers, doneA, doneB>>
vars == <<draws, skb, pkbs, sta, stb, network, history>>

-----------------------------------------------------------------------------
(* The part of the coins of draw n that a function uses for one purpose.   *)
Coins(n, use) == <<"coins", n, use>>

(* The generator is not advanced by a call. *)
DrawAgain == draws < MaxDraws /\ draws' \in {draws, draws + 1}

(* get_random_number: every call returns fresh coins. *)
Draw == draws < MaxDraws /\ draws' = draws + 1

(* A transcript that leaves out the responder's public key. *)
TranscriptNoKey(pk_B, m1, m2) == <<"T", m1, m2>>

(* adkex128_transcript, sm3hash of the session key *)
Transcript(pk_B, m1, m2) == <<"T", pk_B, m1, m2>>
SessionKey(ss_e, ss_s, T) == <<"kdf", ss_e, ss_s, T>>

Init ==
  /\ draws = 0 /\ damage = 0
  /\ skb = [s \in Servers |-> None] /\ pkbs = {}
  /\ sta = [i \in Initiators |-> None] /\ stb = [r \in Responders |-> None]
  /\ m1s = {} /\ m2s = {}
  /\ offers = {} /\ answers = {} /\ doneA = {} /\ doneB = {}

(* kex_init_b, also called again when a server changes its key.            *)
InitB(s) ==
  /\ Draw
  /\ LET kp == KeyGen(Coins(draws, "d"), Coins(draws, "z"))
     IN /\ skb' = [skb EXCEPT ![s] = kp.sk]
        /\ pkbs' = pkbs \cup {kp.pk}
  /\ UNCHANGED <<sta, stb, network, history>>

(* What ADKEX128_pass1_msg_a_derand leaves in sta: sk_e || ss_s || m_1     *)
Offer(pkb, n) ==
  LET kp  == KeyGen(Coins(n, "d"), Coins(n, "z"))
      enc == Internal(pkb, Coins(n, "enc"))
  IN [sk_e |-> kp.sk, ss_s |-> enc.k, m1 |-> [M_1 |-> kp.pk, ct_S |-> enc.ct]]

(* kex_generate_pass1_msg_a overwrites whatever sta held. *)
Pass1(i, pkb) ==
  /\ Draw
  /\ sta' = [sta EXCEPT ![i] = Offer(pkb, draws)]
  /\ m1s' = m1s \cup {sta'[i].m1}
  /\ offers' = offers \cup {[who |-> i, pkb |-> pkb, sta |-> sta'[i]]}
  /\ UNCHANGED <<skb, pkbs, stb, m2s, damage, answers, doneA, doneB>>

(* kex_generate_pass2_msg_b: pk_B is the copy inside skb. *)
Pass2(r, s, m1) ==
  /\ skb[s] # None
  /\ Draw
  /\ LET pk_B == skb[s].pk
         enc  == Internal(m1.M_1, Coins(draws, "enc"))
     IN /\ stb' = [stb EXCEPT ![r] = [ss_e |-> enc.k, ss_s |-> Decaps(skb[s], m1.ct_S),
                                      T |-> Transcript(pk_B, m1, enc.ct)]]
        /\ m2s' = m2s \cup {enc.ct}
        /\ answers' = answers \cup {[who |-> r, pkb |-> pk_B, m1 |-> m1, m2 |-> enc.ct, stb |-> stb'[r]]}
  /\ UNCHANGED <<skb, pkbs, sta, m1s, damage, offers, doneA, doneB>>

(* kex_derive_ss_a: sta does not hold pk_B, the caller passes it again,    *)
(* possibly a newer one than the one of pass 1.                            *)
DeriveA(i, pkb, m2) ==
  /\ sta[i] # None
  /\ doneA' = doneA \cup
       {[who |-> i, pkb |-> pkb, sta |-> sta[i], m2 |-> m2,
         ss |-> SessionKey(Decaps(sta[i].sk_e, m2), sta[i].ss_s,
                           Transcript(pkb, sta[i].m1, m2))]}
  /\ UNCHANGED <<draws, skb, pkbs, sta, stb, network, offers, answers, doneB>>

(* kex_derive_ss_b hashes stb. *)
DeriveB(r) ==
  /\ stb[r] # None
  /\ doneB' = doneB \cup
       {[who |-> r, stb |-> stb[r], ss |-> SessionKey(stb[r].ss_e, stb[r].ss_s, stb[r].T)]}
  /\ UNCHANGED <<draws, skb, pkbs, sta, stb, network, offers, answers, doneA>>

(* Damage in transit: to the CPA part, slight or gross, or to the tag.     *)
Damaged(ct) ==
  {[ct EXCEPT !.cpa = Near(@)], [ct EXCEPT !.cpa = Far(@)], [ct EXCEPT !.tag = Far(@)]}

Intact(ct) == ct.cpa[1] = "cpa" /\ ct.tag[1] = "pad"

DamageM1(m1) ==
  /\ damage < MaxDamage /\ Intact(m1.ct_S) /\ m1.M_1.pA[1] = "pA"
  /\ m1s' = m1s \cup {[m1 EXCEPT !.ct_S = c] : c \in Damaged(m1.ct_S)}
                \cup {[m1 EXCEPT !.M_1.pA = Far(@)]}
  /\ damage' = damage + 1
  /\ UNCHANGED <<draws, skb, pkbs, sta, stb, m2s, history>>

DamageM2(m2) ==
  /\ damage < MaxDamage /\ Intact(m2)
  /\ m2s' = m2s \cup Damaged(m2)
  /\ damage' = damage + 1
  /\ UNCHANGED <<draws, skb, pkbs, sta, stb, m1s, history>>

Next ==
  \/ \E s \in Servers : InitB(s)
  \/ \E i \in Initiators, pkb \in pkbs : Pass1(i, pkb)
  \/ \E r \in Responders, s \in Servers, m1 \in m1s : Pass2(r, s, m1)
  \/ \E i \in Initiators, pkb \in pkbs, m2 \in m2s : DeriveA(i, pkb, m2)
  \/ \E r \in Responders : DeriveB(r)
  \/ \E m1 \in m1s : DamageM1(m1)
  \/ \E m2 \in m2s : DamageM2(m2)

Spec == Init /\ [][Next]_vars

-----------------------------------------------------------------------------
(* Buffers hold what a pass left in them, and public keys are published.   *)
TypeOK ==
  /\ draws \in 0 .. MaxDraws /\ damage \in 0 .. MaxDamage
  /\ \A s \in Servers : skb[s] # None => skb[s].pk = Pk(skb[s].sA) /\ skb[s].pk \in pkbs
  /\ \A i \in Initiators : sta[i] # None => sta[i] \in {o.sta : o \in offers}
  /\ \A r \in Responders : stb[r] # None => stb[r] \in {x.stb : x \in answers}
  /\ {a.sta : a \in doneA} \subseteq {o.sta : o \in offers}
  /\ {b.stb : b \in doneB} \subseteq {x.stb : x \in answers}

(* The encapsulation in an undamaged ciphertext can be undone. *)
Reconciles(ct) == ct.cpa[3][2] \notin Failing

(* Both peers saw the same exchange: pass 1 and the derivation used the    *)
(* responder's key, and both messages arrived as they were sent.           *)
SameExchange(o, a, x) ==
  /\ o.pkb = x.pkb /\ a.pkb = x.pkb
  /\ o.sta.m1 = x.m1 /\ a.m2 = x.m2

(* The keys of an initiator and a responder are equal exactly when both    *)
(* saw the same exchange: never after a lost, repeated, misdelivered,      *)
(* damaged or stale message, a restarted pass or a changed server key      *)
(* (adkex_derand.c, ADKEX128_derive_ss_a and ADKEX128_derive_ss_b).        *)
KeysAgree ==
  \A a \in doneA, b \in doneB :
    \A o \in {y \in offers : y.sta = a.sta}, x \in {y \in answers : y.stb = b.stb} :
      /\ a.ss = b.ss => SameExchange(o, a, x)
      /\ SameExchange(o, a, x) /\ Reconciles(x.m1.ct_S) /\ Reconciles(x.m2) => a.ss = b.ss

(* No two runs of the same role ever derive the same key: an initiator's   *)
(* restart, a responder's second answer to the same message.               *)
KeysDistinct ==
  /\ \A a, c \in doneA : a.ss = c.ss => a = c
  /\ \A b, c \in doneB : b.ss = c.ss => b = c

(* Decapsulation gives the encapsulated key for the right secret key and   *)
(* the ciphertext exactly as it was sent, another one in every other case  *)
(* (dkecca.c, DKEM128_Decaps).                                             *)
ImplicitRejection ==
  \A o \in offers, x \in answers :
    LET whole == o.pkb = x.pkb /\ o.sta.m1.ct_S = x.m1.ct_S
    IN /\ o.sta.ss_s = x.stb.ss_s => whole
       /\ whole /\ Reconciles(x.m1.ct_S) => o.sta.ss_s = x.stb.ss_s

-----------------------------------------------------------------------------
(* Where every value came from: which draw of the generator made it.       *)
Drawn == 0 .. draws - 1

ServerKey(k) == KeyGen(Coins(k, "d"), Coins(k, "z"))

KeysInv ==
  /\ \A pk \in pkbs : \E k \in Drawn : pk = ServerKey(k).pk
  /\ \A s \in Servers : skb[s] # None =>
       \E k \in Drawn : skb[s] = ServerKey(k).sk /\ ServerKey(k).pk \in pkbs

MadeOffer(o, n) == o = [who |-> o.who, pkb |-> o.pkb, sta |-> Offer(o.pkb, n)]

OffersInv ==
  /\ \A o \in offers : o.pkb \in pkbs /\ \E n \in Drawn : MadeOffer(o, n)
  /\ \A o, y \in offers : o.sta.m1 = y.sta.m1 => o = y
  /\ \A i \in Initiators : sta[i] # None => \E o \in offers : o.who = i /\ o.sta = sta[i]

(* Draw n answered x.m1 under the server key of draw k. *)
MadeAnswer(x, n, k) ==
  LET enc == Internal(x.m1.M_1, Coins(n, "enc"))
  IN x = [who |-> x.who, pkb |-> ServerKey(k).pk, m1 |-> x.m1, m2 |-> enc.ct,
          stb |-> [ss_e |-> enc.k, ss_s |-> Decaps(ServerKey(k).sk, x.m1.ct_S),
                   T |-> Transcript(ServerKey(k).pk, x.m1, enc.ct)]]

AnswersInv ==
  /\ \A x \in answers : \E n, k \in Drawn : MadeAnswer(x, n, k)
  /\ \A x, y \in answers : x.m2 = y.m2 => x = y
  /\ \A r \in Responders : stb[r] # None => \E x \in answers : x.who = r /\ x.stb = stb[r]

DoneInv ==
  /\ \A a \in doneA :
       /\ a = [who |-> a.who, pkb |-> a.pkb, sta |-> a.sta, m2 |-> a.m2,
               ss |-> SessionKey(Decaps(a.sta.sk_e, a.m2), a.sta.ss_s,
                                 Transcript(a.pkb, a.sta.m1, a.m2))]
       /\ \E o \in offers : o.who = a.who /\ o.sta = a.sta
  /\ \A b \in doneB :
       /\ b = [who |-> b.who, stb |-> b.stb,
               ss |-> SessionKey(b.stb.ss_e, b.stb.ss_s, b.stb.T)]
       /\ \E x \in answers : x.who = b.who /\ x.stb = b.stb

BuffersInv ==
  /\ draws \in 0 .. MaxDraws /\ damage \in 0 .. MaxDamage
  /\ skb = [s \in Servers |-> skb[s]]
  /\ sta = [i \in Initiators |-> sta[i]] /\ stb = [r \in Responders |-> stb[r]]

IInv == BuffersInv /\ KeysInv /\ OffersInv /\ AnswersInv /\ DoneInv
=============================================================================
