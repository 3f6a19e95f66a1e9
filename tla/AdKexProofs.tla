----------------------------- MODULE AdKexProofs -----------------------------
(***************************************************************************)
(* The key exchange agrees for every number of initiators, responders,     *)
(* servers, runs and damaged messages.                                     *)
(***************************************************************************)
EXTENDS AdKex, TLAPS

(* What is encapsulated is decapsulated (dkecca.c, DKEM128_Internal and    *)
(* DKEM128_Decaps): the pad comes off and the second encryption agrees.    *)
LEMMA KemCorrect ==
  ASSUME NEW d, NEW z, NEW c, c \notin Failing
  PROVE  Decaps(KeyGen(d, z).sk, Internal(Pk(d), c).ct) = Internal(Pk(d), c).k
<1> DEFINE r  == <<"xof", c, Pk(d).seed>>
           ss == <<"ss", Pk(d), r>>
           ct == Internal(Pk(d), c).ct
           sk == KeyGen(d, z).sk
<1>1. ct.cpa = <<"cpa", Pk(d), r>> /\ ct.tag = <<"pad", ss, c>>
  BY DEF Internal, Response
<1>2. sk.sA = d /\ sk.pk = Pk(d)
  BY DEF KeyGen
<1>3. Exact(ct.cpa) = ct.cpa
  BY <1>1 DEF Exact
<1>4. DeriveSecret(d, ct.cpa) = ss
  BY <1>1, <1>3 DEF DeriveSecret
<1>5. Unpad(ct.tag, ss) = c
  BY <1>1 DEF Unpad
<1> QED BY <1>2, <1>4, <1>5 DEF Decaps, Verify

(* A true key comes from the ciphertext it was sent with and the secret    *)
(* key of the public key it was made for.                                  *)
LEMMA KemBinds ==
  ASSUME NEW sk, NEW ct, NEW pk, NEW c, Decaps(sk, ct) = Internal(pk, c).k
  PROVE  sk.pk = pk /\ ct = Internal(pk, c).ct
<1> DEFINE coins == Unpad(ct.tag, DeriveSecret(sk.sA, ct.cpa))
           again == Internal(sk.pk, coins)
<1>1. Internal(pk, c).k = <<"k", <<"ss", pk, <<"xof", c, pk.seed>>>>>>
  BY DEF Internal, Response
<1>2. again.k = <<"k", <<"ss", sk.pk, <<"xof", coins, sk.pk.seed>>>>>>
  BY DEF Internal, Response
<1>3. Decaps(sk, ct) = IF ct = again.ct THEN again.k ELSE <<"rej", sk.z, ct.tag>>
  BY DEF Decaps, Verify
<1> HIDE DEF coins, again
<1>4. <<"rej", sk.z, ct.tag>> # Internal(pk, c).k
  BY <1>1
<1>5. ct = again.ct /\ again.k = Internal(pk, c).k
  BY <1>3, <1>4
<1>6. <<"ss", sk.pk, <<"xof", coins, sk.pk.seed>>>> = <<"ss", pk, <<"xof", c, pk.seed>>>>
  BY <1>1, <1>2, <1>5
<1>7. sk.pk = pk /\ <<"xof", coins, sk.pk.seed>> = <<"xof", c, pk.seed>>
  BY <1>6
<1>8. coins = c
  BY <1>7
<1> QED BY <1>5, <1>7, <1>8 DEF again

(* Values made from different draws differ (drng.c is taken to return      *)
(* fresh coins): public keys, first messages and second messages.          *)
LEMMA KeysOfDraws ==
  ASSUME NEW n, NEW k, ServerKey(n).pk = ServerKey(k).pk
  PROVE  n = k
<1>1. ServerKey(n).pk.pA = <<"pA", Coins(n, "d")>> /\ ServerKey(k).pk.pA = <<"pA", Coins(k, "d")>>
  BY DEF ServerKey, KeyGen, Pk
<1>2. Coins(n, "d") = Coins(k, "d")
  BY <1>1
<1> QED BY <1>2 DEF Coins

LEMMA OffersOfDraws ==
  ASSUME NEW n, NEW k, NEW pk, NEW pq, Offer(pk, n).m1 = Offer(pq, k).m1
  PROVE  n = k
<1>1. Offer(pk, n).m1.M_1 = ServerKey(n).pk /\ Offer(pq, k).m1.M_1 = ServerKey(k).pk
  BY DEF Offer, ServerKey
<1> QED BY <1>1, KeysOfDraws

LEMMA AnswersOfDraws ==
  ASSUME NEW n, NEW k, NEW pk, NEW pq,
         Internal(pk, Coins(n, "enc")).ct = Internal(pq, Coins(k, "enc")).ct
  PROVE  n = k
<1>1. /\ Internal(pk, Coins(n, "enc")).ct.tag =
           <<"pad", Response(pk, <<"xof", Coins(n, "enc"), pk.seed>>).ss, Coins(n, "enc")>>
      /\ Internal(pq, Coins(k, "enc")).ct.tag =
           <<"pad", Response(pq, <<"xof", Coins(k, "enc"), pq.seed>>).ss, Coins(k, "enc")>>
  BY DEF Internal
<1>2. Coins(n, "enc") = Coins(k, "enc")
  BY <1>1
<1> QED BY <1>2 DEF Coins

-----------------------------------------------------------------------------
(* The static part: ss_s agrees exactly for an intact ciphertext.          *)
LEMMA Rejection ==
  ASSUME IInv, NEW o \in offers, NEW x \in answers
  PROVE  LET whole == o.pkb = x.pkb /\ o.sta.m1.ct_S = x.m1.ct_S
         IN /\ o.sta.ss_s = x.stb.ss_s => whole
            /\ whole /\ Reconciles(x.m1.ct_S) => o.sta.ss_s = x.stb.ss_s
<1>1. PICK n \in Drawn : MadeOffer(o, n)
  BY DEF IInv, OffersInv
<1>2. PICK l \in Drawn, k \in Drawn : MadeAnswer(x, l, k)
  BY DEF IInv, AnswersInv
<1> DEFINE c == Coins(n, "enc")
<1>3. x.pkb = ServerKey(k).pk /\ x.stb.ss_s = Decaps(ServerKey(k).sk, x.m1.ct_S)
  BY <1>2 DEF MadeAnswer
<1>4. ServerKey(k).sk.pk = x.pkb
  BY <1>3 DEF ServerKey, KeyGen
<1>5. o.sta = Offer(o.pkb, n)
  BY <1>1 DEF MadeOffer
<1>6. o.sta.ss_s = Internal(o.pkb, c).k /\ o.sta.m1.ct_S = Internal(o.pkb, c).ct
  BY <1>5 DEF Offer
<1> HIDE DEF c
<1>7. ASSUME o.sta.ss_s = x.stb.ss_s
      PROVE  o.pkb = x.pkb /\ o.sta.m1.ct_S = x.m1.ct_S
  <2>1. Decaps(ServerKey(k).sk, x.m1.ct_S) = Internal(o.pkb, c).k
    BY <1>3, <1>6, <1>7
  <2> QED BY <2>1, <1>4, <1>6, KemBinds
<1>8. ASSUME o.pkb = x.pkb, o.sta.m1.ct_S = x.m1.ct_S, Reconciles(x.m1.ct_S)
      PROVE  o.sta.ss_s = x.stb.ss_s
  <2>1. Internal(o.pkb, c).ct.cpa = <<"cpa", o.pkb, <<"xof", c, o.pkb.seed>>>>
    BY DEF Internal, Response
  <2>2. c \notin Failing
    BY <1>6, <1>8, <2>1 DEF Reconciles
  <2>3. o.pkb = Pk(Coins(k, "d"))
    BY <1>3, <1>8 DEF ServerKey, KeyGen
  <2>4. Decaps(ServerKey(k).sk, Internal(o.pkb, c).ct) = Internal(o.pkb, c).k
    BY <2>2, <2>3, KemCorrect DEF ServerKey
  <2> QED BY <1>3, <1>6, <1>8, <2>4
<1> QED BY <1>7, <1>8

LEMMA Agreement == IInv => KeysAgree
<1> SUFFICES ASSUME IInv, NEW a \in doneA, NEW b \in doneB,
                    NEW o \in offers, o.sta = a.sta, NEW x \in answers, x.stb = b.stb
             PROVE  /\ a.ss = b.ss => SameExchange(o, a, x)
                    /\ SameExchange(o, a, x) /\ Reconciles(x.m1.ct_S) /\ Reconciles(x.m2)
                         => a.ss = b.ss
  BY DEF KeysAgree
<1>1. a.ss = SessionKey(Decaps(a.sta.sk_e, a.m2), a.sta.ss_s, Transcript(a.pkb, a.sta.m1, a.m2))
  BY DEF IInv, DoneInv
<1>2. b.ss = SessionKey(x.stb.ss_e, x.stb.ss_s, x.stb.T)
  BY DEF IInv, DoneInv
<1>3. PICK n \in Drawn : MadeOffer(o, n)
  BY DEF IInv, OffersInv
<1>4. PICK l \in Drawn, k \in Drawn : MadeAnswer(x, l, k)
  BY DEF IInv, AnswersInv
<1>5. /\ x.m2 = Internal(x.m1.M_1, Coins(l, "enc")).ct
      /\ x.stb.ss_e = Internal(x.m1.M_1, Coins(l, "enc")).k
      /\ x.stb.T = Transcript(x.pkb, x.m1, x.m2)
  BY <1>4 DEF MadeAnswer
<1>6. o.sta = Offer(o.pkb, n)
  BY <1>3 DEF MadeOffer
<1>7. /\ o.sta.m1.M_1 = Pk(Coins(n, "d"))
      /\ o.sta.sk_e = KeyGen(Coins(n, "d"), Coins(n, "z")).sk
  BY <1>6 DEF Offer, KeyGen
<1>8. ASSUME a.ss = b.ss PROVE SameExchange(o, a, x)
  <2>1. /\ a.sta.ss_s = x.stb.ss_s
        /\ a.pkb = x.pkb /\ a.sta.m1 = x.m1 /\ a.m2 = x.m2
    BY <1>1, <1>2, <1>5, <1>8 DEF SessionKey, Transcript
  <2>2. o.pkb = x.pkb
    BY <2>1, Rejection
  <2> QED BY <2>1, <2>2 DEF SameExchange
<1>9. ASSUME SameExchange(o, a, x), Reconciles(x.m1.ct_S), Reconciles(x.m2)
      PROVE  a.ss = b.ss
  <2>1. o.pkb = x.pkb /\ a.pkb = x.pkb /\ a.sta.m1 = x.m1 /\ a.m2 = x.m2
    BY <1>9 DEF SameExchange
  <2>2. a.sta.ss_s = x.stb.ss_s
    BY <1>9, <2>1, Rejection
  <2>3. x.m1.M_1 = Pk(Coins(n, "d"))
    BY <1>7, <2>1
  <2> DEFINE c == Coins(l, "enc")
             M == Pk(Coins(n, "d"))
  <2>4. Internal(M, c).ct.cpa = <<"cpa", M, <<"xof", c, M.seed>>>>
    BY DEF Internal, Response
  <2> HIDE DEF c
  <2>5. x.m2 = Internal(M, c).ct /\ x.stb.ss_e = Internal(M, c).k
    BY <1>5, <2>3 DEF c
  <2>6. c \notin Failing
    BY <1>9, <2>4, <2>5 DEF Reconciles
  <2>7. Decaps(a.sta.sk_e, a.m2) = x.stb.ss_e
    BY <1>7, <2>1, <2>5, <2>6, KemCorrect
  <2> QED BY <1>1, <1>2, <1>5, <2>1, <2>2, <2>7
<1> QED BY <1>8, <1>9

LEMMA Distinctness == IInv => KeysDistinct
<1> SUFFICES ASSUME IInv PROVE KeysDistinct
  OBVIOUS
<1>1. ASSUME NEW a \in doneA, NEW c \in doneA, a.ss = c.ss PROVE a = c
  <2>1. PICK o \in offers : o.who = a.who /\ o.sta = a.sta
    BY DEF IInv, DoneInv
  <2>2. PICK y \in offers : y.who = c.who /\ y.sta = c.sta
    BY DEF IInv, DoneInv
  <2>3. a.pkb = c.pkb /\ a.sta.m1 = c.sta.m1 /\ a.m2 = c.m2
    <3>1. /\ a.ss = SessionKey(Decaps(a.sta.sk_e, a.m2), a.sta.ss_s,
                              Transcript(a.pkb, a.sta.m1, a.m2))
          /\ c.ss = SessionKey(Decaps(c.sta.sk_e, c.m2), c.sta.ss_s,
                              Transcript(c.pkb, c.sta.m1, c.m2))
      BY DEF IInv, DoneInv
    <3>2. SessionKey(Decaps(a.sta.sk_e, a.m2), a.sta.ss_s, Transcript(a.pkb, a.sta.m1, a.m2))
            = SessionKey(Decaps(c.sta.sk_e, c.m2), c.sta.ss_s, Transcript(c.pkb, c.sta.m1, c.m2))
      BY <1>1, <3>1
    <3>3. Transcript(a.pkb, a.sta.m1, a.m2) = Transcript(c.pkb, c.sta.m1, c.m2)
      BY <3>2 DEF SessionKey
    <3> QED BY <3>3 DEF Transcript
  <2>4. o = y
    BY <2>1, <2>2, <2>3 DEF IInv, OffersInv
  <2>6. a.who = c.who /\ a.sta = c.sta
    BY <2>1, <2>2, <2>4
  <2>7. /\ a = [who |-> a.who, pkb |-> a.pkb, sta |-> a.sta, m2 |-> a.m2,
                 ss |-> SessionKey(Decaps(a.sta.sk_e, a.m2), a.sta.ss_s,
                                   Transcript(a.pkb, a.sta.m1, a.m2))]
         /\ c = [who |-> c.who, pkb |-> c.pkb, sta |-> c.sta, m2 |-> c.m2,
                 ss |-> SessionKey(Decaps(c.sta.sk_e, c.m2), c.sta.ss_s,
                                   Transcript(c.pkb, c.sta.m1, c.m2))]
    BY DEF IInv, DoneInv
  <2> QED BY <2>3, <2>6, <2>7
<1>2. ASSUME NEW b \in doneB, NEW c \in doneB, b.ss = c.ss PROVE b = c
  <2>1. PICK x \in answers : x.who = b.who /\ x.stb = b.stb
    BY DEF IInv, DoneInv
  <2>2. PICK y \in answers : y.who = c.who /\ y.stb = c.stb
    BY DEF IInv, DoneInv
  <2>5. /\ b.ss = SessionKey(x.stb.ss_e, x.stb.ss_s, x.stb.T)
        /\ c.ss = SessionKey(y.stb.ss_e, y.stb.ss_s, y.stb.T)
    BY <2>1, <2>2 DEF IInv, DoneInv
  <2>6. x.stb.T = Transcript(x.pkb, x.m1, x.m2) /\ y.stb.T = Transcript(y.pkb, y.m1, y.m2)
    BY DEF IInv, AnswersInv, MadeAnswer
  <2>7. x.stb.T = y.stb.T
    <3>1. SessionKey(x.stb.ss_e, x.stb.ss_s, x.stb.T) = SessionKey(y.stb.ss_e, y.stb.ss_s, y.stb.T)
      BY <1>2, <2>5
    <3> QED BY <3>1 DEF SessionKey
  <2>8. x.m2 = y.m2
    BY <2>6, <2>7 DEF Transcript
  <2>9. x = y
    BY <2>8 DEF IInv, AnswersInv
  <2>10. /\ b = [who |-> b.who, stb |-> b.stb,
                 ss |-> SessionKey(b.stb.ss_e, b.stb.ss_s, b.stb.T)]
         /\ c = [who |-> c.who, stb |-> c.stb,
                 ss |-> SessionKey(c.stb.ss_e, c.stb.ss_s, c.stb.T)]
    BY DEF IInv, DoneInv
  <2> QED BY <2>1, <2>2, <2>9, <2>10
<1> QED BY <1>1, <1>2 DEF KeysDistinct

-----------------------------------------------------------------------------
LEMMA InitInv == Init => IInv
BY AdKexAssumption DEF AdKexAssumption, Init, IInv, BuffersInv, KeysInv, OffersInv, AnswersInv, DoneInv, Drawn

(* A draw more leaves what was made from earlier draws as it was, and the  *)
(* new one has made nothing yet.                                           *)
LEMMA DrawStep ==
  ASSUME IInv, Draw
  PROVE  /\ draws' \in 0 .. MaxDraws /\ Drawn' = Drawn \cup {draws}
         /\ draws \notin Drawn
         /\ \A o \in offers : \A pk : o.sta.m1 # Offer(pk, draws).m1
         /\ \A x \in answers : \A pk : x.m2 # Internal(pk, Coins(draws, "enc")).ct
<1>1. draws' = draws + 1 /\ draws' \in 0 .. MaxDraws /\ draws \in Nat
  BY AdKexAssumption DEF AdKexAssumption, Draw, IInv, BuffersInv
<1>2. Drawn' = Drawn \cup {draws} /\ draws \notin Drawn
  BY <1>1 DEF Drawn
<1>3. ASSUME NEW o \in offers, NEW pk, o.sta.m1 = Offer(pk, draws).m1 PROVE FALSE
  <2>1. PICK n \in Drawn : MadeOffer(o, n)
    BY DEF IInv, OffersInv
  <2>2. o.sta = Offer(o.pkb, n)
    BY <2>1 DEF MadeOffer
  <2>3. n = draws
    BY <1>3, <2>2, OffersOfDraws
  <2> QED BY <1>2, <2>3
<1>4. ASSUME NEW x \in answers, NEW pk, x.m2 = Internal(pk, Coins(draws, "enc")).ct
      PROVE  FALSE
  <2>1. PICK n \in Drawn, k \in Drawn : MadeAnswer(x, n, k)
    BY DEF IInv, AnswersInv
  <2>2. x.m2 = Internal(x.m1.M_1, Coins(n, "enc")).ct
    BY <2>1 DEF MadeAnswer
  <2>3. n = draws
    BY <1>4, <2>2, AnswersOfDraws
  <2> QED BY <1>2, <2>3
<1> QED BY <1>1, <1>2, <1>3, <1>4

LEMMA InitBStep ==
  ASSUME IInv, NEW s \in Servers, InitB(s) PROVE IInv'
<1>1. Draw /\ UNCHANGED <<sta, stb, m1s, m2s, damage, offers, answers, doneA, doneB>>
  BY DEF InitB, network, history
<1>2. /\ draws' \in 0 .. MaxDraws /\ Drawn' = Drawn \cup {draws}
  BY <1>1, DrawStep
<1>3. skb' = [skb EXCEPT ![s] = ServerKey(draws).sk] /\ pkbs' = pkbs \cup {ServerKey(draws).pk}
  BY DEF InitB, ServerKey
<1>4. BuffersInv'
  BY <1>1, <1>2, <1>3 DEF IInv, BuffersInv
<1>5. KeysInv'
  BY <1>2, <1>3 DEF IInv, BuffersInv, KeysInv
<1>6. OffersInv'
  BY <1>1, <1>2, <1>3 DEF IInv, OffersInv
<1>7. AnswersInv'
  BY <1>1, <1>2 DEF IInv, AnswersInv
<1>8. DoneInv'
  BY <1>1 DEF IInv, DoneInv
<1> QED BY <1>4, <1>5, <1>6, <1>7, <1>8 DEF IInv

LEMMA Pass1Step ==
  ASSUME IInv, NEW i \in Initiators, NEW pkb \in pkbs, Pass1(i, pkb) PROVE IInv'
<1> DEFINE new == [who |-> i, pkb |-> pkb, sta |-> Offer(pkb, draws)]
<1>1. Draw /\ UNCHANGED <<skb, pkbs, stb, damage, answers, doneA, doneB>>
  BY DEF Pass1
<1>2. /\ draws' \in 0 .. MaxDraws /\ Drawn' = Drawn \cup {draws}
      /\ \A o \in offers : o.sta.m1 # Offer(pkb, draws).m1
  BY <1>1, DrawStep
<1>3. sta' = [sta EXCEPT ![i] = Offer(pkb, draws)]
  BY DEF Pass1
<1>4. sta'[i] = Offer(pkb, draws)
  BY <1>3 DEF IInv, BuffersInv
<1>5. offers' = offers \cup {new}
  BY <1>4 DEF Pass1
<1>6. MadeOffer(new, draws)
  BY DEF MadeOffer
<1>7. new.who = i /\ new.pkb = pkb /\ new.sta = Offer(pkb, draws)
  OBVIOUS
<1> HIDE DEF new
<1>8. BuffersInv'
  BY <1>1, <1>2, <1>3 DEF IInv, BuffersInv
<1>9. KeysInv'
  BY <1>1, <1>2 DEF IInv, KeysInv
<1>10. OffersInv'
  <2>1. \A o \in offers' : o.pkb \in pkbs' /\ \E n \in Drawn' : MadeOffer(o, n)
    BY <1>1, <1>2, <1>5, <1>6, <1>7 DEF IInv, OffersInv
  <2>2. \A o, y \in offers' : o.sta.m1 = y.sta.m1 => o = y
    BY <1>2, <1>5, <1>7 DEF IInv, OffersInv
  <2>3. \A j \in Initiators : sta'[j] # None => \E o \in offers' : o.who = j /\ o.sta = sta'[j]
    <3> TAKE j \in Initiators
    <3>1. CASE j = i
      BY <1>4, <1>5, <1>7, <3>1
    <3>2. CASE j # i
      BY <1>3, <1>5, <3>2 DEF IInv, OffersInv, BuffersInv
    <3> QED BY <3>1, <3>2
  <2> QED BY <2>1, <2>2, <2>3 DEF OffersInv
<1>11. AnswersInv'
  BY <1>1, <1>2 DEF IInv, AnswersInv
<1>12. DoneInv'
  BY <1>1, <1>5 DEF IInv, DoneInv
<1> QED BY <1>8, <1>9, <1>10, <1>11, <1>12 DEF IInv

LEMMA Pass2Step ==
  ASSUME IInv, NEW r \in Responders, NEW s \in Servers, NEW m1 \in m1s, Pass2(r, s, m1)
  PROVE  IInv'
<1>1. PICK k \in Drawn : skb[s] = ServerKey(k).sk
  BY DEF Pass2, IInv, KeysInv
<1> DEFINE enc == Internal(m1.M_1, Coins(draws, "enc"))
           state == [ss_e |-> enc.k, ss_s |-> Decaps(skb[s], m1.ct_S),
                     T |-> Transcript(skb[s].pk, m1, enc.ct)]
           new == [who |-> r, pkb |-> skb[s].pk, m1 |-> m1, m2 |-> enc.ct, stb |-> state]
<1>2. Draw /\ UNCHANGED <<skb, pkbs, sta, damage, offers, doneA, doneB>>
  BY DEF Pass2
<1>3. /\ draws' \in 0 .. MaxDraws /\ Drawn' = Drawn \cup {draws}
      /\ \A x \in answers : x.m2 # enc.ct
  BY <1>2, DrawStep
<1>4. stb' = [stb EXCEPT ![r] = state]
  BY DEF Pass2
<1>5. stb'[r] = state
  BY <1>4 DEF IInv, BuffersInv
<1>6. answers' = answers \cup {new}
  BY <1>5 DEF Pass2
<1>7. skb[s].pk = ServerKey(k).pk
  BY <1>1 DEF ServerKey, KeyGen
<1>8. MadeAnswer(new, draws, k)
  BY <1>1, <1>7 DEF MadeAnswer
<1>9. new.who = r /\ new.m2 = enc.ct /\ new.stb = state
  OBVIOUS
<1> HIDE DEF new, state, enc
<1>10. BuffersInv'
  BY <1>2, <1>3, <1>4 DEF IInv, BuffersInv
<1>11. KeysInv'
  BY <1>2, <1>3 DEF IInv, KeysInv
<1>12. OffersInv'
  BY <1>2, <1>3 DEF IInv, OffersInv
<1>13. AnswersInv'
  <2>1. \A x \in answers' : \E n, l \in Drawn' : MadeAnswer(x, n, l)
    BY <1>3, <1>6, <1>8 DEF IInv, AnswersInv
  <2>2. \A x, y \in answers' : x.m2 = y.m2 => x = y
    BY <1>3, <1>6, <1>9 DEF IInv, AnswersInv
  <2>3. \A q \in Responders : stb'[q] # None => \E x \in answers' : x.who = q /\ x.stb = stb'[q]
    <3> TAKE q \in Responders
    <3>1. CASE q = r
      BY <1>5, <1>6, <1>9, <3>1
    <3>2. CASE q # r
      BY <1>4, <1>6, <3>2 DEF IInv, AnswersInv, BuffersInv
    <3> QED BY <3>1, <3>2
  <2> QED BY <2>1, <2>2, <2>3 DEF AnswersInv
<1>14. DoneInv'
  BY <1>2, <1>6 DEF IInv, DoneInv
<1> QED BY <1>10, <1>11, <1>12, <1>13, <1>14 DEF IInv

LEMMA DeriveAStep ==
  ASSUME IInv, NEW i \in Initiators, NEW pkb \in pkbs, NEW m2 \in m2s, DeriveA(i, pkb, m2)
  PROVE  IInv'
<1> DEFINE new == [who |-> i, pkb |-> pkb, sta |-> sta[i], m2 |-> m2,
                   ss |-> SessionKey(Decaps(sta[i].sk_e, m2), sta[i].ss_s,
                                     Transcript(pkb, sta[i].m1, m2))]
<1>1. UNCHANGED <<draws, skb, pkbs, sta, stb, damage, offers, answers, doneB>>
  BY DEF DeriveA, network
<1>2. doneA' = doneA \cup {new}
  BY DEF DeriveA
<1>3. PICK o \in offers : o.who = i /\ o.sta = sta[i]
  BY DEF DeriveA, IInv, OffersInv
<1>4. DoneInv'
  BY <1>1, <1>2, <1>3 DEF IInv, DoneInv
<1> QED
  BY <1>1, <1>4 DEF IInv, BuffersInv, KeysInv, OffersInv, AnswersInv, Drawn

LEMMA DeriveBStep ==
  ASSUME IInv, NEW r \in Responders, DeriveB(r) PROVE IInv'
<1> DEFINE new == [who |-> r, stb |-> stb[r],
                   ss |-> SessionKey(stb[r].ss_e, stb[r].ss_s, stb[r].T)]
<1>1. UNCHANGED <<draws, skb, pkbs, sta, stb, damage, offers, answers, doneA>>
  BY DEF DeriveB, network
<1>2. doneB' = doneB \cup {new}
  BY DEF DeriveB
<1>3. PICK x \in answers : x.who = r /\ x.stb = stb[r]
  BY DEF DeriveB, IInv, AnswersInv
<1>4. DoneInv'
  BY <1>1, <1>2, <1>3 DEF IInv, DoneInv
<1> QED
  BY <1>1, <1>4 DEF IInv, BuffersInv, KeysInv, OffersInv, AnswersInv, Drawn

LEMMA NextInv == IInv /\ [Next]_vars => IInv'
<1> SUFFICES ASSUME IInv, [Next]_vars PROVE IInv'
  OBVIOUS
<1>1. CASE \E s \in Servers : InitB(s)
  BY <1>1, InitBStep
<1>2. CASE \E i \in Initiators, pkb \in pkbs : Pass1(i, pkb)
  BY <1>2, Pass1Step
<1>3. CASE \E r \in Responders, s \in Servers, m1 \in m1s : Pass2(r, s, m1)
  BY <1>3, Pass2Step
<1>4. CASE \E i \in Initiators, pkb \in pkbs, m2 \in m2s : DeriveA(i, pkb, m2)
  BY <1>4, DeriveAStep
<1>5. CASE \E r \in Responders : DeriveB(r)
  BY <1>5, DeriveBStep
<1>6. CASE (\E m1 \in m1s : DamageM1(m1)) \/ (\E m2 \in m2s : DamageM2(m2))
  <2>1. /\ UNCHANGED <<draws, skb, pkbs, sta, stb, offers, answers, doneA, doneB>>
        /\ damage < MaxDamage /\ damage' = damage + 1
    BY <1>6 DEF DamageM1, DamageM2, history
  <2>2. damage' \in 0 .. MaxDamage
    BY <2>1, AdKexAssumption DEF AdKexAssumption, IInv, BuffersInv
  <2> QED
    BY <2>1, <2>2 DEF IInv, BuffersInv, KeysInv, OffersInv, AnswersInv, DoneInv, Drawn
<1>7. CASE UNCHANGED vars
  BY <1>7 DEF vars, network, history, IInv, BuffersInv, KeysInv, OffersInv, AnswersInv, DoneInv,
     Drawn
<1> QED BY <1>1, <1>2, <1>3, <1>4, <1>5, <1>6, <1>7 DEF Next

(* Every value held or derived was made by one draw of the generator and   *)
(* one API call (adkex_derand.c, all five functions).                      *)
THEOREM ExchangeInvariant == Spec => []IInv
BY InitInv, NextInv, PTL DEF Spec

(* Buffers hold what a pass left in them (KEX_AlgorithmInstance.c).        *)
THEOREM ExchangeTypes == Spec => []TypeOK
<1>1. IInv => TypeOK
  BY DEF IInv, BuffersInv, KeysInv, OffersInv, AnswersInv, DoneInv, TypeOK, ServerKey, KeyGen
<1> QED BY <1>1, ExchangeInvariant, PTL

(* ADKEX128_derive_ss_a and ADKEX128_derive_ss_b give equal keys exactly   *)
(* when both peers saw the same exchange.                                  *)
THEOREM ExchangeAgrees == Spec => []KeysAgree
BY Agreement, ExchangeInvariant, PTL

(* Different runs of ADKEX128_derive_ss_a, and of ADKEX128_derive_ss_b,    *)
(* give different keys.                                                    *)
THEOREM ExchangeDistinct == Spec => []KeysDistinct
BY Distinctness, ExchangeInvariant, PTL

(* DKEM128_Decaps accepts exactly the ciphertext that was sent to its key. *)
THEOREM ExchangeRejects == Spec => []ImplicitRejection
<1>1. IInv => ImplicitRejection
  BY Rejection DEF ImplicitRejection
<1> QED BY <1>1, ExchangeInvariant, PTL
=============================================================================
