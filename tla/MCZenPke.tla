---------------------------- MODULE MCZenPke ------------------------------
(* Degree 16.  A blur has a spike of 97 or -97 at up to two exponents and   *)
(* again N / 2 above; two spikes that meet in a product with f carry a      *)
(* coefficient past Q / 2.                                                  *)
EXTENDS ZenPke

MCQInv == -767

(* Candidates for f: of one, two and three terms, and none; those with x    *)
(* have -x^5 + x^13 too, which cancel modulo x^4 + 1 and 2.                 *)
Candidate(terms) ==
  [j \in 0 .. N - 1 |->
     IF j \in terms \/ (j = 13 /\ 1 \in terms) THEN 1 ELSE IF j = 5 /\ 1 \in terms THEN -1 ELSE 0]
MCSamples == {Candidate(terms) : terms \in {{}, {0}, {1}, {2}, {1, 2}, {0, 1, 2}}}

MCMessages ==
  {[j \in 0 .. N4 - 1 |-> IF j \in ones THEN 1 ELSE 0] : ones \in {{}, {0, 2}, {1, 2, 3}}}

Spikes == {s \in SUBSET ((0 .. N2 - 1) \X {-97, 97}) : Cardinality(s) <= 2}
MCBlurs ==
  {[j \in 0 .. N - 1 |-> IF <<j % N2, 97>> \in s THEN 97 ELSE IF <<j % N2, -97>> \in s THEN -97 ELSE 0]
     : s \in Spikes}

(* poly_intt leaves all, or none, of the coefficients it can at the farther *)
(* representative; a sum of its last layer that wraps is 655 = fn[127] off. *)
MCFars == {{}, 0 .. N - 1}
MCWraps == {[j \in 0 .. N - 1 |-> IF j = at THEN 655 ELSE 0] : at \in {3, N}}
=============================================================================
