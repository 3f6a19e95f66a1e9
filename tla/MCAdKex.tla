------------------------------ MODULE MCAdKex ------------------------------
(* A small exchange: the fourth draw's encapsulation does not reconcile.   *)
EXTENDS AdKex, TLC

CONSTANTS i1, i2, r1, r2, s1, s2

MCFailing == {Coins(3, "enc")}

(* Five draws without damage, or four and a damaged message. *)
FewEvents == draws + damage <= 5

Peers == Permutations(Initiators) \cup Permutations(Responders) \cup Permutations(Servers)
=============================================================================
