----------------------------- MODULE MCDkePoly -----------------------------
(* The values a coefficient meets are the largest of either sign, and one  *)
(* between.  The parameters that differ: DKE-256, and DKE-512 with one     *)
(* pair of factors, 7665 and 3821, whose reduced product is large.         *)
EXTENDS DkePoly

MCQInv == -3327
MCZetas == {-1659, 1653}
MCNoise == {-2, 0, 2}
MCSome(w) == {-w, w, w \div 3}

MCQInv512 == -7679
MCZetas512 == {-3794, 3831}
MCNoise512 == {-3, 0, 3}
MCSome512(w) == {-w, w, w - 19}
=============================================================================
