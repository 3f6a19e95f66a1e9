---------------------------- MODULE MCReconcile ----------------------------
(* No noise, the least, and the largest noise tolerated with its next.     *)
EXTENDS Reconcile

MCErrors(a) ==
  LET most == (Half(a) - Loss(a)) \div 2
  IN {-most - 1, -most, -1, 0, 1, most, most + 1}
=============================================================================
