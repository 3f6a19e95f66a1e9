-------------------------- MODULE MCMatrixSampler --------------------------
(* Groups of three bytes with two candidates.  "Whole" has the proportions *)
(* of DKE-128 and DKE-256, blocks of whole groups, several of them squeezed*)
(* first by the reference and one by matacc; "cut" those of DKE-512, equal *)
(* first buffers whose last bytes are no group, and refills twice as long  *)
(* in the reference as in m4.                                              *)
EXTENDS MatrixSampler

MCSizes ==
  {[group |-> 3, per |-> 2, block |-> [ref |-> 6, m4 |-> 6],
    first |-> [ref |-> 2, m4 |-> 1], stream |-> TRUE],
   [group |-> 3, per |-> 2, block |-> [ref |-> 8, m4 |-> 4],
    first |-> [ref |-> 1, m4 |-> 2], stream |-> FALSE]}
=============================================================================
