---------------------------- MODULE MCBenchmark ----------------------------
(* An implementation with two applications; a single run on a board, two   *)
(* with --fail-fast on a board, two in QEMU.                               *)
EXTENDS Benchmark

MCImpls == <<"m4">>

MCTargets == <<[impl |-> "m4", app |-> "speed"], [impl |-> "m4", app |-> "stack"]>>

MCArgs == {[runner |-> "board",   runs |-> 1, fail_fast |-> FALSE],
           [runner |-> "board",   runs |-> 2, fail_fast |-> TRUE],
           [runner |-> "command", runs |-> 2, fail_fast |-> FALSE]}
=============================================================================
