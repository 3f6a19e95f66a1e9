---------------------------- MODULE MCBuildSync ----------------------------
(* Applications of one implementation: speed and test link the ordinary    *)
(* library, hashing the one compiled with HASHING_PROFILE.                 *)
EXTENDS BuildSync, TLC

CONSTANTS speed, test, hashing, sm3, keccak

MCLibOf == (speed :> "normal") @@ (hashing :> "hashprof")
MCShared == (speed :> "normal") @@ (test :> "normal")
Renaming == Permutations({speed, test}) \cup Permutations(Configs)

(* After two mishaps a run with two slots has one goal only. *)
Light == mishaps = 2 => slots * Cardinality(goals) <= 2
=============================================================================
