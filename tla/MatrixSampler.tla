--------------------------- MODULE MatrixSampler ---------------------------
(***************************************************************************)
(* One entry of the public matrix, sampled by rejection from a stream of   *)
(* bytes: DKEx_sample_poly and rej_uniform of the reference, and in m4     *)
(* either the same loop with other blocks (DKE-512) or the loop of         *)
(* matacc_asm.S, which hands the candidates it accepts to the              *)
(* multiplication four at a time (DKE-128, DKE-256).                       *)
(*                                                                         *)
(* The stream is the output of the XOF on (seed, x, y), squeezed block by  *)
(* block.  A group of bytes starting at offset s holds the candidates s,   *)
(* s + 1, ..., s + per - 1, named by these numbers; whether the value of a *)
(* candidate is below q is decided once, by the stream.                    *)
(***************************************************************************)
EXTENDS Integers, Sequences, FiniteSets

CONSTANTS
  Sizes,     \* records, see SizeAssumption
  N,         \* coefficients of a polynomial
  Gather,    \* coefficients multiplied at once by the assembly, 4
  Unit,      \* bytes of one call of SM3, 32
  Undecided  \* bound: from this candidate on, all are accepted

Impls == {"ref", "m4"}

(* Bytes and candidates of a group; bytes of an XOF block and blocks       *)
(* squeezed first, in the two implementations; whether m4 uses matacc.     *)
ASSUME SizeAssumption ==
  /\ Sizes \subseteq [group : Nat, per : Nat, block : [Impls -> Nat],
                      first : [Impls -> Nat], stream : BOOLEAN]
  /\ \A z \in Sizes :
       /\ 0 < z.per /\ z.per <= z.group
       /\ \A i \in Impls : 0 < z.first[i] /\ z.group <= z.block[i]
  /\ N \in Nat /\ Gather \in Nat \ {0} /\ Unit \in Nat \ {0} /\ Undecided \in Nat
  /\ \E k \in 1..N : N = k * Gather

VARIABLES
  size,    \* the parameter set built
  good,    \* the candidates below Undecided whose value is below q
  pc,      \* "start", "loop", "test" or "done", per implementation
  xof,     \* where the next squeeze reads, in bytes of the stream
  base,    \* where the bytes in buf come from
  buflen,  \* bytes squeezed into buf
  pos,     \* the group of buf looked at
  lane,    \* the candidate of the group looked at
  c,       \* candidates gathered by matacc
  poly     \* the coefficients, each named by its candidate

buffer == <<xof, base, buflen>>
vars == <<size, good, pc, buffer, pos, lane, c, poly>>

(* pseudoXOF_squeeze counts the units it has begun. *)
RoundUp(len) == Unit * ((len + Unit - 1) \div Unit)

(* The stream cut into groups from its first byte on: a block of whole     *)
(* groups, and squeezes of whole units, let no byte be dropped.            *)
Whole(z) ==
  /\ \A i \in Impls : \E k \in 1 .. z.block[i] : z.block[i] = k * z.group
  /\ \A b \in {1, z.first["m4"]} : RoundUp(b * z.block["m4"]) = b * z.block["m4"]

(* First buffers of the same length, after which the blocks of m4 are no   *)
(* longer than those of the reference (DKE-512).                           *)
Shortened(z) ==
  /\ z.first["ref"] * z.block["ref"] = z.first["m4"] * z.block["m4"]
  /\ z.block["m4"] <= z.block["ref"]
  /\ RoundUp(z.first["m4"] * z.block["m4"]) = z.first["m4"] * z.block["m4"]

ASSUME LayoutAssumption == \A z \in Sizes : Whole(z) \/ Shortened(z)

Candidate(m) == \E k \in 0..m : k * size.group <= m /\ m < k * size.group + size.per

Init ==
  /\ size \in Sizes
  /\ good \in SUBSET {m \in 0 .. Undecided - 1 : Whole(size) => Candidate(m)}
  /\ pc = [i \in Impls |-> "start"]
  /\ xof = [i \in Impls |-> 0] /\ base = [i \in Impls |-> 0] /\ buflen = [i \in Impls |-> 0]
  /\ pos = [i \in Impls |-> 0] /\ lane = [i \in Impls |-> 0]
  /\ c = [i \in Impls |-> <<>>] /\ poly = [i \in Impls |-> <<>>]

Accepted(m) == m \in good \/ m >= Undecided
Full(i) == Len(poly[i]) >= N

(* Fits with < for <=. *)
FitsStrictly(i) == pos[i] + size.group < buflen[i]

Fits(i) == pos[i] + size.group <= buflen[i]

(* Advance with the counter incremented once per call. *)
AdvanceOnce(i, len) == IF i = "ref" THEN len ELSE Unit

(* The reference counts bytes, m4 the units of pseudoXOF_squeeze.          *)
Advance(i, len) == IF i = "ref" THEN len ELSE RoundUp(len)

(* DKEx_xof_squeezeblocks, and the buffer looked at from its start.        *)
Squeeze(i, blocks) ==
  LET len == blocks * size.block[i] IN
  /\ base' = [base EXCEPT ![i] = xof[i]]
  /\ buflen' = [buflen EXCEPT ![i] = len]
  /\ xof' = [xof EXCEPT ![i] = @ + Advance(i, len)]
  /\ pos' = [pos EXCEPT ![i] = 0]

(* The two implementations are separate programs: m4 runs second.          *)
Start(i) ==
  /\ pc[i] = "start" /\ (i = "m4" => pc["ref"] = "done")
  /\ Squeeze(i, size.first[i])
  /\ pc' = [pc EXCEPT ![i] = "loop"]
  /\ UNCHANGED <<size, good, lane, c, poly>>

(* while (ctr < N), and third_if: a group that does not fit is dropped.    *)
Refill(i) ==
  /\ pc[i] = "loop" /\ ~Full(i) /\ ~Fits(i)
  /\ Squeeze(i, 1)
  /\ UNCHANGED <<size, good, pc, lane, c, poly>>

NextGroup(i) ==
  /\ pc[i] = "loop" /\ ~Full(i) /\ Fits(i)
  /\ pc' = [pc EXCEPT ![i] = "test"] /\ lane' = [lane EXCEPT ![i] = 0]
  /\ UNCHANGED <<size, good, buffer, pos, c, poly>>

(* Store with the comparison of k and 4 one too late. *)
StoreLate(i, m) ==
  IF i = "m4" /\ size.stream
  THEN IF Len(c[i]) < Gather
       THEN c' = [c EXCEPT ![i] = Append(@, m)] /\ UNCHANGED poly
       ELSE c' = [c EXCEPT ![i] = <<>>] /\ poly' = [poly EXCEPT ![i] = @ \o c[i] \o <<m>>]
  ELSE poly' = [poly EXCEPT ![i] = Append(@, m)] /\ UNCHANGED c

(* res[ctr++] = val, or strh to c and, when c is full, the multiplication. *)
Store(i, m) ==
  IF i = "m4" /\ size.stream
  THEN IF Len(c[i]) + 1 < Gather
       THEN c' = [c EXCEPT ![i] = Append(@, m)] /\ UNCHANGED poly
       ELSE c' = [c EXCEPT ![i] = <<>>] /\ poly' = [poly EXCEPT ![i] = @ \o c[i] \o <<m>>]
  ELSE poly' = [poly EXCEPT ![i] = Append(@, m)] /\ UNCHANGED c

(* NextLane without pos += 3. *)
NextLaneOnly(i) ==
  IF lane[i] + 1 < size.per
  THEN lane' = [lane EXCEPT ![i] = @ + 1] /\ UNCHANGED <<pc, pos>>
  ELSE pc' = [pc EXCEPT ![i] = "loop"] /\ UNCHANGED <<pos, lane>>

NextLane(i) ==
  IF lane[i] + 1 < size.per
  THEN lane' = [lane EXCEPT ![i] = @ + 1] /\ UNCHANGED <<pc, pos>>
  ELSE /\ pc' = [pc EXCEPT ![i] = "loop"] /\ pos' = [pos EXCEPT ![i] = @ + size.group]
       /\ UNCHANGED lane

(* Test without ctr < len. *)
TestUnchecked(i) ==
  LET m == base[i] + pos[i] + lane[i] IN
  /\ pc[i] = "test"
  /\ IF Accepted(m) THEN Store(i, m) ELSE UNCHANGED <<c, poly>>
  /\ NextLane(i)
  /\ UNCHANGED <<size, good, buffer>>

(* if (ctr < len && val < q): first_if and second_if in the assembly.      *)
Test(i) ==
  LET m == base[i] + pos[i] + lane[i] IN
  /\ pc[i] = "test"
  /\ IF Accepted(m) /\ ~Full(i) THEN Store(i, m) ELSE UNCHANGED <<c, poly>>
  /\ NextLane(i)
  /\ UNCHANGED <<size, good, buffer>>

Finish(i) ==
  /\ pc[i] = "loop" /\ Full(i)
  /\ pc' = [pc EXCEPT ![i] = "done"]
  /\ UNCHANGED <<size, good, buffer, pos, lane, c, poly>>

Next == \E i \in Impls : Start(i) \/ Refill(i) \/ NextGroup(i) \/ Test(i) \/ Finish(i)

(* A sequential program takes its next step. *)
Spec == Init /\ [][Next]_vars /\ WF_vars(Next)
-----------------------------------------------------------------------------
Taken(i) == poly[i] \o c[i]

(* How many candidates of the stream are accepted before m. *)
Rank(m) == Cardinality({d \in 0 .. m - 1 : Candidate(d) /\ Accepted(d)})

TypeOK ==
  /\ size \in Sizes /\ good \subseteq 0 .. Undecided - 1
  /\ pc \in [Impls -> {"start", "loop", "test", "done"}]
  /\ xof \in [Impls -> Nat] /\ base \in [Impls -> Nat] /\ buflen \in [Impls -> Nat]
  /\ pos \in [Impls -> Nat] /\ lane \in [Impls -> Nat]
  /\ c \in [Impls -> Seq(Nat)] /\ poly \in [Impls -> Seq(Nat)]
  /\ \A i \in Impls : lane[i] < size.per /\ Len(c[i]) < Gather

(* The bytes of a candidate are read inside the buffer, and no coefficient *)
(* is stored past the polynomial: rej_uniform tests ctr before each store, *)
(* and the assembly loads a group before it looks at the end of the buffer.*)
InBounds ==
  \A i \in Impls :
    /\ pc[i] = "test" => pos[i] + size.group <= buflen[i] /\ base[i] + buflen[i] <= xof[i]
    /\ Len(poly[i]) + Len(c[i]) <= N

(* Where blocks are whole groups, the coefficient k is the accepted        *)
(* candidate number k of the stream: no byte is skipped or read twice at   *)
(* the end of a block, in either loop.                                     *)
FirstAccepted ==
  Whole(size) => \A i \in Impls : \A k \in 1 .. Len(Taken(i)) :
    Candidate(Taken(i)[k]) /\ Accepted(Taken(i)[k]) /\ Rank(Taken(i)[k]) = k - 1

(* The reference and m4 sample the same polynomial from a seed, so that    *)
(* keys of one are keys of the other.  Where a block ends within a group   *)
(* (DKE-512), only as long as m4 needs no second refill: its blocks are    *)
(* half as long as those of the reference, and the bytes dropped differ.   *)
SameMatrix ==
  (\A i \in Impls : pc[i] = "done")
    /\ (Whole(size) \/ xof["m4"] <= (size.first["m4"] + 1) * size.block["m4"])
  => poly["ref"] = poly["m4"]

(* Once the stream offers enough candidates below q, sampling ends.        *)
Ends == <>(\A i \in Impls : pc[i] = "done")
=============================================================================
