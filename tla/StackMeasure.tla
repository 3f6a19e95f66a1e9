---------------------------- MODULE StackMeasure ----------------------------
(***************************************************************************)
(* How crypto_kem/stack.c and crypto_kex/stack.c measure stack use, on the *)
(* memory the two HALs leave between the heap and the stack.  A round      *)
(* (test_keys, test_exchange) paints the bytes below its stack pointer     *)
(* with the canary value, makes a call, and looks from the far end of the  *)
(* paint for the first byte that changed, once for each measured call.     *)
(* When the far end itself changed, or anything else failed, main starts a *)
(* new round with a larger canary, up to the distance of its own stack     *)
(* pointer from the heap end.                                              *)
(*                                                                         *)
(* An address is its distance below the stack pointer of the round: 1 is   *)
(* the first byte below it, and room + 1 the last byte of the heap.        *)
(* Nothing checks that the heap, which __wrap__sbrk moves up, stays clear  *)
(* of the stack, so both live in one range of addresses here too.          *)
(***************************************************************************)
EXTENDS Naturals

CONSTANTS
  Calls,       \* measured calls of a round: three of a KEM, six of a KEX
  Depth,       \* the deepest byte each call writes
  Footprint,   \* the bytes each call writes, some of its frame or all of it
  Exception,   \* bytes an interrupt pushes, at the depth where it comes
  Frame,       \* main's stack pointer is this far above that of a round
  Increment,   \* STACK_SIZE_INCR
  Room,        \* bytes between the round's stack pointer and the heap end
  MaxGrowth    \* bound on what the heap grows during the measurement

ASSUME StackAssumption ==
  /\ Calls \in Nat \ {0} /\ Depth \in [1 .. Calls -> Nat]
  /\ Footprint \in [1 .. Calls -> SUBSET Nat]
  /\ \A o \in 1 .. Calls : Footprint[o] \subseteq 1 .. Depth[o]
  /\ Exception \in Nat /\ Frame \in Nat /\ Increment \in Nat /\ Room \in Nat /\ MaxGrowth \in Nat
  /\ Exception < Increment /\ Increment + MaxGrowth <= Room

VARIABLES
  phase,     \* "fill", "call", "check", "compare", "main", "ok", "gave up"
  call,      \* the call being measured
  canary,    \* canary_size
  painted,   \* addresses up to canary that hold the canary value
  room,      \* Room less what the heap has grown
  measured,  \* stack_key_gen, stack_encaps, ...
  reason,    \* why the round returned -1
  looked,    \* history: room when main last looked
  deep,      \* history: the deepest byte of each call of the round
  marks,     \* history: bytes each call changed to another value
  deepest,   \* history: the deepest byte of any call of any round
  failed     \* history: a call failed, or the secrets differed, in some round

program == <<phase, call, canary, measured, reason>>
rounds == <<deepest, failed>>
history == <<looked, deep, marks, rounds>>
vars == <<program, painted, room, history>>

Zeros == [o \in 1 .. Calls |-> 0]

Init ==
  /\ phase = "fill" /\ call = 1 /\ canary = Increment
  /\ painted = {} /\ room = Room /\ looked = Room
  /\ measured = Zeros /\ reason = "none"
  /\ deep = Zeros /\ marks = [o \in 1 .. Calls |-> {}]
  /\ deepest = 0 /\ failed = FALSE

(* The last byte is not painted. *)
FillShort ==
  /\ phase = "fill" /\ phase' = "call"
  /\ painted' = 1 .. (canary - 1)
  /\ UNCHANGED <<call, canary, measured, reason, room, history>>

(* The paint of the first call serves for all. *)
FillOnce ==
  /\ phase = "fill" /\ phase' = "call"
  /\ painted' = IF call = 1 THEN 1 .. canary ELSE painted
  /\ UNCHANGED <<call, canary, measured, reason, room, history>>

(* FILL_STACK, first byte to last; an interrupt spoils what it pushes on.  *)
Fill ==
  /\ phase = "fill" /\ phase' = "call"
  /\ \E i \in {0, Exception} : painted' = (1 .. canary) \ (1 .. i)
  /\ UNCHANGED <<call, canary, measured, reason, room, history>>

Return(why) == phase' = "main" /\ reason' = why

(* The call writes its frame, perhaps with the canary's own value (blank), *)
(* an interrupt comes at some depth of it, the heap grows, and heap data   *)
(* is written.  The heap meeting the stack itself is not modelled.         *)
Call ==
  /\ phase = "call"
  /\ \E r \in 0 .. Depth[call], i \in {0, Exception}, g \in 0 .. MaxGrowth :
       LET touched == Footprint[call] \cup (r + 1) .. (r + i)
       IN /\ g <= room + MaxGrowth - Room
          /\ room' = room - g
          /\ deep' = [deep EXCEPT ![call] = IF r + i > Depth[call] THEN r + i ELSE Depth[call]]
          /\ deep'[call] <= room'
          /\ \E blank \in SUBSET touched, data \in SUBSET ((room' + 1) .. canary) :
               /\ painted' = (painted \cup (blank \cap 1 .. canary)) \ ((touched \ blank) \cup data)
               /\ marks' = [marks EXCEPT ![call] = touched \ blank]
  /\ deepest' = IF deep'[call] > deepest THEN deep'[call] ELSE deepest
  /\ \/ phase' = "check" /\ UNCHANGED <<reason, failed>>
     \/ Return("call failed") /\ failed' = TRUE
  /\ UNCHANGED <<call, canary, measured, looked>>

(* The scan from the far end of the paint stops before byte n.             *)
StopsAt(n, paint) ==
  /\ n \in 0 .. canary /\ (n # 0 => n \notin paint)
  /\ \A d \in (n + 1) .. canary : d \in paint

(* The round goes on after its last call. *)
CheckOneMore ==
  /\ phase = "check"
  /\ \E c \in 0 .. canary :
       /\ StopsAt(c, painted)
       /\ IF c >= canary THEN Return("too deep") /\ UNCHANGED <<call, measured>>
          ELSE /\ measured' = [measured EXCEPT ![call] = c]
               /\ call' = call + 1
               /\ phase' = IF call <= Calls THEN "fill" ELSE "compare"
               /\ UNCHANGED reason
  /\ UNCHANGED <<canary, painted, room, history>>

(* CHECK_STACK; an interrupt may push on bytes not scanned yet.            *)
Check ==
  /\ phase = "check"
  /\ \E i \in 0 .. Exception, c \in 0 .. canary :
       /\ StopsAt(c, painted \ (1 .. i))
       /\ IF c >= canary THEN Return("too deep") /\ UNCHANGED <<call, measured>>
          ELSE /\ measured' = [measured EXCEPT ![call] = c]
               /\ call' = call + 1
               /\ phase' = IF call < Calls THEN "fill" ELSE "compare"
               /\ UNCHANGED reason
  /\ UNCHANGED <<canary, painted, room, history>>

(* The two shared secrets. *)
Compare ==
  /\ phase = "compare"
  /\ \/ phase' = "ok" /\ UNCHANGED <<reason, failed>>
     \/ Return("mismatch") /\ failed' = TRUE
  /\ UNCHANGED <<call, canary, measured, painted, room, looked, deep, marks, deepest>>

(* hal_get_stack_size, called by main. *)
Limit == room + Frame

(* Nothing remains of the round but what it stored. *)
Forget == reason' = "none" /\ deep' = Zeros /\ marks' = [o \in 1 .. Calls |-> {}]

(* The whole room at once. *)
MainAtOnce ==
  /\ phase = "main"
  /\ IF canary = Limit THEN phase' = "gave up" /\ UNCHANGED <<call, canary, reason, deep, marks>>
     ELSE phase' = "fill" /\ call' = 1 /\ Forget /\ canary' = Limit
  /\ looked' = room
  /\ UNCHANGED <<measured, painted, room, rounds>>

(* The limit leaves Frame out, the test of it does not. *)
MainTwoLimits ==
  /\ phase = "main"
  /\ IF canary = Limit THEN phase' = "gave up" /\ UNCHANGED <<call, canary, reason, deep, marks>>
     ELSE /\ phase' = "fill" /\ call' = 1 /\ Forget
          /\ canary' = IF canary + Increment >= room THEN room ELSE canary + Increment
  /\ looked' = room
  /\ UNCHANGED <<measured, painted, room, rounds>>

Main ==
  /\ phase = "main"
  /\ IF canary = Limit THEN phase' = "gave up" /\ UNCHANGED <<call, canary, reason, deep, marks>>
     ELSE /\ phase' = "fill" /\ call' = 1 /\ Forget
          /\ canary' = IF canary + Increment >= Limit THEN Limit ELSE canary + Increment
  /\ looked' = room
  /\ UNCHANGED <<measured, painted, room, rounds>>

Next == Fill \/ Call \/ Check \/ Compare \/ Main

(* One sequential program: it takes its next step.                         *)
Spec == Init /\ [][Next]_vars /\ WF_vars(Next)

-----------------------------------------------------------------------------
Typed ==
  /\ phase \in {"fill", "call", "check", "compare", "main", "ok", "gave up"}
  /\ reason \in {"none", "call failed", "too deep", "mismatch"}
  /\ call \in 1 .. Calls + 1 /\ (call = Calls + 1 => phase \in {"compare", "main", "ok", "gave up"})
  /\ painted \subseteq Nat /\ measured \in [1 .. Calls -> Nat]
  /\ deep \in [1 .. Calls -> Nat] /\ marks \in [1 .. Calls -> SUBSET Nat]
  /\ deepest \in Nat /\ failed \in BOOLEAN

(* Types; the heap end stays within MaxGrowth of where it was, and the     *)
(* canary between STACK_SIZE_INCR and what main last took for its limit.   *)
TypeOK ==
  /\ Typed
  /\ room \in Room - MaxGrowth .. Room /\ looked \in room .. Room
  /\ canary \in Increment .. looked + Frame

Measured == {o \in 1 .. Calls : o < call}

(* A value reported is never below a byte of the canary that the call      *)
(* changed, and it is above the call's deepest byte only if heap data or   *)
(* an interrupt made the mark.  So a call deeper than the canary is        *)
(* reported too small only if it left the far end as it was.               *)
ReportExact ==
  \A o \in Measured :
    /\ \A d \in marks[o] : d <= canary => d <= measured[o]
    /\ measured[o] > deep[o] => (measured[o] > room \/ measured[o] <= Exception)

(* FILL_STACK may write below the heap end, over the newest allocations.   *)
(* It does so only after some call came within STACK_SIZE_INCR of the heap *)
(* end, or a round failed for another reason than the canary: a            *)
(* measurement that goes well, with that much to spare, leaves the heap    *)
(* as it is.                                                               *)
PaintSparesHeap == canary > room => failed \/ deepest + Increment > room

(* A round is repeated as too deep only when the call reached the far end  *)
(* of the canary, or the far end lies in the heap, and the measurement is  *)
(* given up only when the whole room was painted: with room to spare, and  *)
(* calls that succeed, it does not fail.                                   *)
FailsForAReason ==
  /\ phase = "main" /\ reason = "too deep" => deep[call] >= canary \/ canary > room
  /\ phase = "gave up" => canary >= room

(* Whatever fails and however often the limit moves, the search ends.      *)
Ends == <>(phase \in {"ok", "gave up"})
=============================================================================
