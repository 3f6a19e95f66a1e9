---------------------------- MODULE CycleClock ----------------------------
(* What hal_get_time() promises: a reading is the time of one moment       *)
(* between the start and the end of the call, as if counter and overflow   *)
(* count were read together in one atomic step.                            *)
EXTENDS Naturals

VARIABLES
  now,       \* ticks since the counter was started
  calling,   \* a call is in progress
  started,   \* now when it began
  reading    \* what the last completed call returned

Init ==
  /\ now \in Nat /\ calling = FALSE /\ started = 0 /\ reading = 0

Advance ==
  /\ now' = now + 1
  /\ UNCHANGED <<calling, started, reading>>

Begin ==
  /\ ~calling /\ calling' = TRUE
  /\ started' = now
  /\ UNCHANGED <<now, reading>>

End ==
  /\ calling /\ calling' = FALSE
  /\ reading' \in started .. now
  /\ UNCHANGED <<now, started>>

Next == Advance \/ Begin \/ End

Spec == Init /\ [][Next]_<<now, calling, started, reading>>
=============================================================================
