------------------------------ MODULE HalClock ------------------------------
(***************************************************************************)
(* The cycle clock of the two HALs (common/hal-stm32f4.c and               *)
(* common/hal-mps2.c): the 24-bit SysTick counter, its overflow interrupt, *)
(* the 64-bit software count of overflows, and hal_get_time(), which has   *)
(* to combine a software count and a hardware counter that change          *)
(* independently of it.                                                    *)
(*                                                                         *)
(* Three actors interleave: the counter (Tick), the interrupt handler      *)
(* (SysTickHandler) and the program, whose hal_get_time() is split into    *)
(* its volatile accesses.  A 64-bit load is two 32-bit loads, which the    *)
(* handler may separate (a build that uses one LDRD has a subset of these  *)
(* behaviours).                                                            *)
(*                                                                         *)
(* History variables, which no action reads: now (ticks of the counter     *)
(* since it was started, offset as hal_get_time counts them), started      *)
(* (now when the running call began), roundAt and roundCnt (now and the    *)
(* count when the running round of its loop began), sampled (now when the  *)
(* call read the counter), retries (rounds repeated, at most 2 counted),    *)
(* prev (last reading).                                                    *)
(***************************************************************************)
EXTENDS Integers

CONSTANTS
  Period,        \* ticks per overflow; 16777216 on the target
  WordMod,       \* values of one machine word; 2^32 on the target
  Hals,          \* the boards: "stm32f4", "mps2", or either of them
  MaxGap,        \* ticks that may pass between two steps of the processor
  MaxLate,       \* accesses that may complete after the interrupt pends
  MaxTime        \* bound on now: the counter is stopped there by the model

(* The architecture's part: an instruction in progress may complete when   *)
(* the interrupt pends, the next one does not start; and one call of       *)
(* hal_get_time is short against the period of the counter.                *)
ASSUME ClockAssumption ==
  /\ Period \in Nat /\ WordMod \in Nat \ {0, 1} /\ Hals \subseteq {"stm32f4", "mps2"}
  /\ MaxGap \in Nat \ {0} /\ MaxTime \in Nat
  /\ MaxLate \in {0, 1}
  /\ Period > 8 * (MaxGap + 1)

VARIABLES
  val,         \* SysTick current value register
  pending,     \* the SysTick exception is pending
  overflowcnt,
  gap,         \* ticks since the processor last did something
  late,        \* accesses completed since the exception pends
  pc,
  old,         \* hal_setup: the count it waits to see change
  before,      \* hal_get_time: local, the two halves of the count
  again,       \* hal_get_time: low half of the second load of the count
  result,      \* hal_get_time: local
  now, started, roundAt, roundCnt, sampled, retries, prev

hardware == <<val, pending, gap, late, now>>
locals   == <<pc, old, before, again, result>>
history  == <<started, roundAt, roundCnt, sampled, retries, prev>>
vars     == <<hardware, overflowcnt, locals, history>>

Lo(n) == n % WordMod
Hi(n) == n \div WordMod

(* Counting k overflows and reading v stands for this many ticks.          *)
TimeOf(k, v) == (k + 1) * Period - v

-----------------------------------------------------------------------------
(* systick_setup does not write the current-value register, which is       *)
(* unknown at reset; SystemInit of hal-mps2.c writes 0 to it, one of the   *)
(* values below.  From 0 the counter reloads without an exception.         *)
Init ==
  /\ val \in 0 .. Period - 1
  /\ now = IF val = 0 THEN 0 ELSE Period - val
  /\ pending = FALSE /\ overflowcnt = 0 /\ gap = 0 /\ late = 0
  /\ pc = "boot" /\ old = 0 /\ before = [lo |-> 0, hi |-> 0] /\ again = 0 /\ result = 0
  /\ started = 0 /\ roundAt = 0 /\ roundCnt = 0 /\ sampled = 0 /\ retries = 0 /\ prev = 0

(* A counter that reloads with one tick too many. *)
TickReloadsPeriod ==
  /\ now < MaxTime \/ pending
  /\ gap < MaxGap \/ val = 0
  /\ val' = IF val = 0 THEN Period ELSE val - 1
  /\ pending' = (pending \/ val = 1)
  /\ now' = now + 1
  /\ gap' = gap + 1
  /\ UNCHANGED <<late, overflowcnt, locals, history>>

(* The counter: 1 -> 0 pends the exception, 0 is followed by the reload    *)
(* value.  The reload tick cannot be held back by a slow processor.        *)
Tick ==
  /\ now < MaxTime \/ pending
  /\ gap < MaxGap \/ val = 0
  /\ val' = IF val = 0 THEN Period - 1 ELSE val - 1
  /\ pending' = (pending \/ val = 1)
  /\ now' = now + 1
  /\ gap' = gap + 1
  /\ UNCHANGED <<late, overflowcnt, locals, history>>

(* sys_tick_handler / SysTick_Handler: exception entry takes cycles, so    *)
(* the counter has reloaded when the handler increments the count.         *)
SysTickHandler ==
  /\ pending /\ val # 0
  /\ overflowcnt' = overflowcnt + 1
  /\ pending' = FALSE /\ late' = 0 /\ gap' = 0
  /\ UNCHANGED <<val, now, locals, history>>

(* One access of the program. *)
Cpu(from, to) ==
  /\ pc = from
  /\ pc' = to
  /\ pending => late < MaxLate
  /\ late' = IF pending THEN late + 1 ELSE 0
  /\ gap' = 0
  /\ UNCHANGED <<val, pending, now, overflowcnt>>

-----------------------------------------------------------------------------
(* hal_setup: on the STM32F4 old is read after the counter was started; on *)
(* the MPS2 it only returns, but a tick has passed since SystemInit wrote  *)
(* VAL.                                                                    *)
SetupReadOld ==
  /\ "stm32f4" \in Hals
  /\ Cpu("boot", "setup")
  /\ old' = overflowcnt
  /\ UNCHANGED <<before, again, result, history>>

SetupSeesOverflow ==
  /\ overflowcnt # old
  /\ Cpu("setup", "idle")
  /\ UNCHANGED <<old, before, again, result, history>>

SetupPolls ==
  /\ overflowcnt = old
  /\ Cpu("setup", "setup")
  /\ UNCHANGED <<old, before, again, result, history>>

SetupReturns ==
  /\ "mps2" \in Hals /\ now > 0
  /\ Cpu("boot", "idle")
  /\ UNCHANGED <<old, before, again, result, history>>

(* The benchmarked program between two calls. *)
Work ==
  /\ Cpu("idle", "idle")
  /\ UNCHANGED <<old, before, again, result, history>>

(* hal_get_time, one action per volatile access *)
Call ==
  /\ now < MaxTime
  /\ Cpu("idle", "before_lo")
  /\ started' = now /\ retries' = 0
  /\ UNCHANGED <<old, before, again, result, roundAt, roundCnt, sampled, prev>>

(* The first load hoisted out of the loop: a repeated round keeps before.  *)
LoadBeforeLoOnce ==
  /\ Cpu("before_lo", "before_hi")
  /\ before' = IF retries = 0 THEN [before EXCEPT !.lo = Lo(overflowcnt)] ELSE before
  /\ roundAt' = now /\ roundCnt' = overflowcnt
  /\ UNCHANGED <<old, again, result, started, sampled, retries, prev>>

LoadBeforeLo ==
  /\ Cpu("before_lo", "before_hi")
  /\ before' = [before EXCEPT !.lo = Lo(overflowcnt)]
  /\ roundAt' = now /\ roundCnt' = overflowcnt
  /\ UNCHANGED <<old, again, result, started, sampled, retries, prev>>

LoadBeforeHi ==
  /\ Cpu("before_hi", "value")
  /\ before' = [before EXCEPT !.hi = Hi(overflowcnt)]
  /\ UNCHANGED <<old, again, result, history>>

LoadValue ==
  /\ Cpu("value", "again_lo")
  /\ result' = TimeOf(WordMod * before.hi + before.lo, val)
  /\ sampled' = now
  /\ UNCHANGED <<old, before, again, started, roundAt, roundCnt, retries, prev>>

LoadAgainLo ==
  /\ Cpu("again_lo", "again_hi")
  /\ again' = Lo(overflowcnt)
  /\ UNCHANGED <<old, before, result, history>>

(* No comparison: the reading is returned as it is. *)
CountAssumed == TRUE

(* The high half of the second load, and the comparison of all 64 bits.    *)
CountUnchanged == again = before.lo /\ Hi(overflowcnt) = before.hi

Return ==
  /\ CountUnchanged
  /\ Cpu("again_hi", "idle")
  /\ prev' = result
  /\ UNCHANGED <<old, before, again, result, started, roundAt, roundCnt, sampled, retries>>

Retry ==
  /\ ~CountUnchanged
  /\ Cpu("again_hi", "before_lo")
  /\ retries' = IF retries < 2 THEN retries + 1 ELSE 2
  /\ UNCHANGED <<old, before, again, result, started, roundAt, roundCnt, sampled, prev>>

GetTime == LoadBeforeLo \/ LoadBeforeHi \/ LoadValue \/ LoadAgainLo \/ Return \/ Retry
Setup   == SetupReadOld \/ SetupPolls \/ SetupSeesOverflow \/ SetupReturns

Next == Tick \/ SysTickHandler \/ Setup \/ Work \/ Call \/ GetTime

Spec == Init /\ [][Next]_vars

(* The counter runs, the exception is taken and the program proceeds.      *)
FairSpec ==
  Spec /\ WF_vars(Tick) /\ WF_vars(SysTickHandler) /\ WF_vars(Setup) /\ WF_vars(GetTime)

-----------------------------------------------------------------------------
PcInRound == {"before_hi", "value", "again_lo", "again_hi"}

TypeOK ==
  /\ val \in 0 .. Period - 1 /\ pending \in BOOLEAN
  /\ overflowcnt \in Nat /\ now \in Nat
  /\ gap \in 0 .. MaxGap + 1 /\ late \in 0 .. MaxLate
  /\ pc \in {"boot", "setup", "idle", "before_lo"} \cup PcInRound
  /\ old \in Nat /\ before \in [lo : Nat, hi : Nat] /\ again \in Nat
  /\ result \in Int /\ prev \in Int
  /\ started \in Nat /\ roundAt \in Nat /\ roundCnt \in Nat
  /\ sampled \in Nat /\ retries \in Nat

(* Longest stretch of ticks between two steps of the processor. *)
Gap == MaxGap + 1

(* Accesses of the running round already made. *)
Stage == CASE pc = "before_hi" -> 0 [] pc = "value" -> 1
           [] pc = "again_lo" -> 2 [] OTHER -> 3

(* An overflow that is not counted yet although the counter reloaded.      *)
Uncounted == IF pending /\ val # 0 THEN 1 ELSE 0

(* The counter has not made its first tick since VAL held 0.               *)
NotStarted == val = 0 /\ now = 0 /\ ~pending /\ overflowcnt = 0 /\ pc \in {"boot", "setup"}

(* Time is what count and counter say, but for an uncounted overflow.      *)
ClockInv ==
  /\ \/ NotStarted
     \/ now > 0 /\ now = TimeOf(overflowcnt + Uncounted, val) /\ (val = 0 => pending)
  /\ old <= overflowcnt

(* A pending exception is young, and the reload tick still fits the gap.   *)
LatencyInv ==
  /\ pending => now <= (overflowcnt + 1) * Period + gap + late * Gap
  /\ val = 0 => gap <= MaxGap

(* A round of hal_get_time is short and sees at most one new overflow.     *)
RoundInv ==
  pc \in PcInRound =>
    /\ roundCnt * Period <= roundAt /\ roundAt <= (roundCnt + 1) * Period + 2 * Gap
    /\ roundCnt <= overflowcnt /\ overflowcnt <= roundCnt + 1
    /\ now <= roundAt + (Stage + (overflowcnt - roundCnt)) * Gap + gap
    /\ before.lo = Lo(roundCnt)

(* While no new overflow is counted, the halves loaded are those of one    *)
(* count, and the reading is exact unless an overflow awaits its handler,  *)
(* which will run before another access.                                   *)
ReadingInv ==
  /\ pc \in {"value", "again_lo", "again_hi"} /\ overflowcnt = roundCnt =>
       before.hi = Hi(roundCnt)
  /\ pc \in {"again_lo", "again_hi"} =>
       /\ started <= sampled /\ sampled <= now
       /\ overflowcnt = roundCnt /\ ~(pending /\ late = 1) => result = sampled
  /\ pc = "again_hi" /\ again = Lo(roundCnt) => result = sampled
  /\ pc \in {"before_lo"} \cup PcInRound => started <= now
  /\ pc \in PcInRound => started <= roundAt
  /\ pc \in {"boot", "setup"} => result = 0 /\ sampled = 0 /\ started = 0
  /\ prev <= now
  /\ pc \in {"before_lo"} \cup PcInRound => prev <= started

(* A call of hal_get_time returns the time at which it read the counter,   *)
(* a moment inside the call: an overflow between two of its accesses, with *)
(* the handler run or not, never shifts the reading by a period.           *)
ReadingExact ==
  pc = "idle" => result = sampled /\ started <= sampled /\ sampled <= now

IInv == TypeOK /\ ClockInv /\ LatencyInv /\ RoundInv /\ ReadingInv /\ ReadingExact

(* Two readings never run backwards, so the t1 - t0 of every benchmark     *)
(* (uint64_t, printed as unsigned) is the time between two samples and     *)
(* never wraps below zero.                                                 *)
ReadingsMonotone == [][prev' >= prev]_prev

(* The while (true) of hal_get_time repeats at most once: a second round   *)
(* cannot meet a second overflow.                                          *)
OneRetry == retries <= 1

(* The split, interruptible hal_get_time behaves like an atomic one: the   *)
(* interrupted accesses implement CycleClock.                              *)
Calling == pc \in {"before_lo"} \cup PcInRound
Atomic == INSTANCE CycleClock WITH calling <- Calling, reading <- prev
ReadsAtomically == Atomic!Spec

(* hal_setup's busy wait for the first overflow ends, and so does every    *)
(* call of hal_get_time.                                                   *)
ClockProceeds == [](pc # "idle" => <>(pc = "idle"))
=============================================================================
