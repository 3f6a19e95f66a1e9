--------------------------- MODULE HalClockProofs ---------------------------
(***************************************************************************)
(* hal_get_time() is exact and monotone for every period, word size and    *)
(* timing that ClockAssumption allows.  IInv is the inductive invariant:   *)
(* it ties the count and the counter to the time that really passed        *)
(* (ClockInv), bounds how long an overflow can stay uncounted              *)
(* (LatencyInv) and how long a round of the loop lasts (RoundInv), and     *)
(* follows the loaded halves through a round (ReadingInv).  With a longer  *)
(* period RetryInv adds when the overflow was that a repeated round met.   *)
(***************************************************************************)
EXTENDS HalClock, TLAPS

USE ClockAssumption DEF ClockAssumption

(* A count is rebuilt from its two halves. *)
LEMMA Halves ==
  ASSUME NEW n \in Nat
  PROVE  /\ Lo(n) \in Nat /\ Hi(n) \in Nat
         /\ WordMod * Hi(n) + Lo(n) = n
BY DEF Lo, Hi

(* Incrementing a count changes its low half. *)
LEMMA LowChanges ==
  ASSUME NEW n \in Nat
  PROVE  Lo(n + 1) # Lo(n)
<1>1. WordMod * Hi(n) + Lo(n) = n /\ WordMod * Hi(n + 1) + Lo(n + 1) = n + 1
  BY Halves
<1>2. Hi(n) \in Nat /\ Hi(n + 1) \in Nat /\ Lo(n) \in Nat /\ WordMod \in Nat /\ WordMod > 1
  BY Halves
<1>3. SUFFICES ASSUME Lo(n + 1) = Lo(n) PROVE FALSE
  OBVIOUS
<1>4. WordMod * (Hi(n + 1) - Hi(n)) = 1
  BY <1>1, <1>2, <1>3
<1>5. ASSUME NEW d \in Int PROVE WordMod * d # 1
  BY <1>2
<1> QED BY <1>2, <1>4, <1>5

(* A ticks-per-overflow product grows by one period per overflow. *)
LEMMA Distribute ==
  ASSUME NEW k \in Int
  PROVE  /\ k * Period \in Int
         /\ (k + 1) * Period = k * Period + Period
         /\ (k + 1 + 1) * Period = k * Period + 2 * Period
BY Z3

LEMMA InitInv == Init => IInv
<1> SUFFICES ASSUME Init PROVE IInv
  OBVIOUS
<1>1. TypeOK
  <2>1. [lo |-> 0, hi |-> 0] \in [lo : Nat, hi : Nat]
    OBVIOUS
  <2>2. val \in 0 .. Period - 1 /\ pending \in BOOLEAN
    BY DEF Init
  <2>3. overflowcnt \in Nat /\ now \in Nat
    BY DEF Init
  <2>4. gap \in 0 .. MaxGap + 1 /\ late \in 0 .. MaxLate
    BY DEF Init
  <2>5. pc = "boot"
    BY DEF Init
  <2>6. before \in [lo : Nat, hi : Nat]
    BY <2>1 DEF Init
  <2> QED BY <2>1, <2>2, <2>3, <2>4, <2>5, <2>6 DEF Init, TypeOK, PcInRound
<1>2. ClockInv
  BY DEF Init, ClockInv, NotStarted, TimeOf, Uncounted
<1>3. LatencyInv /\ RoundInv /\ ReadingInv /\ ReadingExact
  BY DEF Init, LatencyInv, RoundInv, ReadingInv, ReadingExact, PcInRound
<1> QED BY <1>1, <1>2, <1>3 DEF IInv

LEMMA TypeStep == IInv /\ [Next]_vars => TypeOK'
<1> SUFFICES ASSUME IInv, [Next]_vars PROVE TypeOK'
  OBVIOUS
<1>0. TypeOK /\ (val = 0 => gap <= MaxGap)
  BY DEF IInv, LatencyInv
<1> USE <1>0 DEF TypeOK, hardware, locals, history, PcInRound
<1>1. CASE Tick
  BY <1>1 DEF Tick
<1>2. CASE SysTickHandler
  <2>1. 0 \in 0 .. MaxLate /\ 0 \in 0 .. MaxGap + 1 /\ overflowcnt + 1 \in Nat
    OBVIOUS
  <2>2. val' = val /\ now' = now /\ pending' = FALSE /\ late' = 0 /\ gap' = 0 /\ overflowcnt' = overflowcnt + 1
    BY <1>2 DEF SysTickHandler
  <2>3. UNCHANGED <<pc, old, before, again, result, started, roundAt, roundCnt, sampled, retries, prev>>
    BY <1>2 DEF SysTickHandler
  <2> QED BY <2>1, <2>2, <2>3
<1>3. CASE Setup
  BY <1>3 DEF Setup, SetupReadOld, SetupPolls, SetupSeesOverflow, SetupReturns, Cpu
<1>4. CASE Work \/ Call
  BY <1>4 DEF Work, Call, Cpu
<1>5. CASE GetTime
  <2>1. Lo(overflowcnt) \in Nat /\ Hi(overflowcnt) \in Nat
    BY Halves
  <2>2. CASE LoadBeforeLo \/ LoadBeforeHi \/ LoadAgainLo \/ Return \/ Retry
    BY <2>1, <2>2 DEF LoadBeforeLo, LoadBeforeHi, LoadAgainLo, Return, Retry, Cpu
  <2>3. CASE LoadValue
    <3>1. TimeOf(WordMod * before.hi + before.lo, val) \in Int
      BY Z3 DEF TimeOf
    <3> QED BY <2>3, <3>1 DEF LoadValue, Cpu
  <2> QED BY <1>5, <2>2, <2>3 DEF GetTime
<1>6. CASE UNCHANGED vars
  BY <1>6 DEF vars
<1> QED BY <1>1, <1>2, <1>3, <1>4, <1>5, <1>6 DEF Next

LEMMA ClockStep == IInv /\ [Next]_vars => ClockInv' /\ LatencyInv'
<1> SUFFICES ASSUME IInv, [Next]_vars PROVE ClockInv' /\ LatencyInv'
  OBVIOUS
<1> USE DEF IInv, ClockInv, LatencyInv, NotStarted, Uncounted, TimeOf, Gap
<1>0. TypeOK /\ TypeOK'
  BY TypeStep
<1>1. /\ overflowcnt * Period \in Int
      /\ (overflowcnt + 1) * Period = overflowcnt * Period + Period
      /\ (overflowcnt + 1 + 1) * Period = overflowcnt * Period + 2 * Period
      /\ (overflowcnt + 0 + 1) * Period = overflowcnt * Period + Period
  BY <1>0, Distribute DEF TypeOK
<1>a. late \in {0, 1} /\ late' \in {0, 1} /\ late * Gap <= Gap /\ 0 * Gap = 0 /\ 1 * Gap = Gap
  BY <1>0 DEF TypeOK
<1>2. CASE Tick
  <2>0. val = 1 => pending' /\ val' = 0
    <3>1. val = 1 => val' = 1 - 1
      BY <1>2, 1 # 0 DEF Tick
    <3>2. val = 1 => pending'
      BY <1>2, Zenon DEF Tick
    <3> QED BY <3>1, <3>2
  <2> USE <1>0, <1>1, <1>2 DEF Tick, TypeOK, locals, history
  <2>1. CASE val = 0 /\ now = 0
    BY <2>1
  <2>2. CASE val = 0 /\ now > 0
    <3>1. pending = TRUE /\ pending' = TRUE /\ now = overflowcnt * Period + Period
      BY <2>2
    <3>2. val' = Period - 1 /\ now' = now + 1 /\ overflowcnt' = overflowcnt /\ gap' = gap + 1 /\ late' = late
      BY <2>2
    <3> QED BY <2>2, <3>1, <3>2
  <2>3. CASE val = 1
    <3>1. pending' /\ val' = 0
      BY <2>0, <2>3
    <3>2. now' = overflowcnt * Period + Period + (IF pending THEN Period ELSE 0)
      BY <2>3
    <3>3. pending = FALSE
      <4> SUFFICES ASSUME pending PROVE FALSE
        OBVIOUS
      <4>1. now = overflowcnt * Period + 2 * Period - 1
        BY <2>3
      <4>2. now <= overflowcnt * Period + Period + gap + Gap
        BY <1>a
      <4> QED BY <4>1, <4>2
    <3> QED BY <2>3, <3>1, <3>2, <3>3
  <2>4. CASE val > 1
    <3>1. pending' = pending /\ val' = val - 1 /\ val' > 0
      BY <2>4
    <3> QED BY <2>4, <3>1
  <2> QED BY <2>1, <2>2, <2>3, <2>4
<1>3. CASE SysTickHandler
  <2>1. val' = val /\ now' = now /\ late' = 0 /\ gap' = 0 /\ overflowcnt' = overflowcnt + 1
    BY <1>3 DEF SysTickHandler
  <2>2. pending /\ ~pending' /\ val # 0 /\ val \in 0 .. Period - 1 /\ old' = old
    BY <1>0, <1>3 DEF SysTickHandler, TypeOK, locals
  <2>3. old <= overflowcnt /\ now = TimeOf(overflowcnt + 1, val) /\ now > 0
    BY <2>2
  <2>4. now' = TimeOf(overflowcnt' + Uncounted', val')
    BY <1>0, <1>1, <2>1, <2>2, <2>3 DEF TypeOK
  <2>5. ClockInv'
    BY <1>0, <2>1, <2>2, <2>3, <2>4 DEF TypeOK
  <2>6. LatencyInv'
    BY <2>1, <2>2
  <2> QED BY <2>5, <2>6
<1>4. ASSUME NEW f, NEW t, Cpu(f, t), f \notin {"boot", "setup"} \/ now > 0 \/ t = "setup",
             old' \in {old, overflowcnt}
      PROVE  ClockInv' /\ LatencyInv'
  <2>1. /\ val' = val /\ pending' = pending /\ now' = now /\ overflowcnt' = overflowcnt
        /\ pc = f /\ pc' = t /\ gap' = 0 /\ late' = IF pending THEN late + 1 ELSE 0
    BY <1>4 DEF Cpu
  <2>2. gap \in 0 .. MaxGap + 1 /\ now \in Nat /\ overflowcnt \in Nat /\ old \in Nat
    BY <1>0 DEF TypeOK
  <2>3. ClockInv'
    BY <1>4, <2>1, <2>2
  <2>4. LatencyInv'
    BY <1>1, <1>a, <2>1, <2>2
  <2> QED BY <2>3, <2>4
<1>5. CASE UNCHANGED vars
  BY <1>5 DEF vars, hardware, locals
<1> QED
  BY <1>0, <1>2, <1>3, <1>4, <1>5 DEF Next, Setup, SetupReadOld, SetupPolls,
     SetupSeesOverflow, SetupReturns, Work, Call, GetTime, LoadBeforeLo, LoadBeforeHi,
     LoadValue, LoadAgainLo, Return, Retry, TypeOK

(* What one access of a running round does to the bound on its length.     *)
LEMMA GapProducts ==
  ASSUME NEW k \in Int
  PROVE  /\ k * Gap \in Int /\ Gap \in Nat
         /\ (k + 1) * Gap = k * Gap + Gap
         /\ 4 * Gap = Gap + Gap + Gap + Gap /\ 3 * Gap = Gap + Gap + Gap
BY Z3 DEF Gap

LEMMA RoundStep == IInv /\ [Next]_vars => RoundInv'
<1> SUFFICES ASSUME IInv, [Next]_vars, (pc \in PcInRound)' PROVE RoundInv'
  BY DEF RoundInv
<1>0. TypeOK /\ TypeOK' /\ RoundInv
  BY TypeStep DEF IInv
<1>1. /\ overflowcnt \in Nat /\ roundCnt \in Nat /\ now \in Nat /\ roundAt \in Nat
      /\ gap \in 0 .. MaxGap + 1 /\ val \in 0 .. Period - 1
      /\ Gap \in Nat /\ Gap = MaxGap + 1 /\ Period \in Nat /\ Period > 8 * Gap
  BY <1>0 DEF TypeOK, Gap
<1>2. late \in {0, 1} /\ late * Gap <= Gap
  BY <1>0 DEF TypeOK, Gap
<1>3. pc \in PcInRound => Stage \in 0 .. 3
  BY DEF PcInRound, Stage
<1>4. CASE LoadBeforeLo
  <2>1. /\ pc = "before_lo" /\ pc' = "before_hi" /\ now' = now /\ overflowcnt' = overflowcnt
        /\ roundAt' = now /\ roundCnt' = overflowcnt /\ gap' = 0
        /\ before' = [before EXCEPT !.lo = Lo(overflowcnt)]
    BY <1>4 DEF LoadBeforeLo, Cpu
  <2>2. before' \in [lo : Nat, hi : Nat] /\ before'.lo = Lo(overflowcnt)
    BY <1>0, <2>1 DEF TypeOK
  <2>3. now = TimeOf(overflowcnt + Uncounted, val)
    BY <2>1 DEF IInv, ClockInv, NotStarted
  <2>4. overflowcnt * Period <= now
    BY <1>1, <2>3, Distribute DEF TimeOf, Uncounted
  <2>5. now <= (overflowcnt + 1) * Period + 2 * Gap
    <3>1. CASE pending
      BY <1>1, <1>2, <3>1, Distribute DEF IInv, LatencyInv
    <3>2. CASE ~pending
      BY <1>1, <2>3, <3>2, Distribute DEF TimeOf, Uncounted
    <3> QED BY <3>1, <3>2
  <2>6. Stage' = 0
    BY <2>1 DEF Stage
  <2>7. now' <= roundAt' + (Stage' + (overflowcnt' - roundCnt')) * Gap + gap'
    BY <1>1, <2>1, <2>6
  <2> QED BY <1>1, <2>1, <2>2, <2>4, <2>5, <2>7 DEF RoundInv, Lo
<1>5. ASSUME NEW f, NEW t, Cpu(f, t), f \in PcInRound, t \in PcInRound, Stage' = Stage + 1,
             UNCHANGED <<roundAt, roundCnt>>, before'.lo = before.lo
      PROVE  RoundInv'
  <2>1. /\ pc = f /\ now' = now /\ overflowcnt' = overflowcnt /\ gap' = 0
        /\ roundAt' = roundAt /\ roundCnt' = roundCnt
    BY <1>5 DEF Cpu
  <2> DEFINE k == Stage + (overflowcnt - roundCnt)
  <2>2. k \in Int /\ Stage' + (overflowcnt - roundCnt) = k + 1
    BY <1>1, <1>3, <1>5, <2>1
  <2>3. now <= roundAt + k * Gap + gap
    BY <1>0, <1>5, <2>1 DEF RoundInv
  <2>4. k * Gap \in Int /\ (k + 1) * Gap = k * Gap + Gap
    BY <2>2, GapProducts
  <2>5. now <= roundAt + (k + 1) * Gap + 0
    <3> HIDE DEF k
    <3> QED BY <1>1, <2>3, <2>4
  <2> QED BY <1>0, <1>5, <2>1, <2>2, <2>5 DEF RoundInv, Lo
<1>6. CASE Tick
  <2>1. /\ pc' = pc /\ now' = now + 1 /\ overflowcnt' = overflowcnt /\ gap' = gap + 1
        /\ roundAt' = roundAt /\ roundCnt' = roundCnt /\ before' = before
    BY <1>6 DEF Tick, locals, history
  <2>2. Stage' = Stage
    BY <2>1 DEF Stage
  <2> DEFINE k == Stage + (overflowcnt - roundCnt)
  <2>3. now <= roundAt + k * Gap + gap
    BY <1>0, <2>1 DEF RoundInv, PcInRound
  <2>4. k * Gap \in Int
    BY <1>1, <1>3, <2>1, GapProducts DEF PcInRound
  <2>5. now + 1 <= roundAt + k * Gap + (gap + 1)
    <3> HIDE DEF k
    <3> QED BY <1>1, <2>3, <2>4
  <2> QED BY <1>0, <2>1, <2>2, <2>5 DEF RoundInv, Lo, PcInRound
<1>7. CASE SysTickHandler
  <2>1. /\ pc' = pc /\ now' = now /\ overflowcnt' = overflowcnt + 1 /\ gap' = 0
        /\ roundAt' = roundAt /\ roundCnt' = roundCnt /\ before' = before
        /\ pending /\ val # 0
    BY <1>7 DEF SysTickHandler, locals, history
  <2>2. Stage' = Stage /\ Stage \in 0 .. 3 /\ pc \in PcInRound
    BY <1>3, <2>1 DEF Stage, PcInRound
  <2> DEFINE k == Stage + (overflowcnt - roundCnt)
  <2>3. now <= roundAt + k * Gap + gap
    BY <1>0, <2>2 DEF RoundInv
  <2>4. /\ roundAt <= (roundCnt + 1) * Period + 2 * Gap
        /\ roundCnt <= overflowcnt /\ overflowcnt <= roundCnt + 1
        /\ before.lo = Lo(roundCnt)
        /\ roundCnt * Period <= roundAt
    BY <1>0, <2>2 DEF RoundInv
  <2>5. now = (overflowcnt + 2) * Period - val
    BY <1>1, <2>1 DEF IInv, ClockInv, NotStarted, TimeOf, Uncounted
  <2>6. k \in Int /\ k \in 0 .. 4
    BY <1>1, <2>2, <2>4
  <2>7. k * Gap <= 4 * Gap /\ k * Gap \in Int
    BY <1>1, <2>6
  <2>8. overflowcnt = roundCnt
    <3> SUFFICES ASSUME overflowcnt = roundCnt + 1 PROVE FALSE
      BY <1>1, <2>4
    <3>1. /\ (roundCnt + 1) * Period = roundCnt * Period + Period /\ roundCnt * Period \in Int
          /\ (overflowcnt + 2) * Period = roundCnt * Period + 3 * Period
      BY <1>1, Distribute, Z3
    <3> HIDE DEF k
    <3>2. now <= roundCnt * Period + Period + 2 * Gap + 4 * Gap + Gap
      BY <1>1, <2>3, <2>4, <2>7, <3>1
    <3>3. now >= roundCnt * Period + 2 * Period + 1
      BY <1>1, <2>5, <3>1
    <3> QED BY <1>1, <3>1, <3>2, <3>3
  <2>9. now <= roundAt + (k + 1) * Gap + 0
    <3>1. (k + 1) * Gap = k * Gap + Gap
      BY <2>6, GapProducts
    <3> HIDE DEF k
    <3> QED BY <1>1, <2>3, <2>7, <3>1
  <2>10. Stage' + (overflowcnt' - roundCnt') = k + 1
    BY <1>1, <2>1, <2>2
  <2> QED BY <1>1, <2>1, <2>4, <2>8, <2>9, <2>10 DEF RoundInv, Lo
<1>8. CASE LoadBeforeHi
  BY <1>0, <1>5, <1>8 DEF LoadBeforeHi, Cpu, PcInRound, Stage, history, TypeOK
<1>9. CASE LoadValue \/ LoadAgainLo
  BY <1>5, <1>9 DEF LoadValue, LoadAgainLo, Cpu, PcInRound, Stage, history
<1>10. CASE Setup \/ Work \/ Call \/ Return \/ Retry
  BY <1>10 DEF Setup, SetupReadOld, SetupPolls, SetupSeesOverflow, SetupReturns, Work, Call,
     Return, Retry, Cpu, PcInRound
<1>11. CASE UNCHANGED vars
  BY <1>0, <1>11 DEF vars, hardware, locals, history, RoundInv, Stage, PcInRound, Lo
<1> QED
  BY <1>4, <1>6, <1>7, <1>8, <1>9, <1>10, <1>11 DEF Next, GetTime

LEMMA ReadingStep == IInv /\ [Next]_vars => ReadingInv' /\ ReadingExact'
<1> SUFFICES ASSUME IInv, [Next]_vars PROVE ReadingInv' /\ ReadingExact'
  OBVIOUS
<1>0. TypeOK /\ TypeOK' /\ RoundInv /\ ReadingInv /\ ReadingExact
  BY TypeStep DEF IInv
<1>1. /\ overflowcnt \in Nat /\ roundCnt \in Nat /\ now \in Nat /\ started \in Nat
      /\ sampled \in Nat /\ prev \in Int /\ result \in Int /\ late \in {0, 1}
      /\ late <= MaxLate /\ MaxLate <= 1 /\ roundAt \in Nat
  BY <1>0 DEF TypeOK
<1>2. pc \in PcInRound => roundCnt <= overflowcnt /\ overflowcnt <= roundCnt + 1
  BY <1>0 DEF RoundInv
<1>3. Lo(roundCnt + 1) # Lo(roundCnt)
  BY <1>1, LowChanges
<1> USE DEF ReadingInv, ReadingExact, PcInRound
<1>4. CASE Tick
  <2>1. /\ UNCHANGED <<pc, overflowcnt, late, started, sampled, roundAt, roundCnt, prev>>
        /\ UNCHANGED <<before, again, result>> /\ now' = now + 1
        /\ (pending /\ late = 1) => (pending' /\ late' = 1)
    BY <1>4, Zenon DEF Tick, locals, history
  <2>2. now <= now'
    BY <1>1, <2>1
  <2>3. pc \in {"again_lo", "again_hi"} /\ overflowcnt = roundCnt /\ ~(pending' /\ late = 1)
          => result = sampled
    BY <1>0, <2>1
  <2> QED BY <1>0, <1>1, <2>1, <2>2, <2>3 DEF Lo, Hi
<1>5. CASE SysTickHandler
  <2>1. /\ UNCHANGED <<pc, now, started, sampled, roundAt, roundCnt, prev>>
        /\ UNCHANGED <<before, again, result>> /\ overflowcnt' = overflowcnt + 1
    BY <1>5 DEF SysTickHandler, locals, history
  <2>2. pc \in PcInRound => overflowcnt' # roundCnt'
    BY <1>1, <1>2, <2>1
  <2> QED BY <1>0, <2>1, <2>2 DEF Lo, Hi
<1>6. CASE Setup \/ Work
  <2>1. /\ pc \in {"boot", "setup", "idle"} /\ pc' \in {"setup", "idle"} /\ now' = now
        /\ UNCHANGED <<started, sampled, result, prev>>
        /\ (pc' = "setup" => pc \in {"boot", "setup"})
    BY <1>6 DEF Setup, SetupReadOld, SetupPolls, SetupSeesOverflow, SetupReturns, Work, Cpu,
       history
  <2>2. result = sampled /\ started <= sampled /\ sampled <= now
    BY <1>0, <1>1, <2>1
  <2>3. ReadingInv'
    BY <1>0, <2>1
  <2>4. ReadingExact'
    BY <2>1, <2>2
  <2> QED BY <2>3, <2>4
<1>7. CASE Call
  BY <1>0, <1>1, <1>7 DEF Call, Cpu
<1>8. CASE LoadBeforeLo
  <2>1. /\ pc = "before_lo" /\ pc' = "before_hi" /\ now' = now /\ roundAt' = now
        /\ UNCHANGED <<started, prev>>
    BY <1>8 DEF LoadBeforeLo, Cpu
  <2> QED BY <1>0, <1>1, <2>1
<1>9. CASE LoadBeforeHi
  <2>1. before' = [before EXCEPT !.hi = Hi(overflowcnt)] /\ before' \in [lo : Nat, hi : Nat]
    BY <1>0, <1>9 DEF LoadBeforeHi, TypeOK
  <2>2. before'.hi = Hi(overflowcnt)
    BY <1>0, <2>1 DEF TypeOK
  <2> QED BY <1>0, <1>1, <1>9, <2>2 DEF LoadBeforeHi, Cpu, history, Hi
<1>10. CASE LoadValue
  <2>1. /\ pc = "value" /\ pc' = "again_lo" /\ sampled' = now /\ now' = now
        /\ result' = TimeOf(WordMod * before.hi + before.lo, val)
        /\ UNCHANGED <<started, roundAt, roundCnt, prev, overflowcnt, pending, before>>
        /\ late' = IF pending THEN late + 1 ELSE 0
    BY <1>10 DEF LoadValue, Cpu
  <2>2. ASSUME overflowcnt = roundCnt, ~(pending /\ late' = 1)
        PROVE  result' = sampled'
    <3>1. WordMod * before.hi + before.lo = overflowcnt
      BY <1>0, <1>1, <2>1, <2>2, Halves DEF RoundInv
    <3>2. ~pending
      BY <1>0, <1>1, <1>10, <2>1, <2>2 DEF TypeOK, LoadValue, Cpu
    <3>3. now = TimeOf(overflowcnt + Uncounted, val) /\ Uncounted = 0
      BY <2>1, <3>2 DEF IInv, ClockInv, NotStarted, Uncounted
    <3> QED BY <1>1, <2>1, <3>1, <3>3
  <2> QED BY <1>0, <1>1, <2>1, <2>2 DEF Hi
<1>11. CASE LoadAgainLo
  <2>1. /\ pc = "again_lo" /\ pc' = "again_hi" /\ again' = Lo(overflowcnt) /\ now' = now
        /\ UNCHANGED <<started, sampled, roundAt, roundCnt, prev, overflowcnt, pending, before, result>>
        /\ late' = (IF pending THEN late + 1 ELSE 0) /\ (pending => late < MaxLate)
    BY <1>11 DEF LoadAgainLo, Cpu, history
  <2>2. ~(pending /\ late = 1)
    BY <1>1, <2>1
  <2>3. again' = Lo(roundCnt) => overflowcnt = roundCnt
    <3> SUFFICES ASSUME again' = Lo(roundCnt), overflowcnt # roundCnt PROVE FALSE
      OBVIOUS
    <3>1. overflowcnt = roundCnt + 1
      BY <1>1, <1>2, <2>1
    <3> QED BY <1>3, <2>1, <3>1
  <2> QED BY <1>0, <1>1, <2>1, <2>2, <2>3 DEF Lo, Hi
<1>12. CASE Return
  <2>1. /\ pc = "again_hi" /\ pc' = "idle" /\ prev' = result /\ again = before.lo /\ now' = now
        /\ UNCHANGED <<started, sampled, result>>
    BY <1>12 DEF Return, CountUnchanged, Cpu
  <2>2. result = sampled /\ started <= sampled /\ sampled <= now
    BY <1>0, <2>1 DEF RoundInv
  <2> QED BY <1>1, <2>1, <2>2
<1>13. CASE Retry
  BY <1>0, <1>13 DEF Retry, Cpu
<1>14. CASE UNCHANGED vars
  BY <1>0, <1>14 DEF vars, hardware, locals, history, Lo, Hi
<1> QED
  BY <1>4, <1>5, <1>6, <1>7, <1>8, <1>9, <1>10, <1>11, <1>12, <1>13, <1>14 DEF Next, GetTime

LEMMA NextInv == IInv /\ [Next]_vars => IInv'
BY TypeStep, ClockStep, RoundStep, ReadingStep DEF IInv

(* What each word loaded by hal_get_time is worth, whatever the counter    *)
(* and the handler did since.                                              *)
THEOREM ClockInvariant == Spec => []IInv
BY InitInv, NextInv, PTL DEF Spec

(* Types hold along every behaviour of the clock (common/hal-stm32f4.c and *)
(* common/hal-mps2.c).                                                     *)
THEOREM ClockTypes == Spec => []TypeOK
<1>1. IInv => TypeOK
  BY DEF IInv
<1> QED BY <1>1, ClockInvariant, PTL

(* hal_get_time() returns the time of a moment inside the call, whatever   *)
(* the handler interrupts (hal-stm32f4.c, hal_get_time).                   *)
THEOREM ClockExact == Spec => []ReadingExact
<1>1. IInv => ReadingExact
  BY DEF IInv
<1> QED BY <1>1, ClockInvariant, PTL

(* Consecutive readings never decrease, so no benchmark computes a         *)
(* negative, wrapped t1 - t0.                                              *)
THEOREM ClockMonotone == Spec => ReadingsMonotone
<1>1. IInv /\ [Next]_vars => [prev' >= prev]_prev
  <2> SUFFICES ASSUME IInv, [Next]_vars, prev' # prev PROVE prev' >= prev
    OBVIOUS
  <2>1. Return
    BY DEF Next, GetTime, Setup, SetupReadOld, SetupPolls, SetupSeesOverflow, SetupReturns,
       Tick, SysTickHandler, Work, Call, LoadBeforeLo, LoadBeforeHi, LoadValue, LoadAgainLo,
       Retry, Cpu, vars, history
  <2>2. pc = "again_hi" /\ prev' = result /\ again = before.lo
    BY <2>1 DEF Return, CountUnchanged, Cpu
  <2>3. result = sampled /\ started <= sampled /\ prev <= started
    BY <2>2 DEF IInv, ReadingInv, RoundInv, PcInRound
  <2> QED BY <2>2, <2>3 DEF IInv, TypeOK
<1> QED BY <1>1, ClockInvariant, PTL DEF Spec, ReadingsMonotone

(* The interruptible reading implements the atomic one (hal-stm32f4.c and  *)
(* hal-mps2.c, hal_get_time).                                              *)
LEMMA AtomicInit == Init => Atomic!Init
BY ClockAssumption DEF ClockAssumption, Init, Atomic!Init, Calling, PcInRound

LEMMA AtomicStep ==
  ASSUME IInv, [Next]_vars
  PROVE  [Atomic!Next]_<<now, Calling, started, prev>>
<1> USE DEF Atomic!Next, Calling, PcInRound
<1>1. CASE Tick
  BY <1>1 DEF Tick, locals, history, Atomic!Advance
<1>2. CASE SysTickHandler \/ UNCHANGED vars
  BY <1>2 DEF SysTickHandler, hardware, locals, history, vars
<1>3. CASE Setup \/ Work
  BY <1>3 DEF Setup, SetupReadOld, SetupPolls, SetupSeesOverflow, SetupReturns, Work, Cpu, history
<1>4. CASE Call
  BY <1>4 DEF Call, Cpu, Atomic!Begin
<1>5. CASE Return
  <2>1. /\ pc = "again_hi" /\ pc' = "idle" /\ prev' = result /\ again = before.lo
        /\ UNCHANGED <<now, started>>
    BY <1>5 DEF Return, CountUnchanged, Cpu
  <2>2. result = sampled /\ started <= sampled /\ sampled <= now
    BY <2>1 DEF IInv, ReadingInv, RoundInv
  <2>3. prev' \in started .. now
    BY <2>1, <2>2 DEF IInv, TypeOK
  <2> QED BY <2>1, <2>3 DEF Atomic!End
<1>6. CASE LoadBeforeLo \/ LoadBeforeHi \/ LoadValue \/ LoadAgainLo \/ Retry
  BY <1>6 DEF LoadBeforeLo, LoadBeforeHi, LoadValue, LoadAgainLo, Retry, Cpu, history
<1> QED
  BY <1>1, <1>2, <1>3, <1>4, <1>5, <1>6 DEF Next, GetTime

(* hal_get_time is as good as one read of a clock at one instant of the    *)
(* call.                                                                   *)
THEOREM ClockIsAtomic == Spec => ReadsAtomically
BY AtomicInit, AtomicStep, ClockInvariant, PTL DEF Spec, ReadsAtomically, Atomic!Spec

-----------------------------------------------------------------------------
(* A round repeated once starts soon after an overflow, so it is over      *)
(* before the next one.                                                    *)
RetryInv ==
  /\ retries <= 1
  /\ retries = 1 /\ pc = "before_lo" => now <= overflowcnt * Period + 7 * Gap + gap
  /\ retries = 1 /\ pc \in PcInRound => roundAt <= roundCnt * Period + 8 * Gap
  /\ pc = "again_hi" /\ overflowcnt = roundCnt => again = Lo(roundCnt)

(* A round that is repeated has met an overflow, a little before now.      *)
LEMMA RepeatedMetOverflow ==
  ASSUME IInv, RetryInv, Retry
  PROVE  /\ overflowcnt = roundCnt + 1
         /\ now <= roundAt + 4 * Gap + gap
         /\ roundAt <= (roundCnt + 1) * Period + 2 * Gap
         /\ now > overflowcnt * Period
<1>1. pc = "again_hi" /\ ~CountUnchanged
  BY DEF Retry, Cpu
<1>2. /\ roundAt <= (roundCnt + 1) * Period + 2 * Gap
      /\ roundCnt <= overflowcnt /\ overflowcnt <= roundCnt + 1
      /\ now <= roundAt + (Stage + (overflowcnt - roundCnt)) * Gap + gap
      /\ before.lo = Lo(roundCnt)
  BY <1>1 DEF IInv, RoundInv, PcInRound
<1>3. overflowcnt # roundCnt
  BY <1>1, <1>2 DEF CountUnchanged, IInv, ReadingInv, RetryInv
<1>4. overflowcnt \in Nat /\ roundCnt \in Nat /\ val \in 0 .. Period - 1 /\ now \in Nat
  BY DEF IInv, TypeOK
<1>5. overflowcnt = roundCnt + 1
  BY <1>2, <1>3, <1>4
<1>6. Stage + (overflowcnt - roundCnt) = 4
  BY <1>1, <1>4, <1>5 DEF Stage
<1>7. now = TimeOf(overflowcnt, val) \/ now = TimeOf(overflowcnt + 1, val)
  BY <1>1, <1>4 DEF IInv, ClockInv, NotStarted, Uncounted
<1>8. now > overflowcnt * Period
  <2>1. /\ overflowcnt * Period \in Int
        /\ (overflowcnt + 1) * Period = overflowcnt * Period + Period
        /\ (overflowcnt + 1 + 1) * Period = overflowcnt * Period + 2 * Period
    BY <1>4, Distribute
  <2> QED BY <1>4, <1>7, <2>1 DEF TimeOf
<1> QED BY <1>2, <1>5, <1>6, <1>8

LEMMA RetryStep ==
  ASSUME Period > 13 * Gap, IInv, RetryInv, [Next]_vars
  PROVE  RetryInv'
<1>0. TypeOK /\ TypeOK' /\ RoundInv
  BY TypeStep DEF IInv
<1>1. /\ overflowcnt \in Nat /\ roundCnt \in Nat /\ now \in Nat /\ roundAt \in Nat
      /\ gap \in 0 .. Gap /\ Gap \in Nat \ {0} /\ retries \in Nat
  BY <1>0 DEF TypeOK, Gap
<1>2. /\ overflowcnt * Period \in Int /\ roundCnt * Period \in Int
      /\ (overflowcnt + 1) * Period = overflowcnt * Period + Period
      /\ (roundCnt + 1) * Period = roundCnt * Period + Period
  BY <1>1, Distribute
<1> USE DEF RetryInv, PcInRound
<1>3. CASE Tick
  BY <1>1, <1>2, <1>3 DEF Tick, locals, history
<1>4. CASE SysTickHandler
  <2>1. /\ overflowcnt' = overflowcnt + 1 /\ gap' = 0 /\ now' = now
        /\ UNCHANGED <<pc, retries, roundAt, roundCnt, again>>
    BY <1>4 DEF SysTickHandler, locals, history
  <2>2. pc \in PcInRound => overflowcnt' # roundCnt
    BY <1>0, <1>1, <2>1 DEF RoundInv
  <2> QED BY <1>1, <1>2, <2>1, <2>2
<1>5. CASE Setup \/ Work
  BY <1>5 DEF Setup, SetupReadOld, SetupPolls, SetupSeesOverflow, SetupReturns, Work, Cpu, history
<1>6. CASE Call \/ Return
  BY <1>6 DEF Call, Return, Cpu
<1>7. CASE LoadBeforeLo
  BY <1>1, <1>2, <1>7 DEF LoadBeforeLo, Cpu
<1>8. CASE LoadBeforeHi \/ LoadValue
  BY <1>8 DEF LoadBeforeHi, LoadValue, Cpu, history
<1>9. CASE LoadAgainLo
  BY <1>9 DEF LoadAgainLo, Cpu, history, Lo
<1>10. CASE Retry
  <2>1. /\ pc = "again_hi" /\ pc' = "before_lo" /\ gap' = 0 /\ now' = now
        /\ overflowcnt' = overflowcnt
        /\ retries' = IF retries < 2 THEN retries + 1 ELSE 2
    BY <1>10 DEF Retry, Cpu
  <2>2. /\ overflowcnt = roundCnt + 1
        /\ now <= roundAt + 4 * Gap + gap
        /\ roundAt <= (roundCnt + 1) * Period + 2 * Gap
        /\ now > overflowcnt * Period
    BY <1>10, RepeatedMetOverflow
  <2>3. retries # 1
    <3>1. SUFFICES ASSUME retries = 1 PROVE FALSE
      OBVIOUS
    <3>2. roundAt <= roundCnt * Period + 8 * Gap
      BY <2>1, <3>1
    <3>3. now <= roundCnt * Period + 13 * Gap /\ now > roundCnt * Period + Period
      BY <1>1, <1>2, <2>2, <3>2
    <3> QED BY <1>1, <1>2, <3>3
  <2>4. retries = 0
    BY <1>1, <2>3
  <2>5. now <= overflowcnt * Period + 7 * Gap
    BY <1>1, <1>2, <2>2
  <2> QED BY <1>1, <1>2, <2>1, <2>4, <2>5
<1>11. CASE UNCHANGED vars
  BY <1>11 DEF vars, hardware, locals, history, Lo
<1> QED
  BY <1>3, <1>4, <1>5, <1>6, <1>7, <1>8, <1>9, <1>10, <1>11 DEF Next, GetTime

(* The loop of hal_get_time() repeats at most once, whatever the handler   *)
(* and the counter do between its accesses, when the period is longer than *)
(* two rounds (hal-stm32f4.c and hal-mps2.c, hal_get_time).                *)
THEOREM ClockRetriesOnce ==
  ASSUME Period > 13 * Gap
  PROVE  Spec => []OneRetry
<1>1. Init => RetryInv
  BY DEF Init, RetryInv, PcInRound
<1>2. RetryInv /\ IInv /\ [Next]_vars => RetryInv'
  BY RetryStep
<1>3. RetryInv => OneRetry
  BY DEF RetryInv, OneRetry
<1> QED BY <1>1, <1>2, <1>3, ClockInvariant, PTL DEF Spec

=============================================================================
