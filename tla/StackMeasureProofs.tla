------------------------- MODULE StackMeasureProofs -------------------------
(***************************************************************************)
(* What the stack drivers report, for any calls, frames, increments and    *)
(* heap growth that StackAssumption allows.  The properties speak of a     *)
(* round's results; IInv adds what holds between painting and scanning:    *)
(* the paint is whole before the call but for what an interrupt pushed     *)
(* (PaintInv), afterwards every mark has a cause (MarkInv), and the canary *)
(* is longer than what an interrupt pushes (CanaryInv).  The second part   *)
(* shows that the search for a canary long enough ends.                    *)
(***************************************************************************)
EXTENDS StackMeasure, WellFoundedInduction, TLAPS

CanaryInv ==
  /\ canary \in Nat /\ canary >= Increment /\ canary <= looked + Frame
  /\ room \in Nat /\ looked \in Nat /\ room <= looked /\ looked <= Room /\ Room <= room + MaxGrowth

PaintInv ==
  phase = "call" => \A d \in 1 .. canary : d > Exception => d \in painted

MarkInv ==
  phase = "check" =>
    /\ \A d \in 1 .. canary : d \notin painted => d <= deep[call] \/ d > room \/ d <= Exception
    /\ \A d \in marks[call] : d \notin painted

CallInv ==
  /\ phase \in {"fill", "call", "check"} \/ reason = "too deep" => call <= Calls
  /\ phase \in {"fill", "call", "check", "compare"} => reason = "none"

SearchInv ==
  /\ failed \/ canary <= deepest + Increment \/ room < deepest + Increment
  /\ \A o \in 1 .. Calls : deep[o] <= deepest
  /\ phase = "main" => failed \/ reason = "too deep"

IInv ==
  /\ Typed /\ CanaryInv /\ PaintInv /\ MarkInv /\ CallInv /\ SearchInv
  /\ ReportExact /\ FailsForAReason

-----------------------------------------------------------------------------
LEMMA Sizes ==
  /\ Calls \in Nat /\ Calls >= 1 /\ Exception \in Nat /\ Frame \in Nat /\ Increment \in Nat
  /\ Room \in Nat /\ MaxGrowth \in Nat /\ Exception < Increment /\ Increment + MaxGrowth <= Room
BY StackAssumption DEF StackAssumption

LEMMA Shape ==
  ASSUME NEW o \in 1 .. Calls
  PROVE  Depth[o] \in Nat /\ Footprint[o] \subseteq 1 .. Depth[o]
BY StackAssumption DEF StackAssumption

LEMMA Carried ==
  \A a, b, c, d \in Nat : c <= a + d /\ a <= b => c <= b + d
OBVIOUS

LEMMA CarriedBelow ==
  \A a, b, c, d, e \in Nat : c < a + d /\ a <= b /\ e <= c => e < b + d
OBVIOUS

LEMMA InitInv == Init => IInv
<1> SUFFICES ASSUME Init PROVE IInv
  OBVIOUS
<1>1. /\ phase = "fill" /\ call = 1 /\ canary = Increment /\ painted = {} /\ room = Room
      /\ looked = Room /\ reason = "none"
  BY DEF Init
<1>2. /\ measured \in [1 .. Calls -> Nat] /\ deep \in [1 .. Calls -> Nat]
      /\ marks \in [1 .. Calls -> SUBSET Nat]
  BY DEF Init, Zeros
<1>s. /\ deepest = 0 /\ failed = FALSE /\ \A o \in 1 .. Calls : deep[o] = 0
  BY DEF Init, Zeros
<1>3. Typed /\ CanaryInv
  <2>1. CanaryInv /\ call \in 1 .. Calls + 1 /\ call # Calls + 1
    BY <1>1, Sizes DEF CanaryInv
  <2> QED BY <2>1, <1>1, <1>2, <1>s DEF Typed
<1>6. SearchInv
  BY <1>1, <1>s, Sizes DEF SearchInv
<1>4. PaintInv /\ MarkInv /\ CallInv /\ FailsForAReason
  BY <1>1, Sizes DEF PaintInv, MarkInv, CallInv, FailsForAReason
<1>5. ReportExact
  BY <1>1 DEF ReportExact, Measured
<1> QED BY <1>3, <1>4, <1>5, <1>6 DEF IInv

(* What Typed and CanaryInv say, one fact at a time. *)
LEMMA Ranges ==
  ASSUME Typed, CanaryInv
  PROVE  /\ call \in Nat /\ 1 <= call /\ call <= Calls + 1
         /\ call <= Calls => call \in 1 .. Calls
         /\ canary \in Nat /\ canary > Exception /\ canary <= looked + Frame /\ canary >= Increment
         /\ room \in Nat /\ looked \in Nat /\ room <= looked /\ looked <= Room
         /\ Room <= room + MaxGrowth
         /\ measured \in [1 .. Calls -> Nat] /\ deep \in [1 .. Calls -> Nat]
         /\ marks \in [1 .. Calls -> SUBSET Nat] /\ painted \subseteq Nat
<1>1. call \in 1 .. Calls + 1
  BY DEF Typed
<1>2. /\ measured \in [1 .. Calls -> Nat] /\ deep \in [1 .. Calls -> Nat]
      /\ marks \in [1 .. Calls -> SUBSET Nat] /\ painted \subseteq Nat
  BY DEF Typed
<1>3. call \in Nat /\ 1 <= call /\ call <= Calls + 1 /\ (call <= Calls => call \in 1 .. Calls)
  BY <1>1, Sizes
<1>4. /\ canary \in Nat /\ canary <= looked + Frame /\ canary >= Increment
      /\ room \in Nat /\ looked \in Nat /\ room <= looked /\ looked <= Room
      /\ Room <= room + MaxGrowth
  BY DEF CanaryInv
<1>5. canary > Exception
  BY <1>4, Sizes
<1> QED BY <1>2, <1>3, <1>4, <1>5

(* A step that leaves the results of the round alone keeps what is said of *)
(* them.                                                                   *)
LEMMA ReportKept ==
  ASSUME ReportExact, call' = call, canary' = canary, measured' = measured, room' = room,
         deep' = deep, marks' = marks
  PROVE  ReportExact'
BY DEF ReportExact, Measured

LEMMA SearchKept ==
  ASSUME SearchInv, canary' = canary, room' = room, deep' = deep, deepest' = deepest,
         failed' = failed, phase' = "main" => phase = "main" /\ reason' = reason
  PROVE  SearchInv'
BY DEF SearchInv

LEMMA FillInv == IInv /\ Fill => IInv'
<1> SUFFICES ASSUME IInv, Fill PROVE IInv'
  OBVIOUS
<1>1. PICK i \in {0, Exception} : painted' = (1 .. canary) \ (1 .. i)
  BY DEF Fill
<1>2. /\ phase = "fill" /\ phase' = "call" /\ call' = call /\ canary' = canary
      /\ measured' = measured /\ reason' = reason /\ room' = room /\ looked' = looked
      /\ deep' = deep /\ marks' = marks /\ deepest' = deepest /\ failed' = failed
  BY DEF Fill, history, rounds
<1>3. Typed /\ CanaryInv /\ CallInv /\ ReportExact /\ SearchInv
  BY DEF IInv
<1>4. Typed'
  <2>1. painted' \subseteq Nat /\ call # Calls + 1
    BY <1>1, <1>2, <1>3, Sizes DEF CallInv, CanaryInv
  <2> QED BY <2>1, <1>2, <1>3 DEF Typed
<1>5. CanaryInv' /\ CallInv' /\ MarkInv' /\ FailsForAReason'
  BY <1>2, <1>3 DEF CanaryInv, CallInv, MarkInv, FailsForAReason
<1>6. PaintInv'
  BY <1>1, <1>2, <1>3, Sizes DEF CanaryInv, PaintInv
<1>7. ReportExact' /\ SearchInv'
  BY <1>2, <1>3, ReportKept, SearchKept
<1> QED BY <1>4, <1>5, <1>6, <1>7 DEF IInv

LEMMA CallStepInv == IInv /\ Call => IInv'
<1> SUFFICES ASSUME IInv, Call PROVE IInv'
  OBVIOUS
<1>a. Typed /\ CanaryInv /\ PaintInv /\ CallInv /\ ReportExact /\ SearchInv
  BY DEF IInv
<1>1. PICK r \in 0 .. Depth[call], i \in {0, Exception}, g \in 0 .. MaxGrowth :
        LET touched == Footprint[call] \cup (r + 1) .. (r + i)
        IN /\ g <= room + MaxGrowth - Room
           /\ room' = room - g
           /\ deep' = [deep EXCEPT ![call] = IF r + i > Depth[call] THEN r + i ELSE Depth[call]]
           /\ deep'[call] <= room'
           /\ \E blank \in SUBSET touched, data \in SUBSET ((room' + 1) .. canary) :
                /\ painted' = (painted \cup (blank \cap 1 .. canary)) \ ((touched \ blank) \cup data)
                /\ marks' = [marks EXCEPT ![call] = touched \ blank]
  BY Zenon DEF Call
<1> DEFINE touched == Footprint[call] \cup (r + 1) .. (r + i)
<1>2. PICK blank \in SUBSET touched, data \in SUBSET ((room' + 1) .. canary) :
        /\ painted' = (painted \cup (blank \cap 1 .. canary)) \ ((touched \ blank) \cup data)
        /\ marks' = [marks EXCEPT ![call] = touched \ blank]
  BY <1>1, Zenon
<1>b. /\ g <= room + MaxGrowth - Room /\ room' = room - g
      /\ deep' = [deep EXCEPT ![call] = IF r + i > Depth[call] THEN r + i ELSE Depth[call]]
  BY <1>1, Zenon
<1>3. /\ phase = "call" /\ call' = call /\ canary' = canary /\ measured' = measured
      /\ looked' = looked
      /\ deepest' = IF deep'[call] > deepest THEN deep'[call] ELSE deepest
      /\ \/ phase' = "check" /\ reason' = reason /\ failed' = failed
         \/ phase' = "main" /\ reason' = "call failed" /\ failed' = TRUE
  BY DEF Call, Return
<1>c. call \in Nat /\ call \in 1 .. Calls
  BY <1>3, <1>a, Ranges DEF CallInv
<1>4. /\ Depth[call] \in Nat /\ Footprint[call] \subseteq 1 .. Depth[call]
      /\ r \in Nat /\ r <= Depth[call] /\ i \in Nat
  BY <1>c, Shape, Sizes
<1>5. /\ deep'[call] \in Nat /\ Depth[call] <= deep'[call] /\ r + i <= deep'[call]
      /\ deep' \in [1 .. Calls -> Nat] /\ \A o \in 1 .. Calls : o # call => deep'[o] = deep[o]
  <2>1. deep \in [1 .. Calls -> Nat]
    BY <1>a DEF Typed
  <2>2. (IF r + i > Depth[call] THEN r + i ELSE Depth[call]) \in Nat
    BY <1>4
  <2>3. deep'[call] = (IF r + i > Depth[call] THEN r + i ELSE Depth[call])
    BY <2>1, <1>b, <1>c
  <2>4. /\ deep' \in [1 .. Calls -> Nat]
        /\ \A o \in 1 .. Calls : o # call => deep'[o] = deep[o]
    BY <2>1, <2>2, <1>b, <1>c
  <2> QED BY <2>3, <2>4, <1>4
<1>6. touched \subseteq Nat /\ \A d \in touched : d >= 1 /\ d <= deep'[call]
  BY <1>4, <1>5
<1>7. /\ marks'[call] = touched \ blank /\ marks' \in [1 .. Calls -> SUBSET Nat]
      /\ \A o \in 1 .. Calls : o # call => marks'[o] = marks[o]
  <2>1. marks \in [1 .. Calls -> SUBSET Nat] /\ touched \ blank \in SUBSET Nat
    BY <1>a, <1>6 DEF Typed
  <2> QED BY <2>1, <1>2, <1>c
<1>8. room \in Nat /\ g \in Nat /\ room' \in Nat /\ room' = room - g /\ Room <= room' + MaxGrowth
  BY <1>b, <1>a, Sizes DEF CanaryInv
<1>9. painted' \subseteq Nat
  <2>1. painted \subseteq Nat /\ 1 .. canary \subseteq Nat
    BY <1>a, Ranges
  <2> QED BY <2>1, <1>2
<1>d. CanaryInv'
  <2>1. /\ canary \in Nat /\ canary >= Increment /\ canary <= looked + Frame
        /\ looked \in Nat /\ room <= looked /\ looked <= Room
    BY <1>a, Ranges
  <2>2. room' <= looked
    BY <2>1, <1>8
  <2> QED BY <2>1, <2>2, <1>3, <1>8 DEF CanaryInv
<1>10. Typed'
  <2>1. measured' \in [1 .. Calls -> Nat] /\ deepest' \in Nat /\ failed' \in BOOLEAN
    BY <1>3, <1>5, <1>a DEF Typed
  <2>2. /\ call' \in 1 .. Calls + 1 /\ call' # Calls + 1
        /\ phase' \in {"fill", "call", "check", "compare", "main", "ok", "gave up"}
        /\ reason' \in {"none", "call failed", "too deep", "mismatch"}
    BY <1>3, <1>c, <1>a, Sizes DEF Typed
  <2> QED BY <2>1, <2>2, <1>5, <1>7, <1>9 DEF Typed
<1>15. SearchInv'
  <2>1. deepest \in Nat /\ deepest <= deepest' /\ deep'[call] <= deepest' /\ deepest' \in Nat
    <3>1. deepest \in Nat /\ deepest' = IF deep'[call] > deepest THEN deep'[call] ELSE deepest
      BY <1>3, <1>a DEF Typed
    <3> QED BY <3>1, <1>5
  <2>2. ASSUME NEW o \in 1 .. Calls PROVE deep'[o] <= deepest'
    <3>1. CASE o = call
      BY <3>1, <2>1
    <3>2. CASE o # call
      <4>1. deep'[o] = deep[o] /\ deep[o] <= deepest /\ deep[o] \in Nat
        BY <3>2, <1>5, <1>a DEF SearchInv, Typed
      <4> QED BY <4>1, <2>1
    <3> QED BY <3>1, <3>2
  <2>3. failed' \/ canary' <= deepest' + Increment \/ room' < deepest' + Increment
    <3>1. failed \/ canary <= deepest + Increment \/ room < deepest + Increment
      BY <1>a DEF SearchInv
    <3>2. canary \in Nat
      BY <1>a, Ranges
    <3>3. CASE failed
      BY <3>3, <1>3
    <3>4. CASE canary <= deepest + Increment
      <4>1. canary' = canary
        BY <1>3
      <4>2. canary' <= deepest' + Increment
        BY <4>1, <3>4, <3>2, <2>1, Carried, Sizes
      <4> QED BY <4>2
    <3>5. CASE room < deepest + Increment
      <4>1. room' \in Nat /\ room \in Nat /\ room' <= room
        BY <1>8
      <4>2. room' < deepest' + Increment
        BY <4>1, <3>5, <2>1, CarriedBelow, Sizes
      <4> QED BY <4>2
    <3> QED BY <3>1, <3>3, <3>4, <3>5
  <2>4. phase' = "main" => failed'
    BY <1>3
  <2> QED BY <2>2, <2>3, <2>4, Zenon DEF SearchInv
<1>11. CallInv' /\ PaintInv'
  <2>1. call <= Calls
    BY <1>c, Sizes
  <2> QED BY <2>1, <1>3, <1>a DEF CallInv, PaintInv
<1>12. MarkInv'
  <2>1. ASSUME NEW d \in 1 .. canary, d \notin painted'
        PROVE  d <= deep'[call] \/ d > room' \/ d <= Exception
    <3>1. CASE d \in touched
      BY <3>1, <1>6
    <3>2. CASE d \in data
      BY <3>2, <1>2, <1>8
    <3>3. CASE d \notin touched /\ d \notin data
      <4>1. d \notin painted
        BY <3>3, <2>1, <1>2
      <4>2. ~(d > Exception)
        BY <4>1, <1>3, <1>a DEF PaintInv
      <4>3. d \in Nat
        BY <1>a, Ranges
      <4> QED BY <4>2, <4>3, Sizes
    <3> QED BY <3>1, <3>2, <3>3
  <2>2. \A d \in marks'[call] : d \notin painted'
    BY <1>2, <1>7
  <2> QED BY <2>1, <2>2, <1>3 DEF MarkInv
<1>13. ReportExact'
  <2>1. SUFFICES ASSUME NEW o \in Measured'
        PROVE  /\ \A d \in marks'[o] : d <= canary' => d <= measured'[o]
               /\ measured'[o] > deep'[o] => (measured'[o] > room' \/ measured'[o] <= Exception)
    BY DEF ReportExact
  <2>2. o \in Measured /\ o # call /\ o \in 1 .. Calls
    <3>1. o \in 1 .. Calls /\ o < call
      BY <1>3 DEF Measured
    <3> QED BY <3>1, <1>c DEF Measured
  <2>3. marks'[o] = marks[o] /\ deep'[o] = deep[o]
    BY <2>2, <1>5, <1>7
  <2>4. measured[o] \in Nat
    BY <2>2, <1>a DEF Typed
  <2>5. /\ \A d \in marks[o] : d <= canary => d <= measured[o]
        /\ measured[o] > deep[o] => (measured[o] > room \/ measured[o] <= Exception)
    BY <2>2, <1>a DEF ReportExact
  <2>6. \A d \in marks'[o] : d <= canary' => d <= measured'[o]
    BY <2>3, <2>5, <1>3
  <2>7. measured[o] > room => measured[o] > room'
    BY <2>4, <1>8
  <2> QED BY <2>3, <2>5, <2>6, <2>7, <1>3
<1>14. FailsForAReason'
  BY <1>3, <1>a DEF FailsForAReason
<1> QED BY <1>d, <1>10, <1>11, <1>12, <1>13, <1>14, <1>15 DEF IInv

LEMMA CheckInv == IInv /\ Check => IInv'
<1> SUFFICES ASSUME IInv, Check PROVE IInv'
  OBVIOUS
<1>a. Typed /\ CanaryInv /\ MarkInv /\ CallInv /\ ReportExact /\ SearchInv
  BY DEF IInv
<1>1. PICK i \in 0 .. Exception, c \in 0 .. canary :
        /\ StopsAt(c, painted \ (1 .. i))
        /\ IF c >= canary THEN Return("too deep") /\ UNCHANGED <<call, measured>>
           ELSE /\ measured' = [measured EXCEPT ![call] = c]
                /\ call' = call + 1
                /\ phase' = IF call < Calls THEN "fill" ELSE "compare"
                /\ UNCHANGED reason
  BY Zenon DEF Check
<1>2. /\ phase = "check" /\ canary' = canary /\ painted' = painted /\ room' = room
      /\ looked' = looked /\ deep' = deep /\ marks' = marks /\ deepest' = deepest
      /\ failed' = failed
  BY DEF Check, history, rounds
<1>b. call \in Nat /\ call \in 1 .. Calls
  BY <1>2, <1>a, Ranges DEF CallInv
<1>3. /\ i \in Nat /\ c \in Nat /\ canary \in Nat /\ canary > Exception /\ c <= canary
      /\ deep[call] \in Nat /\ marks[call] \subseteq Nat /\ i <= Exception /\ room \in Nat
  <2>1. /\ canary \in Nat /\ canary > Exception /\ room \in Nat
        /\ deep \in [1 .. Calls -> Nat] /\ marks \in [1 .. Calls -> SUBSET Nat]
    BY <1>a, Ranges
  <2>2. deep[call] \in Nat /\ marks[call] \subseteq Nat
    BY <2>1, <1>b
  <2> QED BY <2>1, <2>2, Sizes
<1>4. c # 0 => c \notin painted \/ c <= Exception
  <2>1. c # 0 => c \notin painted \ (1 .. i)
    BY <1>1 DEF StopsAt
  <2> QED BY <2>1, <1>3, Sizes
<1>5. ASSUME NEW d \in Nat, d > c, d <= canary PROVE d \in painted
  <2>1. \A e \in (c + 1) .. canary : e \in painted \ (1 .. i)
    BY <1>1 DEF StopsAt
  <2>2. d \in (c + 1) .. canary
    BY <1>5, <1>3
  <2> QED BY <2>1, <2>2
<1>c. /\ \A d \in 1 .. canary : d \notin painted => d <= deep[call] \/ d > room \/ d <= Exception
      /\ \A d \in marks[call] : d \notin painted
  BY <1>2, <1>a DEF MarkInv
<1>6. CanaryInv'
  BY <1>2, <1>a DEF CanaryInv
<1>d. SearchInv'
  <2>1. phase' = "main" => reason' = "too deep"
    BY <1>1 DEF Return
  <2> QED BY <2>1, <1>2, <1>a DEF SearchInv
<1>7. CASE c >= canary
  <2>1. phase' = "main" /\ reason' = "too deep" /\ call' = call /\ measured' = measured
    BY <1>1, <1>7 DEF Return
  <2>2. Typed'
    BY <2>1, <1>2, <1>a DEF Typed
  <2>3. ReportExact'
    BY <2>1, <1>2, <1>a, ReportKept
  <2>4. canary \notin painted
    BY <1>3, <1>4, <1>7, Sizes
  <2>5. deep[call] >= canary \/ canary > room
    BY <2>4, <1>c, <1>3, Sizes
  <2>6. CallInv'
    <3>1. call <= Calls
      BY <1>b, Sizes
    <3> QED BY <3>1, <2>1 DEF CallInv
  <2>7. FailsForAReason' /\ PaintInv' /\ MarkInv' /\ CallInv'
    BY <2>1, <2>5, <2>6, <1>2 DEF FailsForAReason, PaintInv, MarkInv
  <2> QED BY <2>2, <2>3, <2>7, <1>6, <1>d DEF IInv
<1>8. CASE ~(c >= canary)
  <2>1. /\ measured' = [measured EXCEPT ![call] = c] /\ call' = call + 1 /\ reason' = reason
        /\ phase' = IF call < Calls THEN "fill" ELSE "compare"
    BY <1>1, <1>8
  <2>2. measured' \in [1 .. Calls -> Nat] /\ measured'[call] = c
        /\ \A o \in 1 .. Calls : o # call => measured'[o] = measured[o]
    BY <2>1, <1>3, <1>b, <1>a DEF Typed
  <2>3. Typed'
    <3>1. /\ call' \in 1 .. Calls + 1 /\ (call' = Calls + 1 => phase' = "compare")
          /\ phase' \in {"fill", "compare"}
      BY <2>1, <1>b, Sizes
    <3> QED BY <3>1, <2>1, <2>2, <1>2, <1>a DEF Typed
  <2>4. FailsForAReason' /\ PaintInv' /\ MarkInv' /\ CallInv'
    BY <2>1, <1>2, <1>a, <1>b, Sizes DEF FailsForAReason, PaintInv, MarkInv, CallInv
  <2>5. ReportExact'
    <3>1. SUFFICES ASSUME NEW o \in Measured'
          PROVE  /\ \A d \in marks'[o] : d <= canary' => d <= measured'[o]
                 /\ measured'[o] > deep'[o] => (measured'[o] > room' \/ measured'[o] <= Exception)
      BY DEF ReportExact
    <3>2. o \in 1 .. Calls /\ o <= call
      BY <2>1, <1>b DEF Measured
    <3>3. CASE o = call
      <4>1. measured'[o] = c
        BY <3>3, <2>2
      <4>2. \A d \in marks[call] : d <= canary => d <= c
        BY <1>c, <1>3, <1>5
      <4>3. c > deep[call] => c > room \/ c <= Exception
        BY <1>c, <1>3, <1>4, Sizes
      <4> QED BY <3>3, <4>1, <4>2, <4>3, <1>2
    <3>4. CASE o # call
      <4>1. o \in Measured /\ measured'[o] = measured[o]
        BY <3>2, <3>4, <2>2, <1>b DEF Measured
      <4> QED BY <4>1, <1>2, <1>a DEF ReportExact
    <3> QED BY <3>3, <3>4
  <2> QED BY <2>3, <2>4, <2>5, <1>6, <1>d DEF IInv
<1> QED BY <1>7, <1>8

LEMMA CompareInv == IInv /\ Compare => IInv'
<1> SUFFICES ASSUME IInv, Compare PROVE IInv'
  OBVIOUS
<1>1. /\ call' = call /\ canary' = canary /\ measured' = measured /\ painted' = painted
      /\ room' = room /\ looked' = looked /\ deep' = deep /\ marks' = marks
      /\ deepest' = deepest
      /\ \/ phase' = "ok" /\ reason' = reason /\ failed' = failed
         \/ phase' = "main" /\ reason' = "mismatch" /\ failed' = TRUE
  BY DEF Compare, Return
<1>2. Typed /\ CanaryInv /\ ReportExact /\ SearchInv /\ CallInv /\ phase = "compare"
  BY DEF IInv, Compare
<1>3. Typed'
  BY <1>1, <1>2 DEF Typed
<1>4. CanaryInv' /\ PaintInv' /\ MarkInv' /\ CallInv' /\ FailsForAReason'
  BY <1>1, <1>2 DEF CanaryInv, PaintInv, MarkInv, CallInv, FailsForAReason
<1>5. ReportExact'
  BY <1>1, <1>2, ReportKept
<1>6. SearchInv'
  BY <1>1, <1>2 DEF SearchInv
<1> QED BY <1>3, <1>4, <1>5, <1>6 DEF IInv

LEMMA MainInv == IInv /\ Main => IInv'
<1> SUFFICES ASSUME IInv, Main PROVE IInv'
  OBVIOUS
<1>a. /\ Typed /\ CanaryInv /\ ReportExact /\ SearchInv /\ phase = "main" /\ looked' = room
      /\ measured' = measured /\ painted' = painted /\ room' = room
      /\ deepest' = deepest /\ failed' = failed
  BY DEF IInv, Main, rounds
<1>b. /\ canary \in Nat /\ canary >= Increment /\ canary <= looked + Frame
      /\ room \in Nat /\ looked \in Nat /\ room <= looked /\ looked <= Room
      /\ Room <= room + MaxGrowth /\ Limit = room + Frame
  BY <1>a, Ranges DEF Limit
<1>c. /\ looked' = room /\ room' = room /\ measured' = measured /\ painted' = painted
      /\ looked' \in Nat /\ room' \in Nat /\ room' <= looked' /\ looked' <= Room
      /\ Room <= room' + MaxGrowth
  BY <1>a, <1>b, Sizes
<1>1. CASE canary = Limit
  <2>1. /\ phase' = "gave up" /\ call' = call /\ canary' = canary /\ reason' = reason
        /\ deep' = deep /\ marks' = marks
    BY <1>1 DEF Main
  <2>0. canary' = room + Frame
    BY <2>1, <1>1, <1>b
  <2>2. CanaryInv'
    <3>1. canary' \in Nat /\ canary' >= Increment
      BY <2>1, <1>b
    <3>2. canary' <= looked' + Frame
      BY <2>0, <1>b, <1>c, Sizes
    <3> QED BY <3>1, <3>2, <1>c DEF CanaryInv
  <2>3. Typed'
    BY <2>1, <1>a DEF Typed
  <2>4. PaintInv' /\ MarkInv' /\ CallInv' /\ FailsForAReason'
    <3>1. canary' >= room'
      BY <2>0, <1>b, <1>c, Sizes
    <3>2. reason = "too deep" => call <= Calls
      BY DEF IInv, CallInv
    <3> QED BY <3>1, <3>2, <2>1 DEF PaintInv, MarkInv, CallInv, FailsForAReason
  <2>5. ReportExact' /\ SearchInv'
    BY <2>1, <1>a, ReportKept, SearchKept
  <2> QED BY <2>2, <2>3, <2>4, <2>5 DEF IInv
<1>2. CASE canary # Limit
  <2>1. /\ phase' = "fill" /\ call' = 1
        /\ reason' = "none" /\ deep' = Zeros /\ marks' = [o \in 1 .. Calls |-> {}]
        /\ canary' = IF canary + Increment >= Limit THEN Limit ELSE canary + Increment
    BY <1>2 DEF Main, Forget
  <2>2. CanaryInv'
    <3>1. room + Frame >= Increment
      BY <1>b, Sizes
    <3>2. canary' \in Nat /\ canary' >= Increment /\ canary' <= room + Frame
      BY <3>1, <2>1, <1>b, Sizes
    <3>3. canary' <= looked' + Frame
      BY <3>2, <1>c
    <3> QED BY <3>2, <3>3, <1>c DEF CanaryInv
  <2>3. deep' \in [1 .. Calls -> Nat] /\ marks' \in [1 .. Calls -> SUBSET Nat]
    BY <2>1 DEF Zeros
  <2>4. Typed'
    <3>1. call' \in 1 .. Calls + 1 /\ call' # Calls + 1
      BY <2>1, Sizes
    <3> QED BY <3>1, <2>1, <2>3, <1>a DEF Typed
  <2>7. SearchInv'
    <3>1. \A o \in 1 .. Calls : deep'[o] <= deepest'
      <4>1. deepest' \in Nat /\ \A o \in 1 .. Calls : deep'[o] = 0
        BY <2>1, <1>a DEF Typed, Zeros
      <4> QED BY <4>1
    <3>2. failed' \/ canary' <= deepest' + Increment \/ room' < deepest' + Increment
      <4>1. failed \/ reason = "too deep"
        BY <1>a DEF SearchInv
      <4>2. CASE failed
        BY <4>2, <1>a
      <4>3. CASE reason = "too deep"
        <5>1. deep[call] >= canary \/ canary > room
          BY <4>3, <1>a DEF IInv, FailsForAReason
        <5>2. canary' <= canary + Increment
          BY <2>1, <1>b, Sizes
        <5>3. /\ deepest \in Nat /\ canary' \in Nat
              /\ failed \/ canary <= deepest + Increment \/ room < deepest + Increment
          BY <1>a, <2>2 DEF Typed, CanaryInv, SearchInv
        <5>4. CASE canary > room
          BY <5>4, <5>3, <1>a, <1>b, Sizes
        <5>5. CASE deep[call] >= canary
          <6>1. call \in 1 .. Calls
            BY <4>3, <1>a, Ranges DEF IInv, CallInv
          <6>2. deep[call] <= deepest /\ deep[call] \in Nat
            BY <6>1, <1>a, Ranges DEF SearchInv
          <6> QED BY <6>2, <5>2, <5>3, <5>5, <1>a, <1>b, Sizes
        <5> QED BY <5>1, <5>4, <5>5
      <4> QED BY <4>1, <4>2, <4>3
    <3> QED BY <3>1, <3>2, <2>1 DEF SearchInv
  <2>5. PaintInv' /\ MarkInv' /\ CallInv' /\ FailsForAReason'
    BY <2>1, Sizes DEF PaintInv, MarkInv, CallInv, FailsForAReason
  <2>6. ReportExact'
    BY <2>1 DEF ReportExact, Measured
  <2> QED BY <2>2, <2>4, <2>5, <2>6, <2>7 DEF IInv
<1> QED BY <1>1, <1>2

(* Where the canary ends, which bytes still hold it, and what changed the  *)
(* others.                                                                 *)
THEOREM StackInvariant == Spec => []IInv
<1>1. IInv /\ UNCHANGED vars => IInv'
  <2> SUFFICES ASSUME IInv, UNCHANGED vars PROVE IInv'
    OBVIOUS
  <2>1. /\ phase' = phase /\ call' = call /\ canary' = canary /\ measured' = measured
        /\ reason' = reason /\ painted' = painted /\ room' = room /\ looked' = looked
        /\ deep' = deep /\ marks' = marks /\ deepest' = deepest /\ failed' = failed
    BY DEF vars, program, history, rounds
  <2>2. Typed' /\ CanaryInv'
    BY <2>1 DEF IInv, Typed, CanaryInv
  <2>3. PaintInv' /\ MarkInv' /\ CallInv' /\ FailsForAReason'
    BY <2>1 DEF IInv, PaintInv, MarkInv, CallInv, FailsForAReason
  <2>4. ReportExact' /\ SearchInv'
    BY <2>1, ReportKept, SearchKept DEF IInv
  <2> QED BY <2>2, <2>3, <2>4 DEF IInv
<1>2. IInv /\ [Next]_vars => IInv'
  BY <1>1, FillInv, CallStepInv, CheckInv, CompareInv, MainInv DEF Next
<1> QED BY InitInv, <1>2, PTL DEF Spec

(* Where the heap end and the canary can be, for any footprints, heap      *)
(* growth and number of calls.                                             *)
THEOREM StackTypes == Spec => []TypeOK
<1>1. IInv => TypeOK
  BY Sizes DEF IInv, CanaryInv, TypeOK
<1> QED BY StackInvariant, <1>1, PTL

(* What stack.c prints is the far end of the marks the call left in the    *)
(* canary, and exceeds the call's depth only through the heap or an        *)
(* interrupt.                                                              *)
THEOREM StackReports == Spec => []ReportExact
<1>1. IInv => ReportExact
  BY DEF IInv
<1> QED BY StackInvariant, <1>1, PTL

(* FILL_STACK leaves the heap alone until a call came within              *)
(* STACK_SIZE_INCR of its end, or a round failed for another reason.       *)
THEOREM StackPaint == Spec => []PaintSparesHeap
<1>1. IInv => PaintSparesHeap
  <2> SUFFICES ASSUME IInv, canary > room, ~failed PROVE room < deepest + Increment
    BY Sizes DEF IInv, Typed, CanaryInv, PaintSparesHeap
  <2>1. canary <= deepest + Increment \/ room < deepest + Increment
    BY DEF IInv, SearchInv
  <2>2. canary \in Nat /\ room \in Nat /\ deepest \in Nat
    BY DEF IInv, Typed, CanaryInv
  <2> QED BY <2>1, <2>2, Sizes
<1> QED BY StackInvariant, <1>1, PTL

(* test_keys returns -1 as too deep, and main gives up, for a reason only. *)
THEOREM StackFailures == Spec => []FailsForAReason
<1>1. IInv => FailsForAReason
  BY DEF IInv
<1> QED BY StackInvariant, <1>1, PTL

-----------------------------------------------------------------------------
(* The search ends because every step lowers a pair of naturals in their   *)
(* lexicographic order: what the limit can still move, then the steps left *)
(* of the round.  A canary above the limit falls to it once.               *)
Moves == 2 * room + (IF canary <= Limit THEN Limit - canary ELSE 1)

Steps ==
  CASE phase = "fill"    -> 3 * (Calls + 1 - call) + 3
    [] phase = "call"    -> 3 * (Calls + 1 - call) + 2
    [] phase = "check"   -> 3 * (Calls + 1 - call) + 1
    [] phase = "compare" -> 2
    [] phase = "main"    -> 1
    [] OTHER             -> 0

Shorter == Moves' < Moves \/ (Moves' = Moves /\ Steps' < Steps)

SearchShrinks == [](Moves \in Nat /\ Steps \in Nat) /\ [][Shorter]_vars

(* The search is not over, and the heap leaves its room to every call.     *)
Searching == phase \notin {"ok", "gave up"}
Fits == \A o \in 1 .. Calls : Depth[o] + MaxGrowth <= Room

(* The guards of the steps of a round and of main.                         *)
CallOpen ==
  /\ phase = "call"
  /\ \E g \in 0 .. MaxGrowth : g <= room + MaxGrowth - Room /\ Depth[call] <= room - g

CheckOpen ==
  /\ phase = "check"
  /\ \E i \in 0 .. Exception, c \in 0 .. canary : StopsAt(c, painted \ (1 .. i))

StepOpen == phase \in {"fill", "compare", "main"} \/ CallOpen \/ CheckOpen

LEMMA MeasuresNat == IInv => Moves \in Nat /\ Steps \in Nat
<1> SUFFICES ASSUME IInv PROVE Moves \in Nat /\ Steps \in Nat
  OBVIOUS
<1>1. call \in Nat /\ call <= Calls + 1 /\ canary \in Nat /\ room \in Nat
  BY Ranges DEF IInv
<1>2. Moves \in Nat
  BY <1>1, Sizes DEF Moves, Limit
<1>3. 3 * (Calls + 1 - call) \in Nat
  BY <1>1, Sizes
<1>4. Steps \in Nat
  BY <1>3 DEF Steps
<1> QED BY <1>2, <1>4

(* Inside a round the limit stays, and the steps left are fewer.           *)
LEMMA RoundShrinks == IInv /\ (Fill \/ Check \/ Compare) => Shorter
<1> SUFFICES ASSUME IInv, Fill \/ Check \/ Compare PROVE Shorter
  OBVIOUS
<1>1. call \in Nat /\ call <= Calls + 1 /\ Calls \in Nat
  BY Ranges, Sizes DEF IInv
<1>2. phase = "check" => call <= Calls
  BY DEF IInv, CallInv
<1>3. room' = room /\ canary' = canary
  BY DEF Fill, Check, Compare, history
<1>4. Moves' = Moves
  BY <1>3 DEF Moves, Limit
<1>5. CASE Fill
  <2>1. phase = "fill" /\ phase' = "call" /\ call' = call
    BY <1>5 DEF Fill
  <2> QED BY <2>1, <1>1, <1>4 DEF Shorter, Steps
<1>6. CASE Check
  <2>1. /\ phase = "check"
        /\ \/ phase' = "main" /\ call' = call
           \/ call' = call + 1 /\ phase' = IF call < Calls THEN "fill" ELSE "compare"
    BY <1>6 DEF Check, Return
  <2>2. Steps = 3 * (Calls + 1 - call) + 1 /\ call <= Calls
    BY <2>1, <1>2 DEF Steps
  <2>3. CASE phase' = "main"
    BY <2>3, <2>2, <1>1, <1>4 DEF Shorter, Steps
  <2>4. CASE phase' = "compare"
    BY <2>4, <2>2, <1>1, <1>4 DEF Shorter, Steps
  <2>5. CASE phase' = "fill" /\ call' = call + 1
    <3>1. Steps' = 3 * (Calls + 1 - (call + 1)) + 3
      BY <2>5 DEF Steps
    <3> QED BY <3>1, <2>2, <1>1, <1>4 DEF Shorter
  <2> QED BY <2>1, <2>3, <2>4, <2>5
<1>7. CASE Compare
  BY <1>7, <1>4 DEF Compare, Return, Shorter, Steps
<1> QED BY <1>5, <1>6, <1>7

(* Heap growth costs two, and lowers the limit by one at most more.        *)
LEMMA CallShrinks == IInv /\ Call => Shorter
<1> SUFFICES ASSUME IInv, Call PROVE Shorter
  OBVIOUS
<1>1. /\ phase = "call" /\ phase' \in {"check", "main"} /\ call' = call /\ canary' = canary
  BY DEF Call, Return
<1>2. PICK g \in 0 .. MaxGrowth : room' = room - g
  BY Zenon DEF Call
<1>3. /\ call \in Nat /\ call <= Calls /\ Calls \in Nat /\ canary \in Nat /\ room \in Nat
      /\ Frame \in Nat /\ g \in Nat
  BY <1>1, Ranges, Sizes DEF IInv, CallInv
<1>4. CASE g = 0
  <2>1. room' = room
    BY <1>2, <1>3, <1>4
  <2>2. Moves' = Moves
    BY <2>1, <1>1 DEF Moves, Limit
  <2>3. Steps' < Steps
    BY <1>1, <1>3 DEF Steps
  <2> QED BY <2>2, <2>3 DEF Shorter
<1>5. CASE g # 0
  BY <1>5, <1>1, <1>2, <1>3 DEF Shorter, Moves, Limit
<1> QED BY <1>4, <1>5

LEMMA MainShrinks == IInv /\ Main => Shorter
<1> SUFFICES ASSUME IInv, Main PROVE Shorter
  OBVIOUS
<1>1. phase = "main" /\ room' = room
  BY DEF Main
<1>2. canary \in Nat /\ room \in Nat /\ Frame \in Nat /\ Increment \in Nat /\ Increment > 0
  BY Ranges, Sizes DEF IInv
<1>3. CASE canary = Limit
  <2>1. phase' = "gave up" /\ canary' = canary
    BY <1>3 DEF Main
  <2>2. Moves' = Moves
    BY <2>1, <1>1 DEF Moves, Limit
  <2>3. Steps = 1 /\ Steps' = 0
    BY <2>1, <1>1 DEF Steps
  <2> QED BY <2>2, <2>3 DEF Shorter
<1>4. CASE canary # Limit
  <2>1. canary' = IF canary + Increment >= Limit THEN Limit ELSE canary + Increment
    BY <1>4 DEF Main
  <2> QED BY <2>1, <1>1, <1>2, <1>4 DEF Shorter, Moves, Limit
<1> QED BY <1>3, <1>4

(* Whatever fails, however the heap grows and however often main moves its *)
(* limit, no step of stack.c returns the search to where it was: it takes  *)
(* finitely many.                                                          *)
THEOREM SearchEnds == Spec => SearchShrinks
<1>1. IInv => Moves \in Nat /\ Steps \in Nat
  BY MeasuresNat
<1>2. IInv /\ [Next]_vars => [Shorter]_vars
  BY RoundShrinks, CallShrinks, MainShrinks DEF Next
<1> QED BY StackInvariant, <1>1, <1>2, PTL DEF Spec, SearchShrinks

-----------------------------------------------------------------------------
(* A set of naturals has a least element.                                  *)
LEMMA Smallest ==
  ASSUME NEW T \in SUBSET Nat, T # {}
  PROVE  \E x \in T : \A y \in T : x <= y
<1> DEFINE R == OpToRel(<, Nat)
<1>1. IsWellFoundedOn(R, Nat)
  BY NatLessThanWellFounded
<1>2. \A x, y \in Nat : x < y => <<x, y>> \in R
  BY DEF OpToRel
<1> HIDE DEF R
<1>3. PICK x \in T : \A y \in T : ~(<<y, x>> \in R)
  BY <1>1, WFMin, Zenon
<1>4. ASSUME NEW y \in T PROVE x <= y
  <2>1. x \in Nat /\ y \in Nat /\ ~(<<y, x>> \in R)
    BY <1>3
  <2>2. ~(y < x)
    BY <1>2, <2>1, Zenon
  <2> QED BY <2>1, <2>2
<1> QED BY <1>3, <1>4

(* CHECK_STACK finds a place to stop on every paint.                       *)
LEMMA ScanStops ==
  ASSUME canary \in Nat, NEW paint
  PROVE  \E c \in 0 .. canary : StopsAt(c, paint)
<1> DEFINE T == {n \in 0 .. canary : \A d \in (n + 1) .. canary : d \in paint}
<1>1. canary \in T /\ T \in SUBSET Nat
  OBVIOUS
<1>2. PICK c \in T : \A y \in T : c <= y
  BY <1>1, Smallest
<1>3. c \in 0 .. canary /\ \A d \in (c + 1) .. canary : d \in paint
  BY <1>2
<1>4. ASSUME c # 0, c \in paint PROVE FALSE
  <2>1. c - 1 \in T
    BY <1>3, <1>4
  <2> QED BY <2>1, <1>2, <1>3
<1> QED BY <1>3, <1>4 DEF StopsAt

LEMMA SearchOpen ==
  ASSUME IInv, Fits, Searching
  PROVE  StepOpen
<1>1. phase \in {"fill", "call", "check", "compare", "main"} /\ canary \in Nat
  BY DEF IInv, Typed, CanaryInv, Searching
<1>2. CASE phase = "call"
  <2>1. call \in 1 .. Calls /\ room \in Nat /\ Room <= room + MaxGrowth
    BY <1>2, Ranges DEF IInv, CallInv
  <2>2. Depth[call] + MaxGrowth <= Room /\ Depth[call] \in Nat
    BY <2>1, Shape DEF Fits
  <2>3. 0 \in 0 .. MaxGrowth /\ 0 <= room + MaxGrowth - Room /\ Depth[call] <= room - 0
    BY <2>1, <2>2, Sizes
  <2> QED BY <2>3, <1>2 DEF StepOpen, CallOpen
<1>3. CASE phase = "check"
  <2>1. 0 \in 0 .. Exception
    BY Sizes
  <2>2. \E c \in 0 .. canary : StopsAt(c, painted \ (1 .. 0))
    BY <1>1, ScanStops
  <2> QED BY <2>1, <2>2, <1>3 DEF StepOpen, CheckOpen
<1> QED BY <1>1, <1>2, <1>3 DEF StepOpen

(* Until it is over, stack.c has a next step: the scan always finds where  *)
(* to stop, and a call that the heap leaves room for is made.              *)
THEOREM SearchGoesOn == Spec => [](Fits /\ Searching => StepOpen)
<1>1. IInv => (Fits /\ Searching => StepOpen)
  BY SearchOpen
<1> QED BY StackInvariant, <1>1, PTL
=============================================================================
