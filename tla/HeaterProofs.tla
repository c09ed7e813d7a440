----------------------------- MODULE HeaterProofs -----------------------------
(***************************************************************************)
(* Proofs about a heater: its supervision, for all temperatures, limits    *)
(* and times of the configuration, and its output, for all timings that    *)
(* satisfy TimingAssumption and all outputs and targets.                   *)
(***************************************************************************)
EXTENDS MCHeater, TLAPS

-----------------------------------------------------------------------------
(* The supervision                                                          *)

\* In an approach the checks without progress use up the grace; outside of one, and
\* without a fault, they are at most as many as the longer limit.  The error is at
\* least the number of those checks, except where a standing fault clamps it.
CheckInv ==
    /\ approaching_target => goal_left >= 1 /\ stuck + goal_left <= GainTime
    /\ approaching_target \/ ~check_fault => error >= stuck
    /\ ~approaching_target /\ ~check_fault => stuck <= Longest

IInv == TypeOK /\ CheckInv /\ BlockedIsVisible

\* The longest time is not shorter than either of the two it is taken from.
LEMMA LongestBounds ==
    Longest \in Nat \ {0} /\ GainTime <= Longest /\ MaxError <= Longest
BY CheckAssumption DEF Longest

\* The temperature a check sees is one of the readings or 0, and a heater that is not
\* in range falls short by at least one unit.
LEMMA TempBounds ==
    ASSUME TypeOK
    PROVE  Temp \in 0..MaxTemp /\ Shortfall \in Int /\ (~InRange => Shortfall >= 1)
BY CheckAssumption DEF TypeOK, Temp, Shortfall, InRange

\* The count of failed checks stops at its bound.
LEMMA OneMoreBounds ==
    ASSUME NEW n \in 0..(Longest + 1)
    PROVE  OneMore(n) \in 0..(Longest + 1) /\ OneMore(n) <= n + 1
BY LongestBounds DEF OneMore

\* The invariant holds at the start.
LEMMA InitInv == Init => IInv
<1> SUFFICES ASSUME Init PROVE IInv
  OBVIOUS
<1>1. /\ 0 \in 0..MaxTemp /\ 0 \in 0..(MaxTemp + Gain) /\ 0 \in Int /\ 0 <= GainTime
      /\ 0 \in Nat /\ 0 \in 0..MaxCommands /\ 0 \in 0..(Longest + 1)
  BY LongestBounds, CheckAssumption
<1>2. TypeOK
  BY <1>1, CheckAssumption, Zenon DEF Init, TypeOK
<1>3. CheckInv
  BY LongestBounds DEF Init, CheckInv
<1>4. BlockedIsVisible
  BY DEF Init, BlockedIsVisible
<1> QED BY <1>2, <1>3, <1>4 DEF IInv

\* The parts of the invariant that a check can change.
CheckTypes ==
    /\ approaching_target \in BOOLEAN /\ starting_approach \in BOOLEAN
    /\ goal_temp \in 0..(MaxTemp + Gain)
    /\ goal_left \in Int /\ goal_left <= GainTime /\ error \in Nat
    /\ check_fault \in BOOLEAN /\ heater_fault \in BOOLEAN
    /\ checker \in {"timer", "pause"} /\ stuck \in 0..(Longest + 1)

CheckParts == CheckTypes /\ CheckInv

\* Every branch of check_event() keeps them; a fault that runs PAUSE is visible.
LEMMA BranchInv ==
    ASSUME IInv, checker = "timer", NEW dt \in 1..2,
           Reset \/ Approach \/ Hold \/ GoalReached \/ GoalMissed(dt)
    PROVE  CheckParts' /\ (checker' = "pause" => heater_fault')
<1> USE TempBounds, LongestBounds, CheckAssumption
<1>t. TypeOK /\ CheckInv
  BY DEF IInv
<1>m. OneMore(stuck) \in 0..(Longest + 1) /\ OneMore(stuck) <= stuck + 1
  BY <1>t, OneMoreBounds DEF TypeOK
<1>1. CASE Reset
  <2>1. /\ approaching_target' = FALSE /\ starting_approach' = FALSE /\ check_fault' = FALSE
        /\ heater_fault' = IF check_fault THEN FALSE ELSE heater_fault
        /\ error' = IF Temp <= target + Hysteresis THEN 0 ELSE error
        /\ stuck' = 0 /\ goal_temp' = goal_temp /\ goal_left' = goal_left
        /\ checker' = checker
    BY <1>1 DEF Reset, ClearFault
  <2>2. heater_fault' \in BOOLEAN /\ error' \in Nat
    BY <1>t, <2>1 DEF TypeOK
  <2>3. 0 \in 0..(Longest + 1)
    OBVIOUS
  <2>4. CheckTypes'
    BY <1>t, <2>1, <2>2, <2>3, Zenon DEF TypeOK, CheckTypes, Longest
  <2>5. CheckInv'
    BY <1>t, <2>1, <2>2 DEF TypeOK, CheckInv, Longest
  <2> QED BY <2>1, <2>4, <2>5 DEF CheckParts
<1>2. CASE Approach
  <2>1. /\ ~InRange
        /\ approaching_target' = TRUE /\ starting_approach' = TRUE
        /\ goal_temp' = Temp + Gain /\ goal_left' = GainTime
        /\ error' = error + Shortfall /\ stuck' = 0
        /\ check_fault' = check_fault /\ heater_fault' = heater_fault /\ checker' = checker
    BY <1>2 DEF Approach, KeepFault
  <2>2. goal_temp' \in 0..(MaxTemp + Gain) /\ error' \in Nat
    BY <1>t, <2>1 DEF TypeOK
  <2> QED BY <1>t, <2>1, <2>2 DEF TypeOK, CheckParts, CheckTypes, CheckInv, Longest
<1>3. CASE Hold
  <2>1. /\ ~InRange /\ ~approaching_target
        /\ stuck' = OneMore(stuck) /\ approaching_target' = approaching_target
        /\ starting_approach' = starting_approach
        /\ goal_temp' = goal_temp /\ goal_left' = goal_left
    BY <1>3 DEF Hold
  <2>2. CASE error + Shortfall >= MaxError /\ check_fault
    <3>1. error' = MaxError /\ check_fault' = check_fault /\ heater_fault' = heater_fault
          /\ checker' = checker
      BY <1>3, <2>2 DEF Hold, KeepFault
    <3> QED BY <1>t, <1>m, <2>1, <2>2, <3>1 DEF TypeOK, CheckParts, CheckTypes, CheckInv, Longest
  <2>3. CASE error + Shortfall >= MaxError /\ ~check_fault
    <3>1. /\ error' = error + Shortfall /\ check_fault' = TRUE /\ heater_fault' = ~is_shutdown
          /\ checker' = IF printing /\ ~is_shutdown THEN "pause" ELSE checker
      BY <1>3, <2>3 DEF Hold, RaiseFault
    <3>2. error' \in Nat
      BY <1>t, <2>1, <3>1 DEF TypeOK
    <3>3. checker' \in {"timer", "pause"} /\ (checker' = "pause" => heater_fault')
      BY <3>1
    <3> QED BY <1>t, <1>m, <2>1, <3>1, <3>2, <3>3 DEF TypeOK, CheckParts, CheckTypes, CheckInv, Longest
  <2>4. CASE ~(error + Shortfall >= MaxError)
    <3>1. /\ error' = error + Shortfall /\ check_fault' = check_fault
          /\ heater_fault' = heater_fault /\ checker' = checker
      BY <1>3, <2>4 DEF Hold, KeepFault
    <3>2. error' \in Nat /\ error' < MaxError /\ error' >= error + 1
      BY <1>t, <2>1, <2>4, <3>1 DEF TypeOK
    <3> QED BY <1>t, <1>m, <2>1, <3>1, <3>2 DEF TypeOK, CheckParts, CheckTypes, CheckInv, Longest
  <2> QED BY <2>2, <2>3, <2>4
<1>4. CASE GoalReached
  <2>1. /\ approaching_target /\ starting_approach' = FALSE /\ error' = 0
        /\ goal_temp' = Temp + Gain /\ goal_left' = GainTime /\ stuck' = 0
        /\ check_fault' = check_fault /\ heater_fault' = heater_fault
        /\ approaching_target' = approaching_target /\ checker' = checker
    BY <1>4 DEF GoalReached, KeepFault
  <2>2. goal_temp' \in 0..(MaxTemp + Gain)
    BY <1>t, <2>1 DEF TypeOK
  <2>3. 0 \in 0..(Longest + 1) /\ GainTime \in Int /\ GainTime <= GainTime /\ 0 \in Nat
    OBVIOUS
  <2>4. CheckTypes'
    BY <1>t, <2>1, <2>2, <2>3, Zenon DEF TypeOK, CheckTypes, Longest
  <2>5. CheckInv'
    BY <1>t, <2>1, <2>2 DEF TypeOK, CheckInv, Longest
  <2> QED BY <2>1, <2>4, <2>5 DEF CheckParts
<1>5. CASE GoalMissed(dt)
  <2>1. /\ ~InRange /\ approaching_target
        /\ error' = error + Shortfall /\ stuck' = OneMore(stuck)
        /\ goal_left' = goal_left - dt
        /\ starting_approach' = starting_approach /\ checker' = checker
    BY <1>5 DEF GoalMissed
  <2>2. error' \in Nat /\ error' >= error + 1 /\ goal_left' \in Int /\ goal_left' <= GainTime
    BY <1>t, <2>1 DEF TypeOK
  <2>3. CASE goal_left - dt <= 0
    <3>1. /\ approaching_target' = FALSE /\ goal_temp' = goal_temp /\ check_fault' = FALSE
          /\ heater_fault' = IF check_fault THEN FALSE ELSE heater_fault
      BY <1>5, <2>3 DEF GoalMissed, ClearFault
    <3>2. heater_fault' \in BOOLEAN
      BY <1>t, <3>1 DEF TypeOK
    <3>3. stuck' <= GainTime
      BY <1>t, <1>m, <2>1 DEF TypeOK, CheckInv
    <3>4. CheckTypes'
      BY <1>t, <1>m, <2>1, <2>2, <3>1, <3>2, Zenon DEF TypeOK, CheckTypes, Longest
    <3>5. CheckInv'
      BY <1>t, <1>m, <2>1, <2>2, <3>1, <3>3 DEF TypeOK, CheckInv, Longest
    <3> QED BY <2>1, <3>4, <3>5 DEF CheckParts
  <2>4. CASE ~(goal_left - dt <= 0)
    <3>1. /\ approaching_target' = approaching_target
          /\ goal_temp' = IF starting_approach /\ Temp + Gain < goal_temp
                            THEN Temp + Gain ELSE goal_temp
          /\ check_fault' = check_fault /\ heater_fault' = heater_fault
      BY <1>5, <2>4 DEF GoalMissed, KeepFault
    <3>2. goal_temp' \in 0..(MaxTemp + Gain)
      BY <1>t, <3>1 DEF TypeOK
    <3> QED BY <1>t, <1>m, <2>1, <2>2, <2>4, <3>1, <3>2 DEF TypeOK, CheckParts, CheckTypes, CheckInv, Longest
  <2> QED BY <2>3, <2>4
<1> QED BY <1>1, <1>2, <1>3, <1>4, <1>5

\* A check of verify_heater keeps the invariant.
LEMMA CheckKeepsInv ==
    ASSUME IInv, NEW dt \in 1..2, check_event(dt)
    PROVE  IInv'
<1>1. CheckParts' /\ (checker' = "pause" => heater_fault')
  <2>1. checker = "timer" /\ (Reset \/ Approach \/ Hold \/ GoalReached \/ GoalMissed(dt))
    BY DEF check_event
  <2> QED BY <2>1, BranchInv
<1>2. last_target' = target /\ UNCHANGED <<heatVars, waitVars, printing, is_shutdown>>
  BY DEF check_event
<1>3. TypeOK'
  BY <1>1, <1>2 DEF IInv, TypeOK, CheckParts, CheckTypes, heatVars, waitVars, Longest
<1> QED BY <1>1, <1>3 DEF IInv, CheckParts, BlockedIsVisible

\* Every step of the supervision keeps the invariant.
LEMMA NextInv == IInv /\ [Next]_vars => IInv'
<1> SUFFICES ASSUME IInv, [Next]_vars PROVE IInv'
  OBVIOUS
<1> USE DEF IInv, TypeOK, CheckInv, BlockedIsVisible, heatVars, checkVars, waitVars, Longest
<1>1. CASE Reading
  BY <1>1 DEF Reading
<1>2. CASE ReadingsStop
  BY <1>2 DEF ReadingsStop
<1>3. ASSUME NEW t \in Targets, NEW wait \in BOOLEAN, set_temperature(t, wait)
      PROVE  IInv'
  <2>1. waiting' \in BOOLEAN
    BY <1>3, Zenon DEF set_temperature
  <2> QED BY <1>3, <2>1, CheckAssumption DEF set_temperature
<1>4. CASE wait_for_temperature
  <2>1. waiting' \in BOOLEAN
    BY <1>4, Zenon DEF wait_for_temperature, WaitGoesOn
  <2> QED BY <1>4, <2>1 DEF wait_for_temperature
<1>5. CASE StartPrint
  BY <1>5, CheckAssumption DEF StartPrint
<1>6. CASE CancelRequest
  BY <1>6, CheckAssumption DEF CancelRequest
<1>7. CASE CancelPrint
  BY <1>7 DEF CancelPrint
<1>8. CASE invoke_shutdown
  BY <1>8 DEF invoke_shutdown
<1>9. CASE Check
  BY <1>9, CheckKeepsInv DEF Check
<1>10. CASE PauseOfFault
  BY <1>10 DEF PauseOfFault
<1>11. CASE UNCHANGED vars
  BY <1>11 DEF vars
<1> QED BY <1>1, <1>2, <1>3, <1>4, <1>5, <1>6, <1>7, <1>8, <1>9, <1>10, <1>11 DEF Next

-----------------------------------------------------------------------------
(* The output                                                               *)

\* While readings are handled, the output that is on is younger than Renewal; one
\* that was found unwanted for some time is at least as old as that.
AgeInv ==
    /\ out_value = 0 => out_age = 0
    /\ out_value # 0 /\ out_reader = "run" => out_age < Out!Renewal
    /\ out_value # 0 => out_unwanted <= out_age
    /\ out_unwanted # 0 => out_value < Step

OutInv == Out!TypeOK /\ AgeInv

\* Renewal is a positive number and leaves room for one more gap.
LEMMA RenewalBounds ==
    /\ Out!Renewal \in Nat \ {0} /\ Out!MAX_HEAT_TIME \in Nat
    /\ Out!Renewal + MaxGap <= Out!MAX_HEAT_TIME
BY HeaterAssumption, TimingAssumption DEF Out!Renewal, Out!MAX_HEAT_TIME

\* The invariant of the output holds at the start.
LEMMA OutInitInv == Out!Init => OutInv
<1> SUFFICES ASSUME Out!Init PROVE OutInv
  OBVIOUS
<1>1. 0 \in 0..MaxPower /\ 0 \in 0..(Out!Renewal + MaxGap) /\ 0 \in 0..Out!Renewal /\ 0 <= 0
  BY RenewalBounds, HeaterAssumption
<1>2. Out!TypeOK
  BY <1>1, HeaterAssumption, Zenon DEF Out!Init, Out!TypeOK
<1>3. AgeInv
  BY RenewalBounds, HeaterAssumption DEF Out!Init, AgeInv
<1> QED BY <1>2, <1>3 DEF OutInv

\* temperature_callback() keeps the invariant and brings the age below Renewal.
LEMMA CallbackInv ==
    ASSUME OutInv, NEW dt \in 0..MaxGap, NEW fault \in BOOLEAN,
           out_age + dt <= Out!Renewal + MaxGap,
           Out!temperature_callback(dt, fault)
    PROVE  /\ out_target' \in Targets /\ out_value' \in 0..MaxPower
           /\ out_age' \in 0..(Out!Renewal + MaxGap) /\ out_unwanted' \in 0..Out!Renewal
           /\ out_value' = 0 => out_age' = 0
           /\ out_value' # 0 => out_age' < Out!Renewal
           /\ out_value' # 0 => out_unwanted' <= out_age'
           /\ out_unwanted' # 0 => out_value' < Step
<1> DEFINE off(t) == fault \/ t = 0 \/ out_shutdown
<1>1. PICK value \in 0..MaxPower, t \in Targets :
        /\ out_target' = t
        /\ Out!set_pwm(out_age + dt, Out!Allowed(fault, t, value))
        /\ out_unwanted' = IF off(t) THEN Out!AtMost(out_unwanted + dt, Out!Renewal) ELSE 0
  BY DEF Out!temperature_callback
<1>2. PICK v \in 0..MaxPower : v = Out!Allowed(fault, t, value) /\ (off(t) => v = 0)
  BY HeaterAssumption DEF Out!Allowed
<1>3. Out!set_pwm(out_age + dt, v)
  BY <1>1, <1>2
<1>4. out_unwanted' \in 0..Out!Renewal /\ out_unwanted' <= out_unwanted + dt /\ (out_unwanted' # 0 => off(t))
  BY <1>1, RenewalBounds, HeaterAssumption DEF OutInv, Out!TypeOK, Out!AtMost
<1> HIDE DEF off
<1> USE RenewalBounds, HeaterAssumption DEF OutInv, Out!TypeOK, AgeInv
<1>5. CASE (out_age + dt < Out!Renewal \/ out_value = 0) /\ Out!Distance(v, out_value) < Step
  <2>1. out_value' = out_value /\ out_age' = IF out_value = 0 THEN 0 ELSE out_age + dt
    BY <1>3, <1>5 DEF Out!set_pwm
  <2>2. off(t) => out_value < Step
    BY <1>2, <1>5 DEF Out!Distance
  <2> QED BY <1>1, <1>4, <1>5, <2>1, <2>2
<1>6. CASE ~((out_age + dt < Out!Renewal \/ out_value = 0) /\ Out!Distance(v, out_value) < Step)
  <2>1. out_value' = v /\ out_age' = 0
    BY <1>3, <1>6 DEF Out!set_pwm
  <2>2. v # 0 => out_unwanted' = 0
    BY <1>2, <1>4
  <2>3. out_unwanted' # 0 => v < Step
    BY <1>2, <1>4
  <2> QED BY <1>1, <1>4, <2>1, <2>2, <2>3
<1> QED BY <1>5, <1>6

\* Every step of the output keeps its invariant.
LEMMA OutNextInv == OutInv /\ [Out!Next]_(Out!vars) => OutInv'
<1> SUFFICES ASSUME OutInv, [Out!Next]_(Out!vars) PROVE OutInv'
  OBVIOUS
<1>1. ASSUME NEW dt \in 1..MaxGap, NEW bad \in BOOLEAN, Out!Reading(dt, bad)
      PROVE  OutInv'
  <2> DEFINE fault == bad /\ (out_fault \/ ~out_shutdown)
  <2>1. fault \in BOOLEAN /\ dt \in 0..MaxGap
    BY HeaterAssumption DEF OutInv, Out!TypeOK
  <2>2. /\ Out!temperature_callback(dt, fault) /\ out_fault' = fault
        /\ UNCHANGED <<out_control, out_shutdown, out_reader>> /\ out_reader = "run"
    BY <1>1 DEF Out!Reading
  <2>3. out_age + dt <= Out!Renewal + MaxGap
    BY <2>1, <2>2, RenewalBounds, HeaterAssumption DEF OutInv, Out!TypeOK, AgeInv
  <2> HIDE DEF fault
  <2> QED BY <2>1, <2>2, <2>3, CallbackInv DEF OutInv, Out!TypeOK, AgeInv
<1>2. ASSUME NEW dt \in 1..MaxGap, Out!FaultInPrint(dt)
      PROVE  OutInv'
  BY <1>2, RenewalBounds, HeaterAssumption DEF Out!FaultInPrint, OutInv, Out!TypeOK, AgeInv
<1>3. CASE Out!ReaderReturns
  <2>1. TRUE \in BOOLEAN /\ 0 \in 0..MaxGap /\ out_age + 0 <= Out!Renewal + MaxGap
    BY RenewalBounds, HeaterAssumption DEF OutInv, Out!TypeOK
  <2>2. /\ Out!temperature_callback(0, TRUE) /\ out_reader' = "run"
        /\ UNCHANGED <<out_control, out_fault, out_shutdown>>
    BY <1>3 DEF Out!ReaderReturns
  <2> QED BY <2>1, <2>2, CallbackInv DEF OutInv, Out!TypeOK, AgeInv
<1>4. CASE Out!Lapse
  BY <1>4 DEF Out!Lapse, OutInv, Out!TypeOK, AgeInv, Out!Renewal
<1>5. CASE Out!handle_shutdown
  BY <1>5 DEF Out!handle_shutdown, OutInv, Out!TypeOK, AgeInv, Out!Renewal
<1>6. ASSUME NEW degrees \in Targets, Out!set_temp(degrees)
      PROVE  OutInv'
  BY <1>6 DEF Out!set_temp, OutInv, Out!TypeOK, AgeInv, Out!Renewal
<1>7. ASSUME NEW c \in {"pid", "autotune"}, Out!set_control(c)
      PROVE  OutInv'
  BY <1>7, HeaterAssumption DEF Out!set_control, OutInv, Out!TypeOK, AgeInv, Out!Renewal
<1>8. CASE UNCHANGED Out!vars
  BY <1>8 DEF Out!vars, OutInv, Out!TypeOK, AgeInv, Out!Renewal
<1> QED BY <1>1, <1>2, <1>3, <1>4, <1>5, <1>6, <1>7, <1>8 DEF Out!Next

-----------------------------------------------------------------------------
(* Both                                                                     *)

\* A step of the heater is one of its supervision, and one of its output, or
\* changes nothing of it.
LEMMA Steps ==
    ASSUME [HeaterNext]_<<vars, outVars, part>>
    PROVE  [Next]_vars /\ [Out!Next]_(Out!vars)
<1>1. UNCHANGED outVars => UNCHANGED Out!vars
  BY DEF outVars, Out!vars
<1> QED  BY <1>1 DEF HeaterNext

\* The supervision keeps its invariant, and so does the output.
LEMMA HeaterInv == HeaterSpec => [](IInv /\ OutInv)
<1>1. HeaterInit => IInv /\ OutInv
  BY InitInv, OutInitInv DEF HeaterInit
<1>2. IInv /\ OutInv /\ [HeaterNext]_<<vars, outVars, part>> => (IInv /\ OutInv)'
  BY Steps, NextInv, OutNextInv
<1> QED  BY <1>1, <1>2, PTL DEF HeaterSpec

\* The values of the variables are in their sets in every reachable state.
THEOREM TypeCorrect == HeaterSpec => [](TypeOK /\ Out!TypeOK)
<1>1. IInv /\ OutInv => TypeOK /\ Out!TypeOK
  BY DEF IInv, OutInv
<1> QED  BY <1>1, HeaterInv, PTL

\* Whatever the limits of the configuration, check_event() reports a heater after at
\* most the longer of them in checks without progress.
THEOREM AlwaysFaultInTime == HeaterSpec => []FaultInTime
<1>1. IInv => FaultInTime
  BY LongestBounds, CheckAssumption DEF IInv, TypeOK, CheckInv, FaultInTime
<1> QED  BY <1>1, HeaterInv, PTL

\* A check that is held up in PAUSE has marked the heater, so that the wait that holds
\* the mutex sees it.
THEOREM AlwaysBlockedIsVisible == HeaterSpec => []BlockedIsVisible
<1>1. IInv => BlockedIsVisible
  BY DEF IInv
<1> QED  BY <1>1, HeaterInv, PTL

\* Whatever the timings that satisfy TimingAssumption, the next reading comes in time
\* for set_pwm() to renew an output that is on.
THEOREM AlwaysRenewedInTime == HeaterSpec => []RenewedInTime
<1>1. OutInv => RenewedInTime
  BY RenewalBounds, HeaterAssumption DEF OutInv, Out!TypeOK, AgeInv, RenewedInTime, Out!RenewedInTime
<1> QED  BY <1>1, HeaterInv, PTL

\* set_pwm() does not leave an unwanted output on, whatever the size of a step.
THEOREM AlwaysOffInTime == HeaterSpec => []OffInTime
<1>1. OutInv => OffInTime
  BY RenewalBounds, HeaterAssumption DEF OutInv, Out!TypeOK, AgeInv, OffInTime, Out!OffInTime
<1> QED  BY <1>1, HeaterInv, PTL
=============================================================================
