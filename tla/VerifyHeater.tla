----------------------------- MODULE VerifyHeater -----------------------------
(***************************************************************************)
(* The supervision of a heater (src/elegoo/extras/verify_heater.cpp,       *)
(* HeaterCheck) and what depends on it: the wait of M109 and M190          *)
(* (PrinterHeaters::wait_for_temperature()), which holds the mutex of the  *)
(* g-code dispatch, and the PAUSE that a fault runs through that mutex on  *)
(* the greenlet of the check's timer.                                      *)
(*                                                                         *)
(* Temperatures are natural numbers; a shortfall is at least one unit.     *)
(* The temperature may change in any way between two readings.  Time is    *)
(* counted from check to check: the next one follows after one or two      *)
(* units (two after a fault, or when the reactor was busy).                *)
(***************************************************************************)
EXTENDS HeaterParameters

VARIABLES
    target, smoothed_temp,
    fresh,              \* the last reading is not older than 5 seconds
    \* HeaterCheck
    approaching_target, starting_approach, last_target, goal_temp,
    goal_left,          \* goal_systime less the time of the last check
    error,
    check_fault,        \* is_verify_heater_fault of HeaterCheck
    checker,            \* the timer's greenlet: "timer", or "pause" in run_script
    \* Heater and PrinterHeaters
    heater_fault,       \* is_verify_heater_fault of Heater
    print_stop,
    waiting,            \* a command is in wait_for_temperature()
    \* their surroundings
    canceller,          \* the client's CANCEL_PRINT: "none", or "lock" for the mutex
    printing, is_shutdown,
    commands,           \* commands so far
    stuck               \* history: checks since the last progress

heatVars == <<target, smoothed_temp, fresh>>
checkVars == <<approaching_target, starting_approach, last_target, goal_temp,
               goal_left, error, check_fault, stuck>>
waitVars == <<print_stop, waiting, canceller, commands>>
vars == <<heatVars, checkVars, checker, heater_fault, waitVars, printing, is_shutdown>>

Init ==
    /\ target = 0 /\ smoothed_temp = 0 /\ fresh = FALSE
    /\ approaching_target = FALSE /\ starting_approach = FALSE
    /\ last_target = 0 /\ goal_temp = 0 /\ goal_left = 0 /\ error = 0
    /\ check_fault = FALSE /\ checker = "timer"
    /\ heater_fault = FALSE /\ print_stop = FALSE /\ waiting = FALSE
    /\ canceller = "none" /\ printing = FALSE /\ is_shutdown = FALSE
    /\ commands = 0 /\ stuck = 0

\* get_temp(): a reading that is too old counts as 0.
Temp == IF fresh THEN smoothed_temp ELSE 0

InRange == Temp >= target - Hysteresis \/ target = 0

\* The mutex of the g-code dispatch.
Free == ~waiting

-----------------------------------------------------------------------------

\* temperature_callback(), as far as the supervision sees it.
Reading ==
    /\ smoothed_temp' \in 0..MaxTemp
    /\ fresh' = TRUE
    /\ UNCHANGED <<target, checkVars, checker, heater_fault, waitVars, printing, is_shutdown>>

\* No reading for 5 seconds.
ReadingsStop ==
    /\ fresh' = FALSE
    /\ UNCHANGED <<target, smoothed_temp, checkVars, checker, heater_fault, waitVars,
                   printing, is_shutdown>>

\* set_temperature(): M104 and M140 without, M109 and M190 with a wait.
set_temperature(t, wait) ==
    /\ Free /\ commands < MaxCommands
    /\ commands' = commands + 1
    /\ target' = t
    /\ waiting' = (wait /\ t # 0)
    /\ UNCHANGED <<smoothed_temp, fresh, checkVars, checker, heater_fault, print_stop,
                   canceller, printing, is_shutdown>>

\* check_busy() of ControlPID: within SettleDelta the slope decides.
Busy(b) == (smoothed_temp > target + SettleDelta \/ smoothed_temp < target - SettleDelta) => b

\* Mutants: the wait does not look at the fault; it does not look at print_stop.
WaitGoesOn_fault(busy) == ~is_shutdown /\ busy /\ ~print_stop
WaitGoesOn_stop(busy) == ~is_shutdown /\ busy /\ ~heater_fault

\* Whether wait_for_temperature() goes on for another second.
WaitGoesOn(busy) == ~is_shutdown /\ busy /\ ~print_stop /\ ~heater_fault

\* One round of wait_for_temperature().
wait_for_temperature ==
    /\ waiting
    /\ \E busy \in BOOLEAN : Busy(busy) /\ waiting' = WaitGoesOn(busy)
    /\ UNCHANGED <<heatVars, checkVars, checker, heater_fault, print_stop, canceller,
                   commands, printing, is_shutdown>>

StartPrint ==
    /\ Free /\ ~printing /\ commands < MaxCommands
    /\ printing' = TRUE /\ commands' = commands + 1
    /\ UNCHANGED <<heatVars, checkVars, checker, heater_fault, print_stop, waiting,
                   canceller, is_shutdown>>

\* run_script("CANCEL_PRINT"): the request is announced before the mutex is taken.
CancelRequest ==
    /\ canceller = "none" /\ commands < MaxCommands
    /\ canceller' = "lock" /\ commands' = commands + 1
    /\ print_stop' = TRUE
    /\ UNCHANGED <<heatVars, checkVars, checker, heater_fault, waiting, printing, is_shutdown>>

\* cmd_CANCEL_PRINT() ends the print and announces CANCEL_PRINT_DONE.
CancelPrint ==
    /\ canceller = "lock" /\ Free
    /\ canceller' = "none" /\ print_stop' = FALSE /\ printing' = FALSE
    /\ UNCHANGED <<heatVars, checkVars, checker, heater_fault, waiting, commands, is_shutdown>>

invoke_shutdown ==
    /\ ~is_shutdown
    /\ is_shutdown' = TRUE
    /\ UNCHANGED <<heatVars, checkVars, checker, heater_fault, waitVars, printing>>

-----------------------------------------------------------------------------

\* The signals "verify_heater:normal" and "verify_heater:fault", and their handlers.
ClearFault ==
    /\ check_fault' = FALSE
    /\ heater_fault' = IF check_fault THEN FALSE ELSE heater_fault

KeepFault == UNCHANGED <<check_fault, heater_fault>>

\* heater_fault(): during a print its handler goes on to run PAUSE.
RaiseFault ==
    /\ check_fault' = TRUE
    /\ heater_fault' = ~is_shutdown
    /\ checker' = IF printing /\ ~is_shutdown THEN "pause" ELSE checker

\* The temperature is near the target: the checks start anew.
Reset ==
    /\ InRange
    /\ approaching_target' = FALSE /\ starting_approach' = FALSE
    /\ ClearFault
    /\ error' = IF Temp <= target + Hysteresis THEN 0 ELSE error
    /\ stuck' = 0
    /\ UNCHANGED <<goal_temp, goal_left, checker>>

Shortfall == (target - Hysteresis) - Temp

Longest == IF GainTime >= MaxError THEN GainTime ELSE MaxError

\* The history counts no further than the property looks.
OneMore(n) == IF n <= Longest THEN n + 1 ELSE n

\* The target has changed: the heater gets GainTime to gain Gain.
Approach ==
    /\ ~InRange /\ ~approaching_target /\ target # last_target
    /\ approaching_target' = TRUE /\ starting_approach' = TRUE
    /\ goal_temp' = Temp + Gain /\ goal_left' = GainTime
    /\ error' = error + Shortfall
    /\ stuck' = 0
    /\ KeepFault /\ UNCHANGED checker

\* The target is not held: the error grows up to a fault.
Hold ==
    /\ ~InRange /\ ~approaching_target /\ target = last_target
    /\ stuck' = OneMore(stuck)
    /\ IF error + Shortfall >= MaxError
         THEN IF check_fault
                THEN error' = MaxError /\ KeepFault /\ UNCHANGED checker
                ELSE error' = error + Shortfall /\ RaiseFault
         ELSE error' = error + Shortfall /\ KeepFault /\ UNCHANGED checker
    /\ UNCHANGED <<approaching_target, starting_approach, goal_temp, goal_left>>

\* The heater has gained enough: a new goal.
GoalReached ==
    /\ ~InRange /\ approaching_target /\ Temp >= goal_temp
    /\ starting_approach' = FALSE /\ error' = 0
    /\ goal_temp' = Temp + Gain /\ goal_left' = GainTime
    /\ stuck' = 0
    /\ KeepFault /\ UNCHANGED <<approaching_target, checker>>

\* Mutant: the grace is renewed when it ends.
GoalMissed_renewed(dt) ==
    /\ ~InRange /\ approaching_target /\ Temp < goal_temp
    /\ error' = error + Shortfall
    /\ stuck' = OneMore(stuck)
    /\ goal_left' = IF goal_left - dt <= 0 THEN GainTime ELSE goal_left - dt
    /\ KeepFault /\ UNCHANGED <<approaching_target, goal_temp, starting_approach, checker>>

\* It has not, dt after the last check: the grace ends at goal_systime; before its
\* first goal, the heater may start from the lowest temperature met.
GoalMissed(dt) ==
    /\ ~InRange /\ approaching_target /\ Temp < goal_temp
    /\ error' = error + Shortfall
    /\ stuck' = OneMore(stuck)
    /\ goal_left' = goal_left - dt
    /\ IF goal_left - dt <= 0
         THEN approaching_target' = FALSE /\ ClearFault /\ UNCHANGED goal_temp
         ELSE /\ goal_temp' = IF starting_approach /\ Temp + Gain < goal_temp
                                THEN Temp + Gain ELSE goal_temp
              /\ KeepFault /\ UNCHANGED approaching_target
    /\ UNCHANGED <<starting_approach, checker>>

\* check_event(), dt after the last one.
check_event(dt) ==
    /\ checker = "timer"
    /\ Reset \/ Approach \/ Hold \/ GoalReached \/ GoalMissed(dt)
    /\ last_target' = target
    /\ UNCHANGED <<heatVars, waitVars, printing, is_shutdown>>

\* PAUSE of a fault, once the check's greenlet has the mutex.
PauseOfFault ==
    /\ checker = "pause" /\ Free
    /\ checker' = "timer" /\ printing' = FALSE
    /\ UNCHANGED <<heatVars, checkVars, heater_fault, waitVars, is_shutdown>>

Check == \E dt \in 1..2 : check_event(dt)

Next ==
    \/ Reading \/ ReadingsStop
    \/ \E t \in Targets, wait \in BOOLEAN : set_temperature(t, wait)
    \/ wait_for_temperature \/ StartPrint \/ CancelRequest \/ CancelPrint
    \/ invoke_shutdown \/ Check \/ PauseOfFault

Spec == Init /\ [][Next]_vars

\* The reactor runs every timer and greenlet that is due, and the mutex goes to the
\* longest waiting one.
Fairness ==
    /\ WF_vars(wait_for_temperature) /\ WF_vars(Check)
    /\ WF_vars(PauseOfFault) /\ WF_vars(CancelPrint)

FairSpec == Spec /\ Fairness

-----------------------------------------------------------------------------

TypeOK ==
    /\ target \in Targets /\ smoothed_temp \in 0..MaxTemp /\ fresh \in BOOLEAN
    /\ approaching_target \in BOOLEAN /\ starting_approach \in BOOLEAN
    /\ last_target \in Targets /\ goal_temp \in 0..(MaxTemp + Gain)
    /\ goal_left \in Int /\ goal_left <= GainTime /\ error \in Nat
    /\ check_fault \in BOOLEAN /\ heater_fault \in BOOLEAN
    /\ checker \in {"timer", "pause"}
    /\ print_stop \in BOOLEAN /\ waiting \in BOOLEAN /\ canceller \in {"none", "lock"}
    /\ printing \in BOOLEAN /\ is_shutdown \in BOOLEAN
    /\ commands \in 0..MaxCommands /\ stuck \in 0..(Longest + 1)

\* A heater that neither comes near its target nor reaches a goal is reported: the
\* checks without progress are bounded by the longer of check_gain_time and
\* max_error, although the grace of an approach clears a fault when it ends.
FaultInTime == stuck > Longest => check_fault

\* While its check's greenlet is held up in PAUSE, the heater is marked faulty or the
\* printer is shut down, so that the wait that holds the mutex gives it up.
BlockedIsVisible == checker = "pause" => heater_fault \/ is_shutdown

\* A wait for a temperature ends, unless the heater comes near the target: a fault, a
\* cancelled print and a shutdown break it off.
WaitEnds == waiting ~> (~waiting \/ InRange)

\* The PAUSE of a fault is run, and a cancelled print ends, although a wait for a
\* temperature may hold the mutex when they are asked for.
MutexIsGivenUp ==
    /\ checker = "pause" ~> checker = "timer"
    /\ canceller = "lock" ~> canceller = "none"
=============================================================================
