------------------------------ MODULE MCOutputs ------------------------------
(***************************************************************************)
(* What has to happen in time, for TLC: the tool head, which times moves   *)
(* and sends their steps (the variables of ToolHead), a digital output of  *)
(* the firmware (pin_...) and a hardware PWM output (pwm_...), which carry *)
(* out timed updates.  None of them reads the state of another, so that    *)
(* each is explored while the others rest.                                 *)
(***************************************************************************)
EXTENDS ToolHead

CONSTANTS Width, MaxDuration, Default, Cycles, OnTicks, PinAhead, PinMaxQueue,
          PwmValues, PwmDefault, PwmAhead, PwmMaxQueue

VARIABLES part,     \* what is explored: "tool_head", "digital" or "pwm"
          pin_now, pin, pin_toggling, pin_check_end, pin_end_time, pin_timer,
          pin_waketime, pin_on_duration, pin_off_duration, pin_cycle_time, pin_mq,
          pin_is_shutdown, pin_age,
          pwm_now, pwm_value, pwm_func, pwm_timer, pwm_waketime, pwm_mq,
          pwm_adding, pwm_is_shutdown, pwm_age

digitalOutVars == <<pin_now, pin, pin_toggling, pin_check_end, pin_end_time, pin_timer,
                    pin_waketime, pin_on_duration, pin_off_duration, pin_cycle_time,
                    pin_mq, pin_is_shutdown, pin_age>>
pwmOutVars == <<pwm_now, pwm_value, pwm_func, pwm_timer, pwm_waketime, pwm_mq,
                pwm_adding, pwm_is_shutdown, pwm_age>>

Pin == INSTANCE DigitalOut
         WITH Ahead <- PinAhead, MaxQueue <- PinMaxQueue, now <- pin_now,
              toggling <- pin_toggling, check_end <- pin_check_end,
              end_time <- pin_end_time, timer <- pin_timer, waketime <- pin_waketime,
              on_duration <- pin_on_duration, off_duration <- pin_off_duration,
              cycle_time <- pin_cycle_time, mq <- pin_mq,
              is_shutdown <- pin_is_shutdown, age <- pin_age

Pwm == INSTANCE PwmOut
         WITH Values <- PwmValues, Default <- PwmDefault, Ahead <- PwmAhead,
              MaxQueue <- PwmMaxQueue, now <- pwm_now, value <- pwm_value,
              func <- pwm_func, timer <- pwm_timer, waketime <- pwm_waketime,
              mq <- pwm_mq, adding <- pwm_adding,
              is_shutdown <- pwm_is_shutdown, age <- pwm_age

ASSUME PinsAssumption == Pin!OutAssumption /\ Pwm!PwmAssumption

\* A part that rests does so in one of its initial states.
OutputsInit ==
    /\ Init /\ Pin!Init /\ Pwm!Init /\ part \in {"tool_head", "digital", "pwm"}
    /\ part # "tool_head" => \A delay \in KinDelays : th.kin <= delay
    /\ part # "digital" => pin_now = 0
    /\ part # "pwm" => pwm_now = 0

OutputsNext ==
    \/ part = "tool_head" /\ Next /\ UNCHANGED <<digitalOutVars, pwmOutVars, part>>
    \/ part = "digital" /\ Pin!Next /\ UNCHANGED <<vars, pwmOutVars, part>>
    \/ part = "pwm" /\ Pwm!Next /\ UNCHANGED <<vars, digitalOutVars, part>>

OutputsSpec == OutputsInit /\ [][OutputsNext]_<<vars, digitalOutVars, pwmOutVars, part>>

\* UpdatesOnTime of DigitalOut: a queued update is applied at its time; TypeOK of both
\* kinds of pins: their timers and flags fit together, and no timer of a PWM output
\* finds an empty queue.
PinsOnTime == Pin!TypeOK /\ Pin!UpdatesOnTime /\ Pwm!TypeOK

\* SafeOutputSpec of DigitalOut: an active output that is not renewed ends in time.
PinSafeOutputSpec == Pin!SafeOutputSpec

\* SafeOutputSpec of PwmOut: a setting that is not renewed ends in time.
PwmSafeOutputSpec == Pwm!SafeOutputSpec
=============================================================================
