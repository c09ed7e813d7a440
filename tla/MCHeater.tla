------------------------------- MODULE MCHeater -------------------------------
(***************************************************************************)
(* A heater for TLC: its supervision (the variables of VerifyHeater) and   *)
(* its output (out_...).  The output depends on the supervision only       *)
(* through the target, which both let change at any time, so that each is  *)
(* explored while the other rests.                                         *)
(***************************************************************************)
EXTENDS VerifyHeater

VARIABLES part,     \* what is explored: "check" or "output"
          out_target, out_control, out_value, out_age, out_fault, out_shutdown,
          out_reader, out_unwanted

outVars == <<out_target, out_control, out_value, out_age, out_fault, out_shutdown,
             out_reader, out_unwanted>>

Out == INSTANCE Heater
         WITH target_temp <- out_target, control <- out_control,
              last_pwm_value <- out_value, age <- out_age,
              is_adc_temp_fault <- out_fault, is_shutdown <- out_shutdown,
              reader <- out_reader, unwanted <- out_unwanted

HeaterInit == Init /\ Out!Init /\ part \in {"check", "output"}

HeaterNext ==
    \/ part = "check" /\ Next /\ UNCHANGED <<outVars, part>>
    \/ part = "output" /\ Out!Next /\ UNCHANGED <<vars, part>>

\* The fairness of VerifyHeater, whose steps are taken only while it is explored.
HeaterSpec ==
    /\ HeaterInit /\ [][HeaterNext]_<<vars, outVars, part>>
    /\ part = "check" => Fairness

\* RenewedInTime of Heater: the next reading comes in time to renew the output.
RenewedInTime == Out!RenewedInTime

\* OffInTime of Heater: an output that is not wanted ends in time.
OffInTime == Out!OffInTime
=============================================================================
