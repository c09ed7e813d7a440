--------------------------- MODULE HeaterParameters ---------------------------
(***************************************************************************)
(* The parameters of a heater: of its output (Heater) and of its           *)
(* supervision (VerifyHeater).                                             *)
(***************************************************************************)
EXTENDS Integers

CONSTANTS Targets       \* target temperatures; 0 is off

CONSTANTS Quarter,      \* a quarter of MAX_HEAT_TIME
          Delay,        \* pwm_delay: from a reading to the output it asks for
          MaxGap,       \* longest time between two readings while they arrive
          MaxPower,     \* max_power, in steps of the output
          Step          \* the change that is sent at once (0.05)

ASSUME HeaterAssumption ==
    /\ Quarter \in Nat /\ Delay \in Nat /\ MaxGap \in Nat \ {0}
    /\ MaxPower \in Nat /\ Step \in Nat \ {0}
    /\ Targets \subseteq Nat /\ 0 \in Targets

\* The timing under which a reading comes in time to renew the output.
ASSUME TimingAssumption == Delay + MaxGap <= Quarter

CONSTANTS MaxTemp,      \* bound of the temperatures
          Hysteresis,   \* hysteresis
          MaxError,     \* max_error
          Gain,         \* heating_gain
          GainTime,     \* check_gain_time
          SettleDelta,  \* PID_SETTLE_DELTA
          MaxCommands   \* bound: commands of the client

ASSUME CheckAssumption ==
    /\ MaxTemp \in Nat /\ Targets \subseteq Nat /\ 0 \in Targets
    /\ Hysteresis \in Nat /\ MaxError \in Nat \ {0}
    /\ Gain \in Nat \ {0} /\ GainTime \in Nat \ {0}
    /\ SettleDelta \in Nat /\ MaxCommands \in Nat
=============================================================================
