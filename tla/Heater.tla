-------------------------------- MODULE Heater --------------------------------
(***************************************************************************)
(* The output of one heater (src/elegoo/extras/heaters.cpp, Heater) as its *)
(* temperature readings drive it.  The firmware switches a heater off and  *)
(* shuts down when its output is not renewed within max_duration, which    *)
(* is MAX_HEAT_TIME here: the host repeats a steady output when a reading  *)
(* comes three quarters of that time after the last command.               *)
(*                                                                         *)
(* Readings are handled by the thread that reads the serial port.  A fault *)
(* of the sensor makes that very thread run PAUSE when a print is on, so   *)
(* that no reading is handled until PAUSE has ended, if it ever does.      *)
(*                                                                         *)
(* Time is the read_time of the readings, in units of which MAX_HEAT_TIME  *)
(* is 4 * Quarter.  The control law is any choice of an output: it covers  *)
(* ControlPID, ControlBangBang and the output of ControlAutoTune.          *)
(***************************************************************************)
EXTENDS HeaterParameters

VARIABLES
    target_temp,
    control,            \* the control law: "pid" or "autotune"
    last_pwm_value,
    age,                \* read_time of the last reading less that of the last
                        \* command; 0 while last_pwm_value is 0
    is_adc_temp_fault, is_shutdown,
    reader,             \* the thread of the readings: "run", or "pause" while
                        \* it runs PAUSE for a fault of the sensor
    unwanted            \* history: for how long the readings found the output
                        \* unwanted, counted up to Renewal

vars == <<target_temp, control, last_pwm_value, age, is_adc_temp_fault,
          is_shutdown, reader, unwanted>>

MAX_HEAT_TIME == 4 * Quarter

\* next_pwm_time less the read_time of the last command
Renewal == Delay + 3 * Quarter

AtMost(a, b) == IF a <= b THEN a ELSE b

Distance(a, b) == IF a <= b THEN b - a ELSE a - b

Init ==
    /\ target_temp = 0 /\ control = "pid" /\ last_pwm_value = 0 /\ age = 0
    /\ is_adc_temp_fault = FALSE /\ is_shutdown = FALSE
    /\ reader = "run" /\ unwanted = 0

-----------------------------------------------------------------------------

\* Mutant: a remainder below a step is left on.
Allowed_residual(fault, target, value) ==
    IF (fault \/ target = 0 \/ is_shutdown) /\ last_pwm_value >= Step THEN 0 ELSE value

\* The output the control law's choice becomes, for the fault flag and target.
Allowed(fault, target, value) ==
    IF fault \/ target = 0 \/ is_shutdown THEN 0 ELSE value

\* Mutant: the renewal comes only at the end of MAX_HEAT_TIME.
set_pwm_late(a, value) ==
    IF (a < MAX_HEAT_TIME \/ last_pwm_value = 0) /\ Distance(value, last_pwm_value) < Step
    THEN UNCHANGED last_pwm_value /\ age' = IF last_pwm_value = 0 THEN 0 ELSE a
    ELSE last_pwm_value' = value /\ age' = 0

\* set_pwm() at a reading that is a after the last command.
set_pwm(a, value) ==
    IF (a < Renewal \/ last_pwm_value = 0) /\ Distance(value, last_pwm_value) < Step
    THEN /\ UNCHANGED last_pwm_value
         /\ age' = IF last_pwm_value = 0 THEN 0 ELSE a
    ELSE /\ last_pwm_value' = value
         /\ age' = 0

\* temperature_callback(): under autotune the reading may move the target
\* between the two temperatures of the calibration (alter_target()).
temperature_callback(dt, fault) ==
    \E value \in 0..MaxPower, t \in Targets :
        /\ t # target_temp => control = "autotune" /\ t # 0
        /\ target_temp' = t
        /\ set_pwm(age + dt, Allowed(fault, t, value))
        /\ unwanted' = IF fault \/ t = 0 \/ is_shutdown
                         THEN AtMost(unwanted + dt, Renewal) ELSE 0

\* A reading, dt after the last one; bad is one at the end of the sensor's range.
\* The signal of a fault is ignored after a shutdown.
Reading(dt, bad) ==
    /\ reader = "run"
    /\ LET fault == bad /\ (is_adc_temp_fault \/ ~is_shutdown)
       IN  is_adc_temp_fault' = fault /\ temperature_callback(dt, fault)
    /\ UNCHANGED <<control, is_shutdown, reader>>

\* The reading that finds the sensor faulty during a print: the signal's handler
\* runs PAUSE before the reading reaches the heater.
FaultInPrint(dt) ==
    /\ reader = "run" /\ ~is_adc_temp_fault /\ ~is_shutdown
    /\ is_adc_temp_fault' = TRUE
    /\ reader' = "pause"
    /\ age' = IF last_pwm_value = 0 THEN 0 ELSE age + dt
    /\ UNCHANGED <<target_temp, control, last_pwm_value, is_shutdown, unwanted>>

\* PAUSE has returned: the reading that found the fault is handled.
ReaderReturns ==
    /\ reader = "pause"
    /\ reader' = "run"
    /\ temperature_callback(0, TRUE)
    /\ UNCHANGED <<control, is_adc_temp_fault, is_shutdown>>

\* PAUSE takes longer than the output may go without renewal: the firmware
\* shuts down, and the host after it.
Lapse ==
    /\ reader = "pause" /\ last_pwm_value # 0 /\ ~is_shutdown
    /\ is_shutdown' = TRUE
    /\ UNCHANGED <<target_temp, control, last_pwm_value, age, is_adc_temp_fault,
                   reader, unwanted>>

\* set_temp() and turn_off_all_heaters()
set_temp(degrees) ==
    /\ target_temp' = degrees
    /\ UNCHANGED <<control, last_pwm_value, age, is_adc_temp_fault, is_shutdown,
                   reader, unwanted>>

\* set_control(): PID_CALIBRATE installs ControlAutoTune and later the old law.
set_control(c) ==
    /\ control' = c
    /\ target_temp' = 0
    /\ UNCHANGED <<last_pwm_value, age, is_adc_temp_fault, is_shutdown, reader, unwanted>>

handle_shutdown ==
    /\ ~is_shutdown
    /\ is_shutdown' = TRUE
    /\ UNCHANGED <<target_temp, control, last_pwm_value, age, is_adc_temp_fault,
                   reader, unwanted>>

Next ==
    \/ \E dt \in 1..MaxGap : (\E bad \in BOOLEAN : Reading(dt, bad)) \/ FaultInPrint(dt)
    \/ ReaderReturns \/ Lapse \/ handle_shutdown
    \/ \E degrees \in Targets : set_temp(degrees)
    \/ \E c \in {"pid", "autotune"} : set_control(c)

Spec == Init /\ [][Next]_vars

-----------------------------------------------------------------------------

\* The values of the variables; the age of an output stays below the time at
\* which a reading renews it.
TypeOK ==
    /\ target_temp \in Targets /\ control \in {"pid", "autotune"}
    /\ last_pwm_value \in 0..MaxPower
    /\ age \in 0..(Renewal + MaxGap)
    /\ is_adc_temp_fault \in BOOLEAN /\ is_shutdown \in BOOLEAN
    /\ reader \in {"run", "pause"} /\ unwanted \in 0..Renewal

\* While readings are handled, an output that is on can be renewed by the next
\* reading, however late it comes, before the firmware's max_duration has passed
\* (set_pwm() against setup_max_duration(MAX_HEAT_TIME)).
RenewedInTime ==
    last_pwm_value # 0 /\ reader = "run" => age + MaxGap <= MAX_HEAT_TIME

\* An output that readings find unwanted (no target, a fault, a shutdown) is below
\* a step from the first of them on, and off once Renewal has passed: the early
\* return of set_pwm() does not keep a small remainder on.
OffInTime ==
    /\ unwanted # 0 /\ reader = "run" => last_pwm_value < Step
    /\ unwanted = Renewal /\ reader = "run" => last_pwm_value = 0
=============================================================================
