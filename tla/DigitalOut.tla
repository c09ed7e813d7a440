------------------------------ MODULE DigitalOut ------------------------------
(***************************************************************************)
(* A digital output of the firmware with timed updates, software PWM and   *)
(* the max_duration limit (src/src/gpiocmds.c).  The clock is that of the  *)
(* micro-controller: it wraps around, and times are compared with          *)
(* timer_is_before() (src/src/generic/timer_irq.c).                        *)
(*                                                                         *)
(* Timer interrupts are served on time: the clock does not pass a timer    *)
(* that is due.                                                            *)
(***************************************************************************)
EXTENDS Integers, Sequences

CONSTANTS Width,        \* the clock counts modulo Width (2^32)
          MaxDuration,  \* max_duration of config_digital_out; 0: no limit
          Default,      \* default_value
          Cycles,       \* values of cycle_ticks= in set_digital_out_pwm_cycle
          OnTicks,      \* values of on_ticks= in queue_digital_out
          Ahead,        \* how far in advance the host sends an update
          MaxQueue      \* bound: updates in the queue

OutAssumption ==
    /\ Width \in Nat \ {0} /\ Width % 2 = 0
    /\ Default \in BOOLEAN
    /\ Cycles \subseteq Nat \ {0} /\ OnTicks \subseteq Nat
    /\ MaxDuration \in Nat /\ Ahead \in Nat /\ MaxQueue \in Nat
    /\ 2 * (MaxDuration + Ahead) < Width
    /\ \A c \in Cycles : 2 * (MaxDuration + Ahead + c) < Width

VARIABLES now,          \* timer_read_time()
          pin,          \* level of the pin
          toggling,     \* DF_TOGGLING
          check_end,    \* DF_CHECK_END
          end_time,
          timer,        \* timer.func while on the timer list, else "none"
          waketime,     \* timer.waketime
          on_duration, off_duration, cycle_time,
          mq,           \* queue of [waketime, on] updates
          is_shutdown,
          age           \* history: time since a command set an active output

pwmVars == <<on_duration, off_duration, cycle_time>>
outVars == <<pin, toggling, check_end, end_time, timer, waketime>>
vars == <<now, outVars, pwmVars, mq, is_shutdown, age>>

Clock == 0..(Width - 1)

Wrap(t) == t % Width

\* timer_is_before(): the difference as a signed number is negative.
Before(t1, t2) == 2 * Wrap(t1 - t2) >= Width

\* The output is not steadily at its default.
Active == toggling \/ pin # Default

Due == timer # "none" /\ waketime = now

\* sched_shutdown(): digital_out_shutdown() and sched_timer_reset().
Shutdown ==
    /\ is_shutdown' = TRUE
    /\ pin' = Default /\ toggling' = FALSE /\ check_end' = FALSE
    /\ timer' = "none" /\ mq' = <<>> /\ age' = 0
    /\ UNCHANGED <<now, end_time, waketime, pwmVars>>

\* sched_del_timer() and sched_add_timer()
AddTimer(func, t) == timer' = func /\ waketime' = t

\* The check of sched_add_timer().
TooClose(t) == Before(t, now)

-----------------------------------------------------------------------------
(* Timer events *)

\* digital_toggle_event()
ToggleEvent ==
    /\ Due /\ timer = "toggle"
    /\ pin' = ~pin
    /\ LET next == Wrap(waketime + (IF pin THEN off_duration ELSE on_duration))
       IN  IF check_end /\ ~Before(next, end_time)
           THEN AddTimer("load", end_time) ELSE AddTimer("toggle", next)
    /\ UNCHANGED <<now, toggling, check_end, end_time, pwmVars, mq, is_shutdown,
                   age>>

\* A setting of on ticks does not change the pin until the next update.
Steady(on) == on = 0 \/ on >= cycle_time

\* A mutant: a software PWM is not limited.
LimitedSteady(on) == MaxDuration # 0 /\ Steady(on) /\ (on # 0) # Default

\* The setting is subject to max_duration.
Limited(on) == MaxDuration # 0 /\ (Steady(on) => (on # 0) # Default)

\* digital_load_event(): the rest of the event when the first update is applied.
LoadUpdate(m, rest) ==
    LET limit == Wrap(waketime + MaxDuration)
        check == Limited(m.on) \/ rest # <<>>
        end == IF rest # <<>> THEN Head(rest).waketime
               ELSE IF Limited(m.on) THEN limit ELSE 0
        next == Wrap(waketime + m.on)
    IN  IF rest # <<>> /\ Limited(m.on) /\ Before(limit, Head(rest).waketime)
        THEN Shutdown  \* "Scheduled digital out event will exceed max_duration"
        ELSE /\ pin' = (m.on # 0) /\ mq' = rest /\ age' = 0
             /\ toggling' = ~Steady(m.on) /\ check_end' = check
             /\ end_time' = end
             /\ \/ /\ Steady(m.on) /\ ~check
                   /\ timer' = "none"
                   /\ UNCHANGED <<waketime, pwmVars>>
                \/ /\ check /\ (Steady(m.on) \/ ~Before(next, end))
                   /\ AddTimer("load", end)
                   /\ UNCHANGED pwmVars
                \/ /\ ~Steady(m.on) /\ (check => Before(next, end))
                   /\ AddTimer("toggle", next)
                   /\ on_duration' = m.on /\ off_duration' = cycle_time - m.on
                   /\ UNCHANGED cycle_time
             /\ UNCHANGED <<now, is_shutdown>>

\* digital_load_event()
LoadEvent ==
    /\ Due /\ timer = "load"
    /\ IF mq = <<>>
       THEN Shutdown  \* "Missed scheduling of next digital out event"
       ELSE LoadUpdate(Head(mq), Tail(mq))

-----------------------------------------------------------------------------
(* Commands *)

\* A mutant: a running PWM is always left to load the update.
LeftToToggleAlways(time) == toggling

\* digital_toggle_event() will load the update.
LeftToToggle(time) == toggling /\ Before(waketime, time)

\* command_queue_digital_out(); the host sends the updates of a pin in the
\* order of their times, the first perhaps too late.
QueueDigitalOut(d, on) ==
    LET time == Wrap(now + d)
    IN  /\ ~is_shutdown /\ Len(mq) < MaxQueue
        /\ mq # <<>> => ~Before(time, mq[Len(mq)].waketime)
        /\ IF mq # <<>>
           THEN /\ mq' = Append(mq, [waketime |-> time, on |-> on])
                /\ UNCHANGED <<now, outVars, pwmVars, is_shutdown, age>>
           ELSE IF check_end /\ Before(end_time, time)
           THEN Shutdown  \* "Scheduled digital out event will exceed max_duration"
           ELSE IF LeftToToggle(time)
           THEN /\ mq' = Append(mq, [waketime |-> time, on |-> on])
                /\ end_time' = time /\ check_end' = TRUE
                /\ UNCHANGED <<now, pin, toggling, timer, waketime, pwmVars,
                               is_shutdown, age>>
           ELSE IF TooClose(time)
           THEN Shutdown  \* "Timer too close"
           ELSE /\ mq' = Append(mq, [waketime |-> time, on |-> on])
                /\ end_time' = time /\ check_end' = TRUE
                /\ AddTimer("load", time)
                /\ UNCHANGED <<now, pin, toggling, pwmVars, is_shutdown, age>>

\* command_update_digital_out()
UpdateDigitalOut(value) ==
    /\ ~is_shutdown
    /\ IF mq # <<>>
       THEN Shutdown  \* "update_digital_out not valid with active queue"
       ELSE /\ pin' = value /\ toggling' = FALSE /\ age' = 0
            /\ IF value # Default /\ MaxDuration # 0
               THEN /\ AddTimer("load", Wrap(now + MaxDuration))
                    /\ end_time' = Wrap(now + MaxDuration) /\ check_end' = TRUE
               ELSE /\ timer' = "none" /\ check_end' = FALSE
                    /\ UNCHANGED <<waketime, end_time>>
            /\ UNCHANGED <<now, pwmVars, mq, is_shutdown>>

\* command_set_digital_out_pwm_cycle()
SetPwmCycle(cycle) ==
    /\ ~is_shutdown
    /\ IF mq # <<>>
       THEN Shutdown  \* "Can not set soft pwm cycle ticks while updates pending"
       ELSE /\ cycle_time' = cycle
            /\ UNCHANGED <<now, outVars, on_duration, off_duration, mq,
                           is_shutdown, age>>

\* A shutdown for another reason; clear_shutdown.
EmergencyStop == Shutdown

ClearShutdown ==
    /\ is_shutdown
    /\ is_shutdown' = FALSE
    /\ UNCHANGED <<now, outVars, pwmVars, mq, age>>

-----------------------------------------------------------------------------
\* The clock advances when no timer is due.
Tick ==
    /\ ~Due
    /\ now' = Wrap(now + 1)
    /\ age' = IF Active /\ MaxDuration # 0 THEN age + 1 ELSE 0
    /\ UNCHANGED <<outVars, pwmVars, mq, is_shutdown>>

\* command_config_digital_out(); the host refuses a limited pin whose start value
\* is not its default.
Init ==
    /\ now \in {0, Width - 1}
    /\ pin \in {v \in BOOLEAN : MaxDuration # 0 => v = Default}
    /\ toggling = FALSE /\ check_end = FALSE /\ end_time = 0
    /\ timer = "none" /\ waketime = 0
    /\ on_duration = 0 /\ off_duration = 0 /\ cycle_time = 0
    /\ mq = <<>> /\ is_shutdown = FALSE /\ age = 0

Next ==
    \/ ToggleEvent \/ LoadEvent
    \/ \E d \in -1..Ahead, on \in OnTicks : QueueDigitalOut(d, on)
    \/ \E value \in BOOLEAN : UpdateDigitalOut(value)
    \/ \E cycle \in Cycles : SetPwmCycle(cycle)
    \/ EmergencyStop \/ ClearShutdown \/ Tick

Spec == Init /\ [][Next]_vars

-----------------------------------------------------------------------------
(* Properties *)

\* The types of the variables; the timer of the pin is never in the past.
TypeOK ==
    /\ now \in Clock /\ end_time \in Clock /\ waketime \in Clock
    /\ pin \in BOOLEAN /\ toggling \in BOOLEAN /\ check_end \in BOOLEAN
    /\ timer \in {"none", "load", "toggle"}
    /\ on_duration \in Nat /\ off_duration \in Nat /\ cycle_time \in Nat
    /\ mq \in Seq([waketime : Clock, on : OnTicks])
    /\ is_shutdown \in BOOLEAN /\ age \in Nat
    /\ timer # "none" => ~Before(waketime, now)

\* Updates are applied on time: unless an event is due at this very moment, no
\* update with a time that has come is left in the queue.
UpdatesOnTime ==
    ~Due => \A i \in DOMAIN mq : Before(now, mq[i].waketime)

\* A pin with a max_duration is a safe output: whatever the host sends or fails
\* to send, a setting other than the default that is not renewed ends in time,
\* also when the clock wraps around.
Safe == INSTANCE SafeOutput WITH active <- Active, age <- age

SafeOutputSpec == Safe!Spec
=============================================================================
