-------------------------------- MODULE PwmOut --------------------------------
(***************************************************************************)
(* A hardware PWM output of the firmware with timed updates and the        *)
(* max_duration limit (src/src/pwmcmds.c).  Unlike a digital output, its   *)
(* queue command lets interrupts in between adding the update to the queue *)
(* and moving the timer: QueuePwmOut and QueueTimer are two steps.         *)
(***************************************************************************)
EXTENDS Integers, Sequences

CONSTANTS Width,        \* the clock counts modulo Width (2^32)
          MaxDuration,  \* max_duration of config_pwm_out; 0: no limit
          Values,       \* duty values
          Default,      \* default_value
          Ahead,        \* how far in advance the host sends an update
          MaxQueue      \* bound: updates in the queue

\* What the constants have to satisfy.
PwmAssumption ==
    /\ Width \in Nat \ {0} /\ Width % 2 = 0 /\ Default \in Values
    /\ MaxDuration \in Nat /\ Ahead \in Nat /\ MaxQueue \in Nat
    /\ 2 * (MaxDuration + Ahead) < Width

VARIABLES now,          \* timer_read_time()
          value,        \* what gpio_pwm_write() last wrote
          func,         \* timer.func: "event" or "end"
          timer,        \* the timer is on the timer list
          waketime,     \* timer.waketime
          mq,           \* queue of [waketime, value] updates
          adding,       \* waketime of the update whose command is at work, if any
          is_shutdown,
          age           \* history: time since a command set an active output

timerVars == <<func, timer, waketime>>
vars == <<now, value, timerVars, mq, adding, is_shutdown, age>>

Clock == 0..(Width - 1)

Wrap(t) == t % Width

\* timer_is_before()
Before(t1, t2) == 2 * Wrap(t1 - t2) >= Width

Active == value # Default

Due == timer /\ waketime = now

\* sched_shutdown(): pwm_shutdown(), sched_timer_reset(); a command is cut off.
Shutdown ==
    /\ is_shutdown' = TRUE
    /\ value' = Default /\ func' = "event" /\ timer' = FALSE
    /\ mq' = <<>> /\ adding' = {} /\ age' = 0
    /\ UNCHANGED <<now, waketime>>

-----------------------------------------------------------------------------
(* Timer events *)

\* The next update of the queue is too far away.
Exceeds(m, wake) ==
    /\ m.value # Default /\ MaxDuration # 0
    /\ Before(Wrap(waketime + MaxDuration), wake)

\* pwm_event()
PwmEvent ==
    /\ Due /\ func = "event"
    /\ LET m == Head(mq)
           rest == Tail(mq)
           apply == /\ value' = m.value /\ mq' = rest /\ age' = 0
                    /\ UNCHANGED <<now, adding, is_shutdown>>
       IN  \/ /\ rest = <<>> /\ (m.value = Default \/ MaxDuration = 0)
              /\ apply /\ timer' = FALSE
              /\ UNCHANGED <<func, waketime>>
           \/ /\ rest = <<>> /\ m.value # Default /\ MaxDuration # 0
              /\ apply /\ func' = "end"
              /\ waketime' = Wrap(waketime + MaxDuration)
              /\ UNCHANGED timer
           \/ /\ rest # <<>>
              /\ IF Exceeds(m, Head(rest).waketime)
                 THEN Shutdown  \* "Scheduled pwm event will exceed max_duration"
                 ELSE /\ apply /\ waketime' = Head(rest).waketime
                      /\ UNCHANGED <<func, timer>>

\* pwm_end_event(): "Missed scheduling of next hard pwm event"
PwmEndEvent == Due /\ func = "end" /\ Shutdown

-----------------------------------------------------------------------------
(* Commands *)

\* command_queue_pwm_out() up to irq_enable()
QueuePwmOut(d, v) ==
    LET time == Wrap(now + d)
    IN  /\ ~is_shutdown /\ adding = {} /\ Len(mq) < MaxQueue
        /\ mq # <<>> => ~Before(time, mq[Len(mq)].waketime)
        /\ mq' = Append(mq, [waketime |-> time, value |-> v])
        /\ adding' = IF mq = <<>> THEN {time} ELSE {}
        /\ UNCHANGED <<now, value, timerVars, is_shutdown, age>>

\* A mutant: the running limit is forgotten.
LateNever(time) == FALSE

\* The update comes after the end of the running limit.
Late(time) == func = "end" /\ Before(waketime, time)

\* The rest of command_queue_pwm_out(), the queue having been empty:
\* sched_del_timer(), the check of the limit, sched_add_timer().
QueueTimer ==
    \E time \in adding :
      IF Late(time) \/ Before(time, now)
      THEN Shutdown  \* "... will exceed max_duration", "Timer too close"
      ELSE /\ func' = "event" /\ timer' = TRUE /\ waketime' = time
           /\ adding' = {}
           /\ UNCHANGED <<now, value, mq, is_shutdown, age>>

\* A shutdown for another reason; clear_shutdown.
EmergencyStop == Shutdown

ClearShutdown ==
    /\ is_shutdown /\ adding = {}
    /\ is_shutdown' = FALSE
    /\ UNCHANGED <<now, value, timerVars, mq, adding, age>>

-----------------------------------------------------------------------------
\* The clock advances when no timer is due.
Tick ==
    /\ ~Due
    /\ now' = Wrap(now + 1)
    /\ age' = IF Active /\ MaxDuration # 0 THEN age + 1 ELSE 0
    /\ UNCHANGED <<value, timerVars, mq, adding, is_shutdown>>

\* command_config_pwm_out(); the host refuses a limited pin whose start value
\* is not its default.
Init ==
    /\ now \in {0, Width - 1}
    /\ value \in {v \in Values : MaxDuration # 0 => v = Default}
    /\ func = "event" /\ timer = FALSE /\ waketime = 0
    /\ mq = <<>> /\ adding = {} /\ is_shutdown = FALSE /\ age = 0

Next ==
    \/ PwmEvent \/ PwmEndEvent
    \/ \E d \in -1..Ahead, v \in Values : QueuePwmOut(d, v)
    \/ QueueTimer \/ EmergencyStop \/ ClearShutdown \/ Tick

Spec == Init /\ [][Next]_vars

-----------------------------------------------------------------------------
(* Properties *)

\* The types of the variables; pwm_event() finds an update in the queue (it
\* takes the first without looking), and an update in the queue has a timer
\* unless its command is still at work.
TypeOK ==
    /\ now \in Clock /\ waketime \in Clock /\ value \in Values
    /\ func \in {"event", "end"} /\ timer \in BOOLEAN
    /\ mq \in Seq([waketime : Clock, value : Values])
    /\ adding \subseteq Clock /\ is_shutdown \in BOOLEAN /\ age \in Nat
    /\ timer /\ func = "event" => mq # <<>> /\ adding = {}
    /\ mq # <<>> /\ adding = {} => timer /\ func = "event"

\* A PWM output with a max_duration is a safe output, though interrupts are
\* let in while its timer is moved.
Safe == INSTANCE SafeOutput WITH active <- Active, age <- age

SafeOutputSpec == Safe!Spec
=============================================================================
