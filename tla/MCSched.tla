------------------------------- MODULE MCSched -------------------------------
(***************************************************************************)
(* The scheduler of the firmware for TLC: its main loop (the variables of  *)
(* Tasks) and its timer list (those of Sched).  The list only ever wakes   *)
(* tasks, which Tasks lets happen at any time, so that each is explored    *)
(* while the other rests.                                                  *)
(***************************************************************************)
EXTENDS Tasks

CONSTANTS Users, Width, Period, Ahead, Late

VARIABLES part,     \* the part that is explored: "tasks" or "timers"
          q, now, active, is_shutdown

timerVars == <<q, now, active, is_shutdown>>

Timer == INSTANCE Sched

ASSUME TimerAssumption == Timer!SchedAssumption

SchedInit == Init /\ Timer!Init /\ part \in {"tasks", "timers"}

SchedNext ==
    \/ part = "tasks" /\ Next /\ UNCHANGED <<timerVars, part>>
    \/ part = "timers" /\ Timer!Next /\ UNCHANGED <<vars, part>>

SchedVars == <<vars, timerVars, part>>

\* The fairness of Tasks, while the main loop is explored.
SchedSpec ==
    /\ SchedInit /\ [][SchedNext]_SchedVars
    /\ WF_SchedVars(part = "tasks" /\ Main /\ UNCHANGED <<timerVars, part>>)
    /\ WF_SchedVars(part = "tasks" /\ PeriodicEvent /\ UNCHANGED <<timerVars, part>>)

\* TypeOK, ListIntact and Sorted of Sched: every added timer stays on the list until
\* it is done, and the list is in the order of the times, across the wrap of the clock.
TimersIntact == Timer!TypeOK /\ Timer!ListIntact /\ Timer!Sorted

\* NoTimerMissed of Sched: no timer is overdue by more than a late interrupt.
NoTimerMissed == Timer!NoTimerMissed
=============================================================================
