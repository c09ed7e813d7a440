-------------------------------- MODULE Tasks --------------------------------
(***************************************************************************)
(* The main loop of the firmware (run_tasks() of src/src/sched.c): tasks   *)
(* run one after the other, interrupts and tasks wake tasks, and the       *)
(* processor sleeps when no task was woken.  A shutdown leaves the loop by *)
(* a longjmp and enters it again at its beginning.                         *)
(***************************************************************************)
EXTENDS Naturals

CONSTANTS NTasks,         \* the tasks are 1..NTasks, in the order they run
          MaxShutdowns    \* bound: number of shutdowns

ASSUME TasksAssumption == NTasks \in Nat \ {0} /\ MaxShutdowns \in Nat

VARIABLES tasks_status,   \* SchedStatus.tasks_status
          wake,           \* struct task_wake of each task
          pc,             \* where the main loop is
          cur,            \* the task whose turn it is
          waking,         \* the tasks sched_wake_task() is about to mark
          shutdowns

vars == <<tasks_status, wake, pc, cur, waking, shutdowns>>

TaskIds == 1..NTasks

-----------------------------------------------------------------------------
(* The main loop *)

\* The first check of tasks_status, with interrupts enabled.
CheckSleep ==
    /\ pc = "check"
    /\ pc' = IF tasks_status # "requested" THEN "disable" ELSE "run"
    /\ UNCHANGED <<tasks_status, wake, cur, waking, shutdowns>>

\* A mutant: tasks_status is not looked at again once interrupts are disabled.
SleepUnchecked ==
    /\ pc = "disable"
    /\ pc' = "wait" /\ tasks_status' = "idle"
    /\ UNCHANGED <<wake, cur, waking, shutdowns>>

\* irq_disable() and the second check.
Sleep ==
    /\ pc = "disable"
    /\ \/ /\ tasks_status # "requested"
          /\ tasks_status' = "idle" /\ pc' = "wait"
       \/ /\ tasks_status = "requested"
          /\ pc' = "run"
          /\ UNCHANGED tasks_status
    /\ UNCHANGED <<wake, cur, waking, shutdowns>>

\* irq_wait() returns when an interrupt was served; irq_enable().
WakeUp ==
    /\ pc = "wait" /\ tasks_status = "requested"
    /\ pc' = "run"
    /\ UNCHANGED <<tasks_status, wake, cur, waking, shutdowns>>

\* The round of ctr_run_taskfuncs() begins.
Run ==
    /\ pc = "run"
    /\ tasks_status' = "running" /\ pc' = "task" /\ cur' = 1
    /\ UNCHANGED <<wake, waking, shutdowns>>

\* On to the next task, or to the end of the round.
NextTask ==
    /\ cur' = IF cur < NTasks THEN cur + 1 ELSE cur
    /\ pc' = IF cur < NTasks THEN "task" ELSE "check"

\* sched_check_wake(): the flag is read ...
CheckWake ==
    /\ pc = "task"
    /\ IF wake[cur] THEN pc' = "clear" /\ UNCHANGED cur ELSE NextTask
    /\ UNCHANGED <<tasks_status, wake, waking, shutdowns>>

\* ... and cleared, perhaps after an interrupt set it again.
ClearWake ==
    /\ pc = "clear"
    /\ wake' = [wake EXCEPT ![cur] = FALSE]
    /\ pc' = "body"
    /\ UNCHANGED <<tasks_status, cur, waking, shutdowns>>

\* The task does its work and may call sched_wake_task() itself, which notes
\* the request first ...
Body ==
    /\ pc = "body"
    /\ \/ /\ NextTask
          /\ UNCHANGED <<tasks_status, waking>>
       \/ \E w \in TaskIds :
            /\ tasks_status' = "requested" /\ waking' = {w} /\ pc' = "mark"
            /\ UNCHANGED cur
    /\ UNCHANGED <<wake, shutdowns>>

\* ... and marks the task then.
Mark ==
    /\ pc = "mark"
    /\ wake' = [w \in TaskIds |-> wake[w] \/ w \in waking]
    /\ waking' = {}
    /\ NextTask
    /\ UNCHANGED <<tasks_status, shutdowns>>

Main == \/ CheckSleep \/ Sleep \/ WakeUp \/ Run \/ CheckWake \/ ClearWake
        \/ Body \/ Mark

-----------------------------------------------------------------------------
(* Interrupts *)

\* sched_wake_task() in an interrupt
IrqWake(w) ==
    /\ tasks_status' = "requested"
    /\ wake' = [wake EXCEPT ![w] = TRUE]
    /\ UNCHANGED <<pc, cur, waking, shutdowns>>

\* A mutant: the periodic event does not wake the main loop.
PeriodicEventSilent == UNCHANGED vars

\* periodic_event() calls sched_wake_tasks().
PeriodicEvent ==
    /\ tasks_status' = "requested"
    /\ UNCHANGED <<wake, pc, cur, waking, shutdowns>>

\* sched_shutdown() in an interrupt or in a task: the longjmp of sched_main().
Shutdown ==
    /\ shutdowns < MaxShutdowns
    /\ shutdowns' = shutdowns + 1
    /\ pc' = "check" /\ waking' = {}
    /\ UNCHANGED <<tasks_status, wake, cur>>

-----------------------------------------------------------------------------
\* TS_REQUESTED is 0, the initial value.
Init ==
    /\ tasks_status = "requested"
    /\ wake = [w \in TaskIds |-> FALSE]
    /\ pc = "check" /\ cur = 1 /\ waking = {} /\ shutdowns = 0

Next == Main \/ (\E w \in TaskIds : IrqWake(w)) \/ PeriodicEvent \/ Shutdown

Spec == Init /\ [][Next]_vars

\* The main loop goes on, and the periodic timer fires again and again.
FairSpec == Spec /\ WF_vars(Main) /\ WF_vars(PeriodicEvent)

-----------------------------------------------------------------------------
(* Properties *)

\* The types of the variables, and where the main loop may be.
TypeOK ==
    /\ tasks_status \in {"idle", "requested", "running"}
    /\ wake \in [TaskIds -> BOOLEAN] /\ cur \in TaskIds
    /\ pc \in {"check", "disable", "wait", "run", "task", "clear", "body", "mark"}
    /\ waking \subseteq TaskIds /\ shutdowns \in 0..MaxShutdowns

\* The processor never sleeps on a task that was woken: unless a shutdown cut a
\* round of tasks short, a task marked while the loop sleeps has been requested.
NoSleepOnWork ==
    shutdowns = 0 /\ pc = "wait" /\ tasks_status # "requested"
      => \A w \in TaskIds : ~wake[w]

\* Every task that is woken runs, also if a shutdown cut off the round it would
\* have run in: the periodic timer starts another one.
WokenTaskRuns == \A w \in TaskIds : wake[w] ~> pc = "body" /\ cur = w
=============================================================================
