------------------------------- MODULE Stepper -------------------------------
(***************************************************************************)
(* Step generation in the firmware (src/src/stepper.c) on the pool of move *)
(* nodes all steppers share (src/src/basecmd.c), with the stop signal of   *)
(* src/src/trsync.c and the shutdown of src/src/sched.c.                   *)
(*                                                                         *)
(* Commands are run by the main task; the step timers and the trigger are  *)
(* interrupts, which command_queue_step admits between move_alloc() and    *)
(* irq_disable().  Times are left out: a timer fires any time after it was *)
(* added, and being late ends in a shutdown or not.                        *)
(***************************************************************************)
EXTENDS Integers, Sequences, FiniteSets

CONSTANTS Steppers,     \* the configured steppers
          SingleSched,  \* those with SF_SINGLE_SCHED: one event for each step
          Moves,        \* the nodes of move_list
          Counts,       \* the values of count= in queue_step
          Bias,         \* POSITION_BIAS; positions are counted modulo 4 * Bias
          Travel        \* bound: how far from 0 an axis is ever sent

ASSUME StepperAssumption ==
    /\ SingleSched \subseteq Steppers
    /\ Counts \subseteq Nat
    /\ Bias \in Nat \ {0} /\ Travel \in Nat /\ Travel < Bias
    /\ IsFiniteSet(Steppers)

VARIABLES stepper,      \* struct stepper of each, with the pins it drives
          free,         \* how often each node is on move_free_list
          cmd,          \* the queue_step that has its node and is not done, if any
          is_shutdown   \* SchedStatus.shutdown_status

vars == <<stepper, free, cmd, is_shutdown>>

\* uint32_t arithmetic.
Wrap(n) == n % (4 * Bias)

\* A queued stepper_move; "to" is a history field, the place the host sends
\* the axis to with it.
QueuedMoves == [node : Moves, count : Nat \ {0}, dir : BOOLEAN, to : Int]

\* struct stepper.  "timer": on the timer list; "signal": stop_signal.func is
\* set; "at", "to", "halted": history fields, the steps the motor has really
\* made, the place the running move ends at, stopped and the clock not reset;
\* "single": SF_SINGLE_SCHED.
StepperStates ==
    [count : Nat, position : 0..(4 * Bias - 1), mq : Seq(QueuedMoves),
     last_dir : BOOLEAN, next_dir : BOOLEAN, need_reset : BOOLEAN,
     timer : BOOLEAN, signal : BOOLEAN, dir_pin : BOOLEAN, step_pin : BOOLEAN,
     at : Int, to : Int, halted : BOOLEAN, single : BOOLEAN]

-----------------------------------------------------------------------------
(* Helpers on one stepper *)

\* stepper_load_next(); the node of the move goes back to the pool.
LoadNext(st) ==
    IF st.mq = <<>>
    THEN [st EXCEPT !.count = 0, !.timer = FALSE]
    ELSE LET m == Head(st.mq)
         IN  [st EXCEPT !.mq = Tail(@),
                        !.count = IF st.single THEN m.count ELSE 2 * m.count,
                        !.position = IF m.dir THEN Wrap(m.count - @)
                                     ELSE Wrap(@ + m.count),
                        !.dir_pin = IF m.dir THEN ~@ ELSE @,
                        !.to = m.to]

\* Steps of the running move that are not made yet.
Remaining(st) == IF st.single THEN st.count ELSE st.count \div 2

\* stepper_get_position(): the top bit says that the axis runs backwards.
GetPosition(st) ==
    LET position == Wrap(st.position - Remaining(st))
    IN  IF position >= 2 * Bias THEN Wrap(-position) ELSE position

\* stepper_stop(): the steps not made are taken back, the queue is emptied (its
\* nodes go back to the pool).
Halted(st) ==
    [st EXCEPT !.position = Wrap(-GetPosition(st)), !.count = 0, !.mq = <<>>,
               !.to = st.at, !.halted = TRUE]

\* A mutant: the stop leaves the step pin as it is.
StopKeepsPin(st) ==
    [Halted(st) EXCEPT !.timer = FALSE, !.last_dir = FALSE, !.next_dir = FALSE,
                       !.need_reset = TRUE, !.dir_pin = FALSE]

\* A mutant: the stop keeps the direction of the last queued move.
StopKeepsDir(st) ==
    [Halted(st) EXCEPT !.timer = FALSE, !.next_dir = FALSE,
                       !.need_reset = TRUE, !.dir_pin = FALSE,
                       !.step_pin = IF st.single THEN @ ELSE FALSE]

\* A mutant: the stop does not ask for a new step clock, so that moves already
\* sent are run.
StopNoReset(st) ==
    [Halted(st) EXCEPT !.timer = FALSE, !.last_dir = FALSE, !.next_dir = FALSE,
                       !.dir_pin = FALSE,
                       !.step_pin = IF st.single THEN @ ELSE FALSE]

\* stepper_stop() with the timer, the flags and the pins.
Stop(st) ==
    [Halted(st) EXCEPT !.timer = FALSE, !.last_dir = FALSE, !.next_dir = FALSE,
                       !.need_reset = TRUE, !.dir_pin = FALSE,
                       !.step_pin = IF st.single THEN @ ELSE FALSE]

\* move_queue_clear(), as stepper_shutdown() calls it before the stop: the
\* nodes are left to move_reset().
KeepQueue(st) == st  \* a mutant
ClearQueue(st) == [st EXCEPT !.mq = <<>>]

Queued(st, n) == \E i \in DOMAIN st.mq : st.mq[i].node = n

\* A mutant: the nodes of a stopped stepper are forgotten.
FreeNone(pool, sts, S) == pool

\* The pool after the queues of the steppers in S were given back.
FreeQueues(pool, sts, S) ==
    [n \in Moves |-> pool[n] + Cardinality({s \in S : Queued(sts[s], n)})]

\* move_reset()
AllFree == [n \in Moves |-> 1]

\* sched_shutdown() from the middle of a command or an interrupt: the longjmp
\* drops a queue_step that holds a node; run_shutdown() calls move_reset(),
\* stepper_shutdown() and trsync_shutdown() in the order the build gives them.
Shutdown(sts) ==
    LET cleared == [s \in Steppers |-> ClearQueue(sts[s])]
    IN  /\ is_shutdown' = TRUE /\ cmd' = {}
        /\ stepper' = [s \in Steppers |->
                         [Stop(cleared[s]) EXCEPT !.signal = FALSE]]
        /\ free' \in {AllFree, FreeQueues(AllFree, cleared, Steppers)}

-----------------------------------------------------------------------------
(* Commands *)

\* Where the axis will be when the queue is empty.
Target(st) == IF st.mq = <<>> THEN st.to ELSE st.mq[Len(st.mq)].to

\* Where a further move of count steps takes it.
SentTo(st, count) == IF st.next_dir THEN Target(st) + count ELSE Target(st) - count

\* command_queue_step() up to irq_disable(): move_alloc() and the check of count.
MoveAlloc(s, count) ==
    /\ ~is_shutdown /\ cmd = {}
    /\ SentTo(stepper[s], count) \in -Travel..Travel
    /\ IF \A n \in Moves : free[n] = 0
       THEN Shutdown(stepper)  \* "Move queue overflow"
       ELSE \E n \in Moves :
              /\ free[n] > 0
              /\ IF count = 0
                 THEN Shutdown(stepper)  \* "Invalid count parameter"
                 ELSE /\ free' = [free EXCEPT ![n] = @ - 1]
                      /\ cmd' = {[s |-> s, node |-> n, count |-> count]}
                      /\ UNCHANGED <<stepper, is_shutdown>>

\* The rest of command_queue_step(), with interrupts disabled.
QueueStep ==
    \E c \in cmd :
       LET st == stepper[c.s]
           n == c.node
           m == [node |-> n, count |-> c.count,
                 dir |-> st.last_dir # st.next_dir, to |-> SentTo(st, c.count)]
           pushed == [st EXCEPT !.last_dir = st.next_dir, !.mq = Append(@, m)]
           started == [LoadNext(pushed) EXCEPT !.timer = TRUE]
       IN  \/ /\ st.count # 0
              /\ stepper' = [stepper EXCEPT ![c.s] = pushed]
              /\ cmd' = {}
              /\ UNCHANGED <<free, is_shutdown>>
           \/ /\ st.count = 0 /\ st.need_reset
              /\ free' = [free EXCEPT ![n] = @ + 1]
              /\ cmd' = {}
              /\ UNCHANGED <<stepper, is_shutdown>>
           \/ /\ st.count = 0 /\ ~st.need_reset
              /\ \/ /\ stepper' = [stepper EXCEPT ![c.s] = started]
                    /\ free' = [free EXCEPT ![n] = @ + 1]
                    /\ cmd' = {}
                    /\ UNCHANGED is_shutdown
                 \* "Timer too close"
                 \/ Shutdown([stepper EXCEPT ![c.s] = started])

\* command_set_next_step_dir()
SetNextStepDir(s, dir) ==
    /\ ~is_shutdown /\ cmd = {}
    /\ stepper' = [stepper EXCEPT ![s].next_dir = dir]
    /\ UNCHANGED <<free, cmd, is_shutdown>>

\* command_reset_step_clock()
ResetStepClock(s) ==
    /\ ~is_shutdown /\ cmd = {}
    /\ IF stepper[s].count # 0
       THEN Shutdown(stepper)
       ELSE /\ stepper' = [stepper EXCEPT ![s].need_reset = FALSE,
                                         ![s].halted = FALSE]
            /\ UNCHANGED <<free, cmd, is_shutdown>>

\* command_stepper_stop_on_trigger() and trsync_add_signal()
StopOnTrigger(s) ==
    /\ ~is_shutdown /\ cmd = {}
    /\ IF stepper[s].signal
       THEN Shutdown(stepper)
       ELSE /\ stepper' = [stepper EXCEPT ![s].signal = TRUE]
            /\ UNCHANGED <<free, cmd, is_shutdown>>

\* command_trsync_start(): trsync_clear() unregisters the signals.
TrsyncStart ==
    /\ ~is_shutdown /\ cmd = {}
    /\ stepper' = [s \in Steppers |-> [stepper[s] EXCEPT !.signal = FALSE]]
    /\ UNCHANGED <<free, cmd, is_shutdown>>

\* command_emergency_stop(), and any shutdown of another part of the firmware:
\* one in an interrupt may find a command half done.
EmergencyStop == Shutdown(stepper)

\* command_clear_shutdown(), sched_clear_shutdown()
ClearShutdown ==
    /\ cmd = {}
    /\ IF is_shutdown
       THEN /\ is_shutdown' = FALSE
            /\ UNCHANGED <<stepper, free, cmd>>
       ELSE Shutdown(stepper)

-----------------------------------------------------------------------------
(* Interrupts *)

\* The step pin is toggled; the driver steps on every edge (SF_SINGLE_SCHED)
\* or on the leading one.
Toggled(st) ==
    [st EXCEPT !.step_pin = ~@,
               !.at = IF ~st.single /\ st.step_pin THEN @
                      ELSE IF st.dir_pin THEN @ + 1 ELSE @ - 1,
               !.count = @ - 1]

\* stepper_event_edge(), stepper_event_avr() and stepper_event_full()
StepEvent(s) ==
    /\ stepper[s].timer
    /\ LET st == Toggled(stepper[s])
           loaded == LoadNext(st)
           pool == [n \in Moves |-> IF st.mq # <<>> /\ Head(st.mq).node = n
                                    THEN free[n] + 1 ELSE free[n]]
       IN  \/ /\ st.count # 0
              /\ stepper' = [stepper EXCEPT ![s] = st]
              /\ UNCHANGED <<free, cmd, is_shutdown>>
           \/ /\ st.count = 0
              /\ stepper' = [stepper EXCEPT ![s] = loaded]
              /\ free' = pool
              /\ UNCHANGED <<cmd, is_shutdown>>
           \* "Stepper too far in past"
           \/ /\ st.count = 0 /\ ~st.single /\ st.mq # <<>>
              /\ Shutdown([stepper EXCEPT ![s] = loaded])

\* trsync_do_trigger(): every registered stepper stops.
Trigger ==
    LET S == {s \in Steppers : stepper[s].signal}
    IN  /\ S # {}
        /\ stepper' = [s \in Steppers |->
                         IF s \in S THEN [Stop(stepper[s]) EXCEPT !.signal = FALSE]
                         ELSE stepper[s]]
        /\ free' = FreeQueues(free, stepper, S)
        /\ UNCHANGED <<cmd, is_shutdown>>

-----------------------------------------------------------------------------
\* command_config_stepper() and the reset_step_clock of the configuration.
Init ==
    /\ stepper = [s \in Steppers |->
         [count |-> 0, position |-> Wrap(-Bias), mq |-> <<>>,
          last_dir |-> FALSE, next_dir |-> FALSE, need_reset |-> FALSE,
          timer |-> FALSE, signal |-> FALSE, dir_pin |-> FALSE,
          step_pin |-> FALSE, at |-> 0, to |-> 0, halted |-> FALSE,
          single |-> s \in SingleSched]]
    /\ free = AllFree
    /\ cmd = {}
    /\ is_shutdown = FALSE

Next ==
    \/ \E s \in Steppers :
         \/ \E count \in Counts : MoveAlloc(s, count)
         \/ \E dir \in BOOLEAN : SetNextStepDir(s, dir)
         \/ ResetStepClock(s) \/ StopOnTrigger(s) \/ StepEvent(s)
    \/ QueueStep \/ TrsyncStart \/ EmergencyStop \/ ClearShutdown \/ Trigger

Spec == Init /\ [][Next]_vars

\* Timer interrupts are not masked for ever and the main task goes on.
Fairness == WF_vars(QueueStep) /\ \A s \in Steppers : WF_vars(StepEvent(s))

FairSpec == Spec /\ Fairness

-----------------------------------------------------------------------------
(* Properties *)

\* The types of the firmware's variables; a stepper is on the timer list
\* exactly while it has steps to make, so that no timer is added twice.
TypeOK ==
    /\ stepper \in [Steppers -> StepperStates]
    /\ free \in [Moves -> Nat]
    /\ cmd \subseteq [s : Steppers, node : Moves, count : Nat \ {0}]
    /\ is_shutdown \in BOOLEAN
    /\ \A s \in Steppers : stepper[s].timer <=> stepper[s].count # 0

\* Who has node n: the free list, the command at work, a place in a queue.
Holders(n) ==
    {<<"free", k>> : k \in 1..free[n]}
      \cup {<<"cmd", c.s>> : c \in {x \in cmd : x.node = n}}
      \cup UNION {{<<"queue", s, i>> :
                     i \in {j \in DOMAIN stepper[s].mq : stepper[s].mq[j].node = n}}
                  : s \in Steppers}

\* No node of the pool is ever lost, or handed out twice: after any stop,
\* drop, overflow or shutdown, whatever it interrupted, each node has exactly
\* one holder.
MovesConserved == \A n \in Moves : \E h \in Holders(n) : Holders(n) = {h}

\* What stepper_get_position reports is the number of steps the motor really
\* made, also in the middle of a move and after a stop in the middle of a pulse.
PositionIsReal ==
    \A s \in Steppers : GetPosition(stepper[s]) - Bias = stepper[s].at

\* The axis goes where queue_step and set_next_step_dir sent it: what remains of
\* the running move, in the direction of the pin, ends at the place intended.
ArrivesWhereSent ==
    \A s \in Steppers :
      LET st == stepper[s]
      IN  st.to = IF st.dir_pin THEN st.at + Remaining(st) ELSE st.at - Remaining(st)

\* Once stopped, a stepper does not move until its clock is reset, though
\* moves sent before the host learned of the stop still arrive.
HaltedUntilReset ==
    [][\A s \in Steppers : stepper[s].halted
                            => stepper'[s].at = stepper[s].at]_vars

\* Every node comes back to the pool, so that the host may go on sending.
MovesReturn == \A n \in Moves : free[n] = 0 ~> free[n] # 0
=============================================================================
