------------------------------- MODULE ToolHead -------------------------------
(***************************************************************************)
(* The tool head (toolhead.cpp): when the moves of the look-ahead queue    *)
(* get their times, when steps are generated from them, and when the steps *)
(* are sent to the micro-controllers.  One greenlet executes commands (the *)
(* mutex of the G-code dispatch admits no second one); the flush and the   *)
(* priming timers run while it pauses.  A step of the model is what a      *)
(* greenlet or a timer does between two calls of reactor->pause().         *)
(*                                                                         *)
(* Times are integers, and the reactor's clock is the estimated print time *)
(* of the main micro-controller.  The reactor is late by at most Latency.  *)
(* What a move is made of is left out: the queue is a number of moves, the *)
(* time they take is chosen when they are processed.                       *)
(***************************************************************************)
EXTENDS Integers

CONSTANTS
    BUFFER_TIME_LOW, BUFFER_TIME_HIGH, BUFFER_TIME_START,
    BGFLUSH_LOW_TIME, BGFLUSH_BATCH_TIME, BGFLUSH_EXTRA_TIME,
    MIN_KIN_TIME, STEPCOMPRESS_FLUSH_TIME,
    DRIP_SEGMENT_TIME, DRIP_TIME, CHECK_PAUSE_TIME,
    HOMING_START_DELAY,
    MAX_PAUSE,      \* the longest pause of _check_pause(), 1 s
    SLACK,          \* what _check_pause() adds to the next check, 0.1 s
    KinDelays,      \* the delays of step generation (input shaper, pressure advance)
    Latency,        \* how late the reactor runs a timer or a greenlet at most
    NEVER,          \* reactor->NEVER
    MaxMove,        \* bound: the time of one move
    MaxQueue,       \* bound: the moves in the look-ahead queue
    MaxTime         \* bound: the end of time, and of the times given to moves

ASSUME TimesAssumption ==
    /\ \A t \in {BUFFER_TIME_LOW, BUFFER_TIME_HIGH, BUFFER_TIME_START,
                 BGFLUSH_LOW_TIME, BGFLUSH_BATCH_TIME, BGFLUSH_EXTRA_TIME,
                 MIN_KIN_TIME, STEPCOMPRESS_FLUSH_TIME, DRIP_SEGMENT_TIME,
                 DRIP_TIME, CHECK_PAUSE_TIME, HOMING_START_DELAY, MAX_PAUSE, SLACK,
                 Latency, NEVER,
                 MaxMove, MaxQueue, MaxTime} : t \in Nat
    /\ DRIP_SEGMENT_TIME > 0 /\ MAX_PAUSE > 0 /\ BGFLUSH_BATCH_TIME > 0
    /\ KinDelays \subseteq Nat \ {0} /\ KinDelays # {}
    /\ MaxTime < NEVER /\ MaxQueue > 0

\* How far _calc_print_time() can move print_time beyond itself and MaxTime, and with
\* it the latest time that a command which starts before MaxTime can reach.
Lead == BUFFER_TIME_START + MIN_KIN_TIME + BGFLUSH_LOW_TIME + BGFLUSH_BATCH_TIME
          + 2 * BUFFER_TIME_LOW
Horizon == MaxTime + 4 * Lead + 2 * (MaxQueue * MaxMove) + HOMING_START_DELAY
             + BUFFER_TIME_LOW + MaxMove

\* reactor->NEVER is later than any time that is computed (the code has 9999999999999999 s).
ASSUME NeverAssumption == Horizon + BUFFER_TIME_LOW + CHECK_PAUSE_TIME < NEVER

\* The margins of the code are larger than what the reactor may be late.
ASSUME LatencyAssumption ==
    /\ Latency <= DRIP_TIME /\ Latency <= BGFLUSH_LOW_TIME /\ Latency <= BUFFER_TIME_START
    /\ \A kin \in KinDelays : kin + STEPCOMPRESS_FLUSH_TIME + Latency <= BUFFER_TIME_LOW

VARIABLES
    th,         \* the members of ToolHead that carry its control; "Main" stands for
                \* the empty special_queuing_state
    est,        \* mcu->estimated_print_time(get_monotonic())
    cmd,        \* the greenlet of the commands: where it is, when it wakes
    triggered,  \* drip_completion->test(): an endstop has triggered
    can_pause,  \* FALSE once _handle_shutdown() ran: lookahead is null as well
    crashed     \* the process has dereferenced the null pointer

vars == <<th, est, cmd, triggered, can_pause, crashed>>

Idle == [at |-> "idle", wake |-> NEVER, end |-> 0, start |-> 0]

\* generated and unsent are not in the code: the time up to which steps were
\* generated, and the units of time with motion whose steps are not yet sent.
Init ==
    /\ th \in [special : {"NeedPrime"}, need_check : {-1}, print : {0},
               last_flush : {0}, need_flush : {0}, step_gen : {0},
               min_restart : {0}, kick : {TRUE}, flush_timer : {NEVER},
               priming_timer : {NEVER}, queue : {0}, kin : KinDelays,
               generated : {0}, unsent : {{}}]
    /\ est = 0 /\ cmd = Idle
    /\ triggered = FALSE /\ can_pause = TRUE /\ crashed = FALSE

Larger(a, b) == IF a >= b THEN a ELSE b
Smaller(a, b) == IF a <= b THEN a ELSE b

-----------------------------------------------------------------------------
(* What the methods do to the members (h is a value of th).                 *)

\* Generate steps and send them up to time t.  Steps are generated a little
\* further than they are sent, but not into moves that may still change.
_advance_flush_time(h, t) ==
    LET flush == Larger(t, h.last_flush)
        sg == Larger(Smaller(flush + STEPCOMPRESS_FLUSH_TIME, h.print - h.kin), flush)
    IN  [h EXCEPT !.last_flush = flush,
                  !.min_restart = Larger(@, sg),
                  !.generated = Larger(@, sg),
                  !.unsent = {s \in @ : s >= flush}]

\* The batches of MOVE_BATCH_TIME reach the same times in the end.
_advance_move_time(h, t) ==
    LET print == Larger(h.print, t)
    IN  _advance_flush_time([h EXCEPT !.print = print],
                            print - h.kin - STEPCOMPRESS_FLUSH_TIME)

\* Mutant: the steps that are generated already are not considered.
_calc_print_time_early(h) ==
    [h EXCEPT !.print = Larger(@, Larger(est + BUFFER_TIME_START,
                                         est + MIN_KIN_TIME + h.kin))]

_calc_print_time(h) ==
    LET kin_time == Larger(est + MIN_KIN_TIME, h.min_restart) + h.kin
    IN  [h EXCEPT !.print = Larger(@, Larger(est + BUFFER_TIME_START, kin_time))]

note_mcu_movequeue_activity(h, t, set_step_gen_time) ==
    [h EXCEPT !.need_flush = Larger(@, t),
              !.step_gen = IF set_step_gen_time THEN Larger(@, t) ELSE @,
              !.flush_timer = IF h.kick THEN est ELSE @,
              !.kick = FALSE]

\* Moves that take time t together are given their times.
trapq_append(h, t) == [h EXCEPT !.unsent = @ \cup h.print..(h.print + t - 1)]

\* _process_moves() outside of "Drip".
_process_moves(h, t) ==
    LET p == trapq_append(IF h.special = "Main" THEN h
                    ELSE _calc_print_time([h EXCEPT !.special = "Main", !.need_check = -1]), t)
    IN  _advance_move_time(
            note_mcu_movequeue_activity(p, p.print + t + p.kin, TRUE), p.print + t)

\* lookahead->flush(): all n moves of the queue, which take time t.
flush(h, t) ==
    IF h.queue = 0 THEN h ELSE _process_moves([h EXCEPT !.queue = 0], t)

_flush_lookahead(h, t) ==
    [flush(h, t) EXCEPT !.special = "NeedPrime", !.need_check = -1]

flush_step_generation(h, t) ==
    LET f == _flush_lookahead(h, t)
    IN  [_advance_flush_time(f, f.step_gen) EXCEPT !.min_restart = Larger(@, f.print)]

get_last_move_time(h, t) ==
    IF h.special = "Main" THEN flush(h, t) ELSE _calc_print_time(_flush_lookahead(h, t))

\* The times that the queued moves may take together.
Times(n) == n..(n * MaxMove)

-----------------------------------------------------------------------------
(* The greenlet of the commands.                                            *)

\* A method of the look-ahead queue is called although _handle_shutdown() has
\* dropped the queue.
Crash ==
    /\ ~can_pause
    /\ crashed' = TRUE
    /\ UNCHANGED <<th, est, cmd, triggered, can_pause>>

\* A step that needs the queue.  After a shutdown the dispatch of the G-codes
\* starts no command.
Uses(h, c) ==
    /\ can_pause
    /\ th' = h /\ cmd' = c
    /\ UNCHANGED <<est, can_pause, crashed>>

Start == cmd.at = "idle" /\ th.print < MaxTime

\* The first part of _check_pause(): outside of the main state, the priming
\* timer flushes the queue when no further move comes in time.
Prime(h) ==
    IF h.special = "Main" THEN h
    ELSE [h EXCEPT !.special = "Priming", !.need_check = -1,
                   !.priming_timer = est + Larger(CHECK_PAUSE_TIME,
                                                  h.print - est - BUFFER_TIME_LOW)]

\* The loop of _check_pause() at one of its turns: the members and the
\* greenlet after it; at is where the greenlet pauses.
MustPause(h) == h.print - est > BUFFER_TIME_HIGH
Pausing(h, at) ==
    [Idle EXCEPT !.at = at,
                 !.wake = est + Smaller(MAX_PAUSE, h.print - est - BUFFER_TIME_HIGH)]
Checked(h) ==
    IF h.special = "Main" /\ ~MustPause(h)
    THEN [h EXCEPT !.need_check = est + BUFFER_TIME_HIGH + SLACK]
    ELSE h

_check_pause(h) ==
    Uses(Checked(Prime(h)), IF MustPause(h) THEN Pausing(h, "check_pause") ELSE Idle)

\* A move joins the queue; n of the moves before it may be processed (a lazy
\* flush keeps at least the last move).
move(n, t) ==
    LET added == [th EXCEPT !.queue = @ + 1]
        h == IF n = 0 THEN added
             ELSE _process_moves([added EXCEPT !.queue = @ - n], t)
    IN  /\ Start /\ th.queue < MaxQueue
        /\ n \in 0..th.queue /\ t \in Times(n)
        /\ IF h.print > h.need_check THEN _check_pause(h) ELSE Uses(h, Idle)
        /\ UNCHANGED triggered

dwell(t, delay) ==
    LET h == get_last_move_time(th, t)
    IN  /\ Start /\ t \in Times(th.queue)
        /\ _check_pause(_advance_move_time(h, h.print + delay))
        /\ UNCHANGED triggered

set_position(t) ==
    /\ Start /\ t \in Times(th.queue)
    /\ Uses(flush_step_generation(th, t), Idle)
    /\ UNCHANGED triggered

note_step_generation_scan_time(t, delay) ==
    /\ Start /\ t \in Times(th.queue) /\ delay # th.kin
    /\ Uses([flush_step_generation(th, t) EXCEPT !.kin = delay], Idle)
    /\ UNCHANGED triggered

\* register_lookahead_callback() with the callback of an output pin: without a
\* queued move the pin changes at get_last_move_time() (with one, at the end
\* of that move, which its own call of note_mcu_movequeue_activity() covers).
queue_request ==
    LET h == get_last_move_time(th, 0)
    IN  /\ Start /\ th.queue = 0
        /\ Uses(note_mcu_movequeue_activity(h, h.print, FALSE), Idle)
        /\ UNCHANGED triggered

\* wait_moves() looks every 0.1 s (a unit here) whether all moves are done.
Busy(h) == h.special = "Main" \/ h.print >= est
Waiting == [Idle EXCEPT !.at = "wait_moves", !.wake = est + 1]

wait_moves(t) ==
    LET h == _flush_lookahead(th, t)
    IN  /\ Start /\ t \in Times(th.queue)
        /\ Uses(h, IF Busy(h) THEN Waiting ELSE Idle)
        /\ UNCHANGED triggered

\* The greenlet wakes in wait_moves().
WaitMoves ==
    /\ cmd.at = "wait_moves" /\ est >= cmd.wake
    /\ cmd' = IF Busy(th) /\ can_pause THEN Waiting ELSE Idle
    /\ UNCHANGED <<th, est, triggered, can_pause, crashed>>

\* The greenlet wakes in _check_pause().
CheckPause ==
    /\ cmd.at = "check_pause" /\ est >= cmd.wake
    /\ IF MustPause(th)
       THEN IF can_pause
            THEN th' = th /\ cmd' = Pausing(th, "check_pause")
            ELSE th' = [th EXCEPT !.need_check = NEVER] /\ cmd' = Idle
       ELSE th' = Checked(th) /\ cmd' = Idle
    /\ UNCHANGED <<est, triggered, can_pause, crashed>>

-----------------------------------------------------------------------------
(* Homing moves: drip_move() sends the steps in small segments, so that     *)
(* little is under way when the endstop triggers.                           *)

\* Mutant: the background flushing goes on.
DripFlushing(h) == [h EXCEPT !.special = "Drip", !.need_check = NEVER]

\* After the dwell(kin_flush_delay) of drip_move(), the queue being empty, the
\* background flushing is turned off.
Drip(h) == [h EXCEPT !.special = "Drip", !.need_check = NEVER,
                     !.flush_timer = NEVER, !.kick = FALSE]

\* Mutant: the background flushing is not turned on again.
DripEndNoTimer(h) == flush_step_generation(h, 0)

\* Leaving "Drip": the background flushing goes on.
DripEnd(h) == flush_step_generation([h EXCEPT !.flush_timer = est], 0)

\* drip_move() after the dwell: the one move, of time t, is given its time; a
\* move that is refused (CommandError) or has no length ends it at once.
DripStart(h, t) ==
    LET p == _calc_print_time(Drip(h))
    IN  \/ Uses([trapq_append(p, t) EXCEPT !.queue = 1],
                [at |-> "drip", wake |-> NEVER, end |-> p.print + t, start |-> p.generated])
        \/ Uses(DripEnd(Drip(h)), Idle)

\* dwell() up to its _check_pause(), while the queue is empty.
Dwell(h, delay) ==
    LET g == get_last_move_time(h, 0) IN _advance_move_time(g, g.print + delay)

drip_move(h, dt) ==
    LET d == Dwell(h, h.kin)
    IN  IF MustPause(d) THEN Uses(Prime(d), Pausing(d, "drip_dwell"))
        ELSE DripStart(Prime(d), dt)

\* homing_move(), the only caller of drip_move(): the endstop starts to sample at
\* get_last_move_time(), and the move follows HOMING_START_DELAY later.
homing_move(t, dt) ==
    LET h == Dwell(flush_step_generation(th, t), HOMING_START_DELAY)
    IN  /\ Start /\ t \in Times(th.queue) /\ dt \in 1..MaxMove
        /\ IF MustPause(h) THEN Uses(Prime(h), Pausing(h, "homing_dwell"))
           ELSE drip_move(Prime(h), dt)
        /\ triggered' = FALSE

\* The greenlet wakes in one of the two calls of dwell().
HomingDwell(dt) ==
    /\ cmd.at = "homing_dwell" /\ est >= cmd.wake /\ dt \in 1..MaxMove
    /\ IF MustPause(th) THEN Uses(th, Pausing(th, "homing_dwell")) ELSE drip_move(th, dt)
    /\ UNCHANGED triggered

DripDwell(dt) ==
    /\ cmd.at = "drip_dwell" /\ est >= cmd.wake /\ dt \in 1..MaxMove
    /\ IF MustPause(th) THEN Uses(th, Pausing(th, "drip_dwell")) ELSE DripStart(th, dt)
    /\ UNCHANGED triggered

\* After a shutdown it goes on without a queue.
DwellCrash == cmd.at \in {"homing_dwell", "drip_dwell"} /\ est >= cmd.wake /\ Crash

\* The loop of _update_drip_move_time() takes a turn: at once, or after a wait
\* that the time or drip_completion ends.
InDrip == cmd.at \in {"drip", "drip_wait"}
DripTurn == \/ cmd.at = "drip"
            \/ cmd.at = "drip_wait" /\ (est >= cmd.wake \/ triggered)

DripAhead == th.print - est - (DRIP_TIME + STEPCOMPRESS_FLUSH_TIME + th.kin)

DripWait ==
    /\ DripTurn /\ th.print < cmd.end /\ ~triggered
    /\ DripAhead > 0
    /\ Uses(th, [cmd EXCEPT !.at = "drip_wait", !.wake = est + DripAhead])
    /\ UNCHANGED triggered

DripSegment ==
    LET npt == Smaller(th.print + DRIP_SEGMENT_TIME, cmd.end)
    IN  /\ DripTurn /\ th.print < cmd.end /\ ~triggered
        /\ DripAhead <= 0
        /\ Uses(_advance_move_time(note_mcu_movequeue_activity(th, npt + th.kin, TRUE), npt),
                [cmd EXCEPT !.at = "drip", !.wake = NEVER])
        /\ UNCHANGED triggered

\* drip_completion->test() ends the move: what is not generated is taken out of
\* the trapq.
DripTriggered ==
    /\ DripTurn /\ th.print < cmd.end /\ triggered
    /\ Uses(DripEnd([th EXCEPT !.queue = 0,
                               !.unsent = {s \in @ : s < th.generated}]), Idle)
    /\ UNCHANGED triggered

\* The whole move is sent: the rest of _process_moves() and of drip_move().
DripComplete ==
    /\ cmd.at = "drip" /\ th.print >= cmd.end
    /\ Uses(DripEnd([_advance_move_time(
                        note_mcu_movequeue_activity(th, cmd.end + th.kin, TRUE), cmd.end)
                     EXCEPT !.queue = 0]), Idle)
    /\ UNCHANGED triggered

\* After a shutdown the loop does not wait, and ends in a queue that is gone.
DripCrash == DripTurn /\ Crash

\* An endstop triggers, or its micro-controller lost the other ones.
Trigger ==
    /\ cmd.at \in {"homing_dwell", "drip_dwell", "drip", "drip_wait"} /\ ~triggered
    /\ triggered' = TRUE
    /\ UNCHANGED <<th, est, cmd, can_pause, crashed>>

-----------------------------------------------------------------------------
(* The timers.                                                              *)

\* Mutant: the handler comes back only when everything that was sent is over.
RestLong(h) ==
    LET end == h.need_flush + BGFLUSH_EXTRA_TIME
    IN  IF h.last_flush >= end THEN [h EXCEPT !.kick = TRUE, !.flush_timer = NEVER]
        ELSE [h EXCEPT !.flush_timer = h.last_flush]

\* The loop of _flush_handler(): send what is due soon and come back for the
\* rest; stop EXTRA_TIME after the last activity.
Rest(h) ==
    LET end == h.need_flush + BGFLUSH_EXTRA_TIME
    IN  IF h.last_flush >= end THEN [h EXCEPT !.kick = TRUE, !.flush_timer = NEVER]
        ELSE [h EXCEPT !.flush_timer = h.last_flush - BGFLUSH_LOW_TIME]

Background(h) ==
    LET end == h.need_flush + BGFLUSH_EXTRA_TIME
    IN  IF h.last_flush >= end \/ h.last_flush - est > BGFLUSH_LOW_TIME THEN Rest(h)
        ELSE Rest(_advance_flush_time(h,
                     Smaller(end, est + BGFLUSH_LOW_TIME + BGFLUSH_BATCH_TIME)))

\* In the main state the queue is flushed once little is left in the buffer.
FlushHandler(t) ==
    /\ est >= th.flush_timer /\ t \in Times(th.queue)
    /\ \/ /\ th.special = "Main" /\ th.print - est > BUFFER_TIME_LOW
          /\ th' = [th EXCEPT !.flush_timer = th.print - BUFFER_TIME_LOW]
       \/ /\ th.special = "Main" /\ th.print - est <= BUFFER_TIME_LOW /\ can_pause
          /\ th' = Background(_flush_lookahead(th, t))
       \/ /\ th.special # "Main"
          /\ th' = Background(th)
    /\ UNCHANGED <<est, cmd, triggered, can_pause, crashed>>

FlushHandlerCrash ==
    /\ est >= th.flush_timer /\ th.special = "Main" /\ th.print - est <= BUFFER_TIME_LOW
    /\ Crash

PrimingHandler(t) ==
    /\ est >= th.priming_timer /\ t \in Times(th.queue)
    /\ \/ th.special = "Priming" /\ can_pause /\ th' = _flush_lookahead([th EXCEPT !.priming_timer = NEVER], t)
       \/ th.special # "Priming" /\ th' = [th EXCEPT !.priming_timer = NEVER]
    /\ UNCHANGED <<est, cmd, triggered, can_pause, crashed>>

PrimingHandlerCrash == est >= th.priming_timer /\ th.special = "Priming" /\ Crash

_handle_shutdown ==
    /\ can_pause
    /\ can_pause' = FALSE
    /\ UNCHANGED <<th, est, cmd, triggered, crashed>>

\* Time passes, but nothing that is due waits for more than Latency.
Tick ==
    /\ est < MaxTime /\ cmd.at # "drip"
    /\ \A due \in {th.flush_timer, th.priming_timer, cmd.wake} : est < due + Latency
    /\ est' = est + 1
    /\ UNCHANGED <<th, cmd, triggered, can_pause, crashed>>

Command ==
    \/ \E n \in 0..MaxQueue, t \in 0..(MaxQueue * MaxMove) : move(n, t)
    \/ \E t \in 0..(MaxQueue * MaxMove), delay \in {0, MaxMove} : dwell(t, delay)
    \/ \E t \in 0..(MaxQueue * MaxMove) : set_position(t)
    \/ \E t \in 0..(MaxQueue * MaxMove), d \in KinDelays : note_step_generation_scan_time(t, d)
    \/ queue_request
    \/ \E t \in 0..(MaxQueue * MaxMove) : wait_moves(t)
    \/ \E t \in 0..(MaxQueue * MaxMove), dt \in 1..MaxMove : homing_move(t, dt)

Greenlet ==
    \/ WaitMoves \/ CheckPause
    \/ \E dt \in 1..MaxMove : HomingDwell(dt) \/ DripDwell(dt)
    \/ DripWait \/ DripSegment \/ DripComplete \/ DripTriggered
    \/ DwellCrash \/ DripCrash

Timers ==
    \/ \E t \in 0..(MaxQueue * MaxMove) : FlushHandler(t)
    \/ \E t \in 0..(MaxQueue * MaxMove) : PrimingHandler(t)
    \/ FlushHandlerCrash \/ PrimingHandlerCrash

Next == ~crashed /\ (Command \/ Greenlet \/ Timers \/ Trigger \/ _handle_shutdown \/ Tick)

Spec == Init /\ [][Next]_vars

-----------------------------------------------------------------------------
(* Properties                                                               *)

\* The types of the variables; the state is "Drip" only within drip_move(), or
\* every later move would wait for a completion that is over.
Members == [special : {"Main", "NeedPrime", "Priming", "Drip"}, need_check : Int,
            print : Nat, last_flush : Nat, need_flush : Nat, step_gen : Nat,
            min_restart : Nat, kick : BOOLEAN, flush_timer : Int,
            priming_timer : Int, queue : 0..MaxQueue, kin : KinDelays,
            generated : Nat, unsent : SUBSET Nat]

TypeOK ==
    /\ th \in Members
    /\ est \in 0..MaxTime
    /\ cmd \in [at : {"idle", "check_pause", "wait_moves", "homing_dwell", "drip_dwell",
                      "drip", "drip_wait"},
                wake : Nat, end : Nat, start : Nat]
    /\ triggered \in BOOLEAN /\ can_pause \in BOOLEAN /\ crashed \in BOOLEAN
    /\ th.special = "Drip" <=> InDrip

\* New moves start no earlier than the steps generated so far reach: steps are
\* generated in the order of time, and read the motion kin_flush_delay ahead.
StepsInOrder ==
    [][\A s \in th'.unsent \ th.unsent : s >= th.generated + th.kin]_vars

\* The steps of a move are sent before they are due, however late the reactor
\* is within its bound.
SentInTime == can_pause => \A s \in th.unsent : s >= est

\* What is queued or not yet sent is awaited by a timer or by the greenlet.
NothingForgotten ==
    can_pause =>
      /\ th.queue > 0 =>
           \/ th.special = "Main" /\ th.flush_timer # NEVER
           \/ th.special = "Priming" /\ th.priming_timer # NEVER
           \/ InDrip
      /\ th.unsent # {} => th.flush_timer # NEVER \/ InDrip

\* While homing, steps are generated only a short time ahead of the tool.
DripIsShort ==
    InDrip =>
      th.generated <= Larger(cmd.start, est + DRIP_TIME + STEPCOMPRESS_FLUSH_TIME
                                            + DRIP_SEGMENT_TIME)
=============================================================================
