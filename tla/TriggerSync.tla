---------------------------- MODULE TriggerSync ----------------------------
(***************************************************************************)
(* Homing with an endstop and steppers on several micro-controllers: the   *)
(* firmware's trsync and endstop objects (src/trsync.c, src/endstop.c),    *)
(* the host's fast dispatch of triggers in the serial threads              *)
(* (elegoo/chelper/trdispatch.c), and the host's MCU_trsync,               *)
(* TriggerDispatch and MCU_endstop (elegoo/mcu.cpp).                       *)
(*                                                                         *)
(* Commands reach a micro-controller in order and exactly once (module     *)
(* SerialLink) but arbitrarily late; messages to the host arrive in order, *)
(* late, or not at all.  All clocks show the time now: the conversion      *)
(* between the clocks of the micro-controllers is taken to be exact.       *)
(***************************************************************************)
EXTENDS Integers, Sequences, FiniteSets

CONSTANTS Sizes,        \* how many micro-controllers the axes to home may have
          Lead,         \* how far print_time is ahead of now at the start
          Expire,       \* expire_ticks, for each of the sizes
          Report,       \* report_ticks
          MinExtend,    \* min_extend_ticks
          MoveTicks,    \* duration of the homing move
          SampleCount,  \* matching samples the endstop wants
          Retries,      \* retries of a query without response
          MaxTime,      \* bound: time
          MaxCmds,      \* bound: commands under way when a message is read
          MaxMsgs,      \* bound: messages under way when a report is sent
          MaxLoss,      \* bound: messages to the host lost
          MaxRounds,    \* bound: homing moves
          MaxShutdowns  \* bound: spontaneous shutdowns

ASSUME SyncAssumption ==
    /\ Sizes \subseteq Nat \ {0} /\ Lead \in Nat
    /\ Expire \in [Sizes -> Nat \ {0}] /\ Report \in [Sizes -> Nat \ {0}]
    /\ MinExtend \in [Sizes -> Nat \ {0}]
    /\ MoveTicks \in Nat \ {0} /\ SampleCount \in [Sizes -> Nat \ {0}]
    /\ Retries \in Nat /\ MaxCmds \in Nat
    /\ MaxTime \in [Sizes -> Nat] /\ MaxMsgs \in [Sizes -> Nat]
    /\ MaxLoss \in [Sizes -> Nat] /\ MaxRounds \in [Sizes -> Nat]
    /\ MaxShutdowns \in [Sizes -> Nat]

VARIABLES
    n,          \* trsyncs.size(): micro-controllers; 1 has the endstop (trsyncs[0])
    now,
    \* struct trsync of every micro-controller; a time of 0 is a timer that
    \* is not queued
    can_trigger, report, trigger_reason, report_time, expire_time, signals,
    \* the stepper, the firmware's shutdown state
    moving, is_shutdown,
    \* struct endstop of micro-controller 1
    endstop_time, trigger_count,
    \* the links
    h2m, m2h,
    \* struct trdispatch and trdispatch_mcu
    td_can_trigger, td_active, last_status, expire_clock,
    \* MCU_trsync and the homing move
    pc, print_time, completion, waiting, handler, home_end_clock, todo,
    last_params, retries, reasons, result, in_shutdown,
    \* history: when the trsync stopped in this homing move, whether a query was
    \* ever given up, losses, ...
    stopped_at, given_up, lost, rounds, shutdowns

Mcus == 1..n

expire_ticks == Expire[n]
report_ticks == Report[n]
min_extend_ticks == MinExtend[n]

trsyncVars == <<can_trigger, report, trigger_reason, report_time, expire_time,
                signals, moving, stopped_at>>
endstopVars == <<endstop_time, trigger_count>>
tdVars == <<td_can_trigger, td_active, last_status, expire_clock>>
moveVars == <<pc, print_time, todo, retries, reasons, result, given_up, rounds>>
stateVars == <<completion, waiting, handler, home_end_clock, last_params,
               in_shutdown>>
vars == <<n, now, trsyncVars, is_shutdown, endstopVars, h2m, m2h, tdVars, moveVars,
          stateVars, lost, shutdowns>>

-----------------------------------------------------------------------------
(* Messages *)

ENDSTOP_HIT == 1
HOST_REQUEST == 2
PAST_END_TIME == 3
COMMS_TIMEOUT == 4

Cmd(name, arg) == [cmd |-> name, arg |-> arg]

Commands == [cmd : {"start", "stop_on_trigger", "set_timeout", "endstop_home",
                    "endstop_off", "trigger", "query", "emergency_stop"},
             arg : Nat]

\* A trsync_state message, the acknowledgement a query waits for, or the
\* message of a firmware that is shut down.
State(can, reason, clock) ==
    [kind |-> "state", can |-> can, reason |-> reason, clock |-> clock]
Ack == [kind |-> "ack", can |-> FALSE, reason |-> 0, clock |-> 0]
Shutdown == [kind |-> "shutdown", can |-> FALSE, reason |-> 0, clock |-> 0]

Messages == [kind : {"state", "ack", "shutdown"}, can : BOOLEAN,
             reason : 0..4, clock : Nat]

\* No answer to a query yet.
NoParams == -1

Send(m, msgs) == m2h' = [m2h EXCEPT ![m] = @ \o msgs]

\* Commands to every micro-controller.
Broadcast(cmds) == h2m' = [m \in Mcus |-> h2m[m] \o cmds[m]]

-----------------------------------------------------------------------------
(* Firmware: trsync *)

\* trsync_do_trigger(): only the first trigger counts; the stepper's
\* stop_signal is run and removed.
DoTrigger(m, reason) ==
    IF can_trigger[m]
    THEN /\ trigger_reason' = [trigger_reason EXCEPT ![m] = reason]
         /\ can_trigger' = [can_trigger EXCEPT ![m] = FALSE]
         /\ report' = [report EXCEPT ![m] = TRUE]
         /\ moving' = [moving EXCEPT ![m] = @ /\ ~signals[m]]
         /\ signals' = [signals EXCEPT ![m] = FALSE]
         /\ stopped_at' = [stopped_at EXCEPT ![m] = now]
    ELSE UNCHANGED <<trigger_reason, can_trigger, report, moving, signals,
                     stopped_at>>

\* The tasks of sched_shutdown(): trsync_shutdown(), stepper_shutdown(), and
\* all timers are gone.
DoShutdown(m) ==
    /\ is_shutdown' = [is_shutdown EXCEPT ![m] = TRUE]
    /\ can_trigger' = [can_trigger EXCEPT ![m] = FALSE]
    /\ report' = [report EXCEPT ![m] = FALSE]
    /\ trigger_reason' = [trigger_reason EXCEPT ![m] = 0]
    /\ report_time' = [report_time EXCEPT ![m] = 0]
    /\ expire_time' = [expire_time EXCEPT ![m] = 0]
    /\ signals' = [signals EXCEPT ![m] = FALSE]
    /\ moving' = [moving EXCEPT ![m] = FALSE]
    /\ stopped_at' = [stopped_at EXCEPT ![m] = IF @ = 0 THEN now ELSE @]
    /\ endstop_time' = IF m = 1 THEN 0 ELSE endstop_time
    /\ UNCHANGED trigger_count
    /\ Send(m, <<Shutdown>>)

\* trsync_expire_event()
ExpireEvent(m) ==
    /\ expire_time[m] # 0 /\ expire_time[m] <= now
    /\ expire_time' = [expire_time EXCEPT ![m] = 0]
    /\ DoTrigger(m, COMMS_TIMEOUT)
    /\ UNCHANGED <<n, now, report_time, is_shutdown, endstopVars, h2m, m2h,
                   tdVars, moveVars, stateVars, lost, shutdowns>>

\* trsync_report_event()
ReportEvent(m) ==
    /\ report_time[m] # 0 /\ report_time[m] <= now
    /\ report' = [report EXCEPT ![m] = TRUE]
    /\ report_time' = [report_time EXCEPT ![m] = @ + report_ticks]
    /\ UNCHANGED <<n, now, can_trigger, trigger_reason, expire_time, signals, moving,
                   stopped_at, is_shutdown, endstopVars, h2m, m2h,
                   tdVars, moveVars, stateVars, lost, shutdowns>>

\* trsync_task()
TrsyncTask(m) ==
    /\ report[m] /\ Len(m2h[m]) < MaxMsgs[n]
    /\ report' = [report EXCEPT ![m] = FALSE]
    /\ Send(m, <<State(can_trigger[m], trigger_reason[m], now)>>)
    /\ UNCHANGED <<n, now, can_trigger, trigger_reason, report_time, expire_time,
                   signals, moving, stopped_at, is_shutdown, endstopVars, h2m,
                   tdVars, moveVars, stateVars, lost, shutdowns>>

\* endstop_event() and endstop_oversample_event(): the samples of one
\* attempt are much closer than the attempts.
EndstopEvent(match) ==
    /\ endstop_time # 0 /\ endstop_time <= now
    /\ IF ~match
       THEN /\ endstop_time' = endstop_time + 1
            /\ trigger_count' = SampleCount[n]
            /\ UNCHANGED trsyncVars
       ELSE IF trigger_count > 1
       THEN /\ trigger_count' = trigger_count - 1
            /\ UNCHANGED <<endstop_time, trsyncVars>>
       ELSE /\ endstop_time' = 0
            /\ DoTrigger(1, ENDSTOP_HIT)
            /\ UNCHANGED <<trigger_count, report_time, expire_time>>
    /\ UNCHANGED <<n, now, is_shutdown, h2m, m2h, tdVars, moveVars,
                   stateVars, lost, shutdowns>>

-----------------------------------------------------------------------------
(* Firmware: commands *)

\* command_trsync_start()
TrsyncStart(m, clock) ==
    IF clock < now THEN DoShutdown(m)                 \* "Timer too close"
    ELSE /\ can_trigger' = [can_trigger EXCEPT ![m] = TRUE]
         /\ report' = [report EXCEPT ![m] = FALSE]
         /\ trigger_reason' = [trigger_reason EXCEPT ![m] = 0]
         /\ report_time' = [report_time EXCEPT ![m] = clock]
         /\ expire_time' = [expire_time EXCEPT ![m] = 0]
         /\ signals' = [signals EXCEPT ![m] = FALSE]
         /\ stopped_at' = [stopped_at EXCEPT ![m] = 0]
         /\ UNCHANGED <<moving, is_shutdown, endstopVars, m2h>>

\* command_stepper_stop_on_trigger(), trsync_add_signal(); the steps of the
\* homing move follow.
StopOnTrigger(m) ==
    IF signals[m] THEN DoShutdown(m)     \* "signal that is already active"
    ELSE /\ signals' = [signals EXCEPT ![m] = TRUE]
         /\ moving' = [moving EXCEPT ![m] = TRUE]
         /\ UNCHANGED <<can_trigger, report, trigger_reason, report_time,
                        expire_time, stopped_at, is_shutdown, endstopVars, m2h>>

\* command_trsync_set_timeout()
SetTimeout(m, clock) ==
    IF ~can_trigger[m]
    THEN UNCHANGED <<trsyncVars, is_shutdown, endstopVars, m2h>>
    ELSE IF clock < now THEN DoShutdown(m)            \* "Timer too close"
    ELSE /\ expire_time' = [expire_time EXCEPT ![m] = clock]
         /\ UNCHANGED <<can_trigger, report, trigger_reason, report_time,
                        signals, moving, stopped_at, is_shutdown, endstopVars, m2h>>

\* command_endstop_home(), with a sample_count or with 0.
EndstopHome(clock) ==
    IF clock < now THEN DoShutdown(1)                 \* "Timer too close"
    ELSE /\ endstop_time' = clock
         /\ trigger_count' = SampleCount[n]
         /\ UNCHANGED <<trsyncVars, is_shutdown, m2h>>

EndstopOff ==
    /\ endstop_time' = 0
    /\ UNCHANGED <<trigger_count, trsyncVars, is_shutdown, m2h>>

\* Mutant: the periodic report goes on.
TrsyncTriggerReporting(m, reason, ack) ==
    /\ trigger_reason' = [trigger_reason EXCEPT ![m] =
                            IF can_trigger[m] THEN reason ELSE @]
    /\ can_trigger' = [can_trigger EXCEPT ![m] = FALSE]
    /\ report' = [report EXCEPT ![m] = FALSE]
    /\ expire_time' = [expire_time EXCEPT ![m] = 0]
    /\ moving' = [moving EXCEPT ![m] = @ /\ ~(can_trigger[m] /\ signals[m])]
    /\ signals' = [signals EXCEPT ![m] = @ /\ ~can_trigger[m]]
    /\ stopped_at' = [stopped_at EXCEPT ![m] = IF can_trigger[m] THEN now ELSE @]
    /\ Send(m, <<State(FALSE, trigger_reason'[m], 0)>> \o ack)
    /\ UNCHANGED <<report_time, is_shutdown, endstopVars>>

\* command_trsync_trigger(): trigger, disable, and report the reason; "ack"
\* is there when the host waits for the acknowledgement.
TrsyncTrigger(m, reason, ack) ==
    /\ trigger_reason' = [trigger_reason EXCEPT ![m] =
                            IF can_trigger[m] THEN reason ELSE @]
    /\ can_trigger' = [can_trigger EXCEPT ![m] = FALSE]
    /\ report' = [report EXCEPT ![m] = FALSE]
    /\ report_time' = [report_time EXCEPT ![m] = 0]
    /\ expire_time' = [expire_time EXCEPT ![m] = 0]
    /\ moving' = [moving EXCEPT ![m] = @ /\ ~(can_trigger[m] /\ signals[m])]
    /\ signals' = [signals EXCEPT ![m] = @ /\ ~can_trigger[m]]
    /\ stopped_at' = [stopped_at EXCEPT ![m] = IF can_trigger[m] THEN now ELSE @]
    /\ Send(m, <<State(FALSE, trigger_reason'[m], 0)>> \o ack)
    /\ UNCHANGED <<is_shutdown, endstopVars>>

\* command_dispatch() of the next command.
ProcessCommand(m) ==
    /\ h2m[m] # <<>>
    /\ LET c == Head(h2m[m])
           ack == IF c.cmd = "query" THEN <<Ack>> ELSE <<>>
       IN  IF is_shutdown[m] \/ c.cmd = "emergency_stop"
           THEN IF is_shutdown[m]
                THEN /\ Send(m, <<Shutdown>> \o ack)
                     /\ UNCHANGED <<trsyncVars, is_shutdown, endstopVars>>
                ELSE DoShutdown(m)
           ELSE \/ c.cmd = "start" /\ TrsyncStart(m, c.arg)
                \/ c.cmd = "stop_on_trigger" /\ StopOnTrigger(m)
                \/ c.cmd = "set_timeout" /\ SetTimeout(m, c.arg)
                \/ c.cmd = "endstop_home" /\ EndstopHome(c.arg)
                \/ c.cmd = "endstop_off" /\ EndstopOff
                \/ c.cmd \in {"trigger", "query"}
                     /\ TrsyncTrigger(m, c.arg, ack)
    /\ h2m' = [h2m EXCEPT ![m] = Tail(@)]
    /\ UNCHANGED <<n, now, tdVars, moveVars, stateVars, lost,
                   shutdowns>>

\* Any other part of the firmware calls shutdown().
McuShutdown(m) ==
    /\ shutdowns < MaxShutdowns[n] /\ ~is_shutdown[m]
    /\ shutdowns' = shutdowns + 1
    /\ DoShutdown(m)
    /\ UNCHANGED <<n, now, h2m, tdVars, moveVars, stateVars, lost>>

-----------------------------------------------------------------------------
(* Host: the serial threads *)

\* The first micro-controller with the oldest status (min_tdm), its status
\* and the oldest of the others (next_min_time).
MinMcu(status) ==
    CHOOSE m \in Mcus : \A k \in Mcus :
      status[m] < status[k] \/ (status[m] = status[k] /\ m <= k)

NextMin(status) ==
    LET rest == {status[k] : k \in Mcus \ {MinMcu(status)}}
    IN  IF rest = {} THEN status[MinMcu(status)]
        ELSE CHOOSE t \in rest : \A u \in rest : t <= u

\* Mutant: a micro-controller keeps itself alive.
StatusTimeOwn(m, status) == status[m]

\* The time up to which all other micro-controllers are known to be fine.
StatusTime(m, status) ==
    IF m = MinMcu(status) THEN NextMin(status) ELSE status[MinMcu(status)]

\* handle_trsync_state() of trdispatch.c, called by the thread that reads
\* the link while the fastreader is registered: the commands it sends ...
Fast(f) == td_active /\ td_can_trigger /\ f.kind = "state"

NewStatus(m, f) == [last_status EXCEPT ![m] = f.clock]

NewExpire(k, status) == StatusTime(k, status) + expire_ticks

Extends(k, status) == NewExpire(k, status) - expire_clock[k] >= min_extend_ticks

FastCommands(m, f, k) ==
    IF ~Fast(f) THEN <<>>
    ELSE IF ~f.can THEN <<Cmd("trigger", HOST_REQUEST)>>
    ELSE IF Extends(k, NewStatus(m, f))
    THEN <<Cmd("set_timeout", NewExpire(k, NewStatus(m, f)))>> ELSE <<>>

\* ... and what it remembers.
FastReader(m, f) ==
    IF Fast(f) /\ f.can
    THEN /\ last_status' = NewStatus(m, f)
         /\ expire_clock' = [k \in Mcus |->
                               IF Extends(k, NewStatus(m, f))
                               THEN NewExpire(k, NewStatus(m, f))
                               ELSE expire_clock[k]]
         /\ UNCHANGED <<td_can_trigger, td_active>>
    ELSE /\ td_can_trigger' = (td_can_trigger /\ ~Fast(f))
         /\ UNCHANGED <<td_active, last_status, expire_clock>>

\* MCU_trsync::handle_trsync_state(): the state of a trsync that stopped.
Triggered(m, f) == handler[m] = "trsync" /\ ~f.can /\ waiting[m]

\* A trsync_state is read from the link.  After the fastreader the serialhdl
\* thread hands it to its handler: that of the homing move
\* (MCU_trsync::handle_trsync_state), that of a query
\* (SerialRetryCommand::handle_callback), or none.
ReceiveState(m) ==
    /\ m2h[m] # <<>> /\ Head(m2h[m]).kind = "state"
    /\ \A k \in Mcus : Len(h2m[k]) < MaxCmds
    /\ m2h' = [m2h EXCEPT ![m] = Tail(@)]
    /\ FastReader(m, Head(m2h[m]))
    /\ LET f == Head(m2h[m])
           past == /\ handler[m] = "trsync" /\ f.can /\ m = 1
                   /\ home_end_clock # 0 /\ f.clock >= home_end_clock
       IN  /\ waiting' = [waiting EXCEPT ![m] = @ /\ ~Triggered(m, f)]
           /\ completion' = IF Triggered(m, f) THEN "done" ELSE completion
           /\ home_end_clock' = IF past THEN 0 ELSE home_end_clock
           /\ Broadcast([k \in Mcus |-> FastCommands(m, f, k)
                          \o (IF past /\ k = m
                              THEN <<Cmd("trigger", PAST_END_TIME)>> ELSE <<>>)])
           /\ last_params' = IF handler[m] = "query" THEN f.reason ELSE last_params
    /\ UNCHANGED <<n, now, trsyncVars, is_shutdown, endstopVars, moveVars, handler,
                   in_shutdown, lost, shutdowns>>

\* A message is lost; an acknowledgement is sent again until it arrives.
Lose(m) ==
    /\ lost < MaxLoss[n] /\ m2h[m] # <<>> /\ Head(m2h[m]).kind # "ack"
    /\ lost' = lost + 1
    /\ m2h' = [m2h EXCEPT ![m] = Tail(@)]
    /\ UNCHANGED <<n, now, trsyncVars, is_shutdown, endstopVars, h2m,
                   tdVars, moveVars, stateVars, shutdowns>>

\* MCU::handle_shutdown(), then Printer::invoke_shutdown() in the reactor:
\* MCU_trsync::shutdown() and MCU::shutdown() of every micro-controller.
HandleShutdown(m) ==
    /\ m2h[m] # <<>> /\ Head(m2h[m]).kind = "shutdown"
    /\ m2h' = [m2h EXCEPT ![m] = Tail(@)]
    /\ in_shutdown' = TRUE
    /\ IF in_shutdown
       THEN UNCHANGED <<completion, waiting, h2m>>
       ELSE /\ completion' = IF \E k \in Mcus : waiting[k] THEN "done" ELSE completion
            /\ waiting' = [k \in Mcus |-> FALSE]
            /\ Broadcast([k \in Mcus |-> IF k = m THEN <<>>
                                        ELSE <<Cmd("emergency_stop", 0)>>])
    /\ UNCHANGED <<n, now, trsyncVars, is_shutdown, endstopVars, tdVars,
                   moveVars, handler, home_end_clock, last_params, lost,
                   shutdowns>>

-----------------------------------------------------------------------------
(* Host: the homing move *)

\* TriggerDispatch::start(): MCU_trsync::start() for every micro-controller.
StartTrsyncs ==
    LET clock == now + Lead
    IN  /\ pc = "idle" /\ ~in_shutdown /\ rounds < MaxRounds[n]
        /\ rounds' = rounds + 1
        /\ pc' = "starting" /\ print_time' = clock
        /\ result' = "none" /\ completion' = "pending"
        /\ waiting' = [m \in Mcus |-> TRUE]
        /\ handler' = [m \in Mcus |-> "trsync"]
        /\ home_end_clock' = 0
        /\ last_status' = [m \in Mcus |-> clock]
        /\ expire_clock' = [m \in Mcus |-> clock + expire_ticks]
        /\ Broadcast([m \in Mcus |->
                         <<Cmd("start", clock + ((m - 1) * report_ticks) \div n),
                           Cmd("stop_on_trigger", 0),
                           Cmd("set_timeout", clock + expire_ticks)>>])
        /\ stopped_at' = [m \in Mcus |-> 0]
        /\ UNCHANGED <<n, now, can_trigger, report, trigger_reason, report_time,
                       expire_time, signals, moving, is_shutdown, endstopVars,
                       m2h, td_can_trigger, td_active,
                       last_params, todo, retries, reasons, in_shutdown, given_up,
                       lost, shutdowns>>

\* trdispatch_start(), and the endstop_home of MCU_endstop::home_start().
StartDispatch ==
    /\ pc = "starting"
    /\ pc' = "homing"
    /\ td_active' = TRUE /\ td_can_trigger' = TRUE
    /\ h2m' = [h2m EXCEPT ![1] = Append(@, Cmd("endstop_home", print_time))]
    /\ UNCHANGED <<n, now, trsyncVars, is_shutdown, endstopVars, m2h,
                   last_status, expire_clock, stateVars,
                   print_time, todo, retries, reasons, result, given_up, rounds,
                   lost, shutdowns>>

\* drip_move() returns, after the trigger or when the whole move is queued
\* (Lead ahead of its end): TriggerDispatch::wait_end().
WaitEnd ==
    /\ pc = "homing"
    /\ completion = "done" \/ now + Lead >= print_time + MoveTicks
    /\ pc' = "waiting"
    /\ home_end_clock' = print_time + MoveTicks
    /\ UNCHANGED <<n, now, trsyncVars, is_shutdown, endstopVars, h2m, m2h,
                   tdVars, completion, waiting, handler,
                   last_params, in_shutdown, print_time, todo, retries,
                   reasons, result, given_up, rounds, lost, shutdowns>>

\* MCU_endstop::home_wait() goes on: disable the endstop, trdispatch_stop().
StopDispatch ==
    /\ pc = "waiting" /\ completion = "done"
    /\ pc' = "stopping"
    /\ todo' = [i \in Mcus |-> i]
    /\ td_active' = FALSE
    /\ h2m' = [h2m EXCEPT ![1] = Append(@, Cmd("endstop_off", 0))]
    /\ UNCHANGED <<n, now, trsyncVars, is_shutdown, endstopVars, m2h,
                   td_can_trigger, last_status, expire_clock,
                   stateVars, print_time, retries, reasons, result, given_up,
                   rounds, lost, shutdowns>>

\* MCU_trsync::stop(): trsync_query_cmd, SerialRetryCommand::get_response().
SendQuery ==
    /\ pc = "stopping" /\ todo # <<>>
    /\ pc' = "query" /\ retries' = 0 /\ last_params' = NoParams
    /\ waiting' = [waiting EXCEPT ![Head(todo)] = FALSE]
    /\ handler' = [handler EXCEPT ![Head(todo)] = "query"]
    /\ h2m' = [h2m EXCEPT ![Head(todo)] = Append(@, Cmd("query", HOST_REQUEST))]
    /\ UNCHANGED <<n, now, trsyncVars, is_shutdown, endstopVars, m2h,
                   tdVars, completion, home_end_clock,
                   in_shutdown, print_time, todo, reasons, result, given_up,
                   rounds, lost, shutdowns>>

MayRetry == retries < Retries

\* The acknowledgement of the query: the last trsync_state received since it
\* was sent is the answer; without one the query is sent again or given up.
QueryAcked(m) ==
    /\ m2h[m] # <<>> /\ Head(m2h[m]).kind = "ack"
    /\ m2h' = [m2h EXCEPT ![m] = Tail(@)]
    /\ IF last_params # NoParams
       THEN /\ reasons' = [reasons EXCEPT ![m] = last_params]
            /\ handler' = [handler EXCEPT ![m] = "none"]
            /\ pc' = "stopping" /\ todo' = Tail(todo)
            /\ UNCHANGED <<retries, result, given_up, h2m>>
       ELSE IF MayRetry
       THEN /\ retries' = retries + 1
            /\ h2m' = [h2m EXCEPT ![m] = Append(@, Cmd("query", HOST_REQUEST))]
            /\ UNCHANGED <<handler, pc, todo, reasons, result, given_up>>
       ELSE /\ pc' = "idle" /\ todo' = <<>> /\ result' = "error"
            /\ given_up' = TRUE
            /\ handler' = [handler EXCEPT ![m] = "none"]
            /\ UNCHANGED <<retries, reasons, h2m>>
    /\ UNCHANGED <<n, now, trsyncVars, is_shutdown, endstopVars, tdVars,
                   completion, waiting, home_end_clock, last_params,
                   in_shutdown, print_time, rounds, lost, shutdowns>>

\* Mutant: only the micro-controller with the endstop is asked.
VerdictOfFirst == IF reasons[1] = ENDSTOP_HIT THEN "hit" ELSE "no_trigger"

\* TriggerDispatch::stop() and home_wait() judge the reasons.
Verdict ==
    IF \E m \in Mcus : reasons[m] >= COMMS_TIMEOUT THEN "comms_timeout"
    ELSE IF reasons[1] = ENDSTOP_HIT THEN "hit" ELSE "no_trigger"

Judge ==
    /\ pc = "stopping" /\ todo = <<>>
    /\ pc' = "idle"
    /\ result' = Verdict
    /\ UNCHANGED <<n, now, trsyncVars, is_shutdown, endstopVars, h2m, m2h,
                   tdVars, stateVars, print_time, todo, retries,
                   reasons, given_up, rounds, lost, shutdowns>>

-----------------------------------------------------------------------------
\* Time passes, from the first homing move on; the firmware's timers are
\* served when they are due.
Due(t) == t # 0 /\ t <= now

Tick ==
    /\ now < MaxTime[n] /\ rounds # 0
    /\ ~Due(endstop_time)
    /\ \A m \in Mcus : ~Due(expire_time[m]) /\ ~Due(report_time[m])
    /\ now' = now + 1
    /\ UNCHANGED <<n, trsyncVars, is_shutdown, endstopVars, h2m, m2h,
                   tdVars, moveVars, stateVars, lost, shutdowns>>

Init ==
    /\ n \in Sizes /\ now = 1
    /\ can_trigger = [m \in Mcus |-> FALSE] /\ report = [m \in Mcus |-> FALSE]
    /\ trigger_reason = [m \in Mcus |-> 0]
    /\ report_time = [m \in Mcus |-> 0] /\ expire_time = [m \in Mcus |-> 0]
    /\ signals = [m \in Mcus |-> FALSE] /\ moving = [m \in Mcus |-> FALSE]
    /\ is_shutdown = [m \in Mcus |-> FALSE]
    /\ endstop_time = 0 /\ trigger_count = 0
    /\ h2m = [m \in Mcus |-> <<>>] /\ m2h = [m \in Mcus |-> <<>>]
    /\ td_can_trigger = FALSE /\ td_active = FALSE
    /\ last_status = [m \in Mcus |-> 0] /\ expire_clock = [m \in Mcus |-> 0]
    /\ pc = "idle" /\ print_time = 0 /\ completion = "none"
    /\ waiting = [m \in Mcus |-> FALSE] /\ handler = [m \in Mcus |-> "none"]
    /\ in_shutdown = FALSE
    /\ home_end_clock = 0 /\ todo = <<>> /\ last_params = NoParams
    /\ retries = 0 /\ reasons = [m \in Mcus |-> 0] /\ result = "none"
    /\ stopped_at = [m \in Mcus |-> 0] /\ given_up = FALSE
    /\ lost = 0 /\ rounds = 0 /\ shutdowns = 0

Next ==
    \/ Tick
    \/ \E m \in Mcus : \/ ExpireEvent(m) \/ ReportEvent(m) \/ TrsyncTask(m)
                       \/ ProcessCommand(m) \/ McuShutdown(m)
                       \/ ReceiveState(m) \/ Lose(m)
                       \/ HandleShutdown(m) \/ QueryAcked(m)
    \/ \E match \in BOOLEAN : EndstopEvent(match)
    \/ StartTrsyncs \/ StartDispatch \/ WaitEnd
    \/ StopDispatch \/ SendQuery \/ Judge

Spec == Init /\ [][Next]_vars

-----------------------------------------------------------------------------
(* Properties *)

\* The variables of the firmware, of the links and of the host.
FirmwareTypes ==
    /\ can_trigger \in [Mcus -> BOOLEAN] /\ report \in [Mcus -> BOOLEAN]
    /\ trigger_reason \in [Mcus -> 0..4]
    /\ report_time \in [Mcus -> Nat] /\ expire_time \in [Mcus -> Nat]
    /\ signals \in [Mcus -> BOOLEAN] /\ moving \in [Mcus -> BOOLEAN]
    /\ is_shutdown \in [Mcus -> BOOLEAN] /\ stopped_at \in [Mcus -> Nat]
    /\ endstop_time \in Nat /\ trigger_count \in 0..SampleCount[n]

LinkTypes ==
    /\ h2m \in [Mcus -> Seq(Commands)] /\ m2h \in [Mcus -> Seq(Messages)]
    /\ lost \in Nat /\ shutdowns \in Nat

HostTypes ==
    /\ td_can_trigger \in BOOLEAN /\ td_active \in BOOLEAN
    /\ last_status \in [Mcus -> Nat] /\ expire_clock \in [Mcus -> Nat]
    /\ pc \in {"idle", "starting", "homing", "waiting", "stopping", "query"}
    /\ print_time \in Nat /\ completion \in {"none", "pending", "done"}
    /\ waiting \in [Mcus -> BOOLEAN]
    /\ handler \in [Mcus -> {"none", "trsync", "query"}]
    /\ home_end_clock \in Nat /\ todo \in Seq(Mcus)
    /\ last_params \in 0..4 \cup {NoParams} /\ retries \in 0..Retries
    /\ reasons \in [Mcus -> 0..4] /\ in_shutdown \in BOOLEAN
    /\ result \in {"none", "hit", "no_trigger", "comms_timeout", "error"}
    /\ given_up \in BOOLEAN /\ rounds \in Nat

\* Every variable keeps its type; queues hold commands and messages.
TypeOK ==
    /\ n \in Sizes /\ now \in Nat
    /\ FirmwareTypes /\ LinkTypes /\ HostTypes

\* The first timeout of the homing move has not reached m yet.
Unarmed(m) == expire_time[m] = 0 /\ \E i \in DOMAIN h2m[m] :
                                      h2m[m][i].cmd = "set_timeout"

\* When one micro-controller has stopped (endstop, timeout or shutdown), a
\* stepper of another one moves for at most expire_ticks more, whatever
\* messages are late or lost: its timeout was extended only by what all
\* the others had reported.
StopTogether ==
    \A m, k \in Mcus :
      moving[m] /\ stopped_at[k] # 0 /\ k # m
        => \/ now <= stopped_at[k] + expire_ticks
           \/ now <= print_time + expire_ticks
           \/ Unarmed(m)

\* home_wait() reports a hit only if the endstop ended the move of its own
\* micro-controller and all steppers have stopped; and, if at most one message
\* was lost, none of them because of a timeout (its position would be off).
HitIsReal ==
    pc = "idle" /\ result = "hit"
      => /\ \A m \in Mcus : ~moving[m]
         /\ is_shutdown[1] \/ trigger_reason[1] = ENDSTOP_HIT
         /\ lost <= 1 => \A m \in Mcus : trigger_reason[m] # COMMS_TIMEOUT

\* The host ends its wait early only when some micro-controller has stopped, or was
\* shut down before the move.  (Not after a query was given up: the micro-controllers
\* that were not asked then go on reporting, and the next move takes it for its own.)
CompletionIsReal ==
    completion = "done" /\ pc \in {"homing", "waiting"} /\ ~given_up
      => \E m \in Mcus : stopped_at[m] # 0 \/ is_shutdown[m]

\* Between homing moves nothing of the last one is left: no timer, no
\* endstop check, no command or report under way that the next one could
\* take for its own.
QuietAfterMove ==
    pc = "idle" /\ result \in {"hit", "no_trigger", "comms_timeout"}
      /\ (\A m \in Mcus : ~is_shutdown[m])
      => /\ endstop_time = 0 /\ ~td_active
         /\ \A m \in Mcus : /\ ~can_trigger[m] /\ ~report[m]
                            /\ report_time[m] = 0 /\ expire_time[m] = 0
                            /\ m2h[m] = <<>>
                            /\ \A i \in DOMAIN h2m[m] :
                                 h2m[m][i].cmd = "emergency_stop"
=============================================================================
