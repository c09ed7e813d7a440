------------------------------- MODULE PrintJob -------------------------------
(***************************************************************************)
(* Printing a file from storage (src/elegoo/extras/virtual_sdcard.cpp)     *)
(* with its pause, resume and cancel (pause_resume.cpp), its statistics    *)
(* (print_stats.cpp) and the record for the resumption after a power       *)
(* outage.                                                                 *)
(*                                                                         *)
(* The host is one thread of cooperating greenlets: a step below is what   *)
(* one of them does between two calls of reactor->pause().  A greenlet is  *)
(* the worker that feeds the file to the g-code dispatch (work_handler()), *)
(* the client whose commands come through run_script(), or the handler of  *)
(* a sensor that pauses the print by itself.  Commands run under the mutex *)
(* of the dispatch, which is handed over in the order of the requests.     *)
(*                                                                         *)
(* A file is Lines lines; read() returns ReadLines of them, fewer at the   *)
(* end, where it leaves the stream in a failed state.                      *)
(***************************************************************************)
EXTENDS Naturals, Sequences

CONSTANTS Lines,        \* lines of the file
          ReadLines,    \* lines one read() returns (8192 bytes)
          Kinds,        \* what a line may be: a subset of LineKinds
          Commands,     \* what the client may send: a subset of ClientCommands
          MaxJobs,      \* bound: prints started
          MaxCommands,  \* bound: commands of the client
          MaxEvents     \* bound: events of the sensor, shutdowns and power outages

LineKinds == {"move", "error", "internal", "loop", "PAUSE", "M25", "CANCEL_PRINT"}

ClientCommands == {"SDCARD_PRINT_FILE", "SDCARD_RESET_FILE", "M24", "M25", "PAUSE",
                   "RESUME", "CLEAR_PAUSE", "CANCEL_PRINT", "M23", "POWER_OUTAGE_RESUME"}

ASSUME PrintAssumption ==
    /\ Lines \in Nat \ {0} /\ ReadLines \in Nat \ {0}
    /\ Kinds \subseteq LineKinds /\ Commands \subseteq ClientCommands
    /\ MaxJobs \in Nat /\ MaxCommands \in Nat /\ MaxEvents \in Nat

Workers == {"w1", "w2"}     \* greenlets a work timer may start

Procs == Workers \cup {"client", "sensor"}

VARIABLES
    \* VirtualSD
    file,           \* current_file: [open, fail (failbit), pos (file_position)]
    work_timer,     \* work_timer is not null
    must_pause_work, cmd_from_sd, is_over_work,
    context,        \* power_outage_context: the record as read at the start
    \* PauseResume
    is_paused, pause_command_sent, sd_paused,
    \* PrintStats: [state, started (print_start_time is set)]
    stats,
    \* GCodeMove
    z,              \* the height, as [job, at]
    saved,          \* saved_states: the heights of PAUSE_STATE_1, _2 and _3
    \* GCodeDispatch: mutex, and whether the printer is shut down
    owner, queue, is_shutdown,
    \* the greenlets
    pc, cmd,        \* where each is, and its command
    feed,           \* of each worker: [cur, read, next], see WorkHandler
    \* power_outage.json
    record,
    \* history
    job, jobs,      \* number of the print, and of all that were started
    homed,          \* all axes are homed
    done,           \* lines of this print that were executed
    paused,         \* a PAUSE has ended and nothing resumed the print since
    cancelled,      \* the prints that CANCEL_PRINT or SDCARD_RESET_FILE ended
    sent, events

sdVars == <<file, work_timer, must_pause_work, cmd_from_sd, is_over_work, context>>
pauseVars == <<is_paused, pause_command_sent, sd_paused>>
moveVars == <<z, saved>>
lockVars == <<owner, queue>>
histVars == <<job, jobs, homed, done, paused, cancelled>>
bounds == <<sent, events>>
vars == <<sdVars, pauseVars, stats, moveVars, lockVars, is_shutdown, pc, cmd, feed,
          record, histVars, bounds>>

NoRecord == [none |-> TRUE]

Absent == [job |-> 0, at |-> "absent"]

NoFeed == [cur |-> 1, read |-> 0, next |-> 0]

NoneSaved == [n \in 1..3 |-> Absent]

Height(at) == [job |-> job, at |-> at]

-----------------------------------------------------------------------------
(* PrintStats *)

\* note_finish()
Finished(s) == IF stats.started THEN [state |-> s, started |-> FALSE] ELSE stats

\* note_pause()
Paused == [stats EXCEPT !.state = IF @ # "error" THEN "paused" ELSE @]

\* reset()
Standby == [state |-> "standby", started |-> FALSE]

-----------------------------------------------------------------------------
(* ReactorMutex and the end of a command *)

\* p goes to l; a greenlet that is idle has no command.
Goto(p, l) ==
    /\ pc' = [pc EXCEPT ![p] = l]
    /\ cmd' = [cmd EXCEPT ![p] = IF l = "idle" THEN "none" ELSE @]

\* p goes to l with command c.
GotoWith(p, l, c) ==
    /\ pc' = [pc EXCEPT ![p] = l]
    /\ cmd' = [cmd EXCEPT ![p] = c]

\* lock()
Lock(p) ==
    /\ owner' = IF owner = "none" THEN p ELSE owner
    /\ queue' = IF owner = "none" THEN queue ELSE Append(queue, p)

\* A mutant: the mutex is freed although somebody waits.
UnlockAll ==
    /\ owner' = "none"
    /\ queue' = IF queue = <<>> THEN queue ELSE Tail(queue)

\* unlock(): the mutex stays locked for the first who waits.
Unlock ==
    /\ owner' = IF queue = <<>> THEN "none" ELSE Head(queue)
    /\ queue' = IF queue = <<>> THEN queue ELSE Tail(queue)

\* The handler of a command returns: to work_handler(), or to run_script(), which
\* unlocks.
Return(p) ==
    IF p \in Workers THEN Goto(p, "ran") /\ UNCHANGED lockVars
                     ELSE Goto(p, "idle") /\ Unlock

\* The handler throws a CommandError.
Throw(p) ==
    IF p \in Workers THEN Goto(p, "on_error") /\ Unlock ELSE Goto(p, "idle") /\ Unlock

-----------------------------------------------------------------------------
(* VirtualSD: pause, resume, cancel *)

\* The condition of the wait in do_pause() and do_cancel()
Waits == work_timer /\ cmd_from_sd

\* A mutant: an active print is not told to stop.
DoPauseLater == UNCHANGED must_pause_work

\* do_pause() up to the wait.
DoPause == must_pause_work' = (must_pause_work \/ work_timer)

\* A mutant: the check for a running print is dropped.
SdFree == TRUE

\* do_resume() does not throw "SD busy".
NotBusy == ~work_timer

\* do_resume(), not busy: the work timer is registered; p returns.
DoResume(p, w) ==
    /\ pc[w] = "idle" /\ (w = "w2" => pc["w1"] # "idle")
    /\ work_timer' = TRUE /\ must_pause_work' = FALSE /\ is_over_work' = FALSE
    /\ paused' = FALSE
    /\ pc' = [pc EXCEPT ![w] = "handler", ![p] = "idle"]
    /\ cmd' = [cmd EXCEPT ![p] = "none"]
    /\ Unlock

Closed == [file EXCEPT !.open = FALSE, !.fail = FALSE]

\* Closing as the code does it: only if the stream is not in a failed state.
ClosedIfGood == IF file.fail THEN file ELSE Closed

\* _load_file(), and M26 with a position
Loaded(pos) == [open |-> TRUE, fail |-> FALSE, pos |-> pos]

-----------------------------------------------------------------------------
(* The worker *)

\* work_handler() up to its loop: the stream goes to file_position.  feed holds
\* the number of the next line (cur), up to where lines were read (read), and the
\* local next_file_position (next).
WorkHandler(w) ==
    /\ pc[w] = "handler"
    /\ IF file.open /\ ~file.fail
       THEN /\ feed' = [feed EXCEPT ![w] = [cur |-> file.pos + 1, read |-> file.pos,
                                            next |-> file.pos]]
            /\ stats' = [state |-> "printing", started |-> TRUE]
            /\ Goto(w, "loop")
            /\ UNCHANGED <<file, work_timer>>
       ELSE /\ file' = [file EXCEPT !.fail = TRUE]
            /\ work_timer' = FALSE
            /\ Goto(w, "idle")
            /\ UNCHANGED <<feed, stats>>
    /\ UNCHANGED <<must_pause_work, cmd_from_sd, is_over_work, context, pauseVars,
                   moveVars, lockVars, is_shutdown, record, histVars, bounds>>

\* The end of work_handler(); f is the stream, error says whether there is a message.
Exit(w, f, error) ==
    /\ work_timer' = FALSE /\ cmd_from_sd' = FALSE
    /\ file' = f
    /\ stats' = IF error THEN Finished("error")
                ELSE IF f.open THEN Paused ELSE Finished("complete")
    /\ is_over_work' = (is_over_work \/ (~error /\ ~f.open))
    /\ Goto(w, "idle") /\ feed' = [feed EXCEPT ![w] = NoFeed]
    /\ UNCHANGED <<must_pause_work, context, pauseVars, moveVars, is_shutdown, record,
                   histVars, bounds>>

\* The loop ends for must_pause_work.
Stop(w) ==
    /\ pc[w] = "loop" /\ must_pause_work
    /\ Exit(w, file, FALSE)
    /\ UNCHANGED lockVars

Empty(w) == feed[w].cur > feed[w].read

\* No more lines: the end of the file, or a bad read.
ReadEnd(w) ==
    /\ pc[w] = "loop" /\ ~must_pause_work /\ Empty(w)
    /\ \/ (file.fail \/ feed[w].read >= Lines) /\ Exit(w, Closed, FALSE)
       \/ ~file.fail /\ Exit(w, Closed, TRUE)
    /\ UNCHANGED lockVars

\* Up to where the lines are known after a read(): gcount()
ReadTo(w) ==
    IF feed[w].read + ReadLines < Lines THEN feed[w].read + ReadLines ELSE Lines

\* A chunk is read; a short one leaves the stream failed.
Read(w) ==
    /\ pc[w] = "loop" /\ ~must_pause_work /\ Empty(w)
    /\ ~file.fail /\ feed[w].read < Lines
    /\ feed' = [feed EXCEPT ![w].read = ReadTo(w)]
    /\ file' = [file EXCEPT !.fail = feed[w].read + ReadLines > Lines]
    /\ UNCHANGED <<work_timer, must_pause_work, cmd_from_sd, is_over_work, context,
                   pauseVars, stats, moveVars, lockVars, is_shutdown, pc, cmd, record,
                   histVars, bounds>>

\* A mutant: the line is not counted before it has been executed.
NextPositionSame == file.pos

\* The position after the line: file_position + line.size() + 1
NextPosition == file.pos + 1

\* A line of kind k is handed to run_script(), the mutex being free.
RunLine(w, k) ==
    /\ pc[w] = "loop" /\ ~must_pause_work /\ ~Empty(w)
    /\ owner = "none" /\ owner' = w
    /\ cmd_from_sd' = TRUE
    /\ feed' = [feed EXCEPT ![w].next = NextPosition]
    /\ GotoWith(w, IF k \in {"move", "loop"} THEN "ran"
               ELSE IF k \in {"error", "internal"} THEN k ELSE "begin", k)
    /\ UNCHANGED <<file, work_timer, must_pause_work, is_over_work, context, pauseVars,
                   stats, moveVars, queue, is_shutdown, record, histVars, bounds>>

\* A loop of SDCARD_LOOP_END sets another position: the stream goes to the local
\* next_file_position and the lines that were read are dropped.
NextLine(w) ==
    [feed[w] EXCEPT !.cur = @ + 1,
                    !.read = IF cmd[w] = "loop" THEN feed[w].cur ELSE @]

\* run_script() has returned.
LineDone(w) ==
    /\ pc[w] = "ran"
    /\ Unlock
    /\ cmd_from_sd' = FALSE
    /\ done' = feed[w].cur
    /\ z' = IF cmd[w] = "move" THEN Height("print") ELSE z
    /\ file' = [file EXCEPT !.pos = feed[w].next]
    /\ IF cmd[w] = "loop" /\ file.fail
       THEN /\ work_timer' = FALSE /\ Goto(w, "idle")
            /\ feed' = [feed EXCEPT ![w] = NoFeed]
       ELSE /\ feed' = [feed EXCEPT ![w] = NextLine(w)]
            /\ Goto(w, "loop")
            /\ UNCHANGED work_timer
    /\ UNCHANGED <<must_pause_work, is_over_work, context, pauseVars, stats, saved,
                   is_shutdown, record, job, jobs, homed, paused, cancelled, bounds>>

\* run_script() throws a CommandError: the mutex is free again, on_error_gcode runs.
LineError(w) ==
    /\ pc[w] = "error"
    /\ Throw(w)
    /\ UNCHANGED <<sdVars, pauseVars, stats, moveVars, is_shutdown, feed, record,
                   histVars, bounds>>

\* on_error_gcode is done.
OnErrorDone(w) ==
    /\ pc[w] = "on_error"
    /\ Exit(w, file, TRUE)
    /\ UNCHANGED lockVars

-----------------------------------------------------------------------------
(* Shutdown and power outage *)

\* The last of the pause states that were saved, 0 if there is none.
LastSaved ==
    IF saved[1] = Absent THEN 0
    ELSE IF saved[2] = Absent THEN 1 ELSE IF saved[3] = Absent THEN 2 ELSE 3

InPause == must_pause_work /\ LastSaved # 0

\* handle_power_outage(); the actual height and the number of the print are history.
Recorded ==
    IF is_over_work THEN record
    ELSE [none |-> FALSE, pos |-> file.pos,
          kinematic_z |-> IF InPause THEN saved[LastSaved] ELSE z,
          gcode_z |-> IF InPause THEN saved[1] ELSE z,
          actual_z |-> z, job |-> job, done |-> done]

\* A line ends in an internal error: process_commands() shuts the printer down
\* (handle_shutdown()) before it throws.
InternalError(w) ==
    /\ pc[w] = "internal"
    /\ is_shutdown' = TRUE
    /\ record' = Recorded
    /\ must_pause_work' = TRUE
    /\ Goto(w, "broken") /\ Unlock
    /\ UNCHANGED <<file, work_timer, cmd_from_sd, is_over_work, context, pauseVars,
                   stats, moveVars, feed, histVars, bounds>>

\* work_handler() has caught it.
Broken(w) ==
    /\ pc[w] = "broken"
    /\ Exit(w, file, FALSE)
    /\ UNCHANGED lockVars

\* The printer shuts down for another reason: handle_shutdown().
Shutdown ==
    /\ ~is_shutdown /\ events < MaxEvents
    /\ events' = events + 1
    /\ is_shutdown' = TRUE
    /\ record' = Recorded
    /\ must_pause_work' = (must_pause_work \/ work_timer)
    /\ UNCHANGED <<file, work_timer, cmd_from_sd, is_over_work, context, pauseVars,
                   stats, moveVars, lockVars, pc, cmd, feed, histVars, sent>>

\* After a shutdown the commands that the client, a handler or a macro runs are
\* refused.
Refused(p) ==
    /\ is_shutdown
    /\ \/ pc[p] \in {"begin", "macro1", "macro2", "m400", "heat", "resume",
                     "cancel_macro", "start_macro", "outage_moves"}
       \/ pc[p] = "lock" /\ owner = p
    /\ Throw(p)
    /\ UNCHANGED <<sdVars, pauseVars, stats, moveVars, is_shutdown, feed, record,
                   histVars, bounds>>

\* The host starts again, with the file of the record r selected (handle_ready());
\* M24 would print it from its first line.
Started(r) ==
    /\ record' = r /\ done' = 0
    /\ job' = IF r.none THEN job ELSE r.job
    /\ file' = [open |-> ~r.none, fail |-> FALSE, pos |-> 0]
    /\ work_timer' = FALSE /\ must_pause_work' = FALSE /\ cmd_from_sd' = FALSE
    /\ is_over_work' = TRUE
    /\ is_paused' = FALSE /\ pause_command_sent' = FALSE /\ sd_paused' = FALSE
    /\ stats' = Standby
    /\ saved' = NoneSaved
    /\ owner' = "none" /\ queue' = <<>> /\ is_shutdown' = FALSE
    /\ pc' = [p \in Procs |-> "idle"] /\ cmd' = [p \in Procs |-> "none"]
    /\ feed' = [w \in Workers |-> NoFeed]
    /\ context' = r

\* A restart after a shutdown.
Restart ==
    /\ is_shutdown
    /\ Started(record)
    /\ UNCHANGED <<z, jobs, homed, paused, cancelled, bounds>>

\* The power fails: por:power_off, then the host is gone and starts again.
PowerOutage ==
    /\ events < MaxEvents
    /\ events' = events + 1
    /\ Started(Recorded)
    /\ UNCHANGED <<z, jobs, homed, paused, cancelled, sent>>

-----------------------------------------------------------------------------
(* Commands *)

\* The client calls run_script().
Send(c) ==
    /\ pc["client"] = "idle" /\ ~is_shutdown /\ sent < MaxCommands
    /\ c \in {"SDCARD_PRINT_FILE", "M23"} => jobs < MaxJobs
    /\ sent' = sent + 1
    /\ GotoWith("client", "lock", c) /\ Lock("client")
    /\ UNCHANGED <<sdVars, pauseVars, stats, moveVars, is_shutdown, feed, record,
                   histVars, events>>

\* The handler of command c begins.
Begins(p, c) ==
    /\ cmd[p] = c /\ ~is_shutdown
    /\ pc[p] = "begin" \/ (pc[p] = "lock" /\ owner = p)

\* send_pause_command() up to the wait of do_pause()
SendPause ==
    IF pause_command_sent
    THEN UNCHANGED <<must_pause_work, pause_command_sent, sd_paused>>
    ELSE /\ sd_paused' = work_timer
         /\ DoPause
         /\ pause_command_sent' = ~Waits

\* It waits.
SendWaits == ~pause_command_sent /\ Waits

\* PAUSE goes on: the first state is saved; without homed axes it goes straight to
\* M25.
PauseSave1(p) ==
    /\ saved' = IF homed THEN [saved EXCEPT ![1] = z] ELSE saved
    /\ Goto(p, IF homed THEN "macro1" ELSE "m400")

\* The rest of send_pause_command()
SendPauseEnd(p) ==
    /\ pc[p] = "wait_sent" /\ ~Waits
    /\ pause_command_sent' = TRUE
    /\ IF cmd[p] = "PAUSE" THEN PauseSave1(p) ELSE Goto(p, "sent") /\ UNCHANGED saved
    /\ UNCHANGED <<sdVars, is_paused, sd_paused, stats, z, lockVars, is_shutdown,
                   feed, record, histVars, bounds>>

\* A sensor (filament, cover, tangling) pauses the print: send_pause_command()
\* without the mutex ...  The filament sensor does so while print_stats says printing,
\* the others while idle_timeout does, which is so after any move, of a macro or of the
\* client too, until the head has come to rest: at any time.
RunoutEvent ==
    /\ pc["sensor"] = "idle" /\ events < MaxEvents
    /\ events' = events + 1
    /\ SendPause
    /\ GotoWith("sensor", IF SendWaits THEN "wait_sent" ELSE "sent", "runout")
    /\ UNCHANGED <<file, work_timer, cmd_from_sd, is_over_work, context, is_paused,
                   stats, moveVars, lockVars, is_shutdown, feed, record, histVars,
                   sent>>

\* ... and after a delay run_script("PAUSE").
RunoutPause ==
    /\ pc["sensor"] = "sent" /\ cmd["sensor"] = "runout"
    /\ GotoWith("sensor", "lock", "PAUSE") /\ Lock("sensor")
    /\ UNCHANGED <<sdVars, pauseVars, stats, moveVars, is_shutdown, feed, record,
                   histVars, bounds>>

\* cmd_PAUSE()
PauseBegin(p) ==
    /\ Begins(p, "PAUSE")
    /\ IF is_paused
       THEN /\ Return(p)
            /\ UNCHANGED <<must_pause_work, pause_command_sent, sd_paused, saved>>
       ELSE /\ SendPause
            /\ IF SendWaits THEN Goto(p, "wait_sent") /\ UNCHANGED saved ELSE PauseSave1(p)
            /\ UNCHANGED lockVars
    /\ UNCHANGED <<file, work_timer, cmd_from_sd, is_over_work, context, is_paused,
                   stats, z, is_shutdown, feed, record, histVars, bounds>>

\* The first macro has lifted the head; the second goes to the waste box, unless
\* GOTO_WASTE_BOX=0.
PauseSave2(p) ==
    /\ pc[p] = "macro1" /\ ~is_shutdown
    /\ z' = Height("lift") /\ saved' = [saved EXCEPT ![2] = z']
    /\ Goto(p, "macro2") \/ Goto(p, "m400")
    /\ UNCHANGED <<sdVars, pauseVars, stats, lockVars, is_shutdown, feed,
                   record, histVars, bounds>>

PauseSave3(p) ==
    /\ pc[p] = "macro2" /\ ~is_shutdown
    /\ z' = Height("waste") /\ saved' = [saved EXCEPT ![3] = z']
    /\ Goto(p, "m400")
    /\ UNCHANGED <<sdVars, pauseVars, stats, lockVars, is_shutdown, feed,
                   record, histVars, bounds>>

\* M25, as a command and at the end of PAUSE, after the wait
M25Done(p) ==
    /\ is_paused' = (is_paused \/ cmd[p] = "PAUSE")
    /\ paused' = (paused \/ cmd[p] = "PAUSE")
    /\ Return(p)

\* do_pause() up to the wait, and beyond if there is none.
M25(p) ==
    /\ Begins(p, "M25") \/ (pc[p] = "m400" /\ ~is_shutdown)
    /\ DoPause
    /\ IF Waits THEN Goto(p, "wait_m25") /\ UNCHANGED <<is_paused, paused, lockVars>>
                ELSE M25Done(p)
    /\ UNCHANGED <<file, work_timer, cmd_from_sd, is_over_work, context,
                   pause_command_sent, sd_paused, stats, moveVars, is_shutdown, feed,
                   record, job, jobs, homed, done, cancelled, bounds>>

M25End(p) ==
    /\ pc[p] = "wait_m25" /\ ~Waits
    /\ M25Done(p)
    /\ UNCHANGED <<sdVars, pause_command_sent, sd_paused, stats, moveVars, is_shutdown,
                   feed, record, job, jobs, homed, done, cancelled, bounds>>

\* cmd_RESUME() up to the heating; it may be refused for a fault.
ResumeBegin(p) ==
    /\ Begins(p, "RESUME")
    /\ \/ Return(p)
       \/ is_paused /\ Goto(p, IF homed THEN "heat" ELSE "resume") /\ UNCHANGED lockVars
    /\ UNCHANGED <<sdVars, pauseVars, stats, moveVars, is_shutdown, feed, record,
                   histVars, bounds>>

\* The head goes back to where it was, unless the filament cannot be switched.
ResumeHeated(p) ==
    /\ pc[p] = "heat" /\ ~is_shutdown
    /\ \/ Return(p) /\ UNCHANGED z
       \/ z' = saved[1] /\ Goto(p, "resume") /\ UNCHANGED lockVars
    /\ UNCHANGED <<sdVars, pauseVars, stats, saved, is_shutdown, feed, record,
                   histVars, bounds>>

\* "SD busy": do_resume() has already set is_over_work.
Busy(p) ==
    /\ is_over_work' = FALSE
    /\ Throw(p)
    /\ UNCHANGED <<file, work_timer, must_pause_work, cmd_from_sd, context, pauseVars,
                   stats, moveVars, is_shutdown, feed, record, histVars, bounds>>

\* The end of cmd_RESUME(): send_resume_command(), clean_gcode_state()
ResumeEnd(p) ==
    /\ pc[p] = "resume" /\ ~is_shutdown
    /\ \/ sd_paused /\ ~NotBusy /\ Busy(p)
       \/ /\ \/ sd_paused /\ NotBusy /\ \E w \in Workers : DoResume(p, w)
             \/ /\ ~sd_paused
                /\ Return(p)
                /\ UNCHANGED <<work_timer, must_pause_work, is_over_work, paused>>
          /\ sd_paused' = FALSE /\ pause_command_sent' = FALSE /\ is_paused' = FALSE
          /\ saved' = NoneSaved
          /\ UNCHANGED <<file, cmd_from_sd, context, stats, z, is_shutdown, feed,
                         record, job, jobs, homed, done, cancelled, bounds>>

\* cmd_M24()
M24(p) ==
    /\ Begins(p, "M24")
    /\ \/ ~NotBusy /\ Busy(p)
       \/ /\ NotBusy /\ \E w \in Workers : DoResume(p, w)
          /\ UNCHANGED <<file, cmd_from_sd, context, pauseVars, stats, moveVars,
                         is_shutdown, feed, record, job, jobs, homed, done, cancelled, bounds>>

\* cmd_CLEAR_PAUSE()
ClearPause(p) ==
    /\ Begins(p, "CLEAR_PAUSE")
    /\ is_paused' = FALSE /\ pause_command_sent' = FALSE
    /\ Return(p)
    /\ UNCHANGED <<sdVars, sd_paused, stats, moveVars, is_shutdown, feed, record,
                   histVars, bounds>>

\* do_cancel() after its wait
CloseFile ==
    /\ file' = [Closed EXCEPT !.pos = 0]
    /\ stats' = Finished("cancelled")

\* cmd_CANCEL_PRINT() and do_cancel() up to the wait, and beyond if there is none; a
\* failed stream is left alone.
CancelBegin(p) ==
    /\ Begins(p, "CANCEL_PRINT")
    /\ LET active == work_timer \/ sd_paused IN
       /\ is_over_work' = (is_over_work \/ active)
       /\ IF active /\ ~file.fail THEN DoPause ELSE UNCHANGED must_pause_work
       /\ IF active /\ ~file.fail /\ ~Waits THEN CloseFile
          ELSE /\ file' = IF active /\ file.fail THEN [file EXCEPT !.pos = 0] ELSE file
               /\ UNCHANGED stats
       /\ Goto(p, IF active /\ ~file.fail /\ Waits THEN "wait_cancel" ELSE "cancel_macro")
    /\ UNCHANGED <<work_timer, cmd_from_sd, context, pauseVars, moveVars, lockVars,
                   is_shutdown, feed, record, histVars, bounds>>

CancelClose(p) ==
    /\ pc[p] = "wait_cancel" /\ ~Waits
    /\ CloseFile
    /\ Goto(p, "cancel_macro")
    /\ UNCHANGED <<work_timer, must_pause_work, cmd_from_sd, is_over_work, context,
                   pauseVars, moveVars, lockVars, is_shutdown, feed, record, histVars,
                   bounds>>

\* The head was moved away; cmd_CLEAR_PAUSE().
CancelEnd(p) ==
    /\ pc[p] = "cancel_macro" /\ ~is_shutdown
    /\ z' = Height("park")
    /\ is_paused' = FALSE /\ pause_command_sent' = FALSE
    /\ cancelled' = cancelled \cup {job}
    /\ Return(p)
    /\ UNCHANGED <<sdVars, sd_paused, stats, saved, is_shutdown, feed, record, job,
                   jobs, homed, done, paused, bounds>>

\* cmd_SDCARD_RESET_FILE() and _reset_file(): from outside the file do_pause() does
\* not wait.
ResetFile(p) ==
    /\ Begins(p, "SDCARD_RESET_FILE")
    /\ IF cmd_from_sd
       THEN Throw(p) /\ UNCHANGED <<file, must_pause_work, stats, cancelled>>
       ELSE /\ file' = [ClosedIfGood EXCEPT !.pos = 0]
            /\ cancelled' = cancelled \cup {job}
            /\ IF file.fail THEN UNCHANGED must_pause_work ELSE DoPause
            /\ stats' = Standby
            /\ Return(p)
    /\ UNCHANGED <<work_timer, cmd_from_sd, is_over_work, context, pauseVars, moveVars,
                   is_shutdown, feed, record, job, jobs, homed, done, paused, bounds>>

\* cmd_M23(), cmd_SDCARD_PRINT_FILE(): the file is opened; for the latter
\* print_start_gcode runs ...
PrintFile(p, c) ==
    /\ Begins(p, c)
    /\ IF work_timer
       THEN Throw(p) /\ UNCHANGED <<file, stats, job, jobs, done>>
       ELSE /\ jobs' = jobs + 1 /\ job' = jobs + 1 /\ done' = 0
            /\ file' = Loaded(0)
            /\ stats' = Standby
            /\ IF c = "M23" THEN Return(p) ELSE Goto(p, "start_macro") /\ UNCHANGED lockVars
    /\ UNCHANGED <<work_timer, must_pause_work, cmd_from_sd, is_over_work, context,
                   pauseVars, moveVars, is_shutdown, feed, record, homed, paused,
                   cancelled, bounds>>

\* ... and the print starts.
PrintStart(p) ==
    /\ pc[p] = "start_macro" /\ ~is_shutdown
    /\ \E w \in Workers : DoResume(p, w)
    /\ UNCHANGED <<file, cmd_from_sd, context, pauseVars, stats, moveVars, is_shutdown,
                   feed, record, job, jobs, homed, done, cancelled, bounds>>

\* cmd_POWER_OUTAGE_RESUME(): nothing is resumed and the record is removed ...
OutageDismiss(p) ==
    /\ Begins(p, "POWER_OUTAGE_RESUME")
    /\ record' = NoRecord /\ context' = NoRecord
    /\ Return(p)
    /\ UNCHANGED <<file, work_timer, must_pause_work, cmd_from_sd, is_over_work,
                   pauseVars, stats, moveVars, is_shutdown, feed, histVars, bounds>>

\* ... or the file is opened where the record says (M23, M26), the axes, heaters and
\* fans are restored ...
OutageResume(p) ==
    /\ Begins(p, "POWER_OUTAGE_RESUME")
    /\ ~context.none
    /\ IF work_timer
       THEN Throw(p) /\ UNCHANGED <<file, stats, z, job, done>>
       ELSE /\ file' = Loaded(context.pos)
            /\ stats' = Standby
            /\ z' = context.gcode_z
            /\ job' = context.job /\ done' = context.done
            /\ Goto(p, "outage_moves") /\ UNCHANGED lockVars
    /\ UNCHANGED <<work_timer, must_pause_work, cmd_from_sd, is_over_work, context,
                   pauseVars, saved, is_shutdown, feed, record, jobs, homed, paused,
                   cancelled, bounds>>

\* ... and the print goes on (M24); the record is removed.
OutageResumed(p) ==
    /\ pc[p] = "outage_moves" /\ ~is_shutdown
    /\ \E w \in Workers : DoResume(p, w)
    /\ record' = NoRecord /\ context' = NoRecord
    /\ UNCHANGED <<file, cmd_from_sd, pauseVars, stats, moveVars, is_shutdown, 
                   feed, job, jobs, homed, done, cancelled, bounds>>

-----------------------------------------------------------------------------
Worker(w) ==
    \/ WorkHandler(w) \/ Stop(w) \/ Read(w) \/ ReadEnd(w) \/ LineDone(w)
    \/ LineError(w) \/ OnErrorDone(w) \/ InternalError(w) \/ Broken(w)
    \/ \E k \in Kinds : RunLine(w, k)

Command(p) ==
    \/ SendPauseEnd(p) \/ PauseBegin(p) \/ PauseSave2(p)
    \/ PauseSave3(p) \/ M25(p) \/ M25End(p)
    \/ CancelBegin(p) \/ CancelClose(p) \/ CancelEnd(p) \/ Refused(p)

ClientCommand ==
    \/ ResumeBegin("client") \/ ResumeHeated("client") \/ ResumeEnd("client")
    \/ M24("client") \/ ClearPause("client") \/ ResetFile("client")
    \/ PrintFile("client", "SDCARD_PRINT_FILE") \/ PrintFile("client", "M23")
    \/ PrintStart("client")
    \/ OutageDismiss("client") \/ OutageResume("client") \/ OutageResumed("client")

\* The steps of a greenlet that is at work.
Step(p) ==
    \/ p \in Workers /\ Worker(p)
    \/ p = "client" /\ ClientCommand
    \/ p = "sensor" /\ RunoutPause
    \/ Command(p)

Init ==
    /\ file = [open |-> FALSE, fail |-> FALSE, pos |-> 0]
    /\ work_timer = FALSE /\ must_pause_work = FALSE /\ cmd_from_sd = FALSE
    /\ is_over_work = TRUE /\ context = NoRecord
    /\ is_paused = FALSE /\ pause_command_sent = FALSE /\ sd_paused = FALSE
    /\ stats = Standby
    /\ job = 0 /\ jobs = 0 /\ z = Height("park") /\ saved = NoneSaved
    /\ owner = "none" /\ queue = <<>> /\ is_shutdown = FALSE
    /\ pc = [p \in Procs |-> "idle"] /\ cmd = [p \in Procs |-> "none"]
    /\ feed = [w \in Workers |-> NoFeed]
    /\ record = NoRecord
    /\ homed \in BOOLEAN /\ done = 0 /\ paused = FALSE /\ cancelled = {}
    /\ sent = 0 /\ events = 0

Next ==
    \/ \E p \in Procs : Step(p)
    \/ (\E c \in Commands : Send(c)) \/ RunoutEvent
    \/ Shutdown \/ Restart \/ PowerOutage

Spec == Init /\ [][Next]_vars

\* The reactor runs every greenlet whose time has come.
FairSpec == Spec /\ \A p \in Procs : WF_vars(Step(p))

-----------------------------------------------------------------------------
(* Properties *)

Heights == [job : 0..MaxJobs, at : {"absent", "print", "lift", "waste", "park"}]

\* The types of the variables.
TypeOK ==
    /\ file \in [open : BOOLEAN, fail : BOOLEAN, pos : 0..Lines]
    /\ {work_timer, must_pause_work, cmd_from_sd, is_over_work} \subseteq BOOLEAN
    /\ {is_paused, pause_command_sent, sd_paused} \subseteq BOOLEAN
    /\ stats \in [state : {"standby", "printing", "paused", "complete", "error",
                           "cancelled"}, started : BOOLEAN]
    /\ z \in Heights /\ saved \in [1..3 -> Heights]
    /\ owner \in Procs \cup {"none"} /\ queue \in Seq(Procs)
    /\ cmd \in [Procs -> ClientCommands \cup LineKinds \cup {"none", "runout"}]
    /\ feed \in [Workers -> [cur : 1..(Lines + 1), read : 0..Lines, next : 0..Lines]]
    /\ done \in 0..Lines /\ job \in 0..MaxJobs

\* Besides the types: one print is fed by one greenlet, though PAUSE and CANCEL_PRINT return before the
\* worker has noticed: work_timer is set exactly while a worker is there.
OneWorker ==
    /\ TypeOK
    /\ \A v, w \in Workers : pc[v] # "idle" /\ pc[w] # "idle" => v = w
    /\ work_timer <=> \E w \in Workers : pc[w] # "idle"

\* Worker w hands a line to the dispatch in this step.
StartsLine(w) == pc[w] = "loop" /\ owner = "none" /\ owner' = w

\* The lines of a print are executed in order, none is skipped and none repeated
\* (but one that failed or was cut off): across chunks, loops, pauses, shutdowns and
\* power outages.
LinesInOrder ==
    [][\A w \in Workers : StartsLine(w) =>
           job \in cancelled \/ feed[w].cur = done + 1]_vars

\* Once PAUSE has ended no line of the file is executed until a command resumes.
NoLineWhilePaused ==
    [][\A w \in Workers : StartsLine(w) => ~paused]_vars

\* A worker waits for itself to stop.
OwnPause == \E w \in Workers : pc[w] \in {"wait_sent", "wait_m25", "wait_cancel"}

\* Every command of the client and every pause of a sensor ends, unless a command of
\* the file waits for the worker that runs it.
CommandsReturn ==
    \A p \in {"client", "sensor"} : pc[p] # "idle" ~> pc[p] = "idle" \/ OwnPause

\* What the help text of PAUSE says ("Pauses the current print"): a PAUSE that is
\* executed ends with the print paused, unless the printer shuts down or a command
\* clears the pause.
PauseEnds ==
    \A p \in Procs : pc[p] = "wait_sent" ~> is_paused \/ is_shutdown \/ pc[p] = "idle"

\* What the help text of CANCEL_PRINT says ("Cancel the current print"): after it no
\* line of the file is executed unless a print is started or resumed.
NoLineAfterCancel ==
    [][\A w \in Workers : StartsLine(w) => job \notin cancelled]_vars

\* What cmd_POWER_OUTAGE_RESUME() takes the record for ("move Z to: the position
\* before the outage + 5"): the height in the record is the height at the outage.
RecordedHeightIsReal == ~record.none => record.kinematic_z = record.actual_z
=============================================================================
