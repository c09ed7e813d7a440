# TLA+ models of the Centauri Carbon 2 firmware and its host

The repository is a 3D printer: a host application in C++ and C (`elegoo/`) that plans
the print, and a firmware in C (`src/`) for the micro-controllers that drive motors,
heaters and sensors. Host and micro-controllers exchange commands and reports over serial
lines. This directory holds TLA+ models of the parts where many things happen at once: the
serial protocol, the stop of a homing move across several micro-controllers, the step and
timer interrupts of the firmware and its outputs; and of the host, the reactor, the print job with its
pauses and power outages, the heaters with their supervision, and the tool head that gives moves
their times. TLC configurations check them on small instances, and TLAPS proofs show the results that
matter most for every size.

Paths below are relative to the repository; `PROJECT.json` maps every definition to the
lines it models.

## 1. Inventory

| Component | State | Operations | What is hard | What makes it correct | Module |
|---|---|---|---|---|---|
| Serial queue of the host, `elegoo/chelper/serialqueue.c` | sequence numbers, sent queue, byte counts, retransmit timer, waiting senders | build and send a block, handle ack / nak / garbage, retransmit | lost and damaged bytes, late acks, naks for data that was already sent again, 4-bit sequence numbers | each block executed once and in order; acknowledged = executed; nobody waits for ever | `SerialLink` |
| Block reception of the firmware, `src/command.c`, `src/generic/serial_irq.c` | receive buffer, next sequence, need-sync flag | find a block, ack, nak, dispatch, report | bytes arrive during a dispatch; full buffers drop bytes and messages | as above | `SerialLink` |
| Trigger synchronisation, `src/trsync.c`, `src/endstop.c`, `elegoo/chelper/trdispatch.c`, `elegoo/mcu.cpp` | trigger state and timers of each micro-controller, dispatch state, the homing move | start, set timeout, trigger, report, extend, stop, query | several micro-controllers, two threads of the host, lost reports, timeouts that race late answers | no axis runs on after another stopped; a hit is a hit; nothing leaks into the next move | `TriggerSync` |
| Steppers, `src/stepper.c`, and the move pool, `src/basecmd.c` | running move, position, queue of each stepper; free list | queue_step, set direction, reset clock, stop on trigger, step event, shutdown | interrupts in the middle of a command, moves that arrive after a stop | reported position = real position; no move node lost | `Stepper` |
| Digital outputs, `src/gpiocmds.c` | pin, software PWM, queued updates, end time | queue, update, timer events | wrapping clock, limits that hold on every path | a setting nobody renews ends in time | `DigitalOut`, `SafeOutput` |
| Hardware PWM, `src/pwmcmds.c` | value, queued updates, end time | the same | interrupts in the middle of a command | the same | `PwmOut`, `SafeOutput` |
| Timers and tasks, `src/sched.c`, `src/generic/timer_irq.c` | linked list of timers, insertion hint, task flags | add, delete, dispatch, reset; wake, sleep; shutdown | wrapping clock, stale hint, wake-up against sleep, longjmp | list whole and sorted, no timer missed; no sleep on work | `Sched`, `Tasks` |
| Reactor, `elegoo/reactor.cpp` | timers, next wake-up, greenlets and their pool, mutexes, completions | register, pause, lock, unlock, wait, complete, dispatch | callbacks change the timers under the loop that runs them; the dispatch loop moves from greenlet to greenlet | no timer is slept over; a mutex has one holder and reaches who waits | `Reactor` |
| Print job, `elegoo/extras/virtual_sdcard.cpp`, `pause_resume.cpp`, `print_stats.cpp` | stream and position, work timer, pause flags, saved heights, statistics, the record of an outage | load, start, pause, resume, cancel, clear, reset, restart from the record | worker, client and sensors wait for each other and for one mutex; shutdown and power loss anywhere | one worker; lines in order across pauses and outages; nothing printed in a pause; commands return | `PrintJob` |
| Heaters, `elegoo/extras/heaters.cpp` | target, control law, output and its age, faults | reading, set target, shutdown, sensor fault | the output must be renewed before the firmware's limit; the fault handler runs on the reader's thread | renewed in time; off in time | `Heater` |
| Supervision, `elegoo/extras/verify_heater.cpp`, waits of `heaters.cpp` | goal, error sum, fault flags, the wait | check, fault, wait, cancel | the PAUSE of a fault needs the mutex that the wait holds | a heater that does not heat is found in bounded time; nobody waits for ever | `VerifyHeater` |
| Tool head, `elegoo/toolhead.cpp` | look-ahead queue, print time, queuing state, flush and priming timers, step generation time | move, dwell, flush, wait, drip (homing), set scan window | timers race the command greenlet; late reactor; homing stops early | steps in order and before they are due; none forgotten; homing sends little ahead | `ToolHead` |
| Clock sync, message formats, G-code, boot loader, multi-material unit, sensors, drivers, camera, API | | | | | see section 8 |

How they interact: the host's objects (`mcu.cpp`) encode commands and hand them to the
serial queue, which runs in a thread of its own and calls `trdispatch.c` directly for trigger
reports (the fast path); the handlers of other reports are called by the thread of the serial
reader (`SerialReader::bg_thread`), and some of them hand their result to the reactor's thread. In the firmware, commands
run in a task of the main loop, step generation, endstop checks and pins run in timer
interrupts, and `sched_shutdown()` leaves whatever is running by a `longjmp`, after which
every part's shutdown handler runs. `trsync` stops steppers through signals.
On the host everything but the serial threads runs in the reactor: timers and
descriptors call back, a callback that pauses continues later in its own greenlet, and the commands
of the file, of the user and of sensors are serialised by one mutex of the G-code dispatch. The tool
head's timers generate steps and hand them to the serial queue; the heaters' outputs are commands
with a `max_duration` that the firmware enforces (`DigitalOut`); a shutdown of either side reaches the
other as an event.

## 2. The modules

Every module describes one part; where two parts only touch through a promise, that promise
is stated on its own and the part is shown to keep it.

* `ReliableChannel` is the promise of the serial link: blocks are executed once, in order,
  and acknowledged after that. `SerialLink` implements it (`ImplementsChannel`), and
  `TriggerSync` builds on it: its commands arrive in order and exactly once, but late, and
  its reports may be lost.
* `SafeOutput` is the promise of a pin with a `max_duration`. `DigitalOut` and `PwmOut`
  implement it.
* `Stepper` has the stop signal that `TriggerSync` reduces to "the stepper moves or not".
* `Heater` relies on the promise of `SafeOutput` from the other side: it renews its output within the
  limit after which a pin of the firmware ends by itself. `HeaterParameters` has the constants of
  `Heater` and `VerifyHeater` with their assumptions.
* `PrintJob` and `VerifyHeater` use the mutex and the greenlets of `Reactor` as atomic steps between two pauses;
  `ToolHead` homes with the drip move that `TriggerSync` ends.
* The `MC` modules make the instances for TLC. `MCSched` (`Tasks` and `Sched`), `MCHeater`
  (`VerifyHeater` and `Heater`) and `MCOutputs` (`ToolHead`, `DigitalOut`, `PwmOut`) put components side by side
  that do not read each other's state: a variable `part` says which of them is explored, the others rest.
* `SerialLinkProofs`, `StepperProofs`, `SchedProofs` (for `Sched` and `Tasks`), `HeaterProofs` (for `Heater` and `VerifyHeater`),
  `OutputsProofs` (for `ToolHead`, `DigitalOut` and `PwmOut`), `PrintJobProofs`, `ReactorProofs` and `TriggerSyncProofs` hold proofs.

### SerialLink

Actions of the host are the events of the background thread: `SendBlock`
(`build_and_send_command`), `RetransmitNak` and `RetransmitTimeout` (`retransmit_event`),
`HandleMessage` (`handle_message`, `update_receive_seq`), `HandleInvalid` (the nak of an
empty block), `SetReceiveWindow`. The wire loses and damages blocks; a retransmission flushes what the
operating system still holds (`tcflush`), so it keeps some prefix of the blocks under way and may cut
one in two. Of the firmware: `Deliver` (`serial_rx_byte`, per block), `FindBlock`, `FindBad`,
`FindLost` (`command_find_block`), `SendData`, `DispatchDone`, `DispatchShutdown`
(`command_dispatch`, where the shutdown abandons the rest of the block), `McuReset`.

A block carries its full sequence number as history and only `seq % SeqCount` is ever
compared. Contents are a length and whether somebody waits for the ack. A transmit time is the number of
the block it belongs to. `base` is the sequence number the firmware had when the
host connected: it may come from an earlier session. `executed` is history.

### TriggerSync

One record of `trsync` variables for each of the `n` micro-controllers, one of the `Sizes`; micro-controller 1 has the endstop.
`expire_ticks`, `report_ticks` and `min_extend_ticks` depend on `n`: `TriggerDispatch::start` takes a timeout of 0.25 s for a single
trsync and 0.025 s for several.
`ExpireEvent`, `ReportEvent`, `EndstopEvent`, `TrsyncTask`, `ProcessCommand`, `McuShutdown` are the
firmware; `ReceiveState` is `handle_trsync_state` of `trdispatch.c` followed by the handler in `mcu.cpp`;
`StartTrsyncs`, `StartDispatch`, `WaitEnd`, `StopDispatch`, `SendQuery`, `QueryAcked`, `Judge` are the
steps of `MCU_endstop::home_start` and `home_wait`, cut where other threads can come in between.
Simplifications: the fast reader and the handler of a report are one step; the clocks of the
micro-controllers are converted exactly; a stepper is a bit that says whether it moves; time starts
with the first homing move.

### Stepper

A record for each stepper with its pins, and history fields: `at` (steps the motor made), `to` (where
the running move must end), `halted`. `free` counts how often each node is on the free list, so that a
node freed twice is visible. `MoveAlloc` and `QueueStep` are the two halves of
`command_queue_step`: interrupts are enabled between them, and `cmd` holds the node meanwhile.
Times are left out: an event comes any time after the timer was added, and the two checks for lateness
("Timer too close", "Stepper too far in past") may end in a shutdown or not. The order in which the build
lists the shutdown handlers of `basecmd.c` and `stepper.c` comes from a script that is not in the
repository, so both outcomes are admitted.

### DigitalOut, PwmOut

The pin, its queue of updates and its timer on a clock that wraps around; `age` is history, the time since a
command set an output other than the default. Updates come in the order of their times, as the host
sends them, possibly too late. `PwmOut` splits `command_queue_pwm_out` where the code enables
interrupts. The host refuses a limited pin whose start value is not its shutdown value (`elegoo/mcu.cpp`),
so `Init` does too.

### Sched, Tasks

`Sched` keeps the timers as a linked list (`next`), with the stand-in for a deleted first timer, the sentinel and the
hint `last_insert`. Timer functions delete other timers, are done or go on, but never add
one (no timer function in the firmware does). An interrupt is served up to `Late` ticks late, which stands for
the repetition limits of `timer_dispatch_many`. `analog_in_shutdown` may add its timer again during a shutdown.

`Tasks` cuts `run_tasks`, `sched_check_wake` and `sched_wake_task` at every access to a variable that
interrupts use.

### Reactor

`q` has the vector of timers, their waketimes and `next_timer`; a greenlet has a program counter (in
`check_timers`, at an index of its loop, in a callback, paused, in the pool). `CheckTimers`, `Turn`, `PassEnd`, `Poll` are the
dispatch loop; `Pause`, `lock`, `unlock`, `wait`, `Complete`, `register_callback` and `Return` are what callbacks do, in any
order, up to `Ops[t]` of them. `Turn` iterates as the range-`for` of the code does: the index goes on although callbacks
erase timers (a one-shot callback its own, `end_greenlet()` that of the greenlet), the end is the one the loop
started with, and behind the shortened vector there are null pointers. A timer skipped in this way is put into `missed`, which is
history. Time passes by one in each `poll()`. One descriptor is ready at a time; the callbacks that
other threads queue are run by one of them (`got_pipe_signal`). Not modelled: `unregister_fd`, `finalize`, and whatever runs
on another thread: the handler of `adc_temp:fault` (`heaters.cpp:169`), called by the thread of the serial reader (`serialhdl.cpp:550`),
runs PAUSE there, so that `lock()` tests and sets `is_locked` without `mtx` (`reactor.cpp:180`) beside the reactor's thread, `getcurrent()` may
be null and `pause()` is called outside a greenlet. `OneHolder` and `LockIsGranted` are therefore about greenlets only. Somebody who holds the mutex does not wait for ever on a completion, and one periodic timer
does not pause (there are several in every configuration, for instance those of clock synchronisation).

### PrintJob

A step is what one greenlet does between two calls of `reactor->pause()`; in addition the worker may be interleaved
between two lines of the file, which over-approximates. Greenlets are two workers (the second to see whether it can ever exist), the client and a
sensor. `WorkHandler`, `Read`, `RunLine`, `LineDone`, `LineError`, `Exit` are `work_handler()`;
`PauseBegin` .. `CancelEnd` the commands, cut at their waits; `Shutdown`, `Recorded`, `PowerOutage`, `Restart`,
`OutageResume` the way over an outage. A wait passes at once when its condition is already false. The file is a
number of lines, a read returns `ReadLines` of them, and the failed state of the stream at the end is kept, since `if (current_file)`
depends on it. Abstractions: the option `power_outage_enable` is 1; a file ends in a newline; M26 exists only as part of
POWER_OUTAGE_RESUME; temperatures, fans and canvas of the record are left out, and so are the seek and read of `handle_shutdown()` for
the log; whether the head goes to the waste box is nondeterministic; an event of
a sensor may come at any time (`RunoutEvent`): the filament sensor asks `print_stats`, but the cover and tangling sensors ask `idle_timeout`, which says
Printing after any move, of a macro or of the client too, until the head has come to rest; SDCARD_LOOP never repeats.

### Heater, VerifyHeater

In `Heater` time is counted in readings, and the control law is any choice of an output. A bad reading in a print runs
PAUSE on the thread of the serial reader, which may never return, so there is no fairness for `ReaderReturns`; `Lapse` is then the
firmware's shutdown by `max_duration`. The shutdown flags of the heater and of the printer are one. In `VerifyHeater` temperatures
are integers and change in any way; `check_event` is the timer's callback, `set_temperature` and
`wait_for_temperature` the command that holds the mutex, `PauseOfFault` and `CancelPrint` those that need it.

### ToolHead

Times are integers and the reactor's clock is the estimated print time; a timer or a greenlet runs at most `Latency` late. The
queue is a number of moves, whose durations are chosen when they are processed; a lazy flush processes any prefix. One greenlet
executes commands. `th` holds the members of the class and the set of steps not sent yet. `_handle_shutdown` drops the look-ahead queue
(`lookahead.reset()` on the shared pointer): what uses the queue after that dereferences null, which the model records as `crashed`.
`check_stall_time` and `print_stall`, `junction_flush` and exceptions of handlers are not modelled.

## 3. Properties

SerialLink
: `SenderConsistent` the sent queue is exactly the window, its bytes are counted, the timer runs while
  it is not empty, and naks repeat no block more than twice. `InOrderExactlyOnce`, `NoAckedBlockLost`. `NotifiedAfterDispatch` a sender that waits for
  an acknowledgement is woken only after the firmware has finished dispatching its block: a report sent from inside the dispatch does
  not wake it. `WindowKept` first transmissions alone never overrun the receive buffer (`FirstCopiesFit`), and the sender is consistent over a restart.
  `TimesAreReal` the times that the round-trip estimate and clock synchronisation use are unambiguous.
  `EveryBlockAcked` (liveness). `ImplementsChannel` (refinement).

TriggerSync
: `StopsTogether` when one micro-controller has stopped, no stepper of another one moves for more than `expire_ticks`.
  `HitsAreReal` the host reports a hit only if the endstop ended the move of its own micro-controller, every axis has
  stopped and none of them because of a timeout. And it stops waiting early only if something stopped or was shut down.
  `QuietAfterMove` nothing of a homing move is left for the next.

Stepper
: `MovesConserved` each node has exactly one holder. `PositionIsReal` `stepper_get_position` is the number of steps
  made, at any moment. `ArrivesWhereSent`. `HaltedUntilReset` moves that arrive after a stop are dropped. `MovesReturn` (liveness).

DigitalOut, PwmOut
: `PinSafeOutputSpec`, `PwmSafeOutputSpec` (refinement of `SafeOutput`), `PinsOnTime` an update takes effect at its time. It includes the type invariants,
  which also say that the timer is never in the past, and in `PwmOut` that an event always finds its update.

Sched, Tasks
: `TimersIntact` the list is sorted and holds what was added, the hint is on it; `NoTimerMissed`; `NoSleepOnWork`, `WokenTaskRuns` (liveness).

Reactor
: `OneHolder`; `Covered` while the reactor sleeps it will wake for every timer its last pass did not skip; `TimersRun` (liveness) every
  timer runs, skipped ones too, because the next pass finds them; `LockIsGranted` (liveness).

PrintJob
: `OneWorker` though PAUSE and CANCEL_PRINT may return before the worker has noticed; `LinesInOrder` none skipped or repeated, across
  chunks, pauses, shutdowns and outages; `NoLineWhilePaused`; `CommandsReturn` (liveness). `PauseEnds`,
  `NoLineAfterCancel` and `RecordedHeightIsReal` do not hold, see the findings.

Heater, VerifyHeater
: `RenewedInTime` a steady output is renewed before the firmware would shut down; `OffInTime` an output no longer wanted ends;
  `FaultInTime` a heater without progress is reported within the longer of `check_gain_time` and `max_error`; `WaitEnds`, `MutexIsGivenUp`
  the wait that holds the mutex gives it up for a fault, a cancelled print or a shutdown. `BlockedIsVisible` (proved only) a heater whose check is held up is marked faulty.

ToolHead
: `StepsInOrder` new moves start no earlier than steps were generated; `SentInTime` steps are sent before they are due; `NothingForgotten` unsent steps
  always have a timer or a greenlet that will send them; `DripIsShort` a homing move is sent only a little ahead.

Type invariants are part of the first property of a run (in `TriggerSync` of `StopsTogether`), or proved.

`HitsAreReal` is stated for at most one lost report where it speaks of timeouts: with two lost reports TLC shows a
move whose second micro-controller timed out and that is reported as a hit. No
document of the repository claims more, so this is a limit of the property and not a finding.
Its part on the end of the wait speaks of moves before the first query that was given up: `home_wait` then fails with the
micro-controllers behind the silent one not asked, these go on reporting, and the next move takes such a report for its own.
`NoSleepOnWork` is stated up to the first shutdown: the `longjmp` of a shutdown
leaves the round of tasks, and a task that was already marked then waits for the periodic timer. That it still runs
is `WokenTaskRuns`.

## 4. Runs

| Run | Instance | Question |
|---|---|---|
| `serial_link` | modulus 3, window 2, sequence numbers up to 4, 1 fault, any start | safety, refinement, liveness |
| `serial_link_window` | modulus 4, window 3, blocks of 1 and 2 bytes, one restart of the firmware | the byte window, consistency of the sender |
| `trigger_sync` | 2 micro-controllers, one lost report, timeout 1, time up to 4; 1 micro-controller, 2 samples, 2 moves, shutdown, time up to 6 | stop together, verdict of the host, nothing left over |
| `stepper` | 2 steppers of both kinds, 2 nodes, moves of 0, 1, 2 steps | safety, nodes come back |
| `scheduler` | 3 tasks, 2 shutdowns; 3 timers and the built-in ones, clock of 14 ticks | the loop and the list |
| `print_job` | 3 lines in chunks of 2, 3 commands of 9 kinds, 6 kinds of lines, one event | the print job |
| `print_pause`, `print_cancel`, `print_outage` | the smallest that shows each finding | findings |
| `heater` | 4 temperatures, 3 targets, 3 commands; outputs up to 4 of a limit of 12 | output and supervision |
| `output_timing` | tool head: buffer of 7, latency 2, times up to 8; pins: clock of 24 ticks, limit 5, 2 and 3 updates queued | times of steps and of pins |
| `reactor` | 3 greenlets, a heartbeat, a work timer of 2 operations, a one-shot callback and a descriptor of 1 | timers and mutex |

Findings. (1) `print_pause`: a PAUSE that is a line of the file waits for the worker that executes it, for ever. (2)
`print_cancel`: a CANCEL_PRINT during the last, short chunk finds the stream failed, leaves worker and file alone, and the rest is
printed. (3) `print_outage`: the heights saved by a paused and then cancelled print are taken for the height of the next one at an
outage. `PROJECT.json` quotes the lines. Two more observations have no line of the repository against them: the loop of
`check_timers()` skips the timer behind one that is erased, which makes it late until another is due (`missed` in `Reactor`), and a shutdown drops the
look-ahead queue that the flush and priming timers, homing and the idle timeout's `check_busy` still use (`crashed` in `ToolHead`).

Why the bounds are enough. Serial: a modulus of 3 and a window of 2 is the tightest case the
protocol allows (the window is smaller than the modulus; in the code 12 and 16), numbers up to 4 go round it, and a fault together with
premature timeouts reaches a nak for a block that was already sent again and a late ack after it. The bound on sequence numbers and on the wire is a guard of
`SendBlock` and the retransmissions. TriggerSync: all timers fire, reports cross
triggers, and timeouts are extended at least once within the bound on time. Stepper: two nodes
reach overflow, a queue behind a running move and a node held by a command; two kinds of steppers; the position reaches its top bit
with `Bias` 2. Pins: the clock wraps within one setting (`Init` starts at both ends), and twice the longest distance
still fits in it, which is the assumption of `timer_is_before`. Sched: three timers give every relation of a new timer, the first, the hint and the
periodic one. PrintJob: three lines give a full and a short chunk; three commands give start, pause and resume or cancel, around one event. Tool head:
all queuing states are reached and left, both delays of step generation, pauses and homing with and without a trigger; a latency of 3 violates
`SentInTime`, so the margin is met exactly. Heater: `Delay + MaxGap = Quarter` is the tightest timing the assumption admits. Reactor: three
greenlets are the fewest with a holder, somebody who waits and a dispatcher.

Deadlock is checked except where the bounds let a run end: TriggerSync (time), Stepper, DigitalOut and PwmOut (a shut-down firmware may
stay so), PrintJob and the heaters (no commands are left), the tool head (time).

## 5. Fairness

* SerialLink: the poll loop of the host runs due timers and reads input; bytes under way arrive; the firmware's main loop runs the
  console task; a dispatch ends. No fairness for new blocks, faults, reports or restarts. Faults are bounded, which stands for
  "once the noise stops".
* Stepper: timer interrupts are served and a command that has its node goes on.
* Tasks: the main loop goes on and the periodic timer fires.
* Reactor: its one thread goes on, and callbacks end (`Ops`).
* PrintJob: each greenlet goes on when it is not waiting: the reactor runs its timer.
* VerifyHeater: the checks' timer fires, a wait is woken, whoever is given the mutex goes on. None for readings, commands or shutdowns.

## 6. Proofs

`SerialLinkProofs` proves, for every modulus, window, length and bound with
`LinkAssumption` (in essence: the window is smaller than the modulus), `ExactlyOnce`, `AckedIsExecuted`,
`WokenAfterDispatch`, and, without firmware restarts, `LinkImplementsChannel`.
The properties are not inductive. The invariant `IndInv` adds why four bits of a sequence number suffice:

* `SentWindow`: the sent queue is the window `receive_seq .. send_seq - 1`, of at most `MaxPending` blocks;
* `InStep`: the firmware's `next_sequence` is inside this window (or still where the host found it);
* `WireInv`: a block under way is less than a modulus behind `next_sequence`, and a block is never a
  whole window behind one in front of it. The second part is needed for the first: when the
  firmware accepts a block, those behind it must still be near;
* `FrameInv`: messages to the host are in order and between its window and the firmware, and an ack is never for
  the block in dispatch;
* `ExecInv`: what was executed.

With them `SameLowBits` (numbers less than a modulus apart with equal low bits are equal) turns each masked
comparison in the code into one of full numbers. All parts speak of sessions without a restart of
the firmware (`resets = 0`), except the window.

`AlwaysSenderConsistent`, which holds over restarts too, and `AlwaysTimesAreReal` need more about the sender (`SenderInv`):

* `Accounted`: `need_ack_bytes` is the sum of the lengths in the sent queue, and the timer runs exactly while the queue is not empty;
* `Again`: a block that was sent again is before `retransmit_seq`, and one sent again for two naks before `ignore_nak_seq`, so that
  a third nak for it is not heeded;
* `Sampled`: the blocks from the timed one on were sent once, and the time kept is that of the last block acknowledged;
* `Asked`: a message sent inside a dispatch carries the number behind the block in dispatch.

`AlwaysWindowKept` proves the byte window of `check_send_command`, over restarts and for all lengths with `WindowAssumption`: the receive buffer takes
two blocks of the greatest length and the identify requests of a full window (in the code 192 bytes for blocks of 64, and 13 requests of about ten bytes). The invariant `Windowed`:

* `Covered`: from any number `r` at or behind `receive_seq` on, the first copies under way have at most the bytes of the sent queue from `r` on. It is stated for every `r`
  because an acknowledgement takes blocks off both sides;
* `Ordered`: first copies are under way in the order of their numbers; `Ahead`: behind the first block executed they are still to be executed, except the one
  that is held in the buffer during its dispatch;
* `Unacked`: the held block is not yet acknowledged; if a response sent inside its dispatch took it off the sent queue, `last_ack_bytes` counts it. This is why
  the code adds `last_ack_bytes` to the count: the bytes are still in the buffer;
* `AllSized`, `Known`, `Small`: a copy is no longer than its block in the sent queue; the buffer size is known only after the firmware has executed a block, and
  all blocks sent before that are identify requests.

`UnderWayBound` puts them together to the count of `check_send_command`, from which each step of the sender follows.

The sum over a queue is a recursive function. What is needed of it (appending, dropping the first) is proved by induction over the natural numbers,
which is stated for sets of numbers (`Smallest`, `NatSetInduction`) and follows from `WFMin`.

`SchedProofs` proves, for any number of tasks and timers and any width of the clock with `SchedAssumption` (twice the period, the
reach of a timer and two latenesses fit into one turn), `NoSleep`, `AlwaysTimersIntact` and `AlwaysNoTimerMissed`. Of the main loop `TasksInv` says that
a marked task is requested, or its turn in this round is to come. Of the timers `ListInv` replaces links and wrapped times by something that can be reasoned about:

* `Chain`: the links from `timer_list` on are a sequence without repetition that ends at the sentinel;
* `Members`: on it are exactly the active timers, the periodic one and the sentinel; the stand-in `deleted_timer` can only be first;
* `Timed`: counted in ticks left until a timer would be missed (`Left`), all times are within the horizon and sorted. `BeforeIsLess`
  shows that `timer_is_before` is the order of these numbers, and `BeforeSentinel` that the sentinel, half a turn behind the periodic timer, counts as later
  than whatever is inserted.

There is one lemma for each way in which the list changes (`ListedInsert`, `ListedFront`, `ListedWithout`), from which adding, deleting,
resetting, being done, going on and the passing of time follow. `LaterExists` is why the search of `insert_timer` ends before the list does.

`StepperProofs` proves, for any number of steppers and nodes, any counts and any travel below `Bias`, all safety
properties of `Stepper`: `PositionIsReal`, `ArrivesWhereSent`, `HaltedUntilReset`, `MovesConserved` and `TypeOK`.
The invariant of a stepper (`StepperInv`) has three parts:

* `Motion`: `position` is `Bias + to` while the axis runs forward and `3 * Bias - to` while it runs backward, so that the
  top bit tells the direction and the negation in `stepper_get_position` gives the same place. This is where
  `Travel < Bias` is needed. In the middle of a pulse `count` is odd exactly if the step pin is up;
* `Chain`: the queued moves lead from one to the next, and a move has its `dir` flag exactly if it runs the other
  way than the move before it; `last_dir` is the direction of the last. Without it nothing could be said of the move that is loaded next;
* `Rest`: a stepper without steps to make has nothing queued, and one that needs a reset makes no steps.

`CommandInv` carries the command that waits between its two halves over a stop in between: its move then either fits the travel or will be dropped.
For the pool, `StepEffect` sorts all steps into seven kinds by what they do with nodes (keep, free all, hand out,
push, release, load, stop), and `PoolInv` says that a node is free, in the command or at one place of one queue; a trigger frees
each node once because no two queues share one.

`HeaterProofs` has both parts of a heater. `AlwaysRenewedInTime` and `AlwaysOffInTime` hold for every output, control law and timing with
`Delay + MaxGap <= Quarter`: `AgeInv` bounds the age of an output by what a reading would renew, and ties the unwanted time to it.
`AlwaysFaultInTime` and `AlwaysBlockedIsVisible` hold for all parameters. `CheckInv` is the strengthening: while the heater approaches,
the checks since the last progress and the time left to the goal add up to at most `check_gain_time`; while it holds, the checks are at most the error sum; a
check in PAUSE has raised its fault.

`OutputsProofs` proves `AlwaysPinsOnTime`, `PinImplementsSafeOutput` and `PwmImplementsSafeOutput` for every width of the clock, limit and
queue length with `OutAssumption` (twice the sum of the limit and the reach of an update fits into one turn). `Gap(a, b)`, the ticks from one time to
another on the wrapping clock, carries the arithmetic. `PwmInv` says that the queue is sorted, nothing on it is in the past and the timer is that of the first
update (`PwmQueue`), and that the age of an output and the time left until the next event are together at most the limit (`PwmLimit`).
`PinInv` has the same parts for the digital pin (`PinTimer`, `PinQueue`, `PinLimit`), whose one timer serves the updates, the toggling and the end of the limit. The
limit parts give the refinement: an output other than the default ends, or is set again, before its age exceeds `MaxDuration`.

`OutputsProofs` also proves `StepsInOrder`, `SentInTime`, `DripIsShort`, `NothingForgotten` and `TypeOK` for all buffer times, delays and moves that meet
`LatencyAssumption`: the reactor is late by no more than DRIP_TIME, BGFLUSH_LOW_TIME and BUFFER_TIME_START, and the scan window, the compression window and the
lateness fit into BUFFER_TIME_LOW. The invariant `Inv` is `TypeOK`, `Good` outside a drip move, `Dripping` inside one, and an empty queue in the
dwells of homing. `MCOutputs` explores the tool head beside the pins; that its steps are steps of `ToolHead`, so that all of this holds there too, is the lemma `ComposedToolHead`. `Good` orders the times (what was sent, what was generated, print time), and says for each queuing state which timer is set and that
it fires before the earliest unsent step is due; `Dripping` says the same of the wake-up of the homing greenlet, since the flush timer is off.

`AlwaysNothingForgotten` proves `NothingForgotten` with a second invariant, `Soon`, on top of `Inv`. `Good` keeps the flush timer set while anything is unsent,
but only if no computed time is itself equal to NEVER: a timer set to such a time would never run. So `Soon` bounds print time from command to command
(`Reach`: `Lead` for each `_calc_print_time()`, the moves of the queue once, the delays of a homing move in its two dwells) by `Horizon`, which
`NeverAssumption` puts below NEVER (9999999999999999 s in the code), and says what the queue waits for (`Primed`): nothing is queued in NeedPrime, and the priming timer
is set in Priming. That `need_check` is -1 in NeedPrime belongs to it: otherwise the first move would not reach `_check_pause()` and no timer would be set for it.

`PrintJobProofs` proves `OneWorkerHolds`, `LinesInOrderHolds` and `NoLineWhilePausedHolds` for every file length, chunk and choice of
commands. The parts of `Inv`:

* `MutexInv`: who executes a line or a command holds the mutex of the G-code dispatch, and who waits is queued once;
* `WorkerInv`: the work timer exists exactly while there is one worker. `PauseInv`: a worker that is still there after a pause or
  a shutdown has been told to stop, so that a resume meanwhile does not start a second one;
* `InPlace`: the file position is the number of lines executed, unless the print is cancelled or being cancelled;
* `FeedInv`: the next line of a worker's chunk is the one behind the lines executed, unless the print is cancelled. `Records`: a record of an outage continues behind
  the lines executed;
* `CancelInv`: while a cancel waits for the worker, `is_over_work` is set.

`ReactorProofs` proves `OneHolderHolds` and `CoveredHolds` for any number of greenlets and timers. The parts of `Inv`:

* `Running`: one greenlet runs, the dispatcher or the one that it resumed; `Pooled`: one in the pool is there once and runs nothing; `Idle`: outside a
  callback a greenlet neither holds the mutex nor waits for it;
* `TimersInv`: a greenlet has a timer from its first pause to the end of its callback, and none is on the vector twice. Without it
  erasing a timer inside the loop could leave a second copy;
* `MutexInv`: a mutex handed over through `next_pending` counts as held by the greenlet that is to get it;
* `LoopInv` and `CoverInv`: at each index of the range-`for`, `next_timer` is no later than any timer left behind, except those that it
  skipped (`missed`).

`TriggerSyncProofs` proves `SteppersStopTogether`, `NothingLeftOfAMove`, `WaitEndsForAReason` and `ReportedHitsAreReal` for any number of
micro-controllers, all timings, and any number of moves, lost messages and shutdowns. The invariant `IInv` says of each micro-controller (`Machine`):

* `Firmware`: only a trsync that can trigger moves a stepper, and its timeout lies ahead; one that is shut down does nothing;
* `Line`: `trsync_start`, `stop_on_trigger` and `set_timeout` arrive one behind the other, so that a trsync that can trigger has its signal and
  its timeout, unless the next command sets it;
* `Timed`, `Clocks`: the heart of `StopsTogether`. What the host knows of `k` is no later than the stop of `k` or the start of the move (`Known`), and a
  timeout of another micro-controller, set or under way, is at most `expire_ticks` later (`Bound`). `StatusFacts` shows that the
  minimum and second minimum of `handle_trsync_state` are no later than the status of any other micro-controller;
* `Answers`: a query is the last command of a move and its acknowledgement the last message, and behind it everything is quiet (`QuietIn`);
* `Starts`, `Completing`, `Reported`: a `trsync_start` that has not arrived finds the last move settled, so that reports and reasons are of this move.

`Host` has the order of the queries (`Asking`), the switching off of the endstop (`Endstop`) and the verdict (`Judged`). The queues are described
by predicates (what they contain, what is behind what) for which one lemma each says how appending a command and taking the first one changes them; the
actions are then proved with these lemmas alone.

`ReportedHitsAreReal` needs a second invariant, `HInv`, which is inductive together with `IInv`. Its argument: a micro-controller that has timed out
says so twice, in the answer to the trigger that the fast dispatch sends to all others and in the answer to the query, so that one
loss cannot hide it.

* `Credit`: once the wait is over, some micro-controller has timed out and nothing else can be heard from it (`Sure`), so that the verdict is a timeout; or
  every one is `Told`: it did not time out and will not (`Fine`); or it is still to be asked and, if nothing was lost, told to stop or has said
  why (`UnsentTold`); or it is being asked and its timeout is said twice, or once after a loss (`CurrentTold`); or it was asked
  and its timeout is known (`PastTold`);
* `Waits`: until then the fast dispatch is ready to tell all others; `Early`: before the endstop is checked a trsync stops only for a timeout;
* `GaveUp`, `Mute`: a query without an answer means a loss or a shutdown; `Sorted`: behind a report of a timeout there are only such
  reports, so that the last one received is not an older one;
* `Unhidden`: what follows for the verdict.

The bound of one loss is exact: with two, TLC finds the hidden timeout of section 3.

Every safety property of the passing runs is stated by a theorem. Only model-checked is liveness (`EveryBlockAcked`, `MovesReturn`, `WokenTaskRuns`, `CommandsReturn`, `WaitEnds`, `MutexIsGivenUp`,
`LockIsGranted`, `TimersRun`), which needs fairness and `ENABLED`.

## 7. Plan

In this order:

1. homing on top of the reactor: several endstops in one wait, the query with retries, the order of shutdown handlers;
2. an abstract specification of a print job that is printed once from start to end, implemented by `PrintJob`;
3. the two threads of `serialqueue.c` and its clock-ordered queues;
4. the multi-material unit; the 32 to 64 bit clock of `clocksync.cpp`; VLQ encoding against its decoding; compression of
   steps within their error bounds; the boot loader's protocol; analog inputs and buttons of the firmware.

## 8. Not modelled

`PROJECT.json` lists every component with a reason. In short: floating-point code (kinematics, look-ahead, step generation, control
laws, resonance measurement) is out of reach of both tools; text, sockets, files, camera and register access are
I/O; libraries are third-party. Of the components above, what remains is said in their notes.

Known to be delicate and outside the modules: the handlers of `elegoo:shutdown` run in one try block, so an exception of one skips the
later ones (`printer.cpp:238`); `do_send` answers a failed query with an empty object (`mcu.cpp:158`); `multi_complete()` with several
endstops waits for the first one only (`homing.cpp:42`); `get_response()` repeats queries, which
must therefore be idempotent (`serialhdl.cpp:691`); `ReactorMutex::lock()` is called by two threads when a sensor fails in a print (`heaters.cpp:169`); `PauseResume` keeps one flag for the faults of all heaters (`pause_resume.cpp:78`).
