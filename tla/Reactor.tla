------------------------------- MODULE Reactor -------------------------------
(***************************************************************************)
(* The reactor of the host (reactor.cpp): timers, greenlets, the mutex and *)
(* the completion.  All host code runs in callbacks of timers and of file  *)
(* descriptors, on one thread; a callback that pauses gives the dispatch   *)
(* loop to another greenlet and is resumed by a timer of its own.          *)
(* (The handler of adc_temp:fault in heaters.cpp is the exception: it may  *)
(* call lock() and pause() on the thread of the serial reader, where       *)
(* is_locked is tested and set unprotected.  It is not modelled.)          *)
(*                                                                         *)
(* Times are relative to the present: a timer with waketime 0 is due.      *)
(* Time passes while the reactor polls.  A callback is a sequence of       *)
(* operations of the reactor, any but of bounded length.                   *)
(***************************************************************************)
EXTENDS Integers, Sequences, SequencesExt

CONSTANTS
    Greenlets,      \* bound: the greenlets that may be created
    Periodic,       \* timers that set their next waketime themselves
    Callbacks,      \* the one-shot timers of register_callback()
    Period,         \* the waketime that a periodic timer returns
    Delays,         \* the delays of pause() and wait(), finite ones
    NEVER,
    Fd,             \* stands for the timer of what a file descriptor calls
    Ops             \* bound: the operations of the callback of each of these

ASSUME ReactorAssumption ==
    /\ Greenlets # {} /\ IsFiniteSet(Periodic)
    /\ Period \in Nat \ {0} /\ Delays \subseteq Nat /\ NEVER \in Nat
    /\ Ops \in [Periodic \cup Callbacks \cup {Fd} -> Nat]
    /\ \A d \in Delays \cup {Period} : d < NEVER
    /\ Periodic \cap Callbacks = {} /\ Greenlets \cap (Periodic \cup Callbacks) = {}
    /\ \E t \in Periodic : Ops[t] = 0       \* its callback never pauses
    /\ Fd \notin Periodic \cup Callbacks \cup Greenlets

VARIABLES
    q,              \* timers, their waketimes, next_timer
    gl,             \* the greenlets: where each is
    g_dispatch, cur,\* the greenlet of the dispatch loop, and the one that runs
    greenlets,      \* those to be used again
    mutex,          \* a ReactorMutex
    completed       \* result of a ReactorCompletion is set

vars == <<q, gl, g_dispatch, cur, greenlets, mutex, completed>>

Less(a, b) == IF a <= b THEN a ELSE b

\* A greenlet g has a timer of its own, named g, while a callback in it is paused.
Timers == Periodic \cup Callbacks \cup Greenlets

-----------------------------------------------------------------------------
(* Timers.  missed is not in the code: the timers that the loop over timers *)
(* has passed over, because an earlier one was erased under its iterator.   *)

update_timer(r, t, w) == [r EXCEPT !.wake[t] = w, !.next = Less(@, w)]

register_timer(r, t, w) == [update_timer(r, t, w) EXCEPT !.timers = Append(@, t)]

\* A timer is registered once.  The loop is at timers[i] (0: no loop goes on).
unregister_timer(r, t, i) ==
    [r EXCEPT !.wake[t] = NEVER,
              !.timers = RemoveFirst(@, t),
              !.missed = IF i \in DOMAIN r.timers /\ i + 1 \in DOMAIN r.timers
                            /\ t \in {r.timers[k] : k \in 1..i}
                         THEN @ \cup {r.timers[i + 1]} ELSE @]

-----------------------------------------------------------------------------
Fresh == [at |-> "none", i |-> 0, end |-> 0, t |-> Fd, why |-> "run", ops |-> 0, holds |-> FALSE]

Init ==
    /\ q = [timers |-> SetToSeq(Periodic), wake |-> [t \in Timers |-> IF t \in Periodic THEN 0 ELSE NEVER],
            next |-> 0, missed |-> {}]
    /\ g_dispatch = (CHOOSE g \in Greenlets : TRUE) /\ cur = g_dispatch
    /\ gl = [g \in Greenlets |-> IF g = cur THEN [Fresh EXCEPT !.at = "check"] ELSE Fresh]
    /\ greenlets = <<>>
    /\ mutex = [is_locked |-> FALSE, next_pending |-> FALSE, queue |-> <<>>]
    /\ completed = FALSE

At(g, s) == cur = g /\ gl[g].at = s

\* A callback starts in greenlet g.
Begin(f, t) ==
    [f EXCEPT !.at = "task", !.t = t, !.ops = Ops[t]]

\* The index at which the loop of the current dispatcher stands.
Index == gl[g_dispatch].i

\* check_timers(): nothing to do before next_timer.
CheckTimers(g) ==
    /\ At(g, "check")
    /\ IF q.next > 0
       THEN gl' = [gl EXCEPT ![g].at = "poll"] /\ q' = q
       ELSE /\ gl' = [gl EXCEPT ![g].at = "pass", ![g].i = 1, ![g].end = Len(q.timers)]
            /\ q' = [q EXCEPT !.next = NEVER]
    /\ UNCHANGED <<g_dispatch, cur, greenlets, mutex, completed>>

\* One turn of its loop.  Past the vector, up to where it ended when the loop
\* began, there are null pointers.
Turn(g) ==
    LET f == gl[g]
        t == q.timers[f.i]
        due == f.i <= Len(q.timers) /\ q.wake[t] = 0
    IN  /\ At(g, "pass") /\ f.i <= f.end
        /\ \/ /\ ~due
              /\ gl' = [gl EXCEPT ![g].i = @ + 1]
              /\ q' = IF f.i <= Len(q.timers)
                      THEN [q EXCEPT !.next = Less(@, q.wake[t]), !.missed = @ \ {t}] ELSE q
              /\ cur' = cur
           \/ /\ due /\ t \in Greenlets
              /\ gl' = [gl EXCEPT ![g].at = "lambda", ![t].at = "task"]
              /\ q' = [q EXCEPT !.wake[t] = NEVER, !.missed = @ \ {t}]
              /\ cur' = t
           \/ /\ due /\ t \in Periodic
              /\ gl' = [gl EXCEPT ![g] = Begin(@, t)]
              /\ q' = [q EXCEPT !.wake[t] = NEVER, !.missed = @ \ {t}]
              /\ cur' = cur
           \/ /\ due /\ t \in Callbacks     \* ReactorCallback::invoke()
              /\ gl' = [gl EXCEPT ![g] = Begin(@, t)]
              /\ q' = unregister_timer([q EXCEPT !.missed = @ \ {t}], t, f.i)
              /\ cur' = cur
        /\ UNCHANGED <<g_dispatch, greenlets, mutex, completed>>

PassEnd(g) ==
    /\ At(g, "pass") /\ gl[g].i > gl[g].end
    /\ gl' = [gl EXCEPT ![g] = [Fresh EXCEPT !.at = "poll"]]
    /\ UNCHANGED <<q, g_dispatch, cur, greenlets, mutex, completed>>

-----------------------------------------------------------------------------
(* Operations of a callback; h is its greenlet.                             *)

\* Mutant: the next dispatcher does not look at the timers at once.
PauseTimerOnly(r, h, w) == register_timer(r, h, w)

\* The timer that resumes greenlet h; the next dispatcher looks at all timers.
PauseTimer(r, h, w) == [register_timer(r, h, w) EXCEPT !.next = 0]

New == {g \in Greenlets : gl[g].at = "none"}

\* A greenlet used again returns from end_greenlet(): out of check_timers(), or
\* out of the loop over the file descriptors.
Resumed(g) ==
    [Fresh EXCEPT !.at = IF gl[g].at = "pool" /\ gl[g].t # Fd THEN "poll" ELSE "check"]

\* pause(): the dispatcher gives the loop to another greenlet; a greenlet that
\* was resumed by a timer returns to the dispatcher with the next waketime.
pause(r, h, f, w) ==
    /\ IF h = g_dispatch
       THEN LET g == IF greenlets # <<>> THEN Last(greenlets) ELSE CHOOSE n \in New : TRUE
            IN  /\ greenlets # <<>> \/ New # {}
                /\ greenlets' = IF greenlets # <<>> THEN Front(greenlets) ELSE greenlets
                /\ q' = PauseTimer(r, h, w)
                /\ gl' = [gl EXCEPT ![h] = [f EXCEPT !.at = "wait", !.i = 0, !.end = 0],
                                    ![g] = Resumed(g)]
                /\ g_dispatch' = g /\ cur' = g
       ELSE /\ q' = update_timer(r, h, w)
            /\ gl' = [gl EXCEPT ![h] = [f EXCEPT !.at = "wait"],
                                ![g_dispatch].at = "pass", ![g_dispatch].i = @ + 1]
            /\ cur' = g_dispatch
            /\ UNCHANGED <<g_dispatch, greenlets>>

Op(h) == At(h, "task") /\ gl[h].why = "run" /\ gl[h].ops > 0
Used(h) == [gl[h] EXCEPT !.ops = @ - 1]

Pause(h) ==
    /\ Op(h)
    /\ \E w \in Delays : pause(q, h, Used(h), w)
    /\ UNCHANGED <<mutex, completed>>

\* Mutant: a mutex that is being handed over is taken.
LockFreeEarly == ~mutex.is_locked \/ mutex.next_pending

LockFree == ~mutex.is_locked

lock(h) ==
    /\ Op(h) /\ ~gl[h].holds
    /\ \/ /\ LockFree
          /\ mutex' = [mutex EXCEPT !.is_locked = TRUE]
          /\ gl' = [gl EXCEPT ![h] = [Used(h) EXCEPT !.holds = TRUE]]
          /\ UNCHANGED <<q, g_dispatch, cur, greenlets>>
       \/ /\ ~LockFree
          /\ mutex' = [mutex EXCEPT !.queue = Append(@, h)]
          /\ pause(q, h, [Used(h) EXCEPT !.why = "lock"], NEVER)
    /\ UNCHANGED completed

\* The greenlet wakes in lock(): in vain, unless the mutex is handed to it.
LockWakes(h) ==
    /\ At(h, "task") /\ gl[h].why = "lock"
    /\ IF mutex.next_pending /\ Head(mutex.queue) = h
       THEN /\ mutex' = [mutex EXCEPT !.next_pending = FALSE, !.queue = Tail(@)]
            /\ gl' = [gl EXCEPT ![h].why = "run", ![h].holds = TRUE]
            /\ UNCHANGED <<q, g_dispatch, cur, greenlets>>
       ELSE pause(q, h, gl[h], NEVER) /\ mutex' = mutex
    /\ UNCHANGED completed

\* Mutant: the first of the queue is not woken.
HandOverSilently == q

HandOver == update_timer(q, Head(mutex.queue), 0)

unlock(h) ==
    /\ At(h, "task") /\ gl[h].why = "run" /\ gl[h].holds
    /\ gl' = [gl EXCEPT ![h].holds = FALSE]
    /\ IF mutex.queue = <<>>
       THEN mutex' = [mutex EXCEPT !.is_locked = FALSE] /\ q' = q
       ELSE /\ mutex' = [mutex EXCEPT !.next_pending = TRUE]
            /\ q' = HandOver
    /\ UNCHANGED <<g_dispatch, cur, greenlets, completed>>

\* wait() on the completion, for ever or with a time limit; who holds the mutex
\* does not wait for ever.
Waiters == {g \in Greenlets : gl[g].why = "completion"}

wait(h) ==
    /\ Op(h) /\ ~completed
    /\ \E w \in Delays \cup (IF gl[h].holds THEN {} ELSE {NEVER}) : pause(q, h, [Used(h) EXCEPT !.why = "completion"], w)
    /\ UNCHANGED <<mutex, completed>>

WaitWakes(h) ==
    /\ At(h, "task") /\ gl[h].why = "completion"
    /\ gl' = [gl EXCEPT ![h].why = "run"]
    /\ UNCHANGED <<q, g_dispatch, cur, greenlets, mutex, completed>>

\* complete(): the greenlets that wait become due.
complete(r) ==
    IF Waiters = {} THEN r
    ELSE [r EXCEPT !.wake = [t \in Timers |-> IF t \in Waiters THEN 0 ELSE @[t]],
                   !.next = 0]

Complete(h) ==
    /\ Op(h) /\ ~completed
    /\ completed' = TRUE /\ q' = complete(q)
    /\ gl' = [gl EXCEPT ![h] = Used(h)]
    /\ UNCHANGED <<g_dispatch, cur, greenlets, mutex>>

register_callback(h) ==
    /\ Op(h)
    /\ \E t \in Callbacks, w \in Delays :
         /\ t \notin ToSet(q.timers)
         /\ q' = register_timer(q, t, w)
    /\ gl' = [gl EXCEPT ![h] = Used(h)]
    /\ UNCHANGED <<g_dispatch, cur, greenlets, mutex, completed>>

\* end_greenlet(): the timer of the greenlet's pauses ends.
end_greenlet(r, h) == unregister_timer(r, h, Index)

\* Mutant: the waketime that the callback returns is not stored.
RescheduledOnce(r, t) == IF t \in Periodic THEN [r EXCEPT !.next = Less(@, Period)] ELSE r

\* The waketime that the callback of timer t returns.
Rescheduled(r, t) == IF t \in Periodic THEN update_timer(r, t, Period) ELSE r

\* The callback returns: in the dispatcher, the loop goes on; in a greenlet that
\* paused, the greenlet waits to be used again.
Return(h) ==
    LET f == gl[h]
        r == Rescheduled(q, f.t)
    IN  /\ At(h, "task") /\ f.why = "run" /\ ~f.holds
        /\ IF h = g_dispatch
           THEN /\ gl' = IF f.t = Fd THEN [gl EXCEPT ![h] = [Fresh EXCEPT !.at = "check"]]
                         ELSE [gl EXCEPT ![h] = [f EXCEPT !.at = "pass", !.i = @ + 1, !.t = Fd,
                                                          !.ops = 0]]
                /\ q' = r
                /\ UNCHANGED <<cur, greenlets>>
           ELSE /\ q' = end_greenlet(r, h)
                /\ greenlets' = Append(greenlets, h)
                /\ gl' = [gl EXCEPT ![h] = [Fresh EXCEPT !.at = "pool", !.t = f.t],
                                    ![g_dispatch].at = "pass", ![g_dispatch].i = @ + 1]
                /\ cur' = g_dispatch
        /\ UNCHANGED <<g_dispatch, mutex, completed>>

-----------------------------------------------------------------------------
\* Time passes.
Less1(w) == IF w \in {0, NEVER} THEN w ELSE w - 1
Passed(r) == [r EXCEPT !.wake = [t \in Timers |-> Less1(@[t])], !.next = Less1(@)]

\* poll(): nothing, or a callback of a file descriptor that may pause; one of
\* them is got_pipe_signal(), which runs what other threads have queued.
Poll(g) ==
    /\ At(g, "poll")
    /\ q' = Passed(q)
    /\ \/ gl' = [gl EXCEPT ![g].at = "check"]
       \/ gl' = [gl EXCEPT ![g] = Begin(@, Fd)]
    /\ UNCHANGED <<g_dispatch, cur, greenlets, mutex, completed>>

Dispatch == \E g \in Greenlets : CheckTimers(g) \/ Turn(g) \/ PassEnd(g) \/ Poll(g)

Callback == \E h \in Greenlets :
    \/ Pause(h) \/ lock(h) \/ LockWakes(h) \/ unlock(h) \/ wait(h) \/ WaitWakes(h)
    \/ Complete(h) \/ register_callback(h) \/ Return(h)

Next == Dispatch \/ Callback

Spec == Init /\ [][Next]_vars

\* The thread of the reactor goes on.
FairSpec == Spec /\ WF_vars(Next)

-----------------------------------------------------------------------------
(* Properties                                                               *)

States == {"none", "check", "poll", "pass", "task", "wait", "lambda", "pool"}

\* The types of the variables; one greenlet runs, and a paused callback has a timer.
TypeOK ==
    /\ q.timers \in Seq(Timers) /\ q.wake \in [Timers -> 0..NEVER]
    /\ q.next \in 0..NEVER /\ q.missed \subseteq Timers
    /\ \A g \in Greenlets :
         /\ gl[g].at \in States /\ gl[g].ops \in Nat /\ gl[g].holds \in BOOLEAN
         /\ gl[g].why \in {"run", "lock", "completion"}
         /\ gl[g].at = "wait" => g \in ToSet(q.timers)
    /\ gl[cur].at \in {"check", "poll", "pass", "task"}
    /\ g_dispatch # cur <=> gl[g_dispatch].at = "lambda"
    /\ IsInjective(q.timers) /\ completed \in BOOLEAN

Holders == {g \in Greenlets : gl[g].holds}

\* Besides the types: at most one greenlet holds the mutex, and none while it is
\* handed over.
OneHolder ==
    /\ TypeOK
    /\ \A g, h \in Holders : g = h
    /\ mutex.is_locked <=> Holders # {} \/ mutex.next_pending
    /\ ~(mutex.next_pending /\ Holders # {})

\* While the reactor sleeps, it wakes for every timer that its last pass has
\* not passed over.
Covered ==
    gl[cur].at = "poll" => \A t \in ToSet(q.timers) \ q.missed : q.next <= q.wake[t]

\* Who waits for the mutex gets it.
LockIsGranted == \A g \in Greenlets : gl[g].why = "lock" ~> gl[g].holds

\* A timer with a waketime is run, also one that a pass has passed over: the
\* pass of the next timer that is due finds it.
TimersRun ==
    \A t \in Timers :
      (t \in ToSet(q.timers) /\ q.wake[t] < NEVER) ~> (q.wake[t] = NEVER)
=============================================================================
