-------------------------------- MODULE Sched --------------------------------
(***************************************************************************)
(* The timer list of the firmware (src/src/sched.c): a linked list sorted  *)
(* by a clock that wraps around, with a periodic timer, a sentinel, the    *)
(* stand-in for a deleted first timer and the hint where the last timer    *)
(* was rescheduled.                                                        *)
(*                                                                         *)
(* Timer interrupts may be late by up to Late ticks.                       *)
(***************************************************************************)
EXTENDS Integers, FiniteSets, FiniteSetsExt

CONSTANTS Users,    \* the timers of steppers, endstops, pins, ...
          Width,    \* the clock counts modulo Width (2^32)
          Period,   \* ticks between two events of periodic_timer
          Ahead,    \* how far ahead a timer is set
          Late      \* how late a timer interrupt may be

\* What the constants have to satisfy.
SchedAssumption ==
    /\ IsFiniteSet(Users)
    /\ Users \cap {"periodic", "sentinel", "deleted", "nil"} = {}
    /\ Width \in Nat \ {0} /\ Width % 2 = 0
    /\ Period \in Nat \ {0} /\ Ahead \in Nat \ {0} /\ Late \in Nat \ {0}
    /\ 2 * (Period + Ahead + 2 * Late) < Width

VARIABLES q,            \* SchedStatus and the struct timers, see Queues
          now,          \* timer_read_time()
          active,       \* history: the timers added and neither done nor deleted
          is_shutdown   \* SchedStatus.shutdown_status

vars == <<q, now, active, is_shutdown>>

Timers == Users \cup {"periodic", "sentinel", "deleted"}

Clock == 0..(Width - 1)

Queues == [list : Timers, last : Timers, next : [Timers -> Timers \cup {"nil"}],
           wake : [Timers -> Clock]]

Wrap(t) == t % Width

\* timer_is_before()
Before(t1, t2) == 2 * Wrap(t1 - t2) >= Width

-----------------------------------------------------------------------------
(* Operations on the list *)

\* The timers reached from t: t itself, its next, and so on.
From(x, t) ==
    LET nth[k \in 0..Cardinality(Timers)] ==
          IF k = 0 THEN t
          ELSE IF nth[k - 1] = "nil" THEN "nil" ELSE x.next[nth[k - 1]]
    IN  nth

\* insert_timer(): t goes before the first timer behind pos that is later.
Insert(x, pos, t, w) ==
    LET path == From(x, pos)
        k == Min({i \in 1..Cardinality(Timers) :
                    path[i] = "nil" \/ Before(w, x.wake[path[i]])})
    IN  [x EXCEPT !.next = [@ EXCEPT ![t] = path[k], ![path[k - 1]] = t]]

\* __sched_add_timer() when t comes before all others: deleted_timer is put in
\* front, so that the interrupt under way is served by a timer of that time.
AddFirst(x, t) ==
    [x EXCEPT !.next = [@ EXCEPT ![t] = IF x.list = "deleted" THEN x.next["deleted"]
                                        ELSE x.list,
                                 !["deleted"] = t],
              !.wake["deleted"] = x.wake[t],
              !.list = "deleted"]

\* __sched_add_timer() with waketime w
Added(x, t, w) ==
    LET y == [x EXCEPT !.wake[t] = w]
    IN  IF Before(w, x.wake[x.list]) THEN AddFirst(y, t) ELSE Insert(y, y.list, t, w)

\* "Timer too close"
TooClose(x, w) == Before(w, x.wake[x.list]) /\ Before(w, now)

\* A mutant: the hint stays at the timer that is deleted.
HintKept(x, del) == x.last

\* The hint must not stay at a timer that is deleted.
HintWithout(x, del) == IF x.last = del THEN "periodic" ELSE x.last

\* sched_del_timer()
Deleted(x, del) ==
    LET before == {p \in Range(From(x, x.list)) \ {"nil"} : x.next[p] = del}
    IN  IF x.list = del
        THEN [x EXCEPT !.wake["deleted"] = x.wake[del],
                       !.next["deleted"] = x.next[del],
                       !.list = "deleted", !.last = HintWithout(x, del)]
        ELSE [x EXCEPT !.next = [p \in Timers |->
                                   IF p \in before THEN @[del] ELSE @[p]],
                       !.last = HintWithout(x, del)]

\* sched_timer_reset()
Reset(x) ==
    [x EXCEPT !.list = "deleted", !.last = "periodic",
              !.wake["deleted"] = x.wake["periodic"],
              !.next["deleted"] = "periodic", !.next["periodic"] = "sentinel"]

\* sched_timer_dispatch() after timer t returned SF_DONE.
Done(x, t) ==
    [x EXCEPT !.list = x.next[t], !.last = IF @ = t THEN x.next[t] ELSE @]

\* A mutant: the hint is trusted.
SearchFromHint(x, w) == x.last

\* Where the search for the new place of the timer starts.
SearchFrom(x, w) == IF Before(w, x.wake[x.last]) THEN x.list ELSE x.last

\* sched_timer_dispatch() after timer t set its waketime and returned
\* SF_RESCHEDULE.
Rescheduled(x, t) ==
    LET w == x.wake[t]
        y == [x EXCEPT !.list = x.next[t]]
    IN  IF Before(w, x.wake[x.next[t]]) THEN x
        ELSE [Insert(y, SearchFrom(y, w), t, w) EXCEPT !.last = t]

-----------------------------------------------------------------------------
(* Steps *)

\* The list becomes x, the timers A being active; what the fields of a timer
\* off the list hold is forgotten, as they are set before they are read.
Becomes(x, A) ==
    LET kept == A \cup {"periodic", "sentinel", x.list}
    IN  /\ q' = [x EXCEPT
                   !.next = [t \in Timers |-> IF t \in kept THEN @[t] ELSE "nil"],
                   !.wake = [t \in Timers |-> IF t \in kept THEN @[t] ELSE 0]]
        /\ active' = A

\* sched_shutdown(): run_shutdown() resets the list; a shutdown handler may add
\* its timer again, in the past too (analog_in_shutdown()).
Shutdown ==
    /\ is_shutdown' = TRUE
    /\ \/ Becomes(Reset(q), {})
       \/ \E t \in Users, d \in -1..Ahead :
            Becomes(Added(Reset(q), t, Wrap(now + d)), {t})
    /\ UNCHANGED now

\* sched_add_timer(), for a timer that is not on the list.
AddTimer(t, d) ==
    /\ t \notin active
    /\ IF TooClose(q, Wrap(now + d)) /\ ~is_shutdown
       THEN Shutdown
       ELSE /\ Becomes(Added(q, t, Wrap(now + d)), active \cup {t})
            /\ UNCHANGED <<now, is_shutdown>>

\* sched_del_timer(), for a timer that may be on the list.
DelTimer(t) ==
    /\ Becomes(Deleted(q, t), active \ {t})
    /\ UNCHANGED <<now, is_shutdown>>

\* The timer interrupt is due.
Due == ~Before(now, q.wake[q.list])

\* deleted_event()
DispatchDeleted ==
    /\ Due /\ q.list = "deleted"
    /\ Becomes(Done(q, "deleted"), active)
    /\ UNCHANGED <<now, is_shutdown>>

\* periodic_event(): the sentinel moves along.
PeriodicEvent(x) ==
    [x EXCEPT !.wake["periodic"] = Wrap(@ + Period),
              !.wake["sentinel"] = Wrap(x.wake["periodic"] + Period + Width \div 2)]

DispatchPeriodic ==
    /\ Due /\ q.list = "periodic"
    /\ Becomes(Rescheduled(PeriodicEvent(q), "periodic"), active)
    /\ UNCHANGED <<now, is_shutdown>>

\* A user timer is called; its function may delete another timer (as a trigger
\* stops steppers), then is done or goes on d ticks later.
DispatchUser ==
    LET t == q.list
    IN  /\ t \in Users /\ Due
        /\ \E D \in {{}} \cup {{u} : u \in Users \ {t}} :
             LET x == IF D = {} THEN q ELSE Deleted(q, CHOOSE u \in D : TRUE)
             IN  \/ Becomes(Done(x, t), active \ (D \cup {t}))
                 \/ \E d \in 1..Ahead :
                      Becomes(Rescheduled([x EXCEPT !.wake[t] = Wrap(@ + d)], t),
                              active \ D)
        /\ UNCHANGED <<now, is_shutdown>>

\* sched_clear_shutdown()
ClearShutdown ==
    /\ is_shutdown
    /\ is_shutdown' = FALSE
    /\ UNCHANGED <<q, now, active>>

\* Time passes until the next timer would be more than Late ticks overdue.
Tick ==
    /\ ~Before(Wrap(q.wake[q.list] + Late), Wrap(now + 1))
    /\ now' = Wrap(now + 1)
    /\ UNCHANGED <<q, active, is_shutdown>>

Init ==
    /\ q = [list |-> "periodic", last |-> "periodic",
            next |-> [t \in Timers |-> IF t = "periodic" THEN "sentinel" ELSE "nil"],
            wake |-> [t \in Timers |-> IF t = "sentinel" THEN Width \div 2 ELSE 0]]
    /\ now = 0 /\ active = {} /\ is_shutdown = FALSE

Next ==
    \/ \E t \in Users : DelTimer(t) \/ \E d \in -1..Ahead : AddTimer(t, d)
    \/ DispatchDeleted \/ DispatchPeriodic \/ DispatchUser
    \/ Shutdown \/ ClearShutdown \/ Tick

Spec == Init /\ [][Next]_vars

-----------------------------------------------------------------------------
(* Properties *)

\* The types of the variables.
TypeOK ==
    /\ q \in Queues /\ now \in Clock /\ active \subseteq Users
    /\ is_shutdown \in BOOLEAN

\* The timers on the list.
OnList == Range(From(q, q.list)) \ {"nil"}

\* The list is whole: it ends at the sentinel, holds each timer that was added
\* and not yet done or deleted and no other, with the periodic timer; the
\* stand-in is only ever first, and the hint is on the list.
ListIntact ==
    /\ OnList \ {"deleted"} = active \cup {"periodic", "sentinel"}
    /\ "deleted" \in OnList => q.list = "deleted"
    /\ q.next["sentinel"] = "nil"
    /\ q.last \in OnList \ {"sentinel", "deleted"}

\* No timer comes before one that is due earlier, also across the wrap of the
\* clock: only so does the hardware timer, set for the first, serve them all.
Sorted ==
    \A t \in OnList : q.next[t] \in OnList \ {"sentinel"}
                       => ~Before(q.wake[q.next[t]], q.wake[t])

\* No timer is missed: none is overdue by more than a late interrupt explains.
NoTimerMissed ==
    \A t \in active : ~Before(Wrap(q.wake[t] + Late), now)
=============================================================================
