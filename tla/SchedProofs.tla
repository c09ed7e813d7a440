----------------------------- MODULE SchedProofs -----------------------------
(***************************************************************************)
(* The scheduler of the firmware, for any number of tasks and timers and   *)
(* any width of the clock: the main loop never sleeps on a woken task, and *)
(* the timer list is whole, in the order of time and never late by itself. *)
(*                                                                         *)
(* The proof about the list replaces its links by a sequence of timers     *)
(* (Chain), the times that wrap around by the ticks left until a timer     *)
(* would be missed (Left), and has one lemma for each way in which sched.c *)
(* changes the list: a timer behind another (ListedInsert), in front       *)
(* (ListedFront), taken out (ListedWithout).                               *)
(***************************************************************************)
EXTENDS MCSched, FiniteSetTheorems, WellFoundedInduction, TLAPS
-----------------------------------------------------------------------------
(* Times that wrap around *)

Half == Width \div 2

\* The time d ticks after a, and the ticks from a to b, without remainders.
Later(a, d) == IF a + d >= Width THEN a + d - Width
               ELSE IF a + d < 0 THEN a + d + Width ELSE a + d

Gap(a, b) == IF b >= a THEN b - a ELSE b - a + Width

\* How many ticks remain at n until the time w is more than Late ticks past.
Left(n, w) == Gap(n, Later(w, Late))

\* No timer is set further ahead than this.
Horizon == Period + Ahead + Late

\* What the assumption says of the constants.
LEMMA Consts ==
    /\ Width \in Nat \ {0} /\ Half \in Nat /\ Width = 2 * Half
    /\ Period \in Nat \ {0} /\ Ahead \in Nat \ {0} /\ Late \in Nat \ {0}
    /\ Horizon \in Nat /\ Horizon + Late < Half
    /\ Horizon = Period + Ahead + Late
BY TimerAssumption DEF Timer!SchedAssumption, Half, Horizon

\* Remainders of numbers within one turn of the clock.
LEMMA ModIs ==
    ASSUME NEW t \in Int
    PROVE  /\ 0 <= t /\ t < Width => t % Width = t
           /\ Width <= t /\ t < 2 * Width => t % Width = t - Width
           /\ -Width <= t /\ t < 0 => t % Width = t + Width
<1>w. Width \in Nat \ {0}
  BY Consts
<1>1. 0 <= t /\ t < Width => t % Width = t
  BY <1>w
<1>2. Width <= t /\ t < 2 * Width => t % Width = t - Width
  BY <1>w
<1>3. -Width <= t /\ t < 0 => t % Width = t + Width
  BY <1>w
<1> QED  BY <1>1, <1>2, <1>3

\* The remainder of a difference of two times is the ticks between them.
LEMMA WrapIsGap ==
    ASSUME NEW a \in Timer!Clock, NEW b \in Timer!Clock
    PROVE  Timer!Wrap(b - a) = Gap(a, b) /\ Gap(a, b) \in Timer!Clock
<1>1. b - a \in Int /\ Width \in Nat \ {0} /\ -Width <= b - a /\ b - a < Width
  BY Consts DEF Timer!Clock
<1>2. CASE b >= a
  BY <1>1, <1>2, ModIs DEF Gap, Timer!Clock, Timer!Wrap
<1>3. CASE ~(b >= a)
  BY <1>1, <1>3, ModIs DEF Gap, Timer!Clock, Timer!Wrap
<1> QED  BY <1>2, <1>3

\* The remainder of a time and a delay is the time after the delay.
LEMMA WrapIsLater ==
    ASSUME NEW a \in Timer!Clock, NEW d \in -1..Width
    PROVE  Timer!Wrap(a + d) = Later(a, d) /\ Later(a, d) \in Timer!Clock
<1> DEFINE t == a + d
<1>1. t \in Int /\ Width \in Nat \ {0} /\ -Width <= t /\ t < 2 * Width
  BY Consts DEF Timer!Clock
<1> HIDE DEF t
<1>2. CASE t >= Width
  <2>1. t % Width = t - Width
    BY <1>1, <1>2, ModIs
  <2> QED  BY <1>1, <1>2, <2>1 DEF Later, Timer!Clock, Timer!Wrap, t
<1>3. CASE t < 0
  <2>1. t % Width = t + Width
    BY <1>1, <1>3, ModIs
  <2> QED  BY <1>1, <1>3, <2>1 DEF Later, Timer!Clock, Timer!Wrap, t
<1>4. CASE 0 <= t /\ t < Width
  <2>1. t % Width = t
    BY <1>1, <1>4, ModIs
  <2> QED  BY <1>1, <1>4, <2>1 DEF Later, Timer!Clock, Timer!Wrap, t
<1> QED  BY <1>1, <1>2, <1>3, <1>4

\* What is left of a time is a number of ticks.
LEMMA LeftType ==
    ASSUME NEW n \in Timer!Clock, NEW w \in Timer!Clock
    PROVE  Left(n, w) \in Timer!Clock /\ Left(n, w) \in Nat /\ Later(w, Late) \in Timer!Clock
<1>1. Late \in -1..Width
  BY Consts
<1>2. Later(w, Late) \in Timer!Clock
  BY <1>1, WrapIsLater
<1>3. Left(n, w) \in Timer!Clock
  BY <1>2, WrapIsGap DEF Left
<1>4. Timer!Clock \subseteq Nat
  BY DEF Timer!Clock
<1> QED  BY <1>2, <1>3, <1>4

\* timer_is_before() asks for more than half a turn.
LEMMA BeforeIsGap ==
    ASSUME NEW a \in Timer!Clock, NEW b \in Timer!Clock
    PROVE  Timer!Before(a, b) <=> Gap(b, a) >= Half
<1>1. Timer!Wrap(a - b) = Gap(b, a) /\ Gap(b, a) \in Timer!Clock
  BY WrapIsGap
<1>2. Timer!Before(a, b) <=> 2 * Gap(b, a) >= Width
  BY <1>1 DEF Timer!Before
<1>3. Gap(b, a) \in Nat
  BY <1>1 DEF Timer!Clock
<1> QED  BY <1>2, <1>3, Consts

\* timer_is_before() is the order of what is left, of times that are not far away.
LEMMA BeforeIsLess ==
    ASSUME NEW n \in Timer!Clock, NEW a \in Timer!Clock, NEW b \in Timer!Clock,
           Left(n, a) < Half, Left(n, b) < Half
    PROVE  Timer!Before(a, b) <=> Left(n, a) < Left(n, b)
<1>1. Timer!Before(a, b) <=> Gap(b, a) >= Half
  BY BeforeIsGap
<1> QED  BY <1>1, Consts, SMTT(30) DEF Timer!Clock, Left, Gap, Later

\* The sentinel, half a turn behind c, is later than the times from c on.
LEMMA BeforeSentinel ==
    ASSUME NEW n \in Timer!Clock, NEW a \in Timer!Clock, NEW c \in Timer!Clock, NEW e \in Timer!Clock,
           e = Timer!Wrap(c + Half), Left(n, a) < Half, Left(n, c) < Half
    PROVE  Timer!Before(a, e) <=> Left(n, c) <= Left(n, a)
<1>1. Timer!Before(a, e) <=> Gap(e, a) >= Half
  BY BeforeIsGap
<1>2. Half \in -1..Width
  BY Consts
<1>3. e = Later(c, Half)
  BY <1>2, WrapIsLater
<1> QED  BY <1>1, <1>3, Consts, SMTT(30) DEF Timer!Clock, Left, Gap, Later

\* A timer that is due is at most Late ticks late.
LEMMA DueIsLate ==
    ASSUME NEW n \in Timer!Clock, NEW a \in Timer!Clock, Left(n, a) <= Horizon, ~Timer!Before(n, a)
    PROVE  Left(n, a) <= Late
<1>1. Timer!Before(n, a) <=> Gap(a, n) >= Half
  BY BeforeIsGap
<1> QED  BY <1>1, Consts, SMTT(30) DEF Timer!Clock, Left, Gap, Later

\* Setting a timer d ticks later.
LEMMA LaterLeft ==
    ASSUME NEW n \in Timer!Clock, NEW a \in Timer!Clock, NEW d \in Nat, Left(n, a) + d < Half
    PROVE  Timer!Wrap(a + d) \in Timer!Clock /\ Left(n, Timer!Wrap(a + d)) = Left(n, a) + d
<1>1. d \in -1..Width
  BY LeftType, Consts
<1>2. Timer!Wrap(a + d) \in Timer!Clock /\ Timer!Wrap(a + d) = Later(a, d)
  BY <1>1, WrapIsLater
<1>3. Left(n, Later(a, d)) = Left(n, a) + d
  BY <1>1, Consts, SMTT(30) DEF Timer!Clock, Left, Gap, Later
<1> QED  BY <1>2, <1>3

\* Setting a timer d ticks from now, or one tick in the past.
LEMMA NowLeft ==
    ASSUME NEW n \in Timer!Clock, NEW d \in -1..Ahead
    PROVE  Timer!Wrap(n + d) \in Timer!Clock /\ Left(n, Timer!Wrap(n + d)) <= Horizon
<1>1. d \in -1..Width
  BY Consts
<1>2. Timer!Wrap(n + d) \in Timer!Clock /\ Timer!Wrap(n + d) = Later(n, d)
  BY <1>1, WrapIsLater
<1>3. Left(n, Later(n, d)) = Late + d
  BY <1>1, Consts, SMTT(30) DEF Timer!Clock, Left, Gap, Later
<1>4. Late + d <= Horizon
  BY Consts
<1> QED  BY <1>2, <1>3, <1>4

\* A timer is not missed while something is left; a tick takes one from it.
LEMMA TickLeft ==
    ASSUME NEW n \in Timer!Clock, NEW a \in Timer!Clock
    PROVE  /\ Timer!Wrap(n + 1) \in Timer!Clock
           /\ Left(n, a) > 0 => Left(Timer!Wrap(n + 1), a) = Left(n, a) - 1
           /\ Left(n, a) = 0 => Left(Timer!Wrap(n + 1), a) = Width - 1
           /\ Timer!Before(Timer!Wrap(a + Late), n) <=> Left(n, a) >= Half
<1>1. 1 \in -1..Width /\ Late \in -1..Width
  BY Consts
<1>2. Timer!Wrap(n + 1) \in Timer!Clock /\ Timer!Wrap(n + 1) = Later(n, 1)
  BY <1>1, WrapIsLater
<1>3. /\ Left(n, a) > 0 => Left(Later(n, 1), a) = Left(n, a) - 1
      /\ Left(n, a) = 0 => Left(Later(n, 1), a) = Width - 1
  BY Consts, SMTT(30) DEF Timer!Clock, Left, Gap, Later
<1>4. Timer!Wrap(a + Late) \in Timer!Clock /\ Timer!Wrap(a + Late) = Later(a, Late)
  BY <1>1, WrapIsLater
<1>5. Timer!Before(Timer!Wrap(a + Late), n) <=> 2 * Gap(n, Later(a, Late)) >= Width
  BY <1>4, WrapIsGap DEF Timer!Before
<1>6. Gap(n, Later(a, Late)) \in Nat
  BY LeftType DEF Left
<1>7. Timer!Before(Timer!Wrap(a + Late), n) <=> Left(n, a) >= Half
  BY <1>5, <1>6, Consts DEF Left
<1> QED  BY <1>2, <1>3, <1>7

-----------------------------------------------------------------------------
(* Induction *)

\* A set of natural numbers that is not empty has a smallest element.
LEMMA Smallest ==
    ASSUME NEW T, T \subseteq Nat, T # {}
    PROVE  \E m \in T : \A n \in T : m <= n
<1> DEFINE R == OpToRel(<, Nat)
<1>1. IsWellFoundedOn(R, Nat)
  BY NatLessThanWellFounded
<1>2. \A x, y \in Nat : <<x, y>> \in R <=> x < y
  BY DEF OpToRel
<1> HIDE DEF R
<1>3. PICK m \in T : \A y \in T : ~(<<y, m>> \in R)
  BY <1>1, WFMin
<1>4. \A n \in T : n \in Nat /\ m \in Nat /\ ~(n < m)
  BY <1>2, <1>3
<1>5. \A n \in T : m <= n
  BY <1>4
<1> QED  BY <1>5

\* Induction, stated for the set of the numbers that have the property.
LEMMA NatSetInduction ==
    ASSUME NEW P, 0 \in P, \A n \in Nat : n \in P => n + 1 \in P
    PROVE  Nat \subseteq P
<1> SUFFICES ASSUME ~(Nat \subseteq P) PROVE FALSE
  OBVIOUS
<1> DEFINE T == Nat \ P
<1>1. T \subseteq Nat /\ T # {}
  OBVIOUS
<1> HIDE DEF T
<1>2. PICK m \in T : \A n \in T : m <= n
  BY <1>1, Smallest
<1>3. m \in Nat /\ m \notin P /\ m # 0
  BY <1>2 DEF T
<1>4. m - 1 \in Nat /\ (m - 1) + 1 = m /\ ~(m <= m - 1)
  BY <1>3
<1>5. m - 1 \in P
  BY <1>2, <1>4 DEF T
<1> QED  BY <1>3, <1>4, <1>5


-----------------------------------------------------------------------------
(* The list as a sequence *)

\* The timers s[1], ..., s[n] are the list of x, in this order.
Chain(x, s, n) ==
    /\ n \in Nat \ {0} /\ s \in [1..n -> Timer!Timers]
    /\ x \in Timer!Queues /\ x.list = s[1]
    /\ \A i \in 1..(n - 1) : x.next[s[i]] = s[i + 1]
    /\ s[n] = "sentinel" /\ x.next["sentinel"] = "nil"
    /\ \A i, j \in 1..n : s[i] = s[j] => i = j

\* Sched's finite sets are ours.
LEMMA SameFinite ==
    /\ \A S : Timer!IsFiniteSet(S) <=> IsFiniteSet(S)
    /\ \A S : Timer!Cardinality(S) = Cardinality(S)
<1>1. ASSUME NEW S PROVE Timer!IsFiniteSet(S) <=> IsFiniteSet(S)
  BY DEF Timer!IsFiniteSet, IsFiniteSet
<1>2. ASSUME NEW S PROVE Timer!Cardinality(S) = Cardinality(S)
  BY DEF Timer!Cardinality, Cardinality
<1> QED  BY <1>1, <1>2

\* There are finitely many timers, and "nil" is none.
LEMMA TimersFacts ==
    /\ IsFiniteSet(Timer!Timers) /\ Cardinality(Timer!Timers) \in Nat
    /\ "nil" \notin Timer!Timers /\ Users \subseteq Timer!Timers
    /\ "periodic" \in Timer!Timers /\ "sentinel" \in Timer!Timers /\ "deleted" \in Timer!Timers
    /\ "periodic" \notin Users /\ "sentinel" \notin Users /\ "deleted" \notin Users
<1>1. IsFiniteSet(Users)
  BY TimerAssumption, SameFinite DEF Timer!SchedAssumption
<1>2. IsFiniteSet({"periodic"}) /\ IsFiniteSet({"sentinel"}) /\ IsFiniteSet({"deleted"})
  BY FS_Singleton
<1>3. Timer!Timers = ((Users \cup {"periodic"}) \cup {"sentinel"}) \cup {"deleted"}
  BY DEF Timer!Timers
<1>4. IsFiniteSet(Timer!Timers)
  BY <1>1, <1>2, <1>3, FS_Union
<1>5. Cardinality(Timer!Timers) \in Nat
  BY <1>4, FS_CardinalityType
<1>6. "nil" \notin Users /\ "periodic" \notin Users /\ "sentinel" \notin Users /\ "deleted" \notin Users
  BY TimerAssumption DEF Timer!SchedAssumption
<1> QED  BY <1>4, <1>5, <1>6 DEF Timer!Timers

\* What the function of From is defined by.
IsFrom(x, t, f) ==
    f = [k \in 0..Cardinality(Timer!Timers) |->
           IF k = 0 THEN t
           ELSE IF f[k - 1] = "nil" THEN "nil" ELSE x.next[f[k - 1]]]

\* A function that follows the links from t ...
Follows(x, t, f) ==
    /\ f \in [0..Cardinality(Timer!Timers) -> Timer!Timers \cup {"nil"}] /\ f[0] = t
    /\ \A k \in 1..Cardinality(Timer!Timers) :
         f[k] = IF f[k - 1] = "nil" THEN "nil" ELSE x.next[f[k - 1]]

\* ... is From.
LEMMA FromIs ==
    ASSUME NEW x, NEW t, NEW f, Follows(x, t, f)
    PROVE  Timer!From(x, t) = f
<1> DEFINE N == Cardinality(Timer!Timers)
           h == CHOOSE g : IsFrom(x, t, g)
           P == {k \in Nat : k <= N => h[k] = f[k]}
<1>n. N \in Nat
  BY TimersFacts
<1>0. /\ f \in [0..N -> Timer!Timers \cup {"nil"}] /\ f[0] = t
      /\ \A k \in 1..N : f[k] = IF f[k - 1] = "nil" THEN "nil" ELSE x.next[f[k - 1]]
  BY DEF Follows
<1>1. Timer!From(x, t) = h
  <2>1. Timer!Cardinality(Timer!Timers) = N
    BY SameFinite
  <2> HIDE DEF N
  <2> QED  BY <2>1, Zenon DEF Timer!From, IsFrom, N
<1>2. IsFrom(x, t, f)
  <2>1. \A k \in 0..N : f[k] = IF k = 0 THEN t ELSE IF f[k - 1] = "nil" THEN "nil" ELSE x.next[f[k - 1]]
    <3>1. \A k \in 0..N : k = 0 \/ k \in 1..N
      BY <1>n
    <3> QED  BY <3>1, <1>0
  <2> QED  BY <2>1, <1>0 DEF IsFrom
<1>3. IsFrom(x, t, h)
  BY <1>2
<1> HIDE DEF h, N
<1>4. h = [k \in 0..N |-> IF k = 0 THEN t
                          ELSE IF h[k - 1] = "nil" THEN "nil" ELSE x.next[h[k - 1]]]
  BY <1>3 DEF IsFrom, N
<1>5. h[0] = t /\ \A k \in 1..N : h[k] = IF h[k - 1] = "nil" THEN "nil" ELSE x.next[h[k - 1]]
  <2> DEFINE G(k) == IF k = 0 THEN t ELSE IF h[k - 1] = "nil" THEN "nil" ELSE x.next[h[k - 1]]
  <2>1. h = [k \in 0..N |-> G(k)]
    BY <1>4
  <2> HIDE DEF G
  <2>2. \A k \in 0..N : h[k] = G(k)
    BY <2>1
  <2>3. 0 \in 0..N /\ \A k \in 1..N : k \in 0..N /\ k # 0
    BY <1>n
  <2> QED  BY <2>2, <2>3 DEF G
<1>6. 0 \in P
  BY <1>0, <1>5
<1>7. ASSUME NEW k \in Nat, k \in P
      PROVE  k + 1 \in P
  <2> SUFFICES ASSUME k + 1 <= N
               PROVE  h[k + 1] = f[k + 1]
    OBVIOUS
  <2>1. k + 1 \in 1..N /\ (k + 1) - 1 = k /\ k <= N
    BY <1>n
  <2>2. h[k] = f[k]
    BY <1>7, <2>1
  <2>3. h[k + 1] = IF h[k] = "nil" THEN "nil" ELSE x.next[h[k]]
    BY <1>5, <2>1
  <2>4. f[k + 1] = IF f[k] = "nil" THEN "nil" ELSE x.next[f[k]]
    BY <2>1, <1>0
  <2> QED  BY <2>2, <2>3, <2>4
<1>8. Nat \subseteq P
  <2> HIDE DEF P
  <2> QED  BY <1>6, <1>7, NatSetInduction
<1>9. \A k \in 0..N : h[k] = f[k]
  BY <1>8, <1>n
<1>10. h = [k \in 0..N |-> h[k]]
  BY <1>4
<1>11. f = [k \in 0..N |-> f[k]]
  BY <1>0
<1> QED  BY <1>1, <1>9, <1>10, <1>11

\* From follows the list, from the place m or from a timer in front of it (m = 0).
LEMMA PathIs ==
    ASSUME NEW x, NEW s, NEW n, Chain(x, s, n), NEW m \in 0..n, NEW t \in Timer!Timers,
           m = 0 => x.next[t] = s[1], m # 0 => t = s[m]
    PROVE  /\ DOMAIN Timer!From(x, t) = 0..Cardinality(Timer!Timers) /\ Timer!From(x, t)[0] = t
           /\ \A k \in 1..Cardinality(Timer!Timers) :
                Timer!From(x, t)[k] = IF m + k <= n THEN s[m + k] ELSE "nil"
<1> DEFINE N == Cardinality(Timer!Timers)
           f == [k \in 0..N |-> IF k = 0 THEN t ELSE IF m + k <= n THEN s[m + k] ELSE "nil"]
<1>n. N \in Nat /\ n \in Nat \ {0} /\ "nil" \notin Timer!Timers /\ \A i \in 1..n : s[i] \in Timer!Timers
  BY TimersFacts DEF Chain
<1>1. f[0] = t /\ \A k \in 1..N : f[k] = IF m + k <= n THEN s[m + k] ELSE "nil"
  BY <1>n
<1>2. f \in [0..N -> Timer!Timers \cup {"nil"}] /\ DOMAIN f = 0..N
  BY <1>n
<1> HIDE DEF f, N
<1>3. ASSUME NEW k \in 1..N
      PROVE  f[k] = IF f[k - 1] = "nil" THEN "nil" ELSE x.next[f[k - 1]]
  <2>1. CASE k = 1
    <3>1. f[k - 1] = t /\ t # "nil" /\ f[k] = IF m + 1 <= n THEN s[m + 1] ELSE "nil"
      BY <2>1, <1>1, <1>n
    <3>2. CASE m = 0
      BY <3>1, <3>2, <1>n
    <3>3. CASE m # 0 /\ m < n
      <4>1. m \in 1..(n - 1) /\ m + 1 <= n
        BY <3>3, <1>n
      <4> QED  BY <3>1, <3>3, <4>1 DEF Chain
    <3>4. CASE m # 0 /\ m = n
      <4>1. ~(m + 1 <= n)
        BY <3>4, <1>n
      <4> QED  BY <3>1, <3>4, <4>1 DEF Chain
    <3> QED  BY <3>2, <3>3, <3>4, <1>n
  <2>2. CASE k # 1
    <3>1. k - 1 \in 1..N /\ m + (k - 1) \in Nat \ {0}
      BY <2>2, <1>n
    <3>2. f[k - 1] = IF m + (k - 1) <= n THEN s[m + (k - 1)] ELSE "nil"
      BY <3>1, <1>1
    <3>3. CASE m + (k - 1) < n
      <4>1. m + (k - 1) \in 1..(n - 1) /\ (m + (k - 1)) + 1 = m + k /\ m + k <= n
        BY <3>3, <3>1, <1>n
      <4>2. x.next[s[m + (k - 1)]] = s[m + k]
        BY <4>1 DEF Chain
      <4>3. s[m + (k - 1)] # "nil"
        BY <4>1, <1>n
      <4>4. m + (k - 1) <= n
        BY <4>1, <1>n
      <4>5. f[k - 1] = s[m + (k - 1)]
        BY <3>2, <4>4
      <4>6. f[k] = s[m + k]
        BY <4>1, <1>1
      <4> QED  BY <4>2, <4>3, <4>5, <4>6
    <3>4. CASE m + (k - 1) = n
      <4>1. ~(m + k <= n) /\ s[m + (k - 1)] = "sentinel"
        BY <3>4, <1>n DEF Chain
      <4> QED  BY <3>2, <3>4, <4>1, <1>1, <1>n DEF Chain
    <3>5. CASE m + (k - 1) > n
      <4>1. ~(m + k <= n) /\ ~(m + (k - 1) <= n)
        BY <3>5, <1>n
      <4> QED  BY <3>2, <4>1, <1>1
    <3> QED  BY <3>3, <3>4, <3>5, <3>1, <1>n
  <2> QED  BY <2>1, <2>2
<1>4. Timer!From(x, t) = f
  <2>1. Follows(x, t, f)
    BY <1>1, <1>2, <1>3 DEF Follows, N
  <2> QED  BY <2>1, FromIs
<1> QED  BY <1>1, <1>2, <1>4 DEF N

\* A list is not longer than there are timers.
LEMMA ChainLength ==
    ASSUME NEW x, NEW s, NEW n, Chain(x, s, n)
    PROVE  n <= Cardinality(Timer!Timers)
<1>1. s \in Injection(1..n, Timer!Timers)
  BY DEF Chain, Injection, IsInjective
<1>2. IsFiniteSet(Timer!Timers)
  BY TimersFacts
<1>3. Cardinality(1..n) <= Cardinality(Timer!Timers)
  BY <1>1, <1>2, FS_Injection
<1>4. Cardinality(1..n) = n
  BY FS_Interval DEF Chain
<1> QED  BY <1>3, <1>4

\* The timers on the list are those of the sequence.
LEMMA OnListIs ==
    ASSUME NEW x, NEW s, NEW n, Chain(x, s, n)
    PROVE  Timer!Range(Timer!From(x, x.list)) \ {"nil"} = {s[i] : i \in 1..n}
<1> DEFINE N == Cardinality(Timer!Timers)
           p == Timer!From(x, x.list)
<1>n. /\ N \in Nat /\ n \in Nat \ {0} /\ n <= N /\ "nil" \notin Timer!Timers
      /\ \A i \in 1..n : s[i] \in Timer!Timers
  BY TimersFacts, ChainLength DEF Chain
<1>1. 1 \in 0..n /\ x.list = s[1] /\ s[1] \in Timer!Timers
  BY <1>n DEF Chain
<1>2. /\ DOMAIN p = 0..N /\ p[0] = s[1]
      /\ \A k \in 1..N : p[k] = IF 1 + k <= n THEN s[1 + k] ELSE "nil"
  BY <1>1, PathIs
<1> HIDE DEF p, N
<1>3. ASSUME NEW i \in 1..n
      PROVE  \E k \in 0..N : p[k] = s[i]
  <2>1. i - 1 \in 0..N /\ (i # 1 => i - 1 \in 1..N) /\ 1 + (i - 1) = i /\ i <= n
    BY <1>n
  <2>2. p[i - 1] = s[i]
    BY <2>1, <1>2
  <2> QED  BY <2>1, <2>2
<1>4. ASSUME NEW k \in 0..N, p[k] # "nil"
      PROVE  \E i \in 1..n : p[k] = s[i]
  <2>1. CASE k = 0
    BY <2>1, <1>1, <1>2, <1>n
  <2>2. CASE k # 0
    <3>1. k \in 1..N /\ (1 + k <= n => 1 + k \in 1..n)
      BY <2>2, <1>n
    <3> QED  BY <3>1, <1>2, <1>4
  <2> QED  BY <2>1, <2>2
<1>5. Timer!Range(p) = {p[k] : k \in 0..N}
  BY <1>2 DEF Timer!Range
<1>6. Timer!Range(p) \ {"nil"} = {s[i] : i \in 1..n}
  BY <1>3, <1>4, <1>5, <1>n
<1> QED  BY <1>6 DEF p

\* Min, of numbers.
LEMMA MinIs ==
    ASSUME NEW S, S \subseteq Nat, S # {}
    PROVE  Timer!Min(S) \in S /\ \A i \in S : Timer!Min(S) <= i
<1>1. \E m \in S : \A i \in S : m <= i
  BY Smallest
<1> QED  BY <1>1 DEF Timer!Min

\* insert_timer() puts t between two neighbours s[j] and s[j + 1] with w between
\* their times, if the search begins at a timer that is not later than w (or at t
\* itself, in front of such a timer) and some timer behind is later.
LEMMA InsertIs ==
    ASSUME NEW x, NEW s, NEW n, Chain(x, s, n), NEW m \in 0..(n - 1), NEW pos \in Timer!Timers,
           m = 0 => x.next[pos] = s[1], m # 0 => pos = s[m], NEW t, NEW w,
           m = 0 => ~Timer!Before(w, x.wake[s[1]]), m # 0 => ~Timer!Before(w, x.wake[s[m]]),
           NEW last \in (m + 1)..n, Timer!Before(w, x.wake[s[last]])
    PROVE  \E j \in 1..(n - 1) :
             /\ Timer!Insert(x, pos, t, w) = [x EXCEPT !.next = [@ EXCEPT ![t] = s[j + 1], ![s[j]] = t]]
             /\ ~Timer!Before(w, x.wake[s[j]]) /\ Timer!Before(w, x.wake[s[j + 1]])
<1> DEFINE N == Cardinality(Timer!Timers)
           path == Timer!From(x, pos)
           D == {i \in 1..N : path[i] = "nil" \/ Timer!Before(w, x.wake[path[i]])}
           k == Timer!Min(D)
<1>n. /\ N \in Nat /\ n \in Nat \ {0} /\ n <= N /\ "nil" \notin Timer!Timers
      /\ \A i \in 1..n : s[i] \in Timer!Timers
  BY TimersFacts, ChainLength DEF Chain
<1>1. /\ path[0] = pos
      /\ \A i \in 1..N : path[i] = IF m + i <= n THEN s[m + i] ELSE "nil"
  <2>1. m \in 0..n
    BY <1>n
  <2> QED  BY <2>1, PathIs
<1>2. Timer!Insert(x, pos, t, w) = [x EXCEPT !.next = [@ EXCEPT ![t] = path[k], ![path[k - 1]] = t]]
  <2>1. Timer!Cardinality(Timer!Timers) = N
    BY SameFinite
  <2> HIDE DEF N
  <2> QED  BY <2>1 DEF Timer!Insert
<1> HIDE DEF path, N
<1>3. last - m \in D
  <2>1. last - m \in 1..N /\ m + (last - m) = last /\ last <= n
    BY <1>n
  <2>2. path[last - m] = s[last]
    BY <2>1, <1>1
  <2> QED  BY <2>1, <2>2
<1>4. k \in D /\ \A i \in D : k <= i
  <2>1. D \subseteq Nat /\ D # {}
    BY <1>3
  <2> HIDE DEF D
  <2> QED  BY <2>1, MinIs
<1> HIDE DEF k
<1>5. k \in 1..N /\ k <= last - m /\ m + k \in 1..n
  BY <1>3, <1>4, <1>n
<1>6. path[k] = s[m + k] /\ Timer!Before(w, x.wake[s[m + k]])
  <2>1. path[k] = s[m + k]
    BY <1>1, <1>5
  <2>2. s[m + k] # "nil"
    BY <1>5, <1>n
  <2> QED  BY <2>1, <2>2, <1>4
<1> DEFINE j == (m + k) - 1
<1>7. j \in 1..(n - 1) /\ j + 1 = m + k
  <2>1. ~(m = 0 /\ k = 1)
    BY <1>6
  <2> QED  BY <2>1, <1>5, <1>n
<1>8. path[k - 1] = s[j] /\ ~Timer!Before(w, x.wake[s[j]])
  <2>1. CASE k = 1
    <3>1. k - 1 = 0 /\ j = m /\ m # 0
      BY <2>1, <1>7, <1>n
    <3> QED  BY <3>1, <1>1
  <2>2. CASE k # 1
    <3>1. k - 1 \in 1..N /\ m + (k - 1) = j /\ m + (k - 1) <= n /\ ~(k <= k - 1)
      BY <2>2, <1>5, <1>n
    <3>2. path[k - 1] = s[j]
      BY <3>1, <1>1
    <3>3. k - 1 \notin D
      <4> HIDE DEF D
      <4> QED  BY <3>1, <1>4
    <3> QED  BY <3>1, <3>2, <3>3
  <2> QED  BY <2>1, <2>2
<1> HIDE DEF j
<1> QED  BY <1>2, <1>6, <1>7, <1>8

\* The sequence with t behind its first j timers.
Splice(s, n, j, t) ==
    [i \in 1..(n + 1) |-> IF i <= j THEN s[i] ELSE IF i = j + 1 THEN t ELSE s[i - 1]]

\* The elements of such a sequence.
LEMMA SpliceIs ==
    ASSUME NEW s, NEW n \in Nat, NEW j \in 0..n, NEW t, NEW u, u = Splice(s, n, j, t)
    PROVE  /\ \A i \in 1..j : u[i] = s[i]
           /\ u[j + 1] = t
           /\ \A i \in (j + 2)..(n + 1) : u[i] = s[i - 1]
           /\ \A i \in 1..(n + 1) :
                \/ i \in 1..j /\ u[i] = s[i]
                \/ i = j + 1 /\ u[i] = t
                \/ i \in (j + 2)..(n + 1) /\ i - 1 \in (j + 1)..n /\ u[i] = s[i - 1]
           /\ \A S : (\A i \in 1..n : s[i] \in S) /\ t \in S => u \in [1..(n + 1) -> S]
<1>1. \A i \in 1..(n + 1) : u[i] = IF i <= j THEN s[i] ELSE IF i = j + 1 THEN t ELSE s[i - 1]
  BY DEF Splice
<1>2. \A i \in 1..j : i \in 1..(n + 1) /\ i <= j
  OBVIOUS
<1>3. j + 1 \in 1..(n + 1) /\ ~(j + 1 <= j)
  OBVIOUS
<1>4. \A i \in (j + 2)..(n + 1) : i \in 1..(n + 1) /\ ~(i <= j) /\ i # j + 1 /\ i - 1 \in (j + 1)..n
  OBVIOUS
<1>5. \A i \in 1..(n + 1) : i \in 1..j \/ i = j + 1 \/ i \in (j + 2)..(n + 1)
  OBVIOUS
<1>6. \A i \in 1..j : u[i] = s[i]
  BY <1>1, <1>2
<1>7. u[j + 1] = t
  BY <1>1, <1>3
<1>8. \A i \in (j + 2)..(n + 1) : u[i] = s[i - 1]
  BY <1>1, <1>4
<1>9. \A i \in 1..(n + 1) :
        \/ i \in 1..j /\ u[i] = s[i]
        \/ i = j + 1 /\ u[i] = t
        \/ i \in (j + 2)..(n + 1) /\ i - 1 \in (j + 1)..n /\ u[i] = s[i - 1]
  BY <1>4, <1>5, <1>6, <1>7, <1>8
<1>10. ASSUME NEW S, \A i \in 1..n : s[i] \in S, t \in S
       PROVE  u \in [1..(n + 1) -> S]
  <2>1. \A i \in (j + 1)..n : i \in 1..n
    OBVIOUS
  <2>2. \A i \in 1..j : i \in 1..n
    OBVIOUS
  <2>3. \A i \in 1..(n + 1) : u[i] \in S
    BY <1>9, <1>10, <2>1, <2>2
  <2>4. u = [i \in 1..(n + 1) |-> u[i]]
    BY DEF Splice
  <2> QED  BY <2>3, <2>4
<1> QED  BY <1>6, <1>7, <1>8, <1>9, <1>10

\* The sequence with t in front.
LEMMA FrontIs ==
    ASSUME NEW s, NEW n \in Nat, NEW t, NEW u, u = Splice(s, n, 0, t)
    PROVE  /\ u[1] = t /\ \A i \in 2..(n + 1) : u[i] = s[i - 1]
           /\ \A S : (\A i \in 1..n : s[i] \in S) /\ t \in S => u \in [1..(n + 1) -> S]
<1>1. \A i \in 1..(n + 1) : u[i] = IF i <= 0 THEN s[i] ELSE IF i = 0 + 1 THEN t ELSE s[i - 1]
  BY DEF Splice
<1>2. 1 \in 1..(n + 1) /\ ~(1 <= 0) /\ 1 = 0 + 1
  OBVIOUS
<1>3. \A i \in 2..(n + 1) : i \in 1..(n + 1) /\ ~(i <= 0) /\ i # 0 + 1
  OBVIOUS
<1>4. u[1] = t
  BY <1>1, <1>2
<1>5. \A i \in 2..(n + 1) : u[i] = s[i - 1]
  BY <1>1, <1>3
<1>6. 0 \in 0..n
  OBVIOUS
<1>7. \A S : (\A i \in 1..n : s[i] \in S) /\ t \in S => u \in [1..(n + 1) -> S]
  BY <1>6, SpliceIs
<1> QED  BY <1>4, <1>5, <1>7

\* The timers of the list are B, the sentinel and perhaps deleted_timer in front.
Members(B, s, n) ==
    /\ B \subseteq Users \cup {"periodic"}
    /\ \A i \in 1..n : s[i] \in B \cup {"sentinel", "deleted"}
    /\ \A t \in B : \E i \in 1..n : s[i] = t
    /\ \A i \in 1..n : s[i] = "deleted" => i = 1

\* Before the sentinel the list is in the order of time, at c.
Timed(c, x, s, n) ==
    /\ \A i \in 1..(n - 1) : Left(c, x.wake[s[i]]) <= Horizon
    /\ \A i, k \in 1..(n - 1) :
         i <= k => Left(c, x.wake[s[i]]) <= Left(c, x.wake[s[k]])

\* The sentinel is half a turn behind periodic_timer.
SentinelSet(c, x) ==
    /\ x.wake["sentinel"] = Timer!Wrap(x.wake["periodic"] + Half)
    /\ Left(c, x.wake["periodic"]) <= Horizon

Listed(c, x, B, s, n) ==
    Chain(x, s, n) /\ Members(B, s, n) /\ Timed(c, x, s, n) /\ SentinelSet(c, x)

\* Fields of a queue.
LEMMA QueueFields ==
    ASSUME NEW x \in Timer!Queues
    PROVE  /\ x.list \in Timer!Timers /\ x.last \in Timer!Timers
           /\ x.next \in [Timer!Timers -> Timer!Timers \cup {"nil"}] /\ x.wake \in [Timer!Timers -> Timer!Clock]
           /\ \A t \in Timer!Timers : x.wake[t] \in Timer!Clock
BY DEF Timer!Queues

\* Splicing a timer in keeps the links.
LEMMA SpliceChain ==
    ASSUME NEW x, NEW s, NEW n, Chain(x, s, n), NEW j \in 1..(n - 1), NEW t \in Timer!Timers,
           \A i \in 1..n : s[i] # t, NEW y \in Timer!Queues, y.list = s[1],
           y.next = [x.next EXCEPT ![t] = s[j + 1], ![s[j]] = t]
    PROVE  Chain(y, Splice(s, n, j, t), n + 1)
<1> DEFINE u == Splice(s, n, j, t)
<1>n. /\ n \in Nat \ {0} /\ s \in [1..n -> Timer!Timers] /\ j \in 0..n /\ j \in 1..n
      /\ \A i \in 1..(n - 1) : x.next[s[i]] = s[i + 1]
      /\ s[n] = "sentinel" /\ x.next["sentinel"] = "nil"
      /\ \A i, k \in 1..n : s[i] = s[k] => i = k
  BY DEF Chain
<1>x. x.next \in [Timer!Timers -> Timer!Timers \cup {"nil"}]
  BY QueueFields DEF Chain
<1>1. /\ \A i \in 1..j : u[i] = s[i]
      /\ u[j + 1] = t
      /\ \A i \in (j + 2)..(n + 1) : u[i] = s[i - 1]
      /\ \A i \in 1..(n + 1) :
           \/ i \in 1..j /\ u[i] = s[i]
           \/ i = j + 1 /\ u[i] = t
           \/ i \in (j + 2)..(n + 1) /\ i - 1 \in (j + 1)..n /\ u[i] = s[i - 1]
  BY <1>n, SpliceIs
<1>2. u \in [1..(n + 1) -> Timer!Timers]
  <2>1. \A i \in 1..n : s[i] \in Timer!Timers
    BY <1>n
  <2>2. \A S : (\A i \in 1..n : s[i] \in S) /\ t \in S => u \in [1..(n + 1) -> S]
    BY <1>n, SpliceIs
  <2> HIDE DEF u
  <2> QED  BY <2>1, <2>2
<1> HIDE DEF u
<1>3. /\ y.next[t] = s[j + 1] /\ y.next[s[j]] = t
      /\ \A i \in 1..n : i # j => y.next[s[i]] = x.next[s[i]]
  <2>1. s[j] \in Timer!Timers /\ s[j] # t
    BY <1>n
  <2>2. \A i \in 1..n : i # j => s[i] # s[j] /\ s[i] # t /\ s[i] \in Timer!Timers
    BY <1>n
  <2> QED  BY <2>1, <2>2, <1>x
<1>4. ASSUME NEW i \in 1..n
      PROVE  y.next[u[i]] = u[i + 1]
  <2>1. CASE i < j
    <3>1. i \in 1..j /\ i + 1 \in 1..j /\ i \in 1..(n - 1) /\ i # j
      BY <2>1, <1>n
    <3>2. u[i] = s[i] /\ u[i + 1] = s[i + 1]
      BY <3>1, <1>1
    <3> QED  BY <3>1, <3>2, <1>3, <1>n
  <2>2. CASE i = j
    <3>1. i \in 1..j
      BY <2>2
    <3>2. u[i] = s[j] /\ u[i + 1] = t
      BY <2>2, <3>1, <1>1
    <3> QED  BY <3>2, <1>3
  <2>3. CASE i = j + 1
    <3>1. i + 1 \in (j + 2)..(n + 1) /\ (i + 1) - 1 = j + 1
      BY <2>3, <1>n
    <3>2. u[i] = t /\ u[i + 1] = s[j + 1]
      BY <2>3, <3>1, <1>1
    <3> QED  BY <3>2, <1>3
  <2>4. CASE i > j + 1
    <3>1. /\ i \in (j + 2)..(n + 1) /\ i + 1 \in (j + 2)..(n + 1) /\ (i + 1) - 1 = i
          /\ i - 1 \in 1..(n - 1) /\ i - 1 \in 1..n /\ i - 1 # j /\ (i - 1) + 1 = i
      BY <2>4, <1>n
    <3>2. u[i] = s[i - 1] /\ u[i + 1] = s[i]
      BY <3>1, <1>1
    <3>3. y.next[s[i - 1]] = x.next[s[i - 1]]
      BY <3>1, <1>3
    <3>4. x.next[s[i - 1]] = s[i]
      BY <3>1, <1>n
    <3> QED  BY <3>2, <3>3, <3>4
  <2> QED  BY <2>1, <2>2, <2>3, <2>4, <1>n
<1>5. u[n + 1] = "sentinel" /\ y.next["sentinel"] = "nil" /\ u[1] = s[1]
  <2>1. n + 1 \in (j + 2)..(n + 1) /\ (n + 1) - 1 = n /\ 1 \in 1..j /\ n \in 1..n /\ n # j
    BY <1>n
  <2>2. u[n + 1] = s[n] /\ u[1] = s[1]
    BY <2>1, <1>1
  <2>3. y.next[s[n]] = x.next[s[n]]
    BY <2>1, <1>3
  <2> QED  BY <2>2, <2>3, <1>n
<1>6. ASSUME NEW i \in 1..(n + 1), NEW k \in 1..(n + 1), u[i] = u[k]
      PROVE  i = k
  <2>0. n \in Nat /\ j \in Nat /\ j <= n
    BY <1>n
  <2>1. \A a \in 1..j : a \in 1..n
    BY <2>0
  <2>2. \A a \in (j + 1)..n : a \in 1..n /\ a \notin 1..j
    BY <2>0
  <2>3. CASE i \in 1..j /\ u[i] = s[i]
    BY <2>3, <2>1, <2>2, <1>1, <1>6, <1>n
  <2>4. CASE i = j + 1 /\ u[i] = t
    BY <2>4, <2>1, <2>2, <1>1, <1>6, <1>n
  <2>5. CASE i \in (j + 2)..(n + 1) /\ i - 1 \in (j + 1)..n /\ u[i] = s[i - 1]
    <3>1. CASE k \in (j + 2)..(n + 1) /\ k - 1 \in (j + 1)..n /\ u[k] = s[k - 1]
      <4>1. i - 1 = k - 1
        BY <2>5, <3>1, <2>2, <1>6, <1>n
      <4> QED  BY <4>1
    <3> QED  BY <2>5, <3>1, <2>1, <2>2, <1>1, <1>6, <1>n
  <2> QED  BY <2>3, <2>4, <2>5, <1>1
<1>7. (n + 1) - 1 = n /\ n + 1 \in Nat \ {0}
  BY <1>n
<1> QED  BY <1>2, <1>4, <1>5, <1>6, <1>7 DEF Chain, u

\* Splicing a timer in keeps the order of time.
LEMMA SpliceTimed ==
    ASSUME NEW c \in Timer!Clock, NEW x, NEW s, NEW n, Chain(x, s, n), Timed(c, x, s, n),
           NEW j \in 1..(n - 1), NEW t \in Timer!Timers, NEW y \in Timer!Queues,
           \A i \in 1..(n - 1) : y.wake[s[i]] = x.wake[s[i]],
           Left(c, y.wake[t]) <= Horizon,
           Left(c, x.wake[s[j]]) <= Left(c, y.wake[t]),
           j + 1 <= n - 1 => Left(c, y.wake[t]) <= Left(c, x.wake[s[j + 1]])
    PROVE  Timed(c, y, Splice(s, n, j, t), n + 1)
<1> DEFINE u == Splice(s, n, j, t)
           L(i) == Left(c, x.wake[s[i]])
           M(i) == Left(c, y.wake[u[i]])
           v == Left(c, y.wake[t])
<1>n. n \in Nat \ {0} /\ j \in 0..n /\ \A i \in 1..n : s[i] \in Timer!Timers
  BY DEF Chain
<1>1. /\ v \in Nat /\ \A i \in 1..(n - 1) : L(i) \in Nat
  <2>1. y.wake[t] \in Timer!Clock
    BY QueueFields
  <2>2. \A i \in 1..(n - 1) : i \in 1..n
    BY <1>n
  <2>3. \A i \in 1..(n - 1) : x.wake[s[i]] \in Timer!Clock
    BY <2>2, <1>n, QueueFields DEF Chain
  <2> QED  BY <2>1, <2>3, LeftType
<1>2. \A i \in 1..n :
        \/ i \in 1..j /\ M(i) = L(i)
        \/ i = j + 1 /\ M(i) = v
        \/ i \in (j + 2)..n /\ M(i) = L(i - 1)
  <2>1. /\ \A i \in 1..j : u[i] = s[i]
        /\ u[j + 1] = t
        /\ \A i \in (j + 2)..(n + 1) : u[i] = s[i - 1]
    BY <1>n, SpliceIs
  <2> HIDE DEF u
  <2>2. \A i \in 1..j : M(i) = L(i)
    <3>1. \A i \in 1..j : i \in 1..(n - 1)
      BY <1>n
    <3> QED  BY <2>1, <3>1
  <2>3. \A i \in (j + 2)..n : M(i) = L(i - 1)
    <3>1. \A i \in (j + 2)..n : i - 1 \in 1..(n - 1) /\ i \in (j + 2)..(n + 1)
      BY <1>n
    <3> QED  BY <2>1, <3>1
  <2>4. \A i \in 1..n : i \in 1..j \/ i = j + 1 \/ i \in (j + 2)..n
    BY <1>n
  <2> QED  BY <2>1, <2>2, <2>3, <2>4
<1>3. /\ \A i \in 1..(n - 1) : L(i) <= Horizon
      /\ \A i, k \in 1..(n - 1) : i <= k => L(i) <= L(k)
      /\ v <= Horizon /\ L(j) <= v /\ (j + 1 <= n - 1 => v <= L(j + 1))
  BY DEF Timed
<1> HIDE DEF L, M, v
<1>4. /\ \A i \in 1..j : L(i) <= v
      /\ \A i \in (j + 1)..(n - 1) : v <= L(i)
  <2>1. \A i \in 1..j : i \in 1..(n - 1) /\ i <= j
    BY <1>n
  <2>2. \A i \in 1..j : L(i) <= L(j) /\ L(i) \in Nat /\ L(j) \in Nat
    BY <2>1, <1>1, <1>3
  <2>3. \A i \in (j + 1)..(n - 1) : i \in 1..(n - 1) /\ j + 1 \in 1..(n - 1) /\ j + 1 <= i
    BY <1>n
  <2>4. \A i \in (j + 1)..(n - 1) : /\ L(j + 1) <= L(i) /\ v <= L(j + 1)
                                   /\ L(i) \in Nat /\ L(j + 1) \in Nat
    BY <2>3, <1>1, <1>3
  <2>5. \A i \in 1..j : L(i) <= v
    BY <2>2, <1>1, <1>3
  <2>6. \A i \in (j + 1)..(n - 1) : v <= L(i)
    BY <2>4, <1>1
  <2> QED  BY <2>5, <2>6
<1>5. /\ \A i \in 1..j : i \in 1..(n - 1)
      /\ \A i \in (j + 2)..n : i - 1 \in 1..(n - 1) /\ i - 1 \in (j + 1)..(n - 1)
  BY <1>n
<1>6. \A i \in 1..n : M(i) <= Horizon
  BY <1>2, <1>3, <1>5
<1>7. ASSUME NEW i \in 1..n, NEW k \in 1..n, i <= k
      PROVE  M(i) <= M(k)
  <2>1. CASE i \in 1..j /\ M(i) = L(i)
    <3>1. CASE k \in 1..j /\ M(k) = L(k)
      BY <2>1, <3>1, <1>5, <1>7, <1>3
    <3>2. CASE k = j + 1 /\ M(k) = v
      BY <2>1, <3>2, <1>4
    <3>3. CASE k \in (j + 2)..n /\ M(k) = L(k - 1)
      <4>1. i <= k - 1 /\ k - 1 \in 1..(n - 1) /\ i \in 1..(n - 1)
        BY <2>1, <3>3, <1>5
      <4> QED  BY <2>1, <3>3, <4>1, <1>3
    <3> QED  BY <3>1, <3>2, <3>3, <1>2
  <2>2. CASE i = j + 1 /\ M(i) = v
    <3>1. CASE k = j + 1
      BY <2>2, <3>1, <1>1
    <3>2. CASE k # j + 1
      <4>1. k \in (j + 2)..n /\ k \notin 1..j
        BY <2>2, <3>2, <1>7, <1>n
      <4>2. M(k) = L(k - 1)
        BY <4>1, <3>2, <1>2
      <4> QED  BY <2>2, <4>1, <4>2, <1>4, <1>5
    <3> QED  BY <3>1, <3>2
  <2>3. CASE i \in (j + 2)..n /\ M(i) = L(i - 1)
    <3>1. k \in (j + 2)..n /\ k \notin 1..j /\ k # j + 1 /\ i - 1 <= k - 1
      BY <2>3, <1>7, <1>n
    <3>2. M(k) = L(k - 1)
      BY <3>1, <1>2
    <3> QED  BY <2>3, <3>1, <3>2, <1>3, <1>5
  <2> QED  BY <2>1, <2>2, <2>3, <1>2
<1>8. (n + 1) - 1 = n
  BY <1>n
<1> QED  BY <1>6, <1>7, <1>8 DEF Timed, M, u

\* Splicing a timer in adds it to the members.
LEMMA SpliceMembers ==
    ASSUME NEW B, NEW s, NEW n \in Nat, Members(B, s, n), NEW j \in 1..n,
           NEW t \in Users \cup {"periodic"}
    PROVE  Members(B \cup {t}, Splice(s, n, j, t), n + 1)
<1> DEFINE u == Splice(s, n, j, t)
<1>1. /\ \A i \in 1..j : u[i] = s[i]
      /\ u[j + 1] = t
      /\ \A i \in (j + 2)..(n + 1) : u[i] = s[i - 1]
      /\ \A i \in 1..(n + 1) :
           \/ i \in 1..j /\ u[i] = s[i]
           \/ i = j + 1 /\ u[i] = t
           \/ i \in (j + 2)..(n + 1) /\ i - 1 \in (j + 1)..n /\ u[i] = s[i - 1]
  <2>1. j \in 0..n
    OBVIOUS
  <2> QED  BY <2>1, SpliceIs
<1> HIDE DEF u
<1>2. t # "deleted" /\ t # "sentinel"
  BY TimersFacts
<1>3. /\ \A i \in 1..j : i \in 1..n /\ i \in 1..(n + 1)
      /\ \A i \in (j + 1)..n : i \in 1..n /\ i # 1 /\ i + 1 \in (j + 2)..(n + 1) /\ (i + 1) - 1 = i
      /\ j + 1 \in 1..(n + 1) /\ (j + 2)..(n + 1) \subseteq 1..(n + 1)
      /\ \A i \in 1..n : i \in 1..j \/ i \in (j + 1)..n
  OBVIOUS
<1>4. \A i \in 1..(n + 1) : u[i] \in (B \cup {t}) \cup {"sentinel", "deleted"}
  BY <1>1, <1>3 DEF Members
<1>5. ASSUME NEW a \in B \cup {t}
      PROVE  \E i \in 1..(n + 1) : u[i] = a
  <2>1. CASE a = t
    BY <2>1, <1>1, <1>3
  <2>2. CASE a \in B
    <3>1. PICK i \in 1..n : s[i] = a
      BY <2>2 DEF Members
    <3>2. CASE i \in 1..j
      BY <3>1, <3>2, <1>1, <1>3
    <3>3. CASE i \in (j + 1)..n
      <4>1. u[i + 1] = s[i] /\ i + 1 \in 1..(n + 1)
        BY <3>3, <1>1, <1>3
      <4> QED  BY <3>1, <4>1
    <3> QED  BY <3>2, <3>3, <1>3
  <2> QED  BY <2>1, <2>2
<1>6. \A i \in 1..(n + 1) : u[i] = "deleted" => i = 1
  BY <1>1, <1>2, <1>3 DEF Members
<1>7. B \cup {t} \subseteq Users \cup {"periodic"}
  BY DEF Members
<1> QED  BY <1>4, <1>5, <1>6, <1>7 DEF Members, u

\* Facts about the times on a list.
LEMMA ListedTimes ==
    ASSUME NEW c \in Timer!Clock, NEW x, NEW B, NEW s, NEW n, Listed(c, x, B, s, n)
    PROVE  /\ n \in Nat \ {0} /\ x \in Timer!Queues
           /\ x.wake["periodic"] \in Timer!Clock /\ x.wake["sentinel"] \in Timer!Clock
           /\ Left(c, x.wake["periodic"]) \in Nat /\ Left(c, x.wake["periodic"]) < Half
           /\ \A i \in 1..n : s[i] \in Timer!Timers /\ x.wake[s[i]] \in Timer!Clock
           /\ \A i \in 1..(n - 1) :
                /\ i \in 1..n /\ Left(c, x.wake[s[i]]) \in Nat
                /\ Left(c, x.wake[s[i]]) < Half /\ s[i] # "sentinel"
<1>1. /\ n \in Nat \ {0} /\ x \in Timer!Queues /\ s \in [1..n -> Timer!Timers] /\ s[n] = "sentinel"
      /\ \A i, j \in 1..n : s[i] = s[j] => i = j
  BY DEF Listed, Chain
<1>2. \A t \in Timer!Timers : x.wake[t] \in Timer!Clock
  BY <1>1, QueueFields
<1>3. "periodic" \in Timer!Timers /\ "sentinel" \in Timer!Timers
  BY TimersFacts
<1>4. \A t \in Timer!Timers : Left(c, x.wake[t]) \in Nat
  BY <1>2, LeftType
<1>5. \A i \in 1..n : s[i] \in Timer!Timers
  BY <1>1
<1>6. \A i \in 1..(n - 1) : i \in 1..n /\ i # n /\ n \in 1..n
  BY <1>1
<1>7. \A i \in 1..(n - 1) : s[i] # "sentinel"
  BY <1>1, <1>6
<1>8. /\ \A i \in 1..(n - 1) : Left(c, x.wake[s[i]]) <= Horizon
      /\ Left(c, x.wake["periodic"]) <= Horizon
  BY DEF Listed, Timed, SentinelSet
<1>9. \A k \in Nat : k <= Horizon => k < Half
  BY Consts
<1>10. Left(c, x.wake["periodic"]) < Half
  BY <1>3, <1>4, <1>8, <1>9
<1>11. \A i \in 1..(n - 1) : Left(c, x.wake[s[i]]) \in Nat /\ Left(c, x.wake[s[i]]) < Half
  BY <1>4, <1>5, <1>6, <1>8, <1>9
<1> QED  BY <1>1, <1>2, <1>3, <1>4, <1>5, <1>6, <1>7, <1>10, <1>11

\* Behind a timer that is not later than w there is one that is later: the sentinel,
\* or periodic_timer if that is still to come.
LEMMA LaterExists ==
    ASSUME NEW c \in Timer!Clock, NEW x, NEW B, NEW s, NEW n, Listed(c, x, B, s, n),
           NEW w \in Timer!Clock, Left(c, w) <= Horizon, NEW m \in 1..(n - 1),
           ~Timer!Before(w, x.wake[s[m]]),
           "periodic" \in B \/ Left(c, x.wake["periodic"]) <= Left(c, w)
    PROVE  \E k \in (m + 1)..n : Timer!Before(w, x.wake[s[k]])
<1> DEFINE lw == Left(c, w)
           lp == Left(c, x.wake["periodic"])
           lm == Left(c, x.wake[s[m]])
<1>1. /\ n \in Nat \ {0}
      /\ x.wake["periodic"] \in Timer!Clock /\ x.wake["sentinel"] \in Timer!Clock /\ lp \in Nat /\ lp < Half
      /\ x.wake[s[m]] \in Timer!Clock /\ lm \in Nat /\ lm < Half
  BY ListedTimes
<1>2. lw \in Nat /\ lw < Half
  BY LeftType, Consts
<1>3. lm <= lw
  <2>1. ~(lw < lm)
    BY <1>1, <1>2, BeforeIsLess
  <2> HIDE DEF lw, lm
  <2> QED  BY <1>1, <1>2, <2>1
<1>4. CASE lp <= lw
  <2>1. Timer!Before(w, x.wake["sentinel"])
    BY <1>1, <1>2, <1>4, BeforeSentinel DEF Listed, SentinelSet
  <2>2. s[n] = "sentinel" /\ n \in (m + 1)..n
    BY <1>1 DEF Listed, Chain
  <2> QED  BY <2>1, <2>2
<1>5. CASE ~(lp <= lw)
  <2>1. lw < lp
    <3> HIDE DEF lw, lp
    <3> QED  BY <1>1, <1>2, <1>5
  <2>2. Timer!Before(w, x.wake["periodic"])
    BY <1>1, <1>2, <2>1, BeforeIsLess
  <2>3. PICK p \in 1..n : s[p] = "periodic"
    BY <1>5 DEF Listed, Members
  <2>4. p \in 1..(n - 1)
    <3>1. p # n
      BY <2>3 DEF Listed, Chain
    <3> QED  BY <3>1, <1>1
  <2>5. ~(p <= m)
    <3> SUFFICES ASSUME p <= m PROVE FALSE
      OBVIOUS
    <3>1. lp <= lm
      BY <2>3, <2>4 DEF Listed, Timed
    <3> HIDE DEF lw, lm, lp
    <3> QED  BY <3>1, <2>1, <1>1, <1>2, <1>3
  <2>6. p \in (m + 1)..n
    BY <2>4, <2>5, <1>1
  <2> QED  BY <2>2, <2>3, <2>6
<1> QED  BY <1>4, <1>5

\* What holds of the links and times on the list holds of a queue that agrees on them.
LEMMA ListedSame ==
    ASSUME NEW c, NEW x, NEW B, NEW s, NEW n, Listed(c, x, B, s, n), NEW y \in Timer!Queues,
           y.list = x.list, \A i \in 1..n : y.next[s[i]] = x.next[s[i]],
           \A i \in 1..n : y.wake[s[i]] = x.wake[s[i]],
           y.wake["periodic"] = x.wake["periodic"]
    PROVE  Listed(c, y, B, s, n)
<1>1. /\ n \in Nat \ {0} /\ s \in [1..n -> Timer!Timers]
      /\ x \in Timer!Queues /\ x.list = s[1]
      /\ \A i \in 1..(n - 1) : x.next[s[i]] = s[i + 1]
      /\ s[n] = "sentinel" /\ x.next["sentinel"] = "nil"
      /\ \A i, j \in 1..n : s[i] = s[j] => i = j
  BY DEF Listed, Chain
<1>2. n \in 1..n /\ \A i \in 1..(n - 1) : i \in 1..n
  BY <1>1
<1>3. Chain(y, s, n)
  <2>1. y.next["sentinel"] = "nil" /\ \A i \in 1..(n - 1) : y.next[s[i]] = s[i + 1]
    BY <1>1, <1>2
  <2> QED  BY <1>1, <2>1 DEF Chain
<1>4. Timed(c, y, s, n)
  <2>1. \A i \in 1..(n - 1) : y.wake[s[i]] = x.wake[s[i]]
    BY <1>2
  <2> QED  BY <2>1 DEF Timed, Listed
<1>5. SentinelSet(c, y)
  BY <1>1, <1>2 DEF SentinelSet, Listed
<1> QED  BY <1>3, <1>4, <1>5 DEF Listed

\* A search for the time w may begin at pos: it is the m-th timer and not later, or
\* (m = 0) leads to the first timer, which is not later.
StartsAt(x, s, w, m, pos) ==
    /\ m = 0 => x.next[pos] = s[1] /\ ~Timer!Before(w, x.wake[s[1]])
    /\ m # 0 => pos = s[m] /\ ~Timer!Before(w, x.wake[s[m]])

\* What insert_timer() needs of the timer t, which is not on the list, and of pos.
CanInsert(c, x, B, s, n, t, m, pos) ==
    /\ n # 1 /\ m \in 0..(n - 1) /\ pos \in Timer!Timers
    /\ t \in Users \cup {"periodic"} /\ t \notin B
    /\ Left(c, x.wake[t]) <= Horizon
    /\ StartsAt(x, s, x.wake[t], m, pos)
    /\ "periodic" \in B \/ Left(c, x.wake["periodic"]) <= Left(c, x.wake[t])

\* insert_timer() makes t a member of the list and leaves the hint.
Inserts(c, x, B, n, t, pos) ==
    \E u : /\ Listed(c, Timer!Insert(x, pos, t, x.wake[t]), B \cup {t}, u, n + 1)
           /\ Timer!Insert(x, pos, t, x.wake[t]).last = x.last

\* insert_timer()
LEMMA ListedInsert ==
    ASSUME NEW c \in Timer!Clock, NEW x, NEW B, NEW s, NEW n, Listed(c, x, B, s, n),
           NEW t, NEW m, NEW pos, CanInsert(c, x, B, s, n, t, m, pos)
    PROVE  Inserts(c, x, B, n, t, pos)
<1> DEFINE w == x.wake[t]
           y == Timer!Insert(x, pos, t, w)
           mm == IF m = 0 THEN 1 ELSE m
<1>0. /\ n # 1 /\ m \in 0..(n - 1) /\ pos \in Timer!Timers
      /\ t \in Users \cup {"periodic"} /\ t \notin B
      /\ Left(c, x.wake[t]) <= Horizon
      /\ StartsAt(x, s, x.wake[t], m, pos)
      /\ "periodic" \in B \/ Left(c, x.wake["periodic"]) <= Left(c, x.wake[t])
  BY DEF CanInsert
<1> USE <1>0
<1>1. /\ n \in Nat \ {0} /\ x \in Timer!Queues
      /\ \A i \in 1..n : s[i] \in Timer!Timers /\ x.wake[s[i]] \in Timer!Clock
      /\ \A i \in 1..(n - 1) :
           /\ i \in 1..n /\ Left(c, x.wake[s[i]]) \in Nat
           /\ Left(c, x.wake[s[i]]) < Half /\ s[i] # "sentinel"
  BY ListedTimes
<1>2. t \in Timer!Timers /\ t # "sentinel" /\ t # "deleted"
  BY TimersFacts
<1>3. w \in Timer!Clock
  BY <1>1, <1>2, QueueFields
<1>4. Left(c, w) \in Nat /\ Left(c, w) < Half
  BY <1>3, LeftType, Consts
<1>5. Chain(x, s, n) /\ Members(B, s, n) /\ Timed(c, x, s, n) /\ SentinelSet(c, x)
  BY DEF Listed
<1>6. mm \in 1..(n - 1) /\ ~Timer!Before(w, x.wake[s[mm]])
  BY <1>1 DEF StartsAt
<1> HIDE DEF w, y, mm
<1>7. \E k \in (mm + 1)..n : Timer!Before(w, x.wake[s[k]])
  <2>1. Left(c, w) <= Horizon /\ ("periodic" \in B \/ Left(c, x.wake["periodic"]) <= Left(c, w))
    BY DEF w
  <2> QED  BY <2>1, <1>3, <1>6, LaterExists
<1>8. PICK k \in (mm + 1)..n : Timer!Before(w, x.wake[s[k]])
  BY <1>7
<1>9. k \in (m + 1)..n
  BY <1>1, <1>8 DEF mm
<1>10. /\ (m = 0 => ~Timer!Before(w, x.wake[s[1]])) /\ (m # 0 => ~Timer!Before(w, x.wake[s[m]]))
       /\ (m = 0 => x.next[pos] = s[1]) /\ (m # 0 => pos = s[m])
  BY DEF w, StartsAt
<1>11. \E j \in 1..(n - 1) :
         /\ Timer!Insert(x, pos, t, w) = [x EXCEPT !.next = [@ EXCEPT ![t] = s[j + 1], ![s[j]] = t]]
         /\ ~Timer!Before(w, x.wake[s[j]]) /\ Timer!Before(w, x.wake[s[j + 1]])
  BY <1>5, <1>8, <1>9, <1>10, InsertIs
<1>12. PICK j \in 1..(n - 1) :
         /\ y = [x EXCEPT !.next = [@ EXCEPT ![t] = s[j + 1], ![s[j]] = t]]
         /\ ~Timer!Before(w, x.wake[s[j]]) /\ Timer!Before(w, x.wake[s[j + 1]])
  BY <1>11 DEF y
<1>13. /\ y \in Timer!Queues /\ y.list = x.list /\ y.last = x.last /\ y.wake = x.wake
       /\ y.next = [x.next EXCEPT ![t] = s[j + 1], ![s[j]] = t]
  <2>1. j \in 1..n /\ j + 1 \in 1..n
    BY <1>1
  <2>2. s[j] \in Timer!Timers /\ s[j + 1] \in Timer!Timers
    BY <2>1, <1>1
  <2>3. y \in Timer!Queues
    BY <1>1, <1>2, <1>12, <2>2 DEF Timer!Queues
  <2> QED  BY <2>3, <1>1, <1>12 DEF Timer!Queues
<1>14. \A i \in 1..n : s[i] # t
  BY <1>2, <1>5 DEF Members
<1>15. Chain(y, Splice(s, n, j, t), n + 1)
  <2>1. y.list = s[1]
    BY <1>5, <1>13 DEF Chain
  <2> QED  BY <1>2, <1>5, <1>13, <1>14, <2>1, SpliceChain
<1>16. Timed(c, y, Splice(s, n, j, t), n + 1)
  <2>1. Left(c, x.wake[s[j]]) <= Left(c, w)
    <3>1. ~(Left(c, w) < Left(c, x.wake[s[j]]))
      BY <1>1, <1>3, <1>4, <1>12, BeforeIsLess
    <3>2. \A a, b \in Nat : ~(a < b) => b <= a
      OBVIOUS
    <3> QED  BY <3>1, <3>2, <1>1, <1>4
  <2>2. j + 1 <= n - 1 => Left(c, w) <= Left(c, x.wake[s[j + 1]])
    <3> SUFFICES ASSUME j + 1 <= n - 1 PROVE Left(c, w) <= Left(c, x.wake[s[j + 1]])
      OBVIOUS
    <3>0. j + 1 \in 1..(n - 1)
      BY <1>1
    <3>1. Left(c, w) < Left(c, x.wake[s[j + 1]])
      BY <3>0, <1>1, <1>3, <1>4, <1>12, BeforeIsLess
    <3>2. \A a, b \in Nat : a < b => a <= b
      OBVIOUS
    <3> QED  BY <3>0, <3>1, <3>2, <1>1, <1>4
  <2>3. y.wake[t] = w /\ Left(c, w) <= Horizon
    BY <1>13 DEF w
  <2> QED  BY <2>1, <2>2, <2>3, <1>2, <1>5, <1>13, SpliceTimed
<1>17. Members(B \cup {t}, Splice(s, n, j, t), n + 1)
  BY <1>1, <1>5, SpliceMembers
<1>18. SentinelSet(c, y)
  BY <1>5, <1>13 DEF SentinelSet
<1>19. Listed(c, y, B \cup {t}, Splice(s, n, j, t), n + 1)
  BY <1>15, <1>16, <1>17, <1>18 DEF Listed
<1> QED  BY <1>13, <1>19 DEF y, w, Inserts

\* In y the timer t is in front of the list of x, and not later than its first.
InFront(c, x, s, n, t, y) ==
    /\ t \in Timer!Timers /\ \A i \in 1..n : s[i] # t
    /\ y \in Timer!Queues /\ y.list = t /\ y.next[t] = s[1]
    /\ \A i \in 1..n : y.next[s[i]] = x.next[s[i]]
    /\ \A i \in 1..(n - 1) : y.wake[s[i]] = x.wake[s[i]]
    /\ SentinelSet(c, y)
    /\ Left(c, y.wake[t]) <= Horizon
    /\ n # 1 => Left(c, y.wake[t]) <= Left(c, y.wake[s[1]])

\* The list with another timer in front.
LEMMA ListedFront ==
    ASSUME NEW c \in Timer!Clock, NEW x, NEW B, NEW s, NEW n, Listed(c, x, B, s, n),
           NEW t, NEW y, InFront(c, x, s, n, t, y),
           NEW C, \/ t = "deleted" /\ C = B
                  \/ t \in Users \cup {"periodic"} /\ C = B \cup {t} /\ s[1] # "deleted"
    PROVE  Listed(c, y, C, Splice(s, n, 0, t), n + 1)
<1> DEFINE u == Splice(s, n, 0, t)
<1>n. /\ n \in Nat \ {0} /\ n \in Nat /\ s \in [1..n -> Timer!Timers] /\ 0 \in 0..n /\ n \in 1..n
      /\ \A i \in 1..(n - 1) : x.next[s[i]] = s[i + 1] /\ i \in 1..n
      /\ s[n] = "sentinel" /\ x.next["sentinel"] = "nil"
      /\ \A i, k \in 1..n : s[i] = s[k] => i = k
  BY DEF Listed, Chain
<1>1. u[1] = t /\ \A i \in 2..(n + 1) : u[i] = s[i - 1]
  BY <1>n, FrontIs
<1>2. u \in [1..(n + 1) -> Timer!Timers]
  <2>1. \A i \in 1..n : s[i] \in Timer!Timers
    BY <1>n
  <2>2. t \in Timer!Timers
    BY DEF InFront
  <2> QED  BY <1>n, <2>1, <2>2, FrontIs
<1> HIDE DEF u
<1> USE DEF InFront
<1>3. /\ \A i \in 1..(n + 1) : i = 1 \/ (i \in 2..(n + 1) /\ i - 1 \in 1..n)
      /\ \A i \in 1..n : i + 1 \in 2..(n + 1) /\ i + 1 \in 1..(n + 1) /\ (i + 1) - 1 = i
      /\ (n + 1) - 1 = n /\ n + 1 \in Nat \ {0} /\ 1 \in 1..n /\ 1 \in 1..(n + 1) /\ 2 \in 2..(n + 1)
      /\ n + 1 \in 2..(n + 1) /\ 2 - 1 = 1 /\ 1 + 1 = 2
  BY <1>n
<1>4. Chain(y, u, n + 1)
  <2>1. ASSUME NEW i \in 1..n
        PROVE  y.next[u[i]] = u[i + 1]
    <3>1. CASE i = 1
      BY <3>1, <1>1, <1>3
    <3>2. CASE i # 1
      <4>1. i \in 2..(n + 1) /\ i - 1 \in 1..(n - 1) /\ (i - 1) + 1 = i
        BY <3>2, <1>n
      <4>2. u[i] = s[i - 1] /\ u[i + 1] = s[i]
        BY <4>1, <1>1, <1>3
      <4>3. y.next[s[i - 1]] = s[i]
        BY <4>1, <1>n
      <4> QED  BY <4>2, <4>3
    <3> QED  BY <3>1, <3>2
  <2>2. u[n + 1] = "sentinel" /\ y.next["sentinel"] = "nil"
    BY <1>1, <1>3, <1>n
  <2>3. ASSUME NEW i \in 1..(n + 1), NEW k \in 1..(n + 1), u[i] = u[k]
        PROVE  i = k
    <3>1. CASE i = 1
      BY <3>1, <2>3, <1>1, <1>3
    <3>2. CASE k = 1
      BY <3>2, <2>3, <1>1, <1>3
    <3>3. CASE i # 1 /\ k # 1
      <4>1. i - 1 \in 1..n /\ k - 1 \in 1..n /\ s[i - 1] = s[k - 1]
        BY <3>3, <2>3, <1>1, <1>3
      <4>2. i - 1 = k - 1
        BY <4>1, <1>n
      <4> QED  BY <4>2
    <3> QED  BY <3>1, <3>2, <3>3
  <2> QED  BY <2>1, <2>2, <2>3, <1>1, <1>2, <1>3 DEF Chain
<1>5. Timed(c, y, u, n + 1)
  <2> DEFINE L(i) == Left(c, y.wake[s[i]])
             M(i) == Left(c, y.wake[u[i]])
             v == Left(c, y.wake[t])
  <2>1. /\ \A i \in 1..(n - 1) : L(i) <= Horizon
        /\ \A i, k \in 1..(n - 1) : i <= k => L(i) <= L(k)
    BY DEF Listed, Timed
  <2>2. v \in Nat /\ \A i \in 1..(n - 1) : L(i) \in Nat
    <3>1. \A a \in Timer!Timers : y.wake[a] \in Timer!Clock
      BY QueueFields
    <3> QED  BY <3>1, <1>n, LeftType
  <2>3. M(1) = v /\ \A i \in 2..n : M(i) = L(i - 1) /\ i - 1 \in 1..(n - 1)
    <3>1. \A i \in 2..n : i \in 2..(n + 1) /\ i - 1 \in 1..(n - 1)
      BY <1>n
    <3> QED  BY <3>1, <1>1
  <2>4. v <= Horizon /\ (n # 1 => v <= L(1))
    OBVIOUS
  <2> HIDE DEF L, M, v
  <2>5. \A i \in 1..(n - 1) : v <= L(i)
    <3> SUFFICES ASSUME NEW i \in 1..(n - 1) PROVE v <= L(i)
      OBVIOUS
    <3>1. 1 \in 1..(n - 1) /\ 1 <= i /\ n # 1
      BY <1>n
    <3>2. v <= L(1) /\ L(1) <= L(i)
      BY <3>1, <2>1, <2>4
    <3>3. \A a, b, d \in Nat : a <= b /\ b <= d => a <= d
      OBVIOUS
    <3> QED  BY <3>1, <3>2, <3>3, <2>2
  <2>6. ASSUME NEW i \in 1..n, NEW k \in 1..n, i <= k
        PROVE  M(i) <= M(k)
    <3>1. CASE i = 1 /\ k = 1
      BY <3>1, <2>2, <2>3
    <3>2. CASE i = 1 /\ k # 1
      <4>1. k \in 2..n
        BY <3>2
      <4> QED  BY <3>2, <4>1, <2>3, <2>5
    <3>3. CASE i # 1
      <4>1. k \in 2..n /\ i \in 2..n /\ i - 1 <= k - 1
        BY <3>3, <2>6
      <4> QED  BY <4>1, <2>1, <2>3
    <3> QED  BY <3>1, <3>2, <3>3
  <2>7. \A i \in 1..n : M(i) <= Horizon
    <3>1. \A i \in 1..n : i = 1 \/ i \in 2..n
      OBVIOUS
    <3> QED  BY <3>1, <2>1, <2>3, <2>4
  <2> QED  BY <2>6, <2>7, <1>3 DEF Timed, M
<1>6. Members(C, u, n + 1)
  <2>0. Members(B, s, n)
    BY DEF Listed
  <2>1. C \subseteq Users \cup {"periodic"}
    BY <2>0 DEF Members
  <2>2. \A i \in 1..(n + 1) : u[i] \in C \cup {"sentinel", "deleted"}
    BY <2>0, <1>1, <1>3 DEF Members
  <2>3. ASSUME NEW a \in C
        PROVE  \E i \in 1..(n + 1) : u[i] = a
    <3>1. CASE a = t
      BY <3>1, <1>1, <1>3
    <3>2. CASE a \in B
      <4>1. PICK i \in 1..n : s[i] = a
        BY <3>2, <2>0 DEF Members
      <4>2. u[i + 1] = a /\ i + 1 \in 1..(n + 1)
        BY <4>1, <1>1, <1>3
      <4> QED  BY <4>2
    <3> QED  BY <3>1, <3>2
  <2>4. \A i \in 1..(n + 1) : u[i] = "deleted" => i = 1
    <3> SUFFICES ASSUME NEW i \in 1..(n + 1), u[i] = "deleted", i # 1 PROVE FALSE
      OBVIOUS
    <3>1. s[i - 1] = "deleted" /\ i - 1 \in 1..n
      BY <1>1, <1>3
    <3>2. i - 1 = 1
      BY <3>1, <2>0 DEF Members
    <3>3. s[1] = "deleted"
      BY <3>1, <3>2
    <3>4. t # "deleted"
      BY <3>1
    <3> QED  BY <3>3, <3>4
  <2> QED  BY <2>1, <2>2, <2>3, <2>4 DEF Members
<1> QED  BY <1>4, <1>5, <1>6 DEF Listed, u

\* The sequence without its j-th timer.
Without(s, n, j) == [i \in 1..(n - 1) |-> IF i < j THEN s[i] ELSE s[i + 1]]

\* A timer leaves the list; the one in front of it, or the list, goes on behind it.
LEMMA ListedWithout ==
    ASSUME NEW c \in Timer!Clock, NEW x, NEW B, NEW s, NEW n, Listed(c, x, B, s, n),
           NEW j \in 1..(n - 1), NEW y \in Timer!Queues,
           j = 1 => y.list = s[2], j # 1 => y.list = s[1] /\ y.next[s[j - 1]] = s[j + 1],
           \A i \in 1..n : i # j /\ i # j - 1 => y.next[s[i]] = x.next[s[i]],
           \A i \in 1..(n - 1) : i # j => y.wake[s[i]] = x.wake[s[i]], SentinelSet(c, y)
    PROVE  Listed(c, y, B \ {s[j]}, Without(s, n, j), n - 1)
<1> DEFINE u == Without(s, n, j)
<1>n. /\ n \in Nat \ {0} /\ s \in [1..n -> Timer!Timers] /\ n \in 1..n
      /\ \A i \in 1..(n - 1) : x.next[s[i]] = s[i + 1] /\ i \in 1..n
      /\ s[n] = "sentinel" /\ x.next["sentinel"] = "nil"
      /\ \A i, k \in 1..n : s[i] = s[k] => i = k
  BY DEF Listed, Chain
<1>1. \A i \in 1..(n - 1) : u[i] = IF i < j THEN s[i] ELSE s[i + 1]
  BY DEF Without
<1>2. /\ \A i \in 1..(n - 1) : i \in 1..n /\ i + 1 \in 1..n
      /\ n - 1 \in Nat \ {0} /\ n - 1 \in 1..(n - 1)
  BY <1>n
<1>3. u \in [1..(n - 1) -> Timer!Timers]
  <2>1. \A i \in 1..(n - 1) : (IF i < j THEN s[i] ELSE s[i + 1]) \in Timer!Timers
    BY <1>2, <1>n
  <2> QED  BY <2>1 DEF Without
<1> HIDE DEF u
<1>4. Chain(y, u, n - 1)
  <2>1. ASSUME NEW i \in 1..((n - 1) - 1)
        PROVE  y.next[u[i]] = u[i + 1]
    <3>0. i \in 1..(n - 1) /\ i + 1 \in 1..(n - 1) /\ i \in 1..n /\ i + 1 \in 1..n /\ (i + 1) + 1 \in 1..n
      BY <1>n
    <3>1. CASE i + 1 < j
      <4>1. u[i] = s[i] /\ u[i + 1] = s[i + 1] /\ i # j /\ i # j - 1
        BY <3>0, <3>1, <1>1
      <4> QED  BY <4>1, <3>0, <1>n
    <3>2. CASE i + 1 = j
      <4>1. u[i] = s[j - 1] /\ u[i + 1] = s[j + 1] /\ j # 1
        BY <3>0, <3>2, <1>1
      <4> QED  BY <4>1
    <3>3. CASE i + 1 > j
      <4>1. u[i] = s[i + 1] /\ u[i + 1] = s[(i + 1) + 1] /\ i + 1 # j /\ i + 1 # j - 1
        BY <3>0, <3>3, <1>1
      <4> QED  BY <4>1, <3>0, <1>n
    <3> QED  BY <3>0, <3>1, <3>2, <3>3
  <2>2. u[n - 1] = "sentinel"
    <3>1. ~(n - 1 < j) /\ (n - 1) + 1 = n
      BY <1>n
    <3> QED  BY <3>1, <1>1, <1>2, <1>n
  <2>3. y.next["sentinel"] = "nil"
    <3>1. n # j /\ n # j - 1
      BY <1>n
    <3> QED  BY <3>1, <1>n
  <2>4. y.list = u[1]
    <3>1. CASE j = 1
      <4>1. ~(1 < j) /\ 1 + 1 = 2 /\ 1 \in 1..(n - 1)
        BY <3>1, <1>n
      <4> QED  BY <3>1, <4>1, <1>1
    <3>2. CASE j # 1
      <4>1. 1 < j /\ 1 \in 1..(n - 1)
        BY <3>2, <1>n
      <4> QED  BY <3>2, <4>1, <1>1
    <3> QED  BY <3>1, <3>2
  <2>5. ASSUME NEW i \in 1..(n - 1), NEW k \in 1..(n - 1), u[i] = u[k]
        PROVE  i = k
    <3> DEFINE f(a) == IF a < j THEN a ELSE a + 1
    <3>1. \A a \in 1..(n - 1) : f(a) \in 1..n /\ u[a] = s[f(a)]
      BY <1>1, <1>2
    <3>2. s[f(i)] = s[f(k)] /\ f(i) \in 1..n /\ f(k) \in 1..n
      <4> HIDE DEF f
      <4> QED  BY <3>1, <2>5
    <3>3. f(i) = f(k)
      <4> HIDE DEF f
      <4> QED  BY <3>2, <1>n
    <3> QED  BY <3>3
  <2> QED  BY <2>1, <2>2, <2>3, <2>4, <2>5, <1>2, <1>3 DEF Chain
<1>5. Timed(c, y, u, n - 1)
  <2> DEFINE f(a) == IF a < j THEN a ELSE a + 1
  <2>1. \A a \in 1..((n - 1) - 1) : f(a) \in 1..(n - 1) /\ f(a) # j /\ u[a] = s[f(a)]
    <3>1. \A a \in 1..((n - 1) - 1) : a \in 1..(n - 1) /\ a + 1 \in 1..(n - 1)
      BY <1>n
    <3> QED  BY <3>1, <1>1
  <2>2. \A a, b \in 1..((n - 1) - 1) : a <= b => f(a) <= f(b)
    BY <1>n
  <2> HIDE DEF f
  <2>3. \A a \in 1..((n - 1) - 1) : y.wake[u[a]] = x.wake[s[f(a)]]
    BY <2>1
  <2> QED  BY <2>1, <2>2, <2>3 DEF Timed, Listed
<1>6. Members(B \ {s[j]}, u, n - 1)
  <2>0. Members(B, s, n)
    BY DEF Listed
  <2> DEFINE f(a) == IF a < j THEN a ELSE a + 1
  <2>1. \A a \in 1..(n - 1) : f(a) \in 1..n /\ f(a) # j /\ u[a] = s[f(a)] /\ (f(a) = 1 => a = 1)
    BY <1>1, <1>2
  <2>2. \A b \in 1..n : b # j => \E a \in 1..(n - 1) : f(a) = b
    <3> SUFFICES ASSUME NEW b \in 1..n, b # j PROVE \E a \in 1..(n - 1) : f(a) = b
      OBVIOUS
    <3>1. CASE b < j
      BY <3>1, <1>n
    <3>2. CASE b > j
      <4>1. b - 1 \in 1..(n - 1) /\ f(b - 1) = b
        BY <3>2, <1>n
      <4> QED  BY <4>1
    <3> QED  BY <3>1, <3>2, <1>n
  <2> HIDE DEF f
  <2>3. j \in 1..n
    BY <1>n
  <2>4. \A a \in 1..(n - 1) : u[a] # s[j]
    BY <2>1, <2>3, <1>n
  <2>5. \A i \in 1..(n - 1) : u[i] \in (B \ {s[j]}) \cup {"sentinel", "deleted"}
    BY <2>0, <2>1, <2>4 DEF Members
  <2>6. ASSUME NEW a \in B \ {s[j]}
        PROVE  \E i \in 1..(n - 1) : u[i] = a
    <3>1. PICK b \in 1..n : s[b] = a
      BY <2>0 DEF Members
    <3>2. PICK i \in 1..(n - 1) : f(i) = b
      BY <2>2, <3>1
    <3> QED  BY <3>1, <3>2, <2>1
  <2>7. \A i \in 1..(n - 1) : u[i] = "deleted" => i = 1
    BY <2>0, <2>1 DEF Members
  <2>8. B \ {s[j]} \subseteq Users \cup {"periodic"}
    BY <2>0 DEF Members
  <2> QED  BY <2>5, <2>6, <2>7, <2>8 DEF Members
<1> QED  BY <1>4, <1>5, <1>6 DEF Listed, u

\* The beginning of a list that holds periodic_timer.
LEMMA ListedBegin ==
    ASSUME NEW c \in Timer!Clock, NEW x, NEW B, NEW s, NEW n, Listed(c, x, B, s, n), "periodic" \in B
    PROVE  /\ n \in Nat /\ 1 \in 1..(n - 1) /\ n # 1 /\ x.list = s[1] /\ x.next[s[1]] = s[2]
           /\ s[1] \in B \cup {"deleted"} /\ s[1] # "sentinel"
           /\ s[1] # "periodic" => 2 \in 1..(n - 1) /\ s[2] \in B
<1>1. /\ n \in Nat \ {0} /\ x.list = s[1]
      /\ \A i \in 1..(n - 1) : x.next[s[i]] = s[i + 1]
      /\ s[n] = "sentinel"
      /\ \A i, k \in 1..n : s[i] = s[k] => i = k
  BY DEF Listed, Chain
<1>2. PICK p \in 1..n : s[p] = "periodic"
  BY DEF Listed, Members
<1>3. p # n
  BY <1>1, <1>2
<1>4. 1 \in 1..(n - 1) /\ n # 1 /\ 1 + 1 = 2 /\ 1 \in 1..n /\ n \in 1..n
  BY <1>1, <1>2, <1>3
<1>5. x.next[s[1]] = s[2]
  BY <1>1, <1>4
<1>6. \A i \in 1..n : s[i] \in B \cup {"sentinel", "deleted"} /\ (s[i] = "deleted" => i = 1)
  BY DEF Listed, Members
<1>7. s[1] # "sentinel"
  BY <1>1, <1>4
<1>8. ASSUME s[1] # "periodic"
      PROVE  2 \in 1..(n - 1) /\ s[2] \in B
  <2>1. p # 1
    BY <1>2, <1>8
  <2>2. 2 \in 1..(n - 1) /\ 2 \in 1..n /\ 2 # n /\ 2 # 1
    BY <2>1, <1>1, <1>2, <1>3
  <2>3. s[2] # "sentinel" /\ s[2] # "deleted"
    BY <2>2, <1>1, <1>4, <1>6
  <2> QED  BY <2>2, <2>3, <1>6
<1> QED  BY <1>1, <1>4, <1>5, <1>6, <1>7, <1>8

\* The list at the time c, with the timers A added and neither done nor deleted.
Good(c, x, A) ==
    /\ A \subseteq Users /\ x.last \in A \cup {"periodic"}
    /\ \E s, n : Listed(c, x, A \cup {"periodic"}, s, n)

\* A timer that is due returned SF_DONE.
LEMMA GoodDone ==
    ASSUME NEW c \in Timer!Clock, NEW x, NEW A, Good(c, x, A), x.list # "periodic"
    PROVE  Good(c, Timer!Done(x, x.list), A \ {x.list})
<1> DEFINE B == A \cup {"periodic"}
           t == x.list
           y == Timer!Done(x, t)
<1>1. PICK s, n : Listed(c, x, B, s, n)
  BY DEF Good
<1>2. /\ n \in Nat /\ 1 \in 1..(n - 1) /\ t = s[1] /\ x.next[t] = s[2] /\ s[2] \in B
      /\ 2 \in 1..(n - 1) /\ 2 \in 1..n /\ 1 \in 1..n
  BY <1>1, ListedBegin
<1>3. /\ x \in Timer!Queues /\ \A i, k \in 1..n : s[i] = s[k] => i = k
  BY <1>1 DEF Listed, Chain
<1>4. s[2] # t
  BY <1>2, <1>3
<1>5. A \subseteq Users /\ x.last \in B /\ B \subseteq Timer!Timers
  BY TimersFacts DEF Good
<1>6. /\ y \in Timer!Queues /\ y.list = s[2] /\ y.next = x.next /\ y.wake = x.wake
      /\ y.last = IF x.last = t THEN s[2] ELSE x.last
  BY <1>2, <1>3, <1>5 DEF Timer!Done, Timer!Queues
<1>7. SentinelSet(c, y)
  BY <1>1, <1>6 DEF SentinelSet, Listed
<1>8. Listed(c, y, B \ {s[1]}, Without(s, n, 1), n - 1)
  <2>0. 1 # 1 => y.list = s[1] /\ y.next[s[1 - 1]] = s[1 + 1]
    OBVIOUS
  <2> QED  BY <1>1, <1>2, <1>6, <1>7, <2>0, ListedWithout
<1>9. B \ {s[1]} = (A \ {t}) \cup {"periodic"}
  BY <1>2
<1>10. y.last \in (A \ {t}) \cup {"periodic"}
  BY <1>2, <1>4, <1>5, <1>6
<1>11. \E u, k : Listed(c, y, (A \ {t}) \cup {"periodic"}, u, k)
  BY <1>8, <1>9
<1> QED  BY <1>5, <1>10, <1>11 DEF Good

\* sched_timer_reset()
LEMMA GoodReset ==
    ASSUME NEW c \in Timer!Clock, NEW x, NEW A, Good(c, x, A)
    PROVE  Good(c, Timer!Reset(x), {})
<1> DEFINE y == Timer!Reset(x)
           s == [i \in 1..3 |-> IF i = 1 THEN "deleted" ELSE IF i = 2 THEN "periodic" ELSE "sentinel"]
<1>1. PICK s0, n0 : Listed(c, x, A \cup {"periodic"}, s0, n0)
  BY DEF Good
<1>2. x \in Timer!Queues /\ x.next["sentinel"] = "nil" /\ SentinelSet(c, x)
  BY <1>1 DEF Listed, Chain
<1>3. /\ y \in Timer!Queues /\ y.list = "deleted" /\ y.last = "periodic"
      /\ y.wake = [x.wake EXCEPT !["deleted"] = x.wake["periodic"]]
      /\ y.next = [x.next EXCEPT !["deleted"] = "periodic", !["periodic"] = "sentinel"]
  BY <1>2, TimersFacts DEF Timer!Reset, Timer!Queues
<1>4. /\ y.next["deleted"] = "periodic" /\ y.next["periodic"] = "sentinel" /\ y.next["sentinel"] = "nil"
      /\ y.wake["deleted"] = x.wake["periodic"] /\ y.wake["periodic"] = x.wake["periodic"]
      /\ y.wake["sentinel"] = x.wake["sentinel"]
  BY <1>2, <1>3, TimersFacts, QueueFields
<1>5. s[1] = "deleted" /\ s[2] = "periodic" /\ s[3] = "sentinel"
  OBVIOUS
<1>6. s \in [1..3 -> Timer!Timers]
  BY TimersFacts
<1> HIDE DEF s, y
<1>7. \A i \in 1..3 : i = 1 \/ i = 2 \/ i = 3
  OBVIOUS
<1>8. \A i \in 1..(3 - 1) : i = 1 \/ i = 2
  OBVIOUS
<1>9. 1 + 1 = 2 /\ 2 + 1 = 3 /\ 3 \in Nat \ {0} /\ 1 \in 1..3 /\ 2 \in 1..3 /\ 3 \in 1..3
  OBVIOUS
<1>10. Chain(y, s, 3)
  <2>1. \A i \in 1..(3 - 1) : y.next[s[i]] = s[i + 1]
    BY <1>4, <1>5, <1>8, <1>9
  <2>2. \A i, j \in 1..3 : s[i] = s[j] => i = j
    BY <1>5, <1>7
  <2> QED  BY <2>1, <2>2, <1>3, <1>4, <1>5, <1>6, <1>9 DEF Chain
<1>11. Members({} \cup {"periodic"}, s, 3)
  BY <1>5, <1>7, <1>9 DEF Members
<1>12. Timed(c, y, s, 3)
  <2>1. \A i \in 1..(3 - 1) : y.wake[s[i]] = x.wake["periodic"]
    BY <1>4, <1>5, <1>8
  <2>2. Left(c, x.wake["periodic"]) <= Horizon
    BY <1>2 DEF SentinelSet
  <2>3. Left(c, x.wake["periodic"]) \in Nat
    BY <1>2, TimersFacts, QueueFields, LeftType
  <2>4. Left(c, x.wake["periodic"]) <= Left(c, x.wake["periodic"])
    BY <2>3
  <2> QED  BY <2>1, <2>2, <2>4 DEF Timed
<1>13. SentinelSet(c, y)
  BY <1>2, <1>4 DEF SentinelSet
<1>14. Listed(c, y, {} \cup {"periodic"}, s, 3)
  BY <1>10, <1>11, <1>12, <1>13 DEF Listed
<1>15. \E u, k : Listed(c, y, {} \cup {"periodic"}, u, k)
  BY <1>14
<1> QED  BY <1>3, <1>15 DEF Good, y

\* Putting deleted_timer and then t, which is earlier, in front of a list.
LEMMA ListedAddFirst ==
    ASSUME NEW c \in Timer!Clock, NEW x, NEW B, NEW s, NEW n, Listed(c, x, B, s, n),
           \A i \in 1..n : s[i] # "deleted", NEW t \in Users, t \notin B, n # 1,
           Left(c, x.wake[t]) <= Horizon, Left(c, x.wake[t]) <= Left(c, x.wake[s[1]]),
           NEW y \in Timer!Queues, y.list = "deleted",
           y.next = [x.next EXCEPT ![t] = s[1], !["deleted"] = t],
           y.wake = [x.wake EXCEPT !["deleted"] = x.wake[t]]
    PROVE  \E u, k : Listed(c, y, B \cup {t}, u, k)
<1> DEFINE z == [y EXCEPT !.list = t]
           u == Splice(s, n, 0, t)
<1>1. /\ n \in Nat \ {0} /\ x \in Timer!Queues /\ s \in [1..n -> Timer!Timers] /\ 1 \in 1..n /\ x.list = s[1]
      /\ \A i \in 1..n : s[i] \in Timer!Timers
      /\ \A i \in 1..(n - 1) : i \in 1..n
  BY DEF Listed, Chain
<1>2. /\ t \in Timer!Timers /\ t # "deleted" /\ t # "sentinel" /\ t # "periodic" /\ "deleted" \in Timer!Timers
      /\ "sentinel" \in Timer!Timers /\ "periodic" \in Timer!Timers
  BY TimersFacts
<1>3. \A i \in 1..n : s[i] # t
  BY <1>2 DEF Listed, Members
<1>4. z \in Timer!Queues /\ z.list = t /\ z.next = y.next /\ z.wake = y.wake
  BY <1>2 DEF Timer!Queues
<1>5. /\ y.next[t] = s[1] /\ y.next["deleted"] = t
      /\ \A i \in 1..n : y.next[s[i]] = x.next[s[i]]
  BY <1>1, <1>2, <1>3, QueueFields
<1>6. /\ y.wake[t] = x.wake[t] /\ y.wake["deleted"] = x.wake[t]
      /\ y.wake["sentinel"] = x.wake["sentinel"] /\ y.wake["periodic"] = x.wake["periodic"]
      /\ \A i \in 1..n : y.wake[s[i]] = x.wake[s[i]]
  BY <1>1, <1>2, QueueFields
<1> HIDE DEF z
<1>7. SentinelSet(c, x)
  BY DEF Listed
<1>8. SentinelSet(c, z)
  BY <1>4, <1>6, <1>7 DEF SentinelSet
<1>9. Listed(c, z, B \cup {t}, u, n + 1)
  <2>1. /\ z.next[t] = s[1] /\ \A i \in 1..n : z.next[s[i]] = x.next[s[i]]
        /\ \A i \in 1..(n - 1) : z.wake[s[i]] = x.wake[s[i]]
    BY <1>1, <1>4, <1>5, <1>6
  <2>2. Left(c, z.wake[t]) <= Horizon /\ Left(c, z.wake[t]) <= Left(c, z.wake[s[1]])
    BY <1>1, <1>4, <1>6
  <2>3. s[1] # "deleted"
    BY <1>1
  <2> DEFINE C == B \cup {t}
  <2>4. t \in Users \cup {"periodic"} /\ C = B \cup {t}
    OBVIOUS
  <2> HIDE DEF C
  <2>5. InFront(c, x, s, n, t, z)
    BY <2>1, <2>2, <1>2, <1>3, <1>4, <1>8 DEF InFront
  <2>6. Listed(c, z, C, Splice(s, n, 0, t), n + 1)
    BY <2>3, <2>4, <2>5, ListedFront
  <2> QED  BY <2>6, <2>4
<1>10. u[1] = t /\ \A i \in 1..(n + 1) : u[i] = t \/ (i - 1 \in 1..n /\ u[i] = s[i - 1])
  <2>1. 0 \in 0..n /\ n \in Nat
    BY <1>1
  <2>2. u[1] = t /\ \A i \in 2..(n + 1) : u[i] = s[i - 1]
    BY <2>1, FrontIs
  <2>3. \A i \in 1..(n + 1) : i = 1 \/ (i \in 2..(n + 1) /\ i - 1 \in 1..n)
    BY <1>1
  <2> HIDE DEF u
  <2> QED  BY <2>2, <2>3
<1> HIDE DEF u
<1>11. \A i \in 1..(n + 1) : u[i] # "deleted"
  BY <1>2, <1>10
<1>12. SentinelSet(c, y)
  BY <1>4, <1>8 DEF SentinelSet
<1>13. Left(c, y.wake["deleted"]) <= Horizon /\ Left(c, y.wake["deleted"]) <= Left(c, y.wake[u[1]])
  <2>1. Left(c, x.wake[t]) \in Nat
    BY <1>1, <1>2, QueueFields, LeftType
  <2>2. Left(c, x.wake[t]) <= Left(c, x.wake[t])
    BY <2>1
  <2> QED  BY <2>2, <1>6, <1>10
<1>14. Listed(c, y, B \cup {t}, Splice(u, n + 1, 0, "deleted"), (n + 1) + 1)
  <2> DEFINE C == B \cup {t}
             D == C
             b == "deleted"
             m == n + 1
  <2>1. Listed(c, z, C, u, m) /\ (b = "deleted" /\ D = C)
    BY <1>9
  <2>2. b \in Timer!Timers /\ y.list = b /\ y.next[b] = u[1] /\ \A i \in 1..m : u[i] # b
    BY <1>2, <1>5, <1>10, <1>11
  <2>3. /\ \A i \in 1..m : y.next[u[i]] = z.next[u[i]]
        /\ \A i \in 1..(m - 1) : y.wake[u[i]] = z.wake[u[i]]
    BY <1>4
  <2>4. Left(c, y.wake[b]) <= Horizon /\ (m # 1 => Left(c, y.wake[b]) <= Left(c, y.wake[u[1]]))
    BY <1>13
  <2> HIDE DEF C, D, m, b
  <2>5. InFront(c, z, u, m, b, y)
    BY <2>2, <2>3, <2>4, <1>12 DEF InFront
  <2>6. Listed(c, y, D, Splice(u, m, 0, b), m + 1)
    BY <2>1, <2>5, ListedFront
  <2> QED  BY <2>6 DEF C, D, m, b
<1> QED  BY <1>14

\* __sched_add_timer()
LEMMA GoodAdded ==
    ASSUME NEW c \in Timer!Clock, NEW x, NEW A, Good(c, x, A), NEW t \in Users, t \notin A,
           NEW w \in Timer!Clock, Left(c, w) <= Horizon
    PROVE  Good(c, Timer!Added(x, t, w), A \cup {t})
<1> DEFINE B == A \cup {"periodic"}
           y == [x EXCEPT !.wake[t] = w]
<1>1. PICK s, n : Listed(c, x, B, s, n)
  BY DEF Good
<1>2. t \in Timer!Timers /\ t # "deleted" /\ t # "sentinel" /\ t # "periodic"
  BY TimersFacts
<1>3. x \in Timer!Queues /\ \A i \in 1..n : s[i] # t /\ s[i] \in Timer!Timers
  BY <1>1, <1>2 DEF Listed, Chain, Members
<1>4. /\ y \in Timer!Queues /\ y.list = x.list /\ y.last = x.last /\ y.next = x.next
      /\ y.wake[t] = w /\ \A a \in Timer!Timers : a # t => y.wake[a] = x.wake[a]
  BY <1>2, <1>3 DEF Timer!Queues
<1> HIDE DEF y
<1>5. Listed(c, y, B, s, n)
  <2>1. y.wake["periodic"] = x.wake["periodic"] /\ \A i \in 1..n : y.wake[s[i]] = x.wake[s[i]]
    BY <1>2, <1>3, <1>4, TimersFacts
  <2>2. \A i \in 1..n : y.next[s[i]] = x.next[s[i]]
    BY <1>4
  <2> QED  BY <2>1, <2>2, <1>1, <1>4, ListedSame
<1>6. "periodic" \in B /\ t \notin B
  BY <1>2
<1>7. /\ n \in Nat /\ 1 \in 1..(n - 1) /\ n # 1 /\ y.list = s[1] /\ y.next[s[1]] = s[2]
      /\ s[1] \in B \cup {"deleted"} /\ s[1] # "sentinel"
      /\ s[1] # "periodic" => 2 \in 1..(n - 1) /\ s[2] \in B
  BY <1>5, <1>6, ListedBegin
<1>8. /\ s[1] \in Timer!Timers /\ y.wake[s[1]] \in Timer!Clock
      /\ Left(c, y.wake[s[1]]) \in Nat /\ Left(c, y.wake[s[1]]) < Half
  BY <1>5, <1>7, ListedTimes
<1>9. Left(c, w) \in Nat /\ Left(c, w) < Half
  BY LeftType, Consts
<1>10. A \cup {t} \subseteq Users /\ x.last \in B
  BY DEF Good
<1>11. x.wake[x.list] = y.wake[s[1]]
  <2>1. s[1] # t /\ x.list = s[1]
    BY <1>3, <1>4, <1>7
  <2> QED  BY <2>1, <1>4, <1>8
<1>12. B \cup {t} = (A \cup {t}) \cup {"periodic"}
  OBVIOUS
<1> HIDE DEF B
<1>13. CASE Timer!Before(w, x.wake[x.list])
  <2>1. Left(c, w) <= Left(c, y.wake[s[1]])
    <3>1. Left(c, w) < Left(c, y.wake[s[1]])
      BY <1>8, <1>9, <1>11, <1>13, BeforeIsLess
    <3>2. \A a, b \in Nat : a < b => a <= b
      OBVIOUS
    <3> QED  BY <3>1, <3>2, <1>8, <1>9
  <2>2. Timer!Added(x, t, w) = Timer!AddFirst(y, t)
    BY <1>13 DEF Timer!Added, y
  <2> DEFINE r == Timer!AddFirst(y, t)
             f == IF y.list = "deleted" THEN y.next["deleted"] ELSE y.list
  <2>3. PICK z, v, k :
          /\ Listed(c, z, B, v, k) /\ k # 1 /\ v[1] = f /\ \A i \in 1..k : v[i] # "deleted"
          /\ z.next = y.next /\ z.wake = y.wake /\ Left(c, w) <= Left(c, y.wake[v[1]])
    <3>1. \A i \in 1..n : s[i] = "deleted" => i = 1
      BY <1>5 DEF Listed, Members
    <3>2. CASE y.list # "deleted"
      <4>1. \A i \in 1..n : s[i] # "deleted"
        BY <3>1, <3>2, <1>7
      <4> QED  BY <4>1, <3>2, <1>5, <1>7, <2>1
    <3>3. CASE y.list = "deleted"
      <4> DEFINE z == [y EXCEPT !.list = s[2]]
                 v == Without(s, n, 1)
      <4>1. s[1] = "deleted" /\ 2 \in 1..(n - 1) /\ s[2] \in B /\ f = s[2] /\ s[2] \in Timer!Timers
        <5>1. s[1] = "deleted" /\ s[1] # "periodic"
          BY <3>3, <1>7
        <5>2. 2 \in 1..n
          BY <5>1, <1>7
        <5> QED  BY <5>1, <5>2, <1>7, <1>3
      <4>2. z \in Timer!Queues /\ z.list = s[2] /\ z.next = y.next /\ z.wake = y.wake
        BY <4>1, <1>4 DEF Timer!Queues
      <4> HIDE DEF z
      <4>3. SentinelSet(c, z)
        BY <4>2, <1>5 DEF SentinelSet, Listed
      <4>4. Listed(c, z, B \ {s[1]}, v, n - 1)
        <5>0. 1 # 1 => z.list = s[1] /\ z.next[s[1 - 1]] = s[1 + 1]
          OBVIOUS
        <5> QED  BY <5>0, <1>5, <1>7, <4>2, <4>3, ListedWithout
      <4>5. B \ {s[1]} = B
        <5>1. "deleted" \notin B
          BY <1>10, TimersFacts DEF B
        <5> QED  BY <5>1, <4>1
      <4>6. n - 1 # 1 /\ 1 \in 1..(n - 1)
        BY <4>1, <1>7
      <4>7. \A i \in 1..(n - 1) : v[i] = s[i + 1] /\ i + 1 \in 1..n /\ i + 1 # 1
        <5>1. \A i \in 1..(n - 1) : ~(i < 1) /\ i + 1 \in 1..n /\ i + 1 # 1
          BY <1>7
        <5> QED  BY <5>1 DEF Without
      <4>8. v[1] = s[2] /\ \A i \in 1..(n - 1) : v[i] # "deleted"
        BY <4>6, <4>7, <3>1
      <4>9. Left(c, w) <= Left(c, y.wake[s[2]])
        <5>1. Left(c, y.wake[s[1]]) <= Left(c, y.wake[s[2]])
          BY <4>1, <1>5, <1>7 DEF Listed, Timed
        <5>2. Left(c, y.wake[s[2]]) \in Nat
          BY <4>1, <1>5, ListedTimes
        <5>3. \A a, b, d \in Nat : a <= b /\ b <= d => a <= d
          OBVIOUS
        <5> QED  BY <5>1, <5>2, <5>3, <2>1, <1>8, <1>9
      <4> HIDE DEF v
      <4>10. Listed(c, z, B, v, n - 1)
        BY <4>4, <4>5
      <4> QED  BY <4>1, <4>2, <4>6, <4>8, <4>9, <4>10
    <3> QED  BY <3>2, <3>3
  <2>4. f \in Timer!Timers
    <3>1. 1 \in 1..k
      BY <2>3 DEF Listed, Chain
    <3> QED  BY <3>1, <2>3 DEF Listed, Chain
  <2>5. r = [y EXCEPT !.next = [@ EXCEPT ![t] = f, !["deleted"] = t],
                      !.wake["deleted"] = y.wake[t], !.list = "deleted"]
    BY DEF Timer!AddFirst
  <2> HIDE DEF f
  <2>6. /\ r \in Timer!Queues /\ r.list = "deleted" /\ r.last = y.last
        /\ r.next = [y.next EXCEPT ![t] = f, !["deleted"] = t]
        /\ r.wake = [y.wake EXCEPT !["deleted"] = y.wake[t]]
    <3>1. /\ r.list = "deleted" /\ r.last = y.last
          /\ r.next = [y.next EXCEPT ![t] = f, !["deleted"] = t]
          /\ r.wake = [y.wake EXCEPT !["deleted"] = y.wake[t]]
          /\ r = [list |-> r.list, last |-> r.last, next |-> r.next, wake |-> r.wake]
      BY <2>5, <1>4 DEF Timer!Queues
    <3> HIDE DEF r
    <3>2. /\ y.next \in [Timer!Timers -> Timer!Timers \cup {"nil"}] /\ y.wake \in [Timer!Timers -> Timer!Clock]
          /\ y.last \in Timer!Timers /\ "deleted" \in Timer!Timers
      BY <1>4, QueueFields, TimersFacts
    <3>3. r.next \in [Timer!Timers -> Timer!Timers \cup {"nil"}]
      BY <3>1, <3>2, <2>4, <1>2
    <3>4. r.wake \in [Timer!Timers -> Timer!Clock]
      BY <3>1, <3>2, <1>2
    <3>5. r \in Timer!Queues
      BY <3>1, <3>2, <3>3, <3>4 DEF Timer!Queues
    <3> QED  BY <3>1, <3>5
  <2> HIDE DEF r
  <2>7. \E u, kk : Listed(c, r, B \cup {t}, u, kk)
    <3>1. /\ Left(c, z.wake[t]) <= Horizon /\ Left(c, z.wake[t]) <= Left(c, z.wake[v[1]])
      BY <2>3, <1>4
    <3>2. /\ r.next = [z.next EXCEPT ![t] = v[1], !["deleted"] = t]
          /\ r.wake = [z.wake EXCEPT !["deleted"] = z.wake[t]]
      BY <2>3, <2>6
    <3>3. Listed(c, z, B, v, k) /\ k # 1 /\ \A i \in 1..k : v[i] # "deleted"
      BY <2>3
    <3>4. r \in Timer!Queues /\ r.list = "deleted" /\ t \notin B
      BY <2>6, <1>6
    <3> HIDE <2>3
    <3> QED  BY <3>1, <3>2, <3>3, <3>4, ListedAddFirst
  <2>8. r.last \in (A \cup {t}) \cup {"periodic"}
    BY <2>6, <1>4, <1>10 DEF B
  <2>9. Good(c, r, A \cup {t})
    BY <2>7, <2>8, <1>10, <1>12 DEF Good
  <2> QED  BY <2>2, <2>9 DEF r
<1>14. CASE ~Timer!Before(w, x.wake[x.list])
  <2>1. Timer!Added(x, t, w) = Timer!Insert(y, y.list, t, w)
    BY <1>14 DEF Timer!Added, y
  <2>2. \E u : /\ Listed(c, Timer!Insert(y, s[1], t, y.wake[t]), B \cup {t}, u, n + 1)
               /\ Timer!Insert(y, s[1], t, y.wake[t]).last = y.last
    <3> DEFINE m == 1
               p == s[1]
    <3>1. m \in 0..(n - 1) /\ StartsAt(y, s, y.wake[t], m, p)
      BY <1>4, <1>7, <1>11, <1>14 DEF StartsAt
    <3>2. Left(c, y.wake[t]) <= Horizon /\ t \in Users \cup {"periodic"} /\ p \in Timer!Timers
      BY <1>4, <1>8
    <3>3. "periodic" \in B \/ Left(c, y.wake["periodic"]) <= Left(c, y.wake[t])
      BY <1>6
    <3>4. n # 1 /\ t \notin B
      BY <1>6, <1>7
    <3> HIDE DEF m, p
    <3>5. \E u : /\ Listed(c, Timer!Insert(y, p, t, y.wake[t]), B \cup {t}, u, n + 1)
                 /\ Timer!Insert(y, p, t, y.wake[t]).last = y.last
      <4>1. CanInsert(c, y, B, s, n, t, m, p)
        BY <3>1, <3>2, <3>3, <3>4 DEF CanInsert
      <4>2. Inserts(c, y, B, n, t, p)
        BY <4>1, <1>5, ListedInsert
      <4> QED  BY <4>2 DEF Inserts
    <3> QED  BY <3>5 DEF p
  <2>3. Timer!Insert(y, y.list, t, w) = Timer!Insert(y, s[1], t, y.wake[t])
    BY <1>4, <1>7
  <2>4. Timer!Added(x, t, w).last \in (A \cup {t}) \cup {"periodic"}
    BY <2>1, <2>2, <2>3, <1>4, <1>10 DEF B
  <2>5. \E u, k : Listed(c, Timer!Added(x, t, w), (A \cup {t}) \cup {"periodic"}, u, k)
    BY <2>1, <2>2, <2>3, <1>12
  <2> QED  BY <2>4, <2>5, <1>10 DEF Good
<1> QED  BY <1>13, <1>14

\* sched_del_timer()
LEMMA GoodDeleted ==
    ASSUME NEW c \in Timer!Clock, NEW x, NEW A, Good(c, x, A), NEW del \in Users
    PROVE  Good(c, Timer!Deleted(x, del), A \ {del})
<1> DEFINE B == A \cup {"periodic"}
           h == Timer!HintWithout(x, del)
           y == Timer!Deleted(x, del)
<1>1. PICK s, n : Listed(c, x, B, s, n)
  BY DEF Good
<1>2. /\ del \in Timer!Timers /\ del # "deleted" /\ del # "sentinel" /\ del # "periodic" /\ del # "nil"
      /\ "deleted" \in Timer!Timers /\ "periodic" \in Timer!Timers /\ "sentinel" \in Timer!Timers
  BY TimersFacts
<1>3. /\ n \in Nat /\ 1 \in 1..(n - 1) /\ n # 1 /\ x.list = s[1] /\ x.next[s[1]] = s[2]
      /\ s[1] # "periodic" => 2 \in 1..(n - 1) /\ s[2] \in B
  BY <1>1, ListedBegin
<1>4. /\ x \in Timer!Queues /\ s \in [1..n -> Timer!Timers] /\ s[n] = "sentinel" /\ x.next["sentinel"] = "nil"
      /\ \A i \in 1..(n - 1) : x.next[s[i]] = s[i + 1]
      /\ \A i, k \in 1..n : s[i] = s[k] => i = k
      /\ SentinelSet(c, x)
      /\ \A i \in 1..n : s[i] \in B \cup {"sentinel", "deleted"}
      /\ \A i \in 1..n : s[i] = "deleted" => i = 1
  BY <1>1 DEF Listed, Chain, Members
<1>5. A \subseteq Users /\ x.last \in B
  BY DEF Good
<1>6. h \in (A \ {del}) \cup {"periodic"} /\ h \in Timer!Timers
  BY <1>2, <1>5, TimersFacts DEF Timer!HintWithout
<1>7. B \ {del} = (A \ {del}) \cup {"periodic"}
  BY <1>2
<1> HIDE DEF B, h
<1>8. ASSUME y.last = h, \E u, k : Listed(c, y, B \ {del}, u, k)
      PROVE  Good(c, y, A \ {del})
  BY <1>5, <1>6, <1>7, <1>8 DEF Good
<1>9. CASE x.list = del
  <2>1. s[1] = del /\ 2 \in 1..(n - 1) /\ s[2] \in Timer!Timers /\ 2 \in 1..n /\ 1 \in 1..n
    <3>1. s[1] = del /\ 2 \in 1..(n - 1)
      BY <1>2, <1>3, <1>9
    <3>2. 2 \in 1..n /\ 1 \in 1..n
      BY <3>1, <1>3
    <3> QED  BY <3>1, <3>2, <1>4
  <2>2. y = [x EXCEPT !.wake["deleted"] = x.wake[del], !.next["deleted"] = x.next[del],
                      !.list = "deleted", !.last = h]
    BY <1>9 DEF Timer!Deleted, h
  <2>3. /\ y \in Timer!Queues /\ y.list = "deleted" /\ y.last = h
        /\ y.next = [x.next EXCEPT !["deleted"] = s[2]]
        /\ y.wake = [x.wake EXCEPT !["deleted"] = x.wake[del]]
    <3>1. x.next[del] = s[2]
      BY <2>1, <1>3
    <3>2. /\ y.list = "deleted" /\ y.last = h
          /\ y.next = [x.next EXCEPT !["deleted"] = s[2]]
          /\ y.wake = [x.wake EXCEPT !["deleted"] = x.wake[del]]
          /\ y = [list |-> y.list, last |-> y.last, next |-> y.next, wake |-> y.wake]
      <4> HIDE DEF y
      <4>1. x = [list |-> x.list, last |-> x.last, next |-> x.next, wake |-> x.wake]
        BY <1>4 DEF Timer!Queues
      <4> DEFINE f == [x.next EXCEPT !["deleted"] = s[2]]
                 g == [x.wake EXCEPT !["deleted"] = x.wake[del]]
      <4>2. y = [x EXCEPT !.wake = g, !.next = f, !.list = "deleted", !.last = h]
        BY <2>2, <3>1, <4>1
      <4> HIDE DEF f, g
      <4>3. y.list = "deleted" /\ y.last = h /\ y.next = f /\ y.wake = g
        BY <4>1, <4>2
      <4>4. y = [list |-> y.list, last |-> y.last, next |-> y.next, wake |-> y.wake]
        BY <4>1, <4>2
      <4> QED  BY <4>3, <4>4 DEF f, g
    <3> HIDE DEF y
    <3>3. /\ x.next \in [Timer!Timers -> Timer!Timers \cup {"nil"}] /\ x.wake \in [Timer!Timers -> Timer!Clock]
      BY <1>4, QueueFields
    <3>4. y.next \in [Timer!Timers -> Timer!Timers \cup {"nil"}]
      BY <3>2, <3>3, <2>1, <1>2
    <3>5. y.wake \in [Timer!Timers -> Timer!Clock]
      BY <3>2, <3>3, <1>2
    <3>6. y \in Timer!Queues
      BY <3>2, <3>4, <3>5, <1>2, <1>6 DEF Timer!Queues
    <3> QED  BY <3>2, <3>6
  <2>4. /\ y.next["deleted"] = s[2] /\ y.wake["deleted"] = x.wake[del]
        /\ \A a \in Timer!Timers : a # "deleted" => y.next[a] = x.next[a] /\ y.wake[a] = x.wake[a]
    BY <2>3, <1>2, <1>4, QueueFields
  <2> HIDE DEF y
  <2> DEFINE z == [x EXCEPT !.list = s[2]]
             u == Without(s, n, 1)
             m == n - 1
             b == "deleted"
             C == B \ {del}
  <2>5. z \in Timer!Queues /\ z.list = s[2] /\ z.next = x.next /\ z.wake = x.wake
    BY <2>1, <1>4 DEF Timer!Queues
  <2> HIDE DEF z
  <2>6. SentinelSet(c, z)
    BY <2>5, <1>4 DEF SentinelSet
  <2>7. Listed(c, z, C, u, m)
    <3>1. 1 # 1 => z.list = s[1] /\ z.next[s[1 - 1]] = s[1 + 1]
      OBVIOUS
    <3>2. Listed(c, z, B \ {s[1]}, u, n - 1)
      BY <3>1, <1>1, <1>3, <2>5, <2>6, ListedWithout
    <3> QED  BY <3>2, <2>1
  <2>8. m # 1 /\ m \in Nat /\ 1 \in 1..m /\ \A i \in 1..m : u[i] = s[i + 1] /\ i + 1 \in 1..n /\ i + 1 # 1
    <3>1. \A i \in 1..(n - 1) : ~(i < 1) /\ i + 1 \in 1..n /\ i + 1 # 1
      BY <1>3
    <3>2. \A i \in 1..(n - 1) : u[i] = s[i + 1]
      BY <3>1 DEF Without
    <3>3. m # 1 /\ m \in Nat /\ 1 \in 1..m
      BY <2>1, <1>3
    <3> QED  BY <3>1, <3>2, <3>3
  <2> HIDE DEF u, m
  <2>9. \A i \in 1..m : u[i] \in Timer!Timers /\ u[i] # "deleted"
    BY <2>8, <1>4
  <2>10. u[1] = s[2]
    BY <2>8
  <2>11. /\ Left(c, y.wake[b]) <= Horizon
         /\ Left(c, y.wake[b]) <= Left(c, y.wake[u[1]])
    <3>1. Left(c, x.wake[s[1]]) <= Horizon /\ Left(c, x.wake[s[1]]) <= Left(c, x.wake[s[2]])
      BY <2>1, <1>1, <1>3 DEF Listed, Timed
    <3>2. s[2] # "deleted"
      BY <2>8, <2>9, <2>10
    <3> QED  BY <3>1, <3>2, <2>1, <2>4, <2>10
  <2>12. SentinelSet(c, y)
    BY <2>4, <1>2, <1>4 DEF SentinelSet
  <2>13. /\ \A i \in 1..m : u[i] # b /\ y.next[u[i]] = z.next[u[i]]
         /\ \A i \in 1..(m - 1) : y.wake[u[i]] = z.wake[u[i]]
    <3>1. \A i \in 1..(m - 1) : i \in 1..m
      BY <2>8
    <3> QED  BY <3>1, <2>4, <2>5, <2>9
  <2>14. b \in Timer!Timers /\ b = "deleted" /\ y.list = b /\ y.next[b] = u[1]
    BY <2>3, <2>4, <2>10, <1>2
  <2> HIDE DEF b, C
  <2>15. InFront(c, z, u, m, b, y)
    BY <2>3, <2>11, <2>12, <2>13, <2>14 DEF InFront
  <2>16. Listed(c, y, C, Splice(u, m, 0, b), m + 1)
    BY <2>7, <2>14, <2>15, ListedFront
  <2>17. \E v, k : Listed(c, y, B \ {del}, v, k)
    BY <2>16 DEF C
  <2> QED  BY <2>3, <2>17, <1>8 DEF y
<1>10. CASE x.list # del
  <2> DEFINE before == {p \in Timer!Range(Timer!From(x, x.list)) \ {"nil"} : x.next[p] = del}
             f == [p \in Timer!Timers |-> IF p \in before THEN x.next[del] ELSE x.next[p]]
  <2>1. y = [x EXCEPT !.next = f, !.last = h]
    BY <1>10 DEF Timer!Deleted, h
  <2>2. f \in [Timer!Timers -> Timer!Timers \cup {"nil"}]
    BY <1>2, <1>4, QueueFields
  <2>3. /\ y \in Timer!Queues /\ y.list = x.list /\ y.last = h /\ y.next = f /\ y.wake = x.wake
    <3> HIDE DEF f
    <3> QED  BY <2>1, <2>2, <1>4, <1>6 DEF Timer!Queues
  <2>4. before = {p \in {s[i] : i \in 1..n} : x.next[p] = del}
    <3>1. Chain(x, s, n)
      BY <1>1 DEF Listed
    <3>2. Timer!Range(Timer!From(x, x.list)) \ {"nil"} = {s[i] : i \in 1..n}
      BY <3>1, OnListIs
    <3> QED  BY <3>2
  <2> HIDE DEF before, y
  <2>5. \A p \in Timer!Timers : y.next[p] = IF p \in before THEN x.next[del] ELSE x.next[p]
    BY <2>3
  <2> HIDE DEF f
  <2>6. \A i \in 1..n : s[i] \in before <=> i \in 1..(n - 1) /\ s[i + 1] = del
    <3> SUFFICES ASSUME NEW i \in 1..n PROVE s[i] \in before <=> i \in 1..(n - 1) /\ s[i + 1] = del
      OBVIOUS
    <3>1. s[i] \in before <=> x.next[s[i]] = del
      BY <2>4
    <3>2. i \in 1..(n - 1) \/ i = n
      BY <1>3
    <3>3. n \notin 1..(n - 1)
      BY <1>3
    <3> QED  BY <3>1, <3>2, <3>3, <1>2, <1>4
  <2>7. \A i \in 1..n : s[i] \in Timer!Timers
    BY <1>4
  <2>8. \A i \in 1..(n - 1) : i \in 1..n /\ i + 1 \in 1..n
    BY <1>3
  <2>9. CASE \A i \in 1..n : s[i] # del
    <3>1. \A i \in 1..n : y.next[s[i]] = x.next[s[i]]
      BY <2>5, <2>6, <2>7, <2>8, <2>9
    <3>2. Listed(c, y, B, s, n)
      BY <3>1, <1>1, <2>3, ListedSame
    <3>3. del \notin B
      BY <2>9, <1>1 DEF Listed, Members
    <3>4. B \ {del} = B
      BY <3>3
    <3>5. \E u, k : Listed(c, y, B \ {del}, u, k)
      BY <3>2, <3>4
    <3> QED  BY <3>5, <2>3, <1>8 DEF y
  <2>10. ASSUME NEW j \in 1..n, s[j] = del
         PROVE  Good(c, y, A \ {del})
    <3>1. j # 1 /\ j # n
      BY <2>10, <1>2, <1>3, <1>4, <1>10
    <3>2. j \in 1..(n - 1) /\ j - 1 \in 1..(n - 1) /\ (j - 1) + 1 = j /\ j - 1 \in 1..n
      BY <3>1, <1>3
    <3>3. y.next[s[j - 1]] = s[j + 1]
      BY <3>2, <2>5, <2>6, <2>7, <2>10, <1>4
    <3>4. \A i \in 1..n : i # j /\ i # j - 1 => y.next[s[i]] = x.next[s[i]]
      <4> SUFFICES ASSUME NEW i \in 1..n, i # j - 1 PROVE y.next[s[i]] = x.next[s[i]]
        OBVIOUS
      <4>1. s[i] \notin before
        <5> SUFFICES ASSUME s[i] \in before PROVE FALSE
          OBVIOUS
        <5>1. i \in 1..(n - 1) /\ s[i + 1] = s[j] /\ i + 1 \in 1..n
          BY <2>6, <2>8, <2>10
        <5>2. i + 1 = j
          BY <5>1, <1>4
        <5> QED  BY <5>2, <1>3
      <4> QED  BY <4>1, <2>5, <2>7
    <3>5. SentinelSet(c, y)
      BY <2>3, <1>4 DEF SentinelSet
    <3>6. (j = 1 => y.list = s[2]) /\ (j # 1 => y.list = s[1] /\ y.next[s[j - 1]] = s[j + 1])
      BY <3>1, <3>3, <2>3, <1>3
    <3>7. \A i \in 1..(n - 1) : i # j => y.wake[s[i]] = x.wake[s[i]]
      BY <2>3
    <3>8. Listed(c, y, B \ {s[j]}, Without(s, n, j), n - 1)
      BY <3>2, <3>4, <3>5, <3>6, <3>7, <1>1, <2>3, ListedWithout
    <3>9. \E u, k : Listed(c, y, B \ {del}, u, k)
      BY <3>8, <2>10
    <3> QED  BY <3>9, <2>3, <1>8
  <2> QED  BY <2>9, <2>10 DEF y
<1> QED  BY <1>9, <1>10

\* Deleting another timer leaves the first of the list, and its time.
LEMMA DeletedFirst ==
    ASSUME NEW x \in Timer!Queues, NEW del \in Timer!Timers, x.list # del
    PROVE  Timer!Deleted(x, del).list = x.list /\ Timer!Deleted(x, del).wake = x.wake
BY DEF Timer!Deleted, Timer!Queues

\* What the fields of timers off the list hold does not matter.
LEMMA GoodBecomes ==
    ASSUME NEW c, NEW x, NEW A, Good(c, x, A), Timer!Becomes(x, A)
    PROVE  Good(c, q', A) /\ active' = A /\ q'.list = x.list
<1> DEFINE kept == A \cup {"periodic", "sentinel", x.list}
           f == [t \in Timer!Timers |-> IF t \in kept THEN x.next[t] ELSE "nil"]
           g == [t \in Timer!Timers |-> IF t \in kept THEN x.wake[t] ELSE 0]
<1>1. PICK s, n : Listed(c, x, A \cup {"periodic"}, s, n)
  BY DEF Good
<1>2. /\ x \in Timer!Queues /\ x.list = s[1] /\ \A i \in 1..n : s[i] \in Timer!Timers
      /\ \A i \in 1..n : s[i] \in (A \cup {"periodic"}) \cup {"sentinel", "deleted"}
      /\ \A i \in 1..n : s[i] = "deleted" => i = 1
  BY <1>1 DEF Listed, Chain, Members
<1>3. \A i \in 1..n : s[i] \in kept
  BY <1>2
<1>4. q' = [x EXCEPT !.next = f, !.wake = g] /\ active' = A
  BY DEF Timer!Becomes
<1>5. f \in [Timer!Timers -> Timer!Timers \cup {"nil"}] /\ g \in [Timer!Timers -> Timer!Clock]
  <2>1. 0 \in Timer!Clock
    BY Consts DEF Timer!Clock
  <2> QED  BY <2>1, <1>2, QueueFields
<1>6. /\ \A i \in 1..n : f[s[i]] = x.next[s[i]] /\ g[s[i]] = x.wake[s[i]]
      /\ g["periodic"] = x.wake["periodic"]
  BY <1>2, <1>3, TimersFacts
<1> HIDE DEF f, g, kept
<1>7. q' \in Timer!Queues /\ q'.list = x.list /\ q'.last = x.last /\ q'.next = f /\ q'.wake = g
  BY <1>2, <1>4, <1>5 DEF Timer!Queues
<1>8. Listed(c, q', A \cup {"periodic"}, s, n)
  <2> DEFINE y == q'
  <2>1. /\ y \in Timer!Queues /\ y.list = x.list /\ y.wake["periodic"] = x.wake["periodic"]
        /\ \A i \in 1..n : y.next[s[i]] = x.next[s[i]]
        /\ \A i \in 1..n : y.wake[s[i]] = x.wake[s[i]]
    BY <1>6, <1>7
  <2> HIDE DEF y
  <2>2. Listed(c, y, A \cup {"periodic"}, s, n)
    BY <2>1, <1>1, ListedSame
  <2> QED  BY <2>2 DEF y
<1> QED  BY <1>4, <1>7, <1>8 DEF Good

\* A timer that set its time anew and returned SF_RESCHEDULE: it stays the first, or
\* is inserted from the hint or from the beginning.
LEMMA GoodRescheduled ==
    ASSUME NEW c \in Timer!Clock, NEW x0, NEW A, Good(c, x0, A), NEW t \in A \cup {"periodic"},
           x0.list = t, NEW x \in Timer!Queues, x.list = t, x.next = x0.next, x.last = x0.last,
           \A a \in Timer!Timers : a # t /\ a # "sentinel" => x.wake[a] = x0.wake[a],
           SentinelSet(c, x), Left(c, x.wake[t]) <= Horizon
    PROVE  Good(c, Timer!Rescheduled(x, t), A)
<1> DEFINE B == A \cup {"periodic"}
           C == B \ {t}
           w == x.wake[t]
           y == [x EXCEPT !.list = x.next[t]]
<1>1. PICK s, n : Listed(c, x0, B, s, n)
  BY DEF Good
<1>2. /\ t \in Timer!Timers /\ t \in Users \cup {"periodic"} /\ t # "deleted" /\ t # "sentinel"
      /\ B \subseteq Timer!Timers /\ "deleted" \notin B /\ "sentinel" \notin B
      /\ A \subseteq Users /\ x.last \in B /\ t \in B /\ "periodic" \in B
  BY TimersFacts DEF Good
<1>3. /\ n \in Nat /\ 1 \in 1..(n - 1) /\ n # 1 /\ t = s[1] /\ x.next[t] = s[2]
  BY <1>1, <1>2, ListedBegin
<1>4. /\ s \in [1..n -> Timer!Timers] /\ s[n] = "sentinel"
      /\ \A i, k \in 1..n : s[i] = s[k] => i = k
      /\ \A i \in 1..n : s[i] \in B \cup {"sentinel", "deleted"}
      /\ \A i \in 1..n : s[i] = "deleted" => i = 1
  BY <1>1 DEF Listed, Chain, Members
<1>5. 2 \in 1..n /\ 1 \in 1..n /\ s[2] \in Timer!Timers /\ \A i \in 1..(n - 1) : i \in 1..n /\ i # n /\ n \in 1..n
  <2>1. 2 \in 1..n /\ 1 \in 1..n /\ \A i \in 1..(n - 1) : i \in 1..n /\ i # n /\ n \in 1..n
    BY <1>3
  <2> QED  BY <2>1, <1>4
<1>6. y \in Timer!Queues /\ y.list = s[2] /\ y.next = x.next /\ y.wake = x.wake /\ y.last = x.last
  BY <1>3, <1>5 DEF Timer!Queues
<1>7. Timer!Rescheduled(x, t) = IF Timer!Before(w, x.wake[s[2]]) THEN x
                          ELSE [Timer!Insert(y, Timer!SearchFrom(y, w), t, w) EXCEPT !.last = t]
  BY <1>3 DEF Timer!Rescheduled
<1>8. w \in Timer!Clock /\ Left(c, w) \in Nat /\ Left(c, w) < Half /\ Left(c, w) <= Horizon
  <2>1. w \in Timer!Clock
    BY <1>2, QueueFields
  <2>2. Left(c, w) \in Nat
    BY <2>1, LeftType
  <2>3. \A a \in Nat : a <= Horizon => a < Half
    BY Consts
  <2> QED  BY <2>1, <2>2, <2>3
<1> DEFINE u == Without(s, n, 1)
           m == n - 1
<1> HIDE DEF y, w, B
<1>9. SentinelSet(c, y)
  BY <1>6 DEF SentinelSet
<1>10. Listed(c, y, C, u, m)
  <2>1. 1 # 1 => y.list = s[1] /\ y.next[s[1 - 1]] = s[1 + 1]
    OBVIOUS
  <2>2. \A i \in 1..(n - 1) : i # 1 => y.wake[s[i]] = x0.wake[s[i]]
    <3> SUFFICES ASSUME NEW i \in 1..(n - 1), i # 1 PROVE y.wake[s[i]] = x0.wake[s[i]]
      OBVIOUS
    <3>1. s[i] # t /\ s[i] # "sentinel" /\ s[i] \in Timer!Timers
      BY <1>3, <1>4, <1>5
    <3> QED  BY <3>1, <1>6
  <2>3. \A i \in 1..n : i # 1 /\ i # 1 - 1 => y.next[s[i]] = x0.next[s[i]]
    BY <1>6
  <2>4. Listed(c, y, B \ {s[1]}, u, n - 1)
    BY <2>1, <2>2, <2>3, <1>1, <1>3, <1>6, <1>9, ListedWithout
  <2> QED  BY <2>4, <1>3
<1>11. /\ m \in Nat /\ 1 \in 1..m /\ m \in 1..m
       /\ \A i \in 1..m : u[i] = s[i + 1] /\ i + 1 \in 1..n /\ i + 1 # 1
  <2>1. \A i \in 1..(n - 1) : ~(i < 1) /\ i + 1 \in 1..n /\ i + 1 # 1
    BY <1>3
  <2>2. \A i \in 1..(n - 1) : u[i] = s[i + 1]
    BY <2>1 DEF Without
  <2>3. m \in Nat /\ 1 \in 1..m /\ m \in 1..m
    BY <1>3
  <2> QED  BY <2>1, <2>2, <2>3
<1> HIDE DEF u, m
<1>12. u[1] = s[2] /\ u[1] # "deleted" /\ \A i \in 1..m : u[i] # t
  BY <1>11, <1>3, <1>4, <1>5
<1>13. C \cup {t} = B
  BY <1>2
<1> HIDE DEF C
<1>14. u[m] = "sentinel" /\ u \in [1..m -> Timer!Timers]
  BY <1>10 DEF Listed, Chain
<1>15. m # 1 => /\ y.wake[u[1]] \in Timer!Clock /\ Left(c, y.wake[u[1]]) \in Nat
                /\ Left(c, y.wake[u[1]]) < Half
  <2> SUFFICES ASSUME m # 1
               PROVE  /\ y.wake[u[1]] \in Timer!Clock /\ Left(c, y.wake[u[1]]) \in Nat
                      /\ Left(c, y.wake[u[1]]) < Half
    OBVIOUS
  <2>1. 1 \in 1..(m - 1)
    BY <1>11
  <2> QED  BY <2>1, <1>10, <1>11, ListedTimes
<1>16. CASE Timer!Before(w, x.wake[s[2]])
  <2>1. m # 1 => Left(c, x.wake[t]) <= Left(c, x.wake[u[1]])
    <3> SUFFICES ASSUME m # 1 PROVE Left(c, w) <= Left(c, y.wake[u[1]])
      BY <1>6 DEF w
    <3>1. Left(c, w) < Left(c, y.wake[u[1]])
      BY <1>6, <1>8, <1>12, <1>15, <1>16, BeforeIsLess
    <3>2. \A a, b \in Nat : a < b => a <= b
      OBVIOUS
    <3> QED  BY <3>1, <3>2, <1>8, <1>15
  <2>2. InFront(c, y, u, m, t, x)
    BY <2>1, <1>2, <1>3, <1>6, <1>12 DEF InFront
  <2>3. Listed(c, x, B, Splice(u, m, 0, t), m + 1)
    BY <2>2, <1>2, <1>10, <1>12, <1>13, ListedFront
  <2>4. \E v, k : Listed(c, x, A \cup {"periodic"}, v, k)
    BY <2>3 DEF B
  <2>5. x.last \in A \cup {"periodic"}
    BY <1>2 DEF B
  <2> QED  BY <2>4, <2>5, <1>2, <1>7, <1>16 DEF Good
<1>17. CASE ~Timer!Before(w, x.wake[s[2]])
  <2>1. m # 1
    <3> SUFFICES ASSUME m = 1 PROVE FALSE
      OBVIOUS
    <3>1. \A i \in 1..m : u[i] = "sentinel"
      BY <1>14
    <3>2. "periodic" \notin C
      BY <3>1, <1>10 DEF Listed, Members
    <3>3. t = "periodic"
      BY <3>2, <1>2 DEF C
    <3>4. s[2] = "sentinel"
      BY <1>12, <1>14
    <3>5. x.wake["sentinel"] = Timer!Wrap(w + Half) /\ x.wake["sentinel"] \in Timer!Clock
      BY <3>3, TimersFacts, QueueFields DEF SentinelSet, w
    <3>6. Left(c, w) <= Left(c, w)
      BY <1>8
    <3>7. Timer!Before(w, x.wake["sentinel"])
      BY <3>5, <3>6, <1>8, BeforeSentinel
    <3> QED  BY <3>4, <3>7, <1>17
  <2> DEFINE pos == Timer!SearchFrom(y, w)
  <2>2. pos = IF Timer!Before(w, y.wake[y.last]) THEN u[1] ELSE y.last
    BY <1>6, <1>12 DEF Timer!SearchFrom
  <2>3. ~Timer!Before(w, y.wake[u[1]])
    BY <1>6, <1>12, <1>17
  <2> HIDE DEF pos
  <2>4. \E k \in 0..(m - 1) : StartsAt(y, u, w, k, pos)
    <3>1. CASE Timer!Before(w, y.wake[y.last])
      <4>1. 1 \in 0..(m - 1) /\ pos = u[1]
        BY <3>1, <2>1, <2>2, <1>11
      <4> QED  BY <4>1, <2>3 DEF StartsAt
    <3>2. CASE ~Timer!Before(w, y.wake[y.last]) /\ y.last = t
      <4>1. 0 \in 0..(m - 1) /\ y.next[pos] = u[1]
        BY <3>2, <2>1, <2>2, <1>3, <1>6, <1>11, <1>12
      <4> QED  BY <4>1, <2>3 DEF StartsAt
    <3>3. CASE ~Timer!Before(w, y.wake[y.last]) /\ y.last # t
      <4>1. y.last \in C
        BY <3>3, <1>2, <1>6 DEF C
      <4>2. PICK k \in 1..m : u[k] = y.last
        BY <4>1, <1>10 DEF Listed, Members
      <4>3. k # m
        BY <4>1, <4>2, <1>2, <1>14 DEF C
      <4>4. k \in 0..(m - 1) /\ k # 0
        BY <4>2, <4>3, <1>11
      <4>5. pos = u[k] /\ ~Timer!Before(w, y.wake[u[k]])
        BY <3>3, <4>2, <2>2
      <4> QED  BY <4>4, <4>5 DEF StartsAt
    <3> QED  BY <3>1, <3>2, <3>3
  <2>5. PICK k \in 0..(m - 1) : StartsAt(y, u, w, k, pos)
    BY <2>4
  <2>6. pos \in Timer!Timers /\ t \notin C
    BY <2>2, <1>2, <1>6, <1>11, <1>14 DEF C
  <2>7. y.wake[t] = w
    BY <1>6 DEF w
  <2>8. "periodic" \in C \/ Left(c, y.wake["periodic"]) <= Left(c, y.wake[t])
    <3>1. CASE t = "periodic"
      BY <3>1, <2>7, <1>8
    <3>2. CASE t # "periodic"
      BY <3>2, <1>2 DEF C
    <3> QED  BY <3>1, <3>2
  <2> DEFINE r == Timer!Insert(y, pos, t, w)
  <2>9. \E v : Listed(c, r, C \cup {t}, v, m + 1)
    <3>1. StartsAt(y, u, y.wake[t], k, pos)
      BY <2>5, <2>7
    <3>2. Left(c, y.wake[t]) <= Horizon
      BY <2>7, <1>8
    <3>3. k \in 0..(m - 1) /\ t \in Users \cup {"periodic"}
      BY <2>5, <1>2
    <3>4. \E v : /\ Listed(c, Timer!Insert(y, pos, t, y.wake[t]), C \cup {t}, v, m + 1)
                 /\ Timer!Insert(y, pos, t, y.wake[t]).last = y.last
      <4>1. CanInsert(c, y, C, u, m, t, k, pos)
        BY <3>1, <3>2, <3>3, <2>1, <2>6, <2>8 DEF CanInsert
      <4>2. Inserts(c, y, C, m, t, pos)
        BY <4>1, <1>10, ListedInsert
      <4> QED  BY <4>2 DEF Inserts
    <3> QED  BY <3>4, <2>7
  <2>10. PICK v : Listed(c, r, B, v, m + 1)
    BY <2>9, <1>13
  <2> HIDE DEF r
  <2> DEFINE z == [r EXCEPT !.last = t]
  <2>11. r \in Timer!Queues
    BY <2>10 DEF Listed, Chain
  <2>12. z \in Timer!Queues /\ z.list = r.list /\ z.next = r.next /\ z.wake = r.wake /\ z.last = t
    BY <2>11, <1>2 DEF Timer!Queues
  <2>13. Timer!Rescheduled(x, t) = z
    BY <1>7, <1>17 DEF r, pos
  <2> HIDE DEF z
  <2>14. Listed(c, z, B, v, m + 1)
    <3>1. /\ \A i \in 1..(m + 1) : z.next[v[i]] = r.next[v[i]]
          /\ \A i \in 1..(m + 1) : z.wake[v[i]] = r.wake[v[i]]
          /\ z.wake["periodic"] = r.wake["periodic"]
      BY <2>12
    <3> QED  BY <3>1, <2>10, <2>12, ListedSame
  <2>15. \E a, b : Listed(c, z, A \cup {"periodic"}, a, b)
    BY <2>14 DEF B
  <2> QED  BY <2>12, <2>13, <2>15, <1>2 DEF Good
<1> QED  BY <1>16, <1>17

\* periodic_event(): the sentinel stays half a turn behind.
LEMMA PeriodicMoves ==
    ASSUME NEW c \in Timer!Clock, NEW x \in Timer!Queues, Left(c, x.wake["periodic"]) <= Late
    PROVE  /\ Timer!PeriodicEvent(x) \in Timer!Queues
           /\ Timer!PeriodicEvent(x).list = x.list /\ Timer!PeriodicEvent(x).next = x.next
           /\ Timer!PeriodicEvent(x).last = x.last
           /\ \A a \in Timer!Timers : a # "periodic" /\ a # "sentinel"
                                  => Timer!PeriodicEvent(x).wake[a] = x.wake[a]
           /\ SentinelSet(c, Timer!PeriodicEvent(x))
<1> DEFINE p == x.wake["periodic"]
           y == Timer!PeriodicEvent(x)
           d == Period + Half
<1>1. p \in Timer!Clock /\ "periodic" \in Timer!Timers /\ "sentinel" \in Timer!Timers /\ x.wake \in [Timer!Timers -> Timer!Clock]
  BY TimersFacts, QueueFields
<1>2. Period \in -1..Width /\ Half \in -1..Width /\ d \in -1..Width
  BY Consts
<1>3. Timer!Wrap(p + Period) = Later(p, Period) /\ Later(p, Period) \in Timer!Clock
  BY <1>1, <1>2, WrapIsLater
<1>4. Timer!Wrap(p + d) = Later(p, d) /\ Later(p, d) \in Timer!Clock
  <2> HIDE DEF d
  <2> QED  BY <1>1, <1>2, WrapIsLater
<1>5. Timer!Wrap(Later(p, Period) + Half) = Later(Later(p, Period), Half)
  BY <1>2, <1>3, WrapIsLater
<1>6. Later(Later(p, Period), Half) = Later(p, d)
  BY <1>1, Consts DEF Later, Timer!Clock
<1>7. (p + Period) + Width \div 2 = p + d
  BY <1>1, Consts DEF Timer!Clock, Half
<1>8. y = [x EXCEPT !.wake["periodic"] = Timer!Wrap(p + Period),
                    !.wake["sentinel"] = Timer!Wrap((p + Period) + Width \div 2)]
  BY DEF Timer!PeriodicEvent
<1> HIDE DEF d, p, y
<1>9. y = [x EXCEPT !.wake["periodic"] = Later(p, Period), !.wake["sentinel"] = Later(p, d)]
  BY <1>3, <1>4, <1>7, <1>8
<1>10. /\ y.list = x.list /\ y.last = x.last /\ y.next = x.next
       /\ y.wake = [x.wake EXCEPT !["periodic"] = Later(p, Period), !["sentinel"] = Later(p, d)]
       /\ y = [list |-> y.list, last |-> y.last, next |-> y.next, wake |-> y.wake]
  BY <1>9 DEF Timer!Queues
<1>11. y.wake \in [Timer!Timers -> Timer!Clock]
  BY <1>1, <1>3, <1>4, <1>10
<1>12. y \in Timer!Queues
  BY <1>10, <1>11, QueueFields DEF Timer!Queues
<1>13. /\ y.wake["periodic"] = Later(p, Period) /\ y.wake["sentinel"] = Later(p, d)
       /\ \A a \in Timer!Timers : a # "periodic" /\ a # "sentinel" => y.wake[a] = x.wake[a]
  BY <1>1, <1>10
<1>14. Left(c, Later(p, Period)) <= Horizon
  <2>1. Left(c, p) \in Nat /\ Left(c, p) <= Late
    BY <1>1, LeftType DEF p
  <2>2. \A a \in Nat : a <= Late => a + Period < Half /\ a + Period <= Horizon
    BY Consts
  <2>3. Left(c, Timer!Wrap(p + Period)) = Left(c, p) + Period
    BY <2>1, <2>2, <1>1, Consts, LaterLeft
  <2> QED  BY <2>1, <2>2, <2>3, <1>3
<1>15. SentinelSet(c, y)
  BY <1>3, <1>5, <1>6, <1>13, <1>14 DEF SentinelSet
<1> QED  BY <1>10, <1>12, <1>13, <1>15 DEF y

\* While the first timer is not overdue by more than Late ticks, none is.
LEMMA GoodTick ==
    ASSUME NEW c \in Timer!Clock, NEW x, NEW A, Good(c, x, A),
           ~Timer!Before(Timer!Wrap(x.wake[x.list] + Late), Timer!Wrap(c + 1))
    PROVE  Good(Timer!Wrap(c + 1), x, A) /\ Timer!Wrap(c + 1) \in Timer!Clock
<1> DEFINE B == A \cup {"periodic"}
           e == Timer!Wrap(c + 1)
<1>1. PICK s, n : Listed(c, x, B, s, n)
  BY DEF Good
<1>2. n \in Nat /\ 1 \in 1..(n - 1) /\ x.list = s[1]
  BY <1>1, ListedBegin
<1>3. /\ x.wake["periodic"] \in Timer!Clock
      /\ \A i \in 1..(n - 1) : i \in 1..n /\ x.wake[s[i]] \in Timer!Clock /\ Left(c, x.wake[s[i]]) \in Nat
  BY <1>1, ListedTimes
<1>4. /\ e \in Timer!Clock
      /\ \A a \in Timer!Clock : /\ Left(c, a) > 0 => Left(e, a) = Left(c, a) - 1
                                /\ Left(c, a) = 0 => Left(e, a) = Width - 1
  BY TickLeft
<1>5. \A a \in Timer!Clock : Timer!Before(Timer!Wrap(a + Late), e) <=> Left(e, a) >= Half
  <2> HIDE DEF e
  <2> QED  BY <1>4, TickLeft
<1> HIDE DEF e
<1>6. Left(c, x.wake[s[1]]) > 0
  <2>1. ~(Left(e, x.wake[s[1]]) >= Half)
    BY <1>2, <1>3, <1>5 DEF e
  <2>2. Width - 1 >= Half
    BY Consts
  <2>3. \A a \in Nat : a = 0 \/ a > 0
    OBVIOUS
  <2> QED  BY <2>1, <2>2, <2>3, <1>2, <1>3, <1>4
<1>7. Timed(c, x, s, n)
  BY <1>1 DEF Listed
<1>8. \A i \in 1..(n - 1) : Left(c, x.wake[s[i]]) > 0
  <2>1. \A i \in 1..(n - 1) : Left(c, x.wake[s[1]]) <= Left(c, x.wake[s[i]])
    <3>1. \A i \in 1..(n - 1) : 1 <= i
      OBVIOUS
    <3> QED  BY <3>1, <1>2, <1>7 DEF Timed
  <2>2. \A a, b \in Nat : a > 0 /\ a <= b => b > 0
    OBVIOUS
  <2> QED  BY <2>1, <2>2, <1>2, <1>3, <1>6
<1>9. \A i \in 1..(n - 1) : Left(e, x.wake[s[i]]) = Left(c, x.wake[s[i]]) - 1
  <2> SUFFICES ASSUME NEW i \in 1..(n - 1)
               PROVE  Left(e, x.wake[s[i]]) = Left(c, x.wake[s[i]]) - 1
    OBVIOUS
  <2> DEFINE a == x.wake[s[i]]
  <2>1. a \in Timer!Clock /\ Left(c, a) > 0
    BY <1>3, <1>8
  <2> HIDE DEF a
  <2>2. Left(e, a) = Left(c, a) - 1
    BY <2>1, <1>4, Zenon
  <2> QED  BY <2>2 DEF a
<1>10. Horizon \in Nat
  BY Consts
<1>11. Timed(e, x, s, n)
  <2>1. \A a, b \in Nat : a <= b => a - 1 <= b - 1
    OBVIOUS
  <2>2. \A a \in Nat : a <= Horizon => a - 1 <= Horizon
    BY <1>10
  <2>3. \A i \in 1..(n - 1) : Left(e, x.wake[s[i]]) <= Horizon
    BY <2>2, <1>3, <1>7, <1>9 DEF Timed
  <2>4. \A i, k \in 1..(n - 1) : i <= k => Left(e, x.wake[s[i]]) <= Left(e, x.wake[s[k]])
    BY <2>1, <1>3, <1>7, <1>9 DEF Timed
  <2> QED  BY <2>3, <2>4 DEF Timed
<1>12. SentinelSet(e, x)
  <2>1. PICK p \in 1..n : s[p] = "periodic"
    BY <1>1 DEF Listed, Members
  <2>2. p # n
    BY <1>1, <2>1 DEF Listed, Chain
  <2>3. p \in 1..(n - 1)
    BY <2>1, <2>2, <1>2
  <2>4. Left(e, x.wake["periodic"]) <= Horizon
    BY <2>1, <2>3, <1>11 DEF Timed
  <2> QED  BY <2>4, <1>1 DEF SentinelSet, Listed
<1>13. Listed(e, x, B, s, n)
  BY <1>1, <1>11, <1>12 DEF Listed
<1> QED  BY <1>4, <1>13 DEF Good, e

\* A timer whose interrupt is due has at most Late ticks left.
LEMMA DueLeft ==
    ASSUME NEW A, now \in Timer!Clock, Good(now, q, A), Timer!Due
    PROVE  /\ q \in Timer!Queues /\ q.wake[q.list] \in Timer!Clock
           /\ Left(now, q.wake[q.list]) \in Nat /\ Left(now, q.wake[q.list]) <= Late
<1>1. PICK s, n : Listed(now, q, A \cup {"periodic"}, s, n)
  BY DEF Good
<1>2. 1 \in 1..(n - 1) /\ q.list = s[1]
  BY <1>1, ListedBegin
<1>3. q \in Timer!Queues /\ q.wake[q.list] \in Timer!Clock /\ Left(now, q.wake[q.list]) \in Nat
  BY <1>1, <1>2, ListedTimes
<1>4. Left(now, q.wake[q.list]) <= Horizon
  BY <1>1, <1>2 DEF Listed, Timed
<1>5. ~Timer!Before(now, q.wake[q.list])
  BY DEF Timer!Due
<1> QED  BY <1>3, <1>4, <1>5, DueIsLate

\* The inductive invariant of the timer list.
ListInv ==
    /\ now \in Timer!Clock /\ is_shutdown \in BOOLEAN
    /\ Good(now, q, active)

\* periodic_timer and the sentinel alone are a list.
LEMMA ListInit == Timer!Init => ListInv
<1> SUFFICES ASSUME Timer!Init PROVE ListInv
  OBVIOUS
<1> DEFINE s == [i \in 1..2 |-> IF i = 1 THEN "periodic" ELSE "sentinel"]
<1>1. /\ q.list = "periodic" /\ q.last = "periodic"
      /\ q.next = [t \in Timer!Timers |-> IF t = "periodic" THEN "sentinel" ELSE "nil"]
      /\ q.wake = [t \in Timer!Timers |-> IF t = "sentinel" THEN Half ELSE 0]
      /\ q = [list |-> q.list, last |-> q.last, next |-> q.next, wake |-> q.wake]
      /\ now = 0
  BY DEF Timer!Init, Half
<1>2. 0 \in Timer!Clock /\ Half \in Timer!Clock /\ Half \in Nat
  BY Consts DEF Timer!Clock
<1>3. "periodic" \in Timer!Timers /\ "sentinel" \in Timer!Timers
  BY TimersFacts
<1>4. q.next \in [Timer!Timers -> Timer!Timers \cup {"nil"}] /\ q.wake \in [Timer!Timers -> Timer!Clock]
  BY <1>1, <1>2, <1>3
<1>5. q \in Timer!Queues
  BY <1>1, <1>3, <1>4 DEF Timer!Queues
<1>6. /\ q.next["periodic"] = "sentinel" /\ q.next["sentinel"] = "nil"
      /\ q.wake["periodic"] = 0 /\ q.wake["sentinel"] = Half
  BY <1>1, <1>3
<1>7. s[1] = "periodic" /\ s[2] = "sentinel" /\ s \in [1..2 -> Timer!Timers]
  BY <1>3
<1> HIDE DEF s
<1>8. /\ \A i \in 1..2 : i = 1 \/ i = 2
      /\ \A i \in 1..(2 - 1) : i = 1
      /\ 1 + 1 = 2 /\ 2 \in Nat \ {0} /\ 1 \in 1..2 /\ 2 \in 1..2
  OBVIOUS
<1>9. Chain(q, s, 2)
  <2>1. \A i \in 1..(2 - 1) : q.next[s[i]] = s[i + 1]
    BY <1>6, <1>7, <1>8
  <2>2. \A i, j \in 1..2 : s[i] = s[j] => i = j
    BY <1>7, <1>8
  <2> QED  BY <2>1, <2>2, <1>1, <1>5, <1>6, <1>7, <1>8 DEF Chain
<1>10. Left(now, 0) = Late /\ Late <= Horizon
  BY <1>1, Consts DEF Left, Gap, Later
<1>11. Timed(now, q, s, 2)
  <2>1. \A i \in 1..(2 - 1) : q.wake[s[i]] = 0
    BY <1>6, <1>7, <1>8
  <2>2. Late <= Late
    BY Consts
  <2> QED  BY <2>1, <2>2, <1>10 DEF Timed
<1>12. SentinelSet(now, q)
  <2>1. Timer!Wrap(0 + Half) = Half
    BY Consts DEF Timer!Wrap
  <2> QED  BY <2>1, <1>6, <1>10 DEF SentinelSet
<1>13. Members({} \cup {"periodic"}, s, 2)
  BY <1>7, <1>8 DEF Members
<1>14. Listed(now, q, {} \cup {"periodic"}, s, 2)
  BY <1>9, <1>11, <1>12, <1>13 DEF Listed
<1>15. Good(now, q, {})
  BY <1>1, <1>14 DEF Good
<1>16. active = {} /\ is_shutdown = FALSE /\ is_shutdown \in BOOLEAN
  BY DEF Timer!Init
<1> QED  BY <1>1, <1>2, <1>15, <1>16 DEF ListInv

\* A list becomes another one while the clock stands.
LEMMA ListBecomes ==
    ASSUME NEW x, NEW A, now \in Timer!Clock, Good(now, x, A), Timer!Becomes(x, A), UNCHANGED now,
           is_shutdown' \in BOOLEAN
    PROVE  ListInv'
<1>1. Good(now, q', A) /\ active' = A
  BY GoodBecomes
<1>2. Good(now', q', active')
  BY <1>1
<1>3. ListInv' <=> (now' \in Timer!Clock /\ is_shutdown' \in BOOLEAN /\ Good(now', q', active'))
  BY DEF ListInv, Good
<1> QED  BY <1>2, <1>3

\* A shutdown resets the list; a handler may add one timer again.
LEMMA ListShutdown == ListInv /\ Timer!Shutdown => ListInv'
<1> SUFFICES ASSUME ListInv, Timer!Shutdown PROVE ListInv'
  OBVIOUS
<1>1. now \in Timer!Clock /\ Good(now, q, active)
  BY DEF ListInv
<1>2. Good(now, Timer!Reset(q), {})
  BY <1>1, GoodReset
<1>3. UNCHANGED now /\ is_shutdown' \in BOOLEAN
  BY DEF Timer!Shutdown
<1>4. CASE Timer!Becomes(Timer!Reset(q), {})
  BY <1>1, <1>2, <1>3, <1>4, ListBecomes
<1>5. ASSUME NEW t \in Users, NEW d \in -1..Ahead,
             Timer!Becomes(Timer!Added(Timer!Reset(q), t, Timer!Wrap(now + d)), {t})
      PROVE  ListInv'
  <2> DEFINE w == Timer!Wrap(now + d)
             x == Timer!Reset(q)
             E == {}
  <2>1. w \in Timer!Clock /\ Left(now, w) <= Horizon
    BY <1>1, NowLeft
  <2>2. Good(now, x, E) /\ t \notin E
    BY <1>2
  <2>3. E \cup {t} = {t}
    OBVIOUS
  <2>4. Timer!Becomes(Timer!Added(x, t, w), {t})
    BY <1>5
  <2> HIDE DEF w, x, E
  <2>5. Good(now, Timer!Added(x, t, w), E \cup {t})
    BY <2>1, <2>2, <1>1, GoodAdded
  <2>6. Good(now, Timer!Added(x, t, w), {t})
    BY <2>3, <2>5
  <2> QED  BY <2>4, <2>6, <1>1, <1>3, ListBecomes
<1> QED  BY <1>4, <1>5 DEF Timer!Shutdown

\* sched_add_timer() keeps the invariant, also when it shuts down.
LEMMA ListAdd ==
    ASSUME ListInv, NEW t \in Users, NEW d \in -1..Ahead, Timer!AddTimer(t, d)
    PROVE  ListInv'
<1> DEFINE w == Timer!Wrap(now + d)
<1>1. now \in Timer!Clock /\ Good(now, q, active) /\ is_shutdown \in BOOLEAN
  BY DEF ListInv
<1>2. w \in Timer!Clock /\ Left(now, w) <= Horizon
  BY <1>1, NowLeft
<1>3. t \notin active
  BY DEF Timer!AddTimer
<1>4. CASE Timer!TooClose(q, w) /\ ~is_shutdown
  BY <1>4, ListShutdown DEF Timer!AddTimer
<1>5. CASE ~(Timer!TooClose(q, w) /\ ~is_shutdown)
  <2>1. Timer!Becomes(Timer!Added(q, t, w), active \cup {t}) /\ UNCHANGED <<now, is_shutdown>>
    BY <1>5 DEF Timer!AddTimer
  <2> HIDE DEF w
  <2>2. Good(now, Timer!Added(q, t, w), active \cup {t})
    BY <1>1, <1>2, <1>3, GoodAdded
  <2> QED  BY <2>1, <2>2, <1>1, ListBecomes
<1> QED  BY <1>4, <1>5

\* The call of a timer that is due keeps the invariant, whatever its function does.
LEMMA ListDispatchUser == ListInv /\ Timer!DispatchUser => ListInv'
<1> SUFFICES ASSUME ListInv, Timer!DispatchUser PROVE ListInv'
  OBVIOUS
<1> DEFINE t == q.list
<1>1. now \in Timer!Clock /\ Good(now, q, active) /\ is_shutdown \in BOOLEAN
  BY DEF ListInv
<1>2. t \in Users /\ Timer!Due /\ UNCHANGED now /\ is_shutdown' \in BOOLEAN
  BY <1>1 DEF Timer!DispatchUser
<1>3. /\ q \in Timer!Queues /\ q.wake[t] \in Timer!Clock
      /\ Left(now, q.wake[t]) \in Nat /\ Left(now, q.wake[t]) <= Late
  BY <1>1, <1>2, DueLeft
<1>4. t # "periodic" /\ t # "deleted" /\ t # "sentinel" /\ t \in Timer!Timers
  BY <1>2, TimersFacts
<1> DEFINE X(D) == IF D = {} THEN q ELSE Timer!Deleted(q, CHOOSE u \in D : TRUE)
<1>5. PICK D \in {{}} \cup {{u} : u \in Users \ {t}} :
        \/ Timer!Becomes(Timer!Done(X(D), t), active \ (D \cup {t}))
        \/ \E d \in 1..Ahead :
             Timer!Becomes(Timer!Rescheduled([X(D) EXCEPT !.wake[t] = Timer!Wrap(@ + d)], t), active \ D)
  BY DEF Timer!DispatchUser
<1> DEFINE x == X(D)
           A == active \ D
<1>6. Good(now, x, A) /\ x.list = t /\ x.wake = q.wake
  <2>1. CASE D = {}
    <3>1. x = q /\ A = active
      BY <2>1
    <3> QED  BY <3>1, <1>1
  <2>2. CASE D # {}
    <3>1. PICK u \in Users \ {t} : D = {u}
      BY <1>5, <2>2
    <3>2. x = Timer!Deleted(q, u) /\ A = active \ {u}
      BY <2>2, <3>1
    <3>3. Good(now, Timer!Deleted(q, u), active \ {u})
      BY <1>1, <3>1, GoodDeleted
    <3>4. u \in Timer!Timers /\ q.list # u
      BY <3>1, TimersFacts
    <3>5. Timer!Deleted(q, u).list = q.list /\ Timer!Deleted(q, u).wake = q.wake
      BY <3>4, <1>3, DeletedFirst
    <3> QED  BY <3>2, <3>3, <3>5
  <2> QED  BY <2>1, <2>2
<1>7. active \ (D \cup {t}) = A \ {t}
  OBVIOUS
<1>8. \/ Timer!Becomes(Timer!Done(x, t), A \ {t})
      \/ \E d \in 1..Ahead : Timer!Becomes(Timer!Rescheduled([x EXCEPT !.wake[t] = Timer!Wrap(@ + d)], t), A)
  BY <1>5, <1>7
<1> HIDE DEF x, A, t
<1>9. CASE Timer!Becomes(Timer!Done(x, t), A \ {t})
  <2>1. Good(now, Timer!Done(x, t), A \ {t})
    BY <1>1, <1>4, <1>6, GoodDone
  <2> QED  BY <2>1, <1>1, <1>2, <1>9, ListBecomes
<1>10. ASSUME NEW d \in 1..Ahead,
              Timer!Becomes(Timer!Rescheduled([x EXCEPT !.wake[t] = Timer!Wrap(@ + d)], t), A)
       PROVE  ListInv'
  <2> DEFINE y == [x EXCEPT !.wake[t] = Timer!Wrap(@ + d)]
             w == Timer!Wrap(x.wake[t] + d)
  <2>1. PICK s, n : Listed(now, x, A \cup {"periodic"}, s, n)
    BY <1>6 DEF Good
  <2>2. x \in Timer!Queues /\ SentinelSet(now, x)
    BY <2>1 DEF Listed, Chain
  <2>3. d \in Nat /\ Left(now, x.wake[t]) + d < Half /\ Left(now, x.wake[t]) + d <= Horizon
    <3>1. \A a \in Nat : a <= Late => a + d < Half /\ a + d <= Horizon
      BY Consts
    <3> QED  BY <3>1, <1>3, <1>6
  <2>4. w \in Timer!Clock /\ Left(now, w) = Left(now, x.wake[t]) + d
    BY <2>3, <1>1, <1>3, <1>6, LaterLeft
  <2>5. y = [x EXCEPT !.wake[t] = w]
    OBVIOUS
  <2> HIDE DEF y, w
  <2>6. /\ y \in Timer!Queues /\ y.list = x.list /\ y.next = x.next /\ y.last = x.last
        /\ y.wake[t] = w /\ \A a \in Timer!Timers : a # t => y.wake[a] = x.wake[a]
    BY <2>2, <2>4, <2>5, <1>4 DEF Timer!Queues
  <2>7. SentinelSet(now, y)
    BY <2>2, <2>6, <1>4, TimersFacts DEF SentinelSet
  <2>8. t \in A \cup {"periodic"}
    <3>1. t = s[1] /\ s[1] \in (A \cup {"periodic"}) \cup {"deleted"}
      BY <2>1, <1>1, <1>6, ListedBegin
    <3> QED  BY <3>1, <1>4
  <2>9. Good(now, Timer!Rescheduled(y, t), A)
    <3>1. Left(now, y.wake[t]) <= Horizon /\ y.list = t /\ y.list = x.list
      BY <2>3, <2>4, <2>6, <1>6
    <3> QED  BY <3>1, <2>6, <2>7, <2>8, <1>1, <1>6, GoodRescheduled
  <2>10. Timer!Becomes(Timer!Rescheduled(y, t), A)
    BY <1>10 DEF y
  <2> QED  BY <2>9, <2>10, <1>1, <1>2, ListBecomes
<1> QED  BY <1>8, <1>9, <1>10

\* So does the call of periodic_timer.
LEMMA ListDispatchPeriodic == ListInv /\ Timer!DispatchPeriodic => ListInv'
<1> SUFFICES ASSUME ListInv, Timer!DispatchPeriodic PROVE ListInv'
  OBVIOUS
<1> DEFINE y == Timer!PeriodicEvent(q)
           t == "periodic"
<1>1. now \in Timer!Clock /\ Good(now, q, active) /\ is_shutdown \in BOOLEAN
  BY DEF ListInv
<1>2. Timer!Due /\ q.list = t /\ Timer!Becomes(Timer!Rescheduled(y, t), active) /\ UNCHANGED <<now, is_shutdown>>
  BY DEF Timer!DispatchPeriodic
<1>3. q \in Timer!Queues /\ Left(now, q.wake["periodic"]) <= Late
  BY <1>1, <1>2, DueLeft
<1>4. /\ y \in Timer!Queues /\ y.list = q.list /\ y.next = q.next /\ y.last = q.last
      /\ \A a \in Timer!Timers : a # t /\ a # "sentinel" => y.wake[a] = q.wake[a]
      /\ SentinelSet(now, y)
  BY <1>1, <1>3, PeriodicMoves
<1> HIDE DEF y
<1>5. Left(now, y.wake[t]) <= Horizon /\ t \in active \cup {"periodic"} /\ y.list = t
  BY <1>2, <1>4 DEF SentinelSet
<1> HIDE DEF t
<1>6. Good(now, Timer!Rescheduled(y, t), active)
  BY <1>1, <1>2, <1>4, <1>5, GoodRescheduled
<1> QED  BY <1>1, <1>2, <1>6, ListBecomes

\* Every step keeps the invariant.
LEMMA ListNext == ListInv /\ [Timer!Next]_(Timer!vars) => ListInv'
<1> SUFFICES ASSUME ListInv, [Timer!Next]_(Timer!vars) PROVE ListInv'
  OBVIOUS
<1>1. now \in Timer!Clock /\ Good(now, q, active) /\ is_shutdown \in BOOLEAN
  BY DEF ListInv
<1>2. ASSUME NEW t \in Users, Timer!DelTimer(t)
      PROVE  ListInv'
  <2>1. Good(now, Timer!Deleted(q, t), active \ {t})
    BY <1>1, GoodDeleted
  <2> QED  BY <2>1, <1>1, <1>2, ListBecomes DEF Timer!DelTimer
<1>3. ASSUME NEW t \in Users, NEW d \in -1..Ahead, Timer!AddTimer(t, d)
      PROVE  ListInv'
  BY <1>3, ListAdd
<1>4. CASE Timer!DispatchDeleted
  <2>1. "deleted" \notin active
    BY <1>1, TimersFacts DEF Good
  <2>2. q.list = "deleted" /\ active \ {q.list} = active
    BY <2>1, <1>4 DEF Timer!DispatchDeleted
  <2>3. Good(now, Timer!Done(q, q.list), active \ {q.list})
    <3>1. q.list # "periodic"
      BY <2>2
    <3> QED  BY <3>1, <1>1, GoodDone
  <2>4. Good(now, Timer!Done(q, "deleted"), active)
    BY <2>2, <2>3
  <2> QED  BY <2>4, <1>1, <1>4, ListBecomes DEF Timer!DispatchDeleted
<1>5. CASE Timer!DispatchPeriodic
  BY <1>5, ListDispatchPeriodic
<1>6. CASE Timer!DispatchUser
  BY <1>6, ListDispatchUser
<1>7. CASE Timer!Shutdown
  BY <1>7, ListShutdown
<1>8. CASE Timer!ClearShutdown
  BY <1>1, <1>8 DEF Timer!ClearShutdown, ListInv, Good
<1>9. CASE Timer!Tick
  <2>1. Good(Timer!Wrap(now + 1), q, active) /\ Timer!Wrap(now + 1) \in Timer!Clock
    BY <1>1, <1>9, GoodTick DEF Timer!Tick
  <2>2. now' = Timer!Wrap(now + 1) /\ q' = q /\ active' = active /\ is_shutdown' = is_shutdown
    BY <1>9 DEF Timer!Tick
  <2>3. Good(now', q', active')
    BY <2>1, <2>2
  <2> QED  BY <2>1, <2>2, <2>3, <1>1 DEF ListInv
<1>10. CASE UNCHANGED Timer!vars
  BY <1>1, <1>10 DEF Timer!vars, ListInv, Good
<1> QED
  BY <1>2, <1>3, <1>4, <1>5, <1>6, <1>7, <1>8, <1>9, <1>10 DEF Timer!Next

\* What the invariant says of the list.
LEMMA ListSafe == ListInv => Timer!TypeOK /\ Timer!ListIntact /\ Timer!Sorted /\ Timer!NoTimerMissed
<1> SUFFICES ASSUME ListInv PROVE Timer!TypeOK /\ Timer!ListIntact /\ Timer!Sorted /\ Timer!NoTimerMissed
  OBVIOUS
<1> DEFINE B == active \cup {"periodic"}
<1>1. now \in Timer!Clock /\ Good(now, q, active) /\ is_shutdown \in BOOLEAN
  BY DEF ListInv
<1>2. active \subseteq Users /\ q.last \in B
  BY <1>1 DEF Good
<1>3. PICK s, n : Listed(now, q, B, s, n)
  BY <1>1 DEF Good
<1>4. Timer!OnList = {s[i] : i \in 1..n}
  BY <1>3, OnListIs DEF Listed, Timer!OnList
<1>5. /\ n \in Nat \ {0} /\ n \in 1..n /\ q \in Timer!Queues /\ q.list = s[1]
      /\ \A i \in 1..(n - 1) : q.next[s[i]] = s[i + 1]
      /\ s[n] = "sentinel" /\ q.next["sentinel"] = "nil"
      /\ \A i, j \in 1..n : s[i] = s[j] => i = j
      /\ \A i \in 1..n : s[i] \in B \cup {"sentinel", "deleted"}
      /\ \A t \in B : \E i \in 1..n : s[i] = t
      /\ \A i \in 1..n : s[i] = "deleted" => i = 1
      /\ \A i, k \in 1..(n - 1) :
           i <= k => Left(now, q.wake[s[i]]) <= Left(now, q.wake[s[k]])
  BY <1>3 DEF Listed, Chain, Members, Timed
<1>6. \A i \in 1..(n - 1) : /\ i \in 1..n /\ Left(now, q.wake[s[i]]) \in Nat
                            /\ Left(now, q.wake[s[i]]) < Half /\ q.wake[s[i]] \in Timer!Clock
  BY <1>1, <1>3, ListedTimes
<1>7. "nil" \notin Timer!Timers /\ \A t \in B : t \in Timer!Timers /\ t # "deleted" /\ t # "sentinel"
  BY <1>2, TimersFacts
<1>8. Timer!TypeOK
  BY <1>1, <1>2, <1>5 DEF Timer!TypeOK
<1>9. Timer!ListIntact
  <2>1. Timer!OnList \ {"deleted"} = active \cup {"periodic", "sentinel"}
    <3>1. \A t \in Timer!OnList : t \in B \cup {"sentinel", "deleted"}
      BY <1>4, <1>5
    <3>2. \A t \in B \cup {"sentinel"} : t \in Timer!OnList /\ t # "deleted"
      BY <1>4, <1>5, <1>7
    <3> QED  BY <3>1, <3>2
  <2>2. "deleted" \in Timer!OnList => q.list = "deleted"
    BY <1>4, <1>5
  <2>3. q.last \in Timer!OnList \ {"sentinel", "deleted"}
    <3>1. \A t \in B : t \in Timer!OnList
      BY <1>4, <1>5
    <3>2. q.last # "sentinel" /\ q.last # "deleted"
      BY <1>2, <1>7
    <3> QED  BY <3>1, <3>2, <1>2
  <2> QED  BY <2>1, <2>2, <2>3, <1>5 DEF Timer!ListIntact
<1>10. Timer!Sorted
  <2> SUFFICES ASSUME NEW t \in Timer!OnList, q.next[t] \in Timer!OnList \ {"sentinel"}
               PROVE  ~Timer!Before(q.wake[q.next[t]], q.wake[t])
    BY DEF Timer!Sorted
  <2>1. PICK i \in 1..n : t = s[i]
    BY <1>4
  <2>2. \A j \in 1..n : s[j] # "nil"
    BY <1>5, <1>7, TimersFacts
  <2>3. i # n
    BY <2>1, <2>2, <1>4, <1>5
  <2>4. i \in 1..(n - 1) /\ i + 1 \in 1..n
    BY <2>1, <2>3, <1>5
  <2>5. q.next[t] = s[i + 1]
    BY <2>1, <2>4, <1>5
  <2>6. i + 1 # n
    BY <2>5, <1>5
  <2>7. i + 1 \in 1..(n - 1) /\ i <= i + 1
    BY <2>4, <2>6, <1>5
  <2>8. Left(now, q.wake[s[i]]) <= Left(now, q.wake[s[i + 1]])
    BY <2>4, <2>7, <1>5
  <2>9. \A a, b \in Nat : a <= b => ~(b < a)
    OBVIOUS
  <2>10. ~(Left(now, q.wake[s[i + 1]]) < Left(now, q.wake[s[i]]))
    BY <2>4, <2>7, <2>8, <2>9, <1>6
  <2> DEFINE a == q.wake[s[i + 1]]
             b == q.wake[s[i]]
  <2>11. a \in Timer!Clock /\ b \in Timer!Clock /\ Left(now, a) < Half /\ Left(now, b) < Half
    BY <2>4, <2>7, <1>6
  <2>12. Timer!Before(a, b) <=> Left(now, a) < Left(now, b)
    <3> HIDE DEF a, b
    <3> QED  BY <2>11, <1>1, BeforeIsLess
  <2> QED  BY <2>1, <2>5, <2>10, <2>12
<1>11. Timer!NoTimerMissed
  <2> SUFFICES ASSUME NEW t \in active PROVE ~Timer!Before(Timer!Wrap(q.wake[t] + Late), now)
    BY DEF Timer!NoTimerMissed
  <2>1. PICK i \in 1..n : s[i] = t
    BY <1>5
  <2>2. i # n
    BY <2>1, <1>5, <1>7
  <2>3. i \in 1..(n - 1)
    BY <2>1, <2>2, <1>5
  <2>4. q.wake[t] \in Timer!Clock /\ Left(now, q.wake[t]) \in Nat /\ Left(now, q.wake[t]) < Half
    BY <2>1, <2>3, <1>6
  <2>5. Timer!Before(Timer!Wrap(q.wake[t] + Late), now) <=> Left(now, q.wake[t]) >= Half
    BY <2>4, <1>1, TickLeft
  <2>6. \A a \in Nat : a < Half => ~(a >= Half)
    BY Consts
  <2> QED  BY <2>4, <2>5, <2>6
<1> QED  BY <1>8, <1>9, <1>10, <1>11

-----------------------------------------------------------------------------
(* The main loop *)

\* The main loop is in a round and task w is still to come.
ToCome(w) ==
    \/ pc = "run"
    \/ pc \in {"task", "clear"} /\ w >= cur
    \/ pc \in {"body", "mark"} /\ w > cur

\* A marked task has been requested, or its turn in this round is still to come;
\* sched_wake_task() has noted the request when it marks the task.
Requested ==
    shutdowns = 0
      => /\ \A w \in TaskIds : wake[w] => tasks_status = "requested" \/ ToCome(w)
         /\ pc = "mark" => tasks_status = "requested"
         /\ pc = "wait" => tasks_status # "running"

TasksInv == TypeOK /\ Requested

\* Every step of the main loop and of the interrupts keeps the invariant.
LEMMA TasksNext == TasksInv /\ [Next]_vars => TasksInv'
<1> SUFFICES ASSUME TasksInv, [Next]_vars
             PROVE  TasksInv'
  OBVIOUS
<1> USE TasksAssumption DEF TasksInv, TypeOK, Requested, ToCome, TaskIds
<1>1. CASE CheckSleep
  BY <1>1 DEF CheckSleep
<1>2. CASE Sleep
  BY <1>2 DEF Sleep
<1>3. CASE WakeUp
  BY <1>3 DEF WakeUp
<1>4. CASE Run
  BY <1>4 DEF Run
<1>5. CASE CheckWake
  <2>1. CASE wake[cur]
    BY <1>5, <2>1 DEF CheckWake
  <2>2. CASE ~wake[cur] /\ cur < NTasks
    BY <1>5, <2>2 DEF CheckWake, NextTask
  <2>3. CASE ~wake[cur] /\ cur = NTasks
    BY <1>5, <2>3 DEF CheckWake, NextTask
  <2> QED  BY <2>1, <2>2, <2>3
<1>6. CASE ClearWake
  BY <1>6 DEF ClearWake
<1>7. CASE Body
  <2>1. CASE NextTask /\ UNCHANGED <<tasks_status, waking>>
    BY <1>7, <2>1 DEF Body, NextTask
  <2>2. CASE \E w \in TaskIds : /\ tasks_status' = "requested" /\ waking' = {w}
                                /\ pc' = "mark" /\ UNCHANGED cur
    BY <1>7, <2>2 DEF Body
  <2> QED  BY <1>7, <2>1, <2>2 DEF Body
<1>8. CASE Mark
  BY <1>8 DEF Mark, NextTask
<1>9. CASE \E w \in TaskIds : IrqWake(w)
  BY <1>9 DEF IrqWake
<1>10. CASE PeriodicEvent
  BY <1>10 DEF PeriodicEvent
<1>11. CASE Shutdown
  BY <1>11 DEF Shutdown
<1>12. CASE UNCHANGED vars
  BY <1>12 DEF vars
<1> QED
  BY <1>1, <1>2, <1>3, <1>4, <1>5, <1>6, <1>7, <1>8, <1>9, <1>10, <1>11, <1>12
  DEF Next, Main

-----------------------------------------------------------------------------
(* The scheduler *)

SchedInv == TasksInv /\ ListInv

\* The scheduler starts in the invariant.
LEMMA SchedStart == SchedInit => SchedInv
<1>1. Init => TasksInv
  BY TasksAssumption DEF Init, TasksInv, TypeOK, Requested, TaskIds
<1> QED  BY <1>1, ListInit DEF SchedInit, SchedInv

\* A step is one of the main loop or one of the timer list.
LEMMA SchedStep == SchedInv /\ [SchedNext]_SchedVars => SchedInv'
<1> SUFFICES ASSUME SchedInv, [SchedNext]_SchedVars
             PROVE  SchedInv'
  OBVIOUS
<1>1. CASE Next /\ UNCHANGED timerVars
  <2>1. TasksInv'
    BY <1>1, TasksNext DEF SchedInv
  <2>2. ListInv'
    BY <1>1 DEF SchedInv, ListInv, Good, timerVars
  <2> QED  BY <2>1, <2>2 DEF SchedInv
<1>2. CASE Timer!Next /\ UNCHANGED vars
  <2>1. TasksInv'
    BY <1>2, TasksNext DEF SchedInv
  <2>2. ListInv'
    BY <1>2, ListNext DEF SchedInv
  <2> QED  BY <2>1, <2>2 DEF SchedInv
<1>3. CASE UNCHANGED SchedVars
  <2>1. UNCHANGED vars /\ UNCHANGED timerVars
    BY <1>3 DEF SchedVars
  <2>2. TasksInv'
    BY <2>1, TasksNext DEF SchedInv
  <2>3. ListInv'
    BY <2>1 DEF SchedInv, ListInv, Good, timerVars
  <2> QED  BY <2>2, <2>3 DEF SchedInv
<1> QED  BY <1>1, <1>2, <1>3 DEF SchedNext

\* For any number of tasks and shutdowns the variables of the main loop keep their
\* types, and up to the first shutdown the processor never sleeps on a task that was
\* woken.
THEOREM NoSleep == SchedSpec => [](TypeOK /\ NoSleepOnWork)
<1>1. SchedInv => TypeOK /\ NoSleepOnWork
  BY DEF SchedInv, TasksInv, Requested, ToCome, NoSleepOnWork
<1> QED  BY <1>1, SchedStart, SchedStep, PTL DEF SchedSpec

\* For any number of timers and any width of the clock, the list of sched.c ends at
\* the sentinel, holds exactly the timers that were added and neither done nor
\* deleted, is in the order of time across the wrap of the clock, and its hint is on
\* it.
THEOREM AlwaysTimersIntact == SchedSpec => []TimersIntact
<1>1. SchedInv => TimersIntact
  BY ListSafe DEF SchedInv, TimersIntact
<1> QED  BY <1>1, SchedStart, SchedStep, PTL DEF SchedSpec

\* No timer is ever overdue by more than the interrupt of the first one is late: being
\* behind another, behind deleted_timer or at a stale hint never delays a timer.
THEOREM AlwaysNoTimerMissed == SchedSpec => []NoTimerMissed
<1>1. SchedInv => NoTimerMissed
  BY ListSafe DEF SchedInv, NoTimerMissed
<1> QED  BY <1>1, SchedStart, SchedStep, PTL DEF SchedSpec
=============================================================================
