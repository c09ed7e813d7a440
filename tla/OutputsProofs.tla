---------------------------- MODULE OutputsProofs ----------------------------
(***************************************************************************)
(* Proofs about what has to happen in time.  The output pins of the        *)
(* firmware, for every width of the clock, limit, cycle and lead of the    *)
(* host that satisfy PinsAssumption: updates are applied on time, and an   *)
(* output that is not renewed ends in time, also when the clock wraps      *)
(* around.  Then the tool head.                                            *)
(***************************************************************************)
EXTENDS MCOutputs, Sequences, TLAPS

-----------------------------------------------------------------------------
(* Times that wrap around                                                  *)

ClockTimes == 0..(Width - 1)

\* How long after the clock reads a it reads b.
Gap(a, b) == IF b >= a THEN b - a ELSE b - a + Width

\* A length of time that timer_is_before() tells from one in the past.
Short(n) == 2 * n < Width

\* The width of the clock is even.
LEMMA WidthFacts == Width \in Nat \ {0} /\ Width % 2 = 0 /\ Width \in Int
BY PinsAssumption DEF Pin!OutAssumption

\* Half the width is a whole number of ticks.
LEMMA WidthEven == \A n \in Nat : 2 * n < Width => 2 * n + 2 <= Width
BY WidthFacts

\* Remainders of numbers within one width of the clock.
LEMMA ModFacts ==
    ASSUME NEW t \in Int
    PROVE  /\ 0 <= t /\ t < Width => t % Width = t
           /\ Width <= t /\ t < 2 * Width => t % Width = t - Width
           /\ -Width <= t /\ t < 0 => t % Width = t + Width
<1>1. 0 <= t /\ t < Width => t % Width = t
  BY WidthFacts
<1>2. Width <= t /\ t < 2 * Width => t % Width = t - Width
  BY WidthFacts
<1>3. -Width <= t /\ t < 0 => t % Width = t + Width
  BY WidthFacts
<1> QED BY <1>1, <1>2, <1>3

\* The difference of two times modulo the width is their gap.
LEMMA WrapGap ==
    ASSUME NEW a \in ClockTimes, NEW b \in ClockTimes
    PROVE  (b - a) % Width = Gap(a, b)
<1>1. b - a \in Int /\ Width \in Nat /\ -Width <= b - a /\ b - a < Width
  BY WidthFacts DEF ClockTimes
<1>2. CASE b >= a
  BY <1>1, <1>2, ModFacts DEF Gap, ClockTimes
<1>3. CASE ~(b >= a)
  BY <1>1, <1>3, ModFacts DEF Gap, ClockTimes
<1> QED BY <1>2, <1>3

\* A gap is a number below the width.
LEMMA GapType ==
    ASSUME NEW a \in ClockTimes, NEW b \in ClockTimes
    PROVE  /\ Gap(a, b) \in Nat /\ Gap(a, b) < Width
           /\ Gap(a, b) = 0 <=> a = b
BY WidthFacts DEF Gap, ClockTimes

\* timer_is_before() tells the order of two times that are not far from now.
LEMMA GapBefore ==
    ASSUME NEW n \in ClockTimes, NEW a \in ClockTimes, NEW b \in ClockTimes,
           Short(Gap(n, a)), Short(Gap(n, b))
    PROVE  2 * ((a - b) % Width) >= Width <=> Gap(n, a) < Gap(n, b)
<1>1. (a - b) % Width = Gap(b, a)
  BY WrapGap
<1>2. 2 * Gap(b, a) >= Width <=> Gap(n, a) < Gap(n, b)
  BY WidthFacts DEF Gap, ClockTimes, Short
<1> QED BY <1>1, <1>2

\* A time is in the past when it is not less than half a turn away.
LEMMA GapPast ==
    ASSUME NEW n \in ClockTimes, NEW a \in ClockTimes
    PROVE  2 * ((a - n) % Width) >= Width <=> ~Short(Gap(n, a))
BY WrapGap, GapType, WidthFacts DEF Short

\* The time d after now.
LEMMA GapLater ==
    ASSUME NEW n \in ClockTimes, NEW d \in Nat, d < Width
    PROVE  (n + d) % Width \in ClockTimes /\ Gap(n, (n + d) % Width) = d
<1>1. n + d \in Int /\ 0 <= n + d /\ n + d < 2 * Width
  BY WidthFacts DEF ClockTimes
<1>2. CASE n + d < Width
  <2>1. (n + d) % Width = n + d
    BY <1>1, <1>2, ModFacts
  <2> QED BY <1>1, <1>2, <2>1, WidthFacts DEF Gap, ClockTimes
<1>3. CASE ~(n + d < Width)
  <2>0. Width <= n + d
    BY <1>1, <1>3, WidthFacts
  <2>1. (n + d) % Width = (n + d) - Width
    <3> DEFINE t == n + d
    <3>1. t \in Int /\ Width <= t /\ t < 2 * Width
      BY <1>1, <2>0
    <3> HIDE DEF t
    <3>2. t % Width = t - Width
      BY <3>1, ModFacts
    <3> QED BY <3>2 DEF t
  <2> QED BY <1>1, <1>3, <2>1, WidthFacts DEF Gap, ClockTimes
<1> QED BY <1>2, <1>3

\* The time just before now.
LEMMA GapBack ==
    ASSUME NEW n \in ClockTimes
    PROVE  (n + (-1)) % Width \in ClockTimes /\ Gap(n, (n + (-1)) % Width) = Width - 1
<1>1. n + (-1) \in Int /\ -Width <= n + (-1) /\ n + (-1) < Width /\ n + (-1) = n - 1
  BY WidthFacts DEF ClockTimes
<1>2. CASE n = 0
  <2>1. (n + (-1)) % Width = Width - 1
    BY <1>1, <1>2, ModFacts, WidthFacts
  <2> QED BY <1>2, <2>1, WidthFacts DEF Gap, ClockTimes
<1>3. CASE n # 0
  <2>1. (n + (-1)) % Width = n - 1
    BY <1>1, <1>3, ModFacts, WidthFacts DEF ClockTimes
  <2> QED BY <1>3, <2>1, WidthFacts DEF Gap, ClockTimes
<1> QED BY <1>2, <1>3

\* It is before every time that is not far.
LEMMA BackBefore ==
    ASSUME NEW n \in ClockTimes, NEW a \in ClockTimes, NEW b \in ClockTimes, Gap(n, b) = Width - 1,
           Short(Gap(n, a))
    PROVE  /\ 2 * ((b - a) % Width) >= Width
           /\ 2 * ((a - b) % Width) >= Width => ~Short(Gap(n, a) + 1)
<1>1. (b - a) % Width = Gap(a, b) /\ (a - b) % Width = Gap(b, a)
  BY WrapGap
<1>2. Gap(n, a) \in Nat /\ 2 * Gap(n, a) + 2 <= Width
  BY WidthEven, GapType DEF Short
<1>3. 2 * Gap(a, b) >= Width
  BY <1>2, WidthFacts DEF Gap, ClockTimes, Short
<1>4. 2 * Gap(b, a) >= Width => ~Short(Gap(n, a) + 1)
  BY <1>2, WidthFacts DEF Gap, ClockTimes, Short
<1> QED BY <1>1, <1>3, <1>4

\* A tick of the clock brings every other time nearer.
LEMMA GapTick ==
    ASSUME NEW n \in ClockTimes, NEW a \in ClockTimes, a # n
    PROVE  /\ (n + 1) % Width \in ClockTimes
           /\ Gap((n + 1) % Width, a) = Gap(n, a) - 1
<1>1. n + 1 \in Int /\ 0 <= n + 1 /\ n + 1 < 2 * Width
  BY WidthFacts DEF ClockTimes
<1>2. CASE n + 1 < Width
  <2>1. (n + 1) % Width = n + 1
    BY <1>1, <1>2, ModFacts
  <2> QED BY <1>1, <1>2, <2>1, WidthFacts DEF Gap, ClockTimes
<1>3. CASE ~(n + 1 < Width)
  <2>0. Width <= n + 1
    BY <1>1, <1>3, WidthFacts
  <2>1. (n + 1) % Width = (n + 1) - Width
    <3> DEFINE t == n + 1
    <3>1. t \in Int /\ Width <= t /\ t < 2 * Width
      BY <1>1, <2>0
    <3> HIDE DEF t
    <3>2. t % Width = t - Width
      BY <3>1, ModFacts
    <3> QED BY <3>2 DEF t
  <2> QED BY <1>1, <1>3, <2>1, WidthFacts DEF Gap, ClockTimes
<1> QED BY <1>2, <1>3

-----------------------------------------------------------------------------
(* The PWM output                                                           *)

PwmLeft(t) == Gap(pwm_now, t)

\* The updates are in the order of their times, none of them in the past, and the
\* timer is that of the first; a command at work has just put the only one there.
PwmQueue ==
    /\ pwm_adding # {} => Len(pwm_mq) = 1 /\ pwm_adding = {pwm_mq[1].waketime}
    /\ pwm_adding = {} =>
         /\ \A i \in DOMAIN pwm_mq : Short(PwmLeft(pwm_mq[i].waketime))
         /\ \A i, j \in DOMAIN pwm_mq :
              i < j => PwmLeft(pwm_mq[i].waketime) <= PwmLeft(pwm_mq[j].waketime)
         /\ pwm_mq # <<>> => pwm_waketime = pwm_mq[1].waketime

\* While the output is limited and active, a timer ends the setting in time.
PwmLimit ==
    /\ pwm_func = "end" => pwm_timer /\ Short(PwmLeft(pwm_waketime))
    /\ Pwm!Active /\ MaxDuration # 0 =>
         pwm_timer /\ pwm_age + PwmLeft(pwm_waketime) <= MaxDuration

PwmInv == Pwm!TypeOK /\ PwmQueue /\ PwmLimit

\* A step of the output as a step of SafeOutput.
PwmSafe == [Pwm!Safe!Next]_(Pwm!Safe!vars)

\* What the assumptions say of the constants of a PWM output.
LEMMA PwmConstants ==
    /\ MaxDuration \in Nat /\ PwmAhead \in Nat /\ Short(MaxDuration) /\ Short(PwmAhead)
    /\ MaxDuration < Width /\ PwmAhead < Width /\ PwmDefault \in PwmValues
    /\ Width \in Nat \ {0} /\ Pwm!Clock = ClockTimes
BY PinsAssumption, WidthFacts DEF Pwm!PwmAssumption, Short, Pwm!Clock, ClockTimes

\* The invariant of the PWM output holds at the start.
LEMMA PwmInitInv == Pwm!Init => PwmInv
<1> SUFFICES ASSUME Pwm!Init PROVE PwmInv
  OBVIOUS
<1> USE PwmConstants
<1>1. pwm_now \in ClockTimes /\ 0 \in ClockTimes
  BY DEF Pwm!Init, ClockTimes
<1>2. /\ pwm_value \in PwmValues /\ pwm_func = "event" /\ pwm_timer = FALSE
      /\ pwm_waketime = 0 /\ pwm_mq = <<>> /\ pwm_adding = {} /\ pwm_is_shutdown = FALSE
      /\ pwm_age = 0 /\ (MaxDuration # 0 => pwm_value = PwmDefault)
  BY DEF Pwm!Init
<1>3. Pwm!TypeOK
  <2>1. <<>> \in Seq([waketime : ClockTimes, value : PwmValues]) /\ 0 \in Nat
    OBVIOUS
  <2> QED BY <1>1, <1>2, <2>1, Zenon DEF Pwm!TypeOK
<1>4. PwmQueue
  BY <1>2 DEF PwmQueue
<1>5. PwmLimit
  BY <1>2 DEF PwmLimit, Pwm!Active
<1> QED BY <1>3, <1>4, <1>5 DEF PwmInv

\* The PWM output starts as the abstract output does.
LEMMA PwmInitSafe == Pwm!Init => Pwm!Safe!Init
BY DEF Pwm!Init, Pwm!Safe!Init, Pwm!Active

\* A shutdown keeps the invariant and is a step of the abstract output.
LEMMA PwmShutdownInv ==
    ASSUME PwmInv, Pwm!Shutdown
    PROVE  PwmInv' /\ PwmSafe
<1> USE PwmConstants
<1>1. /\ pwm_is_shutdown' = TRUE /\ pwm_value' = PwmDefault /\ pwm_func' = "event"
      /\ pwm_timer' = FALSE /\ pwm_mq' = <<>> /\ pwm_adding' = {} /\ pwm_age' = 0
      /\ pwm_now' = pwm_now /\ pwm_waketime' = pwm_waketime
  BY DEF Pwm!Shutdown
<1>2. Pwm!TypeOK'
  <2>1. <<>> \in Seq([waketime : ClockTimes, value : PwmValues]) /\ 0 \in Nat
    OBVIOUS
  <2>2. Pwm!Clock' = Pwm!Clock
    BY DEF Pwm!Clock
  <2> QED BY <1>1, <2>1, <2>2, Zenon DEF PwmInv, Pwm!TypeOK
<1>3. PwmQueue'
  BY <1>1 DEF PwmQueue
<1>4. PwmLimit'
  BY <1>1 DEF PwmLimit, Pwm!Active
<1>5. PwmSafe
  BY <1>1 DEF PwmSafe, Pwm!Safe!Next, Pwm!Safe!Set, Pwm!Safe!vars, Pwm!Active
<1> QED BY <1>2, <1>3, <1>4, <1>5 DEF PwmInv

PwmUpdates == [waketime : ClockTimes, value : PwmValues]

\* The types in terms of ClockTimes, and of the updates one by one.
LEMMA PwmTypes ==
    ASSUME Pwm!TypeOK
    PROVE  /\ pwm_now \in ClockTimes /\ pwm_waketime \in ClockTimes /\ pwm_value \in PwmValues
           /\ pwm_mq \in Seq(PwmUpdates) /\ pwm_adding \subseteq ClockTimes
           /\ pwm_age \in Nat /\ pwm_timer \in BOOLEAN /\ pwm_func \in {"event", "end"}
           /\ Len(pwm_mq) \in Nat /\ DOMAIN pwm_mq = 1..Len(pwm_mq)
           /\ pwm_mq # <<>> <=> Len(pwm_mq) >= 1
           /\ \A i \in DOMAIN pwm_mq :
                pwm_mq[i].waketime \in ClockTimes /\ pwm_mq[i].value \in PwmValues
<1>1. /\ pwm_now \in ClockTimes /\ pwm_waketime \in ClockTimes /\ pwm_value \in PwmValues
      /\ pwm_mq \in Seq(PwmUpdates) /\ pwm_adding \subseteq ClockTimes
      /\ pwm_age \in Nat /\ pwm_timer \in BOOLEAN /\ pwm_func \in {"event", "end"}
  BY PwmConstants, Zenon DEF Pwm!TypeOK, PwmUpdates
<1>2. /\ Len(pwm_mq) \in Nat /\ DOMAIN pwm_mq = 1..Len(pwm_mq)
      /\ pwm_mq # <<>> <=> Len(pwm_mq) >= 1
      /\ \A i \in DOMAIN pwm_mq : pwm_mq[i] \in PwmUpdates
  BY <1>1
<1>3. \A i \in DOMAIN pwm_mq :
        pwm_mq[i].waketime \in ClockTimes /\ pwm_mq[i].value \in PwmValues
  BY <1>2 DEF PwmUpdates
<1> QED BY <1>1, <1>2, <1>3

\* So does pwm_event().
LEMMA PwmEventInv ==
    ASSUME PwmInv, Pwm!PwmEvent
    PROVE  PwmInv' /\ PwmSafe
<1> USE PwmConstants
<1> DEFINE m == Head(pwm_mq)
           rest == Tail(pwm_mq)
<1>t. Pwm!TypeOK /\ PwmQueue /\ PwmLimit
  BY DEF PwmInv
<1>y. /\ pwm_now \in ClockTimes /\ pwm_waketime \in ClockTimes /\ pwm_value \in PwmValues
      /\ pwm_mq \in Seq(PwmUpdates) /\ pwm_age \in Nat
      /\ Len(pwm_mq) \in Nat /\ DOMAIN pwm_mq = 1..Len(pwm_mq)
      /\ pwm_mq # <<>> <=> Len(pwm_mq) >= 1
      /\ \A i \in DOMAIN pwm_mq :
           pwm_mq[i].waketime \in ClockTimes /\ pwm_mq[i].value \in PwmValues
  BY <1>t, PwmTypes
<1>1. /\ pwm_timer /\ pwm_waketime = pwm_now /\ pwm_func = "event" /\ pwm_mq # <<>>
      /\ pwm_adding = {}
  BY <1>t DEF Pwm!PwmEvent, Pwm!Due, Pwm!TypeOK
<1>2. /\ m = pwm_mq[1] /\ m.value \in PwmValues /\ rest \in Seq(PwmUpdates)
      /\ Len(rest) = Len(pwm_mq) - 1 /\ DOMAIN rest = 1..Len(rest)
      /\ rest # <<>> <=> Len(rest) >= 1
      /\ \A i \in DOMAIN rest : i + 1 \in DOMAIN pwm_mq /\ rest[i] = pwm_mq[i + 1]
  BY <1>y, <1>1
<1>3. /\ \A i \in DOMAIN rest : Short(PwmLeft(rest[i].waketime)) /\ rest[i].waketime \in ClockTimes
      /\ \A i, j \in DOMAIN rest :
           i < j => PwmLeft(rest[i].waketime) <= PwmLeft(rest[j].waketime)
  <2>1. /\ \A i \in DOMAIN pwm_mq : Short(PwmLeft(pwm_mq[i].waketime))
        /\ \A i, j \in DOMAIN pwm_mq :
             i < j => PwmLeft(pwm_mq[i].waketime) <= PwmLeft(pwm_mq[j].waketime)
    BY <1>t, <1>1 DEF PwmQueue
  <2> HIDE DEF rest
  <2>2. \A i, j \in DOMAIN rest : i \in Int /\ j \in Int /\ (i < j => i + 1 < j + 1)
    BY <1>2, <1>y
  <2> QED BY <1>y, <1>2, <2>1, <2>2
<1>4. rest # <<>> => Head(rest) = rest[1] /\ 1 \in DOMAIN rest
  BY <1>2
<1>5. MaxDuration # 0 => /\ Pwm!Wrap(pwm_waketime + MaxDuration) \in ClockTimes
                         /\ PwmLeft(Pwm!Wrap(pwm_waketime + MaxDuration)) = MaxDuration
  BY <1>1, <1>y, GapLater DEF PwmLeft, Pwm!Wrap
<1> HIDE DEF m, rest
<1>c. Pwm!Clock' = Pwm!Clock /\ ClockTimes = Pwm!Clock
  BY DEF Pwm!Clock
<1>z. 0 \in Nat /\ PwmUpdates = [waketime : ClockTimes, value : PwmValues]
  BY DEF PwmUpdates
<1>s. pwm_age' = 0 => PwmSafe
  BY DEF PwmSafe, Pwm!Safe!Next, Pwm!Safe!Set, Pwm!Active
<1>6. CASE rest = <<>> /\ (m.value = PwmDefault \/ MaxDuration = 0) /\ pwm_timer' = FALSE
           /\ pwm_value' = m.value /\ pwm_mq' = rest /\ pwm_age' = 0
           /\ UNCHANGED <<pwm_now, pwm_adding, pwm_is_shutdown, pwm_func, pwm_waketime>>
  <2>1. Pwm!TypeOK'
    BY <1>t, <1>1, <1>2, <1>6, <1>c, <1>z, Zenon DEF Pwm!TypeOK
  <2>2. PwmQueue'
    BY <1>1, <1>6 DEF PwmQueue
  <2>3. PwmLimit'
    BY <1>1, <1>6 DEF PwmLimit, Pwm!Active
  <2> QED BY <1>s, <1>6, <2>1, <2>2, <2>3 DEF PwmInv
<1>7. CASE /\ rest = <<>> /\ m.value # PwmDefault /\ MaxDuration # 0
           /\ pwm_value' = m.value /\ pwm_mq' = rest /\ pwm_age' = 0 /\ pwm_func' = "end"
           /\ pwm_waketime' = Pwm!Wrap(pwm_waketime + MaxDuration)
           /\ UNCHANGED <<pwm_now, pwm_adding, pwm_is_shutdown, pwm_timer>>
  <2>1. Pwm!TypeOK'
    BY <1>t, <1>1, <1>2, <1>5, <1>7, <1>c, <1>z, Zenon DEF Pwm!TypeOK
  <2>2. PwmQueue'
    BY <1>1, <1>7 DEF PwmQueue
  <2>3. PwmLimit'
    BY <1>1, <1>5, <1>7 DEF PwmLimit, PwmLeft
  <2> QED BY <1>s, <1>7, <2>1, <2>2, <2>3 DEF PwmInv
<1>8. CASE rest # <<>> /\ Pwm!Shutdown
  BY <1>8, PwmShutdownInv
<1>9. CASE /\ rest # <<>> /\ ~Pwm!Exceeds(m, Head(rest).waketime)
           /\ pwm_value' = m.value /\ pwm_mq' = rest /\ pwm_age' = 0
           /\ pwm_waketime' = Head(rest).waketime
           /\ UNCHANGED <<pwm_now, pwm_adding, pwm_is_shutdown, pwm_func, pwm_timer>>
  <2>1. Pwm!TypeOK'
    BY <1>t, <1>1, <1>2, <1>3, <1>4, <1>9, <1>c, <1>z, Zenon DEF Pwm!TypeOK
  <2>2. PwmQueue'
    BY <1>1, <1>3, <1>4, <1>9 DEF PwmQueue, PwmLeft
  <2>3. pwm_timer' /\ pwm_func' = "event" /\ pwm_age' = 0
    BY <1>1, <1>9
  <2>4. ASSUME m.value # PwmDefault, MaxDuration # 0
        PROVE  PwmLeft(Head(rest).waketime) <= MaxDuration
    <3>1. ~Pwm!Before(Pwm!Wrap(pwm_waketime + MaxDuration), Head(rest).waketime)
      BY <1>9, <2>4 DEF Pwm!Exceeds
    <3>2. Short(PwmLeft(Head(rest).waketime)) /\ Head(rest).waketime \in ClockTimes
      BY <1>3, <1>4, <1>9
    <3>3. PwmLeft(Head(rest).waketime) \in Nat
      BY <1>y, <3>2, GapType DEF PwmLeft
    <3>4. ~(MaxDuration < PwmLeft(Head(rest).waketime))
      BY <1>y, <1>5, <2>4, <3>1, <3>2, GapBefore DEF PwmLeft, Pwm!Before, Pwm!Wrap
    <3> QED BY <3>3, <3>4
  <2>5. PwmLeft(Head(rest).waketime) \in Nat
    BY <1>y, <1>3, <1>4, <1>9, GapType DEF PwmLeft
  <2>6. PwmLimit'
    BY <1>9, <2>3, <2>4, <2>5 DEF PwmLimit, PwmLeft, Pwm!Active
  <2> QED BY <1>s, <1>9, <2>1, <2>2, <2>6 DEF PwmInv
<1> QED BY <1>6, <1>7, <1>8, <1>9 DEF Pwm!PwmEvent, m, rest

\* So does a tick of the clock.
LEMMA PwmTickInv ==
    ASSUME PwmInv, Pwm!Tick
    PROVE  PwmInv' /\ PwmSafe
<1> USE PwmConstants
<1>t. Pwm!TypeOK /\ PwmQueue /\ PwmLimit
  BY DEF PwmInv
<1>y. /\ pwm_now \in ClockTimes /\ pwm_waketime \in ClockTimes /\ pwm_value \in PwmValues
      /\ pwm_age \in Nat /\ (pwm_mq # <<>> <=> Len(pwm_mq) >= 1)
      /\ Len(pwm_mq) \in Nat /\ DOMAIN pwm_mq = 1..Len(pwm_mq)
      /\ \A i \in DOMAIN pwm_mq : pwm_mq[i].waketime \in ClockTimes
  BY <1>t, PwmTypes
<1>1. /\ pwm_timer => pwm_waketime # pwm_now
      /\ pwm_now' = (pwm_now + 1) % Width
      /\ pwm_age' = IF Pwm!Active /\ MaxDuration # 0 THEN pwm_age + 1 ELSE 0
      /\ pwm_value' = pwm_value /\ pwm_func' = pwm_func /\ pwm_timer' = pwm_timer
      /\ pwm_waketime' = pwm_waketime /\ pwm_mq' = pwm_mq /\ pwm_adding' = pwm_adding
      /\ pwm_is_shutdown' = pwm_is_shutdown
  BY DEF Pwm!Tick, Pwm!Due, Pwm!Wrap, Pwm!timerVars
<1>2. \A t \in ClockTimes : t # pwm_now => Gap(pwm_now', t) = Gap(pwm_now, t) - 1
  BY <1>y, <1>1, GapTick
<1>3. pwm_now' \in ClockTimes
  <2>1. 1 < Width
    BY WidthEven, WidthFacts
  <2> QED BY <1>y, <1>1, <2>1, GapLater
<1>4. pwm_timer => /\ Gap(pwm_now, pwm_waketime) \in Nat /\ Gap(pwm_now, pwm_waketime) >= 1
                   /\ Gap(pwm_now', pwm_waketime) = Gap(pwm_now, pwm_waketime) - 1
  BY <1>y, <1>1, <1>2, GapType
<1>5. ASSUME pwm_adding = {}, NEW i \in DOMAIN pwm_mq
      PROVE  /\ Gap(pwm_now, pwm_mq[i].waketime) \in Nat
             /\ Gap(pwm_now', pwm_mq[i].waketime) = Gap(pwm_now, pwm_mq[i].waketime) - 1
  <2>1. pwm_timer /\ pwm_waketime = pwm_mq[1].waketime /\ 1 \in DOMAIN pwm_mq /\ i >= 1
    BY <1>t, <1>y, <1>5 DEF Pwm!TypeOK, PwmQueue
  <2>2. Gap(pwm_now, pwm_mq[1].waketime) >= 1
    BY <1>4, <2>1
  <2>3. Gap(pwm_now, pwm_mq[1].waketime) <= Gap(pwm_now, pwm_mq[i].waketime)
    <3>1. CASE i = 1
      BY <1>4, <2>1, <3>1
    <3>2. CASE i # 1
      BY <1>t, <1>y, <1>5, <2>1, <3>2 DEF PwmQueue, PwmLeft
    <3> QED BY <3>1, <3>2
  <2>4. Gap(pwm_now, pwm_mq[i].waketime) \in Nat /\ Gap(pwm_now, pwm_mq[1].waketime) \in Nat
    BY <1>y, <2>1, GapType
  <2>5. pwm_mq[i].waketime # pwm_now
    BY <1>y, <2>2, <2>3, <2>4, GapType
  <2> QED BY <1>2, <1>y, <2>4, <2>5
<1>6. Pwm!TypeOK'
  <2>1. pwm_age' \in Nat
    BY <1>y, <1>1 DEF Pwm!Active
  <2>2. Pwm!Clock' = Pwm!Clock /\ ClockTimes = Pwm!Clock
    BY DEF Pwm!Clock
  <2> QED BY <1>t, <1>1, <1>3, <2>1, <2>2, Zenon DEF Pwm!TypeOK
<1>7. PwmQueue'
  <2>1. pwm_adding' = {} => \A i \in DOMAIN pwm_mq' : Short(PwmLeft(pwm_mq[i].waketime))'
    BY <1>t, <1>1, <1>5 DEF PwmQueue, PwmLeft, Short
  <2>2. pwm_adding' = {} => \A i, j \in DOMAIN pwm_mq' :
          i < j => (PwmLeft(pwm_mq[i].waketime) <= PwmLeft(pwm_mq[j].waketime))'
    BY <1>t, <1>1, <1>5 DEF PwmQueue, PwmLeft
  <2> QED BY <1>t, <1>1, <2>1, <2>2 DEF PwmQueue
<1>8. PwmLimit'
  <2>1. pwm_func' = "end" => pwm_timer' /\ Short(PwmLeft(pwm_waketime))'
    BY <1>t, <1>1, <1>4 DEF PwmLimit, PwmLeft, Short
  <2>2. ASSUME Pwm!Active', MaxDuration # 0
        PROVE  pwm_timer' /\ pwm_age' + PwmLeft(pwm_waketime)' <= MaxDuration
    <3>1. Pwm!Active
      BY <1>1, <2>2 DEF Pwm!Active
    <3>2. /\ pwm_timer /\ pwm_age + Gap(pwm_now, pwm_waketime) <= MaxDuration
          /\ pwm_age' = pwm_age + 1
      BY <1>t, <1>1, <2>2, <3>1 DEF PwmLimit, PwmLeft, Pwm!Active
    <3>3. PwmLeft(pwm_waketime)' = Gap(pwm_now, pwm_waketime) - 1
      BY <1>1, <1>4, <3>2 DEF PwmLeft
    <3> QED BY <1>y, <1>1, <1>4, <3>2, <3>3
  <2> QED BY <2>1, <2>2 DEF PwmLimit
<1>9. PwmSafe
  <2>1. CASE Pwm!Active /\ MaxDuration # 0
    <3>1. pwm_age < MaxDuration /\ pwm_age' = pwm_age + 1
      BY <1>t, <1>y, <1>1, <1>4, <2>1 DEF PwmLimit, PwmLeft, Pwm!Active
    <3>2. Pwm!Active' = Pwm!Active
      BY <1>1 DEF Pwm!Active
    <3> QED BY <2>1, <3>1, <3>2 DEF PwmSafe, Pwm!Safe!Next, Pwm!Safe!Tick
  <2>2. CASE ~(Pwm!Active /\ MaxDuration # 0)
    BY <1>1, <2>2 DEF PwmSafe, Pwm!Safe!Next, Pwm!Safe!Set, Pwm!Active
  <2> QED BY <2>1, <2>2
<1> QED BY <1>6, <1>7, <1>8, <1>9 DEF PwmInv

\* The order in which the host sends its updates keeps the queue in order.
LEMMA QueuePwmOutInv ==
    ASSUME PwmInv, NEW d \in -1..PwmAhead, NEW v \in PwmValues, Pwm!QueuePwmOut(d, v)
    PROVE  PwmInv' /\ PwmSafe
<1> USE PwmConstants
<1> DEFINE time == Pwm!Wrap(pwm_now + d)
           new == [waketime |-> time, value |-> v]
<1>t. Pwm!TypeOK /\ PwmQueue /\ PwmLimit
  BY DEF PwmInv
<1>y. /\ pwm_now \in ClockTimes /\ pwm_waketime \in ClockTimes /\ pwm_mq \in Seq(PwmUpdates)
      /\ pwm_mq # <<>> <=> Len(pwm_mq) >= 1
      /\ Len(pwm_mq) \in Nat /\ DOMAIN pwm_mq = 1..Len(pwm_mq)
      /\ \A i \in DOMAIN pwm_mq : pwm_mq[i].waketime \in ClockTimes
  BY <1>t, PwmTypes
<1>1. /\ pwm_adding = {} /\ (pwm_mq # <<>> => ~Pwm!Before(time, pwm_mq[Len(pwm_mq)].waketime))
      /\ pwm_mq' = Append(pwm_mq, new)
      /\ pwm_adding' = IF pwm_mq = <<>> THEN {time} ELSE {}
      /\ pwm_now' = pwm_now /\ pwm_value' = pwm_value /\ pwm_func' = pwm_func
      /\ pwm_timer' = pwm_timer /\ pwm_waketime' = pwm_waketime
      /\ pwm_is_shutdown' = pwm_is_shutdown /\ pwm_age' = pwm_age
  BY DEF Pwm!QueuePwmOut, Pwm!timerVars
<1>2. /\ time \in ClockTimes
      /\ d = -1 => PwmLeft(time) = Width - 1
      /\ d # -1 => PwmLeft(time) = d
  <2>1. CASE d = -1
    BY <1>y, <2>1, GapBack DEF PwmLeft, Pwm!Wrap
  <2>2. CASE d # -1
    <3>1. d \in Nat /\ d < Width
      BY <2>2
    <3> QED BY <1>y, <2>2, <3>1, GapLater DEF PwmLeft, Pwm!Wrap
  <2> QED BY <2>1, <2>2
<1> HIDE DEF time
<1>3. new \in PwmUpdates /\ new.waketime = time
  BY <1>2 DEF PwmUpdates
<1> HIDE DEF new
<1>4. /\ pwm_mq' \in Seq(PwmUpdates) /\ Len(pwm_mq') = Len(pwm_mq) + 1 /\ pwm_mq' # <<>>
      /\ DOMAIN pwm_mq' = 1..(Len(pwm_mq) + 1) /\ pwm_mq'[Len(pwm_mq) + 1] = new
      /\ \A i \in 1..Len(pwm_mq) : pwm_mq'[i] = pwm_mq[i]
  BY <1>y, <1>1, <1>3
<1>5. Pwm!TypeOK'
  <2>1. Pwm!Clock' = Pwm!Clock /\ ClockTimes = Pwm!Clock
    BY DEF Pwm!Clock
  <2>2. PwmUpdates = [waketime : ClockTimes, value : PwmValues]
    BY DEF PwmUpdates
  <2>3. pwm_adding' \subseteq ClockTimes
    BY <1>1, <1>2
  <2>4. (pwm_timer /\ pwm_func = "event" => pwm_mq # <<>>)
    BY <1>t DEF Pwm!TypeOK
  <2>5. pwm_mq # <<>> => pwm_adding' = {} /\ pwm_timer /\ pwm_func = "event"
    BY <1>t, <1>1 DEF Pwm!TypeOK
  <2>6. pwm_adding' = {} => pwm_mq # <<>>
    BY <1>1
  <2> QED BY <1>t, <1>1, <1>4, <2>1, <2>2, <2>3, <2>4, <2>5, <2>6, Zenon DEF Pwm!TypeOK
<1>6. PwmQueue'
  <2>1. CASE pwm_mq = <<>>
    <3>1. Len(pwm_mq) = 0
      BY <2>1, <1>y
    <3> QED BY <1>1, <1>3, <1>4, <2>1, <3>1 DEF PwmQueue
  <2>2. CASE pwm_mq # <<>>
    <3> DEFINE k == Len(pwm_mq)
    <3>1. /\ k \in DOMAIN pwm_mq /\ Short(PwmLeft(pwm_mq[k].waketime))
          /\ \A i \in DOMAIN pwm_mq : /\ Short(PwmLeft(pwm_mq[i].waketime))
                                      /\ PwmLeft(pwm_mq[i].waketime) <= PwmLeft(pwm_mq[k].waketime)
      <4>1. k \in DOMAIN pwm_mq
        BY <1>y, <2>2
      <4>2. PwmLeft(pwm_mq[k].waketime) <= PwmLeft(pwm_mq[k].waketime)
        BY <1>y, <4>1, GapType DEF PwmLeft
      <4> QED BY <1>t, <1>y, <1>1, <4>1, <4>2 DEF PwmQueue
    <3>2. PwmLeft(pwm_mq[k].waketime) \in Nat
      BY <1>y, <3>1, GapType DEF PwmLeft
    <3>3. d # -1
      BY <1>y, <1>1, <1>2, <2>2, <3>1, BackBefore DEF PwmLeft, Pwm!Before, Pwm!Wrap
    <3>4. PwmLeft(time) = d /\ d \in Nat /\ Short(PwmLeft(time))
      BY <1>2, <3>3 DEF Short
    <3>5. PwmLeft(pwm_mq[k].waketime) <= PwmLeft(time)
      <4>1. ~(PwmLeft(time) < PwmLeft(pwm_mq[k].waketime))
        BY <1>y, <1>1, <1>2, <2>2, <3>1, <3>4, GapBefore DEF PwmLeft, Pwm!Before, Pwm!Wrap
      <4> QED BY <3>2, <3>4, <4>1
    <3>6. \A i \in DOMAIN pwm_mq : /\ PwmLeft(pwm_mq[i].waketime) \in Nat
                                   /\ PwmLeft(pwm_mq[i].waketime) <= PwmLeft(time)
      BY <1>y, <3>1, <3>2, <3>4, <3>5, GapType DEF PwmLeft
    <3>7. \A i \in DOMAIN pwm_mq' : Short(PwmLeft(pwm_mq'[i].waketime))
      BY <1>y, <1>3, <1>4, <3>1, <3>4
    <3>8. \A i, j \in DOMAIN pwm_mq' :
            i < j => PwmLeft(pwm_mq'[i].waketime) <= PwmLeft(pwm_mq'[j].waketime)
      <4> SUFFICES ASSUME NEW i \in DOMAIN pwm_mq', NEW j \in DOMAIN pwm_mq', i < j
                   PROVE  PwmLeft(pwm_mq'[i].waketime) <= PwmLeft(pwm_mq'[j].waketime)
        OBVIOUS
      <4>1. i \in DOMAIN pwm_mq /\ pwm_mq'[i] = pwm_mq[i]
        BY <1>y, <1>4
      <4>2. CASE j = Len(pwm_mq) + 1
        BY <1>3, <1>4, <3>6, <4>1, <4>2
      <4>3. CASE j # Len(pwm_mq) + 1
        <5>1. j \in DOMAIN pwm_mq /\ pwm_mq'[j] = pwm_mq[j]
          BY <1>y, <1>4, <4>3
        <5> QED BY <1>t, <1>1, <4>1, <5>1 DEF PwmQueue
      <4> QED BY <4>2, <4>3
    <3>9. pwm_waketime = pwm_mq'[1].waketime
      BY <1>t, <1>y, <1>1, <1>4, <2>2 DEF PwmQueue
    <3> QED BY <1>1, <2>2, <3>7, <3>8, <3>9 DEF PwmQueue, PwmLeft
  <2> QED BY <2>1, <2>2
<1>7. PwmLimit'
  BY <1>t, <1>1 DEF PwmLimit, PwmLeft, Pwm!Active
<1>8. PwmSafe
  BY <1>1 DEF PwmSafe, Pwm!Safe!vars, Pwm!Active
<1> QED BY <1>5, <1>6, <1>7, <1>8 DEF PwmInv

\* The rest of the command: the limit that has run until then holds for the update.
LEMMA QueueTimerInv ==
    ASSUME PwmInv, Pwm!QueueTimer
    PROVE  PwmInv' /\ PwmSafe
<1> USE PwmConstants
<1>t. Pwm!TypeOK /\ PwmQueue /\ PwmLimit
  BY DEF PwmInv
<1>y. /\ pwm_now \in ClockTimes /\ pwm_waketime \in ClockTimes /\ pwm_mq \in Seq(PwmUpdates)
      /\ (pwm_mq # <<>> <=> Len(pwm_mq) >= 1) /\ pwm_age \in Nat
      /\ Len(pwm_mq) \in Nat /\ DOMAIN pwm_mq = 1..Len(pwm_mq)
      /\ \A i \in DOMAIN pwm_mq : pwm_mq[i].waketime \in ClockTimes
  BY <1>t, PwmTypes
<1>0. PICK time \in pwm_adding :
        IF Pwm!Late(time) \/ Pwm!Before(time, pwm_now)
        THEN Pwm!Shutdown
        ELSE /\ pwm_func' = "event" /\ pwm_timer' = TRUE /\ pwm_waketime' = time
             /\ pwm_adding' = {}
             /\ UNCHANGED <<pwm_now, pwm_value, pwm_mq, pwm_is_shutdown, pwm_age>>
  BY DEF Pwm!QueueTimer
<1>1. CASE Pwm!Late(time) \/ Pwm!Before(time, pwm_now)
  BY <1>0, <1>1, PwmShutdownInv
<1>2. CASE ~(Pwm!Late(time) \/ Pwm!Before(time, pwm_now))
  <2>1. /\ pwm_func' = "event" /\ pwm_timer' = TRUE /\ pwm_waketime' = time
        /\ pwm_adding' = {} /\ pwm_now' = pwm_now /\ pwm_value' = pwm_value
        /\ pwm_mq' = pwm_mq /\ pwm_is_shutdown' = pwm_is_shutdown /\ pwm_age' = pwm_age
    BY <1>0, <1>2
  <2>2. /\ pwm_mq # <<>> /\ DOMAIN pwm_mq = {1} /\ time = pwm_mq[1].waketime /\ time \in ClockTimes
    <3>1. Len(pwm_mq) = 1 /\ pwm_adding = {pwm_mq[1].waketime}
      BY <1>t DEF PwmQueue
    <3>2. 1..Len(pwm_mq) = {1} /\ time = pwm_mq[1].waketime
      BY <3>1
    <3> QED BY <1>y, <3>1, <3>2
  <2>3. Short(PwmLeft(time)) /\ PwmLeft(time) \in Nat
    <3>1. ~Pwm!Before(time, pwm_now)
      BY <1>2
    <3> QED BY <1>y, <2>2, <3>1, GapPast, GapType DEF PwmLeft, Pwm!Before, Pwm!Wrap
  <2>4. Pwm!TypeOK'
    <3>1. Pwm!Clock' = Pwm!Clock /\ ClockTimes = Pwm!Clock
      BY DEF Pwm!Clock
    <3> QED BY <1>t, <2>1, <2>2, <3>1, Zenon DEF Pwm!TypeOK
  <2>5. PwmQueue'
    BY <2>1, <2>2, <2>3 DEF PwmQueue, PwmLeft
  <2>6. ASSUME Pwm!Active, MaxDuration # 0
        PROVE  PwmLeft(time) <= PwmLeft(pwm_waketime)
    <3>1. pwm_timer /\ pwm_func = "end" /\ Short(PwmLeft(pwm_waketime))
      BY <1>t, <1>y, <2>6 DEF PwmLimit, Pwm!TypeOK
    <3>2. ~Pwm!Before(pwm_waketime, time)
      BY <1>2, <3>1 DEF Pwm!Late
    <3>3. ~(PwmLeft(pwm_waketime) < PwmLeft(time))
      BY <1>y, <2>2, <2>3, <3>1, <3>2, GapBefore DEF PwmLeft, Pwm!Before, Pwm!Wrap
    <3>4. PwmLeft(pwm_waketime) \in Nat
      BY <1>y, GapType DEF PwmLeft
    <3> QED BY <2>3, <3>3, <3>4
  <2>7. PwmLeft(pwm_waketime) \in Nat
    BY <1>y, GapType DEF PwmLeft
  <2>8. PwmLimit'
    <3>1. ASSUME Pwm!Active', MaxDuration # 0
          PROVE  pwm_age' + PwmLeft(pwm_waketime)' <= MaxDuration
      <4>1. Pwm!Active
        BY <2>1, <3>1 DEF Pwm!Active
      <4>2. pwm_age + PwmLeft(pwm_waketime) <= MaxDuration
        BY <1>t, <3>1, <4>1 DEF PwmLimit
      <4>3. PwmLeft(time) <= PwmLeft(pwm_waketime)
        BY <2>6, <3>1, <4>1
      <4>4. PwmLeft(pwm_waketime)' = PwmLeft(time)
        BY <2>1 DEF PwmLeft
      <4> QED BY <1>y, <2>1, <2>3, <2>7, <4>2, <4>3, <4>4
    <3> QED BY <2>1, <3>1 DEF PwmLimit
  <2>9. PwmSafe
    BY <2>1 DEF PwmSafe, Pwm!Safe!vars, Pwm!Active
  <2> QED BY <2>4, <2>5, <2>8, <2>9 DEF PwmInv
<1> QED BY <1>1, <1>2

\* So does every step of the PWM output.
LEMMA PwmStepInv ==
    ASSUME PwmInv, [Pwm!Next]_(Pwm!vars)
    PROVE  PwmInv' /\ PwmSafe
<1>1. CASE UNCHANGED Pwm!vars
  <2>1. /\ pwm_now' = pwm_now /\ pwm_value' = pwm_value /\ pwm_func' = pwm_func
        /\ pwm_timer' = pwm_timer /\ pwm_waketime' = pwm_waketime /\ pwm_mq' = pwm_mq
        /\ pwm_adding' = pwm_adding /\ pwm_is_shutdown' = pwm_is_shutdown
        /\ pwm_age' = pwm_age
    BY <1>1 DEF Pwm!vars, Pwm!timerVars
  <2>2. PwmInv'
    BY <2>1, Zenon DEF PwmInv, Pwm!TypeOK, Pwm!Clock, PwmQueue, PwmLimit, PwmLeft, Pwm!Active
  <2> QED BY <2>1, <2>2 DEF PwmSafe, Pwm!Safe!vars, Pwm!Active
<1>2. CASE Pwm!PwmEvent
  BY <1>2, PwmEventInv
<1>3. CASE Pwm!PwmEndEvent
  BY <1>3, PwmShutdownInv DEF Pwm!PwmEndEvent
<1>4. CASE \E d \in -1..PwmAhead, v \in PwmValues : Pwm!QueuePwmOut(d, v)
  BY <1>4, QueuePwmOutInv
<1>5. CASE Pwm!QueueTimer
  BY <1>5, QueueTimerInv
<1>6. CASE Pwm!EmergencyStop
  BY <1>6, PwmShutdownInv DEF Pwm!EmergencyStop
<1>7. CASE Pwm!ClearShutdown
  <2>1. /\ pwm_now' = pwm_now /\ pwm_value' = pwm_value /\ pwm_func' = pwm_func
        /\ pwm_timer' = pwm_timer /\ pwm_waketime' = pwm_waketime /\ pwm_mq' = pwm_mq
        /\ pwm_adding' = pwm_adding /\ pwm_is_shutdown' = FALSE /\ pwm_age' = pwm_age
    BY <1>7 DEF Pwm!ClearShutdown, Pwm!timerVars
  <2>2. PwmInv'
    BY <2>1, Zenon DEF PwmInv, Pwm!TypeOK, Pwm!Clock, PwmQueue, PwmLimit, PwmLeft, Pwm!Active
  <2> QED BY <2>1, <2>2 DEF PwmSafe, Pwm!Safe!vars, Pwm!Active
<1>8. CASE Pwm!Tick
  BY <1>8, PwmTickInv
<1> QED BY <1>1, <1>2, <1>3, <1>4, <1>5, <1>6, <1>7, <1>8 DEF Pwm!Next

-----------------------------------------------------------------------------
(* The digital output                                                       *)

PinLeft(t) == Gap(pin_now, t)

\* No update and no limit is farther away.
PinFar == MaxDuration + PinAhead

PinUpdates == [waketime : ClockTimes, on : OnTicks]

PinTypes ==
    /\ pin_now \in ClockTimes /\ pin_end_time \in ClockTimes /\ pin_waketime \in ClockTimes
    /\ pin \in BOOLEAN /\ pin_toggling \in BOOLEAN /\ pin_check_end \in BOOLEAN
    /\ pin_timer \in {"none", "load", "toggle"}
    /\ pin_on_duration \in Nat /\ pin_off_duration \in Nat
    /\ pin_cycle_time \in Cycles \cup {0} /\ pin_mq \in Seq(PinUpdates)
    /\ pin_is_shutdown \in BOOLEAN /\ pin_age \in Nat

\* The timer fits the flags: a software PWM has one, digital_toggle_event() finds the
\* durations of a cycle, digital_load_event() comes at end_time, and no timer is later
\* than end_time.
PinTimer ==
    /\ pin_toggling => pin_timer # "none" /\ Short(PinFar + 1)
    /\ pin_timer = "toggle" =>
         /\ pin_toggling /\ pin_on_duration >= 1 /\ pin_off_duration >= 1
         /\ pin_on_duration + pin_off_duration \in Cycles
         /\ PinLeft(pin_waketime) < pin_on_duration + pin_off_duration
    /\ pin_timer = "load" => pin_check_end /\ pin_waketime = pin_end_time
    /\ pin_check_end =>
         /\ pin_timer # "none" /\ PinLeft(pin_waketime) <= PinLeft(pin_end_time)
         /\ PinLeft(pin_end_time) <= PinFar

\* The updates are in the order of their times, and end_time is that of the first.
PinQueue ==
    /\ pin_mq # <<>> => pin_check_end /\ pin_end_time = pin_mq[1].waketime
    /\ \A i \in DOMAIN pin_mq : PinLeft(pin_mq[i].waketime) <= PinAhead
    /\ \A i, j \in DOMAIN pin_mq :
         i < j => PinLeft(pin_mq[i].waketime) <= PinLeft(pin_mq[j].waketime)

\* While the output is limited and active, end_time comes in time.
PinLimit ==
    Pin!Active /\ MaxDuration # 0 =>
        pin_check_end /\ pin_age + PinLeft(pin_end_time) <= MaxDuration

PinInv == PinTypes /\ PinTimer /\ PinQueue /\ PinLimit

\* A step of the output as a step of SafeOutput.
PinSafe == [Pin!Safe!Next]_(Pin!Safe!vars)

\* What the assumptions say of the constants of a digital output.
LEMMA PinConstants ==
    /\ MaxDuration \in Nat /\ PinAhead \in Nat /\ PinFar \in Nat
    /\ Short(MaxDuration) /\ Short(PinAhead) /\ Short(PinFar)
    /\ MaxDuration < Width /\ PinAhead < Width /\ MaxDuration <= PinFar /\ PinAhead <= PinFar
    /\ Default \in BOOLEAN /\ Cycles \subseteq Nat \ {0} /\ OnTicks \subseteq Nat
    /\ \A c \in Cycles : c < Width /\ Short(c) /\ Short(PinFar + c)
    /\ Width \in Nat \ {0} /\ Pin!Clock = ClockTimes
BY PinsAssumption, WidthFacts DEF Pin!OutAssumption, Short, Pin!Clock, ClockTimes, PinFar

\* What the invariant says of the times: none is far away.
LEMMA PinTimes ==
    ASSUME PinTypes, PinTimer, PinQueue
    PROVE  /\ PinLeft(pin_waketime) \in Nat /\ PinLeft(pin_end_time) \in Nat
           /\ pin_timer # "none" => Short(PinLeft(pin_waketime))
           /\ pin_toggling => Short(PinLeft(pin_waketime) + 1)
           /\ pin_check_end => Short(PinLeft(pin_end_time))
           /\ Len(pin_mq) \in Nat /\ DOMAIN pin_mq = 1..Len(pin_mq)
           /\ pin_mq # <<>> <=> Len(pin_mq) >= 1
           /\ \A i \in DOMAIN pin_mq :
                /\ pin_mq[i].waketime \in ClockTimes /\ pin_mq[i].on \in Nat
                /\ PinLeft(pin_mq[i].waketime) \in Nat
                /\ Short(PinLeft(pin_mq[i].waketime))
<1> USE PinConstants
<1>1. PinLeft(pin_waketime) \in Nat /\ PinLeft(pin_end_time) \in Nat
  BY GapType DEF PinTypes, PinLeft
<1>2. /\ Len(pin_mq) \in Nat /\ DOMAIN pin_mq = 1..Len(pin_mq)
      /\ pin_mq # <<>> <=> Len(pin_mq) >= 1
      /\ \A i \in DOMAIN pin_mq : pin_mq[i] \in PinUpdates
  <2>1. pin_mq \in Seq(PinUpdates)
    BY DEF PinTypes
  <2> QED BY <2>1
<1>3. \A i \in DOMAIN pin_mq : pin_mq[i].waketime \in ClockTimes /\ pin_mq[i].on \in Nat
  BY <1>2 DEF PinUpdates
<1>4. \A i \in DOMAIN pin_mq : PinLeft(pin_mq[i].waketime) \in Nat
  BY <1>3, GapType DEF PinTypes, PinLeft
<1>5. \A i \in DOMAIN pin_mq : Short(PinLeft(pin_mq[i].waketime))
  BY <1>4 DEF PinQueue, Short
<1>6. pin_check_end => Short(PinLeft(pin_end_time))
  BY <1>1 DEF PinTimer, Short
<1>7. CASE pin_timer = "none"
  BY <1>1, <1>2, <1>3, <1>4, <1>5, <1>6, <1>7 DEF PinTimer
<1>8. CASE pin_timer = "load"
  <2>1. Short(PinLeft(pin_waketime)) /\ PinLeft(pin_waketime) <= PinFar
    BY <1>6, <1>8 DEF PinTimer
  <2>2. pin_toggling => Short(PinLeft(pin_waketime) + 1)
    BY <1>1, <1>8, <2>1 DEF PinTimer, Short
  <2> QED BY <1>1, <1>2, <1>3, <1>4, <1>5, <1>6, <2>1, <2>2
<1>9. CASE pin_timer = "toggle"
  <2> DEFINE c == pin_on_duration + pin_off_duration
  <2>1. c \in Cycles /\ PinLeft(pin_waketime) < c
    BY <1>9 DEF PinTimer
  <2>2. c \in Nat /\ Short(c)
    BY <2>1
  <2> HIDE DEF c
  <2>3. Short(PinLeft(pin_waketime)) /\ Short(PinLeft(pin_waketime) + 1)
    BY <1>1, <2>1, <2>2 DEF Short
  <2> QED BY <1>1, <1>2, <1>3, <1>4, <1>5, <1>6, <2>3
<1> QED BY <1>7, <1>8, <1>9 DEF PinTypes

\* The invariant says what is checked: the types, and that updates are on time.
LEMMA PinOnTime == PinInv => Pin!TypeOK /\ Pin!UpdatesOnTime
<1> SUFFICES ASSUME PinInv PROVE Pin!TypeOK /\ Pin!UpdatesOnTime
  OBVIOUS
<1> USE PinConstants
<1>t. PinTypes /\ PinTimer /\ PinQueue
  BY DEF PinInv
<1>y. /\ PinLeft(pin_waketime) \in Nat /\ PinLeft(pin_end_time) \in Nat
      /\ pin_timer # "none" => Short(PinLeft(pin_waketime))
      /\ DOMAIN pin_mq = 1..Len(pin_mq) /\ Len(pin_mq) \in Nat
      /\ pin_mq # <<>> <=> Len(pin_mq) >= 1
      /\ \A i \in DOMAIN pin_mq :
           /\ pin_mq[i].waketime \in ClockTimes /\ PinLeft(pin_mq[i].waketime) \in Nat
           /\ Short(PinLeft(pin_mq[i].waketime))
  BY <1>t, PinTimes
<1>1. pin_timer # "none" => ~Pin!Before(pin_waketime, pin_now)
  BY <1>t, <1>y, GapPast DEF Pin!Before, Pin!Wrap, PinTypes, PinLeft
<1>2. pin_cycle_time \in Nat
  BY <1>t DEF PinTypes
<1>3. Pin!TypeOK
  <2>1. PinUpdates = [waketime : ClockTimes, on : OnTicks]
    BY DEF PinUpdates
  <2> QED BY <1>t, <1>1, <1>2, <2>1, Zenon DEF PinTypes, Pin!TypeOK
<1>4. ASSUME ~Pin!Due, NEW i \in DOMAIN pin_mq
      PROVE  Pin!Before(pin_now, pin_mq[i].waketime)
  <2>1. 1 \in DOMAIN pin_mq /\ pin_mq # <<>> /\ i >= 1
    BY <1>y
  <2>2. pin_timer # "none" /\ pin_waketime # pin_now /\ pin_check_end
    BY <1>t, <1>4, <2>1 DEF Pin!Due, PinQueue, PinTimer
  <2>3. 1 <= PinLeft(pin_waketime)
    BY <1>t, <1>y, <2>2, GapType DEF PinTypes, PinLeft
  <2>4. PinLeft(pin_waketime) <= PinLeft(pin_mq[1].waketime)
    BY <1>t, <2>1, <2>2 DEF PinQueue, PinTimer
  <2>5. PinLeft(pin_mq[1].waketime) <= PinLeft(pin_mq[i].waketime)
    <3>1. CASE i = 1
      BY <1>y, <2>1, <3>1
    <3>2. CASE i # 1
      BY <1>t, <1>y, <2>1, <3>2 DEF PinQueue
    <3> QED BY <3>1, <3>2
  <2>6. 1 <= PinLeft(pin_mq[i].waketime)
    BY <1>y, <2>1, <2>3, <2>4, <2>5
  <2>7. pin_now \in ClockTimes /\ Gap(pin_now, pin_now) = 0 /\ Short(Gap(pin_now, pin_now))
    BY <1>t, GapType DEF PinTypes, Short
  <2> QED BY <1>y, <2>6, <2>7, GapBefore DEF Pin!Before, Pin!Wrap, PinLeft
<1> QED BY <1>3, <1>4 DEF Pin!UpdatesOnTime

\* The invariant of the digital output holds at the start.
LEMMA PinInitInv == Pin!Init => PinInv
<1> SUFFICES ASSUME Pin!Init PROVE PinInv
  OBVIOUS
<1> USE PinConstants
<1>1. pin_now \in ClockTimes /\ 0 \in ClockTimes /\ 0 \in Nat /\ <<>> \in Seq(PinUpdates)
  BY DEF Pin!Init, ClockTimes
<1>2. /\ pin \in BOOLEAN /\ (MaxDuration # 0 => pin = Default)
      /\ pin_toggling = FALSE /\ pin_check_end = FALSE /\ pin_end_time = 0
      /\ pin_timer = "none" /\ pin_waketime = 0 /\ pin_on_duration = 0
      /\ pin_off_duration = 0 /\ pin_cycle_time = 0 /\ pin_mq = <<>>
      /\ pin_is_shutdown = FALSE /\ pin_age = 0
  BY DEF Pin!Init
<1>3. PinTypes
  BY <1>1, <1>2, Zenon DEF PinTypes
<1>4. PinTimer /\ PinQueue
  BY <1>2 DEF PinTimer, PinQueue
<1>5. PinLimit
  BY <1>2 DEF PinLimit, Pin!Active
<1> QED BY <1>3, <1>4, <1>5 DEF PinInv

\* The digital output starts as the abstract output does.
LEMMA PinInitSafe == Pin!Init => Pin!Safe!Init
BY DEF Pin!Init, Pin!Safe!Init, Pin!Active

\* A shutdown keeps the invariant and is a step of the abstract output.
LEMMA PinShutdownInv ==
    ASSUME PinInv, Pin!Shutdown
    PROVE  PinInv' /\ PinSafe
<1> USE PinConstants
<1>1. /\ pin_is_shutdown' = TRUE /\ pin' = Default /\ pin_toggling' = FALSE
      /\ pin_check_end' = FALSE /\ pin_timer' = "none" /\ pin_mq' = <<>> /\ pin_age' = 0
      /\ pin_now' = pin_now /\ pin_end_time' = pin_end_time /\ pin_waketime' = pin_waketime
      /\ pin_on_duration' = pin_on_duration /\ pin_off_duration' = pin_off_duration
      /\ pin_cycle_time' = pin_cycle_time
  BY DEF Pin!Shutdown, Pin!pwmVars
<1>2. PinTypes'
  <2>1. <<>> \in Seq(PinUpdates) /\ 0 \in Nat
    OBVIOUS
  <2>2. PinUpdates' = PinUpdates /\ ClockTimes' = ClockTimes
    BY DEF PinUpdates, ClockTimes
  <2> QED BY <1>1, <2>1, <2>2, Zenon DEF PinInv, PinTypes
<1>3. PinTimer' /\ PinQueue'
  BY <1>1 DEF PinTimer, PinQueue
<1>4. PinLimit'
  BY <1>1 DEF PinLimit, Pin!Active
<1>5. PinSafe
  BY <1>1 DEF PinSafe, Pin!Safe!Next, Pin!Safe!Set, Pin!Active
<1> QED BY <1>2, <1>3, <1>4, <1>5 DEF PinInv

\* So does digital_toggle_event().
LEMMA ToggleEventInv ==
    ASSUME PinInv, Pin!ToggleEvent
    PROVE  PinInv' /\ PinSafe
<1> USE PinConstants
<1> DEFINE dur == IF pin THEN pin_off_duration ELSE pin_on_duration
           c == pin_on_duration + pin_off_duration
           next == Pin!Wrap(pin_waketime + dur)
<1>t. PinTypes /\ PinTimer /\ PinQueue /\ PinLimit
  BY DEF PinInv
<1>y. /\ PinLeft(pin_end_time) \in Nat /\ (pin_check_end => Short(PinLeft(pin_end_time)))
      /\ pin_now \in ClockTimes /\ pin_end_time \in ClockTimes
  BY <1>t, PinTimes DEF PinTypes
<1>1. /\ pin_timer = "toggle" /\ pin_waketime = pin_now /\ pin_toggling
      /\ c \in Cycles /\ c \in Nat /\ Short(c) /\ c < Width
      /\ dur \in Nat /\ dur < c
  BY <1>t DEF Pin!ToggleEvent, Pin!Due, PinTimer, PinTypes
<1>2. /\ pin' = ~pin /\ pin_now' = pin_now /\ pin_toggling' = pin_toggling
      /\ pin_check_end' = pin_check_end /\ pin_end_time' = pin_end_time
      /\ pin_on_duration' = pin_on_duration /\ pin_off_duration' = pin_off_duration
      /\ pin_cycle_time' = pin_cycle_time /\ pin_mq' = pin_mq
      /\ pin_is_shutdown' = pin_is_shutdown /\ pin_age' = pin_age
      /\ IF pin_check_end /\ ~Pin!Before(next, pin_end_time)
         THEN pin_timer' = "load" /\ pin_waketime' = pin_end_time
         ELSE pin_timer' = "toggle" /\ pin_waketime' = next
  BY DEF Pin!ToggleEvent, Pin!AddTimer, Pin!pwmVars
<1> HIDE DEF dur
<1>3. next \in ClockTimes /\ PinLeft(next) = dur /\ Short(PinLeft(next))
  <2>1. dur < Width /\ Short(dur)
    BY <1>1 DEF Short
  <2> QED BY <1>y, <1>1, <2>1, GapLater DEF PinLeft, Pin!Wrap
<1> HIDE DEF next, c
<1>4. pin_check_end /\ Pin!Before(next, pin_end_time) => PinLeft(next) < PinLeft(pin_end_time)
  BY <1>y, <1>3, GapBefore DEF PinLeft, Pin!Before, Pin!Wrap
<1>5. PinTypes'
  <2>1. pin_waketime' \in ClockTimes /\ pin_timer' \in {"none", "load", "toggle"}
    BY <1>y, <1>2, <1>3
  <2>2. PinUpdates' = PinUpdates /\ ClockTimes' = ClockTimes /\ (~pin) \in BOOLEAN
    BY DEF PinUpdates, ClockTimes
  <2> QED BY <1>t, <1>2, <2>1, <2>2, Zenon DEF PinTypes
<1>6. PinTimer'
  <2>1. CASE pin_check_end /\ ~Pin!Before(next, pin_end_time)
    <3>1. pin_timer' = "load" /\ pin_waketime' = pin_end_time
      BY <1>2, <2>1
    <3> QED BY <1>t, <1>y, <1>2, <2>1, <3>1 DEF PinTimer, PinLeft
  <2>2. CASE ~(pin_check_end /\ ~Pin!Before(next, pin_end_time))
    <3>1. pin_timer' = "toggle" /\ pin_waketime' = next
      BY <1>2, <2>2
    <3>2. PinLeft(next) < pin_on_duration + pin_off_duration
      BY <1>1, <1>3 DEF c
    <3>3. pin_check_end => PinLeft(next) <= PinLeft(pin_end_time)
      BY <1>y, <1>1, <1>3, <1>4, <2>2
    <3> QED BY <1>t, <1>1, <1>2, <3>1, <3>2, <3>3 DEF PinTimer, PinLeft
  <2> QED BY <2>1, <2>2
<1>7. PinQueue'
  BY <1>t, <1>2 DEF PinQueue, PinLeft
<1>8. PinLimit'
  BY <1>t, <1>1, <1>2 DEF PinLimit, PinLeft, Pin!Active
<1>9. PinSafe
  <2>1. Pin!Active /\ Pin!Active'
    BY <1>1, <1>2 DEF Pin!Active
  <2> QED BY <1>2, <2>1 DEF PinSafe, Pin!Safe!vars, Pin!Active
<1> QED BY <1>5, <1>6, <1>7, <1>8, <1>9 DEF PinInv

\* digital_load_event(): a setting that is limited ends before its limit, with the
\* next update or with the timer of the limit.
LEMMA LoadEventInv ==
    ASSUME PinInv, Pin!LoadEvent
    PROVE  PinInv' /\ PinSafe
<1> USE PinConstants
<1> DEFINE m == Head(pin_mq)
           rest == Tail(pin_mq)
           limit == Pin!Wrap(pin_waketime + MaxDuration)
           steady == Pin!Steady(m.on)
           limited == Pin!Limited(m.on)
           check == limited \/ rest # <<>>
           end == IF rest # <<>> THEN Head(rest).waketime ELSE IF limited THEN limit ELSE 0
           next == Pin!Wrap(pin_waketime + m.on)
<1>t. PinTypes /\ PinTimer /\ PinQueue /\ PinLimit
  BY DEF PinInv
<1>y. /\ pin_now \in ClockTimes /\ pin_mq \in Seq(PinUpdates)
      /\ Len(pin_mq) \in Nat /\ DOMAIN pin_mq = 1..Len(pin_mq)
      /\ pin_mq # <<>> <=> Len(pin_mq) >= 1
      /\ \A i \in DOMAIN pin_mq :
           /\ pin_mq[i].waketime \in ClockTimes /\ pin_mq[i].on \in Nat
           /\ PinLeft(pin_mq[i].waketime) \in Nat
  BY <1>t, PinTimes DEF PinTypes
<1>1. pin_timer = "load" /\ pin_waketime = pin_now
  BY DEF Pin!LoadEvent, Pin!Due
<1>2. CASE pin_mq = <<>>
  BY <1>2, PinShutdownInv DEF Pin!LoadEvent
<1>3. CASE /\ pin_mq # <<>> /\ rest # <<>> /\ limited
           /\ Pin!Before(limit, Head(rest).waketime)
  BY <1>3, PinShutdownInv DEF Pin!LoadEvent, Pin!LoadUpdate
<1>4. CASE /\ pin_mq # <<>>
           /\ ~(rest # <<>> /\ limited /\ Pin!Before(limit, Head(rest).waketime))
  <2>1. /\ pin' = (m.on # 0) /\ pin_mq' = rest /\ pin_age' = 0
        /\ pin_toggling' = ~steady /\ pin_check_end' = check /\ pin_end_time' = end
        /\ pin_now' = pin_now /\ pin_is_shutdown' = pin_is_shutdown
        /\ pin_cycle_time' = pin_cycle_time
        /\ \/ /\ steady /\ ~check /\ pin_timer' = "none" /\ pin_waketime' = pin_waketime
              /\ pin_on_duration' = pin_on_duration /\ pin_off_duration' = pin_off_duration
           \/ /\ check /\ (steady \/ ~Pin!Before(next, end))
              /\ pin_timer' = "load" /\ pin_waketime' = end
              /\ pin_on_duration' = pin_on_duration /\ pin_off_duration' = pin_off_duration
           \/ /\ ~steady /\ (check => Pin!Before(next, end))
              /\ pin_timer' = "toggle" /\ pin_waketime' = next
              /\ pin_on_duration' = m.on /\ pin_off_duration' = pin_cycle_time - m.on
    <3>1. Pin!LoadUpdate(m, rest)
      BY <1>4 DEF Pin!LoadEvent
    <3> HIDE DEF m, rest
    <3> QED BY <1>4, <3>1, Zenon DEF Pin!LoadUpdate, Pin!AddTimer, Pin!pwmVars
  <2>2. /\ m = pin_mq[1] /\ m.on \in Nat /\ rest \in Seq(PinUpdates)
        /\ Len(rest) = Len(pin_mq) - 1 /\ DOMAIN rest = 1..Len(rest)
        /\ rest # <<>> <=> Len(rest) >= 1
        /\ rest # <<>> => Head(rest) = rest[1] /\ 1 \in DOMAIN rest
        /\ \A i \in DOMAIN rest : i + 1 \in DOMAIN pin_mq /\ rest[i] = pin_mq[i + 1]
    BY <1>y, <1>4
  <2>3. /\ \A i \in DOMAIN rest : /\ PinLeft(rest[i].waketime) <= PinAhead
                                  /\ rest[i].waketime \in ClockTimes
                                  /\ PinLeft(rest[i].waketime) \in Nat
        /\ \A i, j \in DOMAIN rest :
             i < j => PinLeft(rest[i].waketime) <= PinLeft(rest[j].waketime)
    <3> HIDE DEF rest
    <3>1. \A i, j \in DOMAIN rest : i \in Int /\ j \in Int /\ (i < j => i + 1 < j + 1)
      BY <2>2
    <3> QED BY <1>t, <1>y, <2>2, <3>1 DEF PinQueue
  <2>4. limit \in ClockTimes /\ PinLeft(limit) = MaxDuration
    BY <1>1, <1>y, GapLater DEF PinLeft, Pin!Wrap
  <2>5. /\ end \in ClockTimes /\ PinLeft(end) \in Nat
        /\ check => PinLeft(end) <= PinFar /\ Short(PinLeft(end))
        /\ rest # <<>> => end = rest[1].waketime
        /\ limited => PinLeft(end) <= MaxDuration
    <3> HIDE DEF rest, m, limit
    <3>1. CASE rest # <<>>
      <4>1. /\ end = rest[1].waketime /\ end \in ClockTimes /\ PinLeft(end) \in Nat
            /\ PinLeft(end) <= PinAhead
        BY <2>2, <2>3, <3>1
      <4>2. PinLeft(end) <= PinFar /\ Short(PinLeft(end))
        BY <4>1 DEF Short
      <4>3. limited => ~Pin!Before(limit, end)
        BY <1>4, <3>1
      <4>4. limited => ~(MaxDuration < PinLeft(end))
        BY <1>y, <2>4, <4>1, <4>2, <4>3, GapBefore DEF PinLeft, Pin!Before, Pin!Wrap
      <4> QED BY <4>1, <4>2, <4>4
    <3>2. CASE rest = <<>> /\ limited
      BY <2>4, <3>2
    <3>3. CASE rest = <<>> /\ ~limited
      <4>1. end = 0 /\ 0 \in ClockTimes
        BY <3>3 DEF ClockTimes
      <4>2. PinLeft(end) \in Nat
        BY <1>y, <4>1, GapType DEF PinLeft
      <4> QED BY <3>3, <4>1, <4>2
    <3> QED BY <3>1, <3>2, <3>3
  <2>6. ~steady => /\ m.on >= 1 /\ m.on < pin_cycle_time /\ pin_cycle_time \in Cycles
                   /\ pin_cycle_time \in Nat /\ pin_cycle_time < Width
                   /\ Short(pin_cycle_time) /\ Short(PinFar + 1)
    BY <1>t, <2>2 DEF Pin!Steady, PinTypes, Short
  <2>7. ~steady => next \in ClockTimes /\ PinLeft(next) = m.on /\ Short(PinLeft(next))
    <3>1. ~steady => m.on < Width /\ Short(m.on)
      BY <2>2, <2>6 DEF Short
    <3> QED BY <1>1, <1>y, <2>2, <3>1, GapLater DEF PinLeft, Pin!Wrap
  <2>8. ~steady /\ check /\ Pin!Before(next, end) => PinLeft(next) < PinLeft(end)
    <3> HIDE DEF next, end, steady, check
    <3> QED BY <1>y, <2>5, <2>7, GapBefore DEF PinLeft, Pin!Before, Pin!Wrap
  <2>9. steady \in BOOLEAN /\ check \in BOOLEAN /\ (m.on # 0) \in BOOLEAN
    BY DEF Pin!Steady, Pin!Limited
  <2>l. Pin!Active' /\ MaxDuration # 0 => limited
    BY <2>1 DEF Pin!Active, Pin!Limited, PinTypes
  <2>s. PinSafe
    BY <2>1 DEF PinSafe, Pin!Safe!Next, Pin!Safe!Set, Pin!Active
  <2>c. limited \/ rest # <<>> <=> check
    OBVIOUS
  <2> HIDE DEF rest, limit, limited, steady, check, end, next
  <2>q. PinQueue'
    BY <2>1, <2>2, <2>3, <2>5, <2>c DEF PinQueue, PinLeft
  <2>m. PinLimit'
    <3>1. ASSUME Pin!Active', MaxDuration # 0
          PROVE  pin_check_end' /\ pin_age' + PinLeft(pin_end_time)' <= MaxDuration
      <4>1. limited
        BY <2>l, <3>1
      <4>2. pin_check_end' /\ pin_age' = 0 /\ PinLeft(pin_end_time)' = PinLeft(end)
        BY <2>1, <2>c, <4>1 DEF PinLeft
      <4> QED BY <2>5, <4>1, <4>2
    <3> QED BY <3>1 DEF PinLimit
  <2>y. /\ pin' \in BOOLEAN /\ pin_toggling' \in BOOLEAN /\ pin_check_end' \in BOOLEAN
        /\ PinUpdates' = PinUpdates /\ ClockTimes' = ClockTimes /\ 0 \in Nat
    BY <2>1, <2>9 DEF PinUpdates, ClockTimes
  <2>10. CASE /\ steady /\ ~check /\ pin_timer' = "none" /\ pin_waketime' = pin_waketime
              /\ pin_on_duration' = pin_on_duration /\ pin_off_duration' = pin_off_duration
    <3>1. PinTypes'
      BY <1>t, <2>1, <2>2, <2>5, <2>y, <2>10, Zenon DEF PinTypes
    <3>2. PinTimer'
      BY <2>1, <2>10 DEF PinTimer
    <3> QED BY <2>s, <2>q, <2>m, <3>1, <3>2 DEF PinInv
  <2>11. CASE /\ check /\ pin_timer' = "load" /\ pin_waketime' = end
              /\ pin_on_duration' = pin_on_duration /\ pin_off_duration' = pin_off_duration
    <3>1. PinTypes'
      BY <1>t, <2>1, <2>2, <2>5, <2>y, <2>11, Zenon DEF PinTypes
    <3>2. /\ pin_check_end' = check /\ pin_end_time' = end /\ pin_toggling' = ~steady
          /\ pin_now' = pin_now
      BY <2>1
    <3>3. PinLeft(end) <= PinLeft(end)
      BY <2>5
    <3>4. PinTimer'
      BY <2>5, <2>6, <2>11, <3>2, <3>3 DEF PinTimer, PinLeft
    <3> QED BY <2>s, <2>q, <2>m, <3>1, <3>4 DEF PinInv
  <2>12. CASE /\ ~steady /\ (check => Pin!Before(next, end))
              /\ pin_timer' = "toggle" /\ pin_waketime' = next
              /\ pin_on_duration' = m.on /\ pin_off_duration' = pin_cycle_time - m.on
    <3> HIDE DEF m
    <3>0. /\ m.on \in Nat /\ m.on >= 1 /\ m.on < pin_cycle_time /\ pin_cycle_time \in Nat
      BY <2>2, <2>6, <2>12
    <3>1. pin_cycle_time - m.on \in Nat /\ pin_cycle_time - m.on >= 1
          /\ m.on + (pin_cycle_time - m.on) = pin_cycle_time
      BY <3>0
    <3>2. PinTypes'
      BY <1>t, <2>1, <2>2, <2>5, <2>7, <2>y, <2>12, <3>1, Zenon DEF PinTypes
    <3>3. check => PinLeft(next) <= PinLeft(end)
      BY <2>2, <2>5, <2>7, <2>8, <2>12
    <3>4. PinTimer'
      BY <2>1, <2>5, <2>6, <2>7, <2>12, <3>1, <3>3 DEF PinTimer, PinLeft
    <3> QED BY <2>s, <2>q, <2>m, <3>2, <3>4 DEF PinInv
  <2> QED BY <2>1, <2>10, <2>11, <2>12
<1> QED BY <1>2, <1>3, <1>4

\* command_queue_digital_out(): the update takes effect before the limit that runs.
LEMMA QueueDigitalOutInv ==
    ASSUME PinInv, NEW d \in -1..PinAhead, NEW on \in OnTicks, Pin!QueueDigitalOut(d, on)
    PROVE  PinInv' /\ PinSafe
<1> USE PinConstants
<1> DEFINE time == Pin!Wrap(pin_now + d)
           new == [waketime |-> time, on |-> on]
<1>t. PinTypes /\ PinTimer /\ PinQueue /\ PinLimit
  BY DEF PinInv
<1>y. /\ pin_now \in ClockTimes /\ pin_mq \in Seq(PinUpdates) /\ pin_waketime \in ClockTimes
      /\ pin_end_time \in ClockTimes /\ pin_age \in Nat
      /\ PinLeft(pin_waketime) \in Nat /\ PinLeft(pin_end_time) \in Nat
      /\ pin_timer # "none" => Short(PinLeft(pin_waketime))
      /\ pin_toggling => Short(PinLeft(pin_waketime) + 1)
      /\ pin_check_end => Short(PinLeft(pin_end_time))
      /\ Len(pin_mq) \in Nat /\ DOMAIN pin_mq = 1..Len(pin_mq)
      /\ pin_mq # <<>> <=> Len(pin_mq) >= 1
      /\ \A i \in DOMAIN pin_mq :
           /\ pin_mq[i].waketime \in ClockTimes /\ PinLeft(pin_mq[i].waketime) \in Nat
           /\ Short(PinLeft(pin_mq[i].waketime))
  BY <1>t, PinTimes DEF PinTypes
<1>1. /\ time \in ClockTimes
      /\ d = -1 => PinLeft(time) = Width - 1
      /\ d # -1 => PinLeft(time) = d /\ d \in Nat /\ Short(d)
  <2>1. CASE d = -1
    BY <1>y, <2>1, GapBack DEF PinLeft, Pin!Wrap
  <2>2. CASE d # -1
    <3>1. d \in Nat /\ d < Width /\ Short(d)
      BY <2>2 DEF Short
    <3> QED BY <1>y, <2>2, <3>1, GapLater DEF PinLeft, Pin!Wrap
  <2> QED BY <2>1, <2>2
<1>2. new \in PinUpdates /\ new.waketime = time
  BY <1>1 DEF PinUpdates
<1>3. /\ Append(pin_mq, new) \in Seq(PinUpdates)
      /\ Append(pin_mq, new) # <<>>
      /\ DOMAIN Append(pin_mq, new) = 1..(Len(pin_mq) + 1)
      /\ Append(pin_mq, new)[Len(pin_mq) + 1] = new
      /\ \A i \in 1..Len(pin_mq) : Append(pin_mq, new)[i] = pin_mq[i]
  <2> HIDE DEF new
  <2> QED BY <1>y, <1>2
<1>4. PinUpdates' = PinUpdates /\ ClockTimes' = ClockTimes
  BY DEF PinUpdates, ClockTimes
<1>c. pin_mq # <<>> => ~Pin!Before(time, pin_mq[Len(pin_mq)].waketime)
  BY DEF Pin!QueueDigitalOut
<1>5. CASE /\ pin_mq # <<>> /\ pin_mq' = Append(pin_mq, new)
           /\ UNCHANGED <<pin_now, Pin!outVars, Pin!pwmVars, pin_is_shutdown, pin_age>>
  <2> HIDE DEF time, new
  <2>1. /\ pin_now' = pin_now /\ pin' = pin /\ pin_toggling' = pin_toggling
        /\ pin_check_end' = pin_check_end /\ pin_end_time' = pin_end_time
        /\ pin_timer' = pin_timer /\ pin_waketime' = pin_waketime
        /\ pin_on_duration' = pin_on_duration /\ pin_off_duration' = pin_off_duration
        /\ pin_cycle_time' = pin_cycle_time /\ pin_is_shutdown' = pin_is_shutdown
        /\ pin_age' = pin_age
    BY <1>5 DEF Pin!outVars, Pin!pwmVars
  <2>2. PinTypes'
    BY <1>t, <1>3, <1>4, <1>5, <2>1, Zenon DEF PinTypes
  <2>3. PinTimer' /\ PinLimit'
    BY <1>t, <2>1 DEF PinTimer, PinLimit, PinLeft, Pin!Active
  <2>4. PinQueue'
    <3> DEFINE k == Len(pin_mq)
    <3>1. /\ k \in DOMAIN pin_mq /\ Short(PinLeft(pin_mq[k].waketime))
          /\ \A i \in DOMAIN pin_mq :
               PinLeft(pin_mq[i].waketime) <= PinLeft(pin_mq[k].waketime)
      <4>1. k \in DOMAIN pin_mq
        BY <1>y, <1>5
      <4>2. PinLeft(pin_mq[k].waketime) <= PinLeft(pin_mq[k].waketime)
        BY <1>y, <4>1
      <4> QED BY <1>t, <1>y, <4>1, <4>2 DEF PinQueue
    <3>2. d # -1
      BY <1>y, <1>1, <1>5, <1>c, <3>1, BackBefore DEF PinLeft, Pin!Before, Pin!Wrap
    <3>3. PinLeft(pin_mq[k].waketime) <= PinLeft(time)
      <4>1. ~(PinLeft(time) < PinLeft(pin_mq[k].waketime))
        BY <1>y, <1>1, <1>5, <1>c, <3>1, <3>2, GapBefore DEF PinLeft, Pin!Before, Pin!Wrap
      <4> QED BY <1>y, <1>1, <3>1, <3>2, <4>1
    <3>4. \A i \in DOMAIN pin_mq : PinLeft(pin_mq[i].waketime) <= PinLeft(time)
      BY <1>y, <1>1, <3>1, <3>2, <3>3
    <3>5. \A i \in DOMAIN pin_mq' : PinLeft(pin_mq'[i].waketime) <= PinAhead
      BY <1>t, <1>y, <1>1, <1>2, <1>3, <1>5, <3>2 DEF PinQueue
    <3>6. \A i, j \in DOMAIN pin_mq' :
            i < j => PinLeft(pin_mq'[i].waketime) <= PinLeft(pin_mq'[j].waketime)
      <4> SUFFICES ASSUME NEW i \in DOMAIN pin_mq', NEW j \in DOMAIN pin_mq', i < j
                   PROVE  PinLeft(pin_mq'[i].waketime) <= PinLeft(pin_mq'[j].waketime)
        OBVIOUS
      <4>1. i \in DOMAIN pin_mq /\ pin_mq'[i] = pin_mq[i]
        BY <1>y, <1>3, <1>5
      <4>2. CASE j = Len(pin_mq) + 1
        BY <1>2, <1>3, <1>5, <3>4, <4>1, <4>2
      <4>3. CASE j # Len(pin_mq) + 1
        <5>1. j \in DOMAIN pin_mq /\ pin_mq'[j] = pin_mq[j]
          BY <1>y, <1>3, <1>5, <4>3
        <5> QED BY <1>t, <4>1, <5>1 DEF PinQueue
      <4> QED BY <4>2, <4>3
    <3>7. pin_check_end /\ pin_end_time = pin_mq'[1].waketime
      BY <1>t, <1>y, <1>3, <1>5 DEF PinQueue
    <3> QED BY <2>1, <3>5, <3>6, <3>7 DEF PinQueue, PinLeft
  <2>5. PinSafe
    BY <2>1 DEF PinSafe, Pin!Safe!vars, Pin!Active
  <2> QED BY <2>2, <2>3, <2>4, <2>5 DEF PinInv
<1>6. CASE Pin!Shutdown
  BY <1>6, PinShutdownInv
\* The first update: the timer is left to toggle, or made to load the update.
<1>7. ASSUME pin_mq = <<>>, pin_mq' = Append(pin_mq, new), pin_end_time' = time,
             pin_check_end' = TRUE, ~(pin_check_end /\ Pin!Before(pin_end_time, time)),
             d # -1, pin_now' = pin_now, pin' = pin, pin_toggling' = pin_toggling,
             pin_on_duration' = pin_on_duration, pin_off_duration' = pin_off_duration,
             pin_cycle_time' = pin_cycle_time, pin_is_shutdown' = pin_is_shutdown,
             pin_age' = pin_age, pin_waketime' \in ClockTimes,
             pin_timer' \in {"load", "toggle"}, PinTimer'
      PROVE  PinInv' /\ PinSafe
  <2> HIDE DEF time, new
  <2>1. PinTypes'
    <3>1. pin_timer' \in {"none", "load", "toggle"}
      BY <1>7
    <3> QED BY <1>t, <1>1, <1>3, <1>4, <1>7, <3>1, Zenon DEF PinTypes
  <2>2. PinQueue'
    <3>1. DOMAIN pin_mq' = {1} /\ pin_mq'[1] = new
      <4>1. Len(pin_mq) = 0
        BY <1>7
      <4>2. 1..(0 + 1) = {1} /\ 0 + 1 = 1
        OBVIOUS
      <4> QED BY <1>3, <1>7, <4>1, <4>2, Zenon
    <3> QED BY <1>1, <1>2, <1>7, <3>1 DEF PinQueue, PinLeft
  <2>3. PinLimit'
    <3>1. ASSUME Pin!Active', MaxDuration # 0
          PROVE  pin_age' + PinLeft(pin_end_time)' <= MaxDuration
      <4>1. Pin!Active
        BY <1>7, <3>1 DEF Pin!Active
      <4>2. pin_check_end /\ pin_age + PinLeft(pin_end_time) <= MaxDuration
        BY <1>t, <3>1, <4>1 DEF PinLimit
      <4>3. ~(PinLeft(pin_end_time) < PinLeft(time))
        BY <1>y, <1>1, <1>7, <4>2, GapBefore DEF PinLeft, Pin!Before, Pin!Wrap
      <4>4. PinLeft(pin_end_time)' = PinLeft(time) /\ pin_age' = pin_age
        BY <1>7 DEF PinLeft
      <4>5. PinLeft(time) \in Nat
        BY <1>1, <1>7
      <4> QED BY <1>y, <4>2, <4>3, <4>4, <4>5
    <3> QED BY <1>7, <3>1 DEF PinLimit
  <2>4. PinSafe
    BY <1>7 DEF PinSafe, Pin!Safe!vars, Pin!Active
  <2> QED BY <1>7, <2>1, <2>2, <2>3, <2>4 DEF PinInv
<1>8. CASE /\ pin_mq = <<>> /\ ~(pin_check_end /\ Pin!Before(pin_end_time, time))
           /\ Pin!LeftToToggle(time) /\ pin_mq' = Append(pin_mq, new)
           /\ pin_end_time' = time /\ pin_check_end' = TRUE
           /\ UNCHANGED <<pin_now, pin, pin_toggling, pin_timer, pin_waketime,
                          Pin!pwmVars, pin_is_shutdown, pin_age>>
  <2> HIDE DEF time, new
  <2>1. pin_toggling /\ Pin!Before(pin_waketime, time) /\ pin_timer # "none"
    BY <1>t, <1>8 DEF Pin!LeftToToggle, PinTimer
  <2>2. d # -1
    BY <1>y, <1>1, <2>1, BackBefore DEF PinLeft, Pin!Before, Pin!Wrap
  <2>3. PinLeft(pin_waketime) < PinLeft(time)
    BY <1>y, <1>1, <2>1, <2>2, GapBefore DEF PinLeft, Pin!Before, Pin!Wrap
  <2>4. pin_timer = "toggle"
    BY <1>t, <1>8, <2>1 DEF PinTimer, PinTypes
  <2>5. /\ pin_now' = pin_now /\ pin' = pin /\ pin_toggling' = pin_toggling
        /\ pin_timer' = pin_timer /\ pin_waketime' = pin_waketime
        /\ pin_on_duration' = pin_on_duration /\ pin_off_duration' = pin_off_duration
        /\ pin_cycle_time' = pin_cycle_time /\ pin_is_shutdown' = pin_is_shutdown
        /\ pin_age' = pin_age
    BY <1>8 DEF Pin!pwmVars
  <2>6. PinLeft(pin_waketime) <= PinLeft(time) /\ PinLeft(time) <= PinFar
    BY <1>y, <1>1, <2>2, <2>3
  <2>7. PinTimer'
    BY <1>t, <1>8, <2>1, <2>4, <2>5, <2>6 DEF PinTimer, PinLeft
  <2>8. pin_waketime' \in ClockTimes /\ pin_timer' \in {"load", "toggle"}
    BY <1>y, <2>4, <2>5
  <2> QED BY <1>7, <1>8, <2>2, <2>5, <2>7, <2>8
<1>9. CASE /\ pin_mq = <<>> /\ ~(pin_check_end /\ Pin!Before(pin_end_time, time))
           /\ ~Pin!TooClose(time) /\ pin_mq' = Append(pin_mq, new)
           /\ pin_end_time' = time /\ pin_check_end' = TRUE
           /\ pin_timer' = "load" /\ pin_waketime' = time
           /\ UNCHANGED <<pin_now, pin, pin_toggling, Pin!pwmVars, pin_is_shutdown, pin_age>>
  <2> HIDE DEF time, new
  <2>1. Short(PinLeft(time))
    BY <1>y, <1>1, <1>9, GapPast DEF PinLeft, Pin!TooClose, Pin!Before, Pin!Wrap
  <2>2. d # -1
    <3>1. Width >= 2
      BY WidthFacts
    <3> QED BY <1>1, <2>1, <3>1 DEF Short
  <2>3. /\ pin_now' = pin_now /\ pin' = pin /\ pin_toggling' = pin_toggling
        /\ pin_on_duration' = pin_on_duration /\ pin_off_duration' = pin_off_duration
        /\ pin_cycle_time' = pin_cycle_time /\ pin_is_shutdown' = pin_is_shutdown
        /\ pin_age' = pin_age
    BY <1>9 DEF Pin!pwmVars
  <2>4. PinLeft(time) <= PinLeft(time) /\ PinLeft(time) <= PinFar
    BY <1>1, <2>2
  <2>5. PinTimer'
    BY <1>t, <1>9, <2>3, <2>4 DEF PinTimer, PinLeft
  <2>6. pin_waketime' \in ClockTimes /\ pin_timer' \in {"load", "toggle"}
    BY <1>1, <1>9
  <2> QED BY <1>7, <1>9, <2>2, <2>3, <2>5, <2>6
<1> QED
  BY <1>5, <1>6, <1>8, <1>9, Zenon DEF Pin!QueueDigitalOut, Pin!AddTimer

\* So does update_digital_out.
LEMMA UpdateDigitalOutInv ==
    ASSUME PinInv, NEW value \in BOOLEAN, Pin!UpdateDigitalOut(value)
    PROVE  PinInv' /\ PinSafe
<1> USE PinConstants
<1> DEFINE limit == Pin!Wrap(pin_now + MaxDuration)
<1>t. PinTypes /\ PinTimer /\ PinQueue /\ PinLimit
  BY DEF PinInv
<1>1. CASE pin_mq # <<>>
  BY <1>1, PinShutdownInv DEF Pin!UpdateDigitalOut
<1>2. CASE pin_mq = <<>>
  <2>1. /\ pin' = value /\ pin_toggling' = FALSE /\ pin_age' = 0 /\ pin_now' = pin_now
        /\ pin_on_duration' = pin_on_duration /\ pin_off_duration' = pin_off_duration
        /\ pin_cycle_time' = pin_cycle_time /\ pin_mq' = pin_mq
        /\ pin_is_shutdown' = pin_is_shutdown
        /\ IF value # Default /\ MaxDuration # 0
           THEN /\ pin_timer' = "load" /\ pin_waketime' = limit /\ pin_end_time' = limit
                /\ pin_check_end' = TRUE
           ELSE /\ pin_timer' = "none" /\ pin_check_end' = FALSE
                /\ pin_waketime' = pin_waketime /\ pin_end_time' = pin_end_time
    BY <1>2 DEF Pin!UpdateDigitalOut, Pin!AddTimer, Pin!pwmVars
  <2>2. limit \in ClockTimes /\ PinLeft(limit) = MaxDuration
    BY <1>t, GapLater DEF PinTypes, PinLeft, Pin!Wrap
  <2> HIDE DEF limit
  <2>3. PinTypes'
    <3>1. /\ pin_waketime' \in ClockTimes /\ pin_end_time' \in ClockTimes /\ pin_check_end' \in BOOLEAN
          /\ pin_timer' \in {"none", "load", "toggle"} /\ 0 \in Nat
      BY <1>t, <2>1, <2>2 DEF PinTypes
    <3>2. PinUpdates' = PinUpdates /\ ClockTimes' = ClockTimes
      BY DEF PinUpdates, ClockTimes
    <3> QED BY <1>t, <2>1, <3>1, <3>2, Zenon DEF PinTypes
  <2>4. PinQueue'
    BY <1>2, <2>1 DEF PinQueue
  <2>5. PinTimer' /\ PinLimit'
    <3>1. CASE value # Default /\ MaxDuration # 0
      BY <2>1, <2>2, <3>1 DEF PinTimer, PinLimit, PinLeft
    <3>2. CASE ~(value # Default /\ MaxDuration # 0)
      BY <2>1, <3>2 DEF PinTimer, PinLimit, Pin!Active
    <3> QED BY <3>1, <3>2
  <2>6. PinSafe
    BY <2>1 DEF PinSafe, Pin!Safe!Next, Pin!Safe!Set, Pin!Active
  <2> QED BY <2>3, <2>4, <2>5, <2>6 DEF PinInv
<1> QED BY <1>1, <1>2

\* A step that changes no more than the cycle and the state of the firmware.
LEMMA PinOtherInv ==
    ASSUME PinInv, pin_now' = pin_now, UNCHANGED Pin!outVars,
           UNCHANGED <<pin_on_duration, pin_off_duration, pin_mq, pin_age>>,
           pin_cycle_time' \in Cycles \cup {0}, pin_is_shutdown' \in BOOLEAN
    PROVE  PinInv' /\ PinSafe
<1>1. /\ pin' = pin /\ pin_toggling' = pin_toggling /\ pin_check_end' = pin_check_end
      /\ pin_end_time' = pin_end_time /\ pin_timer' = pin_timer
      /\ pin_waketime' = pin_waketime /\ pin_on_duration' = pin_on_duration
      /\ pin_off_duration' = pin_off_duration /\ pin_mq' = pin_mq /\ pin_age' = pin_age
  BY DEF Pin!outVars
<1>2. PinTypes'
  <2>1. PinUpdates' = PinUpdates /\ ClockTimes' = ClockTimes
    BY DEF PinUpdates, ClockTimes
  <2> QED BY <1>1, <2>1, Zenon DEF PinInv, PinTypes
<1>3. PinTimer' /\ PinQueue' /\ PinLimit'
  BY <1>1, Zenon DEF PinInv, PinTimer, PinQueue, PinLimit, PinLeft, PinFar, Pin!Active
<1>4. PinSafe
  BY <1>1 DEF PinSafe, Pin!Safe!vars, Pin!Active
<1> QED BY <1>2, <1>3, <1>4 DEF PinInv

\* So does a tick of the clock.
LEMMA PinTickInv ==
    ASSUME PinInv, Pin!Tick
    PROVE  PinInv' /\ PinSafe
<1> USE PinConstants
<1>t. PinTypes /\ PinTimer /\ PinQueue /\ PinLimit
  BY DEF PinInv
<1>y. /\ pin_now \in ClockTimes /\ pin_waketime \in ClockTimes /\ pin_end_time \in ClockTimes
      /\ pin_age \in Nat /\ PinLeft(pin_waketime) \in Nat /\ PinLeft(pin_end_time) \in Nat
      /\ Len(pin_mq) \in Nat /\ DOMAIN pin_mq = 1..Len(pin_mq)
      /\ pin_mq # <<>> <=> Len(pin_mq) >= 1
      /\ \A i \in DOMAIN pin_mq :
           pin_mq[i].waketime \in ClockTimes /\ PinLeft(pin_mq[i].waketime) \in Nat
  BY <1>t, PinTimes DEF PinTypes
<1>1. /\ pin_timer # "none" => pin_waketime # pin_now
      /\ pin_now' = (pin_now + 1) % Width
      /\ pin_age' = IF Pin!Active /\ MaxDuration # 0 THEN pin_age + 1 ELSE 0
      /\ pin' = pin /\ pin_toggling' = pin_toggling /\ pin_check_end' = pin_check_end
      /\ pin_end_time' = pin_end_time /\ pin_timer' = pin_timer
      /\ pin_waketime' = pin_waketime /\ pin_on_duration' = pin_on_duration
      /\ pin_off_duration' = pin_off_duration /\ pin_cycle_time' = pin_cycle_time
      /\ pin_mq' = pin_mq /\ pin_is_shutdown' = pin_is_shutdown
  BY DEF Pin!Tick, Pin!Due, Pin!Wrap, Pin!outVars, Pin!pwmVars
<1>2. \A t \in ClockTimes : t # pin_now => Gap(pin_now', t) = PinLeft(t) - 1
  BY <1>y, <1>1, GapTick DEF PinLeft
<1>3. pin_now' \in ClockTimes
  <2>1. 1 < Width
    BY WidthEven, WidthFacts
  <2> QED BY <1>y, <1>1, <2>1, GapLater
<1>4. pin_timer # "none" => /\ PinLeft(pin_waketime) >= 1
                            /\ Gap(pin_now', pin_waketime) = PinLeft(pin_waketime) - 1
  BY <1>y, <1>1, <1>2, GapType DEF PinLeft
<1>5. pin_check_end => /\ pin_timer # "none" /\ PinLeft(pin_end_time) >= 1
                       /\ Gap(pin_now', pin_end_time) = PinLeft(pin_end_time) - 1
  <2> SUFFICES ASSUME pin_check_end
               PROVE  /\ pin_timer # "none" /\ PinLeft(pin_end_time) >= 1
                      /\ Gap(pin_now', pin_end_time) = PinLeft(pin_end_time) - 1
    OBVIOUS
  <2>1. pin_timer # "none" /\ PinLeft(pin_waketime) <= PinLeft(pin_end_time)
    BY <1>t DEF PinTimer
  <2>2. PinLeft(pin_end_time) >= 1
    BY <1>y, <1>4, <2>1
  <2>3. pin_end_time # pin_now
    BY <1>y, <2>2, GapType DEF PinLeft
  <2> QED BY <1>y, <1>2, <2>1, <2>2, <2>3
<1>6. \A i \in DOMAIN pin_mq :
        Gap(pin_now', pin_mq[i].waketime) = PinLeft(pin_mq[i].waketime) - 1
  <2> SUFFICES ASSUME NEW i \in DOMAIN pin_mq
               PROVE  Gap(pin_now', pin_mq[i].waketime) = PinLeft(pin_mq[i].waketime) - 1
    OBVIOUS
  <2>1. 1 \in DOMAIN pin_mq /\ pin_mq # <<>> /\ i >= 1
    BY <1>y
  <2>2. PinLeft(pin_mq[1].waketime) >= 1
    BY <1>t, <1>5, <2>1 DEF PinQueue
  <2>3. PinLeft(pin_mq[1].waketime) <= PinLeft(pin_mq[i].waketime)
    <3>1. CASE i = 1
      BY <1>y, <2>1, <3>1
    <3>2. CASE i # 1
      BY <1>t, <1>y, <2>1, <3>2 DEF PinQueue
    <3> QED BY <3>1, <3>2
  <2>4. PinLeft(pin_mq[i].waketime) >= 1
    BY <1>y, <2>1, <2>2, <2>3
  <2>5. pin_mq[i].waketime # pin_now
    BY <1>y, <2>4, GapType DEF PinLeft
  <2> QED BY <1>y, <1>2, <2>5
<1>7. PinTypes'
  <2>1. pin_age' \in Nat
    BY <1>y, <1>1 DEF Pin!Active
  <2>2. PinUpdates' = PinUpdates /\ ClockTimes' = ClockTimes
    BY DEF PinUpdates, ClockTimes
  <2> QED BY <1>t, <1>1, <1>3, <2>1, <2>2, Zenon DEF PinTypes
<1>8. PinTimer'
  <2>1. pin_timer # "none" => PinLeft(pin_waketime)' = PinLeft(pin_waketime) - 1
    BY <1>1, <1>4 DEF PinLeft
  <2>2. pin_check_end => PinLeft(pin_end_time)' = PinLeft(pin_end_time) - 1
    BY <1>1, <1>5 DEF PinLeft
  <2>3. pin_timer = "toggle" => PinLeft(pin_waketime)' < pin_on_duration + pin_off_duration
    BY <1>t, <1>y, <2>1 DEF PinTimer, PinTypes
  <2>4. pin_check_end => /\ PinLeft(pin_waketime)' <= PinLeft(pin_end_time)'
                         /\ PinLeft(pin_end_time)' <= PinFar
    BY <1>t, <1>y, <1>5, <2>1, <2>2 DEF PinTimer
  <2> QED BY <1>t, <1>1, <2>3, <2>4 DEF PinTimer, PinFar
<1>9. PinQueue'
  <2>1. \A i \in DOMAIN pin_mq' : (PinLeft(pin_mq[i].waketime) <= PinAhead)'
    BY <1>t, <1>y, <1>1, <1>6 DEF PinQueue, PinLeft
  <2>2. \A i, j \in DOMAIN pin_mq' :
          i < j => (PinLeft(pin_mq[i].waketime) <= PinLeft(pin_mq[j].waketime))'
    BY <1>t, <1>y, <1>1, <1>6 DEF PinQueue, PinLeft
  <2> QED BY <1>t, <1>1, <2>1, <2>2 DEF PinQueue
<1>10. Pin!Active' <=> Pin!Active
  BY <1>1 DEF Pin!Active
<1>11. CASE Pin!Active /\ MaxDuration # 0
  <2>1. pin_check_end /\ pin_age + PinLeft(pin_end_time) <= MaxDuration
    BY <1>t, <1>11 DEF PinLimit
  <2>2. pin_age' = pin_age + 1 /\ pin_age < MaxDuration
    BY <1>y, <1>1, <1>5, <1>11, <2>1 DEF Pin!Active
  <2>3. pin_age' + PinLeft(pin_end_time)' <= MaxDuration
    BY <1>y, <1>1, <1>5, <2>1, <2>2 DEF PinLeft
  <2>4. PinLimit'
    BY <1>1, <2>1, <2>3 DEF PinLimit
  <2>5. PinSafe
    BY <1>1, <1>11, <2>2 DEF PinSafe, Pin!Safe!Next, Pin!Safe!Tick, Pin!Active
  <2> QED BY <1>7, <1>8, <1>9, <2>4, <2>5 DEF PinInv
<1>12. CASE ~(Pin!Active /\ MaxDuration # 0)
  <2>1. PinLimit'
    BY <1>10, <1>12 DEF PinLimit
  <2>2. pin_age' = 0
    BY <1>1, <1>12 DEF Pin!Active
  <2>3. PinSafe
    BY <2>2 DEF PinSafe, Pin!Safe!Next, Pin!Safe!Set, Pin!Active
  <2> QED BY <1>7, <1>8, <1>9, <2>1, <2>3 DEF PinInv
<1> QED BY <1>11, <1>12

\* So does every step of the digital output.
LEMMA PinStepInv ==
    ASSUME PinInv, [Pin!Next]_(Pin!vars)
    PROVE  PinInv' /\ PinSafe
<1>t. pin_cycle_time \in Cycles \cup {0} /\ pin_is_shutdown \in BOOLEAN
  BY DEF PinInv, PinTypes
<1>1. CASE UNCHANGED Pin!vars
  BY <1>t, <1>1, PinOtherInv DEF Pin!vars, Pin!outVars, Pin!pwmVars
<1>2. CASE Pin!ToggleEvent
  BY <1>2, ToggleEventInv
<1>3. CASE Pin!LoadEvent
  BY <1>3, LoadEventInv
<1>4. CASE \E d \in -1..PinAhead, on \in OnTicks : Pin!QueueDigitalOut(d, on)
  BY <1>4, QueueDigitalOutInv
<1>5. CASE \E value \in BOOLEAN : Pin!UpdateDigitalOut(value)
  BY <1>5, UpdateDigitalOutInv
<1>6. CASE \E cycle \in Cycles : Pin!SetPwmCycle(cycle)
  <2>1. PICK cycle \in Cycles : Pin!SetPwmCycle(cycle)
    BY <1>6
  <2>2. CASE pin_mq # <<>>
    BY <2>1, <2>2, PinShutdownInv DEF Pin!SetPwmCycle
  <2>3. CASE pin_mq = <<>>
    BY <1>t, <2>1, <2>3, PinOtherInv DEF Pin!SetPwmCycle, Pin!outVars
  <2> QED BY <2>2, <2>3
<1>7. CASE Pin!EmergencyStop
  BY <1>7, PinShutdownInv DEF Pin!EmergencyStop
<1>8. CASE Pin!ClearShutdown
  BY <1>t, <1>8, PinOtherInv DEF Pin!ClearShutdown, Pin!outVars, Pin!pwmVars
<1>9. CASE Pin!Tick
  BY <1>9, PinTickInv
<1> QED BY <1>1, <1>2, <1>3, <1>4, <1>5, <1>6, <1>7, <1>8, <1>9 DEF Pin!Next

-----------------------------------------------------------------------------
(* The outputs of the composition                                           *)

OutputsInv == PinInv /\ PwmInv

\* Both pins start in their invariants.
LEMMA OutputsInitInv == OutputsInit => OutputsInv /\ Pin!Safe!Init /\ Pwm!Safe!Init
BY PinInitInv, PinInitSafe, PwmInitInv, PwmInitSafe DEF OutputsInit, OutputsInv

\* Every step of either pin keeps both invariants.
LEMMA OutputsStepInv ==
    ASSUME OutputsInv, [OutputsNext]_<<vars, digitalOutVars, pwmOutVars, part>>
    PROVE  OutputsInv' /\ PinSafe /\ PwmSafe
<1>1. [Pin!Next]_(Pin!vars) /\ [Pwm!Next]_(Pwm!vars)
  <2>1. UNCHANGED digitalOutVars => UNCHANGED Pin!vars
    BY DEF digitalOutVars, Pin!vars, Pin!outVars, Pin!pwmVars
  <2>2. UNCHANGED pwmOutVars => UNCHANGED Pwm!vars
    BY DEF pwmOutVars, Pwm!vars, Pwm!timerVars
  <2>3. \/ UNCHANGED digitalOutVars /\ UNCHANGED pwmOutVars
        \/ Pin!Next /\ UNCHANGED pwmOutVars
        \/ Pwm!Next /\ UNCHANGED digitalOutVars
    BY Zenon DEF OutputsNext
  <2> QED BY <2>1, <2>2, <2>3
<1> QED BY <1>1, PinStepInv, PwmStepInv DEF OutputsInv

\* Whatever the host sends, the timers of the pins fit their flags and queues, no
\* interrupt of pwmcmds.c takes an update from an empty queue, and every update of
\* gpiocmds.c is applied at its time (PinsOnTime).
THEOREM AlwaysPinsOnTime == OutputsSpec => []PinsOnTime
<1>1. OutputsInit => OutputsInv
  BY OutputsInitInv
<1>2. OutputsInv /\ [OutputsNext]_<<vars, digitalOutVars, pwmOutVars, part>> => OutputsInv'
  BY OutputsStepInv
<1>3. OutputsInv => PinsOnTime
  BY PinOnTime DEF OutputsInv, PwmInv, PinsOnTime
<1> QED BY <1>1, <1>2, <1>3, PTL DEF OutputsSpec

\* A digital output with a max_duration is a SafeOutput (PinSafeOutputSpec): a setting
\* or a software PWM that is not renewed ends in time.
THEOREM PinImplementsSafeOutput == OutputsSpec => PinSafeOutputSpec
<1>1. OutputsInit => OutputsInv /\ Pin!Safe!Init
  BY OutputsInitInv
<1>2. OutputsInv /\ [OutputsNext]_<<vars, digitalOutVars, pwmOutVars, part>>
        => OutputsInv' /\ [Pin!Safe!Next]_(Pin!Safe!vars)
  BY OutputsStepInv DEF PinSafe
<1> QED BY <1>1, <1>2, PTL DEF OutputsSpec, PinSafeOutputSpec, Pin!SafeOutputSpec, Pin!Safe!Spec

\* A hardware PWM output with a max_duration is a SafeOutput (PwmSafeOutputSpec), also
\* when an interrupt comes between the two parts of command_queue_pwm_out().
THEOREM PwmImplementsSafeOutput == OutputsSpec => PwmSafeOutputSpec
<1>1. OutputsInit => OutputsInv /\ Pwm!Safe!Init
  BY OutputsInitInv
<1>2. OutputsInv /\ [OutputsNext]_<<vars, digitalOutVars, pwmOutVars, part>>
        => OutputsInv' /\ [Pwm!Safe!Next]_(Pwm!Safe!vars)
  BY OutputsStepInv DEF PwmSafe
<1> QED BY <1>1, <1>2, PTL DEF OutputsSpec, PwmSafeOutputSpec, Pwm!SafeOutputSpec, Pwm!Safe!Spec

-----------------------------------------------------------------------------
(***************************************************************************)
(* The tool head: its types, the order of steps, their being sent in time, *)
(* and the short horizon of homing moves, for all buffer times, delays of  *)
(* step generation, moves and bounds, and every Latency within the margins *)
(* of the code.                                                            *)
(*                                                                         *)
(* Outside of "Drip" the members satisfy Good, in "Drip" Dripping.  First  *)
(* what each method does to the members, then that each keeps Good, then   *)
(* one lemma per step.                                                     *)
(***************************************************************************)

\* What the assumptions say of each constant.
LEMMA Constants ==
    /\ BUFFER_TIME_LOW \in Nat /\ BUFFER_TIME_HIGH \in Nat /\ BUFFER_TIME_START \in Nat
    /\ BGFLUSH_LOW_TIME \in Nat /\ BGFLUSH_BATCH_TIME \in Nat /\ BGFLUSH_EXTRA_TIME \in Nat
    /\ MIN_KIN_TIME \in Nat /\ STEPCOMPRESS_FLUSH_TIME \in Nat
    /\ DRIP_SEGMENT_TIME \in Nat /\ DRIP_TIME \in Nat /\ CHECK_PAUSE_TIME \in Nat
    /\ HOMING_START_DELAY \in Nat /\ MAX_PAUSE \in Nat /\ SLACK \in Nat
    /\ Latency \in Nat /\ NEVER \in Nat /\ MaxMove \in Nat /\ MaxQueue \in Nat
    /\ MaxTime \in Nat
    /\ DRIP_SEGMENT_TIME > 0 /\ MAX_PAUSE > 0 /\ BGFLUSH_BATCH_TIME > 0
    /\ \A kin \in KinDelays : kin \in Nat /\ kin > 0
    /\ MaxTime < NEVER /\ MaxQueue > 0
    /\ Latency <= DRIP_TIME /\ Latency <= BGFLUSH_LOW_TIME /\ Latency <= BUFFER_TIME_START
    /\ \A kin \in KinDelays : kin + STEPCOMPRESS_FLUSH_TIME + Latency <= BUFFER_TIME_LOW
  BY TimesAssumption, LatencyAssumption

\* The types of the members, one by one.
Typed(h) ==
    /\ h.special \in {"Main", "NeedPrime", "Priming", "Drip"}
    /\ h.need_check \in Int /\ h.print \in Nat /\ h.last_flush \in Nat
    /\ h.need_flush \in Nat /\ h.step_gen \in Nat /\ h.min_restart \in Nat
    /\ h.kick \in BOOLEAN /\ h.flush_timer \in Int /\ h.priming_timer \in Int
    /\ h.queue \in 0..MaxQueue /\ h.kin \in KinDelays
    /\ h.generated \in Nat /\ h.unsent \subseteq Nat
    /\ h.kin \in Nat /\ h.kin > 0
    /\ h.kin + STEPCOMPRESS_FLUSH_TIME + Latency <= BUFFER_TIME_LOW

\* The type of each member.
LEMMA Fields == ASSUME NEW h \in Members PROVE Typed(h)
  BY Constants DEF Members, Typed

\* How r comes from h: the members that stay, and what is sent.
LEMMA AdvanceFlush ==
    ASSUME NEW h \in Members, NEW t \in Int
    PROVE  LET r == _advance_flush_time(h, t)
               sg == Larger(Smaller(Larger(t, h.last_flush) + STEPCOMPRESS_FLUSH_TIME,
                                    h.print - h.kin), Larger(t, h.last_flush))
           IN  /\ r \in Members
               /\ r.special = h.special /\ r.need_check = h.need_check
               /\ r.print = h.print /\ r.need_flush = h.need_flush
               /\ r.step_gen = h.step_gen /\ r.kick = h.kick
               /\ r.flush_timer = h.flush_timer /\ r.priming_timer = h.priming_timer
               /\ r.queue = h.queue /\ r.kin = h.kin
               /\ r.last_flush = Larger(t, h.last_flush)
               /\ r.min_restart = Larger(h.min_restart, sg)
               /\ r.generated = Larger(h.generated, sg)
               /\ r.unsent = {s \in h.unsent : s >= r.last_flush}
  <1> DEFINE fl == Larger(t, h.last_flush)
             sg == Larger(Smaller(fl + STEPCOMPRESS_FLUSH_TIME, h.print - h.kin), fl)
             r == _advance_flush_time(h, t)
  <1>0. Typed(h)
    BY Fields
  <1>a. fl \in Nat
    BY <1>0 DEF Typed, Larger
  <1>b. sg \in Nat
    <2> HIDE DEF fl
    <2>1. fl + STEPCOMPRESS_FLUSH_TIME \in Int /\ h.print - h.kin \in Int
      BY <1>0, <1>a, Constants DEF Typed
    <2>2. QED
      BY <1>a, <2>1 DEF Larger, Smaller
  <1>1. fl \in Nat /\ sg \in Nat /\ Larger(h.min_restart, sg) \in Nat
        /\ Larger(h.generated, sg) \in Nat
    <2> HIDE DEF fl, sg
    <2>1. QED
      BY <1>0, <1>a, <1>b DEF Larger, Typed
  <1>2. r = [h EXCEPT !.last_flush = fl, !.min_restart = Larger(h.min_restart, sg),
                      !.generated = Larger(h.generated, sg),
                      !.unsent = {s \in h.unsent : s >= fl}]
    BY DEF _advance_flush_time
  <1>3. {s \in h.unsent : s >= fl} \in SUBSET Nat
    BY <1>0 DEF Typed
  <1> HIDE DEF fl, sg, r
  <1>4. /\ r.special = h.special /\ r.need_check = h.need_check
        /\ r.print = h.print /\ r.need_flush = h.need_flush
        /\ r.step_gen = h.step_gen /\ r.kick = h.kick
        /\ r.flush_timer = h.flush_timer /\ r.priming_timer = h.priming_timer
        /\ r.queue = h.queue /\ r.kin = h.kin
        /\ r.last_flush = fl /\ r.min_restart = Larger(h.min_restart, sg)
        /\ r.generated = Larger(h.generated, sg)
        /\ r.unsent = {s \in h.unsent : s >= fl}
    BY <1>2 DEF Members
  <1>5. r \in Members
    BY <1>1, <1>2, <1>3 DEF Members
  <1>6. QED
    BY <1>4, <1>5 DEF fl, sg, r

\* The members that neither print_time nor the queuing changes.
Alike(r, h) ==
    /\ r.need_flush = h.need_flush /\ r.step_gen = h.step_gen
    /\ r.kick = h.kick /\ r.flush_timer = h.flush_timer
    /\ r.queue = h.queue /\ r.kin = h.kin

\* _advance_move_time() moves print_time and flushes up to a little before it.
LEMMA AdvanceMove ==
    ASSUME NEW h \in Members, NEW t \in Int
    PROVE  LET r == _advance_move_time(h, t)
           IN  /\ r \in Members /\ Alike(r, h) /\ r.special = h.special
               /\ r.print = Larger(h.print, t)
               /\ r.last_flush = Larger(r.print - h.kin - STEPCOMPRESS_FLUSH_TIME, h.last_flush)
               /\ r.generated >= h.generated /\ r.generated >= r.last_flush
               /\ \/ r.generated <= h.generated \/ r.generated <= r.print - h.kin
                  \/ r.generated <= h.last_flush
               /\ h.generated <= h.min_restart => r.generated <= r.min_restart
               /\ r.unsent = {s \in h.unsent : s >= r.last_flush}
  <1> DEFINE print == Larger(h.print, t)
             p == [h EXCEPT !.print = print]
             ft == print - h.kin - STEPCOMPRESS_FLUSH_TIME
             r == _advance_flush_time(p, ft)
             fl == Larger(ft, h.last_flush)
             sg == Larger(Smaller(fl + STEPCOMPRESS_FLUSH_TIME, print - h.kin), fl)
  <1>0. Typed(h)
    BY Fields
  <1>1. print \in Nat
    BY <1>0 DEF Typed, Larger
  <1>2. ft \in Int
    <2> HIDE DEF print
    <2>1. QED
      BY <1>0, <1>1, Constants DEF Typed
  <1>3. p \in Members /\ p.print = print /\ p.last_flush = h.last_flush
        /\ p.generated = h.generated /\ p.min_restart = h.min_restart
        /\ p.unsent = h.unsent /\ p.special = h.special /\ Alike(p, h)
    <2> HIDE DEF print
    <2>1. QED
      BY <1>1 DEF Members, Alike
  <1>4. r = _advance_move_time(h, t)
    BY DEF _advance_move_time
  <1>5. /\ r \in Members /\ r.print = print /\ r.special = p.special /\ Alike(r, p)
        /\ r.last_flush = fl /\ r.generated = Larger(h.generated, sg)
        /\ r.min_restart = Larger(h.min_restart, sg)
        /\ r.unsent = {s \in h.unsent : s >= r.last_flush}
    <2> HIDE DEF print, p
    <2>1. p.kin = h.kin
      BY <1>3 DEF Alike
    <2>2. QED
      BY <1>2, <1>3, <2>1, AdvanceFlush DEF Alike
  <1>6. fl \in Int /\ sg \in Int /\ sg >= fl
        /\ (sg <= print - h.kin \/ sg <= h.last_flush)
    <2> HIDE DEF print
    <2>1. QED
      BY <1>0, <1>1, <1>2, Constants DEF Typed, Larger, Smaller
  <1>7. QED
    <2> HIDE DEF print, p, r, fl, sg
    <2>1. Alike(r, h) /\ r.special = h.special
      BY <1>3, <1>5 DEF Alike
    <2>2. r.last_flush = Larger(r.print - h.kin - STEPCOMPRESS_FLUSH_TIME, h.last_flush)
      BY <1>5 DEF fl
    <2>3. r.generated >= h.generated /\ r.generated >= r.last_flush
          /\ (\/ r.generated <= h.generated \/ r.generated <= r.print - h.kin
              \/ r.generated <= h.last_flush)
      BY <1>0, <1>1, <1>5, <1>6 DEF Typed, Larger
    <2>4. h.generated <= h.min_restart => r.generated <= r.min_restart
      BY <1>0, <1>5, <1>6 DEF Typed, Larger
    <2>5. r.print = Larger(h.print, t)
      BY <1>5 DEF print
    <2>6. QED
      BY <1>4, <1>5, <2>1, <2>2, <2>3, <2>4, <2>5 DEF ft

\* _calc_print_time() only moves print_time, past the clock and the steps generated.
LEMMA CalcPrintTime ==
    ASSUME NEW h \in Members, est \in Nat
    PROVE  LET r == _calc_print_time(h)
           IN  /\ r \in Members /\ Alike(r, h) /\ r.special = h.special
               /\ r.print >= h.print /\ r.print >= est + BUFFER_TIME_START
               /\ r.print >= h.min_restart + h.kin
               /\ r.last_flush = h.last_flush /\ r.generated = h.generated
               /\ r.min_restart = h.min_restart /\ r.unsent = h.unsent
  <1> DEFINE kt == Larger(est + MIN_KIN_TIME, h.min_restart) + h.kin
             print == Larger(h.print, Larger(est + BUFFER_TIME_START, kt))
             r == _calc_print_time(h)
  <1>0. Typed(h)
    BY Fields
  <1>1. kt \in Nat /\ kt >= h.min_restart + h.kin
    BY <1>0, Constants DEF Typed, Larger
  <1>2. print \in Nat /\ print >= h.print /\ print >= est + BUFFER_TIME_START /\ print >= kt
    <2> HIDE DEF kt
    <2>1. QED
      BY <1>0, <1>1, Constants DEF Typed, Larger
  <1>3. r = [h EXCEPT !.print = print]
    BY DEF _calc_print_time
  <1>4. print >= h.min_restart + h.kin
    <2> HIDE DEF kt, print
    <2>1. QED
      BY <1>0, <1>1, <1>2 DEF Typed
  <1> HIDE DEF kt, print, r
  <1>5. r \in Members /\ Alike(r, h) /\ r.special = h.special /\ r.print = print
        /\ r.last_flush = h.last_flush /\ r.generated = h.generated
        /\ r.min_restart = h.min_restart /\ r.unsent = h.unsent
    BY <1>2, <1>3 DEF Members, Alike
  <1>6. QED
    BY <1>2, <1>4, <1>5 DEF r

\* note_mcu_movequeue_activity() starts the flush timer if it was stopped.
LEMMA NoteActivity ==
    ASSUME NEW h \in Members, NEW t \in Nat, NEW set \in BOOLEAN, est \in Nat
    PROVE  LET r == note_mcu_movequeue_activity(h, t, set)
           IN  /\ r \in Members /\ r.special = h.special /\ r.print = h.print
               /\ r.last_flush = h.last_flush /\ r.generated = h.generated
               /\ r.min_restart = h.min_restart /\ r.unsent = h.unsent
               /\ r.queue = h.queue /\ r.kin = h.kin
               /\ r.need_flush >= h.need_flush /\ r.need_flush >= t
               /\ r.step_gen = (IF set THEN Larger(h.step_gen, t) ELSE h.step_gen)
               /\ r.kick = FALSE
               /\ r.flush_timer = (IF h.kick THEN est ELSE h.flush_timer)
  <1> DEFINE nf == Larger(h.need_flush, t)
             sgt == IF set THEN Larger(h.step_gen, t) ELSE h.step_gen
             ft == IF h.kick THEN est ELSE h.flush_timer
             r == note_mcu_movequeue_activity(h, t, set)
  <1>0. Typed(h)
    BY Fields
  <1>1. nf \in Nat /\ nf >= h.need_flush /\ nf >= t
    BY <1>0 DEF Typed, Larger
  <1>2. sgt \in Nat
    BY <1>0 DEF Typed, Larger
  <1>3. ft \in Int
    BY <1>0 DEF Typed
  <1>4. r = [h EXCEPT !.need_flush = nf, !.step_gen = sgt, !.flush_timer = ft, !.kick = FALSE]
    BY DEF note_mcu_movequeue_activity
  <1> HIDE DEF nf, sgt, ft, r
  <1>5. r \in Members
    BY <1>1, <1>2, <1>3, <1>4 DEF Members
  <1>6. /\ r.special = h.special /\ r.print = h.print
        /\ r.last_flush = h.last_flush /\ r.generated = h.generated
        /\ r.min_restart = h.min_restart /\ r.unsent = h.unsent
        /\ r.queue = h.queue /\ r.kin = h.kin
        /\ r.need_flush = nf /\ r.step_gen = sgt /\ r.kick = FALSE /\ r.flush_timer = ft
    BY <1>4 DEF Members
  <1>7. QED
    BY <1>1, <1>5, <1>6 DEF r, sgt, ft

-----------------------------------------------------------------------------

\* The members at time e outside of "Drip": steps are generated before min_restart
\* and sent up to last_flush; in the main state the moves come after them; the flush
\* timer runs Latency before any unsent step, or is stopped with nothing to send.
Timed(h, e) ==
    /\ h \in Members /\ h.special # "Drip"
    /\ h.generated <= h.min_restart /\ h.last_flush <= h.generated
    /\ h.step_gen <= h.need_flush
    /\ h.special = "Main" =>
         /\ h.generated + h.kin <= h.print
         /\ h.kick = FALSE /\ h.flush_timer + Latency <= h.print
    /\ e <= h.flush_timer + Latency
    /\ h.kick = TRUE => h.unsent = {}
    /\ h.kick = FALSE => h.flush_timer + Latency <= h.last_flush \/ h.flush_timer <= e
    /\ \A s \in h.unsent :
         s >= h.last_flush /\ s < h.step_gen /\ s >= h.flush_timer + Latency

\* In the main state the sending also follows print_time.
Good(h, e) ==
    /\ Timed(h, e)
    /\ h.special = "Main" => h.print - h.kin - STEPCOMPRESS_FLUSH_TIME <= h.last_flush

\* The motion that r has and h has not begins after the steps that h has.
InOrder(r, h) == \A s \in r.unsent : s \in h.unsent \/ s >= h.generated + h.kin

\* Steps that were generated stay so.
Later(r, h) == r.generated >= h.generated /\ r.kin = h.kin

\* _advance_move_time() keeps Good, and makes it of Timed.
LEMMA GoodAdvanceMove ==
    ASSUME NEW h, NEW e \in Nat, Timed(h, e), NEW t \in Int
    PROVE  LET r == _advance_move_time(h, t)
           IN  /\ Good(r, e) /\ InOrder(r, h) /\ Later(r, h)
               /\ r.queue = h.queue /\ r.special = h.special /\ r.unsent \subseteq h.unsent
  <1> DEFINE r == _advance_move_time(h, t)
  <1>0. h \in Members
    BY DEF Timed
  <1>1. Typed(h)
    BY <1>0, Fields
  <1>2. /\ r \in Members /\ Alike(r, h) /\ r.special = h.special
        /\ r.print = Larger(h.print, t)
        /\ r.last_flush = Larger(r.print - h.kin - STEPCOMPRESS_FLUSH_TIME, h.last_flush)
        /\ r.generated >= h.generated /\ r.generated >= r.last_flush
        /\ \/ r.generated <= h.generated \/ r.generated <= r.print - h.kin
           \/ r.generated <= h.last_flush
        /\ h.generated <= h.min_restart => r.generated <= r.min_restart
        /\ r.unsent = {s \in h.unsent : s >= r.last_flush}
    BY <1>0, AdvanceMove
  <1> HIDE DEF r
  <1>3. Typed(r)
    BY <1>2, Fields
  <1>4. r.print >= h.print /\ r.last_flush >= h.last_flush
        /\ r.print - h.kin - STEPCOMPRESS_FLUSH_TIME <= r.last_flush
    BY <1>1, <1>2, <1>3, Constants DEF Typed, Larger
  <1>5. r.generated <= r.min_restart /\ r.last_flush <= r.generated
        /\ r.step_gen <= r.need_flush
    BY <1>1, <1>2, <1>3 DEF Timed, Alike, Typed
  <1>6. r.special = "Main" =>
         /\ r.generated + r.kin <= r.print
         /\ r.print - r.kin - STEPCOMPRESS_FLUSH_TIME <= r.last_flush
         /\ r.kick = FALSE /\ r.flush_timer + Latency <= r.print
    BY <1>1, <1>2, <1>3, <1>4, Constants DEF Timed, Alike, Typed
  <1>7. e <= r.flush_timer + Latency
    BY <1>2 DEF Timed, Alike
  <1>8. r.kick = TRUE => r.unsent = {}
    BY <1>2 DEF Timed, Alike
  <1>9. r.kick = FALSE => r.flush_timer + Latency <= r.last_flush \/ r.flush_timer <= e
    BY <1>1, <1>2, <1>3, <1>4, Constants DEF Timed, Alike, Typed
  <1>10. \A s \in r.unsent :
           s \in h.unsent /\ s >= r.last_flush /\ s < r.step_gen /\ s >= r.flush_timer + Latency
    BY <1>2 DEF Timed, Alike
  <1>11. Good(r, e)
    BY <1>2, <1>5, <1>6, <1>7, <1>8, <1>9, <1>10 DEF Good, Timed
  <1>12. QED
    BY <1>2, <1>10, <1>11 DEF InOrder, Later, Alike, r

\* Flushing outside of the main state keeps Good.
LEMMA GoodAdvanceFlush ==
    ASSUME NEW h, NEW e \in Nat, Good(h, e), h.special # "Main", NEW t \in Int
    PROVE  LET r == _advance_flush_time(h, t)
           IN  /\ Good(r, e) /\ InOrder(r, h) /\ Later(r, h)
               /\ Alike(r, h) /\ r.special = h.special
               /\ r.unsent = {s \in h.unsent : s >= r.last_flush}
               /\ r.last_flush = Larger(t, h.last_flush) /\ r.print = h.print
  <1> DEFINE r == _advance_flush_time(h, t)
             sg == Larger(Smaller(Larger(t, h.last_flush) + STEPCOMPRESS_FLUSH_TIME,
                                  h.print - h.kin), Larger(t, h.last_flush))
  <1>0. h \in Members
    BY DEF Good, Timed
  <1>1. Typed(h)
    BY <1>0, Fields
  <1>2. /\ r \in Members /\ Alike(r, h) /\ r.special = h.special /\ r.print = h.print
        /\ r.last_flush = Larger(t, h.last_flush)
        /\ r.min_restart = Larger(h.min_restart, sg)
        /\ r.generated = Larger(h.generated, sg)
        /\ r.unsent = {s \in h.unsent : s >= r.last_flush}
    BY <1>0, AdvanceFlush DEF Alike
  <1>3. sg \in Int /\ sg >= r.last_flush
    <2>1. Larger(t, h.last_flush) \in Int
      BY <1>1 DEF Typed, Larger
    <2>2. QED
      <3> DEFINE fl == Larger(t, h.last_flush)
      <3>1. r.last_flush = fl /\ fl \in Int
        BY <1>2, <2>1
      <3> HIDE DEF fl
      <3>2. sg = Larger(Smaller(fl + STEPCOMPRESS_FLUSH_TIME, h.print - h.kin), fl)
        BY DEF fl
      <3> HIDE DEF sg
      <3>3. QED
        BY <1>1, <3>1, <3>2, Constants DEF Typed, Larger, Smaller
  <1> HIDE DEF r, sg
  <1>4. Typed(r)
    BY <1>2, Fields
  <1>5. r.last_flush >= h.last_flush /\ r.generated >= h.generated
    BY <1>1, <1>2, <1>3 DEF Typed, Larger
  <1>6. r.generated <= r.min_restart /\ r.last_flush <= r.generated
        /\ r.step_gen <= r.need_flush
    BY <1>1, <1>2, <1>3, <1>4 DEF Good, Timed, Alike, Typed, Larger
  <1>7. r.kick = FALSE => r.flush_timer + Latency <= r.last_flush \/ r.flush_timer <= e
    BY <1>1, <1>2, <1>4, <1>5, Constants DEF Good, Timed, Alike, Typed
  <1>8. \A s \in r.unsent :
           s \in h.unsent /\ s >= r.last_flush /\ s < r.step_gen /\ s >= r.flush_timer + Latency
    BY <1>2 DEF Good, Timed, Alike
  <1>9. Good(r, e)
    BY <1>2, <1>6, <1>7, <1>8 DEF Good, Timed, Alike
  <1>10. QED
    BY <1>2, <1>5, <1>8, <1>9 DEF InOrder, Later, Alike, r

\* Only the queuing state, the queue and the priming timer differ, or what a state
\* other than the main one does not depend on.
LEMMA GoodSame ==
    ASSUME NEW h, NEW e \in Nat, Good(h, e), NEW r \in Members,
           r.special \in {h.special, "NeedPrime", "Priming"},
           r.special = "Main" => r.print = h.print /\ r.kin = h.kin,
           r.last_flush = h.last_flush, r.generated = h.generated,
           r.min_restart >= h.min_restart, r.need_flush >= h.need_flush,
           r.step_gen = h.step_gen, r.kick = h.kick, r.flush_timer = h.flush_timer,
           r.unsent = h.unsent
    PROVE  Good(r, e) /\ InOrder(r, h)
  <1>1. h \in Members
    BY DEF Good, Timed
  <1>2. Typed(h) /\ Typed(r)
    BY <1>1, Fields
  <1>3. r.special # "Drip"
    BY DEF Good, Timed
  <1>4. r.generated <= r.min_restart /\ r.last_flush <= r.generated
        /\ r.step_gen <= r.need_flush
    BY <1>2 DEF Good, Timed, Typed
  <1>5. r.special = "Main" =>
         /\ r.generated + r.kin <= r.print
         /\ r.kick = FALSE /\ r.flush_timer + Latency <= r.print
         /\ r.print - r.kin - STEPCOMPRESS_FLUSH_TIME <= r.last_flush
    BY DEF Good, Timed
  <1>6. Good(r, e)
    BY <1>3, <1>4, <1>5 DEF Good, Timed
  <1>7. QED
    BY <1>6 DEF InOrder

\* _process_moves() keeps Good, and its moves come after the generated steps.
LEMMA GoodProcess ==
    ASSUME NEW h, est \in 0..MaxTime, Good(h, est), NEW t \in Nat
    PROVE  LET r == _process_moves(h, t)
           IN  /\ Good(r, est) /\ InOrder(r, h) /\ Later(r, h)
               /\ r.queue = h.queue /\ r.special = "Main"
  <1> DEFINE m == [h EXCEPT !.special = "Main", !.need_check = -1]
             q == IF h.special = "Main" THEN h ELSE _calc_print_time(m)
             p == trapq_append(q, t)
             n == note_mcu_movequeue_activity(p, p.print + t + p.kin, TRUE)
             r == _advance_move_time(n, p.print + t)
  <1>0. est \in Nat /\ est < NEVER
    BY Constants
  <1>1. h \in Members /\ Typed(h)
    BY Fields DEF Good, Timed
  <1>2. m \in Members /\ Alike(m, h) /\ m.special = "Main" /\ m.print = h.print
        /\ m.last_flush = h.last_flush /\ m.generated = h.generated
        /\ m.min_restart = h.min_restart /\ m.unsent = h.unsent
    <2> DEFINE i == -1
    <2>1. i \in Int /\ m = [h EXCEPT !.special = "Main", !.need_check = i]
      OBVIOUS
    <2> HIDE DEF i, m
    <2>2. QED
      BY <1>1, <2>1 DEF Members, Alike
  <1>3. /\ q \in Members /\ Alike(q, h) /\ q.special = "Main"
        /\ q.last_flush = h.last_flush /\ q.generated = h.generated
        /\ q.min_restart = h.min_restart /\ q.unsent = h.unsent
        /\ h.special # "Main" => /\ q.print >= est + BUFFER_TIME_START
                                 /\ q.print >= h.min_restart + h.kin
        /\ h.special = "Main" => q.print = h.print
    <2> HIDE DEF m
    <2>1. CASE h.special = "Main"
      BY <1>1, <2>1 DEF Alike
    <2>2. CASE h.special # "Main"
      <3>1. q = _calc_print_time(m)
        BY <2>2
      <3> HIDE DEF q
      <3>2. /\ q \in Members /\ Alike(q, m) /\ q.special = m.special
            /\ q.print >= est + BUFFER_TIME_START /\ q.print >= m.min_restart + m.kin
            /\ q.last_flush = m.last_flush /\ q.generated = m.generated
            /\ q.min_restart = m.min_restart /\ q.unsent = m.unsent
        BY <1>0, <1>2, <3>1, CalcPrintTime
      <3>3. QED
        BY <1>2, <2>2, <3>2 DEF Alike
    <2>3. QED
      BY <2>1, <2>2
  <1> HIDE DEF m, q
  <1>4. Typed(q)
    BY <1>3, Fields
  <1>5. /\ q.print >= h.generated + h.kin
        /\ q.print >= h.last_flush
        /\ h.kick = TRUE => q.print >= est + Latency
        /\ h.kick = FALSE => q.print >= h.flush_timer + Latency
    <2>1. CASE h.special = "Main"
      BY <1>1, <1>3, <1>4, <2>1 DEF Good, Timed, Typed
    <2>2. CASE h.special # "Main"
      <3>1. q.print >= h.min_restart + h.kin /\ q.print >= est + Latency
        BY <1>0, <1>1, <1>3, <1>4, <2>2, Constants DEF Typed
      <3>2. h.generated <= h.min_restart /\ h.last_flush <= h.generated
            /\ (h.kick = FALSE => h.flush_timer + Latency <= h.last_flush \/ h.flush_timer <= est)
        BY DEF Good, Timed
      <3>3. QED
        BY <1>0, <1>1, <1>4, <3>1, <3>2, Constants DEF Typed
    <2>3. QED
      BY <2>1, <2>2
  <1> DEFINE new == q.print..(q.print + t - 1)
  <1>6. new \subseteq Nat /\ \A s \in new : s >= q.print /\ s < q.print + t
    BY <1>4 DEF Typed
  <1>7. p = [q EXCEPT !.unsent = q.unsent \cup new]
    BY DEF trapq_append
  <1> HIDE DEF new, p
  <1>8. /\ p \in Members /\ Alike(p, h) /\ p.special = "Main" /\ p.print = q.print
        /\ p.last_flush = h.last_flush /\ p.generated = h.generated
        /\ p.min_restart = h.min_restart /\ p.unsent = h.unsent \cup new
    <2>1. q.unsent \cup new \in SUBSET Nat
      BY <1>4, <1>6 DEF Typed
    <2>2. p \in Members
      BY <1>3, <1>7, <2>1 DEF Members
    <2>3. QED
      BY <1>3, <1>7, <2>2 DEF Members, Alike
  <1>9. Typed(p)
    BY <1>8, Fields
  <1>10. p.print + t + p.kin \in Nat /\ p.print + t \in Int
    BY <1>9 DEF Typed
  <1>11. /\ n \in Members /\ n.special = p.special /\ n.print = p.print
         /\ n.last_flush = p.last_flush /\ n.generated = p.generated
         /\ n.min_restart = p.min_restart /\ n.unsent = p.unsent
         /\ n.queue = p.queue /\ n.kin = p.kin
         /\ n.need_flush >= p.need_flush /\ n.need_flush >= p.print + t + p.kin
         /\ n.step_gen = Larger(p.step_gen, p.print + t + p.kin)
         /\ n.kick = FALSE
         /\ n.flush_timer = (IF p.kick THEN est ELSE p.flush_timer)
    BY <1>0, <1>8, <1>10, NoteActivity
  <1> HIDE DEF n
  <1>12. Typed(n)
    BY <1>11, Fields
  <1>13. Timed(n, est)
    <2>1. n.step_gen <= n.need_flush /\ n.step_gen >= h.step_gen
          /\ n.step_gen >= q.print + t + h.kin
      BY <1>1, <1>4, <1>8, <1>9, <1>11, <1>12 DEF Good, Timed, Typed, Alike, Larger
    <2>2. n.flush_timer + Latency <= q.print /\ est <= n.flush_timer + Latency
      <3>1. CASE h.kick = TRUE
        BY <1>0, <1>5, <1>8, <1>11, <3>1, Constants DEF Alike
      <3>2. CASE h.kick = FALSE
        <4>1. n.flush_timer = h.flush_timer
          BY <1>8, <1>11, <3>2 DEF Alike
        <4>2. QED
          BY <1>5, <3>2, <4>1 DEF Good, Timed
      <3>3. QED
        BY <1>1, <3>1, <3>2 DEF Typed
    <2>3. n.flush_timer + Latency <= n.last_flush \/ n.flush_timer <= est
      <3>1. CASE h.kick = TRUE
        BY <1>0, <1>8, <1>11, <3>1 DEF Alike
      <3>2. CASE h.kick = FALSE
        <4>1. n.flush_timer = h.flush_timer /\ n.last_flush = h.last_flush
          BY <1>8, <1>11, <3>2 DEF Alike
        <4>2. QED
          BY <3>2, <4>1 DEF Good, Timed
      <3>3. QED
        BY <1>1, <3>1, <3>2 DEF Typed
    <2>4. ASSUME NEW s \in n.unsent
          PROVE  s >= n.last_flush /\ s < n.step_gen /\ s >= n.flush_timer + Latency
      <3>0. s \in Nat
        BY <1>12 DEF Typed
      <3>1. CASE s \in new
        <4>1. s >= q.print /\ s < q.print + t
          BY <1>6, <3>1
        <4>2. QED
          BY <1>1, <1>4, <1>5, <1>8, <1>11, <1>12, <2>1, <2>2, <3>0, <4>1, Constants DEF Typed
      <3>2. CASE s \in h.unsent
        <4>1. h.kick = FALSE
          BY <1>1, <3>2 DEF Good, Timed, Typed
        <4>2. n.flush_timer = h.flush_timer /\ n.last_flush = h.last_flush
          BY <1>8, <1>11, <4>1 DEF Alike
        <4>3. s >= h.last_flush /\ s < h.step_gen /\ s >= h.flush_timer + Latency
          BY <3>2 DEF Good, Timed
        <4>4. QED
          BY <1>1, <1>12, <2>1, <3>0, <4>2, <4>3 DEF Typed
      <3>3. QED
        BY <1>8, <1>11, <3>1, <3>2
    <2>5. n.special = "Main" /\ n.generated <= n.min_restart /\ n.last_flush <= n.generated
          /\ n.generated + n.kin <= n.print
      <3>1. n.generated = h.generated /\ n.min_restart = h.min_restart
            /\ n.last_flush = h.last_flush /\ n.kin = h.kin /\ n.print = q.print
            /\ n.special = "Main"
        BY <1>8, <1>11 DEF Alike
      <3>2. h.generated <= h.min_restart /\ h.last_flush <= h.generated
        BY DEF Good, Timed
      <3>3. QED
        BY <1>1, <1>4, <1>5, <3>1, <3>2 DEF Typed
    <2>6. n.flush_timer + Latency <= n.print
      BY <1>8, <1>11, <2>2
    <2>7. QED
      BY <1>11, <2>1, <2>2, <2>3, <2>4, <2>5, <2>6 DEF Timed
  <1>14. Good(r, est) /\ r.queue = n.queue /\ r.special = n.special /\ r.unsent \subseteq n.unsent
         /\ Later(r, n)
    BY <1>0, <1>10, <1>13, GoodAdvanceMove
  <1>15. r = _process_moves(h, t)
    BY DEF _process_moves, r, n, p, q, m
  <1> HIDE DEF r
  <1>16. InOrder(r, h)
    <2>1. ASSUME NEW s \in r.unsent PROVE s \in h.unsent \/ s >= h.generated + h.kin
      <3>1. s \in h.unsent \/ s \in new
        BY <1>8, <1>11, <1>14
      <3>2. ASSUME s \in new PROVE s >= h.generated + h.kin
        <4>1. s >= q.print /\ s \in Nat
          BY <1>6, <3>2
        <4>2. QED
          BY <1>1, <1>4, <1>5, <4>1 DEF Typed
      <3>3. QED
        BY <3>1, <3>2
    <2>2. QED
      BY <2>1 DEF InOrder
  <1>17. Later(r, h)
    BY <1>8, <1>11, <1>14 DEF Alike, Later
  <1>18. QED
    BY <1>8, <1>11, <1>14, <1>15, <1>16, <1>17 DEF Alike

\* flush() of the look-ahead queue keeps Good and empties the queue.
LEMMA GoodFlush ==
    ASSUME NEW h, est \in 0..MaxTime, Good(h, est), NEW t \in Nat
    PROVE  LET r == flush(h, t)
           IN  /\ Good(r, est) /\ InOrder(r, h) /\ Later(r, h) /\ r.queue = 0
               /\ r.special = h.special \/ r.special = "Main"
               /\ h.queue = 0 => r = h
  <1>0. h \in Members /\ est \in Nat
    BY Constants DEF Good, Timed
  <1>1. CASE h.queue = 0
    <2>1. Typed(h)
      BY <1>0, Fields
    <2>2. Later(h, h)
      BY <2>1 DEF Later, Typed
    <2>3. QED
      BY <1>1, <2>2 DEF flush, InOrder
  <1>2. CASE h.queue # 0
    <2> DEFINE z == [h EXCEPT !.queue = 0]
               r == _process_moves(z, t)
    <2>1. r = flush(h, t)
      BY <1>2 DEF flush
    <2>2. z \in Members /\ z.queue = 0 /\ z.special = h.special /\ z.print = h.print
          /\ z.kin = h.kin /\ z.last_flush = h.last_flush /\ z.generated = h.generated
          /\ z.min_restart = h.min_restart /\ z.need_flush = h.need_flush
          /\ z.step_gen = h.step_gen /\ z.kick = h.kick /\ z.flush_timer = h.flush_timer
          /\ z.unsent = h.unsent
      BY <1>0, Constants DEF Members
    <2> HIDE DEF z
    <2>3. Typed(h)
      BY <1>0, Fields
    <2>4. Good(z, est)
      BY <1>0, <2>2, <2>3, GoodSame DEF Typed
    <2>5. Good(r, est) /\ InOrder(r, z) /\ Later(r, z) /\ r.queue = z.queue
          /\ r.special = "Main"
      BY <2>4, GoodProcess
    <2>6. InOrder(r, h) /\ Later(r, h)
      BY <2>2, <2>5 DEF InOrder, Later
    <2>7. QED
      BY <1>2, <2>1, <2>2, <2>5, <2>6
  <1>3. QED
    BY <1>1, <1>2

\* _flush_lookahead() keeps Good and leaves the main state.
LEMMA GoodFlushLookahead ==
    ASSUME NEW h, est \in 0..MaxTime, Good(h, est), NEW t \in Nat
    PROVE  LET r == _flush_lookahead(h, t)
           IN  /\ Good(r, est) /\ InOrder(r, h) /\ Later(r, h) /\ r.queue = 0
               /\ r.special = "NeedPrime"
               /\ h.queue = 0 => r.unsent = h.unsent
  <1> DEFINE f == flush(h, t)
             i == -1
             r == [f EXCEPT !.special = "NeedPrime", !.need_check = i]
  <1>1. Good(f, est) /\ InOrder(f, h) /\ Later(f, h) /\ f.queue = 0 /\ (h.queue = 0 => f = h)
    BY GoodFlush
  <1>2. i \in Int /\ r = _flush_lookahead(h, t)
    BY DEF _flush_lookahead
  <1> HIDE DEF f, i
  <1>3. f \in Members /\ Typed(f) /\ est \in Nat
    BY <1>1, Fields, Constants DEF Good, Timed
  <1>4. r \in Members /\ r.queue = f.queue /\ r.special = "NeedPrime"
        /\ r.kin = f.kin /\ r.last_flush = f.last_flush /\ r.generated = f.generated
        /\ r.min_restart = f.min_restart /\ r.need_flush = f.need_flush
        /\ r.step_gen = f.step_gen /\ r.kick = f.kick /\ r.flush_timer = f.flush_timer
        /\ r.unsent = f.unsent
    BY <1>2, <1>3 DEF Members
  <1> HIDE DEF r
  <1>5. Good(r, est)
    BY <1>1, <1>3, <1>4, GoodSame DEF Typed
  <1>6. InOrder(r, h) /\ Later(r, h)
    BY <1>1, <1>4 DEF InOrder, Later
  <1>7. QED
    BY <1>1, <1>2, <1>4, <1>5, <1>6

\* flush_step_generation() sends everything.
LEMMA GoodFlushStepGeneration ==
    ASSUME NEW h, est \in 0..MaxTime, Good(h, est), NEW t \in Nat
    PROVE  LET r == flush_step_generation(h, t)
           IN  /\ Good(r, est) /\ Later(r, h) /\ r.unsent = {} /\ r.queue = 0
               /\ r.special = "NeedPrime"
  <1> DEFINE f == _flush_lookahead(h, t)
             a == _advance_flush_time(f, f.step_gen)
             mr == Larger(a.min_restart, f.print)
             r == [a EXCEPT !.min_restart = mr]
  <1>1. Good(f, est) /\ f.queue = 0 /\ f.special = "NeedPrime" /\ Later(f, h)
    BY GoodFlushLookahead
  <1>2. r = flush_step_generation(h, t)
    BY DEF flush_step_generation
  <1> HIDE DEF f
  <1>3. f \in Members /\ Typed(f) /\ est \in Nat
    BY <1>1, Fields, Constants DEF Good, Timed
  <1>4. f.step_gen \in Int /\ f.special # "Main"
    BY <1>1, <1>3 DEF Typed
  <1>5. /\ Good(a, est) /\ Alike(a, f) /\ Later(a, f) /\ a.special = f.special
        /\ a.unsent = {s \in f.unsent : s >= a.last_flush}
        /\ a.last_flush = Larger(f.step_gen, f.last_flush)
    BY <1>1, <1>3, <1>4, GoodAdvanceFlush
  <1> HIDE DEF a
  <1>6. a \in Members /\ Typed(a)
    BY <1>5, Fields DEF Good, Timed
  <1>7. a.unsent = {}
    <2>1. a.last_flush >= f.step_gen
      BY <1>3, <1>5 DEF Typed, Larger
    <2>2. \A s \in f.unsent : s \in Nat /\ s < f.step_gen
      BY <1>1, <1>3 DEF Good, Timed, Typed
    <2>3. QED
      BY <1>3, <1>5, <1>6, <2>1, <2>2 DEF Typed
  <1>8. mr \in Nat /\ mr >= a.min_restart
    BY <1>3, <1>6 DEF Typed, Larger
  <1> HIDE DEF mr
  <1>9. r \in Members /\ r.queue = a.queue /\ r.special = a.special
        /\ r.kin = a.kin /\ r.last_flush = a.last_flush /\ r.generated = a.generated
        /\ r.min_restart = mr /\ r.need_flush = a.need_flush
        /\ r.step_gen = a.step_gen /\ r.kick = a.kick /\ r.flush_timer = a.flush_timer
        /\ r.unsent = a.unsent /\ r.print = a.print
    BY <1>6, <1>8 DEF Members
  <1> HIDE DEF r
  <1>10. Good(r, est)
    <2>1. r.min_restart >= a.min_restart /\ r.need_flush >= a.need_flush
      BY <1>6, <1>8, <1>9 DEF Typed
    <2>2. r.special \in {a.special, "NeedPrime", "Priming"}
      BY <1>9
    <2>3. QED
      BY <1>3, <1>5, <1>9, <2>1, <2>2, GoodSame
  <1>11. Later(r, h)
    <2>1. Typed(h) /\ Typed(r)
      BY <1>9, Fields DEF Good, Timed
    <2>2. QED
      BY <1>1, <1>3, <1>5, <1>6, <1>9, <2>1 DEF Later, Typed
  <1>12. QED
    BY <1>1, <1>2, <1>5, <1>7, <1>9, <1>10, <1>11 DEF Alike

\* get_last_move_time() keeps Good.
LEMMA GoodLastMoveTime ==
    ASSUME NEW h, est \in 0..MaxTime, Good(h, est), NEW t \in Nat
    PROVE  LET r == get_last_move_time(h, t)
           IN  /\ Good(r, est) /\ InOrder(r, h) /\ Later(r, h) /\ r.queue = 0
               /\ h.queue = 0 => r.unsent = h.unsent
  <1>1. CASE h.special = "Main"
    <2>1. get_last_move_time(h, t) = flush(h, t)
      BY <1>1 DEF get_last_move_time
    <2>2. QED
      BY <2>1, GoodFlush
  <1>2. CASE h.special # "Main"
    <2> DEFINE f == _flush_lookahead(h, t)
               r == _calc_print_time(f)
    <2>1. Good(f, est) /\ InOrder(f, h) /\ f.queue = 0 /\ f.special = "NeedPrime"
          /\ Later(f, h) /\ (h.queue = 0 => f.unsent = h.unsent)
      BY GoodFlushLookahead
    <2>2. get_last_move_time(h, t) = r
      BY <1>2 DEF get_last_move_time
    <2> HIDE DEF f
    <2>3. f \in Members /\ Typed(f) /\ est \in Nat
      BY <2>1, Fields, Constants DEF Good, Timed
    <2>4. /\ r \in Members /\ Alike(r, f) /\ r.special = f.special
          /\ r.last_flush = f.last_flush /\ r.generated = f.generated
          /\ r.min_restart = f.min_restart /\ r.unsent = f.unsent
      BY <2>3, CalcPrintTime
    <2> HIDE DEF r
    <2>5. r.need_flush = f.need_flush /\ r.step_gen = f.step_gen /\ r.kick = f.kick
          /\ r.flush_timer = f.flush_timer /\ r.kin = f.kin /\ r.queue = f.queue
      BY <2>4 DEF Alike
    <2>6. Good(r, est)
      BY <2>1, <2>3, <2>4, <2>5, GoodSame DEF Typed
    <2>7. InOrder(r, h) /\ Later(r, h)
      BY <2>1, <2>4, <2>5 DEF InOrder, Later
    <2>8. QED
      BY <2>1, <2>2, <2>4, <2>5, <2>6, <2>7
  <1>3. QED
    BY <1>1, <1>2

\* An activity without steps keeps Good.
LEMMA GoodNote ==
    ASSUME NEW h, est \in 0..MaxTime, Good(h, est), NEW t \in Nat
    PROVE  LET r == note_mcu_movequeue_activity(h, t, FALSE)
           IN  Good(r, est) /\ InOrder(r, h) /\ r.queue = h.queue /\ r.special = h.special
  <1> DEFINE r == note_mcu_movequeue_activity(h, t, FALSE)
  <1>1. h \in Members /\ Typed(h) /\ est \in Nat
    BY Fields, Constants DEF Good, Timed
  <1>2. FALSE \in BOOLEAN
    OBVIOUS
  <1>3. /\ r \in Members /\ r.special = h.special /\ r.print = h.print
        /\ r.last_flush = h.last_flush /\ r.generated = h.generated
        /\ r.min_restart = h.min_restart /\ r.unsent = h.unsent
        /\ r.queue = h.queue /\ r.kin = h.kin
        /\ r.need_flush >= h.need_flush
        /\ r.step_gen = h.step_gen
        /\ r.kick = FALSE
        /\ r.flush_timer = (IF h.kick THEN est ELSE h.flush_timer)
    BY <1>1, <1>2, NoteActivity
  <1> HIDE DEF r
  <1>4. Typed(r)
    BY <1>3, Fields
  <1>5. CASE h.kick = TRUE
    <2>1. r.flush_timer = est /\ r.unsent = {} /\ h.special # "Main"
      BY <1>3, <1>5 DEF Good, Timed
    <2>2. est <= r.flush_timer + Latency /\ r.flush_timer <= est
      BY <1>1, <2>1, Constants
    <2>3. r.step_gen <= r.need_flush
      BY <1>1, <1>3, <1>4 DEF Good, Timed, Typed
    <2>4. r.generated <= r.min_restart /\ r.last_flush <= r.generated /\ r.special # "Drip"
      BY <1>3 DEF Good, Timed
    <2>5. Good(r, est)
      BY <1>3, <2>1, <2>2, <2>3, <2>4 DEF Good, Timed
    <2>6. QED
      BY <1>3, <2>5 DEF InOrder, r
  <1>6. CASE h.kick = FALSE
    <2>1. r.flush_timer = h.flush_timer
      BY <1>3, <1>6
    <2>2. r.min_restart >= h.min_restart
      BY <1>1, <1>3 DEF Typed
    <2>3. Good(r, est) /\ InOrder(r, h)
      BY <1>1, <1>3, <1>6, <2>1, <2>2, GoodSame
    <2>4. QED
      BY <1>3, <2>3 DEF r
  <1>7. QED
    BY <1>1, <1>5, <1>6 DEF Typed

\* Starting the priming timer keeps Good.
LEMMA GoodPrime ==
    ASSUME NEW h, est \in 0..MaxTime, Good(h, est)
    PROVE  LET r == Prime(h)
           IN  /\ Good(r, est) /\ InOrder(r, h) /\ Later(r, h) /\ r.queue = h.queue
               /\ r.unsent = h.unsent /\ r.print = h.print
  <1>0. h \in Members /\ Typed(h) /\ est \in Nat
    BY Fields, Constants DEF Good, Timed
  <1>1. CASE h.special = "Main"
    <2>1. Later(h, h)
      BY <1>0 DEF Later, Typed
    <2>2. QED
      BY <1>1, <2>1 DEF Prime, InOrder
  <1>2. CASE h.special # "Main"
    <2> DEFINE i == -1
               pt == est + Larger(CHECK_PAUSE_TIME, h.print - est - BUFFER_TIME_LOW)
               r == [h EXCEPT !.special = "Priming", !.need_check = i, !.priming_timer = pt]
    <2>1. i \in Int /\ pt \in Int
      BY <1>0, Constants DEF Typed, Larger
    <2>2. r = Prime(h)
      BY <1>2 DEF Prime
    <2> HIDE DEF i, pt
    <2>3. r \in Members /\ r.queue = h.queue /\ r.special = "Priming" /\ r.print = h.print
          /\ r.kin = h.kin /\ r.last_flush = h.last_flush /\ r.generated = h.generated
          /\ r.min_restart = h.min_restart /\ r.need_flush = h.need_flush
          /\ r.step_gen = h.step_gen /\ r.kick = h.kick /\ r.flush_timer = h.flush_timer
          /\ r.unsent = h.unsent
      BY <1>0, <2>1 DEF Members
    <2> HIDE DEF r
    <2>4. r.min_restart >= h.min_restart /\ r.need_flush >= h.need_flush
      BY <1>0, <2>3 DEF Typed
    <2>5. Good(r, est) /\ InOrder(r, h)
      BY <1>0, <2>3, <2>4, GoodSame
    <2>6. Later(r, h)
      BY <1>0, <2>3 DEF Later, Typed
    <2>7. QED
      BY <2>2, <2>3, <2>5, <2>6
  <1>3. QED
    BY <1>1, <1>2

\* The time of the next check does not matter to Good.
LEMMA GoodChecked ==
    ASSUME NEW h, est \in 0..MaxTime, Good(h, est)
    PROVE  LET r == Checked(h)
           IN  Good(r, est) /\ r.unsent = h.unsent /\ r.queue = h.queue
  <1>0. h \in Members /\ Typed(h) /\ est \in Nat
    BY Fields, Constants DEF Good, Timed
  <1>1. CASE h.special = "Main" /\ ~MustPause(h)
    <2> DEFINE i == est + BUFFER_TIME_HIGH + SLACK
               r == [h EXCEPT !.need_check = i]
    <2>1. i \in Int
      BY <1>0, Constants
    <2>2. r = Checked(h)
      BY <1>1 DEF Checked
    <2> HIDE DEF i
    <2>3. r \in Members /\ r.queue = h.queue /\ r.special = h.special /\ r.print = h.print
          /\ r.kin = h.kin /\ r.last_flush = h.last_flush /\ r.generated = h.generated
          /\ r.min_restart = h.min_restart /\ r.need_flush = h.need_flush
          /\ r.step_gen = h.step_gen /\ r.kick = h.kick /\ r.flush_timer = h.flush_timer
          /\ r.unsent = h.unsent
      BY <1>0, <2>1 DEF Members
    <2> HIDE DEF r
    <2>4. r.min_restart >= h.min_restart /\ r.need_flush >= h.need_flush
      BY <1>0, <2>3 DEF Typed
    <2>5. Good(r, est) /\ InOrder(r, h)
      BY <1>0, <2>3, <2>4, GoodSame
    <2>6. QED
      BY <2>2, <2>3, <2>5
  <1>2. CASE ~(h.special = "Main" /\ ~MustPause(h))
    <2>1. Checked(h) = h
      BY <1>2 DEF Checked
    <2>2. QED
      BY <2>1 DEF InOrder
  <1>3. QED
    BY <1>1, <1>2

\* The next time of the flush timer is early enough, or nothing is left to send.
LEMMA GoodRest ==
    ASSUME NEW h, est \in 0..MaxTime, Good(h, est), h.special # "Main",
           h.last_flush >= h.need_flush + BGFLUSH_EXTRA_TIME
             \/ h.last_flush - est > BGFLUSH_LOW_TIME
    PROVE  LET r == Rest(h)
           IN  Good(r, est) /\ r.unsent = h.unsent /\ r.queue = h.queue
               /\ r.special = h.special
  <1>0. h \in Members /\ Typed(h) /\ est \in Nat /\ est < NEVER
    BY Fields, Constants DEF Good, Timed
  <1>1. CASE h.last_flush >= h.need_flush + BGFLUSH_EXTRA_TIME
    <2> DEFINE r == [h EXCEPT !.kick = TRUE, !.flush_timer = NEVER]
    <2>1. r = Rest(h)
      BY <1>1 DEF Rest
    <2>a. TRUE \in BOOLEAN /\ NEVER \in Int
      BY Constants
    <2>2. r \in Members
      BY <1>0, <2>a DEF Members
    <2>3. /\ r.queue = h.queue /\ r.special = h.special /\ r.print = h.print
          /\ r.kin = h.kin /\ r.last_flush = h.last_flush /\ r.generated = h.generated
          /\ r.min_restart = h.min_restart /\ r.need_flush = h.need_flush
          /\ r.step_gen = h.step_gen /\ r.flush_timer = NEVER
          /\ r.unsent = h.unsent
      BY <1>0 DEF Members
    <2>4. r.kick = TRUE
      BY <1>0 DEF Members
    <2> HIDE DEF r
    <2>5. h.unsent = {}
      <3>1. \A s \in h.unsent : s \in Nat /\ s >= h.last_flush /\ s < h.step_gen
        BY <1>0 DEF Good, Timed, Typed
      <3>2. h.step_gen <= h.need_flush
        BY DEF Good, Timed
      <3>3. QED
        BY <1>0, <1>1, <3>1, <3>2, Constants DEF Typed
    <2>6. est <= r.flush_timer + Latency
      BY <1>0, <2>3, Constants
    <2>7. Good(r, est)
      BY <2>2, <2>3, <2>4, <2>5, <2>6 DEF Good, Timed
    <2>8. QED
      BY <2>1, <2>3, <2>7
  <1>2. CASE ~(h.last_flush >= h.need_flush + BGFLUSH_EXTRA_TIME)
    <2> DEFINE ft == h.last_flush - BGFLUSH_LOW_TIME
               r == [h EXCEPT !.flush_timer = ft]
    <2>1. r = Rest(h)
      BY <1>2 DEF Rest
    <2>2. ft \in Int /\ ft + Latency <= h.last_flush /\ est <= ft + Latency
      BY <1>0, <1>2, Constants DEF Typed
    <2> HIDE DEF ft
    <2>3. /\ r \in Members
          /\ r.queue = h.queue /\ r.special = h.special /\ r.print = h.print
          /\ r.kin = h.kin /\ r.last_flush = h.last_flush /\ r.generated = h.generated
          /\ r.min_restart = h.min_restart /\ r.need_flush = h.need_flush
          /\ r.step_gen = h.step_gen /\ r.flush_timer = ft
          /\ r.unsent = h.unsent /\ r.kick = h.kick
      BY <1>0, <2>2 DEF Members
    <2> HIDE DEF r
    <2>4. \A s \in r.unsent : s >= r.last_flush /\ s < r.step_gen /\ s >= r.flush_timer + Latency
      <3>1. \A s \in h.unsent : s \in Nat /\ s >= h.last_flush /\ s < h.step_gen
        BY <1>0 DEF Good, Timed, Typed
      <3>2. \A s \in h.unsent : s >= ft + Latency
        BY <1>0, <2>2, <3>1, Constants DEF Typed
      <3>3. QED
        BY <2>3, <3>1, <3>2
    <2>5. Good(r, est)
      BY <2>2, <2>3, <2>4 DEF Good, Timed
    <2>6. QED
      BY <2>1, <2>3, <2>5
  <1>3. QED
    BY <1>1, <1>2

\* _flush_handler() outside of the main state keeps Good.
LEMMA GoodBackground ==
    ASSUME NEW h, est \in 0..MaxTime, Good(h, est), h.special # "Main"
    PROVE  LET r == Background(h)
           IN  Good(r, est) /\ InOrder(r, h) /\ r.queue = h.queue /\ r.special = h.special
               /\ r.unsent \subseteq h.unsent
  <1> DEFINE end == h.need_flush + BGFLUSH_EXTRA_TIME
             ftime == Smaller(end, est + BGFLUSH_LOW_TIME + BGFLUSH_BATCH_TIME)
             a == _advance_flush_time(h, ftime)
  <1>0. h \in Members /\ Typed(h) /\ est \in Nat
    BY Fields, Constants DEF Good, Timed
  <1>1. CASE h.last_flush >= end \/ h.last_flush - est > BGFLUSH_LOW_TIME
    <2>1. Background(h) = Rest(h)
      BY <1>1 DEF Background
    <2>2. Good(Rest(h), est) /\ Rest(h).unsent = h.unsent /\ Rest(h).queue = h.queue
          /\ Rest(h).special = h.special
      BY <1>1, GoodRest
    <2>3. QED
      BY <2>1, <2>2 DEF InOrder
  <1>2. CASE ~(h.last_flush >= end \/ h.last_flush - est > BGFLUSH_LOW_TIME)
    <2>1. Background(h) = Rest(a)
      BY <1>2 DEF Background
    <2>2. ftime \in Int
          /\ (ftime >= end \/ ftime >= est + BGFLUSH_LOW_TIME + BGFLUSH_BATCH_TIME)
      BY <1>0, Constants DEF Typed, Smaller
    <2> HIDE DEF ftime
    <2>3. /\ Good(a, est) /\ Alike(a, h) /\ a.special = h.special
          /\ a.unsent = {s \in h.unsent : s >= a.last_flush}
          /\ a.last_flush = Larger(ftime, h.last_flush)
      BY <1>0, <2>2, GoodAdvanceFlush
    <2> HIDE DEF a
    <2>4. a.last_flush >= a.need_flush + BGFLUSH_EXTRA_TIME
            \/ a.last_flush - est > BGFLUSH_LOW_TIME
      <3>1. a.last_flush \in Int /\ a.last_flush >= ftime
        BY <1>0, <2>2, <2>3 DEF Typed, Larger
      <3>2. a.need_flush = h.need_flush
        BY <2>3 DEF Alike
      <3>3. QED
        BY <1>0, <2>2, <3>1, <3>2, Constants DEF Typed
    <2>5. Good(Rest(a), est) /\ Rest(a).unsent = a.unsent /\ Rest(a).queue = a.queue
          /\ Rest(a).special = a.special
      BY <2>3, <2>4, GoodRest
    <2>6. a.queue = h.queue /\ a.unsent \subseteq h.unsent
      BY <2>3 DEF Alike
    <2>7. InOrder(Rest(a), h)
      BY <2>5, <2>6 DEF InOrder
    <2>8. QED
      BY <2>1, <2>3, <2>5, <2>6, <2>7
  <1>3. QED
    BY <1>1, <1>2

\* dwell() with an empty queue keeps Good.
LEMMA GoodDwell ==
    ASSUME NEW h, est \in 0..MaxTime, Good(h, est), h.queue = 0, h.unsent = {},
           NEW delay \in Nat
    PROVE  LET r == Dwell(h, delay)
           IN  Good(r, est) /\ Later(r, h) /\ r.queue = 0 /\ r.unsent = {}
  <1> DEFINE g == get_last_move_time(h, 0)
             r == _advance_move_time(g, g.print + delay)
  <1>1. Good(g, est) /\ Later(g, h) /\ g.queue = 0 /\ g.unsent = {}
    BY GoodLastMoveTime
  <1> HIDE DEF g
  <1>2. g \in Members /\ Typed(g) /\ est \in Nat
    BY <1>1, Fields, Constants DEF Good, Timed
  <1>3. g.print + delay \in Int
    BY <1>2 DEF Typed
  <1>4. Good(r, est) /\ Later(r, g) /\ r.queue = g.queue /\ r.unsent \subseteq g.unsent
    BY <1>1, <1>2, <1>3, GoodAdvanceMove DEF Good
  <1>5. Later(r, h)
    <2> HIDE DEF r
    <2>1. Typed(h) /\ Typed(r)
      BY <1>4, Fields DEF Good, Timed
    <2>2. QED
      BY <1>1, <1>2, <1>4, <2>1 DEF Later, Typed
  <1>6. QED
    BY <1>1, <1>4, <1>5 DEF Dwell, g

\* Leaving drip_move() everything is sent and the flush timer runs again.
LEMMA GoodDripEnd ==
    ASSUME NEW h \in Members, est \in 0..MaxTime, h.queue = 0,
           h.generated <= h.min_restart, h.last_flush <= h.generated,
           h.step_gen <= h.need_flush, h.kick = FALSE,
           \A s \in h.unsent : s < h.step_gen
    PROVE  LET r == DripEnd(h)
           IN  Good(r, est) /\ r.unsent = {} /\ r.queue = 0 /\ r.special = "NeedPrime"
  <1> DEFINE i == -1
             f == [h EXCEPT !.flush_timer = est, !.special = "NeedPrime", !.need_check = i]
             a == _advance_flush_time(f, f.step_gen)
             mr == Larger(a.min_restart, f.print)
             r == [a EXCEPT !.min_restart = mr]
             sg == Larger(Smaller(Larger(f.step_gen, f.last_flush) + STEPCOMPRESS_FLUSH_TIME,
                                  f.print - f.kin), Larger(f.step_gen, f.last_flush))
  <1>0. Typed(h) /\ est \in Nat /\ est \in Int /\ i \in Int
    BY Fields, Constants
  <1>1. f = _flush_lookahead([h EXCEPT !.flush_timer = est], 0)
    <2>1. [h EXCEPT !.flush_timer = est].queue = 0
      BY DEF Members
    <2>2. flush([h EXCEPT !.flush_timer = est], 0) = [h EXCEPT !.flush_timer = est]
      BY <2>1 DEF flush
    <2>3. QED
      BY <2>2 DEF _flush_lookahead
  <1>2. r = DripEnd(h)
    BY <1>1 DEF DripEnd, flush_step_generation
  <1> HIDE DEF i
  <1>3. /\ f \in Members
        /\ f.queue = 0 /\ f.special = "NeedPrime" /\ f.print = h.print
        /\ f.kin = h.kin /\ f.last_flush = h.last_flush /\ f.generated = h.generated
        /\ f.min_restart = h.min_restart /\ f.need_flush = h.need_flush
        /\ f.step_gen = h.step_gen /\ f.flush_timer = est
        /\ f.unsent = h.unsent /\ f.kick = h.kick
    BY <1>0 DEF Members
  <1> HIDE DEF f
  <1>4. Typed(f)
    BY <1>3, Fields
  <1>5. f.step_gen \in Int
    BY <1>4 DEF Typed
  <1>6. /\ a \in Members /\ a.special = "NeedPrime" /\ a.print = f.print
        /\ a.need_flush = f.need_flush /\ a.step_gen = f.step_gen /\ a.kick = FALSE
        /\ a.flush_timer = est /\ a.queue = 0 /\ a.kin = f.kin
        /\ a.last_flush = Larger(f.step_gen, f.last_flush)
        /\ a.min_restart = Larger(f.min_restart, sg)
        /\ a.generated = Larger(f.generated, sg)
        /\ a.unsent = {s \in f.unsent : s >= a.last_flush}
    BY <1>3, <1>5, AdvanceFlush
  <1>7. sg \in Int /\ sg >= a.last_flush
    <2> DEFINE fl == Larger(f.step_gen, f.last_flush)
    <2>1. a.last_flush = fl /\ fl \in Int
      BY <1>4, <1>6 DEF Typed, Larger
    <2> HIDE DEF fl
    <2>2. sg = Larger(Smaller(fl + STEPCOMPRESS_FLUSH_TIME, f.print - f.kin), fl)
      BY DEF fl
    <2> HIDE DEF sg
    <2>3. QED
      BY <1>4, <2>1, <2>2, Constants DEF Typed, Larger, Smaller
  <1> HIDE DEF a, sg
  <1>8. Typed(a)
    BY <1>6, Fields
  <1>9. a.unsent = {}
    <2>1. a.last_flush >= f.step_gen
      BY <1>4, <1>6 DEF Typed, Larger
    <2>2. \A s \in f.unsent : s \in Nat /\ s < f.step_gen
      BY <1>3, <1>4 DEF Typed
    <2>3. QED
      BY <1>4, <1>6, <1>8, <2>1, <2>2 DEF Typed
  <1>10. a.generated <= a.min_restart /\ a.last_flush <= a.generated
    BY <1>3, <1>4, <1>6, <1>7, <1>8 DEF Typed, Larger
  <1>11. a.step_gen <= a.need_flush /\ est <= a.flush_timer + Latency /\ a.flush_timer <= est
    BY <1>0, <1>3, <1>6, Constants
  <1>12. Good(a, est)
    BY <1>6, <1>9, <1>10, <1>11 DEF Good, Timed
  <1>13. mr \in Nat /\ mr >= a.min_restart
    BY <1>4, <1>8 DEF Typed, Larger
  <1> HIDE DEF mr
  <1>14. r \in Members /\ r.queue = a.queue /\ r.special = a.special
        /\ r.kin = a.kin /\ r.last_flush = a.last_flush /\ r.generated = a.generated
        /\ r.min_restart = mr /\ r.need_flush = a.need_flush
        /\ r.step_gen = a.step_gen /\ r.kick = a.kick /\ r.flush_timer = a.flush_timer
        /\ r.unsent = a.unsent /\ r.print = a.print
    BY <1>6, <1>13 DEF Members
  <1> HIDE DEF r
  <1>15. Good(r, est)
    <2>1. r.min_restart >= a.min_restart /\ r.need_flush >= a.need_flush
      BY <1>8, <1>13, <1>14 DEF Typed
    <2>2. r.special \in {a.special, "NeedPrime", "Priming"}
      BY <1>14
    <2>3. QED
      BY <1>0, <1>12, <1>14, <2>1, <2>2, GoodSame
  <1>16. QED
    BY <1>2, <1>6, <1>9, <1>14, <1>15

-----------------------------------------------------------------------------

\* The members in "Drip": the flush timer is off, little is generated ahead, and the
\* greenlet wakes before the unsent steps are due.
Dripping(h, c, e) ==
    /\ h \in Members /\ h.special = "Drip"
    /\ h.generated <= h.min_restart /\ h.last_flush <= h.generated
    /\ h.step_gen <= h.need_flush
    /\ h.kick = FALSE /\ h.flush_timer = NEVER
    /\ \/ h.generated <= c.start
       \/ h.generated <= e + DRIP_TIME + STEPCOMPRESS_FLUSH_TIME + DRIP_SEGMENT_TIME
    /\ c.at = "drip_wait" => c.wake = h.print - (DRIP_TIME + STEPCOMPRESS_FLUSH_TIME + h.kin)
    /\ \A s \in h.unsent :
         /\ s >= e /\ s >= h.last_flush /\ s < c.end
         /\ s >= h.print - h.kin - STEPCOMPRESS_FLUSH_TIME
         /\ s < h.generated => s < h.step_gen

\* The two pauses of a homing move before "Drip".
Dwells == {"homing_dwell", "drip_dwell"}

\* The inductive invariant.
Inv ==
    /\ TypeOK
    /\ InDrip => Dripping(th, cmd, est)
    /\ ~InDrip => Good(th, est)
    /\ cmd.at \in Dwells => th.queue = 0 /\ th.unsent = {}

\* The type of cmd.
Cmds == [at : {"idle", "check_pause", "wait_moves", "homing_dwell", "drip_dwell",
               "drip", "drip_wait"},
         wake : Nat, end : Nat, start : Nat]

\* A step that leaves the tool head outside of "Drip".
LEMMA OutsideStep ==
    ASSUME Inv, est' = est, Good(th', est), InOrder(th', th), cmd' \in Cmds,
           cmd'.at \notin {"drip", "drip_wait"},
           cmd'.at \in Dwells => th'.queue = 0 /\ th'.unsent = {},
           triggered' \in BOOLEAN, can_pause' \in BOOLEAN, crashed' \in BOOLEAN
    PROVE  Inv' /\ InOrder(th', th)
  <1>1. ~InDrip'
    BY DEF InDrip
  <1>2. th' \in Members /\ th'.special # "Drip"
    BY DEF Good, Timed
  <1>3. TypeOK'
    BY <1>1, <1>2 DEF TypeOK, Inv, Cmds, Members
  <1>4. Good(th, est)'
    BY DEF Good, Timed, Members
  <1>5. QED
    BY <1>1, <1>3, <1>4 DEF Inv, Dwells

\* The invariant holds initially.
LEMMA InitInv == Init => Inv
  <1> SUFFICES ASSUME Init PROVE Inv
    OBVIOUS
  <1>1. th \in Members /\ th.special = "NeedPrime" /\ th.print = 0 /\ th.last_flush = 0
        /\ th.need_flush = 0 /\ th.step_gen = 0 /\ th.min_restart = 0
        /\ th.flush_timer = NEVER /\ th.queue = 0 /\ th.generated = 0 /\ th.unsent = {}
    <2> DEFINE i == -1
    <2>1. i \in Int
      OBVIOUS
    <2>2. th \in [special : {"NeedPrime"}, need_check : {i}, print : {0},
                  last_flush : {0}, need_flush : {0}, step_gen : {0},
                  min_restart : {0}, kick : {TRUE}, flush_timer : {NEVER},
                  priming_timer : {NEVER}, queue : {0}, kin : KinDelays,
                  generated : {0}, unsent : {{}}]
      BY DEF Init
    <2> HIDE DEF i
    <2>3. 0 \in 0..MaxQueue /\ NEVER \in Int /\ TRUE \in BOOLEAN /\ {} \in SUBSET Nat
      BY Constants
    <2>4. th \in Members
      <3>1. th = [special |-> "NeedPrime", need_check |-> i, print |-> 0,
                  last_flush |-> 0, need_flush |-> 0, step_gen |-> 0,
                  min_restart |-> 0, kick |-> TRUE, flush_timer |-> NEVER,
                  priming_timer |-> NEVER, queue |-> 0, kin |-> th.kin,
                  generated |-> 0, unsent |-> {}]
        BY <2>2
      <3>2. th.kin \in KinDelays
        BY <2>2
      <3>3. QED
        <4> DEFINE u == {}
                   k == TRUE
        <4>1. /\ th = [special |-> "NeedPrime", need_check |-> i, print |-> 0,
                       last_flush |-> 0, need_flush |-> 0, step_gen |-> 0,
                       min_restart |-> 0, kick |-> k, flush_timer |-> NEVER,
                       priming_timer |-> NEVER, queue |-> 0, kin |-> th.kin,
                       generated |-> 0, unsent |-> u]
              /\ u \in SUBSET Nat
          BY <3>1
        <4>2. k \in BOOLEAN
          OBVIOUS
        <4> HIDE DEF u, k
        <4>3. QED
          BY <2>1, <2>3, <3>2, <4>1, <4>2 DEF Members
    <2>5. QED
      BY <2>2, <2>4
  <1>2. th.kick = TRUE
    BY DEF Init
  <1>3. cmd \in Cmds /\ cmd.at = "idle"
    BY Constants DEF Init, Idle, Cmds
  <1>4. ~InDrip /\ cmd.at \notin Dwells
    BY <1>3 DEF InDrip, Dwells
  <1>5. est \in 0..MaxTime /\ est = 0
    BY Constants DEF Init
  <1>6. TypeOK
    BY <1>1, <1>3, <1>4, <1>5 DEF TypeOK, Cmds, Init
  <1>7. est <= th.flush_timer + Latency
    BY <1>1, <1>5, Constants
  <1>8. Good(th, est)
    BY <1>1, <1>2, <1>7 DEF Good, Timed
  <1>9. QED
    BY <1>4, <1>6, <1>8 DEF Inv

-----------------------------------------------------------------------------

\* The greenlet of the commands when it is idle.
LEMMA IdleCmd == Idle \in Cmds /\ Idle.at = "idle"
  BY Constants DEF Idle, Cmds

\* The greenlet when it pauses in _check_pause().
LEMMA PausingCmd ==
    ASSUME NEW h \in Members, est \in 0..MaxTime, MustPause(h),
           NEW at \in {"check_pause", "homing_dwell", "drip_dwell"}
    PROVE  Pausing(h, at) \in Cmds /\ Pausing(h, at).at = at
  <1> DEFINE w == est + Smaller(MAX_PAUSE, h.print - est - BUFFER_TIME_HIGH)
  <1>1. Typed(h) /\ est \in Nat
    BY Fields, Constants
  <1>2. w \in Nat
    BY <1>1, Constants DEF Typed, MustPause, Smaller
  <1>3. Pausing(h, at) = [Idle EXCEPT !.at = at, !.wake = w]
    BY DEF Pausing
  <1> HIDE DEF w
  <1>4. QED
    BY <1>2, <1>3, IdleCmd DEF Cmds

\* The greenlet when it waits in wait_moves().
LEMMA WaitingCmd ==
    ASSUME est \in 0..MaxTime
    PROVE  Waiting \in Cmds /\ Waiting.at = "wait_moves"
  <1>1. est + 1 \in Nat
    BY Constants
  <1>2. QED
    BY <1>1, IdleCmd DEF Waiting, Cmds

\* What the invariant says outside of "Drip".
LEMMA OutsideFacts ==
    ASSUME Inv, cmd.at \notin {"drip", "drip_wait"}
    PROVE  /\ Good(th, est) /\ th \in Members /\ Typed(th) /\ est \in 0..MaxTime /\ est \in Nat
           /\ triggered \in BOOLEAN /\ can_pause \in BOOLEAN /\ crashed \in BOOLEAN
           /\ cmd \in Cmds
  <1>1. Good(th, est) /\ th \in Members /\ est \in 0..MaxTime /\ cmd \in Cmds
    BY DEF Inv, InDrip, TypeOK, Cmds
  <1>2. triggered \in BOOLEAN /\ can_pause \in BOOLEAN /\ crashed \in BOOLEAN
    BY DEF Inv, TypeOK
  <1>3. QED
    BY <1>1, <1>2, Fields, Constants

\* A command that ends without a pause.
LEMMA UsesStep ==
    ASSUME Inv, cmd.at \notin {"drip", "drip_wait"}, triggered' \in BOOLEAN,
           NEW h, Good(h, est), InOrder(h, th), NEW c \in Cmds,
           c.at \notin {"drip", "drip_wait"},
           c.at \in Dwells => h.queue = 0 /\ h.unsent = {},
           Uses(h, c)
    PROVE  Inv' /\ InOrder(th', th)
  <1>1. can_pause \in BOOLEAN /\ crashed \in BOOLEAN
    BY OutsideFacts
  <1>2. th' = h /\ cmd' = c /\ est' = est /\ can_pause' = can_pause /\ crashed' = crashed
    BY DEF Uses
  <1>3. Good(th', est) /\ InOrder(th', th) /\ cmd' \in Cmds
        /\ cmd'.at \notin {"drip", "drip_wait"}
        /\ (cmd'.at \in Dwells => th'.queue = 0 /\ th'.unsent = {})
    BY <1>2
  <1>4. can_pause' \in BOOLEAN /\ crashed' \in BOOLEAN
    BY <1>1, <1>2
  <1>5. QED
    BY <1>2, <1>3, <1>4, OutsideStep

\* A command that ends in _check_pause().
LEMMA CheckPauseStep ==
    ASSUME Inv, cmd.at \notin {"drip", "drip_wait"}, UNCHANGED triggered,
           NEW h, Good(h, est), InOrder(h, th), _check_pause(h)
    PROVE  Inv' /\ InOrder(th', th)
  <1> DEFINE q == Prime(h)
             r == Checked(q)
             c == IF MustPause(h) THEN Pausing(h, "check_pause") ELSE Idle
  <1>0. est \in 0..MaxTime /\ triggered \in BOOLEAN /\ h \in Members
    BY OutsideFacts DEF Good, Timed
  <1>1. Good(q, est) /\ q.unsent = h.unsent
    BY <1>0, GoodPrime
  <1>2. Good(r, est) /\ r.unsent = q.unsent
    BY <1>0, <1>1, GoodChecked
  <1>3. InOrder(r, th)
    BY <1>1, <1>2 DEF InOrder
  <1>4. c \in Cmds /\ c.at \in {"check_pause", "idle"}
    BY <1>0, PausingCmd, IdleCmd
  <1>5. Uses(r, c)
    BY DEF _check_pause
  <1> HIDE DEF q, r, c
  <1>6. c.at \notin {"drip", "drip_wait"} /\ c.at \notin Dwells
    BY <1>4 DEF Dwells
  <1>7. triggered' \in BOOLEAN
    BY <1>0
  <1>8. QED
    BY <1>2, <1>3, <1>4, <1>5, <1>6, <1>7, UsesStep

\* The time of the queued moves is a natural number.
LEMMA TimesNat ==
    ASSUME NEW n \in 0..MaxQueue, NEW t \in Times(n)
    PROVE  t \in Nat
  BY Constants DEF Times

\* move() keeps the invariant.
LEMMA MoveStep ==
    ASSUME Inv, NEW n, NEW t, move(n, t)
    PROVE  Inv' /\ InOrder(th', th)
  <1> DEFINE added == [th EXCEPT !.queue = th.queue + 1]
             z == [added EXCEPT !.queue = added.queue - n]
             h == IF n = 0 THEN added ELSE _process_moves(z, t)
  <1>0. cmd.at = "idle" /\ th.queue < MaxQueue /\ n \in 0..th.queue /\ t \in Times(n)
        /\ (IF h.print > h.need_check THEN _check_pause(h) ELSE Uses(h, Idle))
        /\ UNCHANGED triggered
    BY DEF move, Start
  <1>1. cmd.at \notin {"drip", "drip_wait"} /\ Idle.at \notin {"drip", "drip_wait"}
        /\ Idle.at \notin Dwells
    BY <1>0, IdleCmd DEF Dwells
  <1>2. Good(th, est) /\ th \in Members /\ Typed(th) /\ est \in 0..MaxTime /\ est \in Nat
        /\ triggered \in BOOLEAN
    BY <1>1, OutsideFacts
  <1>3. th.queue + 1 \in 0..MaxQueue /\ th.queue + 1 - n \in 0..MaxQueue /\ n \in 0..MaxQueue
    BY <1>0, <1>2, Constants DEF Typed
  <1>4. t \in Nat
    BY <1>0, <1>3, TimesNat
  <1>5. added \in Members /\ added.special = th.special /\ added.print = th.print
        /\ added.kin = th.kin /\ added.last_flush = th.last_flush
        /\ added.generated = th.generated /\ added.min_restart = th.min_restart
        /\ added.need_flush = th.need_flush /\ added.step_gen = th.step_gen
        /\ added.kick = th.kick /\ added.flush_timer = th.flush_timer
        /\ added.unsent = th.unsent /\ added.queue = th.queue + 1
    BY <1>2, <1>3 DEF Members
  <1>6. Good(added, est) /\ InOrder(added, th)
    <2> HIDE DEF added
    <2>1. added.min_restart >= th.min_restart /\ added.need_flush >= th.need_flush
      BY <1>2, <1>5 DEF Typed
    <2>2. QED
      BY <1>2, <1>5, <2>1, GoodSame
  <1>7. Good(z, est) /\ z.unsent = th.unsent /\ z.generated = th.generated /\ z.kin = th.kin
    <2> HIDE DEF added
    <2>1. added.queue - n \in 0..MaxQueue
      <3>1. added.queue = th.queue + 1
        BY <1>5
      <3>2. QED
        BY <1>2, <1>3, <3>1 DEF Typed
    <2>2. z \in Members /\ z.special = added.special /\ z.print = added.print
          /\ z.kin = added.kin /\ z.last_flush = added.last_flush
          /\ z.generated = added.generated /\ z.min_restart = added.min_restart
          /\ z.need_flush = added.need_flush /\ z.step_gen = added.step_gen
          /\ z.kick = added.kick /\ z.flush_timer = added.flush_timer
          /\ z.unsent = added.unsent
      BY <1>5, <2>1 DEF Members
    <2> HIDE DEF z
    <2>3. Typed(added)
      BY <1>5, Fields
    <2>4. z.min_restart >= added.min_restart /\ z.need_flush >= added.need_flush
      BY <2>2, <2>3 DEF Typed
    <2>5. QED
      BY <1>2, <1>5, <1>6, <2>2, <2>4, GoodSame
  <1> HIDE DEF z, added
  <1>8. Good(h, est) /\ InOrder(h, th)
    <2>1. CASE n = 0
      BY <1>6, <2>1
    <2>2. CASE n # 0
      <3>1. Good(_process_moves(z, t), est) /\ InOrder(_process_moves(z, t), z)
        BY <1>2, <1>4, <1>7, GoodProcess
      <3>2. QED
        BY <1>7, <2>2, <3>1 DEF InOrder
    <2>3. QED
      BY <2>1, <2>2
  <1> HIDE DEF h
  <1>9. triggered' \in BOOLEAN
    BY <1>0, <1>2
  <1>10. CASE h.print > h.need_check
    BY <1>0, <1>1, <1>8, <1>10, CheckPauseStep
  <1>11. CASE ~(h.print > h.need_check)
    BY <1>0, <1>1, <1>8, <1>9, <1>11, UsesStep, IdleCmd
  <1>12. QED
    BY <1>10, <1>11

\* dwell() keeps the invariant.
LEMMA DwellStep ==
    ASSUME Inv, NEW t, NEW delay \in Nat, dwell(t, delay)
    PROVE  Inv' /\ InOrder(th', th)
  <1> DEFINE h == get_last_move_time(th, t)
             r == _advance_move_time(h, h.print + delay)
  <1>0. cmd.at = "idle" /\ t \in Times(th.queue) /\ _check_pause(r) /\ UNCHANGED triggered
    BY DEF dwell, Start
  <1>1. cmd.at \notin {"drip", "drip_wait"}
    BY <1>0
  <1>2. Good(th, est) /\ Typed(th) /\ est \in 0..MaxTime /\ est \in Nat
    BY <1>1, OutsideFacts
  <1>3. t \in Nat
    BY <1>0, <1>2, TimesNat DEF Typed
  <1>4. Good(h, est) /\ InOrder(h, th)
    BY <1>2, <1>3, GoodLastMoveTime
  <1> HIDE DEF h
  <1>5. h.print + delay \in Int
    <2>1. Typed(h)
      BY <1>4, Fields DEF Good, Timed
    <2>2. QED
      BY <2>1 DEF Typed
  <1>6. Good(r, est) /\ r.unsent \subseteq h.unsent
    BY <1>2, <1>4, <1>5, GoodAdvanceMove DEF Good
  <1> HIDE DEF r
  <1>7. InOrder(r, th)
    BY <1>4, <1>6 DEF InOrder
  <1>8. QED
    BY <1>0, <1>1, <1>6, <1>7, CheckPauseStep

\* set_position() keeps the invariant.
LEMMA SetPositionStep ==
    ASSUME Inv, NEW t, set_position(t)
    PROVE  Inv' /\ InOrder(th', th)
  <1> DEFINE h == flush_step_generation(th, t)
  <1>0. cmd.at = "idle" /\ t \in Times(th.queue) /\ Uses(h, Idle) /\ UNCHANGED triggered
    BY DEF set_position, Start
  <1>1. cmd.at \notin {"drip", "drip_wait"} /\ Idle.at \notin {"drip", "drip_wait"}
        /\ Idle.at \notin Dwells
    BY <1>0, IdleCmd DEF Dwells
  <1>2. Good(th, est) /\ Typed(th) /\ est \in 0..MaxTime /\ triggered \in BOOLEAN
    BY <1>1, OutsideFacts
  <1>3. t \in Nat
    BY <1>0, <1>2, TimesNat DEF Typed
  <1>4. Good(h, est) /\ h.unsent = {}
    BY <1>2, <1>3, GoodFlushStepGeneration
  <1> HIDE DEF h
  <1>5. InOrder(h, th) /\ triggered' \in BOOLEAN
    BY <1>0, <1>2, <1>4 DEF InOrder
  <1>6. QED
    BY <1>0, <1>1, <1>4, <1>5, UsesStep, IdleCmd

\* A change of the scan window keeps the invariant.
LEMMA ScanTimeStep ==
    ASSUME Inv, NEW t, NEW delay \in KinDelays, note_step_generation_scan_time(t, delay)
    PROVE  Inv' /\ InOrder(th', th)
  <1> DEFINE h == flush_step_generation(th, t)
             r == [h EXCEPT !.kin = delay]
  <1>0. cmd.at = "idle" /\ t \in Times(th.queue) /\ Uses(r, Idle) /\ UNCHANGED triggered
    BY DEF note_step_generation_scan_time, Start
  <1>1. cmd.at \notin {"drip", "drip_wait"} /\ Idle.at \notin {"drip", "drip_wait"}
        /\ Idle.at \notin Dwells
    BY <1>0, IdleCmd DEF Dwells
  <1>2. Good(th, est) /\ Typed(th) /\ est \in 0..MaxTime /\ est \in Nat /\ triggered \in BOOLEAN
    BY <1>1, OutsideFacts
  <1>3. t \in Nat
    BY <1>0, <1>2, TimesNat DEF Typed
  <1>4. Good(h, est) /\ h.unsent = {} /\ h.special = "NeedPrime"
    BY <1>2, <1>3, GoodFlushStepGeneration
  <1> HIDE DEF h
  <1>5. h \in Members /\ Typed(h)
    BY <1>4, Fields DEF Good, Timed
  <1>6. r \in Members /\ r.special = h.special /\ r.last_flush = h.last_flush
        /\ r.generated = h.generated /\ r.min_restart = h.min_restart
        /\ r.need_flush = h.need_flush /\ r.step_gen = h.step_gen
        /\ r.kick = h.kick /\ r.flush_timer = h.flush_timer /\ r.unsent = h.unsent
    BY <1>5 DEF Members
  <1> HIDE DEF r
  <1>7. r.min_restart >= h.min_restart /\ r.need_flush >= h.need_flush
        /\ r.special # "Main"
    BY <1>4, <1>5, <1>6 DEF Typed
  <1>8. Good(r, est)
    BY <1>2, <1>4, <1>6, <1>7, GoodSame
  <1>9. InOrder(r, th) /\ triggered' \in BOOLEAN
    BY <1>0, <1>2, <1>4, <1>6 DEF InOrder
  <1>10. QED
    BY <1>0, <1>1, <1>8, <1>9, UsesStep, IdleCmd

\* The request of an output pin keeps the invariant.
LEMMA QueueRequestStep ==
    ASSUME Inv, queue_request
    PROVE  Inv' /\ InOrder(th', th)
  <1> DEFINE h == get_last_move_time(th, 0)
             r == note_mcu_movequeue_activity(h, h.print, FALSE)
  <1>0. cmd.at = "idle" /\ th.queue = 0 /\ Uses(r, Idle) /\ UNCHANGED triggered
    BY DEF queue_request, Start
  <1>1. cmd.at \notin {"drip", "drip_wait"} /\ Idle.at \notin {"drip", "drip_wait"}
        /\ Idle.at \notin Dwells
    BY <1>0, IdleCmd DEF Dwells
  <1>2. Good(th, est) /\ est \in 0..MaxTime /\ triggered \in BOOLEAN
    BY <1>1, OutsideFacts
  <1>3. Good(h, est) /\ h.unsent = th.unsent
    BY <1>0, <1>2, GoodLastMoveTime
  <1> HIDE DEF h
  <1>4. h.print \in Nat
    <2>1. Typed(h)
      BY <1>3, Fields DEF Good, Timed
    <2>2. QED
      BY <2>1 DEF Typed
  <1>5. Good(r, est) /\ r.unsent = h.unsent
    <2>1. Good(r, est)
      BY <1>2, <1>3, <1>4, GoodNote
    <2>2. h \in Members /\ est \in Nat /\ FALSE \in BOOLEAN
      BY <1>2, <1>3, Constants DEF Good, Timed
    <2>3. QED
      BY <1>4, <2>1, <2>2, NoteActivity
  <1> HIDE DEF r
  <1>6. InOrder(r, th) /\ triggered' \in BOOLEAN
    BY <1>0, <1>2, <1>3, <1>5 DEF InOrder
  <1>7. QED
    BY <1>0, <1>1, <1>5, <1>6, UsesStep, IdleCmd

\* wait_moves() keeps the invariant.
LEMMA WaitMovesStep ==
    ASSUME Inv, NEW t, wait_moves(t)
    PROVE  Inv' /\ InOrder(th', th)
  <1> DEFINE h == _flush_lookahead(th, t)
             c == IF Busy(h) THEN Waiting ELSE Idle
  <1>0. cmd.at = "idle" /\ t \in Times(th.queue) /\ Uses(h, c) /\ UNCHANGED triggered
    BY DEF wait_moves, Start
  <1>1. cmd.at \notin {"drip", "drip_wait"}
    BY <1>0
  <1>2. Good(th, est) /\ Typed(th) /\ est \in 0..MaxTime /\ triggered \in BOOLEAN
    BY <1>1, OutsideFacts
  <1>3. t \in Nat
    BY <1>0, <1>2, TimesNat DEF Typed
  <1>4. Good(h, est) /\ InOrder(h, th)
    BY <1>2, <1>3, GoodFlushLookahead
  <1>5. c \in Cmds /\ c.at \in {"wait_moves", "idle"}
    BY <1>2, WaitingCmd, IdleCmd
  <1> HIDE DEF h, c
  <1>6. c.at \notin {"drip", "drip_wait"} /\ c.at \notin Dwells /\ triggered' \in BOOLEAN
    BY <1>0, <1>2, <1>5 DEF Dwells
  <1>7. QED
    BY <1>0, <1>1, <1>4, <1>5, <1>6, UsesStep

\* So does the greenlet that wakes in wait_moves() or _check_pause().
LEMMA WakeStep ==
    ASSUME Inv, WaitMoves \/ CheckPause
    PROVE  Inv' /\ InOrder(th', th)
  <1>1. cmd.at \notin {"drip", "drip_wait"} /\ est' = est
        /\ UNCHANGED <<triggered, can_pause, crashed>>
    BY DEF WaitMoves, CheckPause
  <1>2. Good(th, est) /\ th \in Members /\ Typed(th) /\ est \in 0..MaxTime /\ est \in Nat
        /\ triggered \in BOOLEAN /\ can_pause \in BOOLEAN /\ crashed \in BOOLEAN
    BY <1>1, OutsideFacts
  <1>3. triggered' \in BOOLEAN /\ can_pause' \in BOOLEAN /\ crashed' \in BOOLEAN
    BY <1>1, <1>2
  <1>4. CASE WaitMoves
    <2>1. th' = th /\ (cmd' = Waiting \/ cmd' = Idle)
      BY <1>4 DEF WaitMoves
    <2>2. cmd' \in Cmds /\ cmd'.at \in {"wait_moves", "idle"}
      BY <1>2, <2>1, WaitingCmd, IdleCmd
    <2>3. Good(th', est) /\ InOrder(th', th) /\ cmd'.at \notin {"drip", "drip_wait"}
          /\ cmd'.at \notin Dwells
      BY <1>2, <2>1, <2>2 DEF InOrder, Dwells
    <2>4. QED
      BY <1>1, <1>3, <2>2, <2>3, OutsideStep
  <1>5. CASE CheckPause
    <2>1. /\ \/ th' = th /\ MustPause(th) /\ cmd' = Pausing(th, "check_pause")
             \/ th' = [th EXCEPT !.need_check = NEVER] /\ cmd' = Idle
             \/ th' = Checked(th) /\ cmd' = Idle
      BY <1>5 DEF CheckPause
    <2>2. cmd' \in Cmds /\ cmd'.at \in {"check_pause", "idle"}
      BY <1>2, <2>1, PausingCmd, IdleCmd
    <2>3. Good(th', est) /\ th'.unsent = th.unsent
      <3>1. CASE th' = th
        BY <1>2, <3>1
      <3>2. CASE th' = [th EXCEPT !.need_check = NEVER]
        <4> DEFINE r == [th EXCEPT !.need_check = NEVER]
        <4>1. r \in Members /\ r.special = th.special /\ r.print = th.print
              /\ r.kin = th.kin /\ r.last_flush = th.last_flush
              /\ r.generated = th.generated /\ r.min_restart = th.min_restart
              /\ r.need_flush = th.need_flush /\ r.step_gen = th.step_gen
              /\ r.kick = th.kick /\ r.flush_timer = th.flush_timer /\ r.unsent = th.unsent
          BY <1>2, Constants DEF Members
        <4>2. th' = r
          BY <3>2
        <4> HIDE DEF r
        <4>3. r.min_restart >= th.min_restart /\ r.need_flush >= th.need_flush
          BY <1>2, <4>1 DEF Typed
        <4>4. Good(r, est)
          BY <1>2, <4>1, <4>3, GoodSame
        <4>5. QED
          BY <4>1, <4>2, <4>4
      <3>3. CASE th' = Checked(th)
        BY <1>2, <3>3, GoodChecked
      <3>4. QED
        BY <2>1, <3>1, <3>2, <3>3
    <2>4. InOrder(th', th) /\ cmd'.at \notin {"drip", "drip_wait"} /\ cmd'.at \notin Dwells
      BY <2>2, <2>3 DEF InOrder, Dwells
    <2>5. QED
      BY <1>1, <1>3, <2>2, <2>3, <2>4, OutsideStep
  <1>6. QED
    BY <1>4, <1>5

-----------------------------------------------------------------------------

\* A step that leaves the tool head within "Drip".
LEMMA InsideStep ==
    ASSUME Inv, est' = est, Dripping(th', cmd', est), InOrder(th', th), cmd' \in Cmds,
           cmd'.at \in {"drip", "drip_wait"},
           triggered' \in BOOLEAN, can_pause' \in BOOLEAN, crashed' \in BOOLEAN
    PROVE  Inv' /\ InOrder(th', th)
  <1>1. InDrip'
    BY DEF InDrip
  <1>2. th' \in Members /\ th'.special = "Drip"
    BY DEF Dripping
  <1>3. TypeOK'
    BY <1>1, <1>2 DEF TypeOK, Inv, Cmds, Members
  <1>4. Dripping(th, cmd, est)'
    BY DEF Dripping, Members
  <1>5. QED
    BY <1>1, <1>3, <1>4 DEF Inv, Dwells

\* drip_move() after its dwell enters "Drip", or ends at once.
LEMMA DripStartStep ==
    ASSUME Inv, cmd.at \notin {"drip", "drip_wait"}, triggered' \in BOOLEAN,
           NEW h, Good(h, est), Later(h, th), h.queue = 0, h.unsent = {},
           NEW t \in 1..MaxMove, DripStart(h, t)
    PROVE  Inv' /\ InOrder(th', th)
  <1> DEFINE d == Drip(h)
             p == _calc_print_time(d)
             new == p.print..(p.print + t - 1)
             q == trapq_append(p, t)
             r == [q EXCEPT !.queue = 1]
             c == [at |-> "drip", wake |-> NEVER, end |-> p.print + t, start |-> p.generated]
  <1>0. est \in 0..MaxTime /\ est \in Nat /\ Typed(th) /\ can_pause \in BOOLEAN
        /\ crashed \in BOOLEAN
    BY OutsideFacts
  <1>1. h \in Members /\ Typed(h)
    BY Fields DEF Good, Timed
  <1>2. d \in Members /\ d.special = "Drip" /\ d.flush_timer = NEVER /\ d.queue = 0
        /\ d.last_flush = h.last_flush /\ d.generated = h.generated
        /\ d.min_restart = h.min_restart /\ d.need_flush = h.need_flush
        /\ d.step_gen = h.step_gen /\ d.unsent = {} /\ d.kin = h.kin
    <2> DEFINE k == FALSE
    <2>1. k \in BOOLEAN /\ d = [h EXCEPT !.special = "Drip", !.need_check = NEVER,
                                         !.flush_timer = NEVER, !.kick = k]
      BY DEF Drip
    <2> HIDE DEF k, d
    <2>2. NEVER \in Int
      BY Constants
    <2>3. QED
      BY <1>1, <2>1, <2>2 DEF Members
  <1>3. d.kick = FALSE
    BY <1>1 DEF Drip, Members
  <1> HIDE DEF d
  <1>4. Typed(d)
    BY <1>2, Fields
  <1>5. d.generated <= d.min_restart /\ d.last_flush <= d.generated /\ d.step_gen <= d.need_flush
    BY <1>2 DEF Good, Timed
  <1>6. CASE Uses(DripEnd(d), Idle)
    <2>1. Good(DripEnd(d), est) /\ DripEnd(d).unsent = {} /\ DripEnd(d).queue = 0
      BY <1>0, <1>2, <1>3, <1>5, GoodDripEnd
    <2>2. InOrder(DripEnd(d), th)
      BY <2>1 DEF InOrder
    <2>3. Idle.at \notin {"drip", "drip_wait"} /\ Idle.at \notin Dwells
      BY IdleCmd DEF Dwells
    <2>4. QED
      BY <1>6, <2>1, <2>2, <2>3, IdleCmd, UsesStep
  <1>7. CASE Uses(r, c)
    <2>1. /\ p \in Members /\ Alike(p, d) /\ p.special = "Drip"
          /\ p.print >= est + BUFFER_TIME_START /\ p.print >= d.min_restart + d.kin
          /\ p.last_flush = d.last_flush /\ p.generated = d.generated
          /\ p.min_restart = d.min_restart /\ p.unsent = {}
      BY <1>0, <1>2, CalcPrintTime
    <2> HIDE DEF p
    <2>2. Typed(p)
      BY <2>1, Fields
    <2>3. new \subseteq Nat /\ \A s \in new : s >= p.print /\ s < p.print + t
      BY <2>2 DEF Typed
    <2>4. q = [p EXCEPT !.unsent = p.unsent \cup new]
      BY DEF trapq_append
    <2> HIDE DEF new, q
    <2>5. /\ q \in Members /\ Alike(q, p) /\ q.special = "Drip" /\ q.print = p.print
          /\ q.last_flush = p.last_flush /\ q.generated = p.generated
          /\ q.min_restart = p.min_restart /\ q.unsent = new
      <3>1. p.unsent \cup new \in SUBSET Nat /\ p.unsent \cup new = new
        BY <2>1, <2>3
      <3>2. QED
        BY <2>1, <2>4, <3>1 DEF Members, Alike
    <2>6. r \in Members /\ r.special = "Drip" /\ r.print = p.print
          /\ r.last_flush = d.last_flush /\ r.generated = d.generated
          /\ r.min_restart = d.min_restart /\ r.unsent = new
          /\ r.need_flush = d.need_flush /\ r.step_gen = d.step_gen
          /\ r.flush_timer = NEVER /\ r.kin = d.kin /\ r.kick = d.kick
      <3>1. 1 \in 0..MaxQueue
        BY Constants
      <3>2. r \in Members /\ r.special = q.special /\ r.print = q.print
            /\ r.last_flush = q.last_flush /\ r.generated = q.generated
            /\ r.min_restart = q.min_restart /\ r.unsent = q.unsent
            /\ r.need_flush = q.need_flush /\ r.step_gen = q.step_gen
            /\ r.flush_timer = q.flush_timer /\ r.kin = q.kin /\ r.kick = q.kick
        BY <2>5, <3>1 DEF Members
      <3>3. QED
        BY <1>2, <2>1, <2>5, <3>2 DEF Alike
    <2> HIDE DEF r
    <2>7. c \in Cmds /\ c.at = "drip" /\ c.end = p.print + t /\ c.start = p.generated
      BY <2>2, Constants DEF Cmds, Typed
    <2> HIDE DEF c
    <2>8. ASSUME NEW s \in r.unsent
          PROVE  /\ s >= est /\ s >= r.last_flush /\ s < c.end
                 /\ s >= r.print - r.kin - STEPCOMPRESS_FLUSH_TIME
                 /\ ~(s < r.generated) /\ s >= d.generated + d.kin
      <3>1. s \in Nat /\ s >= p.print /\ s < c.end
        BY <2>3, <2>6, <2>7
      <3>2. p.print >= d.generated + d.kin
        BY <1>4, <1>5, <2>1, <2>2 DEF Typed
      <3>3. QED
        BY <1>0, <1>4, <1>5, <2>1, <2>2, <2>6, <3>1, <3>2, Constants DEF Typed
    <2>9. r.generated <= c.start
      BY <1>4, <2>1, <2>6, <2>7 DEF Typed
    <2>10. Dripping(r, c, est)
      BY <1>3, <1>5, <2>6, <2>7, <2>8, <2>9 DEF Dripping
    <2>11. InOrder(r, th)
      <3>1. ASSUME NEW s \in r.unsent PROVE s >= th.generated + th.kin
        <4>1. s >= d.generated + d.kin /\ s \in Nat
          BY <2>3, <2>6, <2>8
        <4>2. QED
          BY <1>0, <1>1, <1>2, <4>1 DEF Typed, Later
      <3>2. QED
        BY <3>1 DEF InOrder
    <2>12. th' = r /\ cmd' = c /\ est' = est /\ can_pause' = can_pause /\ crashed' = crashed
      BY <1>7 DEF Uses
    <2>13. Dripping(th', cmd', est) /\ InOrder(th', th) /\ cmd' \in Cmds
           /\ cmd'.at \in {"drip", "drip_wait"}
      BY <2>7, <2>10, <2>11, <2>12
    <2>14. can_pause' \in BOOLEAN /\ crashed' \in BOOLEAN
      BY <1>0, <2>12
    <2>15. QED
      BY <2>12, <2>13, <2>14, InsideStep
  <1>8. QED
    BY <1>6, <1>7 DEF DripStart, d

\* drip_move() up to its first pause.
LEMMA DripMoveStep ==
    ASSUME Inv, cmd.at \notin {"drip", "drip_wait"}, triggered' \in BOOLEAN,
           NEW h, Good(h, est), Later(h, th), h.queue = 0, h.unsent = {},
           NEW dt \in 1..MaxMove, drip_move(h, dt)
    PROVE  Inv' /\ InOrder(th', th)
  <1> DEFINE d == Dwell(h, h.kin)
             q == Prime(d)
  <1>0. est \in 0..MaxTime /\ est \in Nat /\ Typed(th)
    BY OutsideFacts
  <1>1. h \in Members /\ Typed(h)
    BY Fields DEF Good, Timed
  <1>2. h.kin \in Nat
    BY <1>1 DEF Typed
  <1>3. Good(d, est) /\ Later(d, h) /\ d.queue = 0 /\ d.unsent = {}
    BY <1>0, <1>2, GoodDwell
  <1>4. \/ MustPause(d) /\ Uses(q, Pausing(d, "drip_dwell"))
        \/ DripStart(q, dt)
    BY DEF drip_move
  <1> HIDE DEF d
  <1>5. Good(q, est) /\ Later(q, d) /\ q.queue = 0 /\ q.unsent = {}
    BY <1>0, <1>3, GoodPrime
  <1> HIDE DEF q
  <1>6. d \in Members /\ Typed(d) /\ Typed(q)
    BY <1>3, <1>5, Fields DEF Good, Timed
  <1>7. Later(q, th) /\ InOrder(q, th)
    BY <1>0, <1>1, <1>3, <1>5, <1>6 DEF Later, Typed, InOrder
  <1>8. CASE DripStart(q, dt)
    BY <1>5, <1>7, <1>8, DripStartStep
  <1>9. CASE MustPause(d) /\ Uses(q, Pausing(d, "drip_dwell"))
    <2>1. Pausing(d, "drip_dwell") \in Cmds /\ Pausing(d, "drip_dwell").at = "drip_dwell"
      BY <1>0, <1>6, <1>9, PausingCmd
    <2>2. QED
      BY <1>5, <1>7, <1>9, <2>1, UsesStep
  <1>10. QED
    BY <1>4, <1>8, <1>9

\* homing_move() up to its first pause.
LEMMA HomingMoveStep ==
    ASSUME Inv, NEW t, NEW dt, homing_move(t, dt)
    PROVE  Inv' /\ InOrder(th', th)
  <1> DEFINE f == flush_step_generation(th, t)
             h == Dwell(f, HOMING_START_DELAY)
             q == Prime(h)
  <1>0. /\ cmd.at = "idle" /\ t \in Times(th.queue) /\ dt \in 1..MaxMove /\ triggered' = FALSE
        /\ \/ MustPause(h) /\ Uses(q, Pausing(h, "homing_dwell"))
           \/ drip_move(q, dt)
    BY DEF homing_move, Start
  <1>1. cmd.at \notin {"drip", "drip_wait"} /\ triggered' \in BOOLEAN
    BY <1>0
  <1>2. Good(th, est) /\ Typed(th) /\ est \in 0..MaxTime /\ est \in Nat
    BY <1>1, OutsideFacts
  <1>3. t \in Nat /\ HOMING_START_DELAY \in Nat
    BY <1>0, <1>2, TimesNat, Constants DEF Typed
  <1>4. Good(f, est) /\ Later(f, th) /\ f.queue = 0 /\ f.unsent = {}
    BY <1>2, <1>3, GoodFlushStepGeneration
  <1> HIDE DEF f
  <1>5. Good(h, est) /\ Later(h, f) /\ h.queue = 0 /\ h.unsent = {}
    BY <1>2, <1>3, <1>4, GoodDwell
  <1> HIDE DEF h
  <1>6. Good(q, est) /\ Later(q, h) /\ q.queue = 0 /\ q.unsent = {}
    BY <1>2, <1>5, GoodPrime
  <1> HIDE DEF q
  <1>7. h \in Members /\ Typed(f) /\ Typed(h) /\ Typed(q)
    BY <1>4, <1>5, <1>6, Fields DEF Good, Timed
  <1>8. Later(q, th) /\ InOrder(q, th)
    BY <1>2, <1>4, <1>5, <1>6, <1>7 DEF Later, Typed, InOrder
  <1>9. CASE drip_move(q, dt)
    BY <1>0, <1>1, <1>6, <1>8, <1>9, DripMoveStep
  <1>10. CASE MustPause(h) /\ Uses(q, Pausing(h, "homing_dwell"))
    <2>1. Pausing(h, "homing_dwell") \in Cmds /\ Pausing(h, "homing_dwell").at = "homing_dwell"
      BY <1>2, <1>7, <1>10, PausingCmd
    <2>2. QED
      BY <1>1, <1>6, <1>8, <1>10, <2>1, UsesStep
  <1>11. QED
    BY <1>0, <1>9, <1>10

\* The greenlet wakes in one of the dwells of a homing move.
LEMMA DwellsStep ==
    ASSUME Inv, NEW dt, HomingDwell(dt) \/ DripDwell(dt)
    PROVE  Inv' /\ InOrder(th', th)
  <1>0. cmd.at \in Dwells /\ dt \in 1..MaxMove /\ triggered' = triggered
        /\ (\/ MustPause(th) /\ Uses(th, Pausing(th, "homing_dwell"))
            \/ MustPause(th) /\ Uses(th, Pausing(th, "drip_dwell"))
            \/ drip_move(th, dt)
            \/ DripStart(th, dt))
    BY DEF HomingDwell, DripDwell, Dwells
  <1>1. cmd.at \notin {"drip", "drip_wait"}
    BY <1>0 DEF Dwells
  <1>2. Good(th, est) /\ th \in Members /\ Typed(th) /\ est \in 0..MaxTime
        /\ triggered \in BOOLEAN
    BY <1>1, OutsideFacts
  <1>3. th.queue = 0 /\ th.unsent = {} /\ triggered' \in BOOLEAN
    BY <1>0, <1>2 DEF Inv
  <1>4. Later(th, th) /\ InOrder(th, th)
    BY <1>2 DEF Later, InOrder, Typed
  <1>5. ASSUME NEW at \in Dwells, MustPause(th), Uses(th, Pausing(th, at))
        PROVE  Inv' /\ InOrder(th', th)
    <2>1. at \in {"check_pause", "homing_dwell", "drip_dwell"}
          /\ at \notin {"drip", "drip_wait"}
      BY DEF Dwells
    <2>2. Pausing(th, at) \in Cmds /\ Pausing(th, at).at = at
      BY <1>2, <1>5, <2>1, PausingCmd
    <2>3. QED
      BY <1>1, <1>2, <1>3, <1>4, <1>5, <2>1, <2>2, UsesStep
  <1>6. CASE drip_move(th, dt)
    BY <1>0, <1>1, <1>2, <1>3, <1>4, <1>6, DripMoveStep
  <1>7. CASE DripStart(th, dt)
    BY <1>0, <1>1, <1>2, <1>3, <1>4, <1>7, DripStartStep
  <1>8. "homing_dwell" \in Dwells /\ "drip_dwell" \in Dwells
    BY DEF Dwells
  <1>9. QED
    BY <1>0, <1>5, <1>6, <1>7, <1>8

\* What the invariant says in "Drip".
LEMMA InsideFacts ==
    ASSUME Inv, cmd.at \in {"drip", "drip_wait"}
    PROVE  /\ Dripping(th, cmd, est) /\ th \in Members /\ Typed(th) /\ cmd \in Cmds
           /\ est \in 0..MaxTime /\ est \in Nat /\ est < NEVER
           /\ cmd.end \in Nat /\ cmd.start \in Nat /\ cmd.wake \in Nat
           /\ triggered \in BOOLEAN /\ can_pause \in BOOLEAN /\ crashed \in BOOLEAN
  <1>1. Dripping(th, cmd, est) /\ th \in Members /\ est \in 0..MaxTime /\ cmd \in Cmds
    BY DEF Inv, InDrip, TypeOK, Cmds
  <1>2. triggered \in BOOLEAN /\ can_pause \in BOOLEAN /\ crashed \in BOOLEAN
    BY DEF Inv, TypeOK
  <1>3. cmd.end \in Nat /\ cmd.start \in Nat /\ cmd.wake \in Nat
    BY <1>1 DEF Cmds
  <1>4. QED
    BY <1>1, <1>2, <1>3, Fields, Constants

\* A turn of the loop is taken in "Drip" only.
LEMMA DripTurnInside == DripTurn => cmd.at \in {"drip", "drip_wait"}
  BY DEF DripTurn

\* Waiting in the loop: the greenlet wakes before the steps are due.
LEMMA DripWaitStep ==
    ASSUME Inv, DripWait
    PROVE  Inv' /\ InOrder(th', th)
  <1> DEFINE c == [cmd EXCEPT !.at = "drip_wait", !.wake = est + DripAhead]
  <1>0. cmd.at \in {"drip", "drip_wait"} /\ DripAhead > 0 /\ triggered' = triggered
        /\ th' = th /\ cmd' = c /\ est' = est /\ can_pause' = can_pause /\ crashed' = crashed
    BY DripTurnInside DEF DripWait, Uses
  <1>1. /\ Dripping(th, cmd, est) /\ Typed(th) /\ cmd \in Cmds
        /\ est \in Nat
        /\ triggered \in BOOLEAN /\ can_pause \in BOOLEAN /\ crashed \in BOOLEAN
    BY <1>0, InsideFacts
  <1>2. est + DripAhead \in Nat
        /\ est + DripAhead = th.print - (DRIP_TIME + STEPCOMPRESS_FLUSH_TIME + th.kin)
    BY <1>0, <1>1, Constants DEF DripAhead, Typed
  <1>3. c \in Cmds /\ c.at = "drip_wait" /\ c.end = cmd.end /\ c.start = cmd.start
        /\ c.wake = th.print - (DRIP_TIME + STEPCOMPRESS_FLUSH_TIME + th.kin)
    BY <1>1, <1>2 DEF Cmds
  <1> HIDE DEF c
  <1>4. Dripping(th, c, est)
    BY <1>1, <1>3 DEF Dripping
  <1>5. Dripping(th', cmd', est) /\ InOrder(th', th) /\ cmd' \in Cmds
        /\ cmd'.at \in {"drip", "drip_wait"}
    BY <1>0, <1>3, <1>4 DEF InOrder
  <1>6. triggered' \in BOOLEAN /\ can_pause' \in BOOLEAN /\ crashed' \in BOOLEAN
    BY <1>0, <1>1
  <1>7. QED
    BY <1>0, <1>5, <1>6, InsideStep

\* What a segment, or the end of the move, does: activity up to npt, then the time moves there.
LEMMA SegmentFacts ==
    ASSUME Inv, cmd.at \in {"drip", "drip_wait"}, NEW npt \in Nat, npt >= th.print
    PROVE  LET n == note_mcu_movequeue_activity(th, npt + th.kin, TRUE)
               r == _advance_move_time(n, npt)
           IN  /\ r \in Members /\ r.special = "Drip" /\ r.print = npt /\ r.kin = th.kin
               /\ r.queue = th.queue
               /\ r.kick = FALSE /\ r.flush_timer = NEVER
               /\ r.generated <= r.min_restart /\ r.last_flush <= r.generated
               /\ r.step_gen <= r.need_flush /\ r.step_gen >= npt + th.kin
               /\ r.step_gen >= th.step_gen
               /\ r.generated <= th.generated \/ r.generated <= npt - th.kin
               /\ r.last_flush >= npt - th.kin - STEPCOMPRESS_FLUSH_TIME
               /\ r.unsent = {s \in th.unsent : s >= r.last_flush}
  <1> DEFINE n == note_mcu_movequeue_activity(th, npt + th.kin, TRUE)
             r == _advance_move_time(n, npt)
  <1>1. /\ Dripping(th, cmd, est) /\ th \in Members /\ Typed(th) /\ est \in Nat
    BY InsideFacts
  <1>2. npt + th.kin \in Nat /\ TRUE \in BOOLEAN
    BY <1>1 DEF Typed
  <1>3. /\ n \in Members /\ n.special = th.special /\ n.print = th.print
        /\ n.last_flush = th.last_flush /\ n.generated = th.generated
        /\ n.min_restart = th.min_restart /\ n.unsent = th.unsent
        /\ n.queue = th.queue /\ n.kin = th.kin
        /\ n.need_flush >= th.need_flush /\ n.need_flush >= npt + th.kin
        /\ n.step_gen = Larger(th.step_gen, npt + th.kin)
        /\ n.kick = FALSE
        /\ n.flush_timer = (IF th.kick THEN est ELSE th.flush_timer)
    BY <1>1, <1>2, NoteActivity
  <1> HIDE DEF n
  <1>4. n.flush_timer = NEVER /\ n.special = "Drip"
    BY <1>1, <1>3 DEF Dripping
  <1>5. /\ r \in Members /\ Alike(r, n) /\ r.special = n.special
        /\ r.print = Larger(n.print, npt)
        /\ r.last_flush = Larger(r.print - n.kin - STEPCOMPRESS_FLUSH_TIME, n.last_flush)
        /\ r.generated >= n.generated /\ r.generated >= r.last_flush
        /\ \/ r.generated <= n.generated \/ r.generated <= r.print - n.kin
           \/ r.generated <= n.last_flush
        /\ n.generated <= n.min_restart => r.generated <= r.min_restart
        /\ r.unsent = {s \in n.unsent : s >= r.last_flush}
    BY <1>3, AdvanceMove
  <1> HIDE DEF r
  <1>6. Typed(n) /\ Typed(r)
    BY <1>3, <1>5, Fields
  <1>7. r.print = npt
    BY <1>1, <1>3, <1>5 DEF Larger, Typed
  <1>8. r.kin = th.kin /\ r.queue = th.queue /\ r.kick = FALSE /\ r.flush_timer = NEVER
        /\ r.step_gen = n.step_gen /\ r.need_flush = n.need_flush
    BY <1>3, <1>4, <1>5 DEF Alike
  <1>9. th.generated <= th.min_restart /\ th.last_flush <= th.generated
        /\ th.step_gen <= th.need_flush
    BY <1>1 DEF Dripping
  <1>10. r.generated <= r.min_restart /\ r.last_flush <= r.generated
    BY <1>3, <1>5, <1>6, <1>9 DEF Typed
  <1>11. r.step_gen <= r.need_flush /\ r.step_gen >= npt + th.kin /\ r.step_gen >= th.step_gen
    BY <1>1, <1>2, <1>3, <1>6, <1>8, <1>9 DEF Typed, Larger
  <1>12. r.generated <= th.generated \/ r.generated <= npt - th.kin
    BY <1>1, <1>3, <1>5, <1>6, <1>7, <1>9 DEF Typed
  <1>13. r.last_flush >= npt - th.kin - STEPCOMPRESS_FLUSH_TIME
    BY <1>1, <1>3, <1>5, <1>6, <1>7, Constants DEF Typed, Larger
  <1>14. QED
    BY <1>3, <1>4, <1>5, <1>7, <1>8, <1>10, <1>11, <1>12, <1>13 DEF r, n

\* A segment extends the generated steps by DRIP_SEGMENT_TIME at most.
LEMMA DripSegmentStep ==
    ASSUME Inv, DripSegment
    PROVE  Inv' /\ InOrder(th', th)
  <1> DEFINE npt == Smaller(th.print + DRIP_SEGMENT_TIME, cmd.end)
             n == note_mcu_movequeue_activity(th, npt + th.kin, TRUE)
             r == _advance_move_time(n, npt)
             c == [cmd EXCEPT !.at = "drip", !.wake = NEVER]
  <1>0. /\ cmd.at \in {"drip", "drip_wait"} /\ th.print < cmd.end /\ DripAhead <= 0
        /\ triggered' = triggered
        /\ th' = r /\ cmd' = c /\ est' = est /\ can_pause' = can_pause /\ crashed' = crashed
    BY DripTurnInside DEF DripSegment, Uses
  <1>1. /\ Dripping(th, cmd, est) /\ Typed(th) /\ cmd \in Cmds /\ est \in Nat
        /\ cmd.end \in Nat /\ cmd.start \in Nat
        /\ triggered \in BOOLEAN /\ can_pause \in BOOLEAN /\ crashed \in BOOLEAN
    BY <1>0, InsideFacts
  <1>2. npt \in Nat /\ npt >= th.print /\ npt <= th.print + DRIP_SEGMENT_TIME
    BY <1>0, <1>1, Constants DEF Typed, Smaller
  <1> HIDE DEF npt
  <1>3. /\ r \in Members /\ r.special = "Drip" /\ r.print = npt /\ r.kin = th.kin
        /\ r.kick = FALSE /\ r.flush_timer = NEVER
        /\ r.generated <= r.min_restart /\ r.last_flush <= r.generated
        /\ r.step_gen <= r.need_flush /\ r.step_gen >= npt + th.kin
        /\ r.step_gen >= th.step_gen
        /\ r.generated <= th.generated \/ r.generated <= npt - th.kin
        /\ r.last_flush >= npt - th.kin - STEPCOMPRESS_FLUSH_TIME
        /\ r.unsent = {s \in th.unsent : s >= r.last_flush}
    BY <1>0, <1>2, SegmentFacts
  <1>4. c \in Cmds /\ c.at = "drip" /\ c.end = cmd.end /\ c.start = cmd.start
    BY <1>1, Constants DEF Cmds
  <1> HIDE DEF r, c
  <1>5. Typed(r)
    BY <1>3, Fields
  <1>6. th.generated <= cmd.start
          \/ th.generated <= est + DRIP_TIME + STEPCOMPRESS_FLUSH_TIME + DRIP_SEGMENT_TIME
    BY <1>1 DEF Dripping
  <1>7. npt - th.kin <= est + DRIP_TIME + STEPCOMPRESS_FLUSH_TIME + DRIP_SEGMENT_TIME
    BY <1>0, <1>1, <1>2, Constants DEF Typed, DripAhead
  <1>8. r.generated <= c.start
          \/ r.generated <= est + DRIP_TIME + STEPCOMPRESS_FLUSH_TIME + DRIP_SEGMENT_TIME
    BY <1>1, <1>2, <1>3, <1>4, <1>5, <1>6, <1>7, Constants DEF Typed
  <1>9. ASSUME NEW s \in r.unsent
        PROVE  /\ s >= est /\ s >= r.last_flush /\ s < c.end
               /\ s >= r.print - r.kin - STEPCOMPRESS_FLUSH_TIME
               /\ s < r.generated => s < r.step_gen
    <2>1. s \in th.unsent /\ s \in Nat /\ s >= r.last_flush
      BY <1>1, <1>3 DEF Typed
    <2>2. s >= est /\ s < cmd.end /\ (s < th.generated => s < th.step_gen)
      BY <1>1, <2>1 DEF Dripping
    <2>3. s >= r.print - r.kin - STEPCOMPRESS_FLUSH_TIME
      BY <1>1, <1>2, <1>3, <1>5, <2>1, Constants DEF Typed
    <2>4. s < r.generated => s < r.step_gen
      BY <1>1, <1>2, <1>3, <1>5, <2>1, <2>2 DEF Typed
    <2>5. QED
      BY <1>4, <2>1, <2>2, <2>3, <2>4
  <1>10. Dripping(r, c, est)
    BY <1>3, <1>4, <1>8, <1>9 DEF Dripping
  <1>11. Dripping(th', cmd', est) /\ InOrder(th', th) /\ cmd' \in Cmds
        /\ cmd'.at \in {"drip", "drip_wait"}
    BY <1>0, <1>3, <1>4, <1>10 DEF InOrder
  <1>12. triggered' \in BOOLEAN /\ can_pause' \in BOOLEAN /\ crashed' \in BOOLEAN
    BY <1>0, <1>1
  <1>13. QED
    BY <1>0, <1>11, <1>12, InsideStep

\* Leaving "Drip".
LEMMA DripEndStep ==
    ASSUME Inv, cmd.at \in {"drip", "drip_wait"}, UNCHANGED triggered,
           NEW h \in Members, h.queue = 0,
           h.generated <= h.min_restart, h.last_flush <= h.generated,
           h.step_gen <= h.need_flush, h.kick = FALSE,
           \A s \in h.unsent : s < h.step_gen,
           Uses(DripEnd(h), Idle)
    PROVE  Inv' /\ InOrder(th', th)
  <1>1. est \in 0..MaxTime /\ triggered \in BOOLEAN /\ can_pause \in BOOLEAN
        /\ crashed \in BOOLEAN
    BY InsideFacts
  <1>2. Good(DripEnd(h), est) /\ DripEnd(h).unsent = {}
    BY <1>1, GoodDripEnd
  <1>3. th' = DripEnd(h) /\ cmd' = Idle /\ est' = est /\ can_pause' = can_pause
        /\ crashed' = crashed
    BY DEF Uses
  <1>4. Good(th', est) /\ InOrder(th', th) /\ cmd' \in Cmds
        /\ cmd'.at \notin {"drip", "drip_wait"} /\ cmd'.at \notin Dwells
    BY <1>2, <1>3, IdleCmd DEF InOrder, Dwells
  <1>5. triggered' \in BOOLEAN /\ can_pause' \in BOOLEAN /\ crashed' \in BOOLEAN
    BY <1>1, <1>3
  <1>6. QED
    BY <1>3, <1>4, <1>5, OutsideStep

\* The endstop ends the move: no generated step stays unsent.
LEMMA DripTriggeredStep ==
    ASSUME Inv, DripTriggered
    PROVE  Inv' /\ InOrder(th', th)
  <1> DEFINE u == {s \in th.unsent : s < th.generated}
             h == [th EXCEPT !.queue = 0, !.unsent = u]
  <1>0. cmd.at \in {"drip", "drip_wait"} /\ UNCHANGED triggered /\ Uses(DripEnd(h), Idle)
    BY DripTurnInside DEF DripTriggered
  <1>1. Dripping(th, cmd, est) /\ th \in Members /\ Typed(th)
    BY <1>0, InsideFacts
  <1>2. u \in SUBSET Nat /\ \A s \in u : s < th.step_gen
    BY <1>1 DEF Typed, Dripping
  <1> HIDE DEF u
  <1>3. h \in Members /\ h.queue = 0 /\ h.generated = th.generated
        /\ h.min_restart = th.min_restart /\ h.last_flush = th.last_flush
        /\ h.step_gen = th.step_gen /\ h.need_flush = th.need_flush
        /\ h.kick = th.kick /\ h.unsent = u
    <2>1. 0 \in 0..MaxQueue
      BY Constants
    <2>2. h \in Members
      BY <1>1, <1>2, <2>1 DEF Members
    <2>3. QED
      BY <1>1, <2>2 DEF Members
  <1> HIDE DEF h
  <1>4. /\ h.generated <= h.min_restart /\ h.last_flush <= h.generated
        /\ h.step_gen <= h.need_flush /\ h.kick = FALSE
        /\ \A s \in h.unsent : s < h.step_gen
    BY <1>1, <1>2, <1>3 DEF Dripping
  <1>5. QED
    BY <1>0, <1>3, <1>4, DripEndStep

\* The move ends by itself: all its steps are sent.
LEMMA DripCompleteStep ==
    ASSUME Inv, DripComplete
    PROVE  Inv' /\ InOrder(th', th)
  <1> DEFINE n == note_mcu_movequeue_activity(th, cmd.end + th.kin, TRUE)
             r == _advance_move_time(n, cmd.end)
             h == [r EXCEPT !.queue = 0]
  <1>0. cmd.at \in {"drip", "drip_wait"} /\ th.print >= cmd.end /\ UNCHANGED triggered
        /\ Uses(DripEnd(h), Idle)
    BY DEF DripComplete
  <1>1. /\ Dripping(th, cmd, est) /\ th \in Members /\ Typed(th) /\ cmd.end \in Nat
        /\ est \in Nat
    BY <1>0, InsideFacts
  <1>2. cmd.end + th.kin \in Nat /\ TRUE \in BOOLEAN /\ cmd.end \in Int
    BY <1>1 DEF Typed
  <1>3. /\ n \in Members /\ n.generated = th.generated
        /\ n.min_restart = th.min_restart /\ n.unsent = th.unsent
        /\ n.need_flush >= th.need_flush /\ n.need_flush >= cmd.end + th.kin
        /\ n.step_gen = Larger(th.step_gen, cmd.end + th.kin)
        /\ n.kick = FALSE
    BY <1>1, <1>2, NoteActivity
  <1> HIDE DEF n
  <1>4. /\ r \in Members /\ Alike(r, n)
        /\ r.generated >= r.last_flush
        /\ n.generated <= n.min_restart => r.generated <= r.min_restart
        /\ r.unsent = {s \in n.unsent : s >= r.last_flush}
    BY <1>2, <1>3, AdvanceMove
  <1> HIDE DEF r
  <1>5. Typed(n) /\ Typed(r)
    BY <1>3, <1>4, Fields
  <1>6. h \in Members /\ h.queue = 0 /\ h.generated = r.generated
        /\ h.min_restart = r.min_restart /\ h.last_flush = r.last_flush
        /\ h.step_gen = r.step_gen /\ h.need_flush = r.need_flush
        /\ h.kick = r.kick /\ h.unsent = r.unsent
    BY <1>4, Constants DEF Members
  <1> HIDE DEF h
  <1>7. r.step_gen = n.step_gen /\ r.need_flush = n.need_flush /\ r.kick = FALSE
    BY <1>3, <1>4 DEF Alike
  <1>8. th.generated <= th.min_restart /\ th.step_gen <= th.need_flush
    BY <1>1 DEF Dripping
  <1>9. n.step_gen <= n.need_flush /\ n.step_gen >= cmd.end
    BY <1>1, <1>2, <1>3, <1>5, <1>8 DEF Typed, Larger
  <1>10. \A s \in h.unsent : s < h.step_gen
    <2>1. \A s \in h.unsent : s \in Nat /\ s < cmd.end
      BY <1>1, <1>3, <1>4, <1>6 DEF Dripping, Typed
    <2>2. QED
      BY <1>1, <1>5, <1>6, <1>7, <1>9, <2>1 DEF Typed
  <1>11. /\ h.generated <= h.min_restart /\ h.last_flush <= h.generated
         /\ h.step_gen <= h.need_flush /\ h.kick = FALSE
    BY <1>3, <1>4, <1>5, <1>6, <1>7, <1>8, <1>9 DEF Typed
  <1>12. QED
    BY <1>0, <1>6, <1>10, <1>11, DripEndStep

-----------------------------------------------------------------------------

\* The flush timer keeps the invariant.
LEMMA FlushHandlerStep ==
    ASSUME Inv, NEW t, FlushHandler(t)
    PROVE  Inv' /\ InOrder(th', th)
  <1>0. /\ est >= th.flush_timer /\ t \in Times(th.queue)
        /\ UNCHANGED <<est, cmd, triggered, can_pause, crashed>>
    BY DEF FlushHandler
  <1>1. cmd.at \notin {"drip", "drip_wait"}
    <2>1. SUFFICES ASSUME cmd.at \in {"drip", "drip_wait"} PROVE FALSE
      OBVIOUS
    <2>2. th.flush_timer = NEVER /\ est < NEVER /\ est \in Nat
      BY <2>1, InsideFacts DEF Dripping
    <2>3. QED
      BY <1>0, <2>2, Constants
  <1>2. Good(th, est) /\ th \in Members /\ Typed(th) /\ est \in 0..MaxTime /\ est \in Nat
        /\ triggered \in BOOLEAN /\ can_pause \in BOOLEAN /\ crashed \in BOOLEAN
        /\ cmd \in Cmds
    BY <1>1, OutsideFacts
  <1>3. t \in Nat
    BY <1>0, <1>2, TimesNat DEF Typed
  <1>4. /\ Good(th', est) /\ InOrder(th', th)
        /\ cmd.at \in Dwells => th'.queue = 0 /\ th'.unsent = {}
    <2>1. CASE /\ th.special = "Main" /\ th.print - est > BUFFER_TIME_LOW
               /\ th' = [th EXCEPT !.flush_timer = th.print - BUFFER_TIME_LOW]
      <3> DEFINE ft == th.print - BUFFER_TIME_LOW
                 r == [th EXCEPT !.flush_timer = ft]
      <3>1. ft \in Int /\ est <= ft
        BY <1>2, <2>1, Constants DEF Typed
      <3>2. th' = r
        BY <2>1
      <3> HIDE DEF ft
      <3>3. r \in Members /\ r.special = th.special /\ r.print = th.print
            /\ r.kin = th.kin /\ r.last_flush = th.last_flush
            /\ r.generated = th.generated /\ r.min_restart = th.min_restart
            /\ r.need_flush = th.need_flush /\ r.step_gen = th.step_gen
            /\ r.kick = th.kick /\ r.flush_timer = ft /\ r.unsent = th.unsent
            /\ r.queue = th.queue
        BY <1>2, <3>1 DEF Members
      <3> HIDE DEF r
      <3>4. ft + Latency <= th.print /\ ft + Latency <= th.last_flush /\ est <= ft + Latency
        <4>1. th.print - th.kin - STEPCOMPRESS_FLUSH_TIME <= th.last_flush
          BY <1>2, <2>1 DEF Good
        <4>2. QED
          BY <1>2, <3>1, <4>1, Constants DEF ft, Typed
      <3>5. \A s \in r.unsent :
              s >= r.last_flush /\ s < r.step_gen /\ s >= r.flush_timer + Latency
        <4>1. \A s \in th.unsent : s \in Nat /\ s >= th.last_flush /\ s < th.step_gen
          BY <1>2 DEF Good, Timed, Typed
        <4>2. QED
          BY <1>2, <3>1, <3>3, <3>4, <4>1, Constants DEF Typed
      <3>6. Good(r, est)
        BY <1>2, <2>1, <3>3, <3>4, <3>5 DEF Good, Timed
      <3>7. QED
        BY <3>2, <3>3, <3>6 DEF InOrder, Inv
    <2>2. CASE th' = Background(_flush_lookahead(th, t))
      <3> DEFINE f == _flush_lookahead(th, t)
      <3>1. /\ Good(f, est) /\ InOrder(f, th) /\ f.queue = 0 /\ f.special = "NeedPrime"
            /\ th.queue = 0 => f.unsent = th.unsent
        BY <1>2, <1>3, GoodFlushLookahead
      <3> HIDE DEF f
      <3>2. /\ Good(Background(f), est) /\ Background(f).queue = f.queue
            /\ Background(f).unsent \subseteq f.unsent
        BY <1>2, <3>1, GoodBackground
      <3>3. th' = Background(f)
        BY <2>2 DEF f
      <3>4. InOrder(th', th)
        BY <3>1, <3>2, <3>3 DEF InOrder
      <3>5. cmd.at \in Dwells => th'.queue = 0 /\ th'.unsent = {}
        BY <3>1, <3>2, <3>3 DEF Inv
      <3>6. QED
        BY <3>2, <3>3, <3>4, <3>5
    <2>3. CASE th.special # "Main" /\ th' = Background(th)
      <3>1. /\ Good(Background(th), est) /\ InOrder(Background(th), th)
            /\ Background(th).queue = th.queue /\ Background(th).unsent \subseteq th.unsent
        BY <1>2, <2>3, GoodBackground
      <3>2. cmd.at \in Dwells => th'.queue = 0 /\ th'.unsent = {}
        BY <2>3, <3>1 DEF Inv
      <3>3. QED
        BY <2>3, <3>1, <3>2
    <2>4. QED
      BY <2>1, <2>2, <2>3 DEF FlushHandler
  <1>5. cmd' \in Cmds /\ cmd'.at \notin {"drip", "drip_wait"} /\ est' = est
        /\ (cmd'.at \in Dwells => th'.queue = 0 /\ th'.unsent = {})
    BY <1>0, <1>1, <1>2, <1>4
  <1>6. triggered' \in BOOLEAN /\ can_pause' \in BOOLEAN /\ crashed' \in BOOLEAN
    BY <1>0, <1>2
  <1>7. QED
    BY <1>4, <1>5, <1>6, OutsideStep

\* The priming timer keeps the invariant.
LEMMA PrimingHandlerStep ==
    ASSUME Inv, NEW t, PrimingHandler(t)
    PROVE  Inv' /\ InOrder(th', th)
  <1> DEFINE r == [th EXCEPT !.priming_timer = NEVER]
  <1>0. /\ t \in Times(th.queue)
        /\ UNCHANGED <<est, cmd, triggered, can_pause, crashed>>
    BY DEF PrimingHandler
  <1>1. th \in Members /\ Typed(th) /\ cmd \in Cmds /\ est \in 0..MaxTime /\ est \in Nat
    BY Fields, Constants DEF Inv, TypeOK, Cmds
  <1>2. triggered \in BOOLEAN /\ can_pause \in BOOLEAN /\ crashed \in BOOLEAN
    BY DEF Inv, TypeOK
  <1>3. triggered' \in BOOLEAN /\ can_pause' \in BOOLEAN /\ crashed' \in BOOLEAN
        /\ cmd' = cmd /\ est' = est
    BY <1>0, <1>2
  <1>4. r \in Members /\ r.special = th.special /\ r.print = th.print
        /\ r.kin = th.kin /\ r.last_flush = th.last_flush
        /\ r.generated = th.generated /\ r.min_restart = th.min_restart
        /\ r.need_flush = th.need_flush /\ r.step_gen = th.step_gen
        /\ r.kick = th.kick /\ r.flush_timer = th.flush_timer /\ r.unsent = th.unsent
        /\ r.queue = th.queue
    BY <1>1, Constants DEF Members
  <1>5. InOrder(r, th)
    BY <1>4 DEF InOrder
  <1>6. \/ th.special = "Priming" /\ th' = _flush_lookahead(r, t)
        \/ th' = r
    BY DEF PrimingHandler
  <1> HIDE DEF r
  <1>7. CASE cmd.at \in {"drip", "drip_wait"}
    <2>1. Dripping(th, cmd, est)
      BY <1>7, InsideFacts
    <2>2. Dripping(r, cmd, est)
      BY <1>4, <2>1 DEF Dripping
    <2>3. th' = r
      BY <1>6, <2>1 DEF Dripping
    <2>4. Dripping(th', cmd', est) /\ InOrder(th', th) /\ cmd' \in Cmds
          /\ cmd'.at \in {"drip", "drip_wait"}
      BY <1>1, <1>3, <1>5, <1>7, <2>2, <2>3
    <2>5. QED
      BY <1>3, <2>4, InsideStep
  <1>8. CASE cmd.at \notin {"drip", "drip_wait"}
    <2>1. Good(th, est)
      BY <1>8, OutsideFacts
    <2>2. Good(r, est)
      <3>1. r.min_restart >= th.min_restart /\ r.need_flush >= th.need_flush
        BY <1>1, <1>4 DEF Typed
      <3>2. QED
        BY <1>1, <1>4, <2>1, <3>1, GoodSame
    <2>3. t \in Nat
      BY <1>0, <1>1, TimesNat DEF Typed
    <2> DEFINE f == _flush_lookahead(r, t)
    <2>4. /\ Good(f, est) /\ InOrder(f, r) /\ f.queue = 0
          /\ r.queue = 0 => f.unsent = r.unsent
      BY <1>1, <2>2, <2>3, GoodFlushLookahead
    <2>5. th' = f \/ th' = r
      BY <1>6
    <2> HIDE DEF f
    <2>6. Good(th', est) /\ InOrder(th', th)
      <3>1. InOrder(f, th)
        BY <1>4, <2>4 DEF InOrder
      <3>2. QED
        BY <1>5, <2>2, <2>4, <2>5, <3>1
    <2>7. cmd.at \in Dwells => th'.queue = 0 /\ th'.unsent = {}
      BY <1>4, <2>4, <2>5 DEF Inv
    <2>8. cmd' \in Cmds /\ cmd'.at \notin {"drip", "drip_wait"}
          /\ (cmd'.at \in Dwells => th'.queue = 0 /\ th'.unsent = {})
      BY <1>1, <1>3, <1>8, <2>7
    <2>9. QED
      BY <1>3, <2>6, <2>8, OutsideStep
  <1>9. QED
    BY <1>7, <1>8

\* The steps that change neither the members nor the commands nor the time.
LEMMA FlagsStep ==
    ASSUME Inv, UNCHANGED <<th, est, cmd>>,
           triggered' \in BOOLEAN, can_pause' \in BOOLEAN, crashed' \in BOOLEAN
    PROVE  Inv' /\ InOrder(th', th)
  <1>1. TypeOK'
    BY DEF Inv, TypeOK, InDrip, Members
  <1>2. QED
    BY <1>1 DEF Inv, InDrip, Dwells, Dripping, Good, Timed, InOrder, Members

\* Time passes within Latency: no step becomes due unsent.
LEMMA TickStep ==
    ASSUME Inv, Tick
    PROVE  Inv' /\ InOrder(th', th)
  <1>0. /\ est < MaxTime /\ cmd.at # "drip" /\ est' = est + 1
        /\ est < th.flush_timer + Latency /\ est < cmd.wake + Latency
        /\ th' = th /\ cmd' = cmd /\ UNCHANGED <<triggered, can_pause, crashed>>
    BY DEF Tick
  <1>1. th \in Members /\ Typed(th) /\ cmd \in Cmds /\ est \in 0..MaxTime /\ est \in Nat
    BY Fields, Constants DEF Inv, TypeOK, Cmds
  <1>2. est' \in 0..MaxTime /\ est' \in Nat
    BY <1>0, <1>1, Constants
  <1>3. TypeOK'
    BY <1>0, <1>2 DEF Inv, TypeOK, InDrip, Members
  <1>4. InOrder(th', th)
    BY <1>0 DEF InOrder
  <1>5. CASE InDrip
    <2>1. cmd.at = "drip_wait"
      BY <1>0, <1>5 DEF InDrip
    <2>2. Dripping(th, cmd, est)
      BY <1>5 DEF Inv
    <2>3. cmd.wake = th.print - (DRIP_TIME + STEPCOMPRESS_FLUSH_TIME + th.kin)
      BY <2>1, <2>2 DEF Dripping
    <2>4. \A s \in th.unsent : s >= est'
      <3>1. \A s \in th.unsent :
              s \in Nat /\ s >= th.print - th.kin - STEPCOMPRESS_FLUSH_TIME
        BY <1>1, <2>2 DEF Dripping, Typed
      <3>2. QED
        BY <1>0, <1>1, <2>3, <3>1, Constants DEF Typed
    <2>5. cmd.start \in Nat
      BY <1>1 DEF Cmds
    <2>6. \/ th.generated <= cmd.start
          \/ th.generated <= est' + DRIP_TIME + STEPCOMPRESS_FLUSH_TIME + DRIP_SEGMENT_TIME
      BY <1>0, <1>1, <2>2, <2>5, Constants DEF Dripping, Typed
    <2>7. Dripping(th', cmd', est')
      BY <1>0, <2>2, <2>4, <2>6 DEF Dripping
    <2>8. InDrip'
      BY <1>0, <2>1 DEF InDrip
    <2>9. cmd'.at \notin Dwells
      BY <1>0, <2>1 DEF Dwells
    <2>10. QED
      BY <1>3, <1>4, <2>7, <2>8, <2>9 DEF Inv, Dripping, Dwells
  <1>6. CASE ~InDrip
    <2>1. Good(th, est)
      BY <1>6 DEF Inv
    <2>2. est' <= th.flush_timer + Latency
      BY <1>0, <1>1, Constants DEF Typed
    <2>3. th.kick = FALSE => th.flush_timer + Latency <= th.last_flush \/ th.flush_timer <= est'
      BY <1>0, <1>1, <2>1, Constants DEF Good, Timed, Typed
    <2>4. Good(th', est')
      BY <1>0, <2>1, <2>2, <2>3 DEF Good, Timed
    <2>5. ~InDrip'
      BY <1>0, <1>6 DEF InDrip
    <2>6. cmd'.at \in Dwells => th'.queue = 0 /\ th'.unsent = {}
      BY <1>0 DEF Inv
    <2>7. QED
      BY <1>3, <1>4, <2>4, <2>5, <2>6 DEF Inv, Good, Timed, Members, Dwells
  <1>7. QED
    BY <1>5, <1>6

\* Every step keeps the invariant and the order of the steps.
LEMMA NextStep ==
    ASSUME Inv, [Next]_vars
    PROVE  Inv' /\ InOrder(th', th)
  <1>0. triggered \in BOOLEAN /\ can_pause \in BOOLEAN /\ crashed \in BOOLEAN
    BY DEF Inv, TypeOK
  <1>1. CASE UNCHANGED vars
    BY <1>0, <1>1, FlagsStep DEF vars
  <1>2. CASE Next
    <2>1. CASE Command
      <3>1. ASSUME NEW n, NEW t, move(n, t) PROVE Inv' /\ InOrder(th', th)
        BY <3>1, MoveStep
      <3>2. ASSUME NEW t, NEW delay \in {0, MaxMove}, dwell(t, delay)
            PROVE  Inv' /\ InOrder(th', th)
        <4>1. delay \in Nat
          BY Constants
        <4>2. QED
          BY <3>2, <4>1, DwellStep
      <3>3. ASSUME NEW t, set_position(t) PROVE Inv' /\ InOrder(th', th)
        BY <3>3, SetPositionStep
      <3>4. ASSUME NEW t, NEW d \in KinDelays, note_step_generation_scan_time(t, d)
            PROVE  Inv' /\ InOrder(th', th)
        BY <3>4, ScanTimeStep
      <3>5. ASSUME NEW t, wait_moves(t) PROVE Inv' /\ InOrder(th', th)
        BY <3>5, WaitMovesStep
      <3>6. ASSUME NEW t, NEW dt, homing_move(t, dt) PROVE Inv' /\ InOrder(th', th)
        BY <3>6, HomingMoveStep
      <3>7. CASE queue_request
        BY <3>7, QueueRequestStep
      <3>8. QED
        BY <2>1, <3>1, <3>2, <3>3, <3>4, <3>5, <3>6, <3>7 DEF Command
    <2>2. CASE Greenlet
      <3>1. CASE WaitMoves \/ CheckPause
        BY <3>1, WakeStep
      <3>2. ASSUME NEW dt, HomingDwell(dt) \/ DripDwell(dt) PROVE Inv' /\ InOrder(th', th)
        BY <3>2, DwellsStep
      <3>3. CASE DripWait
        BY <3>3, DripWaitStep
      <3>4. CASE DripSegment
        BY <3>4, DripSegmentStep
      <3>5. CASE DripComplete
        BY <3>5, DripCompleteStep
      <3>6. CASE DripTriggered
        BY <3>6, DripTriggeredStep
      <3>7. CASE DwellCrash \/ DripCrash
        BY <1>0, <3>7, FlagsStep DEF DwellCrash, DripCrash, Crash
      <3>8. QED
        BY <2>2, <3>1, <3>2, <3>3, <3>4, <3>5, <3>6, <3>7 DEF Greenlet
    <2>3. CASE Timers
      <3>1. ASSUME NEW t, FlushHandler(t) PROVE Inv' /\ InOrder(th', th)
        BY <3>1, FlushHandlerStep
      <3>2. ASSUME NEW t, PrimingHandler(t) PROVE Inv' /\ InOrder(th', th)
        BY <3>2, PrimingHandlerStep
      <3>3. CASE FlushHandlerCrash \/ PrimingHandlerCrash
        BY <1>0, <3>3, FlagsStep DEF FlushHandlerCrash, PrimingHandlerCrash, Crash
      <3>4. QED
        BY <2>3, <3>1, <3>2, <3>3 DEF Timers
    <2>4. CASE Trigger
      BY <1>0, <2>4, FlagsStep DEF Trigger
    <2>5. CASE _handle_shutdown
      BY <1>0, <2>5, FlagsStep DEF _handle_shutdown
    <2>6. CASE Tick
      BY <2>6, TickStep
    <2>7. QED
      BY <1>2, <2>1, <2>2, <2>3, <2>4, <2>5, <2>6 DEF Next
  <1>3. QED
    BY <1>1, <1>2

\* Inv is an invariant.
THEOREM Invariant == Spec => []Inv
  <1>1. Inv /\ [Next]_vars => Inv'
    BY NextStep
  <1>2. QED
    BY InitInv, <1>1, PTL DEF Spec

\* The types of all variables, and that "Drip" is the state of drip_move() alone.
THEOREM TypeCorrect == Spec => []TypeOK
  <1>1. Inv => TypeOK
    BY DEF Inv
  <1>2. QED
    BY Invariant, <1>1, PTL

\* New moves start no earlier than the generated steps reach, for all times of the
\* moves, all buffer times and all delays of step generation.
THEOREM AlwaysStepsInOrder == Spec => StepsInOrder
  <1>1. Inv /\ [Next]_vars => [\A s \in th'.unsent \ th.unsent : s >= th.generated + th.kin]_vars
    <2> SUFFICES ASSUME Inv, [Next]_vars, NEW s \in th'.unsent \ th.unsent
                 PROVE  s >= th.generated + th.kin
      OBVIOUS
    <2>1. QED
      BY NextStep DEF InOrder
  <1>2. QED
    BY Invariant, <1>1, PTL DEF Spec, StepsInOrder

\* Steps are sent before they are due, for every Latency within the margins of
\* LatencyAssumption.
THEOREM AlwaysSentInTime == Spec => []SentInTime
  <1>1. Inv => SentInTime
    <2> SUFFICES ASSUME Inv, NEW s \in th.unsent PROVE s >= est
      BY DEF SentInTime
    <2>1. th \in Members /\ Typed(th) /\ est \in Nat
      BY Fields, Constants DEF Inv, TypeOK
    <2>2. CASE InDrip
      BY <2>2 DEF Inv, Dripping
    <2>3. CASE ~InDrip
      <3>1. s \in Nat /\ s >= th.flush_timer + Latency /\ est <= th.flush_timer + Latency
        BY <2>1, <2>3 DEF Inv, Good, Timed, Typed
      <3>2. QED
        BY <2>1, <3>1, Constants DEF Typed
    <2>4. QED
      BY <2>2, <2>3
  <1>2. QED
    BY Invariant, <1>1, PTL

\* A homing move is generated only a short time ahead, for every segment and drip time.
THEOREM AlwaysDripIsShort == Spec => []DripIsShort
  <1>1. Inv => DripIsShort
    <2> SUFFICES ASSUME Inv, InDrip
                 PROVE  th.generated <= Larger(cmd.start,
                          est + DRIP_TIME + STEPCOMPRESS_FLUSH_TIME + DRIP_SEGMENT_TIME)
      BY DEF DripIsShort
    <2>1. Typed(th) /\ est \in Nat /\ cmd.start \in Nat /\ Dripping(th, cmd, est)
      BY InsideFacts DEF InDrip
    <2>2. QED
      BY <2>1, Constants DEF Dripping, Typed, Larger
  <1>2. QED
    BY Invariant, <1>1, PTL

-----------------------------------------------------------------------------
(***************************************************************************)
(* Nothing is forgotten.  Good already stops the flush timer only when     *)
(* there is nothing to send, provided that no time reaches reactor->NEVER: *)
(* a time that is equal to NEVER would stop a timer by accident.  So the   *)
(* second invariant, Soon, bounds print_time from command to command, and  *)
(* says which timer the queue waits for in each queuing state.             *)
(***************************************************************************)

\* The time that the moves of a full queue may take.
Most == MaxQueue * MaxMove

\* How far the background flushing runs ahead of the clock.
FlushAhead == BGFLUSH_LOW_TIME + BGFLUSH_BATCH_TIME

\* What is generated and sent is not far behind print_time, or near the clock.
Close(h) ==
    /\ h.step_gen <= h.print + BUFFER_TIME_LOW
    /\ h.last_flush <= h.print + BUFFER_TIME_LOW \/ h.last_flush <= MaxTime + FlushAhead
    /\ h.min_restart <= h.print + BUFFER_TIME_LOW \/ h.min_restart <= MaxTime + FlushAhead

\* The members whose times come no later than limit.
Reach(h, limit) == h \in Members /\ Close(h) /\ h.print <= limit

\* The members that say what the queue waits for.
Kept(r, h) ==
    /\ r.special = h.special /\ r.need_check = h.need_check
    /\ r.priming_timer = h.priming_timer /\ r.queue = h.queue

\* The bounds as numbers, and what the largest of them is good for.
LEMMA Bounds ==
    /\ Most \in Nat /\ Lead \in Nat /\ FlushAhead \in Nat /\ Horizon \in Nat
    /\ Lead = BUFFER_TIME_START + MIN_KIN_TIME + FlushAhead + 2 * BUFFER_TIME_LOW
    /\ Horizon = MaxTime + 4 * Lead + 2 * Most + HOMING_START_DELAY + BUFFER_TIME_LOW + MaxMove
    /\ Horizon + BUFFER_TIME_LOW + CHECK_PAUSE_TIME < NEVER
  <1>1. Most \in Nat
    BY Constants DEF Most
  <1>2. FlushAhead \in Nat /\ Lead \in Nat
        /\ Lead = BUFFER_TIME_START + MIN_KIN_TIME + FlushAhead + 2 * BUFFER_TIME_LOW
    BY Constants DEF FlushAhead, Lead
  <1>3. Horizon = MaxTime + 4 * Lead + 2 * Most + HOMING_START_DELAY + BUFFER_TIME_LOW + MaxMove
    BY DEF Horizon, Most
  <1>4. Horizon \in Nat
    BY <1>1, <1>2, <1>3, Constants
  <1>5. QED
    BY <1>1, <1>2, <1>3, <1>4, NeverAssumption

\* Flushing stays within the limit.
LEMMA ReachAdvanceFlush ==
    ASSUME NEW limit \in Nat, NEW h, Reach(h, limit), NEW t \in Int,
           t <= h.print + BUFFER_TIME_LOW \/ t <= MaxTime + FlushAhead
    PROVE  LET r == _advance_flush_time(h, t)
           IN  Reach(r, limit) /\ Kept(r, h) /\ r.print = h.print /\ r.step_gen = h.step_gen
               /\ r.kin = h.kin
  <1> DEFINE r == _advance_flush_time(h, t)
             fl == Larger(t, h.last_flush)
             sg == Larger(Smaller(fl + STEPCOMPRESS_FLUSH_TIME, h.print - h.kin), fl)
  <1>1. h \in Members /\ Typed(h) /\ Close(h) /\ h.print <= limit
    BY Fields DEF Reach
  <1>2. /\ r \in Members /\ Kept(r, h) /\ r.print = h.print /\ r.step_gen = h.step_gen
        /\ r.kin = h.kin /\ r.last_flush = fl /\ r.min_restart = Larger(h.min_restart, sg)
    BY <1>1, AdvanceFlush DEF Kept
  <1>3. fl \in Int /\ (fl <= h.print + BUFFER_TIME_LOW \/ fl <= MaxTime + FlushAhead)
    BY <1>1 DEF Typed, Larger, Close
  <1>4. sg \in Int /\ (sg <= h.print + BUFFER_TIME_LOW \/ sg <= MaxTime + FlushAhead)
    <2> HIDE DEF fl
    <2>1. QED
      BY <1>1, <1>3, Constants, Bounds DEF Typed, Larger, Smaller
  <1> HIDE DEF fl, sg, r
  <1>5. Close(r)
    BY <1>1, <1>2, <1>3, <1>4 DEF Close, Larger, Typed
  <1>6. QED
    BY <1>1, <1>2, <1>5 DEF Reach, r

\* _advance_move_time(), for members whose step_gen may run ahead of print_time, but
\* not of the time that they are advanced to.
LEMMA ReachAdvanceMove ==
    ASSUME NEW limit \in Nat, NEW h \in Members, NEW t \in Int,
           h.last_flush <= h.print + BUFFER_TIME_LOW \/ h.last_flush <= MaxTime + FlushAhead,
           h.min_restart <= h.print + BUFFER_TIME_LOW \/ h.min_restart <= MaxTime + FlushAhead,
           h.step_gen <= h.print + BUFFER_TIME_LOW \/ h.step_gen <= t + BUFFER_TIME_LOW,
           h.print <= limit, t <= limit
    PROVE  LET r == _advance_move_time(h, t)
           IN  Reach(r, limit) /\ Kept(r, h) /\ r.kin = h.kin
  <1> DEFINE print == Larger(h.print, t)
             p == [h EXCEPT !.print = print]
             ft == print - h.kin - STEPCOMPRESS_FLUSH_TIME
             r == _advance_flush_time(p, ft)
  <1>0. Typed(h)
    BY Fields
  <1>1. print \in Nat /\ print <= limit /\ print >= h.print /\ print >= t
    BY <1>0 DEF Typed, Larger
  <1>2. r = _advance_move_time(h, t)
    BY DEF _advance_move_time
  <1> HIDE DEF print
  <1>3. p \in Members /\ p.print = print /\ p.last_flush = h.last_flush
        /\ p.step_gen = h.step_gen /\ p.min_restart = h.min_restart /\ Kept(p, h)
        /\ p.kin = h.kin
    BY <1>1 DEF Members, Kept
  <1> HIDE DEF p
  <1>4. Reach(p, limit)
    BY <1>0, <1>1, <1>3, Constants DEF Reach, Close, Typed
  <1>5. ft \in Int /\ ft <= p.print + BUFFER_TIME_LOW
    BY <1>0, <1>1, <1>3, Constants DEF Typed
  <1> HIDE DEF ft
  <1>6. Reach(r, limit) /\ Kept(r, p) /\ r.kin = p.kin
    BY <1>4, <1>5, ReachAdvanceFlush
  <1>7. QED
    BY <1>2, <1>3, <1>6 DEF Kept

\* _calc_print_time() moves print_time by Lead at most.
LEMMA ReachCalc ==
    ASSUME NEW limit \in Nat, MaxTime <= limit, NEW h, Reach(h, limit), est \in 0..MaxTime
    PROVE  LET r == _calc_print_time(h)
           IN  Reach(r, limit + Lead) /\ Kept(r, h) /\ r.kin = h.kin
  <1> DEFINE kt == Larger(est + MIN_KIN_TIME, h.min_restart) + h.kin
             print == Larger(h.print, Larger(est + BUFFER_TIME_START, kt))
             r == _calc_print_time(h)
  <1>0. h \in Members /\ Typed(h) /\ Close(h) /\ h.print <= limit /\ est \in Nat
    BY Fields, Constants DEF Reach
  <1>1. kt \in Nat /\ kt <= limit + Lead
    BY <1>0, Constants, Bounds DEF Typed, Larger, Close
  <1>2. print \in Nat /\ print >= h.print /\ print <= limit + Lead
    <2> HIDE DEF kt
    <2>1. QED
      BY <1>0, <1>1, Constants, Bounds DEF Typed, Larger
  <1>3. r = [h EXCEPT !.print = print]
    BY DEF _calc_print_time
  <1> HIDE DEF kt, print, r
  <1>4. r \in Members /\ Kept(r, h) /\ r.print = print /\ r.last_flush = h.last_flush
        /\ r.step_gen = h.step_gen /\ r.min_restart = h.min_restart /\ r.kin = h.kin
    BY <1>0, <1>2, <1>3 DEF Members, Kept
  <1>5. Close(r)
    BY <1>0, <1>2, <1>4, Constants DEF Close, Typed
  <1>6. QED
    BY <1>2, <1>4, <1>5 DEF Reach, r

\* Members that differ in what Reach does not look at.
LEMMA ReachSame ==
    ASSUME NEW limit \in Nat, NEW h, Reach(h, limit), NEW r \in Members,
           r.print = h.print, r.step_gen = h.step_gen, r.last_flush = h.last_flush,
           r.min_restart = h.min_restart
    PROVE  Reach(r, limit)
  BY DEF Reach, Close

\* _process_moves() moves print_time by Lead and the time of the moves at most.
LEMMA ReachProcess ==
    ASSUME NEW limit \in Nat, MaxTime <= limit, NEW h, Reach(h, limit), est \in 0..MaxTime,
           NEW t \in Nat, t <= Most
    PROVE  LET r == _process_moves(h, t)
           IN  /\ Reach(r, limit + Lead + Most) /\ r.queue = h.queue /\ r.special = "Main"
               /\ r.priming_timer = h.priming_timer /\ r.kin = h.kin
  <1> DEFINE m == [h EXCEPT !.special = "Main", !.need_check = -1]
             q == IF h.special = "Main" THEN h ELSE _calc_print_time(m)
             p == trapq_append(q, t)
             n == note_mcu_movequeue_activity(p, p.print + t + p.kin, TRUE)
             r == _advance_move_time(n, p.print + t)
  <1>0. h \in Members /\ Typed(h) /\ est \in Nat
    BY Fields, Constants DEF Reach
  <1>1. m \in Members /\ m.special = "Main" /\ m.print = h.print /\ m.step_gen = h.step_gen
        /\ m.last_flush = h.last_flush /\ m.min_restart = h.min_restart
        /\ m.queue = h.queue /\ m.priming_timer = h.priming_timer /\ m.kin = h.kin
    <2> DEFINE i == -1
    <2>1. i \in Int /\ m = [h EXCEPT !.special = "Main", !.need_check = i]
      OBVIOUS
    <2> HIDE DEF i, m
    <2>2. QED
      BY <1>0, <2>1 DEF Members
  <1>2. /\ Reach(q, limit + Lead) /\ q.special = "Main" /\ q.queue = h.queue
        /\ q.priming_timer = h.priming_timer /\ q.kin = h.kin
    <2> HIDE DEF m
    <2>1. CASE h.special = "Main"
      <3>1. q = h
        BY <2>1
      <3>2. QED
        BY <1>0, <2>1, <3>1, Bounds DEF Reach, Typed
    <2>2. CASE h.special # "Main"
      <3>1. q = _calc_print_time(m)
        BY <2>2
      <3>2. Reach(m, limit)
        BY <1>1, ReachSame
      <3> HIDE DEF q
      <3>3. Reach(q, limit + Lead) /\ Kept(q, m) /\ q.kin = m.kin
        BY <3>1, <3>2, ReachCalc
      <3>4. QED
        BY <1>1, <3>3 DEF Kept
    <2>3. QED
      BY <2>1, <2>2
  <1> HIDE DEF q
  <1>3. q \in Members /\ Typed(q)
    BY <1>2, Fields DEF Reach
  <1>4. p \in Members /\ p.special = "Main" /\ p.print = q.print /\ p.step_gen = q.step_gen
        /\ p.last_flush = q.last_flush /\ p.min_restart = q.min_restart
        /\ p.queue = q.queue /\ p.priming_timer = q.priming_timer /\ p.kin = q.kin
    <2> DEFINE u == q.unsent \cup (q.print..(q.print + t - 1))
    <2>1. u \in SUBSET Nat
      BY <1>3 DEF Typed
    <2>2. p = [q EXCEPT !.unsent = u]
      BY DEF trapq_append
    <2> HIDE DEF u, p
    <2>3. QED
      BY <1>2, <1>3, <2>1, <2>2 DEF Members
  <1> HIDE DEF p
  <1>5. Typed(p) /\ Reach(p, limit + Lead)
    BY <1>2, <1>4, Bounds, Fields, ReachSame
  <1>6. p.print + t + p.kin \in Nat /\ TRUE \in BOOLEAN
    BY <1>5 DEF Typed
  <1>7. /\ n \in Members /\ n.special = p.special /\ n.print = p.print
        /\ n.last_flush = p.last_flush /\ n.min_restart = p.min_restart
        /\ n.queue = p.queue /\ n.kin = p.kin
        /\ n.step_gen = Larger(p.step_gen, p.print + t + p.kin)
    BY <1>0, <1>4, <1>6, NoteActivity
  <1>8. n.priming_timer = p.priming_timer
    BY <1>4 DEF note_mcu_movequeue_activity, Members
  <1> HIDE DEF n
  <1>9. n.step_gen <= n.print + BUFFER_TIME_LOW \/ n.step_gen <= p.print + t + BUFFER_TIME_LOW
    BY <1>5, <1>7, Constants DEF Typed, Larger, Reach, Close
  <1>10. /\ n.last_flush <= n.print + BUFFER_TIME_LOW \/ n.last_flush <= MaxTime + FlushAhead
         /\ n.min_restart <= n.print + BUFFER_TIME_LOW \/ n.min_restart <= MaxTime + FlushAhead
    BY <1>5, <1>7 DEF Reach, Close
  <1>11. n.print <= limit + Lead + Most /\ p.print + t <= limit + Lead + Most
         /\ p.print + t \in Int /\ limit + Lead + Most \in Nat
    BY <1>5, <1>7, Bounds DEF Reach, Typed
  <1>12. Reach(r, limit + Lead + Most) /\ Kept(r, n) /\ r.kin = n.kin
    BY <1>7, <1>9, <1>10, <1>11, ReachAdvanceMove
  <1>13. r = _process_moves(h, t)
    BY DEF _process_moves, r, n, p, q
  <1>14. QED
    BY <1>2, <1>4, <1>7, <1>8, <1>12, <1>13 DEF Kept

\* A larger limit will do.
LEMMA ReachWeaken ==
    ASSUME NEW limit \in Nat, NEW far \in Nat, limit <= far, NEW h, Reach(h, limit)
    PROVE  Reach(h, far)
  BY Fields DEF Reach, Typed

\* What the queue waits for: nothing while it has no time yet, otherwise the priming
\* timer or, in the main state, the flush timer.
Primed(h) ==
    /\ h.special = "NeedPrime" => h.queue = 0 /\ h.need_check = -1
    /\ h.special = "Priming" => h.priming_timer # NEVER

\* The queue is empty, and the next move will be seen by _check_pause() if it has to be.
Ready(h) ==
    h.queue = 0 /\ (h.special = "Main" \/ (h.special = "NeedPrime" /\ h.need_check = -1))

\* Ready is a case of Primed.
LEMMA ReadyPrimed == ASSUME NEW h, Ready(h) PROVE Primed(h) /\ h.queue = 0 /\ h.special # "Drip"
  BY DEF Ready, Primed

\* There is room up to far for the moves of the queue.
Room(h, limit, far) == (h.queue = 0 /\ limit <= far) \/ limit + Lead + Most <= far

\* flush() of the look-ahead queue.
LEMMA ReachFlush ==
    ASSUME NEW limit \in Nat, MaxTime <= limit, NEW h, Reach(h, limit), est \in 0..MaxTime,
           NEW t \in Nat, t <= Most, NEW far \in Nat, Room(h, limit, far)
    PROVE  LET r == flush(h, t)
           IN  Reach(r, far) /\ r.queue = 0 /\ (r.special = h.special \/ r.special = "Main")
               /\ r.kin = h.kin
  <1>0. h \in Members /\ Typed(h)
    BY Fields DEF Reach
  <1>1. CASE h.queue = 0
    <2>1. flush(h, t) = h
      BY <1>1 DEF flush
    <2>2. limit <= far
      BY Bounds DEF Room
    <2>3. QED
      BY <1>1, <2>1, <2>2, ReachWeaken
  <1>2. CASE h.queue # 0
    <2> DEFINE z == [h EXCEPT !.queue = 0]
               r == _process_moves(z, t)
    <2>1. r = flush(h, t)
      BY <1>2 DEF flush
    <2>2. z \in Members /\ z.queue = 0 /\ z.print = h.print /\ z.step_gen = h.step_gen
          /\ z.last_flush = h.last_flush /\ z.min_restart = h.min_restart /\ z.kin = h.kin
      BY <1>0, Constants DEF Members
    <2> HIDE DEF z
    <2>3. Reach(z, limit)
      BY <2>2, ReachSame
    <2>4. Reach(r, limit + Lead + Most) /\ r.queue = 0 /\ r.special = "Main" /\ r.kin = h.kin
      BY <2>2, <2>3, ReachProcess
    <2>5. limit + Lead + Most \in Nat /\ limit + Lead + Most <= far
      BY <1>2, Bounds DEF Room
    <2> HIDE DEF r
    <2>6. QED
      BY <2>1, <2>4, <2>5, ReachWeaken
  <1>3. QED
    BY <1>1, <1>2

\* _flush_lookahead() leaves nothing that waits.
LEMMA ReachFlushLookahead ==
    ASSUME NEW limit \in Nat, MaxTime <= limit, NEW h, Reach(h, limit), est \in 0..MaxTime,
           NEW t \in Nat, t <= Most, NEW far \in Nat, Room(h, limit, far)
    PROVE  LET r == _flush_lookahead(h, t)
           IN  Reach(r, far) /\ Ready(r) /\ r.special = "NeedPrime" /\ r.kin = h.kin
  <1> DEFINE f == flush(h, t)
             i == -1
             r == [f EXCEPT !.special = "NeedPrime", !.need_check = i]
  <1>1. Reach(f, far) /\ f.queue = 0 /\ f.kin = h.kin
    BY ReachFlush
  <1>2. i \in Int /\ r = _flush_lookahead(h, t)
    BY DEF _flush_lookahead
  <1> HIDE DEF f, i
  <1>3. r \in Members /\ r.queue = 0 /\ r.special = "NeedPrime" /\ r.need_check = i
        /\ r.print = f.print /\ r.step_gen = f.step_gen /\ r.last_flush = f.last_flush
        /\ r.min_restart = f.min_restart /\ r.kin = f.kin
    BY <1>1, <1>2 DEF Members, Reach
  <1> HIDE DEF r
  <1>4. Reach(r, far)
    BY <1>1, <1>3, ReachSame
  <1>5. Ready(r)
    BY <1>3 DEF Ready, i
  <1>6. QED
    BY <1>1, <1>2, <1>3, <1>4, <1>5

\* flush_step_generation() leaves nothing that waits either.
LEMMA ReachFlushStepGeneration ==
    ASSUME NEW limit \in Nat, MaxTime <= limit, NEW h, Reach(h, limit), est \in 0..MaxTime,
           NEW t \in Nat, t <= Most, NEW far \in Nat, Room(h, limit, far)
    PROVE  LET r == flush_step_generation(h, t)
           IN  Reach(r, far) /\ Ready(r) /\ r.kin = h.kin
  <1> DEFINE f == _flush_lookahead(h, t)
             a == _advance_flush_time(f, f.step_gen)
             mr == Larger(a.min_restart, f.print)
             r == [a EXCEPT !.min_restart = mr]
  <1>1. Reach(f, far) /\ Ready(f) /\ f.kin = h.kin
    BY ReachFlushLookahead
  <1>2. r = flush_step_generation(h, t)
    BY DEF flush_step_generation
  <1> HIDE DEF f
  <1>3. Typed(f) /\ f.step_gen \in Int /\ f.step_gen <= f.print + BUFFER_TIME_LOW
    BY <1>1, Fields DEF Reach, Close, Typed
  <1>4. Reach(a, far) /\ Kept(a, f) /\ a.print = f.print /\ a.kin = f.kin
    BY <1>1, <1>3, ReachAdvanceFlush
  <1> HIDE DEF a
  <1>5. a \in Members /\ Typed(a)
    BY <1>4, Fields DEF Reach
  <1>6. mr \in Nat /\ (mr <= a.print + BUFFER_TIME_LOW \/ mr <= MaxTime + FlushAhead)
    BY <1>3, <1>4, <1>5, Constants DEF Reach, Close, Typed, Larger
  <1> HIDE DEF mr
  <1>7. r \in Members /\ r.min_restart = mr /\ r.print = a.print /\ r.step_gen = a.step_gen
        /\ r.last_flush = a.last_flush /\ r.kin = a.kin /\ Kept(r, a)
    BY <1>5, <1>6 DEF Members, Kept
  <1> HIDE DEF r
  <1>8. Reach(r, far)
    BY <1>4, <1>6, <1>7 DEF Reach, Close
  <1>9. Ready(r)
    BY <1>1, <1>4, <1>7 DEF Ready, Kept
  <1>10. QED
    BY <1>1, <1>2, <1>4, <1>7, <1>8, <1>9

\* get_last_move_time() needs room for _calc_print_time() as well.
LEMMA ReachLastMoveTime ==
    ASSUME NEW limit \in Nat, MaxTime <= limit, NEW h, Reach(h, limit), est \in 0..MaxTime,
           NEW t \in Nat, t <= Most, NEW far \in Nat, Room(h, limit, far)
    PROVE  LET r == get_last_move_time(h, t)
           IN  Reach(r, far + Lead) /\ Ready(r) /\ r.kin = h.kin
  <1>0. far + Lead \in Nat /\ far <= far + Lead /\ MaxTime <= far
    BY Bounds, Constants DEF Room
  <1>1. CASE h.special = "Main"
    <2> DEFINE r == flush(h, t)
    <2>1. Reach(r, far) /\ r.queue = 0 /\ r.special = "Main" /\ r.kin = h.kin
      BY <1>1, ReachFlush
    <2>2. r = get_last_move_time(h, t)
      BY <1>1 DEF get_last_move_time
    <2> HIDE DEF r
    <2>3. Reach(r, far + Lead)
      BY <1>0, <2>1, ReachWeaken
    <2>4. r.queue = 0 /\ r.special = "Main" /\ r.kin = h.kin
      BY <2>1
    <2>5. QED
      BY <2>2, <2>3, <2>4 DEF Ready
  <1>2. CASE h.special # "Main"
    <2> DEFINE f == _flush_lookahead(h, t)
               r == _calc_print_time(f)
    <2>1. Reach(f, far) /\ Ready(f) /\ f.kin = h.kin
      BY ReachFlushLookahead
    <2>2. r = get_last_move_time(h, t)
      BY <1>2 DEF get_last_move_time
    <2> HIDE DEF f
    <2>3. Reach(r, far + Lead) /\ Kept(r, f) /\ r.kin = f.kin
      BY <1>0, <2>1, ReachCalc
    <2>4. QED
      BY <2>1, <2>2, <2>3 DEF Kept, Ready
  <1>3. QED
    BY <1>1, <1>2

\* The priming timer is set to a time, not to NEVER.
LEMMA ReachPrime ==
    ASSUME NEW limit \in Nat, limit <= Horizon, NEW h, Reach(h, limit), est \in 0..MaxTime
    PROVE  LET r == Prime(h)
           IN  Reach(r, limit) /\ Primed(r) /\ r.special \in {"Main", "Priming"}
               /\ r.queue = h.queue /\ r.kin = h.kin
  <1>0. h \in Members /\ Typed(h) /\ est \in Nat /\ h.print <= limit
    BY Fields, Constants DEF Reach
  <1>1. CASE h.special = "Main"
    BY <1>1 DEF Prime, Primed
  <1>2. CASE h.special # "Main"
    <2> DEFINE i == -1
               pt == est + Larger(CHECK_PAUSE_TIME, h.print - est - BUFFER_TIME_LOW)
               r == [h EXCEPT !.special = "Priming", !.need_check = i, !.priming_timer = pt]
    <2>1. i \in Int /\ pt \in Int /\ pt # NEVER
      BY <1>0, Constants, Bounds DEF Typed, Larger
    <2>2. r = Prime(h)
      BY <1>2 DEF Prime
    <2> HIDE DEF i, pt
    <2>3. r \in Members /\ r.queue = h.queue /\ r.special = "Priming" /\ r.print = h.print
          /\ r.step_gen = h.step_gen /\ r.last_flush = h.last_flush
          /\ r.min_restart = h.min_restart /\ r.priming_timer = pt /\ r.kin = h.kin
      BY <1>0, <2>1 DEF Members
    <2> HIDE DEF r
    <2>4. Reach(r, limit)
      BY <2>3, ReachSame
    <2>5. QED
      BY <2>1, <2>2, <2>3, <2>4 DEF Primed
  <1>3. QED
    BY <1>1, <1>2

\* The time of the next check does not matter.
LEMMA ReachChecked ==
    ASSUME NEW limit \in Nat, NEW h, Reach(h, limit), est \in 0..MaxTime
    PROVE  LET r == Checked(h)
           IN  Reach(r, limit) /\ (Primed(h) => Primed(r)) /\ r.queue = h.queue
               /\ r.special = h.special /\ r.print = h.print
  <1>0. h \in Members /\ est \in Nat
    BY Constants DEF Reach
  <1>1. CASE h.special = "Main" /\ ~MustPause(h)
    <2> DEFINE i == est + BUFFER_TIME_HIGH + SLACK
               r == [h EXCEPT !.need_check = i]
    <2>1. i \in Int
      BY <1>0, Constants
    <2>2. r = Checked(h)
      BY <1>1 DEF Checked
    <2> HIDE DEF i
    <2>3. r \in Members /\ r.queue = h.queue /\ r.special = h.special /\ r.print = h.print
          /\ r.step_gen = h.step_gen /\ r.last_flush = h.last_flush
          /\ r.min_restart = h.min_restart
      BY <1>0, <2>1 DEF Members
    <2> HIDE DEF r
    <2>4. Reach(r, limit)
      BY <2>3, ReachSame
    <2>5. QED
      BY <1>1, <2>2, <2>3, <2>4 DEF Primed
  <1>2. CASE ~(h.special = "Main" /\ ~MustPause(h))
    BY <1>2 DEF Checked
  <1>3. QED
    BY <1>1, <1>2

\* Neither does the next time of the flush timer.
LEMMA ReachRest ==
    ASSUME NEW limit \in Nat, NEW h, Reach(h, limit)
    PROVE  Reach(Rest(h), limit) /\ Kept(Rest(h), h)
  <1>0. h \in Members /\ Typed(h)
    BY Fields DEF Reach
  <1>1. CASE h.last_flush >= h.need_flush + BGFLUSH_EXTRA_TIME
    <2> DEFINE k == TRUE
               r == [h EXCEPT !.kick = k, !.flush_timer = NEVER]
    <2>1. r = Rest(h)
      BY <1>1 DEF Rest
    <2>2. k \in BOOLEAN /\ NEVER \in Int
      BY Constants
    <2> HIDE DEF k
    <2>3. r \in Members /\ r.print = h.print /\ r.step_gen = h.step_gen
          /\ r.last_flush = h.last_flush /\ r.min_restart = h.min_restart /\ Kept(r, h)
      BY <1>0, <2>2 DEF Members, Kept
    <2> HIDE DEF r
    <2>4. QED
      BY <2>1, <2>3, ReachSame
  <1>2. CASE ~(h.last_flush >= h.need_flush + BGFLUSH_EXTRA_TIME)
    <2> DEFINE ft == h.last_flush - BGFLUSH_LOW_TIME
               r == [h EXCEPT !.flush_timer = ft]
    <2>1. r = Rest(h)
      BY <1>2 DEF Rest
    <2>2. ft \in Int
      BY <1>0, Constants DEF Typed
    <2> HIDE DEF ft
    <2>3. r \in Members /\ r.print = h.print /\ r.step_gen = h.step_gen
          /\ r.last_flush = h.last_flush /\ r.min_restart = h.min_restart /\ Kept(r, h)
      BY <1>0, <2>2 DEF Members, Kept
    <2> HIDE DEF r
    <2>4. QED
      BY <2>1, <2>3, ReachSame
  <1>3. QED
    BY <1>1, <1>2

\* The background flushing stays near the clock.
LEMMA ReachBackground ==
    ASSUME NEW limit \in Nat, NEW h, Reach(h, limit), est \in 0..MaxTime
    PROVE  Reach(Background(h), limit) /\ Kept(Background(h), h)
  <1> DEFINE end == h.need_flush + BGFLUSH_EXTRA_TIME
             ftime == Smaller(end, est + BGFLUSH_LOW_TIME + BGFLUSH_BATCH_TIME)
             a == _advance_flush_time(h, ftime)
  <1>0. Typed(h) /\ est \in Nat
    BY Fields, Constants DEF Reach
  <1>1. CASE h.last_flush >= end \/ h.last_flush - est > BGFLUSH_LOW_TIME
    BY <1>1, ReachRest DEF Background
  <1>2. CASE ~(h.last_flush >= end \/ h.last_flush - est > BGFLUSH_LOW_TIME)
    <2>1. Background(h) = Rest(a)
      BY <1>2 DEF Background
    <2>2. ftime \in Int /\ ftime <= MaxTime + FlushAhead
      BY <1>0, Constants DEF Typed, Smaller, FlushAhead
    <2> HIDE DEF ftime
    <2>3. Reach(a, limit) /\ Kept(a, h)
      BY <2>2, ReachAdvanceFlush
    <2> HIDE DEF a
    <2>4. Reach(Rest(a), limit) /\ Kept(Rest(a), a)
      BY <2>3, ReachRest
    <2>5. QED
      BY <2>1, <2>3, <2>4 DEF Kept
  <1>3. QED
    BY <1>1, <1>2

\* dwell() with an empty queue.
LEMMA ReachDwell ==
    ASSUME NEW limit \in Nat, MaxTime <= limit, NEW h, Reach(h, limit), est \in 0..MaxTime,
           h.queue = 0, NEW delay \in Nat
    PROVE  LET r == Dwell(h, delay)
           IN  Reach(r, limit + Lead + delay) /\ Ready(r) /\ r.kin = h.kin
  <1> DEFINE g == get_last_move_time(h, 0)
             r == _advance_move_time(g, g.print + delay)
  <1>0. 0 \in Nat /\ 0 <= Most /\ Room(h, limit, limit)
    BY Bounds DEF Room
  <1>1. Reach(g, limit + Lead) /\ Ready(g) /\ g.kin = h.kin
    BY <1>0, ReachLastMoveTime
  <1>2. r = Dwell(h, delay)
    BY DEF Dwell
  <1> HIDE DEF g
  <1>3. g \in Members /\ Typed(g) /\ Close(g) /\ g.print <= limit + Lead
    BY <1>1, Fields DEF Reach
  <1>4. g.print + delay \in Int /\ g.print + delay <= limit + Lead + delay
        /\ g.print <= limit + Lead + delay /\ limit + Lead + delay \in Nat
    BY <1>3, Bounds DEF Typed
  <1>5. Reach(r, limit + Lead + delay) /\ Kept(r, g) /\ r.kin = g.kin
    BY <1>3, <1>4, ReachAdvanceMove DEF Close
  <1>6. QED
    BY <1>1, <1>2, <1>5 DEF Kept, Ready

\* Leaving drip_move().
LEMMA ReachDripEnd ==
    ASSUME NEW limit \in Nat, MaxTime <= limit, NEW h, Reach(h, limit), est \in 0..MaxTime,
           h.queue = 0
    PROVE  LET r == DripEnd(h)
           IN  Reach(r, limit) /\ Ready(r)
  <1> DEFINE f == [h EXCEPT !.flush_timer = est]
  <1>1. est \in Int /\ h \in Members
    BY Constants DEF Reach
  <1>2. f \in Members /\ f.print = h.print /\ f.step_gen = h.step_gen
        /\ f.last_flush = h.last_flush /\ f.min_restart = h.min_restart /\ f.queue = h.queue
    BY <1>1 DEF Members
  <1>3. DripEnd(h) = flush_step_generation(f, 0)
    BY DEF DripEnd
  <1> HIDE DEF f
  <1>4. Reach(f, limit) /\ Room(f, limit, limit) /\ 0 \in Nat /\ 0 <= Most
    BY <1>2, ReachSame, Bounds DEF Room
  <1>5. QED
    BY <1>3, <1>4, ReachFlushStepGeneration

-----------------------------------------------------------------------------

\* How far print_time is while a homing move dwells, the first and the second time.
HomingReach == MaxTime + 2 * Lead + Most + HOMING_START_DELAY
DripReach == HomingReach + Lead + BUFFER_TIME_LOW

\* The second invariant, of the members h, the greenlet c and the flag can_pause.
SoonOf(h, c, pausing) ==
    /\ Reach(h, Horizon)
    /\ c.at \in {"drip", "drip_wait"} => c.end <= Horizon
    /\ h.queue > 0 /\ c.at \notin {"drip", "drip_wait"} => h.print <= MaxTime + Lead + Most
    /\ c.at = "homing_dwell" => h.print <= HomingReach
    /\ c.at = "drip_dwell" => h.print <= DripReach
    /\ pausing /\ c.at \notin {"drip", "drip_wait"} => Primed(h)

Soon == SoonOf(th, cmd, can_pause)

\* The limits in their order.
LEMMA Limits ==
    /\ HomingReach \in Nat /\ DripReach \in Nat /\ MaxTime + Lead + Most \in Nat
    /\ MaxTime <= HomingReach /\ MaxTime <= DripReach /\ MaxTime <= Horizon
    /\ MaxTime <= MaxTime + Lead + Most
    /\ HomingReach + Lead + BUFFER_TIME_LOW = DripReach /\ DripReach + Lead + MaxMove <= Horizon
    /\ (MaxTime + Lead + Most) + Lead + HOMING_START_DELAY = HomingReach
    /\ (MaxTime + Lead + Most) + Lead + Most <= Horizon
    /\ (MaxTime + Lead + Most) + Lead + MaxMove <= Horizon
    /\ MaxTime + Lead + Most <= Horizon
  BY Constants, Bounds DEF HomingReach, DripReach

\* What both invariants say at the start of a command.
LEMMA StartFacts ==
    ASSUME Inv, Soon, Start
    PROVE  /\ Reach(th, MaxTime) /\ Typed(th) /\ est \in 0..MaxTime /\ th \in Members
           /\ can_pause => Primed(th)
           /\ cmd.at \notin {"drip", "drip_wait"}
  <1>1. cmd.at \notin {"drip", "drip_wait"} /\ th.print <= MaxTime
    <2>1. th.print \in Nat
      BY Fields DEF Soon, SoonOf, Reach, Typed
    <2>2. QED
      BY <2>1, Constants DEF Start
  <1>2. QED
    BY <1>1, Fields DEF Inv, TypeOK, Soon, SoonOf, Reach

\* A step that leaves no move in the queue and does not pause within a homing move.
LEMMA EmptyStep ==
    ASSUME NEW h, Reach(h, Horizon), h.queue = 0, Primed(h),
           NEW c, c.at \in {"idle", "check_pause", "wait_moves"}, Uses(h, c)
    PROVE  Soon'
  <1>1. th' = h /\ cmd' = c /\ can_pause' = can_pause
    BY DEF Uses
  <1>2. SoonOf(h, c, can_pause)
    BY DEF SoonOf
  <1>3. QED
    BY <1>1, <1>2 DEF Soon

\* The greenlet when it pauses, is idle or waits.
LEMMA CmdPlaces ==
    /\ Idle.at = "idle" /\ Waiting.at = "wait_moves"
    /\ \A h, at : Pausing(h, at).at = at
  BY DEF Idle, Waiting, Pausing

\* _check_pause() with times that are bounded by limit.
LEMMA CheckPauseSoon ==
    ASSUME NEW limit \in Nat, limit <= Horizon, NEW h, Reach(h, limit), est \in 0..MaxTime,
           h.queue > 0 => limit <= MaxTime + Lead + Most, _check_pause(h)
    PROVE  Soon'
  <1> DEFINE q == Prime(h)
             r == Checked(q)
             c == IF MustPause(h) THEN Pausing(h, "check_pause") ELSE Idle
  <1>1. Reach(q, limit) /\ Primed(q) /\ q.queue = h.queue
    BY ReachPrime
  <1>2. Uses(r, c)
    BY DEF _check_pause
  <1> HIDE DEF q
  <1>3. Reach(r, limit) /\ Primed(r) /\ r.queue = q.queue
    BY <1>1, ReachChecked
  <1>4. c.at \in {"idle", "check_pause"}
    BY CmdPlaces
  <1> HIDE DEF r, c
  <1>5. Reach(r, Horizon) /\ Typed(r) /\ r.print <= limit
    BY <1>3, Bounds, ReachWeaken, Fields DEF Reach
  <1>6. r.queue > 0 => r.print <= MaxTime + Lead + Most
    BY <1>1, <1>3, <1>5, Limits DEF Typed
  <1>7. SoonOf(r, c, can_pause)
    BY <1>3, <1>4, <1>5, <1>6 DEF SoonOf
  <1>8. th' = r /\ cmd' = c /\ can_pause' = can_pause
    BY <1>2 DEF Uses
  <1>9. QED
    BY <1>7, <1>8 DEF Soon

\* move(): the queue waits for a timer that is set.
LEMMA MoveSoon ==
    ASSUME Inv, Soon, NEW n, NEW t \in 0..(MaxQueue * MaxMove), move(n, t)
    PROVE  Soon'
  <1> DEFINE added == [th EXCEPT !.queue = th.queue + 1]
             z == [added EXCEPT !.queue = added.queue - n]
             h == IF n = 0 THEN added ELSE _process_moves(z, t)
             near == MaxTime + Lead + Most
  <1>0. Start /\ th.queue < MaxQueue /\ n \in 0..th.queue
        /\ (IF h.print > h.need_check THEN _check_pause(h) ELSE Uses(h, Idle))
    BY DEF move
  <1>1. /\ Reach(th, MaxTime) /\ Typed(th) /\ est \in 0..MaxTime /\ th \in Members
        /\ can_pause => Primed(th)
        /\ cmd.at \notin {"drip", "drip_wait"}
    BY <1>0, StartFacts
  <1>2. t \in Nat /\ t <= Most /\ near \in Nat /\ near <= Horizon /\ MaxTime \in Nat
        /\ MaxTime <= near
    BY Bounds, Limits, Constants DEF Most
  <1>3. th.queue + 1 \in 0..MaxQueue /\ th.queue + 1 - n \in 0..MaxQueue
        /\ th.queue + 1 - n > 0 /\ th.queue + 1 > 0
    BY <1>0, <1>1, Constants DEF Typed
  <1>4. added \in Members /\ added.special = th.special /\ added.print = th.print
        /\ added.step_gen = th.step_gen /\ added.last_flush = th.last_flush
        /\ added.min_restart = th.min_restart /\ added.need_check = th.need_check
        /\ added.priming_timer = th.priming_timer /\ added.queue = th.queue + 1
    BY <1>1, <1>3 DEF Members
  <1>5. z \in Members /\ z.print = th.print /\ z.step_gen = th.step_gen
        /\ z.last_flush = th.last_flush /\ z.min_restart = th.min_restart
        /\ z.queue = th.queue + 1 - n
    <2> HIDE DEF added
    <2> DEFINE m == added.queue - n
    <2>1. m = th.queue + 1 - n
      <3>1. th.queue \in Int /\ n \in Int
        BY <1>0, <1>1 DEF Typed
      <3>2. QED
        BY <1>4, <3>1
    <2>a. m \in 0..MaxQueue
      BY <1>3, <2>1
    <2> HIDE DEF m
    <2>2. [added EXCEPT !.queue = m] \in Members /\ [added EXCEPT !.queue = m].queue = m
          /\ [added EXCEPT !.queue = m].print = added.print
          /\ [added EXCEPT !.queue = m].step_gen = added.step_gen
          /\ [added EXCEPT !.queue = m].last_flush = added.last_flush
          /\ [added EXCEPT !.queue = m].min_restart = added.min_restart
      BY <1>4, <2>a DEF Members
    <2>3. QED
      BY <1>4, <2>1, <2>2 DEF m
  <1> HIDE DEF added, z
  <1>6. Reach(added, MaxTime) /\ Reach(z, MaxTime)
    BY <1>1, <1>2, <1>4, <1>5, ReachSame
  <1>7. Reach(h, near) /\ h.queue > 0
        /\ \/ h.special = "Main"
           \/ h.special = th.special /\ h.need_check = th.need_check
              /\ h.priming_timer = th.priming_timer
    <2>1. CASE n = 0
      <3>1. h = added
        BY <2>1
      <3>2. Reach(added, near)
        BY <1>2, <1>6, ReachWeaken
      <3>3. QED
        BY <1>3, <1>4, <3>1, <3>2
    <2>2. CASE n # 0
      <3>1. h = _process_moves(z, t)
        BY <2>2
      <3>2. Reach(h, MaxTime + Lead + Most) /\ h.queue = z.queue /\ h.special = "Main"
        BY <1>1, <1>2, <1>6, <3>1, ReachProcess
      <3>3. QED
        BY <1>3, <1>5, <3>2
    <2>3. QED
      BY <2>1, <2>2
  <1> HIDE DEF h
  <1>8. CASE _check_pause(h)
    BY <1>1, <1>2, <1>7, <1>8, CheckPauseSoon
  <1>9. CASE ~(h.print > h.need_check) /\ Uses(h, Idle)
    <2>1. h \in Members /\ Typed(h) /\ Reach(h, Horizon)
      BY <1>2, <1>7, Bounds, Fields, ReachWeaken DEF Reach
    <2>2. can_pause /\ th' = h /\ cmd' = Idle /\ can_pause' = can_pause
      BY <1>9 DEF Uses
    <2>3. Primed(h)
      <3>1. h.need_check # -1
        BY <1>9, <2>1 DEF Typed
      <3>2. h.special # "NeedPrime"
        BY <1>1, <1>7, <2>2, <3>1 DEF Primed
      <3>3. h.special = "Priming" => h.priming_timer # NEVER
        BY <1>1, <1>7, <2>2 DEF Primed
      <3>4. QED
        BY <3>2, <3>3 DEF Primed
    <2>4. h.print <= near
      BY <1>7 DEF Reach
    <2>5. SoonOf(h, Idle, can_pause)
      BY <2>1, <2>3, <2>4, CmdPlaces DEF SoonOf
    <2>6. QED
      BY <2>2, <2>5 DEF Soon
  <1>10. QED
    BY <1>0, <1>8, <1>9

\* dwell() and the commands that flush the queue.
LEMMA FlushingSoon ==
    ASSUME Inv, Soon, NEW t \in 0..(MaxQueue * MaxMove), NEW delay \in {0, MaxMove},
           dwell(t, delay) \/ set_position(t)
             \/ (\E d \in KinDelays : note_step_generation_scan_time(t, d))
             \/ queue_request \/ wait_moves(t)
    PROVE  Soon'
  <1> DEFINE near == MaxTime + Lead + Most
  <1>0. Start
    BY DEF dwell, set_position, note_step_generation_scan_time, queue_request, wait_moves
  <1>1. /\ Reach(th, MaxTime) /\ Typed(th) /\ est \in 0..MaxTime /\ th \in Members
        /\ est \in Nat /\ MaxTime \in Nat /\ MaxTime <= MaxTime
    BY <1>0, StartFacts, Constants
  <1>2. t \in Nat /\ t <= Most /\ near \in Nat /\ near <= Horizon /\ Horizon \in Nat
        /\ Room(th, MaxTime, near) /\ near + Lead \in Nat /\ near + Lead <= Horizon
        /\ 0 \in Nat /\ 0 <= Most
    BY Bounds, Limits, Constants DEF Most, Room
  <1>3. CASE dwell(t, delay)
    <2> DEFINE g == get_last_move_time(th, t)
               r == _advance_move_time(g, g.print + delay)
               far == near + Lead + MaxMove
    <2>1. _check_pause(r)
      BY <1>3 DEF dwell
    <2>2. Reach(g, near + Lead) /\ Ready(g)
      BY <1>1, <1>2, ReachLastMoveTime
    <2> HIDE DEF g
    <2>3. g \in Members /\ Typed(g) /\ Close(g) /\ g.print <= near + Lead
      BY <2>2, Fields DEF Reach
    <2>4. far \in Nat /\ far <= Horizon /\ g.print + delay \in Int /\ g.print + delay <= far
          /\ g.print <= far
      BY <1>2, <2>3, Limits, Constants DEF Typed
    <2> HIDE DEF far
    <2>5. Reach(r, far) /\ Kept(r, g)
      BY <2>3, <2>4, ReachAdvanceMove DEF Close
    <2> HIDE DEF r
    <2>6. ~(r.queue > 0)
      BY <2>2, <2>5 DEF Ready, Kept
    <2>7. QED
      BY <1>1, <2>1, <2>4, <2>5, <2>6, CheckPauseSoon
  <1>4. ASSUME NEW h, Reach(h, near), Ready(h), NEW c \in {Idle, Waiting}, Uses(h, c)
        PROVE  Soon'
    <2>1. Reach(h, Horizon)
      BY <1>2, <1>4, ReachWeaken
    <2>2. c.at \in {"idle", "check_pause", "wait_moves"}
      BY CmdPlaces
    <2>3. Primed(h) /\ h.queue = 0
      BY <1>4, ReadyPrimed
    <2>4. QED
      BY <1>4, <2>1, <2>2, <2>3, EmptyStep
  <1>5. CASE set_position(t)
    <2>1. Uses(flush_step_generation(th, t), Idle)
      BY <1>5 DEF set_position
    <2>2. Reach(flush_step_generation(th, t), near) /\ Ready(flush_step_generation(th, t))
      BY <1>1, <1>2, ReachFlushStepGeneration
    <2>3. QED
      BY <1>4, <2>1, <2>2
  <1>6. ASSUME NEW d \in KinDelays, note_step_generation_scan_time(t, d) PROVE Soon'
    <2> DEFINE f == flush_step_generation(th, t)
               r == [f EXCEPT !.kin = d]
    <2>1. Uses(r, Idle)
      BY <1>6 DEF note_step_generation_scan_time
    <2>2. Reach(f, near) /\ Ready(f)
      BY <1>1, <1>2, ReachFlushStepGeneration
    <2> HIDE DEF f
    <2>3. r \in Members /\ r.print = f.print /\ r.step_gen = f.step_gen
          /\ r.last_flush = f.last_flush /\ r.min_restart = f.min_restart /\ Kept(r, f)
      BY <2>2 DEF Members, Reach, Kept
    <2> HIDE DEF r
    <2>4. Reach(r, near)
      BY <1>2, <2>2, <2>3, ReachSame
    <2>5. Ready(r)
      BY <2>2, <2>3 DEF Ready, Kept
    <2>6. QED
      BY <1>4, <2>1, <2>4, <2>5
  <1>7. CASE queue_request
    <2> DEFINE h == get_last_move_time(th, 0)
               r == note_mcu_movequeue_activity(h, h.print, FALSE)
    <2>1. Uses(r, Idle)
      BY <1>7 DEF queue_request
    <2>2. Reach(h, near + Lead) /\ Ready(h)
      BY <1>1, <1>2, ReachLastMoveTime
    <2> HIDE DEF h
    <2>3. h \in Members /\ Typed(h) /\ h.print \in Nat /\ FALSE \in BOOLEAN
      BY <2>2, Fields DEF Reach, Typed
    <2>4. /\ r \in Members /\ r.special = h.special /\ r.print = h.print
          /\ r.last_flush = h.last_flush /\ r.min_restart = h.min_restart
          /\ r.queue = h.queue /\ r.step_gen = h.step_gen
      BY <1>1, <2>3, NoteActivity
    <2>5. r.need_check = h.need_check
      BY <2>3 DEF note_mcu_movequeue_activity, Members
    <2> HIDE DEF r
    <2>6. Reach(r, near + Lead)
      BY <1>2, <2>2, <2>4, ReachSame
    <2>7. Reach(r, Horizon) /\ Ready(r)
      BY <1>2, <2>2, <2>4, <2>5, <2>6, ReachWeaken DEF Ready
    <2>8. Primed(r) /\ r.queue = 0 /\ Idle.at \in {"idle", "check_pause", "wait_moves"}
      BY <2>7, ReadyPrimed, CmdPlaces
    <2>9. QED
      BY <2>1, <2>7, <2>8, EmptyStep
  <1>8. CASE wait_moves(t)
    <2> DEFINE f == _flush_lookahead(th, t)
               c == IF Busy(f) THEN Waiting ELSE Idle
    <2>1. Uses(f, c) /\ c \in {Idle, Waiting}
      BY <1>8 DEF wait_moves
    <2>2. Reach(f, near) /\ Ready(f)
      BY <1>1, <1>2, ReachFlushLookahead
    <2>3. QED
      BY <1>4, <2>1, <2>2
  <1>9. QED
    BY <1>3, <1>5, <1>6, <1>7, <1>8

\* What both invariants say outside of "Drip".
LEMMA OutsideSoon ==
    ASSUME Inv, Soon, cmd.at \notin {"drip", "drip_wait"}
    PROVE  /\ Reach(th, Horizon) /\ Typed(th) /\ th \in Members /\ est \in 0..MaxTime
           /\ th.queue > 0 => th.print <= MaxTime + Lead + Most
           /\ cmd.at = "homing_dwell" => th.print <= HomingReach /\ th.queue = 0
           /\ cmd.at = "drip_dwell" => th.print <= DripReach /\ th.queue = 0
           /\ can_pause => Primed(th)
  <1>1. Reach(th, Horizon) /\ th \in Members /\ est \in 0..MaxTime
    BY DEF Soon, SoonOf, Reach, Inv, TypeOK
  <1>2. cmd.at \in Dwells => th.queue = 0
    BY DEF Inv
  <1>3. QED
    BY <1>1, <1>2, Fields DEF Soon, SoonOf, Dwells

\* The greenlet wakes in wait_moves() or in _check_pause().
LEMMA WakeSoon ==
    ASSUME Inv, Soon, WaitMoves \/ CheckPause
    PROVE  Soon'
  <1>1. cmd.at \notin {"drip", "drip_wait"} /\ can_pause' = can_pause
        /\ cmd'.at \in {"idle", "check_pause", "wait_moves"}
    BY CmdPlaces DEF WaitMoves, CheckPause
  <1>2. /\ Reach(th, Horizon) /\ Typed(th) /\ th \in Members /\ est \in 0..MaxTime
        /\ th.queue > 0 => th.print <= MaxTime + Lead + Most
        /\ can_pause => Primed(th)
    BY <1>1, OutsideSoon
  <1>3. /\ Reach(th', Horizon) /\ th'.queue = th.queue /\ th'.print = th.print
        /\ can_pause => Primed(th')
    <2>1. CASE th' = th
      BY <1>2, <2>1
    <2>2. CASE th' = Checked(th)
      BY <1>2, <2>2, Bounds, ReachChecked
    <2>3. CASE ~can_pause /\ th' = [th EXCEPT !.need_check = NEVER]
      <3> DEFINE r == [th EXCEPT !.need_check = NEVER]
      <3>1. NEVER \in Int
        BY Constants
      <3>2. r \in Members /\ r.queue = th.queue /\ r.print = th.print
            /\ r.step_gen = th.step_gen /\ r.last_flush = th.last_flush
            /\ r.min_restart = th.min_restart
        BY <1>2, <3>1 DEF Members
      <3> HIDE DEF r
      <3>3. Reach(r, Horizon)
        BY <1>2, <3>2, Bounds, ReachSame
      <3>4. QED
        BY <2>3, <3>2, <3>3 DEF r
    <2>4. QED
      BY <2>1, <2>2, <2>3 DEF WaitMoves, CheckPause
  <1>4. SoonOf(th', cmd', can_pause')
    BY <1>1, <1>2, <1>3 DEF SoonOf
  <1>5. QED
    BY <1>4 DEF Soon

\* drip_move() after its dwell().
LEMMA DripStartSoon ==
    ASSUME NEW h, Reach(h, DripReach), h.queue = 0, est \in 0..MaxTime,
           NEW t \in 1..MaxMove, DripStart(h, t)
    PROVE  Soon'
  <1> DEFINE d == Drip(h)
             p == _calc_print_time(d)
             q == trapq_append(p, t)
             r == [q EXCEPT !.queue = 1]
             c == [at |-> "drip", wake |-> NEVER, end |-> p.print + t, start |-> p.generated]
  <1>0. h \in Members /\ Typed(h)
    BY Fields DEF Reach
  <1>1. d \in Members /\ d.print = h.print /\ d.step_gen = h.step_gen
        /\ d.last_flush = h.last_flush /\ d.min_restart = h.min_restart /\ d.queue = 0
    <2> DEFINE k == FALSE
    <2>1. k \in BOOLEAN /\ d = [h EXCEPT !.special = "Drip", !.need_check = NEVER,
                                         !.flush_timer = NEVER, !.kick = k]
      BY DEF Drip
    <2> HIDE DEF k, d
    <2>2. NEVER \in Int
      BY Constants
    <2>3. QED
      BY <1>0, <2>1, <2>2 DEF Members
  <1> HIDE DEF d
  <1>2. Reach(d, DripReach)
    BY <1>1, Limits, ReachSame
  <1>3. CASE Uses(DripEnd(d), Idle)
    <2>1. Reach(DripEnd(d), DripReach) /\ Ready(DripEnd(d))
      BY <1>1, <1>2, Limits, ReachDripEnd
    <2>2. DripReach <= Horizon
      BY Limits, Bounds, Constants
    <2>3. Reach(DripEnd(d), Horizon)
      BY <2>1, <2>2, Limits, Bounds, ReachWeaken
    <2>4. Primed(DripEnd(d)) /\ DripEnd(d).queue = 0
      BY <2>1, ReadyPrimed
    <2>5. Idle.at \in {"idle", "check_pause", "wait_moves"}
      BY CmdPlaces
    <2>6. QED
      BY <1>3, <2>3, <2>4, <2>5, EmptyStep
  <1>4. CASE Uses(r, c)
    <2>1. Reach(p, DripReach + Lead)
      BY <1>2, Limits, ReachCalc
    <2> HIDE DEF p
    <2>2. p \in Members /\ Typed(p) /\ p.print <= DripReach + Lead
      BY <2>1, Fields DEF Reach
    <2>3. q \in Members /\ q.print = p.print /\ q.step_gen = p.step_gen
          /\ q.last_flush = p.last_flush /\ q.min_restart = p.min_restart
      <3> DEFINE u == p.unsent \cup (p.print..(p.print + t - 1))
      <3>1. u \in SUBSET Nat
        BY <2>2 DEF Typed
      <3>2. q = [p EXCEPT !.unsent = u]
        BY DEF trapq_append
      <3> HIDE DEF u, q
      <3>3. QED
        BY <2>2, <3>1, <3>2 DEF Members
    <2> HIDE DEF q
    <2>4. r \in Members /\ r.print = p.print /\ r.step_gen = p.step_gen
          /\ r.last_flush = p.last_flush /\ r.min_restart = p.min_restart
      <3>1. 1 \in 0..MaxQueue
        BY Constants
      <3>2. QED
        BY <2>3, <3>1 DEF Members
    <2> HIDE DEF r
    <2>5. DripReach + Lead \in Nat /\ DripReach + Lead <= Horizon
      BY Limits, Bounds, Constants
    <2>6. Reach(r, DripReach + Lead)
      BY <2>1, <2>4, <2>5, ReachSame
    <2>7. Reach(r, Horizon)
      BY <2>5, <2>6, Bounds, ReachWeaken
    <2>8. c.at = "drip" /\ c.end = p.print + t
      OBVIOUS
    <2>9. p.print + t <= Horizon
      BY <2>2, Limits, Bounds, Constants DEF Typed
    <2> HIDE DEF c
    <2>10. SoonOf(r, c, can_pause)
      BY <2>7, <2>8, <2>9 DEF SoonOf
    <2>11. th' = r /\ cmd' = c /\ can_pause' = can_pause
      BY <1>4 DEF Uses
    <2>12. QED
      BY <2>10, <2>11 DEF Soon
  <1>5. QED
    BY <1>3, <1>4 DEF DripStart, d

\* A dwell() of a homing move pauses.
LEMMA DwellingSoon ==
    ASSUME NEW limit \in Nat, limit <= Horizon, NEW h, Reach(h, limit), h.queue = 0,
           Primed(h), NEW c, c.at \in Dwells, c.at = "homing_dwell" => limit <= HomingReach,
           c.at = "drip_dwell" => limit <= DripReach, Uses(h, c)
    PROVE  Soon'
  <1>1. th' = h /\ cmd' = c /\ can_pause' = can_pause
    BY DEF Uses
  <1>2. Reach(h, Horizon) /\ Typed(h) /\ h.print <= limit
    BY Bounds, ReachWeaken, Fields DEF Reach
  <1>3. SoonOf(h, c, can_pause)
    <2>1. /\ c.at = "homing_dwell" => h.print <= HomingReach
          /\ c.at = "drip_dwell" => h.print <= DripReach
      BY <1>2, Limits DEF Typed
    <2>2. QED
      BY <1>2, <2>1 DEF SoonOf, Dwells
  <1>4. QED
    BY <1>1, <1>3 DEF Soon

\* drip_move() up to its first pause.
LEMMA DripMoveSoon ==
    ASSUME NEW h, Reach(h, HomingReach), h.queue = 0, est \in 0..MaxTime,
           NEW dt \in 1..MaxMove, drip_move(h, dt)
    PROVE  Soon'
  <1> DEFINE d == Dwell(h, h.kin)
             q == Prime(d)
             near == HomingReach + Lead + h.kin
  <1>0. Typed(h) /\ h.kin \in Nat /\ h.kin <= BUFFER_TIME_LOW
    <2>1. Typed(h)
      BY Fields DEF Reach
    <2>2. QED
      BY <2>1, Constants DEF Typed
  <1>1. near \in Nat /\ near <= DripReach /\ DripReach <= Horizon
    BY <1>0, Limits, Bounds, Constants
  <1>2. Reach(d, near) /\ Ready(d)
    BY <1>0, Limits, ReachDwell
  <1>3. \/ Uses(q, Pausing(d, "drip_dwell"))
        \/ DripStart(q, dt)
    BY DEF drip_move
  <1> HIDE DEF d, near
  <1>4. Reach(d, DripReach) /\ d.queue = 0
    BY <1>1, <1>2, Limits, ReachWeaken DEF Ready
  <1>5. Reach(q, DripReach) /\ Primed(q) /\ q.queue = 0
    BY <1>1, <1>4, Limits, ReachPrime
  <1> HIDE DEF q
  <1>6. CASE DripStart(q, dt)
    BY <1>5, <1>6, DripStartSoon
  <1>7. CASE Uses(q, Pausing(d, "drip_dwell"))
    <2>1. Pausing(d, "drip_dwell").at = "drip_dwell"
      BY CmdPlaces
    <2>2. DripReach <= DripReach /\ DripReach \in Nat
      BY Limits
    <2>3. QED
      BY <1>1, <1>5, <1>7, <2>1, <2>2, DwellingSoon DEF Dwells
  <1>8. QED
    BY <1>3, <1>6, <1>7

\* homing_move() up to its first pause.
LEMMA HomingMoveSoon ==
    ASSUME Inv, Soon, NEW t \in 0..(MaxQueue * MaxMove), NEW dt, homing_move(t, dt)
    PROVE  Soon'
  <1> DEFINE f == flush_step_generation(th, t)
             h == Dwell(f, HOMING_START_DELAY)
             q == Prime(h)
             near == MaxTime + Lead + Most
  <1>0. /\ Start /\ dt \in 1..MaxMove
        /\ \/ Uses(q, Pausing(h, "homing_dwell"))
           \/ drip_move(q, dt)
    BY DEF homing_move
  <1>1. Reach(th, MaxTime) /\ est \in 0..MaxTime /\ MaxTime \in Nat /\ MaxTime <= MaxTime
    BY <1>0, StartFacts, Constants
  <1>2. t \in Nat /\ t <= Most /\ near \in Nat /\ Room(th, MaxTime, near)
        /\ MaxTime <= near /\ HOMING_START_DELAY \in Nat
        /\ near + Lead + HOMING_START_DELAY = HomingReach /\ HomingReach <= Horizon
        /\ HomingReach \in Nat
    BY Bounds, Limits, Constants DEF Most, Room
  <1>3. Reach(f, near) /\ Ready(f) /\ f.queue = 0
    BY <1>1, <1>2, ReachFlushStepGeneration, ReadyPrimed
  <1> HIDE DEF f, near
  <1>4. Reach(h, HomingReach) /\ Ready(h) /\ h.queue = 0
    BY <1>1, <1>2, <1>3, ReachDwell, ReadyPrimed
  <1> HIDE DEF h
  <1>5. Reach(q, HomingReach) /\ Primed(q) /\ q.queue = 0
    BY <1>1, <1>2, <1>4, ReachPrime
  <1> HIDE DEF q
  <1>6. CASE drip_move(q, dt)
    BY <1>0, <1>1, <1>5, <1>6, DripMoveSoon
  <1>7. CASE Uses(q, Pausing(h, "homing_dwell"))
    <2>1. Pausing(h, "homing_dwell").at = "homing_dwell"
      BY CmdPlaces
    <2>2. HomingReach <= HomingReach
      BY <1>2
    <2>3. QED
      BY <1>2, <1>5, <1>7, <2>1, <2>2, DwellingSoon DEF Dwells
  <1>8. QED
    BY <1>0, <1>6, <1>7

\* The greenlet wakes in one of the dwells of a homing move.
LEMMA DwellsSoon ==
    ASSUME Inv, Soon, NEW dt, HomingDwell(dt) \/ DripDwell(dt)
    PROVE  Soon'
  <1>0. dt \in 1..MaxMove /\ can_pause
        /\ (\/ cmd.at = "homing_dwell" /\ Uses(th, Pausing(th, "homing_dwell"))
            \/ cmd.at = "homing_dwell" /\ drip_move(th, dt)
            \/ cmd.at = "drip_dwell" /\ Uses(th, Pausing(th, "drip_dwell"))
            \/ cmd.at = "drip_dwell" /\ DripStart(th, dt))
    BY DEF HomingDwell, DripDwell, Uses, drip_move, DripStart
  <1>1. cmd.at \notin {"drip", "drip_wait"}
    BY <1>0
  <1>2. /\ Reach(th, Horizon) /\ est \in 0..MaxTime /\ Primed(th) /\ th.queue = 0
        /\ cmd.at = "homing_dwell" => th.print <= HomingReach
        /\ cmd.at = "drip_dwell" => th.print <= DripReach
    BY <1>0, <1>1, OutsideSoon
  <1>3. /\ HomingReach \in Nat /\ DripReach \in Nat /\ HomingReach <= HomingReach
        /\ DripReach <= DripReach /\ HomingReach <= Horizon /\ DripReach <= Horizon
    BY Limits, Bounds, Constants
  <1>4. CASE cmd.at = "homing_dwell"
    <2>1. Reach(th, HomingReach)
      BY <1>2, <1>4 DEF Reach
    <2>2. Pausing(th, "homing_dwell").at = "homing_dwell"
      BY CmdPlaces
    <2>3. CASE Uses(th, Pausing(th, "homing_dwell"))
      BY <1>2, <1>3, <2>1, <2>2, <2>3, DwellingSoon DEF Dwells
    <2>4. CASE drip_move(th, dt)
      BY <1>0, <1>2, <2>1, <2>4, DripMoveSoon
    <2>5. QED
      BY <1>0, <1>4, <2>3, <2>4
  <1>5. CASE cmd.at = "drip_dwell"
    <2>1. Reach(th, DripReach)
      BY <1>2, <1>5 DEF Reach
    <2>2. Pausing(th, "drip_dwell").at = "drip_dwell"
      BY CmdPlaces
    <2>3. CASE Uses(th, Pausing(th, "drip_dwell"))
      BY <1>2, <1>3, <2>1, <2>2, <2>3, DwellingSoon DEF Dwells
    <2>4. CASE DripStart(th, dt)
      BY <1>0, <1>2, <2>1, <2>4, DripStartSoon
    <2>5. QED
      BY <1>0, <1>5, <2>3, <2>4
  <1>6. QED
    BY <1>0, <1>4, <1>5

\* A segment of a homing move, up to time t.
LEMMA ReachSegment ==
    ASSUME NEW limit \in Nat, NEW h, Reach(h, limit), est \in 0..MaxTime, NEW t \in Nat,
           t <= limit
    PROVE  Reach(_advance_move_time(note_mcu_movequeue_activity(h, t + h.kin, TRUE), t), limit)
  <1> DEFINE n == note_mcu_movequeue_activity(h, t + h.kin, TRUE)
  <1>0. h \in Members /\ Typed(h) /\ Close(h) /\ est \in Nat /\ h.print <= limit
    BY Fields, Constants DEF Reach
  <1>1. t + h.kin \in Nat /\ TRUE \in BOOLEAN
    BY <1>0 DEF Typed
  <1>2. /\ n \in Members /\ n.print = h.print /\ n.last_flush = h.last_flush
        /\ n.min_restart = h.min_restart /\ n.step_gen = Larger(h.step_gen, t + h.kin)
    BY <1>0, <1>1, NoteActivity
  <1> HIDE DEF n
  <1>3. n.step_gen <= n.print + BUFFER_TIME_LOW \/ n.step_gen <= t + BUFFER_TIME_LOW
    BY <1>0, <1>2, Constants DEF Typed, Larger, Close
  <1>4. /\ n.last_flush <= n.print + BUFFER_TIME_LOW \/ n.last_flush <= MaxTime + FlushAhead
        /\ n.min_restart <= n.print + BUFFER_TIME_LOW \/ n.min_restart <= MaxTime + FlushAhead
        /\ n.print <= limit
    BY <1>0, <1>2 DEF Close
  <1>5. t \in Int
    OBVIOUS
  <1>6. Reach(_advance_move_time(n, t), limit)
    BY <1>2, <1>3, <1>4, <1>5, ReachAdvanceMove
  <1>7. QED
    BY <1>6 DEF n

\* The steps within "Drip".
LEMMA DripSoon ==
    ASSUME Inv, Soon, DripWait \/ DripSegment \/ DripTriggered \/ DripComplete
    PROVE  Soon'
  <1>0. cmd.at \in {"drip", "drip_wait"}
    BY DEF DripWait, DripSegment, DripTriggered, DripComplete, DripTurn
  <1>1. /\ Reach(th, Horizon) /\ Typed(th) /\ th \in Members /\ est \in 0..MaxTime
        /\ cmd.end \in Nat /\ cmd.end <= Horizon /\ cmd \in Cmds
        /\ Horizon \in Nat /\ MaxTime <= Horizon
    <2>1. cmd.end \in Nat /\ cmd \in Cmds /\ est \in 0..MaxTime
      BY <1>0, InsideFacts
    <2>2. QED
      BY <1>0, <2>1, Fields, Bounds, Limits DEF Soon, SoonOf, Reach
  <1>2. ASSUME NEW h, Reach(h, Horizon), h.queue = 0, Uses(DripEnd(h), Idle)
        PROVE  Soon'
    <2>1. Reach(DripEnd(h), Horizon) /\ Ready(DripEnd(h))
      BY <1>1, <1>2, ReachDripEnd
    <2>2. Primed(DripEnd(h)) /\ DripEnd(h).queue = 0
      BY <2>1, ReadyPrimed
    <2>3. Idle.at \in {"idle", "check_pause", "wait_moves"}
      BY CmdPlaces
    <2>4. QED
      BY <1>2, <2>1, <2>2, <2>3, EmptyStep
  <1>3. ASSUME NEW h, Reach(h, Horizon), NEW c, c.at \in {"drip", "drip_wait"},
               c.end = cmd.end, Uses(h, c)
        PROVE  Soon'
    <2>1. th' = h /\ cmd' = c /\ can_pause' = can_pause
      BY <1>3 DEF Uses
    <2>2. SoonOf(h, c, can_pause)
      BY <1>1, <1>3 DEF SoonOf
    <2>3. QED
      BY <2>1, <2>2 DEF Soon
  <1>4. CASE DripWait
    <2> DEFINE c == [cmd EXCEPT !.at = "drip_wait", !.wake = est + DripAhead]
    <2>1. Uses(th, c)
      BY <1>4 DEF DripWait
    <2>2. c.at = "drip_wait" /\ c.end = cmd.end
      BY <1>1 DEF Cmds
    <2> HIDE DEF c
    <2>3. QED
      BY <1>1, <1>3, <2>1, <2>2
  <1>5. CASE DripSegment
    <2> DEFINE npt == Smaller(th.print + DRIP_SEGMENT_TIME, cmd.end)
               r == _advance_move_time(note_mcu_movequeue_activity(th, npt + th.kin, TRUE), npt)
               c == [cmd EXCEPT !.at = "drip", !.wake = NEVER]
    <2>1. Uses(r, c)
      BY <1>5 DEF DripSegment
    <2>2. npt \in Nat /\ npt <= Horizon
      BY <1>1, Constants DEF Typed, Smaller
    <2> HIDE DEF npt
    <2>3. Reach(r, Horizon)
      BY <1>1, <2>2, ReachSegment
    <2>4. c.at = "drip" /\ c.end = cmd.end
      BY <1>1 DEF Cmds
    <2> HIDE DEF r, c
    <2>5. QED
      BY <1>3, <2>1, <2>3, <2>4
  <1>6. CASE DripTriggered
    <2> DEFINE u == {s \in th.unsent : s < th.generated}
               h == [th EXCEPT !.queue = 0, !.unsent = u]
    <2>1. Uses(DripEnd(h), Idle)
      BY <1>6 DEF DripTriggered
    <2>2. u \in SUBSET Nat /\ 0 \in 0..MaxQueue
      BY <1>1, Constants DEF Typed
    <2> HIDE DEF u
    <2>3. h \in Members /\ h.queue = 0 /\ h.print = th.print /\ h.step_gen = th.step_gen
          /\ h.last_flush = th.last_flush /\ h.min_restart = th.min_restart
      BY <1>1, <2>2 DEF Members
    <2> HIDE DEF h
    <2>4. Reach(h, Horizon)
      BY <1>1, <2>3, ReachSame
    <2>5. QED
      BY <1>2, <2>1, <2>3, <2>4
  <1>7. CASE DripComplete
    <2> DEFINE a == _advance_move_time(
                      note_mcu_movequeue_activity(th, cmd.end + th.kin, TRUE), cmd.end)
               h == [a EXCEPT !.queue = 0]
    <2>1. Uses(DripEnd(h), Idle)
      BY <1>7 DEF DripComplete
    <2>2. Reach(a, Horizon)
      BY <1>1, ReachSegment
    <2> HIDE DEF a
    <2>3. h \in Members /\ h.queue = 0 /\ h.print = a.print /\ h.step_gen = a.step_gen
          /\ h.last_flush = a.last_flush /\ h.min_restart = a.min_restart
      <3>1. a \in Members /\ 0 \in 0..MaxQueue
        BY <2>2, Constants DEF Reach
      <3>2. QED
        BY <3>1 DEF Members
    <2> HIDE DEF h
    <2>4. Reach(h, Horizon)
      BY <1>1, <2>2, <2>3, ReachSame
    <2>5. QED
      BY <1>2, <2>1, <2>3, <2>4
  <1>8. QED
    BY <1>4, <1>5, <1>6, <1>7

\* The flush and the priming timer.
LEMMA TimersSoon ==
    ASSUME Inv, Soon, NEW t \in 0..(MaxQueue * MaxMove), FlushHandler(t) \/ PrimingHandler(t)
    PROVE  Soon'
  <1> DEFINE near == MaxTime + Lead + Most
             limit == IF th.queue = 0 THEN Horizon ELSE near
  <1>0. UNCHANGED <<est, cmd, triggered, can_pause, crashed>>
    BY DEF FlushHandler, PrimingHandler
  <1>1. est \in 0..MaxTime /\ est \in Nat /\ est < NEVER /\ th \in Members /\ Typed(th)
        /\ Reach(th, Horizon) /\ Horizon \in Nat /\ MaxTime <= Horizon
        /\ t \in Nat /\ t <= Most /\ near \in Nat
    BY Constants, Fields, Bounds, Limits DEF Inv, TypeOK, Soon, SoonOf, Reach, Most
  <1>2. ASSUME NEW r, th' = r, Reach(r, Horizon), r.queue = th.queue, r.print = th.print,
               can_pause /\ cmd.at \notin {"drip", "drip_wait"} => Primed(r)
        PROVE  Soon'
    <2>1. SoonOf(r, cmd, can_pause)
      BY <1>2 DEF Soon, SoonOf
    <2>2. QED
      BY <1>0, <1>2, <2>1 DEF Soon
  <1>3. ASSUME NEW r, th' = r, Reach(r, Horizon), Ready(r),
               cmd.at \notin {"drip", "drip_wait"}, cmd.at \notin Dwells
        PROVE  Soon'
    <2>1. Primed(r) /\ r.queue = 0
      BY <1>3, ReadyPrimed
    <2>2. SoonOf(r, cmd, can_pause)
      BY <1>3, <2>1 DEF SoonOf, Dwells
    <2>3. QED
      BY <1>0, <1>3, <2>2 DEF Soon
  <1>4. ASSUME NEW r, th' = r, cmd.at \in Dwells, Reach(r, th.print), Ready(r)
        PROVE  Soon'
    <2>1. Primed(r) /\ r.queue = 0 /\ cmd.at \notin {"drip", "drip_wait"}
      BY <1>4, ReadyPrimed DEF Dwells
    <2>2. r \in Members /\ Typed(r) /\ r.print <= th.print /\ th.print <= Horizon /\ Close(r)
      BY <1>1, <1>4, Fields DEF Reach
    <2>3. Reach(r, Horizon)
      BY <1>1, <2>2 DEF Reach, Typed
    <2>4. /\ cmd.at = "homing_dwell" => r.print <= HomingReach
          /\ cmd.at = "drip_dwell" => r.print <= DripReach
      BY <1>1, <2>2, Limits DEF Soon, SoonOf, Typed
    <2>5. SoonOf(r, cmd, can_pause)
      BY <2>1, <2>3, <2>4 DEF SoonOf
    <2>6. QED
      BY <1>0, <1>4, <2>5 DEF Soon
  \* A flush of the look-ahead queue from one of the timers, then possibly Background().
  <1>5. ASSUME cmd.at \notin {"drip", "drip_wait"}, NEW h \in Members,
               h.print = th.print, h.step_gen = th.step_gen, h.last_flush = th.last_flush,
               h.min_restart = th.min_restart, h.queue = th.queue,
               th' = _flush_lookahead(h, t) \/ th' = Background(_flush_lookahead(h, t))
        PROVE  Soon'
    <2> DEFINE f == _flush_lookahead(h, t)
    <2>1. ASSUME NEW far \in Nat, Reach(f, far), Ready(f) PROVE Reach(th', far) /\ Ready(th')
      <3>1. CASE th' = f
        BY <2>1, <3>1
      <3>2. CASE th' = Background(f)
        <4> HIDE DEF f
        <4>1. Reach(Background(f), far) /\ Kept(Background(f), f)
          BY <1>1, <2>1, ReachBackground
        <4>2. Ready(Background(f))
          BY <2>1, <4>1 DEF Ready, Kept
        <4>3. QED
          BY <3>2, <4>1, <4>2
      <3>3. QED
        BY <1>5, <3>1, <3>2
    <2>2. CASE cmd.at \in Dwells
      <3>1. th.queue = 0
        BY <2>2 DEF Inv
      <3>2. flush(h, t) = h
        BY <1>5, <3>1 DEF flush
      <3>3. Ready(f) /\ Reach(f, th.print)
        <4> DEFINE i == -1
                   r == [h EXCEPT !.special = "NeedPrime", !.need_check = i]
        <4>1. i \in Int /\ f = r
          BY <3>2 DEF _flush_lookahead
        <4> HIDE DEF i
        <4>2. r \in Members /\ r.queue = h.queue /\ r.special = "NeedPrime"
              /\ r.need_check = i /\ r.print = h.print /\ r.step_gen = h.step_gen
              /\ r.last_flush = h.last_flush /\ r.min_restart = h.min_restart
          BY <1>5, <4>1 DEF Members
        <4> HIDE DEF r, f
        <4>3. Reach(r, Horizon)
          BY <1>1, <1>5, <4>2, ReachSame
        <4>4. Reach(r, th.print)
          BY <1>1, <1>5, <4>2, <4>3 DEF Reach, Typed
        <4>5. Ready(r)
          BY <1>5, <3>1, <4>2 DEF Ready, i
        <4>6. QED
          BY <4>1, <4>4, <4>5
      <3>4. th.print \in Nat
        BY <1>1 DEF Typed
      <3>5. Reach(th', th.print) /\ Ready(th')
        BY <2>1, <3>3, <3>4
      <3>6. QED
        BY <1>4, <2>2, <3>5
    <2>3. CASE cmd.at \notin Dwells
      <3>1. limit \in Nat /\ MaxTime <= limit /\ Room(h, limit, Horizon)
        BY <1>1, <1>5, Limits DEF Room, Typed
      <3>2. th.print <= limit
        <4>1. th.queue > 0 => th.print <= near
          BY <1>5 DEF Soon, SoonOf
        <4>2. th.queue \in Nat /\ th.print <= Horizon
          BY <1>1, Constants DEF Typed, Reach
        <4>3. QED
          BY <4>1, <4>2
      <3> HIDE DEF limit
      <3>3. Reach(h, limit)
        BY <1>1, <1>5, <3>2 DEF Reach, Close
      <3>4. Reach(f, Horizon) /\ Ready(f)
        BY <1>1, <3>1, <3>3, ReachFlushLookahead
      <3> HIDE DEF f
      <3>5. Reach(th', Horizon) /\ Ready(th')
        BY <1>1, <2>1, <3>4
      <3>6. QED
        BY <1>3, <1>5, <2>3, <3>5
    <2>4. QED
      BY <2>2, <2>3
  <1>6. th.special = "Drip" <=> cmd.at \in {"drip", "drip_wait"}
    BY DEF Inv, TypeOK, InDrip
  <1>7. CASE FlushHandler(t)
    <2>1. CASE th.special = "Main" /\ th' = [th EXCEPT !.flush_timer = th.print - BUFFER_TIME_LOW]
      <3> DEFINE ft == th.print - BUFFER_TIME_LOW
                 r == [th EXCEPT !.flush_timer = ft]
      <3>1. ft \in Int /\ th' = r
        BY <1>1, <2>1, Constants DEF Typed
      <3> HIDE DEF ft
      <3>2. r \in Members /\ r.print = th.print /\ r.step_gen = th.step_gen
            /\ r.last_flush = th.last_flush /\ r.min_restart = th.min_restart
            /\ r.queue = th.queue /\ r.special = "Main"
        BY <1>1, <2>1, <3>1 DEF Members
      <3> HIDE DEF r
      <3>3. Reach(r, Horizon) /\ Primed(r)
        BY <1>1, <3>2, ReachSame DEF Primed
      <3>4. QED
        BY <1>2, <3>1, <3>2, <3>3
    <2>2. CASE th.special = "Main" /\ th' = Background(_flush_lookahead(th, t))
      BY <1>1, <1>5, <1>6, <2>2
    <2>3. CASE th.special # "Main" /\ th' = Background(th)
      <3>1. Reach(th', Horizon) /\ Kept(th', th)
        BY <1>1, <2>3, ReachBackground
      <3>2. can_pause /\ cmd.at \notin {"drip", "drip_wait"} => Primed(th')
        BY <3>1 DEF Soon, SoonOf, Primed, Kept
      <3>3. th'.queue = th.queue
        BY <3>1 DEF Kept
      <3>4. th'.print = th.print
        <4> DEFINE end == th.need_flush + BGFLUSH_EXTRA_TIME
                   ftime == Smaller(end, est + BGFLUSH_LOW_TIME + BGFLUSH_BATCH_TIME)
                   a == _advance_flush_time(th, ftime)
        <4>1. ASSUME NEW h \in Members PROVE Rest(h).print = h.print
          BY DEF Rest, Members
        <4>2. ftime \in Int
          BY <1>1, Constants DEF Typed, Smaller
        <4> HIDE DEF ftime
        <4>3. a \in Members /\ a.print = th.print
          BY <1>1, <4>2, AdvanceFlush
        <4> HIDE DEF a
        <4>4. Background(th) = Rest(th) \/ Background(th) = Rest(a)
          BY DEF Background, a, ftime
        <4>5. QED
          BY <1>1, <2>3, <4>1, <4>3, <4>4
      <3>5. QED
        BY <1>2, <3>1, <3>2, <3>3, <3>4
    <2>4. QED
      BY <1>7, <2>1, <2>2, <2>3 DEF FlushHandler
  <1>8. CASE PrimingHandler(t)
    <2> DEFINE r == [th EXCEPT !.priming_timer = NEVER]
    <2>1. NEVER \in Int
      BY Constants
    <2>2. r \in Members /\ r.print = th.print /\ r.step_gen = th.step_gen
          /\ r.last_flush = th.last_flush /\ r.min_restart = th.min_restart
          /\ r.queue = th.queue /\ r.special = th.special /\ r.need_check = th.need_check
      BY <1>1, <2>1 DEF Members
    <2>3. \/ th.special = "Priming" /\ th' = _flush_lookahead(r, t)
          \/ th.special # "Priming" /\ th' = r
      BY <1>8 DEF PrimingHandler
    <2> HIDE DEF r
    <2>4. CASE th.special = "Priming" /\ th' = _flush_lookahead(r, t)
      BY <1>5, <1>6, <2>2, <2>4
    <2>5. CASE th.special # "Priming" /\ th' = r
      <3>1. Reach(r, Horizon)
        BY <1>1, <2>2, ReachSame
      <3>2. can_pause /\ cmd.at \notin {"drip", "drip_wait"} => Primed(r)
        BY <2>2, <2>5 DEF Soon, SoonOf, Primed
      <3>3. QED
        BY <1>2, <2>2, <2>5, <3>1, <3>2
    <2>6. QED
      BY <2>3, <2>4, <2>5
  <1>9. QED
    BY <1>7, <1>8

\* The second invariant holds initially.
LEMMA InitSoon == Init => Soon
  <1> SUFFICES ASSUME Init PROVE Soon
    OBVIOUS
  <1>1. th \in Members
    BY InitInv DEF Inv, TypeOK
  <1>2. th.special = "NeedPrime" /\ th.print = 0 /\ th.last_flush = 0 /\ th.step_gen = 0
        /\ th.min_restart = 0 /\ th.queue = 0 /\ th.need_check = -1
    BY DEF Init
  <1>3. Reach(th, Horizon)
    BY <1>1, <1>2, Bounds, Constants DEF Reach, Close
  <1>4. Primed(th)
    BY <1>2 DEF Primed
  <1>5. cmd.at = "idle"
    BY CmdPlaces DEF Init
  <1>6. QED
    BY <1>2, <1>3, <1>4, <1>5 DEF Soon, SoonOf

\* Every step keeps it.
LEMMA NextSoon ==
    ASSUME Inv, Soon, [Next]_vars
    PROVE  Soon'
  <1>1. ASSUME UNCHANGED <<th, cmd>>, can_pause' => can_pause PROVE Soon'
    BY <1>1 DEF Soon, SoonOf
  <1>2. CASE UNCHANGED vars
    BY <1>1, <1>2 DEF vars
  <1>3. CASE Next
    <2>1. CASE Command
      <3>1. ASSUME NEW n, NEW t \in 0..(MaxQueue * MaxMove), move(n, t) PROVE Soon'
        BY <3>1, MoveSoon
      <3>2. ASSUME NEW t \in 0..(MaxQueue * MaxMove), NEW delay \in {0, MaxMove},
                   dwell(t, delay)
            PROVE  Soon'
        BY <3>2, FlushingSoon
      <3>3. 0 \in {0, MaxMove} /\ 0 \in 0..(MaxQueue * MaxMove)
        <4>1. MaxQueue * MaxMove \in Nat
          BY Constants
        <4>2. QED
          BY <4>1
      <3>4. ASSUME NEW t \in 0..(MaxQueue * MaxMove),
                   set_position(t) \/ wait_moves(t)
                     \/ (\E d \in KinDelays : note_step_generation_scan_time(t, d))
            PROVE  Soon'
        BY <3>3, <3>4, FlushingSoon
      <3>5. CASE queue_request
        BY <3>3, <3>5, FlushingSoon
      <3>6. ASSUME NEW t \in 0..(MaxQueue * MaxMove), NEW dt, homing_move(t, dt) PROVE Soon'
        BY <3>6, HomingMoveSoon
      <3>7. QED
        BY <2>1, <3>1, <3>2, <3>4, <3>5, <3>6 DEF Command
    <2>2. CASE Greenlet
      <3>1. ASSUME NEW dt, HomingDwell(dt) \/ DripDwell(dt) PROVE Soon'
        BY <3>1, DwellsSoon
      <3>2. CASE DwellCrash \/ DripCrash
        BY <1>1, <3>2 DEF DwellCrash, DripCrash, Crash
      <3>3. QED
        BY <2>2, <3>1, <3>2, WakeSoon, DripSoon DEF Greenlet
    <2>3. CASE Timers
      <3>1. CASE FlushHandlerCrash \/ PrimingHandlerCrash
        BY <1>1, <3>1 DEF FlushHandlerCrash, PrimingHandlerCrash, Crash
      <3>2. QED
        BY <2>3, <3>1, TimersSoon DEF Timers
    <2>4. CASE Trigger
      BY <1>1, <2>4 DEF Trigger
    <2>5. CASE _handle_shutdown
      BY <1>1, <2>5 DEF _handle_shutdown
    <2>6. CASE Tick
      BY <1>1, <2>6 DEF Tick
    <2>7. QED
      BY <1>3, <2>1, <2>2, <2>3, <2>4, <2>5, <2>6 DEF Next
  <1>4. QED
    BY <1>2, <1>3

\* NothingForgotten: while the printer runs, a queued move is awaited by the flush timer,
\* the priming timer or drip_move(), and a step that is not sent by the flush timer or
\* drip_move(), for all buffer times, moves and delays; and no time is NEVER by accident.
THEOREM AlwaysNothingForgotten == Spec => []NothingForgotten
  <1>1. Inv /\ Soon => NothingForgotten
    <2> SUFFICES ASSUME Inv, Soon, can_pause, ~InDrip
                 PROVE  /\ th.queue > 0 =>
                             \/ th.special = "Main" /\ th.flush_timer # NEVER
                             \/ th.special = "Priming" /\ th.priming_timer # NEVER
                        /\ th.unsent # {} => th.flush_timer # NEVER
      BY DEF NothingForgotten
    <2>1. Good(th, est) /\ Typed(th) /\ est \in Nat /\ est < NEVER
      <3>1. th \in Members /\ est \in 0..MaxTime
        BY DEF Inv, TypeOK
      <3>2. QED
        BY <3>1, Fields, Constants DEF Inv
    <2>2. Reach(th, Horizon) /\ Primed(th)
      BY DEF Soon, SoonOf, InDrip
    <2>3. th.last_flush < NEVER /\ th.print < NEVER
      BY <2>1, <2>2, Bounds, Constants DEF Reach, Close, Typed
    <2>4. th.kick = FALSE => th.flush_timer # NEVER
      BY <2>1, <2>3, Constants DEF Good, Timed, Typed
    <2>5. th.unsent # {} => th.kick = FALSE
      BY <2>1, Zenon DEF Good, Timed, Typed
    <2>6. th.special = "Main" => th.kick = FALSE
      BY <2>1 DEF Good, Timed
    <2>7. th.queue > 0 => th.special \in {"Main", "Priming"}
      BY <2>1, <2>2 DEF Good, Timed, Typed, Primed
    <2>8. QED
      BY <2>2, <2>4, <2>5, <2>6, <2>7 DEF Primed
  <1>2. Inv /\ Soon /\ [Next]_vars => Soon'
    BY NextSoon
  <1>3. QED
    BY Invariant, InitSoon, <1>1, <1>2, PTL DEF Spec

\* In MCOutputs, which explores tool head and pins side by side, the tool head behaves as
\* ToolHead says: what is proved of Spec holds of the composition too.
LEMMA ComposedToolHead == OutputsSpec => Spec
<1>1. OutputsInit => Init
  BY DEF OutputsInit
<1>2. [OutputsNext]_<<vars, digitalOutVars, pwmOutVars, part>> => [Next]_vars
  BY DEF OutputsNext
<1> QED  BY <1>1, <1>2, PTL DEF OutputsSpec, Spec

=============================================================================
