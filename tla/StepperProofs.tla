--------------------------- MODULE StepperProofs ---------------------------
(***************************************************************************)
(* Proofs about Stepper, for every travel, every set of counts and any     *)
(* number of steppers and move nodes.                                      *)
(***************************************************************************)
EXTENDS Stepper, TLAPS, FiniteSetTheorems

-----------------------------------------------------------------------------
(* Arithmetic *)

\* Reduction modulo 4 * Bias of the numbers the position arithmetic meets.
LEMMA WrapSmall ==
    ASSUME NEW x \in Int, 0 <= x, x < 4 * Bias
    PROVE  Wrap(x) = x
  BY StepperAssumption, SMT DEF Wrap

\* A negative number within one turn of the counter.
LEMMA WrapNegative ==
    ASSUME NEW x \in Int, -(4 * Bias) <= x, x < 0
    PROVE  Wrap(x) = x + 4 * Bias
  BY StepperAssumption, SMT DEF Wrap

\* The steps left of a double-scheduled move.
LEMMA Halves ==
    ASSUME NEW k \in Nat
    PROVE  (2 * k) \div 2 = k /\ (2 * k + 1) \div 2 = k
  BY SMT

-----------------------------------------------------------------------------
(* The invariant of one stepper *)

\* Where the axis is, where it goes and what the firmware's counters say of it.
Motion(st) ==
    /\ st.at \in -Travel..Travel /\ st.to \in -Travel..Travel
    /\ Remaining(st) \in Nat
    /\ st.to = IF st.dir_pin THEN st.at + Remaining(st) ELSE st.at - Remaining(st)
    /\ st.position = IF st.dir_pin THEN Bias + st.to ELSE 3 * Bias - st.to
    /\ ~st.single => st.count = 2 * Remaining(st) + (IF st.step_pin THEN 1 ELSE 0)

\* Where the i-th queued move starts, and in which direction it runs; 0 is the
\* running move.
StartOf(st, i) == IF i = 1 THEN st.to ELSE st.mq[i - 1].to
Forward(st, i) == IF i = 0 THEN st.dir_pin ELSE st.mq[i].to > StartOf(st, i)

\* The queued moves lead from one to the next, and a move turns the direction
\* pin exactly when it runs the other way than the one before it.
Chain(st) ==
    /\ \A i \in 1..Len(st.mq) :
         /\ st.mq[i].to \in -Travel..Travel
         /\ st.mq[i].to = IF Forward(st, i) THEN StartOf(st, i) + st.mq[i].count
                          ELSE StartOf(st, i) - st.mq[i].count
         /\ st.mq[i].dir <=> (Forward(st, i) # Forward(st, i - 1))
    /\ st.last_dir = Forward(st, Len(st.mq))

\* A stepper that is not running has nothing queued; one that was stopped does
\* not run.
Rest(st) ==
    /\ st.timer <=> st.count # 0
    /\ st.count = 0 => st.mq = <<>>
    /\ st.need_reset => st.count = 0
    /\ st.halted => st.need_reset

StepperInv(st) == st \in StepperStates /\ Motion(st) /\ Chain(st) /\ Rest(st)

-----------------------------------------------------------------------------
(* Operations on one stepper *)

\* With nothing queued, the chain is just the direction.
LEMMA EmptyChain ==
    ASSUME NEW st, st.mq = <<>>, st.last_dir = st.dir_pin
    PROVE  Chain(st)
<1>1. Len(st.mq) = 0
  OBVIOUS
<1>2. Forward(st, 0) = st.dir_pin
  BY DEF Forward
<1>3. 1..0 = {}
  OBVIOUS
<1> QED  BY <1>1, <1>2, <1>3 DEF Chain

\* The position the firmware reports is the real one.
LEMMA PositionOfMotion ==
    ASSUME NEW st \in StepperStates, Motion(st)
    PROVE  GetPosition(st) = Bias + st.at
<1> USE StepperAssumption
<1> DEFINE r == Remaining(st)
<1>1. /\ st.at \in Int /\ st.to \in Int /\ r \in Nat /\ st.dir_pin \in BOOLEAN
      /\ -Travel <= st.at /\ st.at <= Travel
      /\ st.to = IF st.dir_pin THEN st.at + r ELSE st.at - r
      /\ st.position = IF st.dir_pin THEN Bias + st.to ELSE 3 * Bias - st.to
  BY DEF Motion, StepperStates
<1> HIDE DEF r
<1>2. CASE st.dir_pin
  <2>1. st.position - r = Bias + st.at
    BY <1>1, <1>2
  <2>2. Wrap(Bias + st.at) = Bias + st.at
    BY <1>1, WrapSmall
  <2> QED  BY <2>1, <2>2, <1>1 DEF GetPosition, r
<1>3. CASE ~st.dir_pin
  <2>1. st.position - r = 3 * Bias - st.at
    BY <1>1, <1>3
  <2>2. Wrap(3 * Bias - st.at) = 3 * Bias - st.at
    BY <1>1, WrapSmall
  <2>3. Wrap(-(3 * Bias - st.at)) = Bias + st.at
    BY <1>1, WrapNegative
  <2> QED  BY <2>1, <2>2, <2>3, <1>1 DEF GetPosition, r
<1> QED  BY <1>1, <1>2, <1>3

\* stepper_stop() leaves the axis where it is.
LEMMA StopKeepsInv ==
    ASSUME NEW st \in StepperStates, Motion(st)
    PROVE  StepperInv(Stop(st)) /\ Stop(st).at = st.at
<1> USE StepperAssumption
<1> DEFINE x == Stop(st)
<1>1. /\ st.at \in Int /\ -Travel <= st.at /\ st.at <= Travel
  BY DEF Motion, StepperStates
<1>2. Wrap(-GetPosition(st)) = 3 * Bias - st.at
  <2>1. GetPosition(st) = Bias + st.at
    BY PositionOfMotion
  <2> QED  BY <2>1, <1>1, WrapNegative
<1>3. /\ x.position = 3 * Bias - st.at /\ x.count = 0 /\ x.mq = <<>>
      /\ x.to = st.at /\ x.at = st.at /\ x.halted = TRUE /\ x.timer = FALSE
      /\ x.last_dir = FALSE /\ x.need_reset = TRUE /\ x.dir_pin = FALSE
      /\ x.single = st.single /\ (~x.single => x.step_pin = FALSE)
  BY <1>2 DEF Stop, Halted, StepperStates
<1>4. x \in StepperStates
  <2>1. <<>> \in Seq(QueuedMoves)
    OBVIOUS
  <2>2. 3 * Bias - st.at \in 0..(4 * Bias - 1)
    BY <1>1
  <2>3. Halted(st) \in StepperStates
    BY <1>1, <1>2, <2>1, <2>2 DEF Halted, StepperStates
  <2> DEFINE h == Halted(st)
             p == IF st.single THEN h.step_pin ELSE FALSE
  <2>4. h \in StepperStates /\ p \in BOOLEAN
    BY <2>3 DEF StepperStates
  <2>5. x = [h EXCEPT !.timer = FALSE, !.last_dir = FALSE, !.next_dir = FALSE,
                      !.need_reset = TRUE, !.dir_pin = FALSE, !.step_pin = p]
    BY DEF Stop
  <2> HIDE DEF h, p, x
  <2>6. [h EXCEPT !.timer = FALSE, !.last_dir = FALSE, !.next_dir = FALSE,
                  !.need_reset = TRUE, !.dir_pin = FALSE, !.step_pin = p]
          \in StepperStates
    BY <2>4 DEF StepperStates
  <2> QED  BY <2>5, <2>6
<1> HIDE DEF x
<1>5. Remaining(x) = 0
  BY <1>3, Halves DEF Remaining
<1>6. Motion(x)
  BY <1>1, <1>3, <1>5 DEF Motion
<1>7. Chain(x)
  BY <1>3, EmptyChain
<1>8. Rest(x)
  BY <1>3 DEF Rest
<1> QED  BY <1>3, <1>4, <1>6, <1>7, <1>8 DEF StepperInv, x

\* The fields of a queued move.
LEMMA MoveFields ==
    ASSUME NEW q \in Seq(QueuedMoves), NEW i \in 1..Len(q)
    PROVE  /\ q[i] \in QueuedMoves /\ q[i].node \in Moves
           /\ q[i].count \in Nat \ {0} /\ q[i].dir \in BOOLEAN
           /\ q[i].to \in Int
<1>1. q[i] \in QueuedMoves
  OBVIOUS
<1> QED  BY <1>1 DEF QueuedMoves

\* Queueing a move behind the others: where it starts is the target of the
\* stepper, and it turns the direction if last_dir is not next_dir.
Pushed(st, m) == [st EXCEPT !.last_dir = st.next_dir, !.mq = Append(@, m)]

\* A move appended to the queue extends the chain.
LEMMA PushKeepsInv ==
    ASSUME NEW st \in StepperStates, Chain(st), Motion(st),
           NEW m \in QueuedMoves, m.to = SentTo(st, m.count),
           m.dir = (st.last_dir # st.next_dir), m.to \in -Travel..Travel
    PROVE  /\ Pushed(st, m) \in StepperStates /\ Motion(Pushed(st, m))
           /\ Chain(Pushed(st, m))
<1> DEFINE x == Pushed(st, m)
           n == Len(st.mq)
<1>1. /\ x \in StepperStates /\ x.mq = Append(st.mq, m) /\ x.to = st.to
      /\ x.dir_pin = st.dir_pin /\ x.last_dir = st.next_dir
      /\ x.at = st.at /\ x.position = st.position /\ x.count = st.count
      /\ x.step_pin = st.step_pin /\ x.single = st.single
  <2>1. Append(st.mq, m) \in Seq(QueuedMoves)
    BY DEF StepperStates
  <2>2. st.next_dir \in BOOLEAN
    BY DEF StepperStates
  <2>3. x \in StepperStates
    BY <2>1, <2>2 DEF Pushed, StepperStates
  <2> QED  BY <2>3 DEF Pushed, StepperStates
<1>2. /\ n \in Nat /\ Len(x.mq) = n + 1 /\ x.mq[n + 1] = m
      /\ \A i \in 1..n : x.mq[i] = st.mq[i]
  BY <1>1 DEF StepperStates
<1>3. /\ st.to \in Int /\ m.to \in Int /\ m.count \in Nat \ {0}
      /\ st.next_dir \in BOOLEAN /\ st.last_dir \in BOOLEAN
      /\ m.dir \in BOOLEAN /\ st.mq \in Seq(QueuedMoves)
  BY DEF StepperStates, QueuedMoves
<1>4. Motion(x)
  BY <1>1 DEF Motion, Remaining
<1> HIDE DEF x, n
<1>5. \A i \in 1..n : StartOf(x, i) = StartOf(st, i)
  BY <1>1, <1>2 DEF StartOf
<1>6. \A i \in 0..n : Forward(x, i) = Forward(st, i)
  BY <1>1, <1>2, <1>5 DEF Forward
<1>7. StartOf(x, n + 1) = Target(st)
  <2>1. CASE n = 0
    BY <2>1, <1>1, <1>3 DEF StartOf, Target, n
  <2>2. CASE n # 0
    <3>1. st.mq # <<>> /\ n \in 1..n
      BY <2>2, <1>2 DEF n
    <3> QED  BY <2>2, <3>1, <1>2 DEF StartOf, Target, n
  <2> QED  BY <2>1, <2>2
<1>8. Target(st) \in Int
  <2>1. CASE st.mq = <<>>
    BY <2>1, <1>3 DEF Target
  <2>2. CASE st.mq # <<>>
    <3>1. n \in 1..n
      BY <2>2, <1>2, <1>3 DEF n
    <3> QED  BY <3>1, <2>2, <1>3, MoveFields DEF Target, n
  <2> QED  BY <2>1, <2>2
<1>9. m.to = IF st.next_dir THEN Target(st) + m.count ELSE Target(st) - m.count
  BY DEF SentTo
<1>10. Forward(x, n + 1) = st.next_dir
  BY <1>2, <1>3, <1>7, <1>8, <1>9 DEF Forward
<1>11. Forward(x, n) = st.last_dir
  BY <1>2, <1>6 DEF Chain, n
<1>12. ASSUME NEW i \in 1..(n + 1)
       PROVE  /\ x.mq[i].to \in -Travel..Travel
              /\ x.mq[i].to = IF Forward(x, i) THEN StartOf(x, i) + x.mq[i].count
                              ELSE StartOf(x, i) - x.mq[i].count
              /\ x.mq[i].dir <=> (Forward(x, i) # Forward(x, i - 1))
  <2>1. CASE i = n + 1
    <3>1. i - 1 = n
      BY <2>1, <1>2
    <3> QED  BY <2>1, <3>1, <1>2, <1>3, <1>7, <1>9, <1>10, <1>11
  <2>2. CASE i # n + 1
    <3>1. i \in 1..n /\ i \in 0..n /\ i - 1 \in 0..n
      BY <2>2, <1>2
    <3>2. /\ x.mq[i] = st.mq[i] /\ StartOf(x, i) = StartOf(st, i)
          /\ Forward(x, i) = Forward(st, i)
          /\ Forward(x, i - 1) = Forward(st, i - 1)
      BY <3>1, <1>2, <1>5, <1>6
    <3> QED  BY <3>1, <3>2 DEF Chain, n
  <2> QED  BY <2>1, <2>2
<1>13. Chain(x)
  BY <1>12, <1>10, <1>1, <1>2 DEF Chain
<1> QED  BY <1>1, <1>4, <1>13 DEF x

\* One edge of the step pin: the axis goes on towards its target, or the pulse
\* ends.
LEMMA ToggleKeepsMotion ==
    ASSUME NEW st \in StepperStates, Motion(st), Chain(st), st.count # 0
    PROVE  LET x == Toggled(st)
           IN  /\ x \in StepperStates /\ Motion(x) /\ Chain(x)
               /\ x.mq = st.mq /\ x.single = st.single
               /\ x.need_reset = st.need_reset /\ x.halted = st.halted
               /\ x.timer = st.timer /\ x.count = st.count - 1
               /\ x.next_dir = st.next_dir /\ Target(x) = Target(st)
<1> USE StepperAssumption
<1> DEFINE x == Toggled(st)
           r == Remaining(st)
<1>1. /\ st.at \in Int /\ st.to \in Int /\ st.count \in Nat \ {0}
      /\ st.dir_pin \in BOOLEAN /\ st.step_pin \in BOOLEAN
      /\ st.single \in BOOLEAN /\ st.position \in Int
  BY DEF StepperStates
<1> DEFINE c == st.count - 1
           pin == ~st.step_pin
           at == IF ~st.single /\ st.step_pin THEN st.at
                 ELSE IF st.dir_pin THEN st.at + 1 ELSE st.at - 1
<1>a. c \in Nat /\ at \in Int
  BY <1>1
<1>b. pin \in BOOLEAN
  BY <1>1
<1>c. x = [st EXCEPT !.step_pin = pin, !.at = at, !.count = c]
  BY DEF Toggled
<1> HIDE DEF x, c, at, pin
<1>2. /\ x \in StepperStates
      /\ x.mq = st.mq /\ x.single = st.single /\ x.to = st.to
      /\ x.need_reset = st.need_reset /\ x.halted = st.halted
      /\ x.timer = st.timer /\ x.count = c
      /\ x.dir_pin = st.dir_pin /\ x.position = st.position
      /\ x.step_pin = pin /\ x.last_dir = st.last_dir /\ x.at = at
      /\ x.next_dir = st.next_dir
  BY <1>a, <1>b, <1>c DEF StepperStates
<1>3. /\ r \in Nat /\ -Travel <= st.at /\ st.at <= Travel
      /\ -Travel <= st.to /\ st.to <= Travel
      /\ st.to = IF st.dir_pin THEN st.at + r ELSE st.at - r
      /\ st.position = IF st.dir_pin THEN Bias + st.to ELSE 3 * Bias - st.to
      /\ ~st.single => st.count = 2 * r + (IF st.step_pin THEN 1 ELSE 0)
  BY DEF Motion
<1>4. ASSUME ~st.single, st.step_pin PROVE Motion(x)
  <2>1. x.count = 2 * r /\ at = st.at /\ ~pin
    BY <1>4, <1>1, <1>2, <1>3 DEF c, at, pin
  <2>2. Remaining(x) = r
    BY <2>1, <1>2, <1>3, <1>4, Halves DEF Remaining
  <2> HIDE DEF r
  <2> QED  BY <2>1, <2>2, <1>1, <1>2, <1>3, <1>4 DEF Motion
<1>5. ASSUME ~st.single, ~st.step_pin PROVE Motion(x)
  <2>1. r >= 1 /\ x.count = 2 * (r - 1) + 1 /\ r - 1 \in Nat /\ pin
        /\ at = IF st.dir_pin THEN st.at + 1 ELSE st.at - 1
    BY <1>5, <1>1, <1>2, <1>3 DEF c, at, pin
  <2>2. Remaining(x) = r - 1
    BY <2>1, <1>2, <1>5, Halves DEF Remaining
  <2> HIDE DEF r
  <2>3. -Travel <= at /\ at <= Travel
    BY <2>1, <1>1, <1>3
  <2> QED  BY <2>1, <2>2, <2>3, <1>1, <1>2, <1>3, <1>5 DEF Motion
<1>6. ASSUME st.single PROVE Motion(x)
  <2>1. r = st.count
    BY <1>6 DEF Remaining
  <2>2. Remaining(x) = r - 1
    BY <2>1, <1>2, <1>6 DEF Remaining, c
  <2> HIDE DEF r
  <2>3. at = IF st.dir_pin THEN st.at + 1 ELSE st.at - 1
    BY <1>6 DEF at
  <2>4. -Travel <= at /\ at <= Travel
    BY <2>1, <2>3, <1>1, <1>3
  <2> QED  BY <2>1, <2>2, <2>3, <2>4, <1>1, <1>2, <1>3, <1>6 DEF Motion
<1>7. Chain(x)
  BY <1>2 DEF Chain, Forward, StartOf
<1>8. Motion(x)
  BY <1>1, <1>4, <1>5, <1>6
<1>9. Target(x) = Target(st)
  BY <1>2 DEF Target
<1> QED  BY <1>2, <1>7, <1>8, <1>9 DEF x, c

\* stepper_load_next() with a move in the queue: the axis runs on from where it
\* stands to the end of that move, and the rest of the queue leads on from there.
LEMMA LoadKeepsInv ==
    ASSUME NEW st \in StepperStates, Motion(st), Chain(st), st.count = 0,
           st.mq # <<>>
    PROVE  LET x == LoadNext(st)
           IN  /\ x \in StepperStates /\ Motion(x) /\ Chain(x)
               /\ x.mq = Tail(st.mq) /\ x.count # 0 /\ x.at = st.at
               /\ x.need_reset = st.need_reset /\ x.halted = st.halted
               /\ x.timer = st.timer /\ x.single = st.single
               /\ x.next_dir = st.next_dir /\ Target(x) = Target(st)
<1> USE StepperAssumption
<1> DEFINE x == LoadNext(st)
           m == Head(st.mq)
           n == Len(st.mq)
<1>1. /\ st.at \in Int /\ st.to \in Int /\ st.mq \in Seq(QueuedMoves)
      /\ st.dir_pin \in BOOLEAN /\ st.step_pin \in BOOLEAN
      /\ st.single \in BOOLEAN /\ st.position \in Int
  BY DEF StepperStates
<1>2. /\ n \in Nat \ {0} /\ 1 \in 1..n /\ m = st.mq[1]
      /\ Tail(st.mq) \in Seq(QueuedMoves) /\ Len(Tail(st.mq)) = n - 1
      /\ \A i \in 1..(n - 1) : Tail(st.mq)[i] = st.mq[i + 1]
  BY <1>1
<1>3. /\ m.count \in Nat \ {0} /\ m.dir \in BOOLEAN /\ m.to \in Int
  BY <1>1, <1>2, MoveFields
<1> HIDE DEF m, n
<1>4. Remaining(st) = 0
  BY Halves DEF Remaining
<1>5. /\ st.to = st.at /\ -Travel <= st.at /\ st.at <= Travel
      /\ st.position = IF st.dir_pin THEN Bias + st.at ELSE 3 * Bias - st.at
      /\ ~st.single => ~st.step_pin
  BY <1>1, <1>4 DEF Motion
<1>6. /\ -Travel <= m.to /\ m.to <= Travel
      /\ m.to = IF m.to > st.to THEN st.to + m.count ELSE st.to - m.count
      /\ m.dir <=> ((m.to > st.to) # st.dir_pin)
  <2>1. StartOf(st, 1) = st.to /\ Forward(st, 1) = (m.to > st.to)
        /\ Forward(st, 1 - 1) = st.dir_pin
    BY <1>2 DEF StartOf, Forward
  <2> QED  BY <2>1, <1>1, <1>2, <1>3, SMTT(30) DEF Chain, n
<1> DEFINE up == m.to > st.to
<1>7. up = (IF m.dir THEN ~st.dir_pin ELSE st.dir_pin)
  BY <1>1, <1>3, <1>6
<1> DEFINE p == IF m.dir THEN Wrap(m.count - st.position)
                ELSE Wrap(st.position + m.count)
<1>8. p = IF up THEN Bias + m.to ELSE 3 * Bias - m.to
  <2>1. CASE m.dir /\ st.dir_pin
    <3>0. m.to = st.at - m.count
      BY <2>1, <1>5, <1>6, <1>7
    <3>1. m.count - st.position = -Bias - m.to
      BY <2>1, <1>1, <1>3, <1>5, <3>0
    <3>2. Wrap(-Bias - m.to) = 3 * Bias - m.to
      BY <1>3, <1>6, WrapNegative, SMTT(30)
    <3> QED  BY <3>1, <3>2, <2>1, <1>7
  <2>2. CASE m.dir /\ ~st.dir_pin
    <3>0. m.to = st.at + m.count
      BY <2>2, <1>5, <1>6, <1>7
    <3>1. m.count - st.position = m.to - 3 * Bias
      BY <2>2, <1>1, <1>3, <1>5, <3>0
    <3>2. Wrap(m.to - 3 * Bias) = Bias + m.to
      BY <1>3, <1>6, WrapNegative
    <3> QED  BY <3>1, <3>2, <2>2, <1>7
  <2>3. CASE ~m.dir /\ st.dir_pin
    <3>0. m.to = st.at + m.count
      BY <2>3, <1>5, <1>6, <1>7
    <3>1. st.position + m.count = Bias + m.to
      BY <2>3, <1>1, <1>3, <1>5, <3>0
    <3>2. Wrap(Bias + m.to) = Bias + m.to
      BY <1>3, <1>6, WrapSmall
    <3> QED  BY <3>1, <3>2, <2>3, <1>7
  <2>4. CASE ~m.dir /\ ~st.dir_pin
    <3>0. m.to = st.at - m.count
      BY <2>4, <1>5, <1>6, <1>7
    <3>1. st.position + m.count = 3 * Bias - m.to
      BY <2>4, <1>1, <1>3, <1>5, <3>0
    <3>2. Wrap(3 * Bias - m.to) = 3 * Bias - m.to
      BY <1>3, <1>6, WrapSmall
    <3> QED  BY <3>1, <3>2, <2>4, <1>7
  <2> QED  BY <2>1, <2>2, <2>3, <2>4, <1>1, <1>3
<1>9. p \in 0..(4 * Bias - 1)
  BY <1>3, <1>6, <1>8
<1> HIDE DEF p
<1> DEFINE c == IF st.single THEN m.count ELSE 2 * m.count
           d == IF m.dir THEN ~st.dir_pin ELSE st.dir_pin
<1>10. x = [st EXCEPT !.mq = Tail(@), !.count = c, !.position = p,
                      !.dir_pin = d, !.to = m.to]
  BY DEF LoadNext, p, m
<1>11. c \in Nat \ {0} /\ d \in BOOLEAN
  <2>1. c \in Nat \ {0}
    BY <1>1, <1>3
  <2>2. d \in BOOLEAN
    BY <1>1
  <2> QED  BY <2>1, <2>2
<1> HIDE DEF x, c, d
<1>12. /\ x \in StepperStates
       /\ x.mq = Tail(st.mq) /\ x.count = c /\ x.position = p
       /\ x.dir_pin = d /\ x.to = m.to /\ x.at = st.at
       /\ x.need_reset = st.need_reset /\ x.halted = st.halted
       /\ x.timer = st.timer /\ x.single = st.single
       /\ x.step_pin = st.step_pin /\ x.last_dir = st.last_dir
       /\ x.next_dir = st.next_dir
  BY <1>2, <1>3, <1>9, <1>10, <1>11 DEF StepperStates
<1>13. d = up
  BY <1>7 DEF d
<1>14. Remaining(x) = m.count
  BY <1>1, <1>3, <1>12, Halves DEF Remaining, c
<1>15. Motion(x)
  <2>1. x.to = IF d THEN st.at + m.count ELSE st.at - m.count
    BY <1>5, <1>6, <1>12, <1>13
  <2>2. ~st.single => c = 2 * m.count /\ ~st.step_pin
    BY <1>5 DEF c
  <2>3. p = IF d THEN Bias + x.to ELSE 3 * Bias - x.to
    BY <1>8, <1>12, <1>13
  <2>4. /\ x.at \in -Travel..Travel /\ x.to \in -Travel..Travel
        /\ Remaining(x) \in Nat
    BY <1>1, <1>3, <1>5, <1>6, <1>12, <1>14
  <2>5. ~x.single => x.count = 2 * Remaining(x) + (IF x.step_pin THEN 1 ELSE 0)
    BY <2>2, <1>3, <1>12, <1>14
  <2> QED  BY <2>1, <2>3, <2>4, <2>5, <1>12, <1>14 DEF Motion
<1>16. Chain(x)
  <2>1. Len(x.mq) = n - 1 /\ \A i \in 1..(n - 1) : x.mq[i] = st.mq[i + 1]
    BY <1>2, <1>12
  <2>2. ASSUME NEW i \in 1..(n - 1) PROVE StartOf(x, i) = StartOf(st, i + 1)
    <3>1. CASE i = 1
      BY <3>1, <1>2, <1>12 DEF StartOf
    <3>2. CASE i # 1
      <4>1. i - 1 \in 1..(n - 1) /\ i + 1 # 1 /\ (i + 1) - 1 = i
            /\ (i - 1) + 1 = i
        BY <3>2, <1>2
      <4> QED  BY <3>2, <4>1, <2>1 DEF StartOf
    <3> QED  BY <3>1, <3>2
  <2>3. ASSUME NEW i \in 0..(n - 1) PROVE Forward(x, i) = Forward(st, i + 1)
    <3>1. CASE i = 0
      BY <3>1, <1>2, <1>12, <1>13 DEF Forward, StartOf
    <3>2. CASE i # 0
      <4>1. i \in 1..(n - 1) /\ i + 1 # 0
        BY <3>2, <1>2
      <4> QED  BY <3>2, <4>1, <2>1, <2>2 DEF Forward
    <3> QED  BY <3>1, <3>2
  <2>4. ASSUME NEW i \in 1..(n - 1)
        PROVE  /\ x.mq[i].to \in -Travel..Travel
               /\ x.mq[i].to = IF Forward(x, i) THEN StartOf(x, i) + x.mq[i].count
                               ELSE StartOf(x, i) - x.mq[i].count
               /\ x.mq[i].dir <=> (Forward(x, i) # Forward(x, i - 1))
    <3>1. /\ i + 1 \in 1..n /\ i \in 0..(n - 1) /\ i - 1 \in 0..(n - 1)
          /\ (i - 1) + 1 = i /\ (i + 1) - 1 = i
      <4>1. n \in Nat
        BY <1>2
      <4> QED  BY <4>1
    <3>2. /\ x.mq[i] = st.mq[i + 1] /\ StartOf(x, i) = StartOf(st, i + 1)
          /\ Forward(x, i) = Forward(st, i + 1)
          /\ Forward(x, i - 1) = Forward(st, (i + 1) - 1)
      BY <3>1, <2>1, <2>2, <2>3
    <3> QED  BY <3>1, <3>2 DEF Chain, n
  <2>5. x.last_dir = Forward(x, Len(x.mq))
    <3>1. n - 1 \in 0..(n - 1) /\ (n - 1) + 1 = n
      BY <1>2
    <3> QED  BY <3>1, <2>1, <2>3, <1>12 DEF Chain, n
  <2> QED  BY <2>1, <2>4, <2>5 DEF Chain
<1>17. Target(x) = Target(st)
  <2>1. CASE n = 1
    <3>1. Len(x.mq) = 0 /\ x.mq \in Seq(QueuedMoves)
      BY <2>1, <1>2, <1>12
    <3>2. x.mq = <<>>
      BY <3>1
    <3>3. Target(st) = m.to
      BY <2>1, <1>2 DEF Target, n
    <3> QED  BY <3>2, <3>3, <1>12 DEF Target
  <2>2. CASE n # 1
    <3>1. n - 1 \in 1..(n - 1) /\ (n - 1) + 1 = n
      BY <2>2, <1>2
    <3>2. Len(x.mq) = n - 1 /\ n - 1 # 0 /\ Tail(st.mq)[n - 1] = st.mq[n]
      BY <2>2, <3>1, <1>2, <1>12
    <3>3. x.mq # <<>>
      BY <3>2
    <3>4. x.mq[Len(x.mq)] = st.mq[n]
      BY <3>2, <1>12
    <3> QED  BY <3>3, <3>4 DEF Target, n
  <2> QED  BY <2>1, <2>2
<1> QED  BY <1>11, <1>12, <1>15, <1>16, <1>17 DEF x

-----------------------------------------------------------------------------
(* Operations on a stepper that satisfies its invariant *)

\* The chain and the motion of a stepper depend on these fields only.
LEMMA SameFields ==
    ASSUME NEW st, NEW x, Motion(st), Chain(st),
           x.at = st.at, x.to = st.to, x.count = st.count, x.mq = st.mq,
           x.position = st.position, x.dir_pin = st.dir_pin,
           x.step_pin = st.step_pin, x.single = st.single,
           x.last_dir = st.last_dir
    PROVE  Motion(x) /\ Chain(x)
<1>1. Remaining(x) = Remaining(st)
  BY DEF Remaining
<1>2. Motion(x)
  BY <1>1 DEF Motion
<1>3. Chain(x)
  BY DEF Chain, Forward, StartOf
<1> QED  BY <1>2, <1>3

\* trsync_add_signal(), trsync_clear() and the removal of a signal.
LEMMA SignalKeepsInv ==
    ASSUME NEW st, StepperInv(st), NEW b \in BOOLEAN
    PROVE  LET x == [st EXCEPT !.signal = b]
           IN  StepperInv(x) /\ x.at = st.at /\ x.mq = st.mq
               /\ x.need_reset = st.need_reset /\ x.next_dir = st.next_dir
               /\ Target(x) = Target(st)
<1> DEFINE x == [st EXCEPT !.signal = b]
<1>1. /\ x \in StepperStates /\ x.at = st.at /\ x.to = st.to
      /\ x.count = st.count /\ x.mq = st.mq /\ x.position = st.position
      /\ x.dir_pin = st.dir_pin /\ x.step_pin = st.step_pin
      /\ x.single = st.single /\ x.last_dir = st.last_dir
      /\ x.need_reset = st.need_reset /\ x.next_dir = st.next_dir
      /\ x.timer = st.timer /\ x.halted = st.halted
  BY DEF StepperInv, StepperStates
<1> HIDE DEF x
<1>2. Motion(x) /\ Chain(x)
  BY <1>1, SameFields DEF StepperInv
<1>3. Rest(x) /\ Target(x) = Target(st)
  BY <1>1 DEF StepperInv, Rest, Target
<1> QED  BY <1>1, <1>2, <1>3 DEF StepperInv, x

\* command_set_next_step_dir()
LEMMA DirKeepsInv ==
    ASSUME NEW st, StepperInv(st), NEW b \in BOOLEAN
    PROVE  LET x == [st EXCEPT !.next_dir = b]
           IN  StepperInv(x) /\ x.at = st.at /\ x.mq = st.mq
<1> DEFINE x == [st EXCEPT !.next_dir = b]
<1>1. /\ x \in StepperStates /\ x.at = st.at /\ x.to = st.to
      /\ x.count = st.count /\ x.mq = st.mq /\ x.position = st.position
      /\ x.dir_pin = st.dir_pin /\ x.step_pin = st.step_pin
      /\ x.single = st.single /\ x.last_dir = st.last_dir
      /\ x.need_reset = st.need_reset
      /\ x.timer = st.timer /\ x.halted = st.halted
  BY DEF StepperInv, StepperStates
<1> HIDE DEF x
<1>2. Motion(x) /\ Chain(x)
  BY <1>1, SameFields DEF StepperInv
<1>3. Rest(x)
  BY <1>1 DEF StepperInv, Rest
<1> QED  BY <1>1, <1>2, <1>3 DEF StepperInv, x

\* command_reset_step_clock()
LEMMA ResetKeepsInv ==
    ASSUME NEW st, StepperInv(st), st.count = 0
    PROVE  LET x == [st EXCEPT !.need_reset = FALSE, !.halted = FALSE]
           IN  StepperInv(x) /\ x.at = st.at /\ x.mq = st.mq
<1> DEFINE x == [st EXCEPT !.need_reset = FALSE, !.halted = FALSE]
<1>1. /\ x \in StepperStates /\ x.at = st.at /\ x.to = st.to
      /\ x.count = st.count /\ x.mq = st.mq /\ x.position = st.position
      /\ x.dir_pin = st.dir_pin /\ x.step_pin = st.step_pin
      /\ x.single = st.single /\ x.last_dir = st.last_dir
      /\ x.timer = st.timer /\ x.need_reset = FALSE /\ x.halted = FALSE
  BY DEF StepperInv, StepperStates
<1> HIDE DEF x
<1>2. Motion(x) /\ Chain(x)
  BY <1>1, SameFields DEF StepperInv
<1>3. Rest(x)
  BY <1>1 DEF StepperInv, Rest
<1> QED  BY <1>1, <1>2, <1>3 DEF StepperInv, x

\* The second half of command_queue_step() while the stepper runs.
LEMMA QueueKeepsInv ==
    ASSUME NEW st, StepperInv(st), st.count # 0,
           NEW m \in QueuedMoves, m.to = SentTo(st, m.count),
           m.dir = (st.last_dir # st.next_dir), m.to \in -Travel..Travel
    PROVE  LET x == Pushed(st, m)
           IN  StepperInv(x) /\ x.at = st.at /\ x.mq = Append(st.mq, m)
<1> DEFINE x == Pushed(st, m)
<1>1. x \in StepperStates /\ Motion(x) /\ Chain(x)
  BY PushKeepsInv DEF StepperInv
<1>2. /\ x.at = st.at /\ x.count = st.count /\ x.timer = st.timer
      /\ x.need_reset = st.need_reset /\ x.halted = st.halted
      /\ x.mq = Append(st.mq, m)
  BY DEF Pushed, StepperInv, StepperStates
<1> HIDE DEF x
<1>3. Rest(x)
  BY <1>2 DEF StepperInv, Rest
<1> QED  BY <1>1, <1>2, <1>3 DEF StepperInv, x

\* The second half of command_queue_step() when the stepper is at rest.
Started(st, m) == [LoadNext(Pushed(st, m)) EXCEPT !.timer = TRUE]

\* A move queued to a resting stepper is loaded at once.
LEMMA StartKeepsInv ==
    ASSUME NEW st, StepperInv(st), st.count = 0, ~st.need_reset,
           NEW m \in QueuedMoves, m.to = SentTo(st, m.count),
           m.dir = (st.last_dir # st.next_dir), m.to \in -Travel..Travel
    PROVE  StepperInv(Started(st, m)) /\ Started(st, m).at = st.at
           /\ Started(st, m).mq = <<>>
<1> DEFINE y == Pushed(st, m)
           z == LoadNext(y)
           x == Started(st, m)
<1>1. y \in StepperStates /\ Motion(y) /\ Chain(y)
  BY PushKeepsInv DEF StepperInv
<1>2. /\ y.at = st.at /\ y.count = 0 /\ y.mq = <<m>>
      /\ y.need_reset = FALSE /\ y.halted = FALSE
  <2>1. st.mq = <<>> /\ st.halted = FALSE /\ st.need_reset = FALSE
    BY DEF StepperInv, Rest, StepperStates
  <2>2. Append(<<>>, m) = <<m>>
    OBVIOUS
  <2> QED  BY <2>1, <2>2 DEF Pushed, StepperInv, StepperStates
<1> HIDE DEF y
<1>3. y.mq # <<>> /\ Tail(y.mq) = <<>>
  BY <1>2
<1>4. /\ z \in StepperStates /\ Motion(z) /\ Chain(z)
      /\ z.mq = <<>> /\ z.count # 0 /\ z.at = st.at
      /\ z.need_reset = FALSE /\ z.halted = FALSE
  BY <1>1, <1>2, <1>3, LoadKeepsInv
<1> HIDE DEF z
<1>5. x = [z EXCEPT !.timer = TRUE]
  BY DEF Started, z, y
<1> HIDE DEF x
<1>6. /\ x \in StepperStates /\ x.at = z.at /\ x.to = z.to
      /\ x.count = z.count /\ x.mq = z.mq /\ x.position = z.position
      /\ x.dir_pin = z.dir_pin /\ x.step_pin = z.step_pin
      /\ x.single = z.single /\ x.last_dir = z.last_dir
      /\ x.timer = TRUE /\ x.need_reset = z.need_reset /\ x.halted = z.halted
  BY <1>4, <1>5 DEF StepperStates
<1>7. Motion(x) /\ Chain(x)
  BY <1>4, <1>6, SameFields
<1>8. Rest(x)
  BY <1>4, <1>6 DEF Rest
<1> QED  BY <1>4, <1>6, <1>7, <1>8 DEF StepperInv, x

\* A step event, with or without the next move being loaded.
LEMMA EventKeepsInv ==
    ASSUME NEW st, StepperInv(st), st.count # 0
    PROVE  LET t == Toggled(st)
               x == LoadNext(t)
           IN  /\ t \in StepperStates /\ Motion(t) /\ t.mq = st.mq
               /\ t.count # 0 => /\ StepperInv(t) /\ t.next_dir = st.next_dir
                                 /\ Target(t) = Target(st)
                                 /\ t.need_reset = st.need_reset
               /\ t.count = 0 => /\ StepperInv(x) /\ x.next_dir = st.next_dir
                                 /\ Target(x) = Target(st)
                                 /\ x.need_reset = st.need_reset
                                 /\ x.mq = IF st.mq = <<>> THEN <<>>
                                           ELSE Tail(st.mq)
<1> DEFINE t == Toggled(st)
           x == LoadNext(t)
<1>1. st \in StepperStates /\ Motion(st) /\ Chain(st) /\ Rest(st)
  BY DEF StepperInv
<1>2. /\ t \in StepperStates /\ Motion(t) /\ Chain(t)
      /\ t.mq = st.mq /\ t.single = st.single
      /\ t.need_reset = st.need_reset /\ t.halted = st.halted
      /\ t.timer = st.timer /\ t.count = st.count - 1
      /\ t.next_dir = st.next_dir /\ Target(t) = Target(st)
  BY <1>1, ToggleKeepsMotion
<1> HIDE DEF t
<1>3. st.timer = TRUE /\ st.need_reset = FALSE /\ st.halted = FALSE
  BY <1>1 DEF Rest, StepperStates
<1>4. ASSUME t.count # 0 PROVE StepperInv(t)
  BY <1>2, <1>3, <1>4 DEF StepperInv, Rest
<1>5. ASSUME t.count = 0, st.mq # <<>>
      PROVE  /\ StepperInv(x) /\ x.next_dir = st.next_dir
             /\ Target(x) = Target(st) /\ x.need_reset = st.need_reset
             /\ x.mq = Tail(st.mq)
  <2>1. /\ x \in StepperStates /\ Motion(x) /\ Chain(x)
        /\ x.mq = Tail(t.mq) /\ x.count # 0
        /\ x.need_reset = t.need_reset /\ x.halted = t.halted
        /\ x.timer = t.timer /\ x.next_dir = t.next_dir
        /\ Target(x) = Target(t)
    BY <1>2, <1>5, LoadKeepsInv
  <2> HIDE DEF x
  <2> QED  BY <2>1, <1>2, <1>3 DEF StepperInv, Rest
<1>6. ASSUME t.count = 0, st.mq = <<>>
      PROVE  /\ StepperInv(x) /\ x.next_dir = st.next_dir
             /\ Target(x) = Target(st) /\ x.need_reset = st.need_reset
             /\ x.mq = <<>>
  <2>1. x = [t EXCEPT !.count = 0, !.timer = FALSE]
    BY <1>2, <1>6 DEF LoadNext
  <2> HIDE DEF x
  <2>2. /\ x \in StepperStates /\ x.at = t.at /\ x.to = t.to
        /\ x.count = t.count /\ x.mq = t.mq /\ x.position = t.position
        /\ x.dir_pin = t.dir_pin /\ x.step_pin = t.step_pin
        /\ x.single = t.single /\ x.last_dir = t.last_dir
        /\ x.timer = FALSE /\ x.need_reset = t.need_reset
        /\ x.halted = t.halted /\ x.next_dir = t.next_dir
    BY <2>1, <1>2, <1>6 DEF StepperStates
  <2>3. Motion(x) /\ Chain(x)
    BY <2>2, <1>2, SameFields
  <2>4. Rest(x) /\ Target(x) = Target(t)
    BY <2>2, <1>2, <1>3, <1>6 DEF Rest, Target
  <2> QED  BY <2>2, <2>3, <2>4, <1>2, <1>6 DEF StepperInv
<1> QED  BY <1>2, <1>4, <1>5, <1>6 DEF t, x

-----------------------------------------------------------------------------
(* The invariant of the steppers and of the command at work *)

SteppersInv ==
    /\ stepper \in [Steppers -> StepperStates]
    /\ \A s \in Steppers : StepperInv(stepper[s])

\* At most one command holds a node; unless its stepper was stopped meanwhile,
\* its move stays within the travel.
CommandInv ==
    /\ cmd \subseteq [s : Steppers, node : Moves, count : Nat \ {0}]
    /\ \A c, d \in cmd : c = d
    /\ \A c \in cmd : \/ stepper[c.s].need_reset
                      \/ SentTo(stepper[c.s], c.count) \in -Travel..Travel

MotionInv == SteppersInv /\ CommandInv /\ is_shutdown \in BOOLEAN

\* An empty queue holds no node.
LEMMA NothingQueued ==
    ASSUME NEW st, NEW n, st.mq = <<>>
    PROVE  ~Queued(st, n)
<1>1. DOMAIN st.mq = {}
  OBVIOUS
<1> QED  BY <1>1 DEF Queued

\* move_queue_clear() changes the queue only.
LEMMA ClearKeepsMotion ==
    ASSUME NEW st \in StepperStates, Motion(st)
    PROVE  LET x == ClearQueue(st)
           IN  x \in StepperStates /\ Motion(x) /\ x.at = st.at /\ x.mq = <<>>
<1> DEFINE x == ClearQueue(st)
<1>1. <<>> \in Seq(QueuedMoves)
  OBVIOUS
<1>2. /\ x \in StepperStates /\ x.at = st.at /\ x.to = st.to
      /\ x.count = st.count /\ x.mq = <<>> /\ x.position = st.position
      /\ x.dir_pin = st.dir_pin /\ x.step_pin = st.step_pin
      /\ x.single = st.single
  BY <1>1 DEF ClearQueue, StepperStates
<1> HIDE DEF x
<1>3. Remaining(x) = Remaining(st)
  BY <1>2 DEF Remaining
<1>4. Motion(x)
  BY <1>2, <1>3 DEF Motion
<1> QED  BY <1>2, <1>4 DEF x

\* A shutdown, at whatever moment: every stepper is stopped where it is, and
\* every node is free, in whichever order the handlers ran.
LEMMA ShutdownStops ==
    ASSUME NEW sts \in [Steppers -> StepperStates],
           \A s \in Steppers : Motion(sts[s]),
           Shutdown(sts)
    PROVE  /\ MotionInv' /\ cmd' = {} /\ free' = AllFree
           /\ \A s \in Steppers : /\ stepper'[s].at = sts[s].at
                                  /\ stepper'[s].mq = <<>>
<1> DEFINE cleared == [s \in Steppers |-> ClearQueue(sts[s])]
<1>1. /\ is_shutdown' = TRUE /\ cmd' = {}
      /\ stepper' = [s \in Steppers |->
                       [Stop(cleared[s]) EXCEPT !.signal = FALSE]]
      /\ free' \in {AllFree, FreeQueues(AllFree, cleared, Steppers)}
  BY DEF Shutdown
<1>2. ASSUME NEW s \in Steppers
      PROVE  /\ cleared[s] \in StepperStates /\ Motion(cleared[s])
             /\ cleared[s].at = sts[s].at /\ cleared[s].mq = <<>>
  <2>1. sts[s] \in StepperStates /\ Motion(sts[s])
    OBVIOUS
  <2> QED  BY <2>1, ClearKeepsMotion
<1> HIDE DEF cleared
<1>3. ASSUME NEW s \in Steppers
      PROVE  /\ StepperInv(stepper'[s]) /\ stepper'[s].at = sts[s].at
             /\ stepper'[s].mq = <<>>
  <2> DEFINE x == Stop(cleared[s])
  <2>1. StepperInv(x) /\ x.at = sts[s].at
    BY <1>2, StopKeepsInv
  <2>2. x.mq = <<>>
    BY <1>2 DEF Stop, Halted, StepperStates
  <2>3. stepper'[s] = [x EXCEPT !.signal = FALSE]
    BY <1>1
  <2> HIDE DEF x
  <2> QED  BY <2>1, <2>2, <2>3, SignalKeepsInv
<1>4. stepper' \in [Steppers -> StepperStates]
  <2>1. \A s \in Steppers : stepper'[s] \in StepperStates
    BY <1>3 DEF StepperInv
  <2> QED  BY <1>1, <2>1
<1>5. free' = AllFree
  <2>1. ASSUME NEW n \in Moves
        PROVE  Cardinality({s \in Steppers : Queued(cleared[s], n)}) = 0
    <3>1. {s \in Steppers : Queued(cleared[s], n)} = {}
      BY <1>2, NothingQueued
    <3> QED  BY <3>1, FS_EmptySet
  <2>2. FreeQueues(AllFree, cleared, Steppers) = AllFree
    BY <2>1 DEF FreeQueues, AllFree
  <2> QED  BY <1>1, <2>2
<1>6. SteppersInv'
  BY <1>3, <1>4 DEF SteppersInv
<1>7. CommandInv'
  BY <1>1 DEF CommandInv
<1> QED  BY <1>1, <1>3, <1>5, <1>6, <1>7 DEF MotionInv

\* If only stepper s changes, in a way that keeps its invariant and does not
\* disturb the command at work, the invariant stays.
LEMMA OneStepper ==
    ASSUME MotionInv, NEW s \in Steppers, NEW x, StepperInv(x),
           stepper' = [stepper EXCEPT ![s] = x],
           cmd' \subseteq cmd, is_shutdown' = is_shutdown,
           \A c \in cmd' : c.s = s => \/ x.need_reset
                                     \/ SentTo(x, c.count) \in -Travel..Travel
    PROVE  MotionInv'
<1>1. x \in StepperStates
  BY DEF StepperInv
<1>2. /\ stepper' \in [Steppers -> StepperStates] /\ stepper'[s] = x
      /\ \A t \in Steppers : t # s => stepper'[t] = stepper[t]
  BY <1>1 DEF MotionInv, SteppersInv
<1>3. SteppersInv'
  BY <1>2 DEF MotionInv, SteppersInv
<1>4. ASSUME NEW c \in cmd'
      PROVE  \/ stepper'[c.s].need_reset
             \/ SentTo(stepper'[c.s], c.count) \in -Travel..Travel
  <2>1. c \in cmd /\ c.s \in Steppers
    BY DEF MotionInv, CommandInv
  <2>2. CASE c.s = s
    BY <1>2, <2>2
  <2>3. CASE c.s # s
    BY <1>2, <2>1, <2>3 DEF MotionInv, CommandInv
  <2> QED  BY <2>2, <2>3
<1>5. CommandInv'
  BY <1>4 DEF MotionInv, CommandInv
<1> QED  BY <1>3, <1>5 DEF MotionInv

\* The steppers before a shutdown satisfy what it needs.
LEMMA BeforeShutdown ==
    ASSUME MotionInv
    PROVE  /\ stepper \in [Steppers -> StepperStates]
           /\ \A s \in Steppers : Motion(stepper[s])
           /\ \A s \in Steppers, x \in StepperStates :
                Motion(x) =>
                  /\ [stepper EXCEPT ![s] = x] \in [Steppers -> StepperStates]
                  /\ \A t \in Steppers : Motion([stepper EXCEPT ![s] = x][t])
  BY DEF MotionInv, SteppersInv, StepperInv

-----------------------------------------------------------------------------
(* Every step keeps the invariant; a stopped axis stays where it is *)

StayPut == \A s \in Steppers : stepper[s].halted => stepper'[s].at = stepper[s].at

\* The move a command is about to queue.
MoveOf(c) ==
    LET st == stepper[c.s]
    IN  [node |-> c.node, count |-> c.count, dir |-> st.last_dir # st.next_dir,
         to |-> SentTo(st, c.count)]

\* The move of a command has the command's node and stays within the travel.
LEMMA MoveOfCommand ==
    ASSUME MotionInv, NEW c \in cmd, ~stepper[c.s].need_reset
    PROVE  LET st == stepper[c.s]
               m == MoveOf(c)
           IN  /\ c.s \in Steppers /\ c.node \in Moves /\ m.node = c.node
               /\ m \in QueuedMoves /\ m.to = SentTo(st, m.count)
               /\ m.dir = (st.last_dir # st.next_dir)
               /\ m.to \in -Travel..Travel
<1> DEFINE st == stepper[c.s]
           m == MoveOf(c)
<1>1. c.s \in Steppers /\ c.node \in Moves /\ c.count \in Nat \ {0}
  BY DEF MotionInv, CommandInv
<1>2. SentTo(st, c.count) \in -Travel..Travel
  BY DEF MotionInv, CommandInv
<1>3. SentTo(st, c.count) \in Int
  BY <1>2, StepperAssumption
<1>4. (st.last_dir # st.next_dir) \in BOOLEAN
  OBVIOUS
<1>5. m \in QueuedMoves
  BY <1>1, <1>3, <1>4 DEF MoveOf, QueuedMoves
<1> QED  BY <1>1, <1>2, <1>5 DEF MoveOf

\* Taking a node leaves the steppers alone.
LEMMA MoveAllocStep ==
    ASSUME MotionInv, NEW s \in Steppers, NEW count \in Counts,
           MoveAlloc(s, count)
    PROVE  MotionInv' /\ StayPut
<1>1. CASE Shutdown(stepper)
  BY <1>1, BeforeShutdown, ShutdownStops DEF StayPut
<1>2. CASE ~Shutdown(stepper)
  <2>1. PICK n \in Moves : /\ count # 0
                           /\ cmd' = {[s |-> s, node |-> n, count |-> count]}
                           /\ UNCHANGED <<stepper, is_shutdown>>
    BY <1>2 DEF MoveAlloc
  <2>2. SentTo(stepper[s], count) \in -Travel..Travel
    BY DEF MoveAlloc
  <2>3. count \in Nat \ {0}
    BY <2>1, StepperAssumption
  <2>4. CommandInv'
    <3>1. \A c \in cmd' : c.s = s /\ c.count = count
      BY <2>1
    <3>2. cmd' \subseteq [s : Steppers, node : Moves, count : Nat \ {0}]
      BY <2>1, <2>3
    <3>3. \A c, d \in cmd' : c = d
      BY <2>1
    <3> QED  BY <2>1, <2>2, <3>1, <3>2, <3>3 DEF CommandInv
  <2> QED  BY <2>1, <2>4 DEF MotionInv, SteppersInv, StayPut
<1> QED  BY <1>1, <1>2

\* The rest of queue_step pushes, drops or starts the move, or shuts down.
LEMMA QueueStepStep ==
    ASSUME MotionInv, QueueStep
    PROVE  MotionInv' /\ StayPut
<1>1. PICK c \in cmd :
        LET st == stepper[c.s]
            m == MoveOf(c)
        IN  \/ /\ st.count # 0
               /\ stepper' = [stepper EXCEPT ![c.s] = Pushed(st, m)]
               /\ cmd' = {}
               /\ UNCHANGED <<free, is_shutdown>>
            \/ /\ st.count = 0 /\ st.need_reset
               /\ cmd' = {}
               /\ UNCHANGED <<stepper, is_shutdown>>
            \/ /\ st.count = 0 /\ ~st.need_reset
               /\ \/ /\ stepper' = [stepper EXCEPT ![c.s] = Started(st, m)]
                     /\ cmd' = {}
                     /\ UNCHANGED is_shutdown
                  \/ Shutdown([stepper EXCEPT ![c.s] = Started(st, m)])
  BY DEF QueueStep, MoveOf, Pushed, Started
<1> DEFINE st == stepper[c.s]
           m == MoveOf(c)
<1>2. c.s \in Steppers /\ StepperInv(st)
  BY DEF MotionInv, CommandInv, SteppersInv
<1>3. CASE st.count # 0 /\ stepper' = [stepper EXCEPT ![c.s] = Pushed(st, m)]
           /\ cmd' = {} /\ UNCHANGED is_shutdown
  <2>1. ~st.need_reset
    BY <1>2, <1>3 DEF StepperInv, Rest
  <2>2. StepperInv(Pushed(st, m)) /\ Pushed(st, m).at = st.at
    BY <1>2, <1>3, <2>1, MoveOfCommand, QueueKeepsInv
  <2> HIDE DEF st, m
  <2>3. MotionInv'
    BY <1>2, <1>3, <2>2, OneStepper
  <2>4. StayPut
    BY <1>3, <2>2 DEF StayPut, MotionInv, SteppersInv, st
  <2> QED  BY <2>3, <2>4
<1>4. CASE cmd' = {} /\ UNCHANGED <<stepper, is_shutdown>>
  BY <1>4 DEF MotionInv, SteppersInv, CommandInv, StayPut
<1>5. ASSUME st.count = 0, ~st.need_reset
      PROVE  StepperInv(Started(st, m)) /\ Started(st, m).at = st.at
  BY <1>2, <1>5, MoveOfCommand, StartKeepsInv
<1>6. CASE /\ st.count = 0 /\ ~st.need_reset
           /\ stepper' = [stepper EXCEPT ![c.s] = Started(st, m)]
           /\ cmd' = {} /\ UNCHANGED is_shutdown
  <2>1. StepperInv(Started(st, m)) /\ Started(st, m).at = st.at
    BY <1>5, <1>6
  <2> HIDE DEF st, m
  <2>3. MotionInv'
    BY <1>2, <1>6, <2>1, OneStepper
  <2>4. StayPut
    BY <1>6, <2>1 DEF StayPut, MotionInv, SteppersInv, st
  <2> QED  BY <2>3, <2>4
<1>7. CASE /\ st.count = 0 /\ ~st.need_reset
           /\ Shutdown([stepper EXCEPT ![c.s] = Started(st, m)])
  <2> DEFINE sts == [stepper EXCEPT ![c.s] = Started(st, m)]
  <2>1. StepperInv(Started(st, m)) /\ Started(st, m).at = st.at
    BY <1>5, <1>7
  <2>2. /\ sts \in [Steppers -> StepperStates]
        /\ \A t \in Steppers : Motion(sts[t])
    BY <1>2, <2>1, BeforeShutdown DEF StepperInv
  <2>3. \A t \in Steppers : sts[t].at = stepper[t].at
    BY <2>1 DEF MotionInv, SteppersInv
  <2>4. Shutdown(sts)
    BY <1>7
  <2> HIDE DEF sts
  <2> QED  BY <2>2, <2>3, <2>4, ShutdownStops DEF StayPut
<1> QED  BY <1>1, <1>3, <1>4, <1>6, <1>7, SMTT(30)

\* The other commands touch flags only, or shut down.
LEMMA CommandStep ==
    ASSUME MotionInv, NEW s \in Steppers,
           \/ \E dir \in BOOLEAN : SetNextStepDir(s, dir)
           \/ ResetStepClock(s) \/ StopOnTrigger(s)
    PROVE  MotionInv' /\ StayPut
<1>1. StepperInv(stepper[s]) /\ stepper \in [Steppers -> StepperStates]
  BY DEF MotionInv, SteppersInv
<1>2. CASE Shutdown(stepper)
  BY <1>2, BeforeShutdown, ShutdownStops DEF StayPut
<1>3. ASSUME NEW x, StepperInv(x), x.at = stepper[s].at,
             stepper' = [stepper EXCEPT ![s] = x], cmd = {},
             UNCHANGED <<cmd, is_shutdown>>
      PROVE  MotionInv' /\ StayPut
  <2>1. MotionInv'
    BY <1>3, OneStepper
  <2> QED  BY <1>1, <1>3, <2>1 DEF StayPut
<1>4. CASE \E dir \in BOOLEAN : SetNextStepDir(s, dir)
  <2>1. PICK dir \in BOOLEAN :
          /\ stepper' = [stepper EXCEPT ![s] = [stepper[s] EXCEPT !.next_dir = dir]]
          /\ cmd = {} /\ UNCHANGED <<cmd, is_shutdown>>
    BY <1>4 DEF SetNextStepDir
  <2> QED  BY <2>1, <1>1, <1>3, DirKeepsInv
<1>5. CASE ResetStepClock(s) /\ ~Shutdown(stepper)
  <2>1. /\ stepper[s].count = 0
        /\ stepper' = [stepper EXCEPT ![s] =
                         [stepper[s] EXCEPT !.need_reset = FALSE, !.halted = FALSE]]
        /\ cmd = {} /\ UNCHANGED <<cmd, is_shutdown>>
    BY <1>1, <1>5 DEF ResetStepClock
  <2> QED  BY <2>1, <1>1, <1>3, ResetKeepsInv
<1>6. CASE StopOnTrigger(s) /\ ~Shutdown(stepper)
  <2>1. /\ stepper' = [stepper EXCEPT ![s] = [stepper[s] EXCEPT !.signal = TRUE]]
        /\ cmd = {} /\ UNCHANGED <<cmd, is_shutdown>>
    BY <1>6 DEF StopOnTrigger
  <2> QED  BY <2>1, <1>1, <1>3, SignalKeepsInv
<1> QED  BY <1>2, <1>4, <1>5, <1>6

\* A step event steps, loads the next move, or shuts down.
LEMMA StepEventStep ==
    ASSUME MotionInv, NEW s \in Steppers, StepEvent(s)
    PROVE  MotionInv' /\ StayPut
<1> DEFINE st == stepper[s]
           t == Toggled(st)
           x == LoadNext(t)
<1>1. StepperInv(st) /\ stepper \in [Steppers -> StepperStates]
  BY DEF MotionInv, SteppersInv
<1>2. st.count # 0 /\ ~st.halted
  BY <1>1 DEF StepEvent, StepperInv, Rest
<1>3. /\ t \in StepperStates /\ Motion(t)
      /\ t.count # 0 => /\ StepperInv(t) /\ t.next_dir = st.next_dir
                        /\ Target(t) = Target(st)
                        /\ t.need_reset = st.need_reset
      /\ t.count = 0 => /\ StepperInv(x) /\ x.next_dir = st.next_dir
                        /\ Target(x) = Target(st)
                        /\ x.need_reset = st.need_reset
  BY <1>1, <1>2, EventKeepsInv
<1>4. \/ /\ t.count # 0 /\ stepper' = [stepper EXCEPT ![s] = t]
         /\ UNCHANGED <<cmd, is_shutdown>>
      \/ /\ t.count = 0 /\ stepper' = [stepper EXCEPT ![s] = x]
         /\ UNCHANGED <<cmd, is_shutdown>>
      \/ t.count = 0 /\ Shutdown([stepper EXCEPT ![s] = x])
  BY DEF StepEvent
<1>5. ASSUME NEW y, StepperInv(y), y.next_dir = st.next_dir,
             Target(y) = Target(st), y.need_reset = st.need_reset,
             stepper' = [stepper EXCEPT ![s] = y],
             UNCHANGED <<cmd, is_shutdown>>
      PROVE  MotionInv' /\ StayPut
  <2>1. \A count : SentTo(y, count) = SentTo(st, count)
    BY <1>5 DEF SentTo
  <2>2. MotionInv'
    <3>1. \A c \in cmd' : c.s = s => \/ y.need_reset
                                    \/ SentTo(y, c.count) \in -Travel..Travel
      BY <1>5, <2>1 DEF MotionInv, CommandInv
    <3> QED  BY <1>5, <3>1, OneStepper
  <2> QED  BY <1>1, <1>2, <1>5, <2>2 DEF StayPut
<1> HIDE DEF t, x
<1>6. CASE /\ t.count # 0 /\ stepper' = [stepper EXCEPT ![s] = t]
           /\ UNCHANGED <<cmd, is_shutdown>>
  BY <1>3, <1>5, <1>6
<1>7. CASE /\ t.count = 0 /\ stepper' = [stepper EXCEPT ![s] = x]
           /\ UNCHANGED <<cmd, is_shutdown>>
  BY <1>3, <1>5, <1>7
<1>8. CASE t.count = 0 /\ Shutdown([stepper EXCEPT ![s] = x])
  <2> DEFINE sts == [stepper EXCEPT ![s] = x]
  <2>1. x \in StepperStates /\ Motion(x)
    BY <1>3, <1>8 DEF StepperInv
  <2>2. /\ sts \in [Steppers -> StepperStates]
        /\ \A u \in Steppers : Motion(sts[u])
    BY <2>1, BeforeShutdown
  <2>3. \A u \in Steppers : u # s => sts[u].at = stepper[u].at
    BY <1>1
  <2>4. Shutdown(sts)
    BY <1>8
  <2> HIDE DEF sts
  <2> QED  BY <2>2, <2>3, <2>4, <1>2, ShutdownStops DEF StayPut
<1> QED  BY <1>4, <1>6, <1>7, <1>8

\* A trigger, and clearing the signals.
LEMMA SignalStep ==
    ASSUME MotionInv, TrsyncStart \/ Trigger
    PROVE  MotionInv' /\ StayPut
<1>1. /\ stepper \in [Steppers -> StepperStates]
      /\ \A s \in Steppers : StepperInv(stepper[s])
  BY DEF MotionInv, SteppersInv
<1>2. CASE TrsyncStart
  <2>1. /\ stepper' = [s \in Steppers |-> [stepper[s] EXCEPT !.signal = FALSE]]
        /\ cmd = {} /\ UNCHANGED <<cmd, is_shutdown>>
    BY <1>2 DEF TrsyncStart
  <2>2. \A s \in Steppers : StepperInv(stepper'[s]) /\ stepper'[s].at = stepper[s].at
    BY <1>1, <2>1, SignalKeepsInv
  <2>3. stepper' \in [Steppers -> StepperStates]
    BY <2>1, <2>2 DEF StepperInv
  <2> QED  BY <2>1, <2>2, <2>3 DEF MotionInv, SteppersInv, CommandInv, StayPut
<1>3. CASE Trigger
  <2>1. /\ stepper' = [s \in Steppers |->
                         IF s \in {u \in Steppers : stepper[u].signal}
                         THEN [Stop(stepper[s]) EXCEPT !.signal = FALSE]
                         ELSE stepper[s]]
        /\ UNCHANGED <<cmd, is_shutdown>>
    BY <1>3 DEF Trigger
  <2>2. ASSUME NEW s \in Steppers
        PROVE  /\ StepperInv(stepper'[s]) /\ stepper'[s].at = stepper[s].at
               /\ stepper'[s] = stepper[s] \/ stepper'[s].need_reset
    <3> DEFINE y == Stop(stepper[s])
    <3>1. StepperInv(y) /\ y.at = stepper[s].at
      BY <1>1, StopKeepsInv DEF StepperInv
    <3>2. y.need_reset
      BY <1>1 DEF Stop, Halted, StepperStates
    <3> HIDE DEF y
    <3>3. LET z == [y EXCEPT !.signal = FALSE]
          IN  StepperInv(z) /\ z.at = y.at /\ z.need_reset = y.need_reset
      BY <3>1, SignalKeepsInv
    <3>4. stepper'[s] = [y EXCEPT !.signal = FALSE] \/ stepper'[s] = stepper[s]
      BY <2>1 DEF y
    <3> QED  BY <1>1, <3>1, <3>2, <3>3, <3>4
  <2>3. stepper' \in [Steppers -> StepperStates]
    BY <2>1, <2>2 DEF StepperInv
  <2>4. CommandInv'
    BY <2>1, <2>2 DEF MotionInv, CommandInv
  <2> QED  BY <2>1, <2>2, <2>3, <2>4 DEF MotionInv, SteppersInv, StayPut
<1> QED  BY <1>2, <1>3

\* Every step keeps the invariant and leaves halted motors where they are.
LEMMA MotionStep ==
    ASSUME MotionInv, [Next]_vars
    PROVE  MotionInv' /\ [StayPut]_vars
<1>1. ASSUME NEW s \in Steppers, NEW count \in Counts, MoveAlloc(s, count)
      PROVE  MotionInv' /\ StayPut
  BY <1>1, MoveAllocStep
<1>2. CASE QueueStep
  BY <1>2, QueueStepStep
<1>3. ASSUME NEW s \in Steppers,
             \/ \E dir \in BOOLEAN : SetNextStepDir(s, dir)
             \/ ResetStepClock(s) \/ StopOnTrigger(s)
      PROVE  MotionInv' /\ StayPut
  BY <1>3, CommandStep
<1>4. ASSUME NEW s \in Steppers, StepEvent(s)
      PROVE  MotionInv' /\ StayPut
  BY <1>4, StepEventStep
<1>5. CASE TrsyncStart \/ Trigger
  BY <1>5, SignalStep
<1>6. CASE EmergencyStop
  BY <1>6, BeforeShutdown, ShutdownStops DEF EmergencyStop, StayPut
<1>7. CASE ClearShutdown
  <2>1. CASE Shutdown(stepper)
    BY <2>1, BeforeShutdown, ShutdownStops DEF StayPut
  <2>2. CASE ~Shutdown(stepper)
    <3>1. UNCHANGED <<stepper, cmd>> /\ is_shutdown' = FALSE
      BY <1>7, <2>2 DEF ClearShutdown
    <3> QED  BY <3>1 DEF MotionInv, SteppersInv, CommandInv, StayPut
  <2> QED  BY <2>1, <2>2
<1>8. CASE UNCHANGED vars
  BY <1>8 DEF vars, MotionInv, SteppersInv, CommandInv
<1> QED  BY <1>1, <1>2, <1>3, <1>4, <1>5, <1>6, <1>7, <1>8 DEF Next

\* A configured stepper that has not moved.
LEMMA MotionInit == Init => MotionInv
<1> SUFFICES ASSUME Init PROVE MotionInv
  OBVIOUS
<1> USE StepperAssumption
<1> DEFINE x(s) ==
         [count |-> 0, position |-> Wrap(-Bias), mq |-> <<>>,
          last_dir |-> FALSE, next_dir |-> FALSE, need_reset |-> FALSE,
          timer |-> FALSE, signal |-> FALSE, dir_pin |-> FALSE,
          step_pin |-> FALSE, at |-> 0, to |-> 0, halted |-> FALSE,
          single |-> s \in SingleSched]
<1>1. stepper = [s \in Steppers |-> x(s)] /\ cmd = {} /\ is_shutdown = FALSE
  BY DEF Init
<1>2. Wrap(-Bias) = 3 * Bias
  BY WrapNegative
<1>3. ASSUME NEW s \in Steppers PROVE StepperInv(x(s))
  <2>1. <<>> \in Seq(QueuedMoves) /\ 3 * Bias \in 0..(4 * Bias - 1)
    OBVIOUS
  <2>2. (s \in SingleSched) \in BOOLEAN
    OBVIOUS
  <2>3. x(s) \in StepperStates
    BY <1>2, <2>1, <2>2 DEF StepperStates
  <2>4. Remaining(x(s)) = 0
    BY Halves DEF Remaining
  <2>5. Motion(x(s))
    BY <1>2, <2>4 DEF Motion
  <2>6. Chain(x(s))
    BY EmptyChain
  <2>7. Rest(x(s))
    BY DEF Rest
  <2> QED  BY <2>3, <2>5, <2>6, <2>7 DEF StepperInv
<1> HIDE DEF x
<1>4. SteppersInv
  BY <1>1, <1>3 DEF SteppersInv, StepperInv
<1> QED  BY <1>1, <1>4 DEF MotionInv, CommandInv

\* The invariant holds throughout.
LEMMA MotionAlways == Spec => []MotionInv
  BY MotionInit, MotionStep, PTL DEF Spec

\* What stepper_get_position() reports is where the motor is, at any moment and
\* for any travel below POSITION_BIAS.
THEOREM Position == Spec => []PositionIsReal
<1>1. MotionInv => PositionIsReal
  <2> SUFFICES ASSUME MotionInv, NEW s \in Steppers
               PROVE  GetPosition(stepper[s]) - Bias = stepper[s].at
    BY DEF PositionIsReal
  <2>1. stepper[s] \in StepperStates /\ Motion(stepper[s])
    BY DEF MotionInv, SteppersInv, StepperInv
  <2>2. GetPosition(stepper[s]) = Bias + stepper[s].at
    BY <2>1, PositionOfMotion
  <2>3. stepper[s].at \in Int /\ Bias \in Int
    BY <2>1, StepperAssumption DEF StepperStates
  <2> QED  BY <2>2, <2>3
<1> QED  BY <1>1, MotionAlways, PTL

\* Axes go where queue_step and set_next_step_dir sent them, through any number
\* of turns, stops and dropped moves.
THEOREM Arrival == Spec => []ArrivesWhereSent
<1>1. MotionInv => ArrivesWhereSent
  BY DEF MotionInv, SteppersInv, StepperInv, Motion, ArrivesWhereSent
<1> QED  BY <1>1, MotionAlways, PTL

\* A stopped stepper does not move before command_reset_step_clock().
THEOREM Halt == Spec => HaltedUntilReset
<1>1. MotionInv /\ [Next]_vars => [StayPut]_vars
  BY MotionStep
<1>2. StayPut => \A s \in Steppers : stepper[s].halted
                                    => stepper'[s].at = stepper[s].at
  BY DEF StayPut
<1> QED  BY <1>1, <1>2, MotionAlways, PTL DEF Spec, HaltedUntilReset

-----------------------------------------------------------------------------
(* The pool of nodes *)

SameQueue(s) == stepper'[s].mq = stepper[s].mq
SameQueues == \A s \in Steppers : SameQueue(s)

\* What a step may do with the nodes: nothing, ...
Keep == SameQueues /\ UNCHANGED <<free, cmd>>

\* ... free all of them in a shutdown, ...
FreeAll == /\ cmd' = {} /\ free' = AllFree
           /\ \A s \in Steppers : stepper'[s].mq = <<>>

\* ... hand one to a command, ...
Alloc(n) == /\ cmd = {} /\ free[n] > 0
            /\ free' = [free EXCEPT ![n] = @ - 1]
            /\ \E c : cmd' = {c} /\ c.node = n
            /\ SameQueues

\* ... from the command to a queue, ...
Push(c, m) == /\ m.node = c.node /\ cmd' = {} /\ UNCHANGED free
              /\ stepper'[c.s].mq = Append(stepper[c.s].mq, m)
              /\ \A s \in Steppers : s # c.s => SameQueue(s)

\* ... or back to the pool, ...
Release(c) == /\ cmd' = {} /\ free' = [free EXCEPT ![c.node] = @ + 1]
              /\ SameQueues

\* ... from a queue to the pool as its move is loaded, ...
Load(s) == /\ stepper[s].mq # <<>>
           /\ stepper'[s].mq = Tail(stepper[s].mq)
           /\ \A t \in Steppers : t # s => SameQueue(t)
           /\ free' = [free EXCEPT ![Head(stepper[s].mq).node] = @ + 1]
           /\ UNCHANGED cmd

\* ... or from the queues of all steppers that are stopped.
StopAll(S) == /\ \A s \in S : stepper'[s].mq = <<>>
              /\ \A s \in Steppers \ S : SameQueue(s)
              /\ free' = FreeQueues(free, stepper, S)
              /\ UNCHANGED cmd

PoolEffect ==
    \/ Keep \/ FreeAll
    \/ \E n \in Moves : Alloc(n)
    \/ \E c \in cmd, m \in QueuedMoves : Push(c, m)
    \/ \E c \in cmd : Release(c)
    \/ \E s \in Steppers : Load(s)
    \/ \E S \in SUBSET Steppers : StopAll(S)

\* A shutdown empties all queues and fills the pool.
LEMMA ShutdownEffect ==
    ASSUME NEW sts \in [Steppers -> StepperStates],
           \A s \in Steppers : Motion(sts[s]), Shutdown(sts)
    PROVE  FreeAll
  BY ShutdownStops DEF FreeAll

\* What the rest of queue_step does with the node of its command.
LEMMA QueueStepEffect ==
    ASSUME MotionInv, QueueStep
    PROVE  PoolEffect
<1>1. PICK c \in cmd :
        LET st == stepper[c.s]
            m == MoveOf(c)
        IN  \/ /\ st.count # 0
               /\ stepper' = [stepper EXCEPT ![c.s] = Pushed(st, m)]
               /\ cmd' = {}
               /\ UNCHANGED <<free, is_shutdown>>
            \/ /\ st.count = 0 /\ st.need_reset
               /\ free' = [free EXCEPT ![c.node] = @ + 1]
               /\ cmd' = {}
               /\ UNCHANGED <<stepper, is_shutdown>>
            \/ /\ st.count = 0 /\ ~st.need_reset
               /\ \/ /\ stepper' = [stepper EXCEPT ![c.s] = Started(st, m)]
                     /\ free' = [free EXCEPT ![c.node] = @ + 1]
                     /\ cmd' = {}
                     /\ UNCHANGED is_shutdown
                  \/ Shutdown([stepper EXCEPT ![c.s] = Started(st, m)])
  BY DEF QueueStep, MoveOf, Pushed, Started
<1> DEFINE st == stepper[c.s]
           m == MoveOf(c)
<1>2. /\ c.s \in Steppers /\ StepperInv(st)
      /\ stepper \in [Steppers -> StepperStates]
  BY DEF MotionInv, CommandInv, SteppersInv
<1>3. CASE st.count # 0 /\ stepper' = [stepper EXCEPT ![c.s] = Pushed(st, m)]
           /\ cmd' = {} /\ UNCHANGED free
  <2>1. ~st.need_reset
    BY <1>2, <1>3 DEF StepperInv, Rest
  <2>2. m \in QueuedMoves /\ m.node = c.node
    BY <2>1, MoveOfCommand
  <2>3. Pushed(st, m).mq = Append(st.mq, m)
    BY <1>2, <1>3, <2>1, MoveOfCommand, QueueKeepsInv
  <2> HIDE DEF m
  <2>4. Push(c, m)
    BY <1>2, <1>3, <2>2, <2>3 DEF Push, SameQueue
  <2> QED  BY <2>2, <2>4 DEF PoolEffect
<1>4. CASE /\ free' = [free EXCEPT ![c.node] = @ + 1]
           /\ cmd' = {} /\ UNCHANGED stepper
  BY <1>4 DEF PoolEffect, Release, SameQueues, SameQueue
<1>5. ASSUME st.count = 0, ~st.need_reset
      PROVE  StepperInv(Started(st, m)) /\ Started(st, m).mq = <<>>
  BY <1>2, <1>5, MoveOfCommand, StartKeepsInv
<1>6. CASE /\ st.count = 0 /\ ~st.need_reset
           /\ stepper' = [stepper EXCEPT ![c.s] = Started(st, m)]
           /\ free' = [free EXCEPT ![c.node] = @ + 1]
           /\ cmd' = {}
  <2>1. st.mq = <<>>
    BY <1>2, <1>6 DEF StepperInv, Rest
  <2>2. Started(st, m).mq = <<>>
    BY <1>5, <1>6
  <2> HIDE DEF m
  <2>3. SameQueues
    BY <1>2, <1>6, <2>1, <2>2 DEF SameQueues, SameQueue
  <2> QED  BY <1>6, <2>3 DEF PoolEffect, Release
<1>7. CASE /\ st.count = 0 /\ ~st.need_reset
           /\ Shutdown([stepper EXCEPT ![c.s] = Started(st, m)])
  <2>1. StepperInv(Started(st, m))
    BY <1>5, <1>7
  <2> DEFINE sts == [stepper EXCEPT ![c.s] = Started(st, m)]
  <2>2. /\ sts \in [Steppers -> StepperStates]
        /\ \A t \in Steppers : Motion(sts[t])
    BY <1>2, <2>1, BeforeShutdown DEF StepperInv
  <2>3. Shutdown(sts)
    BY <1>7
  <2> HIDE DEF sts
  <2> QED  BY <2>2, <2>3, ShutdownEffect DEF PoolEffect
<1> QED  BY <1>1, <1>3, <1>4, <1>6, <1>7, SMTT(30)

\* What a step event does with the node of the move it loads.
LEMMA StepEventEffect ==
    ASSUME MotionInv, free \in [Moves -> Nat], NEW s \in Steppers, StepEvent(s)
    PROVE  PoolEffect
<1> DEFINE st == stepper[s]
           t == Toggled(st)
           x == LoadNext(t)
           pool == [n \in Moves |-> IF t.mq # <<>> /\ Head(t.mq).node = n
                                    THEN free[n] + 1 ELSE free[n]]
<1>1. StepperInv(st) /\ stepper \in [Steppers -> StepperStates]
  BY DEF MotionInv, SteppersInv
<1>2. st.count # 0
  BY <1>1 DEF StepEvent, StepperInv, Rest
<1>3. /\ t.mq = st.mq
      /\ t.count = 0 => /\ StepperInv(x)
                        /\ x.mq = IF st.mq = <<>> THEN <<>> ELSE Tail(st.mq)
  BY <1>1, <1>2, EventKeepsInv
<1>4. \/ /\ t.count # 0 /\ stepper' = [stepper EXCEPT ![s] = t]
         /\ UNCHANGED <<free, cmd>>
      \/ /\ t.count = 0 /\ stepper' = [stepper EXCEPT ![s] = x]
         /\ free' = pool /\ UNCHANGED cmd
      \/ t.count = 0 /\ Shutdown([stepper EXCEPT ![s] = x])
  BY DEF StepEvent
<1> HIDE DEF t, x
<1>5. CASE /\ t.count # 0 /\ stepper' = [stepper EXCEPT ![s] = t]
           /\ UNCHANGED <<free, cmd>>
  BY <1>1, <1>3, <1>5 DEF PoolEffect, Keep, SameQueues, SameQueue
<1>6. CASE /\ t.count = 0 /\ stepper' = [stepper EXCEPT ![s] = x]
           /\ free' = pool /\ UNCHANGED cmd
  <2>1. CASE st.mq = <<>>
    <3>1. free' = free
      BY <1>3, <1>6, <2>1
    <3>2. SameQueues
      BY <1>1, <1>3, <1>6, <2>1 DEF SameQueues, SameQueue
    <3> QED  BY <1>6, <3>1, <3>2 DEF PoolEffect, Keep
  <2>2. CASE st.mq # <<>>
    <3>1. free' = [free EXCEPT ![Head(st.mq).node] = @ + 1]
      BY <1>3, <1>6, <2>2
    <3>2. stepper'[s].mq = Tail(st.mq) /\ \A u \in Steppers : u # s => SameQueue(u)
      BY <1>1, <1>3, <1>6, <2>2 DEF SameQueue
    <3>3. Load(s)
      BY <1>6, <2>2, <3>1, <3>2 DEF Load
    <3> QED  BY <3>3 DEF PoolEffect
  <2> QED  BY <2>1, <2>2
<1>7. CASE t.count = 0 /\ Shutdown([stepper EXCEPT ![s] = x])
  <2> DEFINE sts == [stepper EXCEPT ![s] = x]
  <2>1. x \in StepperStates /\ Motion(x)
    BY <1>3, <1>7 DEF StepperInv
  <2>2. /\ sts \in [Steppers -> StepperStates]
        /\ \A u \in Steppers : Motion(sts[u])
    BY <2>1, BeforeShutdown
  <2>3. Shutdown(sts)
    BY <1>7
  <2> HIDE DEF sts
  <2> QED  BY <2>2, <2>3, ShutdownEffect DEF PoolEffect
<1> QED  BY <1>4, <1>5, <1>6, <1>7

\* Every step does one of these with the nodes.
LEMMA StepEffect ==
    ASSUME MotionInv, free \in [Moves -> Nat], [Next]_vars
    PROVE  PoolEffect
<1>1. /\ stepper \in [Steppers -> StepperStates]
      /\ \A s \in Steppers : StepperInv(stepper[s])
  BY DEF MotionInv, SteppersInv
<1>2. CASE Shutdown(stepper)
  BY <1>2, BeforeShutdown, ShutdownEffect DEF PoolEffect
<1>3. ASSUME NEW s \in Steppers, NEW count \in Counts, MoveAlloc(s, count),
             ~Shutdown(stepper)
      PROVE  PoolEffect
  <2>1. PICK n \in Moves : /\ free[n] > 0 /\ cmd = {}
                           /\ free' = [free EXCEPT ![n] = @ - 1]
                           /\ cmd' = {[s |-> s, node |-> n, count |-> count]}
                           /\ UNCHANGED stepper
    BY <1>3 DEF MoveAlloc
  <2>2. Alloc(n)
    <3>1. [s |-> s, node |-> n, count |-> count].node = n
      OBVIOUS
    <3> QED  BY <2>1, <3>1 DEF Alloc, SameQueues, SameQueue
  <2> QED  BY <2>2 DEF PoolEffect
<1>4. CASE QueueStep
  BY <1>4, QueueStepEffect
<1>5. ASSUME NEW s \in Steppers,
             \/ \E dir \in BOOLEAN : SetNextStepDir(s, dir)
             \/ ResetStepClock(s) \/ StopOnTrigger(s),
             ~Shutdown(stepper)
      PROVE  PoolEffect
  <2>1. UNCHANGED <<free, cmd>>
    BY <1>5 DEF SetNextStepDir, ResetStepClock, StopOnTrigger
  <2>2. \E x \in StepperStates : x.mq = stepper[s].mq
                                 /\ stepper' = [stepper EXCEPT ![s] = x]
    <3>1. CASE \E dir \in BOOLEAN : SetNextStepDir(s, dir)
      <4>1. PICK dir \in BOOLEAN :
              stepper' = [stepper EXCEPT ![s] = [stepper[s] EXCEPT !.next_dir = dir]]
        BY <3>1 DEF SetNextStepDir
      <4> QED  BY <4>1, <1>1, DirKeepsInv DEF StepperInv
    <3>2. CASE ResetStepClock(s)
      <4>1. /\ stepper[s].count = 0
            /\ stepper' = [stepper EXCEPT ![s] = [stepper[s] EXCEPT
                             !.need_reset = FALSE, !.halted = FALSE]]
        BY <1>1, <1>5, <3>2 DEF ResetStepClock
      <4> QED  BY <4>1, <1>1, ResetKeepsInv DEF StepperInv
    <3>3. CASE StopOnTrigger(s)
      <4>1. stepper' = [stepper EXCEPT ![s] = [stepper[s] EXCEPT !.signal = TRUE]]
        BY <1>5, <3>3 DEF StopOnTrigger
      <4> QED  BY <4>1, <1>1, SignalKeepsInv DEF StepperInv
    <3> QED  BY <1>5, <3>1, <3>2, <3>3
  <2>3. SameQueues
    BY <1>1, <2>2 DEF SameQueues, SameQueue
  <2> QED  BY <2>1, <2>3 DEF PoolEffect, Keep
<1>6. ASSUME NEW s \in Steppers, StepEvent(s)
      PROVE  PoolEffect
  BY <1>6, StepEventEffect
<1>7. CASE TrsyncStart
  <2>1. \A s \in Steppers : stepper'[s] = [stepper[s] EXCEPT !.signal = FALSE]
    BY <1>7 DEF TrsyncStart
  <2>2. SameQueues
    BY <1>1, <2>1, SignalKeepsInv DEF SameQueues, SameQueue
  <2> QED  BY <1>7, <2>2 DEF PoolEffect, Keep, TrsyncStart
<1>8. CASE Trigger
  <2> DEFINE S == {s \in Steppers : stepper[s].signal}
  <2>1. /\ stepper' = [s \in Steppers |->
                         IF s \in S THEN [Stop(stepper[s]) EXCEPT !.signal = FALSE]
                         ELSE stepper[s]]
        /\ free' = FreeQueues(free, stepper, S)
        /\ UNCHANGED cmd
    BY <1>8 DEF Trigger
  <2>2. ASSUME NEW s \in S PROVE stepper'[s].mq = <<>>
    <3> DEFINE y == Stop(stepper[s])
    <3>1. s \in Steppers /\ stepper[s] \in StepperStates /\ Motion(stepper[s])
      BY <1>1 DEF StepperInv
    <3>2. StepperInv(y)
      BY <3>1, StopKeepsInv
    <3>3. y.mq = <<>>
      BY <3>1 DEF Stop, Halted, StepperStates
    <3>4. stepper'[s] = [y EXCEPT !.signal = FALSE]
      BY <2>1
    <3> HIDE DEF y
    <3> QED  BY <3>2, <3>3, <3>4, SignalKeepsInv
  <2>3. \A s \in Steppers \ S : SameQueue(s)
    BY <2>1 DEF SameQueue
  <2> HIDE DEF S
  <2>4. StopAll(S)
    BY <2>1, <2>2, <2>3 DEF StopAll
  <2>5. S \in SUBSET Steppers
    BY DEF S
  <2> QED  BY <2>4, <2>5 DEF PoolEffect
<1>9. CASE EmergencyStop
  BY <1>2, <1>9 DEF EmergencyStop
<1>10. CASE ClearShutdown /\ ~Shutdown(stepper)
  BY <1>10 DEF ClearShutdown, PoolEffect, Keep, SameQueues, SameQueue
<1>11. CASE UNCHANGED vars
  BY <1>11 DEF vars, PoolEffect, Keep, SameQueues, SameQueue
<1> QED  BY <1>2, <1>3, <1>4, <1>5, <1>6, <1>7, <1>8, <1>9, <1>10, <1>11 DEF Next

\* The i-th move of a stepper's queue sits in node n.
Sits(s, i, n) == i \in 1..Len(stepper[s].mq) /\ stepper[s].mq[i].node = n

\* Each node is in one place: on the free list, once; or with the command; or
\* at one place of one queue.
PoolInv ==
    /\ free \in [Moves -> 0..1]
    /\ \A c \in cmd : free[c.node] = 0
    /\ \A n \in Moves, s \in Steppers, i \in Nat :
         Sits(s, i, n) => free[n] = 0 /\ \A c \in cmd : c.node # n
    /\ \A n \in Moves, s, t \in Steppers, i, j \in Nat :
         Sits(s, i, n) /\ Sits(t, j, n) => s = t /\ i = j
    /\ \A n \in Moves :
         \/ free[n] = 1
         \/ \E c \in cmd : c.node = n
         \/ \E s \in Steppers, i \in Nat : Sits(s, i, n)

\* A queue is a sequence of moves.
LEMMA QueueTypes ==
    ASSUME MotionInv
    PROVE  /\ \A s \in Steppers : stepper[s].mq \in Seq(QueuedMoves)
           /\ \A c \in cmd : c.s \in Steppers /\ c.node \in Moves
           /\ \A c, d \in cmd : c = d
           /\ \A s \in Steppers, i \in Nat : \A n : Sits(s, i, n) => n \in Moves
<1>1. \A s \in Steppers : stepper[s].mq \in Seq(QueuedMoves)
  BY DEF MotionInv, SteppersInv, StepperStates
<1>2. \A s \in Steppers, i \in Nat : \A n : Sits(s, i, n) => n \in Moves
  BY <1>1, MoveFields DEF Sits
<1> QED  BY <1>1, <1>2 DEF MotionInv, CommandInv

\* The queues of steppers that a step does not touch.
LEMMA SitsSame ==
    ASSUME NEW s, SameQueue(s), NEW i, NEW n
    PROVE  Sits(s, i, n)' <=> Sits(s, i, n)
  BY DEF SameQueue, Sits

\* The parts of the invariant after a step.
LEMMA PoolParts ==
    ASSUME free' \in [Moves -> 0..1],
           \A c \in cmd' : free'[c.node] = 0,
           \A k \in Moves, s \in Steppers, i \in Nat :
             Sits(s, i, k)' => free'[k] = 0 /\ \A c \in cmd' : c.node # k,
           \A k \in Moves, s, t \in Steppers, i, j \in Nat :
             Sits(s, i, k)' /\ Sits(t, j, k)' => s = t /\ i = j,
           \A k \in Moves :
             \/ free'[k] = 1
             \/ \E c \in cmd' : c.node = k
             \/ \E s \in Steppers, i \in Nat : Sits(s, i, k)'
    PROVE  PoolInv'
  BY DEF PoolInv

\* Nothing changed hands.
LEMMA KeepPool ==
    ASSUME PoolInv, Keep
    PROVE  PoolInv'
<1>1. \A s \in Steppers : \A i, n : Sits(s, i, n)' <=> Sits(s, i, n)
  BY SitsSame DEF Keep, SameQueues
<1> QED  BY <1>1 DEF PoolInv, Keep

\* After a shutdown all nodes are free.
LEMMA FreeAllPool ==
    ASSUME FreeAll
    PROVE  PoolInv'
<1>1. \A s \in Steppers : \A i, n : ~Sits(s, i, n)'
  BY DEF FreeAll, Sits
<1>2. free' = [n \in Moves |-> 1] /\ cmd' = {}
  BY DEF FreeAll, AllFree
<1>3. free' \in [Moves -> 0..1]
  BY <1>2
<1> QED  BY <1>1, <1>2, <1>3 DEF PoolInv

\* A free node goes to the command, which is then its only holder.
LEMMA AllocPool ==
    ASSUME PoolInv, NEW n \in Moves, Alloc(n)
    PROVE  PoolInv'
<1>1. PICK c : cmd' = {c} /\ c.node = n
  BY DEF Alloc
<1>2. \A s \in Steppers : \A i, k : Sits(s, i, k)' <=> Sits(s, i, k)
  BY SitsSame DEF Alloc, SameQueues
<1>3. free[n] = 1 /\ cmd = {}
  BY DEF Alloc, PoolInv
<1>4. /\ free' \in [Moves -> 0..1] /\ free'[n] = 0
      /\ \A k \in Moves : k # n => free'[k] = free[k]
  BY <1>3 DEF Alloc, PoolInv
<1>5. \A s \in Steppers, i \in Nat : ~Sits(s, i, n)
  BY <1>3 DEF PoolInv
<1>6. \A k \in Moves, s \in Steppers, i \in Nat :
        Sits(s, i, k)' => free'[k] = 0 /\ \A d \in cmd' : d.node # k
  BY <1>1, <1>2, <1>4, <1>5 DEF PoolInv
<1>7. \A k \in Moves :
        \/ free'[k] = 1
        \/ \E d \in cmd' : d.node = k
        \/ \E s \in Steppers, i \in Nat : Sits(s, i, k)'
  BY <1>1, <1>2, <1>3, <1>4 DEF PoolInv
<1>8. \A k \in Moves, s, t \in Steppers, i, j \in Nat :
        Sits(s, i, k)' /\ Sits(t, j, k)' => s = t /\ i = j
  BY <1>2 DEF PoolInv
<1> QED  BY <1>1, <1>4, <1>6, <1>7, <1>8, PoolParts

\* The command's node goes to the end of one queue.
LEMMA PushPool ==
    ASSUME MotionInv, PoolInv, NEW c \in cmd, NEW m \in QueuedMoves, Push(c, m)
    PROVE  PoolInv'
<1> DEFINE n == c.node
           z == Len(stepper[c.s].mq) + 1
<1>1. c.s \in Steppers /\ n \in Moves /\ \A d \in cmd : d = c
  BY QueueTypes
<1>2. /\ z \in Nat /\ \A i \in Nat : \A k : Sits(c.s, i, k)' <=>
                         Sits(c.s, i, k) \/ (i = z /\ k = n)
  <2>1. stepper[c.s].mq \in Seq(QueuedMoves)
    BY <1>1, QueueTypes
  <2>2. /\ stepper'[c.s].mq = Append(stepper[c.s].mq, m) /\ m.node = n
    BY DEF Push
  <2>3. /\ z \in Nat /\ Len(stepper'[c.s].mq) = z
        /\ stepper'[c.s].mq[z] = m
        /\ \A i \in 1..(z - 1) : stepper'[c.s].mq[i] = stepper[c.s].mq[i]
    BY <2>1, <2>2
  <2> QED  BY <2>1, <2>2, <2>3 DEF Sits
<1> HIDE DEF z
<1>3. \A s \in Steppers : \A i, k : s # c.s => (Sits(s, i, k)' <=> Sits(s, i, k))
  BY SitsSame DEF Push
<1>4. free' = free /\ cmd' = {}
  BY DEF Push
<1>5. free[n] = 0 /\ \A s \in Steppers, i \in Nat : ~Sits(s, i, n)
  BY <1>1 DEF PoolInv
<1>6. \A s \in Steppers, i \in Nat : \A k :
        Sits(s, i, k)' <=> Sits(s, i, k) \/ (s = c.s /\ i = z /\ k = n)
  BY <1>2, <1>3
<1>7. \A k \in Moves, s \in Steppers, i \in Nat :
        Sits(s, i, k)' => free'[k] = 0 /\ \A d \in cmd' : d.node # k
  BY <1>4, <1>5, <1>6 DEF PoolInv
<1>8. \A k \in Moves, s, t \in Steppers, i, j \in Nat :
        Sits(s, i, k)' /\ Sits(t, j, k)' => s = t /\ i = j
  BY <1>5, <1>6 DEF PoolInv
<1>9. ASSUME NEW k \in Moves
      PROVE  \/ free'[k] = 1
             \/ \E d \in cmd' : d.node = k
             \/ \E s \in Steppers, i \in Nat : Sits(s, i, k)'
  <2>1. CASE k = n
    BY <2>1, <1>1, <1>2, <1>6
  <2>2. CASE k # n
    <3>1. ~\E d \in cmd : d.node = k
      BY <1>1, <2>2
    <3>2. free[k] = 1 \/ \E s \in Steppers, i \in Nat : Sits(s, i, k)
      BY <3>1 DEF PoolInv
    <3> QED  BY <2>2, <3>2, <1>4, <1>6
  <2> QED  BY <2>1, <2>2
<1>10. free' \in [Moves -> 0..1] /\ \A d \in cmd' : free'[d.node] = 0
  BY <1>4 DEF PoolInv
<1> QED  BY <1>7, <1>8, <1>9, <1>10, PoolParts

\* The command's node goes back to the pool.
LEMMA ReleasePool ==
    ASSUME MotionInv, PoolInv, NEW c \in cmd, Release(c)
    PROVE  PoolInv'
<1> DEFINE n == c.node
<1>1. n \in Moves /\ \A d \in cmd : d = c
  BY QueueTypes
<1>2. \A s \in Steppers : \A i, k : Sits(s, i, k)' <=> Sits(s, i, k)
  BY SitsSame DEF Release, SameQueues
<1>3. free[n] = 0 /\ \A s \in Steppers, i \in Nat : ~Sits(s, i, n)
  BY <1>1 DEF PoolInv
<1>4. /\ free' \in [Moves -> 0..1] /\ free'[n] = 1 /\ cmd' = {}
      /\ \A k \in Moves : k # n => free'[k] = free[k]
  BY <1>1, <1>3 DEF Release, PoolInv
<1> HIDE DEF n
<1>5. \A k \in Moves, s \in Steppers, i \in Nat :
        Sits(s, i, k)' => free'[k] = 0 /\ \A d \in cmd' : d.node # k
  BY <1>2, <1>3, <1>4 DEF PoolInv
<1>6. ASSUME NEW k \in Moves
      PROVE  \/ free'[k] = 1
             \/ \E d \in cmd' : d.node = k
             \/ \E s \in Steppers, i \in Nat : Sits(s, i, k)'
  <2>1. CASE k = n
    BY <2>1, <1>4
  <2>2. CASE k # n
    <3>1. ~\E d \in cmd : d.node = k
      BY <1>1, <2>2 DEF n
    <3>2. free[k] = 1 \/ \E s \in Steppers, i \in Nat : Sits(s, i, k)
      BY <3>1 DEF PoolInv
    <3> QED  BY <2>2, <3>2, <1>2, <1>4
  <2> QED  BY <2>1, <2>2
<1>7. \A k \in Moves, s, t \in Steppers, i, j \in Nat :
        Sits(s, i, k)' /\ Sits(t, j, k)' => s = t /\ i = j
  BY <1>2 DEF PoolInv
<1>8. free' \in [Moves -> 0..1] /\ \A d \in cmd' : free'[d.node] = 0
  BY <1>4
<1> QED  BY <1>5, <1>6, <1>7, <1>8, PoolParts

\* The first node of one queue goes back to the pool; the others move up.
LEMMA LoadPool ==
    ASSUME MotionInv, PoolInv, NEW s \in Steppers, Load(s)
    PROVE  PoolInv'
<1> DEFINE n == Head(stepper[s].mq).node
           q == stepper[s].mq
<1>1. q \in Seq(QueuedMoves) /\ q # <<>>
  BY QueueTypes DEF Load
<1>2. /\ 1 \in 1..Len(q) /\ Head(q) = q[1] /\ Len(q) \in Nat \ {0}
      /\ Len(Tail(q)) = Len(q) - 1
      /\ \A i \in 1..(Len(q) - 1) : Tail(q)[i] = q[i + 1]
  BY <1>1
<1>3. Sits(s, 1, n) /\ n \in Moves
  BY <1>1, <1>2, QueueTypes DEF Sits
<1>4. \A i \in Nat : \A k : Sits(s, i, k)' <=> i # 0 /\ Sits(s, i + 1, k)
  <2>1. stepper'[s].mq = Tail(q)
    BY DEF Load
  <2>2. \A i \in Nat : i \in 1..(Len(q) - 1) <=> i # 0 /\ i + 1 \in 1..Len(q)
    BY <1>2
  <2> QED  BY <1>2, <2>1, <2>2 DEF Sits
<1> HIDE DEF n, q
<1>5. \A t \in Steppers : \A i, k : t # s => (Sits(t, i, k)' <=> Sits(t, i, k))
  BY SitsSame DEF Load
<1>6. free[n] = 0 /\ \A c \in cmd : c.node # n
  BY <1>3 DEF PoolInv
<1>7. /\ free' \in [Moves -> 0..1] /\ free'[n] = 1 /\ cmd' = cmd
      /\ \A k \in Moves : k # n => free'[k] = free[k]
  BY <1>3, <1>6 DEF Load, PoolInv, n
<1>8. ASSUME NEW t \in Steppers, NEW i \in Nat, NEW k \in Moves, Sits(t, i, k)'
      PROVE  /\ k # n
             /\ IF t = s THEN i # 0 /\ i + 1 \in Nat /\ Sits(s, i + 1, k)
                ELSE Sits(t, i, k)
  <2>1. CASE t = s
    <3>1. i # 0 /\ i + 1 \in Nat /\ i + 1 # 1 /\ Sits(s, i + 1, k)
      BY <1>4, <1>8, <2>1
    <3>2. k # n
      BY <3>1, <1>3 DEF PoolInv
    <3> QED  BY <2>1, <3>1, <3>2
  <2>2. CASE t # s
    <3>1. Sits(t, i, k)
      BY <1>5, <1>8, <2>2
    <3>2. k # n
      BY <3>1, <2>2, <1>3 DEF PoolInv
    <3> QED  BY <2>2, <3>1, <3>2
  <2> QED  BY <2>1, <2>2
<1>9. ASSUME NEW k \in Moves, NEW t \in Steppers, NEW i \in Nat, Sits(t, i, k)'
      PROVE  free'[k] = 0 /\ \A c \in cmd' : c.node # k
  <2>1. \E j \in Nat : Sits(t, j, k)
    BY <1>8, <1>9
  <2>2. k # n
    BY <1>8, <1>9
  <2> QED  BY <2>1, <2>2, <1>7 DEF PoolInv
<1>10. ASSUME NEW k \in Moves, NEW t \in Steppers, NEW u \in Steppers,
              NEW i \in Nat, NEW j \in Nat, Sits(t, i, k)', Sits(u, j, k)'
       PROVE  t = u /\ i = j
  <2> DEFINE f(v, a) == IF v = s THEN a + 1 ELSE a
  <2>1. f(t, i) \in Nat /\ f(u, j) \in Nat
    OBVIOUS
  <2>2. Sits(t, f(t, i), k) /\ Sits(u, f(u, j), k)
    BY <1>8, <1>10
  <2>3. t = u /\ f(t, i) = f(u, j)
    BY <2>1, <2>2 DEF PoolInv
  <2> QED  BY <2>3
<1>11. ASSUME NEW k \in Moves
       PROVE  \/ free'[k] = 1
              \/ \E c \in cmd' : c.node = k
              \/ \E t \in Steppers, i \in Nat : Sits(t, i, k)'
  <2>1. CASE k = n
    BY <2>1, <1>7
  <2>2. CASE k # n /\ \E t \in Steppers, i \in Nat : Sits(t, i, k)
    <3>1. PICK t \in Steppers, i \in Nat : Sits(t, i, k)
      BY <2>2
    <3>2. CASE t # s
      BY <3>1, <3>2, <1>5
    <3>3. CASE t = s
      <4>1. i # 0 /\ i # 1
        BY <2>2, <3>1, <3>3, <1>3 DEF Sits
      <4>2. i - 1 \in Nat /\ i - 1 # 0 /\ (i - 1) + 1 = i
        BY <4>1
      <4>3. Sits(s, i - 1, k)'
        BY <4>2, <3>1, <3>3, <1>4
      <4> QED  BY <4>2, <4>3
    <3> QED  BY <3>2, <3>3
  <2>3. CASE k # n /\ (free[k] = 1 \/ \E c \in cmd : c.node = k)
    BY <2>3, <1>7
  <2> QED  BY <2>1, <2>2, <2>3 DEF PoolInv
<1>12. \A c \in cmd' : free'[c.node] = 0
  BY <1>6, <1>7, QueueTypes DEF PoolInv
<1> QED  BY <1>7, <1>9, <1>10, <1>11, <1>12, PoolParts

\* The nodes of all queues that are emptied go back, each once.
LEMMA StopPool ==
    ASSUME MotionInv, PoolInv, NEW S \in SUBSET Steppers, StopAll(S)
    PROVE  PoolInv'
<1>1. \A s \in S : \A i, k : ~Sits(s, i, k)'
  BY DEF StopAll, Sits
<1>2. \A s \in Steppers \ S : \A i, k : Sits(s, i, k)' <=> Sits(s, i, k)
  BY SitsSame DEF StopAll
<1>3. cmd' = cmd /\ free' = FreeQueues(free, stepper, S)
  BY DEF StopAll
<1>4. ASSUME NEW s \in Steppers, NEW k
      PROVE  Queued(stepper[s], k) <=> \E i \in Nat : Sits(s, i, k)
  <2>1. stepper[s].mq \in Seq(QueuedMoves)
    BY QueueTypes
  <2>2. DOMAIN stepper[s].mq = 1..Len(stepper[s].mq)
        /\ 1..Len(stepper[s].mq) \subseteq Nat
    BY <2>1
  <2> QED  BY <2>2 DEF Queued, Sits
<1>5. ASSUME NEW k \in Moves
      PROVE  /\ (\E s \in S, i \in Nat : Sits(s, i, k))
                  => free'[k] = 1
             /\ ~(\E s \in S, i \in Nat : Sits(s, i, k))
                  => free'[k] = free[k]
  <2> DEFINE H == {s \in S : Queued(stepper[s], k)}
  <2>1. free'[k] = free[k] + Cardinality(H) /\ free[k] \in 0..1
    BY <1>3 DEF FreeQueues, PoolInv
  <2>2. ASSUME NEW s \in S, NEW i \in Nat, Sits(s, i, k)
        PROVE  free'[k] = 1
    <3>1. H = {s}
      <4>1. s \in H
        BY <1>4, <2>2
      <4>2. ASSUME NEW t \in H PROVE t = s
        <5>1. t \in Steppers /\ s \in Steppers /\ \E j \in Nat : Sits(t, j, k)
          BY <1>4
        <5> QED  BY <5>1, <2>2 DEF PoolInv
      <4> QED  BY <4>1, <4>2
    <3>2. Cardinality(H) = 1
      BY <3>1, FS_Singleton
    <3>3. free[k] = 0
      BY <2>2 DEF PoolInv
    <3> HIDE DEF H
    <3> QED  BY <2>1, <3>2, <3>3
  <2>3. ASSUME ~(\E s \in S, i \in Nat : Sits(s, i, k))
        PROVE  free'[k] = free[k]
    <3>1. H = {}
      BY <1>4, <2>3
    <3>2. Cardinality(H) = 0
      BY <3>1, FS_EmptySet
    <3> HIDE DEF H
    <3> QED  BY <2>1, <3>2
  <2> QED  BY <2>2, <2>3
<1>6. free' \in [Moves -> 0..1]
  <2>1. \A k \in Moves : free'[k] \in 0..1
    BY <1>5 DEF PoolInv
  <2>2. DOMAIN free' = Moves /\ free' = [k \in Moves |-> free'[k]]
    BY <1>3 DEF FreeQueues
  <2> QED  BY <2>1, <2>2
<1>7. ASSUME NEW k \in Moves, NEW s \in Steppers, NEW i \in Nat, Sits(s, i, k)'
      PROVE  s \notin S /\ Sits(s, i, k) /\ free'[k] = 0
             /\ \A c \in cmd' : c.node # k
  <2>1. s \notin S /\ Sits(s, i, k)
    BY <1>1, <1>2, <1>7
  <2>2. ~(\E t \in S, j \in Nat : Sits(t, j, k))
    BY <2>1 DEF PoolInv
  <2>3. free[k] = 0 /\ \A c \in cmd : c.node # k
    BY <2>1 DEF PoolInv
  <2> QED  BY <2>1, <2>2, <2>3, <1>3, <1>5
<1>8. \A k \in Moves, s, t \in Steppers, i, j \in Nat :
        Sits(s, i, k)' /\ Sits(t, j, k)' => s = t /\ i = j
  BY <1>7 DEF PoolInv
<1>9. ASSUME NEW k \in Moves
      PROVE  \/ free'[k] = 1
             \/ \E c \in cmd' : c.node = k
             \/ \E s \in Steppers, i \in Nat : Sits(s, i, k)'
  <2>1. CASE \E s \in S, i \in Nat : Sits(s, i, k)
    BY <2>1, <1>5
  <2>2. CASE ~(\E s \in S, i \in Nat : Sits(s, i, k))
    BY <2>2, <1>2, <1>3, <1>5 DEF PoolInv
  <2> QED  BY <2>1, <2>2
<1>10. ASSUME NEW c \in cmd' PROVE free'[c.node] = 0
  <2>1. c \in cmd /\ c.node \in Moves /\ free[c.node] = 0
    BY <1>3, QueueTypes DEF PoolInv
  <2>2. ~(\E s \in S, i \in Nat : Sits(s, i, c.node))
    BY <2>1 DEF PoolInv
  <2> QED  BY <2>1, <2>2, <1>5
<1>11. \A k \in Moves, s \in Steppers, i \in Nat :
         Sits(s, i, k)' => free'[k] = 0 /\ \A c \in cmd' : c.node # k
  BY <1>7
<1>12. \A c \in cmd' : free'[c.node] = 0
  BY <1>10
<1>13. \A k \in Moves :
         \/ free'[k] = 1
         \/ \E c \in cmd' : c.node = k
         \/ \E s \in Steppers, i \in Nat : Sits(s, i, k)'
  BY <1>9
<1> QED  BY <1>6, <1>8, <1>11, <1>12, <1>13, PoolParts

\* The pool as move_reset() fills it.
LEMMA PoolInit == Init => PoolInv
<1> SUFFICES ASSUME Init PROVE PoolInv
  OBVIOUS
<1>1. free = [n \in Moves |-> 1] /\ cmd = {}
  BY DEF Init, AllFree
<1>2. \A s \in Steppers : stepper[s].mq = <<>>
  BY DEF Init
<1>3. \A s \in Steppers : \A i, n : ~Sits(s, i, n)
  BY <1>2 DEF Sits
<1>4. free \in [Moves -> 0..1]
  BY <1>1
<1> QED  BY <1>1, <1>3, <1>4 DEF PoolInv

\* Every step keeps the nodes together, by what it may do with them.
LEMMA PoolStep == MotionInv /\ PoolInv /\ [Next]_vars => PoolInv'
<1> SUFFICES ASSUME MotionInv, PoolInv, [Next]_vars PROVE PoolInv'
  OBVIOUS
<1>1. free \in [Moves -> Nat]
  BY DEF PoolInv
<1>2. PoolEffect
  BY <1>1, StepEffect
<1>3. CASE Keep
  BY <1>3, KeepPool
<1>4. CASE FreeAll
  BY <1>4, FreeAllPool
<1>5. CASE \E n \in Moves : Alloc(n)
  BY <1>5, AllocPool
<1>6. CASE \E c \in cmd, m \in QueuedMoves : Push(c, m)
  BY <1>6, PushPool
<1>7. CASE \E c \in cmd : Release(c)
  BY <1>7, ReleasePool
<1>8. CASE \E s \in Steppers : Load(s)
  BY <1>8, LoadPool
<1>9. CASE \E S \in SUBSET Steppers : StopAll(S)
  BY <1>9, StopPool
<1> QED  BY <1>2, <1>3, <1>4, <1>5, <1>6, <1>7, <1>8, <1>9 DEF PoolEffect

\* The nodes are kept together throughout.
LEMMA PoolAlways == Spec => []PoolInv
  BY PoolInit, PoolStep, MotionAlways, PTL DEF Spec

\* The places a node may be, as the invariant and as the property name them.
LEMMA HoldersOf ==
    ASSUME MotionInv, NEW n \in Moves
    PROVE  \A h : h \in Holders(n) <=>
             \/ \E k \in 1..free[n] : h = <<"free", k>>
             \/ \E c \in cmd : c.node = n /\ h = <<"cmd", c.s>>
             \/ \E s \in Steppers, i \in Nat :
                  Sits(s, i, n) /\ h = <<"queue", s, i>>
<1>1. ASSUME NEW s \in Steppers
      PROVE  /\ DOMAIN stepper[s].mq = 1..Len(stepper[s].mq)
             /\ 1..Len(stepper[s].mq) \subseteq Nat
  <2>1. stepper[s].mq \in Seq(QueuedMoves)
    BY QueueTypes
  <2> QED  BY <2>1
<1> DEFINE F == {<<"free", k>> : k \in 1..free[n]}
           C == {<<"cmd", c.s>> : c \in {x \in cmd : x.node = n}}
           P(s) == {j \in DOMAIN stepper[s].mq : stepper[s].mq[j].node = n}
           Q(s) == {<<"queue", s, i>> : i \in P(s)}
           R == {Q(s) : s \in Steppers}
<1>2. Holders(n) = F \cup C \cup UNION R
  BY DEF Holders
<1>3. \A h : h \in F <=> \E k \in 1..free[n] : h = <<"free", k>>
  OBVIOUS
<1>4. \A h : h \in C <=> \E c \in cmd : c.node = n /\ h = <<"cmd", c.s>>
  OBVIOUS
<1>5. \A s \in Steppers : \A i : i \in P(s) <=> i \in Nat /\ Sits(s, i, n)
  BY <1>1 DEF Sits
<1>6. \A h : h \in UNION R <=> \E s \in Steppers : h \in Q(s)
  OBVIOUS
<1> HIDE DEF F, C, P, R
<1>7. \A h : h \in UNION R <=> \E s \in Steppers, i \in Nat :
                                 Sits(s, i, n) /\ h = <<"queue", s, i>>
  BY <1>5, <1>6
<1> QED  BY <1>2, <1>3, <1>4, <1>7

\* No node of move_list is lost or handed out twice, for any number of nodes
\* and steppers: the free list, the command at work and the queues hold each
\* node once, after any stop, drop, overflow or shutdown.
THEOREM Conservation == Spec => []MovesConserved
<1>1. MotionInv /\ PoolInv => MovesConserved
  <2> SUFFICES ASSUME MotionInv, PoolInv, NEW n \in Moves
               PROVE  \E h \in Holders(n) : Holders(n) = {h}
    BY DEF MovesConserved
  <2>1. free[n] \in {0, 1}
    BY DEF PoolInv
  <2>2. CASE free[n] = 1
    <3>1. \A k : k \in 1..free[n] <=> k = 1
      BY <2>2
    <3>2. ~\E c \in cmd : c.node = n
      BY <2>2 DEF PoolInv
    <3>3. ~\E s \in Steppers, i \in Nat : Sits(s, i, n)
      BY <2>2 DEF PoolInv
    <3>4. \A g : g \in Holders(n) <=> g = <<"free", 1>>
      BY <3>1, <3>2, <3>3, HoldersOf
    <3>5. <<"free", 1>> \in Holders(n) /\ Holders(n) = {<<"free", 1>>}
      BY <3>4
    <3> QED  BY <3>5, Zenon
  <2>3. CASE free[n] = 0
    <3>1. \A k : k \notin 1..free[n]
      BY <2>3
    <3>2. CASE \E c \in cmd : c.node = n
      <4>1. PICK c \in cmd : c.node = n
        BY <3>2
      <4>2. \A d \in cmd : d = c /\ d.node = n
        BY <4>1, QueueTypes
      <4>3. ~\E s \in Steppers, i \in Nat : Sits(s, i, n)
        BY <4>1 DEF PoolInv
      <4>4. \A g : g \in Holders(n) <=> g = <<"cmd", c.s>>
        BY <3>1, <4>1, <4>2, <4>3, HoldersOf
      <4>5. <<"cmd", c.s>> \in Holders(n) /\ Holders(n) = {<<"cmd", c.s>>}
        BY <4>4
      <4> QED  BY <4>5, Zenon
    <3>3. CASE \E s \in Steppers, i \in Nat : Sits(s, i, n)
      <4>1. PICK s \in Steppers, i \in Nat : Sits(s, i, n)
        BY <3>3
      <4>2. ~\E c \in cmd : c.node = n
        BY <4>1 DEF PoolInv
      <4>3. \A t \in Steppers, j \in Nat : Sits(t, j, n) => t = s /\ j = i
        BY <4>1 DEF PoolInv
      <4>4. \A g : g \in Holders(n) <=> g = <<"queue", s, i>>
        BY <3>1, <4>1, <4>2, <4>3, HoldersOf
      <4>5. <<"queue", s, i>> \in Holders(n) /\ Holders(n) = {<<"queue", s, i>>}
        BY <4>4
      <4> QED  BY <4>5, Zenon
    <3> QED  BY <2>3, <3>2, <3>3 DEF PoolInv
  <2> QED  BY <2>1, <2>2, <2>3
<1> QED  BY <1>1, MotionAlways, PoolAlways, PTL

\* The types of the variables, and a step timer on the list exactly while there
\* are steps to make.
THEOREM Types == Spec => []TypeOK
<1>1. MotionInv /\ PoolInv => TypeOK
  <2> SUFFICES ASSUME MotionInv, PoolInv PROVE TypeOK
    OBVIOUS
  <2>1. free \in [Moves -> Nat]
    BY DEF PoolInv
  <2>2. \A s \in Steppers : stepper[s].timer <=> stepper[s].count # 0
    BY DEF MotionInv, SteppersInv, StepperInv, Rest
  <2> QED  BY <2>1, <2>2 DEF TypeOK, MotionInv, SteppersInv, CommandInv
<1> QED  BY <1>1, MotionAlways, PoolAlways, PTL

=============================================================================
