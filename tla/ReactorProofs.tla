---------------------------- MODULE ReactorProofs ----------------------------
(***************************************************************************)
(* Proofs about Reactor: the mutex has one holder, and a reactor that      *)
(* sleeps wakes for every timer that its last pass has not passed over.    *)
(***************************************************************************)
EXTENDS Reactor, FiniteSetTheorems, SequenceTheorems, TLAPS

-----------------------------------------------------------------------------
(* The inductive invariant                                                  *)

Sources == Periodic \cup Callbacks \cup {Fd}

Queues == [timers : Seq(Timers), wake : [Timers -> 0..NEVER], next : 0..NEVER,
           missed : SUBSET Timers]

Frames == [at : States, i : Nat, end : Nat, t : Sources,
           why : {"run", "lock", "completion"}, ops : Nat, holds : BOOLEAN]

Types ==
    /\ q \in Queues /\ gl \in [Greenlets -> Frames]
    /\ g_dispatch \in Greenlets /\ cur \in Greenlets /\ greenlets \in Seq(Greenlets)
    /\ mutex \in [is_locked : BOOLEAN, next_pending : BOOLEAN, queue : Seq(Greenlets)]
    /\ completed \in BOOLEAN

\* One greenlet runs: the dispatcher, or one that the dispatcher has resumed.
Running ==
    /\ gl[cur].at \in {"check", "poll", "pass", "task"}
    /\ cur # g_dispatch => gl[cur].at = "task" /\ gl[g_dispatch].at = "lambda"
    /\ \A g \in Greenlets : g \notin {cur, g_dispatch} => gl[g].at \in {"none", "wait", "pool"}

\* The greenlets to be used again are in no callback.
Pooled ==
    /\ IsInjective(greenlets)
    /\ \A k \in 1..Len(greenlets) : gl[greenlets[k]].at = "pool"

\* A greenlet has a timer from its first pause to the end of its callback.
HasTimer(g) == gl[g].at = "wait" \/ (g = cur /\ g # g_dispatch)

\* A timer is in the vector, and none is there twice.
In(r, t) == \E k \in 1..Len(r.timers) : r.timers[k] = t

Once(r) == \A k, l \in 1..Len(r.timers) : r.timers[k] = r.timers[l] => k = l

TimersInv ==
    Once(q) /\ \A g \in Greenlets : HasTimer(g) <=> In(q, g)

\* Only within a callback a greenlet holds the mutex or waits.
Idle ==
    \A g \in Greenlets : gl[g].at \notin {"task", "wait"} => ~gl[g].holds /\ gl[g].why = "run"

MutexInv ==
    /\ \A g, h \in Greenlets : gl[g].holds /\ gl[h].holds => g = h
    /\ \A g \in Greenlets : gl[g].holds => mutex.is_locked /\ ~mutex.next_pending
    /\ mutex.next_pending => mutex.is_locked /\ mutex.queue # <<>>
    /\ mutex.is_locked => mutex.next_pending \/ \E g \in Greenlets : gl[g].holds

\* The loop over the timers has begun, or there is none.
LoopInv ==
    /\ gl[cur].at = "pass" => gl[cur].i >= 1
    /\ gl[cur].at \in {"check", "poll"} => gl[cur].i = 0 /\ gl[cur].end = 0
    /\ gl[g_dispatch].at = "task" /\ gl[g_dispatch].t = Fd
         => gl[g_dispatch].i = 0 /\ gl[g_dispatch].end = 0

\* The loop with frame f has left the timer at k behind, or will not come to it.
Behind(f, k) == k < f.i \/ k > f.end \/ (k = f.i /\ f.at \in {"task", "lambda"})

\* next_timer is no later than a timer the loop is done with.
Covers(r, f) ==
    \A k \in 1..Len(r.timers) :
        Behind(f, k) /\ r.timers[k] \notin r.missed => r.next <= r.wake[r.timers[k]]

CoverInv == Covers(q, gl[g_dispatch])

Inv ==
    Types /\ Running /\ Pooled /\ TimersInv /\ Idle /\ MutexInv /\ LoopInv /\ CoverInv

-----------------------------------------------------------------------------
(* The operations on timers                                                 *)

\* update_timer()
LEMMA UpdateFacts ==
    ASSUME NEW r \in Queues, NEW t \in Timers, NEW w \in 0..NEVER
    PROVE  LET s == update_timer(r, t, w) IN
           /\ s \in Queues /\ s.timers = r.timers /\ s.missed = r.missed
           /\ s.wake = [r.wake EXCEPT ![t] = w]
           /\ s.next <= r.next /\ s.next <= w
<1> DEFINE n == Less(r.next, w)
<1>1. n \in 0..NEVER /\ n <= r.next /\ n <= w
  BY ReactorAssumption DEF Less, Queues
<1>2. update_timer(r, t, w) = [r EXCEPT !.wake[t] = w, !.next = n]
  BY DEF update_timer
<1> HIDE DEF n
<1> QED  BY <1>1, <1>2 DEF Queues

\* register_timer()
LEMMA RegisterFacts ==
    ASSUME NEW r \in Queues, NEW t \in Timers, NEW w \in 0..NEVER
    PROVE  LET s == register_timer(r, t, w) IN
           /\ s \in Queues /\ s.timers = Append(r.timers, t) /\ s.missed = r.missed
           /\ s.wake = [r.wake EXCEPT ![t] = w]
           /\ s.next <= r.next /\ s.next <= w
<1> DEFINE u == update_timer(r, t, w)
<1>1. /\ u \in Queues /\ u.timers = r.timers /\ u.missed = r.missed
      /\ u.wake = [r.wake EXCEPT ![t] = w]
      /\ u.next <= r.next /\ u.next <= w
  BY UpdateFacts
<1>2. register_timer(r, t, w) = [u EXCEPT !.timers = Append(@, t)]
  BY DEF register_timer
<1> HIDE DEF u
<1>3. Append(u.timers, t) \in Seq(Timers)
  BY <1>1 DEF Queues
<1> QED  BY <1>1, <1>2, <1>3 DEF Queues

\* What is behind the present timer stays covered.
LEMMA CoversUpdate ==
    ASSUME NEW r \in Queues, NEW t \in Timers, NEW w \in 0..NEVER, NEW f, Covers(r, f)
    PROVE  Covers(update_timer(r, t, w), f)
<1> DEFINE s == update_timer(r, t, w)
<1>1. /\ s \in Queues /\ s.timers = r.timers /\ s.missed = r.missed
      /\ s.wake = [r.wake EXCEPT ![t] = w]
      /\ s.next <= r.next /\ s.next <= w
  BY UpdateFacts
<1> HIDE DEF s
<1> SUFFICES ASSUME NEW k \in 1..Len(s.timers), Behind(f, k), s.timers[k] \notin s.missed
             PROVE  s.next <= s.wake[s.timers[k]]
  BY DEF Covers, s
<1>2. r.timers[k] \in Timers /\ r.next <= r.wake[r.timers[k]]
  BY <1>1 DEF Covers, Queues
<1> QED  BY <1>1, <1>2, ReactorAssumption DEF Queues

\* A new timer is covered at once.
LEMMA CoversRegister ==
    ASSUME NEW r \in Queues, NEW t \in Timers, NEW w \in 0..NEVER, NEW f, Covers(r, f)
    PROVE  Covers(register_timer(r, t, w), f)
<1> DEFINE s == register_timer(r, t, w)
<1>1. /\ s \in Queues /\ s.timers = Append(r.timers, t) /\ s.missed = r.missed
      /\ s.wake = [r.wake EXCEPT ![t] = w]
      /\ s.next <= r.next /\ s.next <= w
  BY RegisterFacts
<1> HIDE DEF s
<1> SUFFICES ASSUME NEW k \in 1..Len(s.timers), Behind(f, k), s.timers[k] \notin s.missed
             PROVE  s.next <= s.wake[s.timers[k]]
  BY DEF Covers, s
<1>0. r.timers \in Seq(Timers) /\ Len(s.timers) = Len(r.timers) + 1
  BY <1>1 DEF Queues
<1>2. CASE k = Len(r.timers) + 1
  <2>1. s.timers[k] = t
    BY <1>0, <1>1, <1>2
  <2>2. s.wake[t] = w
    BY <1>1 DEF Queues
  <2> QED  BY <1>1, <2>1, <2>2
<1>3. CASE k # Len(r.timers) + 1
  <2>1. k \in 1..Len(r.timers) /\ s.timers[k] = r.timers[k]
    BY <1>0, <1>1, <1>3
  <2>2. r.timers[k] \in Timers /\ r.next <= r.wake[r.timers[k]]
    BY <1>0, <1>1, <2>1 DEF Covers
  <2>3. /\ s.wake[r.timers[k]] \in {w, r.wake[r.timers[k]]}
        /\ r.next \in Nat /\ s.next \in Nat /\ w \in Nat /\ r.wake[r.timers[k]] \in Nat
    BY <1>1, <2>2, ReactorAssumption, SMTT(30) DEF Queues
  <2> QED  BY <1>1, <2>1, <2>2, <2>3
<1> QED  BY <1>2, <1>3

\* A queue whose next_timer is in the past covers everything.
LEMMA CoversZero ==
    ASSUME NEW r \in Queues, r.next = 0, NEW f
    PROVE  Covers(r, f)
  BY ReactorAssumption DEF Covers, Queues

\* The timers that are registered.
LEMMA RegisterOnce ==
    ASSUME NEW r \in Queues, NEW t \in Timers, NEW w \in 0..NEVER, Once(r), ~In(r, t)
    PROVE  LET s == register_timer(r, t, w) IN
           Once(s) /\ \A u : In(s, u) <=> In(r, u) \/ u = t
<1> DEFINE s == register_timer(r, t, w)
<1>1. s.timers = Append(r.timers, t)
  BY RegisterFacts
<1> HIDE DEF s
<1>2. /\ r.timers \in Seq(Timers) /\ Len(s.timers) = Len(r.timers) + 1
      /\ s.timers[Len(r.timers) + 1] = t
      /\ \A k \in 1..Len(r.timers) : s.timers[k] = r.timers[k]
  BY <1>1 DEF Queues
<1>3. Once(s)
  <2> SUFFICES ASSUME NEW k \in 1..Len(s.timers), NEW l \in 1..Len(s.timers),
                      s.timers[k] = s.timers[l]
               PROVE  k = l
    BY DEF Once
  <2>1. \A m \in 1..Len(s.timers) : m = Len(r.timers) + 1 \/ m \in 1..Len(r.timers)
    BY <1>2
  <2>2. \A m \in 1..Len(r.timers) : r.timers[m] # t
    BY DEF In
  <2> QED  BY <1>2, <2>1, <2>2 DEF Once
<1>4. \A u : In(s, u) <=> In(r, u) \/ u = t
  <2> SUFFICES ASSUME NEW u PROVE In(s, u) <=> In(r, u) \/ u = t
    OBVIOUS
  <2>1. ASSUME NEW k \in 1..Len(s.timers), s.timers[k] = u PROVE In(r, u) \/ u = t
    <3>1. CASE k = Len(r.timers) + 1
      BY <1>2, <2>1, <3>1
    <3>2. CASE k # Len(r.timers) + 1
      <4>1. k \in 1..Len(r.timers)
        BY <1>2, <3>2
      <4> QED  BY <1>2, <2>1, <4>1 DEF In
    <3> QED  BY <3>1, <3>2
  <2>2. ASSUME In(r, u) PROVE In(s, u)
    BY <1>2, <2>2 DEF In
  <2>3. Len(r.timers) + 1 \in 1..Len(s.timers)
    BY <1>2
  <2> QED  BY <1>2, <2>1, <2>2, <2>3 DEF In
<1> QED  BY <1>3, <1>4 DEF s

\* A sequence without its element at j.
LEMMA RemoveAtFacts ==
    ASSUME NEW S, NEW s \in Seq(S), NEW j \in 1..Len(s)
    PROVE  /\ RemoveAt(s, j) \in Seq(S) /\ Len(RemoveAt(s, j)) = Len(s) - 1
           /\ \A k \in 1..(Len(s) - 1) : RemoveAt(s, j)[k] = IF k < j THEN s[k] ELSE s[k + 1]
<1> DEFINE a == SubSeq(s, 1, j - 1)
           b == SubSeq(s, j + 1, Len(s))
<1>0. Len(s) \in Nat /\ j \in Nat /\ 1 <= j /\ j <= Len(s)
  OBVIOUS
<1>1. a \in Seq(S) /\ Len(a) = j - 1 /\ \A k \in 1..(j - 1) : a[k] = s[k]
  BY <1>0
<1>2. b \in Seq(S) /\ Len(b) = Len(s) - j /\ \A k \in 1..(Len(s) - j) : b[k] = s[j + k]
  BY <1>0
<1>3. RemoveAt(s, j) = a \o b
  BY DEF RemoveAt
<1> HIDE DEF a, b
<1>4. /\ a \o b \in Seq(S) /\ Len(a \o b) = Len(s) - 1
  <2>1. a \o b \in Seq(S) /\ Len(a \o b) = Len(a) + Len(b)
    BY <1>1, <1>2, ConcatProperties
  <2> QED  BY <1>0, <1>1, <1>2, <2>1
<1>5. ASSUME NEW k \in 1..(Len(s) - 1)
      PROVE  (a \o b)[k] = IF k < j THEN s[k] ELSE s[k + 1]
  <2>1. CASE k < j
    BY <1>0, <1>1, <1>2, <2>1
  <2>2. CASE ~(k < j)
    <3>1. k - (j - 1) \in 1..(Len(s) - j) /\ j + (k - (j - 1)) = k + 1 /\ k > Len(a)
      BY <1>0, <1>1, <2>2
    <3>2. (a \o b)[k] = b[k - Len(a)]
      BY <1>0, <1>1, <1>2, <3>1, SMTT(30)
    <3> QED  BY <1>0, <1>1, <1>2, <2>2, <3>1, <3>2
  <2> QED  BY <2>1, <2>2
<1> QED  BY <1>3, <1>4, <1>5

\* Removing an element that a sequence holds at j and nowhere else.
LEMMA RemoveFacts ==
    ASSUME NEW S, NEW s \in Seq(S), NEW j \in 1..Len(s),
           \A k \in 1..Len(s) : s[k] = s[j] => k = j
    PROVE  RemoveFirst(s, s[j]) = RemoveAt(s, j)
<1> DEFINE e == s[j]
           I == {i \in 1..Len(s) : s[i] = e}
<1>1. I = {j}
  OBVIOUS
<1>2. SelectInSeq(s, LAMBDA v : v = e) = IF I # {} THEN Min(I) ELSE 0
  BY DEF SelectInSeq
<1>3. Min({j}) = j
  BY DEF Min
<1>4. SelectInSeq(s, LAMBDA v : v = e) = j
  BY <1>1, <1>2, <1>3
<1> QED  BY <1>4 DEF RemoveFirst

\* The position of a timer in the vector after the one at j has been removed; j = 0:
\* none was.
Shifted(k, j) == IF j = 0 \/ k < j THEN k ELSE k + 1

\* unregister_timer() of the timer at j, by a loop that is at i.
LEMMA UnregisterFacts ==
    ASSUME NEW r \in Queues, Once(r), NEW t \in Timers, NEW i \in Nat, In(r, t)
    PROVE  LET s == unregister_timer(r, t, i) IN
           /\ s \in Queues /\ s.next = r.next /\ s.wake = [r.wake EXCEPT ![t] = NEVER]
           /\ \E j \in 1..Len(r.timers) :
                /\ r.timers[j] = t /\ Len(s.timers) = Len(r.timers) - 1
                /\ \A k \in 1..(Len(r.timers) - 1) : s.timers[k] = r.timers[Shifted(k, j)]
                /\ r.missed \subseteq s.missed
                /\ j <= i /\ i + 1 <= Len(r.timers) => r.timers[i + 1] \in s.missed
<1> DEFINE m == IF i \in DOMAIN r.timers /\ i + 1 \in DOMAIN r.timers
                   /\ t \in {r.timers[k] : k \in 1..i}
                THEN r.missed \cup {r.timers[i + 1]} ELSE r.missed
           v == RemoveFirst(r.timers, t)
           s == unregister_timer(r, t, i)
<1>0. r.timers \in Seq(Timers) /\ r.missed \in SUBSET Timers /\ NEVER \in 0..NEVER
  BY ReactorAssumption DEF Queues
<1>1. PICK j \in 1..Len(r.timers) : r.timers[j] = t
  BY DEF In
<1>2. v = RemoveAt(r.timers, j)
  BY <1>0, <1>1, RemoveFacts DEF Once
<1>3. /\ v \in Seq(Timers) /\ Len(v) = Len(r.timers) - 1
      /\ \A k \in 1..(Len(r.timers) - 1) : v[k] = IF k < j THEN r.timers[k] ELSE r.timers[k + 1]
  BY <1>0, <1>2, RemoveAtFacts
<1>4. m \in SUBSET Timers /\ r.missed \subseteq m
  BY <1>0
<1>5. j <= i /\ i + 1 <= Len(r.timers) => r.timers[i + 1] \in m
  BY <1>0, <1>1
<1>6. s = [r EXCEPT !.wake[t] = NEVER, !.timers = v, !.missed = m]
  BY DEF unregister_timer
<1> HIDE DEF m, v, s
<1>7. /\ s \in Queues /\ s.next = r.next /\ s.wake = [r.wake EXCEPT ![t] = NEVER]
      /\ s.timers = v /\ s.missed = m
  BY <1>0, <1>3, <1>4, <1>6 DEF Queues
<1>8. \A k \in 1..(Len(r.timers) - 1) : s.timers[k] = r.timers[Shifted(k, j)]
  BY <1>3, <1>7 DEF Shifted
<1> QED  BY <1>1, <1>3, <1>4, <1>5, <1>7, <1>8 DEF s

\* The timers that are left.
LEMMA UnregisterOnce ==
    ASSUME NEW r \in Queues, Once(r), NEW t \in Timers, NEW i \in Nat, In(r, t)
    PROVE  LET s == unregister_timer(r, t, i) IN
           Once(s) /\ \A u : In(s, u) <=> In(r, u) /\ u # t
<1> DEFINE s == unregister_timer(r, t, i)
<1>f. \E j \in 1..Len(r.timers) :
        /\ r.timers[j] = t /\ Len(s.timers) = Len(r.timers) - 1
        /\ \A k \in 1..(Len(r.timers) - 1) : s.timers[k] = r.timers[Shifted(k, j)]
        /\ r.missed \subseteq s.missed
        /\ j <= i /\ i + 1 <= Len(r.timers) => r.timers[i + 1] \in s.missed
  BY UnregisterFacts
<1> HIDE DEF s
<1>1. PICK j \in 1..Len(r.timers) :
        /\ r.timers[j] = t /\ Len(s.timers) = Len(r.timers) - 1
        /\ \A k \in 1..(Len(r.timers) - 1) : s.timers[k] = r.timers[Shifted(k, j)]
  BY <1>f
<1>0. Len(r.timers) \in Nat
  BY DEF Queues
<1>2. \A k \in 1..Len(s.timers) : Shifted(k, j) \in 1..Len(r.timers) /\ Shifted(k, j) # j
  BY <1>0, <1>1 DEF Shifted
<1>3. Once(s)
  <2> SUFFICES ASSUME NEW k \in 1..Len(s.timers), NEW l \in 1..Len(s.timers),
                      s.timers[k] = s.timers[l]
               PROVE  k = l
    BY DEF Once
  <2>1. Shifted(k, j) = Shifted(l, j)
    BY <1>1, <1>2 DEF Once
  <2> QED  BY <1>0, <1>1, <2>1 DEF Shifted
<1>4. ASSUME NEW u, In(s, u) PROVE In(r, u) /\ u # t
  <2>1. PICK k \in 1..Len(s.timers) : s.timers[k] = u
    BY <1>4 DEF In
  <2>2. r.timers[Shifted(k, j)] = u
    BY <1>1, <2>1
  <2> QED  BY <1>1, <1>2, <2>2 DEF In, Once
<1>5. ASSUME NEW u, In(r, u), u # t PROVE In(s, u)
  <2>1. PICK k \in 1..Len(r.timers) : r.timers[k] = u
    BY <1>5 DEF In
  <2>2. k # j
    BY <1>1, <1>5, <2>1
  <2>3. CASE k < j
    <3>1. k \in 1..(Len(r.timers) - 1) /\ Shifted(k, j) = k
      BY <1>0, <2>3 DEF Shifted
    <3> QED  BY <1>1, <2>1, <3>1 DEF In
  <2>4. CASE k > j
    <3>1. k - 1 \in 1..(Len(r.timers) - 1) /\ Shifted(k - 1, j) = k
      BY <1>0, <2>4 DEF Shifted
    <3> QED  BY <1>1, <2>1, <3>1 DEF In
  <2> QED  BY <1>0, <2>2, <2>3, <2>4
<1> QED  BY <1>3, <1>4, <1>5 DEF s

\* What the loop is done with stays covered: the timer that slips under the
\* iterator is in missed.
LEMMA CoversUnregister ==
    ASSUME NEW r \in Queues, Once(r), NEW t \in Timers, In(r, t),
           NEW f \in Frames, f.at \in {"task", "lambda"},
           \A k \in 1..Len(r.timers) :
             Behind(f, k) /\ r.timers[k] # t /\ r.timers[k] \notin r.missed
               => r.next <= r.wake[r.timers[k]]
    PROVE  Covers(unregister_timer(r, t, f.i), f)
<1> DEFINE s == unregister_timer(r, t, f.i)
<1>0. Len(r.timers) \in Nat /\ f.i \in Nat /\ f.end \in Nat /\ r.timers \in Seq(Timers)
  BY DEF Queues, Frames
<1>1. /\ s \in Queues /\ s.next = r.next /\ s.wake = [r.wake EXCEPT ![t] = NEVER]
      /\ \E j \in 1..Len(r.timers) :
                /\ r.timers[j] = t /\ Len(s.timers) = Len(r.timers) - 1
                /\ \A k \in 1..(Len(r.timers) - 1) : s.timers[k] = r.timers[Shifted(k, j)]
                /\ r.missed \subseteq s.missed
                /\ j <= f.i /\ f.i + 1 <= Len(r.timers) => r.timers[f.i + 1] \in s.missed
  BY <1>0, UnregisterFacts
<1> HIDE DEF s
<1>2. PICK j \in 1..Len(r.timers) :
                /\ r.timers[j] = t /\ Len(s.timers) = Len(r.timers) - 1
                /\ \A k \in 1..(Len(r.timers) - 1) : s.timers[k] = r.timers[Shifted(k, j)]
                /\ r.missed \subseteq s.missed
                /\ j <= f.i /\ f.i + 1 <= Len(r.timers) => r.timers[f.i + 1] \in s.missed
  BY <1>1
<1> SUFFICES ASSUME NEW k \in 1..Len(s.timers), Behind(f, k), s.timers[k] \notin s.missed
             PROVE  s.next <= s.wake[s.timers[k]]
  BY DEF Covers, s
<1> DEFINE l == Shifted(k, j)
<1>3. l \in 1..Len(r.timers) /\ l # j /\ s.timers[k] = r.timers[l]
  BY <1>0, <1>2 DEF Shifted
<1>4. r.timers[l] # t /\ r.timers[l] \notin r.missed
  BY <1>2, <1>3 DEF Once
<1>5. Behind(f, l)
  <2>1. CASE l = k
    BY <2>1
  <2>2. CASE l = k + 1 /\ j <= k
    <3>1. ~(j <= f.i /\ l = f.i + 1)
      BY <1>2, <1>3
    <3> QED  BY <1>0, <2>2, <3>1 DEF Behind
  <2> QED  BY <1>0, <2>1, <2>2 DEF Shifted
<1>6. r.next <= r.wake[r.timers[l]]
  BY <1>3, <1>4, <1>5
<1>7. s.wake[r.timers[l]] = r.wake[r.timers[l]]
  BY <1>0, <1>1, <1>3, <1>4 DEF Queues
<1> QED  BY <1>1, <1>3, <1>6, <1>7

-----------------------------------------------------------------------------
(* The steps of a callback                                                  *)

\* What the invariant says besides the types and the mutex.
Control == Running /\ Pooled /\ TimersInv /\ Idle /\ LoopInv /\ CoverInv

\* The frames that the model starts from.
LEMMA FreshFacts ==
    /\ Fresh \in Frames /\ Fresh.at = "none" /\ Fresh.i = 0 /\ Fresh.end = 0
    /\ Fresh.t = Fd /\ Fresh.why = "run" /\ ~Fresh.holds
<1> DEFINE no == FALSE
<1>1. Fresh = [at |-> "none", i |-> 0, end |-> 0, t |-> Fd, why |-> "run", ops |-> 0, holds |-> no]
      /\ ~no /\ no \in BOOLEAN
  BY DEF Fresh
<1> HIDE DEF no
<1> QED  BY <1>1 DEF Frames, States, Sources

\* An operation that does not pause.
LEMMA OpKeeps ==
    ASSUME Inv, NEW h \in Greenlets, At(h, "task"),
           NEW f \in Frames, f.at = "task", f.i = gl[h].i, f.end = gl[h].end, f.t = gl[h].t,
           gl' = [gl EXCEPT ![h] = f], UNCHANGED <<g_dispatch, cur, greenlets>>,
           q' \in Queues, Once(q'), \A g \in Greenlets : In(q', g) <=> In(q, g),
           Covers(q', gl[g_dispatch])
    PROVE  Control' /\ gl' \in [Greenlets -> Frames]
<1>0. cur = h /\ gl[h].at = "task" /\ gl \in [Greenlets -> Frames] /\ g_dispatch \in Greenlets
  BY DEF Inv, Types, At
<1>1. gl' \in [Greenlets -> Frames]
  BY <1>0
<1>2. \A g \in Greenlets : g # h => gl'[g] = gl[g]
  BY <1>0
<1>3. gl'[h] = f
  BY <1>0
<1>4. \A g \in Greenlets : gl'[g].at = gl[g].at /\ gl'[g].i = gl[g].i /\ gl'[g].end = gl[g].end
                           /\ gl'[g].t = gl[g].t
  BY <1>0, <1>2, <1>3
<1>5. Running'
  BY <1>0, <1>4 DEF Inv, Running
<1>6. Pooled'
  <2>1. \A k \in 1..Len(greenlets) : greenlets[k] \in Greenlets
    BY DEF Inv, Types
  <2> QED  BY <1>4, <2>1 DEF Inv, Pooled
<1>7. TimersInv'
  BY <1>4 DEF Inv, TimersInv, HasTimer, Once, In
<1>8. Idle'
  BY <1>0, <1>2, <1>3 DEF Inv, Idle
<1>9. LoopInv'
  BY <1>0, <1>4 DEF Inv, LoopInv
<1>10. CoverInv'
  BY <1>0, <1>4 DEF CoverInv, Covers, Behind
<1> QED  BY <1>1, <1>5, <1>6, <1>7, <1>8, <1>9, <1>10 DEF Control

\* A paused greenlet's timer, and the dispatcher that takes over.
LEMMA PauseTimerFacts ==
    ASSUME Inv, NEW h \in Greenlets, NEW w \in 0..NEVER, ~In(q, h)
    PROVE  LET s == PauseTimer(q, h, w) IN
           /\ s \in Queues /\ s.next = 0 /\ Once(s)
           /\ \A u : In(s, u) <=> In(q, u) \/ u = h
<1> DEFINE r == register_timer(q, h, w)
           s == PauseTimer(q, h, w)
<1>0. q \in Queues /\ h \in Timers /\ Once(q)
  BY DEF Inv, Types, TimersInv, Timers
<1>1. r \in Queues /\ Once(r) /\ \A u : In(r, u) <=> In(q, u) \/ u = h
  BY <1>0, RegisterFacts, RegisterOnce
<1>2. s = [r EXCEPT !.next = 0]
  BY DEF PauseTimer
<1> HIDE DEF r, s
<1>3. s \in Queues /\ s.next = 0 /\ s.timers = r.timers
  <2>1. 0 \in 0..NEVER
    BY ReactorAssumption
  <2> QED  BY <1>1, <1>2, <2>1 DEF Queues
<1>4. Once(s) /\ \A u : In(s, u) <=> In(r, u)
  BY <1>1, <1>3 DEF Once, In
<1> QED  BY <1>1, <1>3, <1>4 DEF s

\* The greenlet that becomes the dispatcher.
LEMMA ResumedFacts ==
    ASSUME NEW g
    PROVE  /\ Resumed(g) \in Frames /\ Resumed(g).at \in {"check", "poll"}
           /\ Resumed(g).i = 0 /\ Resumed(g).end = 0
           /\ Resumed(g).why = "run" /\ ~Resumed(g).holds
<1> DEFINE a == IF gl[g].at = "pool" /\ gl[g].t # Fd THEN "poll" ELSE "check"
<1>1. a \in {"check", "poll"} /\ Resumed(g) = [Fresh EXCEPT !.at = a]
  BY DEF Resumed
<1> HIDE DEF a
<1> QED  BY <1>1, FreshFacts DEF Frames, States

\* A sequence without its last element.
LEMMA FrontFacts ==
    ASSUME NEW S, NEW s \in Seq(S), s # <<>>
    PROVE  LET p == SubSeq(s, 1, Len(s) - 1) IN
           /\ p \in Seq(S) /\ Len(p) = Len(s) - 1
           /\ \A k \in 1..(Len(s) - 1) : p[k] = s[k]
<1>1. Len(s) \in Nat /\ Len(s) # 0
  OBVIOUS
<1> DEFINE n == Len(s) - 1
<1>2. n \in Nat /\ n = Len(s) - 1 /\ \A i \in 1..n : s[i] \in S
  BY <1>1
<1> HIDE DEF n
<1>3. /\ SubSeq(s, 1, n) \in Seq(S) /\ Len(SubSeq(s, 1, n)) = IF 1 <= n THEN n - 1 + 1 ELSE 0
      /\ \A i \in 1..(n - 1 + 1) : SubSeq(s, 1, n)[i] = s[1 + i - 1]
  <2>1. 1 \in Int /\ n \in Int
    BY <1>2
  <2> QED  BY <1>2, <2>1, SubSeqProperties
<1>4. Len(SubSeq(s, 1, n)) = n /\ \A i \in 1..n : SubSeq(s, 1, n)[i] = s[i]
  BY <1>2, <1>3
<1> QED  BY <1>2, <1>3, <1>4

\* The loop of frame f goes on with the next timer.
LEMMA NextFrame ==
    ASSUME NEW f \in Frames
    PROVE  LET e == [f EXCEPT !.at = "pass", !.i = @ + 1] IN
           /\ e \in Frames /\ e.at = "pass" /\ e.i = f.i + 1 /\ e.end = f.end
           /\ e.holds = f.holds /\ e.why = f.why
<1> DEFINE n == f.i + 1
<1>1. n \in Nat /\ n = f.i + 1
  BY DEF Frames
<1> HIDE DEF n
<1>2. "pass" \in States
  BY DEF States
<1>3. /\ [f EXCEPT !.at = "pass", !.i = n] \in Frames
      /\ LET e == [f EXCEPT !.at = "pass", !.i = n] IN
         /\ e.at = "pass" /\ e.i = n /\ e.end = f.end /\ e.holds = f.holds /\ e.why = f.why
  BY <1>1, <1>2 DEF Frames
<1> QED  BY <1>1, <1>3

\* pause() in the dispatcher.
LEMMA DispatcherPauses ==
    ASSUME Inv, NEW h \in Greenlets, At(h, "task"), h = g_dispatch, NEW f \in Frames,
           f.holds = gl[h].holds, NEW w \in 0..NEVER, pause(q, h, f, w)
    PROVE  /\ Control' /\ q' \in Queues /\ gl' \in [Greenlets -> Frames]
           /\ g_dispatch' \in Greenlets /\ cur' \in Greenlets /\ greenlets' \in Seq(Greenlets)
           /\ \A g \in Greenlets : gl'[g].holds = gl[g].holds
<1>0. /\ cur = h /\ gl[h].at = "task" /\ gl \in [Greenlets -> Frames]
      /\ greenlets \in Seq(Greenlets)
  BY DEF Inv, Types, At
<1>1. PICK g : /\ g = IF greenlets # <<>> THEN Last(greenlets) ELSE CHOOSE n \in New : TRUE
               /\ greenlets # <<>> \/ New # {}
               /\ greenlets' = IF greenlets # <<>> THEN Front(greenlets) ELSE greenlets
               /\ q' = PauseTimer(q, h, w)
               /\ gl' = [gl EXCEPT ![h] = [f EXCEPT !.at = "wait", !.i = 0, !.end = 0],
                                   ![g] = Resumed(g)]
               /\ g_dispatch' = g /\ cur' = g
  BY DEF pause
<1>2. /\ g \in Greenlets /\ gl[g].at \in {"none", "pool"} /\ greenlets' \in Seq(Greenlets)
      /\ IsInjective(greenlets')
      /\ \A k \in 1..Len(greenlets') : greenlets'[k] # g /\ greenlets'[k] \in Greenlets
                                       /\ gl[greenlets'[k]].at = "pool"
  <2>1. CASE greenlets # <<>>
    <3>1. /\ Len(greenlets) \in 1..Len(greenlets) /\ g = greenlets[Len(greenlets)]
          /\ greenlets' = SubSeq(greenlets, 1, Len(greenlets) - 1)
      BY <1>0, <1>1, <2>1 DEF Last, Front
    <3>2. /\ greenlets' \in Seq(Greenlets) /\ Len(greenlets') = Len(greenlets) - 1
          /\ \A k \in 1..Len(greenlets') : greenlets'[k] = greenlets[k] /\ k \in 1..Len(greenlets)
      <4>1. Len(greenlets) \in Nat /\ Len(greenlets) - 1 \in Nat
        BY <1>0, <3>1
      <4>2. /\ greenlets' \in Seq(Greenlets) /\ Len(greenlets') = Len(greenlets) - 1
            /\ \A k \in 1..(Len(greenlets) - 1) : greenlets'[k] = greenlets[k]
        BY <1>0, <2>1, <3>1, FrontFacts
      <4> QED  BY <4>1, <4>2
    <3>3. \A k, l \in 1..Len(greenlets) : greenlets[k] = greenlets[l] => k = l
      BY <1>0 DEF Inv, Pooled, IsInjective
    <3>4. \A k \in 1..Len(greenlets) : greenlets[k] \in Greenlets /\ gl[greenlets[k]].at = "pool"
      BY <1>0 DEF Inv, Pooled
    <3>5. IsInjective(greenlets')
      BY <3>2, <3>3 DEF IsInjective
    <3>6. \A k \in 1..Len(greenlets') : greenlets'[k] # g
      BY <3>1, <3>2, <3>3
    <3> QED  BY <3>1, <3>2, <3>4, <3>5, <3>6
  <2>2. CASE greenlets = <<>>
    <3>1. g \in New /\ greenlets' = <<>>
      BY <1>1, <2>2
    <3> QED  BY <1>0, <2>2, <3>1 DEF New, IsInjective
  <2> QED  BY <2>1, <2>2
<1>3. g # h
  BY <1>0, <1>2
<1>4. /\ gl'[h] = [f EXCEPT !.at = "wait", !.i = 0, !.end = 0] /\ gl'[g] = Resumed(g)
      /\ \A x \in Greenlets : x # g /\ x # h => gl'[x] = gl[x]
  BY <1>0, <1>1, <1>2, <1>3
<1>5. [f EXCEPT !.at = "wait", !.i = 0, !.end = 0] \in Frames
  BY DEF Frames, States
<1>6. gl' \in [Greenlets -> Frames]
  BY <1>0, <1>1, <1>5, ResumedFacts
<1>7. gl'[h].at = "wait" /\ gl'[h].holds = gl[h].holds
  BY <1>4 DEF Frames
<1>8. \A x \in Greenlets : gl'[x].holds = gl[x].holds
  <2>1. ~gl[g].holds
    BY <1>2 DEF Inv, Idle
  <2>2. gl'[g].holds = gl[g].holds
    BY <1>0, <1>2, <1>4, <2>1, ResumedFacts DEF Frames
  <2> QED  BY <1>4, <1>7, <2>2
<1>9. ~In(q, h) /\ ~In(q, g)
  BY <1>0, <1>2, <1>3 DEF Inv, TimersInv, HasTimer
<1>10. q' \in Queues /\ q'.next = 0 /\ Once(q') /\ \A u : In(q', u) <=> In(q, u) \/ u = h
  BY <1>1, <1>9, PauseTimerFacts
<1>11. Running'
  BY <1>0, <1>1, <1>4, <1>7, ResumedFacts DEF Inv, Running
<1>12. Pooled'
  <2>1. \A k \in 1..Len(greenlets') : gl'[greenlets'[k]].at = "pool"
    BY <1>0, <1>2, <1>4
  <2> QED  BY <1>2, <2>1 DEF Pooled
<1>13. TimersInv'
  <2>1. ASSUME NEW x \in Greenlets PROVE HasTimer(x)' <=> In(q', x)
    <3>1. CASE x = h
      BY <1>7, <1>10, <3>1 DEF HasTimer
    <3>2. CASE x = g
      BY <1>1, <1>3, <1>4, <1>9, <1>10, <3>2, ResumedFacts DEF HasTimer
    <3>3. CASE x # g /\ x # h
      BY <1>0, <1>1, <1>4, <1>10, <3>3 DEF HasTimer, Inv, TimersInv
    <3> QED  BY <3>1, <3>2, <3>3
  <2> QED  BY <1>10, <2>1 DEF TimersInv, Once, In
<1>14. Idle'
  <2>1. ASSUME NEW x \in Greenlets, gl'[x].at \notin {"task", "wait"}
        PROVE  ~gl'[x].holds /\ gl'[x].why = "run"
    <3>1. CASE x = g
      BY <1>4, <3>1, ResumedFacts
    <3>2. CASE x # g
      BY <1>4, <1>7, <2>1, <3>2 DEF Inv, Idle
    <3> QED  BY <3>1, <3>2
  <2> QED  BY <2>1 DEF Idle
<1>15. LoopInv'
  BY <1>1, <1>4, ResumedFacts DEF LoopInv
<1>16. CoverInv'
  <2>1. Covers(q', gl'[g_dispatch'])
    BY <1>10, CoversZero
  <2> QED  BY <2>1 DEF CoverInv, Covers, Behind
<1> QED  BY <1>1, <1>2, <1>6, <1>8, <1>10, <1>11, <1>12, <1>13, <1>14, <1>15, <1>16 DEF Control

\* pause() in a greenlet that a timer had resumed.
LEMMA ResumedPauses ==
    ASSUME Inv, NEW h \in Greenlets, At(h, "task"), h # g_dispatch, NEW f \in Frames,
           f.holds = gl[h].holds, NEW w \in 0..NEVER, pause(q, h, f, w)
    PROVE  /\ Control' /\ q' \in Queues /\ gl' \in [Greenlets -> Frames]
           /\ g_dispatch' \in Greenlets /\ cur' \in Greenlets /\ greenlets' \in Seq(Greenlets)
           /\ \A g \in Greenlets : gl'[g].holds = gl[g].holds
<1> DEFINE d == g_dispatch
           e == [gl[d] EXCEPT !.at = "pass", !.i = @ + 1]
           b == [f EXCEPT !.at = "wait"]
<1>0. /\ cur = h /\ gl[h].at = "task" /\ gl \in [Greenlets -> Frames] /\ d \in Greenlets
      /\ greenlets \in Seq(Greenlets) /\ q \in Queues /\ h \in Timers
  BY DEF Inv, Types, At, Timers
<1>1. gl[d].at = "lambda" /\ In(q, h) /\ ~In(q, d)
  BY <1>0 DEF Inv, Running, TimersInv, HasTimer
<1>2. /\ q' = update_timer(q, h, w) /\ gl' = [gl EXCEPT ![h] = b, ![d] = e]
      /\ cur' = d /\ UNCHANGED <<g_dispatch, greenlets>>
  BY <1>0 DEF pause
<1>3. b \in Frames /\ b.at = "wait" /\ b.holds = gl[h].holds
  BY DEF Frames, States
<1>4. /\ e \in Frames /\ e.at = "pass" /\ e.i = gl[d].i + 1 /\ e.end = gl[d].end
      /\ e.holds = gl[d].holds /\ e.why = gl[d].why
  <2>1. gl[d] \in Frames
    BY <1>0
  <2> QED  BY <2>1, NextFrame
<1> HIDE DEF b, e
<1>5. /\ gl' \in [Greenlets -> Frames] /\ gl'[h] = b /\ gl'[d] = e
      /\ \A x \in Greenlets : x # d /\ x # h => gl'[x] = gl[x]
  BY <1>0, <1>2, <1>3, <1>4
<1>6. \A x \in Greenlets : gl'[x].holds = gl[x].holds
  BY <1>3, <1>4, <1>5
<1>7. q' \in Queues /\ q'.timers = q.timers
  BY <1>0, <1>2, UpdateFacts
<1>8. Running'
  BY <1>0, <1>2, <1>3, <1>4, <1>5 DEF Inv, Running
<1>9. Pooled'
  <2>1. \A k \in 1..Len(greenlets) : greenlets[k] \in Greenlets /\ gl[greenlets[k]].at = "pool"
    BY <1>0 DEF Inv, Pooled
  <2>2. \A k \in 1..Len(greenlets) : gl'[greenlets[k]].at = "pool"
    BY <1>0, <1>1, <1>5, <2>1
  <2> QED  BY <1>2, <2>2 DEF Inv, Pooled
<1>10. TimersInv'
  <2>1. ASSUME NEW x \in Greenlets PROVE HasTimer(x)' <=> In(q, x)
    <3>1. CASE x = h
      BY <1>1, <1>3, <1>5, <3>1 DEF HasTimer
    <3>2. CASE x = d
      BY <1>1, <1>2, <1>4, <1>5, <3>2 DEF HasTimer
    <3>3. CASE x # d /\ x # h
      BY <1>0, <1>2, <1>5, <3>3 DEF HasTimer, Inv, TimersInv
    <3> QED  BY <3>1, <3>2, <3>3
  <2> QED  BY <1>7, <2>1 DEF Inv, TimersInv, Once, In
<1>11. Idle'
  <2>1. ASSUME NEW x \in Greenlets, gl'[x].at \notin {"task", "wait"}
        PROVE  ~gl'[x].holds /\ gl'[x].why = "run"
    <3>1. CASE x = d
      BY <1>0, <1>1, <1>4, <1>5, <3>1 DEF Inv, Idle
    <3>2. CASE x # d
      BY <1>3, <1>5, <2>1, <3>2 DEF Inv, Idle
    <3> QED  BY <3>1, <3>2
  <2> QED  BY <2>1 DEF Idle
<1>12. LoopInv'
  <2>1. gl[d].i \in Nat
    BY <1>0 DEF Frames
  <2> QED  BY <1>2, <1>4, <1>5, <2>1 DEF LoopInv
<1>13. CoverInv'
  <2>1. Covers(q', gl[d])
    BY <1>0, <1>2, CoversUpdate DEF Inv, CoverInv
  <2>2. gl[d].i \in Nat /\ gl[d].end \in Nat
    BY <1>0 DEF Frames
  <2>3. \A k \in 1..Len(q'.timers) : Behind(e, k) => Behind(gl[d], k)
    BY <1>1, <1>4, <2>2 DEF Behind
  <2>4. Covers(q', e)
    BY <2>1, <2>3 DEF Covers
  <2> QED  BY <1>2, <1>5, <2>4 DEF CoverInv, Covers, Behind
<1> QED  BY <1>0, <1>2, <1>5, <1>6, <1>7, <1>8, <1>9, <1>10, <1>11, <1>12, <1>13 DEF Control

\* pause()
LEMMA PauseKeeps ==
    ASSUME Inv, NEW h \in Greenlets, At(h, "task"), NEW f \in Frames,
           f.holds = gl[h].holds, NEW w \in 0..NEVER, pause(q, h, f, w)
    PROVE  /\ Control' /\ q' \in Queues /\ gl' \in [Greenlets -> Frames]
           /\ g_dispatch' \in Greenlets /\ cur' \in Greenlets /\ greenlets' \in Seq(Greenlets)
           /\ \A g \in Greenlets : gl'[g].holds = gl[g].holds
  BY DispatcherPauses, ResumedPauses

Mutexes == [is_locked : BOOLEAN, next_pending : BOOLEAN, queue : Seq(Greenlets)]

\* The invariant in three parts.
LEMMA InvParts ==
    ASSUME Control', MutexInv', q' \in Queues, gl' \in [Greenlets -> Frames],
           g_dispatch' \in Greenlets, cur' \in Greenlets, greenlets' \in Seq(Greenlets),
           mutex' \in Mutexes, completed' \in BOOLEAN
    PROVE  Inv'
  BY DEF Inv, Control, Types, Mutexes

\* The state of a greenlet in a callback, less an operation.
LEMMA UsedFacts ==
    ASSUME Inv, NEW h \in Greenlets, Op(h)
    PROVE  /\ Used(h) \in Frames /\ Used(h).at = "task" /\ Used(h).i = gl[h].i
           /\ Used(h).end = gl[h].end /\ Used(h).t = gl[h].t /\ Used(h).holds = gl[h].holds
           /\ Used(h).why = "run"
<1> DEFINE n == gl[h].ops - 1
           b == gl[h]
<1>1. b \in Frames /\ b.at = "task" /\ b.why = "run" /\ b.ops > 0
  BY DEF Inv, Types, Op, At
<1>2. n \in Nat
  BY <1>1 DEF Frames
<1>3. Used(h) = [b EXCEPT !.ops = n]
  BY DEF Used
<1> HIDE DEF n, b
<1>4. /\ Used(h) \in Frames /\ Used(h).at = "task" /\ Used(h).i = b.i
      /\ Used(h).end = b.end /\ Used(h).t = b.t /\ Used(h).holds = b.holds
      /\ Used(h).why = "run"
  BY <1>1, <1>2, <1>3 DEF Frames
<1> QED  BY <1>4 DEF b

\* The waketimes are in range.
LEMMA TimesInRange ==
    0 \in 0..NEVER /\ NEVER \in 0..NEVER /\ Period \in 0..NEVER /\ \A w \in Delays : w \in 0..NEVER
  BY ReactorAssumption

\* A step that neither takes nor gives the mutex.
LEMMA MutexSame ==
    ASSUME Inv, UNCHANGED mutex, \A g \in Greenlets : gl'[g].holds = gl[g].holds
    PROVE  MutexInv' /\ mutex' \in Mutexes
<1>1. mutex' \in Mutexes
  BY DEF Inv, Types, Mutexes
<1>2. MutexInv'
  BY DEF Inv, MutexInv
<1> QED  BY <1>1, <1>2

\* pause()
LEMMA PauseStep ==
    ASSUME Inv, NEW h \in Greenlets, Pause(h)
    PROVE  Inv'
<1>1. PICK w \in Delays : pause(q, h, Used(h), w)
  BY DEF Pause
<1>2. w \in 0..NEVER /\ At(h, "task") /\ Used(h) \in Frames /\ Used(h).holds = gl[h].holds
  BY TimesInRange, UsedFacts DEF Pause, Op
<1>3. /\ Control' /\ q' \in Queues /\ gl' \in [Greenlets -> Frames]
      /\ g_dispatch' \in Greenlets /\ cur' \in Greenlets /\ greenlets' \in Seq(Greenlets)
      /\ \A g \in Greenlets : gl'[g].holds = gl[g].holds
  BY <1>1, <1>2, PauseKeeps
<1>4. MutexInv' /\ mutex' \in Mutexes
  BY <1>3, MutexSame DEF Pause
<1>5. completed' \in BOOLEAN
  BY DEF Pause, Inv, Types
<1> QED  BY <1>3, <1>4, <1>5, InvParts

\* A frame with another wait.
LEMMA WhyFacts ==
    ASSUME NEW f \in Frames, NEW y \in {"run", "lock", "completion"}
    PROVE  LET e == [f EXCEPT !.why = y] IN
           /\ e \in Frames /\ e.at = f.at /\ e.i = f.i /\ e.end = f.end /\ e.t = f.t
           /\ e.holds = f.holds
  BY DEF Frames

\* A frame with another hold.
LEMMA HoldFacts ==
    ASSUME NEW f \in Frames, NEW b \in BOOLEAN
    PROVE  LET e == [f EXCEPT !.holds = b] IN
           /\ e \in Frames /\ e.at = f.at /\ e.i = f.i /\ e.end = f.end /\ e.t = f.t
           /\ e.holds = b
  BY DEF Frames

\* A frame that wakes with the mutex.
LEMMA GrantFacts ==
    ASSUME NEW f \in Frames, NEW b \in BOOLEAN
    PROVE  LET e == [f EXCEPT !.why = "run", !.holds = b] IN
           /\ e \in Frames /\ e.at = f.at /\ e.i = f.i /\ e.end = f.end /\ e.t = f.t
           /\ e.holds = b
  BY DEF Frames

\* The invariant about the queue, for a step that leaves the timers alone.
LEMMA QueueSame ==
    ASSUME Inv, UNCHANGED q
    PROVE  /\ q' \in Queues /\ Once(q') /\ \A g \in Greenlets : In(q', g) <=> In(q, g)
           /\ Covers(q', gl[g_dispatch])
<1>1. q \in Queues /\ Once(q) /\ Covers(q, gl[g_dispatch])
  BY DEF Inv, Types, TimersInv, CoverInv
<1> QED  BY <1>1

\* lock()
LEMMA LockStep ==
    ASSUME Inv, NEW h \in Greenlets, lock(h)
    PROVE  Inv'
<1> DEFINE yes == TRUE
<1>0. /\ Op(h) /\ At(h, "task") /\ ~gl[h].holds /\ completed' \in BOOLEAN
      /\ Used(h) \in Frames /\ Used(h).at = "task" /\ Used(h).holds = gl[h].holds
      /\ Used(h).i = gl[h].i /\ Used(h).end = gl[h].end /\ Used(h).t = gl[h].t
  BY UsedFacts DEF lock, Op, Inv, Types
<1>t. /\ mutex \in Mutexes /\ gl \in [Greenlets -> Frames] /\ g_dispatch \in Greenlets
      /\ cur \in Greenlets /\ greenlets \in Seq(Greenlets)
  BY DEF Inv, Types, Mutexes
<1>1. CASE /\ LockFree
           /\ mutex' = [mutex EXCEPT !.is_locked = TRUE]
           /\ gl' = [gl EXCEPT ![h] = [Used(h) EXCEPT !.holds = TRUE]]
           /\ UNCHANGED <<q, g_dispatch, cur, greenlets>>
  <2> DEFINE e == [Used(h) EXCEPT !.holds = yes]
  <2>1. /\ yes \in BOOLEAN /\ yes /\ mutex' = [mutex EXCEPT !.is_locked = yes]
        /\ gl' = [gl EXCEPT ![h] = e]
    BY <1>1
  <2> HIDE DEF yes
  <2>2. /\ e \in Frames /\ e.at = "task" /\ e.i = gl[h].i /\ e.end = gl[h].end /\ e.t = gl[h].t
        /\ e.holds = yes
    BY <1>0, <2>1, HoldFacts
  <2> HIDE DEF e
  <2>3. Control' /\ gl' \in [Greenlets -> Frames]
    BY <1>0, <1>1, <2>1, <2>2, QueueSame, OpKeeps
  <2>4. mutex' \in Mutexes /\ mutex'.is_locked = yes /\ mutex'.next_pending = mutex.next_pending
    BY <1>t, <2>1 DEF Mutexes
  <2>5. gl'[h].holds = yes /\ \A g \in Greenlets : g # h => gl'[g].holds = gl[g].holds
    BY <1>t, <2>1, <2>2
  <2>6. ~mutex.is_locked /\ ~mutex.next_pending /\ \A g \in Greenlets : ~gl[g].holds
    BY <1>1 DEF LockFree, Inv, MutexInv
  <2>7. MutexInv'
    BY <2>1, <2>4, <2>5, <2>6 DEF MutexInv
  <2>8. q' \in Queues
    BY <1>1, QueueSame
  <2> QED  BY <1>0, <1>1, <1>t, <2>3, <2>4, <2>7, <2>8, InvParts
<1>2. CASE /\ ~LockFree
           /\ mutex' = [mutex EXCEPT !.queue = Append(@, h)]
           /\ pause(q, h, [Used(h) EXCEPT !.why = "lock"], NEVER)
  <2> DEFINE e == [Used(h) EXCEPT !.why = "lock"]
  <2>1. /\ e \in Frames /\ e.holds = gl[h].holds
    BY <1>0, WhyFacts
  <2> HIDE DEF e
  <2>2. /\ Control' /\ q' \in Queues /\ gl' \in [Greenlets -> Frames]
        /\ g_dispatch' \in Greenlets /\ cur' \in Greenlets /\ greenlets' \in Seq(Greenlets)
        /\ \A g \in Greenlets : gl'[g].holds = gl[g].holds
    BY <1>0, <1>2, <2>1, TimesInRange, PauseKeeps DEF e
  <2> DEFINE a == Append(mutex.queue, h)
  <2>3. a \in Seq(Greenlets) /\ a # <<>>
    <3>1. mutex.queue \in Seq(Greenlets)
      BY <1>t DEF Mutexes
    <3>2. a \in Seq(Greenlets) /\ Len(a) = Len(mutex.queue) + 1 /\ Len(mutex.queue) \in Nat
      BY <3>1
    <3> QED  BY <3>2
  <2>4. mutex' = [mutex EXCEPT !.queue = a]
    BY <1>2
  <2> HIDE DEF a
  <2>5. /\ mutex' \in Mutexes /\ mutex'.is_locked = mutex.is_locked
        /\ mutex'.next_pending = mutex.next_pending /\ mutex'.queue = a
    BY <1>t, <2>3, <2>4 DEF Mutexes
  <2>6. MutexInv'
    BY <2>2, <2>3, <2>5 DEF Inv, MutexInv
  <2> QED  BY <1>0, <2>2, <2>5, <2>6, InvParts
<1> QED  BY <1>1, <1>2 DEF lock

\* The greenlet wakes in lock().
LEMMA LockWakesStep ==
    ASSUME Inv, NEW h \in Greenlets, LockWakes(h)
    PROVE  Inv'
<1> DEFINE yes == TRUE
           no == FALSE
<1>0. At(h, "task") /\ gl[h] \in Frames /\ gl[h].at = "task" /\ completed' \in BOOLEAN
  BY DEF LockWakes, Inv, Types, At
<1>t. /\ mutex \in Mutexes /\ gl \in [Greenlets -> Frames] /\ g_dispatch \in Greenlets
      /\ cur \in Greenlets /\ greenlets \in Seq(Greenlets)
  BY DEF Inv, Types, Mutexes
<1>1. CASE mutex.next_pending /\ Head(mutex.queue) = h
  <2> DEFINE e == [gl[h] EXCEPT !.why = "run", !.holds = yes]
             a == Tail(mutex.queue)
  <2>0. mutex.is_locked /\ mutex.queue # <<>> /\ \A g \in Greenlets : ~gl[g].holds
    BY <1>1 DEF Inv, MutexInv
  <2>1. /\ yes \in BOOLEAN /\ yes /\ no \in BOOLEAN /\ ~no
        /\ mutex' = [mutex EXCEPT !.next_pending = no, !.queue = a]
        /\ gl' = [gl EXCEPT ![h].why = "run", ![h].holds = yes]
        /\ UNCHANGED <<q, g_dispatch, cur, greenlets>>
    BY <1>1 DEF LockWakes
  <2> HIDE DEF yes, no
  <2>2. /\ e \in Frames /\ e.at = "task" /\ e.i = gl[h].i /\ e.end = gl[h].end /\ e.t = gl[h].t
        /\ e.holds = yes
    BY <1>0, <2>1, GrantFacts
  <2>9. gl' = [gl EXCEPT ![h] = e]
    BY <1>t, <2>1
  <2> HIDE DEF e
  <2>3. Control' /\ gl' \in [Greenlets -> Frames]
    BY <1>0, <2>1, <2>2, <2>9, QueueSame, OpKeeps
  <2>a. a \in Seq(Greenlets)
    BY <1>t, <2>0 DEF Mutexes
  <2> HIDE DEF a
  <2>4. mutex' \in Mutexes /\ mutex'.is_locked = mutex.is_locked /\ mutex'.next_pending = no
    BY <1>t, <2>1, <2>a DEF Mutexes
  <2>5. gl'[h].holds = yes /\ \A g \in Greenlets : g # h => gl'[g].holds = gl[g].holds
    BY <1>t, <2>2, <2>9
  <2>7. MutexInv'
    BY <2>0, <2>1, <2>4, <2>5 DEF MutexInv
  <2>8. q' \in Queues
    BY <2>1, QueueSame
  <2> QED  BY <1>0, <1>t, <2>1, <2>3, <2>4, <2>7, <2>8, InvParts
<1>2. CASE ~(mutex.next_pending /\ Head(mutex.queue) = h)
  <2>1. pause(q, h, gl[h], NEVER) /\ UNCHANGED mutex
    BY <1>2 DEF LockWakes
  <2>2. /\ Control' /\ q' \in Queues /\ gl' \in [Greenlets -> Frames]
        /\ g_dispatch' \in Greenlets /\ cur' \in Greenlets /\ greenlets' \in Seq(Greenlets)
        /\ \A g \in Greenlets : gl'[g].holds = gl[g].holds
    BY <1>0, <2>1, TimesInRange, PauseKeeps
  <2>3. MutexInv' /\ mutex' \in Mutexes
    BY <2>1, <2>2, MutexSame
  <2> QED  BY <1>0, <2>2, <2>3, InvParts
<1> QED  BY <1>1, <1>2

\* unlock()
LEMMA UnlockStep ==
    ASSUME Inv, NEW h \in Greenlets, unlock(h)
    PROVE  Inv'
<1> DEFINE yes == TRUE
           no == FALSE
           e == [gl[h] EXCEPT !.holds = no]
<1>0. /\ At(h, "task") /\ gl[h] \in Frames /\ gl[h].at = "task" /\ gl[h].holds
      /\ completed' \in BOOLEAN /\ UNCHANGED <<g_dispatch, cur, greenlets>>
  BY DEF unlock, Inv, Types, At
<1>t. /\ mutex \in Mutexes /\ gl \in [Greenlets -> Frames] /\ g_dispatch \in Greenlets
      /\ cur \in Greenlets /\ greenlets \in Seq(Greenlets) /\ q \in Queues
  BY DEF Inv, Types, Mutexes
<1>1. /\ yes \in BOOLEAN /\ yes /\ no \in BOOLEAN /\ ~no /\ gl' = [gl EXCEPT ![h].holds = no]
      /\ IF mutex.queue = <<>>
         THEN mutex' = [mutex EXCEPT !.is_locked = no] /\ q' = q
         ELSE mutex' = [mutex EXCEPT !.next_pending = yes] /\ q' = HandOver
  BY DEF unlock
<1> HIDE DEF yes, no
<1>2. /\ e \in Frames /\ e.at = "task" /\ e.i = gl[h].i /\ e.end = gl[h].end /\ e.t = gl[h].t
      /\ e.holds = no
  BY <1>0, <1>1, HoldFacts
<1>3. gl' = [gl EXCEPT ![h] = e]
  BY <1>t, <1>1
<1> HIDE DEF e
<1>4. gl'[h].holds = no /\ \A g \in Greenlets : g # h => gl'[g].holds = gl[g].holds
  BY <1>t, <1>2, <1>3
<1>5. mutex.is_locked /\ ~mutex.next_pending /\ \A g \in Greenlets : g # h => ~gl[g].holds
  BY <1>0 DEF Inv, MutexInv
<1>6. \A g \in Greenlets : ~gl'[g].holds
  BY <1>1, <1>4, <1>5
<1>7. CASE mutex.queue = <<>>
  <2>1. mutex' = [mutex EXCEPT !.is_locked = no] /\ q' = q
    BY <1>1, <1>7
  <2>2. mutex' \in Mutexes /\ mutex'.is_locked = no /\ mutex'.next_pending = mutex.next_pending
    BY <1>t, <1>1, <2>1 DEF Mutexes
  <2>3. MutexInv'
    BY <1>1, <1>5, <1>6, <2>2 DEF MutexInv
  <2>4. q' \in Queues /\ Control' /\ gl' \in [Greenlets -> Frames]
    BY <1>0, <1>2, <1>3, <2>1, QueueSame, OpKeeps
  <2> QED  BY <1>0, <1>t, <2>2, <2>3, <2>4, InvParts
<1>8. CASE mutex.queue # <<>>
  <2>1. mutex' = [mutex EXCEPT !.next_pending = yes] /\ q' = HandOver
    BY <1>1, <1>8
  <2>2. /\ mutex' \in Mutexes /\ mutex'.is_locked = mutex.is_locked
        /\ mutex'.next_pending = yes /\ mutex'.queue = mutex.queue
    BY <1>t, <1>1, <2>1 DEF Mutexes
  <2>3. MutexInv'
    BY <1>1, <1>5, <1>6, <1>8, <2>2 DEF MutexInv
  <2>4. Head(mutex.queue) \in Timers
    BY <1>t, <1>8 DEF Mutexes, Timers
  <2>5. q' \in Queues /\ q'.timers = q.timers /\ Covers(q', gl[g_dispatch])
    <3>1. q' = update_timer(q, Head(mutex.queue), 0) /\ 0 \in 0..NEVER
      BY <2>1, TimesInRange DEF HandOver
    <3>2. q' \in Queues /\ q'.timers = q.timers
      BY <1>t, <2>4, <3>1, UpdateFacts
    <3>3. Covers(q', gl[g_dispatch])
      BY <1>t, <2>4, <3>1, CoversUpdate DEF Inv, CoverInv
    <3> QED  BY <3>2, <3>3
  <2>6. Once(q') /\ \A g \in Greenlets : In(q', g) <=> In(q, g)
    BY <2>5 DEF Inv, TimersInv, Once, In
  <2>7. Control' /\ gl' \in [Greenlets -> Frames]
    BY <1>0, <1>2, <1>3, <2>5, <2>6, OpKeeps
  <2> QED  BY <1>0, <1>t, <2>2, <2>3, <2>5, <2>7, InvParts
<1> QED  BY <1>7, <1>8

\* wait()
LEMMA WaitStep ==
    ASSUME Inv, NEW h \in Greenlets, wait(h)
    PROVE  Inv'
<1> DEFINE e == [Used(h) EXCEPT !.why = "completion"]
<1>1. PICK w \in Delays \cup {NEVER} : pause(q, h, e, w)
  BY DEF wait
<1>2. Used(h) \in Frames /\ Used(h).holds = gl[h].holds /\ At(h, "task")
  BY UsedFacts DEF wait, Op
<1>3. w \in 0..NEVER /\ e \in Frames /\ e.holds = gl[h].holds
  BY <1>2, WhyFacts, TimesInRange
<1> HIDE DEF e
<1>4. /\ Control' /\ q' \in Queues /\ gl' \in [Greenlets -> Frames]
      /\ g_dispatch' \in Greenlets /\ cur' \in Greenlets /\ greenlets' \in Seq(Greenlets)
      /\ \A g \in Greenlets : gl'[g].holds = gl[g].holds
  BY <1>1, <1>2, <1>3, PauseKeeps
<1>5. MutexInv' /\ mutex' \in Mutexes
  BY <1>4, MutexSame DEF wait
<1>6. completed' \in BOOLEAN
  BY DEF wait, Inv, Types
<1> QED  BY <1>4, <1>5, <1>6, InvParts

\* An operation of a callback that leaves the mutex alone and does not pause.
LEMMA PlainStep ==
    ASSUME Inv, NEW h \in Greenlets, At(h, "task"),
           NEW f \in Frames, f.at = "task", f.i = gl[h].i, f.end = gl[h].end, f.t = gl[h].t,
           f.holds = gl[h].holds,
           gl' = [gl EXCEPT ![h] = f], UNCHANGED <<g_dispatch, cur, greenlets, mutex>>,
           q' \in Queues, Once(q'), \A g \in Greenlets : In(q', g) <=> In(q, g),
           Covers(q', gl[g_dispatch]), completed' \in BOOLEAN
    PROVE  Inv'
<1>1. Control' /\ gl' \in [Greenlets -> Frames]
  BY OpKeeps
<1>2. /\ g_dispatch' \in Greenlets /\ cur' \in Greenlets /\ greenlets' \in Seq(Greenlets)
      /\ gl \in [Greenlets -> Frames]
  BY DEF Inv, Types
<1>3. \A g \in Greenlets : gl'[g].holds = gl[g].holds
  BY <1>2
<1>4. MutexInv' /\ mutex' \in Mutexes
  BY <1>3, MutexSame
<1> QED  BY <1>1, <1>2, <1>4, InvParts

\* The greenlet wakes in wait().
LEMMA WaitWakesStep ==
    ASSUME Inv, NEW h \in Greenlets, WaitWakes(h)
    PROVE  Inv'
<1> DEFINE e == [gl[h] EXCEPT !.why = "run"]
<1>0. /\ gl[h] \in Frames /\ gl[h].at = "task" /\ At(h, "task") /\ completed' \in BOOLEAN
      /\ gl \in [Greenlets -> Frames] /\ UNCHANGED <<q, g_dispatch, cur, greenlets, mutex>>
      /\ gl' = [gl EXCEPT ![h].why = "run"]
  BY DEF WaitWakes, Inv, Types, At
<1>1. /\ e \in Frames /\ e.at = gl[h].at /\ e.i = gl[h].i /\ e.end = gl[h].end /\ e.t = gl[h].t
      /\ e.holds = gl[h].holds
  BY <1>0, WhyFacts
<1>2. gl' = [gl EXCEPT ![h] = e]
  BY <1>0
<1> HIDE DEF e
<1> QED  BY <1>0, <1>1, <1>2, QueueSame, PlainStep

\* complete()
LEMMA CompleteStep ==
    ASSUME Inv, NEW h \in Greenlets, Complete(h)
    PROVE  Inv'
<1> DEFINE u == [t \in Timers |-> IF t \in Waiters THEN 0 ELSE q.wake[t]]
<1>0. q \in Queues /\ Once(q) /\ Covers(q, gl[g_dispatch]) /\ At(h, "task") /\ completed' \in BOOLEAN
  BY DEF Inv, Types, TimersInv, CoverInv, Complete, Op
<1>1. u \in [Timers -> 0..NEVER] /\ 0 \in 0..NEVER
  BY <1>0, TimesInRange DEF Queues
<1>2. q' \in Queues /\ q'.timers = q.timers /\ Covers(q', gl[g_dispatch])
  <2>1. CASE Waiters = {}
    <3>1. q' = q
      BY <2>1 DEF Complete, complete
    <3> QED  BY <1>0, <3>1
  <2>2. CASE Waiters # {}
    <3>1. q' = [q EXCEPT !.wake = u, !.next = 0]
      BY <2>2 DEF Complete, complete
    <3> HIDE DEF u
    <3>2. q' \in Queues /\ q'.timers = q.timers /\ q'.next = 0
      BY <1>0, <1>1, <3>1 DEF Queues
    <3> QED  BY <3>2, CoversZero
  <2> QED  BY <2>1, <2>2
<1>3. Once(q') /\ \A g \in Greenlets : In(q', g) <=> In(q, g)
  BY <1>0, <1>2 DEF Once, In
<1>4. /\ Used(h) \in Frames /\ Used(h).at = "task" /\ Used(h).i = gl[h].i
      /\ Used(h).end = gl[h].end /\ Used(h).t = gl[h].t /\ Used(h).holds = gl[h].holds
  BY UsedFacts DEF Complete
<1>5. gl' = [gl EXCEPT ![h] = Used(h)] /\ UNCHANGED <<g_dispatch, cur, greenlets, mutex>>
  BY DEF Complete
<1> QED  BY <1>0, <1>2, <1>3, <1>4, <1>5, PlainStep

\* register_callback()
LEMMA RegisterStep ==
    ASSUME Inv, NEW h \in Greenlets, register_callback(h)
    PROVE  Inv'
<1>0. q \in Queues /\ Once(q) /\ Covers(q, gl[g_dispatch]) /\ At(h, "task") /\ completed' \in BOOLEAN
  BY DEF Inv, Types, TimersInv, CoverInv, register_callback, Op
<1>1. PICK t \in Callbacks, w \in Delays : t \notin ToSet(q.timers) /\ q' = register_timer(q, t, w)
  BY DEF register_callback
<1>2. t \in Timers /\ w \in 0..NEVER /\ t \notin Greenlets
  BY TimesInRange, ReactorAssumption DEF Timers
<1>3. ~In(q, t)
  BY <1>0, <1>1 DEF In, ToSet, Queues
<1>4. q' \in Queues /\ Once(q') /\ \A u : In(q', u) <=> In(q, u) \/ u = t
  BY <1>0, <1>1, <1>2, <1>3, RegisterFacts, RegisterOnce
<1>5. Covers(q', gl[g_dispatch])
  BY <1>0, <1>1, <1>2, CoversRegister
<1>6. \A g \in Greenlets : In(q', g) <=> In(q, g)
  BY <1>2, <1>4
<1>7. /\ Used(h) \in Frames /\ Used(h).at = "task" /\ Used(h).i = gl[h].i
      /\ Used(h).end = gl[h].end /\ Used(h).t = gl[h].t /\ Used(h).holds = gl[h].holds
  BY UsedFacts DEF register_callback
<1>8. gl' = [gl EXCEPT ![h] = Used(h)] /\ UNCHANGED <<g_dispatch, cur, greenlets, mutex>>
  BY DEF register_callback
<1> QED  BY <1>0, <1>4, <1>5, <1>6, <1>7, <1>8, PlainStep

-----------------------------------------------------------------------------
(* The steps of the dispatcher                                              *)

\* A step of the dispatcher in its own greenlet.
LEMMA DispatcherKeeps ==
    ASSUME Inv, cur = g_dispatch, NEW e \in Frames, e.at \in {"check", "poll", "pass", "task"},
           ~gl[cur].holds, ~e.holds, e.why = "run",
           e.at = "pass" => e.i >= 1, e.at \in {"check", "poll"} => e.i = 0 /\ e.end = 0,
           e.at = "task" /\ e.t = Fd => e.i = 0 /\ e.end = 0,
           gl' = [gl EXCEPT ![cur] = e], UNCHANGED <<g_dispatch, cur, greenlets, mutex, completed>>,
           q' \in Queues, Once(q'), \A g \in Greenlets : In(q', g) <=> In(q, g), Covers(q', e)
    PROVE  Inv'
<1>0. /\ gl \in [Greenlets -> Frames] /\ cur \in Greenlets /\ greenlets \in Seq(Greenlets)
      /\ gl[cur].at \in {"check", "poll", "pass", "task"} /\ g_dispatch' \in Greenlets
      /\ completed' \in BOOLEAN
  BY DEF Inv, Types, Running
<1>1. /\ gl' \in [Greenlets -> Frames] /\ gl'[cur] = e
      /\ \A g \in Greenlets : g # cur => gl'[g] = gl[g]
  BY <1>0
<1>2. Running'
  BY <1>0, <1>1 DEF Inv, Running
<1>3. Pooled'
  <2>1. \A k \in 1..Len(greenlets) : greenlets[k] \in Greenlets /\ gl[greenlets[k]].at = "pool"
    BY <1>0 DEF Inv, Pooled
  <2>2. \A k \in 1..Len(greenlets) : gl'[greenlets[k]].at = "pool"
    BY <1>0, <1>1, <2>1
  <2> QED  BY <2>2 DEF Inv, Pooled
<1>4. TimersInv'
  <2>1. ASSUME NEW x \in Greenlets PROVE HasTimer(x)' <=> In(q', x)
    <3>1. HasTimer(x)' <=> HasTimer(x)
      BY <1>0, <1>1 DEF HasTimer
    <3> QED  BY <3>1 DEF Inv, TimersInv
  <2> QED  BY <2>1 DEF TimersInv, Once, In
<1>5. Idle'
  BY <1>1 DEF Inv, Idle
<1>6. LoopInv'
  BY <1>1 DEF LoopInv
<1>7. CoverInv'
  BY <1>1 DEF CoverInv, Covers, Behind
<1>8. \A g \in Greenlets : gl'[g].holds = gl[g].holds
  BY <1>0, <1>1 DEF Frames
<1>9. MutexInv' /\ mutex' \in Mutexes
  BY <1>8, MutexSame
<1> QED  BY <1>0, <1>1, <1>2, <1>3, <1>4, <1>5, <1>6, <1>7, <1>9, InvParts DEF Control

\* The dispatcher outside of a callback.
LEMMA DispatcherFacts ==
    ASSUME Inv, NEW g \in Greenlets, NEW s \in {"check", "poll", "pass"}, At(g, s)
    PROVE  /\ cur = g /\ g_dispatch = g /\ gl[g] \in Frames /\ gl[g].at = s
           /\ ~gl[g].holds /\ gl[g].why = "run"
           /\ q \in Queues /\ Once(q) /\ Covers(q, gl[g]) /\ gl \in [Greenlets -> Frames]
           /\ s = "pass" => gl[g].i >= 1
           /\ s # "pass" => gl[g].i = 0 /\ gl[g].end = 0
<1>1. cur = g /\ gl[g].at = s /\ q \in Queues /\ gl \in [Greenlets -> Frames] /\ gl[g] \in Frames
  BY DEF At, Inv, Types
<1>2. g_dispatch = g
  BY <1>1 DEF Inv, Running
<1>3. ~gl[g].holds /\ gl[g].why = "run"
  BY <1>1 DEF Inv, Idle
<1>4. Once(q) /\ Covers(q, gl[g])
  BY <1>2 DEF Inv, TimersInv, CoverInv
<1>5. (s = "pass" => gl[g].i >= 1) /\ (s # "pass" => gl[g].i = 0 /\ gl[g].end = 0)
  BY <1>1 DEF Inv, LoopInv
<1> QED  BY <1>1, <1>2, <1>3, <1>4, <1>5

\* A frame at the start of the loop.
LEMMA PassFacts ==
    ASSUME NEW f \in Frames, NEW n \in Nat
    PROVE  LET e == [f EXCEPT !.at = "pass", !.i = 1, !.end = n] IN
           /\ e \in Frames /\ e.at = "pass" /\ e.i = 1 /\ e.end = n /\ e.t = f.t
           /\ e.holds = f.holds /\ e.why = f.why
  BY DEF Frames, States

\* A frame elsewhere, in the same loop.
LEMMA AtFacts ==
    ASSUME NEW f \in Frames, NEW a \in States
    PROVE  LET e == [f EXCEPT !.at = a] IN
           /\ e \in Frames /\ e.at = a /\ e.i = f.i /\ e.end = f.end /\ e.t = f.t
           /\ e.holds = f.holds /\ e.why = f.why
  BY DEF Frames

\* A frame in which a callback begins.
LEMMA BeginFacts ==
    ASSUME NEW f \in Frames, NEW t \in Sources
    PROVE  LET e == Begin(f, t) IN
           /\ e \in Frames /\ e.at = "task" /\ e.i = f.i /\ e.end = f.end /\ e.t = t
           /\ e.holds = f.holds /\ e.why = f.why
<1> DEFINE n == Ops[t]
<1>1. n \in Nat /\ Begin(f, t) = [f EXCEPT !.at = "task", !.t = t, !.ops = n] /\ "task" \in States
  BY ReactorAssumption DEF Begin, Sources, States
<1> HIDE DEF n
<1> QED  BY <1>1 DEF Frames

\* check_timers() begins.
LEMMA CheckTimersStep ==
    ASSUME Inv, NEW g \in Greenlets, CheckTimers(g)
    PROVE  Inv'
<1> DEFINE f == gl[g]
<1>0. /\ cur = g /\ g_dispatch = g /\ f \in Frames /\ f.at = "check" /\ ~f.holds /\ f.why = "run"
      /\ q \in Queues /\ Once(q) /\ Covers(q, f) /\ gl \in [Greenlets -> Frames]
      /\ f.i = 0 /\ f.end = 0 /\ UNCHANGED <<g_dispatch, cur, greenlets, mutex, completed>>
  BY DispatcherFacts DEF CheckTimers
<1>1. CASE q.next > 0
  <2> DEFINE e == [f EXCEPT !.at = "poll"]
  <2>1. gl' = [gl EXCEPT ![g] = e] /\ q' = q
    BY <1>0, <1>1 DEF CheckTimers
  <2>2. /\ e \in Frames /\ e.at = "poll" /\ e.i = 0 /\ e.end = 0 /\ ~e.holds /\ e.why = "run"
    <3>1. "poll" \in States
      BY DEF States
    <3> QED  BY <1>0, <3>1, AtFacts
  <2> HIDE DEF e
  <2>3. Covers(q', e)
    BY <1>0, <2>1, <2>2 DEF Covers, Behind
  <2> QED  BY <1>0, <2>1, <2>2, <2>3, DispatcherKeeps
<1>2. CASE ~(q.next > 0)
  <2> DEFINE n == Len(q.timers)
             e == [f EXCEPT !.at = "pass", !.i = 1, !.end = n]
  <2>1. gl' = [gl EXCEPT ![g] = e] /\ q' = [q EXCEPT !.next = NEVER]
    BY <1>0, <1>2 DEF CheckTimers
  <2>2. n \in Nat /\ q'.timers = q.timers /\ q' \in Queues
    <3>1. NEVER \in 0..NEVER
      BY TimesInRange
    <3>2. n \in Nat
      BY <1>0 DEF Queues
    <3>3. q' = [q EXCEPT !.next = NEVER] /\ q \in Queues
      BY <1>0, <2>1
    <3>4. q'.timers = q.timers /\ q' \in Queues
      BY <3>1, <3>3 DEF Queues
    <3> QED  BY <3>2, <3>4
  <2>3. /\ e \in Frames /\ e.at = "pass" /\ e.i = 1 /\ e.end = n /\ ~e.holds /\ e.why = "run"
    BY <1>0, <2>2, PassFacts
  <2> HIDE DEF e
  <2>4. Covers(q', e)
    BY <2>2, <2>3 DEF Covers, Behind
  <2>5. Once(q') /\ \A x \in Greenlets : In(q', x) <=> In(q, x)
    BY <1>0, <2>2 DEF Once, In
  <2>6. /\ e.at \in {"check", "poll", "pass", "task"} /\ e.i >= 1
        /\ e.at \notin {"check", "poll", "task"} /\ gl' = [gl EXCEPT ![cur] = e]
    BY <1>0, <2>1, <2>3
  <2> QED  BY <1>0, <2>2, <2>3, <2>4, <2>5, <2>6, DispatcherKeeps
<1> QED  BY <1>1, <1>2

\* The loop ends.
LEMMA PassEndStep ==
    ASSUME Inv, NEW g \in Greenlets, PassEnd(g)
    PROVE  Inv'
<1> DEFINE f == gl[g]
           e == [Fresh EXCEPT !.at = "poll"]
<1>0. /\ cur = g /\ g_dispatch = g /\ f \in Frames /\ f.at = "pass" /\ ~f.holds /\ f.why = "run"
      /\ q \in Queues /\ Once(q) /\ Covers(q, f) /\ gl \in [Greenlets -> Frames]
      /\ UNCHANGED <<q, g_dispatch, cur, greenlets, mutex, completed>>
      /\ gl' = [gl EXCEPT ![g] = e] /\ f.i > f.end /\ f.i \in Nat /\ f.end \in Nat
  <2>1. f \in Frames
    BY DispatcherFacts DEF PassEnd
  <2>2. f.i \in Nat /\ f.end \in Nat
    BY <2>1 DEF Frames
  <2> QED  BY <2>2, DispatcherFacts DEF PassEnd
<1>1. /\ e \in Frames /\ e.at = "poll" /\ e.i = 0 /\ e.end = 0 /\ ~e.holds /\ e.why = "run"
  <2>1. "poll" \in States
    BY DEF States
  <2> QED  BY <2>1, FreshFacts, AtFacts
<1> HIDE DEF e
<1>2. Covers(q', e)
  BY <1>0, <1>1 DEF Covers, Behind
<1> QED  BY <1>0, <1>1, <1>2, QueueSame, DispatcherKeeps

\* Time keeps the order of two waketimes.
LEMMA PassedFacts ==
    ASSUME NEW r \in Queues
    PROVE  /\ Passed(r) \in Queues /\ Passed(r).timers = r.timers
           /\ Passed(r).missed = r.missed
           /\ \A t \in Timers : r.next <= r.wake[t] => Passed(r).next <= Passed(r).wake[t]
<1> DEFINE u == [t \in Timers |-> Less1(r.wake[t])]
           n == Less1(r.next)
<1>1. /\ \A w \in 0..NEVER : Less1(w) \in 0..NEVER
      /\ \A v, w \in 0..NEVER : v <= w => Less1(v) <= Less1(w)
  BY ReactorAssumption DEF Less1
<1>2. r.next \in 0..NEVER /\ \A t \in Timers : r.wake[t] \in 0..NEVER
  BY DEF Queues
<1>3. u \in [Timers -> 0..NEVER] /\ n \in 0..NEVER /\ \A t \in Timers : r.next <= r.wake[t] => n <= u[t]
  BY <1>1, <1>2
<1>4. Passed(r) = [r EXCEPT !.wake = u, !.next = n]
  BY DEF Passed
<1> HIDE DEF u, n
<1> QED  BY <1>3, <1>4 DEF Queues

\* poll()
LEMMA PollStep ==
    ASSUME Inv, NEW g \in Greenlets, Poll(g)
    PROVE  Inv'
<1> DEFINE f == gl[g]
<1>0. /\ cur = g /\ g_dispatch = g /\ f \in Frames /\ f.at = "poll" /\ ~f.holds /\ f.why = "run"
      /\ q \in Queues /\ Once(q) /\ Covers(q, f) /\ gl \in [Greenlets -> Frames]
      /\ f.i = 0 /\ f.end = 0 /\ UNCHANGED <<g_dispatch, cur, greenlets, mutex, completed>>
      /\ q' = Passed(q)
  BY DispatcherFacts DEF Poll
<1>1. /\ q' \in Queues /\ q'.timers = q.timers /\ q'.missed = q.missed
      /\ \A t \in Timers : q.next <= q.wake[t] => q'.next <= q'.wake[t]
  BY <1>0, PassedFacts
<1>2. Once(q') /\ \A x \in Greenlets : In(q', x) <=> In(q, x)
  BY <1>0, <1>1 DEF Once, In
<1>3. PICK e \in Frames : /\ gl' = [gl EXCEPT ![g] = e] /\ e.at \in {"check", "task"}
                          /\ e.i = 0 /\ e.end = 0 /\ ~e.holds /\ e.why = "run"
  <2>1. CASE gl' = [gl EXCEPT ![g].at = "check"]
    <3> DEFINE e == [f EXCEPT !.at = "check"]
    <3>1. "check" \in States
      BY DEF States
    <3>2. e \in Frames /\ e.at = "check" /\ e.i = 0 /\ e.end = 0 /\ ~e.holds /\ e.why = "run"
      BY <1>0, <3>1, AtFacts
    <3>3. gl' = [gl EXCEPT ![g] = e]
      BY <1>0, <2>1
    <3> QED  BY <3>2, <3>3
  <2>2. CASE gl' = [gl EXCEPT ![g] = Begin(@, Fd)]
    <3>1. Fd \in Sources
      BY DEF Sources
    <3>2. LET e == Begin(f, Fd) IN
          e \in Frames /\ e.at = "task" /\ e.i = 0 /\ e.end = 0 /\ ~e.holds /\ e.why = "run"
      BY <1>0, <3>1, BeginFacts
    <3>3. gl' = [gl EXCEPT ![g] = Begin(f, Fd)]
      BY <1>0, <2>2
    <3> QED  BY <3>2, <3>3
  <2> QED  BY <2>1, <2>2 DEF Poll
<1>4. Covers(q', e)
  <2>1. \A k \in 1..Len(q.timers) : q.timers[k] \in Timers
    BY <1>0 DEF Queues
  <2>2. \A k \in 1..Len(q.timers) : Behind(e, k) => Behind(f, k)
    BY <1>0, <1>3 DEF Behind
  <2> QED  BY <1>0, <1>1, <2>1, <2>2 DEF Covers
<1> QED  BY <1>0, <1>1, <1>2, <1>3, <1>4, DispatcherKeeps

\* The timer t is found, and due.
LEMMA DueFacts ==
    ASSUME NEW r \in Queues, NEW t \in Timers
    PROVE  LET s == [r EXCEPT !.wake[t] = NEVER, !.missed = @ \ {t}] IN
           /\ s \in Queues /\ s.timers = r.timers /\ s.wake = [r.wake EXCEPT ![t] = NEVER]
           /\ s.next = r.next /\ s.missed = r.missed \ {t}
<1> DEFINE m == r.missed \ {t}
           u == [r.wake EXCEPT ![t] = NEVER]
<1>1. /\ m \in SUBSET Timers /\ m = r.missed \ {t}
      /\ u \in [Timers -> 0..NEVER] /\ u = [r.wake EXCEPT ![t] = NEVER]
  BY TimesInRange DEF Queues
<1> HIDE DEF m, u
<1>2. LET s == [r EXCEPT !.wake = u, !.missed = m] IN
      s \in Queues /\ s.timers = r.timers /\ s.wake = u /\ s.next = r.next /\ s.missed = m
  BY <1>1 DEF Queues
<1> QED  BY <1>1, <1>2

\* The timer t is found.
LEMMA FoundFacts ==
    ASSUME NEW r \in Queues, NEW t \in Timers
    PROVE  LET s == [r EXCEPT !.missed = @ \ {t}] IN
           /\ s \in Queues /\ s.timers = r.timers /\ s.wake = r.wake
           /\ s.next = r.next /\ s.missed = r.missed \ {t}
<1> DEFINE m == r.missed \ {t}
<1>1. m \in SUBSET Timers /\ m = r.missed \ {t}
  BY DEF Queues
<1> HIDE DEF m
<1>2. LET s == [r EXCEPT !.missed = m] IN
      s \in Queues /\ s.timers = r.timers /\ s.wake = r.wake /\ s.next = r.next /\ s.missed = m
  BY <1>1 DEF Queues
<1> QED  BY <1>1, <1>2

\* A timer that is run is behind, and has no waketime.
LEMMA CoversTake ==
    ASSUME NEW r \in Queues, Once(r), NEW f \in Frames, f.at = "pass", Covers(r, f),
           f.i \in 1..Len(r.timers), NEW s \in Queues, s.timers = r.timers, s.next = r.next,
           s.wake = [r.wake EXCEPT ![r.timers[f.i]] = NEVER],
           s.missed = r.missed \ {r.timers[f.i]},
           NEW e \in Frames, e.at \in {"task", "lambda"}, e.i = f.i, e.end = f.end
    PROVE  Covers(s, e)
<1> SUFFICES ASSUME NEW k \in 1..Len(r.timers), Behind(e, k), r.timers[k] \notin s.missed
             PROVE  r.next <= s.wake[r.timers[k]]
  BY DEF Covers
<1>0. r.timers[k] \in Timers /\ r.timers[f.i] \in Timers /\ r.next \in 0..NEVER
      /\ r.wake \in [Timers -> 0..NEVER]
  BY DEF Queues
<1>1. CASE k = f.i
  <2>1. s.wake[r.timers[k]] = NEVER
    BY <1>0, <1>1
  <2> QED  BY <1>0, <2>1, ReactorAssumption
<1>2. CASE k # f.i
  <2>1. r.timers[k] # r.timers[f.i]
    BY <1>2 DEF Once
  <2>2. s.wake[r.timers[k]] = r.wake[r.timers[k]] /\ r.timers[k] \notin r.missed
    BY <1>0, <2>1, SMTT(30)
  <2>3. Behind(f, k)
    BY <1>2 DEF Behind
  <2> QED  BY <2>2, <2>3 DEF Covers
<1> QED  BY <1>1, <1>2

\* One turn of the loop.
LEMMA TurnStep ==
    ASSUME Inv, NEW g \in Greenlets, Turn(g)
    PROVE  Inv'
<1> DEFINE f == gl[g]
           t == q.timers[f.i]
           due == f.i <= Len(q.timers) /\ q.wake[t] = 0
<1>0. /\ cur = g /\ g_dispatch = g /\ f \in Frames /\ f.at = "pass" /\ ~f.holds /\ f.why = "run"
      /\ q \in Queues /\ Once(q) /\ Covers(q, f) /\ gl \in [Greenlets -> Frames]
      /\ f.i >= 1 /\ UNCHANGED <<g_dispatch, greenlets, mutex, completed>>
  BY DispatcherFacts DEF Turn
<1>i. /\ f.i \in Nat /\ f.end \in Nat /\ Len(q.timers) \in Nat /\ q.timers \in Seq(Timers)
      /\ q.wake \in [Timers -> 0..NEVER] /\ q.next \in 0..NEVER
  BY <1>0 DEF Frames, Queues
<1>t. f.i <= Len(q.timers) => f.i \in 1..Len(q.timers) /\ t \in Timers /\ In(q, t)
  BY <1>0, <1>i DEF In
<1>1. CASE ~due /\ gl' = [gl EXCEPT ![g].i = @ + 1] /\ cur' = cur
           /\ q' = IF f.i <= Len(q.timers)
                   THEN [q EXCEPT !.next = Less(@, q.wake[t]), !.missed = @ \ {t}] ELSE q
  <2> DEFINE e == [f EXCEPT !.at = "pass", !.i = @ + 1]
  <2>1. /\ e \in Frames /\ e.at = "pass" /\ e.i = f.i + 1 /\ e.end = f.end
        /\ e.holds = f.holds /\ e.why = f.why
    BY <1>0, NextFrame
  <2>2. gl' = [gl EXCEPT ![g] = e]
    <3>1. f = [f EXCEPT !.at = "pass"]
      BY <1>0 DEF Frames
    <3> QED  BY <1>0, <1>1, <3>1 DEF Frames
  <2> HIDE DEF e
  <2>3. /\ e.i >= 1 /\ ~e.holds /\ e.why = "run" /\ e.at \notin {"check", "poll", "task"}
    BY <1>0, <1>i, <2>1
  <2>4. q' \in Queues /\ q'.timers = q.timers /\ Covers(q', e)
    <3>1. CASE f.i <= Len(q.timers)
      <4> DEFINE n == Less(q.next, q.wake[t])
      <4>1. n \in 0..NEVER /\ n <= q.next /\ n <= q.wake[t] /\ q.wake[t] \in 0..NEVER
        <5>1. q.wake[t] \in 0..NEVER
          BY <1>i, <1>t, <3>1
        <5> HIDE DEF t
        <5> QED  BY <1>i, <5>1, ReactorAssumption DEF Less
      <4>2. q' = [q EXCEPT !.next = n, !.missed = @ \ {t}]
        BY <1>1, <3>1
      <4> HIDE DEF n
      <4>3. /\ q' \in Queues /\ q'.timers = q.timers /\ q'.wake = q.wake /\ q'.next = n
            /\ q'.missed = q.missed \ {t}
        <5>1. q \in Queues /\ t \in Timers /\ n \in 0..NEVER
          BY <1>0, <1>t, <3>1, <4>1
        <5> DEFINE m == q.missed \ {t}
        <5>2. m \in SUBSET Timers /\ q' = [q EXCEPT !.next = n, !.missed = m]
          BY <4>2, <5>1 DEF Queues
        <5> HIDE DEF m
        <5>3. /\ q' \in Queues /\ q'.timers = q.timers /\ q'.wake = q.wake /\ q'.next = n
              /\ q'.missed = m
          BY <5>1, <5>2 DEF Queues
        <5> QED  BY <5>3 DEF m
      <4>4. ASSUME NEW k \in 1..Len(q.timers), Behind(e, k), q.timers[k] \notin q'.missed
            PROVE  n <= q.wake[q.timers[k]]
        <5>1. CASE k = f.i
          BY <4>1, <5>1
        <5>2. CASE k # f.i
          <6>1. q.timers[k] # t
            BY <1>0, <1>t, <3>1, <5>2 DEF Once
          <6>2. Behind(f, k)
            BY <1>i, <2>1, <4>4, <5>2 DEF Behind
          <6>3. q.next <= q.wake[q.timers[k]]
            BY <1>0, <4>3, <4>4, <6>1, <6>2 DEF Covers
          <6>4. q.wake[q.timers[k]] \in 0..NEVER
            BY <1>i
          <6> QED  BY <1>i, <4>1, <6>3, <6>4, ReactorAssumption
        <5> QED  BY <5>1, <5>2
      <4> QED  BY <4>3, <4>4 DEF Covers
    <3>2. CASE ~(f.i <= Len(q.timers))
      <4>1. q' = q
        BY <1>1, <3>2
      <4>2. \A k \in 1..Len(q.timers) : Behind(f, k)
        BY <1>i, <3>2 DEF Behind
      <4> QED  BY <1>0, <4>1, <4>2 DEF Covers
    <3> QED  BY <3>1, <3>2
  <2>5. Once(q') /\ \A x \in Greenlets : In(q', x) <=> In(q, x)
    BY <1>0, <2>4 DEF Once, In
  <2>6. gl' = [gl EXCEPT ![cur] = e] /\ UNCHANGED cur /\ cur = g_dispatch /\ ~gl[cur].holds
    BY <1>0, <1>1, <2>2
  <2> QED  BY <1>0, <2>1, <2>3, <2>4, <2>5, <2>6, DispatcherKeeps
<1>2. CASE due /\ t \in Greenlets /\ gl' = [gl EXCEPT ![g].at = "lambda", ![t].at = "task"]
           /\ q' = [q EXCEPT !.wake[t] = NEVER, !.missed = @ \ {t}] /\ cur' = t
  <2> DEFINE e == [f EXCEPT !.at = "lambda"]
             b == [gl[t] EXCEPT !.at = "task"]
  <2>0. /\ t \in Greenlets /\ f.i \in 1..Len(q.timers) /\ q.timers[f.i] = t /\ t \in Timers /\ In(q, t)
        /\ gl' = [gl EXCEPT ![g].at = "lambda", ![t].at = "task"] /\ cur' = t
        /\ q' = [q EXCEPT !.wake[t] = NEVER, !.missed = @ \ {t}]
    BY <1>2, <1>t
  <2> HIDE DEF t, due
  <2>1. gl[t].at = "wait" /\ t # g
    BY <1>0, <2>0 DEF Inv, TimersInv, HasTimer
  <2>2. /\ e \in Frames /\ e.at = "lambda" /\ e.i = f.i /\ e.end = f.end
        /\ e.holds = f.holds /\ e.why = f.why
    <3>1. "lambda" \in States
      BY DEF States
    <3> QED  BY <1>0, <3>1, AtFacts
  <2>3. b \in Frames /\ b.at = "task" /\ b.holds = gl[t].holds
    <3>1. "task" \in States /\ gl[t] \in Frames
      BY <1>0, <2>0 DEF States
    <3> QED  BY <3>1, AtFacts
  <2>4. gl' = [gl EXCEPT ![g] = e, ![t] = b]
    BY <1>0, <2>0, <2>1
  <2> HIDE DEF e, b
  <2>5. /\ gl' \in [Greenlets -> Frames] /\ gl'[g] = e /\ gl'[t] = b
        /\ \A x \in Greenlets : x # g /\ x # t => gl'[x] = gl[x]
    BY <1>0, <2>0, <2>1, <2>2, <2>3, <2>4
  <2>6. /\ q' \in Queues /\ q'.timers = q.timers /\ q'.wake = [q.wake EXCEPT ![t] = NEVER]
        /\ q'.next = q.next /\ q'.missed = q.missed \ {t}
    BY <1>0, <2>0, DueFacts
  <2>7. Covers(q', e)
    BY <1>0, <2>0, <2>2, <2>6, CoversTake DEF t
  <2>8. Running'
    BY <1>0, <2>0, <2>1, <2>2, <2>3, <2>5 DEF Inv, Running
  <2>9. Pooled'
    <3>1. \A k \in 1..Len(greenlets) : greenlets[k] \in Greenlets /\ gl[greenlets[k]].at = "pool"
      BY DEF Inv, Pooled, Types
    <3>2. \A k \in 1..Len(greenlets) : gl'[greenlets[k]].at = "pool"
      BY <1>0, <2>1, <2>5, <3>1
    <3> QED  BY <1>0, <3>2 DEF Inv, Pooled
  <2>10. TimersInv'
    <3>1. ASSUME NEW x \in Greenlets PROVE HasTimer(x)' <=> In(q, x)
      <4>1. CASE x = g
        BY <1>0, <2>0, <2>1, <2>2, <2>5, <4>1 DEF HasTimer, Inv, TimersInv
      <4>2. CASE x = t
        BY <1>0, <2>0, <2>1, <2>5, <4>2 DEF HasTimer
      <4>3. CASE x # g /\ x # t
        BY <1>0, <2>0, <2>5, <4>3 DEF HasTimer, Inv, TimersInv
      <4> QED  BY <4>1, <4>2, <4>3
    <3> QED  BY <1>0, <2>6, <3>1 DEF TimersInv, Once, In
  <2>11. Idle'
    <3>1. e.at = "lambda" /\ ~e.holds /\ e.why = "run" /\ b.at = "task"
      BY <1>0, <2>2, <2>3
    <3> QED  BY <2>5, <3>1 DEF Inv, Idle
  <2>12. LoopInv'
    BY <1>0, <2>0, <2>2, <2>3, <2>5 DEF LoopInv
  <2>13. CoverInv'
    BY <1>0, <2>5, <2>7 DEF CoverInv, Covers, Behind
  <2>14. \A x \in Greenlets : gl'[x].holds = gl[x].holds
    BY <2>2, <2>3, <2>5
  <2>15. MutexInv' /\ mutex' \in Mutexes
    BY <1>0, <2>14, MutexSame
  <2>16. g_dispatch' \in Greenlets /\ cur' \in Greenlets /\ greenlets' \in Seq(Greenlets)
         /\ completed' \in BOOLEAN
    BY <1>0, <2>0 DEF Inv, Types
  <2> QED  BY <2>5, <2>6, <2>8, <2>9, <2>10, <2>11, <2>12, <2>13, <2>15, <2>16, InvParts DEF Control
<1>3. ASSUME due, t \in Periodic \cup Callbacks
      PROVE  LET e == Begin(f, t) IN
             /\ e \in Frames /\ e.at = "task" /\ e.i = f.i /\ e.end = f.end /\ e.t = t
             /\ ~e.holds /\ e.why = "run" /\ t # Fd
  <2>1. t \in Sources /\ t # Fd
    BY <1>3, ReactorAssumption DEF Sources
  <2> QED  BY <1>0, <2>1, BeginFacts
<1>4. CASE due /\ t \in Periodic /\ gl' = [gl EXCEPT ![g] = Begin(@, t)] /\ cur' = cur
           /\ q' = [q EXCEPT !.wake[t] = NEVER, !.missed = @ \ {t}]
  <2> DEFINE e == Begin(f, t)
  <2>1. /\ e \in Frames /\ e.at = "task" /\ e.i = f.i /\ e.end = f.end /\ e.t # Fd
        /\ ~e.holds /\ e.why = "run"
    BY <1>3, <1>4
  <2>2. gl' = [gl EXCEPT ![cur] = e] /\ UNCHANGED cur /\ cur = g_dispatch /\ ~gl[cur].holds
    BY <1>0, <1>4
  <2> HIDE DEF e
  <2>6. /\ q' \in Queues /\ q'.timers = q.timers /\ q'.wake = [q.wake EXCEPT ![t] = NEVER]
        /\ q'.next = q.next /\ q'.missed = q.missed \ {t}
    BY <1>0, <1>4, <1>t, DueFacts
  <2>7. Covers(q', e)
    BY <1>0, <1>4, <1>t, <2>1, <2>6, CoversTake
  <2>8. Once(q') /\ \A x \in Greenlets : In(q', x) <=> In(q, x)
    BY <1>0, <2>6 DEF Once, In
  <2> QED  BY <1>0, <2>1, <2>2, <2>6, <2>7, <2>8, DispatcherKeeps
<1>5. CASE due /\ t \in Callbacks /\ gl' = [gl EXCEPT ![g] = Begin(@, t)] /\ cur' = cur
           /\ q' = unregister_timer([q EXCEPT !.missed = @ \ {t}], t, f.i)
  <2> DEFINE e == Begin(f, t)
             r == [q EXCEPT !.missed = @ \ {t}]
  <2>1. /\ e \in Frames /\ e.at = "task" /\ e.i = f.i /\ e.end = f.end /\ e.t # Fd
        /\ ~e.holds /\ e.why = "run"
    BY <1>3, <1>5
  <2>2. gl' = [gl EXCEPT ![cur] = e] /\ UNCHANGED cur /\ cur = g_dispatch /\ ~gl[cur].holds
    BY <1>0, <1>5
  <2>3. /\ r \in Queues /\ r.timers = q.timers /\ r.wake = q.wake /\ r.next = q.next
        /\ r.missed = q.missed \ {t}
    BY <1>0, <1>5, <1>t, FoundFacts
  <2>4. q' = unregister_timer(r, t, e.i)
    BY <1>5, <2>1
  <2> HIDE DEF e, r
  <2>5. Once(r) /\ \A x : In(r, x) <=> In(q, x)
    BY <1>0, <2>3 DEF Once, In
  <2>6. ASSUME NEW k \in 1..Len(r.timers), Behind(e, k), r.timers[k] # t, r.timers[k] \notin r.missed
        PROVE  r.next <= r.wake[r.timers[k]]
    <3>1. k # f.i /\ q.timers[k] \notin q.missed
      BY <2>3, <2>6
    <3>2. Behind(f, k)
      BY <2>1, <2>6, <3>1 DEF Behind
    <3> QED  BY <1>0, <2>3, <3>1, <3>2 DEF Covers
  <2>7. t \in Timers /\ In(r, t) /\ e.i \in Nat /\ t \notin Greenlets
    BY <1>5, <1>i, <1>t, <2>1, <2>5, ReactorAssumption
  <2>8. Covers(q', e)
    BY <2>1, <2>3, <2>4, <2>5, <2>6, <2>7, CoversUnregister
  <2>9. q' \in Queues /\ Once(q') /\ \A x : In(q', x) <=> In(r, x) /\ x # t
    <3>1. q' \in Queues
      BY <2>3, <2>4, <2>5, <2>7, UnregisterFacts
    <3>2. Once(q') /\ \A x : In(q', x) <=> In(r, x) /\ x # t
      BY <2>3, <2>4, <2>5, <2>7, UnregisterOnce
    <3> QED  BY <3>1, <3>2
  <2>10. \A x \in Greenlets : In(q', x) <=> In(q, x)
    BY <2>5, <2>7, <2>9
  <2> QED  BY <1>0, <2>1, <2>2, <2>8, <2>9, <2>10, DispatcherKeeps
<1> QED  BY <1>1, <1>2, <1>4, <1>5, Zenon DEF Turn

\* The waketime that a callback returns.
LEMMA RescheduledFacts ==
    ASSUME NEW r \in Queues, NEW t, NEW f, Covers(r, f)
    PROVE  LET s == Rescheduled(r, t) IN
           /\ s \in Queues /\ s.timers = r.timers /\ Covers(s, f)
<1>1. CASE t \in Periodic
  <2>1. t \in Timers /\ Period \in 0..NEVER /\ Rescheduled(r, t) = update_timer(r, t, Period)
    BY <1>1, TimesInRange DEF Timers, Rescheduled
  <2>2. /\ update_timer(r, t, Period) \in Queues /\ update_timer(r, t, Period).timers = r.timers
    BY <2>1, UpdateFacts
  <2>3. Covers(update_timer(r, t, Period), f)
    BY <2>1, CoversUpdate
  <2> QED  BY <2>1, <2>2, <2>3
<1>2. CASE t \notin Periodic
  BY <1>2 DEF Rescheduled
<1> QED  BY <1>1, <1>2

\* The callback returns in the dispatcher.
LEMMA DispatcherReturns ==
    ASSUME Inv, NEW h \in Greenlets, Return(h), h = g_dispatch
    PROVE  Inv'
<1> DEFINE f == gl[h]
           r == Rescheduled(q, f.t)
<1>0. /\ cur = h /\ f \in Frames /\ f.at = "task" /\ ~f.holds /\ f.why = "run"
      /\ q \in Queues /\ Once(q) /\ Covers(q, f) /\ gl \in [Greenlets -> Frames]
      /\ q' = r /\ UNCHANGED <<g_dispatch, cur, greenlets, mutex, completed>>
      /\ gl' = IF f.t = Fd THEN [gl EXCEPT ![h] = [Fresh EXCEPT !.at = "check"]]
               ELSE [gl EXCEPT ![h] = [f EXCEPT !.at = "pass", !.i = @ + 1, !.t = Fd, !.ops = 0]]
  BY DEF Return, At, Inv, Types, TimersInv, CoverInv
<1>1. q' \in Queues /\ q'.timers = q.timers /\ Covers(q', f)
  BY <1>0, RescheduledFacts
<1>2. Once(q') /\ \A x \in Greenlets : In(q', x) <=> In(q, x)
  BY <1>0, <1>1 DEF Once, In
<1>i. f.i \in Nat /\ f.end \in Nat
  BY <1>0 DEF Frames
<1>3. CASE f.t = Fd
  <2> DEFINE e == [Fresh EXCEPT !.at = "check"]
  <2>1. /\ e \in Frames /\ e.at = "check" /\ e.i = 0 /\ e.end = 0 /\ ~e.holds /\ e.why = "run"
    <3>1. "check" \in States
      BY DEF States
    <3> QED  BY <3>1, FreshFacts, AtFacts
  <2>2. gl' = [gl EXCEPT ![cur] = e] /\ ~gl[cur].holds /\ cur = g_dispatch
    BY <1>0, <1>3
  <2> HIDE DEF e
  <2>3. f.i = 0 /\ f.end = 0
    BY <1>0, <1>3 DEF Inv, LoopInv
  <2>4. Covers(q', e)
    BY <1>1, <2>1, <2>3 DEF Covers, Behind
  <2> QED  BY <1>0, <1>1, <1>2, <2>1, <2>2, <2>4, DispatcherKeeps
<1>4. CASE f.t # Fd
  <2> DEFINE n == f.i + 1
             e == [f EXCEPT !.at = "pass", !.i = n, !.t = Fd, !.ops = 0]
  <2>1. n \in Nat /\ n >= 1 /\ n = f.i + 1 /\ "pass" \in States /\ Fd \in Sources
    BY <1>i DEF States, Sources
  <2>2. gl' = [gl EXCEPT ![cur] = e] /\ ~gl[cur].holds /\ cur = g_dispatch
    BY <1>0, <1>4
  <2> HIDE DEF n
  <2>3. /\ e \in Frames /\ e.at = "pass" /\ e.i = n /\ e.end = f.end /\ ~e.holds /\ e.why = "run"
    <3> HIDE DEF f
    <3> QED  BY <1>0, <2>1 DEF Frames
  <2> HIDE DEF e
  <2>4. Covers(q', e)
    <3>1. \A k \in 1..Len(q'.timers) : Behind(e, k) => Behind(f, k)
      BY <1>0, <1>i, <2>1, <2>3 DEF Behind
    <3> QED  BY <1>1, <3>1 DEF Covers
  <2>5. e.i >= 1 /\ e.at \in {"check", "poll", "pass", "task"} /\ e.at \notin {"check", "poll", "task"}
    BY <2>1, <2>3
  <2> QED  BY <1>0, <1>1, <1>2, <2>2, <2>3, <2>4, <2>5, DispatcherKeeps
<1> QED  BY <1>3, <1>4

\* The callback returns in a greenlet that had paused: end_greenlet().
LEMMA ResumedReturns ==
    ASSUME Inv, NEW h \in Greenlets, Return(h), h # g_dispatch
    PROVE  Inv'
<1> DEFINE f == gl[h]
           d == g_dispatch
           r == Rescheduled(q, f.t)
           b == [Fresh EXCEPT !.at = "pool", !.t = f.t]
           e == [gl[d] EXCEPT !.at = "pass", !.i = @ + 1]
<1>0. /\ cur = h /\ f \in Frames /\ f.at = "task" /\ ~f.holds /\ gl[d] \in Frames
      /\ q \in Queues /\ Once(q) /\ Covers(q, gl[d]) /\ gl \in [Greenlets -> Frames]
      /\ d \in Greenlets /\ h \in Timers /\ greenlets \in Seq(Greenlets)
  BY DEF Return, At, Inv, Types, TimersInv, CoverInv, Timers
<1>1. /\ q' = unregister_timer(r, h, gl[d].i) /\ greenlets' = Append(greenlets, h)
      /\ gl' = [gl EXCEPT ![h] = b, ![d].at = "pass", ![d].i = @ + 1]
      /\ cur' = d /\ UNCHANGED <<g_dispatch, mutex, completed>>
  BY DEF Return, end_greenlet, Index
<1>2. gl[d].at = "lambda" /\ In(q, h) /\ ~In(q, d) /\ ~gl[d].holds /\ gl[d].why = "run"
  BY <1>0 DEF Inv, Running, TimersInv, HasTimer, Idle
<1>3. /\ e \in Frames /\ e.at = "pass" /\ e.i = gl[d].i + 1 /\ e.end = gl[d].end
      /\ ~e.holds /\ e.why = "run"
  BY <1>0, <1>2, NextFrame
<1>4. b \in Frames /\ b.at = "pool" /\ ~b.holds /\ b.why = "run"
  <2>1. f.t \in Sources /\ "pool" \in States
    BY <1>0 DEF Frames, States
  <2> HIDE DEF f
  <2> QED  BY <2>1, FreshFacts DEF Frames
<1>5. gl' = [gl EXCEPT ![h] = b, ![d] = e]
  BY <1>0, <1>1
<1> HIDE DEF b, e
<1>6. /\ gl' \in [Greenlets -> Frames] /\ gl'[h] = b /\ gl'[d] = e
      /\ \A x \in Greenlets : x # d /\ x # h => gl'[x] = gl[x]
  BY <1>0, <1>3, <1>4, <1>5
<1>7. r \in Queues /\ r.timers = q.timers /\ Covers(r, gl[d])
  BY <1>0, RescheduledFacts
<1> HIDE DEF r
<1>8. Once(r) /\ \A x : In(r, x) <=> In(q, x)
  BY <1>0, <1>7 DEF Once, In
<1>i. gl[d].i \in Nat /\ gl[d].end \in Nat
  BY <1>0 DEF Frames
<1>9. q' \in Queues
  BY <1>0, <1>1, <1>2, <1>7, <1>8, <1>i, UnregisterFacts
<1>10. Once(q') /\ \A x : In(q', x) <=> In(q, x) /\ x # h
  BY <1>0, <1>1, <1>2, <1>7, <1>8, <1>i, UnregisterOnce
<1>11. Covers(q', gl[d])
  <2>1. \A k \in 1..Len(r.timers) :
          Behind(gl[d], k) /\ r.timers[k] # h /\ r.timers[k] \notin r.missed
            => r.next <= r.wake[r.timers[k]]
    BY <1>7 DEF Covers
  <2> QED  BY <1>0, <1>1, <1>2, <1>7, <1>8, <2>1, CoversUnregister
<1>12. Covers(q', e)
  <2>1. \A k \in 1..Len(q'.timers) : Behind(e, k) => Behind(gl[d], k)
    BY <1>2, <1>3, <1>i DEF Behind
  <2> QED  BY <1>11, <2>1 DEF Covers
<1>13. Running'
  BY <1>0, <1>1, <1>3, <1>4, <1>6 DEF Inv, Running
<1>14. Pooled' /\ greenlets' \in Seq(Greenlets)
  <2>1. \A k \in 1..Len(greenlets) : greenlets[k] \in Greenlets /\ gl[greenlets[k]].at = "pool"
    BY <1>0 DEF Inv, Pooled
  <2>2. /\ greenlets' \in Seq(Greenlets) /\ Len(greenlets') = Len(greenlets) + 1
        /\ Len(greenlets) \in Nat /\ greenlets'[Len(greenlets) + 1] = h
        /\ \A k \in 1..Len(greenlets) : greenlets'[k] = greenlets[k]
    BY <1>0, <1>1
  <2>3. \A k \in 1..Len(greenlets) : greenlets[k] # h /\ greenlets[k] # d
    BY <1>0, <1>2, <2>1
  <2>4. \A k \in 1..Len(greenlets') : k = Len(greenlets) + 1 \/ k \in 1..Len(greenlets)
    BY <2>2
  <2>5. \A k \in 1..Len(greenlets') : gl'[greenlets'[k]].at = "pool"
    BY <1>4, <1>6, <2>1, <2>2, <2>3, <2>4
  <2>6. \A k, l \in 1..Len(greenlets) : greenlets[k] = greenlets[l] => k = l
    BY <1>0 DEF Inv, Pooled, IsInjective
  <2>7. \A k, l \in 1..Len(greenlets') : greenlets'[k] = greenlets'[l] => k = l
    BY <2>2, <2>3, <2>4, <2>6
  <2>8. IsInjective(greenlets')
    BY <2>2, <2>7 DEF IsInjective
  <2> QED  BY <2>2, <2>5, <2>8 DEF Pooled
<1>15. TimersInv'
  <2>1. ASSUME NEW x \in Greenlets PROVE HasTimer(x)' <=> In(q', x)
    <3>1. CASE x = h
      BY <1>1, <1>4, <1>6, <1>10, <3>1 DEF HasTimer
    <3>2. CASE x = d
      BY <1>1, <1>2, <1>3, <1>6, <1>10, <3>2 DEF HasTimer
    <3>3. CASE x # d /\ x # h
      BY <1>0, <1>1, <1>6, <1>10, <3>3 DEF HasTimer, Inv, TimersInv
    <3> QED  BY <3>1, <3>2, <3>3
  <2> QED  BY <1>10, <2>1 DEF TimersInv, Once, In
<1>16. Idle'
  BY <1>3, <1>4, <1>6 DEF Inv, Idle
<1>17. LoopInv'
  BY <1>1, <1>3, <1>6, <1>i DEF LoopInv
<1>18. CoverInv'
  BY <1>1, <1>6, <1>12 DEF CoverInv, Covers, Behind
<1>19. \A x \in Greenlets : gl'[x].holds = gl[x].holds
  <2>1. f.holds \in BOOLEAN /\ gl[d].holds \in BOOLEAN /\ b.holds \in BOOLEAN /\ e.holds \in BOOLEAN
    BY <1>0, <1>3, <1>4 DEF Frames
  <2> QED  BY <1>0, <1>2, <1>3, <1>4, <1>6, <2>1
<1>20. MutexInv' /\ mutex' \in Mutexes
  BY <1>1, <1>19, MutexSame
<1>21. g_dispatch' \in Greenlets /\ cur' \in Greenlets /\ completed' \in BOOLEAN
  BY <1>0, <1>1 DEF Inv, Types
<1> QED  BY <1>6, <1>9, <1>13, <1>14, <1>15, <1>16, <1>17, <1>18, <1>20, <1>21, InvParts DEF Control

-----------------------------------------------------------------------------
(* The invariant                                                            *)

\* Every step keeps the invariant.
LEMMA NextKeeps ==
    ASSUME Inv, [Next]_vars
    PROVE  Inv'
<1>1. CASE Dispatch
  <2>1. PICK g \in Greenlets : CheckTimers(g) \/ Turn(g) \/ PassEnd(g) \/ Poll(g)
    BY <1>1 DEF Dispatch
  <2> QED  BY <2>1, CheckTimersStep, TurnStep, PassEndStep, PollStep
<1>2. CASE Callback
  <2>1. PICK h \in Greenlets :
          \/ Pause(h) \/ lock(h) \/ LockWakes(h) \/ unlock(h) \/ wait(h) \/ WaitWakes(h)
          \/ Complete(h) \/ register_callback(h) \/ Return(h)
    BY <1>2 DEF Callback
  <2>2. CASE Return(h)
    BY <2>2, DispatcherReturns, ResumedReturns
  <2> QED  BY <2>1, <2>2, PauseStep, LockStep, LockWakesStep, UnlockStep, WaitStep, WaitWakesStep,
              CompleteStep, RegisterStep
<1>3. CASE UNCHANGED vars
  BY <1>3 DEF vars, Inv, Types, Running, Pooled, TimersInv, HasTimer, In, Once, Idle, MutexInv,
              LoopInv, CoverInv, Covers, Behind
<1> QED  BY <1>1, <1>2, <1>3 DEF Next

\* The vector of the periodic timers holds each of them once.
LEMMA PeriodicFacts ==
    /\ SetToSeq(Periodic) \in Seq(Periodic)
    /\ \A k, l \in 1..Len(SetToSeq(Periodic)) :
         SetToSeq(Periodic)[k] = SetToSeq(Periodic)[l] => k = l
<1> DEFINE n == Cardinality(Periodic)
<1>1. n \in Nat /\ \E p : p \in Bijection(1..n, Periodic)
  <2>1. IsFiniteSet(Periodic)
    BY ReactorAssumption
  <2>2. n \in Nat /\ ExistsBijection(1..n, Periodic)
    BY <2>1, FS_CardinalityType
  <2> QED  BY <2>2 DEF ExistsBijection
<1>2. \E p \in [1..n -> Periodic] : IsInjective(p)
  <2>1. PICK p : p \in Bijection(1..n, Periodic)
    BY <1>1
  <2>2. p \in [1..n -> Periodic] /\ \A k, l \in 1..n : p[k] = p[l] => k = l
    <3>1. p \in [1..n -> Periodic] /\ IsInjective(p)
      BY <2>1 DEF Bijection, Injection
    <3> QED  BY <3>1 DEF IsInjective
  <2> QED  BY <2>2 DEF IsInjective
<1>3. SetToSeq(Periodic) \in [1..n -> Periodic] /\ IsInjective(SetToSeq(Periodic))
  BY <1>2 DEF SetToSeq
<1> DEFINE v == SetToSeq(Periodic)
<1> HIDE DEF v, n
<1>4. v \in Seq(Periodic) /\ DOMAIN v = 1..n /\ Len(v) = n
  BY <1>1, <1>3 DEF v
<1>5. \A k, l \in 1..n : v[k] = v[l] => k = l
  BY <1>3, <1>4 DEF v, IsInjective
<1> QED  BY <1>4, <1>5 DEF v

\* The reactor at its start.
LEMMA InitInv ==
    ASSUME Init
    PROVE  Inv
<1> DEFINE v == SetToSeq(Periodic)
           u == [t \in Timers |-> IF t \in Periodic THEN 0 ELSE NEVER]
           c == [Fresh EXCEPT !.at = "check"]
           no == FALSE
           m == {}
<1>1. /\ q = [timers |-> v, wake |-> u, next |-> 0, missed |-> m]
      /\ g_dispatch = (CHOOSE g \in Greenlets : TRUE) /\ cur = g_dispatch
      /\ gl = [g \in Greenlets |-> IF g = cur THEN c ELSE Fresh]
      /\ greenlets = <<>> /\ mutex = [is_locked |-> no, next_pending |-> no, queue |-> <<>>]
      /\ completed = FALSE /\ ~no /\ no \in BOOLEAN /\ m \in SUBSET Timers
  BY DEF Init
<1>2. /\ v \in Seq(Timers) /\ \A k \in 1..Len(v) : v[k] \in Periodic
      /\ \A k, l \in 1..Len(v) : v[k] = v[l] => k = l
  BY PeriodicFacts DEF Timers
<1>3. u \in [Timers -> 0..NEVER] /\ 0 \in 0..NEVER
  BY TimesInRange
<1>4. c \in Frames /\ c.at = "check" /\ c.i = 0 /\ c.end = 0 /\ c.t = Fd /\ ~c.holds /\ c.why = "run"
  <2>1. "check" \in States
    BY DEF States
  <2> QED  BY <2>1, FreshFacts, AtFacts
<1> HIDE DEF v, u, c, no, m
<1>5. q \in Queues /\ q.timers = v /\ q.next = 0
  BY <1>1, <1>2, <1>3 DEF Queues
<1>6. g_dispatch \in Greenlets
  <2>1. \E g \in Greenlets : TRUE
    BY ReactorAssumption
  <2> QED  BY <1>1, <2>1
<1>7. /\ gl \in [Greenlets -> Frames] /\ gl[cur] = c
      /\ \A g \in Greenlets : g # cur => gl[g] = Fresh
  BY <1>1, <1>4, <1>6, FreshFacts
<1>8. Types
  <2>1. mutex \in [is_locked : BOOLEAN, next_pending : BOOLEAN, queue : Seq(Greenlets)]
    BY <1>1
  <2> QED  BY <1>1, <1>5, <1>6, <1>7, <2>1 DEF Types
<1>9. Running /\ Idle /\ LoopInv
  BY <1>1, <1>4, <1>6, <1>7, FreshFacts DEF Running, Idle, LoopInv
<1>10. Pooled
  BY <1>1 DEF Pooled, IsInjective
<1>11. TimersInv
  <2>1. Once(q)
    BY <1>2, <1>5 DEF Once
  <2>2. ASSUME NEW g \in Greenlets PROVE ~HasTimer(g) /\ ~In(q, g)
    <3>1. gl[g].at # "wait" /\ ~(g = cur /\ g # g_dispatch)
      BY <1>1, <1>4, <1>7, FreshFacts
    <3>2. g \notin Periodic
      BY ReactorAssumption
    <3> QED  BY <1>2, <1>5, <3>1, <3>2 DEF HasTimer, In
  <2> QED  BY <2>1, <2>2 DEF TimersInv
<1>12. MutexInv
  <2>1. ~mutex.is_locked /\ ~mutex.next_pending
    BY <1>1
  <2>2. \A g \in Greenlets : ~gl[g].holds
    BY <1>4, <1>7, FreshFacts
  <2> QED  BY <2>1, <2>2 DEF MutexInv
<1>13. CoverInv
  BY <1>5, CoversZero DEF CoverInv
<1> QED  BY <1>8, <1>9, <1>10, <1>11, <1>12, <1>13 DEF Inv

\* The reactor keeps its invariant: one greenlet runs, the vector of timers holds
\* the timer of every callback that is paused, and no timer twice; next_timer is
\* no later than the timers that the loop of check_timers() is done with.
THEOREM InvHolds == Spec => []Inv
<1>1. Init => Inv
  BY InitInv
<1>2. Inv /\ [Next]_vars => Inv'
  BY NextKeeps
<1> QED  BY <1>1, <1>2, PTL DEF Spec

\* A ReactorMutex has one holder at most, also while unlock() hands it over to the
\* first greenlet of its queue and that greenlet has not run yet.
THEOREM OneHolderHolds == Spec => []OneHolder
<1>1. Inv => OneHolder
  <2> SUFFICES ASSUME Inv PROVE OneHolder
    OBVIOUS
  <2>0. /\ q \in Queues /\ gl \in [Greenlets -> Frames] /\ cur \in Greenlets
        /\ g_dispatch \in Greenlets /\ completed \in BOOLEAN
    BY DEF Inv, Types
  <2>1. /\ q.timers \in Seq(Timers) /\ q.wake \in [Timers -> 0..NEVER]
        /\ q.next \in 0..NEVER /\ q.missed \subseteq Timers
    BY <2>0 DEF Queues
  <2>2. ASSUME NEW g \in Greenlets
        PROVE  /\ gl[g].at \in States /\ gl[g].ops \in Nat /\ gl[g].holds \in BOOLEAN
               /\ gl[g].why \in {"run", "lock", "completion"}
               /\ gl[g].at = "wait" => g \in ToSet(q.timers)
    <3>1. gl[g] \in Frames
      BY <2>0
    <3>2. gl[g].at = "wait" => In(q, g)
      BY DEF Inv, TimersInv, HasTimer
    <3> QED  BY <2>1, <3>1, <3>2 DEF Frames, In, ToSet
  <2>3. gl[cur].at \in {"check", "poll", "pass", "task"}
    BY DEF Inv, Running
  <2>4. g_dispatch # cur <=> gl[g_dispatch].at = "lambda"
    BY DEF Inv, Running
  <2>5. IsInjective(q.timers)
    BY <2>1 DEF Inv, TimersInv, Once, IsInjective
  <2>6. TypeOK
    BY <2>0, <2>1, <2>2, <2>3, <2>4, <2>5 DEF TypeOK
  <2>7. \A g, h \in Holders : g = h
    BY DEF Holders, Inv, MutexInv
  <2>8. mutex.is_locked <=> Holders # {} \/ mutex.next_pending
    BY DEF Holders, Inv, MutexInv
  <2>9. ~(mutex.next_pending /\ Holders # {})
    BY DEF Holders, Inv, MutexInv
  <2> QED  BY <2>6, <2>7, <2>8, <2>9 DEF OneHolder
<1> QED  BY <1>1, InvHolds, PTL

\* While the reactor polls, it wakes in time for every timer of its vector that the
\* last pass of check_timers() has not passed over.
THEOREM CoveredHolds == Spec => []Covered
<1>1. Inv => Covered
  <2> SUFFICES ASSUME Inv, gl[cur].at = "poll", NEW t \in ToSet(q.timers) \ q.missed
               PROVE  q.next <= q.wake[t]
    BY DEF Covered
  <2>1. cur = g_dispatch /\ gl[cur].i = 0 /\ gl[cur].end = 0 /\ q \in Queues
    BY DEF Inv, Running, LoopInv, Types
  <2>2. PICK k \in 1..Len(q.timers) : q.timers[k] = t
    BY <2>1 DEF ToSet, Queues
  <2>3. Behind(gl[g_dispatch], k)
    BY <2>1 DEF Behind
  <2> QED  BY <2>2, <2>3 DEF Inv, CoverInv, Covers
<1> QED  BY <1>1, InvHolds, PTL
=============================================================================
