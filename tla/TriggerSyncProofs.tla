------------------------- MODULE TriggerSyncProofs -------------------------
(***************************************************************************)
(* Proofs about TriggerSync, for any number of micro-controllers, homing   *)
(* moves, losses and shutdowns: no stepper outlives the stop of another    *)
(* micro-controller by more than the timeout, a move leaves nothing behind *)
(* for the next, and a reported hit was one.                               *)
(***************************************************************************)
EXTENDS MCTriggerSync, WellFoundedInduction, TLAPS

-----------------------------------------------------------------------------
(* Sequences *)

\* The rest of a sequence.
LEMMA TailFacts ==
    ASSUME NEW S, NEW s \in Seq(S), s # <<>>
    PROVE  /\ Tail(s) \in Seq(S) /\ Len(s) \in Nat \ {0} /\ Head(s) = s[1] /\ s[1] \in S
           /\ Len(Tail(s)) = Len(s) - 1
           /\ \A i \in 1..Len(Tail(s)) : i + 1 \in 1..Len(s) /\ Tail(s)[i] = s[i + 1]
           /\ \A i \in 2..Len(s) : i - 1 \in 1..Len(Tail(s)) /\ s[i] = Tail(s)[i - 1]
<1>1. Tail(s) \in Seq(S) /\ Len(s) \in Nat /\ Len(s) # 0 /\ Len(Tail(s)) = Len(s) - 1
  OBVIOUS
<1>2. Len(s) \in Nat \ {0} /\ s[1] \in S /\ Head(s) = s[1]
  BY <1>1
<1>3. \A i \in 1..Len(Tail(s)) : i + 1 \in 1..Len(s) /\ Tail(s)[i] = s[i + 1]
  BY <1>1
<1>4. \A i \in 2..Len(s) : i - 1 \in 1..Len(Tail(s)) /\ s[i] = Tail(s)[i - 1]
  BY <1>1, <1>3
<1> QED  BY <1>1, <1>2, <1>3, <1>4

\* Two sequences, one behind the other.
LEMMA CatFacts ==
    ASSUME NEW S, NEW s \in Seq(S), NEW t \in Seq(S)
    PROVE  /\ s \o t \in Seq(S) /\ Len(s) \in Nat /\ Len(t) \in Nat
           /\ Len(s \o t) = Len(s) + Len(t)
           /\ \A i \in 1..Len(s) : i \in 1..Len(s \o t) /\ (s \o t)[i] = s[i]
           /\ \A i \in 1..Len(t) : /\ Len(s) + i \in 1..Len(s \o t)
                                   /\ (s \o t)[Len(s) + i] = t[i]
           /\ \A i \in 1..Len(s \o t) :
                \/ i \in 1..Len(s) /\ (s \o t)[i] = s[i]
                \/ i - Len(s) \in 1..Len(t) /\ (s \o t)[i] = t[i - Len(s)]
<1>1. s \o t \in Seq(S) /\ Len(s) \in Nat /\ Len(t) \in Nat /\ Len(s \o t) = Len(s) + Len(t)
  OBVIOUS
<1>2. \A i \in 1..Len(s) : i \in 1..Len(s \o t) /\ (s \o t)[i] = s[i]
  BY <1>1
<1>3. \A i \in 1..Len(t) : Len(s) + i \in 1..Len(s \o t) /\ (s \o t)[Len(s) + i] = t[i]
  BY <1>1
<1>4. ASSUME NEW i \in 1..Len(s \o t)
      PROVE  \/ i \in 1..Len(s) /\ (s \o t)[i] = s[i]
             \/ i - Len(s) \in 1..Len(t) /\ (s \o t)[i] = t[i - Len(s)]
  <2>1. CASE i <= Len(s)
    BY <2>1, <1>1, <1>2
  <2>2. CASE ~(i <= Len(s))
    <3>1. i - Len(s) \in 1..Len(t) /\ Len(s) + (i - Len(s)) = i
      BY <2>2, <1>1
    <3> QED  BY <3>1, <1>3
  <2> QED  BY <2>1, <2>2
<1> QED  BY <1>1, <1>2, <1>3, <1>4

\* A set of natural numbers has a least element.
LEMMA Smallest ==
    ASSUME NEW T, T \subseteq Nat, T # {}
    PROVE  \E a \in T : \A b \in T : a <= b
<1> DEFINE R == OpToRel(<, Nat)
<1>1. IsWellFoundedOn(R, Nat)
  BY NatLessThanWellFounded
<1>2. \A x, y \in Nat : <<x, y>> \in R <=> x < y
  BY DEF OpToRel
<1> HIDE DEF R
<1>3. PICK a \in T : \A y \in T : ~(<<y, a>> \in R)
  BY <1>1, WFMin
<1>4. \A b \in T : b \in Nat /\ a \in Nat /\ ~(b < a)
  BY <1>2, <1>3
<1> QED  BY <1>3, <1>4

-----------------------------------------------------------------------------
(* What can be said of the commands under way to a micro-controller *)

Has(q, c) == \E i \in 1..Len(q) : q[i].cmd = c

HeadIs(q, c) == q # <<>> /\ q[1].cmd = c

\* Only emergency stops.
Bare(q) == \A i \in 1..Len(q) : q[i].cmd = "emergency_stop"

\* The reasons that the host gives.
HostReasons(q) ==
    \A i \in 1..Len(q) : q[i].cmd \in {"trigger", "query"} => q[i].arg \in {2, 3}

\* start, stop_on_trigger and set_timeout follow each other.
Framed(q) ==
    \A i \in 1..Len(q) :
      /\ q[i].cmd = "start"
           => i + 1 \in 1..Len(q) /\ q[i + 1].cmd = "stop_on_trigger"
      /\ q[i].cmd = "stop_on_trigger"
           => /\ i + 1 \in 1..Len(q) /\ q[i + 1].cmd = "set_timeout"
              /\ i > 1 => q[i - 1].cmd = "start"

\* Behind a query there are only emergency stops,
QueryLast(q) ==
    \A i, j \in 1..Len(q) : q[i].cmd = "query" /\ j > i => q[j].cmd = "emergency_stop"

\* and so in front of a start.
StartFirst(q) ==
    \A i, j \in 1..Len(q) : q[j].cmd = "start" /\ i < j => q[i].cmd = "emergency_stop"

\* Every command c has this argument.
ArgIs(q, c, arg) == \A i \in 1..Len(q) : q[i].cmd = c => q[i].arg = arg

\* The endstop is switched off, and not on again.
OffAfter(q) ==
    \E i \in 1..Len(q) : /\ q[i].cmd = "endstop_off"
                         /\ \A j \in 1..Len(q) : j > i => q[j].cmd # "endstop_home"

\* The timeouts are at most b; later than b.
AtMost(q, b) == \A i \in 1..Len(q) : q[i].cmd = "set_timeout" => q[i].arg <= b

LaterThan(q, b) == \A i \in 1..Len(q) : q[i].cmd = "set_timeout" => q[i].arg > b

\* An emergency stop comes before any query.
Doomed(q) ==
    \E i \in 1..Len(q) : /\ q[i].cmd = "emergency_stop"
                         /\ \A j \in 1..Len(q) : j < i => q[j].cmd # "query"

LEMMA HasCat ==
    ASSUME NEW q \in Seq(Commands), NEW s \in Seq(Commands), NEW c
    PROVE  Has(q \o s, c) <=> Has(q, c) \/ Has(s, c)
<1>1. Has(q, c) => Has(q \o s, c)
  BY CatFacts DEF Has
<1>2. ASSUME Has(s, c) PROVE Has(q \o s, c)
  <2>1. PICK i \in 1..Len(s) : s[i].cmd = c
    BY <1>2 DEF Has
  <2>2. Len(q) + i \in 1..Len(q \o s) /\ (q \o s)[Len(q) + i] = s[i]
    BY CatFacts
  <2> QED  BY <2>1, <2>2 DEF Has
<1>3. Has(q \o s, c) => Has(q, c) \/ Has(s, c)
  BY CatFacts DEF Has
<1> QED  BY <1>1, <1>2, <1>3

LEMMA HasTail ==
    ASSUME NEW q \in Seq(Commands), q # <<>>, NEW c
    PROVE  Has(q, c) <=> HeadIs(q, c) \/ Has(Tail(q), c)
<1>1. Has(Tail(q), c) => Has(q, c)
  BY TailFacts DEF Has
<1>2. HeadIs(q, c) => Has(q, c)
  <2>1. 1 \in 1..Len(q)
    BY TailFacts
  <2> QED  BY <2>1 DEF Has, HeadIs
<1>3. ASSUME Has(q, c), ~HeadIs(q, c) PROVE Has(Tail(q), c)
  <2>1. PICK i \in 1..Len(q) : q[i].cmd = c
    BY <1>3 DEF Has
  <2>2. i # 1
    BY <2>1, <1>3 DEF HeadIs
  <2>3. i \in 2..Len(q)
    BY <2>2, TailFacts
  <2>4. i - 1 \in 1..Len(Tail(q)) /\ q[i] = Tail(q)[i - 1]
    BY <2>3, TailFacts
  <2> QED  BY <2>1, <2>4 DEF Has
<1> QED  BY <1>1, <1>2, <1>3

LEMMA HeadCat ==
    ASSUME NEW q \in Seq(Commands), NEW s \in Seq(Commands), NEW c
    PROVE  /\ q # <<>> => (HeadIs(q \o s, c) <=> HeadIs(q, c))
           /\ q = <<>> => q \o s = s
<1>1. ASSUME q # <<>> PROVE HeadIs(q \o s, c) <=> HeadIs(q, c)
  <2>1. Len(q) \in Nat \ {0}
    BY <1>1, TailFacts
  <2>2. 1 \in 1..Len(q) /\ 1 \in 1..Len(q \o s)
    BY <2>1, CatFacts
  <2>3. q \o s # <<>> /\ (q \o s)[1] = q[1]
    BY <2>2, CatFacts
  <2> QED  BY <2>3, <1>1 DEF HeadIs
<1> QED  BY <1>1

LEMMA BareFacts ==
    ASSUME NEW q \in Seq(Commands), NEW s \in Seq(Commands)
    PROVE  /\ Bare(q \o s) <=> Bare(q) /\ Bare(s)
           /\ \A c : Bare(q) /\ c # "emergency_stop" => ~Has(q, c) /\ ~HeadIs(q, c)
           /\ q # <<>> /\ Bare(q) => Bare(Tail(q)) /\ HeadIs(q, "emergency_stop")
<1>1. Bare(q \o s) => Bare(q)
  BY CatFacts DEF Bare
<1>2. ASSUME Bare(q \o s) PROVE Bare(s)
  <2> SUFFICES ASSUME NEW i \in 1..Len(s) PROVE s[i].cmd = "emergency_stop"
    BY DEF Bare
  <2>1. Len(q) + i \in 1..Len(q \o s) /\ (q \o s)[Len(q) + i] = s[i]
    BY CatFacts
  <2> QED  BY <2>1, <1>2 DEF Bare
<1>3. Bare(q) /\ Bare(s) => Bare(q \o s)
  BY CatFacts DEF Bare
<1>4. \A c : Bare(q) /\ c # "emergency_stop" => ~Has(q, c)
  BY DEF Bare, Has
<1>5. ASSUME q # <<>> PROVE 1 \in 1..Len(q)
  BY <1>5, TailFacts
<1>6. \A c : Bare(q) /\ c # "emergency_stop" => ~HeadIs(q, c)
  BY <1>5 DEF Bare, HeadIs
<1>7. q # <<>> /\ Bare(q) => Bare(Tail(q)) /\ HeadIs(q, "emergency_stop")
  BY <1>5, TailFacts DEF Bare, HeadIs
<1> QED  BY <1>1, <1>2, <1>3, <1>4, <1>6, <1>7

LEMMA FramedCat ==
    ASSUME NEW q \in Seq(Commands), NEW s \in Seq(Commands), Framed(q), Framed(s),
           ~HeadIs(s, "stop_on_trigger")
    PROVE  Framed(q \o s)
<1> DEFINE r == q \o s
<1>1. ASSUME NEW i \in 1..Len(q)
      PROVE  /\ i \in 1..Len(r) /\ r[i] = q[i]
             /\ i + 1 \in 1..Len(q) => i + 1 \in 1..Len(r) /\ r[i + 1] = q[i + 1]
             /\ i > 1 => i - 1 \in 1..Len(q) /\ r[i - 1] = q[i - 1]
  BY CatFacts
<1>2. ASSUME NEW i \in 1..Len(r), i - Len(q) \in 1..Len(s), r[i] = s[i - Len(q)]
      PROVE  /\ (i - Len(q)) + 1 \in 1..Len(s)
                  => i + 1 \in 1..Len(r) /\ r[i + 1] = s[(i - Len(q)) + 1]
             /\ i - Len(q) > 1 => r[i - 1] = s[(i - Len(q)) - 1]
             /\ i - Len(q) = 1 => s # <<>> /\ r[i] = s[1]
  <2>1. Len(q) \in Nat /\ Len(s) \in Nat /\ i \in Nat
    BY CatFacts
  <2>2. ASSUME (i - Len(q)) + 1 \in 1..Len(s)
        PROVE  i + 1 \in 1..Len(r) /\ r[i + 1] = s[(i - Len(q)) + 1]
    <3>1. Len(q) + ((i - Len(q)) + 1) = i + 1
      BY <2>1
    <3> QED  BY <2>2, <3>1, CatFacts
  <2>3. ASSUME i - Len(q) > 1 PROVE r[i - 1] = s[(i - Len(q)) - 1]
    <3>1. Len(q) + ((i - Len(q)) - 1) = i - 1 /\ (i - Len(q)) - 1 \in 1..Len(s)
      BY <2>1, <2>3, <1>2
    <3> QED  BY <3>1, CatFacts
  <2>4. i - Len(q) = 1 => s # <<>> /\ r[i] = s[1]
    BY <1>2, <2>1
  <2> QED  BY <2>2, <2>3, <2>4
<1> SUFFICES ASSUME NEW i \in 1..Len(r)
             PROVE  /\ r[i].cmd = "start"
                         => i + 1 \in 1..Len(r) /\ r[i + 1].cmd = "stop_on_trigger"
                    /\ r[i].cmd = "stop_on_trigger"
                         => /\ i + 1 \in 1..Len(r) /\ r[i + 1].cmd = "set_timeout"
                            /\ i > 1 => r[i - 1].cmd = "start"
  BY DEF Framed
<1>3. CASE i \in 1..Len(q) /\ r[i] = q[i]
  <2> HIDE DEF r
  <2> QED  BY <1>1, <1>3, SMTT(30) DEF Framed
<1>4. CASE i - Len(q) \in 1..Len(s) /\ r[i] = s[i - Len(q)]
  <2>1. Len(q) \in Nat /\ i \in Nat
    BY CatFacts
  <2> HIDE DEF r
  <2>2. CASE i - Len(q) = 1
    <3>1. r[i].cmd # "stop_on_trigger"
      BY <2>2, <1>4, <1>2 DEF HeadIs
    <3>2. r[i].cmd = "start"
            => i + 1 \in 1..Len(r) /\ r[i + 1].cmd = "stop_on_trigger"
      BY <1>4, <1>2 DEF Framed
    <3> QED  BY <3>1, <3>2
  <2>3. CASE i - Len(q) > 1
    <3>1. PICK k \in 1..Len(s) : k = i - Len(q)
      BY <1>4
    <3>2. /\ r[i] = s[k] /\ k > 1 /\ r[i - 1] = s[k - 1]
          /\ k + 1 \in 1..Len(s) => i + 1 \in 1..Len(r) /\ r[i + 1] = s[k + 1]
      BY <2>3, <1>4, <1>2, <3>1
    <3> QED  BY <3>2, SMTT(30) DEF Framed
  <2> QED  BY <2>1, <2>2, <2>3, <1>4
<1> QED  BY <1>3, <1>4, CatFacts

LEMMA FramedTail ==
    ASSUME NEW q \in Seq(Commands), q # <<>>, Framed(q)
    PROVE  /\ Framed(Tail(q))
           /\ HeadIs(q, "start") => HeadIs(Tail(q), "stop_on_trigger")
           /\ HeadIs(q, "stop_on_trigger") => HeadIs(Tail(q), "set_timeout")
           /\ HeadIs(Tail(q), "stop_on_trigger") => HeadIs(q, "start")
<1> DEFINE t == Tail(q)
<1>1. Len(q) \in Nat \ {0} /\ Len(t) = Len(q) - 1 /\ 1 \in 1..Len(q)
  BY TailFacts
<1>2. \A i \in 1..Len(t) : i + 1 \in 1..Len(q) /\ t[i] = q[i + 1]
  BY TailFacts
<1>3. 2 \in 1..Len(q) <=> t # <<>>
  <2>1. t \in Seq(Commands)
    BY TailFacts
  <2> HIDE DEF t
  <2>2. t # <<>> <=> Len(t) # 0
    BY <2>1
  <2> QED  BY <1>1, <2>2
<1>4. 2 \in 1..Len(q) => t[1] = q[2] /\ 1 \in 1..Len(t)
  BY <1>1, <1>2
<1>5. ASSUME NEW i \in 1..Len(t)
      PROVE  /\ i + 1 \in 1..Len(q) /\ t[i] = q[i + 1]
             /\ i + 2 \in 1..Len(q) => i + 1 \in 1..Len(t) /\ t[i + 1] = q[i + 2]
             /\ i > 1 => t[i - 1] = q[i]
             /\ (i + 1) + 1 = i + 2 /\ (i + 1) - 1 = i
  <2>1. i \in Nat
    OBVIOUS
  <2>2. i + 2 \in 1..Len(q) => i + 1 \in 1..Len(t)
    BY <1>1
  <2>3. i > 1 => i - 1 \in 1..Len(t) /\ (i - 1) + 1 = i
    BY <1>1
  <2>4. (i + 1) + 1 = i + 2 /\ (i + 1) - 1 = i
    OBVIOUS
  <2> HIDE DEF t
  <2> QED  BY <1>2, <2>2, <2>3, <2>4
<1> HIDE DEF t
<1>6. Framed(t)
  <2> SUFFICES ASSUME NEW i \in 1..Len(t)
               PROVE  /\ t[i].cmd = "start"
                           => i + 1 \in 1..Len(t) /\ t[i + 1].cmd = "stop_on_trigger"
                      /\ t[i].cmd = "stop_on_trigger"
                           => /\ i + 1 \in 1..Len(t) /\ t[i + 1].cmd = "set_timeout"
                              /\ i > 1 => t[i - 1].cmd = "start"
    BY DEF Framed
  <2>1. PICK k \in 1..Len(q) : k = i + 1
    BY <1>5
  <2>2. /\ t[i] = q[k] /\ k + 1 = i + 2 /\ k - 1 = i /\ k > 1
        /\ k + 1 \in 1..Len(q) => i + 1 \in 1..Len(t) /\ t[i + 1] = q[k + 1]
        /\ i > 1 => t[i - 1] = q[k - 1]
    BY <1>5, <2>1
  <2> QED  BY <2>2 DEF Framed
<1>a. /\ q[1].cmd = "start" => 2 \in 1..Len(q) /\ q[2].cmd = "stop_on_trigger"
      /\ q[1].cmd = "stop_on_trigger" => 2 \in 1..Len(q) /\ q[2].cmd = "set_timeout"
  <2>1. PICK i \in 1..Len(q) : i = 1
    BY <1>1
  <2>2. i + 1 = 2
    BY <2>1
  <2> QED  BY <2>1, <2>2 DEF Framed
<1>7. HeadIs(q, "start") => HeadIs(t, "stop_on_trigger")
  BY <1>a, <1>3, <1>4 DEF HeadIs
<1>8. HeadIs(q, "stop_on_trigger") => HeadIs(t, "set_timeout")
  BY <1>a, <1>3, <1>4 DEF HeadIs
<1>9. HeadIs(t, "stop_on_trigger") => HeadIs(q, "start")
  <2> SUFFICES ASSUME HeadIs(t, "stop_on_trigger") PROVE q[1].cmd = "start"
    BY DEF HeadIs
  <2>1. PICK i \in 1..Len(q) : i = 2 /\ q[i].cmd = "stop_on_trigger"
    BY <1>3, <1>4 DEF HeadIs
  <2>2. i > 1 /\ i - 1 = 1
    BY <2>1
  <2> QED  BY <2>1, <2>2 DEF Framed
<1> QED  BY <1>6, <1>7, <1>8, <1>9 DEF t

\* Commands other than start and stop_on_trigger need no frame.
LEMMA FramedPlain ==
    ASSUME NEW q, ~Has(q, "start"), ~Has(q, "stop_on_trigger")
    PROVE  Framed(q)
BY DEF Has, Framed

LEMMA QueryLastCat ==
    ASSUME NEW q \in Seq(Commands), NEW s \in Seq(Commands), QueryLast(q), QueryLast(s),
           Bare(s) \/ ~Has(q, "query")
    PROVE  QueryLast(q \o s)
<1> DEFINE r == q \o s
<1> SUFFICES ASSUME NEW i \in 1..Len(r), NEW j \in 1..Len(r), r[i].cmd = "query", j > i
             PROVE  r[j].cmd = "emergency_stop"
  BY DEF QueryLast
<1>1. Len(q) \in Nat /\ i \in Nat /\ j \in Nat
  BY CatFacts
<1>2. CASE i \in 1..Len(q) /\ r[i] = q[i] /\ j \in 1..Len(q) /\ r[j] = q[j]
  BY <1>2 DEF QueryLast
<1>3. CASE i \in 1..Len(q) /\ r[i] = q[i] /\ j - Len(q) \in 1..Len(s) /\ r[j] = s[j - Len(q)]
  BY <1>3 DEF Bare, Has
<1>4. CASE /\ i - Len(q) \in 1..Len(s) /\ r[i] = s[i - Len(q)]
           /\ j - Len(q) \in 1..Len(s) /\ r[j] = s[j - Len(q)]
  <2>1. j - Len(q) > i - Len(q)
    BY <1>1
  <2> QED  BY <1>4, <2>1 DEF QueryLast
<1>5. CASE i - Len(q) \in 1..Len(s) /\ r[i] = s[i - Len(q)] /\ j \in 1..Len(q)
  BY <1>1, <1>5
<1> QED  BY <1>2, <1>3, <1>4, <1>5, CatFacts

LEMMA QueryLastTail ==
    ASSUME NEW q \in Seq(Commands), q # <<>>, QueryLast(q)
    PROVE  QueryLast(Tail(q)) /\ (HeadIs(q, "query") => Bare(Tail(q)))
<1>1. \A i \in 1..Len(Tail(q)) : i + 1 \in 1..Len(q) /\ Tail(q)[i] = q[i + 1] /\ i + 1 > 1
  BY TailFacts
<1>2. 1 \in 1..Len(q)
  BY TailFacts
<1>3. \A i, j \in 1..Len(Tail(q)) : j > i => j + 1 > i + 1
  OBVIOUS
<1>4. QueryLast(Tail(q))
  BY <1>1, <1>3 DEF QueryLast
<1>5. HeadIs(q, "query") => Bare(Tail(q))
  BY <1>1, <1>2 DEF HeadIs, QueryLast, Bare
<1> QED  BY <1>4, <1>5

\* Without a query there is nothing to say.
LEMMA QueryLastPlain ==
    ASSUME NEW q, ~Has(q, "query")
    PROVE  QueryLast(q)
BY DEF Has, QueryLast

LEMMA StartFirstCat ==
    ASSUME NEW q \in Seq(Commands), NEW s \in Seq(Commands), StartFirst(q), StartFirst(s),
           Bare(q) \/ ~Has(s, "start")
    PROVE  StartFirst(q \o s)
<1> DEFINE r == q \o s
<1> SUFFICES ASSUME NEW i \in 1..Len(r), NEW j \in 1..Len(r), r[j].cmd = "start", i < j
             PROVE  r[i].cmd = "emergency_stop"
  BY DEF StartFirst
<1>1. Len(q) \in Nat /\ i \in Nat /\ j \in Nat
  BY CatFacts
<1>2. CASE i \in 1..Len(q) /\ r[i] = q[i] /\ j \in 1..Len(q) /\ r[j] = q[j]
  BY <1>2 DEF StartFirst
<1>3. CASE i \in 1..Len(q) /\ r[i] = q[i] /\ j - Len(q) \in 1..Len(s) /\ r[j] = s[j - Len(q)]
  BY <1>3 DEF Bare, Has
<1>4. CASE /\ i - Len(q) \in 1..Len(s) /\ r[i] = s[i - Len(q)]
           /\ j - Len(q) \in 1..Len(s) /\ r[j] = s[j - Len(q)]
  <2>1. i - Len(q) < j - Len(q)
    BY <1>1
  <2> QED  BY <1>4, <2>1 DEF StartFirst
<1>5. CASE i - Len(q) \in 1..Len(s) /\ j \in 1..Len(q)
  BY <1>1, <1>5
<1> QED  BY <1>2, <1>3, <1>4, <1>5, CatFacts

LEMMA StartFirstTail ==
    ASSUME NEW q \in Seq(Commands), q # <<>>, StartFirst(q)
    PROVE  /\ StartFirst(Tail(q))
           /\ Has(Tail(q), "start") => HeadIs(q, "emergency_stop")
           /\ Has(q, "start") => HeadIs(q, "emergency_stop") \/ HeadIs(q, "start")
<1>1. \A i \in 1..Len(Tail(q)) : i + 1 \in 1..Len(q) /\ Tail(q)[i] = q[i + 1] /\ 1 < i + 1
  BY TailFacts
<1>2. 1 \in 1..Len(q)
  BY TailFacts
<1>3. \A i, j \in 1..Len(Tail(q)) : i < j => i + 1 < j + 1
  OBVIOUS
<1>4. StartFirst(Tail(q))
  BY <1>1, <1>3 DEF StartFirst
<1>5. Has(Tail(q), "start") => HeadIs(q, "emergency_stop")
  BY <1>1, <1>2 DEF HeadIs, StartFirst, Has
<1> QED  BY <1>4, <1>5, HasTail

LEMMA StartFirstPlain ==
    ASSUME NEW q, ~Has(q, "start")
    PROVE  StartFirst(q)
BY DEF Has, StartFirst

LEMMA ArgsCat ==
    ASSUME NEW q \in Seq(Commands), NEW s \in Seq(Commands)
    PROVE  /\ \A c, a : ArgIs(q, c, a) /\ ArgIs(s, c, a) => ArgIs(q \o s, c, a)
           /\ HostReasons(q) /\ HostReasons(s) => HostReasons(q \o s)
           /\ \A b : AtMost(q, b) /\ AtMost(s, b) => AtMost(q \o s, b)
           /\ \A b : LaterThan(q, b) /\ LaterThan(s, b) => LaterThan(q \o s, b)
<1>1. \A c, a : ArgIs(q, c, a) /\ ArgIs(s, c, a) => ArgIs(q \o s, c, a)
  BY CatFacts DEF ArgIs
<1>2. HostReasons(q) /\ HostReasons(s) => HostReasons(q \o s)
  BY CatFacts DEF HostReasons
<1>3. \A b : AtMost(q, b) /\ AtMost(s, b) => AtMost(q \o s, b)
  BY CatFacts DEF AtMost
<1>4. \A b : LaterThan(q, b) /\ LaterThan(s, b) => LaterThan(q \o s, b)
  BY CatFacts DEF LaterThan
<1> QED  BY <1>1, <1>2, <1>3, <1>4

LEMMA ArgsTail ==
    ASSUME NEW q \in Seq(Commands), q # <<>>
    PROVE  /\ \A c, a : ArgIs(q, c, a) => ArgIs(Tail(q), c, a) /\ (HeadIs(q, c) => q[1].arg = a)
           /\ HostReasons(q) =>
                /\ HostReasons(Tail(q))
                /\ HeadIs(q, "trigger") \/ HeadIs(q, "query") => q[1].arg \in {2, 3}
           /\ \A b : AtMost(q, b) =>
                AtMost(Tail(q), b) /\ (HeadIs(q, "set_timeout") => q[1].arg <= b)
           /\ \A b : LaterThan(q, b) =>
                LaterThan(Tail(q), b) /\ (HeadIs(q, "set_timeout") => q[1].arg > b)
<1>1. \A i \in 1..Len(Tail(q)) : i + 1 \in 1..Len(q) /\ Tail(q)[i] = q[i + 1]
  BY TailFacts
<1>2. 1 \in 1..Len(q)
  BY TailFacts
<1>3. \A c, a : ArgIs(q, c, a) => ArgIs(Tail(q), c, a) /\ (HeadIs(q, c) => q[1].arg = a)
  BY <1>1, <1>2 DEF ArgIs, HeadIs
<1>4. HostReasons(q) =>
        /\ HostReasons(Tail(q))
        /\ HeadIs(q, "trigger") \/ HeadIs(q, "query") => q[1].arg \in {2, 3}
  BY <1>1, <1>2 DEF HostReasons, HeadIs
<1>5. \A b : AtMost(q, b) =>
        AtMost(Tail(q), b) /\ (HeadIs(q, "set_timeout") => q[1].arg <= b)
  BY <1>1, <1>2 DEF AtMost, HeadIs
<1>6. \A b : LaterThan(q, b) =>
        LaterThan(Tail(q), b) /\ (HeadIs(q, "set_timeout") => q[1].arg > b)
  BY <1>1, <1>2 DEF LaterThan, HeadIs
<1> QED  BY <1>3, <1>4, <1>5, <1>6

LEMMA ArgsPlain ==
    ASSUME NEW q
    PROVE  /\ \A c, a : ~Has(q, c) => ArgIs(q, c, a)
           /\ ~Has(q, "trigger") /\ ~Has(q, "query") => HostReasons(q)
           /\ \A b : ~Has(q, "set_timeout") => AtMost(q, b) /\ LaterThan(q, b)
<1>1. \A c, a : ~Has(q, c) => ArgIs(q, c, a)
  BY DEF Has, ArgIs
<1>2. ~Has(q, "trigger") /\ ~Has(q, "query") => HostReasons(q)
  BY DEF Has, HostReasons
<1>3. \A b : ~Has(q, "set_timeout") => AtMost(q, b) /\ LaterThan(q, b)
  BY DEF Has, AtMost, LaterThan
<1> QED  BY <1>1, <1>2, <1>3

LEMMA AtMostMore ==
    ASSUME NEW q \in Seq(Commands), NEW b \in Int, NEW d \in Int, b <= d, AtMost(q, b)
    PROVE  AtMost(q, d)
<1>1. \A i \in 1..Len(q) : q[i] \in Commands
  OBVIOUS
<1>2. \A i \in 1..Len(q) : q[i].arg \in Nat
  BY <1>1 DEF Commands
<1> QED  BY <1>2 DEF AtMost

LEMMA OffAfterCat ==
    ASSUME NEW q \in Seq(Commands), NEW s \in Seq(Commands)
    PROVE  /\ OffAfter(q) /\ ~Has(s, "endstop_home") => OffAfter(q \o s)
           /\ OffAfter(s) => OffAfter(q \o s)
<1> DEFINE r == q \o s
<1>1. ASSUME OffAfter(q), ~Has(s, "endstop_home") PROVE OffAfter(r)
  <2>1. PICK i \in 1..Len(q) : /\ q[i].cmd = "endstop_off"
                               /\ \A j \in 1..Len(q) : j > i => q[j].cmd # "endstop_home"
    BY <1>1 DEF OffAfter
  <2>2. i \in 1..Len(r) /\ r[i] = q[i]
    BY CatFacts
  <2>3. ASSUME NEW j \in 1..Len(r), j > i PROVE r[j].cmd # "endstop_home"
    <3>1. CASE j \in 1..Len(q) /\ r[j] = q[j]
      BY <3>1, <2>1, <2>3
    <3>2. CASE j - Len(q) \in 1..Len(s) /\ r[j] = s[j - Len(q)]
      BY <3>2, <1>1 DEF Has
    <3> QED  BY <3>1, <3>2, CatFacts
  <2> HIDE DEF r
  <2> QED  BY <2>1, <2>2, <2>3 DEF OffAfter
<1>2. ASSUME OffAfter(s) PROVE OffAfter(r)
  <2>1. PICK i \in 1..Len(s) : /\ s[i].cmd = "endstop_off"
                               /\ \A j \in 1..Len(s) : j > i => s[j].cmd # "endstop_home"
    BY <1>2 DEF OffAfter
  <2>2. Len(q) + i \in 1..Len(r) /\ r[Len(q) + i] = s[i] /\ Len(q) \in Nat
    BY CatFacts
  <2>3. ASSUME NEW j \in 1..Len(r), j > Len(q) + i PROVE r[j].cmd # "endstop_home"
    <3>1. CASE j \in 1..Len(q)
      BY <3>1, <2>2, <2>3
    <3>2. CASE j - Len(q) \in 1..Len(s) /\ r[j] = s[j - Len(q)]
      <4>1. j - Len(q) > i
        BY <2>2, <2>3
      <4> QED  BY <4>1, <3>2, <2>1
    <3> QED  BY <3>1, <3>2, CatFacts
  <2> HIDE DEF r
  <2> QED  BY <2>1, <2>2, <2>3 DEF OffAfter
<1> QED  BY <1>1, <1>2

LEMMA OffAfterTail ==
    ASSUME NEW q \in Seq(Commands), q # <<>>, OffAfter(q)
    PROVE  /\ Has(q, "endstop_off")
           /\ \/ OffAfter(Tail(q))
              \/ HeadIs(q, "endstop_off") /\ ~Has(Tail(q), "endstop_home")
<1>1. PICK i \in 1..Len(q) : /\ q[i].cmd = "endstop_off"
                             /\ \A j \in 1..Len(q) : j > i => q[j].cmd # "endstop_home"
  BY DEF OffAfter
<1>2. \A j \in 1..Len(Tail(q)) : j + 1 \in 1..Len(q) /\ Tail(q)[j] = q[j + 1]
  BY TailFacts
<1>3. CASE i = 1
  <2>1. \A j \in 1..Len(Tail(q)) : j + 1 > i
    BY <1>3
  <2> QED  BY <1>1, <1>2, <1>3, <2>1 DEF HeadIs, Has
<1>4. CASE i # 1
  <2>1. i \in 2..Len(q)
    BY <1>4, TailFacts
  <2>2. i - 1 \in 1..Len(Tail(q)) /\ q[i] = Tail(q)[i - 1]
    BY <2>1, TailFacts
  <2>3. \A j \in 1..Len(Tail(q)) : j > i - 1 => j + 1 > i
    OBVIOUS
  <2>4. OffAfter(Tail(q))
    BY <1>1, <1>2, <2>2, <2>3 DEF OffAfter
  <2> QED  BY <2>4, <1>1 DEF Has
<1> QED  BY <1>3, <1>4

LEMMA DoomedCat ==
    ASSUME NEW q \in Seq(Commands), NEW s \in Seq(Commands), Doomed(q)
    PROVE  Doomed(q \o s)
<1> DEFINE r == q \o s
<1>1. PICK i \in 1..Len(q) : /\ q[i].cmd = "emergency_stop"
                             /\ \A j \in 1..Len(q) : j < i => q[j].cmd # "query"
  BY DEF Doomed
<1>2. i \in 1..Len(r) /\ r[i] = q[i] /\ Len(q) \in Nat
  BY CatFacts
<1>3. ASSUME NEW j \in 1..Len(r), j < i PROVE r[j].cmd # "query"
  <2>1. j \in 1..Len(q)
    BY <1>2, <1>3
  <2>2. r[j] = q[j]
    BY <2>1, CatFacts
  <2> QED  BY <2>1, <2>2, <1>1, <1>3
<1> HIDE DEF r
<1>4. Doomed(r)
  BY <1>1, <1>2, <1>3 DEF Doomed
<1> QED  BY <1>4 DEF r

LEMMA DoomedTail ==
    ASSUME NEW q \in Seq(Commands), q # <<>>, Doomed(q)
    PROVE  ~HeadIs(q, "query") /\ (HeadIs(q, "emergency_stop") \/ Doomed(Tail(q)))
<1>1. PICK i \in 1..Len(q) : /\ q[i].cmd = "emergency_stop"
                             /\ \A j \in 1..Len(q) : j < i => q[j].cmd # "query"
  BY DEF Doomed
<1>2. \A j \in 1..Len(Tail(q)) : j + 1 \in 1..Len(q) /\ Tail(q)[j] = q[j + 1]
  BY TailFacts
<1>3. CASE i = 1
  BY <1>1, <1>3 DEF HeadIs
<1>4. CASE i # 1
  <2>1. i \in 2..Len(q) /\ 1 \in 1..Len(q) /\ 1 < i
    BY <1>4, TailFacts
  <2>2. i - 1 \in 1..Len(Tail(q)) /\ q[i] = Tail(q)[i - 1]
    BY <2>1, TailFacts
  <2>3. \A j \in 1..Len(Tail(q)) : j < i - 1 => j + 1 < i
    OBVIOUS
  <2>4. Doomed(Tail(q))
    BY <1>1, <1>2, <2>2, <2>3 DEF Doomed
  <2> QED  BY <2>1, <2>4, <1>1 DEF HeadIs
<1> QED  BY <1>3, <1>4

LEMMA DoomedPlain ==
    ASSUME NEW q, Has(q, "emergency_stop"), ~Has(q, "query")
    PROVE  Doomed(q)
BY DEF Has, Doomed

\* One command.
LEMMA OneCommand ==
    ASSUME NEW c, NEW a \in Nat, Cmd(c, a) \in Commands
    PROVE  /\ <<Cmd(c, a)>> \in Seq(Commands)
           /\ \A d : Has(<<Cmd(c, a)>>, d) <=> d = c
           /\ \A d : HeadIs(<<Cmd(c, a)>>, d) <=> d = c
           /\ Bare(<<Cmd(c, a)>>) <=> c = "emergency_stop"
           /\ \A d, b : ArgIs(<<Cmd(c, a)>>, d, b) <=> (d = c => a = b)
           /\ HostReasons(<<Cmd(c, a)>>) <=> (c \in {"trigger", "query"} => a \in {2, 3})
           /\ \A b : AtMost(<<Cmd(c, a)>>, b) <=> (c = "set_timeout" => a <= b)
           /\ \A b : LaterThan(<<Cmd(c, a)>>, b) <=> (c = "set_timeout" => a > b)
           /\ OffAfter(<<Cmd(c, a)>>) <=> c = "endstop_off"
           /\ QueryLast(<<Cmd(c, a)>>) /\ StartFirst(<<Cmd(c, a)>>)
<1> DEFINE q == <<Cmd(c, a)>>
<1>1. q \in Seq(Commands) /\ Len(q) = 1 /\ q # <<>> /\ q[1] = Cmd(c, a)
  OBVIOUS
<1>2. q[1].cmd = c /\ q[1].arg = a
  BY <1>1 DEF Cmd
<1>3. \A i \in 1..Len(q) : i = 1
  BY <1>1
<1>4. 1 \in 1..Len(q)
  BY <1>1
<1>5. \A i, j \in 1..Len(q) : ~(i < j) /\ ~(j > i)
  BY <1>1
<1> HIDE DEF q
<1>6. \A d : Has(q, d) <=> d = c
  BY <1>2, <1>3, <1>4 DEF Has
<1>7. \A d : HeadIs(q, d) <=> d = c
  BY <1>1, <1>2 DEF HeadIs
<1>8. Bare(q) <=> c = "emergency_stop"
  BY <1>2, <1>3, <1>4 DEF Bare
<1>9. \A d, b : ArgIs(q, d, b) <=> (d = c => a = b)
  BY <1>2, <1>3, <1>4 DEF ArgIs
<1>10. HostReasons(q) <=> (c \in {"trigger", "query"} => a \in {2, 3})
  BY <1>2, <1>3, <1>4 DEF HostReasons
<1>11. \A b : AtMost(q, b) <=> (c = "set_timeout" => a <= b)
  BY <1>2, <1>3, <1>4 DEF AtMost
<1>12. \A b : LaterThan(q, b) <=> (c = "set_timeout" => a > b)
  BY <1>2, <1>3, <1>4 DEF LaterThan
<1>13. OffAfter(q) <=> c = "endstop_off"
  BY <1>2, <1>3, <1>4, <1>5 DEF OffAfter
<1>14. QueryLast(q) /\ StartFirst(q)
  BY <1>5 DEF QueryLast, StartFirst
<1> QED  BY <1>1, <1>6, <1>7, <1>8, <1>9, <1>10, <1>11, <1>12, <1>13, <1>14 DEF q

\* No command.
LEMMA NoCommand ==
    /\ <<>> \in Seq(Commands)
    /\ \A c : ~Has(<<>>, c) /\ ~HeadIs(<<>>, c)
    /\ Bare(<<>>) /\ Framed(<<>>) /\ QueryLast(<<>>) /\ StartFirst(<<>>)
    /\ HostReasons(<<>>) /\ ~OffAfter(<<>>) /\ ~Doomed(<<>>)
    /\ \A b : AtMost(<<>>, b) /\ LaterThan(<<>>, b)
    /\ \A c, a : ArgIs(<<>>, c, a)
<1>1. <<>> \in Seq(Commands) /\ \A i \in 1..Len(<<>>) : FALSE
  OBVIOUS
<1>2. \A c : ~Has(<<>>, c) /\ ~HeadIs(<<>>, c)
  BY <1>1 DEF Has, HeadIs
<1>3. Bare(<<>>) /\ ~OffAfter(<<>>) /\ ~Doomed(<<>>)
  BY <1>1 DEF Bare, OffAfter, Doomed
<1> QED  BY <1>1, <1>2, <1>3, FramedPlain, QueryLastPlain, StartFirstPlain, ArgsPlain

-----------------------------------------------------------------------------
(* What can be said of the messages under way from a micro-controller *)

Contents(s) == {s[i] : i \in 1..Len(s)}

HasKind(s, kind) == \E x \in Contents(s) : x.kind = kind

\* Nothing but messages of the shutdown.
Drained(s) == \A x \in Contents(s) : x.kind = "shutdown"

\* And so behind an acknowledgement.
AckLast(s) ==
    \A i, j \in 1..Len(s) : s[i].kind = "ack" /\ j > i => s[j].kind = "shutdown"

\* A trsync_state of a trsync that has stopped; of this reason r.
HasFalse(s) == \E x \in Contents(s) : x.kind = "state" /\ ~x.can

ReasonsAre(s, r) == \A x \in Contents(s) : x.kind = "state" /\ ~x.can => x.reason = r

\* A trsync that has not stopped gives no reason, and its clock is at most b.
ClocksBelow(s, b) ==
    \A x \in Contents(s) : x.kind = "state" /\ x.can => x.clock <= b /\ x.reason = 0

LEMMA ContentsFacts ==
    ASSUME NEW s \in Seq(Messages), NEW t \in Seq(Messages)
    PROVE  /\ Contents(s) \subseteq Messages
           /\ Contents(s \o t) = Contents(s) \cup Contents(t)
           /\ s # <<>> => /\ Contents(s) = {s[1]} \cup Contents(Tail(s)) /\ Head(s) = s[1]
                          /\ s[1] \in Messages /\ Tail(s) \in Seq(Messages)
           /\ s \o t \in Seq(Messages)
<1>1. Contents(s) \subseteq Messages
  BY DEF Contents
<1>2. Contents(s \o t) \subseteq Contents(s) \cup Contents(t)
  BY CatFacts DEF Contents
<1>3. Contents(s) \subseteq Contents(s \o t)
  BY CatFacts DEF Contents
<1>4. Contents(t) \subseteq Contents(s \o t)
  <2> SUFFICES ASSUME NEW i \in 1..Len(t) PROVE t[i] \in Contents(s \o t)
    BY DEF Contents
  <2>1. Len(s) + i \in 1..Len(s \o t) /\ (s \o t)[Len(s) + i] = t[i]
    BY CatFacts
  <2> QED  BY <2>1 DEF Contents
<1>5. ASSUME s # <<>>
      PROVE  /\ Contents(s) = {s[1]} \cup Contents(Tail(s)) /\ Head(s) = s[1]
             /\ s[1] \in Messages /\ Tail(s) \in Seq(Messages)
  <2>1. 1 \in 1..Len(s) /\ \A i \in 1..Len(s) : i = 1 \/ i \in 2..Len(s)
    BY <1>5, TailFacts
  <2>2. Contents(s) \subseteq {s[1]} \cup Contents(Tail(s))
    BY <1>5, <2>1, TailFacts DEF Contents
  <2>3. {s[1]} \cup Contents(Tail(s)) \subseteq Contents(s)
    BY <1>5, <2>1, TailFacts DEF Contents
  <2> QED  BY <1>5, <2>2, <2>3, TailFacts
<1> QED  BY <1>1, <1>2, <1>3, <1>4, <1>5, CatFacts

LEMMA MessagesCat ==
    ASSUME NEW s \in Seq(Messages), NEW t \in Seq(Messages), NEW u, u = s \o t
    PROVE  /\ u \in Seq(Messages)
           /\ \A k : HasKind(u, k) <=> HasKind(s, k) \/ HasKind(t, k)
           /\ Drained(u) <=> Drained(s) /\ Drained(t)
           /\ HasFalse(u) <=> HasFalse(s) \/ HasFalse(t)
           /\ \A r : ReasonsAre(u, r) <=> ReasonsAre(s, r) /\ ReasonsAre(t, r)
           /\ \A b : ClocksBelow(u, b) <=> ClocksBelow(s, b) /\ ClocksBelow(t, b)
<1>1. Contents(u) = Contents(s) \cup Contents(t) /\ u \in Seq(Messages)
  BY ContentsFacts
<1>2. \A k : HasKind(u, k) <=> HasKind(s, k) \/ HasKind(t, k)
  BY <1>1 DEF HasKind
<1>3. Drained(u) <=> Drained(s) /\ Drained(t)
  BY <1>1 DEF Drained
<1>4. HasFalse(u) <=> HasFalse(s) \/ HasFalse(t)
  BY <1>1 DEF HasFalse
<1>5. \A r : ReasonsAre(u, r) <=> ReasonsAre(s, r) /\ ReasonsAre(t, r)
  BY <1>1 DEF ReasonsAre
<1>6. \A b : ClocksBelow(u, b) <=> ClocksBelow(s, b) /\ ClocksBelow(t, b)
  BY <1>1 DEF ClocksBelow
<1> QED  BY <1>1, <1>2, <1>3, <1>4, <1>5, <1>6

LEMMA MessagesTail ==
    ASSUME NEW s \in Seq(Messages), s # <<>>
    PROVE  /\ Tail(s) \in Seq(Messages) /\ Head(s) = s[1] /\ s[1] \in Messages
           /\ \A k : HasKind(s, k) <=> s[1].kind = k \/ HasKind(Tail(s), k)
           /\ Drained(s) <=> s[1].kind = "shutdown" /\ Drained(Tail(s))
           /\ HasFalse(s) <=> (s[1].kind = "state" /\ ~s[1].can) \/ HasFalse(Tail(s))
           /\ \A r : ReasonsAre(s, r) <=>
                /\ s[1].kind = "state" /\ ~s[1].can => s[1].reason = r
                /\ ReasonsAre(Tail(s), r)
           /\ \A b : ClocksBelow(s, b) <=>
                /\ s[1].kind = "state" /\ s[1].can => s[1].clock <= b /\ s[1].reason = 0
                /\ ClocksBelow(Tail(s), b)
<1>1. /\ Contents(s) = {s[1]} \cup Contents(Tail(s)) /\ Head(s) = s[1]
      /\ s[1] \in Messages /\ Tail(s) \in Seq(Messages)
  BY ContentsFacts
<1>2. \A k : HasKind(s, k) <=> s[1].kind = k \/ HasKind(Tail(s), k)
  BY <1>1 DEF HasKind
<1>3. Drained(s) <=> s[1].kind = "shutdown" /\ Drained(Tail(s))
  BY <1>1 DEF Drained
<1>4. HasFalse(s) <=> (s[1].kind = "state" /\ ~s[1].can) \/ HasFalse(Tail(s))
  BY <1>1 DEF HasFalse
<1>5. \A r : ReasonsAre(s, r) <=>
        /\ s[1].kind = "state" /\ ~s[1].can => s[1].reason = r
        /\ ReasonsAre(Tail(s), r)
  BY <1>1 DEF ReasonsAre
<1>6. \A b : ClocksBelow(s, b) <=>
        /\ s[1].kind = "state" /\ s[1].can => s[1].clock <= b /\ s[1].reason = 0
        /\ ClocksBelow(Tail(s), b)
  BY <1>1 DEF ClocksBelow
<1> QED  BY <1>1, <1>2, <1>3, <1>4, <1>5, <1>6

LEMMA MessagesPlain ==
    ASSUME NEW s \in Seq(Messages)
    PROVE  /\ Drained(s) => ~HasKind(s, "ack") /\ ~HasKind(s, "state")
           /\ ~HasKind(s, "state") => /\ ~HasFalse(s) /\ \A r : ReasonsAre(s, r)
                                      /\ \A b : ClocksBelow(s, b)
           /\ \A r : ~HasFalse(s) => ReasonsAre(s, r)
           /\ ~HasKind(s, "ack") => AckLast(s)
           /\ Drained(s) /\ ~HasKind(s, "shutdown") => s = <<>>
           /\ \A b, c \in Int : b <= c /\ ClocksBelow(s, b) => ClocksBelow(s, c)
<1>1. Drained(s) => ~HasKind(s, "ack") /\ ~HasKind(s, "state")
  BY DEF Drained, HasKind
<1>2. ~HasKind(s, "state") => /\ ~HasFalse(s) /\ \A r : ReasonsAre(s, r)
                              /\ \A b : ClocksBelow(s, b)
  BY DEF HasFalse, ReasonsAre, ClocksBelow, HasKind
<1>3. \A r : ~HasFalse(s) => ReasonsAre(s, r)
  BY DEF HasFalse, ReasonsAre
<1>4. ~HasKind(s, "ack") => AckLast(s)
  BY DEF HasKind, AckLast, Contents
<1>5. Drained(s) /\ ~HasKind(s, "shutdown") => s = <<>>
  <2>1. s # <<>> => s[1] \in Contents(s)
    BY ContentsFacts
  <2> QED  BY <2>1 DEF Drained, HasKind
<1>6. ASSUME NEW b \in Int, NEW c \in Int, b <= c, ClocksBelow(s, b) PROVE ClocksBelow(s, c)
  <2>1. \A x \in Contents(s) : x \in Messages
    BY ContentsFacts
  <2>2. \A x \in Contents(s) : x.clock \in Nat
    BY <2>1 DEF Messages
  <2> QED  BY <1>6, <2>2 DEF ClocksBelow
<1> QED  BY <1>1, <1>2, <1>3, <1>4, <1>5, <1>6

LEMMA AckLastCat ==
    ASSUME NEW s \in Seq(Messages), NEW t \in Seq(Messages), AckLast(s), AckLast(t),
           Drained(t) \/ ~HasKind(s, "ack")
    PROVE  AckLast(s \o t)
<1> DEFINE r == s \o t
<1> SUFFICES ASSUME NEW i \in 1..Len(r), NEW j \in 1..Len(r), r[i].kind = "ack", j > i
             PROVE  r[j].kind = "shutdown"
  BY DEF AckLast
<1>1. Len(s) \in Nat /\ i \in Nat /\ j \in Nat
  BY CatFacts
<1>2. CASE i \in 1..Len(s) /\ r[i] = s[i] /\ j \in 1..Len(s) /\ r[j] = s[j]
  BY <1>2 DEF AckLast
<1>3. CASE i \in 1..Len(s) /\ r[i] = s[i] /\ j - Len(s) \in 1..Len(t) /\ r[j] = t[j - Len(s)]
  <2>1. r[i] \in Contents(s) /\ r[j] \in Contents(t)
    BY <1>3 DEF Contents
  <2> QED  BY <2>1 DEF Drained, HasKind
<1>4. CASE /\ i - Len(s) \in 1..Len(t) /\ r[i] = t[i - Len(s)]
           /\ j - Len(s) \in 1..Len(t) /\ r[j] = t[j - Len(s)]
  <2>1. j - Len(s) > i - Len(s)
    BY <1>1
  <2> QED  BY <1>4, <2>1 DEF AckLast
<1>5. CASE i - Len(s) \in 1..Len(t) /\ j \in 1..Len(s)
  BY <1>1, <1>5
<1> QED  BY <1>2, <1>3, <1>4, <1>5, CatFacts, SMTT(30)

LEMMA AckLastTail ==
    ASSUME NEW s \in Seq(Messages), s # <<>>, AckLast(s)
    PROVE  AckLast(Tail(s)) /\ (s[1].kind = "ack" => Drained(Tail(s)))
<1>1. \A i \in 1..Len(Tail(s)) : i + 1 \in 1..Len(s) /\ Tail(s)[i] = s[i + 1] /\ i + 1 > 1
  BY TailFacts
<1>2. 1 \in 1..Len(s)
  BY TailFacts
<1>3. \A i, j \in 1..Len(Tail(s)) : j > i => j + 1 > i + 1
  OBVIOUS
<1>4. AckLast(Tail(s))
  BY <1>1, <1>3 DEF AckLast
<1>5. s[1].kind = "ack" => Drained(Tail(s))
  BY <1>1, <1>2 DEF AckLast, Drained, Contents
<1> QED  BY <1>4, <1>5

\* One message.
LEMMA OneMessage ==
    ASSUME NEW x \in Messages
    PROVE  /\ <<x>> \in Seq(Messages) /\ Contents(<<x>>) = {x} /\ AckLast(<<x>>)
           /\ \A k : HasKind(<<x>>, k) <=> x.kind = k
           /\ Drained(<<x>>) <=> x.kind = "shutdown"
           /\ HasFalse(<<x>>) <=> x.kind = "state" /\ ~x.can
           /\ \A r : ReasonsAre(<<x>>, r) <=> (x.kind = "state" /\ ~x.can => x.reason = r)
           /\ \A b : ClocksBelow(<<x>>, b) <=>
                (x.kind = "state" /\ x.can => x.clock <= b /\ x.reason = 0)
<1>1. <<x>> \in Seq(Messages) /\ Len(<<x>>) = 1 /\ <<x>>[1] = x
  OBVIOUS
<1>2. Contents(<<x>>) = {x}
  BY <1>1 DEF Contents
<1>3. AckLast(<<x>>)
  BY <1>1 DEF AckLast
<1>4. \A k : HasKind(<<x>>, k) <=> x.kind = k
  BY <1>2 DEF HasKind
<1>5. Drained(<<x>>) <=> x.kind = "shutdown"
  BY <1>2 DEF Drained
<1>6. HasFalse(<<x>>) <=> x.kind = "state" /\ ~x.can
  BY <1>2 DEF HasFalse
<1>7. \A r : ReasonsAre(<<x>>, r) <=> (x.kind = "state" /\ ~x.can => x.reason = r)
  BY <1>2 DEF ReasonsAre
<1>8. \A b : ClocksBelow(<<x>>, b) <=>
        (x.kind = "state" /\ x.can => x.clock <= b /\ x.reason = 0)
  BY <1>2 DEF ClocksBelow
<1> QED  BY <1>1, <1>2, <1>3, <1>4, <1>5, <1>6, <1>7, <1>8

-----------------------------------------------------------------------------
(* The inductive invariant *)

\* The trsync of m is disabled: it neither triggers nor reports.
Off(m) == ~can_trigger[m] /\ ~report[m] /\ report_time[m] = 0 /\ expire_time[m] = 0

Asleep(m) == is_shutdown[m] \/ Off(m)

\* Nothing of the homing move is left at m, nor on the way to it,
QuietIn(m) == Bare(h2m[m]) /\ Asleep(m) /\ (m = 1 => endstop_time = 0)

\* nor on the way from it.
Settled(m) == QuietIn(m) /\ Drained(m2h[m])

\* The micro-controllers that are still to be asked, and the one that is asked now.
Asked(m) == n - Len(todo) < m

Current(m) == pc = "query" /\ m = n - Len(todo) + 1

\* m has ended this homing move, or was shut down before.
Stopped(m) == stopped_at[m] # 0 \/ is_shutdown[m]

\* The trsync and the stepper of m: a trsync that is shut down or has stopped does
\* nothing, only one that can trigger moves a stepper, timeouts lie ahead.
Firmware(m) ==
    /\ is_shutdown[m] => /\ Off(m) /\ ~signals[m] /\ ~moving[m] /\ trigger_reason[m] = 0
                         /\ m = 1 => endstop_time = 0
    /\ stopped_at[m] # 0 => ~can_trigger[m] /\ stopped_at[m] <= now
    /\ expire_time[m] # 0 => now <= expire_time[m]
    /\ can_trigger[m] => trigger_reason[m] = 0
    /\ moving[m] \/ signals[m] => can_trigger[m]
    /\ HasKind(m2h[m], "shutdown") => is_shutdown[m]

\* The commands that start a move reach the firmware one after the other: a trsync
\* that can trigger has its stepper's signal and its timeout, but for those just sent.
Line(m) ==
    /\ HostReasons(h2m[m]) /\ Framed(h2m[m])
    /\ m # 1 => ~Has(h2m[m], "endstop_home") /\ ~Has(h2m[m], "endstop_off")
    /\ ~is_shutdown[m] =>
         /\ HeadIs(h2m[m], "stop_on_trigger")
              => can_trigger[m] /\ ~signals[m] /\ expire_time[m] = 0
         /\ can_trigger[m] /\ ~HeadIs(h2m[m], "stop_on_trigger") => signals[m]
         /\ can_trigger[m] /\ expire_time[m] = 0
              => HeadIs(h2m[m], "set_timeout") \/ HeadIs(h2m[m], "stop_on_trigger")

\* The time up to which k can have said that all is well, the time up to which the
\* host can believe it, and the timeout that the others can have got from that.
Limit(k) == IF stopped_at[k] # 0 THEN stopped_at[k] ELSE now

Known(k) == IF print_time <= Limit(k) THEN Limit(k) ELSE print_time

Bound(k) == Known(k) + expire_ticks

Timed(m) ==
    \A k \in Mcus : m # k => AtMost(h2m[m], Bound(k)) /\ expire_time[m] <= Bound(k)

Clocks(k) == last_status[k] <= Known(k) /\ ClocksBelow(m2h[k], Limit(k))

\* The micro-controllers are asked in their order, and each answers the query that
\* it got; what has been asked is settled.
Asking ==
    /\ Len(todo) <= n /\ \A i \in 1..Len(todo) : todo[i] = n - Len(todo) + i
    /\ pc = "query" => todo # <<>>
    /\ pc \in {"idle", "starting", "homing", "waiting"} => todo = <<>>
    /\ \A m \in Mcus : handler[m] = "query" <=> Current(m)

Answers(m) ==
    /\ QueryLast(h2m[m]) /\ AckLast(m2h[m])
    /\ HasKind(m2h[m], "ack") => QuietIn(m)
    /\ HasKind(m2h[m], "ack") \/ Has(h2m[m], "query") <=> Current(m)
    /\ pc \in {"stopping", "query"} /\ ~Asked(m) => Settled(m)
    /\ pc = "idle" /\ (m = 1 \/ ~given_up \/ result \in {"hit", "no_trigger", "comms_timeout"})
         => Settled(m)

\* A start that has not arrived finds the last move settled.
Starts(m) ==
    Has(h2m[m], "start") =>
      /\ pc # "idle" \/ given_up
      /\ m = 1 => ArgIs(h2m[m], "start", print_time) /\ endstop_time = 0
      /\ ~given_up \/ m = 1 =>
           /\ StartFirst(h2m[m]) /\ Drained(m2h[m]) /\ Asleep(m)
           /\ stopped_at[m] = 0 \/ is_shutdown[m]
           /\ Current(m) => last_params = NoParams

\* The endstop is checked from the start of the move, and switched off at its end.
Endstop ==
    /\ HeadIs(h2m[1], "stop_on_trigger") \/ pc = "starting" => endstop_time = 0
    /\ ArgIs(h2m[1], "endstop_home", print_time)
    /\ pc = "starting" => ~Has(h2m[1], "endstop_home")
    /\ pc \in {"stopping", "query"} =>
         \/ OffAfter(h2m[1])
         \/ endstop_time = 0 /\ ~Has(h2m[1], "endstop_home")

\* What makes the host end its wait comes from a trsync that stopped in this move.
Completing(m) ==
    pc \in {"starting", "homing", "waiting"} /\ ~given_up =>
      /\ HasFalse(m2h[m]) => Stopped(m)
      /\ ~can_trigger[m] => Stopped(m) \/ Has(h2m[m], "start")

Completed ==
    pc \in {"starting", "homing", "waiting"} /\ ~given_up /\ completion = "done"
      => \E m \in Mcus : Stopped(m)

\* The reason that is reported is the one for which the trsync stopped.
Reported(m) ==
    ~given_up \/ m = 1 =>
      /\ ~is_shutdown[m] => /\ ReasonsAre(m2h[m], trigger_reason[m])
                            /\ HasFalse(m2h[m]) => ~can_trigger[m]
      /\ Current(m) /\ last_params # NoParams
           => \/ last_params = 0 \/ is_shutdown[m]
              \/ last_params = trigger_reason[m] /\ ~can_trigger[m]

Judged ==
    (pc \in {"stopping", "query"} /\ ~Asked(1) /\ reasons[1] = ENDSTOP_HIT)
      \/ (pc = "idle" /\ result = "hit")
    => is_shutdown[1] \/ trigger_reason[1] = ENDSTOP_HIT

Machine(m) ==
    /\ Firmware(m) /\ Line(m) /\ Timed(m) /\ Clocks(m) /\ Answers(m) /\ Starts(m)
    /\ Completing(m) /\ Reported(m)

Host ==
    /\ now # 0 /\ print_time <= now + Lead
    /\ td_active => pc \in {"homing", "waiting"}
    /\ Asking /\ Endstop /\ Completed /\ Judged

IInv == TypeOK /\ (\A m \in Mcus : Machine(m)) /\ Host

-----------------------------------------------------------------------------
(* Steps of the model in the terms of these predicates *)

LEMMA Basics ==
    ASSUME TypeOK
    PROVE  /\ n \in Nat \ {0} /\ 1 \in Mcus /\ Mcus \subseteq Nat \ {0}
           /\ expire_ticks \in Nat \ {0} /\ report_ticks \in Nat \ {0}
           /\ SampleCount[n] \in Nat \ {0} /\ Lead \in Nat
<1>1. n \in Sizes
  BY DEF TypeOK
<1>2. n \in Nat \ {0}
  BY <1>1, SyncAssumption
<1>3. 1 \in Mcus /\ Mcus \subseteq Nat \ {0}
  BY <1>2 DEF Mcus
<1>4. Expire[n] \in Nat \ {0} /\ Report[n] \in Nat \ {0} /\ SampleCount[n] \in Nat \ {0}
  BY <1>1, SyncAssumption
<1> QED  BY <1>2, <1>3, <1>4, SyncAssumption DEF expire_ticks, report_ticks

\* What all others are known to have reached: at most the status of each of them.
LEMMA StatusFacts ==
    ASSUME n \in Nat \ {0}, NEW status \in [Mcus -> Nat], NEW m \in Mcus
    PROVE  /\ StatusTime(m, status) \in Nat
           /\ \A k \in Mcus : k # m => StatusTime(m, status) <= status[k]
<1> DEFINE V == {status[k] : k \in Mcus}
<1>1. 1 \in Mcus /\ Mcus \subseteq Nat
  BY DEF Mcus
<1>2. PICK v \in V : \A w \in V : v <= w
  <2>1. V \subseteq Nat /\ V # {}
    BY <1>1
  <2> HIDE DEF V
  <2> QED  BY <2>1, Smallest
<1> DEFINE K == {k \in Mcus : status[k] = v}
<1>3. PICK j \in K : \A k \in K : j <= k
  <2>1. K \subseteq Nat /\ K # {}
    BY <1>1, <1>2
  <2> HIDE DEF K
  <2> QED  BY <2>1, Smallest
<1>4. \A k \in Mcus : status[j] < status[k] \/ (status[j] = status[k] /\ j <= k)
  <2> SUFFICES ASSUME NEW k \in Mcus
               PROVE  status[j] < status[k] \/ (status[j] = status[k] /\ j <= k)
    OBVIOUS
  <2>1. status[j] = v /\ v <= status[k] /\ status[k] \in Nat /\ v \in Nat
    BY <1>2, <1>3
  <2>2. status[k] = v => j <= k
    BY <1>3
  <2> QED  BY <2>1, <2>2
<1> DEFINE M == MinMcu(status)
<1>5. M \in Mcus /\ \A k \in Mcus : status[M] < status[k] \/ (status[M] = status[k] /\ M <= k)
  BY <1>3, <1>4 DEF MinMcu
<1>6. \A k \in Mcus : status[M] \in Nat /\ status[M] <= status[k]
  <2> HIDE DEF M
  <2> QED  BY <1>5
<1>7. CASE m # M
  BY <1>5, <1>6, <1>7 DEF StatusTime
<1>8. CASE m = M
  <2> DEFINE rest == {status[k] : k \in Mcus \ {M}}
  <2>1. StatusTime(m, status) = NextMin(status)
    BY <1>8 DEF StatusTime
  <2>2. CASE rest = {}
    <3>1. \A k \in Mcus : k = M
      BY <2>2
    <3> QED  BY <2>1, <2>2, <3>1, <1>6, <1>8 DEF NextMin
  <2>3. CASE rest # {}
    <3>1. rest \subseteq Nat
      OBVIOUS
    <3>2. \E t \in rest : \A u \in rest : t <= u
      <4> HIDE DEF rest
      <4> QED  BY <2>3, <3>1, Smallest
    <3>3. NextMin(status) \in rest /\ \A u \in rest : NextMin(status) <= u
      BY <2>3, <3>2 DEF NextMin
    <3>4. \A k \in Mcus : k # M => status[k] \in rest
      OBVIOUS
    <3> HIDE DEF rest
    <3> QED  BY <2>1, <3>1, <3>3, <3>4, <1>8
  <2> QED  BY <2>2, <2>3
<1> QED  BY <1>7, <1>8

\* The commands of handle_trsync_state(), in the serial thread and in the reactor.
LEMMA FastQueue ==
    ASSUME TypeOK, NEW m \in Mcus, ReceiveState(m), NEW k \in Mcus
    PROVE  \E s \in Seq(Commands) :
             /\ h2m'[k] = h2m[k] \o s
             /\ \A c : Has(s, c) => c \in {"set_timeout", "trigger"}
             /\ HostReasons(s)
             /\ s = <<>> \/ td_active \/ (k = 1 /\ m = 1 /\ handler[1] = "trsync")
             /\ \A b \in Int :
                  (td_active /\ Head(m2h[m]).can
                     => NewExpire(k, NewStatus(m, Head(m2h[m]))) <= b) => AtMost(s, b)
<1> DEFINE f == Head(m2h[m])
           fast == FastCommands(m, f, k)
           past == /\ handler[m] = "trsync" /\ f.can /\ m = 1
                   /\ home_end_clock # 0 /\ f.clock >= home_end_clock
           late == IF past /\ k = m THEN <<Cmd("trigger", PAST_END_TIME)>> ELSE <<>>
           ex == NewExpire(k, NewStatus(m, f))
<1>1. h2m'[k] = h2m[k] \o (fast \o late)
  BY DEF ReceiveState, Broadcast
<1>2. f \in Messages /\ f.kind = "state"
  <2>1. m2h[m] \in Seq(Messages) /\ m2h[m] # <<>>
    BY DEF TypeOK, LinkTypes, ReceiveState
  <2> QED  BY <2>1 DEF ReceiveState
<1>3. ex \in Nat
  <2>1. NewStatus(m, f) \in [Mcus -> Nat]
    BY <1>2 DEF TypeOK, HostTypes, NewStatus, Messages
  <2>2. StatusTime(k, NewStatus(m, f)) \in Nat
    BY <2>1, Basics, StatusFacts
  <2> QED  BY <2>2, Basics DEF NewExpire
<1>4. /\ fast \in Seq(Commands) /\ HostReasons(fast)
      /\ \A c : Has(fast, c) => c \in {"set_timeout", "trigger"}
      /\ fast = <<>> \/ td_active
      /\ \A b \in Int : (td_active /\ f.can => ex <= b) => AtMost(fast, b)
  <2>1. CASE ~Fast(f)
    BY <2>1, NoCommand DEF FastCommands
  <2>2. CASE Fast(f) /\ ~f.can
    <3>1. Cmd("trigger", HOST_REQUEST) \in Commands /\ HOST_REQUEST \in Nat
          /\ HOST_REQUEST \in {2, 3}
      BY DEF Cmd, Commands, HOST_REQUEST
    <3>2. fast = <<Cmd("trigger", HOST_REQUEST)>>
      BY <2>2 DEF FastCommands
    <3> HIDE DEF fast, f, ex
    <3> QED  BY <2>2, <3>1, <3>2, OneCommand DEF Fast
  <2>3. CASE Fast(f) /\ f.can
    <3>1. Cmd("set_timeout", ex) \in Commands
      BY <1>3 DEF Cmd, Commands
    <3>2. fast = <<Cmd("set_timeout", ex)>> \/ fast = <<>>
      BY <2>3 DEF FastCommands
    <3> HIDE DEF fast, f, ex
    <3>3. CASE fast = <<>>
      BY <3>3, NoCommand
    <3>4. CASE fast = <<Cmd("set_timeout", ex)>>
      BY <2>3, <1>3, <3>1, <3>4, OneCommand DEF Fast
    <3> QED  BY <3>2, <3>3, <3>4
  <2> QED  BY <2>1, <2>2, <2>3
<1>5. /\ late \in Seq(Commands) /\ HostReasons(late)
      /\ \A c : Has(late, c) => c = "trigger"
      /\ late = <<>> \/ (k = 1 /\ m = 1 /\ handler[1] = "trsync")
      /\ \A b : AtMost(late, b)
  <2>1. Cmd("trigger", PAST_END_TIME) \in Commands /\ PAST_END_TIME \in Nat
        /\ PAST_END_TIME \in {2, 3}
    BY DEF Cmd, Commands, PAST_END_TIME
  <2>2. CASE past /\ k = m
    BY <2>1, <2>2, OneCommand
  <2>3. CASE ~(past /\ k = m)
    BY <2>3, NoCommand
  <2> QED  BY <2>2, <2>3
<1> HIDE DEF fast, late, f, ex
<1>6. fast \o late \in Seq(Commands) /\ HostReasons(fast \o late)
  BY <1>4, <1>5, ArgsCat, CatFacts
<1>7. \A c : Has(fast \o late, c) => c \in {"set_timeout", "trigger"}
  BY <1>4, <1>5, HasCat
<1>8. \/ fast \o late = <<>> \/ td_active
      \/ k = 1 /\ m = 1 /\ handler[1] = "trsync"
  <2>1. fast = <<>> /\ late = <<>> => fast \o late = <<>>
    OBVIOUS
  <2> QED  BY <2>1, <1>4, <1>5
<1>9. \A b \in Int : (td_active /\ f.can => ex <= b) => AtMost(fast \o late, b)
  BY <1>4, <1>5, ArgsCat
<1> QED  BY <1>1, <1>6, <1>7, <1>8, <1>9 DEF f, ex

\* A micro-controller on which nothing happens.
SameFirmware(k) ==
    /\ can_trigger'[k] = can_trigger[k] /\ report'[k] = report[k]
    /\ trigger_reason'[k] = trigger_reason[k] /\ report_time'[k] = report_time[k]
    /\ expire_time'[k] = expire_time[k] /\ signals'[k] = signals[k]
    /\ moving'[k] = moving[k] /\ is_shutdown'[k] = is_shutdown[k]
    /\ stopped_at'[k] = stopped_at[k] /\ (k = 1 => endstop_time' = endstop_time)

SameLine(k) == h2m'[k] = h2m[k] /\ m2h'[k] = m2h[k]

\* A step of the firmware leaves the host alone.
SameHost == UNCHANGED <<n, now, tdVars, moveVars, stateVars>>

LEMMA Frame ==
    ASSUME NEW k, SameFirmware(k), SameLine(k), SameHost
    PROVE  /\ Firmware(k) => Firmware(k)'
           /\ Line(k) => Line(k)'
           /\ Answers(k) => Answers(k)'
           /\ Starts(k) => Starts(k)'
           /\ Completing(k) => Completing(k)'
           /\ Reported(k) => Reported(k)'
           /\ Limit(k)' = Limit(k) /\ Known(k)' = Known(k) /\ Bound(k)' = Bound(k)
           /\ Clocks(k) => Clocks(k)'
           /\ Stopped(k) => Stopped(k)'
<1> USE DEF SameHost, SameLine, SameFirmware, moveVars, stateVars, tdVars
<1>1. Off(k)' = Off(k) /\ Asleep(k)' = Asleep(k) /\ QuietIn(k)' = QuietIn(k)
      /\ Settled(k)' = Settled(k) /\ Asked(k)' = Asked(k) /\ Current(k)' = Current(k)
      /\ Stopped(k)' = Stopped(k)
  BY DEF Off, Asleep, QuietIn, Settled, Asked, Current, Stopped
<1>2. Firmware(k) => Firmware(k)'
  BY <1>1 DEF Firmware
<1>3. Line(k) => Line(k)'
  BY DEF Line
<1>4. Answers(k) => Answers(k)'
  BY <1>1 DEF Answers
<1>5. Starts(k) => Starts(k)'
  BY <1>1 DEF Starts
<1>6. Completing(k) => Completing(k)'
  BY <1>1 DEF Completing
<1>7. Reported(k) => Reported(k)'
  BY <1>1 DEF Reported
<1>8. Limit(k)' = Limit(k) /\ Known(k)' = Known(k) /\ Bound(k)' = Bound(k)
  BY DEF Limit, Known, Bound, expire_ticks
<1>9. Clocks(k) => Clocks(k)'
  BY <1>8 DEF Clocks
<1> QED  BY <1>1, <1>2, <1>3, <1>4, <1>5, <1>6, <1>7, <1>8, <1>9

LEMMA SameHostTypes ==
    ASSUME TypeOK, SameHost, FirmwareTypes', LinkTypes'
    PROVE  TypeOK'
<1>1. HostTypes'
  BY DEF TypeOK, HostTypes, Mcus, SameHost, tdVars, moveVars, stateVars
<1> QED  BY <1>1 DEF TypeOK, SameHost

\* The limits only grow.
LEMMA LimitTypes ==
    ASSUME TypeOK, NEW k \in Mcus
    PROVE  Limit(k) \in Nat /\ Known(k) \in Nat /\ Bound(k) \in Nat
<1>1. Limit(k) \in Nat
  BY DEF TypeOK, FirmwareTypes, Limit
<1>2. Known(k) \in Nat
  BY <1>1 DEF TypeOK, HostTypes, Known
<1> QED  BY <1>1, <1>2, Basics DEF Bound

LEMMA LimitsGrow ==
    ASSUME TypeOK, TypeOK', n' = n, NEW k \in Mcus,
           Limit(k) <= Limit(k)', print_time <= print_time'
    PROVE  /\ Limit(k)' \in Nat /\ Known(k)' \in Nat /\ Bound(k)' \in Nat
           /\ Known(k) <= Known(k)' /\ Bound(k) <= Bound(k)'
           /\ last_status[k] <= Known(k) => last_status[k] <= Known(k)'
           /\ \A s \in Seq(Messages) : ClocksBelow(s, Limit(k)) => ClocksBelow(s, Limit(k)')
           /\ \A q \in Seq(Commands) : AtMost(q, Bound(k)) => AtMost(q, Bound(k)')
           /\ \A t \in Nat : t <= Bound(k) => t <= Bound(k)'
<1>1. Limit(k) \in Nat /\ Known(k) \in Nat /\ Bound(k) \in Nat
  BY LimitTypes
<1>2. Limit(k)' \in Nat /\ print_time' \in Nat /\ print_time \in Nat
  BY DEF TypeOK, FirmwareTypes, HostTypes, Limit, Mcus
<1>3. Known(k)' \in Nat /\ Known(k) <= Known(k)'
  BY <1>1, <1>2 DEF Known
<1>4. expire_ticks' = expire_ticks /\ expire_ticks \in Nat
  BY Basics DEF expire_ticks
<1>5. Bound(k)' \in Nat /\ Bound(k) <= Bound(k)'
  <2> HIDE DEF Known
  <2>1. Bound(k) = Known(k) + expire_ticks /\ Bound(k)' = Known(k)' + expire_ticks
    BY <1>4 DEF Bound
  <2> QED  BY <2>1, <1>1, <1>3, <1>4
<1>6. last_status[k] \in Nat
  BY DEF TypeOK, HostTypes
<1>7. \A s \in Seq(Messages) : ClocksBelow(s, Limit(k)) => ClocksBelow(s, Limit(k)')
  <2>1. \A s \in Seq(Messages) : \A b, c \in Int :
          b <= c /\ ClocksBelow(s, b) => ClocksBelow(s, c)
    BY MessagesPlain
  <2>2. Limit(k) \in Int /\ Limit(k)' \in Int
    BY <1>1, <1>2
  <2> QED  BY <2>1, <2>2
<1>8. \A q \in Seq(Commands) : AtMost(q, Bound(k)) => AtMost(q, Bound(k)')
  <2>1. Bound(k) \in Int /\ Bound(k)' \in Int
    BY <1>1, <1>5
  <2> QED  BY <2>1, <1>5, AtMostMore
<1>9. \A t \in Nat : t <= Bound(k) => t <= Bound(k)'
  BY <1>1, <1>5
<1>10. last_status[k] <= Known(k) => last_status[k] <= Known(k)'
  BY <1>1, <1>3, <1>6
<1> QED  BY <1>2, <1>3, <1>5, <1>7, <1>8, <1>9, <1>10

\* A step of one micro-controller: what is to be shown of it, and of the endstop.
LEMMA FirmwareAction ==
    ASSUME IInv, TypeOK', NEW m \in Mcus, SameHost,
           \A k \in Mcus : k # m => SameFirmware(k) /\ SameLine(k),
           Firmware(m)', Line(m)', Answers(m)', Starts(m)', Completing(m)', Reported(m)',
           Limit(m) <= Limit(m)', ClocksBelow(m2h'[m], Limit(m)'),
           \A k \in Mcus : k # m => AtMost(h2m'[m], Bound(k)) /\ expire_time'[m] <= Bound(k),
           Stopped(m) /\ ~given_up => Stopped(m)', Endstop', Judged'
    PROVE  IInv'
<1>1. TypeOK /\ Host /\ \A k \in Mcus : Machine(k)
  BY DEF IInv
<1>2. n' = n /\ Mcus' = Mcus /\ print_time' = print_time /\ now' = now
      /\ last_status' = last_status
  BY DEF SameHost, Mcus, moveVars, tdVars
<1>3. \A k \in Mcus : Limit(k) <= Limit(k)'
  <2> SUFFICES ASSUME NEW k \in Mcus, k # m PROVE Limit(k) <= Limit(k)'
    OBVIOUS
  <2>1. Limit(k)' = Limit(k) /\ Limit(k) \in Nat
    BY <1>1, Frame, LimitTypes
  <2> QED  BY <2>1
<1>4. print_time <= print_time'
  BY <1>1, <1>2 DEF TypeOK, HostTypes
<1>5. \A k \in Mcus : Timed(k)'
  <2> SUFFICES ASSUME NEW k \in Mcus, NEW j \in Mcus, k # j
               PROVE  AtMost(h2m'[k], Bound(j)') /\ expire_time'[k] <= Bound(j)'
    BY <1>2 DEF Timed
  <2>1. AtMost(h2m'[k], Bound(j)) /\ expire_time'[k] <= Bound(j)
    <3>1. CASE k = m
      BY <3>1
    <3>2. CASE k # m
      BY <3>2, <1>1 DEF Machine, Timed, SameFirmware, SameLine
    <3> QED  BY <3>1, <3>2
  <2>2. h2m'[k] \in Seq(Commands) /\ expire_time'[k] \in Nat
    BY <1>2 DEF TypeOK, FirmwareTypes, LinkTypes
  <2> QED  BY <2>1, <2>2, <1>1, <1>2, <1>3, <1>4, LimitsGrow
<1>6. \A k \in Mcus : Clocks(k)'
  <2> SUFFICES ASSUME NEW k \in Mcus PROVE Clocks(k)'
    OBVIOUS
  <2>1. last_status'[k] <= Known(k)'
    BY <1>1, <1>2, <1>3, <1>4, LimitsGrow DEF Machine, Clocks
  <2>2. CASE k = m
    BY <2>1, <2>2 DEF Clocks
  <2>3. CASE k # m
    BY <2>3, <1>1, Frame DEF Machine
  <2> QED  BY <2>2, <2>3
<1>7. \A k \in Mcus : Machine(k)'
  <2> SUFFICES ASSUME NEW k \in Mcus PROVE Machine(k)'
    OBVIOUS
  <2>1. CASE k = m
    BY <2>1, <1>5, <1>6 DEF Machine
  <2>2. CASE k # m
    <3>1. Firmware(k)' /\ Line(k)' /\ Answers(k)' /\ Starts(k)' /\ Completing(k)' /\ Reported(k)'
      BY <2>2, <1>1, Frame DEF Machine
    <3> QED  BY <3>1, <1>5, <1>6 DEF Machine
  <2> QED  BY <2>1, <2>2
<1>8. Completed'
  <2>1. \A k \in Mcus : Stopped(k) /\ ~given_up => Stopped(k)'
    BY Frame
  <2> QED  BY <2>1, <1>1, <1>2 DEF Host, Completed, SameHost, moveVars, stateVars
<1>9. Asking'
  BY <1>1, <1>2 DEF Host, Asking, Current, SameHost, moveVars, stateVars
<1>10. Host'
  <2>1. now' # 0 /\ print_time' <= now' + Lead
    BY <1>1, <1>2 DEF Host
  <2>2. td_active' => pc' \in {"homing", "waiting"}
    BY <1>1 DEF Host, SameHost, tdVars, moveVars
  <2> QED  BY <2>1, <2>2, <1>8, <1>9 DEF Host
<1> QED  BY <1>2, <1>7, <1>10 DEF IInv

-----------------------------------------------------------------------------
(* Steps of the firmware *)

LEMMA TriggerTypes ==
    ASSUME TypeOK, NEW m \in Mcus, NEW r \in 0..4, DoTrigger(m, r), n' = n,
           UNCHANGED <<report_time, is_shutdown, trigger_count>>,
           UNCHANGED expire_time \/ expire_time' = [expire_time EXCEPT ![m] = 0],
           endstop_time' \in {endstop_time, 0}, m # 1 => endstop_time' = endstop_time
    PROVE  FirmwareTypes' /\ \A k \in Mcus : k # m => SameFirmware(k)
<1>1. FirmwareTypes /\ now \in Nat /\ Mcus' = Mcus
  BY DEF TypeOK, Mcus
<1>2. expire_time' \in [Mcus -> Nat] /\ \A k \in Mcus : k # m => expire_time'[k] = expire_time[k]
  BY <1>1 DEF FirmwareTypes
<1>3. CASE can_trigger[m]
  <2>1. /\ can_trigger' \in [Mcus -> BOOLEAN] /\ report' \in [Mcus -> BOOLEAN]
        /\ trigger_reason' \in [Mcus -> 0..4] /\ signals' \in [Mcus -> BOOLEAN]
        /\ stopped_at' \in [Mcus -> Nat]
    <3>1. /\ trigger_reason' = [trigger_reason EXCEPT ![m] = r]
          /\ can_trigger' = [can_trigger EXCEPT ![m] = FALSE]
          /\ report' = [report EXCEPT ![m] = TRUE]
          /\ signals' = [signals EXCEPT ![m] = FALSE]
          /\ stopped_at' = [stopped_at EXCEPT ![m] = now]
      BY <1>3 DEF DoTrigger
    <3> HIDE DEF DoTrigger
    <3> QED  BY <1>1, <3>1 DEF FirmwareTypes
  <2>2. moving' \in [Mcus -> BOOLEAN]
    <3>1. moving' = [moving EXCEPT ![m] = @ /\ ~signals[m]]
      BY <1>3 DEF DoTrigger
    <3>2. moving \in [Mcus -> BOOLEAN] /\ (moving[m] /\ ~signals[m]) \in BOOLEAN
      BY <1>1 DEF FirmwareTypes
    <3> HIDE DEF DoTrigger
    <3> QED  BY <3>1, <3>2
  <2>3. \A k \in Mcus : k # m => SameFirmware(k)
    BY <1>1, <1>2, <1>3 DEF DoTrigger, SameFirmware, FirmwareTypes
  <2> QED  BY <1>1, <1>2, <2>1, <2>2, <2>3 DEF FirmwareTypes
<1>4. CASE ~can_trigger[m]
  BY <1>1, <1>2, <1>4 DEF DoTrigger, FirmwareTypes, SameFirmware
<1> QED  BY <1>3, <1>4

\* A trsync that is triggered by one of its timers or by the endstop.
LEMMA TriggerKeeps ==
    ASSUME IInv, NEW m \in Mcus, NEW r \in 0..4, DoTrigger(m, r), SameHost,
           UNCHANGED <<report_time, is_shutdown, trigger_count, h2m, m2h, lost, shutdowns>>,
           UNCHANGED expire_time \/ expire_time' = [expire_time EXCEPT ![m] = 0],
           endstop_time' \in {endstop_time, 0}, m # 1 => endstop_time' = endstop_time,
           ~is_shutdown[m], ~QuietIn(m), ~HeadIs(h2m[m], "stop_on_trigger"),
           expire_time'[m] = 0 => expire_time[m] = 0 \/ ~can_trigger'[m],
           Has(h2m[m], "start") => given_up /\ m # 1
    PROVE  IInv'
<1>1. TypeOK /\ Host /\ \A k \in Mcus : Machine(k)
  BY DEF IInv
<1>2. /\ Firmware(m) /\ Line(m) /\ Timed(m) /\ Clocks(m) /\ Answers(m) /\ Starts(m)
      /\ Completing(m) /\ Reported(m)
  BY <1>1 DEF Machine
<1>3. n' = n /\ Mcus' = Mcus /\ now' = now /\ 1 \in Mcus
  BY <1>1, Basics DEF SameHost, Mcus
<1>4. /\ Asked(m)' = Asked(m) /\ Current(m)' = Current(m)
      /\ pc' = pc /\ result' = result /\ given_up' = given_up /\ last_params' = last_params
      /\ print_time' = print_time /\ reasons' = reasons
  BY DEF Asked, Current, SameHost, moveVars, stateVars
<1>5. TypeOK'
  <2>1. FirmwareTypes'
    BY <1>1, <1>3, TriggerTypes
  <2>2. LinkTypes'
    BY <1>1, <1>3 DEF TypeOK, LinkTypes
  <2> QED  BY <1>1, <2>1, <2>2, SameHostTypes
<1>6. \A k \in Mcus : k # m => SameFirmware(k) /\ SameLine(k)
  BY <1>1, <1>3, TriggerTypes DEF SameLine
<1>7. /\ can_trigger[m] => /\ trigger_reason'[m] = r /\ ~can_trigger'[m] /\ report'[m]
                           /\ ~signals'[m] /\ ~moving'[m] /\ stopped_at'[m] = now
      /\ ~can_trigger[m] => /\ ~can_trigger'[m] /\ trigger_reason'[m] = trigger_reason[m]
                            /\ report'[m] = report[m] /\ ~signals'[m] /\ ~moving'[m]
                            /\ stopped_at'[m] = stopped_at[m]
      /\ is_shutdown'[m] = is_shutdown[m] /\ now \in Nat /\ now # 0
  <2>1. Line(m) /\ Firmware(m)
    BY <1>2
  <2>2. can_trigger \in [Mcus -> BOOLEAN] /\ report \in [Mcus -> BOOLEAN]
        /\ trigger_reason \in [Mcus -> 0..4] /\ signals \in [Mcus -> BOOLEAN]
        /\ moving \in [Mcus -> BOOLEAN] /\ stopped_at \in [Mcus -> Nat]
        /\ now \in Nat /\ now # 0
    BY <1>1 DEF TypeOK, FirmwareTypes, Host
  <2>3. CASE can_trigger[m]
    BY <2>1, <2>2, <2>3 DEF DoTrigger, Line
  <2>4. CASE ~can_trigger[m]
    BY <2>1, <2>2, <2>4 DEF DoTrigger, Firmware
  <2> QED  BY <2>2, <2>3, <2>4
<1>8. Firmware(m)'
  <2>1. expire_time'[m] # 0 => expire_time'[m] = expire_time[m]
    BY <1>1 DEF TypeOK, FirmwareTypes
  <2> QED  BY <1>2, <1>3, <1>7, <2>1 DEF Firmware
<1>9. Line(m)'
  BY <1>2, <1>7 DEF Line
<1>10. Answers(m)'
  <2>1. ~HasKind(m2h[m], "ack")
        /\ ~(pc \in {"stopping", "query"} /\ ~Asked(m))
        /\ ~(pc = "idle" /\ (m = 1 \/ ~given_up
                               \/ result \in {"hit", "no_trigger", "comms_timeout"}))
    BY <1>2 DEF Answers, Settled
  <2> QED  BY <1>2, <1>4, <2>1 DEF Answers
<1>11. Starts(m)'
  BY <1>2, <1>4 DEF Starts
<1>12. Completing(m)' /\ (Stopped(m) => Stopped(m)')
  <2>1. Stopped(m) => Stopped(m)'
    BY <1>7 DEF Stopped
  <2>2. can_trigger[m] => Stopped(m)'
    BY <1>7 DEF Stopped
  <2> QED  BY <1>2, <1>4, <2>1, <2>2 DEF Completing
<1>13. Reported(m)'
  <2>1. can_trigger[m] /\ ~HasFalse(m2h[m]) => ReasonsAre(m2h[m], trigger_reason'[m])
    <3>1. m2h[m] \in Seq(Messages)
      BY <1>1 DEF TypeOK, LinkTypes
    <3> QED  BY <3>1, MessagesPlain
  <2> QED  BY <1>2, <1>4, <1>7, <2>1 DEF Reported
<1>14. Limit(m)' = Limit(m)
  BY <1>2, <1>3, <1>7 DEF Limit, Firmware
<1>15. Limit(m) <= Limit(m)' /\ ClocksBelow(m2h'[m], Limit(m)')
  <2>1. Limit(m) \in Nat
    BY <1>1, LimitTypes
  <2> QED  BY <1>2, <1>14, <2>1 DEF Clocks
<1>16. \A k \in Mcus : k # m => AtMost(h2m'[m], Bound(k)) /\ expire_time'[m] <= Bound(k)
  <2> SUFFICES ASSUME NEW k \in Mcus, k # m
               PROVE  AtMost(h2m'[m], Bound(k)) /\ expire_time'[m] <= Bound(k)
    OBVIOUS
  <2>1. AtMost(h2m[m], Bound(k)) /\ expire_time[m] <= Bound(k) /\ Bound(k) \in Nat
    BY <1>1, <1>2, LimitTypes DEF Timed
  <2>2. expire_time'[m] \in {0, expire_time[m]}
    BY <1>1 DEF TypeOK, FirmwareTypes
  <2> QED  BY <2>1, <2>2
<1>17. Endstop'
  BY <1>1, <1>4 DEF Host, Endstop
<1>18. Judged'
  <2>1. CASE m = 1
    <3>1. ~(pc \in {"stopping", "query"} /\ ~Asked(1)) /\ pc # "idle"
      BY <1>2, <2>1 DEF Answers, Settled
    <3> QED  BY <3>1, <2>1, <1>4 DEF Judged
  <2>2. CASE m # 1
    <3>1. trigger_reason'[1] = trigger_reason[1] /\ is_shutdown'[1] = is_shutdown[1]
      BY <2>2, <1>3, <1>6 DEF SameFirmware
    <3>2. Asked(1)' = Asked(1)
      BY DEF Asked, SameHost, moveVars
    <3> QED  BY <3>1, <3>2, <1>1, <1>4 DEF Host, Judged
  <2> QED  BY <2>1, <2>2
<1> QED  BY <1>5, <1>6, <1>8, <1>9, <1>10, <1>11, <1>12, <1>13, <1>15, <1>16, <1>17, <1>18,
            FirmwareAction

\* trsync_expire_event(): only a trsync that was started has a timeout.
LEMMA ExpireEventKeeps ==
    ASSUME IInv, NEW m \in Mcus, ExpireEvent(m)
    PROVE  IInv'
<1>1. Firmware(m) /\ Line(m) /\ Starts(m) /\ TypeOK
  BY DEF IInv, Machine
<1>2. expire_time[m] # 0 /\ expire_time' = [expire_time EXCEPT ![m] = 0]
      /\ DoTrigger(m, COMMS_TIMEOUT) /\ COMMS_TIMEOUT \in 0..4
  BY DEF ExpireEvent, COMMS_TIMEOUT
<1>3. ~Off(m) /\ ~is_shutdown[m]
  BY <1>1, <1>2 DEF Off, Firmware
<1>4. ~Asleep(m) /\ ~QuietIn(m)
  BY <1>3 DEF Asleep, QuietIn
<1>5. ~HeadIs(h2m[m], "stop_on_trigger")
  BY <1>1, <1>2, <1>3 DEF Line
<1>6. Has(h2m[m], "start") => given_up /\ m # 1
  <2>1. given_up \in BOOLEAN
    BY <1>1 DEF TypeOK, HostTypes
  <2> QED  BY <1>1, <1>4, <2>1 DEF Starts
<1>7. ~can_trigger'[m]
  <2>1. can_trigger \in [Mcus -> BOOLEAN]
    BY <1>1 DEF TypeOK, FirmwareTypes
  <2> QED  BY <1>2, <2>1 DEF DoTrigger
<1>8. SameHost /\ UNCHANGED <<report_time, is_shutdown, trigger_count, h2m, m2h, lost, shutdowns>>
      /\ endstop_time' = endstop_time
  BY DEF ExpireEvent, SameHost, endstopVars
<1> QED  BY <1>2, <1>3, <1>4, <1>5, <1>6, <1>7, <1>8, TriggerKeeps

\* trsync_report_event() and trsync_task(): a trsync that reports is not disabled.
LEMMA ReportEventKeeps ==
    ASSUME IInv, NEW m \in Mcus, ReportEvent(m)
    PROVE  IInv'
<1>1. TypeOK /\ Host /\ \A k \in Mcus : Machine(k)
  BY DEF IInv
<1>2. /\ Firmware(m) /\ Line(m) /\ Timed(m) /\ Clocks(m) /\ Answers(m) /\ Starts(m)
      /\ Completing(m) /\ Reported(m)
  BY <1>1 DEF Machine
<1>3. /\ report_time[m] # 0 /\ report' = [report EXCEPT ![m] = TRUE]
      /\ report_time' = [report_time EXCEPT ![m] = @ + report_ticks]
      /\ UNCHANGED <<can_trigger, trigger_reason, expire_time, signals, moving, stopped_at,
                     is_shutdown, endstop_time, trigger_count, h2m, m2h, lost, shutdowns>>
  BY DEF ReportEvent, endstopVars
<1>4. SameHost /\ n' = n /\ Mcus' = Mcus /\ now' = now /\ report_ticks \in Nat
  BY <1>1, Basics DEF ReportEvent, SameHost, Mcus
<1>5. FirmwareTypes /\ LinkTypes /\ FirmwareTypes' /\ LinkTypes'
  BY <1>1, <1>3, <1>4, SMTT(30) DEF TypeOK, FirmwareTypes, LinkTypes
<1>6. \A k \in Mcus : k # m => SameFirmware(k) /\ SameLine(k)
  BY <1>3, <1>5 DEF SameFirmware, SameLine, FirmwareTypes
<1>7. ~Off(m) /\ ~is_shutdown[m] /\ ~Asleep(m) /\ ~QuietIn(m) /\ ~Settled(m)
  BY <1>2, <1>3 DEF Off, Firmware, Asleep, QuietIn, Settled
<1>8. /\ Asked(m)' = Asked(m) /\ Current(m)' = Current(m) /\ Stopped(m)' = Stopped(m)
      /\ pc' = pc /\ result' = result /\ given_up' = given_up /\ last_params' = last_params
      /\ print_time' = print_time
  BY <1>3, <1>4 DEF Asked, Current, Stopped, SameHost, moveVars, stateVars
<1>9. Firmware(m)' /\ Line(m)'
  BY <1>2, <1>3, <1>4, <1>7 DEF Firmware, Line
<1>10. Answers(m)'
  BY <1>2, <1>3, <1>7, <1>8 DEF Answers
<1>11. Starts(m)'
  BY <1>2, <1>3, <1>7, <1>8 DEF Starts
<1>12. Completing(m)' /\ Reported(m)'
  BY <1>2, <1>3, <1>8 DEF Completing, Reported
<1>13. Limit(m) <= Limit(m)' /\ ClocksBelow(m2h'[m], Limit(m)')
  <2>1. Limit(m)' = Limit(m) /\ Limit(m) \in Nat
    BY <1>1, <1>3, <1>4, LimitTypes DEF Limit
  <2> QED  BY <1>2, <1>3, <2>1 DEF Clocks
<1>14. \A k \in Mcus : k # m => AtMost(h2m'[m], Bound(k)) /\ expire_time'[m] <= Bound(k)
  BY <1>2, <1>3 DEF Timed
<1>15. Endstop' /\ Judged'
  BY <1>1, <1>3, <1>4 DEF Host, Endstop, Judged, Asked, SameHost, moveVars
<1>16. TypeOK'
  BY <1>1, <1>4, <1>5, SameHostTypes
<1> QED  BY <1>4, <1>6, <1>8, <1>9, <1>10, <1>11, <1>12, <1>13, <1>14, <1>15, <1>16,
            FirmwareAction

LEMMA TrsyncTaskKeeps ==
    ASSUME IInv, NEW m \in Mcus, TrsyncTask(m)
    PROVE  IInv'
<1> DEFINE x == State(can_trigger[m], trigger_reason[m], now)
<1>1. TypeOK /\ Host /\ \A k \in Mcus : Machine(k)
  BY DEF IInv
<1>2. /\ Firmware(m) /\ Line(m) /\ Timed(m) /\ Clocks(m) /\ Answers(m) /\ Starts(m)
      /\ Completing(m) /\ Reported(m)
  BY <1>1 DEF Machine
<1>3. /\ report[m] /\ report' = [report EXCEPT ![m] = FALSE]
      /\ m2h' = [m2h EXCEPT ![m] = @ \o <<x>>]
      /\ UNCHANGED <<can_trigger, trigger_reason, report_time, expire_time, signals, moving,
                     stopped_at, is_shutdown, endstop_time, trigger_count, h2m, lost,
                     shutdowns>>
  BY DEF TrsyncTask, Send, endstopVars
<1>4. SameHost /\ n' = n /\ Mcus' = Mcus /\ now' = now
  BY DEF TrsyncTask, SameHost, Mcus
<1>5. FirmwareTypes /\ LinkTypes
  BY <1>1 DEF TypeOK
<1>6. x \in Messages /\ x.kind = "state" /\ x.can = can_trigger[m]
      /\ x.reason = trigger_reason[m] /\ x.clock = now
  BY <1>1, <1>5 DEF TypeOK, FirmwareTypes, State, Messages
<1> HIDE DEF x
<1>7. m2h[m] \in Seq(Messages) /\ m2h'[m] = m2h[m] \o <<x>> /\ <<x>> \in Seq(Messages)
  BY <1>3, <1>5, <1>6, OneMessage DEF LinkTypes
<1>8. FirmwareTypes' /\ LinkTypes'
  <2>1. m2h[m] \o <<x>> \in Seq(Messages)
    BY <1>7, MessagesCat
  <2>2. m2h' \in [Mcus -> Seq(Messages)]
    BY <1>3, <1>5, <2>1 DEF LinkTypes
  <2> QED  BY <1>3, <1>4, <1>5, <2>2 DEF FirmwareTypes, LinkTypes
<1>9. \A k \in Mcus : k # m => SameFirmware(k) /\ SameLine(k)
  BY <1>3, <1>5 DEF SameFirmware, SameLine, FirmwareTypes, LinkTypes
<1>10. ~Off(m) /\ ~is_shutdown[m] /\ ~Asleep(m) /\ ~QuietIn(m) /\ ~Settled(m)
  BY <1>2, <1>3 DEF Off, Firmware, Asleep, QuietIn, Settled
<1>11. /\ Asked(m)' = Asked(m) /\ Current(m)' = Current(m) /\ Stopped(m)' = Stopped(m)
       /\ pc' = pc /\ result' = result /\ given_up' = given_up /\ last_params' = last_params
       /\ print_time' = print_time
  BY <1>3, <1>4 DEF Asked, Current, Stopped, SameHost, moveVars, stateVars
<1>12. ~HasKind(m2h[m], "ack")
  BY <1>2, <1>10 DEF Answers
<1>13. /\ \A k : HasKind(m2h'[m], k) <=> HasKind(m2h[m], k) \/ k = "state"
       /\ HasFalse(m2h'[m]) <=> HasFalse(m2h[m]) \/ ~can_trigger[m]
       /\ AckLast(m2h'[m])
       /\ \A r : ReasonsAre(m2h'[m], r)
                   <=> ReasonsAre(m2h[m], r) /\ (~can_trigger[m] => trigger_reason[m] = r)
       /\ \A b : ClocksBelow(m2h'[m], b) <=>
            ClocksBelow(m2h[m], b) /\ (can_trigger[m] => now <= b /\ trigger_reason[m] = 0)
  <2>1. AckLast(m2h[m]) /\ AckLast(<<x>>)
    BY <1>2, <1>6, OneMessage DEF Answers
  <2>2. AckLast(m2h'[m])
    BY <2>1, <1>7, <1>12, AckLastCat
  <2>3. /\ \A k : HasKind(<<x>>, k) <=> k = "state"
        /\ HasFalse(<<x>>) <=> ~can_trigger[m]
        /\ \A r : ReasonsAre(<<x>>, r) <=> (~can_trigger[m] => trigger_reason[m] = r)
        /\ \A b : ClocksBelow(<<x>>, b)
                    <=> (can_trigger[m] => now <= b /\ trigger_reason[m] = 0)
    BY <1>6, OneMessage
  <2>4. /\ \A k : HasKind(m2h'[m], k) <=> HasKind(m2h[m], k) \/ HasKind(<<x>>, k)
        /\ HasFalse(m2h'[m]) <=> HasFalse(m2h[m]) \/ HasFalse(<<x>>)
        /\ \A r : ReasonsAre(m2h'[m], r) <=> ReasonsAre(m2h[m], r) /\ ReasonsAre(<<x>>, r)
        /\ \A b : ClocksBelow(m2h'[m], b) <=> ClocksBelow(m2h[m], b) /\ ClocksBelow(<<x>>, b)
    BY <1>7, MessagesCat
  <2> QED  BY <2>2, <2>3, <2>4
<1>14. Firmware(m)' /\ Line(m)'
  BY <1>2, <1>3, <1>4, <1>10, <1>13 DEF Firmware, Line
<1>15. Answers(m)'
  BY <1>2, <1>3, <1>10, <1>11, <1>12, <1>13 DEF Answers
<1>16. Has(h2m[m], "start") => given_up /\ m # 1
  <2>1. given_up \in BOOLEAN
    BY <1>1 DEF TypeOK, HostTypes
  <2> QED  BY <1>2, <1>10, <2>1 DEF Starts
<1>17. Starts(m)'
  BY <1>2, <1>3, <1>11, <1>16 DEF Starts
<1>18. Completing(m)'
  BY <1>2, <1>3, <1>11, <1>13, <1>16 DEF Completing
<1>19. Reported(m)'
  <2>1. ~HasFalse(m2h[m]) => ReasonsAre(m2h[m], trigger_reason[m])
    BY <1>7, MessagesPlain
  <2> QED  BY <2>1, <1>2, <1>3, <1>11, <1>13 DEF Reported
<1>20. Limit(m) <= Limit(m)' /\ ClocksBelow(m2h'[m], Limit(m)')
  <2>1. Limit(m)' = Limit(m) /\ Limit(m) \in Nat
    BY <1>1, <1>3, <1>4, LimitTypes DEF Limit
  <2>2. can_trigger[m] => Limit(m) = now /\ trigger_reason[m] = 0
    BY <1>2 DEF Firmware, Limit
  <2> QED  BY <1>2, <1>13, <2>1, <2>2 DEF Clocks
<1>21. \A k \in Mcus : k # m => AtMost(h2m'[m], Bound(k)) /\ expire_time'[m] <= Bound(k)
  BY <1>2, <1>3 DEF Timed
<1>22. Endstop' /\ Judged'
  BY <1>1, <1>3, <1>4 DEF Host, Endstop, Judged, Asked, SameHost, moveVars
<1>23. TypeOK'
  BY <1>1, <1>4, <1>8, SameHostTypes
<1> QED  BY <1>4, <1>9, <1>11, <1>14, <1>15, <1>17, <1>18, <1>19, <1>20, <1>21, <1>22,
            <1>23, FirmwareAction

\* endstop_event(): the endstop is checked only in a move that was started.
LEMMA EndstopEventKeeps ==
    ASSUME IInv, NEW match \in BOOLEAN, EndstopEvent(match)
    PROVE  IInv'
<1>1. TypeOK /\ Host /\ 1 \in Mcus /\ \A k \in Mcus : Machine(k)
  BY Basics DEF IInv
<1>2. /\ Firmware(1) /\ Line(1) /\ Timed(1) /\ Clocks(1) /\ Answers(1) /\ Starts(1)
      /\ Completing(1) /\ Reported(1)
  BY <1>1 DEF Machine
<1>3. SameHost /\ n' = n /\ Mcus' = Mcus /\ now' = now
      /\ UNCHANGED <<is_shutdown, h2m, m2h, lost, shutdowns>> /\ endstop_time # 0
  BY DEF EndstopEvent, SameHost, Mcus
<1>4. ~is_shutdown[1] /\ ~QuietIn(1) /\ ~Settled(1)
      /\ ~HeadIs(h2m[1], "stop_on_trigger") /\ ~Has(h2m[1], "start")
  BY <1>1, <1>2, <1>3 DEF Firmware, QuietIn, Settled, Host, Endstop, Starts
<1>5. CASE match /\ ~(trigger_count > 1)
  <2>1. /\ endstop_time' = 0 /\ DoTrigger(1, ENDSTOP_HIT) /\ ENDSTOP_HIT \in 0..4
        /\ UNCHANGED <<trigger_count, report_time, expire_time>>
    BY <1>5 DEF EndstopEvent, ENDSTOP_HIT
  <2> QED  BY <2>1, <1>1, <1>3, <1>4, TriggerKeeps
<1>6. CASE ~match \/ trigger_count > 1
  <2>1. /\ UNCHANGED <<can_trigger, report, trigger_reason, report_time, expire_time,
                       signals, moving, stopped_at>>
        /\ \/ endstop_time' = endstop_time + 1 /\ trigger_count' = SampleCount[n]
           \/ endstop_time' = endstop_time /\ trigger_count > 1
              /\ trigger_count' = trigger_count - 1
    BY <1>6 DEF EndstopEvent, trsyncVars
  <2>2. FirmwareTypes' /\ LinkTypes' /\ endstop_time' \in Nat /\ endstop_time' # 0
    <3>1. FirmwareTypes /\ LinkTypes /\ SampleCount[n] \in Nat
      BY <1>1, Basics DEF TypeOK
    <3>2. endstop_time' \in Nat /\ endstop_time' # 0 /\ trigger_count' \in 0..SampleCount[n]
      BY <2>1, <3>1, <1>3 DEF FirmwareTypes
    <3> QED  BY <2>1, <3>1, <3>2, <1>3 DEF FirmwareTypes, LinkTypes
  <2>3. TypeOK'
    BY <1>1, <1>3, <2>2, SameHostTypes
  <2>4. \A k \in Mcus : k # 1 => SameFirmware(k) /\ SameLine(k)
    BY <1>3, <2>1 DEF SameFirmware, SameLine
  <2>5. /\ Asked(1)' = Asked(1) /\ Current(1)' = Current(1) /\ Stopped(1)' = Stopped(1)
        /\ pc' = pc /\ result' = result /\ given_up' = given_up
        /\ last_params' = last_params /\ print_time' = print_time /\ reasons' = reasons
    BY <1>3, <2>1 DEF Asked, Current, Stopped, SameHost, moveVars, stateVars
  <2>6. Off(1)' = Off(1)
    BY <2>1 DEF Off
  <2>7. Firmware(1)' /\ Line(1)'
    BY <1>2, <1>3, <1>4, <2>1, <2>6 DEF Firmware, Line
  <2>8. Answers(1)'
    BY <1>2, <1>3, <1>4, <2>5 DEF Answers
  <2>9. Starts(1)' /\ Completing(1)' /\ Reported(1)'
    BY <1>2, <1>3, <1>4, <2>1, <2>5 DEF Starts, Completing, Reported
  <2>10. Limit(1) <= Limit(1)' /\ ClocksBelow(m2h'[1], Limit(1)')
    <3>1. Limit(1)' = Limit(1) /\ Limit(1) \in Nat
      BY <1>1, <1>3, <2>1, LimitTypes DEF Limit
    <3> QED  BY <3>1, <1>2, <1>3 DEF Clocks
  <2>11. \A k \in Mcus : k # 1 => AtMost(h2m'[1], Bound(k)) /\ expire_time'[1] <= Bound(k)
    BY <1>2, <1>3, <2>1 DEF Timed
  <2>12. Endstop' /\ Judged'
    BY <1>1, <1>3, <1>4, <2>1, <2>5 DEF Host, Endstop, Judged
  <2> QED  BY <1>1, <1>3, <2>3, <2>4, <2>5, <2>7, <2>8, <2>9, <2>10, <2>11, <2>12,
              FirmwareAction
<1>7. match \/ ~match
  OBVIOUS
<1> QED  BY <1>5, <1>6, <1>7

\* Time passes: no timer that is due is left behind.
LEMMA TickKeeps ==
    ASSUME IInv, Tick
    PROVE  IInv'
<1>1. TypeOK /\ Host /\ \A k \in Mcus : Machine(k)
  BY DEF IInv
<1>2. /\ now' = now + 1 /\ now \in Nat /\ n' = n /\ Mcus' = Mcus
      /\ UNCHANGED <<trsyncVars, is_shutdown, endstopVars, h2m, m2h, tdVars, moveVars,
                     stateVars, lost, shutdowns>>
      /\ \A m \in Mcus : ~Due(expire_time[m])
  BY <1>1 DEF Tick, TypeOK, Mcus
<1> USE DEF trsyncVars, endstopVars, tdVars, moveVars, stateVars
<1>3. TypeOK'
  BY <1>1, <1>2 DEF TypeOK, FirmwareTypes, LinkTypes, HostTypes
<1>4. ASSUME NEW m \in Mcus
      PROVE  Machine(m)'
  <2>1. /\ Firmware(m) /\ Line(m) /\ Timed(m) /\ Clocks(m) /\ Answers(m) /\ Starts(m)
        /\ Completing(m) /\ Reported(m)
    BY <1>1 DEF Machine
  <2>2. /\ Off(m)' = Off(m) /\ Asleep(m)' = Asleep(m) /\ QuietIn(m)' = QuietIn(m)
        /\ Settled(m)' = Settled(m) /\ Asked(m)' = Asked(m) /\ Current(m)' = Current(m)
        /\ Stopped(m)' = Stopped(m)
    BY <1>2 DEF Off, Asleep, QuietIn, Settled, Asked, Current, Stopped
  <2>3. Firmware(m)'
    <3>1. stopped_at[m] \in Nat /\ expire_time[m] \in Nat
      BY <1>1 DEF TypeOK, FirmwareTypes
    <3>2. stopped_at[m] <= now => stopped_at[m] <= now'
      BY <3>1, <1>2
    <3>3. expire_time[m] # 0 => now' <= expire_time[m]
      BY <3>1, <1>2 DEF Due
    <3> QED  BY <2>1, <2>2, <3>2, <3>3, <1>2 DEF Firmware
  <2>4. Line(m)' /\ Answers(m)'
    BY <2>1, <2>2, <1>2 DEF Line, Answers
  <2>5. Starts(m)' /\ Completing(m)' /\ Reported(m)'
    BY <2>1, <2>2, <1>2 DEF Starts, Completing, Reported
  <2>6. \A k \in Mcus : Limit(k) <= Limit(k)' /\ print_time <= print_time'
    BY <1>1, <1>2 DEF Limit, TypeOK, FirmwareTypes, HostTypes
  <2>7. Timed(m)'
    <3>1. h2m[m] \in Seq(Commands) /\ expire_time[m] \in Nat
      BY <1>1 DEF TypeOK, FirmwareTypes, LinkTypes
    <3> QED  BY <3>1, <2>1, <2>6, <1>1, <1>2, <1>3, LimitsGrow DEF Timed
  <2>8. Clocks(m)'
    <3>1. m2h[m] \in Seq(Messages)
      BY <1>1 DEF TypeOK, LinkTypes
    <3> QED  BY <3>1, <2>1, <2>6, <1>1, <1>2, <1>3, LimitsGrow DEF Clocks
  <2> QED  BY <2>3, <2>4, <2>5, <2>7, <2>8 DEF Machine
<1>5. Host'
  <2>1. Asking' /\ Endstop' /\ Completed' /\ Judged'
    BY <1>1, <1>2 DEF Host, Asking, Current, Endstop, Completed, Stopped, Judged, Asked
  <2>2. now' # 0 /\ print_time' <= now' + Lead
    <3>1. print_time \in Nat /\ Lead \in Nat
      BY <1>1, SyncAssumption DEF TypeOK, HostTypes
    <3> QED  BY <3>1, <1>1, <1>2 DEF Host
  <2> QED  BY <2>1, <2>2, <1>1, <1>2 DEF Host
<1> QED  BY <1>2, <1>3, <1>4, <1>5 DEF IInv

\* sched_shutdown(), spontaneous or by a command.
LEMMA ShutdownKeeps ==
    ASSUME IInv, NEW m \in Mcus, DoShutdown(m), SameHost, lost' \in Nat, shutdowns' \in Nat,
           \/ h2m' = h2m
           \/ /\ h2m[m] # <<>> /\ h2m' = [h2m EXCEPT ![m] = Tail(@)]
              /\ ~HeadIs(h2m[m], "query")
    PROVE  IInv'
<1>1. TypeOK /\ Host /\ \A k \in Mcus : Machine(k)
  BY DEF IInv
<1>2. /\ Firmware(m) /\ Line(m) /\ Timed(m) /\ Clocks(m) /\ Answers(m) /\ Starts(m)
      /\ Completing(m) /\ Reported(m)
  BY <1>1 DEF Machine
<1>3. n' = n /\ Mcus' = Mcus /\ now' = now /\ 1 \in Mcus
  BY <1>1, Basics DEF SameHost, Mcus
<1>4. FirmwareTypes /\ LinkTypes /\ now \in Nat /\ now # 0
  BY <1>1 DEF TypeOK, Host
<1>5. /\ is_shutdown'[m] /\ Off(m)' /\ ~signals'[m] /\ ~moving'[m] /\ trigger_reason'[m] = 0
      /\ m = 1 => endstop_time' = 0
      /\ m # 1 => endstop_time' = endstop_time
      /\ stopped_at'[m] = IF stopped_at[m] = 0 THEN now ELSE stopped_at[m]
      /\ expire_time'[m] = 0
  BY <1>4 DEF DoShutdown, FirmwareTypes, Off
<1>6. /\ m2h[m] \in Seq(Messages) /\ m2h'[m] = m2h[m] \o <<Shutdown>>
      /\ Shutdown \in Messages /\ Shutdown.kind = "shutdown"
      /\ <<Shutdown>> \in Seq(Messages)
  <2>1. Shutdown \in Messages /\ Shutdown.kind = "shutdown"
    BY DEF Shutdown, Messages
  <2> QED  BY <2>1, <1>4, OneMessage DEF DoShutdown, Send, LinkTypes
<1>7. /\ \A k : HasKind(m2h'[m], k) <=> HasKind(m2h[m], k) \/ k = "shutdown"
      /\ Drained(m2h'[m]) <=> Drained(m2h[m])
      /\ \A b : ClocksBelow(m2h'[m], b) <=> ClocksBelow(m2h[m], b)
      /\ AckLast(m2h'[m]) /\ m2h'[m] \in Seq(Messages)
  <2>1. /\ \A k : HasKind(<<Shutdown>>, k) <=> k = "shutdown"
        /\ Drained(<<Shutdown>>) /\ AckLast(<<Shutdown>>)
        /\ \A b : ClocksBelow(<<Shutdown>>, b)
    BY <1>6, OneMessage
  <2>2. AckLast(m2h[m])
    BY <1>2 DEF Answers
  <2>3. AckLast(m2h'[m])
    BY <1>6, <2>1, <2>2, AckLastCat
  <2> QED  BY <1>6, <2>1, <2>3, MessagesCat
<1>8. h2m[m] \in Seq(Commands) /\ h2m' \in [Mcus -> Seq(Commands)]
      /\ (h2m'[m] = h2m[m]
          \/ (h2m[m] # <<>> /\ h2m'[m] = Tail(h2m[m]) /\ ~HeadIs(h2m[m], "query")))
      /\ \A k \in Mcus : k # m => h2m'[k] = h2m[k]
  <2>1. h2m[m] \in Seq(Commands) /\ (h2m[m] # <<>> => Tail(h2m[m]) \in Seq(Commands))
    BY <1>4, TailFacts DEF LinkTypes
  <2> QED  BY <1>4, <2>1 DEF LinkTypes
<1>9. /\ \A c : Has(h2m'[m], c) => Has(h2m[m], c)
      /\ Has(h2m'[m], "query") <=> Has(h2m[m], "query")
      /\ Bare(h2m[m]) => Bare(h2m'[m])
      /\ HostReasons(h2m'[m]) /\ Framed(h2m'[m]) /\ QueryLast(h2m'[m])
      /\ StartFirst(h2m[m]) => StartFirst(h2m'[m])
      /\ \A c, a : ArgIs(h2m[m], c, a) => ArgIs(h2m'[m], c, a)
      /\ \A b : AtMost(h2m[m], b) => AtMost(h2m'[m], b)
      /\ OffAfter(h2m[m]) => OffAfter(h2m'[m]) \/ ~Has(h2m'[m], "endstop_home")
  <2>1. HostReasons(h2m[m]) /\ Framed(h2m[m]) /\ QueryLast(h2m[m])
    BY <1>2 DEF Line, Answers
  <2>2. CASE h2m'[m] = h2m[m]
    BY <2>1, <2>2
  <2>3. CASE h2m[m] # <<>> /\ h2m'[m] = Tail(h2m[m]) /\ ~HeadIs(h2m[m], "query")
    <3>1. /\ \A c : Has(h2m'[m], c) => Has(h2m[m], c)
          /\ Has(h2m'[m], "query") <=> Has(h2m[m], "query")
      BY <2>3, <1>8, HasTail
    <3>2. Bare(h2m[m]) => Bare(h2m'[m])
      BY <2>3, <1>8, BareFacts
    <3>3. HostReasons(h2m'[m]) /\ Framed(h2m'[m]) /\ QueryLast(h2m'[m])
      BY <2>1, <2>3, <1>8, ArgsTail, FramedTail, QueryLastTail
    <3>4. StartFirst(h2m[m]) => StartFirst(h2m'[m])
      BY <2>3, <1>8, StartFirstTail
    <3>5. /\ \A c, a : ArgIs(h2m[m], c, a) => ArgIs(h2m'[m], c, a)
          /\ \A b : AtMost(h2m[m], b) => AtMost(h2m'[m], b)
      BY <2>3, <1>8, ArgsTail
    <3>6. OffAfter(h2m[m]) => OffAfter(h2m'[m]) \/ ~Has(h2m'[m], "endstop_home")
      BY <2>3, <1>8, OffAfterTail
    <3> QED  BY <3>1, <3>2, <3>3, <3>4, <3>5, <3>6
  <2> QED  BY <1>8, <2>2, <2>3
<1>10. FirmwareTypes' /\ LinkTypes'
  <2>1. FirmwareTypes'
    BY <1>3, <1>4 DEF DoShutdown, FirmwareTypes
  <2>2. m2h' \in [Mcus -> Seq(Messages)]
    <3>1. m2h' = [m2h EXCEPT ![m] = m2h[m] \o <<Shutdown>>]
      BY DEF DoShutdown, Send
    <3>2. m2h[m] \o <<Shutdown>> \in Seq(Messages)
      BY <1>6, <1>7
    <3> QED  BY <3>1, <3>2, <1>4 DEF LinkTypes
  <2> QED  BY <1>3, <1>8, <2>1, <2>2 DEF LinkTypes
<1>11. TypeOK'
  BY <1>1, <1>10, SameHostTypes
<1>12. \A k \in Mcus : k # m => SameFirmware(k) /\ SameLine(k)
  <2>1. \A k \in Mcus : k # m => SameFirmware(k)
    BY <1>4 DEF DoShutdown, FirmwareTypes, SameFirmware
  <2>2. \A k \in Mcus : k # m => m2h'[k] = m2h[k]
    BY <1>4 DEF DoShutdown, Send, LinkTypes
  <2> QED  BY <1>8, <2>1, <2>2 DEF SameLine
<1>13. /\ Asked(m)' = Asked(m) /\ Current(m)' = Current(m)
       /\ pc' = pc /\ result' = result /\ given_up' = given_up /\ last_params' = last_params
       /\ print_time' = print_time /\ reasons' = reasons
  BY DEF Asked, Current, SameHost, moveVars, stateVars
<1>14. /\ Asleep(m)' /\ (QuietIn(m) => QuietIn(m)') /\ (Settled(m) => Settled(m)')
       /\ Stopped(m)'
  BY <1>5, <1>7, <1>9 DEF Asleep, QuietIn, Settled, Stopped
<1>15. Firmware(m)'
  BY <1>2, <1>3, <1>4, <1>5 DEF Firmware, Off, FirmwareTypes
<1>16. Line(m)'
  BY <1>2, <1>5, <1>9 DEF Line
<1>17. Answers(m)'
  BY <1>2, <1>7, <1>9, <1>13, <1>14 DEF Answers
<1>18. Starts(m)'
  BY <1>2, <1>5, <1>7, <1>9, <1>13, <1>14 DEF Starts
<1>19. Completing(m)' /\ Reported(m)'
  BY <1>5, <1>14 DEF Completing, Reported
<1>20. Limit(m) <= Limit(m)' /\ ClocksBelow(m2h'[m], Limit(m)')
  <2>1. Limit(m)' = Limit(m) /\ Limit(m) \in Nat
    BY <1>1, <1>3, <1>5, LimitTypes DEF Limit
  <2> QED  BY <1>2, <1>7, <2>1 DEF Clocks
<1>21. \A k \in Mcus : k # m => AtMost(h2m'[m], Bound(k)) /\ expire_time'[m] <= Bound(k)
  <2>1. \A k \in Mcus : Bound(k) \in Nat
    BY <1>1, LimitTypes
  <2> QED  BY <1>2, <1>5, <1>9, <2>1 DEF Timed
<1>22. Endstop'
  <2>1. CASE m = 1
    BY <2>1, <1>1, <1>5, <1>9, <1>13 DEF Host, Endstop
  <2>2. CASE m # 1
    BY <2>2, <1>1, <1>3, <1>5, <1>8, <1>13 DEF Host, Endstop
  <2> QED  BY <2>1, <2>2
<1>23. Judged'
  <2>1. CASE m = 1
    BY <2>1, <1>5 DEF Judged
  <2>2. CASE m # 1
    <3>1. trigger_reason'[1] = trigger_reason[1] /\ is_shutdown'[1] = is_shutdown[1]
      BY <2>2, <1>3, <1>12 DEF SameFirmware
    <3>2. Asked(1)' = Asked(1)
      BY DEF Asked, SameHost, moveVars
    <3> QED  BY <3>1, <3>2, <1>1, <1>13 DEF Host, Judged
  <2> QED  BY <2>1, <2>2
<1> QED  BY <1>11, <1>12, <1>14, <1>15, <1>16, <1>17, <1>18, <1>19, <1>20, <1>21, <1>22,
            <1>23, FirmwareAction

-----------------------------------------------------------------------------
(* Commands *)

\* What a micro-controller finds when it takes a command.
LEMMA CommandTaken ==
    ASSUME IInv, NEW m \in Mcus, n' = n, h2m[m] # <<>>, h2m' = [h2m EXCEPT ![m] = Tail(@)]
    PROVE  /\ h2m[m] \in Seq(Commands) /\ h2m[m][1] \in Commands
           /\ h2m' \in [Mcus -> Seq(Commands)] /\ h2m'[m] \in Seq(Commands)
           /\ h2m'[m] = Tail(h2m[m]) /\ \A k \in Mcus : k # m => h2m'[k] = h2m[k]
           /\ \A c : HeadIs(h2m[m], c) <=> h2m[m][1].cmd = c
           /\ \A c : Has(h2m[m], c) <=> HeadIs(h2m[m], c) \/ Has(h2m'[m], c)
           /\ Bare(h2m[m]) => Bare(h2m'[m]) /\ HeadIs(h2m[m], "emergency_stop")
           /\ HostReasons(h2m'[m]) /\ Framed(h2m'[m]) /\ QueryLast(h2m'[m])
           /\ HeadIs(h2m[m], "trigger") \/ HeadIs(h2m[m], "query") => h2m[m][1].arg \in {2, 3}
           /\ HeadIs(h2m[m], "query") => Bare(h2m'[m])
           /\ HeadIs(h2m[m], "start") => HeadIs(h2m'[m], "stop_on_trigger")
           /\ HeadIs(h2m[m], "stop_on_trigger") => HeadIs(h2m'[m], "set_timeout")
           /\ HeadIs(h2m'[m], "stop_on_trigger") => HeadIs(h2m[m], "start")
<1>1. h2m[m] \in Seq(Commands) /\ h2m \in [Mcus -> Seq(Commands)]
      /\ HostReasons(h2m[m]) /\ Framed(h2m[m]) /\ QueryLast(h2m[m])
  BY DEF IInv, TypeOK, LinkTypes, Machine, Line, Answers
<1>2. Tail(h2m[m]) \in Seq(Commands) /\ h2m[m][1] \in Commands
  BY <1>1, TailFacts
<1>3. h2m' \in [Mcus -> Seq(Commands)] /\ h2m'[m] = Tail(h2m[m])
      /\ \A k \in Mcus : k # m => h2m'[k] = h2m[k]
  BY <1>1, <1>2
<1>4. \A c : Has(h2m[m], c) <=> HeadIs(h2m[m], c) \/ Has(h2m'[m], c)
  BY <1>1, <1>3, HasTail
<1>5. Bare(h2m[m]) => Bare(h2m'[m]) /\ HeadIs(h2m[m], "emergency_stop")
  BY <1>1, <1>3, BareFacts
<1>6. HostReasons(h2m'[m])
      /\ (HeadIs(h2m[m], "trigger") \/ HeadIs(h2m[m], "query") => h2m[m][1].arg \in {2, 3})
  BY <1>1, <1>3, ArgsTail
<1>7. /\ Framed(h2m'[m])
      /\ HeadIs(h2m[m], "start") => HeadIs(h2m'[m], "stop_on_trigger")
      /\ HeadIs(h2m[m], "stop_on_trigger") => HeadIs(h2m'[m], "set_timeout")
      /\ HeadIs(h2m'[m], "stop_on_trigger") => HeadIs(h2m[m], "start")
  BY <1>1, <1>3, FramedTail
<1>8. QueryLast(h2m'[m]) /\ (HeadIs(h2m[m], "query") => Bare(h2m'[m]))
  BY <1>1, <1>3, QueryLastTail
<1>9. \A c : HeadIs(h2m[m], c) <=> h2m[m][1].cmd = c
  BY DEF HeadIs
<1> QED  BY <1>1, <1>2, <1>3, <1>4, <1>5, <1>6, <1>7, <1>8, <1>9

LEMMA CommandArgs ==
    ASSUME IInv, NEW m \in Mcus, n' = n, h2m[m] # <<>>, h2m' = [h2m EXCEPT ![m] = Tail(@)]
    PROVE  /\ \A c, a : ArgIs(h2m[m], c, a)
                          => ArgIs(h2m'[m], c, a) /\ (HeadIs(h2m[m], c) => h2m[m][1].arg = a)
           /\ \A k \in Mcus : k # m =>
                /\ AtMost(h2m'[m], Bound(k))
                /\ HeadIs(h2m[m], "set_timeout") => h2m[m][1].arg <= Bound(k)
           /\ StartFirst(h2m[m]) =>
                /\ StartFirst(h2m'[m])
                /\ Has(h2m'[m], "start") => HeadIs(h2m[m], "emergency_stop")
           /\ OffAfter(h2m[m]) =>
                \/ OffAfter(h2m'[m])
                \/ HeadIs(h2m[m], "endstop_off") /\ ~Has(h2m'[m], "endstop_home")
<1>1. h2m[m] \in Seq(Commands) /\ h2m'[m] = Tail(h2m[m]) /\ Timed(m)
  BY CommandTaken DEF IInv, Machine
<1>2. \A c, a : ArgIs(h2m[m], c, a)
        => ArgIs(h2m'[m], c, a) /\ (HeadIs(h2m[m], c) => h2m[m][1].arg = a)
  BY <1>1, ArgsTail
<1>3. \A k \in Mcus : k # m =>
        /\ AtMost(h2m'[m], Bound(k))
        /\ HeadIs(h2m[m], "set_timeout") => h2m[m][1].arg <= Bound(k)
  BY <1>1, ArgsTail DEF Timed
<1>4. StartFirst(h2m[m]) =>
        /\ StartFirst(h2m'[m])
        /\ Has(h2m'[m], "start") => HeadIs(h2m[m], "emergency_stop")
  BY <1>1, StartFirstTail
<1>5. OffAfter(h2m[m]) =>
        \/ OffAfter(h2m'[m])
        \/ HeadIs(h2m[m], "endstop_off") /\ ~Has(h2m'[m], "endstop_home")
  BY <1>1, OffAfterTail
<1> QED  BY <1>2, <1>3, <1>4, <1>5

\* A command other than an emergency stop is part of a move that is not settled, and
\* one other than a start is not taken while a start waits.
LEMMA CommandOfMove ==
    ASSUME IInv, NEW m \in Mcus, h2m[m] # <<>>, ~HeadIs(h2m[m], "emergency_stop")
    PROVE  /\ ~QuietIn(m) /\ ~HasKind(m2h[m], "ack")
           /\ ~(pc \in {"stopping", "query"} /\ ~Asked(m))
           /\ ~(pc = "idle" /\ (m = 1 \/ ~given_up
                                  \/ result \in {"hit", "no_trigger", "comms_timeout"}))
           /\ Has(h2m[m], "start") /\ ~HeadIs(h2m[m], "start") => given_up /\ m # 1
<1>1. h2m[m] \in Seq(Commands) /\ given_up \in BOOLEAN /\ Answers(m) /\ Starts(m)
  BY DEF IInv, TypeOK, LinkTypes, HostTypes, Machine
<1>2. ~QuietIn(m) /\ ~Settled(m)
  BY <1>1, BareFacts DEF QuietIn, Settled
<1>3. Has(h2m[m], "start") /\ ~HeadIs(h2m[m], "start") => ~StartFirst(h2m[m])
  BY <1>1, StartFirstTail
<1> QED  BY <1>1, <1>2, <1>3 DEF Answers, Starts

\* The firmware of m takes a command that the shutdown state does not refuse.
Served(m) ==
    /\ h2m[m] # <<>> /\ h2m' = [h2m EXCEPT ![m] = Tail(@)]
    /\ SameHost /\ UNCHANGED <<lost, shutdowns>>

\* The cases of ProcessCommand.
LEMMA ProcessCases ==
    ASSUME IInv, NEW m \in Mcus, ProcessCommand(m)
    PROVE  LET c == h2m[m][1]
               ack == IF c.cmd = "query" THEN <<Ack>> ELSE <<>>
           IN  /\ Served(m)
               /\ \/ /\ is_shutdown[m] /\ m2h' = [m2h EXCEPT ![m] = @ \o (<<Shutdown>> \o ack)]
                     /\ UNCHANGED <<trsyncVars, is_shutdown, endstopVars>>
                  \/ ~HeadIs(h2m[m], "query") /\ DoShutdown(m)
                  \/ /\ ~is_shutdown[m]
                     /\ \/ c.cmd = "start" /\ ~(c.arg < now) /\ TrsyncStart(m, c.arg)
                        \/ c.cmd = "stop_on_trigger" /\ ~signals[m] /\ StopOnTrigger(m)
                        \/ /\ c.cmd = "set_timeout" /\ (can_trigger[m] => ~(c.arg < now))
                           /\ SetTimeout(m, c.arg)
                        \/ /\ m = 1 /\ c.cmd = "endstop_home" /\ ~(c.arg < now)
                           /\ EndstopHome(c.arg)
                        \/ m = 1 /\ c.cmd = "endstop_off" /\ EndstopOff
                        \/ c.cmd \in {"trigger", "query"} /\ TrsyncTrigger(m, c.arg, ack)
<1> DEFINE c == h2m[m][1]
           ack == IF c.cmd = "query" THEN <<Ack>> ELSE <<>>
<1>1. h2m[m] # <<>> /\ h2m[m] \in Seq(Commands) /\ Line(m)
  BY DEF ProcessCommand, IInv, TypeOK, LinkTypes, Machine
<1>2. Head(h2m[m]) = c /\ \A d : HeadIs(h2m[m], d) <=> c.cmd = d
  BY <1>1, TailFacts DEF HeadIs
<1>3. Served(m)
  BY <1>1 DEF Served, ProcessCommand, SameHost
<1>4. m # 1 => c.cmd # "endstop_home" /\ c.cmd # "endstop_off"
  BY <1>1, <1>2, HasTail DEF Line
<1> HIDE DEF ack
<1>5. CASE is_shutdown[m]
  <2>1. Send(m, <<Shutdown>> \o ack) /\ UNCHANGED <<trsyncVars, is_shutdown, endstopVars>>
    BY <1>2, <1>5 DEF ProcessCommand, ack
  <2> QED  BY <1>3, <1>5, <2>1 DEF Send, ack
<1>6. CASE ~is_shutdown[m] /\ c.cmd = "emergency_stop"
  <2>1. DoShutdown(m)
    BY <1>2, <1>6 DEF ProcessCommand
  <2> QED  BY <1>2, <1>3, <1>6, <2>1 DEF ack
<1>7. CASE ~is_shutdown[m] /\ c.cmd # "emergency_stop"
  <2>1. \/ c.cmd = "start" /\ TrsyncStart(m, c.arg)
        \/ c.cmd = "stop_on_trigger" /\ StopOnTrigger(m)
        \/ c.cmd = "set_timeout" /\ SetTimeout(m, c.arg)
        \/ c.cmd = "endstop_home" /\ EndstopHome(c.arg)
        \/ c.cmd = "endstop_off" /\ EndstopOff
        \/ c.cmd \in {"trigger", "query"} /\ TrsyncTrigger(m, c.arg, ack)
    BY <1>2, <1>7 DEF ProcessCommand, ack
  <2>2. CASE c.cmd = "start" /\ TrsyncStart(m, c.arg)
    BY <2>2, <1>2, <1>3, <1>7 DEF TrsyncStart, ack
  <2>3. CASE c.cmd = "stop_on_trigger" /\ StopOnTrigger(m)
    BY <2>3, <1>2, <1>3, <1>7 DEF StopOnTrigger, ack
  <2>4. CASE c.cmd = "set_timeout" /\ SetTimeout(m, c.arg)
    BY <2>4, <1>2, <1>3, <1>7 DEF SetTimeout, ack
  <2>5. CASE c.cmd = "endstop_home" /\ EndstopHome(c.arg)
    BY <2>5, <1>2, <1>3, <1>4, <1>7 DEF EndstopHome, ack
  <2>6. CASE c.cmd = "endstop_off" /\ EndstopOff
    BY <2>6, <1>3, <1>4, <1>7 DEF ack
  <2>7. CASE c.cmd \in {"trigger", "query"} /\ TrsyncTrigger(m, c.arg, ack)
    BY <2>7, <1>3, <1>7 DEF ack
  <2> QED  BY <2>1, <2>2, <2>3, <2>4, <2>5, <2>6, <2>7
<1> QED  BY <1>5, <1>6, <1>7

\* A command that is part of a move and has no answer.
LEMMA CommandKeeps ==
    ASSUME IInv, NEW m \in Mcus, Served(m), UNCHANGED <<is_shutdown, m2h>>, ~is_shutdown[m],
           ~HeadIs(h2m[m], "emergency_stop"), ~HeadIs(h2m[m], "query"),
           FirmwareTypes', \A k \in Mcus : k # m => SameFirmware(k),
           Firmware(m)', Line(m)', Endstop',
           \A k \in Mcus : k # m => expire_time'[m] <= Bound(k),
           \/ HeadIs(h2m[m], "start") /\ can_trigger'[m] /\ stopped_at'[m] = 0
           \/ /\ ~HeadIs(h2m[m], "start") /\ can_trigger'[m] = can_trigger[m]
              /\ trigger_reason'[m] = trigger_reason[m] /\ stopped_at'[m] = stopped_at[m]
    PROVE  IInv'
<1>1. TypeOK /\ Host /\ \A k \in Mcus : Machine(k)
  BY DEF IInv
<1>2. /\ Firmware(m) /\ Line(m) /\ Timed(m) /\ Clocks(m) /\ Answers(m) /\ Starts(m)
      /\ Completing(m) /\ Reported(m)
  BY <1>1 DEF Machine
<1>3. SameHost /\ n' = n /\ Mcus' = Mcus /\ now' = now /\ 1 \in Mcus
      /\ h2m[m] # <<>> /\ h2m' = [h2m EXCEPT ![m] = Tail(@)] /\ UNCHANGED <<lost, shutdowns>>
  BY <1>1, Basics DEF Served, SameHost, Mcus
<1>4. /\ Asked(m)' = Asked(m) /\ Current(m)' = Current(m)
      /\ pc' = pc /\ result' = result /\ given_up' = given_up /\ last_params' = last_params
      /\ print_time' = print_time /\ reasons' = reasons
  BY <1>3 DEF Asked, Current, SameHost, moveVars, stateVars
<1>5. /\ ~QuietIn(m) /\ ~HasKind(m2h[m], "ack")
      /\ ~(pc \in {"stopping", "query"} /\ ~Asked(m))
      /\ ~(pc = "idle" /\ (m = 1 \/ ~given_up
                             \/ result \in {"hit", "no_trigger", "comms_timeout"}))
      /\ Has(h2m[m], "start") /\ ~HeadIs(h2m[m], "start") => given_up /\ m # 1
  BY <1>3, CommandOfMove
<1>6. /\ \A c : Has(h2m[m], c) <=> HeadIs(h2m[m], c) \/ Has(h2m'[m], c)
      /\ QueryLast(h2m'[m]) /\ h2m' \in [Mcus -> Seq(Commands)]
      /\ \A k \in Mcus : k # m => h2m'[k] = h2m[k]
  BY <1>3, CommandTaken
<1>7. TypeOK'
  <2>1. LinkTypes'
    BY <1>1, <1>3, <1>6 DEF TypeOK, LinkTypes
  <2> QED  BY <1>1, <1>3, <2>1, SameHostTypes
<1>8. \A k \in Mcus : k # m => SameFirmware(k) /\ SameLine(k)
  BY <1>6 DEF SameLine
<1>9. Answers(m)'
  BY <1>2, <1>4, <1>5, <1>6 DEF Answers
<1>10. Starts(m)'
  <2>1. CASE HeadIs(h2m[m], "start")
    <3>1. StartFirst(h2m[m]) => ~Has(h2m'[m], "start")
      BY <1>3, CommandArgs
    <3>2. Has(h2m[m], "start")
      BY <1>6, <2>1
    <3>3. given_up \in BOOLEAN
      BY <1>1 DEF TypeOK, HostTypes
    <3>4. Has(h2m'[m], "start") => given_up /\ m # 1
      BY <1>2, <3>1, <3>2, <3>3 DEF Starts
    <3> QED  BY <3>4, <1>4 DEF Starts
  <2>2. CASE ~HeadIs(h2m[m], "start")
    BY <2>2, <1>4, <1>5, <1>6 DEF Starts
  <2> QED  BY <2>1, <2>2
<1>11. HeadIs(h2m[m], "start") /\ (~given_up \/ m = 1)
         => /\ Drained(m2h[m]) /\ stopped_at[m] = 0
            /\ Current(m) => last_params = NoParams
  BY <1>2, <1>6 DEF Starts
<1>12. m2h[m] \in Seq(Messages)
  BY <1>1 DEF TypeOK, LinkTypes
<1>13. Drained(m2h[m]) => ~HasFalse(m2h[m]) /\ \A r : ReasonsAre(m2h[m], r)
  BY <1>12, MessagesPlain
<1>14. Completing(m)'
  BY <1>2, <1>4, <1>6, <1>11, <1>13 DEF Completing, Stopped
<1>15. Stopped(m) /\ ~given_up => Stopped(m)'
  BY <1>11 DEF Stopped
<1>16. Reported(m)'
  BY <1>2, <1>4, <1>11, <1>13 DEF Reported
<1>17. Limit(m) <= Limit(m)' /\ ClocksBelow(m2h'[m], Limit(m)')
  <2>1. stopped_at'[m] = 0 \/ stopped_at'[m] = stopped_at[m]
    OBVIOUS
  <2>2. Limit(m) \in Nat /\ Limit(m)' \in Nat /\ Limit(m) <= Limit(m)'
    <3>1. stopped_at[m] \in Nat /\ now \in Nat
      BY <1>1 DEF TypeOK, FirmwareTypes
    <3> QED  BY <1>2, <1>3, <2>1, <3>1 DEF Limit, Firmware
  <2>3. Limit(m) \in Int /\ Limit(m)' \in Int /\ ClocksBelow(m2h[m], Limit(m))
    BY <1>2, <2>2 DEF Clocks
  <2>4. ClocksBelow(m2h[m], Limit(m)')
    BY <1>12, <2>2, <2>3, MessagesPlain
  <2> QED  BY <2>2, <2>4
<1>18. \A k \in Mcus : k # m => AtMost(h2m'[m], Bound(k)) /\ expire_time'[m] <= Bound(k)
  BY <1>3, CommandArgs
<1>19. Judged'
  <2>1. CASE m = 1
    BY <2>1, <1>4, <1>5 DEF Judged
  <2>2. CASE m # 1
    <3>1. trigger_reason'[1] = trigger_reason[1] /\ is_shutdown'[1] = is_shutdown[1]
      BY <2>2, <1>3, <1>8 DEF SameFirmware
    <3>2. Asked(1)' = Asked(1)
      BY <1>3 DEF Asked, SameHost, moveVars
    <3> QED  BY <3>1, <3>2, <1>1, <1>4 DEF Host, Judged
  <2> QED  BY <2>1, <2>2
<1> QED  BY <1>3, <1>7, <1>8, <1>9, <1>10, <1>14, <1>15, <1>16, <1>17, <1>18, <1>19,
            FirmwareAction

\* The endstop's commands reach it in their order, whatever micro-controller takes one.
LEMMA EndstopServed ==
    ASSUME IInv, NEW m \in Mcus, Served(m), 1 \in Mcus,
           \/ endstop_time' = endstop_time /\ (m = 1 => ~HeadIs(h2m[m], "endstop_off"))
           \/ m = 1 /\ endstop_time' = 0
           \/ m = 1 /\ HeadIs(h2m[m], "endstop_home")
    PROVE  Endstop'
<1>1. Endstop /\ Starts(m)
  BY DEF IInv, Host, Machine
<1>2. /\ n' = n /\ h2m[m] # <<>> /\ h2m' = [h2m EXCEPT ![m] = Tail(@)]
      /\ pc' = pc /\ print_time' = print_time
  BY DEF Served, SameHost, moveVars
<1>3. CASE m # 1
  <2>1. h2m'[1] = h2m[1]
    BY <1>2, <1>3, CommandTaken
  <2> QED  BY <2>1, <1>1, <1>2, <1>3 DEF Endstop
<1>4. CASE m = 1
  <2>1. /\ \A c : Has(h2m[1], c) <=> HeadIs(h2m[1], c) \/ Has(h2m'[1], c)
        /\ HeadIs(h2m'[1], "stop_on_trigger") => HeadIs(h2m[1], "start")
        /\ HeadIs(h2m[1], "endstop_home") =>
             ~HeadIs(h2m[1], "start") /\ ~HeadIs(h2m[1], "endstop_off")
    BY <1>2, <1>4, CommandTaken
  <2>2. /\ ArgIs(h2m'[1], "endstop_home", print_time)
        /\ OffAfter(h2m[1]) =>
             \/ OffAfter(h2m'[1])
             \/ HeadIs(h2m[1], "endstop_off") /\ ~Has(h2m'[1], "endstop_home")
    BY <1>1, <1>2, <1>4, CommandArgs DEF Endstop
  <2>3. HeadIs(h2m[1], "start") => endstop_time = 0
    BY <1>1, <1>4, <2>1 DEF Starts
  <2> QED  BY <1>1, <1>2, <1>4, <2>1, <2>2, <2>3 DEF Endstop
<1> QED  BY <1>3, <1>4

\* command_trsync_start()
LEMMA TrsyncStartKeeps ==
    ASSUME IInv, NEW m \in Mcus, Served(m), ~is_shutdown[m], HeadIs(h2m[m], "start"),
           ~(h2m[m][1].arg < now), TrsyncStart(m, h2m[m][1].arg)
    PROVE  IInv'
<1> DEFINE a == h2m[m][1].arg
<1>1. TypeOK /\ Firmware(m) /\ Line(m) /\ Timed(m) /\ 1 \in Mcus
  BY Basics DEF IInv, Machine
<1>2. n' = n /\ Mcus' = Mcus /\ now' = now /\ h2m[m] # <<>>
      /\ h2m' = [h2m EXCEPT ![m] = Tail(@)]
  BY DEF Served, SameHost, Mcus
<1>3. a \in Nat /\ ~HeadIs(h2m[m], "emergency_stop") /\ ~HeadIs(h2m[m], "query")
      /\ ~HeadIs(h2m[m], "endstop_off")
  BY <1>2, CommandTaken DEF Commands
<1>4. /\ can_trigger' = [can_trigger EXCEPT ![m] = TRUE]
      /\ report' = [report EXCEPT ![m] = FALSE]
      /\ trigger_reason' = [trigger_reason EXCEPT ![m] = 0]
      /\ report_time' = [report_time EXCEPT ![m] = a]
      /\ expire_time' = [expire_time EXCEPT ![m] = 0]
      /\ signals' = [signals EXCEPT ![m] = FALSE]
      /\ stopped_at' = [stopped_at EXCEPT ![m] = 0]
      /\ UNCHANGED <<moving, is_shutdown, endstop_time, trigger_count, m2h>>
  BY DEF TrsyncStart, endstopVars
<1> HIDE DEF a
<1>5. FirmwareTypes
  BY <1>1 DEF TypeOK
<1>6. FirmwareTypes' /\ \A k \in Mcus : k # m => SameFirmware(k)
  BY <1>2, <1>3, <1>4, <1>5 DEF FirmwareTypes, SameFirmware
<1>7. can_trigger'[m] /\ stopped_at'[m] = 0 /\ expire_time'[m] = 0 /\ ~signals'[m]
      /\ trigger_reason'[m] = 0
  BY <1>4, <1>5 DEF FirmwareTypes
<1>8. Firmware(m)'
  BY <1>1, <1>4, <1>7 DEF Firmware
<1>9. Line(m)'
  <2>1. /\ HostReasons(h2m'[m]) /\ Framed(h2m'[m]) /\ HeadIs(h2m'[m], "stop_on_trigger")
        /\ \A c : Has(h2m'[m], c) => Has(h2m[m], c)
    BY <1>2, CommandTaken
  <2> QED  BY <2>1, <1>1, <1>7 DEF Line
<1>10. Endstop'
  BY <1>1, <1>3, <1>4, EndstopServed
<1>11. \A k \in Mcus : k # m => expire_time'[m] <= Bound(k)
  <2>1. \A k \in Mcus : Bound(k) \in Nat
    BY <1>1, LimitTypes
  <2> QED  BY <2>1, <1>7
<1> QED  BY <1>3, <1>4, <1>6, <1>7, <1>8, <1>9, <1>10, <1>11, CommandKeeps

\* command_stepper_stop_on_trigger()
LEMMA StopOnTriggerKeeps ==
    ASSUME IInv, NEW m \in Mcus, Served(m), ~is_shutdown[m],
           HeadIs(h2m[m], "stop_on_trigger"), ~signals[m], StopOnTrigger(m)
    PROVE  IInv'
<1>1. TypeOK /\ Firmware(m) /\ Line(m) /\ Timed(m) /\ 1 \in Mcus
  BY Basics DEF IInv, Machine
<1>2. n' = n /\ Mcus' = Mcus /\ now' = now /\ h2m[m] # <<>>
      /\ h2m' = [h2m EXCEPT ![m] = Tail(@)]
  BY DEF Served, SameHost, Mcus
<1>3. ~HeadIs(h2m[m], "emergency_stop") /\ ~HeadIs(h2m[m], "query")
      /\ ~HeadIs(h2m[m], "endstop_off") /\ ~HeadIs(h2m[m], "start")
  BY <1>2, CommandTaken
<1>4. /\ signals' = [signals EXCEPT ![m] = TRUE] /\ moving' = [moving EXCEPT ![m] = TRUE]
      /\ UNCHANGED <<can_trigger, report, trigger_reason, report_time, expire_time,
                     stopped_at, is_shutdown, endstop_time, trigger_count, m2h>>
  BY DEF StopOnTrigger, endstopVars
<1>5. FirmwareTypes
  BY <1>1 DEF TypeOK
<1>6. FirmwareTypes' /\ \A k \in Mcus : k # m => SameFirmware(k)
  BY <1>2, <1>4, <1>5 DEF FirmwareTypes, SameFirmware
<1>7. can_trigger[m] /\ signals'[m]
  BY <1>1, <1>4, <1>5 DEF Line, FirmwareTypes
<1>8. Firmware(m)'
  BY <1>1, <1>2, <1>4, <1>7 DEF Firmware
<1>9. Line(m)'
  <2>1. /\ HostReasons(h2m'[m]) /\ Framed(h2m'[m]) /\ HeadIs(h2m'[m], "set_timeout")
        /\ ~HeadIs(h2m'[m], "stop_on_trigger")
        /\ \A c : Has(h2m'[m], c) => Has(h2m[m], c)
    BY <1>2, <1>3, CommandTaken
  <2> QED  BY <2>1, <1>1, <1>7 DEF Line
<1>10. Endstop'
  BY <1>1, <1>3, <1>4, EndstopServed
<1>11. \A k \in Mcus : k # m => expire_time'[m] <= Bound(k)
  BY <1>1, <1>4 DEF Timed
<1> QED  BY <1>3, <1>4, <1>6, <1>8, <1>9, <1>10, <1>11, CommandKeeps

\* command_trsync_set_timeout()
LEMMA SetTimeoutKeeps ==
    ASSUME IInv, NEW m \in Mcus, Served(m), ~is_shutdown[m],
           HeadIs(h2m[m], "set_timeout"), can_trigger[m] => ~(h2m[m][1].arg < now),
           SetTimeout(m, h2m[m][1].arg)
    PROVE  IInv'
<1> DEFINE a == h2m[m][1].arg
<1>1. TypeOK /\ Firmware(m) /\ Line(m) /\ Timed(m) /\ 1 \in Mcus /\ now \in Nat /\ now # 0
  BY Basics DEF IInv, Machine, TypeOK, Host
<1>2. n' = n /\ Mcus' = Mcus /\ now' = now /\ h2m[m] # <<>>
      /\ h2m' = [h2m EXCEPT ![m] = Tail(@)]
  BY DEF Served, SameHost, Mcus
<1>3. ~HeadIs(h2m[m], "emergency_stop") /\ ~HeadIs(h2m[m], "query")
      /\ ~HeadIs(h2m[m], "endstop_off") /\ ~HeadIs(h2m[m], "start")
      /\ ~HeadIs(h2m[m], "stop_on_trigger") /\ a \in Nat
  BY <1>2, CommandTaken DEF Commands
<1>4. /\ UNCHANGED <<can_trigger, report, trigger_reason, report_time, signals, moving,
                     stopped_at, is_shutdown, endstop_time, trigger_count, m2h>>
      /\ expire_time' = IF can_trigger[m] THEN [expire_time EXCEPT ![m] = a] ELSE expire_time
  BY DEF SetTimeout, trsyncVars, endstopVars
<1>5. can_trigger[m] => ~(a < now)
  OBVIOUS
<1> HIDE DEF a
<1>6. FirmwareTypes
  BY <1>1 DEF TypeOK
<1>7. FirmwareTypes' /\ \A k \in Mcus : k # m => SameFirmware(k)
  <2>1. expire_time' \in [Mcus -> Nat] /\ \A k \in Mcus : k # m => expire_time'[k] = expire_time[k]
    BY <1>3, <1>4, <1>6 DEF FirmwareTypes
  <2> QED  BY <2>1, <1>2, <1>4, <1>6 DEF FirmwareTypes, SameFirmware
<1>8. expire_time'[m] = IF can_trigger[m] THEN a ELSE expire_time[m]
  BY <1>4, <1>6 DEF FirmwareTypes
<1>9. Off(m) => Off(m)'
  BY <1>4, <1>8 DEF Off
<1>10. Firmware(m)'
  BY <1>1, <1>2, <1>3, <1>4, <1>5, <1>8, <1>9 DEF Firmware
<1>11. Line(m)'
  <2>1. /\ HostReasons(h2m'[m]) /\ Framed(h2m'[m]) /\ ~HeadIs(h2m'[m], "stop_on_trigger")
        /\ \A c : Has(h2m'[m], c) => Has(h2m[m], c)
    BY <1>2, <1>3, CommandTaken
  <2>2. can_trigger[m] => expire_time'[m] # 0
    BY <1>1, <1>3, <1>5, <1>8
  <2> QED  BY <2>1, <2>2, <1>1, <1>3, <1>4 DEF Line
<1>12. Endstop'
  BY <1>1, <1>3, <1>4, EndstopServed
<1>13. \A k \in Mcus : k # m => expire_time'[m] <= Bound(k)
  BY <1>1, <1>2, <1>8, CommandArgs DEF Timed, a
<1> QED  BY <1>3, <1>4, <1>7, <1>10, <1>11, <1>12, <1>13, CommandKeeps

\* command_endstop_home(), to check the endstop and to stop it.
LEMMA EndstopCommandKeeps ==
    ASSUME IInv, Served(1), ~is_shutdown[1],
           \/ /\ HeadIs(h2m[1], "endstop_home") /\ ~(h2m[1][1].arg < now)
              /\ EndstopHome(h2m[1][1].arg)
           \/ HeadIs(h2m[1], "endstop_off") /\ EndstopOff
    PROVE  IInv'
<1> DEFINE a == h2m[1][1].arg
<1>1. 1 \in Mcus
  BY Basics DEF IInv
<1>2. TypeOK /\ Firmware(1) /\ Line(1) /\ Timed(1) /\ SampleCount[n] \in Nat
  BY <1>1, Basics DEF IInv, Machine
<1>3. n' = n /\ Mcus' = Mcus /\ now' = now /\ h2m[1] # <<>>
      /\ h2m' = [h2m EXCEPT ![1] = Tail(@)]
  BY DEF Served, SameHost, Mcus
<1>4. ~HeadIs(h2m[1], "emergency_stop") /\ ~HeadIs(h2m[1], "query")
      /\ ~HeadIs(h2m[1], "start") /\ ~HeadIs(h2m[1], "set_timeout")
      /\ ~HeadIs(h2m[1], "stop_on_trigger") /\ a \in Nat
  BY <1>1, <1>3, CommandTaken DEF Commands
<1>5. /\ UNCHANGED <<can_trigger, report, trigger_reason, report_time, expire_time, signals,
                     moving, stopped_at, is_shutdown, m2h>>
      /\ \/ endstop_time' = a /\ trigger_count' = SampleCount[n] /\ HeadIs(h2m[1], "endstop_home")
         \/ endstop_time' = 0 /\ trigger_count' = trigger_count
  BY DEF EndstopHome, EndstopOff, trsyncVars
<1> HIDE DEF a
<1>6. FirmwareTypes' /\ \A k \in Mcus : k # 1 => SameFirmware(k)
  <2>1. FirmwareTypes
    BY <1>2 DEF TypeOK
  <2>2. endstop_time' \in Nat /\ trigger_count' \in 0..SampleCount[n]
    BY <2>1, <1>2, <1>4, <1>5 DEF FirmwareTypes
  <2> QED  BY <2>1, <2>2, <1>3, <1>5 DEF FirmwareTypes, SameFirmware
<1>7. Firmware(1)'
  BY <1>2, <1>3, <1>5 DEF Firmware
<1>8. Line(1)'
  <2>1. /\ HostReasons(h2m'[1]) /\ Framed(h2m'[1]) /\ ~HeadIs(h2m'[1], "stop_on_trigger")
    BY <1>1, <1>3, <1>4, CommandTaken
  <2> QED  BY <2>1, <1>2, <1>4, <1>5 DEF Line
<1>9. Endstop'
  BY <1>1, <1>5, EndstopServed
<1>10. \A k \in Mcus : k # 1 => expire_time'[1] <= Bound(k)
  BY <1>2, <1>5 DEF Timed
<1> QED  BY <1>1, <1>4, <1>5, <1>6, <1>7, <1>8, <1>9, <1>10, CommandKeeps

\* An answer, and the acknowledgement behind it that a query has.
LEMMA AnswerFacts ==
    ASSUME NEW x \in Messages, x.kind # "ack", NEW asked \in BOOLEAN,
           NEW t, t = <<x>> \o (IF asked THEN <<Ack>> ELSE <<>>)
    PROVE  /\ t \in Seq(Messages) /\ AckLast(t)
           /\ \A k : HasKind(t, k) <=> k = x.kind \/ (asked /\ k = "ack")
           /\ Drained(t) <=> x.kind = "shutdown" /\ ~asked
           /\ HasFalse(t) <=> x.kind = "state" /\ ~x.can
           /\ \A r : ReasonsAre(t, r) <=> (x.kind = "state" /\ ~x.can => x.reason = r)
           /\ \A b : ClocksBelow(t, b) <=>
                (x.kind = "state" /\ x.can => x.clock <= b /\ x.reason = 0)
<1>1. Ack \in Messages /\ Ack.kind = "ack"
  BY DEF Ack, Messages
<1>2. CASE ~asked
  <2>1. t = <<x>>
    BY <1>2
  <2> QED  BY <1>2, <2>1, OneMessage
<1>3. CASE asked
  <2> DEFINE s == <<x>>
             u == <<Ack>>
  <2>1. s \in Seq(Messages) /\ u \in Seq(Messages) /\ t = s \o u
    BY <1>1, <1>3
  <2>2. /\ \A k : HasKind(s, k) <=> x.kind = k
        /\ Drained(s) <=> x.kind = "shutdown"
        /\ HasFalse(s) <=> x.kind = "state" /\ ~x.can
        /\ \A r : ReasonsAre(s, r) <=> (x.kind = "state" /\ ~x.can => x.reason = r)
        /\ \A b : ClocksBelow(s, b) <=>
             (x.kind = "state" /\ x.can => x.clock <= b /\ x.reason = 0)
        /\ AckLast(s)
    BY OneMessage
  <2>3. /\ \A k : HasKind(u, k) <=> k = "ack"
        /\ ~Drained(u) /\ ~HasFalse(u) /\ AckLast(u)
        /\ \A r : ReasonsAre(u, r)
        /\ \A b : ClocksBelow(u, b)
    BY <1>1, OneMessage
  <2> HIDE DEF s, u
  <2>4. AckLast(t)
    BY <2>1, <2>2, <2>3, AckLastCat
  <2> QED  BY <2>1, <2>2, <2>3, <2>4, <1>3, MessagesCat
<1> QED  BY <1>2, <1>3

\* command_trsync_trigger(): the trsync is disabled and its answer on the way.
LEMMA TrsyncTriggerKeeps ==
    ASSUME IInv, NEW m \in Mcus, Served(m), ~is_shutdown[m],
           HeadIs(h2m[m], "trigger") \/ HeadIs(h2m[m], "query"),
           TrsyncTrigger(m, h2m[m][1].arg,
                         IF h2m[m][1].cmd = "query" THEN <<Ack>> ELSE <<>>)
    PROVE  IInv'
<1> DEFINE a == h2m[m][1].arg
           q == h2m[m][1].cmd = "query"
           r == IF can_trigger[m] THEN a ELSE trigger_reason[m]
           x == State(FALSE, r, 0)
           t == <<x>> \o (IF q THEN <<Ack>> ELSE <<>>)
<1>1. TypeOK /\ Host /\ \A k \in Mcus : Machine(k)
  BY DEF IInv
<1>2. /\ Firmware(m) /\ Line(m) /\ Timed(m) /\ Clocks(m) /\ Answers(m) /\ Starts(m)
      /\ Completing(m) /\ Reported(m)
  BY <1>1 DEF Machine
<1>3. SameHost /\ n' = n /\ Mcus' = Mcus /\ now' = now /\ 1 \in Mcus /\ now \in Nat /\ now # 0
      /\ h2m[m] # <<>> /\ h2m' = [h2m EXCEPT ![m] = Tail(@)] /\ UNCHANGED <<lost, shutdowns>>
  BY <1>1, Basics DEF Served, SameHost, Mcus, TypeOK, Host
<1>4. FirmwareTypes /\ LinkTypes
  BY <1>1 DEF TypeOK
<1>5. /\ a \in {2, 3} /\ ~HeadIs(h2m[m], "emergency_stop") /\ ~HeadIs(h2m[m], "start")
      /\ ~HeadIs(h2m[m], "set_timeout") /\ ~HeadIs(h2m[m], "stop_on_trigger")
      /\ ~HeadIs(h2m[m], "endstop_off") /\ ~HeadIs(h2m[m], "endstop_home")
      /\ HeadIs(h2m[m], "query") <=> q
  BY <1>3, CommandTaken
<1>6. r \in 0..4 /\ q \in BOOLEAN
  BY <1>4, <1>5 DEF FirmwareTypes
<1>7. /\ trigger_reason' = [trigger_reason EXCEPT ![m] = r]
      /\ can_trigger' = [can_trigger EXCEPT ![m] = FALSE]
      /\ report' = [report EXCEPT ![m] = FALSE]
      /\ report_time' = [report_time EXCEPT ![m] = 0]
      /\ expire_time' = [expire_time EXCEPT ![m] = 0]
      /\ moving' = [moving EXCEPT ![m] = moving[m] /\ ~(can_trigger[m] /\ signals[m])]
      /\ signals' = [signals EXCEPT ![m] = signals[m] /\ ~can_trigger[m]]
      /\ stopped_at' = [stopped_at EXCEPT ![m] =
                          IF can_trigger[m] THEN now ELSE stopped_at[m]]
      /\ UNCHANGED <<is_shutdown, endstop_time, trigger_count>>
  BY DEF TrsyncTrigger, endstopVars
<1>8. m2h' = [m2h EXCEPT ![m] = m2h[m] \o t]
  <2>1. trigger_reason'[m] = r
    BY <1>4, <1>7 DEF FirmwareTypes
  <2> QED  BY <2>1 DEF TrsyncTrigger, Send
<1>9. x \in Messages /\ x.kind = "state" /\ ~x.can /\ x.reason = r
  BY <1>6 DEF State, Messages
<1>10. /\ t \in Seq(Messages) /\ AckLast(t) /\ HasFalse(t)
       /\ \A k : HasKind(t, k) <=> k = "state" \/ (q /\ k = "ack")
       /\ \A s : ReasonsAre(t, s) <=> r = s
       /\ \A b : ClocksBelow(t, b)
  <2> HIDE DEF x, q
  <2> QED  BY <1>6, <1>9, AnswerFacts
<1> HIDE DEF a, q, r, x, t
<1>11. /\ ~QuietIn(m) /\ ~HasKind(m2h[m], "ack")
       /\ ~(pc \in {"stopping", "query"} /\ ~Asked(m))
       /\ ~(pc = "idle" /\ (m = 1 \/ ~given_up
                              \/ result \in {"hit", "no_trigger", "comms_timeout"}))
       /\ Has(h2m[m], "start") => given_up /\ m # 1
  BY <1>3, <1>5, CommandOfMove
<1>12. m2h[m] \in Seq(Messages) /\ m2h'[m] = m2h[m] \o t
  BY <1>4, <1>8 DEF LinkTypes
<1>13. /\ m2h'[m] \in Seq(Messages) /\ HasFalse(m2h'[m])
       /\ \A k : HasKind(m2h'[m], k) <=> HasKind(m2h[m], k) \/ k = "state" \/ (q /\ k = "ack")
       /\ \A s : ReasonsAre(m2h'[m], s) <=> ReasonsAre(m2h[m], s) /\ r = s
       /\ \A b : ClocksBelow(m2h'[m], b) <=> ClocksBelow(m2h[m], b)
  BY <1>10, <1>12, MessagesCat
<1>14. AckLast(m2h'[m])
  BY <1>2, <1>10, <1>11, <1>12, AckLastCat DEF Answers
<1>15. /\ \A c : Has(h2m[m], c) <=> HeadIs(h2m[m], c) \/ Has(h2m'[m], c)
       /\ HostReasons(h2m'[m]) /\ Framed(h2m'[m]) /\ QueryLast(h2m'[m])
       /\ q => Bare(h2m'[m])
       /\ ~HeadIs(h2m'[m], "stop_on_trigger")
       /\ h2m'[m] \in Seq(Commands) /\ h2m' \in [Mcus -> Seq(Commands)]
       /\ \A k \in Mcus : k # m => h2m'[k] = h2m[k]
  BY <1>3, <1>5, CommandTaken
<1>16. /\ ~can_trigger'[m] /\ trigger_reason'[m] = r /\ ~report'[m] /\ report_time'[m] = 0
       /\ expire_time'[m] = 0 /\ ~signals'[m] /\ ~moving'[m] /\ ~is_shutdown'[m]
       /\ stopped_at'[m] = (IF can_trigger[m] THEN now ELSE stopped_at[m]) /\ Off(m)'
  <2>1. can_trigger[m] => signals[m]
    BY <1>2, <1>5 DEF Line
  <2>2. moving[m] \/ signals[m] => can_trigger[m]
    BY <1>2 DEF Firmware
  <2>3. ~signals'[m] /\ ~moving'[m]
    BY <2>1, <2>2, <1>4, <1>7 DEF FirmwareTypes
  <2> QED  BY <2>3, <1>4, <1>7 DEF FirmwareTypes, Off
<1>17. FirmwareTypes' /\ LinkTypes'
  <2>1. moving' \in [Mcus -> BOOLEAN] /\ signals' \in [Mcus -> BOOLEAN]
    BY <1>4, <1>7 DEF FirmwareTypes
  <2>2. trigger_reason' \in [Mcus -> 0..4] /\ stopped_at' \in [Mcus -> Nat]
    BY <1>3, <1>4, <1>6, <1>7 DEF FirmwareTypes
  <2>3. /\ can_trigger' \in [Mcus -> BOOLEAN] /\ report' \in [Mcus -> BOOLEAN]
        /\ report_time' \in [Mcus -> Nat] /\ expire_time' \in [Mcus -> Nat]
    BY <1>4, <1>7 DEF FirmwareTypes
  <2>4. FirmwareTypes'
    BY <2>1, <2>2, <2>3, <1>3, <1>4, <1>7 DEF FirmwareTypes
  <2>5. m2h' \in [Mcus -> Seq(Messages)]
    <3>1. m2h[m] \o t \in Seq(Messages)
      BY <1>12, <1>13
    <3> QED  BY <3>1, <1>4, <1>8 DEF LinkTypes
  <2> QED  BY <2>4, <2>5, <1>3, <1>4, <1>15 DEF LinkTypes
<1>18. TypeOK'
  BY <1>1, <1>3, <1>17, SameHostTypes
<1>19. \A k \in Mcus : k # m => SameFirmware(k) /\ SameLine(k)
  <2>1. \A k \in Mcus : k # m => SameFirmware(k)
    BY <1>4, <1>7 DEF FirmwareTypes, SameFirmware
  <2>2. \A k \in Mcus : k # m => m2h'[k] = m2h[k]
    BY <1>4, <1>8 DEF LinkTypes
  <2> QED  BY <2>1, <2>2, <1>15 DEF SameLine
<1>20. /\ Asked(m)' = Asked(m) /\ Current(m)' = Current(m)
       /\ pc' = pc /\ result' = result /\ given_up' = given_up /\ last_params' = last_params
       /\ print_time' = print_time /\ reasons' = reasons
  BY <1>3 DEF Asked, Current, SameHost, moveVars, stateVars
<1>21. Firmware(m)'
  BY <1>2, <1>3, <1>13, <1>16 DEF Firmware
<1>22. Line(m)'
  BY <1>2, <1>15, <1>16 DEF Line
<1>23. q => QuietIn(m)'
  <2>1. ASSUME q, m = 1 PROVE endstop_time = 0
    <3>1. pc = "query"
      BY <2>1, <1>2, <1>5, <1>15 DEF Answers, Current
    <3>2. ~OffAfter(h2m[1])
      <4>1. ~Has(h2m'[m], "endstop_off")
        BY <2>1, <1>15, BareFacts
      <4>2. ~Has(h2m[m], "endstop_off")
        BY <4>1, <1>5, <1>15
      <4>3. h2m[m] \in Seq(Commands)
        BY <1>4 DEF LinkTypes
      <4> QED  BY <2>1, <4>2, <4>3, <1>3, OffAfterTail
    <3> QED  BY <3>1, <3>2, <1>1 DEF Host, Endstop
  <2> QED  BY <2>1, <1>7, <1>15, <1>16 DEF QuietIn, Asleep
<1>24. Answers(m)'
  <2>1. q => ~Has(h2m'[m], "query")
    BY <1>15, BareFacts
  <2> QED  BY <2>1, <1>2, <1>5, <1>11, <1>13, <1>14, <1>15, <1>20, <1>23 DEF Answers
<1>25. Starts(m)'
  BY <1>2, <1>11, <1>15, <1>20 DEF Starts
<1>26. Completing(m)' /\ (Stopped(m) => Stopped(m)')
  <2>1. Stopped(m) => Stopped(m)'
    BY <1>3, <1>7, <1>16 DEF Stopped
  <2>2. can_trigger[m] => Stopped(m)'
    BY <1>3, <1>16 DEF Stopped
  <2> QED  BY <2>1, <2>2, <1>2, <1>11, <1>20 DEF Completing
<1>27. Reported(m)'
  <2>1. ~HasFalse(m2h[m]) => ReasonsAre(m2h[m], r)
    BY <1>12, MessagesPlain
  <2>2. ~can_trigger[m] => r = trigger_reason[m]
    BY DEF r
  <2> QED  BY <2>1, <2>2, <1>2, <1>13, <1>16, <1>20 DEF Reported
<1>28. Limit(m) <= Limit(m)' /\ ClocksBelow(m2h'[m], Limit(m)')
  <2>1. Limit(m)' = Limit(m) /\ Limit(m) \in Nat
    BY <1>1, <1>2, <1>3, <1>16, LimitTypes DEF Limit, Firmware
  <2> QED  BY <1>2, <1>13, <2>1 DEF Clocks
<1>29. \A k \in Mcus : k # m => AtMost(h2m'[m], Bound(k)) /\ expire_time'[m] <= Bound(k)
  <2>1. \A k \in Mcus : Bound(k) \in Nat
    BY <1>1, LimitTypes
  <2>2. \A k \in Mcus : k # m => AtMost(h2m'[m], Bound(k))
    BY <1>3, CommandArgs
  <2> QED  BY <2>1, <2>2, <1>16
<1>30. Endstop'
  BY <1>3, <1>5, <1>7, EndstopServed
<1>31. Judged'
  <2>1. CASE m = 1
    BY <2>1, <1>11, <1>20 DEF Judged
  <2>2. CASE m # 1
    <3>1. trigger_reason'[1] = trigger_reason[1] /\ is_shutdown'[1] = is_shutdown[1]
      BY <2>2, <1>3, <1>19 DEF SameFirmware
    <3>2. Asked(1)' = Asked(1)
      BY <1>3 DEF Asked, SameHost, moveVars
    <3> QED  BY <3>1, <3>2, <1>1, <1>20 DEF Host, Judged
  <2> QED  BY <2>1, <2>2
<1> QED  BY <1>3, <1>18, <1>19, <1>21, <1>22, <1>24, <1>25, <1>26, <1>27, <1>28, <1>29,
            <1>30, <1>31, FirmwareAction

\* A firmware that is shut down refuses every command, and acknowledges a query.
LEMMA RefusalKeeps ==
    ASSUME IInv, NEW m \in Mcus, Served(m), is_shutdown[m],
           UNCHANGED <<trsyncVars, is_shutdown, endstopVars>>,
           m2h' = [m2h EXCEPT ![m] = @ \o (<<Shutdown>> \o
                     (IF h2m[m][1].cmd = "query" THEN <<Ack>> ELSE <<>>))]
    PROVE  IInv'
<1> DEFINE q == h2m[m][1].cmd = "query"
           t == <<Shutdown>> \o (IF q THEN <<Ack>> ELSE <<>>)
<1>1. TypeOK /\ Host /\ \A k \in Mcus : Machine(k)
  BY DEF IInv
<1>2. /\ Firmware(m) /\ Line(m) /\ Timed(m) /\ Clocks(m) /\ Answers(m) /\ Starts(m)
      /\ Completing(m) /\ Reported(m)
  BY <1>1 DEF Machine
<1>3. SameHost /\ n' = n /\ Mcus' = Mcus /\ now' = now /\ 1 \in Mcus
      /\ h2m[m] # <<>> /\ h2m' = [h2m EXCEPT ![m] = Tail(@)] /\ UNCHANGED <<lost, shutdowns>>
  BY <1>1, Basics DEF Served, SameHost, Mcus
<1>4. FirmwareTypes /\ LinkTypes
  BY <1>1 DEF TypeOK
<1>5. UNCHANGED <<can_trigger, report, trigger_reason, report_time, expire_time, signals,
                  moving, stopped_at, is_shutdown, endstop_time, trigger_count>>
  BY DEF trsyncVars, endstopVars
<1>6. q \in BOOLEAN /\ Shutdown \in Messages /\ Shutdown.kind = "shutdown"
  BY DEF Shutdown, Messages
<1>7. /\ t \in Seq(Messages) /\ AckLast(t) /\ ~HasFalse(t)
      /\ \A k : HasKind(t, k) <=> k = "shutdown" \/ (q /\ k = "ack")
      /\ Drained(t) <=> ~q
      /\ \A b : ClocksBelow(t, b)
  <2> HIDE DEF q
  <2> QED  BY <1>6, AnswerFacts
<1>8. m2h' = [m2h EXCEPT ![m] = m2h[m] \o t]
  OBVIOUS
<1>9. /\ \A c : Has(h2m[m], c) <=> HeadIs(h2m[m], c) \/ Has(h2m'[m], c)
      /\ HostReasons(h2m'[m]) /\ Framed(h2m'[m]) /\ QueryLast(h2m'[m])
      /\ Bare(h2m[m]) => Bare(h2m'[m]) /\ HeadIs(h2m[m], "emergency_stop")
      /\ HeadIs(h2m[m], "query") <=> q
      /\ q => Bare(h2m'[m]) /\ ~Bare(h2m[m])
      /\ h2m'[m] \in Seq(Commands) /\ h2m' \in [Mcus -> Seq(Commands)]
      /\ \A k \in Mcus : k # m => h2m'[k] = h2m[k]
  BY <1>3, CommandTaken
<1> HIDE DEF q, t
<1>10. m2h[m] \in Seq(Messages) /\ m2h'[m] = m2h[m] \o t
  BY <1>4, <1>8 DEF LinkTypes
<1>11. /\ m2h'[m] \in Seq(Messages)
       /\ \A k : HasKind(m2h'[m], k) <=> HasKind(m2h[m], k) \/ k = "shutdown" \/ (q /\ k = "ack")
       /\ Drained(m2h'[m]) <=> Drained(m2h[m]) /\ ~q
       /\ \A b : ClocksBelow(m2h'[m], b) <=> ClocksBelow(m2h[m], b)
  BY <1>7, <1>10, MessagesCat
<1>12. q => ~QuietIn(m) /\ ~HasKind(m2h[m], "ack")
  BY <1>2, <1>9 DEF QuietIn, Answers
<1>13. AckLast(m2h'[m])
  BY <1>2, <1>7, <1>10, <1>12, AckLastCat DEF Answers
<1>14. TypeOK'
  <2>1. FirmwareTypes'
    BY <1>3, <1>4, <1>5 DEF FirmwareTypes
  <2>2. m2h' \in [Mcus -> Seq(Messages)]
    <3>1. m2h[m] \o t \in Seq(Messages)
      BY <1>10, <1>11
    <3> QED  BY <3>1, <1>4, <1>8 DEF LinkTypes
  <2>3. LinkTypes'
    BY <2>2, <1>3, <1>4, <1>9 DEF LinkTypes
  <2> QED  BY <1>1, <1>3, <2>1, <2>3, SameHostTypes
<1>15. \A k \in Mcus : k # m => SameFirmware(k) /\ SameLine(k)
  BY <1>4, <1>5, <1>8, <1>9 DEF SameFirmware, SameLine, LinkTypes
<1>16. /\ Asked(m)' = Asked(m) /\ Current(m)' = Current(m) /\ Stopped(m)' = Stopped(m)
       /\ pc' = pc /\ result' = result /\ given_up' = given_up /\ last_params' = last_params
       /\ print_time' = print_time /\ reasons' = reasons
  BY <1>3, <1>5 DEF Asked, Current, Stopped, SameHost, moveVars, stateVars
<1>17. /\ Off(m)' = Off(m) /\ Asleep(m) /\ Asleep(m)'
       /\ QuietIn(m) => QuietIn(m)'
       /\ q => QuietIn(m)'
       /\ Settled(m) => Settled(m)'
  <2>1. Off(m)' = Off(m) /\ Asleep(m) /\ Asleep(m)' /\ (m = 1 => endstop_time' = 0)
    BY <1>2, <1>5 DEF Off, Asleep, Firmware
  <2>2. (Bare(h2m[m]) => Bare(h2m'[m]) /\ ~q) /\ (q => Bare(h2m'[m]))
    BY <1>9
  <2> QED  BY <2>1, <2>2, <1>11 DEF QuietIn, Settled
<1>18. Firmware(m)'
  BY <1>2, <1>3, <1>5, <1>17 DEF Firmware
<1>19. Line(m)'
  BY <1>2, <1>5, <1>9 DEF Line
<1>20. Answers(m)'
  <2>1. q => ~Has(h2m'[m], "query")
    BY <1>9, BareFacts
  <2>2. /\ HasKind(m2h'[m], "ack") <=> HasKind(m2h[m], "ack") \/ q
        /\ Has(h2m[m], "query") <=> q \/ Has(h2m'[m], "query")
    BY <1>9, <1>11
  <2>3. QueryLast(h2m'[m]) /\ AckLast(m2h'[m])
        /\ (HasKind(m2h'[m], "ack") => QuietIn(m)')
    BY <2>2, <1>2, <1>9, <1>13, <1>17 DEF Answers
  <2>4. HasKind(m2h'[m], "ack") \/ Has(h2m'[m], "query") <=> Current(m)'
    BY <2>1, <2>2, <1>2, <1>16 DEF Answers
  <2> QED  BY <2>3, <2>4, <1>2, <1>16, <1>17 DEF Answers
<1>21. Starts(m)'
  <2>1. /\ \A c, a : ArgIs(h2m[m], c, a) => ArgIs(h2m'[m], c, a)
        /\ StartFirst(h2m[m]) => /\ StartFirst(h2m'[m])
                                 /\ Has(h2m'[m], "start") => HeadIs(h2m[m], "emergency_stop")
    BY <1>3, CommandArgs
  <2>2. HeadIs(h2m[m], "emergency_stop") => ~q
    BY <1>3, CommandTaken DEF q
  <2> QED  BY <2>1, <2>2, <1>2, <1>5, <1>9, <1>11, <1>16, <1>17 DEF Starts
<1>22. Completing(m)' /\ Reported(m)'
  BY <1>5 DEF Completing, Stopped, Reported
<1>23. Limit(m) <= Limit(m)' /\ ClocksBelow(m2h'[m], Limit(m)')
  <2>1. Limit(m)' = Limit(m) /\ Limit(m) \in Nat
    BY <1>1, <1>3, <1>5, LimitTypes DEF Limit
  <2>2. ClocksBelow(m2h[m], Limit(m))
    BY <1>2 DEF Clocks
  <2>3. ClocksBelow(m2h'[m], Limit(m))
    BY <1>11, <2>2
  <2>4. ClocksBelow(m2h'[m], Limit(m)')
    BY <2>1, <2>3, Zenon
  <2>5. Limit(m) <= Limit(m)'
    BY <2>1
  <2> QED  BY <2>4, <2>5
<1>24. \A k \in Mcus : k # m => AtMost(h2m'[m], Bound(k)) /\ expire_time'[m] <= Bound(k)
  <2>1. \A k \in Mcus : k # m => AtMost(h2m'[m], Bound(k))
    BY <1>3, CommandArgs
  <2> QED  BY <2>1, <1>2, <1>5 DEF Timed
<1>25. Endstop'
  <2>1. m = 1 => endstop_time' = 0
    BY <1>2, <1>5 DEF Firmware
  <2> QED  BY <2>1, <1>3, <1>5, EndstopServed
<1>26. Judged'
  <2>1. Asked(1)' = Asked(1)
    BY <1>3 DEF Asked, SameHost, moveVars
  <2> QED  BY <2>1, <1>1, <1>5, <1>16 DEF Host, Judged
<1> QED  BY <1>3, <1>14, <1>15, <1>16, <1>18, <1>19, <1>20, <1>21, <1>22, <1>23, <1>24,
            <1>25, <1>26, FirmwareAction

LEMMA ProcessCommandKeeps ==
    ASSUME IInv, NEW m \in Mcus, ProcessCommand(m)
    PROVE  IInv'
<1> DEFINE c == h2m[m][1]
           ack == IF c.cmd = "query" THEN <<Ack>> ELSE <<>>
<1>1. Served(m) /\ h2m[m] # <<>> /\ \A d : HeadIs(h2m[m], d) <=> c.cmd = d
  BY ProcessCases DEF Served, HeadIs
<1>2. \/ /\ is_shutdown[m] /\ m2h' = [m2h EXCEPT ![m] = @ \o (<<Shutdown>> \o ack)]
         /\ UNCHANGED <<trsyncVars, is_shutdown, endstopVars>>
      \/ ~HeadIs(h2m[m], "query") /\ DoShutdown(m)
      \/ /\ ~is_shutdown[m]
         /\ \/ c.cmd = "start" /\ ~(c.arg < now) /\ TrsyncStart(m, c.arg)
            \/ c.cmd = "stop_on_trigger" /\ ~signals[m] /\ StopOnTrigger(m)
            \/ /\ c.cmd = "set_timeout" /\ (can_trigger[m] => ~(c.arg < now))
               /\ SetTimeout(m, c.arg)
            \/ m = 1 /\ c.cmd = "endstop_home" /\ ~(c.arg < now) /\ EndstopHome(c.arg)
            \/ m = 1 /\ c.cmd = "endstop_off" /\ EndstopOff
            \/ c.cmd \in {"trigger", "query"} /\ TrsyncTrigger(m, c.arg, ack)
  BY ProcessCases
<1>3. CASE is_shutdown[m] /\ m2h' = [m2h EXCEPT ![m] = @ \o (<<Shutdown>> \o ack)]
           /\ UNCHANGED <<trsyncVars, is_shutdown, endstopVars>>
  BY <1>1, <1>3, RefusalKeeps
<1>4. CASE ~HeadIs(h2m[m], "query") /\ DoShutdown(m)
  <2>1. lost' \in Nat /\ shutdowns' \in Nat /\ SameHost
        /\ h2m' = [h2m EXCEPT ![m] = Tail(@)]
    BY <1>1 DEF Served, IInv, TypeOK, LinkTypes
  <2> QED  BY <1>1, <1>4, <2>1, ShutdownKeeps
<1>5. CASE ~is_shutdown[m] /\ c.cmd = "start" /\ ~(c.arg < now) /\ TrsyncStart(m, c.arg)
  BY <1>1, <1>5, TrsyncStartKeeps
<1>6. CASE ~is_shutdown[m] /\ c.cmd = "stop_on_trigger" /\ ~signals[m] /\ StopOnTrigger(m)
  BY <1>1, <1>6, StopOnTriggerKeeps
<1>7. CASE /\ ~is_shutdown[m] /\ c.cmd = "set_timeout" /\ (can_trigger[m] => ~(c.arg < now))
           /\ SetTimeout(m, c.arg)
  BY <1>1, <1>7, SetTimeoutKeeps
<1>8. CASE /\ ~is_shutdown[m] /\ m = 1
           /\ \/ c.cmd = "endstop_home" /\ ~(c.arg < now) /\ EndstopHome(c.arg)
              \/ c.cmd = "endstop_off" /\ EndstopOff
  BY <1>1, <1>8, EndstopCommandKeeps
<1>9. CASE ~is_shutdown[m] /\ c.cmd \in {"trigger", "query"} /\ TrsyncTrigger(m, c.arg, ack)
  BY <1>1, <1>9, TrsyncTriggerKeeps
<1> QED  BY <1>2, <1>3, <1>4, <1>5, <1>6, <1>7, <1>8, <1>9

LEMMA McuShutdownKeeps ==
    ASSUME IInv, NEW m \in Mcus, McuShutdown(m)
    PROVE  IInv'
<1>1. /\ DoShutdown(m) /\ h2m' = h2m /\ lost' = lost /\ shutdowns' = shutdowns + 1
      /\ SameHost
  BY DEF McuShutdown, SameHost
<1>2. lost' \in Nat /\ shutdowns' \in Nat
  BY <1>1 DEF IInv, TypeOK, LinkTypes
<1> QED  BY <1>1, <1>2, ShutdownKeeps

-----------------------------------------------------------------------------
(* Steps of the host *)

\* The micro-controllers do nothing.
SameMachines ==
    UNCHANGED <<n, now, can_trigger, report, trigger_reason, report_time, expire_time,
                signals, moving, stopped_at, is_shutdown, endstop_time, trigger_count>>

\* At most one message is read.
Read(k) == m2h'[k] = m2h[k] \/ (m2h[k] # <<>> /\ m2h'[k] = Tail(m2h[k]))

\* Commands that the host may send at any time.
Harmless(s, k) ==
    /\ s \in Seq(Commands) /\ HostReasons(s) /\ Framed(s) /\ ~HeadIs(s, "stop_on_trigger")
    /\ k # 1 => ~Has(s, "endstop_home") /\ ~Has(s, "endstop_off")

LEMMA ReadFacts ==
    ASSUME NEW k, m2h[k] \in Seq(Messages), Read(k)
    PROVE  /\ m2h'[k] \in Seq(Messages)
           /\ \A c : HasKind(m2h'[k], c) => HasKind(m2h[k], c)
           /\ Drained(m2h[k]) => Drained(m2h'[k])
           /\ HasFalse(m2h'[k]) => HasFalse(m2h[k])
           /\ \A r : ReasonsAre(m2h[k], r) => ReasonsAre(m2h'[k], r)
           /\ \A b : ClocksBelow(m2h[k], b) => ClocksBelow(m2h'[k], b)
           /\ AckLast(m2h[k]) => AckLast(m2h'[k])
<1>1. CASE m2h'[k] = m2h[k]
  BY <1>1
<1>2. CASE m2h[k] # <<>> /\ m2h'[k] = Tail(m2h[k])
  <2> DEFINE s == m2h[k]
             t == m2h'[k]
  <2>1. s \in Seq(Messages) /\ s # <<>> /\ t = Tail(s)
    BY <1>2
  <2> HIDE DEF s, t
  <2>2. AckLast(s) => AckLast(t)
    BY <2>1, AckLastTail
  <2>3. /\ t \in Seq(Messages)
        /\ \A c : HasKind(t, c) => HasKind(s, c)
        /\ Drained(s) => Drained(t)
        /\ HasFalse(t) => HasFalse(s)
        /\ \A r : ReasonsAre(s, r) => ReasonsAre(t, r)
        /\ \A b : ClocksBelow(s, b) => ClocksBelow(t, b)
    BY <2>1, MessagesTail
  <2> QED  BY <2>2, <2>3 DEF s, t
<1> QED  BY <1>1, <1>2 DEF Read

LEMMA LineCat ==
    ASSUME TypeOK, NEW k \in Mcus, Line(k),
           UNCHANGED <<can_trigger, signals, expire_time, is_shutdown>>,
           NEW s, Harmless(s, k), h2m'[k] = h2m[k] \o s
    PROVE  Line(k)'
<1>1. h2m[k] \in Seq(Commands) /\ s \in Seq(Commands)
  BY DEF TypeOK, LinkTypes, Harmless
<1>2. HostReasons(h2m'[k]) /\ Framed(h2m'[k])
  BY <1>1, ArgsCat, FramedCat DEF Line, Harmless
<1>3. k # 1 => ~Has(h2m'[k], "endstop_home") /\ ~Has(h2m'[k], "endstop_off")
  BY <1>1, HasCat DEF Line, Harmless
<1>4. CASE h2m[k] # <<>>
  <2>1. \A c : HeadIs(h2m'[k], c) <=> HeadIs(h2m[k], c)
    BY <1>1, <1>4, HeadCat
  <2> QED  BY <2>1, <1>2, <1>3 DEF Line
<1>5. CASE h2m[k] = <<>>
  <2>1. h2m'[k] = s /\ \A c : ~HeadIs(h2m[k], c)
    BY <1>1, <1>5, HeadCat DEF HeadIs
  <2> QED  BY <2>1, <1>2, <1>3 DEF Line, Harmless
<1> QED  BY <1>4, <1>5

\* A step of the host in a move: what it does to the lines of commands and messages.
LEMMA HostAction ==
    ASSUME IInv, TypeOK', SameMachines, print_time' = print_time,
           \A k \in Mcus : Read(k) /\ last_status'[k] <= Known(k),
           \A k \in Mcus : \E s :
             /\ Harmless(s, k) /\ h2m'[k] = h2m[k] \o s
             /\ \A j \in Mcus : j # k => AtMost(s, Bound(j))
    PROVE  \A k \in Mcus :
             /\ Firmware(k)' /\ Line(k)' /\ Timed(k)' /\ Clocks(k)'
             /\ Off(k)' = Off(k) /\ Asleep(k)' = Asleep(k) /\ Stopped(k)' = Stopped(k)
<1>1. TypeOK /\ Mcus' = Mcus /\ \A k \in Mcus : Machine(k)
  BY DEF IInv, SameMachines, Mcus
<1>2. \A k \in Mcus : Limit(k)' = Limit(k) /\ Known(k)' = Known(k) /\ Bound(k)' = Bound(k)
  BY DEF Limit, Known, Bound, expire_ticks, SameMachines
<1> SUFFICES ASSUME NEW k \in Mcus
             PROVE  /\ Firmware(k)' /\ Line(k)' /\ Timed(k)' /\ Clocks(k)'
                    /\ Off(k)' = Off(k) /\ Asleep(k)' = Asleep(k) /\ Stopped(k)' = Stopped(k)
  OBVIOUS
<1>3. Firmware(k) /\ Line(k) /\ Timed(k) /\ Clocks(k)
  BY <1>1 DEF Machine
<1>4. Off(k)' = Off(k) /\ Asleep(k)' = Asleep(k) /\ Stopped(k)' = Stopped(k)
  BY DEF Off, Asleep, Stopped, SameMachines
<1>5. /\ \A c : HasKind(m2h'[k], c) => HasKind(m2h[k], c)
      /\ \A b : ClocksBelow(m2h[k], b) => ClocksBelow(m2h'[k], b)
  <2>1. m2h[k] \in Seq(Messages)
    BY <1>1 DEF TypeOK, LinkTypes
  <2> QED  BY <2>1, ReadFacts
<1>6. Firmware(k)'
  <2>1. HasKind(m2h'[k], "shutdown") => is_shutdown[k]
    BY <1>3, <1>5 DEF Firmware
  <2> QED  BY <2>1, <1>3, <1>4 DEF Firmware, SameMachines
<1>7. PICK s : /\ Harmless(s, k) /\ h2m'[k] = h2m[k] \o s
               /\ \A j \in Mcus : j # k => AtMost(s, Bound(j))
  OBVIOUS
<1>8. Line(k)'
  BY <1>1, <1>3, <1>7, LineCat DEF SameMachines
<1>9. Timed(k)'
  <2>1. h2m[k] \in Seq(Commands) /\ s \in Seq(Commands)
    BY <1>1, <1>7 DEF TypeOK, LinkTypes, Harmless
  <2>2. \A j \in Mcus : j # k => AtMost(h2m'[k], Bound(j))
    BY <2>1, <1>3, <1>7, ArgsCat DEF Timed
  <2>3. expire_time' = expire_time
    BY DEF SameMachines
  <2> QED  BY <2>2, <2>3, <1>1, <1>2, <1>3 DEF Timed
<1>10. Clocks(k)'
  <2>1. ClocksBelow(m2h'[k], Limit(k)) /\ last_status'[k] <= Known(k)
    BY <1>3, <1>5 DEF Clocks
  <2> QED  BY <2>1, <1>2 DEF Clocks
<1> QED  BY <1>4, <1>6, <1>8, <1>9, <1>10

\* No command at all.
LEMMA NothingSent ==
    ASSUME TypeOK, NEW k \in Mcus, h2m'[k] = h2m[k]
    PROVE  /\ Harmless(<<>>, k) /\ h2m'[k] = h2m[k] \o <<>>
           /\ \A j : AtMost(<<>>, Bound(j))
<1>1. h2m[k] \in Seq(Commands)
  BY DEF TypeOK, LinkTypes
<1> QED  BY <1>1, NoCommand DEF Harmless

\* One command that is not part of a frame, and no timeout.
LEMMA OneSent ==
    ASSUME NEW k, NEW c, NEW a \in Nat, Cmd(c, a) \in Commands,
           c \notin {"start", "stop_on_trigger", "set_timeout"},
           c \in {"trigger", "query"} => a \in {2, 3},
           k # 1 => c # "endstop_home" /\ c # "endstop_off"
    PROVE  Harmless(<<Cmd(c, a)>>, k) /\ \A b : AtMost(<<Cmd(c, a)>>, b)
<1> DEFINE s == <<Cmd(c, a)>>
<1>1. /\ s \in Seq(Commands)
      /\ \A d : Has(s, d) <=> d = c
      /\ \A d : HeadIs(s, d) <=> d = c
      /\ HostReasons(s) <=> (c \in {"trigger", "query"} => a \in {2, 3})
      /\ \A b : AtMost(s, b) <=> (c = "set_timeout" => a <= b)
  BY OneCommand
<1> HIDE DEF s
<1>2. Framed(s)
  BY <1>1, FramedPlain
<1>3. Harmless(s, k) /\ \A b : AtMost(s, b)
  BY <1>1, <1>2 DEF Harmless
<1> QED  BY <1>3 DEF s

\* A message is lost: nothing but that it is missing.
LEMMA LoseKeeps ==
    ASSUME IInv, NEW m \in Mcus, Lose(m)
    PROVE  IInv'
<1>1. TypeOK /\ Host /\ \A k \in Mcus : Machine(k)
  BY DEF IInv
<1>2. /\ m2h[m] # <<>> /\ Head(m2h[m]).kind # "ack" /\ lost' = lost + 1
      /\ m2h' = [m2h EXCEPT ![m] = Tail(@)] /\ h2m' = h2m /\ shutdowns' = shutdowns
      /\ SameHost /\ SameMachines
  BY DEF Lose, SameHost, SameMachines, trsyncVars, endstopVars
<1>3. Mcus' = Mcus /\ n' = n /\ print_time' = print_time /\ last_status' = last_status
      /\ pc' = pc /\ result' = result /\ given_up' = given_up /\ last_params' = last_params
      /\ todo' = todo /\ handler' = handler /\ completion' = completion
      /\ reasons' = reasons /\ td_active' = td_active /\ now' = now
      /\ endstop_time' = endstop_time /\ is_shutdown' = is_shutdown
      /\ can_trigger' = can_trigger /\ trigger_reason' = trigger_reason
      /\ stopped_at' = stopped_at
  BY <1>2 DEF SameHost, SameMachines, Mcus, moveVars, stateVars, tdVars
<1>4. FirmwareTypes /\ LinkTypes /\ m2h[m] \in Seq(Messages)
  BY <1>1 DEF TypeOK, LinkTypes
<1>5. /\ \A k \in Mcus : Read(k) /\ m2h[k] \in Seq(Messages)
      /\ \A k \in Mcus : HasKind(m2h'[k], "ack") <=> HasKind(m2h[k], "ack")
  <2>1. Tail(m2h[m]) \in Seq(Messages)
        /\ (HasKind(Tail(m2h[m]), "ack") <=> HasKind(m2h[m], "ack"))
    BY <1>2, <1>4, MessagesTail
  <2> QED  BY <1>2, <1>4, <2>1 DEF LinkTypes, Read
<1>6. TypeOK'
  <2>1. FirmwareTypes'
    BY <1>2, <1>3, <1>4 DEF FirmwareTypes, SameMachines
  <2>2. Tail(m2h[m]) \in Seq(Messages)
    BY <1>2, <1>4, MessagesTail
  <2>3. LinkTypes'
    BY <2>2, <1>2, <1>3, <1>4 DEF LinkTypes
  <2> QED  BY <1>1, <1>2, <2>1, <2>3, SameHostTypes
<1>7. \A k \in Mcus :
        /\ Firmware(k)' /\ Line(k)' /\ Timed(k)' /\ Clocks(k)'
        /\ Off(k)' = Off(k) /\ Asleep(k)' = Asleep(k) /\ Stopped(k)' = Stopped(k)
  <2>1. \A k \in Mcus : last_status'[k] <= Known(k)
    BY <1>1, <1>3 DEF Machine, Clocks
  <2>2. \A k \in Mcus : \E s : /\ Harmless(s, k) /\ h2m'[k] = h2m[k] \o s
                               /\ \A j \in Mcus : j # k => AtMost(s, Bound(j))
    BY <1>1, <1>2, NothingSent
  <2> QED  BY <2>1, <2>2, <1>2, <1>3, <1>5, <1>6, HostAction
<1>8. ASSUME NEW k \in Mcus
      PROVE  Answers(k)' /\ Starts(k)' /\ Completing(k)' /\ Reported(k)'
  <2>1. Answers(k) /\ Starts(k) /\ Completing(k) /\ Reported(k)
    BY <1>1 DEF Machine
  <2>2. /\ Drained(m2h[k]) => Drained(m2h'[k])
        /\ HasFalse(m2h'[k]) => HasFalse(m2h[k])
        /\ \A r : ReasonsAre(m2h[k], r) => ReasonsAre(m2h'[k], r)
        /\ AckLast(m2h[k]) => AckLast(m2h'[k])
        /\ HasKind(m2h'[k], "ack") <=> HasKind(m2h[k], "ack")
    BY <1>5, ReadFacts
  <2>3. /\ Asked(k)' = Asked(k) /\ Current(k)' = Current(k) /\ QuietIn(k)' = QuietIn(k)
        /\ Asleep(k)' = Asleep(k) /\ Stopped(k)' = Stopped(k)
        /\ Settled(k) => Settled(k)'
    BY <1>2, <1>3, <1>7, <2>2 DEF Asked, Current, QuietIn, Settled
  <2>4. Answers(k)'
    BY <1>2, <1>3, <2>1, <2>2, <2>3 DEF Answers
  <2>5. Starts(k)' /\ Completing(k)' /\ Reported(k)'
    BY <1>2, <1>3, <2>1, <2>2, <2>3 DEF Starts, Completing, Reported
  <2> QED  BY <2>4, <2>5
<1>9. Host'
  <2>1. Asking' /\ Endstop' /\ Completed' /\ Judged'
    BY <1>1, <1>2, <1>3 DEF Host, Asking, Current, Endstop, Completed, Stopped, Judged, Asked
  <2> QED  BY <2>1, <1>1, <1>3 DEF Host
<1> QED  BY <1>3, <1>6, <1>7, <1>8, <1>9 DEF IInv, Machine

\* wait_end(): the same part of the move.
LEMMA WaitEndKeeps ==
    ASSUME IInv, WaitEnd
    PROVE  IInv'
<1>1. TypeOK /\ Host /\ \A k \in Mcus : Machine(k)
  BY DEF IInv
<1>2. /\ pc = "homing" /\ pc' = "waiting" /\ home_end_clock' = print_time + MoveTicks
      /\ SameMachines /\ UNCHANGED <<h2m, m2h, td_can_trigger, td_active, last_status,
           expire_clock, completion, waiting, handler, last_params, in_shutdown, print_time,
           todo, retries, reasons, result, given_up, rounds, lost, shutdowns>>
  BY DEF WaitEnd, SameMachines, trsyncVars, endstopVars, tdVars
<1>3. Mcus' = Mcus /\ n' = n /\ now' = now
  BY <1>2 DEF SameMachines, Mcus
<1>4. FirmwareTypes /\ LinkTypes /\ HostTypes /\ MoveTicks \in Nat
  BY <1>1, SyncAssumption DEF TypeOK
<1>5. TypeOK'
  <2>1. FirmwareTypes' /\ LinkTypes'
    BY <1>2, <1>3, <1>4 DEF FirmwareTypes, LinkTypes, SameMachines
  <2>2. HostTypes'
    BY <1>2, <1>3, <1>4 DEF HostTypes
  <2> QED  BY <1>1, <1>3, <2>1, <2>2 DEF TypeOK
<1>6. \A k \in Mcus :
        /\ Firmware(k)' /\ Line(k)' /\ Timed(k)' /\ Clocks(k)'
        /\ Off(k)' = Off(k) /\ Asleep(k)' = Asleep(k) /\ Stopped(k)' = Stopped(k)
  <2>1. \A k \in Mcus : last_status'[k] <= Known(k) /\ Read(k)
    BY <1>1, <1>2 DEF Machine, Clocks, Read
  <2>2. \A k \in Mcus : \E s : /\ Harmless(s, k) /\ h2m'[k] = h2m[k] \o s
                               /\ \A j \in Mcus : j # k => AtMost(s, Bound(j))
    BY <1>1, <1>2, NothingSent
  <2> QED  BY <2>1, <2>2, <1>2, <1>5, HostAction
<1>7. ASSUME NEW k \in Mcus
      PROVE  Answers(k)' /\ Starts(k)' /\ Completing(k)' /\ Reported(k)'
  <2>1. Answers(k) /\ Starts(k) /\ Completing(k) /\ Reported(k)
    BY <1>1 DEF Machine
  <2>2. /\ ~Current(k) /\ ~Current(k)' /\ QuietIn(k)' = QuietIn(k)
        /\ Asleep(k)' = Asleep(k) /\ Stopped(k)' = Stopped(k)
    BY <1>2, <1>6 DEF Current, QuietIn, SameMachines
  <2>3. Answers(k)'
    BY <1>2, <2>1, <2>2 DEF Answers
  <2>4. Starts(k)' /\ Completing(k)' /\ Reported(k)'
    BY <1>2, <2>1, <2>2 DEF Starts, Completing, Reported, SameMachines
  <2> QED  BY <2>3, <2>4
<1>8. Host'
  <2>1. Asking' /\ Endstop' /\ Completed' /\ Judged'
    BY <1>1, <1>2, <1>3
       DEF Host, Asking, Current, Endstop, Completed, Stopped, Judged, SameMachines
  <2> QED  BY <2>1, <1>1, <1>2, <1>3 DEF Host
<1> QED  BY <1>3, <1>5, <1>6, <1>7, <1>8 DEF IInv, Machine

\* Nobody is left to ask: everything is settled when the reasons are judged.
LEMMA JudgeKeeps ==
    ASSUME IInv, Judge
    PROVE  IInv'
<1>1. TypeOK /\ Host /\ \A k \in Mcus : Machine(k)
  BY DEF IInv
<1>2. /\ pc = "stopping" /\ todo = <<>> /\ pc' = "idle" /\ result' = Verdict
      /\ SameMachines /\ UNCHANGED <<h2m, m2h, td_can_trigger, td_active, last_status,
           expire_clock, completion, waiting, handler, home_end_clock, last_params,
           in_shutdown, print_time, todo, retries, reasons, given_up, rounds, lost,
           shutdowns>>
  BY DEF Judge, SameMachines, trsyncVars, endstopVars, tdVars, stateVars
<1>3. Mcus' = Mcus /\ n' = n /\ now' = now /\ 1 \in Mcus /\ n \in Nat
  BY <1>1, <1>2, Basics DEF SameMachines, Mcus
<1>4. FirmwareTypes /\ LinkTypes /\ HostTypes
  BY <1>1 DEF TypeOK
<1>5. TypeOK'
  <2>1. FirmwareTypes' /\ LinkTypes'
    BY <1>2, <1>3, <1>4 DEF FirmwareTypes, LinkTypes, SameMachines
  <2>2. result' \in {"hit", "no_trigger", "comms_timeout"}
    BY <1>2 DEF Verdict
  <2>3. HostTypes'
    BY <1>2, <1>3, <1>4, <2>2 DEF HostTypes
  <2> QED  BY <1>1, <1>3, <2>1, <2>3 DEF TypeOK
<1>6. \A k \in Mcus :
        /\ Firmware(k)' /\ Line(k)' /\ Timed(k)' /\ Clocks(k)'
        /\ Off(k)' = Off(k) /\ Asleep(k)' = Asleep(k) /\ Stopped(k)' = Stopped(k)
  <2>1. \A k \in Mcus : last_status'[k] <= Known(k) /\ Read(k)
    BY <1>1, <1>2 DEF Machine, Clocks, Read
  <2>2. \A k \in Mcus : \E s : /\ Harmless(s, k) /\ h2m'[k] = h2m[k] \o s
                               /\ \A j \in Mcus : j # k => AtMost(s, Bound(j))
    BY <1>1, <1>2, NothingSent
  <2> QED  BY <2>1, <2>2, <1>2, <1>5, HostAction
<1>7. \A k \in Mcus : ~Asked(k) /\ Settled(k)
  <2>1. \A k \in Mcus : ~Asked(k)
    BY <1>2, <1>3 DEF Asked, Mcus
  <2> QED  BY <2>1, <1>1, <1>2 DEF Machine, Answers
<1>8. ASSUME NEW k \in Mcus
      PROVE  Answers(k)' /\ Starts(k)' /\ Completing(k)' /\ Reported(k)'
  <2>1. Answers(k) /\ Starts(k) /\ Completing(k) /\ Reported(k)
    BY <1>1 DEF Machine
  <2>2. /\ ~Current(k) /\ ~Current(k)' /\ QuietIn(k)' = QuietIn(k)
        /\ Settled(k)' = Settled(k)
    BY <1>2, <1>6 DEF Current, QuietIn, Settled, SameMachines
  <2>3. Answers(k)'
    BY <1>2, <1>7, <2>1, <2>2 DEF Answers
  <2>4. ~Has(h2m[k], "start")
    BY <1>4, <1>7, BareFacts DEF Settled, QuietIn, LinkTypes
  <2>5. Starts(k)' /\ Completing(k)' /\ Reported(k)'
    BY <1>2, <2>1, <2>2, <2>4 DEF Starts, Completing, Reported, SameMachines
  <2> QED  BY <2>3, <2>5
<1>9. Host'
  <2>1. Verdict = "hit" => reasons[1] = ENDSTOP_HIT
    BY DEF Verdict
  <2>2. Judged'
    BY <1>1, <1>2, <1>3, <1>7, <2>1 DEF Host, Judged, SameMachines
  <2>3. Asking' /\ Endstop' /\ Completed'
    BY <1>1, <1>2, <1>3 DEF Host, Asking, Current, Endstop, Completed, SameMachines
  <2> QED  BY <2>2, <2>3, <1>1, <1>2, <1>3 DEF Host
<1> QED  BY <1>3, <1>5, <1>6, <1>8, <1>9 DEF IInv, Machine

\* r is q with a command c, of the argument a, behind the others.
More(q, r, c, a) ==
    /\ r \in Seq(Commands)
    /\ \A d : Has(r, d) <=> Has(q, d) \/ d = c
    /\ Bare(r) <=> Bare(q) /\ c = "emergency_stop"
    /\ QueryLast(q) /\ (c = "emergency_stop" \/ ~Has(q, "query")) => QueryLast(r)
    /\ StartFirst(q) /\ c # "start" => StartFirst(r)
    /\ \A d : ArgIs(q, d, a) => ArgIs(r, d, a)
    /\ \A d, b : ArgIs(q, d, b) /\ d # c => ArgIs(r, d, b)
    /\ c = "endstop_off" => OffAfter(r)
    /\ OffAfter(q) /\ c # "endstop_home" => OffAfter(r)
    /\ \A d : HeadIs(r, d) => HeadIs(q, d) \/ d = c

LEMMA OneMore ==
    ASSUME NEW q \in Seq(Commands), NEW c, NEW a \in Nat, NEW x \in Commands,
           x = Cmd(c, a), NEW r, r = Append(q, x)
    PROVE  More(q, r, c, a)
<1> DEFINE s == <<Cmd(c, a)>>
<1>1. /\ s \in Seq(Commands)
      /\ \A d : Has(s, d) <=> d = c
      /\ \A d : HeadIs(s, d) <=> d = c
      /\ Bare(s) <=> c = "emergency_stop"
      /\ \A d, b : ArgIs(s, d, b) <=> (d = c => a = b)
      /\ OffAfter(s) <=> c = "endstop_off"
      /\ QueryLast(s) /\ StartFirst(s)
  BY OneCommand
<1>2. r \in Seq(Commands) /\ r = q \o <<x>> /\ r = q \o s
  OBVIOUS
<1> HIDE DEF s
<1>3. \A d : Has(r, d) <=> Has(q, d) \/ d = c
  BY <1>1, <1>2, HasCat
<1>4. Bare(r) <=> Bare(q) /\ c = "emergency_stop"
  BY <1>1, <1>2, BareFacts
<1>5. QueryLast(q) /\ (c = "emergency_stop" \/ ~Has(q, "query")) => QueryLast(r)
  BY <1>1, <1>2, QueryLastCat
<1>6. StartFirst(q) /\ c # "start" => StartFirst(r)
  BY <1>1, <1>2, StartFirstCat
<1>7. /\ \A d : ArgIs(q, d, a) => ArgIs(r, d, a)
      /\ \A d, b : ArgIs(q, d, b) /\ d # c => ArgIs(r, d, b)
  BY <1>1, <1>2, ArgsCat
<1>8. /\ c = "endstop_off" => OffAfter(r)
      /\ OffAfter(q) /\ c # "endstop_home" => OffAfter(r)
  BY <1>1, <1>2, OffAfterCat
<1>9. \A d : HeadIs(r, d) => HeadIs(q, d) \/ d = c
  <2>1. CASE q = <<>>
    <3>1. r = s
      BY <2>1, <1>1, <1>2, HeadCat
    <3> QED  BY <3>1, <1>1
  <2>2. CASE q # <<>>
    <3>1. \A d : HeadIs(r, d) <=> HeadIs(q, d)
      BY <2>2, <1>1, <1>2, HeadCat
    <3> QED  BY <3>1
  <2> QED  BY <2>1, <2>2
<1> QED  BY <1>2, <1>3, <1>4, <1>5, <1>6, <1>7, <1>8, <1>9 DEF More

\* home_start(): the endstop of micro-controller 1 is to be checked from print_time on.
LEMMA StartDispatchKeeps ==
    ASSUME IInv, StartDispatch
    PROVE  IInv'
<1>1. TypeOK /\ Host /\ \A k \in Mcus : Machine(k)
  BY DEF IInv
<1>2. /\ pc = "starting" /\ pc' = "homing" /\ td_active' = TRUE /\ td_can_trigger' = TRUE
      /\ h2m' = [h2m EXCEPT ![1] = Append(@, Cmd("endstop_home", print_time))]
      /\ SameMachines /\ UNCHANGED <<m2h, last_status, expire_clock, completion, waiting,
           handler, home_end_clock, last_params, in_shutdown, print_time, todo, retries,
           reasons, result, given_up, rounds, lost, shutdowns>>
  BY DEF StartDispatch, SameMachines, trsyncVars, endstopVars, stateVars
<1>3. Mcus' = Mcus /\ n' = n /\ now' = now /\ 1 \in Mcus
  BY <1>1, <1>2, Basics DEF SameMachines, Mcus
<1>4. FirmwareTypes /\ LinkTypes /\ HostTypes /\ print_time \in Nat
      /\ h2m \in [Mcus -> Seq(Commands)] /\ \A k \in Mcus : h2m[k] \in Seq(Commands)
  BY <1>1 DEF TypeOK, LinkTypes, HostTypes
<1> DEFINE x == Cmd("endstop_home", print_time)
           s == <<x>>
<1>5. x \in Commands /\ Harmless(s, 1) /\ \A b : AtMost(s, b)
  <2>1. x \in Commands
    BY <1>4 DEF Cmd, Commands
  <2> QED  BY <1>4, <2>1, OneSent
<1>6. /\ h2m'[1] = h2m[1] \o s /\ h2m'[1] \in Seq(Commands)
      /\ h2m' \in [Mcus -> Seq(Commands)]
      /\ \A k \in Mcus : k # 1 => h2m'[k] = h2m[k]
  <2>1. Append(h2m[1], x) = h2m[1] \o s /\ Append(h2m[1], x) \in Seq(Commands)
    BY <1>3, <1>4, <1>5
  <2> HIDE DEF x, s
  <2> QED  BY <2>1, <1>2, <1>3, <1>4 DEF x
<1>7. TypeOK'
  <2>1. FirmwareTypes'
    BY <1>2, <1>3, <1>4 DEF FirmwareTypes, SameMachines
  <2>2. LinkTypes'
    BY <1>2, <1>3, <1>4, <1>6 DEF LinkTypes
  <2>3. HostTypes'
    BY <1>2, <1>3, <1>4 DEF HostTypes
  <2> QED  BY <1>1, <1>3, <2>1, <2>2, <2>3 DEF TypeOK
<1>8. \A k \in Mcus :
        /\ Firmware(k)' /\ Line(k)' /\ Timed(k)' /\ Clocks(k)'
        /\ Off(k)' = Off(k) /\ Asleep(k)' = Asleep(k) /\ Stopped(k)' = Stopped(k)
  <2>1. \A k \in Mcus : last_status'[k] <= Known(k) /\ Read(k)
    BY <1>1, <1>2 DEF Machine, Clocks, Read
  <2>2. \A k \in Mcus : \E t : /\ Harmless(t, k) /\ h2m'[k] = h2m[k] \o t
                               /\ \A j \in Mcus : j # k => AtMost(t, Bound(j))
    <3> HIDE DEF s
    <3> SUFFICES ASSUME NEW k \in Mcus
                 PROVE  \E t : /\ Harmless(t, k) /\ h2m'[k] = h2m[k] \o t
                               /\ \A j \in Mcus : j # k => AtMost(t, Bound(j))
      OBVIOUS
    <3>1. CASE k = 1
      BY <3>1, <1>5, <1>6
    <3>2. CASE k # 1
      BY <3>2, <1>1, <1>6, NothingSent
    <3> QED  BY <3>1, <3>2
  <2> QED  BY <2>1, <2>2, <1>1, <1>2, <1>7, HostAction
<1>9. /\ \A d : Has(h2m'[1], d) <=> Has(h2m[1], d) \/ d = "endstop_home"
      /\ QueryLast(h2m[1]) /\ ~Has(h2m[1], "query") => QueryLast(h2m'[1])
      /\ StartFirst(h2m[1]) => StartFirst(h2m'[1])
      /\ \A d : ArgIs(h2m[1], d, print_time) => ArgIs(h2m'[1], d, print_time)
  <2> DEFINE q == h2m[1]
             r == h2m'[1]
  <2>1. /\ q \in Seq(Commands) /\ r = Append(q, x) /\ x \in Commands /\ print_time \in Nat
        /\ x = Cmd("endstop_home", print_time)
    BY <1>2, <1>3, <1>4, <1>5, <1>6
  <2> HIDE DEF q, r, x
  <2>2. More(q, r, "endstop_home", print_time)
    BY <2>1, OneMore
  <2> QED  BY <2>2 DEF q, r, More
<1>10. ASSUME NEW k \in Mcus
       PROVE  Answers(k)' /\ Starts(k)' /\ Completing(k)' /\ Reported(k)'
  <2>1. Answers(k) /\ Starts(k) /\ Completing(k) /\ Reported(k)
    BY <1>1 DEF Machine
  <2>2. /\ ~Current(k) /\ ~Current(k)' /\ Asleep(k)' = Asleep(k) /\ Stopped(k)' = Stopped(k)
    BY <1>2, <1>8 DEF Current
  <2>3. ~Has(h2m[k], "query") /\ ~HasKind(m2h[k], "ack")
    BY <2>1, <2>2 DEF Answers
  <2>4. /\ QueryLast(h2m'[k]) /\ ~Has(h2m'[k], "query")
        /\ Has(h2m'[k], "start") <=> Has(h2m[k], "start")
        /\ StartFirst(h2m[k]) => StartFirst(h2m'[k])
        /\ k = 1 /\ ArgIs(h2m[k], "start", print_time) => ArgIs(h2m'[k], "start", print_time)
    <3>1. CASE k = 1
      BY <3>1, <1>9, <2>1, <2>3 DEF Answers
    <3>2. CASE k # 1
      BY <3>2, <1>6, <2>1, <2>3 DEF Answers
    <3> QED  BY <3>1, <3>2
  <2>5. Answers(k)'
    BY <1>2, <2>1, <2>2, <2>3, <2>4 DEF Answers
  <2>6. Starts(k)' /\ Completing(k)' /\ Reported(k)'
    BY <1>2, <2>1, <2>2, <2>4 DEF Starts, Completing, Reported, SameMachines
  <2> QED  BY <2>5, <2>6
<1>11. Host'
  <2>1. Endstop'
    BY <1>1, <1>2, <1>9 DEF Host, Endstop, SameMachines
  <2>2. Asking' /\ Completed' /\ Judged'
    BY <1>1, <1>2, <1>3
       DEF Host, Asking, Current, Completed, Stopped, Judged, SameMachines
  <2> QED  BY <2>1, <2>2, <1>1, <1>2, <1>3 DEF Host
<1> QED  BY <1>3, <1>7, <1>8, <1>10, <1>11 DEF IInv, Machine

\* One command is sent.
LEMMA SendOne ==
    ASSUME TypeOK, NEW m \in Mcus, NEW c, NEW a \in Nat, Cmd(c, a) \in Commands,
           c \notin {"start", "stop_on_trigger", "set_timeout"},
           c \in {"trigger", "query"} => a \in {2, 3},
           m # 1 => c # "endstop_home" /\ c # "endstop_off",
           h2m' = [h2m EXCEPT ![m] = Append(@, Cmd(c, a))]
    PROVE  /\ h2m' \in [Mcus -> Seq(Commands)]
           /\ \A k \in Mcus : k # m => h2m'[k] = h2m[k]
           /\ \A k \in Mcus : \E s : /\ Harmless(s, k) /\ h2m'[k] = h2m[k] \o s
                                     /\ \A j \in Mcus : j # k => AtMost(s, Bound(j))
           /\ \A k \in Mcus : \A d : Has(h2m'[k], d) <=> Has(h2m[k], d) \/ (k = m /\ d = c)
           /\ \A k \in Mcus : QueryLast(h2m[k]) /\ ~Has(h2m[k], "query") => QueryLast(h2m'[k])
           /\ \A k \in Mcus : StartFirst(h2m[k]) => StartFirst(h2m'[k])
           /\ \A k \in Mcus : \A d, b : ArgIs(h2m[k], d, b) /\ d # c => ArgIs(h2m'[k], d, b)
           /\ c = "endstop_off" => OffAfter(h2m'[m])
           /\ \A k \in Mcus : OffAfter(h2m[k]) /\ c # "endstop_home" => OffAfter(h2m'[k])
           /\ \A k \in Mcus : \A d : HeadIs(h2m'[k], d) => HeadIs(h2m[k], d) \/ d = c
<1> DEFINE x == Cmd(c, a)
           q == h2m[m]
           r == h2m'[m]
<1>1. /\ h2m \in [Mcus -> Seq(Commands)] /\ q \in Seq(Commands) /\ x \in Commands
      /\ x = Cmd(c, a)
  BY DEF TypeOK, LinkTypes
<1>2. /\ r = Append(q, x) /\ Append(q, x) \in Seq(Commands)
      /\ h2m' \in [Mcus -> Seq(Commands)]
      /\ \A k \in Mcus : k # m => h2m'[k] = h2m[k]
  <2>1. Append(q, x) \in Seq(Commands)
    BY <1>1
  <2> QED  BY <2>1, <1>1
<1>3. Harmless(<<x>>, m) /\ \A b : AtMost(<<x>>, b)
  BY OneSent
<1> HIDE DEF x, r, q
<1>4. r = q \o <<x>>
  BY <1>1, <1>2
<1>5. \A k \in Mcus : \E s : /\ Harmless(s, k) /\ h2m'[k] = h2m[k] \o s
                             /\ \A j \in Mcus : j # k => AtMost(s, Bound(j))
  <2> SUFFICES ASSUME NEW k \in Mcus
               PROVE  \E s : /\ Harmless(s, k) /\ h2m'[k] = h2m[k] \o s
                             /\ \A j \in Mcus : j # k => AtMost(s, Bound(j))
    OBVIOUS
  <2>1. CASE k = m
    BY <2>1, <1>3, <1>4 DEF q, r
  <2>2. CASE k # m
    BY <2>2, <1>2, NothingSent
  <2> QED  BY <2>1, <2>2
<1>6. More(q, r, c, a)
  BY <1>1, <1>2, OneMore
<1>7. \A k \in Mcus :
         /\ \A d : Has(h2m'[k], d) <=> Has(h2m[k], d) \/ (k = m /\ d = c)
         /\ QueryLast(h2m[k]) /\ ~Has(h2m[k], "query") => QueryLast(h2m'[k])
         /\ StartFirst(h2m[k]) => StartFirst(h2m'[k])
         /\ \A d, b : ArgIs(h2m[k], d, b) /\ d # c => ArgIs(h2m'[k], d, b)
         /\ OffAfter(h2m[k]) /\ c # "endstop_home" => OffAfter(h2m'[k])
         /\ \A d : HeadIs(h2m'[k], d) => HeadIs(h2m[k], d) \/ d = c
  <2> SUFFICES ASSUME NEW k \in Mcus
               PROVE  /\ \A d : Has(h2m'[k], d) <=> Has(h2m[k], d) \/ (k = m /\ d = c)
                      /\ QueryLast(h2m[k]) /\ ~Has(h2m[k], "query") => QueryLast(h2m'[k])
                      /\ StartFirst(h2m[k]) => StartFirst(h2m'[k])
                      /\ \A d, b : ArgIs(h2m[k], d, b) /\ d # c => ArgIs(h2m'[k], d, b)
                      /\ OffAfter(h2m[k]) /\ c # "endstop_home" => OffAfter(h2m'[k])
                      /\ \A d : HeadIs(h2m'[k], d) => HeadIs(h2m[k], d) \/ d = c
    OBVIOUS
  <2>1. CASE k = m
    BY <2>1, <1>6 DEF q, r, More
  <2>2. CASE k # m
    BY <2>2, <1>2
  <2> QED  BY <2>1, <2>2
<1> QED  BY <1>2, <1>5, <1>6, <1>7 DEF r, More

\* home_wait(): the endstop is switched off, everybody is to be asked.
LEMMA StopDispatchKeeps ==
    ASSUME IInv, StopDispatch
    PROVE  IInv'
<1>1. TypeOK /\ Host /\ \A k \in Mcus : Machine(k)
  BY DEF IInv
<1>2. /\ pc = "waiting" /\ pc' = "stopping" /\ td_active' = FALSE
      /\ todo' = [i \in Mcus |-> i]
      /\ h2m' = [h2m EXCEPT ![1] = Append(@, Cmd("endstop_off", 0))]
      /\ SameMachines /\ UNCHANGED <<m2h, td_can_trigger, last_status, expire_clock,
           completion, waiting, handler, home_end_clock, last_params, in_shutdown,
           print_time, retries, reasons, result, given_up, rounds, lost, shutdowns>>
  BY DEF StopDispatch, SameMachines, trsyncVars, endstopVars, stateVars
<1>3. Mcus' = Mcus /\ n' = n /\ now' = now /\ 1 \in Mcus /\ n \in Nat
  BY <1>1, <1>2, Basics DEF SameMachines, Mcus
<1>4. FirmwareTypes /\ LinkTypes /\ HostTypes
  BY <1>1 DEF TypeOK
<1>5. Cmd("endstop_off", 0) \in Commands
  BY DEF Cmd, Commands
<1>6. /\ h2m' \in [Mcus -> Seq(Commands)]
      /\ \A k \in Mcus : \E s : /\ Harmless(s, k) /\ h2m'[k] = h2m[k] \o s
                                /\ \A j \in Mcus : j # k => AtMost(s, Bound(j))
      /\ \A k \in Mcus : \A d : Has(h2m'[k], d) <=> Has(h2m[k], d) \/ (k = 1 /\ d = "endstop_off")
      /\ \A k \in Mcus : QueryLast(h2m[k]) /\ ~Has(h2m[k], "query") => QueryLast(h2m'[k])
      /\ \A k \in Mcus : StartFirst(h2m[k]) => StartFirst(h2m'[k])
      /\ \A k \in Mcus : \A d, b : ArgIs(h2m[k], d, b) /\ d # "endstop_off"
                                     => ArgIs(h2m'[k], d, b)
      /\ OffAfter(h2m'[1])
      /\ \A k \in Mcus : \A d : HeadIs(h2m'[k], d) => HeadIs(h2m[k], d) \/ d = "endstop_off"
  BY <1>1, <1>2, <1>3, <1>5, SendOne
<1>7. Len(todo') = n /\ todo' \in Seq(Mcus) /\ \A i \in 1..Len(todo') : todo'[i] = i
  BY <1>2, <1>3 DEF Mcus
<1>8. TypeOK'
  <2>1. FirmwareTypes'
    BY <1>2, <1>3, <1>4 DEF FirmwareTypes, SameMachines
  <2>2. LinkTypes'
    BY <1>2, <1>3, <1>4, <1>6 DEF LinkTypes
  <2>3. HostTypes'
    BY <1>2, <1>3, <1>4, <1>7 DEF HostTypes
  <2> QED  BY <1>1, <1>3, <2>1, <2>2, <2>3 DEF TypeOK
<1>9. \A k \in Mcus :
        /\ Firmware(k)' /\ Line(k)' /\ Timed(k)' /\ Clocks(k)'
        /\ Off(k)' = Off(k) /\ Asleep(k)' = Asleep(k) /\ Stopped(k)' = Stopped(k)
  <2>1. \A k \in Mcus : last_status'[k] <= Known(k) /\ Read(k)
    BY <1>1, <1>2 DEF Machine, Clocks, Read
  <2> QED  BY <2>1, <1>1, <1>2, <1>6, <1>8, HostAction
<1>10. \A k \in Mcus : Asked(k)'
  BY <1>3, <1>7 DEF Asked, Mcus
<1>11. ASSUME NEW k \in Mcus
       PROVE  Answers(k)' /\ Starts(k)' /\ Completing(k)' /\ Reported(k)'
  <2>1. Answers(k) /\ Starts(k) /\ Completing(k) /\ Reported(k)
    BY <1>1 DEF Machine
  <2>2. /\ ~Current(k) /\ ~Current(k)' /\ Asleep(k)' = Asleep(k) /\ Stopped(k)' = Stopped(k)
    BY <1>2, <1>9 DEF Current
  <2>3. ~Has(h2m[k], "query") /\ ~HasKind(m2h[k], "ack")
    BY <2>1, <2>2 DEF Answers
  <2>4. /\ QueryLast(h2m'[k]) /\ ~Has(h2m'[k], "query")
        /\ Has(h2m'[k], "start") <=> Has(h2m[k], "start")
        /\ StartFirst(h2m[k]) => StartFirst(h2m'[k])
        /\ ArgIs(h2m[k], "start", print_time) => ArgIs(h2m'[k], "start", print_time)
    BY <1>6, <2>1, <2>3 DEF Answers
  <2>5. Answers(k)'
    BY <1>2, <1>10, <2>1, <2>2, <2>3, <2>4 DEF Answers
  <2>6. Starts(k)' /\ Completing(k)' /\ Reported(k)'
    BY <1>2, <2>1, <2>2, <2>4 DEF Starts, Completing, Reported, SameMachines
  <2> QED  BY <2>5, <2>6
<1>12. Host'
  <2>1. Endstop'
    BY <1>1, <1>2, <1>3, <1>6 DEF Host, Endstop, SameMachines
  <2>2. Asking'
    <3>1. Len(todo') <= n /\ \A i \in 1..Len(todo') : todo'[i] = n - Len(todo') + i
      BY <1>3, <1>7
    <3> QED  BY <3>1, <1>1, <1>2, <1>3 DEF Host, Asking, Current
  <2>3. Completed' /\ Judged'
    BY <1>2, <1>3, <1>10 DEF Completed, Judged
  <2> QED  BY <2>1, <2>2, <2>3, <1>1, <1>2, <1>3 DEF Host
<1> QED  BY <1>3, <1>8, <1>9, <1>11, <1>12 DEF IInv, Machine

\* MCU_trsync::stop(): the next micro-controller is asked.
LEMMA SendQueryKeeps ==
    ASSUME IInv, SendQuery
    PROVE  IInv'
<1> DEFINE m == Head(todo)
<1>1. TypeOK /\ Host /\ \A k \in Mcus : Machine(k)
  BY DEF IInv
<1>2. /\ pc = "stopping" /\ todo # <<>> /\ pc' = "query" /\ retries' = 0
      /\ last_params' = NoParams
      /\ waiting' = [waiting EXCEPT ![m] = FALSE]
      /\ handler' = [handler EXCEPT ![m] = "query"]
      /\ h2m' = [h2m EXCEPT ![m] = Append(@, Cmd("query", HOST_REQUEST))]
      /\ SameMachines /\ UNCHANGED <<m2h, td_can_trigger, td_active, last_status,
           expire_clock, completion, home_end_clock, in_shutdown,
           print_time, todo, reasons, result, given_up, rounds, lost, shutdowns>>
  BY DEF SendQuery, SameMachines, trsyncVars, endstopVars, tdVars
<1>3. Mcus' = Mcus /\ n' = n /\ now' = now /\ 1 \in Mcus /\ n \in Nat
  BY <1>1, <1>2, Basics DEF SameMachines, Mcus
<1>4. FirmwareTypes /\ LinkTypes /\ HostTypes
  BY <1>1 DEF TypeOK
<1>5. m \in Mcus /\ m = n - Len(todo) + 1
  <2>1. todo \in Seq(Mcus) /\ Len(todo) \in Nat /\ Len(todo) # 0
    BY <1>2, <1>4 DEF HostTypes
  <2>2. m = todo[1] /\ 1 \in 1..Len(todo)
    BY <2>1, <1>2
  <2> QED  BY <2>1, <2>2, <1>1 DEF Host, Asking
<1> HIDE DEF m
<1>6. Cmd("query", HOST_REQUEST) \in Commands /\ HOST_REQUEST \in Nat /\ HOST_REQUEST \in {2, 3}
  BY DEF Cmd, Commands, HOST_REQUEST
<1>7. /\ h2m' \in [Mcus -> Seq(Commands)]
      /\ \A k \in Mcus : k # m => h2m'[k] = h2m[k]
      /\ \A k \in Mcus : \E s : /\ Harmless(s, k) /\ h2m'[k] = h2m[k] \o s
                                /\ \A j \in Mcus : j # k => AtMost(s, Bound(j))
      /\ \A k \in Mcus : \A d : Has(h2m'[k], d) <=> Has(h2m[k], d) \/ (k = m /\ d = "query")
      /\ \A k \in Mcus : QueryLast(h2m[k]) /\ ~Has(h2m[k], "query") => QueryLast(h2m'[k])
      /\ \A k \in Mcus : StartFirst(h2m[k]) => StartFirst(h2m'[k])
      /\ \A k \in Mcus : \A d, b : ArgIs(h2m[k], d, b) /\ d # "query" => ArgIs(h2m'[k], d, b)
      /\ \A k \in Mcus : OffAfter(h2m[k]) => OffAfter(h2m'[k])
      /\ \A k \in Mcus : \A d : HeadIs(h2m'[k], d) => HeadIs(h2m[k], d) \/ d = "query"
  BY <1>1, <1>2, <1>5, <1>6, SendOne, ZenonT(30)
<1>8. TypeOK'
  <2>1. FirmwareTypes'
    BY <1>2, <1>3, <1>4 DEF FirmwareTypes, SameMachines
  <2>2. LinkTypes'
    BY <1>2, <1>3, <1>4, <1>7 DEF LinkTypes
  <2>3. HostTypes'
    BY <1>2, <1>3, <1>4, <1>5, SyncAssumption DEF HostTypes
  <2> QED  BY <1>1, <1>3, <2>1, <2>2, <2>3 DEF TypeOK
<1>9. \A k \in Mcus :
        /\ Firmware(k)' /\ Line(k)' /\ Timed(k)' /\ Clocks(k)'
        /\ Off(k)' = Off(k) /\ Asleep(k)' = Asleep(k) /\ Stopped(k)' = Stopped(k)
  <2>1. \A k \in Mcus : last_status'[k] <= Known(k) /\ Read(k)
    BY <1>1, <1>2 DEF Machine, Clocks, Read
  <2> QED  BY <2>1, <1>1, <1>2, <1>7, <1>8, HostAction
<1>10. \A k \in Mcus : /\ Asked(k)' = Asked(k) /\ (Current(k)' <=> k = m) /\ ~Current(k)
  BY <1>2, <1>3, <1>5 DEF Asked, Current
<1>11. Asked(m)
  <2>1. Len(todo) \in Nat
    BY <1>4 DEF HostTypes
  <2> QED  BY <2>1, <1>3, <1>5 DEF Asked
<1>12. ASSUME NEW k \in Mcus
       PROVE  Answers(k)' /\ Starts(k)' /\ Completing(k)' /\ Reported(k)'
  <2>1. Answers(k) /\ Starts(k) /\ Completing(k) /\ Reported(k)
    BY <1>1 DEF Machine
  <2>2. /\ ~Current(k) /\ Asleep(k)' = Asleep(k) /\ Stopped(k)' = Stopped(k)
    BY <1>9, <1>10
  <2>3. ~Has(h2m[k], "query") /\ ~HasKind(m2h[k], "ack")
    BY <2>1, <2>2 DEF Answers
  <2>4. /\ QueryLast(h2m'[k]) /\ (Has(h2m'[k], "query") <=> Current(k)')
        /\ Has(h2m'[k], "start") <=> Has(h2m[k], "start")
        /\ StartFirst(h2m[k]) => StartFirst(h2m'[k])
        /\ ArgIs(h2m[k], "start", print_time) => ArgIs(h2m'[k], "start", print_time)
    BY <1>7, <1>10, <2>1, <2>3 DEF Answers
  <2>5. ~Asked(k) => Settled(k)'
    <3>1. ~Asked(k) => k # m /\ Settled(k)
      BY <1>2, <1>11, <2>1 DEF Answers
    <3> QED  BY <3>1, <1>2, <1>7, <2>2 DEF Settled, QuietIn, SameMachines
  <2>6. Answers(k)'
    BY <1>2, <1>10, <2>1, <2>3, <2>4, <2>5 DEF Answers
  <2>7. Starts(k)' /\ Completing(k)' /\ Reported(k)'
    BY <1>2, <2>1, <2>2, <2>4 DEF Starts, Completing, Reported, SameMachines
  <2> QED  BY <2>6, <2>7
<1>13. Host'
  <2>1. Endstop'
    BY <1>1, <1>2, <1>3, <1>7 DEF Host, Endstop, SameMachines
  <2>2. \A k \in Mcus : handler'[k] = "query" <=> Current(k)'
    BY <1>1, <1>2, <1>4, <1>10 DEF Host, Asking, HostTypes
  <2>3. Asking'
    BY <2>2, <1>1, <1>2, <1>3 DEF Host, Asking
  <2>4. Completed' /\ Judged'
    BY <1>1, <1>2, <1>3, <1>10 DEF Host, Completed, Judged, SameMachines
  <2> QED  BY <2>1, <2>3, <2>4, <1>1, <1>2, <1>3 DEF Host
<1> QED  BY <1>3, <1>8, <1>9, <1>12, <1>13 DEF IInv, Machine

\* MCU::handle_shutdown(): everybody else is stopped too.
LEMMA HandleShutdownKeeps ==
    ASSUME IInv, NEW m \in Mcus, HandleShutdown(m)
    PROVE  IInv'
<1>1. TypeOK /\ Host /\ \A k \in Mcus : Machine(k)
  BY DEF IInv
<1>2. /\ m2h[m] # <<>> /\ Head(m2h[m]).kind = "shutdown"
      /\ m2h' = [m2h EXCEPT ![m] = Tail(@)] /\ in_shutdown' = TRUE
      /\ SameMachines /\ UNCHANGED <<td_can_trigger, td_active, last_status, expire_clock,
           pc, print_time, todo, retries, reasons, result, given_up, rounds, handler,
           home_end_clock, last_params, lost, shutdowns>>
  BY DEF HandleShutdown, SameMachines, trsyncVars, endstopVars, tdVars, moveVars
<1>3. Mcus' = Mcus /\ n' = n /\ now' = now /\ 1 \in Mcus
  BY <1>1, <1>2, Basics DEF SameMachines, Mcus
<1>4. FirmwareTypes /\ LinkTypes /\ HostTypes /\ m2h[m] \in Seq(Messages)
      /\ h2m \in [Mcus -> Seq(Commands)]
  BY <1>1 DEF TypeOK, LinkTypes
<1>5. /\ completion' \in {completion, "done"}
      /\ waiting' \in [Mcus -> BOOLEAN]
      /\ h2m' = h2m \/ Broadcast([k \in Mcus |-> IF k = m THEN <<>>
                                               ELSE <<Cmd("emergency_stop", 0)>>])
  <2>1. CASE in_shutdown
    BY <2>1, <1>4 DEF HandleShutdown, HostTypes
  <2>2. CASE ~in_shutdown
    BY <2>2 DEF HandleShutdown
  <2> QED  BY <2>1, <2>2
<1> DEFINE x == Cmd("emergency_stop", 0)
<1>6. \A k \in Mcus : h2m'[k] = h2m[k] \/ h2m'[k] = Append(h2m[k], x)
  <2>1. \A q \in Seq(Commands) : q \o <<>> = q /\ q \o <<x>> = Append(q, x)
    BY DEF Cmd, Commands
  <2>2. CASE h2m' = h2m
    BY <2>2
  <2>3. CASE Broadcast([k \in Mcus |-> IF k = m THEN <<>> ELSE <<x>>])
    <3>1. \A k \in Mcus : h2m'[k] = h2m[k] \o (IF k = m THEN <<>> ELSE <<x>>)
      BY <2>3 DEF Broadcast
    <3> HIDE DEF x
    <3> QED  BY <3>1, <2>1, <1>4
  <2> QED  BY <2>2, <2>3, <1>5
<1>7. DOMAIN h2m' = Mcus /\ h2m' = [k \in Mcus |-> h2m'[k]]
  <2>1. CASE h2m' = h2m
    BY <2>1, <1>4
  <2>2. CASE Broadcast([k \in Mcus |-> IF k = m THEN <<>> ELSE <<x>>])
    <3>1. h2m' = [k \in Mcus |-> h2m[k] \o [j \in Mcus |-> IF j = m THEN <<>> ELSE <<x>>][k]]
      BY <2>2, Zenon DEF Broadcast
    <3> QED  BY <3>1
  <2> QED  BY <2>1, <2>2, <1>5
<1>8. x \in Commands /\ x = Cmd("emergency_stop", 0) /\ 0 \in Nat
  BY DEF Cmd, Commands
<1>9. \A k : Harmless(<<x>>, k) /\ \A b : AtMost(<<x>>, b)
  <2> HIDE DEF Harmless
  <2> QED  BY <1>8, OneSent
<1> HIDE DEF x
<1>10. \A k \in Mcus :
         /\ h2m'[k] \in Seq(Commands)
         /\ \A d : d # "emergency_stop" => (Has(h2m'[k], d) <=> Has(h2m[k], d))
         /\ Bare(h2m'[k]) <=> Bare(h2m[k])
         /\ QueryLast(h2m[k]) => QueryLast(h2m'[k])
         /\ StartFirst(h2m[k]) => StartFirst(h2m'[k])
         /\ \A d, b : ArgIs(h2m[k], d, b) /\ d # "emergency_stop" => ArgIs(h2m'[k], d, b)
         /\ OffAfter(h2m[k]) => OffAfter(h2m'[k])
         /\ \A d : HeadIs(h2m'[k], d) => HeadIs(h2m[k], d) \/ d = "emergency_stop"
         /\ \E s : /\ Harmless(s, k) /\ h2m'[k] = h2m[k] \o s
                   /\ \A j \in Mcus : j # k => AtMost(s, Bound(j))
  <2> SUFFICES ASSUME NEW k \in Mcus
      PROVE /\ h2m'[k] \in Seq(Commands)
            /\ \A d : d # "emergency_stop" => (Has(h2m'[k], d) <=> Has(h2m[k], d))
            /\ Bare(h2m'[k]) <=> Bare(h2m[k])
            /\ QueryLast(h2m[k]) => QueryLast(h2m'[k])
            /\ StartFirst(h2m[k]) => StartFirst(h2m'[k])
            /\ \A d, b : ArgIs(h2m[k], d, b) /\ d # "emergency_stop" => ArgIs(h2m'[k], d, b)
            /\ OffAfter(h2m[k]) => OffAfter(h2m'[k])
            /\ \A d : HeadIs(h2m'[k], d) => HeadIs(h2m[k], d) \/ d = "emergency_stop"
            /\ \E s : /\ Harmless(s, k) /\ h2m'[k] = h2m[k] \o s
                      /\ \A j \in Mcus : j # k => AtMost(s, Bound(j))
    OBVIOUS
  <2>1. h2m[k] \in Seq(Commands)
    BY <1>4
  <2>2. CASE h2m'[k] = h2m[k]
    BY <2>1, <2>2, <1>1, NothingSent
  <2>3. CASE h2m'[k] = Append(h2m[k], x)
    <3> DEFINE q == h2m[k]
               r == h2m'[k]
    <3>1. q \in Seq(Commands) /\ r = Append(q, x)
      BY <2>1, <2>3
    <3> HIDE DEF q, r
    <3>2. More(q, r, "emergency_stop", 0)
      BY <3>1, <1>8, OneMore
    <3>3. r = q \o <<x>>
      BY <3>1, <1>8
    <3>4. \E s : /\ Harmless(s, k) /\ r = q \o s
                 /\ \A j \in Mcus : j # k => AtMost(s, Bound(j))
      BY <3>3, <1>9
    <3> QED  BY <3>2, <3>4 DEF q, r, More
  <2> QED  BY <2>2, <2>3, <1>6
<1>11. /\ \A k \in Mcus : Read(k) /\ m2h[k] \in Seq(Messages)
       /\ \A k \in Mcus : HasKind(m2h'[k], "ack") <=> HasKind(m2h[k], "ack")
       /\ Tail(m2h[m]) \in Seq(Messages) /\ is_shutdown[m]
  <2>1. Tail(m2h[m]) \in Seq(Messages) /\ HasKind(m2h[m], "shutdown")
        /\ (HasKind(Tail(m2h[m]), "ack") <=> HasKind(m2h[m], "ack"))
    BY <1>2, <1>4, MessagesTail
  <2>2. is_shutdown[m]
    BY <2>1, <1>1 DEF Machine, Firmware
  <2> QED  BY <1>2, <1>4, <2>1, <2>2 DEF LinkTypes, Read
<1>12. TypeOK'
  <2>1. FirmwareTypes'
    BY <1>2, <1>3, <1>4 DEF FirmwareTypes, SameMachines
  <2>2. h2m' \in [Mcus -> Seq(Commands)]
    BY <1>7, <1>10
  <2>3. LinkTypes'
    BY <2>2, <1>2, <1>3, <1>4, <1>11 DEF LinkTypes
  <2>4. HostTypes'
    BY <1>2, <1>3, <1>4, <1>5 DEF HostTypes
  <2> QED  BY <1>1, <1>3, <2>1, <2>3, <2>4 DEF TypeOK
<1>13. \A k \in Mcus :
         /\ Firmware(k)' /\ Line(k)' /\ Timed(k)' /\ Clocks(k)'
         /\ Off(k)' = Off(k) /\ Asleep(k)' = Asleep(k) /\ Stopped(k)' = Stopped(k)
  <2>1. \A k \in Mcus : last_status'[k] <= Known(k)
    BY <1>1, <1>2 DEF Machine, Clocks
  <2> QED  BY <2>1, <1>1, <1>2, <1>10, <1>11, <1>12, HostAction
<1>14. ASSUME NEW k \in Mcus
       PROVE  Answers(k)' /\ Starts(k)' /\ Completing(k)' /\ Reported(k)'
  <2>1. Answers(k) /\ Starts(k) /\ Completing(k) /\ Reported(k)
    BY <1>1 DEF Machine
  <2>2. /\ Drained(m2h[k]) => Drained(m2h'[k])
        /\ HasFalse(m2h'[k]) => HasFalse(m2h[k])
        /\ \A r : ReasonsAre(m2h[k], r) => ReasonsAre(m2h'[k], r)
        /\ AckLast(m2h[k]) => AckLast(m2h'[k])
        /\ HasKind(m2h'[k], "ack") <=> HasKind(m2h[k], "ack")
    BY <1>11, ReadFacts
  <2>3. /\ QueryLast(h2m[k]) => QueryLast(h2m'[k])
        /\ StartFirst(h2m[k]) => StartFirst(h2m'[k])
        /\ Has(h2m'[k], "query") <=> Has(h2m[k], "query")
        /\ Has(h2m'[k], "start") <=> Has(h2m[k], "start")
        /\ ArgIs(h2m[k], "start", print_time) => ArgIs(h2m'[k], "start", print_time)
        /\ Bare(h2m'[k]) <=> Bare(h2m[k])
    BY <1>10
  <2>4. /\ Asked(k)' = Asked(k) /\ Current(k)' = Current(k) /\ (QuietIn(k)' <=> QuietIn(k))
        /\ Asleep(k)' = Asleep(k) /\ Stopped(k)' = Stopped(k)
        /\ Settled(k) => Settled(k)'
    BY <1>2, <1>3, <1>13, <2>2, <2>3 DEF Asked, Current, QuietIn, Settled, SameMachines
  <2>5. Answers(k)'
    BY <1>2, <1>3, <2>1, <2>2, <2>3, <2>4 DEF Answers
  <2>6. Starts(k)' /\ Completing(k)' /\ Reported(k)'
    BY <1>2, <1>3, <2>1, <2>2, <2>3, <2>4 DEF Starts, Completing, Reported, SameMachines
  <2> QED  BY <2>5, <2>6
<1>15. Host'
  <2>1. Endstop'
    BY <1>1, <1>2, <1>3, <1>10 DEF Host, Endstop, SameMachines
  <2>2. Asking' /\ Judged'
    BY <1>1, <1>2, <1>3 DEF Host, Asking, Current, Judged, Asked, SameMachines
  <2>3. Completed'
    BY <1>2, <1>3, <1>11 DEF Completed, Stopped, SameMachines
  <2> QED  BY <2>1, <2>2, <2>3, <1>1, <1>2, <1>3 DEF Host
<1> QED  BY <1>3, <1>12, <1>13, <1>14, <1>15 DEF IInv, Machine

\* The answer of a micro-controller, or none: it is quiet now in any case.
LEMMA QueryAckedKeeps ==
    ASSUME IInv, NEW m \in Mcus, QueryAcked(m)
    PROVE  IInv'
<1>1. TypeOK /\ Host /\ \A k \in Mcus : Machine(k)
  BY DEF IInv
<1>2. /\ m2h[m] # <<>> /\ Head(m2h[m]).kind = "ack"
      /\ m2h' = [m2h EXCEPT ![m] = Tail(@)]
      /\ SameMachines /\ UNCHANGED <<td_can_trigger, td_active, last_status, expire_clock,
           completion, waiting, home_end_clock, last_params, in_shutdown, print_time,
           rounds, lost, shutdowns>>
  BY DEF QueryAcked, SameMachines, trsyncVars, endstopVars, tdVars
<1>3. Mcus' = Mcus /\ n' = n /\ now' = now /\ 1 \in Mcus /\ n \in Nat
  BY <1>1, <1>2, Basics DEF SameMachines, Mcus
<1>4. FirmwareTypes /\ LinkTypes /\ HostTypes /\ m2h[m] \in Seq(Messages)
      /\ h2m \in [Mcus -> Seq(Commands)]
  BY <1>1 DEF TypeOK, LinkTypes
<1>5. /\ \A k \in Mcus : Read(k) /\ m2h[k] \in Seq(Messages)
      /\ Tail(m2h[m]) \in Seq(Messages)
      /\ Current(m) /\ QuietIn(m) /\ Drained(m2h'[m])
  <2>1. /\ Tail(m2h[m]) \in Seq(Messages) /\ HasKind(m2h[m], "ack")
        /\ m2h[m][1].kind = "ack"
    BY <1>2, <1>4, MessagesTail
  <2>2. Current(m) /\ QuietIn(m) /\ AckLast(m2h[m])
    BY <2>1, <1>1 DEF Machine, Answers
  <2>3. Drained(Tail(m2h[m]))
    BY <2>1, <2>2, <1>2, <1>4, AckLastTail
  <2> QED  BY <1>2, <1>4, <2>1, <2>2, <2>3 DEF LinkTypes, Read
<1>6. /\ todo \in Seq(Mcus) /\ Len(todo) \in Nat /\ Len(todo) # 0
      /\ Len(Tail(todo)) = Len(todo) - 1 /\ Tail(todo) \in Seq(Mcus)
      /\ \A i \in 1..Len(Tail(todo)) : Tail(todo)[i] = todo[i + 1] /\ i + 1 \in 1..Len(todo)
      /\ pc = "query" /\ todo # <<>> /\ m = n - Len(todo) + 1
  <2>1. pc = "query" /\ m = n - Len(todo) + 1 /\ todo # <<>> /\ todo \in Seq(Mcus)
    BY <1>1, <1>4, <1>5 DEF Current, Host, Asking, HostTypes
  <2> QED  BY <2>1
<1>7. \A k \in Mcus : /\ Current(k) <=> k = m
                      /\ ~Asked(k) <=> k < m
                      /\ k # m => ~HasKind(m2h[k], "ack") /\ ~Has(h2m[k], "query")
                      /\ ~HasKind(m2h'[k], "ack")
  <2>1. \A k \in Mcus : k \in Nat
    BY DEF Mcus
  <2>2. \A k \in Mcus : Current(k) <=> k = m
    BY <1>6 DEF Current
  <2>3. \A k \in Mcus : ~Asked(k) <=> k < m
    BY <1>3, <1>6, <2>1 DEF Asked
  <2>4. \A k \in Mcus : k # m => ~HasKind(m2h[k], "ack") /\ ~Has(h2m[k], "query")
    BY <2>2, <1>1 DEF Machine, Answers
  <2>5. ~HasKind(m2h'[m], "ack")
    <3>1. m2h'[m] \in Seq(Messages)
      BY <1>2, <1>4, <1>5 DEF LinkTypes
    <3> QED  BY <3>1, <1>5, MessagesPlain
  <2> QED  BY <2>2, <2>3, <2>4, <2>5, <1>2
<1>8. \A k \in Mcus : /\ Drained(m2h[k]) => Drained(m2h'[k])
                      /\ HasFalse(m2h'[k]) => HasFalse(m2h[k])
                      /\ \A r : ReasonsAre(m2h[k], r) => ReasonsAre(m2h'[k], r)
                      /\ AckLast(m2h[k]) => AckLast(m2h'[k])
  BY <1>5, ReadFacts
<1>9. ~Has(h2m[m], "query") /\ ~Has(h2m[m], "start")
  BY <1>4, <1>5, BareFacts DEF QuietIn
<1>10. FirmwareTypes' /\ m2h' \in [Mcus -> Seq(Messages)]
  BY <1>2, <1>3, <1>4, <1>5 DEF FirmwareTypes, SameMachines, LinkTypes
<1>11. \A k \in Mcus : last_status'[k] <= Known(k) /\ Read(k)
  BY <1>1, <1>2, <1>5 DEF Machine, Clocks
<1>12. CASE last_params # NoParams
  <2>1. /\ reasons' = [reasons EXCEPT ![m] = last_params]
        /\ handler' = [handler EXCEPT ![m] = "none"]
        /\ pc' = "stopping" /\ todo' = Tail(todo)
        /\ UNCHANGED <<retries, result, given_up, h2m>>
    BY <1>12 DEF QueryAcked
  <2>2. TypeOK'
    <3>1. LinkTypes'
      BY <1>2, <1>3, <1>4, <1>10, <2>1 DEF LinkTypes
    <3>2. HostTypes'
      BY <1>2, <1>3, <1>4, <1>6, <1>12, <2>1 DEF HostTypes
    <3> QED  BY <1>1, <1>3, <1>10, <3>1, <3>2 DEF TypeOK
  <2>3. \A k \in Mcus :
          /\ Firmware(k)' /\ Line(k)' /\ Timed(k)' /\ Clocks(k)'
          /\ Off(k)' = Off(k) /\ Asleep(k)' = Asleep(k) /\ Stopped(k)' = Stopped(k)
    <3>1. \A k \in Mcus : \E s : /\ Harmless(s, k) /\ h2m'[k] = h2m[k] \o s
                                 /\ \A j \in Mcus : j # k => AtMost(s, Bound(j))
      BY <1>1, <2>1, NothingSent
    <3> QED  BY <3>1, <1>2, <1>11, <2>2, HostAction
  <2>4. \A k \in Mcus : ~Current(k)' /\ (~Asked(k)' <=> k <= m)
    <3>1. \A k \in Mcus : k \in Nat
      BY DEF Mcus
    <3> QED  BY <3>1, <2>1, <1>3, <1>6 DEF Current, Asked
  <2>5. ASSUME NEW k \in Mcus
        PROVE  Answers(k)' /\ Starts(k)' /\ Completing(k)' /\ Reported(k)'
    <3>1. Answers(k) /\ Starts(k) /\ Completing(k) /\ Reported(k)
      BY <1>1 DEF Machine
    <3>2. QuietIn(k)' = QuietIn(k)
      BY <1>2, <2>1, <2>3 DEF QuietIn, SameMachines
    <3>3. k <= m => Settled(k)'
      <4>1. k \in Nat /\ m \in Nat
        BY DEF Mcus
      <4>2. k < m => Settled(k)
        BY <1>6, <1>7, <3>1 DEF Answers
      <4> QED  BY <4>1, <4>2, <3>2, <1>5, <1>8 DEF Settled
    <3>4. Answers(k)'
      BY <1>7, <1>8, <1>9, <2>1, <2>4, <3>1, <3>3 DEF Answers
    <3>5. Starts(k)' /\ Completing(k)' /\ Reported(k)'
      BY <1>2, <1>8, <2>1, <2>3, <2>4, <3>1 DEF Starts, Completing, Reported, SameMachines
    <3> QED  BY <3>4, <3>5
  <2>6. Host'
    <3>1. Asking'
      <4>1. \A i \in 1..Len(todo') : todo'[i] = n - Len(todo') + i
        BY <1>1, <1>3, <1>6, <2>1 DEF Host, Asking
      <4>2. Len(todo') <= n
        BY <1>1, <1>3, <1>6, <2>1 DEF Host, Asking
      <4>3. \A k \in Mcus : handler'[k] # "query"
        BY <1>1, <1>4, <1>7, <2>1 DEF Host, Asking, HostTypes
      <4> QED  BY <4>1, <4>2, <4>3, <1>3, <2>1, <2>4 DEF Asking
    <3>2. Endstop' /\ Completed'
      BY <1>1, <1>2, <1>3, <1>6, <2>1 DEF Host, Endstop, Completed, SameMachines
    <3>3. Judged'
      <4>1. CASE m = 1
        <5>1. Reported(1) /\ Current(1)
          BY <4>1, <1>1, <1>5 DEF Machine
        <5>2. reasons'[1] = last_params
          BY <4>1, <1>4, <2>1 DEF HostTypes
        <5> QED  BY <5>1, <5>2, <1>2, <1>12, <2>1
                 DEF Reported, Judged, SameMachines, ENDSTOP_HIT
      <4>2. CASE m # 1
        <5>1. reasons'[1] = reasons[1] /\ ~Asked(1)
          <6>1. m \in Nat /\ m > 1
            BY <4>2 DEF Mcus
          <6> QED  BY <6>1, <1>3, <1>4, <1>7, <2>1 DEF HostTypes
        <5> QED  BY <5>1, <1>1, <1>2, <1>6, <2>1 DEF Host, Judged, SameMachines
      <4> QED  BY <4>1, <4>2
    <3> QED  BY <3>1, <3>2, <3>3, <1>1, <1>2, <1>3, <1>6 DEF Host
  <2> QED  BY <1>3, <2>2, <2>3, <2>5, <2>6 DEF IInv, Machine
<1>13. CASE last_params = NoParams /\ MayRetry
  <2>1. /\ retries' = retries + 1
        /\ h2m' = [h2m EXCEPT ![m] = Append(@, Cmd("query", HOST_REQUEST))]
        /\ UNCHANGED <<handler, pc, todo, reasons, result, given_up>>
    BY <1>13 DEF QueryAcked
  <2>2. Cmd("query", HOST_REQUEST) \in Commands /\ HOST_REQUEST \in Nat
        /\ HOST_REQUEST \in {2, 3}
    BY DEF Cmd, Commands, HOST_REQUEST
  <2>3. /\ h2m' \in [Mcus -> Seq(Commands)]
        /\ \A k \in Mcus : k # m => h2m'[k] = h2m[k]
        /\ \A k \in Mcus : \E s : /\ Harmless(s, k) /\ h2m'[k] = h2m[k] \o s
                                  /\ \A j \in Mcus : j # k => AtMost(s, Bound(j))
        /\ \A k \in Mcus : \A d : Has(h2m'[k], d) <=> Has(h2m[k], d) \/ (k = m /\ d = "query")
        /\ \A k \in Mcus : QueryLast(h2m[k]) /\ ~Has(h2m[k], "query") => QueryLast(h2m'[k])
        /\ \A k \in Mcus : StartFirst(h2m[k]) => StartFirst(h2m'[k])
        /\ \A k \in Mcus : \A d, b : ArgIs(h2m[k], d, b) /\ d # "query"
                                       => ArgIs(h2m'[k], d, b)
        /\ \A k \in Mcus : OffAfter(h2m[k]) => OffAfter(h2m'[k])
        /\ \A k \in Mcus : \A d : HeadIs(h2m'[k], d) => HeadIs(h2m[k], d) \/ d = "query"
    BY <1>1, <2>1, <2>2, SendOne
  <2>4. TypeOK'
    <3>1. LinkTypes'
      BY <1>2, <1>3, <1>4, <1>10, <2>3 DEF LinkTypes
    <3>2. retries' \in 0..Retries
      BY <1>4, <1>13, <2>1, SyncAssumption DEF HostTypes, MayRetry
    <3>3. HostTypes'
      BY <1>2, <1>3, <1>4, <2>1, <3>2 DEF HostTypes
    <3> QED  BY <1>1, <1>3, <1>10, <3>1, <3>3 DEF TypeOK
  <2>5. \A k \in Mcus :
          /\ Firmware(k)' /\ Line(k)' /\ Timed(k)' /\ Clocks(k)'
          /\ Off(k)' = Off(k) /\ Asleep(k)' = Asleep(k) /\ Stopped(k)' = Stopped(k)
    BY <1>2, <1>11, <2>3, <2>4, HostAction
  <2>6. \A k \in Mcus : (Current(k)' <=> k = m) /\ Asked(k)' = Asked(k)
    BY <1>3, <1>7, <2>1 DEF Current, Asked
  <2>7. ASSUME NEW k \in Mcus
        PROVE  Answers(k)' /\ Starts(k)' /\ Completing(k)' /\ Reported(k)'
    <3>1. Answers(k) /\ Starts(k) /\ Completing(k) /\ Reported(k)
      BY <1>1 DEF Machine
    <3>2. /\ QueryLast(h2m'[k]) /\ (Has(h2m'[k], "query") <=> k = m)
          /\ Has(h2m'[k], "start") <=> Has(h2m[k], "start")
          /\ StartFirst(h2m[k]) => StartFirst(h2m'[k])
          /\ ArgIs(h2m[k], "start", print_time) => ArgIs(h2m'[k], "start", print_time)
      BY <1>7, <1>9, <2>3, <3>1 DEF Answers
    <3>3. ~Asked(k) => Settled(k)'
      <4>1. ~Asked(k) => k # m /\ Settled(k)
        <5>1. ~(m < m)
          BY DEF Mcus
        <5> QED  BY <5>1, <1>6, <1>7, <3>1 DEF Answers
      <4> QED  BY <4>1, <1>2, <1>8, <2>3, <2>5 DEF Settled, QuietIn, SameMachines
    <3>4. Answers(k)'
      BY <1>6, <1>7, <1>8, <2>1, <2>6, <3>1, <3>2, <3>3 DEF Answers
    <3>5. Starts(k)' /\ Completing(k)' /\ Reported(k)'
      BY <1>2, <1>6, <1>8, <1>13, <2>1, <2>5, <2>6, <3>1, <3>2
         DEF Starts, Completing, Reported, SameMachines
    <3> QED  BY <3>4, <3>5
  <2>8. Host'
    <3>1. Asking'
      BY <1>1, <1>3, <1>7, <2>1, <2>6 DEF Host, Asking
    <3>2. Endstop'
      BY <1>1, <1>2, <1>3, <2>1, <2>3 DEF Host, Endstop, SameMachines
    <3>3. Completed' /\ Judged'
      BY <1>1, <1>2, <1>3, <1>6, <2>1, <2>6 DEF Host, Completed, Judged, SameMachines
    <3> QED  BY <3>1, <3>2, <3>3, <1>1, <1>2, <1>3, <1>6, <2>1 DEF Host
  <2> QED  BY <1>3, <2>4, <2>5, <2>7, <2>8 DEF IInv, Machine
<1>14. CASE last_params = NoParams /\ ~MayRetry
  <2>1. /\ pc' = "idle" /\ todo' = <<>> /\ result' = "error" /\ given_up' = TRUE
        /\ handler' = [handler EXCEPT ![m] = "none"]
        /\ UNCHANGED <<retries, reasons, h2m>>
    BY <1>14 DEF QueryAcked
  <2>2. TypeOK'
    <3>1. LinkTypes'
      BY <1>2, <1>3, <1>4, <1>10, <2>1 DEF LinkTypes
    <3>2. HostTypes'
      BY <1>2, <1>3, <1>4, <2>1 DEF HostTypes
    <3> QED  BY <1>1, <1>3, <1>10, <3>1, <3>2 DEF TypeOK
  <2>3. \A k \in Mcus :
          /\ Firmware(k)' /\ Line(k)' /\ Timed(k)' /\ Clocks(k)'
          /\ Off(k)' = Off(k) /\ Asleep(k)' = Asleep(k) /\ Stopped(k)' = Stopped(k)
    <3>1. \A k \in Mcus : \E s : /\ Harmless(s, k) /\ h2m'[k] = h2m[k] \o s
                                 /\ \A j \in Mcus : j # k => AtMost(s, Bound(j))
      BY <1>1, <2>1, NothingSent
    <3> QED  BY <3>1, <1>2, <1>11, <2>2, HostAction
  <2>4. \A k \in Mcus : ~Current(k)'
    BY <2>1 DEF Current
  <2>5. Settled(1)' /\ Bare(h2m[1])
    <3>1. Answers(1)
      BY <1>1, <1>3 DEF Machine
    <3>2. QuietIn(1)' = QuietIn(1)
      BY <1>2, <1>3, <2>1, <2>3 DEF QuietIn, SameMachines
    <3>3. CASE m = 1
      BY <3>2, <3>3, <1>5 DEF Settled, QuietIn
    <3>4. CASE m # 1
      <4>1. 1 < m
        BY <3>4 DEF Mcus
      <4>2. Settled(1)
        BY <4>1, <1>3, <1>6, <1>7, <3>1 DEF Answers
      <4> QED  BY <4>2, <3>2, <1>3, <1>8 DEF Settled, QuietIn
    <3> QED  BY <3>3, <3>4
  <2>6. ASSUME NEW k \in Mcus
        PROVE  Answers(k)' /\ Starts(k)' /\ Completing(k)' /\ Reported(k)'
    <3>1. Answers(k) /\ Starts(k) /\ Completing(k) /\ Reported(k)
      BY <1>1 DEF Machine
    <3>2. Answers(k)'
      BY <1>7, <1>8, <1>9, <2>1, <2>4, <2>5, <3>1 DEF Answers
    <3>3. k = 1 => ~Has(h2m[k], "start")
      BY <1>3, <1>4, <2>5, BareFacts
    <3>4. Starts(k)' /\ Completing(k)'
      BY <3>3, <2>1 DEF Starts, Completing
    <3>5. Reported(k)'
      BY <1>2, <1>8, <2>1, <2>4, <3>1 DEF Reported, SameMachines
    <3> QED  BY <3>2, <3>4, <3>5
  <2>7. Host'
    <3>1. Asking'
      <4>1. \A k \in Mcus : handler'[k] # "query"
        BY <1>1, <1>4, <1>7, <2>1 DEF Host, Asking, HostTypes
      <4> QED  BY <4>1, <1>3, <2>1, <2>4 DEF Asking
    <3>2. Endstop' /\ Completed' /\ Judged'
      BY <1>1, <1>2, <1>3, <1>6, <2>1 DEF Host, Endstop, Completed, Judged, SameMachines
    <3> QED  BY <3>1, <3>2, <1>1, <1>2, <1>3, <1>6, <2>1 DEF Host
  <2> QED  BY <1>3, <2>2, <2>3, <2>6, <2>7 DEF IInv, Machine
<1> QED  BY <1>12, <1>13, <1>14

\* What the serial threads send in a move: timeouts that all others have earned.
LEMMA Earned ==
    ASSUME IInv, NEW m \in Mcus, ReceiveState(m)
    PROVE  /\ \A k \in Mcus : last_status'[k] <= Known(k) /\ last_status'[k] \in Nat
           /\ last_status' \in [Mcus -> Nat] /\ expire_clock' \in [Mcus -> Nat]
           /\ td_can_trigger' \in BOOLEAN /\ td_active' = td_active
           /\ Head(m2h[m]).can => \A k, j \in Mcus :
                j # k => NewExpire(k, NewStatus(m, Head(m2h[m]))) <= Bound(j)
<1> DEFINE f == Head(m2h[m])
           st == NewStatus(m, f)
<1>1. TypeOK /\ \A k \in Mcus : Clocks(k)
  BY DEF IInv, Machine
<1>2. /\ m2h[m] \in Seq(Messages) /\ m2h[m] # <<>> /\ f.kind = "state"
      /\ last_status \in [Mcus -> Nat] /\ expire_clock \in [Mcus -> Nat]
      /\ td_can_trigger \in BOOLEAN
  BY <1>1 DEF TypeOK, LinkTypes, HostTypes, ReceiveState
<1>3. f \in Messages /\ f = m2h[m][1] /\ (f.can => f.clock <= Limit(m))
  <2>1. ClocksBelow(m2h[m], Limit(m))
    BY <1>1 DEF Clocks
  <2> HIDE DEF f
  <2>2. f = m2h[m][1] /\ f \in Messages
    BY <1>2, MessagesTail DEF f
  <2> QED  BY <2>1, <2>2, <1>2, MessagesTail
<1>4. \A k \in Mcus : Limit(k) \in Nat /\ Known(k) \in Nat /\ Limit(k) <= Known(k)
  <2>1. \A k \in Mcus : Limit(k) \in Nat /\ Known(k) \in Nat
    BY <1>1, LimitTypes
  <2>2. print_time \in Nat
    BY <1>1 DEF TypeOK, HostTypes
  <2> QED  BY <2>1, <2>2 DEF Known
<1>5. st \in [Mcus -> Nat] /\ f.clock \in Nat
  BY <1>2, <1>3 DEF NewStatus, Messages
<1>6. f.can => \A k \in Mcus : st[k] <= Known(k)
  <2> SUFFICES ASSUME f.can, NEW k \in Mcus PROVE st[k] <= Known(k)
    OBVIOUS
  <2>1. CASE k = m
    <3>1. st[k] = f.clock
      BY <2>1, <1>2 DEF NewStatus
    <3> QED  BY <3>1, <2>1, <1>3, <1>4, <1>5
  <2>2. CASE k # m
    <3>1. st[k] = last_status[k]
      BY <2>2, <1>2 DEF NewStatus
    <3> QED  BY <3>1, <1>1 DEF Clocks
  <2> QED  BY <2>1, <2>2
<1>7. \A k \in Mcus : /\ StatusTime(k, st) \in Nat /\ NewExpire(k, st) \in Nat
                      /\ \A j \in Mcus : j # k => StatusTime(k, st) <= st[j]
  <2>1. \A k \in Mcus : /\ StatusTime(k, st) \in Nat
                        /\ \A j \in Mcus : j # k => StatusTime(k, st) <= st[j]
    <3> HIDE DEF st
    <3> QED  BY <1>1, <1>5, Basics, StatusFacts
  <2> QED  BY <2>1, <1>1, Basics DEF NewExpire
<1>8. f.can => \A k, j \in Mcus : j # k => NewExpire(k, st) <= Bound(j)
  <2> SUFFICES ASSUME f.can, NEW k \in Mcus, NEW j \in Mcus, j # k
               PROVE  NewExpire(k, st) <= Bound(j)
    OBVIOUS
  <2>1. StatusTime(k, st) \in Nat /\ StatusTime(k, st) <= st[j] /\ st[j] <= Known(j)
        /\ st[j] \in Nat /\ Known(j) \in Nat /\ expire_ticks \in Nat
    BY <1>1, <1>4, <1>5, <1>6, <1>7, Basics
  <2> HIDE DEF st, f
  <2>2. StatusTime(k, st) + expire_ticks <= Known(j) + expire_ticks
    BY <2>1
  <2> QED  BY <2>2 DEF NewExpire, Bound
<1>9. FastReader(m, f)
  BY DEF ReceiveState
<1>10. CASE Fast(f) /\ f.can
  <2>1. /\ last_status' = st /\ td_can_trigger' = td_can_trigger /\ td_active' = td_active
        /\ expire_clock' = [k \in Mcus |-> IF Extends(k, st) THEN NewExpire(k, st)
                                           ELSE expire_clock[k]]
    BY <1>9, <1>10 DEF FastReader
  <2>2. expire_clock' \in [Mcus -> Nat]
    <3> HIDE DEF st
    <3> QED  BY <2>1, <1>2, <1>7
  <2>3. \A k \in Mcus : last_status'[k] <= Known(k) /\ last_status'[k] \in Nat
    <3> HIDE DEF st
    <3> QED  BY <2>1, <1>5, <1>6, <1>10
  <2> HIDE DEF st
  <2> QED  BY <2>1, <2>2, <2>3, <1>2, <1>5, <1>8 DEF st
<1>11. CASE ~(Fast(f) /\ f.can)
  <2>1. /\ last_status' = last_status /\ td_active' = td_active /\ expire_clock' = expire_clock
        /\ td_can_trigger' = (td_can_trigger /\ ~Fast(f))
    BY <1>9, <1>11 DEF FastReader
  <2>2. \A k \in Mcus : last_status'[k] <= Known(k) /\ last_status'[k] \in Nat
    BY <2>1, <1>1, <1>2 DEF Clocks
  <2>3. td_can_trigger' \in BOOLEAN
    BY <2>1
  <2> QED  BY <2>1, <2>2, <2>3, <1>2, <1>8
<1> QED  BY <1>10, <1>11

\* r is q with timeouts and triggers behind it.
Fed(q, r) ==
    /\ \A d : d \notin {"set_timeout", "trigger"} => /\ Has(r, d) <=> Has(q, d)
                                                     /\ HeadIs(r, d) => HeadIs(q, d)
    /\ StartFirst(q) => StartFirst(r)
    /\ QueryLast(q) /\ ~Has(q, "query") => QueryLast(r)
    /\ \A d, b : d \notin {"set_timeout", "trigger"} /\ ArgIs(q, d, b) => ArgIs(r, d, b)
    /\ OffAfter(q) => OffAfter(r)

LEMMA FedFacts ==
    ASSUME NEW q \in Seq(Commands), NEW s \in Seq(Commands), NEW r, r = q \o s,
           \A c : Has(s, c) => c \in {"set_timeout", "trigger"}
    PROVE  Fed(q, r) /\ Framed(s) /\ ~HeadIs(s, "stop_on_trigger")
<1>1. \A c : HeadIs(s, c) => Has(s, c)
  <2>1. s # <<>> => 1 \in 1..Len(s)
    OBVIOUS
  <2> QED  BY <2>1 DEF HeadIs, Has
<1>2. Framed(s) /\ ~HeadIs(s, "stop_on_trigger")
  <2>1. ~Has(s, "start") /\ ~Has(s, "stop_on_trigger")
    OBVIOUS
  <2> QED  BY <2>1, <1>1, FramedPlain
<1>3. \A d : d \notin {"set_timeout", "trigger"} => (Has(r, d) <=> Has(q, d))
  BY HasCat
<1>4. \A d : d \notin {"set_timeout", "trigger"} /\ HeadIs(r, d) => HeadIs(q, d)
  <2>1. CASE q = <<>>
    <3>1. r = s
      BY <2>1, HeadCat
    <3> QED  BY <3>1, <1>1
  <2>2. CASE q # <<>>
    <3>1. \A d : HeadIs(r, d) <=> HeadIs(q, d)
      BY <2>2, HeadCat
    <3> QED  BY <3>1
  <2> QED  BY <2>1, <2>2
<1>5. ~Has(s, "start") /\ ~Has(s, "query") /\ ~Has(s, "endstop_home")
  BY SMTT(30)
<1>6. StartFirst(q) => StartFirst(r)
  BY <1>5, StartFirstCat, StartFirstPlain
<1>7. QueryLast(q) /\ ~Has(q, "query") => QueryLast(r)
  BY <1>5, QueryLastCat, QueryLastPlain
<1>8. \A d, b : d \notin {"set_timeout", "trigger"} /\ ArgIs(q, d, b) => ArgIs(r, d, b)
  <2>1. \A d, b : d \notin {"set_timeout", "trigger"} => ArgIs(s, d, b)
    <3>1. \A d : d \notin {"set_timeout", "trigger"} => ~Has(s, d)
      OBVIOUS
    <3> QED  BY <3>1, ArgsPlain
  <2> QED  BY <2>1, ArgsCat
<1>9. OffAfter(q) => OffAfter(r)
  BY <1>5, OffAfterCat
<1> QED  BY <1>2, <1>3, <1>4, <1>6, <1>7, <1>8, <1>9 DEF Fed

\* handle_trsync_state(), in the serial thread and in the reactor.
LEMMA ReceiveStateKeeps ==
    ASSUME IInv, NEW m \in Mcus, ReceiveState(m)
    PROVE  IInv'
<1> DEFINE f == Head(m2h[m])
<1>1. TypeOK /\ Host /\ \A k \in Mcus : Machine(k)
  BY DEF IInv
<1>2. /\ m2h[m] # <<>> /\ f.kind = "state"
      /\ m2h' = [m2h EXCEPT ![m] = Tail(@)]
      /\ waiting' = [waiting EXCEPT ![m] = @ /\ ~Triggered(m, f)]
      /\ completion' = (IF Triggered(m, f) THEN "done" ELSE completion)
      /\ home_end_clock' \in {0, home_end_clock}
      /\ last_params' = (IF handler[m] = "query" THEN f.reason ELSE last_params)
      /\ SameMachines /\ UNCHANGED <<pc, print_time, todo, retries, reasons, result,
           given_up, rounds, handler, in_shutdown, lost, shutdowns>>
  BY DEF ReceiveState, SameMachines, trsyncVars, endstopVars, moveVars
<1>3. Mcus' = Mcus /\ n' = n /\ now' = now /\ 1 \in Mcus
  BY <1>1, <1>2, Basics DEF SameMachines, Mcus
<1>4. FirmwareTypes /\ LinkTypes /\ HostTypes /\ m2h[m] \in Seq(Messages)
      /\ h2m \in [Mcus -> Seq(Commands)]
  BY <1>1 DEF TypeOK, LinkTypes
<1>5. /\ \A k \in Mcus : last_status'[k] <= Known(k) /\ last_status'[k] \in Nat
      /\ last_status' \in [Mcus -> Nat] /\ expire_clock' \in [Mcus -> Nat]
      /\ td_can_trigger' \in BOOLEAN /\ td_active' = td_active
      /\ f.can => \A k, j \in Mcus : j # k => NewExpire(k, NewStatus(m, f)) <= Bound(j)
  BY Earned
<1>6. /\ f \in Messages /\ Tail(m2h[m]) \in Seq(Messages)
      /\ ~Drained(m2h[m])
      /\ HasKind(Tail(m2h[m]), "ack") <=> HasKind(m2h[m], "ack")
      /\ ~f.can => HasFalse(m2h[m])
      /\ \A r : ReasonsAre(m2h[m], r) /\ ~f.can => f.reason = r
      /\ \A b : ClocksBelow(m2h[m], b) /\ f.can => f.reason = 0
  <2>1. f = m2h[m][1]
    BY <1>2, <1>4, MessagesTail
  <2> HIDE DEF f
  <2> QED  BY <2>1, <1>2, <1>4, MessagesTail
<1>7. /\ \A k \in Mcus : Read(k) /\ m2h[k] \in Seq(Messages)
      /\ \A k \in Mcus : HasKind(m2h'[k], "ack") <=> HasKind(m2h[k], "ack")
  BY <1>2, <1>4, <1>6 DEF LinkTypes, Read
<1>8. ASSUME NEW k \in Mcus
      PROVE  /\ h2m'[k] \in Seq(Commands) /\ Fed(h2m[k], h2m'[k])
             /\ Current(k) \/ (Settled(k) /\ ~td_active) => h2m'[k] = h2m[k]
             /\ \E s : /\ Harmless(s, k) /\ h2m'[k] = h2m[k] \o s
                       /\ \A j \in Mcus : j # k => AtMost(s, Bound(j))
  <2>1. PICK s \in Seq(Commands) :
             /\ h2m'[k] = h2m[k] \o s
             /\ \A c : Has(s, c) => c \in {"set_timeout", "trigger"}
             /\ HostReasons(s)
             /\ s = <<>> \/ td_active \/ (k = 1 /\ m = 1 /\ handler[1] = "trsync")
             /\ \A b \in Int :
                  (td_active /\ Head(m2h[m]).can
                     => NewExpire(k, NewStatus(m, Head(m2h[m]))) <= b) => AtMost(s, b)
    BY <1>1, FastQueue
  <2>2. h2m[k] \in Seq(Commands)
    BY <1>4
  <2>3. Fed(h2m[k], h2m'[k]) /\ Framed(s) /\ ~HeadIs(s, "stop_on_trigger")
    BY <2>1, <2>2, FedFacts
  <2>4. h2m'[k] \in Seq(Commands)
    BY <2>1, <2>2
  <2>5. Harmless(s, k)
    BY <2>1, <2>3 DEF Harmless
  <2>6. \A j \in Mcus : j # k => AtMost(s, Bound(j))
    <3> SUFFICES ASSUME NEW j \in Mcus, j # k PROVE AtMost(s, Bound(j))
      OBVIOUS
    <3>1. Bound(j) \in Int /\ (f.can => NewExpire(k, NewStatus(m, f)) <= Bound(j))
      BY <1>1, <1>5, LimitTypes
    <3> QED  BY <3>1, <2>1
  <2>7. ASSUME Current(k) \/ (Settled(k) /\ ~td_active) PROVE h2m'[k] = h2m[k]
    <3>1. CASE Current(k)
      <4>1. ~td_active /\ handler[k] = "query"
        BY <3>1, <1>1 DEF Host, Asking, Current
      <4> QED  BY <4>1, <2>1, <2>2
    <3>2. CASE Settled(k) /\ ~td_active
      <4>1. k # m
        BY <3>2, <1>6 DEF Settled
      <4> QED  BY <4>1, <3>2, <2>1, <2>2
    <3> QED  BY <3>1, <3>2, <2>7
  <2> QED  BY <2>1, <2>3, <2>4, <2>5, <2>6, <2>7
<1>9. \A k \in Mcus :
        /\ QueryLast(h2m[k]) /\ ~Has(h2m[k], "query") => QueryLast(h2m'[k])
        /\ StartFirst(h2m[k]) => StartFirst(h2m'[k])
        /\ Has(h2m'[k], "query") <=> Has(h2m[k], "query")
        /\ Has(h2m'[k], "start") <=> Has(h2m[k], "start")
        /\ ArgIs(h2m[k], "start", print_time) => ArgIs(h2m'[k], "start", print_time)
  <2> SUFFICES ASSUME NEW k \in Mcus
      PROVE /\ QueryLast(h2m[k]) /\ ~Has(h2m[k], "query") => QueryLast(h2m'[k])
            /\ StartFirst(h2m[k]) => StartFirst(h2m'[k])
            /\ Has(h2m'[k], "query") <=> Has(h2m[k], "query")
            /\ Has(h2m'[k], "start") <=> Has(h2m[k], "start")
            /\ ArgIs(h2m[k], "start", print_time) => ArgIs(h2m'[k], "start", print_time)
    OBVIOUS
  <2>1. Fed(h2m[k], h2m'[k])
    BY <1>8
  <2> QED  BY <2>1 DEF Fed
<1>10. TypeOK'
  <2>1. FirmwareTypes'
    BY <1>2, <1>3, <1>4 DEF FirmwareTypes, SameMachines
  <2>2. h2m' \in [Mcus -> Seq(Commands)]
    <3>1. h2m' = [k \in Mcus |-> h2m'[k]]
      BY DEF ReceiveState, Broadcast
    <3> QED  BY <3>1, <1>8
  <2>3. LinkTypes'
    BY <2>2, <1>2, <1>3, <1>4, <1>6 DEF LinkTypes
  <2>4. /\ waiting' \in [Mcus -> BOOLEAN] /\ completion' \in {"none", "pending", "done"}
        /\ home_end_clock' \in Nat /\ last_params' \in 0..4 \cup {NoParams}
    BY <1>2, <1>4, <1>6, SMTT(30) DEF HostTypes, Messages
  <2>5. HostTypes'
    BY <2>4, <1>2, <1>3, <1>4, <1>5 DEF HostTypes
  <2> QED  BY <1>1, <1>3, <2>1, <2>3, <2>5 DEF TypeOK
<1>11. \A k \in Mcus :
         /\ Firmware(k)' /\ Line(k)' /\ Timed(k)' /\ Clocks(k)'
         /\ Off(k)' = Off(k) /\ Asleep(k)' = Asleep(k) /\ Stopped(k)' = Stopped(k)
  BY <1>1, <1>2, <1>5, <1>7, <1>8, <1>10, HostAction
<1>12. \A k \in Mcus : Current(k) /\ handler[m] = "query" => k = m
  BY <1>1 DEF Host, Asking, Current
<1>13. ASSUME NEW k \in Mcus
       PROVE  Answers(k)' /\ Starts(k)' /\ Completing(k)' /\ Reported(k)'
  <2>1. Answers(k) /\ Starts(k) /\ Completing(k) /\ Reported(k) /\ Clocks(k)
    BY <1>1 DEF Machine
  <2>2. /\ Drained(m2h[k]) => Drained(m2h'[k])
        /\ HasFalse(m2h'[k]) => HasFalse(m2h[k])
        /\ \A r : ReasonsAre(m2h[k], r) => ReasonsAre(m2h'[k], r)
        /\ AckLast(m2h[k]) => AckLast(m2h'[k])
        /\ HasKind(m2h'[k], "ack") <=> HasKind(m2h[k], "ack")
    BY <1>7, ReadFacts
  <2>3. /\ QueryLast(h2m[k]) /\ ~Has(h2m[k], "query") => QueryLast(h2m'[k])
        /\ StartFirst(h2m[k]) => StartFirst(h2m'[k])
        /\ Has(h2m'[k], "query") <=> Has(h2m[k], "query")
        /\ Has(h2m'[k], "start") <=> Has(h2m[k], "start")
        /\ ArgIs(h2m[k], "start", print_time) => ArgIs(h2m'[k], "start", print_time)
        /\ Current(k) \/ (Settled(k) /\ ~td_active) => h2m'[k] = h2m[k]
    BY <1>8, <1>9
  <2>4. /\ Asked(k)' = Asked(k) /\ Current(k)' = Current(k)
        /\ Asleep(k)' = Asleep(k) /\ Stopped(k)' = Stopped(k)
        /\ h2m'[k] = h2m[k] => QuietIn(k)' = QuietIn(k)
        /\ Settled(k) /\ ~td_active => Settled(k)'
    BY <1>2, <1>3, <1>11, <2>2, <2>3 DEF Asked, Current, QuietIn, Settled, SameMachines
  <2>5. pc \in {"idle", "stopping", "query"} => ~td_active
    BY <1>1 DEF Host
  <2>6. Answers(k)'
    BY <1>2, <1>3, <2>1, <2>2, <2>3, <2>4, <2>5 DEF Answers
  <2>7. Starts(k)'
    <3>1. Has(h2m[k], "start") /\ (~given_up \/ k = 1) /\ Current(k)
            => last_params' = last_params
      <4> SUFFICES ASSUME Has(h2m[k], "start"), ~given_up \/ k = 1, Current(k)
                   PROVE  last_params' = last_params
        OBVIOUS
      <4>1. Drained(m2h[k])
        BY <2>1 DEF Starts
      <4>2. handler[m] # "query"
        BY <4>1, <1>6, <1>12
      <4> QED  BY <4>2, <1>2
    <3> QED  BY <3>1, <1>2, <2>1, <2>2, <2>3, <2>4 DEF Starts, SameMachines
  <2>8. Completing(k)'
    BY <1>2, <2>1, <2>2, <2>3, <2>4 DEF Completing, SameMachines
  <2>9. Reported(k)'
    <3>1. ASSUME ~given_up \/ k = 1, Current(k), last_params' # NoParams
          PROVE  \/ last_params' = 0 \/ is_shutdown[k]
                 \/ last_params' = trigger_reason[k] /\ ~can_trigger[k]
      <4>1. CASE handler[m] # "query"
        BY <4>1, <3>1, <1>2, <2>1 DEF Reported
      <4>2. CASE handler[m] = "query"
        <5>1. k = m /\ last_params' = f.reason
          BY <4>2, <3>1, <1>2, <1>12
        <5>2. CASE f.can
          <6>1. ClocksBelow(m2h[m], Limit(m))
            BY <5>1, <2>1 DEF Clocks
          <6> QED  BY <6>1, <5>1, <5>2, <1>6
        <5>3. CASE ~f.can
          BY <5>1, <5>3, <3>1, <1>6, <2>1 DEF Reported
        <5> QED  BY <5>2, <5>3
      <4> QED  BY <4>1, <4>2
    <3> QED  BY <3>1, <1>2, <2>1, <2>2, <2>4 DEF Reported, SameMachines
  <2> QED  BY <2>6, <2>7, <2>8, <2>9
<1>14. Host'
  <2>1. Endstop'
    <3>1. Fed(h2m[1], h2m'[1])
      BY <1>3, <1>8
    <3>2. /\ HeadIs(h2m'[1], "stop_on_trigger") => HeadIs(h2m[1], "stop_on_trigger")
          /\ Has(h2m'[1], "endstop_home") <=> Has(h2m[1], "endstop_home")
          /\ ArgIs(h2m[1], "endstop_home", print_time)
               => ArgIs(h2m'[1], "endstop_home", print_time)
          /\ OffAfter(h2m[1]) => OffAfter(h2m'[1])
      BY <3>1 DEF Fed
    <3> QED  BY <3>2, <1>1, <1>2, <1>3 DEF Host, Endstop, SameMachines
  <2>2. Asking' /\ Judged'
    BY <1>1, <1>2, <1>3 DEF Host, Asking, Current, Judged, Asked, SameMachines
  <2>3. Completed'
    <3>1. CASE Triggered(m, f)
      <4>1. HasFalse(m2h[m]) /\ Completing(m)
        BY <3>1, <1>1, <1>6 DEF Triggered, Machine
      <4> QED  BY <4>1, <1>2, <1>3 DEF Completed, Completing, Stopped, SameMachines
    <3>2. CASE ~Triggered(m, f)
      BY <3>2, <1>1, <1>2, <1>3 DEF Host, Completed, Stopped, SameMachines
    <3> QED  BY <3>1, <3>2
  <2> QED  BY <2>1, <2>2, <2>3, <1>1, <1>2, <1>3, <1>5 DEF Host
<1> QED  BY <1>3, <1>10, <1>11, <1>13, <1>14 DEF IInv, Machine

\* The commands of TriggerDispatch::start().
LEMMA StartCommands ==
    ASSUME NEW a \in Nat, NEW b \in Nat, NEW s,
           s = <<Cmd("start", a), Cmd("stop_on_trigger", 0), Cmd("set_timeout", b)>>
    PROVE  /\ s \in Seq(Commands) /\ HostReasons(s) /\ Framed(s)
           /\ \A c : Has(s, c) <=> c \in {"start", "stop_on_trigger", "set_timeout"}
           /\ \A c : HeadIs(s, c) <=> c = "start"
           /\ ArgIs(s, "start", a) /\ AtMost(s, b) /\ QueryLast(s) /\ StartFirst(s)
<1>1. /\ Cmd("start", a) \in Commands /\ Cmd("stop_on_trigger", 0) \in Commands
      /\ Cmd("set_timeout", b) \in Commands
  BY DEF Cmd, Commands
<1>2. /\ s \in Seq(Commands) /\ Len(s) = 3 /\ s[1].cmd = "start" /\ s[1].arg = a
      /\ s[2].cmd = "stop_on_trigger" /\ s[3].cmd = "set_timeout" /\ s[3].arg = b
      /\ s # <<>>
  BY <1>1 DEF Cmd
<1>3. 1..Len(s) = {1, 2, 3}
  BY <1>2
<1> QED  BY <1>2, <1>3 DEF HostReasons, Framed, Has, HeadIs, ArgIs, AtMost, QueryLast, StartFirst

\* TriggerDispatch::start(): a new homing move.
LEMMA StartTrsyncsKeeps ==
    ASSUME IInv, StartTrsyncs
    PROVE  IInv'
<1> DEFINE clock == now + Lead
           S(k) == <<Cmd("start", clock + ((k - 1) * report_ticks) \div n),
                     Cmd("stop_on_trigger", 0),
                     Cmd("set_timeout", clock + expire_ticks)>>
<1>1. TypeOK /\ Host /\ \A k \in Mcus : Machine(k)
  BY DEF IInv
<1>2. /\ pc = "idle" /\ pc' = "starting" /\ print_time' = clock
      /\ result' = "none" /\ completion' = "pending" /\ rounds' = rounds + 1
      /\ waiting' = [k \in Mcus |-> TRUE] /\ handler' = [k \in Mcus |-> "trsync"]
      /\ home_end_clock' = 0
      /\ last_status' = [k \in Mcus |-> clock]
      /\ expire_clock' = [k \in Mcus |-> clock + expire_ticks]
      /\ stopped_at' = [k \in Mcus |-> 0]
      /\ UNCHANGED <<n, now, can_trigger, report, trigger_reason, report_time,
                     expire_time, signals, moving, is_shutdown, endstop_time, trigger_count,
                     m2h, td_can_trigger, td_active, last_params, todo, retries, reasons,
                     in_shutdown, given_up, lost, shutdowns>>
  BY DEF StartTrsyncs, endstopVars
<1>3. h2m' = [k \in Mcus |-> h2m[k] \o S(k)]
  <2>1. Broadcast([k \in Mcus |-> S(k)])
    BY DEF StartTrsyncs
  <2> HIDE DEF S
  <2> QED  BY <2>1 DEF Broadcast
<1>4. /\ Mcus' = Mcus /\ 1 \in Mcus /\ n \in Nat \ {0} /\ now \in Nat /\ clock \in Nat
      /\ expire_ticks \in Nat /\ report_ticks \in Nat /\ clock + expire_ticks \in Nat
      /\ \A k \in Mcus : k \in Nat \ {0}
  <2>1. now \in Nat
    BY <1>1 DEF TypeOK
  <2> QED  BY <2>1, <1>1, <1>2, Basics DEF Mcus
<1>5. FirmwareTypes /\ LinkTypes /\ HostTypes /\ h2m \in [Mcus -> Seq(Commands)]
      /\ m2h \in [Mcus -> Seq(Messages)]
  BY <1>1 DEF TypeOK, LinkTypes
<1>6. ASSUME NEW k \in Mcus
      PROVE  /\ S(k) \in Seq(Commands) /\ HostReasons(S(k)) /\ Framed(S(k))
             /\ \A c : Has(S(k), c) <=> c \in {"start", "stop_on_trigger", "set_timeout"}
             /\ \A c : HeadIs(S(k), c) <=> c = "start"
             /\ AtMost(S(k), clock + expire_ticks) /\ QueryLast(S(k)) /\ StartFirst(S(k))
             /\ k = 1 => ArgIs(S(k), "start", clock)
  <2> DEFINE d == ((k - 1) * report_ticks) \div n
             s == S(k)
  <2>1. d \in Nat
    <3>1. (k - 1) * report_ticks \in Nat
      <4>1. k - 1 \in Nat
        BY <1>4
      <4> QED  BY <4>1, <1>4
    <3> DEFINE p == (k - 1) * report_ticks
    <3> HIDE DEF p
    <3>2. p \in Nat => p \div n \in Nat
      BY <1>4
    <3> QED  BY <3>1, <3>2 DEF p
  <2>2. k = 1 => d = 0
    <3>1. k = 1 => (k - 1) * report_ticks = 0
      BY <1>4
    <3>2. 0 \div n = 0
      BY <1>4
    <3> QED  BY <3>1, <3>2
  <2>3. s = <<Cmd("start", clock + d), Cmd("stop_on_trigger", 0),
              Cmd("set_timeout", clock + expire_ticks)>>
    OBVIOUS
  <2> HIDE DEF d, S
  <2>4. clock + d \in Nat /\ (k = 1 => clock + d = clock)
    BY <2>1, <2>2, <1>4
  <2> HIDE DEF clock
  <2>5. /\ s \in Seq(Commands) /\ HostReasons(s) /\ Framed(s)
        /\ \A c : Has(s, c) <=> c \in {"start", "stop_on_trigger", "set_timeout"}
        /\ \A c : HeadIs(s, c) <=> c = "start"
        /\ ArgIs(s, "start", clock + d) /\ AtMost(s, clock + expire_ticks)
        /\ QueryLast(s) /\ StartFirst(s)
    <3> HIDE DEF s
    <3> QED  BY <2>3, <2>4, <1>4, StartCommands, ZenonT(30)
  <2>6. k = 1 => ArgIs(s, "start", clock)
    <3> HIDE DEF s
    <3> QED  BY <2>4, <2>5
  <2> QED  BY <2>5, <2>6
<1> HIDE DEF S
<1>7. \A k \in Mcus : h2m'[k] = h2m[k] \o S(k) /\ h2m'[k] \in Seq(Commands)
                      /\ h2m[k] \in Seq(Commands)
  BY <1>3, <1>5, <1>6
<1>8. TypeOK'
  <2>1. stopped_at' \in [Mcus -> Nat]
    BY <1>2
  <2>2. FirmwareTypes'
    BY <2>1, <1>2, <1>4, <1>5 DEF FirmwareTypes
  <2>3. h2m' \in [Mcus -> Seq(Commands)]
    BY <1>3, <1>7
  <2>4. LinkTypes'
    BY <2>3, <1>2, <1>4, <1>5 DEF LinkTypes
  <2>5. HostTypes'
    <3> HIDE DEF clock
    <3> QED  BY <1>2, <1>4, <1>5 DEF HostTypes
  <2> QED  BY <1>1, <1>2, <2>2, <2>4, <2>5 DEF TypeOK
<1>9. ASSUME NEW k \in Mcus
      PROVE  /\ Limit(k)' = now /\ Limit(k) <= now /\ clock <= Known(k)' /\ Known(k)' \in Nat
             /\ clock + expire_ticks <= Bound(k)' /\ Bound(k)' \in Nat
             /\ \A s \in Seq(Messages) : ClocksBelow(s, Limit(k)) => ClocksBelow(s, Limit(k)')
             /\ \A q \in Seq(Commands) : AtMost(q, Bound(k)) => AtMost(q, Bound(k)')
             /\ \A t \in Nat : t <= Bound(k) => t <= Bound(k)'
  <2>1. Limit(k)' = now
    BY <1>2 DEF Limit
  <2>2. Limit(k) <= now /\ Limit(k) \in Nat
    <3>1. stopped_at[k] # 0 => stopped_at[k] <= now
      BY <1>1 DEF Machine, Firmware
    <3> QED  BY <3>1, <1>1, <1>4, LimitTypes DEF Limit
  <2>3. print_time <= print_time'
    BY <1>1, <1>2 DEF Host
  <2>4. /\ Known(k)' \in Nat /\ Bound(k)' \in Nat
        /\ \A s \in Seq(Messages) : ClocksBelow(s, Limit(k)) => ClocksBelow(s, Limit(k)')
        /\ \A q \in Seq(Commands) : AtMost(q, Bound(k)) => AtMost(q, Bound(k)')
        /\ \A t \in Nat : t <= Bound(k) => t <= Bound(k)'
    BY <2>1, <2>2, <2>3, <1>1, <1>2, <1>8, LimitsGrow
  <2>5. clock <= Known(k)'
    <3> HIDE DEF clock
    <3> QED  BY <2>1, <1>2, <1>4 DEF Known
  <2>6. expire_ticks' = expire_ticks
    BY <1>2 DEF expire_ticks
  <2>7. clock + expire_ticks <= Bound(k)'
    <3> HIDE DEF clock
    <3>1. Bound(k)' = Known(k)' + expire_ticks
      BY <2>6 DEF Bound
    <3> QED  BY <3>1, <2>4, <2>5, <1>4
  <2> QED  BY <2>1, <2>2, <2>4, <2>5, <2>7
<1>10. Settled(1) /\ \A k \in Mcus : ~given_up => Settled(k)
  BY <1>1, <1>2, <1>4 DEF Machine, Answers
<1>11. \A k \in Mcus : Settled(k) => /\ Bare(h2m[k]) /\ Drained(m2h[k]) /\ Asleep(k)
                                     /\ (k = 1 => endstop_time = 0)
                                     /\ ~Has(h2m[k], "endstop_home") /\ ~Has(h2m[k], "start")
  BY <1>7, BareFacts DEF Settled, QuietIn
<1>12. ASSUME NEW k \in Mcus
       PROVE  /\ Firmware(k)' /\ Line(k)' /\ Timed(k)' /\ Clocks(k)'
              /\ Off(k)' = Off(k) /\ Asleep(k)' = Asleep(k)
  <2>1. Firmware(k) /\ Line(k) /\ Timed(k) /\ Clocks(k)
    BY <1>1 DEF Machine
  <2>2. Off(k)' = Off(k) /\ Asleep(k)' = Asleep(k)
    BY <1>2 DEF Off, Asleep
  <2>3. Firmware(k)'
    BY <1>2, <2>1, <2>2 DEF Firmware
  <2>4. Harmless(S(k), k)
    BY <1>6 DEF Harmless
  <2>5. Line(k)'
    BY <2>1, <2>4, <1>1, <1>2, <1>7, LineCat
  <2>6. Timed(k)'
    <3> SUFFICES ASSUME NEW j \in Mcus, k # j
                 PROVE  AtMost(h2m'[k], Bound(j)') /\ expire_time'[k] <= Bound(j)'
      BY <1>4 DEF Timed
    <3>1. AtMost(h2m[k], Bound(j)) /\ expire_time[k] <= Bound(j) /\ expire_time[k] \in Nat
      BY <2>1, <1>5 DEF Timed, FirmwareTypes
    <3>2. AtMost(h2m[k], Bound(j)') /\ expire_time[k] <= Bound(j)'
      BY <3>1, <1>7, <1>9
    <3>3. AtMost(S(k), Bound(j)')
      <4>1. AtMost(S(k), clock + expire_ticks) /\ S(k) \in Seq(Commands)
        BY <1>6
      <4>2. clock + expire_ticks <= Bound(j)' /\ clock + expire_ticks \in Int
            /\ Bound(j)' \in Int
        BY <1>4, <1>9
      <4> DEFINE e == clock + expire_ticks
      <4> HIDE DEF clock, e
      <4>3. AtMost(S(k), e) /\ e <= Bound(j)' /\ e \in Int /\ Bound(j)' \in Int
        BY <4>1, <4>2 DEF e
      <4> QED  BY <4>1, <4>3, AtMostMore
    <3> QED  BY <3>2, <3>3, <1>2, <1>6, <1>7, ArgsCat
  <2>7. Clocks(k)'
    <3>1. ClocksBelow(m2h[k], Limit(k)') /\ m2h'[k] = m2h[k]
      BY <2>1, <1>2, <1>5, <1>9 DEF Clocks
    <3>2. last_status'[k] <= Known(k)'
      BY <1>2, <1>9
    <3> QED  BY <3>1, <3>2 DEF Clocks
  <2> QED  BY <2>2, <2>3, <2>5, <2>6, <2>7
<1>13. ASSUME NEW k \in Mcus
       PROVE  /\ \A c : Has(h2m'[k], c) <=>
                   Has(h2m[k], c) \/ c \in {"start", "stop_on_trigger", "set_timeout"}
              /\ QueryLast(h2m[k]) /\ ~Has(h2m[k], "query") => QueryLast(h2m'[k])
              /\ Bare(h2m[k]) => StartFirst(h2m'[k])
              /\ k = 1 /\ ArgIs(h2m[k], "start", clock) => ArgIs(h2m'[k], "start", clock)
  <2> DEFINE q == h2m[k]
             s == S(k)
             r == h2m'[k]
  <2>1. /\ q \in Seq(Commands) /\ s \in Seq(Commands) /\ r = q \o s
        /\ \A c : Has(s, c) <=> c \in {"start", "stop_on_trigger", "set_timeout"}
        /\ QueryLast(s) /\ StartFirst(s) /\ (k = 1 => ArgIs(s, "start", clock))
    BY <1>6, <1>7
  <2> HIDE DEF q, s, r, clock
  <2>2. \A c : Has(r, c) <=> Has(q, c) \/ c \in {"start", "stop_on_trigger", "set_timeout"}
    BY <2>1, HasCat
  <2>3. QueryLast(q) /\ ~Has(q, "query") => QueryLast(r)
    BY <2>1, QueryLastCat
  <2>4. Bare(q) => StartFirst(r)
    <3>1. Bare(q) => StartFirst(q)
      BY <2>1, BareFacts, StartFirstPlain
    <3> QED  BY <2>1, <3>1, StartFirstCat
  <2>5. k = 1 /\ ArgIs(q, "start", clock) => ArgIs(r, "start", clock)
    BY <2>1, ArgsCat
  <2> QED  BY <2>2, <2>3, <2>4, <2>5 DEF q, r
<1>14. ASSUME NEW k \in Mcus
       PROVE  Answers(k)' /\ Starts(k)' /\ Completing(k)' /\ Reported(k)'
  <2>1. Answers(k) /\ Reported(k)
    BY <1>1 DEF Machine
  <2>2. ~Current(k) /\ ~Current(k)'
    BY <1>2 DEF Current
  <2>3. Answers(k)'
    BY <1>2, <1>13, <2>1, <2>2 DEF Answers
  <2>4. ~given_up \/ k = 1 => /\ Bare(h2m[k]) /\ Drained(m2h[k]) /\ Asleep(k)
                              /\ (k = 1 => endstop_time = 0) /\ ~Has(h2m[k], "start")
    BY <1>10, <1>11
  <2>5. k = 1 => ArgIs(h2m'[k], "start", print_time')
    <3>1. k = 1 => ArgIs(h2m[k], "start", clock)
      BY <2>4, ArgsPlain
    <3> QED  BY <3>1, <1>2, <1>13
  <2>6. Starts(k)'
    BY <2>2, <2>4, <2>5, <1>2, <1>12, <1>13 DEF Starts
  <2>7. Completing(k)'
    <3>1. ~given_up => ~HasFalse(m2h[k])
      BY <2>4, <1>5, MessagesPlain
    <3> QED  BY <3>1, <1>2, <1>13 DEF Completing
  <2>8. Reported(k)'
    BY <1>2, <2>1, <2>2 DEF Reported
  <2> QED  BY <2>3, <2>6, <2>7, <2>8
<1>15. Host'
  <2>1. Endstop'
    <3>1. endstop_time = 0 /\ ~Has(h2m'[1], "endstop_home")
      BY <1>4, <1>10, <1>11, <1>13
    <3> QED  BY <3>1, <1>2, ArgsPlain DEF Endstop
  <2>2. Asking'
    BY <1>1, <1>2, <1>4 DEF Host, Asking, Current
  <2>3. Completed' /\ Judged'
    BY <1>2 DEF Completed, Judged
  <2>4. print_time' <= now' + Lead
    BY <1>2, <1>4
  <2> QED  BY <2>1, <2>2, <2>3, <2>4, <1>1, <1>2 DEF Host
<1> QED  BY <1>4, <1>8, <1>12, <1>14, <1>15 DEF IInv, Machine

-----------------------------------------------------------------------------
(* The invariant of the specification *)

LEMMA InitIInv ==
    ASSUME Init
    PROVE  IInv
<1> USE DEF Init
<1>1. /\ n \in Nat \ {0} /\ 1 \in Mcus /\ SampleCount[n] \in Nat /\ Lead \in Nat
      /\ expire_ticks \in Nat
  <2>1. n \in Sizes /\ n \in Nat \ {0} /\ Expire[n] \in Nat \ {0}
        /\ SampleCount[n] \in Nat \ {0}
    BY SyncAssumption
  <2> QED  BY <2>1, SyncAssumption DEF Mcus, expire_ticks
<1>2. TypeOK
  <2>1. FirmwareTypes
    BY <1>1 DEF FirmwareTypes
  <2>2. LinkTypes
    BY DEF LinkTypes
  <2>3. HostTypes
    <3>1. todo \in Seq(Mcus) /\ retries \in 0..Retries /\ last_params \in 0..4 \cup {NoParams}
      BY SyncAssumption
    <3>2. /\ last_status \in [Mcus -> Nat] /\ expire_clock \in [Mcus -> Nat]
          /\ waiting \in [Mcus -> BOOLEAN]
          /\ handler \in [Mcus -> {"none", "trsync", "query"}]
          /\ reasons \in [Mcus -> 0..4]
      OBVIOUS
    <3>3. /\ td_can_trigger \in BOOLEAN /\ td_active \in BOOLEAN /\ in_shutdown \in BOOLEAN
          /\ given_up \in BOOLEAN /\ print_time \in Nat /\ home_end_clock \in Nat
          /\ rounds \in Nat /\ completion = "none" /\ pc = "idle" /\ result = "none"
      OBVIOUS
    <3> QED  BY <3>1, <3>2, <3>3 DEF HostTypes
  <2> QED  BY <2>1, <2>2, <2>3 DEF TypeOK
<1>3. <<>> \in Seq(Messages) /\ Contents(<<>>) = {}
  BY DEF Contents
<1>4. /\ \A c : ~HasKind(<<>>, c)
      /\ Drained(<<>>) /\ AckLast(<<>>) /\ ~HasFalse(<<>>)
      /\ \A r : ReasonsAre(<<>>, r)
      /\ \A b : ClocksBelow(<<>>, b)
  <2>1. ~HasKind(<<>>, "ack")
    BY <1>3 DEF HasKind
  <2> QED  BY <2>1, <1>3, MessagesPlain DEF HasKind, Drained, HasFalse, ReasonsAre, ClocksBelow
<1>5. ASSUME NEW k \in Mcus PROVE Machine(k)
  <2>1. /\ h2m[k] = <<>> /\ m2h[k] = <<>> /\ ~can_trigger[k] /\ ~report[k]
        /\ report_time[k] = 0 /\ expire_time[k] = 0 /\ ~signals[k] /\ ~moving[k]
        /\ ~is_shutdown[k] /\ stopped_at[k] = 0 /\ last_status[k] = 0
        /\ pc = "idle" /\ ~given_up /\ endstop_time = 0
    OBVIOUS
  <2>2. ~Current(k) /\ Off(k) /\ Asleep(k) /\ QuietIn(k) /\ Settled(k)
    BY <2>1, <1>4, NoCommand DEF Current, Off, Asleep, QuietIn, Settled
  <2>3. Firmware(k) /\ Line(k) /\ Answers(k)
    BY <2>1, <2>2, <1>4, NoCommand DEF Firmware, Line, Answers
  <2>4. \A j \in Mcus : Limit(j) \in Nat /\ Known(j) \in Nat /\ Bound(j) \in Nat
    BY <1>2, LimitTypes
  <2>5. Timed(k) /\ Clocks(k)
    BY <2>1, <2>4, <1>4, NoCommand DEF Timed, Clocks
  <2>6. Starts(k) /\ Completing(k) /\ Reported(k)
    BY <2>1, <2>2, <1>4, NoCommand DEF Starts, Completing, Reported
  <2> QED  BY <2>3, <2>5, <2>6 DEF Machine
<1>6. Host
  <2>1. Asking
    <3>1. todo = <<>> /\ \A i \in 1..Len(todo) : FALSE
      OBVIOUS
    <3> QED  BY <3>1, <1>1 DEF Asking, Current
  <2>2. Endstop /\ Completed /\ Judged
    BY <1>1, NoCommand DEF Endstop, Completed, Judged
  <2>3. now # 0 /\ print_time <= now + Lead
    BY <1>1
  <2> QED  BY <2>1, <2>2, <2>3 DEF Host
<1> QED  BY <1>2, <1>5, <1>6 DEF IInv

LEMMA StutterKeeps ==
    ASSUME IInv, UNCHANGED vars
    PROVE  IInv'
<1>1. /\ SameMachines /\ SameHost
      /\ UNCHANGED <<h2m, m2h, td_can_trigger, td_active, last_status, expire_clock, pc,
           print_time, todo, retries, reasons, result, given_up, rounds, completion, waiting,
           handler, home_end_clock, last_params, in_shutdown, lost, shutdowns>>
  BY DEF vars, trsyncVars, endstopVars, tdVars, moveVars, stateVars, SameMachines, SameHost
<1>2. TypeOK /\ Host /\ (\A k \in Mcus : Machine(k)) /\ Mcus' = Mcus
  BY <1>1 DEF IInv, SameMachines, Mcus
<1>3. TypeOK'
  <2>1. FirmwareTypes' /\ LinkTypes'
    BY <1>1, <1>2 DEF TypeOK, FirmwareTypes, LinkTypes, SameMachines
  <2> QED  BY <2>1, <1>1, <1>2, SameHostTypes
<1>4. ASSUME NEW k \in Mcus PROVE Machine(k)'
  <2>1. SameFirmware(k) /\ SameLine(k) /\ Machine(k)
    BY <1>1, <1>2 DEF SameFirmware, SameLine, SameMachines
  <2>2. /\ Firmware(k)' /\ Line(k)' /\ Answers(k)' /\ Starts(k)' /\ Completing(k)'
        /\ Reported(k)' /\ Clocks(k)'
    BY <2>1, <1>1, Frame DEF Machine
  <2>3. \A j \in Mcus : Bound(j)' = Bound(j)
    BY <1>1 DEF Bound, Known, Limit, expire_ticks, SameMachines
  <2>4. Timed(k)'
    BY <2>1, <2>3, <1>1, <1>2 DEF Timed, Machine, SameMachines
  <2> QED  BY <2>2, <2>4 DEF Machine
<1>5. Host'
  <2>1. Asking' /\ Endstop' /\ Completed' /\ Judged'
    BY <1>1, <1>2
       DEF Host, Asking, Current, Endstop, Completed, Stopped, Judged, Asked, SameMachines
  <2> QED  BY <2>1, <1>1, <1>2 DEF Host, SameMachines
<1> QED  BY <1>2, <1>3, <1>4, <1>5 DEF IInv

LEMMA NextKeeps ==
    ASSUME IInv, [Next]_vars
    PROVE  IInv'
<1>1. CASE Tick
  BY <1>1, TickKeeps
<1>2. ASSUME NEW m \in Mcus, ExpireEvent(m) PROVE IInv'
  BY <1>2, ExpireEventKeeps
<1>3. ASSUME NEW m \in Mcus, ReportEvent(m) PROVE IInv'
  BY <1>3, ReportEventKeeps
<1>4. ASSUME NEW m \in Mcus, TrsyncTask(m) PROVE IInv'
  BY <1>4, TrsyncTaskKeeps
<1>5. ASSUME NEW m \in Mcus, ProcessCommand(m) PROVE IInv'
  BY <1>5, ProcessCommandKeeps
<1>6. ASSUME NEW m \in Mcus, McuShutdown(m) PROVE IInv'
  BY <1>6, McuShutdownKeeps
<1>7. ASSUME NEW m \in Mcus, ReceiveState(m) PROVE IInv'
  BY <1>7, ReceiveStateKeeps
<1>8. ASSUME NEW m \in Mcus, Lose(m) PROVE IInv'
  BY <1>8, LoseKeeps
<1>9. ASSUME NEW m \in Mcus, HandleShutdown(m) PROVE IInv'
  BY <1>9, HandleShutdownKeeps
<1>10. ASSUME NEW m \in Mcus, QueryAcked(m) PROVE IInv'
  BY <1>10, QueryAckedKeeps
<1>11. ASSUME NEW match \in BOOLEAN, EndstopEvent(match) PROVE IInv'
  BY <1>11, EndstopEventKeeps
<1>12. CASE StartTrsyncs
  BY <1>12, StartTrsyncsKeeps
<1>13. CASE StartDispatch
  BY <1>13, StartDispatchKeeps
<1>14. CASE WaitEnd
  BY <1>14, WaitEndKeeps
<1>15. CASE StopDispatch
  BY <1>15, StopDispatchKeeps
<1>16. CASE SendQuery
  BY <1>16, SendQueryKeeps
<1>17. CASE Judge
  BY <1>17, JudgeKeeps
<1>18. CASE UNCHANGED vars
  BY <1>18, StutterKeeps
<1> QED
  BY <1>1, <1>2, <1>3, <1>4, <1>5, <1>6, <1>7, <1>8, <1>9, <1>10, <1>11, <1>12, <1>13,
     <1>14, <1>15, <1>16, <1>17, <1>18 DEF Next

LEMMA AlwaysIInv == Spec => []IInv
<1>1. Init => IInv
  BY InitIInv
<1>2. IInv /\ [Next]_vars => IInv'
  BY NextKeeps
<1> QED  BY <1>1, <1>2, PTL DEF Spec

-----------------------------------------------------------------------------
(* What follows from it *)

LEMMA StopsTogetherFollows ==
    ASSUME IInv
    PROVE  StopsTogether
<1>1. TypeOK /\ \A k \in Mcus : Firmware(k) /\ Line(k) /\ Timed(k)
  BY DEF IInv, Machine
<1> SUFFICES ASSUME NEW m \in Mcus, NEW k \in Mcus, moving[m], stopped_at[k] # 0, k # m
             PROVE  \/ now <= stopped_at[k] + expire_ticks
                    \/ now <= print_time + expire_ticks
                    \/ Unarmed(m)
  BY <1>1 DEF StopsTogether, StopTogether
<1>2. can_trigger[m] /\ ~is_shutdown[m] /\ h2m[m] \in Seq(Commands)
  BY <1>1 DEF Firmware, TypeOK, LinkTypes
<1>3. CASE expire_time[m] # 0
  <2>1. now <= expire_time[m] /\ expire_time[m] <= Bound(k)
    BY <1>1, <1>3 DEF Firmware, Timed
  <2>2. /\ now \in Nat /\ expire_time[m] \in Nat /\ Bound(k) \in Nat
        /\ stopped_at[k] \in Nat /\ print_time \in Nat /\ expire_ticks \in Nat
    BY <1>1, Basics, LimitTypes DEF TypeOK, FirmwareTypes, HostTypes
  <2>3. Bound(k) = stopped_at[k] + expire_ticks \/ Bound(k) = print_time + expire_ticks
    BY DEF Bound, Known, Limit
  <2> QED  BY <2>1, <2>2, <2>3
<1>4. CASE expire_time[m] = 0
  <2>1. DOMAIN h2m[m] = 1..Len(h2m[m])
    BY <1>2
  <2>2. \E i \in 1..Len(h2m[m]) : h2m[m][i].cmd = "set_timeout"
    <3>1. HeadIs(h2m[m], "set_timeout") \/ HeadIs(h2m[m], "stop_on_trigger")
      BY <1>1, <1>2, <1>4 DEF Line
    <3>2. h2m[m] # <<>> => 1 \in 1..Len(h2m[m])
      BY <1>2
    <3>3. CASE HeadIs(h2m[m], "set_timeout")
      BY <3>2, <3>3 DEF HeadIs
    <3>4. CASE HeadIs(h2m[m], "stop_on_trigger")
      <4>1. 1 \in 1..Len(h2m[m]) /\ h2m[m][1].cmd = "stop_on_trigger" /\ Framed(h2m[m])
        BY <1>1, <3>2, <3>4 DEF HeadIs, Line
      <4> QED  BY <4>1 DEF Framed
    <3> QED  BY <3>1, <3>3, <3>4
  <2> QED  BY <2>1, <2>2, <1>4 DEF Unarmed
<1> QED  BY <1>3, <1>4

\* When one micro-controller has stopped (endstop, timeout or shutdown), no stepper of
\* another one moves for more than expire_ticks after that or after the start of the
\* move, however late the messages are and whatever is lost, for any number of
\* micro-controllers and any timing: trdispatch.c extends a timeout only by what all
\* the others have reported.  And every variable keeps its type.
THEOREM SteppersStopTogether == Spec => []StopsTogether
<1>1. IInv => StopsTogether
  BY StopsTogetherFollows
<1> QED  BY <1>1, AlwaysIInv, PTL

LEMMA QuietFollows ==
    ASSUME IInv
    PROVE  QuietAfterMove
<1>1. TypeOK /\ Host /\ \A k \in Mcus : Firmware(k) /\ Answers(k)
  BY DEF IInv, Machine
<1> SUFFICES ASSUME pc = "idle", result \in {"hit", "no_trigger", "comms_timeout"},
                    \A m \in Mcus : ~is_shutdown[m]
             PROVE  /\ endstop_time = 0 /\ ~td_active
                    /\ \A m \in Mcus : /\ ~can_trigger[m] /\ ~report[m]
                                       /\ report_time[m] = 0 /\ expire_time[m] = 0
                                       /\ m2h[m] = <<>>
                                       /\ \A i \in DOMAIN h2m[m] :
                                            h2m[m][i].cmd = "emergency_stop"
  BY DEF QuietAfterMove
<1>2. 1 \in Mcus /\ ~td_active
  BY <1>1, Basics DEF Host
<1>3. \A m \in Mcus : Settled(m)
  BY <1>1 DEF Answers
<1>4. endstop_time = 0
  BY <1>2, <1>3 DEF Settled, QuietIn
<1>5. ASSUME NEW m \in Mcus
      PROVE  /\ Off(m) /\ m2h[m] = <<>>
             /\ \A i \in DOMAIN h2m[m] : h2m[m][i].cmd = "emergency_stop"
  <2>1. m2h[m] \in Seq(Messages) /\ h2m[m] \in Seq(Commands)
    BY <1>1 DEF TypeOK, LinkTypes
  <2>2. Off(m) /\ Bare(h2m[m]) /\ Drained(m2h[m])
    BY <1>3 DEF Settled, QuietIn, Asleep
  <2>3. ~HasKind(m2h[m], "shutdown")
    BY <1>1 DEF Firmware
  <2>4. m2h[m] = <<>>
    BY <2>1, <2>2, <2>3, MessagesPlain
  <2>5. DOMAIN h2m[m] = 1..Len(h2m[m])
    BY <2>1
  <2> QED  BY <2>2, <2>4, <2>5 DEF Bare
<1> QED  BY <1>2, <1>4, <1>5 DEF Off

\* After a homing move that ended with a verdict nothing of it is left on any
\* micro-controller nor on any link: MCU_trsync::stop() has asked every one of them, and
\* an answer is the last thing a trsync says.
THEOREM NothingLeftOfAMove == Spec => []QuietAfterMove
<1>1. IInv => QuietAfterMove
  BY QuietFollows
<1> QED  BY <1>1, AlwaysIInv, PTL

\* The wait of the host ends early only when some micro-controller has stopped in this
\* move, or is shut down.
THEOREM WaitEndsForAReason == Spec => []CompletionIsReal
<1>1. IInv => CompletionIsReal
  BY DEF IInv, Host, Completed, CompletionIsReal, Stopped
<1> QED  BY <1>1, AlwaysIInv, PTL

-----------------------------------------------------------------------------
(* Timeouts that a reported hit could hide *)

\* The report of a timeout, and where the messages under way have it.
Four(x) == x.kind = "state" /\ x.reason = COMMS_TIMEOUT

HasFour(s) == \E x \in Contents(s) : Four(x)

AllFour(s) == \A x \in Contents(s) : x.kind = "state" => Four(x)

TwoFours(s) == \E i, j \in 1..Len(s) : i < j /\ Four(s[i]) /\ Four(s[j])

\* From some report on, from every such report on, all reports are of the timeout.
EndsFour(s) ==
    \E i \in 1..Len(s) :
      Four(s[i]) /\ \A j \in 1..Len(s) : j > i /\ s[j].kind = "state" => Four(s[j])

FoursLast(s) ==
    \A i, j \in 1..Len(s) : Four(s[i]) /\ j > i /\ s[j].kind = "state" => Four(s[j])

LEMMA FourCat ==
    ASSUME NEW s \in Seq(Messages), NEW t \in Seq(Messages), NEW u, u = s \o t
    PROVE  /\ HasFour(u) <=> HasFour(s) \/ HasFour(t)
           /\ AllFour(u) <=> AllFour(s) /\ AllFour(t)
           /\ TwoFours(s) \/ (HasFour(s) /\ HasFour(t)) => TwoFours(u)
           /\ EndsFour(s) /\ AllFour(t) => EndsFour(u)
           /\ HasFour(t) /\ AllFour(t) => EndsFour(u)
           /\ FoursLast(s) /\ AllFour(t) => FoursLast(u)
           /\ FoursLast(s) /\ FoursLast(t) /\ ~HasFour(s) => FoursLast(u)
<1>1. Contents(u) = Contents(s) \cup Contents(t)
  BY ContentsFacts
<1>2. HasFour(u) <=> HasFour(s) \/ HasFour(t)
  BY <1>1 DEF HasFour
<1>3. AllFour(u) <=> AllFour(s) /\ AllFour(t)
  BY <1>1 DEF AllFour
<1>4. /\ Len(s) \in Nat /\ Len(t) \in Nat /\ Len(u) = Len(s) + Len(t)
      /\ \A i \in 1..Len(s) : i \in 1..Len(u) /\ u[i] = s[i]
      /\ \A i \in 1..Len(t) : Len(s) + i \in 1..Len(u) /\ u[Len(s) + i] = t[i]
      /\ \A i \in 1..Len(u) : \/ i \in 1..Len(s) /\ u[i] = s[i]
                              \/ i - Len(s) \in 1..Len(t) /\ u[i] = t[i - Len(s)]
  BY CatFacts
<1> HIDE DEF HasFour, AllFour
<1>5. TwoFours(s) => TwoFours(u)
  BY <1>4 DEF TwoFours
<1>6. ASSUME HasFour(s), HasFour(t) PROVE TwoFours(u)
  <2>1. PICK i \in 1..Len(s) : Four(s[i])
    BY <1>6 DEF HasFour, Contents
  <2>2. PICK j \in 1..Len(t) : Four(t[j])
    BY <1>6 DEF HasFour, Contents
  <2>3. i \in 1..Len(u) /\ Len(s) + j \in 1..Len(u) /\ i < Len(s) + j
    BY <1>4
  <2>4. Four(u[i]) /\ Four(u[Len(s) + j])
    BY <2>1, <2>2, <1>4
  <2> QED  BY <2>3, <2>4 DEF TwoFours
<1>7. ASSUME AllFour(t), NEW j \in 1..Len(u), j - Len(s) \in 1..Len(t),
             u[j] = t[j - Len(s)], u[j].kind = "state"
      PROVE  Four(u[j])
  BY <1>7 DEF AllFour, Contents
<1>8. ASSUME EndsFour(s), AllFour(t) PROVE EndsFour(u)
  <2>1. PICK i \in 1..Len(s) :
          Four(s[i]) /\ \A j \in 1..Len(s) : j > i /\ s[j].kind = "state" => Four(s[j])
    BY <1>8 DEF EndsFour
  <2>2. ASSUME NEW j \in 1..Len(u), j > i, u[j].kind = "state" PROVE Four(u[j])
    BY <2>1, <2>2, <1>4, <1>7, <1>8
  <2> QED  BY <2>1, <2>2, <1>4 DEF EndsFour
<1>9. ASSUME HasFour(t), AllFour(t) PROVE EndsFour(u)
  <2>1. PICK i \in 1..Len(t) : Four(t[i])
    BY <1>9 DEF HasFour, Contents
  <2>2. Len(s) + i \in 1..Len(u) /\ Four(u[Len(s) + i])
    BY <2>1, <1>4
  <2>3. ASSUME NEW j \in 1..Len(u), j > Len(s) + i, u[j].kind = "state" PROVE Four(u[j])
    <3>1. ~(j \in 1..Len(s))
      BY <2>3, <1>4
    <3> QED  BY <3>1, <2>3, <1>4, <1>7, <1>9
  <2> QED  BY <2>2, <2>3 DEF EndsFour
<1>10. ASSUME FoursLast(s), AllFour(t) PROVE FoursLast(u)
  <2> SUFFICES ASSUME NEW i \in 1..Len(u), NEW j \in 1..Len(u), Four(u[i]), j > i,
                      u[j].kind = "state"
               PROVE  Four(u[j])
    BY DEF FoursLast
  <2>1. CASE j \in 1..Len(s) /\ u[j] = s[j]
    <3>1. i \in 1..Len(s)
      BY <2>1, <1>4
    <3> QED  BY <3>1, <2>1, <1>4, <1>10 DEF FoursLast
  <2>2. CASE j - Len(s) \in 1..Len(t) /\ u[j] = t[j - Len(s)]
    BY <2>2, <1>7, <1>10
  <2> QED  BY <2>1, <2>2, <1>4
<1>11. ASSUME FoursLast(s), FoursLast(t), ~HasFour(s) PROVE FoursLast(u)
  <2> SUFFICES ASSUME NEW i \in 1..Len(u), NEW j \in 1..Len(u), Four(u[i]), j > i,
                      u[j].kind = "state"
               PROVE  Four(u[j])
    BY DEF FoursLast
  <2>1. i - Len(s) \in 1..Len(t) /\ u[i] = t[i - Len(s)]
    <3>1. \A k \in 1..Len(s) : ~Four(s[k])
      BY <1>11 DEF HasFour, Contents
    <3> QED  BY <3>1, <1>4
  <2>2. j - Len(s) \in 1..Len(t) /\ u[j] = t[j - Len(s)] /\ j - Len(s) > i - Len(s)
    BY <2>1, <1>4
  <2> QED  BY <2>1, <2>2, <1>11 DEF FoursLast
<1> QED  BY <1>2, <1>3, <1>5, <1>6, <1>8, <1>9, <1>10, <1>11

LEMMA FourTail ==
    ASSUME NEW s \in Seq(Messages), s # <<>>
    PROVE  /\ HasFour(s) <=> Four(s[1]) \/ HasFour(Tail(s))
           /\ AllFour(s) <=> (s[1].kind = "state" => Four(s[1])) /\ AllFour(Tail(s))
           /\ TwoFours(s) => HasFour(Tail(s)) /\ (Four(s[1]) \/ TwoFours(Tail(s)))
           /\ EndsFour(s) => EndsFour(Tail(s)) \/ (Four(s[1]) /\ AllFour(Tail(s)))
           /\ FoursLast(s) => FoursLast(Tail(s)) /\ (Four(s[1]) => AllFour(Tail(s)))
<1> DEFINE t == Tail(s)
<1>1. Contents(s) = {s[1]} \cup Contents(t)
  BY ContentsFacts
<1>2. HasFour(s) <=> Four(s[1]) \/ HasFour(t)
  BY <1>1 DEF HasFour
<1>3. AllFour(s) <=> (s[1].kind = "state" => Four(s[1])) /\ AllFour(t)
  BY <1>1 DEF AllFour
<1>4. /\ Len(s) \in Nat /\ Len(t) = Len(s) - 1 /\ 1 \in 1..Len(s)
      /\ \A i \in 1..Len(t) : i + 1 \in 1..Len(s) /\ t[i] = s[i + 1] /\ i + 1 > 1
      /\ \A i \in 1..Len(s) : i = 1 \/ (i - 1 \in 1..Len(t) /\ s[i] = t[i - 1] /\ i > 1)
  <2>1. \A i \in 1..Len(s) : i = 1 \/ i \in 2..Len(s)
    BY TailFacts
  <2> QED  BY <2>1, TailFacts
<1> HIDE DEF t
<1>5. ASSUME TwoFours(s) PROVE HasFour(t) /\ (Four(s[1]) \/ TwoFours(t))
  <2>1. PICK i \in 1..Len(s), j \in 1..Len(s) : i < j /\ Four(s[i]) /\ Four(s[j])
    BY <1>5 DEF TwoFours
  <2>2. j - 1 \in 1..Len(t) /\ Four(t[j - 1])
    BY <2>1, <1>4
  <2>3. i = 1 \/ (i - 1 \in 1..Len(t) /\ Four(t[i - 1]) /\ i - 1 < j - 1)
    BY <2>1, <1>4
  <2>4. HasFour(t)
    BY <2>2 DEF HasFour, Contents
  <2> QED  BY <2>1, <2>2, <2>3, <2>4 DEF TwoFours
<1>6. ASSUME EndsFour(s) PROVE EndsFour(t) \/ (Four(s[1]) /\ AllFour(t))
  <2>1. PICK i \in 1..Len(s) :
          Four(s[i]) /\ \A j \in 1..Len(s) : j > i /\ s[j].kind = "state" => Four(s[j])
    BY <1>6 DEF EndsFour
  <2>2. CASE i = 1
    BY <2>1, <2>2, <1>4 DEF AllFour, Contents
  <2>3. CASE i # 1
    <3>1. i - 1 \in 1..Len(t) /\ Four(t[i - 1])
      BY <2>1, <2>3, <1>4
    <3>2. ASSUME NEW j \in 1..Len(t), j > i - 1, t[j].kind = "state" PROVE Four(t[j])
      <4>1. j + 1 \in 1..Len(s) /\ t[j] = s[j + 1] /\ j + 1 > i
        BY <3>2, <1>4
      <4> QED  BY <4>1, <3>2, <2>1
    <3> QED  BY <3>1, <3>2 DEF EndsFour
  <2> QED  BY <2>2, <2>3
<1>7. ASSUME FoursLast(s) PROVE FoursLast(t) /\ (Four(s[1]) => AllFour(t))
  <2>1. \A i, j \in 1..Len(t) : j > i => j + 1 > i + 1
    OBVIOUS
  <2>2. FoursLast(t)
    BY <2>1, <1>4, <1>7 DEF FoursLast
  <2>3. Four(s[1]) => AllFour(t)
    BY <1>4, <1>7 DEF FoursLast, AllFour, Contents
  <2> QED  BY <2>2, <2>3
<1> QED  BY <1>2, <1>3, <1>5, <1>6, <1>7 DEF t

LEMMA FourPlain ==
    ASSUME NEW s \in Seq(Messages)
    PROVE  /\ FoursLast(s) /\ HasFour(s) => EndsFour(s)
           /\ ~HasKind(s, "state") => ~HasFour(s) /\ AllFour(s) /\ FoursLast(s)
           /\ HasFour(s) /\ (\E b : ClocksBelow(s, b)) => HasFalse(s)
           /\ TwoFours(s) \/ EndsFour(s) => HasFour(s)
<1>1. FoursLast(s) /\ HasFour(s) => EndsFour(s)
  BY DEF FoursLast, HasFour, EndsFour, Contents
<1>2. ~HasKind(s, "state") => ~HasFour(s) /\ AllFour(s)
  BY DEF HasKind, HasFour, AllFour, Four
<1>3. ~HasFour(s) => FoursLast(s)
  BY DEF HasFour, FoursLast, Contents
<1>4. ASSUME HasFour(s), NEW b, ClocksBelow(s, b) PROVE HasFalse(s)
  BY <1>4 DEF HasFour, Four, ClocksBelow, HasFalse, COMMS_TIMEOUT
<1>5. TwoFours(s) \/ EndsFour(s) => HasFour(s)
  BY DEF TwoFours, EndsFour, HasFour, Contents
<1> QED  BY <1>1, <1>2, <1>3, <1>4, <1>5

\* One message, or a message and an acknowledgement.
LEMMA FourOne ==
    ASSUME NEW x \in Messages, x.kind # "ack", NEW asked \in BOOLEAN,
           NEW t, t = <<x>> \o (IF asked THEN <<Ack>> ELSE <<>>)
    PROVE  /\ t \in Seq(Messages) /\ t # <<>> /\ t[1] = x
           /\ HasFour(t) <=> Four(x)
           /\ AllFour(t) <=> (x.kind = "state" => Four(x))
           /\ FoursLast(t)
<1>1. Ack \in Messages /\ Ack.kind = "ack"
  BY DEF Ack, Messages
<1>2. ASSUME NEW y \in Messages
      PROVE  /\ <<y>> \in Seq(Messages) /\ <<y>> # <<>> /\ <<y>>[1] = y
             /\ HasFour(<<y>>) <=> Four(y)
             /\ AllFour(<<y>>) <=> (y.kind = "state" => Four(y))
             /\ FoursLast(<<y>>)
  <2>1. Contents(<<y>>) = {y}
    BY OneMessage
  <2>2. HasFour(<<y>>) <=> Four(y)
    BY <2>1 DEF HasFour
  <2>3. AllFour(<<y>>) <=> (y.kind = "state" => Four(y))
    BY <2>1 DEF AllFour
  <2> QED  BY <2>2, <2>3 DEF FoursLast
<1>3. CASE ~asked
  <2>1. t = <<x>>
    BY <1>3
  <2> QED  BY <2>1, <1>2
<1>4. CASE asked
  <2> DEFINE s == <<x>>
             u == <<Ack>>
  <2>1. t = s \o u
    BY <1>4
  <2>2. /\ s \in Seq(Messages) /\ Len(s) = 1 /\ s[1] = x
        /\ HasFour(s) <=> Four(x)
        /\ AllFour(s) <=> (x.kind = "state" => Four(x))
        /\ FoursLast(s)
    BY <1>2
  <2>3. u \in Seq(Messages) /\ Len(u) = 1 /\ ~HasFour(u) /\ AllFour(u) /\ FoursLast(u)
    <3>1. ~Four(Ack) /\ Ack.kind # "state"
      BY <1>1 DEF Four
    <3> QED  BY <3>1, <1>1, <1>2
  <2> HIDE DEF s, u
  <2>4. t \in Seq(Messages) /\ t # <<>> /\ t[1] = x
    <3>1. t \in Seq(Messages) /\ Len(t) = 2 /\ t[1] = s[1]
      BY <2>1, <2>2, <2>3, CatFacts
    <3> QED  BY <3>1, <2>2
  <2> QED  BY <2>1, <2>2, <2>3, <2>4, FourCat
<1> QED  BY <1>3, <1>4

InMove == pc \in {"starting", "homing", "waiting"}

Ended == pc \in {"stopping", "query"} \/ (InMove /\ completion = "done")

\* j has timed out, and the host cannot hear anything else from it.
Sure(j) ==
    /\ ~Has(h2m[j], "start") /\ ~can_trigger[j]
    /\ is_shutdown[j] \/ trigger_reason[j] = COMMS_TIMEOUT
    /\ AllFour(m2h[j])
    /\ Current(j) => last_params \in {NoParams, COMMS_TIMEOUT}
    /\ pc \in {"stopping", "query"} /\ ~Asked(j) => reasons[j] = COMMS_TIMEOUT

\* k has not timed out in this move, and will not.
Fine(k) ==
    \/ is_shutdown[k]
    \/ ~can_trigger[k] /\ trigger_reason[k] # COMMS_TIMEOUT /\ ~Has(h2m[k], "start")

\* k is still to be asked: if nothing was lost, it is told to stop or has said why.
Unsent(k) == InMove \/ (pc \in {"stopping", "query"} /\ Asked(k) /\ ~Current(k))

UnsentTold(k) ==
    \/ Doomed(h2m[k])
    \/ lost = 0 => Has(h2m[k], "trigger") \/ HasFour(m2h[k])

\* k is asked: a timeout is said twice if nothing was lost, and once if one message was.
CurrentTold(k) ==
    \/ Doomed(h2m[k]) /\ Has(h2m[k], "query")
    \/ /\ lost = 0 => \/ Has(h2m[k], "query") /\ (Has(h2m[k], "trigger") \/ HasFour(m2h[k]))
                      \/ TwoFours(m2h[k])
       /\ lost = 1 => \/ Has(h2m[k], "query") \/ EndsFour(m2h[k])
                      \/ AllFour(m2h[k]) /\ last_params = COMMS_TIMEOUT

\* k was asked: a timeout is known.
PastTold(k) == trigger_reason[k] = COMMS_TIMEOUT /\ lost <= 1 => reasons[k] = COMMS_TIMEOUT

Told(k) ==
    \/ Fine(k) \/ Sure(k)
    \/ Unsent(k) /\ UnsentTold(k)
    \/ Current(k) /\ CurrentTold(k)
    \/ pc \in {"stopping", "query"} /\ ~Asked(k) /\ PastTold(k)

\* When the wait is over, the verdict is a timeout, or every timeout will be known.
Credit == Ended => (\E j \in Mcus : Sure(j)) \/ \A k \in Mcus : Told(k)

\* Until it is over, the fast dispatch is ready to tell all the others.
Waits ==
    /\ InMove => /\ \A k \in Mcus : handler[k] = "trsync"
                 /\ completion # "done" => /\ \A k \in Mcus : waiting[k]
                                           /\ pc # "starting" => td_active /\ td_can_trigger
    /\ pc \in {"starting", "homing"} => home_end_clock = 0

\* A query is given up only after a loss, or in a shutdown, which ends all homing.
GaveUp == given_up /\ (pc # "idle" \/ ~in_shutdown) => lost # 0

Mute(k) ==
    Current(k) /\ last_params = NoParams /\ m2h[k] # <<>> /\ m2h[k][1].kind = "ack"
      => in_shutdown \/ lost # 0

Sorted(k) == ~given_up => FoursLast(m2h[k])

\* Before the endstop is checked, a trsync stops only for a timeout.
Early(k) ==
    pc = "starting" /\ ~given_up =>
      /\ ~Has(h2m[k], "trigger") /\ ReasonsAre(m2h[k], COMMS_TIMEOUT)
      /\ ~is_shutdown[k] /\ ~can_trigger[k]
           => Has(h2m[k], "start") \/ trigger_reason[k] = COMMS_TIMEOUT

\* The verdict.
Unhidden ==
    pc = "idle" /\ result = "hit" /\ lost <= 1
      => \A k \in Mcus : trigger_reason[k] # COMMS_TIMEOUT

HInv ==
    /\ Waits /\ GaveUp /\ Credit /\ Unhidden
    /\ \A k \in Mcus : Mute(k) /\ Sorted(k) /\ Early(k)

\* Nothing changes for k but the number of losses.
LEMMA HitFrame ==
    ASSUME NEW k, SameFirmware(k), SameLine(k), SameHost, lost' = lost
    PROVE  /\ Sure(k)' = Sure(k) /\ Told(k)' = Told(k) /\ Mute(k)' = Mute(k)
           /\ Sorted(k)' = Sorted(k) /\ Early(k)' = Early(k)
<1> USE DEF SameHost, SameLine, SameFirmware, moveVars, stateVars, tdVars
<1>1. /\ Asked(k)' = Asked(k) /\ Current(k)' = Current(k) /\ InMove' = InMove
      /\ Unsent(k)' = Unsent(k)
  BY DEF Asked, Current, InMove, Unsent
<1>2. Sure(k)' = Sure(k)
  BY <1>1 DEF Sure
<1>3. Fine(k)' = Fine(k) /\ UnsentTold(k)' = UnsentTold(k) /\ CurrentTold(k)' = CurrentTold(k)
      /\ PastTold(k)' = PastTold(k)
  BY DEF Fine, UnsentTold, CurrentTold, PastTold
<1>4. Told(k)' = Told(k)
  BY <1>1, <1>2, <1>3 DEF Told
<1>5. Mute(k)' = Mute(k) /\ Sorted(k)' = Sorted(k) /\ Early(k)' = Early(k)
  BY <1>1 DEF Mute, Sorted, Early
<1> QED  BY <1>2, <1>4, <1>5

\* A step of one micro-controller: what is to be shown of it.
LEMMA FirmwareHit ==
    ASSUME IInv, HInv, NEW m \in Mcus, SameHost, lost' = lost,
           \A k \in Mcus : k # m => SameFirmware(k) /\ SameLine(k),
           is_shutdown[m] => is_shutdown'[m],
           Has(h2m'[m], "start") => Has(h2m[m], "start"),
           ~can_trigger[m] /\ ~Has(h2m[m], "start") =>
             /\ ~can_trigger'[m]
             /\ trigger_reason'[m] = trigger_reason[m] \/ is_shutdown'[m],
           is_shutdown'[m] => trigger_reason'[m] = 0,
           AllFour(m2h[m]) /\ (~is_shutdown[m] => trigger_reason[m] = COMMS_TIMEOUT)
             /\ ~can_trigger[m] /\ ~Has(h2m[m], "start") => AllFour(m2h'[m]),
           Unsent(m) /\ UnsentTold(m) => Fine(m)' \/ UnsentTold(m)',
           Current(m) /\ CurrentTold(m) => Fine(m)' \/ CurrentTold(m)',
           Mute(m)', Sorted(m)', Early(m)'
    PROVE  HInv'
<1> USE DEF COMMS_TIMEOUT
<1>1. n' = n /\ Mcus' = Mcus /\ lost' = lost
  BY DEF SameHost, Mcus
<1>2. UNCHANGED <<pc, completion, handler, waiting, td_active, td_can_trigger, home_end_clock,
                  given_up, in_shutdown, result, last_params, reasons, todo>>
  BY DEF SameHost, tdVars, moveVars, stateVars
<1>3. /\ Asked(m)' = Asked(m) /\ Current(m)' = Current(m) /\ InMove' = InMove
      /\ Unsent(m)' = Unsent(m) /\ Ended' = Ended
  BY <1>1, <1>2 DEF Asked, Current, InMove, Unsent, Ended
<1>4. Waits' /\ GaveUp'
  BY <1>1, <1>2, <1>3 DEF HInv, Waits, GaveUp
<1>5. \A k \in Mcus : (Mute(k) /\ Sorted(k) /\ Early(k))'
  BY HitFrame DEF HInv
<1>6. Sure(m) => Sure(m)'
  BY <1>2, <1>3 DEF Sure
<1>7. Fine(m) => Fine(m)'
  BY DEF Fine
<1>8. Asleep(m) /\ Bare(h2m[m]) =>
        (trigger_reason[m] # COMMS_TIMEOUT \/ is_shutdown[m] => trigger_reason'[m] # COMMS_TIMEOUT)
        /\ (trigger_reason'[m] = trigger_reason[m] \/ is_shutdown'[m])
  <2>1. h2m[m] \in Seq(Commands)
    BY DEF IInv, TypeOK, LinkTypes
  <2>2. Bare(h2m[m]) => ~Has(h2m[m], "start")
    BY <2>1, BareFacts
  <2> QED  BY <2>2 DEF Asleep, Off
<1>9. Told(m) => Told(m)'
  <2>1. pc \in {"stopping", "query"} /\ ~Asked(m) => Asleep(m) /\ Bare(h2m[m])
    BY DEF IInv, Machine, Answers, Settled, QuietIn
  <2>2. ASSUME pc \in {"stopping", "query"}, ~Asked(m), PastTold(m)
        PROVE  Fine(m)' \/ PastTold(m)'
    BY <2>1, <2>2, <1>1, <1>2, <1>8 DEF PastTold, Fine
  <2> QED  BY <2>2, <1>2, <1>3, <1>6, <1>7 DEF Told
<1>10. Credit'
  <2>1. \A k \in Mcus : k # m => Sure(k)' = Sure(k) /\ Told(k)' = Told(k)
    BY HitFrame
  <2> QED  BY <2>1, <1>1, <1>3, <1>6, <1>9 DEF HInv, Credit
<1>11. Unhidden'
  <2> SUFFICES ASSUME pc = "idle", result = "hit", lost <= 1, NEW k \in Mcus
               PROVE  trigger_reason'[k] # COMMS_TIMEOUT
    BY <1>1, <1>2 DEF Unhidden
  <2>1. trigger_reason[k] # COMMS_TIMEOUT
    BY DEF HInv, Unhidden
  <2>2. CASE k = m
    <3>1. Asleep(m) /\ Bare(h2m[m])
      BY DEF IInv, Machine, Answers, Settled, QuietIn
    <3> QED  BY <3>1, <2>1, <2>2, <1>8
  <2>3. CASE k # m
    BY <2>1, <2>3 DEF SameFirmware
  <2> QED  BY <2>2, <2>3
<1> QED  BY <1>1, <1>4, <1>5, <1>10, <1>11 DEF HInv

\* The report of a timeout is under way: m has timed out.
LEMMA FourMeans ==
    ASSUME IInv, NEW m \in Mcus, ~given_up, HasFour(m2h[m])
    PROVE  /\ ~can_trigger[m] /\ ~Has(h2m[m], "start")
           /\ is_shutdown[m] \/ trigger_reason[m] = COMMS_TIMEOUT
           /\ ~Settled(m)
<1>1. /\ TypeOK /\ Firmware(m) /\ Clocks(m) /\ Reported(m) /\ Starts(m)
      /\ m2h[m] \in Seq(Messages)
  BY DEF IInv, Machine, TypeOK, LinkTypes
<1>2. HasFalse(m2h[m]) /\ HasKind(m2h[m], "state")
  BY <1>1, FourPlain DEF Clocks, HasFour, Four, HasKind
<1>3. ~Drained(m2h[m])
  BY <1>1, <1>2, MessagesPlain
<1>4. ~can_trigger[m]
  BY <1>1, <1>2 DEF Firmware, Off, Reported
<1>5. ASSUME ~is_shutdown[m] PROVE trigger_reason[m] = COMMS_TIMEOUT
  <2>1. ReasonsAre(m2h[m], trigger_reason[m])
    BY <1>1, <1>5 DEF Reported
  <2>2. PICK x \in Contents(m2h[m]) : Four(x)
    BY DEF HasFour
  <2>3. x.can => x.reason = 0
    BY <2>2, <1>1 DEF Clocks, ClocksBelow, Four
  <2> QED  BY <2>1, <2>2, <2>3 DEF ReasonsAre, Four, COMMS_TIMEOUT
<1> QED  BY <1>1, <1>3, <1>4, <1>5 DEF Starts, Settled

\* A micro-controller that is asked has the query before it, or has answered it.
LEMMA AskedOrAnswered ==
    ASSUME IInv, NEW m \in Mcus
    PROVE  /\ Current(m) => Has(h2m[m], "query") \/ (QuietIn(m) /\ HasKind(m2h[m], "ack"))
           /\ Has(h2m[m], "query") \/ HasKind(m2h[m], "ack") => Current(m)
BY DEF IInv, Machine, Answers

\* m says nothing, and takes no command that it answers.
LEMMA SilentHit ==
    ASSUME IInv, IInv', HInv, NEW m \in Mcus, SameHost, lost' = lost,
           \A k \in Mcus : k # m => SameFirmware(k) /\ SameLine(k),
           m2h'[m] = m2h[m], is_shutdown'[m] = is_shutdown[m],
           Has(h2m'[m], "start") => Has(h2m[m], "start"),
           Has(h2m'[m], "trigger") = Has(h2m[m], "trigger"),
           Has(h2m'[m], "query") = Has(h2m[m], "query"),
           Doomed(h2m[m]) => Doomed(h2m'[m]),
           ~can_trigger[m] /\ ~Has(h2m[m], "start") =>
             ~can_trigger'[m] /\ trigger_reason'[m] = trigger_reason[m],
           pc = "starting" /\ ~given_up /\ ~is_shutdown[m] /\ ~can_trigger'[m] =>
             Has(h2m'[m], "start") \/ trigger_reason'[m] = COMMS_TIMEOUT
    PROVE  HInv'
<1>1. UNCHANGED <<n, pc, given_up, in_shutdown, last_params, todo>>
  BY DEF SameHost, moveVars, stateVars
<1>2. Current(m)' = Current(m) /\ Mcus' = Mcus
  BY <1>1 DEF Current, Mcus
<1>3. is_shutdown'[m] => trigger_reason'[m] = 0
  BY <1>2 DEF IInv, Machine, Firmware
<1>4. Mute(m) /\ Sorted(m) /\ Early(m)
  BY DEF HInv
<1>5. Mute(m)' /\ Sorted(m)'
  BY <1>1, <1>2, <1>4 DEF Mute, Sorted
<1>6. Early(m)'
  BY <1>1, <1>4 DEF Early
<1>7. UnsentTold(m) => UnsentTold(m)'
  BY DEF UnsentTold
<1>8. CurrentTold(m) => CurrentTold(m)'
  BY <1>1 DEF CurrentTold
<1> QED  BY <1>3, <1>5, <1>6, <1>7, <1>8, FirmwareHit

\* The head of the messages stays the same, or is the answer.
LEMMA MuteKept ==
    ASSUME IInv, HInv, NEW m \in Mcus, SameHost, lost' = lost, NEW t \in Seq(Messages),
           t # <<>>, t[1].kind # "ack", m2h'[m] = m2h[m] \o t
    PROVE  Mute(m)'
<1>1. UNCHANGED <<n, pc, in_shutdown, last_params, todo>>
  BY DEF SameHost, moveVars, stateVars
<1>2. Current(m)' = Current(m)
  BY <1>1 DEF Current
<1>3. m2h[m] \in Seq(Messages) /\ Mute(m)
  BY DEF IInv, TypeOK, LinkTypes, HInv
<1>4. CASE m2h[m] = <<>>
  <2>1. m2h'[m] = t
    BY <1>4
  <2> QED  BY <2>1 DEF Mute
<1>5. CASE m2h[m] # <<>>
  <2>1. 1 \in 1..Len(m2h[m])
    BY <1>3, <1>5, TailFacts
  <2>2. m2h'[m][1] = m2h[m][1]
    BY <2>1, <1>3, CatFacts
  <2> QED  BY <2>2, <1>1, <1>2, <1>3, <1>5 DEF Mute
<1> QED  BY <1>4, <1>5

LEMMA TrsyncTaskHit ==
    ASSUME IInv, IInv', HInv, NEW m \in Mcus, TrsyncTask(m)
    PROVE  HInv'
<1> DEFINE x == State(can_trigger[m], trigger_reason[m], now)
           t == <<x>>
<1>1. /\ report[m] /\ m2h' = [m2h EXCEPT ![m] = @ \o t] /\ SameHost
      /\ report' = [report EXCEPT ![m] = FALSE]
      /\ UNCHANGED <<can_trigger, trigger_reason, report_time, expire_time, signals, moving,
                     stopped_at, is_shutdown, endstop_time, h2m, lost>>
  BY DEF TrsyncTask, Send, SameHost, endstopVars
<1>2. /\ m2h \in [Mcus -> Seq(Messages)] /\ can_trigger[m] \in BOOLEAN
      /\ trigger_reason[m] \in 0..4 /\ now \in Nat /\ report \in [Mcus -> BOOLEAN]
  BY DEF IInv, TypeOK, FirmwareTypes, LinkTypes
<1>3. x \in Messages /\ x.kind = "state" /\ x.can = can_trigger[m]
      /\ x.reason = trigger_reason[m]
  BY <1>2 DEF State, Messages
<1>4. m2h'[m] = m2h[m] \o t /\ m2h[m] \in Seq(Messages)
      /\ \A k \in Mcus : k # m => SameFirmware(k) /\ SameLine(k)
  BY <1>1, <1>2 DEF SameFirmware, SameLine
<1> HIDE DEF x
<1>5. /\ t \in Seq(Messages) /\ t # <<>> /\ t[1] = x
      /\ HasFour(t) <=> Four(x)
      /\ AllFour(t) <=> Four(x)
      /\ FoursLast(t)
      /\ \A r : ReasonsAre(t, r) <=> (~x.can => x.reason = r)
  <2>1. PICK asked \in BOOLEAN : ~asked
    OBVIOUS
  <2>2. t = <<x>> \o (IF asked THEN <<Ack>> ELSE <<>>)
    BY <2>1
  <2> HIDE DEF t
  <2>3. /\ t \in Seq(Messages) /\ t # <<>> /\ t[1] = x
        /\ HasFour(t) <=> Four(x)
        /\ AllFour(t) <=> (x.kind = "state" => Four(x))
        /\ FoursLast(t)
    BY <2>2, <1>3, FourOne
  <2>4. \A r : ReasonsAre(t, r) <=> (x.kind = "state" /\ ~x.can => x.reason = r)
    BY <2>2, <1>3, AnswerFacts
  <2> QED  BY <2>3, <2>4, <1>3
<1> HIDE DEF t
<1>6. ~is_shutdown[m] /\ ~Asleep(m) /\ ~QuietIn(m)
  BY <1>1 DEF IInv, Machine, Firmware, Off, Asleep, QuietIn
<1>7. Four(x) <=> trigger_reason[m] = COMMS_TIMEOUT
  BY <1>3 DEF Four
<1>8. UNCHANGED <<n, pc, given_up, in_shutdown, last_params, todo>>
  BY <1>1 DEF SameHost, moveVars, stateVars
<1>9. Mute(m)'
  BY <1>1, <1>3, <1>4, <1>5, MuteKept
<1>10. Sorted(m)'
  <2> SUFFICES ASSUME ~given_up PROVE FoursLast(m2h'[m])
    BY <1>8 DEF Sorted
  <2>1. FoursLast(m2h[m])
    BY DEF HInv, Sorted
  <2>2. HasFour(m2h[m]) => AllFour(t)
    BY <1>5, <1>6, <1>7, FourMeans
  <2> QED  BY <2>1, <2>2, <1>4, <1>5, FourCat
<1>11. Early(m)'
  <2> SUFFICES ASSUME pc = "starting", ~given_up
               PROVE  /\ ReasonsAre(m2h'[m], COMMS_TIMEOUT) /\ ~Has(h2m[m], "trigger")
                      /\ ~can_trigger[m]
                           => Has(h2m[m], "start") \/ trigger_reason[m] = COMMS_TIMEOUT
    BY <1>1, <1>6, <1>8 DEF Early
  <2>1. Early(m) /\ Starts(m)
    BY DEF HInv, IInv, Machine
  <2>2. ~Has(h2m[m], "start")
    BY <2>1, <1>6 DEF Starts
  <2>3. ReasonsAre(t, COMMS_TIMEOUT)
    BY <2>1, <2>2, <1>3, <1>5, <1>6 DEF Early
  <2> QED  BY <2>1, <2>3, <1>4, <1>5, <1>6, MessagesCat DEF Early
<1>12. AllFour(m2h[m]) /\ trigger_reason[m] = COMMS_TIMEOUT => AllFour(m2h'[m])
  BY <1>4, <1>5, <1>7, FourCat
<1>13. HasFour(m2h[m]) => HasFour(m2h'[m])
  BY <1>4, <1>5, FourCat
<1>14. TwoFours(m2h[m]) => TwoFours(m2h'[m])
  BY <1>4, <1>5, FourCat
<1>15. UnsentTold(m) => UnsentTold(m)'
  BY <1>1, <1>13 DEF UnsentTold
<1>16. Current(m) /\ CurrentTold(m) => CurrentTold(m)'
  <2>1. Current(m) => Has(h2m[m], "query")
    BY <1>6, AskedOrAnswered
  <2> QED  BY <2>1, <1>1, <1>13, <1>14 DEF CurrentTold
<1> QED  BY <1>1, <1>4, <1>6, <1>9, <1>10, <1>11, <1>12, <1>15, <1>16, FirmwareHit

LEMMA TimerHit ==
    ASSUME IInv, IInv', HInv, NEW m \in Mcus, SameHost, NEW r \in {1, 4}, DoTrigger(m, r),
           UNCHANGED <<report_time, is_shutdown, h2m, m2h, lost>>,
           \A k \in Mcus : k # m => expire_time'[k] = expire_time[k]
                                    /\ (k = 1 => endstop_time' = endstop_time),
           pc = "starting" => r = 4
    PROVE  HInv'
<1>1. /\ can_trigger \in [Mcus -> BOOLEAN] /\ report \in [Mcus -> BOOLEAN]
      /\ trigger_reason \in [Mcus -> 0..4] /\ signals \in [Mcus -> BOOLEAN]
      /\ moving \in [Mcus -> BOOLEAN] /\ stopped_at \in [Mcus -> Nat]
  BY DEF IInv, TypeOK, FirmwareTypes
<1>2. \A k \in Mcus : k # m => SameFirmware(k) /\ SameLine(k)
  BY <1>1 DEF DoTrigger, SameFirmware, SameLine
<1>3. ~can_trigger[m] => ~can_trigger'[m] /\ trigger_reason'[m] = trigger_reason[m]
  BY DEF DoTrigger
<1>4. can_trigger[m] => trigger_reason'[m] = r
  BY <1>1 DEF DoTrigger
<1>5. Early(m)
  BY DEF HInv
<1>6. pc = "starting" /\ ~given_up /\ ~is_shutdown[m] /\ ~can_trigger'[m] =>
             Has(h2m'[m], "start") \/ trigger_reason'[m] = COMMS_TIMEOUT
  BY <1>3, <1>4, <1>5 DEF Early, COMMS_TIMEOUT
<1> QED  BY <1>2, <1>3, <1>6, SilentHit

LEMMA ExpireEventHit ==
    ASSUME IInv, IInv', HInv, NEW m \in Mcus, ExpireEvent(m)
    PROVE  HInv'
<1>1. expire_time \in [Mcus -> Nat]
  BY DEF IInv, TypeOK, FirmwareTypes
<1>2. /\ SameHost /\ DoTrigger(m, 4) /\ UNCHANGED <<report_time, is_shutdown, h2m, m2h, lost>>
      /\ \A k \in Mcus : k # m => expire_time'[k] = expire_time[k] /\ endstop_time' = endstop_time
  BY <1>1 DEF ExpireEvent, SameHost, endstopVars, COMMS_TIMEOUT
<1> QED  BY <1>2, TimerHit

LEMMA EndstopEventHit ==
    ASSUME IInv, IInv', HInv, NEW match \in BOOLEAN, EndstopEvent(match)
    PROVE  HInv'
<1>1. 1 \in Mcus /\ SameHost /\ UNCHANGED <<is_shutdown, h2m, m2h, lost>>
  BY Basics DEF IInv, EndstopEvent, SameHost
<1>2. pc # "starting"
  BY DEF EndstopEvent, IInv, Host, Endstop
<1>3. CASE UNCHANGED trsyncVars
  <2>1. \A k \in Mcus : k # 1 => SameFirmware(k) /\ SameLine(k)
    BY <1>1, <1>3 DEF trsyncVars, SameFirmware, SameLine
  <2>2. ~can_trigger[1] => ~can_trigger'[1] /\ trigger_reason'[1] = trigger_reason[1]
    BY <1>3 DEF trsyncVars
  <2> QED  BY <2>1, <2>2, <1>1, <1>2, SilentHit
<1>4. CASE DoTrigger(1, ENDSTOP_HIT) /\ UNCHANGED <<trigger_count, report_time, expire_time>>
  <2>1. DoTrigger(1, 1) /\ UNCHANGED <<report_time, expire_time>>
    BY <1>4 DEF ENDSTOP_HIT
  <2> QED  BY <2>1, <1>1, <1>2, TimerHit
<1> QED  BY <1>3, <1>4 DEF EndstopEvent

LEMMA ReportEventHit ==
    ASSUME IInv, IInv', HInv, NEW m \in Mcus, ReportEvent(m)
    PROVE  HInv'
<1>1. report \in [Mcus -> BOOLEAN] /\ report_time \in [Mcus -> Nat]
  BY DEF IInv, TypeOK, FirmwareTypes
<1>2. /\ SameHost /\ UNCHANGED <<can_trigger, trigger_reason, is_shutdown, h2m, m2h, lost>>
      /\ \A k \in Mcus : k # m => SameFirmware(k) /\ SameLine(k)
  BY <1>1 DEF ReportEvent, SameHost, SameFirmware, SameLine, endstopVars
<1>3. Early(m)
  BY DEF HInv
<1>4. pc = "starting" /\ ~given_up /\ ~is_shutdown[m] /\ ~can_trigger'[m] =>
             Has(h2m'[m], "start") \/ trigger_reason'[m] = COMMS_TIMEOUT
  BY <1>2, <1>3 DEF Early
<1> QED  BY <1>2, <1>4, SilentHit

\* A command without an answer is taken.
LEMMA CommandHit ==
    ASSUME IInv, IInv', HInv, NEW m \in Mcus, Served(m), m2h' = m2h,
           UNCHANGED is_shutdown,
           \A k \in Mcus : k # m => SameFirmware(k) /\ SameLine(k),
           ~HeadIs(h2m[m], "emergency_stop"), ~HeadIs(h2m[m], "trigger"),
           ~HeadIs(h2m[m], "query"),
           \/ HeadIs(h2m[m], "start") /\ can_trigger'[m]
           \/ /\ ~HeadIs(h2m[m], "start") /\ can_trigger'[m] = can_trigger[m]
              /\ trigger_reason'[m] = trigger_reason[m]
    PROVE  HInv'
<1>1. /\ SameHost /\ lost' = lost /\ n' = n /\ h2m[m] # <<>>
      /\ h2m' = [h2m EXCEPT ![m] = Tail(@)]
  BY DEF Served, SameHost
<1>2. /\ h2m[m] \in Seq(Commands) /\ h2m'[m] = Tail(h2m[m])
      /\ \A c : Has(h2m[m], c) <=> HeadIs(h2m[m], c) \/ Has(h2m'[m], c)
  BY <1>1, CommandTaken
<1>3. Doomed(h2m[m]) => Doomed(h2m'[m])
  BY <1>1, <1>2, DoomedTail
<1>4. pc = "starting" /\ ~given_up /\ ~is_shutdown[m] /\ ~can_trigger'[m] =>
             Has(h2m'[m], "start") \/ trigger_reason'[m] = COMMS_TIMEOUT
  BY <1>2 DEF HInv, Early
<1>5. Has(h2m'[m], "trigger") = Has(h2m[m], "trigger")
      /\ Has(h2m'[m], "query") = Has(h2m[m], "query")
  BY <1>2 DEF Has
<1> QED  BY <1>1, <1>2, <1>3, <1>4, <1>5, SilentHit

\* A firmware that is shut down says so, or an emergency stop or another part of the
\* firmware shuts it down.
LEMMA DownHit ==
    ASSUME IInv, IInv', HInv, NEW m \in Mcus, SameHost, lost' = lost, is_shutdown'[m],
           \A k \in Mcus : k # m => SameFirmware(k) /\ SameLine(k),
           h2m'[m] = h2m[m] \/ (h2m[m] # <<>> /\ h2m'[m] = Tail(h2m[m])),
           NEW asked \in BOOLEAN,
           m2h'[m] = m2h[m] \o (<<Shutdown>> \o (IF asked THEN <<Ack>> ELSE <<>>))
    PROVE  HInv'
<1> DEFINE t == <<Shutdown>> \o (IF asked THEN <<Ack>> ELSE <<>>)
<1>1. Shutdown \in Messages /\ Shutdown.kind = "shutdown"
  BY DEF Shutdown, Messages
<1>2. t \in Seq(Messages) /\ t # <<>> /\ t[1] = Shutdown /\ AllFour(t)
  BY <1>1, FourOne
<1>3. \A r : ReasonsAre(t, r)
  BY <1>1, AnswerFacts
<1> HIDE DEF t
<1>4. m2h'[m] = m2h[m] \o t
  BY DEF t
<1>5. h2m[m] \in Seq(Commands) /\ m2h[m] \in Seq(Messages) /\ Mcus' = Mcus
      /\ UNCHANGED <<n, pc, given_up>>
  BY DEF IInv, TypeOK, LinkTypes, SameHost, Mcus, moveVars
<1>6. \A c : Has(h2m'[m], c) => Has(h2m[m], c)
  BY <1>5, HasTail
<1>7. Mute(m)'
  BY <1>1, <1>2, <1>4, MuteKept
<1>8. Sorted(m)'
  BY <1>2, <1>4, <1>5, FourCat DEF HInv, Sorted
<1>9. Early(m)'
  <2>1. \A r : ReasonsAre(m2h[m], r) => ReasonsAre(m2h'[m], r)
    BY <1>2, <1>3, <1>4, <1>5, MessagesCat
  <2> QED  BY <2>1, <1>5, <1>6 DEF HInv, Early
<1>10. AllFour(m2h[m]) => AllFour(m2h'[m])
  BY <1>2, <1>4, <1>5, FourCat
<1>11. Fine(m)' /\ trigger_reason'[m] = 0 /\ ~can_trigger'[m]
  BY <1>5 DEF Fine, IInv, Machine, Firmware, Off
<1> QED  BY <1>6, <1>7, <1>8, <1>9, <1>10, <1>11, FirmwareHit

LEMMA ShutdownHit ==
    ASSUME IInv, IInv', HInv, NEW m \in Mcus, SameHost, lost' = lost, DoShutdown(m),
           h2m' = h2m \/ (h2m[m] # <<>> /\ h2m' = [h2m EXCEPT ![m] = Tail(@)])
    PROVE  HInv'
<1>1. FirmwareTypes /\ LinkTypes
  BY DEF IInv, TypeOK
<1>2. is_shutdown'[m] /\ m2h' = [m2h EXCEPT ![m] = @ \o <<Shutdown>>]
  BY <1>1 DEF DoShutdown, FirmwareTypes, Send
<1>3. \A k \in Mcus : k # m => SameFirmware(k)
  BY <1>1 DEF DoShutdown, FirmwareTypes, SameFirmware
<1>4. \A k \in Mcus : k # m => SameLine(k)
  BY <1>1, <1>2 DEF LinkTypes, SameLine
<1>5. h2m'[m] = h2m[m] \/ (h2m[m] # <<>> /\ h2m'[m] = Tail(h2m[m]))
  BY <1>1 DEF LinkTypes
<1>6. PICK asked \in BOOLEAN : ~asked
  OBVIOUS
<1>7. m2h'[m] = m2h[m] \o (<<Shutdown>> \o (IF asked THEN <<Ack>> ELSE <<>>))
  <2>1. m2h'[m] = m2h[m] \o <<Shutdown>>
    BY <1>1, <1>2 DEF LinkTypes
  <2>2. <<Shutdown>> \o <<>> = <<Shutdown>>
    OBVIOUS
  <2> QED  BY <2>1, <2>2, <1>6
<1> QED  BY <1>2, <1>3, <1>4, <1>5, <1>7, DownHit

\* command_trsync_trigger()
LEMMA TrsyncTriggerHit ==
    ASSUME IInv, IInv', HInv, NEW m \in Mcus, Served(m), ~is_shutdown[m],
           HeadIs(h2m[m], "trigger") \/ HeadIs(h2m[m], "query"),
           TrsyncTrigger(m, h2m[m][1].arg,
                         IF h2m[m][1].cmd = "query" THEN <<Ack>> ELSE <<>>)
    PROVE  HInv'
<1> DEFINE a == h2m[m][1].arg
           q == h2m[m][1].cmd = "query"
           r == IF can_trigger[m] THEN a ELSE trigger_reason[m]
           x == State(FALSE, r, 0)
           t == <<x>> \o (IF q THEN <<Ack>> ELSE <<>>)
<1>1. /\ SameHost /\ lost' = lost /\ n' = n /\ h2m[m] # <<>>
      /\ h2m' = [h2m EXCEPT ![m] = Tail(@)]
  BY DEF Served, SameHost
<1>2. FirmwareTypes /\ LinkTypes /\ given_up \in BOOLEAN
  BY DEF IInv, TypeOK, HostTypes
<1>3. /\ a \in {2, 3} /\ ~HeadIs(h2m[m], "emergency_stop") /\ ~HeadIs(h2m[m], "start")
      /\ HeadIs(h2m[m], "query") <=> q
      /\ h2m[m] \in Seq(Commands) /\ h2m'[m] \in Seq(Commands)
      /\ h2m'[m] = Tail(h2m[m]) /\ \A k \in Mcus : k # m => h2m'[k] = h2m[k]
      /\ \A c : Has(h2m[m], c) <=> HeadIs(h2m[m], c) \/ Has(h2m'[m], c)
      /\ q => Bare(h2m'[m])
  BY <1>1, CommandTaken
<1>4. r \in 0..4 /\ q \in BOOLEAN
  BY <1>2, <1>3 DEF FirmwareTypes
<1>5. /\ trigger_reason' = [trigger_reason EXCEPT ![m] = r]
      /\ can_trigger' = [can_trigger EXCEPT ![m] = FALSE]
      /\ UNCHANGED <<is_shutdown, endstop_time>>
  BY DEF TrsyncTrigger, endstopVars
<1>6. trigger_reason'[m] = r /\ ~can_trigger'[m] /\ is_shutdown'[m] = is_shutdown[m]
  BY <1>2, <1>5 DEF FirmwareTypes
<1>7. m2h' = [m2h EXCEPT ![m] = m2h[m] \o t]
  BY <1>6 DEF TrsyncTrigger, Send
<1>8. \A k \in Mcus : k # m => SameFirmware(k) /\ SameLine(k)
  <2>1. \A k \in Mcus : k # m => SameFirmware(k)
    BY <1>2 DEF TrsyncTrigger, FirmwareTypes, SameFirmware, endstopVars
  <2> HIDE DEF t
  <2> QED  BY <2>1, <1>2, <1>3, <1>7 DEF LinkTypes, SameLine
<1>9. x \in Messages /\ x.kind = "state" /\ ~x.can /\ x.reason = r
  BY <1>4 DEF State, Messages
<1>10. Four(x) <=> r = COMMS_TIMEOUT
  BY <1>9 DEF Four
<1>11. /\ t \in Seq(Messages) /\ t # <<>> /\ t[1] = x
       /\ HasFour(t) <=> r = COMMS_TIMEOUT
       /\ AllFour(t) <=> r = COMMS_TIMEOUT
       /\ FoursLast(t)
  <2> HIDE DEF x, q
  <2> QED  BY <1>4, <1>9, <1>10, FourOne
<1> HIDE DEF a, q, r, x, t
<1>12. m2h[m] \in Seq(Messages) /\ m2h'[m] = m2h[m] \o t
  BY <1>2, <1>7 DEF LinkTypes
<1>13. /\ Has(h2m'[m], "start") => given_up
       /\ ~QuietIn(m)
  BY <1>1, <1>3, CommandOfMove
<1>14. /\ ~can_trigger[m] => r = trigger_reason[m]
       /\ UNCHANGED <<n, pc, given_up, in_shutdown, last_params, todo>>
  BY <1>1 DEF r, SameHost, moveVars, stateVars
<1>15. Mute(m)'
  BY <1>1, <1>9, <1>11, <1>12, MuteKept
<1>16. Sorted(m)'
  <2> SUFFICES ASSUME ~given_up PROVE FoursLast(m2h'[m])
    BY <1>14 DEF Sorted
  <2>1. FoursLast(m2h[m])
    BY DEF HInv, Sorted
  <2>2. HasFour(m2h[m]) => AllFour(t)
    BY <1>11, <1>14, FourMeans
  <2> QED  BY <2>1, <2>2, <1>11, <1>12, FourCat
<1>17. ~(pc = "starting" /\ ~given_up)
  <2>1. Has(h2m[m], "query") => pc = "query"
    BY AskedOrAnswered DEF Current
  <2> QED  BY <2>1, <1>3 DEF HInv, Early
<1>18. Early(m)'
  BY <1>14, <1>17 DEF Early
<1>19. AllFour(m2h[m]) /\ r = COMMS_TIMEOUT => AllFour(m2h'[m])
  BY <1>11, <1>12, FourCat
<1>20. /\ r = COMMS_TIMEOUT => HasFour(m2h'[m]) /\ EndsFour(m2h'[m])
       /\ r = COMMS_TIMEOUT /\ HasFour(m2h[m]) => TwoFours(m2h'[m])
       /\ TwoFours(m2h[m]) => TwoFours(m2h'[m])
  BY <1>11, <1>12, FourCat
<1>21. r # COMMS_TIMEOUT /\ ~Has(h2m'[m], "start") => Fine(m)'
  BY <1>6 DEF Fine
<1>22. Has(h2m'[m], "start") /\ (Unsent(m) \/ Current(m)) => lost # 0 /\ ~q
  <2>1. Unsent(m) \/ Current(m) => pc # "idle"
    BY DEF Unsent, InMove, Current
  <2>2. q => ~Has(h2m'[m], "start")
    BY <1>3, BareFacts
  <2> QED  BY <2>1, <2>2, <1>13 DEF HInv, GaveUp
<1>23. Unsent(m) /\ UnsentTold(m) => Fine(m)' \/ UnsentTold(m)'
  BY <1>1, <1>20, <1>21, <1>22 DEF UnsentTold
<1>24. ASSUME Current(m), CurrentTold(m) PROVE Fine(m)' \/ CurrentTold(m)'
  <2>1. Has(h2m[m], "query")
    BY <1>13, <1>24, AskedOrAnswered
  <2>2. CASE ~q
    <3>1. Has(h2m'[m], "query")
      BY <2>1, <2>2, <1>3
    <3> QED  BY <3>1, <1>1, <1>20, <1>21, <1>22, <1>24 DEF CurrentTold
  <2>3. CASE q
    <3>1. ~Has(h2m[m], "trigger")
      <4>1. ~Has(h2m'[m], "trigger")
        BY <2>3, <1>3, BareFacts
      <4>2. ~HeadIs(h2m[m], "trigger")
        BY <2>3, <1>3 DEF HeadIs
      <4> QED  BY <4>1, <4>2, <1>3
    <3>2. ~Doomed(h2m[m])
      BY <2>3, <1>1, <1>3, DoomedTail
    <3>3. r # COMMS_TIMEOUT => Fine(m)'
      BY <2>3, <1>21, <1>22, <1>24
    <3>4. lost = 0 => HasFour(m2h[m]) \/ TwoFours(m2h[m])
      BY <3>1, <3>2, <1>24 DEF CurrentTold
    <3> QED  BY <3>3, <3>4, <1>1, <1>20 DEF CurrentTold
  <2> QED  BY <2>2, <2>3
<1> QED  BY <1>1, <1>3, <1>6, <1>8, <1>14, <1>15, <1>16, <1>18, <1>19, <1>23, <1>24, FirmwareHit

LEMMA ProcessCommandHit ==
    ASSUME IInv, IInv', HInv, NEW m \in Mcus, ProcessCommand(m)
    PROVE  HInv'
<1> DEFINE c == h2m[m][1]
           ack == IF c.cmd = "query" THEN <<Ack>> ELSE <<>>
<1>1. Served(m) /\ h2m[m] # <<>> /\ \A d : HeadIs(h2m[m], d) <=> c.cmd = d
  BY ProcessCases DEF Served, HeadIs
<1>2. \/ /\ is_shutdown[m] /\ m2h' = [m2h EXCEPT ![m] = @ \o (<<Shutdown>> \o ack)]
         /\ UNCHANGED <<trsyncVars, is_shutdown, endstopVars>>
      \/ ~HeadIs(h2m[m], "query") /\ DoShutdown(m)
      \/ /\ ~is_shutdown[m]
         /\ \/ c.cmd = "start" /\ ~(c.arg < now) /\ TrsyncStart(m, c.arg)
            \/ c.cmd = "stop_on_trigger" /\ ~signals[m] /\ StopOnTrigger(m)
            \/ /\ c.cmd = "set_timeout" /\ (can_trigger[m] => ~(c.arg < now))
               /\ SetTimeout(m, c.arg)
            \/ m = 1 /\ c.cmd = "endstop_home" /\ ~(c.arg < now) /\ EndstopHome(c.arg)
            \/ m = 1 /\ c.cmd = "endstop_off" /\ EndstopOff
            \/ c.cmd \in {"trigger", "query"} /\ TrsyncTrigger(m, c.arg, ack)
  BY ProcessCases
<1>3. /\ SameHost /\ lost' = lost /\ h2m' = [h2m EXCEPT ![m] = Tail(@)]
      /\ h2m \in [Mcus -> Seq(Commands)] /\ m2h \in [Mcus -> Seq(Messages)] /\ FirmwareTypes
  BY <1>1 DEF Served, IInv, TypeOK, LinkTypes
<1>4. \A k \in Mcus : k # m => h2m'[k] = h2m[k]
  BY <1>3
<1>5. CASE is_shutdown[m] /\ m2h' = [m2h EXCEPT ![m] = @ \o (<<Shutdown>> \o ack)]
           /\ UNCHANGED <<trsyncVars, is_shutdown, endstopVars>>
  <2>1. PICK asked \in BOOLEAN : asked <=> c.cmd = "query"
    OBVIOUS
  <2>2. m2h'[m] = m2h[m] \o (<<Shutdown>> \o (IF asked THEN <<Ack>> ELSE <<>>))
    BY <2>1, <1>3, <1>5
  <2>3. \A k \in Mcus : k # m => m2h'[k] = m2h[k]
    BY <1>3, <1>5
  <2>4. \A k \in Mcus : k # m => SameFirmware(k) /\ SameLine(k)
    BY <2>3, <1>4, <1>5 DEF SameFirmware, SameLine, trsyncVars, endstopVars
  <2>5. h2m'[m] = Tail(h2m[m]) /\ is_shutdown'[m]
    BY <1>3, <1>5
  <2> QED  BY <2>2, <2>4, <2>5, <1>1, <1>3, DownHit
<1>6. CASE ~HeadIs(h2m[m], "query") /\ DoShutdown(m)
  BY <1>1, <1>3, <1>6, ShutdownHit
<1>7. CASE ~is_shutdown[m] /\ c.cmd \in {"trigger", "query"} /\ TrsyncTrigger(m, c.arg, ack)
  BY <1>1, <1>7, TrsyncTriggerHit
<1>8. CASE c.cmd = "start" /\ ~(c.arg < now) /\ TrsyncStart(m, c.arg)
  <2>1. /\ can_trigger'[m] /\ m2h' = m2h /\ is_shutdown' = is_shutdown
        /\ \A k \in Mcus : k # m => SameFirmware(k)
    BY <1>3, <1>8 DEF TrsyncStart, FirmwareTypes, SameFirmware, endstopVars
  <2>2. \A k \in Mcus : k # m => SameLine(k)
    BY <2>1, <1>4 DEF SameLine
  <2> QED  BY <2>1, <2>2, <1>1, <1>8, CommandHit
<1>9. CASE \/ c.cmd = "stop_on_trigger" /\ ~signals[m] /\ StopOnTrigger(m)
           \/ /\ c.cmd = "set_timeout" /\ (can_trigger[m] => ~(c.arg < now))
              /\ SetTimeout(m, c.arg)
           \/ m = 1 /\ c.cmd = "endstop_home" /\ ~(c.arg < now) /\ EndstopHome(c.arg)
           \/ m = 1 /\ c.cmd = "endstop_off" /\ EndstopOff
  <2>1. /\ m2h' = m2h /\ is_shutdown' = is_shutdown /\ can_trigger' = can_trigger
        /\ trigger_reason' = trigger_reason /\ \A k \in Mcus : k # m => SameFirmware(k)
    <3>1. CASE ~signals[m] /\ StopOnTrigger(m)
      BY <3>1, <1>3 DEF StopOnTrigger, FirmwareTypes, SameFirmware, endstopVars
    <3>2. CASE (can_trigger[m] => ~(c.arg < now)) /\ SetTimeout(m, c.arg)
      BY <3>2, <1>3 DEF SetTimeout, FirmwareTypes, SameFirmware, endstopVars, trsyncVars
    <3>3. CASE m = 1 /\ ~(c.arg < now) /\ EndstopHome(c.arg)
      BY <3>3, <1>3 DEF EndstopHome, SameFirmware, trsyncVars
    <3>4. CASE m = 1 /\ EndstopOff
      BY <3>4, <1>3 DEF EndstopOff, SameFirmware, trsyncVars
    <3> QED  BY <3>1, <3>2, <3>3, <3>4, <1>9
  <2>2. \A k \in Mcus : k # m => SameLine(k)
    BY <2>1, <1>4 DEF SameLine
  <2> QED  BY <2>1, <2>2, <1>1, <1>9, CommandHit
<1> QED  BY <1>2, <1>5, <1>6, <1>7, <1>8, <1>9

\* Commands behind those under way, and a message that is read.
LEMMA Grown ==
    ASSUME TypeOK, NEW k \in Mcus, NEW s \in Seq(Commands), h2m'[k] = h2m[k] \o s
    PROVE  /\ \A c : Has(h2m'[k], c) <=> Has(h2m[k], c) \/ Has(s, c)
           /\ Doomed(h2m[k]) => Doomed(h2m'[k])
<1>1. h2m[k] \in Seq(Commands)
  BY DEF TypeOK, LinkTypes
<1> QED  BY <1>1, HasCat, DoomedCat

LEMMA FoursRead ==
    ASSUME TypeOK, NEW k \in Mcus, Read(k)
    PROVE  /\ AllFour(m2h[k]) => AllFour(m2h'[k])
           /\ FoursLast(m2h[k]) => FoursLast(m2h'[k])
           /\ TwoFours(m2h[k]) => HasFour(m2h'[k])
           /\ \A r : ReasonsAre(m2h[k], r) => ReasonsAre(m2h'[k], r)
           /\ m2h'[k] \in Seq(Messages)
<1>1. m2h[k] \in Seq(Messages)
  BY DEF TypeOK, LinkTypes
<1>2. m2h'[k] \in Seq(Messages) /\ \A r : ReasonsAre(m2h[k], r) => ReasonsAre(m2h'[k], r)
  BY <1>1, ReadFacts
<1>3. CASE m2h'[k] = m2h[k]
  BY <1>1, <1>2, <1>3, FourPlain
<1>4. CASE m2h[k] # <<>> /\ m2h'[k] = Tail(m2h[k])
  BY <1>1, <1>2, <1>4, FourTail
<1> QED  BY <1>3, <1>4 DEF Read

\* Time passes, or nothing happens.
LEMMA StillHit ==
    ASSUME HInv, UNCHANGED <<n, can_trigger, trigger_reason, is_shutdown, h2m, m2h, tdVars,
                             moveVars, stateVars, lost>>
    PROVE  HInv'
<1> USE DEF tdVars, moveVars, stateVars
<1>1. Mcus' = Mcus /\ InMove' = InMove /\ Ended' = Ended
      /\ \A k : Asked(k)' = Asked(k) /\ Current(k)' = Current(k)
  BY DEF Mcus, InMove, Ended, Asked, Current
<1>2. \A k : Sure(k)' = Sure(k)
  BY <1>1 DEF Sure
<1>3. \A k : /\ Fine(k)' = Fine(k) /\ Unsent(k)' = Unsent(k) /\ UnsentTold(k)' = UnsentTold(k)
             /\ CurrentTold(k)' = CurrentTold(k) /\ PastTold(k)' = PastTold(k)
  BY <1>1 DEF Fine, Unsent, UnsentTold, CurrentTold, PastTold
<1>4. \A k : Told(k)' = Told(k)
  BY <1>1, <1>2, <1>3 DEF Told
<1>5. Credit'
  BY <1>1, <1>2, <1>4 DEF HInv, Credit
<1>6. Waits' /\ GaveUp' /\ Unhidden'
  BY <1>1 DEF HInv, Waits, GaveUp, Unhidden
<1>7. \A k \in Mcus : (Mute(k) /\ Sorted(k) /\ Early(k))'
  BY <1>1 DEF HInv, Mute, Sorted, Early
<1> QED  BY <1>1, <1>5, <1>6, <1>7 DEF HInv

LEMMA McuShutdownHit ==
    ASSUME IInv, IInv', HInv, NEW m \in Mcus, McuShutdown(m)
    PROVE  HInv'
<1>1. SameHost /\ lost' = lost /\ DoShutdown(m) /\ h2m' = h2m
  BY DEF McuShutdown, SameHost
<1> QED  BY <1>1, ShutdownHit

\* The move goes on, up to the first query: nothing is said, more is sent.
LEMMA OnwardHit ==
    ASSUME IInv, HInv, SameMachines, InMove,
           UNCHANGED <<m2h, lost, completion, handler, waiting, given_up, in_shutdown>>,
           \/ /\ pc' \in {"homing", "waiting"}
              /\ completion # "done" => td_active' /\ td_can_trigger'
           \/ pc' = "stopping" /\ completion = "done" /\ \A k \in Mcus : Asked(k)',
           pc' = "homing" => home_end_clock' = 0,
           \A k \in Mcus : \E s \in Seq(Commands) : h2m'[k] = h2m[k] \o s /\ ~Has(s, "start")
    PROVE  HInv'
<1>1. TypeOK /\ Mcus' = Mcus
  BY DEF IInv, SameMachines, Mcus
<1>2. \A k \in Mcus : /\ Has(h2m'[k], "start") <=> Has(h2m[k], "start")
                      /\ Has(h2m[k], "trigger") => Has(h2m'[k], "trigger")
                      /\ Doomed(h2m[k]) => Doomed(h2m'[k])
  BY <1>1, Grown
<1>3. Waits' /\ GaveUp' /\ Unhidden' /\ \A k \in Mcus : (Mute(k) /\ Sorted(k) /\ Early(k))'
  <2>1. Waits'
    BY <1>1 DEF HInv, Waits, InMove
  <2>2. GaveUp' /\ Unhidden'
    BY DEF HInv, GaveUp, Unhidden, InMove
  <2>3. \A k \in Mcus : (Mute(k) /\ Sorted(k) /\ Early(k))'
    BY DEF HInv, Mute, Current, Sorted, Early
  <2> QED  BY <2>1, <2>2, <2>3
<1>4. ASSUME NEW k \in Mcus
      PROVE  /\ Sure(k) => Sure(k)'
             /\ Told(k) => Told(k)'
  <2>1. ~Current(k) /\ ~Current(k)' /\ Unsent(k)' /\ ~(pc \in {"stopping", "query"})
        /\ (pc' \in {"stopping", "query"} => Asked(k)')
    BY DEF Current, InMove, Unsent
  <2>2. Sure(k) => Sure(k)'
    BY <2>1, <1>2 DEF Sure, SameMachines
  <2>3. Fine(k) => Fine(k)'
    BY <1>2 DEF Fine, SameMachines
  <2>4. UnsentTold(k) => UnsentTold(k)'
    BY <1>2 DEF UnsentTold
  <2> QED  BY <2>1, <2>2, <2>3, <2>4 DEF Told
<1>5. Credit'
  <2>1. Ended' => Ended
    BY DEF Ended, InMove
  <2> QED  BY <2>1, <1>1, <1>4 DEF HInv, Credit
<1> QED  BY <1>1, <1>3, <1>5 DEF HInv

\* One command more, which is not a start.
LEMMA OneAppended ==
    ASSUME h2m \in [Mcus -> Seq(Commands)], NEW c, NEW a \in Nat, NEW m,
           Cmd(c, a) \in Commands, c # "start",
           h2m' = [h2m EXCEPT ![m] = Append(@, Cmd(c, a))], NEW k \in Mcus
    PROVE  \E s \in Seq(Commands) : h2m'[k] = h2m[k] \o s /\ ~Has(s, "start")
<1> DEFINE x == Cmd(c, a)
<1>1. h2m[k] \in Seq(Commands) /\ x \in Commands
  OBVIOUS
<1>2. ~Has(<<x>>, "start") /\ <<x>> \in Seq(Commands)
  BY OneCommand
<1>3. h2m'[k] = h2m[k] \/ h2m'[k] = Append(h2m[k], x)
  OBVIOUS
<1> HIDE DEF x
<1>4. CASE h2m'[k] = h2m[k]
  <2>1. h2m'[k] = h2m[k] \o <<>>
    BY <1>1, <1>4
  <2> QED  BY <2>1, NoCommand
<1>5. CASE h2m'[k] = Append(h2m[k], x)
  <2>1. h2m'[k] = h2m[k] \o <<x>>
    BY <1>1, <1>5
  <2> QED  BY <2>1, <1>2
<1> QED  BY <1>3, <1>4, <1>5

LEMMA StartDispatchHit ==
    ASSUME IInv, HInv, StartDispatch
    PROVE  HInv'
<1>1. /\ pc = "starting" /\ pc' = "homing" /\ td_active' /\ td_can_trigger' /\ SameMachines
      /\ h2m' = [h2m EXCEPT ![1] = Append(@, Cmd("endstop_home", print_time))]
      /\ UNCHANGED <<m2h, lost, completion, handler, waiting, given_up, in_shutdown,
                     home_end_clock>>
  BY DEF StartDispatch, SameMachines, trsyncVars, endstopVars, stateVars
<1>2. InMove /\ home_end_clock' = 0
  BY <1>1 DEF InMove, HInv, Waits
<1>3. print_time \in Nat /\ h2m \in [Mcus -> Seq(Commands)]
  BY DEF IInv, TypeOK, HostTypes, LinkTypes
<1>4. \A k \in Mcus : \E s \in Seq(Commands) : h2m'[k] = h2m[k] \o s /\ ~Has(s, "start")
  BY <1>1, <1>3, OneAppended DEF Commands, Cmd
<1> QED  BY <1>1, <1>2, <1>4, OnwardHit

LEMMA WaitEndHit ==
    ASSUME IInv, HInv, WaitEnd
    PROVE  HInv'
<1>1. /\ pc = "homing" /\ pc' = "waiting" /\ SameMachines
      /\ UNCHANGED <<h2m, m2h, lost, completion, handler, waiting, given_up, in_shutdown,
                     td_active, td_can_trigger>>
  BY DEF WaitEnd, SameMachines, trsyncVars, endstopVars, tdVars
<1>2. InMove /\ (completion # "done" => td_active' /\ td_can_trigger')
  BY <1>1 DEF InMove, HInv, Waits
<1>3. h2m \in [Mcus -> Seq(Commands)]
  BY DEF IInv, TypeOK, LinkTypes
<1>4. \A k \in Mcus : \E s \in Seq(Commands) : h2m'[k] = h2m[k] \o s /\ ~Has(s, "start")
  <2> SUFFICES ASSUME NEW k \in Mcus
               PROVE  \E s \in Seq(Commands) : h2m'[k] = h2m[k] \o s /\ ~Has(s, "start")
    OBVIOUS
  <2>1. h2m'[k] = h2m[k] \o <<>>
    BY <1>1, <1>3
  <2> QED  BY <2>1, NoCommand
<1> QED  BY <1>1, <1>2, <1>4, OnwardHit

LEMMA StopDispatchHit ==
    ASSUME IInv, HInv, StopDispatch
    PROVE  HInv'
<1>1. /\ pc = "waiting" /\ completion = "done" /\ pc' = "stopping" /\ SameMachines
      /\ h2m' = [h2m EXCEPT ![1] = Append(@, Cmd("endstop_off", 0))]
      /\ todo' = [i \in Mcus |-> i]
      /\ UNCHANGED <<m2h, lost, completion, handler, waiting, given_up, in_shutdown>>
  BY DEF StopDispatch, SameMachines, trsyncVars, endstopVars, stateVars
<1>2. InMove
  BY <1>1 DEF InMove
<1>3. n \in Nat /\ h2m \in [Mcus -> Seq(Commands)] /\ n' = n
  BY <1>1, Basics DEF IInv, TypeOK, LinkTypes, SameMachines
<1>4. \A k \in Mcus : Asked(k)'
  <2>1. Len(todo') = n
    BY <1>1, <1>3 DEF Mcus
  <2> QED  BY <2>1, <1>3 DEF Asked, Mcus
<1>5. \A k \in Mcus : \E s \in Seq(Commands) : h2m'[k] = h2m[k] \o s /\ ~Has(s, "start")
  BY <1>1, <1>3, OneAppended DEF Commands, Cmd
<1> QED  BY <1>1, <1>2, <1>4, <1>5, OnwardHit

\* MCU_trsync::stop(): what was told so far is told a second time in the answer.
LEMMA SendQueryHit ==
    ASSUME IInv, HInv, SendQuery
    PROVE  HInv'
<1> DEFINE m == Head(todo)
<1>1. /\ pc = "stopping" /\ todo # <<>> /\ pc' = "query" /\ last_params' = NoParams
      /\ h2m' = [h2m EXCEPT ![m] = Append(@, Cmd("query", HOST_REQUEST))]
      /\ SameMachines /\ UNCHANGED <<m2h, lost, todo, reasons, given_up, in_shutdown>>
  BY DEF SendQuery, SameMachines, trsyncVars, endstopVars
<1>2. /\ TypeOK /\ Mcus' = Mcus /\ n' = n /\ n \in Nat /\ h2m \in [Mcus -> Seq(Commands)]
      /\ Cmd("query", HOST_REQUEST) \in Commands /\ HOST_REQUEST \in Nat
      /\ HOST_REQUEST \in {2, 3}
  BY <1>1, Basics DEF IInv, SameMachines, Mcus, TypeOK, LinkTypes, Cmd, Commands, HOST_REQUEST
<1>3. m \in Mcus /\ m = n - Len(todo) + 1
  <2>1. todo \in Seq(Mcus) /\ Len(todo) \in Nat /\ Len(todo) # 0
    BY <1>1, <1>2 DEF TypeOK, HostTypes
  <2>2. m = todo[1] /\ 1 \in 1..Len(todo)
    BY <2>1, <1>1
  <2> QED  BY <2>1, <2>2 DEF IInv, Host, Asking
<1> HIDE DEF m
<1>4. \A k \in Mcus : /\ Asked(k)' = Asked(k) /\ (Current(k)' <=> k = m) /\ ~Current(k)
  BY <1>1, <1>2, <1>3 DEF Asked, Current
<1>5. /\ \A k \in Mcus : k # m => h2m'[k] = h2m[k]
      /\ \A k \in Mcus : \A d : Has(h2m'[k], d) <=> Has(h2m[k], d) \/ (k = m /\ d = "query")
  BY <1>1, <1>2, <1>3, SendOne, ZenonT(30)
<1>6. Doomed(h2m[m]) => Doomed(h2m'[m])
  <2>1. PICK s \in Seq(Commands) : h2m'[m] = h2m[m] \o s
    BY <1>1, <1>2, <1>3, OneAppended
  <2> QED  BY <2>1, <1>2, <1>3, Grown
<1>7. Waits' /\ GaveUp' /\ Unhidden'
  BY <1>1 DEF HInv, Waits, GaveUp, Unhidden, InMove
<1>8. \A k \in Mcus : (Mute(k) /\ Sorted(k) /\ Early(k))'
  <2> SUFFICES ASSUME NEW k \in Mcus PROVE (Mute(k) /\ Sorted(k) /\ Early(k))'
    OBVIOUS
  <2>1. ~HasKind(m2h[k], "ack") /\ m2h[k] \in Seq(Messages)
    BY <1>2, <1>4, AskedOrAnswered DEF TypeOK, LinkTypes
  <2>2. m2h[k] # <<>> => m2h[k][1].kind # "ack"
    BY <2>1, MessagesTail
  <2> QED  BY <2>2, <1>1 DEF HInv, Mute, Sorted, Early
<1>9. ASSUME NEW k \in Mcus
      PROVE  /\ Sure(k) => Sure(k)'
             /\ Told(k) => Told(k)'
  <2>1. Has(h2m'[k], "start") <=> Has(h2m[k], "start")
    BY <1>5
  <2>2. Sure(k) => Sure(k)'
    BY <2>1, <1>1, <1>4 DEF Sure, SameMachines
  <2>3. Fine(k) => Fine(k)'
    BY <2>1, <1>1 DEF Fine, SameMachines
  <2>4. ASSUME Unsent(k), UnsentTold(k), k # m PROVE Unsent(k)' /\ UnsentTold(k)'
    BY <2>4, <1>1, <1>4, <1>5 DEF Unsent, UnsentTold, InMove
  <2>5. ASSUME UnsentTold(k), k = m PROVE Current(k)' /\ CurrentTold(k)'
    BY <2>5, <1>1, <1>4, <1>5, <1>6 DEF UnsentTold, CurrentTold
  <2>6. PastTold(k) => PastTold(k)'
    BY <1>1 DEF PastTold, SameMachines
  <2> QED  BY <2>2, <2>3, <2>4, <2>5, <2>6, <1>1, <1>4 DEF Told
<1>10. Credit'
  <2>1. Ended
    BY <1>1 DEF Ended
  <2> QED  BY <2>1, <1>2, <1>9 DEF HInv, Credit
<1> QED  BY <1>2, <1>7, <1>8, <1>10 DEF HInv

LEMMA JudgeHit ==
    ASSUME IInv, HInv, Judge
    PROVE  HInv'
<1>1. /\ pc = "stopping" /\ todo = <<>> /\ pc' = "idle" /\ result' = Verdict
      /\ SameMachines /\ UNCHANGED <<h2m, m2h, lost, reasons, given_up, in_shutdown>>
  BY DEF Judge, SameMachines, trsyncVars, endstopVars, stateVars
<1>2. TypeOK /\ Mcus' = Mcus /\ n \in Nat /\ reasons \in [Mcus -> 0..4]
  BY <1>1, Basics DEF IInv, SameMachines, Mcus, TypeOK, HostTypes
<1>3. Waits' /\ GaveUp' /\ Credit' /\ \A k \in Mcus : (Mute(k) /\ Sorted(k) /\ Early(k))'
  <2>1. Waits' /\ GaveUp' /\ Credit'
    BY <1>1 DEF HInv, Waits, GaveUp, Credit, InMove, Ended
  <2>2. \A k \in Mcus : (Mute(k) /\ Sorted(k) /\ Early(k))'
    BY <1>1 DEF HInv, Mute, Current, Sorted, Early
  <2> QED  BY <2>1, <2>2
<1>4. Unhidden'
  <2> SUFFICES ASSUME Verdict = "hit", lost <= 1, NEW k \in Mcus
               PROVE  trigger_reason[k] # COMMS_TIMEOUT
    BY <1>1, <1>2 DEF Unhidden, SameMachines
  <2>1. \A j \in Mcus : reasons[j] # COMMS_TIMEOUT
    BY <1>2 DEF Verdict, COMMS_TIMEOUT
  <2>2. \A j \in Mcus : ~Asked(j) /\ ~Current(j) /\ ~Unsent(j)
    BY <1>1, <1>2 DEF Asked, Mcus, Current, Unsent, InMove
  <2>3. \A j \in Mcus : ~Sure(j)
    BY <2>1, <2>2, <1>1 DEF Sure
  <2>4. Told(k)
    BY <2>3, <1>1 DEF HInv, Credit, Ended
  <2>5. Fine(k) \/ PastTold(k)
    BY <2>2, <2>3, <2>4 DEF Told
  <2>6. is_shutdown[k] => trigger_reason[k] = 0
    BY DEF IInv, Machine, Firmware
  <2> QED  BY <2>1, <2>5, <2>6 DEF Fine, PastTold, COMMS_TIMEOUT
<1> QED  BY <1>2, <1>3, <1>4 DEF HInv

\* A loss: the second report of a timeout is still there.
LEMMA LoseHit ==
    ASSUME IInv, HInv, NEW m \in Mcus, Lose(m)
    PROVE  HInv'
<1>1. /\ m2h[m] # <<>> /\ lost' = lost + 1
      /\ m2h' = [m2h EXCEPT ![m] = Tail(@)] /\ h2m' = h2m
      /\ SameHost /\ SameMachines
  BY DEF Lose, SameHost, SameMachines, trsyncVars, endstopVars
<1>2. /\ UNCHANGED <<n, pc, completion, handler, waiting, td_active, td_can_trigger,
                     home_end_clock, given_up, in_shutdown, result, last_params, reasons, todo,
                     can_trigger, trigger_reason, is_shutdown, h2m>>
      /\ TypeOK /\ Mcus' = Mcus /\ lost \in Nat /\ m2h \in [Mcus -> Seq(Messages)]
  BY <1>1 DEF SameHost, SameMachines, Mcus, moveVars, stateVars, tdVars, IInv, TypeOK, LinkTypes
<1>3. \A k \in Mcus : Read(k)
  BY <1>1, <1>2 DEF Read
<1>4. \A k \in Mcus : /\ AllFour(m2h[k]) => AllFour(m2h'[k])
                      /\ FoursLast(m2h[k]) => FoursLast(m2h'[k])
                      /\ TwoFours(m2h[k]) => HasFour(m2h'[k])
                      /\ \A r : ReasonsAre(m2h[k], r) => ReasonsAre(m2h'[k], r)
                      /\ m2h'[k] \in Seq(Messages)
  BY <1>2, <1>3, FoursRead
<1>5. Waits' /\ GaveUp' /\ Unhidden'
  <2>1. lost' # 0 /\ (lost' <= 1 => lost <= 1)
    BY <1>1, <1>2
  <2> QED  BY <2>1, <1>2 DEF HInv, Waits, GaveUp, Unhidden, InMove
<1>6. \A k \in Mcus : (Mute(k) /\ Sorted(k) /\ Early(k))'
  <2>1. lost' # 0
    BY <1>1, <1>2
  <2> QED  BY <2>1, <1>2, <1>4 DEF HInv, Mute, Sorted, Early
<1>7. ASSUME NEW k \in Mcus
      PROVE  /\ Sure(k) => Sure(k)'
             /\ Told(k) => Told(k)'
  <2>1. Asked(k)' = Asked(k) /\ Current(k)' = Current(k) /\ Unsent(k)' = Unsent(k)
    BY <1>2 DEF Asked, Current, Unsent, InMove
  <2>2. Sure(k) => Sure(k)'
    BY <2>1, <1>2, <1>4 DEF Sure
  <2>3. Fine(k) => Fine(k)'
    BY <1>2 DEF Fine
  <2>4. lost' # 0 /\ (lost' = 1 => lost = 0) /\ (lost' <= 1 => lost <= 1)
    BY <1>1, <1>2
  <2>5. UnsentTold(k)'
    BY <2>4 DEF UnsentTold
  <2>6. ASSUME Current(k), CurrentTold(k) PROVE CurrentTold(k)'
    <3>1. lost = 0 => ~given_up
      BY <2>6 DEF HInv, GaveUp, Current
    <3>2. lost = 0 => FoursLast(m2h'[k])
      BY <3>1, <1>4 DEF HInv, Sorted
    <3>3. lost = 0 /\ TwoFours(m2h[k]) => EndsFour(m2h'[k])
      BY <3>2, <1>4, FourPlain
    <3> QED  BY <3>3, <2>4, <2>6, <1>2 DEF CurrentTold
  <2>7. PastTold(k) => PastTold(k)'
    BY <2>4, <1>2 DEF PastTold
  <2> QED  BY <2>1, <2>2, <2>3, <2>5, <2>6, <2>7, <1>2 DEF Told
<1>8. Credit'
  <2>1. Ended' = Ended
    BY <1>2 DEF Ended, InMove
  <2> QED  BY <2>1, <1>2, <1>7 DEF HInv, Credit
<1> QED  BY <1>2, <1>5, <1>6, <1>8 DEF HInv

LEMMA StartSent ==
    ASSUME IInv, StartTrsyncs, NEW k \in Mcus
    PROVE  Has(h2m'[k], "start") /\ (Has(h2m'[k], "trigger") => Has(h2m[k], "trigger"))
<1> DEFINE a == (now + Lead) + ((k - 1) * report_ticks) \div n
           b == (now + Lead) + expire_ticks
           s == <<Cmd("start", a), Cmd("stop_on_trigger", 0), Cmd("set_timeout", b)>>
<1>1. h2m'[k] = h2m[k] \o s
  BY DEF StartTrsyncs, Broadcast
<1>2. /\ n \in Nat \ {0} /\ now \in Nat /\ Lead \in Nat /\ expire_ticks \in Nat
      /\ report_ticks \in Nat /\ k \in Nat \ {0} /\ h2m[k] \in Seq(Commands)
  BY Basics DEF IInv, TypeOK, LinkTypes, Mcus
<1>3. a \in Nat /\ b \in Nat
  <2>1. (k - 1) * report_ticks \in Nat
    <3>1. k - 1 \in Nat
      BY <1>2
    <3> QED  BY <3>1, <1>2
  <2> DEFINE p == (k - 1) * report_ticks
  <2> HIDE DEF p
  <2>2. p \in Nat => p \div n \in Nat
    BY <1>2
  <2> QED  BY <2>1, <2>2, <1>2 DEF p
<1> HIDE DEF a, b
<1>4. s \in Seq(Commands) /\ \A c : Has(s, c) <=> c \in {"start", "stop_on_trigger", "set_timeout"}
  BY <1>3, StartCommands, ZenonT(30)
<1> HIDE DEF s
<1>5. \A c : Has(h2m'[k], c) <=> Has(h2m[k], c) \/ Has(s, c)
  BY <1>1, <1>2, <1>4, HasCat
<1> QED  BY <1>4, <1>5

LEMMA StartTrsyncsHit ==
    ASSUME IInv, HInv, StartTrsyncs
    PROVE  HInv'
<1>1. /\ pc = "idle" /\ ~in_shutdown /\ pc' = "starting" /\ completion' = "pending"
      /\ waiting' = [k \in Mcus |-> TRUE] /\ handler' = [k \in Mcus |-> "trsync"]
      /\ home_end_clock' = 0
      /\ UNCHANGED <<n, can_trigger, trigger_reason, is_shutdown, m2h, in_shutdown, given_up,
                     lost>>
  BY DEF StartTrsyncs
<1>2. TypeOK /\ Mcus' = Mcus
  BY <1>1 DEF IInv, Mcus
<1>3. Waits' /\ GaveUp' /\ Credit' /\ Unhidden' /\ \A k \in Mcus : (Mute(k) /\ Sorted(k))'
  <2>1. Waits'
    BY <1>1, <1>2 DEF Waits, InMove
  <2>2. GaveUp' /\ Credit' /\ Unhidden'
    BY <1>1 DEF HInv, GaveUp, Credit, Ended, InMove, Unhidden
  <2>3. \A k \in Mcus : (Mute(k) /\ Sorted(k))'
    BY <1>1 DEF HInv, Mute, Current, Sorted
  <2> QED  BY <2>1, <2>2, <2>3
<1>4. ASSUME NEW k \in Mcus PROVE Early(k)'
  <2> SUFFICES ASSUME ~given_up
               PROVE  /\ ~Has(h2m'[k], "trigger") /\ ReasonsAre(m2h[k], COMMS_TIMEOUT)
                      /\ Has(h2m'[k], "start")
    BY <1>1 DEF Early
  <2>1. Settled(k) /\ h2m[k] \in Seq(Commands) /\ m2h[k] \in Seq(Messages)
    BY <1>1, <1>2 DEF IInv, Machine, Answers, TypeOK, LinkTypes
  <2>2. ReasonsAre(m2h[k], COMMS_TIMEOUT) /\ ~Has(h2m[k], "trigger")
    BY <2>1, MessagesPlain, BareFacts DEF Settled, QuietIn
  <2>3. Has(h2m'[k], "start") /\ (Has(h2m'[k], "trigger") => Has(h2m[k], "trigger"))
    BY StartSent
  <2> QED  BY <2>2, <2>3
<1> QED  BY <1>2, <1>3, <1>4 DEF HInv

\* MCU::handle_shutdown(): everybody else will be shut down before it is asked.
LEMMA HandleShutdownHit ==
    ASSUME IInv, HInv, NEW m \in Mcus, HandleShutdown(m)
    PROVE  HInv'
<1>1. /\ m2h[m] # <<>> /\ Head(m2h[m]).kind = "shutdown"
      /\ m2h' = [m2h EXCEPT ![m] = Tail(@)] /\ in_shutdown' = TRUE
      /\ SameMachines /\ UNCHANGED <<td_can_trigger, td_active, pc, todo, reasons, result,
           given_up, handler, home_end_clock, last_params, lost>>
  BY DEF HandleShutdown, SameMachines, trsyncVars, endstopVars, tdVars, moveVars
<1>2. /\ TypeOK /\ Mcus' = Mcus /\ n' = n /\ 1 \in Mcus /\ h2m \in [Mcus -> Seq(Commands)]
      /\ m2h \in [Mcus -> Seq(Messages)]
      /\ UNCHANGED <<can_trigger, trigger_reason, is_shutdown>>
  BY <1>1, Basics DEF IInv, TypeOK, LinkTypes, SameMachines, Mcus
<1>3. is_shutdown[m]
  <2>1. HasKind(m2h[m], "shutdown")
    BY <1>1, <1>2, MessagesTail
  <2> QED  BY <2>1 DEF IInv, Machine, Firmware
<1>4. \A k \in Mcus : Read(k) /\ (k # m => m2h'[k] = m2h[k])
  BY <1>1, <1>2 DEF Read
<1>5. \A k \in Mcus : /\ AllFour(m2h[k]) => AllFour(m2h'[k])
                      /\ FoursLast(m2h[k]) => FoursLast(m2h'[k])
                      /\ \A r : ReasonsAre(m2h[k], r) => ReasonsAre(m2h'[k], r)
  BY <1>2, <1>4, FoursRead
<1> DEFINE x == Cmd("emergency_stop", 0)
<1>6. \/ in_shutdown /\ UNCHANGED <<completion, waiting, h2m>>
      \/ /\ ~in_shutdown
         /\ completion' = (IF \E k \in Mcus : waiting[k] THEN "done" ELSE completion)
         /\ waiting' = [k \in Mcus |-> FALSE]
         /\ \A k \in Mcus : h2m'[k] = h2m[k] \o (IF k = m THEN <<>> ELSE <<x>>)
  <2>1. CASE in_shutdown
    BY <2>1 DEF HandleShutdown
  <2>2. CASE ~in_shutdown
    BY <2>2 DEF HandleShutdown, Broadcast
  <2> QED  BY <2>1, <2>2
<1>7. /\ <<x>> \in Seq(Commands) /\ <<>> \in Seq(Commands)
      /\ \A d : Has(<<x>>, d) <=> d = "emergency_stop"
      /\ \A d : ~Has(<<>>, d)
  BY OneCommand, NoCommand DEF Cmd, Commands
<1> HIDE DEF x
<1>8. ASSUME NEW k \in Mcus
      PROVE  /\ \A d : d # "emergency_stop" => (Has(h2m'[k], d) <=> Has(h2m[k], d))
             /\ Doomed(h2m[k]) => Doomed(h2m'[k])
             /\ ~in_shutdown /\ k # m => Has(h2m'[k], "emergency_stop")
  <2>1. CASE h2m' = h2m /\ in_shutdown
    BY <2>1
  <2>2. CASE k = m /\ h2m'[k] = h2m[k] \o <<>>
    BY <2>2, <1>2, <1>7, Grown
  <2>3. CASE k # m /\ h2m'[k] = h2m[k] \o <<x>>
    BY <2>3, <1>2, <1>7, Grown
  <2> QED  BY <2>1, <2>2, <2>3, <1>6
<1>9. Waits' /\ GaveUp' /\ Unhidden'
  <2>1. Waits'
    <3>1. InMove' = InMove
      BY <1>1 DEF InMove
    <3>2. InMove /\ completion' # "done" => completion # "done" /\ waiting' = waiting
      BY <1>2, <1>6 DEF HInv, Waits
    <3> QED  BY <3>1, <3>2, <1>1, <1>2 DEF HInv, Waits
  <2>2. GaveUp' /\ Unhidden'
    BY <1>1, <1>2 DEF HInv, GaveUp, Unhidden
  <2> QED  BY <2>1, <2>2
<1>10. \A k \in Mcus : (Mute(k) /\ Sorted(k) /\ Early(k))'
  <2> SUFFICES ASSUME NEW k \in Mcus PROVE (Mute(k) /\ Sorted(k) /\ Early(k))'
    OBVIOUS
  <2>1. Mute(k)' /\ Sorted(k)'
    BY <1>1, <1>5 DEF HInv, Mute, Sorted
  <2>2. /\ Has(h2m'[k], "trigger") <=> Has(h2m[k], "trigger")
        /\ Has(h2m'[k], "start") <=> Has(h2m[k], "start")
    BY <1>8
  <2>3. Early(k)'
    BY <2>2, <1>1, <1>2, <1>5 DEF HInv, Early
  <2> QED  BY <2>1, <2>3
<1>11. ASSUME NEW k \in Mcus
       PROVE  /\ Sure(k) => Sure(k)'
              /\ Told(k) => Told(k)'
              /\ InMove /\ ~in_shutdown => Told(k)'
  <2>1. /\ Asked(k)' = Asked(k) /\ Current(k)' = Current(k) /\ Unsent(k)' = Unsent(k)
        /\ InMove => Unsent(k)
    BY <1>1, <1>2 DEF Asked, Current, Unsent, InMove
  <2>2. /\ Has(h2m'[k], "trigger") <=> Has(h2m[k], "trigger")
        /\ Has(h2m'[k], "start") <=> Has(h2m[k], "start")
        /\ Has(h2m'[k], "query") <=> Has(h2m[k], "query")
        /\ Doomed(h2m[k]) => Doomed(h2m'[k])
    BY <1>8
  <2>3. Sure(k) => Sure(k)'
    BY <2>1, <2>2, <1>1, <1>2, <1>5 DEF Sure
  <2>4. CASE k = m
    BY <2>3, <2>4, <1>2, <1>3 DEF Told, Fine
  <2>5. CASE k # m
    <3>1. m2h'[k] = m2h[k]
      BY <2>5, <1>4
    <3>2. Fine(k) => Fine(k)'
      BY <2>2, <1>2 DEF Fine
    <3>3. UnsentTold(k) => UnsentTold(k)'
      BY <3>1, <2>2, <1>1 DEF UnsentTold
    <3>4. CurrentTold(k) => CurrentTold(k)'
      BY <3>1, <2>2, <1>1 DEF CurrentTold
    <3>5. PastTold(k) => PastTold(k)'
      BY <1>1, <1>2 DEF PastTold
    <3>6. ASSUME InMove, ~in_shutdown PROVE UnsentTold(k)'
      <4>1. ~Has(h2m[k], "query")
        BY <3>6, AskedOrAnswered DEF Current, InMove
      <4>2. Doomed(h2m'[k])
        BY <4>1, <3>6, <2>2, <2>5, <1>8, DoomedPlain
      <4> QED  BY <4>2 DEF UnsentTold
    <3> QED  BY <2>1, <2>3, <3>2, <3>3, <3>4, <3>5, <3>6, <1>1 DEF Told
  <2> QED  BY <2>4, <2>5
<1>12. Credit'
  <2>1. Ended' => Ended \/ (InMove /\ ~in_shutdown)
    BY <1>1, <1>6 DEF Ended, InMove
  <2> QED  BY <2>1, <1>2, <1>11 DEF HInv, Credit
<1> QED  BY <1>2, <1>9, <1>10, <1>12 DEF HInv

\* The acknowledgement: the answer before it was read, or it was lost.
LEMMA QueryAckedHit ==
    ASSUME IInv, HInv, NEW m \in Mcus, QueryAcked(m)
    PROVE  HInv'
<1>1. /\ m2h[m] # <<>> /\ Head(m2h[m]).kind = "ack"
      /\ m2h' = [m2h EXCEPT ![m] = Tail(@)]
      /\ SameMachines /\ UNCHANGED <<last_params, in_shutdown, lost>>
  BY DEF QueryAcked, SameMachines, trsyncVars, endstopVars
<1>2. /\ TypeOK /\ Mcus' = Mcus /\ n' = n /\ n \in Nat /\ h2m \in [Mcus -> Seq(Commands)]
      /\ m2h \in [Mcus -> Seq(Messages)] /\ reasons \in [Mcus -> 0..4] /\ lost \in Nat
      /\ UNCHANGED <<can_trigger, trigger_reason, is_shutdown>>
  BY <1>1, Basics DEF IInv, TypeOK, LinkTypes, HostTypes, SameMachines, Mcus
<1>3. /\ Current(m) /\ QuietIn(m) /\ m2h[m][1].kind = "ack" /\ Drained(Tail(m2h[m]))
      /\ Tail(m2h[m]) \in Seq(Messages) /\ m2h'[m] = Tail(m2h[m])
  <2>1. /\ Tail(m2h[m]) \in Seq(Messages) /\ HasKind(m2h[m], "ack")
        /\ m2h[m][1].kind = "ack"
    BY <1>1, <1>2, MessagesTail
  <2>2. Current(m) /\ QuietIn(m) /\ AckLast(m2h[m])
    BY <2>1 DEF IInv, Machine, Answers
  <2> QED  BY <2>1, <2>2, <1>1, <1>2, AckLastTail
<1>4. /\ ~HasFour(Tail(m2h[m])) /\ AllFour(Tail(m2h[m]))
      /\ ~HasKind(Tail(m2h[m]), "ack")
  BY <1>3, MessagesPlain, FourPlain
<1>5. ~TwoFours(m2h[m]) /\ ~EndsFour(m2h[m])
  <2>1. ~Four(m2h[m][1]) /\ m2h[m] \in Seq(Messages)
    BY <1>2, <1>3 DEF Four
  <2>2. ~HasFour(m2h[m])
    BY <2>1, <1>1, <1>4, FourTail
  <2> QED  BY <2>1, <2>2, FourPlain
<1>6. ~Has(h2m[m], "query") /\ ~Has(h2m[m], "start")
  BY <1>2, <1>3, BareFacts DEF QuietIn
\* What m has told is in last_params.
<1>7. /\ Told(m) => Fine(m) \/ Sure(m) \/ (lost # 0 /\ (lost = 1 => last_params = COMMS_TIMEOUT))
      /\ Asked(m) /\ pc = "query"
  <2>1. Asked(m) /\ pc = "query"
    <3>1. pc = "query" /\ m = n - Len(todo) + 1 /\ Len(todo) \in Nat
      BY <1>2, <1>3 DEF Current, TypeOK, HostTypes
    <3> QED  BY <3>1, <1>2 DEF Asked
  <2>2. ~Unsent(m)
    BY <2>1, <1>3 DEF Unsent, InMove
  <2> QED  BY <2>1, <2>2, <1>5, <1>6 DEF Told, CurrentTold
<1>8. \A k \in Mcus : Read(k) /\ (k # m => m2h'[k] = m2h[k])
  BY <1>1, <1>2 DEF Read
<1>9. \A k \in Mcus : FoursLast(m2h[k]) => FoursLast(m2h'[k])
  BY <1>2, <1>8, FoursRead
<1>10. \A k \in Mcus : Current(k) <=> k = m
  BY <1>3 DEF Current
<1>11. CASE last_params # NoParams
  <2>1. /\ reasons' = [reasons EXCEPT ![m] = last_params]
        /\ pc' = "stopping" /\ todo' = Tail(todo)
        /\ UNCHANGED <<result, given_up, h2m>>
    BY <1>11 DEF QueryAcked
  <2>2. \A k \in Mcus : ~Current(k)' /\ (Asked(k)' <=> Asked(k) /\ k # m)
    <3>1. /\ todo \in Seq(Mcus) /\ todo # <<>> /\ m = n - Len(todo) + 1
          /\ \A k \in Mcus : k \in Nat
      BY <1>2, <1>3 DEF Current, IInv, Host, Asking, TypeOK, HostTypes, Mcus
    <3>2. Len(todo) \in Nat /\ Len(Tail(todo)) = Len(todo) - 1
      BY <3>1
    <3>3. \A k \in Mcus : Asked(k) <=> k >= m
      BY <3>1, <3>2, <1>2 DEF Asked
    <3>4. \A k \in Mcus : Asked(k)' <=> k > m
      BY <3>1, <3>2, <2>1, <1>2 DEF Asked
    <3>5. \A k \in Mcus : k > m <=> k >= m /\ k # m
      BY <3>1
    <3> QED  BY <3>3, <3>4, <3>5, <2>1 DEF Current
  <2>3. Waits' /\ GaveUp' /\ Unhidden'
    BY <2>1, <1>1, <1>7 DEF HInv, Waits, GaveUp, Unhidden, InMove
  <2>4. \A k \in Mcus : (Mute(k) /\ Sorted(k) /\ Early(k))'
    BY <2>1, <2>2, <1>9 DEF HInv, Mute, Sorted, Early
  <2>5. ASSUME NEW k \in Mcus, k # m
        PROVE  (Sure(k) => Sure(k)') /\ (Told(k) => Told(k)')
    <3>1. /\ m2h'[k] = m2h[k] /\ reasons'[k] = reasons[k] /\ (Asked(k)' <=> Asked(k))
          /\ ~Current(k) /\ ~Current(k)'
      BY <2>1, <2>2, <2>5, <1>2, <1>8, <1>10
    <3>2. Sure(k) => Sure(k)'
      BY <3>1, <2>1, <1>2, <1>7 DEF Sure
    <3>3. (Fine(k) => Fine(k)') /\ (UnsentTold(k) => UnsentTold(k)')
          /\ (PastTold(k) => PastTold(k)') /\ (Unsent(k) => Unsent(k)')
      BY <3>1, <2>1, <1>1, <1>2, <1>7 DEF Fine, UnsentTold, PastTold, Unsent, InMove
    <3> QED  BY <3>1, <3>2, <3>3, <2>1, <1>7 DEF Told
  <2>6. (Sure(m) => Sure(m)') /\ (Told(m) => Told(m)')
    <3>1. /\ reasons'[m] = last_params /\ ~Asked(m)' /\ ~Current(m)'
      BY <2>1, <2>2, <1>2
    <3>2. Sure(m) => Sure(m)'
      BY <3>1, <2>1, <1>2, <1>3, <1>4, <1>11 DEF Sure
    <3>3. Fine(m) => Fine(m)'
      BY <2>1, <1>2 DEF Fine
    <3>4. lost # 0 /\ (lost = 1 => last_params = COMMS_TIMEOUT) => PastTold(m)'
      <4>1. lost # 0 /\ lost <= 1 => lost = 1
        BY <1>2
      <4> QED  BY <4>1, <3>1, <1>1 DEF PastTold
    <3> QED  BY <3>1, <3>2, <3>3, <3>4, <2>1, <1>7 DEF Told
  <2>7. Credit'
    BY <2>5, <2>6, <1>2, <1>7 DEF HInv, Credit, Ended
  <2> QED  BY <2>3, <2>4, <2>7, <1>2 DEF HInv
<1>12. CASE last_params = NoParams /\ MayRetry
  <2>1. /\ h2m' = [h2m EXCEPT ![m] = Append(@, Cmd("query", HOST_REQUEST))]
        /\ UNCHANGED <<pc, todo, reasons, result, given_up>>
    BY <1>12 DEF QueryAcked
  <2>2. \A k \in Mcus : Current(k)' = Current(k) /\ Asked(k)' = Asked(k)
    BY <2>1, <1>2 DEF Current, Asked
  <2>3. Waits' /\ GaveUp' /\ Unhidden'
    BY <2>1, <1>1, <1>2, <1>7 DEF HInv, Waits, GaveUp, Unhidden, InMove
  <2>4. \A k \in Mcus : (Mute(k) /\ Sorted(k) /\ Early(k))'
    <3>1. m2h'[m] # <<>> => m2h'[m][1].kind # "ack"
      BY <1>3, <1>4, MessagesTail
    <3>2. \A k \in Mcus : Mute(k)'
      BY <3>1, <2>2, <1>10 DEF Mute
    <3> QED  BY <3>2, <2>1, <1>7, <1>9 DEF HInv, Sorted, Early
  <2>5. ASSUME NEW k \in Mcus, k # m
        PROVE  (Sure(k) => Sure(k)') /\ (Told(k) => Told(k)')
    <3>1. m2h'[k] = m2h[k] /\ h2m'[k] = h2m[k] /\ ~Current(k) /\ ~Current(k)'
          /\ Asked(k)' = Asked(k)
      BY <2>1, <2>2, <2>5, <1>2, <1>8, <1>10
    <3>2. Sure(k) => Sure(k)'
      BY <3>1, <2>1, <1>2 DEF Sure
    <3>3. (Fine(k) => Fine(k)') /\ (UnsentTold(k) => UnsentTold(k)')
          /\ (PastTold(k) => PastTold(k)') /\ (Unsent(k) => Unsent(k)')
      BY <3>1, <2>1, <1>1, <1>2 DEF Fine, UnsentTold, PastTold, Unsent, InMove
    <3> QED  BY <3>1, <3>2, <3>3, <2>1 DEF Told
  <2>6. (Sure(m) => Sure(m)') /\ (Told(m) => Told(m)')
    <3>1. \A d : Has(h2m'[m], d) <=> Has(h2m[m], d) \/ d = "query"
      <4>1. /\ Cmd("query", HOST_REQUEST) \in Commands /\ HOST_REQUEST \in Nat
            /\ HOST_REQUEST \in {2, 3}
        BY DEF Cmd, Commands, HOST_REQUEST
      <4> QED  BY <4>1, <2>1, <1>2, SendOne, ZenonT(30)
    <3>2. ~Has(h2m'[m], "start") /\ Has(h2m'[m], "query")
      BY <3>1, <1>6
    <3>3. Sure(m) => Sure(m)'
      BY <3>2, <2>1, <2>2, <1>1, <1>2, <1>3, <1>4 DEF Sure
    <3>4. Fine(m) => Fine(m)'
      BY <3>2, <1>2 DEF Fine
    <3>5. lost # 0 => CurrentTold(m)'
      BY <3>2, <1>1 DEF CurrentTold
    <3> QED  BY <3>3, <3>4, <3>5, <2>2, <1>3, <1>7 DEF Told
  <2>7. Credit'
    BY <2>1, <2>5, <2>6, <1>2, <1>7 DEF HInv, Credit, Ended
  <2> QED  BY <2>3, <2>4, <2>7, <1>2 DEF HInv
<1>13. CASE last_params = NoParams /\ ~MayRetry
  <2>1. pc' = "idle" /\ result' = "error" /\ given_up' = TRUE
    BY <1>13 DEF QueryAcked
  <2>2. in_shutdown \/ lost # 0
    BY <1>1, <1>3, <1>13 DEF HInv, Mute
  <2>3. Waits' /\ GaveUp' /\ Credit' /\ Unhidden'
    BY <2>1, <2>2, <1>1 DEF Waits, GaveUp, Credit, Ended, InMove, Unhidden
  <2>4. \A k \in Mcus : (Mute(k) /\ Sorted(k) /\ Early(k))'
    BY <2>1 DEF Mute, Current, Sorted, Early
  <2> QED  BY <2>3, <2>4, <1>2 DEF HInv
<1> QED  BY <1>11, <1>12, <1>13

LEMMA TriggerSent ==
    ASSUME TypeOK, NEW m \in Mcus, ReceiveState(m), Fast(Head(m2h[m])), ~Head(m2h[m]).can,
           NEW k \in Mcus
    PROVE  Has(h2m'[k], "trigger")
<1> DEFINE x == Cmd("trigger", HOST_REQUEST)
<1>1. h2m'[k] = h2m[k] \o (<<x>> \o <<>>)
  BY DEF ReceiveState, Broadcast, FastCommands
<1>2. x \in Commands /\ <<x>> \in Seq(Commands) /\ Has(<<x>>, "trigger")
  BY OneCommand DEF Cmd, Commands, HOST_REQUEST
<1> HIDE DEF x
<1>3. h2m'[k] = h2m[k] \o <<x>>
  BY <1>1, <1>2
<1> QED  BY <1>2, <1>3, Grown

\* handle_trsync_state(): the first report that a trsync has stopped ends the wait, and
\* then it is the report of a timeout, or all the others are told to stop.
LEMMA ReceiveStateHit ==
    ASSUME IInv, HInv, NEW m \in Mcus, ReceiveState(m)
    PROVE  HInv'
<1> DEFINE f == Head(m2h[m])
<1>1. /\ m2h[m] # <<>> /\ f.kind = "state"
      /\ m2h' = [m2h EXCEPT ![m] = Tail(@)]
      /\ waiting' = [waiting EXCEPT ![m] = @ /\ ~Triggered(m, f)]
      /\ completion' = (IF Triggered(m, f) THEN "done" ELSE completion)
      /\ home_end_clock' \in {0, home_end_clock}
      /\ last_params' = (IF handler[m] = "query" THEN f.reason ELSE last_params)
      /\ SameMachines /\ FastReader(m, f)
      /\ UNCHANGED <<pc, todo, reasons, result, given_up, handler, in_shutdown, lost>>
  BY DEF ReceiveState, SameMachines, trsyncVars, endstopVars, moveVars
<1>2. /\ TypeOK /\ Mcus' = Mcus /\ n' = n /\ 1 \in Mcus /\ h2m \in [Mcus -> Seq(Commands)]
      /\ m2h \in [Mcus -> Seq(Messages)] /\ waiting \in [Mcus -> BOOLEAN]
      /\ td_active \in BOOLEAN /\ td_can_trigger \in BOOLEAN /\ given_up \in BOOLEAN
      /\ UNCHANGED <<can_trigger, trigger_reason, is_shutdown>>
  BY <1>1, Basics DEF IInv, TypeOK, LinkTypes, HostTypes, SameMachines, Mcus
<1>3. f \in Messages /\ f = m2h[m][1] /\ m2h'[m] = Tail(m2h[m])
      /\ Tail(m2h[m]) \in Seq(Messages) /\ ~Drained(m2h[m]) /\ f.reason \in 0..4
  <2>1. f = m2h[m][1] /\ f \in Messages /\ Tail(m2h[m]) \in Seq(Messages)
    BY <1>1, <1>2, MessagesTail
  <2> HIDE DEF f
  <2> QED  BY <2>1, <1>1, <1>2, MessagesTail DEF Messages
<1>4. \A k \in Mcus : Read(k) /\ (k # m => m2h'[k] = m2h[k])
  BY <1>1, <1>2 DEF Read
<1>5. \A k \in Mcus : /\ AllFour(m2h[k]) => AllFour(m2h'[k])
                      /\ FoursLast(m2h[k]) => FoursLast(m2h'[k])
                      /\ \A r : ReasonsAre(m2h[k], r) => ReasonsAre(m2h'[k], r)
  BY <1>2, <1>4, FoursRead
<1>6. \A k \in Mcus : /\ Has(h2m'[k], "query") <=> Has(h2m[k], "query")
                      /\ Has(h2m'[k], "start") <=> Has(h2m[k], "start")
                      /\ Has(h2m[k], "trigger") => Has(h2m'[k], "trigger")
                      /\ Doomed(h2m[k]) => Doomed(h2m'[k])
  <2> SUFFICES ASSUME NEW k \in Mcus
               PROVE  /\ Has(h2m'[k], "query") <=> Has(h2m[k], "query")
                      /\ Has(h2m'[k], "start") <=> Has(h2m[k], "start")
                      /\ Has(h2m[k], "trigger") => Has(h2m'[k], "trigger")
                      /\ Doomed(h2m[k]) => Doomed(h2m'[k])
    OBVIOUS
  <2>1. PICK s \in Seq(Commands) : /\ h2m'[k] = h2m[k] \o s
                                   /\ \A c : Has(s, c) => c \in {"set_timeout", "trigger"}
    BY <1>2, FastQueue
  <2>2. ~Has(s, "query") /\ ~Has(s, "start")
    BY <2>1
  <2> QED  BY <2>1, <2>2, <1>2, Grown
<1>7. \A k \in Mcus : /\ Asked(k)' = Asked(k) /\ Current(k)' = Current(k)
                      /\ Unsent(k)' = Unsent(k)
                      /\ Current(k) /\ handler[m] = "query" => k = m
                      /\ Current(k) /\ k = m => handler[m] = "query"
  <2>1. \A k \in Mcus : handler[k] = "query" <=> Current(k)
    BY DEF IInv, Host, Asking
  <2> QED  BY <2>1, <1>1, <1>2 DEF Asked, Current, Unsent, InMove
<1>8. Four(f) <=> f.reason = COMMS_TIMEOUT
  BY <1>1 DEF Four
<1> HIDE DEF f
\* The rest of the messages of m.
<1>9. /\ HasFour(m2h[m]) => Four(f) \/ HasFour(m2h'[m])
      /\ AllFour(m2h[m]) => Four(f)
      /\ TwoFours(m2h[m]) => Four(f) \/ TwoFours(m2h'[m])
      /\ EndsFour(m2h[m]) => EndsFour(m2h'[m]) \/ (Four(f) /\ AllFour(m2h'[m]))
      /\ FoursLast(m2h[m]) /\ Four(f) => AllFour(m2h'[m])
      /\ Four(f) => HasFour(m2h[m])
      /\ \A r : ReasonsAre(m2h[m], r) /\ ~f.can => f.reason = r
  BY <1>1, <1>2, <1>3, FourTail, MessagesTail
\* A timeout is heard of.
<1>10. ASSUME Four(f), ~given_up, Unsent(m) \/ Current(m) PROVE Sure(m)'
  <2>1. /\ ~can_trigger[m] /\ ~Has(h2m[m], "start")
        /\ is_shutdown[m] \/ trigger_reason[m] = COMMS_TIMEOUT
    BY <1>9, <1>10, FourMeans
  <2>2. AllFour(m2h'[m])
    BY <1>9, <1>10 DEF HInv, Sorted
  <2>3. Current(m) => last_params' = COMMS_TIMEOUT
    BY <1>1, <1>7, <1>8, <1>10
  <2>4. pc \in {"stopping", "query"} => Asked(m)
    <3>1. Len(todo) \in Nat /\ n \in Nat
      BY <1>2, Basics DEF TypeOK, HostTypes
    <3>2. Current(m) => Asked(m)
      BY <3>1 DEF Current, Asked
    <3> QED  BY <3>2, <1>10 DEF Unsent, InMove
  <2> QED  BY <2>1, <2>2, <2>3, <2>4, <1>1, <1>2, <1>6, <1>7 DEF Sure
<1>11. Waits' /\ GaveUp' /\ Unhidden'
  <2>1. Waits'
    <3>1. InMove' = InMove
      BY <1>1 DEF InMove
    <3>2. ASSUME InMove, completion' # "done"
          PROVE  /\ \A k \in Mcus : waiting'[k]
                 /\ pc # "starting" => td_active' /\ td_can_trigger'
      <4>1. completion # "done" /\ ~Triggered(m, f)
        BY <3>2, <1>1
      <4>2. /\ \A k \in Mcus : waiting[k] /\ handler[k] = "trsync"
            /\ pc # "starting" => td_active /\ td_can_trigger
        BY <4>1, <3>2 DEF HInv, Waits
      <4>3. \A k \in Mcus : waiting'[k]
        BY <4>1, <4>2, <1>1, <1>2
      <4>4. f.can
        BY <4>1, <4>2 DEF Triggered
      <4> QED  BY <4>2, <4>3, <4>4, <1>1 DEF FastReader, Fast
    <3> QED  BY <3>1, <3>2, <1>1, <1>2 DEF HInv, Waits
  <2>2. GaveUp' /\ Unhidden'
    BY <1>1, <1>2 DEF HInv, GaveUp, Unhidden
  <2> QED  BY <2>1, <2>2
<1>12. ASSUME NEW k \in Mcus PROVE (Mute(k) /\ Sorted(k) /\ Early(k))'
  <2>1. Mute(k)'
    <3>1. CASE k = m
      <4>1. Current(m) => last_params' # NoParams
        BY <1>1, <1>3, <1>7 DEF NoParams
      <4> QED  BY <4>1, <3>1, <1>7 DEF Mute
    <3>2. CASE k # m
      <4>1. Current(k) => last_params' = last_params
        BY <3>2, <1>1, <1>7
      <4> QED  BY <4>1, <3>2, <1>1, <1>4, <1>7 DEF HInv, Mute
    <3> QED  BY <3>1, <3>2
  <2>2. Sorted(k)'
    BY <1>1, <1>5 DEF HInv, Sorted
  <2>3. ASSUME pc = "starting" PROVE h2m'[k] = h2m[k]
    <3>1. ~td_active /\ home_end_clock = 0
      BY <2>3 DEF IInv, Host, HInv, Waits
    <3>2. h2m'[k] = h2m[k] \o (<<>> \o <<>>)
      BY <3>1 DEF ReceiveState, Broadcast, FastCommands, Fast
    <3>3. h2m[k] \in Seq(Commands)
      BY <1>2
    <3> QED  BY <3>2, <3>3
  <2>4. Early(k)'
    BY <2>3, <1>1, <1>2, <1>5 DEF HInv, Early
  <2> QED  BY <2>1, <2>2, <2>4
<1>13. ASSUME NEW k \in Mcus PROVE Sure(k) => Sure(k)'
  <2>1. Sure(k) /\ Current(k) => last_params' \in {NoParams, COMMS_TIMEOUT}
    BY <1>1, <1>7, <1>8, <1>9 DEF Sure
  <2> QED  BY <2>1, <1>1, <1>2, <1>5, <1>6, <1>7 DEF Sure
<1>14. \A k \in Mcus : (Fine(k) => Fine(k)') /\ (PastTold(k) => PastTold(k)')
  BY <1>1, <1>2, <1>6 DEF Fine, PastTold
<1>15. ASSUME NEW k \in Mcus, k # m PROVE Told(k) => Told(k)'
  <2>1. m2h'[k] = m2h[k] /\ (Current(k) => last_params' = last_params)
    BY <1>1, <1>4, <1>7, <1>15
  <2>2. UnsentTold(k) => UnsentTold(k)'
    BY <2>1, <1>1, <1>6 DEF UnsentTold
  <2>3. Current(k) /\ CurrentTold(k) => CurrentTold(k)'
    BY <2>1, <1>1, <1>6 DEF CurrentTold
  <2> QED  BY <2>2, <2>3, <1>1, <1>7, <1>13, <1>14 DEF Told
<1>16. Told(m) => Told(m)'
  <2>1. ASSUME Unsent(m), UnsentTold(m) PROVE Sure(m)' \/ UnsentTold(m)'
    <3>1. lost = 0 => ~given_up
      BY <2>1 DEF HInv, GaveUp, Unsent, InMove
    <3> QED  BY <3>1, <2>1, <1>1, <1>6, <1>9, <1>10 DEF UnsentTold
  <2>2. ASSUME Current(m), CurrentTold(m) PROVE Sure(m)' \/ CurrentTold(m)'
    <3>1. lost = 0 => ~given_up
      BY <2>2 DEF HInv, GaveUp, Current
    <3>2. last_params' = f.reason
      BY <2>2, <1>1, <1>7
    <3>3. CASE Four(f) /\ ~given_up
      BY <3>3, <2>2, <1>10
    <3>4. CASE Four(f) /\ given_up
      <4>1. last_params' = COMMS_TIMEOUT /\ lost # 0
        BY <3>1, <3>2, <3>4, <1>8
      <4> QED  BY <4>1, <2>2, <1>1, <1>2, <1>5, <1>6, <1>9 DEF CurrentTold
    <3>5. CASE ~Four(f)
      BY <3>5, <2>2, <1>1, <1>6, <1>9 DEF CurrentTold
    <3> QED  BY <3>3, <3>4, <3>5, <1>2
  <2>3. pc \in {"stopping", "query"} => Asked(m)
    BY <1>3 DEF IInv, Machine, Answers, Settled
  <2> QED  BY <2>1, <2>2, <2>3, <1>1, <1>7, <1>13, <1>14 DEF Told
<1>17. Credit'
  <2>1. CASE Ended
    BY <2>1, <1>2, <1>13, <1>15, <1>16 DEF HInv, Credit
  <2>2. CASE ~Ended /\ Ended'
    <3>1. InMove /\ completion # "done" /\ Triggered(m, f)
      BY <2>2, <1>1 DEF Ended, InMove
    <3>2. ~f.can /\ \A k \in Mcus : Unsent(k)' /\ Unsent(k)
      BY <3>1, <1>7 DEF Triggered, Unsent
    <3>3. CASE pc # "starting"
      <4>1. Fast(f)
        BY <3>1, <3>3, <1>1 DEF HInv, Waits, Fast
      <4>2. \A k \in Mcus : Has(h2m'[k], "trigger")
        BY <4>1, <3>2, <1>2, TriggerSent DEF f
      <4> QED  BY <4>2, <3>2, <1>2 DEF Credit, Told, UnsentTold
    <3>4. CASE pc = "starting" /\ given_up
      <4>1. lost # 0
        BY <3>4 DEF HInv, GaveUp
      <4> QED  BY <4>1, <3>2, <1>1, <1>2 DEF Credit, Told, UnsentTold
    <3>5. CASE pc = "starting" /\ ~given_up
      <4>1. Four(f)
        BY <3>2, <3>5, <1>8, <1>9 DEF HInv, Early
      <4>2. Sure(m)'
        BY <4>1, <3>2, <3>5, <1>10
      <4> QED  BY <4>2, <1>2 DEF Credit
    <3> QED  BY <3>3, <3>4, <3>5, <1>2
  <2> QED  BY <2>1, <2>2 DEF Credit
<1> QED  BY <1>2, <1>11, <1>12, <1>17 DEF HInv

LEMMA InitHInv ==
    ASSUME Init
    PROVE  HInv
<1>1. /\ pc = "idle" /\ ~given_up /\ result = "none" /\ lost = 0
      /\ \A k \in Mcus : m2h[k] = <<>>
  BY DEF Init
<1>2. Waits /\ GaveUp /\ Credit /\ Unhidden
  BY <1>1 DEF Waits, GaveUp, Credit, Ended, InMove, Unhidden
<1>3. FoursLast(<<>>)
  <2>1. \A i \in 1..Len(<<>>) : FALSE
    OBVIOUS
  <2> QED  BY <2>1 DEF FoursLast
<1>4. \A k \in Mcus : Mute(k) /\ Sorted(k) /\ Early(k)
  BY <1>1, <1>3 DEF Mute, Sorted, Early
<1> QED  BY <1>2, <1>4 DEF HInv

LEMMA NextHit ==
    ASSUME IInv, IInv', HInv, [Next]_vars
    PROVE  HInv'
<1>1. CASE Tick \/ UNCHANGED vars
  <2>1. UNCHANGED <<n, can_trigger, trigger_reason, is_shutdown, h2m, m2h, tdVars, moveVars,
                    stateVars, lost>>
    BY <1>1 DEF Tick, vars, trsyncVars
  <2> QED  BY <2>1, StillHit
<1>2. ASSUME NEW m \in Mcus, ExpireEvent(m) PROVE HInv'
  BY <1>2, ExpireEventHit
<1>3. ASSUME NEW m \in Mcus, ReportEvent(m) PROVE HInv'
  BY <1>3, ReportEventHit
<1>4. ASSUME NEW m \in Mcus, TrsyncTask(m) PROVE HInv'
  BY <1>4, TrsyncTaskHit
<1>5. ASSUME NEW m \in Mcus, ProcessCommand(m) PROVE HInv'
  BY <1>5, ProcessCommandHit
<1>6. ASSUME NEW m \in Mcus, McuShutdown(m) PROVE HInv'
  BY <1>6, McuShutdownHit
<1>7. ASSUME NEW m \in Mcus, ReceiveState(m) PROVE HInv'
  BY <1>7, ReceiveStateHit
<1>8. ASSUME NEW m \in Mcus, Lose(m) PROVE HInv'
  BY <1>8, LoseHit
<1>9. ASSUME NEW m \in Mcus, HandleShutdown(m) PROVE HInv'
  BY <1>9, HandleShutdownHit
<1>10. ASSUME NEW m \in Mcus, QueryAcked(m) PROVE HInv'
  BY <1>10, QueryAckedHit
<1>11. ASSUME NEW match \in BOOLEAN, EndstopEvent(match) PROVE HInv'
  BY <1>11, EndstopEventHit
<1>12. CASE StartTrsyncs
  BY <1>12, StartTrsyncsHit
<1>13. CASE StartDispatch
  BY <1>13, StartDispatchHit
<1>14. CASE WaitEnd
  BY <1>14, WaitEndHit
<1>15. CASE StopDispatch
  BY <1>15, StopDispatchHit
<1>16. CASE SendQuery
  BY <1>16, SendQueryHit
<1>17. CASE Judge
  BY <1>17, JudgeHit
<1> QED
  BY <1>1, <1>2, <1>3, <1>4, <1>5, <1>6, <1>7, <1>8, <1>9, <1>10, <1>11, <1>12, <1>13,
     <1>14, <1>15, <1>16, <1>17 DEF Next

LEMMA HitsAreRealFollows ==
    ASSUME IInv, HInv
    PROVE  HitsAreReal
<1>1. CompletionIsReal
  BY DEF IInv, Host, Completed, CompletionIsReal, Stopped
<1>2. ASSUME pc = "idle", result = "hit", NEW m \in Mcus PROVE ~moving[m]
  <2>1. Asleep(m) /\ Firmware(m)
    BY <1>2 DEF IInv, Machine, Answers, Settled, QuietIn
  <2> QED  BY <2>1 DEF Asleep, Off, Firmware
<1>3. HitIsReal
  BY <1>2 DEF IInv, Host, Judged, HInv, Unhidden, HitIsReal
<1> QED  BY <1>1, <1>3 DEF HitsAreReal

\* A homing move that home_wait() reports as a hit was ended by the endstop, or by the
\* shutdown of its micro-controller; all steppers have stopped, and, if at most one message
\* to the host was lost, none of them for a timeout: a micro-controller that has timed out
\* says so in the answer to the trigger that the others caused and again in the answer to
\* the query, and one of them arrives.  For any number of micro-controllers, moves,
\* shutdowns and messages under way; with CompletionIsReal.
THEOREM ReportedHitsAreReal == Spec => []HitsAreReal
<1>1. Init => HInv
  BY InitHInv
<1>2. IInv /\ IInv' /\ HInv /\ [Next]_vars => HInv'
  BY NextHit
<1>3. IInv /\ HInv => HitsAreReal
  BY HitsAreRealFollows
<1> QED  BY <1>1, <1>2, <1>3, AlwaysIInv, PTL DEF Spec
=============================================================================
