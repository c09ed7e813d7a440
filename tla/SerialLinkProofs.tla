-------------------------- MODULE SerialLinkProofs --------------------------
(***************************************************************************)
(* Proofs about SerialLink, for every window, modulus and bound.           *)
(***************************************************************************)
EXTENDS MCSerialLink, WellFoundedInduction, TLAPS

-----------------------------------------------------------------------------
(* Arithmetic on sequence numbers *)

\* Division with remainder.
LEMMA DivMod ==
    ASSUME NEW n \in Nat \ {0}, NEW x \in Int
    PROVE  /\ x = n * (x \div n) + (x % n)
           /\ x \div n \in Int /\ x % n \in 0..(n - 1)
  BY SMT

\* A positive multiple of n is at least n.
LEMMA MultipleIsLarge ==
    ASSUME NEW n \in Nat \ {0}, NEW d \in Int, d >= 1
    PROVE  n * d >= n
  BY SMT

\* Two numbers less than n apart are equal if their low bits are: why the
\* firmware may compare four bits of the sequence number.
LEMMA SameLowBits ==
    ASSUME NEW n \in Nat \ {0}, NEW x \in Int, NEW y \in Int,
           x - y < n, y - x < n, x % n = y % n
    PROVE  x = y
<1> DEFINE p == x \div n
           q == y \div n
<1>1. x = n * p + (x % n) /\ p \in Int /\ x % n \in 0..(n - 1)
  BY DivMod
<1>2. y = n * q + (y % n) /\ q \in Int
  BY DivMod
<1> HIDE DEF p, q
<1>3. x - y = n * (p - q) /\ y - x = n * (q - p)
  <2>1. n * (p - q) = n * p - n * q
    BY <1>1, <1>2, SMT
  <2>2. n * (q - p) = n * q - n * p
    BY <1>1, <1>2, SMT
  <2> QED  BY <2>1, <2>2, <1>1, <1>2, SMT
<1>4. ~(p - q >= 1)
  BY MultipleIsLarge, <1>3, <1>1, <1>2
<1>5. ~(q - p >= 1)
  BY MultipleIsLarge, <1>3, <1>1, <1>2
<1> QED  BY <1>1, <1>2, <1>4, <1>5

\* A number below n is its own remainder: why the host recovers the full
\* sequence number from the distance to receive_seq.
LEMMA SmallRemainder ==
    ASSUME NEW n \in Nat \ {0}, NEW x \in Nat, x < n
    PROVE  x % n = x
  BY SMT

-----------------------------------------------------------------------------
(* The inductive invariant *)

\* The types the protocol's proofs need; the sender's other types are in
\* SenderTypes.
LinkTypes ==
    /\ send_seq \in Nat \ {0} /\ receive_seq \in Nat \ {0}
    /\ sent_queue \in Seq(SentBlocks) /\ h2m \in Seq(Blocks)
    /\ receive_buf \in Seq(Blocks) /\ m2h \in Seq(Frames)
    /\ notify_queue \subseteq Nat
    /\ base \in 1..SeqCount /\ next_sequence \in Nat
    /\ dispatching \in Nat /\ executed \in Seq(Nat) /\ resets \in Nat
    /\ dispatching # 0 => receive_buf # <<>>

\* The sent queue is the window of at most MaxPending blocks.
SentWindow ==
    /\ Len(sent_queue) = send_seq - receive_seq
    /\ \A i \in 1..Len(sent_queue) : sent_queue[i].seq = receive_seq + i - 1
    /\ send_seq - receive_seq <= MaxPending

\* The firmware is inside the host's window, or still where it was when the
\* host connected.
InStep ==
    /\ receive_seq <= next_sequence
    /\ \/ next_sequence <= send_seq
       \/ receive_seq = 1 /\ next_sequence = base

\* Blocks under way are closer to next_sequence than the modulus, ...
Near(b) == 1 <= b.seq /\ b.seq < send_seq /\ next_sequence - b.seq < SeqCount

\* ... and a later block is never a whole window behind an earlier one.
Gap(b, c) == b.seq < c.seq + MaxPending

WireInv ==
    /\ \A i \in 1..Len(receive_buf) : Near(receive_buf[i])
    /\ \A i \in 1..Len(h2m) : Near(h2m[i])
    /\ \A i, j \in 1..Len(receive_buf) :
         i < j => Gap(receive_buf[i], receive_buf[j])
    /\ \A i, j \in 1..Len(h2m) : i < j => Gap(h2m[i], h2m[j])
    /\ \A i \in 1..Len(receive_buf), j \in 1..Len(h2m) :
         Gap(receive_buf[i], h2m[j])

\* Messages to the host are in order and between its window and the
\* firmware; an ack is never for the block in dispatch.
FrameInv ==
    /\ \A i \in 1..Len(m2h) :
         /\ receive_seq <= m2h[i].seq /\ m2h[i].seq <= next_sequence
         /\ base <= m2h[i].seq
         /\ dispatching # 0 /\ ~m2h[i].data => m2h[i].seq < next_sequence
    /\ \A i, j \in 1..Len(m2h) : i < j => m2h[i].seq <= m2h[j].seq

\* What was executed, and what is in dispatch.
ExecInv ==
    /\ Len(executed) = next_sequence - base
    /\ \A i \in 1..Len(executed) : executed[i] = base + i - 1
    /\ dispatching # 0 => dispatching = next_sequence - 1

IndInv ==
    /\ LinkTypes
    /\ SentWindow
    /\ resets = 0 => InStep /\ WireInv /\ FrameInv /\ ExecInv

-----------------------------------------------------------------------------
(* Sequences *)

\* Removing the first element.
LEMMA TailFacts ==
    ASSUME NEW S, NEW s \in Seq(S), s # <<>>
    PROVE  /\ Tail(s) \in Seq(S) /\ Len(s) \in Nat \ {0}
           /\ Head(s) = s[1] /\ Head(s) \in S
           /\ Len(Tail(s)) = Len(s) - 1
           /\ \A i \in 1..(Len(s) - 1) : Tail(s)[i] = s[i + 1]
  BY SMT

\* Adding an element at the end.
LEMMA AppendFacts ==
    ASSUME NEW S, NEW s \in Seq(S), NEW x \in S
    PROVE  /\ Append(s, x) \in Seq(S) /\ Len(s) \in Nat
           /\ Len(Append(s, x)) = Len(s) + 1
           /\ \A i \in 1..Len(s) : Append(s, x)[i] = s[i]
           /\ Append(s, x)[Len(s) + 1] = x
  BY SMT

\* Sequence numbers of blocks and frames in a queue are numbers.
LEMMA SeqNumbers ==
    ASSUME LinkTypes
    PROVE  /\ \A i \in 1..Len(h2m) : h2m[i] \in Blocks /\ h2m[i].seq \in Nat
           /\ \A i \in 1..Len(receive_buf) :
                receive_buf[i] \in Blocks /\ receive_buf[i].seq \in Nat
           /\ \A i \in 1..Len(sent_queue) :
                sent_queue[i] \in SentBlocks /\ sent_queue[i].seq \in Nat
           /\ \A i \in 1..Len(m2h) : m2h[i] \in Frames /\ m2h[i].seq \in Nat
<1>1. \A S : \A s \in Seq(S) : \A i \in 1..Len(s) : s[i] \in S
  OBVIOUS
<1>2. /\ \A b \in Blocks : b.seq \in Nat
      /\ \A b \in SentBlocks : b.seq \in Nat
      /\ \A f \in Frames : f.seq \in Nat
  BY DEF Blocks, SentBlocks, Frames
<1>3. /\ h2m \in Seq(Blocks) /\ receive_buf \in Seq(Blocks)
      /\ sent_queue \in Seq(SentBlocks) /\ m2h \in Seq(Frames)
  BY DEF LinkTypes
<1> QED  BY <1>1, <1>2, <1>3, Zenon

\* Counters and lengths are numbers.
Counters ==
    /\ send_seq \in Nat \ {0} /\ receive_seq \in Nat \ {0}
    /\ next_sequence \in Nat /\ base \in 1..SeqCount
    /\ dispatching \in Nat /\ resets \in Nat
    /\ Len(h2m) \in Nat /\ Len(m2h) \in Nat /\ Len(receive_buf) \in Nat
    /\ Len(sent_queue) \in Nat /\ Len(executed) \in Nat
    /\ SeqCount \in Nat \ {0} /\ MaxPending \in Nat /\ MaxPending < SeqCount

\* The counters of both sides are natural numbers under the invariant.
LEMMA CountersAreNumbers == IndInv => Counters
  BY LinkAssumption DEF IndInv, LinkTypes, Counters

-----------------------------------------------------------------------------
(* Sums over a queue *)

\* A set of natural numbers that is not empty has a smallest element.
LEMMA Smallest ==
    ASSUME NEW T, T \subseteq Nat, T # {}
    PROVE  \E m \in T : \A n \in T : m <= n
<1> DEFINE R == OpToRel(<, Nat)
<1>1. IsWellFoundedOn(R, Nat)
  BY NatLessThanWellFounded
<1>2. \A x, y \in Nat : <<x, y>> \in R <=> x < y
  BY DEF OpToRel
<1> HIDE DEF R
<1>3. PICK m \in T : \A y \in T : ~(<<y, m>> \in R)
  BY <1>1, WFMin
<1>4. \A n \in T : n \in Nat /\ m \in Nat /\ ~(n < m)
  BY <1>2, <1>3
<1>5. \A n \in T : m <= n
  BY <1>4
<1> QED  BY <1>5

\* Induction, stated for the set of the numbers that have the property.
LEMMA NatSetInduction ==
    ASSUME NEW P, 0 \in P, \A n \in Nat : n \in P => n + 1 \in P
    PROVE  Nat \subseteq P
<1> SUFFICES ASSUME ~(Nat \subseteq P) PROVE FALSE
  OBVIOUS
<1> DEFINE T == Nat \ P
<1>1. T \subseteq Nat /\ T # {}
  OBVIOUS
<1> HIDE DEF T
<1>2. PICK m \in T : \A n \in T : m <= n
  BY <1>1, Smallest
<1>3. m \in Nat /\ m \notin P /\ m # 0
  BY <1>2 DEF T
<1>4. m - 1 \in Nat /\ (m - 1) + 1 = m /\ ~(m <= m - 1)
  BY <1>3
<1>5. m - 1 \in P
  BY <1>2, <1>4 DEF T
<1> QED  BY <1>3, <1>4, <1>5

\* A queue of things that have a length.
Measured(s) == Len(s) \in Nat /\ \A i \in 1..Len(s) : s[i].len \in Nat

\* f adds up the lengths.
Adds(s, f) ==
    /\ f \in [0..Len(s) -> Int] /\ f[0] = 0
    /\ \A i \in 1..Len(s) : f[i] = f[i - 1] + s[i].len

\* A function that adds up the first k lengths.
AddsTo(s, k, f) ==
    /\ f \in [0..k -> Nat] /\ f[0] = 0
    /\ \A i \in 1..k : f[i] = f[i - 1] + s[i].len

\* Such a function goes on for one block more, ...
LEMMA AddsOneMore ==
    ASSUME NEW s, Measured(s), NEW n \in Nat, n + 1 <= Len(s), NEW f, AddsTo(s, n, f)
    PROVE  \E g : AddsTo(s, n + 1, g)
<1> DEFINE g == [i \in 0..(n + 1) |-> IF i <= n THEN f[i] ELSE f[n] + s[n + 1].len]
<1>1. f \in [0..n -> Nat] /\ f[0] = 0 /\ \A i \in 1..n : f[i] = f[i - 1] + s[i].len
  BY DEF AddsTo
<1>2. f[n] \in Nat /\ s[n + 1].len \in Nat
  BY <1>1 DEF Measured
<1>3. g \in [0..(n + 1) -> Nat] /\ g[0] = 0
  BY <1>1, <1>2
<1>4. ASSUME NEW i \in 1..(n + 1)
      PROVE  g[i] = g[i - 1] + s[i].len
  <2>1. CASE i <= n
    BY <2>1, <1>1
  <2>2. CASE i = n + 1
    BY <2>2, <1>1
  <2> QED  BY <2>1, <2>2
<1> HIDE DEF g
<1>5. AddsTo(s, n + 1, g)
  BY <1>3, <1>4 DEF AddsTo
<1> QED  BY <1>5

\* ... so that there is one for the whole queue, ...
LEMMA AddsExists ==
    ASSUME NEW s, Measured(s)
    PROVE  \E f : Adds(s, f) /\ f[Len(s)] \in Nat
<1> DEFINE P == {k \in Nat : k <= Len(s) => \E f : AddsTo(s, k, f)}
<1>m. Len(s) \in Nat
  BY DEF Measured
<1>1. 0 \in P
  <2>1. AddsTo(s, 0, [i \in 0..0 |-> 0])
    BY DEF AddsTo
  <2> QED  BY <2>1
<1>2. ASSUME NEW n \in Nat, n \in P
      PROVE  n + 1 \in P
  <2>1. n <= Len(s) => \E f : AddsTo(s, n, f)
    BY <1>2
  <2>2. n + 1 <= Len(s) => n <= Len(s)
    BY <1>m
  <2>3. n + 1 <= Len(s) => \E f : AddsTo(s, n + 1, f)
    BY <2>1, <2>2, AddsOneMore
  <2> QED  BY <2>3
<1>3. Nat \subseteq P
  <2> HIDE DEF P
  <2> QED  BY <1>1, <1>2, NatSetInduction
<1>4. Len(s) \in P /\ Len(s) <= Len(s)
  BY <1>3, <1>m
<1>5. \E f : AddsTo(s, Len(s), f)
  BY <1>4
<1>6. PICK f : AddsTo(s, Len(s), f)
  BY <1>5
<1>7. Adds(s, f) /\ f[Len(s)] \in Nat
  BY <1>6, <1>m DEF Adds, AddsTo
<1> QED  BY <1>7

\* ... and its last value is unique.
LEMMA AddsUnique ==
    ASSUME NEW s, Measured(s), NEW f, NEW g, Adds(s, f), Adds(s, g)
    PROVE  f[Len(s)] = g[Len(s)]
<1> DEFINE P == {k \in Nat : k <= Len(s) => f[k] = g[k]}
<1>m. Len(s) \in Nat
  BY DEF Measured
<1>1. 0 \in P
  BY DEF Adds
<1>2. ASSUME NEW n \in Nat, n \in P
      PROVE  n + 1 \in P
  <2> SUFFICES ASSUME n + 1 <= Len(s)
               PROVE  f[n + 1] = g[n + 1]
    OBVIOUS
  <2>1. n + 1 \in 1..Len(s) /\ (n + 1) - 1 = n /\ f[n] = g[n]
    BY <1>2, <1>m
  <2> QED  BY <2>1 DEF Adds
<1>3. Nat \subseteq P
  <2> HIDE DEF P
  <2> QED  BY <1>1, <1>2, NatSetInduction
<1> QED  BY <1>3, <1>m

\* What the function of Bytes is defined by.
IsSum(s, f) == f = [i \in 0..Len(s) |-> IF i = 0 THEN 0 ELSE f[i - 1] + s[i].len]

\* Bytes is the last value of a function that adds up the lengths.
LEMMA BytesAdds ==
    ASSUME NEW s, Measured(s), NEW f, Adds(s, f)
    PROVE  Bytes(s) = f[Len(s)]
<1> DEFINE h == CHOOSE k : IsSum(s, k)
<1>m. Len(s) \in Nat /\ \A i \in 1..Len(s) : s[i].len \in Nat
  BY DEF Measured
<1>1. Bytes(s) = h[Len(s)]
  BY DEF Bytes, IsSum
<1>2. IsSum(s, f)
  <2>1. \A i \in 0..Len(s) : f[i] = IF i = 0 THEN 0 ELSE f[i - 1] + s[i].len
    BY <1>m DEF Adds
  <2> QED  BY <2>1 DEF Adds, IsSum
<1>3. IsSum(s, h)
  BY <1>2
<1> HIDE DEF h
<1>4. Adds(s, h)
  <2>1. h = [i \in 0..Len(s) |-> IF i = 0 THEN 0 ELSE h[i - 1] + s[i].len]
    BY <1>3 DEF IsSum
  <2>2. h[0] = 0 /\ \A i \in 1..Len(s) : h[i] = h[i - 1] + s[i].len
    BY <2>1, <1>m
  <2>3. \A i \in 0..Len(s) : h[i] \in Int
    <3> DEFINE P == {k \in Nat : k <= Len(s) => h[k] \in Int}
    <3>1. 0 \in P
      BY <2>2
    <3>2. ASSUME NEW n \in Nat, n \in P
          PROVE  n + 1 \in P
      <4> SUFFICES ASSUME n + 1 <= Len(s)
                   PROVE  h[n + 1] \in Int
        OBVIOUS
      <4>1. n + 1 \in 1..Len(s) /\ (n + 1) - 1 = n /\ h[n] \in Int
        BY <3>2, <1>m
      <4>2. h[n + 1] = h[n] + s[n + 1].len /\ s[n + 1].len \in Int
        BY <2>2, <4>1, <1>m
      <4> QED  BY <4>1, <4>2
    <3>3. Nat \subseteq P
      <4> HIDE DEF P
      <4> QED  BY <3>1, <3>2, NatSetInduction
    <3> QED  BY <3>3, <1>m
  <2>4. h \in [0..Len(s) -> Int]
    BY <2>1, <2>3
  <2> QED  BY <2>2, <2>4 DEF Adds
<1> QED  BY <1>1, <1>4, AddsUnique

\* The bytes of a queue are a number.
LEMMA BytesType ==
    ASSUME NEW s, Measured(s)
    PROVE  Bytes(s) \in Nat
BY AddsExists, BytesAdds

\* An empty queue has no bytes.
LEMMA BytesEmpty == Bytes(<<>>) = 0
<1>1. Measured(<<>>) /\ Len(<<>>) = 0
  BY DEF Measured
<1>2. PICK f : Adds(<<>>, f)
  BY <1>1, AddsExists
<1>3. f[0] = 0
  BY <1>2 DEF Adds
<1> QED  BY <1>1, <1>2, <1>3, BytesAdds

\* Only the lengths matter.
LEMMA BytesSame ==
    ASSUME NEW s, Measured(s), NEW t, Len(t) = Len(s), \A i \in 1..Len(s) : t[i].len = s[i].len
    PROVE  Bytes(t) = Bytes(s)
<1>1. PICK f : Adds(s, f)
  BY AddsExists
<1>2. Adds(t, f) /\ Measured(t)
  BY <1>1 DEF Adds, Measured
<1> QED  BY <1>1, <1>2, BytesAdds

\* A queue with one block more.
LEMMA BytesAppend ==
    ASSUME NEW q, Measured(q), NEW t, Len(t) = Len(q) + 1,
           \A i \in 1..Len(q) : t[i].len = q[i].len,
           t[Len(q) + 1].len \in Nat
    PROVE  Bytes(t) = Bytes(q) + t[Len(q) + 1].len
<1>m. Len(q) \in Nat
  BY DEF Measured
<1>1. Measured(t)
  BY DEF Measured
<1>2. PICK f : Adds(t, f)
  BY <1>1, AddsExists
<1> DEFINE g == [i \in 0..Len(q) |-> f[i]]
<1>3. Adds(q, g)
  <2>1. g \in [0..Len(q) -> Int] /\ g[0] = 0
    BY <1>2, <1>m DEF Adds
  <2>2. \A i \in 1..Len(q) : g[i] = g[i - 1] + q[i].len
    BY <1>2, <1>m DEF Adds
  <2> HIDE DEF g
  <2> QED  BY <2>1, <2>2 DEF Adds
<1>4. Bytes(q) = f[Len(q)]
  BY <1>3, <1>m, BytesAdds
<1>5. Bytes(t) = f[Len(q) + 1]
  BY <1>1, <1>2, BytesAdds
<1>6. f[Len(q) + 1] = f[Len(q)] + t[Len(q) + 1].len
  BY <1>2, <1>m DEF Adds
<1> QED  BY <1>4, <1>5, <1>6

\* s is split after its first n blocks.
Splits(s, n, a, b) ==
    /\ Measured(s) /\ n \in 0..Len(s)
    /\ Len(a) = n /\ \A i \in 1..n : a[i].len = s[i].len
    /\ Len(b) = Len(s) - n /\ \A i \in 1..(Len(s) - n) : b[i].len = s[n + i].len

\* A queue of which the first blocks are split off.
LEMMA BytesSplit ==
    ASSUME NEW s, NEW n, NEW a, NEW b, Splits(s, n, a, b)
    PROVE  Bytes(s) = Bytes(a) + Bytes(b) /\ Bytes(a) \in Nat /\ Bytes(b) \in Nat
<1> SUFFICES ASSUME Measured(s), n \in 0..Len(s),
                    Len(a) = n, \A i \in 1..n : a[i].len = s[i].len,
                    Len(b) = Len(s) - n,
                    \A i \in 1..(Len(s) - n) : b[i].len = s[n + i].len
             PROVE  Bytes(s) = Bytes(a) + Bytes(b) /\ Bytes(a) \in Nat /\ Bytes(b) \in Nat
  BY DEF Splits
<1>m. Len(s) \in Nat /\ \A i \in 1..Len(s) : s[i].len \in Nat
  BY DEF Measured
<1>1. PICK f : Adds(s, f)
  BY AddsExists
<1>2. Measured(a) /\ Measured(b)
  <2>1. Measured(a)
    BY <1>m DEF Measured
  <2>2. \A i \in 1..(Len(s) - n) : n + i \in 1..Len(s)
    BY <1>m
  <2>3. \A i \in 1..(Len(s) - n) : b[i].len \in Nat
    BY <1>m, <2>2
  <2>4. Len(s) - n \in Nat
    BY <1>m
  <2>5. Measured(b)
    BY <2>3, <2>4 DEF Measured
  <2> QED  BY <2>1, <2>5
<1> DEFINE g == [i \in 0..n |-> f[i]]
           h == [i \in 0..(Len(s) - n) |-> f[n + i] - f[n]]
<1>3. \A i \in 0..Len(s) : f[i] \in Int
  BY <1>1 DEF Adds
<1>4. Adds(a, g)
  <2>1. g \in [0..Len(a) -> Int] /\ g[0] = 0
    BY <1>1, <1>3, <1>m DEF Adds
  <2>2. \A i \in 1..Len(a) : g[i] = g[i - 1] + a[i].len
    BY <1>1, <1>m DEF Adds
  <2> HIDE DEF g
  <2> QED  BY <2>1, <2>2 DEF Adds
<1>5. Adds(b, h)
  <2>0. \A i \in 0..(Len(s) - n) : n + i \in 0..Len(s)
    BY <1>m
  <2>a. \A i \in 0..(Len(s) - n) : f[n + i] - f[n] \in Int
    BY <1>3, <1>m, <2>0
  <2>b. h[0] = f[n + 0] - f[n] /\ n + 0 = n /\ f[n] \in Int
    BY <1>3, <1>m
  <2>c. h \in [0..(Len(s) - n) -> Int]
    BY <2>a
  <2>d. h[0] = 0
    <3> HIDE DEF h
    <3> QED  BY <2>b
  <2>1. h \in [0..Len(b) -> Int] /\ h[0] = 0
    <3> HIDE DEF h
    <3> QED  BY <2>c, <2>d
  <2>2. ASSUME NEW i \in 1..Len(b)
        PROVE  h[i] = h[i - 1] + b[i].len
    <3>1. n + i \in 1..Len(s) /\ (n + i) - 1 = n + (i - 1) /\ n + (i - 1) \in 0..Len(s)
      BY <1>m
    <3>2. f[n + i] = f[n + (i - 1)] + b[i].len /\ b[i].len \in Nat
      BY <1>1, <1>m, <3>1 DEF Adds
    <3>3. f[n + (i - 1)] \in Int /\ f[n] \in Int
      BY <1>3, <3>1, <1>m
    <3>4. h[i] = f[n + i] - f[n] /\ h[i - 1] = f[n + (i - 1)] - f[n]
      BY <1>m
    <3> HIDE DEF h
    <3> QED  BY <3>2, <3>3, <3>4
  <2> HIDE DEF h
  <2> QED  BY <2>1, <2>2 DEF Adds
<1>6. Bytes(a) = f[n] /\ Bytes(b) = f[Len(s)] - f[n] /\ Bytes(s) = f[Len(s)]
  <2>1. Bytes(a) = g[n] /\ Bytes(b) = h[Len(s) - n]
    BY <1>2, <1>4, <1>5, BytesAdds
  <2>2. g[n] = f[n] /\ h[Len(s) - n] = f[Len(s)] - f[n]
    BY <1>m
  <2> QED  BY <1>1, <2>1, <2>2, BytesAdds
<1>7. Bytes(a) \in Nat /\ Bytes(b) \in Nat
  BY <1>2, BytesType
<1> HIDE DEF g, h
<1> QED  BY <1>6, <1>7, <1>3, <1>m

-----------------------------------------------------------------------------
(* Every action keeps the invariant *)

\* The invariant holds when both ends start.
LEMMA InitInd == Init => IndInv
  BY LinkAssumption
     DEF Init, IndInv, LinkTypes, SentWindow, InStep, WireInv, FrameInv,
         ExecInv

\* The host sends a block.
LEMMA SendBlockInd ==
    ASSUME IndInv, NEW len \in 1..MaxLen, NEW notify \in BOOLEAN,
           SendBlock(len, notify)
    PROVE  IndInv'
<1> DEFINE b == [seq |-> send_seq, len |-> len, re |-> FALSE, naks |-> 0]
           w == OnWire(b, FALSE)
<1>0. send_seq' = send_seq + 1 /\ send_seq - receive_seq < MaxPending
  BY DEF SendBlock, WindowOpen
<1>1. /\ h2m' = Append(h2m, w) /\ sent_queue' = Append(sent_queue, b)
      /\ notify_queue' \subseteq notify_queue \cup {send_seq}
  BY DEF SendBlock
<1>2. UNCHANGED <<receive_seq, m2h, receive_buf, base, next_sequence,
                  dispatching, executed, resets>>
  BY DEF SendBlock, ackVars, mcuVars
<1>3. b \in SentBlocks /\ w \in Blocks /\ b.seq = send_seq /\ w.seq = send_seq
  BY DEF IndInv, LinkTypes, SentBlocks, Blocks, OnWire
<1>n. Counters
  BY CountersAreNumbers
<1> HIDE DEF b, w
<1>4. LinkTypes'
  BY <1>0, <1>1, <1>2, <1>3, AppendFacts DEF IndInv, LinkTypes
<1>5. SentWindow'
  <2>1. /\ Len(sent_queue') = Len(sent_queue) + 1
        /\ \A i \in 1..Len(sent_queue) : sent_queue'[i] = sent_queue[i]
        /\ sent_queue'[Len(sent_queue) + 1].seq = send_seq
        /\ Len(sent_queue) \in Nat
    BY <1>1, <1>3, AppendFacts DEF IndInv, LinkTypes
  <2>2. /\ Len(sent_queue) = send_seq - receive_seq
        /\ \A i \in 1..Len(sent_queue) : sent_queue[i].seq = receive_seq + i - 1
    BY DEF IndInv, SentWindow
  <2>3. ASSUME NEW i \in 1..(Len(sent_queue) + 1)
        PROVE  sent_queue'[i].seq = receive_seq + i - 1
    <3>1. CASE i \in 1..Len(sent_queue)
      BY <3>1, <2>1, <2>2
    <3>2. CASE i = Len(sent_queue) + 1
      BY <3>2, <2>1, <2>2, <1>n DEF Counters
    <3> QED  BY <3>1, <3>2, <2>1
  <2> QED
    BY <2>1, <2>2, <2>3, <1>0, <1>2, <1>n DEF SentWindow, Counters
<1>6. ASSUME resets = 0
      PROVE  InStep' /\ WireInv' /\ FrameInv' /\ ExecInv'
  <2>1. InStep /\ WireInv /\ FrameInv /\ ExecInv /\ LinkTypes /\ SentWindow
    BY <1>6 DEF IndInv
  <2>2. InStep'
    BY <2>1, <1>0, <1>2, <1>n DEF InStep, Counters
  <2>3. WireInv'
    <3>1. next_sequence - send_seq < SeqCount
      BY <2>1, LinkAssumption DEF InStep, LinkTypes
    <3>2. \A i \in 1..Len(h2m) : h2m'[i] = h2m[i]
      BY <1>1, <1>3, <2>1, AppendFacts DEF LinkTypes
    <3>3. Len(h2m') = Len(h2m) + 1 /\ h2m'[Len(h2m) + 1].seq = send_seq
          /\ Len(h2m) \in Nat
      BY <1>1, <1>3, <2>1, AppendFacts DEF LinkTypes
    <3>4. \A i \in 1..Len(h2m) : h2m[i].seq \in Nat
      BY <2>1, SeqNumbers
    <3>5. \A i \in 1..Len(receive_buf) : receive_buf[i].seq \in Nat
      BY <2>1, SeqNumbers
    <3>6. \A i \in 1..Len(receive_buf) : Near(receive_buf[i])'
      BY <3>5, <2>1, <1>0, <1>2, <1>n, SMTT(30) DEF WireInv, Near, Counters
    <3>7. \A i \in 1..Len(h2m') : Near(h2m[i])'
      BY <3>1, <3>2, <3>3, <3>4, <2>1, <1>0, <1>2, <1>n, SMTT(30) DEF WireInv, Near, Counters
    <3>8. \A i, j \in 1..Len(h2m') : i < j => Gap(h2m[i], h2m[j])'
      <4> SUFFICES ASSUME NEW i \in 1..Len(h2m), NEW j \in 1..Len(h2m) + 1,
                          i < j
                   PROVE  h2m[i].seq < h2m'[j].seq + MaxPending
        BY <3>2, <3>3, <1>n, SMTT(30) DEF Gap, Counters
      <4>1. CASE j \in 1..Len(h2m)
        BY <4>1, <3>2, <2>1 DEF WireInv, Gap
      <4>2. CASE j = Len(h2m) + 1
        BY <4>2, <3>3, <3>4, <2>1, <1>n DEF WireInv, Near, Counters
      <4> QED  BY <4>1, <4>2, <1>n DEF Counters
    <3>9. \A i \in 1..Len(receive_buf), j \in 1..Len(h2m') :
            Gap(receive_buf[i], h2m[j])'
      <4> SUFFICES ASSUME NEW i \in 1..Len(receive_buf),
                          NEW j \in 1..Len(h2m) + 1
                   PROVE  receive_buf[i].seq < h2m'[j].seq + MaxPending
        BY <3>3, <1>2 DEF Gap
      <4>1. CASE j \in 1..Len(h2m)
        BY <4>1, <3>2, <2>1 DEF WireInv, Gap
      <4>2. CASE j = Len(h2m) + 1
        BY <4>2, <3>3, <3>5, <2>1, <1>n DEF WireInv, Near, Counters
      <4> QED  BY <4>1, <4>2, <1>n, SMTT(30) DEF Counters
    <3>10. \A i, j \in 1..Len(receive_buf) :
             i < j => Gap(receive_buf[i], receive_buf[j])'
      BY <2>1, <1>2 DEF WireInv, Gap
    <3> QED
      BY <3>6, <3>7, <3>8, <3>9, <3>10, <1>2 DEF WireInv
  <2>4. FrameInv' /\ ExecInv'
    BY <2>1, <1>2 DEF FrameInv, ExecInv
  <2> QED  BY <2>2, <2>3, <2>4
<1> QED  BY <1>2, <1>4, <1>5, <1>6 DEF IndInv

\* A step of the firmware other than accepting a block: it may drop the first
\* block of its buffer, send a message and end a dispatch.
LEMMA McuStepInd ==
    ASSUME IndInv,
           UNCHANGED <<send_seq, receive_seq, sent_queue, notify_queue, h2m,
                       base, next_sequence, executed, resets>>,
           \/ receive_buf' = receive_buf
           \/ /\ receive_buf # <<>> /\ receive_buf' = Tail(receive_buf)
              /\ dispatching' = 0,
           dispatching' \in {0, dispatching},
           \/ m2h' = m2h
           \/ \E f \in Frames : /\ f.seq = next_sequence
                                /\ f.data \/ dispatching' = 0
                                /\ m2h' = Append(m2h, f)
    PROVE  IndInv'
<1>n. Counters /\ LinkTypes
  BY CountersAreNumbers DEF IndInv
<1>1. m2h' \in Seq(Frames)
  <2>1. m2h \in Seq(Frames)
    BY <1>n DEF LinkTypes
  <2>2. ASSUME NEW f \in Frames, m2h' = Append(m2h, f)
        PROVE  m2h' \in Seq(Frames)
    BY <2>1, <2>2, AppendFacts
  <2> QED  BY <2>1, <2>2
<1>2. receive_buf' \in Seq(Blocks)
  BY <1>n, TailFacts DEF LinkTypes
<1>3. LinkTypes' /\ SentWindow'
  BY <1>1, <1>2 DEF IndInv, LinkTypes, SentWindow
<1>4. ASSUME resets = 0
      PROVE  InStep' /\ WireInv' /\ FrameInv' /\ ExecInv'
  <2>1. InStep /\ WireInv /\ FrameInv /\ ExecInv
    BY <1>4 DEF IndInv
  <2>2. InStep' /\ ExecInv'
    BY <2>1 DEF InStep, ExecInv
  <2>3. WireInv'
    <3>1. CASE receive_buf' = receive_buf
      BY <3>1, <2>1 DEF WireInv, Near, Gap
    <3>2. CASE receive_buf # <<>> /\ receive_buf' = Tail(receive_buf)
      <4>1. /\ Len(receive_buf') = Len(receive_buf) - 1
            /\ \A i \in 1..Len(receive_buf') :
                 receive_buf'[i] = receive_buf[i + 1]
        BY <3>2, <1>n, TailFacts DEF LinkTypes
      <4>2. \A i \in 1..Len(receive_buf') : i + 1 \in 1..Len(receive_buf)
        BY <4>1, <1>n DEF Counters
      <4>3. \A i, j \in 1..Len(receive_buf') : i < j => i + 1 < j + 1
        BY <4>1, <1>n DEF Counters
      <4>4. \A i \in 1..Len(receive_buf') : Near(receive_buf[i])'
        BY <4>1, <4>2, <2>1 DEF WireInv, Near
      <4>5. \A i, j \in 1..Len(receive_buf') :
              i < j => Gap(receive_buf[i], receive_buf[j])'
        BY <4>1, <4>2, <4>3, <2>1 DEF WireInv, Gap
      <4>6. \A i \in 1..Len(receive_buf'), j \in 1..Len(h2m) :
              Gap(receive_buf[i], h2m[j])'
        BY <4>1, <4>2, <2>1 DEF WireInv, Gap
      <4>7. \A i \in 1..Len(h2m) : Near(h2m[i])'
        BY <2>1 DEF WireInv, Near
      <4>8. \A i, j \in 1..Len(h2m) : i < j => Gap(h2m[i], h2m[j])'
        BY <2>1 DEF WireInv, Gap
      <4> QED  BY <4>4, <4>5, <4>6, <4>7, <4>8 DEF WireInv
    <3> QED  BY <3>1, <3>2
  <2>4. FrameInv'
    <3>1. CASE m2h' = m2h
      BY <3>1, <2>1 DEF FrameInv
    <3>2. CASE \E f \in Frames : /\ f.seq = next_sequence
                                 /\ f.data \/ dispatching' = 0
                                 /\ m2h' = Append(m2h, f)
      <4>1. PICK f \in Frames : /\ f.seq = next_sequence
                                /\ f.data \/ dispatching' = 0
                                /\ m2h' = Append(m2h, f)
        BY <3>2
      <4>2. /\ Len(m2h') = Len(m2h) + 1 /\ m2h'[Len(m2h) + 1] = f
            /\ \A i \in 1..Len(m2h) : m2h'[i] = m2h[i]
        BY <4>1, <1>n, AppendFacts DEF LinkTypes
      <4>q. f.seq = next_sequence
        BY <4>1
      <4>3. \A i \in 1..Len(m2h') : i \in 1..Len(m2h) \/ i = Len(m2h) + 1
        BY <4>2, <1>n DEF Counters
      <4>4. \A i \in 1..Len(m2h') :
              /\ receive_seq <= m2h'[i].seq /\ m2h'[i].seq <= next_sequence
              /\ base <= m2h'[i].seq
              /\ dispatching' # 0 /\ ~m2h'[i].data
                   => m2h'[i].seq < next_sequence
        <5> SUFFICES ASSUME NEW i \in 1..Len(m2h')
                     PROVE  /\ receive_seq <= m2h'[i].seq
                            /\ m2h'[i].seq <= next_sequence
                            /\ base <= m2h'[i].seq
                            /\ dispatching' # 0 /\ ~m2h'[i].data
                                 => m2h'[i].seq < next_sequence
          OBVIOUS
        <5>1. CASE i \in 1..Len(m2h)
          BY <5>1, <4>2, <2>1 DEF FrameInv
        <5>2. CASE i = Len(m2h) + 1
          <6>1. m2h'[i] = f
            BY <5>2, <4>2
          <6>2. receive_seq <= f.seq /\ f.seq <= next_sequence /\ base <= f.seq
            BY <4>q, <2>1, <1>n DEF InStep, ExecInv, Counters
          <6> QED  BY <6>1, <6>2, <4>1
        <5> QED  BY <5>1, <5>2, <4>3
      <4>5. \A i, j \in 1..Len(m2h') :
              i < j => m2h'[i].seq <= m2h'[j].seq
        <5> SUFFICES ASSUME NEW i \in 1..Len(m2h'), NEW j \in 1..Len(m2h'),
                            i < j
                     PROVE  m2h'[i].seq <= m2h'[j].seq
          OBVIOUS
        <5>1. i \in 1..Len(m2h)
          BY <4>2, <1>n DEF Counters
        <5>2. CASE j \in 1..Len(m2h)
          BY <5>1, <5>2, <4>2, <2>1 DEF FrameInv
        <5>3. CASE j = Len(m2h) + 1
          <6>1. m2h'[j].seq = next_sequence
            BY <5>3, <4>q, <4>2
          <6>2. m2h[i].seq <= next_sequence
            BY <5>1, <2>1 DEF FrameInv
          <6> QED  BY <6>1, <6>2, <5>1, <4>2
        <5> QED  BY <5>2, <5>3, <4>3
      <4> QED  BY <4>4, <4>5 DEF FrameInv
    <3> QED  BY <3>1, <3>2
  <2> QED  BY <2>2, <2>3, <2>4
<1> QED  BY <1>3, <1>4 DEF IndInv

\* The first block of the wire is stored, damaged, truncated or lost.
LEMMA WireStepInd ==
    ASSUME IndInv,
           UNCHANGED <<send_seq, receive_seq, sent_queue, notify_queue, m2h,
                       base, next_sequence, dispatching, executed, resets>>,
           h2m # <<>>, h2m' = Tail(h2m),
           \/ receive_buf' = receive_buf
           \/ \E c \in Blocks : /\ c.seq = Head(h2m).seq
                               /\ receive_buf' = Append(receive_buf, c)
    PROVE  IndInv'
<1>n. Counters /\ LinkTypes
  BY CountersAreNumbers DEF IndInv
<1>1. /\ h2m' \in Seq(Blocks) /\ Len(h2m') = Len(h2m) - 1
      /\ 1 \in 1..Len(h2m) /\ Head(h2m) = h2m[1]
      /\ \A i \in 1..Len(h2m') : h2m'[i] = h2m[i + 1]
  BY <1>n, TailFacts DEF LinkTypes
<1>2. receive_buf' \in Seq(Blocks)
      /\ (receive_buf # <<>> => receive_buf' # <<>>)
  <2>1. ASSUME NEW c \in Blocks, receive_buf' = Append(receive_buf, c)
        PROVE  receive_buf' \in Seq(Blocks) /\ Len(receive_buf') # 0
    BY <2>1, <1>n, AppendFacts DEF LinkTypes
  <2> QED  BY <2>1, <1>n DEF LinkTypes
<1>3. LinkTypes' /\ SentWindow'
  BY <1>1, <1>2 DEF IndInv, LinkTypes, SentWindow
<1>4. ASSUME resets = 0
      PROVE  InStep' /\ WireInv' /\ FrameInv' /\ ExecInv'
  <2>1. InStep /\ WireInv /\ FrameInv /\ ExecInv
    BY <1>4 DEF IndInv
  <2>2. InStep' /\ ExecInv' /\ FrameInv'
    BY <2>1 DEF InStep, ExecInv, FrameInv
  <2>3. /\ \A i \in 1..Len(h2m') : i + 1 \in 1..Len(h2m) /\ 1 < i + 1
        /\ \A i, j \in 1..Len(h2m') : i < j => i + 1 < j + 1
    BY <1>1, <1>n, SMTT(30) DEF Counters
  <2>4. \A i \in 1..Len(h2m') : Near(h2m[i])'
    BY <1>1, <2>3, <2>1 DEF WireInv, Near
  <2>5. \A i, j \in 1..Len(h2m') : i < j => Gap(h2m[i], h2m[j])'
    BY <1>1, <2>3, <2>1 DEF WireInv, Gap
  <2>6. \A i \in 1..Len(receive_buf), j \in 1..Len(h2m') :
          Gap(receive_buf[i], h2m'[j])
    BY <1>1, <2>3, <2>1 DEF WireInv, Gap
  <2>7. CASE receive_buf' = receive_buf
    <3>1. \A i \in 1..Len(receive_buf') : Near(receive_buf[i])'
      BY <2>7, <2>1 DEF WireInv, Near
    <3>2. \A i, j \in 1..Len(receive_buf') :
            i < j => Gap(receive_buf[i], receive_buf[j])'
      BY <2>7, <2>1 DEF WireInv, Gap
    <3>3. \A i \in 1..Len(receive_buf'), j \in 1..Len(h2m') :
            Gap(receive_buf[i], h2m[j])'
      BY <2>7, <2>6 DEF Gap
    <3> QED  BY <3>1, <3>2, <3>3, <2>2, <2>4, <2>5 DEF WireInv
  <2>8. CASE \E c \in Blocks : /\ c.seq = Head(h2m).seq
                             /\ receive_buf' = Append(receive_buf, c)
    <3>1. PICK c \in Blocks : /\ c.seq = Head(h2m).seq
                             /\ receive_buf' = Append(receive_buf, c)
      BY <2>8
    <3>2. /\ Len(receive_buf') = Len(receive_buf) + 1
          /\ receive_buf'[Len(receive_buf) + 1] = c
          /\ \A i \in 1..Len(receive_buf) : receive_buf'[i] = receive_buf[i]
      BY <3>1, <1>n, AppendFacts DEF LinkTypes
    <3>3. c.seq = h2m[1].seq
      BY <3>1, <1>1
    <3>4. \A i \in 1..Len(receive_buf') :
            i \in 1..Len(receive_buf) \/ i = Len(receive_buf) + 1
      BY <3>2, <1>n DEF Counters
    <3>5. \A i, j \in 1..Len(receive_buf') :
            i < j => i \in 1..Len(receive_buf)
      BY <3>2, <1>n DEF Counters
    <3>6. Near(c) /\ \A i \in 1..Len(receive_buf) : Near(receive_buf[i])
      BY <3>3, <1>1, <2>1 DEF WireInv, Near
    <3>7. \A i \in 1..Len(receive_buf) : Gap(receive_buf[i], c)
      BY <3>3, <1>1, <2>1 DEF WireInv, Gap
    <3>8. \A j \in 1..Len(h2m') : Gap(c, h2m'[j])
      BY <3>3, <1>1, <2>3, <2>1 DEF WireInv, Gap
    <3>9. \A i \in 1..Len(receive_buf') : Near(receive_buf[i])'
      BY <3>2, <3>4, <3>6 DEF Near
    <3>10. \A i, j \in 1..Len(receive_buf') :
             i < j => Gap(receive_buf[i], receive_buf[j])'
      BY <3>2, <3>4, <3>5, <3>7, <2>1 DEF WireInv, Gap
    <3>11. \A i \in 1..Len(receive_buf'), j \in 1..Len(h2m') :
             Gap(receive_buf[i], h2m[j])'
      BY <3>2, <3>4, <3>8, <2>6 DEF Gap
    <3> QED  BY <3>9, <3>10, <3>11, <2>2, <2>4, <2>5 DEF WireInv
  <2> QED  BY <2>7, <2>8
<1> QED  BY <1>3, <1>4 DEF IndInv

\* A message to the host is lost or ignored.
LEMMA DropFrameInd ==
    ASSUME IndInv,
           UNCHANGED <<send_seq, receive_seq, sent_queue, notify_queue, h2m,
                       receive_buf, base, next_sequence, dispatching, executed,
                       resets>>,
           m2h # <<>>, m2h' = Tail(m2h)
    PROVE  IndInv'
<1>n. Counters /\ LinkTypes
  BY CountersAreNumbers DEF IndInv
<1>1. /\ m2h' \in Seq(Frames) /\ Len(m2h') = Len(m2h) - 1
      /\ \A i \in 1..Len(m2h') : m2h'[i] = m2h[i + 1]
  BY <1>n, TailFacts DEF LinkTypes
<1>2. /\ \A i \in 1..Len(m2h') : i + 1 \in 1..Len(m2h)
      /\ \A i, j \in 1..Len(m2h') : i < j => i + 1 < j + 1
  BY <1>1, <1>n DEF Counters
<1>3. LinkTypes' /\ SentWindow'
  BY <1>1 DEF IndInv, LinkTypes, SentWindow
<1>4. ASSUME resets = 0
      PROVE  InStep' /\ WireInv' /\ FrameInv' /\ ExecInv'
  <2>1. InStep /\ WireInv /\ FrameInv /\ ExecInv
    BY <1>4 DEF IndInv
  <2>2. InStep' /\ ExecInv' /\ WireInv'
    BY <2>1 DEF InStep, ExecInv, WireInv, Near, Gap
  <2>3. FrameInv'
    BY <2>1, <1>1, <1>2 DEF FrameInv
  <2> QED  BY <2>2, <2>3
<1> QED  BY <1>3, <1>4 DEF IndInv

\* The firmware accepts a block: comparing low bits, it accepts the block
\* next_sequence and no other.
LEMMA FindBlockInd ==
    ASSUME IndInv, FindBlock
    PROVE  /\ IndInv'
           /\ resets = 0 => /\ Head(receive_buf).seq = next_sequence
                            /\ next_sequence < send_seq
<1> DEFINE b == Head(receive_buf)
<1>n. Counters /\ LinkTypes
  BY CountersAreNumbers DEF IndInv
<1>1. /\ UNCHANGED <<send_seq, receive_seq, sent_queue, notify_queue, h2m, m2h,
                     receive_buf, base, resets>>
      /\ receive_buf # <<>>
      /\ next_sequence' = next_sequence + 1
      /\ dispatching' = b.seq /\ dispatching = 0
      /\ executed' = Append(executed, b.seq)
      /\ b.seq % SeqCount = next_sequence % SeqCount
  BY DEF FindBlock, InSequence, hostVars, txVars, ackVars
<1>2. b = receive_buf[1] /\ 1 \in 1..Len(receive_buf)
  BY <1>1, <1>n, TailFacts DEF LinkTypes
<1>3. b.seq \in Nat
  BY <1>2, <1>n, SeqNumbers
<1> HIDE DEF b
<1>4. /\ executed' \in Seq(Nat) /\ Len(executed') = Len(executed) + 1
      /\ \A i \in 1..Len(executed) : executed'[i] = executed[i]
      /\ executed'[Len(executed) + 1] = b.seq
  BY <1>1, <1>3, <1>n, AppendFacts DEF LinkTypes
<1>5. LinkTypes' /\ SentWindow'
  BY <1>1, <1>3, <1>4, <1>n DEF IndInv, LinkTypes, SentWindow
<1>6. ASSUME resets = 0
      PROVE  /\ InStep' /\ WireInv' /\ FrameInv' /\ ExecInv'
             /\ b.seq = next_sequence /\ next_sequence < send_seq
  <2>1. InStep /\ WireInv /\ FrameInv /\ ExecInv /\ SentWindow
    BY <1>6 DEF IndInv
  <2>2. Near(b)
    BY <2>1, <1>2 DEF WireInv
  <2>3. b.seq = next_sequence
    <3>1. next_sequence - b.seq < SeqCount
      BY <2>2 DEF Near
    <3>2. b.seq - next_sequence < SeqCount
      BY <2>1, <2>2, <1>3, <1>n DEF Near, InStep, SentWindow, Counters
    <3> QED  BY <3>1, <3>2, <1>1, <1>3, <1>n, SameLowBits, SMTT(30) DEF Counters
  <2>4. next_sequence < send_seq /\ 1 <= next_sequence
    BY <2>2, <2>3 DEF Near
  <2>5. InStep'
    BY <2>1, <2>4, <1>1, <1>n DEF InStep, Counters
  <2>6. FrameInv'
    <3>1. \A i \in 1..Len(m2h) : m2h[i].seq \in Nat
      BY <1>n, SeqNumbers
    <3> QED  BY <3>1, <2>1, <1>1, <1>n, SMTT(30) DEF FrameInv, Counters
  <2>7. ExecInv'
    <3>1. Len(executed') = next_sequence' - base'
      BY <2>1, <1>1, <1>4, <1>n DEF ExecInv, Counters
    <3>2. \A i \in 1..Len(executed') : executed'[i] = base + i - 1
      <4> SUFFICES ASSUME NEW i \in 1..(Len(executed) + 1)
                   PROVE  executed'[i] = base + i - 1
        BY <1>4
      <4>1. CASE i \in 1..Len(executed)
        BY <4>1, <1>4, <2>1 DEF ExecInv
      <4>2. CASE i = Len(executed) + 1
        BY <4>2, <1>4, <2>1, <2>3, <1>n DEF ExecInv, Counters
      <4> QED  BY <4>1, <4>2, <1>n DEF Counters
    <3>3. dispatching' = next_sequence' - 1
      BY <2>3, <1>1, <1>n DEF Counters
    <3> QED  BY <3>1, <3>2, <3>3, <1>1 DEF ExecInv
  <2>8. WireInv'
    <3>1. /\ \A i \in 1..Len(receive_buf) : receive_buf[i].seq \in Nat
          /\ \A i \in 1..Len(h2m) : h2m[i].seq \in Nat
      BY <1>n, SeqNumbers
    <3>2. \A i \in 1..Len(receive_buf) :
            next_sequence < receive_buf[i].seq + MaxPending
      <4> SUFFICES ASSUME NEW i \in 1..Len(receive_buf)
                   PROVE  next_sequence < receive_buf[i].seq + MaxPending
        OBVIOUS
      <4>1. CASE i = 1
        BY <4>1, <1>2, <2>3, <1>n, LinkAssumption DEF Counters
      <4>2. CASE 1 < i
        BY <4>2, <1>2, <2>1, <2>3 DEF WireInv, Gap
      <4> QED  BY <4>1, <4>2, <1>n DEF Counters
    <3>3. \A j \in 1..Len(h2m) : next_sequence < h2m[j].seq + MaxPending
      BY <1>2, <2>1, <2>3 DEF WireInv, Gap
    <3>4. \A i \in 1..Len(receive_buf) : Near(receive_buf[i])'
      BY <3>1, <3>2, <2>1, <1>1, <1>n, SMTT(30) DEF WireInv, Near, Counters
    <3>5. \A i \in 1..Len(h2m) : Near(h2m[i])'
      BY <3>1, <3>3, <2>1, <1>1, <1>n, SMTT(30) DEF WireInv, Near, Counters
    <3>6. /\ \A i, j \in 1..Len(receive_buf) :
               i < j => Gap(receive_buf[i], receive_buf[j])'
          /\ \A i, j \in 1..Len(h2m) : i < j => Gap(h2m[i], h2m[j])'
          /\ \A i \in 1..Len(receive_buf), j \in 1..Len(h2m) :
               Gap(receive_buf[i], h2m[j])'
      BY <2>1, <1>1 DEF WireInv, Gap
    <3> QED  BY <3>4, <3>5, <3>6, <1>1 DEF WireInv
  <2> QED  BY <2>3, <2>4, <2>5, <2>6, <2>7, <2>8
<1> QED  BY <1>1, <1>5, <1>6 DEF IndInv, b

\* Joining two sequences.
LEMMA ConcatFacts ==
    ASSUME NEW S, NEW s \in Seq(S), NEW t \in Seq(S)
    PROVE  /\ s \o t \in Seq(S) /\ Len(s) \in Nat /\ Len(t) \in Nat
           /\ Len(s \o t) = Len(s) + Len(t)
           /\ \A i \in 1..Len(s) : (s \o t)[i] = s[i]
           /\ \A i \in 1..Len(t) : (s \o t)[Len(s) + i] = t[i]
  BY SMT

\* A function on an initial segment is a sequence.
LEMMA FunctionIsSeq ==
    ASSUME NEW S, NEW n \in Nat, NEW g \in [1..n -> S]
    PROVE  g \in Seq(S) /\ Len(g) = n
  BY SMT

\* What tcflush() leaves of the output is a beginning of it.
LEMMA FlushedFacts ==
    ASSUME LinkTypes, NEW kept \in 0..Len(h2m), NEW cut \in BOOLEAN,
           cut => kept < Len(h2m)
    PROVE  /\ Flushed(kept, cut) \in Seq(Blocks)
           /\ Len(Flushed(kept, cut)) <= Len(h2m)
           /\ \A i \in 1..Len(Flushed(kept, cut)) :
                /\ Flushed(kept, cut)[i].seq = h2m[i].seq
                /\ Flushed(kept, cut)[i].len = h2m[i].len
                /\ Flushed(kept, cut)[i].re = h2m[i].re
<1>0. h2m \in Seq(Blocks) /\ Len(h2m) \in Nat
  BY DEF LinkTypes
<1> DEFINE p == SubSeq(h2m, 1, kept)
<1>1. /\ p \in Seq(Blocks) /\ Len(p) = kept
      /\ \A i \in 1..kept : p[i] = h2m[i]
  BY <1>0
<1>2. CASE ~cut
  <2>1. Flushed(kept, cut) = p \o <<>>
    BY <1>2 DEF Flushed
  <2>2. p \o <<>> = p
    BY <1>1
  <2> HIDE DEF p
  <2> QED  BY <2>1, <2>2, <1>0, <1>1
<1>3. CASE cut
  <2> DEFINE d == Damaged(h2m[kept + 1])
  <2>1. h2m[kept + 1] \in Blocks
    BY <1>0, <1>3
  <2>2. /\ d \in Blocks /\ d.seq = h2m[kept + 1].seq
        /\ d.len = h2m[kept + 1].len /\ d.re = h2m[kept + 1].re
    BY <2>1 DEF Damaged, Blocks
  <2>3. Flushed(kept, cut) = p \o <<d>>
    BY <1>3 DEF Flushed
  <2> HIDE DEF p, d
  <2>4. <<d>> \in Seq(Blocks) /\ Len(<<d>>) = 1 /\ <<d>>[1] = d
    BY <2>2
  <2>5. /\ p \o <<d>> \in Seq(Blocks) /\ Len(p \o <<d>>) = kept + 1
        /\ \A i \in 1..kept : (p \o <<d>>)[i] = p[i]
        /\ (p \o <<d>>)[kept + 1] = d
    BY <2>4, <1>1, ConcatFacts
  <2>6. \A i \in 1..(kept + 1) : i \in 1..kept \/ i = kept + 1
    BY <1>0
  <2> QED  BY <2>2, <2>3, <2>5, <2>6, <1>0, <1>1, <1>3
<1> QED  BY <1>2, <1>3

\* The host retransmits its sent queue.
LEMMA RetransmitInd ==
    ASSUME IndInv, NEW kept \in 0..Len(h2m), NEW cut \in BOOLEAN,
           NEW nak \in Nat, Retransmit(kept, cut, nak)
    PROVE  IndInv'
<1> DEFINE F == Flushed(kept, cut)
<1>n. Counters /\ LinkTypes /\ SentWindow
  BY CountersAreNumbers DEF IndInv
<1>1. /\ UNCHANGED <<send_seq, receive_seq, notify_queue, m2h, receive_buf, base,
                     next_sequence, dispatching, executed, resets>>
      /\ h2m' = F \o Resend /\ (cut => kept < Len(h2m))
      /\ sent_queue' = [i \in DOMAIN sent_queue |->
                         Counted(sent_queue[i], nak)]
  BY DEF Retransmit, ackVars, mcuVars
<1>2. /\ F \in Seq(Blocks) /\ Len(F) <= Len(h2m) /\ Len(F) \in Nat
      /\ \A i \in 1..Len(F) : F[i].seq = h2m[i].seq
  <2>1. /\ F \in Seq(Blocks) /\ Len(F) <= Len(h2m)
        /\ \A i \in 1..Len(F) : F[i].seq = h2m[i].seq
    BY <1>1, <1>n, FlushedFacts, Zenon
  <2> HIDE DEF F
  <2> QED  BY <2>1
<1> HIDE DEF F
<1>3. \A i \in 1..Len(sent_queue) : sent_queue[i] \in SentBlocks
  BY <1>n, SeqNumbers
<1>4. /\ Resend \in Seq(Blocks) /\ Len(Resend) = Len(sent_queue)
      /\ \A i \in 1..Len(sent_queue) : Resend[i].seq = sent_queue[i].seq
  <2>1. DOMAIN sent_queue = 1..Len(sent_queue) /\ Len(sent_queue) \in Nat
    BY <1>n DEF LinkTypes
  <2>2. \A i \in 1..Len(sent_queue) :
          /\ OnWire(sent_queue[i], TRUE) \in Blocks
          /\ OnWire(sent_queue[i], TRUE).seq = sent_queue[i].seq
    BY <1>3 DEF OnWire, Blocks, SentBlocks
  <2>3. Resend = [i \in 1..Len(sent_queue) |-> OnWire(sent_queue[i], TRUE)]
    BY <2>1 DEF Resend
  <2>4. Resend \in [1..Len(sent_queue) -> Blocks]
    BY <2>2, <2>3
  <2>5. Resend \in Seq(Blocks) /\ Len(Resend) = Len(sent_queue)
    BY <2>1, <2>4, FunctionIsSeq
  <2> QED  BY <2>2, <2>3, <2>5
<1>5. /\ sent_queue' \in Seq(SentBlocks) /\ Len(sent_queue') = Len(sent_queue)
      /\ \A i \in 1..Len(sent_queue) : sent_queue'[i].seq = sent_queue[i].seq
  <2> DEFINE up(q) == Counted(q, nak)
  <2>1. DOMAIN sent_queue = 1..Len(sent_queue) /\ Len(sent_queue) \in Nat
    BY <1>n DEF LinkTypes
  <2>2. \A q \in SentBlocks : up(q) \in SentBlocks /\ up(q).seq = q.seq
    BY DEF SentBlocks, Counted
  <2>3. sent_queue' = [i \in 1..Len(sent_queue) |-> up(sent_queue[i])]
    BY <1>1, <2>1
  <2> HIDE DEF up
  <2>4. sent_queue' \in [1..Len(sent_queue) -> SentBlocks]
    BY <2>2, <2>3, <1>3
  <2>5. sent_queue' \in Seq(SentBlocks) /\ Len(sent_queue') = Len(sent_queue)
    BY <2>1, <2>4, FunctionIsSeq
  <2> QED  BY <2>2, <2>3, <2>5, <1>3
<1>6. /\ h2m' \in Seq(Blocks) /\ Len(h2m') = Len(F) + Len(sent_queue)
      /\ \A i \in 1..Len(F) : h2m'[i].seq = h2m[i].seq
      /\ \A i \in 1..Len(sent_queue) :
           h2m'[Len(F) + i].seq = receive_seq + i - 1
  <2>1. /\ F \o Resend \in Seq(Blocks)
        /\ Len(F \o Resend) = Len(F) + Len(Resend)
        /\ \A i \in 1..Len(F) : (F \o Resend)[i] = F[i]
        /\ \A i \in 1..Len(Resend) : (F \o Resend)[Len(F) + i] = Resend[i]
    <3>1. F \in Seq(Blocks) /\ Resend \in Seq(Blocks)
      BY <1>2, <1>4
    <3> QED  BY <3>1, ConcatFacts
  <2> QED  BY <2>1, <1>1, <1>2, <1>4, <1>n DEF SentWindow
<1>7. LinkTypes' /\ SentWindow'
  BY <1>1, <1>5, <1>6, <1>n DEF LinkTypes, SentWindow
<1>8. ASSUME resets = 0
      PROVE  InStep' /\ WireInv' /\ FrameInv' /\ ExecInv'
  <2>1. InStep /\ WireInv /\ FrameInv /\ ExecInv
    BY <1>8 DEF IndInv
  <2>2. InStep' /\ FrameInv' /\ ExecInv'
    BY <2>1, <1>1 DEF InStep, FrameInv, ExecInv
  <2>3. /\ \A i \in 1..Len(receive_buf) : receive_buf[i].seq \in Nat
        /\ \A i \in 1..Len(h2m) : h2m[i].seq \in Nat
    BY <1>n, SeqNumbers
  <2>4. \A k \in 1..Len(h2m') :
          \/ k \in 1..Len(F) /\ k \in 1..Len(h2m) /\ h2m'[k].seq = h2m[k].seq
          \/ /\ k > Len(F) /\ h2m'[k].seq \in Nat
             /\ receive_seq <= h2m'[k].seq /\ h2m'[k].seq < send_seq
    <3> SUFFICES ASSUME NEW k \in 1..Len(h2m'), ~(k \in 1..Len(F))
                 PROVE  /\ k > Len(F) /\ h2m'[k].seq \in Nat
                        /\ receive_seq <= h2m'[k].seq /\ h2m'[k].seq < send_seq
      BY <1>2, <1>6, <1>n DEF Counters
    <3>1. k - Len(F) \in 1..Len(sent_queue) /\ k = Len(F) + (k - Len(F))
      BY <1>2, <1>6, <1>n DEF Counters
    <3>2. h2m'[k].seq = receive_seq + (k - Len(F)) - 1
      BY <3>1, <1>6
    <3> QED  BY <3>1, <3>2, <1>2, <1>n, SMTT(30) DEF Counters, SentWindow
  <2>5. \A k \in 1..Len(h2m') : Near(h2m[k])'
    <3> SUFFICES ASSUME NEW k \in 1..Len(h2m')
                 PROVE  /\ 1 <= h2m'[k].seq /\ h2m'[k].seq < send_seq
                        /\ next_sequence - h2m'[k].seq < SeqCount
      BY <1>1 DEF Near
    <3>1. CASE k \in 1..Len(F) /\ k \in 1..Len(h2m) /\ h2m'[k].seq = h2m[k].seq
      BY <3>1, <2>1 DEF WireInv, Near
    <3>2. CASE /\ h2m'[k].seq \in Nat
               /\ receive_seq <= h2m'[k].seq /\ h2m'[k].seq < send_seq
      <4>1. /\ \/ next_sequence <= send_seq
               \/ receive_seq = 1 /\ next_sequence = base
            /\ send_seq - receive_seq <= MaxPending /\ base <= SeqCount
            /\ 1 <= receive_seq
        BY <2>1, <1>n DEF InStep, SentWindow, Counters
      <4>2. CASE next_sequence <= send_seq
        BY <4>1, <4>2, <3>2, <1>n, SMTT(30) DEF Counters
      <4>3. CASE receive_seq = 1 /\ next_sequence = base
        BY <4>1, <4>3, <3>2, <1>n, SMTT(30) DEF Counters
      <4> QED  BY <4>1, <4>2, <4>3
    <3> QED  BY <3>1, <3>2, <2>4
  <2>6. \A i, j \in 1..Len(h2m') : i < j => Gap(h2m[i], h2m[j])'
    <3> SUFFICES ASSUME NEW i \in 1..Len(h2m'), NEW j \in 1..Len(h2m'), i < j
                 PROVE  h2m'[i].seq < h2m'[j].seq + MaxPending
      BY DEF Gap
    <3>1. CASE j \in 1..Len(F)
      <4>1. i \in 1..Len(F) /\ i \in 1..Len(h2m) /\ j \in 1..Len(h2m)
        BY <3>1, <1>2, <1>n DEF Counters
      <4>2. h2m'[i].seq = h2m[i].seq /\ h2m'[j].seq = h2m[j].seq
        BY <4>1, <3>1, <1>6
      <4>3. h2m[i].seq < h2m[j].seq + MaxPending
        BY <4>1, <2>1 DEF WireInv, Gap
      <4> QED  BY <4>2, <4>3
    <3>2. CASE ~(j \in 1..Len(F))
      <4>1. h2m'[j].seq \in Nat /\ receive_seq <= h2m'[j].seq
        BY <3>2, <2>4
      <4>2. h2m'[i].seq \in Nat /\ h2m'[i].seq < send_seq
        BY <2>1, <2>3, <2>4 DEF WireInv, Near
      <4>3. send_seq - receive_seq <= MaxPending
        BY <1>n DEF SentWindow
      <4>4. send_seq \in Nat /\ receive_seq \in Nat /\ MaxPending \in Nat
        BY <1>n DEF Counters
      <4> QED  BY <4>1, <4>2, <4>3, <4>4
    <3> QED  BY <3>1, <3>2
  <2>7. \A i \in 1..Len(receive_buf), j \in 1..Len(h2m') :
          Gap(receive_buf[i], h2m[j])'
    <3> SUFFICES ASSUME NEW i \in 1..Len(receive_buf), NEW j \in 1..Len(h2m')
                 PROVE  receive_buf[i].seq < h2m'[j].seq + MaxPending
      BY <1>1 DEF Gap
    <3>1. CASE j \in 1..Len(F)
      BY <3>1, <2>1, <2>4, <1>2 DEF WireInv, Gap
    <3>2. CASE ~(j \in 1..Len(F))
      <4>1. h2m'[j].seq \in Nat /\ receive_seq <= h2m'[j].seq
        BY <3>2, <2>4
      <4>2. receive_buf[i].seq \in Nat /\ receive_buf[i].seq < send_seq
        BY <2>1, <2>3 DEF WireInv, Near
      <4> QED  BY <4>1, <4>2, <1>n, SMTT(30) DEF SentWindow, Counters
    <3> QED  BY <3>1, <3>2
  <2>8. /\ \A i \in 1..Len(receive_buf) : Near(receive_buf[i])'
        /\ \A i, j \in 1..Len(receive_buf) :
             i < j => Gap(receive_buf[i], receive_buf[j])'
    BY <2>1, <1>1 DEF WireInv, Near, Gap
  <2> QED  BY <2>2, <2>5, <2>6, <2>7, <2>8, <1>1 DEF WireInv
<1> QED  BY <1>1, <1>7, <1>8 DEF IndInv

\* The first frame carries a sequence number less than SeqCount beyond
\* receive_seq, so that the host recovers it from the low bits.
LEMMA RSeqIsExact ==
    ASSUME IndInv, resets = 0, m2h # <<>>
    PROVE  /\ RSeq(Head(m2h)) = m2h[1].seq
           /\ m2h[1].seq \in Nat /\ 1 \in 1..Len(m2h)
           /\ receive_seq <= m2h[1].seq /\ m2h[1].seq <= next_sequence
           /\ base <= m2h[1].seq
<1>n. Counters /\ LinkTypes
  BY CountersAreNumbers DEF IndInv
<1>1. InStep /\ FrameInv /\ SentWindow
  BY DEF IndInv
<1>2. 1 \in 1..Len(m2h) /\ Head(m2h) = m2h[1]
  BY <1>n, TailFacts DEF LinkTypes
<1>3. m2h[1].seq \in Nat
  BY <1>2, <1>n, SeqNumbers
<1>4. /\ receive_seq <= m2h[1].seq /\ m2h[1].seq <= next_sequence
      /\ base <= m2h[1].seq
  BY <1>1, <1>2 DEF FrameInv
<1>5. next_sequence - receive_seq < SeqCount
  BY <1>1, <1>n DEF InStep, SentWindow, Counters
<1>6. m2h[1].seq - receive_seq \in Nat /\ m2h[1].seq - receive_seq < SeqCount
  BY <1>3, <1>4, <1>5, <1>n DEF Counters
<1>7. (m2h[1].seq - receive_seq) % SeqCount = m2h[1].seq - receive_seq
  BY <1>6, <1>n, SmallRemainder DEF Counters
<1>8. RSeq(Head(m2h)) = receive_seq + (m2h[1].seq - receive_seq)
  BY <1>2, <1>7 DEF RSeq
<1> QED  BY <1>2, <1>3, <1>4, <1>8, <1>n DEF Counters

\* The host handles a message.
LEMMA HandleMessageInd ==
    ASSUME IndInv, HandleMessage
    PROVE  IndInv'
<1> DEFINE rseq == RSeq(Head(m2h))
           n == rseq - receive_seq
<1>n. Counters /\ LinkTypes /\ SentWindow
  BY CountersAreNumbers DEF IndInv
<1>1. /\ UNCHANGED <<h2m, receive_buf, base, next_sequence, dispatching, executed,
                     resets>>
      /\ m2h # <<>> /\ m2h' = Tail(m2h)
      /\ receive_seq' = rseq
      /\ notify_queue' \subseteq notify_queue
  BY DEF HandleMessage, UpdateReceiveSeq, mcuVars
<1>2. /\ send_seq' = IF n <= Len(sent_queue) THEN send_seq ELSE rseq
      /\ sent_queue' = IF n <= Len(sent_queue)
                       THEN SubSeq(sent_queue, n + 1, Len(sent_queue))
                       ELSE <<>>
  BY DEF HandleMessage, UpdateReceiveSeq
<1>3. rseq \in Nat /\ n \in Nat /\ rseq = receive_seq + n /\ rseq # 0
  <2>1. Head(m2h).seq \in Nat /\ Head(m2h) = m2h[1]
    BY <1>1, <1>n, SeqNumbers, TailFacts DEF LinkTypes
  <2>2. (Head(m2h).seq - receive_seq) \in Int
    BY <2>1, <1>n DEF Counters
  <2>3. (Head(m2h).seq - receive_seq) % SeqCount \in 0..(SeqCount - 1)
    BY <2>2, <1>n, DivMod DEF Counters
  <2> QED  BY <2>3, <1>n DEF RSeq, Counters
<1> HIDE DEF rseq, n
<1>4. /\ m2h' \in Seq(Frames) /\ Len(m2h') = Len(m2h) - 1
      /\ \A i \in 1..Len(m2h') : m2h'[i] = m2h[i + 1]
  BY <1>1, <1>n, TailFacts DEF LinkTypes
<1>5. SentWindow' /\ sent_queue' \in Seq(SentBlocks)
      /\ send_seq' \in Nat \ {0} /\ send_seq <= send_seq'
      /\ rseq <= send_seq' /\ (rseq > send_seq => send_seq' = rseq)
  <2>1. CASE n <= Len(sent_queue)
    <3>1. /\ sent_queue' \in Seq(SentBlocks)
          /\ Len(sent_queue') = Len(sent_queue) - n
          /\ \A i \in 1..(Len(sent_queue) - n) :
               sent_queue'[i] = sent_queue[i + n]
      <4>1. sent_queue \in Seq(SentBlocks) /\ Len(sent_queue) \in Nat
        BY <1>n DEF LinkTypes
      <4>2. sent_queue' = SubSeq(sent_queue, n + 1, Len(sent_queue))
        BY <1>2, <2>1
      <4> QED  BY <4>1, <4>2, <1>3, <2>1
    <3>2. send_seq' = send_seq
      BY <1>2, <2>1
    <3>3. /\ Len(sent_queue') = send_seq' - receive_seq'
          /\ send_seq' - receive_seq' <= MaxPending /\ rseq <= send_seq
      BY <3>1, <3>2, <2>1, <1>1, <1>3, <1>n DEF SentWindow, Counters
    <3>4. ASSUME NEW i \in 1..(Len(sent_queue) - n)
          PROVE  sent_queue'[i].seq = rseq + i - 1
      <4>1. i + n \in 1..Len(sent_queue)
        BY <1>3, <2>1, <1>n DEF Counters
      <4>2. sent_queue[i + n].seq = receive_seq + (i + n) - 1
        BY <4>1, <1>n DEF SentWindow
      <4>3. sent_queue'[i] = sent_queue[i + n]
        BY <3>1
      <4> QED  BY <4>2, <4>3, <1>3, <1>n DEF Counters
    <3>5. SentWindow'
      BY <3>1, <3>3, <3>4, <1>1 DEF SentWindow
    <3> QED  BY <3>1, <3>2, <3>3, <3>5, <1>3, <1>n DEF Counters
  <2>2. CASE ~(n <= Len(sent_queue))
    <3>1. sent_queue' = <<>> /\ send_seq' = rseq
      BY <1>2, <2>2
    <3>2. Len(sent_queue') = 0 /\ sent_queue' \in Seq(SentBlocks)
      BY <3>1
    <3>3. send_seq < rseq
      BY <2>2, <1>3, <1>n DEF SentWindow, Counters
    <3>4. SentWindow'
      BY <3>1, <3>2, <1>1, <1>3, <1>n DEF SentWindow, Counters
    <3> QED  BY <3>1, <3>2, <3>3, <3>4, <1>3, <1>n DEF Counters
  <2> QED  BY <2>1, <2>2
<1>6. LinkTypes'
  BY <1>1, <1>3, <1>4, <1>5, <1>n DEF LinkTypes
<1>7. ASSUME resets = 0
      PROVE  InStep' /\ WireInv' /\ FrameInv' /\ ExecInv'
  <2>1. InStep /\ WireInv /\ FrameInv /\ ExecInv
    BY <1>7 DEF IndInv
  <2>2. /\ rseq = m2h[1].seq /\ 1 \in 1..Len(m2h)
        /\ receive_seq <= rseq /\ rseq <= next_sequence /\ base <= rseq
    BY <1>1, <1>7, RSeqIsExact DEF rseq
  <2>3. InStep'
    <3>1. CASE next_sequence <= send_seq
      BY <3>1, <2>2, <1>1, <1>3, <1>5, <1>n DEF InStep, Counters
    <3>2. CASE receive_seq = 1 /\ next_sequence = base
      BY <3>2, <2>2, <1>1, <1>3, <1>5, <1>n DEF InStep, Counters
    <3> QED  BY <3>1, <3>2, <2>1 DEF InStep
  <2>4. WireInv'
    <3>1. /\ \A i \in 1..Len(receive_buf) : receive_buf[i].seq \in Nat
          /\ \A i \in 1..Len(h2m) : h2m[i].seq \in Nat
      BY <1>n, SeqNumbers
    <3>2. \A i \in 1..Len(receive_buf) : Near(receive_buf[i])'
      <4>1. \A i \in 1..Len(receive_buf) :
              /\ 1 <= receive_buf[i].seq /\ receive_buf[i].seq < send_seq
              /\ next_sequence - receive_buf[i].seq < SeqCount
        BY <2>1 DEF WireInv, Near
      <4>2. \A i \in 1..Len(receive_buf) : receive_buf[i].seq < send_seq'
        BY <3>1, <4>1, <1>5, <1>n DEF Counters
      <4> QED  BY <4>1, <4>2, <1>1 DEF Near
    <3>3. \A i \in 1..Len(h2m) : Near(h2m[i])'
      BY <3>1, <2>1, <1>1, <1>5, <1>n DEF WireInv, Near, Counters
    <3>4. /\ \A i, j \in 1..Len(receive_buf) :
               i < j => Gap(receive_buf[i], receive_buf[j])'
          /\ \A i, j \in 1..Len(h2m) : i < j => Gap(h2m[i], h2m[j])'
          /\ \A i \in 1..Len(receive_buf), j \in 1..Len(h2m) :
               Gap(receive_buf[i], h2m[j])'
      BY <2>1, <1>1 DEF WireInv, Gap
    <3> QED  BY <3>2, <3>3, <3>4, <1>1 DEF WireInv
  <2>5. FrameInv'
    <3>1. /\ \A i \in 1..Len(m2h') : i + 1 \in 1..Len(m2h) /\ 1 < i + 1
          /\ \A i, j \in 1..Len(m2h') : i < j => i + 1 < j + 1
      BY <1>4, <1>n DEF Counters
    <3>2. \A i \in 1..Len(m2h') : rseq <= m2h'[i].seq
      BY <3>1, <2>1, <2>2, <1>4 DEF FrameInv
    <3>3. \A i \in 1..Len(m2h') :
            /\ m2h'[i].seq <= next_sequence /\ base <= m2h'[i].seq
            /\ dispatching # 0 /\ ~m2h'[i].data
                 => m2h'[i].seq < next_sequence
      BY <3>1, <2>1, <1>4 DEF FrameInv
    <3>4. \A i, j \in 1..Len(m2h') : i < j => m2h'[i].seq <= m2h'[j].seq
      BY <3>1, <2>1, <1>4 DEF FrameInv
    <3> QED  BY <3>2, <3>3, <3>4, <1>1 DEF FrameInv
  <2>6. ExecInv'
    BY <2>1, <1>1 DEF ExecInv
  <2> QED  BY <2>3, <2>4, <2>5, <2>6
<1> QED  BY <1>1, <1>5, <1>6, <1>7 DEF IndInv

-----------------------------------------------------------------------------
(* The invariant holds *)

\* Storing a block keeps its number, and its length unless it is truncated.
LEMMA StoreFacts ==
    ASSUME NEW b \in Blocks, receive_buf' = Store(b)
    PROVE  \/ receive_buf' = receive_buf
           \/ \E c \in Blocks : /\ c.seq = b.seq /\ c.re = b.re /\ c.len <= b.len
                               /\ receive_buf' = Append(receive_buf, c)
<1> DEFINE room == RxSize - Bytes(receive_buf)
           e == Damaged(b)
           d == [e EXCEPT !.len = room]
<1>1. e \in Blocks /\ e.seq = b.seq /\ e.re = b.re
  BY DEF Damaged, Blocks
<1>l. b.len \in 1..MaxLen /\ b.len \in Nat
  BY LinkAssumption DEF Blocks
<1>2. CASE room \in 1..(b.len - 1)
  <2>1. room \in 1..MaxLen
    BY <1>2, LinkAssumption DEF Blocks
  <2> HIDE DEF e, room
  <2>2. d \in Blocks /\ d.seq = b.seq /\ d.re = b.re /\ d.len = room
    BY <1>1, <2>1 DEF Blocks
  <2>3. room <= b.len
    BY <1>2, <1>l
  <2>4. receive_buf' = Append(receive_buf, b) \/ receive_buf' = Append(receive_buf, d)
    BY <1>2 DEF Store, e, room
  <2> HIDE DEF d
  <2>5. b.len <= b.len
    BY <1>l
  <2> QED  BY <2>2, <2>3, <2>4, <2>5
<1>3. CASE ~(room \in 1..(b.len - 1))
  <2>1. b.len <= b.len
    BY <1>l
  <2>2. receive_buf' = receive_buf \/ receive_buf' = Append(receive_buf, b)
    BY <1>3 DEF Store
  <2> QED  BY <2>1, <2>2
<1> QED  BY <1>2, <1>3

\* Every step of the link keeps the invariant.
LEMMA NextInd == IndInv /\ [Next]_vars => IndInv'
<1> SUFFICES ASSUME IndInv, [Next]_vars
             PROVE  IndInv'
  OBVIOUS
<1>n. Counters /\ LinkTypes
  BY CountersAreNumbers DEF IndInv
<1>1. ASSUME NEW len \in Lens \cup {IdentifyLen}, NEW notify \in Notify \cup {TRUE},
             SendBlock(len, notify)
      PROVE  IndInv'
  BY <1>1, SendBlockInd, LinkAssumption
<1>2. ASSUME NEW kept \in 0..Len(h2m), NEW cut \in BOOLEAN,
             RetransmitNak(kept, cut) \/ RetransmitTimeout(kept, cut)
      PROVE  IndInv'
  BY <1>2, RetransmitInd DEF RetransmitNak, RetransmitTimeout
<1>3. CASE HandleInvalid
  BY <1>3, DropFrameInd
     DEF HandleInvalid, hostVars, txVars, ackVars, mcuVars
<1>4. CASE HandleMessage
  BY <1>4, HandleMessageInd
<1>5. CASE SetReceiveWindow
  BY <1>5, McuStepInd DEF SetReceiveWindow, txVars, ackVars, mcuVars
<1>6. CASE Deliver \/ DamageBlock \/ LoseBlock
  <2>1. /\ UNCHANGED <<send_seq, receive_seq, sent_queue, notify_queue, m2h,
                       base, next_sequence, dispatching, executed, resets>>
        /\ h2m # <<>> /\ h2m' = Tail(h2m)
    BY <1>6 DEF Deliver, DamageBlock, LoseBlock, WireUnchanged, hostVars,
                txVars, ackVars
  <2>2. Head(h2m) \in Blocks
    BY <2>1, <1>n, TailFacts DEF LinkTypes
  <2>3. Damaged(Head(h2m)) \in Blocks /\ Damaged(Head(h2m)).seq = Head(h2m).seq
    BY <2>2 DEF Damaged, Blocks
  <2>4. \/ receive_buf' = receive_buf
        \/ \E c \in Blocks : /\ c.seq = Head(h2m).seq
                            /\ receive_buf' = Append(receive_buf, c)
    <3>1. CASE receive_buf' = Store(Head(h2m))
      BY <3>1, <2>2, StoreFacts
    <3>2. CASE receive_buf' = Store(Damaged(Head(h2m)))
      BY <3>2, <2>3, StoreFacts
    <3>3. CASE receive_buf' = receive_buf
      BY <3>3
    <3> QED  BY <1>6, <3>1, <3>2, <3>3 DEF Deliver, DamageBlock, LoseBlock
  <2> QED  BY <2>1, <2>4, WireStepInd
<1>7. CASE LoseFrame
  BY <1>7, DropFrameInd
     DEF LoseFrame, WireUnchanged, hostVars, txVars, ackVars
<1>8. ASSUME NEW data \in BOOLEAN, Sendf(next_sequence, data)
      PROVE  \/ m2h' = m2h
             \/ \E f \in Frames : /\ f.seq = next_sequence /\ f.data = data
                                 /\ m2h' = Append(m2h, f)
  <2> DEFINE f == [seq |-> next_sequence, data |-> data, req |-> dispatching]
  <2>1. f \in Frames /\ f.seq = next_sequence /\ f.data = data
    BY <1>n DEF Frames, Counters
  <2>2. m2h' = m2h \/ m2h' = Append(m2h, f)
    BY <1>8 DEF Sendf
  <2> HIDE DEF f
  <2> QED  BY <2>1, <2>2
<1>9. CASE FindBad \/ FindLost
  <2>1. /\ UNCHANGED <<send_seq, receive_seq, sent_queue, notify_queue, h2m, base,
                       next_sequence, executed, resets, dispatching>>
        /\ receive_buf # <<>> /\ receive_buf' = Tail(receive_buf)
        /\ dispatching = 0
        /\ m2h' = m2h \/ Sendf(next_sequence, FALSE)
    BY <1>9 DEF FindBad, FindLost, hostVars, txVars, ackVars
  <2> QED  BY <2>1, <1>8, McuStepInd
<1>10. CASE FindBlock
  BY <1>10, FindBlockInd
<1>11. CASE SendData
  <2>1. /\ UNCHANGED <<send_seq, receive_seq, sent_queue, notify_queue, h2m, base,
                       next_sequence, executed, resets, dispatching, receive_buf>>
        /\ Sendf(next_sequence, TRUE)
    BY <1>11 DEF SendData, hostVars, txVars, ackVars, mcuVars
  <2> QED  BY <2>1, <1>8, McuStepInd
<1>12. CASE DispatchDone
  <2>1. /\ UNCHANGED <<send_seq, receive_seq, sent_queue, notify_queue, h2m, base,
                       next_sequence, executed, resets>>
        /\ receive_buf' = Tail(receive_buf) /\ receive_buf # <<>>
        /\ dispatching' = 0 /\ Sendf(next_sequence, FALSE)
    BY <1>12, <1>n DEF DispatchDone, hostVars, txVars, ackVars, LinkTypes
  <2> QED  BY <2>1, <1>8, McuStepInd
<1>13. CASE DispatchShutdown
  BY <1>13, McuStepInd DEF DispatchShutdown, hostVars, txVars, ackVars
<1>14. CASE McuReset
  <2>1. /\ UNCHANGED <<send_seq, receive_seq, sent_queue, notify_queue, h2m, base,
                       executed>>
        /\ receive_buf' = <<>> /\ next_sequence' = 0 /\ dispatching' = 0
        /\ resets' = resets + 1
        /\ m2h' \in {m2h, Append(m2h, [seq |-> 0, data |-> TRUE, req |-> 0])}
    BY <1>14, SMTT(30) DEF McuReset, hostVars, txVars, ackVars
  <2>2. [seq |-> 0, data |-> TRUE, req |-> 0] \in Frames
    BY DEF Frames
  <2>3. m2h' \in Seq(Frames)
    <3>1. ASSUME NEW f \in Frames, m2h' = Append(m2h, f)
          PROVE  m2h' \in Seq(Frames)
      BY <3>1, <1>n, AppendFacts DEF LinkTypes
    <3> QED  BY <2>1, <2>2, <3>1, <1>n DEF LinkTypes
  <2>a. LinkTypes'
    BY <2>1, <2>3, <1>n DEF LinkTypes, Counters
  <2>b. SentWindow'
    <3>1. /\ sent_queue' = sent_queue /\ send_seq' = send_seq
          /\ receive_seq' = receive_seq
      BY <2>1
    <3>2. SentWindow
      BY DEF IndInv
    <3> QED  BY <3>1, <3>2 DEF SentWindow
  <2>4. LinkTypes' /\ SentWindow'
    BY <2>a, <2>b
  <2>5. resets' # 0
    BY <2>1, <1>n DEF Counters
  <2> QED  BY <2>4, <2>5 DEF IndInv
<1>15. CASE UNCHANGED vars
  BY <1>15, McuStepInd DEF vars, hostVars, txVars, ackVars, mcuVars
<1> QED
  BY <1>1, <1>2, <1>3, <1>4, <1>5, <1>6, <1>7, <1>9, <1>10, <1>11, <1>12,
     <1>13, <1>14, <1>15
     DEF Next

\* The invariant of the link.
THEOREM LinkInvariant == Spec => []IndInv
  BY InitInd, NextInd, PTL DEF Spec

\* Blocks are executed exactly once and in order, whatever is lost, damaged
\* or retransmitted (command_find_block against build_and_send_command and
\* retransmit_event).
THEOREM ExactlyOnce == Spec => []InOrderExactlyOnce
<1>1. IndInv => InOrderExactlyOnce
  <2> SUFFICES ASSUME IndInv, resets = 0, NEW i \in DOMAIN executed
               PROVE  executed[i] = base + i - 1
    BY DEF InOrderExactlyOnce
  <2>1. i \in 1..Len(executed)
    BY DEF IndInv, LinkTypes
  <2> QED  BY <2>1 DEF IndInv, ExecInv
<1> QED  BY <1>1, LinkInvariant, PTL

\* A block the host counts as acknowledged was executed (update_receive_seq).
THEOREM AckedIsExecuted == Spec => []NoAckedBlockLost
<1>1. IndInv => NoAckedBlockLost
  <2> SUFFICES ASSUME IndInv, resets = 0, NEW s \in base..(receive_seq - 1)
               PROVE  s \in Range(executed)
    BY DEF NoAckedBlockLost
  <2>n. Counters /\ InStep /\ ExecInv /\ executed \in Seq(Nat)
    BY CountersAreNumbers DEF IndInv, LinkTypes
  <2>1. s - base + 1 \in 1..Len(executed)
    BY <2>n DEF Counters, InStep, ExecInv
  <2>2. executed[s - base + 1] = base + (s - base + 1) - 1
    BY <2>1, <2>n DEF ExecInv
  <2>3. executed[s - base + 1] = s
    BY <2>2, <2>n DEF Counters
  <2>4. s - base + 1 \in DOMAIN executed
    BY <2>1, <2>n
  <2> QED  BY <2>3, <2>4 DEF Range
<1> QED  BY <1>1, LinkInvariant, PTL

\* Only handle_message() wakes senders.
LEMMA OnlyHandleMessageWakes ==
    ASSUME IndInv, [Next]_vars, ~HandleMessage
    PROVE  notify_queue \subseteq notify_queue'
<1>1. ASSUME NEW len, NEW notify, SendBlock(len, notify)
      PROVE  notify_queue \subseteq notify_queue'
  BY <1>1 DEF SendBlock
<1>2. ASSUME NEW kept, NEW cut,
             RetransmitNak(kept, cut) \/ RetransmitTimeout(kept, cut)
      PROVE  notify_queue' = notify_queue
  BY <1>2 DEF RetransmitNak, RetransmitTimeout, Retransmit
<1>3. CASE HandleInvalid \/ SetReceiveWindow \/ UNCHANGED vars
  BY <1>3 DEF HandleInvalid, SetReceiveWindow, vars, hostVars, txVars
<1>4. CASE Deliver \/ DamageBlock \/ LoseBlock \/ LoseFrame
  BY <1>4 DEF Deliver, DamageBlock, LoseBlock, LoseFrame, WireUnchanged,
              hostVars, txVars
<1>5. CASE FindBad \/ FindLost \/ FindBlock \/ SendData \/ DispatchDone
           \/ DispatchShutdown \/ McuReset
  BY <1>5 DEF FindBad, FindLost, FindBlock, SendData, DispatchDone,
              DispatchShutdown, McuReset, hostVars, txVars
<1> QED  BY <1>1, <1>2, <1>3, <1>4, <1>5 DEF Next

\* A sender is not woken before the dispatch of its block has ended, although
\* messages sent during the dispatch already carry the next sequence number
\* (wake_seq in handle_message).
THEOREM WokenAfterDispatch == Spec => NotifiedAfterDispatch
<1> DEFINE P == \A s \in notify_queue \ notify_queue' :
                  resets = 0 /\ receive_seq' # 1 /\ s >= base
                    => s < next_sequence /\ dispatching # s
<1>1. IndInv /\ [Next]_vars => [P]_vars
  <2> SUFFICES ASSUME IndInv, [Next]_vars,
                      NEW s \in notify_queue, s \notin notify_queue',
                      resets = 0, receive_seq' # 1, s >= base
               PROVE  s < next_sequence /\ dispatching # s
    OBVIOUS
  <2> DEFINE f == m2h[1]
             rseq == RSeq(Head(m2h))
             wake == rseq - 1 - (IF Head(m2h).data THEN 1 ELSE 0)
  <2>1. HandleMessage
    BY OnlyHandleMessageWakes
  <2>2. /\ m2h # <<>> /\ receive_seq' = rseq
        /\ wake < 0 \/ s <= wake
    BY <2>1 DEF HandleMessage, UpdateReceiveSeq, WakeSeq
  <2>n. Counters /\ LinkTypes /\ s \in Nat /\ FrameInv /\ ExecInv
    BY CountersAreNumbers DEF IndInv, LinkTypes
  <2>3. /\ rseq = f.seq /\ f.seq \in Nat /\ 1 \in 1..Len(m2h)
        /\ receive_seq <= f.seq /\ f.seq <= next_sequence
    BY <2>2, RSeqIsExact
  <2>4. Head(m2h) = f
    BY <2>2, <2>n, TailFacts DEF LinkTypes
  <2>5. ~f.data /\ dispatching # 0 => f.seq < next_sequence
    BY <2>3, <2>n DEF FrameInv
  <2>6. dispatching # 0 => dispatching = next_sequence - 1
    BY <2>n DEF ExecInv
  <2>7. rseq >= 2
    BY <2>2, <2>3, <2>n DEF Counters
  <2>8. 1 <= s
    BY <2>n DEF Counters
  <2>9. CASE Head(m2h).data
    <3>1. wake = rseq - 2
      BY <2>9, <2>3
    <3> HIDE DEF wake, rseq, f
    <3> QED  BY <3>1, <2>2, <2>3, <2>6, <2>7, <2>8, <2>n DEF Counters
  <2>10. CASE ~Head(m2h).data
    <3>1. wake = rseq - 1
      BY <2>10, <2>3
    <3>2. dispatching # 0 => f.seq < next_sequence
      BY <2>4, <2>5, <2>10
    <3> HIDE DEF wake, rseq, f
    <3> QED  BY <3>1, <3>2, <2>2, <2>3, <2>6, <2>7, <2>8, <2>n DEF Counters
  <2> QED  BY <2>9, <2>10
<1> QED  BY <1>1, LinkInvariant, PTL DEF Spec, NotifiedAfterDispatch

-----------------------------------------------------------------------------
(* The link implements the reliable channel *)

\* The blocks still to execute, at the ends of the range.
LEMMA NumbersFacts ==
    ASSUME NEW from \in Nat, NEW to \in Nat
    PROVE  /\ to <= from => Numbers(from, to) = <<>>
           /\ from <= to => Numbers(from, to + 1)
                              = Append(Numbers(from, to), to)
           /\ from < to => /\ Numbers(from, to) # <<>>
                           /\ Head(Numbers(from, to)) = from
                           /\ Tail(Numbers(from, to)) = Numbers(from + 1, to)
           /\ \A i \in DOMAIN Numbers(from, to) : Numbers(from, to)[i] >= from
<1>1. ASSUME to <= from
      PROVE  Numbers(from, to) = <<>>
  <2>1. 1..(to - from) = {}
    BY <1>1
  <2> QED  BY <2>1 DEF Numbers
<1>2. ASSUME from <= to
      PROVE  /\ Numbers(from, to) \in Seq(Nat)
             /\ Len(Numbers(from, to)) = to - from
             /\ \A i \in 1..(to - from) : Numbers(from, to)[i] = from + i - 1
  <2>1. to - from \in Nat
    BY <1>2
  <2>2. Numbers(from, to) \in [1..(to - from) -> Nat]
    BY DEF Numbers
  <2>3. \A i \in 1..(to - from) : Numbers(from, to)[i] = from + i - 1
    BY DEF Numbers
  <2> QED  BY <2>1, <2>2, <2>3, FunctionIsSeq
<1>3. ASSUME from <= to
      PROVE  Numbers(from, to + 1) = Append(Numbers(from, to), to)
  <2> DEFINE s == Numbers(from, to)
             t == Append(s, to)
  <2>1. s \in Seq(Nat) /\ Len(s) = to - from
    BY <1>2, <1>3
  <2>2. /\ t \in Seq(Nat) /\ Len(t) = (to + 1) - from
        /\ \A i \in 1..Len(s) : t[i] = s[i]
        /\ t[Len(s) + 1] = to
    BY <2>1, <1>3, AppendFacts
  <2>3. \A i \in 1..((to + 1) - from) : t[i] = from + i - 1
    <3> SUFFICES ASSUME NEW i \in 1..((to + 1) - from)
                 PROVE  t[i] = from + i - 1
      OBVIOUS
    <3> HIDE DEF t
    <3>1. CASE i \in 1..(to - from)
      BY <3>1, <2>1, <2>2 DEF Numbers
    <3>2. CASE i = (to + 1) - from
      BY <3>2, <2>1, <2>2, <1>3
    <3> QED  BY <3>1, <3>2
  <2>4. t = [i \in 1..((to + 1) - from) |-> t[i]]
    <3> HIDE DEF t
    <3> QED  BY <2>2
  <2> QED
    <3> HIDE DEF t
    <3>1. t = Numbers(from, to + 1)
      BY <2>3, <2>4 DEF Numbers
    <3> QED  BY <3>1 DEF t
<1>4. ASSUME from < to
      PROVE  /\ Numbers(from, to) # <<>>
             /\ Head(Numbers(from, to)) = from
             /\ Tail(Numbers(from, to)) = Numbers(from + 1, to)
  <2> DEFINE s == Numbers(from, to)
             t == Tail(s)
  <2>1. /\ s \in Seq(Nat) /\ Len(s) = to - from
        /\ \A i \in 1..(to - from) : s[i] = from + i - 1
    BY <1>2, <1>4
  <2> HIDE DEF s
  <2>2. s # <<>> /\ s[1] = from
    BY <2>1, <1>4
  <2>3. /\ Head(s) = s[1] /\ t \in Seq(Nat) /\ Len(t) = Len(s) - 1
        /\ \A i \in 1..Len(t) : t[i] = s[i + 1]
    BY <2>1, <2>2, TailFacts
  <2> HIDE DEF t
  <2>4. \A i \in 1..(to - (from + 1)) : t[i] = (from + 1) + i - 1
    BY <2>1, <2>3, <1>4
  <2>5. t = [i \in 1..(to - (from + 1)) |-> t[i]]
    BY <2>1, <2>3, <1>4
  <2>6. t = Numbers(from + 1, to)
    BY <2>4, <2>5 DEF Numbers
  <2> QED  BY <2>2, <2>3, <2>6 DEF s, t
<1>5. \A i \in DOMAIN Numbers(from, to) : Numbers(from, to)[i] >= from
  BY DEF Numbers
<1> HIDE DEF Numbers
<1> QED  BY <1>1, <1>3, <1>4, <1>5

\* A step of the link is a step of the channel.
LEMMA StepImplements ==
    ASSUME IndInv, resets = 0, [Next]_vars, ~McuReset
    PROVE  [Channel!Next]_(Channel!chan)
<1> DEFINE todo == Numbers(next_sequence, send_seq)
<1>n. Counters /\ LinkTypes /\ SentWindow /\ InStep
  BY CountersAreNumbers DEF IndInv
<1>1. ASSUME NEW len, NEW notify, SendBlock(len, notify)
      PROVE  Channel!Submit
  <2>1. /\ send_seq' = send_seq + 1
        /\ UNCHANGED <<receive_seq, next_sequence, executed>>
    BY <1>1 DEF SendBlock, ackVars, mcuVars
  <2>2. CASE next_sequence <= send_seq
    <3>1. Numbers(next_sequence, send_seq + 1) = Append(todo, send_seq)
      BY <2>2, <1>n, NumbersFacts DEF Counters
    <3>2. /\ send_seq' - 1 = (send_seq - 1) + 1
          /\ (send_seq - 1) + 1 = send_seq
      BY <2>1, <1>n DEF Counters
    <3> QED  BY <3>1, <3>2, <2>1 DEF Channel!Submit
  <2>3. CASE ~(next_sequence <= send_seq)
    <3>1. receive_seq - 1 = 0
      BY <2>3, <1>n DEF InStep, Counters
    <3>2. todo = <<>> /\ Numbers(next_sequence, send_seq + 1) = <<>>
      <4>1. /\ next_sequence \in Nat /\ send_seq \in Nat /\ send_seq + 1 \in Nat
            /\ send_seq <= next_sequence /\ send_seq + 1 <= next_sequence
        BY <2>3, <1>n DEF Counters
      <4> QED  BY <4>1, NumbersFacts
    <3>3. send_seq' - 1 = (send_seq - 1) + 1
      BY <2>1, <1>n DEF Counters
    <3> QED  BY <3>1, <3>2, <3>3, <2>1 DEF Channel!Submit, Channel!Connected
  <2> QED  BY <2>2, <2>3
<1>2. CASE FindBlock
  <2>1. /\ UNCHANGED <<send_seq, receive_seq>>
        /\ next_sequence' = next_sequence + 1
        /\ executed' = Append(executed, Head(receive_buf).seq)
    BY <1>2 DEF FindBlock, hostVars, txVars, ackVars
  <2>2. Head(receive_buf).seq = next_sequence /\ next_sequence < send_seq
    BY <1>2, FindBlockInd
  <2>3. /\ todo # <<>> /\ Head(todo) = next_sequence
        /\ Tail(todo) = Numbers(next_sequence + 1, send_seq)
    BY <2>2, <1>n, NumbersFacts DEF Counters
  <2>4. Channel!Execute
    BY <2>1, <2>2, <2>3 DEF Channel!Execute
  <2> QED  BY <2>4 DEF Channel!Next
<1>3. CASE HandleMessage
  <2> DEFINE rseq == RSeq(Head(m2h))
             n == rseq - receive_seq
  <2>1. /\ m2h # <<>> /\ receive_seq' = rseq
        /\ rseq = receive_seq \/ rseq <= send_seq \/ receive_seq = 1
        /\ send_seq' = IF n <= Len(sent_queue) THEN send_seq ELSE rseq
        /\ UNCHANGED <<next_sequence, executed>>
    BY <1>3 DEF HandleMessage, UpdateReceiveSeq, mcuVars
  <2>2. rseq \in Nat /\ receive_seq <= rseq /\ rseq <= next_sequence
    BY <2>1, RSeqIsExact
  <2> HIDE DEF rseq
  <2>3. send_seq' = IF rseq <= send_seq THEN send_seq ELSE rseq
    BY <2>1, <2>2, <1>n DEF SentWindow, Counters
  <2>4. Numbers(next_sequence, send_seq') = todo
    <3>1. CASE rseq <= send_seq
      BY <3>1, <2>3
    <3>2. CASE ~(rseq <= send_seq)
      <4>1. send_seq' = rseq /\ send_seq <= next_sequence
        BY <3>2, <2>2, <2>3, <1>n DEF Counters
      <4>2. next_sequence \in Nat /\ send_seq \in Nat
        BY <1>n DEF Counters
      <4>3. Numbers(next_sequence, rseq) = <<>> /\ todo = <<>>
        BY <4>1, <4>2, <2>2, NumbersFacts
      <4> QED  BY <4>1, <4>3
    <3> QED  BY <3>1, <3>2
  <2>5. CASE rseq = receive_seq
    <3>1. rseq <= send_seq
      BY <2>5, <1>n DEF SentWindow, Counters
    <3>2. UNCHANGED <<send_seq, receive_seq, next_sequence, executed>>
      BY <2>1, <2>3, <2>5, <3>1
    <3> QED  BY <3>2 DEF Channel!chan
  <2>6. CASE rseq # receive_seq
    <3>1. rseq - 1 > receive_seq - 1
      BY <2>6, <2>2, <1>n DEF Counters
    <3>2. \A i \in DOMAIN todo : todo[i] > rseq - 1
      BY <2>2, <1>n DEF Numbers, Counters
    <3>3. CASE receive_seq - 1 # 0
      <4>1. rseq <= send_seq
        BY <3>3, <2>1, <2>6, <1>n DEF Counters
      <4>2. rseq - 1 <= send_seq - 1 /\ send_seq' = send_seq
        BY <4>1, <2>2, <2>3, <1>n DEF Counters
      <4> QED  BY <4>2, <3>1, <3>2, <3>3, <2>1, <2>4
               DEF Channel!Next, Channel!Acknowledge, Channel!Connected
    <3>4. CASE receive_seq - 1 = 0
      <4>1. send_seq' - 1 = IF rseq - 1 > send_seq - 1 THEN rseq - 1
                            ELSE send_seq - 1
        BY <2>2, <2>3, <1>n DEF Counters
      <4> QED  BY <4>1, <3>1, <3>2, <3>4, <2>1, <2>4
               DEF Channel!Next, Channel!Acknowledge, Channel!Connected
    <3> QED  BY <3>3, <3>4
  <2> QED  BY <2>5, <2>6
<1>4. ASSUME UNCHANGED <<send_seq, receive_seq, next_sequence, executed>>
      PROVE  [Channel!Next]_(Channel!chan)
  BY <1>4 DEF Channel!chan
<1>5. ASSUME NEW kept, NEW cut,
             RetransmitNak(kept, cut) \/ RetransmitTimeout(kept, cut)
      PROVE  UNCHANGED <<send_seq, receive_seq, next_sequence, executed>>
  BY <1>5 DEF RetransmitNak, RetransmitTimeout, Retransmit, ackVars, mcuVars
<1>6. CASE HandleInvalid \/ SetReceiveWindow \/ UNCHANGED vars
  BY <1>4, <1>6 DEF HandleInvalid, SetReceiveWindow, vars, hostVars, txVars,
                    ackVars, mcuVars
<1>7. CASE Deliver \/ DamageBlock \/ LoseBlock \/ LoseFrame
  BY <1>4, <1>7 DEF Deliver, DamageBlock, LoseBlock, LoseFrame, WireUnchanged,
                    hostVars, txVars, ackVars
<1>8. CASE FindBad \/ FindLost \/ SendData \/ DispatchDone \/ DispatchShutdown
  BY <1>4, <1>8 DEF FindBad, FindLost, SendData, DispatchDone,
                    DispatchShutdown, hostVars, txVars, ackVars, mcuVars
<1>9. ASSUME NEW len, NEW notify, SendBlock(len, notify)
      PROVE  [Channel!Next]_(Channel!chan)
  BY <1>1, <1>9 DEF Channel!Next
<1> QED  BY <1>2, <1>3, <1>4, <1>5, <1>6, <1>7, <1>8, <1>9 DEF Next

\* With a firmware that does not restart, everything the host's serialqueue
\* and the firmware's console do is a step of ReliableChannel: submission in
\* order, execution exactly once, acknowledgement after execution.
THEOREM LinkImplementsChannel ==
    ASSUME MaxResets = 0
    PROVE  Spec => ImplementsChannel
<1> DEFINE NoReset == resets = 0
<1>1. Init => Channel!Init /\ NoReset
  <2> SUFFICES ASSUME Init
               PROVE  Channel!Init /\ NoReset
    OBVIOUS
  <2>1. next_sequence \in Nat /\ send_seq \in Nat /\ send_seq <= next_sequence
    BY LinkAssumption DEF Init
  <2>2. Numbers(next_sequence, send_seq) = <<>>
    BY <2>1, NumbersFacts
  <2> QED  BY <2>2 DEF Init, Channel!Init
<1>2. IndInv /\ NoReset /\ [Next]_vars => NoReset' /\ [Channel!Next]_(Channel!chan)
  <2> SUFFICES ASSUME IndInv, NoReset, [Next]_vars
               PROVE  NoReset' /\ [Channel!Next]_(Channel!chan)
    OBVIOUS
  <2>1. ~McuReset
    BY LinkAssumption DEF McuReset
  <2>2. resets' = resets
    BY <2>1 DEF Next, vars, mcuVars, SendBlock, RetransmitNak,
                RetransmitTimeout, Retransmit, HandleInvalid, HandleMessage,
                SetReceiveWindow, Deliver, DamageBlock, LoseBlock, LoseFrame,
                WireUnchanged, FindBad, FindLost, FindBlock, SendData,
                DispatchDone, DispatchShutdown
  <2> QED  BY <2>1, <2>2, StepImplements
<1> QED  BY <1>1, <1>2, LinkInvariant, PTL
         DEF Spec, ImplementsChannel, Channel!Spec

-----------------------------------------------------------------------------
(* The sender's own books *)

\* The remaining types: the sender's numbers, ...
SenderTypes ==
    /\ last_ack_seq \in Nat /\ ignore_nak_seq \in Nat
    /\ retransmit_seq \in Nat /\ rtt_sample_seq \in Nat
    /\ last_ack_bytes \in 0..MaxLen /\ last_receive_sent_time \in Nat
    /\ receive_window \in {0, RxSize}
    /\ retransmit_timer \in {"never", "armed", "now"}
    /\ identified \in BOOLEAN

\* ... and the flag and the counters of the firmware and the wire.
WireTypes ==
    /\ need_valid \in BOOLEAN
    /\ faults \in 0..MaxFaults /\ resets \in 0..MaxResets

\* The bytes are accounted for, and the timer runs while blocks are out.
Accounted ==
    /\ need_ack_bytes = Bytes(sent_queue)
    /\ (retransmit_timer = "never") <=> (sent_queue = <<>>)

\* A block that was sent again is before retransmit_seq; after the second nak
\* it is before ignore_nak_seq too, so that no third nak is heeded.
Again ==
    /\ \A i \in 1..Len(sent_queue) :
         /\ sent_queue[i].naks <= 2
         /\ sent_queue[i].re \/ sent_queue[i].naks >= 1
              => sent_queue[i].seq < retransmit_seq
         /\ sent_queue[i].naks = 2 => sent_queue[i].seq < ignore_nak_seq
    /\ retransmit_timer = "now" => receive_seq > ignore_nak_seq

\* Blocks from the one being timed on were sent once, and the time kept is that
\* of the last acknowledged block.
Sampled ==
    /\ rtt_sample_seq # 0 =>
         \A i \in 1..Len(sent_queue) :
           sent_queue[i].seq >= rtt_sample_seq => ~sent_queue[i].re
    /\ last_receive_sent_time \in {0, receive_seq - 1}

\* A message sent from inside a dispatch carries the number after the block.
Asked ==
    resets = 0 =>
      \A i \in 1..Len(m2h) : m2h[i].req # 0 => m2h[i].req = m2h[i].seq - 1

SenderInv == IndInv /\ SenderTypes /\ WireTypes /\ Accounted /\ Again /\ Sampled /\ Asked

\* A queue of blocks has a length in bytes.
LEMMA SentMeasured ==
    ASSUME NEW s \in Seq(SentBlocks)
    PROVE  Measured(s)
<1>1. \A b \in SentBlocks : b.len \in Nat
  BY LinkAssumption DEF SentBlocks
<1>2. Len(s) \in Nat /\ \A i \in 1..Len(s) : s[i] \in SentBlocks
  OBVIOUS
<1> QED  BY <1>1, <1>2 DEF Measured

\* The fields of a block in the sent queue.
LEMMA SentFields ==
    ASSUME IndInv
    PROVE  \A i \in 1..Len(sent_queue) :
             /\ sent_queue[i].seq \in Nat /\ sent_queue[i].len \in 1..MaxLen
             /\ sent_queue[i].re \in BOOLEAN /\ sent_queue[i].naks \in Nat
             /\ sent_queue[i].seq = receive_seq + i - 1
             /\ receive_seq <= sent_queue[i].seq /\ sent_queue[i].seq < send_seq
<1>1. \A i \in 1..Len(sent_queue) : sent_queue[i] \in SentBlocks
  BY DEF IndInv, LinkTypes
<1>2. \A b \in SentBlocks : /\ b.seq \in Nat /\ b.len \in 1..MaxLen
                            /\ b.re \in BOOLEAN /\ b.naks \in Nat
  BY DEF SentBlocks
<1>3. \A i \in 1..Len(sent_queue) : sent_queue[i].seq = receive_seq + i - 1
  BY DEF IndInv, SentWindow
<1>4. \A i \in 1..Len(sent_queue) :
        receive_seq <= receive_seq + i - 1 /\ receive_seq + i - 1 < send_seq
  BY CountersAreNumbers, SMTT(30) DEF IndInv, SentWindow, Counters
<1> QED  BY <1>1, <1>2, <1>3, <1>4

\* Steps of the wire and the firmware leave the books alone.
LEMMA SameBooks ==
    ASSUME SenderTypes, Accounted, Again, Sampled, UNCHANGED hostVars
    PROVE  SenderTypes' /\ Accounted' /\ Again' /\ Sampled'
<1>1. UNCHANGED <<send_seq, sent_queue, rtt_sample_seq, need_ack_bytes, retransmit_timer>>
  BY DEF hostVars, txVars
<1>2. UNCHANGED <<receive_seq, last_ack_seq, last_ack_bytes,
             last_receive_sent_time, identified>>
  BY DEF hostVars, ackVars
<1>3. UNCHANGED <<ignore_nak_seq, retransmit_seq, receive_window>>
  BY DEF hostVars, resendVars
<1>4. SenderTypes'
  BY <1>1, <1>2, <1>3 DEF SenderTypes
<1>5. Accounted'
  BY <1>1 DEF Accounted
<1>6. Again'
  BY <1>1, <1>2, <1>3 DEF Again
<1>7. Sampled'
  BY <1>1, <1>2 DEF Sampled
<1> QED  BY <1>4, <1>5, <1>6, <1>7

\* The host sends a block.
LEMMA SendBlockBooks ==
    ASSUME SenderInv, NEW len \in 1..MaxLen, NEW notify \in BOOLEAN,
           SendBlock(len, notify)
    PROVE  SenderTypes' /\ Accounted' /\ Again' /\ Sampled'
<1> DEFINE b == [seq |-> send_seq, len |-> len, re |-> FALSE, naks |-> 0]
           q == sent_queue
<1>n. Counters /\ q \in Seq(SentBlocks)
  BY CountersAreNumbers DEF SenderInv, IndInv, LinkTypes
<1>1. /\ sent_queue' = Append(q, b)
      /\ need_ack_bytes' = need_ack_bytes + len
      /\ rtt_sample_seq' = IF rtt_sample_seq = 0 THEN send_seq ELSE rtt_sample_seq
      /\ retransmit_timer' = IF q = <<>> THEN "armed" ELSE retransmit_timer
  BY DEF SendBlock
<1>2. UNCHANGED <<receive_seq, last_ack_seq, last_ack_bytes, last_receive_sent_time,
                  identified, ignore_nak_seq, retransmit_seq, receive_window>>
  BY DEF SendBlock, ackVars, resendVars
<1>3. b \in SentBlocks /\ b.seq = send_seq /\ b.len = len /\ b.re = FALSE /\ b.naks = 0
  BY <1>n DEF SentBlocks, Counters
<1> HIDE DEF b
<1>4. /\ Len(sent_queue') = Len(q) + 1
      /\ \A i \in 1..Len(q) : sent_queue'[i] = q[i]
      /\ sent_queue'[Len(q) + 1] = b
      /\ sent_queue' \in Seq(SentBlocks) /\ Len(q) \in Nat
  BY <1>1, <1>3, <1>n, AppendFacts
<1>5. \A i \in 1..(Len(q) + 1) : i \in 1..Len(q) \/ i = Len(q) + 1
  BY <1>4
<1>6. SenderTypes'
  BY <1>1, <1>2, <1>n DEF SenderInv, SenderTypes, Counters
<1>7. Accounted'
  <2>1. Measured(q)
    BY <1>n, SentMeasured
  <2>2. Bytes(sent_queue') = Bytes(q) + len
    <3>1. PICK s : s = sent_queue'
      OBVIOUS
    <3>2. /\ Len(s) = Len(q) + 1 /\ s[Len(q) + 1].len = len /\ len \in Nat
          /\ \A i \in 1..Len(q) : s[i].len = q[i].len
      BY <3>1, <1>3, <1>4
    <3>3. Bytes(s) = Bytes(q) + s[Len(q) + 1].len
      BY <2>1, <3>2, BytesAppend
    <3> QED  BY <3>1, <3>2, <3>3
  <2>4. sent_queue' # <<>> /\ retransmit_timer' # "never"
    <3>1. sent_queue' # <<>>
      BY <1>4
    <3>2. q # <<>> => retransmit_timer # "never"
      BY DEF SenderInv, Accounted
    <3> QED  BY <3>1, <3>2, <1>1
  <2>5. need_ack_bytes' = Bytes(sent_queue')
    BY <2>2, <1>1 DEF SenderInv, Accounted
  <2> QED  BY <2>4, <2>5 DEF Accounted
<1>8. Again'
  <2>1. ASSUME NEW i \in 1..Len(sent_queue')
        PROVE  /\ sent_queue'[i].naks <= 2
               /\ sent_queue'[i].re \/ sent_queue'[i].naks >= 1
                    => sent_queue'[i].seq < retransmit_seq
               /\ sent_queue'[i].naks = 2 => sent_queue'[i].seq < ignore_nak_seq
    <3>1. CASE i \in 1..Len(q)
      BY <3>1, <1>4 DEF SenderInv, Again
    <3>2. CASE i = Len(q) + 1
      <4>1. sent_queue'[i].naks = 0 /\ sent_queue'[i].re = FALSE
        BY <3>2, <1>3, <1>4
      <4> QED  BY <4>1
    <3> QED  BY <3>1, <3>2, <1>4, <1>5
  <2>2. retransmit_timer' = "now" => receive_seq > ignore_nak_seq
    BY <1>1 DEF SenderInv, Again
  <2> QED  BY <2>1, <2>2, <1>2 DEF Again
<1>9. Sampled'
  <2>1. ASSUME NEW i \in 1..Len(sent_queue'), sent_queue'[i].seq >= rtt_sample_seq',
               sent_queue'[i].re
        PROVE  FALSE
    <3>1. CASE i \in 1..Len(q)
      <4>1. q[i].seq < send_seq /\ q[i].seq \in Nat
        BY <3>1, SentFields DEF SenderInv
      <4>2. sent_queue'[i] = q[i]
        BY <3>1, <1>4
      <4>3. rtt_sample_seq # 0
        BY <4>1, <4>2, <2>1, <1>1, <1>n DEF Counters
      <4>4. rtt_sample_seq' = rtt_sample_seq
        BY <4>3, <1>1
      <4> QED  BY <4>2, <4>3, <4>4, <3>1, <2>1 DEF SenderInv, Sampled
    <3>2. CASE i = Len(q) + 1
      BY <3>2, <2>1, <1>3, <1>4
    <3> QED  BY <3>1, <3>2, <1>4, <1>5
  <2>2. last_receive_sent_time' \in {0, receive_seq' - 1}
    BY <1>2 DEF SenderInv, Sampled
  <2> QED  BY <2>1, <2>2 DEF Sampled
<1> QED  BY <1>6, <1>7, <1>8, <1>9

\* The host sends its queue again.
LEMMA RetransmitBooks ==
    ASSUME SenderInv, NEW kept, NEW cut, NEW nak \in {0, 1},
           Retransmit(kept, cut, nak), ignore_nak_seq' \in Nat,
           \A i \in 1..Len(sent_queue) :
             /\ sent_queue[i].naks + nak <= 2
             /\ sent_queue[i].naks + nak = 2 => sent_queue[i].seq < ignore_nak_seq',
           sent_queue # <<>>
    PROVE  SenderTypes' /\ Accounted' /\ Again' /\ Sampled'
<1> DEFINE q == sent_queue
<1>n. Counters /\ q \in Seq(SentBlocks) /\ DOMAIN q = 1..Len(q) /\ Len(q) \in Nat
  BY CountersAreNumbers DEF SenderInv, IndInv, LinkTypes
<1>1. /\ sent_queue' = [i \in DOMAIN q |-> Counted(q[i], nak)]
      /\ retransmit_seq' = send_seq /\ rtt_sample_seq' = 0
      /\ retransmit_timer' = "armed" /\ need_ack_bytes' = need_ack_bytes
  BY DEF Retransmit
<1>2. UNCHANGED <<receive_seq, last_ack_seq, last_ack_bytes, last_receive_sent_time,
                  identified, receive_window>>
  BY DEF Retransmit, ackVars
<1>3. /\ Len(sent_queue') = Len(q)
      /\ \A i \in 1..Len(q) : /\ sent_queue'[i].seq = q[i].seq
                              /\ sent_queue'[i].len = q[i].len
                              /\ sent_queue'[i].naks = q[i].naks + nak
  BY <1>1, <1>n DEF Counted
<1>4. SenderTypes'
  BY <1>1, <1>2, <1>n DEF SenderInv, SenderTypes, Counters
<1>5. Accounted'
  <2>1. Measured(q)
    BY <1>n, SentMeasured
  <2>2. Bytes(sent_queue') = Bytes(q)
    <3>1. PICK s : s = sent_queue'
      OBVIOUS
    <3>2. Len(s) = Len(q) /\ \A i \in 1..Len(q) : s[i].len = q[i].len
      BY <3>1, <1>3
    <3>3. Bytes(s) = Bytes(q)
      BY <2>1, <3>2, BytesSame
    <3> QED  BY <3>1, <3>3
  <2>3. sent_queue' # <<>>
    <3>1. Len(q) # 0
      BY <1>n
    <3> QED  BY <3>1, <1>3
  <2> QED  BY <2>2, <2>3, <1>1 DEF SenderInv, Accounted
<1>6. Again'
  <2>1. \A i \in 1..Len(q) : q[i].seq < send_seq
    BY SentFields DEF SenderInv
  <2>2. retransmit_timer' # "now"
    BY <1>1
  <2> QED  BY <2>1, <2>2, <1>1, <1>3 DEF Again
<1>7. Sampled'
  BY <1>1, <1>2 DEF SenderInv, Sampled
<1> QED  BY <1>4, <1>5, <1>6, <1>7

\* A nak is heeded only if every block is beyond ignore_nak_seq; after the
\* second one ignore_nak_seq is beyond every block.
LEMMA RetransmitNakBooks ==
    ASSUME SenderInv, NEW kept, NEW cut, RetransmitNak(kept, cut)
    PROVE  SenderTypes' /\ Accounted' /\ Again' /\ Sampled'
<1>n. Counters
  BY CountersAreNumbers DEF SenderInv
<1>1. /\ retransmit_timer = "now" /\ Retransmit(kept, cut, 1)
      /\ ignore_nak_seq' = IF receive_seq < retransmit_seq THEN retransmit_seq
                           ELSE receive_seq
  BY DEF RetransmitNak
<1>2. sent_queue # <<>> /\ receive_seq > ignore_nak_seq
  BY <1>1 DEF SenderInv, Accounted, Again
<1>3. retransmit_seq \in Nat /\ ignore_nak_seq \in Nat
  BY DEF SenderInv, SenderTypes
<1>4. ASSUME NEW i \in 1..Len(sent_queue)
      PROVE  /\ sent_queue[i].naks + 1 <= 2
             /\ sent_queue[i].naks + 1 = 2 => sent_queue[i].seq < ignore_nak_seq'
  <2>1. /\ sent_queue[i].seq \in Nat /\ sent_queue[i].naks \in Nat
        /\ receive_seq <= sent_queue[i].seq
    BY SentFields DEF SenderInv
  <2>2. /\ sent_queue[i].naks <= 2
        /\ sent_queue[i].naks >= 1 => sent_queue[i].seq < retransmit_seq
        /\ sent_queue[i].naks = 2 => sent_queue[i].seq < ignore_nak_seq
    BY DEF SenderInv, Again
  <2>3. sent_queue[i].naks # 2
    BY <2>1, <2>2, <1>2, <1>3, <1>n DEF Counters
  <2>4. sent_queue[i].naks = 1 => sent_queue[i].seq < ignore_nak_seq'
    BY <2>1, <2>2, <1>1, <1>3, <1>n DEF Counters
  <2> QED  BY <2>1, <2>2, <2>3, <2>4
<1>5. ignore_nak_seq' \in Nat
  BY <1>1, <1>3, <1>n DEF Counters
<1> QED  BY <1>1, <1>2, <1>4, <1>5, RetransmitBooks

\* After a timeout no nak for what was sent is heeded.
LEMMA RetransmitTimeoutBooks ==
    ASSUME SenderInv, NEW kept, NEW cut, RetransmitTimeout(kept, cut)
    PROVE  SenderTypes' /\ Accounted' /\ Again' /\ Sampled'
<1>n. Counters
  BY CountersAreNumbers DEF SenderInv
<1>1. /\ retransmit_timer = "armed" /\ Retransmit(kept, cut, 0)
      /\ ignore_nak_seq' = send_seq
  BY DEF RetransmitTimeout
<1>2. sent_queue # <<>>
  BY <1>1 DEF SenderInv, Accounted
<1>3. \A i \in 1..Len(sent_queue) :
        /\ sent_queue[i].naks \in Nat /\ sent_queue[i].naks <= 2
        /\ sent_queue[i].seq < send_seq
  BY SentFields DEF SenderInv, Again
<1>4. \A i \in 1..Len(sent_queue) :
        /\ sent_queue[i].naks + 0 <= 2
        /\ sent_queue[i].naks + 0 = 2 => sent_queue[i].seq < ignore_nak_seq'
  BY <1>1, <1>3
<1>5. ignore_nak_seq' \in Nat
  BY <1>1, <1>n DEF Counters
<1> QED  BY <1>1, <1>2, <1>4, <1>5, RetransmitBooks

\* The number recovered from a message is never before receive_seq.
LEMMA RSeqAdvances ==
    ASSUME IndInv, m2h # <<>>
    PROVE  /\ RSeq(Head(m2h)) \in Nat /\ RSeq(Head(m2h)) - receive_seq \in Nat
           /\ RSeq(Head(m2h)) = receive_seq + (RSeq(Head(m2h)) - receive_seq)
<1>n. Counters /\ LinkTypes
  BY CountersAreNumbers DEF IndInv
<1>1. Head(m2h).seq \in Nat
  BY <1>n, SeqNumbers, TailFacts DEF LinkTypes
<1>2. Head(m2h).seq - receive_seq \in Int
  BY <1>1, <1>n DEF Counters
<1>3. (Head(m2h).seq - receive_seq) % SeqCount \in 0..(SeqCount - 1)
  BY <1>2, <1>n, DivMod DEF Counters
<1> QED  BY <1>3, <1>n DEF RSeq, Counters

\* The host handles a message.
LEMMA HandleMessageBooks ==
    ASSUME SenderInv, HandleMessage
    PROVE  SenderTypes' /\ Accounted' /\ Again' /\ Sampled'
<1> DEFINE q == sent_queue
           rseq == RSeq(Head(m2h))
           n == rseq - receive_seq
           known == n <= Len(q)
           gone == IF known THEN SubSeq(q, 1, n) ELSE q
           dup == ~Head(m2h).data /\ last_ack_seq >= rseq
<1>n. Counters /\ q \in Seq(SentBlocks) /\ Len(q) \in Nat
  BY CountersAreNumbers DEF SenderInv, IndInv, LinkTypes
<1>1. m2h # <<>> /\ UNCHANGED <<ignore_nak_seq, retransmit_seq, receive_window>>
      /\ receive_seq' = rseq
  BY DEF HandleMessage, UpdateReceiveSeq, resendVars
<1>2. sent_queue' = IF known THEN SubSeq(q, n + 1, Len(q)) ELSE <<>>
  BY DEF HandleMessage, UpdateReceiveSeq
<1>3. need_ack_bytes' = need_ack_bytes - Bytes(gone)
  BY DEF HandleMessage, UpdateReceiveSeq
<1>4. last_receive_sent_time' = IF n = 0 THEN last_receive_sent_time
                                ELSE IF known THEN q[n].seq ELSE 0
  BY DEF HandleMessage, UpdateReceiveSeq
<1>5. /\ last_ack_bytes' = IF known /\ n > 0 THEN q[n].len ELSE last_ack_bytes
      /\ rtt_sample_seq' \in {0, rtt_sample_seq}
  BY DEF HandleMessage, UpdateReceiveSeq
<1>6. /\ last_ack_seq' = IF Head(m2h).data \/ dup THEN last_ack_seq ELSE rseq
      /\ retransmit_timer' = IF dup /\ HeedNak(rseq) THEN "now" ELSE Rearmed(rseq)
  BY DEF HandleMessage
<1>7. identified' \in BOOLEAN
  BY DEF HandleMessage
<1>8. rseq \in Nat /\ n \in Nat /\ rseq = receive_seq + n
  BY <1>1, RSeqAdvances DEF SenderInv
<1>d. known => Bytes(gone) = Bytes(SubSeq(q, 1, n))
  OBVIOUS
<1>e. ~known => Bytes(gone) = Bytes(q)
  OBVIOUS
<1> HIDE DEF rseq, n, dup, gone
<1>9. known => /\ Len(sent_queue') = Len(q) - n
               /\ \A i \in 1..(Len(q) - n) : sent_queue'[i] = q[n + i]
  <2>1. known => sent_queue' = SubSeq(q, n + 1, Len(q))
    BY <1>2
  <2> QED  BY <2>1, <1>n, <1>8
<1>10. known /\ n > 0 => n \in 1..Len(q)
  BY <1>n, <1>8
<1>11. /\ rseq # receive_seq <=> n > 0
       /\ n = 0 => known
  BY <1>n, <1>8 DEF Counters
<1>12. \A i \in 1..Len(sent_queue') : known /\ n + i \in 1..Len(q) /\ sent_queue'[i] = q[n + i]
  <2>1. CASE known
    BY <2>1, <1>9, <1>8, <1>n
  <2>2. CASE ~known
    BY <2>2, <1>2
  <2> QED  BY <2>1, <2>2
<1>13. SenderTypes'
  <2>1. last_ack_bytes' \in 0..MaxLen /\ last_receive_sent_time' \in Nat
    <3>1. known /\ n > 0 => q[n].len \in 1..MaxLen /\ q[n].seq \in Nat
      BY <1>10, SentFields DEF SenderInv
    <3>2. last_ack_bytes' \in 0..MaxLen
      BY <3>1, <1>5, LinkAssumption DEF SenderInv, SenderTypes
    <3>3. last_receive_sent_time' \in Nat
      BY <3>1, <1>4, <1>8 DEF SenderInv, SenderTypes
    <3> QED  BY <3>2, <3>3
  <2>2. last_ack_seq' \in Nat /\ rtt_sample_seq' \in Nat
    BY <1>5, <1>6, <1>8 DEF SenderInv, SenderTypes
  <2>3. retransmit_timer' \in {"never", "armed", "now"}
    BY <1>6 DEF SenderInv, SenderTypes, Rearmed
  <2> QED  BY <2>1, <2>2, <2>3, <1>1, <1>7 DEF SenderInv, SenderTypes
<1>14. Accounted'
  <2>m. Measured(q) /\ need_ack_bytes = Bytes(q)
    BY <1>n, SentMeasured DEF SenderInv, Accounted
  <2>0. Bytes(q) \in Nat
    BY <2>m, BytesType
  <2>1. need_ack_bytes' = Bytes(sent_queue')
    <3>1. CASE known
      <4> DEFINE a == SubSeq(q, 1, n)
      <4>1. n \in 0..Len(q) /\ Len(a) = n /\ \A i \in 1..n : a[i].len = q[i].len
        BY <3>1, <1>n, <1>8
      <4>2. PICK b : b = sent_queue'
        OBVIOUS
      <4>3. Len(b) = Len(q) - n /\ \A i \in 1..(Len(q) - n) : b[i].len = q[n + i].len
        BY <4>2, <3>1, <1>9
      <4> HIDE DEF a
      <4>4. Bytes(q) = Bytes(a) + Bytes(b) /\ Bytes(a) \in Nat /\ Bytes(b) \in Nat
        <5>1. Splits(q, n, a, b)
          BY <2>m, <4>1, <4>3 DEF Splits
        <5> QED  BY <5>1, BytesSplit
      <4>5. need_ack_bytes' = Bytes(q) - Bytes(a)
        BY <3>1, <1>3, <1>d, <2>m DEF a
      <4> QED  BY <4>2, <4>4, <4>5
    <3>2. CASE ~known
      BY <3>2, <1>2, <1>3, <1>e, <2>m, <2>0, BytesEmpty
    <3> QED  BY <3>1, <3>2
  <2>2. (retransmit_timer' = "never") <=> (sent_queue' = <<>>)
    <3>1. CASE rseq = receive_seq
      <4>1. n = 0 /\ known
        BY <3>1, <1>8, <1>11, <1>n DEF Counters
      <4>2. sent_queue' = SubSeq(q, 0 + 1, Len(q))
        BY <4>1, <1>2
      <4>3. sent_queue' = q
        BY <4>2, <1>n
      <4>4. (retransmit_timer = "never") <=> (q = <<>>)
        BY DEF SenderInv, Accounted
      <4> QED  BY <4>3, <4>4, <3>1, <1>6 DEF Rearmed, HeedNak
    <3>2. CASE rseq # receive_seq
      BY <3>2, <1>6 DEF Rearmed, HeedNak
    <3> QED  BY <3>1, <3>2
  <2> QED  BY <2>1, <2>2 DEF Accounted
<1>15. Again'
  <2>1. \A i \in 1..Len(sent_queue') :
          /\ sent_queue'[i].naks <= 2
          /\ sent_queue'[i].re \/ sent_queue'[i].naks >= 1
               => sent_queue'[i].seq < retransmit_seq
          /\ sent_queue'[i].naks = 2 => sent_queue'[i].seq < ignore_nak_seq
    BY <1>12 DEF SenderInv, Again
  <2>2. retransmit_timer' = "now" => rseq > ignore_nak_seq
    BY <1>6 DEF SenderInv, Again, HeedNak, Rearmed
  <2> QED  BY <2>1, <2>2, <1>1 DEF Again
<1>16. Sampled'
  <2>1. rtt_sample_seq' # 0 =>
          \A i \in 1..Len(sent_queue') :
            sent_queue'[i].seq >= rtt_sample_seq' => ~sent_queue'[i].re
    BY <1>5, <1>12 DEF SenderInv, Sampled
  <2>2. last_receive_sent_time' \in {0, rseq - 1}
    <3>1. CASE n = 0
      BY <3>1, <1>4, <1>8, <1>n DEF SenderInv, Sampled, Counters
    <3>2. CASE n > 0 /\ known
      <4>1. q[n].seq = receive_seq + n - 1
        BY <3>2, <1>10, SentFields DEF SenderInv
      <4> QED  BY <3>2, <4>1, <1>4, <1>8, <1>n DEF Counters
    <3>3. CASE n > 0 /\ ~known
      BY <3>3, <1>4
    <3> QED  BY <3>1, <3>2, <3>3, <1>8
  <2> QED  BY <2>1, <2>2, <1>1 DEF Sampled
<1> QED  BY <1>13, <1>14, <1>15, <1>16

\* Only the host's own operations change its books.
LEMMA OtherStepsKeepHost ==
    ASSUME \/ HandleInvalid \/ Deliver \/ DamageBlock \/ LoseBlock \/ LoseFrame
           \/ FindBad \/ FindLost \/ FindBlock \/ SendData
           \/ DispatchDone \/ DispatchShutdown \/ McuReset \/ UNCHANGED vars
    PROVE  UNCHANGED hostVars
<1>1. CASE HandleInvalid \/ Deliver \/ DamageBlock \/ LoseBlock \/ LoseFrame
  BY <1>1 DEF HandleInvalid, Deliver, DamageBlock, LoseBlock, LoseFrame, WireUnchanged
<1>2. CASE FindBad \/ FindLost \/ FindBlock \/ SendData
  BY <1>2 DEF FindBad, FindLost, FindBlock, SendData
<1>3. CASE DispatchDone \/ DispatchShutdown \/ McuReset \/ UNCHANGED vars
  BY <1>3 DEF DispatchDone, DispatchShutdown, McuReset, vars
<1> QED  BY <1>1, <1>2, <1>3

\* Every step keeps the sender's books.
LEMMA BooksKept ==
    ASSUME SenderInv, [Next]_vars
    PROVE  SenderTypes' /\ Accounted' /\ Again' /\ Sampled'
<1>1. ASSUME NEW len \in Lens \cup {IdentifyLen}, NEW notify \in Notify \cup {TRUE},
             SendBlock(len, notify)
      PROVE  SenderTypes' /\ Accounted' /\ Again' /\ Sampled'
  <2>1. len \in 1..MaxLen /\ notify \in BOOLEAN
    BY LinkAssumption
  <2> QED  BY <1>1, <2>1, SendBlockBooks
<1>2. ASSUME NEW kept \in 0..Len(h2m), NEW cut \in BOOLEAN,
             RetransmitNak(kept, cut) \/ RetransmitTimeout(kept, cut)
      PROVE  SenderTypes' /\ Accounted' /\ Again' /\ Sampled'
  BY <1>2, RetransmitNakBooks, RetransmitTimeoutBooks
<1>3. CASE HandleMessage
  BY <1>3, HandleMessageBooks
<1>4. CASE SetReceiveWindow
  <2>1. /\ UNCHANGED <<send_seq, sent_queue, rtt_sample_seq, need_ack_bytes,
                       retransmit_timer, receive_seq, last_ack_seq, last_ack_bytes,
                       last_receive_sent_time, identified, ignore_nak_seq,
                       retransmit_seq>>
        /\ receive_window' = RxSize
    BY <1>4 DEF SetReceiveWindow, txVars, ackVars, resendVars
  <2>2. SenderTypes'
    BY <2>1 DEF SenderInv, SenderTypes
  <2>3. Accounted'
    BY <2>1 DEF SenderInv, Accounted
  <2>4. Again' /\ Sampled'
    BY <2>1 DEF SenderInv, Again, Sampled
  <2> QED  BY <2>2, <2>3, <2>4
<1>5. CASE \/ HandleInvalid \/ Deliver \/ DamageBlock \/ LoseBlock \/ LoseFrame
           \/ FindBad \/ FindLost \/ FindBlock \/ SendData
           \/ DispatchDone \/ DispatchShutdown \/ McuReset \/ UNCHANGED vars
  BY <1>5, OtherStepsKeepHost, SameBooks DEF SenderInv
<1> QED  BY <1>1, <1>2, <1>3, <1>4, <1>5 DEF Next

\* The firmware's flag and the counted faults and restarts.
LEMMA WireTypesKept ==
    ASSUME WireTypes, [Next]_vars
    PROVE  WireTypes'
<1>f. Fault => faults' \in 0..MaxFaults
  BY LinkAssumption DEF Fault, WireTypes
<1>1. ASSUME NEW len, NEW notify, SendBlock(len, notify)
      PROVE  WireTypes'
  BY <1>1 DEF SendBlock, WireTypes, mcuVars
<1>2. ASSUME NEW kept, NEW cut,
             RetransmitNak(kept, cut) \/ RetransmitTimeout(kept, cut)
      PROVE  WireTypes'
  BY <1>2, <1>f DEF RetransmitNak, RetransmitTimeout, Retransmit, WireTypes, mcuVars
<1>3. CASE HandleInvalid \/ HandleMessage \/ SetReceiveWindow \/ SendData \/ UNCHANGED vars
  BY <1>3 DEF HandleInvalid, HandleMessage, SetReceiveWindow, SendData, vars, WireTypes,
              mcuVars
<1>4. CASE Deliver \/ DamageBlock \/ LoseBlock \/ LoseFrame
  BY <1>4, <1>f DEF Deliver, DamageBlock, LoseBlock, LoseFrame, WireUnchanged, WireTypes
<1>5. CASE FindBad \/ FindLost \/ FindBlock
  BY <1>5 DEF FindBad, FindLost, FindBlock, WireTypes
<1>6. CASE DispatchDone \/ DispatchShutdown
  BY <1>6 DEF DispatchDone, DispatchShutdown, WireTypes
<1>7. CASE McuReset
  <2>1. /\ resets < MaxResets /\ resets' = resets + 1 /\ faults' = faults
        /\ need_valid' = FALSE
    BY <1>7 DEF McuReset
  <2>2. resets' \in 0..MaxResets
    BY <2>1, LinkAssumption DEF WireTypes
  <2>3. need_valid' \in BOOLEAN
    BY <2>1
  <2> QED  BY <2>1, <2>2, <2>3 DEF WireTypes
<1> QED  BY <1>1, <1>2, <1>3, <1>4, <1>5, <1>6, <1>7 DEF Next

\* What a step does to the messages on their way to the host.
LEMMA AskedKept ==
    ASSUME IndInv, Asked, WireTypes, [Next]_vars
    PROVE  Asked'
<1>n. Counters /\ m2h \in Seq(Frames) /\ resets \in Nat
  BY CountersAreNumbers DEF IndInv, LinkTypes
<1>s. ASSUME UNCHANGED <<m2h, resets>>
      PROVE  Asked'
  BY <1>s DEF Asked
<1>t. ASSUME m2h # <<>>, m2h' = Tail(m2h), resets' = resets
      PROVE  Asked'
  <2>1. /\ Len(m2h') = Len(m2h) - 1 /\ Len(m2h) \in Nat
        /\ \A i \in 1..(Len(m2h) - 1) : m2h'[i] = m2h[i + 1]
    BY <1>t, <1>n, TailFacts
  <2>2. \A i \in 1..(Len(m2h) - 1) : i + 1 \in 1..Len(m2h)
    BY <2>1
  <2> QED  BY <1>t, <2>1, <2>2 DEF Asked
<1>a. ASSUME NEW data \in BOOLEAN, Sendf(next_sequence, data), resets' = resets
      PROVE  Asked'
  <2> DEFINE f == [seq |-> next_sequence, data |-> data, req |-> dispatching]
  <2>1. f \in Frames /\ f.seq = next_sequence /\ f.req = dispatching
    BY <1>n DEF Frames, Counters
  <2>2. m2h' = m2h \/ m2h' = Append(m2h, f)
    BY <1>a DEF Sendf
  <2> HIDE DEF f
  <2>3. CASE m2h' = Append(m2h, f)
    <3>1. /\ Len(m2h') = Len(m2h) + 1 /\ Len(m2h) \in Nat
          /\ \A i \in 1..Len(m2h) : m2h'[i] = m2h[i]
          /\ m2h'[Len(m2h) + 1] = f
      BY <2>1, <2>3, <1>n, AppendFacts
    <3>2. resets = 0 /\ dispatching # 0 => dispatching = next_sequence - 1
      BY DEF IndInv, ExecInv
    <3>3. \A i \in 1..(Len(m2h) + 1) : i \in 1..Len(m2h) \/ i = Len(m2h) + 1
      BY <3>1
    <3> QED  BY <1>a, <2>1, <3>1, <3>2, <3>3 DEF Asked
  <2> QED  BY <2>2, <2>3, <1>a, <1>s
<1>1. ASSUME NEW len, NEW notify, SendBlock(len, notify)
      PROVE  Asked'
  BY <1>1, <1>s DEF SendBlock, mcuVars
<1>2. ASSUME NEW kept, NEW cut,
             RetransmitNak(kept, cut) \/ RetransmitTimeout(kept, cut)
      PROVE  Asked'
  BY <1>2, <1>s DEF RetransmitNak, RetransmitTimeout, Retransmit, mcuVars
<1>3. CASE HandleInvalid \/ HandleMessage \/ LoseFrame
  BY <1>3, <1>t DEF HandleInvalid, HandleMessage, LoseFrame, WireUnchanged, mcuVars
<1>4. CASE \/ SetReceiveWindow \/ Deliver \/ DamageBlock \/ LoseBlock
           \/ FindBlock \/ DispatchShutdown \/ UNCHANGED vars
  BY <1>4, <1>s DEF SetReceiveWindow, Deliver, DamageBlock, LoseBlock, WireUnchanged,
                    FindBlock, DispatchShutdown, vars, mcuVars
<1>5. CASE FindBad \/ FindLost \/ SendData \/ DispatchDone
  <2>1. /\ resets' = resets
        /\ \/ m2h' = m2h
           \/ Sendf(next_sequence, TRUE) \/ Sendf(next_sequence, FALSE)
    BY <1>5 DEF FindBad, FindLost, SendData, DispatchDone, mcuVars
  <2> QED  BY <2>1, <1>s, <1>a
<1>6. CASE McuReset
  <2>1. resets' = resets + 1
    BY <1>6 DEF McuReset
  <2>2. resets' # 0
    BY <2>1, <1>n
  <2> QED  BY <2>2 DEF Asked
<1> QED  BY <1>1, <1>2, <1>3, <1>4, <1>5, <1>6 DEF Next

\* The invariant of the sender.
LEMMA SenderInvariant == Spec => []SenderInv
<1>1. Init => SenderInv
  <2> SUFFICES ASSUME Init PROVE SenderInv
    OBVIOUS
  <2>1. /\ sent_queue = <<>> /\ need_ack_bytes = 0 /\ retransmit_timer = "never"
        /\ rtt_sample_seq = 0 /\ last_receive_sent_time = 0 /\ m2h = <<>>
    BY DEF Init
  <2>2. SenderTypes
    <3>1. identified \in BOOLEAN
      BY DEF Init
    <3>2. 0 \in 0..MaxLen
      BY LinkAssumption
    <3> QED  BY <3>1, <3>2 DEF Init, SenderTypes
  <2>3. WireTypes
    <3>1. need_valid \in BOOLEAN
      BY DEF Init
    <3>2. 0 \in 0..MaxFaults /\ 0 \in 0..MaxResets
      BY LinkAssumption
    <3> QED  BY <3>1, <3>2 DEF Init, WireTypes
  <2>4. Accounted
    BY <2>1, BytesEmpty DEF Accounted
  <2>5. Again /\ Sampled /\ Asked
    BY <2>1 DEF Again, Sampled, Asked
  <2> QED  BY <2>2, <2>3, <2>4, <2>5, InitInd DEF SenderInv
<1>2. SenderInv /\ [Next]_vars => SenderInv'
  BY NextInd, BooksKept, WireTypesKept, AskedKept DEF SenderInv
<1> QED  BY <1>1, <1>2, PTL DEF Spec

\* The sender is consistent whatever the line and the firmware do: the queue is the
\* window that send_seq and receive_seq span, need_ack_bytes counts its bytes, the
\* retransmit timer runs exactly while there is something to retransmit, and no
\* block is sent again for a third nak (build_and_send_command, update_receive_seq,
\* retransmit_event and handle_message keep these together).
THEOREM AlwaysSenderConsistent == Spec => []SenderConsistent
<1>1. SenderInv => SenderConsistent
  <2> SUFFICES ASSUME SenderInv PROVE SenderConsistent
    OBVIOUS
  <2>1. DOMAIN sent_queue = 1..Len(sent_queue) /\ Measured(sent_queue)
    BY SentMeasured DEF SenderInv, IndInv, LinkTypes
  <2>2. need_ack_bytes \in Nat
    BY <2>1, BytesType DEF SenderInv, Accounted
  <2>3. TypeOK
    BY <2>2 DEF SenderInv, IndInv, LinkTypes, SenderTypes, WireTypes, TypeOK
  <2>4. SentQueueConsistent
    BY <2>1 DEF SenderInv, IndInv, SentWindow, Accounted, SentQueueConsistent
  <2>5. AtMostTwoNakRetransmits
    BY <2>1 DEF SenderInv, Again, AtMostTwoNakRetransmits
  <2> QED  BY <2>3, <2>4, <2>5 DEF SenderConsistent
<1> QED  BY <1>1, SenderInvariant, PTL

\* Only handle_message() moves receive_seq.
LEMMA OnlyHandleMessageAdvances ==
    ASSUME [Next]_vars, ~HandleMessage
    PROVE  receive_seq' = receive_seq
<1>1. ASSUME NEW len, NEW notify, SendBlock(len, notify)
      PROVE  receive_seq' = receive_seq
  BY <1>1 DEF SendBlock, ackVars
<1>2. ASSUME NEW kept, NEW cut,
             RetransmitNak(kept, cut) \/ RetransmitTimeout(kept, cut)
      PROVE  receive_seq' = receive_seq
  BY <1>2 DEF RetransmitNak, RetransmitTimeout, Retransmit, ackVars
<1>3. CASE SetReceiveWindow
  BY <1>3 DEF SetReceiveWindow, ackVars
<1>4. CASE \/ HandleInvalid \/ Deliver \/ DamageBlock \/ LoseBlock \/ LoseFrame
           \/ FindBad \/ FindLost \/ FindBlock \/ SendData
           \/ DispatchDone \/ DispatchShutdown \/ McuReset \/ UNCHANGED vars
  BY <1>4, OtherStepsKeepHost DEF hostVars, ackVars
<1> QED  BY <1>1, <1>2, <1>3, <1>4 DEF Next

\* The times the host works with are real: a round trip is measured only on a block
\* that was sent once, and the sent_time handle_message() reports with a response is
\* that of the block that asked for it, sent once (rtt_sample_seq, retransmit_seq and
\* last_receive_sent_time).
THEOREM AlwaysTimesAreReal == Spec => TimesAreReal
<1> DEFINE R == rtt_sample_seq # 0 /\ rtt_sample_seq' = 0 /\ receive_seq' # receive_seq
                  => \A i \in DOMAIN sent_queue :
                       sent_queue[i].seq = last_receive_sent_time'
                         => ~sent_queue[i].re
           t == SentTime(receive_seq', last_receive_sent_time')
           S == HandleMessage /\ Head(m2h).data /\ t # 0 /\ resets = 0
                  => /\ Head(m2h).req # 0 => t = Head(m2h).req
                     /\ \A i \in DOMAIN sent_queue :
                          sent_queue[i].seq = t => ~sent_queue[i].re
<1>1. SenderInv /\ SenderInv' /\ [Next]_vars => [R]_vars
  <2> SUFFICES ASSUME SenderInv, SenderInv', [Next]_vars,
                      rtt_sample_seq # 0, rtt_sample_seq' = 0,
                      receive_seq' # receive_seq,
                      NEW i \in DOMAIN sent_queue,
                      sent_queue[i].seq = last_receive_sent_time'
               PROVE  ~sent_queue[i].re
    OBVIOUS
  <2>n. Counters /\ rtt_sample_seq \in Nat
    BY CountersAreNumbers DEF SenderInv, SenderTypes
  <2>1. HandleMessage
    BY OnlyHandleMessageAdvances
  <2>2. receive_seq' > rtt_sample_seq /\ last_receive_sent_time' # 0
    BY <2>1 DEF HandleMessage, UpdateReceiveSeq
  <2>3. last_receive_sent_time' = receive_seq' - 1 /\ receive_seq' \in Nat
    BY <2>2 DEF SenderInv, Sampled, IndInv, LinkTypes
  <2>4. i \in 1..Len(sent_queue)
    BY SMTT(30) DEF SenderInv, IndInv, LinkTypes
  <2>a. last_receive_sent_time' >= rtt_sample_seq
    <3>1. \A x, y \in Nat : x > y => x - 1 >= y
      OBVIOUS
    <3>2. receive_seq' - 1 >= rtt_sample_seq
      BY <3>1, <2>2, <2>3, <2>n, Zenon
    <3> QED  BY <3>2, <2>3, Zenon
  <2>5. sent_queue[i].seq >= rtt_sample_seq
    BY <2>a, Zenon
  <2> QED  BY <2>4, <2>5 DEF SenderInv, Sampled
<1>2. SenderInv /\ SenderInv' /\ [Next]_vars => [S]_vars
  <2> SUFFICES ASSUME SenderInv, SenderInv', HandleMessage, Head(m2h).data, t # 0,
                      resets = 0
               PROVE  /\ Head(m2h).req # 0 => t = Head(m2h).req
                      /\ \A i \in DOMAIN sent_queue :
                           sent_queue[i].seq = t => ~sent_queue[i].re
    OBVIOUS
  <2>1. receive_seq' > retransmit_seq /\ t = last_receive_sent_time'
    BY DEF SentTime
  <2>2. m2h # <<>> /\ receive_seq' = RSeq(Head(m2h))
    BY DEF HandleMessage, UpdateReceiveSeq
  <2>3. receive_seq' = m2h[1].seq /\ 1 \in 1..Len(m2h) /\ Head(m2h) = m2h[1]
    BY <2>2, RSeqIsExact, TailFacts DEF SenderInv, IndInv, LinkTypes
  <2>4. t = receive_seq' - 1 /\ receive_seq' \in Nat
    BY <2>1 DEF SenderInv, Sampled, IndInv, LinkTypes
  <2>5. Head(m2h).req # 0 => t = Head(m2h).req
    BY <2>3, <2>4 DEF SenderInv, Asked
  <2>6. ASSUME NEW i \in DOMAIN sent_queue, sent_queue[i].seq = t, sent_queue[i].re
        PROVE  FALSE
    <3>1. i \in 1..Len(sent_queue)
      BY SMTT(30) DEF SenderInv, IndInv, LinkTypes
    <3>2. sent_queue[i].seq < retransmit_seq /\ retransmit_seq \in Nat
      BY <3>1, <2>6 DEF SenderInv, Again, SenderTypes
    <3>3. t < retransmit_seq
      BY <3>2, <2>6, Zenon
    <3>4. \A x, y \in Nat : x > y => ~(x - 1 < y)
      OBVIOUS
    <3> QED  BY <3>2, <3>3, <3>4, <2>1, <2>4, Zenon
  <2> QED  BY <2>5, <2>6
<1>3. [][R]_vars => RttSampledOnce
  BY DEF RttSampledOnce
<1>4. [][S]_vars => SentTimeIsOfRequest
  BY DEF SentTimeIsOfRequest
<1>5. Spec => [][R]_vars
  BY <1>1, SenderInvariant, PTL DEF Spec
<1>6. Spec => [][S]_vars
  BY <1>2, SenderInvariant, PTL DEF Spec
<1> QED  BY <1>3, <1>4, <1>5, <1>6 DEF TimesAreReal
-----------------------------------------------------------------------------
(* The bytes of first copies *)

\* What a block counts that was sent for the first time, with a number from r on, ...
FirstLen(b, r) == IF b.re \/ b.seq < r THEN 0 ELSE b.len

Firsts(q, r) == [i \in 1..Len(q) |-> [len |-> FirstLen(q[i], r)]]

FirstsFrom(q, r) == Bytes(Firsts(q, r))

\* ... and what a block of the sent queue counts.
OutLen(b, r) == IF b.seq < r THEN 0 ELSE b.len

Outs(q, r) == [i \in 1..Len(q) |-> [len |-> OutLen(q[i], r)]]

OutFrom(q, r) == Bytes(Outs(q, r))

\* Blocks that count nothing have no bytes.
LEMMA BytesZero ==
    ASSUME NEW s, Len(s) \in Nat, \A i \in 1..Len(s) : s[i].len = 0
    PROVE  Bytes(s) = 0
<1> DEFINE f == [i \in 0..Len(s) |-> 0]
<1>1. Measured(s)
  BY DEF Measured
<1>2. Adds(s, f)
  BY DEF Adds
<1>3. f[Len(s)] = 0
  OBVIOUS
<1> HIDE DEF f
<1> QED  BY <1>1, <1>2, <1>3, BytesAdds

\* Blocks of one length.
LEMMA BytesConst ==
    ASSUME NEW s, Len(s) \in Nat, NEW c \in Nat, \A i \in 1..Len(s) : s[i].len = c
    PROVE  Bytes(s) = Len(s) * c
<1> DEFINE f == [i \in 0..Len(s) |-> i * c]
<1>1. Measured(s)
  BY DEF Measured
<1>2. Adds(s, f)
  <2>1. \A i \in Nat : i * c \in Int
    BY SMT
  <2>2. f \in [0..Len(s) -> Int]
    BY <2>1
  <2>3. f[0] = 0
    BY SMT
  <2>4. \A i \in 1..Len(s) : i * c = (i - 1) * c + c
    BY SMT
  <2>5. \A i \in 1..Len(s) : f[i] = i * c /\ f[i - 1] = (i - 1) * c
    OBVIOUS
  <2> HIDE DEF f
  <2>6. \A i \in 1..Len(s) : f[i] = f[i - 1] + s[i].len
    BY <2>4, <2>5
  <2> QED  BY <2>2, <2>3, <2>6 DEF Adds
<1>3. f[Len(s)] = Len(s) * c
  OBVIOUS
<1> HIDE DEF f
<1> QED  BY <1>1, <1>2, <1>3, BytesAdds

\* A queue of one block.
LEMMA BytesOne ==
    ASSUME NEW s, Len(s) = 1, s[1].len \in Nat
    PROVE  Bytes(s) = s[1].len
<1>1. Measured(<<>>) /\ Len(<<>>) = 0
  BY DEF Measured
<1>2. PICK e : e = <<>>
  OBVIOUS
<1>3. Measured(e) /\ Len(e) = 0 /\ Bytes(e) = 0
  BY <1>1, <1>2, BytesEmpty
<1>4. Len(s) = Len(e) + 1 /\ Len(e) + 1 = 1 /\ \A i \in 1..Len(e) : s[i].len = e[i].len
  BY <1>3
<1>5. Bytes(s) = Bytes(e) + s[Len(e) + 1].len
  BY <1>3, <1>4, BytesAppend
<1> QED  BY <1>3, <1>4, <1>5

\* The fields of blocks under way.
LEMMA BlockFields ==
    ASSUME NEW b \in Blocks
    PROVE  /\ b.seq \in Nat /\ b.len \in 1..MaxLen /\ b.len \in Nat
           /\ b.ok \in BOOLEAN /\ b.re \in BOOLEAN
  BY LinkAssumption DEF Blocks

\* The counted lengths are numbers.
LEMMA FirstsMeasured ==
    ASSUME NEW q \in Seq(Blocks), NEW r
    PROVE  /\ Len(q) \in Nat /\ Len(Firsts(q, r)) = Len(q)
           /\ \A i \in 1..Len(q) : /\ q[i] \in Blocks
                                   /\ Firsts(q, r)[i].len = FirstLen(q[i], r)
                                   /\ FirstLen(q[i], r) \in Nat
           /\ Measured(Firsts(q, r)) /\ FirstsFrom(q, r) \in Nat
<1>1. Len(q) \in Nat /\ \A i \in 1..Len(q) : q[i] \in Blocks
  OBVIOUS
<1>2. \A i \in 1..Len(q) : FirstLen(q[i], r) \in Nat
  BY <1>1, BlockFields DEF FirstLen
<1>3. Len(Firsts(q, r)) = Len(q)
  <2> DEFINE S == [len : Nat]
  <2>1. \A i \in 1..Len(q) : [len |-> FirstLen(q[i], r)] \in S
    BY <1>2
  <2>2. Firsts(q, r) \in [1..Len(q) -> S]
    BY <2>1 DEF Firsts
  <2> QED  BY <1>1, <2>2, FunctionIsSeq
<1>4. \A i \in 1..Len(q) : Firsts(q, r)[i].len = FirstLen(q[i], r)
  BY DEF Firsts
<1>5. Measured(Firsts(q, r))
  BY <1>1, <1>2, <1>3, <1>4 DEF Measured
<1>6. FirstsFrom(q, r) \in Nat
  BY <1>5, BytesType DEF FirstsFrom
<1> QED  BY <1>1, <1>2, <1>3, <1>4, <1>5, <1>6

\* A queue with one block more counts that block.
LEMMA FirstsAppend ==
    ASSUME NEW q \in Seq(Blocks), NEW c \in Blocks, NEW r
    PROVE  FirstsFrom(Append(q, c), r) = FirstsFrom(q, r) + FirstLen(c, r)
<1> DEFINE t == Append(q, c)
<1>1. /\ t \in Seq(Blocks) /\ Len(t) = Len(q) + 1 /\ Len(q) \in Nat
      /\ \A i \in 1..Len(q) : t[i] = q[i]
      /\ t[Len(q) + 1] = c
  BY AppendFacts
<1> HIDE DEF t
<1>2. /\ Len(Firsts(q, r)) = Len(q) /\ Measured(Firsts(q, r))
      /\ \A i \in 1..Len(q) : Firsts(q, r)[i].len = FirstLen(q[i], r)
  BY FirstsMeasured
<1>3. /\ Len(Firsts(t, r)) = Len(t)
      /\ \A i \in 1..Len(t) : /\ Firsts(t, r)[i].len = FirstLen(t[i], r)
                              /\ FirstLen(t[i], r) \in Nat
  BY <1>1, FirstsMeasured
<1>4. \A i \in 1..Len(q) : Firsts(t, r)[i].len = Firsts(q, r)[i].len
  BY <1>1, <1>2, <1>3
<1>5. Firsts(t, r)[Len(q) + 1].len = FirstLen(c, r) /\ FirstLen(c, r) \in Nat
  BY <1>1, <1>3
<1>6. Bytes(Firsts(t, r)) = Bytes(Firsts(q, r)) + FirstLen(c, r)
  BY <1>1, <1>2, <1>3, <1>4, <1>5, BytesAppend
<1> QED  BY <1>6 DEF FirstsFrom, t

\* The first block of a queue and the others.
LEMMA FirstsTail ==
    ASSUME NEW q \in Seq(Blocks), q # <<>>, NEW r
    PROVE  /\ FirstsFrom(q, r) = FirstLen(q[1], r) + FirstsFrom(Tail(q), r)
           /\ FirstLen(q[1], r) \in Nat /\ FirstsFrom(Tail(q), r) \in Nat
<1> DEFINE t == Tail(q)
           a == <<[len |-> FirstLen(q[1], r)]>>
<1>1. /\ t \in Seq(Blocks) /\ Len(t) = Len(q) - 1 /\ Len(q) \in Nat \ {0}
      /\ \A i \in 1..(Len(q) - 1) : t[i] = q[i + 1]
  BY TailFacts
<1>2. /\ Len(Firsts(q, r)) = Len(q) /\ Measured(Firsts(q, r))
      /\ \A i \in 1..Len(q) : /\ Firsts(q, r)[i].len = FirstLen(q[i], r)
                              /\ FirstLen(q[i], r) \in Nat
  BY FirstsMeasured
<1>3. Len(a) = 1 /\ a[1].len = FirstLen(q[1], r)
  OBVIOUS
<1> HIDE DEF t, a
<1>4. /\ Len(Firsts(t, r)) = Len(t) /\ FirstsFrom(t, r) \in Nat
      /\ \A i \in 1..Len(t) : Firsts(t, r)[i].len = FirstLen(t[i], r)
  BY <1>1, FirstsMeasured
<1>5. FirstLen(q[1], r) \in Nat /\ 1 \in 1..Len(q) /\ 1 \in 0..Len(q)
  BY <1>1, <1>2
<1>6. \A i \in 1..1 : a[i].len = Firsts(q, r)[i].len
  BY <1>2, <1>3, <1>5
<1>7. \A i \in 1..(Len(q) - 1) : Firsts(t, r)[i].len = Firsts(q, r)[1 + i].len
  <2> SUFFICES ASSUME NEW i \in 1..(Len(q) - 1)
               PROVE  Firsts(t, r)[i].len = Firsts(q, r)[1 + i].len
    OBVIOUS
  <2>1. i \in 1..Len(t) /\ 1 + i \in 1..Len(q) /\ i + 1 = 1 + i
    BY <1>1
  <2> QED  BY <2>1, <1>1, <1>2, <1>4
<1>8. Bytes(Firsts(q, r)) = Bytes(a) + Bytes(Firsts(t, r))
  <2>1. PICK x, y : x = Firsts(q, r) /\ y = Firsts(t, r)
    OBVIOUS
  <2>2. Splits(x, 1, a, y)
    BY <2>1, <1>1, <1>2, <1>3, <1>4, <1>5, <1>6, <1>7 DEF Splits
  <2>3. Bytes(x) = Bytes(a) + Bytes(y)
    BY <2>2, BytesSplit
  <2> QED  BY <2>1, <2>3
<1>9. Bytes(a) = FirstLen(q[1], r)
  BY <1>3, <1>5, BytesOne
<1> QED  BY <1>4, <1>5, <1>8, <1>9 DEF FirstsFrom, t

\* A beginning of a queue, and what follows it: copies count nothing.
LEMMA FirstsPrefix ==
    ASSUME NEW q \in Seq(Blocks), NEW p \in Seq(Blocks), Len(p) <= Len(q), NEW r,
           \A i \in 1..Len(p) : /\ p[i].seq = q[i].seq /\ p[i].len = q[i].len
                                /\ p[i].re = q[i].re
    PROVE  /\ FirstsFrom(p, r) <= FirstsFrom(q, r)
           /\ (\A i \in 1..Len(q) : i > Len(p) => q[i].re)
                => FirstsFrom(p, r) = FirstsFrom(q, r)
<1> DEFINE n == Len(p)
           b == [i \in 1..(Len(q) - n) |-> Firsts(q, r)[n + i]]
<1>1. /\ Len(Firsts(q, r)) = Len(q) /\ Measured(Firsts(q, r)) /\ Len(q) \in Nat
      /\ \A i \in 1..Len(q) : /\ Firsts(q, r)[i].len = FirstLen(q[i], r)
                              /\ FirstLen(q[i], r) \in Nat
  BY FirstsMeasured
<1>2. /\ Len(Firsts(p, r)) = n /\ n \in Nat
      /\ \A i \in 1..n : Firsts(p, r)[i].len = FirstLen(p[i], r)
  BY FirstsMeasured
<1>3. \A i \in 1..n : i \in 1..Len(q) /\ FirstLen(p[i], r) = FirstLen(q[i], r)
  BY <1>1, <1>2 DEF FirstLen
<1>4. \A i \in 1..n : Firsts(p, r)[i].len = Firsts(q, r)[i].len
  BY <1>1, <1>2, <1>3
<1>5. n \in 0..Len(q) /\ Len(q) - n \in Nat
  BY <1>1, <1>2
<1>6. Len(b) = Len(q) - n /\ \A i \in 1..(Len(q) - n) : b[i] = Firsts(q, r)[n + i]
  <2> DEFINE S == {Firsts(q, r)[n + i] : i \in 1..(Len(q) - n)}
  <2>1. b \in [1..(Len(q) - n) -> S]
    OBVIOUS
  <2>2. Len(b) = Len(q) - n
    <3> HIDE DEF b, S, n
    <3> QED  BY <1>5, <2>1, FunctionIsSeq
  <2> QED  BY <2>2
<1> HIDE DEF n, b
<1>7. /\ Bytes(Firsts(q, r)) = Bytes(Firsts(p, r)) + Bytes(b)
      /\ Bytes(Firsts(p, r)) \in Nat /\ Bytes(b) \in Nat
  <2>1. \A i \in 1..(Len(q) - n) : b[i].len = Firsts(q, r)[n + i].len
    BY <1>6
  <2>2. PICK x, y : x = Firsts(q, r) /\ y = Firsts(p, r)
    OBVIOUS
  <2>3. Splits(x, n, y, b)
    BY <2>1, <2>2, <1>1, <1>2, <1>4, <1>5, <1>6 DEF Splits
  <2>4. /\ Bytes(x) = Bytes(y) + Bytes(b)
        /\ Bytes(y) \in Nat /\ Bytes(b) \in Nat
    BY <2>3, BytesSplit
  <2> QED  BY <2>2, <2>4
<1>8. ASSUME \A i \in 1..Len(q) : i > n => q[i].re
      PROVE  Bytes(b) = 0
  <2>1. ASSUME NEW i \in 1..(Len(q) - n)
        PROVE  b[i].len = 0
    <3>1. n + i \in 1..Len(q) /\ n + i > n
      BY <1>1, <1>5
    <3>2. FirstLen(q[n + i], r) = 0
      BY <3>1, <1>8 DEF FirstLen
    <3> QED  BY <3>1, <3>2, <1>1, <1>6
  <2> QED  BY <2>1, <1>5, <1>6, BytesZero
<1> QED  BY <1>7, <1>8 DEF FirstsFrom, n

\* If every first copy has a number from k on, counting may start there.
LEMMA FirstsRaise ==
    ASSUME NEW q \in Seq(Blocks), NEW r \in Nat, NEW k \in Nat, r <= k,
           \A i \in 1..Len(q) : q[i].re \/ q[i].seq >= k
    PROVE  FirstsFrom(q, r) = FirstsFrom(q, k)
<1>1. /\ Len(Firsts(q, r)) = Len(q) /\ Len(Firsts(q, k)) = Len(q)
      /\ Measured(Firsts(q, k))
      /\ \A i \in 1..Len(q) : /\ Firsts(q, r)[i].len = FirstLen(q[i], r)
                              /\ Firsts(q, k)[i].len = FirstLen(q[i], k)
                              /\ q[i] \in Blocks
  BY FirstsMeasured
<1>2. \A i \in 1..Len(q) : FirstLen(q[i], r) = FirstLen(q[i], k)
  <2> SUFFICES ASSUME NEW i \in 1..Len(q)
               PROVE  FirstLen(q[i], r) = FirstLen(q[i], k)
    OBVIOUS
  <2>1. q[i].seq \in Nat
    BY <1>1, BlockFields
  <2> QED  BY <2>1 DEF FirstLen
<1>3. Bytes(Firsts(q, r)) = Bytes(Firsts(q, k))
  BY <1>1, <1>2, BytesSame
<1> QED  BY <1>3 DEF FirstsFrom

\* The counted lengths of the sent queue are numbers.
LEMMA OutsMeasured ==
    ASSUME NEW q \in Seq(SentBlocks), NEW r
    PROVE  /\ Len(q) \in Nat /\ Len(Outs(q, r)) = Len(q)
           /\ \A i \in 1..Len(q) : /\ q[i] \in SentBlocks
                                   /\ q[i].seq \in Nat /\ q[i].len \in Nat
                                   /\ Outs(q, r)[i].len = OutLen(q[i], r)
                                   /\ OutLen(q[i], r) \in Nat
           /\ Measured(Outs(q, r)) /\ OutFrom(q, r) \in Nat
<1>1. Len(q) \in Nat /\ \A i \in 1..Len(q) : q[i] \in SentBlocks
  OBVIOUS
<1>2. \A b \in SentBlocks : b.seq \in Nat /\ b.len \in Nat /\ OutLen(b, r) \in Nat
  BY LinkAssumption DEF SentBlocks, OutLen
<1>3. Len(Outs(q, r)) = Len(q)
  <2> DEFINE S == [len : Nat]
  <2>1. \A i \in 1..Len(q) : [len |-> OutLen(q[i], r)] \in S
    BY <1>1, <1>2
  <2>2. Outs(q, r) \in [1..Len(q) -> S]
    BY <2>1 DEF Outs
  <2> QED  BY <1>1, <2>2, FunctionIsSeq
<1>4. \A i \in 1..Len(q) : Outs(q, r)[i].len = OutLen(q[i], r)
  BY DEF Outs
<1>5. Measured(Outs(q, r))
  BY <1>1, <1>2, <1>3, <1>4 DEF Measured
<1>6. OutFrom(q, r) \in Nat
  BY <1>5, BytesType DEF OutFrom
<1> QED  BY <1>1, <1>2, <1>3, <1>4, <1>5, <1>6

\* From its first block on, the queue counts all its bytes.
LEMMA OutAll ==
    ASSUME NEW q \in Seq(SentBlocks), NEW r \in Nat,
           \A i \in 1..Len(q) : q[i].seq >= r
    PROVE  OutFrom(q, r) = Bytes(q)
<1>1. /\ Len(Outs(q, r)) = Len(q)
      /\ \A i \in 1..Len(q) : /\ q[i].seq \in Nat
                              /\ Outs(q, r)[i].len = OutLen(q[i], r)
  BY OutsMeasured
<1>2. \A i \in 1..Len(q) : OutLen(q[i], r) = q[i].len
  BY <1>1 DEF OutLen
<1>3. Measured(q)
  BY SentMeasured
<1>4. Bytes(Outs(q, r)) = Bytes(q)
  BY <1>1, <1>2, <1>3, BytesSame
<1> QED  BY <1>4 DEF OutFrom

\* Beyond its last block it counts none.
LEMMA OutNone ==
    ASSUME NEW q \in Seq(SentBlocks), NEW r \in Nat,
           \A i \in 1..Len(q) : q[i].seq < r
    PROVE  OutFrom(q, r) = 0
<1>1. /\ Len(Outs(q, r)) = Len(q) /\ Len(q) \in Nat
      /\ \A i \in 1..Len(q) : Outs(q, r)[i].len = OutLen(q[i], r)
  BY OutsMeasured
<1>2. \A i \in 1..Len(q) : OutLen(q[i], r) = 0
  BY DEF OutLen
<1>3. Bytes(Outs(q, r)) = 0
  BY <1>1, <1>2, BytesZero
<1> QED  BY <1>3 DEF OutFrom

\* Only numbers and lengths matter.
LEMMA OutSame ==
    ASSUME NEW q \in Seq(SentBlocks), NEW t \in Seq(SentBlocks), Len(t) = Len(q), NEW r,
           \A i \in 1..Len(q) : t[i].seq = q[i].seq /\ t[i].len = q[i].len
    PROVE  OutFrom(t, r) = OutFrom(q, r)
<1>1. /\ Len(Outs(q, r)) = Len(q) /\ Measured(Outs(q, r)) /\ Len(Outs(t, r)) = Len(t)
      /\ \A i \in 1..Len(q) : Outs(q, r)[i].len = OutLen(q[i], r)
      /\ \A i \in 1..Len(t) : Outs(t, r)[i].len = OutLen(t[i], r)
  BY OutsMeasured
<1>2. \A i \in 1..Len(q) : OutLen(q[i], r) = OutLen(t[i], r)
  BY DEF OutLen
<1>3. Bytes(Outs(t, r)) = Bytes(Outs(q, r))
  BY <1>1, <1>2, BytesSame
<1> QED  BY <1>3 DEF OutFrom

\* A block more.
LEMMA OutAppend ==
    ASSUME NEW q \in Seq(SentBlocks), NEW c \in SentBlocks, NEW r
    PROVE  OutFrom(Append(q, c), r) = OutFrom(q, r) + OutLen(c, r)
<1> DEFINE t == Append(q, c)
<1>1. /\ t \in Seq(SentBlocks) /\ Len(t) = Len(q) + 1 /\ Len(q) \in Nat
      /\ \A i \in 1..Len(q) : t[i] = q[i]
      /\ t[Len(q) + 1] = c
  BY AppendFacts
<1> HIDE DEF t
<1>2. /\ Len(Outs(q, r)) = Len(q) /\ Measured(Outs(q, r))
      /\ \A i \in 1..Len(q) : Outs(q, r)[i].len = OutLen(q[i], r)
  BY OutsMeasured
<1>3. /\ Len(Outs(t, r)) = Len(t)
      /\ \A i \in 1..Len(t) : /\ Outs(t, r)[i].len = OutLen(t[i], r)
                              /\ OutLen(t[i], r) \in Nat
  BY <1>1, OutsMeasured
<1>4. \A i \in 1..Len(q) : Outs(t, r)[i].len = Outs(q, r)[i].len
  BY <1>1, <1>2, <1>3
<1>5. Outs(t, r)[Len(q) + 1].len = OutLen(c, r) /\ OutLen(c, r) \in Nat
  BY <1>1, <1>3
<1>6. Bytes(Outs(t, r)) = Bytes(Outs(q, r)) + OutLen(c, r)
  BY <1>1, <1>2, <1>3, <1>4, <1>5, BytesAppend
<1> QED  BY <1>6 DEF OutFrom, t

\* The acknowledged blocks are dropped: they did not count.
LEMMA OutDrop ==
    ASSUME NEW q \in Seq(SentBlocks), NEW n \in 0..Len(q), NEW r \in Nat,
           \A i \in 1..n : q[i].seq < r,
           NEW t \in Seq(SentBlocks), Len(t) = Len(q) - n,
           \A i \in 1..(Len(q) - n) : t[i] = q[i + n]
    PROVE  OutFrom(t, r) = OutFrom(q, r)
<1> DEFINE a == [i \in 1..n |-> [len |-> 0]]
<1>1. /\ Len(Outs(q, r)) = Len(q) /\ Measured(Outs(q, r)) /\ Len(q) \in Nat
      /\ \A i \in 1..Len(q) : Outs(q, r)[i].len = OutLen(q[i], r)
  BY OutsMeasured
<1>2. /\ Len(Outs(t, r)) = Len(t) /\ Bytes(Outs(t, r)) \in Nat
      /\ \A i \in 1..Len(t) : Outs(t, r)[i].len = OutLen(t[i], r)
  BY OutsMeasured DEF OutFrom
<1>3. Len(a) = n /\ \A i \in 1..n : a[i].len = 0
  <2>1. a \in [1..n -> [len : Nat]] /\ n \in Nat
    BY <1>1
  <2>2. Len(a) = n
    <3> HIDE DEF a
    <3> QED  BY <2>1, FunctionIsSeq
  <2> QED  BY <2>2
<1> HIDE DEF a
<1>4. \A i \in 1..n : a[i].len = Outs(q, r)[i].len
  <2> SUFFICES ASSUME NEW i \in 1..n
               PROVE  a[i].len = Outs(q, r)[i].len
    OBVIOUS
  <2>1. i \in 1..Len(q) /\ OutLen(q[i], r) = 0
    BY <1>1 DEF OutLen
  <2> QED  BY <2>1, <1>1, <1>3
<1>5. \A i \in 1..(Len(q) - n) : Outs(t, r)[i].len = Outs(q, r)[n + i].len
  <2> SUFFICES ASSUME NEW i \in 1..(Len(q) - n)
               PROVE  Outs(t, r)[i].len = Outs(q, r)[n + i].len
    OBVIOUS
  <2>1. n + i \in 1..Len(q) /\ i + n = n + i /\ i \in 1..Len(t)
    BY <1>1
  <2>2. t[i] = q[n + i]
    BY <2>1
  <2> QED  BY <2>1, <2>2, <1>1, <1>2
<1>6. Bytes(Outs(q, r)) = Bytes(a) + Bytes(Outs(t, r))
  <2>1. PICK x, y : x = Outs(q, r) /\ y = Outs(t, r)
    OBVIOUS
  <2>2. Splits(x, n, a, y)
    BY <2>1, <1>1, <1>2, <1>3, <1>4, <1>5 DEF Splits
  <2>3. Bytes(x) = Bytes(a) + Bytes(y)
    BY <2>2, BytesSplit
  <2> QED  BY <2>1, <2>3
<1>7. Bytes(a) = 0
  BY <1>1, <1>3, BytesZero
<1> QED  BY <1>2, <1>6, <1>7 DEF OutFrom
-----------------------------------------------------------------------------
(* First copies fit the receive buffer *)

\* The bytes under way of first copies with a number from r on.
FirstsUnderWay(r) == FirstsFrom(receive_buf, r) + FirstsFrom(h2m, r)

\* From whatever block on, they are at most those of the sent queue.
Covered ==
    \A r \in Nat : r >= receive_seq => FirstsUnderWay(r) <= OutFrom(sent_queue, r)

\* A first copy follows blocks with smaller numbers only.
Before(b, c) == c.re \/ b.seq < c.seq

Ordered ==
    /\ \A i, j \in 1..Len(receive_buf) : i < j => Before(receive_buf[i], receive_buf[j])
    /\ \A i, j \in 1..Len(h2m) : i < j => Before(h2m[i], h2m[j])
    /\ \A i \in 1..Len(receive_buf), j \in 1..Len(h2m) : Before(receive_buf[i], h2m[j])

\* Once the firmware has executed a block, first copies are of blocks it has still
\* to execute, except for the one it holds in its buffer during the dispatch.
ToCome(b) == b.re \/ b.seq >= next_sequence

Held ==
    /\ receive_buf # <<>> /\ receive_buf[1].ok /\ ~receive_buf[1].re
    /\ receive_buf[1].seq = next_sequence - 1

Ahead ==
    executed # <<>> =>
      /\ \A i \in 1..Len(receive_buf) : ToCome(receive_buf[i]) \/ (i = 1 /\ Held)
      /\ \A i \in 1..Len(h2m) : ToCome(h2m[i])

\* No ack for the block held is under way or was read, and if a response has
\* dropped it from the sent queue, last_ack_bytes counts it.
Unacked ==
    executed # <<>> /\ Held =>
      /\ \A i \in 1..Len(m2h) : ~m2h[i].data => m2h[i].seq < next_sequence
      /\ last_ack_seq < next_sequence
      /\ receive_seq = next_sequence => receive_buf[1].len <= last_ack_bytes

\* No copy is longer than the block.
Sized(b) ==
    \A i \in 1..Len(sent_queue) : sent_queue[i].seq = b.seq => b.len <= sent_queue[i].len

AllSized ==
    /\ \A i \in 1..Len(receive_buf) : Sized(receive_buf[i])
    /\ \A i \in 1..Len(h2m) : Sized(h2m[i])

\* The window is known after the firmware has answered a block, so that ...
Known ==
    /\ last_ack_seq <= next_sequence
    /\ identified => executed # <<>>
    /\ dispatching # 0 => executed # <<>>
    /\ \A i \in 1..Len(m2h) : m2h[i].req # 0 => executed # <<>>
    /\ receive_window # 0 => identified

\* ... all blocks sent before are identify requests.
Small ==
    receive_window = 0 =>
      /\ \A i \in 1..Len(sent_queue) : sent_queue[i].len = IdentifyLen
      /\ last_ack_bytes \in {0, IdentifyLen}

Fit == receive_window # 0 => FirstsUnderWay(0) <= RxSize

Windowed ==
    /\ Covered /\ Ordered /\ Ahead /\ Unacked /\ AllSized /\ Known /\ Small /\ Fit

\* Blocks under way are well formed.
LEMMA WireFields ==
    ASSUME IndInv
    PROVE  /\ receive_buf \in Seq(Blocks) /\ h2m \in Seq(Blocks)
           /\ Len(receive_buf) \in Nat /\ Len(h2m) \in Nat
           /\ \A i \in 1..Len(receive_buf) :
                /\ receive_buf[i] \in Blocks /\ receive_buf[i].seq \in Nat
                /\ receive_buf[i].len \in Nat /\ receive_buf[i].re \in BOOLEAN
           /\ \A i \in 1..Len(h2m) :
                /\ h2m[i] \in Blocks /\ h2m[i].seq \in Nat
                /\ h2m[i].len \in Nat /\ h2m[i].re \in BOOLEAN
<1>1. LinkTypes
  BY DEF IndInv
<1>2. /\ \A i \in 1..Len(receive_buf) : receive_buf[i] \in Blocks
      /\ \A i \in 1..Len(h2m) : h2m[i] \in Blocks
  BY <1>1, SeqNumbers
<1>3. /\ receive_buf \in Seq(Blocks) /\ h2m \in Seq(Blocks)
      /\ Len(receive_buf) \in Nat /\ Len(h2m) \in Nat
  BY <1>1 DEF LinkTypes
<1> QED  BY <1>2, <1>3, BlockFields

\* Fewer bytes under way are covered and fit as well.
LEMMA LessUnderWay ==
    ASSUME Covered, Fit, UNCHANGED <<receive_seq, sent_queue, receive_window>>,
           \A r \in Nat : FirstsUnderWay(r) \in Nat /\ FirstsUnderWay(r)' \in Nat
                            /\ FirstsUnderWay(r)' <= FirstsUnderWay(r),
           \A r \in Nat : OutFrom(sent_queue, r) \in Nat,
           receive_seq \in Nat, RxSize \in Nat
    PROVE  Covered' /\ Fit'
<1>1. ASSUME NEW r \in Nat, r >= receive_seq
      PROVE  FirstsUnderWay(r)' <= OutFrom(sent_queue, r)
  <2>1. FirstsUnderWay(r) <= OutFrom(sent_queue, r)
    BY <1>1 DEF Covered
  <2>2. FirstsUnderWay(r) \in Nat /\ FirstsUnderWay(r)' \in Nat
           /\ FirstsUnderWay(r)' <= FirstsUnderWay(r) /\ OutFrom(sent_queue, r) \in Nat
    OBVIOUS
  <2> QED  BY <2>1, <2>2
<1>2. ASSUME receive_window # 0
      PROVE  FirstsUnderWay(0)' <= RxSize
  <2>1. FirstsUnderWay(0) <= RxSize
    BY <1>2 DEF Fit
  <2>2. FirstsUnderWay(0) \in Nat /\ FirstsUnderWay(0)' \in Nat
           /\ FirstsUnderWay(0)' <= FirstsUnderWay(0)
    OBVIOUS
  <2> QED  BY <2>1, <2>2
<1>3. Fit'
  BY <1>2 DEF Fit
<1>4. Covered'
  BY <1>1 DEF Covered
<1> QED  BY <1>3, <1>4

\* What is needed of the types for it.
LEMMA SumTypes ==
    ASSUME SenderInv
    PROVE  /\ \A r \in Nat : /\ FirstsUnderWay(r) \in Nat
                             /\ FirstsFrom(receive_buf, r) \in Nat
                             /\ FirstsFrom(h2m, r) \in Nat
                             /\ OutFrom(sent_queue, r) \in Nat
           /\ receive_seq \in Nat /\ RxSize \in Nat
<1>1. IndInv /\ LinkTypes
  BY DEF SenderInv, IndInv
<1>2. receive_buf \in Seq(Blocks) /\ h2m \in Seq(Blocks) /\ sent_queue \in Seq(SentBlocks)
      /\ receive_seq \in Nat
  BY <1>1 DEF LinkTypes
<1>3. ASSUME NEW r \in Nat
      PROVE  /\ FirstsFrom(receive_buf, r) \in Nat /\ FirstsFrom(h2m, r) \in Nat
             /\ OutFrom(sent_queue, r) \in Nat /\ FirstsUnderWay(r) \in Nat
  <2>1. /\ FirstsFrom(receive_buf, r) \in Nat /\ FirstsFrom(h2m, r) \in Nat
        /\ OutFrom(sent_queue, r) \in Nat
    BY <1>2, FirstsMeasured, OutsMeasured
  <2>2. FirstsUnderWay(r) \in Nat
    BY <2>1 DEF FirstsUnderWay
  <2> QED  BY <2>1, <2>2
<1>4. RxSize \in Nat
  BY LinkAssumption
<1> QED  BY <1>2, <1>3, <1>4

\* The first block of the wire is stored, damaged, truncated or lost.
LEMMA WireStepWindow ==
    ASSUME SenderInv, Windowed,
           UNCHANGED <<receive_seq, sent_queue, receive_window, last_ack_seq,
                       last_ack_bytes, identified, m2h, next_sequence, dispatching,
                       executed>>,
           h2m # <<>>, h2m' = Tail(h2m),
           \/ receive_buf' = receive_buf
           \/ \E c \in Blocks : /\ c.seq = Head(h2m).seq /\ c.re = Head(h2m).re
                               /\ c.len <= Head(h2m).len
                               /\ receive_buf' = Append(receive_buf, c)
    PROVE  Windowed'
<1> DEFINE B == receive_buf
           W == h2m
<1>i. IndInv
  BY DEF SenderInv
<1>t. /\ B \in Seq(Blocks) /\ W \in Seq(Blocks) /\ Len(B) \in Nat /\ Len(W) \in Nat
      /\ \A i \in 1..Len(B) : B[i] \in Blocks /\ B[i].seq \in Nat /\ B[i].len \in Nat
      /\ \A i \in 1..Len(W) : W[i] \in Blocks /\ W[i].seq \in Nat /\ W[i].len \in Nat
  BY <1>i, WireFields
<1>n. next_sequence \in Nat /\ receive_seq \in Nat
  BY <1>i, CountersAreNumbers DEF Counters
<1>o. Covered /\ Ordered /\ Ahead /\ Unacked /\ AllSized /\ Known /\ Small /\ Fit
  BY DEF Windowed
<1>1. /\ W' \in Seq(Blocks) /\ Len(W') = Len(W) - 1 /\ 1 \in 1..Len(W) /\ Head(W) = W[1]
      /\ \A i \in 1..Len(W') : W'[i] = W[i + 1] /\ i + 1 \in 1..Len(W) /\ 1 < i + 1
      /\ \A i, j \in 1..Len(W') : i < j => i + 1 < j + 1
  BY <1>t, TailFacts
<1>2. ASSUME NEW r \in Nat
      PROVE  /\ FirstsFrom(W, r) = FirstLen(W[1], r) + FirstsFrom(W', r)
             /\ FirstLen(W[1], r) \in Nat /\ FirstsFrom(W', r) \in Nat
  BY <1>t, FirstsTail
<1>3. CASE receive_buf' = receive_buf
  <2>1. \A r \in Nat : /\ FirstsUnderWay(r) \in Nat /\ FirstsUnderWay(r)' \in Nat
                       /\ FirstsUnderWay(r)' <= FirstsUnderWay(r)
    <3> SUFFICES ASSUME NEW r \in Nat
                 PROVE  /\ FirstsUnderWay(r) \in Nat /\ FirstsUnderWay(r)' \in Nat
                        /\ FirstsUnderWay(r)' <= FirstsUnderWay(r)
      OBVIOUS
    <3>1. FirstsFrom(B, r) \in Nat
      BY SumTypes
    <3>2. FirstsUnderWay(r)' = FirstsFrom(B, r) + FirstsFrom(W', r)
      BY <1>3 DEF FirstsUnderWay
    <3>3. FirstsUnderWay(r) = FirstsFrom(B, r) + FirstsFrom(W, r)
      BY DEF FirstsUnderWay
    <3>f. /\ FirstsFrom(W, r) = FirstLen(W[1], r) + FirstsFrom(W', r)
          /\ FirstLen(W[1], r) \in Nat /\ FirstsFrom(W', r) \in Nat
      BY <1>2
    <3> HIDE DEF B, W
    <3> QED  BY <3>1, <3>2, <3>3, <3>f
  <2>2. Covered' /\ Fit'
    BY <2>1, <1>o, LessUnderWay, SumTypes
  <2>3. Ordered'
    <3>1. \A i, j \in 1..Len(W') : i < j => Before(W'[i], W'[j])
      BY <1>1, <1>o DEF Ordered
    <3>2. \A i \in 1..Len(B), j \in 1..Len(W') : Before(B[i], W'[j])
      BY <1>1, <1>o DEF Ordered
    <3> QED  BY <3>1, <3>2, <1>3, <1>o DEF Ordered, Before
  <2>4. Ahead'
    <3>1. executed # <<>> => \A i \in 1..Len(W') : ToCome(W'[i])
      BY <1>1, <1>o DEF Ahead
    <3> QED  BY <3>1, <1>3, <1>o DEF Ahead, ToCome, Held
  <2>5. AllSized'
    <3>1. \A i \in 1..Len(W') : Sized(W'[i])
      BY <1>1, <1>o DEF AllSized
    <3> QED  BY <3>1, <1>3, <1>o DEF AllSized, Sized
  <2>6. Unacked' /\ Known' /\ Small'
    BY <1>3, <1>o DEF Unacked, Known, Small, Held
  <2> QED  BY <2>2, <2>3, <2>4, <2>5, <2>6 DEF Windowed
<1>4. ASSUME NEW c \in Blocks, c.seq = Head(h2m).seq, c.re = Head(h2m).re,
             c.len <= Head(h2m).len, receive_buf' = Append(receive_buf, c)
      PROVE  Windowed'
  <2>0. c.seq = W[1].seq /\ c.re = W[1].re /\ c.len <= W[1].len /\ W[1].len \in Nat
        /\ c.len \in Nat /\ c.seq \in Nat
    BY <1>4, <1>1, <1>t, BlockFields
  <2>1. /\ B' \in Seq(Blocks) /\ Len(B') = Len(B) + 1
        /\ \A i \in 1..Len(B) : B'[i] = B[i]
        /\ B'[Len(B) + 1] = c
        /\ \A i \in 1..Len(B') : i \in 1..Len(B) \/ i = Len(B) + 1
        /\ \A i, j \in 1..Len(B') : i < j => i \in 1..Len(B)
    <3>1. /\ B' \in Seq(Blocks) /\ Len(B') = Len(B) + 1
          /\ \A i \in 1..Len(B) : B'[i] = B[i]
          /\ B'[Len(B) + 1] = c
      BY <1>4, <1>t, AppendFacts
    <3> QED  BY <3>1, <1>t
  <2>2. \A r \in Nat : /\ FirstsUnderWay(r) \in Nat /\ FirstsUnderWay(r)' \in Nat
                       /\ FirstsUnderWay(r)' <= FirstsUnderWay(r)
    <3> SUFFICES ASSUME NEW r \in Nat
                 PROVE  /\ FirstsUnderWay(r) \in Nat /\ FirstsUnderWay(r)' \in Nat
                        /\ FirstsUnderWay(r)' <= FirstsUnderWay(r)
      OBVIOUS
    <3>1. FirstsFrom(B, r) \in Nat
      BY SumTypes
    <3>2. FirstsUnderWay(r)' = FirstsFrom(B', r) + FirstsFrom(W', r)
      BY DEF FirstsUnderWay
    <3>3. FirstsUnderWay(r) = FirstsFrom(B, r) + FirstsFrom(W, r)
      BY DEF FirstsUnderWay
    <3>4. FirstsFrom(B', r) = FirstsFrom(B, r) + FirstLen(c, r)
      BY <1>4, <1>t, FirstsAppend
    <3>5. FirstLen(c, r) \in Nat /\ FirstLen(c, r) <= FirstLen(W[1], r)
      BY <2>0 DEF FirstLen
    <3>f. /\ FirstsFrom(W, r) = FirstLen(W[1], r) + FirstsFrom(W', r)
          /\ FirstLen(W[1], r) \in Nat /\ FirstsFrom(W', r) \in Nat
      BY <1>2
    <3> HIDE DEF B, W
    <3> QED  BY <3>1, <3>2, <3>3, <3>4, <3>5, <3>f
  <2>3. Covered' /\ Fit'
    BY <2>2, <1>o, LessUnderWay, SumTypes
  <2>4. Ordered'
    <3>1. \A i, j \in 1..Len(W') : i < j => Before(W'[i], W'[j])
      BY <1>1, <1>o DEF Ordered
    <3>2. \A i \in 1..Len(B'), j \in 1..Len(W') : Before(B'[i], W'[j])
      <4> SUFFICES ASSUME NEW i \in 1..Len(B'), NEW j \in 1..Len(W')
                   PROVE  Before(B'[i], W'[j])
        OBVIOUS
      <4>1. CASE i \in 1..Len(B)
        BY <4>1, <2>1, <1>1, <1>o DEF Ordered
      <4>2. CASE i = Len(B) + 1
        BY <4>2, <2>0, <2>1, <1>1, <1>o DEF Ordered, Before
      <4> QED  BY <4>1, <4>2, <2>1
    <3>3. \A i, j \in 1..Len(B') : i < j => Before(B'[i], B'[j])
      <4> SUFFICES ASSUME NEW i \in 1..Len(B'), NEW j \in 1..Len(B'), i < j
                   PROVE  Before(B'[i], B'[j])
        OBVIOUS
      <4>0. i \in 1..Len(B) /\ B'[i] = B[i]
        BY <2>1
      <4>1. CASE j \in 1..Len(B)
        BY <4>0, <4>1, <2>1, <1>o DEF Ordered
      <4>2. CASE j = Len(B) + 1
        BY <4>0, <4>2, <2>0, <2>1, <1>1, <1>o DEF Ordered, Before
      <4> QED  BY <4>1, <4>2, <2>1
    <3> QED  BY <3>1, <3>2, <3>3 DEF Ordered, Before
  <2>5. B # <<>> => (Held' <=> Held)
    <3>1. B # <<>> => 1 \in 1..Len(B)
      BY <1>t
    <3>2. B # <<>> => B'[1] = B[1] /\ B' # <<>>
      BY <3>1, <2>1
    <3> QED  BY <3>2 DEF Held
  <2>6. executed # <<>> => ToCome(c)
    BY <2>0, <1>1, <1>o DEF Ahead, ToCome
  <2>7. ASSUME executed # <<>>, B = <<>>
        PROVE  ~Held'
    <3>1. Len(B) + 1 = 1
      BY <2>7
    <3>2. B'[1] = c
      BY <3>1, <2>1
    <3> QED  BY <3>2, <2>0, <2>6, <2>7, <1>n DEF Held, ToCome
  <2>8. Ahead'
    <3> SUFFICES ASSUME executed # <<>>
                 PROVE  /\ \A i \in 1..Len(B') : ToCome(B'[i]) \/ (i = 1 /\ Held')
                        /\ \A i \in 1..Len(W') : ToCome(W'[i])
      BY DEF Ahead, ToCome
    <3>1. \A i \in 1..Len(W') : ToCome(W'[i])
      BY <1>1, <1>o DEF Ahead
    <3>2. ASSUME NEW i \in 1..Len(B')
          PROVE  ToCome(B'[i]) \/ (i = 1 /\ Held')
      <4>1. CASE i \in 1..Len(B)
        <5>1. B # <<>> /\ B'[i] = B[i]
          BY <4>1, <2>1
        <5> QED  BY <4>1, <5>1, <2>5, <1>o DEF Ahead
      <4>2. CASE i = Len(B) + 1
        BY <4>2, <2>1, <2>6
      <4> QED  BY <4>1, <4>2, <2>1
    <3> QED  BY <3>1, <3>2
  <2>9. Unacked'
    <3> SUFFICES ASSUME executed # <<>>, Held'
                 PROVE  /\ \A i \in 1..Len(m2h) : ~m2h[i].data => m2h[i].seq < next_sequence
                        /\ last_ack_seq < next_sequence
                        /\ receive_seq = next_sequence => B'[1].len <= last_ack_bytes
      BY DEF Unacked
    <3>1. B # <<>> /\ Held
      BY <2>5, <2>7
    <3>2. 1 \in 1..Len(B)
      BY <3>1, <1>t
    <3>3. B'[1] = B[1]
      BY <3>2, <2>1
    <3> QED  BY <3>1, <3>3, <1>o DEF Unacked
  <2>10. AllSized'
    <3>1. \A i \in 1..Len(W') : Sized(W'[i])
      BY <1>1, <1>o DEF AllSized
    <3>2. Sized(c)
      <4>1. Sized(W[1])
        BY <1>1, <1>o DEF AllSized
      <4>2. \A i \in 1..Len(sent_queue) : sent_queue[i].len \in 1..MaxLen
        BY <1>i, SentFields
      <4>3. ASSUME NEW i \in 1..Len(sent_queue), sent_queue[i].seq = c.seq
            PROVE  c.len <= sent_queue[i].len
        <5>1. W[1].len <= sent_queue[i].len
          BY <4>1, <4>3, <2>0 DEF Sized
        <5>2. sent_queue[i].len \in Int
          BY <4>2
        <5> QED  BY <5>1, <5>2, <2>0
      <4> QED  BY <4>3 DEF Sized
    <3>3. \A i \in 1..Len(B') : Sized(B'[i])
      BY <3>2, <2>1, <1>o DEF AllSized
    <3> QED  BY <3>1, <3>3 DEF AllSized, Sized
  <2>11. Known' /\ Small'
    BY <1>o DEF Known, Small
  <2> QED  BY <2>3, <2>4, <2>8, <2>9, <2>10, <2>11 DEF Windowed
<1> QED  BY <1>3, <1>4
\* The first block leaves the receive buffer; a message may be sent.
LEMMA PopWindow ==
    ASSUME SenderInv, Windowed,
           UNCHANGED <<receive_seq, sent_queue, receive_window, last_ack_seq,
                       last_ack_bytes, identified, h2m, next_sequence, executed>>,
           receive_buf # <<>>, receive_buf' = Tail(receive_buf),
           dispatching' = 0,
           \/ m2h' = m2h
           \/ \E f \in Frames : f.req = dispatching /\ m2h' = Append(m2h, f)
    PROVE  Windowed'
<1> DEFINE B == receive_buf
<1>i. IndInv /\ m2h \in Seq(Frames)
  BY DEF SenderInv, IndInv, LinkTypes
<1>t. /\ B \in Seq(Blocks) /\ Len(B) \in Nat
      /\ \A i \in 1..Len(B) : B[i] \in Blocks /\ B[i].seq \in Nat /\ B[i].len \in Nat
  BY <1>i, WireFields
<1>n. next_sequence \in Nat /\ receive_seq \in Nat
  BY <1>i, CountersAreNumbers DEF Counters
<1>o. Covered /\ Ordered /\ Ahead /\ Unacked /\ AllSized /\ Known /\ Small /\ Fit
  BY DEF Windowed
<1>1. /\ B' \in Seq(Blocks) /\ Len(B') = Len(B) - 1
      /\ \A i \in 1..Len(B') : B'[i] = B[i + 1] /\ i + 1 \in 1..Len(B) /\ i + 1 # 1
      /\ \A i, j \in 1..Len(B') : i < j => i + 1 < j + 1
  BY <1>t, TailFacts
<1>2. \A r \in Nat : /\ FirstsUnderWay(r) \in Nat /\ FirstsUnderWay(r)' \in Nat
                     /\ FirstsUnderWay(r)' <= FirstsUnderWay(r)
  <2> SUFFICES ASSUME NEW r \in Nat
               PROVE  /\ FirstsUnderWay(r) \in Nat /\ FirstsUnderWay(r)' \in Nat
                      /\ FirstsUnderWay(r)' <= FirstsUnderWay(r)
    OBVIOUS
  <2>1. FirstsFrom(h2m, r) \in Nat
    BY SumTypes
  <2>2. FirstsUnderWay(r)' = FirstsFrom(B', r) + FirstsFrom(h2m, r)
    BY DEF FirstsUnderWay
  <2>3. FirstsUnderWay(r) = FirstsFrom(B, r) + FirstsFrom(h2m, r)
    BY DEF FirstsUnderWay
  <2>4. /\ FirstsFrom(B, r) = FirstLen(B[1], r) + FirstsFrom(B', r)
        /\ FirstLen(B[1], r) \in Nat /\ FirstsFrom(B', r) \in Nat
    BY <1>t, FirstsTail
  <2> HIDE DEF B
  <2> QED  BY <2>1, <2>2, <2>3, <2>4
<1>3. Covered' /\ Fit'
  BY <1>2, <1>o, LessUnderWay, SumTypes
<1>4. Ordered'
  <2>1. \A i, j \in 1..Len(B') : i < j => Before(B'[i], B'[j])
    BY <1>1, <1>o DEF Ordered
  <2>2. \A i \in 1..Len(B'), j \in 1..Len(h2m) : Before(B'[i], h2m[j])
    BY <1>1, <1>o DEF Ordered
  <2> QED  BY <2>1, <2>2, <1>o DEF Ordered, Before
<1>5. executed # <<>> => \A i \in 1..Len(B') : ToCome(B'[i])
  BY <1>1, <1>o DEF Ahead
<1>6. executed # <<>> => ~Held'
  <2> SUFFICES ASSUME executed # <<>>, Held'
               PROVE  FALSE
    OBVIOUS
  <2>1. B' # <<>>
    BY DEF Held
  <2>2. 1 \in 1..Len(B')
    BY <2>1, <1>1
  <2>3. ToCome(B'[1]) /\ B'[1].seq \in Nat
    BY <2>2, <1>5, <1>1, <1>t
  <2> QED  BY <2>3, <1>n DEF Held, ToCome
<1>7. Ahead' /\ Unacked'
  BY <1>5, <1>6, <1>o DEF Ahead, Unacked, ToCome
<1>8. AllSized'
  <2>1. \A i \in 1..Len(B') : Sized(B'[i])
    BY <1>1, <1>o DEF AllSized
  <2> QED  BY <2>1, <1>o DEF AllSized, Sized
<1>9. Small'
  BY <1>o DEF Small
<1>10. Known'
  <2>1. \A i \in 1..Len(m2h') : m2h'[i].req # 0 => executed # <<>>
    <3>1. CASE m2h' = m2h
      BY <3>1, <1>o DEF Known
    <3>2. ASSUME NEW f \in Frames, f.req = dispatching, m2h' = Append(m2h, f)
          PROVE  \A i \in 1..Len(m2h') : m2h'[i].req # 0 => executed # <<>>
      <4>1. /\ Len(m2h') = Len(m2h) + 1 /\ Len(m2h) \in Nat
            /\ \A i \in 1..Len(m2h) : m2h'[i] = m2h[i]
            /\ m2h'[Len(m2h) + 1] = f
        BY <3>2, <1>i, AppendFacts
      <4>2. \A i \in 1..(Len(m2h) + 1) : i \in 1..Len(m2h) \/ i = Len(m2h) + 1
        BY <4>1
      <4> QED  BY <4>1, <4>2, <3>2, <1>o DEF Known
    <3> QED  BY <3>1, <3>2
  <2> QED  BY <2>1, <1>o DEF Known
<1> QED  BY <1>3, <1>4, <1>7, <1>8, <1>9, <1>10 DEF Windowed

\* Only messages to the host change: one is lost, dropped or sent with data, or a
\* dispatch is left without an answer.
LEMMA FrameWindow ==
    ASSUME SenderInv, Windowed,
           UNCHANGED <<receive_seq, sent_queue, receive_window, last_ack_seq,
                       last_ack_bytes, identified, h2m, receive_buf, next_sequence,
                       executed>>,
           dispatching' \in {0, dispatching},
           \/ m2h' = m2h
           \/ m2h # <<>> /\ m2h' = Tail(m2h)
           \/ \E f \in Frames : /\ f.req = dispatching /\ f.data
                               /\ m2h' = Append(m2h, f)
    PROVE  Windowed'
<1>i. IndInv /\ m2h \in Seq(Frames)
  BY DEF SenderInv, IndInv, LinkTypes
<1>o. Covered /\ Ordered /\ Ahead /\ Unacked /\ AllSized /\ Known /\ Small /\ Fit
  BY DEF Windowed
<1>1. Covered' /\ Fit'
  BY <1>o DEF Covered, Fit, FirstsUnderWay
<1>2. Ordered' /\ Ahead'
  BY <1>o DEF Ordered, Before, Ahead, ToCome, Held
<1>3. AllSized' /\ Small'
  BY <1>o DEF AllSized, Sized, Small
<1>4. \A i \in 1..Len(m2h') : \/ \E j \in 1..Len(m2h) : m2h'[i] = m2h[j]
                              \/ m2h'[i].data /\ m2h'[i].req = dispatching
  <2>1. CASE m2h' = m2h
    BY <2>1
  <2>2. CASE m2h # <<>> /\ m2h' = Tail(m2h)
    <3>1. /\ Len(m2h') = Len(m2h) - 1 /\ Len(m2h) \in Nat
          /\ \A i \in 1..(Len(m2h) - 1) : m2h'[i] = m2h[i + 1]
      BY <2>2, <1>i, TailFacts
    <3>2. \A i \in 1..(Len(m2h) - 1) : i + 1 \in 1..Len(m2h)
      BY <3>1
    <3> QED  BY <3>1, <3>2
  <2>3. ASSUME NEW f \in Frames, f.req = dispatching, f.data, m2h' = Append(m2h, f)
        PROVE  \A i \in 1..Len(m2h') : \/ \E j \in 1..Len(m2h) : m2h'[i] = m2h[j]
                                       \/ m2h'[i].data /\ m2h'[i].req = dispatching
    <3>1. /\ Len(m2h') = Len(m2h) + 1 /\ Len(m2h) \in Nat
          /\ \A i \in 1..Len(m2h) : m2h'[i] = m2h[i]
          /\ m2h'[Len(m2h) + 1] = f
      BY <2>3, <1>i, AppendFacts
    <3>2. \A i \in 1..(Len(m2h) + 1) : i \in 1..Len(m2h) \/ i = Len(m2h) + 1
      BY <3>1
    <3> QED  BY <3>1, <3>2, <2>3
  <2> QED  BY <2>1, <2>2, <2>3
<1>5. Unacked'
  <2> SUFFICES ASSUME executed # <<>>, Held
               PROVE  /\ \A i \in 1..Len(m2h') : ~m2h'[i].data => m2h'[i].seq < next_sequence
                      /\ last_ack_seq < next_sequence
                      /\ receive_seq = next_sequence => receive_buf[1].len <= last_ack_bytes
    BY DEF Unacked, Held
  <2> QED  BY <1>4, <1>o DEF Unacked
<1>6. Known'
  BY <1>4, <1>o DEF Known
<1> QED  BY <1>1, <1>2, <1>3, <1>5, <1>6 DEF Windowed

\* The firmware accepts a block, which stays in the buffer: no message carries the
\* new number yet.
LEMMA FindBlockWindow ==
    ASSUME SenderInv, Windowed, resets = 0, FindBlock
    PROVE  Windowed'
<1> DEFINE B == receive_buf
<1>i. IndInv /\ LinkTypes /\ SenderTypes
  BY DEF SenderInv, IndInv
<1>t. /\ B \in Seq(Blocks) /\ Len(B) \in Nat /\ Len(h2m) \in Nat
      /\ \A i \in 1..Len(B) : B[i] \in Blocks /\ B[i].seq \in Nat /\ B[i].len \in Nat
      /\ \A i \in 1..Len(h2m) : h2m[i].seq \in Nat
  BY <1>i, WireFields
<1>n. /\ next_sequence \in Nat /\ receive_seq \in Nat /\ last_ack_seq \in Nat
      /\ \A i \in 1..Len(m2h) : m2h[i].seq \in Nat
  BY <1>i, CountersAreNumbers, SeqNumbers DEF Counters, SenderTypes
<1>o. Covered /\ Ordered /\ Ahead /\ Unacked /\ AllSized /\ Known /\ Small /\ Fit
  BY DEF Windowed
<1>1. /\ UNCHANGED <<receive_seq, sent_queue, receive_window, last_ack_seq,
                     last_ack_bytes, identified, h2m, m2h, receive_buf>>
      /\ B # <<>> /\ Head(B).ok /\ next_sequence' = next_sequence + 1
      /\ executed' = Append(executed, Head(B).seq)
  BY DEF FindBlock, hostVars, txVars, ackVars
<1>2. Head(B) = B[1] /\ 1 \in 1..Len(B)
  BY <1>1, <1>t, TailFacts
<1>3. B[1].seq = next_sequence /\ B[1].ok
  BY <1>i, <1>1, <1>2, FindBlockInd
<1>4. executed' # <<>>
  <2>1. executed \in Seq(Nat) /\ B[1].seq \in Nat
    BY <1>i, <1>2, <1>t DEF LinkTypes
  <2>2. Len(executed') = Len(executed) + 1 /\ Len(executed) \in Nat
    BY <2>1, <1>1, <1>2, AppendFacts
  <2>3. Len(executed') # 0
    BY <2>2
  <2> QED  BY <2>3
<1>5. Covered' /\ Fit'
  BY <1>1, <1>o DEF Covered, Fit, FirstsUnderWay
<1>6. Ordered' /\ AllSized' /\ Small'
  BY <1>1, <1>o DEF Ordered, Before, AllSized, Sized, Small
<1>7. Known'
  BY <1>1, <1>4, <1>n, <1>o DEF Known
<1>8. Ahead'
  <2>1. ASSUME NEW j \in 1..Len(h2m)
        PROVE  h2m[j].re \/ h2m[j].seq >= next_sequence + 1
    <3>1. Before(B[1], h2m[j])
      BY <1>2, <1>o DEF Ordered
    <3> QED  BY <3>1, <1>3, <1>t, <1>n DEF Before
  <2>2. ASSUME NEW j \in 1..Len(B), j # 1
        PROVE  B[j].re \/ B[j].seq >= next_sequence + 1
    <3>1. 1 < j
      BY <2>2, <1>t
    <3>2. Before(B[1], B[j])
      BY <3>1, <1>2, <1>o DEF Ordered
    <3> QED  BY <3>2, <1>3, <1>t, <1>n DEF Before
  <2>3. B[1].re \/ Held'
    <3>1. next_sequence' - 1 = next_sequence
      BY <1>1, <1>n
    <3> QED  BY <3>1, <1>1, <1>3 DEF Held
  <2> QED  BY <2>1, <2>2, <2>3, <1>1 DEF Ahead, ToCome
<1>9. Unacked'
  <2>1. FrameInv /\ InStep
    BY <1>i DEF IndInv
  <2>2. \A i \in 1..Len(m2h) : m2h[i].seq < next_sequence + 1
    BY <2>1, <1>n DEF FrameInv
  <2>3. last_ack_seq < next_sequence + 1
    BY <1>n, <1>o DEF Known
  <2>4. receive_seq # next_sequence + 1
    BY <2>1, <1>n DEF InStep
  <2> QED  BY <2>2, <2>3, <2>4, <1>1 DEF Unacked
<1> QED  BY <1>5, <1>6, <1>7, <1>8, <1>9 DEF Windowed
\* Once the firmware has executed a block, first copies under way are covered by what
\* check_send_command() counts: the bytes not acknowledged, and the block that a
\* response has taken out of the sent queue before its ack came.
LEMMA UnderWayBound ==
    ASSUME SenderInv, Windowed, resets = 0, executed # <<>>
    PROVE  FirstsUnderWay(0)
             <= need_ack_bytes + (IF last_ack_seq < receive_seq THEN last_ack_bytes ELSE 0)
<1> DEFINE B == receive_buf
           W == h2m
           k == receive_seq
<1>i. IndInv /\ LinkTypes /\ SenderTypes /\ Accounted /\ InStep
  BY DEF SenderInv, IndInv
<1>t. /\ B \in Seq(Blocks) /\ W \in Seq(Blocks) /\ Len(B) \in Nat /\ Len(W) \in Nat
      /\ \A i \in 1..Len(B) : B[i] \in Blocks /\ B[i].seq \in Nat /\ B[i].len \in Nat
      /\ \A i \in 1..Len(W) : W[i] \in Blocks /\ W[i].seq \in Nat
  BY <1>i, WireFields
<1>n. /\ next_sequence \in Nat /\ k \in Nat /\ k <= next_sequence /\ 0 \in Nat /\ 0 <= k
      /\ last_ack_bytes \in Nat
  BY <1>i, CountersAreNumbers, LinkAssumption DEF Counters, InStep, SenderTypes
<1>s. /\ FirstsFrom(B, k) \in Nat /\ FirstsFrom(W, k) \in Nat
      /\ FirstsFrom(B, 0) \in Nat /\ FirstsFrom(W, 0) \in Nat
  BY <1>t, FirstsMeasured
<1>o. Covered /\ Ahead /\ Unacked
  BY DEF Windowed
<1>1. FirstsFrom(B, k) + FirstsFrom(W, k) <= need_ack_bytes /\ need_ack_bytes \in Nat
  <2>1. sent_queue \in Seq(SentBlocks) /\ k \in Nat
    BY <1>i DEF LinkTypes
  <2>2. \A i \in 1..Len(sent_queue) : sent_queue[i].seq >= k
    <3>1. \A i \in 1..Len(sent_queue) : sent_queue[i].seq \in Nat /\ k <= sent_queue[i].seq
      BY <1>i, SentFields
    <3> QED  BY <3>1, <2>1
  <2>3. OutFrom(sent_queue, k) = need_ack_bytes
    BY <2>1, <2>2, <1>i, OutAll DEF Accounted
  <2>4. FirstsUnderWay(k) <= OutFrom(sent_queue, k)
    <3>1. k >= receive_seq
      BY <2>1
    <3> QED  BY <3>1, <2>1, <1>o DEF Covered
  <2>5. OutFrom(sent_queue, k) \in Nat
    BY <2>1, OutsMeasured
  <2> QED  BY <2>3, <2>4, <2>5 DEF FirstsUnderWay
<1>2. FirstsFrom(W, 0) = FirstsFrom(W, k)
  <2>1. \A i \in 1..Len(W) : W[i].re \/ W[i].seq >= k
    BY <1>t, <1>n, <1>o DEF Ahead, ToCome
  <2> QED  BY <2>1, <1>t, <1>n, FirstsRaise
<1>3. FirstsUnderWay(0) = FirstsFrom(B, 0) + FirstsFrom(W, 0)
  BY DEF FirstsUnderWay
<1>4. CASE Held /\ receive_seq = next_sequence
  <2>0. B # <<>> /\ 1 \in 1..Len(B)
    BY <1>4, <1>t DEF Held
  <2>1. /\ FirstsFrom(B, 0) = FirstLen(B[1], 0) + FirstsFrom(Tail(B), 0)
        /\ FirstsFrom(B, k) = FirstLen(B[1], k) + FirstsFrom(Tail(B), k)
        /\ FirstsFrom(Tail(B), 0) \in Nat /\ FirstsFrom(Tail(B), k) \in Nat
    BY <2>0, <1>t, FirstsTail
  <2>2. FirstLen(B[1], 0) = B[1].len /\ FirstLen(B[1], k) = 0 /\ B[1].len \in Nat
    BY <1>4, <2>0, <1>t, <1>n DEF Held, FirstLen
  <2>3. FirstsFrom(Tail(B), 0) = FirstsFrom(Tail(B), k)
    <3>1. /\ Tail(B) \in Seq(Blocks) /\ Len(Tail(B)) = Len(B) - 1
          /\ \A i \in 1..(Len(B) - 1) : Tail(B)[i] = B[i + 1]
      BY <2>0, <1>t, TailFacts
    <3>2. \A i \in 1..(Len(B) - 1) : i + 1 \in 1..Len(B) /\ i + 1 # 1
      BY <1>t
    <3>3. \A i \in 1..Len(B) : i # 1 => B[i].re \/ B[i].seq >= k
      BY <1>t, <1>n, <1>o DEF Ahead, ToCome
    <3>4. \A i \in 1..Len(Tail(B)) : Tail(B)[i].re \/ Tail(B)[i].seq >= k
      BY <3>1, <3>2, <3>3
    <3> QED  BY <3>1, <3>4, <1>n, FirstsRaise
  <2>4. last_ack_seq < receive_seq /\ B[1].len <= last_ack_bytes
    BY <1>4, <1>o DEF Unacked
  <2> HIDE DEF B, W, k
  <2> QED  BY <2>1, <2>2, <2>3, <2>4, <1>1, <1>2, <1>3, <1>n, <1>s, SMTT(30)
<1>5. CASE ~(Held /\ receive_seq = next_sequence)
  <2>1. \A i \in 1..Len(B) : B[i].re \/ B[i].seq >= k
    <3>1. Held => B[1].seq = next_sequence - 1
      BY DEF Held
    <3>2. Held => next_sequence - 1 >= k
      BY <1>5, <1>n
    <3> QED  BY <3>1, <3>2, <1>t, <1>n, <1>o DEF Ahead, ToCome
  <2>2. FirstsFrom(B, 0) = FirstsFrom(B, k)
    BY <2>1, <1>t, <1>n, FirstsRaise
  <2> HIDE DEF B, W, k
  <2> QED  BY <2>2, <1>1, <1>2, <1>3, <1>n, <1>s
<1> QED  BY <1>4, <1>5

\* The host sends a block.
LEMMA SendBlockWindow ==
    ASSUME SenderInv, Windowed, resets = 0, NEW len \in 1..MaxLen,
           NEW notify \in BOOLEAN, SendBlock(len, notify)
    PROVE  Windowed'
<1> DEFINE B == receive_buf
           W == h2m
           q == sent_queue
           b == [seq |-> send_seq, len |-> len, re |-> FALSE, naks |-> 0]
           w == OnWire(b, FALSE)
<1>i. IndInv /\ LinkTypes /\ SenderTypes /\ Accounted /\ InStep /\ WireInv /\ ExecInv
  BY DEF SenderInv, IndInv
<1>t. /\ B \in Seq(Blocks) /\ W \in Seq(Blocks) /\ Len(B) \in Nat /\ Len(W) \in Nat
      /\ \A i \in 1..Len(B) : B[i].seq \in Nat
      /\ \A i \in 1..Len(W) : W[i].seq \in Nat
      /\ q \in Seq(SentBlocks) /\ Len(q) \in Nat
  BY <1>i, WireFields DEF LinkTypes
<1>n. Counters /\ last_ack_bytes \in 0..MaxLen
  BY <1>i, CountersAreNumbers DEF SenderTypes
<1>o. Covered /\ Ordered /\ Ahead /\ Unacked /\ AllSized /\ Known /\ Small /\ Fit
  BY DEF Windowed
<1>1. /\ W' = Append(W, w) /\ q' = Append(q, b) /\ WindowOpen
      /\ receive_window = 0 => len = IdentifyLen
  BY DEF SendBlock
<1>2. UNCHANGED <<receive_seq, receive_window, last_ack_seq, last_ack_bytes, identified,
                  receive_buf, m2h, next_sequence, dispatching, executed>>
  BY DEF SendBlock, ackVars, mcuVars
<1>3. /\ b \in SentBlocks /\ b.seq = send_seq /\ b.len = len
      /\ w \in Blocks /\ w.seq = send_seq /\ w.len = len /\ w.re = FALSE
  BY <1>n DEF SentBlocks, Blocks, OnWire, Counters
<1> HIDE DEF b, w
<1>4. /\ Len(W') = Len(W) + 1 /\ W'[Len(W) + 1] = w
      /\ \A i \in 1..Len(W) : W'[i] = W[i]
      /\ \A i \in 1..Len(W') : i \in 1..Len(W) \/ i = Len(W) + 1
      /\ \A i, j \in 1..Len(W') : i < j => i \in 1..Len(W)
  <2>1. /\ Len(W') = Len(W) + 1 /\ W'[Len(W) + 1] = w
        /\ \A i \in 1..Len(W) : W'[i] = W[i]
    BY <1>1, <1>3, <1>t, AppendFacts
  <2> QED  BY <2>1, <1>t
<1>5. /\ Len(q') = Len(q) + 1 /\ q'[Len(q) + 1] = b
      /\ \A i \in 1..Len(q) : q'[i] = q[i]
      /\ \A i \in 1..Len(q') : i \in 1..Len(q) \/ i = Len(q) + 1
  <2>1. /\ Len(q') = Len(q) + 1 /\ q'[Len(q) + 1] = b
        /\ \A i \in 1..Len(q) : q'[i] = q[i]
    BY <1>1, <1>3, <1>t, AppendFacts
  <2> QED  BY <2>1, <1>t
<1>6. /\ \A i \in 1..Len(B) : B[i].seq < send_seq
      /\ \A i \in 1..Len(W) : W[i].seq < send_seq
      /\ \A i \in 1..Len(q) : q[i].seq < send_seq
  <2>1. /\ \A i \in 1..Len(B) : B[i].seq < send_seq
        /\ \A i \in 1..Len(W) : W[i].seq < send_seq
    BY <1>i DEF WireInv, Near
  <2>2. \A i \in 1..Len(q) : q[i].seq < send_seq
    BY <1>i, SentFields
  <2> QED  BY <2>1, <2>2
<1>7. ASSUME NEW r \in Nat
      PROVE  /\ FirstsUnderWay(r)' = FirstsUnderWay(r) + FirstLen(w, r)
             /\ FirstsUnderWay(r) \in Nat
  <2>1. FirstsFrom(W', r) = FirstsFrom(W, r) + FirstLen(w, r)
    BY <1>1, <1>3, <1>t, FirstsAppend
  <2>2. FirstsFrom(W, r) \in Nat /\ FirstsFrom(B, r) \in Nat
    BY <1>t, FirstsMeasured
  <2>3. FirstsUnderWay(r)' = FirstsFrom(B, r) + FirstsFrom(W', r)
    BY <1>2 DEF FirstsUnderWay
  <2>4. FirstsUnderWay(r) = FirstsFrom(B, r) + FirstsFrom(W, r)
    BY DEF FirstsUnderWay
  <2>5. FirstLen(w, r) \in Nat
    BY <1>3 DEF FirstLen
  <2> HIDE DEF B, W
  <2> QED  BY <2>1, <2>2, <2>3, <2>4, <2>5
<1>8. Covered'
  <2> SUFFICES ASSUME NEW r \in Nat, r >= receive_seq
               PROVE  FirstsUnderWay(r)' <= OutFrom(q', r)
    BY <1>2 DEF Covered
  <2>1. OutFrom(q', r) = OutFrom(q, r) + OutLen(b, r) /\ OutFrom(q, r) \in Nat
    BY <1>1, <1>3, <1>t, OutAppend, OutsMeasured
  <2>2. FirstLen(w, r) = OutLen(b, r) /\ OutLen(b, r) \in Nat
    BY <1>3 DEF FirstLen, OutLen
  <2>3. FirstsUnderWay(r) <= OutFrom(q, r)
    BY <1>o DEF Covered
  <2>4. /\ FirstsUnderWay(r)' = FirstsUnderWay(r) + FirstLen(w, r)
        /\ FirstsUnderWay(r) \in Nat
    BY <1>7
  <2> QED  BY <2>1, <2>2, <2>3, <2>4
<1>9. Ordered'
  <2>1. ASSUME NEW i \in 1..Len(W'), NEW j \in 1..Len(W'), i < j
        PROVE  Before(W'[i], W'[j])
    <3>0. i \in 1..Len(W) /\ W'[i] = W[i]
      BY <2>1, <1>4
    <3>1. CASE j \in 1..Len(W)
      BY <3>0, <3>1, <2>1, <1>4, <1>o DEF Ordered
    <3>2. CASE j = Len(W) + 1
      BY <3>0, <3>2, <1>3, <1>4, <1>6 DEF Before
    <3> QED  BY <3>1, <3>2, <1>4
  <2>2. ASSUME NEW i \in 1..Len(B), NEW j \in 1..Len(W')
        PROVE  Before(B[i], W'[j])
    <3>1. CASE j \in 1..Len(W)
      BY <3>1, <1>4, <1>o DEF Ordered
    <3>2. CASE j = Len(W) + 1
      BY <3>2, <1>3, <1>4, <1>6 DEF Before
    <3> QED  BY <3>1, <3>2, <1>4
  <2> QED  BY <2>1, <2>2, <1>2, <1>o DEF Ordered, Before
<1>10. Ahead'
  <2> SUFFICES ASSUME executed # <<>>
               PROVE  /\ \A i \in 1..Len(B) : ToCome(B[i]) \/ (i = 1 /\ Held)
                      /\ \A i \in 1..Len(W') : ToCome(W'[i])
    BY <1>2 DEF Ahead, ToCome, Held
  <2>1. next_sequence <= send_seq
    <3>1. Len(executed) # 0
      BY <1>i DEF LinkTypes
    <3> QED  BY <3>1, <1>i, <1>n DEF InStep, ExecInv, Counters
  <2>2. ToCome(w)
    BY <2>1, <1>3, <1>n DEF ToCome, Counters
  <2> QED  BY <2>2, <1>4, <1>o DEF Ahead
<1>11. Unacked' /\ Known'
  BY <1>2, <1>o DEF Unacked, Held, Known
<1>12. AllSized'
  <2>1. \A i \in 1..Len(q') : q'[i].seq = w.seq => w.len <= q'[i].len
    <3>1. w.len <= b.len
      BY <1>3
    <3>2. \A i \in 1..Len(q) : q[i].seq \in Nat /\ q[i].seq # send_seq
      BY <1>6, <1>n, <1>i, SentFields DEF Counters
    <3> QED  BY <3>1, <3>2, <1>3, <1>5
  <2>2. \A i \in 1..Len(B) : \A j \in 1..Len(q') : q'[j].seq = B[i].seq => B[i].len <= q'[j].len
    <3> SUFFICES ASSUME NEW i \in 1..Len(B), NEW j \in 1..Len(q'), q'[j].seq = B[i].seq
                 PROVE  B[i].len <= q'[j].len
      OBVIOUS
    <3>1. Sized(B[i]) /\ B[i].seq < send_seq /\ B[i].seq \in Nat
      BY <1>o, <1>6, <1>t DEF AllSized
    <3>2. b.seq # B[i].seq
      BY <3>1, <1>3, <1>n DEF Counters
    <3>3. j \in 1..Len(q) /\ q'[j] = q[j]
      BY <3>2, <1>5
    <3> QED  BY <3>1, <3>3 DEF Sized
  <2>3. \A i \in 1..Len(W) : \A j \in 1..Len(q') : q'[j].seq = W[i].seq => W[i].len <= q'[j].len
    <3> SUFFICES ASSUME NEW i \in 1..Len(W), NEW j \in 1..Len(q'), q'[j].seq = W[i].seq
                 PROVE  W[i].len <= q'[j].len
      OBVIOUS
    <3>1. Sized(W[i]) /\ W[i].seq < send_seq /\ W[i].seq \in Nat
      BY <1>o, <1>6, <1>t DEF AllSized
    <3>2. b.seq # W[i].seq
      BY <3>1, <1>3, <1>n DEF Counters
    <3>3. j \in 1..Len(q) /\ q'[j] = q[j]
      BY <3>2, <1>5
    <3> QED  BY <3>1, <3>3 DEF Sized
  <2>4. \A i \in 1..Len(W') : \A j \in 1..Len(q') : q'[j].seq = W'[i].seq => W'[i].len <= q'[j].len
    BY <2>1, <2>3, <1>4
  <2> QED  BY <2>2, <2>4, <1>2 DEF AllSized, Sized
<1>13. Small'
  BY <1>1, <1>2, <1>3, <1>5, <1>o DEF Small
<1>14. Fit'
  <2> SUFFICES ASSUME receive_window # 0
               PROVE  FirstsUnderWay(0)' <= RxSize
    BY <1>2 DEF Fit
  <2> DEFINE d == IF last_ack_seq < receive_seq THEN last_ack_bytes ELSE 0
  <2>1. executed # <<>> /\ receive_window = RxSize
    BY <1>o, <1>i DEF Known, SenderTypes
  <2>2. FirstsUnderWay(0) <= need_ack_bytes + d
    BY <2>1, UnderWayBound
  <2>3. FirstsUnderWay(0)' = FirstsUnderWay(0) + len /\ FirstsUnderWay(0) \in Nat
    <3>1. FirstLen(w, 0) = len
      BY <1>3, <1>n DEF FirstLen, Counters
    <3> QED  BY <3>1, <1>7
  <2>4. /\ d \in 0..MaxLen /\ need_ack_bytes \in Nat /\ MaxLen \in Nat /\ RxSize \in Nat
        /\ 2 * MaxLen <= RxSize
    <3>1. need_ack_bytes \in Nat
      BY <1>i, <1>t, SentMeasured, BytesType DEF Accounted
    <3>2. MaxLen \in Nat /\ RxSize \in Nat /\ 2 * MaxLen <= RxSize
      BY LinkAssumption, WindowAssumption
    <3>3. d \in 0..MaxLen
      BY <1>n, <3>2
    <3> HIDE DEF d
    <3> QED  BY <3>1, <3>2, <3>3
  <2>5. \/ send_seq <= receive_seq
        \/ need_ack_bytes + MaxLen + d <= RxSize
    BY <1>1, <2>1 DEF WindowOpen
  <2>6. send_seq <= receive_seq => need_ack_bytes = 0
    <3> SUFFICES ASSUME send_seq <= receive_seq
                 PROVE  need_ack_bytes = 0
      OBVIOUS
    <3>1. Len(q) = 0
      BY <1>i, <1>n DEF IndInv, SentWindow, Counters
    <3>2. q = <<>>
      BY <3>1, <1>t
    <3> QED  BY <3>2, <1>i, BytesEmpty DEF Accounted
  <2> HIDE DEF d
  <2> QED  BY <2>2, <2>3, <2>4, <2>5, <2>6
<1> QED  BY <1>8, <1>9, <1>10, <1>11, <1>12, <1>13, <1>14 DEF Windowed
\* The host sends its queue again: copies do not count.
LEMMA RetransmitWindow ==
    ASSUME SenderInv, Windowed, resets = 0, NEW kept \in 0..Len(h2m), NEW cut \in BOOLEAN,
           NEW nak \in Nat, Retransmit(kept, cut, nak)
    PROVE  Windowed'
<1> DEFINE B == receive_buf
           W == h2m
           q == sent_queue
           F == Flushed(kept, cut)
<1>i. IndInv /\ LinkTypes
  BY DEF SenderInv, IndInv
<1>t. /\ B \in Seq(Blocks) /\ W \in Seq(Blocks) /\ Len(B) \in Nat /\ Len(W) \in Nat
      /\ q \in Seq(SentBlocks) /\ Len(q) \in Nat /\ DOMAIN q = 1..Len(q)
  BY <1>i, WireFields DEF LinkTypes
<1>o. Covered /\ Ordered /\ Ahead /\ Unacked /\ AllSized /\ Known /\ Small /\ Fit
  BY DEF Windowed
<1>1. /\ UNCHANGED <<receive_seq, receive_window, last_ack_seq, last_ack_bytes, identified,
                     receive_buf, m2h, next_sequence, dispatching, executed>>
      /\ W' = F \o Resend /\ (cut => kept < Len(W))
      /\ q' = [i \in DOMAIN q |-> Counted(q[i], nak)]
  BY DEF Retransmit, ackVars, mcuVars
<1>2. /\ F \in Seq(Blocks) /\ Len(F) <= Len(W)
      /\ \A i \in 1..Len(F) : /\ F[i].seq = W[i].seq /\ F[i].len = W[i].len
                              /\ F[i].re = W[i].re
  BY <1>1, <1>i, FlushedFacts, Zenon
<1> HIDE DEF F
<1>3. /\ Resend \in Seq(Blocks) /\ Len(Resend) = Len(q)
      /\ \A i \in 1..Len(q) : /\ Resend[i].seq = q[i].seq /\ Resend[i].len = q[i].len
                              /\ Resend[i].re
  <2>1. \A i \in 1..Len(q) : q[i] \in SentBlocks
    BY <1>t
  <2>2. \A i \in 1..Len(q) :
          /\ OnWire(q[i], TRUE) \in Blocks
          /\ OnWire(q[i], TRUE).seq = q[i].seq /\ OnWire(q[i], TRUE).len = q[i].len
          /\ OnWire(q[i], TRUE).re
    BY <2>1 DEF OnWire, Blocks, SentBlocks
  <2>3. Resend = [i \in 1..Len(q) |-> OnWire(q[i], TRUE)]
    BY <1>t DEF Resend
  <2>4. Resend \in [1..Len(q) -> Blocks]
    BY <2>2, <2>3
  <2>5. Resend \in Seq(Blocks) /\ Len(Resend) = Len(q)
    BY <1>t, <2>4, FunctionIsSeq
  <2> QED  BY <2>2, <2>3, <2>5
<1>4. /\ W' \in Seq(Blocks) /\ Len(W') = Len(F) + Len(q) /\ Len(F) \in Nat
      /\ \A i \in 1..Len(F) : W'[i] = F[i]
      /\ \A i \in 1..Len(q) : W'[Len(F) + i] = Resend[i]
  <2>1. /\ F \o Resend \in Seq(Blocks) /\ Len(F \o Resend) = Len(F) + Len(Resend)
        /\ Len(F) \in Nat
        /\ \A i \in 1..Len(F) : (F \o Resend)[i] = F[i]
        /\ \A i \in 1..Len(Resend) : (F \o Resend)[Len(F) + i] = Resend[i]
    <3>1. F \in Seq(Blocks) /\ Resend \in Seq(Blocks)
      BY <1>2, <1>3
    <3> QED  BY <3>1, ConcatFacts
  <2>2. PICK x : x = F \o Resend
    OBVIOUS
  <2>3. /\ x \in Seq(Blocks) /\ Len(x) = Len(F) + Len(q) /\ Len(F) \in Nat
        /\ \A i \in 1..Len(F) : x[i] = F[i]
        /\ \A i \in 1..Len(q) : x[Len(F) + i] = Resend[i]
    BY <2>1, <2>2, <1>3, Zenon
  <2>4. W' = x
    BY <2>2, <1>1
  <2> QED  BY <2>3, <2>4, Zenon
<1>5. \A i \in 1..Len(W') : \/ i \in 1..Len(F) /\ i \in 1..Len(W)
                            \/ i > Len(F) /\ i - Len(F) \in 1..Len(q)
                                 /\ Len(F) + (i - Len(F)) = i
  BY <1>2, <1>4, <1>t
<1>6. \A i \in 1..Len(W') : i > Len(F) => W'[i].re
  <2> SUFFICES ASSUME NEW i \in 1..Len(W'), i > Len(F)
               PROVE  W'[i].re
    OBVIOUS
  <2>1. i - Len(F) \in 1..Len(q) /\ Len(F) + (i - Len(F)) = i
    BY <1>4, <1>5
  <2>2. W'[i] = Resend[i - Len(F)]
    BY <2>1, <1>4
  <2> QED  BY <2>1, <2>2, <1>3
<1>7. /\ Len(q') = Len(q) /\ q' \in Seq(SentBlocks)
      /\ \A i \in 1..Len(q) : q'[i].seq = q[i].seq /\ q'[i].len = q[i].len
  <2>1. \A i \in 1..Len(q) : q[i] \in SentBlocks
    BY <1>t
  <2>2. \A i \in 1..Len(q) : /\ Counted(q[i], nak) \in SentBlocks
                             /\ Counted(q[i], nak).seq = q[i].seq
                             /\ Counted(q[i], nak).len = q[i].len
    BY <2>1 DEF Counted, SentBlocks
  <2>3. q' = [i \in 1..Len(q) |-> Counted(q[i], nak)]
    BY <1>1, <1>t
  <2>4. q' \in [1..Len(q) -> SentBlocks]
    BY <2>2, <2>3
  <2>5. q' \in Seq(SentBlocks) /\ Len(q') = Len(q)
    BY <1>t, <2>4, FunctionIsSeq
  <2> QED  BY <2>2, <2>3, <2>5
<1>8. ASSUME NEW r \in Nat
      PROVE  /\ FirstsUnderWay(r)' <= FirstsUnderWay(r)
             /\ FirstsUnderWay(r) \in Nat /\ FirstsUnderWay(r)' \in Nat
             /\ OutFrom(q', r) = OutFrom(q, r) /\ OutFrom(q, r) \in Nat
  <2>1. FirstsFrom(F, r) <= FirstsFrom(W, r)
    BY <1>2, <1>t, FirstsPrefix
  <2>2. FirstsFrom(F, r) = FirstsFrom(W', r)
    <3>1. PICK x : x = W'
      OBVIOUS
    <3>2. /\ x \in Seq(Blocks) /\ Len(F) <= Len(x)
          /\ \A i \in 1..Len(F) : x[i] = F[i]
          /\ \A i \in 1..Len(x) : i > Len(F) => x[i].re
      BY <3>1, <1>4, <1>6, <1>t
    <3>3. FirstsFrom(F, r) = FirstsFrom(x, r)
      BY <3>2, <1>2, FirstsPrefix
    <3> QED  BY <3>1, <3>3
  <2>3. /\ FirstsFrom(F, r) \in Nat /\ FirstsFrom(W, r) \in Nat /\ FirstsFrom(B, r) \in Nat
    BY <1>2, <1>t, FirstsMeasured
  <2>4. FirstsUnderWay(r)' = FirstsFrom(B, r) + FirstsFrom(W', r)
    BY <1>1 DEF FirstsUnderWay
  <2>5. FirstsUnderWay(r) = FirstsFrom(B, r) + FirstsFrom(W, r)
    BY DEF FirstsUnderWay
  <2>6. OutFrom(q', r) = OutFrom(q, r) /\ OutFrom(q, r) \in Nat
    <3>1. PICK x : x = q'
      OBVIOUS
    <3>2. /\ x \in Seq(SentBlocks) /\ Len(x) = Len(q)
          /\ \A i \in 1..Len(q) : x[i].seq = q[i].seq /\ x[i].len = q[i].len
      BY <3>1, <1>7
    <3>3. OutFrom(x, r) = OutFrom(q, r) /\ OutFrom(q, r) \in Nat
      BY <3>2, <1>t, OutSame, OutsMeasured
    <3> QED  BY <3>1, <3>3
  <2> HIDE DEF B, W, q
  <2> QED  BY <2>1, <2>2, <2>3, <2>4, <2>5, <2>6
<1>9. Covered'
  <2> SUFFICES ASSUME NEW r \in Nat, r >= receive_seq
               PROVE  FirstsUnderWay(r)' <= OutFrom(q', r)
    BY <1>1 DEF Covered
  <2>1. FirstsUnderWay(r) <= OutFrom(q, r)
    BY <1>o DEF Covered
  <2>2. /\ FirstsUnderWay(r)' <= FirstsUnderWay(r)
        /\ FirstsUnderWay(r) \in Nat /\ FirstsUnderWay(r)' \in Nat
        /\ OutFrom(q', r) = OutFrom(q, r) /\ OutFrom(q, r) \in Nat
    BY <1>8
  <2> QED  BY <2>1, <2>2
<1>10. Fit'
  <2> SUFFICES ASSUME receive_window # 0
               PROVE  FirstsUnderWay(0)' <= RxSize
    BY <1>1 DEF Fit
  <2>1. FirstsUnderWay(0) <= RxSize /\ RxSize \in Nat
    BY <1>o, LinkAssumption DEF Fit
  <2>2. /\ FirstsUnderWay(0)' <= FirstsUnderWay(0)
        /\ FirstsUnderWay(0) \in Nat /\ FirstsUnderWay(0)' \in Nat
    BY <1>8
  <2> QED  BY <2>1, <2>2
<1>11. Ordered'
  <2>1. ASSUME NEW i \in 1..Len(W'), NEW j \in 1..Len(W'), i < j
        PROVE  Before(W'[i], W'[j])
    <3>1. CASE j > Len(F)
      BY <3>1, <1>6 DEF Before
    <3>2. CASE ~(j > Len(F))
      <4>1. i \in 1..Len(F) /\ j \in 1..Len(F)
        BY <3>2, <2>1, <1>4
      <4>2. i \in 1..Len(W) /\ j \in 1..Len(W)
        BY <4>1, <1>2, <1>4, <1>t
      <4>3. Before(W[i], W[j])
        BY <4>2, <2>1, <1>o DEF Ordered
      <4> QED  BY <4>1, <4>3, <1>2, <1>4 DEF Before
    <3> QED  BY <3>1, <3>2
  <2>2. ASSUME NEW i \in 1..Len(B), NEW j \in 1..Len(W')
        PROVE  Before(B[i], W'[j])
    <3>1. CASE j > Len(F)
      BY <3>1, <1>6 DEF Before
    <3>2. CASE ~(j > Len(F))
      <4>1. j \in 1..Len(F) /\ j \in 1..Len(W)
        BY <3>2, <1>2, <1>4, <1>t
      <4>2. Before(B[i], W[j])
        BY <4>1, <1>o DEF Ordered
      <4> QED  BY <4>1, <4>2, <1>2, <1>4 DEF Before
    <3> QED  BY <3>1, <3>2
  <2> QED  BY <2>1, <2>2, <1>1, <1>o DEF Ordered, Before
<1>12. Ahead'
  <2> SUFFICES ASSUME executed # <<>>
               PROVE  /\ \A i \in 1..Len(B) : ToCome(B[i]) \/ (i = 1 /\ Held)
                      /\ \A i \in 1..Len(W') : ToCome(W'[i])
    BY <1>1 DEF Ahead, ToCome, Held
  <2>1. ASSUME NEW i \in 1..Len(W')
        PROVE  ToCome(W'[i])
    <3>1. CASE i > Len(F)
      BY <3>1, <1>6 DEF ToCome
    <3>2. CASE ~(i > Len(F))
      <4>1. i \in 1..Len(F) /\ i \in 1..Len(W)
        BY <3>2, <1>2, <1>4, <1>t
      <4>2. ToCome(W[i])
        BY <4>1, <1>o DEF Ahead
      <4> QED  BY <4>1, <4>2, <1>2, <1>4 DEF ToCome
    <3> QED  BY <3>1, <3>2
  <2> QED  BY <2>1, <1>o DEF Ahead
<1>13. AllSized'
  <2>1. \A i \in 1..Len(B) : \A j \in 1..Len(q) : q'[j].seq = B[i].seq => B[i].len <= q'[j].len
    BY <1>7, <1>o DEF AllSized, Sized
  <2>2. ASSUME NEW i \in 1..Len(W'), NEW j \in 1..Len(q), q'[j].seq = W'[i].seq
        PROVE  W'[i].len <= q'[j].len
    <3>1. CASE i > Len(F)
      <4>1. i - Len(F) \in 1..Len(q) /\ Len(F) + (i - Len(F)) = i
        BY <3>1, <1>4, <1>5
      <4>2. PICK m \in 1..Len(q) : m = i - Len(F)
        BY <4>1
      <4>3. W'[i] = Resend[m]
        BY <4>1, <4>2, <1>4
      <4>4. q[j].seq = q[m].seq
        BY <4>3, <2>2, <1>3, <1>7
      <4>5. /\ q[j].seq = receive_seq + j - 1 /\ q[m].seq = receive_seq + m - 1
            /\ q[m].len \in 1..MaxLen
        BY <1>i, SentFields
      <4>6. receive_seq \in Nat
        BY <1>i DEF LinkTypes
      <4>7. j = m
        <5>1. j \in Int /\ m \in Int
          BY <1>t
        <5>2. receive_seq + j - 1 = receive_seq + m - 1
          BY <4>4, <4>5
        <5> QED  BY <5>1, <5>2, <4>6
      <4> QED  BY <4>3, <4>5, <4>7, <1>3, <1>7
    <3>2. CASE ~(i > Len(F))
      <4>1. i \in 1..Len(F) /\ i \in 1..Len(W)
        BY <3>2, <1>2, <1>4, <1>t
      <4>2. Sized(W[i])
        BY <4>1, <1>o DEF AllSized
      <4> QED  BY <4>1, <4>2, <2>2, <1>2, <1>4, <1>7, SMTT(30) DEF Sized
    <3> QED  BY <3>1, <3>2
  <2>3. \A i \in 1..Len(B') : Sized(B[i])'
    <3>1. B' = B /\ Len(q') = Len(q)
      BY <1>1, <1>7
    <3>2. \A i \in 1..Len(B') : \A j \in 1..Len(q') :
            q'[j].seq = B'[i].seq => B'[i].len <= q'[j].len
      BY <2>1, <3>1, Zenon
    <3> QED  BY <3>2 DEF Sized
  <2>4. \A i \in 1..Len(W') : Sized(W[i])'
    BY <2>2, <1>7 DEF Sized
  <2> QED  BY <2>3, <2>4 DEF AllSized
<1>14. Unacked' /\ Known'
  BY <1>1, <1>o DEF Unacked, Held, Known
<1>15. Small'
  BY <1>1, <1>7, <1>o DEF Small
<1> QED  BY <1>9, <1>10, <1>11, <1>12, <1>13, <1>14, <1>15 DEF Windowed

\* The host handles a message: acknowledged blocks leave the queue.
LEMMA HandleMessageWindow ==
    ASSUME SenderInv, Windowed, resets = 0, HandleMessage
    PROVE  Windowed'
<1> DEFINE q == sent_queue
           f == Head(m2h)
           rseq == RSeq(f)
           n == rseq - receive_seq
<1>i. IndInv /\ LinkTypes /\ SenderTypes /\ InStep /\ ExecInv /\ SentWindow
  BY DEF SenderInv, IndInv
<1>n. Counters /\ q \in Seq(SentBlocks) /\ Len(q) \in Nat /\ m2h \in Seq(Frames)
      /\ last_ack_seq \in Nat
  BY <1>i, CountersAreNumbers DEF LinkTypes, SenderTypes
<1>o. Covered /\ Ordered /\ Ahead /\ Unacked /\ AllSized /\ Known /\ Small /\ Fit
  BY DEF Windowed
<1>1. /\ UNCHANGED <<h2m, receive_buf, next_sequence, dispatching, executed, receive_window>>
      /\ m2h # <<>> /\ m2h' = Tail(m2h) /\ receive_seq' = rseq
      /\ identified' = (identified \/ f.req # 0)
      /\ last_ack_seq' = last_ack_seq \/ (last_ack_seq' = rseq /\ ~f.data)
  BY DEF HandleMessage, UpdateReceiveSeq, mcuVars
<1>2. /\ q' = IF n <= Len(q) THEN SubSeq(q, n + 1, Len(q)) ELSE <<>>
      /\ last_ack_bytes' = IF n <= Len(q) /\ n > 0 THEN q[n].len ELSE last_ack_bytes
  BY DEF HandleMessage, UpdateReceiveSeq
<1>3. /\ rseq = m2h[1].seq /\ f = m2h[1] /\ rseq \in Nat /\ 1 \in 1..Len(m2h)
      /\ receive_seq <= rseq /\ rseq <= next_sequence /\ n \in Nat /\ rseq = receive_seq + n
  <2>1. /\ rseq = m2h[1].seq /\ m2h[1].seq \in Nat /\ 1 \in 1..Len(m2h)
        /\ receive_seq <= m2h[1].seq /\ m2h[1].seq <= next_sequence
    BY <1>i, <1>1, RSeqIsExact
  <2>2. f = m2h[1]
    BY <1>1, <1>n, TailFacts
  <2> HIDE DEF f, rseq
  <2> QED  BY <2>1, <2>2, <1>n DEF Counters
<1> HIDE DEF rseq, n, f
<1>4. /\ Len(m2h') = Len(m2h) - 1
      /\ \A i \in 1..Len(m2h') : m2h'[i] = m2h[i + 1] /\ i + 1 \in 1..Len(m2h)
  BY <1>1, <1>n, TailFacts
<1>q. \A i \in 1..Len(q) : /\ q[i].seq \in Nat /\ q[i].len \in 1..MaxLen
                           /\ q[i].seq = receive_seq + i - 1 /\ q[i].seq < send_seq
  BY <1>i, SentFields
<1>5. /\ q' \in Seq(SentBlocks)
      /\ n <= Len(q) => /\ Len(q') = Len(q) - n
                        /\ \A i \in 1..(Len(q) - n) : q'[i] = q[i + n] /\ i + n \in 1..Len(q)
      /\ ~(n <= Len(q)) => q' = <<>> /\ Len(q') = 0 /\ send_seq < rseq
  <2>1. CASE n <= Len(q)
    <3>1. q' = SubSeq(q, n + 1, Len(q))
      BY <2>1, <1>2
    <3>2. \A i \in 1..(Len(q) - n) : i + n \in 1..Len(q)
      BY <2>1, <1>n, <1>3
    <3> QED  BY <2>1, <3>1, <3>2, <1>n, <1>3
  <2>2. CASE ~(n <= Len(q))
    <3>1. send_seq < rseq
      BY <2>2, <1>3, <1>i, <1>n DEF SentWindow, Counters
    <3> QED  BY <2>2, <3>1, <1>2
  <2> QED  BY <2>1, <2>2
<1>6. \A i \in 1..Len(q') : \E j \in 1..Len(q) : q'[i] = q[j]
  BY <1>5, <1>n, <1>3
<1>7. ASSUME NEW r \in Nat, r >= rseq
      PROVE  OutFrom(q', r) = OutFrom(q, r)
  <2>0. PICK x : x = q'
    OBVIOUS
  <2>1. CASE n <= Len(q)
    <3>1. n \in 0..Len(q) /\ \A i \in 1..n : q[i].seq < r
      <4>1. n \in 0..Len(q)
        BY <2>1, <1>3, <1>n
      <4>2. ASSUME NEW i \in 1..n
            PROVE  q[i].seq < r
        <5>1. i \in 1..Len(q)
          BY <4>1, <1>n
        <5>2. q[i].seq = receive_seq + i - 1
          BY <5>1, <1>q
        <5> QED  BY <5>2, <1>3, <1>7, <1>n DEF Counters
      <4> QED  BY <4>1, <4>2
    <3>2. /\ x \in Seq(SentBlocks) /\ Len(x) = Len(q) - n
          /\ \A i \in 1..(Len(q) - n) : x[i] = q[i + n]
      BY <2>0, <2>1, <1>5
    <3>3. OutFrom(x, r) = OutFrom(q, r)
      BY <3>1, <3>2, <1>n, OutDrop
    <3> QED  BY <2>0, <3>3
  <2>2. CASE ~(n <= Len(q))
    <3>1. \A i \in 1..Len(q) : q[i].seq < r
      BY <2>2, <1>5, <1>q, <1>3, <1>7, <1>n DEF Counters
    <3>2. x \in Seq(SentBlocks) /\ \A i \in 1..Len(x) : x[i].seq < r
      BY <2>0, <2>2, <1>5
    <3>3. OutFrom(x, r) = 0 /\ OutFrom(q, r) = 0
      BY <3>1, <3>2, <1>n, OutNone
    <3> QED  BY <2>0, <3>3
  <2> QED  BY <2>1, <2>2
<1>8. Covered'
  <2> SUFFICES ASSUME NEW r \in Nat, r >= rseq
               PROVE  FirstsUnderWay(r) <= OutFrom(q', r)
    BY <1>1 DEF Covered, FirstsUnderWay
  <2>1. r >= receive_seq
    BY <1>3, <1>n DEF Counters
  <2>2. FirstsUnderWay(r) <= OutFrom(q, r)
    BY <2>1, <1>o DEF Covered
  <2> QED  BY <2>2, <1>7
<1>9. Ordered' /\ Ahead' /\ Fit'
  BY <1>1, <1>o DEF Ordered, Before, Ahead, ToCome, Held, Fit, FirstsUnderWay
<1>10. AllSized'
  BY <1>1, <1>6, <1>o DEF AllSized, Sized
<1>11. Small'
  <2> SUFFICES ASSUME receive_window = 0
               PROVE  /\ \A i \in 1..Len(q') : q'[i].len = IdentifyLen
                      /\ last_ack_bytes' \in {0, IdentifyLen}
    BY <1>1 DEF Small
  <2>1. \A i \in 1..Len(q) : q[i].len = IdentifyLen
    BY <1>o DEF Small
  <2>2. last_ack_bytes' \in {0, IdentifyLen}
    <3>1. CASE n <= Len(q) /\ n > 0
      <4>1. n \in 1..Len(q) /\ last_ack_bytes' = q[n].len
        BY <3>1, <1>2, <1>3, <1>n
      <4> QED  BY <4>1, <2>1
    <3>2. CASE ~(n <= Len(q) /\ n > 0)
      BY <3>2, <1>2, <1>o DEF Small
    <3> QED  BY <3>1, <3>2
  <2> QED  BY <2>1, <2>2, <1>6
<1>12. Known'
  <2>1. last_ack_seq' <= next_sequence
    BY <1>1, <1>3, <1>o DEF Known
  <2>2. \A i \in 1..Len(m2h') : m2h'[i].req # 0 => executed # <<>>
    BY <1>4, <1>o DEF Known
  <2>3. identified' => executed # <<>>
    BY <1>1, <1>3, <1>o DEF Known
  <2>4. receive_window # 0 => identified'
    BY <1>1, <1>o DEF Known
  <2> QED  BY <2>1, <2>2, <2>3, <2>4, <1>1, <1>o DEF Known
<1>13. Unacked'
  <2> SUFFICES ASSUME executed # <<>>, Held
               PROVE  /\ \A i \in 1..Len(m2h') : ~m2h'[i].data => m2h'[i].seq < next_sequence
                      /\ last_ack_seq' < next_sequence
                      /\ rseq = next_sequence => receive_buf[1].len <= last_ack_bytes'
    BY <1>1 DEF Unacked, Held
  <2>1. /\ \A i \in 1..Len(m2h) : ~m2h[i].data => m2h[i].seq < next_sequence
        /\ last_ack_seq < next_sequence
        /\ receive_seq = next_sequence => receive_buf[1].len <= last_ack_bytes
    BY <1>o DEF Unacked
  <2>2. \A i \in 1..Len(m2h') : ~m2h'[i].data => m2h'[i].seq < next_sequence
    BY <2>1, <1>4
  <2>3. last_ack_seq' < next_sequence
    BY <2>1, <1>1, <1>3
  <2>4. ASSUME rseq = next_sequence
        PROVE  receive_buf[1].len <= last_ack_bytes'
    <3>1. CASE n = 0
      BY <3>1, <2>4, <2>1, <1>2, <1>3, <1>n DEF Counters
    <3>2. CASE n # 0
      <4>1. next_sequence <= send_seq
        <5>1. Len(executed) # 0
          BY <1>i DEF LinkTypes
        <5> QED  BY <5>1, <1>i, <1>n DEF InStep, ExecInv, Counters
      <4>2. n \in 1..Len(q) /\ n <= Len(q) /\ n > 0
        BY <4>1, <3>2, <2>4, <1>3, <1>i, <1>n DEF SentWindow, Counters
      <4>3. q[n].seq = next_sequence - 1
        BY <4>2, <2>4, <1>q, <1>3, <1>n DEF Counters
      <4>4. receive_buf # <<>> /\ receive_buf[1].seq = next_sequence - 1
        BY DEF Held
      <4>5. 1 \in 1..Len(receive_buf)
        BY <4>4, <1>i DEF LinkTypes
      <4>6. receive_buf[1].len <= q[n].len
        BY <4>2, <4>3, <4>4, <4>5, <1>o DEF AllSized, Sized
      <4> QED  BY <4>2, <4>6, <1>2
    <3> QED  BY <3>1, <3>2
  <2> QED  BY <2>2, <2>3, <2>4
<1> QED  BY <1>8, <1>9, <1>10, <1>11, <1>12, <1>13 DEF Windowed
\* The receive window becomes known: as many identify requests as may be under way
\* fit.
LEMMA WindowAnnounced ==
    ASSUME SenderInv, Windowed, resets = 0, SetReceiveWindow
    PROVE  Windowed'
<1> DEFINE q == sent_queue
           I == IdentifyLen
<1>i. IndInv /\ LinkTypes /\ SentWindow /\ Accounted
  BY DEF SenderInv, IndInv
<1>n. /\ q \in Seq(SentBlocks) /\ Len(q) \in Nat /\ Len(q) <= MaxPending
      /\ MaxPending \in Nat /\ I \in Nat /\ RxSize \in Nat \ {0}
  <2>1. q \in Seq(SentBlocks) /\ Len(q) \in Nat /\ Len(q) <= MaxPending
    BY <1>i DEF LinkTypes, SentWindow
  <2>2. MaxPending \in Nat /\ I \in Nat /\ RxSize \in Nat \ {0}
    BY LinkAssumption, WindowAssumption
  <2> QED  BY <2>1, <2>2
<1>o. Covered /\ Ordered /\ Ahead /\ Unacked /\ AllSized /\ Known /\ Small /\ Fit
  BY DEF Windowed
<1>1. /\ UNCHANGED <<receive_seq, sent_queue, last_ack_seq, last_ack_bytes, identified,
                     h2m, m2h, receive_buf, next_sequence, dispatching, executed>>
      /\ receive_window = 0 /\ identified /\ receive_window' = RxSize
  BY DEF SetReceiveWindow, txVars, ackVars, mcuVars
<1>2. Covered' /\ Ordered' /\ Ahead'
  BY <1>1, <1>o DEF Covered, FirstsUnderWay, Ordered, Before, Ahead, ToCome, Held
<1>3. Unacked' /\ AllSized'
  BY <1>1, <1>o DEF Unacked, Held, AllSized, Sized
<1>4. Known' /\ Small'
  <2>1. receive_window' # 0
    BY <1>1, <1>n
  <2> QED  BY <2>1, <1>1, <1>o DEF Known, Small
<1>5. Fit'
  <2>1. executed # <<>>
    BY <1>1, <1>o DEF Known
  <2>2. FirstsUnderWay(0)
          <= need_ack_bytes + (IF last_ack_seq < receive_seq THEN last_ack_bytes ELSE 0)
    BY <2>1, UnderWayBound
  <2>3. /\ \A i \in 1..Len(q) : q[i].len = I
        /\ last_ack_bytes \in {0, I}
    BY <1>1, <1>o DEF Small
  <2>4. need_ack_bytes = Len(q) * I
    BY <2>3, <1>n, <1>i, BytesConst DEF Accounted
  <2>5. PICK a \in Nat, b \in Nat : a = Len(q) * I /\ b = MaxPending * I /\ a <= b
    BY <1>n, SMT
  <2>6. (MaxPending + 1) * I = b + I
    BY <2>5, <1>n, SMT
  <2>7. b + I <= RxSize
    BY <2>6, WindowAssumption
  <2>8. FirstsUnderWay(0) \in Nat
    BY SumTypes
  <2>9. FirstsUnderWay(0) <= RxSize
    BY <2>2, <2>3, <2>4, <2>5, <2>7, <2>8, <1>n
  <2>10. FirstsUnderWay(0)' = FirstsUnderWay(0)
    BY <1>1 DEF FirstsUnderWay
  <2> QED  BY <2>9, <2>10 DEF Fit
<1> QED  BY <1>2, <1>3, <1>4, <1>5 DEF Windowed

\* What Sendf appends.
LEMMA SendfAppends ==
    ASSUME LinkTypes, NEW data \in BOOLEAN, Sendf(next_sequence, data)
    PROVE  \/ m2h' = m2h
           \/ \E f \in Frames : /\ f.req = dispatching /\ f.data = data
                               /\ m2h' = Append(m2h, f)
<1> DEFINE f == [seq |-> next_sequence, data |-> data, req |-> dispatching]
<1>1. f \in Frames /\ f.req = dispatching /\ f.data = data
  BY DEF Frames, LinkTypes
<1>2. m2h' = m2h \/ m2h' = Append(m2h, f)
  BY DEF Sendf
<1> HIDE DEF f
<1> QED  BY <1>1, <1>2

\* Every step keeps the window.
LEMMA WindowedKept ==
    ASSUME SenderInv, resets = 0, Windowed, [Next]_vars, resets' = 0
    PROVE  Windowed'
<1>i. IndInv /\ LinkTypes
  BY DEF SenderInv, IndInv
<1>1. ASSUME NEW len \in Lens \cup {IdentifyLen}, NEW notify \in Notify \cup {TRUE},
             SendBlock(len, notify)
      PROVE  Windowed'
  <2>1. len \in 1..MaxLen /\ notify \in BOOLEAN
    BY LinkAssumption
  <2> QED  BY <1>1, <2>1, SendBlockWindow
<1>2. ASSUME NEW kept \in 0..Len(h2m), NEW cut \in BOOLEAN,
             RetransmitNak(kept, cut) \/ RetransmitTimeout(kept, cut)
      PROVE  Windowed'
  BY <1>2, RetransmitWindow DEF RetransmitNak, RetransmitTimeout
<1>3. CASE HandleMessage
  BY <1>3, HandleMessageWindow
<1>4. CASE SetReceiveWindow
  BY <1>4, WindowAnnounced
<1>h. ASSUME UNCHANGED hostVars
      PROVE  UNCHANGED <<receive_seq, sent_queue, receive_window, last_ack_seq,
                         last_ack_bytes, identified>>
  BY <1>h DEF hostVars, txVars, ackVars
<1>5. CASE Deliver \/ DamageBlock \/ LoseBlock
  <2>1. /\ UNCHANGED hostVars /\ UNCHANGED <<m2h, next_sequence, dispatching, executed>>
        /\ h2m # <<>> /\ h2m' = Tail(h2m)
    BY <1>5 DEF Deliver, DamageBlock, LoseBlock, WireUnchanged
  <2>2. Head(h2m) \in Blocks
    BY <2>1, <1>i, TailFacts DEF LinkTypes
  <2>3. /\ Damaged(Head(h2m)) \in Blocks /\ Damaged(Head(h2m)).seq = Head(h2m).seq
        /\ Damaged(Head(h2m)).re = Head(h2m).re /\ Damaged(Head(h2m)).len = Head(h2m).len
    BY <2>2 DEF Damaged, Blocks
  <2>4. \/ receive_buf' = receive_buf
        \/ \E c \in Blocks : /\ c.seq = Head(h2m).seq /\ c.re = Head(h2m).re
                            /\ c.len <= Head(h2m).len
                            /\ receive_buf' = Append(receive_buf, c)
    <3>1. CASE receive_buf' = Store(Head(h2m))
      BY <3>1, <2>2, StoreFacts
    <3>2. CASE receive_buf' = Store(Damaged(Head(h2m)))
      BY <3>2, <2>3, StoreFacts
    <3>3. CASE receive_buf' = receive_buf
      BY <3>3
    <3> QED  BY <1>5, <3>1, <3>2, <3>3 DEF Deliver, DamageBlock, LoseBlock
  <2>5. UNCHANGED <<receive_seq, sent_queue, receive_window, last_ack_seq,
                    last_ack_bytes, identified>>
    BY <2>1, <1>h
  <2> QED  BY <2>1, <2>4, <2>5, WireStepWindow
<1>6. CASE HandleInvalid \/ LoseFrame \/ SendData \/ DispatchShutdown \/ UNCHANGED vars
  <2>1. /\ UNCHANGED hostVars /\ UNCHANGED <<h2m, receive_buf, next_sequence, executed>>
        /\ dispatching' \in {0, dispatching}
        /\ \/ m2h' = m2h
           \/ m2h # <<>> /\ m2h' = Tail(m2h)
           \/ Sendf(next_sequence, TRUE)
    BY <1>6 DEF HandleInvalid, LoseFrame, SendData, DispatchShutdown, WireUnchanged, vars,
                mcuVars
  <2>2. UNCHANGED <<receive_seq, sent_queue, receive_window, last_ack_seq,
                    last_ack_bytes, identified>>
    BY <2>1, <1>h
  <2>3. \/ m2h' = m2h
        \/ m2h # <<>> /\ m2h' = Tail(m2h)
        \/ \E f \in Frames : /\ f.req = dispatching /\ f.data
                            /\ m2h' = Append(m2h, f)
    BY <2>1, <1>i, SendfAppends
  <2> QED  BY <2>1, <2>2, <2>3, FrameWindow
<1>7. CASE FindBad \/ FindLost \/ DispatchDone
  <2>1. /\ UNCHANGED hostVars /\ UNCHANGED <<h2m, next_sequence, executed>>
        /\ receive_buf # <<>> /\ receive_buf' = Tail(receive_buf) /\ dispatching' = 0
        /\ m2h' = m2h \/ Sendf(next_sequence, FALSE)
    BY <1>7, <1>i DEF FindBad, FindLost, DispatchDone, LinkTypes
  <2>2. UNCHANGED <<receive_seq, sent_queue, receive_window, last_ack_seq,
                    last_ack_bytes, identified>>
    BY <2>1, <1>h
  <2>3. \/ m2h' = m2h
        \/ \E f \in Frames : f.req = dispatching /\ m2h' = Append(m2h, f)
    BY <2>1, <1>i, SendfAppends
  <2> QED  BY <2>1, <2>2, <2>3, PopWindow
<1>8. CASE FindBlock
  BY <1>8, FindBlockWindow
<1>9. ~McuReset
  BY <1>i DEF McuReset, LinkTypes
<1> QED  BY <1>1, <1>2, <1>3, <1>4, <1>5, <1>6, <1>7, <1>8, <1>9 DEF Next

\* First copies of blocks of any length never overrun the firmware's receive buffer:
\* what check_send_command() counts bounds them, although responses take blocks
\* out of the count before the firmware has freed their bytes, and the sender
\* stays consistent over a restart.
THEOREM AlwaysWindowKept == Spec => []WindowKept
<1>1. Init => Windowed
  <2> SUFFICES ASSUME Init PROVE Windowed
    OBVIOUS
  <2>1. /\ sent_queue = <<>> /\ h2m = <<>> /\ receive_buf = <<>> /\ m2h = <<>>
        /\ executed = <<>> /\ receive_window = 0 /\ ~identified /\ dispatching = 0
        /\ last_ack_seq = 0 /\ last_ack_bytes = 0 /\ receive_seq = 1 /\ next_sequence \in Nat
    BY LinkAssumption DEF Init
  <2>2. Covered
    <3> SUFFICES ASSUME NEW r \in Nat
                 PROVE  FirstsUnderWay(r) <= OutFrom(sent_queue, r)
      BY DEF Covered
    <3>1. <<>> \in Seq(Blocks) /\ <<>> \in Seq(SentBlocks) /\ Len(<<>>) = 0
      OBVIOUS
    <3>2. Len(Firsts(<<>>, r)) = 0 /\ OutFrom(<<>>, r) \in Nat
      BY <3>1, FirstsMeasured, OutsMeasured
    <3>3. FirstsFrom(<<>>, r) = 0
      <4>1. PICK x : x = Firsts(<<>>, r)
        OBVIOUS
      <4>2. Bytes(x) = 0
        <5>1. Len(x) = 0
          BY <4>1, <3>2
        <5> QED  BY <5>1, BytesZero
      <4> QED  BY <4>1, <4>2 DEF FirstsFrom
    <3> QED  BY <3>2, <3>3, <2>1 DEF FirstsUnderWay
  <2>3. Ordered /\ Ahead /\ Unacked /\ AllSized
    BY <2>1 DEF Ordered, Ahead, Unacked, AllSized
  <2>4. Known /\ Small /\ Fit
    BY <2>1 DEF Known, Small, Fit
  <2> QED  BY <2>2, <2>3, <2>4 DEF Windowed
<1>2. SenderInv /\ SenderInv' /\ (resets = 0 => Windowed) /\ [Next]_vars
        => (resets = 0 => Windowed)'
  <2> SUFFICES ASSUME SenderInv, resets = 0 => Windowed, [Next]_vars, resets' = 0
               PROVE  Windowed'
    OBVIOUS
  <2>1. resets = 0
    <3>1. resets' = resets \/ McuReset
      BY DEF Next, vars, mcuVars, SendBlock, RetransmitNak, RetransmitTimeout, Retransmit,
             HandleInvalid, HandleMessage, SetReceiveWindow, Deliver, DamageBlock,
             LoseBlock, LoseFrame, WireUnchanged, FindBad, FindLost, FindBlock, SendData,
             DispatchDone, DispatchShutdown
    <3>2. ~McuReset
      BY DEF McuReset, SenderInv, IndInv, LinkTypes
    <3> QED  BY <3>1, <3>2
  <2> QED  BY <2>1, WindowedKept
<1>3. SenderInv /\ (resets = 0 => Windowed) => FirstCopiesFit
  <2> SUFFICES ASSUME SenderInv, Windowed, receive_window # 0
               PROVE  Bytes([i \in DOMAIN h2m |->
                               [len |-> IF h2m[i].re THEN 0 ELSE h2m[i].len]])
                        + Bytes([i \in DOMAIN receive_buf |->
                                   [len |-> IF receive_buf[i].re THEN 0
                                            ELSE receive_buf[i].len]])
                        <= RxSize
    BY DEF FirstCopiesFit
  <2>1. ASSUME NEW q \in Seq(Blocks)
        PROVE  [i \in DOMAIN q |-> [len |-> IF q[i].re THEN 0 ELSE q[i].len]] = Firsts(q, 0)
    <3>1. DOMAIN q = 1..Len(q) /\ \A i \in 1..Len(q) : q[i] \in Blocks
      OBVIOUS
    <3>2. \A i \in 1..Len(q) : q[i].seq \in Nat
      BY <3>1, BlockFields
    <3>3. \A i \in 1..Len(q) : (IF q[i].re THEN 0 ELSE q[i].len) = FirstLen(q[i], 0)
      BY <3>2 DEF FirstLen
    <3> QED  BY <3>1, <3>3 DEF Firsts
  <2>2. receive_buf \in Seq(Blocks) /\ h2m \in Seq(Blocks)
    BY DEF SenderInv, IndInv, LinkTypes
  <2>3. FirstsFrom(receive_buf, 0) + FirstsFrom(h2m, 0) <= RxSize
    BY DEF Windowed, Fit, FirstsUnderWay
  <2>4. FirstsFrom(receive_buf, 0) \in Nat /\ FirstsFrom(h2m, 0) \in Nat
    BY SumTypes
  <2>5. FirstsFrom(h2m, 0) + FirstsFrom(receive_buf, 0) <= RxSize
    BY <2>3, <2>4
  <2> QED  BY <2>1, <2>2, <2>5 DEF FirstsFrom
<1> QED
  BY <1>1, <1>2, <1>3, SenderInvariant, AlwaysSenderConsistent, PTL DEF Spec, WindowKept
=============================================================================
