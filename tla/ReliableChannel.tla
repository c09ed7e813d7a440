-------------------------- MODULE ReliableChannel --------------------------
(***************************************************************************)
(* What the serial link promises to the rest of the host: blocks are       *)
(* numbered in the order they are submitted; the firmware executes them    *)
(* exactly once and in that order; an acknowledgement reaches the host     *)
(* only after the execution.  Only blocks submitted before the two sides   *)
(* agreed on a sequence number (the first acknowledgement) may go unheard. *)
(***************************************************************************)
EXTENDS Integers, Sequences

VARIABLES submitted,   \* number of the last block submitted
          pending,     \* blocks the firmware has yet to execute
          log,         \* blocks executed
          acked        \* number of the last block acknowledged

chan == <<submitted, pending, log, acked>>

Connected == acked # 0

Init == submitted = 0 /\ pending = <<>> /\ log = <<>> /\ acked = 0

Submit ==
    /\ submitted' = submitted + 1
    /\ \/ pending' = Append(pending, submitted + 1)
       \/ ~Connected /\ UNCHANGED pending
    /\ UNCHANGED <<log, acked>>

Execute ==
    /\ pending # <<>>
    /\ log' = Append(log, Head(pending))
    /\ pending' = Tail(pending)
    /\ UNCHANGED <<submitted, acked>>

Acknowledge ==
    /\ acked' > acked
    /\ \A i \in DOMAIN pending : pending[i] > acked'
    /\ IF Connected THEN acked' <= submitted /\ UNCHANGED submitted
       ELSE submitted' = IF acked' > submitted THEN acked' ELSE submitted
    /\ UNCHANGED <<pending, log>>

Next == Submit \/ Execute \/ Acknowledge

Spec == Init /\ [][Next]_chan

=============================================================================
