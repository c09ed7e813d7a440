----------------------------- MODULE SerialLink -----------------------------
(***************************************************************************)
(* The host <-> micro-controller link: the retransmission protocol of the  *)
(* host's background thread (elegoo/chelper/serialqueue.c), the serial     *)
(* wire, and the block parser and console task of the firmware             *)
(* (src/command.c, src/generic/serial_irq.c).                              *)
(*                                                                         *)
(* A block carries its 64 bit sequence number here and only the low bits   *)
(* on the wire: every comparison the receivers make goes through           *)
(* "% SeqCount".  Contents are abstracted to the length and to whether the   *)
(* sender asked for a notification.  Times are abstracted to the block     *)
(* they were taken for (0 is "no time").                                   *)
(***************************************************************************)
EXTENDS Integers, SequencesExt

CONSTANTS SeqCount,        \* MESSAGE_SEQ_MASK + 1
          MaxPending,    \* MAX_PENDING_BLOCKS
          Lens,          \* the lengths a block may have
          IdentifyLen,   \* the length of an identify request
          Notify,        \* whether senders wait for acks (raw_send_wait_ack)
          MaxLen,        \* MESSAGE_MAX
          RxSize,        \* RX_BUFFER_SIZE, announced as RECEIVE_WINDOW
          TxFrames,      \* messages the firmware's transmit buffer holds
          MaxSeq,        \* bound: sequence numbers used
          MaxWire,       \* bound: blocks on the wire to the firmware
          MaxFaults,     \* bound: noise on the line and premature timeouts
          MaxResets      \* bound: spontaneous restarts of the firmware

ASSUME LinkAssumption ==
    /\ SeqCount \in Nat /\ MaxPending \in Nat \ {0} /\ MaxPending < SeqCount
    /\ Lens \subseteq 1..MaxLen /\ IdentifyLen \in 1..MaxLen /\ MaxLen \in Nat
    /\ Notify \subseteq BOOLEAN
    /\ RxSize \in Nat /\ TxFrames \in Nat
    /\ MaxSeq \in Nat /\ MaxWire \in Nat
    /\ MaxFaults \in Nat /\ MaxResets \in Nat

\* The receive buffer takes two blocks of any length, and as many identify
\* requests as may be under way before the firmware announced its size: 192
\* bytes for blocks of at most 64 and for 13 requests of ten or so.
ASSUME WindowAssumption ==
    /\ 2 * MaxLen <= RxSize
    /\ (MaxPending + 1) * IdentifyLen <= RxSize

VARIABLES
    \* struct serialqueue
    send_seq, receive_seq,       \* next to send, next the firmware expects
    sent_queue,                  \* blocks sent and not acknowledged
    last_ack_seq,                \* highest sequence seen in an ack
    ignore_nak_seq, retransmit_seq, rtt_sample_seq,
    need_ack_bytes, last_ack_bytes,
    last_receive_sent_time,      \* block whose transmit time this is, or 0
    receive_window,              \* 0 until the identify data was read
    retransmit_timer,            \* SQPT_RETRANSMIT: "never", "armed", "now"
    notify_queue,                \* blocks whose sender waits for the ack
    identified,                  \* the identify response was read
    \* the wire
    h2m, m2h,
    \* the firmware
    receive_buf, next_sequence, need_valid, dispatching,
    \* history
    base, executed, faults, resets

txVars == <<send_seq, sent_queue, rtt_sample_seq, need_ack_bytes,
            retransmit_timer, notify_queue>>
ackVars == <<receive_seq, last_ack_seq, last_ack_bytes,
             last_receive_sent_time, identified>>
resendVars == <<ignore_nak_seq, retransmit_seq>>
hostVars == <<txVars, ackVars, resendVars, receive_window>>
mcuVars == <<receive_buf, next_sequence, need_valid, dispatching, base,
             executed, resets>>
vars == <<hostVars, h2m, m2h, mcuVars, faults>>

-----------------------------------------------------------------------------
(* Blocks and frames *)

\* A block on its way: ok is its crc, re marks copies made by a retransmit.
Blocks == [seq : Nat, len : 1..MaxLen, ok : BOOLEAN, re : BOOLEAN]

\* A block of sent_queue, with whether it was retransmitted and how often
\* because of a nak (history).
SentBlocks == [seq : Nat, len : 1..MaxLen, re : BOOLEAN, naks : Nat]

OnWire(b, re) == [seq |-> b.seq, len |-> b.len, ok |-> TRUE, re |-> re]

\* A message from the firmware; req is the block in dispatch (history).
Frames == [seq : Nat, data : BOOLEAN, req : Nat]

Fault == faults < MaxFaults /\ faults' = faults + 1

\* A block of which some byte was lost or changed: its crc does not match.
Damaged(b) == [b EXCEPT !.ok = FALSE]

Bytes(s) ==
    LET sum[i \in 0..Len(s)] == IF i = 0 THEN 0 ELSE sum[i - 1] + s[i].len
    IN  sum[Len(s)]

\* console_sendf(): the frame carries next_sequence; it is dropped when the
\* transmit buffer is full.
Sendf(seq, data) ==
    m2h' = IF Len(m2h) < TxFrames
           THEN Append(m2h, [seq |-> seq, data |-> data, req |-> dispatching])
           ELSE m2h

-----------------------------------------------------------------------------
(* Host: sending *)

\* Mutants of the window check: one block too many; the block that may
\* still be in dispatch is not counted.
WindowOpenOneMore ==
    /\ send_seq - receive_seq <= MaxPending
    /\ \/ send_seq <= receive_seq
       \/ receive_window = 0
       \/ need_ack_bytes + MaxLen <= receive_window

WindowOpenUncounted ==
    /\ send_seq - receive_seq < MaxPending
    /\ \/ send_seq <= receive_seq
       \/ receive_window = 0
       \/ need_ack_bytes + MaxLen <= receive_window

\* check_send_command(): the two reasons to wait for an acknowledgement.
WindowOpen ==
    /\ send_seq - receive_seq < MaxPending
    /\ \/ send_seq <= receive_seq
       \/ receive_window = 0
       \/ need_ack_bytes + MaxLen
            + (IF last_ack_seq < receive_seq THEN last_ack_bytes ELSE 0)
            <= receive_window

\* command_event() and build_and_send_command() for one block.
SendBlock(len, notify) ==
    LET b == [seq |-> send_seq, len |-> len, re |-> FALSE, naks |-> 0]
    IN  /\ WindowOpen
        /\ receive_window = 0 =>          \* get_identify_data()
             notify /\ len = IdentifyLen /\ notify_queue = {}
        /\ send_seq <= MaxSeq /\ Len(h2m) < MaxWire
        /\ h2m' = Append(h2m, OnWire(b, FALSE))
        /\ sent_queue' = Append(sent_queue, b)
        /\ send_seq' = send_seq + 1
        /\ need_ack_bytes' = need_ack_bytes + len
        /\ rtt_sample_seq' = IF rtt_sample_seq = 0 THEN send_seq
                             ELSE rtt_sample_seq
        /\ retransmit_timer' = IF sent_queue = <<>> THEN "armed"
                               ELSE retransmit_timer
        /\ notify_queue' = IF notify THEN notify_queue \cup {send_seq}
                           ELSE notify_queue
        /\ UNCHANGED <<ackVars, resendVars, receive_window, m2h, mcuVars, faults>>

-----------------------------------------------------------------------------
(* Host: retransmission *)

\* tcflush(TCOFLUSH): what the kernel had not sent yet is gone, possibly in
\* the middle of a block.
Flushed(kept, cut) ==
    SubSeq(h2m, 1, kept)
      \o (IF cut THEN <<Damaged(h2m[kept + 1])>> ELSE <<>>)

Resend == [i \in DOMAIN sent_queue |-> OnWire(sent_queue[i], TRUE)]

\* History of a block that is sent again.
Counted(b, nak) ==
    [seq |-> b.seq, len |-> b.len, re |-> TRUE, naks |-> b.naks + nak]

\* Mutant: the pending round trip sample survives a retransmission.
RetransmitKeepSample(kept, cut, nak) ==
    /\ (cut => kept < Len(h2m))
    /\ kept + (IF cut THEN 1 ELSE 0) + Len(sent_queue) <= MaxWire
    /\ h2m' = Flushed(kept, cut) \o Resend
    /\ retransmit_seq' = send_seq
    /\ retransmit_timer' = "armed"
    /\ sent_queue' = [i \in DOMAIN sent_queue |-> Counted(sent_queue[i], nak)]
    /\ UNCHANGED <<send_seq, need_ack_bytes, notify_queue, rtt_sample_seq,
                   ackVars, receive_window, m2h, mcuVars>>

\* retransmit_event(), common part.
Retransmit(kept, cut, nak) ==
    /\ (cut => kept < Len(h2m))
    /\ kept + (IF cut THEN 1 ELSE 0) + Len(sent_queue) <= MaxWire
    /\ h2m' = Flushed(kept, cut) \o Resend
    /\ retransmit_seq' = send_seq
    /\ rtt_sample_seq' = 0
    /\ retransmit_timer' = "armed"
    /\ sent_queue' = [i \in DOMAIN sent_queue |-> Counted(sent_queue[i], nak)]
    /\ UNCHANGED <<send_seq, need_ack_bytes, notify_queue,
                   ackVars, receive_window, m2h, mcuVars>>

\* The timer was set to PR_NOW by a nak.
RetransmitNak(kept, cut) ==
    /\ retransmit_timer = "now"
    /\ UNCHANGED faults
    /\ ignore_nak_seq' = IF receive_seq < retransmit_seq THEN retransmit_seq
                         ELSE receive_seq
    /\ Retransmit(kept, cut, 1)

\* Whether a timeout would be premature (counted against MaxFaults).
AnswerUnderWay ==
    \/ h2m # <<>> \/ receive_buf # <<>>
    \/ \E i \in DOMAIN m2h : m2h[i].seq > receive_seq

\* The retransmit timeout expired, because blocks or their acks were lost or
\* because they are late.
RetransmitTimeout(kept, cut) ==
    /\ retransmit_timer = "armed"
    /\ IF AnswerUnderWay THEN Fault ELSE UNCHANGED faults
    /\ ignore_nak_seq' = send_seq
    /\ Retransmit(kept, cut, 0)

-----------------------------------------------------------------------------
(* Host: receiving *)

\* handle_message(): the full sequence number of a received message.
RSeq(f) == receive_seq + ((f.seq - receive_seq) % SeqCount)

\* update_receive_seq(): drop the acknowledged blocks; running out of blocks
\* is taken for the start of the connection.
UpdateReceiveSeq(rseq) ==
    LET n == rseq - receive_seq
        known == n <= Len(sent_queue)
        left == IF known THEN SubSeq(sent_queue, n + 1, Len(sent_queue))
                ELSE <<>>
        sentTime == IF n = 0 THEN last_receive_sent_time
                    ELSE IF known THEN sent_queue[n].seq ELSE 0
    IN  /\ receive_seq' = rseq
        /\ sent_queue' = left
        /\ send_seq' = IF known THEN send_seq ELSE rseq
        /\ need_ack_bytes' = need_ack_bytes
             - Bytes(IF known THEN SubSeq(sent_queue, 1, n) ELSE sent_queue)
        /\ last_receive_sent_time' = sentTime
        /\ last_ack_bytes' = IF known /\ n > 0 THEN sent_queue[n].len
                             ELSE last_ack_bytes
        /\ rtt_sample_seq' =
             IF n > 0 /\ rseq > rtt_sample_seq /\ sentTime # 0 THEN 0
             ELSE rtt_sample_seq

\* A message that acknowledges blocks that were never sent is ignored.
HandleInvalid ==
    /\ m2h # <<>>
    /\ LET rseq == RSeq(Head(m2h))
       IN  rseq # receive_seq /\ rseq > send_seq /\ receive_seq # 1
    /\ m2h' = Tail(m2h)
    /\ UNCHANGED <<hostVars, h2m, mcuVars, faults>>

\* The sent_time handle_message() reports with a data message.
SentTime(rseq, time) == IF rseq > retransmit_seq THEN time ELSE 0

\* Mutant: a data message wakes the sender of the block in dispatch.
WakeSeqEarly(f) == RSeq(f) - 1

\* The last block whose sender handle_message() wakes.
WakeSeq(f) == RSeq(f) - 1 - (IF f.data THEN 1 ELSE 0)

\* Mutants: the timer keeps running with nothing to retransmit; it is
\* stopped although blocks are left.
RearmedAlways(rseq) == IF rseq = receive_seq THEN retransmit_timer ELSE "armed"

RearmedNever(rseq) == IF rseq = receive_seq THEN retransmit_timer ELSE "never"

\* update_receive_seq(): an advance restarts or stops the retransmit timer.
Rearmed(rseq) ==
    IF rseq = receive_seq THEN retransmit_timer
    ELSE IF sent_queue' = <<>> THEN "never" ELSE "armed"

\* handle_message(): whether a repeated ack causes a retransmission.
HeedNak(rseq) == rseq > ignore_nak_seq /\ sent_queue' # <<>>

\* handle_message() of an ack or nak (no data) or of a data message.
HandleMessage ==
    /\ m2h # <<>>
    /\ LET f == Head(m2h)
           rseq == RSeq(f)
           woken(s) == WakeSeq(f) < 0 \/ s <= WakeSeq(f)  \* uint64_t wraps
           duplicate == ~f.data /\ last_ack_seq >= rseq
       IN  /\ rseq = receive_seq \/ rseq <= send_seq \/ receive_seq = 1
           /\ UpdateReceiveSeq(rseq)
           /\ notify_queue' = {s \in notify_queue : ~woken(s)}
           /\ last_ack_seq' = IF f.data \/ duplicate THEN last_ack_seq
                              ELSE rseq
           /\ retransmit_timer' =
                IF duplicate /\ HeedNak(rseq) THEN "now" ELSE Rearmed(rseq)
           /\ identified' = (identified \/ f.req # 0)
    /\ m2h' = Tail(m2h)
    /\ UNCHANGED <<resendVars, receive_window, h2m, mcuVars, faults>>

\* serialqueue_set_receive_window(), called once the identify response of
\* the firmware was read (serialhdl).
SetReceiveWindow ==
    /\ receive_window = 0
    /\ identified /\ notify_queue = {}
    /\ receive_window' = RxSize
    /\ UNCHANGED <<txVars, ackVars, resendVars, h2m, m2h, mcuVars, faults>>

-----------------------------------------------------------------------------
(* The wire *)

\* serial_rx_byte() for the bytes of a block: those that find the buffer
\* full are ignored.
Store(b) ==
    LET room == RxSize - Bytes(receive_buf)
    IN  IF b.len <= room THEN Append(receive_buf, b)
        ELSE IF room \in 1..(b.len - 1)
             THEN Append(receive_buf, [Damaged(b) EXCEPT !.len = room])
        ELSE receive_buf

WireUnchanged == UNCHANGED <<hostVars, next_sequence, need_valid, dispatching,
                             base, executed, resets>>

Deliver ==
    /\ h2m # <<>>
    /\ receive_buf' = Store(Head(h2m))
    /\ h2m' = Tail(h2m)
    /\ WireUnchanged /\ UNCHANGED <<m2h, faults>>

\* Noise on the line changes a byte of the block.
DamageBlock ==
    /\ Fault
    /\ h2m # <<>> /\ Head(h2m).ok
    /\ receive_buf' = Store(Damaged(Head(h2m)))
    /\ h2m' = Tail(h2m)
    /\ WireUnchanged /\ UNCHANGED m2h

\* All bytes of a block are lost.
LoseBlock ==
    /\ Fault
    /\ h2m # <<>>
    /\ h2m' = Tail(h2m)
    /\ WireUnchanged /\ UNCHANGED <<m2h, receive_buf>>

\* A message to the host is lost, or dropped by msgblock_check().
LoseFrame ==
    /\ Fault
    /\ m2h # <<>>
    /\ m2h' = Tail(m2h)
    /\ WireUnchanged /\ UNCHANGED <<h2m, receive_buf>>

-----------------------------------------------------------------------------
(* Firmware *)

\* console_task(), command_find_block() fails the framing or crc check: one
\* nak is sent, then none until a valid block was seen.
FindBad ==
    /\ dispatching = 0 /\ receive_buf # <<>> /\ ~Head(receive_buf).ok
    /\ IF need_valid THEN UNCHANGED m2h ELSE Sendf(next_sequence, FALSE)
    /\ need_valid' = TRUE
    /\ receive_buf' = Tail(receive_buf)
    /\ UNCHANGED <<hostVars, h2m, next_sequence, dispatching, base, executed,
                   faults, resets>>

\* Mutant: a valid block is dispatched whatever its sequence number.
InSequenceAny(b) == TRUE

\* The sequence check of command_find_block().
InSequence(b) == b.seq % SeqCount = next_sequence % SeqCount

\* A valid block out of sequence: nak and drop it.
FindLost ==
    /\ dispatching = 0 /\ receive_buf # <<>> /\ Head(receive_buf).ok
    /\ ~InSequence(Head(receive_buf))
    /\ Sendf(next_sequence, FALSE)
    /\ need_valid' = FALSE
    /\ receive_buf' = Tail(receive_buf)
    /\ UNCHANGED <<hostVars, h2m, next_sequence, dispatching, base, executed,
                   faults, resets>>

\* The expected block: next_sequence advances and command_dispatch() starts.
FindBlock ==
    /\ dispatching = 0 /\ receive_buf # <<>> /\ Head(receive_buf).ok
    /\ InSequence(Head(receive_buf))
    /\ need_valid' = FALSE
    /\ next_sequence' = next_sequence + 1
    /\ dispatching' = Head(receive_buf).seq
    /\ executed' = Append(executed, Head(receive_buf).seq)
    /\ UNCHANGED <<hostVars, h2m, m2h, receive_buf, base, faults, resets>>

\* command_sendf() of a command's response, or of a task or timer.
SendData ==
    /\ Len(m2h) < TxFrames
    /\ Sendf(next_sequence, TRUE)
    /\ UNCHANGED <<hostVars, h2m, mcuVars, faults>>

\* command_dispatch() returns: console_pop_input(), command_send_ack().
DispatchDone ==
    /\ dispatching # 0
    /\ receive_buf' = Tail(receive_buf)
    /\ dispatching' = 0
    /\ Sendf(next_sequence, FALSE)
    /\ UNCHANGED <<hostVars, h2m, next_sequence, need_valid, base, executed,
                   faults, resets>>

\* A command calls shutdown(): longjmp() back to the task loop, with the
\* block still in the receive buffer and not acknowledged.
DispatchShutdown ==
    /\ dispatching # 0
    /\ dispatching' = 0
    /\ UNCHANGED <<hostVars, h2m, m2h, receive_buf, next_sequence,
                   need_valid, base, executed, faults, resets>>

\* The firmware restarts: its state is that of sched_main(), which announces
\* itself with a "starting" message.
McuReset ==
    /\ resets < MaxResets
    /\ resets' = resets + 1
    /\ receive_buf' = <<>> /\ next_sequence' = 0
    /\ need_valid' = FALSE /\ dispatching' = 0
    /\ m2h' = IF Len(m2h) < TxFrames
              THEN Append(m2h, [seq |-> 0, data |-> TRUE, req |-> 0]) ELSE m2h
    /\ UNCHANGED <<hostVars, h2m, base, executed, faults>>

-----------------------------------------------------------------------------
\* serialqueue_alloc(); the firmware may have served an earlier session and
\* expects any sequence number.
Init ==
    /\ send_seq = 1 /\ receive_seq = 1 /\ sent_queue = <<>>
    /\ last_ack_seq = 0 /\ ignore_nak_seq = 0 /\ retransmit_seq = 0
    /\ rtt_sample_seq = 0 /\ need_ack_bytes = 0 /\ last_ack_bytes = 0
    /\ last_receive_sent_time = 0 /\ receive_window = 0
    /\ retransmit_timer = "never" /\ notify_queue = {}
    /\ identified = FALSE
    /\ h2m = <<>> /\ m2h = <<>>
    /\ base \in 1..SeqCount /\ next_sequence = base
    /\ receive_buf = <<>> /\ need_valid = FALSE /\ dispatching = 0
    /\ executed = <<>> /\ faults = 0 /\ resets = 0

Next ==
    \/ \E len \in Lens \cup {IdentifyLen}, notify \in Notify \cup {TRUE} :
         SendBlock(len, notify)
    \/ \E kept \in 0..Len(h2m), cut \in BOOLEAN :
         RetransmitNak(kept, cut) \/ RetransmitTimeout(kept, cut)
    \/ HandleInvalid \/ HandleMessage \/ SetReceiveWindow
    \/ Deliver \/ DamageBlock \/ LoseBlock \/ LoseFrame
    \/ FindBad \/ FindLost \/ FindBlock \/ SendData
    \/ DispatchDone \/ DispatchShutdown \/ McuReset

Spec == Init /\ [][Next]_vars

-----------------------------------------------------------------------------
(* Properties *)

\* Every variable keeps its type; queues hold well-formed blocks and frames.
TypeOK ==
    /\ send_seq \in Nat \ {0} /\ receive_seq \in Nat \ {0}
    /\ sent_queue \in Seq(SentBlocks) /\ h2m \in Seq(Blocks)
    /\ receive_buf \in Seq(Blocks) /\ m2h \in Seq(Frames)
    /\ last_ack_seq \in Nat /\ ignore_nak_seq \in Nat
    /\ retransmit_seq \in Nat /\ rtt_sample_seq \in Nat
    /\ need_ack_bytes \in Nat /\ last_ack_bytes \in 0..MaxLen
    /\ last_receive_sent_time \in Nat /\ receive_window \in {0, RxSize}
    /\ retransmit_timer \in {"never", "armed", "now"}
    /\ notify_queue \subseteq Nat /\ identified \in BOOLEAN
    /\ base \in 1..SeqCount /\ next_sequence \in Nat
    /\ need_valid \in BOOLEAN /\ dispatching \in Nat
    /\ executed \in Seq(Nat) /\ faults \in 0..MaxFaults /\ resets \in 0..MaxResets

\* The sent queue is exactly the window send_seq and receive_seq span, its
\* bytes are accounted for, and the retransmit timer runs exactly while
\* there is something to retransmit (build_and_send_command,
\* update_receive_seq and retransmit_event keep these together).
SentQueueConsistent ==
    /\ Len(sent_queue) = send_seq - receive_seq
    /\ \A i \in DOMAIN sent_queue : sent_queue[i].seq = receive_seq + i - 1
    /\ need_ack_bytes = Bytes(sent_queue)
    /\ (retransmit_timer = "never") <=> (sent_queue = <<>>)

\* The firmware executes blocks exactly once, in the order they were sent:
\* what command_find_block lets through are consecutive blocks, although it
\* compares only the low bits of the sequence number and blocks are lost,
\* damaged and retransmitted.
InOrderExactlyOnce ==
    resets = 0 => \A i \in DOMAIN executed : executed[i] = base + i - 1

\* The host drops a block from its sent queue only if the firmware has
\* executed it, or it was sent before the connection was in step.
NoAckedBlockLost ==
    resets = 0 => \A s \in base..(receive_seq - 1) : s \in Range(executed)

\* Once the connection is in step, a sender waiting for the notification of
\* a block is woken only after the firmware has finished dispatching it: a
\* data message sent from inside the dispatch does not wake it.
NotifiedAfterDispatch ==
    [][\A s \in notify_queue \ notify_queue' :
         resets = 0 /\ receive_seq' # 1 /\ s >= base
           => s < next_sequence /\ dispatching # s]_vars

\* First transmissions alone never overrun the firmware's receive buffer
\* (check_send_command counts what is not acknowledged and the block that
\* may still be in dispatch).
FirstCopiesFit ==
    LET FirstBytes(q) ==
          Bytes([i \in DOMAIN q |-> [len |-> IF q[i].re THEN 0 ELSE q[i].len]])
    IN  receive_window # 0 /\ resets = 0
          => FirstBytes(h2m) + FirstBytes(receive_buf) <= RxSize

\* A round trip time is sampled only from a block that was sent once: the
\* acknowledgement of a retransmitted block is ambiguous.
RttSampledOnce ==
    [][rtt_sample_seq # 0 /\ rtt_sample_seq' = 0 /\ receive_seq' # receive_seq
         => \A i \in DOMAIN sent_queue :
              sent_queue[i].seq = last_receive_sent_time'
                => ~sent_queue[i].re]_vars

\* The transmit time reported with a response (clocksync relies on it) is
\* that of the very block that caused the response, and that block was
\* transmitted once.
SentTimeIsOfRequest ==
    [][LET f == Head(m2h)
           t == SentTime(receive_seq', last_receive_sent_time')
       IN  HandleMessage /\ f.data /\ t # 0 /\ resets = 0
             => /\ f.req # 0 => t = f.req
                /\ \A i \in DOMAIN sent_queue :
                     sent_queue[i].seq = t => ~sent_queue[i].re]_vars

\* A block is retransmitted at most twice because of naks ("Second nak for
\* this retransmit - don't allow third"): further copies wait for the
\* timeout.
AtMostTwoNakRetransmits ==
    \A i \in DOMAIN sent_queue : sent_queue[i].naks <= 2

-----------------------------------------------------------------------------
(* Refinement of the abstract channel *)

\* The blocks from the one the firmware expects to the last one sent.
Numbers(from, to) == [i \in 1..(to - from) |-> from + i - 1]

Channel == INSTANCE ReliableChannel WITH
    submitted <- send_seq - 1,
    acked <- receive_seq - 1,
    log <- executed,
    pending <- Numbers(next_sequence, send_seq)

\* The link implements the reliable channel: every step of the host, the
\* wire and the firmware is a step of ReliableChannel or changes nothing.
ImplementsChannel == Channel!Spec

\* The threads that keep the protocol going: the host's poll loop runs its
\* timers and reads its input, bytes in the wire arrive, and the firmware's
\* task loop runs console_task() until its dispatch ends.
Fairness ==
    /\ WF_vars(\E kept \in 0..Len(h2m), cut \in BOOLEAN :
                 RetransmitNak(kept, cut) \/ RetransmitTimeout(kept, cut))
    /\ WF_vars(HandleInvalid \/ HandleMessage)
    /\ WF_vars(Deliver)
    /\ WF_vars(FindBad \/ FindLost \/ FindBlock)
    /\ WF_vars(DispatchDone \/ DispatchShutdown)

FairSpec == Spec /\ Fairness

\* Once the noise stops, every block that was sent is acknowledged (and by
\* NoAckedBlockLost was executed): neither an ignored nak nor a lost ack
\* leaves the host waiting for ever.
EveryBlockAcked ==
    \A s \in 1..MaxSeq : send_seq > s ~> receive_seq > s
=============================================================================
