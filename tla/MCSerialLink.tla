---------------------------- MODULE MCSerialLink ----------------------------
(* SerialLink for TLC; the constants are given by the configurations.        *)
EXTENDS SerialLink

\* The sender is consistent: the types, its queue with the byte count and the timer
\* (SentQueueConsistent), and how often naks made it send a block again
\* (AtMostTwoNakRetransmits).
SenderConsistent == TypeOK /\ SentQueueConsistent /\ AtMostTwoNakRetransmits

\* First copies of blocks of any length never overrun the receive buffer
\* (FirstCopiesFit), because the sender stays consistent over a restart of the
\* firmware too.
WindowKept == SenderConsistent /\ FirstCopiesFit

\* The times that the round-trip estimate and clock synchronisation use are those of
\* blocks that were sent once (RttSampledOnce) and that caused the response
\* (SentTimeIsOfRequest).
TimesAreReal == RttSampledOnce /\ SentTimeIsOfRequest
=============================================================================
