--------------------------- MODULE MCTriggerSync ---------------------------
(***************************************************************************)
(* TriggerSync for TLC: one micro-controller in two homing moves, with an  *)
(* oversampled endstop, a shutdown and queries that are given up, and two  *)
(* micro-controllers in one move.                                          *)
(***************************************************************************)
EXTENDS TriggerSync

SyncExpire == <<2, 1>>
SyncReport == <<1, 1>>
SyncMinExtend == <<1, 1>>
SyncSampleCount == <<2, 1>>
SyncMaxTime == <<6, 4>>
SyncMaxMsgs == <<2, 1>>
SyncMaxLoss == <<2, 1>>
SyncMaxRounds == <<2, 1>>
SyncMaxShutdowns == <<1, 0>>

\* HitIsReal of TriggerSync: a homing move that reports a hit was stopped by the
\* endstop, on every micro-controller; CompletionIsReal: and its wait ends early only
\* if something has stopped.
HitsAreReal == HitIsReal /\ CompletionIsReal

\* StopTogether of TriggerSync: no stepper outlives the stop of another
\* micro-controller by more than the timeout; with the types of the variables.
StopsTogether == TypeOK /\ StopTogether
=============================================================================
