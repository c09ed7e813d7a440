SPECIFICATION Spec
CONSTANTS
  Sizes = {1, 2}
  Lead = 1
  Expire <- SyncExpire
  Report <- SyncReport
  MinExtend <- SyncMinExtend
  MoveTicks = 2
  SampleCount <- SyncSampleCount
  Retries = 1
  MaxTime <- SyncMaxTime
  MaxCmds = 3
  MaxMsgs <- SyncMaxMsgs
  MaxLoss <- SyncMaxLoss
  MaxRounds <- SyncMaxRounds
  MaxShutdowns <- SyncMaxShutdowns
CHECK_DEADLOCK FALSE
INVARIANTS HitsAreReal StopsTogether QuietAfterMove
