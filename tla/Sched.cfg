SPECIFICATION SchedSpec
CONSTANTS
  NTasks = 3
  MaxShutdowns = 2
  Users = {a, b, c}
  a = a
  b = b
  c = c
  Width = 14
  Period = 2
  Ahead = 2
  Late = 1
INVARIANTS NoSleepOnWork TimersIntact NoTimerMissed
PROPERTIES WokenTaskRuns
