SPECIFICATION FairSpec
CONSTANTS
  Lines = 3
  ReadLines = 2
  Kinds = {"move", "error", "internal", "loop", "PAUSE", "CANCEL_PRINT"}
  Commands = {"SDCARD_PRINT_FILE", "SDCARD_RESET_FILE", "M24", "PAUSE", "RESUME", "CLEAR_PAUSE", "CANCEL_PRINT", "M23", "POWER_OUTAGE_RESUME"}
  MaxJobs = 1
  MaxCommands = 3
  MaxEvents = 1
CHECK_DEADLOCK FALSE
INVARIANTS OneWorker
PROPERTIES LinesInOrder NoLineWhilePaused CommandsReturn
