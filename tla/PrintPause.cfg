SPECIFICATION FairSpec
CONSTANTS
  Lines = 2
  ReadLines = 2
  Kinds = {"move", "PAUSE"}
  Commands = {"SDCARD_PRINT_FILE"}
  MaxJobs = 1
  MaxCommands = 1
  MaxEvents = 0
PROPERTY PauseEnds
CHECK_DEADLOCK FALSE
