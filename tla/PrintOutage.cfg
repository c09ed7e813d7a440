SPECIFICATION Spec
CONSTANTS
  Lines = 3
  ReadLines = 2
  Kinds = {"move"}
  Commands = {"SDCARD_PRINT_FILE", "PAUSE", "CANCEL_PRINT"}
  MaxJobs = 2
  MaxCommands = 5
  MaxEvents = 1
INVARIANT RecordedHeightIsReal
CHECK_DEADLOCK FALSE
