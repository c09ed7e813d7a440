SPECIFICATION Spec
CONSTANTS
  Lines = 3
  ReadLines = 2
  Kinds = {"move"}
  Commands = {"SDCARD_PRINT_FILE", "CANCEL_PRINT"}
  MaxJobs = 1
  MaxCommands = 2
  MaxEvents = 0
PROPERTY NoLineAfterCancel
CHECK_DEADLOCK FALSE
