SPECIFICATION OutputsSpec
CONSTANTS
  BUFFER_TIME_LOW = 5
  BUFFER_TIME_HIGH = 7
  BUFFER_TIME_START = 4
  BGFLUSH_LOW_TIME = 3
  BGFLUSH_BATCH_TIME = 2
  BGFLUSH_EXTRA_TIME = 2
  MIN_KIN_TIME = 1
  STEPCOMPRESS_FLUSH_TIME = 1
  DRIP_SEGMENT_TIME = 1
  DRIP_TIME = 2
  CHECK_PAUSE_TIME = 1
  HOMING_START_DELAY = 0
  MAX_PAUSE = 2
  SLACK = 1
  KinDelays = {1, 2}
  Latency = 2
  NEVER = 999
  MaxMove = 3
  MaxQueue = 2
  MaxTime = 8
  Width = 24
  MaxDuration = 5
  Default = FALSE
  Cycles = {3}
  OnTicks = {0, 1, 2, 3}
  PinAhead = 3
  PinMaxQueue = 2
  PwmValues = {0, 1, 2}
  PwmDefault = 0
  PwmAhead = 6
  PwmMaxQueue = 3
CHECK_DEADLOCK FALSE
INVARIANTS SentInTime NothingForgotten DripIsShort PinsOnTime
PROPERTIES StepsInOrder PinSafeOutputSpec PwmSafeOutputSpec
