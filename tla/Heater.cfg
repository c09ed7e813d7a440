SPECIFICATION HeaterSpec
CONSTANTS
  MaxTemp = 3
  Targets = {0, 2, 3}
  Hysteresis = 1
  MaxError = 3
  Gain = 1
  GainTime = 2
  SettleDelta = 1
  MaxCommands = 3
  Quarter = 3
  Delay = 1
  MaxGap = 2
  MaxPower = 4
  Step = 2
CHECK_DEADLOCK FALSE
INVARIANTS FaultInTime RenewedInTime OffInTime
PROPERTIES WaitEnds MutexIsGivenUp
