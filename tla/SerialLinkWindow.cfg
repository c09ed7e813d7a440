SPECIFICATION Spec
CONSTANTS
  SeqCount = 4
  MaxPending = 3
  Lens = {1, 2}
  IdentifyLen = 1
  Notify = {FALSE}
  MaxLen = 2
  RxSize = 6
  TxFrames = 2
  MaxSeq = 4
  MaxWire = 4
  MaxFaults = 0
  MaxResets = 1
INVARIANT WindowKept
