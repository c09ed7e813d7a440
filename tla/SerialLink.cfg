SPECIFICATION FairSpec
CONSTANTS
  SeqCount = 3
  MaxPending = 2
  Lens = {1}
  IdentifyLen = 1
  Notify = {TRUE}
  MaxLen = 1
  RxSize = 3
  TxFrames = 2
  MaxSeq = 4
  MaxWire = 3
  MaxFaults = 1
  MaxResets = 0
INVARIANTS SenderConsistent InOrderExactlyOnce NoAckedBlockLost
PROPERTIES ImplementsChannel NotifiedAfterDispatch TimesAreReal EveryBlockAcked
