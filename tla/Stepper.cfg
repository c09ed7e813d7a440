SPECIFICATION FairSpec
CONSTANTS
  Steppers = {e, f}
  SingleSched = {e}
  e = e
  f = f
  Moves = {m1, m2}
  m1 = m1
  m2 = m2
  Counts = {0, 1, 2}
  Bias = 2
  Travel = 1
CHECK_DEADLOCK FALSE
INVARIANTS MovesConserved PositionIsReal ArrivesWhereSent
PROPERTIES HaltedUntilReset MovesReturn
