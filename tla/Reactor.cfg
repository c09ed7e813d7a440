SPECIFICATION FairSpec
CONSTANTS
  g1 = g1
  g2 = g2
  g3 = g3
  p = p
  w = w
  c = c
  Greenlets = {g1, g2, g3}
  Periodic = {p, w}
  Callbacks = {c}
  Ops <- MCOps
  Period = 1
  Delays = {1}
  NEVER = 9
  Fd = fd
INVARIANTS OneHolder Covered
PROPERTIES LockIsGranted TimersRun
