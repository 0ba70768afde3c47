\* Two posts and an own message, whose three calls ask for overlapping keys of
\* two users who register them meanwhile, with fairness.
CONSTANTS
  c1 = c1
  c2 = c2
  c3 = c3
  i1 = i1
  i2 = i2
  Caller = {c1, c2, c3}
  Id = {i1, i2}
  Arg <- MCArg
  Value = {v1}
  None = None
  Posted = {c1, c3}
  MaxUsers = 1
  MaxText = 2
SPECIFICATION NotifySpec
INVARIANTS
  NotifyTypeOK
  HeldOnce
PROPERTIES
  ImplementsSeparateRequests
  EveryCallEnds
  ShownHasReason
  MissedHasReason
