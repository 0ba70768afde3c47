\* Two posts, each encrypted up to twice and known under two ids, in a cache that
\* two entries fill.
CONSTANTS
  Post = {p1, p2}
  MaxMade = 2
  MaxKeys = 1
  MaxMsgs = 3
SPECIFICATION ReadSpec
INVARIANTS
  ReadTypeOK
  LastEffectShowsItsVersion
PROPERTIES
  EvictsOnlyAtTheLimit
