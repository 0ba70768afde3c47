\* Two messages from two tabs, one own set and one change by others, under a fair
\* event loop.
CONSTANTS
  Post = {p1, p2}
  Tab = {t1, t2}
  MaxFlips = 1
  MaxSets = 1
SPECIFICATION FairSpec
INVARIANTS
  TypeOK
  NoSilentClear
PROPERTIES
  EveryPostSettles
