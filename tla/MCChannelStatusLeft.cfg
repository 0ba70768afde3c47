\* One tab, one fetch: a departure during the fetch.
CONSTANTS
  Client = {k1}
  Caller = {x1}
  Request = {r1}
  TheChan = TheChan
  MaxInbox = 2
SPECIFICATION Spec
SYMMETRY Symmetry
INVARIANTS
  LeftChannelIsForgotten
