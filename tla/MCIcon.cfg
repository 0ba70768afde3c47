\* One tab with two concurrent fetches and its lock, two set requests.
CONSTANTS
  Client = {k1}
  Caller = {x1, x2}
  Request = {r1, r2}
  TheChan = TheChan
  MaxInbox = 2
SPECIFICATION IconSpec
SYMMETRY Symmetry
INVARIANTS
  IconTypeOK
  
  LockShowsStatus
