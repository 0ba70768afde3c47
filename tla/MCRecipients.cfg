\* Two users, without loaded profiles at first, and two calls; up to three keys, so that a
\* user may change twice, or fewer and reconnections.
CONSTANTS
  User = {u1, u2}
  Call = {s1, s2}
  Unloaded = {u1, u2}
  MaxChanges = 3
SPECIFICATION Spec
SYMMETRY Symmetry
INVARIANTS
  TypeOK
  SentToAnnounced
  ChangedKeyIsWarned
