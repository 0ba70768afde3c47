\* Two browsers that run init without --force.
CONSTANTS
  Device = {d1, d2}
  Task = {k1, k2}
  Nil = Nil
  Unknown = Unknown
  Failed = Failed
SPECIFICATION Spec
SYMMETRY Symmetry
INVARIANTS
  UnforcedInitKeepsKey
