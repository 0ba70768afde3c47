\* Two browsers, two calls of init or import, and the loads of the tabs.
CONSTANTS
  Device = {d1, d2}
  Task = {k1, k2}
  Nil = Nil
  Unknown = Unknown
  Failed = Failed
SPECIFICATION Spec
SYMMETRY Symmetry
INVARIANTS
  TypeOK
  DiskFollowsMemory
  MixedKeyNeverUsed
  UndisturbedTabUsesRegisteredKey
