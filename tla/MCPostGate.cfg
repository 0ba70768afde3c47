\* One post at a time, three reloads, two changes of the method.
CONSTANTS
  plain = plain
  jitsi = jitsi
  Encrypted = e2ee
  Type = {plain, jitsi, e2ee}
  Config <- MCConfig
  Post = {p1}
  MaxReloads = 3
  MaxFlips = 2
SPECIFICATION Spec
SYMMETRY Symmetry
INVARIANTS
  TypeOK
  ClearPostHasReason
  RejectedPostHasReason
