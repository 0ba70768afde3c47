\* Three requests, each a set or a get on either of two channels, under fair scheduling.
CONSTANTS
  Request = {r1, r2, r3}
  Chan = {c1, c2}
  NoReq = NoReq
SPECIFICATION FairSpec
INVARIANTS
  TypeOK
  LockDiscipline
  ChangesAlternate
  EveryChangeToldOnce
PROPERTIES
  EveryRequestServed
  ImplementsAtomicRegister
