\* Two users who may replace their keys, two messages, two damaged fields.
CONSTANTS
  User = {u1, u2}
  Msg = {m1, m2}
  MaxRotations = 1
  MaxDamage = 2
  NotSent = NotSent
  Missing = Missing
SPECIFICATION MsgSpec
SYMMETRY Symmetry
INVARIANTS
  MsgTypeOK
  OnlyAuthenticTexts
  RecipientsCanRead
