\* Three requests of two users, one of them beyond the page of the members.
CONSTANTS
  Request = {r1, r2, r3}
  User = {u1, u2}
  Page = {u1}
  Nil = Nil
  MaxReloads = 1
SPECIFICATION Spec
SYMMETRY Symmetry
INVARIANTS
  TypeOK
  BackupMatchesKey
  BackupOfAnnouncedKey
  KeylessWarningIsRight
  PubKeysReplyIsFresh
  MailedBackupIsOwn
