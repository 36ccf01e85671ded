SPECIFICATION Spec
CONSTANTS
  t1 = t1 t2 = t2
  s1 = s1 s2 = s2 s3 = s3
  alice = alice admin = admin
  Nobody = Nobody
  NoUser = NoUser
  Threads <- TwoThreads
  SessionIds = {s1}
  Users = {alice, admin}
  Specs <- MixedSpecs
  GrantTTLs <- TwoTTLs
  TransportKeys <- ThreeKeys
  OptMaxSessions = 1
  OptMaxSessionsPerUser = 1
  DefaultMaxSessions = 3
  DefaultMaxSessionsPerUser = 2
  IdleTimeout = 1
  MaxLifetime = 2
  RefreshWindow = 1
  GCBatchSize = 1
  MaxTime = 4
  MaxGrants = 3
SYMMETRY ThreadSymmetry
INVARIANTS
  TypeOK
  BurntTokenOnlyAfterLoss
  RefreshOnlyWhenDue
  TransportsCurrent
  AdmittedWithinLife
PROPERTIES
  EndedSessionZeroed
  OnlyGuestsRevive
