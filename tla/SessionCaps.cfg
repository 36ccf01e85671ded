SPECIFICATION Spec
CONSTANTS
  t1 = t1 t2 = t2
  s1 = s1 s2 = s2 s3 = s3
  alice = alice admin = admin
  Nobody = Nobody
  NoUser = NoUser
  Threads <- TwoThreads
  SessionIds = {s1, s2, s3}
  Users = {alice, admin}
  Specs <- LoginSpecs
  GrantTTLs <- TwoTTLs
  TransportKeys <- NoKeys
  OptMaxSessions = 2
  OptMaxSessionsPerUser = 1
  DefaultMaxSessions = 3
  DefaultMaxSessionsPerUser = 2
  IdleTimeout = 0
  MaxLifetime = 3
  RefreshWindow = 1
  GCBatchSize = 1
  MaxTime = 2
  MaxGrants = 1
SYMMETRY IdSymmetry3
INVARIANTS
  WithinCaps
PROPERTIES
  EndedSessionZeroed
  LoginEvictsOwnOrExpired
  RefusalIsClean
