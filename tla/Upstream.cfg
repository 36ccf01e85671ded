SPECIFICATION Spec
CONSTANTS
  r1 = r1 r2 = r2
  Requests <- TwoRequests
  Ports <- TwoPorts
  MaxBundles = 2
  MaxCreds = 2
  MaxFailures = 1
INVARIANTS
  NoStaleTrust
PROPERTIES
  OnlyRejectionEnds
  BundleInstalled
  ForwardRecovers
\* One session is followed to its end.
CHECK_DEADLOCK FALSE
