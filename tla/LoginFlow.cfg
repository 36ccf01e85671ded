SPECIFICATION Spec
CONSTANTS
  t1 = t1 t2 = t2 A = A B = B
  Browsers <- TwoBrowsers
  Tabs <- TwoTabs
  Nobody = Nobody
  MaxSessions = 2
  MaxStarts = 3
  MaxFaults = 1
SYMMETRY LoginSymmetry
INVARIANTS
  OwnLogin
  NoSessionLeftBehind
PROPERTY
  OutsidersContained
