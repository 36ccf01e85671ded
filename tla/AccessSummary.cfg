SPECIFICATION FairSpec
CONSTANTS
  Bindings <- TwoBindings
  ProbeNs = "probe"
  Users <- Callers
  Star = Star
  Nobody = Nobody
  MaxChanges = 2
INVARIANTS
  ProbeAccurate
  NamespacesComplete
PROPERTY
  ProbeNoticed
