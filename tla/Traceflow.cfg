SPECIFICATION TraceflowSpec
CONSTANTS
  n1 = n1 n2 = n2
  Names <- TwoNames
  ExpiryTimeout = 2
  TraceflowBurst = 2
  Limits <- NoneAndSome
PROPERTIES
  CollectsOnlyStale
  AllCollected
