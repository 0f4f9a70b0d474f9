SPECIFICATION FairSpec
CONSTANTS
  n1 = n1
  n2 = n2
  n3 = n3
  k1 = k1
  k2 = k2
  Node <- Line
  Link <- Downstream
  Writer <- Root
  Key <- TwoKeys
  MaxWrites = 2
  Redeliver <- Line
INVARIANTS
  RequestsKnown
PROPERTIES
  ReadsForward
  Arrives
