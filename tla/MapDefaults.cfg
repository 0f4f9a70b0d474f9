SPECIFICATION Spec
CONSTANTS
  n1 = n1
  n2 = n2
  n3 = n3
  k1 = k1
  k2 = k2
  Node <- Pair
  Link <- BothWays
  Writer <- Pair
  Key <- OneKey
  MaxWrites = 2
  Redeliver = {}
PROPERTY WrittenStays
