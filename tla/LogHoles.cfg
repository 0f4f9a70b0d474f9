SPECIFICATION Spec
CONSTANTS
  n1 = n1
  n2 = n2
  b1 = b1
  b2 = b2
  Node <- Pair
  Link <- TwoEachWay
  Writer <- Pair
  Keyring <- AllKeys
  Body <- OneBody
  MaxLamport = 3
  MaxEpoch = 0
  MaxCopies = 2
  Serial = TRUE
  Redeliver = {}
  FreshKeys = FALSE
  Faults = FALSE
SYMMETRY PairSymmetry
INVARIANTS
  RequestsAnswerable
  InFlightStillMissing
  HeaderIsExact
  RowsOnce
