SPECIFICATION Spec
CONSTANTS
  n1 = n1
  n2 = n2
  b1 = b1
  b2 = b2
  Node <- Pair
  Link <- TwoAtOnce
  Writer <- First
  Keyring <- WriterKeys
  Body <- OneBody
  MaxLamport = 2
  MaxEpoch = 0
  MaxCopies = 2
  Serial = FALSE
  Redeliver = {}
  FreshKeys = FALSE
  Faults = FALSE
INVARIANTS
  HeadersMonotonic
