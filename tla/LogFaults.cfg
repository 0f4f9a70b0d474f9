SPECIFICATION Spec
CONSTANTS
  n1 = n1
  n2 = n2
  b1 = b1
  b2 = b2
  Node <- Pair
  Link <- BothWays
  Writer <- First
  Keyring <- WriterKeys
  Body <- OneBody
  MaxLamport = 2
  MaxEpoch = 1
  MaxCopies = 2
  Serial = FALSE
  Redeliver <- Pair
  FreshKeys = TRUE
  Faults = TRUE
INVARIANTS
  TypeOK
  LamportIdentifiesMessage
  NothingInvented
PROPERTIES
  ImplementsGrowOnlyLog
