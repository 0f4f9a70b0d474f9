SPECIFICATION FairSpec
CONSTANTS
  n1 = n1
  n2 = n2
  n3 = n3
  b1 = b1
  Node <- Three
  LogLink <- UpTheRelay
  KeyLink <- FromTheReader
  Writer <- TheAdmin
  Body <- OneBody
  Admin = n1
  Appointing <- TheOthers
  Adders <- TheReader
  Author <- TheAdmin
  MaxLamport = 2
  MaxVersion = 1
  Serial = FALSE
  Redeliver <- TheRelay
PROPERTIES
  Spread
  ImplementsLog
