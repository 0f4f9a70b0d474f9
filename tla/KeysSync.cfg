SPECIFICATION FairSpec
CONSTANTS
  n1 = n1
  n2 = n2
  n3 = n3
  Node <- Three
  Link <- Relay
  Author <- Last
  Admin = n1
  Appointments <- OneMistaken
  Adders <- TheAdmin
  MaxKey = 2
  Versions = 8
  MaxVersion = 2
  Provider = "Lenient"
  Redeliver <- Three
  Crashes = FALSE
  Faults = FALSE
INVARIANTS
  OnlySecondAdminAborts
  VersionMeansKeys
PROPERTIES
  KeysPropagate
