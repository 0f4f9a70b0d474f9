SPECIFICATION Spec
CONSTANTS
  n1 = n1
  n2 = n2
  n3 = n3
  Node <- Two
  Link <- Direct
  Author <- Second
  Admin = n1
  Appointments <- AllAppointAdmin
  Adders <- TheAdmin
  MaxKey = 2
  Versions = 8
  MaxVersion = 2
  Provider = "Lenient"
  Redeliver = {}
  Crashes = TRUE
  Faults = FALSE
INVARIANT VersionMeansKeys
