SPECIFICATION Spec
CONSTANTS
  n1 = n1
  n2 = n2
  n3 = n3
  Node <- Three
  Link <- Triangle
  Author <- Last
  Admin = n1
  Appointments <- OneMistaken
  Adders <- TheAdmin
  MaxKey = 1
  Versions = 8
  MaxVersion = 2
  Provider = "Lenient"
  Redeliver <- Last
  Crashes = TRUE
  Faults = TRUE
INVARIANTS
  TypeOK
  NeverAheadOfAdmin
PROPERTIES
  VersionNeverFalls
