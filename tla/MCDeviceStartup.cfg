SPECIFICATION Spec
CONSTANTS
  Main = main
  Console = {c1, c2}
  Id = {d1, d2, d3}
  Document <- TwoGroups
  Garbled <- CutShort
  MaxRetries = 3
  MaxLives = 3
  Absent = absent
  Torn = torn
  None = none
CHECK_DEADLOCK FALSE
INVARIANTS TypeOK ServesProvisioned StoredAsSent ActsAsSaved
PROPERTIES RegistrationKept CertificateKept StartSettles
