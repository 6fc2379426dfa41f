SPECIFICATION Spec
CONSTANTS
  Gaeste <- MCGaeste
  Bars <- MCBars
  Kellner = "kellner"
  Auftraege <- MCAuftraege
  MaxAuftraege = 2
  MaxUnterwegs = 2
  MaxNeustarts <- MCNeustarts
INVARIANTS
  TypeOK
  BeimKellnerVollstaendig
  KellnerNachGast
PROPERTIES
  AuftragKommtAn
  ImplementiertBestelleingang
CHECK_DEADLOCK FALSE
