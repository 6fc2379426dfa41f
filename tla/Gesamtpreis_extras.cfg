SPECIFICATION Spec
CONSTANTS
  Bestellungen <- MCBeide
  MaxMenge = 3
  MaxAenderungen = 0
  MaxScrollen = 0
INVARIANT
  SummeMitExtras
CHECK_DEADLOCK FALSE
