SPECIFICATION Spec
CONSTANTS
  Bestellungen <- MCBeide
  MaxMenge = 3
  MaxAenderungen = 3
  MaxScrollen = 1
INVARIANTS
  ErsteSumme
CHECK_DEADLOCK FALSE
