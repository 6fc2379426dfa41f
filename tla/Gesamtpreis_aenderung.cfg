SPECIFICATION Spec
CONSTANTS
  Bestellungen <- MCNurEinfach
  MaxMenge = 3
  MaxAenderungen = 1
  MaxScrollen = 0
INVARIANT
  SummeNachAenderung
CHECK_DEADLOCK FALSE
