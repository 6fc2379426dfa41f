SPECIFICATION Spec
CONSTANTS
  Codes <- MCEinCode
  Bereiche <- MCBereiche
  Entfernungen <- MCNah
  MaxScans = 1
  MaxAenderungen = 0
  MaxWechsel = 0
INVARIANT
  StehtNurOhneText
CHECK_DEADLOCK FALSE
