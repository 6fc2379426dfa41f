SPECIFICATION Spec
CONSTANTS
  Codes <- MCMitUndOhneText
  Bereiche <- MCBereiche
  Entfernungen <- MCNah
  MaxScans = 1
  MaxAenderungen = 0
  MaxWechsel = 0
PROPERTY
  JederScanEndet
CHECK_DEADLOCK FALSE
