SPECIFICATION Spec
CONSTANTS
  Codes <- MCEinCode
  Bereiche <- MCBereiche
  Entfernungen <- MCNah
  MaxScans = 2
  MaxAenderungen = 0
  MaxWechsel = 0
INVARIANTS
  ErfolgGueltig
  StandortBekannt
CHECK_DEADLOCK FALSE
