SPECIFICATION Spec
CONSTANTS
  Codes <- MCZweiteBar
  Bereiche <- MCBereiche
  Entfernungen <- MCEntfernungen
  MaxScans = 1
  MaxAenderungen = 0
  MaxWechsel = 0
INVARIANTS
  BestellungBeiDerBar
  InDerNaehe
CHECK_DEADLOCK FALSE
