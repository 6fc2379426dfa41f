SPECIFICATION LesenSpec
CONSTANTS
  MaxBreite = 2
INVARIANTS
  ExtrasZuJederZeile
  PreiseRichtig
CHECK_DEADLOCK FALSE
