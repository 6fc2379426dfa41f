SPECIFICATION LesenSpec
CONSTANTS
  MaxBreite = 2
INVARIANTS
  ItemsRichtig
  NamenRichtig
  PreiseErhalten
CHECK_DEADLOCK FALSE
