SPECIFICATION Spec
CONSTANTS
  Karten <- MCKarten
  Waren <- MCWaren
  MaxAenderungen = 1
INVARIANTS
  TypeOK
  KarteGanz
  ExtrasDabei
  KeinAbsturz
PROPERTIES
  EinmalGebaut
  KarteErscheint
CHECK_DEADLOCK FALSE
