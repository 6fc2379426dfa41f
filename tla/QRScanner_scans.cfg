SPECIFICATION Spec
CONSTANTS
  Codes <- MCCodes
  Bereiche <- MCZweiBereiche
  Entfernungen <- MCNah
  MaxScans = 3
  MaxAenderungen = 1
  MaxWechsel = 1
INVARIANTS
  TypeOK
  StehtNurMitGrund
  EinScanGueltig
PROPERTY
  ScanEndet
CHECK_DEADLOCK FALSE
