SPECIFICATION ListeSpec
CONSTANTS
  Gaeste <- MCIch
  Bars <- MCZweiBars
  Kellner = "kellner"
  Auftraege <- MCRunde
  MaxAuftraege = 2
  MaxUnterwegs = 1
  MaxNeustarts <- MCEinNeustart
  ich = "anna"
  Geraete = {TRUE, FALSE}
  Schluesselfolge <- MCSchluesselfolge
  MaxTrennungen = 1
INVARIANTS
  ListeTypeOK
  ListeGetreu
  NurEinmal
  ExtrasBeiZeile
  ListeOhneAbsturz
  ListeVollstaendig
PROPERTIES
  ListeErscheint
CHECK_DEADLOCK FALSE
