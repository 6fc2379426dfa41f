SPECIFICATION ListeSpec
CONSTANTS
  Gaeste <- MCIch
  Bars <- MCZweiBars
  Kellner = "kellner"
  Auftraege <- MCEine
  MaxAuftraege = 2
  MaxUnterwegs = 1
  MaxNeustarts <- MCKeinNeustart
  ich = "anna"
  Geraete = {TRUE}
  Schluesselfolge <- MCSchluesselfolge
  MaxTrennungen = 0
PROPERTY
  AktuelleErscheint
CHECK_DEADLOCK FALSE
