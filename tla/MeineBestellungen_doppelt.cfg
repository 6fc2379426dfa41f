SPECIFICATION ListeSpec
CONSTANTS
  Gaeste <- MCIch
  Bars <- MCBars
  Kellner = "kellner"
  Auftraege <- MCEine
  MaxAuftraege = 2
  MaxUnterwegs = 1
  MaxNeustarts <- MCKeinNeustart
  ich = "anna"
  Geraete = {FALSE}
  Schluesselfolge <- MCSchluesselfolge
  MaxTrennungen = 1
INVARIANT
  JedeEinmal
CHECK_DEADLOCK FALSE
