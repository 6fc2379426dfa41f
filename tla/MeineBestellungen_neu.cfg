SPECIFICATION ListeSpec
CONSTANTS
  Gaeste <- MCIch
  Bars <- MCBars
  Kellner = "kellner"
  Auftraege <- MCEine
  MaxAuftraege = 1
  MaxUnterwegs = 1
  MaxNeustarts <- MCKeinNeustart
  ich = "anna"
  Geraete = {TRUE}
  Schluesselfolge <- MCSchluesselfolge
  MaxTrennungen = 0
PROPERTY
  BestellungErscheint
CHECK_DEADLOCK FALSE
