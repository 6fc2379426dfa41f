SPECIFICATION Spec
CONSTANTS
  anna = anna
  bert = bert
  kim = kim
  fritz = fritz
  olaf = olaf
  Niemand = Niemand
  Konten = {anna}
  Kellner = {}
  FacebookKonten = {}
  OhneAnbieter = {}
  MitFehlern = TRUE
  MaxUnterwegs = 1
  MaxTipps = 2
  MaxSeiten = 2
  MaxStarts = 1
PROPERTY
  ErneutHinein
CHECK_DEADLOCK FALSE
