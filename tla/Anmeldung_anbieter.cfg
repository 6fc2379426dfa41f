SPECIFICATION Spec
CONSTANTS
  anna = anna
  bert = bert
  kim = kim
  fritz = fritz
  olaf = olaf
  Niemand = Niemand
  Konten = {olaf}
  Kellner = {}
  FacebookKonten = {}
  OhneAnbieter = {olaf}
  MitFehlern = FALSE
  MaxUnterwegs = 1
  MaxTipps = 2
  MaxSeiten = 2
  MaxStarts = 1
PROPERTY
  JederSpinnerEndet
CHECK_DEADLOCK FALSE
