SPECIFICATION Spec
CONSTANTS
  anna = anna
  bert = bert
  kim = kim
  fritz = fritz
  olaf = olaf
  Niemand = Niemand
  Konten = {anna, kim, fritz, olaf}
  Kellner = {kim}
  FacebookKonten = {fritz}
  OhneAnbieter = {olaf}
  MitFehlern = FALSE
  MaxUnterwegs = 1
  MaxTipps = 2
  MaxSeiten = 3
  MaxStarts = 2
PROPERTIES
  NeuHinein
  SpinnerEndet
CHECK_DEADLOCK FALSE
