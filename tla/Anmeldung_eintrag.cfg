SPECIFICATION Spec
CONSTANTS
  anna = anna
  bert = bert
  kim = kim
  fritz = fritz
  olaf = olaf
  Niemand = Niemand
  Konten = {anna}
  Kellner = {}
  FacebookKonten = {}
  OhneAnbieter = {}
  MitFehlern = FALSE
  MaxUnterwegs = 1
  MaxTipps = 2
  MaxSeiten = 3
  MaxStarts = 2
INVARIANT
  LeisteMitEintrag
CHECK_DEADLOCK FALSE
