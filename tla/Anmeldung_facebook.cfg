SPECIFICATION Spec
CONSTANTS
  anna = anna
  bert = bert
  kim = kim
  fritz = fritz
  olaf = olaf
  Niemand = Niemand
  Konten = {fritz}
  Kellner = {}
  FacebookKonten = {fritz}
  OhneAnbieter = {}
  MitFehlern = FALSE
  MaxUnterwegs = 2
  MaxTipps = 2
  MaxSeiten = 2
  MaxStarts = 1
INVARIANT
  LeisteMitUser
CHECK_DEADLOCK FALSE
