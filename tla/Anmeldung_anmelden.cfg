SPECIFICATION Spec
CONSTANTS
  anna = anna
  bert = bert
  kim = kim
  fritz = fritz
  olaf = olaf
  Niemand = Niemand
  Konten = {anna, bert}
  Kellner = {}
  FacebookKonten = {}
  OhneAnbieter = {}
  MitFehlern = TRUE
  MaxUnterwegs = 2
  MaxTipps = 2
  MaxSeiten = 3
  MaxStarts = 2
SYMMETRY MCSymmetrie
INVARIANTS
  TypeOK
  LeisteMitProfil
  LeisteNurBestaetigt
CHECK_DEADLOCK FALSE
