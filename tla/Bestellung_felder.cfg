SPECIFICATION Spec
CONSTANTS
  Speisekarte <- MCSpeisekarte
  ExtrasVon <- MCOhneExtras
  KategorieNamen <- MCKategorien
  UnterkategorieNamen <- MCUnterkategorien
  Artikel <- MCArtikel
  Extra <- MCExtra
  Kommentare = {}
  KeinKommentar = "kein Kommentar"
  KeineExtras = "keine Extras"
  Tabakmix = "Tabakmix"
  Niemand = Niemand
  MaxMenge = 2
  MaxZeilen = 3
  MaxBestellungen = 0
INVARIANTS
  TypeOK
  ArraysAusgerichtet
  RubrikenStimmig
  DictionaryGleichArrays
  MengenPositiv
