SPECIFICATION Spec
CONSTANTS
  Speisekarte <- MCKleineKarte
  ExtrasVon <- MCExtrasVon
  KategorieNamen <- MCKategorien
  UnterkategorieNamen <- MCEineUnterkategorie
  Artikel <- MCZweiArtikel
  Extra <- MCExtra
  Kommentare = {}
  KeinKommentar = "kein Kommentar"
  KeineExtras = "keine Extras"
  Tabakmix = "Tabakmix"
  Niemand = Niemand
  MaxMenge = 2
  MaxZeilen = 2
  MaxBestellungen = 0
INVARIANTS
  ExtrasVonEigenerKategorie
  ExtrasHinzufuegbar
