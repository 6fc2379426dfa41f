SPECIFICATION Spec
CONSTANTS
  Speisekarte <- MCKleineKarte
  ExtrasVon <- MCOhneExtras
  KategorieNamen <- MCKategorien
  UnterkategorieNamen <- MCEineUnterkategorie
  Artikel <- MCZweiArtikel
  Extra = {}
  Kommentare = {"ohne Eis"}
  KeinKommentar = "kein Kommentar"
  KeineExtras = "keine Extras"
  Tabakmix = "Tabakmix"
  Niemand = Niemand
  MaxMenge = 1
  MaxZeilen = 2
  MaxBestellungen = 1
INVARIANTS
  KommentarGesendet
