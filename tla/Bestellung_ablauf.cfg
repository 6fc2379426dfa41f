SPECIFICATION Spec
CONSTANTS
  Speisekarte <- MCKleineKarte
  ExtrasVon <- MCExtrasBeide
  KategorieNamen <- MCKategorien
  UnterkategorieNamen <- MCEineUnterkategorie
  Artikel <- MCZweiArtikel
  Extra <- MCZweiExtras
  Kommentare = {"ohne Eis"}
  KeinKommentar = "kein Kommentar"
  KeineExtras = "keine Extras"
  Tabakmix = "Tabakmix"
  Niemand = Niemand
  MaxMenge = 1
  MaxZeilen = 2
  MaxBestellungen = 2
INVARIANTS
  ExtrasGepaart
  HoechstensEineBestellung
PROPERTIES
  LeereUebersichtSchliesst
