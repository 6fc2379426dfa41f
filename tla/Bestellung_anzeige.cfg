SPECIFICATION Spec
CONSTANTS
  Speisekarte <- MCKleineKarte
  ExtrasVon <- MCOhneExtras
  KategorieNamen <- MCKategorien
  UnterkategorieNamen <- MCEineUnterkategorie
  Artikel <- MCZweiArtikel
  Extra = {}
  Kommentare = {}
  KeinKommentar = "kein Kommentar"
  KeineExtras = "keine Extras"
  Tabakmix = "Tabakmix"
  Niemand = Niemand
  MaxMenge = 2
  MaxZeilen = 2
  MaxBestellungen = 1
INVARIANTS
  AnzeigeGleichZaehler
  KeineLeereBestellung
