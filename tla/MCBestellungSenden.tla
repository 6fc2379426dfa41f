-------------------------- MODULE MCBestellungSenden --------------------------
(***************************************************************************)
(* Two small orders for model-checking BestellungSenden.                   *)
(***************************************************************************)
EXTENDS BestellungSenden

\* A section of the overview; z[u] are the lines of the u-th Unterkategorie.
Rubrik(kat, ukats, z) ==
  [Kategorie |-> kat, Unterkategorie |-> ukats, expanded2 |-> [u \in DOMAIN ukats |-> TRUE],
   felder |-> [f \in Felder |-> [u \in DOMAIN z |-> [r \in DOMAIN z[u] |-> z[u][r][f]]]]]

Ware(name, preis, menge, kommentar, extras, preise) ==
  [ItemsNamen |-> name, ItemsPreise |-> preis, ItemsLiter |-> "0.0l",
   ItemsKommentar |-> kommentar, ItemsMengen |-> menge,
   ExtrasName |-> extras, ExtrasPreise |-> preise]

\* Three lines in two Unterkategorien of one Kategorie, one with two extras.
Abend ==
  << Rubrik("Shisha", <<"Klassik", "Premium">>,
       << << Ware("Minze", 1000, 2, "mild", <<"Milch", "Eis">>, <<100, 50>>),
             Ware("Minze", 1000, 1, "kein Kommentar", <<"keine Extras">>, <<0>>) >>,
          << Ware("Apfel", 1200, 1, "kein Kommentar", <<"keine Extras">>, <<0>>) >> >>) >>

\* One line each in two Kategorien with the same Unterkategorie.
Runde ==
  << Rubrik("Shisha", <<"Klassik">>, << <<Ware("Minze", 1000, 1, "mild", <<"Eis">>, <<50>>)>> >>),
     Rubrik("Drinks", <<"Klassik">>,
       << <<Ware("Cola", 300, 3, "kein Kommentar", <<"keine Extras">>, <<0>>)>> >>) >>

MCAuftraege == {Abend, Runde}
MCGaeste == {"anna", "ben"}
MCBars == {"bar"}
\* The app of one guest may end, whichever it is; they are alike.
MCNeustarts == [g \in MCGaeste |-> IF g = "anna" THEN 1 ELSE 0]
===============================================================================
