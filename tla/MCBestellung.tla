---------------------------- MODULE MCBestellung ----------------------------
(***************************************************************************)
(* Small menus for model-checking Bestellung. "Shisha" has two             *)
(* Unterkategorien and an extra, "Drinks" has one Unterkategorie and none. *)
(***************************************************************************)
EXTENDS Bestellung

Ding(name, preis, liter) ==
  [name |-> name, preis |-> preis, liter |-> liter, verfuegbar |-> TRUE]

Minze == Ding("Minze", 1000, "0.0l")
Apfel == Ding("Apfel", 1200, "0.0l")
Cola  == Ding("Cola", 300, "0.3l")
Fanta == [Ding("Fanta", 300, "0.3l") EXCEPT !.verfuegbar = FALSE]
Mix   == Ding("Tabakmix", 1500, "0.0l")

Milch == [name |-> "Milch", preis |-> 100]
Eis   == [name |-> "Eis", preis |-> 50]

MCArtikel == {Minze, Apfel, Mix, Cola, Fanta}
MCZweiArtikel == {Minze, Cola}
MCExtra == {Milch}
MCKategorien == {"Shisha", "Drinks"}
MCUnterkategorien == {"Klassik", "Premium"}
MCEineUnterkategorie == {"Klassik"}
MCExtrasVon == [k \in {"Shisha"} |-> <<Milch>>]
\* Each Kategorie has its own extra: a cancelled item's and the next item's can
\* come together in one line.
MCZweiExtras == {Milch, Eis}
MCExtrasBeide == [k \in MCKategorien |-> IF k = "Shisha" THEN <<Milch>> ELSE <<Eis>>]

\* Two Kategorien, three Unterkategorien, an unavailable item and a Tabakmix.
MCSpeisekarte ==
  << [Kategorie |-> "Shisha", Unterkategorie |-> <<"Klassik", "Premium">>,
      items |-> <<<<Minze>>, <<Apfel, Mix>>>>],
     [Kategorie |-> "Drinks", Unterkategorie |-> <<"Klassik">>,
      items |-> <<<<Cola>>>>] >>
\* Two Kategorien with one item each.
MCKleineKarte ==
  << [Kategorie |-> "Shisha", Unterkategorie |-> <<"Klassik">>, items |-> <<<<Minze>>>>],
     [Kategorie |-> "Drinks", Unterkategorie |-> <<"Klassik">>, items |-> <<<<Cola>>>>] >>

\* No Kategorie has extras.
MCOhneExtras == [k \in {} |-> <<>>]
============================================================================
