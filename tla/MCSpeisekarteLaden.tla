------------------------- MODULE MCSpeisekarteLaden -------------------------
(***************************************************************************)
(* Small menus for model-checking SpeisekarteLaden.                        *)
(***************************************************************************)
EXTENDS SpeisekarteLaden

Kind(key, eintraege) == [key |-> key, eintraege |-> eintraege]
Kategorie(key, kinder) == [key |-> key, kinder |-> kinder]

MCWaren == {"Minze", "Apfel", "Cola", "Nuss", "Milch", "Eis"}

Shisha == Kategorie("Shisha", << Kind("Extras", <<"Eis", "Milch">>),
                                 Kind("Klassik", <<"Minze", "Apfel">>),
                                 Kind("Premium", <<"Apfel">>) >>)
Drinks == Kategorie("Drinks", << Kind("Alkoholfrei", <<"Cola">>), Kind("Extras", <<"Eis">>) >>)
Snacks == Kategorie("Snacks", << Kind("Nuss", <<"hinweis", "Nuss">>) >>)

\* The whole menu, and one with a price changed and a Kategorie less.
MCKarte == << Drinks, Shisha, Snacks >>
MCKarteNeu ==
  << Drinks, Kategorie("Shisha", << Kind("Klassik", <<"Minze">>), Kind("Neu", <<"Apfel">>) >>) >>

\* Malformed: an Unterkategorie without items before, between and after others,
\* or as the only one, and a Kategorie that has nothing but extras.
MCKarteLuecke ==
  << Drinks, Kategorie("Shisha", << Kind("Dampf", <<"Minze">>), Kind("Info", <<"hinweis">>),
                                    Kind("Klassik", <<"Minze", "Apfel">>) >>) >>
MCKarteErsteLeer ==
  << Drinks, Kategorie("Shisha", << Kind("Info", <<"hinweis">>), Kind("Klassik", <<"Minze">>) >>) >>
MCKarteNurLeer == << Drinks, Kategorie("Shisha", << Kind("Info", <<>>) >>) >>
MCKarteNurExtras == << Drinks, Kategorie("Shisha", << Kind("Extras", <<"Eis">>) >>) >>

MCKarten == {MCKarte, MCKarteNeu, MCKarteLuecke, MCKarteErsteLeer, MCKarteNurLeer,
             MCKarteNurExtras}
=============================================================================
