------------------------------ MODULE Bestellung ------------------------------
(***************************************************************************)
(* Composing an order on the phone, from the menu to the button that sends *)
(* it: BestellungVC2 (menu, popup for one item, table of extras) and       *)
(* BestellungÜbersichtVC (overview of the order), which work on copies of  *)
(* the same arrays and hand them back and forth, with the two table cells  *)
(* through which the overview's buttons reach it.                          *)
(*                                                                         *)
(* All handlers run on the main queue, so each is one atomic action.       *)
(***************************************************************************)
EXTENDS Bestellfelder

CONSTANTS
  Speisekarte,         \* the loaded menu, a sequence of sections
  ExtrasVon,           \* Kategorie |-> its extras, for a Kategorie that has some
  KategorieNamen, UnterkategorieNamen, Artikel, Extra,
  Kommentare,          \* texts a guest may type
  KeinKommentar,       \* "kein Kommentar", and the placeholder it stands for
  KeineExtras,         \* the name "keine Extras"
  Tabakmix,            \* the one item name the popup never opens for
  Niemand,             \* no cell is being edited, no item is shown
  MaxMenge,            \* bound: quantity of a line
  MaxZeilen,           \* bound: lines in an order
  MaxBestellungen      \* bound: orders sent after one scan

SpeisekarteAssumption ==
  /\ Speisekarte \in Seq([Kategorie : KategorieNamen,
                          Unterkategorie : Seq(UnterkategorieNamen),
                          items : Seq(Seq(Artikel))])
  /\ \A s \in DOMAIN Speisekarte :
       Len(Speisekarte[s].items) = Len(Speisekarte[s].Unterkategorie)

ExtrasAssumption ==
  /\ IsFiniteSet(Extra)
  /\ DOMAIN ExtrasVon \subseteq KategorieNamen
  /\ \A kat \in DOMAIN ExtrasVon :
       ExtrasVon[kat] \in Seq(Extra) /\ ExtrasVon[kat] # <<>>

\* Item names, litres and prices are the labels' texts; prices are whole cents,
\* which is what the "%.2f" labels they are read back from can show.
ArtikelAssumption ==
  /\ \A a \in Artikel : a.preis \in Nat /\ a.verfuegbar \in BOOLEAN
  /\ \A e \in Extra : e.preis \in Nat

SchrankenAssumption ==
  /\ MaxMenge \in Nat \ {0}
  /\ MaxZeilen \in Nat
  /\ MaxBestellungen \in Nat

ASSUME SpeisekarteAssumption
ASSUME ExtrasAssumption
ASSUME ArtikelAssumption
ASSUME SchrankenAssumption

VARIABLES
  ansicht,           \* what is on top of the screen
  entwurf,           \* BestellungVC2: the item being added (popup)
  bestellung,        \* BestellungVC2: the ten arrays
  dictionaryVC2,     \* BestellungVC2: bestellteItemsDictionary
  uebersichtOffen,   \* the overview is on the navigation stack
  uebersicht,        \* BestellungÜbersichtVC: the ten arrays
  dictionary,        \* BestellungÜbersichtVC: bestellteItemsDictionary
  bearbeitet,        \* the cell whose comment is being edited, with its indices
  popGeplant,        \* the asyncAfter that pops the emptied overview is pending
  gesendet           \* the orders handed to handleBestellung since the last scan

menueVars == <<entwurf, bestellung, dictionaryVC2>>
uebersichtVars == <<uebersichtOffen, uebersicht, dictionary, bearbeitet, popGeplant>>
vars == <<ansicht, menueVars, uebersichtVars, gesendet>>

Ansichten == {"menue", "popup", "extras", "uebersicht", "alert",
              "abgeschickt", "abgestuerzt"}

-----------------------------------------------------------------------------
(* The popup's state in a BestellungVC2 that was just created. *)

LeererEntwurf ==
  [i |-> 1, itemCountLbl |-> 1, artikel |-> Niemand, getippt |-> Niemand,
   Kategorie |-> Niemand, Unterkategorie |-> Niemand,
   kommentar |-> KeinKommentar, extrasNamen |-> <<>>, extrasPreise |-> <<>>,
   hinzufuegenVersteckt |-> FALSE]

\* The labels and the text view outside the popup are never read.
Geschlossen(e) ==
  [e EXCEPT !.itemCountLbl = 1, !.artikel = Niemand, !.getippt = Niemand,
            !.Kategorie = Niemand, !.Unterkategorie = Niemand,
            !.kommentar = KeinKommentar]

\* A line as bestellungaktualisieren reads it off the labels.
Zeile(e) ==
  [ItemsNamen     |-> e.artikel.name,
   ItemsPreise    |-> e.artikel.preis,
   ItemsLiter     |-> e.artikel.liter,
   ItemsKommentar |-> e.kommentar,
   ItemsMengen    |-> e.itemCountLbl,
   ExtrasName     |-> IF e.extrasNamen = <<>> THEN <<KeineExtras>> ELSE e.extrasNamen,
   ExtrasPreise   |-> IF e.extrasNamen = <<>> THEN <<0>> ELSE e.extrasPreise]

\* A new scan creates new view controllers; the old ones are gone.
NeueSitzung ==
  /\ entwurf' = LeererEntwurf
  /\ bestellung' = LeereBestellung
  /\ dictionaryVC2' = <<>>
  /\ uebersichtOffen' = FALSE
  /\ uebersicht' = LeereBestellung
  /\ dictionary' = <<>>
  /\ bearbeitet' = Niemand
  /\ popGeplant' = FALSE
  /\ gesendet' = <<>>

Init ==
  /\ ansicht = "menue"
  /\ entwurf = LeererEntwurf
  /\ bestellung = LeereBestellung
  /\ dictionaryVC2 = <<>>
  /\ uebersichtOffen = FALSE
  /\ uebersicht = LeereBestellung
  /\ dictionary = <<>>
  /\ bearbeitet = Niemand
  /\ popGeplant = FALSE
  /\ gesendet = <<>>

-----------------------------------------------------------------------------
(* BestellungVC2: choosing an item.                                        *)

\* An index past the end of an array is a trap: the app is gone, and with it
\* everything the view controllers held.
Absturz ==
  /\ ansicht' = "abgestuerzt"
  /\ NeueSitzung

ImMenue(s, s2, r2) ==
  s2 \in DOMAIN Speisekarte[s].items /\ r2 \in DOMAIN Speisekarte[s].items[s2]

\* The add button of row r2 under the Unterkategorie s2 in the cell of section t
\* is tapped. The code looks the item up in cellIndexPathSection, which is
\* the section s whose cell UIKit asked for last, whether it is t or not.
pass(t, s, s2, r2) ==
  /\ ansicht = "menue"
  /\ ImMenue(t, s2, r2)
  /\ \/ /\ ImMenue(s, s2, r2)
        /\ LET a == Speisekarte[s].items[s2][r2] IN
           /\ a.verfuegbar
           /\ a.name # Tabakmix
           /\ entwurf' = [entwurf EXCEPT
                !.itemCountLbl = 1, !.artikel = a,
                !.getippt = Speisekarte[t].items[s2][r2],
                !.Kategorie = Speisekarte[s].Kategorie,
                !.Unterkategorie = Speisekarte[s].Unterkategorie[s2]]
        /\ ansicht' = "popup"
        /\ UNCHANGED <<bestellung, dictionaryVC2, uebersichtVars, gesendet>>
     \/ ~ImMenue(s, s2, r2) /\ Absturz

funcItemPlusTapped ==
  /\ ansicht = "popup"
  /\ entwurf.i < MaxMenge
  /\ entwurf' = [entwurf EXCEPT !.i = @ + 1, !.itemCountLbl = entwurf.i + 1]
  /\ UNCHANGED <<ansicht, bestellung, dictionaryVC2, uebersichtVars, gesendet>>

\* A faulty variant: the counter has no lower limit.
funcItemMinusTappedOhneGrenze ==
  /\ ansicht = "popup"
  /\ entwurf' = [entwurf EXCEPT !.i = @ - 1, !.itemCountLbl = entwurf.i - 1]
  /\ UNCHANGED <<ansicht, bestellung, dictionaryVC2, uebersichtVars, gesendet>>

funcItemMinusTapped ==
  /\ ansicht = "popup"
  /\ entwurf.i > 0
  /\ entwurf' = [entwurf EXCEPT !.i = @ - 1, !.itemCountLbl = entwurf.i - 1]
  /\ UNCHANGED <<ansicht, bestellung, dictionaryVC2, uebersichtVars, gesendet>>

\* The guest types into kommentarTextView; an empty text counts as none.
kommentarTippen(text) ==
  /\ ansicht = "popup"
  /\ entwurf' = [entwurf EXCEPT !.kommentar = text]
  /\ UNCHANGED <<ansicht, bestellung, dictionaryVC2, uebersichtVars, gesendet>>

\* Showing the table for a Kategorie without extras hides the button, for good.
openExtras ==
  /\ ansicht = "popup"
  /\ ansicht' = "extras"
  /\ entwurf' = [entwurf EXCEPT
       !.hinzufuegenVersteckt = @ \/ entwurf.Kategorie \notin DOMAIN ExtrasVon]
  /\ UNCHANGED <<bestellung, dictionaryVC2, uebersichtVars, gesendet>>

closeExtras ==
  /\ ansicht = "extras"
  /\ ansicht' = "popup"
  /\ entwurf' = [entwurf EXCEPT !.extrasNamen = <<>>, !.extrasPreise = <<>>]
  /\ UNCHANGED <<bestellung, dictionaryVC2, uebersichtVars, gesendet>>

extrasHinzufuegen ==
  /\ ansicht = "extras"
  /\ ~entwurf.hinzufuegenVersteckt
  /\ ansicht' = "popup"
  /\ UNCHANGED <<menueVars, uebersichtVars, gesendet>>

\* A faulty variant: the price of a deselected extra stays.
OhneExtraMitPreis(e, name) ==
  [e EXCEPT !.extrasNamen = RemoveAt(@, firstIndex(@, name))]

\* The price goes first, while the name still tells where it is.
OhneExtra(e, name) ==
  LET n == firstIndex(e.extrasNamen, name) IN
  [e EXCEPT !.extrasPreise = RemoveAt(@, n), !.extrasNamen = RemoveAt(@, n)]

MitExtra(e, x) ==
  [e EXCEPT !.extrasNamen = Append(@, x.name), !.extrasPreise = Append(@, x.preis)]

\* The table has a single row whatever Extras holds: numberOfRowsInSection
\* overwrites the count with 1 for every table but ZusatzstoffeTV2.
selectExtra ==
  /\ ansicht = "extras"
  /\ entwurf.Kategorie \in DOMAIN ExtrasVon
  /\ LET x == ExtrasVon[entwurf.Kategorie][1] IN
     entwurf' = IF Contains(entwurf.extrasNamen, x.name)
                THEN OhneExtra(entwurf, x.name)
                ELSE MitExtra(entwurf, x)
  /\ UNCHANGED <<ansicht, bestellung, dictionaryVC2, uebersichtVars, gesendet>>

\* "abbrechen": neither i nor the selected extras are reset.
aktualisierungAbbrechen ==
  /\ ansicht = "popup"
  /\ ansicht' = "menue"
  /\ entwurf' = Geschlossen(entwurf)
  /\ UNCHANGED <<bestellung, dictionaryVC2, uebersichtVars, gesendet>>

\* "hinzufügen": with i = 0 nothing is added and the extras stay selected.
dismissPopUp ==
  /\ ansicht = "popup"
  /\ ansicht' = "menue"
  /\ \/ /\ entwurf.i > 0
        /\ Cardinality(Positionen(bestellung)) < MaxZeilen
        /\ bestellung' = MitZeile(bestellung, entwurf.Kategorie,
                                  entwurf.Unterkategorie, Zeile(entwurf))
        /\ entwurf' = [Geschlossen(entwurf) EXCEPT
             !.i = 1, !.extrasNamen = <<>>, !.extrasPreise = <<>>]
     \/ /\ entwurf.i = 0
        /\ entwurf' = [Geschlossen(entwurf) EXCEPT !.i = 1]
        /\ UNCHANGED bestellung
  /\ UNCHANGED <<dictionaryVC2, uebersichtVars, gesendet>>

\* The order is shown: the dictionary is built from the arrays and both are
\* copied to a new overview, whose willMove passes the arrays back at once.
bestellungPruefen ==
  /\ ansicht = "menue"
  /\ bestellung.Kategorien # <<>>
  /\ ansicht' = "uebersicht"
  /\ dictionary' = dictionaryVC2 \o Sections(bestellung)
  /\ dictionaryVC2' = <<>>
  /\ uebersichtOffen' = TRUE
  /\ uebersicht' = bestellung
  /\ bearbeitet' = Niemand
  /\ popGeplant' = FALSE
  /\ UNCHANGED <<entwurf, bestellung, gesendet>>

\* Going back to the scanner drops the order without a question.
menueVerlassen ==
  /\ ansicht = "menue"
  /\ NeueSitzung
  /\ UNCHANGED ansicht

-----------------------------------------------------------------------------
(* BestellungÜbersichtVC: changing the order through its cells. The cells  *)
(* are rebuilt (reloadData) after every change of the dictionary, so <<k,  *)
(* u, r>> is a position of the current dictionary.                         *)

\* The guest can tap line r of the u-th Unterkategorie of the k-th section.
Tippbar(k, u, r) ==
  /\ ansicht = "uebersicht"
  /\ k \in DOMAIN dictionary
  /\ u \in DOMAIN dictionary[k].Unterkategorie
  /\ r \in DOMAIN dictionary[k].felder["ItemsNamen"][u]

\* Section k becomes s in the dictionary; its seven arrays also overwrite those
\* of the ten, comments included.
SectionUebernehmen(k, s) ==
  /\ dictionary' = [dictionary EXCEPT ![k] = s]
  /\ uebersicht' = [uebersicht EXCEPT
       !.felder = [f \in Felder |-> [uebersicht.felder[f] EXCEPT ![k] = s.felder[f]]]]

zeileEntfernen(k, u, r) ==
  /\ Len(dictionary[k].felder["ItemsNamen"][u]) # 1
  /\ SectionUebernehmen(k, [dictionary[k] EXCEPT !.felder = ZeilenOhne(dictionary[k], u, r)])
  /\ UNCHANGED popGeplant

unterkategorieEntfernen(k, u) ==
  /\ Len(dictionary[k].felder["ItemsNamen"][u]) = 1
  /\ Len(dictionary[k].Unterkategorie) # 1
  /\ uebersicht' = OhneUnterkategorie(uebersicht, k, u)
  /\ dictionary' = [dictionary EXCEPT ![k] = SectionOhneUnterkategorie(@, u)]
  /\ UNCHANGED popGeplant

\* A faulty variant: the emptied overview is not closed.
kategorieEntfernenOhnePop(k, u) ==
  /\ Len(dictionary[k].felder["ItemsNamen"][u]) = 1
  /\ Len(dictionary[k].Unterkategorie) = 1
  /\ uebersicht' = OhneKategorie(uebersicht, k)
  /\ dictionary' = RemoveAt(dictionary, k)
  /\ UNCHANGED popGeplant

\* With the last Kategorie gone, the overview closes half a second later.
kategorieEntfernen(k, u) ==
  /\ Len(dictionary[k].felder["ItemsNamen"][u]) = 1
  /\ Len(dictionary[k].Unterkategorie) = 1
  /\ uebersicht' = OhneKategorie(uebersicht, k)
  /\ dictionary' = RemoveAt(dictionary, k)
  /\ popGeplant' = (popGeplant \/ dictionary' = <<>>)

passItemEntfernen(k, u, r) ==
  /\ Tippbar(k, u, r)
  /\ \/ zeileEntfernen(k, u, r)
     \/ unterkategorieEntfernen(k, u)
     \/ kategorieEntfernen(k, u)
  /\ UNCHANGED <<ansicht, menueVars, uebersichtOffen, bearbeitet, gesendet>>

\* A faulty variant: only the dictionary gets the quantity, as happens to comments.
mengeNurImDictionary(k, u, r, n) ==
  /\ dictionary' = [dictionary EXCEPT ![k].felder["ItemsMengen"][u][r] = n]
  /\ UNCHANGED <<ansicht, menueVars, uebersichtOffen, uebersicht, bearbeitet,
                 popGeplant, gesendet>>

\* Plus and minus write the dictionary's quantities to both copies.
mengeSetzen(k, u, r, n) ==
  LET mengen == [dictionary[k].felder["ItemsMengen"] EXCEPT ![u][r] = n] IN
  /\ uebersicht' = [uebersicht EXCEPT !.felder["ItemsMengen"][k] = mengen]
  /\ dictionary' = [dictionary EXCEPT ![k].felder["ItemsMengen"] = mengen]
  /\ UNCHANGED <<ansicht, menueVars, uebersichtOffen, bearbeitet, popGeplant, gesendet>>

passItemPlus(k, u, r) ==
  /\ Tippbar(k, u, r)
  /\ dictionary[k].felder["ItemsMengen"][u][r] < MaxMenge
  /\ mengeSetzen(k, u, r, dictionary[k].felder["ItemsMengen"][u][r] + 1)

\* A faulty variant: counts down as long as there is something.
passItemMinusBisNull(k, u, r) ==
  /\ Tippbar(k, u, r)
  /\ dictionary[k].felder["ItemsMengen"][u][r] > 0
  /\ mengeSetzen(k, u, r, dictionary[k].felder["ItemsMengen"][u][r] - 1)

passItemMinus(k, u, r) ==
  /\ Tippbar(k, u, r)
  /\ dictionary[k].felder["ItemsMengen"][u][r] > 1
  /\ mengeSetzen(k, u, r, dictionary[k].felder["ItemsMengen"][u][r] - 1)

\* The comment of a line gets the focus. The cell keeps the indices it was
\* built with until editing ends; the bar with the back button is locked.
kommentarBeginnen(k, u, r) ==
  /\ Tippbar(k, u, r)
  /\ bearbeitet = Niemand
  /\ bearbeitet' = [k |-> k, u |-> u, r |-> r]
  /\ UNCHANGED <<ansicht, menueVars, uebersichtOffen, uebersicht, dictionary,
                 popGeplant, gesendet>>

InKommentaren(k, u, r) ==
  LET arr == uebersicht.felder["ItemsKommentar"] IN
  k \in DOMAIN arr /\ u \in DOMAIN arr[k] /\ r \in DOMAIN arr[k][u]

\* Editing ends: the text goes to the ten arrays (not to the dictionary), at
\* the indices of the cell, and the bar is unlocked.
passKommentarAendern(text) ==
  /\ ansicht = "uebersicht"
  /\ bearbeitet # Niemand
  /\ LET k == bearbeitet.k  u == bearbeitet.u  r == bearbeitet.r IN
     \/ /\ InKommentaren(k, u, r)
        /\ uebersicht' = [uebersicht EXCEPT !.felder["ItemsKommentar"][k][u][r] = text]
        /\ bearbeitet' = Niemand
        /\ UNCHANGED <<ansicht, menueVars, uebersichtOffen, dictionary, popGeplant, gesendet>>
     \/ ~InKommentaren(k, u, r) /\ Absturz

-----------------------------------------------------------------------------
(* Leaving the overview.                                                   *)

\* A faulty variant: passChanges is not called.
uebersichtVerwerfen ==
  /\ uebersichtOffen' = FALSE
  /\ uebersicht' = LeereBestellung
  /\ dictionary' = <<>>
  /\ bearbeitet' = Niemand
  /\ popGeplant' = FALSE
  /\ UNCHANGED <<entwurf, bestellung, dictionaryVC2, gesendet>>

\* The overview is taken off the stack: willMove(toParent: nil) calls
\* passChanges, which overwrites the menu's arrays with the overview's. A
\* pending asyncAfter finds no navigation controller any more.
uebersichtSchliessen ==
  /\ bestellung' = uebersicht
  /\ uebersichtOffen' = FALSE
  /\ uebersicht' = LeereBestellung
  /\ dictionary' = <<>>
  /\ bearbeitet' = Niemand
  /\ popGeplant' = FALSE
  /\ UNCHANGED <<entwurf, dictionaryVC2, gesendet>>

zurueck ==
  /\ ansicht = "uebersicht"
  /\ bearbeitet = Niemand
  /\ ansicht' = "menue"
  /\ uebersichtSchliessen

abschicken ==
  /\ ansicht = "uebersicht"
  /\ bearbeitet = Niemand
  /\ ansicht' = "alert"
  /\ UNCHANGED <<menueVars, uebersichtVars, gesendet>>

\* The alert keeps the overview alive even if it was popped underneath.
alertAbbrechen ==
  /\ ansicht = "alert"
  /\ ansicht' = IF uebersichtOffen THEN "uebersicht" ELSE "menue"
  /\ UNCHANGED <<menueVars, uebersichtVars, gesendet>>

\* A faulty variant: the overview stays open after sending.
alertAbschickenUndBleiben ==
  /\ ansicht = "alert"
  /\ Len(gesendet) < MaxBestellungen
  /\ gesendet' = Append(gesendet, dictionary)
  /\ ansicht' = IF uebersichtOffen THEN "uebersicht" ELSE "menue"
  /\ UNCHANGED <<menueVars, uebersichtVars>>

\* handleBestellung sends the dictionary; the segue needs a navigation stack.
alertAbschicken ==
  /\ ansicht = "alert"
  /\ Len(gesendet) < MaxBestellungen
  /\ gesendet' = Append(gesendet, dictionary)
  /\ ansicht' = IF uebersichtOffen THEN "abgeschickt" ELSE "menue"
  /\ UNCHANGED <<menueVars, uebersichtVars>>

\* BestellungAbschickenVC disappears: popToRoot, the scanner starts over.
abgeschicktVerlassen ==
  /\ ansicht = "abgeschickt"
  /\ ansicht' = "menue"
  /\ NeueSitzung

\* The asyncAfter of passItemEntfernen pops whatever is on top of the stack.
popNachLeer ==
  /\ popGeplant
  /\ \/ /\ ansicht \in {"uebersicht", "alert"}
        /\ ansicht' = IF ansicht = "alert" THEN "alert" ELSE "menue"
        /\ uebersichtSchliessen
     \/ abgeschicktVerlassen

appStarten ==
  /\ ansicht = "abgestuerzt"
  /\ ansicht' = "menue"
  /\ NeueSitzung

-----------------------------------------------------------------------------
Popup ==
  \/ \E t, s \in DOMAIN Speisekarte :
       \E s2 \in DOMAIN Speisekarte[t].items :
         \E r2 \in DOMAIN Speisekarte[t].items[s2] : pass(t, s, s2, r2)
  \/ funcItemPlusTapped \/ funcItemMinusTapped
  \/ \E text \in Kommentare \cup {KeinKommentar} : kommentarTippen(text)
  \/ openExtras \/ closeExtras \/ extrasHinzufuegen \/ selectExtra
  \/ aktualisierungAbbrechen \/ dismissPopUp

ZeileGeaendert(k, u, r) ==
  \/ passItemEntfernen(k, u, r)
  \/ passItemPlus(k, u, r) \/ passItemMinus(k, u, r)
  \/ kommentarBeginnen(k, u, r)

Uebersicht ==
  \/ \E k \in DOMAIN dictionary :
       \E u \in DOMAIN dictionary[k].Unterkategorie :
         \E r \in DOMAIN dictionary[k].felder["ItemsNamen"][u] : ZeileGeaendert(k, u, r)
  \/ \E text \in Kommentare : passKommentarAendern(text)

Navigation ==
  \/ bestellungPruefen \/ menueVerlassen
  \/ zurueck \/ abschicken \/ alertAbbrechen \/ alertAbschicken
  \/ abgeschicktVerlassen \/ popNachLeer \/ appStarten

Next == Popup \/ Uebersicht \/ Navigation

\* The main queue fires its timers; nobody else has to act.
Fairness == WF_vars(popNachLeer)

Spec == Init /\ [][Next]_vars /\ Fairness
-----------------------------------------------------------------------------
(* Properties.                                                             *)

\* The values each of the seven arrays holds.
Werte ==
  [ItemsNamen     |-> {a.name : a \in Artikel},
   ItemsPreise    |-> {a.preis : a \in Artikel},
   ItemsLiter     |-> {a.liter : a \in Artikel},
   ItemsKommentar |-> Kommentare \cup {KeinKommentar},
   ItemsMengen    |-> Nat,
   ExtrasName     |-> Seq({x.name : x \in Extra} \cup {KeineExtras}),
   ExtrasPreise   |-> Seq({x.preis : x \in Extra} \cup {0})]

EntwurfTyp ==
  [i : 0..MaxMenge, itemCountLbl : 0..MaxMenge,
   artikel : Artikel \cup {Niemand}, getippt : Artikel \cup {Niemand},
   Kategorie : KategorieNamen \cup {Niemand},
   Unterkategorie : UnterkategorieNamen \cup {Niemand},
   kommentar : Kommentare \cup {KeinKommentar},
   extrasNamen : Seq({x.name : x \in Extra}),
   extrasPreise : Seq({x.preis : x \in Extra}),
   hinzufuegenVersteckt : BOOLEAN]

BearbeitetTyp ==
  [k : Nat, u : Nat, r : Nat] \cup {Niemand}

\* Every variable holds a value of its type, in particular every array holds
\* sequences of the right depth.
TypeOK ==
  /\ ansicht \in Ansichten
  /\ entwurf \in EntwurfTyp
  /\ IstBestellung(bestellung, KategorieNamen, UnterkategorieNamen, Werte)
  /\ IstDictionary(dictionaryVC2, KategorieNamen, UnterkategorieNamen, Werte)
  /\ uebersichtOffen \in BOOLEAN
  /\ IstBestellung(uebersicht, KategorieNamen, UnterkategorieNamen, Werte)
  /\ IstDictionary(dictionary, KategorieNamen, UnterkategorieNamen, Werte)
  /\ bearbeitet \in BearbeitetTyp
  /\ popGeplant \in BOOLEAN
  /\ gesendet \in Seq(ToSet(gesendet))
  /\ \A n \in DOMAIN gesendet :
       IstDictionary(gesendet[n], KategorieNamen, UnterkategorieNamen, Werte)

\* The ten arrays of each view controller stay index-aligned, through every
\* addition, removal and hand-over: the code indexes all of them with the
\* position it found in one (BestellungVC2 972-1012, passItemEntfernen).
ArraysAusgerichtet ==
  /\ Ausgerichtet(bestellung)
  /\ Ausgerichtet(uebersicht)

\* No Kategorie or Unterkategorie is left over without lines and none is listed
\* twice: firstIndex(of:) in bestellungPrüfen and handleBestellung would send
\* the lines of the first one twice and those of the second never.
RubrikenStimmig ==
  \A b \in {bestellung, uebersicht} : OhneLeere(b) /\ Eindeutig(b)

OhneKommentare(d) ==
  [k \in DOMAIN d |->
     [d[k] EXCEPT !.felder = [f \in OhneKommentar |-> d[k].felder[f]]]]

\* While the overview is open, the dictionary (which it shows and sends) and the
\* arrays (which it hands back to the menu) describe the same order but for
\* the comments: each handler updates both by different code.
DictionaryGleichArrays ==
  uebersichtOffen => OhneKommentare(dictionary) = OhneKommentare(Sections(uebersicht))

\* No line has quantity zero, although the popup counts down to zero and the
\* quantity is read from a label that is reset apart from its counter.
MengenPositiv ==
  \A b \in {bestellung, uebersicht} : \A z \in Positionen(b) :
    b.felder["ItemsMengen"][z[1]][z[2]][z[3]] > 0

\* The extras of a line: names and prices in step, no name twice (it would be
\* sent under the index of the first), every price that of its name.
ExtrasGepaart ==
  \A b \in {bestellung, uebersicht} : \A z \in Positionen(b) :
    LET namen  == b.felder["ExtrasName"][z[1]][z[2]][z[3]]
        preise == b.felder["ExtrasPreise"][z[1]][z[2]][z[3]] IN
    /\ namen # <<>> /\ Len(namen) = Len(preise) /\ Injektiv(namen)
    /\ \A n \in DOMAIN namen :
         \/ \E x \in Extra : namen[n] = x.name /\ preise[n] = x.preis
         \/ namen[n] = KeineExtras /\ preise[n] = 0

\* An order is sent at most once: of the orders handed to handleBestellung
\* since the last scan, one at most has lines, although the alert outlives the
\* overview it belongs to and the menu keeps its copy of the arrays.
HoechstensEineBestellung ==
  Cardinality({n \in DOMAIN gesendet : gesendet[n] # <<>>}) <= 1

\* An overview from which the last line was removed does not stay open: the
\* pop that passItemEntfernen schedules comes, whatever the guest does.
LeereUebersichtSchliesst ==
  (uebersichtOffen /\ dictionary = <<>>) ~> ~uebersichtOffen

-----------------------------------------------------------------------------
(* The order as Bestellliste sees it.                                      *)

Pfade == KategorieNamen \X UnterkategorieNamen

\* The lines under the Kategorie and Unterkategorie p, without their comments.
ZeilenUnter(b, p) ==
  IF ~Contains(b.Kategorien, p[1]) THEN <<>>
  ELSE LET k == firstIndex(b.Kategorien, p[1]) IN
       IF ~Contains(b.Unterkategorien[k], p[2]) THEN <<>>
       ELSE LET u == firstIndex(b.Unterkategorien[k], p[2]) IN
            [r \in DOMAIN b.felder["ItemsNamen"][k][u] |->
               [f \in OhneKommentar |-> b.felder[f][k][u][r]]]

Liste(b) == [p \in Pfade |-> ZeilenUnter(b, p)]

\* The arrays that a dictionary describes.
AlsArrays(d) ==
  [Kategorien      |-> [k \in DOMAIN d |-> d[k].Kategorie],
   Unterkategorien |-> [k \in DOMAIN d |-> d[k].Unterkategorie],
   felder          |-> [f \in Felder |-> [k \in DOMAIN d |-> d[k].felder[f]]]]

\* All lines that bestellungaktualisieren can add.
MoeglicheZeilen ==
  {[f \in OhneKommentar |->
      Zeile([LeererEntwurf EXCEPT !.artikel = a, !.itemCountLbl = m,
                                  !.extrasNamen = [n \in DOMAIN x |-> x[n].name],
                                  !.extrasPreise = [n \in DOMAIN x |-> x[n].preis]])[f]] :
     a \in Artikel, m \in 1..MaxMenge,
     x \in UNION {[1..n -> Extra] : n \in 0..Cardinality(Extra)}}

Liste_ == INSTANCE Bestellliste WITH
  Pfade    <- Pfade,
  Zeilen   <- MoeglicheZeilen,
  liste    <- Liste(IF uebersichtOffen THEN uebersicht ELSE bestellung),
  versandt <- [n \in DOMAIN gesendet |-> Liste(AlsArrays(gesendet[n]))]

\* No line is lost, duplicated, moved or changed on its way through the popup,
\* the ten arrays, the dictionary and back, and what handleBestellung is given
\* is the order as it stands: the two view controllers implement Bestellliste.
ImplementiertBestellliste == Liste_!Spec

-----------------------------------------------------------------------------
(* Expectations that the app's own texts raise and the code does not meet. *)

\* The popup shows the quantity that its buttons count.
AnzeigeGleichZaehler ==
  ansicht = "popup" => entwurf.itemCountLbl = entwurf.i

\* "abbrechen" cancels: an item only gets extras of its own Kategorie.
ExtrasVonEigenerKategorie ==
  \A z \in Positionen(bestellung) :
    LET kat == bestellung.Kategorien[z[1]]
        namen == bestellung.felder["ExtrasName"][z[1]][z[2]][z[3]] IN
    namen = <<KeineExtras>> \/
    (kat \in DOMAIN ExtrasVon /\
       \A n \in DOMAIN namen : namen[n] \in {x.name : x \in ToSet(ExtrasVon[kat])})

\* The popup opens for the item that was tapped.
GetippterArtikel ==
  ansicht = "popup" => entwurf.artikel = entwurf.getippt

\* Extras that can be selected can also be added.
ExtrasHinzufuegbar ==
  (ansicht = "extras" /\ entwurf.Kategorie \in DOMAIN ExtrasVon)
     => ~entwurf.hinzufuegenVersteckt

\* The comments as last edited in the overview are the comments that are sent.
KommentarGesendet ==
  ansicht = "abgeschickt" =>
    AlsArrays(Last(gesendet)).felder["ItemsKommentar"] = uebersicht.felder["ItemsKommentar"]

\* An empty order is refused, not sent.
KeineLeereBestellung ==
  \A n \in DOMAIN gesendet : gesendet[n] # <<>>
=============================================================================
