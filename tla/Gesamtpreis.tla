------------------------------- MODULE Gesamtpreis -------------------------------
(***************************************************************************)
(* The total that BestellungÜbersichtVC shows: every cell that the table   *)
(* builds appends its section's prices and quantities to three flat lists, *)
(* which are cleared in viewDidLoad only, and the total is taken of all of *)
(* the lists. (MeineBestellungVC clears them for every cell.)              *)
(*                                                                         *)
(* Prices are cents here and Doubles in the code; a section is the list of *)
(* its lines, since Unterkategorien only group them.                       *)
(***************************************************************************)
EXTENDS Integers, SequencesExt

CONSTANTS
  Bestellungen,       \* sections of lines that the overview may open with
  MaxMenge,           \* bound: quantity of a line
  MaxAenderungen,     \* bound: taps on plus, minus and remove
  MaxScrollen         \* bound: cells that are scrolled away and back

\* Each line has a price, a quantity and at least one extra, or the price 0 of
\* "keine Extras" (ExtrasGepaart of Bestellung). The overview opens only with lines
\* (bestellungPruefen of Bestellung).
Zeile == [preis : Nat, menge : Nat \ {0}, extrasPreise : Seq(Nat) \ {<<>>}]

GesamtpreisAssumption ==
  /\ Bestellungen \subseteq Seq(Seq(Zeile) \ {<<>>}) \ {<<>>}
  /\ MaxMenge \in Nat /\ MaxAenderungen \in Nat /\ MaxScrollen \in Nat

ASSUME GesamtpreisAssumption

VARIABLES
  bestellteItemsDictionary,
  ItemsPreis, ItemsMenge, ExtraPreis,   \* the flat lists
  gesamtpreislabel,                     \* what the label shows; -1 before the first cell
  ausstehend,                           \* sections whose cells the table is about to build
  gebaut,                               \* the sections of all cells built so far
  getippt, gescrollt                    \* bounded

listen == <<ItemsPreis, ItemsMenge, ExtraPreis, gesamtpreislabel>>
vars   == <<bestellteItemsDictionary, listen, ausstehend, gebaut, getippt, gescrollt>>

\* viewDidLoad; then the table builds its cells.
Init ==
  /\ bestellteItemsDictionary \in Bestellungen
  /\ ItemsPreis = <<>> /\ ItemsMenge = <<>> /\ ExtraPreis = <<>>
  /\ gesamtpreislabel = -1
  /\ ausstehend = DOMAIN bestellteItemsDictionary
  /\ gebaut = <<>>
  /\ getippt = 0 /\ gescrollt = 0

-----------------------------------------------------------------------------
Summe(s) == FoldLeft(LAMBDA a, x : a + x, 0, s)

\* A faulty variant: prices of items only.
teilPreisOhneExtras(preise, extras, mengen) ==
  Summe([i \in DOMAIN preise |-> preise[i] * mengen[i]])

\* The i-th item takes the i-th price of the extras.
teilPreis(preise, extras, mengen) ==
  Summe([i \in DOMAIN preise |-> (preise[i] + extras[i]) * mengen[i]])

\* A faulty variant: the cell's quantities come to the front of the list.
gesamtpreisBerechnenVorne(zeilen) ==
  /\ ItemsPreis' = ItemsPreis \o [r \in DOMAIN zeilen |-> zeilen[r].preis]
  /\ ItemsMenge' = [r \in DOMAIN zeilen |-> zeilen[r].menge] \o ItemsMenge
  /\ ExtraPreis' = ExtraPreis \o FlattenSeq([r \in DOMAIN zeilen |-> zeilen[r].extrasPreise])
  /\ gesamtpreislabel' = teilPreis(ItemsPreis', ExtraPreis', ItemsMenge')

gesamtpreisBerechnen(zeilen) ==
  /\ ItemsPreis' = ItemsPreis \o [r \in DOMAIN zeilen |-> zeilen[r].preis]
  /\ ItemsMenge' = ItemsMenge \o [r \in DOMAIN zeilen |-> zeilen[r].menge]
  /\ ExtraPreis' = ExtraPreis \o FlattenSeq([r \in DOMAIN zeilen |-> zeilen[r].extrasPreise])
  /\ gesamtpreislabel' = teilPreis(ItemsPreis', ExtraPreis', ItemsMenge')

\* The table builds the cell of a section, from the top.
cellForRowAt ==
  /\ ausstehend # {}
  /\ LET s == CHOOSE s \in ausstehend : \A t \in ausstehend : s <= t IN
     /\ gesamtpreisBerechnen(bestellteItemsDictionary[s])
     /\ ausstehend' = ausstehend \ {s}
     /\ gebaut' = Append(gebaut, s)
  /\ UNCHANGED <<bestellteItemsDictionary, getippt, gescrollt>>

\* A cell comes back into sight and is built again.
Scrollen ==
  /\ ausstehend = {} /\ gescrollt < MaxScrollen
  /\ \E s \in DOMAIN bestellteItemsDictionary : ausstehend' = {s}
  /\ gescrollt' = gescrollt + 1
  /\ UNCHANGED <<bestellteItemsDictionary, listen, gebaut, getippt>>

-----------------------------------------------------------------------------
(* The taps, as Bestellung has them; all end in reloadData. *)

Tipp ==
  /\ ausstehend = {} /\ getippt < MaxAenderungen
  /\ getippt' = getippt + 1

reloadData ==
  /\ ausstehend' = DOMAIN bestellteItemsDictionary'
  /\ UNCHANGED <<listen, gebaut, gescrollt>>

passItemPlus(s, r) ==
  /\ Tipp
  /\ bestellteItemsDictionary[s][r].menge < MaxMenge
  /\ bestellteItemsDictionary' = [bestellteItemsDictionary EXCEPT ![s][r].menge = @ + 1]
  /\ reloadData

passItemMinus(s, r) ==
  /\ Tipp
  /\ bestellteItemsDictionary[s][r].menge > 1
  /\ bestellteItemsDictionary' = [bestellteItemsDictionary EXCEPT ![s][r].menge = @ - 1]
  /\ reloadData

passItemEntfernen(s, r) ==
  /\ Tipp
  /\ bestellteItemsDictionary' =
       IF Len(bestellteItemsDictionary[s]) = 1
         THEN RemoveAt(bestellteItemsDictionary, s)
         ELSE [bestellteItemsDictionary EXCEPT ![s] = RemoveAt(@, r)]
  /\ reloadData

Next ==
  \/ cellForRowAt
  \/ Scrollen
  \/ \E s \in DOMAIN bestellteItemsDictionary : \E r \in DOMAIN bestellteItemsDictionary[s] :
       passItemPlus(s, r) \/ passItemMinus(s, r) \/ passItemEntfernen(s, r)

Spec == Init /\ [][Next]_vars

-----------------------------------------------------------------------------
(* Properties. *)

Zeilen == FlattenSeq(bestellteItemsDictionary)

Preis(z) == (z.preis + Summe(z.extrasPreise)) * z.menge

WahrerPreis == Summe([i \in DOMAIN Zeilen |-> Preis(Zeilen[i])])

\* The lists may hold lines that were changed or removed since, but price and
\* quantity at one index are of the same line, and every index has an extra.
TypeOK ==
  /\ Len(ItemsPreis) = Len(ItemsMenge) /\ Len(ItemsPreis) <= Len(ExtraPreis)
  /\ ausstehend \subseteq DOMAIN bestellteItemsDictionary
  /\ \A s \in DOMAIN bestellteItemsDictionary :
       \A r \in DOMAIN bestellteItemsDictionary[s] : bestellteItemsDictionary[s][r] \in Zeile

\* The table is complete and no cell was built twice.
Frisch == ausstehend = {} /\ gebaut = [s \in DOMAIN bestellteItemsDictionary |-> s]

JeEinExtra == \A i \in DOMAIN Zeilen : Len(Zeilen[i].extrasPreise) = 1

\* The total is right when the overview opens, as long as no line has several extras.
ErsteSumme == Frisch /\ JeEinExtra => gesamtpreislabel = WahrerPreis

\* With several extras on a line it is right, too.
SummeMitExtras == Frisch => gesamtpreislabel = WahrerPreis

\* It is right after the guest has changed the order.
SummeNachAenderung ==
  ausstehend = {} /\ JeEinExtra /\ Zeilen # <<>> => gesamtpreislabel = WahrerPreis
==================================================================================
