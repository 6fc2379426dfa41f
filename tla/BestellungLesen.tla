---------------------------- MODULE BestellungLesen ----------------------------
(***************************************************************************)
(* How MeineBestellungVC reads one order back: the body of loadBestellungen,*)
(* which turns the tree Bestellungen/<bar>/<id> into nested arrays of      *)
(* Kategorien, Unterkategorien, lines and extras, by four branches.        *)
(***************************************************************************)
EXTENDS Bestellfelder

\* The arrays of one order, where <<>> is a missing key (nil), and extrasString
\* and extrasPreis, in which the extras of a line are collected and which belong
\* to the view controller. Items stands for the names, prices, quantities,
\* comments and litres, which all branches treat alike.
LeererFund(rest) ==
  [Kategorien |-> <<>>, Unterkategorien |-> <<>>, Items |-> <<>>,
   ExtrasNamen |-> <<>>, ExtrasPreise |-> <<>>,
   extrasString |-> rest.extrasString, extrasPreis |-> rest.extrasPreis, trap |-> FALSE]

\* Before the first order nothing is collected.
KeinRest == [extrasString |-> <<>>, extrasPreis |-> <<>>]

\* Swift traps on a subscript out of range and on unwrapping nil.
Vorhanden(s, k) == k \in DOMAIN s

LiesUnterkategorie(z, k, ukat) ==
  IF Len(z.Unterkategorien) < Len(z.Kategorien)
    THEN [z EXCEPT !.Unterkategorien = Append(@, <<ukat>>)]
    ELSE [z EXCEPT !.Unterkategorien[k] = Append(@, ukat)]

\* A faulty variant: a second Unterkategorie has no list of its own.
LiesItemOhneUnterkategorie(z, k, u, w) ==
  IF Len(z.Items) < Len(z.Kategorien) THEN [z EXCEPT !.Items = Append(@, <<<<w>>>>)]
  ELSE [z EXCEPT !.Items[k][1] = Append(@, w)]

\* A line: into a new Kategorie, a new Unterkategorie, or the u-th.
LiesItem(z, k, u, w) ==
  IF Len(z.Items) < Len(z.Kategorien)
    THEN [z EXCEPT !.Items = Append(@, <<<<w>>>>)]
  ELSE IF Len(z.Items[k]) < Len(z.Unterkategorien[k])
    THEN [z EXCEPT !.Items[k] = Append(@, <<w>>)]
  ELSE [z EXCEPT !.Items[k][u] = Append(@, w)]

\* The extras collected so far become those of the next line of <<k, u>>: as the
\* first list of the order or Kategorie, the first of the Unterkategorie, or one
\* more, with the prices at the end or (vorne) at the front.
MitNeuerKategorie(z) ==
  [z EXCEPT !.ExtrasNamen = Append(@, <<<<z.extrasString>>>>),
            !.ExtrasPreise = Append(@, <<<<z.extrasPreis>>>>)]

MitNeuerUnterkategorie(z, k) ==
  [z EXCEPT !.ExtrasNamen[k] = Append(@, <<z.extrasString>>),
            !.ExtrasPreise[k] = Append(@, <<z.extrasPreis>>)]

MitWeitererZeile(z, k, u, vorne) ==
  IF ~Vorhanden(z.ExtrasNamen[k], u) THEN [z EXCEPT !.trap = TRUE]
  ELSE [z EXCEPT !.ExtrasNamen[k][u] = Append(@, z.extrasString),
                 !.ExtrasPreise[k][u] = IF vorne THEN <<z.extrasPreis>> \o @
                                                 ELSE Append(@, z.extrasPreis)]

\* A faulty variant: the extras of a line are kept.
NichtGeleert(z) == z

\* Another: their prices are.
NurNamenGeleert(z) == [z EXCEPT !.extrasString = <<>>]

Geleert(z) == [z EXCEPT !.extrasString = <<>>, !.extrasPreis = <<>>]

\* An extra of a line that has anzahl of them. Only the last branch, for a later
\* Unterkategorie of a later Kategorie, does not wait for all extras of a line
\* before it makes the first list.
LiesExtra(z, k, u, extra, anzahl) ==
  LET y == [z EXCEPT !.extrasString = Append(@, extra.Name),
                     !.extrasPreis = Append(@, extra.Preis)]
      alle == Len(y.extrasString) = anzahl IN
  CASE z.trap -> z
    [] ~z.trap /\ k = 1 /\ u = 1 ->
         IF ~alle THEN y
         ELSE Geleert(IF y.ExtrasNamen = <<>> THEN MitNeuerKategorie(y)
                                              ELSE MitWeitererZeile(y, 1, 1, TRUE))
    [] ~z.trap /\ k = 1 /\ u > 1 ->
         IF ~Vorhanden(y.ExtrasNamen, k) THEN [y EXCEPT !.trap = TRUE]
         ELSE IF ~alle THEN y
         ELSE Geleert(IF Len(y.ExtrasNamen[k]) < u THEN MitNeuerUnterkategorie(y, k)
                                                   ELSE MitWeitererZeile(y, k, u, FALSE))
    [] ~z.trap /\ k > 1 /\ u = 1 ->
         IF y.ExtrasNamen = <<>> THEN [y EXCEPT !.trap = TRUE]
         ELSE IF Len(y.ExtrasNamen) < Len(y.Kategorien)
           THEN IF alle THEN Geleert(MitNeuerKategorie(y)) ELSE y
           ELSE IF alle THEN Geleert(MitWeitererZeile(y, k, u, FALSE)) ELSE y
    [] OTHER ->
         IF ~Vorhanden(y.ExtrasNamen, k) THEN [y EXCEPT !.trap = TRUE]
         ELSE IF Len(y.ExtrasNamen[k]) < Len(y.Unterkategorien[k])
           THEN Geleert(MitNeuerUnterkategorie(y, k))
           ELSE IF alle THEN Geleert(MitWeitererZeile(y, k, u, FALSE)) ELSE y

\* The lines of an Unterkategorie, one after the other.
LiesItems(z, k, u, zeilen) ==
  LET nach[n \in 0..Len(zeilen)] ==
        IF n = 0 THEN z ELSE LiesItem(nach[n - 1], k, u, zeilen[n].item) IN
  nach[Len(zeilen)]

\* The extras of a line, and those of all lines.
LiesExtras(z, k, u, extras) ==
  LET nach[n \in 0..Len(extras)] ==
        IF n = 0 THEN z ELSE LiesExtra(nach[n - 1], k, u, extras[n], Len(extras)) IN
  nach[Len(extras)]

LiesAlleExtras(z, k, u, zeilen) ==
  LET nach[n \in 0..Len(zeilen)] ==
        IF n = 0 THEN z ELSE LiesExtras(nach[n - 1], k, u, zeilen[n].extras) IN
  nach[Len(zeilen)]

\* An Unterkategorie of the snapshot: first its lines, then their extras.
LiesKind(z, k, kind) ==
  LET y == LiesUnterkategorie(z, k, kind.key)
      u == firstIndex(y.Unterkategorien[k], kind.key) IN
  IF z.trap THEN z ELSE LiesAlleExtras(LiesItems(y, k, u, kind.zeilen), k, u, kind.zeilen)

LiesKinder(z, k, kinder) ==
  LET nach[n \in 0..Len(kinder)] == IF n = 0 THEN z ELSE LiesKind(nach[n - 1], k, kinder[n]) IN
  nach[Len(kinder)]

LiesKategorie(z, kat) ==
  LET y == [z EXCEPT !.Kategorien = Append(@, kat.key)] IN
  IF z.trap THEN z ELSE LiesKinder(y, firstIndex(y.Kategorien, kat.key), kat.kinder)

\* The whole order; rest is what extrasString and extrasPreis held before.
Fund(snapshot, rest) ==
  LET nach[n \in 0..Len(snapshot)] ==
        IF n = 0 THEN LeererFund(rest) ELSE LiesKategorie(nach[n - 1], snapshot[n]) IN
  nach[Len(snapshot)]

-----------------------------------------------------------------------------
(* What the snapshot says. *)

\* In a later Unterkategorie of a later Kategorie, lines have one extra.
NurHintenEines(s) ==
  \A k \in DOMAIN s : \A u \in DOMAIN s[k].kinder :
    k > 1 /\ u > 1 =>
      \A i \in DOMAIN s[k].kinder[u].zeilen : Len(s[k].kinder[u].zeilen[i].extras) = 1

SollItems(snapshot) ==
  [k \in DOMAIN snapshot |-> [u \in DOMAIN snapshot[k].kinder |->
    LET zeilen == snapshot[k].kinder[u].zeilen IN [i \in DOMAIN zeilen |-> zeilen[i].item]]]

SollExtras(snapshot, feld) ==
  [k \in DOMAIN snapshot |-> [u \in DOMAIN snapshot[k].kinder |->
    LET zeilen == snapshot[k].kinder[u].zeilen IN
    [i \in DOMAIN zeilen |-> [n \in DOMAIN zeilen[i].extras |-> zeilen[i].extras[n][feld]]]]]
===============================================================================
