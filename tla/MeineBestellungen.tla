--------------------------- MODULE MeineBestellungen ---------------------------
(***************************************************************************)
(* MeineBestellungVC, the guest's list of own orders, reading what         *)
(* handleBestellung (BestellungSenden) writes: one read finds the bar, a   *)
(* listener the orders, one more read loads each of them; the list is      *)
(* filled when as many orders are loaded as were found.                    *)
(*                                                                         *)
(* The list is on the phone that orders, which sees its own updates before *)
(* the server does, or on another phone of the same guest.                 *)
(***************************************************************************)
EXTENDS BestellungSenden, BestellungLesen

CONSTANTS
  ich,                \* the guest whose list this is
  Geraete,            \* whether the list is on the phone that orders: {TRUE}, {FALSE}, both
  Schluesselfolge,    \* names of Kategorien and Unterkategorien, in key order
  MaxTrennungen       \* bound: how often the list's phone is offline

\* Keys are ordered, and those of the orders are among them.
SchluesselAssumption ==
  /\ Schluesselfolge \in Seq(ToSet(Schluesselfolge)) /\ Injektiv(Schluesselfolge)
  /\ \A d \in Auftraege : \A k \in DOMAIN d :
       {d[k].Kategorie} \cup ToSet(d[k].Unterkategorie) \subseteq ToSet(Schluesselfolge)

ListeAssumption == ich \in Gaeste /\ Geraete \subseteq BOOLEAN /\ MaxTrennungen \in Nat

ASSUME SchluesselAssumption
ASSUME ListeAssumption

VARIABLES
  selbesGeraet,       \* the list is on the phone that orders
  ansicht,            \* "zu", which read is awaited, "offen", or "abgestuerzt"
  aktuelleBar,
  gesehen,            \* orders the listener of loadBestellungenKeys has seen
  bestellungIDs,
  gefragt,            \* orders whose read is not answered
  geladen,            \* id |-> Fund, for ids with a key in BestellungKategorien
  rest,               \* extrasString, extrasPreis
  Bestellungen,       \* the sections of the table
  getrennt            \* <<offline, how often>>

listeVars == <<ansicht, aktuelleBar, gesehen, bestellungIDs, gefragt, geladen, rest,
               Bestellungen>>
geraet == <<selbesGeraet, getrennt>>
alleVars == <<vars, listeVars, geraet>>

Zu ==
  /\ aktuelleBar = "" /\ gesehen = {} /\ bestellungIDs = <<>> /\ gefragt = {}
  /\ geladen = <<>> /\ rest = KeinRest /\ Bestellungen = <<>>

\* A faulty variant: the table of the last instance stays.
GeschlossenMitTabelle ==
  /\ ansicht' = "zu"
  /\ aktuelleBar' = "" /\ gesehen' = {} /\ bestellungIDs' = <<>> /\ gefragt' = {}
  /\ geladen' = <<>> /\ rest' = KeinRest /\ UNCHANGED Bestellungen

\* A new instance, or none.
Geschlossen ==
  /\ ansicht' = "zu"
  /\ aktuelleBar' = "" /\ gesehen' = {} /\ bestellungIDs' = <<>> /\ gefragt' = {}
  /\ geladen' = <<>> /\ rest' = KeinRest /\ Bestellungen' = <<>>

ListeInit ==
  /\ Init /\ ansicht = "zu" /\ Zu
  /\ selbesGeraet \in Geraete /\ getrennt = <<FALSE, 0>>

-----------------------------------------------------------------------------
(* What the list's phone sees. *)

\* The phone's own updates count at once, wherever they are on their way.
Sicht == Ueberlagert(datenbank, IF selbesGeraet THEN schlange[ich] ELSE <<>>)

\* A field, or a default if it is missing.
WertIn(db, knoten, feld, sonst) ==
  IF knoten \in DOMAIN db /\ feld \in DOMAIN db[knoten] THEN db[knoten][feld] ELSE sonst

Eintraege(knoten) ==
  {k[3] : k \in {k \in knoten : Len(k) = 3 /\ SubSeq(k, 1, 2) = <<"userBestellungen", ich>>}}

Status(db, id) == WertIn(db, <<"userBestellungen", ich, id>>, "Status", "Fehler")

\* A finite set of numbers in ascending order.
Aufsteigend(S) ==
  [i \in 1..Cardinality(S) |-> CHOOSE n \in S : Cardinality({m \in S : m <= n}) = i]

\* The orders among neu that loadBestellungenKeys takes up, in key order.
Aufgenommen(db, neu) == Aufsteigend({id \in neu : Status(db, id) = "versendet"})

\* What a read of Bestellungen/<bar>/<id> gets: the nodes below.
Baum(db, bar, id) ==
  [k \in {k \in DOMAIN db : Len(k) > 4 /\ SubSeq(k, 1, 3) = <<"Bestellungen", bar, id>>} |-> db[k]]

\* Its children as snapshot.children yields them, sorted by key: extras of a line,
\* lines of an Unterkategorie, and all of them.
ExtrasVonZeile(baum, item) ==
  LET nummern == Aufsteigend({k[8] : k \in {k \in DOMAIN baum : Len(k) = 8 /\ SubSeq(k, 1, 6) = item}})
      extra(n) == item \o <<"Extras", nummern[n]>> IN
  [n \in DOMAIN nummern |-> [Name  |-> WertIn(baum, extra(n), "Name", ""),
                             Preis |-> WertIn(baum, extra(n), "Preis", 0)]]

Zeilen(baum, kat, ukat) ==
  LET items == {k \in DOMAIN baum : Len(k) = 6 /\ k[4] = kat /\ k[5] = ukat}
      nummern == Aufsteigend({k[6][2] : k \in items})
      item(n) == CHOOSE k \in items : k[6][2] = nummern[n] IN
  [n \in DOMAIN nummern |->
    [item |-> [Name      |-> WertIn(baum, item(n), "Name", ""),
               Menge     |-> WertIn(baum, item(n), "Menge", 0),
               Preis     |-> WertIn(baum, item(n), "Preis", 0),
               Kommentar |-> WertIn(baum, item(n), "Kommentar", "kein Kommentar")],
     extras |-> ExtrasVonZeile(baum, item(n))]]

\* The names of S in key order.
Sortiert(S) ==
  LET stellen == Aufsteigend({p \in DOMAIN Schluesselfolge : Schluesselfolge[p] \in S}) IN
  [n \in DOMAIN stellen |-> Schluesselfolge[stellen[n]]]

Snapshot(baum) ==
  LET items == {k \in DOMAIN baum : Len(k) = 6}
      kats  == Sortiert({k[4] : k \in items})
      ukats(kat) == Sortiert({k[5] : k \in {k \in items : k[4] = kat}}) IN
  [i \in DOMAIN kats |->
    LET kinder == ukats(kats[i]) IN
    [key |-> kats[i],
     kinder |-> [j \in DOMAIN kinder |->
                  [key |-> kinder[j], zeilen |-> Zeilen(baum, kats[i], kinder[j])]]]]

Online == ~getrennt[1]

-----------------------------------------------------------------------------
(* The view controller. Each instance starts afresh; nobody sees one that was *)
(* left.                                                                      *)

viewDidLoad ==
  /\ ansicht = "zu"
  /\ ansicht' = "bar"
  /\ UNCHANGED <<vars, aktuelleBar, gesehen, bestellungIDs, gefragt, geladen, rest,
                 Bestellungen, geraet>>

Verlassen ==
  /\ ansicht \notin {"zu", "abgestuerzt"}
  /\ Geschlossen
  /\ UNCHANGED <<vars, geraet>>

\* The answer about the bar. (Whoever is registered has an entry in Users.)
loadAktuelleBar ==
  /\ ansicht = "bar" /\ Online
  /\ aktuelleBar' = WertIn(Sicht, <<"Users", ich>>, "aktuelleBar", "keineBar")
  /\ ansicht' = "schluessel"
  /\ UNCHANGED <<vars, gesehen, bestellungIDs, gefragt, geladen, rest, Bestellungen, geraet>>

\* The listener gets all entries it has not seen, as they are now. All their
\* events are on the main queue before the answer to any read they cause.
NeueEintraege ==
  LET neu == Eintraege(DOMAIN Sicht) \ gesehen
      ids == Aufgenommen(Sicht, neu) IN
  /\ gesehen' = gesehen \cup neu
  /\ bestellungIDs' = bestellungIDs \o ids
  /\ gefragt' = gefragt \cup ToSet(ids)

\* Its first data.
loadBestellungenKeys ==
  /\ ansicht = "schluessel" /\ Online
  /\ ansicht' = "offen"
  /\ NeueEintraege
  /\ UNCHANGED <<vars, aktuelleBar, geladen, rest, Bestellungen, geraet>>

\* The forced unwraps of line 497.
Vollstaendig(db, id, fund) ==
  /\ <<"Bestellungen", aktuelleBar, id, "Information">> \in DOMAIN db
  /\ fund.Items # <<>> /\ fund.ExtrasNamen # <<>>

\* A faulty variant: the list is filled after every answer.
JederzeitGefuellt(g) == DOMAIN g # {}

\* A faulty variant: entries without Status are waited for.
AlleGesehenGeladen(g) == Cardinality(gesehen) = Cardinality(DOMAIN g)

\* bestellungIDs.count == BestellungKategorien.count
AlleGeladen(g) == Len(bestellungIDs) = Cardinality(DOMAIN g)

Abschnitt(g, id) == [id |-> id, fund |-> g[id]]

\* A faulty variant: off by one.
ZeigenOhneLetzte(g) == [n \in 1..Len(bestellungIDs) - 1 |-> Abschnitt(g, bestellungIDs[n])]

Zeigen(g) == [n \in DOMAIN bestellungIDs |-> Abschnitt(g, bestellungIDs[n])]

\* The answer to the read of an order, with all that is done about it.
loadBestellungen(id) ==
  LET fund == Fund(Snapshot(Baum(Sicht, aktuelleBar, id)), rest)
      g == IF fund.Kategorien = <<>> THEN geladen
           ELSE [n \in DOMAIN geladen \cup {id} |-> IF n = id THEN fund ELSE geladen[n]] IN
  /\ ansicht = "offen" /\ Online
  /\ id \in gefragt
  /\ gefragt' = gefragt \ {id}
  /\ geladen' = g
  /\ rest' = [extrasString |-> fund.extrasString, extrasPreis |-> fund.extrasPreis]
  /\ IF \/ fund.trap
        \/ AlleGeladen(g) /\ ~(\A n \in ToSet(bestellungIDs) :
                                 n \in DOMAIN g /\ Vollstaendig(Sicht, n, g[n]))
       THEN ansicht' = "abgestuerzt" /\ UNCHANGED Bestellungen
       ELSE /\ Bestellungen' = IF AlleGeladen(g) THEN Bestellungen \o Zeigen(g) ELSE Bestellungen
            /\ UNCHANGED ansicht
  /\ UNCHANGED <<vars, aktuelleBar, gesehen, bestellungIDs, geraet>>

-----------------------------------------------------------------------------
(* Orders, while the list is open or not. *)

\* A new entry comes into being by an update without Status; a listener that is
\* there is told of it then (and of the Status not at all: it is no new child).
Zuhoeren ==
  LET Geschehen == DOMAIN datenbank' \cup
        IF selbesGeraet THEN {w.knoten : w \in ToSet(schlange'[ich])} ELSE {} IN
  /\ gesehen' = IF ansicht = "offen" /\ Online THEN gesehen \cup Eintraege(Geschehen) ELSE gesehen
  /\ UNCHANGED <<ansicht, aktuelleBar, bestellungIDs, gefragt, geladen, rest, Bestellungen,
                 geraet>>

Bestellen ==
  /\ \E g \in Gaeste, bar \in Bars, d \in Auftraege : handleBestellung(g, bar, d)
  /\ Zuhoeren

Uebertragen(g) == Bestaetigt(g) /\ Zuhoeren
NochmalUebertragen(g) == Unbestaetigt(g) /\ Zuhoeren

\* The ordering phone's app ends, and the list with it if it is there.
Beenden(g) ==
  /\ AppBeenden(g)
  /\ IF selbesGeraet /\ g = ich THEN Geschlossen ELSE UNCHANGED listeVars
  /\ UNCHANGED geraet

\* Another phone may lose its connection and get everything that is new at once.
Trennen ==
  /\ ~selbesGeraet /\ Online /\ getrennt[2] < MaxTrennungen
  /\ getrennt' = <<TRUE, getrennt[2] + 1>>
  /\ UNCHANGED <<vars, listeVars, selbesGeraet>>

Verbinden ==
  /\ ~Online
  /\ getrennt' = <<FALSE, getrennt[2]>>
  /\ IF ansicht = "offen" THEN NeueEintraege ELSE UNCHANGED <<gesehen, bestellungIDs, gefragt>>
  /\ UNCHANGED <<vars, ansicht, aktuelleBar, geladen, rest, Bestellungen, selbesGeraet>>

ListeNext ==
  \/ viewDidLoad
  \/ Verlassen
  \/ loadAktuelleBar
  \/ loadBestellungenKeys
  \/ \E id \in gefragt : loadBestellungen(id)
  \/ Bestellen
  \/ \E g \in Gaeste : Uebertragen(g) \/ NochmalUebertragen(g) \/ Beenden(g)
  \/ Trennen
  \/ Verbinden

\* Reads are answered while the phone is online, and connections come back; nobody
\* has to open or leave the list or to order, and updates may wait forever. (The
\* conditions name loadAktuelleBar, loadBestellungenKeys, loadBestellungen and
\* Verbinden by the one variable that tells them from all other actions.)
AnsichtWechselt ==
  /\ Online
  /\ \/ ansicht = "bar" /\ ansicht' = "schluessel"
     \/ ansicht = "schluessel" /\ ansicht' = "offen"

ReadBeantwortet == ansicht = "offen" /\ Online /\ \E id \in gefragt : gefragt' = gefragt \ {id}

WiederVerbunden == ~Online /\ getrennt' = <<FALSE, getrennt[2]>>

ListeSpec ==
  /\ ListeInit /\ [][ListeNext]_alleVars
  /\ WF_ansicht(AnsichtWechselt) /\ WF_gefragt(ReadBeantwortet) /\ WF_getrennt(WiederVerbunden)

-----------------------------------------------------------------------------
(* Properties. *)

\* Orders found, asked for, loaded and shown are orders of this guest, and are
\* asked for once; nothing remains of a list that was left.
ListeTypeOK ==
  /\ ToSet(bestellungIDs) \cup gesehen \subseteq DOMAIN auftraege
  /\ ToSet(bestellungIDs) \subseteq gesehen
  /\ Injektiv(bestellungIDs)
  /\ gefragt \cup DOMAIN geladen \subseteq ToSet(bestellungIDs)
  /\ gefragt \cap DOMAIN geladen = {}
  /\ ansicht = "zu" => Zu

\* The tree of an order that was sent.
Soll(a) == Snapshot(Baum(Ueberlagert(<<>>, Updates(a)), a.bar, a.id))

\* What the list shows of an order are its lines, each in its own Kategorie and
\* Unterkategorie, whatever was on its way when it was read, in whichever order
\* the answers came, and even if the app of the ordering phone ended half-way.
ListeGetreu ==
  \A n \in DOMAIN Bestellungen :
    LET a == auftraege[Bestellungen[n].id]
        z == Bestellungen[n].fund
        soll == Soll(a) IN
    /\ a.gast = ich /\ a.bar = aktuelleBar
    /\ z.Kategorien = [k \in DOMAIN soll |-> soll[k].key]
    /\ z.Unterkategorien = [k \in DOMAIN soll |->
                              [u \in DOMAIN soll[k].kinder |-> soll[k].kinder[u].key]]
    /\ z.Items = SollItems(soll)

\* The names of the extras are those of their line.
ExtrasBeiZeile ==
  \A n \in DOMAIN Bestellungen :
    Bestellungen[n].fund.ExtrasNamen = SollExtras(Soll(auftraege[Bestellungen[n].id]), "Name")

\* No unwrap or subscript fails while orders are read and put together.
ListeOhneAbsturz == ansicht # "abgestuerzt"

\* Every order is listed once.
JedeEinmal == Injektiv([n \in DOMAIN Bestellungen |-> Bestellungen[n].id])

\* It is if the list's phone has not lost its connection, whatever is ordered
\* while the list is open, in whichever order the answers come.
NurEinmal == getrennt[2] = 0 => JedeEinmal

Gezeigt(id) == id \in {Bestellungen[n].id : n \in DOMAIN Bestellungen}

\* The orders that the list has found are all at its bar and not empty.
EineBar ==
  \A id \in ToSet(bestellungIDs) :
    auftraege[id].bar = aktuelleBar /\ auftraege[id].dictionary # <<>>

\* When no answer is awaited, the list is filled with everything that was found, if
\* there are only orders of its bar.
ListeVollstaendig ==
  EineBar /\ ansicht = "offen" /\ gefragt = {} => \A id \in ToSet(bestellungIDs) : Gezeigt(id)

\* A list that is opened shows each of its orders, unless it is left or there are
\* orders of another bar.
ListeErscheint ==
  \A id \in 1..MaxAuftraege :
    (ansicht = "schluessel" /\ Status(Sicht, id) = "versendet")
      ~> (Gezeigt(id) \/ ansicht = "zu" \/ ~EineBar)

\* So does an order at the current bar, whatever else the guest ordered elsewhere.
AktuelleErscheint ==
  \A id \in 1..MaxAuftraege :
    (/\ ansicht = "schluessel" /\ Status(Sicht, id) = "versendet"
     /\ auftraege[id].bar = aktuelleBar /\ auftraege[id].dictionary # <<>>)
      ~> (Gezeigt(id) \/ ansicht = "zu")

\* An order that was sent is shown by a list that is open.
BestellungErscheint ==
  \A id \in 1..MaxAuftraege :
    (ansicht = "offen" /\ Status(Sicht, id) = "versendet") ~> (Gezeigt(id) \/ ansicht # "offen")
=============================================================================
