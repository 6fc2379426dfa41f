--------------------------- MODULE BestellungSenden ---------------------------
(***************************************************************************)
(* handleBestellung of BestellungÜbersichtVC: an order is written to the   *)
(* Firebase database in many separate updates.                             *)
(*                                                                         *)
(* Firebase keeps the updates of a phone in a queue in memory and sends    *)
(* them one after the other, again if it is not sure that one arrived. The *)
(* app does not enable persistence: when it ends, what is in the queue is  *)
(* lost. Other phones and the waiter's see the server's state at any time. *)
(***************************************************************************)
EXTENDS Bestellfelder

CONSTANTS
  Gaeste,           \* guests, each with a phone
  Bars, Kellner,    \* bar and waiter come with the code on the table
  Auftraege,        \* dictionaries the overview may send
  MaxAuftraege,     \* bound: orders
  MaxUnterwegs,     \* bound: updates that arrive before the first is acknowledged
  MaxNeustarts      \* bound: how often the app of each guest ends

\* What the overview hands over.
AuftraegeAssumption == \A d \in Auftraege : Versendbar(d)

\* Waiters have another app.
KellnerAssumption == Kellner \notin Gaeste

SchrankenAssumption ==
  MaxAuftraege \in Nat /\ MaxUnterwegs \in Nat /\ MaxNeustarts \in [Gaeste -> Nat]

ASSUME AuftraegeAssumption
ASSUME KellnerAssumption
ASSUME SchrankenAssumption

VARIABLES
  schlange,         \* the updates of each phone that are not acknowledged yet
  datenbank,        \* the server: node |-> values of its fields
  auftraege,        \* id |-> what was sent, by whom and to whom
  neustarts         \* how often the app of each guest ended

vars == <<schlange, datenbank, auftraege, neustarts>>

Init ==
  /\ schlange = [g \in Gaeste |-> <<>>]
  /\ datenbank = <<>>
  /\ auftraege = <<>>
  /\ neustarts = [g \in Gaeste |-> 0]

-----------------------------------------------------------------------------
(* The updates of handleBestellung, in their order. The table and the time, *)
(* which it also writes, are left out.                                     *)

\* updateChildValues of the given fields of a node.
Update(knoten, werte) == [knoten |-> knoten, werte |-> werte]

\* The node of an order in its bar, of its k-th item, and of the item's extras.
BestellungRef(a) == <<"Bestellungen", a.bar, a.id>>
ItemRef(a, kat, ukat, item) == BestellungRef(a) \o <<kat, ukat, item>>
ExtraRef(item, n) == item \o <<"Extras", n>>

\* A faulty variant: the extras of a line are not numbered.
ExtraUpdatesOhneNummer(item, namen, preise, x) ==
  << Update(ExtraRef(item, 1), [Name |-> x]),
     Update(ExtraRef(item, 1), [Preis |-> preise[firstIndex(namen, x)]]) >>

\* The updates of an extra x: its number is the position where its name is found
\* first, and so is its price.
ExtraUpdates(item, namen, preise, x) ==
  LET n == firstIndex(namen, x) IN
  << Update(ExtraRef(item, n), [Name |-> x]),
     Update(ExtraRef(item, n), [Preis |-> preise[n]]) >>

\* The updates of the i-th line of the Unterkategorie ukat of section s, which is
\* found by its name. childByAutoId makes a new key: <<j, i>>, if ukat is j-th.
ItemUpdates(a, s, j, i) ==
  LET ukat == s.Unterkategorie[j]
      u    == firstIndex(s.Unterkategorie, ukat)
      item == ItemRef(a, s.Kategorie, ukat, <<j, i>>)
      wert == [f \in Felder |-> s.felder[f][u][i]]
      namen == wert["ExtrasName"] IN
  << Update(item, [Name      |-> wert["ItemsNamen"]]),
     Update(item, [Menge     |-> wert["ItemsMengen"]]),
     Update(item, [Preis     |-> wert["ItemsPreise"]]),
     Update(item, [Kommentar |-> wert["ItemsKommentar"]]),
     Update(item, [bestellungItemId |-> <<j, i>>]) >>
  \o FlattenSeq([n \in DOMAIN namen |->
                   ExtraUpdates(item, namen, wert["ExtrasPreise"], namen[n])])

ItemsUpdates(a) ==
  FlattenSeq([k \in DOMAIN a.dictionary |->
    LET s == a.dictionary[k] IN
    FlattenSeq([j \in DOMAIN s.Unterkategorie |->
      LET u == firstIndex(s.Unterkategorie, s.Unterkategorie[j]) IN
      FlattenSeq([i \in DOMAIN s.felder["ItemsNamen"][u] |-> ItemUpdates(a, s, j, i)])])])

Information(a) ==
  [Barname |-> a.bar, fromUserID |-> a.gast, Status |-> "versendet"]

GastRef(a)    == <<"userBestellungen", a.gast, a.id>>
KellnerRef(a) == <<"userBestellungen", Kellner, a.id>>

\* A faulty variant: the order is listed before its items are written.
GastUpdatesListeZuerst(a) ==
  << Update(<<"Users", a.gast>>, [aktuelleBar |-> a.bar]),
     Update(GastRef(a), Information(a)),
     Update(BestellungRef(a) \o <<"Information">>, Information(a)) >>
  \o ItemsUpdates(a)

\* Everything but the entry in the waiter's list, which comes last.
GastUpdates(a) ==
  << Update(<<"Users", a.gast>>, [akutelleBar |-> a.bar]) >>
  \o ItemsUpdates(a)
  \o << Update(BestellungRef(a) \o <<"Information">>, Information(a)),
        Update(GastRef(a), [BestellungsID |-> a.id, abgeschlossen |-> FALSE]),
        Update(GastRef(a), Information(a)),
        Update(<<"Users", a.gast>>, [aktuelleBar |-> a.bar]) >>

KellnerUpdate(a) ==
  Update(KellnerRef(a), [Status |-> "versendet", fromUserID |-> a.gast])

\* A faulty variant: the waiter is told first.
UpdatesKellnerZuerst(a) == <<KellnerUpdate(a)>> \o GastUpdates(a)

Updates(a) == Append(GastUpdates(a), KellnerUpdate(a))

-----------------------------------------------------------------------------
\* A faulty variant: the key is taken from the orders of this guest.
handleBestellungEigeneID(g, bar, d) ==
  LET id == Cardinality({a \in ToSet(auftraege) : a.gast = g}) + 1
      a  == [id |-> id, gast |-> g, bar |-> bar, dictionary |-> d] IN
  /\ Len(auftraege) < MaxAuftraege
  /\ schlange' = [schlange EXCEPT ![g] = @ \o Updates(a)]
  /\ auftraege' = Append(auftraege, a)
  /\ UNCHANGED <<datenbank, neustarts>>

\* childByAutoId makes a key that nobody else has.
handleBestellung(g, bar, d) ==
  LET id == Len(auftraege) + 1
      a  == [id |-> id, gast |-> g, bar |-> bar, dictionary |-> d] IN
  /\ id <= MaxAuftraege
  /\ schlange' = [schlange EXCEPT ![g] = @ \o Updates(a)]
  /\ auftraege' = Append(auftraege, a)
  /\ UNCHANGED <<datenbank, neustarts>>

\* The database db after the updates of the sequence s: a field has its last value,
\* other fields and other nodes stay.
Ueberlagert(db, s) ==
  LET neu == {s[i].knoten : i \in DOMAIN s}
      an(k) == {i \in DOMAIN s : s[i].knoten = k}
      mit(k, f) == {i \in an(k) : f \in DOMAIN s[i].werte}
      alt(k) == IF k \in DOMAIN db THEN DOMAIN db[k] ELSE {} IN
  [k \in DOMAIN db \cup neu |->
    IF k \notin neu THEN db[k]
    ELSE [f \in alt(k) \cup UNION {DOMAIN s[i].werte : i \in an(k)} |->
           IF mit(k, f) = {} THEN db[k][f] ELSE s[Max(mit(k, f))].werte[f]]]

\* The first n updates of a phone reach the server.
Eingetroffen(g, n) == datenbank' = Ueberlagert(datenbank, SubSeq(schlange[g], 1, n))

\* An update reaches the server, and the phone learns of it.
Bestaetigt(g) ==
  /\ schlange[g] # <<>>
  /\ Eingetroffen(g, 1)
  /\ schlange' = [schlange EXCEPT ![g] = Tail(@)]
  /\ UNCHANGED <<auftraege, neustarts>>

\* Updates are on their way before earlier ones are acknowledged: the first n
\* reach the server, but the connection breaks before the phone learns of any,
\* and all of them will be sent again. MaxUnterwegs bounds n.
Unbestaetigt(g) ==
  /\ \E n \in 1..MaxUnterwegs : n <= Len(schlange[g]) /\ Eingetroffen(g, n)
  /\ UNCHANGED <<schlange, auftraege, neustarts>>

\* The app ends (and is started again): the queue is gone.
AppBeenden(g) ==
  /\ neustarts[g] < MaxNeustarts[g]
  /\ neustarts' = [neustarts EXCEPT ![g] = @ + 1]
  /\ schlange' = [schlange EXCEPT ![g] = <<>>]
  /\ UNCHANGED <<datenbank, auftraege>>

Next ==
  \E g \in Gaeste :
    \/ \E bar \in Bars, d \in Auftraege : handleBestellung(g, bar, d)
    \/ Bestaetigt(g)
    \/ Unbestaetigt(g)
    \/ AppBeenden(g)

\* As long as the app runs, Firebase goes on sending.
Fairness == \A g \in Gaeste : WF_vars(Bestaetigt(g))

Spec == Init /\ [][Next]_vars /\ Fairness
-----------------------------------------------------------------------------
(* What can be read from the database.                                     *)

Knoten == DOMAIN datenbank

Geschrieben(knoten, feld) == knoten \in Knoten /\ feld \in DOMAIN datenbank[knoten]

\* A field, or what BestellungInfos takes for a missing one.
Wert(knoten, feld, sonst) ==
  IF Geschrieben(knoten, feld) THEN datenbank[knoten][feld] ELSE sonst

Artikel(knoten, unter) ==
  [Kategorie |-> knoten[4], Unterkategorie |-> knoten[5], item |-> knoten[6],
   Name      |-> Wert(knoten, "Name", ""),
   Menge     |-> Wert(knoten, "Menge", 0),
   Preis     |-> Wert(knoten, "Preis", 0),
   Kommentar |-> Wert(knoten, "Kommentar", "kein Kommentar"),
   Extras    |-> {<<Wert(e, "Name", ""), Wert(e, "Preis", 0)>> :
                    e \in {e \in unter : Len(e) = 8 /\ SubSeq(e, 1, 6) = knoten}}]

\* The items that Bestellungen/<bar>/<id> lists.
Gelesen(a) ==
  LET unter == {n \in Knoten : Len(n) > 4 /\ SubSeq(n, 1, 3) = BestellungRef(a)} IN
  {Artikel(n, unter) : n \in {n \in unter : Len(n) = 6}}

\* The items of the order that was sent.
Bestellt(a) ==
  UNION {UNION {
    {[Kategorie |-> s.Kategorie, Unterkategorie |-> s.Unterkategorie[u], item |-> <<u, i>>,
      Name      |-> s.felder["ItemsNamen"][u][i],
      Menge     |-> s.felder["ItemsMengen"][u][i],
      Preis     |-> s.felder["ItemsPreise"][u][i],
      Kommentar |-> s.felder["ItemsKommentar"][u][i],
      Extras    |-> {<<s.felder["ExtrasName"][u][i][n], s.felder["ExtrasPreise"][u][i][n]>> :
                       n \in DOMAIN s.felder["ExtrasName"][u][i]}] :
       i \in DOMAIN s.felder["ItemsNamen"][u]} :
         u \in DOMAIN s.Unterkategorie} : s \in ToSet(a.dictionary)}

BeimKellner(a) == Geschrieben(KellnerRef(a), "Status")
BeimGast(a)    == Geschrieben(GastRef(a), "Status")

-----------------------------------------------------------------------------
(* Properties.                                                             *)

\* The database has users, lists of orders, orders, items and extras, each at its
\* depth in the tree; the orders are numbered.
TypeOK ==
  /\ \A k \in Knoten :
       \/ k[1] = "Users" /\ Len(k) = 2
       \/ k[1] = "userBestellungen" /\ Len(k) = 3
       \/ /\ k[1] = "Bestellungen"
          /\ \/ Len(k) = 4 /\ k[4] = "Information"
             \/ Len(k) = 6
             \/ Len(k) = 8 /\ k[7] = "Extras"
  /\ \A n \in DOMAIN auftraege :
       auftraege[n] \in [id : {n}, gast : Gaeste, bar : Bars, dictionary : Auftraege]
  /\ \A g \in Gaeste : neustarts[g] \in 0..MaxNeustarts[g]

\* What a waiter's list names can be served: every item is there, under its
\* Kategorie and Unterkategorie, with quantity, comment and all its extras and
\* their prices, and the guest and bar are known; in between, updates were
\* sent twice, others' orders came, and the app may have ended.
BeimKellnerVollstaendig ==
  \A n \in DOMAIN auftraege : LET a == auftraege[n] IN
    BeimKellner(a) =>
      /\ Gelesen(a) = Bestellt(a)
      /\ Wert(BestellungRef(a) \o <<"Information">>, "fromUserID", "") = a.gast

\* A guest never misses an order that the waiter has: it is in the guest's own
\* list, with its bar, and the guest's current bar was written.
KellnerNachGast ==
  \A n \in DOMAIN auftraege : LET a == auftraege[n] IN
    BeimKellner(a) =>
      /\ BeimGast(a)
      /\ Wert(GastRef(a), "Barname", "") = a.bar
      /\ Geschrieben(<<"Users", a.gast>>, "aktuelleBar")

\* An order reaches the waiter if the guest's app does not end.
AuftragKommtAn ==
  \A id \in 1..MaxAuftraege :
    (id \in DOMAIN auftraege) ~>
      \E a \in ToSet(auftraege) :
        a.id = id /\ (BeimKellner(a) \/ neustarts[a.gast] > 0)
-----------------------------------------------------------------------------
Eingang == INSTANCE Bestelleingang WITH
  Inhalte  <- {Bestellt([dictionary |-> d]) : d \in Auftraege},
  gesendet <- [n \in DOMAIN auftraege |-> Bestellt(auftraege[n])],
  eingang  <- [n \in {n \in DOMAIN auftraege : BeimKellner(auftraege[n])} |->
                 Gelesen(auftraege[n])]

\* Although an order is written in dozens of updates of four places, to whoever
\* goes by the waiter's list it appears in one step, whole, and stays as it is:
\* handleBestellung implements Bestelleingang.
ImplementiertBestelleingang == Eingang!Spec
=============================================================================
