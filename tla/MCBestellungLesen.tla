--------------------------- MODULE MCBestellungLesen ---------------------------
(***************************************************************************)
(* One list reads two orders, one after the other, of every small shape.   *)
(***************************************************************************)
EXTENDS BestellungLesen

CONSTANTS
  MaxBreite    \* bound: Kategorien, Unterkategorien, lines and extras each

VARIABLES
  gelesen,     \* the orders that were read
  fund         \* what came of the last one

ASSUME MaxBreiteAnnahme == MaxBreite \in Nat \ {0}

Breiten == 1..MaxBreite

\* Every shape: f[k][u][i] is the number of extras of line i.
Formen ==
  LET folgen(S) == UNION {[1..n -> S] : n \in Breiten} IN folgen(folgen(folgen(Breiten)))

\* Keys, items, names and prices tell where they belong.
Extra(k, u, i, n) == [Name |-> <<k, u, i, n, "Name">>, Preis |-> <<k, u, i, n, "Preis">>]

Zeile(k, u, i, extras) ==
  [item |-> <<k, u, i>>, extras |-> [n \in 1..extras |-> Extra(k, u, i, n)]]

Bestellung(f) ==
  [k \in DOMAIN f |->
    [key |-> k,
     kinder |-> [u \in DOMAIN f[k] |->
       [key |-> u, zeilen |-> [i \in DOMAIN f[k][u] |-> Zeile(k, u, i, f[k][u][i])]]]]]

Init == gelesen = <<>> /\ fund = LeererFund(KeinRest)

\* The next order is read; extrasString and extrasPreis are what is left of the last.
Lesen(s) ==
  /\ ~fund.trap
  /\ gelesen' = Append(gelesen, s)
  /\ fund' = Fund(s, [extrasString |-> fund.extrasString, extrasPreis |-> fund.extrasPreis])

Erste == gelesen = <<>> /\ \E f \in Formen : Lesen(Bestellung(f))

\* The second order is of one line, of two lines with two extras, or in two by two.
Zweite ==
  /\ Len(gelesen) = 1
  /\ \E f \in { <<<<<<1>>>>>>, <<<<<<2, 2>>>>>>, <<<<<<1>>, <<2>>>>, <<<<2>>, <<1>>>>>> } :
       Lesen(Bestellung(f))

Next == Erste \/ Zweite

LesenSpec == Init /\ [][Next]_<<gelesen, fund>>

Snapshot == IF gelesen = <<>> THEN <<>> ELSE Last(gelesen)
NurGute == \A s \in ToSet(gelesen) : NurHintenEines(s)

-----------------------------------------------------------------------------
(* Properties. *)

\* The lines of an order are read as they are, whatever its shape and whatever
\* was left of another order, unless a subscript is out of range.
ItemsRichtig == ~fund.trap => fund.Items = SollItems(Snapshot)

\* Extras are read to their lines, by name, and nothing remains of them, if lines
\* in later Unterkategorien of later Kategorien have one extra each.
NamenRichtig ==
  NurGute =>
    /\ ~fund.trap
    /\ fund.ExtrasNamen = SollExtras(Snapshot, "Name")
    /\ fund.extrasString = <<>> /\ fund.extrasPreis = <<>>

\* Then prices, too, are read to their lines, except that in the first
\* Unterkategorie of an order they may be at another line.
PreiseErhalten ==
  NurGute =>
    LET soll == SollExtras(Snapshot, "Preis") IN
    /\ DOMAIN fund.ExtrasPreise = DOMAIN soll
    /\ \A k \in DOMAIN soll : DOMAIN fund.ExtrasPreise[k] = DOMAIN soll[k]
    /\ \A k \in DOMAIN soll : \A u \in DOMAIN soll[k] :
         IF k = 1 /\ u = 1 THEN ToSet(fund.ExtrasPreise[k][u]) = ToSet(soll[k][u])
                          ELSE fund.ExtrasPreise[k][u] = soll[k][u]

\* Whatever is in a line: a cell finds the extras of its row.
ExtrasZuJederZeile ==
  /\ ~fund.trap
  /\ \A k \in DOMAIN fund.Items : \A u \in DOMAIN fund.Items[k] :
       /\ Vorhanden(fund.ExtrasNamen, k) /\ Vorhanden(fund.ExtrasNamen[k], u)
       /\ Len(fund.ExtrasNamen[k][u]) = Len(fund.Items[k][u])

\* Each extra is listed with its own price.
PreiseRichtig == fund.ExtrasPreise = SollExtras(Snapshot, "Preis")
================================================================================
