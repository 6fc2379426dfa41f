--------------------------- MODULE SpeisekarteLaden ---------------------------
(***************************************************************************)
(* Loading a bar's menu: getKategorien and getUnterKategorienItems of      *)
(* BestellungVC2 (and, without the extras, of SpeisekarteVC). One read     *)
(* finds the Kategorien; one more read per Kategorie, answered in any      *)
(* order, fills its dictionaries; the menu is shown when as many           *)
(* Kategorien have an Unterkategorie as there are Kategorien.              *)
(*                                                                         *)
(* The bar may change its menu in between.                                 *)
(***************************************************************************)
EXTENDS Bestellfelder

CONSTANTS
  Karten,           \* menus the bar may have
  Waren,            \* entries that are dictionaries; all others are plain values
  MaxAenderungen    \* bound: changes of the menu while it is being loaded

\* A menu lists its Kategorien, a Kategorie its children, of which "Extras" is
\* special, a child its entries. Children of a node have distinct keys.
KartenAssumption ==
  \A k \in Karten :
    /\ k \in Seq(ToSet(k))
    /\ Injektiv([i \in DOMAIN k |-> k[i].key])
    /\ \A i \in DOMAIN k :
         LET kinder == k[i].kinder IN
         /\ kinder \in Seq(ToSet(kinder))
         /\ Injektiv([j \in DOMAIN kinder |-> kinder[j].key])
         /\ \A j \in DOMAIN kinder : kinder[j].eintraege \in Seq(ToSet(kinder[j].eintraege))

ASSUME KartenAssumption
ASSUME MaxAenderungen \in Nat

VARIABLES
  karten,           \* the menus the bar has had so far; the last one is its menu
  Kategorien,       \* BestellungVC2: the Kategorien found by the first read
  gefragt,          \* Kategorien whose read has not reached the server
  antworten,        \* answers on their way: Kategorie |-> its children
  geladen,          \* BestellungVC2: Unterkategorien, Items, Extras by Kategorie
  sections,         \* BestellungVC2: what the table shows
  status            \* "oeffnen" until the first answer, "laedt", or "abgestuerzt"

vars == <<karten, Kategorien, gefragt, antworten, geladen, sections, status>>

\* What the dictionaries hold for a Kategorie they have no key for. Items stands
\* for Items, Preis, Liter, Beschreibung and Verfuegbarkeit, which always change
\* together at the same positions; Extras for Extras and ExtrasPreise; Expanded
\* has one FALSE for every Unterkategorie. trap: unwrapping nil has failed.
Leer == [Unterkategorien |-> <<>>, Items |-> <<>>, Extras |-> <<>>, trap |-> FALSE]

Init ==
  /\ \E k \in Karten : karten = <<k>>
  /\ Kategorien = <<>>
  /\ gefragt = {}
  /\ antworten = <<>>
  /\ geladen = <<>>
  /\ sections = <<>>
  /\ status = "oeffnen"

-----------------------------------------------------------------------------
(* Reading one Kategorie. *)

\* The elements of s at the positions P, in their order.
Auswahl(s, P) ==
  LET bis[n \in 0..Len(s)] ==
        IF n = 0 THEN <<>> ELSE IF n \in P THEN Append(bis[n - 1], s[n]) ELSE bis[n - 1] IN
  bis[Len(s)]

\* The entries that are dictionaries.
Ware(kind) == Auswahl(kind.eintraege, {i \in DOMAIN kind.eintraege : kind.eintraege[i] \in Waren})

\* An entry of the Unterkategorie key, the last one so far. Items of a second
\* Unterkategorie trap if the first had none: Items[Kategorie] is nil.
MitWare(z, key, e) ==
  IF e \notin Waren \/ z.trap THEN z
  ELSE IF z.Items = <<>> /\ Len(z.Unterkategorien) > 1 THEN [z EXCEPT !.trap = TRUE]
  ELSE IF Len(z.Items) < Len(z.Unterkategorien) THEN [z EXCEPT !.Items = Append(@, <<e>>)]
  ELSE [z EXCEPT !.Items[firstIndex(z.Unterkategorien, key)] = Append(@, e)]

\* An Unterkategorie and its entries, one after the other.
MitUnterkategorie(z, kind) ==
  LET y == [z EXCEPT !.Unterkategorien = Append(@, kind.key)]
      nach[n \in 0..Len(kind.eintraege)] ==
        IF n = 0 THEN y ELSE MitWare(nach[n - 1], kind.key, kind.eintraege[n]) IN
  nach[Len(kind.eintraege)]

\* A faulty variant: a Kategorie has the extras listed last.
NurLetztesExtra(z, kind) ==
  IF Ware(kind) = <<>> THEN z ELSE [z EXCEPT !.Extras = <<Last(Ware(kind))>>]

MitExtras(z, kind) == [z EXCEPT !.Extras = @ \o Ware(kind)]

MitKind(z, kind) ==
  IF z.trap THEN z
  ELSE IF kind.key = "Extras" THEN MitExtras(z, kind) ELSE MitUnterkategorie(z, kind)

MitKindern(z, kinder) ==
  LET nach[n \in 0..Len(kinder)] == IF n = 0 THEN z ELSE MitKind(nach[n - 1], kinder[n]) IN
  nach[Len(kinder)]

\* A faulty variant: the wrong dictionary is counted.
BarriereExtras(g) == Cardinality({kat \in DOMAIN g : g[kat].Extras # <<>>}) = Len(Kategorien)

\* A faulty variant: the first answer opens the barrier.
BarriereOffen(g) == \E kat \in DOMAIN g : g[kat].Unterkategorien # <<>>

\* Unterkategorien.count == Kategorien.count
Barriere(g) ==
  Cardinality({kat \in DOMAIN g : g[kat].Unterkategorien # <<>>}) = Len(Kategorien)

\* A faulty variant: sections in the order of the dictionary's keys.
SectionenDerSchluessel(g) ==
  LET s == SetToSeq(DOMAIN g) IN
  [k \in DOMAIN s |-> [Kategorie |-> s[k], Unterkategorie |-> g[s[k]].Unterkategorien,
                       items |-> g[s[k]].Items]]

\* setSectionsSpeisekarte for every Kategorie.
Sectionen(g) ==
  [k \in DOMAIN Kategorien |->
     [Kategorie      |-> Kategorien[k],
      Unterkategorie |-> g[Kategorien[k]].Unterkategorien,
      items          |-> g[Kategorien[k]].Items]]

-----------------------------------------------------------------------------
Karte == Last(karten)

Schluessel(k) == [i \in DOMAIN k |-> k[i].key]

\* The children of a Kategorie; of one that is not there (any more), none.
Kinder(k, kat) ==
  IF kat \in ToSet(Schluessel(k)) THEN k[firstIndex(Schluessel(k), kat)].kinder ELSE <<>>

\* A faulty variant: no barrier, a section for each answer.
OhneBarriere(kat) ==
  LET neu == [geladen EXCEPT ![kat] = MitKindern(@, antworten[kat])] IN
  /\ status = "laedt"
  /\ kat \in DOMAIN antworten
  /\ antworten' = [k \in DOMAIN antworten \ {kat} |-> antworten[k]]
  /\ geladen' = neu
  /\ sections' = Append(sections, [Kategorie |-> kat, items |-> neu[kat].Items,
                                  Unterkategorie |-> neu[kat].Unterkategorien])
  /\ UNCHANGED <<karten, Kategorien, gefragt, status>>

\* The answer to the first read: ask for every Kategorie.
getKategorien ==
  /\ status = "oeffnen"
  /\ status' = "laedt"
  /\ Kategorien' = Schluessel(Karte)
  /\ gefragt' = ToSet(Schluessel(Karte))
  /\ geladen' = [kat \in gefragt' |-> Leer]
  /\ UNCHANGED <<karten, antworten, sections>>

MitAntwort(kat) ==
  [k \in DOMAIN antworten \cup {kat} |-> IF k = kat THEN Kinder(Karte, kat) ELSE antworten[k]]

\* A faulty variant: the read stays registered after its answer.
AntwortenUndBleiben(kat) ==
  /\ kat \in gefragt
  /\ antworten' = MitAntwort(kat)
  /\ UNCHANGED <<karten, Kategorien, gefragt, geladen, sections, status>>

\* The server answers the read of a Kategorie with what is there now.
Antworten(kat) ==
  /\ kat \in gefragt
  /\ gefragt' = gefragt \ {kat}
  /\ antworten' = MitAntwort(kat)
  /\ UNCHANGED <<karten, Kategorien, geladen, sections, status>>

\* Its answer arrives. The barrier traps if some Kategorie has no Items.
getUnterKategorienItems(kat) ==
  LET neu == [geladen EXCEPT ![kat] = MitKindern(@, antworten[kat])] IN
  /\ status = "laedt"
  /\ kat \in DOMAIN antworten
  /\ antworten' = [k \in DOMAIN antworten \ {kat} |-> antworten[k]]
  /\ geladen' = neu
  /\ IF \/ neu[kat].trap
        \/ Barriere(neu) /\ \E k \in ToSet(Kategorien) : neu[k].Items = <<>>
       THEN status' = "abgestuerzt" /\ UNCHANGED sections
       ELSE /\ sections' = IF Barriere(neu) THEN sections \o Sectionen(neu) ELSE sections
            /\ UNCHANGED status
  /\ UNCHANGED <<karten, Kategorien, gefragt>>

\* The bar changes its menu.
KarteAendern ==
  /\ Len(karten) <= MaxAenderungen
  /\ \E k \in Karten \ {Karte} : karten' = Append(karten, k)
  /\ UNCHANGED <<Kategorien, gefragt, antworten, geladen, sections, status>>

Next ==
  \/ getKategorien
  \/ \E kat \in ToSet(Kategorien) : Antworten(kat) \/ getUnterKategorienItems(kat)
  \/ KarteAendern

\* Reads that were asked for are answered as long as the phone is online, and the
\* main queue runs the handlers of the answers.
Laden ==
  \/ getKategorien
  \/ \E kat \in ToSet(Kategorien) : Antworten(kat) \/ getUnterKategorienItems(kat)

Spec == Init /\ [][Next]_vars /\ WF_vars(Laden)

-----------------------------------------------------------------------------
(* What the menu in the database says. *)

Unterkategorien(kinder) == Auswahl(kinder, {j \in DOMAIN kinder : kinder[j].key # "Extras"})

\* A Kategorie as the code expects it: it has Unterkategorien, and each has items.
Lesbar(kinder) ==
  LET unterkategorien == {kind \in ToSet(kinder) : kind.key # "Extras"} IN
  /\ unterkategorien # {}
  /\ \A kind \in unterkategorien : \E e \in ToSet(kind.eintraege) : e \in Waren

Rubrik(kat, kinder) ==
  [Kategorie      |-> kat,
   Unterkategorie |-> [j \in DOMAIN Unterkategorien(kinder) |-> Unterkategorien(kinder)[j].key],
   items          |-> [j \in DOMAIN Unterkategorien(kinder) |-> Ware(Unterkategorien(kinder)[j])]]

Extras(kinder) ==
  IF "Extras" \in ToSet(Schluessel(kinder))
    THEN Ware(kinder[firstIndex(Schluessel(kinder), "Extras")])
    ELSE <<>>

Stets(kat) == \A k \in ToSet(karten) : Lesbar(Kinder(k, kat))

-----------------------------------------------------------------------------
(* Properties. *)

\* Reads, answers and dictionaries belong to Kategorien that were found.
TypeOK ==
  /\ \A k \in ToSet(karten) : k \in Karten
  /\ gefragt \cup DOMAIN antworten \subseteq ToSet(Kategorien)
  /\ gefragt \cap DOMAIN antworten = {}
  /\ DOMAIN geladen = ToSet(Kategorien)
  /\ status \in {"oeffnen", "laedt", "abgestuerzt"}

\* Whatever the order of the answers, the menu appears as a whole: when anything
\* is shown, all Kategorien are, once and in the order of the first read, each
\* with its Unterkategorien and their items as they were at one moment; a change
\* of the menu or a malformed other Kategorie does not mix them up.
KarteGanz ==
  sections # <<>> =>
    /\ [k \in DOMAIN sections |-> sections[k].Kategorie] = Kategorien
    /\ \A s \in ToSet(sections) :
         Stets(s.Kategorie) =>
           \E k \in ToSet(karten) : s = Rubrik(s.Kategorie, Kinder(k, s.Kategorie))

\* The popup can offer the extras of every Kategorie that is shown, each with its
\* price: none is still on its way.
ExtrasDabei ==
  sections # <<>> =>
    \A kat \in ToSet(Kategorien) :
      \E k \in ToSet(karten) : geladen[kat].Extras = Extras(Kinder(k, kat))

\* The forced unwraps (350, 429) cannot fail while every Kategorie of every menu
\* has items in every Unterkategorie, even if Kategorien disappear.
KeinAbsturz ==
  status = "abgestuerzt" =>
    \E k \in ToSet(karten) : \E kat \in ToSet(Schluessel(k)) : ~Lesbar(Kinder(k, kat))

\* The menu is built once: a guest's indices into it (pass) stay valid.
EinmalGebaut == [][sections # <<>> => sections' = sections]_vars

\* The menu appears if the bar keeps all its Kategorien well-formed meanwhile.
KarteErscheint ==
  [](\A kat \in ToSet(Kategorien) : Stets(kat))
    => <>(status = "laedt" /\ (Kategorien = <<>> \/ sections # <<>>))
=============================================================================
