---------------------------- MODULE Bestellfelder ----------------------------
(***************************************************************************)
(* The parallel arrays in which the app keeps an order, as pure operators. *)
(*                                                                         *)
(* BestellungVC2 and BestellungÜbersichtVC each hold ten arrays that must  *)
(* stay index-aligned: one list of Kategorien, two lists per Kategorie     *)
(* (Unterkategorien and Expanded2) and seven lists per Unterkategorie.     *)
(* The seven are treated alike by the code, so they are one function from  *)
(* their names to three-level sequences; the model's indices are 1-based.  *)
(***************************************************************************)
EXTENDS Integers, SequencesExt

\* The names of the seven three-level arrays.
Felder == {"ItemsNamen", "ItemsPreise", "ItemsLiter", "ItemsKommentar",
           "ItemsMengen", "ExtrasName", "ExtrasPreise"}

OhneKommentar == Felder \ {"ItemsKommentar"}

\* The arrays of a view controller that was just created.
LeereBestellung ==
  [Kategorien |-> <<>>, Unterkategorien |-> <<>>, Expanded2 |-> <<>>,
   felder |-> [f \in Felder |-> <<>>]]

\* Swift's firstIndex(of:), for an element that occurs in the sequence.
firstIndex(s, x) ==
  CHOOSE n \in DOMAIN s : s[n] = x /\ \A m \in DOMAIN s : s[m] = x => n <= m

-----------------------------------------------------------------------------
(* Adding one line w (a value for each of the seven arrays). *)

\* "kategorie gibt es nicht": every array gets a new Kategorie of one line.
NeueKategorie(b, kat, ukat, w) ==
  [Kategorien      |-> Append(b.Kategorien, kat),
   Unterkategorien |-> Append(b.Unterkategorien, <<ukat>>),
   Expanded2       |-> Append(b.Expanded2, <<TRUE>>),
   felder          |-> [f \in Felder |-> Append(b.felder[f], <<<<w[f]>>>>)]]

\* "unterkategorie gibt es nicht": the k-th Kategorie gets a new Unterkategorie.
NeueUnterkategorie(b, k, ukat, w) ==
  [Kategorien      |-> b.Kategorien,
   Unterkategorien |-> [b.Unterkategorien EXCEPT ![k] = Append(@, ukat)],
   Expanded2       |-> [b.Expanded2 EXCEPT ![k] = Append(@, TRUE)],
   felder          |-> [f \in Felder |->
                          [b.felder[f] EXCEPT ![k] = Append(@, <<w[f]>>)]]]

\* Both exist: the line is appended, also when the item is already there.
NeueZeile(b, k, u, w) ==
  [b EXCEPT !.felder = [f \in Felder |->
                          [b.felder[f] EXCEPT ![k][u] = Append(@, w[f])]]]

\* A faulty variant: the Unterkategorie is not looked up.
MitZeileOhneSuche(b, kat, ukat, w) ==
  IF ~Contains(b.Kategorien, kat) THEN NeueKategorie(b, kat, ukat, w)
  ELSE NeueUnterkategorie(b, firstIndex(b.Kategorien, kat), ukat, w)

MitZeile(b, kat, ukat, w) ==
  IF ~Contains(b.Kategorien, kat) THEN NeueKategorie(b, kat, ukat, w)
  ELSE LET k == firstIndex(b.Kategorien, kat) IN
       IF ~Contains(b.Unterkategorien[k], ukat)
       THEN NeueUnterkategorie(b, k, ukat, w)
       ELSE NeueZeile(b, k, firstIndex(b.Unterkategorien[k], ukat), w)

-----------------------------------------------------------------------------
(* bestellteItemsDictionary: one section per Kategorie. *)

Section(b, k) ==
  [Kategorie    |-> b.Kategorien[k],
   Unterkategorie |-> b.Unterkategorien[k],
   expanded2    |-> b.Expanded2[k],
   felder       |-> [f \in Felder |-> b.felder[f][k]]]

\* The loop of bestellungPrüfen looks each Kategorie up by its name.
Sections(b) ==
  [n \in 1..Len(b.Kategorien) |->
     Section(b, firstIndex(b.Kategorien, b.Kategorien[n]))]

-----------------------------------------------------------------------------
(* Removing one line: it, then its Unterkategorie if that got empty, then  *)
(* its Kategorie if that got empty.                                        *)

ZeilenOhne(s, u, r) ==
  [f \in Felder |-> [s.felder[f] EXCEPT ![u] = RemoveAt(@, r)]]

SectionOhneUnterkategorie(s, u) ==
  [Kategorie      |-> s.Kategorie,
   Unterkategorie |-> RemoveAt(s.Unterkategorie, u),
   expanded2      |-> RemoveAt(s.expanded2, u),
   felder         |-> [f \in Felder |-> RemoveAt(s.felder[f], u)]]

\* A faulty variant: Expanded2 is forgotten.
OhneUnterkategorieExpanded(b, k, u) ==
  [b EXCEPT !.Unterkategorien[k] = RemoveAt(@, u),
            !.felder = [f \in Felder |-> [b.felder[f] EXCEPT ![k] = RemoveAt(@, u)]]]

OhneUnterkategorie(b, k, u) ==
  [Kategorien      |-> b.Kategorien,
   Unterkategorien |-> [b.Unterkategorien EXCEPT ![k] = RemoveAt(@, u)],
   Expanded2       |-> [b.Expanded2 EXCEPT ![k] = RemoveAt(@, u)],
   felder          |-> [f \in Felder |->
                          [b.felder[f] EXCEPT ![k] = RemoveAt(@, u)]]]

OhneKategorie(b, k) ==
  [Kategorien      |-> RemoveAt(b.Kategorien, k),
   Unterkategorien |-> RemoveAt(b.Unterkategorien, k),
   Expanded2       |-> RemoveAt(b.Expanded2, k),
   felder          |-> [f \in Felder |-> RemoveAt(b.felder[f], k)]]

-----------------------------------------------------------------------------
(* The shape of these values: names from the sets K and U, and values of   *)
(* the array f from W[f].                                                  *)

IstBestellung(b, K, U, W) ==
  /\ b = [Kategorien |-> b.Kategorien, Unterkategorien |-> b.Unterkategorien,
          Expanded2 |-> b.Expanded2, felder |-> b.felder]
  /\ b.Kategorien \in Seq(K)
  /\ b.Unterkategorien \in Seq(Seq(U))
  /\ b.Expanded2 \in Seq(Seq(BOOLEAN))
  /\ b.felder = [f \in Felder |-> b.felder[f]]
  /\ \A f \in Felder : b.felder[f] \in Seq(Seq(Seq(W[f])))

IstSection(s, K, U, W) ==
  /\ s = [Kategorie |-> s.Kategorie, Unterkategorie |-> s.Unterkategorie,
          expanded2 |-> s.expanded2, felder |-> s.felder]
  /\ s.Kategorie \in K
  /\ s.Unterkategorie \in Seq(U)
  /\ s.expanded2 \in Seq(BOOLEAN)
  /\ s.felder = [f \in Felder |-> s.felder[f]]
  /\ \A f \in Felder : s.felder[f] \in Seq(Seq(W[f]))

IstDictionary(d, K, U, W) ==
  d \in Seq(ToSet(d)) /\ \A k \in 1..Len(d) : IstSection(d[k], K, U, W)

-----------------------------------------------------------------------------
(* What it means for the arrays to fit together. *)

\* Equally long, and so are the elements at each index.
GleichLang(a, c) ==
  Len(a) = Len(c) /\ \A k \in 1..Len(c) : Len(a[k]) = Len(c[k])

\* Every array has an entry for every Kategorie, Unterkategorie and line.
Ausgerichtet(b) ==
  /\ Len(b.Unterkategorien) = Len(b.Kategorien)
  /\ GleichLang(b.Expanded2, b.Unterkategorien)
  /\ \A f \in Felder :
       /\ GleichLang(b.felder[f], b.Unterkategorien)
       /\ \A k \in 1..Len(b.Unterkategorien) :
            GleichLang(b.felder[f][k], b.felder["ItemsNamen"][k])

\* No Kategorie without Unterkategorien, no Unterkategorie without lines.
OhneLeere(b) ==
  \A k \in DOMAIN b.Kategorien :
    /\ b.Unterkategorien[k] # <<>>
    /\ \A u \in DOMAIN b.Unterkategorien[k] :
         b.felder["ItemsNamen"][k][u] # <<>>

Injektiv(s) == \A m, n \in DOMAIN s : s[m] = s[n] => m = n

\* No Kategorie twice and, within a Kategorie, no Unterkategorie twice: the
\* code finds both by firstIndex(of: name).
Eindeutig(b) ==
  /\ Injektiv(b.Kategorien)
  /\ \A k \in DOMAIN b.Kategorien : Injektiv(b.Unterkategorien[k])

\* The extras of a line: at least one ("keine Extras"), none twice, each with its price.
ExtrasVersendbar(namen, preise) ==
  namen \in Seq(ToSet(namen)) /\ namen # <<>> /\ Injektiv(namen) /\ Len(preise) = Len(namen)

\* A section that fits together: no Unterkategorie twice, and none without lines.
SectionVersendbar(s) ==
  /\ s.Unterkategorie \in Seq(ToSet(s.Unterkategorie)) /\ Injektiv(s.Unterkategorie)
  /\ s.Unterkategorie # <<>> /\ \A u \in DOMAIN s.Unterkategorie : s.felder["ItemsNamen"][u] # <<>>
  /\ s.felder["ItemsNamen"] \in Seq(Seq(UNION {ToSet(z) : z \in ToSet(s.felder["ItemsNamen"])}))
  /\ Len(s.felder["ItemsNamen"]) = Len(s.Unterkategorie)
  /\ \A f \in Felder : GleichLang(s.felder[f], s.felder["ItemsNamen"])
  /\ \A u \in DOMAIN s.felder["ItemsNamen"] : \A r \in DOMAIN s.felder["ItemsNamen"][u] :
       ExtrasVersendbar(s.felder["ExtrasName"][u][r], s.felder["ExtrasPreise"][u][r])

\* A dictionary that can be sent: its sections fit together, and no Kategorie is
\* listed twice.
Versendbar(d) ==
  /\ d \in Seq(ToSet(d))
  /\ Injektiv([k \in DOMAIN d |-> d[k].Kategorie])
  /\ \A k \in DOMAIN d : SectionVersendbar(d[k])

\* The positions <<k, u, r>> of the lines.
Positionen(b) ==
  UNION {UNION {{<<k, u, r>> : r \in DOMAIN b.felder["ItemsNamen"][k][u]} :
                   u \in DOMAIN b.Unterkategorien[k]} : k \in DOMAIN b.Kategorien}
=============================================================================
