------------------------ MODULE MeineBestellungen_proofs ------------------------
(***************************************************************************)
(* For all orders, guests and bars, and however often updates are sent     *)
(* again: an order that is in the waiter's list can be read from the       *)
(* database as it was sent, which implements Bestelleingang. And whichever *)
(* phone the guest's list is on, and however often it is offline: what the *)
(* list shows, and that it does not crash.                                 *)
(***************************************************************************)
EXTENDS MeineBestellungen, Bestellfelder_proofs, FiniteSetTheorems

-----------------------------------------------------------------------------
(* Sequences.                                                              *)

LEMMA MengeVerkettet ==
  ASSUME NEW S, NEW s \in Seq(S), NEW t \in Seq(S)
  PROVE  /\ s \o t \in Seq(S)
         /\ ToSet(s \o t) = ToSet(s) \cup ToSet(t)
<1>1. /\ s \o t \in Seq(S) /\ Len(s \o t) = Len(s) + Len(t)
      /\ \A i \in 1..Len(s) + Len(t) : (s \o t)[i] = IF i <= Len(s) THEN s[i] ELSE t[i - Len(s)]
  BY ConcatProperties
<1>2. ASSUME NEW x \in ToSet(s \o t) PROVE x \in ToSet(s) \cup ToSet(t)
  <2>1. PICK i \in 1..Len(s) + Len(t) : x = (s \o t)[i]
    BY <1>1 DEF ToSet
  <2>2. CASE i <= Len(s)
    BY <1>1, <2>1, <2>2 DEF ToSet
  <2>3. CASE ~(i <= Len(s))
    <3>1. i - Len(s) \in 1..Len(t) /\ x = t[i - Len(s)]
      BY <1>1, <2>1, <2>3
    <3> QED BY <3>1 DEF ToSet
  <2> QED BY <2>2, <2>3
<1>3. ASSUME NEW x \in ToSet(s) PROVE x \in ToSet(s \o t)
  <2>1. PICK i \in 1..Len(s) : x = s[i]
    BY DEF ToSet
  <2>2. i \in 1..Len(s) + Len(t) /\ (s \o t)[i] = x
    BY <1>1, <2>1
  <2> QED BY <1>1, <2>2 DEF ToSet
<1>4. ASSUME NEW x \in ToSet(t) PROVE x \in ToSet(s \o t)
  <2>1. PICK i \in 1..Len(t) : x = t[i]
    BY DEF ToSet
  <2>2. /\ Len(s) + i \in 1..Len(s) + Len(t) /\ ~(Len(s) + i <= Len(s))
        /\ (Len(s) + i) - Len(s) = i
    OBVIOUS
  <2>3. (s \o t)[Len(s) + i] = x
    BY <1>1, <2>1, <2>2
  <2> QED BY <1>1, <2>2, <2>3 DEF ToSet
<1> QED BY <1>1, <1>2, <1>3, <1>4

\* FlattenSeq yields what the sequences contain.
LEMMA Flatten ==
  ASSUME NEW S, NEW s \in Seq(Seq(S))
  PROVE  /\ FlattenSeq(s) \in Seq(S)
         /\ ToSet(FlattenSeq(s)) = UNION {ToSet(s[i]) : i \in 1..Len(s)}
<1>1. CASE Len(s) = 0
  <2>1. s = <<>> /\ FlattenSeq(s) = s
    BY <1>1 DEF FlattenSeq
  <2>2. <<>> \in Seq(S) /\ ToSet(<<>>) = {} /\ 1..0 = {}
    BY DEF ToSet
  <2>3. UNION {ToSet(s[i]) : i \in 1..Len(s)} = {}
    BY <1>1, <2>2
  <2> QED BY <2>1, <2>2, <2>3
<1>2. CASE Len(s) # 0
  <2> DEFINE f == CHOOSE f : f = [i \in 1..Len(s) |-> IF i = 1 THEN s[i] ELSE f[i - 1] \o s[i]]
  <2>1. FlattenSeq(s) = f[Len(s)]
    BY <1>2 DEF FlattenSeq
  <2>2. Verkettung(f, s, Len(s))
    <3>1. Len(s) \in Nat \ {0}
      BY <1>2
    <3>2. PICK h : Verkettung(h, s, Len(s))
      BY <3>1, FlattenFunktion
    <3>3. h = [i \in 1..Len(s) |-> IF i = 1 THEN s[i] ELSE h[i - 1] \o s[i]]
      BY <3>2 DEF Verkettung
    <3> QED BY <3>3, Zenon DEF Verkettung
  <2> HIDE DEF f
  <2> DEFINE T == {n \in 1..Len(s) :
                     /\ f[n] \in Seq(S)
                     /\ ToSet(f[n]) = UNION {ToSet(s[i]) : i \in 1..n}}
  <2>3. 1 \in T
    <3>1. 1 \in 1..Len(s)
      BY <1>2
    <3>2. f[1] = s[1] /\ s[1] \in Seq(S)
      BY <2>2, <3>1 DEF Verkettung
    <3>3. UNION {ToSet(s[i]) : i \in 1..1} = ToSet(s[1])
      <4>1. \A i : i \in 1..1 <=> i = 1
        OBVIOUS
      <4> QED BY <4>1
    <3> QED BY <3>1, <3>2, <3>3
  <2>4. ASSUME NEW n \in T, n < Len(s) PROVE n + 1 \in T
    <3>0. /\ n \in 1..Len(s) /\ f[n] \in Seq(S)
          /\ ToSet(f[n]) = UNION {ToSet(s[i]) : i \in 1..n}
      OBVIOUS
    <3>1. n + 1 \in 1..Len(s) /\ n + 1 # 1 /\ (n + 1) - 1 = n
      BY <2>4, <3>0
    <3>2. f[n + 1] = f[n] \o s[n + 1] /\ s[n + 1] \in Seq(S)
      <4> HIDE DEF T
      <4>1. f[n + 1] = IF n + 1 = 1 THEN s[n + 1] ELSE f[(n + 1) - 1] \o s[n + 1]
        BY <2>2, <3>1 DEF Verkettung
      <4>2. f[n + 1] = f[n] \o s[n + 1]
        BY <3>1, <4>1, Zenon
      <4> QED BY <3>1, <4>2
    <3>3. f[n + 1] \in Seq(S) /\ ToSet(f[n + 1]) = ToSet(f[n]) \cup ToSet(s[n + 1])
      BY <3>0, <3>2, MengeVerkettet
    <3>4. UNION {ToSet(s[i]) : i \in 1..(n + 1)}
            = (UNION {ToSet(s[i]) : i \in 1..n}) \cup ToSet(s[n + 1])
      <4>1. \A i : i \in 1..(n + 1) <=> i \in 1..n \/ i = n + 1
        BY <3>0
      <4> HIDE DEF T
      <4> QED BY <4>1
    <3> QED BY <3>0, <3>1, <3>3, <3>4
  <2>5. T = 1..Len(s)
    <3>1. T \subseteq 1..Len(s) /\ Len(s) \in Nat
      OBVIOUS
    <3> HIDE DEF T
    <3> QED BY <2>3, <2>4, <3>1, BisN
  <2>6. Len(s) \in T
    <3>1. Len(s) \in 1..Len(s)
      BY <1>2
    <3> HIDE DEF T
    <3> QED BY <2>5, <3>1
  <2> QED BY <2>1, <2>6
<1> QED BY <1>1, <1>2

LEMMA FolgeVerkettet ==
  ASSUME NEW s, NEW t, Folge(s), Folge(t)
  PROVE  Folge(s \o t) /\ ToSet(s \o t) = ToSet(s) \cup ToSet(t)
<1> DEFINE S == ToSet(s) \cup ToSet(t)
<1>1. s \in Seq(S) /\ t \in Seq(S)
  BY SeqMonotonic DEF Folge
<1> HIDE DEF S
<1>2. s \o t \in Seq(S) /\ ToSet(s \o t) = ToSet(s) \cup ToSet(t)
  BY <1>1, MengeVerkettet
<1> QED BY <1>2, FolgeIhrerWerte DEF Folge

LEMMA FolgeFlach ==
  ASSUME NEW n \in Nat, NEW s, s = [i \in 1..n |-> s[i]], \A i \in 1..n : Folge(s[i])
  PROVE  Folge(FlattenSeq(s)) /\ ToSet(FlattenSeq(s)) = UNION {ToSet(s[i]) : i \in 1..n}
<1> DEFINE S == UNION {ToSet(s[i]) : i \in 1..n}
<1>1. ASSUME NEW i \in 1..n PROVE s[i] \in Seq(S)
  <2>1. ToSet(s[i]) \subseteq S
    OBVIOUS
  <2> HIDE DEF S
  <2> QED BY <2>1, SeqMonotonic DEF Folge
<1> HIDE DEF S
<1>2. s \in Seq(Seq(S)) /\ Len(s) = n
  BY <1>1
<1>3. FlattenSeq(s) \in Seq(S) /\ ToSet(FlattenSeq(s)) = UNION {ToSet(s[i]) : i \in 1..Len(s)}
  BY <1>2, Flatten
<1> QED BY <1>2, <1>3, FolgeIhrerWerte DEF Folge

LEMMA DreiDrei ==
  ASSUME NEW a, NEW b, NEW c, NEW d, NEW e, NEW f
  PROVE  <<a, b, c>> \o <<d, e, f>> = <<a, b, c, d, e, f>>
<1> DEFINE S == {a, b, c, d, e, f}
           s == <<a, b, c>>
           t == <<d, e, f>>
           r == <<a, b, c, d, e, f>>
<1>1. s \in Seq(S) /\ t \in Seq(S) /\ Len(s) = 3 /\ Len(t) = 3
  OBVIOUS
<1>2. r \in Seq(S) /\ Len(r) = 6
  OBVIOUS
<1>3. r[1] = s[1] /\ r[2] = s[2] /\ r[3] = s[3] /\ r[4] = t[1] /\ r[5] = t[2] /\ r[6] = t[3]
  OBVIOUS
<1> HIDE DEF S, s, t, r
<1>4. /\ s \o t \in Seq(S) /\ Len(s \o t) = Len(s) + Len(t)
      /\ \A i \in 1..Len(s) + Len(t) : (s \o t)[i] = IF i <= Len(s) THEN s[i] ELSE t[i - Len(s)]
  BY <1>1, ConcatProperties
<1>5. Len(s \o t) = 6 /\ \A i \in 1..6 : (s \o t)[i] = IF i <= 3 THEN s[i] ELSE t[i - 3]
  BY <1>1, <1>4
<1>6. ASSUME NEW i \in 1..6 PROVE (s \o t)[i] = r[i]
  <2>1. i = 1 \/ i = 2 \/ i = 3 \/ i = 4 \/ i = 5 \/ i = 6
    OBVIOUS
  <2> QED BY <2>1, <1>3, <1>5
<1>7. s \o t = r
  <2>1. \A i \in 1..Len(s \o t) : (s \o t)[i] = r[i]
    BY <1>5, <1>6
  <2> QED BY <1>2, <1>4, <1>5, <2>1, SeqEqual
<1> QED BY <1>7 DEF s, t, r

LEMMA SechsZwei ==
  ASSUME NEW a, NEW b, NEW c, NEW d, NEW e, NEW f, NEW g, NEW h
  PROVE  <<a, b, c, d, e, f>> \o <<g, h>> = <<a, b, c, d, e, f, g, h>>
<1> DEFINE S == {a, b, c, d, e, f, g, h}
           s == <<a, b, c, d, e, f>>
           t == <<g, h>>
           r == <<a, b, c, d, e, f, g, h>>
<1>1. s \in Seq(S) /\ t \in Seq(S) /\ Len(s) = 6 /\ Len(t) = 2
  OBVIOUS
<1>2. r \in Seq(S) /\ Len(r) = 8
  OBVIOUS
<1>3. /\ r[1] = s[1] /\ r[2] = s[2] /\ r[3] = s[3] /\ r[4] = s[4] /\ r[5] = s[5]
      /\ r[6] = s[6] /\ r[7] = t[1] /\ r[8] = t[2]
  OBVIOUS
<1> HIDE DEF S, s, t, r
<1>4. /\ s \o t \in Seq(S) /\ Len(s \o t) = Len(s) + Len(t)
      /\ \A i \in 1..Len(s) + Len(t) : (s \o t)[i] = IF i <= Len(s) THEN s[i] ELSE t[i - Len(s)]
  BY <1>1, ConcatProperties
<1>5. Len(s \o t) = 8 /\ \A i \in 1..8 : (s \o t)[i] = IF i <= 6 THEN s[i] ELSE t[i - 6]
  BY <1>1, <1>4
<1>6. ASSUME NEW i \in 1..8 PROVE (s \o t)[i] = r[i]
  <2>1. i = 1 \/ i = 2 \/ i = 3 \/ i = 4 \/ i = 5 \/ i = 6 \/ i = 7 \/ i = 8
    OBVIOUS
  <2>2. (s \o t)[i] = IF i <= 6 THEN s[i] ELSE t[i - 6]
    BY <1>5
  <2>3. CASE i = 7
    <3>1. (s \o t)[i] = t[1]
      BY <2>2, <2>3
    <3> QED BY <1>3, <2>3, <3>1
  <2>4. CASE i = 8
    <3>1. (s \o t)[i] = t[2]
      BY <2>2, <2>4
    <3> QED BY <1>3, <2>4, <3>1
  <2>5. CASE i <= 6
    <3>1. (s \o t)[i] = s[i]
      BY <2>2, <2>5
    <3>2. i # 7 /\ i # 8
      BY <2>5
    <3> QED BY <1>3, <2>1, <3>1, <3>2, Zenon
  <2>6. i <= 6 \/ i = 7 \/ i = 8
    OBVIOUS
  <2> QED BY <2>3, <2>4, <2>5, <2>6
<1>7. s \o t = r
  <2>1. \A i \in 1..Len(s \o t) : (s \o t)[i] = r[i]
    BY <1>5, <1>6
  <2> QED BY <1>2, <1>4, <1>5, <2>1, SeqEqual
<1> QED BY <1>7 DEF s, t, r

LEMMA DreiEins ==
  ASSUME NEW a, NEW b, NEW c, NEW d
  PROVE  <<a, b, c>> \o <<d>> = <<a, b, c, d>>
<1> DEFINE S == {a, b, c, d}
           s == <<a, b, c>>
           t == <<d>>
           r == <<a, b, c, d>>
<1>1. s \in Seq(S) /\ t \in Seq(S) /\ Len(s) = 3 /\ Len(t) = 1
  OBVIOUS
<1>2. r \in Seq(S) /\ Len(r) = 4
  OBVIOUS
<1>3. r[1] = s[1] /\ r[2] = s[2] /\ r[3] = s[3] /\ r[4] = t[1]
  OBVIOUS
<1> HIDE DEF S, s, t, r
<1>4. /\ s \o t \in Seq(S) /\ Len(s \o t) = Len(s) + Len(t)
      /\ \A i \in 1..Len(s) + Len(t) : (s \o t)[i] = IF i <= Len(s) THEN s[i] ELSE t[i - Len(s)]
  BY <1>1, ConcatProperties
<1>5. Len(s \o t) = 4 /\ \A i \in 1..4 : (s \o t)[i] = IF i <= 3 THEN s[i] ELSE t[i - 3]
  BY <1>1, <1>4
<1>6. ASSUME NEW i \in 1..4 PROVE (s \o t)[i] = r[i]
  <2>1. i = 1 \/ i = 2 \/ i = 3 \/ i = 4
    OBVIOUS
  <2> QED BY <2>1, <1>3, <1>5
<1>7. s \o t = r
  <2>1. \A i \in 1..Len(s \o t) : (s \o t)[i] = r[i]
    BY <1>5, <1>6
  <2> QED BY <1>2, <1>4, <1>5, <2>1, SeqEqual
<1> QED BY <1>7 DEF s, t, r

-----------------------------------------------------------------------------
(* The updates of an order, as a set.                                      *)

IstAuftrag(a) == a \in [id : Nat, gast : Gaeste, bar : Bars, dictionary : Auftraege]

\* The i-th line of the j-th Unterkategorie of the k-th section, and its values.
Stelle(a, k, j, i) ==
  /\ k \in DOMAIN a.dictionary
  /\ j \in DOMAIN a.dictionary[k].Unterkategorie
  /\ i \in DOMAIN a.dictionary[k].felder["ItemsNamen"][j]

Zelle(a, k, j, i, f) == a.dictionary[k].felder[f][j][i]

\* Its node, and that of its n-th extra.
Item(a, k, j, i) ==
  <<"Bestellungen", a.bar, a.id,
    a.dictionary[k].Kategorie, a.dictionary[k].Unterkategorie[j], <<j, i>>>>

Extra(a, k, j, i, n) ==
  <<"Bestellungen", a.bar, a.id,
    a.dictionary[k].Kategorie, a.dictionary[k].Unterkategorie[j], <<j, i>>, "Extras", n>>

ExtraName(a, k, j, i, n) ==
  Update(Extra(a, k, j, i, n), [Name |-> Zelle(a, k, j, i, "ExtrasName")[n]])

ExtraPreis(a, k, j, i, n) ==
  Update(Extra(a, k, j, i, n), [Preis |-> Zelle(a, k, j, i, "ExtrasPreise")[n]])

Zeile5(a, k, j, i) ==
  << Update(Item(a, k, j, i), [Name      |-> Zelle(a, k, j, i, "ItemsNamen")]),
     Update(Item(a, k, j, i), [Menge     |-> Zelle(a, k, j, i, "ItemsMengen")]),
     Update(Item(a, k, j, i), [Preis     |-> Zelle(a, k, j, i, "ItemsPreise")]),
     Update(Item(a, k, j, i), [Kommentar |-> Zelle(a, k, j, i, "ItemsKommentar")]),
     Update(Item(a, k, j, i), [bestellungItemId |-> <<j, i>>]) >>

ZeileUpdates(a, k, j, i) ==
  ToSet(Zeile5(a, k, j, i))
    \cup UNION {{ExtraName(a, k, j, i, n), ExtraPreis(a, k, j, i, n)} :
                  n \in 1..Len(Zelle(a, k, j, i, "ExtrasName"))}

LEMMA PaarFolge ==
  ASSUME NEW u, NEW v
  PROVE  Folge(<<u, v>>) /\ ToSet(<<u, v>>) = {u, v}
<1> DEFINE s == <<u, v>>
<1>1. s \in Seq({u, v}) /\ Len(s) = 2 /\ s[1] = u /\ s[2] = v /\ 1 \in 1..2 /\ 2 \in 1..2
  OBVIOUS
<1>2. \A i \in 1..2 : i = 1 \/ i = 2
  OBVIOUS
<1> HIDE DEF s
<1>3. DOMAIN s = 1..2
  BY <1>1
<1>4. ToSet(s) = {u, v}
  BY <1>1, <1>2, <1>3 DEF ToSet
<1>5. Folge(s)
  BY <1>1, FolgeIhrerWerte DEF Folge
<1> QED BY <1>4, <1>5 DEF s

LEMMA ItemKnoten ==
  ASSUME NEW a, NEW kat, NEW ukat, NEW x
  PROVE  ItemRef(a, kat, ukat, x) = <<"Bestellungen", a.bar, a.id, kat, ukat, x>>
<1>1. <<"Bestellungen", a.bar, a.id>> \o <<kat, ukat, x>>
        = <<"Bestellungen", a.bar, a.id, kat, ukat, x>>
  <2> DEFINE wurzel == "Bestellungen"  bar == a.bar  id == a.id
  <2> HIDE DEF wurzel, bar, id
  <2>1. \A u, v, w, l, m, n : <<u, v, w>> \o <<l, m, n>> = <<u, v, w, l, m, n>>
    BY DreiDrei, Zenon
  <2>2. <<wurzel, bar, id>> \o <<kat, ukat, x>> = <<wurzel, bar, id, kat, ukat, x>>
    BY <2>1
  <2> QED BY <2>2, Zenon DEF wurzel, bar, id
<1> QED BY <1>1, Zenon DEF ItemRef, BestellungRef

\* What the lines of an order that can be sent are.
LEMMA StelleLesen ==
  ASSUME NEW a, Versendbar(a.dictionary), NEW k, NEW j, NEW i, Stelle(a, k, j, i)
  PROVE  /\ firstIndex(a.dictionary[k].Unterkategorie, a.dictionary[k].Unterkategorie[j]) = j
         /\ Folge(Zelle(a, k, j, i, "ExtrasName"))
         /\ Injektiv(Zelle(a, k, j, i, "ExtrasName")) /\ Zelle(a, k, j, i, "ExtrasName") # <<>>
         /\ Len(Zelle(a, k, j, i, "ExtrasPreise")) = Len(Zelle(a, k, j, i, "ExtrasName"))
<1> DEFINE s == a.dictionary[k]
<1>1. SectionVersendbar(s)
  BY DEF Versendbar, Stelle
<1>2. j \in 1..Len(s.Unterkategorie)
  BY <1>1 DEF Stelle, SectionVersendbar
<1>3. firstIndex(s.Unterkategorie, s.Unterkategorie[j]) = j
  BY <1>1, <1>2, FirstIndexInjektiv DEF SectionVersendbar
<1>4. j \in DOMAIN s.felder["ItemsNamen"]
  BY <1>1, <1>2 DEF SectionVersendbar
<1>5. ExtrasVersendbar(s.felder["ExtrasName"][j][i], s.felder["ExtrasPreise"][j][i])
  BY <1>1, <1>4 DEF Stelle, SectionVersendbar
<1> QED BY <1>3, <1>5 DEF ExtrasVersendbar, Zelle, Folge

LEMMA FuenfFolge ==
  ASSUME NEW u, NEW v, NEW w, NEW x, NEW y
  PROVE  Folge(<<u, v, w, x, y>>) /\ ToSet(<<u, v, w, x, y>>) = {u, v, w, x, y}
<1> DEFINE s == <<u, v, w, x, y>>
<1>1. s \in Seq({u, v, w, x, y}) /\ Len(s) = 5
  OBVIOUS
<1>2. s[1] = u /\ s[2] = v /\ s[3] = w /\ s[4] = x /\ s[5] = y
  OBVIOUS
<1>3. \A i \in 1..5 : i = 1 \/ i = 2 \/ i = 3 \/ i = 4 \/ i = 5
  OBVIOUS
<1>4. 1 \in 1..5 /\ 2 \in 1..5 /\ 3 \in 1..5 /\ 4 \in 1..5 /\ 5 \in 1..5
  OBVIOUS
<1> HIDE DEF s
<1>5. DOMAIN s = 1..5
  BY <1>1
<1>6. ToSet(s) = {s[i] : i \in 1..5}
  BY <1>5 DEF ToSet
<1>7. ToSet(s) = {u, v, w, x, y}
  BY <1>2, <1>3, <1>4, <1>6
<1>8. Folge(s)
  BY <1>1, FolgeIhrerWerte DEF Folge
<1> QED BY <1>7, <1>8 DEF s

\* The updates of a line are those of the item and of its extras.
LEMMA ItemUpdatesMenge ==
  ASSUME NEW a, Versendbar(a.dictionary), NEW k, NEW j, NEW i, Stelle(a, k, j, i)
  PROVE  /\ Folge(ItemUpdates(a, a.dictionary[k], j, i))
         /\ ToSet(ItemUpdates(a, a.dictionary[k], j, i)) = ZeileUpdates(a, k, j, i)
<1> DEFINE s     == a.dictionary[k]
           item  == ItemRef(a, s.Kategorie, s.Unterkategorie[j], <<j, i>>)
           namen == Zelle(a, k, j, i, "ExtrasName")
           preise == Zelle(a, k, j, i, "ExtrasPreise")
           ex    == [n \in DOMAIN namen |-> ExtraUpdates(item, namen, preise, namen[n])]
           N     == Len(namen)
<1>1. item = Item(a, k, j, i)
  BY ItemKnoten DEF Item
<1>2. /\ firstIndex(s.Unterkategorie, s.Unterkategorie[j]) = j
      /\ Folge(namen) /\ Injektiv(namen)
  BY StelleLesen
<1>3. N \in Nat /\ DOMAIN namen = 1..N
  BY <1>2 DEF Folge
<1>4. ItemUpdates(a, s, j, i) = Zeile5(a, k, j, i) \o FlattenSeq(ex)
  <2> DEFINE u    == firstIndex(s.Unterkategorie, s.Unterkategorie[j])
             wert == [f \in Felder |-> s.felder[f][u][i]]
  <2>1. ItemUpdates(a, s, j, i) =
         << Update(item, [Name      |-> wert["ItemsNamen"]]),
            Update(item, [Menge     |-> wert["ItemsMengen"]]),
            Update(item, [Preis     |-> wert["ItemsPreise"]]),
            Update(item, [Kommentar |-> wert["ItemsKommentar"]]),
            Update(item, [bestellungItemId |-> <<j, i>>]) >>
         \o FlattenSeq([n \in DOMAIN wert["ExtrasName"] |->
              ExtraUpdates(item, wert["ExtrasName"], wert["ExtrasPreise"], wert["ExtrasName"][n])])
    BY Zenon DEF ItemUpdates
  <2>2. /\ wert["ItemsNamen"] = Zelle(a, k, j, i, "ItemsNamen")
        /\ wert["ItemsMengen"] = Zelle(a, k, j, i, "ItemsMengen")
        /\ wert["ItemsPreise"] = Zelle(a, k, j, i, "ItemsPreise")
        /\ wert["ItemsKommentar"] = Zelle(a, k, j, i, "ItemsKommentar")
        /\ wert["ExtrasName"] = namen
        /\ wert["ExtrasPreise"] = preise
    BY <1>2 DEF Felder, Zelle
  <2> HIDE DEF wert, item, namen, preise
  <2> QED BY <1>1, <2>1, <2>2, Zenon DEF Zeile5
<1> HIDE DEF item, namen, preise
<1>5. ASSUME NEW n \in 1..N
      PROVE  /\ ex[n] = <<ExtraName(a, k, j, i, n), ExtraPreis(a, k, j, i, n)>>
             /\ Folge(ex[n])
             /\ ToSet(ex[n]) = {ExtraName(a, k, j, i, n), ExtraPreis(a, k, j, i, n)}
  <2>1. firstIndex(namen, namen[n]) = n
    BY <1>2, FirstIndexInjektiv DEF Folge
  <2>2. ExtraRef(item, n) = Extra(a, k, j, i, n)
    <3>1. <<"Bestellungen", a.bar, a.id, s.Kategorie, s.Unterkategorie[j], <<j, i>>>> \o <<"Extras", n>>
          = <<"Bestellungen", a.bar, a.id, s.Kategorie, s.Unterkategorie[j], <<j, i>>, "Extras", n>>
      <4> DEFINE wurzel == "Bestellungen"  bar == a.bar  id == a.id
                 kat == s.Kategorie  ukat == s.Unterkategorie[j]  ij == <<j, i>>
                 extras == "Extras"
      <4> HIDE DEF wurzel, bar, id, kat, ukat, ij, extras
      <4>1. <<wurzel, bar, id, kat, ukat, ij>> \o <<extras, n>>
              = <<wurzel, bar, id, kat, ukat, ij, extras, n>>
        BY SechsZwei
      <4> QED BY <4>1, Zenon DEF wurzel, bar, id, kat, ukat, ij, extras
    <3> QED BY <1>1, <3>1, Zenon DEF Item, Extra, ExtraRef
  <2>3. ex[n] = ExtraUpdates(item, namen, preise, namen[n])
    BY <1>3
  <2>4. ex[n] = <<ExtraName(a, k, j, i, n), ExtraPreis(a, k, j, i, n)>>
    BY <2>1, <2>2, <2>3, Zenon DEF ExtraUpdates, ExtraName, ExtraPreis, namen, preise
  <2> DEFINE x == ExtraName(a, k, j, i, n)  y == ExtraPreis(a, k, j, i, n)
  <2>5. Folge(<<x, y>>) /\ ToSet(<<x, y>>) = {x, y}
    <3> HIDE DEF x, y
    <3> QED BY PaarFolge
  <2> QED BY <2>4, <2>5, Zenon
<1>6. /\ Folge(FlattenSeq(ex))
      /\ ToSet(FlattenSeq(ex)) = UNION {ToSet(ex[n]) : n \in 1..N}
  <2>1. ex = [n \in 1..N |-> ex[n]]
    BY <1>3
  <2>2. \A n \in 1..N : Folge(ex[n])
    BY <1>5
  <2> HIDE DEF ex
  <2> QED BY <1>3, <2>1, <2>2, FolgeFlach
<1>7. UNION {ToSet(ex[n]) : n \in 1..N}
        = UNION {{ExtraName(a, k, j, i, n), ExtraPreis(a, k, j, i, n)} : n \in 1..N}
  <2> HIDE DEF ex, N
  <2> QED BY <1>5
<1>8. Folge(Zeile5(a, k, j, i))
  BY FuenfFolge DEF Zeile5
<1> HIDE DEF ex
<1>9. /\ Folge(Zeile5(a, k, j, i) \o FlattenSeq(ex))
      /\ ToSet(Zeile5(a, k, j, i) \o FlattenSeq(ex))
           = ToSet(Zeile5(a, k, j, i)) \cup ToSet(FlattenSeq(ex))
  BY <1>6, <1>8, FolgeVerkettet
<1> QED BY <1>4, <1>6, <1>7, <1>9, Zenon DEF ZeileUpdates, namen

\* The updates of the items are those of all lines.
LEMMA ItemsUpdatesMenge ==
  ASSUME NEW a, Versendbar(a.dictionary)
  PROVE  /\ Folge(ItemsUpdates(a))
         /\ \A x : x \in ToSet(ItemsUpdates(a)) <=>
                     \E k, j, i : Stelle(a, k, j, i) /\ x \in ZeileUpdates(a, k, j, i)
<1> DEFINE d == a.dictionary
           I(k, j) == [i \in DOMAIN d[k].felder["ItemsNamen"]
                               [firstIndex(d[k].Unterkategorie, d[k].Unterkategorie[j])]
                         |-> ItemUpdates(a, d[k], j, i)]
           J(k) == [j \in DOMAIN d[k].Unterkategorie |-> FlattenSeq(I(k, j))]
           K == [k \in DOMAIN d |-> FlattenSeq(J(k))]
<1>1. ItemsUpdates(a) = FlattenSeq(K)
  BY Zenon DEF ItemsUpdates
<1>2. ASSUME NEW k \in DOMAIN d, NEW j \in DOMAIN d[k].Unterkategorie
      PROVE  /\ Folge(FlattenSeq(I(k, j)))
             /\ \A x : x \in ToSet(FlattenSeq(I(k, j))) <=>
                  \E i : Stelle(a, k, j, i) /\ x \in ZeileUpdates(a, k, j, i)
  <2> DEFINE zeilen == d[k].felder["ItemsNamen"][j]
             n == Len(zeilen)
             f == I(k, j)
  <2>1. SectionVersendbar(d[k])
    BY DEF Versendbar
  <2>2. /\ j \in 1..Len(d[k].Unterkategorie)
        /\ j \in DOMAIN d[k].felder["ItemsNamen"]
    BY <2>1 DEF SectionVersendbar
  <2>3. n \in Nat /\ DOMAIN zeilen = 1..n
    BY <2>1, <2>2 DEF SectionVersendbar
  <2>4. firstIndex(d[k].Unterkategorie, d[k].Unterkategorie[j]) = j
    BY <2>1, <2>2, FirstIndexInjektiv DEF SectionVersendbar
  <2>5. f = [i \in 1..n |-> f[i]] /\ \A i \in 1..n : f[i] = ItemUpdates(a, d[k], j, i)
    BY <2>3, <2>4
  <2>6. \A i : Stelle(a, k, j, i) <=> i \in 1..n
    BY <2>3 DEF Stelle
  <2> HIDE DEF f, n
  <2>7. \A i \in 1..n : Folge(f[i]) /\ ToSet(f[i]) = ZeileUpdates(a, k, j, i)
    BY <2>5, <2>6, ItemUpdatesMenge
  <2>8. Folge(FlattenSeq(f)) /\ ToSet(FlattenSeq(f)) = UNION {ToSet(f[i]) : i \in 1..n}
    BY <2>3, <2>5, <2>7, FolgeFlach
  <2>9. \A x : x \in ToSet(FlattenSeq(f)) <=>
          \E i : Stelle(a, k, j, i) /\ x \in ZeileUpdates(a, k, j, i)
    BY <2>6, <2>7, <2>8
  <2> QED BY <2>8, <2>9 DEF f
<1> HIDE DEF I
<1>3. ASSUME NEW k \in DOMAIN d
      PROVE  /\ Folge(FlattenSeq(J(k)))
             /\ \A x : x \in ToSet(FlattenSeq(J(k))) <=>
                  \E j, i : Stelle(a, k, j, i) /\ x \in ZeileUpdates(a, k, j, i)
  <2> DEFINE n == Len(d[k].Unterkategorie)
             f == J(k)
  <2>1. n \in Nat /\ DOMAIN d[k].Unterkategorie = 1..n
    BY DEF Versendbar, SectionVersendbar
  <2>2. f = [j \in 1..n |-> f[j]] /\ \A j \in 1..n : f[j] = FlattenSeq(I(k, j))
    BY <2>1
  <2>3. \A j, i : Stelle(a, k, j, i) => j \in 1..n
    BY <2>1 DEF Stelle
  <2> HIDE DEF f, n
  <2>4. \A j \in 1..n :
          /\ Folge(f[j])
          /\ \A x : x \in ToSet(f[j]) <=>
               \E i : Stelle(a, k, j, i) /\ x \in ZeileUpdates(a, k, j, i)
    BY <1>2, <2>1, <2>2
  <2>5. Folge(FlattenSeq(f)) /\ ToSet(FlattenSeq(f)) = UNION {ToSet(f[j]) : j \in 1..n}
    BY <2>1, <2>2, <2>4, FolgeFlach
  <2>6. \A x : x \in ToSet(FlattenSeq(f)) <=>
          \E j, i : Stelle(a, k, j, i) /\ x \in ZeileUpdates(a, k, j, i)
    BY <2>3, <2>4, <2>5
  <2> QED BY <2>5, <2>6 DEF f
<1> HIDE DEF J
<1>4. /\ Folge(FlattenSeq(K))
      /\ \A x : x \in ToSet(FlattenSeq(K)) <=>
           \E k, j, i : Stelle(a, k, j, i) /\ x \in ZeileUpdates(a, k, j, i)
  <2> DEFINE n == Len(d)
             f == K
  <2>1. n \in Nat /\ DOMAIN d = 1..n
    BY DEF Versendbar
  <2>2. f = [k \in 1..n |-> f[k]] /\ \A k \in 1..n : f[k] = FlattenSeq(J(k))
    BY <2>1
  <2>3. \A k, j, i : Stelle(a, k, j, i) => k \in 1..n
    BY <2>1 DEF Stelle
  <2> HIDE DEF f, n
  <2>4. \A k \in 1..n :
          /\ Folge(f[k])
          /\ \A x : x \in ToSet(f[k]) <=>
               \E j, i : Stelle(a, k, j, i) /\ x \in ZeileUpdates(a, k, j, i)
    BY <1>3, <2>1, <2>2
  <2>5. Folge(FlattenSeq(f)) /\ ToSet(FlattenSeq(f)) = UNION {ToSet(f[k]) : k \in 1..n}
    BY <2>1, <2>2, <2>4, FolgeFlach
  <2>6. \A x : x \in ToSet(FlattenSeq(f)) <=>
          \E k, j, i : Stelle(a, k, j, i) /\ x \in ZeileUpdates(a, k, j, i)
    BY <2>3, <2>4, <2>5
  <2> QED BY <2>5, <2>6 DEF f
<1> QED BY <1>1, <1>4

\* The other updates.
Bar1Update(a) == Update(<<"Users", a.gast>>, [akutelleBar |-> a.bar])
Bar2Update(a) == Update(<<"Users", a.gast>>, [aktuelleBar |-> a.bar])
InformationUpdate(a) == Update(<<"Bestellungen", a.bar, a.id, "Information">>, Information(a))
Gast1Update(a) == Update(GastRef(a), [BestellungsID |-> a.id, abgeschlossen |-> FALSE])
Gast2Update(a) == Update(GastRef(a), Information(a))

LEMMA VierFolge ==
  ASSUME NEW u, NEW v, NEW w, NEW x
  PROVE  Folge(<<u, v, w, x>>) /\ ToSet(<<u, v, w, x>>) = {u, v, w, x}
<1> DEFINE s == <<u, v, w, x>>
<1>1. s \in Seq({u, v, w, x}) /\ Len(s) = 4
  OBVIOUS
<1>2. s[1] = u /\ s[2] = v /\ s[3] = w /\ s[4] = x
  OBVIOUS
<1>3. \A i \in 1..4 : i = 1 \/ i = 2 \/ i = 3 \/ i = 4
  OBVIOUS
<1>4. 1 \in 1..4 /\ 2 \in 1..4 /\ 3 \in 1..4 /\ 4 \in 1..4
  OBVIOUS
<1> HIDE DEF s
<1>5. DOMAIN s = 1..4
  BY <1>1
<1>6. ToSet(s) = {s[i] : i \in 1..4}
  BY <1>5 DEF ToSet
<1>7. ToSet(s) = {u, v, w, x}
  BY <1>2, <1>3, <1>4, <1>6
<1>8. Folge(s)
  BY <1>1, FolgeIhrerWerte DEF Folge
<1> QED BY <1>7, <1>8 DEF s

\* In which order.
LEMMA GastUpdatesAufbau ==
  ASSUME NEW a
  PROVE  GastUpdates(a) = <<Bar1Update(a)>> \o ItemsUpdates(a)
           \o <<InformationUpdate(a), Gast1Update(a), Gast2Update(a), Bar2Update(a)>>
<1>1. BestellungRef(a) \o <<"Information">> = <<"Bestellungen", a.bar, a.id, "Information">>
  <2> DEFINE wurzel == "Bestellungen"  bar == a.bar  id == a.id  info == "Information"
  <2> HIDE DEF wurzel, bar, id, info
  <2>1. <<wurzel, bar, id>> \o <<info>> = <<wurzel, bar, id, info>>
    BY DreiEins
  <2> QED BY <2>1, Zenon DEF BestellungRef, wurzel, bar, id, info
<1> QED BY <1>1, Zenon DEF GastUpdates, Bar1Update, InformationUpdate, Gast1Update,
                Gast2Update, Bar2Update

\* What handleBestellung writes before the waiter is told.
LEMMA GastUpdatesMenge ==
  ASSUME NEW a, Versendbar(a.dictionary)
  PROVE  /\ Folge(GastUpdates(a))
         /\ \A x : x \in ToSet(GastUpdates(a)) <=>
              \/ x \in {Bar1Update(a), InformationUpdate(a), Gast1Update(a),
                        Gast2Update(a), Bar2Update(a)}
              \/ \E k, j, i : Stelle(a, k, j, i) /\ x \in ZeileUpdates(a, k, j, i)
<1> DEFINE u == Bar1Update(a)
           v == InformationUpdate(a)
           w == Gast1Update(a)
           x == Gast2Update(a)
           y == Bar2Update(a)
           items == ItemsUpdates(a)
<1>1. GastUpdates(a) = <<u>> \o items \o <<v, w, x, y>>
  BY GastUpdatesAufbau
<1> HIDE DEF u, v, w, x, y
<1>2. Folge(<<u>>) /\ ToSet(<<u>>) = {u}
  BY EinsFolge
<1>3. Folge(<<v, w, x, y>>) /\ ToSet(<<v, w, x, y>>) = {v, w, x, y}
  BY VierFolge
<1>4. Folge(items)
  BY ItemsUpdatesMenge
<1>5. Folge(<<u>> \o items) /\ ToSet(<<u>> \o items) = {u} \cup ToSet(items)
  BY <1>2, <1>4, FolgeVerkettet
<1> DEFINE anfang == <<u>> \o items  ende == <<v, w, x, y>>
<1> HIDE DEF anfang, ende, items
<1>6. Folge(anfang \o ende) /\ ToSet(anfang \o ende) = ToSet(anfang) \cup ToSet(ende)
  BY <1>3, <1>5, FolgeVerkettet DEF anfang, ende
<1>7. /\ Folge(GastUpdates(a))
      /\ ToSet(GastUpdates(a)) = {u, v, w, x, y} \cup ToSet(items)
  BY <1>1, <1>3, <1>5, <1>6 DEF anfang, ende
<1> QED BY <1>7, ItemsUpdatesMenge DEF items, u, v, w, x, y

LEMMA UpdatesMenge ==
  ASSUME NEW a, Versendbar(a.dictionary)
  PROVE  /\ Folge(Updates(a))
         /\ ToSet(Updates(a)) = ToSet(GastUpdates(a)) \cup {KellnerUpdate(a)}
         /\ Len(Updates(a)) = Len(GastUpdates(a)) + 1 /\ Len(GastUpdates(a)) \in Nat
         /\ Updates(a)[Len(Updates(a))] = KellnerUpdate(a)
         /\ \A p \in 1..Len(GastUpdates(a)) : Updates(a)[p] = GastUpdates(a)[p]
<1> DEFINE s == GastUpdates(a)
           x == KellnerUpdate(a)
           S == ToSet(s) \cup {x}
<1>1. s \in Seq(S)
  BY GastUpdatesMenge, SeqMonotonic DEF Folge
<1>2. x \in S /\ Updates(a) = Append(s, x)
  BY DEF Updates
<1> HIDE DEF S, x, s
<1>3. /\ Append(s, x) \in Seq(S) /\ Len(Append(s, x)) = Len(s) + 1 /\ Len(s) \in Nat
      /\ \A i \in 1..Len(s) : Append(s, x)[i] = s[i]
      /\ Append(s, x)[Len(s) + 1] = x
  BY <1>1, <1>2, AppendFolge
<1>4. ToSet(Append(s, x)) = ToSet(s) \cup {x}
  <2>1. DOMAIN Append(s, x) = 1..(Len(s) + 1) /\ DOMAIN s = 1..Len(s)
    BY <1>1, <1>3
  <2>2. \A i : i \in 1..(Len(s) + 1) <=> i \in 1..Len(s) \/ i = Len(s) + 1
    BY <1>3
  <2> QED BY <1>3, <2>1, <2>2 DEF ToSet
<1>5. Folge(Append(s, x))
  BY <1>3, FolgeIhrerWerte DEF Folge
<1> QED BY <1>2, <1>3, <1>4, <1>5 DEF s, x

ItemUpdate5(a, k, j, i) ==
  { Update(Item(a, k, j, i), [Name      |-> Zelle(a, k, j, i, "ItemsNamen")]),
    Update(Item(a, k, j, i), [Menge     |-> Zelle(a, k, j, i, "ItemsMengen")]),
    Update(Item(a, k, j, i), [Preis     |-> Zelle(a, k, j, i, "ItemsPreise")]),
    Update(Item(a, k, j, i), [Kommentar |-> Zelle(a, k, j, i, "ItemsKommentar")]),
    Update(Item(a, k, j, i), [bestellungItemId |-> <<j, i>>]) }

\* The n-th extra of a line.
ExtraStelle(a, k, j, i, n) ==
  Stelle(a, k, j, i) /\ n \in 1..Len(Zelle(a, k, j, i, "ExtrasName"))

\* The kinds of updates.
LEMMA Arten ==
  ASSUME NEW a, Versendbar(a.dictionary), NEW x
  PROVE  x \in ToSet(Updates(a)) <=>
           \/ x = Bar1Update(a) \/ x = Bar2Update(a)
           \/ x = InformationUpdate(a)
           \/ x = Gast1Update(a) \/ x = Gast2Update(a)
           \/ x = KellnerUpdate(a)
           \/ \E k, j, i : Stelle(a, k, j, i) /\ x \in ItemUpdate5(a, k, j, i)
           \/ \E k, j, i, n : /\ ExtraStelle(a, k, j, i, n)
                              /\ x = ExtraName(a, k, j, i, n) \/ x = ExtraPreis(a, k, j, i, n)
<1>1. \A k, j, i : x \in ZeileUpdates(a, k, j, i) <=>
         \/ x \in ItemUpdate5(a, k, j, i)
         \/ \E n \in 1..Len(Zelle(a, k, j, i, "ExtrasName")) :
              x = ExtraName(a, k, j, i, n) \/ x = ExtraPreis(a, k, j, i, n)
  <2> TAKE k, j, i
  <2>1. ToSet(Zeile5(a, k, j, i)) = ItemUpdate5(a, k, j, i)
    BY FuenfFolge DEF Zeile5, ItemUpdate5
  <2> QED BY <2>1 DEF ZeileUpdates
<1>2. x \in ToSet(Updates(a)) <=> x \in ToSet(GastUpdates(a)) \/ x = KellnerUpdate(a)
  BY UpdatesMenge
<1>3. x \in ToSet(GastUpdates(a)) <=>
        \/ x \in {Bar1Update(a), InformationUpdate(a), Gast1Update(a),
                  Gast2Update(a), Bar2Update(a)}
        \/ \E k, j, i : Stelle(a, k, j, i) /\ x \in ZeileUpdates(a, k, j, i)
  BY GastUpdatesMenge
<1> QED BY <1>1, <1>2, <1>3 DEF ExtraStelle

\* Their nodes.
LEMMA Knotenarten ==
  ASSUME NEW a, NEW k, NEW j, NEW i, NEW n
  PROVE  /\ Bar1Update(a).knoten = <<"Users", a.gast>>
         /\ Bar2Update(a).knoten = <<"Users", a.gast>>
         /\ InformationUpdate(a).knoten = <<"Bestellungen", a.bar, a.id, "Information">>
         /\ Gast1Update(a).knoten = <<"userBestellungen", a.gast, a.id>>
         /\ Gast2Update(a).knoten = <<"userBestellungen", a.gast, a.id>>
         /\ KellnerUpdate(a).knoten = <<"userBestellungen", Kellner, a.id>>
         /\ \A x \in ItemUpdate5(a, k, j, i) : x.knoten = Item(a, k, j, i)
         /\ ExtraName(a, k, j, i, n).knoten = Extra(a, k, j, i, n)
         /\ ExtraPreis(a, k, j, i, n).knoten = Extra(a, k, j, i, n)
  BY DEF Bar1Update, Bar2Update, InformationUpdate, Gast1Update, Gast2Update, KellnerUpdate,
         ItemUpdate5, ExtraName, ExtraPreis, Update, GastRef, KellnerRef

LEMMA ExtraKnoten ==
  ASSUME NEW a, NEW k, NEW j, NEW i, NEW n
  PROVE  /\ ExtraName(a, k, j, i, n).knoten = Extra(a, k, j, i, n)
         /\ ExtraPreis(a, k, j, i, n).knoten = Extra(a, k, j, i, n)
  BY DEF ExtraName, ExtraPreis, Update

\* How deep they are.
LEMMA Tiefen ==
  /\ \A x : Len(<<"Users", x>>) = 2
  /\ \A x, y : Len(<<"userBestellungen", x, y>>) = 3
  /\ \A x, y : Len(<<"Bestellungen", x, y, "Information">>) = 4
  /\ \A a, k, j, i : Len(Item(a, k, j, i)) = 6
  /\ \A a, k, j, i, n : Len(Extra(a, k, j, i, n)) = 8
<1>1. \A x : Len(<<"Users", x>>) = 2
  OBVIOUS
<1>2. \A x, y : Len(<<"userBestellungen", x, y>>) = 3
  OBVIOUS
<1>3. \A x, y : Len(<<"Bestellungen", x, y, "Information">>) = 4
  OBVIOUS
<1>4. ASSUME NEW a, NEW k, NEW j, NEW i PROVE Len(Item(a, k, j, i)) = 6
  BY DEF Item
<1>5. ASSUME NEW a, NEW k, NEW j, NEW i, NEW n PROVE Len(Extra(a, k, j, i, n)) = 8
  BY DEF Extra
<1> QED BY <1>1, <1>2, <1>3, <1>4, <1>5, Zenon

\* The kinds of updates with their nodes and depths.
LEMMA ArtenTiefen ==
  ASSUME NEW a, Versendbar(a.dictionary), NEW x \in ToSet(Updates(a))
  PROVE  \/ /\ x = Bar1Update(a) \/ x = Bar2Update(a)
            /\ x.knoten = <<"Users", a.gast>> /\ Len(x.knoten) = 2
         \/ /\ x = Gast1Update(a) \/ x = Gast2Update(a)
            /\ x.knoten = <<"userBestellungen", a.gast, a.id>> /\ Len(x.knoten) = 3
         \/ /\ x = KellnerUpdate(a)
            /\ x.knoten = <<"userBestellungen", Kellner, a.id>> /\ Len(x.knoten) = 3
         \/ /\ x = InformationUpdate(a)
            /\ x.knoten = <<"Bestellungen", a.bar, a.id, "Information">> /\ Len(x.knoten) = 4
         \/ \E k, j, i : /\ Stelle(a, k, j, i) /\ x \in ItemUpdate5(a, k, j, i)
                         /\ x.knoten = Item(a, k, j, i) /\ Len(x.knoten) = 6
         \/ \E k, j, i, n : /\ ExtraStelle(a, k, j, i, n)
                            /\ x = ExtraName(a, k, j, i, n) \/ x = ExtraPreis(a, k, j, i, n)
                            /\ x.knoten = Extra(a, k, j, i, n) /\ Len(x.knoten) = 8
<1>1. CASE x = Bar1Update(a) \/ x = Bar2Update(a)
  <2>1. x.knoten = <<"Users", a.gast>>
    BY <1>1, Knotenarten, Zenon
  <2>2. Len(x.knoten) = 2
    BY <2>1, Tiefen, Zenon
  <2> QED BY <1>1, <2>1, <2>2
<1>2. CASE x = Gast1Update(a) \/ x = Gast2Update(a)
  <2>1. x.knoten = <<"userBestellungen", a.gast, a.id>>
    BY <1>2, Knotenarten, Zenon
  <2>2. Len(x.knoten) = 3
    BY <2>1, Tiefen, Zenon
  <2> QED BY <1>2, <2>1, <2>2
<1>3. CASE x = KellnerUpdate(a)
  <2>1. x.knoten = <<"userBestellungen", Kellner, a.id>>
    BY <1>3, Knotenarten, Zenon
  <2>2. Len(x.knoten) = 3
    BY <2>1, Tiefen, Zenon
  <2> QED BY <1>3, <2>1, <2>2
<1>4. CASE x = InformationUpdate(a)
  <2>1. x.knoten = <<"Bestellungen", a.bar, a.id, "Information">>
    BY <1>4, Knotenarten, ZenonT(20)
  <2>2. Len(x.knoten) = 4
    BY <2>1, Tiefen, Zenon
  <2> QED BY <1>4, <2>1, <2>2
<1>5. ASSUME NEW k, NEW j, NEW i, Stelle(a, k, j, i), x \in ItemUpdate5(a, k, j, i)
      PROVE  x.knoten = Item(a, k, j, i) /\ Len(x.knoten) = 6
  <2>1. x.knoten = Item(a, k, j, i)
    BY <1>5, Knotenarten, ZenonT(20)
  <2> QED BY <2>1, Tiefen, Zenon
<1>6. ASSUME NEW k, NEW j, NEW i, NEW n, ExtraStelle(a, k, j, i, n),
             x = ExtraName(a, k, j, i, n) \/ x = ExtraPreis(a, k, j, i, n)
      PROVE  x.knoten = Extra(a, k, j, i, n) /\ Len(x.knoten) = 8
  <2>1. x.knoten = Extra(a, k, j, i, n)
    BY <1>6, ExtraKnoten, Zenon
  <2> QED BY <2>1, Tiefen, Zenon
<1>7. \/ x = Bar1Update(a) \/ x = Bar2Update(a)
      \/ x = InformationUpdate(a)
      \/ x = Gast1Update(a) \/ x = Gast2Update(a)
      \/ x = KellnerUpdate(a)
      \/ \E k, j, i : Stelle(a, k, j, i) /\ x \in ItemUpdate5(a, k, j, i)
      \/ \E k, j, i, n : /\ ExtraStelle(a, k, j, i, n)
                         /\ x = ExtraName(a, k, j, i, n) \/ x = ExtraPreis(a, k, j, i, n)
  BY Arten, Zenon
<1>8. (\E k, j, i : Stelle(a, k, j, i) /\ x \in ItemUpdate5(a, k, j, i))
        => \E k, j, i : /\ Stelle(a, k, j, i) /\ x \in ItemUpdate5(a, k, j, i)
                        /\ x.knoten = Item(a, k, j, i) /\ Len(x.knoten) = 6
  BY <1>5, Zenon
<1>9. (\E k, j, i, n : /\ ExtraStelle(a, k, j, i, n)
                       /\ x = ExtraName(a, k, j, i, n) \/ x = ExtraPreis(a, k, j, i, n))
        => \E k, j, i, n : /\ ExtraStelle(a, k, j, i, n)
                           /\ x = ExtraName(a, k, j, i, n) \/ x = ExtraPreis(a, k, j, i, n)
                           /\ x.knoten = Extra(a, k, j, i, n) /\ Len(x.knoten) = 8
  BY <1>6, Zenon
<1> QED BY <1>1, <1>2, <1>3, <1>4, <1>7, <1>8, <1>9, Zenon

LEMMA ItemGleich ==
  ASSUME NEW a, NEW k, NEW j, NEW i, NEW b, NEW kk, NEW jj, NEW ii,
         Item(a, k, j, i) = Item(b, kk, jj, ii)
  PROVE  /\ a.id = b.id /\ j = jj /\ i = ii
         /\ a.dictionary[k].Kategorie = b.dictionary[kk].Kategorie
<1> DEFINE x == Item(a, k, j, i)  y == Item(b, kk, jj, ii)
<1>1. x[3] = a.id /\ x[4] = a.dictionary[k].Kategorie /\ x[6] = <<j, i>>
  BY DEF Item
<1>2. y[3] = b.id /\ y[4] = b.dictionary[kk].Kategorie /\ y[6] = <<jj, ii>>
  BY DEF Item
<1>3. <<j, i>> = <<jj, ii>> => j = jj /\ i = ii
  OBVIOUS
<1> HIDE DEF x, y
<1>4. x = y
  BY DEF x, y
<1> QED BY <1>1, <1>2, <1>3, <1>4

LEMMA ExtraGleich ==
  ASSUME NEW a, NEW k, NEW j, NEW i, NEW n, NEW b, NEW kk, NEW jj, NEW ii, NEW nn,
         Extra(a, k, j, i, n) = Extra(b, kk, jj, ii, nn)
  PROVE  /\ a.id = b.id /\ j = jj /\ i = ii /\ n = nn
         /\ a.dictionary[k].Kategorie = b.dictionary[kk].Kategorie
<1> DEFINE x == Extra(a, k, j, i, n)  y == Extra(b, kk, jj, ii, nn)
<1>1. x[3] = a.id /\ x[4] = a.dictionary[k].Kategorie /\ x[6] = <<j, i>> /\ x[8] = n
  BY DEF Extra
<1>2. y[3] = b.id /\ y[4] = b.dictionary[kk].Kategorie /\ y[6] = <<jj, ii>> /\ y[8] = nn
  BY DEF Extra
<1>3. <<j, i>> = <<jj, ii>> => j = jj /\ i = ii
  OBVIOUS
<1> HIDE DEF x, y
<1>4. x = y
  BY DEF x, y
<1> QED BY <1>1, <1>2, <1>3, <1>4

LEMMA KategorieFinden ==
  ASSUME NEW a, Versendbar(a.dictionary), NEW k \in DOMAIN a.dictionary,
         NEW kk \in DOMAIN a.dictionary,
         a.dictionary[k].Kategorie = a.dictionary[kk].Kategorie
  PROVE  k = kk
<1> DEFINE d == a.dictionary
           s == [x \in DOMAIN d |-> d[x].Kategorie]
<1>1. s[k] = s[kk] /\ DOMAIN s = DOMAIN d
  OBVIOUS
<1> QED BY <1>1 DEF Versendbar, Injektiv

\* Two orders with different numbers.
Verschieden(a, b) == a.id = b.id => a = b

\* Whoever writes an item's node writes that item.
LEMMA ArtItem ==
  ASSUME NEW a, NEW b, Versendbar(a.dictionary), Versendbar(b.dictionary), Verschieden(a, b),
         NEW k, NEW j, NEW i, Stelle(a, k, j, i),
         NEW x \in ToSet(Updates(b)), x.knoten = Item(a, k, j, i)
  PROVE  a = b /\ x \in ItemUpdate5(a, k, j, i)
<1>1. Len(x.knoten) = 6
  BY Tiefen
<1>2. PICK kk, jj, ii : /\ Stelle(b, kk, jj, ii) /\ x \in ItemUpdate5(b, kk, jj, ii)
                        /\ x.knoten = Item(b, kk, jj, ii)
  BY <1>1, ArtenTiefen
<1>3. Item(a, k, j, i) = Item(b, kk, jj, ii)
  BY <1>2
<1>4. /\ a.id = b.id /\ j = jj /\ i = ii
      /\ a.dictionary[k].Kategorie = b.dictionary[kk].Kategorie
  BY <1>3, ItemGleich
<1>5. a = b
  BY <1>4 DEF Verschieden
<1>6. k = kk
  BY <1>2, <1>4, <1>5, KategorieFinden DEF Stelle
<1> QED BY <1>2, <1>4, <1>5, <1>6

LEMMA ArtExtra ==
  ASSUME NEW a, NEW b, Versendbar(a.dictionary), Versendbar(b.dictionary), Verschieden(a, b),
         NEW k, NEW j, NEW i, NEW n, ExtraStelle(a, k, j, i, n),
         NEW x \in ToSet(Updates(b)), x.knoten = Extra(a, k, j, i, n)
  PROVE  a = b /\ (x = ExtraName(a, k, j, i, n) \/ x = ExtraPreis(a, k, j, i, n))
<1>1. Len(x.knoten) = 8
  BY Tiefen
<1>2. PICK kk, jj, ii, nn :
        /\ ExtraStelle(b, kk, jj, ii, nn)
        /\ x = ExtraName(b, kk, jj, ii, nn) \/ x = ExtraPreis(b, kk, jj, ii, nn)
        /\ x.knoten = Extra(b, kk, jj, ii, nn)
  BY <1>1, ArtenTiefen
<1>3. Extra(a, k, j, i, n) = Extra(b, kk, jj, ii, nn)
  BY <1>2
<1>4. /\ a.id = b.id /\ j = jj /\ i = ii /\ n = nn
      /\ a.dictionary[k].Kategorie = b.dictionary[kk].Kategorie
  BY <1>3, ExtraGleich
<1>5. a = b
  BY <1>4 DEF Verschieden
<1>6. k = kk
  BY <1>2, <1>4, <1>5, KategorieFinden DEF Stelle, ExtraStelle
<1> QED BY <1>2, <1>4, <1>5, <1>6

LEMMA ArtInformation ==
  ASSUME NEW a, NEW b, Versendbar(b.dictionary), Verschieden(a, b),
         NEW x \in ToSet(Updates(b)),
         x.knoten = <<"Bestellungen", a.bar, a.id, "Information">>
  PROVE  a = b /\ x = InformationUpdate(a)
<1>1. Len(x.knoten) = 4
  BY Tiefen
<1>2. x = InformationUpdate(b) /\ x.knoten = <<"Bestellungen", b.bar, b.id, "Information">>
  BY <1>1, ArtenTiefen
<1>3. <<"Bestellungen", a.bar, a.id, "Information">> = <<"Bestellungen", b.bar, b.id, "Information">>
  BY <1>2
<1>4. a.id = b.id
  BY <1>3
<1> QED BY <1>2, <1>4 DEF Verschieden

\* The lists of guests and waiters.
LEMMA ArtListe ==
  ASSUME NEW b, Versendbar(b.dictionary), NEW y, NEW id,
         NEW x \in ToSet(Updates(b)), x.knoten = <<"userBestellungen", y, id>>
  PROVE  /\ b.id = id
         /\ \/ y = b.gast /\ (x = Gast1Update(b) \/ x = Gast2Update(b))
            \/ y = Kellner /\ x = KellnerUpdate(b)
<1>1. Len(x.knoten) = 3
  BY Tiefen
<1>2. \/ /\ x = Gast1Update(b) \/ x = Gast2Update(b)
         /\ x.knoten = <<"userBestellungen", b.gast, b.id>>
      \/ /\ x = KellnerUpdate(b)
         /\ x.knoten = <<"userBestellungen", Kellner, b.id>>
  BY <1>1, ArtenTiefen
<1>3. CASE /\ x = Gast1Update(b) \/ x = Gast2Update(b)
           /\ x.knoten = <<"userBestellungen", b.gast, b.id>>
  <2>1. <<"userBestellungen", y, id>> = <<"userBestellungen", b.gast, b.id>>
    BY <1>3
  <2>2. y = b.gast /\ id = b.id
    BY <2>1
  <2> QED BY <1>3, <2>2
<1>4. CASE /\ x = KellnerUpdate(b)
           /\ x.knoten = <<"userBestellungen", Kellner, b.id>>
  <2>1. <<"userBestellungen", y, id>> = <<"userBestellungen", Kellner, b.id>>
    BY <1>4
  <2>2. y = Kellner /\ id = b.id
    BY <2>1
  <2> QED BY <1>4, <2>2
<1> QED BY <1>2, <1>3, <1>4

LEMMA Anfang ==
  ASSUME NEW S, NEW s \in Seq(S), NEW t \in Seq(S), Len(t) <= Len(s),
         \A i \in 1..Len(t) : t[i] = s[i]
  PROVE  SubSeq(s, 1, Len(t)) = t
<1> DEFINE n == Len(t)  u == SubSeq(s, 1, n)
<1>1. n \in Nat /\ \A i \in 1..n : s[i] \in S
  OBVIOUS
<1>2. u \in Seq(S) /\ Len(u) = (IF 1 <= n THEN n - 1 + 1 ELSE 0)
      /\ \A i \in 1..(n - 1 + 1) : u[i] = s[1 + i - 1]
  BY <1>1, SubSeqProperties
<1> HIDE DEF u
<1>3. Len(u) = n /\ \A i \in 1..n : u[i] = s[i]
  BY <1>1, <1>2
<1>4. u = t
  BY <1>2, <1>3, SeqEqual
<1> QED BY <1>4 DEF u

LEMMA AnfangItem ==
  ASSUME NEW a, NEW k, NEW j, NEW i
  PROVE  SubSeq(Item(a, k, j, i), 1, 3) = BestellungRef(a)
<1> DEFINE s == Item(a, k, j, i)  t == BestellungRef(a)
           S == {"Bestellungen", a.bar, a.id, a.dictionary[k].Kategorie,
                 a.dictionary[k].Unterkategorie[j], <<j, i>>}
<1>1. s \in Seq(S) /\ Len(s) = 6 /\ t \in Seq(S) /\ Len(t) = 3
  BY DEF Item, BestellungRef
<1>2. s[1] = t[1] /\ s[2] = t[2] /\ s[3] = t[3]
  BY DEF Item, BestellungRef
<1> HIDE DEF s, t, S
<1>3. \A m \in 1..3 : m = 1 \/ m = 2 \/ m = 3
  OBVIOUS
<1>4. \A m \in 1..Len(t) : t[m] = s[m]
  BY <1>1, <1>2, <1>3
<1>5. Len(t) <= Len(s)
  BY <1>1
<1>6. SubSeq(s, 1, Len(t)) = t
  BY <1>1, <1>4, <1>5, Anfang
<1> QED BY <1>1, <1>6 DEF s, t

LEMMA AnfangExtra ==
  ASSUME NEW a, NEW k, NEW j, NEW i, NEW n
  PROVE  /\ SubSeq(Extra(a, k, j, i, n), 1, 3) = BestellungRef(a)
         /\ SubSeq(Extra(a, k, j, i, n), 1, 6) = Item(a, k, j, i)
<1> DEFINE s == Extra(a, k, j, i, n)  t == BestellungRef(a)  u == Item(a, k, j, i)
           S == {"Bestellungen", a.bar, a.id, a.dictionary[k].Kategorie,
                 a.dictionary[k].Unterkategorie[j], <<j, i>>, "Extras", n}
<1>1. /\ s \in Seq(S) /\ Len(s) = 8 /\ t \in Seq(S) /\ Len(t) = 3
      /\ u \in Seq(S) /\ Len(u) = 6
  BY DEF Item, Extra, BestellungRef
<1>2. /\ s[1] = t[1] /\ s[2] = t[2] /\ s[3] = t[3]
      /\ s[1] = u[1] /\ s[2] = u[2] /\ s[3] = u[3] /\ s[4] = u[4] /\ s[5] = u[5] /\ s[6] = u[6]
  BY DEF Item, Extra, BestellungRef
<1> HIDE DEF s, t, u, S
<1>3. /\ \A m \in 1..3 : m = 1 \/ m = 2 \/ m = 3
      /\ \A m \in 1..6 : m = 1 \/ m = 2 \/ m = 3 \/ m = 4 \/ m = 5 \/ m = 6
  OBVIOUS
<1>4. /\ \A m \in 1..Len(t) : t[m] = s[m]
      /\ \A m \in 1..Len(u) : u[m] = s[m]
  BY <1>1, <1>2, <1>3
<1>5. Len(t) <= Len(s) /\ Len(u) <= Len(s)
  BY <1>1
<1>6. SubSeq(s, 1, Len(t)) = t /\ SubSeq(s, 1, Len(u)) = u
  BY <1>1, <1>4, <1>5, Anfang
<1> QED BY <1>1, <1>6 DEF s, t, u

\* What lies in an order's node.
LEMMA ArtUnter ==
  ASSUME NEW a, NEW b, Versendbar(b.dictionary), Verschieden(a, b),
         NEW x \in ToSet(Updates(b)), Len(x.knoten) > 4, SubSeq(x.knoten, 1, 3) = BestellungRef(a)
  PROVE  /\ a = b
         /\ \/ \E k, j, i : Stelle(a, k, j, i) /\ x.knoten = Item(a, k, j, i)
            \/ \E k, j, i, n : ExtraStelle(a, k, j, i, n) /\ x.knoten = Extra(a, k, j, i, n)
<1> DEFINE l == Len(x.knoten)
<1>1. l # 2 /\ l # 3 /\ l # 4
  <2>1. l > 4
    OBVIOUS
  <2> HIDE DEF l
  <2> QED BY <2>1
<1>2. \/ \E k, j, i : Stelle(b, k, j, i) /\ x.knoten = Item(b, k, j, i)
      \/ \E k, j, i, n : ExtraStelle(b, k, j, i, n) /\ x.knoten = Extra(b, k, j, i, n)
  BY <1>1, ArtenTiefen
<1>3. SubSeq(x.knoten, 1, 3) = BestellungRef(b)
  <2>1. ASSUME NEW k, NEW j, NEW i, x.knoten = Item(b, k, j, i)
        PROVE  SubSeq(x.knoten, 1, 3) = BestellungRef(b)
    BY <2>1, AnfangItem, Zenon
  <2>2. ASSUME NEW k, NEW j, NEW i, NEW n, x.knoten = Extra(b, k, j, i, n)
        PROVE  SubSeq(x.knoten, 1, 3) = BestellungRef(b)
    BY <2>2, AnfangExtra, Zenon
  <2> QED BY <1>2, <2>1, <2>2, Zenon
<1>4. BestellungRef(a) = BestellungRef(b)
  BY <1>3
<1>5. a.id = b.id
  BY <1>4 DEF BestellungRef
<1> QED BY <1>2, <1>5 DEF Verschieden

-----------------------------------------------------------------------------
(* The database after updates.                                             *)

LEMMA GroessteZahl ==
  ASSUME NEW n \in Nat, NEW T, T \subseteq 1..n, T # {}
  PROVE  Max(T) \in T
<1> DEFINE R == {n - t : t \in T}
<1>1. R # {} /\ R \subseteq Nat
  <2>1. PICK t : t \in T
    OBVIOUS
  <2>2. n - t \in R
    BY <2>1
  <2>3. ASSUME NEW q \in T PROVE n - q \in Nat
    <3>1. q \in 1..n
      OBVIOUS
    <3> QED BY <3>1
  <2> QED BY <2>2, <2>3
<1>2. PICK r \in R : \A q \in R : r <= q
  <2> HIDE DEF R
  <2> QED BY <1>1, KleinsteZahl
<1>3. PICK t \in T : r = n - t
  BY <1>2
<1>4. \A q \in T : t >= q
  <2> TAKE q \in T
  <2>1. n - t <= n - q
    BY <1>2, <1>3
  <2>2. t \in 1..n /\ q \in 1..n
    OBVIOUS
  <2> QED BY <2>1, <2>2
<1> QED BY <1>3, <1>4 DEF Max

IstUpdate(x) == x = [knoten |-> x.knoten, werte |-> x.werte]

\* A field of the database has its old value or that of one of the updates, and
\* nothing that was there or is updated is missing.
LEMMA UeberlagertLesen ==
  ASSUME NEW db, NEW s, Folge(s), NEW neu, neu = Ueberlagert(db, s)
  PROVE  /\ \A k : k \in DOMAIN neu <=>
              k \in DOMAIN db \/ \E i \in 1..Len(s) : s[i].knoten = k
         /\ \A k \in DOMAIN neu : \A f :
              f \in DOMAIN neu[k] <=>
                \/ k \in DOMAIN db /\ f \in DOMAIN db[k]
                \/ \E i \in 1..Len(s) : s[i].knoten = k /\ f \in DOMAIN s[i].werte
         /\ \A k \in DOMAIN neu : \A f \in DOMAIN neu[k] :
              \/ /\ k \in DOMAIN db /\ f \in DOMAIN db[k] /\ neu[k][f] = db[k][f]
              \/ \E i \in 1..Len(s) :
                   s[i].knoten = k /\ f \in DOMAIN s[i].werte /\ neu[k][f] = s[i].werte[f]
<1> DEFINE N      == {s[i].knoten : i \in DOMAIN s}
           an(k)  == {i \in DOMAIN s : s[i].knoten = k}
           mit(k, f) == {i \in an(k) : f \in DOMAIN s[i].werte}
           alt(k) == IF k \in DOMAIN db THEN DOMAIN db[k] ELSE {}
           wert(k) == [f \in alt(k) \cup UNION {DOMAIN s[i].werte : i \in an(k)} |->
                         IF mit(k, f) = {} THEN db[k][f] ELSE s[Max(mit(k, f))].werte[f]]
<1>1. DOMAIN s = 1..Len(s) /\ Len(s) \in Nat
  BY DEF Folge
<1>2. neu = [k \in DOMAIN db \cup N |-> IF k \notin N THEN db[k] ELSE wert(k)]
  BY Zenon DEF Ueberlagert
<1>3. \A k : k \in N <=> \E i \in 1..Len(s) : s[i].knoten = k
  BY <1>1
<1>4. \A k : k \in DOMAIN neu <=> k \in DOMAIN db \/ k \in N
  <2> HIDE DEF N, wert
  <2> QED BY <1>2
<1>5. ASSUME NEW k \in DOMAIN neu, k \notin N
      PROVE  neu[k] = db[k] /\ k \in DOMAIN db
  <2> HIDE DEF N, wert
  <2> QED BY <1>2, <1>4, <1>5
<1>6. ASSUME NEW k \in DOMAIN neu, k \in N
      PROVE  neu[k] = wert(k)
  <2> HIDE DEF N, wert
  <2> QED BY <1>2, <1>4, <1>6
<1>7. \A k, f : \A i : i \in mit(k, f) <=>
         i \in 1..Len(s) /\ s[i].knoten = k /\ f \in DOMAIN s[i].werte
  BY <1>1
<1>8. ASSUME NEW k
      PROVE  /\ \A f : f \in DOMAIN wert(k) <=>
                  \/ k \in DOMAIN db /\ f \in DOMAIN db[k]
                  \/ mit(k, f) # {}
             /\ \A f \in DOMAIN wert(k) :
                  wert(k)[f] = IF mit(k, f) = {} THEN db[k][f] ELSE s[Max(mit(k, f))].werte[f]
  <2> DEFINE D == alt(k) \cup UNION {DOMAIN s[i].werte : i \in an(k)}
  <2>1. \A f : f \in D <=>
                  \/ k \in DOMAIN db /\ f \in DOMAIN db[k]
                  \/ mit(k, f) # {}
    OBVIOUS
  <2>2. DOMAIN wert(k) = D
    OBVIOUS
  <2>3. \A f \in D :
          wert(k)[f] = IF mit(k, f) = {} THEN db[k][f] ELSE s[Max(mit(k, f))].werte[f]
    <3> HIDE DEF D, mit
    <3> QED BY DEF D
  <2> HIDE DEF D, wert, mit
  <2> QED BY <2>1, <2>2, <2>3
<1>9. ASSUME NEW k, NEW f, mit(k, f) # {}
      PROVE  Max(mit(k, f)) \in mit(k, f)
  <2>1. mit(k, f) \subseteq 1..Len(s)
    BY <1>1
  <2> HIDE DEF mit
  <2> QED BY <1>1, <1>9, <2>1, GroessteZahl
<1>10. ASSUME NEW k \in DOMAIN neu, NEW f
       PROVE  f \in DOMAIN neu[k] <=>
                \/ k \in DOMAIN db /\ f \in DOMAIN db[k]
                \/ \E i \in 1..Len(s) : s[i].knoten = k /\ f \in DOMAIN s[i].werte
  <2> HIDE DEF N, wert, mit
  <2>1. CASE k \notin N
    BY <1>3, <1>5, <2>1
  <2>2. CASE k \in N
    <3>1. neu[k] = wert(k)
      BY <1>6, <2>2
    <3>2. f \in DOMAIN wert(k) <=> (k \in DOMAIN db /\ f \in DOMAIN db[k]) \/ mit(k, f) # {}
      BY <1>8, Zenon
    <3>3. mit(k, f) # {} <=>
            \E i \in 1..Len(s) : s[i].knoten = k /\ f \in DOMAIN s[i].werte
      BY <1>7
    <3> QED BY <3>1, <3>2, <3>3
  <2> QED BY <2>1, <2>2
<1>11. ASSUME NEW k \in DOMAIN neu, NEW f \in DOMAIN neu[k]
       PROVE  \/ /\ k \in DOMAIN db /\ f \in DOMAIN db[k] /\ neu[k][f] = db[k][f]
              \/ \E i \in 1..Len(s) :
                   s[i].knoten = k /\ f \in DOMAIN s[i].werte /\ neu[k][f] = s[i].werte[f]
  <2> HIDE DEF N, wert, mit
  <2>1. CASE k \notin N
    BY <1>5, <2>1
  <2>2. CASE k \in N /\ mit(k, f) = {}
    BY <1>6, <1>8, <2>2
  <2>3. CASE k \in N /\ mit(k, f) # {}
    <3>1. neu[k][f] = s[Max(mit(k, f))].werte[f]
      BY <1>6, <1>8, <2>3
    <3>2. Max(mit(k, f)) \in mit(k, f)
      BY <1>9, <2>3
    <3> QED BY <1>7, <3>1, <3>2
  <2> QED BY <2>1, <2>2, <2>3
<1> HIDE DEF N, wert, mit
<1> QED BY <1>3, <1>4, <1>10, <1>11

-----------------------------------------------------------------------------
(* The inductive invariant.                                                *)

AuftraegeInv ==
  /\ auftraege \in Seq([id : Nat, gast : Gaeste, bar : Bars, dictionary : Auftraege])
  /\ \A n \in DOMAIN auftraege : auftraege[n].id = n
  /\ neustarts \in [Gaeste -> Nat]
  /\ \A g \in Gaeste : neustarts[g] \in 0..MaxNeustarts[g]

\* An update of an order that was sent.
Verfasst(A, x) == \E n \in DOMAIN A : x \in ToSet(Updates(A[n]))

SchlangeInv ==
  /\ schlange = [g \in Gaeste |-> schlange[g]]
  /\ \A g \in Gaeste :
       Folge(schlange[g]) /\ \A p \in 1..Len(schlange[g]) : Verfasst(auftraege, schlange[g][p])

\* Whatever the database holds is from an update of an order that was sent.
HerkunftInv ==
  \A k \in Knoten :
    /\ \E x : Verfasst(auftraege, x) /\ x.knoten = k
    /\ \A f \in DOMAIN datenbank[k] :
         \E x : /\ Verfasst(auftraege, x) /\ x.knoten = k
                /\ f \in DOMAIN x.werte /\ datenbank[k][f] = x.werte[f]

\* An update has arrived, though its fields may have been written again.
Da(x) == x.knoten \in Knoten /\ DOMAIN x.werte \subseteq DOMAIN datenbank[x.knoten]

\* The update x of order a comes before all that are written to the node k: the
\* waiter's entry is last, and the guest's comes after the items and the Information.
Vorher(a, x, k) ==
  \/ k = KellnerRef(a) /\ x \in ToSet(GastUpdates(a))
  \/ k = GastRef(a) /\ x \in ToSet(ItemsUpdates(a)) \cup {InformationUpdate(a)}

\* When k is there, x has arrived; when k is on its way, x has arrived or is before it.
Zuerst(x, k) ==
  /\ k \in Knoten => Da(x)
  /\ \A g \in Gaeste : \A p \in 1..Len(schlange[g]) :
       schlange[g][p].knoten = k => Da(x) \/ \E q \in 1..(p - 1) : schlange[g][q] = x

\* When the waiter is told, or is going to be told next, all the rest has arrived;
\* when the guest's list has the order, all the items have.
Reihenfolge ==
  \A n \in DOMAIN auftraege : \A x, k : Vorher(auftraege[n], x, k) => Zuerst(x, k)

IInv == AuftraegeInv /\ SchlangeInv /\ HerkunftInv /\ Reihenfolge

LEMMA AuftragLesen ==
  ASSUME AuftraegeInv, NEW n \in DOMAIN auftraege
  PROVE  /\ IstAuftrag(auftraege[n]) /\ Versendbar(auftraege[n].dictionary)
         /\ auftraege[n].id = n /\ auftraege[n].gast \in Gaeste
         /\ auftraege[n].gast # Kellner /\ n \in Nat
<1> DEFINE A == [id : Nat, gast : Gaeste, bar : Bars, dictionary : Auftraege]
<1>0. auftraege \in Seq(A)
  BY DEF AuftraegeInv
<1> HIDE DEF A
<1>1. IstAuftrag(auftraege[n]) /\ auftraege[n].id = n /\ n \in Nat
  <2>1. auftraege[n] \in A /\ n \in Nat
    BY <1>0
  <2> QED BY <2>1 DEF AuftraegeInv, IstAuftrag, A
<1>2. auftraege[n].dictionary \in Auftraege /\ auftraege[n].gast \in Gaeste
  BY <1>1 DEF IstAuftrag
<1> QED BY <1>1, <1>2, AuftraegeAssumption, KellnerAssumption DEF AuftraegeAssumption, KellnerAssumption

LEMMA NummernVerschieden ==
  ASSUME AuftraegeInv, NEW n \in DOMAIN auftraege, NEW m \in DOMAIN auftraege
  PROVE  Verschieden(auftraege[n], auftraege[m])
  BY DEF AuftraegeInv, Verschieden

LEMMA InitInv == Init => IInv
<1> SUFFICES ASSUME Init PROVE IInv
  OBVIOUS
<1>1. auftraege = <<>> /\ DOMAIN auftraege = {}
  BY DEF Init
<1>2. AuftraegeInv
  <2>1. \A g \in Gaeste : neustarts[g] = 0 /\ MaxNeustarts[g] \in Nat
    BY SchrankenAssumption DEF Init, SchrankenAssumption
  <2>2. \A g \in Gaeste : neustarts[g] \in 0..MaxNeustarts[g]
    BY <2>1
  <2>3. neustarts \in [Gaeste -> Nat]
    BY DEF Init
  <2> QED BY <1>1, <2>2, <2>3 DEF AuftraegeInv
<1>3. SchlangeInv
  <2>1. Folge(<<>>) /\ Len(<<>>) = 0
    BY DEF Folge
  <2>2. \A g \in Gaeste : schlange[g] = <<>>
    BY DEF Init
  <2>3. schlange = [g \in Gaeste |-> schlange[g]]
    BY DEF Init
  <2>4. 1..0 = {}
    OBVIOUS
  <2>5. \A g \in Gaeste : Folge(schlange[g]) /\ 1..Len(schlange[g]) = {}
    BY <2>1, <2>2, <2>4
  <2> QED BY <2>3, <2>5 DEF SchlangeInv
<1>4. HerkunftInv
  <2>1. Knoten = {}
    BY DEF Knoten, Init
  <2> QED BY <2>1 DEF HerkunftInv
<1>5. Reihenfolge
  BY <1>1 DEF Reihenfolge
<1> QED BY <1>2, <1>3, <1>4, <1>5 DEF IInv

\* Updates that were sent stay so, and those of the new order are sent.
LEMMA NeuVerfasst ==
  ASSUME AuftraegeInv, NEW g \in Gaeste, NEW bar \in Bars, NEW d \in Auftraege,
         handleBestellung(g, bar, d)
  PROVE  LET a == [id |-> Len(auftraege) + 1, gast |-> g, bar |-> bar, dictionary |-> d] IN
         /\ AuftraegeInv' /\ IstAuftrag(a) /\ Versendbar(a.dictionary)
         /\ a.id \notin DOMAIN auftraege /\ a.id \in DOMAIN auftraege' /\ auftraege'[a.id] = a
         /\ DOMAIN auftraege' = DOMAIN auftraege \cup {a.id}
         /\ \A n \in DOMAIN auftraege : n \in DOMAIN auftraege' /\ auftraege'[n] = auftraege[n]
         /\ \A x : Verfasst(auftraege, x) => Verfasst(auftraege', x)
         /\ \A x \in ToSet(Updates(a)) : Verfasst(auftraege', x)
<1> DEFINE l == Len(auftraege)
           a == [id |-> l + 1, gast |-> g, bar |-> bar, dictionary |-> d]
           A == [id : Nat, gast : Gaeste, bar : Bars, dictionary : Auftraege]
<1>1. auftraege \in Seq(A) /\ l \in Nat /\ a \in A /\ DOMAIN auftraege = 1..l
  BY DEF AuftraegeInv
<1>2. auftraege' = Append(auftraege, a) /\ neustarts' = neustarts
  BY DEF handleBestellung
<1>3. a.id = l + 1 /\ a.dictionary = d
  OBVIOUS
<1> HIDE DEF a, A
<1>4. /\ auftraege' \in Seq(A) /\ Len(auftraege') = l + 1
      /\ \A n \in 1..l : auftraege'[n] = auftraege[n]
      /\ auftraege'[l + 1] = a
  BY <1>1, <1>2, AppendFolge
<1>5. /\ DOMAIN auftraege' = DOMAIN auftraege \cup {l + 1}
      /\ l + 1 \notin DOMAIN auftraege
  <2>1. DOMAIN auftraege' = 1..(l + 1)
    BY <1>4
  <2>2. 1..(l + 1) = 1..l \cup {l + 1} /\ l + 1 \notin 1..l
    BY <1>1
  <2> QED BY <1>1, <2>1, <2>2
<1>6. AuftraegeInv'
  <2>1. \A n \in DOMAIN auftraege' : auftraege'[n].id = n
    BY <1>1, <1>3, <1>4, <1>5 DEF AuftraegeInv
  <2> QED BY <1>2, <1>4, <2>1 DEF AuftraegeInv, A
<1>7. \A x : Verfasst(auftraege, x) => Verfasst(auftraege', x)
  BY <1>1, <1>4, <1>5 DEF Verfasst
<1>8. \A x \in ToSet(Updates(a)) : Verfasst(auftraege', x)
  BY <1>4, <1>5 DEF Verfasst
<1>9. Versendbar(a.dictionary)
  BY <1>3, AuftraegeAssumption DEF AuftraegeAssumption
<1>10. IstAuftrag(a)
  BY <1>1 DEF IstAuftrag, A
<1> QED BY <1>1, <1>3, <1>4, <1>5, <1>6, <1>7, <1>8, <1>9, <1>10 DEF a

LEMMA AnhangLesen ==
  ASSUME NEW s, NEW t, Folge(s), Folge(t)
  PROVE  /\ Folge(s \o t) /\ Len(s \o t) = Len(s) + Len(t)
         /\ Len(s) \in Nat /\ Len(t) \in Nat
         /\ \A p \in 1..(Len(s) + Len(t)) :
              (s \o t)[p] = IF p <= Len(s) THEN s[p] ELSE t[p - Len(s)]
<1> DEFINE S == ToSet(s) \cup ToSet(t)
<1>1. s \in Seq(S) /\ t \in Seq(S)
  BY SeqMonotonic DEF Folge
<1> HIDE DEF S
<1> QED BY <1>1, ConcatProperties, FolgeVerkettet

\* A list's entry is not written by the updates of a line.
LEMMA NichtInZeile ==
  ASSUME NEW b, NEW k, NEW j, NEW i, NEW y, Len(y.knoten) = 3
  PROVE  y \notin ZeileUpdates(b, k, j, i)
<1>1. ToSet(Zeile5(b, k, j, i)) = ItemUpdate5(b, k, j, i)
  BY FuenfFolge DEF Zeile5, ItemUpdate5
<1>2. \A x \in ItemUpdate5(b, k, j, i) : Len(x.knoten) = 6
  <2> TAKE x \in ItemUpdate5(b, k, j, i)
  <2>1. x.knoten = Item(b, k, j, i)
    BY Knotenarten, ZenonT(20)
  <2> QED BY <2>1, Tiefen, Zenon
<1>3. \A n : Len(ExtraName(b, k, j, i, n).knoten) = 8 /\ Len(ExtraPreis(b, k, j, i, n).knoten) = 8
  <2> TAKE n
  <2>1. /\ ExtraName(b, k, j, i, n).knoten = Extra(b, k, j, i, n)
        /\ ExtraPreis(b, k, j, i, n).knoten = Extra(b, k, j, i, n)
    BY ExtraKnoten, Zenon
  <2> QED BY <2>1, Tiefen, Zenon
<1>4. y \notin ItemUpdate5(b, k, j, i)
  BY <1>2
<1>5. \A n : y # ExtraName(b, k, j, i, n) /\ y # ExtraPreis(b, k, j, i, n)
  BY <1>3
<1> QED BY <1>1, <1>4, <1>5 DEF ZeileUpdates

LEMMA KellnerNichtGast ==
  ASSUME NEW b, Versendbar(b.dictionary), b.gast # Kellner
  PROVE  KellnerUpdate(b) \notin ToSet(GastUpdates(b))
<1> DEFINE y == KellnerUpdate(b)
<1>1. y.knoten = <<"userBestellungen", Kellner, b.id>>
  BY Knotenarten, Zenon
<1>2. Len(y.knoten) = 3
  BY <1>1, Tiefen, Zenon
<1>3. y # Bar1Update(b) /\ y # Bar2Update(b)
  <2>1. Len(Bar1Update(b).knoten) = 2 /\ Len(Bar2Update(b).knoten) = 2
    BY Knotenarten, Tiefen, Zenon
  <2> HIDE DEF y
  <2> QED BY <1>2, <2>1
<1>4. y # InformationUpdate(b)
  <2>1. Len(InformationUpdate(b).knoten) = 4
    <3>1. InformationUpdate(b).knoten = <<"Bestellungen", b.bar, b.id, "Information">>
      BY Knotenarten, Zenon
    <3> QED BY <3>1, Tiefen, Zenon
  <2> HIDE DEF y
  <2> QED BY <1>2, <2>1
<1>5. y # Gast1Update(b) /\ y # Gast2Update(b)
  <2>1. <<"userBestellungen", Kellner, b.id>> # <<"userBestellungen", b.gast, b.id>>
    OBVIOUS
  <2>2. /\ Gast1Update(b).knoten = <<"userBestellungen", b.gast, b.id>>
        /\ Gast2Update(b).knoten = <<"userBestellungen", b.gast, b.id>>
    BY Knotenarten, Zenon
  <2> HIDE DEF y
  <2> QED BY <1>1, <2>1, <2>2
<1>6. \A k, j, i : y \notin ZeileUpdates(b, k, j, i)
  <2> HIDE DEF y
  <2> QED BY <1>2, NichtInZeile
<1>7. y \in ToSet(GastUpdates(b)) <=>
        \/ y \in {Bar1Update(b), InformationUpdate(b), Gast1Update(b),
                  Gast2Update(b), Bar2Update(b)}
        \/ \E k, j, i : Stelle(b, k, j, i) /\ y \in ZeileUpdates(b, k, j, i)
  BY GastUpdatesMenge, Zenon
<1> HIDE DEF y
<1> QED BY <1>3, <1>4, <1>5, <1>6, <1>7 DEF y

\* Which updates of an order name the waiter's list.
LEMMA KellnerPlatz ==
  ASSUME NEW a, NEW b, Versendbar(b.dictionary), b.gast # Kellner,
         NEW p \in 1..Len(Updates(b)), Updates(b)[p].knoten = KellnerRef(a)
  PROVE  a.id = b.id /\ p = Len(GastUpdates(b)) + 1
<1> DEFINE x == Updates(b)[p]
<1>1. x \in ToSet(Updates(b)) /\ Len(Updates(b)) = Len(GastUpdates(b)) + 1
  BY UpdatesMenge DEF Folge
<1>2. x.knoten = <<"userBestellungen", Kellner, a.id>>
  BY DEF KellnerRef
<1>3. a.id = b.id /\ x = KellnerUpdate(b)
  BY <1>1, <1>2, ArtListe
<1>4. ASSUME p # Len(GastUpdates(b)) + 1
      PROVE  x \in ToSet(GastUpdates(b))
  <2>1. p \in 1..Len(GastUpdates(b))
    BY <1>1, <1>4, UpdatesMenge
  <2>2. x = GastUpdates(b)[p]
    BY <2>1, UpdatesMenge
  <2>3. Folge(GastUpdates(b))
    BY GastUpdatesMenge
  <2> QED BY <2>1, <2>2, <2>3 DEF Folge
<1>5. KellnerUpdate(b) \notin ToSet(GastUpdates(b))
  BY KellnerNichtGast
<1> QED BY <1>3, <1>4, <1>5

\* Nor by those before the rest.
LEMMA GastNichtItem ==
  ASSUME NEW b, Versendbar(b.dictionary), NEW y, Len(y.knoten) = 3
  PROVE  /\ y # Bar1Update(b) /\ y # InformationUpdate(b)
         /\ y \notin ToSet(ItemsUpdates(b))
<1>0. y # InformationUpdate(b)
  <2>1. Len(InformationUpdate(b).knoten) = 4
    BY Knotenarten, Tiefen, Zenon
  <2> QED BY <2>1
<1>1. y # Bar1Update(b)
  <2>1. Len(Bar1Update(b).knoten) = 2
    BY Knotenarten, Tiefen, Zenon
  <2> QED BY <2>1
<1>2. \A k, j, i : y \notin ZeileUpdates(b, k, j, i)
  BY NichtInZeile
<1> QED BY <1>0, <1>1, <1>2, ItemsUpdatesMenge

\* The order in which the updates of an order are written: the bar, the items, the
\* Information, and then the rest.
LEMMA ItemsPlatz ==
  ASSUME NEW a, Versendbar(a.dictionary)
  PROVE  /\ Folge(ItemsUpdates(a)) /\ Len(Updates(a)) \in Nat
         /\ Len(ItemsUpdates(a)) \in Nat /\ Len(ItemsUpdates(a)) + 2 <= Len(Updates(a))
         /\ Updates(a)[1] = Bar1Update(a)
         /\ Updates(a)[Len(ItemsUpdates(a)) + 2] = InformationUpdate(a)
         /\ \A i \in 1..Len(ItemsUpdates(a)) : Updates(a)[i + 1] = ItemsUpdates(a)[i]
<1> DEFINE u == Bar1Update(a)
           v == InformationUpdate(a)
           w == Gast1Update(a)
           x == Gast2Update(a)
           y == Bar2Update(a)
           items == ItemsUpdates(a)
<1>1. GastUpdates(a) = <<u>> \o items \o <<v, w, x, y>>
  BY GastUpdatesAufbau
<1> HIDE DEF u, v, w, x, y
<1>2. Folge(<<u>>) /\ Len(<<u>>) = 1 /\ <<u>>[1] = u
  BY EinsFolge
<1>3. Folge(<<v, w, x, y>>) /\ Len(<<v, w, x, y>>) = 4 /\ <<v, w, x, y>>[1] = v
  BY VierFolge
<1>4. Folge(items)
  BY ItemsUpdatesMenge
<1> DEFINE eins == <<u>>  anfang == eins \o items  ende == <<v, w, x, y>>
<1> HIDE DEF ende, items, eins
<1>5. /\ Folge(anfang) /\ Len(anfang) = 1 + Len(items) /\ Len(items) \in Nat
      /\ \A p \in 1..(1 + Len(items)) : anfang[p] = IF p <= 1 THEN u ELSE items[p - 1]
  <2>1. /\ Folge(anfang) /\ Len(anfang) = Len(eins) + Len(items) /\ Len(items) \in Nat
        /\ \A p \in 1..(Len(eins) + Len(items)) :
             anfang[p] = IF p <= Len(eins) THEN eins[p] ELSE items[p - Len(eins)]
    BY <1>2, <1>4, AnhangLesen DEF eins
  <2>2. Len(eins) = 1 /\ eins[1] = u
    BY <1>2 DEF eins
  <2>3. \A p \in 1..(1 + Len(items)) : p <= 1 => p = 1
    BY <2>1
  <2> HIDE DEF anfang
  <2> QED BY <2>1, <2>2, <2>3
<1> HIDE DEF anfang
<1>6. /\ Len(anfang \o ende) = Len(anfang) + Len(ende) /\ Len(ende) \in Nat
      /\ \A p \in 1..(Len(anfang) + Len(ende)) :
           (anfang \o ende)[p] = IF p <= Len(anfang) THEN anfang[p] ELSE ende[p - Len(anfang)]
  BY <1>3, <1>5, AnhangLesen DEF ende
<1>7. GastUpdates(a) = anfang \o ende
  BY <1>1 DEF anfang, ende, eins
<1>8. \A p \in 1..(1 + Len(items)) : p \in 1..Len(GastUpdates(a)) /\ GastUpdates(a)[p] = anfang[p]
  BY <1>5, <1>6, <1>7
<1>9. /\ Len(Updates(a)) = Len(GastUpdates(a)) + 1 /\ Len(GastUpdates(a)) \in Nat
      /\ \A p \in 1..Len(GastUpdates(a)) : Updates(a)[p] = GastUpdates(a)[p]
  BY UpdatesMenge
<1>10. 1 \in 1..(1 + Len(items)) /\ Updates(a)[1] = u
  BY <1>5, <1>8, <1>9
<1>11. ASSUME NEW i \in 1..Len(items) PROVE Updates(a)[i + 1] = items[i]
  <2>1. i + 1 \in 1..(1 + Len(items)) /\ ~(i + 1 <= 1) /\ (i + 1) - 1 = i
    BY <1>5
  <2> QED BY <1>5, <1>8, <1>9, <2>1
<1>12. Len(items) + 2 <= Len(Updates(a)) /\ Len(Updates(a)) \in Nat
  BY <1>3, <1>5, <1>6, <1>7, <1>9 DEF ende
<1>13. Updates(a)[Len(items) + 2] = v
  <2>1. /\ Len(ende) = 4 /\ ende[1] = v
        /\ Len(GastUpdates(a)) = Len(anfang) + Len(ende)
    BY <1>3, <1>6, <1>7 DEF ende
  <2> DEFINE p == Len(items) + 2
  <2>2. /\ p \in 1..(Len(anfang) + Len(ende)) /\ ~(p <= Len(anfang)) /\ p - Len(anfang) = 1
        /\ p \in 1..Len(GastUpdates(a))
    BY <1>5, <2>1
  <2> HIDE DEF p
  <2>3. (anfang \o ende)[p] = ende[1]
    BY <1>6, <2>2
  <2>4. Updates(a)[p] = v
    BY <1>7, <1>9, <2>1, <2>2, <2>3
  <2> QED BY <2>4 DEF p
<1> QED BY <1>4, <1>5, <1>10, <1>11, <1>12, <1>13 DEF items, u, v

\* Which updates write what comes last, and what has been written before.
LEMMA VorherPlatz ==
  ASSUME NEW a, NEW b, Versendbar(b.dictionary), a.gast # Kellner, b.gast # Kellner,
         NEW x, NEW k, Vorher(a, x, k),
         NEW p \in 1..Len(Updates(b)), Updates(b)[p].knoten = k
  PROVE  a.id = b.id /\ (a = b => \E r \in 1..(p - 1) : Updates(b)[r] = x)
<1>1. CASE k = KellnerRef(a) /\ x \in ToSet(GastUpdates(a))
  <2>1. a.id = b.id /\ p = Len(GastUpdates(b)) + 1
    BY <1>1, KellnerPlatz
  <2>2. ASSUME a = b PROVE \E r \in 1..(p - 1) : Updates(b)[r] = x
    <3>1. PICK r \in 1..Len(GastUpdates(b)) : GastUpdates(b)[r] = x
      <4>1. Folge(GastUpdates(b))
        BY GastUpdatesMenge
      <4> QED BY <1>1, <2>2, <4>1 DEF Folge, ToSet
    <3>2. Updates(b)[r] = x /\ Len(GastUpdates(b)) \in Nat
      BY <3>1, UpdatesMenge
    <3>3. r \in 1..(p - 1)
      BY <2>1, <3>1, <3>2
    <3> QED BY <3>2, <3>3
  <2> QED BY <2>1, <2>2
<1>2. CASE k = GastRef(a) /\ x \in ToSet(ItemsUpdates(a)) \cup {InformationUpdate(a)}
  <2> DEFINE y == Updates(b)[p]  L == Len(ItemsUpdates(b))
  <2>1. y \in ToSet(Updates(b)) /\ y.knoten = <<"userBestellungen", a.gast, a.id>>
    BY <1>2, UpdatesMenge DEF Folge, GastRef
  <2>2. a.id = b.id
    BY <2>1, ArtListe
  <2>3. ASSUME a = b PROVE \E r \in 1..(p - 1) : Updates(b)[r] = x
    <3>1. /\ Folge(ItemsUpdates(b)) /\ L \in Nat /\ L + 2 <= Len(Updates(b))
          /\ Len(Updates(b)) \in Nat /\ Updates(b)[1] = Bar1Update(b)
          /\ Updates(b)[L + 2] = InformationUpdate(b)
          /\ \A i \in 1..L : Updates(b)[i + 1] = ItemsUpdates(b)[i]
      BY ItemsPlatz
    <3>2. /\ y # Bar1Update(b) /\ y # InformationUpdate(b)
          /\ y \notin ToSet(ItemsUpdates(b))
      <4>1. Len(y.knoten) = 3
        BY <2>1, Tiefen, Zenon
      <4> HIDE DEF y
      <4> QED BY <4>1, GastNichtItem
    <3>3. ~(p \in 1..(L + 2))
      <4> SUFFICES ASSUME p \in 1..(L + 2) PROVE FALSE
        OBVIOUS
      <4>1. CASE p = 1
        BY <3>1, <3>2, <4>1
      <4>3. CASE p = L + 2
        BY <3>1, <3>2, <4>3
      <4>2. CASE p # 1 /\ p # L + 2
        <5> DEFINE i == p - 1
        <5>1. i \in 1..L /\ i + 1 = p
          BY <3>1, <4>2
        <5> HIDE DEF i
        <5>2. y = ItemsUpdates(b)[i]
          BY <3>1, <5>1
        <5>3. y \in ToSet(ItemsUpdates(b))
          BY <3>1, <5>1, <5>2 DEF Folge
        <5> QED BY <3>2, <5>3
      <4> QED BY <4>1, <4>2, <4>3
    <3>6. CASE x = InformationUpdate(b)
      <4>1. L + 2 \in 1..(p - 1)
        <5> HIDE DEF L
        <5> QED BY <3>1, <3>3
      <4> QED BY <3>1, <3>6, <4>1
    <3>7. CASE x \in ToSet(ItemsUpdates(b))
      <4>1. PICK r \in 1..L : ItemsUpdates(b)[r] = x
        BY <3>1, <3>7 DEF Folge, ToSet
      <4>2. r + 1 \in 1..(p - 1)
        <5> HIDE DEF L
        <5> QED BY <3>1, <3>3, <4>1
      <4> QED BY <3>1, <4>1, <4>2
    <3> QED BY <1>2, <2>3, <3>6, <3>7
  <2> QED BY <2>2, <2>3
<1> QED BY <1>1, <1>2 DEF Vorher

\* handleBestellung.
LEMMA SendenInv ==
  ASSUME IInv, NEW g \in Gaeste, NEW bar \in Bars, NEW d \in Auftraege,
         handleBestellung(g, bar, d)
  PROVE  IInv'
<1> DEFINE a == [id |-> Len(auftraege) + 1, gast |-> g, bar |-> bar, dictionary |-> d]
           alt == schlange[g]
           neu == schlange'[g]
<1>0. AuftraegeInv /\ SchlangeInv /\ HerkunftInv /\ Reihenfolge
  BY DEF IInv
<1>1. /\ AuftraegeInv' /\ IstAuftrag(a) /\ Versendbar(a.dictionary)
      /\ a.id \notin DOMAIN auftraege /\ a.id \in DOMAIN auftraege' /\ auftraege'[a.id] = a
      /\ DOMAIN auftraege' = DOMAIN auftraege \cup {a.id}
      /\ \A n \in DOMAIN auftraege : n \in DOMAIN auftraege' /\ auftraege'[n] = auftraege[n]
      /\ \A x : Verfasst(auftraege, x) => Verfasst(auftraege', x)
      /\ \A x \in ToSet(Updates(a)) : Verfasst(auftraege', x)
  BY <1>0, NeuVerfasst, Zenon
<1>2. /\ schlange' = [schlange EXCEPT ![g] = @ \o Updates(a)]
      /\ datenbank' = datenbank
  BY DEF handleBestellung
<1>3. a.gast # Kellner
  BY KellnerAssumption DEF KellnerAssumption
<1> HIDE DEF a
<1>4. Folge(Updates(a)) /\ Folge(alt)
  BY <1>0, <1>1, UpdatesMenge DEF SchlangeInv
<1>5. neu = alt \o Updates(a) /\ \A h \in Gaeste : h # g => schlange'[h] = schlange[h]
  BY <1>0, <1>2 DEF SchlangeInv
<1>6. schlange' = [h \in Gaeste |-> schlange'[h]]
  BY <1>0, <1>2 DEF SchlangeInv
<1>7. /\ Folge(neu) /\ Len(neu) = Len(alt) + Len(Updates(a))
      /\ Len(alt) \in Nat /\ Len(Updates(a)) \in Nat
      /\ \A p \in 1..(Len(alt) + Len(Updates(a))) :
           neu[p] = IF p <= Len(alt) THEN alt[p] ELSE Updates(a)[p - Len(alt)]
  BY <1>4, <1>5, AnhangLesen
<1>8. ASSUME NEW p \in 1..Len(neu)
      PROVE  \/ p \in 1..Len(alt) /\ neu[p] = alt[p]
             \/ p - Len(alt) \in 1..Len(Updates(a)) /\ neu[p] = Updates(a)[p - Len(alt)]
  BY <1>7
<1> HIDE DEF neu
<1>9. SchlangeInv'
  <2>1. ASSUME NEW p \in 1..Len(neu) PROVE Verfasst(auftraege', neu[p])
    <3>1. CASE p \in 1..Len(alt) /\ neu[p] = alt[p]
      BY <1>0, <1>1, <3>1 DEF SchlangeInv
    <3>2. CASE p - Len(alt) \in 1..Len(Updates(a)) /\ neu[p] = Updates(a)[p - Len(alt)]
      <4>1. neu[p] \in ToSet(Updates(a))
        BY <1>4, <3>2 DEF Folge
      <4> QED BY <1>1, <4>1
    <3> QED BY <1>8, <3>1, <3>2
  <2>2. ASSUME NEW h \in Gaeste
        PROVE  Folge(schlange'[h]) /\ \A p \in 1..Len(schlange'[h]) : Verfasst(auftraege', schlange'[h][p])
    <3>1. CASE h = g
      BY <1>7, <2>1, <3>1 DEF neu
    <3>2. CASE h # g
      BY <1>0, <1>1, <1>5, <3>2 DEF SchlangeInv
    <3> QED BY <3>1, <3>2
  <2> QED BY <1>6, <2>2 DEF SchlangeInv
<1>10. Knoten' = Knoten /\ \A x : Da(x)' <=> Da(x)
  BY <1>2 DEF Knoten, Da
<1>11. HerkunftInv'
  <2>1. ASSUME NEW k \in Knoten
        PROVE  /\ \E x : Verfasst(auftraege', x) /\ x.knoten = k
               /\ \A f \in DOMAIN datenbank[k] :
                    \E x : /\ Verfasst(auftraege', x) /\ x.knoten = k
                           /\ f \in DOMAIN x.werte /\ datenbank[k][f] = x.werte[f]
    BY <1>0, <1>1 DEF HerkunftInv
  <2> QED BY <1>2, <1>10, <2>1 DEF HerkunftInv
<1>12. Reihenfolge'
  <2> SUFFICES ASSUME NEW n \in DOMAIN auftraege', NEW x, NEW k, Vorher(auftraege'[n], x, k)
               PROVE  /\ k \in Knoten => Da(x)
                      /\ \A h \in Gaeste : \A p \in 1..Len(schlange'[h]) :
                           schlange'[h][p].knoten = k =>
                             Da(x) \/ \E q \in 1..(p - 1) : schlange'[h][q] = x
    <3>1. \A m \in DOMAIN auftraege' : \A y, l :
            Vorher(auftraege'[m], y, l) => Vorher(auftraege[m], y, l)'
      BY DEF Vorher, KellnerRef, GastRef
    <3> QED BY <1>10 DEF Reihenfolge, Zuerst, Vorher, KellnerRef, GastRef
  <2>1. CASE n \in DOMAIN auftraege
    <3>1. auftraege'[n] = auftraege[n] /\ Vorher(auftraege[n], x, k)
      BY <1>1, <2>1
    <3>2. Zuerst(x, k)
      BY <1>0, <2>1, <3>1 DEF Reihenfolge
    <3>3. ASSUME NEW p \in 1..Len(neu), neu[p].knoten = k
          PROVE  Da(x) \/ \E q \in 1..(p - 1) : neu[q] = x
      <4>1. CASE p \in 1..Len(alt) /\ neu[p] = alt[p]
        <5>1. Da(x) \/ \E q \in 1..(p - 1) : alt[q] = x
          BY <3>2, <3>3, <4>1 DEF Zuerst
        <5>2. \A q \in 1..(p - 1) : neu[q] = alt[q]
          BY <1>7, <4>1
        <5> QED BY <5>1, <5>2
      <4>2. CASE p - Len(alt) \in 1..Len(Updates(a)) /\ neu[p] = Updates(a)[p - Len(alt)]
        <5>1. auftraege[n].id = a.id
          <6>1. auftraege[n].gast # Kellner
            BY <1>0, <2>1, AuftragLesen
          <6> QED BY <1>1, <1>3, <3>1, <3>3, <4>2, <6>1, VorherPlatz
        <5>2. auftraege[n].id = n
          BY <1>0, <2>1 DEF AuftraegeInv
        <5> QED BY <1>1, <2>1, <5>1, <5>2
      <4> QED BY <1>8, <4>1, <4>2
    <3>4. \A h \in Gaeste : schlange'[h] = IF h = g THEN neu ELSE schlange[h]
      BY <1>5 DEF neu
    <3> QED BY <3>1, <3>2, <3>3, <3>4 DEF Zuerst
  <2>2. CASE n = a.id
    <3>1. auftraege'[n] = a /\ Vorher(a, x, k)
      BY <1>1, <2>2
    <3>2. \A y : Verfasst(auftraege, y) => y.knoten # k
      <4> SUFFICES ASSUME NEW m \in DOMAIN auftraege, NEW y \in ToSet(Updates(auftraege[m])),
                          y.knoten = k
                   PROVE  FALSE
        BY DEF Verfasst
      <4>1. PICK z : k = <<"userBestellungen", z, a.id>>
        BY <3>1 DEF Vorher, KellnerRef, GastRef
      <4>2. auftraege[m].id = a.id
        BY <1>0, <4>1, AuftragLesen, ArtListe
      <4>3. auftraege[m].id = m
        BY <1>0 DEF AuftraegeInv
      <4> QED BY <1>1, <4>2, <4>3
    <3>3. k \notin Knoten
      BY <1>0, <3>2 DEF HerkunftInv
    <3>4. ASSUME NEW h \in Gaeste, NEW p \in 1..Len(schlange[h])
          PROVE  schlange[h][p].knoten # k
      BY <1>0, <3>2 DEF SchlangeInv
    <3>5. ASSUME NEW p \in 1..Len(neu), neu[p].knoten = k
          PROVE  \E q \in 1..(p - 1) : neu[q] = x
      <4>1. p - Len(alt) \in 1..Len(Updates(a)) /\ neu[p] = Updates(a)[p - Len(alt)]
        BY <1>8, <3>4, <3>5
      <4> DEFINE L == Len(alt)  s == p - Len(alt)
      <4>2. s \in 1..Len(Updates(a)) /\ Updates(a)[s].knoten = k
        BY <3>5, <4>1
      <4> HIDE DEF s
      <4>3. PICK r \in 1..(s - 1) : Updates(a)[r] = x
        BY <1>1, <1>3, <3>1, <4>2, VorherPlatz
      <4>4. /\ L + r \in 1..(L + Len(Updates(a)))
            /\ ~(L + r <= L) /\ (L + r) - L = r
            /\ L + r \in 1..(p - 1)
        <5>1. L \in Nat /\ Len(Updates(a)) \in Nat
          BY <1>7
        <5>2. p - L = s /\ p \in Int
          BY DEF s
        <5> HIDE DEF L
        <5> QED BY <4>2, <4>3, <5>1, <5>2
      <4>5. neu[L + r] = x
        BY <1>7, <4>3, <4>4
      <4> QED BY <4>4, <4>5
    <3>6. \A h \in Gaeste : schlange'[h] = IF h = g THEN neu ELSE schlange[h]
      BY <1>5 DEF neu
    <3> QED BY <3>1, <3>3, <3>4, <3>5, <3>6
  <2> QED BY <1>1, <2>1, <2>2
<1> QED BY <1>1, <1>9, <1>11, <1>12 DEF IInv

LEMMA Praefix ==
  ASSUME NEW s, Folge(s), NEW n \in 1..Len(s)
  PROVE  /\ Folge(SubSeq(s, 1, n)) /\ Len(SubSeq(s, 1, n)) = n
         /\ \A i \in 1..n : SubSeq(s, 1, n)[i] = s[i]
<1> DEFINE S == ToSet(s)
<1>1. Len(s) \in Nat /\ \A i \in 1..n : s[i] \in S
  BY DEF Folge
<1> HIDE DEF S
<1>2. /\ SubSeq(s, 1, n) \in Seq(S) /\ Len(SubSeq(s, 1, n)) = IF 1 <= n THEN n - 1 + 1 ELSE 0
      /\ \A i \in 1..(n - 1 + 1) : SubSeq(s, 1, n)[i] = s[1 + i - 1]
  BY <1>1, SubSeqProperties
<1>3. \A i \in 1..n : 1 + i - 1 = i
  OBVIOUS
<1>4. n - 1 + 1 = n /\ 1 <= n
  BY <1>1
<1> QED BY <1>2, <1>3, <1>4, FolgeIhrerWerte DEF Folge

\* The first n updates of a phone reach the server.
LEMMA EintreffenInv ==
  ASSUME IInv, NEW g \in Gaeste, NEW n \in 1..Len(schlange[g]), Eingetroffen(g, n),
         auftraege' = auftraege
  PROVE  /\ HerkunftInv'
         /\ \A x : Da(x) => Da(x)'
         /\ \A x : (\E i \in 1..n : schlange[g][i] = x) => Da(x)'
         /\ \A k \in Knoten' : k \in Knoten \/ \E i \in 1..n : schlange[g][i].knoten = k
<1> DEFINE s == SubSeq(schlange[g], 1, n)
<1>0. SchlangeInv /\ HerkunftInv
  BY DEF IInv
<1>1. /\ Folge(s) /\ Len(s) = n /\ \A i \in 1..n : s[i] = schlange[g][i]
  BY <1>0, Praefix DEF SchlangeInv
<1>2. \A i \in 1..n : Verfasst(auftraege, s[i])
  <2>1. \A i \in 1..n : i \in 1..Len(schlange[g])
    BY <1>0 DEF SchlangeInv, Folge
  <2> QED BY <1>0, <1>1, <2>1 DEF SchlangeInv
<1>3. datenbank' = Ueberlagert(datenbank, s)
  BY DEF Eingetroffen
<1> HIDE DEF s
<1>4. /\ \A k : k \in DOMAIN datenbank' <=>
              k \in DOMAIN datenbank \/ \E i \in 1..Len(s) : s[i].knoten = k
      /\ \A k \in DOMAIN datenbank' : \A f :
              f \in DOMAIN datenbank'[k] <=>
                \/ k \in DOMAIN datenbank /\ f \in DOMAIN datenbank[k]
                \/ \E i \in 1..Len(s) : s[i].knoten = k /\ f \in DOMAIN s[i].werte
      /\ \A k \in DOMAIN datenbank' : \A f \in DOMAIN datenbank'[k] :
              \/ /\ k \in DOMAIN datenbank /\ f \in DOMAIN datenbank[k]
                 /\ datenbank'[k][f] = datenbank[k][f]
              \/ \E i \in 1..Len(s) :
                   /\ s[i].knoten = k /\ f \in DOMAIN s[i].werte
                   /\ datenbank'[k][f] = s[i].werte[f]
  BY <1>1, <1>3, UeberlagertLesen
<1>5. HerkunftInv'
  <2>1. ASSUME NEW k \in DOMAIN datenbank'
        PROVE  \E x : Verfasst(auftraege, x) /\ x.knoten = k
    <3>1. CASE k \in DOMAIN datenbank
      BY <1>0, <3>1 DEF HerkunftInv, Knoten
    <3>2. CASE \E i \in 1..n : s[i].knoten = k
      BY <1>2, <3>2
    <3> QED BY <1>1, <1>4, <3>1, <3>2
  <2>2. ASSUME NEW k \in DOMAIN datenbank', NEW f \in DOMAIN datenbank'[k]
        PROVE  \E x : /\ Verfasst(auftraege, x) /\ x.knoten = k
                      /\ f \in DOMAIN x.werte /\ datenbank'[k][f] = x.werte[f]
    <3>1. CASE /\ k \in DOMAIN datenbank /\ f \in DOMAIN datenbank[k]
               /\ datenbank'[k][f] = datenbank[k][f]
      BY <1>0, <3>1 DEF HerkunftInv, Knoten
    <3>2. CASE \E i \in 1..n : /\ s[i].knoten = k /\ f \in DOMAIN s[i].werte
                               /\ datenbank'[k][f] = s[i].werte[f]
      BY <1>2, <3>2
    <3> QED BY <1>1, <1>4, <3>1, <3>2
  <2> QED BY <2>1, <2>2 DEF HerkunftInv, Knoten
<1>6. \A x : Da(x) => Da(x)'
  BY <1>4 DEF Da, Knoten
<1>7. ASSUME NEW x, NEW i \in 1..n, s[i] = x
      PROVE  Da(x)'
  <2>1. x.knoten \in DOMAIN datenbank'
    BY <1>1, <1>4, <1>7
  <2>2. DOMAIN x.werte \subseteq DOMAIN datenbank'[x.knoten]
    BY <1>1, <1>4, <1>7, <2>1
  <2> QED BY <2>1, <2>2 DEF Da, Knoten
<1>8. \A k \in DOMAIN datenbank' : k \in DOMAIN datenbank \/ \E i \in 1..n : s[i].knoten = k
  BY <1>1, <1>4
<1> QED BY <1>1, <1>5, <1>6, <1>7, <1>8 DEF Knoten

\* An update reaches the server.
LEMMA BestaetigtInv ==
  ASSUME IInv, NEW g \in Gaeste, Bestaetigt(g)
  PROVE  IInv'
<1> DEFINE alt == schlange[g]  neu == Tail(alt)
<1>0. AuftraegeInv /\ SchlangeInv /\ HerkunftInv /\ Reihenfolge
  BY DEF IInv
<1>1. /\ alt # <<>> /\ Eingetroffen(g, 1) /\ auftraege' = auftraege /\ neustarts' = neustarts
      /\ schlange' = [schlange EXCEPT ![g] = Tail(@)]
  BY DEF Bestaetigt
<1>2. Folge(alt) /\ \A p \in 1..Len(alt) : Verfasst(auftraege, alt[p])
  BY <1>0 DEF SchlangeInv
<1>3. 1 \in 1..Len(alt) /\ Len(alt) \in Nat
  BY <1>1, <1>2 DEF Folge
<1>4. /\ HerkunftInv'
      /\ \A x : Da(x) => Da(x)'
      /\ \A x : (\E i \in 1..1 : schlange[g][i] = x) => Da(x)'
      /\ \A k \in Knoten' : k \in Knoten \/ \E i \in 1..1 : schlange[g][i].knoten = k
  BY <1>1, <1>3, EintreffenInv
<1>5. /\ \A x : alt[1] = x => Da(x)'
      /\ \A k \in Knoten' : k \in Knoten \/ alt[1].knoten = k
  <2>1. 1 \in 1..1 /\ \A i \in 1..1 : i = 1
    OBVIOUS
  <2> QED BY <1>4, <2>1
<1>6. /\ Folge(neu) /\ Len(neu) = Len(alt) - 1
      /\ \A p \in 1..Len(neu) : p + 1 \in 1..Len(alt) /\ neu[p] = alt[p + 1]
  <2> DEFINE S == ToSet(alt)
  <2>1. alt \in Seq(S)
    BY <1>2 DEF Folge
  <2> HIDE DEF S
  <2>2. /\ neu \in Seq(S) /\ Len(neu) = Len(alt) - 1
        /\ \A i \in 1..Len(neu) : neu[i] = alt[i + 1]
    BY <1>1, <2>1, HeadTailProperties
  <2>3. \A p \in 1..Len(neu) : p + 1 \in 1..Len(alt)
    BY <1>3, <2>2
  <2> QED BY <2>2, <2>3, FolgeIhrerWerte DEF Folge
<1>7. \A h \in Gaeste : schlange'[h] = IF h = g THEN neu ELSE schlange[h]
  BY <1>0, <1>1 DEF SchlangeInv
<1>8. schlange' = [h \in Gaeste |-> schlange'[h]]
  BY <1>0, <1>1 DEF SchlangeInv
<1> HIDE DEF alt, neu
<1>9. SchlangeInv'
  <2>1. \A p \in 1..Len(neu) : Verfasst(auftraege, neu[p])
    BY <1>2, <1>6
  <2>2. ASSUME NEW h \in Gaeste
        PROVE  /\ Folge(schlange'[h])
               /\ \A p \in 1..Len(schlange'[h]) : Verfasst(auftraege, schlange'[h][p])
    BY <1>0, <1>6, <1>7, <2>1 DEF SchlangeInv
  <2> QED BY <1>1, <1>8, <2>2 DEF SchlangeInv
<1>10. Reihenfolge'
  <2> SUFFICES ASSUME NEW n \in DOMAIN auftraege, NEW x, NEW k, Vorher(auftraege[n], x, k)
               PROVE  /\ k \in Knoten' => Da(x)'
                      /\ \A h \in Gaeste : \A p \in 1..Len(schlange'[h]) :
                           schlange'[h][p].knoten = k =>
                             Da(x)' \/ \E q \in 1..(p - 1) : schlange'[h][q] = x
    <3>1. auftraege' = auftraege
      BY <1>1
    <3> QED BY <3>1 DEF Reihenfolge, Zuerst
  <2>1. /\ k \in Knoten => Da(x)
        /\ \A h \in Gaeste : \A p \in 1..Len(schlange[h]) :
             schlange[h][p].knoten = k => Da(x) \/ \E q \in 1..(p - 1) : schlange[h][q] = x
    BY <1>0 DEF Reihenfolge, Zuerst
  <2>2. \A p \in 1..Len(alt) :
          alt[p].knoten = k => Da(x) \/ \E q \in 1..(p - 1) : alt[q] = x
    BY <2>1 DEF alt
  <2>3. k \in Knoten' => Da(x)'
    <3>1. CASE k \in Knoten
      BY <1>4, <2>1, <3>1
    <3>2. CASE alt[1].knoten = k
      <4>1. 1..(1 - 1) = {}
        OBVIOUS
      <4>2. Da(x)
        BY <1>3, <2>2, <3>2, <4>1 DEF alt
      <4> QED BY <1>4, <4>2
    <3> QED BY <1>5, <3>1, <3>2
  <2>4. ASSUME NEW p \in 1..Len(neu), neu[p].knoten = k
        PROVE  Da(x)' \/ \E q \in 1..(p - 1) : neu[q] = x
    <3>1. Da(x) \/ \E q \in 1..((p + 1) - 1) : alt[q] = x
      BY <1>6, <2>2, <2>4
    <3>2. ASSUME NEW q \in 1..((p + 1) - 1), alt[q] = x
          PROVE  Da(x)' \/ \E r \in 1..(p - 1) : neu[r] = x
      <4>1. CASE q = 1
        BY <1>5, <3>2, <4>1
      <4>2. CASE q # 1
        <5>0. Len(neu) \in Nat
          BY <1>6 DEF Folge
        <5>1. q - 1 \in 1..(p - 1) /\ q - 1 \in 1..Len(neu) /\ (q - 1) + 1 = q
          BY <3>2, <4>2, <5>0
        <5>2. neu[q - 1] = x
          BY <1>6, <3>2, <5>1
        <5> QED BY <5>1, <5>2
      <4> QED BY <4>1, <4>2
    <3> QED BY <1>4, <3>1, <3>2
  <2>5. \A h \in Gaeste : \A p \in 1..Len(schlange[h]) :
             schlange[h][p].knoten = k => Da(x)' \/ \E q \in 1..(p - 1) : schlange[h][q] = x
    BY <1>4, <2>1
  <2> QED BY <1>7, <2>3, <2>4, <2>5
<1>11. AuftraegeInv'
  BY <1>0, <1>1 DEF AuftraegeInv
<1> QED BY <1>4, <1>9, <1>10, <1>11 DEF IInv

\* Updates reach the server, and will be sent again.
LEMMA UnbestaetigtInv ==
  ASSUME IInv, NEW g \in Gaeste, Unbestaetigt(g)
  PROVE  IInv'
<1> DEFINE alt == schlange[g]
<1>0. AuftraegeInv /\ SchlangeInv /\ HerkunftInv /\ Reihenfolge
  BY DEF IInv
<1>1. auftraege' = auftraege /\ neustarts' = neustarts /\ schlange' = schlange
  BY DEF Unbestaetigt
<1>2. PICK n \in 1..MaxUnterwegs : n <= Len(alt) /\ Eingetroffen(g, n)
  BY DEF Unbestaetigt
<1>3. Len(alt) \in Nat /\ n \in 1..Len(alt)
  <2>1. Len(alt) \in Nat
    BY <1>0 DEF SchlangeInv, Folge
  <2> QED BY <1>2, <2>1, SchrankenAssumption DEF SchrankenAssumption
<1>4. /\ HerkunftInv'
      /\ \A x : Da(x) => Da(x)'
      /\ \A x : (\E i \in 1..n : schlange[g][i] = x) => Da(x)'
      /\ \A k \in Knoten' : k \in Knoten \/ \E i \in 1..n : schlange[g][i].knoten = k
  BY <1>1, <1>2, <1>3, EintreffenInv
<1>5. SchlangeInv' /\ AuftraegeInv'
  BY <1>0, <1>1 DEF SchlangeInv, AuftraegeInv
<1>6. Reihenfolge'
  <2> SUFFICES ASSUME NEW m \in DOMAIN auftraege, NEW x, NEW k, Vorher(auftraege[m], x, k)
               PROVE  /\ k \in Knoten' => Da(x)'
                      /\ \A h \in Gaeste : \A p \in 1..Len(schlange[h]) :
                           schlange[h][p].knoten = k =>
                             Da(x)' \/ \E q \in 1..(p - 1) : schlange[h][q] = x
    BY <1>1 DEF Reihenfolge, Zuerst
  <2>1. /\ k \in Knoten => Da(x)
        /\ \A h \in Gaeste : \A p \in 1..Len(schlange[h]) :
             schlange[h][p].knoten = k => Da(x) \/ \E q \in 1..(p - 1) : schlange[h][q] = x
    BY <1>0 DEF Reihenfolge, Zuerst
  <2>2. k \in Knoten' => Da(x)'
    <3>1. CASE k \in Knoten
      BY <1>4, <2>1, <3>1
    <3>2. ASSUME NEW i \in 1..n, schlange[g][i].knoten = k
          PROVE  Da(x)'
      <4>1. i \in 1..Len(schlange[g]) /\ \A q \in 1..(i - 1) : q \in 1..n
        BY <1>3
      <4>2. Da(x) \/ \E q \in 1..(i - 1) : schlange[g][q] = x
        BY <2>1, <3>2, <4>1
      <4> QED BY <1>4, <4>1, <4>2
    <3> QED BY <1>4, <3>1, <3>2
  <2> QED BY <1>4, <2>1, <2>2
<1> QED BY <1>4, <1>5, <1>6 DEF IInv

\* The app ends.
LEMMA AppBeendenInv ==
  ASSUME IInv, NEW g \in Gaeste, AppBeenden(g)
  PROVE  IInv'
<1>0. AuftraegeInv /\ SchlangeInv /\ HerkunftInv /\ Reihenfolge
  BY DEF IInv
<1>1. /\ auftraege' = auftraege /\ datenbank' = datenbank
      /\ neustarts[g] < MaxNeustarts[g]
      /\ neustarts' = [neustarts EXCEPT ![g] = @ + 1]
      /\ schlange' = [schlange EXCEPT ![g] = <<>>]
  BY DEF AppBeenden
<1>2. AuftraegeInv'
  <2>1. neustarts[g] \in Nat /\ MaxNeustarts[g] \in Nat
    BY <1>0, SchrankenAssumption DEF AuftraegeInv, SchrankenAssumption
  <2>2. neustarts' \in [Gaeste -> Nat]
    BY <1>0, <1>1, <2>1 DEF AuftraegeInv
  <2>3. \A h \in Gaeste : neustarts'[h] \in 0..MaxNeustarts[h]
    BY <1>0, <1>1, <2>1 DEF AuftraegeInv
  <2> QED BY <1>0, <1>1, <2>2, <2>3 DEF AuftraegeInv
<1>3. /\ schlange' = [h \in Gaeste |-> schlange'[h]]
      /\ \A h \in Gaeste : schlange'[h] = IF h = g THEN <<>> ELSE schlange[h]
  BY <1>0, <1>1 DEF SchlangeInv
<1>4. Folge(<<>>) /\ 1..Len(<<>>) = {}
  BY DEF Folge
<1>5. SchlangeInv'
  <2>1. \A h \in Gaeste : /\ Folge(schlange'[h])
                          /\ \A p \in 1..Len(schlange'[h]) : Verfasst(auftraege, schlange'[h][p])
    BY <1>0, <1>3, <1>4 DEF SchlangeInv
  <2> QED BY <1>1, <1>3, <2>1 DEF SchlangeInv
<1>6. HerkunftInv' /\ Knoten' = Knoten /\ \A x : Da(x)' <=> Da(x)
  BY <1>0, <1>1 DEF HerkunftInv, Knoten, Da
<1>7. Reihenfolge'
  <2>1. \A x, k : Zuerst(x, k) => Zuerst(x, k)'
    BY <1>1, <1>3, <1>4, <1>6 DEF Zuerst
  <2> QED BY <1>0, <1>1, <2>1 DEF Reihenfolge
<1> QED BY <1>2, <1>5, <1>6, <1>7 DEF IInv

LEMMA NextInv == IInv /\ [Next]_vars => IInv'
<1> SUFFICES ASSUME IInv, [Next]_vars PROVE IInv'
  OBVIOUS
<1>1. CASE Next
  BY <1>1, SendenInv, BestaetigtInv, UnbestaetigtInv, AppBeendenInv DEF Next
<1>2. CASE UNCHANGED vars
  <2>1. /\ schlange' = schlange /\ datenbank' = datenbank
        /\ auftraege' = auftraege /\ neustarts' = neustarts
    BY <1>2 DEF vars
  <2>2. AuftraegeInv' /\ SchlangeInv'
    BY <2>1 DEF IInv, AuftraegeInv, SchlangeInv
  <2>3. Knoten' = Knoten /\ \A x : Da(x)' <=> Da(x)
    BY <2>1 DEF Knoten, Da
  <2>4. HerkunftInv'
    BY <2>1, <2>3 DEF IInv, HerkunftInv
  <2>5. Reihenfolge'
    <3>1. \A x, k : Zuerst(x, k) => Zuerst(x, k)'
      BY <2>1, <2>3 DEF Zuerst
    <3> QED BY <2>1, <3>1 DEF IInv, Reihenfolge
  <2> QED BY <2>2, <2>4, <2>5 DEF IInv
<1> QED BY <1>1, <1>2

\* For every table, order and queue: the database holds what was sent, and the
\* waiter is told last.
THEOREM SpecIInv == Spec => []IInv
<1> QED BY InitInv, NextInv, PTL DEF Spec

-----------------------------------------------------------------------------
(* What can be read.                                                       *)

LEMMA KnotenLesen ==
  ASSUME IInv, NEW k \in Knoten
  PROVE  \E m \in DOMAIN auftraege : \E x \in ToSet(Updates(auftraege[m])) : x.knoten = k
  BY DEF IInv, HerkunftInv, Verfasst

LEMMA FeldHerkunft ==
  ASSUME IInv, NEW k \in Knoten, NEW f \in DOMAIN datenbank[k]
  PROVE  \E m \in DOMAIN auftraege : \E x \in ToSet(Updates(auftraege[m])) :
           x.knoten = k /\ f \in DOMAIN x.werte /\ datenbank[k][f] = x.werte[f]
  BY DEF IInv, HerkunftInv, Verfasst

\* In every state the types are right, and every node is at its depth.
THEOREM TypKorrekt == Spec => []TypeOK
<1>1. IInv => TypeOK
  <2> SUFFICES ASSUME IInv PROVE TypeOK
    OBVIOUS
  <2>1. ASSUME NEW k \in Knoten
        PROVE  \/ k[1] = "Users" /\ Len(k) = 2
               \/ k[1] = "userBestellungen" /\ Len(k) = 3
               \/ /\ k[1] = "Bestellungen"
                  /\ \/ Len(k) = 4 /\ k[4] = "Information"
                     \/ Len(k) = 6
                     \/ Len(k) = 8 /\ k[7] = "Extras"
    <3>1. PICK m \in DOMAIN auftraege : \E x \in ToSet(Updates(auftraege[m])) : x.knoten = k
      BY KnotenLesen
    <3> DEFINE a == auftraege[m]
    <3>2. PICK x \in ToSet(Updates(a)) : x.knoten = k
      BY <3>1
    <3>3. Versendbar(a.dictionary)
      BY AuftragLesen DEF IInv
    <3> HIDE DEF a
    <3>4. \A u : <<"Users", u>>[1] = "Users"
      OBVIOUS
    <3>5. \A u, v : <<"userBestellungen", u, v>>[1] = "userBestellungen"
      OBVIOUS
    <3>6. \A u, v : LET y == <<"Bestellungen", u, v, "Information">>
                    IN  y[1] = "Bestellungen" /\ y[4] = "Information"
      OBVIOUS
    <3>7. \A u, j, i : Item(a, u, j, i)[1] = "Bestellungen"
      BY DEF Item
    <3>8. \A u, j, i, n : Extra(a, u, j, i, n)[1] = "Bestellungen" /\ Extra(a, u, j, i, n)[7] = "Extras"
      BY DEF Extra
    <3>9. \/ k = <<"Users", a.gast>> /\ Len(k) = 2
          \/ k = <<"userBestellungen", a.gast, a.id>> /\ Len(k) = 3
          \/ k = <<"userBestellungen", Kellner, a.id>> /\ Len(k) = 3
          \/ k = <<"Bestellungen", a.bar, a.id, "Information">> /\ Len(k) = 4
          \/ \E u, j, i : k = Item(a, u, j, i) /\ Len(k) = 6
          \/ \E u, j, i, n : k = Extra(a, u, j, i, n) /\ Len(k) = 8
      BY <3>2, <3>3, ArtenTiefen
    <3> QED BY <3>4, <3>5, <3>6, <3>7, <3>8, <3>9
  <2>2. ASSUME NEW n \in DOMAIN auftraege
        PROVE  auftraege[n] \in [id : {n}, gast : Gaeste, bar : Bars, dictionary : Auftraege]
    <3>1. IstAuftrag(auftraege[n]) /\ auftraege[n].id = n
      BY AuftragLesen DEF IInv
    <3> QED BY <3>1 DEF IstAuftrag
  <2> QED BY <2>1, <2>2 DEF TypeOK, IInv, AuftraegeInv
<1> QED BY <1>1, SpecIInv, PTL

\* What has arrived when the order is in the waiter's list.
LEMMA AllesDa ==
  ASSUME IInv, NEW n \in DOMAIN auftraege, BeimKellner(auftraege[n]),
         NEW x, x \in ToSet(GastUpdates(auftraege[n]))
  PROVE  Da(x)
<1>1. Vorher(auftraege[n], x, KellnerRef(auftraege[n])) /\ KellnerRef(auftraege[n]) \in Knoten
  BY DEF Vorher, BeimKellner, Geschrieben
<1> QED BY <1>1 DEF IInv, Reihenfolge, Zuerst

LEMMA KellnerNachGastInv ==
  ASSUME IInv, NEW n \in DOMAIN auftraege, BeimKellner(auftraege[n])
  PROVE  /\ BeimGast(auftraege[n])
         /\ Wert(GastRef(auftraege[n]), "Barname", "") = auftraege[n].bar
         /\ Geschrieben(<<"Users", auftraege[n].gast>>, "aktuelleBar")
         /\ Wert(BestellungRef(auftraege[n]) \o <<"Information">>, "fromUserID", "")
              = auftraege[n].gast
<1> DEFINE a == auftraege[n]
<1>0. AuftraegeInv
  BY DEF IInv
<1>1. /\ Versendbar(a.dictionary) /\ a.id = n /\ a.gast # Kellner
      /\ \A m \in DOMAIN auftraege : Versendbar(auftraege[m].dictionary) /\ auftraege[m].id = m
  BY <1>0, AuftragLesen
<1>2. /\ Gast2Update(a) \in ToSet(GastUpdates(a))
      /\ Bar2Update(a) \in ToSet(GastUpdates(a))
      /\ InformationUpdate(a) \in ToSet(GastUpdates(a))
  BY <1>1, GastUpdatesMenge
<1>3. Da(Gast2Update(a)) /\ Da(Bar2Update(a)) /\ Da(InformationUpdate(a))
  BY <1>2, AllesDa
<1> HIDE DEF a
<1>4. /\ Gast2Update(a).knoten = GastRef(a) /\ Gast2Update(a).werte = Information(a)
      /\ Bar2Update(a).knoten = <<"Users", a.gast>>
      /\ Bar2Update(a).werte = [aktuelleBar |-> a.bar]
      /\ InformationUpdate(a).knoten = <<"Bestellungen", a.bar, a.id, "Information">>
      /\ InformationUpdate(a).werte = Information(a)
      /\ Gast1Update(a).werte = [BestellungsID |-> a.id, abgeschlossen |-> FALSE]
  BY DEF Gast1Update, Gast2Update, Bar2Update, InformationUpdate, Update
<1>5. /\ DOMAIN Information(a) = {"Barname", "fromUserID", "Status"}
      /\ Information(a)["Barname"] = a.bar /\ Information(a)["fromUserID"] = a.gast
      /\ DOMAIN [aktuelleBar |-> a.bar] = {"aktuelleBar"}
      /\ DOMAIN [BestellungsID |-> a.id, abgeschlossen |-> FALSE] = {"BestellungsID", "abgeschlossen"}
  BY DEF Information
<1>6. /\ GastRef(a) \in Knoten /\ {"Barname", "fromUserID", "Status"} \subseteq DOMAIN datenbank[GastRef(a)]
      /\ <<"Users", a.gast>> \in Knoten /\ "aktuelleBar" \in DOMAIN datenbank[<<"Users", a.gast>>]
  BY <1>3, <1>4, <1>5 DEF Da
<1>7. BeimGast(a) /\ Geschrieben(<<"Users", a.gast>>, "aktuelleBar") /\ Geschrieben(GastRef(a), "Barname")
  BY <1>6 DEF BeimGast, Geschrieben
<1>8. datenbank[GastRef(a)]["Barname"] = a.bar
  <2>1. PICK m \in DOMAIN auftraege : \E x \in ToSet(Updates(auftraege[m])) :
          /\ x.knoten = GastRef(a) /\ "Barname" \in DOMAIN x.werte
          /\ datenbank[GastRef(a)]["Barname"] = x.werte["Barname"]
    BY <1>6, FeldHerkunft
  <2>2. PICK x \in ToSet(Updates(auftraege[m])) :
          /\ x.knoten = GastRef(a) /\ "Barname" \in DOMAIN x.werte
          /\ datenbank[GastRef(a)]["Barname"] = x.werte["Barname"]
    BY <2>1
  <2>3. /\ auftraege[m].id = a.id
        /\ \/ x = Gast1Update(auftraege[m]) \/ x = Gast2Update(auftraege[m])
           \/ a.gast = Kellner
    BY <1>1, <2>2, ArtListe DEF GastRef
  <2>4. auftraege[m] = a
    BY <1>1, <2>3 DEF a
  <2>5. x = Gast2Update(a)
    BY <1>1, <1>4, <1>5, <2>2, <2>3, <2>4
  <2> QED BY <1>4, <1>5, <2>2, <2>5
<1> DEFINE info == <<"Bestellungen", a.bar, a.id, "Information">>
<1>9. info \in Knoten /\ "fromUserID" \in DOMAIN datenbank[info]
  BY <1>3, <1>4, <1>5 DEF Da
<1>10. datenbank[info]["fromUserID"] = a.gast
  <2>1. PICK m \in DOMAIN auftraege : \E x \in ToSet(Updates(auftraege[m])) :
          /\ x.knoten = info /\ "fromUserID" \in DOMAIN x.werte
          /\ datenbank[info]["fromUserID"] = x.werte["fromUserID"]
    BY <1>9, FeldHerkunft
  <2>2. PICK x \in ToSet(Updates(auftraege[m])) :
          /\ x.knoten = info /\ "fromUserID" \in DOMAIN x.werte
          /\ datenbank[info]["fromUserID"] = x.werte["fromUserID"]
    BY <2>1
  <2>3. Verschieden(a, auftraege[m])
    BY <1>0, NummernVerschieden DEF a
  <2>4. x = InformationUpdate(a)
    BY <1>1, <2>2, <2>3, ArtInformation
  <2> QED BY <1>4, <1>5, <2>2, <2>4
<1>11. BestellungRef(a) \o <<"Information">> = info
  <2> DEFINE wurzel == "Bestellungen"  bar == a.bar  id == a.id  inf == "Information"
  <2> HIDE DEF wurzel, bar, id, inf
  <2>1. <<wurzel, bar, id>> \o <<inf>> = <<wurzel, bar, id, inf>>
    BY DreiEins
  <2> QED BY <2>1, Zenon DEF BestellungRef, wurzel, bar, id, inf
<1>12. Wert(BestellungRef(a) \o <<"Information">>, "fromUserID", "") = a.gast
  <2> HIDE DEF info
  <2> QED BY <1>9, <1>10, <1>11 DEF Wert, Geschrieben
<1> QED BY <1>7, <1>8, <1>12 DEF Wert, a

\* A guest never misses an order that the waiter has.
THEOREM GastVorKellner == Spec => []KellnerNachGast
<1>1. IInv => KellnerNachGast
  BY KellnerNachGastInv DEF KellnerNachGast
<1> QED BY <1>1, SpecIInv, PTL

\* What the waiter reads of a line, and what was sent.
ZeilenInhalt(a, k, j, i) ==
  [Kategorie |-> a.dictionary[k].Kategorie,
   Unterkategorie |-> a.dictionary[k].Unterkategorie[j], item |-> <<j, i>>,
   Name      |-> Zelle(a, k, j, i, "ItemsNamen"),
   Menge     |-> Zelle(a, k, j, i, "ItemsMengen"),
   Preis     |-> Zelle(a, k, j, i, "ItemsPreise"),
   Kommentar |-> Zelle(a, k, j, i, "ItemsKommentar"),
   Extras    |-> {<<Zelle(a, k, j, i, "ExtrasName")[n], Zelle(a, k, j, i, "ExtrasPreise")[n]>> :
                    n \in DOMAIN Zelle(a, k, j, i, "ExtrasName")}]

LEMMA BestelltLesen ==
  ASSUME NEW a, Versendbar(a.dictionary), NEW y
  PROVE  y \in Bestellt(a) <=> \E k, j, i : Stelle(a, k, j, i) /\ y = ZeilenInhalt(a, k, j, i)
<1> DEFINE d == a.dictionary
           Z(s, u, i) ==
             [Kategorie |-> s.Kategorie, Unterkategorie |-> s.Unterkategorie[u], item |-> <<u, i>>,
              Name      |-> s.felder["ItemsNamen"][u][i],
              Menge     |-> s.felder["ItemsMengen"][u][i],
              Preis     |-> s.felder["ItemsPreise"][u][i],
              Kommentar |-> s.felder["ItemsKommentar"][u][i],
              Extras    |-> {<<s.felder["ExtrasName"][u][i][n], s.felder["ExtrasPreise"][u][i][n]>> :
                               n \in DOMAIN s.felder["ExtrasName"][u][i]}]
<1>1. Bestellt(a) = UNION {UNION {{Z(s, u, i) : i \in DOMAIN s.felder["ItemsNamen"][u]} :
                                     u \in DOMAIN s.Unterkategorie} : s \in ToSet(d)}
  BY Zenon DEF Bestellt
<1>2. \A k, j, i : Z(d[k], j, i) = ZeilenInhalt(a, k, j, i)
  BY ZenonT(20) DEF ZeilenInhalt, Zelle
<1> HIDE DEF Z
<1>3. y \in Bestellt(a) <=>
        \E s \in ToSet(d) : \E u \in DOMAIN s.Unterkategorie :
          \E i \in DOMAIN s.felder["ItemsNamen"][u] : y = Z(s, u, i)
  BY <1>1
<1>4. ToSet(d) = {d[k] : k \in DOMAIN d}
  BY DEF ToSet
<1> HIDE DEF d
<1>5. y \in Bestellt(a) <=>
        \E k \in DOMAIN d : \E u \in DOMAIN d[k].Unterkategorie :
          \E i \in DOMAIN d[k].felder["ItemsNamen"][u] : y = Z(d[k], u, i)
  BY <1>3, <1>4
<1>6. \A k, j, i : Stelle(a, k, j, i) <=>
        /\ k \in DOMAIN d /\ j \in DOMAIN d[k].Unterkategorie
        /\ i \in DOMAIN d[k].felder["ItemsNamen"][j]
  BY Zenon DEF Stelle, d
<1> QED BY <1>2, <1>5, <1>6

\* A field of a node that only one order writes has the value that was sent.
LEMMA ItemWert ==
  ASSUME IInv, NEW n \in DOMAIN auftraege, BeimKellner(auftraege[n]),
         NEW k, NEW j, NEW i, Stelle(auftraege[n], k, j, i)
  PROVE  LET a == auftraege[n]  item == Item(a, k, j, i) IN
         /\ item \in Knoten
         /\ Wert(item, "Name", "") = Zelle(a, k, j, i, "ItemsNamen")
         /\ Wert(item, "Menge", 0) = Zelle(a, k, j, i, "ItemsMengen")
         /\ Wert(item, "Preis", 0) = Zelle(a, k, j, i, "ItemsPreise")
         /\ Wert(item, "Kommentar", "kein Kommentar") = Zelle(a, k, j, i, "ItemsKommentar")
<1> DEFINE a == auftraege[n]  item == Item(a, k, j, i)
<1>0. AuftraegeInv
  BY DEF IInv
<1>1. /\ Versendbar(a.dictionary) /\ a.id = n
      /\ \A m \in DOMAIN auftraege : Versendbar(auftraege[m].dictionary)
      /\ \A m \in DOMAIN auftraege : Verschieden(a, auftraege[m])
  BY <1>0, AuftragLesen, NummernVerschieden
<1>2. Stelle(a, k, j, i)
  OBVIOUS
<1>3. ASSUME NEW x \in ItemUpdate5(a, k, j, i) PROVE Da(x)
  <2>1. x \in ToSet(Zeile5(a, k, j, i))
    BY FuenfFolge DEF Zeile5, ItemUpdate5
  <2>2. x \in ToSet(GastUpdates(a))
    <3> HIDE DEF a
    <3> QED BY <1>1, <1>2, <2>1, GastUpdatesMenge DEF ZeileUpdates
  <2> QED BY <2>2, AllesDa
<1> HIDE DEF a, item
<1>4. ASSUME NEW f, NEW x \in ItemUpdate5(a, k, j, i), f \in DOMAIN x.werte
      PROVE  /\ Geschrieben(item, f)
             /\ \E y \in ItemUpdate5(a, k, j, i) :
                  f \in DOMAIN y.werte /\ datenbank[item][f] = y.werte[f]
  <2>1. x.knoten = item
    BY Knotenarten, ZenonT(20) DEF item
  <2>2. item \in Knoten /\ f \in DOMAIN datenbank[item]
    BY <1>3, <1>4, <2>1 DEF Da
  <2>3. PICK m \in DOMAIN auftraege : \E y \in ToSet(Updates(auftraege[m])) :
          y.knoten = item /\ f \in DOMAIN y.werte /\ datenbank[item][f] = y.werte[f]
    BY <2>2, FeldHerkunft
  <2>4. PICK y \in ToSet(Updates(auftraege[m])) :
          y.knoten = item /\ f \in DOMAIN y.werte /\ datenbank[item][f] = y.werte[f]
    BY <2>3
  <2>5. y \in ItemUpdate5(a, k, j, i)
    BY <1>1, <1>2, <2>4, ArtItem DEF item
  <2> QED BY <2>2, <2>4, <2>5 DEF Geschrieben
<1> DEFINE w1 == [Name      |-> Zelle(a, k, j, i, "ItemsNamen")]
           w2 == [Menge     |-> Zelle(a, k, j, i, "ItemsMengen")]
           w3 == [Preis     |-> Zelle(a, k, j, i, "ItemsPreise")]
           w4 == [Kommentar |-> Zelle(a, k, j, i, "ItemsKommentar")]
           w5 == [bestellungItemId |-> <<j, i>>]
<1>5. \A y : y \in ItemUpdate5(a, k, j, i) <=>
         \/ y = Update(item, w1) \/ y = Update(item, w2) \/ y = Update(item, w3)
         \/ y = Update(item, w4) \/ y = Update(item, w5)
  BY DEF ItemUpdate5, item
<1>6. \A w : Update(item, w).werte = w
  BY DEF Update
<1>7. /\ DOMAIN w1 = {"Name"} /\ DOMAIN w2 = {"Menge"} /\ DOMAIN w3 = {"Preis"}
      /\ DOMAIN w4 = {"Kommentar"} /\ DOMAIN w5 = {"bestellungItemId"}
  OBVIOUS
<1>8. /\ w1["Name"] = Zelle(a, k, j, i, "ItemsNamen")
      /\ w2["Menge"] = Zelle(a, k, j, i, "ItemsMengen")
      /\ w3["Preis"] = Zelle(a, k, j, i, "ItemsPreise")
      /\ w4["Kommentar"] = Zelle(a, k, j, i, "ItemsKommentar")
  OBVIOUS
<1> HIDE DEF w1, w2, w3, w4, w5
<1>9. \A y \in ItemUpdate5(a, k, j, i) :
        \/ y.werte = w1 \/ y.werte = w2 \/ y.werte = w3 \/ y.werte = w4 \/ y.werte = w5
  BY <1>5, <1>6
<1>10. Geschrieben(item, "Name") /\ datenbank[item]["Name"] = w1["Name"]
  <2>1. Update(item, w1) \in ItemUpdate5(a, k, j, i) /\ "Name" \in DOMAIN Update(item, w1).werte
    BY <1>5, <1>6, <1>7
  <2>2. PICK y \in ItemUpdate5(a, k, j, i) :
          "Name" \in DOMAIN y.werte /\ datenbank[item]["Name"] = y.werte["Name"]
    BY <1>4, <2>1
  <2>3. y.werte = w1
    BY <1>7, <1>9, <2>2
  <2> QED BY <1>4, <2>1, <2>2, <2>3
<1>11. Geschrieben(item, "Menge") /\ datenbank[item]["Menge"] = w2["Menge"]
  <2>1. Update(item, w2) \in ItemUpdate5(a, k, j, i) /\ "Menge" \in DOMAIN Update(item, w2).werte
    BY <1>5, <1>6, <1>7
  <2>2. PICK y \in ItemUpdate5(a, k, j, i) :
          "Menge" \in DOMAIN y.werte /\ datenbank[item]["Menge"] = y.werte["Menge"]
    BY <1>4, <2>1
  <2>3. y.werte = w2
    BY <1>7, <1>9, <2>2
  <2> QED BY <1>4, <2>1, <2>2, <2>3
<1>12. Geschrieben(item, "Preis") /\ datenbank[item]["Preis"] = w3["Preis"]
  <2>1. Update(item, w3) \in ItemUpdate5(a, k, j, i) /\ "Preis" \in DOMAIN Update(item, w3).werte
    BY <1>5, <1>6, <1>7
  <2>2. PICK y \in ItemUpdate5(a, k, j, i) :
          "Preis" \in DOMAIN y.werte /\ datenbank[item]["Preis"] = y.werte["Preis"]
    BY <1>4, <2>1
  <2>3. y.werte = w3
    BY <1>7, <1>9, <2>2
  <2> QED BY <1>4, <2>1, <2>2, <2>3
<1>13. Geschrieben(item, "Kommentar") /\ datenbank[item]["Kommentar"] = w4["Kommentar"]
  <2>1. Update(item, w4) \in ItemUpdate5(a, k, j, i) /\ "Kommentar" \in DOMAIN Update(item, w4).werte
    BY <1>5, <1>6, <1>7
  <2>2. PICK y \in ItemUpdate5(a, k, j, i) :
          "Kommentar" \in DOMAIN y.werte /\ datenbank[item]["Kommentar"] = y.werte["Kommentar"]
    BY <1>4, <2>1
  <2>3. y.werte = w4
    BY <1>7, <1>9, <2>2
  <2> QED BY <1>4, <2>1, <2>2, <2>3
<1>14. item \in Knoten
  BY <1>10 DEF Geschrieben
<1> QED BY <1>8, <1>10, <1>11, <1>12, <1>13, <1>14 DEF Wert, a, item

\* An extra is read as it was sent.
ExtraGelesen(a, k, j, i, e) ==
  /\ Extra(a, k, j, i, e) \in Knoten
  /\ Wert(Extra(a, k, j, i, e), "Name", "") = Zelle(a, k, j, i, "ExtrasName")[e]
  /\ Wert(Extra(a, k, j, i, e), "Preis", 0) = Zelle(a, k, j, i, "ExtrasPreise")[e]

LEMMA ExtraWert ==
  ASSUME IInv, NEW n \in DOMAIN auftraege, BeimKellner(auftraege[n]),
         NEW k, NEW j, NEW i, NEW e, ExtraStelle(auftraege[n], k, j, i, e)
  PROVE  ExtraGelesen(auftraege[n], k, j, i, e)
<1> DEFINE a == auftraege[n]  extra == Extra(a, k, j, i, e)
           x1 == ExtraName(a, k, j, i, e)  x2 == ExtraPreis(a, k, j, i, e)
<1>0. AuftraegeInv
  BY DEF IInv
<1>1. /\ Versendbar(a.dictionary) /\ a.id = n
      /\ \A m \in DOMAIN auftraege : Versendbar(auftraege[m].dictionary)
      /\ \A m \in DOMAIN auftraege : Verschieden(a, auftraege[m])
  BY <1>0, AuftragLesen, NummernVerschieden
<1>2. ExtraStelle(a, k, j, i, e)
  OBVIOUS
<1>3. Da(x1) /\ Da(x2)
  <2>1. Stelle(a, k, j, i) /\ x1 \in ZeileUpdates(a, k, j, i) /\ x2 \in ZeileUpdates(a, k, j, i)
    BY <1>2 DEF ZeileUpdates, ExtraStelle
  <2>2. x1 \in ToSet(GastUpdates(a)) /\ x2 \in ToSet(GastUpdates(a))
    <3> HIDE DEF a, x1, x2
    <3> QED BY <1>1, <2>1, GastUpdatesMenge
  <2> QED BY <2>2, AllesDa
<1>4. /\ x1.knoten = extra /\ x2.knoten = extra
      /\ DOMAIN x1.werte = {"Name"} /\ x1.werte["Name"] = Zelle(a, k, j, i, "ExtrasName")[e]
      /\ DOMAIN x2.werte = {"Preis"} /\ x2.werte["Preis"] = Zelle(a, k, j, i, "ExtrasPreise")[e]
  BY DEF ExtraName, ExtraPreis, Update
<1> HIDE DEF a, extra, x1, x2
<1>5. extra \in Knoten /\ "Name" \in DOMAIN datenbank[extra] /\ "Preis" \in DOMAIN datenbank[extra]
  BY <1>3, <1>4 DEF Da
<1>6. ASSUME NEW f \in DOMAIN datenbank[extra]
      PROVE  \E y \in {x1, x2} : f \in DOMAIN y.werte /\ datenbank[extra][f] = y.werte[f]
  <2>1. PICK m \in DOMAIN auftraege : \E y \in ToSet(Updates(auftraege[m])) :
          y.knoten = extra /\ f \in DOMAIN y.werte /\ datenbank[extra][f] = y.werte[f]
    BY <1>5, FeldHerkunft
  <2>2. PICK y \in ToSet(Updates(auftraege[m])) :
          y.knoten = extra /\ f \in DOMAIN y.werte /\ datenbank[extra][f] = y.werte[f]
    BY <2>1
  <2>3. y \in {x1, x2}
    BY <1>1, <1>2, <2>2, ArtExtra DEF extra, x1, x2
  <2> QED BY <2>2, <2>3
<1>7. datenbank[extra]["Name"] = x1.werte["Name"]
  <2>1. PICK y \in {x1, x2} : "Name" \in DOMAIN y.werte /\ datenbank[extra]["Name"] = y.werte["Name"]
    BY <1>5, <1>6
  <2>2. y = x1
    BY <1>4, <2>1
  <2> QED BY <2>1, <2>2
<1>8. datenbank[extra]["Preis"] = x2.werte["Preis"]
  <2>1. PICK y \in {x1, x2} : "Preis" \in DOMAIN y.werte /\ datenbank[extra]["Preis"] = y.werte["Preis"]
    BY <1>5, <1>6
  <2>2. y = x2
    BY <1>4, <2>1
  <2> QED BY <2>1, <2>2
<1> QED BY <1>4, <1>5, <1>7, <1>8 DEF Wert, Geschrieben, ExtraGelesen, a, extra

\* The node of an item or of an extra of order a.
InAuftrag(a, y) ==
  \/ \E k, j, i : Stelle(a, k, j, i) /\ y = Item(a, k, j, i)
  \/ \E k, j, i, e : ExtraStelle(a, k, j, i, e) /\ y = Extra(a, k, j, i, e)

\* What lies below the node of order a.
Unter(a) == {z \in Knoten : Len(z) > 4 /\ SubSeq(z, 1, 3) = BestellungRef(a)}

\* What lies in the node of an order: its items and their extras.
LEMMA UnterLesen ==
  ASSUME IInv, NEW n \in DOMAIN auftraege, BeimKellner(auftraege[n]), NEW y
  PROVE  y \in Unter(auftraege[n]) <=> InAuftrag(auftraege[n], y)
<1> DEFINE a == auftraege[n]
<1>1. ASSUME y \in Knoten, Len(y) > 4, SubSeq(y, 1, 3) = BestellungRef(a)
      PROVE  \/ \E k, j, i : Stelle(a, k, j, i) /\ y = Item(a, k, j, i)
             \/ \E k, j, i, e : ExtraStelle(a, k, j, i, e) /\ y = Extra(a, k, j, i, e)
  <2>1. PICK m \in DOMAIN auftraege : \E x \in ToSet(Updates(auftraege[m])) : x.knoten = y
    BY <1>1, KnotenLesen
  <2>2. PICK x \in ToSet(Updates(auftraege[m])) : x.knoten = y
    BY <2>1
  <2>3. Versendbar(auftraege[m].dictionary) /\ Verschieden(a, auftraege[m])
    BY AuftragLesen, NummernVerschieden DEF IInv
  <2> HIDE DEF a
  <2>4. \/ \E k, j, i : Stelle(a, k, j, i) /\ x.knoten = Item(a, k, j, i)
        \/ \E k, j, i, e : ExtraStelle(a, k, j, i, e) /\ x.knoten = Extra(a, k, j, i, e)
    BY <1>1, <2>2, <2>3, ArtUnter
  <2> QED BY <2>2, <2>4
<1>2. ASSUME NEW k, NEW j, NEW i, Stelle(a, k, j, i), y = Item(a, k, j, i)
      PROVE  y \in Knoten /\ Len(y) = 6 /\ SubSeq(y, 1, 3) = BestellungRef(a)
  BY <1>2, ItemWert, Tiefen, AnfangItem
<1>3. ASSUME NEW k, NEW j, NEW i, NEW e, ExtraStelle(a, k, j, i, e), y = Extra(a, k, j, i, e)
      PROVE  y \in Knoten /\ Len(y) = 8 /\ SubSeq(y, 1, 3) = BestellungRef(a)
  <2>1. ExtraGelesen(a, k, j, i, e)
    BY <1>3, ExtraWert, Zenon
  <2> HIDE DEF a
  <2> QED BY <1>3, <2>1, Tiefen, AnfangExtra DEF ExtraGelesen
<1> HIDE DEF a
<1>4. \A l : l = 6 \/ l = 8 => l > 4
  OBVIOUS
<1>5. y \in Unter(a) <=> y \in Knoten /\ Len(y) > 4 /\ SubSeq(y, 1, 3) = BestellungRef(a)
  BY DEF Unter
<1> QED BY <1>1, <1>2, <1>3, <1>4, <1>5 DEF a, InAuftrag

\* The extras of a line, by their nodes.
ExtrasVon(a, k, j, i) ==
  \A y : y \in {e \in Unter(a) : Len(e) = 8 /\ SubSeq(e, 1, 6) = Item(a, k, j, i)} <=>
         \E e \in 1..Len(Zelle(a, k, j, i, "ExtrasName")) : y = Extra(a, k, j, i, e)

LEMMA ExtrasLesen ==
  ASSUME NEW a, Versendbar(a.dictionary), NEW k, NEW j, NEW i, Stelle(a, k, j, i),
         \A y : y \in Unter(a) <=> InAuftrag(a, y)
  PROVE  ExtrasVon(a, k, j, i)
<1> SUFFICES ASSUME NEW y
             PROVE  y \in {e \in Unter(a) : Len(e) = 8 /\ SubSeq(e, 1, 6) = Item(a, k, j, i)} <=>
                    \E e \in 1..Len(Zelle(a, k, j, i, "ExtrasName")) : y = Extra(a, k, j, i, e)
  BY DEF ExtrasVon
<1>1. ASSUME y \in Unter(a), Len(y) = 8, SubSeq(y, 1, 6) = Item(a, k, j, i)
      PROVE  \E e \in 1..Len(Zelle(a, k, j, i, "ExtrasName")) : y = Extra(a, k, j, i, e)
  <2>1. ASSUME NEW kk, NEW jj, NEW ii, y = Item(a, kk, jj, ii) PROVE FALSE
    BY <1>1, <2>1, Tiefen
  <2>2. PICK kk, jj, ii, e : ExtraStelle(a, kk, jj, ii, e) /\ y = Extra(a, kk, jj, ii, e)
    BY <1>1, <2>1 DEF InAuftrag
  <2>3. Item(a, kk, jj, ii) = Item(a, k, j, i)
    BY <1>1, <2>2, AnfangExtra
  <2>4. jj = j /\ ii = i /\ a.dictionary[kk].Kategorie = a.dictionary[k].Kategorie
    BY <2>3, ItemGleich
  <2>5. kk = k
    BY <2>2, <2>4, KategorieFinden DEF Stelle, ExtraStelle
  <2> QED BY <2>2, <2>4, <2>5 DEF ExtraStelle
<1>2. ASSUME NEW e \in 1..Len(Zelle(a, k, j, i, "ExtrasName")), y = Extra(a, k, j, i, e)
      PROVE  y \in Unter(a) /\ Len(y) = 8 /\ SubSeq(y, 1, 6) = Item(a, k, j, i)
  <2>1. ExtraStelle(a, k, j, i, e)
    BY DEF ExtraStelle
  <2>2. y \in Unter(a)
    BY <1>2, <2>1 DEF InAuftrag
  <2>3. Len(y) = 8 /\ SubSeq(y, 1, 6) = Item(a, k, j, i)
    BY <1>2, Tiefen, AnfangExtra
  <2> QED BY <2>2, <2>3
<1> QED BY <1>1, <1>2

\* A line is read as it was sent.
LEMMA ArtikelRichtig ==
  ASSUME IInv, NEW n \in DOMAIN auftraege, BeimKellner(auftraege[n]),
         NEW k, NEW j, NEW i, Stelle(auftraege[n], k, j, i)
  PROVE  Artikel(Item(auftraege[n], k, j, i), Unter(auftraege[n])) = ZeilenInhalt(auftraege[n], k, j, i)
<1> DEFINE a == auftraege[n]
           U == Unter(a)
           item == Item(a, k, j, i)
           namen == Zelle(a, k, j, i, "ExtrasName")
           preise == Zelle(a, k, j, i, "ExtrasPreise")
           E == {e \in U : Len(e) = 8 /\ SubSeq(e, 1, 6) = item}
           X == {<<Wert(e, "Name", ""), Wert(e, "Preis", 0)>> : e \in E}
           Y == {<<namen[e], preise[e]>> : e \in DOMAIN namen}
<1>1. /\ Versendbar(a.dictionary) /\ Stelle(a, k, j, i)
  BY AuftragLesen DEF IInv
<1>2. /\ Wert(item, "Name", "") = Zelle(a, k, j, i, "ItemsNamen")
      /\ Wert(item, "Menge", 0) = Zelle(a, k, j, i, "ItemsMengen")
      /\ Wert(item, "Preis", 0) = Zelle(a, k, j, i, "ItemsPreise")
      /\ Wert(item, "Kommentar", "kein Kommentar") = Zelle(a, k, j, i, "ItemsKommentar")
  BY ItemWert
<1>3. /\ item[4] = a.dictionary[k].Kategorie
      /\ item[5] = a.dictionary[k].Unterkategorie[j]
      /\ item[6] = <<j, i>>
  BY DEF Item
<1>4. \A y : y \in E <=> \E e \in 1..Len(namen) : y = Extra(a, k, j, i, e)
  <2>1. \A y : y \in U <=> InAuftrag(a, y)
    BY UnterLesen
  <2>2. ExtrasVon(a, k, j, i)
    <3> HIDE DEF a, item, namen, preise, E, X, Y
    <3> QED BY <1>1, <2>1, ExtrasLesen, Zenon
  <2> QED BY <2>2, Zenon DEF ExtrasVon
<1>5. DOMAIN namen = 1..Len(namen)
  <2>1. Folge(namen)
    <3> HIDE DEF a
    <3> QED BY <1>1, StelleLesen
  <2> QED BY <2>1 DEF Folge
<1>6. \A e \in 1..Len(namen) : /\ Wert(Extra(a, k, j, i, e), "Name", "") = namen[e]
                               /\ Wert(Extra(a, k, j, i, e), "Preis", 0) = preise[e]
  <2> TAKE e \in 1..Len(namen)
  <2>1. ExtraStelle(a, k, j, i, e)
    BY DEF ExtraStelle
  <2>2. ExtraGelesen(a, k, j, i, e)
    BY <2>1, ExtraWert, Zenon
  <2> HIDE DEF a, item, E, X, Y
  <2> QED BY <2>2, Zenon DEF ExtraGelesen
<1>7. X = Y
  <2> HIDE DEF a, namen, preise, E
  <2>1. ASSUME NEW x \in X PROVE x \in Y
    <3>1. PICK y \in E : x = <<Wert(y, "Name", ""), Wert(y, "Preis", 0)>>
      OBVIOUS
    <3>2. PICK e \in 1..Len(namen) : y = Extra(a, k, j, i, e)
      BY <1>4
    <3> QED BY <1>5, <1>6, <3>1, <3>2
  <2>2. ASSUME NEW x \in Y PROVE x \in X
    <3>1. PICK e \in 1..Len(namen) : x = <<namen[e], preise[e]>>
      BY <1>5
    <3>2. Extra(a, k, j, i, e) \in E
      BY <1>4
    <3> QED BY <1>6, <3>1, <3>2
  <2> QED BY <2>1, <2>2
<1>8. Artikel(item, U) =
        [Kategorie |-> item[4], Unterkategorie |-> item[5], item |-> item[6],
         Name      |-> Wert(item, "Name", ""),
         Menge     |-> Wert(item, "Menge", 0),
         Preis     |-> Wert(item, "Preis", 0),
         Kommentar |-> Wert(item, "Kommentar", "kein Kommentar"),
         Extras    |-> X]
  BY Zenon DEF Artikel
<1>9. ZeilenInhalt(a, k, j, i) =
        [Kategorie |-> a.dictionary[k].Kategorie,
         Unterkategorie |-> a.dictionary[k].Unterkategorie[j], item |-> <<j, i>>,
         Name      |-> Zelle(a, k, j, i, "ItemsNamen"),
         Menge     |-> Zelle(a, k, j, i, "ItemsMengen"),
         Preis     |-> Zelle(a, k, j, i, "ItemsPreise"),
         Kommentar |-> Zelle(a, k, j, i, "ItemsKommentar"),
         Extras    |-> Y]
  BY Zenon DEF ZeilenInhalt
<1> HIDE DEF a, U, item, X, Y
<1>10. Artikel(item, U) = ZeilenInhalt(a, k, j, i)
  BY <1>2, <1>3, <1>7, <1>8, <1>9, Zenon
<1> QED BY <1>10 DEF a, U, item

\* An order in the waiter's list is read as it was sent.
LEMMA GelesenBestellt ==
  ASSUME IInv, NEW n \in DOMAIN auftraege, BeimKellner(auftraege[n])
  PROVE  Gelesen(auftraege[n]) = Bestellt(auftraege[n])
<1> DEFINE a == auftraege[n]
           U == Unter(a)
<1>1. Versendbar(a.dictionary)
  BY AuftragLesen DEF IInv
<1>2. Gelesen(a) = {Artikel(z, U) : z \in {z \in U : Len(z) = 6}}
  BY Zenon DEF Gelesen, Unter
<1>3. \A y : y \in U <=> InAuftrag(a, y)
  BY UnterLesen
<1>4. ASSUME NEW k, NEW j, NEW i, Stelle(a, k, j, i)
      PROVE  Artikel(Item(a, k, j, i), U) = ZeilenInhalt(a, k, j, i)
  BY <1>4, ArtikelRichtig, Zenon
<1> HIDE DEF a, U
<1>5. \A z : z \in U /\ Len(z) = 6 <=> \E k, j, i : Stelle(a, k, j, i) /\ z = Item(a, k, j, i)
  <2> TAKE z
  <2>1. ASSUME NEW k, NEW j, NEW i, z = Item(a, k, j, i) PROVE Len(z) = 6
    BY <2>1, Tiefen
  <2>2. ASSUME NEW k, NEW j, NEW i, NEW e, z = Extra(a, k, j, i, e) PROVE Len(z) # 6
    BY <2>2, Tiefen
  <2> QED BY <1>3, <2>1, <2>2 DEF InAuftrag
<1>6. ASSUME NEW y
      PROVE  y \in Gelesen(a) <=> \E k, j, i : Stelle(a, k, j, i) /\ y = ZeilenInhalt(a, k, j, i)
  <2>1. y \in Gelesen(a) <=> \E z : z \in U /\ Len(z) = 6 /\ y = Artikel(z, U)
    BY <1>2
  <2> QED BY <1>4, <1>5, <2>1
<1>7. \A y : y \in Gelesen(a) <=> y \in Bestellt(a)
  BY <1>1, <1>6, BestelltLesen
<1> QED BY <1>7 DEF a

\* What a waiter's list names can be served, whole and as it was sent.
THEOREM KellnerSiehtAlles == Spec => []BeimKellnerVollstaendig
<1>1. IInv => BeimKellnerVollstaendig
  BY GelesenBestellt, KellnerNachGastInv DEF BeimKellnerVollstaendig
<1> QED BY <1>1, SpecIInv, PTL

-----------------------------------------------------------------------------
(* Refinement: to the waiter, an order appears in one step.                *)

\* The orders in the waiter's list.
Angekommen == {n \in DOMAIN auftraege : BeimKellner(auftraege[n])}

\* What the waiter reads, and what was sent.
Gelesenes  == [n \in Angekommen |-> Gelesen(auftraege[n])]
Gesendetes   == [n \in Angekommen |-> Bestellt(auftraege[n])]
Inhalt == [n \in DOMAIN auftraege |-> Bestellt(auftraege[n])]

LEMMA GelesenesGesendetes == IInv => Gelesenes = Gesendetes
<1> SUFFICES ASSUME IInv PROVE Gelesenes = Gesendetes
  OBVIOUS
<1>1. \A n \in Angekommen : Gelesen(auftraege[n]) = Bestellt(auftraege[n])
  <2> TAKE n \in Angekommen
  <2>1. n \in DOMAIN auftraege /\ BeimKellner(auftraege[n])
    BY DEF Angekommen
  <2> QED BY <2>1, GelesenBestellt, Zenon
<1> QED BY <1>1, Zenon DEF Gelesenes, Gesendetes

\* A field that is written stays written.
LEMMA BleibtDa ==
  ASSUME auftraege' = auftraege, \A x : Da(x) => Da(x)'
  PROVE  Angekommen \subseteq Angekommen'
<1> SUFFICES ASSUME NEW n \in DOMAIN auftraege, BeimKellner(auftraege[n])
             PROVE  n \in Angekommen'
  BY DEF Angekommen
<1> DEFINE x == [knoten |-> KellnerRef(auftraege[n]), werte |-> [Status |-> "versendet"]]
<1>1. /\ Da(x) <=> Geschrieben(KellnerRef(auftraege[n]), "Status")
      /\ DOMAIN x.werte = {"Status"} /\ x.knoten = KellnerRef(auftraege[n])
  BY DEF Da, Geschrieben
<1>2. PICK y : Da(y) /\ DOMAIN y.werte = {"Status"} /\ y.knoten = KellnerRef(auftraege[n])
  BY <1>1, Zenon DEF BeimKellner
<1>3. Da(y)'
  BY <1>2
<1>4. y.knoten \in DOMAIN datenbank' /\ "Status" \in DOMAIN datenbank'[y.knoten]
  BY <1>2, <1>3 DEF Da, Knoten
<1> QED BY <1>2, <1>4 DEF Angekommen, BeimKellner, Geschrieben, Knoten, KellnerRef

\* Whatever the network does, orders appear and stay.
LEMMA ErscheinenSchritt ==
  ASSUME auftraege' = auftraege, \A x : Da(x) => Da(x)', Gelesenes = Gesendetes, Gelesenes' = Gesendetes'
  PROVE  /\ Inhalt' = Inhalt
         /\ \E N \in SUBSET (DOMAIN Inhalt) :
              /\ N \cap DOMAIN Gelesenes = {}
              /\ Gelesenes' = [m \in DOMAIN Gelesenes \cup N |-> IF m \in N THEN Inhalt[m] ELSE Gelesenes[m]]
<1> DEFINE N == Angekommen' \ Angekommen
<1>1. Angekommen \subseteq Angekommen'
  BY BleibtDa
<1>2. Angekommen' \subseteq DOMAIN auftraege /\ Inhalt' = Inhalt
  BY DEF Angekommen, Inhalt
<1>3. DOMAIN Inhalt = DOMAIN auftraege /\ DOMAIN Gesendetes = Angekommen
  BY DEF Inhalt, Gesendetes
<1>4. \A n \in Angekommen : Gesendetes[n] = Bestellt(auftraege[n])
  BY DEF Gesendetes
<1>5. \A n \in DOMAIN auftraege : Inhalt[n] = Bestellt(auftraege[n])
  BY DEF Inhalt
<1>6. Gesendetes' = [n \in Angekommen' |-> Bestellt(auftraege[n])]
  BY DEF Gesendetes
<1>7. \A n \in Angekommen' :
        Bestellt(auftraege[n]) = IF n \in N THEN Inhalt[n] ELSE Gesendetes[n]
  BY <1>2, <1>4, <1>5
<1>8. Gesendetes' = [m \in DOMAIN Gesendetes \cup N |-> IF m \in N THEN Inhalt[m] ELSE Gesendetes[m]]
  <2>1. DOMAIN Gesendetes \cup N = Angekommen'
    BY <1>1, <1>3
  <2> HIDE DEF N
  <2> QED BY <1>6, <1>7, <2>1
<1>9. N \in SUBSET (DOMAIN Inhalt) /\ N \cap DOMAIN Gesendetes = {}
  BY <1>2, <1>3
<1> HIDE DEF N
<1> QED BY <1>2, <1>8, <1>9

\* Sending appends what is ordered, and the waiter sees no more than before.
LEMMA SendenSchritt ==
  ASSUME IInv, NEW g \in Gaeste, NEW bar \in Bars, NEW d \in Auftraege,
         handleBestellung(g, bar, d), Gelesenes = Gesendetes, Gelesenes' = Gesendetes'
  PROVE  /\ Inhalt' = Append(Inhalt, Bestellt([dictionary |-> d]))
         /\ Gelesenes' = Gelesenes
<1> DEFINE a == [id |-> Len(auftraege) + 1, gast |-> g, bar |-> bar, dictionary |-> d]
<1>0. AuftraegeInv /\ HerkunftInv
  BY DEF IInv
<1>1. /\ AuftraegeInv' /\ IstAuftrag(a) /\ Versendbar(a.dictionary)
      /\ a.id \notin DOMAIN auftraege /\ a.id \in DOMAIN auftraege' /\ auftraege'[a.id] = a
      /\ DOMAIN auftraege' = DOMAIN auftraege \cup {a.id}
      /\ \A n \in DOMAIN auftraege : n \in DOMAIN auftraege' /\ auftraege'[n] = auftraege[n]
      /\ \A x : Verfasst(auftraege, x) => Verfasst(auftraege', x)
      /\ \A x \in ToSet(Updates(a)) : Verfasst(auftraege', x)
  BY <1>0, NeuVerfasst, Zenon
<1>2. datenbank' = datenbank /\ a.dictionary = d /\ a.id = Len(auftraege) + 1
  BY DEF handleBestellung
<1>3. Bestellt(a) = Bestellt([dictionary |-> d])
  BY <1>2 DEF Bestellt
<1> HIDE DEF a
<1>4. KellnerRef(a) \notin Knoten
  <2>1. ASSUME NEW m \in DOMAIN auftraege, NEW y \in ToSet(Updates(auftraege[m])),
               y.knoten = KellnerRef(a)
        PROVE  FALSE
    <3>1. auftraege[m].id = a.id
      BY <1>0, <2>1, AuftragLesen, ArtListe DEF KellnerRef
    <3>2. auftraege[m].id = m
      BY <1>0 DEF AuftraegeInv
    <3> QED BY <1>1, <3>1, <3>2
  <2> QED BY <1>0, <2>1 DEF HerkunftInv, Verfasst
<1>5. Angekommen' = Angekommen
  <2>1. Angekommen' = {n \in DOMAIN auftraege' : Geschrieben(KellnerRef(auftraege'[n]), "Status")}
    BY <1>2 DEF Angekommen, BeimKellner, Geschrieben, Knoten, KellnerRef
  <2>2. ~ Geschrieben(KellnerRef(a), "Status")
    BY <1>4 DEF Geschrieben
  <2>3. Angekommen = {n \in DOMAIN auftraege : Geschrieben(KellnerRef(auftraege[n]), "Status")}
    BY DEF Angekommen, BeimKellner
  <2> QED BY <1>1, <2>1, <2>2, <2>3
<1>6. Gesendetes' = Gesendetes
  <2>1. Gesendetes' = [n \in Angekommen' |-> Bestellt(auftraege'[n])]
    BY DEF Gesendetes
  <2>2. \A n \in Angekommen : auftraege'[n] = auftraege[n]
    BY <1>1 DEF Angekommen
  <2> QED BY <1>5, <2>1, <2>2 DEF Gesendetes
<1>7. Inhalt' = Append(Inhalt, Bestellt(a))
  <2>1. Folge(auftraege)
    BY <1>0, FolgeIhrerWerte DEF AuftraegeInv, Folge
  <2>2. /\ DOMAIN auftraege = 1..Len(auftraege) /\ Len(auftraege) \in Nat
        /\ DOMAIN auftraege' = 1..(Len(auftraege) + 1)
    BY <1>1, <1>2, <2>1 DEF Folge
  <2>3. Inhalt = [n \in 1..Len(auftraege) |-> Bestellt(auftraege[n])]
    BY <2>2 DEF Inhalt
  <2>4. Inhalt' = [n \in 1..(Len(auftraege) + 1) |-> Bestellt(auftraege'[n])]
    BY <2>2 DEF Inhalt
  <2>5. Len(Inhalt) = Len(auftraege)
    BY <2>2, <2>3
  <2>6. \A n \in 1..Len(auftraege) : auftraege'[n] = auftraege[n]
    BY <1>1, <2>2
  <2> QED BY <1>1, <1>2, <2>2, <2>3, <2>4, <2>5, <2>6
<1> QED BY <1>3, <1>6, <1>7

LEMMA EingangInit == Init => Eingang!Init
<1> SUFFICES ASSUME Init PROVE Inhalt = <<>> /\ Gelesenes = <<>>
  BY Zenon DEF Eingang!Init, Inhalt, Gelesenes, Angekommen
<1>1. DOMAIN auftraege = {}
  BY DEF Init
<1>2. Angekommen = {}
  BY <1>1 DEF Angekommen
<1> QED BY <1>1, <1>2 DEF Inhalt, Gelesenes

LEMMA EingangSchritt ==
  IInv /\ Gelesenes = Gesendetes /\ Gelesenes' = Gesendetes' /\ [Next]_vars => [Eingang!Next]_(Eingang!vars)
<1> SUFFICES ASSUME IInv, Gelesenes = Gesendetes, Gelesenes' = Gesendetes', [Next]_vars
             PROVE  \/ \E d \in Auftraege :
                         Inhalt' = Append(Inhalt, Bestellt([dictionary |-> d])) /\ Gelesenes' = Gelesenes
                    \/ /\ Inhalt' = Inhalt
                       /\ \E N \in SUBSET (DOMAIN Inhalt) :
                            /\ N \cap DOMAIN Gelesenes = {}
                            /\ Gelesenes' = [m \in DOMAIN Gelesenes \cup N |->
                                           IF m \in N THEN Inhalt[m] ELSE Gelesenes[m]]
  BY DEF Eingang!Next, Eingang!Senden, Eingang!Erscheinen, Eingang!vars,
         Inhalt, Gelesenes, Angekommen
<1>1. ASSUME NEW g \in Gaeste, NEW bar \in Bars, NEW d \in Auftraege, handleBestellung(g, bar, d)
      PROVE  Inhalt' = Append(Inhalt, Bestellt([dictionary |-> d])) /\ Gelesenes' = Gelesenes
  BY <1>1, SendenSchritt, Zenon
<1>2. ASSUME auftraege' = auftraege, \A x : Da(x) => Da(x)'
      PROVE  /\ Inhalt' = Inhalt
             /\ \E N \in SUBSET (DOMAIN Inhalt) :
                  /\ N \cap DOMAIN Gelesenes = {}
                  /\ Gelesenes' = [m \in DOMAIN Gelesenes \cup N |->
                                 IF m \in N THEN Inhalt[m] ELSE Gelesenes[m]]
  BY <1>2, ErscheinenSchritt, Zenon
<1>3. ASSUME NEW g \in Gaeste, NEW n \in 1..Len(schlange[g]), Eingetroffen(g, n),
             auftraege' = auftraege
      PROVE  \A x : Da(x) => Da(x)'
  BY <1>3, EintreffenInv, Zenon
<1>4. ASSUME datenbank' = datenbank
      PROVE  \A x : Da(x) => Da(x)'
  BY <1>4 DEF Da, Knoten
<1>5. ASSUME NEW g \in Gaeste, Bestaetigt(g)
      PROVE  auftraege' = auftraege /\ \A x : Da(x) => Da(x)'
  <2>1. Folge(schlange[g]) /\ schlange[g] # <<>> /\ Eingetroffen(g, 1) /\ auftraege' = auftraege
    BY <1>5 DEF Bestaetigt, IInv, SchlangeInv
  <2>2. 1 \in 1..Len(schlange[g])
    BY <2>1 DEF Folge
  <2> QED BY <1>3, <2>1, <2>2
<1>6. ASSUME NEW g \in Gaeste, Unbestaetigt(g)
      PROVE  auftraege' = auftraege /\ \A x : Da(x) => Da(x)'
  <2>1. PICK n \in 1..MaxUnterwegs : n <= Len(schlange[g]) /\ Eingetroffen(g, n)
    BY <1>6 DEF Unbestaetigt
  <2>2. Folge(schlange[g]) /\ auftraege' = auftraege
    BY <1>6 DEF Unbestaetigt, IInv, SchlangeInv
  <2>3. n \in 1..Len(schlange[g])
    BY <2>1, <2>2, SchrankenAssumption DEF Folge, SchrankenAssumption
  <2> QED BY <1>3, <2>1, <2>2, <2>3
<1>7. ASSUME NEW g \in Gaeste, AppBeenden(g)
      PROVE  auftraege' = auftraege /\ \A x : Da(x) => Da(x)'
  BY <1>4, <1>7 DEF AppBeenden
<1>8. CASE UNCHANGED vars
  BY <1>2, <1>4, <1>8 DEF vars
<1>9. CASE Next
  <2>1. PICK g \in Gaeste : \/ \E bar \in Bars, d \in Auftraege : handleBestellung(g, bar, d)
                            \/ Bestaetigt(g)
                            \/ Unbestaetigt(g)
                            \/ AppBeenden(g)
    BY <1>9 DEF Next
  <2>2. CASE \E bar \in Bars, d \in Auftraege : handleBestellung(g, bar, d)
    BY <1>1, <2>2
  <2>3. CASE Bestaetigt(g)
    BY <1>2, <1>5, <2>3
  <2>4. CASE Unbestaetigt(g)
    BY <1>2, <1>6, <2>4
  <2>5. CASE AppBeenden(g)
    BY <1>2, <1>7, <2>5
  <2> QED BY <2>1, <2>2, <2>3, <2>4, <2>5
<1> QED BY <1>8, <1>9

\* handleBestellung implements Bestelleingang: to whoever goes by the waiter's list,
\* an order appears in one step, whole, and stays as it is.
THEOREM VerfeinertBestelleingang == Spec => ImplementiertBestelleingang
<1>1. IInv /\ IInv' /\ [Next]_vars => [Eingang!Next]_(Eingang!vars)
  <2>1. IInv => Gelesenes = Gesendetes
    BY GelesenesGesendetes
  <2>2. (IInv => Gelesenes = Gesendetes)'
    BY GelesenesGesendetes, PTL
  <2> QED BY <2>1, <2>2, EingangSchritt
<1> QED BY <1>1, EingangInit, SpecIInv, PTL DEF Spec, ImplementiertBestelleingang, Eingang!Spec

-----------------------------------------------------------------------------
(* Sets in ascending order.                                                *)

\* How many elements of S are at most n.
Rang(S, n) == Cardinality({m \in S : m <= n})

LEMMA RangLesen ==
  ASSUME NEW S \in SUBSET Int, IsFiniteSet(S)
  PROVE  /\ Cardinality(S) \in Nat
         /\ \A n \in S : Rang(S, n) \in 1..Cardinality(S)
         /\ \A n, m \in S : Rang(S, n) = Rang(S, m) => n = m
         /\ \A i \in 1..Cardinality(S) : \E n \in S : Rang(S, n) = i
<1>1. Cardinality(S) \in Nat
  BY FS_CardinalityType
<1>2. ASSUME NEW n \in S PROVE Rang(S, n) \in 1..Cardinality(S)
  <2> DEFINE T == {m \in S : m <= n}
  <2>1. T \in SUBSET S /\ n \in T
    OBVIOUS
  <2> HIDE DEF T
  <2>2. IsFiniteSet(T) /\ Cardinality(T) <= Cardinality(S)
    BY <2>1, FS_Subset
  <2>3. Cardinality(T) \in Nat /\ Cardinality(T) # 0
    BY <2>1, <2>2, FS_CardinalityType, FS_EmptySet
  <2>4. Cardinality(T) \in 1..Cardinality(S)
    BY <1>1, <2>2, <2>3
  <2> QED BY <2>4 DEF Rang, T
<1>3. ASSUME NEW n \in S, NEW m \in S, n < m PROVE Rang(S, n) # Rang(S, m)
  <2> DEFINE T == {l \in S : l <= n}
             U == {l \in S : l <= m}
  <2>0. n \in Int /\ m \in Int /\ \A l \in S : l \in Int
    OBVIOUS
  <2>1. T \in SUBSET U /\ U \in SUBSET S /\ m \in U /\ m \notin T
    <3>1. \A l \in S : l <= n => l <= m
      BY <1>3, <2>0
    <3>2. m <= m /\ ~(m <= n)
      BY <1>3, <2>0
    <3> QED BY <3>1, <3>2
  <2> HIDE DEF T, U
  <2>2. IsFiniteSet(U)
    BY <2>1, FS_Subset
  <2>3. Cardinality(U) = Cardinality(T) => U = T
    BY <2>1, <2>2, FS_Subset
  <2>4. Cardinality(U) # Cardinality(T)
    BY <2>1, <2>3
  <2> QED BY <2>4 DEF Rang, T, U
<1>4. \A n, m \in S : Rang(S, n) = Rang(S, m) => n = m
  <2> TAKE n, m \in S
  <2>1. n \in Int /\ m \in Int
    OBVIOUS
  <2>2. n < m \/ m < n \/ n = m
    BY <2>1
  <2> QED BY <1>3, <2>2
<1>5. ASSUME NEW i \in 1..Cardinality(S) PROVE \E n \in S : Rang(S, n) = i
  <2> DEFINE I == 1..Cardinality(S)
             f == [n \in S |-> Rang(S, n)]
  <2>1. IsFiniteSet(I) /\ Cardinality(I) = Cardinality(S)
    <3>1. IsFiniteSet(I) /\ Cardinality(I) = IF 1 > Cardinality(S) THEN 0 ELSE Cardinality(S) - 1 + 1
      BY <1>1, FS_Interval
    <3> QED BY <1>1, <3>1
  <2>2. f \in Injection(S, I)
    <3>1. f \in [S -> I]
      BY <1>2
    <3>2. \A n, m \in S : f[n] = f[m] => n = m
      BY <1>4
    <3> HIDE DEF f, I
    <3> QED BY <3>1, <3>2 DEF Injection, IsInjective
  <2>3. f \in Surjection(S, I)
    <3> HIDE DEF f, I
    <3> QED BY <2>1, <2>2, FS_Injection
  <2>4. \E n \in S : f[n] = i
    <3>1. i \in I
      OBVIOUS
    <3> HIDE DEF f, I
    <3> QED BY <2>3, <3>1 DEF Surjection
  <2> QED BY <2>4
<1> QED BY <1>1, <1>2, <1>4, <1>5

\* Aufsteigend lists each element once.
LEMMA AufsteigendLesen ==
  ASSUME NEW S \in SUBSET Int, IsFiniteSet(S)
  PROVE  /\ Cardinality(S) \in Nat /\ Aufsteigend(S) \in Seq(S)
         /\ Len(Aufsteigend(S)) = Cardinality(S)
         /\ DOMAIN Aufsteigend(S) = 1..Cardinality(S)
         /\ ToSet(Aufsteigend(S)) = S /\ Injektiv(Aufsteigend(S))
<1> DEFINE N == Cardinality(S)
           t == Aufsteigend(S)
<1>1. /\ N \in Nat
      /\ \A n \in S : Rang(S, n) \in 1..N
      /\ \A n, m \in S : Rang(S, n) = Rang(S, m) => n = m
      /\ \A i \in 1..N : \E n \in S : Rang(S, n) = i
  BY RangLesen
<1>2. t = [i \in 1..N |-> CHOOSE n \in S : Rang(S, n) = i]
  BY DEF Aufsteigend, Rang
<1> HIDE DEF t, N
<1>3. \A i \in 1..N : t[i] \in S /\ Rang(S, t[i]) = i
  <2> TAKE i \in 1..N
  <2>1. t[i] = CHOOSE n \in S : Rang(S, n) = i
    BY <1>2
  <2>2. \E n \in S : Rang(S, n) = i
    BY <1>1
  <2> QED BY <2>1, <2>2
<1>4. t \in [1..N -> S]
  BY <1>2, <1>3
<1>5. t \in Seq(S) /\ Len(t) = N /\ DOMAIN t = 1..N
  BY <1>1, <1>4
<1>6. ToSet(t) = S
  <2>1. \A n \in S : \E i \in 1..N : t[i] = n
    BY <1>1, <1>3
  <2> QED BY <1>3, <1>5, <2>1 DEF ToSet
<1>7. Injektiv(t)
  BY <1>3, <1>5 DEF Injektiv
<1> QED BY <1>1, <1>5, <1>6, <1>7 DEF t, N

\* Sequences with nothing in common.
LEMMA InjektivVerkettet ==
  ASSUME NEW T, NEW s \in Seq(T), NEW t \in Seq(T), Injektiv(s), Injektiv(t),
         ToSet(s) \cap ToSet(t) = {}
  PROVE  Injektiv(s \o t)
<1>1. /\ s \o t \in Seq(T) /\ Len(s \o t) = Len(s) + Len(t)
      /\ \A i \in 1..Len(s) + Len(t) : (s \o t)[i] = IF i <= Len(s) THEN s[i] ELSE t[i - Len(s)]
  BY ConcatProperties
<1>2. DOMAIN (s \o t) = 1..(Len(s) + Len(t)) /\ Len(s) \in Nat /\ Len(t) \in Nat
      /\ DOMAIN s = 1..Len(s) /\ DOMAIN t = 1..Len(t)
  BY <1>1
<1>3. \A i \in 1..(Len(s) + Len(t)) :
        /\ i <= Len(s) => i \in DOMAIN s /\ (s \o t)[i] = s[i]
        /\ ~(i <= Len(s)) => i - Len(s) \in DOMAIN t /\ (s \o t)[i] = t[i - Len(s)]
  BY <1>1, <1>2
<1>4. \A i \in DOMAIN s, j \in DOMAIN t : s[i] # t[j]
  BY DEF ToSet
<1>5. ASSUME NEW m \in 1..(Len(s) + Len(t)), NEW n \in 1..(Len(s) + Len(t)),
             (s \o t)[m] = (s \o t)[n]
      PROVE  m = n
  <2>1. m \in Int /\ n \in Int
    BY <1>2
  <2>2. CASE m <= Len(s) /\ n <= Len(s)
    BY <1>3, <1>5, <2>2 DEF Injektiv
  <2>3. CASE ~(m <= Len(s)) /\ ~(n <= Len(s))
    <3>1. m - Len(s) = n - Len(s)
      BY <1>3, <1>5, <2>3 DEF Injektiv
    <3> QED BY <1>2, <2>1, <3>1
  <2>4. CASE (m <= Len(s)) # (n <= Len(s))
    BY <1>3, <1>4, <1>5, <2>4
  <2> QED BY <2>2, <2>3, <2>4
<1> QED BY <1>2, <1>5, Zenon DEF Injektiv

-----------------------------------------------------------------------------
(* The inductive invariant of the list.                                    *)

\* The orders of this guest.
Meine == {n \in DOMAIN auftraege : auftraege[n].gast = ich}

GeraetInv ==
  /\ selbesGeraet \in BOOLEAN /\ getrennt \in BOOLEAN \X Nat
  /\ getrennt[1] => getrennt[2] # 0

\* What was found, asked for and loaded.
GefundenInv ==
  /\ bestellungIDs \in Seq(ToSet(bestellungIDs)) /\ Injektiv(bestellungIDs)
  /\ ToSet(bestellungIDs) \subseteq gesehen /\ gesehen \subseteq Meine
  /\ gefragt \cup DOMAIN geladen \subseteq ToSet(bestellungIDs)
  /\ gefragt \cap DOMAIN geladen = {}

\* A list that is not open yet has nothing.
AnfangInv ==
  /\ ansicht \in {"zu", "bar", "schluessel", "offen", "abgestuerzt"}
  /\ ansicht \in {"zu", "bar", "schluessel"} =>
       /\ gesehen = {} /\ bestellungIDs = <<>> /\ gefragt = {}
       /\ geladen = <<>> /\ rest = KeinRest /\ Bestellungen = <<>>
  /\ ansicht = "zu" => aktuelleBar = ""

\* The table lists what was found; if there was no other connection, once, when
\* the last answer has come.
TabelleInv ==
  /\ Bestellungen \in Seq(ToSet(Bestellungen))
  /\ \A n \in DOMAIN Bestellungen : Bestellungen[n].id \in ToSet(bestellungIDs)
  /\ getrennt[2] = 0 => JedeEinmal
  /\ getrennt[2] = 0 /\ Bestellungen # <<>> => gefragt = {}

ListeInv == GeraetInv /\ GefundenInv /\ AnfangInv /\ TabelleInv

-----------------------------------------------------------------------------
(* What the list's phone sees.                                             *)

\* The nodes that this phone knows of.
Geschehenes ==
  DOMAIN datenbank \cup IF selbesGeraet THEN {w.knoten : w \in ToSet(schlange[ich])} ELSE {}

LEMMA EigeneLesen ==
  ASSUME IInv
  PROVE  Folge(schlange[ich]) /\ \A p \in 1..Len(schlange[ich]) : Verfasst(auftraege, schlange[ich][p])
  BY ListeAssumption DEF IInv, SchlangeInv, ListeAssumption

LEMMA SichtKnoten ==
  ASSUME IInv, GeraetInv
  PROVE  DOMAIN Sicht = Geschehenes
<1> DEFINE e == IF selbesGeraet THEN schlange[ich] ELSE <<>>
<1>1. Folge(e)
  BY EigeneLesen, LeereFolge
<1>2. Sicht = Ueberlagert(datenbank, e)
  BY DEF Sicht
<1>3. \A k : k \in DOMAIN Sicht <=> k \in DOMAIN datenbank \/ \E i \in 1..Len(e) : e[i].knoten = k
  <2> HIDE DEF e
  <2> QED BY <1>1, <1>2, UeberlagertLesen
<1>4. CASE selbesGeraet
  <2>1. e = schlange[ich] /\ DOMAIN e = 1..Len(e)
    BY <1>1, <1>4 DEF Folge
  <2>2. {w.knoten : w \in ToSet(schlange[ich])} = {e[i].knoten : i \in 1..Len(e)}
    <3> HIDE DEF e
    <3> QED BY <2>1 DEF ToSet
  <2> HIDE DEF e
  <2> QED BY <1>3, <1>4, <2>2 DEF Geschehenes
<1>5. CASE ~selbesGeraet
  <2>1. e = <<>>
    BY <1>5
  <2> HIDE DEF e
  <2> QED BY <1>3, <1>5, <2>1, LeereFolge DEF Geschehenes
<1> QED BY <1>4, <1>5

\* All of them come from orders.
LEMMA GeschehenesHerkunft ==
  ASSUME IInv, NEW k \in Geschehenes
  PROVE  \E x : Verfasst(auftraege, x) /\ x.knoten = k
<1>1. CASE k \in DOMAIN datenbank
  BY <1>1 DEF IInv, HerkunftInv, Knoten
<1>2. CASE k \notin DOMAIN datenbank
  <2>1. PICK w \in ToSet(schlange[ich]) : k = w.knoten
    BY <1>2 DEF Geschehenes
  <2>2. PICK p \in DOMAIN schlange[ich] : w = schlange[ich][p]
    BY DEF ToSet
  <2>3. p \in 1..Len(schlange[ich])
    BY EigeneLesen DEF Folge
  <2> QED BY <2>1, <2>2, <2>3, EigeneLesen
<1> QED BY <1>1, <1>2

\* An entry in the guest's list is of an order of the guest.
LEMMA EintragMeiner ==
  ASSUME AuftraegeInv, NEW x, Verfasst(auftraege, x), Len(x.knoten) = 3,
         SubSeq(x.knoten, 1, 2) = <<"userBestellungen", ich>>
  PROVE  x.knoten[3] \in Meine /\ x.knoten = <<"userBestellungen", ich, x.knoten[3]>>
<1>1. PICK n \in DOMAIN auftraege : x \in ToSet(Updates(auftraege[n]))
  BY DEF Verfasst
<1> DEFINE b == auftraege[n]
<1>2. /\ Versendbar(b.dictionary) /\ b.id = n /\ IstAuftrag(b)
  BY AuftragLesen
<1> HIDE DEF b
<1>3. \/ x.knoten = <<"userBestellungen", b.gast, b.id>>
      \/ x.knoten = <<"userBestellungen", Kellner, b.id>>
  BY <1>1, <1>2, ArtenTiefen DEF b
<1>4. PICK y : x.knoten = <<"userBestellungen", y, n>> /\ (y = b.gast \/ y = Kellner)
  BY <1>2, <1>3
<1>5. y = ich /\ x.knoten[3] = n
  <2> DEFINE z == <<"userBestellungen", y, n>>
             S == {"userBestellungen", y, n}
  <2>1. z \in Seq(S) /\ Len(z) = 3 /\ z[2] = y /\ z[3] = n
    OBVIOUS
  <2>2. x.knoten = z
    BY <1>4
  <2> HIDE DEF z, S
  <2>3. SubSeq(z, 1, 2)[2] = z[2]
    <3>1. \A i \in 1..2 : z[i] \in S
      <4>1. z \in [1..Len(z) -> S]
        BY <2>1, LenProperties
      <4>2. \A i \in 1..2 : i \in 1..3
        OBVIOUS
      <4> QED BY <2>1, <4>1, <4>2
    <3>2. \A i \in 1..(2 - 1 + 1) : SubSeq(z, 1, 2)[i] = z[1 + i - 1]
      BY <3>1, SubSeqProperties
    <3>3. 2 \in 1..(2 - 1 + 1) /\ 1 + 2 - 1 = 2
      OBVIOUS
    <3> QED BY <3>2, <3>3
  <2>4. SubSeq(z, 1, 2)[2] = ich
    <3>1. SubSeq(z, 1, 2) = <<"userBestellungen", ich>>
      BY <2>2, Zenon
    <3>2. <<"userBestellungen", ich>>[2] = ich
      OBVIOUS
    <3> QED BY <3>1, <3>2, Zenon
  <2> QED BY <2>1, <2>2, <2>3, <2>4
<1>6. y # Kellner
  BY <1>5, KellnerAssumption, ListeAssumption DEF KellnerAssumption, ListeAssumption
<1>7. x.knoten[3] \in Meine
  BY <1>4, <1>5, <1>6 DEF Meine, b
<1> QED BY <1>4, <1>5, <1>7

LEMMA EintraegeMeine == IInv => Eintraege(Geschehenes) \subseteq Meine
<1> SUFFICES ASSUME IInv, NEW k \in Geschehenes, Len(k) = 3,
                    SubSeq(k, 1, 2) = <<"userBestellungen", ich>>
             PROVE  k[3] \in Meine
  BY DEF Eintraege
<1>1. PICK x : Verfasst(auftraege, x) /\ x.knoten = k
  BY GeschehenesHerkunft
<1> QED BY <1>1, EintragMeiner DEF IInv

-----------------------------------------------------------------------------
(* The list's steps leave the orders to BestellungSenden.                  *)

LEMMA SendenTeil == [ListeNext]_alleVars => [Next]_vars
<1> SUFFICES ASSUME [ListeNext]_alleVars PROVE [Next]_vars
  OBVIOUS
<1>1. CASE Bestellen
  BY <1>1 DEF Bestellen, Next
<1>2. ASSUME NEW g \in Gaeste, Uebertragen(g) \/ NochmalUebertragen(g) \/ Beenden(g)
      PROVE  [Next]_vars
  BY <1>2 DEF Uebertragen, NochmalUebertragen, Beenden, Next
<1>3. CASE viewDidLoad \/ Verlassen \/ loadAktuelleBar \/ loadBestellungenKeys
  BY <1>3 DEF viewDidLoad, Verlassen, loadAktuelleBar, loadBestellungenKeys
<1>4. ASSUME NEW id \in gefragt, loadBestellungen(id) PROVE UNCHANGED vars
  BY <1>4 DEF loadBestellungen
<1>5. CASE Trennen \/ Verbinden
  BY <1>5 DEF Trennen, Verbinden
<1>6. CASE UNCHANGED alleVars
  BY <1>6 DEF alleVars
<1> QED BY <1>1, <1>2, <1>3, <1>4, <1>5, <1>6, Zenon DEF ListeNext

\* Orders stay as they are.
LEMMA AuftraegeBleiben ==
  ASSUME IInv, [Next]_vars
  PROVE  \A n \in DOMAIN auftraege : n \in DOMAIN auftraege' /\ auftraege'[n] = auftraege[n]
<1>1. ASSUME NEW g \in Gaeste, NEW bar \in Bars, NEW d \in Auftraege, handleBestellung(g, bar, d)
      PROVE  \A n \in DOMAIN auftraege : n \in DOMAIN auftraege' /\ auftraege'[n] = auftraege[n]
  BY <1>1, NeuVerfasst, Zenon DEF IInv
<1>2. (\E g \in Gaeste, bar \in Bars, d \in Auftraege : handleBestellung(g, bar, d))
      \/ auftraege' = auftraege
  BY DEF Next, vars, Bestaetigt, Unbestaetigt, AppBeenden
<1> QED BY <1>1, <1>2

LEMMA MeineWachsen ==
  ASSUME IInv, [Next]_vars
  PROVE  Meine \subseteq Meine'
  BY AuftraegeBleiben DEF Meine

-----------------------------------------------------------------------------
(* What the actions do to the invariant.                                   *)

\* A list that is left or not there.
LEMMA GeschlossenInv ==
  ASSUME Geschlossen
  PROVE  GefundenInv' /\ AnfangInv' /\ TabelleInv'
<1>1. <<>> \in Seq(ToSet(<<>>)) /\ ToSet(<<>>) = {} /\ DOMAIN <<>> = {}
  BY DEF ToSet
<1>2. GefundenInv'
  BY <1>1 DEF Geschlossen, GefundenInv, Injektiv
<1>3. AnfangInv'
  BY DEF Geschlossen, AnfangInv
<1>4. TabelleInv'
  BY <1>1 DEF Geschlossen, TabelleInv, JedeEinmal, Injektiv
<1> QED BY <1>2, <1>3, <1>4

\* What was found, asked for and loaded, if only more is seen.
LEMMA GefundenBleibt ==
  ASSUME GefundenInv, Meine \subseteq Meine', gesehen \subseteq gesehen', gesehen' \subseteq Meine',
         UNCHANGED <<bestellungIDs, gefragt, geladen>>
  PROVE  GefundenInv'
  BY DEF GefundenInv, Injektiv

LEMMA TabelleBleibt ==
  ASSUME TabelleInv, UNCHANGED <<Bestellungen, gefragt, bestellungIDs, getrennt>>
  PROVE  TabelleInv'
  BY DEF TabelleInv, JedeEinmal, Injektiv

\* What is found later is appended.
LEMMA NeueEintraegeInv ==
  ASSUME IInv, GeraetInv, GefundenInv, Meine \subseteq Meine', NeueEintraege, UNCHANGED geladen
  PROVE  /\ GefundenInv' /\ gesehen \subseteq gesehen'
         /\ \E S : /\ ToSet(bestellungIDs') = ToSet(bestellungIDs) \cup S
                  /\ gefragt' = gefragt \cup S
<1> DEFINE neu == Eintraege(DOMAIN Sicht) \ gesehen
           S   == {id \in neu : Status(Sicht, id) = "versendet"}
           ids == Aufsteigend(S)
<1>1. /\ gesehen' = gesehen \cup neu /\ bestellungIDs' = bestellungIDs \o ids
      /\ gefragt' = gefragt \cup ToSet(ids)
  BY DEF NeueEintraege, Aufgenommen
<1>2. neu \subseteq Meine
  BY SichtKnoten, EintraegeMeine
<1>3. S \in SUBSET Int /\ IsFiniteSet(S)
  <2>1. S \in SUBSET (1..Len(auftraege)) /\ Len(auftraege) \in Nat
    <3>1. auftraege \in Seq([id : Nat, gast : Gaeste, bar : Bars, dictionary : Auftraege])
      BY DEF IInv, AuftraegeInv
    <3>2. Meine \subseteq DOMAIN auftraege
      BY DEF Meine
    <3>3. DOMAIN auftraege = 1..Len(auftraege) /\ Len(auftraege) \in Nat
      BY <3>1
    <3> HIDE DEF neu
    <3> QED BY <1>2, <3>2, <3>3
  <2>2. IsFiniteSet(1..Len(auftraege))
    BY <2>1, FS_Interval
  <2> HIDE DEF S
  <2>3. IsFiniteSet(S)
    BY <2>1, <2>2, FS_Subset
  <2> QED BY <2>1, <2>3
<1>4. /\ ids \in Seq(S) /\ ToSet(ids) = S /\ Injektiv(ids)
  <2> HIDE DEF S
  <2> QED BY <1>3, AufsteigendLesen
<1>5. S \subseteq neu /\ neu \cap gesehen = {}
  OBVIOUS
<1>6. bestellungIDs \in Seq(ToSet(bestellungIDs)) /\ Injektiv(bestellungIDs)
  BY DEF GefundenInv
<1> DEFINE T == ToSet(bestellungIDs) \cup S
<1> HIDE DEF neu, S, ids
<1>7. bestellungIDs \in Seq(T) /\ ids \in Seq(T)
  BY <1>4, <1>6
<1>8. /\ bestellungIDs \o ids \in Seq(T)
      /\ ToSet(bestellungIDs \o ids) = ToSet(bestellungIDs) \cup S
  BY <1>4, <1>7, MengeVerkettet
<1>9. ToSet(bestellungIDs) \cap S = {}
  BY <1>5 DEF GefundenInv
<1>10. Injektiv(bestellungIDs \o ids)
  BY <1>4, <1>6, <1>7, <1>9, InjektivVerkettet
<1>11. GefundenInv'
  BY <1>1, <1>2, <1>4, <1>5, <1>8, <1>9, <1>10 DEF GefundenInv, T
<1>12. /\ ToSet(bestellungIDs') = ToSet(bestellungIDs) \cup S
       /\ gefragt' = gefragt \cup S
  BY <1>1, <1>4, <1>8
<1> QED BY <1>1, <1>11, <1>12

LEMMA AnfangGeht ==
  ASSUME AnfangInv,
         viewDidLoad \/ loadAktuelleBar \/ loadBestellungenKeys
  PROVE  AnfangInv'
  BY DEF AnfangInv, viewDidLoad, loadAktuelleBar, loadBestellungenKeys, KeinRest

LEMMA ViewDidLoadListe ==
  ASSUME ListeInv, viewDidLoad \/ loadAktuelleBar, Meine \subseteq Meine'
  PROVE  ListeInv'
<1>1. UNCHANGED <<gesehen, bestellungIDs, gefragt, geladen, Bestellungen, selbesGeraet, getrennt>>
  BY DEF viewDidLoad, loadAktuelleBar, geraet
<1>2. GefundenInv'
  <2>1. gesehen \subseteq gesehen' /\ gesehen' \subseteq Meine'
    BY <1>1 DEF ListeInv, GefundenInv
  <2> QED BY <1>1, <2>1, GefundenBleibt DEF ListeInv
<1>3. TabelleInv' /\ GeraetInv'
  BY <1>1, TabelleBleibt DEF ListeInv, GeraetInv
<1> QED BY <1>2, <1>3, AnfangGeht DEF ListeInv

LEMMA VerlassenListe ==
  ASSUME ListeInv, Verlassen
  PROVE  ListeInv'
  BY GeschlossenInv DEF Verlassen, ListeInv, GeraetInv, geraet

LEMMA LoadKeysListe ==
  ASSUME IInv, ListeInv, loadBestellungenKeys, Meine \subseteq Meine'
  PROVE  ListeInv'
<1>1. GefundenInv'
  BY NeueEintraegeInv DEF loadBestellungenKeys, ListeInv
<1>2. AnfangInv' /\ GeraetInv'
  BY AnfangGeht DEF loadBestellungenKeys, ListeInv, GeraetInv, geraet
<1>3. Bestellungen' = <<>>
  BY DEF loadBestellungenKeys, ListeInv, AnfangInv
<1>4. TabelleInv'
  <2>1. <<>> \in Seq(ToSet(<<>>)) /\ DOMAIN <<>> = {}
    BY DEF ToSet
  <2> QED BY <1>3, <2>1 DEF TabelleInv, JedeEinmal, Injektiv
<1> QED BY <1>1, <1>2, <1>4 DEF ListeInv

\* Orders, acknowledgements and broken connections only add to what is seen.
LEMMA ZuhoerenListe ==
  ASSUME IInv, IInv', ListeInv, Zuhoeren, Meine \subseteq Meine'
  PROVE  ListeInv'
<1>1. /\ UNCHANGED <<ansicht, aktuelleBar, bestellungIDs, gefragt, geladen, rest, Bestellungen,
                     selbesGeraet, getrennt>>
  BY DEF Zuhoeren, geraet
<1>2. Eintraege(Geschehenes)' \subseteq Meine'
  <2>1. (IInv => Eintraege(Geschehenes) \subseteq Meine)'
    BY EintraegeMeine, PTL
  <2> QED BY <2>1
<1>3. gesehen' = IF ansicht = "offen" /\ Online THEN gesehen \cup Eintraege(Geschehenes)' ELSE gesehen
  BY <1>1 DEF Zuhoeren, Geschehenes, Eintraege
<1>4. GefundenInv'
  BY <1>1, <1>2, <1>3, GefundenBleibt DEF ListeInv, GefundenInv
<1>5. AnfangInv'
  BY <1>1, <1>3 DEF ListeInv, AnfangInv
<1>6. TabelleInv' /\ GeraetInv'
  BY <1>1, TabelleBleibt DEF ListeInv, GeraetInv
<1> QED BY <1>4, <1>5, <1>6 DEF ListeInv

LEMMA BeendenListe ==
  ASSUME ListeInv, NEW g, Beenden(g), Meine \subseteq Meine'
  PROVE  ListeInv'
<1>1. UNCHANGED <<selbesGeraet, getrennt>>
  BY DEF Beenden, geraet
<1>2. CASE Geschlossen
  BY <1>1, <1>2, GeschlossenInv DEF ListeInv, GeraetInv
<1>3. CASE UNCHANGED listeVars
  <2>1. UNCHANGED <<ansicht, aktuelleBar, gesehen, bestellungIDs, gefragt, geladen, rest, Bestellungen>>
    BY <1>3 DEF listeVars
  <2>2. GefundenInv'
    <3>1. gesehen \subseteq gesehen' /\ gesehen' \subseteq Meine'
      BY <2>1 DEF ListeInv, GefundenInv
    <3> QED BY <2>1, <3>1, GefundenBleibt DEF ListeInv
  <2>3. AnfangInv'
    BY <2>1 DEF ListeInv, AnfangInv
  <2> QED BY <1>1, <2>1, <2>2, <2>3, TabelleBleibt DEF ListeInv, GeraetInv
<1> QED BY <1>2, <1>3 DEF Beenden

LEMMA TrennenListe ==
  ASSUME ListeInv, Trennen, Meine \subseteq Meine'
  PROVE  ListeInv'
<1>1. /\ UNCHANGED <<ansicht, aktuelleBar, gesehen, bestellungIDs, gefragt, geladen, rest,
                     Bestellungen, selbesGeraet>>
      /\ getrennt' = <<TRUE, getrennt[2] + 1>> /\ getrennt[2] \in Nat
  BY DEF Trennen, listeVars, ListeInv, GeraetInv
<1>2. getrennt'[2] # 0 /\ getrennt' \in BOOLEAN \X Nat
  <2>1. PICK n : n = getrennt[2] + 1
    OBVIOUS
  <2>2. n \in Nat /\ n # 0
    BY <1>1, <2>1
  <2>3. getrennt' = <<TRUE, n>>
    BY <1>1, <2>1
  <2> QED BY <2>2, <2>3
<1>3. GefundenInv'
  <2>1. gesehen \subseteq gesehen' /\ gesehen' \subseteq Meine'
    BY <1>1 DEF ListeInv, GefundenInv
  <2> QED BY <1>1, <2>1, GefundenBleibt DEF ListeInv
<1>4. AnfangInv'
  BY <1>1 DEF ListeInv, AnfangInv
<1>5. TabelleInv' /\ GeraetInv'
  BY <1>1, <1>2 DEF ListeInv, TabelleInv, GeraetInv
<1> QED BY <1>3, <1>4, <1>5 DEF ListeInv

LEMMA VerbindenListe ==
  ASSUME IInv, ListeInv, Verbinden, Meine \subseteq Meine'
  PROVE  ListeInv'
<1>1. /\ UNCHANGED <<ansicht, aktuelleBar, geladen, rest, Bestellungen, selbesGeraet>>
      /\ getrennt' = <<FALSE, getrennt[2]>> /\ getrennt[1] = TRUE
  BY DEF Verbinden, Online, ListeInv, GeraetInv
<1>2. getrennt'[2] # 0 /\ getrennt' \in BOOLEAN \X Nat
  BY <1>1 DEF ListeInv, GeraetInv
<1>3. GeraetInv'
  BY <1>1, <1>2 DEF ListeInv, GeraetInv
<1>4. /\ GefundenInv' /\ ToSet(bestellungIDs) \subseteq ToSet(bestellungIDs')
      /\ ansicht # "offen" => UNCHANGED <<gesehen, bestellungIDs, gefragt>>
  <2>1. CASE ansicht = "offen"
    BY <1>1, <2>1, NeueEintraegeInv DEF Verbinden, ListeInv
  <2>2. CASE ansicht # "offen"
    <3>1. UNCHANGED <<gesehen, bestellungIDs, gefragt>>
      BY <2>2 DEF Verbinden
    <3>2. gesehen \subseteq gesehen' /\ gesehen' \subseteq Meine'
      BY <3>1 DEF ListeInv, GefundenInv
    <3> QED BY <1>1, <2>2, <3>1, <3>2, GefundenBleibt DEF ListeInv
  <2> QED BY <2>1, <2>2
<1>5. AnfangInv'
  BY <1>1, <1>4 DEF ListeInv, AnfangInv
<1>6. TabelleInv'
  BY <1>1, <1>2, <1>4 DEF ListeInv, TabelleInv
<1> QED BY <1>3, <1>4, <1>5, <1>6 DEF ListeInv

-----------------------------------------------------------------------------
(* The answer about an order.                                              *)

\* No order is found twice.
LEMMA AnzahlGefunden ==
  ASSUME GefundenInv
  PROVE  /\ IsFiniteSet(ToSet(bestellungIDs))
         /\ Cardinality(ToSet(bestellungIDs)) = Len(bestellungIDs)
<1> DEFINE N == Len(bestellungIDs)
           I == 1..N
           S == ToSet(bestellungIDs)
<1>1. bestellungIDs \in Seq(S) /\ Injektiv(bestellungIDs)
  BY DEF GefundenInv
<1>2. N \in Nat /\ DOMAIN bestellungIDs = I /\ bestellungIDs \in [I -> S]
  BY <1>1
<1>3. IsFiniteSet(I) /\ Cardinality(I) = N
  <2>1. IsFiniteSet(I) /\ Cardinality(I) = IF 1 > N THEN 0 ELSE N - 1 + 1
    BY <1>2, FS_Interval
  <2> QED BY <1>2, <2>1
<1> HIDE DEF N, I
<1>4. bestellungIDs \in Bijection(I, S)
  <2>1. \A y \in S : \E i \in I : bestellungIDs[i] = y
    BY <1>2 DEF ToSet
  <2>2. \A i, j \in I : bestellungIDs[i] = bestellungIDs[j] => i = j
    BY <1>1, <1>2 DEF Injektiv
  <2> HIDE DEF S
  <2>3. bestellungIDs \in Injection(I, S)
    BY <1>2, <2>2 DEF Injection, IsInjective
  <2>4. bestellungIDs \in Surjection(I, S)
    BY <1>2, <2>1 DEF Surjection
  <2> QED BY <2>3, <2>4 DEF Bijection
<1> HIDE DEF S
<1>5. IsFiniteSet(S) /\ Cardinality(S) = N
  <2>1. ExistsBijection(I, S)
    BY <1>4 DEF ExistsBijection
  <2> QED BY <1>3, <2>1, FS_Bijection
<1> QED BY <1>5 DEF S, N

\* If as many orders are loaded as were found, all are, and the other way round.
LEMMA AlleGeladenLesen ==
  ASSUME GefundenInv, NEW g, DOMAIN g \subseteq ToSet(bestellungIDs)
  PROVE  AlleGeladen(g) <=> DOMAIN g = ToSet(bestellungIDs)
<1> DEFINE S == ToSet(bestellungIDs)
<1>1. IsFiniteSet(S) /\ Cardinality(S) = Len(bestellungIDs)
  BY AnzahlGefunden
<1>2. DOMAIN g \in SUBSET S
  OBVIOUS
<1> HIDE DEF S
<1>3. Cardinality(DOMAIN g) = Cardinality(S) <=> DOMAIN g = S
  BY <1>1, <1>2, FS_Subset
<1> QED BY <1>1, <1>3 DEF AlleGeladen, S

LEMMA AbschnitteLesen ==
  ASSUME GefundenInv, NEW g, NEW s, s = Zeigen(g)
  PROVE  /\ s \in Seq(ToSet(s)) /\ DOMAIN s = DOMAIN bestellungIDs
         /\ \A n \in DOMAIN s : s[n].id = bestellungIDs[n] /\ s[n].id \in ToSet(bestellungIDs)
<1>1. bestellungIDs \in Seq(ToSet(bestellungIDs))
  BY DEF GefundenInv
<1>2. DOMAIN bestellungIDs = 1..Len(bestellungIDs) /\ Len(bestellungIDs) \in Nat
  BY <1>1
<1>3. s = [n \in 1..Len(bestellungIDs) |-> Abschnitt(g, bestellungIDs[n])]
  BY <1>2 DEF Zeigen
<1>4. /\ DOMAIN s = 1..Len(bestellungIDs)
      /\ \A n \in 1..Len(bestellungIDs) : s[n].id = bestellungIDs[n]
  BY <1>3 DEF Abschnitt
<1>5. s \in Seq(ToSet(s))
  <2>1. \A n \in 1..Len(bestellungIDs) : s[n] \in ToSet(s)
    BY <1>4 DEF ToSet
  <2>2. s \in [1..Len(bestellungIDs) -> ToSet(s)]
    BY <1>3, <2>1
  <2> QED BY <1>2, <2>2
<1> QED BY <1>2, <1>4, <1>5 DEF ToSet

LEMMA AntwortLesen ==
  ASSUME NEW id, loadBestellungen(id)
  PROVE  /\ id \in gefragt /\ gefragt' = gefragt \ {id} /\ ansicht = "offen"
         /\ DOMAIN geladen' \subseteq DOMAIN geladen \cup {id}
         /\ UNCHANGED <<vars, aktuelleBar, gesehen, bestellungIDs, selbesGeraet, getrennt>>
         /\ \/ UNCHANGED <<Bestellungen, ansicht>>
            \/ ansicht' = "abgestuerzt" /\ UNCHANGED Bestellungen
            \/ AlleGeladen(geladen') /\ Bestellungen' = Bestellungen \o Zeigen(geladen')
               /\ UNCHANGED ansicht
<1> DEFINE fund == Fund(Snapshot(Baum(Sicht, aktuelleBar, id)), rest)
           g == IF fund.Kategorien = <<>> THEN geladen
                ELSE [n \in DOMAIN geladen \cup {id} |-> IF n = id THEN fund ELSE geladen[n]]
           ab == \/ fund.trap
                 \/ AlleGeladen(g) /\ ~(\A n \in ToSet(bestellungIDs) :
                                          n \in DOMAIN g /\ Vollstaendig(Sicht, n, g[n]))
<1>1. /\ id \in gefragt /\ gefragt' = gefragt \ {id} /\ ansicht = "offen" /\ geladen' = g
      /\ UNCHANGED <<vars, aktuelleBar, gesehen, bestellungIDs, selbesGeraet, getrennt>>
  BY DEF loadBestellungen, geraet
<1>2. IF ab THEN ansicht' = "abgestuerzt" /\ UNCHANGED Bestellungen
            ELSE /\ Bestellungen' = IF AlleGeladen(g) THEN Bestellungen \o Zeigen(g) ELSE Bestellungen
                 /\ UNCHANGED ansicht
  BY DEF loadBestellungen
<1> HIDE DEF fund, ab
<1>3. DOMAIN g \subseteq DOMAIN geladen \cup {id}
  OBVIOUS
<1> HIDE DEF g
<1> QED BY <1>1, <1>2, <1>3

LEMMA LoadListe ==
  ASSUME ListeInv, NEW id, loadBestellungen(id), Meine \subseteq Meine'
  PROVE  ListeInv'
<1>1. /\ id \in gefragt /\ gefragt' = gefragt \ {id} /\ ansicht = "offen"
      /\ DOMAIN geladen' \subseteq DOMAIN geladen \cup {id}
      /\ UNCHANGED <<gesehen, bestellungIDs, selbesGeraet, getrennt>>
      /\ \/ UNCHANGED <<Bestellungen, ansicht>>
         \/ ansicht' = "abgestuerzt" /\ UNCHANGED Bestellungen
         \/ AlleGeladen(geladen') /\ Bestellungen' = Bestellungen \o Zeigen(geladen')
            /\ UNCHANGED ansicht
  BY AntwortLesen
<1>2. GefundenInv /\ AnfangInv /\ TabelleInv /\ GeraetInv
  BY DEF ListeInv
<1>3. GefundenInv'
  BY <1>1, <1>2 DEF GefundenInv, Injektiv
<1>4. AnfangInv' /\ GeraetInv'
  BY <1>1, <1>2 DEF AnfangInv, GeraetInv
<1>5. TabelleInv'
  <2>1. CASE UNCHANGED Bestellungen
    BY <1>1, <1>2, <2>1 DEF TabelleInv, JedeEinmal, Injektiv
  <2>2. CASE AlleGeladen(geladen') /\ Bestellungen' = Bestellungen \o Zeigen(geladen')
    <3>1. DOMAIN geladen' = ToSet(bestellungIDs)
      <4>1. DOMAIN geladen' \subseteq ToSet(bestellungIDs)
        BY <1>1, <1>2 DEF GefundenInv
      <4> QED BY <1>2, <2>2, <4>1, AlleGeladenLesen
    <3>2. gefragt' = {}
      BY <1>1, <1>3, <3>1 DEF GefundenInv
    <3> DEFINE s == Bestellungen
               t == Zeigen(geladen')
               T == ToSet(s) \cup ToSet(t)
    <3>3. /\ t \in Seq(ToSet(t)) /\ DOMAIN t = DOMAIN bestellungIDs
          /\ \A n \in DOMAIN t : t[n].id = bestellungIDs[n] /\ t[n].id \in ToSet(bestellungIDs)
      BY <1>2, AbschnitteLesen
    <3>4. s \in Seq(ToSet(s)) /\ \A n \in DOMAIN s : s[n].id \in ToSet(bestellungIDs)
      BY <1>2 DEF TabelleInv
    <3> HIDE DEF t
    <3>5. s \in Seq(T) /\ t \in Seq(T)
      BY <3>3, <3>4
    <3> HIDE DEF T
    <3>6. /\ s \o t \in Seq(T) /\ ToSet(s \o t) = ToSet(s) \cup ToSet(t)
          /\ Len(s \o t) = Len(s) + Len(t)
          /\ \A i \in 1..Len(s) + Len(t) : (s \o t)[i] = IF i <= Len(s) THEN s[i] ELSE t[i - Len(s)]
      BY <3>5, MengeVerkettet, ConcatProperties
    <3>7. Bestellungen' \in Seq(ToSet(Bestellungen'))
      BY <2>2, <3>6, FolgeIhrerWerte DEF t
    <3>8. \A n \in DOMAIN Bestellungen' : Bestellungen'[n].id \in ToSet(bestellungIDs)
      <4>1. \A x \in ToSet(s) \cup ToSet(t) : x.id \in ToSet(bestellungIDs)
        BY <3>3, <3>4 DEF ToSet
      <4>2. \A n \in DOMAIN Bestellungen' : Bestellungen'[n] \in ToSet(Bestellungen')
        BY DEF ToSet
      <4>3. ToSet(Bestellungen') = ToSet(s) \cup ToSet(t)
        BY <2>2, <3>6 DEF t
      <4> QED BY <4>1, <4>2, <4>3
    <3>9. ASSUME getrennt[2] = 0 PROVE JedeEinmal'
      <4>1. s = <<>>
        BY <1>1, <1>2, <3>9 DEF TabelleInv
      <4>2. Bestellungen' = t
        BY <2>2, <3>3, <4>1 DEF t
      <4>3. \A m, n \in DOMAIN t : t[m].id = t[n].id => m = n
        BY <1>2, <3>3 DEF GefundenInv, Injektiv
      <4> QED BY <4>2, <4>3 DEF JedeEinmal, Injektiv
    <3> QED BY <1>1, <3>2, <3>7, <3>8, <3>9 DEF TabelleInv
  <2> QED BY <1>1, <2>1, <2>2
<1> QED BY <1>3, <1>4, <1>5 DEF ListeInv

-----------------------------------------------------------------------------
(* Theorems.                                                               *)

LEMMA ListeInitInv == ListeInit => IInv /\ ListeInv
<1> SUFFICES ASSUME ListeInit PROVE IInv /\ ListeInv
  OBVIOUS
<1>1. IInv
  BY InitInv DEF ListeInit
<1>2. <<>> \in Seq(ToSet(<<>>)) /\ ToSet(<<>>) = {} /\ DOMAIN <<>> = {}
  BY DEF ToSet
<1>3. GefundenInv
  BY <1>2 DEF ListeInit, Zu, GefundenInv, Injektiv
<1>4. AnfangInv
  BY DEF ListeInit, Zu, AnfangInv
<1>5. TabelleInv
  BY <1>2 DEF ListeInit, Zu, TabelleInv, JedeEinmal, Injektiv
<1>6. GeraetInv
  BY ListeAssumption DEF ListeInit, GeraetInv, ListeAssumption
<1> QED BY <1>1, <1>3, <1>4, <1>5, <1>6 DEF ListeInv

LEMMA ListeNextInv == IInv /\ ListeInv /\ [ListeNext]_alleVars => IInv' /\ ListeInv'
<1> SUFFICES ASSUME IInv, ListeInv, [ListeNext]_alleVars PROVE IInv' /\ ListeInv'
  OBVIOUS
<1>1. [Next]_vars
  BY SendenTeil
<1>2. IInv' /\ Meine \subseteq Meine'
  BY <1>1, NextInv, MeineWachsen
<1>3. CASE viewDidLoad \/ Verlassen \/ loadAktuelleBar \/ loadBestellungenKeys
  BY <1>2, <1>3, ViewDidLoadListe, VerlassenListe, LoadKeysListe
<1>4. ASSUME NEW id \in gefragt, loadBestellungen(id) PROVE ListeInv'
  BY <1>2, <1>4, LoadListe
<1>5. CASE Bestellen
  BY <1>2, <1>5, ZuhoerenListe DEF Bestellen
<1>6. ASSUME NEW g \in Gaeste, Uebertragen(g) \/ NochmalUebertragen(g) PROVE ListeInv'
  BY <1>2, <1>6, ZuhoerenListe DEF Uebertragen, NochmalUebertragen
<1>7. ASSUME NEW g \in Gaeste, Beenden(g) PROVE ListeInv'
  BY <1>2, <1>7, BeendenListe
<1>8. CASE Trennen \/ Verbinden
  BY <1>2, <1>8, TrennenListe, VerbindenListe
<1>9. CASE UNCHANGED alleVars
  <2>1. /\ UNCHANGED <<ansicht, aktuelleBar, gesehen, bestellungIDs, gefragt, geladen, rest,
                       Bestellungen, selbesGeraet, getrennt>>
    BY <1>9 DEF alleVars, listeVars, geraet
  <2>2. gesehen \subseteq gesehen' /\ gesehen' \subseteq Meine'
    BY <1>2, <2>1 DEF ListeInv, GefundenInv
  <2>3. GefundenInv' /\ TabelleInv'
    BY <1>2, <2>1, <2>2, GefundenBleibt, TabelleBleibt DEF ListeInv
  <2>4. AnfangInv' /\ GeraetInv'
    BY <2>1 DEF ListeInv, AnfangInv, GeraetInv
  <2> QED BY <1>2, <2>3, <2>4 DEF ListeInv
<1> QED BY <1>2, <1>3, <1>4, <1>5, <1>6, <1>7, <1>8, <1>9, Zenon DEF ListeNext

\* The orders and the list, whatever their steps in between.
THEOREM ListeSpecIInv == ListeSpec => [](IInv /\ ListeInv)
  BY ListeInitInv, ListeNextInv, PTL DEF ListeSpec

\* For every guest, phone and number of disconnections: the list never asks for an
\* order twice, nor finds, loads or shows one that is not there.
THEOREM ListeTypKorrekt == ListeSpec => []ListeTypeOK
<1>1. IInv /\ ListeInv => ListeTypeOK
  BY DEF ListeInv, GefundenInv, AnfangInv, ListeTypeOK, Meine, Zu
<1> QED BY <1>1, ListeSpecIInv, PTL

\* While the list's phone has not lost its connection, every order is listed at
\* most once, in whichever order the answers come and whatever is ordered meanwhile.
THEOREM NurEinmalGelistet == ListeSpec => []NurEinmal
<1>1. IInv /\ ListeInv => NurEinmal
  BY DEF ListeInv, TabelleInv, NurEinmal
<1> QED BY <1>1, ListeSpecIInv, PTL
-----------------------------------------------------------------------------
(* What is read of an order is a tree that the reader can read.            *)

LEMMA BildEndlich ==
  ASSUME NEW S, IsFiniteSet(S), NEW f, NEW T, T = {f[x] : x \in S}
  PROVE  IsFiniteSet(T)
<1> DEFINE g == [x \in S |-> f[x]]
<1>1. g \in [S -> T] /\ \A y \in T : \E x \in S : g[x] = y
  OBVIOUS
<1> HIDE DEF g
<1>2. g \in Surjection(S, T)
  BY <1>1 DEF Surjection
<1> QED BY <1>2, FS_Surjection

\* The nodes of an order: items with the key of their Kategorie and Unterkategorie
\* and a number, and numbered extras.
BaumGut(baum) ==
  /\ IsFiniteSet(DOMAIN baum)
  /\ \A k \in DOMAIN baum :
       /\ Len(k) = 6 => /\ k[4] \in ToSet(Schluesselfolge) /\ k[5] \in ToSet(Schluesselfolge)
                        /\ k[6][2] \in Int
       /\ Len(k) = 8 => k[8] \in Int

\* Every item has an extra.
ImmerExtras(baum) ==
  \A k \in DOMAIN baum : Len(k) = 6 => \E l \in DOMAIN baum : Len(l) = 8 /\ SubSeq(l, 1, 6) = k

LEMMA SortiertLesen ==
  ASSUME NEW S, S \subseteq ToSet(Schluesselfolge), NEW t, t = Sortiert(S)
  PROVE  Folge(t) /\ Injektiv(t) /\ ToSet(t) = S
<1> DEFINE F == Schluesselfolge
           P == {p \in DOMAIN Schluesselfolge : Schluesselfolge[p] \in S}
           stellen == Aufsteigend(P)
<1>1. F \in Seq(ToSet(F)) /\ Injektiv(F)
  BY SchluesselAssumption DEF SchluesselAssumption
<1>2. Len(F) \in Nat /\ DOMAIN F = 1..Len(F)
  BY <1>1
<1>3. P \in SUBSET Int /\ IsFiniteSet(P)
  <2>1. IsFiniteSet(1..Len(F)) /\ P \in SUBSET (1..Len(F))
    BY <1>2, FS_Interval
  <2> HIDE DEF P
  <2>2. IsFiniteSet(P)
    BY <2>1, FS_Subset
  <2> QED BY <2>1, <2>2
<1>4. t = [n \in DOMAIN stellen |-> F[stellen[n]]]
  BY DEF Sortiert
<1>5. \A p \in P : p \in DOMAIN F /\ F[p] \in S
  OBVIOUS
<1>6. \A y \in S : \E p \in P : F[p] = y
  BY DEF ToSet
<1> HIDE DEF P
<1>7. /\ Cardinality(P) \in Nat /\ DOMAIN stellen = 1..Cardinality(P)
      /\ ToSet(stellen) = P /\ Injektiv(stellen)
  BY <1>3, AufsteigendLesen
<1> HIDE DEF stellen, F
<1>8. \A n \in DOMAIN stellen : stellen[n] \in P
  BY <1>7 DEF ToSet
<1>9. \A p \in P : \E n \in DOMAIN stellen : stellen[n] = p
  BY <1>7 DEF ToSet
<1>10. DOMAIN t = 1..Cardinality(P) /\ \A n \in 1..Cardinality(P) : t[n] = F[stellen[n]] /\ t[n] \in S
  BY <1>4, <1>5, <1>7, <1>8
<1>11. ToSet(t) = S
  <2>1. \A y \in S : \E n \in 1..Cardinality(P) : t[n] = y
    BY <1>6, <1>7, <1>9, <1>10
  <2> QED BY <1>10, <2>1 DEF ToSet
<1>12. Folge(t)
  <2>1. t = [n \in 1..Cardinality(P) |-> t[n]]
    BY <1>4, <1>7, <1>10
  <2> QED BY <1>7, <1>10, <1>11, <2>1 DEF Folge
<1>13. Injektiv(t)
  BY <1>1, <1>5, <1>7, <1>8, <1>10 DEF Injektiv
<1> QED BY <1>11, <1>12, <1>13

\* A sequence made of another.
LEMMA FolgeGebildet ==
  ASSUME NEW N \in Nat, NEW t, t = [n \in 1..N |-> t[n]]
  PROVE  Folge(t) /\ Len(t) = N /\ DOMAIN t = 1..N
<1>1. \A n \in 1..N : t[n] \in ToSet(t)
  BY DEF ToSet
<1>2. t \in [1..N -> ToSet(t)]
  BY <1>1
<1> QED BY <1>2 DEF Folge

LEMMA ExtrasAnzahl ==
  ASSUME NEW baum, BaumGut(baum), NEW item, NEW t, t = ExtrasVonZeile(baum, item)
  PROVE  /\ Folge(t) /\ Len(t) \in Nat
         /\ ImmerExtras(baum) /\ item \in DOMAIN baum /\ Len(item) = 6 => Len(t) # 0
<1> DEFINE K == {k \in DOMAIN baum : Len(k) = 8 /\ SubSeq(k, 1, 6) = item}
           S == {k[8] : k \in K}
           nummern == Aufsteigend(S)
           e(n) == [Name  |-> WertIn(baum, item \o <<"Extras", nummern[n]>>, "Name", ""),
                    Preis |-> WertIn(baum, item \o <<"Extras", nummern[n]>>, "Preis", 0)]
<1>1. t = [n \in DOMAIN nummern |-> e(n)]
  BY DEF ExtrasVonZeile
<1>2. IsFiniteSet(K) /\ S \in SUBSET Int
  <2>1. IsFiniteSet(DOMAIN baum) /\ K \in SUBSET (DOMAIN baum) /\ S \in SUBSET Int
    BY DEF BaumGut
  <2> HIDE DEF K
  <2> QED BY <2>1, FS_Subset
<1>3. IsFiniteSet(S)
  <2> DEFINE f == [k \in K |-> k[8]]
  <2>1. S = {f[k] : k \in K}
    OBVIOUS
  <2> HIDE DEF f, S, K
  <2> QED BY <1>2, <2>1, BildEndlich
<1>6. ASSUME ImmerExtras(baum), item \in DOMAIN baum, Len(item) = 6 PROVE S # {}
  <2>1. PICK l \in DOMAIN baum : Len(l) = 8 /\ SubSeq(l, 1, 6) = item
    BY <1>6 DEF ImmerExtras
  <2>2. l[8] \in S
    BY <2>1
  <2> HIDE DEF S
  <2> QED BY <2>2
<1> HIDE DEF S, K
<1>4. Cardinality(S) \in Nat /\ DOMAIN nummern = 1..Cardinality(S)
  BY <1>2, <1>3, AufsteigendLesen
<1>7. S # {} => Cardinality(S) # 0
  BY <1>3, FS_EmptySet
<1> HIDE DEF nummern
<1>5. t = [n \in 1..Cardinality(S) |-> t[n]]
  BY <1>1, <1>4
<1>8. Folge(t) /\ Len(t) = Cardinality(S)
  BY <1>4, <1>5, FolgeGebildet
<1> QED BY <1>4, <1>6, <1>7, <1>8

LEMMA ZeilenGut ==
  ASSUME NEW baum, BaumGut(baum), NEW kat, NEW ukat, NEW z, z = Zeilen(baum, kat, ukat),
         NEW m \in DOMAIN baum, Len(m) = 6, m[4] = kat, m[5] = ukat
  PROVE  /\ Folge(z) /\ Len(z) \in Nat \ {0}
         /\ \A i \in 1..Len(z) : Len(z[i].extras) \in Nat
         /\ ImmerExtras(baum) => ExtrasGut(z, FALSE)
<1> DEFINE K == {k \in DOMAIN baum : Len(k) = 6 /\ k[4] = kat /\ k[5] = ukat}
           S == {k[6][2] : k \in K}
           nummern == Aufsteigend(S)
           item(n) == CHOOSE k \in K : k[6][2] = nummern[n]
           werte(n) == [Name      |-> WertIn(baum, item(n), "Name", ""),
                        Menge     |-> WertIn(baum, item(n), "Menge", 0),
                        Preis     |-> WertIn(baum, item(n), "Preis", 0),
                        Kommentar |-> WertIn(baum, item(n), "Kommentar", "kein Kommentar")]
<1>1. z = [n \in DOMAIN nummern |-> [item |-> werte(n), extras |-> ExtrasVonZeile(baum, item(n))]]
  BY DEF Zeilen
<1>2. IsFiniteSet(K) /\ S \in SUBSET Int /\ S # {}
  <2>1. IsFiniteSet(DOMAIN baum) /\ K \in SUBSET (DOMAIN baum) /\ S \in SUBSET Int
    BY DEF BaumGut
  <2>2. m[6][2] \in S
    OBVIOUS
  <2> HIDE DEF K, S
  <2> QED BY <2>1, <2>2, FS_Subset
<1>3. IsFiniteSet(S)
  <2> DEFINE f == [k \in K |-> k[6][2]]
  <2>1. S = {f[k] : k \in K}
    OBVIOUS
  <2> HIDE DEF f, S, K
  <2> QED BY <1>2, <2>1, BildEndlich
<1>9. \A n : nummern[n] \in S => item(n) \in DOMAIN baum /\ Len(item(n)) = 6
  <2> SUFFICES ASSUME NEW n, nummern[n] \in S PROVE item(n) \in K
    OBVIOUS
  <2>1. PICK k \in K : k[6][2] = nummern[n]
    OBVIOUS
  <2> HIDE DEF K, nummern
  <2> QED BY <2>1
<1> HIDE DEF S, werte, item
<1>4. /\ Cardinality(S) \in Nat /\ Cardinality(S) # 0 /\ DOMAIN nummern = 1..Cardinality(S)
      /\ ToSet(nummern) = S
  BY <1>2, <1>3, AufsteigendLesen, FS_EmptySet
<1>10. \A n \in 1..Cardinality(S) : nummern[n] \in S
  BY <1>4 DEF ToSet
<1> HIDE DEF nummern
<1>5. z = [n \in 1..Cardinality(S) |-> z[n]]
  BY <1>1, <1>4
<1>6. Folge(z) /\ Len(z) = Cardinality(S)
  BY <1>4, <1>5, FolgeGebildet
<1>7. \A i \in 1..Len(z) : z[i].extras = ExtrasVonZeile(baum, item(i))
  BY <1>1, <1>4, <1>6
<1>8. \A i \in 1..Len(z) : Len(z[i].extras) \in Nat
  BY <1>7, ExtrasAnzahl
<1>11. ASSUME ImmerExtras(baum) PROVE ExtrasGut(z, FALSE)
  <2>1. ASSUME NEW i \in 1..Len(z) PROVE Folge(z[i].extras) /\ Len(z[i].extras) # 0
    <3>1. item(i) \in DOMAIN baum /\ Len(item(i)) = 6
      BY <1>6, <1>9, <1>10
    <3> QED BY <1>7, <1>11, <3>1, ExtrasAnzahl
  <2> QED BY <2>1 DEF ExtrasGut
<1> QED BY <1>4, <1>6, <1>8, <1>11
\* The Unterkategorien of a Kategorie.
Kinder(baum, kat) ==
  LET namen == Sortiert({k[5] : k \in {k \in DOMAIN baum : Len(k) = 6 /\ k[4] = kat}}) IN
  [j \in DOMAIN namen |-> [key |-> namen[j], zeilen |-> Zeilen(baum, kat, namen[j])]]

KinderStimmen(s) ==
  /\ Folge(s) /\ Len(s) \in Nat \ {0} /\ Injektiv([u \in DOMAIN s |-> s[u].key])
  /\ \A u \in 1..Len(s) :
       /\ Folge(s[u].zeilen) /\ Len(s[u].zeilen) \in Nat \ {0}
       /\ \A i \in 1..Len(s[u].zeilen) : Len(s[u].zeilen[i].extras) \in Nat

LEMMA KinderGut ==
  ASSUME NEW baum, BaumGut(baum), NEW kat, NEW s, s = Kinder(baum, kat),
         NEW m \in DOMAIN baum, Len(m) = 6, m[4] = kat
  PROVE  /\ KinderStimmen(s)
         /\ ImmerExtras(baum) => \A u \in 1..Len(s) : ExtrasGut(s[u].zeilen, FALSE)
<1> DEFINE K == {k \in DOMAIN baum : Len(k) = 6 /\ k[4] = kat}
           S == {k[5] : k \in K}
           namen == Sortiert(S)
<1>1. s = [j \in DOMAIN namen |-> [key |-> namen[j], zeilen |-> Zeilen(baum, kat, namen[j])]]
  BY DEF Kinder
<1>2. S \subseteq ToSet(Schluesselfolge) /\ m[5] \in S
  BY DEF BaumGut
<1>3. \A x \in S : \E k \in DOMAIN baum : Len(k) = 6 /\ k[4] = kat /\ k[5] = x
  OBVIOUS
<1> HIDE DEF S
<1>4. Folge(namen) /\ Injektiv(namen) /\ ToSet(namen) = S
  BY <1>2, SortiertLesen
<1> HIDE DEF namen
<1>5. /\ DOMAIN namen = 1..Len(namen) /\ Len(namen) \in Nat /\ Len(namen) # 0
      /\ \A j \in 1..Len(namen) : namen[j] \in S
  <2>1. DOMAIN namen = 1..Len(namen) /\ Len(namen) \in Nat
    BY <1>4 DEF Folge
  <2>2. \E j \in DOMAIN namen : namen[j] = m[5]
    BY <1>2, <1>4 DEF ToSet
  <2>3. Len(namen) # 0
    BY <2>1, <2>2
  <2> QED BY <1>4, <2>1, <2>3 DEF ToSet
<1>6. s = [j \in 1..Len(namen) |-> s[j]]
  BY <1>1, <1>5
<1>7. Folge(s) /\ Len(s) = Len(namen) /\ DOMAIN s = 1..Len(namen)
  BY <1>5, <1>6, FolgeGebildet
<1>8. \A j \in 1..Len(namen) : s[j].key = namen[j] /\ s[j].zeilen = Zeilen(baum, kat, namen[j])
  BY <1>1, <1>5
<1>9. Injektiv([u \in DOMAIN s |-> s[u].key])
  BY <1>4, <1>5, <1>7, <1>8 DEF Injektiv
<1>10. ASSUME NEW u \in 1..Len(s)
       PROVE  /\ Folge(s[u].zeilen) /\ Len(s[u].zeilen) \in Nat \ {0}
              /\ \A i \in 1..Len(s[u].zeilen) : Len(s[u].zeilen[i].extras) \in Nat
              /\ ImmerExtras(baum) => ExtrasGut(s[u].zeilen, FALSE)
  <2> DEFINE z == s[u].zeilen  ukat == namen[u]
  <2>1. z = Zeilen(baum, kat, ukat) /\ ukat \in S
    BY <1>5, <1>7, <1>8
  <2> HIDE DEF z, ukat
  <2>2. PICK k \in DOMAIN baum : Len(k) = 6 /\ k[4] = kat /\ k[5] = ukat
    BY <1>3, <2>1
  <2>3. /\ Folge(z) /\ Len(z) \in Nat \ {0}
        /\ \A i \in 1..Len(z) : Len(z[i].extras) \in Nat
        /\ ImmerExtras(baum) => ExtrasGut(z, FALSE)
    BY <2>1, <2>2, ZeilenGut
  <2> QED BY <2>3 DEF z
<1>11. KinderStimmen(s)
  BY <1>5, <1>7, <1>9, <1>10 DEF KinderStimmen
<1> QED BY <1>10, <1>11

LEMMA SnapshotGut ==
  ASSUME NEW baum, BaumGut(baum), NEW s, s = Snapshot(baum)
  PROVE  /\ IstSnapshot(s)
         /\ ImmerExtras(baum) =>
              \A k \in 1..Len(s) : \A u \in 1..Len(s[k].kinder) :
                ExtrasGut(s[k].kinder[u].zeilen, FALSE)
<1> DEFINE K == {k \in DOMAIN baum : Len(k) = 6}
           S == {k[4] : k \in K}
           kats == Sortiert(S)
<1>1. s = [i \in DOMAIN kats |-> [key |-> kats[i], kinder |-> Kinder(baum, kats[i])]]
  <2>1. \A kat : {k \in K : k[4] = kat} = {k \in DOMAIN baum : Len(k) = 6 /\ k[4] = kat}
    OBVIOUS
  <2> QED BY <2>1, Zenon DEF Snapshot, Kinder
<1>2. S \subseteq ToSet(Schluesselfolge)
  BY DEF BaumGut
<1>3. \A x \in S : \E k \in DOMAIN baum : Len(k) = 6 /\ k[4] = x
  OBVIOUS
<1> HIDE DEF S
<1>4. Folge(kats) /\ Injektiv(kats) /\ ToSet(kats) = S
  BY <1>2, SortiertLesen
<1> HIDE DEF kats
<1>5. /\ DOMAIN kats = 1..Len(kats) /\ Len(kats) \in Nat
      /\ \A j \in 1..Len(kats) : kats[j] \in S
  <2>1. DOMAIN kats = 1..Len(kats) /\ Len(kats) \in Nat
    BY <1>4 DEF Folge
  <2> QED BY <1>4, <2>1 DEF ToSet
<1>6. s = [j \in 1..Len(kats) |-> s[j]]
  BY <1>1, <1>5
<1>7. Folge(s) /\ Len(s) = Len(kats) /\ DOMAIN s = 1..Len(kats)
  BY <1>5, <1>6, FolgeGebildet
<1>8. \A j \in 1..Len(kats) : s[j].key = kats[j] /\ s[j].kinder = Kinder(baum, kats[j])
  BY <1>1, <1>5
<1>9. Injektiv([u \in DOMAIN s |-> s[u].key])
  BY <1>4, <1>5, <1>7, <1>8 DEF Injektiv
<1>10. ASSUME NEW k \in 1..Len(s)
       PROVE  /\ Folge(s[k].kinder) /\ Len(s[k].kinder) \in Nat \ {0}
              /\ Injektiv([u \in DOMAIN s[k].kinder |-> s[k].kinder[u].key])
              /\ \A u \in 1..Len(s[k].kinder) :
                   /\ Folge(s[k].kinder[u].zeilen) /\ Len(s[k].kinder[u].zeilen) \in Nat \ {0}
                   /\ \A i \in 1..Len(s[k].kinder[u].zeilen) :
                        Len(s[k].kinder[u].zeilen[i].extras) \in Nat
                   /\ ImmerExtras(baum) => ExtrasGut(s[k].kinder[u].zeilen, FALSE)
  <2> DEFINE z == s[k].kinder  kat == kats[k]
  <2>1. z = Kinder(baum, kat) /\ kat \in S
    BY <1>5, <1>7, <1>8
  <2> HIDE DEF z, kat
  <2>2. PICK m \in DOMAIN baum : Len(m) = 6 /\ m[4] = kat
    BY <1>3, <2>1
  <2>3. KinderStimmen(z) /\ (ImmerExtras(baum) => \A u \in 1..Len(z) : ExtrasGut(z[u].zeilen, FALSE))
    BY <2>1, <2>2, KinderGut
  <2>4. /\ Folge(z) /\ Len(z) \in Nat \ {0} /\ Injektiv([u \in DOMAIN z |-> z[u].key])
        /\ \A u \in 1..Len(z) :
             /\ Folge(z[u].zeilen) /\ Len(z[u].zeilen) \in Nat \ {0}
             /\ \A i \in 1..Len(z[u].zeilen) : Len(z[u].zeilen[i].extras) \in Nat
             /\ ImmerExtras(baum) => ExtrasGut(z[u].zeilen, FALSE)
    BY <2>3 DEF KinderStimmen
  <2> QED BY <2>4 DEF z
<1>11. IstSnapshot(s)
  BY <1>7, <1>9, <1>10 DEF IstSnapshot
<1> QED BY <1>10, <1>11
-----------------------------------------------------------------------------
(* What two databases hold of an order.                                    *)

IstFunktion(g) == g = [f \in DOMAIN g |-> g[f]]

LEMMA UeberlagertFunktion ==
  ASSUME NEW db, NEW s, NEW neu, neu = Ueberlagert(db, s), \A k \in DOMAIN db : IstFunktion(db[k])
  PROVE  \A k \in DOMAIN neu : IstFunktion(neu[k])
<1> DEFINE N      == {s[i].knoten : i \in DOMAIN s}
           an(k)  == {i \in DOMAIN s : s[i].knoten = k}
           mit(k, f) == {i \in an(k) : f \in DOMAIN s[i].werte}
           alt(k) == IF k \in DOMAIN db THEN DOMAIN db[k] ELSE {}
           F(k)   == alt(k) \cup UNION {DOMAIN s[i].werte : i \in an(k)}
           w(k, f) == IF mit(k, f) = {} THEN db[k][f] ELSE s[Max(mit(k, f))].werte[f]
           wert(k) == [f \in F(k) |-> w(k, f)]
<1>1. neu = [k \in DOMAIN db \cup N |-> IF k \notin N THEN db[k] ELSE wert(k)]
  BY Zenon DEF Ueberlagert
<1>2. ASSUME NEW k PROVE IstFunktion(wert(k))
  <2> HIDE DEF F, w
  <2> QED BY DEF IstFunktion
<1> HIDE DEF N, wert
<1>3. \A k \in DOMAIN neu : (k \in DOMAIN db /\ neu[k] = db[k]) \/ neu[k] = wert(k)
  BY <1>1
<1> QED BY <1>2, <1>3

\* A node of order a: an item or an extra.
InOrdnung(a, k) == Len(k) > 4 /\ SubSeq(k, 1, 3) = BestellungRef(a)

\* An order's nodes are written by the updates of its items.
LEMMA NurItems ==
  ASSUME NEW a, Versendbar(a.dictionary), NEW x \in ToSet(Updates(a)), InOrdnung(a, x.knoten)
  PROVE  x \in ToSet(ItemsUpdates(a))
<1>1. Verschieden(a, a)
  BY DEF Verschieden
<1>2. \/ \E k, j, i : Stelle(a, k, j, i) /\ x.knoten = Item(a, k, j, i)
      \/ \E k, j, i, n : ExtraStelle(a, k, j, i, n) /\ x.knoten = Extra(a, k, j, i, n)
  BY <1>1, ArtUnter DEF InOrdnung
<1>3. ASSUME NEW k, NEW j, NEW i, Stelle(a, k, j, i), x.knoten = Item(a, k, j, i)
      PROVE  x \in ZeileUpdates(a, k, j, i)
  <2>1. x \in ItemUpdate5(a, k, j, i)
    BY <1>1, <1>3, ArtItem
  <2>2. ToSet(Zeile5(a, k, j, i)) = ItemUpdate5(a, k, j, i)
    BY FuenfFolge DEF Zeile5, ItemUpdate5
  <2> QED BY <2>1, <2>2 DEF ZeileUpdates
<1>4. ASSUME NEW k, NEW j, NEW i, NEW n, ExtraStelle(a, k, j, i, n), x.knoten = Extra(a, k, j, i, n)
      PROVE  Stelle(a, k, j, i) /\ x \in ZeileUpdates(a, k, j, i)
  <2>1. x = ExtraName(a, k, j, i, n) \/ x = ExtraPreis(a, k, j, i, n)
    BY <1>1, <1>4, ArtExtra
  <2> QED BY <1>4, <2>1 DEF ZeileUpdates, ExtraStelle
<1>5. \E k, j, i : Stelle(a, k, j, i) /\ x \in ZeileUpdates(a, k, j, i)
  BY <1>2, <1>3, <1>4
<1> QED BY <1>5, ItemsUpdatesMenge

\* Each field of an item is written by one of its updates.
LEMMA ItemFeld ==
  ASSUME NEW a, NEW k, NEW j, NEW i, NEW x \in ItemUpdate5(a, k, j, i),
         NEW y \in ItemUpdate5(a, k, j, i), NEW f, f \in DOMAIN x.werte, f \in DOMAIN y.werte
  PROVE  x = y
<1> DEFINE item == Item(a, k, j, i)
           w1 == [Name      |-> Zelle(a, k, j, i, "ItemsNamen")]
           w2 == [Menge     |-> Zelle(a, k, j, i, "ItemsMengen")]
           w3 == [Preis     |-> Zelle(a, k, j, i, "ItemsPreise")]
           w4 == [Kommentar |-> Zelle(a, k, j, i, "ItemsKommentar")]
           w5 == [bestellungItemId |-> <<j, i>>]
<1>1. \A z : z \in ItemUpdate5(a, k, j, i) <=>
         \/ z = Update(item, w1) \/ z = Update(item, w2) \/ z = Update(item, w3)
         \/ z = Update(item, w4) \/ z = Update(item, w5)
  BY DEF ItemUpdate5
<1>2. \A w : Update(item, w).werte = w
  BY DEF Update
<1>3. /\ DOMAIN w1 = {"Name"} /\ DOMAIN w2 = {"Menge"} /\ DOMAIN w3 = {"Preis"}
      /\ DOMAIN w4 = {"Kommentar"} /\ DOMAIN w5 = {"bestellungItemId"}
  OBVIOUS
<1> HIDE DEF w1, w2, w3, w4, w5, item
<1>4. ASSUME NEW z \in ItemUpdate5(a, k, j, i), f \in DOMAIN z.werte
      PROVE  \/ z = Update(item, w1) /\ f = "Name"
             \/ z = Update(item, w2) /\ f = "Menge"
             \/ z = Update(item, w3) /\ f = "Preis"
             \/ z = Update(item, w4) /\ f = "Kommentar"
             \/ z = Update(item, w5) /\ f = "bestellungItemId"
  BY <1>1, <1>2, <1>3, <1>4
<1> QED BY <1>4

LEMMA ExtraFeld ==
  ASSUME NEW a, NEW k, NEW j, NEW i, NEW n,
         NEW x \in {ExtraName(a, k, j, i, n), ExtraPreis(a, k, j, i, n)},
         NEW y \in {ExtraName(a, k, j, i, n), ExtraPreis(a, k, j, i, n)},
         NEW f, f \in DOMAIN x.werte, f \in DOMAIN y.werte
  PROVE  x = y
<1>1. DOMAIN ExtraName(a, k, j, i, n).werte = {"Name"}
  BY DEF ExtraName, Update
<1>2. DOMAIN ExtraPreis(a, k, j, i, n).werte = {"Preis"}
  BY DEF ExtraPreis, Update
<1> QED BY <1>1, <1>2

\* So each field of an order's node has one value.
LEMMA FeldEindeutig ==
  ASSUME NEW a, Versendbar(a.dictionary), NEW x \in ToSet(Updates(a)), InOrdnung(a, x.knoten),
         NEW y \in ToSet(Updates(a)), y.knoten = x.knoten,
         NEW f, f \in DOMAIN x.werte, f \in DOMAIN y.werte
  PROVE  x = y
<1>1. Verschieden(a, a)
  BY DEF Verschieden
<1>2. \/ \E k, j, i : Stelle(a, k, j, i) /\ x.knoten = Item(a, k, j, i)
      \/ \E k, j, i, n : ExtraStelle(a, k, j, i, n) /\ x.knoten = Extra(a, k, j, i, n)
  BY <1>1, ArtUnter DEF InOrdnung
<1>3. ASSUME NEW k, NEW j, NEW i, Stelle(a, k, j, i), x.knoten = Item(a, k, j, i)
      PROVE  x = y
  <2>1. x \in ItemUpdate5(a, k, j, i) /\ y \in ItemUpdate5(a, k, j, i)
    BY <1>1, <1>3, ArtItem
  <2> QED BY <2>1, ItemFeld
<1>4. ASSUME NEW k, NEW j, NEW i, NEW n, ExtraStelle(a, k, j, i, n), x.knoten = Extra(a, k, j, i, n)
      PROVE  x = y
  <2>1. /\ x \in {ExtraName(a, k, j, i, n), ExtraPreis(a, k, j, i, n)}
        /\ y \in {ExtraName(a, k, j, i, n), ExtraPreis(a, k, j, i, n)}
    BY <1>1, <1>4, ArtExtra
  <2> QED BY <2>1, ExtraFeld
<1> QED BY <1>2, <1>3, <1>4

\* The database D holds at node k what the updates of X write.
Spiegelt(D, k, X) ==
  /\ k \in DOMAIN D <=> \E x \in X : x.knoten = k
  /\ k \in DOMAIN D =>
       /\ IstFunktion(D[k])
       /\ \A f : f \in DOMAIN D[k] <=> \E x \in X : x.knoten = k /\ f \in DOMAIN x.werte
       /\ \A f \in DOMAIN D[k] :
            \E x \in X : x.knoten = k /\ f \in DOMAIN x.werte /\ D[k][f] = x.werte[f]

\* Databases that hold all of an order hold the same of it.
LEMMA BaumGleich ==
  ASSUME NEW a, Versendbar(a.dictionary), NEW D, NEW E,
         \A k : InOrdnung(a, k) => Spiegelt(D, k, ToSet(Updates(a))),
         \A k : InOrdnung(a, k) => Spiegelt(E, k, ToSet(Updates(a)))
  PROVE  Baum(D, a.bar, a.id) = Baum(E, a.bar, a.id)
<1> DEFINE S(db) == {k \in DOMAIN db : InOrdnung(a, k)}
<1>1. \A db : Baum(db, a.bar, a.id) = [k \in S(db) |-> db[k]]
  BY DEF Baum, InOrdnung, BestellungRef
<1>2. S(D) = S(E)
  BY DEF Spiegelt
<1>3. ASSUME NEW k \in S(D) PROVE D[k] = E[k]
  <2>1. InOrdnung(a, k) /\ k \in DOMAIN D /\ k \in DOMAIN E
    BY <1>2
  <2>2. /\ IstFunktion(D[k]) /\ IstFunktion(E[k]) /\ DOMAIN D[k] = DOMAIN E[k]
    BY <2>1 DEF Spiegelt
  <2>3. ASSUME NEW f \in DOMAIN D[k] PROVE D[k][f] = E[k][f]
    <3>1. PICK x \in ToSet(Updates(a)) :
            x.knoten = k /\ f \in DOMAIN x.werte /\ D[k][f] = x.werte[f]
      BY <2>1 DEF Spiegelt
    <3>2. PICK y \in ToSet(Updates(a)) :
            y.knoten = k /\ f \in DOMAIN y.werte /\ E[k][f] = y.werte[f]
      BY <2>1, <2>2 DEF Spiegelt
    <3>3. x = y
      BY <2>1, <3>1, <3>2, FeldEindeutig
    <3> QED BY <3>1, <3>2, <3>3
  <2> DEFINE u == D[k]  v == E[k]
  <2>4. u = [f \in DOMAIN u |-> u[f]] /\ v = [f \in DOMAIN v |-> v[f]] /\ DOMAIN u = DOMAIN v
        /\ \A f \in DOMAIN u : u[f] = v[f]
    BY <2>2, <2>3 DEF IstFunktion
  <2> HIDE DEF u, v
  <2>5. u = v
    BY <2>4
  <2> QED BY <2>5 DEF u, v
<1> HIDE DEF S
<1>4. [k \in S(D) |-> D[k]] = [k \in S(E) |-> E[k]]
  BY <1>2, <1>3
<1> QED BY <1>1, <1>4
-----------------------------------------------------------------------------
(* What the list's phone sees of an order, and what was sent.              *)

\* The nodes of the database are functions of their fields.
FunktionInv == \A k \in Knoten : IstFunktion(datenbank[k])

\* The phone's own updates that count at once.
Eigene == IF selbesGeraet THEN schlange[ich] ELSE <<>>

LEMMA EigeneVerfasst ==
  ASSUME IInv
  PROVE  /\ Sicht = Ueberlagert(datenbank, Eigene) /\ Folge(Eigene)
         /\ \A i \in 1..Len(Eigene) : Verfasst(auftraege, Eigene[i])
<1>1. CASE selbesGeraet
  BY <1>1, EigeneLesen DEF Eigene, Sicht
<1>2. CASE ~selbesGeraet
  <2>1. Folge(<<>>) /\ 1..Len(<<>>) = {}
    BY LeereFolge
  <2> QED BY <1>2, <2>1 DEF Eigene, Sicht
<1> QED BY <1>1, <1>2

\* All that is seen comes from orders.
LEMMA SichtHerkunft ==
  ASSUME IInv, NEW k \in DOMAIN Sicht
  PROVE  /\ \E x : Verfasst(auftraege, x) /\ x.knoten = k
         /\ \A f \in DOMAIN Sicht[k] :
              \E x : /\ Verfasst(auftraege, x) /\ x.knoten = k
                     /\ f \in DOMAIN x.werte /\ Sicht[k][f] = x.werte[f]
<1> DEFINE S == Sicht  e == Eigene
<1>1. /\ S = Ueberlagert(datenbank, e) /\ Folge(e)
      /\ \A i \in 1..Len(e) : Verfasst(auftraege, e[i])
  BY EigeneVerfasst
<1>2. k \in DOMAIN S
  OBVIOUS
<1> HIDE DEF S, e
<1>3. /\ \A l : l \in DOMAIN S <=> l \in DOMAIN datenbank \/ \E i \in 1..Len(e) : e[i].knoten = l
      /\ \A l \in DOMAIN S : \A f \in DOMAIN S[l] :
           \/ /\ l \in DOMAIN datenbank /\ f \in DOMAIN datenbank[l] /\ S[l][f] = datenbank[l][f]
           \/ \E i \in 1..Len(e) :
                e[i].knoten = l /\ f \in DOMAIN e[i].werte /\ S[l][f] = e[i].werte[f]
  BY <1>1, UeberlagertLesen
<1>4. \E x : Verfasst(auftraege, x) /\ x.knoten = k
  BY <1>1, <1>2, <1>3 DEF IInv, HerkunftInv, Knoten
<1>5. ASSUME NEW f \in DOMAIN S[k]
      PROVE  \E x : /\ Verfasst(auftraege, x) /\ x.knoten = k
                    /\ f \in DOMAIN x.werte /\ S[k][f] = x.werte[f]
  <2>1. CASE /\ k \in DOMAIN datenbank /\ f \in DOMAIN datenbank[k] /\ S[k][f] = datenbank[k][f]
    BY <2>1 DEF IInv, HerkunftInv, Knoten
  <2>2. CASE \E i \in 1..Len(e) :
               e[i].knoten = k /\ f \in DOMAIN e[i].werte /\ S[k][f] = e[i].werte[f]
    BY <1>1, <2>2
  <2> QED BY <1>2, <1>3, <2>1, <2>2
<1> QED BY <1>4, <1>5 DEF S

\* An update that has arrived or is on its way from this phone is seen.
LEMMA Gesehenes ==
  ASSUME IInv, NEW x, Da(x) \/ (selbesGeraet /\ x \in ToSet(schlange[ich]))
  PROVE  x.knoten \in DOMAIN Sicht /\ DOMAIN x.werte \subseteq DOMAIN Sicht[x.knoten]
<1> DEFINE S == Sicht  e == Eigene
<1>1. S = Ueberlagert(datenbank, e) /\ Folge(e)
  BY EigeneVerfasst
<1>2. Da(x) \/ \E i \in 1..Len(e) : e[i] = x
  <2>1. ASSUME selbesGeraet, x \in ToSet(schlange[ich])
        PROVE  \E i \in 1..Len(e) : e[i] = x
    <3>1. e = schlange[ich] /\ x \in ToSet(e)
      BY <2>1 DEF Eigene
    <3> HIDE DEF e
    <3> QED BY <1>1, <3>1 DEF Folge, ToSet
  <2> QED BY <2>1
<1> HIDE DEF S, e
<1>3. /\ \A l : l \in DOMAIN S <=> l \in DOMAIN datenbank \/ \E i \in 1..Len(e) : e[i].knoten = l
      /\ \A l \in DOMAIN S : \A f :
           f \in DOMAIN S[l] <=>
             \/ l \in DOMAIN datenbank /\ f \in DOMAIN datenbank[l]
             \/ \E i \in 1..Len(e) : e[i].knoten = l /\ f \in DOMAIN e[i].werte
  BY <1>1, UeberlagertLesen
<1>4. x.knoten \in DOMAIN S
  BY <1>2, <1>3 DEF Da, Knoten
<1>5. \A f \in DOMAIN x.werte : f \in DOMAIN S[x.knoten]
  BY <1>2, <1>3, <1>4 DEF Da, Knoten
<1> QED BY <1>4, <1>5 DEF S

LEMMA SichtFunktion ==
  ASSUME IInv, FunktionInv
  PROVE  \A k \in DOMAIN Sicht : IstFunktion(Sicht[k])
  BY EigeneVerfasst, UeberlagertFunktion DEF FunktionInv, Knoten

\* If an order is in the guest's list, all its items and its Information are seen.
LEMMA ItemsGesehen ==
  ASSUME IInv, NEW n \in Eintraege(Geschehenes),
         NEW x \in ToSet(ItemsUpdates(auftraege[n])) \cup {InformationUpdate(auftraege[n])}
  PROVE  Da(x) \/ (selbesGeraet /\ x \in ToSet(schlange[ich]))
<1> DEFINE k == GastRef(auftraege[n])
<1>1. n \in Meine
  BY EintraegeMeine
<1>2. k \in Geschehenes
  <2>1. PICK l \in Geschehenes : /\ Len(l) = 3 /\ SubSeq(l, 1, 2) = <<"userBestellungen", ich>>
                                 /\ n = l[3]
    BY DEF Eintraege
  <2>2. PICK y : Verfasst(auftraege, y) /\ y.knoten = l
    BY GeschehenesHerkunft
  <2>3. l = <<"userBestellungen", ich, n>>
    BY <2>1, <2>2, EintragMeiner DEF IInv
  <2>4. auftraege[n].gast = ich /\ auftraege[n].id = n
    BY <1>1 DEF Meine, IInv, AuftraegeInv
  <2> QED BY <2>3, <2>4 DEF GastRef
<1>3. Zuerst(x, k)
  <2>1. n \in DOMAIN auftraege /\ Vorher(auftraege[n], x, k)
    BY <1>1 DEF Meine, Vorher
  <2> QED BY <2>1 DEF IInv, Reihenfolge
<1> HIDE DEF k
<1>4. CASE k \in Knoten
  BY <1>3, <1>4 DEF Zuerst
<1>5. CASE k \notin Knoten
  <2>1. PICK w \in ToSet(schlange[ich]) : selbesGeraet /\ w.knoten = k
    BY <1>2, <1>5 DEF Geschehenes, Knoten
  <2>2. Folge(schlange[ich]) /\ ich \in Gaeste
    BY EigeneLesen, ListeAssumption DEF ListeAssumption
  <2>3. PICK p \in 1..Len(schlange[ich]) : schlange[ich][p].knoten = k
    BY <2>1, <2>2 DEF Folge, ToSet
  <2>4. Da(x) \/ \E q \in 1..(p - 1) : schlange[ich][q] = x
    BY <1>3, <2>2, <2>3 DEF Zuerst
  <2>5. \A q \in 1..(p - 1) : schlange[ich][q] \in ToSet(schlange[ich])
    BY <2>2, <2>3 DEF Folge
  <2> QED BY <2>1, <2>4, <2>5
<1> QED BY <1>4, <1>5

\* Whose order a node is.
LEMMA WessenKnoten ==
  ASSUME IInv, NEW n \in DOMAIN auftraege, NEW x, Verfasst(auftraege, x),
         InOrdnung(auftraege[n], x.knoten)
  PROVE  x \in ToSet(Updates(auftraege[n]))
<1>1. PICK m \in DOMAIN auftraege : x \in ToSet(Updates(auftraege[m]))
  BY DEF Verfasst
<1>2. Versendbar(auftraege[m].dictionary) /\ Verschieden(auftraege[n], auftraege[m])
  BY AuftragLesen, NummernVerschieden DEF IInv
<1>3. auftraege[n] = auftraege[m]
  BY <1>1, <1>2, ArtUnter DEF InOrdnung
<1> QED BY <1>1, <1>3

\* So all of it is, and nothing else.
LEMMA SichtSpiegelt ==
  ASSUME IInv, FunktionInv, NEW n \in Eintraege(Geschehenes),
         NEW k, InOrdnung(auftraege[n], k)
  PROVE  Spiegelt(Sicht, k, ToSet(Updates(auftraege[n])))
<1> DEFINE a == auftraege[n]  S == Sicht  X == ToSet(Updates(a))
<1>1. n \in DOMAIN auftraege /\ Versendbar(a.dictionary)
  BY EintraegeMeine, AuftragLesen DEF Meine, IInv
<1>2. ASSUME NEW x \in X, x.knoten = k
      PROVE  k \in DOMAIN S /\ DOMAIN x.werte \subseteq DOMAIN S[k]
  <2>1. x \in ToSet(ItemsUpdates(a))
    BY <1>1, <1>2, NurItems
  <2> QED BY <1>2, <2>1, ItemsGesehen, Gesehenes
<1>3. ASSUME k \in DOMAIN S
      PROVE  /\ \E x \in X : x.knoten = k
             /\ \A f \in DOMAIN S[k] :
                  \E x \in X : x.knoten = k /\ f \in DOMAIN x.werte /\ S[k][f] = x.werte[f]
             /\ IstFunktion(S[k])
  <2>1. \A x : Verfasst(auftraege, x) /\ x.knoten = k => x \in X
    BY <1>1, WessenKnoten
  <2>2. IstFunktion(S[k])
    BY <1>3, SichtFunktion
  <2>3. /\ \E x : Verfasst(auftraege, x) /\ x.knoten = k
        /\ \A f \in DOMAIN S[k] :
             \E x : /\ Verfasst(auftraege, x) /\ x.knoten = k
                    /\ f \in DOMAIN x.werte /\ S[k][f] = x.werte[f]
    BY <1>3, SichtHerkunft
  <2> HIDE DEF S, X
  <2> QED BY <2>1, <2>2, <2>3
<1> HIDE DEF S, X
<1>4. Spiegelt(S, k, X)
  BY <1>2, <1>3 DEF Spiegelt
<1> QED BY <1>4 DEF S, X, a
LEMMA SollSpiegelt ==
  ASSUME NEW a, Versendbar(a.dictionary), NEW k
  PROVE  Spiegelt(Ueberlagert(<<>>, Updates(a)), k, ToSet(Updates(a)))
<1> DEFINE s == Updates(a)  E == Ueberlagert(<<>>, s)  X == ToSet(s)
<1>1. Folge(s) /\ E = Ueberlagert(<<>>, s) /\ DOMAIN <<>> = {}
  BY UpdatesMenge
<1>2. \A x : x \in X <=> \E i \in 1..Len(s) : s[i] = x
  <2> HIDE DEF s
  <2> QED BY <1>1 DEF Folge, ToSet
<1> HIDE DEF E, X, s
<1>3. /\ \A l : l \in DOMAIN E <=> l \in DOMAIN <<>> \/ \E i \in 1..Len(s) : s[i].knoten = l
      /\ \A l \in DOMAIN E : \A f :
           f \in DOMAIN E[l] <=>
             \/ l \in DOMAIN <<>> /\ f \in DOMAIN <<>>[l]
             \/ \E i \in 1..Len(s) : s[i].knoten = l /\ f \in DOMAIN s[i].werte
      /\ \A l \in DOMAIN E : \A f \in DOMAIN E[l] :
           \/ /\ l \in DOMAIN <<>> /\ f \in DOMAIN <<>>[l] /\ E[l][f] = <<>>[l][f]
           \/ \E i \in 1..Len(s) :
                s[i].knoten = l /\ f \in DOMAIN s[i].werte /\ E[l][f] = s[i].werte[f]
  BY <1>1, UeberlagertLesen
<1>4. \A l \in DOMAIN E : IstFunktion(E[l])
  BY <1>1, UeberlagertFunktion
<1>5. k \in DOMAIN E <=> \E x \in X : x.knoten = k
  BY <1>1, <1>2, <1>3
<1>6. ASSUME k \in DOMAIN E, NEW f
      PROVE  f \in DOMAIN E[k] <=> \E x \in X : x.knoten = k /\ f \in DOMAIN x.werte
  BY <1>1, <1>2, <1>3, <1>6
<1>7. ASSUME k \in DOMAIN E, NEW f \in DOMAIN E[k]
      PROVE  \E x \in X : x.knoten = k /\ f \in DOMAIN x.werte /\ E[k][f] = x.werte[f]
  BY <1>1, <1>2, <1>3, <1>7
<1>8. Spiegelt(E, k, X)
  BY <1>4, <1>5, <1>6, <1>7 DEF Spiegelt
<1> QED BY <1>8 DEF E, X, s

\* What is read of an order in the guest's list is what was sent.
LEMMA GelesenGesendet ==
  ASSUME IInv, FunktionInv, NEW n \in Eintraege(Geschehenes), NEW a, a = auftraege[n]
  PROVE  Baum(Sicht, a.bar, n) = Baum(Ueberlagert(<<>>, Updates(a)), a.bar, a.id)
<1>1. a.id = n /\ Versendbar(a.dictionary)
  BY EintraegeMeine, AuftragLesen DEF Meine, IInv
<1>2. \A k : InOrdnung(a, k) => Spiegelt(Sicht, k, ToSet(Updates(a)))
  BY SichtSpiegelt
<1>3. \A k : InOrdnung(a, k) => Spiegelt(Ueberlagert(<<>>, Updates(a)), k, ToSet(Updates(a)))
  BY <1>1, SollSpiegelt
<1>4. Baum(Sicht, a.bar, a.id) = Baum(Ueberlagert(<<>>, Updates(a)), a.bar, a.id)
  BY <1>1, <1>2, <1>3, BaumGleich
<1> QED BY <1>1, <1>4

\* The number of a line.
LEMMA ZeilenNummer ==
  ASSUME NEW a, Versendbar(a.dictionary), NEW k, NEW j, NEW i, Stelle(a, k, j, i)
  PROVE  i \in Int /\ Item(a, k, j, i)[6][2] = i
<1> DEFINE s == a.dictionary[k]  g == s.felder["ItemsNamen"]
           V == UNION {ToSet(z) : z \in ToSet(g)}
<1>1. SectionVersendbar(s)
  BY DEF Versendbar, Stelle
<1>2. j \in 1..Len(s.Unterkategorie) /\ i \in DOMAIN g[j]
  BY <1>1 DEF Stelle, SectionVersendbar
<1>3. g \in Seq(Seq(V)) /\ Len(g) = Len(s.Unterkategorie)
  BY <1>1 DEF SectionVersendbar
<1> HIDE DEF g, V
<1>4. g[j] \in Seq(V)
  BY <1>2, <1>3
<1>5. i \in Int
  BY <1>2, <1>4
<1>6. Item(a, k, j, i)[6][2] = i
  BY DEF Item
<1> QED BY <1>5, <1>6

\* What was sent can be read.
LEMMA SollGut ==
  ASSUME NEW a, IstAuftrag(a), NEW baum, baum = Baum(Ueberlagert(<<>>, Updates(a)), a.bar, a.id)
  PROVE  BaumGut(baum)
<1> DEFINE s == Updates(a)  E == Ueberlagert(<<>>, s)
<1>1. a.dictionary \in Auftraege /\ Versendbar(a.dictionary)
  BY AuftraegeAssumption DEF IstAuftrag, AuftraegeAssumption
<1>2. Folge(s)
  BY <1>1, UpdatesMenge
<1>3. ASSUME NEW k \in DOMAIN baum
      PROVE  InOrdnung(a, k) /\ \E x \in ToSet(s) : x.knoten = k
  <2>1. InOrdnung(a, k) /\ k \in DOMAIN E
    BY DEF Baum, InOrdnung, BestellungRef
  <2> HIDE DEF s
  <2> QED BY <1>1, <2>1, SollSpiegelt DEF Spiegelt, s
<1>4. IsFiniteSet(DOMAIN baum)
  <2> DEFINE f == [i \in 1..Len(s) |-> s[i].knoten]
             T == {f[i] : i \in 1..Len(s)}
  <2>1. Len(s) \in Nat /\ DOMAIN s = 1..Len(s)
    BY <1>2 DEF Folge
  <2>2. \A x \in ToSet(s) : x.knoten \in T
    <3> HIDE DEF s
    <3> QED BY <2>1 DEF ToSet
  <2>3. DOMAIN baum \in SUBSET T
    <3> HIDE DEF s, T
    <3> QED BY <1>3, <2>2
  <2>4. IsFiniteSet(1..Len(s))
    BY <2>1, FS_Interval
  <2> HIDE DEF f, s
  <2>5. IsFiniteSet(T)
    BY <2>4, BildEndlich
  <2> HIDE DEF T
  <2> QED BY <2>3, <2>5, FS_Subset
<1>5. ASSUME NEW k \in DOMAIN baum
      PROVE  /\ Len(k) = 6 => /\ k[4] \in ToSet(Schluesselfolge) /\ k[5] \in ToSet(Schluesselfolge)
                              /\ k[6][2] \in Int
             /\ Len(k) = 8 => k[8] \in Int
  <2>1. Verschieden(a, a)
    BY DEF Verschieden
  <2>2. \/ \E m, j, i : Stelle(a, m, j, i) /\ k = Item(a, m, j, i)
        \/ \E m, j, i, n : ExtraStelle(a, m, j, i, n) /\ k = Extra(a, m, j, i, n)
    BY <1>1, <1>3, <2>1, ArtUnter DEF InOrdnung
  <2>3. ASSUME NEW m, NEW j, NEW i, Stelle(a, m, j, i), k = Item(a, m, j, i)
        PROVE  /\ k[4] \in ToSet(Schluesselfolge) /\ k[5] \in ToSet(Schluesselfolge)
               /\ k[6][2] \in Int /\ Len(k) = 6
    <3>1. m \in DOMAIN a.dictionary /\ j \in DOMAIN a.dictionary[m].Unterkategorie
      BY <2>3 DEF Stelle
    <3>2. /\ a.dictionary[m].Kategorie \in ToSet(Schluesselfolge)
          /\ ToSet(a.dictionary[m].Unterkategorie) \subseteq ToSet(Schluesselfolge)
      BY <1>1, <3>1, SchluesselAssumption DEF SchluesselAssumption
    <3>3. a.dictionary[m].Unterkategorie[j] \in ToSet(Schluesselfolge)
      BY <3>1, <3>2 DEF ToSet
    <3>4. k[4] = a.dictionary[m].Kategorie /\ k[5] = a.dictionary[m].Unterkategorie[j]
      BY <2>3 DEF Item
    <3>5. k[6][2] \in Int
      BY <1>1, <2>3, ZeilenNummer
    <3>6. Len(k) = 6
      BY <2>3, Tiefen, Zenon
    <3> QED BY <3>2, <3>3, <3>4, <3>5, <3>6
  <2>4. ASSUME NEW m, NEW j, NEW i, NEW n, ExtraStelle(a, m, j, i, n), k = Extra(a, m, j, i, n)
        PROVE  k[8] \in Int /\ Len(k) = 8
    <3>1. n \in Int
      BY <2>4 DEF ExtraStelle
    <3>2. k[8] = n
      BY <2>4 DEF Extra
    <3>3. Len(k) = 8
      BY <2>4, Tiefen, Zenon
    <3> QED BY <3>1, <3>2, <3>3
  <2> QED BY <2>2, <2>3, <2>4
<1> QED BY <1>4, <1>5 DEF BaumGut

\* Every line that was sent has extras ("keine Extras" is one).
LEMMA ItemMitExtra ==
  ASSUME NEW a, Versendbar(a.dictionary), NEW x \in ToSet(Updates(a)), Len(x.knoten) = 6
  PROVE  \E y \in ToSet(Updates(a)) :
           /\ Len(y.knoten) = 8 /\ SubSeq(y.knoten, 1, 6) = x.knoten
           /\ SubSeq(y.knoten, 1, 3) = BestellungRef(a)
<1>1. PICK k, j, i : Stelle(a, k, j, i) /\ x.knoten = Item(a, k, j, i)
  BY ArtenTiefen
<1> DEFINE namen == Zelle(a, k, j, i, "ExtrasName")
<1>2. Folge(namen) /\ namen # <<>>
  BY <1>1, StelleLesen
<1>3. ExtraStelle(a, k, j, i, 1)
  <2> HIDE DEF namen
  <2>1. 1 \in 1..Len(namen)
    BY <1>2 DEF Folge
  <2> QED BY <1>1, <2>1 DEF ExtraStelle, namen
<1>4. PICK y : y = ExtraName(a, k, j, i, 1)
  OBVIOUS
<1>5. y \in ToSet(Updates(a))
  BY <1>3, <1>4, Arten, Zenon
<1>6. PICK l : l = Extra(a, k, j, i, 1)
  OBVIOUS
<1>7. y.knoten = l
  BY <1>4, <1>6, ExtraKnoten
<1>8. SubSeq(l, 1, 6) = Item(a, k, j, i) /\ SubSeq(l, 1, 3) = BestellungRef(a)
  BY <1>6, AnfangExtra, Zenon
<1>9. Len(l) = 8
  BY <1>6, Tiefen, Zenon
<1> QED BY <1>1, <1>5, <1>7, <1>8, <1>9

LEMMA SollMitExtras ==
  ASSUME NEW a, IstAuftrag(a), NEW baum, baum = Baum(Ueberlagert(<<>>, Updates(a)), a.bar, a.id)
  PROVE  ImmerExtras(baum)
<1> DEFINE E == Ueberlagert(<<>>, Updates(a))
<1>1. Versendbar(a.dictionary)
  BY AuftraegeAssumption DEF IstAuftrag, AuftraegeAssumption
<1>2. \A k : k \in DOMAIN baum <=> InOrdnung(a, k) /\ k \in DOMAIN E
  BY DEF Baum, InOrdnung, BestellungRef
<1>3. \A k : k \in DOMAIN E <=> \E x \in ToSet(Updates(a)) : x.knoten = k
  BY <1>1, SollSpiegelt DEF Spiegelt
<1> HIDE DEF E
<1> SUFFICES ASSUME NEW item \in DOMAIN baum, Len(item) = 6
             PROVE  \E l \in DOMAIN baum : Len(l) = 8 /\ SubSeq(l, 1, 6) = item
  BY DEF ImmerExtras
<1>4. PICK x \in ToSet(Updates(a)) : x.knoten = item
  BY <1>2, <1>3
<1>5. Len(x.knoten) = 6
  BY <1>4
<1>6. PICK y \in ToSet(Updates(a)) : /\ Len(y.knoten) = 8 /\ SubSeq(y.knoten, 1, 6) = x.knoten
                                     /\ SubSeq(y.knoten, 1, 3) = BestellungRef(a)
  BY <1>1, <1>5, ItemMitExtra
<1>7. InOrdnung(a, y.knoten)
  BY <1>6 DEF InOrdnung
<1> QED BY <1>2, <1>3, <1>4, <1>6, <1>7

LEMMA SollIstGut ==
  ASSUME NEW a, IstAuftrag(a), NurHintenEines(Soll(a))
  PROVE  IstSnapshot(Soll(a)) /\ IstGut(Soll(a))
<1> DEFINE baum == Baum(Ueberlagert(<<>>, Updates(a)), a.bar, a.id)  s == Soll(a)
<1>1. s = Snapshot(baum)
  BY DEF Soll
<1>2. BaumGut(baum) /\ ImmerExtras(baum)
  BY SollGut, SollMitExtras
<1>3. NurHintenEines(s)
  OBVIOUS
<1> HIDE DEF baum, s
<1>4. /\ IstSnapshot(s)
      /\ \A k \in 1..Len(s) : \A u \in 1..Len(s[k].kinder) :
           ExtrasGut(s[k].kinder[u].zeilen, FALSE)
  BY <1>1, <1>2, SnapshotGut
<1>5. ASSUME NEW k \in 1..Len(s), NEW u \in 1..Len(s[k].kinder)
      PROVE  ExtrasGut(s[k].kinder[u].zeilen, k > 1 /\ u > 1)
  <2> DEFINE zeilen == s[k].kinder[u].zeilen
  <2>1. ExtrasGut(zeilen, FALSE) /\ Folge(zeilen) /\ Folge(s) /\ Folge(s[k].kinder)
    BY <1>4 DEF IstSnapshot
  <2>4. k \in DOMAIN s /\ u \in DOMAIN s[k].kinder
    BY <2>1, BisGanz
  <2>2. k > 1 /\ u > 1 => \A i \in DOMAIN zeilen : Len(zeilen[i].extras) = 1
    BY <1>3, <2>4 DEF NurHintenEines
  <2> HIDE DEF zeilen
  <2>3. DOMAIN zeilen = 1..Len(zeilen)
    BY <2>1 DEF Folge
  <2>5. ExtrasGut(zeilen, k > 1 /\ u > 1)
    BY <2>1, <2>2, <2>3 DEF ExtrasGut
  <2> QED BY <2>5 DEF zeilen
<1>6. IstGut(s)
  BY <1>5 DEF IstGut
<1> QED BY <1>4, <1>6 DEF s

\* At another bar there is nothing of an order.
LEMMA AndereBar ==
  ASSUME IInv, NEW n \in DOMAIN auftraege, NEW bar, bar # auftraege[n].bar
  PROVE  DOMAIN Baum(Sicht, bar, n) = {}
<1> SUFFICES ASSUME NEW k \in DOMAIN Sicht, Len(k) > 4,
                    SubSeq(k, 1, 3) = <<"Bestellungen", bar, n>>
             PROVE  FALSE
  BY DEF Baum
<1>1. PICK x : Verfasst(auftraege, x) /\ x.knoten = k
  BY SichtHerkunft
<1>2. PICK m \in DOMAIN auftraege : x \in ToSet(Updates(auftraege[m]))
  BY <1>1 DEF Verfasst
<1> DEFINE c == auftraege[m]  l == Len(x.knoten)
<1>3. Versendbar(c.dictionary) /\ c.id = m /\ Verschieden(auftraege[n], c)
      /\ auftraege[n].id = n
  BY AuftragLesen, NummernVerschieden DEF IInv
<1>4. l # 2 /\ l # 3 /\ l # 4
  <2>1. l > 4
    BY <1>1
  <2> HIDE DEF l
  <2> QED BY <2>1
<1>5. x \in ToSet(Updates(c))
  BY <1>2
<1> HIDE DEF c
<1>6. \/ \E kk, j, i : x.knoten = Item(c, kk, j, i)
      \/ \E kk, j, i, e : x.knoten = Extra(c, kk, j, i, e)
  BY <1>3, <1>4, <1>5, ArtenTiefen
<1>7. SubSeq(x.knoten, 1, 3) = BestellungRef(c)
  <2>1. ASSUME NEW kk, NEW j, NEW i, x.knoten = Item(c, kk, j, i)
        PROVE  SubSeq(x.knoten, 1, 3) = BestellungRef(c)
    BY <2>1, AnfangItem, Zenon
  <2>2. ASSUME NEW kk, NEW j, NEW i, NEW e, x.knoten = Extra(c, kk, j, i, e)
        PROVE  SubSeq(x.knoten, 1, 3) = BestellungRef(c)
    BY <2>2, AnfangExtra, Zenon
  <2> QED BY <1>6, <2>1, <2>2, Zenon
<1>8. <<"Bestellungen", bar, n>> = <<"Bestellungen", c.bar, c.id>>
  BY <1>1, <1>7 DEF BestellungRef
<1>9. c.bar = bar /\ c.id = n
  BY <1>8
<1> QED BY <1>3, <1>9 DEF Verschieden
-----------------------------------------------------------------------------
(* What arrives keeps the database a function, and what is seen grows.     *)

\* Updates that arrive: the first n of a guest's.
LEMMA EintreffenFunktion ==
  ASSUME IInv, FunktionInv, NEW g \in Gaeste, NEW n, Eingetroffen(g, n)
  PROVE  FunktionInv'
<1> DEFINE s == SubSeq(schlange[g], 1, n)
<1>1. datenbank' = Ueberlagert(datenbank, s)
  BY DEF Eingetroffen
<1> HIDE DEF s
<1>2. \A k \in DOMAIN datenbank' : IstFunktion(datenbank'[k])
  BY <1>1, UeberlagertFunktion DEF FunktionInv, Knoten
<1> QED BY <1>2 DEF FunktionInv, Knoten, IstFunktion

LEMMA FunktionBleibt == IInv /\ FunktionInv /\ [Next]_vars => FunktionInv'
<1> SUFFICES ASSUME IInv, FunktionInv, [Next]_vars PROVE FunktionInv'
  OBVIOUS
<1>1. ASSUME datenbank' = datenbank PROVE FunktionInv'
  BY <1>1 DEF FunktionInv, Knoten, IstFunktion
<1>2. ASSUME NEW g \in Gaeste, Bestaetigt(g) \/ Unbestaetigt(g) PROVE FunktionInv'
  BY <1>2, EintreffenFunktion DEF Bestaetigt, Unbestaetigt
<1>3. \/ datenbank' = datenbank
      \/ \E g \in Gaeste : Bestaetigt(g) \/ Unbestaetigt(g)
  BY DEF Next, vars, handleBestellung, AppBeenden
<1> QED BY <1>1, <1>2, <1>3

\* Nodes stay, and those of the first n updates come.
LEMMA KnotenBleiben ==
  ASSUME IInv, NEW g \in Gaeste, NEW n \in 1..Len(schlange[g]), Eingetroffen(g, n)
  PROVE  /\ DOMAIN datenbank \subseteq DOMAIN datenbank'
         /\ \A i \in 1..n : schlange[g][i].knoten \in DOMAIN datenbank'
<1> DEFINE s == SubSeq(schlange[g], 1, n)
<1>1. /\ Folge(s) /\ Len(s) = n /\ \A i \in 1..n : s[i] = schlange[g][i]
  BY Praefix DEF IInv, SchlangeInv
<1>2. datenbank' = Ueberlagert(datenbank, s)
  BY DEF Eingetroffen
<1> HIDE DEF s
<1>3. \A k : k \in DOMAIN datenbank' <=> k \in DOMAIN datenbank \/ \E i \in 1..Len(s) : s[i].knoten = k
  BY <1>1, <1>2, UeberlagertLesen
<1> QED BY <1>1, <1>3

\* The phone's own updates wait in the queue until they are in the database, unless
\* the app ends.
LEMMA EigeneBleiben ==
  ASSUME IInv, [Next]_vars, neustarts'[ich] = neustarts[ich],
         NEW w \in ToSet(schlange[ich])
  PROVE  w.knoten \in DOMAIN datenbank' \/ w \in ToSet(schlange'[ich])
<1> DEFINE alt == schlange[ich]  neu == schlange'[ich]
<1>0. /\ Folge(alt) /\ ich \in Gaeste /\ schlange = [g \in Gaeste |-> schlange[g]]
  BY EigeneLesen, ListeAssumption DEF ListeAssumption, IInv, SchlangeInv
<1>1. PICK p \in 1..Len(alt) : w = alt[p]
  BY <1>0 DEF Folge, ToSet
<1>2. ASSUME neu = alt PROVE w \in ToSet(neu)
  BY <1>2
<1>3. ASSUME NEW g \in Gaeste, NEW bar \in Bars, NEW d \in Auftraege, handleBestellung(g, bar, d)
      PROVE  w \in ToSet(neu)
  <2> DEFINE a == [id |-> Len(auftraege) + 1, gast |-> g, bar |-> bar, dictionary |-> d]
  <2>1. schlange' = [schlange EXCEPT ![g] = @ \o Updates(a)]
    BY <1>3 DEF handleBestellung
  <2>2. Versendbar(a.dictionary)
    BY AuftraegeAssumption DEF AuftraegeAssumption
  <2> HIDE DEF a
  <2>3. CASE g = ich
    <3>1. neu = alt \o Updates(a) /\ Folge(Updates(a))
      BY <1>0, <2>1, <2>2, <2>3, UpdatesMenge
    <3> HIDE DEF alt, neu
    <3>2. /\ Folge(neu) /\ Len(neu) = Len(alt) + Len(Updates(a))
          /\ Len(alt) \in Nat /\ Len(Updates(a)) \in Nat
          /\ \A q \in 1..(Len(alt) + Len(Updates(a))) :
               neu[q] = IF q <= Len(alt) THEN alt[q] ELSE Updates(a)[q - Len(alt)]
      BY <1>0, <3>1, AnhangLesen
    <3>3. p \in 1..Len(neu) /\ neu[p] = w
      BY <1>1, <3>2
    <3> QED BY <3>2, <3>3 DEF Folge, ToSet
  <2>4. CASE g # ich
    BY <1>0, <1>2, <2>1, <2>4
  <2> QED BY <2>3, <2>4
<1>4. ASSUME NEW g \in Gaeste, Bestaetigt(g)
      PROVE  w.knoten \in DOMAIN datenbank' \/ w \in ToSet(neu)
  <2>1. /\ schlange[g] # <<>> /\ Eingetroffen(g, 1)
        /\ schlange' = [schlange EXCEPT ![g] = Tail(@)]
    BY <1>4 DEF Bestaetigt
  <2>2. CASE g = ich
    <3>1. 1 \in 1..Len(alt)
      BY <1>0, <2>1, <2>2 DEF Folge
    <3>2. alt[1].knoten \in DOMAIN datenbank'
      <4>1. 1 \in 1..1
        OBVIOUS
      <4> QED BY <2>1, <2>2, <3>1, <4>1, KnotenBleiben
    <3>3. neu = Tail(alt)
      BY <1>0, <2>1, <2>2
    <3>4. /\ neu \in Seq(ToSet(alt)) /\ Len(neu) = Len(alt) - 1
          /\ \A i \in 1..Len(neu) : neu[i] = alt[i + 1]
      BY <1>0, <2>1, <2>2, <3>3, HeadTailProperties DEF Folge
    <3>5. ASSUME p # 1 PROVE w \in ToSet(neu)
      <4>1. Len(alt) \in Nat
        BY <1>0 DEF Folge
      <4> HIDE DEF alt, neu
      <4>2. p - 1 \in 1..Len(neu) /\ (p - 1) + 1 = p
        BY <3>4, <3>5, <4>1
      <4>3. DOMAIN neu = 1..Len(neu)
        BY <3>4
      <4>4. neu[p - 1] = w
        BY <1>1, <3>4, <4>2
      <4> QED BY <4>2, <4>3, <4>4 DEF ToSet
    <3> QED BY <1>1, <3>2, <3>5
  <2>3. CASE g # ich
    BY <1>0, <1>2, <2>1, <2>3
  <2> QED BY <2>2, <2>3
<1>5. ASSUME NEW g \in Gaeste, Unbestaetigt(g) PROVE w \in ToSet(neu)
  BY <1>2, <1>5 DEF Unbestaetigt
<1>6. ASSUME NEW g \in Gaeste, AppBeenden(g) PROVE w \in ToSet(neu)
  <2>1. schlange' = [schlange EXCEPT ![g] = <<>>]
    BY <1>6 DEF AppBeenden
  <2>2. g # ich
    BY <1>0, <1>6 DEF AppBeenden, IInv, AuftraegeInv
  <2> QED BY <1>0, <1>2, <2>1, <2>2
<1>7. ASSUME UNCHANGED vars PROVE w \in ToSet(neu)
  BY <1>2, <1>7 DEF vars
<1> HIDE DEF alt, neu
<1>8. w.knoten \in DOMAIN datenbank' \/ w \in ToSet(neu)
  BY <1>3, <1>4, <1>5, <1>6, <1>7, Zenon DEF Next
<1> QED BY <1>8 DEF neu

LEMMA GeschehenesWaechst ==
  ASSUME IInv, [Next]_vars, UNCHANGED selbesGeraet,
         selbesGeraet => neustarts'[ich] = neustarts[ich]
  PROVE  Geschehenes \subseteq Geschehenes' /\ Eintraege(Geschehenes) \subseteq Eintraege(Geschehenes)'
<1>1. DOMAIN datenbank \subseteq DOMAIN datenbank'
  <2>1. ASSUME NEW g \in Gaeste, Bestaetigt(g) PROVE DOMAIN datenbank \subseteq DOMAIN datenbank'
    <3>1. Folge(schlange[g]) /\ schlange[g] # <<>> /\ Eingetroffen(g, 1)
      BY <2>1 DEF Bestaetigt, IInv, SchlangeInv
    <3>2. 1 \in 1..Len(schlange[g])
      BY <3>1 DEF Folge
    <3> QED BY <3>1, <3>2, KnotenBleiben
  <2>2. ASSUME NEW g \in Gaeste, Unbestaetigt(g) PROVE DOMAIN datenbank \subseteq DOMAIN datenbank'
    <3>1. PICK n \in 1..MaxUnterwegs : n <= Len(schlange[g]) /\ Eingetroffen(g, n)
      BY <2>2 DEF Unbestaetigt
    <3>2. Len(schlange[g]) \in Nat
      BY DEF IInv, SchlangeInv, Folge
    <3>3. n \in 1..Len(schlange[g])
      BY <3>1, <3>2, SchrankenAssumption DEF SchrankenAssumption
    <3> QED BY <3>1, <3>3, KnotenBleiben
  <2>3. \/ datenbank' = datenbank
        \/ \E g \in Gaeste : Bestaetigt(g) \/ Unbestaetigt(g)
    BY DEF Next, vars, handleBestellung, AppBeenden
  <2> QED BY <2>1, <2>2, <2>3
<1>2. ASSUME selbesGeraet, NEW w \in ToSet(schlange[ich])
      PROVE  w.knoten \in DOMAIN datenbank' \/ w \in ToSet(schlange'[ich])
  BY <1>2, EigeneBleiben
<1>3. Geschehenes \subseteq Geschehenes'
  BY <1>1, <1>2 DEF Geschehenes
<1> QED BY <1>3 DEF Eintraege
-----------------------------------------------------------------------------
(* The list is true to what was sent.                                      *)

\* Whatever the listener has seen is still there for the reads it causes.
SichtInv == gesehen \subseteq Eintraege(Geschehenes)

\* z has all lines of the order a of this guest at this bar.
Getreu(a, bar, z) ==
  /\ a.gast = ich /\ a.bar = bar
  /\ z.Kategorien = SollKategorien(Soll(a))
  /\ z.Unterkategorien = SollUnterkategorien(Soll(a))
  /\ z.Items = SollItems(Soll(a))

\* So is what is loaded, unless that has crashed, and what is shown.
GetreuInv ==
  /\ ansicht # "abgestuerzt" =>
       \A id \in DOMAIN geladen : Getreu(auftraege[id], aktuelleBar, geladen[id])
  /\ \A n \in DOMAIN Bestellungen :
       Getreu(auftraege[Bestellungen[n].id], aktuelleBar, Bestellungen[n].fund)

ListeTreu == FunktionInv /\ SichtInv /\ GetreuInv

LEMMA LeereFunktion == ASSUME NEW f, f = [x \in {} |-> f[x]] PROVE f = <<>>
  OBVIOUS

\* Where nothing is, no Kategorie is read.
LEMMA NichtsGelesen ==
  ASSUME NEW baum, DOMAIN baum = {}
  PROVE  BaumGut(baum) /\ SollKategorien(Snapshot(baum)) = <<>>
<1> DEFINE S == {k[4] : k \in {k \in DOMAIN baum : Len(k) = 6}}
           t == Sortiert(S)
           kinder(i) == [key |-> t[i], kinder |-> Kinder(baum, t[i])]
<1>1. BaumGut(baum)
  BY FS_EmptySet DEF BaumGut
<1>2. S = {}
  OBVIOUS
<1>3. DOMAIN t = {}
  <2>1. S \subseteq ToSet(Schluesselfolge)
    BY <1>2
  <2> HIDE DEF S
  <2>2. ToSet(t) = S
    BY <2>1, SortiertLesen
  <2> HIDE DEF t
  <2> QED BY <1>2, <2>2 DEF ToSet
<1>4. DOMAIN Snapshot(baum) = DOMAIN t
  BY DEF Snapshot
<1> HIDE DEF t
<1> DEFINE u == Snapshot(baum)
<1>5. DOMAIN u = {}
  BY <1>3, <1>4
<1> HIDE DEF u
<1>6. SollKategorien(u) = <<>>
  <2>1. SollKategorien(u) = [k \in {} |-> u[k].key]
    BY <1>5 DEF SollKategorien
  <2> QED BY <2>1
<1> QED BY <1>1, <1>6 DEF u

\* The answer about an order that the list has found, whatever of the order's
\* updates is still on its way.
LEMMA AntwortGelesen ==
  ASSUME IInv, FunktionInv, NEW id \in Eintraege(Geschehenes), auftraege[id].bar = aktuelleBar,
         NEW z, NEW r, z = Fund(Snapshot(Baum(Sicht, aktuelleBar, id)), r), ~z.trap
  PROVE  Getreu(auftraege[id], aktuelleBar, z)
<1> DEFINE a == auftraege[id]  baum == Baum(Sicht, aktuelleBar, id)  s == Snapshot(baum)
<1>1. id \in DOMAIN auftraege /\ IstAuftrag(a) /\ a.id = id /\ a.gast = ich
  BY EintraegeMeine, AuftragLesen DEF Meine, IInv
<1>2. a.bar = aktuelleBar
  OBVIOUS
<1>3. baum = Baum(Ueberlagert(<<>>, Updates(a)), a.bar, a.id)
  BY <1>1, <1>2, GelesenGesendet
<1>4. z = Fund(s, r)
  OBVIOUS
<1>5. s = Soll(a)
  BY <1>3 DEF Soll
<1> HIDE DEF a, s
<1>6. BaumGut(baum)
  BY <1>1, <1>3, SollGut
<1> HIDE DEF baum
<1>7. IstSnapshot(s)
  BY <1>6, SnapshotGut DEF s
<1>8. /\ z.Kategorien = SollKategorien(s)
      /\ z.Unterkategorien = SollUnterkategorien(s)
      /\ z.Items = SollItems(s)
  BY <1>4, <1>7, FundLesen
<1> QED BY <1>1, <1>2, <1>5, <1>8 DEF Getreu, a

\* If it has a Kategorie, the order is of the list's bar.
LEMMA AntwortGetreu ==
  ASSUME IInv, FunktionInv, NEW id \in Eintraege(Geschehenes),
         NEW z, NEW r, z = Fund(Snapshot(Baum(Sicht, aktuelleBar, id)), r),
         ~z.trap, z.Kategorien # <<>>
  PROVE  Getreu(auftraege[id], aktuelleBar, z)
<1> DEFINE a == auftraege[id]  baum == Baum(Sicht, aktuelleBar, id)  s == Snapshot(baum)
<1>1. id \in DOMAIN auftraege
  BY EintraegeMeine DEF Meine
<1>2. a.bar = aktuelleBar
  <2> SUFFICES ASSUME a.bar # aktuelleBar PROVE FALSE
    OBVIOUS
  <2>1. DOMAIN baum = {}
    BY <1>1, AndereBar
  <2> HIDE DEF baum
  <2>2. BaumGut(baum) /\ SollKategorien(s) = <<>>
    BY <2>1, NichtsGelesen
  <2>3. IstSnapshot(s) /\ z = Fund(s, r)
    BY <2>2, SnapshotGut DEF baum
  <2> HIDE DEF s
  <2> QED BY <2>2, <2>3, FundLesen
<1> QED BY <1>2, AntwortGelesen

\* What is unwrapped when the table is filled is there.
AlleVollstaendig(g) ==
  \A n \in ToSet(bestellungIDs) : n \in DOMAIN g /\ Vollstaendig(Sicht, n, g[n])

\* What is loaded and what is put into the table after an answer.
LEMMA AntwortLaden ==
  ASSUME NEW id, loadBestellungen(id),
         NEW z, z = Fund(Snapshot(Baum(Sicht, aktuelleBar, id)), rest)
  PROVE  /\ z.trap => ansicht' = "abgestuerzt" /\ UNCHANGED Bestellungen
         /\ \A n \in DOMAIN geladen' :
              \/ n \in DOMAIN geladen /\ geladen'[n] = geladen[n]
              \/ n = id /\ geladen'[n] = z /\ z.Kategorien # <<>>
         /\ DOMAIN geladen \subseteq DOMAIN geladen'
         /\ z.Kategorien # <<>> => id \in DOMAIN geladen'
         /\ ansicht' # "abgestuerzt" /\ AlleGeladen(geladen') =>
              Bestellungen' = Bestellungen \o Zeigen(geladen')
         /\ rest' = [extrasString |-> z.extrasString, extrasPreis |-> z.extrasPreis]
         /\ ~z.trap /\ (AlleGeladen(geladen') => AlleVollstaendig(geladen')) => UNCHANGED ansicht
<1> DEFINE g == IF z.Kategorien = <<>> THEN geladen
                ELSE [n \in DOMAIN geladen \cup {id} |-> IF n = id THEN z ELSE geladen[n]]
           ab == \/ z.trap
                 \/ AlleGeladen(g) /\ ~(\A n \in ToSet(bestellungIDs) :
                                          n \in DOMAIN g /\ Vollstaendig(Sicht, n, g[n]))
<1>1. geladen' = g
  BY DEF loadBestellungen
<1>2. IF ab THEN ansicht' = "abgestuerzt" /\ UNCHANGED Bestellungen
            ELSE /\ Bestellungen' = IF AlleGeladen(g) THEN Bestellungen \o Zeigen(g) ELSE Bestellungen
                 /\ UNCHANGED ansicht
  BY DEF loadBestellungen
<1>3. z.trap => ansicht' = "abgestuerzt" /\ UNCHANGED Bestellungen
  BY <1>2, Zenon
<1>4. ASSUME NEW n \in DOMAIN g
      PROVE  \/ n \in DOMAIN geladen /\ g[n] = geladen[n]
             \/ n = id /\ g[n] = z /\ z.Kategorien # <<>>
  <2>1. CASE z.Kategorien = <<>>
    BY <1>4, <2>1
  <2>2. CASE z.Kategorien # <<>>
    BY <1>4, <2>2
  <2> QED BY <2>1, <2>2
<1>5. DOMAIN geladen \subseteq DOMAIN g /\ (z.Kategorien # <<>> => id \in DOMAIN g)
  OBVIOUS
<1>6. ansicht' # "abgestuerzt" /\ AlleGeladen(g) => Bestellungen' = Bestellungen \o Zeigen(g)
  <2> HIDE DEF g, ab
  <2> QED BY <1>2
<1>7. rest' = [extrasString |-> z.extrasString, extrasPreis |-> z.extrasPreis]
  BY DEF loadBestellungen
<1>8. ASSUME ~z.trap, AlleGeladen(g) => AlleVollstaendig(g) PROVE UNCHANGED ansicht
  <2>1. ~ab
    <3> HIDE DEF g
    <3> QED BY <1>8, Zenon DEF AlleVollstaendig
  <2> HIDE DEF g, ab
  <2> QED BY <1>2, <2>1
<1> HIDE DEF g
<1> QED BY <1>1, <1>3, <1>4, <1>5, <1>6, <1>7, <1>8

LEMMA LoadTreu ==
  ASSUME IInv, ListeInv, ListeTreu, NEW id, loadBestellungen(id)
  PROVE  GetreuInv'
<1> DEFINE z == Fund(Snapshot(Baum(Sicht, aktuelleBar, id)), rest)
<1>1. /\ id \in gefragt /\ gefragt' = gefragt \ {id} /\ ansicht = "offen"
      /\ DOMAIN geladen' \subseteq DOMAIN geladen \cup {id}
      /\ UNCHANGED <<vars, aktuelleBar, gesehen, bestellungIDs, selbesGeraet, getrennt>>
      /\ \/ UNCHANGED <<Bestellungen, ansicht>>
         \/ ansicht' = "abgestuerzt" /\ UNCHANGED Bestellungen
         \/ AlleGeladen(geladen') /\ Bestellungen' = Bestellungen \o Zeigen(geladen')
            /\ UNCHANGED ansicht
  BY AntwortLesen
<1>2. /\ z.trap => ansicht' = "abgestuerzt" /\ UNCHANGED Bestellungen
      /\ \A n \in DOMAIN geladen' :
           \/ n \in DOMAIN geladen /\ geladen'[n] = geladen[n]
           \/ n = id /\ geladen'[n] = z /\ z.Kategorien # <<>>
  BY AntwortLaden
<1>3. /\ id \in Eintraege(Geschehenes)
      /\ ToSet(bestellungIDs) \subseteq DOMAIN auftraege
      /\ DOMAIN geladen \cup {id} \subseteq ToSet(bestellungIDs)
  BY <1>1 DEF ListeInv, GefundenInv, ListeTreu, SichtInv, Meine
<1>4. ~z.trap /\ z.Kategorien # <<>> => Getreu(auftraege[id], aktuelleBar, z)
  BY <1>3, AntwortGetreu DEF ListeTreu
<1> HIDE DEF z
<1>6. ASSUME ansicht' # "abgestuerzt", NEW n \in DOMAIN geladen'
      PROVE  Getreu(auftraege[n], aktuelleBar, geladen'[n])
  <2>1. ~z.trap
    BY <1>2, <1>6, Zenon
  <2>2. CASE n \in DOMAIN geladen /\ geladen'[n] = geladen[n]
    BY <1>1, <2>2 DEF ListeTreu, GetreuInv
  <2>3. CASE n = id /\ geladen'[n] = z /\ z.Kategorien # <<>>
    BY <1>4, <2>1, <2>3
  <2> QED BY <1>2, <1>6, <2>2, <2>3
<1>7. ASSUME ansicht' # "abgestuerzt"
      PROVE  \A n \in DOMAIN geladen' : Getreu(auftraege[n], aktuelleBar, geladen'[n])
  BY <1>6, <1>7
<1>8. \A n \in DOMAIN Bestellungen :
        Getreu(auftraege[Bestellungen[n].id], aktuelleBar, Bestellungen[n].fund)
  BY DEF ListeTreu, GetreuInv
<1>9. ASSUME AlleGeladen(geladen'), Bestellungen' = Bestellungen \o Zeigen(geladen'),
             UNCHANGED ansicht
      PROVE  \A n \in DOMAIN Bestellungen' :
               Getreu(auftraege[Bestellungen'[n].id], aktuelleBar, Bestellungen'[n].fund)
  <2> DEFINE s == Bestellungen  t == Zeigen(geladen')  T == ToSet(s) \cup ToSet(t)
             P(x) == Getreu(auftraege[x.id], aktuelleBar, x.fund)
  <2>1. DOMAIN geladen' = ToSet(bestellungIDs)
    BY <1>1, <1>3, <1>9, AlleGeladenLesen DEF ListeInv
  <2>2. t \in Seq(ToSet(t)) /\ DOMAIN t = DOMAIN bestellungIDs
    BY AbschnitteLesen DEF ListeInv
  <2>3. \A n \in DOMAIN t : t[n].id = bestellungIDs[n] /\ t[n].fund = geladen'[bestellungIDs[n]]
    BY <2>2 DEF Zeigen, Abschnitt
  <2>4. \A n \in DOMAIN t : P(t[n])
    <3>1. \A n \in DOMAIN bestellungIDs : bestellungIDs[n] \in DOMAIN geladen'
      BY <2>1 DEF ToSet
    <3>2. ansicht' # "abgestuerzt"
      BY <1>1, <1>9
    <3> QED BY <1>7, <2>2, <2>3, <3>1, <3>2
  <2>5. \A n \in DOMAIN s : P(s[n])
    BY <1>8
  <2>6. s \in Seq(ToSet(s))
    BY DEF ListeInv, TabelleInv
  <2>7. Bestellungen' = s \o t
    BY <1>9
  <2> HIDE DEF s, t, P
  <2>8. s \in Seq(T) /\ t \in Seq(T)
    BY <2>2, <2>6
  <2>9. ToSet(s \o t) = T
    <3> HIDE DEF T
    <3>1. ToSet(s \o t) = ToSet(s) \cup ToSet(t)
      BY <2>8, MengeVerkettet
    <3> QED BY <3>1 DEF T
  <2>10. \A x \in T : P(x)
    BY <2>4, <2>5 DEF ToSet
  <2>11. \A n \in DOMAIN (s \o t) : (s \o t)[n] \in T
    BY <2>9 DEF ToSet
  <2>12. \A n \in DOMAIN Bestellungen' : P(Bestellungen'[n])
    BY <2>7, <2>10, <2>11
  <2> QED BY <2>12 DEF P
<1>10. \A n \in DOMAIN Bestellungen' :
         Getreu(auftraege[Bestellungen'[n].id], aktuelleBar, Bestellungen'[n].fund)
  BY <1>1, <1>8, <1>9
<1>11. auftraege' = auftraege /\ aktuelleBar' = aktuelleBar
  BY <1>1 DEF vars
<1> QED BY <1>7, <1>10, <1>11 DEF GetreuInv
\* What is loaded and shown stays true as long as it is the list of its bar.
LEMMA GetreuBleibt ==
  ASSUME IInv, ListeInv, GetreuInv, [Next]_vars,
         UNCHANGED <<ansicht, aktuelleBar, geladen, Bestellungen>>
  PROVE  GetreuInv'
<1>1. \A n \in DOMAIN auftraege : auftraege'[n] = auftraege[n]
  BY AuftraegeBleiben
<1>2. ToSet(bestellungIDs) \subseteq DOMAIN auftraege
  BY DEF ListeInv, GefundenInv, Meine
<1>3. /\ DOMAIN geladen \subseteq DOMAIN auftraege
      /\ \A n \in DOMAIN Bestellungen : Bestellungen[n].id \in DOMAIN auftraege
  BY <1>2 DEF ListeInv, GefundenInv, TabelleInv
<1> QED BY <1>1, <1>3 DEF GetreuInv

\* An empty list is true.
LEMMA LeerGetreu ==
  ASSUME geladen' = <<>>, Bestellungen' = <<>>
  PROVE  GetreuInv'
  BY DEF GetreuInv

LEMMA GeschlossenTreu == Geschlossen => SichtInv' /\ GetreuInv'
  BY LeerGetreu DEF Geschlossen, SichtInv

\* What is seen, when no app ends.
LEMMA SichtBleibt ==
  ASSUME IInv, SichtInv, [Next]_vars, selbesGeraet' = selbesGeraet,
         selbesGeraet => neustarts'[ich] = neustarts[ich],
         gesehen' \subseteq gesehen \cup Eintraege(Geschehenes) \cup Eintraege(Geschehenes)'
  PROVE  SichtInv'
  BY GeschehenesWaechst DEF SichtInv

\* All entries that are seen are found.
LEMMA NeueEintraegeTreu ==
  ASSUME IInv, ListeInv, ListeTreu, NeueEintraege, UNCHANGED vars, selbesGeraet' = selbesGeraet
  PROVE  SichtInv'
<1>1. DOMAIN Sicht = Geschehenes
  BY SichtKnoten DEF ListeInv
<1>2. gesehen' \subseteq gesehen \cup Eintraege(Geschehenes)
  BY <1>1 DEF NeueEintraege
<1>3. [Next]_vars /\ neustarts' = neustarts
  BY DEF vars
<1> QED BY <1>2, <1>3, SichtBleibt DEF ListeTreu

LEMMA ZuhoerenTreu ==
  ASSUME IInv, ListeInv, ListeTreu, [Next]_vars, neustarts' = neustarts, Zuhoeren
  PROVE  SichtInv' /\ GetreuInv'
<1>1. UNCHANGED <<ansicht, aktuelleBar, geladen, Bestellungen, selbesGeraet>>
  BY DEF Zuhoeren, geraet
<1>2. gesehen' = IF ansicht = "offen" /\ Online THEN gesehen \cup Eintraege(Geschehenes)' ELSE gesehen
  BY <1>1 DEF Zuhoeren, Geschehenes, Eintraege
<1>3. gesehen' \subseteq gesehen \cup Eintraege(Geschehenes) \cup Eintraege(Geschehenes)'
  BY <1>2
<1> QED BY <1>1, <1>3, SichtBleibt, GetreuBleibt DEF ListeTreu

LEMMA BeendenTreu ==
  ASSUME IInv, ListeInv, ListeTreu, NEW g \in Gaeste, Beenden(g)
  PROVE  SichtInv' /\ GetreuInv'
<1>1. [Next]_vars /\ AppBeenden(g) /\ selbesGeraet' = selbesGeraet
  BY DEF Beenden, Next, geraet
<1>2. CASE selbesGeraet /\ g = ich
  BY <1>2, GeschlossenTreu DEF Beenden
<1>3. CASE ~(selbesGeraet /\ g = ich)
  <2>1. UNCHANGED <<ansicht, aktuelleBar, gesehen, geladen, Bestellungen>>
    BY <1>3 DEF Beenden, listeVars
  <2>2. selbesGeraet => neustarts'[ich] = neustarts[ich]
    BY <1>1, <1>3, ListeAssumption DEF AppBeenden, IInv, AuftraegeInv, ListeAssumption
  <2>3. SichtInv'
    BY <1>1, <2>1, <2>2, SichtBleibt DEF ListeTreu
  <2> QED BY <1>1, <2>1, <2>3, GetreuBleibt DEF ListeTreu
<1> QED BY <1>2, <1>3

LEMMA ListeInitTreu == ListeInit => ListeTreu
<1> SUFFICES ASSUME ListeInit PROVE ListeTreu
  OBVIOUS
<1>1. datenbank = <<>> /\ gesehen = {} /\ geladen = <<>> /\ Bestellungen = <<>>
  BY DEF ListeInit, Init, Zu
<1> QED BY <1>1 DEF ListeTreu, FunktionInv, Knoten, SichtInv, GetreuInv

LEMMA ListeNextTreu == IInv /\ ListeInv /\ ListeTreu /\ [ListeNext]_alleVars => ListeTreu'
<1> SUFFICES ASSUME IInv, ListeInv, ListeTreu, [ListeNext]_alleVars PROVE ListeTreu'
  OBVIOUS
<1>1. [Next]_vars
  BY SendenTeil
<1>2. FunktionInv'
  BY <1>1, FunktionBleibt DEF ListeTreu
<1> SUFFICES SichtInv' /\ GetreuInv'
  BY <1>2 DEF ListeTreu
<1>3. CASE viewDidLoad \/ loadAktuelleBar
  <2>1. UNCHANGED <<vars, gesehen, geladen, Bestellungen, selbesGeraet>>
    BY <1>3 DEF viewDidLoad, loadAktuelleBar, geraet
  <2>2. geladen' = <<>> /\ Bestellungen' = <<>>
    BY <1>3, <2>1 DEF viewDidLoad, loadAktuelleBar, ListeInv, AnfangInv
  <2>3. SichtInv'
    BY <1>1, <2>1, SichtBleibt DEF ListeTreu, vars
  <2> QED BY <2>2, <2>3, LeerGetreu
<1>4. CASE Verlassen
  BY <1>4, GeschlossenTreu DEF Verlassen
<1>5. CASE loadBestellungenKeys
  <2>1. NeueEintraege /\ UNCHANGED <<vars, geladen, Bestellungen, selbesGeraet>>
    BY <1>5 DEF loadBestellungenKeys, geraet
  <2>2. geladen' = <<>> /\ Bestellungen' = <<>>
    BY <1>5, <2>1 DEF loadBestellungenKeys, ListeInv, AnfangInv
  <2> QED BY <2>1, <2>2, NeueEintraegeTreu, LeerGetreu
<1>6. ASSUME NEW id \in gefragt, loadBestellungen(id) PROVE SichtInv' /\ GetreuInv'
  <2>1. UNCHANGED <<vars, gesehen, selbesGeraet>>
    BY <1>6, AntwortLesen
  <2>2. SichtInv'
    BY <1>1, <2>1, SichtBleibt DEF ListeTreu, vars
  <2> QED BY <1>6, <2>2, LoadTreu
<1>7. CASE Bestellen
  BY <1>1, <1>7, ZuhoerenTreu DEF Bestellen, handleBestellung
<1>8. ASSUME NEW g \in Gaeste, Uebertragen(g) \/ NochmalUebertragen(g)
      PROVE  SichtInv' /\ GetreuInv'
  BY <1>1, <1>8, ZuhoerenTreu DEF Uebertragen, NochmalUebertragen, Bestaetigt, Unbestaetigt
<1>9. ASSUME NEW g \in Gaeste, Beenden(g) PROVE SichtInv' /\ GetreuInv'
  BY <1>9, BeendenTreu
<1>10. CASE Trennen \/ UNCHANGED alleVars
  <2>1. UNCHANGED <<vars, ansicht, aktuelleBar, gesehen, geladen, Bestellungen, selbesGeraet>>
    BY <1>10 DEF Trennen, alleVars, listeVars, geraet
  <2>2. SichtInv'
    BY <1>1, <2>1, SichtBleibt DEF ListeTreu, vars
  <2> QED BY <1>1, <2>1, <2>2, GetreuBleibt DEF ListeTreu
<1>11. CASE Verbinden
  <2>1. UNCHANGED <<vars, ansicht, aktuelleBar, geladen, Bestellungen, selbesGeraet>>
    BY <1>11 DEF Verbinden
  <2>2. CASE ansicht = "offen"
    <3>1. NeueEintraege
      BY <1>11, <2>2 DEF Verbinden
    <3> QED BY <1>1, <2>1, <3>1, NeueEintraegeTreu, GetreuBleibt DEF ListeTreu
  <2>3. CASE ansicht # "offen"
    <3>1. gesehen' = gesehen
      BY <1>11, <2>3 DEF Verbinden
    <3>2. SichtInv'
      BY <1>1, <2>1, <3>1, SichtBleibt DEF ListeTreu, vars
    <3> QED BY <1>1, <2>1, <3>2, GetreuBleibt DEF ListeTreu
  <2> QED BY <2>2, <2>3
<1> QED BY <1>3, <1>4, <1>5, <1>6, <1>7, <1>8, <1>9, <1>10, <1>11, Zenon DEF ListeNext

\* The list shows of every order what was sent: its lines with their names, quantities,
\* prices and comments, each in its own Kategorie and Unterkategorie, for every
\* number of guests, bars, orders, updates under way and restarts, on the phone that orders
\* and on another.
THEOREM ListeZeigtGesendetes == ListeSpec => []ListeGetreu
<1>1. ASSUME NEW a, NEW z, Getreu(a, aktuelleBar, z), NEW soll, soll = Soll(a)
      PROVE  /\ a.gast = ich /\ a.bar = aktuelleBar
             /\ z.Kategorien = [k \in DOMAIN soll |-> soll[k].key]
             /\ z.Unterkategorien = [k \in DOMAIN soll |->
                                       [u \in DOMAIN soll[k].kinder |-> soll[k].kinder[u].key]]
             /\ z.Items = SollItems(soll)
  BY <1>1 DEF Getreu, SollKategorien, SollUnterkategorien
<1>2. ListeSpec => [](IInv /\ ListeInv /\ ListeTreu)
  BY ListeInitInv, ListeInitTreu, ListeNextInv, ListeNextTreu, PTL DEF ListeSpec
<1>3. IInv /\ ListeInv /\ ListeTreu => ListeGetreu
  BY <1>1, Zenon DEF ListeTreu, GetreuInv, ListeGetreu
<1> QED BY <1>2, <1>3, PTL
-----------------------------------------------------------------------------
(* The list is complete.                                                   *)

LEMMA SnapshotNichtLeer ==
  ASSUME NEW baum, BaumGut(baum), NEW m \in DOMAIN baum, Len(m) = 6
  PROVE  SollKategorien(Snapshot(baum)) # <<>>
<1> DEFINE S == {k[4] : k \in {k \in DOMAIN baum : Len(k) = 6}}
           t == Sortiert(S)
           s == Snapshot(baum)
<1>1. S \subseteq ToSet(Schluesselfolge) /\ m[4] \in S
  BY DEF BaumGut
<1>2. DOMAIN s = DOMAIN t
  BY DEF Snapshot
<1> HIDE DEF S, s
<1>3. ToSet(t) = S
  BY <1>1, SortiertLesen
<1> HIDE DEF t
<1>4. PICK n \in DOMAIN t : t[n] = m[4]
  BY <1>1, <1>3 DEF ToSet
<1>5. n \in DOMAIN SollKategorien(s)
  BY <1>2, <1>4 DEF SollKategorien
<1>6. DOMAIN <<>> = {}
  OBVIOUS
<1> QED BY <1>5, <1>6 DEF s

\* An order with a section has a line.
LEMMA SollNichtLeer ==
  ASSUME NEW a, IstAuftrag(a), a.dictionary # <<>>
  PROVE  SollKategorien(Soll(a)) # <<>>
<1> DEFINE d == a.dictionary  item == Item(a, 1, 1, 1)  X == ToSet(Updates(a))
           E == Ueberlagert(<<>>, Updates(a))  baum == Baum(E, a.bar, a.id)
<1>1. d \in Auftraege /\ Versendbar(d)
  BY AuftraegeAssumption DEF IstAuftrag, AuftraegeAssumption
<1>2. Stelle(a, 1, 1, 1)
  <2>1. d \in Seq(ToSet(d)) /\ d # <<>> /\ \A k \in DOMAIN d : SectionVersendbar(d[k])
    BY <1>1 DEF Versendbar
  <2> HIDE DEF d
  <2>2. 1 \in DOMAIN d
    BY <2>1
  <2> DEFINE s == d[1]  N == s.felder["ItemsNamen"]  U == s.Unterkategorie
             V == UNION {ToSet(z) : z \in ToSet(N)}
  <2>3. /\ U \in Seq(ToSet(U)) /\ U # <<>> /\ \A u \in DOMAIN U : N[u] # <<>>
        /\ N \in Seq(Seq(V)) /\ Len(N) = Len(U)
    BY <2>1, <2>2 DEF SectionVersendbar
  <2> HIDE DEF s, N, U, V
  <2>4. 1 \in DOMAIN U /\ 1 \in 1..Len(N)
    BY <2>3
  <2>5. N[1] \in Seq(V) /\ N[1] # <<>>
    <3>1. N[1] \in Seq(V)
      <4> DEFINE SV == Seq(V)
      <4>1. N \in Seq(SV)
        BY <2>3
      <4> HIDE DEF SV
      <4>2. N[1] \in SV
        BY <2>4, <4>1
      <4> QED BY <4>2 DEF SV
    <3> QED BY <2>3, <2>4, <3>1
  <2>6. 1 \in DOMAIN N[1]
    BY <2>5
  <2> QED BY <2>2, <2>4, <2>6 DEF Stelle, U, N, s, d
<1> HIDE DEF d
<1>3. \E x \in X : x.knoten = item
  <2> DEFINE x == Update(item, [Name |-> Zelle(a, 1, 1, 1, "ItemsNamen")])
  <2>1. x \in ItemUpdate5(a, 1, 1, 1)
    BY DEF ItemUpdate5
  <2>2. x.knoten = item
    BY DEF Update
  <2> HIDE DEF x, item
  <2>3. x \in X
    BY <1>1, <1>2, <2>1, Arten DEF d
  <2> QED BY <2>2, <2>3
<1>4. Spiegelt(E, item, X)
  BY <1>1, SollSpiegelt DEF d
<1>5. item \in DOMAIN E
  <2> HIDE DEF E, X, item
  <2> QED BY <1>3, <1>4 DEF Spiegelt
<1>6. Len(item) = 6 /\ SubSeq(item, 1, 3) = <<"Bestellungen", a.bar, a.id>>
  BY Tiefen, AnfangItem DEF BestellungRef
<1> HIDE DEF item, E
<1>7. item \in DOMAIN baum
  <2>1. Len(item) > 4
    BY <1>6
  <2> QED BY <1>5, <1>6, <2>1 DEF Baum
<1>8. BaumGut(baum)
  BY SollGut DEF E
<1> HIDE DEF baum
<1>9. SollKategorien(Snapshot(baum)) # <<>>
  BY <1>6, <1>7, <1>8, SnapshotNichtLeer
<1> QED BY <1>9 DEF Soll, baum, E

\* What was found is asked for, loaded, of another bar or empty.
Versorgt ==
  \A id \in ToSet(bestellungIDs) :
    \/ id \in gefragt \cup DOMAIN geladen
    \/ auftraege[id].bar # aktuelleBar \/ auftraege[id].dictionary = <<>>

AllesGezeigt ==
  gefragt = {} /\ EineBar => \A id \in ToSet(bestellungIDs) : Gezeigt(id)

VollInv == ansicht # "abgestuerzt" => Versorgt /\ AllesGezeigt

LEMMA LeerVoll ==
  ASSUME bestellungIDs' = <<>>
  PROVE  VollInv'
<1>1. ToSet(<<>>) = {}
  BY DEF ToSet
<1> QED BY <1>1 DEF VollInv, Versorgt, AllesGezeigt

LEMMA GefundeneBleiben ==
  ASSUME IInv, ListeInv, [Next]_vars
  PROVE  \A id \in ToSet(bestellungIDs) : auftraege'[id] = auftraege[id]
<1>1. ToSet(bestellungIDs) \subseteq DOMAIN auftraege
  BY DEF ListeInv, GefundenInv, Meine
<1> QED BY <1>1, AuftraegeBleiben

LEMMA VollBleibt ==
  ASSUME IInv, ListeInv, VollInv, [Next]_vars,
         UNCHANGED <<ansicht, aktuelleBar, bestellungIDs, gefragt, geladen, Bestellungen>>
  PROVE  VollInv'
<1>1. \A id \in ToSet(bestellungIDs) : auftraege'[id] = auftraege[id]
  BY GefundeneBleiben
<1>2. EineBar' <=> EineBar
  BY <1>1 DEF EineBar
<1>3. \A id : Gezeigt(id)' <=> Gezeigt(id)
  BY DEF Gezeigt
<1>4. Versorgt => Versorgt'
  BY <1>1 DEF Versorgt
<1>5. AllesGezeigt => AllesGezeigt'
  BY <1>2, <1>3 DEF AllesGezeigt
<1> QED BY <1>4, <1>5 DEF VollInv

\* Orders that are found are asked for at once.
LEMMA NeueEintraegeVoll ==
  ASSUME IInv, ListeInv, VollInv, ansicht # "abgestuerzt", NeueEintraege,
         UNCHANGED <<vars, aktuelleBar, geladen, Bestellungen>>
  PROVE  VollInv'
<1>1. Meine \subseteq Meine' /\ auftraege' = auftraege
  BY DEF Meine, vars
<1>2. PICK S : /\ ToSet(bestellungIDs') = ToSet(bestellungIDs) \cup S
               /\ gefragt' = gefragt \cup S
  BY <1>1, NeueEintraegeInv DEF ListeInv
<1>3. Versorgt /\ AllesGezeigt
  BY DEF VollInv
<1>4. Versorgt'
  BY <1>1, <1>2, <1>3 DEF Versorgt
<1>5. ASSUME gefragt' = {}, EineBar'
      PROVE  \A id \in ToSet(bestellungIDs') : Gezeigt(id)'
  <2>1. ToSet(bestellungIDs') = ToSet(bestellungIDs) /\ gefragt = {}
    BY <1>2, <1>5
  <2>2. EineBar
    BY <1>1, <1>5, <2>1 DEF EineBar
  <2> QED BY <1>3, <2>1, <2>2 DEF AllesGezeigt, Gezeigt
<1> QED BY <1>4, <1>5 DEF VollInv, AllesGezeigt

\* The last answer fills the list.
LEMMA LoadVoll ==
  ASSUME IInv, ListeInv, ListeTreu, VollInv, NEW id, loadBestellungen(id)
  PROVE  VollInv'
<1> SUFFICES ASSUME ansicht' # "abgestuerzt" PROVE Versorgt' /\ AllesGezeigt'
  BY DEF VollInv
<1> DEFINE z == Fund(Snapshot(Baum(Sicht, aktuelleBar, id)), rest)
<1>1. /\ id \in gefragt /\ gefragt' = gefragt \ {id} /\ ansicht = "offen"
      /\ DOMAIN geladen' \subseteq DOMAIN geladen \cup {id}
      /\ UNCHANGED <<vars, aktuelleBar, gesehen, bestellungIDs, selbesGeraet, getrennt>>
  BY AntwortLesen
<1>2. /\ z.trap => ansicht' = "abgestuerzt"
      /\ DOMAIN geladen \subseteq DOMAIN geladen'
      /\ z.Kategorien # <<>> => id \in DOMAIN geladen'
      /\ AlleGeladen(geladen') => Bestellungen' = Bestellungen \o Zeigen(geladen')
  BY AntwortLaden
<1>3. /\ id \in Eintraege(Geschehenes) /\ id \in DOMAIN auftraege
      /\ DOMAIN geladen \cup {id} \subseteq ToSet(bestellungIDs)
  BY <1>1 DEF ListeInv, GefundenInv, ListeTreu, SichtInv, Meine
<1>4. ~z.trap
  BY <1>2, Zenon
<1>5. auftraege[id].bar = aktuelleBar /\ auftraege[id].dictionary # <<>> => id \in DOMAIN geladen'
  <2> SUFFICES ASSUME auftraege[id].bar = aktuelleBar, auftraege[id].dictionary # <<>>
               PROVE  id \in DOMAIN geladen'
    OBVIOUS
  <2>1. IstAuftrag(auftraege[id])
    BY <1>3, AuftragLesen DEF IInv
  <2>2. SollKategorien(Soll(auftraege[id])) # <<>>
    BY <2>1, SollNichtLeer
  <2>3. Getreu(auftraege[id], aktuelleBar, z)
    BY <1>3, <1>4, AntwortGelesen DEF ListeTreu
  <2> HIDE DEF z
  <2>4. z.Kategorien # <<>>
    BY <2>2, <2>3 DEF Getreu
  <2> QED BY <1>2, <2>4
<1> HIDE DEF z
<1>6. auftraege' = auftraege
  BY <1>1 DEF vars
<1>7. Versorgt'
  <2>1. Versorgt
    BY <1>1 DEF VollInv
  <2> QED BY <1>1, <1>2, <1>5, <1>6, <2>1 DEF Versorgt
<1>8. ASSUME gefragt' = {}, EineBar', NEW n \in ToSet(bestellungIDs)
      PROVE  Gezeigt(n)'
  <2>1. ToSet(bestellungIDs) \subseteq DOMAIN geladen'
    BY <1>1, <1>6, <1>7, <1>8 DEF Versorgt, EineBar
  <2>2. DOMAIN geladen' = ToSet(bestellungIDs)
    BY <1>1, <1>3, <2>1
  <2>3. AlleGeladen(geladen')
    BY <2>2, AlleGeladenLesen DEF ListeInv
  <2> DEFINE s == Bestellungen  t == Zeigen(geladen')  T == ToSet(s) \cup ToSet(t)
  <2>4. Bestellungen' = s \o t
    BY <1>2, <2>3
  <2>5. /\ t \in Seq(ToSet(t)) /\ DOMAIN t = DOMAIN bestellungIDs
        /\ \A m \in DOMAIN t : t[m].id = bestellungIDs[m]
    BY AbschnitteLesen DEF ListeInv
  <2>6. s \in Seq(ToSet(s))
    BY DEF ListeInv, TabelleInv
  <2> HIDE DEF s, t
  <2>7. s \in Seq(T) /\ t \in Seq(T)
    BY <2>5, <2>6
  <2>8. ToSet(s \o t) = ToSet(s) \cup ToSet(t)
    <3> HIDE DEF T
    <3> QED BY <2>7, MengeVerkettet
  <2>9. PICK m \in DOMAIN t : t[m].id = n
    BY <1>8, <2>5 DEF ToSet
  <2>10. t[m] \in ToSet(s \o t)
    BY <2>8 DEF ToSet
  <2>11. \E l \in DOMAIN (s \o t) : (s \o t)[l] = t[m]
    BY <2>10 DEF ToSet
  <2> QED BY <2>4, <2>9, <2>11 DEF Gezeigt
<1> QED BY <1>1, <1>7, <1>8 DEF AllesGezeigt

LEMMA ListeNextVoll ==
  IInv /\ ListeInv /\ ListeTreu /\ VollInv /\ [ListeNext]_alleVars => VollInv'
<1> SUFFICES ASSUME IInv, ListeInv, ListeTreu, VollInv, [ListeNext]_alleVars PROVE VollInv'
  OBVIOUS
<1>1. [Next]_vars
  BY SendenTeil
<1>2. CASE viewDidLoad \/ loadAktuelleBar
  <2>1. bestellungIDs' = <<>>
    BY <1>2 DEF viewDidLoad, loadAktuelleBar, ListeInv, AnfangInv
  <2> QED BY <2>1, LeerVoll
<1>3. ASSUME Geschlossen PROVE VollInv'
  BY <1>3, LeerVoll DEF Geschlossen
<1>4. CASE Verlassen
  BY <1>3, <1>4 DEF Verlassen
<1>5. CASE loadBestellungenKeys
  <2>1. /\ ansicht # "abgestuerzt" /\ NeueEintraege
        /\ UNCHANGED <<vars, aktuelleBar, geladen, Bestellungen>>
    BY <1>5 DEF loadBestellungenKeys
  <2> QED BY <2>1, NeueEintraegeVoll
<1>6. ASSUME NEW id \in gefragt, loadBestellungen(id) PROVE VollInv'
  BY <1>6, LoadVoll
<1>7. ASSUME Zuhoeren \/ Trennen \/ UNCHANGED alleVars PROVE VollInv'
  <2>1. UNCHANGED <<ansicht, aktuelleBar, bestellungIDs, gefragt, geladen, Bestellungen>>
    BY <1>7 DEF Zuhoeren, Trennen, alleVars, listeVars
  <2> QED BY <1>1, <2>1, VollBleibt
<1>8. CASE Bestellen
  BY <1>7, <1>8 DEF Bestellen
<1>9. ASSUME NEW g \in Gaeste, Uebertragen(g) \/ NochmalUebertragen(g) PROVE VollInv'
  BY <1>7, <1>9 DEF Uebertragen, NochmalUebertragen
<1>10. ASSUME NEW g \in Gaeste, Beenden(g) PROVE VollInv'
  <2>1. CASE UNCHANGED listeVars
    <3>1. UNCHANGED <<ansicht, aktuelleBar, bestellungIDs, gefragt, geladen, Bestellungen>>
      BY <2>1 DEF listeVars
    <3> QED BY <1>1, <3>1, VollBleibt
  <2> QED BY <1>3, <1>10, <2>1 DEF Beenden
<1>11. CASE Verbinden
  <2>1. UNCHANGED <<vars, ansicht, aktuelleBar, geladen, Bestellungen>>
    BY <1>11 DEF Verbinden
  <2>2. CASE ansicht = "offen"
    <3>1. NeueEintraege
      BY <1>11, <2>2 DEF Verbinden
    <3> QED BY <2>1, <2>2, <3>1, NeueEintraegeVoll
  <2>3. CASE ansicht # "offen"
    <3>1. UNCHANGED <<bestellungIDs, gefragt>>
      BY <1>11, <2>3 DEF Verbinden
    <3> QED BY <1>1, <2>1, <3>1, VollBleibt
  <2> QED BY <2>2, <2>3
<1> QED BY <1>2, <1>4, <1>5, <1>6, <1>7, <1>8, <1>9, <1>10, <1>11, Zenon DEF ListeNext

\* When no answer is awaited, the list shows every order that was found, if all are
\* of its bar and not empty, in whichever order the orders and the answers came.
THEOREM ListeZeigtAlles == ListeSpec => []ListeVollstaendig
<1>1. ListeInit => VollInv
  <2> SUFFICES ASSUME ListeInit PROVE VollInv
    OBVIOUS
  <2>1. bestellungIDs = <<>>
    BY DEF ListeInit, Zu
  <2>2. ToSet(<<>>) = {}
    BY DEF ToSet
  <2> QED BY <2>1, <2>2 DEF VollInv, Versorgt, AllesGezeigt
<1>2. ListeSpec => [](IInv /\ ListeInv /\ ListeTreu /\ VollInv)
  BY <1>1, ListeInitInv, ListeInitTreu, ListeNextInv, ListeNextTreu, ListeNextVoll, PTL DEF ListeSpec
<1>3. VollInv => ListeVollstaendig
  BY DEF VollInv, AllesGezeigt, ListeVollstaendig
<1> QED BY <1>2, <1>3, PTL
-----------------------------------------------------------------------------
(* The extras of each line, and no crash.                                  *)

\* The orders that the list has found are of a shape that it can read: in a later
\* Unterkategorie of a later Kategorie, lines have one extra each.
HintenEines == \A id \in ToSet(bestellungIDs) : NurHintenEines(Soll(auftraege[id]))

\* z has a Kategorie, and the names of the extras of the order a.
NamenGetreu(a, z) == z.Kategorien # <<>> /\ z.ExtrasNamen = SollNamen(Soll(a))

\* Then so have all that are loaded and shown, and nothing is left of their extras.
AllesNamenGetreu ==
  /\ \A id \in DOMAIN geladen : NamenGetreu(auftraege[id], geladen[id])
  /\ \A n \in DOMAIN Bestellungen :
       NamenGetreu(auftraege[Bestellungen[n].id], Bestellungen[n].fund)

GutInv == HintenEines => ansicht # "abgestuerzt" /\ rest = KeinRest /\ AllesNamenGetreu

\* A tree without nodes is read to nothing.
LEMMA LeerGut ==
  ASSUME NEW baum, DOMAIN baum = {}, NEW s, s = Snapshot(baum)
  PROVE  IstSnapshot(s) /\ IstGut(s) /\ SollKategorien(s) = <<>>
<1>1. BaumGut(baum) /\ SollKategorien(s) = <<>>
  BY NichtsGelesen
<1>2. IstSnapshot(s)
  BY <1>1, SnapshotGut
<1>3. DOMAIN s = 1..Len(s)
  BY <1>2, BisGanz DEF IstSnapshot
<1>4. DOMAIN SollKategorien(s) = DOMAIN s /\ DOMAIN <<>> = {}
  BY DEF SollKategorien
<1>5. 1..Len(s) = {}
  BY <1>1, <1>3, <1>4
<1>6. IstGut(s)
  BY <1>5 DEF IstGut
<1> QED BY <1>1, <1>2, <1>6

\* The answer about an order of that shape.
LEMMA AntwortGut ==
  ASSUME IInv, FunktionInv, NEW id \in Eintraege(Geschehenes),
         NurHintenEines(Soll(auftraege[id])),
         NEW z, z = Fund(Snapshot(Baum(Sicht, aktuelleBar, id)), KeinRest)
  PROVE  /\ ~z.trap /\ z.extrasString = <<>> /\ z.extrasPreis = <<>>
         /\ z.Kategorien # <<>> => NamenGetreu(auftraege[id], z)
<1> DEFINE a == auftraege[id]  baum == Baum(Sicht, aktuelleBar, id)  s == Snapshot(baum)
<1>1. id \in DOMAIN auftraege /\ IstAuftrag(a) /\ a.id = id
  BY EintraegeMeine, AuftragLesen DEF Meine, IInv
<1>2. CASE a.bar = aktuelleBar
  <2>1. baum = Baum(Ueberlagert(<<>>, Updates(a)), a.bar, a.id)
    BY <1>1, <1>2, GelesenGesendet
  <2>2. s = Soll(a)
    BY <2>1 DEF Soll
  <2>3. z = Fund(s, KeinRest) /\ NurHintenEines(Soll(a))
    OBVIOUS
  <2> HIDE DEF a, s
  <2>4. IstSnapshot(s) /\ IstGut(s)
    BY <1>1, <2>2, <2>3, SollIstGut
  <2>5. Rein(z, SollNamen(s))
    BY <2>3, <2>4, FundExtras
  <2>6. Rein(z, SollNamen(Soll(a)))
    BY <2>2, <2>5
  <2> QED BY <2>6 DEF Rein, Heil, NamenGetreu, a
<1>3. CASE a.bar # aktuelleBar
  <2>1. DOMAIN baum = {}
    BY <1>1, <1>3, AndereBar
  <2>2. z = Fund(s, KeinRest)
    OBVIOUS
  <2> HIDE DEF baum
  <2>3. IstSnapshot(s) /\ IstGut(s) /\ SollKategorien(s) = <<>>
    BY <2>1, LeerGut
  <2> HIDE DEF s
  <2>4. Rein(z, SollNamen(s))
    BY <2>2, <2>3, FundExtras
  <2>5. ~z.trap /\ z.extrasString = <<>> /\ z.extrasPreis = <<>>
    BY <2>4 DEF Rein, Heil
  <2>6. z.Kategorien = <<>>
    BY <2>2, <2>3, <2>5, FundLesen
  <2> QED BY <2>5, <2>6
<1> QED BY <1>2, <1>3

\* An order in the guest's list has its Information.
LEMMA InformationGesehen ==
  ASSUME IInv, NEW id \in Eintraege(Geschehenes)
  PROVE  <<"Bestellungen", auftraege[id].bar, id, "Information">> \in DOMAIN Sicht
<1> DEFINE a == auftraege[id]
<1>1. a.id = id
  BY EintraegeMeine, AuftragLesen DEF Meine, IInv
<1>2. PICK x : x = InformationUpdate(a)
  OBVIOUS
<1>3. Da(x) \/ (selbesGeraet /\ x \in ToSet(schlange[ich]))
  BY <1>2, ItemsGesehen
<1>4. x.knoten \in DOMAIN Sicht
  BY <1>3, Gesehenes
<1>5. x.knoten = <<"Bestellungen", a.bar, a.id, "Information">>
  BY <1>2, Knotenarten, ZenonT(20)
<1> QED BY <1>1, <1>4, <1>5

\* Nothing that is unwrapped to show a loaded order is missing.
LEMMA GeladenVollstaendig ==
  ASSUME IInv, NEW id \in Eintraege(Geschehenes), NEW z,
         Getreu(auftraege[id], aktuelleBar, z), NamenGetreu(auftraege[id], z)
  PROVE  Vollstaendig(Sicht, id, z)
<1> DEFINE a == auftraege[id]  s == Soll(a)
<1>1. <<"Bestellungen", aktuelleBar, id, "Information">> \in DOMAIN Sicht
  BY InformationGesehen DEF Getreu
<1> HIDE DEF s
<1>2. /\ z.Kategorien # <<>> /\ z.Kategorien = SollKategorien(s)
      /\ z.Items = SollItems(s) /\ z.ExtrasNamen = SollNamen(s)
  BY DEF Getreu, NamenGetreu, s
<1>3. /\ DOMAIN SollKategorien(s) = DOMAIN s /\ DOMAIN SollItems(s) = DOMAIN s
      /\ DOMAIN SollNamen(s) = DOMAIN s
      /\ SollKategorien(s) = [k \in DOMAIN s |-> s[k].key]
  BY DEF SollKategorien, SollItems, SollNamen, SollExtras
<1>4. DOMAIN s # {}
  <2> SUFFICES ASSUME DOMAIN s = {} PROVE FALSE
    OBVIOUS
  <2>1. SollKategorien(s) = [k \in {} |-> s[k].key]
    BY <1>3
  <2>2. SollKategorien(s) = <<>>
    BY <2>1
  <2> QED BY <1>2, <2>2
<1>5. DOMAIN <<>> = {}
  OBVIOUS
<1>6. z.Items # <<>> /\ z.ExtrasNamen # <<>>
  BY <1>2, <1>3, <1>4, <1>5
<1> QED BY <1>1, <1>6 DEF Vollstaendig

LEMMA GutAnfang ==
  ASSUME ansicht' # "abgestuerzt", rest' = KeinRest, geladen' = <<>>, Bestellungen' = <<>>
  PROVE  GutInv'
  BY DEF GutInv, AllesNamenGetreu, KeinRest

\* What is loaded and shown keeps its names, whatever is found and ordered.
LEMMA GutBleibt ==
  ASSUME IInv, ListeInv, GutInv, [Next]_vars,
         UNCHANGED <<ansicht, geladen, rest, Bestellungen>>,
         ToSet(bestellungIDs) \subseteq ToSet(bestellungIDs')
  PROVE  GutInv'
<1>1. \A n \in ToSet(bestellungIDs) : auftraege'[n] = auftraege[n]
  BY GefundeneBleiben
<1>2. /\ DOMAIN geladen \subseteq ToSet(bestellungIDs)
      /\ \A n \in DOMAIN Bestellungen : Bestellungen[n].id \in ToSet(bestellungIDs)
  BY DEF ListeInv, GefundenInv, TabelleInv
<1>3. HintenEines' => HintenEines
  BY <1>1 DEF HintenEines
<1>4. AllesNamenGetreu => AllesNamenGetreu'
  BY <1>1, <1>2 DEF AllesNamenGetreu
<1> QED BY <1>3, <1>4 DEF GutInv, KeinRest

LEMMA LoadGut ==
  ASSUME IInv, ListeInv, ListeTreu, GutInv, NEW id, loadBestellungen(id)
  PROVE  GutInv'
<1> DEFINE z == Fund(Snapshot(Baum(Sicht, aktuelleBar, id)), rest)
<1>1. /\ id \in gefragt /\ ansicht = "offen"
      /\ DOMAIN geladen' \subseteq DOMAIN geladen \cup {id}
      /\ UNCHANGED <<vars, bestellungIDs>>
      /\ \/ UNCHANGED Bestellungen
         \/ AlleGeladen(geladen') /\ Bestellungen' = Bestellungen \o Zeigen(geladen')
  BY AntwortLesen
<1>2. /\ \A n \in DOMAIN geladen' :
           \/ n \in DOMAIN geladen /\ geladen'[n] = geladen[n]
           \/ n = id /\ geladen'[n] = z /\ z.Kategorien # <<>>
      /\ rest' = [extrasString |-> z.extrasString, extrasPreis |-> z.extrasPreis]
      /\ ~z.trap /\ (AlleGeladen(geladen') => AlleVollstaendig(geladen')) => UNCHANGED ansicht
  BY AntwortLaden
<1>3. /\ ToSet(bestellungIDs) \subseteq Eintraege(Geschehenes)
      /\ DOMAIN geladen \cup {id} \subseteq ToSet(bestellungIDs)
  BY <1>1 DEF ListeInv, GefundenInv, ListeTreu, SichtInv
<1>4. auftraege' = auftraege
  BY <1>1 DEF vars
<1> SUFFICES ASSUME HintenEines'
             PROVE  ansicht' # "abgestuerzt" /\ rest' = KeinRest /\ AllesNamenGetreu'
  BY DEF GutInv, KeinRest
<1>5. HintenEines
  BY <1>1, <1>4 DEF HintenEines
<1>6. rest = KeinRest /\ AllesNamenGetreu
  BY <1>5 DEF GutInv
<1>7. NurHintenEines(Soll(auftraege[id]))
  BY <1>3, <1>5 DEF HintenEines
<1>8. /\ ~z.trap /\ z.extrasString = <<>> /\ z.extrasPreis = <<>>
      /\ z.Kategorien # <<>> => NamenGetreu(auftraege[id], z)
  <2>1. z = Fund(Snapshot(Baum(Sicht, aktuelleBar, id)), KeinRest)
    BY <1>6
  <2>2. id \in Eintraege(Geschehenes) /\ FunktionInv
    BY <1>3 DEF ListeTreu
  <2> HIDE DEF z
  <2> QED BY <1>7, <2>1, <2>2, AntwortGut
<1>9. z.Kategorien # <<>> => Getreu(auftraege[id], aktuelleBar, z)
  BY <1>3, <1>8, AntwortGetreu DEF ListeTreu
<1> HIDE DEF z
<1>10. ASSUME NEW n \in DOMAIN geladen'
       PROVE  /\ NamenGetreu(auftraege[n], geladen'[n])
              /\ Getreu(auftraege[n], aktuelleBar, geladen'[n])
  <2>1. CASE n \in DOMAIN geladen /\ geladen'[n] = geladen[n]
    BY <1>1, <1>6, <2>1 DEF ListeTreu, GetreuInv, AllesNamenGetreu
  <2>2. CASE n = id /\ geladen'[n] = z /\ z.Kategorien # <<>>
    BY <1>8, <1>9, <2>2
  <2> QED BY <1>2, <1>10, <2>1, <2>2
<1>11. AlleGeladen(geladen') => DOMAIN geladen' = ToSet(bestellungIDs)
  BY <1>1, <1>3, AlleGeladenLesen DEF ListeInv
<1>12. UNCHANGED ansicht
  <2>1. ASSUME AlleGeladen(geladen') PROVE AlleVollstaendig(geladen')
    BY <1>3, <1>10, <1>11, <2>1, GeladenVollstaendig DEF AlleVollstaendig
  <2> QED BY <1>2, <1>8, <2>1
<1>13. rest' = KeinRest
  BY <1>2, <1>8 DEF KeinRest
<1>14. ASSUME AlleGeladen(geladen'), Bestellungen' = Bestellungen \o Zeigen(geladen')
       PROVE  \A n \in DOMAIN Bestellungen' :
                NamenGetreu(auftraege[Bestellungen'[n].id], Bestellungen'[n].fund)
  <2> DEFINE s == Bestellungen  t == Zeigen(geladen')  T == ToSet(s) \cup ToSet(t)
             P(x) == NamenGetreu(auftraege[x.id], x.fund)
  <2>1. t \in Seq(ToSet(t)) /\ DOMAIN t = DOMAIN bestellungIDs
    BY AbschnitteLesen DEF ListeInv
  <2>2. \A n \in DOMAIN t : t[n].id = bestellungIDs[n] /\ t[n].fund = geladen'[bestellungIDs[n]]
    BY <2>1 DEF Zeigen, Abschnitt
  <2>3. \A n \in DOMAIN t : P(t[n])
    <3>1. \A n \in DOMAIN bestellungIDs : bestellungIDs[n] \in DOMAIN geladen'
      BY <1>11, <1>14 DEF ToSet
    <3> QED BY <1>10, <2>1, <2>2, <3>1
  <2>4. \A n \in DOMAIN s : P(s[n])
    BY <1>6 DEF AllesNamenGetreu
  <2>5. s \in Seq(ToSet(s))
    BY DEF ListeInv, TabelleInv
  <2>6. Bestellungen' = s \o t
    BY <1>14
  <2> HIDE DEF s, t, P
  <2>7. s \in Seq(T) /\ t \in Seq(T)
    BY <2>1, <2>5
  <2>8. ToSet(s \o t) = T
    <3> HIDE DEF T
    <3>1. ToSet(s \o t) = ToSet(s) \cup ToSet(t)
      BY <2>7, MengeVerkettet
    <3> QED BY <3>1 DEF T
  <2>9. \A x \in T : P(x)
    BY <2>3, <2>4 DEF ToSet
  <2>10. \A n \in DOMAIN (s \o t) : (s \o t)[n] \in T
    BY <2>8 DEF ToSet
  <2>11. \A n \in DOMAIN Bestellungen' : P(Bestellungen'[n])
    BY <2>6, <2>9, <2>10
  <2> QED BY <2>11 DEF P
<1>15. \A n \in DOMAIN Bestellungen' :
         NamenGetreu(auftraege[Bestellungen'[n].id], Bestellungen'[n].fund)
  BY <1>1, <1>6, <1>14 DEF AllesNamenGetreu
<1>16. AllesNamenGetreu'
  BY <1>4, <1>10, <1>15 DEF AllesNamenGetreu
<1> QED BY <1>1, <1>12, <1>13, <1>16

LEMMA ListeNextGut ==
  IInv /\ ListeInv /\ ListeTreu /\ GutInv /\ [ListeNext]_alleVars => GutInv'
<1> SUFFICES ASSUME IInv, ListeInv, ListeTreu, GutInv, [ListeNext]_alleVars PROVE GutInv'
  OBVIOUS
<1>1. [Next]_vars
  BY SendenTeil
<1>2. CASE viewDidLoad \/ loadAktuelleBar
  <2>1. /\ ansicht' \in {"bar", "schluessel"}
        /\ rest' = KeinRest /\ geladen' = <<>> /\ Bestellungen' = <<>>
    BY <1>2 DEF viewDidLoad, loadAktuelleBar, ListeInv, AnfangInv
  <2> QED BY <2>1, GutAnfang
<1>3. ASSUME Geschlossen PROVE GutInv'
  BY <1>3, GutAnfang DEF Geschlossen
<1>4. CASE Verlassen
  BY <1>3, <1>4 DEF Verlassen
<1>5. CASE loadBestellungenKeys
  <2>1. ansicht' = "offen" /\ rest' = KeinRest /\ geladen' = <<>> /\ Bestellungen' = <<>>
    BY <1>5 DEF loadBestellungenKeys, ListeInv, AnfangInv
  <2> QED BY <2>1, GutAnfang
<1>6. ASSUME NEW id \in gefragt, loadBestellungen(id) PROVE GutInv'
  BY <1>6, LoadGut
<1>7. ASSUME Zuhoeren \/ Trennen \/ UNCHANGED alleVars PROVE GutInv'
  <2>1. UNCHANGED <<ansicht, bestellungIDs, geladen, rest, Bestellungen>>
    BY <1>7 DEF Zuhoeren, Trennen, alleVars, listeVars
  <2> QED BY <1>1, <2>1, GutBleibt
<1>8. CASE Bestellen
  BY <1>7, <1>8 DEF Bestellen
<1>9. ASSUME NEW g \in Gaeste, Uebertragen(g) \/ NochmalUebertragen(g) PROVE GutInv'
  BY <1>7, <1>9 DEF Uebertragen, NochmalUebertragen
<1>10. ASSUME NEW g \in Gaeste, Beenden(g) PROVE GutInv'
  <2>1. CASE UNCHANGED listeVars
    <3>1. UNCHANGED <<ansicht, bestellungIDs, geladen, rest, Bestellungen>>
      BY <2>1 DEF listeVars
    <3>2. [Next]_vars
      BY <1>10 DEF Beenden, Next
    <3> QED BY <3>1, <3>2, GutBleibt
  <2> QED BY <1>3, <1>10, <2>1 DEF Beenden
<1>11. CASE Verbinden
  <2>1. UNCHANGED <<vars, ansicht, geladen, rest, Bestellungen>>
    BY <1>11 DEF Verbinden
  <2>2. ToSet(bestellungIDs) \subseteq ToSet(bestellungIDs')
    <3>1. CASE NeueEintraege
      <4>1. Meine \subseteq Meine'
        BY <2>1 DEF Meine, vars
      <4>2. UNCHANGED geladen
        BY <2>1
      <4>3. PICK S : ToSet(bestellungIDs') = ToSet(bestellungIDs) \cup S
        BY <3>1, <4>1, <4>2, NeueEintraegeInv DEF ListeInv
      <4> QED BY <4>3
    <3>2. CASE bestellungIDs' = bestellungIDs
      BY <3>2
    <3> QED BY <1>11, <3>1, <3>2 DEF Verbinden
  <2> QED BY <1>1, <2>1, <2>2, GutBleibt
<1> QED BY <1>2, <1>4, <1>5, <1>6, <1>7, <1>8, <1>9, <1>10, <1>11, Zenon DEF ListeNext

LEMMA ListeSpecGut == ListeSpec => [](IInv /\ ListeInv /\ ListeTreu /\ GutInv)
<1>1. ASSUME ListeInit PROVE GutInv
  <2>1. ansicht # "abgestuerzt" /\ rest = KeinRest /\ geladen = <<>> /\ Bestellungen = <<>>
    BY <1>1 DEF ListeInit, Zu
  <2>2. DOMAIN geladen = {} /\ DOMAIN Bestellungen = {}
    BY <2>1
  <2>3. AllesNamenGetreu
    BY <2>2 DEF AllesNamenGetreu
  <2> QED BY <2>1, <2>3 DEF GutInv
<1> QED BY <1>1, ListeInitInv, ListeInitTreu, ListeNextInv, ListeNextTreu, ListeNextGut, PTL
        DEF ListeSpec

\* As long as all orders that a list has found are of a shape that it can read, it
\* shows the extras of each line at that line, in whichever order the orders and the
\* answers came: the two strings in which all answers collect extras never mix them.
THEOREM ExtrasStehenBeiIhrerZeile == ListeSpec => [](HintenEines => ExtrasBeiZeile)
<1>1. GutInv => (HintenEines => ExtrasBeiZeile)
  BY DEF GutInv, AllesNamenGetreu, NamenGetreu, SollNamen, ExtrasBeiZeile
<1> QED BY <1>1, ListeSpecGut, PTL

\* And then no unwrap or subscript fails, while the orders are put together and when
\* the table is filled: its count of loaded orders is reached only when all
\* that was found is loaded, each with its Information, its items and its extras.
THEOREM ListeStuerztNichtAb == ListeSpec => [](HintenEines => ListeOhneAbsturz)
<1>1. GutInv => (HintenEines => ListeOhneAbsturz)
  BY DEF GutInv, ListeOhneAbsturz
<1> QED BY <1>1, ListeSpecGut, PTL
====
