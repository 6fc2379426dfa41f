------------------------ MODULE MCBestellungLesen_proofs ------------------------
(***************************************************************************)
(* Two orders, one after the other, of every shape: what the reader makes  *)
(* of their lines, of the names of their extras and of the prices.         *)
(***************************************************************************)
EXTENDS MCBestellungLesen, Bestellfelder_proofs

-----------------------------------------------------------------------------
(* The shapes, and the orders of these shapes.                             *)

\* A sequence with something in it.
NichtLeer(s) == Folge(s) /\ Len(s) \in Nat \ {0}

\* Numbers of extras; lists of them, and lists of lists.
IstUnterform(g) == NichtLeer(g) /\ \A i \in 1..Len(g) : g[i] \in Nat \ {0}

IstTeilform(g) == NichtLeer(g) /\ \A u \in 1..Len(g) : IstUnterform(g[u])

IstForm(f) == Folge(f) /\ \A k \in 1..Len(f) : IstTeilform(f[k])

LEMMA FolgeAus ==
  ASSUME NEW S, NEW n \in Nat \ {0}, NEW f \in [1..n -> S]
  PROVE  NichtLeer(f) /\ Len(f) = n /\ \A k \in 1..n : f[k] \in S
<1>1. f = Bis(f, n)
  BY DEF Bis
<1> DEFINE g == Bis(f, n)
<1>2. Folge(g) /\ Len(g) = n
  BY BisLesen
<1> HIDE DEF g
<1>3. f = g
  BY <1>1 DEF g
<1> QED BY <1>2, <1>3 DEF NichtLeer

LEMMA FormenSindFormen ==
  ASSUME NEW f \in Formen
  PROVE  IstForm(f)
<1> DEFINE folgen(S) == UNION {[1..n -> S] : n \in Breiten}
           A == folgen(Breiten)
           B == folgen(A)
<1>1. f \in folgen(B)
  BY DEF Formen
<1>2. Breiten \subseteq Nat \ {0}
  BY MaxBreiteAnnahme DEF Breiten
<1>3. ASSUME NEW S, NEW g \in folgen(S) PROVE NichtLeer(g) /\ \A k \in 1..Len(g) : g[k] \in S
  <2>1. PICK n \in Breiten : g \in [1..n -> S]
    BY <1>3
  <2>2. n \in Nat \ {0}
    BY <1>2
  <2> QED BY <2>1, <2>2, FolgeAus
<1> HIDE DEF folgen
<1>4. \A g \in A : IstUnterform(g)
  BY <1>2, <1>3 DEF IstUnterform
<1> HIDE DEF A
<1>5. \A g \in B : IstTeilform(g)
  BY <1>3, <1>4 DEF IstTeilform
<1> HIDE DEF B
<1> QED BY <1>1, <1>3, <1>5 DEF IstForm, NichtLeer

LEMMA EinsNichtLeer ==
  ASSUME NEW x
  PROVE  NichtLeer(<<x>>) /\ Len(<<x>>) = 1 /\ \A i \in 1..1 : <<x>>[i] = x
<1>1. <<x>> \in [1..1 -> {x}]
  OBVIOUS
<1> DEFINE s == <<x>>
<1> HIDE DEF s
<1>2. s \in [1..1 -> {x}] /\ 1 \in Nat \ {0}
  BY <1>1 DEF s
<1>3. NichtLeer(s) /\ Len(s) = 1 /\ \A i \in 1..1 : s[i] \in {x}
  BY <1>2, FolgeAus
<1> QED BY <1>3 DEF s

LEMMA ZweiNichtLeer ==
  ASSUME NEW x, NEW y
  PROVE  /\ NichtLeer(<<x, y>>) /\ Len(<<x, y>>) = 2
         /\ \A i \in 1..2 : <<x, y>>[i] = x \/ <<x, y>>[i] = y
<1>1. <<x, y>> \in [1..2 -> {x, y}]
  OBVIOUS
<1> DEFINE s == <<x, y>>
<1> HIDE DEF s
<1>2. s \in [1..2 -> {x, y}] /\ 2 \in Nat \ {0}
  BY <1>1 DEF s
<1>3. NichtLeer(s) /\ Len(s) = 2 /\ \A i \in 1..2 : s[i] \in {x, y}
  BY <1>2, FolgeAus
<1> QED BY <1>3 DEF s

LEMMA ZweiteFormen ==
  ASSUME NEW f \in { << << << 1 >> >> >>, << << << 2, 2 >> >> >>, << << << 1 >>, << 2 >> >>, << << 2 >>, << 1 >> >> >> }
  PROVE  IstForm(f)
<1>1. \A x \in Nat \ {0} : IstUnterform(<<x>>)
  BY EinsNichtLeer DEF IstUnterform
<1>2. IstUnterform(<< 2, 2 >>)
  BY ZweiNichtLeer DEF IstUnterform
<1>3. ASSUME NEW g, IstUnterform(g) PROVE IstTeilform(<<g>>)
  BY <1>3, EinsNichtLeer DEF IstTeilform
<1>4. ASSUME NEW g, IstUnterform(g), NEW h, IstUnterform(h) PROVE IstTeilform(<<g, h>>)
  BY <1>4, ZweiNichtLeer DEF IstTeilform
<1>5. ASSUME NEW g, IstTeilform(g) PROVE IstForm(<<g>>)
  BY <1>5, EinsNichtLeer DEF IstForm, NichtLeer
<1>6. ASSUME NEW g, IstTeilform(g), NEW h, IstTeilform(h) PROVE IstForm(<<g, h>>)
  BY <1>6, ZweiNichtLeer DEF IstForm, NichtLeer
<1> DEFINE e == << 1 >>  z == << 2 >>  d == << 2, 2 >>
<1>7. IstUnterform(e) /\ IstUnterform(z) /\ IstUnterform(d)
  BY <1>1, <1>2
<1>8. f \in { <<<<e>>>>, <<<<d>>>>, << <<e, z>>, <<z, e>> >> }
  OBVIOUS
<1> HIDE DEF e, z, d
<1> DEFINE ee == <<e>>  dd == <<d>>  ez == <<e, z>>  ze == <<z, e>>
<1>9. IstTeilform(ee) /\ IstTeilform(dd) /\ IstTeilform(ez) /\ IstTeilform(ze)
  BY <1>3, <1>4, <1>7
<1>10. f \in { <<ee>>, <<dd>>, <<ez, ze>> }
  BY <1>8
<1> HIDE DEF ee, dd, ez, ze
<1> QED BY <1>5, <1>6, <1>9, <1>10

\* A line of an order, and the lists it is in.
Orte(f, s) ==
  /\ Folge(s) /\ Len(s) = Len(f) /\ DOMAIN s = 1..Len(f)
  /\ \A k \in 1..Len(f) :
       /\ s[k].key = k
       /\ Folge(s[k].kinder) /\ Len(s[k].kinder) = Len(f[k]) /\ DOMAIN s[k].kinder = 1..Len(f[k])
       /\ \A u \in 1..Len(f[k]) :
            /\ s[k].kinder[u].key = u
            /\ Folge(s[k].kinder[u].zeilen) /\ Len(s[k].kinder[u].zeilen) = Len(f[k][u])
            /\ DOMAIN s[k].kinder[u].zeilen = 1..Len(f[k][u])
            /\ \A i \in 1..Len(f[k][u]) :
                 s[k].kinder[u].zeilen[i] = Zeile(k, u, i, f[k][u][i])

LEMMA OrteInBestellung ==
  ASSUME NEW f, IstForm(f), NEW s, s = Bestellung(f)
  PROVE  Orte(f, s)
<1> DEFINE zeilen(k, u) == [i \in DOMAIN f[k][u] |-> Zeile(k, u, i, f[k][u][i])]
           kinder(k) == [u \in DOMAIN f[k] |-> [key |-> u, zeilen |-> zeilen(k, u)]]
<1>1. s = [k \in DOMAIN f |-> [key |-> k, kinder |-> kinder(k)]]
  BY DEF Bestellung
<1>2. ASSUME NEW g, NEW t, Folge(g), DOMAIN t = DOMAIN g, t = [i \in DOMAIN g |-> t[i]]
      PROVE Folge(t) /\ Len(t) = Len(g) /\ DOMAIN t = 1..Len(g) /\ DOMAIN g = 1..Len(g)
  <2>1. DOMAIN g = 1..Len(g) /\ Len(g) \in Nat
    BY <1>2, BisGanz
  <2>2. t = Bis(t, Len(g))
    BY <1>2, <2>1 DEF Bis
  <2> DEFINE r == Bis(t, Len(g))
  <2>3. Folge(r) /\ Len(r) = Len(g)
    BY <2>1, BisLesen
  <2>4. t = r
    BY <2>2
  <2> HIDE DEF r
  <2> QED BY <1>2, <2>1, <2>3, <2>4
<1> HIDE DEF kinder
<1>3. DOMAIN s = DOMAIN f /\ s = [k \in DOMAIN f |-> s[k]] /\ Folge(f)
  BY <1>1 DEF IstForm
<1>4. Folge(s) /\ Len(s) = Len(f) /\ DOMAIN s = 1..Len(f) /\ DOMAIN f = 1..Len(f)
  BY <1>2, <1>3
<1>5. ASSUME NEW k \in 1..Len(f)
      PROVE /\ s[k].key = k
            /\ Folge(s[k].kinder) /\ Len(s[k].kinder) = Len(f[k])
            /\ DOMAIN s[k].kinder = 1..Len(f[k])
            /\ \A u \in 1..Len(f[k]) :
                 /\ s[k].kinder[u].key = u
                 /\ Folge(s[k].kinder[u].zeilen)
                 /\ Len(s[k].kinder[u].zeilen) = Len(f[k][u])
                 /\ DOMAIN s[k].kinder[u].zeilen = 1..Len(f[k][u])
                 /\ \A i \in 1..Len(f[k][u]) :
                      s[k].kinder[u].zeilen[i] = Zeile(k, u, i, f[k][u][i])
  <2> DEFINE g == f[k]  t == s[k].kinder
  <2>1. s[k].key = k /\ t = kinder(k)
    BY <1>1, <1>4
  <2>2. IstTeilform(g)
    BY DEF IstForm
  <2> HIDE DEF t
  <2>3. /\ Folge(g) /\ DOMAIN t = DOMAIN g /\ t = [u \in DOMAIN g |-> t[u]]
        /\ \A u \in DOMAIN g : t[u] = [key |-> u, zeilen |-> zeilen(k, u)]
    BY <2>1, <2>2 DEF IstTeilform, NichtLeer, kinder
  <2> HIDE DEF g, zeilen
  <2>4. Folge(t) /\ Len(t) = Len(g) /\ DOMAIN t = 1..Len(g) /\ DOMAIN g = 1..Len(g)
    BY <1>2, <2>3
  <2>5. ASSUME NEW u \in 1..Len(g)
        PROVE /\ t[u].key = u /\ Folge(t[u].zeilen) /\ Len(t[u].zeilen) = Len(g[u])
              /\ DOMAIN t[u].zeilen = 1..Len(g[u])
              /\ \A i \in 1..Len(g[u]) : t[u].zeilen[i] = Zeile(k, u, i, g[u][i])
    <3> DEFINE h == g[u]  r == t[u].zeilen
    <3>1. t[u].key = u /\ r = zeilen(k, u)
      BY <2>3, <2>4
    <3>2. Folge(h)
      BY <2>2 DEF IstTeilform, IstUnterform, NichtLeer
    <3> HIDE DEF r
    <3>3. /\ DOMAIN r = DOMAIN h /\ r = [i \in DOMAIN h |-> r[i]]
          /\ \A i \in DOMAIN h : r[i] = Zeile(k, u, i, h[i])
      BY <3>1 DEF zeilen, g
    <3> HIDE DEF h
    <3>4. Folge(r) /\ Len(r) = Len(h) /\ DOMAIN r = 1..Len(h) /\ DOMAIN h = 1..Len(h)
      BY <1>2, <3>2, <3>3
    <3> QED BY <3>1, <3>3, <3>4 DEF h, r
  <2> QED BY <2>1, <2>4, <2>5 DEF g, t
<1> QED BY <1>4, <1>5 DEF Orte

LEMMA LeereForm ==
  IstForm(<<>>) /\ Bestellung(<<>>) = <<>>
<1>1. Folge(<<>>) /\ Len(<<>>) = 0 /\ 1..0 = {}
  BY LeereFolge
<1>2. IstForm(<<>>)
  BY <1>1 DEF IstForm
<1>3. Bestellung(<<>>) = <<>>
  BY DEF Bestellung
<1> QED BY <1>2, <1>3

\* The extras of a line.
ExtrasAn(k, u, i, n) == [j \in 1..n |-> Extra(k, u, i, j)]

ExtrasOrt(f, s, k, u, i) ==
  /\ s[k].kinder[u].zeilen[i].extras = ExtrasAn(k, u, i, f[k][u][i])
  /\ f[k][u][i] \in Nat \ {0} /\ Folge(ExtrasAn(k, u, i, f[k][u][i]))
  /\ Len(ExtrasAn(k, u, i, f[k][u][i])) = f[k][u][i]
  /\ k \in Nat /\ u \in Nat /\ i \in Nat

LEMMA ExtrasLesen ==
  ASSUME NEW f, IstForm(f), NEW s, s = Bestellung(f), NEW k \in 1..Len(f),
         NEW u \in 1..Len(f[k]), NEW i \in 1..Len(f[k][u])
  PROVE  ExtrasOrt(f, s, k, u, i)
<1> DEFINE n == f[k][u][i]
           E == [j \in 1..n |-> Extra(k, u, i, j)]
           r == Bis(E, n)
<1>1. n \in Nat \ {0} /\ Len(f) \in Nat /\ Len(f[k]) \in Nat /\ Len(f[k][u]) \in Nat
  BY BisGanz DEF IstForm, IstTeilform, IstUnterform, NichtLeer
<1>2. s[k].kinder[u].zeilen[i] = Zeile(k, u, i, n)
  BY OrteInBestellung DEF Orte
<1> HIDE DEF n
<1>3. E = r
  BY DEF Bis
<1>4. Folge(r) /\ Len(r) = n
  BY <1>1, BisLesen
<1> HIDE DEF r
<1>5. Folge(E) /\ Len(E) = n
  BY <1>3, <1>4
<1> HIDE DEF E
<1>6. ExtrasAn(k, u, i, n) = E
  BY DEF ExtrasAn, E
<1>7. s[k].kinder[u].zeilen[i].extras = E
  BY <1>2 DEF Zeile, E
<1>8. k \in Nat /\ u \in Nat /\ i \in Nat
  BY <1>1
<1> QED BY <1>1, <1>5, <1>6, <1>7, <1>8 DEF n, ExtrasOrt

\* An order is a snapshot.
LEMMA BestellungIstSnapshot ==
  ASSUME NEW f, IstForm(f), NEW s, s = Bestellung(f)
  PROVE  IstSnapshot(s)
<1>1. Orte(f, s)
  BY OrteInBestellung
<1>2. Injektiv([k \in DOMAIN s |-> s[k].key])
  BY <1>1 DEF Injektiv, Orte
<1>3. ASSUME NEW k \in 1..Len(s)
      PROVE /\ Folge(s[k].kinder) /\ Len(s[k].kinder) \in Nat \ {0}
            /\ Injektiv([u \in DOMAIN s[k].kinder |-> s[k].kinder[u].key])
            /\ \A u \in 1..Len(s[k].kinder) :
                 /\ Folge(s[k].kinder[u].zeilen) /\ Len(s[k].kinder[u].zeilen) \in Nat \ {0}
                 /\ \A i \in 1..Len(s[k].kinder[u].zeilen) :
                      Len(s[k].kinder[u].zeilen[i].extras) \in Nat
  <2>1. k \in 1..Len(f) /\ Folge(s[k].kinder) /\ Len(s[k].kinder) = Len(f[k])
        /\ IstTeilform(f[k])
    BY <1>1 DEF IstForm, Orte
  <2>2. Len(s[k].kinder) \in Nat \ {0}
    BY <2>1 DEF IstTeilform, NichtLeer
  <2>3. Injektiv([u \in DOMAIN s[k].kinder |-> s[k].kinder[u].key])
    <3> DEFINE t == s[k].kinder
    <3>1. DOMAIN t = 1..Len(f[k]) /\ \A u \in 1..Len(f[k]) : t[u].key = u
      BY <1>1, <2>1 DEF Orte
    <3> HIDE DEF t
    <3>2. Injektiv([u \in DOMAIN t |-> t[u].key])
      BY <3>1 DEF Injektiv
    <3> QED BY <3>2 DEF t
  <2>4. ASSUME NEW u \in 1..Len(s[k].kinder)
        PROVE /\ Folge(s[k].kinder[u].zeilen) /\ Len(s[k].kinder[u].zeilen) \in Nat \ {0}
              /\ \A i \in 1..Len(s[k].kinder[u].zeilen) :
                   Len(s[k].kinder[u].zeilen[i].extras) \in Nat
    <3>1. u \in 1..Len(f[k]) /\ Len(s[k].kinder[u].zeilen) = Len(f[k][u])
          /\ Folge(s[k].kinder[u].zeilen)
      BY <1>1, <2>1 DEF Orte
    <3>2. Len(f[k][u]) \in Nat \ {0}
      BY <2>1, <3>1 DEF IstTeilform, IstUnterform, NichtLeer
    <3>3. ASSUME NEW i \in 1..Len(f[k][u]) PROVE Len(s[k].kinder[u].zeilen[i].extras) \in Nat
      <4>1. ExtrasOrt(f, s, k, u, i)
        BY <2>1, <3>1, ExtrasLesen
      <4> DEFINE E == ExtrasAn(k, u, i, f[k][u][i])
      <4> HIDE DEF E
      <4> QED BY <4>1 DEF ExtrasOrt, E
    <3> QED BY <3>1, <3>2, <3>3
  <2> QED BY <2>1, <2>2, <2>3, <2>4
<1> QED BY <1>1, <1>2, <1>3 DEF IstSnapshot, Orte

LEMMA OrtDerZeile ==
  ASSUME NEW f, NEW s, Orte(f, s), NEW k \in 1..Len(s), NEW u \in 1..Len(s[k].kinder),
         NEW i \in 1..Len(s[k].kinder[u].zeilen)
  PROVE  k \in 1..Len(f) /\ u \in 1..Len(f[k]) /\ i \in 1..Len(f[k][u])
<1>1. k \in 1..Len(f)
  BY DEF Orte
<1>2. u \in 1..Len(f[k])
  BY <1>1 DEF Orte
<1>3. Len(s[k].kinder[u].zeilen) = Len(f[k][u])
  BY <1>1, <1>2 DEF Orte
<1> QED BY <1>1, <1>2, <1>3

LEMMA BestellungIstGut ==
  ASSUME NEW f, IstForm(f), NEW s, s = Bestellung(f), NurHintenEines(s)
  PROVE  IstGut(s)
<1>1. Orte(f, s)
  BY OrteInBestellung
<1>2. ASSUME NEW k \in 1..Len(s), NEW u \in 1..Len(s[k].kinder),
             NEW i \in 1..Len(s[k].kinder[u].zeilen)
      PROVE LET extras == s[k].kinder[u].zeilen[i].extras IN
            Folge(extras) /\ Len(extras) # 0 /\ (k > 1 /\ u > 1 => Len(extras) = 1)
  <2> DEFINE extras == s[k].kinder[u].zeilen[i].extras
  <2>1. k \in 1..Len(f) /\ u \in 1..Len(f[k]) /\ i \in 1..Len(f[k][u])
    BY <1>1, OrtDerZeile
  <2>2. ExtrasOrt(f, s, k, u, i)
    BY <2>1, ExtrasLesen
  <2>3. Folge(extras) /\ Len(extras) # 0
    BY <2>2 DEF ExtrasOrt
  <2>4. k > 1 /\ u > 1 => Len(extras) = 1
    <3>1. k \in DOMAIN s /\ u \in DOMAIN s[k].kinder /\ i \in DOMAIN s[k].kinder[u].zeilen
      BY <1>1, <2>1 DEF Orte
    <3> QED BY <3>1 DEF NurHintenEines
  <2> QED BY <2>3, <2>4
<1> QED BY <1>2 DEF IstGut, ExtrasGut

-----------------------------------------------------------------------------
(* Prices tell what they are the prices of.                                *)

Benannt == Nat \X Nat \X Nat \X Nat \X {"Name"}
PreisVon == [x \in Benannt |-> <<x[1], x[2], x[3], x[4], "Preis">>]

ExtraZuPreis(k, u, i, n) == Extra(k, u, i, n).Preis = PreisVon[Extra(k, u, i, n).Name]

LEMMA PreisEinesExtras ==
  ASSUME NEW k \in Nat, NEW u \in Nat, NEW i \in Nat, NEW n \in Nat
  PROVE  ExtraZuPreis(k, u, i, n)
<1> DEFINE x == <<k, u, i, n, "Name">>
<1>1. x \in Benannt /\ x[1] = k /\ x[2] = u /\ x[3] = i /\ x[4] = n
  BY DEF Benannt
<1>2. Extra(k, u, i, n).Preis = <<k, u, i, n, "Preis">> /\ Extra(k, u, i, n).Name = x
  BY DEF Extra
<1> HIDE DEF x
<1>3. PreisVon[x] = <<x[1], x[2], x[3], x[4], "Preis">>
  BY <1>1 DEF PreisVon
<1> QED BY <1>1, <1>2, <1>3 DEF ExtraZuPreis

LEMMA BestellungBepreist ==
  ASSUME NEW f, IstForm(f), NEW s, s = Bestellung(f)
  PROVE  AllePreiseZu(PreisVon, s)
<1>1. Orte(f, s)
  BY OrteInBestellung
<1>2. ASSUME NEW k \in 1..Len(s), NEW u \in 1..Len(s[k].kinder),
             NEW i \in 1..Len(s[k].kinder[u].zeilen)
      PROVE PreiseZu(PreisVon, s[k].kinder[u].zeilen[i].extras)
  <2>1. k \in 1..Len(f) /\ u \in 1..Len(f[k]) /\ i \in 1..Len(f[k][u])
    BY <1>1, OrtDerZeile
  <2> DEFINE c == f[k][u][i]  extras == s[k].kinder[u].zeilen[i].extras  E == ExtrasAn(k, u, i, c)
  <2>2. ExtrasOrt(f, s, k, u, i)
    BY <2>1, ExtrasLesen
  <2>3. extras = E /\ Len(E) = c /\ c \in Nat /\ k \in Nat /\ u \in Nat /\ i \in Nat
    BY <2>2 DEF ExtrasOrt
  <2> HIDE DEF c, extras
  <2>4. \A n \in 1..c : E[n] = Extra(k, u, i, n) /\ n \in Nat
    BY <2>3 DEF ExtrasAn
  <2> HIDE DEF E
  <2>5. \A n \in 1..c : E[n].Preis = PreisVon[E[n].Name]
    <3> TAKE n \in 1..c
    <3>1. E[n] = Extra(k, u, i, n) /\ n \in Nat
      BY <2>4
    <3>2. k \in Nat /\ u \in Nat /\ i \in Nat /\ n \in Nat
      BY <2>3, <3>1
    <3>3. ExtraZuPreis(k, u, i, n)
      BY <3>2, PreisEinesExtras
    <3> QED BY <3>1, <3>3 DEF ExtraZuPreis
  <2>6. PreiseZu(PreisVon, extras)
    BY <2>3, <2>5 DEF PreiseZu
  <2> QED BY <2>6 DEF extras
<1> QED BY <1>2 DEF AllePreiseZu

\* The names and the prices of the extras of a line, in the arrays they should be in.
FelderAn(f, s, feld, k, u) ==
  /\ DOMAIN SollExtras(s, feld) = 1..Len(f)
  /\ DOMAIN SollExtras(s, feld)[k] = 1..Len(f[k])
  /\ Folge(SollExtras(s, feld)[k][u]) /\ Len(SollExtras(s, feld)[k][u]) = Len(f[k][u])
  /\ \A i \in 1..Len(f[k][u]) :
       SollExtras(s, feld)[k][u][i] = [n \in 1..f[k][u][i] |-> Extra(k, u, i, n)[feld]]

LEMMA SollLesen ==
  ASSUME NEW f, IstForm(f), NEW s, s = Bestellung(f), NEW feld,
         NEW k \in 1..Len(f), NEW u \in 1..Len(f[k])
  PROVE  FelderAn(f, s, feld, k, u)
<1> DEFINE S == SollExtras(s, feld)  kinder == s[k].kinder
           namen(z) == [i \in DOMAIN z |-> [n \in DOMAIN z[i].extras |-> z[i].extras[n][feld]]]
<1>1. Orte(f, s)
  BY OrteInBestellung
<1>2. DOMAIN s = 1..Len(f) /\ DOMAIN kinder = 1..Len(f[k])
  BY <1>1 DEF Orte
<1>3. S[k] = [j \in DOMAIN kinder |-> namen(kinder[j].zeilen)] /\ DOMAIN S = 1..Len(f)
  BY <1>2 DEF SollExtras
<1>4. S[k][u] = namen(kinder[u].zeilen) /\ DOMAIN S[k] = 1..Len(f[k])
  BY <1>2, <1>3
<1> DEFINE z == kinder[u].zeilen
           A == S[k][u]
<1>5. DOMAIN z = 1..Len(f[k][u]) /\ Len(f[k][u]) \in Nat
  <2>1. IstUnterform(f[k][u])
    BY DEF IstForm, IstTeilform
  <2>2. Len(f[k][u]) \in Nat
    BY <2>1 DEF IstUnterform, NichtLeer
  <2> QED BY <1>1, <2>2 DEF Orte
<1> HIDE DEF S
<1>6. /\ DOMAIN A = 1..Len(f[k][u]) /\ A = [i \in 1..Len(f[k][u]) |-> A[i]]
      /\ \A i \in 1..Len(f[k][u]) : A[i] = [n \in DOMAIN z[i].extras |-> z[i].extras[n][feld]]
  BY <1>4, <1>5
<1>7. Folge(A) /\ Len(A) = Len(f[k][u])
  <2> DEFINE r == Bis(A, Len(f[k][u]))
  <2>1. Folge(r) /\ Len(r) = Len(f[k][u])
    BY <1>5, BisLesen
  <2>2. A = r
    BY <1>6 DEF Bis
  <2> HIDE DEF A, r
  <2> QED BY <2>1, <2>2
<1>8. ASSUME NEW i \in 1..Len(f[k][u])
      PROVE A[i] = [n \in 1..f[k][u][i] |-> Extra(k, u, i, n)[feld]]
  <2> DEFINE c == f[k][u][i]  E == ExtrasAn(k, u, i, c)
  <2>1. ExtrasOrt(f, s, k, u, i)
    BY ExtrasLesen
  <2>2. z[i].extras = E
    BY <2>1 DEF ExtrasOrt
  <2>3. A[i] = [n \in DOMAIN E |-> E[n][feld]]
    BY <1>6, <2>2
  <2> HIDE DEF A, c
  <2> QED BY <2>3 DEF ExtrasAn, c
<1> QED BY <1>3, <1>4, <1>7, <1>8 DEF FelderAn, S

\* v is what the field of the extras of line i of order u of Kategorie k shall be.
ZeileSoll(s, feld, k, u, i, v) == v = SollExtras(s, feld)[k][u][i]

\* The prices of a line that goes by its names.
LEMMA PreiseDerZeile ==
  ASSUME NEW f, IstForm(f), NEW s, s = Bestellung(f), NEW k \in 1..Len(f), NEW u \in 1..Len(f[k]),
         NEW i \in 1..Len(f[k][u]), NEW v, ZeileSoll(s, "Name", k, u, i, v),
         NEW w, Bepreist(PreisVon, v, w)
  PROVE  ZeileSoll(s, "Preis", k, u, i, w)
<1> DEFINE c == f[k][u][i]
           N == [n \in 1..c |-> Extra(k, u, i, n)["Name"]]
           P == [n \in 1..c |-> Extra(k, u, i, n)["Preis"]]
<1>1. v = N /\ SollExtras(s, "Preis")[k][u][i] = P
  <2>1. FelderAn(f, s, "Name", k, u) /\ FelderAn(f, s, "Preis", k, u)
    BY SollLesen
  <2> QED BY <2>1 DEF FelderAn, ZeileSoll
<1>2. ExtrasOrt(f, s, k, u, i)
  BY ExtrasLesen
<1>3. c \in Nat /\ k \in Nat /\ u \in Nat /\ i \in Nat
  BY <1>2 DEF ExtrasOrt
<1> HIDE DEF c
<1>4. Folge(v) /\ Folge(w) /\ Len(w) = Len(v) /\ \A j \in 1..Len(v) : w[j] = PreisVon[v[j]]
  BY DEF Bepreist
<1>5. Folge(P) /\ Len(P) = c /\ Len(v) = c
  <2>1. N = Bis(N, c) /\ P = Bis(P, c)
    BY DEF Bis
  <2> DEFINE A == Bis(N, c)  B == Bis(P, c)
  <2>2. Len(A) = c /\ Folge(B) /\ Len(B) = c
    BY <1>3, BisLesen
  <2>3. N = A /\ P = B
    BY <2>1
  <2> HIDE DEF A, B, N, P
  <2> QED BY <1>1, <2>2, <2>3
<1>6. ASSUME NEW j \in 1..c PROVE w[j] = P[j]
  <2>1. j \in Nat
    BY <1>3
  <2>2. ExtraZuPreis(k, u, i, j)
    BY <1>3, <2>1, PreisEinesExtras
  <2>3. v[j] = Extra(k, u, i, j).Name /\ P[j] = Extra(k, u, i, j).Preis
    BY <1>1
  <2>4. w[j] = PreisVon[v[j]]
    BY <1>4, <1>5
  <2> QED BY <2>2, <2>3, <2>4 DEF ExtraZuPreis
<1> HIDE DEF P
<1>7. w = P
  BY <1>4, <1>5, <1>6, FolgenGleich
<1> QED BY <1>1, <1>7 DEF ZeileSoll

\* Where the prices of an order are, if those of the names are right.
PreiseWieGesagt(p, soll) ==
  /\ DOMAIN p = DOMAIN soll
  /\ \A k \in DOMAIN soll : DOMAIN p[k] = DOMAIN soll[k]
  /\ \A k \in DOMAIN soll : \A u \in DOMAIN soll[k] :
       IF k = 1 /\ u = 1 THEN ToSet(p[k][u]) = ToSet(soll[k][u]) ELSE p[k][u] = soll[k][u]

LEMMA PreiseEinerBestellung ==
  ASSUME NEW f, IstForm(f), NEW s, s = Bestellung(f),
         NEW z, PreisTreu(PreisVon, z), z.ExtrasNamen = SollExtras(s, "Name")
  PROVE  PreiseWieGesagt(z.ExtrasPreise, SollExtras(s, "Preis"))
<1> DEFINE N == SollExtras(s, "Name")  S == SollExtras(s, "Preis")  P == z.ExtrasPreise
<1>1. AllesBepreist(PreisVon, N, P)
  BY DEF PreisTreu
<1>2. ASSUME NEW feld PROVE DOMAIN SollExtras(s, feld) = 1..Len(f)
  <2>1. Orte(f, s)
    BY OrteInBestellung
  <2> QED BY <2>1 DEF Orte, SollExtras
<1>3. ASSUME NEW k \in 1..Len(f), NEW u \in 1..Len(f[k])
      PROVE FelderAn(f, s, "Name", k, u) /\ FelderAn(f, s, "Preis", k, u)
  BY SollLesen
<1>4. ASSUME NEW k \in 1..Len(f)
      PROVE DOMAIN N[k] = 1..Len(f[k]) /\ DOMAIN S[k] = 1..Len(f[k])
  <2>1. 1 \in 1..Len(f[k])
    BY DEF IstForm, IstTeilform, NichtLeer
  <2> HIDE DEF N, S
  <2> QED BY <1>3, <2>1 DEF FelderAn, N, S
<1>5. ASSUME NEW k \in 1..Len(f), NEW u \in 1..Len(f[k]), NEW i \in 1..Len(f[k][u]), NEW w,
             Bepreist(PreisVon, N[k][u][i], w)
      PROVE w = S[k][u][i]
  <2> DEFINE v == N[k][u][i]
  <2>1. ZeileSoll(s, "Name", k, u, i, v) /\ Bepreist(PreisVon, v, w)
    BY <1>5 DEF ZeileSoll
  <2> HIDE DEF v, N, S, P
  <2>2. ZeileSoll(s, "Preis", k, u, i, w)
    BY <2>1, PreiseDerZeile
  <2> QED BY <2>2 DEF ZeileSoll, S
<1> HIDE DEF N, S, P
<1>6. Folge(N) /\ Folge(P) /\ Len(P) = Len(N) /\ DOMAIN N = 1..Len(f)
      /\ \A k \in 1..Len(N) : KategorieBepreist(PreisVon, k, N[k], P[k])
  BY <1>1, <1>2 DEF AllesBepreist, N
<1>7. DOMAIN P = 1..Len(f) /\ \A k \in 1..Len(f) : k \in 1..Len(N)
  BY <1>6, BisGanz
<1>8. ASSUME NEW k \in 1..Len(f)
      PROVE /\ DOMAIN P[k] = 1..Len(f[k])
            /\ \A u \in 1..Len(f[k]) : ListeBepreist(PreisVon, k, u, N[k][u], P[k][u])
  <2> DEFINE n == N[k]  p == P[k]
  <2>1. KategorieBepreist(PreisVon, k, n, p) /\ DOMAIN n = 1..Len(f[k])
    BY <1>4, <1>6, <1>7
  <2> HIDE DEF n, p
  <2>2. /\ Folge(n) /\ Folge(p) /\ Len(p) = Len(n)
        /\ \A u \in 1..Len(n) : ListeBepreist(PreisVon, k, u, n[u], p[u])
    BY <2>1 DEF KategorieBepreist
  <2>3. DOMAIN n = 1..Len(n) /\ DOMAIN p = 1..Len(p)
    BY <2>2, BisGanz
  <2>4. DOMAIN p = 1..Len(f[k]) /\ \A u \in 1..Len(f[k]) : u \in 1..Len(n)
    BY <2>1, <2>2, <2>3
  <2> QED BY <2>2, <2>4 DEF n, p
<1>9. ASSUME NEW k \in 1..Len(f), NEW u \in 1..Len(f[k])
      PROVE IF k = 1 /\ u = 1 THEN ToSet(P[k][u]) = ToSet(S[k][u]) ELSE P[k][u] = S[k][u]
  <2> DEFINE n == N[k][u]  p == P[k][u]  t == S[k][u]  L == Len(f[k][u])
  <2>1. ListeBepreist(PreisVon, k, u, n, p)
    BY <1>8
  <2>2. Folge(n) /\ Len(n) = L /\ Folge(t) /\ Len(t) = L
    BY <1>3 DEF FelderAn, N, S
  <2>3. \A i \in 1..L : \A w : Bepreist(PreisVon, n[i], w) => w = t[i]
    BY <1>5
  <2> HIDE DEF n, p, t, L
  <2>4. /\ Folge(p) /\ Len(p) = L
        /\ k = 1 /\ u = 1 => Gemischt(PreisVon, n, p)
        /\ ~(k = 1 /\ u = 1) => \A i \in 1..L : Bepreist(PreisVon, n[i], p[i])
    BY <2>1, <2>2 DEF ListeBepreist
  <2>5. DOMAIN n = 1..L /\ DOMAIN p = 1..L /\ DOMAIN t = 1..L
    BY <2>2, <2>4, BisGanz
  <2>6. CASE ~(k = 1 /\ u = 1)
    <3>1. \A i \in 1..L : p[i] = t[i]
      BY <2>3, <2>4, <2>6
    <3>2. p = t
      BY <2>2, <2>4, <3>1, FolgenGleich
    <3> QED BY <2>6, <3>2 DEF p, t
  <2>7. CASE k = 1 /\ u = 1
    <3>1. Gemischt(PreisVon, n, p)
      BY <2>4, <2>7
    <3>2. \A v \in ToSet(n) : \E i \in 1..L : v = n[i]
      BY <2>5 DEF ToSet
    <3>3. \A i \in 1..L : n[i] \in ToSet(n) /\ t[i] \in ToSet(t)
      BY <2>5 DEF ToSet
    <3>4. ASSUME NEW w \in ToSet(p) PROVE w \in ToSet(t)
      <4>1. PICK v \in ToSet(n) : Bepreist(PreisVon, v, w)
        BY <3>1 DEF Gemischt
      <4>2. PICK i \in 1..L : v = n[i]
        BY <3>2
      <4>3. w = t[i]
        BY <2>3, <4>1, <4>2
      <4> QED BY <3>3, <4>3
    <3>5. ASSUME NEW x \in ToSet(t) PROVE x \in ToSet(p)
      <4>1. PICK i \in 1..L : x = t[i]
        BY <2>5 DEF ToSet
      <4>2. PICK w \in ToSet(p) : Bepreist(PreisVon, n[i], w)
        BY <3>1, <3>3 DEF Gemischt
      <4>3. w = t[i]
        BY <2>3, <4>2
      <4> QED BY <4>1, <4>2, <4>3
    <3>6. ToSet(p) = ToSet(t)
      BY <3>4, <3>5
    <3> QED BY <2>7, <3>6 DEF p, t
  <2> QED BY <2>6, <2>7
<1>10. DOMAIN S = 1..Len(f)
  BY <1>2 DEF S
<1>11. PreiseWieGesagt(P, S)
  <2>1. DOMAIN P = DOMAIN S
    BY <1>7, <1>10
  <2>2. \A k \in DOMAIN S : DOMAIN P[k] = DOMAIN S[k]
    BY <1>4, <1>8, <1>10
  <2>3. ASSUME NEW k \in DOMAIN S, NEW u \in DOMAIN S[k]
        PROVE IF k = 1 /\ u = 1 THEN ToSet(P[k][u]) = ToSet(S[k][u]) ELSE P[k][u] = S[k][u]
    <3>1. k \in 1..Len(f)
      BY <1>10
    <3>2. u \in 1..Len(f[k])
      BY <1>4, <3>1
    <3> QED BY <1>9, <3>1, <3>2
  <2> QED BY <2>1, <2>2, <2>3 DEF PreiseWieGesagt
<1> QED BY <1>11 DEF P, S

-----------------------------------------------------------------------------
(* What is read.                                                           *)

\* All that was read are orders, and fund is what came of the last one, read with
\* nothing left of those before it if all of them are of a shape it can cope with.
GelesenInv ==
  /\ Folge(gelesen)
  /\ \A j \in 1..Len(gelesen) : \E f : IstForm(f) /\ gelesen[j] = Bestellung(f)
  /\ \E r : fund = Fund(Snapshot, r)
  /\ NurGute => fund = Fund(Snapshot, KeinRest)

LEMMA LeererSnapshot ==
  Fund(<<>>, KeinRest) = LeererFund(KeinRest)
<1> DEFINE N == Len(<<>>)
<1>1. N = 0
  OBVIOUS
<1>2. N \in Nat
  BY <1>1
<1>3. PICK f : /\ f[0] = LeererFund(KeinRest) /\ f[N] = Fund(<<>>, KeinRest)
               /\ \A n \in 0..N : n < N => f[n + 1] = LiesKategorie(f[n], <<>>[n + 1])
  BY <1>2, FundNacheinander
<1> QED BY <1>1, <1>3

\* The order that was read last.
LEMMA SnapshotForm ==
  ASSUME GelesenInv
  PROVE  \E f : IstForm(f) /\ Snapshot = Bestellung(f)
<1>1. CASE gelesen = <<>>
  BY <1>1, LeereForm DEF Snapshot
<1>2. CASE gelesen # <<>>
  <2>1. Folge(gelesen) /\ Len(gelesen) \in 1..Len(gelesen)
    BY <1>2 DEF GelesenInv, Folge
  <2>2. Snapshot = gelesen[Len(gelesen)]
    BY <1>2 DEF Snapshot, Last
  <2> QED BY <2>1, <2>2 DEF GelesenInv
<1> QED BY <1>1, <1>2

\* If it and those before it are of such a shape, it is read as the lemmas say.
LEMMA GuteGelesen ==
  ASSUME GelesenInv, NurGute
  PROVE  /\ Rein(fund, SollExtras(Snapshot, "Name"))
         /\ PreiseWieGesagt(fund.ExtrasPreise, SollExtras(Snapshot, "Preis"))
<1>1. PICK f : IstForm(f) /\ Snapshot = Bestellung(f)
  BY SnapshotForm
<1>2. fund = Fund(Snapshot, KeinRest)
  BY DEF GelesenInv
<1>3. NurHintenEines(Snapshot)
  <2>1. CASE gelesen = <<>>
    <3>1. DOMAIN Snapshot = {}
      BY <2>1 DEF Snapshot
    <3> QED BY <3>1 DEF NurHintenEines
  <2>2. CASE gelesen # <<>>
    <3>1. Len(gelesen) \in DOMAIN gelesen
      BY <2>2 DEF GelesenInv, Folge
    <3>2. Snapshot \in ToSet(gelesen)
      BY <2>2, <3>1 DEF Snapshot, Last, ToSet
    <3> QED BY <3>2 DEF NurGute
  <2> QED BY <2>1, <2>2
<1> DEFINE s == Snapshot
<1> HIDE DEF s
<1>4. s = Bestellung(f) /\ IstForm(f) /\ NurHintenEines(s) /\ fund = Fund(s, KeinRest)
  BY <1>1, <1>2, <1>3 DEF s
<1>5. IstSnapshot(s) /\ IstGut(s) /\ AllePreiseZu(PreisVon, s)
  BY <1>4, BestellungIstSnapshot, BestellungIstGut, BestellungBepreist
<1>6. Rein(fund, SollNamen(s)) /\ PreisTreu(PreisVon, fund)
  BY <1>4, <1>5, FundExtras, FundPreise
<1>7. fund.ExtrasNamen = SollExtras(s, "Name")
  BY <1>6 DEF Rein, SollNamen
<1>8. PreiseWieGesagt(fund.ExtrasPreise, SollExtras(s, "Preis"))
  BY <1>4, <1>6, <1>7, PreiseEinerBestellung
<1> QED BY <1>6, <1>8 DEF s, SollNamen

LEMMA GelesenAnfang ==
  ASSUME Init
  PROVE  GelesenInv
<1>1. Snapshot = <<>> /\ gelesen = <<>> /\ fund = LeererFund(KeinRest)
  BY DEF Init, Snapshot
<1>2. fund = Fund(Snapshot, KeinRest)
  BY <1>1, LeererSnapshot
<1>3. Folge(gelesen) /\ \A j \in 1..Len(gelesen) : FALSE
  BY <1>1, LeereFolge
<1> QED BY <1>2, <1>3 DEF GelesenInv

\* One order more.
LEMMA GelesenLesen ==
  ASSUME GelesenInv, NEW f, IstForm(f), Lesen(Bestellung(f))
  PROVE  GelesenInv'
<1> DEFINE s == Bestellung(f)
           r == [extrasString |-> fund.extrasString, extrasPreis |-> fund.extrasPreis]
<1>1. ~fund.trap /\ gelesen' = Append(gelesen, s) /\ fund' = Fund(s, r)
  BY DEF Lesen
<1>2. Folge(gelesen)
  BY DEF GelesenInv
<1> DEFINE g == Append(gelesen, s)
<1>3. /\ Folge(g) /\ Len(g) = Len(gelesen) + 1 /\ Len(gelesen) \in Nat
      /\ \A k \in 1..Len(gelesen) : g[k] = gelesen[k]
      /\ g[Len(gelesen) + 1] = s
  BY <1>2, AppendLesen
<1> HIDE DEF g, s
<1>4. gelesen' = g
  BY <1>1 DEF g
<1>5. Snapshot' = s
  <2>1. g # <<>>
    BY <1>3
  <2>2. g[Len(g)] = s
    BY <1>3
  <2> QED BY <1>4, <2>1, <2>2 DEF Snapshot, Last
<1>6. \A j \in 1..Len(g) : \E h : IstForm(h) /\ g[j] = Bestellung(h)
  <2>1. \A j \in 1..Len(gelesen) : \E h : IstForm(h) /\ gelesen[j] = Bestellung(h)
    BY DEF GelesenInv
  <2>2. \E h : IstForm(h) /\ s = Bestellung(h)
    BY DEF s
  <2>3. \A j \in 1..Len(g) : j \in 1..Len(gelesen) \/ j = Len(gelesen) + 1
    BY <1>3
  <2> QED BY <1>3, <2>1, <2>2, <2>3
<1>7. ASSUME NurGute' PROVE fund' = Fund(s, KeinRest)
  <2>1. ToSet(gelesen) \subseteq ToSet(g)
    <3>1. DOMAIN g = 1..Len(g) /\ DOMAIN gelesen = 1..Len(gelesen)
      BY <1>2, <1>3, BisGanz
    <3>2. \A j \in 1..Len(gelesen) : j \in 1..Len(g)
      BY <1>3
    <3> QED BY <1>3, <3>1, <3>2 DEF ToSet
  <2>2. \A t \in ToSet(g) : NurHintenEines(t)
    BY <1>4, <1>7 DEF NurGute
  <2>3. NurGute
    BY <2>1, <2>2 DEF NurGute
  <2>4. Rein(fund, SollExtras(Snapshot, "Name"))
    BY <2>3, GuteGelesen
  <2>5. r = KeinRest
    BY <2>4 DEF Rein, KeinRest
  <2> QED BY <1>1, <2>5
<1>8. \E q : fund' = Fund(s, q)
  BY <1>1
<1> QED BY <1>3, <1>4, <1>5, <1>6, <1>7, <1>8 DEF GelesenInv

LEMMA GelesenStets == LesenSpec => []GelesenInv
<1>1. Init => GelesenInv
  BY GelesenAnfang
<1>2. GelesenInv /\ [Next]_<<gelesen, fund>> => GelesenInv'
  <2> SUFFICES ASSUME GelesenInv, [Next]_<<gelesen, fund>> PROVE GelesenInv'
    OBVIOUS
  <2>1. CASE Erste
    BY <2>1, FormenSindFormen, GelesenLesen DEF Erste
  <2>2. CASE Zweite
    BY <2>2, ZweiteFormen, GelesenLesen DEF Zweite
  <2>3. CASE UNCHANGED <<gelesen, fund>>
    BY <2>3 DEF GelesenInv, Snapshot, NurGute
  <2> QED BY <2>1, <2>2, <2>3 DEF Next
<1> QED BY <1>1, <1>2, PTL DEF LesenSpec

\* However many Kategorien, Unterkategorien, lines and extras the orders have,
\* loadBestellungen reads the lines of an order as they are, unless it crashes.
THEOREM ItemsSindRichtig == LesenSpec => []ItemsRichtig
<1>1. GelesenInv => ItemsRichtig
  <2> SUFFICES ASSUME GelesenInv, ~fund.trap PROVE fund.Items = SollItems(Snapshot)
    BY DEF ItemsRichtig
  <2>1. PICK f : IstForm(f) /\ Snapshot = Bestellung(f)
    BY SnapshotForm
  <2>2. PICK r : fund = Fund(Snapshot, r)
    BY DEF GelesenInv
  <2> DEFINE s == Snapshot
  <2> HIDE DEF s
  <2>3. s = Bestellung(f) /\ fund = Fund(s, r)
    BY <2>1, <2>2 DEF s
  <2>4. IstSnapshot(s)
    BY <2>1, <2>3, BestellungIstSnapshot
  <2>5. fund.Items = SollItems(s)
    BY <2>3, <2>4, FundLesen
  <2> QED BY <2>5 DEF s
<1> QED BY <1>1, GelesenStets, PTL

\* If lines in later Unterkategorien of later Kategorien have one extra each,
\* loadBestellungen does not crash and puts the names of all extras to their lines.
THEOREM NamenSindRichtig == LesenSpec => []NamenRichtig
<1>1. GelesenInv => NamenRichtig
  <2> SUFFICES ASSUME GelesenInv, NurGute
               PROVE  /\ ~fund.trap
                      /\ fund.ExtrasNamen = SollExtras(Snapshot, "Name")
                      /\ fund.extrasString = <<>> /\ fund.extrasPreis = <<>>
    BY DEF NamenRichtig
  <2>1. Rein(fund, SollExtras(Snapshot, "Name"))
    BY GuteGelesen
  <2> QED BY <2>1 DEF Rein, Heil
<1> QED BY <1>1, GelesenStets, PTL

\* Then the prices, too, are at their lines, except that in the first Unterkategorie
\* of an order they may be at another of its lines.
THEOREM PreiseBleibenErhalten == LesenSpec => []PreiseErhalten
<1>1. GelesenInv => PreiseErhalten
  <2> SUFFICES ASSUME GelesenInv, NurGute
               PROVE  PreiseWieGesagt(fund.ExtrasPreise, SollExtras(Snapshot, "Preis"))
    BY Zenon DEF PreiseErhalten, PreiseWieGesagt
  <2> QED BY GuteGelesen
<1> QED BY <1>1, GelesenStets, PTL
=============================================================================
