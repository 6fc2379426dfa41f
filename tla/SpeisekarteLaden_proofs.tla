--------------------------- MODULE SpeisekarteLaden_proofs ---------------------------
(***************************************************************************)
(* For all menus and changes of them, and all orders of the answers: reads *)
(* and answers belong to Kategorien that were found, the barrier opens     *)
(* once, when no answer is awaited any more, and then the menu is shown as *)
(* it was, with its extras.                                                *)
(***************************************************************************)
EXTENDS SpeisekarteLaden, Bestellfelder_proofs, FiniteSetTheorems, TLAPS

\* Nothing has been asked for before the first answer; a Kategorie whose answer has
\* not arrived has nothing in the dictionaries; when something is shown, no answer
\* is awaited.
IInv ==
  /\ TypeOK
  /\ karten \in Seq(Karten) /\ karten # <<>>
  /\ Kategorien \in Seq(ToSet(Kategorien))
  /\ status = "oeffnen" => sections = <<>> /\ gefragt = {} /\ DOMAIN antworten = {}
  /\ \A kat \in gefragt \cup DOMAIN antworten : geladen[kat] = Leer
  /\ sections # <<>> => gefragt = {} /\ DOMAIN antworten = {}

-----------------------------------------------------------------------------
LEMMA KarteTyp ==
  ASSUME IInv
  PROVE  Karte \in Karten
  BY DEF IInv, Karte, Last

LEMMA SchluesselTyp ==
  ASSUME NEW k \in Karten
  PROVE  Schluessel(k) \in Seq(ToSet(Schluessel(k)))
<1>1. k \in Seq(ToSet(k))
  BY KartenAssumption DEF KartenAssumption
<1>2. DOMAIN Schluessel(k) = 1..Len(k) /\ Len(k) \in Nat
  BY <1>1 DEF Schluessel
<1>3. \A i \in 1..Len(k) : Schluessel(k)[i] \in ToSet(Schluessel(k))
  BY <1>2 DEF ToSet
<1> QED BY <1>1, <1>2, <1>3 DEF Schluessel

\* A sequence has at least as many positions as elements.
LEMMA HoechstensSoViele ==
  ASSUME NEW s, s \in Seq(ToSet(s))
  PROVE  /\ IsFiniteSet(ToSet(s)) /\ Cardinality(ToSet(s)) \in Nat
         /\ Len(s) \in Nat /\ Cardinality(ToSet(s)) <= Len(s)
<1>1. Len(s) \in Nat /\ DOMAIN s = 1..Len(s)
  OBVIOUS
<1>2. s \in Surjection(1..Len(s), ToSet(s))
  BY <1>1 DEF Surjection, ToSet
<1>3. IsFiniteSet(1..Len(s)) /\ Cardinality(1..Len(s)) = Len(s)
  BY <1>1, FS_Interval
<1>4. IsFiniteSet(ToSet(s)) /\ Cardinality(ToSet(s)) <= Len(s)
  BY <1>2, <1>3, FS_Surjection
<1> QED BY <1>1, <1>4, FS_CardinalityType

\* The barrier: as many Kategorien with an Unterkategorie as there are Kategorien
\* means all of them, since the dictionaries have no others.
LEMMA BarriereAlle ==
  ASSUME NEW g, DOMAIN g = ToSet(Kategorien), Kategorien \in Seq(ToSet(Kategorien)),
         Barriere(g)
  PROVE  \A kat \in ToSet(Kategorien) : g[kat].Unterkategorien # <<>>
<1> DEFINE T == ToSet(Kategorien)
           S == {kat \in T : g[kat].Unterkategorien # <<>>}
<1>1. Cardinality(S) = Len(Kategorien)
  BY DEF Barriere
<1>2. IsFiniteSet(T) /\ Cardinality(T) \in Nat /\ Cardinality(T) <= Len(Kategorien)
  BY HoechstensSoViele
<1>3. S \in SUBSET T
  OBVIOUS
<1> HIDE DEF S, T
<1>4. Cardinality(S) <= Cardinality(T) /\ (Cardinality(T) = Cardinality(S) => T = S)
  BY <1>2, <1>3, FS_Subset
<1>5. T = S
  BY <1>1, <1>2, <1>4, HoechstensSoViele
<1> QED BY <1>5 DEF S, T

-----------------------------------------------------------------------------
LEMMA InvInit == Init => IInv
<1> SUFFICES ASSUME Init PROVE IInv OBVIOUS
<1>1. PICK k \in Karten : karten = <<k>>
  BY DEF Init
<1>2. karten \in Seq(Karten) /\ karten # <<>> /\ \A x \in ToSet(karten) : x \in Karten
  BY <1>1 DEF ToSet
<1>3. ToSet(<<>>) = {} /\ DOMAIN <<>> = {}
  BY DEF ToSet
<1> QED BY <1>2, <1>3 DEF Init, IInv, TypeOK

LEMMA InvKategorien ==
  ASSUME IInv, getKategorien
  PROVE  IInv'
<1> DEFINE s == Schluessel(Karte)
<1>1. Kategorien' = s /\ gefragt' = ToSet(s) /\ s \in Seq(ToSet(s))
  BY KarteTyp, SchluesselTyp DEF getKategorien
<1>2. geladen' = [kat \in gefragt' |-> Leer] /\ status' = "laedt" /\ sections' = <<>>
  BY DEF getKategorien, IInv
<1>3. UNCHANGED <<karten, antworten>> /\ DOMAIN antworten = {}
  BY DEF getKategorien, IInv
<1> HIDE DEF s
<1>4. TypeOK'
  BY <1>1, <1>2, <1>3 DEF IInv, TypeOK
<1> QED BY <1>1, <1>2, <1>3, <1>4 DEF IInv

LEMMA InvAntworten ==
  ASSUME IInv, NEW kat \in ToSet(Kategorien), Antworten(kat)
  PROVE  IInv'
<1>1. /\ kat \in gefragt /\ gefragt' = gefragt \ {kat}
      /\ DOMAIN antworten' = DOMAIN antworten \cup {kat}
      /\ UNCHANGED <<karten, Kategorien, geladen, sections, status>>
  BY DEF Antworten, MitAntwort
<1>2. TypeOK'
  BY <1>1 DEF IInv, TypeOK
<1>3. status' # "oeffnen" /\ sections' = <<>>
  BY <1>1 DEF IInv
<1> QED BY <1>1, <1>2, <1>3 DEF IInv

LEMMA InvKategorie ==
  ASSUME IInv, NEW kat \in ToSet(Kategorien), getUnterKategorienItems(kat)
  PROVE  IInv'
<1> DEFINE neu == [geladen EXCEPT ![kat] = MitKindern(@, antworten[kat])]
<1>1. /\ status = "laedt" /\ kat \in DOMAIN antworten
      /\ DOMAIN antworten' = DOMAIN antworten \ {kat} /\ geladen' = neu
      /\ status' \in {"laedt", "abgestuerzt"}
      /\ sections' = sections \/ Barriere(neu)
      /\ UNCHANGED <<karten, Kategorien, gefragt>>
  BY DEF getUnterKategorienItems
<1>2. DOMAIN neu = ToSet(Kategorien) /\ \A x \in ToSet(Kategorien) \ {kat} : neu[x] = geladen[x]
  BY DEF IInv, TypeOK
<1>3. kat \notin gefragt
  BY <1>1 DEF IInv, TypeOK
<1> HIDE DEF neu
<1>4. TypeOK'
  BY <1>1, <1>2 DEF IInv, TypeOK
<1>5. \A x \in gefragt' \cup DOMAIN antworten' : x \in ToSet(Kategorien) \ {kat} /\ neu[x] = Leer
  BY <1>1, <1>2, <1>3 DEF IInv, TypeOK
<1>6. sections' # <<>> => gefragt' = {} /\ DOMAIN antworten' = {}
  <2>1. CASE sections' = sections
    BY <1>1, <2>1 DEF IInv
  <2>2. CASE Barriere(neu)
    <3>1. \A x \in ToSet(Kategorien) : neu[x].Unterkategorien # <<>>
      BY <1>2, <2>2, BarriereAlle DEF IInv
    <3>2. Leer.Unterkategorien = <<>>
      BY DEF Leer
    <3> QED BY <1>5, <3>1, <3>2
  <2> QED BY <1>1, <2>1, <2>2
<1> QED BY <1>1, <1>4, <1>5, <1>6 DEF IInv

LEMMA InvAendern ==
  ASSUME IInv, KarteAendern
  PROVE  IInv'
<1>1. PICK k \in Karten : karten' = Append(karten, k)
  BY DEF KarteAendern
<1>2. karten' \in Seq(Karten) /\ karten' # <<>> /\ \A x \in ToSet(karten') : x \in Karten
  BY <1>1 DEF IInv, ToSet
<1>3. UNCHANGED <<Kategorien, gefragt, antworten, geladen, sections, status>>
  BY DEF KarteAendern
<1> QED BY <1>2, <1>3 DEF IInv, TypeOK

LEMMA InvNext == IInv /\ [Next]_vars => IInv'
<1> SUFFICES ASSUME IInv, [Next]_vars PROVE IInv' OBVIOUS
<1>1. CASE UNCHANGED vars BY <1>1 DEF vars, IInv, TypeOK
<1> QED BY <1>1, InvKategorien, InvAntworten, InvKategorie, InvAendern DEF Next

THEOREM SpecIInv == Spec => []IInv
  BY InvInit, InvNext, PTL DEF Spec

\* Every read and answer on its way is for a Kategorie that the first read found, and
\* the dictionaries have keys for exactly these, whatever the menu becomes meanwhile.
THEOREM TypKorrekt == Spec => []TypeOK
<1>1. IInv => TypeOK BY DEF IInv
<1> QED BY <1>1, SpecIInv, PTL

-----------------------------------------------------------------------------
(* The barrier opens once.                                                  *)

LEMMA EinmalSchritt ==
  ASSUME IInv, Next, sections # <<>> PROVE sections' = sections
<1>1. CASE getKategorien BY <1>1 DEF getKategorien
<1>2. ASSUME NEW kat \in ToSet(Kategorien), Antworten(kat) PROVE sections' = sections
  BY <1>2 DEF Antworten
<1>3. ASSUME NEW kat \in ToSet(Kategorien), getUnterKategorienItems(kat)
      PROVE  sections' = sections
  BY <1>3 DEF getUnterKategorienItems, IInv
<1>4. CASE KarteAendern BY <1>4 DEF KarteAendern
<1> QED BY <1>1, <1>2, <1>3, <1>4 DEF Next

\* What is shown is never built a second time, so that the indices of what a guest
\* taps stay valid: the barrier counts every Kategorie, and after the last answer no
\* other one is to come.
THEOREM KarteEinmalGebaut == Spec => EinmalGebaut
<1>1. IInv /\ [Next]_vars => [sections # <<>> => sections' = sections]_vars
  BY EinmalSchritt
<1> QED BY <1>1, SpecIInv, PTL DEF Spec, EinmalGebaut
-----------------------------------------------------------------------------
(* Loops. Each is a recursive function of the number of turns.             *)

\* The elements at the positions P, one after the other.
AuswahlLauf(f, s, P, N) ==
  f = [n \in 0..N |-> IF n = 0 THEN <<>> ELSE (IF n \in P THEN Append(f[n - 1], s[n]) ELSE f[n - 1])]

LEMMA AuswahlNacheinander ==
  ASSUME NEW s, NEW P, Len(s) \in Nat
  PROVE  \E f : /\ f[0] = <<>> /\ f[Len(s)] = Auswahl(s, P)
               /\ \A n \in 0..Len(s) : n < Len(s) => f[n + 1] = (IF n + 1 \in P THEN Append(f[n], s[n + 1]) ELSE f[n])
<1> DEFINE N == Len(s)
           T == {n \in 0..N : \E f : AuswahlLauf(f, s, P, n)}
           h == CHOOSE f : f = [n \in 0..N |-> IF n = 0 THEN <<>> ELSE (IF n \in P THEN Append(f[n - 1], s[n]) ELSE f[n - 1])]
<1>1. 0 \in T
  <2> DEFINE g == [n \in 0..0 |-> <<>>]
  <2>1. \A n \in 0..0 : n = 0
    OBVIOUS
  <2>2. AuswahlLauf(g, s, P, 0)
    BY <2>1 DEF AuswahlLauf
  <2>3. 0 \in 0..N
    OBVIOUS
  <2> HIDE DEF g, N
  <2> QED BY <2>2, <2>3
<1>2. ASSUME NEW n \in T, n < N PROVE n + 1 \in T
  <2>1. n \in Nat /\ n + 1 \in 0..N
    BY <1>2
  <2>2. PICK f : AuswahlLauf(f, s, P, n)
    OBVIOUS
  <2> DEFINE v == (IF n + 1 \in P THEN Append(f[n], s[n + 1]) ELSE f[n])
             g == [i \in 0..(n + 1) |-> IF i = n + 1 THEN v ELSE f[i]]
  <2> HIDE DEF v
  <2>3. /\ DOMAIN g = 0..(n + 1) /\ g[n + 1] = v /\ n + 1 # 0 /\ (n + 1) - 1 = n /\ n \in 0..n
        /\ \A i \in 0..n : g[i] = f[i]
        /\ \A i \in 0..(n + 1) : i = n + 1 \/ (i \in 0..n /\ (i # 0 => i - 1 \in 0..n))
    BY <2>1, Fortsetzung
  <2>4. g = [i \in 0..(n + 1) |-> g[i]]
    OBVIOUS
  <2> HIDE DEF g
  <2>5. ASSUME NEW i \in 0..(n + 1)
        PROVE  g[i] = IF i = 0 THEN <<>> ELSE (IF i \in P THEN Append(g[i - 1], s[i]) ELSE g[i - 1])
    <3>1. CASE i = n + 1
      BY <2>3, <3>1 DEF v
    <3>2. CASE i # n + 1
      <4>1. f[i] = IF i = 0 THEN <<>> ELSE (IF i \in P THEN Append(f[i - 1], s[i]) ELSE f[i - 1])
        BY <2>2, <2>3, <3>2 DEF AuswahlLauf
      <4> QED BY <2>3, <3>2, <4>1
    <3> QED BY <3>1, <3>2
  <2>6. AuswahlLauf(g, s, P, n + 1)
    BY <2>4, <2>5 DEF AuswahlLauf
  <2> QED BY <2>1, <2>6
<1>3. N \in T
  <2>1. T \subseteq 0..N /\ N \in Nat /\ N \in 0..N
    OBVIOUS
  <2> HIDE DEF T, N
  <2> QED BY <1>1, <1>2, <2>1, BisNull
<1>4. AuswahlLauf(h, s, P, N)
  <2>1. PICK f : AuswahlLauf(f, s, P, N)
    BY <1>3
  <2>2. f = [n \in 0..N |-> IF n = 0 THEN <<>> ELSE (IF n \in P THEN Append(f[n - 1], s[n]) ELSE f[n - 1])]
    BY <2>1 DEF AuswahlLauf
  <2> QED BY <2>2, Zenon DEF AuswahlLauf
<1>5. Auswahl(s, P) = h[N]
  BY Zenon DEF Auswahl
<1> HIDE DEF h
<1>6. h[0] = <<>>
  <2>1. 0 \in 0..N
    OBVIOUS
  <2> HIDE DEF N
  <2> QED BY <1>4, <2>1 DEF AuswahlLauf
<1>7. ASSUME NEW n \in 0..N, n < N PROVE h[n + 1] = (IF n + 1 \in P THEN Append(h[n], s[n + 1]) ELSE h[n])
  <2>1. n + 1 \in 0..N /\ n + 1 # 0 /\ (n + 1) - 1 = n
    BY <1>7
  <2>2. h[n + 1] = IF n + 1 = 0 THEN <<>> ELSE (IF n + 1 \in P THEN Append(h[(n + 1) - 1], s[n + 1]) ELSE h[(n + 1) - 1])
    BY <1>4, <2>1 DEF AuswahlLauf
  <2> QED BY <2>1, <2>2, Zenon
<1> QED BY <1>5, <1>6, <1>7

\* The entries of an Unterkategorie.
Begonnen(z, kind) == [z EXCEPT !.Unterkategorien = Append(@, kind.key)]

WarenLauf(f, z, kind, N) ==
  f = [n \in 0..N |-> IF n = 0 THEN Begonnen(z, kind) ELSE MitWare(f[n - 1], kind.key, kind.eintraege[n])]

LEMMA WarenNacheinander ==
  ASSUME NEW z, NEW kind, Len(kind.eintraege) \in Nat
  PROVE  \E f : /\ f[0] = Begonnen(z, kind) /\ f[Len(kind.eintraege)] = MitUnterkategorie(z, kind)
               /\ \A n \in 0..Len(kind.eintraege) : n < Len(kind.eintraege) => f[n + 1] = MitWare(f[n], kind.key, kind.eintraege[n + 1])
<1> DEFINE N == Len(kind.eintraege)
           T == {n \in 0..N : \E f : WarenLauf(f, z, kind, n)}
           h == CHOOSE f : f = [n \in 0..N |-> IF n = 0 THEN Begonnen(z, kind) ELSE MitWare(f[n - 1], kind.key, kind.eintraege[n])]
<1>1. 0 \in T
  <2> DEFINE g == [n \in 0..0 |-> Begonnen(z, kind)]
  <2>1. \A n \in 0..0 : n = 0
    OBVIOUS
  <2>2. WarenLauf(g, z, kind, 0)
    BY <2>1 DEF WarenLauf
  <2>3. 0 \in 0..N
    OBVIOUS
  <2> HIDE DEF g, N
  <2> QED BY <2>2, <2>3
<1>2. ASSUME NEW n \in T, n < N PROVE n + 1 \in T
  <2>1. n \in Nat /\ n + 1 \in 0..N
    BY <1>2
  <2>2. PICK f : WarenLauf(f, z, kind, n)
    OBVIOUS
  <2> DEFINE v == MitWare(f[n], kind.key, kind.eintraege[n + 1])
             g == [i \in 0..(n + 1) |-> IF i = n + 1 THEN v ELSE f[i]]
  <2> HIDE DEF v
  <2>3. /\ DOMAIN g = 0..(n + 1) /\ g[n + 1] = v /\ n + 1 # 0 /\ (n + 1) - 1 = n /\ n \in 0..n
        /\ \A i \in 0..n : g[i] = f[i]
        /\ \A i \in 0..(n + 1) : i = n + 1 \/ (i \in 0..n /\ (i # 0 => i - 1 \in 0..n))
    BY <2>1, Fortsetzung
  <2>4. g = [i \in 0..(n + 1) |-> g[i]]
    OBVIOUS
  <2> HIDE DEF g
  <2>5. ASSUME NEW i \in 0..(n + 1)
        PROVE  g[i] = IF i = 0 THEN Begonnen(z, kind) ELSE MitWare(g[i - 1], kind.key, kind.eintraege[i])
    <3>1. CASE i = n + 1
      BY <2>3, <3>1 DEF v
    <3>2. CASE i # n + 1
      <4>1. f[i] = IF i = 0 THEN Begonnen(z, kind) ELSE MitWare(f[i - 1], kind.key, kind.eintraege[i])
        BY <2>2, <2>3, <3>2 DEF WarenLauf
      <4> QED BY <2>3, <3>2, <4>1
    <3> QED BY <3>1, <3>2
  <2>6. WarenLauf(g, z, kind, n + 1)
    BY <2>4, <2>5 DEF WarenLauf
  <2> QED BY <2>1, <2>6
<1>3. N \in T
  <2>1. T \subseteq 0..N /\ N \in Nat /\ N \in 0..N
    OBVIOUS
  <2> HIDE DEF T, N
  <2> QED BY <1>1, <1>2, <2>1, BisNull
<1>4. WarenLauf(h, z, kind, N)
  <2>1. PICK f : WarenLauf(f, z, kind, N)
    BY <1>3
  <2>2. f = [n \in 0..N |-> IF n = 0 THEN Begonnen(z, kind) ELSE MitWare(f[n - 1], kind.key, kind.eintraege[n])]
    BY <2>1 DEF WarenLauf
  <2> QED BY <2>2, Zenon DEF WarenLauf
<1>5. MitUnterkategorie(z, kind) = h[N]
  BY Zenon DEF MitUnterkategorie, Begonnen
<1> HIDE DEF h
<1>6. h[0] = Begonnen(z, kind)
  <2>1. 0 \in 0..N
    OBVIOUS
  <2> HIDE DEF N
  <2> QED BY <1>4, <2>1 DEF WarenLauf
<1>7. ASSUME NEW n \in 0..N, n < N PROVE h[n + 1] = MitWare(h[n], kind.key, kind.eintraege[n + 1])
  <2>1. n + 1 \in 0..N /\ n + 1 # 0 /\ (n + 1) - 1 = n
    BY <1>7
  <2>2. h[n + 1] = IF n + 1 = 0 THEN Begonnen(z, kind) ELSE MitWare(h[(n + 1) - 1], kind.key, kind.eintraege[n + 1])
    BY <1>4, <2>1 DEF WarenLauf
  <2> QED BY <2>1, <2>2, Zenon
<1> QED BY <1>5, <1>6, <1>7

\* The children of a Kategorie.
KinderLauf(f, z, kinder, N) ==
  f = [n \in 0..N |-> IF n = 0 THEN z ELSE MitKind(f[n - 1], kinder[n])]

LEMMA KinderNacheinander ==
  ASSUME NEW z, NEW kinder, Len(kinder) \in Nat
  PROVE  \E f : /\ f[0] = z /\ f[Len(kinder)] = MitKindern(z, kinder)
               /\ \A n \in 0..Len(kinder) : n < Len(kinder) => f[n + 1] = MitKind(f[n], kinder[n + 1])
<1> DEFINE N == Len(kinder)
           T == {n \in 0..N : \E f : KinderLauf(f, z, kinder, n)}
           h == CHOOSE f : f = [n \in 0..N |-> IF n = 0 THEN z ELSE MitKind(f[n - 1], kinder[n])]
<1>1. 0 \in T
  <2> DEFINE g == [n \in 0..0 |-> z]
  <2>1. \A n \in 0..0 : n = 0
    OBVIOUS
  <2>2. KinderLauf(g, z, kinder, 0)
    BY <2>1 DEF KinderLauf
  <2>3. 0 \in 0..N
    OBVIOUS
  <2> HIDE DEF g, N
  <2> QED BY <2>2, <2>3
<1>2. ASSUME NEW n \in T, n < N PROVE n + 1 \in T
  <2>1. n \in Nat /\ n + 1 \in 0..N
    BY <1>2
  <2>2. PICK f : KinderLauf(f, z, kinder, n)
    OBVIOUS
  <2> DEFINE v == MitKind(f[n], kinder[n + 1])
             g == [i \in 0..(n + 1) |-> IF i = n + 1 THEN v ELSE f[i]]
  <2> HIDE DEF v
  <2>3. /\ DOMAIN g = 0..(n + 1) /\ g[n + 1] = v /\ n + 1 # 0 /\ (n + 1) - 1 = n /\ n \in 0..n
        /\ \A i \in 0..n : g[i] = f[i]
        /\ \A i \in 0..(n + 1) : i = n + 1 \/ (i \in 0..n /\ (i # 0 => i - 1 \in 0..n))
    BY <2>1, Fortsetzung
  <2>4. g = [i \in 0..(n + 1) |-> g[i]]
    OBVIOUS
  <2> HIDE DEF g
  <2>5. ASSUME NEW i \in 0..(n + 1)
        PROVE  g[i] = IF i = 0 THEN z ELSE MitKind(g[i - 1], kinder[i])
    <3>1. CASE i = n + 1
      BY <2>3, <3>1 DEF v
    <3>2. CASE i # n + 1
      <4>1. f[i] = IF i = 0 THEN z ELSE MitKind(f[i - 1], kinder[i])
        BY <2>2, <2>3, <3>2 DEF KinderLauf
      <4> QED BY <2>3, <3>2, <4>1
    <3> QED BY <3>1, <3>2
  <2>6. KinderLauf(g, z, kinder, n + 1)
    BY <2>4, <2>5 DEF KinderLauf
  <2> QED BY <2>1, <2>6
<1>3. N \in T
  <2>1. T \subseteq 0..N /\ N \in Nat /\ N \in 0..N
    OBVIOUS
  <2> HIDE DEF T, N
  <2> QED BY <1>1, <1>2, <2>1, BisNull
<1>4. KinderLauf(h, z, kinder, N)
  <2>1. PICK f : KinderLauf(f, z, kinder, N)
    BY <1>3
  <2>2. f = [n \in 0..N |-> IF n = 0 THEN z ELSE MitKind(f[n - 1], kinder[n])]
    BY <2>1 DEF KinderLauf
  <2> QED BY <2>2, Zenon DEF KinderLauf
<1>5. MitKindern(z, kinder) = h[N]
  BY Zenon DEF MitKindern
<1> HIDE DEF h
<1>6. h[0] = z
  <2>1. 0 \in 0..N
    OBVIOUS
  <2> HIDE DEF N
  <2> QED BY <1>4, <2>1 DEF KinderLauf
<1>7. ASSUME NEW n \in 0..N, n < N PROVE h[n + 1] = MitKind(h[n], kinder[n + 1])
  <2>1. n + 1 \in 0..N /\ n + 1 # 0 /\ (n + 1) - 1 = n
    BY <1>7
  <2>2. h[n + 1] = IF n + 1 = 0 THEN z ELSE MitKind(h[(n + 1) - 1], kinder[n + 1])
    BY <1>4, <2>1 DEF KinderLauf
  <2> QED BY <2>1, <2>2, Zenon
<1> QED BY <1>5, <1>6, <1>7
-----------------------------------------------------------------------------
(* What is read of a Kategorie.                                             *)

LEMMA AuswahlTyp ==
  ASSUME NEW s, Folge(s), NEW P
  PROVE  /\ Folge(Auswahl(s, P))
         /\ (\E i \in 1..Len(s) : i \in P) => Auswahl(s, P) # <<>>
<1> DEFINE N == Len(s)
<1>1. N \in Nat
  BY DEF Folge
<1>2. PICK f : /\ f[0] = <<>> /\ f[N] = Auswahl(s, P)
               /\ \A n \in 0..N : n < N =>
                    f[n + 1] = (IF n + 1 \in P THEN Append(f[n], s[n + 1]) ELSE f[n])
  BY <1>1, AuswahlNacheinander
<1> DEFINE C(n) == Folge(f[n]) /\ ((\E i \in 1..n : i \in P) => f[n] # <<>>)
           T == {n \in 0..N : C(n)}
<1>3. 0 \in T
  BY <1>1, <1>2, LeereFolge
<1>4. ASSUME NEW n \in T, n < N PROVE n + 1 \in T
  <2>1. n \in 0..N /\ n + 1 \in 0..N /\ \A i \in 1..(n + 1) : i = n + 1 \/ i \in 1..n
    BY <1>1, <1>4
  <2>2. C(n)
    OBVIOUS
  <2>3. CASE n + 1 \in P
    <3>1. f[n + 1] = Append(f[n], s[n + 1])
      BY <1>2, <1>4, <2>1, <2>3
    <3>2. Folge(f[n + 1]) /\ Len(f[n + 1]) # 0
      BY <2>2, <3>1, AppendLesen
    <3> QED BY <2>1, <3>2
  <2>4. CASE n + 1 \notin P
    <3>1. f[n + 1] = f[n]
      BY <1>2, <1>4, <2>1, <2>4
    <3> QED BY <2>1, <2>2, <2>4, <3>1
  <2> QED BY <2>3, <2>4
<1>5. N \in T
  <2>1. T \subseteq 0..N /\ N \in 0..N
    BY <1>1
  <2> HIDE DEF T, N
  <2> QED BY <1>1, <1>3, <1>4, <2>1, BisNull
<1> QED BY <1>2, <1>5

\* The dictionaries of a Kategorie, by name.
Eintragsfelder == {"Unterkategorien", "Items", "Extras", "trap"}

IstEintrag(z) == DOMAIN z = Eintragsfelder

\* The lists of Unterkategorien and of their items are in step.
ImSchritt(z) ==
  /\ Folge(z.Unterkategorien) /\ Folge(z.Items) /\ Len(z.Items) = Len(z.Unterkategorien)

\* z with one more Unterkategorie, of which the items w are read.
Stand(x, z, key, w) ==
  /\ IstEintrag(x) /\ x.trap = z.trap /\ x.Extras = z.Extras
  /\ x.Unterkategorien = Append(z.Unterkategorien, key)
  /\ x.Items = IF w = <<>> THEN z.Items ELSE Append(z.Items, w)

LEMMA LetztesMehr ==
  ASSUME NEW s, Folge(s), NEW w, NEW e, NEW n, n = Len(s) + 1
  PROVE  [Append(s, w) EXCEPT ![n] = Append(@, e)] = Append(s, Append(w, e))
<1> DEFINE A == Append(s, w)  v == Append(w, e)
<1>1. A[n] = w
  BY AppendLesen
<1> HIDE DEF v
<1>2. [A EXCEPT ![n] = v] = Append(s, v)
  BY LetztesErsetzt
<1> HIDE DEF A
<1>3. [A EXCEPT ![n] = Append(@, e)] = [A EXCEPT ![n] = v]
  BY <1>1 DEF v
<1> QED BY <1>2, <1>3 DEF A, v

LEMMA WareSchritt ==
  ASSUME NEW z, ImSchritt(z), z.trap = FALSE, NEW key, key \notin ToSet(z.Unterkategorien),
         NEW w, Folge(w), NEW x, Stand(x, z, key, w), NEW e, NEW v,
         v = (IF e \in Waren THEN Append(w, e) ELSE w)
  PROVE  Folge(v) /\ Stand(MitWare(x, key, e), z, key, v)
<1> DEFINE y == MitWare(x, key, e)  U == z.Unterkategorien  I == z.Items  m == Len(U)
<1>0. x.trap = FALSE
  BY DEF Stand
<1>1. CASE e \notin Waren
  <2>1. y = x /\ v = w
    BY <1>1 DEF MitWare
  <2> QED BY <2>1
<1>2. CASE e \in Waren
  <2>1. /\ Folge(U) /\ Folge(I) /\ Len(I) = m /\ m \in Nat /\ Len(<<>>) = 0
        /\ Folge(x.Unterkategorien) /\ Len(x.Unterkategorien) = m + 1
    BY AppendLesen, LeereFolge DEF ImSchritt, Stand
  <2>2. v = Append(w, e) /\ Folge(v) /\ v # <<>>
    <3>1. v = Append(w, e)
      BY <1>2
    <3>2. Folge(v) /\ Len(v) = Len(w) + 1 /\ Len(w) \in Nat
      BY <3>1, AppendLesen
    <3> QED BY <2>1, <3>1, <3>2
  <2>3. CASE w = <<>>
    <3>1. x.Items = I
      BY <2>3 DEF Stand
    <3>2. ~(x.Items = <<>> /\ Len(x.Unterkategorien) > 1) /\ Len(x.Items) < Len(x.Unterkategorien)
      BY <2>1, <3>1
    <3>3. y = [x EXCEPT !.Items = Append(@, <<e>>)]
      BY <1>0, <1>2, <3>2 DEF MitWare
    <3>4. v = <<e>>
      BY <2>2, <2>3
    <3> HIDE DEF y
    <3> QED BY <2>2, <3>1, <3>3, <3>4 DEF Stand, IstEintrag, Eintragsfelder, y
  <2>4. CASE w # <<>>
    <3>1. x.Items = Append(I, w) /\ Len(x.Items) = m + 1
      BY <2>1, <2>4, AppendLesen DEF Stand
    <3>2. ~(x.Items = <<>> /\ Len(x.Unterkategorien) > 1) /\ ~(Len(x.Items) < Len(x.Unterkategorien))
      <4> HIDE DEF m
      <4>1. m \in Nat /\ Len(x.Unterkategorien) = m + 1 /\ Len(x.Items) = m + 1 /\ Len(<<>>) = 0
        BY <2>1, <3>1
      <4>2. x.Items # <<>>
        BY <4>1
      <4> QED BY <4>1, <4>2
    <3>3. firstIndex(x.Unterkategorien, key) = m + 1
      <4>1. /\ x.Unterkategorien = Append(U, key) /\ Folge(Append(U, key))
            /\ \A j \in 1..m : Append(U, key)[j] = U[j] /\ U[j] # key
            /\ Append(U, key)[m + 1] = key
        <5>1. x.Unterkategorien = Append(U, key)
          BY DEF Stand
        <5>2. \A j \in 1..m : U[j] # key
          BY <2>1 DEF ToSet, Folge
        <5> HIDE DEF U
        <5> QED BY <2>1, <5>1, <5>2, AppendLesen
      <4>2. Contains(Append(U, key), key)
        BY <2>1, <4>1 DEF Contains
      <4>3. /\ firstIndex(Append(U, key), key) \in 1..(m + 1)
            /\ Append(U, key)[firstIndex(Append(U, key), key)] = key
        <5>1. Append(U, key) \in Seq(ToSet(Append(U, key))) /\ Len(Append(U, key)) = m + 1
          BY <2>1, <4>1 DEF Stand, Folge
        <5> QED BY <4>2, <5>1, FirstIndex
      <4>4. \A j \in 1..(m + 1) : j = m + 1 \/ j \in 1..m
        BY <2>1
      <4> QED BY <4>1, <4>3, <4>4
    <3>4. y = [x EXCEPT !.Items[m + 1] = Append(@, e)]
      BY <1>0, <1>2, <3>2, <3>3 DEF MitWare
    <3>7. IstEintrag(x)
      BY DEF Stand
    <3>8. y = [x EXCEPT !.Items = Append(I, v)]
      <4> DEFINE q == m + 1
      <4>1. Folge(I) /\ q = Len(I) + 1
        BY <2>1
      <4> HIDE DEF I, m, q
      <4>2. [Append(I, w) EXCEPT ![q] = Append(@, e)] = Append(I, Append(w, e))
        BY <4>1, LetztesMehr
      <4>3. x.Items = Append(I, w) /\ y = [x EXCEPT !.Items[q] = Append(@, e)]
        BY <3>1, <3>4 DEF q
      <4> HIDE DEF y
      <4> QED BY <2>2, <4>2, <4>3
    <3> HIDE DEF y
    <3> QED BY <2>2, <3>7, <3>8 DEF Stand, IstEintrag, Eintragsfelder, y
  <2> QED BY <2>3, <2>4
<1> QED BY <1>1, <1>2

\* An Unterkategorie with items is read into a new list of each.
LEMMA UnterkategorieLesen ==
  ASSUME NEW z, IstEintrag(z), ImSchritt(z), z.trap = FALSE,
         NEW kind, kind.key \notin ToSet(z.Unterkategorien), Folge(kind.eintraege),
         \E e \in ToSet(kind.eintraege) : e \in Waren,
         NEW y, y = MitUnterkategorie(z, kind)
  PROVE  /\ IstEintrag(y) /\ ImSchritt(y) /\ y.trap = FALSE /\ y.Extras = z.Extras
         /\ y.Unterkategorien = Append(z.Unterkategorien, kind.key)
         /\ y.Items = Append(z.Items, Ware(kind))
<1> DEFINE e == kind.eintraege
           key == kind.key
           P == {i \in DOMAIN e : e[i] \in Waren}
           N == Len(e)
           x == Begonnen(z, kind)
<1>1. N \in Nat /\ DOMAIN e = 1..N
  BY DEF Folge
<1>2. PICK f : /\ f[0] = x /\ f[N] = y
               /\ \A n \in 0..N : n < N => f[n + 1] = MitWare(f[n], key, e[n + 1])
  BY <1>1, WarenNacheinander
<1>3. PICK a : /\ a[0] = <<>> /\ a[N] = Ware(kind)
               /\ \A n \in 0..N : n < N =>
                    a[n + 1] = (IF n + 1 \in P THEN Append(a[n], e[n + 1]) ELSE a[n])
  <2>1. Ware(kind) = Auswahl(e, P)
    BY DEF Ware
  <2> HIDE DEF e, P
  <2> QED BY <1>1, <2>1, AuswahlNacheinander
<1>4. Ware(kind) # <<>>
  <2>1. Ware(kind) = Auswahl(e, P)
    BY DEF Ware
  <2>2. \E i \in 1..N : i \in P
    BY <1>1 DEF ToSet
  <2>3. Folge(e)
    OBVIOUS
  <2> HIDE DEF e, P
  <2> QED BY <2>1, <2>2, <2>3, AuswahlTyp
<1>5. key \notin ToSet(z.Unterkategorien)
  OBVIOUS
<1>6. Stand(x, z, key, <<>>)
  BY DEF Stand, IstEintrag, Eintragsfelder, Begonnen
<1>7. \A n \in 0..N : n < N => n + 1 \in 0..N /\ (n + 1 \in P <=> e[n + 1] \in Waren)
  <2>1. \A n \in 0..N : n < N => n + 1 \in 0..N /\ n + 1 \in 1..N
    BY <1>1
  <2> HIDE DEF e, N
  <2> QED BY <1>1, <2>1
<1> HIDE DEF e, key, P, N, x
<1> DEFINE C(n) == Folge(a[n]) /\ Stand(f[n], z, key, a[n])
           T == {n \in 0..N : C(n)}
<1>8. 0 \in T
  BY <1>1, <1>2, <1>3, <1>6, LeereFolge
<1>9. ASSUME NEW n \in T, n < N PROVE n + 1 \in T
  <2>1. C(n) /\ n \in 0..N /\ n + 1 \in 0..N
    BY <1>1, <1>9
  <2> DEFINE d == e[n + 1]  v == a[n + 1]  w == a[n]  g == f[n]
  <2>2. f[n + 1] = MitWare(g, key, d)
    BY <1>2, <1>9, <2>1
  <2>3. v = (IF d \in Waren THEN Append(w, d) ELSE w)
    BY <1>3, <1>7, <1>9, <2>1
  <2>4. Folge(w) /\ Stand(g, z, key, w)
    BY <2>1
  <2> HIDE DEF d, v, w, g
  <2>5. Folge(v) /\ Stand(MitWare(g, key, d), z, key, v)
    BY <1>5, <2>3, <2>4, WareSchritt
  <2> QED BY <2>1, <2>2, <2>5 DEF v
<1>10. N \in T
  <2>1. T \subseteq 0..N /\ N \in 0..N
    BY <1>1
  <2> HIDE DEF T
  <2> QED BY <1>1, <1>8, <1>9, <2>1, BisNull
<1>11. Stand(y, z, key, Ware(kind))
  BY <1>2, <1>3, <1>10
<1>12. /\ IstEintrag(y) /\ y.trap = FALSE /\ y.Extras = z.Extras
       /\ y.Unterkategorien = Append(z.Unterkategorien, key)
       /\ y.Items = Append(z.Items, Ware(kind))
  BY <1>4, <1>11 DEF Stand
<1>13. ImSchritt(y)
  BY <1>12, AppendLesen DEF ImSchritt
<1> QED BY <1>12, <1>13 DEF key

\* Whatever the entries are, the extras are not touched.
LEMMA UnterkategorieLaesst ==
  ASSUME NEW z, IstEintrag(z), NEW kind, Folge(kind.eintraege),
         NEW y, y = MitUnterkategorie(z, kind)
  PROVE  IstEintrag(y) /\ y.Extras = z.Extras
<1> DEFINE e == kind.eintraege
           key == kind.key
           N == Len(e)
           x == Begonnen(z, kind)
<1>1. N \in Nat
  BY DEF Folge
<1>2. PICK f : /\ f[0] = x /\ f[N] = y
               /\ \A n \in 0..N : n < N => f[n + 1] = MitWare(f[n], key, e[n + 1])
  BY <1>1, WarenNacheinander
<1>3. IstEintrag(x) /\ x.Extras = z.Extras
  BY DEF IstEintrag, Eintragsfelder, Begonnen
<1> HIDE DEF e, key, N, x
<1> DEFINE C(n) == IstEintrag(f[n]) /\ f[n].Extras = z.Extras
           T == {n \in 0..N : C(n)}
<1>4. 0 \in T
  BY <1>1, <1>2, <1>3
<1>5. ASSUME NEW n \in T, n < N PROVE n + 1 \in T
  <2>1. C(n) /\ n \in 0..N /\ n + 1 \in 0..N
    BY <1>1, <1>5
  <2> DEFINE d == e[n + 1]  g == f[n]
  <2>2. f[n + 1] = MitWare(g, key, d)
    BY <1>2, <1>5, <2>1
  <2>3. IstEintrag(g) /\ g.Extras = z.Extras
    BY <2>1
  <2> HIDE DEF d, g
  <2> DEFINE j == firstIndex(g.Unterkategorien, key)
             h == MitWare(g, key, d)
  <2>4. h \in {g, [g EXCEPT !.trap = TRUE], [g EXCEPT !.Items = Append(@, <<d>>)],
               [g EXCEPT !.Items[j] = Append(@, d)]}
    BY Zenon DEF MitWare
  <2> HIDE DEF j, h
  <2>5. IstEintrag(h) /\ h.Extras = z.Extras
    BY <2>3, <2>4 DEF IstEintrag, Eintragsfelder
  <2> QED BY <2>1, <2>2, <2>5 DEF h
<1>6. N \in T
  <2>1. T \subseteq 0..N /\ N \in 0..N
    BY <1>1
  <2> HIDE DEF T
  <2> QED BY <1>1, <1>4, <1>5, <2>1, BisNull
<1> QED BY <1>2, <1>6

\* What a node of the database is like (KartenAssumption); Kategorien that are not
\* there have no children.
KinderGut(kinder) ==
  /\ Folge(kinder) /\ Injektiv(Schluessel(kinder))
  /\ \A i \in 1..Len(kinder) : Folge(kinder[i].eintraege)

Namen(u) == [j \in DOMAIN u |-> u[j].key]
Itemlisten(u) == [j \in DOMAIN u |-> Ware(u[j])]

\* The names of one more, and its items.
LEMMA EinesMehr ==
  ASSUME NEW u, Folge(u), NEW kind
  PROVE  /\ Folge(Namen(u)) /\ Folge(Itemlisten(u)) /\ Len(Namen(u)) = Len(Itemlisten(u))
         /\ Namen(Append(u, kind)) = Append(Namen(u), kind.key)
         /\ Itemlisten(Append(u, kind)) = Append(Itemlisten(u), Ware(kind))
<1> DEFINE m == Len(u)  v == Append(u, kind)  N == Namen(u)  W == Itemlisten(u)
<1>1. m \in Nat /\ DOMAIN u = 1..m
  BY DEF Folge
<1>2. /\ Folge(v) /\ DOMAIN v = 1..(m + 1) /\ v[m + 1] = kind
      /\ \A j \in 1..m : v[j] = u[j]
  <2>1. Folge(v) /\ Len(v) = m + 1 /\ v[m + 1] = kind /\ \A j \in 1..m : v[j] = u[j]
    BY AppendLesen
  <2> HIDE DEF v, m
  <2> QED BY <2>1 DEF Folge
<1> HIDE DEF v, m
<1>3. N = Bis(N, m) /\ W = Bis(W, m)
  BY <1>1 DEF Bis, Namen, Itemlisten
<1>4. Folge(N) /\ Folge(W) /\ Len(N) = m /\ Len(W) = m
  BY <1>1, <1>3, BisLesen
<1>5. \A j \in 1..m : N[j] = u[j].key /\ W[j] = Ware(u[j])
  BY <1>1 DEF Namen, Itemlisten
<1>6. \A j \in 1..(m + 1) : j = m + 1 \/ j \in 1..m
  BY <1>1
<1> DEFINE NV == Namen(v)  WV == Itemlisten(v)  d == kind.key  w == Ware(kind)
<1>7. NV = Bis(NV, m + 1) /\ WV = Bis(WV, m + 1)
  BY <1>2 DEF Bis, Namen, Itemlisten
<1>8. \A j \in 1..(m + 1) : NV[j] = v[j].key /\ WV[j] = Ware(v[j])
  BY <1>2 DEF Namen, Itemlisten
<1> HIDE DEF NV, WV, N, W, d, w
<1>9. Folge(NV) /\ Folge(WV) /\ Len(NV) = m + 1 /\ Len(WV) = m + 1
  BY <1>1, <1>7, BisLesen
<1>10. NV = Append(N, d)
  <2>1. /\ Folge(Append(N, d)) /\ Len(Append(N, d)) = m + 1 /\ Append(N, d)[m + 1] = d
        /\ \A j \in 1..m : Append(N, d)[j] = N[j]
    BY <1>4, AppendLesen
  <2>2. \A j \in 1..(m + 1) : NV[j] = Append(N, d)[j]
    BY <1>2, <1>5, <1>6, <1>8, <2>1 DEF d
  <2> QED BY <1>9, <2>1, <2>2, FolgenGleich
<1>11. WV = Append(W, w)
  <2>1. /\ Folge(Append(W, w)) /\ Len(Append(W, w)) = m + 1 /\ Append(W, w)[m + 1] = w
        /\ \A j \in 1..m : Append(W, w)[j] = W[j]
    BY <1>4, AppendLesen
  <2>2. \A j \in 1..(m + 1) : WV[j] = Append(W, w)[j]
    BY <1>2, <1>5, <1>6, <1>8, <2>1 DEF w
  <2> QED BY <1>9, <2>1, <2>2, FolgenGleich
<1> QED BY <1>4, <1>10, <1>11 DEF N, W, NV, WV, v, d, w

\* The Unterkategorien u, each with items, are read to their places.
Gelesen(z, u) ==
  /\ IstEintrag(z) /\ z.trap = FALSE
  /\ z.Unterkategorien = Namen(u) /\ z.Items = Itemlisten(u)

\* A Kategorie with items in every Unterkategorie is read as it is.
LEMMA RubrikLesen ==
  ASSUME NEW kinder, KinderGut(kinder),
         \A i \in 1..Len(kinder) : kinder[i].key # "Extras" =>
           \E e \in ToSet(kinder[i].eintraege) : e \in Waren,
         NEW z, z = MitKindern(Leer, kinder)
  PROVE  Gelesen(z, Unterkategorien(kinder))
<1> DEFINE N == Len(kinder)
           P == {j \in DOMAIN kinder : kinder[j].key # "Extras"}
<1>1. N \in Nat /\ DOMAIN kinder = 1..N
  BY DEF KinderGut, Folge
<1>2. PICK f : /\ f[0] = Leer /\ f[N] = z
               /\ \A n \in 0..N : n < N => f[n + 1] = MitKind(f[n], kinder[n + 1])
  BY <1>1, KinderNacheinander
<1>3. PICK a : /\ a[0] = <<>> /\ a[N] = Unterkategorien(kinder)
               /\ \A n \in 0..N : n < N =>
                    a[n + 1] = (IF n + 1 \in P THEN Append(a[n], kinder[n + 1]) ELSE a[n])
  <2>1. Unterkategorien(kinder) = Auswahl(kinder, P)
    BY DEF Unterkategorien
  <2> HIDE DEF P
  <2> QED BY <1>1, <2>1, AuswahlNacheinander
<1>4. \A n \in 0..N : n < N => n + 1 \in 1..N /\ n + 1 \in 0..N /\ \A j \in 1..(n + 1) : j = n + 1 \/ j \in 1..n
  BY <1>1
<1>5. \A n \in 1..N : n \in P <=> kinder[n].key # "Extras"
  BY <1>1
<1>6. \A i, j \in 1..N : kinder[i].key = kinder[j].key => i = j
  BY <1>1 DEF KinderGut, Injektiv, Schluessel
<1> HIDE DEF P, N
<1> DEFINE C(n) == /\ Folge(a[n]) /\ Gelesen(f[n], a[n])
                   /\ \A j \in 1..Len(a[n]) : \E i \in 1..n : a[n][j] = kinder[i]
           T == {n \in 0..N : C(n)}
<1>7. 0 \in T
  <2>1. Namen(<<>>) = <<>> /\ Itemlisten(<<>>) = <<>>
    BY DEF Namen, Itemlisten
  <2>2. Gelesen(Leer, <<>>)
    BY <2>1 DEF Gelesen, Leer, IstEintrag, Eintragsfelder
  <2> QED BY <1>1, <1>2, <1>3, <2>2, LeereFolge
<1>8. ASSUME NEW n \in T, n < N PROVE n + 1 \in T
  <2>1. C(n) /\ n \in 0..N
    OBVIOUS
  <2> DEFINE g == f[n]  u == a[n]  kind == kinder[n + 1]  h == f[n + 1]  v == a[n + 1]
  <2>2. /\ n + 1 \in 1..N /\ n + 1 \in 0..N /\ (n + 1 \in P <=> kind.key # "Extras")
        /\ h = MitKind(g, kind)
        /\ v = (IF n + 1 \in P THEN Append(u, kind) ELSE u)
    BY <1>2, <1>3, <1>4, <1>5, <1>8, <2>1
  <2>3. Folge(u) /\ Gelesen(g, u) /\ \A j \in 1..Len(u) : \E i \in 1..n : u[j] = kinder[i]
    BY <2>1
  <2>4. \A i \in 1..n : i \in 1..(n + 1) /\ i # n + 1 /\ i \in 1..N
    BY <1>1, <1>8, <2>1
  <2>5. kind = kinder[n + 1] /\ Folge(kind.eintraege)
    BY <2>2 DEF KinderGut, N
  <2>6. kind.key # "Extras" => \E e \in ToSet(kind.eintraege) : e \in Waren
    BY <2>2 DEF N
  <2>7. Folge(v) /\ Gelesen(h, v) /\ \A j \in 1..Len(v) : \E i \in 1..(n + 1) : v[j] = kinder[i]
    <3> HIDE DEF g, u, kind, h, v
    <3>1. CASE kind.key = "Extras"
      <4>1. v = u /\ h = MitExtras(g, kind)
        BY <2>2, <2>3, <3>1, Zenon DEF MitKind, Gelesen
      <4>2. Gelesen(h, v)
        BY <2>3, <4>1 DEF Gelesen, MitExtras, IstEintrag, Eintragsfelder
      <4>3. \A j \in 1..Len(v) : \E i \in 1..(n + 1) : v[j] = kinder[i]
        BY <2>3, <2>4, <4>1
      <4> QED BY <2>3, <4>1, <4>2, <4>3
    <3>2. CASE kind.key # "Extras"
      <4>1. v = Append(u, kind) /\ h = MitUnterkategorie(g, kind)
        BY <2>2, <2>3, <3>2, Zenon DEF MitKind, Gelesen
      <4>2. IstEintrag(g) /\ g.trap = FALSE /\ g.Unterkategorien = Namen(u) /\ g.Items = Itemlisten(u)
        BY <2>3 DEF Gelesen
      <4>3. ImSchritt(g)
        BY <2>3, <4>2, EinesMehr DEF ImSchritt
      <4>4. kind.key \notin ToSet(Namen(u))
        <5>1. DOMAIN u = 1..Len(u)
          BY <2>3 DEF Folge
        <5>2. ASSUME NEW j \in 1..Len(u) PROVE u[j].key # kind.key
          <6>1. PICK i \in 1..n : u[j] = kinder[i]
            BY <2>3
          <6> QED BY <1>6, <2>2, <2>4, <2>5, <6>1
        <5> QED BY <5>1, <5>2 DEF ToSet, Namen
      <4>5. /\ IstEintrag(h) /\ h.trap = FALSE
            /\ h.Unterkategorien = Append(g.Unterkategorien, kind.key)
            /\ h.Items = Append(g.Items, Ware(kind))
        <5>1. kind.key \notin ToSet(g.Unterkategorien)
          BY <4>2, <4>4
        <5>2. Folge(kind.eintraege) /\ \E e \in ToSet(kind.eintraege) : e \in Waren
          BY <2>5, <2>6, <3>2
        <5>3. h = MitUnterkategorie(g, kind)
          BY <4>1
        <5>4. IstEintrag(g) /\ g.trap = FALSE
          BY <4>2
        <5> QED BY <4>3, <5>1, <5>2, <5>3, <5>4, UnterkategorieLesen
      <4>6. Gelesen(h, v)
        <5>1. Namen(v) = Append(Namen(u), kind.key) /\ Itemlisten(v) = Append(Itemlisten(u), Ware(kind))
          BY <2>3, <4>1, EinesMehr
        <5> QED BY <4>2, <4>5, <5>1 DEF Gelesen
      <4>7. Folge(v) /\ Len(v) = Len(u) + 1 /\ Len(u) \in Nat /\ v[Len(u) + 1] = kind
            /\ \A j \in 1..Len(u) : v[j] = u[j]
        BY <2>3, <4>1, AppendLesen
      <4>8. \A j \in 1..Len(v) : \E i \in 1..(n + 1) : v[j] = kinder[i]
        <5>1. \A j \in 1..Len(v) : j = Len(u) + 1 \/ j \in 1..Len(u)
          BY <4>7
        <5>2. n + 1 \in 1..(n + 1)
          BY <2>1, <1>1
        <5> QED BY <2>3, <2>4, <2>5, <4>7, <5>1, <5>2
      <4> QED BY <4>6, <4>7, <4>8
    <3> QED BY <3>1, <3>2
  <2> QED BY <2>2, <2>7
<1>9. N \in T
  <2>1. T \subseteq 0..N /\ N \in 0..N
    BY <1>1
  <2> HIDE DEF T
  <2> QED BY <1>1, <1>7, <1>8, <2>1, BisNull
<1> QED BY <1>2, <1>3, <1>9

\* Whatever the Unterkategorien are: if unwrapping never failed, the extras are read.
LEMMA ExtrasLesen ==
  ASSUME NEW kinder, KinderGut(kinder), NEW z, z = MitKindern(Leer, kinder)
  PROVE  /\ IstEintrag(z)
         /\ ~z.trap => z.Extras = Extras(kinder)
<1> DEFINE N == Len(kinder)
           keys == Schluessel(kinder)
<1>1. N \in Nat /\ DOMAIN kinder = 1..N /\ DOMAIN keys = 1..N
  BY DEF KinderGut, Folge, Schluessel
<1>2. PICK f : /\ f[0] = Leer /\ f[N] = z
               /\ \A n \in 0..N : n < N => f[n + 1] = MitKind(f[n], kinder[n + 1])
  BY <1>1, KinderNacheinander
<1>3. \A n \in 0..N : n < N => n + 1 \in 1..N /\ n + 1 \in 0..N /\ \A j \in 1..(n + 1) : j = n + 1 \/ j \in 1..n
  BY <1>1
<1>4. \A i \in 1..N : keys[i] = kinder[i].key
  BY <1>1 DEF Schluessel
<1>5. \A i, j \in 1..N : kinder[i].key = kinder[j].key => i = j
  BY <1>1 DEF KinderGut, Injektiv, Schluessel
<1> HIDE DEF N, keys
<1> DEFINE Keine(n) == \A i \in 1..n : kinder[i].key # "Extras"
           Gefunden(n) == \A i \in 1..n : kinder[i].key = "Extras" => f[n].Extras = Ware(kinder[i])
           C(n) == /\ IstEintrag(f[n])
                   /\ ~f[n].trap => (Keine(n) => f[n].Extras = <<>>) /\ Gefunden(n)
           T == {n \in 0..N : C(n)}
<1>6. 0 \in T
  <2>1. IstEintrag(Leer) /\ Leer.Extras = <<>>
    BY DEF Leer, IstEintrag, Eintragsfelder
  <2> QED BY <1>1, <1>2, <2>1, LeereFolge
<1>7. ASSUME NEW n \in T, n < N PROVE n + 1 \in T
  <2>1. C(n) /\ n \in 0..N
    OBVIOUS
  <2> DEFINE g == f[n]  kind == kinder[n + 1]  h == f[n + 1]
  <2>2. n + 1 \in 1..N /\ n + 1 \in 0..N /\ h = MitKind(g, kind)
    BY <1>2, <1>3, <1>7, <2>1
  <2>3. \A i \in 1..n : i \in 1..(n + 1) /\ i # n + 1 /\ i \in 1..N
    BY <1>1, <1>7, <2>1
  <2>4. \A i \in 1..(n + 1) : i = n + 1 \/ i \in 1..n
    BY <1>3, <1>7, <2>1
  <2>5. Folge(kind.eintraege) /\ n + 1 \in 1..(n + 1)
    BY <1>1, <2>1, <2>2 DEF KinderGut, N
  <2> HIDE DEF g, h, kind
  <2>6. C(n + 1)
    <3>1. CASE g.trap
      <4>1. h = g
        BY <2>2, <3>1, Zenon DEF MitKind
      <4>2. IstEintrag(h) /\ h.trap
        BY <2>1, <3>1, <4>1, Zenon DEF g
      <4> QED BY <4>2, Zenon DEF h
    <3>2. CASE ~g.trap /\ kind.key = "Extras"
      <4>1. h = MitExtras(g, kind)
        BY <2>2, <3>2, Zenon DEF MitKind
      <4>2. Keine(n)
        BY <1>5, <2>2, <2>3, <3>2 DEF kind
      <4>3. IstEintrag(g) /\ g.Extras = <<>>
        BY <2>1, <3>2, <4>2, Zenon DEF g
      <4>4. Folge(Ware(kind))
        BY <2>5, AuswahlTyp DEF Ware
      <4>5. <<>> \o Ware(kind) = Ware(kind)
        <5> DEFINE w == Ware(kind)
        <5>1. w \in Seq(ToSet(w))
          BY <4>4 DEF Folge
        <5> HIDE DEF w
        <5> QED BY <5>1 DEF w
      <4>6. IstEintrag(h) /\ h.Extras = Ware(kind)
        BY <4>1, <4>3, <4>5 DEF MitExtras, IstEintrag, Eintragsfelder
      <4>7. ~Keine(n + 1)
        BY <2>5, <3>2 DEF kind
      <4>8. Gefunden(n + 1)
        BY <2>4, <4>2, <4>6 DEF h, kind
      <4> HIDE DEF Keine, Gefunden
      <4> QED BY <4>6, <4>7, <4>8 DEF h
    <3>3. CASE ~g.trap /\ kind.key # "Extras"
      <4>1. h = MitUnterkategorie(g, kind)
        BY <2>2, <3>3, Zenon DEF MitKind
      <4>2. IstEintrag(g) /\ (Keine(n) => g.Extras = <<>>) /\ Gefunden(n)
        <5> HIDE DEF Keine, Gefunden
        <5> QED BY <2>1, <3>3, Zenon DEF g
      <4>3. IstEintrag(h) /\ h.Extras = g.Extras
        BY <2>5, <4>1, <4>2, UnterkategorieLaesst
      <4>4. Keine(n + 1) => Keine(n)
        BY <2>3
      <4>5. Gefunden(n + 1)
        BY <2>4, <3>3, <4>2, <4>3 DEF g, h, kind
      <4> HIDE DEF Keine, Gefunden
      <4> QED BY <4>2, <4>3, <4>4, <4>5 DEF h
    <3> HIDE DEF C
    <3> QED BY <3>1, <3>2, <3>3, Zenon
  <2> HIDE DEF C
  <2> QED BY <2>2, <2>6
<1>8. N \in T
  <2>1. T \subseteq 0..N /\ N \in 0..N
    BY <1>1
  <2> HIDE DEF T
  <2> QED BY <1>1, <1>6, <1>7, <2>1, BisNull
<1>9. C(N)
  BY <1>8
<1>10. IstEintrag(z)
  BY <1>2, <1>9
<1>11. ASSUME ~z.trap PROVE z.Extras = Extras(kinder)
  <2>1. (Keine(N) => z.Extras = <<>>) /\ \A i \in 1..N : kinder[i].key = "Extras" => z.Extras = Ware(kinder[i])
    <3> HIDE DEF Keine
    <3>1. (Keine(N) => f[N].Extras = <<>>) /\ Gefunden(N)
      BY <1>2, <1>9, <1>11, Zenon
    <3> QED BY <1>2, <3>1
  <2>2. CASE "Extras" \in ToSet(keys)
    <3> DEFINE i == firstIndex(keys, "Extras")
    <3>1. i \in 1..N /\ keys[i] = "Extras"
      <4>1. \E j \in 1..N : keys[j] = "Extras"
        BY <1>1, <2>2 DEF ToSet
      <4>2. Contains(keys, "Extras")
        BY <1>1, <4>1 DEF Contains
      <4>3. keys = Bis(keys, N)
        BY <1>1 DEF Bis, keys, Schluessel
      <4>4. keys \in Seq(ToSet(keys)) /\ Len(keys) = N
        BY <1>1, <4>3, BisLesen DEF Folge
      <4> QED BY <4>2, <4>4, FirstIndex
    <3>2. Extras(kinder) = Ware(kinder[i])
      BY <2>2 DEF Extras, keys
    <3> HIDE DEF i
    <3> QED BY <1>4, <2>1, <3>1, <3>2
  <2>3. CASE "Extras" \notin ToSet(keys)
    <3>1. Keine(N)
      BY <1>1, <1>4, <2>3 DEF ToSet
    <3>2. Extras(kinder) = <<>>
      BY <2>3 DEF Extras, keys
    <3> QED BY <2>1, <3>1, <3>2
  <2> QED BY <2>2, <2>3
<1> QED BY <1>10, <1>11

-----------------------------------------------------------------------------
(* What is shown is what the menu says.                                     *)

LEMMA KinderTyp ==
  ASSUME NEW k \in Karten, NEW kat
  PROVE  KinderGut(Kinder(k, kat))
<1> DEFINE keys == Schluessel(k)
<1>1. CASE kat \in ToSet(keys)
  <2> DEFINE i == firstIndex(keys, kat)
  <2>1. k \in Seq(ToSet(k)) /\ keys \in Seq(ToSet(keys)) /\ DOMAIN keys = DOMAIN k
    BY SchluesselTyp, KartenAssumption DEF KartenAssumption, Schluessel
  <2>2. Contains(keys, kat) /\ DOMAIN keys = 1..Len(keys)
    BY <1>1, <2>1 DEF Contains, ToSet
  <2>3. i \in DOMAIN k
    <3> HIDE DEF keys
    <3> QED BY <2>1, <2>2, FirstIndex
  <2>4. Kinder(k, kat) = k[i].kinder
    BY <1>1 DEF Kinder
  <2> HIDE DEF i
  <2>5. LET kinder == k[i].kinder IN
          /\ kinder \in Seq(ToSet(kinder))
          /\ Injektiv([j \in DOMAIN kinder |-> kinder[j].key])
          /\ \A j \in DOMAIN kinder : kinder[j].eintraege \in Seq(ToSet(kinder[j].eintraege))
    BY <2>3, KartenAssumption DEF KartenAssumption
  <2> DEFINE kinder == k[i].kinder
  <2> HIDE DEF kinder
  <2>6. /\ kinder \in Seq(ToSet(kinder))
        /\ Injektiv([j \in DOMAIN kinder |-> kinder[j].key])
        /\ \A j \in DOMAIN kinder : kinder[j].eintraege \in Seq(ToSet(kinder[j].eintraege))
    BY <2>5, Zenon DEF kinder
  <2>7. KinderGut(kinder)
    <3>1. DOMAIN kinder = 1..Len(kinder)
      BY <2>6
    <3> QED BY <2>6, <3>1 DEF KinderGut, Folge, Schluessel
  <2> QED BY <2>4, <2>7 DEF kinder
<1>2. CASE kat \notin ToSet(keys)
  <2>1. Kinder(k, kat) = <<>>
    BY <1>2 DEF Kinder
  <2>2. DOMAIN Schluessel(<<>>) = {}
    BY DEF Schluessel
  <2>3. KinderGut(<<>>)
    BY <2>2, LeereFolge DEF KinderGut, Injektiv
  <2> QED BY <2>1, <2>3
<1> QED BY <1>1, <1>2

\* What is read of a Kategorie of the menu k.
GelesenAus(k, kat) == MitKindern(Leer, Kinder(k, kat))

LEMMA RubrikRichtig ==
  ASSUME NEW k \in Karten, NEW kat, Lesbar(Kinder(k, kat)), NEW z, z = GelesenAus(k, kat)
  PROVE  /\ ~z.trap /\ z.Items # <<>>
         /\ Rubrik(kat, Kinder(k, kat)) =
              [Kategorie |-> kat, Unterkategorie |-> z.Unterkategorien, items |-> z.Items]
<1> DEFINE kinder == Kinder(k, kat)  u == Unterkategorien(kinder)
           P == {j \in DOMAIN kinder : kinder[j].key # "Extras"}
<1>1. KinderGut(kinder)
  BY KinderTyp
<1>2. Lesbar(kinder) /\ z = MitKindern(Leer, kinder)
  BY DEF GelesenAus
<1> HIDE DEF kinder
<1>3. Folge(kinder) /\ DOMAIN kinder = 1..Len(kinder)
  BY <1>1 DEF KinderGut, Folge
<1>4. /\ \A i \in 1..Len(kinder) : kinder[i].key # "Extras" =>
           \E e \in ToSet(kinder[i].eintraege) : e \in Waren
      /\ \E i \in 1..Len(kinder) : kinder[i].key # "Extras"
  BY <1>2, <1>3 DEF Lesbar, ToSet
<1>5. Gelesen(z, u)
  BY <1>1, <1>2, <1>4, RubrikLesen
<1>6. u # <<>> /\ Folge(u)
  <2>1. u = Auswahl(kinder, P)
    BY DEF Unterkategorien
  <2>2. \E i \in 1..Len(kinder) : i \in P
    BY <1>3, <1>4
  <2> HIDE DEF P, u
  <2> QED BY <1>3, <2>1, <2>2, AuswahlTyp
<1>7. z.trap = FALSE /\ z.Unterkategorien = Namen(u) /\ z.Items = Itemlisten(u)
  BY <1>5 DEF Gelesen
<1>8. Rubrik(kat, kinder) = [Kategorie |-> kat, Unterkategorie |-> Namen(u), items |-> Itemlisten(u)]
  BY DEF Rubrik, Namen, Itemlisten
<1> HIDE DEF u
<1>9. Itemlisten(u) # <<>>
  <2>1. 1 \in DOMAIN u
    <3>1. Len(u) \in Nat /\ DOMAIN u = 1..Len(u)
      BY <1>6 DEF Folge
    <3>2. Len(u) # 0
      <4>1. ASSUME Len(u) = 0 PROVE u = <<>>
        <5>1. \A j \in 1..Len(u) : u[j] = <<>>[j]
          BY <4>1, LeereFolge
        <5> QED BY <1>6, <4>1, <5>1, LeereFolge, FolgenGleich
      <4> QED BY <1>6, <4>1
    <3> QED BY <3>1, <3>2
  <2>2. DOMAIN Itemlisten(u) = DOMAIN u
    BY DEF Itemlisten
  <2> QED BY <2>1, <2>2
<1> QED BY <1>7, <1>8, <1>9 DEF kinder

\* Of a Kategorie that is not in the menu nothing is read.
LEMMA FehlendeLeer ==
  ASSUME NEW k, NEW kat, kat \notin ToSet(Schluessel(k))
  PROVE  GelesenAus(k, kat) = Leer
<1>1. Kinder(k, kat) = <<>>
  BY DEF Kinder
<1>2. MitKindern(Leer, <<>>) = Leer
  <2>1. PICK f : f[0] = Leer /\ f[Len(<<>>)] = MitKindern(Leer, <<>>)
    BY LeereFolge, KinderNacheinander
  <2> QED BY <2>1, LeereFolge
<1> QED BY <1>1, <1>2 DEF GelesenAus

\* All Kategorien of all menus are as the code expects them.
AlleLesbar ==
  \A k \in ToSet(karten) : \A kat \in ToSet(Schluessel(k)) : Lesbar(Kinder(k, kat))

\* Every answer on its way and every loaded Kategorie is of a menu that the bar has
\* had; what is shown is what is loaded, and unwrapping fails for malformed menus only.
LesenInv ==
  /\ \A kat \in DOMAIN antworten : \E k \in ToSet(karten) : antworten[kat] = Kinder(k, kat)
  /\ status # "oeffnen" =>
       \A kat \in ToSet(Kategorien) \ (gefragt \cup DOMAIN antworten) :
         \E k \in ToSet(karten) : geladen[kat] = GelesenAus(k, kat)
  /\ status = "laedt" => \A kat \in ToSet(Kategorien) : ~geladen[kat].trap
  /\ sections # <<>> => sections = Sectionen(geladen)
  /\ status = "abgestuerzt" => sections = <<>> /\ ~AlleLesbar

LEMMA LesenInit == Init => LesenInv
<1> SUFFICES ASSUME Init PROVE LesenInv
  OBVIOUS
<1>1. status = "oeffnen" /\ sections = <<>> /\ DOMAIN antworten = {}
  BY DEF Init
<1> QED BY <1>1 DEF LesenInv

LEMMA LesenKategorien ==
  ASSUME IInv, LesenInv, getKategorien
  PROVE  LesenInv'
<1> DEFINE s == Schluessel(Karte)
<1>1. /\ Kategorien' = s /\ gefragt' = ToSet(s) /\ geladen' = [kat \in gefragt' |-> Leer]
      /\ status' = "laedt" /\ sections' = <<>> /\ antworten' = antworten /\ DOMAIN antworten = {}
  BY DEF getKategorien, IInv
<1> HIDE DEF s
<1>2. ToSet(Kategorien') \ (gefragt' \cup DOMAIN antworten') = {}
  BY <1>1
<1>3. \A kat \in ToSet(Kategorien') : geladen'[kat] = Leer
  BY <1>1
<1>4. ~Leer.trap
  BY DEF Leer
<1> QED BY <1>1, <1>2, <1>3, <1>4 DEF LesenInv

LEMMA LesenAntworten ==
  ASSUME IInv, LesenInv, NEW kat \in ToSet(Kategorien), Antworten(kat)
  PROVE  LesenInv'
<1>1. /\ kat \in gefragt /\ gefragt' = gefragt \ {kat}
      /\ DOMAIN antworten' = DOMAIN antworten \cup {kat}
      /\ antworten'[kat] = Kinder(Karte, kat)
      /\ \A x \in DOMAIN antworten : x # kat => antworten'[x] = antworten[x]
      /\ karten' = karten /\ Kategorien' = Kategorien /\ geladen' = geladen
      /\ sections' = sections /\ status' = status
  BY DEF Antworten, MitAntwort
<1>2. Karte \in ToSet(karten)
  <2>1. karten \in Seq(Karten) /\ karten # <<>>
    BY DEF IInv
  <2>2. Len(karten) \in DOMAIN karten
    BY <2>1
  <2> QED BY <2>2 DEF Karte, Last, ToSet
<1>3. \A x \in DOMAIN antworten' : \E k \in ToSet(karten) : antworten'[x] = Kinder(k, x)
  BY <1>1, <1>2 DEF LesenInv
<1>4. gefragt' \cup DOMAIN antworten' = gefragt \cup DOMAIN antworten
  BY <1>1
<1>5. Sectionen(geladen)' = Sectionen(geladen) /\ AlleLesbar' = AlleLesbar
  BY <1>1 DEF Sectionen, AlleLesbar
<1> QED BY <1>1, <1>3, <1>4, <1>5 DEF LesenInv

LEMMA LesenAendern ==
  ASSUME IInv, LesenInv, KarteAendern
  PROVE  LesenInv'
<1>1. PICK k \in Karten : karten' = Append(karten, k)
  BY DEF KarteAendern
<1>2. ToSet(karten) \subseteq ToSet(karten')
  <2>1. karten \in Seq(Karten)
    BY DEF IInv
  <2>2. \A i \in DOMAIN karten : i \in DOMAIN karten' /\ karten'[i] = karten[i]
    BY <1>1, <2>1
  <2> QED BY <2>2 DEF ToSet
<1>3. UNCHANGED <<Kategorien, gefragt, antworten, geladen, sections, status>>
  BY DEF KarteAendern
<1>4. AlleLesbar' => AlleLesbar
  BY <1>2 DEF AlleLesbar
<1>5. Sectionen(geladen)' = Sectionen(geladen)
  BY <1>3 DEF Sectionen
<1> QED BY <1>2, <1>3, <1>4, <1>5 DEF LesenInv

LEMMA LesenKategorie ==
  ASSUME IInv, LesenInv, NEW kat \in ToSet(Kategorien), getUnterKategorienItems(kat)
  PROVE  LesenInv'
<1> DEFINE neu == [geladen EXCEPT ![kat] = MitKindern(@, antworten[kat])]
           absturz == \/ neu[kat].trap
                      \/ Barriere(neu) /\ \E k \in ToSet(Kategorien) : neu[k].Items = <<>>
           Offen == gefragt \cup DOMAIN antworten
           OffenNeu == gefragt \cup (DOMAIN antworten \ {kat})
<1>1. /\ status = "laedt" /\ kat \in DOMAIN antworten /\ geladen' = neu
      /\ DOMAIN antworten' = DOMAIN antworten \ {kat}
      /\ \A k \in DOMAIN antworten' : antworten'[k] = antworten[k]
      /\ karten' = karten /\ Kategorien' = Kategorien /\ gefragt' = gefragt
  BY DEF getUnterKategorienItems
<1>2. \/ absturz /\ status' = "abgestuerzt" /\ sections' = sections
      \/ ~absturz /\ status' = status
         /\ sections' = IF Barriere(neu) THEN sections \o Sectionen(neu) ELSE sections
  <2> DEFINE S == Sectionen(neu)  B == Barriere(neu)
  <2>1. IF absturz THEN status' = "abgestuerzt" /\ UNCHANGED sections
        ELSE /\ sections' = IF B THEN sections \o S ELSE sections
             /\ UNCHANGED status
    BY Zenon DEF getUnterKategorienItems
  <2> HIDE DEF absturz, B, S
  <2> QED BY <2>1 DEF B, S
<1>3. /\ DOMAIN neu = ToSet(Kategorien) /\ geladen[kat] = Leer
      /\ neu[kat] = MitKindern(Leer, antworten[kat])
      /\ \A x \in ToSet(Kategorien) : x # kat => neu[x] = geladen[x]
  BY <1>1 DEF IInv, TypeOK
<1>4. sections = <<>>
  BY <1>1 DEF IInv
<1> HIDE DEF neu
<1>5. ASSUME NEW x \in ToSet(Kategorien) \ OffenNeu
      PROVE  \E k \in ToSet(karten) : neu[x] = GelesenAus(k, x)
  <2>1. CASE x = kat
    <3>1. PICK k \in ToSet(karten) : antworten[kat] = Kinder(k, kat)
      BY <1>1 DEF LesenInv
    <3> QED BY <1>3, <2>1, <3>1 DEF GelesenAus
  <2>2. CASE x # kat
    <3>1. x \in ToSet(Kategorien) \ Offen
      BY <1>5, <2>2
    <3> QED BY <1>1, <1>3, <2>2, <3>1 DEF LesenInv
  <2> QED BY <2>1, <2>2
<1>6. \A x \in ToSet(Kategorien) : x # kat => ~neu[x].trap
  BY <1>1, <1>3 DEF LesenInv
<1>7. \A k \in ToSet(karten) : k \in Karten
  BY DEF IInv, TypeOK
<1>8. ASSUME NEW x \in ToSet(Kategorien) \ OffenNeu, AlleLesbar
      PROVE  neu[x] = Leer \/ (~neu[x].trap /\ neu[x].Items # <<>>)
  <2>1. PICK k \in ToSet(karten) : neu[x] = GelesenAus(k, x)
    BY <1>5
  <2>2. CASE x \in ToSet(Schluessel(k))
    <3>1. k \in Karten /\ Lesbar(Kinder(k, x))
      BY <1>7, <1>8, <2>2 DEF AlleLesbar
    <3>2. ~neu[x].trap /\ neu[x].Items # <<>>
      <4> DEFINE z == neu[x]
      <4>1. z = GelesenAus(k, x)
        BY <2>1
      <4> HIDE DEF z
      <4>2. ~z.trap /\ z.Items # <<>>
        BY <3>1, <4>1, RubrikRichtig, Zenon
      <4> QED BY <4>2, Zenon DEF z
    <3> QED BY <3>2, Zenon
  <2>3. CASE x \notin ToSet(Schluessel(k))
    BY <2>1, <2>3, FehlendeLeer
  <2> QED BY <2>2, <2>3
<1>9. absturz => ~AlleLesbar
  <2> SUFFICES ASSUME AlleLesbar PROVE ~absturz
    BY Zenon
  <2>1. ~neu[kat].trap
    <3>1. kat \in ToSet(Kategorien) \ OffenNeu
      BY <1>1 DEF IInv, TypeOK
    <3>2. neu[kat] = Leer \/ ~neu[kat].trap
      BY <1>8, <3>1, Zenon
    <3>3. Leer.trap = FALSE
      BY DEF Leer
    <3> QED BY <3>2, <3>3, Zenon
  <2>2. ASSUME Barriere(neu), NEW x \in ToSet(Kategorien) PROVE neu[x].Items # <<>>
    <3>1. neu[x].Unterkategorien # <<>>
      BY <1>3, <2>2, BarriereAlle DEF IInv
    <3>2. neu[x] # Leer
      BY <3>1 DEF Leer
    <3>3. x \notin OffenNeu
      <4>1. ASSUME x \in OffenNeu PROVE neu[x] = Leer
        <5>1. x # kat /\ x \in Offen
          BY <1>1, <4>1 DEF IInv, TypeOK
        <5> QED BY <1>3, <5>1 DEF IInv
      <4> QED BY <3>2, <4>1
    <3> QED BY <1>8, <3>2, <3>3, Zenon
  <2> HIDE DEF Offen, OffenNeu
  <2> QED BY <2>1, <2>2, Zenon
<1>10. ~absturz => \A x \in ToSet(Kategorien) : ~neu[x].trap
  <2> SUFFICES ASSUME ~absturz, NEW x \in ToSet(Kategorien) PROVE ~neu[x].trap
    BY Zenon
  <2> QED BY <1>6, Zenon
<1>11. sections' # <<>> => sections' = Sectionen(neu)
  <2>1. <<>> \o Sectionen(neu) = Sectionen(neu)
    <3> DEFINE s == Sectionen(neu)
    <3>1. s = Bis(s, Len(Kategorien)) /\ Len(Kategorien) \in Nat
      <4>1. DOMAIN Kategorien = 1..Len(Kategorien) /\ Len(Kategorien) \in Nat
        BY DEF IInv
      <4> QED BY <4>1 DEF Bis, Sectionen
    <3>2. s \in Seq(ToSet(s))
      BY <3>1, BisLesen DEF Folge
    <3> HIDE DEF s
    <3> QED BY <3>2 DEF s
  <2> HIDE DEF absturz
  <2> QED BY <1>2, <1>4, <2>1
<1>12. Sectionen(geladen)' = Sectionen(neu) /\ AlleLesbar' = AlleLesbar
  BY <1>1 DEF Sectionen, AlleLesbar
<1>13. \A x \in DOMAIN antworten' : \E k \in ToSet(karten') : antworten'[x] = Kinder(k, x)
  BY <1>1 DEF LesenInv
<1>14. \A x \in ToSet(Kategorien') \ (gefragt' \cup DOMAIN antworten') :
          \E k \in ToSet(karten') : geladen'[x] = GelesenAus(k, x)
  BY <1>1, <1>5
<1> HIDE DEF absturz
<1>15. status' = "laedt" => \A x \in ToSet(Kategorien') : ~geladen'[x].trap
  <2>1. status' = "laedt" => ~absturz
    BY <1>2
  <2> QED BY <1>1, <1>10, <2>1, Zenon
<1>16. status' = "abgestuerzt" => sections' = <<>> /\ ~AlleLesbar'
  <2>1. status' = "abgestuerzt" => absturz /\ sections' = sections
    BY <1>1, <1>2
  <2> QED BY <1>4, <1>9, <1>12, <2>1, Zenon
<1> QED BY <1>1, <1>11, <1>12, <1>13, <1>14, <1>15, <1>16 DEF LesenInv

LEMMA LesenNext == IInv /\ LesenInv /\ [Next]_vars => LesenInv'
<1> SUFFICES ASSUME IInv, LesenInv, [Next]_vars PROVE LesenInv'
  OBVIOUS
<1>1. CASE UNCHANGED vars
  BY <1>1 DEF vars, LesenInv, Sectionen, AlleLesbar
<1> QED BY <1>1, LesenKategorien, LesenAntworten, LesenKategorie, LesenAendern DEF Next

LEMMA LesenSpec == Spec => [](IInv /\ LesenInv)
  BY InvInit, InvNext, LesenInit, LesenNext, PTL DEF Spec

\* What is shown is loaded, completely.
LEMMA GezeigtGeladen ==
  ASSUME IInv, LesenInv, sections # <<>>
  PROVE  /\ sections = Sectionen(geladen)
         /\ \A kat \in ToSet(Kategorien) :
              ~geladen[kat].trap /\ \E k \in ToSet(karten) : k \in Karten /\ geladen[kat] = GelesenAus(k, kat)
<1>1. gefragt = {} /\ DOMAIN antworten = {} /\ status = "laedt"
  BY DEF IInv, LesenInv, TypeOK
<1>2. \A k \in ToSet(karten) : k \in Karten
  BY DEF IInv, TypeOK
<1> QED BY <1>1, <1>2 DEF LesenInv

\* The menu appears as a whole, each Kategorie once, with its Unterkategorien and all
\* their items as they were at one moment, in whichever order the answers came and
\* whatever the bar changed meanwhile, for menus of any size.
THEOREM KarteImmerGanz == Spec => []KarteGanz
<1>1. ASSUME IInv, LesenInv, sections # <<>>
      PROVE  /\ [k \in DOMAIN sections |-> sections[k].Kategorie] = Kategorien
             /\ \A s \in ToSet(sections) : Stets(s.Kategorie) =>
                  \E k \in ToSet(karten) : s = Rubrik(s.Kategorie, Kinder(k, s.Kategorie))
  <2>1. /\ DOMAIN sections = DOMAIN Kategorien
        /\ \A k \in DOMAIN Kategorien :
             sections[k] = [Kategorie |-> Kategorien[k],
                            Unterkategorie |-> geladen[Kategorien[k]].Unterkategorien,
                            items |-> geladen[Kategorien[k]].Items]
    BY <1>1, GezeigtGeladen DEF Sectionen
  <2>2. [k \in DOMAIN sections |-> sections[k].Kategorie] = Kategorien
    BY <1>1, <2>1 DEF IInv
  <2>3. ASSUME NEW s \in ToSet(sections), Stets(s.Kategorie)
        PROVE  \E k \in ToSet(karten) : s = Rubrik(s.Kategorie, Kinder(k, s.Kategorie))
    <3>1. PICK n \in DOMAIN Kategorien : s = sections[n]
      BY <2>1 DEF ToSet
    <3> DEFINE kat == Kategorien[n]  z == geladen[kat]
    <3>2. s = [Kategorie |-> kat, Unterkategorie |-> z.Unterkategorien, items |-> z.Items]
      BY <2>1, <3>1
    <3>3. kat \in ToSet(Kategorien) /\ s.Kategorie = kat
      BY <3>1, <3>2 DEF ToSet
    <3>4. PICK k \in ToSet(karten) : k \in Karten /\ z = GelesenAus(k, kat)
      BY <1>1, <3>3, GezeigtGeladen
    <3>5. Lesbar(Kinder(k, kat))
      BY <2>3, <3>3, <3>4 DEF Stets
    <3> HIDE DEF kat, z
    <3>6. Rubrik(kat, Kinder(k, kat)) = s
      BY <3>2, <3>4, <3>5, RubrikRichtig
    <3> QED BY <3>3, <3>4, <3>6
  <2> QED BY <2>2, <2>3
<1>2. IInv /\ LesenInv => KarteGanz
  BY <1>1, Zenon DEF KarteGanz
<1> QED BY <1>2, LesenSpec, PTL

\* When the menu is shown, the extras of every Kategorie are there, as they were at
\* one moment, also of a Kategorie that has lost items or whole Unterkategorien since.
THEOREM ExtrasImmerDabei == Spec => []ExtrasDabei
<1>1. ASSUME IInv, LesenInv, sections # <<>>, NEW kat \in ToSet(Kategorien)
      PROVE  \E k \in ToSet(karten) : geladen[kat].Extras = Extras(Kinder(k, kat))
  <2> DEFINE z == geladen[kat]
  <2>1. PICK k \in ToSet(karten) : k \in Karten /\ z = GelesenAus(k, kat)
    BY <1>1, GezeigtGeladen
  <2>2. ~z.trap
    BY <1>1, GezeigtGeladen
  <2> HIDE DEF z
  <2>3. z.Extras = Extras(Kinder(k, kat))
    BY <2>1, <2>2, KinderTyp, ExtrasLesen DEF GelesenAus
  <2> QED BY <2>1, <2>3 DEF z
<1>2. IInv /\ LesenInv => ExtrasDabei
  BY <1>1, Zenon DEF ExtrasDabei
<1> QED BY <1>2, LesenSpec, PTL

\* Unwrapping fails only for a menu that has a Kategorie without Unterkategorien, or
\* an Unterkategorie without items; that a Kategorie disappears while it is asked for
\* does no harm.
THEOREM AbsturzNurFehlerhaft == Spec => []KeinAbsturz
<1>1. LesenInv => KeinAbsturz
  BY DEF LesenInv, AlleLesbar, KeinAbsturz
<1> QED BY <1>1, LesenSpec, PTL
===================================================================================
