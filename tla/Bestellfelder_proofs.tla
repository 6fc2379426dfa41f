------------------------- MODULE Bestellfelder_proofs -------------------------
(***************************************************************************)
(* What the operators of Bestellfelder preserve, for every menu: each of   *)
(* them turns aligned arrays of the right types into aligned arrays of the *)
(* right types. And what those of BestellungLesen make of an order that is *)
(* read back: its lines, the names of their extras, and the prices.        *)
(***************************************************************************)
EXTENDS BestellungLesen, SequenceTheorems, WellFoundedInduction, TLAPS

-----------------------------------------------------------------------------
(* Sequences.                                                              *)

LEMMA AppendFolge ==
  ASSUME NEW S, NEW s \in Seq(S), NEW x \in S
  PROVE  /\ Append(s, x) \in Seq(S)
         /\ Len(Append(s, x)) = Len(s) + 1
         /\ \A i \in 1..Len(s) : Append(s, x)[i] = s[i]
         /\ Append(s, x)[Len(s) + 1] = x
  OBVIOUS

LEMMA ExceptFolge ==
  ASSUME NEW S, NEW s \in Seq(S), NEW k \in 1..Len(s), NEW x \in S
  PROVE  /\ [s EXCEPT ![k] = x] \in Seq(S)
         /\ Len([s EXCEPT ![k] = x]) = Len(s)
         /\ [s EXCEPT ![k] = x][k] = x
         /\ \A i \in 1..Len(s) : i # k => [s EXCEPT ![k] = x][i] = s[i]
  OBVIOUS

LEMMA ExceptSelbst ==
  ASSUME NEW S, NEW s \in Seq(S), NEW k \in 1..Len(s)
  PROVE  [s EXCEPT ![k] = s[k]] = s
  OBVIOUS

LEMMA RemoveAtFolge ==
  ASSUME NEW S, NEW s \in Seq(S), NEW k \in 1..Len(s)
  PROVE  /\ RemoveAt(s, k) \in Seq(S)
         /\ Len(RemoveAt(s, k)) = Len(s) - 1
         /\ \A i \in 1..(k - 1) : RemoveAt(s, k)[i] = s[i]
         /\ \A i \in k..(Len(s) - 1) : RemoveAt(s, k)[i] = s[i + 1]
<1> DEFINE v == SubSeq(s, 1, k - 1)
           h == SubSeq(s, k + 1, Len(s))
<1>1. /\ v \in Seq(S) /\ Len(v) = k - 1
      /\ \A i \in 1..(k - 1) : v[i] = s[i]
  OBVIOUS
<1>2. /\ h \in Seq(S) /\ Len(h) = Len(s) - k
      /\ \A i \in 1..(Len(s) - k) : h[i] = s[k + i]
  OBVIOUS
<1>3. RemoveAt(s, k) = v \o h
  BY DEF RemoveAt
<1> HIDE DEF v, h
<1>4. /\ v \o h \in Seq(S)
      /\ Len(v \o h) = Len(v) + Len(h)
      /\ \A i \in 1..(Len(v) + Len(h)) :
           (v \o h)[i] = IF i <= Len(v) THEN v[i] ELSE h[i - Len(v)]
  BY <1>1, <1>2, ConcatProperties
<1>5. \A i \in 1..(k - 1) : (v \o h)[i] = s[i]
  BY <1>1, <1>2, <1>4
<1>6. ASSUME NEW i \in k..(Len(s) - 1)
      PROVE  (v \o h)[i] = s[i + 1]
  <2>1. i - (k - 1) \in 1..(Len(s) - k) /\ k + (i - (k - 1)) = i + 1
    OBVIOUS
  <2>2. (v \o h)[i] = h[i - (k - 1)]
    BY <1>1, <1>2, <1>4
  <2> QED BY <2>1, <2>2, <1>2
<1> QED BY <1>1, <1>2, <1>3, <1>4, <1>5, <1>6

LEMMA BisNachfolger ==
  \A m \in Nat : \A i \in 1..(m + 1) : i = m + 1 \/ i \in 1..m
  OBVIOUS

LEMMA KleinsteZahl ==
  ASSUME NEW T, T \subseteq Nat, T # {}
  PROVE  \E n \in T : \A m \in T : n <= m
<1>1. PICK n \in T : \A m \in T : ~ (<<m, n>> \in OpToRel(<, Nat))
  BY NatLessThanWellFounded, WFMin, Zenon
<1>2. \A m \in T : ~ (m < n)
  BY <1>1, Zenon DEF OpToRel
<1> QED BY <1>2

\* firstIndex(of:) returns the least index of an element that is there.
LEMMA FirstIndex ==
  ASSUME NEW S, NEW s \in Seq(S), NEW x, Contains(s, x)
  PROVE  /\ firstIndex(s, x) \in 1..Len(s)
         /\ s[firstIndex(s, x)] = x
         /\ \A m \in 1..Len(s) : s[m] = x => firstIndex(s, x) <= m
<1> DEFINE T == {n \in 1..Len(s) : s[n] = x}
<1>1. T # {} /\ T \subseteq Nat
  BY DEF Contains
<1>2. PICK n \in T : \A m \in T : n <= m
  BY <1>1, KleinsteZahl
<1>3. n \in DOMAIN s /\ s[n] = x /\ \A m \in DOMAIN s : s[m] = x => n <= m
  BY <1>2
<1> QED BY <1>3 DEF firstIndex

-----------------------------------------------------------------------------
(* Two sequences of sequences that are changed alike stay equally long.    *)

LEMMA GleichLangAppend ==
  ASSUME NEW T, NEW U, NEW a \in Seq(Seq(T)), NEW c \in Seq(Seq(U)), GleichLang(a, c),
         NEW x \in Seq(T), NEW y \in Seq(U), Len(x) = Len(y)
  PROVE  GleichLang(Append(a, x), Append(c, y))
  BY AppendFolge DEF GleichLang

LEMMA GleichLangExcept ==
  ASSUME NEW T, NEW U, NEW a \in Seq(Seq(T)), NEW c \in Seq(Seq(U)), GleichLang(a, c),
         NEW k \in 1..Len(c), NEW x \in Seq(T), NEW y \in Seq(U), Len(x) = Len(y)
  PROVE  GleichLang([a EXCEPT ![k] = x], [c EXCEPT ![k] = y])
  BY ExceptFolge DEF GleichLang

LEMMA GleichLangRemoveAt ==
  ASSUME NEW T, NEW U, NEW a \in Seq(Seq(T)), NEW c \in Seq(Seq(U)), GleichLang(a, c),
         NEW k \in 1..Len(c)
  PROVE  GleichLang(RemoveAt(a, k), RemoveAt(c, k))
<1>0. k \in 1..Len(a)
  BY DEF GleichLang
<1>1. /\ RemoveAt(a, k) \in Seq(Seq(T)) /\ Len(RemoveAt(a, k)) = Len(a) - 1
      /\ \A i \in 1..(k - 1) : RemoveAt(a, k)[i] = a[i]
      /\ \A i \in k..(Len(a) - 1) : RemoveAt(a, k)[i] = a[i + 1]
  BY <1>0, RemoveAtFolge
<1>2. /\ RemoveAt(c, k) \in Seq(Seq(U)) /\ Len(RemoveAt(c, k)) = Len(c) - 1
      /\ \A i \in 1..(k - 1) : RemoveAt(c, k)[i] = c[i]
      /\ \A i \in k..(Len(c) - 1) : RemoveAt(c, k)[i] = c[i + 1]
  BY RemoveAtFolge
<1>3. SUFFICES ASSUME NEW i \in 1..(Len(c) - 1)
               PROVE  Len(RemoveAt(a, k)[i]) = Len(RemoveAt(c, k)[i])
  BY <1>1, <1>2 DEF GleichLang
<1>4. CASE i < k
  <2>1. i \in 1..(k - 1) /\ i \in 1..Len(c)
    BY <1>4
  <2> QED BY <1>1, <1>2, <2>1 DEF GleichLang
<1>5. CASE i >= k
  <2>1. i \in k..(Len(c) - 1) /\ i \in k..(Len(a) - 1) /\ i + 1 \in 1..Len(c)
    BY <1>5 DEF GleichLang
  <2> QED BY <1>1, <1>2, <2>1 DEF GleichLang
<1> QED BY <1>4, <1>5

-----------------------------------------------------------------------------
(* One of the seven arrays: a, with values from S, fits the Unterkategorien *)
(* c and has as many lines in each as n, the array of the items' names.    *)

Feld(a, n, c, S) ==
  /\ a \in Seq(Seq(Seq(S)))
  /\ GleichLang(a, c)
  /\ \A k \in 1..Len(c) : GleichLang(a[k], n[k])

\* The k-th Kategorie gets the lists x in a and y in n, under the headings z.
LEMMA FeldExcept ==
  ASSUME NEW S, NEW R, NEW U, NEW n, NEW a, NEW c \in Seq(Seq(U)),
         Feld(a, n, c, S), Feld(n, n, c, R), NEW k \in 1..Len(c),
         NEW x \in Seq(Seq(S)), NEW y \in Seq(Seq(R)), NEW z \in Seq(U),
         GleichLang(x, y), Len(x) = Len(z)
  PROVE  Feld([a EXCEPT ![k] = x], [n EXCEPT ![k] = y], [c EXCEPT ![k] = z], S)
<1> DEFINE aa == [a EXCEPT ![k] = x]
           nn == [n EXCEPT ![k] = y]
           cc == [c EXCEPT ![k] = z]
<1>1. /\ a \in Seq(Seq(Seq(S))) /\ n \in Seq(Seq(Seq(R)))
      /\ Len(a) = Len(c) /\ Len(n) = Len(c)
  BY DEF Feld, GleichLang
<1>2. /\ aa \in Seq(Seq(Seq(S))) /\ aa[k] = x
      /\ \A i \in 1..Len(c) : i # k => aa[i] = a[i]
  BY <1>1, ExceptFolge
<1>3. /\ nn \in Seq(Seq(Seq(R))) /\ nn[k] = y
      /\ \A i \in 1..Len(c) : i # k => nn[i] = n[i]
  BY <1>1, ExceptFolge
<1>4. Len(cc) = Len(c)
  BY ExceptFolge
<1>5. GleichLang(aa, cc)
  BY <1>1, GleichLangExcept DEF Feld
<1>6. ASSUME NEW i \in 1..Len(c)
      PROVE  GleichLang(aa[i], nn[i])
  <2>1. CASE i = k
    BY <2>1, <1>2, <1>3
  <2>2. CASE i # k
    <3>1. aa[i] = a[i] /\ nn[i] = n[i]
      BY <2>2, <1>2, <1>3
    <3>2. GleichLang(a[i], n[i])
      BY DEF Feld
    <3> QED BY <3>1, <3>2
  <2> QED BY <2>1, <2>2
<1> QED BY <1>2, <1>4, <1>5, <1>6 DEF Feld

\* A new Kategorie at the end.
LEMMA FeldAppend ==
  ASSUME NEW S, NEW R, NEW U, NEW n, NEW a, NEW c \in Seq(Seq(U)),
         Feld(a, n, c, S), Feld(n, n, c, R),
         NEW x \in Seq(Seq(S)), NEW y \in Seq(Seq(R)), NEW z \in Seq(U),
         GleichLang(x, y), Len(x) = Len(z)
  PROVE  Feld(Append(a, x), Append(n, y), Append(c, z), S)
<1> DEFINE aa == Append(a, x)
           nn == Append(n, y)
           cc == Append(c, z)
           T == Seq(Seq(R))
<1>0. Len(c) \in Nat
  OBVIOUS
<1>1. /\ a \in Seq(Seq(Seq(S))) /\ n \in Seq(Seq(Seq(R)))
      /\ Len(a) = Len(c) /\ Len(n) = Len(c)
  BY DEF Feld, GleichLang
<1>2. /\ aa \in Seq(Seq(Seq(S))) /\ aa[Len(c) + 1] = x
      /\ \A i \in 1..Len(c) : aa[i] = a[i]
  BY <1>1, AppendFolge
<1>3. /\ nn \in Seq(Seq(Seq(R))) /\ nn[Len(c) + 1] = y
      /\ \A i \in 1..Len(c) : nn[i] = n[i]
  <2>1. n \in Seq(T) /\ y \in T
    BY <1>1
  <2> HIDE DEF T
  <2>2. /\ nn \in Seq(T) /\ nn[Len(n) + 1] = y
        /\ \A i \in 1..Len(n) : nn[i] = n[i]
    BY <2>1, AppendFolge
  <2> QED BY <2>2, <1>1 DEF T
<1>4. Len(cc) = Len(c) + 1
  BY AppendFolge
<1>5. GleichLang(aa, cc)
  BY <1>1, GleichLangAppend DEF Feld
<1> HIDE DEF aa, nn, cc
<1>6. ASSUME NEW i \in 1..(Len(c) + 1)
      PROVE  GleichLang(aa[i], nn[i])
  <2>1. CASE i = Len(c) + 1
    BY <2>1, <1>2, <1>3
  <2>2. CASE i \in 1..Len(c)
    <3>1. aa[i] = a[i] /\ nn[i] = n[i]
      BY <2>2, <1>2, <1>3
    <3>2. GleichLang(a[i], n[i])
      BY <2>2 DEF Feld
    <3> QED BY <3>1, <3>2
  <2>3. i = Len(c) + 1 \/ i \in 1..Len(c)
    BY <1>0, BisNachfolger
  <2> QED BY <2>1, <2>2, <2>3
<1> QED BY <1>2, <1>4, <1>5, <1>6 DEF Feld, aa, nn, cc

\* The k-th Kategorie goes.
LEMMA FeldRemoveAt ==
  ASSUME NEW S, NEW R, NEW U, NEW n, NEW a, NEW c \in Seq(Seq(U)),
         Feld(a, n, c, S), Feld(n, n, c, R), NEW k \in 1..Len(c)
  PROVE  Feld(RemoveAt(a, k), RemoveAt(n, k), RemoveAt(c, k), S)
<1> DEFINE aa == RemoveAt(a, k)
           nn == RemoveAt(n, k)
           cc == RemoveAt(c, k)
<1>1. /\ a \in Seq(Seq(Seq(S))) /\ n \in Seq(Seq(Seq(R)))
      /\ Len(a) = Len(c) /\ Len(n) = Len(c)
      /\ k \in 1..Len(a) /\ k \in 1..Len(n)
  BY DEF Feld, GleichLang
<1>2. /\ aa \in Seq(Seq(Seq(S)))
      /\ \A i \in 1..(k - 1) : aa[i] = a[i]
      /\ \A i \in k..(Len(c) - 1) : aa[i] = a[i + 1]
  BY <1>1, RemoveAtFolge
<1>3. /\ nn \in Seq(Seq(Seq(R)))
      /\ \A i \in 1..(k - 1) : nn[i] = n[i]
      /\ \A i \in k..(Len(c) - 1) : nn[i] = n[i + 1]
  BY <1>1, RemoveAtFolge
<1>4. Len(cc) = Len(c) - 1 /\ Len(c) \in Nat
  BY RemoveAtFolge
<1>5. GleichLang(aa, cc)
  BY <1>1, GleichLangRemoveAt DEF Feld
<1> HIDE DEF aa, nn, cc
<1>6. ASSUME NEW i \in 1..(Len(c) - 1)
      PROVE  GleichLang(aa[i], nn[i])
  <2>1. CASE i < k
    <3>1. i \in 1..(k - 1) /\ i \in 1..Len(c)
      BY <2>1, <1>4
    <3>2. GleichLang(a[i], n[i])
      BY <3>1 DEF Feld
    <3> QED BY <3>1, <3>2, <1>2, <1>3
  <2>2. CASE i >= k
    <3>1. i \in k..(Len(c) - 1) /\ i + 1 \in 1..Len(c)
      BY <2>2, <1>4
    <3>2. GleichLang(a[i + 1], n[i + 1])
      BY <3>1 DEF Feld
    <3> QED BY <3>1, <3>2, <1>2, <1>3
  <2> QED BY <2>1, <2>2, <1>4
<1> QED BY <1>2, <1>4, <1>5, <1>6 DEF Feld, aa, nn, cc

-----------------------------------------------------------------------------
(* The ten arrays: of the right types, and aligned.                        *)

Wohlgeformt(b, K, U, W) == IstBestellung(b, K, U, W) /\ Ausgerichtet(b)

\* The same, with one condition for each of the seven arrays.
LEMMA WohlgeformtFelder ==
  ASSUME NEW K, NEW U, NEW W, NEW b
  PROVE  Wohlgeformt(b, K, U, W) <=>
           /\ b = [Kategorien |-> b.Kategorien, Unterkategorien |-> b.Unterkategorien,
                   Expanded2 |-> b.Expanded2, felder |-> b.felder]
           /\ b.Kategorien \in Seq(K)
           /\ b.Unterkategorien \in Seq(Seq(U))
           /\ Len(b.Unterkategorien) = Len(b.Kategorien)
           /\ b.Expanded2 \in Seq(Seq(BOOLEAN))
           /\ GleichLang(b.Expanded2, b.Unterkategorien)
           /\ b.felder = [f \in Felder |-> b.felder[f]]
           /\ \A f \in Felder : Feld(b.felder[f], b.felder["ItemsNamen"],
                                     b.Unterkategorien, W[f])
  BY DEF Wohlgeformt, IstBestellung, Ausgerichtet, Feld

LEMMA FelderErsetzen ==
  ASSUME NEW b, NEW F,
         b = [Kategorien |-> b.Kategorien, Unterkategorien |-> b.Unterkategorien,
              Expanded2 |-> b.Expanded2, felder |-> b.felder]
  PROVE  [b EXCEPT !.felder = F]
           = [Kategorien |-> b.Kategorien, Unterkategorien |-> b.Unterkategorien,
              Expanded2 |-> b.Expanded2, felder |-> F]
  OBVIOUS

LEMMA ItemsNamenFelder == "ItemsNamen" \in Felder
  BY DEF Felder

LEMMA EineZeile ==
  ASSUME NEW S, NEW R, NEW x \in S, NEW y \in R
  PROVE  /\ <<x>> \in Seq(S) /\ Len(<<x>>) = 1
         /\ <<<<x>>>> \in Seq(Seq(S)) /\ Len(<<<<x>>>>) = 1
         /\ GleichLang(<<<<x>>>>, <<<<y>>>>)
  BY DEF GleichLang

LEMMA LeereBestellungWohlgeformt ==
  ASSUME NEW K, NEW U, NEW W
  PROVE  Wohlgeformt(LeereBestellung, K, U, W)
  BY DEF Wohlgeformt, IstBestellung, Ausgerichtet, GleichLang, LeereBestellung, Felder

LEMMA NeueKategorieWohlgeformt ==
  ASSUME NEW K, NEW U, NEW W, NEW b, Wohlgeformt(b, K, U, W),
         NEW kat \in K, NEW ukat \in U, NEW w, \A f \in Felder : w[f] \in W[f]
  PROVE  Wohlgeformt(NeueKategorie(b, kat, ukat, w), K, U, W)
<1> DEFINE c == b.Unterkategorien
           n == b.felder["ItemsNamen"]
<1>1. /\ b.Kategorien \in Seq(K) /\ c \in Seq(Seq(U)) /\ b.Expanded2 \in Seq(Seq(BOOLEAN))
      /\ Len(c) = Len(b.Kategorien) /\ GleichLang(b.Expanded2, c)
      /\ \A f \in Felder : Feld(b.felder[f], n, c, W[f])
  BY WohlgeformtFelder
<1> HIDE DEF c, n
<1>2. /\ Append(b.Kategorien, kat) \in Seq(K)
      /\ Append(c, <<ukat>>) \in Seq(Seq(U))
      /\ Len(Append(c, <<ukat>>)) = Len(Append(b.Kategorien, kat))
  BY <1>1, AppendFolge
<1>3. /\ Append(b.Expanded2, <<TRUE>>) \in Seq(Seq(BOOLEAN))
      /\ GleichLang(Append(b.Expanded2, <<TRUE>>), Append(c, <<ukat>>))
  <2>1. /\ <<TRUE>> \in Seq(BOOLEAN) /\ <<ukat>> \in Seq(U)
        /\ Len(<<TRUE>>) = Len(<<ukat>>)
    OBVIOUS
  <2>2. Append(b.Expanded2, <<TRUE>>) \in Seq(Seq(BOOLEAN))
    BY <1>1, <2>1
  <2> QED BY <1>1, <2>1, <2>2, GleichLangAppend
<1>4. ASSUME NEW f \in Felder
      PROVE  Feld(Append(b.felder[f], <<<<w[f]>>>>), Append(n, <<<<w["ItemsNamen"]>>>>),
                  Append(c, <<ukat>>), W[f])
  <2>1. /\ w[f] \in W[f] /\ w["ItemsNamen"] \in W["ItemsNamen"]
        /\ Feld(b.felder[f], n, c, W[f]) /\ Feld(n, n, c, W["ItemsNamen"])
    BY <1>1, ItemsNamenFelder DEF n
  <2>2. /\ <<<<w[f]>>>> \in Seq(Seq(W[f]))
        /\ <<<<w["ItemsNamen"]>>>> \in Seq(Seq(W["ItemsNamen"]))
        /\ GleichLang(<<<<w[f]>>>>, <<<<w["ItemsNamen"]>>>>)
    BY <2>1, EineZeile
  <2>3. <<ukat>> \in Seq(U) /\ Len(<<<<w[f]>>>>) = Len(<<ukat>>)
    OBVIOUS
  <2> QED BY <1>1, <2>1, <2>2, <2>3, FeldAppend
<1> QED BY <1>2, <1>3, <1>4, ItemsNamenFelder, WohlgeformtFelder DEF NeueKategorie, c, n

-----------------------------------------------------------------------------
(* The lists of one Kategorie: g[f][u] are the values of array f under the *)
(* u-th of the headings z.                                                 *)

Listen(g, z, W) ==
  \A f \in Felder : /\ g[f] \in Seq(Seq(W[f])) /\ Len(g[f]) = Len(z)
                    /\ GleichLang(g[f], g["ItemsNamen"])

LEMMA ListeAppend ==
  ASSUME NEW S, NEW R, NEW x \in Seq(Seq(S)), NEW y \in Seq(Seq(R)), GleichLang(x, y),
         NEW p \in S, NEW q \in R
  PROVE  /\ Append(x, <<p>>) \in Seq(Seq(S))
         /\ Len(Append(x, <<p>>)) = Len(x) + 1
         /\ GleichLang(Append(x, <<p>>), Append(y, <<q>>))
<1>1. <<p>> \in Seq(S) /\ <<q>> \in Seq(R) /\ Len(<<p>>) = Len(<<q>>)
  OBVIOUS
<1>2. Append(x, <<p>>) \in Seq(Seq(S)) /\ Len(Append(x, <<p>>)) = Len(x) + 1
  BY <1>1, AppendFolge
<1>3. GleichLang(Append(x, <<p>>), Append(y, <<q>>))
  BY <1>1, GleichLangAppend
<1> QED BY <1>2, <1>3

LEMMA ListeLesen ==
  ASSUME NEW S, NEW R, NEW x \in Seq(Seq(S)), NEW y \in Seq(Seq(R)), GleichLang(x, y),
         NEW u \in 1..Len(x)
  PROVE  x[u] \in Seq(S) /\ y[u] \in Seq(R) /\ Len(x[u]) = Len(y[u])
  BY DEF GleichLang

LEMMA ListeRemoveAt ==
  ASSUME NEW S, NEW R, NEW x \in Seq(Seq(S)), NEW y \in Seq(Seq(R)), GleichLang(x, y),
         NEW u \in 1..Len(x)
  PROVE  /\ RemoveAt(x, u) \in Seq(Seq(S))
         /\ Len(RemoveAt(x, u)) = Len(x) - 1
         /\ GleichLang(RemoveAt(x, u), RemoveAt(y, u))
<1>1. u \in 1..Len(y)
  BY DEF GleichLang
<1>2. RemoveAt(x, u) \in Seq(Seq(S)) /\ Len(RemoveAt(x, u)) = Len(x) - 1
  BY RemoveAtFolge
<1>3. GleichLang(RemoveAt(x, u), RemoveAt(y, u))
  BY <1>1, GleichLangRemoveAt
<1> QED BY <1>2, <1>3

LEMMA FolgeAppendGleich ==
  ASSUME NEW S, NEW R, NEW x \in Seq(S), NEW y \in Seq(R), Len(x) = Len(y),
         NEW p \in S, NEW q \in R
  PROVE  /\ Append(x, p) \in Seq(S) /\ Append(y, q) \in Seq(R)
         /\ Len(Append(x, p)) = Len(Append(y, q))
  BY AppendFolge

LEMMA FolgeRemoveAtGleich ==
  ASSUME NEW S, NEW R, NEW x \in Seq(S), NEW y \in Seq(R), Len(x) = Len(y),
         NEW r \in 1..Len(x)
  PROVE  /\ RemoveAt(x, r) \in Seq(S) /\ RemoveAt(y, r) \in Seq(R)
         /\ Len(RemoveAt(x, r)) = Len(RemoveAt(y, r))
  BY RemoveAtFolge

\* The lists of array f next to those of the items' names.
LEMMA ListenPaar ==
  ASSUME NEW U, NEW W, NEW g, NEW z \in Seq(U), Listen(g, z, W), NEW f \in Felder
  PROVE  /\ g[f] \in Seq(Seq(W[f]))
         /\ g["ItemsNamen"] \in Seq(Seq(W["ItemsNamen"]))
         /\ GleichLang(g[f], g["ItemsNamen"])
         /\ Len(g[f]) = Len(z) /\ Len(g["ItemsNamen"]) = Len(z)
  BY ItemsNamenFelder DEF Listen

\* Every list gets a new Unterkategorie with the value of w.
ListenMitRubrik(g, w) == [f \in Felder |-> Append(g[f], <<w[f]>>)]

LEMMA ListenAppend ==
  ASSUME NEW U, NEW W, NEW g, NEW z \in Seq(U), Listen(g, z, W), NEW x \in U,
         NEW w, \A f \in Felder : w[f] \in W[f]
  PROVE  Listen(ListenMitRubrik(g, w), Append(z, x), W)
<1> DEFINE h == ListenMitRubrik(g, w)
<1>1. SUFFICES ASSUME NEW f \in Felder
               PROVE  /\ h[f] \in Seq(Seq(W[f])) /\ Len(h[f]) = Len(Append(z, x))
                      /\ GleichLang(h[f], h["ItemsNamen"])
  BY DEF Listen
<1>2. h[f] = Append(g[f], <<w[f]>>) /\ h["ItemsNamen"] = Append(g["ItemsNamen"], <<w["ItemsNamen"]>>)
  BY ItemsNamenFelder DEF ListenMitRubrik
<1>3. w[f] \in W[f] /\ w["ItemsNamen"] \in W["ItemsNamen"]
  BY ItemsNamenFelder
<1>4. /\ g[f] \in Seq(Seq(W[f])) /\ g["ItemsNamen"] \in Seq(Seq(W["ItemsNamen"]))
      /\ GleichLang(g[f], g["ItemsNamen"]) /\ Len(g[f]) = Len(z)
  BY ListenPaar
<1> HIDE DEF h
<1>5. Len(Append(z, x)) = Len(z) + 1
  BY AppendFolge
<1>6. /\ Append(g[f], <<w[f]>>) \in Seq(Seq(W[f]))
      /\ Len(Append(g[f], <<w[f]>>)) = Len(g[f]) + 1
      /\ GleichLang(Append(g[f], <<w[f]>>), Append(g["ItemsNamen"], <<w["ItemsNamen"]>>))
  BY <1>3, <1>4, ListeAppend
<1> QED BY <1>2, <1>4, <1>5, <1>6, Zenon

\* Every list gets the value of w at the end of its u-th Unterkategorie.
ListenMitZeile(g, u, w) == [f \in Felder |-> [g[f] EXCEPT ![u] = Append(g[f][u], w[f])]]

LEMMA ListenZeileAppend ==
  ASSUME NEW U, NEW W, NEW g, NEW z \in Seq(U), Listen(g, z, W), NEW u \in 1..Len(z),
         NEW w, \A f \in Felder : w[f] \in W[f]
  PROVE  Listen(ListenMitZeile(g, u, w), z, W)
<1> DEFINE h == ListenMitZeile(g, u, w)
<1>1. SUFFICES ASSUME NEW f \in Felder
               PROVE  /\ h[f] \in Seq(Seq(W[f])) /\ Len(h[f]) = Len(z)
                      /\ GleichLang(h[f], h["ItemsNamen"])
  BY DEF Listen
<1> DEFINE x == g[f]  y == g["ItemsNamen"]  xu == x[u]  yu == y[u]
           S == W[f]  R == W["ItemsNamen"]  v == w[f]  t == w["ItemsNamen"]
           p == Append(xu, v)  q == Append(yu, t)
<1>2. h[f] = [x EXCEPT ![u] = p] /\ h["ItemsNamen"] = [y EXCEPT ![u] = q]
  BY ItemsNamenFelder DEF ListenMitZeile
<1>3. v \in S /\ t \in R
  BY ItemsNamenFelder
<1>4. x \in Seq(Seq(S)) /\ y \in Seq(Seq(R)) /\ GleichLang(x, y) /\ Len(x) = Len(z)
  BY ListenPaar
<1>5. u \in 1..Len(x)
  BY <1>4
<1> HIDE DEF h, x, y, S, R, v, t
<1>6. xu \in Seq(S) /\ yu \in Seq(R) /\ Len(xu) = Len(yu)
  BY <1>4, <1>5, ListeLesen
<1> HIDE DEF xu, yu
<1>7. p \in Seq(S) /\ q \in Seq(R) /\ Len(p) = Len(q)
  BY <1>3, <1>6, FolgeAppendGleich
<1> HIDE DEF p, q
<1>8. [x EXCEPT ![u] = p] \in Seq(Seq(S)) /\ Len([x EXCEPT ![u] = p]) = Len(x)
  BY <1>4, <1>5, <1>7, ExceptFolge
<1>9. u \in 1..Len(y)
  BY <1>4, <1>5 DEF GleichLang
<1>10. GleichLang([x EXCEPT ![u] = p], [y EXCEPT ![u] = q])
  BY <1>4, <1>7, <1>9, GleichLangExcept
<1> QED BY <1>2, <1>4, <1>8, <1>10, Zenon DEF S

LEMMA ListenZeileRemoveAt ==
  ASSUME NEW U, NEW W, NEW s, NEW z \in Seq(U), Listen(s.felder, z, W),
         NEW u \in 1..Len(z), NEW r \in 1..Len(s.felder["ItemsNamen"][u])
  PROVE  Listen(ZeilenOhne(s, u, r), z, W)
<1> DEFINE g == s.felder
           h == ZeilenOhne(s, u, r)
<1>1. SUFFICES ASSUME NEW f \in Felder
               PROVE  /\ h[f] \in Seq(Seq(W[f])) /\ Len(h[f]) = Len(z)
                      /\ GleichLang(h[f], h["ItemsNamen"])
  BY DEF Listen
<1> DEFINE x == g[f]  y == g["ItemsNamen"]  xu == x[u]  yu == y[u]
           S == W[f]  R == W["ItemsNamen"]
           p == RemoveAt(xu, r)  q == RemoveAt(yu, r)
<1>2. h[f] = [x EXCEPT ![u] = p] /\ h["ItemsNamen"] = [y EXCEPT ![u] = q]
  BY ItemsNamenFelder DEF ZeilenOhne
<1>3. r \in 1..Len(yu)
  OBVIOUS
<1>4. x \in Seq(Seq(S)) /\ y \in Seq(Seq(R)) /\ GleichLang(x, y) /\ Len(x) = Len(z)
  BY ListenPaar
<1>5. u \in 1..Len(x)
  BY <1>4
<1> HIDE DEF h, x, y, S, R
<1>6. xu \in Seq(S) /\ yu \in Seq(R) /\ Len(xu) = Len(yu)
  BY <1>4, <1>5, ListeLesen
<1> HIDE DEF xu, yu
<1>7. p \in Seq(S) /\ q \in Seq(R) /\ Len(p) = Len(q)
  BY <1>3, <1>6, FolgeRemoveAtGleich
<1> HIDE DEF p, q
<1>8. [x EXCEPT ![u] = p] \in Seq(Seq(S)) /\ Len([x EXCEPT ![u] = p]) = Len(x)
  BY <1>4, <1>5, <1>7, ExceptFolge
<1>9. u \in 1..Len(y)
  BY <1>4, <1>5 DEF GleichLang
<1>10. GleichLang([x EXCEPT ![u] = p], [y EXCEPT ![u] = q])
  BY <1>4, <1>7, <1>9, GleichLangExcept
<1> QED BY <1>2, <1>4, <1>8, <1>10, Zenon DEF S

\* Every list loses its u-th Unterkategorie.
ListenOhneRubrik(g, u) == [f \in Felder |-> RemoveAt(g[f], u)]

LEMMA ListenRemoveAt ==
  ASSUME NEW U, NEW W, NEW g, NEW z \in Seq(U), Listen(g, z, W), NEW u \in 1..Len(z)
  PROVE  Listen(ListenOhneRubrik(g, u), RemoveAt(z, u), W)
<1> DEFINE h == ListenOhneRubrik(g, u)
<1>1. SUFFICES ASSUME NEW f \in Felder
               PROVE  /\ h[f] \in Seq(Seq(W[f])) /\ Len(h[f]) = Len(RemoveAt(z, u))
                      /\ GleichLang(h[f], h["ItemsNamen"])
  BY DEF Listen
<1>2. h[f] = RemoveAt(g[f], u) /\ h["ItemsNamen"] = RemoveAt(g["ItemsNamen"], u)
  BY ItemsNamenFelder DEF ListenOhneRubrik
<1>3. /\ g[f] \in Seq(Seq(W[f])) /\ g["ItemsNamen"] \in Seq(Seq(W["ItemsNamen"]))
      /\ GleichLang(g[f], g["ItemsNamen"]) /\ Len(g[f]) = Len(z)
  BY ListenPaar
<1>4. Len(RemoveAt(z, u)) = Len(z) - 1
  BY RemoveAtFolge
<1> HIDE DEF h
<1>5. u \in 1..Len(g[f])
  BY <1>3
<1>6. /\ RemoveAt(g[f], u) \in Seq(Seq(W[f]))
      /\ Len(RemoveAt(g[f], u)) = Len(g[f]) - 1
      /\ GleichLang(RemoveAt(g[f], u), RemoveAt(g["ItemsNamen"], u))
  BY <1>3, <1>5, ListeRemoveAt
<1> QED BY <1>2, <1>3, <1>4, <1>6, Zenon

LEMMA FolgeExceptGleich ==
  ASSUME NEW S, NEW x \in Seq(S), NEW r \in 1..Len(x), NEW v \in S
  PROVE  [x EXCEPT ![r] = v] \in Seq(S) /\ Len([x EXCEPT ![r] = v]) = Len(x)
  BY ExceptFolge

LEMMA ListeWert ==
  ASSUME NEW S, NEW x \in Seq(Seq(S)), NEW u \in 1..Len(x), NEW p \in Seq(S),
         Len(p) = Len(x[u])
  PROVE  /\ [x EXCEPT ![u] = p] \in Seq(Seq(S)) /\ Len([x EXCEPT ![u] = p]) = Len(x)
         /\ GleichLang([x EXCEPT ![u] = p], x)
  BY ExceptFolge DEF GleichLang

LEMMA GleichLangTransitiv ==
  ASSUME NEW x, NEW y, NEW z, GleichLang(x, y), GleichLang(y, z)
  PROVE  GleichLang(x, z)
  BY DEF GleichLang

\* g has a value for each of the seven arrays and nothing else.
IstFeld(g) == g = [f \in Felder |-> g[f]]

\* One value of an array other than the items' names is overwritten.
WertMit(g, f0, u, r, v) ==
  [g EXCEPT ![f0] = [g[f0] EXCEPT ![u] = [g[f0][u] EXCEPT ![r] = v]]]

LEMMA ListenWert ==
  ASSUME NEW U, NEW W, NEW g, IstFeld(g),
         NEW z \in Seq(U), Listen(g, z, W),
         NEW f0 \in Felder, f0 # "ItemsNamen", NEW u \in 1..Len(z),
         NEW r \in 1..Len(g["ItemsNamen"][u]), NEW v \in W[f0]
  PROVE  Listen(WertMit(g, f0, u, r, v), z, W)
<1> DEFINE x == g[f0]  y == g["ItemsNamen"]  xu == x[u]  yu == y[u]
           S == W[f0]  R == W["ItemsNamen"]
           p == [xu EXCEPT ![r] = v]
           xx == [x EXCEPT ![u] = p]
           h == [g EXCEPT ![f0] = xx]
<1>1. x \in Seq(Seq(S)) /\ y \in Seq(Seq(R)) /\ GleichLang(x, y) /\ Len(x) = Len(z)
  BY ListenPaar
<1>2. u \in 1..Len(x) /\ r \in 1..Len(yu) /\ v \in S
  BY <1>1
<1>3. h[f0] = xx /\ \A f \in Felder : f # f0 => h[f] = g[f]
  BY DEF IstFeld
<1>4. h["ItemsNamen"] = y
  BY <1>3, ItemsNamenFelder
<1> HIDE DEF x, y, S, R, h
<1>5. xu \in Seq(S) /\ yu \in Seq(R) /\ Len(xu) = Len(yu)
  BY <1>1, <1>2, ListeLesen
<1>6. Len(xu) = Len(x[u])
  OBVIOUS
<1> HIDE DEF xu, yu
<1>7. p \in Seq(S) /\ Len(p) = Len(xu)
  BY <1>2, <1>5, FolgeExceptGleich
<1> HIDE DEF p
<1>8. xx \in Seq(Seq(S)) /\ Len(xx) = Len(x) /\ GleichLang(xx, x)
  BY <1>1, <1>2, <1>6, <1>7, ListeWert
<1>9. GleichLang(xx, y)
  BY <1>1, <1>8, GleichLangTransitiv
<1> HIDE DEF xx
<1>10. ASSUME NEW f \in Felder
       PROVE  /\ h[f] \in Seq(Seq(W[f])) /\ Len(h[f]) = Len(z)
              /\ GleichLang(h[f], h["ItemsNamen"])
  <2>1. CASE f = f0
    BY <2>1, <1>1, <1>3, <1>4, <1>8, <1>9, Zenon DEF S
  <2>2. CASE f # f0
    <3>1. h[f] = g[f] /\ h["ItemsNamen"] = g["ItemsNamen"]
      BY <2>2, <1>3, <1>4 DEF y
    <3>2. /\ g[f] \in Seq(Seq(W[f])) /\ Len(g[f]) = Len(z)
          /\ GleichLang(g[f], g["ItemsNamen"])
      BY ListenPaar
    <3> QED BY <3>1, <3>2, Zenon
  <2> QED BY <2>1, <2>2
<1>11. Listen(h, z, W)
  BY <1>10, Zenon DEF Listen
<1> QED BY <1>11 DEF WertMit, h, xx, p, xu, x

ListenVon(b, k) == [f \in Felder |-> b.felder[f][k]]

\* What Wohlgeformt says of the k-th Kategorie: its headings and flags, ...
LEMMA KategorieLesen ==
  ASSUME NEW K, NEW U, NEW W, NEW b, Wohlgeformt(b, K, U, W),
         NEW k \in 1..Len(b.Kategorien)
  PROVE  /\ k \in 1..Len(b.Unterkategorien) /\ k \in 1..Len(b.Expanded2)
         /\ b.Unterkategorien[k] \in Seq(U) /\ b.Expanded2[k] \in Seq(BOOLEAN)
         /\ Len(b.Expanded2[k]) = Len(b.Unterkategorien[k])
<1> DEFINE c == b.Unterkategorien  e == b.Expanded2
<1>1. /\ c \in Seq(Seq(U)) /\ Len(c) = Len(b.Kategorien)
      /\ e \in Seq(Seq(BOOLEAN)) /\ GleichLang(e, c)
  BY WohlgeformtFelder
<1> HIDE DEF c, e
<1>2. /\ k \in 1..Len(c) /\ k \in 1..Len(e)
      /\ c[k] \in Seq(U) /\ e[k] \in Seq(BOOLEAN) /\ Len(e[k]) = Len(c[k])
  BY <1>1 DEF GleichLang
<1> QED BY <1>2 DEF c, e

\* ... and its seven lists.
LEMMA ListenLesen ==
  ASSUME NEW K, NEW U, NEW W, NEW b, Wohlgeformt(b, K, U, W),
         NEW k \in 1..Len(b.Kategorien)
  PROVE  Listen(ListenVon(b, k), b.Unterkategorien[k], W)
<1> DEFINE c == b.Unterkategorien
           g == ListenVon(b, k)
<1>1. /\ c \in Seq(Seq(U))
      /\ \A f \in Felder : Feld(b.felder[f], b.felder["ItemsNamen"], c, W[f])
  BY WohlgeformtFelder
<1>2. k \in 1..Len(c)
  BY KategorieLesen
<1> HIDE DEF c
<1>3. ASSUME NEW f \in Felder
      PROVE  /\ g[f] \in Seq(Seq(W[f])) /\ Len(g[f]) = Len(c[k])
             /\ GleichLang(g[f], g["ItemsNamen"])
  <2>1. b.felder[f] \in Seq(Seq(Seq(W[f])))
    BY <1>1 DEF Feld
  <2>2. k \in 1..Len(b.felder[f]) /\ Len(b.felder[f][k]) = Len(c[k])
    BY <1>1, <1>2 DEF Feld, GleichLang
  <2>3. b.felder[f][k] \in Seq(Seq(W[f]))
    BY <2>1, <2>2
  <2>4. GleichLang(b.felder[f][k], b.felder["ItemsNamen"][k])
    BY <1>1, <1>2 DEF Feld
  <2> QED BY <2>2, <2>3, <2>4, ItemsNamenFelder DEF ListenVon
<1>4. Listen(g, c[k], W)
  BY <1>3 DEF Listen
<1> QED BY <1>4 DEF c

-----------------------------------------------------------------------------
(* One Kategorie is replaced.                                              *)

\* The k-th Kategorie gets new headings z, flags e and lists g.
KategorieMit(b, k, z, e, g) ==
  [Kategorien      |-> b.Kategorien,
   Unterkategorien |-> [b.Unterkategorien EXCEPT ![k] = z],
   Expanded2       |-> [b.Expanded2 EXCEPT ![k] = e],
   felder          |-> [f \in Felder |-> [b.felder[f] EXCEPT ![k] = g[f]]]]

\* Only the lists change: a section is written back.
ListenMit(b, k, g) ==
  [b EXCEPT !.felder = [f \in Felder |-> [b.felder[f] EXCEPT ![k] = g[f]]]]

LEMMA KategorieErsetzen ==
  ASSUME NEW K, NEW U, NEW W, NEW b, Wohlgeformt(b, K, U, W),
         NEW k \in 1..Len(b.Kategorien),
         NEW z \in Seq(U), NEW e \in Seq(BOOLEAN), Len(e) = Len(z), NEW g, Listen(g, z, W)
  PROVE  Wohlgeformt(KategorieMit(b, k, z, e, g), K, U, W)
<1> DEFINE c == b.Unterkategorien
           n == b.felder["ItemsNamen"]
<1>1. /\ b.Kategorien \in Seq(K) /\ c \in Seq(Seq(U)) /\ b.Expanded2 \in Seq(Seq(BOOLEAN))
      /\ Len(c) = Len(b.Kategorien) /\ GleichLang(b.Expanded2, c)
      /\ \A f \in Felder : Feld(b.felder[f], n, c, W[f])
  BY WohlgeformtFelder
<1>2. k \in 1..Len(c) /\ k \in 1..Len(b.Expanded2)
  BY KategorieLesen
<1> HIDE DEF c, n
<1>3. [c EXCEPT ![k] = z] \in Seq(Seq(U)) /\ Len([c EXCEPT ![k] = z]) = Len(c)
  BY <1>1, <1>2, ExceptFolge
<1>4. /\ [b.Expanded2 EXCEPT ![k] = e] \in Seq(Seq(BOOLEAN))
      /\ GleichLang([b.Expanded2 EXCEPT ![k] = e], [c EXCEPT ![k] = z])
  <2>1. [b.Expanded2 EXCEPT ![k] = e] \in Seq(Seq(BOOLEAN))
    BY <1>1, <1>2, ExceptFolge
  <2> QED BY <1>1, <1>2, <2>1, GleichLangExcept
<1>5. ASSUME NEW f \in Felder
      PROVE  Feld([b.felder[f] EXCEPT ![k] = g[f]], [n EXCEPT ![k] = g["ItemsNamen"]],
                  [c EXCEPT ![k] = z], W[f])
  <2>1. Feld(b.felder[f], n, c, W[f]) /\ Feld(n, n, c, W["ItemsNamen"])
    BY <1>1, ItemsNamenFelder DEF n
  <2>2. /\ g[f] \in Seq(Seq(W[f])) /\ g["ItemsNamen"] \in Seq(Seq(W["ItemsNamen"]))
        /\ GleichLang(g[f], g["ItemsNamen"]) /\ Len(g[f]) = Len(z)
    BY ListenPaar
  <2> QED BY <1>1, <1>2, <2>1, <2>2, FeldExcept
<1> QED BY <1>1, <1>3, <1>4, <1>5, ItemsNamenFelder, WohlgeformtFelder
         DEF KategorieMit, c, n

LEMMA ListenMitIstKategorieMit ==
  ASSUME NEW K, NEW U, NEW W, NEW b, Wohlgeformt(b, K, U, W),
         NEW k \in 1..Len(b.Kategorien), NEW g
  PROVE  ListenMit(b, k, g) = KategorieMit(b, k, b.Unterkategorien[k], b.Expanded2[k], g)
<1> DEFINE F == [f \in Felder |-> [b.felder[f] EXCEPT ![k] = g[f]]]
<1>1. b.Unterkategorien \in Seq(Seq(U)) /\ b.Expanded2 \in Seq(Seq(BOOLEAN))
  BY WohlgeformtFelder
<1>2. k \in 1..Len(b.Unterkategorien) /\ k \in 1..Len(b.Expanded2)
  BY KategorieLesen
<1>3. [b.Unterkategorien EXCEPT ![k] = b.Unterkategorien[k]] = b.Unterkategorien
  BY <1>1, <1>2, ExceptSelbst
<1>4. [b.Expanded2 EXCEPT ![k] = b.Expanded2[k]] = b.Expanded2
  BY <1>1, <1>2, ExceptSelbst
<1>5. b = [Kategorien |-> b.Kategorien, Unterkategorien |-> b.Unterkategorien,
           Expanded2 |-> b.Expanded2, felder |-> b.felder]
  BY WohlgeformtFelder
<1> HIDE DEF F
<1>6. [b EXCEPT !.felder = F]
        = [Kategorien |-> b.Kategorien, Unterkategorien |-> b.Unterkategorien,
           Expanded2 |-> b.Expanded2, felder |-> F]
  BY <1>5, FelderErsetzen
<1> QED BY <1>3, <1>4, <1>6 DEF F, KategorieMit, ListenMit

\* Overwriting the k-th entry of one array only.
FeldMit(b, f0, k, v) == [b EXCEPT !.felder[f0][k] = v]

ListeMit(g, f0, v) == [g EXCEPT ![f0] = v]

LEMMA FeldErsetzen ==
  ASSUME NEW K, NEW U, NEW W, NEW b, Wohlgeformt(b, K, U, W),
         NEW k \in 1..Len(b.Kategorien), NEW f0 \in Felder, NEW v
  PROVE  FeldMit(b, f0, k, v) = ListenMit(b, k, ListeMit(ListenVon(b, k), f0, v))
<1> DEFINE g == [ListenVon(b, k) EXCEPT ![f0] = v]
           F == [f \in Felder |-> [b.felder[f] EXCEPT ![k] = g[f]]]
           E == [b.felder EXCEPT ![f0] = [b.felder[f0] EXCEPT ![k] = v]]
<1>1. /\ b = [Kategorien |-> b.Kategorien, Unterkategorien |-> b.Unterkategorien,
              Expanded2 |-> b.Expanded2, felder |-> b.felder]
      /\ b.felder = [f \in Felder |-> b.felder[f]]
  BY WohlgeformtFelder
<1>2. ASSUME NEW f \in Felder
      PROVE  [b.felder[f] EXCEPT ![k] = b.felder[f][k]] = b.felder[f]
  <2> DEFINE x == b.felder[f]  T == Seq(Seq(W[f]))
  <2>1. Feld(x, b.felder["ItemsNamen"], b.Unterkategorien, W[f])
        /\ Len(b.Unterkategorien) = Len(b.Kategorien)
    BY WohlgeformtFelder
  <2>2. x \in Seq(T) /\ k \in 1..Len(x)
    BY <2>1 DEF Feld, GleichLang
  <2> HIDE DEF x, T
  <2>3. [x EXCEPT ![k] = x[k]] = x
    BY <2>2, ExceptSelbst
  <2> QED BY <2>3 DEF x
<1>3. /\ g[f0] = v
      /\ \A f \in Felder : f # f0 => g[f] = b.felder[f][k]
  BY DEF ListenVon
<1> HIDE DEF g
<1>4. E = [f \in Felder |-> IF f = f0 THEN [b.felder[f] EXCEPT ![k] = v] ELSE b.felder[f]]
  BY <1>1
<1>5. \A f \in Felder : [b.felder[f] EXCEPT ![k] = g[f]]
                         = IF f = f0 THEN [b.felder[f] EXCEPT ![k] = v] ELSE b.felder[f]
  BY <1>2, <1>3
<1>6. E = F
  BY <1>4, <1>5
<1>7. [b EXCEPT !.felder[f0][k] = v] = [b EXCEPT !.felder = E]
  BY <1>1
<1> QED BY <1>6, <1>7 DEF FeldMit, ListenMit, ListeMit, g

LEMMA ListenErsetzen ==
  ASSUME NEW K, NEW U, NEW W, NEW b, Wohlgeformt(b, K, U, W),
         NEW k \in 1..Len(b.Kategorien), NEW g, Listen(g, b.Unterkategorien[k], W)
  PROVE  Wohlgeformt(ListenMit(b, k, g), K, U, W)
<1>1. /\ b.Unterkategorien[k] \in Seq(U) /\ b.Expanded2[k] \in Seq(BOOLEAN)
      /\ Len(b.Expanded2[k]) = Len(b.Unterkategorien[k])
  BY KategorieLesen
<1>2. ListenMit(b, k, g) = KategorieMit(b, k, b.Unterkategorien[k], b.Expanded2[k], g)
  BY ListenMitIstKategorieMit
<1> QED BY <1>1, <1>2, KategorieErsetzen

-----------------------------------------------------------------------------
(* The operations on the ten arrays.                                       *)

LEMMA NeueUnterkategorieWohlgeformt ==
  ASSUME NEW K, NEW U, NEW W, NEW b, Wohlgeformt(b, K, U, W),
         NEW k \in 1..Len(b.Kategorien), NEW ukat \in U,
         NEW w, \A f \in Felder : w[f] \in W[f]
  PROVE  Wohlgeformt(NeueUnterkategorie(b, k, ukat, w), K, U, W)
<1> DEFINE g == ListenVon(b, k)
           h == ListenMitRubrik(g, w)
           z == Append(b.Unterkategorien[k], ukat)
           e == Append(b.Expanded2[k], TRUE)
<1>1. /\ b.Unterkategorien[k] \in Seq(U) /\ b.Expanded2[k] \in Seq(BOOLEAN)
      /\ Len(b.Expanded2[k]) = Len(b.Unterkategorien[k])
  BY KategorieLesen
<1>2. Listen(g, b.Unterkategorien[k], W)
  BY ListenLesen
<1>3. NeueUnterkategorie(b, k, ukat, w) = KategorieMit(b, k, z, e, h)
  BY DEF NeueUnterkategorie, KategorieMit, ListenVon, ListenMitRubrik
<1> HIDE DEF g
<1>4. Listen(h, z, W)
  BY <1>1, <1>2, ListenAppend
<1>5. z \in Seq(U) /\ e \in Seq(BOOLEAN) /\ Len(z) = Len(e)
  <2> DEFINE c == b.Unterkategorien[k]  x == b.Expanded2[k]
  <2>1. c \in Seq(U) /\ x \in Seq(BOOLEAN) /\ Len(x) = Len(c) /\ TRUE \in BOOLEAN
    BY <1>1
  <2> HIDE DEF c, x
  <2>2. /\ Append(c, ukat) \in Seq(U) /\ Append(x, TRUE) \in Seq(BOOLEAN)
        /\ Len(Append(c, ukat)) = Len(Append(x, TRUE))
    BY <2>1, FolgeAppendGleich
  <2> QED BY <2>2 DEF c, x
<1> HIDE DEF h, z, e
<1> QED BY <1>3, <1>4, <1>5, KategorieErsetzen

LEMMA NeueZeileWohlgeformt ==
  ASSUME NEW K, NEW U, NEW W, NEW b, Wohlgeformt(b, K, U, W),
         NEW k \in 1..Len(b.Kategorien), NEW u \in 1..Len(b.Unterkategorien[k]),
         NEW w, \A f \in Felder : w[f] \in W[f]
  PROVE  Wohlgeformt(NeueZeile(b, k, u, w), K, U, W)
<1> DEFINE g == ListenVon(b, k)
           h == ListenMitZeile(g, u, w)
<1>1. b.Unterkategorien[k] \in Seq(U) /\ Listen(g, b.Unterkategorien[k], W)
  BY KategorieLesen, ListenLesen
<1>2. NeueZeile(b, k, u, w) = ListenMit(b, k, h)
  BY DEF NeueZeile, ListenMit, ListenVon, ListenMitZeile
<1> HIDE DEF g
<1>3. Listen(h, b.Unterkategorien[k], W)
  BY <1>1, ListenZeileAppend
<1> HIDE DEF h
<1> QED BY <1>2, <1>3, ListenErsetzen

\* Adding a line, wherever it goes, keeps the arrays aligned.
LEMMA MitZeileWohlgeformt ==
  ASSUME NEW K, NEW U, NEW W, NEW b, Wohlgeformt(b, K, U, W),
         NEW kat \in K, NEW ukat \in U, NEW w, \A f \in Felder : w[f] \in W[f]
  PROVE  Wohlgeformt(MitZeile(b, kat, ukat, w), K, U, W)
<1> DEFINE k == firstIndex(b.Kategorien, kat)
           u == firstIndex(b.Unterkategorien[k], ukat)
<1>1. CASE ~Contains(b.Kategorien, kat)
  BY <1>1, NeueKategorieWohlgeformt DEF MitZeile
<1>2. CASE Contains(b.Kategorien, kat)
  <2>1. k \in 1..Len(b.Kategorien)
    <3>1. b.Kategorien \in Seq(K)
      BY WohlgeformtFelder
    <3> QED BY <1>2, <3>1, FirstIndex
  <2>2. CASE ~Contains(b.Unterkategorien[k], ukat)
    <3>1. MitZeile(b, kat, ukat, w) = NeueUnterkategorie(b, k, ukat, w)
      BY <1>2, <2>2 DEF MitZeile
    <3> HIDE DEF k
    <3> QED BY <2>1, <3>1, NeueUnterkategorieWohlgeformt
  <2>3. CASE Contains(b.Unterkategorien[k], ukat)
    <3>1. MitZeile(b, kat, ukat, w) = NeueZeile(b, k, u, w)
      BY <1>2, <2>3 DEF MitZeile
    <3> HIDE DEF k
    <3>2. b.Unterkategorien[k] \in Seq(U)
      BY <2>1, KategorieLesen
    <3>3. u \in 1..Len(b.Unterkategorien[k])
      BY <2>3, <3>2, FirstIndex
    <3> HIDE DEF u
    <3> QED BY <2>1, <3>1, <3>3, NeueZeileWohlgeformt
  <2> QED BY <2>2, <2>3
<1> QED BY <1>1, <1>2

LEMMA OhneUnterkategorieWohlgeformt ==
  ASSUME NEW K, NEW U, NEW W, NEW b, Wohlgeformt(b, K, U, W),
         NEW k \in 1..Len(b.Kategorien), NEW u \in 1..Len(b.Unterkategorien[k])
  PROVE  Wohlgeformt(OhneUnterkategorie(b, k, u), K, U, W)
<1> DEFINE g == ListenVon(b, k)
           h == ListenOhneRubrik(g, u)
           z == RemoveAt(b.Unterkategorien[k], u)
           e == RemoveAt(b.Expanded2[k], u)
<1>1. /\ b.Unterkategorien[k] \in Seq(U) /\ b.Expanded2[k] \in Seq(BOOLEAN)
      /\ Len(b.Expanded2[k]) = Len(b.Unterkategorien[k])
  BY KategorieLesen
<1>2. Listen(g, b.Unterkategorien[k], W)
  BY ListenLesen
<1>3. OhneUnterkategorie(b, k, u) = KategorieMit(b, k, z, e, h)
  BY DEF OhneUnterkategorie, KategorieMit, ListenVon, ListenOhneRubrik
<1> HIDE DEF g
<1>4. Listen(h, z, W)
  BY <1>1, <1>2, ListenRemoveAt
<1>5. z \in Seq(U) /\ e \in Seq(BOOLEAN) /\ Len(z) = Len(e)
  BY <1>1, FolgeRemoveAtGleich
<1> HIDE DEF h, z, e
<1> QED BY <1>3, <1>4, <1>5, KategorieErsetzen

LEMMA OhneKategorieWohlgeformt ==
  ASSUME NEW K, NEW U, NEW W, NEW b, Wohlgeformt(b, K, U, W),
         NEW k \in 1..Len(b.Kategorien)
  PROVE  Wohlgeformt(OhneKategorie(b, k), K, U, W)
<1> DEFINE c == b.Unterkategorien
           n == b.felder["ItemsNamen"]
<1>1. /\ b.Kategorien \in Seq(K) /\ c \in Seq(Seq(U)) /\ b.Expanded2 \in Seq(Seq(BOOLEAN))
      /\ Len(c) = Len(b.Kategorien) /\ GleichLang(b.Expanded2, c)
      /\ \A f \in Felder : Feld(b.felder[f], n, c, W[f])
  BY WohlgeformtFelder
<1>2. k \in 1..Len(c) /\ k \in 1..Len(b.Expanded2)
  BY KategorieLesen
<1> HIDE DEF c, n
<1>3. RemoveAt(b.Kategorien, k) \in Seq(K) /\ Len(RemoveAt(b.Kategorien, k)) = Len(c) - 1
  BY <1>1, RemoveAtFolge
<1>4. RemoveAt(c, k) \in Seq(Seq(U)) /\ Len(RemoveAt(c, k)) = Len(c) - 1
  BY <1>1, <1>2, RemoveAtFolge
<1>5. RemoveAt(b.Expanded2, k) \in Seq(Seq(BOOLEAN))
  BY <1>1, <1>2, RemoveAtFolge
<1>6. GleichLang(RemoveAt(b.Expanded2, k), RemoveAt(c, k))
  BY <1>1, <1>2, GleichLangRemoveAt
<1>7. ASSUME NEW f \in Felder
      PROVE  Feld(RemoveAt(b.felder[f], k), RemoveAt(n, k), RemoveAt(c, k), W[f])
  <2>1. Feld(b.felder[f], n, c, W[f]) /\ Feld(n, n, c, W["ItemsNamen"])
    BY <1>1, ItemsNamenFelder DEF n
  <2> QED BY <1>1, <1>2, <2>1, FeldRemoveAt
<1> QED BY <1>3, <1>4, <1>5, <1>6, <1>7, ItemsNamenFelder, WohlgeformtFelder
         DEF OhneKategorie, c, n

-----------------------------------------------------------------------------
(* The sections of the dictionary next to the arrays.                      *)

\* s is the section that belongs to the k-th Kategorie of b: all but the
\* comments are equal, and the comments have the same shape.
Eintrag(s, b, k, W) ==
  /\ s.Kategorie = b.Kategorien[k]
  /\ s.Unterkategorie = b.Unterkategorien[k]
  /\ s.expanded2 = b.Expanded2[k]
  /\ \A f \in OhneKommentar : s.felder[f] = b.felder[f][k]
  /\ Listen(s.felder, b.Unterkategorien[k], W)

\* Lists that agree but for the comments.
GleichBisKommentar(h, g) == \A f \in OhneKommentar : h[f] = g[f]

Spiegel(d, b, K, U, W) ==
  /\ IstDictionary(d, K, U, W)
  /\ Len(d) = Len(b.Kategorien)
  /\ \A k \in 1..Len(d) : Eintrag(d[k], b, k, W)

LEMMA FolgeIhrerWerte ==
  ASSUME NEW S, NEW s \in Seq(S)
  PROVE  s \in Seq(ToSet(s)) /\ Len(s) \in Nat /\ \A k \in 1..Len(s) : s[k] \in ToSet(s)
  BY DEF ToSet

\* IstDictionary for a sequence over any set.
LEMMA DictionaryAus ==
  ASSUME NEW S, NEW d \in Seq(S), NEW K, NEW U, NEW W,
         \A k \in 1..Len(d) : IstSection(d[k], K, U, W)
  PROVE  IstDictionary(d, K, U, W)
  BY FolgeIhrerWerte DEF IstDictionary

\* What KategorieMit leaves of the other Kategorien.
LEMMA KategorieMitLesen ==
  ASSUME NEW K, NEW U, NEW W, NEW b, Wohlgeformt(b, K, U, W),
         NEW k \in 1..Len(b.Kategorien),
         NEW z \in Seq(U), NEW e \in Seq(BOOLEAN), NEW g, Listen(g, z, W)
  PROVE  LET bb == KategorieMit(b, k, z, e, g) IN
         /\ bb.Kategorien = b.Kategorien
         /\ bb.Unterkategorien[k] = z /\ bb.Expanded2[k] = e
         /\ \A f \in Felder : bb.felder[f][k] = g[f]
         /\ \A j \in 1..Len(b.Kategorien) : j # k =>
              /\ bb.Unterkategorien[j] = b.Unterkategorien[j]
              /\ bb.Expanded2[j] = b.Expanded2[j]
              /\ \A f \in Felder : bb.felder[f][j] = b.felder[f][j]
<1> DEFINE bb == KategorieMit(b, k, z, e, g)
<1>1. /\ b.Unterkategorien \in Seq(Seq(U)) /\ b.Expanded2 \in Seq(Seq(BOOLEAN))
      /\ Len(b.Unterkategorien) = Len(b.Kategorien)
      /\ GleichLang(b.Expanded2, b.Unterkategorien)
      /\ \A f \in Felder : Feld(b.felder[f], b.felder["ItemsNamen"], b.Unterkategorien, W[f])
  BY WohlgeformtFelder
<1>2. /\ bb.Kategorien = b.Kategorien
      /\ bb.Unterkategorien = [b.Unterkategorien EXCEPT ![k] = z]
      /\ bb.Expanded2 = [b.Expanded2 EXCEPT ![k] = e]
      /\ \A f \in Felder : bb.felder[f] = [b.felder[f] EXCEPT ![k] = g[f]]
  BY DEF KategorieMit
<1> HIDE DEF bb
<1>3. /\ bb.Unterkategorien[k] = z
      /\ \A j \in 1..Len(b.Kategorien) : j # k => bb.Unterkategorien[j] = b.Unterkategorien[j]
  BY <1>1, <1>2, ExceptFolge
<1>4. /\ bb.Expanded2[k] = e
      /\ \A j \in 1..Len(b.Kategorien) : j # k => bb.Expanded2[j] = b.Expanded2[j]
  <2>1. Len(b.Expanded2) = Len(b.Kategorien)
    BY <1>1 DEF GleichLang
  <2> QED BY <1>1, <1>2, <2>1, ExceptFolge
<1>5. ASSUME NEW f \in Felder
      PROVE  /\ bb.felder[f][k] = g[f]
             /\ \A j \in 1..Len(b.Kategorien) : j # k => bb.felder[f][j] = b.felder[f][j]
  <2> DEFINE x == b.felder[f]  y == g[f]  T == Seq(Seq(W[f]))
  <2>1. x \in Seq(T) /\ Len(x) = Len(b.Kategorien)
    BY <1>1 DEF Feld, GleichLang
  <2>2. y \in T
    BY DEF Listen
  <2>3. bb.felder[f] = [x EXCEPT ![k] = y]
    BY <1>2
  <2> HIDE DEF x, y, T
  <2>4. /\ [x EXCEPT ![k] = y][k] = y
        /\ \A j \in 1..Len(x) : j # k => [x EXCEPT ![k] = y][j] = x[j]
    BY <2>1, <2>2, ExceptFolge
  <2> QED BY <2>1, <2>3, <2>4 DEF x, y
<1> QED BY <1>2, <1>3, <1>4, <1>5 DEF bb

LEMMA DictionaryLesen ==
  ASSUME NEW K, NEW U, NEW W, NEW d, NEW b, Spiegel(d, b, K, U, W)
  PROVE  /\ d \in Seq(ToSet(d)) /\ Len(d) = Len(b.Kategorien)
         /\ \A k \in 1..Len(d) : IstSection(d[k], K, U, W) /\ Eintrag(d[k], b, k, W)
  BY DEF Spiegel, IstDictionary

\* The k-th Kategorie changes in both: z, e and g in the arrays, z, e and h,
\* which may differ from g in the comments, in the dictionary.
LEMMA SpiegelKategorieMit ==
  ASSUME NEW K, NEW U, NEW W, NEW b, Wohlgeformt(b, K, U, W),
         NEW d, Spiegel(d, b, K, U, W), NEW k \in 1..Len(d),
         NEW z \in Seq(U), NEW e \in Seq(BOOLEAN), NEW g, Listen(g, z, W),
         NEW h, IstFeld(h), Listen(h, z, W), GleichBisKommentar(h, g),
         NEW s, s = [Kategorie |-> d[k].Kategorie, Unterkategorie |-> z,
                     expanded2 |-> e, felder |-> h]
  PROVE  Spiegel([d EXCEPT ![k] = s], KategorieMit(b, k, z, e, g), K, U, W)
<1> DEFINE bb == KategorieMit(b, k, z, e, g)
           dd == [d EXCEPT ![k] = s]
<1>1. /\ d \in Seq(ToSet(d)) /\ Len(d) = Len(b.Kategorien)
      /\ \A j \in 1..Len(d) : IstSection(d[j], K, U, W) /\ Eintrag(d[j], b, j, W)
  BY DictionaryLesen
<1>2. /\ bb.Kategorien = b.Kategorien
      /\ bb.Unterkategorien[k] = z /\ bb.Expanded2[k] = e
      /\ \A f \in Felder : bb.felder[f][k] = g[f]
      /\ \A j \in 1..Len(b.Kategorien) : j # k =>
           /\ bb.Unterkategorien[j] = b.Unterkategorien[j]
           /\ bb.Expanded2[j] = b.Expanded2[j]
           /\ \A f \in Felder : bb.felder[f][j] = b.felder[f][j]
  <2>1. k \in 1..Len(b.Kategorien)
    BY <1>1
  <2> QED BY <2>1, KategorieMitLesen
<1> HIDE DEF bb
<1>3. /\ dd \in Seq(ToSet(d) \cup {s}) /\ Len(dd) = Len(d) /\ dd[k] = s
      /\ \A j \in 1..Len(d) : j # k => dd[j] = d[j]
  BY <1>1
<1> HIDE DEF dd
<1>4. /\ s.Kategorie = d[k].Kategorie /\ s.Unterkategorie = z /\ s.expanded2 = e
      /\ s.felder = h
  OBVIOUS
<1>5. IstSection(s, K, U, W)
  <2>1. d[k].Kategorie \in K
    BY <1>1 DEF IstSection
  <2>2. \A f \in Felder : h[f] \in Seq(Seq(W[f]))
    BY DEF Listen
  <2> QED BY <1>4, <2>1, <2>2 DEF IstSection, IstFeld
<1>6. Eintrag(s, bb, k, W)
  <2>1. d[k].Kategorie = b.Kategorien[k]
    BY <1>1 DEF Eintrag
  <2>2. \A f \in OhneKommentar : h[f] = bb.felder[f][k]
    BY <1>2 DEF OhneKommentar, GleichBisKommentar
  <2> QED BY <1>2, <1>4, <2>1, <2>2 DEF Eintrag
<1>7. ASSUME NEW j \in 1..Len(dd)
      PROVE  IstSection(dd[j], K, U, W) /\ Eintrag(dd[j], bb, j, W)
  <2>1. CASE j = k
    BY <2>1, <1>3, <1>5, <1>6
  <2>2. CASE j # k
    <3>1. dd[j] = d[j] /\ IstSection(d[j], K, U, W) /\ Eintrag(d[j], b, j, W)
      BY <2>2, <1>1, <1>3
    <3>2. Eintrag(d[j], bb, j, W)
      <4>1. /\ bb.Kategorien[j] = b.Kategorien[j]
            /\ bb.Unterkategorien[j] = b.Unterkategorien[j]
            /\ bb.Expanded2[j] = b.Expanded2[j]
            /\ \A f \in Felder : bb.felder[f][j] = b.felder[f][j]
        BY <2>2, <1>1, <1>2, <1>3
      <4> QED BY <3>1, <4>1 DEF Eintrag, OhneKommentar
    <3> QED BY <3>1, <3>2
  <2> QED BY <2>1, <2>2
<1>8. IstDictionary(dd, K, U, W)
  BY <1>3, <1>7, DictionaryAus
<1> QED BY <1>1, <1>2, <1>3, <1>7, <1>8 DEF Spiegel, dd, bb

\* Looking the Kategorien up by name finds each, as long as none occurs twice.
LEMMA FirstIndexInjektiv ==
  ASSUME NEW S, NEW s \in Seq(S), Injektiv(s), NEW n \in 1..Len(s)
  PROVE  firstIndex(s, s[n]) = n
<1>1. Contains(s, s[n])
  BY DEF Contains
<1>2. firstIndex(s, s[n]) \in 1..Len(s) /\ s[firstIndex(s, s[n])] = s[n]
  BY <1>1, FirstIndex
<1> QED BY <1>2 DEF Injektiv

LEMMA InjektivAppend ==
  ASSUME NEW S, NEW s \in Seq(S), Injektiv(s), NEW x \in S, ~Contains(s, x)
  PROVE  Injektiv(Append(s, x))
  BY AppendFolge DEF Injektiv, Contains

LEMMA InjektivRemoveAt ==
  ASSUME NEW S, NEW s \in Seq(S), Injektiv(s), NEW k \in 1..Len(s)
  PROVE  Injektiv(RemoveAt(s, k))
<1> DEFINE t == RemoveAt(s, k)
<1>1. /\ t \in Seq(S) /\ Len(t) = Len(s) - 1
      /\ \A i \in 1..(k - 1) : t[i] = s[i]
      /\ \A i \in k..(Len(s) - 1) : t[i] = s[i + 1]
  BY RemoveAtFolge
<1> HIDE DEF t
<1>2. SUFFICES ASSUME NEW m \in 1..(Len(s) - 1), NEW n \in 1..(Len(s) - 1), t[m] = t[n]
               PROVE  m = n
  BY <1>1 DEF Injektiv, t
<1> DEFINE i == IF m < k THEN m ELSE m + 1
           j == IF n < k THEN n ELSE n + 1
<1>3. Len(s) \in Nat
  OBVIOUS
<1>4. i \in 1..Len(s) /\ t[m] = s[i]
  BY <1>1, <1>3
<1>5. j \in 1..Len(s) /\ t[n] = s[j]
  BY <1>1, <1>3
<1>6. i = j
  <2>1. \A p, q \in 1..Len(s) : s[p] = s[q] => p = q
    BY DEF Injektiv
  <2> HIDE DEF i, j
  <2> QED BY <1>2, <1>4, <1>5, <2>1
<1> QED BY <1>6

LEMMA SpiegelSections ==
  ASSUME NEW K, NEW U, NEW W, NEW b, Wohlgeformt(b, K, U, W), Injektiv(b.Kategorien)
  PROVE  Spiegel(Sections(b), b, K, U, W)
<1> DEFINE d == Sections(b)
<1>0. b.Kategorien \in Seq(K)
  BY WohlgeformtFelder
<1>1. b.Kategorien \in Seq(K) /\ Len(b.Kategorien) \in Nat
  BY <1>0
<1>2. ASSUME NEW k \in 1..Len(b.Kategorien)
      PROVE  /\ d[k] = Section(b, k)
             /\ IstSection(d[k], K, U, W) /\ Eintrag(d[k], b, k, W)
  <2>1. firstIndex(b.Kategorien, b.Kategorien[k]) = k
    BY <1>1, FirstIndexInjektiv
  <2>2. d[k] = Section(b, k)
    BY <2>1 DEF Sections
  <2> DEFINE s == Section(b, k)
  <2>3. /\ s = [Kategorie |-> s.Kategorie, Unterkategorie |-> s.Unterkategorie,
                expanded2 |-> s.expanded2, felder |-> s.felder]
        /\ s.Kategorie = b.Kategorien[k] /\ s.Unterkategorie = b.Unterkategorien[k]
        /\ s.expanded2 = b.Expanded2[k] /\ s.felder = ListenVon(b, k)
    BY DEF Section, ListenVon
  <2>4a. b.Kategorien[k] \in K
    BY <1>1
  <2>4b. /\ b.Unterkategorien[k] \in Seq(U) /\ b.Expanded2[k] \in Seq(BOOLEAN)
         /\ Listen(ListenVon(b, k), b.Unterkategorien[k], W)
    BY KategorieLesen, ListenLesen
  <2>4. /\ b.Kategorien[k] \in K
        /\ b.Unterkategorien[k] \in Seq(U) /\ b.Expanded2[k] \in Seq(BOOLEAN)
        /\ Listen(ListenVon(b, k), b.Unterkategorien[k], W)
    BY <2>4a, <2>4b
  <2>5. \A f \in Felder : ListenVon(b, k)[f] = b.felder[f][k]
    BY DEF ListenVon
  <2>6. ListenVon(b, k) = [f \in Felder |-> ListenVon(b, k)[f]]
    BY DEF ListenVon
  <2>7. \A f \in Felder : ListenVon(b, k)[f] \in Seq(Seq(W[f]))
    BY <2>4 DEF Listen
  <2> HIDE DEF s
  <2>8. IstSection(s, K, U, W)
    BY <2>3, <2>4, <2>6, <2>7 DEF IstSection
  <2>9. Eintrag(s, b, k, W)
    BY <2>3, <2>4, <2>5 DEF Eintrag, OhneKommentar
  <2> QED BY <2>2, <2>8, <2>9 DEF s
<1>3. d \in Seq({Section(b, k) : k \in 1..Len(b.Kategorien)}) /\ Len(d) = Len(b.Kategorien)
  <2> DEFINE T == {Section(b, k) : k \in 1..Len(b.Kategorien)}
  <2>1. d \in [1..Len(b.Kategorien) -> T]
    BY <1>2 DEF Sections
  <2> HIDE DEF d, T
  <2>2. d \in Seq(T) /\ Len(d) = Len(b.Kategorien)
    BY <1>1, <2>1
  <2> QED BY <2>2 DEF T
<1> HIDE DEF d
<1>4. IstDictionary(d, K, U, W)
  BY <1>2, <1>3, DictionaryAus
<1> QED BY <1>2, <1>3, <1>4 DEF Spiegel, d

\* y without its k-th of m elements is x.
Verschoben(x, y, k, m) ==
  /\ \A j \in 1..(k - 1) : x[j] = y[j]
  /\ \A j \in k..(m - 1) : x[j] = y[j + 1]

LEMMA RemoveAtVerschoben ==
  ASSUME NEW S, NEW s \in Seq(S), NEW m, Len(s) = m, NEW k \in 1..m
  PROVE  Verschoben(RemoveAt(s, k), s, k, m) /\ Len(RemoveAt(s, k)) = m - 1
  BY RemoveAtFolge DEF Verschoben

\* The k-th Kategorie goes from both.
LEMMA SpiegelRemoveAt ==
  ASSUME NEW K, NEW U, NEW W, NEW b, Wohlgeformt(b, K, U, W),
         NEW d, Spiegel(d, b, K, U, W), NEW k \in 1..Len(d)
  PROVE  Spiegel(RemoveAt(d, k), OhneKategorie(b, k), K, U, W)
<1> DEFINE bb == OhneKategorie(b, k)
           dd == RemoveAt(d, k)
           m == Len(d)
<1>1. /\ d \in Seq(ToSet(d)) /\ m = Len(b.Kategorien) /\ m \in Nat
      /\ \A j \in 1..m : IstSection(d[j], K, U, W) /\ Eintrag(d[j], b, j, W)
  BY DictionaryLesen, FolgeIhrerWerte
<1>2. /\ b.Kategorien \in Seq(K) /\ b.Unterkategorien \in Seq(Seq(U))
      /\ b.Expanded2 \in Seq(Seq(BOOLEAN))
      /\ Len(b.Unterkategorien) = m /\ Len(b.Expanded2) = m
      /\ \A f \in Felder : b.felder[f] \in Seq(Seq(Seq(W[f]))) /\ Len(b.felder[f]) = m
  BY <1>1, WohlgeformtFelder DEF Feld, GleichLang
<1>3. /\ dd \in Seq(ToSet(d)) /\ Len(dd) = m - 1
      /\ \A j \in 1..(k - 1) : dd[j] = d[j]
      /\ \A j \in k..(m - 1) : dd[j] = d[j + 1]
  BY <1>1, RemoveAtFolge
<1>4. /\ bb.Kategorien = RemoveAt(b.Kategorien, k)
      /\ bb.Unterkategorien = RemoveAt(b.Unterkategorien, k)
      /\ bb.Expanded2 = RemoveAt(b.Expanded2, k)
      /\ \A f \in Felder : bb.felder[f] = RemoveAt(b.felder[f], k)
  BY DEF OhneKategorie
<1>4a. k \in 1..m
  OBVIOUS
<1> HIDE DEF bb, dd, m
<1>5. Verschoben(bb.Kategorien, b.Kategorien, k, m) /\ Len(bb.Kategorien) = m - 1
  <2>1. b.Kategorien \in Seq(K) /\ Len(b.Kategorien) = m
    BY <1>1, <1>2
  <2>2. Verschoben(RemoveAt(b.Kategorien, k), b.Kategorien, k, m) /\ Len(RemoveAt(b.Kategorien, k)) = m - 1
    BY <1>4a, <2>1, RemoveAtVerschoben
  <2> QED BY <1>4, <2>2
<1>6. Verschoben(bb.Unterkategorien, b.Unterkategorien, k, m)
  <2>1. b.Unterkategorien \in Seq(Seq(U)) /\ Len(b.Unterkategorien) = m
    BY <1>1, <1>2
  <2>2. Verschoben(RemoveAt(b.Unterkategorien, k), b.Unterkategorien, k, m)
    BY <1>4a, <2>1, RemoveAtVerschoben
  <2> QED BY <1>4, <2>2
<1>7. Verschoben(bb.Expanded2, b.Expanded2, k, m)
  <2>1. b.Expanded2 \in Seq(Seq(BOOLEAN)) /\ Len(b.Expanded2) = m
    BY <1>1, <1>2
  <2>2. Verschoben(RemoveAt(b.Expanded2, k), b.Expanded2, k, m)
    BY <1>4a, <2>1, RemoveAtVerschoben
  <2> QED BY <1>4, <2>2
<1>8. ASSUME NEW f \in Felder
      PROVE  Verschoben(bb.felder[f], b.felder[f], k, m)
  <2> DEFINE x == b.felder[f]  T == Seq(Seq(W[f]))
  <2>1. x \in Seq(T) /\ Len(x) = m
    BY <1>2
  <2>2. bb.felder[f] = RemoveAt(x, k)
    BY <1>4
  <2> HIDE DEF x, T
  <2>3. Verschoben(RemoveAt(x, k), x, k, m)
    BY <1>4a, <2>1, RemoveAtVerschoben
  <2> QED BY <2>2, <2>3 DEF x
<1>9. ASSUME NEW j \in 1..(m - 1), NEW i \in 1..m,
             \/ j \in 1..(k - 1) /\ i = j
             \/ j \in k..(m - 1) /\ i = j + 1
      PROVE  IstSection(dd[j], K, U, W) /\ Eintrag(dd[j], bb, j, W)
  <2>1. dd[j] = d[i]
    BY <1>3, <1>9
  <2>2. /\ bb.Kategorien[j] = b.Kategorien[i]
        /\ bb.Unterkategorien[j] = b.Unterkategorien[i]
        /\ bb.Expanded2[j] = b.Expanded2[i]
    BY <1>5, <1>6, <1>7, <1>9 DEF Verschoben
  <2>3. \A f \in Felder : bb.felder[f][j] = b.felder[f][i]
    BY <1>8, <1>9 DEF Verschoben
  <2>4. IstSection(d[i], K, U, W) /\ Eintrag(d[i], b, i, W)
    BY <1>1
  <2> QED BY <2>1, <2>2, <2>3, <2>4, Zenon DEF Eintrag, OhneKommentar
<1>10. ASSUME NEW j \in 1..(m - 1)
       PROVE  IstSection(dd[j], K, U, W) /\ Eintrag(dd[j], bb, j, W)
  <2>1. CASE j < k
    <3>1. j \in 1..m /\ j \in 1..(k - 1)
      BY <2>1, <1>1
    <3> QED BY <3>1, <1>9
  <2>2. CASE j >= k
    <3>1. j + 1 \in 1..m /\ j \in k..(m - 1)
      BY <2>2, <1>1
    <3> QED BY <3>1, <1>9
  <2> QED BY <2>1, <2>2, <1>1
<1>11. IstDictionary(dd, K, U, W)
  BY <1>3, <1>10, DictionaryAus
<1> QED BY <1>3, <1>5, <1>10, <1>11 DEF Spiegel, dd, bb, m

-----------------------------------------------------------------------------
(* Sequences of any values, and loops: recursive functions of the number   *)
(* of turns.                                                               *)

\* A sequence, of whatever.
Folge(s) == s \in Seq(ToSet(s))

LEMMA EinsFolge ==
  ASSUME NEW u
  PROVE  Folge(<<u>>) /\ ToSet(<<u>>) = {u}
<1> DEFINE s == <<u>>
<1>1. s \in Seq({u}) /\ Len(s) = 1 /\ s[1] = u /\ 1..1 = {1}
  OBVIOUS
<1> HIDE DEF s
<1>2. ToSet(s) = {u}
  BY <1>1 DEF ToSet
<1>3. Folge(s)
  BY <1>1, FolgeIhrerWerte DEF Folge
<1> QED BY <1>2, <1>3 DEF s

LEMMA LeereFolge == Folge(<<>>) /\ Len(<<>>) = 0 /\ 1..0 = {}
  BY DEF Folge

\* Induction up to N, from zero.
LEMMA BisNull ==
  ASSUME NEW N \in Nat, NEW T, T \subseteq 0..N, 0 \in T,
         \A n \in T : n < N => n + 1 \in T
  PROVE  T = 0..N
<1> DEFINE R == {n \in 0..N : n \notin T}
<1>1. SUFFICES ASSUME R # {} PROVE FALSE
  OBVIOUS
<1>2. R \subseteq Nat
  OBVIOUS
<1>3. PICK n \in R : \A m \in R : n <= m
  <2> HIDE DEF R
  <2> QED BY <1>1, <1>2, KleinsteZahl
<1>4. n \in 0..N /\ n \notin T
  OBVIOUS
<1>5. n # 0
  BY <1>4
<1>6. n - 1 \in 0..N /\ n - 1 \notin R
  <2>1. n - 1 \in 0..N /\ ~(n <= n - 1)
    BY <1>4, <1>5
  <2> HIDE DEF R
  <2> QED BY <1>3, <2>1
<1>7. n - 1 \in T /\ (n - 1) + 1 = n /\ n - 1 < N
  BY <1>4, <1>6
<1> QED BY <1>4, <1>7

\* One turn more.
LEMMA Fortsetzung ==
  ASSUME NEW n \in Nat, NEW f, NEW v, NEW g, g = [i \in 0..(n + 1) |-> IF i = n + 1 THEN v ELSE f[i]]
  PROVE  /\ DOMAIN g = 0..(n + 1) /\ g[n + 1] = v /\ n + 1 # 0 /\ (n + 1) - 1 = n /\ n \in 0..n
         /\ \A i \in 0..n : g[i] = f[i]
         /\ \A i \in 0..(n + 1) : i = n + 1 \/ (i \in 0..n /\ (i # 0 => i - 1 \in 0..n))
<1>1. n + 1 \in 0..(n + 1) /\ n + 1 # 0 /\ (n + 1) - 1 = n /\ n \in 0..n
  OBVIOUS
<1>2. \A i \in 0..n : i \in 0..(n + 1) /\ i # n + 1
  OBVIOUS
<1>3. \A i \in 0..(n + 1) : i = n + 1 \/ (i \in 0..n /\ (i # 0 => i - 1 \in 0..n))
  OBVIOUS
<1> QED BY <1>1, <1>2, <1>3

LEMMA AppendLesen ==
  ASSUME NEW s, Folge(s), NEW x
  PROVE  /\ Folge(Append(s, x)) /\ Len(Append(s, x)) = Len(s) + 1 /\ Len(s) \in Nat
         /\ \A k \in 1..Len(s) : Append(s, x)[k] = s[k]
         /\ Append(s, x)[Len(s) + 1] = x
<1> DEFINE S == ToSet(s) \cup {x}
<1>1. s \in Seq(S) /\ x \in S
  BY SeqMonotonic DEF Folge
<1> HIDE DEF S
<1>2. /\ Append(s, x) \in Seq(S) /\ Len(Append(s, x)) = Len(s) + 1
      /\ \A k \in 1..Len(s) : Append(s, x)[k] = s[k]
      /\ Append(s, x)[Len(s) + 1] = x
  BY <1>1, AppendFolge
<1>3. Folge(Append(s, x))
  BY <1>2, FolgeIhrerWerte DEF Folge
<1>4. Len(s) \in Nat
  BY <1>1
<1> QED BY <1>2, <1>3, <1>4

LEMMA FolgenGleich ==
  ASSUME NEW s, NEW t, Folge(s), Folge(t), Len(s) = Len(t),
         \A k \in 1..Len(s) : s[k] = t[k]
  PROVE  s = t
<1> DEFINE S == ToSet(s) \cup ToSet(t)
<1>1. s \in Seq(S) /\ t \in Seq(S)
  BY SeqMonotonic DEF Folge
<1> HIDE DEF S
<1> QED BY <1>1, SeqEqual

\* The first n of f.
Bis(f, n) == [k \in 1..n |-> f[k]]

LEMMA BisLesen ==
  ASSUME NEW f, NEW n \in Nat
  PROVE  /\ Folge(Bis(f, n)) /\ Len(Bis(f, n)) = n
         /\ \A k \in 1..n : Bis(f, n)[k] = f[k]
<1>1. /\ DOMAIN Bis(f, n) = 1..n /\ \A k \in 1..n : Bis(f, n)[k] = f[k]
  BY DEF Bis
<1>2. Bis(f, n) \in [1..n -> ToSet(Bis(f, n))]
  BY <1>1 DEF Bis, ToSet
<1>3. Bis(f, n) \in Seq(ToSet(Bis(f, n)))
  BY <1>2
<1>4. Len(Bis(f, n)) = n
  BY <1>1, <1>3
<1> QED BY <1>1, <1>3, <1>4 DEF Folge

\* The first of f, and the next.
LEMMA BisWaechst ==
  ASSUME NEW f, NEW n \in Nat
  PROVE  Append(Bis(f, n), f[n + 1]) = Bis(f, n + 1)
<1> DEFINE s == Append(Bis(f, n), f[n + 1])  t == Bis(f, n + 1)
<1>1. Folge(s) /\ Len(s) = n + 1 /\ s[n + 1] = f[n + 1] /\ \A k \in 1..n : s[k] = f[k]
  BY BisLesen, AppendLesen
<1>2. Folge(t) /\ Len(t) = n + 1 /\ \A k \in 1..(n + 1) : t[k] = f[k]
  BY BisLesen
<1> HIDE DEF s, t
<1>3. \A k \in 1..(n + 1) : k = n + 1 \/ k \in 1..n
  OBVIOUS
<1>4. s = t
  BY <1>1, <1>2, <1>3, FolgenGleich
<1> QED BY <1>4 DEF s, t

LEMMA BisGanz ==
  ASSUME NEW s, Folge(s)
  PROVE  Bis(s, Len(s)) = s /\ Len(s) \in Nat /\ DOMAIN s = 1..Len(s)
<1>1. Len(s) \in Nat /\ DOMAIN s = 1..Len(s)
  BY DEF Folge
<1>2. Folge(Bis(s, Len(s))) /\ Len(Bis(s, Len(s))) = Len(s)
      /\ \A k \in 1..Len(s) : Bis(s, Len(s))[k] = s[k]
  BY <1>1, BisLesen
<1> QED BY <1>1, <1>2, FolgenGleich

LEMMA BisNichts ==
  ASSUME NEW f
  PROVE  Bis(f, 0) = <<>>
<1>1. Folge(Bis(f, 0)) /\ Len(Bis(f, 0)) = 0
  BY BisLesen
<1>2. 1..0 = {}
  OBVIOUS
<1> QED BY <1>1, <1>2, LeereFolge, FolgenGleich

\* The last element replaced.
LEMMA LetztesErsetzt ==
  ASSUME NEW s, Folge(s), NEW x, NEW y, NEW n, n = Len(s) + 1
  PROVE  [Append(s, x) EXCEPT ![n] = y] = Append(s, y)
<1> DEFINE S == ToSet(s) \cup {x, y}
<1>1. s \in Seq(S) /\ x \in S /\ y \in S
  BY SeqMonotonic DEF Folge
<1> HIDE DEF S
<1>2. /\ Append(s, x) \in Seq(S) /\ Len(Append(s, x)) = n
      /\ \A k \in 1..Len(s) : Append(s, x)[k] = s[k]
      /\ n \in 1..n
  BY <1>1, AppendFolge
<1>3. /\ Append(s, y) \in Seq(S) /\ Len(Append(s, y)) = n
      /\ \A k \in 1..Len(s) : Append(s, y)[k] = s[k]
      /\ Append(s, y)[n] = y
  BY <1>1, AppendFolge
<1> DEFINE t == Append(s, x)  u == Append(s, y)  v == [t EXCEPT ![n] = y]
<1> HIDE DEF t, u
<1>4. v \in Seq(S) /\ Len(v) = n /\ v[n] = y /\ \A k \in 1..n : k # n => v[k] = t[k]
  <2>1. t \in Seq(S) /\ Len(t) = n /\ n \in 1..Len(t)
    BY <1>2 DEF t
  <2>2. DOMAIN t = 1..n /\ t \in [1..n -> S]
    BY <2>1
  <2>3. v \in [1..n -> S] /\ n \in Nat
    BY <1>1, <2>1, <2>2
  <2> HIDE DEF v
  <2>4. v \in Seq(S) /\ Len(v) = n
    BY <2>3
  <2>5. v[n] = y /\ \A k \in 1..n : k # n => v[k] = t[k]
    BY <2>1, <2>2 DEF v
  <2> QED BY <2>4, <2>5
<1>5. \A k \in 1..n : k = n \/ k \in 1..Len(s)
  BY <1>1
<1>6. \A k \in 1..n : v[k] = u[k]
  BY <1>2, <1>3, <1>4, <1>5 DEF t, u
<1> HIDE DEF v
<1>7. v = u
  BY <1>3, <1>4, <1>6, SeqEqual DEF u
<1> QED BY <1>7 DEF v, t, u

-----------------------------------------------------------------------------
(* FlattenSeq.                                                             *)

\* Induction up to N, from one.
LEMMA BisN ==
  ASSUME NEW N \in Nat, NEW T, T \subseteq 1..N, N > 0 => 1 \in T,
         \A n \in T : n < N => n + 1 \in T
  PROVE  T = 1..N
<1> DEFINE R == {n \in 1..N : n \notin T}
<1>1. SUFFICES ASSUME R # {} PROVE FALSE
  OBVIOUS
<1>2. R \subseteq Nat
  OBVIOUS
<1>3. PICK n \in R : \A m \in R : n <= m
  <2> HIDE DEF R
  <2> QED BY <1>1, <1>2, KleinsteZahl
<1>4. n \in 1..N /\ n \notin T
  OBVIOUS
<1>5. n # 1
  BY <1>4
<1>6. n - 1 \in 1..N /\ n - 1 \notin R
  <2>1. n - 1 \in 1..N /\ ~(n <= n - 1)
    BY <1>4, <1>5
  <2> HIDE DEF R
  <2> QED BY <1>3, <2>1
<1>7. n - 1 \in T /\ (n - 1) + 1 = n /\ n - 1 < N
  BY <1>4, <1>6
<1> QED BY <1>4, <1>7

\* f computes what s concatenates, up to n.
Verkettung(f, s, n) ==
  f = [i \in 1..n |-> IF i = 1 THEN s[i] ELSE f[i - 1] \o s[i]]

\* The recursive function of FlattenSeq exists.
LEMMA FlattenFunktion ==
  ASSUME NEW s, NEW N \in Nat \ {0}
  PROVE  \E f : Verkettung(f, s, N)
<1> DEFINE T == {n \in 1..N : \E f : Verkettung(f, s, n)}
<1>1. 1 \in T
  <2> DEFINE g == [i \in 1..1 |-> s[i]]
  <2>1. Verkettung(g, s, 1)
    <3>1. \A i \in 1..1 : i = 1
      OBVIOUS
    <3> QED BY <3>1 DEF Verkettung
  <2>2. 1 \in 1..N
    OBVIOUS
  <2> HIDE DEF g
  <2> QED BY <2>1, <2>2
<1>2. ASSUME NEW n \in T, n < N PROVE n + 1 \in T
  <2>0. n \in 1..N /\ n + 1 \in 1..N
    BY <1>2
  <2>1. PICK f : Verkettung(f, s, n)
    OBVIOUS
  <2> DEFINE g == [i \in 1..(n + 1) |-> IF i = n + 1 THEN f[n] \o s[i] ELSE f[i]]
  <2>2. ASSUME NEW i \in 1..(n + 1)
        PROVE  g[i] = IF i = 1 THEN s[i] ELSE g[i - 1] \o s[i]
    <3>1. CASE i = n + 1
      <4>1. i # 1 /\ i - 1 = n /\ n \in 1..(n + 1) /\ n # n + 1
        BY <2>0, <3>1
      <4>2. g[i] = f[n] \o s[i] /\ g[n] = f[n]
        BY <3>1, <4>1
      <4> HIDE DEF g
      <4> QED BY <4>1, <4>2
    <3>2. CASE i # n + 1
      <4>1. i \in 1..n /\ g[i] = f[i]
        BY <2>0, <3>2
      <4>2. i # 1 => i - 1 \in 1..n /\ i - 1 # n + 1 /\ i - 1 \in 1..(n + 1)
        BY <2>0, <4>1
      <4>3. i # 1 => g[i - 1] = f[i - 1]
        BY <4>2
      <4>4. f[i] = IF i = 1 THEN s[i] ELSE f[i - 1] \o s[i]
        BY <2>1, <4>1 DEF Verkettung
      <4> HIDE DEF g
      <4> QED BY <4>1, <4>3, <4>4
    <3> QED BY <3>1, <3>2
  <2>3. Verkettung(g, s, n + 1)
    BY <2>2 DEF Verkettung
  <2> HIDE DEF g
  <2> QED BY <2>0, <2>3
<1>3. T = 1..N
  <2>1. T \subseteq 1..N
    OBVIOUS
  <2> HIDE DEF T
  <2> QED BY <1>1, <1>2, <2>1, BisN
<1>4. N \in 1..N
  OBVIOUS
<1> QED BY <1>3, <1>4
-----------------------------------------------------------------------------
(* Loops. Each is a recursive function of the number of turns.             *)

\* The lines of an Unterkategorie, one after the other.
ItemsLauf(f, z, k, u, zeilen, N) ==
  f = [n \in 0..N |-> IF n = 0 THEN z ELSE LiesItem(f[n - 1], k, u, zeilen[n].item)]

LEMMA ItemsNacheinander ==
  ASSUME NEW z, NEW k, NEW u, NEW zeilen, Len(zeilen) \in Nat
  PROVE  \E f : /\ f[0] = z /\ f[Len(zeilen)] = LiesItems(z, k, u, zeilen)
               /\ \A n \in 0..Len(zeilen) : n < Len(zeilen) =>
                    f[n + 1] = LiesItem(f[n], k, u, zeilen[n + 1].item)
<1> DEFINE N == Len(zeilen)
           T == {n \in 0..N : \E f : ItemsLauf(f, z, k, u, zeilen, n)}
           h == CHOOSE f : f = [n \in 0..N |-> IF n = 0 THEN z
                                  ELSE LiesItem(f[n - 1], k, u, zeilen[n].item)]
<1>1. 0 \in T
  <2> DEFINE g == [n \in 0..0 |-> z]
  <2>1. \A n \in 0..0 : n = 0
    OBVIOUS
  <2>2. ItemsLauf(g, z, k, u, zeilen, 0)
    BY <2>1 DEF ItemsLauf
  <2>3. 0 \in 0..N
    OBVIOUS
  <2> HIDE DEF g, N
  <2> QED BY <2>2, <2>3
<1>2. ASSUME NEW n \in T, n < N PROVE n + 1 \in T
  <2>1. n \in Nat /\ n + 1 \in 0..N
    BY <1>2
  <2>2. PICK f : ItemsLauf(f, z, k, u, zeilen, n)
    OBVIOUS
  <2> DEFINE v == LiesItem(f[n], k, u, zeilen[n + 1].item)
             g == [i \in 0..(n + 1) |-> IF i = n + 1 THEN v ELSE f[i]]
  <2> HIDE DEF v
  <2>3. /\ DOMAIN g = 0..(n + 1) /\ g[n + 1] = v /\ n + 1 # 0 /\ (n + 1) - 1 = n /\ n \in 0..n
        /\ \A i \in 0..n : g[i] = f[i]
        /\ \A i \in 0..(n + 1) : i = n + 1 \/ (i \in 0..n /\ (i # 0 => i - 1 \in 0..n))
    BY <2>1, Fortsetzung
  <2>4. g = [i \in 0..(n + 1) |-> g[i]]
    OBVIOUS
  <2> HIDE DEF g
  <2>5. ASSUME NEW i \in 0..(n + 1)
        PROVE  g[i] = IF i = 0 THEN z ELSE LiesItem(g[i - 1], k, u, zeilen[i].item)
    <3>1. CASE i = n + 1
      BY <2>3, <3>1 DEF v
    <3>2. CASE i # n + 1
      <4>1. f[i] = IF i = 0 THEN z ELSE LiesItem(f[i - 1], k, u, zeilen[i].item)
        BY <2>2, <2>3, <3>2 DEF ItemsLauf
      <4> QED BY <2>3, <3>2, <4>1
    <3> QED BY <3>1, <3>2
  <2>6. ItemsLauf(g, z, k, u, zeilen, n + 1)
    BY <2>4, <2>5 DEF ItemsLauf
  <2> QED BY <2>1, <2>6
<1>3. N \in T
  <2>1. T \subseteq 0..N /\ N \in Nat /\ N \in 0..N
    OBVIOUS
  <2> HIDE DEF T, N
  <2> QED BY <1>1, <1>2, <2>1, BisNull
<1>4. ItemsLauf(h, z, k, u, zeilen, N)
  <2>1. PICK f : ItemsLauf(f, z, k, u, zeilen, N)
    BY <1>3
  <2>2. f = [n \in 0..N |-> IF n = 0 THEN z ELSE LiesItem(f[n - 1], k, u, zeilen[n].item)]
    BY <2>1 DEF ItemsLauf
  <2> QED BY <2>2, Zenon DEF ItemsLauf
<1>5. LiesItems(z, k, u, zeilen) = h[N]
  BY Zenon DEF LiesItems
<1> HIDE DEF h
<1>6. h[0] = z
  <2>1. 0 \in 0..N
    OBVIOUS
  <2> HIDE DEF N
  <2> QED BY <1>4, <2>1 DEF ItemsLauf
<1>7. ASSUME NEW n \in 0..N, n < N
      PROVE  h[n + 1] = LiesItem(h[n], k, u, zeilen[n + 1].item)
  <2>1. n + 1 \in 0..N /\ n + 1 # 0 /\ (n + 1) - 1 = n
    BY <1>7
  <2>2. h[n + 1] = IF n + 1 = 0 THEN z ELSE LiesItem(h[(n + 1) - 1], k, u, zeilen[n + 1].item)
    BY <1>4, <2>1 DEF ItemsLauf
  <2> QED BY <2>1, <2>2, Zenon
<1> QED BY <1>5, <1>6, <1>7

\* The extras of a line.
ExtrasLauf(f, z, k, u, extras, N) ==
  f = [n \in 0..N |-> IF n = 0 THEN z ELSE LiesExtra(f[n - 1], k, u, extras[n], Len(extras))]

LEMMA ExtrasNacheinander ==
  ASSUME NEW z, NEW k, NEW u, NEW extras, Len(extras) \in Nat
  PROVE  \E f : /\ f[0] = z /\ f[Len(extras)] = LiesExtras(z, k, u, extras)
               /\ \A n \in 0..Len(extras) : n < Len(extras) =>
                    f[n + 1] = LiesExtra(f[n], k, u, extras[n + 1], Len(extras))
<1> DEFINE N == Len(extras)
           T == {n \in 0..N : \E f : ExtrasLauf(f, z, k, u, extras, n)}
           h == CHOOSE f : f = [n \in 0..N |-> IF n = 0 THEN z
                                  ELSE LiesExtra(f[n - 1], k, u, extras[n], Len(extras))]
<1>1. 0 \in T
  <2> DEFINE g == [n \in 0..0 |-> z]
  <2>1. \A n \in 0..0 : n = 0
    OBVIOUS
  <2>2. ExtrasLauf(g, z, k, u, extras, 0)
    BY <2>1 DEF ExtrasLauf
  <2>3. 0 \in 0..N
    OBVIOUS
  <2> HIDE DEF g, N
  <2> QED BY <2>2, <2>3
<1>2. ASSUME NEW n \in T, n < N PROVE n + 1 \in T
  <2>1. n \in Nat /\ n + 1 \in 0..N
    BY <1>2
  <2>2. PICK f : ExtrasLauf(f, z, k, u, extras, n)
    OBVIOUS
  <2> DEFINE v == LiesExtra(f[n], k, u, extras[n + 1], Len(extras))
             g == [i \in 0..(n + 1) |-> IF i = n + 1 THEN v ELSE f[i]]
  <2> HIDE DEF v
  <2>3. /\ DOMAIN g = 0..(n + 1) /\ g[n + 1] = v /\ n + 1 # 0 /\ (n + 1) - 1 = n /\ n \in 0..n
        /\ \A i \in 0..n : g[i] = f[i]
        /\ \A i \in 0..(n + 1) : i = n + 1 \/ (i \in 0..n /\ (i # 0 => i - 1 \in 0..n))
    BY <2>1, Fortsetzung
  <2>4. g = [i \in 0..(n + 1) |-> g[i]]
    OBVIOUS
  <2> HIDE DEF g
  <2>5. ASSUME NEW i \in 0..(n + 1)
        PROVE  g[i] = IF i = 0 THEN z ELSE LiesExtra(g[i - 1], k, u, extras[i], Len(extras))
    <3>1. CASE i = n + 1
      BY <2>3, <3>1 DEF v
    <3>2. CASE i # n + 1
      <4>1. f[i] = IF i = 0 THEN z ELSE LiesExtra(f[i - 1], k, u, extras[i], Len(extras))
        BY <2>2, <2>3, <3>2 DEF ExtrasLauf
      <4> QED BY <2>3, <3>2, <4>1
    <3> QED BY <3>1, <3>2
  <2>6. ExtrasLauf(g, z, k, u, extras, n + 1)
    BY <2>4, <2>5 DEF ExtrasLauf
  <2> QED BY <2>1, <2>6
<1>3. N \in T
  <2>1. T \subseteq 0..N /\ N \in Nat /\ N \in 0..N
    OBVIOUS
  <2> HIDE DEF T, N
  <2> QED BY <1>1, <1>2, <2>1, BisNull
<1>4. ExtrasLauf(h, z, k, u, extras, N)
  <2>1. PICK f : ExtrasLauf(f, z, k, u, extras, N)
    BY <1>3
  <2>2. f = [n \in 0..N |-> IF n = 0 THEN z ELSE LiesExtra(f[n - 1], k, u, extras[n], Len(extras))]
    BY <2>1 DEF ExtrasLauf
  <2> QED BY <2>2, Zenon DEF ExtrasLauf
<1>5. LiesExtras(z, k, u, extras) = h[N]
  BY Zenon DEF LiesExtras
<1> HIDE DEF h
<1>6. h[0] = z
  <2>1. 0 \in 0..N
    OBVIOUS
  <2> HIDE DEF N
  <2> QED BY <1>4, <2>1 DEF ExtrasLauf
<1>7. ASSUME NEW n \in 0..N, n < N
      PROVE  h[n + 1] = LiesExtra(h[n], k, u, extras[n + 1], Len(extras))
  <2>1. n + 1 \in 0..N /\ n + 1 # 0 /\ (n + 1) - 1 = n
    BY <1>7
  <2>2. h[n + 1] = IF n + 1 = 0 THEN z ELSE LiesExtra(h[(n + 1) - 1], k, u, extras[n + 1], Len(extras))
    BY <1>4, <2>1 DEF ExtrasLauf
  <2> QED BY <2>1, <2>2, Zenon
<1> QED BY <1>5, <1>6, <1>7

\* The extras of all lines.
AlleExtrasLauf(f, z, k, u, zeilen, N) ==
  f = [n \in 0..N |-> IF n = 0 THEN z ELSE LiesExtras(f[n - 1], k, u, zeilen[n].extras)]

LEMMA AlleExtrasNacheinander ==
  ASSUME NEW z, NEW k, NEW u, NEW zeilen, Len(zeilen) \in Nat
  PROVE  \E f : /\ f[0] = z /\ f[Len(zeilen)] = LiesAlleExtras(z, k, u, zeilen)
               /\ \A n \in 0..Len(zeilen) : n < Len(zeilen) =>
                    f[n + 1] = LiesExtras(f[n], k, u, zeilen[n + 1].extras)
<1> DEFINE N == Len(zeilen)
           T == {n \in 0..N : \E f : AlleExtrasLauf(f, z, k, u, zeilen, n)}
           h == CHOOSE f : f = [n \in 0..N |-> IF n = 0 THEN z
                                  ELSE LiesExtras(f[n - 1], k, u, zeilen[n].extras)]
<1>1. 0 \in T
  <2> DEFINE g == [n \in 0..0 |-> z]
  <2>1. \A n \in 0..0 : n = 0
    OBVIOUS
  <2>2. AlleExtrasLauf(g, z, k, u, zeilen, 0)
    BY <2>1 DEF AlleExtrasLauf
  <2>3. 0 \in 0..N
    OBVIOUS
  <2> HIDE DEF g, N
  <2> QED BY <2>2, <2>3
<1>2. ASSUME NEW n \in T, n < N PROVE n + 1 \in T
  <2>1. n \in Nat /\ n + 1 \in 0..N
    BY <1>2
  <2>2. PICK f : AlleExtrasLauf(f, z, k, u, zeilen, n)
    OBVIOUS
  <2> DEFINE v == LiesExtras(f[n], k, u, zeilen[n + 1].extras)
             g == [i \in 0..(n + 1) |-> IF i = n + 1 THEN v ELSE f[i]]
  <2> HIDE DEF v
  <2>3. /\ DOMAIN g = 0..(n + 1) /\ g[n + 1] = v /\ n + 1 # 0 /\ (n + 1) - 1 = n /\ n \in 0..n
        /\ \A i \in 0..n : g[i] = f[i]
        /\ \A i \in 0..(n + 1) : i = n + 1 \/ (i \in 0..n /\ (i # 0 => i - 1 \in 0..n))
    BY <2>1, Fortsetzung
  <2>4. g = [i \in 0..(n + 1) |-> g[i]]
    OBVIOUS
  <2> HIDE DEF g
  <2>5. ASSUME NEW i \in 0..(n + 1)
        PROVE  g[i] = IF i = 0 THEN z ELSE LiesExtras(g[i - 1], k, u, zeilen[i].extras)
    <3>1. CASE i = n + 1
      BY <2>3, <3>1 DEF v
    <3>2. CASE i # n + 1
      <4>1. f[i] = IF i = 0 THEN z ELSE LiesExtras(f[i - 1], k, u, zeilen[i].extras)
        BY <2>2, <2>3, <3>2 DEF AlleExtrasLauf
      <4> QED BY <2>3, <3>2, <4>1
    <3> QED BY <3>1, <3>2
  <2>6. AlleExtrasLauf(g, z, k, u, zeilen, n + 1)
    BY <2>4, <2>5 DEF AlleExtrasLauf
  <2> QED BY <2>1, <2>6
<1>3. N \in T
  <2>1. T \subseteq 0..N /\ N \in Nat /\ N \in 0..N
    OBVIOUS
  <2> HIDE DEF T, N
  <2> QED BY <1>1, <1>2, <2>1, BisNull
<1>4. AlleExtrasLauf(h, z, k, u, zeilen, N)
  <2>1. PICK f : AlleExtrasLauf(f, z, k, u, zeilen, N)
    BY <1>3
  <2>2. f = [n \in 0..N |-> IF n = 0 THEN z ELSE LiesExtras(f[n - 1], k, u, zeilen[n].extras)]
    BY <2>1 DEF AlleExtrasLauf
  <2> QED BY <2>2, Zenon DEF AlleExtrasLauf
<1>5. LiesAlleExtras(z, k, u, zeilen) = h[N]
  BY Zenon DEF LiesAlleExtras
<1> HIDE DEF h
<1>6. h[0] = z
  <2>1. 0 \in 0..N
    OBVIOUS
  <2> HIDE DEF N
  <2> QED BY <1>4, <2>1 DEF AlleExtrasLauf
<1>7. ASSUME NEW n \in 0..N, n < N
      PROVE  h[n + 1] = LiesExtras(h[n], k, u, zeilen[n + 1].extras)
  <2>1. n + 1 \in 0..N /\ n + 1 # 0 /\ (n + 1) - 1 = n
    BY <1>7
  <2>2. h[n + 1] = IF n + 1 = 0 THEN z ELSE LiesExtras(h[(n + 1) - 1], k, u, zeilen[n + 1].extras)
    BY <1>4, <2>1 DEF AlleExtrasLauf
  <2> QED BY <2>1, <2>2, Zenon
<1> QED BY <1>5, <1>6, <1>7

\* The Unterkategorien of a Kategorie.
LiesKinderLauf(f, z, k, kinder, N) ==
  f = [n \in 0..N |-> IF n = 0 THEN z ELSE LiesKind(f[n - 1], k, kinder[n])]

LEMMA LiesKinderNacheinander ==
  ASSUME NEW z, NEW k, NEW kinder, Len(kinder) \in Nat
  PROVE  \E f : /\ f[0] = z /\ f[Len(kinder)] = LiesKinder(z, k, kinder)
               /\ \A n \in 0..Len(kinder) : n < Len(kinder) =>
                    f[n + 1] = LiesKind(f[n], k, kinder[n + 1])
<1> DEFINE N == Len(kinder)
           T == {n \in 0..N : \E f : LiesKinderLauf(f, z, k, kinder, n)}
           h == CHOOSE f : f = [n \in 0..N |-> IF n = 0 THEN z
                                  ELSE LiesKind(f[n - 1], k, kinder[n])]
<1>1. 0 \in T
  <2> DEFINE g == [n \in 0..0 |-> z]
  <2>1. \A n \in 0..0 : n = 0
    OBVIOUS
  <2>2. LiesKinderLauf(g, z, k, kinder, 0)
    BY <2>1 DEF LiesKinderLauf
  <2>3. 0 \in 0..N
    OBVIOUS
  <2> HIDE DEF g, N
  <2> QED BY <2>2, <2>3
<1>2. ASSUME NEW n \in T, n < N PROVE n + 1 \in T
  <2>1. n \in Nat /\ n + 1 \in 0..N
    BY <1>2
  <2>2. PICK f : LiesKinderLauf(f, z, k, kinder, n)
    OBVIOUS
  <2> DEFINE v == LiesKind(f[n], k, kinder[n + 1])
             g == [i \in 0..(n + 1) |-> IF i = n + 1 THEN v ELSE f[i]]
  <2> HIDE DEF v
  <2>3. /\ DOMAIN g = 0..(n + 1) /\ g[n + 1] = v /\ n + 1 # 0 /\ (n + 1) - 1 = n /\ n \in 0..n
        /\ \A i \in 0..n : g[i] = f[i]
        /\ \A i \in 0..(n + 1) : i = n + 1 \/ (i \in 0..n /\ (i # 0 => i - 1 \in 0..n))
    BY <2>1, Fortsetzung
  <2>4. g = [i \in 0..(n + 1) |-> g[i]]
    OBVIOUS
  <2> HIDE DEF g
  <2>5. ASSUME NEW i \in 0..(n + 1)
        PROVE  g[i] = IF i = 0 THEN z ELSE LiesKind(g[i - 1], k, kinder[i])
    <3>1. CASE i = n + 1
      BY <2>3, <3>1 DEF v
    <3>2. CASE i # n + 1
      <4>1. f[i] = IF i = 0 THEN z ELSE LiesKind(f[i - 1], k, kinder[i])
        BY <2>2, <2>3, <3>2 DEF LiesKinderLauf
      <4> QED BY <2>3, <3>2, <4>1
    <3> QED BY <3>1, <3>2
  <2>6. LiesKinderLauf(g, z, k, kinder, n + 1)
    BY <2>4, <2>5 DEF LiesKinderLauf
  <2> QED BY <2>1, <2>6
<1>3. N \in T
  <2>1. T \subseteq 0..N /\ N \in Nat /\ N \in 0..N
    OBVIOUS
  <2> HIDE DEF T, N
  <2> QED BY <1>1, <1>2, <2>1, BisNull
<1>4. LiesKinderLauf(h, z, k, kinder, N)
  <2>1. PICK f : LiesKinderLauf(f, z, k, kinder, N)
    BY <1>3
  <2>2. f = [n \in 0..N |-> IF n = 0 THEN z ELSE LiesKind(f[n - 1], k, kinder[n])]
    BY <2>1 DEF LiesKinderLauf
  <2> QED BY <2>2, Zenon DEF LiesKinderLauf
<1>5. LiesKinder(z, k, kinder) = h[N]
  BY Zenon DEF LiesKinder
<1> HIDE DEF h
<1>6. h[0] = z
  <2>1. 0 \in 0..N
    OBVIOUS
  <2> HIDE DEF N
  <2> QED BY <1>4, <2>1 DEF LiesKinderLauf
<1>7. ASSUME NEW n \in 0..N, n < N
      PROVE  h[n + 1] = LiesKind(h[n], k, kinder[n + 1])
  <2>1. n + 1 \in 0..N /\ n + 1 # 0 /\ (n + 1) - 1 = n
    BY <1>7
  <2>2. h[n + 1] = IF n + 1 = 0 THEN z ELSE LiesKind(h[(n + 1) - 1], k, kinder[n + 1])
    BY <1>4, <2>1 DEF LiesKinderLauf
  <2> QED BY <2>1, <2>2, Zenon
<1> QED BY <1>5, <1>6, <1>7

\* The same, as a lemma to be instantiated.
KinderFolge(f, z, k, kinder) ==
  /\ f[0] = z /\ f[Len(kinder)] = LiesKinder(z, k, kinder)
  /\ \A n \in 0..Len(kinder) : n < Len(kinder) => f[n + 1] = LiesKind(f[n], k, kinder[n + 1])

LEMMA KinderGefolgt ==
  ASSUME NEW z, NEW k, NEW kinder, Len(kinder) \in Nat
  PROVE  \E f : KinderFolge(f, z, k, kinder)
<1>1. PICK f : /\ f[0] = z /\ f[Len(kinder)] = LiesKinder(z, k, kinder)
               /\ \A n \in 0..Len(kinder) : n < Len(kinder) =>
                    f[n + 1] = LiesKind(f[n], k, kinder[n + 1])
  BY LiesKinderNacheinander
<1> QED BY <1>1 DEF KinderFolge

\* The Kategorien of an order.
FundLauf(f, r, snapshot, N) ==
  f = [n \in 0..N |-> IF n = 0 THEN LeererFund(r) ELSE LiesKategorie(f[n - 1], snapshot[n])]

LEMMA FundNacheinander ==
  ASSUME NEW r, NEW snapshot, Len(snapshot) \in Nat
  PROVE  \E f : /\ f[0] = LeererFund(r) /\ f[Len(snapshot)] = Fund(snapshot, r)
               /\ \A n \in 0..Len(snapshot) : n < Len(snapshot) =>
                    f[n + 1] = LiesKategorie(f[n], snapshot[n + 1])
<1> DEFINE N == Len(snapshot)
           T == {n \in 0..N : \E f : FundLauf(f, r, snapshot, n)}
           h == CHOOSE f : f = [n \in 0..N |-> IF n = 0 THEN LeererFund(r)
                                  ELSE LiesKategorie(f[n - 1], snapshot[n])]
<1>1. 0 \in T
  <2> DEFINE g == [n \in 0..0 |-> LeererFund(r)]
  <2>1. \A n \in 0..0 : n = 0
    OBVIOUS
  <2>2. FundLauf(g, r, snapshot, 0)
    BY <2>1 DEF FundLauf
  <2>3. 0 \in 0..N
    OBVIOUS
  <2> HIDE DEF g, N
  <2> QED BY <2>2, <2>3
<1>2. ASSUME NEW n \in T, n < N PROVE n + 1 \in T
  <2>1. n \in Nat /\ n + 1 \in 0..N
    BY <1>2
  <2>2. PICK f : FundLauf(f, r, snapshot, n)
    OBVIOUS
  <2> DEFINE v == LiesKategorie(f[n], snapshot[n + 1])
             g == [i \in 0..(n + 1) |-> IF i = n + 1 THEN v ELSE f[i]]
  <2> HIDE DEF v
  <2>3. /\ DOMAIN g = 0..(n + 1) /\ g[n + 1] = v /\ n + 1 # 0 /\ (n + 1) - 1 = n /\ n \in 0..n
        /\ \A i \in 0..n : g[i] = f[i]
        /\ \A i \in 0..(n + 1) : i = n + 1 \/ (i \in 0..n /\ (i # 0 => i - 1 \in 0..n))
    BY <2>1, Fortsetzung
  <2>4. g = [i \in 0..(n + 1) |-> g[i]]
    OBVIOUS
  <2> HIDE DEF g
  <2>5. ASSUME NEW i \in 0..(n + 1)
        PROVE  g[i] = IF i = 0 THEN LeererFund(r) ELSE LiesKategorie(g[i - 1], snapshot[i])
    <3>1. CASE i = n + 1
      BY <2>3, <3>1 DEF v
    <3>2. CASE i # n + 1
      <4>1. f[i] = IF i = 0 THEN LeererFund(r) ELSE LiesKategorie(f[i - 1], snapshot[i])
        BY <2>2, <2>3, <3>2 DEF FundLauf
      <4> QED BY <2>3, <3>2, <4>1
    <3> QED BY <3>1, <3>2
  <2>6. FundLauf(g, r, snapshot, n + 1)
    BY <2>4, <2>5 DEF FundLauf
  <2> QED BY <2>1, <2>6
<1>3. N \in T
  <2>1. T \subseteq 0..N /\ N \in Nat /\ N \in 0..N
    OBVIOUS
  <2> HIDE DEF T, N
  <2> QED BY <1>1, <1>2, <2>1, BisNull
<1>4. FundLauf(h, r, snapshot, N)
  <2>1. PICK f : FundLauf(f, r, snapshot, N)
    BY <1>3
  <2>2. f = [n \in 0..N |-> IF n = 0 THEN LeererFund(r) ELSE LiesKategorie(f[n - 1], snapshot[n])]
    BY <2>1 DEF FundLauf
  <2> QED BY <2>2, Zenon DEF FundLauf
<1>5. Fund(snapshot, r) = h[N]
  BY Zenon DEF Fund
<1> HIDE DEF h
<1>6. h[0] = LeererFund(r)
  <2>1. 0 \in 0..N
    OBVIOUS
  <2> HIDE DEF N
  <2> QED BY <1>4, <2>1 DEF FundLauf
<1>7. ASSUME NEW n \in 0..N, n < N
      PROVE  h[n + 1] = LiesKategorie(h[n], snapshot[n + 1])
  <2>1. n + 1 \in 0..N /\ n + 1 # 0 /\ (n + 1) - 1 = n
    BY <1>7
  <2>2. h[n + 1] = IF n + 1 = 0 THEN LeererFund(r) ELSE LiesKategorie(h[(n + 1) - 1], snapshot[n + 1])
    BY <1>4, <2>1 DEF FundLauf
  <2> QED BY <2>1, <2>2, Zenon
<1> QED BY <1>5, <1>6, <1>7

-----------------------------------------------------------------------------
(* What the reader makes of a snapshot.                                    *)

FundFelder == {"Kategorien", "Unterkategorien", "Items", "ExtrasNamen", "ExtrasPreise",
               "extrasString", "extrasPreis", "trap"}

IstFund(z) == DOMAIN z = FundFelder

\* Extras leave the rest of the arrays alone.
OhneExtrasGleich(y, z) ==
  /\ IstFund(y) /\ IstFund(z)
  /\ y.Kategorien = z.Kategorien /\ y.Unterkategorien = z.Unterkategorien /\ y.Items = z.Items

LEMMA ExtraLaesst ==
  ASSUME NEW z, IstFund(z), NEW k, NEW u, NEW extra, NEW anzahl
  PROVE  OhneExtrasGleich(LiesExtra(z, k, u, extra, anzahl), z)
<1> DEFINE y == [z EXCEPT !.extrasString = Append(@, extra.Name),
                          !.extrasPreis = Append(@, extra.Preis)]
<1>1. OhneExtrasGleich(y, z)
  BY DEF OhneExtrasGleich, IstFund, FundFelder
<1>2. \A x : OhneExtrasGleich(x, z) =>
        /\ OhneExtrasGleich(Geleert(x), z)
        /\ OhneExtrasGleich(MitNeuerKategorie(x), z)
        /\ OhneExtrasGleich([x EXCEPT !.trap = TRUE], z)
  BY DEF OhneExtrasGleich, IstFund, FundFelder, Geleert, MitNeuerKategorie
<1>3. \A x, kk : OhneExtrasGleich(x, z) => OhneExtrasGleich(MitNeuerUnterkategorie(x, kk), z)
  BY DEF OhneExtrasGleich, IstFund, FundFelder, MitNeuerUnterkategorie
<1>4. \A x, kk, uu, vorne :
        OhneExtrasGleich(x, z) => OhneExtrasGleich(MitWeitererZeile(x, kk, uu, vorne), z)
  BY <1>2 DEF OhneExtrasGleich, IstFund, FundFelder, MitWeitererZeile
<1>5. OhneExtrasGleich(z, z)
  BY DEF OhneExtrasGleich
<1> DEFINE w == LiesExtra(z, k, u, extra, anzahl)
           y1 == IF y.ExtrasNamen = <<>> THEN MitNeuerKategorie(y) ELSE MitWeitererZeile(y, 1, 1, TRUE)
           y2 == IF Len(y.ExtrasNamen[k]) < u THEN MitNeuerUnterkategorie(y, k)
                                              ELSE MitWeitererZeile(y, k, u, FALSE)
           alle == Len(y.extrasString) = anzahl
           w1 == IF ~alle THEN y ELSE Geleert(y1)
           w2 == IF ~Vorhanden(y.ExtrasNamen, k) THEN [y EXCEPT !.trap = TRUE]
                 ELSE IF ~alle THEN y ELSE Geleert(y2)
           w3 == IF y.ExtrasNamen = <<>> THEN [y EXCEPT !.trap = TRUE]
                 ELSE IF Len(y.ExtrasNamen) < Len(y.Kategorien)
                   THEN IF alle THEN Geleert(MitNeuerKategorie(y)) ELSE y
                   ELSE IF alle THEN Geleert(MitWeitererZeile(y, k, u, FALSE)) ELSE y
           w4 == IF ~Vorhanden(y.ExtrasNamen, k) THEN [y EXCEPT !.trap = TRUE]
                 ELSE IF Len(y.ExtrasNamen[k]) < Len(y.Unterkategorien[k])
                   THEN Geleert(MitNeuerUnterkategorie(y, k))
                   ELSE IF alle THEN Geleert(MitWeitererZeile(y, k, u, FALSE)) ELSE y
<1>6. w = CASE z.trap -> z
            [] ~z.trap /\ k = 1 /\ u = 1 -> w1
            [] ~z.trap /\ k = 1 /\ u > 1 -> w2
            [] ~z.trap /\ k > 1 /\ u = 1 -> w3
            [] OTHER -> w4
  BY Zenon DEF LiesExtra
<1> HIDE DEF w, y
<1>7. /\ OhneExtrasGleich(w1, z) /\ OhneExtrasGleich(w2, z)
      /\ OhneExtrasGleich(w3, z) /\ OhneExtrasGleich(w4, z)
  <2>1. OhneExtrasGleich(y1, z) /\ OhneExtrasGleich(y2, z)
    BY <1>1, <1>2, <1>3, <1>4, Zenon
  <2> HIDE DEF y1, y2, alle
  <2>2. OhneExtrasGleich(w1, z) /\ OhneExtrasGleich(w2, z)
    BY <1>1, <1>2, <2>1, Zenon
  <2>3. OhneExtrasGleich(w3, z)
    BY <1>1, <1>2, <1>4, Zenon
  <2>4. OhneExtrasGleich(w4, z)
    BY <1>1, <1>2, <1>3, <1>4, Zenon
  <2> QED BY <2>2, <2>3, <2>4
<1> HIDE DEF w1, w2, w3, w4
<1>8. w \in {z, w1, w2, w3, w4}
  BY <1>6
<1> QED BY <1>5, <1>7, <1>8 DEF w

LEMMA ExtrasLassen ==
  ASSUME NEW z, IstFund(z), NEW k, NEW u, NEW extras, Len(extras) \in Nat
  PROVE  OhneExtrasGleich(LiesExtras(z, k, u, extras), z)
<1>1. PICK f : /\ f[0] = z /\ f[Len(extras)] = LiesExtras(z, k, u, extras)
               /\ \A n \in 0..Len(extras) : n < Len(extras) =>
                    f[n + 1] = LiesExtra(f[n], k, u, extras[n + 1], Len(extras))
  BY ExtrasNacheinander
<1> DEFINE N == Len(extras)
           T == {n \in 0..N : OhneExtrasGleich(f[n], z)}
<1>2. 0 \in T
  BY <1>1 DEF OhneExtrasGleich
<1>3. ASSUME NEW n \in T, n < N PROVE n + 1 \in T
  <2>1. n \in 0..N /\ n + 1 \in 0..N
    BY <1>3
  <2>2. OhneExtrasGleich(f[n], z)
    OBVIOUS
  <2>3. OhneExtrasGleich(f[n + 1], f[n])
    BY <1>1, <1>3, <2>1, <2>2, ExtraLaesst DEF OhneExtrasGleich
  <2>4. OhneExtrasGleich(f[n + 1], z)
    BY <2>2, <2>3 DEF OhneExtrasGleich
  <2> QED BY <2>1, <2>4
<1>4. N \in T
  <2>1. T \subseteq 0..N /\ N \in Nat /\ N \in 0..N
    OBVIOUS
  <2> HIDE DEF T, N
  <2> QED BY <1>2, <1>3, <2>1, BisNull
<1> QED BY <1>1, <1>4

LEMMA AlleExtrasLassen ==
  ASSUME NEW z, IstFund(z), NEW k, NEW u, NEW zeilen, Len(zeilen) \in Nat,
         \A n \in 1..Len(zeilen) : Len(zeilen[n].extras) \in Nat
  PROVE  OhneExtrasGleich(LiesAlleExtras(z, k, u, zeilen), z)
<1> DEFINE N == Len(zeilen)
<1>1. PICK f : /\ f[0] = z /\ f[N] = LiesAlleExtras(z, k, u, zeilen)
               /\ \A n \in 0..N : n < N =>
                    f[n + 1] = LiesExtras(f[n], k, u, zeilen[n + 1].extras)
  BY AlleExtrasNacheinander
<1> DEFINE T == {n \in 0..N : OhneExtrasGleich(f[n], z)}
<1>2. 0 \in T
  BY <1>1 DEF OhneExtrasGleich
<1>3. ASSUME NEW n \in T, n < N PROVE n + 1 \in T
  <2>1. n \in 0..N /\ n + 1 \in 0..N /\ n + 1 \in 1..N
    BY <1>3
  <2>2. OhneExtrasGleich(f[n], z)
    OBVIOUS
  <2>3. OhneExtrasGleich(f[n + 1], f[n])
    BY <1>1, <1>3, <2>1, <2>2, ExtrasLassen DEF OhneExtrasGleich
  <2>4. OhneExtrasGleich(f[n + 1], z)
    BY <2>2, <2>3 DEF OhneExtrasGleich
  <2> QED BY <2>1, <2>4
<1>4. N \in T
  <2>1. T \subseteq 0..N /\ N \in Nat /\ N \in 0..N
    OBVIOUS
  <2> HIDE DEF T, N
  <2> QED BY <1>2, <1>3, <2>1, BisNull
<1> QED BY <1>1, <1>4

IstSnapshot(s) ==
  /\ Folge(s) /\ Injektiv([k \in DOMAIN s |-> s[k].key])
  /\ \A k \in 1..Len(s) :
       /\ Folge(s[k].kinder) /\ Len(s[k].kinder) \in Nat \ {0}
       /\ Injektiv([u \in DOMAIN s[k].kinder |-> s[k].kinder[u].key])
       /\ \A u \in 1..Len(s[k].kinder) :
            /\ Folge(s[k].kinder[u].zeilen) /\ Len(s[k].kinder[u].zeilen) \in Nat \ {0}
            /\ \A i \in 1..Len(s[k].kinder[u].zeilen) :
                 Len(s[k].kinder[u].zeilen[i].extras) \in Nat

SollKategorien(s) == [k \in DOMAIN s |-> s[k].key]

SollUnterkategorien(s) ==
  [k \in DOMAIN s |-> [u \in DOMAIN s[k].kinder |-> s[k].kinder[u].key]]

\* A nested array, filled up to before its m-th list, of which the first n are there.
Halb(S, m, n) == IF n = 0 THEN Bis(S, m - 1) ELSE Append(Bis(S, m - 1), Bis(S[m], n))

\* An element more in the m-th list, or in the n-th of the m-th.
Mehr(f, m, w) == [f EXCEPT ![m] = Append(@, w)]
MehrIn(f, m, n, w) == [f EXCEPT ![m][n] = Append(@, w)]

LEMMA HalbBeginnt ==
  ASSUME NEW S, NEW m \in Nat \ {0}, NEW w, w = S[m][1]
  PROVE  Halb(S, m, 0) = Bis(S, m - 1) /\ Halb(S, m, 1) = Append(Bis(S, m - 1), <<w>>)
<1> DEFINE R == S[m]
<1>1. Halb(S, m, 0) = Bis(S, m - 1) /\ Halb(S, m, 1) = Append(Bis(S, m - 1), Bis(R, 1))
  BY DEF Halb
<1>2. w = R[1]
  OBVIOUS
<1> HIDE DEF R
<1>3. Bis(R, 1) = <<w>>
  <2>1. Folge(Bis(R, 1)) /\ Len(Bis(R, 1)) = 1 /\ \A i \in 1..1 : Bis(R, 1)[i] = R[i]
    BY BisLesen
  <2>2. Folge(<<w>>) /\ Len(<<w>>) = 1 /\ <<w>>[1] = w
    BY EinsFolge
  <2>3. \A i \in 1..1 : i = 1
    OBVIOUS
  <2> QED BY <1>2, <2>1, <2>2, <2>3, FolgenGleich
<1> QED BY <1>1, <1>3

LEMMA HalbWaechst ==
  ASSUME NEW S, NEW m \in Nat \ {0}, NEW n \in Nat \ {0}, NEW w, w = S[m][n + 1]
  PROVE  /\ Len(Halb(S, m, n)) = m /\ Halb(S, m, n)[m] = Bis(S[m], n)
         /\ Halb(S, m, n + 1) = Mehr(Halb(S, m, n), m, w)
<1> DEFINE R == S[m]  a == Bis(S, m - 1)  x == Bis(R, n)  y == Append(x, w)
<1>1. Halb(S, m, n) = Append(a, x) /\ Halb(S, m, n + 1) = Append(a, Bis(R, n + 1))
  BY DEF Halb
<1>2. w = R[n + 1] /\ m - 1 \in Nat /\ (m - 1) + 1 = m /\ n \in Nat
  OBVIOUS
<1> HIDE DEF R
<1>3. y = Bis(R, n + 1)
  BY <1>2, BisWaechst
<1>4. Folge(a) /\ m = Len(a) + 1
  BY <1>2, BisLesen
<1> HIDE DEF a, x
<1>5. Len(Append(a, x)) = m /\ Append(a, x)[m] = x
  BY <1>2, <1>4, AppendLesen
<1> DEFINE d == Append(a, x)
<1> HIDE DEF y
<1>6. [d EXCEPT ![m] = y] = Append(a, y)
  BY <1>4, LetztesErsetzt
<1> HIDE DEF d
<1>7. Mehr(d, m, w) = [d EXCEPT ![m] = y]
  BY <1>5 DEF d, y, Mehr
<1>8. Halb(S, m, n) = d /\ Halb(S, m, n + 1) = Mehr(d, m, w)
  BY <1>1, <1>3, <1>6, <1>7 DEF d
<1>9. Len(d) = m /\ d[m] = Bis(S[m], n)
  BY <1>5 DEF d, x, R
<1> QED BY <1>8, <1>9, Zenon

\* The last list is complete.
LEMMA HalbGanz ==
  ASSUME NEW S, NEW m \in Nat \ {0}, NEW n \in Nat \ {0}, Bis(S[m], n) = S[m]
  PROVE  Halb(S, m, n) = Bis(S, m) /\ Bis(S, m) = Halb(S, m + 1, 0)
<1>1. m - 1 \in Nat /\ (m - 1) + 1 = m /\ (m + 1) - 1 = m /\ n # 0
  OBVIOUS
<1>2. Append(Bis(S, m - 1), S[m]) = Bis(S, m)
  BY <1>1, BisWaechst
<1> QED BY <1>1, <1>2 DEF Halb

\* The lines read, when i lines of the u-th Unterkategorie of the k-th Kategorie are.
ItemsStand(S, k, u, i) ==
  IF i = 0 THEN Halb(S, k, u - 1) ELSE Append(Bis(S, k - 1), Halb(S[k], u, i))

\* The first line of a Kategorie, of a later Unterkategorie, and a later line.
LEMMA ErsteZeile ==
  ASSUME NEW S, NEW k \in Nat \ {0}, NEW w, w = S[k][1][1]
  PROVE  /\ Len(ItemsStand(S, k, 1, 0)) = k - 1
         /\ ItemsStand(S, k, 1, 1) = Append(ItemsStand(S, k, 1, 0), <<<<w>>>>)
<1>1. k - 1 \in Nat /\ 1 - 1 = 0 /\ 1 # 0
  OBVIOUS
<1>2. ItemsStand(S, k, 1, 0) = Bis(S, k - 1)
  BY <1>1 DEF ItemsStand, Halb
<1>3. Len(Bis(S, k - 1)) = k - 1
  BY <1>1, BisLesen
<1>4. Halb(S[k], 1, 1) = <<<<w>>>>
  <2> DEFINE v == <<w>>
  <2>1. Halb(S[k], 1, 1) = Append(Bis(S[k], 0), v)
    <3> DEFINE R == S[k]
    <3>1. w = R[1][1]
      OBVIOUS
    <3> HIDE DEF R
    <3>2. Halb(R, 1, 1) = Append(Bis(R, 0), v)
      BY <1>1, <3>1, HalbBeginnt
    <3> QED BY <3>2 DEF R
  <2>2. Bis(S[k], 0) = <<>>
    BY BisNichts
  <2> HIDE DEF v
  <2>3. Append(<<>>, v) = <<v>>
    OBVIOUS
  <2>4. Halb(S[k], 1, 1) = <<v>>
    BY <2>1, <2>2, <2>3, Zenon
  <2> QED BY <2>4 DEF v
<1>5. ItemsStand(S, k, 1, 1) = Append(Bis(S, k - 1), <<<<w>>>>)
  BY <1>1, <1>4 DEF ItemsStand
<1> QED BY <1>2, <1>3, <1>5

LEMMA ErsteDerUnterkategorie ==
  ASSUME NEW S, NEW k \in Nat \ {0}, NEW u \in Nat \ {0, 1}, NEW w, w = S[k][u][1]
  PROVE  /\ Len(ItemsStand(S, k, u, 0)) = k /\ Len(ItemsStand(S, k, u, 0)[k]) = u - 1
         /\ ItemsStand(S, k, u, 1) = Mehr(ItemsStand(S, k, u, 0), k, <<w>>)
<1> DEFINE a == Bis(S, k - 1)  b == Bis(S[k], u - 1)  c == Append(b, <<w>>)
<1>1. /\ k - 1 \in Nat /\ u - 1 \in Nat \ {0} /\ u - 1 # 0 /\ (k - 1) + 1 = k
      /\ u \in Nat \ {0}
  OBVIOUS
<1>2. ItemsStand(S, k, u, 0) = Append(a, b)
  BY <1>1 DEF ItemsStand, Halb
<1>3. Folge(a) /\ Len(a) = k - 1 /\ Len(b) = u - 1
  BY <1>1, BisLesen
<1>4. Halb(S[k], u, 1) = c
  <2> DEFINE R == S[k]
  <2>1. w = R[u][1]
    OBVIOUS
  <2> HIDE DEF R
  <2>2. Halb(R, u, 1) = Append(Bis(R, u - 1), <<w>>)
    BY <1>1, <2>1, HalbBeginnt
  <2> QED BY <2>2 DEF R
<1>5. ItemsStand(S, k, u, 1) = Append(a, c)
  BY <1>4 DEF ItemsStand
<1> HIDE DEF a, b
<1>6. Len(Append(a, b)) = k /\ Append(a, b)[k] = b
  BY <1>1, <1>3, AppendLesen
<1> DEFINE d == Append(a, b)
<1> HIDE DEF c
<1>7. [d EXCEPT ![k] = c] = Append(a, c)
  BY <1>1, <1>3, LetztesErsetzt
<1> HIDE DEF d
<1>8. Mehr(d, k, <<w>>) = [d EXCEPT ![k] = c]
  BY <1>6 DEF c, d, Mehr
<1> QED BY <1>2, <1>3, <1>5, <1>6, <1>7, <1>8 DEF d

\* After the next line w the items are danach.
MitWeiterer(items, danach, k, u, w) ==
  Len(items) = k /\ Len(items[k]) = u /\ danach = MehrIn(items, k, u, w)

LEMMA WeitereZeile ==
  ASSUME NEW S, NEW k \in Nat \ {0}, NEW u \in Nat \ {0}, NEW i \in Nat \ {0},
         NEW w, w = S[k][u][i + 1]
  PROVE  MitWeiterer(ItemsStand(S, k, u, i), ItemsStand(S, k, u, i + 1), k, u, w)
<1> DEFINE a == Bis(S, k - 1)  b == Halb(S[k], u, i)  c == Mehr(b, u, w)
<1>1. k - 1 \in Nat /\ (k - 1) + 1 = k /\ i + 1 # 0
  OBVIOUS
<1>2. ItemsStand(S, k, u, i) = Append(a, b)
  BY DEF ItemsStand
<1>3. Folge(a) /\ Len(a) = k - 1
  BY <1>1, BisLesen
<1>4. Len(b) = u /\ Halb(S[k], u, i + 1) = c
  <2> DEFINE R == S[k]
  <2>1. w = R[u][i + 1]
    OBVIOUS
  <2> HIDE DEF R
  <2>2. /\ Len(Halb(R, u, i)) = u
        /\ Halb(R, u, i + 1) = Mehr(Halb(R, u, i), u, w)
    BY <2>1, HalbWaechst
  <2> QED BY <2>2 DEF R
<1>5. ItemsStand(S, k, u, i + 1) = Append(a, c)
  BY <1>1, <1>4 DEF ItemsStand
<1> HIDE DEF a, b
<1>6. Len(Append(a, b)) = k /\ Append(a, b)[k] = b
  BY <1>1, <1>3, AppendLesen
<1> DEFINE d == Append(a, b)
<1> HIDE DEF c
<1>7. [d EXCEPT ![k] = c] = Append(a, c)
  BY <1>1, <1>3, LetztesErsetzt
<1> HIDE DEF d
<1>8. MehrIn(d, k, u, w) = [d EXCEPT ![k] = c]
  BY <1>6 DEF c, d, Mehr, MehrIn
<1> QED BY <1>2, <1>4, <1>5, <1>6, <1>7, <1>8 DEF d, MitWeiterer

\* Lines leave the extras alone.
ExtrasGleich(y, z) ==
  /\ y.trap = z.trap /\ y.ExtrasNamen = z.ExtrasNamen /\ y.ExtrasPreise = z.ExtrasPreise
  /\ y.extrasString = z.extrasString /\ y.extrasPreis = z.extrasPreis

\* A line more is read: the i-th of an Unterkategorie.
ItemGelesen(x, z, S, k, u, i) ==
  /\ IstFund(x) /\ x.Kategorien = z.Kategorien /\ x.Unterkategorien = z.Unterkategorien
  /\ ExtrasGleich(x, z) /\ x.Items = ItemsStand(S, k, u, i)

LEMMA ItemSchritt ==
  ASSUME NEW z, IstFund(z), NEW S, NEW k \in Nat \ {0}, NEW u \in Nat \ {0}, NEW i \in Nat,
         NEW w, w = S[k][u][i + 1],
         Len(z.Kategorien) = k, Len(z.Unterkategorien[k]) = u, z.Items = ItemsStand(S, k, u, i)
  PROVE  ItemGelesen(LiesItem(z, k, u, w), z, S, k, u, i + 1)
<1> DEFINE x == LiesItem(z, k, u, w)  alt == z.Items
<1>1. /\ IstFund(x) /\ x.Kategorien = z.Kategorien /\ x.Unterkategorien = z.Unterkategorien
      /\ ExtrasGleich(x, z)
      /\ x.Items = IF Len(alt) < k THEN Append(alt, <<<<w>>>>)
                   ELSE IF Len(alt[k]) < u THEN Mehr(alt, k, <<w>>)
                   ELSE MehrIn(alt, k, u, w)
  BY DEF Mehr, MehrIn, LiesItem, IstFund, FundFelder, ExtrasGleich
<1> HIDE DEF x, alt
<1>2. alt = ItemsStand(S, k, u, i)
  BY DEF alt
<1>3. x.Items = ItemsStand(S, k, u, i + 1)
  <2>1. CASE i = 0 /\ u = 1
    <3>1. i + 1 = 1 /\ k - 1 < k
      BY <2>1
    <3> QED BY <1>1, <1>2, <2>1, <3>1, ErsteZeile
  <2>2. CASE i = 0 /\ u # 1
    <3>1. i + 1 = 1 /\ u \in Nat \ {0, 1} /\ u - 1 < u /\ ~(k < k)
      BY <2>2
    <3> QED BY <1>1, <1>2, <2>2, <3>1, ErsteDerUnterkategorie
  <2>3. CASE i # 0
    <3>1. i \in Nat \ {0} /\ ~(u < u) /\ ~(k < k)
      BY <2>3
    <3>2. MitWeiterer(ItemsStand(S, k, u, i), ItemsStand(S, k, u, i + 1), k, u, w)
      BY <3>1, WeitereZeile
    <3>3. /\ Len(alt) = k /\ Len(alt[k]) = u
          /\ ItemsStand(S, k, u, i + 1) = MehrIn(alt, k, u, w)
      BY <1>2, <3>2, Zenon DEF MitWeiterer
    <3> QED BY <1>1, <3>1, <3>3
  <2> QED BY <2>1, <2>2, <2>3
<1> QED BY <1>1, <1>3 DEF x, ItemGelesen

\* The items of an Unterkategorie are those of its lines.
ItemsZu(items, zeilen) == \A i \in 1..Len(zeilen) : items[i] = zeilen[i].item

LEMMA ItemsLesen ==
  ASSUME NEW z, IstFund(z), NEW S, NEW k \in Nat \ {0}, NEW u \in Nat \ {0},
         NEW zeilen, Len(zeilen) \in Nat, ItemsZu(S[k][u], zeilen),
         Len(z.Kategorien) = k, Len(z.Unterkategorien[k]) = u, z.Items = ItemsStand(S, k, u, 0),
         NEW x, x = LiesItems(z, k, u, zeilen)
  PROVE  /\ IstFund(x) /\ x.Kategorien = z.Kategorien /\ x.Unterkategorien = z.Unterkategorien
         /\ ExtrasGleich(x, z) /\ x.Items = ItemsStand(S, k, u, Len(zeilen))
<1> DEFINE P(y, n) == /\ IstFund(y) /\ y.Kategorien = z.Kategorien /\ ExtrasGleich(y, z)
                      /\ y.Unterkategorien = z.Unterkategorien /\ y.Items = ItemsStand(S, k, u, n)
<1>1. PICK f : /\ f[0] = z /\ f[Len(zeilen)] = LiesItems(z, k, u, zeilen)
               /\ \A n \in 0..Len(zeilen) : n < Len(zeilen) =>
                    f[n + 1] = LiesItem(f[n], k, u, zeilen[n + 1].item)
  BY ItemsNacheinander
<1> DEFINE N == Len(zeilen)
           T == {n \in 0..N : P(f[n], n)}
<1>2. 0 \in T
  BY <1>1 DEF ExtrasGleich
<1>3. ASSUME NEW n \in T, n < N PROVE n + 1 \in T
  <2>1. n \in 0..N /\ n + 1 \in 0..N /\ n + 1 \in 1..N /\ n \in Nat
    BY <1>3
  <2>2. P(f[n], n)
    OBVIOUS
  <2> DEFINE y == f[n]  w == zeilen[n + 1].item
  <2>3. f[n + 1] = LiesItem(y, k, u, w)
    BY <1>1, <1>3, <2>1
  <2>4. w = S[k][u][n + 1]
    BY <2>1 DEF ItemsZu
  <2>5. P(y, n)
    BY <2>2
  <2>8. /\ IstFund(y) /\ Len(y.Kategorien) = k /\ Len(y.Unterkategorien[k]) = u
        /\ y.Items = ItemsStand(S, k, u, n)
    BY <2>5
  <2> HIDE DEF y, w, T, N
  <2>9. ItemGelesen(LiesItem(y, k, u, w), y, S, k, u, n + 1)
    BY <2>1, <2>4, <2>8, ItemSchritt
  <2>6. P(LiesItem(y, k, u, w), n + 1)
    BY <2>5, <2>9 DEF ItemGelesen, ExtrasGleich
  <2>7. P(f[n + 1], n + 1)
    BY <2>3, <2>6
  <2> QED BY <2>1, <2>7 DEF T
<1>4. N \in T
  <2>1. T \subseteq 0..N /\ N \in Nat /\ N \in 0..N
    OBVIOUS
  <2> HIDE DEF T, N
  <2> QED BY <1>2, <1>3, <2>1, BisNull
<1> QED BY <1>1, <1>4

-----------------------------------------------------------------------------
(* Prices that belong to names: pr[n] is the price of an extra of name n.   *)

\* The names and prices of the extras of a line.
Bepreist(pr, n, p) ==
  Folge(n) /\ Folge(p) /\ Len(p) = Len(n) /\ \A j \in 1..Len(n) : p[j] = pr[n[j]]

\* Those of the lines of an Unterkategorie: line by line, except in the first of the
\* order, where new prices come to the front.
Gemischt(pr, n, p) ==
  /\ \A v \in ToSet(n) : \E w \in ToSet(p) : Bepreist(pr, v, w)
  /\ \A w \in ToSet(p) : \E v \in ToSet(n) : Bepreist(pr, v, w)

ListeBepreist(pr, k, u, n, p) ==
  /\ Folge(n) /\ Folge(p) /\ Len(p) = Len(n)
  /\ k = 1 /\ u = 1 => Gemischt(pr, n, p)
  /\ ~(k = 1 /\ u = 1) => \A i \in 1..Len(n) : Bepreist(pr, n[i], p[i])

\* Those of a Kategorie, and of an order.
KategorieBepreist(pr, k, n, p) ==
  /\ Folge(n) /\ Folge(p) /\ Len(p) = Len(n)
  /\ \A u \in 1..Len(n) : ListeBepreist(pr, k, u, n[u], p[u])

AllesBepreist(pr, n, p) ==
  /\ Folge(n) /\ Folge(p) /\ Len(p) = Len(n)
  /\ \A k \in 1..Len(n) : KategorieBepreist(pr, k, n[k], p[k])

PreisTreu(pr, z) ==
  AllesBepreist(pr, z.ExtrasNamen, z.ExtrasPreise) /\ Bepreist(pr, z.extrasString, z.extrasPreis)

LEMMA AppendFall ==
  ASSUME NEW s, Folge(s), NEW x
  PROVE  /\ Folge(Append(s, x)) /\ Len(Append(s, x)) = Len(s) + 1 /\ Len(s) \in Nat
         /\ \A i \in 1..(Len(s) + 1) : \/ i = Len(s) + 1 /\ Append(s, x)[i] = x
                                       \/ i \in 1..Len(s) /\ Append(s, x)[i] = s[i]
         /\ ToSet(Append(s, x)) = ToSet(s) \cup {x}
<1> DEFINE a == Append(s, x)
<1>1. /\ Folge(a) /\ Len(a) = Len(s) + 1 /\ Len(s) \in Nat
      /\ (\A i \in 1..Len(s) : a[i] = s[i]) /\ a[Len(s) + 1] = x
  BY AppendLesen
<1> HIDE DEF a
<1>2. \A i \in 1..(Len(s) + 1) : i = Len(s) + 1 \/ i \in 1..Len(s)
  BY <1>1
<1>3. /\ DOMAIN s = 1..Len(s) /\ DOMAIN a = 1..(Len(s) + 1) /\ Len(s) + 1 \in 1..(Len(s) + 1)
      /\ \A i \in 1..Len(s) : i \in 1..(Len(s) + 1)
  BY <1>1, BisGanz
<1>4. ToSet(a) = ToSet(s) \cup {x}
  BY <1>1, <1>2, <1>3 DEF ToSet
<1> QED BY <1>1, <1>2, <1>4 DEF a

Ersetzt(t, s, m, x) == t = [s EXCEPT ![m] = x]

LEMMA ExceptFall ==
  ASSUME NEW s, Folge(s), NEW m \in 1..Len(s), NEW x, NEW t, Ersetzt(t, s, m, x)
  PROVE  /\ Folge(t) /\ Len(t) = Len(s) /\ t[m] = x
         /\ \A i \in 1..Len(s) : i # m => t[i] = s[i]
<1> DEFINE S == ToSet(s) \cup {x}
<1>1. s \in Seq(S) /\ x \in S
  BY SeqMonotonic DEF Folge
<1> HIDE DEF S
<1>2. /\ t \in Seq(S) /\ Len(t) = Len(s) /\ t[m] = x
      /\ \A i \in 1..Len(s) : i # m => t[i] = s[i]
  BY <1>1 DEF Ersetzt
<1> QED BY <1>2, FolgeIhrerWerte DEF Folge

\* One element more at the front.
LEMMA VorneFall ==
  ASSUME NEW s, Folge(s), NEW x, NEW t, t = <<x>> \o s
  PROVE  /\ Folge(t) /\ Len(t) = Len(s) + 1 /\ Len(s) \in Nat /\ t[1] = x
         /\ ToSet(t) = ToSet(s) \cup {x}
<1> DEFINE e == <<x>>  S == ToSet(s) \cup {x}
<1>1. s \in Seq(S) /\ x \in S /\ Len(s) \in Nat
  BY SeqMonotonic DEF Folge
<1>2. e \in Seq(S) /\ Len(e) = 1 /\ e[1] = x /\ t = e \o s
  BY <1>1
<1> HIDE DEF e, S
<1>3. /\ t \in Seq(S) /\ Len(t) = Len(e) + Len(s)
      /\ \A i \in 1..(Len(e) + Len(s)) : t[i] = IF i <= Len(e) THEN e[i] ELSE s[i - Len(e)]
  BY <1>1, <1>2, ConcatProperties
<1>4. /\ Len(t) = Len(s) + 1
      /\ \A i \in 1..(Len(s) + 1) : t[i] = IF i <= 1 THEN e[i] ELSE s[i - 1]
  BY <1>1, <1>2, <1>3
<1>5. /\ t[1] = x /\ \A i \in 1..Len(s) : i + 1 \in 1..(Len(s) + 1) /\ t[i + 1] = s[i]
      /\ \A i \in 1..(Len(s) + 1) : i = 1 \/ (i - 1 \in 1..Len(s) /\ t[i] = s[i - 1])
  BY <1>1, <1>2, <1>4
<1>6. Folge(t)
  BY <1>3, FolgeIhrerWerte DEF Folge
<1>7. DOMAIN s = 1..Len(s) /\ DOMAIN t = 1..(Len(s) + 1) /\ 1 \in 1..(Len(s) + 1)
  BY <1>1, <1>4, <1>6, BisGanz
<1>8. ToSet(t) = ToSet(s) \cup {x}
  <2>1. \A v \in ToSet(t) : v \in ToSet(s) \cup {x}
    BY <1>5, <1>7 DEF ToSet
  <2>2. \A v \in ToSet(s) : v \in ToSet(t)
    BY <1>5, <1>7 DEF ToSet
  <2>3. x \in ToSet(t)
    BY <1>5, <1>7 DEF ToSet
  <2> QED BY <2>1, <2>2, <2>3
<1> QED BY <1>1, <1>4, <1>5, <1>6, <1>8

LEMMA NameMehr ==
  ASSUME NEW pr, NEW n, NEW p, Bepreist(pr, n, p), NEW x, NEW y, y = pr[x]
  PROVE  Bepreist(pr, Append(n, x), Append(p, y))
<1>1. Folge(n) /\ Folge(p) /\ Len(p) = Len(n) /\ \A j \in 1..Len(n) : p[j] = pr[n[j]]
  BY DEF Bepreist
<1> DEFINE a == Append(n, x)  b == Append(p, y)  N == Len(n)
<1>2. /\ Folge(a) /\ Len(a) = N + 1 /\ N \in Nat
      /\ \A i \in 1..(N + 1) : (i = N + 1 /\ a[i] = x) \/ (i \in 1..N /\ a[i] = n[i])
  BY <1>1, AppendFall
<1>3. /\ Folge(b) /\ Len(b) = N + 1
      /\ \A i \in 1..(N + 1) : (i = N + 1 /\ b[i] = y) \/ (i \in 1..N /\ b[i] = p[i])
  <2>1. /\ Folge(b) /\ Len(b) = Len(p) + 1
        /\ \A i \in 1..(Len(p) + 1) : (i = Len(p) + 1 /\ b[i] = y) \/ (i \in 1..Len(p) /\ b[i] = p[i])
    BY <1>1, AppendFall
  <2> HIDE DEF b
  <2> QED BY <1>1, <2>1
<1> HIDE DEF a, b, N
<1>4. \A i \in 1..(N + 1) : b[i] = pr[a[i]]
  <2> SUFFICES ASSUME NEW i \in 1..(N + 1) PROVE b[i] = pr[a[i]]
    OBVIOUS
  <2>1. CASE i = N + 1
    <3>1. i \notin 1..N
      BY <1>2, <2>1
    <3> QED BY <1>2, <1>3, <3>1
  <2>2. CASE i # N + 1
    <3>1. i \in 1..N /\ a[i] = n[i] /\ b[i] = p[i]
      BY <1>2, <1>3, <2>2
    <3> QED BY <1>1, <3>1 DEF N
  <2> QED BY <2>1, <2>2
<1>5. Bepreist(pr, a, b)
  BY <1>2, <1>3, <1>4 DEF Bepreist
<1> QED BY <1>5 DEF a, b

LEMMA ListeEins ==
  ASSUME NEW pr, NEW k, NEW u, NEW x, NEW y, Bepreist(pr, x, y)
  PROVE  ListeBepreist(pr, k, u, <<x>>, <<y>>)
<1> DEFINE a == <<x>>  b == <<y>>
<1>1. /\ Len(a) = 1 /\ Len(b) = 1 /\ a[1] = x /\ b[1] = y /\ Folge(a) /\ Folge(b) /\ 1..1 = {1}
      /\ ToSet(a) = {x} /\ ToSet(b) = {y}
  BY EinsFolge
<1> HIDE DEF a, b
<1>2. Gemischt(pr, a, b)
  BY <1>1 DEF Gemischt
<1>3. ListeBepreist(pr, k, u, a, b)
  BY <1>1, <1>2 DEF ListeBepreist
<1> QED BY <1>3 DEF a, b

\* One line more: its prices at the end, or at the front of the first list.
LEMMA ListeMehr ==
  ASSUME NEW pr, NEW k, NEW u, NEW n, NEW p, ListeBepreist(pr, k, u, n, p),
         NEW x, NEW y, Bepreist(pr, x, y)
  PROVE  /\ ListeBepreist(pr, k, u, Append(n, x), Append(p, y))
         /\ k = 1 /\ u = 1 => ListeBepreist(pr, k, u, Append(n, x), <<y>> \o p)
<1> DEFINE a == Append(n, x)  b == Append(p, y)  c == <<y>> \o p  N == Len(n)  M == N + 1
<1>1. /\ Folge(n) /\ Folge(p) /\ Len(p) = N
      /\ k = 1 /\ u = 1 => Gemischt(pr, n, p)
      /\ ~(k = 1 /\ u = 1) => \A i \in 1..N : Bepreist(pr, n[i], p[i])
  BY DEF ListeBepreist
<1>2. /\ Folge(a) /\ Len(a) = M /\ N \in Nat /\ ToSet(a) = ToSet(n) \cup {x}
      /\ \A i \in 1..M : (i = M /\ a[i] = x) \/ (i \in 1..N /\ a[i] = n[i])
  BY <1>1, AppendFall
<1>3. /\ Folge(b) /\ Len(b) = M /\ ToSet(b) = ToSet(p) \cup {y}
      /\ \A i \in 1..M : (i = M /\ b[i] = y) \/ (i \in 1..N /\ b[i] = p[i])
  <2>1. /\ Folge(b) /\ Len(b) = Len(p) + 1 /\ ToSet(b) = ToSet(p) \cup {y}
        /\ \A i \in 1..(Len(p) + 1) : (i = Len(p) + 1 /\ b[i] = y) \/ (i \in 1..Len(p) /\ b[i] = p[i])
    BY <1>1, AppendFall
  <2> HIDE DEF b
  <2> QED BY <1>1, <2>1
<1>4. Folge(c) /\ Len(c) = M /\ ToSet(c) = ToSet(p) \cup {y}
  <2>1. c = <<y>> \o p
    OBVIOUS
  <2> HIDE DEF c
  <2>2. Folge(c) /\ Len(c) = Len(p) + 1 /\ ToSet(c) = ToSet(p) \cup {y}
    BY <1>1, <2>1, VorneFall
  <2> QED BY <1>1, <2>2
<1> HIDE DEF a, b, c
<1>5. \A i \in 1..N : i \in 1..M /\ i # M
  BY <1>2
<1> HIDE DEF N, M
<1>6. ASSUME k = 1, u = 1 PROVE Gemischt(pr, a, b) /\ Gemischt(pr, a, c)
  <2>1. Gemischt(pr, n, p)
    BY <1>1, <1>6
  <2> QED BY <1>2, <1>3, <1>4, <2>1 DEF Gemischt
<1>7. ASSUME ~(k = 1 /\ u = 1), NEW i \in 1..M PROVE Bepreist(pr, a[i], b[i])
  <2>1. CASE i = M
    BY <1>2, <1>3, <1>5, <2>1
  <2>2. CASE i # M
    BY <1>1, <1>2, <1>3, <1>7, <2>2
  <2> QED BY <2>1, <2>2
<1>8. /\ ListeBepreist(pr, k, u, a, b)
      /\ k = 1 /\ u = 1 => ListeBepreist(pr, k, u, a, c)
  BY <1>2, <1>3, <1>4, <1>6, <1>7 DEF ListeBepreist
<1> QED BY <1>8 DEF a, b, c

LEMMA KategorieEins ==
  ASSUME NEW pr, NEW k, NEW n, NEW p, ListeBepreist(pr, k, 1, n, p)
  PROVE  KategorieBepreist(pr, k, <<n>>, <<p>>)
<1> DEFINE a == <<n>>  b == <<p>>
<1>1. Len(a) = 1 /\ Len(b) = 1 /\ a[1] = n /\ b[1] = p /\ Folge(a) /\ Folge(b) /\ 1..1 = {1}
  BY EinsFolge
<1> HIDE DEF a, b
<1>2. KategorieBepreist(pr, k, a, b)
  BY <1>1 DEF KategorieBepreist
<1> QED BY <1>2 DEF a, b

LEMMA KategorieMehr ==
  ASSUME NEW pr, NEW k, NEW n, NEW p, KategorieBepreist(pr, k, n, p),
         NEW x, NEW y, \A u : ListeBepreist(pr, k, u, x, y)
  PROVE  KategorieBepreist(pr, k, Append(n, x), Append(p, y))
<1> DEFINE a == Append(n, x)  b == Append(p, y)  N == Len(n)  M == N + 1
<1>1. /\ Folge(n) /\ Folge(p) /\ Len(p) = N
      /\ \A u \in 1..N : ListeBepreist(pr, k, u, n[u], p[u])
  BY DEF KategorieBepreist
<1>2. /\ Folge(a) /\ Len(a) = M /\ N \in Nat
      /\ \A i \in 1..M : (i = M /\ a[i] = x) \/ (i \in 1..N /\ a[i] = n[i])
  BY <1>1, AppendFall
<1>3. /\ Folge(b) /\ Len(b) = M
      /\ \A i \in 1..M : (i = M /\ b[i] = y) \/ (i \in 1..N /\ b[i] = p[i])
  <2>1. /\ Folge(b) /\ Len(b) = Len(p) + 1
        /\ \A i \in 1..(Len(p) + 1) : (i = Len(p) + 1 /\ b[i] = y) \/ (i \in 1..Len(p) /\ b[i] = p[i])
    BY <1>1, AppendFall
  <2> HIDE DEF b
  <2> QED BY <1>1, <2>1
<1> HIDE DEF a, b
<1>4. \A i \in 1..N : i # M
  BY <1>2
<1> HIDE DEF N, M
<1>5. ASSUME NEW i \in 1..M PROVE ListeBepreist(pr, k, i, a[i], b[i])
  <2>1. CASE i = M
    BY <1>2, <1>3, <1>4, <2>1
  <2>2. CASE i # M
    BY <1>1, <1>2, <1>3, <2>2
  <2> QED BY <2>1, <2>2
<1>6. KategorieBepreist(pr, k, a, b)
  BY <1>2, <1>3, <1>5 DEF KategorieBepreist
<1> QED BY <1>6 DEF a, b

LEMMA KategorieAn ==
  ASSUME NEW pr, NEW k, NEW n, NEW p, KategorieBepreist(pr, k, n, p), NEW u \in 1..Len(n),
         NEW x, NEW y, ListeBepreist(pr, k, u, x, y),
         NEW a, Ersetzt(a, n, u, x), NEW b, Ersetzt(b, p, u, y)
  PROVE  KategorieBepreist(pr, k, a, b)
<1>1. /\ Folge(n) /\ Folge(p) /\ Len(p) = Len(n)
      /\ \A i \in 1..Len(n) : ListeBepreist(pr, k, i, n[i], p[i])
  BY DEF KategorieBepreist
<1>2. /\ Folge(a) /\ Len(a) = Len(n) /\ a[u] = x
      /\ \A i \in 1..Len(n) : i # u => a[i] = n[i]
  BY <1>1, ExceptFall
<1>3. u \in 1..Len(p)
  BY <1>1
<1>4. /\ Folge(b) /\ Len(b) = Len(n) /\ b[u] = y
      /\ \A i \in 1..Len(n) : i # u => b[i] = p[i]
  BY <1>1, <1>3, ExceptFall
<1>5. ASSUME NEW i \in 1..Len(n) PROVE ListeBepreist(pr, k, i, a[i], b[i])
  <2>1. CASE i = u
    BY <1>2, <1>4, <2>1
  <2>2. CASE i # u
    BY <1>1, <1>2, <1>4, <2>2
  <2> QED BY <2>1, <2>2
<1> QED BY <1>2, <1>4, <1>5 DEF KategorieBepreist

LEMMA AllesMehr ==
  ASSUME NEW pr, NEW n, NEW p, AllesBepreist(pr, n, p),
         NEW x, NEW y, \A k : KategorieBepreist(pr, k, x, y)
  PROVE  AllesBepreist(pr, Append(n, x), Append(p, y))
<1> DEFINE a == Append(n, x)  b == Append(p, y)  N == Len(n)  M == N + 1
<1>1. /\ Folge(n) /\ Folge(p) /\ Len(p) = N
      /\ \A k \in 1..N : KategorieBepreist(pr, k, n[k], p[k])
  BY DEF AllesBepreist
<1>2. /\ Folge(a) /\ Len(a) = M /\ N \in Nat
      /\ \A i \in 1..M : (i = M /\ a[i] = x) \/ (i \in 1..N /\ a[i] = n[i])
  BY <1>1, AppendFall
<1>3. /\ Folge(b) /\ Len(b) = M
      /\ \A i \in 1..M : (i = M /\ b[i] = y) \/ (i \in 1..N /\ b[i] = p[i])
  <2>1. /\ Folge(b) /\ Len(b) = Len(p) + 1
        /\ \A i \in 1..(Len(p) + 1) : (i = Len(p) + 1 /\ b[i] = y) \/ (i \in 1..Len(p) /\ b[i] = p[i])
    BY <1>1, AppendFall
  <2> HIDE DEF b
  <2> QED BY <1>1, <2>1
<1> HIDE DEF a, b
<1>4. \A i \in 1..N : i # M
  BY <1>2
<1> HIDE DEF N, M
<1>5. ASSUME NEW i \in 1..M PROVE KategorieBepreist(pr, i, a[i], b[i])
  <2>1. CASE i = M
    BY <1>2, <1>3, <1>4, <2>1
  <2>2. CASE i # M
    BY <1>1, <1>2, <1>3, <2>2
  <2> QED BY <2>1, <2>2
<1>6. AllesBepreist(pr, a, b)
  BY <1>2, <1>3, <1>5 DEF AllesBepreist
<1> QED BY <1>6 DEF a, b

LEMMA AllesAn ==
  ASSUME NEW pr, NEW n, NEW p, AllesBepreist(pr, n, p), NEW k \in 1..Len(n),
         NEW x, NEW y, KategorieBepreist(pr, k, x, y),
         NEW a, Ersetzt(a, n, k, x), NEW b, Ersetzt(b, p, k, y)
  PROVE  AllesBepreist(pr, a, b)
<1>1. /\ Folge(n) /\ Folge(p) /\ Len(p) = Len(n)
      /\ \A i \in 1..Len(n) : KategorieBepreist(pr, i, n[i], p[i])
  BY DEF AllesBepreist
<1>2. /\ Folge(a) /\ Len(a) = Len(n) /\ a[k] = x
      /\ \A i \in 1..Len(n) : i # k => a[i] = n[i]
  BY <1>1, ExceptFall
<1>3. k \in 1..Len(p)
  BY <1>1
<1>4. /\ Folge(b) /\ Len(b) = Len(n) /\ b[k] = y
      /\ \A i \in 1..Len(n) : i # k => b[i] = p[i]
  BY <1>1, <1>3, ExceptFall
<1>5. ASSUME NEW i \in 1..Len(n) PROVE KategorieBepreist(pr, i, a[i], b[i])
  <2>1. CASE i = k
    BY <1>2, <1>4, <2>1
  <2>2. CASE i # k
    BY <1>1, <1>2, <1>4, <2>2
  <2> QED BY <2>1, <2>2
<1> QED BY <1>2, <1>4, <1>5 DEF AllesBepreist

\* What the reader does with the extras it has collected.
LEMMA NeueKategorieBepreist ==
  ASSUME NEW pr, NEW z, IstFund(z), PreisTreu(pr, z)
  PROVE  PreisTreu(pr, Geleert(MitNeuerKategorie(z)))
<1> DEFINE w == Geleert(MitNeuerKategorie(z))  l == z.extrasString  m == z.extrasPreis
           x == <<<<l>>>>  y == <<<<m>>>>
<1>1. Bepreist(pr, l, m) /\ AllesBepreist(pr, z.ExtrasNamen, z.ExtrasPreise)
  BY DEF PreisTreu
<1>2. /\ w.ExtrasNamen = Append(z.ExtrasNamen, x) /\ w.ExtrasPreise = Append(z.ExtrasPreise, y)
      /\ w.extrasString = <<>> /\ w.extrasPreis = <<>>
  BY DEF Geleert, MitNeuerKategorie, IstFund, FundFelder
<1> HIDE DEF w, l, m
<1>3. \A k, u : ListeBepreist(pr, k, u, <<l>>, <<m>>)
  BY <1>1, ListeEins
<1>4. \A k : KategorieBepreist(pr, k, x, y)
  <2> DEFINE a == <<l>>  b == <<m>>
  <2>1. \A k : ListeBepreist(pr, k, 1, a, b)
    BY <1>3
  <2> HIDE DEF a, b
  <2>2. \A k : KategorieBepreist(pr, k, <<a>>, <<b>>)
    BY <2>1, KategorieEins
  <2> QED BY <2>2 DEF a, b
<1> HIDE DEF x, y
<1>5. AllesBepreist(pr, w.ExtrasNamen, w.ExtrasPreise)
  BY <1>1, <1>2, <1>4, AllesMehr
<1>6. Bepreist(pr, <<>>, <<>>)
  BY LeereFolge DEF Bepreist
<1> QED BY <1>2, <1>5, <1>6 DEF PreisTreu, w

LEMMA NeueUnterkategorieBepreist ==
  ASSUME NEW pr, NEW z, IstFund(z), PreisTreu(pr, z), NEW k \in 1..Len(z.ExtrasNamen)
  PROVE  PreisTreu(pr, Geleert(MitNeuerUnterkategorie(z, k)))
<1> DEFINE w == Geleert(MitNeuerUnterkategorie(z, k))  l == z.extrasString  m == z.extrasPreis
           n == z.ExtrasNamen  p == z.ExtrasPreise
           x == <<l>>  y == <<m>>  nn == Append(n[k], x)  pp == Append(p[k], y)
<1>1. /\ Bepreist(pr, l, m) /\ AllesBepreist(pr, n, p)
      /\ KategorieBepreist(pr, k, n[k], p[k])
  BY DEF PreisTreu, AllesBepreist
<1>2. /\ Ersetzt(w.ExtrasNamen, n, k, nn) /\ Ersetzt(w.ExtrasPreise, p, k, pp)
      /\ w.extrasString = <<>> /\ w.extrasPreis = <<>>
  BY DEF Ersetzt, Geleert, MitNeuerUnterkategorie, IstFund, FundFelder
<1> HIDE DEF w, l, m
<1>3. \A u : ListeBepreist(pr, k, u, x, y)
  BY <1>1, ListeEins
<1> HIDE DEF x, y
<1>4. KategorieBepreist(pr, k, nn, pp)
  BY <1>1, <1>3, KategorieMehr
<1>5. k \in 1..Len(n)
  OBVIOUS
<1> HIDE DEF nn, pp, n, p
<1>6. AllesBepreist(pr, w.ExtrasNamen, w.ExtrasPreise)
  BY <1>1, <1>2, <1>4, <1>5, AllesAn
<1>7. Bepreist(pr, <<>>, <<>>)
  BY LeereFolge DEF Bepreist
<1> QED BY <1>2, <1>6, <1>7 DEF PreisTreu, w

LEMMA WeitereZeileBepreist ==
  ASSUME NEW pr, NEW z, IstFund(z), PreisTreu(pr, z), NEW k \in 1..Len(z.ExtrasNamen),
         NEW u, NEW vorne \in BOOLEAN, vorne => k = 1 /\ u = 1
  PROVE  PreisTreu(pr, Geleert(MitWeitererZeile(z, k, u, vorne)))
<1> DEFINE w == Geleert(MitWeitererZeile(z, k, u, vorne))  l == z.extrasString  m == z.extrasPreis
           n == z.ExtrasNamen  p == z.ExtrasPreise
           x == Append(n[k][u], l)
           y == IF vorne THEN <<m>> \o p[k][u] ELSE Append(p[k][u], m)
           nn == [n[k] EXCEPT ![u] = x]  pp == [p[k] EXCEPT ![u] = y]
<1>1. /\ Bepreist(pr, l, m) /\ AllesBepreist(pr, n, p)
      /\ KategorieBepreist(pr, k, n[k], p[k])
  BY DEF PreisTreu, AllesBepreist
<1>2. Bepreist(pr, <<>>, <<>>)
  BY LeereFolge DEF Bepreist
<1>3. CASE u \notin DOMAIN n[k]
  <2>1. /\ w.ExtrasNamen = n /\ w.ExtrasPreise = p
        /\ w.extrasString = <<>> /\ w.extrasPreis = <<>>
    BY <1>3 DEF Geleert, MitWeitererZeile, Vorhanden, IstFund, FundFelder
  <2> HIDE DEF w
  <2>2. PreisTreu(pr, w)
    BY <1>1, <1>2, <2>1 DEF PreisTreu
  <2> QED BY <2>2 DEF w
<1>4. CASE u \in DOMAIN n[k]
  <2>1. /\ Ersetzt(w.ExtrasNamen, n, k, nn) /\ Ersetzt(w.ExtrasPreise, p, k, pp)
        /\ w.extrasString = <<>> /\ w.extrasPreis = <<>>
    BY <1>4 DEF Ersetzt, Geleert, MitWeitererZeile, Vorhanden, IstFund, FundFelder
  <2> HIDE DEF w, l, m
  <2>2. k \in 1..Len(n)
    OBVIOUS
  <2> HIDE DEF n, p
  <2>3. u \in 1..Len(n[k]) /\ ListeBepreist(pr, k, u, n[k][u], p[k][u])
    <3>1. Folge(n[k])
      BY <1>1 DEF KategorieBepreist
    <3>2. u \in 1..Len(n[k])
      BY <1>4, <3>1, BisGanz
    <3> QED BY <1>1, <3>2 DEF KategorieBepreist
  <2>4. ListeBepreist(pr, k, u, x, y)
    <3> DEFINE a == n[k][u]  b == p[k][u]
    <3>1. ListeBepreist(pr, k, u, a, b)
      BY <2>3
    <3> HIDE DEF a, b
    <3>2. /\ ListeBepreist(pr, k, u, Append(a, l), Append(b, m))
          /\ k = 1 /\ u = 1 => ListeBepreist(pr, k, u, Append(a, l), <<m>> \o b)
      BY <1>1, <3>1, ListeMehr
    <3>3. CASE vorne
      BY <3>2, <3>3, Zenon DEF a, b
    <3>4. CASE ~vorne
      BY <3>2, <3>4, Zenon DEF a, b
    <3> QED BY <3>3, <3>4
  <2> HIDE DEF x, y
  <2>5. KategorieBepreist(pr, k, nn, pp)
    <3>1. Ersetzt(nn, n[k], u, x) /\ Ersetzt(pp, p[k], u, y)
      BY DEF Ersetzt
    <3> HIDE DEF nn, pp
    <3> QED BY <1>1, <2>3, <2>4, <3>1, KategorieAn
  <2> HIDE DEF nn, pp
  <2>6. AllesBepreist(pr, w.ExtrasNamen, w.ExtrasPreise)
    BY <1>1, <2>1, <2>2, <2>5, AllesAn
  <2>7. PreisTreu(pr, w)
    BY <1>2, <2>1, <2>6 DEF PreisTreu
  <2> QED BY <2>7 DEF w
<1> QED BY <1>3, <1>4

\* An extra, in each branch.
LEMMA ExtraBepreist ==
  ASSUME NEW pr, NEW z, IstFund(z), PreisTreu(pr, z), NEW k \in Nat \ {0}, Len(z.Kategorien) = k,
         NEW u, NEW extra, extra.Preis = pr[extra.Name], NEW anzahl
  PROVE  PreisTreu(pr, LiesExtra(z, k, u, extra, anzahl))
<1> DEFINE w == LiesExtra(z, k, u, extra, anzahl)
           y == [z EXCEPT !.extrasString = Append(@, extra.Name),
                          !.extrasPreis = Append(@, extra.Preis)]
           alle == Len(y.extrasString) = anzahl
           kat == Geleert(MitNeuerKategorie(y))
           ukat == Geleert(MitNeuerUnterkategorie(y, k))
           weiter == Geleert(MitWeitererZeile(y, k, u, FALSE))
           y1 == IF y.ExtrasNamen = <<>> THEN MitNeuerKategorie(y)
                                         ELSE MitWeitererZeile(y, 1, 1, TRUE)
           y2 == IF Len(y.ExtrasNamen[k]) < u THEN MitNeuerUnterkategorie(y, k)
                                              ELSE MitWeitererZeile(y, k, u, FALSE)
           falle == [y EXCEPT !.trap = TRUE]
           w1 == IF ~alle THEN y ELSE Geleert(y1)
           w2 == IF ~Vorhanden(y.ExtrasNamen, k) THEN falle ELSE IF ~alle THEN y ELSE Geleert(y2)
           w3 == IF y.ExtrasNamen = <<>> THEN falle
                 ELSE IF Len(y.ExtrasNamen) < Len(y.Kategorien)
                   THEN IF alle THEN kat ELSE y
                   ELSE IF alle THEN weiter ELSE y
           w4 == IF ~Vorhanden(y.ExtrasNamen, k) THEN falle
                 ELSE IF Len(y.ExtrasNamen[k]) < Len(y.Unterkategorien[k])
                   THEN ukat
                   ELSE IF alle THEN weiter ELSE y
<1>1. w = CASE z.trap -> z
            [] ~z.trap /\ k = 1 /\ u = 1 -> w1
            [] ~z.trap /\ k = 1 /\ u > 1 -> w2
            [] ~z.trap /\ k > 1 /\ u = 1 -> w3
            [] OTHER -> w4
  BY Zenon DEF LiesExtra
<1>2. /\ IstFund(y) /\ y.ExtrasNamen = z.ExtrasNamen /\ y.ExtrasPreise = z.ExtrasPreise
      /\ y.extrasString = Append(z.extrasString, extra.Name)
      /\ y.extrasPreis = Append(z.extrasPreis, extra.Preis)
      /\ y.Kategorien = z.Kategorien
  BY DEF IstFund, FundFelder
<1> HIDE DEF y, w
<1>3. PreisTreu(pr, y)
  <2>1. Bepreist(pr, z.extrasString, z.extrasPreis)
    BY DEF PreisTreu
  <2>2. Bepreist(pr, y.extrasString, y.extrasPreis)
    BY <1>2, <2>1, NameMehr
  <2> QED BY <1>2, <2>2 DEF PreisTreu
<1>4. PreisTreu(pr, falle)
  BY <1>2, <1>3 DEF PreisTreu, IstFund, FundFelder
<1>5. PreisTreu(pr, kat)
  BY <1>2, <1>3, NeueKategorieBepreist
<1>6. Folge(y.ExtrasNamen) /\ DOMAIN y.ExtrasNamen = 1..Len(y.ExtrasNamen)
      /\ Len(y.ExtrasNamen) \in Nat
  <2>1. Folge(y.ExtrasNamen)
    BY <1>3 DEF PreisTreu, AllesBepreist
  <2> QED BY <2>1, BisGanz
<1>7. ASSUME k \in 1..Len(y.ExtrasNamen)
      PROVE  PreisTreu(pr, ukat) /\ PreisTreu(pr, weiter)
  <2>1. PreisTreu(pr, ukat)
    BY <1>2, <1>3, <1>7, NeueUnterkategorieBepreist
  <2>2. FALSE \in BOOLEAN /\ (FALSE => k = 1 /\ u = 1)
    OBVIOUS
  <2>3. PreisTreu(pr, weiter)
    BY <1>2, <1>3, <1>7, <2>2, WeitereZeileBepreist
  <2> QED BY <2>1, <2>3
<1>8. PreisTreu(pr, w1)
  <2> DEFINE v == Geleert(MitWeitererZeile(y, 1, 1, TRUE))
  <2>1. ASSUME y.ExtrasNamen # <<>> PROVE PreisTreu(pr, v)
    <3>1. Len(y.ExtrasNamen) # 0
      BY <1>6, <2>1 DEF Folge
    <3>2. 1 \in 1..Len(y.ExtrasNamen)
      BY <1>6, <3>1
    <3>3. TRUE \in BOOLEAN /\ (TRUE => 1 = 1 /\ 1 = 1)
      OBVIOUS
    <3> QED BY <1>2, <1>3, <3>2, <3>3, WeitereZeileBepreist
  <2>2. w1 = IF ~alle THEN y ELSE IF y.ExtrasNamen = <<>> THEN kat ELSE v
    BY Zenon
  <2> HIDE DEF w1, kat, v, alle
  <2> QED BY <1>3, <1>5, <2>1, <2>2, Zenon
<1>9. PreisTreu(pr, w2)
  <2>1. w2 = IF ~Vorhanden(y.ExtrasNamen, k) THEN falle
             ELSE IF ~alle THEN y ELSE IF Len(y.ExtrasNamen[k]) < u THEN ukat ELSE weiter
    BY Zenon
  <2>2. Vorhanden(y.ExtrasNamen, k) => k \in 1..Len(y.ExtrasNamen)
    BY <1>6 DEF Vorhanden
  <2> HIDE DEF w2, falle, ukat, weiter, alle
  <2> QED BY <1>3, <1>4, <1>7, <2>1, <2>2, Zenon
<1>10. PreisTreu(pr, w3)
  <2>1. ~(Len(y.ExtrasNamen) < Len(y.Kategorien)) => k \in 1..Len(y.ExtrasNamen)
    BY <1>2, <1>6
  <2> HIDE DEF falle, kat, weiter, alle
  <2> QED BY <1>3, <1>4, <1>5, <1>7, <2>1, Zenon
<1>11. PreisTreu(pr, w4)
  <2>1. Vorhanden(y.ExtrasNamen, k) => k \in 1..Len(y.ExtrasNamen)
    BY <1>6 DEF Vorhanden
  <2> HIDE DEF falle, ukat, weiter, alle
  <2> QED BY <1>3, <1>4, <1>7, <2>1, Zenon
<1> HIDE DEF w1, w2, w3, w4
<1>12. w \in {z, w1, w2, w3, w4}
  BY <1>1
<1> QED BY <1>8, <1>9, <1>10, <1>11, <1>12 DEF w

\* Each extra has the price that belongs to its name.
PreiseZu(pr, extras) == \A n \in 1..Len(extras) : extras[n].Preis = pr[extras[n].Name]

LEMMA ExtrasBepreist ==
  ASSUME NEW pr, NEW z, IstFund(z), PreisTreu(pr, z), NEW k \in Nat \ {0}, Len(z.Kategorien) = k,
         NEW u, NEW extras, Len(extras) \in Nat, PreiseZu(pr, extras)
  PROVE  PreisTreu(pr, LiesExtras(z, k, u, extras))
<1> DEFINE N == Len(extras)
<1>1. PICK f : /\ f[0] = z /\ f[N] = LiesExtras(z, k, u, extras)
               /\ \A n \in 0..N : n < N => f[n + 1] = LiesExtra(f[n], k, u, extras[n + 1], N)
  BY ExtrasNacheinander
<1> DEFINE P(y) == OhneExtrasGleich(y, z) /\ PreisTreu(pr, y)
           T == {n \in 0..N : P(f[n])}
<1>2. P(f[0])
  BY <1>1 DEF OhneExtrasGleich
<1>3. ASSUME NEW n \in 0..N, n < N, P(f[n]) PROVE P(f[n + 1])
  <2> DEFINE y == f[n]  e == extras[n + 1]  w == f[n + 1]
  <2>1. w = LiesExtra(y, k, u, e, N)
    BY <1>1, <1>3
  <2>2. e.Preis = pr[e.Name]
    BY <1>3 DEF PreiseZu
  <2>3. OhneExtrasGleich(y, z) /\ PreisTreu(pr, y)
    BY <1>3
  <2>4. IstFund(y) /\ Len(y.Kategorien) = k
    BY <2>3 DEF OhneExtrasGleich
  <2> HIDE DEF y, e, w, P
  <2>5. PreisTreu(pr, w)
    BY <2>1, <2>2, <2>3, <2>4, ExtraBepreist
  <2>6. OhneExtrasGleich(w, y)
    BY <2>1, <2>4, ExtraLaesst
  <2>7. OhneExtrasGleich(w, z)
    BY <2>3, <2>6 DEF OhneExtrasGleich
  <2> QED BY <2>5, <2>7 DEF P, w
<1>4. N \in T
  <2> HIDE DEF P
  <2>1. T \subseteq 0..N /\ 0 \in T
    BY <1>2
  <2>2. \A n \in T : n < N => n + 1 \in T
    BY <1>3
  <2>3. N \in 0..N
    OBVIOUS
  <2> HIDE DEF T, N
  <2> QED BY <2>1, <2>2, <2>3, BisNull DEF N
<1> QED BY <1>1, <1>4

LEMMA AlleExtrasBepreist ==
  ASSUME NEW pr, NEW z, IstFund(z), PreisTreu(pr, z), NEW k \in Nat \ {0}, Len(z.Kategorien) = k,
         NEW u, NEW zeilen, Len(zeilen) \in Nat,
         \A i \in 1..Len(zeilen) : Len(zeilen[i].extras) \in Nat /\ PreiseZu(pr, zeilen[i].extras)
  PROVE  PreisTreu(pr, LiesAlleExtras(z, k, u, zeilen))
<1> DEFINE N == Len(zeilen)
<1>1. PICK f : /\ f[0] = z /\ f[N] = LiesAlleExtras(z, k, u, zeilen)
               /\ \A n \in 0..N : n < N => f[n + 1] = LiesExtras(f[n], k, u, zeilen[n + 1].extras)
  BY AlleExtrasNacheinander
<1> DEFINE P(y) == OhneExtrasGleich(y, z) /\ PreisTreu(pr, y)
           T == {n \in 0..N : P(f[n])}
<1>2. P(f[0])
  BY <1>1 DEF OhneExtrasGleich
<1>3. ASSUME NEW n \in 0..N, n < N, P(f[n]) PROVE P(f[n + 1])
  <2> DEFINE y == f[n]  e == zeilen[n + 1].extras  w == f[n + 1]
  <2>1. w = LiesExtras(y, k, u, e)
    BY <1>1, <1>3
  <2>2. Len(e) \in Nat /\ PreiseZu(pr, e)
    BY <1>3
  <2>3. OhneExtrasGleich(y, z) /\ PreisTreu(pr, y)
    BY <1>3
  <2>4. IstFund(y) /\ Len(y.Kategorien) = k
    BY <2>3 DEF OhneExtrasGleich
  <2> HIDE DEF y, e, w, P
  <2>5. PreisTreu(pr, w)
    BY <2>1, <2>2, <2>3, <2>4, ExtrasBepreist
  <2>6. OhneExtrasGleich(w, y)
    BY <2>1, <2>2, <2>4, ExtrasLassen
  <2>7. OhneExtrasGleich(w, z)
    BY <2>3, <2>6 DEF OhneExtrasGleich
  <2> QED BY <2>5, <2>7 DEF P, w
<1>4. N \in T
  <2> HIDE DEF P
  <2>1. T \subseteq 0..N /\ 0 \in T
    BY <1>2
  <2>2. \A n \in T : n < N => n + 1 \in T
    BY <1>3
  <2>3. N \in 0..N
    OBVIOUS
  <2> HIDE DEF T, N
  <2> QED BY <2>1, <2>2, <2>3, BisNull DEF N
<1> QED BY <1>1, <1>4

\* No subscript has failed.
Heil(z) == z.trap = FALSE

\* Nothing is left of extras, and their names are these.
Rein(z, namen) ==
  Heil(z) /\ z.ExtrasNamen = namen /\ z.extrasString = <<>> /\ z.extrasPreis = <<>>

\* The names of one line more, when i lines of the u-th Unterkategorie of the k-th
\* Kategorie have theirs.
MitNamen(alt, k, u, i, w) ==
  IF i # 0 THEN MehrIn(alt, k, u, w)
  ELSE IF u # 1 THEN Mehr(alt, k, <<w>>) ELSE Append(alt, <<<<w>>>>)

\* What the four branches look at to find the place for them.
Bereit(alt, k, u, i) ==
  IF i = 0 /\ u = 1 THEN Len(alt) = k - 1 /\ (k = 1 <=> alt = <<>>)
  ELSE /\ Len(alt) = k /\ alt # <<>> /\ k \in DOMAIN alt
       /\ Len(alt[k]) = IF i = 0 THEN u - 1 ELSE u
       /\ i # 0 => u \in DOMAIN alt[k]

LEMMA HalbFolge ==
  ASSUME NEW S, NEW m \in Nat \ {0}, NEW n \in Nat \ {0}
  PROVE  Folge(Halb(S, m, n)) /\ Len(Halb(S, m, n)) = m
<1> DEFINE a == Bis(S, m - 1)  x == Bis(S[m], n)
<1>1. Halb(S, m, n) = Append(a, x) /\ m - 1 \in Nat /\ (m - 1) + 1 = m
  BY DEF Halb
<1>2. Folge(a) /\ Len(a) = m - 1
  BY <1>1, BisLesen
<1> HIDE DEF a, x
<1> QED BY <1>1, <1>2, AppendLesen

LEMMA StandBereit ==
  ASSUME NEW S, NEW k \in Nat \ {0}, NEW u \in Nat \ {0}, NEW i \in Nat,
         NEW w, w = S[k][u][i + 1], NEW alt, alt = ItemsStand(S, k, u, i)
  PROVE  /\ Bereit(alt, k, u, i)
         /\ ItemsStand(S, k, u, i + 1) = MitNamen(alt, k, u, i, w)
<1>1. CASE i = 0 /\ u = 1
  <2>1. i + 1 = 1 /\ w = S[k][1][1]
    BY <1>1
  <2>2. Len(alt) = k - 1 /\ ItemsStand(S, k, u, i + 1) = Append(alt, <<<<w>>>>)
    BY <1>1, <2>1, ErsteZeile
  <2>3. alt = Bis(S, k - 1)
    BY <1>1 DEF ItemsStand, Halb
  <2>4. Folge(alt)
    BY <2>3, BisLesen
  <2>5. k = 1 <=> alt = <<>>
    BY <2>2, <2>4 DEF Folge
  <2> QED BY <1>1, <2>2, <2>5 DEF Bereit, MitNamen
<1>2. CASE i = 0 /\ u # 1
  <2>1. i + 1 = 1 /\ w = S[k][u][1] /\ u \in Nat \ {0, 1}
    BY <1>2
  <2>2. /\ Len(alt) = k /\ Len(alt[k]) = u - 1
        /\ ItemsStand(S, k, u, i + 1) = Mehr(alt, k, <<w>>)
    BY <1>2, <2>1, ErsteDerUnterkategorie
  <2>3. alt = Halb(S, k, u - 1) /\ u - 1 \in Nat \ {0}
    BY <1>2, <2>1 DEF ItemsStand
  <2>4. Folge(alt)
    BY <2>3, HalbFolge
  <2>5. alt # <<>> /\ k \in DOMAIN alt
    BY <2>2, <2>4 DEF Folge
  <2> QED BY <1>2, <2>2, <2>5 DEF Bereit, MitNamen
<1>3. CASE i # 0
  <2>1. i \in Nat \ {0}
    BY <1>3
  <2>2. /\ Len(alt) = k /\ Len(alt[k]) = u
        /\ ItemsStand(S, k, u, i + 1) = MehrIn(alt, k, u, w)
    <3>1. MitWeiterer(ItemsStand(S, k, u, i), ItemsStand(S, k, u, i + 1), k, u, w)
      BY <2>1, WeitereZeile
    <3> QED BY <3>1, Zenon DEF MitWeiterer
  <2> DEFINE a == Bis(S, k - 1)  b == Halb(S[k], u, i)
  <2>3. alt = Append(a, b)
    BY <1>3 DEF ItemsStand
  <2>4. Folge(a) /\ Len(a) = k - 1 /\ Folge(b)
    <3>1. k - 1 \in Nat
      OBVIOUS
    <3> QED BY <2>1, <3>1, BisLesen, HalbFolge
  <2> HIDE DEF a, b
  <2>5. Folge(alt) /\ alt[k] = b
    <3>1. (k - 1) + 1 = k
      OBVIOUS
    <3> QED BY <2>3, <2>4, <3>1, AppendLesen
  <2>6. alt # <<>> /\ k \in DOMAIN alt /\ u \in DOMAIN alt[k]
    BY <2>2, <2>4, <2>5 DEF Folge
  <2> QED BY <1>3, <2>2, <2>6 DEF Bereit, MitNamen
<1> QED BY <1>1, <1>2, <1>3

\* The extras of a line with one more.
Gesammelt(z, extra) == Append(z.extrasString, extra.Name)

\* The reader is about to read an extra of the line after the first i of <<k, u>>.
VorExtra(z, k, u, i, alt) ==
  /\ IstFund(z) /\ Heil(z) /\ Len(z.Kategorien) = k /\ Len(z.Unterkategorien[k]) = u
  /\ alt = z.ExtrasNamen /\ Bereit(alt, k, u, i)

\* An extra of a line waits for the others, or all get their place, in each branch.
LEMMA ExtraZuZeile ==
  ASSUME NEW k \in Nat \ {0}, NEW u \in Nat \ {0}, NEW i \in Nat, NEW alt,
         NEW z, VorExtra(z, k, u, i, alt), NEW extra, NEW anzahl,
         NEW namen, namen = Gesammelt(z, extra),
         (k > 1 /\ u > 1) => Len(namen) = anzahl,
         NEW x, x = LiesExtra(z, k, u, extra, anzahl)
  PROVE  /\ Len(namen) = anzahl => Rein(x, MitNamen(alt, k, u, i, namen))
         /\ Len(namen) # anzahl => Heil(x) /\ x.ExtrasNamen = alt /\ x.extrasString = namen
<1> USE DEF VorExtra, Gesammelt
<1> DEFINE y == [z EXCEPT !.extrasString = Append(@, extra.Name),
                          !.extrasPreis = Append(@, extra.Preis)]
           alle == Len(y.extrasString) = anzahl
           kat == Geleert(MitNeuerKategorie(y))
           ukat == Geleert(MitNeuerUnterkategorie(y, k))
           weiter == Geleert(MitWeitererZeile(y, k, u, FALSE))
           y1 == IF y.ExtrasNamen = <<>> THEN MitNeuerKategorie(y) ELSE MitWeitererZeile(y, 1, 1, TRUE)
           y2 == IF Len(y.ExtrasNamen[k]) < u THEN MitNeuerUnterkategorie(y, k)
                                              ELSE MitWeitererZeile(y, k, u, FALSE)
           falle == [y EXCEPT !.trap = TRUE]
           w1 == IF ~alle THEN y ELSE Geleert(y1)
           w2 == IF ~Vorhanden(y.ExtrasNamen, k) THEN falle ELSE IF ~alle THEN y ELSE Geleert(y2)
           w3 == IF y.ExtrasNamen = <<>> THEN falle
                 ELSE IF Len(y.ExtrasNamen) < Len(y.Kategorien)
                   THEN IF alle THEN kat ELSE y
                   ELSE IF alle THEN weiter ELSE y
           w4 == IF ~Vorhanden(y.ExtrasNamen, k) THEN falle
                 ELSE IF Len(y.ExtrasNamen[k]) < Len(y.Unterkategorien[k])
                   THEN ukat
                   ELSE IF alle THEN weiter ELSE y
           ziel == MitNamen(alt, k, u, i, namen)
           Fertig1(w) == /\ alle => Rein(w, ziel)
                         /\ ~alle => Heil(w) /\ w.ExtrasNamen = alt /\ w.extrasString = namen
<1>1. x = CASE z.trap -> z
            [] ~z.trap /\ k = 1 /\ u = 1 -> w1
            [] ~z.trap /\ k = 1 /\ u > 1 -> w2
            [] ~z.trap /\ k > 1 /\ u = 1 -> w3
            [] OTHER -> w4
  BY Zenon DEF LiesExtra
<1>0. /\ k = 1 /\ u = 1 => x = w1
      /\ k = 1 /\ u # 1 => x = w2
      /\ k # 1 /\ u = 1 => x = w3
      /\ k # 1 /\ u # 1 => x = w4
  <2> HIDE DEF w1, w2, w3, w4
  <2>0. ~z.trap
    BY DEF Heil
  <2>1. k # 1 <=> k > 1
    OBVIOUS
  <2>2. u # 1 <=> u > 1
    OBVIOUS
  <2> QED BY <1>1, <2>0, <2>1, <2>2
<1>2. /\ Heil(y) /\ y.ExtrasNamen = alt /\ y.extrasString = namen
      /\ y.Kategorien = z.Kategorien /\ y.Unterkategorien = z.Unterkategorien /\ IstFund(y)
  BY DEF IstFund, FundFelder, Heil
<1>3. alle <=> Len(namen) = anzahl
  BY <1>2
<1> HIDE DEF y, alle
<1>4. Rein(kat, Append(alt, <<<<namen>>>>))
  BY <1>2 DEF Rein, Geleert, MitNeuerKategorie, Heil, IstFund, FundFelder
<1>5. Rein(ukat, Mehr(alt, k, <<namen>>))
  BY <1>2 DEF Rein, Geleert, MitNeuerUnterkategorie, Mehr, Heil, IstFund, FundFelder
<1>6. ASSUME u \in DOMAIN alt[k], NEW v
      PROVE  Rein(Geleert(MitWeitererZeile(y, k, u, v)), MehrIn(alt, k, u, namen))
  <2>1. Vorhanden(y.ExtrasNamen[k], u)
    BY <1>2, <1>6 DEF Vorhanden
  <2> QED BY <1>2, <2>1 DEF Rein, Geleert, MitWeitererZeile, MehrIn, Heil, IstFund, FundFelder
<1>7. /\ i = 0 /\ u = 1 => Rein(kat, ziel)
      /\ i = 0 /\ u # 1 => Rein(ukat, ziel)
  BY <1>4, <1>5 DEF MitNamen
<1>8. ASSUME i # 0, NEW v PROVE Rein(Geleert(MitWeitererZeile(y, k, u, v)), ziel)
  <2>1. u \in DOMAIN alt[k] /\ ziel = MehrIn(alt, k, u, namen)
    BY <1>8 DEF Bereit, MitNamen
  <2> QED BY <1>6, <2>1
<1>9. Fertig1(x)
  <2> DEFINE weiter1 == Geleert(MitWeitererZeile(y, 1, 1, TRUE))
  <2>0. ~alle => Fertig1(y)
    BY <1>2
  <2>1. CASE k = 1 /\ u = 1
    <3>1. x = w1
      BY <1>0, <2>1, Zenon
    <3>2. alt = <<>> <=> i = 0
      <4>1. CASE i = 0
        BY <2>1, <4>1 DEF Bereit
      <4>2. CASE i # 0
        BY <2>1, <4>2 DEF Bereit
      <4> QED BY <4>1, <4>2
    <3>3. weiter1 = Geleert(MitWeitererZeile(y, k, u, TRUE))
      BY <2>1
    <3>4. alle => Rein(x, ziel)
      <4>1. CASE alle /\ i = 0
        <5>1. x = kat
          BY <1>2, <3>1, <3>2, <4>1, Zenon
        <5> QED BY <1>7, <2>1, <4>1, <5>1
      <4>2. CASE alle /\ i # 0
        <5>1. x = weiter1
          BY <1>2, <3>1, <3>2, <4>2, Zenon
        <5> QED BY <1>8, <3>3, <4>2, <5>1
      <4> QED BY <4>1, <4>2
    <3>5. ~alle => x = y
      BY <3>1, Zenon
    <3> HIDE DEF w1
    <3> QED BY <2>0, <3>4, <3>5, Zenon
  <2>2. CASE k = 1 /\ u # 1
    <3>0. u > 1
      BY <2>2
    <3>1. x = w2
      BY <1>0, <2>2
    <3>2. Vorhanden(y.ExtrasNamen, k) /\ (Len(y.ExtrasNamen[k]) < u <=> i = 0)
      BY <1>2, <2>2, <3>0 DEF Bereit, Vorhanden
    <3>3. x = IF ~alle THEN y ELSE Geleert(y2)
      BY <3>1, <3>2, Zenon
    <3>4. alle => Rein(x, ziel)
      <4>1. CASE alle /\ i = 0
        <5>1. x = ukat
          BY <3>2, <3>3, <4>1, Zenon
        <5> QED BY <1>7, <2>2, <4>1, <5>1
      <4>2. CASE alle /\ i # 0
        <5>1. x = weiter
          BY <3>2, <3>3, <4>2, Zenon
        <5> QED BY <1>8, <4>2, <5>1
      <4> QED BY <4>1, <4>2
    <3>5. ~alle => x = y
      BY <3>3, Zenon
    <3> QED BY <2>0, <3>4, <3>5, Zenon
  <2>3. CASE k # 1 /\ u = 1
    <3>0. k > 1
      BY <2>3
    <3>1. x = w3
      BY <1>0, <2>3
    <3>2. y.ExtrasNamen # <<>> /\ (Len(y.ExtrasNamen) < Len(y.Kategorien) <=> i = 0)
      BY <1>2, <2>3, <3>0 DEF Bereit
    <3>3. alle => Rein(x, ziel)
      <4>1. CASE alle /\ i = 0
        <5>1. x = kat
          BY <3>1, <3>2, <4>1, Zenon
        <5> QED BY <1>7, <2>3, <4>1, <5>1
      <4>2. CASE alle /\ i # 0
        <5>1. x = weiter
          BY <3>1, <3>2, <4>2, Zenon
        <5> QED BY <1>8, <4>2, <5>1
      <4> QED BY <4>1, <4>2
    <3>4. ~alle => x = y
      BY <3>1, <3>2, Zenon
    <3> QED BY <2>0, <3>3, <3>4, Zenon
  <2>4. CASE k # 1 /\ u # 1
    <3>0. k > 1 /\ u > 1
      BY <2>4
    <3>1. x = w4
      BY <1>0, <2>4
    <3>2. /\ Vorhanden(y.ExtrasNamen, k)
          /\ Len(y.ExtrasNamen[k]) < Len(y.Unterkategorien[k]) <=> i = 0
      BY <1>2, <2>4, <3>0 DEF Bereit, Vorhanden
    <3>3. alle
      BY <1>3, <3>0
    <3>4. Rein(x, ziel)
      <4>1. CASE i = 0
        <5>1. x = ukat
          BY <3>1, <3>2, <4>1, Zenon
        <5> QED BY <1>7, <2>4, <4>1, <5>1
      <4>2. CASE i # 0
        <5>1. x = weiter
          BY <3>1, <3>2, <3>3, <4>2, Zenon
        <5> QED BY <1>8, <4>2, <5>1
      <4> QED BY <4>1, <4>2
    <3> QED BY <3>3, <3>4, Zenon
  <2> QED BY <2>1, <2>2, <2>3, <2>4, Zenon
<1> HIDE DEF ziel
<1>10. (alle => Rein(x, ziel)) /\ (~alle => Heil(x) /\ x.ExtrasNamen = alt /\ x.extrasString = namen)
  BY <1>9
<1> QED BY <1>3, <1>10, Zenon DEF ziel

\* The extras of a line.
LEMMA ExtrasZuZeile ==
  ASSUME NEW k \in Nat \ {0}, NEW u \in Nat \ {0}, NEW i \in Nat,
         NEW z, IstFund(z), Len(z.Kategorien) = k, Len(z.Unterkategorien[k]) = u,
         NEW alt, Rein(z, alt), Bereit(alt, k, u, i),
         NEW extras, Folge(extras), Len(extras) # 0, (k > 1 /\ u > 1) => Len(extras) = 1,
         NEW namen, namen = [n \in DOMAIN extras |-> extras[n].Name],
         NEW x, x = LiesExtras(z, k, u, extras)
  PROVE  OhneExtrasGleich(x, z) /\ Rein(x, MitNamen(alt, k, u, i, namen))
<1> DEFINE N == Len(extras)  ziel == MitNamen(alt, k, u, i, namen)
           Warten(y, n) == Heil(y) /\ y.ExtrasNamen = alt /\ y.extrasString = Bis(namen, n)
           P(y, n) == /\ OhneExtrasGleich(y, z)
                      /\ n = N => Rein(y, ziel)
                      /\ n # N => Warten(y, n)
<1>1. N \in Nat \ {0} /\ DOMAIN extras = 1..N /\ N \in Nat
  BY BisGanz DEF Folge
<1>2. PICK f : /\ f[0] = z /\ f[N] = LiesExtras(z, k, u, extras)
               /\ \A n \in 0..N : n < N => f[n + 1] = LiesExtra(f[n], k, u, extras[n + 1], N)
  BY <1>1, ExtrasNacheinander
<1>3. Bis(namen, N) = namen /\ \A n \in 1..N : namen[n] = extras[n].Name
  BY <1>1 DEF Bis
<1>4. (k > 1 /\ u > 1) => N = 1
  OBVIOUS
<1> HIDE DEF ziel, N
<1>5. P(f[0], 0)
  <2>1. Bis(namen, 0) = <<>>
    BY BisNichts
  <2>2. OhneExtrasGleich(z, z) /\ Warten(z, 0)
    BY <2>1 DEF OhneExtrasGleich, Rein
  <2> QED BY <1>1, <1>2, <2>2
<1> HIDE DEF Warten
<1>6. ASSUME NEW n \in 0..N, n < N, P(f[n], n) PROVE P(f[n + 1], n + 1)
  <2> DEFINE y == f[n]  m == n + 1  e == extras[m]  v == Gesammelt(y, e)  w == f[m]
  <2>1. n # N /\ n \in Nat /\ m \in 1..N
    BY <1>1, <1>6
  <2>2. /\ OhneExtrasGleich(y, z) /\ Heil(y) /\ y.ExtrasNamen = alt
        /\ y.extrasString = Bis(namen, n)
    BY <1>6, <2>1 DEF Warten
  <2>3. w = LiesExtra(y, k, u, e, N)
    BY <1>2, <1>6
  <2>4. v = Bis(namen, m) /\ Len(v) = m
    <3>1. e.Name = namen[m]
      BY <1>3, <2>1
    <3>2. m \in Nat
      BY <2>1
    <3>3. Bis(namen, m) = Append(Bis(namen, n), namen[m]) /\ Len(Bis(namen, m)) = m
      BY <2>1, <3>2, BisWaechst, BisLesen
    <3>4. v = Append(y.extrasString, e.Name)
      BY DEF Gesammelt
    <3>5. v = Append(Bis(namen, n), namen[m])
      BY <2>2, <3>1, <3>4, Zenon
    <3> HIDE DEF v
    <3> QED BY <3>3, <3>5
  <2>5. (k > 1 /\ u > 1) => Len(v) = N
    <3> HIDE DEF v
    <3>1. N = 1 => n + 1 = N
      BY <1>1, <2>1
    <3> QED BY <1>4, <2>4, <3>1
  <2>6. IstFund(y) /\ Len(y.Kategorien) = k /\ Len(y.Unterkategorien[k]) = u
    BY <2>2 DEF OhneExtrasGleich
  <2>7. v = Gesammelt(y, e) /\ alt = y.ExtrasNamen /\ Heil(y)
    BY <2>2
  <2>15. VorExtra(y, k, u, i, alt)
    BY <2>6, <2>7 DEF VorExtra
  <2> HIDE DEF y, e, v, w, P
  <2>8. /\ Len(v) = N => Rein(w, MitNamen(alt, k, u, i, v))
        /\ Len(v) # N => Heil(w) /\ w.ExtrasNamen = alt /\ w.extrasString = v
    BY <2>3, <2>5, <2>7, <2>15, ExtraZuZeile
  <2>9. OhneExtrasGleich(w, y)
    BY <2>3, <2>6, ExtraLaesst
  <2>10. OhneExtrasGleich(w, z)
    BY <2>2, <2>9 DEF OhneExtrasGleich
  <2>11. m = N => Rein(w, ziel)
    <3>1. ASSUME m = N PROVE v = namen /\ Len(v) = N
      BY <1>3, <2>4, <3>1
    <3> QED BY <2>8, <3>1 DEF ziel
  <2>12. m # N => Warten(w, m)
    BY <2>4, <2>8 DEF Warten
  <2>13. P(w, m)
    BY <2>10, <2>11, <2>12 DEF P
  <2> QED BY <2>13 DEF w
<1> DEFINE T == {n \in 0..N : P(f[n], n)}
<1>7. N \in T
  <2> HIDE DEF P
  <2>1. T \subseteq 0..N /\ 0 \in T
    BY <1>1, <1>5
  <2>2. \A n \in T : n < N => n + 1 \in T
    BY <1>1, <1>6
  <2>3. N \in 0..N
    BY <1>1
  <2> HIDE DEF T
  <2> QED BY <1>1, <2>1, <2>2, <2>3, BisNull
<1>8. P(f[N], N)
  BY <1>7
<1> QED BY <1>2, <1>8 DEF ziel

\* The names of the extras of an Unterkategorie.
NamenZu(S, zeilen) ==
  \A i \in 1..Len(zeilen) :
    S[i] = [n \in DOMAIN zeilen[i].extras |-> zeilen[i].extras[n].Name]

\* Its lines have extras; eines: one each.
ExtrasGut(zeilen, eines) ==
  \A i \in 1..Len(zeilen) :
    /\ Folge(zeilen[i].extras) /\ Len(zeilen[i].extras) # 0
    /\ eines => Len(zeilen[i].extras) = 1

LEMMA AlleExtrasZuZeilen ==
  ASSUME NEW S, NEW k \in Nat \ {0}, NEW u \in Nat \ {0},
         NEW z, IstFund(z), Len(z.Kategorien) = k, Len(z.Unterkategorien[k]) = u,
         Rein(z, ItemsStand(S, k, u, 0)),
         NEW zeilen, Len(zeilen) \in Nat, ExtrasGut(zeilen, k > 1 /\ u > 1),
         NamenZu(S[k][u], zeilen), NEW x, x = LiesAlleExtras(z, k, u, zeilen)
  PROVE  Rein(x, ItemsStand(S, k, u, Len(zeilen)))
<1> DEFINE N == Len(zeilen)
           P(y, n) == OhneExtrasGleich(y, z) /\ Rein(y, ItemsStand(S, k, u, n))
<1>1. PICK f : /\ f[0] = z /\ f[N] = LiesAlleExtras(z, k, u, zeilen)
               /\ \A n \in 0..N : n < N => f[n + 1] = LiesExtras(f[n], k, u, zeilen[n + 1].extras)
  BY AlleExtrasNacheinander
<1>2. P(f[0], 0)
  BY <1>1 DEF OhneExtrasGleich
<1>3. ASSUME NEW n \in 0..N, n < N, P(f[n], n) PROVE P(f[n + 1], n + 1)
  <2> DEFINE y == f[n]  m == n + 1  e == zeilen[m].extras  v == S[k][u][m]
             alt == ItemsStand(S, k, u, n)  w == f[m]
  <2>1. n \in Nat /\ m \in 1..N
    BY <1>3
  <2>2. OhneExtrasGleich(y, z) /\ Rein(y, alt)
    BY <1>3
  <2>3. w = LiesExtras(y, k, u, e)
    BY <1>1, <1>3
  <2>4. v = [j \in DOMAIN e |-> e[j].Name]
    BY <2>1 DEF NamenZu
  <2>5. Folge(e) /\ Len(e) # 0 /\ (k > 1 /\ u > 1 => Len(e) = 1)
    BY <2>1 DEF ExtrasGut
  <2>6. Bereit(alt, k, u, n) /\ ItemsStand(S, k, u, m) = MitNamen(alt, k, u, n, v)
    BY <2>1, StandBereit
  <2>7. IstFund(y) /\ Len(y.Kategorien) = k /\ Len(y.Unterkategorien[k]) = u
    BY <2>2 DEF OhneExtrasGleich
  <2> HIDE DEF y, e, v, alt, w
  <2>8. OhneExtrasGleich(w, y) /\ Rein(w, MitNamen(alt, k, u, n, v))
    BY <2>1, <2>2, <2>3, <2>4, <2>5, <2>6, <2>7, ExtrasZuZeile
  <2>9. OhneExtrasGleich(w, z)
    BY <2>2, <2>8 DEF OhneExtrasGleich
  <2> QED BY <2>6, <2>8, <2>9 DEF w
<1> DEFINE T == {n \in 0..N : P(f[n], n)}
<1>4. N \in T
  <2> HIDE DEF P
  <2>1. T \subseteq 0..N /\ 0 \in T
    BY <1>2
  <2>2. \A n \in T : n < N => n + 1 \in T
    BY <1>3
  <2>3. N \in 0..N
    OBVIOUS
  <2> HIDE DEF T, N
  <2> QED BY <2>1, <2>2, <2>3, BisNull DEF N
<1>5. P(f[N], N)
  BY <1>4
<1> QED BY <1>1, <1>5

\* z holds the first k Kategorien of s, and u Unterkategorien of the last.
LesenStand(z, s, k, u) ==
  /\ IstFund(z)
  /\ z.Kategorien = Bis(SollKategorien(s), k)
  /\ z.Unterkategorien = Halb(SollUnterkategorien(s), k, u)
  /\ z.Items = Halb(SollItems(s), k, u)

LEMMA SnapshotLesen ==
  ASSUME NEW s, IstSnapshot(s), NEW k \in 1..Len(s)
  PROVE  /\ Len(s) \in Nat /\ DOMAIN s = 1..Len(s) /\ k \in Nat \ {0}
         /\ DOMAIN SollKategorien(s) = 1..Len(s) /\ SollKategorien(s)[k] = s[k].key
         /\ Injektiv(SollKategorien(s))
         /\ Len(s[k].kinder) \in Nat \ {0} /\ DOMAIN s[k].kinder = 1..Len(s[k].kinder)
         /\ SollUnterkategorien(s)[k] = [u \in 1..Len(s[k].kinder) |-> s[k].kinder[u].key]
         /\ Bis(SollUnterkategorien(s)[k], Len(s[k].kinder)) = SollUnterkategorien(s)[k]
         /\ Injektiv(SollUnterkategorien(s)[k])
         /\ SollItems(s)[k] = [u \in 1..Len(s[k].kinder) |->
              [i \in DOMAIN s[k].kinder[u].zeilen |-> s[k].kinder[u].zeilen[i].item]]
         /\ Bis(SollItems(s)[k], Len(s[k].kinder)) = SollItems(s)[k]
<1>1. Len(s) \in Nat /\ DOMAIN s = 1..Len(s)
  BY BisGanz DEF IstSnapshot
<1> DEFINE kinder == s[k].kinder  U == SollUnterkategorien(s)[k]  I == SollItems(s)[k]
<1>2. /\ DOMAIN SollKategorien(s) = 1..Len(s) /\ SollKategorien(s)[k] = s[k].key
      /\ Injektiv(SollKategorien(s))
  BY <1>1 DEF IstSnapshot, SollKategorien
<1>3. U = [u \in DOMAIN kinder |-> kinder[u].key]
  BY <1>1 DEF SollUnterkategorien
<1>4. I = [u \in DOMAIN kinder |->
             [i \in DOMAIN kinder[u].zeilen |-> kinder[u].zeilen[i].item]]
  BY <1>1 DEF SollItems
<1>5. /\ Folge(kinder) /\ Len(kinder) \in Nat \ {0}
      /\ Injektiv([u \in DOMAIN kinder |-> kinder[u].key])
  BY DEF IstSnapshot
<1> HIDE DEF kinder, U, I
<1>6. DOMAIN kinder = 1..Len(kinder)
  BY <1>5, BisGanz
<1>7. Bis(U, Len(kinder)) = U
  BY <1>3, <1>6 DEF Bis
<1>8. Bis(I, Len(kinder)) = I
  BY <1>4, <1>6 DEF Bis
<1>9. Injektiv(U)
  BY <1>3, <1>5
<1>10. k \in Nat \ {0}
  BY <1>1
<1>11. /\ U = [u \in 1..Len(kinder) |-> kinder[u].key]
       /\ I = [u \in 1..Len(kinder) |->
                 [i \in DOMAIN kinder[u].zeilen |-> kinder[u].zeilen[i].item]]
  BY <1>3, <1>4, <1>6, Zenon
<1> QED BY <1>1, <1>2, <1>5, <1>6, <1>7, <1>8, <1>9, <1>10, <1>11 DEF kinder, U, I

\* The items are those of the lines, which have lists of extras.
ItemsVon(items, zeilen) ==
  /\ \A i \in 1..Len(zeilen) : items[i] = zeilen[i].item /\ Len(zeilen[i].extras) \in Nat
  /\ Bis(items, Len(zeilen)) = items

\* The same for one Unterkategorie.
LEMMA KindLesen ==
  ASSUME NEW s, IstSnapshot(s), NEW k \in 1..Len(s), NEW j \in 1..Len(s[k].kinder),
         NEW zeilen, zeilen = s[k].kinder[j].zeilen, NEW items, items = SollItems(s)[k][j]
  PROVE  /\ k \in Nat \ {0} /\ j \in Nat \ {0}
         /\ Len(s[k].kinder) \in Nat \ {0}
         /\ Bis(SollUnterkategorien(s)[k], Len(s[k].kinder)) = SollUnterkategorien(s)[k]
         /\ Injektiv(SollUnterkategorien(s)[k])
         /\ SollUnterkategorien(s)[k][j] = s[k].kinder[j].key
         /\ Len(zeilen) \in Nat \ {0}
         /\ ItemsVon(items, zeilen)
<1> DEFINE kinder == s[k].kinder
           U == SollUnterkategorien(s)[k]
           I == SollItems(s)[k]
<1>1. /\ k \in Nat \ {0} /\ Len(kinder) \in Nat \ {0}
      /\ U = [u \in 1..Len(kinder) |-> kinder[u].key]
      /\ Bis(U, Len(kinder)) = U /\ Injektiv(U)
      /\ I = [u \in 1..Len(kinder) |->
                [i \in DOMAIN kinder[u].zeilen |-> kinder[u].zeilen[i].item]]
  BY SnapshotLesen
<1>2. /\ Folge(zeilen) /\ Len(zeilen) \in Nat \ {0}
      /\ \A i \in 1..Len(zeilen) : Len(zeilen[i].extras) \in Nat
  BY DEF IstSnapshot
<1>3. j \in 1..Len(kinder) /\ zeilen = kinder[j].zeilen
  OBVIOUS
<1> HIDE DEF U, I, kinder
<1>4. DOMAIN zeilen = 1..Len(zeilen)
  BY <1>2, BisGanz
<1>5. U[j] = kinder[j].key /\ I[j] = [i \in 1..Len(zeilen) |-> zeilen[i].item]
  BY <1>1, <1>3, <1>4
<1>6. Bis(I[j], Len(zeilen)) = I[j] /\ \A i \in 1..Len(zeilen) : I[j][i] = zeilen[i].item
  BY <1>5 DEF Bis
<1>7. j \in Nat \ {0}
  BY <1>1, <1>3
<1> QED BY <1>1, <1>2, <1>5, <1>6, <1>7 DEF ItemsVon, U, I, kinder

\* The name of an Unterkategorie: it is the last of the last Kategorie.
LEMMA UnterkategorieSchritt ==
  ASSUME NEW s, IstSnapshot(s), NEW k \in 1..Len(s), NEW u \in Nat, u < Len(s[k].kinder),
         NEW z, LesenStand(z, s, k, u), NEW key, key = s[k].kinder[u + 1].key,
         NEW y, y = LiesUnterkategorie(z, k, key)
  PROVE  /\ IstFund(y) /\ y.Kategorien = z.Kategorien /\ y.Items = z.Items
         /\ Len(y.Kategorien) = k /\ ExtrasGleich(y, z)
         /\ y.Unterkategorien = Halb(SollUnterkategorien(s), k, u + 1)
         /\ Len(y.Unterkategorien[k]) = u + 1
         /\ firstIndex(y.Unterkategorien[k], key) = u + 1
<1> DEFINE M == Len(s[k].kinder)
           SU == SollUnterkategorien(s)
           U == SU[k]
           alt == z.Unterkategorien
<1>1. /\ k \in Nat \ {0} /\ M \in Nat \ {0} /\ U[u + 1] = key
      /\ Bis(U, M) = U /\ Injektiv(U)
      /\ k - 1 \in Nat /\ k - 1 < k /\ ~(k < k)
  <2> DEFINE j == u + 1
             zeilen == s[k].kinder[j].zeilen
             items == SollItems(s)[k][j]
  <2>1. M \in Nat \ {0} /\ k \in Nat \ {0}
    BY SnapshotLesen
  <2>2. j \in 1..Len(s[k].kinder) /\ key = s[k].kinder[j].key
    BY <2>1
  <2> HIDE DEF j
  <2>3. /\ Bis(U, M) = U /\ Injektiv(U)
        /\ U[j] = s[k].kinder[j].key
    <3> HIDE DEF zeilen, items
    <3>1. zeilen = s[k].kinder[j].zeilen /\ items = SollItems(s)[k][j]
      BY DEF zeilen, items
    <3> QED BY <2>2, <3>1, KindLesen
  <2> HIDE DEF U, M
  <2>4. k - 1 \in Nat /\ k - 1 < k /\ ~(k < k)
    BY <2>1
  <2> QED BY <2>1, <2>2, <2>3, <2>4 DEF j
<1>2. Len(z.Kategorien) = k
  BY <1>1, BisLesen DEF LesenStand
<1>3. /\ IstFund(y) /\ y.Kategorien = z.Kategorien /\ y.Items = z.Items /\ ExtrasGleich(y, z)
      /\ y.Unterkategorien = IF Len(alt) < k THEN Append(alt, <<key>>) ELSE Mehr(alt, k, key)
  BY <1>2 DEF LesenStand, LiesUnterkategorie, Mehr, IstFund, FundFelder, ExtrasGleich
<1>4. alt = Halb(SU, k, u)
  BY DEF LesenStand
<1> HIDE DEF alt
<1>5. y.Unterkategorien = Halb(SU, k, u + 1)
  <2>1. CASE u = 0
    <3>1. key = SU[k][1] /\ u + 1 = 1
      BY <1>1, <2>1
    <3> HIDE DEF SU
    <3>2. Halb(SU, k, 0) = Bis(SU, k - 1) /\ Halb(SU, k, 1) = Append(Bis(SU, k - 1), <<key>>)
      BY <1>1, <3>1, HalbBeginnt
    <3>3. Len(alt) = k - 1
      BY <1>1, <1>4, <2>1, <3>2, BisLesen
    <3> QED BY <1>1, <1>3, <1>4, <2>1, <3>1, <3>2, <3>3
  <2>2. CASE u # 0
    <3>1. key = SU[k][u + 1] /\ u \in Nat \ {0}
      BY <1>1, <2>2
    <3> HIDE DEF SU
    <3>2. /\ Len(Halb(SU, k, u)) = k
          /\ Halb(SU, k, u + 1) = Mehr(Halb(SU, k, u), k, key)
      BY <1>1, <3>1, HalbWaechst
    <3> QED BY <1>1, <1>3, <1>4, <3>2
  <2> QED BY <2>1, <2>2
<1>6. y.Unterkategorien[k] = Bis(U, u + 1)
  <2>1. u + 1 \in Nat \ {0}
    OBVIOUS
  <2> DEFINE v == U[u + 1 + 1]
  <2> HIDE DEF SU
  <2>2. Halb(SU, k, u + 1)[k] = Bis(SU[k], u + 1)
    BY <1>1, <2>1, HalbWaechst
  <2> QED BY <1>5, <2>2
<1> HIDE DEF U, SU, M
<1>7. /\ Folge(Bis(U, u + 1)) /\ Len(Bis(U, u + 1)) = u + 1
      /\ \A i \in 1..(u + 1) : Bis(U, u + 1)[i] = U[i]
  BY BisLesen
<1>8. Injektiv(Bis(U, u + 1))
  <2>1. DOMAIN U = 1..M
    BY <1>1 DEF Bis
  <2>2. u + 1 <= M /\ M \in Nat
    BY <1>1 DEF M
  <2>3. \A i \in 1..(u + 1) : i \in 1..M
    BY <2>2
  <2>4. DOMAIN Bis(U, u + 1) = 1..(u + 1)
    BY DEF Bis
  <2> QED BY <1>1, <1>7, <2>1, <2>3, <2>4 DEF Injektiv
<1>9. firstIndex(Bis(U, u + 1), key) = u + 1
  <2> DEFINE t == Bis(U, u + 1)
  <2>0. Folge(t) /\ Len(t) = u + 1 /\ u + 1 \in 1..(u + 1) /\ t[u + 1] = U[u + 1]
    BY <1>7
  <2> HIDE DEF t
  <2>1. t \in Seq(ToSet(t)) /\ u + 1 \in 1..Len(t) /\ t[u + 1] = key
    BY <1>1, <2>0 DEF Folge
  <2>2. Injektiv(t)
    BY <1>8 DEF t
  <2> QED BY <2>1, <2>2, FirstIndexInjektiv DEF t
<1> QED BY <1>2, <1>3, <1>5, <1>6, <1>7, <1>9 DEF SU

\* One Unterkategorie more: x has its lines, w their extras too.
KindGelesen(s, k, u, z, zeilen, w) ==
  /\ k \in Nat \ {0} /\ u + 1 \in Nat \ {0} /\ Len(zeilen) \in Nat \ {0}
  /\ \A i \in 1..Len(zeilen) : Len(zeilen[i].extras) \in Nat
  /\ Bis(SollItems(s)[k][u + 1], Len(zeilen)) = SollItems(s)[k][u + 1]
  /\ \E x : /\ w = LiesAlleExtras(x, k, u + 1, zeilen)
            /\ IstFund(x) /\ ExtrasGleich(x, z)
            /\ x.Kategorien = z.Kategorien /\ Len(x.Kategorien) = k
            /\ x.Unterkategorien = Halb(SollUnterkategorien(s), k, u + 1)
            /\ Len(x.Unterkategorien[k]) = u + 1
            /\ x.Items = ItemsStand(SollItems(s), k, u + 1, Len(zeilen))

LEMMA KindItems ==
  ASSUME NEW s, IstSnapshot(s), NEW k \in 1..Len(s), NEW u \in Nat, u < Len(s[k].kinder),
         NEW z, ~z.trap, LesenStand(z, s, k, u), NEW zeilen, zeilen = s[k].kinder[u + 1].zeilen,
         NEW w, w = LiesKind(z, k, s[k].kinder[u + 1])
  PROVE  KindGelesen(s, k, u, z, zeilen, w)
<1> DEFINE kind == s[k].kinder[u + 1]
           SI == SollItems(s)
           m == u + 1
           items == SI[k][m]
           y == LiesUnterkategorie(z, k, kind.key)
           v == firstIndex(y.Unterkategorien[k], kind.key)
           x == LiesItems(y, k, v, kind.zeilen)
<1>1. /\ k \in Nat \ {0} /\ m \in Nat \ {0} /\ Len(zeilen) \in Nat \ {0}
      /\ ItemsVon(items, zeilen)
  <2>1. Len(s[k].kinder) \in Nat
    BY SnapshotLesen
  <2>2. m \in 1..Len(s[k].kinder) /\ zeilen = s[k].kinder[m].zeilen
        /\ items = SollItems(s)[k][m]
    BY <2>1
  <2> HIDE DEF m, items
  <2> QED BY <2>2, KindLesen
<1>2. w = LiesAlleExtras(x, k, v, zeilen) /\ x = LiesItems(y, k, v, zeilen)
  BY Zenon DEF LiesKind
<1>3. /\ IstFund(y) /\ y.Kategorien = z.Kategorien /\ y.Items = z.Items
      /\ Len(y.Kategorien) = k /\ ExtrasGleich(y, z)
      /\ y.Unterkategorien = Halb(SollUnterkategorien(s), k, m)
      /\ Len(y.Unterkategorien[k]) = m
      /\ v = m
  BY UnterkategorieSchritt
<1>4. y.Items = ItemsStand(SI, k, m, 0)
  BY <1>3 DEF LesenStand, ItemsStand
<1> HIDE DEF y, v, x, m
<1>5. \A i \in 1..Len(zeilen) : SI[k][m][i] = zeilen[i].item /\ Len(zeilen[i].extras) \in Nat
  BY <1>1 DEF ItemsVon
<1>6. /\ m \in Nat \ {0} /\ k \in Nat \ {0} /\ Len(zeilen) \in Nat
      /\ ItemsZu(SI[k][m], zeilen) /\ IstFund(y) /\ Len(y.Kategorien) = k /\ Len(y.Unterkategorien[k]) = m
      /\ y.Items = ItemsStand(SI, k, m, 0) /\ x = LiesItems(y, k, m, zeilen)
  BY <1>1, <1>2, <1>3, <1>4, <1>5 DEF ItemsZu
<1>7. Bis(SI[k][m], Len(zeilen)) = SI[k][m]
  BY <1>1 DEF ItemsVon
<1> HIDE DEF SI, items
<1>8. /\ IstFund(x) /\ x.Kategorien = y.Kategorien /\ x.Unterkategorien = y.Unterkategorien
      /\ ExtrasGleich(x, y) /\ x.Items = ItemsStand(SI, k, m, Len(zeilen))
  BY <1>6, ItemsLesen
<1>9. ExtrasGleich(x, z)
  BY <1>3, <1>8 DEF ExtrasGleich
<1>10. w = LiesAlleExtras(x, k, m, zeilen)
  BY <1>2, <1>3
<1>11. /\ x.Kategorien = z.Kategorien /\ Len(x.Kategorien) = k
       /\ x.Unterkategorien = Halb(SollUnterkategorien(s), k, u + 1)
       /\ Len(x.Unterkategorien[k]) = u + 1
       /\ x.Items = ItemsStand(SollItems(s), k, u + 1, Len(zeilen))
  BY <1>3, <1>8 DEF SI, m
<1>12. /\ k \in Nat \ {0} /\ u + 1 \in Nat \ {0} /\ Len(zeilen) \in Nat \ {0}
       /\ \A i \in 1..Len(zeilen) : Len(zeilen[i].extras) \in Nat
       /\ Bis(SollItems(s)[k][u + 1], Len(zeilen)) = SollItems(s)[k][u + 1]
       /\ w = LiesAlleExtras(x, k, u + 1, zeilen)
  BY <1>1, <1>5, <1>7, <1>10 DEF SI, m
<1> QED BY <1>8, <1>9, <1>11, <1>12, Zenon DEF KindGelesen

\* One Unterkategorie more, with its lines, whatever becomes of their extras.
LEMMA KindSchritt ==
  ASSUME NEW s, IstSnapshot(s), NEW k \in 1..Len(s), NEW u \in Nat, u < Len(s[k].kinder),
         NEW z, z.trap \/ LesenStand(z, s, k, u),
         NEW w, w = LiesKind(z, k, s[k].kinder[u + 1])
  PROVE  w.trap \/ LesenStand(w, s, k, u + 1)
<1>1. CASE z.trap
  <2>1. w = z
    BY <1>1, Zenon DEF LiesKind
  <2> QED BY <1>1, <2>1
<1>2. CASE ~z.trap
  <2> DEFINE zeilen == s[k].kinder[u + 1].zeilen  SI == SollItems(s)  N == Len(zeilen)
  <2>0. LesenStand(z, s, k, u)
    BY <1>2
  <2>1. zeilen = s[k].kinder[u + 1].zeilen
    OBVIOUS
  <2> HIDE DEF zeilen
  <2>2. KindGelesen(s, k, u, z, zeilen, w)
    BY <1>2, <2>0, <2>1, KindItems
  <2>7. /\ k \in Nat \ {0} /\ u + 1 \in Nat \ {0} /\ N \in Nat \ {0}
        /\ \A i \in 1..N : Len(zeilen[i].extras) \in Nat
        /\ Bis(SI[k][u + 1], N) = SI[k][u + 1]
    BY <2>2 DEF KindGelesen
  <2>3. PICK x : /\ w = LiesAlleExtras(x, k, u + 1, zeilen)
                 /\ IstFund(x) /\ x.Kategorien = z.Kategorien
                 /\ x.Unterkategorien = Halb(SollUnterkategorien(s), k, u + 1)
                 /\ x.Items = ItemsStand(SI, k, u + 1, N)
    BY <2>2, Zenon DEF KindGelesen
  <2> HIDE DEF SI
  <2>4. ItemsStand(SI, k, u + 1, N) = Halb(SI, k, u + 1)
    <3> DEFINE R == SI[k]
    <3>1. ItemsStand(SI, k, u + 1, N) = Append(Bis(SI, k - 1), Halb(R, u + 1, N))
      BY <2>7 DEF ItemsStand
    <3>2. Halb(SI, k, u + 1) = Append(Bis(SI, k - 1), Bis(R, u + 1))
      BY <2>7 DEF Halb
    <3>3. Bis(R[u + 1], N) = R[u + 1]
      BY <2>7
    <3> HIDE DEF R, N
    <3>4. Halb(R, u + 1, N) = Bis(R, u + 1)
      BY <2>7, <3>3, HalbGanz
    <3> QED BY <3>1, <3>2, <3>4
  <2>5. OhneExtrasGleich(w, x)
    <3>1. N \in Nat
      BY <2>7
    <3> QED BY <2>7, <2>3, <3>1, AlleExtrasLassen
  <2>6. LesenStand(w, s, k, u + 1)
    BY <2>0, <2>3, <2>4, <2>5 DEF OhneExtrasGleich, LesenStand, SI
  <2> QED BY <2>6
<1> QED BY <1>1, <1>2

\* The names of the extras, and snapshots all of whose lines have extras: one each
\* in a later Unterkategorie of a later Kategorie.
SollNamen(s) == SollExtras(s, "Name")

IstGut(s) ==
  \A k \in 1..Len(s) : \A u \in 1..Len(s[k].kinder) :
    ExtrasGut(s[k].kinder[u].zeilen, k > 1 /\ u > 1)

LEMMA NamenLesen ==
  ASSUME NEW s, IstSnapshot(s), NEW k \in 1..Len(s), NEW u \in 1..Len(s[k].kinder),
         NEW zeilen, zeilen = s[k].kinder[u].zeilen
  PROVE  /\ NamenZu(SollNamen(s)[k][u], zeilen)
         /\ Bis(SollNamen(s)[k][u], Len(zeilen)) = SollNamen(s)[k][u]
         /\ Bis(SollNamen(s)[k], Len(s[k].kinder)) = SollNamen(s)[k]
<1> DEFINE kinder == s[k].kinder  S == SollNamen(s)
           namen(z) == [i \in DOMAIN z |-> [n \in DOMAIN z[i].extras |-> z[i].extras[n].Name]]
<1>1. DOMAIN s = 1..Len(s) /\ DOMAIN kinder = 1..Len(kinder)
  BY SnapshotLesen
<1>2. DOMAIN zeilen = 1..Len(zeilen)
  <2>1. Folge(zeilen)
    BY DEF IstSnapshot
  <2> QED BY <2>1, BisGanz
<1>3. S[k] = [j \in DOMAIN kinder |-> namen(kinder[j].zeilen)]
  BY <1>1 DEF SollNamen, SollExtras
<1>4. S[k][u] = namen(zeilen) /\ DOMAIN S[k] = 1..Len(kinder)
  BY <1>1, <1>3
<1> HIDE DEF S, kinder
<1>5. /\ DOMAIN S[k][u] = 1..Len(zeilen)
      /\ \A i \in 1..Len(zeilen) :
           S[k][u][i] = [n \in DOMAIN zeilen[i].extras |-> zeilen[i].extras[n].Name]
  BY <1>2, <1>4
<1>6. S[k][u] = [i \in 1..Len(zeilen) |-> S[k][u][i]] /\ S[k] = [j \in 1..Len(kinder) |-> S[k][j]]
  BY <1>1, <1>2, <1>3, <1>4
<1> QED BY <1>5, <1>6 DEF NamenZu, Bis, S, kinder

\* One Unterkategorie more, with the extras of its lines.
LEMMA KindExtras ==
  ASSUME NEW s, IstSnapshot(s), IstGut(s), NEW k \in 1..Len(s), NEW u \in Nat,
         u < Len(s[k].kinder), NEW z, LesenStand(z, s, k, u), Rein(z, Halb(SollNamen(s), k, u)),
         NEW w, w = LiesKind(z, k, s[k].kinder[u + 1])
  PROVE  LesenStand(w, s, k, u + 1) /\ Rein(w, Halb(SollNamen(s), k, u + 1))
<1> DEFINE zeilen == s[k].kinder[u + 1].zeilen  S == SollNamen(s)  N == Len(zeilen)  m == u + 1
<1>0. ~z.trap /\ zeilen = s[k].kinder[u + 1].zeilen
  BY DEF Rein, Heil
<1>1. m \in 1..Len(s[k].kinder)
  <2>1. Len(s[k].kinder) \in Nat
    BY SnapshotLesen
  <2> QED BY <2>1
<1>2. NamenZu(S[k][m], zeilen) /\ Bis(S[k][m], N) = S[k][m] /\ zeilen = s[k].kinder[m].zeilen
  BY <1>1, NamenLesen
<1>3. ExtrasGut(zeilen, k > 1 /\ m > 1)
  BY <1>1 DEF IstGut
<1> HIDE DEF zeilen
<1>4. KindGelesen(s, k, u, z, zeilen, w)
  BY <1>0, KindItems
<1>5. PICK x : /\ w = LiesAlleExtras(x, k, m, zeilen) /\ IstFund(x) /\ ExtrasGleich(x, z)
               /\ Len(x.Kategorien) = k /\ Len(x.Unterkategorien[k]) = m
  BY <1>4, Zenon DEF KindGelesen
<1> HIDE DEF S
<1>6. Rein(x, ItemsStand(S, k, m, 0))
  <2>1. ItemsStand(S, k, m, 0) = Halb(S, k, u)
    BY DEF ItemsStand
  <2> QED BY <1>5, <2>1 DEF Rein, ExtrasGleich, Heil, S
<1> HIDE DEF m
<1>7. Rein(w, ItemsStand(S, k, m, N))
  <2>1. m \in Nat \ {0} /\ k \in Nat \ {0} /\ Len(zeilen) \in Nat
    BY <1>4 DEF m, KindGelesen
  <2> HIDE DEF N
  <2>2. Rein(w, ItemsStand(S, k, m, Len(zeilen)))
    BY <1>2, <1>3, <1>5, <1>6, <2>1, AlleExtrasZuZeilen
  <2> QED BY <2>2 DEF N
<1>8. ItemsStand(S, k, m, N) = Halb(S, k, m)
  <2> DEFINE R == S[k]
  <2>1. m \in Nat \ {0} /\ N \in Nat \ {0}
    BY <1>4 DEF m, KindGelesen
  <2>2. ItemsStand(S, k, m, N) = Append(Bis(S, k - 1), Halb(R, m, N))
    BY <2>1 DEF ItemsStand
  <2>3. Halb(S, k, m) = Append(Bis(S, k - 1), Bis(R, m))
    BY <2>1 DEF Halb
  <2>4. Bis(R[m], N) = R[m]
    BY <1>2
  <2> HIDE DEF R, N
  <2>5. Halb(R, m, N) = Bis(R, m)
    BY <2>1, <2>4, HalbGanz
  <2> QED BY <2>2, <2>3, <2>5
<1>9. LesenStand(w, s, k, u + 1)
  <2>1. ~w.trap
    BY <1>7 DEF Rein, Heil
  <2> QED BY <2>1, KindSchritt
<1> QED BY <1>7, <1>8, <1>9 DEF S, m

\* z holds the first n Kategorien of s.
Fertig(z, s, n) ==
  /\ IstFund(z)
  /\ z.Kategorien = Bis(SollKategorien(s), n)
  /\ z.Unterkategorien = Bis(SollUnterkategorien(s), n)
  /\ z.Items = Bis(SollItems(s), n)

\* The Unterkategorien of a Kategorie, one after the other.
LEMMA KinderLesen ==
  ASSUME NEW s, IstSnapshot(s), NEW k \in 1..Len(s), NEW z, LesenStand(z, s, k, 0),
         NEW w, w = LiesKinder(z, k, s[k].kinder)
  PROVE  w.trap \/ Fertig(w, s, k)
<1> DEFINE kinder == s[k].kinder
           N == Len(kinder)
<1>1. k \in Nat \ {0} /\ N \in Nat \ {0} /\ N \in Nat
  BY SnapshotLesen
<1>2. PICK f : /\ f[0] = z /\ f[N] = LiesKinder(z, k, kinder)
               /\ \A n \in 0..N : n < N => f[n + 1] = LiesKind(f[n], k, kinder[n + 1])
  <2>1. Len(kinder) \in Nat
    BY <1>1
  <2> HIDE DEF kinder, N
  <2>2. PICK f : KinderFolge(f, z, k, kinder)
    BY <2>1, KinderGefolgt
  <2> QED BY <2>2 DEF KinderFolge, N
<1> DEFINE P(n) == f[n].trap \/ LesenStand(f[n], s, k, n)
           T == {n \in 0..N : P(n)}
<1>3. P(0)
  BY <1>2
<1>4. ASSUME NEW n \in 0..N, n < N, P(n) PROVE P(n + 1)
  <2> DEFINE y == f[n]  x == f[n + 1]
  <2>1. n \in Nat /\ n < Len(s[k].kinder) /\ x = LiesKind(y, k, s[k].kinder[n + 1])
    BY <1>2, <1>4
  <2>2. y.trap \/ LesenStand(y, s, k, n)
    BY <1>4
  <2> HIDE DEF x, y, P
  <2>3. x.trap \/ LesenStand(x, s, k, n + 1)
    BY <2>1, <2>2, KindSchritt
  <2> QED BY <2>3 DEF x, P
<1>5. N \in T
  <2> HIDE DEF P
  <2>1. T \subseteq 0..N /\ 0 \in T
    BY <1>1, <1>3
  <2>2. \A n \in T : n < N => n + 1 \in T
    BY <1>1, <1>4
  <2>3. N \in 0..N
    BY <1>1
  <2> HIDE DEF T, N
  <2> QED BY <1>1, <2>1, <2>2, <2>3, BisNull
<1>6. w.trap \/ LesenStand(w, s, k, N)
  <2>1. f[N] = w
    BY <1>2
  <2> QED BY <1>5, <2>1
<1>7. Halb(SollUnterkategorien(s), k, N) = Bis(SollUnterkategorien(s), k)
      /\ Halb(SollItems(s), k, N) = Bis(SollItems(s), k)
  <2> DEFINE SU == SollUnterkategorien(s)  SI == SollItems(s)
  <2>1. Bis(SU[k], N) = SU[k] /\ Bis(SI[k], N) = SI[k]
    BY SnapshotLesen
  <2> HIDE DEF SU, SI, N
  <2>2. Halb(SU, k, N) = Bis(SU, k) /\ Halb(SI, k, N) = Bis(SI, k)
    BY <1>1, <2>1, HalbGanz
  <2> QED BY <2>2 DEF SU, SI
<1> QED BY <1>6, <1>7 DEF LesenStand, Fertig

\* The same with their extras.
LEMMA KinderExtras ==
  ASSUME NEW s, IstSnapshot(s), IstGut(s), NEW k \in 1..Len(s), NEW z, LesenStand(z, s, k, 0),
         Rein(z, Bis(SollNamen(s), k - 1)), NEW w, w = LiesKinder(z, k, s[k].kinder)
  PROVE  Fertig(w, s, k) /\ Rein(w, Bis(SollNamen(s), k))
<1> DEFINE kinder == s[k].kinder
           N == Len(kinder)
           S == SollNamen(s)
<1>1. k \in Nat \ {0} /\ N \in Nat \ {0} /\ N \in Nat
  BY SnapshotLesen
<1>2. PICK f : /\ f[0] = z /\ f[N] = LiesKinder(z, k, kinder)
               /\ \A n \in 0..N : n < N => f[n + 1] = LiesKind(f[n], k, kinder[n + 1])
  <2>1. Len(kinder) \in Nat
    BY <1>1
  <2> HIDE DEF kinder, N
  <2>2. PICK f : KinderFolge(f, z, k, kinder)
    BY <2>1, KinderGefolgt
  <2> QED BY <2>2 DEF KinderFolge, N
<1> DEFINE P(n) == LesenStand(f[n], s, k, n) /\ Rein(f[n], Halb(S, k, n))
           T == {n \in 0..N : P(n)}
<1>3. P(0)
  <2>1. Halb(S, k, 0) = Bis(S, k - 1)
    BY DEF Halb
  <2> QED BY <1>2, <2>1
<1>4. ASSUME NEW n \in 0..N, n < N, P(n) PROVE P(n + 1)
  <2> DEFINE y == f[n]  x == f[n + 1]
  <2>1. n \in Nat /\ n < Len(s[k].kinder) /\ x = LiesKind(y, k, s[k].kinder[n + 1])
    BY <1>2, <1>4
  <2>2. LesenStand(y, s, k, n) /\ Rein(y, Halb(SollNamen(s), k, n))
    BY <1>4
  <2> HIDE DEF x, y, P, S
  <2>3. LesenStand(x, s, k, n + 1) /\ Rein(x, Halb(SollNamen(s), k, n + 1))
    BY <2>1, <2>2, KindExtras
  <2> QED BY <2>3 DEF x, P, S
<1>5. N \in T
  <2> HIDE DEF P
  <2>1. T \subseteq 0..N /\ 0 \in T
    BY <1>1, <1>3
  <2>2. \A n \in T : n < N => n + 1 \in T
    BY <1>1, <1>4
  <2>3. N \in 0..N
    BY <1>1
  <2> HIDE DEF T, N
  <2> QED BY <1>1, <2>1, <2>2, <2>3, BisNull
<1>6. LesenStand(z, s, k, 0) /\ Rein(w, Halb(S, k, N))
  <2>1. f[N] = w
    BY <1>2
  <2> QED BY <1>5, <2>1
<1>7. Halb(S, k, N) = Bis(S, k)
  <2>1. Bis(S[k], N) = S[k]
    <3>1. 1 \in 1..Len(s[k].kinder)
      BY <1>1
    <3> DEFINE zeilen == s[k].kinder[1].zeilen
    <3>2. zeilen = s[k].kinder[1].zeilen
      OBVIOUS
    <3> HIDE DEF zeilen
    <3> QED BY <3>1, <3>2, NamenLesen
  <2> HIDE DEF S, N
  <2> QED BY <1>1, <2>1, HalbGanz
<1>8. Fertig(w, s, k)
  <2>1. ~w.trap
    BY <1>6 DEF Rein, Heil
  <2> QED BY <2>1, KinderLesen
<1> QED BY <1>6, <1>7, <1>8

\* One Kategorie more: y has its name.
LEMMA KategorieBeginn ==
  ASSUME NEW s, IstSnapshot(s), NEW n \in Nat, n < Len(s),
         NEW z, ~z.trap, Fertig(z, s, n), NEW w, w = LiesKategorie(z, s[n + 1])
  PROVE  /\ n + 1 \in 1..Len(s)
         /\ \E y : /\ w = LiesKinder(y, n + 1, s[n + 1].kinder)
                   /\ LesenStand(y, s, n + 1, 0) /\ ExtrasGleich(y, z)
<1> DEFINE k == n + 1
           key == s[k].key
           y == [z EXCEPT !.Kategorien = Append(@, key)]
           SK == SollKategorien(s)
<1>1. w = LiesKinder(y, firstIndex(y.Kategorien, key), s[k].kinder)
  BY Zenon DEF LiesKategorie
<1>2. k \in 1..Len(s) /\ k \in Nat \ {0}
  <2>1. Len(s) \in Nat
    BY BisGanz DEF IstSnapshot
  <2> QED BY <2>1
<1>3. /\ IstFund(y) /\ y.Kategorien = Append(z.Kategorien, key)
      /\ y.Unterkategorien = z.Unterkategorien /\ y.Items = z.Items /\ ExtrasGleich(y, z)
  BY DEF Fertig, IstFund, FundFelder, ExtrasGleich
<1> HIDE DEF y
<1>4. SK[k] = key /\ DOMAIN SK = 1..Len(s) /\ Injektiv(SK)
  <2> HIDE DEF k
  <2> QED BY <1>2, SnapshotLesen
<1>5. y.Kategorien = Bis(SK, k)
  <2>1. Append(Bis(SK, n), SK[n + 1]) = Bis(SK, n + 1)
    <3> HIDE DEF SK
    <3> QED BY BisWaechst
  <2> QED BY <1>3, <1>4, <2>1 DEF Fertig
<1>6. firstIndex(y.Kategorien, key) = k
  <2> DEFINE t == Bis(SK, k)
  <2> HIDE DEF SK, k
  <2>1. Folge(t) /\ Len(t) = k /\ \A i \in 1..k : t[i] = SK[i]
    BY <1>2, BisLesen
  <2>2. t \in Seq(ToSet(t)) /\ k \in 1..Len(t) /\ t[k] = key /\ DOMAIN t = 1..k
    BY <1>2, <1>4, <2>1 DEF Folge
  <2> HIDE DEF t
  <2>3. Injektiv(t)
    <3>1. Len(s) \in Nat
      BY BisGanz DEF IstSnapshot
    <3>2. \A i \in 1..k : i \in 1..Len(s)
      BY <1>2, <3>1
    <3> QED BY <1>4, <2>1, <2>2, <3>2 DEF Injektiv
  <2>4. firstIndex(t, t[k]) = k
    BY <2>2, <2>3, FirstIndexInjektiv
  <2> QED BY <1>5, <2>2, <2>4 DEF t
<1>7. LesenStand(y, s, k, 0)
  <2>1. \A S : Halb(S, k, 0) = Bis(S, n)
    <3>1. k - 1 = n
      OBVIOUS
    <3> QED BY <3>1 DEF Halb
  <2> QED BY <1>3, <1>5, <2>1 DEF Fertig, LesenStand
<1>8. w = LiesKinder(y, k, s[k].kinder)
  BY <1>1, <1>6
<1> HIDE DEF k
<1>9. \E x : w = LiesKinder(x, k, s[k].kinder) /\ LesenStand(x, s, k, 0) /\ ExtrasGleich(x, z)
  BY <1>3, <1>7, <1>8
<1> QED BY <1>2, <1>9 DEF k

LEMMA KategorieSchritt ==
  ASSUME NEW s, IstSnapshot(s), NEW n \in Nat, n < Len(s),
         NEW z, z.trap \/ Fertig(z, s, n), NEW w, w = LiesKategorie(z, s[n + 1])
  PROVE  w.trap \/ Fertig(w, s, n + 1)
<1>1. CASE z.trap
  <2>1. w = z
    BY <1>1, Zenon DEF LiesKategorie
  <2> QED BY <1>1, <2>1
<1>2. CASE ~z.trap
  <2>1. Fertig(z, s, n)
    BY <1>2
  <2> DEFINE k == n + 1
  <2>2. k \in 1..Len(s) /\ \E y : w = LiesKinder(y, k, s[k].kinder) /\ LesenStand(y, s, k, 0)
    BY <1>2, <2>1, KategorieBeginn
  <2> HIDE DEF k
  <2> QED BY <2>2, KinderLesen DEF k
<1> QED BY <1>1, <1>2

\* The same with the extras.
LEMMA KategorieExtras ==
  ASSUME NEW s, IstSnapshot(s), IstGut(s), NEW n \in Nat, n < Len(s),
         NEW z, Fertig(z, s, n), Rein(z, Bis(SollNamen(s), n)),
         NEW w, w = LiesKategorie(z, s[n + 1])
  PROVE  Fertig(w, s, n + 1) /\ Rein(w, Bis(SollNamen(s), n + 1))
<1> DEFINE k == n + 1
<1>1. ~z.trap
  BY DEF Rein, Heil
<1>2. /\ k \in 1..Len(s)
      /\ \E y : /\ w = LiesKinder(y, k, s[k].kinder)
                /\ LesenStand(y, s, k, 0) /\ ExtrasGleich(y, z)
  BY <1>1, KategorieBeginn
<1>3. PICK y : w = LiesKinder(y, k, s[k].kinder) /\ LesenStand(y, s, k, 0) /\ ExtrasGleich(y, z)
  BY <1>2
<1>4. k - 1 = n
  OBVIOUS
<1> HIDE DEF k
<1>5. Rein(y, Bis(SollNamen(s), k - 1))
  BY <1>3, <1>4 DEF Rein, ExtrasGleich, Heil
<1> QED BY <1>2, <1>3, <1>5, KinderExtras DEF k

\* Whatever was left from other orders, a snapshot is read into arrays of its
\* Kategorien, their Unterkategorien and their lines, unless the reader crashes.
LEMMA FundLesen ==
  ASSUME NEW s, IstSnapshot(s), NEW r, NEW z, z = Fund(s, r), ~z.trap
  PROVE  /\ z.Kategorien = SollKategorien(s)
         /\ z.Unterkategorien = SollUnterkategorien(s)
         /\ z.Items = SollItems(s)
<1> DEFINE N == Len(s)
<1>1. N \in Nat /\ DOMAIN s = 1..N
  BY BisGanz DEF IstSnapshot
<1>2. PICK f : /\ f[0] = LeererFund(r) /\ f[N] = Fund(s, r)
               /\ \A n \in 0..N : n < N => f[n + 1] = LiesKategorie(f[n], s[n + 1])
  BY <1>1, FundNacheinander
<1> DEFINE P(n) == f[n].trap \/ Fertig(f[n], s, n)
           T == {n \in 0..N : P(n)}
<1>3. P(0)
  <2>1. \A S : Bis(S, 0) = <<>>
    BY BisNichts
  <2>2. Fertig(LeererFund(r), s, 0)
    BY <2>1 DEF Fertig, LeererFund, IstFund, FundFelder
  <2> QED BY <1>2, <2>2
<1>4. ASSUME NEW n \in 0..N, n < N, P(n) PROVE P(n + 1)
  <2> DEFINE y == f[n]  x == f[n + 1]
  <2>1. n \in Nat /\ n < Len(s) /\ x = LiesKategorie(y, s[n + 1])
    BY <1>2, <1>4
  <2>2. y.trap \/ Fertig(y, s, n)
    BY <1>4
  <2> HIDE DEF x, y, P
  <2>3. x.trap \/ Fertig(x, s, n + 1)
    BY <2>1, <2>2, KategorieSchritt
  <2> QED BY <2>3 DEF x, P
<1>5. N \in T
  <2> HIDE DEF P
  <2>1. T \subseteq 0..N /\ 0 \in T
    BY <1>1, <1>3
  <2>2. \A n \in T : n < N => n + 1 \in T
    BY <1>1, <1>4
  <2>3. N \in 0..N
    BY <1>1
  <2> HIDE DEF T, N
  <2> QED BY <1>1, <2>1, <2>2, <2>3, BisNull
<1>6. Fertig(z, s, N)
  <2>1. f[N] = z
    BY <1>2
  <2> QED BY <1>5, <2>1
<1>7. /\ Bis(SollKategorien(s), N) = SollKategorien(s)
      /\ Bis(SollUnterkategorien(s), N) = SollUnterkategorien(s)
      /\ Bis(SollItems(s), N) = SollItems(s)
  <2> HIDE DEF N
  <2>1. Bis(SollKategorien(s), N) = SollKategorien(s)
    BY <1>1 DEF Bis, SollKategorien
  <2>2. Bis(SollUnterkategorien(s), N) = SollUnterkategorien(s)
    BY <1>1 DEF Bis, SollUnterkategorien
  <2>3. Bis(SollItems(s), N) = SollItems(s)
    BY <1>1 DEF Bis, SollItems
  <2> QED BY <2>1, <2>2, <2>3
<1> QED BY <1>6, <1>7 DEF Fertig

\* A snapshot all of whose lines have extras, one each in a later Unterkategorie of a
\* later Kategorie, is read without a crash, and the names of the extras are at their
\* lines, if nothing was left from other orders; nor is anything left then.
LEMMA FundExtras ==
  ASSUME NEW s, IstSnapshot(s), IstGut(s), NEW z, z = Fund(s, KeinRest)
  PROVE  Rein(z, SollNamen(s))
<1> DEFINE N == Len(s)  r == KeinRest  S == SollNamen(s)
<1>1. N \in Nat /\ DOMAIN s = 1..N
  BY BisGanz DEF IstSnapshot
<1>2. PICK f : /\ f[0] = LeererFund(r) /\ f[N] = Fund(s, r)
               /\ \A n \in 0..N : n < N => f[n + 1] = LiesKategorie(f[n], s[n + 1])
  BY <1>1, FundNacheinander
<1> DEFINE P(n) == Fertig(f[n], s, n) /\ Rein(f[n], Bis(S, n))
           T == {n \in 0..N : P(n)}
<1>3. P(0)
  <2>1. \A R : Bis(R, 0) = <<>>
    BY BisNichts
  <2>2. Fertig(LeererFund(r), s, 0)
    BY <2>1 DEF Fertig, LeererFund, IstFund, FundFelder
  <2> HIDE DEF S
  <2>3. Rein(LeererFund(r), Bis(S, 0))
    BY <2>1 DEF Rein, Heil, LeererFund, KeinRest
  <2> QED BY <1>2, <2>2, <2>3 DEF S
<1>4. ASSUME NEW n \in 0..N, n < N, P(n) PROVE P(n + 1)
  <2> DEFINE y == f[n]  x == f[n + 1]
  <2>1. n \in Nat /\ n < Len(s) /\ x = LiesKategorie(y, s[n + 1])
    BY <1>2, <1>4
  <2>2. Fertig(y, s, n) /\ Rein(y, Bis(SollNamen(s), n))
    BY <1>4
  <2> HIDE DEF x, y, P, S
  <2>3. Fertig(x, s, n + 1) /\ Rein(x, Bis(SollNamen(s), n + 1))
    BY <2>1, <2>2, KategorieExtras
  <2> QED BY <2>3 DEF x, P, S
<1>5. N \in T
  <2> HIDE DEF P
  <2>1. T \subseteq 0..N /\ 0 \in T
    BY <1>1, <1>3
  <2>2. \A n \in T : n < N => n + 1 \in T
    BY <1>1, <1>4
  <2>3. N \in 0..N
    BY <1>1
  <2> HIDE DEF T, N
  <2> QED BY <1>1, <2>1, <2>2, <2>3, BisNull
<1>6. Rein(z, Bis(S, N))
  <2>1. f[N] = z
    BY <1>2
  <2> QED BY <1>5, <2>1
<1>7. Bis(S, N) = S
  <2> HIDE DEF N
  <2> QED BY <1>1 DEF Bis, SollNamen, SollExtras
<1> QED BY <1>6, <1>7

-----------------------------------------------------------------------------
(* What the reader makes of the prices, whatever becomes of a line's extras. *)

\* The extras of every line have the prices that belong to their names.
AllePreiseZu(pr, s) ==
  \A k \in 1..Len(s) : \A u \in 1..Len(s[k].kinder) :
    \A i \in 1..Len(s[k].kinder[u].zeilen) : PreiseZu(pr, s[k].kinder[u].zeilen[i].extras)

LEMMA KindPreise ==
  ASSUME NEW pr, NEW s, IstSnapshot(s), AllePreiseZu(pr, s), NEW k \in 1..Len(s), NEW u \in Nat,
         u < Len(s[k].kinder), NEW z, z.trap \/ LesenStand(z, s, k, u), PreisTreu(pr, z),
         NEW w, w = LiesKind(z, k, s[k].kinder[u + 1])
  PROVE  PreisTreu(pr, w)
<1>1. CASE z.trap
  <2>1. w = z
    BY <1>1, Zenon DEF LiesKind
  <2> QED BY <2>1
<1>2. CASE ~z.trap
  <2> DEFINE m == u + 1  zeilen == s[k].kinder[m].zeilen  N == Len(zeilen)
  <2>0. LesenStand(z, s, k, u)
    BY <1>2
  <2>2. m \in 1..Len(s[k].kinder)
    <3>1. Len(s[k].kinder) \in Nat
      BY SnapshotLesen
    <3> QED BY <3>1
  <2>3. \A i \in 1..N : PreiseZu(pr, zeilen[i].extras)
    BY <2>2 DEF AllePreiseZu
  <2> HIDE DEF zeilen
  <2>1. zeilen = s[k].kinder[u + 1].zeilen
    BY DEF zeilen
  <2>4. KindGelesen(s, k, u, z, zeilen, w)
    BY <1>2, <2>0, <2>1, KindItems
  <2>5. PICK x : /\ w = LiesAlleExtras(x, k, m, zeilen) /\ IstFund(x) /\ ExtrasGleich(x, z)
                 /\ Len(x.Kategorien) = k
    BY <2>4, Zenon DEF KindGelesen
  <2>6. PreisTreu(pr, x)
    BY <2>5 DEF PreisTreu, ExtrasGleich
  <2>7. /\ k \in Nat \ {0} /\ N \in Nat
        /\ \A i \in 1..N : Len(zeilen[i].extras) \in Nat /\ PreiseZu(pr, zeilen[i].extras)
    BY <2>3, <2>4 DEF KindGelesen
  <2> HIDE DEF m
  <2> QED BY <2>5, <2>6, <2>7, AlleExtrasBepreist
<1> QED BY <1>1, <1>2

LEMMA KinderPreise ==
  ASSUME NEW pr, NEW s, IstSnapshot(s), AllePreiseZu(pr, s), NEW k \in 1..Len(s),
         NEW z, LesenStand(z, s, k, 0), PreisTreu(pr, z),
         NEW w, w = LiesKinder(z, k, s[k].kinder)
  PROVE  PreisTreu(pr, w)
<1> DEFINE kinder == s[k].kinder
           N == Len(kinder)
<1>1. k \in Nat \ {0} /\ N \in Nat \ {0} /\ N \in Nat
  BY SnapshotLesen
<1>2. PICK f : /\ f[0] = z /\ f[N] = LiesKinder(z, k, kinder)
               /\ \A n \in 0..N : n < N => f[n + 1] = LiesKind(f[n], k, kinder[n + 1])
  <2>1. Len(kinder) \in Nat
    BY <1>1
  <2> HIDE DEF kinder, N
  <2>2. PICK f : KinderFolge(f, z, k, kinder)
    BY <2>1, KinderGefolgt
  <2> QED BY <2>2 DEF KinderFolge, N
<1> DEFINE P(n) == (f[n].trap \/ LesenStand(f[n], s, k, n)) /\ PreisTreu(pr, f[n])
           T == {n \in 0..N : P(n)}
<1>3. P(0)
  BY <1>2
<1>4. ASSUME NEW n \in 0..N, n < N, P(n) PROVE P(n + 1)
  <2> DEFINE y == f[n]  x == f[n + 1]
  <2>1. n \in Nat /\ n < Len(s[k].kinder) /\ x = LiesKind(y, k, s[k].kinder[n + 1])
    BY <1>2, <1>4
  <2>2. (y.trap \/ LesenStand(y, s, k, n)) /\ PreisTreu(pr, y)
    BY <1>4
  <2> HIDE DEF x, y, P
  <2>3. x.trap \/ LesenStand(x, s, k, n + 1)
    BY <2>1, <2>2, KindSchritt
  <2>4. PreisTreu(pr, x)
    BY <2>1, <2>2, KindPreise
  <2> QED BY <2>3, <2>4 DEF x, P
<1>5. N \in T
  <2> HIDE DEF P
  <2>1. T \subseteq 0..N /\ 0 \in T
    BY <1>1, <1>3
  <2>2. \A n \in T : n < N => n + 1 \in T
    BY <1>1, <1>4
  <2>3. N \in 0..N
    BY <1>1
  <2> HIDE DEF T, N
  <2> QED BY <1>1, <2>1, <2>2, <2>3, BisNull
<1>6. f[N] = w
  BY <1>2
<1> QED BY <1>5, <1>6

LEMMA KategoriePreise ==
  ASSUME NEW pr, NEW s, IstSnapshot(s), AllePreiseZu(pr, s), NEW n \in Nat, n < Len(s),
         NEW z, z.trap \/ Fertig(z, s, n), PreisTreu(pr, z), NEW w, w = LiesKategorie(z, s[n + 1])
  PROVE  PreisTreu(pr, w)
<1>1. CASE z.trap
  <2>1. w = z
    BY <1>1, Zenon DEF LiesKategorie
  <2> QED BY <2>1
<1>2. CASE ~z.trap
  <2> DEFINE k == n + 1
  <2>1. Fertig(z, s, n)
    BY <1>2
  <2>2. /\ k \in 1..Len(s)
        /\ \E y : /\ w = LiesKinder(y, k, s[k].kinder)
                  /\ LesenStand(y, s, k, 0) /\ ExtrasGleich(y, z)
    BY <1>2, <2>1, KategorieBeginn
  <2>3. PICK y : w = LiesKinder(y, k, s[k].kinder) /\ LesenStand(y, s, k, 0) /\ ExtrasGleich(y, z)
    BY <2>2
  <2>4. PreisTreu(pr, y)
    BY <2>3 DEF PreisTreu, ExtrasGleich
  <2> HIDE DEF k
  <2> QED BY <2>2, <2>3, <2>4, KinderPreise
<1> QED BY <1>1, <1>2

\* Whatever the shape of a snapshot, each price is listed in the Unterkategorie of its
\* extra, and beyond the first one at its line, if nothing was left from other orders.
LEMMA FundPreise ==
  ASSUME NEW pr, NEW s, IstSnapshot(s), AllePreiseZu(pr, s), NEW z, z = Fund(s, KeinRest)
  PROVE  PreisTreu(pr, z)
<1> DEFINE N == Len(s)  r == KeinRest
<1>1. N \in Nat /\ DOMAIN s = 1..N
  BY BisGanz DEF IstSnapshot
<1>2. PICK f : /\ f[0] = LeererFund(r) /\ f[N] = Fund(s, r)
               /\ \A n \in 0..N : n < N => f[n + 1] = LiesKategorie(f[n], s[n + 1])
  BY <1>1, FundNacheinander
<1> DEFINE P(n) == (f[n].trap \/ Fertig(f[n], s, n)) /\ PreisTreu(pr, f[n])
           T == {n \in 0..N : P(n)}
<1>3. P(0)
  <2>1. \A R : Bis(R, 0) = <<>>
    BY BisNichts
  <2>2. Fertig(LeererFund(r), s, 0)
    BY <2>1 DEF Fertig, LeererFund, IstFund, FundFelder
  <2>3. PreisTreu(pr, LeererFund(r))
    BY LeereFolge DEF PreisTreu, AllesBepreist, Bepreist, LeererFund, KeinRest
  <2> QED BY <1>2, <2>2, <2>3
<1>4. ASSUME NEW n \in 0..N, n < N, P(n) PROVE P(n + 1)
  <2> DEFINE y == f[n]  x == f[n + 1]
  <2>1. n \in Nat /\ n < Len(s) /\ x = LiesKategorie(y, s[n + 1])
    BY <1>2, <1>4
  <2>2. (y.trap \/ Fertig(y, s, n)) /\ PreisTreu(pr, y)
    BY <1>4
  <2> HIDE DEF x, y, P
  <2>3. x.trap \/ Fertig(x, s, n + 1)
    BY <2>1, <2>2, KategorieSchritt
  <2>4. PreisTreu(pr, x)
    BY <2>1, <2>2, KategoriePreise
  <2> QED BY <2>3, <2>4 DEF x, P
<1>5. N \in T
  <2> HIDE DEF P
  <2>1. T \subseteq 0..N /\ 0 \in T
    BY <1>1, <1>3
  <2>2. \A n \in T : n < N => n + 1 \in T
    BY <1>1, <1>4
  <2>3. N \in 0..N
    BY <1>1
  <2> HIDE DEF T, N
  <2> QED BY <1>1, <2>1, <2>2, <2>3, BisNull
<1>6. f[N] = z
  BY <1>2
<1> QED BY <1>5, <1>6
=============================================================================
