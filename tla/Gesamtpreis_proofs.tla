--------------------------- MODULE Gesamtpreis_proofs ---------------------------
(***************************************************************************)
(* For every order, however long the guest scrolls and taps: teilPreis     *)
(* finds a quantity and a price of extras at every index of the prices,    *)
(* and the total is right when the overview opens, if each line has one    *)
(* extra.                                                                  *)
(***************************************************************************)
EXTENDS Gesamtpreis, Bestellfelder_proofs

-----------------------------------------------------------------------------
(* FlattenSeq.                                                             *)

\* Of a sequence that is not empty it is what its recursive function computes.
LEMMA FlattenRechnet ==
  ASSUME NEW s, Len(s) \in Nat \ {0}
  PROVE  \E f : Verkettung(f, s, Len(s)) /\ FlattenSeq(s) = f[Len(s)]
<1> DEFINE f == CHOOSE f : f = [i \in 1..Len(s) |-> IF i = 1 THEN s[i] ELSE f[i - 1] \o s[i]]
<1>1. FlattenSeq(s) = f[Len(s)]
  BY DEF FlattenSeq
<1>2. PICK h : Verkettung(h, s, Len(s))
  BY FlattenFunktion
<1>3. h = [i \in 1..Len(s) |-> IF i = 1 THEN s[i] ELSE h[i - 1] \o s[i]]
  BY <1>2 DEF Verkettung
<1>4. Verkettung(f, s, Len(s))
  BY <1>3, Zenon DEF Verkettung
<1> QED BY <1>1, <1>4

LEMMA FlattenLeer == FlattenSeq(<<>>) = <<>>
  BY DEF FlattenSeq

\* One more sequence is appended.
LEMMA FlattenAppend ==
  ASSUME NEW S, NEW s \in Seq(Seq(S)), NEW t \in Seq(S)
  PROVE  FlattenSeq(Append(s, t)) = FlattenSeq(s) \o t
<1> DEFINE n == Len(s)
           a == Append(s, t)
<1>1. /\ n \in Nat /\ Len(a) = n + 1 /\ n + 1 \in Nat \ {0} /\ a[n + 1] = t
      /\ \A i \in 1..n : a[i] = s[i]
  BY AppendFolge
<1> HIDE DEF a
<1>2. PICK g : Verkettung(g, a, n + 1) /\ FlattenSeq(a) = g[n + 1]
  BY <1>1, FlattenRechnet
<1>3. \A i \in 1..(n + 1) : g[i] = IF i = 1 THEN a[i] ELSE g[i - 1] \o a[i]
  BY <1>2 DEF Verkettung
<1>4. CASE n = 0
  <2>1. s = <<>> /\ <<>> \o t = t
    BY <1>4
  <2>2. g[1] = a[1] /\ a[1] = t
    BY <1>1, <1>3, <1>4
  <2> QED BY <1>2, <1>4, <2>1, <2>2, FlattenLeer DEF a
<1>5. CASE n # 0
  <2>1. PICK f : Verkettung(f, s, n) /\ FlattenSeq(s) = f[n]
    BY <1>1, <1>5, FlattenRechnet
  <2>2. \A i \in 1..n : f[i] = IF i = 1 THEN s[i] ELSE f[i - 1] \o s[i]
    BY <2>1 DEF Verkettung
  <2> DEFINE T == {i \in 1..n : g[i] = f[i]}
  <2>3. 1 \in T
    BY <1>1, <1>3, <1>5, <2>2
  <2>4. ASSUME NEW i \in T, i < n PROVE i + 1 \in T
    <3>1. i \in 1..n /\ g[i] = f[i]
      OBVIOUS
    <3>2. i + 1 \in 1..n /\ i + 1 \in 1..(n + 1) /\ i + 1 # 1 /\ (i + 1) - 1 = i
      BY <1>1, <2>4, <3>1
    <3>3. g[i + 1] = g[i] \o a[i + 1] /\ f[i + 1] = f[i] \o s[i + 1]
      BY <1>3, <2>2, <3>2
    <3>4. a[i + 1] = s[i + 1]
      BY <1>1, <3>2
    <3> QED BY <3>1, <3>2, <3>3, <3>4
  <2>5. T = 1..n
    <3>1. T \subseteq 1..n /\ n \in Nat
      BY <1>1
    <3> HIDE DEF T, n
    <3> QED BY <2>3, <2>4, <3>1, BisN
  <2>6. g[n] = f[n]
    <3>1. n \in 1..n
      BY <1>1, <1>5
    <3> HIDE DEF n
    <3>2. n \in T
      BY <2>5, <3>1
    <3> QED BY <3>2
  <2>7. g[n + 1] = g[n] \o t
    <3>1. n + 1 \in 1..(n + 1) /\ n + 1 # 1 /\ (n + 1) - 1 = n
      BY <1>1, <1>5
    <3>2. g[n + 1] = g[(n + 1) - 1] \o a[n + 1]
      BY <1>3, <3>1
    <3> QED BY <1>1, <3>1, <3>2
  <2> QED BY <1>2, <2>1, <2>6, <2>7 DEF a
<1> QED BY <1>4, <1>5 DEF a

\* The first n elements of a sequence.
LEMMA AnfangWaechst ==
  ASSUME NEW S, NEW s \in Seq(S), NEW n \in Nat, n < Len(s)
  PROVE  /\ Bis(s, n) \in Seq(S) /\ s[n + 1] \in S
         /\ Bis(s, n + 1) = Append(Bis(s, n), s[n + 1])
<1>1. n + 1 \in 1..Len(s) /\ \A i \in 1..n : i \in 1..Len(s)
  OBVIOUS
<1>2. s[n + 1] \in S /\ \A i \in 1..n : s[i] \in S
  BY <1>1
<1>3. Bis(s, n) \in [1..n -> S]
  BY <1>2 DEF Bis
<1>4. Bis(s, n) \in Seq(S)
  BY <1>3
<1>5. Bis(s, n + 1) = Append(Bis(s, n), s[n + 1])
  BY BisWaechst
<1> QED BY <1>2, <1>4, <1>5

LEMMA AnfangGanz ==
  ASSUME NEW S, NEW s \in Seq(S)
  PROVE  Bis(s, 0) = <<>> /\ Bis(s, Len(s)) = s
<1>1. Bis(s, 0) = <<>>
  BY DEF Bis
<1>2. s = [i \in 1..Len(s) |-> s[i]]
  OBVIOUS
<1> QED BY <1>1, <1>2 DEF Bis

\* Induction over the first elements of a sequence of sequences, for a set of lengths.
LEMMA FlattenTyp ==
  ASSUME NEW S, NEW s \in Seq(Seq(S))
  PROVE  FlattenSeq(s) \in Seq(S)
<1> DEFINE N == Len(s)
           T == {n \in 0..N : FlattenSeq(Bis(s, n)) \in Seq(S)}
<1>1. 0 \in T
  <2>1. Bis(s, 0) = <<>> /\ <<>> \in Seq(S) /\ 0 \in 0..N
    BY AnfangGanz
  <2> QED BY <2>1, FlattenLeer
<1>2. ASSUME NEW n \in T, n < N PROVE n + 1 \in T
  <2>1. n \in Nat /\ n + 1 \in 0..N /\ n < Len(s) /\ FlattenSeq(Bis(s, n)) \in Seq(S)
    BY <1>2
  <2>2. /\ Bis(s, n) \in Seq(Seq(S)) /\ s[n + 1] \in Seq(S)
        /\ Bis(s, n + 1) = Append(Bis(s, n), s[n + 1])
    BY <2>1, AnfangWaechst
  <2>3. FlattenSeq(Bis(s, n + 1)) = FlattenSeq(Bis(s, n)) \o s[n + 1]
    BY <2>2, FlattenAppend
  <2>4. FlattenSeq(Bis(s, n)) \o s[n + 1] \in Seq(S)
    BY <2>1, <2>2, ConcatProperties
  <2> QED BY <2>1, <2>3, <2>4
<1>3. T = 0..N
  <2>1. T \subseteq 0..N /\ N \in Nat
    OBVIOUS
  <2> HIDE DEF T, N
  <2> QED BY <1>1, <1>2, <2>1, BisNull
<1>4. N \in T
  <2>1. N \in 0..N
    OBVIOUS
  <2> HIDE DEF T
  <2> QED BY <1>3, <2>1
<1> QED BY <1>4, AnfangGanz

\* Two sequences of sequences, one after the other.
LEMMA FlattenVerkettet ==
  ASSUME NEW S, NEW s \in Seq(Seq(S)), NEW t \in Seq(Seq(S))
  PROVE  FlattenSeq(s \o t) = FlattenSeq(s) \o FlattenSeq(t)
<1> DEFINE N == Len(t)
           F(n) == FlattenSeq(s \o Bis(t, n)) = FlattenSeq(s) \o FlattenSeq(Bis(t, n))
           T == {n \in 0..N : F(n)}
<1>0. FlattenSeq(s) \in Seq(S)
  BY FlattenTyp
<1>1. 0 \in T
  <2>1. Bis(t, 0) = <<>> /\ s \o <<>> = s /\ 0 \in 0..N
    BY AnfangGanz
  <2>2. FlattenSeq(s) \o <<>> = FlattenSeq(s)
    BY <1>0
  <2>3. F(0)
    BY <2>1, <2>2, FlattenLeer
  <2> HIDE DEF F, T
  <2> QED BY <2>1, <2>3 DEF T
<1>2. ASSUME NEW n \in T, n < N PROVE n + 1 \in T
  <2> DEFINE b == Bis(t, n)  w == t[n + 1]
  <2>1. n \in Nat /\ n + 1 \in 0..N /\ n < Len(t) /\ F(n)
    BY <1>2
  <2>2. b \in Seq(Seq(S)) /\ w \in Seq(S) /\ Bis(t, n + 1) = Append(b, w)
    BY <2>1, AnfangWaechst
  <2>3. FlattenSeq(s \o b) = FlattenSeq(s) \o FlattenSeq(b)
    BY <2>1
  <2> HIDE DEF b, w, T
  <2>4. s \o Append(b, w) = Append(s \o b, w) /\ s \o b \in Seq(Seq(S))
    BY <2>2
  <2>5. FlattenSeq(Append(s \o b, w)) = FlattenSeq(s \o b) \o w
    BY <2>2, <2>4, FlattenAppend
  <2>6. FlattenSeq(Append(b, w)) = FlattenSeq(b) \o w /\ FlattenSeq(b) \in Seq(S)
    BY <2>2, FlattenAppend, FlattenTyp
  <2>7. (FlattenSeq(s) \o FlattenSeq(b)) \o w = FlattenSeq(s) \o (FlattenSeq(b) \o w)
    <3> DEFINE c == FlattenSeq(s)  d == FlattenSeq(b)
    <3>1. c \in Seq(S) /\ d \in Seq(S) /\ w \in Seq(S)
      BY <1>0, <2>2, <2>6
    <3> HIDE DEF c, d
    <3>2. (c \o d) \o w = c \o (d \o w)
      BY <3>1, ConcatAssociative
    <3> QED BY <3>2 DEF c, d
  <2>8. F(n + 1)
    BY <2>2, <2>3, <2>4, <2>5, <2>6, <2>7
  <2> QED BY <2>1, <2>8 DEF T
<1>3. T = 0..N
  <2>1. T \subseteq 0..N /\ N \in Nat
    OBVIOUS
  <2> HIDE DEF T, N
  <2> QED BY <1>1, <1>2, <2>1, BisNull
<1>4. N \in T
  <2>1. N \in 0..N
    OBVIOUS
  <2> HIDE DEF T
  <2> QED BY <1>3, <2>1
<1> QED BY <1>4, AnfangGanz

LEMMA EinesDazu ==
  ASSUME NEW S, NEW s \in Seq(S), NEW t \in Seq(S), Len(t) = 1
  PROVE  /\ Len(s \o t) = Len(s) + 1 /\ (s \o t)[Len(s) + 1] = t[1]
         /\ \A i \in 1..Len(s) : (s \o t)[i] = s[i]
<1>1. /\ Len(s \o t) = Len(s) + 1
      /\ \A i \in 1..(Len(s) + 1) : (s \o t)[i] = IF i <= Len(s) THEN s[i] ELSE t[i - Len(s)]
  <2>1. /\ Len(s \o t) = Len(s) + Len(t)
        /\ \A i \in 1..(Len(s) + Len(t)) :
             (s \o t)[i] = IF i <= Len(s) THEN s[i] ELSE t[i - Len(s)]
    BY ConcatProperties
  <2>2. Len(s) + Len(t) = Len(s) + 1
    OBVIOUS
  <2> QED BY <2>1, <2>2, Zenon
<1>2. /\ Len(s) + 1 \in 1..(Len(s) + 1) /\ ~(Len(s) + 1 <= Len(s)) /\ (Len(s) + 1) - Len(s) = 1
      /\ \A i \in 1..Len(s) : i \in 1..(Len(s) + 1) /\ i <= Len(s)
  OBVIOUS
<1>3. (s \o t)[Len(s) + 1] = t[1]
  BY <1>1, <1>2
<1> QED BY <1>1, <1>2, <1>3

\* The same element at every index, as far as each sequence is one long; and at least
\* as many elements as there are sequences, if none is empty.
LEMMA FlattenEinzeln ==
  ASSUME NEW S, NEW e \in Seq(Seq(S)), \A i \in 1..Len(e) : Len(e[i]) = 1
  PROVE  FlattenSeq(e) = [i \in 1..Len(e) |-> e[i][1]]
<1> DEFINE N == Len(e)
           x(n) == FlattenSeq(Bis(e, n))
           F(n) == Len(x(n)) = n /\ \A i \in 1..n : x(n)[i] = e[i][1]
           T == {n \in 0..N : F(n)}
<1>1. 0 \in T
  <2>1. Bis(e, 0) = <<>> /\ Len(<<>>) = 0 /\ 0 \in 0..N /\ 1..0 = {}
    BY AnfangGanz
  <2>2. F(0)
    BY <2>1, FlattenLeer
  <2> HIDE DEF F, T
  <2> QED BY <2>1, <2>2 DEF T
<1>2. ASSUME NEW n \in T, n < N PROVE n + 1 \in T
  <2> DEFINE b == Bis(e, n)  w == e[n + 1]  y == FlattenSeq(b)
  <2>1. n \in Nat /\ n + 1 \in 0..N /\ n + 1 \in 1..N /\ n < Len(e) /\ F(n)
    BY <1>2
  <2>2. b \in Seq(Seq(S)) /\ w \in Seq(S) /\ Bis(e, n + 1) = Append(b, w)
    BY <2>1, AnfangWaechst
  <2>3. Len(w) = 1
    BY <2>1
  <2>4. Len(y) = n /\ \A i \in 1..n : y[i] = e[i][1]
    BY <2>1
  <2> HIDE DEF b, w, T, F
  <2>5. FlattenSeq(Append(b, w)) = y \o w /\ y \in Seq(S)
    BY <2>2, FlattenAppend, FlattenTyp
  <2> HIDE DEF y
  <2>6. /\ Len(y \o w) = n + 1 /\ (y \o w)[n + 1] = w[1]
        /\ \A i \in 1..n : (y \o w)[i] = y[i]
    BY <2>2, <2>3, <2>4, <2>5, EinesDazu
  <2>7. \A i \in 1..(n + 1) : i \in 1..n \/ i = n + 1
    BY <2>1
  <2>8. \A i \in 1..(n + 1) : (y \o w)[i] = e[i][1]
    BY <2>4, <2>6, <2>7 DEF w
  <2>9. F(n + 1)
    BY <2>2, <2>5, <2>6, <2>8 DEF F
  <2> QED BY <2>1, <2>9 DEF T
<1>3. T = 0..N
  <2>1. T \subseteq 0..N /\ N \in Nat
    OBVIOUS
  <2> HIDE DEF T, N
  <2> QED BY <1>1, <1>2, <2>1, BisNull
<1>4. F(N)
  <2>1. N \in 0..N
    OBVIOUS
  <2> HIDE DEF T, F, N
  <2>2. N \in T
    BY <1>3, <2>1
  <2> QED BY <2>2 DEF T
<1>5. x(N) = FlattenSeq(e) /\ FlattenSeq(e) \in Seq(S)
  BY AnfangGanz, FlattenTyp
<1> QED BY <1>4, <1>5

LEMMA FlattenLang ==
  ASSUME NEW S, NEW e \in Seq(Seq(S) \ {<<>>})
  PROVE  Len(e) <= Len(FlattenSeq(e))
<1> DEFINE N == Len(e)
           F(n) == n <= Len(FlattenSeq(Bis(e, n)))
           T == {n \in 0..N : F(n)}
<1>0. e \in Seq(Seq(S))
  OBVIOUS
<1>1. 0 \in T
  <2>1. Bis(e, 0) = <<>> /\ Len(<<>>) = 0 /\ 0 \in 0..N /\ 0 <= 0
    BY AnfangGanz
  <2>2. F(0)
    BY <2>1, FlattenLeer
  <2> HIDE DEF F, T
  <2> QED BY <2>1, <2>2 DEF T
<1>2. ASSUME NEW n \in T, n < N PROVE n + 1 \in T
  <2> DEFINE b == Bis(e, n)  w == e[n + 1]  y == FlattenSeq(b)
  <2>1. n \in Nat /\ n + 1 \in 0..N /\ n + 1 \in 1..N /\ n < Len(e) /\ F(n)
    BY <1>2
  <2>2. b \in Seq(Seq(S)) /\ w \in Seq(S) /\ Bis(e, n + 1) = Append(b, w)
    BY <1>0, <2>1, AnfangWaechst
  <2>3. Len(w) \in Nat /\ Len(w) # 0
    BY <2>1
  <2>4. n <= Len(y)
    BY <2>1
  <2> HIDE DEF b, w, T, F
  <2>5. FlattenSeq(Append(b, w)) = y \o w /\ y \in Seq(S)
    BY <2>2, FlattenAppend, FlattenTyp
  <2> HIDE DEF y
  <2>6. Len(y \o w) = Len(y) + Len(w) /\ Len(y) \in Nat
    BY <2>2, <2>5, ConcatProperties
  <2>7. n + 1 <= Len(y \o w)
    BY <2>1, <2>3, <2>4, <2>6
  <2>8. F(n + 1)
    BY <2>2, <2>5, <2>7 DEF F
  <2> QED BY <2>1, <2>8 DEF T
<1>3. T = 0..N
  <2>1. T \subseteq 0..N /\ N \in Nat
    OBVIOUS
  <2> HIDE DEF T, N
  <2> QED BY <1>1, <1>2, <2>1, BisNull
<1>4. F(N)
  <2>1. N \in 0..N
    OBVIOUS
  <2> HIDE DEF T, F, N
  <2>2. N \in T
    BY <1>3, <2>1
  <2> QED BY <2>2 DEF T
<1> QED BY <1>0, <1>4, AnfangGanz

-----------------------------------------------------------------------------
(* Columns of lines, and the sum of one number.                            *)

Spalte(zeilen, feld) == [r \in DOMAIN zeilen |-> zeilen[r][feld]]

HatSpalte(S, feld, W) == \A x \in S : x[feld] \in W

LEMMA SpalteTyp ==
  ASSUME NEW S, NEW s \in Seq(S), NEW W, NEW feld, HatSpalte(S, feld, W)
  PROVE  /\ Spalte(s, feld) \in Seq(W) /\ Len(Spalte(s, feld)) = Len(s)
         /\ \A i \in 1..Len(s) : Spalte(s, feld)[i] = s[i][feld]
<1>1. DOMAIN s = 1..Len(s) /\ Len(s) \in Nat /\ \A i \in 1..Len(s) : s[i] \in S
  OBVIOUS
<1>2. Spalte(s, feld) \in [1..Len(s) -> W]
  BY <1>1 DEF Spalte, HatSpalte
<1>3. Spalte(s, feld) \in Seq(W) /\ Len(Spalte(s, feld)) = Len(s)
  BY <1>1, <1>2
<1> QED BY <1>1, <1>3 DEF Spalte

LEMMA SpalteVerkettet ==
  ASSUME NEW S, NEW s \in Seq(S), NEW t \in Seq(S), NEW W, NEW feld, HatSpalte(S, feld, W)
  PROVE  Spalte(s \o t, feld) = Spalte(s, feld) \o Spalte(t, feld)
<1> DEFINE a == Spalte(s, feld)  b == Spalte(t, feld)  c == Spalte(s \o t, feld)
<1>1. /\ s \o t \in Seq(S) /\ Len(s \o t) = Len(s) + Len(t)
      /\ \A i \in 1..(Len(s) + Len(t)) : (s \o t)[i] = IF i <= Len(s) THEN s[i] ELSE t[i - Len(s)]
  BY ConcatProperties
<1>2. /\ a \in Seq(W) /\ Len(a) = Len(s) /\ \A i \in 1..Len(s) : a[i] = s[i][feld]
      /\ b \in Seq(W) /\ Len(b) = Len(t) /\ \A i \in 1..Len(t) : b[i] = t[i][feld]
  BY SpalteTyp
<1>3. /\ c \in Seq(W) /\ Len(c) = Len(s) + Len(t)
      /\ \A i \in 1..(Len(s) + Len(t)) : c[i] = (s \o t)[i][feld]
  <2> DEFINE v == s \o t
  <2>1. v \in Seq(S)
    BY <1>1
  <2> HIDE DEF v
  <2>2. /\ Spalte(v, feld) \in Seq(W) /\ Len(Spalte(v, feld)) = Len(v)
        /\ \A i \in 1..Len(v) : Spalte(v, feld)[i] = v[i][feld]
    BY <2>1, SpalteTyp
  <2>3. Len(v) = Len(s) + Len(t) /\ Spalte(v, feld) = c
    BY <1>1 DEF v
  <2> QED BY <2>2, <2>3, Zenon DEF v
<1> HIDE DEF a, b, c
<1>4. /\ a \o b \in Seq(W) /\ Len(a \o b) = Len(a) + Len(b)
      /\ \A i \in 1..(Len(a) + Len(b)) : (a \o b)[i] = IF i <= Len(a) THEN a[i] ELSE b[i - Len(a)]
  <2>1. a \in Seq(W) /\ b \in Seq(W)
    BY <1>2
  <2> QED BY <2>1, ConcatProperties
<1>5. ASSUME NEW i \in 1..(Len(s) + Len(t)) PROVE (a \o b)[i] = c[i]
  <2>1. (i <= Len(s) /\ i \in 1..Len(s)) \/ (~(i <= Len(s)) /\ i - Len(s) \in 1..Len(t))
    OBVIOUS
  <2>2. (a \o b)[i] = IF i <= Len(s) THEN a[i] ELSE b[i - Len(s)]
    BY <1>2, <1>4
  <2>3. c[i] = (IF i <= Len(s) THEN s[i] ELSE t[i - Len(s)])[feld]
    BY <1>1, <1>3
  <2> QED BY <1>2, <2>1, <2>2, <2>3
<1>6. a \o b = c
  BY <1>2, <1>3, <1>4, <1>5, SeqEqual
<1> QED BY <1>6 DEF a, b, c

LEMMA SummeEins ==
  ASSUME NEW x \in Nat
  PROVE  Summe(<<x>>) = x
<1> DEFINE s == <<x>>
<1>1. DOMAIN s = {1} /\ s[1] = x
  OBVIOUS
<1> HIDE DEF s
<1>2. SUBSET {1} = {{}, {1}} /\ {1} # {}
  OBVIOUS
<1>3. Max({1}) = 1
  BY DEF Max
<1> DEFINE f == CHOOSE f : f = [t \in SUBSET {1} |-> IF t = {} THEN 0 ELSE f[t \ {Max(t)}] + s[Max(t)]]
<1>4. Summe(s) = f[{1}]
  BY <1>1 DEF Summe, FoldLeft, MapThenFoldSet
<1> DEFINE g == [t \in SUBSET {1} |-> IF t = {} THEN 0 ELSE 0 + s[Max(t)]]
<1>5. g = [t \in SUBSET {1} |-> IF t = {} THEN 0 ELSE g[t \ {Max(t)}] + s[Max(t)]]
  <2>1. g[{}] = 0 /\ {1} \ {1} = {}
    BY <1>2
  <2>2. ASSUME NEW t \in SUBSET {1}, t # {} PROVE g[t \ {Max(t)}] = 0
    <3>1. t = {1}
      BY <1>2, <2>2
    <3> HIDE DEF g
    <3> QED BY <1>3, <2>1, <3>1
  <2> QED BY <2>2
<1>6. f = [t \in SUBSET {1} |-> IF t = {} THEN 0 ELSE f[t \ {Max(t)}] + s[Max(t)]]
  BY <1>5, Zenon
<1> HIDE DEF f, g
<1>7. {} \in SUBSET {1} /\ {1} \in SUBSET {1} /\ {1} \ {1} = {}
  OBVIOUS
<1>8. f[{}] = 0
  BY <1>6, <1>7
<1>9. f[{1}] = f[{}] + s[1]
  BY <1>2, <1>3, <1>6, <1>7
<1> QED BY <1>1, <1>4, <1>8, <1>9 DEF s

LEMMA ZeileSpalten ==
  /\ HatSpalte(Zeile, "preis", Nat) /\ HatSpalte(Zeile, "menge", Nat)
  /\ HatSpalte(Zeile, "extrasPreise", Seq(Nat) \ {<<>>})
  BY DEF Zeile, HatSpalte

-----------------------------------------------------------------------------
(* The types.                                                              *)

TypInv ==
  /\ bestellteItemsDictionary \in Seq(Seq(Zeile))
  /\ ausstehend \subseteq DOMAIN bestellteItemsDictionary
  /\ ItemsPreis \in Seq(Nat) /\ ItemsMenge \in Seq(Nat) /\ ExtraPreis \in Seq(Nat)
  /\ Len(ItemsPreis) = Len(ItemsMenge) /\ Len(ItemsPreis) <= Len(ExtraPreis)

LEMMA TypFolgt == TypInv => TypeOK
  BY DEF TypInv, TypeOK

\* What the table of a section adds to the lists.
LEMMA SektionListen ==
  ASSUME NEW zeilen \in Seq(Zeile)
  PROVE  /\ Spalte(zeilen, "preis") \in Seq(Nat) /\ Spalte(zeilen, "menge") \in Seq(Nat)
         /\ Spalte(zeilen, "extrasPreise") \in Seq(Seq(Nat))
         /\ FlattenSeq(Spalte(zeilen, "extrasPreise")) \in Seq(Nat)
         /\ Len(Spalte(zeilen, "preis")) = Len(zeilen)
         /\ Len(Spalte(zeilen, "menge")) = Len(zeilen)
         /\ Len(zeilen) <= Len(FlattenSeq(Spalte(zeilen, "extrasPreise")))
<1>1. /\ Spalte(zeilen, "preis") \in Seq(Nat) /\ Len(Spalte(zeilen, "preis")) = Len(zeilen)
      /\ Spalte(zeilen, "menge") \in Seq(Nat) /\ Len(Spalte(zeilen, "menge")) = Len(zeilen)
  BY ZeileSpalten, SpalteTyp
<1> DEFINE e == Spalte(zeilen, "extrasPreise")
<1>2. e \in Seq(Seq(Nat) \ {<<>>}) /\ Len(e) = Len(zeilen)
  <2> DEFINE W == Seq(Nat) \ {<<>>}
  <2>1. HatSpalte(Zeile, "extrasPreise", W)
    BY ZeileSpalten
  <2> HIDE DEF W
  <2>2. e \in Seq(W) /\ Len(e) = Len(zeilen)
    BY <2>1, SpalteTyp
  <2> QED BY <2>2 DEF W
<1>3. e \in Seq(Seq(Nat))
  BY <1>2
<1> HIDE DEF e
<1>4. FlattenSeq(e) \in Seq(Nat) /\ Len(e) <= Len(FlattenSeq(e))
  BY <1>2, <1>3, FlattenTyp, FlattenLang
<1> QED BY <1>1, <1>2, <1>3, <1>4 DEF e

LEMMA LaengerZusammen ==
  ASSUME NEW p \in Seq(Nat), NEW m \in Seq(Nat), NEW x \in Seq(Nat),
         NEW q \in Seq(Nat), NEW n \in Seq(Nat), NEW y \in Seq(Nat),
         Len(p) = Len(m), Len(p) <= Len(x), Len(q) = Len(n), Len(q) <= Len(y)
  PROVE  /\ p \o q \in Seq(Nat) /\ m \o n \in Seq(Nat) /\ x \o y \in Seq(Nat)
         /\ Len(p \o q) = Len(m \o n) /\ Len(p \o q) <= Len(x \o y)
<1>1. /\ p \o q \in Seq(Nat) /\ Len(p \o q) = Len(p) + Len(q)
      /\ m \o n \in Seq(Nat) /\ Len(m \o n) = Len(m) + Len(n)
      /\ x \o y \in Seq(Nat) /\ Len(x \o y) = Len(x) + Len(y)
  BY ConcatProperties
<1> QED BY <1>1

LEMMA InitTyp == Init => TypInv
<1>1. ASSUME NEW b \in Bestellungen PROVE b \in Seq(Seq(Zeile))
  BY GesamtpreisAssumption DEF GesamtpreisAssumption
<1> QED BY <1>1 DEF Init, TypInv

LEMMA RemoveTyp ==
  ASSUME NEW S, NEW s \in Seq(S), NEW k \in DOMAIN s
  PROVE  RemoveAt(s, k) \in Seq(S) /\ Len(RemoveAt(s, k)) = Len(s) - 1
  BY RemoveAtFolge

LEMMA MengeLesen ==
  ASSUME NEW z \in Zeile
  PROVE  z.menge \in Nat \ {0}
  BY DEF Zeile

LEMMA MengeGeaendert ==
  ASSUME NEW z \in Zeile, NEW n \in Nat \ {0}
  PROVE  [z EXCEPT !.menge = n] \in Zeile
  BY DEF Zeile

LEMMA NextTyp == TypInv /\ [Next]_vars => TypInv'
<1> SUFFICES ASSUME TypInv, [Next]_vars PROVE TypInv'
  OBVIOUS
<1> USE DEF TypInv
<1>1. CASE cellForRowAt
  <2> DEFINE c == CHOOSE s \in ausstehend : \A t \in ausstehend : s <= t
             zeilen == bestellteItemsDictionary[c]
  <2>1. PICK s \in DOMAIN bestellteItemsDictionary :
             /\ gesamtpreisBerechnen(bestellteItemsDictionary[s])
             /\ ausstehend' = ausstehend \ {s}
    <3>1. \E s \in ausstehend : \A t \in ausstehend : s <= t
      <4>1. ausstehend \subseteq Nat /\ ausstehend # {}
        <5>1. DOMAIN bestellteItemsDictionary \subseteq Nat
          OBVIOUS
        <5>2. ausstehend # {} /\ ausstehend \subseteq DOMAIN bestellteItemsDictionary
          BY <1>1 DEF cellForRowAt
        <5> QED BY <5>1, <5>2
      <4> QED BY <4>1, KleinsteZahl
    <3>2. c \in ausstehend
      BY <3>1
    <3>3. gesamtpreisBerechnen(bestellteItemsDictionary[c]) /\ ausstehend' = ausstehend \ {c}
      BY <1>1 DEF cellForRowAt
    <3> HIDE DEF c
    <3> QED BY <3>2, <3>3
  <2> DEFINE w == bestellteItemsDictionary[s]
  <2>2. w \in Seq(Zeile)
    OBVIOUS
  <2>3. /\ ItemsPreis' = ItemsPreis \o Spalte(w, "preis")
        /\ ItemsMenge' = ItemsMenge \o Spalte(w, "menge")
        /\ ExtraPreis' = ExtraPreis \o FlattenSeq(Spalte(w, "extrasPreise"))
    BY <2>1 DEF gesamtpreisBerechnen, Spalte
  <2> HIDE DEF w
  <2>4. /\ ItemsPreis' \in Seq(Nat) /\ ItemsMenge' \in Seq(Nat) /\ ExtraPreis' \in Seq(Nat)
        /\ Len(ItemsPreis') = Len(ItemsMenge') /\ Len(ItemsPreis') <= Len(ExtraPreis')
    <3> DEFINE q == Spalte(w, "preis")  n == Spalte(w, "menge")
               y == FlattenSeq(Spalte(w, "extrasPreise"))
    <3>1. /\ q \in Seq(Nat) /\ n \in Seq(Nat) /\ y \in Seq(Nat)
          /\ Len(q) = Len(w) /\ Len(n) = Len(w) /\ Len(w) <= Len(y)
      BY <2>2, SektionListen
    <3>2. ItemsPreis' = ItemsPreis \o q /\ ItemsMenge' = ItemsMenge \o n /\ ExtraPreis' = ExtraPreis \o y
      BY <2>3
    <3>3. /\ ItemsPreis \in Seq(Nat) /\ ItemsMenge \in Seq(Nat) /\ ExtraPreis \in Seq(Nat)
          /\ Len(ItemsPreis) = Len(ItemsMenge) /\ Len(ItemsPreis) <= Len(ExtraPreis)
      OBVIOUS
    <3> HIDE DEF q, n, y, TypInv
    <3>4. Len(q) = Len(n) /\ Len(q) <= Len(y)
      BY <3>1
    <3>5. /\ ItemsPreis \o q \in Seq(Nat) /\ ItemsMenge \o n \in Seq(Nat)
          /\ ExtraPreis \o y \in Seq(Nat)
          /\ Len(ItemsPreis \o q) = Len(ItemsMenge \o n)
          /\ Len(ItemsPreis \o q) <= Len(ExtraPreis \o y)
      BY <3>1, <3>3, <3>4, LaengerZusammen
    <3> QED BY <3>2, <3>5
  <2>5. UNCHANGED bestellteItemsDictionary /\ ausstehend' \subseteq ausstehend
    BY <1>1, <2>1 DEF cellForRowAt
  <2> QED BY <2>4, <2>5
<1>2. CASE Scrollen
  BY <1>2 DEF Scrollen, listen
<1>3. ASSUME NEW s \in DOMAIN bestellteItemsDictionary,
             NEW r \in DOMAIN bestellteItemsDictionary[s],
             passItemPlus(s, r) \/ passItemMinus(s, r) \/ passItemEntfernen(s, r)
      PROVE  TypInv'
  <2>0. s \in 1..Len(bestellteItemsDictionary) /\ bestellteItemsDictionary[s] \in Seq(Zeile)
    OBVIOUS
  <2>1. UNCHANGED <<ItemsPreis, ItemsMenge, ExtraPreis>> /\ ausstehend' = DOMAIN bestellteItemsDictionary'
    BY <1>3 DEF passItemPlus, passItemMinus, passItemEntfernen, reloadData, listen
  <2>2. bestellteItemsDictionary' \in Seq(Seq(Zeile))
    <3>1. bestellteItemsDictionary[s][r] \in Zeile
      BY <2>0
    <3>2. ASSUME NEW z \in Zeile PROVE [bestellteItemsDictionary EXCEPT ![s][r] = z] \in Seq(Seq(Zeile))
      <4>1. [bestellteItemsDictionary[s] EXCEPT ![r] = z] \in Seq(Zeile)
        BY <2>0
      <4> QED BY <2>0, <4>1
    <3>3. CASE passItemPlus(s, r)
      <4>1. [bestellteItemsDictionary[s][r] EXCEPT !.menge = @ + 1] \in Zeile
        <5>1. bestellteItemsDictionary[s][r].menge + 1 \in Nat \ {0}
          BY <3>1, MengeLesen
        <5> QED BY <3>1, <5>1, MengeGeaendert
      <4>2. bestellteItemsDictionary'
              = [bestellteItemsDictionary EXCEPT
                   ![s][r] = [bestellteItemsDictionary[s][r] EXCEPT !.menge = @ + 1]]
        BY <3>3 DEF passItemPlus
      <4> QED BY <3>2, <4>1, <4>2
    <3>4. CASE passItemMinus(s, r)
      <4>1. [bestellteItemsDictionary[s][r] EXCEPT !.menge = @ - 1] \in Zeile
        <5>1. bestellteItemsDictionary[s][r].menge - 1 \in Nat \ {0}
          BY <3>1, <3>4, MengeLesen DEF passItemMinus
        <5> QED BY <3>1, <5>1, MengeGeaendert
      <4>2. bestellteItemsDictionary'
              = [bestellteItemsDictionary EXCEPT
                   ![s][r] = [bestellteItemsDictionary[s][r] EXCEPT !.menge = @ - 1]]
        BY <3>4 DEF passItemMinus
      <4> QED BY <3>2, <4>1, <4>2
    <3>5. CASE passItemEntfernen(s, r)
      <4>1. RemoveAt(bestellteItemsDictionary, s) \in Seq(Seq(Zeile))
        BY RemoveTyp
      <4>2. RemoveAt(bestellteItemsDictionary[s], r) \in Seq(Zeile)
        BY <2>0, RemoveTyp
      <4>3. [bestellteItemsDictionary EXCEPT ![s] = RemoveAt(@, r)] \in Seq(Seq(Zeile))
        BY <2>0, <4>2
      <4> QED BY <3>5, <4>1, <4>3 DEF passItemEntfernen
    <3> QED BY <1>3, <3>3, <3>4, <3>5
  <2> QED BY <2>1, <2>2
<1>4. CASE UNCHANGED vars
  BY <1>4 DEF vars, listen
<1> QED BY <1>1, <1>2, <1>3, <1>4 DEF Next

\* However long the guest scrolls and taps, teilPreis finds a quantity and a price of
\* extras at each index of the prices: no subscript is out of range.
THEOREM TypKorrekt == Spec => []TypeOK
<1>1. Spec => []TypInv
  BY InitTyp, NextTyp, PTL DEF Spec
<1> QED BY <1>1, TypFolgt, PTL

-----------------------------------------------------------------------------
(* The first total.                                                        *)

\* The lists hold the lines z.
Gelistet(z) ==
  /\ ItemsPreis = Spalte(z, "preis") /\ ItemsMenge = Spalte(z, "menge")
  /\ ExtraPreis = FlattenSeq(Spalte(z, "extrasPreise"))

Berechnet == gesamtpreislabel = teilPreis(ItemsPreis, ExtraPreis, ItemsMenge)

\* The cells of the first m sections are built, each once.
Aufgebaut(m) ==
  /\ gebaut = [s \in 1..m |-> s]
  /\ ausstehend = (m + 1)..Len(bestellteItemsDictionary)
  /\ Gelistet(FlattenSeq(Bis(bestellteItemsDictionary, m)))
  /\ m = 0 \/ Berechnet

\* Until a cell is built again or the order is changed; from then on more cells were
\* built or are about to be than the order has sections.
AufbauInv ==
  \/ bestellteItemsDictionary # <<>> /\ \E m \in 0..Len(bestellteItemsDictionary) : Aufgebaut(m)
  \/ /\ gebaut \in Seq(Nat)
     /\ \/ Len(bestellteItemsDictionary) < Len(gebaut)
        \/ Len(bestellteItemsDictionary) = Len(gebaut) /\ ausstehend # {}

\* With one extra for each line teilPreis pairs the right prices.
LEMMA TeilPreisStimmt ==
  ASSUME NEW z \in Seq(Zeile), Gelistet(z), \A i \in DOMAIN z : Len(z[i].extrasPreise) = 1
  PROVE  teilPreis(ItemsPreis, ExtraPreis, ItemsMenge) = Summe([i \in DOMAIN z |-> Preis(z[i])])
<1> DEFINE e == Spalte(z, "extrasPreise")
<1>1. /\ DOMAIN z = 1..Len(z) /\ DOMAIN ItemsPreis = DOMAIN z
      /\ \A i \in DOMAIN z : ItemsPreis[i] = z[i]["preis"] /\ ItemsMenge[i] = z[i]["menge"]
  BY DEF Gelistet, Spalte
<1>2. /\ e \in Seq(Seq(Nat)) /\ Len(e) = Len(z)
      /\ \A i \in 1..Len(z) : e[i] = z[i]["extrasPreise"]
  <2>1. e \in Seq(Seq(Nat)) /\ DOMAIN e = DOMAIN z
    BY SektionListen DEF Spalte
  <2> QED BY <1>1, <2>1 DEF Spalte
<1> HIDE DEF e
<1>3. \A i \in 1..Len(e) : Len(e[i]) = 1
  BY <1>1, <1>2
<1>4. ExtraPreis = [i \in 1..Len(e) |-> e[i][1]]
  <2>1. ExtraPreis = FlattenSeq(e)
    BY DEF Gelistet, e
  <2> QED BY <1>2, <1>3, <2>1, FlattenEinzeln
<1>5. ASSUME NEW i \in DOMAIN z
      PROVE  (ItemsPreis[i] + ExtraPreis[i]) * ItemsMenge[i] = Preis(z[i])
  <2>1. e[i] \in Seq(Nat) /\ Len(e[i]) = 1 /\ e[i] = z[i].extrasPreise
    BY <1>1, <1>2, <1>3
  <2>2. e[i][1] \in Nat /\ e[i] = <<e[i][1]>>
    BY <2>1
  <2>3. Summe(z[i].extrasPreise) = e[i][1]
    BY <2>1, <2>2, SummeEins
  <2>4. ExtraPreis[i] = e[i][1]
    BY <1>1, <1>2, <1>4
  <2> QED BY <1>1, <2>3, <2>4 DEF Preis
<1>6. [i \in DOMAIN ItemsPreis |-> (ItemsPreis[i] + ExtraPreis[i]) * ItemsMenge[i]]
        = [i \in DOMAIN z |-> Preis(z[i])]
  BY <1>1, <1>5
<1> QED BY <1>6, Zenon DEF teilPreis

LEMMA AufbauFolgt == TypInv /\ AufbauInv => ErsteSumme
<1> SUFFICES ASSUME TypInv, AufbauInv, Frisch, JeEinExtra PROVE gesamtpreislabel = WahrerPreis
  BY DEF ErsteSumme
<1> DEFINE N == Len(bestellteItemsDictionary)
<1>1. bestellteItemsDictionary \in Seq(Seq(Zeile)) /\ N \in Nat
  BY DEF TypInv
<1>2. ausstehend = {} /\ gebaut = [s \in 1..N |-> s] /\ Len(gebaut) = N
  <2>1. gebaut = [s \in 1..N |-> s]
    BY <1>1 DEF Frisch
  <2> QED BY <1>1, <2>1 DEF Frisch
<1>3. PICK m \in 0..N : Aufgebaut(m) /\ bestellteItemsDictionary # <<>>
  BY <1>1, <1>2 DEF AufbauInv
<1>4. m = N /\ m # 0
  <2>1. (m + 1)..N = {} /\ m \in 0..N
    BY <1>2, <1>3 DEF Aufgebaut
  <2>2. m = N
    <3>1. m \in Nat /\ m <= N /\ ~(m + 1 \in (m + 1)..N)
      BY <1>1, <2>1
    <3> QED BY <1>1, <3>1
  <2>3. N # 0
    BY <1>1, <1>3
  <2> QED BY <2>2, <2>3
<1>5. Gelistet(Zeilen) /\ Berechnet
  <2>1. Bis(bestellteItemsDictionary, N) = bestellteItemsDictionary
    BY <1>1, AnfangGanz
  <2> QED BY <1>3, <1>4, <2>1 DEF Aufgebaut, Zeilen
<1>6. Zeilen \in Seq(Zeile)
  BY <1>1, FlattenTyp DEF Zeilen
<1>7. teilPreis(ItemsPreis, ExtraPreis, ItemsMenge) = Summe([i \in DOMAIN Zeilen |-> Preis(Zeilen[i])])
  BY <1>5, <1>6, TeilPreisStimmt DEF JeEinExtra
<1> QED BY <1>5, <1>7 DEF Berechnet, WahrerPreis

LEMMA InitAufbau == Init => AufbauInv
<1> SUFFICES ASSUME Init PROVE AufbauInv
  OBVIOUS
<1>1. bestellteItemsDictionary \in Seq(Seq(Zeile)) /\ bestellteItemsDictionary # <<>>
  BY GesamtpreisAssumption DEF GesamtpreisAssumption, Init
<1>2. FlattenSeq(Bis(bestellteItemsDictionary, 0)) = <<>>
  BY <1>1, AnfangGanz, FlattenLeer
<1>3. \A f : Spalte(<<>>, f) = <<>>
  BY DEF Spalte
<1>4. Gelistet(<<>>)
  BY <1>3, FlattenLeer DEF Gelistet, Init
<1>5. gebaut = [s \in 1..0 |-> s] /\ ausstehend = 1..Len(bestellteItemsDictionary)
  BY <1>1 DEF Init
<1>6. Aufgebaut(0) /\ 0 \in 0..Len(bestellteItemsDictionary)
  BY <1>1, <1>2, <1>4, <1>5 DEF Aufgebaut
<1> QED BY <1>1, <1>6 DEF AufbauInv

\* The lines of one more section.
LEMMA GelistetWeiter ==
  ASSUME NEW z \in Seq(Zeile), NEW w \in Seq(Zeile), Gelistet(z), gesamtpreisBerechnen(w)
  PROVE  /\ ItemsPreis' = Spalte(z \o w, "preis") /\ ItemsMenge' = Spalte(z \o w, "menge")
         /\ ExtraPreis' = FlattenSeq(Spalte(z \o w, "extrasPreise"))
<1>1. /\ ItemsPreis' = ItemsPreis \o Spalte(w, "preis")
      /\ ItemsMenge' = ItemsMenge \o Spalte(w, "menge")
      /\ ExtraPreis' = ExtraPreis \o FlattenSeq(Spalte(w, "extrasPreise"))
  BY DEF gesamtpreisBerechnen, Spalte
<1>2. /\ Spalte(z \o w, "preis") = Spalte(z, "preis") \o Spalte(w, "preis")
      /\ Spalte(z \o w, "menge") = Spalte(z, "menge") \o Spalte(w, "menge")
      /\ Spalte(z \o w, "extrasPreise") = Spalte(z, "extrasPreise") \o Spalte(w, "extrasPreise")
  <2> DEFINE W == Seq(Nat) \ {<<>>}
  <2>1. HatSpalte(Zeile, "extrasPreise", W)
    BY ZeileSpalten
  <2>2. HatSpalte(Zeile, "preis", Nat) /\ HatSpalte(Zeile, "menge", Nat)
    BY ZeileSpalten
  <2> HIDE DEF W
  <2>3. Spalte(z \o w, "preis") = Spalte(z, "preis") \o Spalte(w, "preis")
    BY <2>2, SpalteVerkettet
  <2>4. Spalte(z \o w, "menge") = Spalte(z, "menge") \o Spalte(w, "menge")
    BY <2>2, SpalteVerkettet
  <2>5. Spalte(z \o w, "extrasPreise") = Spalte(z, "extrasPreise") \o Spalte(w, "extrasPreise")
    BY <2>1, SpalteVerkettet
  <2> QED BY <2>3, <2>4, <2>5
<1>3. Spalte(z, "extrasPreise") \in Seq(Seq(Nat)) /\ Spalte(w, "extrasPreise") \in Seq(Seq(Nat))
  BY SektionListen
<1>4. FlattenSeq(Spalte(z, "extrasPreise") \o Spalte(w, "extrasPreise"))
        = FlattenSeq(Spalte(z, "extrasPreise")) \o FlattenSeq(Spalte(w, "extrasPreise"))
  BY <1>3, FlattenVerkettet
<1> QED BY <1>1, <1>2, <1>4 DEF Gelistet

LEMMA ZelleAufbau ==
  ASSUME TypInv, AufbauInv, cellForRowAt
  PROVE  AufbauInv'
<1> DEFINE N == Len(bestellteItemsDictionary)
           c == CHOOSE s \in ausstehend : \A t \in ausstehend : s <= t
<1>1. bestellteItemsDictionary \in Seq(Seq(Zeile)) /\ N \in Nat /\ UNCHANGED bestellteItemsDictionary
  BY DEF TypInv, cellForRowAt
<1>2. /\ gesamtpreisBerechnen(bestellteItemsDictionary[c])
      /\ ausstehend' = ausstehend \ {c} /\ gebaut' = Append(gebaut, c) /\ ausstehend # {}
  BY DEF cellForRowAt
<1>3. c \in ausstehend /\ (\A t \in ausstehend : c <= t) /\ c \in 1..N
  <2>1. ausstehend \subseteq 1..N
    BY <1>1 DEF TypInv
  <2>2. ausstehend \subseteq Nat /\ 1..N \subseteq Nat
    BY <2>1
  <2>3. \E s \in ausstehend : \A t \in ausstehend : s <= t
    BY <1>2, <2>2, KleinsteZahl
  <2>4. c \in ausstehend /\ \A t \in ausstehend : c <= t
    BY <2>3
  <2> HIDE DEF c
  <2> QED BY <2>1, <2>4
<1> HIDE DEF c
<1>4. CASE bestellteItemsDictionary # <<>> /\ \E m \in 0..N : Aufgebaut(m)
  <2>1. PICK m \in 0..N : Aufgebaut(m)
    BY <1>4
  <2>2. m < N /\ c = m + 1
    BY <1>1, <1>3, <2>1 DEF Aufgebaut
  <2> DEFINE b == Bis(bestellteItemsDictionary, m)  w == bestellteItemsDictionary[m + 1]
  <2>3. /\ b \in Seq(Seq(Zeile)) /\ w \in Seq(Zeile)
        /\ Bis(bestellteItemsDictionary, m + 1) = Append(b, w)
    BY <1>1, <2>2, AnfangWaechst
  <2>4. Gelistet(FlattenSeq(b))
    BY <2>1 DEF Aufgebaut
  <2>5. gesamtpreisBerechnen(w)
    BY <1>2, <2>2
  <2> HIDE DEF b, w
  <2>6. FlattenSeq(b) \in Seq(Zeile) /\ FlattenSeq(Append(b, w)) = FlattenSeq(b) \o w
    BY <2>3, FlattenTyp, FlattenAppend
  <2>7. Gelistet(FlattenSeq(Bis(bestellteItemsDictionary, m + 1)))'
    <3> DEFINE z == FlattenSeq(b)
    <3>1. z \in Seq(Zeile) /\ Gelistet(z)
      BY <2>4, <2>6
    <3> HIDE DEF z
    <3>2. /\ ItemsPreis' = Spalte(z \o w, "preis") /\ ItemsMenge' = Spalte(z \o w, "menge")
          /\ ExtraPreis' = FlattenSeq(Spalte(z \o w, "extrasPreise"))
      BY <2>3, <2>5, <3>1, GelistetWeiter
    <3>3. FlattenSeq(Bis(bestellteItemsDictionary', m + 1)) = z \o w
      BY <1>1, <2>3, <2>6 DEF z
    <3> QED BY <3>2, <3>3 DEF Gelistet
  <2>8. Berechnet'
    BY <2>5 DEF gesamtpreisBerechnen, Berechnet
  <2>9. gebaut' = [s \in 1..(m + 1) |-> s] /\ ausstehend' = ((m + 1) + 1)..N
    <3>1. gebaut = [s \in 1..m |-> s] /\ ausstehend = (m + 1)..N
      BY <2>1 DEF Aufgebaut
    <3>2. gebaut' = [s \in 1..(m + 1) |-> s]
      BY <1>2, <2>2, <3>1
    <3>3. ((m + 1)..N) \ {m + 1} = ((m + 1) + 1)..N
      BY <1>1
    <3> QED BY <1>2, <2>2, <3>1, <3>2, <3>3
  <2>10. Aufgebaut(m + 1)'
    BY <1>1, <2>7, <2>8, <2>9 DEF Aufgebaut
  <2>11. m + 1 \in 0..N /\ N' = N
    BY <1>1, <2>2
  <2> QED BY <1>1, <1>4, <2>10, <2>11 DEF AufbauInv
<1>5. CASE gebaut \in Seq(Nat) /\ N <= Len(gebaut)
  <2>1. c \in Nat
    BY <1>1, <1>3
  <2>2. gebaut' \in Seq(Nat) /\ Len(gebaut') = Len(gebaut) + 1 /\ Len(gebaut) \in Nat
    BY <1>2, <1>5, <2>1
  <2>3. N < Len(gebaut')
    BY <1>1, <1>5, <2>2
  <2> QED BY <1>1, <2>2, <2>3 DEF AufbauInv
<1> QED BY <1>1, <1>4, <1>5 DEF AufbauInv

\* When all cells are built, at least as many were as there are sections.
LEMMA AllesGebaut ==
  ASSUME TypInv, AufbauInv, ausstehend = {}
  PROVE  gebaut \in Seq(Nat) /\ Len(bestellteItemsDictionary) <= Len(gebaut)
<1>1. Len(bestellteItemsDictionary) \in Nat
  BY DEF TypInv
<1>2. ASSUME NEW m \in 0..Len(bestellteItemsDictionary), Aufgebaut(m)
      PROVE  gebaut \in Seq(Nat) /\ Len(bestellteItemsDictionary) <= Len(gebaut)
  <2>1. m = Len(bestellteItemsDictionary)
    BY <1>1, <1>2 DEF Aufgebaut
  <2>2. gebaut = [s \in 1..m |-> s]
    BY <1>2 DEF Aufgebaut
  <2>3. gebaut \in [1..m -> Nat]
    BY <2>2
  <2> QED BY <1>1, <2>1, <2>2, <2>3
<1> QED BY <1>1, <1>2 DEF AufbauInv

\* Sequences of one domain are of one length.
LEMMA GleicherBereich ==
  ASSUME NEW S, NEW s \in Seq(S), NEW t \in Seq(S), DOMAIN s = DOMAIN t
  PROVE  Len(s) = Len(t)
<1>1. Len(s) \in Nat /\ Len(t) \in Nat /\ 1..Len(s) = 1..Len(t)
  OBVIOUS
<1>2. ASSUME NEW a \in Nat, NEW b \in Nat, 1..a = 1..b PROVE a <= b
  <2>1. a = 0 \/ a \in 1..b
    BY <1>2
  <2> QED BY <2>1
<1>3. Len(s) <= Len(t) /\ Len(t) <= Len(s)
  BY <1>1, <1>2
<1> QED BY <1>1, <1>3

LEMMA NextAufbau == TypInv /\ AufbauInv /\ [Next]_vars => AufbauInv'
<1> SUFFICES ASSUME TypInv, AufbauInv, [Next]_vars PROVE AufbauInv'
  OBVIOUS
<1>0. /\ bestellteItemsDictionary \in Seq(Seq(Zeile))
      /\ Len(bestellteItemsDictionary) \in Nat
      /\ DOMAIN bestellteItemsDictionary = 1..Len(bestellteItemsDictionary)
  BY DEF TypInv
<1>1. CASE cellForRowAt
  BY <1>1, ZelleAufbau
<1>2. CASE Scrollen
  <2>1. gebaut \in Seq(Nat) /\ Len(bestellteItemsDictionary) <= Len(gebaut)
    BY <1>2, AllesGebaut DEF Scrollen
  <2>2. UNCHANGED <<gebaut, bestellteItemsDictionary>> /\ ausstehend' # {}
    BY <1>2 DEF Scrollen
  <2> QED BY <1>0, <2>1, <2>2 DEF AufbauInv
<1>3. ASSUME NEW s \in DOMAIN bestellteItemsDictionary,
             NEW r \in DOMAIN bestellteItemsDictionary[s],
             passItemPlus(s, r) \/ passItemMinus(s, r) \/ passItemEntfernen(s, r)
      PROVE  AufbauInv'
  <2>1. UNCHANGED gebaut /\ ausstehend' = DOMAIN bestellteItemsDictionary' /\ ausstehend = {}
    BY <1>3 DEF passItemPlus, passItemMinus, passItemEntfernen, reloadData, Tipp
  <2>2. gebaut \in Seq(Nat) /\ Len(bestellteItemsDictionary) <= Len(gebaut)
    BY <2>1, AllesGebaut
  <2>3. CASE DOMAIN bestellteItemsDictionary' = DOMAIN bestellteItemsDictionary
    <3>1. Len(bestellteItemsDictionary') = Len(bestellteItemsDictionary) /\ ausstehend' # {}
      <4>1. bestellteItemsDictionary' \in Seq(Seq(Zeile))
        BY NextTyp DEF TypInv
      <4>2. Len(bestellteItemsDictionary') = Len(bestellteItemsDictionary)
        BY <1>0, <2>3, <4>1, GleicherBereich
      <4>3. s \in ausstehend'
        BY <1>3, <2>1, <2>3
      <4> QED BY <4>2, <4>3
    <3> QED BY <1>0, <2>1, <2>2, <3>1 DEF AufbauInv
  <2>4. CASE bestellteItemsDictionary' = RemoveAt(bestellteItemsDictionary, s)
    <3>1. Len(bestellteItemsDictionary') = Len(bestellteItemsDictionary) - 1
      BY <1>0, <2>4, RemoveTyp
    <3>2. Len(gebaut) \in Nat /\ gebaut' = gebaut
      BY <2>1, <2>2
    <3>3. Len(bestellteItemsDictionary') < Len(gebaut)
      BY <1>0, <2>2, <3>1, <3>2
    <3>4. gebaut' \in Seq(Nat) /\ Len(bestellteItemsDictionary') < Len(gebaut')
      BY <2>2, <3>2, <3>3
    <3> QED BY <3>4 DEF AufbauInv
  <2>5. \/ DOMAIN bestellteItemsDictionary' = DOMAIN bestellteItemsDictionary
        \/ bestellteItemsDictionary' = RemoveAt(bestellteItemsDictionary, s)
    BY <1>3 DEF passItemPlus, passItemMinus, passItemEntfernen
  <2> QED BY <2>3, <2>4, <2>5
<1>4. CASE UNCHANGED vars
  <2>1. UNCHANGED <<bestellteItemsDictionary, gebaut, ausstehend, ItemsPreis, ItemsMenge,
                    ExtraPreis, gesamtpreislabel>>
    BY <1>4 DEF vars, listen
  <2> QED BY <2>1 DEF AufbauInv, Aufgebaut, Gelistet, Berechnet
<1> QED BY <1>1, <1>2, <1>3, <1>4 DEF Next

\* The total that the guest reads when the overview opens is that of the order, for
\* every order whose lines have one extra each (or "keine Extras").
THEOREM ErsteSummeStimmt == Spec => []ErsteSumme
<1>1. TypInv /\ AufbauInv /\ [Next]_vars => TypInv' /\ AufbauInv'
  BY NextTyp, NextAufbau
<1>2. Spec => [](TypInv /\ AufbauInv)
  BY <1>1, InitTyp, InitAufbau, PTL DEF Spec
<1> QED BY <1>2, AufbauFolgt, PTL
=============================================================================
