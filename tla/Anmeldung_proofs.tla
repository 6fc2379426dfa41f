---------------------------- MODULE Anmeldung_proofs ----------------------------
(***************************************************************************)
(* Safety of Anmeldung, for every set of accounts and all bounds: what the *)
(* queued calls refer to stays there, and who has not confirmed the        *)
(* address, or whose entry in Users was never handed to the database, does *)
(* not stay in the tab bar.                                                *)
(*                                                                         *)
(* The invariant behind it: a user who must not be in the tab bar is       *)
(* either signed out by a completion that is already in the main queue, or *)
(* (the app was restarted in between, which forgets the completion but not *)
(* the user) nothing that is under way opens the tab bar.                  *)
(***************************************************************************)
EXTENDS Anmeldung, SequenceTheorems, FiniteSetTheorems, TLAPS

-----------------------------------------------------------------------------
(* The inductive invariant.                                                *)

LoginSeiten == {i \in DOMAIN seiten : seiten[i] = "login"}
RegistrierSeiten == {i \in DOMAIN seiten : seiten[i] = "registrieren"}

\* Tasks of login pages, and all of them.
LoginArten == {"listener", "entdrehen", "unbestaetigt", "oeffnen", "facebook"}
Arten == LoginArten \cup {"alle", "fehler", "login", "facebookLogin", "registriert"}

Aufgaben ==
  {a \in [art : Arten, seite : Nat, neu : BOOLEAN] :
     /\ a.art \in LoginArten => a.seite \in LoginSeiten
     /\ a.art = "registriert" => a.seite \in RegistrierSeiten}

Lesungen == [seite : LoginSeiten, konto : konten \cup {Niemand}, schritt : {"kellner", "provider"}]

Anfragen ==
  [art : {"login"}, konto : konten \ FacebookKonten, seite : Nat]
  \cup [art : {"facebookLogin"}, konto : FacebookKonten, seite : Nat]
  \cup [art : {"registrieren"}, konto : Konten \ FacebookKonten, seite : RegistrierSeiten]

\* Accounts whose entry has been handed to the database.
Eingeschrieben == profile \cup eintraege \cup verloren

KontenInv ==
  /\ konten \subseteq Konten /\ Eingeschrieben \subseteq konten
  /\ FacebookKonten \cup bestaetigt \cup post \subseteq Eingeschrieben
  /\ currentUser \in [konto : konten \cup {Niemand}, bestaetigt : BOOLEAN]
  /\ currentUser.bestaetigt => currentUser.konto \in bestaetigt

SeitenInv ==
  /\ seiten \in Seq({"login", "registrieren", "leiste"})
  /\ zuletzt \in Seq(Konten \cup {Niemand, "nichts"}) /\ Len(zuletzt) = Len(seiten)
  /\ app = "laeuft" <=> seiten # <<>>
  /\ seiten # <<>> => seiten[1] = "login"
  /\ \A i \in DOMAIN seiten : seiten[i] = "leiste" => i = Len(seiten)
  /\ dreht \subseteq LoginSeiten
  /\ hinweis = "zumLogin" => Len(seiten) \in RegistrierSeiten

FolgenInv ==
  /\ schlange \in Seq(Aufgaben) /\ ketten \in Seq(Lesungen) /\ anfragen \in Seq(Anfragen)
  /\ app # "laeuft" => schlange = <<>> /\ ketten = <<>> /\ anfragen = <<>>

\* A user who must not be in the tab bar.
Fremd ==
  /\ currentUser # KeinUser /\ ~currentUser.bestaetigt
  /\ currentUser.konto \notin FacebookKonten

\* A completion that will end the session is in the queue s.
AbmeldungIn(s) == \E n \in DOMAIN s : s[n].art \in {"login", "registriert"}

OeffnetNichts(s) == \A n \in DOMAIN s : s[n].art \notin {"oeffnen", "facebook"}
OhneFacebook(s) == \A n \in DOMAIN s : s[n].konto \notin FacebookKonten
OhneLeiste(s) == \A i \in DOMAIN s : s[i] # "leiste"

KommtNichtHinein == OhneLeiste(seiten) /\ OeffnetNichts(schlange) /\ OhneFacebook(ketten)

SitzungInv == Fremd => AbmeldungIn(schlange) \/ KommtNichtHinein

IInv == KontenInv /\ SeitenInv /\ FolgenInv /\ SitzungInv

-----------------------------------------------------------------------------
(* Sequences.                                                              *)

LEMMA TailFolge ==
  ASSUME NEW S, NEW s \in Seq(S), s # <<>>
  PROVE  /\ Tail(s) \in Seq(S) /\ Head(s) \in S /\ Head(s) = s[1]
         /\ Len(Tail(s)) = Len(s) - 1
         /\ \A n \in 1..Len(Tail(s)) : Tail(s)[n] = s[n + 1]
  OBVIOUS

LEMMA AppendFolge ==
  ASSUME NEW S, NEW s \in Seq(S), NEW x \in S
  PROVE  /\ Append(s, x) \in Seq(S)
         /\ Len(Append(s, x)) = Len(s) + 1
         /\ \A i \in 1..Len(s) : Append(s, x)[i] = s[i]
         /\ Append(s, x)[Len(s) + 1] = x
  OBVIOUS

LEMMA FrontFolge ==
  ASSUME NEW S, NEW s \in Seq(S), s # <<>>
  PROVE  /\ Front(s) \in Seq(S) /\ Len(Front(s)) = Len(s) - 1
         /\ \A n \in 1..(Len(s) - 1) : Front(s)[n] = s[n]
<1>1. Len(s) \in Nat /\ Len(s) # 0 OBVIOUS
<1>2. 1..(Len(s) - 1) \subseteq 1..Len(s) BY <1>1
<1>3. \A n \in 1..Len(s) : s[n] \in S OBVIOUS
<1>4. SubSeq(s, 1, Len(s) - 1) = [n \in 1..(Len(s) - 1) |-> s[n]]
  BY <1>1, SubSeqProperties
<1>5. Front(s) = [n \in 1..(Len(s) - 1) |-> s[n]]
  BY <1>4 DEF Front
<1> QED BY <1>1, <1>2, <1>3, <1>5

LEMMA ConcatFolge ==
  ASSUME NEW S, NEW s \in Seq(S), NEW t \in Seq(S)
  PROVE  /\ s \o t \in Seq(S) /\ Len(s \o t) = Len(s) + Len(t)
         /\ \A i \in 1..(Len(s) + Len(t)) :
              (s \o t)[i] = IF i <= Len(s) THEN s[i] ELSE t[i - Len(s)]
  BY ConcatProperties

LEMMA RemoveAtFolge ==
  ASSUME NEW S, NEW s \in Seq(S), NEW k \in DOMAIN s
  PROVE  /\ RemoveAt(s, k) \in Seq(S)
         /\ \A i \in DOMAIN RemoveAt(s, k) :
              \E j \in DOMAIN s : RemoveAt(s, k)[i] = s[j]
<1> DEFINE v == SubSeq(s, 1, k - 1)
           h == SubSeq(s, k + 1, Len(s))
<1>0. k \in 1..Len(s) OBVIOUS
<1>1. v \in Seq(S) /\ Len(v) = k - 1 /\ \A i \in 1..(k - 1) : v[i] = s[i]
  BY <1>0
<1>2. /\ h \in Seq(S) /\ Len(h) = Len(s) - k
      /\ \A i \in 1..(Len(s) - k) : h[i] = s[k + i]
  BY <1>0
<1>3. RemoveAt(s, k) = v \o h
  BY DEF RemoveAt
<1> HIDE DEF v, h
<1>4. /\ v \o h \in Seq(S) /\ Len(v \o h) = Len(v) + Len(h)
      /\ \A i \in 1..(Len(v) + Len(h)) :
           (v \o h)[i] = IF i <= Len(v) THEN v[i] ELSE h[i - Len(v)]
  BY <1>1, <1>2, ConcatFolge
<1>5. ASSUME NEW i \in DOMAIN (v \o h)
      PROVE  \E j \in DOMAIN s : (v \o h)[i] = s[j]
  <2>1. i \in 1..(Len(v) + Len(h)) /\ i \in Nat BY <1>1, <1>2, <1>4
  <2>2. CASE i <= Len(v)
    <3>1. (v \o h)[i] = s[i] /\ i \in DOMAIN s
      BY <1>0, <1>1, <1>2, <1>4, <2>1, <2>2, SMTT(20)
    <3> QED BY <3>1
  <2>3. CASE ~(i <= Len(v))
    <3>1. i - (k - 1) \in 1..(Len(s) - k)
      BY <1>0, <1>1, <1>2, <2>1, <2>3, SMTT(20)
    <3>2. (v \o h)[i] = s[k + (i - (k - 1))]
      BY <1>0, <1>1, <1>2, <1>4, <2>1, <2>3, <3>1
    <3>3. k + (i - (k - 1)) \in DOMAIN s BY <1>0, <3>1
    <3> QED BY <3>2, <3>3
  <2> QED BY <2>2, <2>3
<1> QED BY <1>3, <1>4, <1>5

\* A finite set, enumerated.
LEMMA SetToSeqFolge ==
  ASSUME NEW S, IsFiniteSet(S)
  PROVE  SetToSeq(S) \in Seq(S)
<1>1. Cardinality(S) \in Nat /\ ExistsBijection(1..Cardinality(S), S)
  BY FS_CardinalityType
<1>2. \E f \in [1..Cardinality(S) -> S] : IsInjective(f)
  BY <1>1 DEF ExistsBijection, Bijection, Injection, IsInjective
<1>3. SetToSeq(S) \in [1..Cardinality(S) -> S]
  BY <1>2 DEF SetToSeq
<1> QED BY <1>1, <1>3

LEMMA AbmeldungBleibt ==
  ASSUME NEW S, NEW s \in Seq(S), NEW x \in S, AbmeldungIn(s)
  PROVE  AbmeldungIn(Append(s, x))
<1>1. PICK n \in DOMAIN s : s[n].art \in {"login", "registriert"}
  BY DEF AbmeldungIn
<1>2. n \in DOMAIN Append(s, x) /\ Append(s, x)[n] = s[n]
  BY AppendFolge
<1> QED BY <1>1, <1>2 DEF AbmeldungIn

LEMMA AbmeldungRueckt ==
  ASSUME NEW S, NEW s \in Seq(S), s # <<>>, AbmeldungIn(s),
         Head(s).art \notin {"login", "registriert"}
  PROVE  AbmeldungIn(Tail(s))
<1>1. PICK n \in DOMAIN s : s[n].art \in {"login", "registriert"}
  BY DEF AbmeldungIn
<1>2. n # 1
  BY <1>1, TailFolge
<1>3. n - 1 \in DOMAIN Tail(s) /\ Tail(s)[n - 1] = s[n]
  BY <1>2, TailFolge
<1> QED BY <1>1, <1>3 DEF AbmeldungIn

LEMMA AbmeldungFolgt ==
  ASSUME NEW S, NEW s \in Seq(S), NEW a \in S, NEW x \in S,
         x.art \in {"login", "registriert"}
  PROVE  AbmeldungIn(s \o <<a, x>>)
<1>1. <<a, x>> \in Seq(S) /\ Len(<<a, x>>) = 2 /\ <<a, x>>[2] = x
  OBVIOUS
<1> DEFINE t == <<a, x>>
<1> HIDE DEF t
<1>2. t \in Seq(S) /\ Len(t) = 2 /\ t[2] = x
  BY <1>1 DEF t
<1>3. Len(s) + 2 \in DOMAIN (s \o t) /\ (s \o t)[Len(s) + 2] = x
  <2>1. /\ s \o t \in Seq(S) /\ Len(s \o t) = Len(s) + Len(t)
        /\ \A i \in 1..(Len(s) + Len(t)) :
             (s \o t)[i] = IF i <= Len(s) THEN s[i] ELSE t[i - Len(s)]
    BY <1>2, ConcatFolge
  <2>2. Len(s) \in Nat /\ Len(s) + 2 \in 1..(Len(s) + Len(t))
    BY <1>2
  <2>3. ~(Len(s) + 2 <= Len(s)) /\ Len(s) + 2 - Len(s) = 2
    BY <2>2
  <2>4. (s \o t)[Len(s) + 2] = t[2]
    BY <2>1, <2>2, <2>3
  <2>5. DOMAIN (s \o t) = 1..(Len(s) + Len(t))
    BY <2>1
  <2> QED BY <1>2, <2>2, <2>4, <2>5
<1>4. AbmeldungIn(s \o t)
  BY <1>3 DEF AbmeldungIn
<1> QED BY <1>4 DEF t

LEMMA NichtsOeffnetAngehaengt ==
  ASSUME NEW S, NEW s \in Seq(S), NEW x \in S, OeffnetNichts(s),
         x.art \notin {"oeffnen", "facebook"}
  PROVE  OeffnetNichts(Append(s, x))
<1>1. ASSUME NEW n \in DOMAIN Append(s, x)
      PROVE  Append(s, x)[n].art \notin {"oeffnen", "facebook"}
  <2>1. n \in 1..(Len(s) + 1) BY AppendFolge
  <2>2. CASE n = Len(s) + 1
    <3>1. Append(s, x)[n] = x BY <2>2, AppendFolge
    <3> QED BY <3>1
  <2>3. CASE n # Len(s) + 1
    <3>1. n \in DOMAIN s /\ Append(s, x)[n] = s[n] BY <2>1, <2>3, AppendFolge
    <3> QED BY <3>1 DEF OeffnetNichts
  <2> QED BY <2>2, <2>3
<1> QED BY <1>1 DEF OeffnetNichts

LEMMA NichtsOeffnetRueckt ==
  ASSUME NEW S, NEW s \in Seq(S), s # <<>>, OeffnetNichts(s)
  PROVE  OeffnetNichts(Tail(s)) /\ Head(s).art \notin {"oeffnen", "facebook"}
<1>1. ASSUME NEW n \in DOMAIN Tail(s)
      PROVE  Tail(s)[n].art \notin {"oeffnen", "facebook"}
  <2>1. n + 1 \in DOMAIN s /\ Tail(s)[n] = s[n + 1] BY TailFolge
  <2> QED BY <2>1 DEF OeffnetNichts
<1>2. 1 \in DOMAIN s /\ Head(s) = s[1] BY TailFolge
<1> QED BY <1>1, <1>2 DEF OeffnetNichts

LEMMA OhneFacebookEntfernt ==
  ASSUME NEW S, NEW s \in Seq(S), NEW k \in DOMAIN s, OhneFacebook(s)
  PROVE  OhneFacebook(RemoveAt(s, k))
<1>1. \A i \in DOMAIN RemoveAt(s, k) : \E j \in DOMAIN s : RemoveAt(s, k)[i] = s[j]
  BY RemoveAtFolge
<1> QED BY <1>1 DEF OhneFacebook

LEMMA OhneFacebookAngehaengt ==
  ASSUME NEW S, NEW s \in Seq(S), NEW t \in Seq(S), OhneFacebook(s), OhneFacebook(t)
  PROVE  OhneFacebook(s \o t)
<1>1. ASSUME NEW i \in DOMAIN (s \o t)
      PROVE  (s \o t)[i].konto \notin FacebookKonten
  <2>1. i \in 1..(Len(s) + Len(t)) /\ i \in Nat BY ConcatFolge
  <2>2. CASE i <= Len(s)
    <3>1. i \in DOMAIN s /\ (s \o t)[i] = s[i] BY <2>1, <2>2, ConcatFolge
    <3> QED BY <3>1 DEF OhneFacebook
  <2>3. CASE ~(i <= Len(s))
    <3>1. i - Len(s) \in DOMAIN t /\ (s \o t)[i] = t[i - Len(s)] BY <2>1, <2>3, ConcatFolge
    <3> QED BY <3>1 DEF OhneFacebook
  <2> QED BY <2>2, <2>3
<1> QED BY <1>1 DEF OhneFacebook

-----------------------------------------------------------------------------
(* What the parts of the invariant need of a step.                         *)

LEMMA KontenGleich ==
  ASSUME KontenInv, UNCHANGED <<daten, currentUser>>
  PROVE  KontenInv'
  BY DEF KontenInv, Eingeschrieben, daten, server

LEMMA KontenAbgemeldet ==
  ASSUME KontenInv, UNCHANGED daten, currentUser' = KeinUser
  PROVE  KontenInv'
  BY DEF KontenInv, Eingeschrieben, daten, server, KeinUser

\* The pages stay as they are, spinners may go and an "ok" alert may come or any go.
SeitenStehen ==
  /\ UNCHANGED <<app, seiten>>
  /\ dreht' \subseteq dreht
  /\ hinweis' \in {hinweis, "keiner", "ok"}
  /\ zuletzt' \in Seq(Konten \cup {Niemand, "nichts"}) /\ Len(zuletzt') = Len(zuletzt)

LEMMA SeitenGleich ==
  ASSUME SeitenInv, SeitenStehen
  PROVE  SeitenInv' /\ LoginSeiten' = LoginSeiten /\ RegistrierSeiten' = RegistrierSeiten
  BY DEF SeitenInv, SeitenStehen, LoginSeiten, RegistrierSeiten

LEMMA SeitenUnberuehrt ==
  ASSUME SeitenInv, UNCHANGED <<app, seiten, zuletzt, dreht>>,
         hinweis' \in {hinweis, "keiner", "ok"}
  PROVE  SeitenStehen
  BY DEF SeitenInv, SeitenStehen

\* Login and registration pages, and accounts, only become more.
Waechst ==
  /\ LoginSeiten \subseteq LoginSeiten' /\ RegistrierSeiten \subseteq RegistrierSeiten'
  /\ konten \subseteq konten'

LEMMA FolgenWachsen ==
  ASSUME KontenInv, konten' \subseteq Konten, Waechst
  PROVE  /\ Seq(Aufgaben) \subseteq Seq(Aufgaben')
         /\ Seq(Lesungen) \subseteq Seq(Lesungen')
<1>1. Aufgaben \subseteq Aufgaben'
  BY DEF Waechst, Aufgaben
<1>2. Lesungen \subseteq Lesungen'
  BY DEF Waechst, Lesungen
<1> QED BY <1>1, <1>2, SeqMonotonic

LEMMA AnfragenWachsen ==
  ASSUME Waechst
  PROVE  Seq(Anfragen) \subseteq Seq(Anfragen')
<1>1. Anfragen \subseteq Anfragen'
  BY DEF Waechst, Anfragen
<1> QED BY <1>1, SeqMonotonic

LEMMA SeiteDarauf ==
  ASSUME SeitenInv, app = "laeuft", seiten[Len(seiten)] # "leiste",
         NEW x \in {"login", "registrieren", "leiste"},
         seiten' = Append(seiten, x), zuletzt' = Append(zuletzt, "nichts"), app' = app,
         dreht' \subseteq dreht \cup (IF x = "login" THEN {Len(seiten) + 1} ELSE {}),
         hinweis' \in {"keiner", "ok"}
  PROVE  /\ SeitenInv' /\ LoginSeiten \subseteq LoginSeiten'
         /\ RegistrierSeiten \subseteq RegistrierSeiten'
         /\ x = "login" => Len(seiten) + 1 \in LoginSeiten'
<1> DEFINE W == {"login", "registrieren", "leiste"}
           Z == Konten \cup {Niemand, "nichts"}
<1>1. /\ seiten \in Seq(W) /\ seiten # <<>> /\ Len(seiten) \in Nat /\ Len(seiten) # 0
      /\ zuletzt \in Seq(Z) /\ Len(zuletzt) = Len(seiten)
  BY DEF SeitenInv
<1>2. /\ seiten' \in Seq(W) /\ Len(seiten') = Len(seiten) + 1
      /\ \A i \in 1..Len(seiten) : seiten'[i] = seiten[i]
      /\ seiten'[Len(seiten) + 1] = x
  BY <1>1, AppendFolge
<1>3. zuletzt' \in Seq(Z) /\ Len(zuletzt') = Len(seiten')
  BY <1>1, <1>2, AppendFolge
<1>4. DOMAIN seiten = 1..Len(seiten) /\ DOMAIN seiten' = 1..(Len(seiten) + 1)
  BY <1>1, <1>2
<1>5. /\ LoginSeiten \subseteq LoginSeiten' /\ RegistrierSeiten \subseteq RegistrierSeiten'
      /\ x = "login" => Len(seiten) + 1 \in LoginSeiten'
  BY <1>1, <1>2, <1>4 DEF LoginSeiten, RegistrierSeiten
<1>6. seiten'[1] = "login" /\ seiten' # <<>>
  BY <1>1, <1>2, <1>4 DEF SeitenInv
<1>7. \A i \in DOMAIN seiten' : seiten'[i] = "leiste" => i = Len(seiten')
  BY <1>1, <1>2, <1>4 DEF SeitenInv
<1>8. dreht' \subseteq LoginSeiten'
  BY <1>5 DEF SeitenInv
<1> QED BY <1>2, <1>3, <1>5, <1>6, <1>7, <1>8 DEF SeitenInv

\* The tab bar is left; it is always the top page and never the first.
LEMMA LeisteZu ==
  ASSUME SeitenInv, app = "laeuft", seiten[Len(seiten)] = "leiste",
         seiten' = Front(seiten), zuletzt' = Front(zuletzt),
         UNCHANGED <<app, dreht>>, hinweis' = "keiner"
  PROVE  SeitenInv' /\ LoginSeiten' = LoginSeiten /\ RegistrierSeiten' = RegistrierSeiten
<1> DEFINE W == {"login", "registrieren", "leiste"}
           Z == Konten \cup {Niemand, "nichts"}
<1>1. /\ seiten \in Seq(W) /\ seiten # <<>> /\ Len(seiten) \in Nat /\ Len(seiten) # 0
      /\ zuletzt \in Seq(Z) /\ Len(zuletzt) = Len(seiten) /\ zuletzt # <<>>
      /\ seiten[1] = "login"
  BY DEF SeitenInv
<1>2. Len(seiten) > 1
  BY <1>1
<1>3. /\ seiten' \in Seq(W) /\ Len(seiten') = Len(seiten) - 1
      /\ \A i \in 1..(Len(seiten) - 1) : seiten'[i] = seiten[i]
  BY <1>1, FrontFolge
<1>4. zuletzt' \in Seq(Z) /\ Len(zuletzt') = Len(seiten')
  BY <1>1, <1>3, FrontFolge
<1>5. DOMAIN seiten = 1..Len(seiten) /\ DOMAIN seiten' = 1..(Len(seiten) - 1)
  BY <1>1, <1>3
<1>6. LoginSeiten' = LoginSeiten /\ RegistrierSeiten' = RegistrierSeiten
  <2>1. \A i \in DOMAIN seiten :
          seiten[i] \in {"login", "registrieren"} => i \in DOMAIN seiten'
    BY <1>1, <1>5
  <2>2. \A i \in DOMAIN seiten' : i \in DOMAIN seiten /\ seiten'[i] = seiten[i]
    BY <1>1, <1>3, <1>5
  <2> QED BY <2>1, <2>2 DEF LoginSeiten, RegistrierSeiten
<1>7. seiten'[1] = "login" /\ seiten' # <<>>
  BY <1>1, <1>2, <1>3, <1>5
<1>8. \A i \in DOMAIN seiten' : seiten'[i] = "leiste" => i = Len(seiten')
  <2> SUFFICES ASSUME NEW i \in DOMAIN seiten', seiten'[i] = "leiste" PROVE FALSE OBVIOUS
  <2>1. i \in 1..(Len(seiten) - 1) /\ seiten[i] = "leiste" BY <1>3, <1>5
  <2>2. i = Len(seiten) BY <1>1, <1>5, <2>1 DEF SeitenInv
  <2> QED BY <1>1, <2>1, <2>2
<1> QED BY <1>3, <1>4, <1>6, <1>7, <1>8 DEF SeitenInv

LEMMA SitzungOhneNutzer ==
  ASSUME currentUser' = KeinUser
  PROVE  SitzungInv'
  BY DEF SitzungInv, Fremd

LEMMA SitzungGleich ==
  ASSUME SitzungInv, UNCHANGED currentUser,
         AbmeldungIn(schlange) => AbmeldungIn(schlange'),
         Fremd /\ KommtNichtHinein => KommtNichtHinein'
  PROVE  SitzungInv'
  BY DEF SitzungInv, Fremd

\* The end of the app or of a crash: everything but the session and the server is gone.
LEMMA AllesWeg ==
  ASSUME IInv, Volatil, app' # "laeuft", UNCHANGED <<server, currentUser>>
  PROVE  IInv'
<1>1. KontenInv'
  <2>1. Eingeschrieben' = Eingeschrieben /\ UNCHANGED <<konten, bestaetigt, post, currentUser>>
    BY DEF Volatil, Eingeschrieben, server
  <2> QED BY <2>1 DEF IInv, KontenInv
<1>2. SeitenInv' BY DEF Volatil, SeitenInv, LoginSeiten, RegistrierSeiten
<1>3. FolgenInv' BY DEF Volatil, FolgenInv
<1>4. KommtNichtHinein'
  BY DEF Volatil, KommtNichtHinein, OhneLeiste, OeffnetNichts, OhneFacebook
<1> QED BY <1>1, <1>2, <1>3, <1>4 DEF IInv, SitzungInv

LEMMA BeimAbsturz == ASSUME IInv, Absturz PROVE IInv'
  BY AllesWeg DEF Absturz

\* Only an alert changes on the pages, and nothing is added to what is under way.
LEMMA NurHinweis ==
  ASSUME IInv, UNCHANGED <<daten, currentUser, app, seiten, zuletzt, dreht>>,
         UNCHANGED <<schlange, ketten, anfragen>>, hinweis' \in {hinweis, "keiner", "ok"}
  PROVE  IInv'
<1>1. KontenInv' BY KontenGleich DEF IInv
<1>2. /\ SeitenInv' /\ LoginSeiten' = LoginSeiten
      /\ RegistrierSeiten' = RegistrierSeiten
  BY SeitenUnberuehrt, SeitenGleich DEF IInv
<1>3. FolgenInv'
  BY <1>2 DEF IInv, FolgenInv, Aufgaben, Lesungen, Anfragen, daten, server
<1>4. SitzungInv'
  BY SitzungGleich DEF IInv, KommtNichtHinein
<1> QED BY <1>1, <1>2, <1>3, <1>4 DEF IInv

-----------------------------------------------------------------------------
(* The main queue.                                                         *)

\* The next task is taken: what is known of it, and of those behind it.
LEMMA Vorn ==
  ASSUME IInv, app = "laeuft", schlange # <<>>
  PROVE  /\ Head(schlange) \in Aufgaben /\ Tail(schlange) \in Seq(Aufgaben)
         /\ AbmeldungIn(schlange) /\ Head(schlange).art \notin {"login", "registriert"}
              => AbmeldungIn(Tail(schlange))
         /\ OeffnetNichts(schlange) =>
              OeffnetNichts(Tail(schlange)) /\ Head(schlange).art \notin {"oeffnen", "facebook"}
<1>1. schlange \in Seq(Aufgaben) BY DEF IInv, FolgenInv
<1> QED BY <1>1, TailFolge, AbmeldungRueckt, NichtsOeffnetRueckt

\* A task of the queue is done that only changes what SeitenStehen allows.
LEMMA Erledigt ==
  ASSUME IInv, app = "laeuft", schlange # <<>>, schlange' = Tail(schlange),
         UNCHANGED <<daten, currentUser, ketten, anfragen>>, SeitenStehen,
         Head(schlange).art \notin {"login", "registriert"}
  PROVE  IInv'
<1>1. KontenInv' BY KontenGleich DEF IInv
<1>2. SeitenInv' /\ LoginSeiten' = LoginSeiten /\ RegistrierSeiten' = RegistrierSeiten
  BY SeitenGleich DEF IInv
<1>3. FolgenInv'
  BY <1>2, Vorn DEF IInv, FolgenInv, Aufgaben, Lesungen, Anfragen, daten, server, SeitenStehen
<1>4. SitzungInv'
  BY Vorn, SitzungGleich DEF IInv, KommtNichtHinein, SeitenStehen
<1> QED BY <1>1, <1>2, <1>3, <1>4 DEF IInv

LEMMA EntdrehenInv == ASSUME IInv, Entdrehen PROVE IInv'
<1>1. /\ app = "laeuft" /\ schlange # <<>> /\ schlange' = Tail(schlange)
      /\ Head(schlange).art = "entdrehen"
      /\ UNCHANGED <<daten, currentUser, ketten, anfragen>>
      /\ UNCHANGED <<app, seiten, hinweis, zuletzt>> /\ dreht' \subseteq dreht
  BY DEF Entdrehen, Naechste, laufend
<1>2. SeitenStehen
  BY <1>1 DEF SeitenStehen, IInv, SeitenInv
<1> QED BY <1>1, <1>2, Erledigt

LEMMA MeldenInv == ASSUME IInv, Melden PROVE IInv'
<1>1. /\ app = "laeuft" /\ schlange # <<>> /\ schlange' = Tail(schlange)
      /\ Head(schlange).art \in {"fehler", "unbestaetigt"}
      /\ UNCHANGED <<daten, currentUser, ketten, anfragen>>
      /\ UNCHANGED <<app, seiten, zuletzt>> /\ dreht' \subseteq dreht
      /\ hinweis' \in {hinweis, "ok"}
  BY DEF Melden, Naechste, laufend, Presentiert
<1>2. SeitenStehen
  BY <1>1 DEF SeitenStehen, IInv, SeitenInv
<1> QED BY <1>1, <1>2, Erledigt

LEMMA FacebookFertigInv == ASSUME IInv, FacebookFertig PROVE IInv'
<1>1. /\ app = "laeuft" /\ schlange # <<>> /\ schlange' = Tail(schlange)
      /\ Head(schlange).art = "facebookLogin"
      /\ UNCHANGED <<daten, currentUser, ketten, anfragen>>
      /\ UNCHANGED <<app, seiten, hinweis, zuletzt, dreht>>
  BY DEF FacebookFertig, Naechste, laufend, ansicht
<1>2. SeitenStehen
  BY <1>1 DEF SeitenStehen, IInv, SeitenInv
<1> QED BY <1>1, <1>2, Erledigt

\* The tab bar opens on top of the login page, or nothing happens.
LEMMA OeffnenInv == ASSUME IInv, Oeffnen PROVE IInv'
<1>1. CASE Naechste("facebook") /\ currentUser = KeinUser
  BY <1>1, BeimAbsturz DEF Oeffnen
<1>2. CASE ~(Naechste("facebook") /\ currentUser = KeinUser)
  <2>1. /\ app = "laeuft" /\ schlange # <<>> /\ schlange' = Tail(schlange)
        /\ Head(schlange).art \in {"oeffnen", "facebook"}
        /\ UNCHANGED <<daten, currentUser, ketten, anfragen>>
        /\ UNCHANGED <<app, hinweis>> /\ dreht' \subseteq dreht
    BY <1>2 DEF Oeffnen, Naechste, laufend
  <2>2. CASE Head(schlange).seite = Oben /\ hinweis = "keiner"
    <3>1. seiten' = Append(seiten, "leiste") /\ zuletzt' = Append(zuletzt, "nichts")
      BY <1>2, <2>2 DEF Oeffnen
    <3>2. Head(schlange).seite \in LoginSeiten
      BY <2>1, Vorn DEF Aufgaben, LoginArten
    <3>3. seiten[Len(seiten)] # "leiste"
      BY <2>2, <3>2 DEF LoginSeiten, Oben
    <3>4. /\ SeitenInv' /\ LoginSeiten \subseteq LoginSeiten'
          /\ RegistrierSeiten \subseteq RegistrierSeiten'
      BY <2>1, <2>2, <3>1, <3>3, SeiteDarauf DEF IInv
    <3>5. KontenInv' BY <2>1, KontenGleich DEF IInv
    <3>6. Waechst BY <2>1, <3>4 DEF Waechst, daten, server
    <3>7. konten' \subseteq Konten BY <3>5 DEF KontenInv
    <3>8. FolgenInv'
      BY <2>1, <3>6, <3>7, Vorn, FolgenWachsen, AnfragenWachsen DEF IInv, FolgenInv
    <3>9. SitzungInv'
      <4>1. AbmeldungIn(schlange) => AbmeldungIn(schlange')
        BY <2>1, Vorn
      <4>2. ~KommtNichtHinein
        BY <2>1, Vorn DEF KommtNichtHinein
      <4> QED BY <2>1, <4>1, <4>2, SitzungGleich DEF IInv
    <3> QED BY <3>4, <3>5, <3>8, <3>9 DEF IInv
  <2>3. CASE ~(Head(schlange).seite = Oben /\ hinweis = "keiner")
    <3>1. UNCHANGED <<seiten, zuletzt>>
      BY <1>2, <2>3 DEF Oeffnen
    <3>2. SeitenStehen
      BY <2>1, <3>1 DEF SeitenStehen, IInv, SeitenInv
    <3> QED BY <2>1, <3>2, Erledigt
  <2> QED BY <2>2, <2>3
<1> QED BY <1>1, <1>2

\* The sequence of reads that the listeners of the pages in N start.
LEMMA NeueLesungen ==
  ASSUME IInv, NEW N, N \subseteq LoginSeiten,
         NEW t, t = [n \in 1..Len(SetToSeq(N)) |-> Kette(SetToSeq(N)[n], currentUser.konto)]
  PROVE  /\ t \in Seq(Lesungen)
         /\ currentUser.konto \notin FacebookKonten => OhneFacebook(t)
<1> DEFINE q == SetToSeq(N)
<1>1. IsFiniteSet(N)
  <2>1. DOMAIN seiten = 1..Len(seiten) /\ Len(seiten) \in Nat
    BY DEF IInv, SeitenInv
  <2>2. IsFiniteSet(1..Len(seiten))
    BY <2>1, FS_Interval
  <2>3. N \subseteq 1..Len(seiten)
    BY <2>1 DEF LoginSeiten
  <2> QED BY <2>2, <2>3, FS_Subset
<1>2. q \in Seq(N) BY <1>1, SetToSeqFolge
<1> HIDE DEF q
<1>3. Len(q) \in Nat /\ \A n \in 1..Len(q) : q[n] \in N
  BY <1>2
<1>4. t = [n \in 1..Len(q) |-> Kette(q[n], currentUser.konto)]
  BY DEF q
<1>5. \A n \in 1..Len(q) : Kette(q[n], currentUser.konto) \in Lesungen
  BY <1>3 DEF Kette, Lesungen, IInv, KontenInv
<1>6. t \in Seq(Lesungen)
  BY <1>3, <1>4, <1>5, IsASeq
<1>7. \A n \in DOMAIN t : t[n].konto = currentUser.konto
  BY <1>4 DEF Kette
<1> QED BY <1>6, <1>7 DEF OhneFacebook

LEMMA GerufenFolge ==
  ASSUME IInv, NEW S, NEW N, N = {i \in S : seiten[i] = "login" /\ zuletzt[i] # currentUser.konto},
         N \subseteq LoginSeiten, Gerufen(S)
  PROVE  /\ zuletzt' \in Seq(Konten \cup {Niemand, "nichts"}) /\ Len(zuletzt') = Len(zuletzt)
         /\ dreht' \subseteq dreht
         /\ ketten' \in Seq(Lesungen)
         /\ Fremd /\ OhneFacebook(ketten) => OhneFacebook(ketten')
<1> DEFINE t == [n \in 1..Len(SetToSeq(N)) |-> Kette(SetToSeq(N)[n], currentUser.konto)]
<1>1. /\ zuletzt' = [i \in DOMAIN zuletzt |-> IF i \in N THEN currentUser.konto ELSE zuletzt[i]]
      /\ \/ dreht' = dreht \ N /\ ketten' = ketten
         \/ ketten' = ketten \o t /\ dreht' = dreht
  BY DEF Gerufen
<1>2. t \in Seq(Lesungen) /\ (currentUser.konto \notin FacebookKonten => OhneFacebook(t))
  BY NeueLesungen
<1> HIDE DEF t
<1>3. ketten \in Seq(Lesungen)
  BY DEF IInv, FolgenInv
<1>4. ketten' \in Seq(Lesungen)
  BY <1>1, <1>2, <1>3, ConcatFolge
<1>5. Fremd /\ OhneFacebook(ketten) => OhneFacebook(ketten')
  BY <1>1, <1>2, <1>3, OhneFacebookAngehaengt DEF Fremd
<1>6. currentUser.konto \in Konten \cup {Niemand}
  BY DEF IInv, KontenInv
<1>7. zuletzt \in Seq(Konten \cup {Niemand, "nichts"})
  BY DEF IInv, SeitenInv
<1>8. zuletzt' \in Seq(Konten \cup {Niemand, "nichts"}) /\ Len(zuletzt') = Len(zuletzt)
  <2> DEFINE f(i) == IF i \in N THEN currentUser.konto ELSE zuletzt[i]
  <2>1. DOMAIN zuletzt = 1..Len(zuletzt) /\ Len(zuletzt) \in Nat BY <1>7
  <2>2. \A i \in 1..Len(zuletzt) : f(i) \in Konten \cup {Niemand, "nichts"} BY <1>6, <1>7
  <2>3. zuletzt' = [i \in 1..Len(zuletzt) |-> f(i)] BY <1>1, <2>1
  <2> HIDE DEF f
  <2> QED BY <2>1, <2>2, <2>3
<1> QED BY <1>1, <1>4, <1>5, <1>8

LEMMA ListenerInv == ASSUME IInv, Listener PROVE IInv'
<1> DEFINE S == IF Naechste("alle") THEN DOMAIN seiten ELSE {Head(schlange).seite}
           N == {i \in S : seiten[i] = "login" /\ zuletzt[i] # currentUser.konto}
<1>1. /\ app = "laeuft" /\ schlange # <<>> /\ schlange' = Tail(schlange)
      /\ Head(schlange).art \in {"listener", "alle"}
      /\ UNCHANGED <<daten, currentUser, app, seiten, hinweis, anfragen>> /\ Gerufen(S)
  BY DEF Listener, Naechste
<1>2. N \subseteq LoginSeiten
  <2>1. CASE Naechste("alle") BY <2>1 DEF LoginSeiten
  <2>2. CASE ~Naechste("alle")
    <3>1. Head(schlange).art = "listener" BY <1>1, <2>2 DEF Naechste
    <3>2. Head(schlange).seite \in LoginSeiten
      BY <1>1, <3>1, Vorn DEF Aufgaben, LoginArten
    <3> QED BY <2>2, <3>2
  <2> QED BY <2>1, <2>2
<1> HIDE DEF S
<1>3. /\ zuletzt' \in Seq(Konten \cup {Niemand, "nichts"}) /\ Len(zuletzt') = Len(zuletzt)
      /\ dreht' \subseteq dreht
      /\ ketten' \in Seq(Lesungen)
      /\ Fremd /\ OhneFacebook(ketten) => OhneFacebook(ketten')
  BY <1>1, <1>2, GerufenFolge
<1>4. SeitenStehen
  BY <1>1, <1>3 DEF SeitenStehen
<1>5. KontenInv' BY <1>1, KontenGleich DEF IInv
<1>6. SeitenInv' /\ LoginSeiten' = LoginSeiten /\ RegistrierSeiten' = RegistrierSeiten
  BY <1>4, SeitenGleich DEF IInv
<1>7. FolgenInv'
  BY <1>1, <1>3, <1>6, Vorn DEF IInv, FolgenInv, Aufgaben, Lesungen, Anfragen, daten, server
<1>8. SitzungInv'
  BY <1>1, <1>3, Vorn, SitzungGleich DEF IInv, KommtNichtHinein
<1> QED BY <1>5, <1>6, <1>7, <1>8 DEF IInv

LEMMA AlleAufgabe == Aufgabe("alle", 0) \in Aufgaben
  BY DEF Aufgabe, Aufgaben, Arten, LoginArten

LEMMA AbgemeldetFolge ==
  ASSUME NEW r \in Seq(Aufgaben), Abgemeldet(r)
  PROVE  schlange' \in Seq(Aufgaben) /\ currentUser' = KeinUser
  BY AlleAufgabe, AppendFolge DEF Abgemeldet

\* Entries and mails may come, for accounts that exist and the mails not without entries.
EintraegeWachsen ==
  /\ Eingeschrieben' \cup post' \subseteq konten
  /\ Eingeschrieben \subseteq Eingeschrieben' /\ post' \subseteq Eingeschrieben'

LEMMA EintraegeGleich ==
  ASSUME IInv, UNCHANGED daten
  PROVE  EintraegeWachsen /\ UNCHANGED <<konten, bestaetigt>>
  BY DEF EintraegeWachsen, daten, server, IInv, KontenInv, Eingeschrieben

\* The session ends, while on the pages only an alert may change.
LEMMA SitzungEndet ==
  ASSUME IInv, app = "laeuft", NEW r \in Seq(Aufgaben), Abgemeldet(r),
         UNCHANGED <<konten, bestaetigt, app, seiten, zuletzt, dreht, ketten, anfragen>>,
         EintraegeWachsen,
         \/ hinweis' \in {hinweis, "keiner", "ok"}
         \/ hinweis' = "zumLogin" /\ Len(seiten) \in RegistrierSeiten
  PROVE  IInv'
<1>1. schlange' \in Seq(Aufgaben) /\ currentUser' = KeinUser
  BY AbgemeldetFolge
<1>2. KontenInv'
  BY <1>1 DEF IInv, KontenInv, KeinUser, EintraegeWachsen
<1>3. SeitenInv' /\ LoginSeiten' = LoginSeiten /\ RegistrierSeiten' = RegistrierSeiten
  BY DEF IInv, SeitenInv, LoginSeiten, RegistrierSeiten
<1>4. FolgenInv'
  BY <1>1, <1>3 DEF IInv, FolgenInv, Aufgaben, Lesungen, Anfragen
<1>5. SitzungInv' BY <1>1, SitzungOhneNutzer
<1> QED BY <1>2, <1>3, <1>4, <1>5 DEF IInv

LEMMA LoginFertigInv == ASSUME IInv, LoginFertig PROVE IInv'
<1>1. CASE currentUser = KeinUser
  BY <1>1, BeimAbsturz DEF LoginFertig
<1>2. CASE currentUser # KeinUser /\ currentUser.bestaetigt
  <2>1. /\ app = "laeuft" /\ schlange # <<>> /\ schlange' = Tail(schlange)
        /\ UNCHANGED <<daten, currentUser, ketten, anfragen>>
        /\ UNCHANGED <<app, seiten, hinweis, zuletzt, dreht>>
    BY <1>2 DEF LoginFertig, Naechste, laufend
  <2>2. KontenInv' BY <2>1, KontenGleich DEF IInv
  <2>3. /\ SeitenInv' /\ LoginSeiten' = LoginSeiten
        /\ RegistrierSeiten' = RegistrierSeiten
    BY <2>1, SeitenUnberuehrt, SeitenGleich DEF IInv
  <2>4. FolgenInv'
    BY <2>1, <2>3, Vorn DEF IInv, FolgenInv, Aufgaben, Lesungen, Anfragen, daten, server
  <2>5. SitzungInv' BY <1>2, <2>1 DEF SitzungInv, Fremd
  <2> QED BY <2>2, <2>3, <2>4, <2>5 DEF IInv
<1>3. CASE currentUser # KeinUser /\ ~currentUser.bestaetigt
  <2>1. /\ app = "laeuft" /\ schlange # <<>> /\ Abgemeldet(Tail(schlange))
        /\ UNCHANGED <<daten, app, seiten, zuletzt, dreht, ketten, anfragen>>
        /\ hinweis' \in {hinweis, "ok"}
    BY <1>3 DEF LoginFertig, Naechste, laufend, Presentiert
  <2>2. Tail(schlange) \in Seq(Aufgaben) BY <2>1, Vorn
  <2>3. EintraegeWachsen /\ UNCHANGED <<konten, bestaetigt>>
    BY <2>1, EintraegeGleich
  <2> QED BY <2>1, <2>2, <2>3, SitzungEndet
<1> QED BY <1>1, <1>2, <1>3

LEMMA RegistriertInv == ASSUME IInv, Registriert PROVE IInv'
<1>1. /\ app = "laeuft" /\ schlange # <<>> /\ Abgemeldet(Tail(schlange))
      /\ Head(schlange).art = "registriert"
      /\ UNCHANGED <<konten, bestaetigt, profile, verloren>>
      /\ UNCHANGED <<app, seiten, zuletzt, dreht, ketten, anfragen>>
      /\ eintraege' = eintraege \cup ({currentUser.konto} \cap konten)
      /\ post' = post \cup ({currentUser.konto} \cap konten)
      /\ \/ hinweis' = hinweis
         \/ hinweis' = "zumLogin" /\ Head(schlange).seite = Len(seiten)
  BY DEF Registriert, Naechste, laufend, Presentiert, Oben
<1>2. Tail(schlange) \in Seq(Aufgaben) /\ Head(schlange).seite \in RegistrierSeiten
  BY <1>1, Vorn DEF Aufgaben
<1>3. EintraegeWachsen
  BY <1>1 DEF EintraegeWachsen, IInv, KontenInv, Eingeschrieben
<1> QED BY <1>1, <1>2, <1>3, SitzungEndet

LEMMA HauptschlangeInv == ASSUME IInv, Hauptschlange PROVE IInv'
  BY ListenerInv, EntdrehenInv, MeldenInv, OeffnenInv, LoginFertigInv, FacebookFertigInv,
     RegistriertInv DEF Hauptschlange

-----------------------------------------------------------------------------
(* The answers of the server.                                              *)

\* An answer puts one more task in the main queue.
LEMMA Angehaengt ==
  ASSUME IInv, app = "laeuft", NEW a \in Aufgaben, schlange' = Append(schlange, a),
         UNCHANGED <<daten, currentUser, app, seiten, zuletzt, dreht, hinweis>>,
         ketten' \in Seq(Lesungen), OhneFacebook(ketten) => OhneFacebook(ketten'),
         anfragen' \in Seq(Anfragen),
         Fremd /\ KommtNichtHinein => a.art \notin {"oeffnen", "facebook"}
  PROVE  IInv'
<1>1. KontenInv' BY KontenGleich DEF IInv
<1>2. SeitenInv' /\ LoginSeiten' = LoginSeiten /\ RegistrierSeiten' = RegistrierSeiten
  BY SeitenUnberuehrt, SeitenGleich DEF IInv
<1>3. schlange \in Seq(Aufgaben) /\ schlange' \in Seq(Aufgaben)
  BY AppendFolge DEF IInv, FolgenInv
<1>4. FolgenInv'
  BY <1>2, <1>3 DEF IInv, FolgenInv, Aufgaben, Lesungen, Anfragen, daten, server
<1>5. AbmeldungIn(schlange) => AbmeldungIn(schlange')
  BY <1>3, AbmeldungBleibt
<1>6. Fremd /\ KommtNichtHinein => KommtNichtHinein'
  BY <1>3, NichtsOeffnetAngehaengt DEF KommtNichtHinein
<1>7. SitzungInv' BY <1>5, <1>6, SitzungGleich DEF IInv
<1> QED BY <1>1, <1>2, <1>4, <1>7 DEF IInv

LEMMA SchlangeTyp == ASSUME IInv PROVE schlange \in Seq(Aufgaben)
  BY DEF IInv, FolgenInv

LEMMA EinesFolgt ==
  ASSUME NEW S, NEW s \in Seq(S), NEW a \in S
  PROVE  s \o <<a>> = Append(s, a)
  OBVIOUS

\* A chain of reads changes or ends, with no task for the main queue.
LEMMA KetteEndet ==
  ASSUME IInv, app = "laeuft",
         UNCHANGED <<daten, currentUser, app, seiten, zuletzt, dreht, hinweis>>,
         UNCHANGED <<schlange, anfragen>>,
         ketten' \in Seq(Lesungen), OhneFacebook(ketten) => OhneFacebook(ketten')
  PROVE  IInv'
<1>1. KontenInv' BY KontenGleich DEF IInv
<1>2. SeitenInv' /\ LoginSeiten' = LoginSeiten /\ RegistrierSeiten' = RegistrierSeiten
  BY SeitenUnberuehrt, SeitenGleich DEF IInv
<1>3. FolgenInv'
  BY <1>2 DEF IInv, FolgenInv, Aufgaben, Lesungen, Anfragen, daten, server
<1>4. SitzungInv'
  BY SitzungGleich DEF IInv, KommtNichtHinein
<1> QED BY <1>1, <1>2, <1>3, <1>4 DEF IInv

LEMMA LesungEndet ==
  ASSUME IInv, NEW n \in DOMAIN ketten, ketten' = RemoveAt(ketten, n)
  PROVE  ketten' \in Seq(Lesungen) /\ (OhneFacebook(ketten) => OhneFacebook(ketten'))
<1>1. ketten \in Seq(Lesungen) BY DEF IInv, FolgenInv
<1> QED BY <1>1, RemoveAtFolge, OhneFacebookEntfernt

LEMMA KellnerAntwortInv == ASSUME IInv, KellnerAntwort PROVE IInv'
<1>1. /\ app = "laeuft" /\ UNCHANGED <<daten, currentUser, app, ansicht, anfragen>>
  BY DEF KellnerAntwort
<1>2. PICK n \in DOMAIN ketten :
        /\ ketten[n].schritt = "kellner"
        /\ IF ketten[n].konto \in Kellner
             THEN /\ ketten' = RemoveAt(ketten, n)
                  /\ schlange' = Append(schlange, Aufgabe("entdrehen", ketten[n].seite))
             ELSE ketten' = [ketten EXCEPT ![n].schritt = "provider"] /\ UNCHANGED schlange
  BY DEF KellnerAntwort
<1>3. /\ ketten \in Seq(Lesungen) /\ anfragen \in Seq(Anfragen) /\ ketten[n] \in Lesungen
  BY DEF IInv, FolgenInv
<1>4. CASE ketten[n].konto \in Kellner
  <2>1. Aufgabe("entdrehen", ketten[n].seite) \in Aufgaben
        /\ Aufgabe("entdrehen", ketten[n].seite).art = "entdrehen"
    BY <1>3 DEF Aufgabe, Aufgaben, Arten, LoginArten, Lesungen, LoginSeiten, IInv, SeitenInv
  <2>2. /\ ketten' \in Seq(Lesungen) /\ (OhneFacebook(ketten) => OhneFacebook(ketten'))
    BY <1>2, <1>4, LesungEndet
  <2> QED BY <1>1, <1>2, <1>3, <1>4, <2>1, <2>2, Angehaengt DEF ansicht
<1>5. CASE ketten[n].konto \notin Kellner
  <2>1. ketten' = [ketten EXCEPT ![n].schritt = "provider"] /\ UNCHANGED schlange
    BY <1>2, <1>5
  <2>2. ketten' \in Seq(Lesungen) /\ DOMAIN ketten' = DOMAIN ketten
        /\ \A m \in DOMAIN ketten : ketten'[m].konto = ketten[m].konto
    <3>1. [ketten[n] EXCEPT !.schritt = "provider"] \in Lesungen
          /\ [ketten[n] EXCEPT !.schritt = "provider"].konto = ketten[n].konto
      BY <1>3 DEF Lesungen
    <3> QED BY <1>3, <2>1, <3>1
  <2>3. OhneFacebook(ketten) => OhneFacebook(ketten')
    BY <2>2 DEF OhneFacebook
  <2> QED BY <1>1, <2>1, <2>2, <2>3, KetteEndet DEF ansicht
<1> QED BY <1>4, <1>5

LEMMA ProviderAntwortInv == ASSUME IInv, ProviderAntwort PROVE IInv'
<1> DEFINE Endet(n, folge) ==
             /\ ketten' = RemoveAt(ketten, n)
             /\ schlange' = schlange \o folge
             /\ UNCHANGED <<daten, currentUser, app, ansicht, anfragen>>
           Beendet(n, art) == Endet(n, <<Aufgabe(art, ketten[n].seite)>>)
<1>1. app = "laeuft" BY DEF ProviderAntwort
<1>2. PICK n \in DOMAIN ketten :
        \/ Beendet(n, "fehler")
        \/ ketten[n].konto \in FacebookKonten /\ Beendet(n, "facebook")
        \/ Endet(n, <<>>)
        \/ Absturz
        \/ currentUser.bestaetigt /\ Beendet(n, "oeffnen")
        \/ Beendet(n, "unbestaetigt")
  BY DEF ProviderAntwort
<1>3. CASE Absturz BY <1>3, BeimAbsturz
<1>4. ASSUME NEW art \in {"fehler", "facebook", "oeffnen", "unbestaetigt"}, Beendet(n, art),
             art = "facebook" => ketten[n].konto \in FacebookKonten,
             art = "oeffnen" => currentUser.bestaetigt
      PROVE  IInv'
  <2>1. /\ ketten \in Seq(Lesungen) /\ anfragen \in Seq(Anfragen) /\ ketten[n] \in Lesungen
    BY DEF IInv, FolgenInv
  <2>2. Aufgabe(art, ketten[n].seite) \in Aufgaben /\ Aufgabe(art, ketten[n].seite).art = art
    BY <2>1 DEF Aufgabe, Aufgaben, Arten, LoginArten, Lesungen, LoginSeiten, IInv, SeitenInv
  <2>3. /\ ketten' \in Seq(Lesungen) /\ (OhneFacebook(ketten) => OhneFacebook(ketten'))
    BY <1>4, LesungEndet
  <2>4. Fremd /\ KommtNichtHinein => art \notin {"oeffnen", "facebook"}
    BY <1>4 DEF Fremd, KommtNichtHinein, OhneFacebook
  <2>5. schlange' = Append(schlange, Aufgabe(art, ketten[n].seite))
    BY <1>4, <2>2, SchlangeTyp, EinesFolgt
  <2> QED BY <1>1, <1>4, <2>1, <2>2, <2>3, <2>4, <2>5, Angehaengt DEF ansicht
<1>5. CASE Endet(n, <<>>)
  <2>1. ketten' \in Seq(Lesungen) /\ (OhneFacebook(ketten) => OhneFacebook(ketten'))
    BY <1>5, LesungEndet
  <2>2. schlange' = schlange
    BY <1>5, SchlangeTyp
  <2> QED BY <1>5, <2>1, <2>2, <1>1, KetteEndet DEF ansicht
<1> HIDE DEF Beendet, Endet
<1> QED BY <1>2, <1>3, <1>4, <1>5

LEMMA AnfrageEndet ==
  ASSUME IInv, NEW n \in DOMAIN anfragen, anfragen' = RemoveAt(anfragen, n)
  PROVE  anfragen' \in Seq(Anfragen) /\ anfragen[n] \in Anfragen
<1>1. anfragen \in Seq(Anfragen) BY DEF IInv, FolgenInv
<1> QED BY <1>1, RemoveAtFolge

LEMMA AbgelehntInv == ASSUME IInv, Abgelehnt PROVE IInv'
<1>1. app = "laeuft" /\ UNCHANGED <<daten, currentUser, app, ansicht, ketten>>
  BY DEF Abgelehnt
<1>2. PICK n \in DOMAIN anfragen :
        /\ anfragen' = RemoveAt(anfragen, n)
        /\ schlange' = Append(schlange, Aufgabe("fehler", anfragen[n].seite))
  BY DEF Abgelehnt
<1>3. anfragen' \in Seq(Anfragen) /\ anfragen[n] \in Anfragen
  BY <1>2, AnfrageEndet
<1>4. anfragen[n].seite \in Nat
  BY <1>3 DEF Anfragen, RegistrierSeiten, IInv, SeitenInv
<1>5. Aufgabe("fehler", anfragen[n].seite) \in Aufgaben
      /\ Aufgabe("fehler", anfragen[n].seite).art = "fehler"
  BY <1>4 DEF Aufgabe, Aufgaben, Arten, LoginArten
<1>6. ketten' \in Seq(Lesungen) /\ ketten' = ketten
  BY <1>1 DEF IInv, FolgenInv
<1> QED BY <1>1, <1>2, <1>3, <1>5, <1>6, Angehaengt DEF ansicht

\* An unconfirmed user is signed in with the completion behind it that will end the
\* session again, unless it is Facebook's.
LEMMA AngenommenInv == ASSUME IInv, Angenommen PROVE IInv'
<1>1. /\ app = "laeuft" /\ UNCHANGED <<daten, app, ansicht, ketten>>
  BY DEF Angenommen
<1>2. PICK n \in DOMAIN anfragen :
        /\ anfragen[n].art # "registrieren"
        /\ anfragen' = RemoveAt(anfragen, n)
        /\ currentUser' = [konto |-> anfragen[n].konto,
                           bestaetigt |-> anfragen[n].konto \in bestaetigt]
        /\ schlange' = schlange \o
             <<Aufgabe("alle", 0),
               [art |-> anfragen[n].art, seite |-> anfragen[n].seite,
                neu |-> currentUser.konto # anfragen[n].konto]>>
  BY DEF Angenommen
<1> DEFINE x == [art |-> anfragen[n].art, seite |-> anfragen[n].seite,
                 neu |-> currentUser.konto # anfragen[n].konto]
<1>3. anfragen' \in Seq(Anfragen) /\ anfragen[n] \in Anfragen
  BY <1>2, AnfrageEndet
<1>4. /\ anfragen[n].art \in {"login", "facebookLogin"} /\ anfragen[n].konto \in konten
      /\ anfragen[n].art = "facebookLogin" => anfragen[n].konto \in FacebookKonten
      /\ anfragen[n].seite \in Nat
  BY <1>2, <1>3 DEF Anfragen, IInv, KontenInv
<1>5. x \in Aufgaben /\ x.art = anfragen[n].art
  BY <1>4 DEF Aufgaben, Arten, LoginArten
<1> HIDE DEF x
<1>6. schlange \in Seq(Aufgaben) /\ schlange' = schlange \o <<Aufgabe("alle", 0), x>>
  BY <1>2 DEF IInv, FolgenInv, x
<1>7. schlange' \in Seq(Aufgaben)
  <2>1. <<Aufgabe("alle", 0), x>> \in Seq(Aufgaben) BY <1>5, AlleAufgabe
  <2> QED BY <1>6, <2>1, ConcatFolge
<1>8. KontenInv'
  <2>1. CASE anfragen[n].konto \in bestaetigt
    <3>1. currentUser' = [konto |-> anfragen[n].konto, bestaetigt |-> TRUE]
      BY <1>2, <2>1
    <3> QED BY <1>1, <1>4, <2>1, <3>1 DEF IInv, KontenInv, Eingeschrieben, daten, server
  <2>2. CASE anfragen[n].konto \notin bestaetigt
    <3>0. (anfragen[n].konto \in bestaetigt) = FALSE BY <2>2
    <3>1. currentUser' = [konto |-> anfragen[n].konto, bestaetigt |-> FALSE]
      BY <1>2, <3>0, Zenon
    <3> QED BY <1>1, <1>4, <3>1 DEF IInv, KontenInv, Eingeschrieben, daten, server
  <2> QED BY <2>1, <2>2
<1>9. SeitenInv' /\ LoginSeiten' = LoginSeiten /\ RegistrierSeiten' = RegistrierSeiten
  BY <1>1, SeitenUnberuehrt, SeitenGleich DEF IInv, ansicht
<1>10. FolgenInv'
  BY <1>1, <1>3, <1>7, <1>9 DEF IInv, FolgenInv, Aufgaben, Lesungen, Anfragen, daten, server
<1>11. SitzungInv'
  <2>1. Fremd' => x.art = "login"
    BY <1>2, <1>4, <1>5 DEF Fremd
  <2>2. x.art = "login" => AbmeldungIn(schlange')
    BY <1>5, <1>6, AlleAufgabe, AbmeldungFolgt
  <2> QED BY <2>1, <2>2 DEF SitzungInv
<1> QED BY <1>8, <1>9, <1>10, <1>11 DEF IInv

LEMMA AngelegtInv == ASSUME IInv, Angelegt PROVE IInv'
<1>1. app = "laeuft" /\ UNCHANGED <<bestaetigt, profile, post, eintraege, verloren, app, ansicht, ketten>>
  BY DEF Angelegt
<1>2. PICK n \in DOMAIN anfragen :
        /\ anfragen[n].art = "registrieren"
        /\ anfragen' = RemoveAt(anfragen, n)
        /\ konten' = konten \cup {anfragen[n].konto}
        /\ currentUser' = [konto |-> anfragen[n].konto, bestaetigt |-> FALSE]
        /\ schlange' = schlange \o
             <<Aufgabe("alle", 0), Aufgabe("registriert", anfragen[n].seite)>>
  BY DEF Angelegt
<1> DEFINE x == Aufgabe("registriert", anfragen[n].seite)
<1>3. anfragen' \in Seq(Anfragen) /\ anfragen[n] \in Anfragen
  BY <1>2, AnfrageEndet
<1>4. anfragen[n].konto \in Konten /\ anfragen[n].seite \in RegistrierSeiten
  BY <1>2, <1>3 DEF Anfragen
<1>5. x \in Aufgaben /\ x.art = "registriert"
  BY <1>4 DEF Aufgabe, Aufgaben, Arten, LoginArten, RegistrierSeiten, IInv, SeitenInv
<1> HIDE DEF x
<1>6. schlange \in Seq(Aufgaben) /\ schlange' = schlange \o <<Aufgabe("alle", 0), x>>
  BY <1>2 DEF IInv, FolgenInv, x
<1>7. schlange' \in Seq(Aufgaben)
  <2>1. <<Aufgabe("alle", 0), x>> \in Seq(Aufgaben) BY <1>5, AlleAufgabe
  <2> QED BY <1>6, <2>1, ConcatFolge
<1>8. KontenInv'
  BY <1>1, <1>2, <1>4 DEF IInv, KontenInv, Eingeschrieben
<1>9. SeitenInv' /\ LoginSeiten' = LoginSeiten /\ RegistrierSeiten' = RegistrierSeiten
  BY <1>1, SeitenUnberuehrt, SeitenGleich DEF IInv, ansicht
<1>10. Waechst /\ konten' \subseteq Konten
  BY <1>2, <1>8, <1>9 DEF Waechst, KontenInv
<1>11. FolgenInv'
  <2>1. /\ Seq(Aufgaben) \subseteq Seq(Aufgaben') /\ Seq(Lesungen) \subseteq Seq(Lesungen')
        /\ Seq(Anfragen) \subseteq Seq(Anfragen')
    BY <1>10, FolgenWachsen, AnfragenWachsen DEF IInv
  <2> QED BY <1>1, <1>3, <1>7, <2>1 DEF IInv, FolgenInv
<1>12. SitzungInv'
  BY <1>5, <1>6, AlleAufgabe, AbmeldungFolgt DEF SitzungInv
<1> QED BY <1>8, <1>9, <1>11, <1>12 DEF IInv

LEMMA FacebookUsersInv == ASSUME IInv, FacebookUsers PROVE IInv'
<1>1. /\ app = "laeuft" /\ Abgemeldet(schlange)
      /\ UNCHANGED <<daten, app, ansicht, ketten, anfragen>>
  BY DEF FacebookUsers
<1>2. EintraegeWachsen /\ UNCHANGED <<konten, bestaetigt>>
  BY <1>1, EintraegeGleich
<1> QED BY <1>1, <1>2, SchlangeTyp, SitzungEndet DEF ansicht

LEMMA GemeldetFolge == ASSUME Gemeldet PROVE hinweis' \in {hinweis, "keiner", "ok"}
  BY DEF Gemeldet, Presentiert

LEMMA PasswortAbgelehntInv == ASSUME IInv, PasswortAbgelehnt PROVE IInv'
  BY NurHinweis, GemeldetFolge DEF PasswortAbgelehnt

LEMMA PasswortProviderInv == ASSUME IInv, PasswortProvider PROVE IInv'
  BY NurHinweis DEF PasswortProvider, ansicht

LEMMA PasswortGeaendertInv == ASSUME IInv, PasswortGeaendert PROVE IInv'
  BY BeimAbsturz, NurHinweis DEF PasswortGeaendert, ansicht

\* The session ends, and with it the tab bar.
LEMMA LeisteEndet ==
  ASSUME IInv, app = "laeuft", seiten[Len(seiten)] = "leiste", Abgemeldet(schlange),
         seiten' = Front(seiten), zuletzt' = Front(zuletzt), hinweis' = "keiner",
         UNCHANGED <<daten, app, dreht, ketten, anfragen>>
  PROVE  IInv'
<1>1. SeitenInv' /\ LoginSeiten' = LoginSeiten /\ RegistrierSeiten' = RegistrierSeiten
  BY LeisteZu DEF IInv
<1>2. schlange' \in Seq(Aufgaben) /\ currentUser' = KeinUser
  BY SchlangeTyp, AbgemeldetFolge
<1>3. KontenInv' BY <1>2, KontenAbgemeldet DEF IInv
<1>4. FolgenInv'
  BY <1>1, <1>2 DEF IInv, FolgenInv, Aufgaben, Lesungen, Anfragen, daten, server
<1>5. SitzungInv' BY <1>2, SitzungOhneNutzer
<1> QED BY <1>1, <1>3, <1>4, <1>5 DEF IInv

LEMMA PasswortReauthInv == ASSUME IInv, PasswortReauth PROVE IInv'
<1>1. CASE Absturz BY <1>1, BeimAbsturz
<1>2. CASE ~Absturz
  <2>1. /\ app = "laeuft" /\ Abgemeldet(schlange)
        /\ UNCHANGED <<daten, app, dreht, ketten, anfragen>>
        /\ IF seiten[Oben] = "leiste"
             THEN seiten' = Front(seiten) /\ zuletzt' = Front(zuletzt) /\ hinweis' = "keiner"
             ELSE UNCHANGED <<seiten, zuletzt, hinweis>>
    BY <1>2 DEF PasswortReauth
  <2>2. CASE seiten[Oben] = "leiste"
    BY <2>1, <2>2, LeisteEndet DEF Oben
  <2>3. CASE seiten[Oben] # "leiste"
    <3>1. UNCHANGED <<seiten, zuletzt, hinweis>>
      BY <2>1, <2>3
    <3>2. EintraegeWachsen /\ UNCHANGED <<konten, bestaetigt>>
      BY <2>1, EintraegeGleich
    <3> QED BY <2>1, <3>1, <3>2, SchlangeTyp, SitzungEndet
  <2> QED BY <2>2, <2>3
<1> QED BY <1>1, <1>2

\* An entry arrives: it still has been handed over.
LEMMA EingetragenInv == ASSUME IInv, Eingetragen PROVE IInv'
<1>1. UNCHANGED <<konten, bestaetigt, post, verloren, currentUser, app, ansicht, schlange, ketten,
                  anfragen>>
  BY DEF Eingetragen, laufend
<1>2. PICK k \in eintraege : profile' = profile \cup {k} /\ eintraege' = eintraege \ {k}
  BY DEF Eingetragen
<1>3. Eingeschrieben' = Eingeschrieben
  BY <1>1, <1>2 DEF Eingeschrieben
<1>4. KontenInv' BY <1>1, <1>3 DEF IInv, KontenInv
<1>5. SeitenInv' /\ LoginSeiten' = LoginSeiten /\ RegistrierSeiten' = RegistrierSeiten
  BY <1>1, SeitenUnberuehrt, SeitenGleich DEF IInv, ansicht
<1>6. FolgenInv'
  BY <1>1, <1>5 DEF IInv, FolgenInv, Aufgaben, Lesungen, Anfragen
<1>7. SitzungInv'
  BY <1>1, SitzungGleich DEF IInv, KommtNichtHinein, ansicht
<1> QED BY <1>4, <1>5, <1>6, <1>7 DEF IInv

LEMMA AntwortenInv == ASSUME IInv, Antworten PROVE IInv'
  BY KellnerAntwortInv, ProviderAntwortInv, AngenommenInv, AbgelehntInv, AngelegtInv,
     FacebookUsersInv, PasswortAbgelehntInv, PasswortProviderInv, PasswortGeaendertInv,
     PasswortReauthInv, EingetragenInv DEF Antworten

-----------------------------------------------------------------------------
(* The guest.                                                              *)

LEMMA AppStartenInv == ASSUME IInv, AppStarten PROVE IInv'
<1>1. /\ app # "laeuft" /\ app' = "laeuft" /\ LoginVC(<<>>)
      /\ UNCHANGED <<daten, currentUser, hinweis, ketten, anfragen>>
  BY DEF AppStarten, laufend
<1>2. /\ seiten = <<>> /\ zuletzt = <<>> /\ schlange = <<>> /\ ketten = <<>> /\ anfragen = <<>>
      /\ LoginSeiten = {} /\ RegistrierSeiten = {} /\ dreht = {} /\ hinweis # "zumLogin"
  BY <1>1 DEF IInv, SeitenInv, FolgenInv, LoginSeiten, RegistrierSeiten
<1>3. /\ seiten' = <<"login">> /\ zuletzt' = <<"nichts">> /\ dreht' = {1}
      /\ schlange' = <<Aufgabe("listener", 1)>>
  BY <1>1, <1>2 DEF LoginVC
<1>4. LoginSeiten' = {1} /\ RegistrierSeiten' = {}
  BY <1>3 DEF LoginSeiten, RegistrierSeiten
<1>5. KontenInv' BY <1>1, KontenGleich DEF IInv
<1>6. SeitenInv'
  BY <1>1, <1>2, <1>3, <1>4 DEF SeitenInv
<1>7. Aufgabe("listener", 1) \in Aufgaben' /\ Aufgabe("listener", 1).art = "listener"
  BY <1>4 DEF Aufgabe, Aufgaben, Arten, LoginArten
<1>8. FolgenInv'
  BY <1>1, <1>2, <1>3, <1>7 DEF FolgenInv
<1>9. KommtNichtHinein'
  BY <1>1, <1>2, <1>3, <1>7 DEF KommtNichtHinein, OhneLeiste, OeffnetNichts, OhneFacebook
<1> QED BY <1>5, <1>6, <1>8, <1>9 DEF IInv, SitzungInv

LEMMA AppBeendenInv == ASSUME IInv, AppBeenden PROVE IInv'
  BY AllesWeg DEF AppBeenden

LEMMA HinweisSchliessenInv == ASSUME IInv, HinweisSchliessen PROVE IInv'
  BY NurHinweis DEF HinweisSchliessen, laufend

LEMMA BestaetigenInv == ASSUME IInv, Bestaetigen PROVE IInv'
<1>1. UNCHANGED <<konten, profile, eintraege, verloren, currentUser, app, ansicht, schlange, ketten,
                  anfragen>>
  BY DEF Bestaetigen, laufend
<1>2. PICK k \in post : bestaetigt' = bestaetigt \cup {k} /\ post' = post \ {k}
  BY DEF Bestaetigen
<1>3. KontenInv' BY <1>1, <1>2 DEF IInv, KontenInv, Eingeschrieben
<1>4. SeitenInv' /\ LoginSeiten' = LoginSeiten /\ RegistrierSeiten' = RegistrierSeiten
  BY <1>1, SeitenUnberuehrt, SeitenGleich DEF IInv, ansicht
<1>5. FolgenInv'
  BY <1>1, <1>4 DEF IInv, FolgenInv, Aufgaben, Lesungen, Anfragen
<1>6. SitzungInv'
  BY <1>1, SitzungGleich DEF IInv, KommtNichtHinein, ansicht
<1> QED BY <1>3, <1>4, <1>5, <1>6 DEF IInv

\* A request is sent.
LEMMA Gesendet ==
  ASSUME IInv, app = "laeuft", NEW a \in Anfragen, anfragen' = Append(anfragen, a),
         UNCHANGED <<daten, currentUser, app, ansicht, schlange, ketten>>
  PROVE  IInv'
<1>1. KontenInv' BY KontenGleich DEF IInv
<1>2. SeitenInv' /\ LoginSeiten' = LoginSeiten /\ RegistrierSeiten' = RegistrierSeiten
  BY SeitenUnberuehrt, SeitenGleich DEF IInv, ansicht
<1>3. anfragen' \in Seq(Anfragen)
  BY AppendFolge DEF IInv, FolgenInv
<1>4. FolgenInv'
  BY <1>2, <1>3 DEF IInv, FolgenInv, Aufgaben, Lesungen, Anfragen, daten, server
<1>5. SitzungInv'
  BY SitzungGleich DEF IInv, KommtNichtHinein, ansicht
<1> QED BY <1>1, <1>2, <1>4, <1>5 DEF IInv

LEMMA ObenTyp == ASSUME IInv PROVE Oben \in Nat
  BY DEF IInv, SeitenInv, Oben

LEMMA EmailLoginTappedInv == ASSUME IInv, EmailLoginTapped PROVE IInv'
<1>1. app = "laeuft" /\ UNCHANGED <<daten, currentUser, app, ansicht, schlange, ketten>>
  BY DEF EmailLoginTapped, Tippbar
<1>2. PICK k \in konten \ FacebookKonten :
        anfragen' = Append(anfragen, [art |-> "login", konto |-> k, seite |-> Oben])
  BY DEF EmailLoginTapped
<1>3. [art |-> "login", konto |-> k, seite |-> Oben] \in Anfragen
  BY ObenTyp DEF Anfragen
<1> QED BY <1>1, <1>2, <1>3, Gesendet

LEMMA OhneAngabenInv == ASSUME IInv, OhneAngaben PROVE IInv'
  BY NurHinweis DEF OhneAngaben, laufend

LEMMA facebookLoginTappedInv == ASSUME IInv, facebookLoginTapped PROVE IInv'
<1>1. /\ app = "laeuft" /\ Abgemeldet(schlange)
      /\ UNCHANGED <<daten, app, ansicht, ketten, anfragen>>
  BY DEF facebookLoginTapped, Tippbar, laufend
<1>2. EintraegeWachsen /\ UNCHANGED <<konten, bestaetigt>>
  BY <1>1, EintraegeGleich
<1> QED BY <1>1, <1>2, SchlangeTyp, SitzungEndet DEF ansicht

LEMMA loginTappedInv == ASSUME IInv, loginTapped PROVE IInv'
  BY NurHinweis DEF loginTapped, ansicht

LEMMA FacebookDialogInv == ASSUME IInv, FacebookDialog PROVE IInv'
<1>1. /\ app = "laeuft"
      /\ UNCHANGED <<daten, currentUser, app, seiten, dreht, zuletzt, schlange, ketten>>
  BY DEF FacebookDialog
<1>2. CASE anfragen' = anfragen /\ hinweis' \in {hinweis, "ok"}
  BY <1>1, <1>2, NurHinweis
<1>3. CASE /\ \E k \in FacebookKonten :
                anfragen' = Append(anfragen, [art |-> "facebookLogin", konto |-> k, seite |-> Oben])
           /\ UNCHANGED hinweis
  <2>1. PICK k \in FacebookKonten :
          anfragen' = Append(anfragen, [art |-> "facebookLogin", konto |-> k, seite |-> Oben])
    BY <1>3
  <2>2. [art |-> "facebookLogin", konto |-> k, seite |-> Oben] \in Anfragen
    BY ObenTyp DEF Anfragen
  <2> QED BY <1>1, <1>3, <2>1, <2>2, Gesendet DEF ansicht
<1>4. \/ anfragen' = anfragen /\ hinweis' \in {hinweis, "ok"}
      \/ /\ \E k \in FacebookKonten :
              anfragen' = Append(anfragen, [art |-> "facebookLogin", konto |-> k, seite |-> Oben])
         /\ UNCHANGED hinweis
  BY DEF FacebookDialog, Presentiert
<1> QED BY <1>2, <1>3, <1>4

LEMMA createEmailAccInv == ASSUME IInv, createEmailAcc PROVE IInv'
<1>1. /\ app = "laeuft" /\ Oben > 0 /\ seiten[Oben] = "registrieren"
      /\ UNCHANGED <<daten, currentUser, app, ansicht, schlange, ketten>>
  BY DEF createEmailAcc, Tippbar
<1>2. PICK k \in Konten \ FacebookKonten :
        anfragen' = Append(anfragen, [art |-> "registrieren", konto |-> k, seite |-> Oben])
  BY DEF createEmailAcc
<1>3. Oben \in RegistrierSeiten
  BY <1>1 DEF RegistrierSeiten, Oben, IInv, SeitenInv
<1>4. [art |-> "registrieren", konto |-> k, seite |-> Oben] \in Anfragen
  BY <1>3 DEF Anfragen
<1> QED BY <1>1, <1>2, <1>4, Gesendet

\* A page is put on top of one that is not the tab bar, and no task is done.
LEMMA DaraufInv ==
  ASSUME IInv, app = "laeuft", UNCHANGED <<daten, currentUser, ketten, anfragen>>,
         SeitenInv', Waechst, schlange' \in Seq(Aufgaben'), app' = app,
         AbmeldungIn(schlange) => AbmeldungIn(schlange'),
         KommtNichtHinein => KommtNichtHinein'
  PROVE  IInv'
<1>1. KontenInv' BY KontenGleich DEF IInv
<1>2. konten' \subseteq Konten BY <1>1 DEF KontenInv
<1>3. FolgenInv'
  BY <1>2, FolgenWachsen, AnfragenWachsen DEF IInv, FolgenInv
<1>4. SitzungInv' BY SitzungGleich DEF IInv
<1> QED BY <1>1, <1>3, <1>4 DEF IInv

LEMMA OhneLeisteDarauf ==
  ASSUME SeitenInv, OhneLeiste(seiten), NEW x \in {"login", "registrieren"},
         seiten' = Append(seiten, x)
  PROVE  OhneLeiste(seiten')
<1> DEFINE W == {"login", "registrieren", "leiste"}
<1>1. seiten \in Seq(W) BY DEF SeitenInv
<1>2. /\ seiten' \in Seq(W) /\ Len(seiten') = Len(seiten) + 1
      /\ \A i \in 1..Len(seiten) : seiten'[i] = seiten[i]
      /\ seiten'[Len(seiten) + 1] = x
  BY <1>1, AppendFolge
<1>3. ASSUME NEW i \in DOMAIN seiten' PROVE seiten'[i] # "leiste"
  <2>1. i \in 1..(Len(seiten) + 1) BY <1>2
  <2>2. CASE i = Len(seiten) + 1 BY <1>2, <2>2
  <2>3. CASE i # Len(seiten) + 1
    <3>1. i \in 1..Len(seiten) /\ i \in DOMAIN seiten BY <1>1, <2>1, <2>3
    <3> QED BY <1>2, <3>1 DEF OhneLeiste
  <2> QED BY <2>2, <2>3
<1> QED BY <1>3 DEF OhneLeiste

LEMMA segueToRegistrierenInv == ASSUME IInv, segueToRegistrieren PROVE IInv'
<1>1. /\ app = "laeuft" /\ seiten[Len(seiten)] = "login" /\ hinweis = "keiner"
      /\ seiten' = Append(seiten, "registrieren") /\ zuletzt' = Append(zuletzt, "nichts")
      /\ UNCHANGED <<daten, currentUser, app, hinweis, dreht, schlange, ketten, anfragen>>
  BY DEF segueToRegistrieren, Tippbar, Oben, laufend
<1>2. /\ SeitenInv' /\ LoginSeiten \subseteq LoginSeiten'
      /\ RegistrierSeiten \subseteq RegistrierSeiten'
  BY <1>1, SeiteDarauf DEF IInv
<1>3. Waechst BY <1>1, <1>2 DEF Waechst, daten, server
<1>4. KommtNichtHinein => KommtNichtHinein'
  BY <1>1, OhneLeisteDarauf DEF KommtNichtHinein, IInv
<1>5. schlange' \in Seq(Aufgaben')
  <2>1. konten' \subseteq Konten BY <1>1 DEF IInv, KontenInv, Eingeschrieben, daten, server
  <2> QED BY <1>1, <1>3, <2>1, SchlangeTyp, FolgenWachsen DEF IInv
<1> QED BY <1>1, <1>2, <1>3, <1>4, <1>5, DaraufInv

LEMMA segueToLoginVCInv == ASSUME IInv, segueToLoginVC PROVE IInv'
<1>1. /\ app = "laeuft" /\ LoginVC(seiten) /\ hinweis' = "keiner"
      /\ UNCHANGED <<daten, currentUser, app, ketten, anfragen>>
  BY DEF segueToLoginVC, Tippbar, laufend
<1>2. seiten[Len(seiten)] = "registrieren"
  <2>1. CASE Tippbar("registrieren") BY <2>1 DEF Tippbar, Oben
  <2>2. CASE hinweis = "zumLogin" BY <2>2 DEF IInv, SeitenInv, RegistrierSeiten
  <2> QED BY <2>1, <2>2 DEF segueToLoginVC
<1> DEFINE a == Aufgabe("listener", Len(seiten) + 1)
<1>3. /\ seiten' = Append(seiten, "login") /\ zuletzt' = Append(zuletzt, "nichts")
      /\ dreht' = dreht \cup {Len(seiten) + 1} /\ schlange' = Append(schlange, a)
  BY <1>1 DEF LoginVC
<1>4. /\ SeitenInv' /\ LoginSeiten \subseteq LoginSeiten'
      /\ RegistrierSeiten \subseteq RegistrierSeiten'
      /\ Len(seiten) + 1 \in LoginSeiten'
  BY <1>1, <1>2, <1>3, SeiteDarauf DEF IInv
<1>5. Waechst BY <1>1, <1>4 DEF Waechst, daten, server
<1>6. schlange \in Seq(Aufgaben')
  <2>1. konten' \subseteq Konten BY <1>1 DEF IInv, KontenInv, Eingeschrieben, daten, server
  <2> QED BY <1>5, <2>1, SchlangeTyp, FolgenWachsen DEF IInv
<1>7. a \in Aufgaben' /\ a.art = "listener"
  BY <1>4 DEF Aufgabe, Aufgaben, Arten, LoginArten, LoginSeiten, SeitenInv
<1> HIDE DEF a
<1>8. schlange' \in Seq(Aufgaben')
  BY <1>3, <1>6, <1>7, AppendFolge
<1>9. AbmeldungIn(schlange) => AbmeldungIn(schlange')
  BY <1>3, <1>6, <1>7, AbmeldungBleibt
<1>10. OeffnetNichts(schlange) => OeffnetNichts(schlange')
  BY <1>3, <1>6, <1>7, NichtsOeffnetAngehaengt
<1>11. KommtNichtHinein => KommtNichtHinein'
  BY <1>1, <1>3, <1>10, OhneLeisteDarauf DEF KommtNichtHinein, IInv
<1> QED BY <1>1, <1>4, <1>5, <1>8, <1>9, <1>11, DaraufInv

LEMMA logOutTappedInv == ASSUME IInv, logOutTapped PROVE IInv'
<1>1. /\ app = "laeuft" /\ seiten[Len(seiten)] = "leiste" /\ Abgemeldet(schlange)
      /\ seiten' = Front(seiten) /\ zuletzt' = Front(zuletzt) /\ hinweis' = "keiner"
      /\ UNCHANGED <<daten, app, dreht, ketten, anfragen>>
  BY DEF logOutTapped, Tippbar, Oben, laufend
<1> QED BY <1>1, LeisteEndet

LEMMA passwortAendernInv == ASSUME IInv, passwortAendern PROVE IInv'
  BY NurHinweis, GemeldetFolge DEF passwortAendern

LEMMA GastInv == ASSUME IInv, Gast PROVE IInv'
  BY AppStartenInv, AppBeendenInv, HinweisSchliessenInv, BestaetigenInv, EmailLoginTappedInv,
     loginTappedInv, FacebookDialogInv, segueToRegistrierenInv, segueToLoginVCInv,
     createEmailAccInv, OhneAngabenInv, facebookLoginTappedInv, logOutTappedInv, passwortAendernInv DEF Gast

-----------------------------------------------------------------------------
LEMMA InitInv == Init => IInv
<1> SUFFICES ASSUME Init PROVE IInv OBVIOUS
<1>1. PICK k \in bestaetigt \cup FacebookKonten \cup {Niemand} :
        currentUser = [konto |-> k, bestaetigt |-> k \in bestaetigt]
  BY DEF Init
<1>2. /\ konten \subseteq Konten /\ FacebookKonten \subseteq konten /\ bestaetigt \subseteq konten
      /\ profile = konten /\ post = {} /\ eintraege = {} /\ verloren = {}
  BY DEF Init
<1>3. KontenInv
  <2>1. CASE k \in bestaetigt
    <3>1. currentUser = [konto |-> k, bestaetigt |-> TRUE] BY <1>1, <2>1
    <3> QED BY <1>2, <2>1, <3>1 DEF KontenInv, Eingeschrieben
  <2>2. CASE k \notin bestaetigt
    <3>0. (k \in bestaetigt) = FALSE BY <2>2
    <3>1. currentUser = [konto |-> k, bestaetigt |-> FALSE] BY <1>1, <3>0, Zenon
    <3> QED BY <1>2, <2>2, <3>1 DEF KontenInv, Eingeschrieben
  <2> QED BY <2>1, <2>2
<1>4. SeitenInv BY DEF Init, SeitenInv
<1>5. FolgenInv BY DEF Init, FolgenInv
<1>6. SitzungInv
  BY DEF Init, SitzungInv, KommtNichtHinein, OhneLeiste, OeffnetNichts, OhneFacebook
<1> QED BY <1>3, <1>4, <1>5, <1>6 DEF IInv

LEMMA Unveraendert == ASSUME IInv, UNCHANGED vars PROVE IInv'
  BY NurHinweis DEF vars, ansicht, laufend

\* The invariant holds in every reachable state.
THEOREM SpecIInv == Spec => []IInv
<1>1. IInv /\ [Next]_vars => IInv'
  BY HauptschlangeInv, AntwortenInv, GastInv, Unveraendert DEF Next
<1> QED BY <1>1, InitInv, PTL DEF Spec

\* The server, the session, the pages and the queues are consistent: an answer that
\* comes late still finds the login page it belongs to, whatever pages were opened and
\* left and however often the app was restarted meanwhile.
THEOREM TypKorrekt == Spec => []TypeOK
<1>1. IInv => TypeOK
  <2> SUFFICES ASSUME IInv PROVE TypeOK OBVIOUS
  <2>1. \A n \in DOMAIN ketten : seiten[ketten[n].seite] = "login"
    <3>1. ketten \in Seq(Lesungen) BY DEF IInv, FolgenInv
    <3>2. \A n \in DOMAIN ketten : ketten[n] \in Lesungen BY <3>1
    <3> QED BY <3>2 DEF Lesungen, LoginSeiten
  <2>2. \A i \in dreht : seiten[i] = "login"
    BY DEF IInv, SeitenInv, LoginSeiten
  <2> QED BY <2>1, <2>2 DEF IInv, KontenInv, Eingeschrieben, SeitenInv, FolgenInv, TypeOK
<1> QED BY <1>1, SpecIInv, PTL

\* Whoever has not confirmed the address is not in the tab bar once the main queue is
\* empty: not by an answer that came while another user was signed in, and not by a
\* sign-in whose completion was lost with the app.
THEOREM NurBestaetigteInDerLeiste == Spec => []LeisteNurBestaetigt
<1>1. IInv => LeisteNurBestaetigt
  <2> SUFFICES ASSUME IInv, InDerLeiste, Ruhe, Fremd PROVE FALSE
    BY DEF LeisteNurBestaetigt, Fremd
  <2>1. ~AbmeldungIn(schlange) BY DEF Ruhe, AbmeldungIn
  <2>2. OhneLeiste(seiten) BY <2>1 DEF IInv, SitzungInv, KommtNichtHinein
  <2>3. Len(seiten) \in DOMAIN seiten BY DEF InDerLeiste, IInv, SeitenInv
  <2> QED BY <2>2, <2>3 DEF OhneLeiste, InDerLeiste, Oben
<1> QED BY <1>1, SpecIInv, PTL

\* The entry in Users, which the bars' page reads, of whoever is in the tab bar then has
\* been handed to the database: it is there, or on its way, or was lost with the app.
\* Nobody is there for whom the registration's completion has not run: an address can
\* only be confirmed by a mail, which is sent after the entry was handed over.
THEOREM NurMitProfilInDerLeiste == Spec => []LeisteMitProfil
<1>1. IInv /\ LeisteNurBestaetigt => LeisteMitProfil
  BY DEF IInv, KontenInv, Eingeschrieben, LeisteNurBestaetigt, LeisteMitProfil, KeinUser
<1> QED BY <1>1, SpecIInv, NurBestaetigteInDerLeiste, PTL
====
