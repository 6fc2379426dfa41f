------------------------------ MODULE QRScanner_proofs ------------------------------
(***************************************************************************)
(* For all codes, bars and numbers of scans: the types, that the camera    *)
(* never stands still without a reason, and that the answer to a code      *)
(* which is looked up alone is about its own bar and table.                *)
(***************************************************************************)
EXTENDS QRScanner, TLAPS

\* What is known of a code whose observer is the only one that was called since:
\* the observer is the last one, it has not been called or it has, and then
\* what it found is in the view controller.
Ausstehend ==
  faellig # {} =>
    /\ faellig = {Len(beobachter)}
    /\ ~session /\ barname = <<>> /\ alert = KeinAlert
    /\ tischnummer = Tischnummer(code.zahl)

Beantwortet == alert.art = "erfolg" => ~session /\ faellig = {} /\ CodeGilt

AlleinInv ==
  code.allein =>
    /\ beobachter # <<>> /\ beobachter[Len(beobachter)] = Barnummer(code.zahl)
    /\ Ausstehend
    /\ Beantwortet

-----------------------------------------------------------------------------
(* The types. *)

LEMMA BereichTyp ==
  ASSUME TypeOK, NEW n \in DOMAIN bereich
  PROVE  bereich[n].DispName \in Seq(STRING) /\ bereich[n].AnzahlQRCodes \in Nat
  BY ScannerAssumption DEF TypeOK, ScannerAssumption

LEMMA NummernTyp ==
  ASSUME NEW c \in Codes
  PROVE  /\ c.zahl \in Nat
         /\ Barnummer(c.zahl) \in Int /\ Tischnummer(c.zahl) \in Int
  BY ScannerAssumption DEF ScannerAssumption, Barnummer, Tischnummer

\* An alert that was there stays; a new one is on the scanner's page.
LEMMA AlertTyp ==
  ASSUME TypeOK, NEW a, Presentiert(a),
         a.art \in {"standort", "keinCode", "keinTisch", "erfolg"}
  PROVE  /\ alert'.art \in {"keiner", "standort", "keinCode", "keinTisch", "erfolg"}
         /\ alert' # KeinAlert => seite \in {"scanner", "abgestuerzt"}
         /\ alert' = KeinAlert => alert = KeinAlert /\ seite # "scanner"
         /\ alert' # alert => alert = KeinAlert /\ alert' = a
  BY DEF TypeOK, Presentiert, KeinAlert

LEMMA MeldungArt == ASSUME NEW x PROVE Meldung(x).art = x
  BY DEF Meldung, KeinAlert

LEMMA CodeGestoert ==
  ASSUME TypeOK, Gestoert
  PROVE  /\ code' \in CodeTyp
         /\ code'.art = code.art /\ code'.standort = code.standort /\ ~code'.allein
  BY DEF TypeOK, Gestoert, CodeTyp

LEMMA NeuerCode ==
  ASSUME NEW a \in {"keiner", "zahl", "ohneText"}, NEW z \in Nat,
         NEW s \in BOOLEAN, NEW b \in BOOLEAN
  PROVE  [art |-> a, zahl |-> z, standort |-> s, allein |-> b] \in CodeTyp
  BY DEF CodeTyp

\* What the empty KellnerID does not matter to. (The SMT backend has no empty string.)
LEMMA InitFakten ==
  ASSUME Init
  PROVE  /\ erlaubt \in BOOLEAN /\ seite = "bestellen" /\ session = TRUE /\ alert = KeinAlert
         /\ tischnummer = 0 /\ barname = <<>> /\ beobachter = <<>> /\ faellig = {}
         /\ bereich \in Bereiche /\ code = KeinCode
  BY DEF Init

LEMMA ErscheinenFakten ==
  ASSUME Erscheinen
  PROVE  /\ seite' = "scanner" /\ session' = TRUE /\ tischnummer' = 0 /\ Gestoert
         /\ UNCHANGED <<barname, alert, beobachter, faellig>>
  BY DEF Erscheinen

LEMMA TypInit == Init => TypeOK
<1> SUFFICES ASSUME Init PROVE TypeOK OBVIOUS
<1>1. KeinCode \in CodeTyp /\ KeinAlert.art = "keiner"
  BY NeuerCode DEF KeinCode, KeinAlert
<1> QED BY <1>1, InitFakten DEF TypeOK

LEMMA TypErscheinen ==
  ASSUME TypeOK, Erscheinen, bereich' = bereich, erlaubt' = erlaubt
  PROVE  TypeOK'
  BY CodeGestoert, ErscheinenFakten DEF TypeOK

LEMMA TypUmwelt ==
  ASSUME TypeOK, StandortErlauben \/ Bewegen \/ Zurueck \/ TabWechseln \/ TabZurueck
                   \/ Abbrechen \/ Einstellungen \/ Weiter \/ BereichAendern
  PROVE  TypeOK'
<1>1. CASE StandortErlauben BY <1>1 DEF TypeOK, StandortErlauben, scan
<1>2. CASE Bewegen BY <1>2 DEF TypeOK, Bewegen, scan
<1>3. CASE Zurueck BY <1>3, TypErscheinen DEF Zurueck, umwelt
<1>4. CASE TabWechseln BY <1>4 DEF TypeOK, TabWechseln, scan
<1>5. CASE TabZurueck BY <1>5, TypErscheinen DEF TabZurueck, umwelt
<1>6. CASE Abbrechen BY <1>6, CodeGestoert DEF TypeOK, Abbrechen, scan, umwelt, KeinAlert
<1>7. CASE Weiter BY <1>7 DEF TypeOK, Weiter, scan, umwelt, KeinAlert
<1>8. CASE BereichAendern BY <1>8, CodeGestoert DEF TypeOK, BereichAendern, scan
<1>9. CASE Einstellungen BY <1>9 DEF TypeOK, Einstellungen, scan, umwelt, KeinAlert
<1> QED BY <1>1, <1>2, <1>3, <1>4, <1>5, <1>6, <1>7, <1>8, <1>9

LEMMA TypMetadaten ==
  ASSUME TypeOK, Metadaten
  PROVE  TypeOK'
<1>1. CASE MetadatenOhneStandort
  BY <1>1, AlertTyp, MeldungArt DEF TypeOK, MetadatenOhneStandort, scan, umwelt
<1>2. CASE MetadatenLeer
  BY <1>2 DEF TypeOK, MetadatenLeer, umwelt
<1>3. ASSUME NEW c \in Codes, MetadatenZahl(c) PROVE TypeOK'
  <2>1. Append(beobachter, barnummer') \in Seq(Int)
    BY <1>3, NummernTyp DEF TypeOK, MetadatenZahl
  <2>2. faellig' \subseteq DOMAIN beobachter'
    BY <1>3, <2>1 DEF TypeOK, MetadatenZahl
  <2> DEFINE s == alert.art = "standort"
             b == seite = "scanner" /\ alert = KeinAlert /\ faellig = {}
  <2>3. /\ code' = [art |-> "zahl", zahl |-> c.zahl, standort |-> s, allein |-> b]
        /\ s \in BOOLEAN /\ b \in BOOLEAN
    BY <1>3 DEF MetadatenZahl
  <2> HIDE DEF s, b
  <2>4. code' \in CodeTyp /\ code'.art # "keiner"
    BY <2>3, NeuerCode, NummernTyp
  <2>5. /\ session' \in BOOLEAN /\ tischnummer' = Tischnummer(c.zahl) /\ barname' = <<>>
        /\ beobachter' = Append(beobachter, barnummer')
        /\ UNCHANGED <<erlaubt, seite, alert, bereich>>
    BY <1>3 DEF MetadatenZahl, umwelt
  <2> QED BY <2>1, <2>2, <2>4, <2>5, NummernTyp DEF TypeOK
<1>4. ASSUME NEW c \in Codes, MetadatenText(c) PROVE TypeOK'
  BY <1>4, AlertTyp, MeldungArt DEF TypeOK, MetadatenText, umwelt
<1>5. ASSUME NEW c \in Codes, MetadatenOhneText(c) PROVE TypeOK'
  <2>1. code' \in CodeTyp /\ code'.art # "keiner"
    BY <1>5, NeuerCode DEF MetadatenOhneText, KeinCode
  <2>2. /\ session' \in BOOLEAN /\ tischnummer' = 0
        /\ UNCHANGED <<erlaubt, seite, alert, barname, beobachter, faellig, bereich>>
    BY <1>5 DEF MetadatenOhneText, umwelt
  <2> QED BY <2>1, <2>2 DEF TypeOK
<1> QED BY <1>1, <1>2, <1>3, <1>4, <1>5 DEF Metadaten

LEMMA TypAntworten ==
  ASSUME TypeOK, Antworten
  PROVE  TypeOK'
<1> PICK i \in faellig : KeinBereich(i) \/ KeinTisch(i) \/ distanceCondition(i)
  BY DEF Antworten
<1>1. CASE KeinBereich(i)
  BY <1>1, AlertTyp, MeldungArt DEF TypeOK, KeinBereich, umwelt
<1>2. CASE KeinTisch(i)
  <2>1. barname' \in Seq(STRING)
    BY <1>2, BereichTyp DEF TypeOK, KeinTisch, BekannterBereich
  <2> QED BY <1>2, <2>1, AlertTyp, MeldungArt DEF TypeOK, KeinTisch, umwelt
<1>3. CASE distanceCondition(i)
  <2>1. barname' \in Seq(STRING)
    BY <1>3, BereichTyp DEF TypeOK, distanceCondition, BekannterBereich
  <2> DEFINE a == [art |-> "erfolg", text |-> barname', entfernung |-> entfernung]
  <2>2. CASE entfernung = -1
    BY <1>3, <2>1, <2>2 DEF TypeOK, distanceCondition, umwelt
  <2>3. CASE entfernung # -1
    <3>1. Presentiert(a) /\ a.art = "erfolg"
      BY <1>3, <2>3 DEF distanceCondition
    <3> HIDE DEF a
    <3> QED BY <1>3, <2>1, <2>3, <3>1, AlertTyp DEF TypeOK, distanceCondition, umwelt
  <2> QED BY <2>2, <2>3
<1> QED BY <1>1, <1>2, <1>3

LEMMA TypNext == TypeOK /\ [Next]_vars => TypeOK'
<1> SUFFICES ASSUME TypeOK, [Next]_vars PROVE TypeOK' OBVIOUS
<1>1. CASE UNCHANGED vars BY <1>1 DEF vars, scan, umwelt, TypeOK
<1> QED BY <1>1, TypUmwelt, TypMetadaten, TypAntworten DEF Next

\* Observers that have something to say exist, the numbers and names are what they
\* seem to be, and only a scan stops the camera, for all codes and bars.
THEOREM TypKorrekt == Spec => []TypeOK
  BY TypInit, TypNext, PTL DEF Spec

-----------------------------------------------------------------------------
(* The camera.                                                              *)

\* While the camera is off the alert about the location, which can be closed without
\* starting it, is up only if it was when the code was scanned.
StandortInv ==
  ~session /\ alert.art = "standort" => code.art = "ohneText" \/ code.standort

StehtInv == StehtNurMitGrund /\ StandortInv

\* A presented alert is seen by whoever is on the scanner's page.
LEMMA AlertGezeigt ==
  ASSUME NEW a, Presentiert(a), a.art # "keiner", seite = "scanner"
  PROVE  alert' # KeinAlert
  BY DEF Presentiert, KeinAlert

\* A running camera is all that is asked for.
LEMMA StehtLaeuft == ASSUME session' PROVE StehtInv'
  BY DEF StehtInv, StehtNurMitGrund, StandortInv, Tot

\* An answer presents an alert that is not about the location.
LEMMA StehtAlert ==
  ASSUME StehtInv, NEW a, Presentiert(a), a.art \notin {"keiner", "standort"},
         UNCHANGED <<session, seite, code>>
  PROVE  StehtInv'
<1>1. ~Tot' BY AlertGezeigt DEF Tot
<1>2. alert'.art = "standort" => alert.art = "standort"
  BY DEF Presentiert
<1> QED BY <1>1, <1>2 DEF StehtInv, StehtNurMitGrund, StandortInv

LEMMA StehtErscheinen ==
  ASSUME Erscheinen PROVE StehtInv'
  BY ErscheinenFakten, StehtLaeuft

LEMMA StehtUmwelt ==
  ASSUME TypeOK, StehtInv,
         StandortErlauben \/ Bewegen \/ Zurueck \/ TabWechseln \/ TabZurueck
           \/ Abbrechen \/ Einstellungen \/ Weiter \/ BereichAendern
  PROVE  StehtInv'
<1> USE DEF StehtInv, StehtNurMitGrund, StandortInv, Tot
<1>1. CASE StandortErlauben BY <1>1 DEF StandortErlauben
<1>2. CASE Bewegen BY <1>2 DEF Bewegen
<1>3. CASE Zurueck BY <1>3, StehtErscheinen DEF Zurueck
<1>4. CASE TabWechseln BY <1>4 DEF TabWechseln
<1>5. CASE TabZurueck BY <1>5, StehtErscheinen DEF TabZurueck
<1>6. CASE Abbrechen BY <1>6, StehtLaeuft DEF Abbrechen
<1>7. CASE Einstellungen
  <2>1. StandortInv' BY <1>7 DEF Einstellungen, KeinAlert
  <2>2. StehtNurMitGrund' BY <1>7 DEF Einstellungen
  <2> QED BY <2>1, <2>2
<1>8. CASE Weiter
  <2>1. StandortInv' BY <1>8 DEF Weiter, KeinAlert
  <2>2. StehtNurMitGrund' BY <1>8 DEF Weiter
  <2> QED BY <2>1, <2>2
<1>9. CASE BereichAendern BY <1>9, CodeGestoert DEF BereichAendern
<1> QED BY <1>1, <1>2, <1>3, <1>4, <1>5, <1>6, <1>7, <1>8, <1>9

LEMMA StehtMetadaten ==
  ASSUME TypeOK, StehtInv, Metadaten
  PROVE  StehtInv'
<1>1. CASE MetadatenOhneStandort BY <1>1, StehtLaeuft DEF MetadatenOhneStandort
<1>2. CASE MetadatenLeer BY <1>2, StehtLaeuft DEF MetadatenLeer
<1>3. ASSUME NEW c \in Codes, MetadatenZahl(c) PROVE StehtInv'
  <2>1. faellig' # {} BY <1>3 DEF MetadatenZahl
  <2>2. alert' = alert /\ code'.standort = (alert.art = "standort")
    BY <1>3 DEF MetadatenZahl
  <2> QED BY <2>1, <2>2 DEF StehtInv, StehtNurMitGrund, StandortInv
<1>4. ASSUME NEW c \in Codes, MetadatenText(c) PROVE StehtInv'
  BY <1>4, StehtLaeuft DEF MetadatenText
<1>5. ASSUME NEW c \in Codes, MetadatenOhneText(c) PROVE StehtInv'
  <2>1. code'.art = "ohneText" BY <1>5 DEF MetadatenOhneText, KeinCode
  <2> QED BY <2>1 DEF StehtInv, StehtNurMitGrund, StandortInv
<1> QED BY <1>1, <1>2, <1>3, <1>4, <1>5 DEF Metadaten

LEMMA StehtAntworten ==
  ASSUME TypeOK, StehtInv, Antworten
  PROVE  StehtInv'
<1> PICK i \in faellig : KeinBereich(i) \/ KeinTisch(i) \/ distanceCondition(i)
  BY DEF Antworten
<1>1. CASE KeinBereich(i) BY <1>1, StehtLaeuft DEF KeinBereich
<1>2. CASE KeinTisch(i)
  <2>1. Presentiert(Meldung("keinTisch")) /\ UNCHANGED <<session, seite, code>>
    BY <1>2 DEF KeinTisch, umwelt
  <2> QED BY <2>1, StehtAlert, MeldungArt
<1>3. CASE distanceCondition(i)
  <2> DEFINE a == [art |-> "erfolg", text |-> barname', entfernung |-> entfernung]
  <2>1. UNCHANGED <<session, code>>
    BY <1>3 DEF distanceCondition
  <2>2. CASE seite' = "abgestuerzt" /\ UNCHANGED alert
    BY <2>1, <2>2 DEF StehtInv, StehtNurMitGrund, StandortInv, Tot
  <2>3. CASE Presentiert(a) /\ UNCHANGED seite
    <3>1. a.art = "erfolg" OBVIOUS
    <3> HIDE DEF a
    <3> QED BY <2>1, <2>3, <3>1, StehtAlert
  <2> QED BY <1>3, <2>2, <2>3 DEF distanceCondition
<1> QED BY <1>1, <1>2, <1>3

LEMMA StehtNext == TypeOK /\ StehtInv /\ [Next]_vars => StehtInv'
<1> SUFFICES ASSUME TypeOK, StehtInv, [Next]_vars PROVE StehtInv' OBVIOUS
<1>1. CASE UNCHANGED vars
  BY <1>1 DEF vars, StehtInv, StehtNurMitGrund, StandortInv, Tot
<1> QED BY <1>1, StehtUmwelt, StehtMetadaten, StehtAntworten DEF Next

\* The camera stands still only while an answer is awaited, an alert is shown, a
\* code had no text or was scanned behind the alert about the location, whatever is
\* scanned, answered, tapped, changed and visited, and in whichever order.
THEOREM KameraStehtMitGrund == Spec => []StehtNurMitGrund
<1>1. Init => StehtInv
  BY InitFakten DEF StehtInv, StehtNurMitGrund, StandortInv, Tot
<1>2. StehtInv => StehtNurMitGrund
  BY DEF StehtInv
<1> QED BY <1>1, <1>2, TypKorrekt, StehtNext, PTL DEF Spec

-----------------------------------------------------------------------------
(* A code that is looked up alone.                                          *)

LEMMA AlleinGestoert ==
  ASSUME TypeOK, Gestoert PROVE AlleinInv'
  BY CodeGestoert DEF AlleinInv

\* While the camera runs, nothing is known of an earlier code but its observer: no
\* answer is awaited and no success is shown.
LEMMA AlleinLaeuft ==
  ASSUME AlleinInv, session, code.allein, UNCHANGED <<code, beobachter, faellig>>,
         alert'.art # "erfolg"
  PROVE  AlleinInv'
<1>1. faellig = {} BY DEF AlleinInv, Ausstehend
<1> QED BY <1>1 DEF AlleinInv, Ausstehend, Beantwortet

LEMMA AlleinAlert ==
  ASSUME TypeOK, AlleinInv, session, code.allein, NEW x \in {"standort", "keinCode"},
         Presentiert(Meldung(x))
  PROVE  alert'.art # "erfolg"
<1>1. alert.art # "erfolg" BY DEF AlleinInv, Beantwortet
<1> QED BY <1>1, MeldungArt DEF Presentiert

LEMMA AlleinUmwelt ==
  ASSUME TypeOK, AlleinInv,
         StandortErlauben \/ Bewegen \/ Zurueck \/ TabWechseln \/ TabZurueck
           \/ Abbrechen \/ Einstellungen \/ Weiter \/ BereichAendern
  PROVE  AlleinInv'
<1>1. CASE StandortErlauben
  BY <1>1 DEF StandortErlauben, scan, AlleinInv, Ausstehend, Beantwortet, CodeGilt
<1>2. CASE Bewegen
  BY <1>2 DEF Bewegen, scan, AlleinInv, Ausstehend, Beantwortet, CodeGilt
<1>3. CASE Zurueck BY <1>3, ErscheinenFakten, AlleinGestoert DEF Zurueck
<1>4. CASE TabWechseln
  BY <1>4 DEF TabWechseln, scan, AlleinInv, Ausstehend, Beantwortet, CodeGilt
<1>5. CASE TabZurueck BY <1>5, ErscheinenFakten, AlleinGestoert DEF TabZurueck
<1>6. CASE Abbrechen BY <1>6, AlleinGestoert DEF Abbrechen
<1>7. CASE Weiter
  <2>1. /\ alert.art = "erfolg" /\ alert'.art = "keiner"
        /\ UNCHANGED <<code, beobachter, faellig>>
    BY <1>7 DEF Weiter, KeinAlert
  <2> QED BY <2>1 DEF AlleinInv, Ausstehend, Beantwortet
<1>8. CASE BereichAendern BY <1>8, AlleinGestoert DEF BereichAendern
<1>9. CASE Einstellungen
  <2>1. /\ alert # KeinAlert /\ alert'.art = "keiner"
        /\ UNCHANGED <<code, beobachter, faellig>>
    BY <1>9 DEF Einstellungen, KeinAlert
  <2> QED BY <2>1 DEF AlleinInv, Ausstehend, Beantwortet
<1> QED BY <1>1, <1>2, <1>3, <1>4, <1>5, <1>6, <1>7, <1>8, <1>9

LEMMA AlleinMetadaten ==
  ASSUME TypeOK, AlleinInv, Metadaten
  PROVE  AlleinInv'
<1>1. CASE MetadatenOhneStandort
  <2>1. /\ session /\ Presentiert(Meldung("standort"))
        /\ UNCHANGED <<code, beobachter, faellig>>
    BY <1>1 DEF MetadatenOhneStandort
  <2>2. CASE code.allein BY <2>1, <2>2, AlleinAlert, AlleinLaeuft
  <2>3. CASE ~code.allein BY <2>1, <2>3 DEF AlleinInv
  <2> QED BY <2>2, <2>3
<1>2. CASE MetadatenLeer
  <2>1. session /\ UNCHANGED <<alert, code, beobachter, faellig>>
    BY <1>2 DEF MetadatenLeer
  <2>2. CASE code.allein
    <3>1. alert'.art # "erfolg" BY <2>1, <2>2 DEF AlleinInv, Beantwortet
    <3> QED BY <2>1, <2>2, <3>1, AlleinLaeuft
  <2>3. CASE ~code.allein BY <2>1, <2>3 DEF AlleinInv
  <2> QED BY <2>2, <2>3
<1>3. ASSUME NEW c \in Codes, MetadatenZahl(c) PROVE AlleinInv'
  <2> DEFINE s == alert.art = "standort"
             b == seite = "scanner" /\ alert = KeinAlert /\ faellig = {}
  <2>1. /\ code' = [art |-> "zahl", zahl |-> c.zahl, standort |-> s, allein |-> b]
        /\ ~session' /\ barname' = <<>> /\ alert' = alert
        /\ barnummer' = Barnummer(c.zahl) /\ tischnummer' = Tischnummer(c.zahl)
        /\ beobachter' = Append(beobachter, barnummer')
        /\ faellig' = faellig \cup {Len(beobachter')}
    BY <1>3 DEF MetadatenZahl
  <2>2. code'.zahl = c.zahl /\ (code'.allein => alert = KeinAlert /\ faellig = {})
    BY <2>1
  <2> HIDE DEF b
  <2>3. barnummer' \in Int
    BY <2>1, NummernTyp
  <2>4. beobachter' # <<>> /\ beobachter'[Len(beobachter')] = barnummer'
    BY <2>1, <2>3 DEF TypeOK
  <2>5. code'.allein => alert'.art = "keiner" /\ faellig' = {Len(beobachter')}
    BY <2>1, <2>2 DEF KeinAlert
  <2> QED BY <2>1, <2>2, <2>4, <2>5 DEF AlleinInv, Ausstehend, Beantwortet
<1>4. ASSUME NEW c \in Codes, MetadatenText(c) PROVE AlleinInv'
  <2>1. /\ session /\ Presentiert(Meldung("keinCode"))
        /\ UNCHANGED <<code, beobachter, faellig>>
    BY <1>4 DEF MetadatenText
  <2>2. CASE code.allein BY <2>1, <2>2, AlleinAlert, AlleinLaeuft
  <2>3. CASE ~code.allein BY <2>1, <2>3 DEF AlleinInv
  <2> QED BY <2>2, <2>3
<1>5. ASSUME NEW c \in Codes, MetadatenOhneText(c) PROVE AlleinInv'
  <2>1. code'.allein = FALSE BY <1>5 DEF MetadatenOhneText, KeinCode
  <2> QED BY <2>1 DEF AlleinInv
<1> QED BY <1>1, <1>2, <1>3, <1>4, <1>5 DEF Metadaten

\* After the one answer that was awaited, which is not a success, none is.
LEMMA AlleinBeantwortet ==
  ASSUME AlleinInv, NEW i \in faellig, faellig' = faellig \ {i},
         UNCHANGED <<code, beobachter>>, code.allein => alert'.art # "erfolg"
  PROVE  AlleinInv'
<1>1. code.allein => faellig' = {} BY DEF AlleinInv, Ausstehend
<1> QED BY <1>1 DEF AlleinInv, Ausstehend, Beantwortet

LEMMA MeldungKeinErfolg ==
  ASSUME AlleinInv, NEW i \in faellig, NEW x \in {"keinCode", "keinTisch"},
         Presentiert(Meldung(x))
  PROVE  code.allein => alert'.art # "erfolg"
<1>1. code.allein => alert.art = "keiner" BY DEF AlleinInv, Ausstehend, KeinAlert
<1> QED BY <1>1, MeldungArt DEF Presentiert

LEMMA AlleinAntworten ==
  ASSUME TypeOK, AlleinInv, Antworten
  PROVE  AlleinInv'
<1> PICK i \in faellig : KeinBereich(i) \/ KeinTisch(i) \/ distanceCondition(i)
  BY DEF Antworten
<1>1. CASE KeinBereich(i)
  <2>1. /\ faellig' = faellig \ {i} /\ Presentiert(Meldung("keinCode"))
        /\ UNCHANGED <<code, beobachter>>
    BY <1>1 DEF KeinBereich
  <2> QED BY <2>1, MeldungKeinErfolg, AlleinBeantwortet
<1>2. CASE KeinTisch(i)
  <2>1. /\ faellig' = faellig \ {i} /\ Presentiert(Meldung("keinTisch"))
        /\ UNCHANGED <<code, beobachter>>
    BY <1>2 DEF KeinTisch
  <2> QED BY <2>1, MeldungKeinErfolg, AlleinBeantwortet
<1>3. CASE distanceCondition(i)
  <2> DEFINE n == beobachter[i]
             a == [art |-> "erfolg", text |-> barname', entfernung |-> entfernung]
  <2>1. /\ faellig' = faellig \ {i} /\ UNCHANGED <<code, beobachter, bereich, session, tischnummer>>
        /\ n \in DOMAIN bereich /\ tischnummer <= bereich[n].AnzahlQRCodes
        /\ barname' = barname \o bereich[n].DispName /\ KellnerID' = bereich[n].KellnerID
        /\ alert' = alert \/ Presentiert(a)
    BY <1>3 DEF distanceCondition, BekannterBereich, umwelt
  <2>2. ASSUME code.allein PROVE AlleinInv'
    <3>1. /\ i = Len(beobachter) /\ faellig' = {} /\ n = Barnummer(code.zahl)
          /\ ~session /\ barname = <<>> /\ alert = KeinAlert
          /\ tischnummer = Tischnummer(code.zahl)
      BY <2>1, <2>2 DEF AlleinInv, Ausstehend
    <3>2. barname' = bereich[n].DispName
      <4>1. bereich[n].DispName \in Seq(STRING)
        BY <2>1, BereichTyp
      <4> HIDE DEF n
      <4> QED BY <2>1, <3>1, <4>1
    <3>3. alert'.art = "erfolg" => alert'.text = barname'
      BY <2>1, <3>1 DEF Presentiert, KeinAlert
    <3> HIDE DEF n
    <3>4. alert'.art = "erfolg" => CodeGilt'
      BY <2>1, <3>1, <3>2, <3>3 DEF CodeGilt
    <3>5. Beantwortet' /\ Ausstehend'
      BY <2>1, <3>1, <3>4 DEF Beantwortet, Ausstehend
    <3> QED BY <2>1, <2>2, <3>5 DEF AlleinInv
  <2>3. CASE ~code.allein BY <2>1, <2>3 DEF AlleinInv
  <2> QED BY <2>2, <2>3
<1> QED BY <1>1, <1>2, <1>3

LEMMA AlleinNext == TypeOK /\ AlleinInv /\ [Next]_vars => AlleinInv'
<1> SUFFICES ASSUME TypeOK, AlleinInv, [Next]_vars PROVE AlleinInv' OBVIOUS
<1>1. CASE UNCHANGED vars
  BY <1>1 DEF vars, scan, umwelt, AlleinInv, Ausstehend, Beantwortet, CodeGilt
<1> QED BY <1>1, AlleinUmwelt, AlleinMetadaten, AlleinAntworten DEF Next

\* A success that follows a code which was looked up alone is about this code: its
\* bar by name and waiter, its table, which exists. However many observers of earlier
\* codes there are, and however often the bars' data changed before.
THEOREM EinScanBleibtGueltig == Spec => []EinScanGueltig
<1>1. Init => AlleinInv
  BY InitFakten DEF AlleinInv, KeinCode
<1>2. AlleinInv => EinScanGueltig
  BY DEF AlleinInv, Beantwortet, EinScanGueltig
<1> QED BY <1>1, <1>2, TypKorrekt, AlleinNext, PTL DEF Spec
===================================================================================
