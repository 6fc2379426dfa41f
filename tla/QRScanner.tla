-------------------------------- MODULE QRScanner --------------------------------
(***************************************************************************)
(* QRScanner, the first tab: a code is scanned, a read of QRBereich/<bar>   *)
(* tells whose it is, an alert says where the guest is, and "Weiter" opens *)
(* the bar's menu. What a scan finds is kept in the view controller, which *)
(* the answers of earlier scans write to, too: fetchData registers an      *)
(* observer per scan and removes none.                                     *)
(***************************************************************************)
EXTENDS Integers, Sequences, SequencesExt

CONSTANTS
  Codes,            \* [art |-> "zahl" (an integer), "text" (another) or "ohneText", zahl]
  Bereiche,         \* states of the database: barnummer |-> QRBereich
  Entfernungen,     \* between guest and bar, in metres
  MaxScans,         \* bound: scans that read the database
  MaxAenderungen,   \* bound: changes of the database
  MaxWechsel        \* bound: visits to another tab

Arten == {"zahl", "text", "ohneText"}

ScannerAssumption ==
  /\ \A c \in Codes : c.art \in Arten /\ c.zahl \in Nat
  /\ Bereiche # {} /\ Entfernungen \subseteq Nat
  /\ \A b \in Bereiche : \A n \in DOMAIN b :
       b[n].DispName \in Seq(STRING) /\ b[n].AnzahlQRCodes \in Nat
  /\ MaxScans \in Nat /\ MaxAenderungen \in Nat /\ MaxWechsel \in Nat

ASSUME ScannerAssumption

VARIABLES
  erlaubt,          \* CLLocationManager.authorizationStatus()
  entfernung,       \* locationManager.location: to the bar, or -1 for nil
  seite,            \* "scanner", "bestellen" (pushed), "tab", or "abgestuerzt"
  session,          \* the camera looks for codes
  alert,            \* what is presented: art, text (the bar's name) and how far it is
  barnummer, tischnummer, barname, KellnerID,
  beobachter,       \* the barnummer of each observer, in the order of the scans
  faellig,          \* observers with an event on its way
  bereich,          \* the database
  code,             \* the last code that is a number or has no text, whether the alert
                    \* about the location was up then (standort), and whether only its
                    \* own answer can have happened since (allein)
  bestellung,       \* what prepare handed over, and what the alert had said
  aenderungen, wechsel

scan   == <<barnummer, tischnummer, barname, KellnerID>>
umwelt == <<erlaubt, entfernung, bereich, aenderungen, wechsel>>
vars   == <<scan, umwelt, seite, session, alert, beobachter, faellig, code, bestellung>>

\* Names are sequences, which String.append makes longer.
KeinAlert == [art |-> "keiner", text |-> <<>>, entfernung |-> -1]
KeinCode  == [art |-> "keiner", zahl |-> 0, standort |-> FALSE, allein |-> FALSE]

\* Something else happened since the last code.
Gestoert == code' = [code EXCEPT !.allein = FALSE]

\* The bar of a code, and the table there.
Barnummer(zahl) == (zahl \div 1000) * 1000
Tischnummer(zahl) == zahl - Barnummer(zahl)

\* prepare hands over the same bar and table whatever was scanned.
Uebergabe == [name |-> <<"Huqa">>, tischnummer |-> 10]

\* viewDidLoad starts the camera and goes on to the menu at once.
Init ==
  /\ erlaubt \in BOOLEAN
  /\ entfernung = -1
  /\ seite = "bestellen" /\ session = TRUE /\ alert = KeinAlert
  /\ barnummer = 0 /\ tischnummer = 0 /\ barname = <<>> /\ KellnerID = ""
  /\ beobachter = <<>> /\ faellig = {}
  /\ bereich \in Bereiche
  /\ code = KeinCode
  /\ bestellung = [uebergeben |-> Uebergabe, text |-> Uebergabe.name]
  /\ aenderungen = 0 /\ wechsel = 0

-----------------------------------------------------------------------------
(* UIKit. *)

\* An alert is presented if its controller is in the window and presents no other.
Presentiert(a) ==
  alert' = IF seite = "scanner" /\ alert = KeinAlert THEN a ELSE alert

Meldung(art) == [KeinAlert EXCEPT !.art = art]

\* Location is allowed or refused; the position becomes known, or the guest moves.
StandortErlauben ==
  /\ erlaubt' = ~erlaubt
  /\ UNCHANGED <<scan, entfernung, bereich, aenderungen, wechsel, seite, session, alert,
                 beobachter, faellig, code, bestellung>>

Bewegen ==
  /\ entfernung' \in Entfernungen \ {entfernung}
  /\ UNCHANGED <<scan, erlaubt, bereich, aenderungen, wechsel, seite, session, alert,
                 beobachter, faellig, code, bestellung>>

\* viewWillAppear, which does not clear barname.
Erscheinen ==
  /\ seite' = "scanner" /\ session' = TRUE
  /\ barnummer' = 0 /\ tischnummer' = 0 /\ KellnerID' = ""
  /\ Gestoert
  /\ UNCHANGED <<barname, alert, beobachter, faellig, bestellung>>

Zurueck ==
  /\ seite = "bestellen"
  /\ Erscheinen
  /\ UNCHANGED umwelt

TabWechseln ==
  /\ seite = "scanner" /\ alert = KeinAlert /\ wechsel < MaxWechsel
  /\ seite' = "tab"
  /\ wechsel' = wechsel + 1
  /\ UNCHANGED <<scan, erlaubt, entfernung, bereich, aenderungen, session, alert, beobachter,
                 faellig, code, bestellung>>

TabZurueck ==
  /\ seite = "tab"
  /\ Erscheinen
  /\ UNCHANGED umwelt

-----------------------------------------------------------------------------
(* A scan. The camera goes on while another page is shown.                  *)

MetadatenOhneStandort ==
  /\ session /\ ~erlaubt /\ seite # "abgestuerzt"
  /\ Presentiert(Meldung("standort"))
  /\ UNCHANGED <<scan, umwelt, seite, session, beobachter, faellig, code, bestellung>>

\* No code, or one of another type: only the numbers are reset.
MetadatenLeer ==
  /\ session /\ erlaubt /\ seite # "abgestuerzt"
  /\ barnummer' = 0 /\ tischnummer' = 0
  /\ UNCHANGED <<barname, KellnerID, umwelt, seite, session, alert, beobachter, faellig, code,
                 bestellung>>

\* A faulty variant: the names of earlier scans stay.
MetadatenZahlOhneLeeren(c) ==
  /\ session /\ erlaubt /\ seite # "abgestuerzt"
  /\ c.art = "zahl" /\ Len(beobachter) < MaxScans
  /\ session' = FALSE
  /\ barnummer' = Barnummer(c.zahl) /\ tischnummer' = Tischnummer(c.zahl)
  /\ beobachter' = Append(beobachter, barnummer')
  /\ faellig' = faellig \cup {Len(beobachter')}
  /\ code' = [art |-> "zahl", zahl |-> c.zahl, standort |-> alert.art = "standort",
              allein |-> seite = "scanner" /\ alert = KeinAlert /\ faellig = {}]
  /\ UNCHANGED <<barname, KellnerID, umwelt, seite, alert, bestellung>>

\* A code with a number: its bar is read, by an observer that stays.
MetadatenZahl(c) ==
  /\ session /\ erlaubt /\ seite # "abgestuerzt"
  /\ c.art = "zahl" /\ Len(beobachter) < MaxScans
  /\ session' = FALSE
  /\ barnummer' = Barnummer(c.zahl) /\ tischnummer' = Tischnummer(c.zahl)
  /\ barname' = <<>>
  /\ beobachter' = Append(beobachter, barnummer')
  /\ faellig' = faellig \cup {Len(beobachter')}
  /\ code' = [art |-> "zahl", zahl |-> c.zahl, standort |-> alert.art = "standort",
              allein |-> seite = "scanner" /\ alert = KeinAlert /\ faellig = {}]
  /\ UNCHANGED <<KellnerID, umwelt, seite, alert, bestellung>>

\* Another text: an alert, and the camera goes on.
MetadatenText(c) ==
  /\ session /\ erlaubt /\ seite # "abgestuerzt"
  /\ c.art = "text"
  /\ barnummer' = 0 /\ tischnummer' = 0 /\ barname' = <<>>
  /\ Presentiert(Meldung("keinCode"))
  /\ UNCHANGED <<KellnerID, umwelt, seite, session, beobachter, faellig, code, bestellung>>

\* No text: the camera has been stopped.
MetadatenOhneText(c) ==
  /\ session /\ erlaubt /\ seite # "abgestuerzt"
  /\ c.art = "ohneText"
  /\ session' = FALSE
  /\ barnummer' = 0 /\ tischnummer' = 0
  /\ code' = [KeinCode EXCEPT !.art = "ohneText"]
  /\ UNCHANGED <<barname, KellnerID, umwelt, seite, alert, beobachter, faellig, bestellung>>

-----------------------------------------------------------------------------
(* The observers of fetchData. *)

BekannterBereich(i) == beobachter[i] \in DOMAIN bereich

\* There is no such bar.
KeinBereich(i) ==
  /\ seite # "abgestuerzt" /\ i \in faellig /\ ~BekannterBereich(i)
  /\ faellig' = faellig \ {i}
  /\ barnummer' = 0 /\ tischnummer' = 0 /\ barname' = <<>>
  /\ Presentiert(Meldung("keinCode"))
  /\ session' = TRUE
  /\ UNCHANGED <<KellnerID, umwelt, seite, beobachter, code, bestellung>>

\* A faulty variant: an answer ends without an alert, as one without text does.
KeinTischOhneAlert(i) ==
  /\ seite # "abgestuerzt" /\ i \in faellig /\ BekannterBereich(i)
  /\ LET b == bereich[beobachter[i]] IN
     /\ tischnummer > b.AnzahlQRCodes
     /\ barname' = barname \o b.DispName
     /\ KellnerID' = b.KellnerID
  /\ faellig' = faellig \ {i}
  /\ UNCHANGED <<barnummer, tischnummer, alert, umwelt, seite, session, beobachter, code,
                 bestellung>>

\* The number of the table, which may be that of a later scan, is too high.
KeinTisch(i) ==
  /\ seite # "abgestuerzt" /\ i \in faellig /\ BekannterBereich(i)
  /\ LET b == bereich[beobachter[i]] IN
     /\ tischnummer > b.AnzahlQRCodes
     /\ barname' = barname \o b.DispName
     /\ KellnerID' = b.KellnerID
  /\ faellig' = faellig \ {i}
  /\ Presentiert(Meldung("keinTisch"))
  /\ UNCHANGED <<barnummer, tischnummer, umwelt, seite, session, beobachter, code, bestellung>>

\* distanceCondition unwraps the position; every distance on Earth is below its limit.
distanceCondition(i) ==
  /\ seite # "abgestuerzt" /\ i \in faellig /\ BekannterBereich(i)
  /\ LET b == bereich[beobachter[i]] IN
     /\ tischnummer <= b.AnzahlQRCodes
     /\ barname' = barname \o b.DispName
     /\ KellnerID' = b.KellnerID
  /\ faellig' = faellig \ {i}
  /\ IF entfernung = -1
       THEN seite' = "abgestuerzt" /\ UNCHANGED alert
       ELSE /\ Presentiert([art |-> "erfolg", text |-> barname', entfernung |-> entfernung])
            /\ UNCHANGED seite
  /\ UNCHANGED <<barnummer, tischnummer, umwelt, session, beobachter, code, bestellung>>

-----------------------------------------------------------------------------
(* The buttons of the alerts, and the bars. *)

Abbrechen ==
  /\ alert.art \notin {"keiner", "erfolg"} /\ seite = "scanner"
  /\ alert' = KeinAlert
  /\ session' = TRUE
  /\ Gestoert
  /\ UNCHANGED <<scan, umwelt, seite, beobachter, faellig, bestellung>>

\* The other button of the alert about the location opens the settings, and does not
\* start the camera.
Einstellungen ==
  /\ alert.art = "standort" /\ seite = "scanner"
  /\ alert' = KeinAlert
  /\ UNCHANGED <<scan, umwelt, seite, session, beobachter, faellig, code, bestellung>>

\* A faulty variant: the alert is still there.
WeiterMitAlert ==
  /\ alert.art = "erfolg" /\ seite = "scanner"
  /\ seite' = "bestellen"
  /\ bestellung' = [uebergeben |-> Uebergabe, text |-> alert.text]
  /\ UNCHANGED <<scan, umwelt, session, alert, beobachter, faellig, code>>

\* performSegue and prepare.
Weiter ==
  /\ alert.art = "erfolg" /\ seite = "scanner"
  /\ alert' = KeinAlert
  /\ seite' = "bestellen"
  /\ bestellung' = [uebergeben |-> Uebergabe, text |-> alert.text]
  /\ UNCHANGED <<scan, umwelt, session, beobachter, faellig, code>>

\* The data of bars change, and their observers are told.
BereichAendern ==
  /\ aenderungen < MaxAenderungen /\ seite # "abgestuerzt"
  /\ \E neu \in Bereiche \ {bereich} :
       LET anders == {n \in DOMAIN bereich \cup DOMAIN neu :
                        ~(n \in DOMAIN bereich /\ n \in DOMAIN neu /\ bereich[n] = neu[n])} IN
       /\ bereich' = neu
       /\ faellig' = faellig \cup {i \in DOMAIN beobachter : beobachter[i] \in anders}
  /\ aenderungen' = aenderungen + 1
  /\ Gestoert
  /\ UNCHANGED <<scan, erlaubt, entfernung, wechsel, seite, session, alert, beobachter,
                 bestellung>>

Antworten == \E i \in faellig : KeinBereich(i) \/ KeinTisch(i) \/ distanceCondition(i)

Metadaten ==
  \/ MetadatenOhneStandort
  \/ MetadatenLeer
  \/ \E c \in Codes : MetadatenZahl(c) \/ MetadatenText(c) \/ MetadatenOhneText(c)

Next ==
  \/ StandortErlauben
  \/ Bewegen
  \/ Zurueck
  \/ TabWechseln
  \/ TabZurueck
  \/ Metadaten
  \/ Antworten
  \/ Abbrechen
  \/ Einstellungen
  \/ Weiter
  \/ BereichAendern

\* Observers are told, if the phone is online; guests need not do anything.
Spec == Init /\ [][Next]_vars /\ WF_vars(Antworten)

-----------------------------------------------------------------------------
(* Properties. *)

CodeTyp == [art : {"keiner", "zahl", "ohneText"}, zahl : Nat, standort : BOOLEAN, allein : BOOLEAN]

\* Observers with an event exist; the camera is stopped by a scan only.
TypeOK ==
  /\ erlaubt \in BOOLEAN /\ session \in BOOLEAN
  /\ seite \in {"scanner", "bestellen", "tab", "abgestuerzt"}
  /\ alert.art \in {"keiner", "standort", "keinCode", "keinTisch", "erfolg"}
  /\ bereich \in Bereiche
  /\ barname \in Seq(STRING) /\ beobachter \in Seq(Int) /\ tischnummer \in Int
  /\ faellig \subseteq DOMAIN beobachter
  /\ code \in CodeTyp
  /\ alert # KeinAlert => seite \in {"scanner", "abgestuerzt"}
  /\ ~session => code.art # "keiner"

\* The scanner's page shows neither an alert nor a running camera.
Tot == seite = "scanner" /\ ~session /\ alert = KeinAlert

\* Who sees neither an alert nor a running camera waits for an answer, except
\* after a code without text, or one scanned behind the alert about the location:
\* no other order of scans, answers, alerts that cannot be presented, buttons,
\* changes of page and changes of the data leaves the scanner dead.
StehtNurMitGrund == Tot => faellig # {} \/ code.art = "ohneText" \/ code.standort

\* That holds of the codes scanned behind the alert about the location, too.
StehtNurOhneText == Tot => faellig # {} \/ code.art = "ohneText"

\* The last code is of this bar, this waiter and this table, which exists.
CodeGilt ==
  LET n == Barnummer(code.zahl) IN
  /\ n \in DOMAIN bereich
  /\ alert.text = bereich[n].DispName /\ KellnerID = bereich[n].KellnerID
  /\ tischnummer = Tischnummer(code.zahl)
  /\ tischnummer <= bereich[n].AnzahlQRCodes

\* The bar and table of the last code are those the alert and the next page stand for.
ErfolgGueltig == alert.art = "erfolg" => CodeGilt

\* That holds of a code that is scanned when no other is being looked up, if the
\* guest waits for its answer, whatever was scanned, found and opened before.
EinScanGueltig == code.allein /\ alert.art = "erfolg" => CodeGilt

Sichtbar == session \/ alert # KeinAlert \/ seite # "scanner"

\* Every scan of a code with text has an outcome the guest can see, unless the alert
\* about the location was up.
ScanEndet ==
  (seite = "scanner" /\ ~session /\ code.art # "ohneText" /\ ~code.standort) ~> Sichtbar

\* Every scan has.
JederScanEndet == (seite = "scanner" /\ ~session) ~> Sichtbar

\* The position has been asked for and is known when it is compared.
StandortBekannt == seite # "abgestuerzt"

\* Nobody is told to be at a bar that is on the other side of the Earth.
InDerNaehe == alert.art = "erfolg" => alert.entfernung < 10000000

\* The order is for the bar the guest was told to be at.
BestellungBeiDerBar == bestellung.uebergeben.name = bestellung.text
===================================================================================
