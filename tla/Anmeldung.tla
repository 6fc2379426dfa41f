-------------------------------- MODULE Anmeldung --------------------------------
(***************************************************************************)
(* Signing in and out: LoginVC, RegistrierungVC and the session part of    *)
(* EinstellungenVC. Every LoginVC adds a listener to Firebase Auth that is *)
(* never removed; told of a new user, it asks the database whether that is *)
(* a waiter, then the server how the user signs in, and opens the tab bar. *)
(* The buttons' own completions act on the session meanwhile.              *)
(*                                                                         *)
(* Firebase Auth changes currentUser on its own queue and puts the calls   *)
(* of listeners and completions on the main queue, in that order; a        *)
(* listener gets the user of that time, if it is not the one it got last.  *)
(***************************************************************************)
EXTENDS Integers, Sequences, SequencesExt

CONSTANTS
  Konten,           \* accounts there may be
  Kellner,          \* those of waiters, who have another app
  FacebookKonten,   \* those that sign in by Facebook
  OhneAnbieter,     \* those the server may name no provider of, or another one
  Niemand,
  MitFehlern,       \* the server's answers may be errors
  MaxUnterwegs,     \* bound: what is still under way when the guest taps once more
  MaxTipps,         \* bound: sign-ins and registrations
  MaxSeiten,        \* bound: pages on top of each other
  MaxStarts         \* bound: starts of the app

AnmeldungAssumption ==
  /\ Kellner \cup FacebookKonten \cup OhneAnbieter \subseteq Konten /\ Niemand \notin Konten
  /\ MitFehlern \in BOOLEAN
  /\ {MaxUnterwegs, MaxTipps, MaxSeiten, MaxStarts} \subseteq Nat

ASSUME AnmeldungAssumption

VARIABLES
  konten, bestaetigt, profile, post,  \* the server: accounts, those confirmed, those
                                      \* with an entry in Users, mails with a link
  eintraege,        \* accounts whose entry waits in the phone to be written
  verloren,         \* those whose entry was waiting when the app ended (history)
  currentUser,      \* the account, and whether it was confirmed when it signed in
  app,              \* "laeuft", "beendet" or "abgestuerzt"
  seiten,           \* presented on top of each other: "login", "registrieren", "leiste"
  hinweis,          \* the alert on the top page: "keiner", "ok" or "zumLogin"
  dreht,            \* LoginVCs that are covered by their spinner
  zuletzt,          \* what the listener of each page got last, or "nichts"
  schlange,         \* the main queue
  ketten,           \* the listeners' reads under way
  anfragen,         \* sign-ins and registrations under way
  facebook,         \* "nichts", "lesen" (FacebookUsers) or "dialog"
  passwort,         \* what passwortAendern waits for, and whose provider it asks
  erfolg,           \* the last tap has led to "You have successfully logged in", by a
                    \* new user or again, the guest has stayed on the page, and the
                    \* tab bar is not open yet
  tipps, starts

server == <<konten, bestaetigt, profile, post>>
daten == <<server, eintraege, verloren>>
ansicht == <<seiten, hinweis, dreht, zuletzt>>
laufend == <<ketten, anfragen, facebook, passwort>>
grenzen == <<tipps, starts>>
vars == <<daten, currentUser, app, ansicht, schlange, laufend, erfolg, grenzen>>

KeinUser == [konto |-> Niemand, bestaetigt |-> FALSE]
KeinPasswort == [schritt |-> "nichts", konto |-> Niemand]
WartetAuf(schritt) == [KeinPasswort EXCEPT !.schritt = schritt]
Oben == Len(seiten)

Aufgabe(art, seite) == [art |-> art, seite |-> seite, neu |-> FALSE]

\* A LoginVC appears: viewDidLoad, with the spinner and the new listener's first call.
LoginVC(unten) ==
  /\ seiten' = Append(unten, "login")
  /\ dreht' = dreht \cup {Len(unten) + 1}
  /\ zuletzt' = Append(zuletzt, "nichts")
  /\ schlange' = Append(schlange, Aufgabe("listener", Len(unten) + 1))

\* The app's memory, with the updates the database has not confirmed.
Volatil ==
  /\ eintraege' = {} /\ verloren' = verloren \cup eintraege
  /\ seiten' = <<>> /\ hinweis' = "keiner" /\ dreht' = {} /\ zuletzt' = <<>>
  /\ schlange' = <<>> /\ ketten' = <<>> /\ anfragen' = <<>>
  /\ facebook' = "nichts" /\ passwort' = KeinPasswort /\ erfolg' = "nein"

Absturz == app' = "abgestuerzt" /\ Volatil /\ UNCHANGED <<server, currentUser, grenzen>>

\* Some accounts exist, and the session of one of them may have been kept.
Init ==
  /\ konten \in SUBSET Konten
  /\ FacebookKonten \cup Kellner \cup OhneAnbieter \subseteq konten
  /\ bestaetigt \in SUBSET konten
  /\ Kellner \subseteq bestaetigt /\ FacebookKonten \cap bestaetigt = {}
  /\ profile = konten /\ post = {} /\ eintraege = {} /\ verloren = {}
  /\ \E k \in bestaetigt \cup FacebookKonten \cup {Niemand} :
       currentUser = [konto |-> k, bestaetigt |-> k \in bestaetigt]
  /\ app = "beendet"
  /\ seiten = <<>> /\ hinweis = "keiner" /\ dreht = {} /\ zuletzt = <<>>
  /\ schlange = <<>> /\ ketten = <<>> /\ anfragen = <<>>
  /\ facebook = "nichts" /\ passwort = KeinPasswort /\ erfolg = "nein"
  /\ tipps = 0 /\ starts = 0

\* Firebase Auth restores the user from the keychain; LoginVC is the first page.
AppStarten ==
  /\ app # "laeuft" /\ starts < MaxStarts
  /\ app' = "laeuft" /\ starts' = starts + 1
  /\ LoginVC(<<>>)
  /\ UNCHANGED <<daten, currentUser, hinweis, laufend, erfolg, tipps>>

AppBeenden ==
  /\ app = "laeuft" /\ starts < MaxStarts
  /\ app' = "beendet" /\ Volatil
  /\ UNCHANGED <<server, currentUser, grenzen>>

-----------------------------------------------------------------------------
(* UIKit and Firebase Auth.                                                 *)

\* Pages and alerts are presented by the top page, if it presents nothing yet.
Presentiert(seite, art) ==
  hinweis' = IF seite = Oben /\ hinweis = "keiner" THEN art ELSE hinweis

Tippbar(art) ==
  /\ app = "laeuft" /\ Oben > 0 /\ seiten[Oben] = art
  /\ hinweis = "keiner" /\ Oben \notin dreht /\ facebook # "dialog"

\* signOut, and the tasks that stay in the main queue.
Abgemeldet(rest) ==
  /\ currentUser' = KeinUser
  /\ schlange' = IF currentUser = KeinUser THEN rest ELSE Append(rest, Aufgabe("alle", 0))

Naechste(art) == app = "laeuft" /\ schlange # <<>> /\ Head(schlange).art = art

Unterwegs ==
  Len(anfragen) + Len(schlange) + Len(ketten)
    + (IF facebook = "nichts" THEN 0 ELSE 1) + (IF passwort = KeinPasswort THEN 0 ELSE 1)

HinweisSchliessen ==
  /\ app = "laeuft" /\ hinweis = "ok"
  /\ hinweis' = "keiner"
  /\ UNCHANGED <<daten, currentUser, app, seiten, dreht, zuletzt, schlange, laufend, erfolg,
                 grenzen>>

\* The mail's link is followed.
Bestaetigen ==
  /\ \E k \in post : bestaetigt' = bestaetigt \cup {k} /\ post' = post \ {k}
  /\ UNCHANGED <<konten, profile, eintraege, verloren, currentUser, app, ansicht, schlange, laufend,
                 erfolg, grenzen>>

-----------------------------------------------------------------------------
(* checkIfUserIsSignedIn.                                                   *)

Kette(seite, k) == [seite |-> seite, konto |-> k, schritt |-> "kellner"]

\* A faulty variant: a listener is removed when it has been called.
GerufenEinmal(S) ==
  LET neue == {i \in S : seiten[i] = "login" /\ zuletzt[i] = "nichts"} IN
  /\ zuletzt' = [i \in DOMAIN zuletzt |-> IF i \in neue THEN currentUser.konto ELSE zuletzt[i]]
  /\ IF currentUser = KeinUser
       THEN dreht' = dreht \ neue /\ UNCHANGED ketten
       ELSE /\ ketten' = ketten \o [n \in 1..Len(SetToSeq(neue)) |->
                                      Kette(SetToSeq(neue)[n], currentUser.konto)]
            /\ UNCHANGED dreht

\* The listeners of the pages in S are called.
Gerufen(S) ==
  LET neue == {i \in S : seiten[i] = "login" /\ zuletzt[i] # currentUser.konto} IN
  /\ zuletzt' = [i \in DOMAIN zuletzt |-> IF i \in neue THEN currentUser.konto ELSE zuletzt[i]]
  /\ IF currentUser = KeinUser
       THEN dreht' = dreht \ neue /\ UNCHANGED ketten
       ELSE /\ ketten' = ketten \o [n \in 1..Len(SetToSeq(neue)) |->
                                      Kette(SetToSeq(neue)[n], currentUser.konto)]
            /\ UNCHANGED dreht

Listener ==
  /\ Naechste("listener") \/ Naechste("alle")
  /\ Gerufen(IF Naechste("alle") THEN DOMAIN seiten ELSE {Head(schlange).seite})
  /\ schlange' = Tail(schlange)
  /\ UNCHANGED <<daten, currentUser, app, seiten, hinweis, anfragen, facebook, passwort, erfolg,
                 grenzen>>

\* A faulty variant: the spinner stays when the user is a waiter's.
KellnerAntwortOhneEntdrehen ==
  /\ app = "laeuft"
  /\ \E n \in DOMAIN ketten :
       /\ ketten[n].schritt = "kellner"
       /\ ketten' = IF ketten[n].konto \in Kellner THEN RemoveAt(ketten, n)
                    ELSE [ketten EXCEPT ![n].schritt = "provider"]
  /\ UNCHANGED <<daten, currentUser, app, ansicht, schlange, anfragen, facebook, passwort, erfolg,
                 grenzen>>

\* The list of waiters: a waiter's user is left signed in, on the login page.
KellnerAntwort ==
  /\ app = "laeuft"
  /\ \E n \in DOMAIN ketten :
       /\ ketten[n].schritt = "kellner"
       /\ IF ketten[n].konto \in Kellner
            THEN /\ ketten' = RemoveAt(ketten, n)
                 /\ schlange' = Append(schlange, Aufgabe("entdrehen", ketten[n].seite))
            ELSE ketten' = [ketten EXCEPT ![n].schritt = "provider"] /\ UNCHANGED schlange
  /\ UNCHANGED <<daten, currentUser, app, ansicht, anfragen, facebook, passwort, erfolg, grenzen>>

\* How the listener's user signs in. It is the current user who must have confirmed
\* the address, and who must be there at all. Nothing is done for a user without a
\* provider or with another one.
ProviderAntwort ==
  /\ app = "laeuft"
  /\ \E n \in DOMAIN ketten :
       LET k == ketten[n].konto
           endet(folge) == /\ ketten' = RemoveAt(ketten, n)
                           /\ schlange' = schlange \o folge
                           /\ UNCHANGED <<daten, currentUser, app, ansicht, anfragen, facebook,
                                          passwort, erfolg, grenzen>>
           weiter(art) == endet(<<Aufgabe(art, ketten[n].seite)>>) IN
       /\ ketten[n].schritt = "provider"
       /\ \/ MitFehlern /\ weiter("fehler")
          \/ k \in OhneAnbieter /\ endet(<<>>)
          \/ k \in FacebookKonten /\ weiter("facebook")
          \/ /\ k \notin FacebookKonten
             /\ IF currentUser = KeinUser THEN Absturz
                ELSE weiter(IF currentUser.bestaetigt THEN "oeffnen" ELSE "unbestaetigt")

Entdrehen ==
  /\ Naechste("entdrehen")
  /\ dreht' = dreht \ {Head(schlange).seite}
  /\ schlange' = Tail(schlange)
  /\ UNCHANGED <<daten, currentUser, app, seiten, hinweis, zuletzt, laufend, erfolg, grenzen>>

\* The alerts about an error and about an address that is not confirmed.
Melden ==
  /\ Naechste("fehler") \/ Naechste("unbestaetigt")
  /\ dreht' = dreht \ {Head(schlange).seite}
  /\ Presentiert(Head(schlange).seite, "ok")
  /\ schlange' = Tail(schlange)
  /\ UNCHANGED <<daten, currentUser, app, seiten, zuletzt, laufend, erfolg, grenzen>>

\* segueToTabBar, after userIsEnabled if it is a Facebook user.
Oeffnen ==
  /\ Naechste("oeffnen") \/ Naechste("facebook")
  /\ IF Naechste("facebook") /\ currentUser = KeinUser THEN Absturz
     ELSE /\ dreht' = dreht \ {Head(schlange).seite}
          /\ IF Head(schlange).seite = Oben /\ hinweis = "keiner"
               THEN /\ seiten' = Append(seiten, "leiste") /\ zuletzt' = Append(zuletzt, "nichts")
                    /\ erfolg' = "nein"
               ELSE UNCHANGED <<seiten, zuletzt, erfolg>>
          /\ schlange' = Tail(schlange)
          /\ UNCHANGED <<daten, currentUser, app, hinweis, laufend, grenzen>>

-----------------------------------------------------------------------------
(* The login page.                                                          *)

\* A form that is not filled in, here or on the registration page, is only reported.
OhneAngaben ==
  /\ Tippbar("login") \/ Tippbar("registrieren")
  /\ Unterwegs < MaxUnterwegs
  /\ hinweis' = "ok" /\ erfolg' = "nein"
  /\ UNCHANGED <<daten, currentUser, app, seiten, dreht, zuletzt, schlange, laufend, grenzen>>

EmailLoginTapped ==
  /\ Tippbar("login") /\ Unterwegs < MaxUnterwegs /\ tipps < MaxTipps
  /\ tipps' = tipps + 1
  /\ \E k \in konten \ FacebookKonten :
       anfragen' = Append(anfragen, [art |-> "login", konto |-> k, seite |-> Oben])
  /\ erfolg' = "nein"
  /\ UNCHANGED <<daten, currentUser, app, ansicht, schlange, ketten, facebook, passwort, starts>>

\* The server accepts a sign-in: the new user, then the listeners, then the completion.
Angenommen ==
  /\ app = "laeuft"
  /\ \E n \in DOMAIN anfragen :
       LET k == anfragen[n].konto IN
       /\ anfragen[n].art # "registrieren"
       /\ anfragen' = RemoveAt(anfragen, n)
       /\ currentUser' = [konto |-> k, bestaetigt |-> k \in bestaetigt]
       /\ schlange' = schlange \o
            <<Aufgabe("alle", 0),
              [art |-> anfragen[n].art, seite |-> anfragen[n].seite,
               neu |-> currentUser.konto # k]>>
  /\ UNCHANGED <<daten, app, ansicht, ketten, facebook, passwort, erfolg, grenzen>>

\* It refuses one (wrong password, address in use, no network).
Abgelehnt ==
  /\ app = "laeuft"
  /\ \E n \in DOMAIN anfragen :
       /\ MitFehlern \/ (anfragen[n].art = "registrieren" /\ anfragen[n].konto \in konten)
       /\ anfragen' = RemoveAt(anfragen, n)
       /\ schlange' = Append(schlange, Aufgabe("fehler", anfragen[n].seite))
  /\ UNCHANGED <<daten, currentUser, app, ansicht, ketten, facebook, passwort, erfolg, grenzen>>

\* What the completion a of a sign-in tells a guest who is still on its page.
Erfolg(a) ==
  CASE a.seite # Oben -> "nein"
    [] a.seite = Oben /\ a.neu -> "neu"
    [] a.seite = Oben /\ ~a.neu -> "wieder"

\* A faulty variant: whoever has not confirmed the address stays signed in.
LoginFertigOhneSignOut ==
  /\ Naechste("login")
  /\ LET a == Head(schlange) IN
     IF currentUser = KeinUser THEN Absturz
     ELSE /\ IF currentUser.bestaetigt
               THEN /\ erfolg' = Erfolg(a)
                    /\ UNCHANGED hinweis
               ELSE Presentiert(a.seite, "ok") /\ UNCHANGED erfolg
          /\ schlange' = Tail(schlange)
          /\ UNCHANGED <<daten, currentUser, app, seiten, dreht, zuletzt, laufend, grenzen>>

\* The completion of EmailLoginTapped.
LoginFertig ==
  /\ Naechste("login")
  /\ LET a == Head(schlange) IN
     IF currentUser = KeinUser THEN Absturz
     ELSE /\ IF currentUser.bestaetigt
               THEN /\ erfolg' = Erfolg(a)
                    /\ schlange' = Tail(schlange)
                    /\ UNCHANGED <<hinweis, currentUser>>
               ELSE /\ Abgemeldet(Tail(schlange))
                    /\ Presentiert(a.seite, "ok")
                    /\ UNCHANGED erfolg
          /\ UNCHANGED <<daten, app, seiten, dreht, zuletzt, laufend, grenzen>>

\* loginTapped: Facebook. The read's answer ends the session, whosever it is now.
loginTapped ==
  /\ Tippbar("login") /\ facebook = "nichts" /\ FacebookKonten # {}
  /\ Unterwegs < MaxUnterwegs /\ tipps < MaxTipps
  /\ tipps' = tipps + 1
  /\ facebook' = "lesen" /\ erfolg' = "nein"
  /\ UNCHANGED <<daten, currentUser, app, ansicht, schlange, ketten, anfragen, passwort, starts>>

FacebookUsers ==
  /\ app = "laeuft" /\ facebook = "lesen"
  /\ facebook' = "dialog"
  /\ Abgemeldet(schlange)
  /\ UNCHANGED <<daten, app, ansicht, ketten, anfragen, passwort, erfolg, grenzen>>

\* Facebook's dialog ends: cancelled, or with a user who is registered or not.
FacebookDialog ==
  /\ app = "laeuft" /\ facebook = "dialog"
  /\ facebook' = "nichts"
  /\ \/ UNCHANGED <<anfragen, hinweis>>
     \/ Presentiert(Oben, "ok") /\ UNCHANGED anfragen
     \/ /\ \E k \in FacebookKonten :
             anfragen' = Append(anfragen, [art |-> "facebookLogin", konto |-> k, seite |-> Oben])
        /\ UNCHANGED hinweis
  /\ UNCHANGED <<daten, currentUser, app, seiten, dreht, zuletzt, schlange, ketten, passwort,
                 erfolg, grenzen>>

\* The completion of getUserInfo does nothing.
FacebookFertig ==
  /\ Naechste("facebookLogin")
  /\ schlange' = Tail(schlange)
  /\ UNCHANGED <<daten, currentUser, app, ansicht, laufend, erfolg, grenzen>>

-----------------------------------------------------------------------------
(* RegistrierungVC.                                                         *)

segueToRegistrieren ==
  /\ Tippbar("login") /\ Oben < MaxSeiten
  /\ seiten' = Append(seiten, "registrieren") /\ zuletzt' = Append(zuletzt, "nichts")
  /\ erfolg' = "nein"
  /\ UNCHANGED <<daten, currentUser, app, hinweis, dreht, schlange, laufend, grenzen>>

\* Back to the login, which is a new LoginVC: by the button, or by the alert's.
segueToLoginVC ==
  /\ \/ Tippbar("registrieren")
     \/ app = "laeuft" /\ hinweis = "zumLogin"
  /\ Oben < MaxSeiten
  /\ LoginVC(seiten)
  /\ hinweis' = "keiner" /\ erfolg' = "nein"
  /\ UNCHANGED <<daten, currentUser, app, laufend, grenzen>>

createEmailAcc ==
  /\ Tippbar("registrieren") /\ Unterwegs < MaxUnterwegs /\ tipps < MaxTipps
  /\ tipps' = tipps + 1 /\ erfolg' = "nein"
  /\ \E k \in Konten \ FacebookKonten :
       anfragen' = Append(anfragen, [art |-> "registrieren", konto |-> k, seite |-> Oben])
  /\ UNCHANGED <<daten, currentUser, app, ansicht, schlange, ketten, facebook, passwort, starts>>

\* The Facebook button signs out. The dialog it opens then leads to nothing, as the
\* body of getUserInfo is commented out.
facebookLoginTapped ==
  /\ Tippbar("registrieren") /\ Unterwegs < MaxUnterwegs
  /\ Abgemeldet(schlange)
  /\ erfolg' = "nein"
  /\ UNCHANGED <<daten, app, ansicht, laufend, grenzen>>

\* The server makes the account, which is signed in.
Angelegt ==
  /\ app = "laeuft"
  /\ \E n \in DOMAIN anfragen :
       LET k == anfragen[n].konto IN
       /\ anfragen[n].art = "registrieren" /\ k \notin konten
       /\ anfragen' = RemoveAt(anfragen, n)
       /\ konten' = konten \cup {k}
       /\ currentUser' = [konto |-> k, bestaetigt |-> FALSE]
       /\ schlange' = schlange \o <<Aufgabe("alle", 0), Aufgabe("registriert", anfragen[n].seite)>>
  /\ UNCHANGED <<bestaetigt, profile, post, eintraege, verloren, app, ansicht, ketten, facebook,
                 passwort, erfolg, grenzen>>

\* A faulty variant: signOut comes first, and there is no uid to write an entry for.
RegistriertNachSignOut ==
  /\ Naechste("registriert")
  /\ post' = post \cup ({currentUser.konto} \cap konten)
  /\ Abgemeldet(Tail(schlange))
  /\ Presentiert(Head(schlange).seite, "zumLogin")
  /\ UNCHANGED <<konten, bestaetigt, profile, eintraege, verloren, app, seiten, dreht, zuletzt,
                 laufend, erfolg, grenzen>>

\* A faulty variant: it writes the entry of a user who is not there any more.
RegistriertOhneUid ==
  /\ Naechste("registriert")
  /\ eintraege' = eintraege \cup {currentUser.konto}
  /\ post' = post \cup ({currentUser.konto} \cap konten)
  /\ Abgemeldet(Tail(schlange))
  /\ Presentiert(Head(schlange).seite, "zumLogin")
  /\ UNCHANGED <<konten, bestaetigt, profile, verloren, app, seiten, dreht, zuletzt, laufend,
                 erfolg, grenzen>>

\* Its completion: the entry in Users, which is handed to the database and waits in
\* the phone's memory to be written, the mail, which is the server's, and signOut.
Registriert ==
  /\ Naechste("registriert")
  /\ eintraege' = eintraege \cup ({currentUser.konto} \cap konten)
  /\ post' = post \cup ({currentUser.konto} \cap konten)
  /\ Abgemeldet(Tail(schlange))
  /\ Presentiert(Head(schlange).seite, "zumLogin")
  /\ UNCHANGED <<konten, bestaetigt, profile, verloren, app, seiten, dreht, zuletzt, laufend,
                 erfolg, grenzen>>

\* The last of the entry's five updates arrives.
Eingetragen ==
  /\ app = "laeuft"
  /\ \E k \in eintraege : profile' = profile \cup {k} /\ eintraege' = eintraege \ {k}
  /\ UNCHANGED <<konten, bestaetigt, post, verloren, currentUser, app, ansicht, schlange, laufend,
                 erfolg, grenzen>>

-----------------------------------------------------------------------------
(* EinstellungenVC, in the tab bar. "unwind" leads to the LoginVC below.    *)

logOutTapped ==
  /\ Tippbar("leiste")
  /\ Abgemeldet(schlange)
  /\ seiten' = Front(seiten) /\ zuletzt' = Front(zuletzt)
  /\ UNCHANGED <<daten, app, hinweis, dreht, laufend, erfolg, grenzen>>

\* An alert of EinstellungenVC, unless the tab bar has been left.
Gemeldet ==
  IF seiten[Oben] = "leiste" THEN Presentiert(Oben, "ok") ELSE UNCHANGED hinweis

\* The new password is missing, or not repeated, or there is no user; or the server
\* is asked how the user of that moment signs in.
passwortAendern ==
  /\ Tippbar("leiste") /\ passwort = KeinPasswort /\ Unterwegs < MaxUnterwegs
  /\ \/ Gemeldet /\ UNCHANGED passwort
     \/ /\ currentUser # KeinUser
        /\ passwort' = [schritt |-> "provider", konto |-> currentUser.konto]
        /\ UNCHANGED hinweis
  /\ UNCHANGED <<daten, currentUser, app, seiten, dreht, zuletzt, schlange, ketten, anfragen,
                 facebook, erfolg, grenzen>>

\* An error, or an account that has no password here.
PasswortAbgelehnt ==
  /\ app = "laeuft"
  /\ \/ MitFehlern /\ passwort.schritt \in {"provider", "update"}
     \/ passwort.schritt = "provider" /\ passwort.konto \in FacebookKonten \cup OhneAnbieter
  /\ passwort' = KeinPasswort
  /\ Gemeldet
  /\ UNCHANGED <<daten, currentUser, app, seiten, dreht, zuletzt, schlange, ketten, anfragen,
                 facebook, erfolg, grenzen>>

PasswortProvider ==
  /\ app = "laeuft" /\ passwort.schritt = "provider"
  /\ passwort.konto \notin FacebookKonten
  /\ passwort' = WartetAuf("update")
  /\ UNCHANGED <<daten, currentUser, app, ansicht, schlange, ketten, anfragen, facebook, erfolg,
                 grenzen>>

\* updatePassword is done; the credential is made of the current user.
PasswortGeaendert ==
  /\ app = "laeuft" /\ passwort.schritt = "update"
  /\ IF currentUser = KeinUser THEN Absturz
     ELSE /\ passwort' = WartetAuf("reauth")
          /\ UNCHANGED <<daten, currentUser, app, ansicht, schlange, ketten, anfragen, facebook,
                         erfolg, grenzen>>

\* Signing in again with the old password is expected to fail; if it does not, as
\* it is the new one, the message of a missing error is shown.
PasswortReauth ==
  /\ app = "laeuft" /\ passwort.schritt = "reauth"
  /\ \/ Absturz
     \/ /\ passwort' = KeinPasswort
        /\ Abgemeldet(schlange)
        /\ IF seiten[Oben] = "leiste"
             THEN seiten' = Front(seiten) /\ zuletzt' = Front(zuletzt) /\ hinweis' = "keiner"
             ELSE UNCHANGED <<seiten, zuletzt, hinweis>>
        /\ UNCHANGED <<daten, app, dreht, ketten, anfragen, facebook, erfolg, grenzen>>

-----------------------------------------------------------------------------
Hauptschlange ==
  \/ Listener \/ Entdrehen \/ Melden \/ Oeffnen
  \/ LoginFertig \/ FacebookFertig \/ Registriert

Antworten ==
  \/ KellnerAntwort \/ ProviderAntwort
  \/ Angenommen \/ Abgelehnt \/ Angelegt
  \/ FacebookUsers \/ Eingetragen
  \/ PasswortAbgelehnt \/ PasswortProvider \/ PasswortGeaendert \/ PasswortReauth

Gast ==
  \/ AppStarten \/ AppBeenden
  \/ HinweisSchliessen \/ Bestaetigen
  \/ OhneAngaben \/ EmailLoginTapped \/ loginTapped \/ FacebookDialog
  \/ segueToRegistrieren \/ segueToLoginVC \/ createEmailAcc \/ facebookLoginTapped
  \/ logOutTapped \/ passwortAendern

Next == Hauptschlange \/ Antworten \/ Gast

\* The main queue runs, and the server answers; the guest need not do anything.
Spec == Init /\ [][Next]_vars /\ WF_vars(Hauptschlange) /\ WF_vars(Antworten)

-----------------------------------------------------------------------------
(* Properties.                                                              *)

InDerLeiste == app = "laeuft" /\ seiten[Oben] = "leiste"

\* All calls that are due have been made.
Ruhe == schlange = <<>>

\* Pages have their listeners, only login pages are covered by spinners, and only
\* a running app has pages, tasks and reads.
TypeOK ==
  /\ bestaetigt \cup profile \cup post \cup eintraege \cup verloren \subseteq konten
  /\ currentUser.konto \in konten \cup {Niemand}
  /\ Len(zuletzt) = Len(seiten)
  /\ \A i \in dreht : seiten[i] = "login"
  /\ \A i \in DOMAIN seiten : seiten[i] = "leiste" => i = Len(seiten)
  /\ \A n \in DOMAIN ketten : seiten[ketten[n].seite] = "login"
  /\ app = "laeuft" <=> seiten # <<>>
  /\ app # "laeuft" => schlange = <<>> /\ ketten = <<>> /\ anfragen = <<>>

\* A user who has not confirmed the address is not in the tab bar once the main queue
\* is empty: not by any of the reads and completions on their way when it opens.
LeisteNurBestaetigt ==
  InDerLeiste /\ Ruhe =>
    currentUser = KeinUser \/ currentUser.bestaetigt \/ currentUser.konto \in FacebookKonten

\* Who is in the tab bar has the entry in Users which loadAktuelleBar needs, or it is
\* on its way and seen by this phone already, unless the app ended while it was.
LeisteMitProfil ==
  InDerLeiste /\ Ruhe =>
    currentUser.konto \in profile \cup eintraege \cup verloren \cup {Niemand}

\* The entry is there or on its way, even if the app ended.
LeisteMitEintrag ==
  InDerLeiste /\ Ruhe => currentUser.konto \in profile \cup eintraege \cup {Niemand}

\* Nobody is shown the tab bar without a user, whose uid its pages unwrap.
LeisteMitUser == InDerLeiste => currentUser # KeinUser

\* No unwrap of the current user fails.
KeinAbsturz == app # "abgestuerzt"

Hinein(e) == erfolg # e \/ seiten[Oben] # "login" \/ currentUser = KeinUser

\* Waiters have another app, and the server may not know how some sign in.
Gaeste == (Konten \cup {Niemand}) \ (Kellner \cup OhneAnbieter)

\* A guest who was not signed in, has signed in, stays so and waits on the login
\* page gets to the tab bar.
NeuHinein == (erfolg = "neu" /\ currentUser.konto \in Gaeste) ~> Hinein("neu")

\* So does one who signs in once more.
ErneutHinein == (erfolg = "wieder" /\ currentUser.konto \in Gaeste) ~> Hinein("wieder")

\* The spinner goes: the page is usable again, or the next one opens; unless the
\* page's listener got a user last whom the server may name no provider of.
SpinnerEndet ==
  \A i \in 1..MaxSeiten : (i \in dreht) ~> (i \notin dreht \/ zuletzt[i] \in OhneAnbieter)

\* It goes, whoever the user is.
JederSpinnerEndet == \A i \in 1..MaxSeiten : (i \in dreht) ~> (i \notin dreht)

\* A new password leads back to the login, for signing in again.
NeuesPasswortZumLogin == (passwort.schritt = "reauth") ~> (app = "laeuft" /\ ~InDerLeiste)
=============================================================================
