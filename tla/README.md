# SMOLO: ordering at a bar, in TLA+

SMOLO is an iOS app (Swift, `src/Alpha/SMOLO`) for guests of (shisha) bars. A
guest scans the QR code on the table, composes an order from the bar's menu,
reviews it, sends it to a Firebase database, follows it under "my orders" and
rates it; a drawer over a map browses the bars, and there are login,
registration and settings. `src/Alpha/Pods` and `src/Alpha/functions/node_modules`
are vendored, the tests are empty templates, and there is no other
documentation: what a piece of code is for is told by its names, its texts, its
comments and the storyboard.

The German names of the code are kept in the modules.

## Inventory

| Component | State it keeps | Operations | Hard behaviour | What makes it correct |
|---|---|---|---|---|
| **Cart** `scanner/BestellungVC2`, cells `BestellenCell(2)`, `ExtrasCell` | ten parallel arrays of the order, the popup's counter, label, comment, chosen extras (two parallel lists), a dictionary for the overview | open popup, plus/minus, comment, extras, add, cancel, open the overview, leave | parallel arrays; state of the popup that outlives it; indices of the cell rendered last | arrays aligned; each line is what the guest chose |
| **Order overview** `scanner/BestellungÜbersichtVC`, cells `MyBestellungCell(2)`, `BestellungAbschickenVC` | its own copy of the ten arrays, and the dictionary that is shown and sent | remove, plus, minus, edit a comment, back, send (with an alert), pop when emptied | two copies updated by different code; a pop half a second later; an alert that outlives its overview; a cell edited while its line moves | both copies agree; nothing lost or doubled on the way back; sent once, and as shown |
| **Menu loading** `BestellungVC2` 315-435, `pulley/SpeisekarteVC` 130-241 | menu dictionaries per Kategorie, sections | one asynchronous read per Kategorie, a counting barrier | answers in any order; a Kategorie that never answers | sections fit together; the menu appears |
| **Order sending** `handleBestellung` 268-332 | database: `Bestellungen`, `userBestellungen`, `Users` | a dozen separate updates per order | not atomic; readers in between; the app ends half-way | what a waiter can read is a complete order |
| **Total price** `BestellungÜbersichtVC` 522-556, `MeineBestellungVC` 630-663 | three flat lists of prices and quantities | recomputed from `cellForRowAt` | lists are only cleared when the view loads; extras and items paired by position | the price shown is that of the order |
| **QR scanner** `scanner/QRScanner` | bar, table, waiter, position, capture session | scan, two reads, location callback, segue | asynchronous answers of two scans mix; a stopped session | a guest orders at the table scanned, near the bar |
| **My orders** `User/MeineBestellungVC`, cells `KellnerCell*` | order dictionaries by id, counters | read keys, read each order, barrier | answers in any order into parallel dictionaries | each order shown with its own items |
| **Rating** `User/BewertungVC` | headings and ratings by Kategorie | chained reads | pairing by order of arrival | ratings land on what was ordered |
| **Login, registration, settings** `User/LoginVC`, `RegistrierungVC`, `EinstellungenVC`, `AppDelegate` | current user, alerts, the user's record | sign in (email, Facebook), register, verify, reset, change password, log out, delete | a state listener and button handlers act on the same event; account and record are created one after the other | every signed-in user has a record; unverified users do not get in |
| **Bar browser** `pulley/DrawerVC`, `LocationVC`, `DetailVC` | list of bars, annotations | read bars, geocode, filter, select | asynchronous answers paired with bars | the bar opened is the one tapped |
| **Voting** `votevc` | vote counters | plus/minus, submit | read, change, write back | one vote per guest |
| `functions/index.js` | none | none | it is the unedited template | |

**How they interact.** The scanner pushes a page view with the cart and passes it
bar, table and waiter. The cart pushes the overview, copying the ten arrays and
the dictionary in `prepare(for:)`; the overview writes its arrays back into the
cart in `willMove(toParent:)` and presents the "sent" screen, which pops to the
scanner. Sending and "my orders" meet only in the database. Almost all code
runs on the main queue: interleaving is between *handlers* (touches, timers,
answers of the database, location updates), each of which runs to its end.

## Plan

Order of work, most important first; what exists is marked.

1. **Cart and overview** (this is where an order is made or lost): `Bestellfelder`
   (the arrays as pure operators), `Bestellung` (both view controllers),
   `Bestellliste` (what they promise), `MCBestellung`, and the proofs. *Done.*
2. **`BestellungSenden`**: the updates of `handleBestellung` as single steps, readers and
   the end of the app between them; `Bestelleingang`: an order that appears at once. *Done.*
3. **`SpeisekarteLaden`**: the barrier over the answers; liveness of showing the menu;
   its proofs. *Done.*
4. **`BestellungLesen`**, **`MeineBestellungen`**: the reader of what 2 writes, composed with 2. *Done.*
5. **`Gesamtpreis`**: the flat lists, against a sum over the order. *Done.*
6. **`QRScanner`**: scans with delayed answers; its proofs. *Done.*
7. **`Anmeldung`**: listeners and handlers, account and record. *Done.*

Voting, rating and the bar browser have no module; the last section says why.

The safety of the cart, of loading the menu, of sending, of the scanner and of signing in is proved, and so are
both refinements. So is that the guest's list shows orders as they
were sent, and all of them; that the names of extras stay at their line and the prices with them, and that
the list does not crash, as long as orders are of a shape the reader copes with; and that the first total is right.
With that, every invariant that a run checks is proved, two of them under that condition on the orders.

## Modules

### Bestellfelder
The ten arrays of `BestellungVC2` (lines 43-52) and their operations, as pure
operators. The seven three-level arrays (`ItemsNamen` ... `ExtrasPreise`) are
treated alike by the code and so are one function from their names
(`Felder`) to sequences of sequences of sequences. `MitZeile` is
`bestellungaktualisieren` with its three branches; `Sections` the loop of `bestellungPrüfen`,
which finds each Kategorie by `firstIndex(of:)`; `OhneUnterkategorie`, `OhneKategorie`,
`ZeilenOhne` and `SectionOhneUnterkategorie` the branches of `passItemEntfernen`, which
shortens arrays and dictionary by different code. Then the shape of these
values (`IstBestellung`) and what it means that they fit together (`Ausgerichtet`, `Eindeutig`,
`OhneLeere`).

### Bestellung
The two view controllers and their cells, from the menu to `handleBestellung`.

| Variable | Code |
|---|---|
| `ansicht` | what is on top: menu, popup, extras table, overview, alert, "sent" screen, or nothing after a crash |
| `entwurf` | `i`, `itemCountLbl`, the labels of the popup, `extrasNamen`, `extrasPreise`, `ExtrasHinzufügenBtn.isHidden` |
| `bestellung`, `dictionaryVC2` | the ten arrays and `bestellteItemsDictionary` of `BestellungVC2` |
| `uebersichtOffen`, `uebersicht`, `dictionary` | the overview on the stack, its arrays and dictionary |
| `bearbeitet` | the cell whose comment has the focus, with the indices it was built with |
| `popGeplant` | the `asyncAfter` of `passItemEntfernen` (213) |
| `gesendet` | the dictionaries handed to `handleBestellung` since the last scan |

One action per handler, each atomic because all run on the main queue. Decisions
a reader should know:

- `pass` looks an item up in `sections[cellIndexPathSection]`, the section whose
  cell UIKit asked for last (772). Which that is depends on scrolling, so the
  model takes any section; a subscript out of range is a trap, and the app and
  all it held are gone (`Absturz`).
- `numberOfRowsInSection` (610-629) overwrites the count of the extras table with 1, so
  only the first extra of a Kategorie can be selected (`selectExtra`). A line can
  still get two: those of a cancelled item stay selected.
- The extras table covers the popup and the popup the menu; touches during
  animations hit `visualEffectView`. So resetting the comment and closing the
  popup are one step.
- `prepare(for:)` clears the cart's own dictionary after copying it. The push calls
  `willMove(toParent:)` of the new overview, which writes the arrays back
  unchanged; the pop calls it again with `nil` and the changed ones.
- The timer pops whatever is on top. With the alert open it pops the overview
  underneath; the alert keeps the overview alive, and confirming it then sends
  the (empty) dictionary without a segue. Once the overview was popped the timer does nothing.
- Editing a comment disables the back button, and the keyboard covers the button
  that sends. The cell keeps its old indices if a line is removed meanwhile; the
  text then goes to another line or past the end. UIKit ends the editing at
  some moment at or after `reloadData`; the model leaves the moment open.
- An order may be sent after the alert as often as the code permits: `gesendet`
  records every hand-over, and nothing in the model forbids a second one.

Not in this module: the database writes (`BestellungSenden`), the total price
(`Gesamtpreis`), loading the menu (`SpeisekarteLaden`; here `Speisekarte` is a constant),
Zusatzstoffe and folding of sections (display only).

### Bestellliste
What composing an order promises: one list of lines under each Kategorie and
Unterkategorie; adding appends, removing removes one, quantities change by one
and stay positive, sending hands over the list as it stands. `Bestellung` maps to it
by `Liste`, reading the overview's arrays while that is open and the cart's
otherwise, so a hand-over in either direction has to be a stutter. Comments are
left out: the code does not keep them (`Bestellung_kommentar.cfg`).

### MCBestellung
Two small menus and the extras for TLC.

### BestellungSenden
What happens after `Bestellung` hands a dictionary to `handleBestellung` (268-332 of the
overview): the updates of the order in the code's order, from `Users/.../akutelleBar` (279)
to the entry in the waiter's list (330).

| Variable | Code |
|---|---|
| `schlange` | the writes of a phone that Firebase holds in memory until the server has acknowledged them |
| `datenbank` | the tree of `Bestellungen`, `userBestellungen` and `Users`, as a function from nodes to their fields |
| `auftraege` | what was handed over, by which guest, at which bar (only read by properties) |
| `neustarts` | how often the app of a guest ended (a bound, and what `AuftragKommtAn` excuses) |

`handleBestellung(g, bar, d)` is the whole function: `updateChildValues` only appends to the
queue. Firebase is external: it writes the fields of one node atomically, keeps the
order of a phone's writes (`Bestaetigt`), and sends them again if a connection broke after some
had arrived (`Unbestaetigt`). Nothing in `src/Alpha/SMOLO` enables its persistence, so
`AppBeenden` loses the queue. A reader sees `datenbank` between any two steps; `Gelesen` is
what it finds of an order, with the defaults of `BestellungInfos`.

The items of an order and their extras are found by name in the dictionary
(289, 313); `AuftraegeAssumption` says that the names are distinct and the
arrays fit together (`Versendbar`). That is not taken on trust: the theorem
`UebergibtVersendbares` says that `Bestellung` hands over nothing else.
`KellnerAssumption` says that the waiter is not one of the guests (waiters have another app).
Updates that reach the server are applied at once by `Ueberlagert`: a field gets its last
value among them, all others stay.
Keys of `childByAutoId` are modelled as numbers nobody else has. The table, the time
and the waiter's own app (not in this repository) are left out.

### Bestelleingang
What sending promises a bar: an order appears in the waiter's list in one step and whole,
at most once, and never changes. Several may appear at once after a broken connection.

### MCBestellungSenden
Two orders: three lines in two Unterkategorien, one of them with two extras; and one
line in each of two Kategorien whose Unterkategorien have the same name.

### SpeisekarteLaden
`getKategorien` and `getUnterKategorienItems` of `BestellungVC2` (315-435). One read finds
the Kategorien (`getKategorien`), one more per Kategorie fills its dictionaries, and the
table is built when as many Kategorien have an Unterkategorie as were found (`Barriere`).

| Variable | Code |
|---|---|
| `karten` | the menus the bar has had; it may change its menu between any two reads |
| `Kategorien`, `geladen` | the array of Kategorien, and the dictionaries `Unterkategorien`, `Items`, `Extras` and those that change with them |
| `gefragt`, `antworten` | reads that have not reached the server, and answers on their way |
| `sections`, `status` | what the table shows; before, while and after loading, or a crash |

A read sees the menu of the moment it reaches the server (`Antworten`), and its answer
arrives later and in any order. Inside one answer the children are processed in key order,
with the code's two branches for a first and a later Unterkategorie; a forced unwrap of a
missing dictionary entry is a crash. A Kategorie with nothing but "Extras", or one
removed between the reads, never has an Unterkategorie: the menu then stays hidden, which
is why `KarteErscheint` is stated for Kategorien that stay well-formed only. `SpeisekarteVC` has a copy of this
code without the extras.

### BestellungLesen
The body of `loadBestellungen` of `MeineBestellungVC`: how the tree of one order is turned
back into nested arrays. The code has four branches, for the first and later
Kategorien and Unterkategorien, which differ in when extras are appended and where their
prices are inserted; `Fund` runs them over a snapshot (each loop of the code a recursive function), with `extrasString` and
`extrasPreis` carried from one order to the next as in the code.

### MeineBestellungen
The guest's list of own orders, composed with `BestellungSenden` (it EXTENDS that and `BestellungLesen`, and
its next-state relation has the actions of both): one read finds
`akutelleBar`, a listener the orders with their Status, one more read loads each; the list
is filled when the counts agree. A read gets the nodes below one order (`Baum`), and `Snapshot` orders
them as `DataSnapshot.children` does: by key. Keys of Kategorien and Unterkategorien are names, whose order
is that of `Schluesselfolge`; `SchluesselAssumption` asks that it has all of them, each once.

| Variable | Code |
|---|---|
| `selbesGeraet` | whether the list is on the phone that orders; then it sees updates before the server does |
| `ansicht` | closed, waiting for which read, open, or crashed |
| `aktuelleBar`, `bestellungIDs`, `Bestellungen` | the fields of the view controller |
| `gesehen`, `gefragt` | children the listener was called for; orders whose read is under way |
| `geladen`, `rest` | the dictionaries by order id; `extrasString` and `extrasPreis` |
| `getrennt` | whether the list's phone is offline, and how often it was |

### QRScanner
The first tab: `metadataOutput`, `fetchData`, `distanceCondition`, the alerts and
`prepare`. `fetchData` registers an observer and removes none, so `beobachter` is a sequence
that only grows while the page lives, and every one of them is called again when its bar
changes. What they read and write (`tischnummer`, `barname`, `KellnerID`) belongs to the
page, not to the scan. `code` remembers the last code that was scanned and whether only its
own observer can have been called since (`allein`), and whether the alert about the location
was up then (`standort`), for the properties only. The position and its authorization change at any time; the bar's data change `MaxAenderungen` times.
`seite` includes the pages pushed from here and other tabs, since `viewWillAppear` resets
the fields and starts the session. "Abbrechen" and its like (`Abbrechen`) close an alert and start the
session; "Einstellungen", the other button of the alert about the location (`Einstellungen`), only closes it.
Opening the system's settings leaves the app where it is.

### Gesamtpreis
The three flat lists of the overview and the label: `cellForRowAt` with
`gesamtpreisBerechnen` builds one cell, `teilPreis` pairs items and extras by position; plus, minus and remove reload
the table, and a cell that is scrolled away is built again. The cells of one reload are built from the
top. Prices are whole cents.

### Anmeldung
`LoginVC`, `RegistrierungVC` and the session part of `EinstellungenVC`. Every `LoginVC`
adds a listener to Firebase Auth that is never removed. Told of a new user it asks the database whether that is
a waiter, then the server how the user signs in, and opens the tab bar. The completions of
the buttons act on the session meanwhile. If the server names no provider, or one that is neither
a password nor Facebook, `ProviderAntwort` ends the reads without a task, as 394-426 has no branch
for it; `OhneAnbieter` are the accounts for which that may happen.

Registration (`Registriert`) hands the entry in `Users` to the database as five updates that wait in
the phone's memory (`eintraege`), asks the server for the mail and signs out. The entry is there when the last
update has arrived (`Eingetragen`); what waits when the app ends is gone (`verloren` remembers whose,
for the properties only).

| Variable | Code |
|---|---|
| `konten`, `bestaetigt`, `profile`, `post` | the server: accounts, which are confirmed, entries in `Users`, mails sent |
| `eintraege`, `verloren` | accounts whose entry waits in the phone; those whose entry was waiting when the app ended |
| `currentUser`, `app` | Firebase's user; running, ended or crashed |
| `seiten`, `hinweis`, `dreht` | the presented pages, the alert on top, the spinners |
| `zuletzt`, `schlange` | what each listener was told last; the main queue |
| `ketten`, `anfragen`, `facebook` | the listeners' reads, sign-ins and the Facebook dialog under way |
| `passwort` | the step of `passwortAendern` that is awaited, and the user it was started for, who is captured up to `updatePassword`; afterwards the code asks for the current user (71-72) |
| `erfolg`, `tipps`, `starts` | what `NeuHinein` speaks of; bounded counters |

Firebase Auth is external: it changes `currentUser` and then puts the calls of listeners and
completions on the main queue; a listener is called with the user of that moment unless it
was told of that user before. An alert that is shown while a sign-in is under way keeps `segueToTabBar` from
presenting anything, so forms that are not filled in (`OhneAngaben`) are actions too. The registration page's
Facebook button signs out (`facebookLoginTapped`); what its dialog then finds is not used by anything.

### MC modules
`MCSpeisekarteLaden` has six menus, four of them malformed in one way each; `MCBestellungLesen` generates
every small order and reads one or two of them; `MCMeineBestellungen` has one guest with two bars,
`MCQRScanner` two bars and codes of each kind, `MCGesamtpreis` two orders, and `MCAnmeldung` names accounts.

## Runs

| Run | Bounds, and why they suffice | What it shows |
|---|---|---|
| `felder` | 2 Kategorien, 3 Unterkategorien, 4 items; quantity 2, 3 lines, no sending. Three lines reach every branch of adding and removing with a neighbour left over: a second line in an Unterkategorie, a second Unterkategorie, a second Kategorie, and each of them removed first or last. | `TypeOK`, `ArraysAusgerichtet`, `RubrikenStimmig`, `DictionaryGleichArrays`, `MengenPositiv` |
| `ablauf` | 2 items of 2 Kategorien, an extra for each, a comment; quantity 1, 2 lines, 2 hand-overs, so that a second one is possible | `ExtrasGepaart`, `HoechstensEineBestellung`, and that an emptied overview closes (`LeereUebersichtSchliesst`) |
| `liste` | 2 items; quantity 2, 2 lines, 1 hand-over | `ImplementiertBestellliste` |
| `artikel` | one menu of two sections | refutes `GetippterArtikel` (below) |
| `kellner` | 2 guests at one bar, 2 orders of 2 kinds, the app of one guest ends at most once, 2 updates may arrive before an acknowledgement. Two orders suffice for orders of two guests to interleave and for two of one guest to follow each other; the end of the app falls between any two of their updates. | `TypeOK`, `BeimKellnerVollstaendig`, `KellnerNachGast`, `AuftragKommtAn`, `ImplementiertBestelleingang` |
| `laden` | 6 menus of up to 3 Kategorien, 4 of them malformed; one change of the menu between any two answers | The menu appears whole (`KarteGanz`), with all extras (`ExtrasDabei`), once (`EinmalGebaut`), and it does appear if both menus are well-formed (`KarteErscheint`); only malformed ones crash the app (`KeinAbsturz`) |
| `lesen` | every order of up to 2 Kategorien, Unterkategorien, lines and extras each, alone or before a second one: all four branches, each entered first and again | Items come back to their places (`ItemsRichtig`); names and prices of extras do as long as the fourth branch meets one extra per line (`NamenRichtig`, `PreiseErhalten`) |
| `geraete` | one guest, 2 orders of 2 lines at 2 bars, the list on the ordering phone or another; 1 update unacknowledged, 1 end of the app, 1 disconnection | Orders are listed whole and as sent (`ListeGetreu`, `ExtrasBeiZeile`), once unless the phone reconnected (`NurEinmal`), all of them if they are of one bar (`ListeVollstaendig`, `ListeErscheint`), without a crash (`ListeOhneAbsturz`) |
| `scans` | 5 codes: one of each of 2 bars, one of an unknown bar, no number and no text; 3 scans, 1 change of the bars' data, 1 visit to another tab. Three scans are two observers of earlier codes, of the same or another bar, and the current one; location is refused and allowed at any time. | The camera stands still only for a reason (`StehtNurMitGrund`); a success after a code that was looked up alone is about its bar and table (`EinScanGueltig`); a scan of a code with text ends where the guest sees it (`ScanEndet`), each unless the alert about the location was up |
| `summe` | 2 orders (one with two extras on a line), 3 taps, quantity 3, 1 cell scrolled away | The total is right as long as each cell was built once and each line has one extra (`ErsteSumme`) |
| `anmelden` | 2 accounts, which are symmetric; errors of the server, 2 things under way, 2 taps, 3 pages, 2 starts: two sign-ins overlap on one page or on two, and the app ends between any two steps of them | Whenever the main queue is empty, the entry in `Users` of whoever is in the tab bar has been handed over (`LeisteMitProfil`), and the address is confirmed (`LeisteNurBestaetigt`) |
| `wechsel` | a guest, a waiter, a Facebook user and one of whom the server may name no provider; no errors, 1 thing under way, 2 taps, 3 pages, 2 starts | A guest who signs in gets to the tab bar (`NeuHinein`); every spinner goes away, unless its listener was told of the last user (`SpinnerEndet`) |

What some of these properties leave out, because the code does not provide it:

- `AuftragKommtAn`: an order whose guest's app ended may be lost, and half of it may stay
  in `Bestellungen`; `KellnerNachGast` and `BeimKellnerVollstaendig` say that no list ever names
  such a half to the waiter.
- `ListeVollstaendig` and `ListeErscheint` speak of orders at one bar: an order at another
  bar, or an empty one, keeps the whole list from being filled.
- `LeisteMitProfil` and `LeisteNurBestaetigt` hold between handlers, not while a completion
  and a listener for the same event both wait on the main queue.
- `LeisteMitProfil` excuses entries that were waiting in the phone when the app ended: such a user can
  confirm the address, whose mail does not depend on them, and use the tab bar without an entry.
- `NeuHinein` holds for one thing under way at a time, without errors of the server and for a guest who
  stays on the login page: an alert that is up when the listener's answer comes blocks `segueToTabBar` for good.
  A crash (`Anmeldung_unbestaetigt`) ends the wait, too. Waiters stay on the login page, as do
  users without a known provider.
- `SpinnerEndet` excuses the spinner of a page whose listener was told last of a user without a known provider.
- `ScanEndet` speaks of codes with a text. It and `StehtNurMitGrund` excuse a code scanned behind the alert about the
  location: its own alert cannot be presented, and "Einstellungen" does not start the camera.
- `EinScanGueltig` speaks of codes that are looked up alone.

Deadlock is checked in the runs of `MCBestellung`. All others stop once their
bounded orders, taps, changes or scans are used up, and so does the program when
nobody touches it: their cfgs say `CHECK_DEADLOCK FALSE`.

**Fairness.** Nobody is obliged to tap, scan, order or sign in, and no app need end.
- `Bestellung`: `WF(popNachLeer)`; once scheduled, the main queue runs the timer's block.
  `LeereUebersichtSchliesst` needs no more, since every other way out of the emptied overview also
  closes it or leads to the alert, from where the timer still fires.
- `BestellungSenden`: `WF(Bestaetigt(g))`; Firebase goes on sending what is in a running
  app's queue until it is acknowledged.
- `SpeisekarteLaden`: `WF(Laden)`; `QRScanner`: `WF(Antworten)`. Reads reach the server and are answered.
- `MeineBestellungen`: the list's own reads are answered (`AnsichtWechselt`, `ReadBeantwortet`) and a lost
  connection comes back (`WiederVerbunden`).
- `Anmeldung`: the main queue runs what is on it (`Hauptschlange`), and Firebase answers (`Antworten`), perhaps with an error.

## Divergences

Where the code does something else than its own texts, names or comments say, a
property states what they say and TLC finds a behaviour that violates it. `artikel` is
among the runs; the others are kept as cfgs beside them, to be run on the module named
`MC` plus the first part of the cfg's name (with `-continue`, where a cfg has two properties).

| cfg | Property | What the code does |
|---|---|---|
| `Bestellung_artikel` | `GetippterArtikel` | an item is looked up in the section whose cell was built last, not in the one that was tapped |
| `Bestellung_anzeige` | `AnzeigeGleichZaehler` | open, plus, cancel, open: the popup shows 1 and counts from 2 |
| `Bestellung_extras` | `ExtrasVonEigenerKategorie` | choose milk for a shisha, cancel, add a cola: cola with milk |
| `Bestellung_extras` | `ExtrasHinzufuegbar` | open the extras of drinks (none), later those of shisha: no button |
| `Bestellung_kommentar` | `KommentarGesendet` | edit a comment in the overview, send: the old comment goes out |
| `Bestellung_anzeige` | `KeineLeereBestellung` | remove the last line and send before the pop |
| `BestellungLesen_preise` | `PreiseRichtig` | in the first Unterkategorie names of extras are appended but prices inserted at the front (474, 477): two lines swap them |
| `BestellungLesen_preise` | `ExtrasZuJederZeile` | the fourth branch appends the first extra without waiting for the line's others (296) |
| `MeineBestellungen_neu` | `BestellungErscheint` | an order is added in one update and gets its Status in the next; a list that is open on that phone sees it without Status and never again (112) |
| `MeineBestellungen_bars` | `AktuelleErscheint` | orders of all bars are counted, but only those of the current bar can be read: one at another bar hides all (493) |
| `MeineBestellungen_doppelt` | `JedeEinmal` | whenever the counts agree again all sections are appended again (494) |
| `QRScanner_tisch` | `ErfolgGueltig` | an observer reads the table of a later scan, or 0, and 0 passes the check (162) |
| `QRScanner_tisch` | `StandortBekannt` | the position is unwrapped though nothing has asked for one (207) |
| `QRScanner_bar` | `InDerNaehe` | the limit of 9999999999 metres exceeds the Earth (209) |
| `QRScanner_bar` | `BestellungBeiDerBar` | `prepare` hands over "Huqa", table 10 and one waiter; the scanned values are commented out (234) |
| `QRScanner_einstellungen` | `StehtNurOhneText` | location refused, its alert is up and the camera goes on (106); location allowed, a code is scanned, its alert cannot be presented; "Einstellungen" closes the first alert, and the camera stays stopped (94) |
| `QRScanner_ohnetext` | `JederScanEndet` | after a code without text the session stays stopped (141) |
| `Gesamtpreis_extras` | `SummeMitExtras` | with two extras on a line the second is paired with the next line (549) |
| `Gesamtpreis_aenderung` | `SummeNachAenderung` | after one tap the total contains the order twice (526) |
| `Anmeldung_unbestaetigt` | `KeinAbsturz` | sign in unconfirmed: the completion signs out while the listener still reads, whose answer unwraps the user (`LoginVC` 396) |
| `Anmeldung_eintrag` | `LeisteMitEintrag` | register, and the app ends while the five updates wait in memory (`RegistrierungVC` 221-225); the mail has gone out (54), so confirm and sign in: the tab bar without an entry |
| `Anmeldung_anbieter` | `JederSpinnerEndet` | the server answers without an error but names no provider: no branch removes the spinner (`LoginVC` 394-426) |
| `Anmeldung_erneut` | `ErneutHinein` | after a failed read at the start, signing in again gives the same user, of whom no listener is told: the login page stays |
| `Anmeldung_facebook` | `LeisteMitUser` | an answer to `loginTapped` signs out who has got to the tab bar meanwhile (138) |
| `Anmeldung_passwort` | `NeuesPasswortZumLogin` | if the new password is the old one, an error that is expected does not come and is unwrapped (`EinstellungenVC` 88) |

## Proofs

Checked by TLAPS for every value of the constants that satisfies the named assumptions of the
module: every menu, every set of names, codes, bars, and every bound.

| Module | Theorem | States |
|---|---|---|
| `Bestellung_proofs` | `TypKorrekt` | `Spec => []TypeOK` |
| | `ArraysBleibenAusgerichtet` | `Spec => []ArraysAusgerichtet` |
| | `DictionaryBleibtGleichArrays` | `Spec => []DictionaryGleichArrays` |
| | `MengenBleibenPositiv` | `Spec => []MengenPositiv` |
| | `EineBestellungJeScan` | `Spec => []HoechstensEineBestellung` |
| | `SpecIInv` | the inductive invariant of the first four |
| | `RubrikenBleibenStimmig` | `Spec => []RubrikenStimmig` |
| | `ExtrasBleibenGepaart` | `Spec => []ExtrasGepaart` |
| | `UebergibtVersendbares` | whatever is handed over is `Versendbar`, which `BestellungSenden` assumes |
| | `VerfeinertBestellliste` | `Spec => ImplementiertBestellliste`: cart and overview implement the abstract list |
| `MeineBestellungen_proofs`, sending | `SpecIInv`, `TypKorrekt` | the inductive invariant, `Spec => []TypeOK` |
| | `GastVorKellner` | `Spec => []KellnerNachGast` |
| | `KellnerSiehtAlles` | `Spec => []BeimKellnerVollstaendig` |
| | `VerfeinertBestelleingang` | `Spec => ImplementiertBestelleingang`: orders appear whole, once, for good |
| `SpeisekarteLaden_proofs` | `SpecIInv`, `TypKorrekt` | the inductive invariant, `Spec => []TypeOK` |
| | `KarteEinmalGebaut` | `Spec => EinmalGebaut`, an action property |
| | `KarteImmerGanz` | `Spec => []KarteGanz` |
| | `ExtrasImmerDabei` | `Spec => []ExtrasDabei` |
| | `AbsturzNurFehlerhaft` | `Spec => []KeinAbsturz` |
| `QRScanner_proofs` | `TypKorrekt`, `KameraStehtMitGrund`, `EinScanBleibtGueltig` | `Spec => []` of `TypeOK`, `StehtNurMitGrund`, `EinScanGueltig` |
| `Anmeldung_proofs` | `SpecIInv`, `TypKorrekt` | the inductive invariant, `Spec => []TypeOK` |
| | `NurBestaetigteInDerLeiste` | `Spec => []LeisteNurBestaetigt` |
| | `NurMitProfilInDerLeiste` | `Spec => []LeisteMitProfil` |
| `MeineBestellungen_proofs`, the list | `ListeSpecIInv`, `ListeTypKorrekt` | the inductive invariant, `ListeSpec => []ListeTypeOK` |
| | `NurEinmalGelistet` | `ListeSpec => []NurEinmal` |
| | `ListeZeigtGesendetes` | `ListeSpec => []ListeGetreu` |
| | `ListeZeigtAlles` | `ListeSpec => []ListeVollstaendig` |
| | `ExtrasStehenBeiIhrerZeile` | `ListeSpec => [](HintenEines => ExtrasBeiZeile)` |
| | `ListeStuerztNichtAb` | `ListeSpec => [](HintenEines => ListeOhneAbsturz)` |
| `MCBestellungLesen_proofs` | `ItemsSindRichtig` | `LesenSpec => []ItemsRichtig` |
| | `NamenSindRichtig` | `LesenSpec => []NamenRichtig` |
| | `PreiseBleibenErhalten` | `LesenSpec => []PreiseErhalten` |
| `Gesamtpreis_proofs` | `TypKorrekt`, `ErsteSummeStimmt` | `Spec => []` of `TypeOK`, `ErsteSumme` |

`Bestellfelder_proofs` has the lemmas that several of them rest on: about the ten arrays, about loops and
`FlattenSeq`, and about reading an order back. Proofs of modules that are composed in the program are kept
together, since those of the list use the invariant of sending.

**The order.** `Bestellfelder_proofs` proves what each operation on the arrays preserves. A pair
of arrays is compared level by level (`GleichLang`), so the lemmas about
`Append`, `RemoveAt` and an update at one index are stated for one array
(`Feld`) and reused for all ten; the order as a whole is `Wohlgeformt` (shape and
alignment). `Spiegel(d, b)` says that the section `d[k]` is what the arrays of
`b` hold at `k`, comments aside, and is shown to survive the paired updates of
arrays and dictionary.

`Bestellung_proofs` has one lemma per action, from four named assumptions. The invariant

    IInv == EntwurfInv /\ MenueInv /\ UebersichtInv /\ GesendetInv

is needed because none of the properties is inductive: an action that
shortens the arrays at the dictionary's indices keeps them aligned only if both
agree on how many lines there are; `Sections` copies the k-th section only if no
Kategorie occurs twice, for it looks the name up; a line is well-typed only
if the popup shows an item of the menu whenever it is open, and if the names
and prices of the chosen extras are equally many. Quantities stay positive because
`EntwurfInv` says that the label shows the counter or 1: the quantity is read off
the label, and the line is added only if the counter is not zero.

That an order is sent once needs `VersandInv`: at most one hand-over had lines, none had
before the "sent" screen is there, and the dictionary is empty when no overview is open, so an alert
that outlives its overview has nothing to send. It is inductive on top of `IInv`.

`RubrikInv` adds to it: no Kategorie, and under none an Unterkategorie,
occurs twice or without lines, in either view controller. A heading is removed exactly when its last
line is, in arrays whose lengths `IInv` keeps equal.

`PaareInv` adds: the names and prices chosen in the popup, and those of every line in
the two view controllers, are in step. `Paare(S, T, R)` relates two sequences whose i-th elements are a pair of `R`;
nested three times it is the invariant of the two arrays, and each operation on it is one
lemma. That a name occurs once on a line rests on the popup, which offers an extra for deselection
when its name is selected.

With all of these, a dictionary that is handed over is `Versendbar`: it mirrors arrays that are
aligned, without a heading twice, and with paired extras that have distinct names.

**The order as a list.** `VerfeinertBestellliste` maps every step of `Bestellung` to one of `Bestellliste` or a
stutter. `Liste` puts the lines of arrays under their headings, and one lemma per operation on the
arrays says what it does to the list: a line appended to a list that may be new, one line taken out of
a list, a quantity changed. The mapping reads the overview's arrays while that is open, so the
two hand-overs must be stutters although they change both copies. That needs `OrtInv`: which screens there can be while
the overview is open; that an overview that is shown, or about to be popped, is open; that a pending pop means an
empty dictionary; and that the arrays of the menu are empty under an alert that outlived its overview.

**Sending.** In the first half of `MeineBestellungen_proofs` the invariant of `BestellungSenden`,

    IInv == AuftraegeInv /\ SchlangeInv /\ HerkunftInv /\ Reihenfolge

says that orders are numbered and well-typed; that a phone's queue holds updates of orders that were sent; that every
field of the database has the value that some such update gave it; and
(`Reihenfolge`) that of an order whose entry is in the waiter's list all other updates have arrived, while
of one whose entry is still in a queue each of them has arrived or is before it there; and the same of the
entry in the guest's list and the lines and extras. The last is the heart of it: the
waiter's entry is the last update of an order, a queue arrives in order, and sending a part of it again
changes nothing, since the nodes of two orders, of two lines and of two extras differ. Then what is read of an order is what was sent: a node under it
belongs to exactly one line or extra, found through `firstIndex` because names are distinct. `FlattenSeq`, which puts the
updates in one sequence, is defined by recursion; its elements are found by arguing about the least length for which
a claim fails, which needs only the well-ordering of the naturals for a set (`KleinsteZahl`).
The refinement follows: the waiter's list grows by orders that were not in it, each with the
content that was sent, and what is in it does not change.

**The menu.** In `SpeisekarteLaden_proofs` a Kategorie whose read or answer is under way has
nothing in the dictionaries, so `Barriere`, which compares two counts, holds only when
no read and no answer is left (`BarriereAlle`, by the cardinality of the domain);
from then on nothing can build the table again.

What the dictionaries hold is in `LesenInv`: an answer under way is a Kategorie's children in some
menu the bar has had, and a Kategorie whose answer has come holds what those children are read into. Reading
is a fold over the children, and over the entries of each, written as functions of the number of turns.
`RubrikLesen` carries over these turns that, in a `Lesbar` Kategorie, every Unterkategorie so far has its items
at its own place (a list is opened for the first item of each, so none may be without); `ExtrasLesen`
does so for the extras, which no other child touches. A forced unwrap fails only on a
Kategorie that is not `Lesbar`, or when the barrier opens over one.

**The scanner.** In `QRScanner_proofs` `StehtInv` says why the camera stands when no alert is shown: an answer is awaited,
the code had no text, or it was scanned behind the alert about the location. It is not inductive by itself, since
"Einstellungen" closes that alert: `StandortInv` adds that a stopped camera under it means a code that was scanned behind it.
`AlleinInv` says of a code whose observer is the only one that
was called since: either that observer is the one with an event on its way, the session stands, no alert
is there and the table is the code's (`Ausstehend`), or what is shown is about the code (`Beantwortet`).

**Signing in.** In `Anmeldung_proofs` the completion of a sign-in and the listener for it act on the same user, in either
order. Call a user `Fremd` who must not be in the tab bar: no address confirmed, and not of Facebook. `SitzungInv` says that a
stranger's session either is about to end, because the completion that signs him out is in the main queue (`AbmeldungIn`),
or leads nowhere, because the tab bar is not open and nothing under way opens it (`KommtNichtHinein`). The second
part is what remains after the app ended: Firebase restores the session, but the completion is lost; what protects the tab bar
then is that a listener's reads open it only for a confirmed address or a Facebook account. `KontenInv` says that
whoever has a mail or has confirmed an address had the entry handed to the database (`Eingeschrieben`): completions
that were lost send no mail, and `Registriert` writes both for the same user, whoever that is by then. With
`LeisteNurBestaetigt` that is `NurMitProfilInDerLeiste`. The rest of `IInv` types what is under way: `Aufgaben`, `Lesungen` and `Anfragen`
are sets that depend on the accounts and pages of the state and only grow, so one lemma
carries every sequence over a step that changes another.

**The list.** The second half of `MeineBestellungen_proofs` uses that each step of the composition is a step of
`BestellungSenden` or leaves it alone (`SendenTeil`), so that `IInv` of sending holds, and adds

    ListeInv == GeraetInv /\ GefundenInv /\ AnfangInv /\ TabelleInv

An order is found through an entry in the guest's list, which is an update of an order of this
guest (`EintragMeiner`, from where `HerkunftInv` says the fields come from; an entry of the waiter's is of
no guest); it is found once, because the listener never gets a child again; and it is asked for until its
answer comes. That the table is filled once is not inductive by itself: `TabelleInv` adds that a table with
sections awaits no answer unless the connection was lost, since the counts agree only when everything that was found is
loaded (`AlleGeladenLesen`, by cardinality), and without a loss of the connection nothing is found later.

What the list shows is computed by `Fund`: nested loops over a snapshot, written as functions that are recursive in
the number of turns. `BisNull`, induction up to a number for a set (from the well-ordering of the naturals), carries a
claim from the arrays before the first turn to those after the last, one lemma per loop, up to
`FundLesen`: any snapshot whose keys are distinct is read into its Kategorien, Unterkategorien and lines,
whatever the last order left in `extrasString`, if the code does not trap on the way. The claim for one turn says where
the code's four branches write: `LiesItem` opens a list for a new Kategorie or Unterkategorie exactly
if the arrays are shorter, so no Unterkategorie may be without lines. That is why
`UebergibtVersendbares`, which proves the assumption on the orders of the cart, includes it.

It remains that the snapshot is that of the order as it was sent. The invariant

    ListeTreu == FunktionInv /\ SichtInv /\ GetreuInv

says that what the listener has seen are entries of what has happened on this phone or at the server
(`Geschehenes`), and what is loaded and shown has all lines. An entry of the guest's list comes after the lines
(`Reihenfolge`), so that an answer for an order that was found has all of them (`GelesenGesendet`), even if the
waiter's entry is still on its way; and no other order's update changes them. `Snapshot` is a function
of the nodes under the order (`BaumGleich`), which puts them in the order of the keys.

`ListeVollstaendig` needs `VollInv`: what was found is asked for, loaded, of another bar, or empty. The
barrier compares numbers; when the last answer is loaded they are equal (`AlleGeladenLesen`, both
directions), so that the table is filled then at the latest.

The extras need more, because they pass through `extrasString`, which belongs to the view controller: whatever
one order leaves there is given to the next that is answered. `FundExtras` says when nothing is left: every line
has an extra (the cart puts "keine Extras" where none was chosen, part of `UebergibtVersendbares`), and in a
later Unterkategorie of a later Kategorie exactly one, since the fourth branch makes a list of the first extra
without waiting for the others (296). For such orders each branch appends a line's names to the list of
the line's own Unterkategorie when the last of them has come (`Bereit` and `ExtraZuZeile`, one case per branch).
`HintenEines` says that all orders the list has found are such; the code does not see to it, and
`ExtrasZuJederZeile` of `BestellungLesen_preise` is refuted without it. Under `HintenEines`

    GutInv == HintenEines => ansicht # "abgestuerzt" /\ rest = KeinRest /\ AllesNamenGetreu

is inductive on top of the above: every answer finds the two strings empty, in whichever order answers come,
and leaves them empty. With it no subscript of the reader fails; and when the table is filled, what it unwraps is
there, because the barrier opens only when all that was found is loaded.

**Reading.** `MCBestellungLesen_proofs` proves of orders of any size what the run `lesen` checks of those
up to two by two: an order of every shape is a snapshot (`BestellungIstSnapshot`), so the lemmas apply.
Its invariant `GelesenInv` is that the last order was read with `KeinRest` before it, as long as all have been of
a shape that leaves none. For the prices no copy of the whole argument is needed. Let `pr` give each name
its price. `PreisTreu(pr, z)` says that the arrays of prices have the shape of those of names, with the price of
each name at its place, and that `extrasPreis` has the prices of `extrasString`; every branch keeps that, for snapshots
of any shape (`FundPreise`), since it treats both strings alike, except that the first branch inserts prices at the front
(477) where it appends names. So in the first Unterkategorie of an order the two lists agree only as sets (`Gemischt`),
which is all that `PreiseErhalten` claims there, and `PreiseRichtig` is refuted. With the names known, so are the prices.

**The total.** In `Gesamtpreis_proofs` a cell appends the lines of its section to flat lists that nothing
empties. `AufbauInv` says that, until a cell is built a second time or the order changes, the cells built are those of the
first m sections and the lists are the columns of these sections' lines; afterwards more cells have been built, or are about
to be, than the order has sections, so that the table is never `Frisch` again. `FlattenSeq` of m + 1 sections
is that of m and the next one appended (from `FlattenFunktion`, which gives its recursive function once and for all).
The sums are never computed: with one extra for each line, the list of products that the code adds up is the
list of the prices of the lines, and folds of equal sequences are equal. That the overview opens with at least
one line, and no section without, is an assumption on the orders, which `RubrikenBleibenStimmig` justifies.

**Only model-checked:**

- Every liveness property (`LeereUebersichtSchliesst`, `AuftragKommtAn`, `KarteErscheint`, `ListeErscheint`, `ScanEndet`,
  `NeuHinein`, `SpinnerEndet`): liveness under fairness is beyond the proof system.
- `GetippterArtikel` and the other divergences are refuted by TLC.

## Not modelled, and why

The program is the Swift code of `src/Alpha/SMOLO`. Nearly all other files of the repository are
third-party code (`Pods`, `node_modules`), which is modelled only where the program's behaviour
depends on it: Firebase's queue of updates, its reads and listeners, and its Auth.

- **Rating** (`BewertungVC`): reads the menu and shows stars; what the guest chooses is written
  nowhere, so nothing depends on it. That ratings are matched to headings by the order of the
  answers is listed as a hazard.
- **Bar browser** (`pulley`): display only. Each geocoding answer carries its bar in the closure,
  and nothing is written. `SpeisekarteVC` repeats the loading of `SpeisekarteLaden`.
- **Voting** (`votevc`): nothing creates this view controller; its storyboard identifier is never used.
- **Total price of "my orders"** (`MeineBestellungVC` 630-663): the same computation, from lists that are
  cleared before each cell.
- **Login and settings**: the mail for a forgotten password and the feedback change nothing in the
  app but for their alerts, which are left out; `accLoeschen` writes "Enabled" to a node that nothing reads; what
  registration by Facebook would do after its dialog is commented out.
- **The account tab**: the screen after sending shows it as it was left (`selectedIndex = 2`,
  `BestellungAbschickenVC` 14 and 29), which `MeineBestellungen` covers by leaving the list open.
- Layout, animations, images, map rendering, the torch and the camera's preview, navigation bars,
  folding of sections and text formatting are left out for good; so are
  `Cells/BestellungVC2.swift` (an older copy outside the build), and `handleBestellung` and
  `passKommentarAendern` of `BestellungVC2`, which nothing calls.
