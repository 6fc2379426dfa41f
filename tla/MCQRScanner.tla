------------------------------- MODULE MCQRScanner -------------------------------
(***************************************************************************)
(* Two bars with two and one tables for model-checking QRScanner.          *)
(***************************************************************************)
EXTENDS QRScanner, TLC

Zahl(n) == [art |-> "zahl", zahl |-> n]

\* A table of each bar, the first being one too many for the second bar and, after a
\* change, for its own; and a bar that is not there.
MCZahlen == {Zahl(1002), Zahl(2001), Zahl(3001)}
MCCodes ==
  MCZahlen \cup {[art |-> "text", zahl |-> 0], [art |-> "ohneText", zahl |-> 0]}
MCEinCode == {Zahl(1002)}
MCZweiteBar == {Zahl(2001)}
MCMitUndOhneText == MCEinCode \cup {[art |-> "ohneText", zahl |-> 0]}

Bar(name, anzahl, kellner) ==
  [DispName |-> <<name>>, AnzahlQRCodes |-> anzahl, KellnerID |-> kellner]

MCBereich == 1000 :> Bar("Huqa", 2, "k1") @@ 2000 :> Bar("Lounge", 1, "k2")
MCBereichNeu == 1000 :> Bar("Huqa", 1, "k3") @@ 2000 :> Bar("Lounge", 1, "k2")
MCBereiche == {MCBereich}
MCZweiBereiche == {MCBereich, MCBereichNeu}

MCNah == {10}
MCEntfernungen == {10, 20000000}
==================================================================================
