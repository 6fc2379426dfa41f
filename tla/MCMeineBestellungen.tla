------------------------ MODULE MCMeineBestellungen ------------------------
(***************************************************************************)
(* One guest and two bars for model-checking MeineBestellungen.            *)
(***************************************************************************)
EXTENDS MeineBestellungen, MCBestellungSenden

MCIch == {"anna"}
MCZweiBars == {"bar", "cafe"}
MCSchluesselfolge == << "Drinks", "Klassik", "Shisha" >>
\* The first line of Runde, with its extra; and both lines.
MCEine == {<<Runde[1]>>}
MCRunde == {Runde}
MCEinNeustart == [g \in MCIch |-> 1]
MCKeinNeustart == [g \in MCIch |-> 0]
============================================================================
