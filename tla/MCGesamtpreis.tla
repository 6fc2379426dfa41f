------------------------------- MODULE MCGesamtpreis -------------------------------
(***************************************************************************)
(* Two orders for model-checking Gesamtpreis.                              *)
(***************************************************************************)
EXTENDS Gesamtpreis

Eine(preis, menge, extrasPreise) == [preis |-> preis, menge |-> menge, extrasPreise |-> extrasPreise]

\* Three lines in two sections, with one extra each; with two extras on one line.
MCEinfach == << <<Eine(10, 2, <<1>>), Eine(12, 1, <<0>>)>>, <<Eine(3, 3, <<0>>)>> >>
MCDoppelt == << <<Eine(10, 2, <<1, 2>>)>>, <<Eine(3, 3, <<0>>)>> >>
MCNurEinfach == {MCEinfach}
MCBeide == {MCEinfach, MCDoppelt}
====================================================================================
