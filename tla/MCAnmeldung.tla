------------------------------ MODULE MCAnmeldung ------------------------------
(***************************************************************************)
(* Small instances of Anmeldung.                                           *)
(***************************************************************************)
EXTENDS Anmeldung, TLC

CONSTANTS anna, bert, kim, fritz, olaf

\* Accounts of the same kind are interchangeable.
MCSymmetrie == Permutations({anna, bert})
=============================================================================
