----------------------------- MODULE Bestellliste -----------------------------
(***************************************************************************)
(* What composing an order promises, without arrays, screens and copies:   *)
(* one list of lines under each (Kategorie, Unterkategorie). A line is     *)
(* there once it was added and until it is removed or the order is         *)
(* dropped, its quantity changes by one at a time and never reaches zero,  *)
(* and what is sent is the list as it stands. A new scan starts over.      *)
(* (Comments are not promised.)                                            *)
(***************************************************************************)
EXTENDS Integers, SequencesExt

CONSTANTS
  Pfade,      \* pairs <<Kategorie, Unterkategorie>>
  Zeilen      \* lines; each has a quantity ItemsMengen

VARIABLES liste, versandt

vars == <<liste, versandt>>

LeereListe == [p \in Pfade |-> <<>>]

Init == liste = LeereListe /\ versandt = <<>>

Hinzufuegen(p) ==
  /\ liste' \in {[liste EXCEPT ![p] = Append(@, z)] : z \in Zeilen}
  /\ UNCHANGED versandt

Entfernen(p, n) ==
  /\ liste' = [liste EXCEPT ![p] = RemoveAt(@, n)]
  /\ UNCHANGED versandt

Mehr(p, n) ==
  /\ liste' = [liste EXCEPT ![p][n].ItemsMengen = @ + 1]
  /\ UNCHANGED versandt

Weniger(p, n) ==
  /\ liste[p][n].ItemsMengen > 1
  /\ liste' = [liste EXCEPT ![p][n].ItemsMengen = @ - 1]
  /\ UNCHANGED versandt

Absenden ==
  /\ versandt' = Append(versandt, liste)
  /\ UNCHANGED liste

NeuBeginnen ==
  /\ liste' = LeereListe
  /\ versandt' = <<>>

Next ==
  \/ \E p \in Pfade :
       \/ Hinzufuegen(p)
       \/ \E n \in DOMAIN liste[p] : Entfernen(p, n) \/ Mehr(p, n) \/ Weniger(p, n)
  \/ Absenden
  \/ NeuBeginnen

Spec == Init /\ [][Next]_vars
=============================================================================
