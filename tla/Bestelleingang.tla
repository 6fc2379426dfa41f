---------------------------- MODULE Bestelleingang ----------------------------
(***************************************************************************)
(* What sending promises a bar: an order appears in the waiter's list at   *)
(* once and as a whole, at most once, and is never changed by what its or  *)
(* another guest does later. (It may fail to appear.)                      *)
(***************************************************************************)
EXTENDS Integers, Sequences

CONSTANT Inhalte        \* what an order may contain

VARIABLES
  gesendet,             \* the contents of the orders sent so far
  eingang               \* number of an order |-> the content the waiter reads

vars == <<gesendet, eingang>>

Init == gesendet = <<>> /\ eingang = <<>>

Senden ==
  /\ \E inhalt \in Inhalte : gesendet' = Append(gesendet, inhalt)
  /\ UNCHANGED eingang

\* (Several, if the connection was broken.)
Erscheinen(N) ==
  /\ N \cap DOMAIN eingang = {}
  /\ eingang' = [m \in DOMAIN eingang \cup N |->
                   IF m \in N THEN gesendet[m] ELSE eingang[m]]
  /\ UNCHANGED gesendet

Next == Senden \/ \E N \in SUBSET (DOMAIN gesendet) : Erscheinen(N)

Spec == Init /\ [][Next]_vars
===============================================================================
