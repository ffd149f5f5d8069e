------------------------------ MODULE MarkerTable ------------------------------
(***************************************************************************)
(* What a container's conversion table promises, without requests: it only *)
(* grows, every new marker takes the next index of its label, and a value  *)
(* that has a marker gets no second one, unless two requests raced.        *)
(***************************************************************************)
EXTENDS Integers

CONSTANTS Values, LabelOf

VARIABLES
  table,  \* the entries: a value and the index of its marker
  raced   \* two requests have been allocating under one label at once

vars == <<table, raced>>

Init == table = {} /\ raced = FALSE

Peers(v) == {e \in table : LabelOf[e.value] = LabelOf[v]}

\* n comes after every index of v's label, and leaves no gap.
IsNext(v, n) ==
  /\ n = 1 \/ \E e \in Peers(v) : e.index = n - 1
  /\ \A e \in Peers(v) : e.index < n

Allocate(v, n) ==
  /\ IsNext(v, n)
  /\ raced \/ \A e \in table : e.value # v
  /\ table' = table \cup {[value |-> v, index |-> n]}
  /\ UNCHANGED raced

Race == raced' = TRUE /\ UNCHANGED table

Next ==
  \/ \E v \in Values : \E n \in {1} \cup {e.index + 1 : e \in table} : Allocate(v, n)
  \/ Race

Spec == Init /\ [][Next]_vars

=============================================================================
