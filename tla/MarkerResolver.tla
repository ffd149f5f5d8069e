---------------------------- MODULE MarkerResolver ----------------------------
(***************************************************************************)
(* The marker table of one container and the requests that allocate in it: *)
(* MarkerResolver.resolve() (containers/marker_resolver.py), called once   *)
(* per placeholder by the promotion of an approved job (promote.py), and   *)
(* once by a manual redaction of a pseudonymized document.                 *)
(*                                                                         *)
(* resolve() is a SELECT of the value, a SELECT of the label's highest     *)
(* index and an INSERT, each a transaction of its own: one step each.  The *)
(* database rejects a second entry with the same marker, not one with the  *)
(* same value.  A value stands for an entity type with a normalised text,  *)
(* a marker for its label and index.                                       *)
(***************************************************************************)
EXTENDS Integers, FiniteSets

CONSTANTS
  Requests,  \* approvals and manual redactions that may be in flight
  Values,    \* (entity_type, normalized_value)
  LabelOf    \* LABEL_FOR_ENTITY_TYPE: the label of each value's entity type

ASSUME LabelOfValues == DOMAIN LabelOf = Values

VARIABLES
  table,   \* container_mapping_entries: [value, index]
  pc,      \* where each request is
  todo,    \* the values it has not resolved yet
  now,     \* the value it is resolving
  number,  \* next_idx, once it is known
  raced    \* history: two requests allocated under one label at once

vars == <<table, pc, todo, now, number, raced>>

PCs ==
  {"idle",
   "resolving",  \* between two calls of resolve()
   "numbering",  \* the value has no entry; the highest index comes next
   "inserting",  \* next_idx is known
   "failed"}     \* resolve() raised: the request ends with HTTP 500

Nothing == "none"

Indices == Nat \ {0}
Entries == [value : Values, index : Indices]

TypeOK ==
  /\ table \in SUBSET Entries
  /\ pc \in [Requests -> PCs]
  /\ todo \in [Requests -> SUBSET Values]
  /\ now \in [Requests -> Values \cup {Nothing}]
  /\ number \in [Requests -> Nat]
  /\ \A r \in Requests : pc[r] \in {"numbering", "inserting"} => now[r] \in Values
  /\ \A r \in Requests : pc[r] = "inserting" => number[r] \in Indices
  /\ raced \in BOOLEAN

Init ==
  /\ table = {}
  /\ pc = [r \in Requests |-> "idle"]
  /\ todo = [r \in Requests |-> {}]
  /\ now = [r \in Requests |-> Nothing]
  /\ number = [r \in Requests |-> 0]
  /\ raced = FALSE

----------------------------------------------------------------------------
(* Helpers *)

\* The entries whose markers carry the label of v.
Peers(v) == {e \in table : LabelOf[e.value] = LabelOf[v]}

\* The requests that have missed a value and not inserted it yet.
Allocating == {r \in Requests : pc[r] \in {"numbering", "inserting"}}

Goto(r, l) == pc' = [pc EXCEPT ![r] = l]

----------------------------------------------------------------------------
(* The requests *)

\* An approval's hook, or a manual redaction, begins with the values it needs.
Begin(r, V) ==
  /\ pc[r] = "idle"
  /\ V # {}
  /\ Goto(r, "resolving")
  /\ todo' = [todo EXCEPT ![r] = V]
  /\ UNCHANGED <<table, now, number, raced>>

\* find_by_normalized() returned None for v.
Miss(r, v) ==
  /\ Goto(r, "numbering")
  /\ now' = [now EXCEPT ![r] = v]
  /\ raced' = (raced \/ \E q \in Allocating : LabelOf[now[q]] = LabelOf[v])
  /\ UNCHANGED <<table, todo, number>>

\* Wrong on purpose (see README, "Mutants"): the value is looked up as it is
\* written, so that another spelling of a known value may be missed.
Lookup_NotNormalised(r) ==
  /\ pc[r] = "resolving"
  /\ \E v \in todo[r] :
       \/ /\ \E e \in table : e.value = v
          /\ todo' = [todo EXCEPT ![r] = @ \ {v}]
          /\ UNCHANGED <<table, pc, now, number, raced>>
       \/ Miss(r, v)

\* find_by_normalized(): no entry, one entry (touched and reused), or two,
\* where scalar_one_or_none() raises.
Lookup(r) ==
  /\ pc[r] = "resolving"
  /\ \E v \in todo[r] :
       LET found == {e \in table : e.value = v}
       IN  \/ /\ found = {}
              /\ Miss(r, v)
           \/ /\ \E e \in found : found = {e}
              /\ todo' = [todo EXCEPT ![r] = @ \ {v}]
              /\ UNCHANGED <<table, pc, now, number, raced>>
           \/ /\ \E e, f \in found : e # f
              /\ Goto(r, "failed")
              /\ UNCHANGED <<table, todo, now, number, raced>>

\* Wrong on purpose: the entries of every label are counted ...
ReadMax_AnyLabel(r) ==
  /\ pc[r] = "numbering" /\ Goto(r, "inserting")
  /\ number' = [number EXCEPT ![r] = 1 + Cardinality(table)]
  /\ UNCHANGED <<table, todo, now, raced>>

\* ... or the highest index is not incremented ...
ReadMax_NotIncremented(r) ==
  /\ pc[r] = "numbering" /\ Goto(r, "inserting")
  /\ \E n \in {1} \cup {e.index : e \in Peers(now[r])} :
       /\ \A e \in Peers(now[r]) : e.index <= n
       /\ number' = [number EXCEPT ![r] = n]
  /\ UNCHANGED <<table, todo, now, raced>>

\* ... or the first index is zero.
ReadMax_FromZero(r) ==
  /\ pc[r] = "numbering" /\ Goto(r, "inserting")
  /\ \E n \in {0} \cup {e.index + 1 : e \in Peers(now[r])} :
       /\ \A e \in Peers(now[r]) : e.index < n
       /\ number' = [number EXCEPT ![r] = n]
  /\ UNCHANGED <<table, todo, now, raced>>

\* max_index_for_label() + 1.
ReadMax(r) ==
  /\ pc[r] = "numbering" /\ Goto(r, "inserting")
  /\ \E n \in {1} \cup {e.index + 1 : e \in Peers(now[r])} :
       /\ \A e \in Peers(now[r]) : e.index < n
       /\ number' = [number EXCEPT ![r] = n]
  /\ UNCHANGED <<table, todo, now, raced>>

AddEntry(r) ==
  /\ table' = table \cup {[value |-> now[r], index |-> number[r]]}
  /\ todo' = [todo EXCEPT ![r] = @ \ {now[r]}]
  /\ Goto(r, "resolving")

\* Wrong on purpose: uq_container_marker is missing.
Insert_Unconstrained(r) ==
  /\ pc[r] = "inserting"
  /\ AddEntry(r)
  /\ UNCHANGED <<now, number, raced>>

\* create(), where the database may find the marker taken.
Insert(r) ==
  /\ pc[r] = "inserting"
  /\ LET taken == \E e \in Peers(now[r]) : e.index = number[r]
     IN  \/ ~taken /\ AddEntry(r)
         \/ taken /\ Goto(r, "failed") /\ UNCHANGED <<table, todo>>
  /\ UNCHANGED <<now, number, raced>>

\* The request is served, has failed, or dies between two transactions.
End(r) ==
  /\ pc[r] # "idle"
  /\ Goto(r, "idle")
  /\ todo' = [todo EXCEPT ![r] = {}]
  /\ now' = [now EXCEPT ![r] = Nothing]
  /\ number' = [number EXCEPT ![r] = 0]
  /\ UNCHANGED <<table, raced>>

Next ==
  \E r \in Requests :
    \/ \E V \in SUBSET Values : Begin(r, V)
    \/ Lookup(r) \/ ReadMax(r) \/ Insert(r) \/ End(r)

Spec == Init /\ [][Next]_vars

----------------------------------------------------------------------------
(* Properties *)

\* Under each label the indices in use are 1 to n, each once, however requests
\* overlap and wherever they die: a stale next_idx is either still the next one
\* or taken, so the unique constraint alone keeps markers apart and gapless.
MarkersAreDense ==
  \A e \in table :
    /\ \A f \in Peers(e.value) : e.index = f.index => e = f
    /\ \A i \in 1 .. e.index : \E f \in Peers(e.value) : f.index = i

\* The comment on the models (db/models.py:189-192): there is at most one
\* entry for each value, and a value seen again reuses its marker.
OneMarkerPerValue == \A e, f \in table : e.value = f.value => e = f

\* It holds as long as no two requests are between their lookup and their
\* insert under the same label at once; requests may overlap otherwise.
OneMarkerUnlessRaced == raced \/ OneMarkerPerValue

\* Short of such a race no request finds its marker taken or a value twice.
ResolvesUnlessRaced == raced \/ \A r \in Requests : pc[r] # "failed"

\* The table is the register the rest of the container relies on.
Register == INSTANCE MarkerTable
ImplementsMarkerTable == Register!Spec

=============================================================================
