-------------------------- MODULE MarkerResolverProofs --------------------------
(***************************************************************************)
(* What the marker table guarantees for any requests, values and labels:   *)
(* its markers are dense, a value has one marker unless requests raced,    *)
(* and it implements MarkerTable.                                          *)
(***************************************************************************)
EXTENDS MarkerResolver, TLAPS

\* A next_idx in hand was once the next index: it follows one that is in use.
NumberFollows ==
  \A r \in Requests :
    pc[r] = "inserting" =>
      number[r] = 1 \/ \E e \in Peers(now[r]) : e.index = number[r] - 1

\* What a request that has missed its value counts on, short of a race.
MissStands ==
  \A r \in Allocating : \A e \in table : e.value # now[r]

LabelsApart ==
  \A r, q \in Allocating : LabelOf[now[r]] = LabelOf[now[q]] => r = q

NumberIsNext ==
  \A r \in Requests :
    pc[r] = "inserting" => \A e \in Peers(now[r]) : e.index < number[r]

NoneFailed == \A r \in Requests : pc[r] # "failed"

Unraced == MissStands /\ LabelsApart /\ NumberIsNext /\ NoneFailed /\ OneMarkerPerValue

Dense == TypeOK /\ MarkersAreDense /\ NumberFollows

IInv == Dense /\ (raced \/ Unraced)

----------------------------------------------------------------------------
(* Type correctness *)

LEMMA InitTyped == Init => TypeOK
  <1> SUFFICES ASSUME Init PROVE TypeOK
    OBVIOUS
  <1>1. pc \in [Requests -> PCs] /\ \A r \in Requests : pc[r] = "idle"
    BY DEF Init, PCs
  <1>2. now \in [Requests -> Values \cup {Nothing}]
    BY DEF Init
  <1>3. todo \in [Requests -> SUBSET Values] /\ number \in [Requests -> Nat]
    BY DEF Init
  <1>4. table \in SUBSET Entries /\ raced \in BOOLEAN
    BY DEF Init
  <1> QED
    BY <1>1, <1>2, <1>3, <1>4 DEF TypeOK

LEMMA StepTyped == TypeOK /\ [Next]_vars => TypeOK'
  <1> SUFFICES ASSUME TypeOK, [Next]_vars PROVE TypeOK'
    OBVIOUS
  <1> USE DEF TypeOK
  <1>1. ASSUME NEW r \in Requests, NEW V \in SUBSET Values, Begin(r, V) PROVE TypeOK'
    BY <1>1 DEF Begin, Goto, PCs
  <1>2. ASSUME NEW r \in Requests, Lookup(r) PROVE TypeOK'
    <2>1. PICK v \in todo[r] :
            \/ Miss(r, v)
            \/ /\ todo' = [todo EXCEPT ![r] = @ \ {v}]
               /\ UNCHANGED <<table, pc, now, number, raced>>
            \/ Goto(r, "failed") /\ UNCHANGED <<table, todo, now, number, raced>>
      BY <1>2 DEF Lookup
    <2>2. v \in Values
      OBVIOUS
    <2> QED
      BY <2>1, <2>2 DEF Miss, Goto, PCs
  <1>3. ASSUME NEW r \in Requests, ReadMax(r) PROVE TypeOK'
    <2>1. now[r] \in Values /\ \A e \in Peers(now[r]) : e.index \in Nat
      BY <1>3 DEF ReadMax, Peers, Entries, Indices
    <2>2. \A n \in {1} \cup {e.index + 1 : e \in Peers(now[r])} : n \in Indices
      BY <2>1 DEF Indices
    <2> QED
      BY <1>3, <2>1, <2>2 DEF ReadMax, Goto, PCs
  <1>4. ASSUME NEW r \in Requests, Insert(r) PROVE TypeOK'
    BY <1>4 DEF Insert, AddEntry, Goto, PCs, Entries
  <1>5. ASSUME NEW r \in Requests, End(r) PROVE TypeOK'
    BY <1>5 DEF End, Goto, PCs
  <1>6. CASE UNCHANGED vars
    BY <1>6 DEF vars
  <1> QED
    BY <1>1, <1>2, <1>3, <1>4, <1>5, <1>6 DEF Next

\* The state keeps its types, whatever requests do and wherever they die.
THEOREM MarkerTypeCorrect == Spec => []TypeOK
  BY InitTyped, StepTyped, PTL DEF Spec

----------------------------------------------------------------------------
(* Density *)

\* A request that has its number has its value too; a row is well formed.
LEMMA Shapes ==
  ASSUME TypeOK
  PROVE  /\ \A r \in Requests : pc[r] = "inserting" => number[r] \in Nat /\ number[r] > 0
         /\ \A e \in table : e.index \in Nat /\ e.index > 0
  BY DEF TypeOK, Entries, Indices

\* A number that follows one in use and is not taken exceeds them all.
LEMMA FreeIsNext ==
  ASSUME Dense, NEW r \in Requests, pc[r] = "inserting",
         ~ \E e \in Peers(now[r]) : e.index = number[r]
  PROVE  \A e \in Peers(now[r]) : e.index < number[r]
  <1> SUFFICES ASSUME NEW e \in Peers(now[r]), ~ e.index < number[r] PROVE FALSE
    OBVIOUS
  <1>1. /\ e \in table /\ LabelOf[e.value] = LabelOf[now[r]]
        /\ e.index \in Nat /\ number[r] \in Nat /\ number[r] > 0
    BY Shapes DEF Peers, Dense
  <1>2. number[r] \in 1 .. e.index
    BY <1>1
  <1>3. PICK f \in Peers(e.value) : f.index = number[r]
    BY <1>1, <1>2 DEF Dense, MarkersAreDense
  <1> QED
    BY <1>1, <1>3 DEF Peers

\* Steps that leave the table alone and give nobody a number.
LEMMA DenseKept ==
  ASSUME Dense, TypeOK', UNCHANGED table,
         \A q \in Requests : pc'[q] = "inserting" =>
            pc[q] = "inserting" /\ now'[q] = now[q] /\ number'[q] = number[q]
  PROVE  Dense'
  <1>1. MarkersAreDense'
    BY DEF Dense, MarkersAreDense, Peers
  <1>2. NumberFollows'
    BY DEF Dense, NumberFollows, Peers
  <1> QED
    BY <1>1, <1>2 DEF Dense

\* The insert of a free number.
LEMMA DenseGrows ==
  ASSUME Dense, TypeOK', NEW r \in Requests, pc[r] = "inserting", AddEntry(r),
         ~ \E e \in Peers(now[r]) : e.index = number[r],
         UNCHANGED <<now, number>>
  PROVE  Dense'
  <1> DEFINE x == [value |-> now[r], index |-> number[r]]
  <1>1. /\ table' = table \cup {x} /\ x.value = now[r] /\ x.index = number[r]
        /\ number[r] \in Nat /\ number[r] > 0
    BY Shapes DEF AddEntry, Dense
  <1>2. \A v : Peers(v)' = Peers(v) \cup {y \in {x} : LabelOf[now[r]] = LabelOf[v]}
    BY <1>1 DEF Peers
  <1>3. ASSUME NEW e \in table', NEW f \in Peers(e.value)', e.index = f.index PROVE e = f
    <2>1. CASE e \in table /\ f \in table
      BY <1>3, <2>1 DEF Dense, MarkersAreDense, Peers
    <2>2. CASE e = x /\ f \in table
      BY <1>1, <1>3, <2>2 DEF Peers
    <2>3. CASE e \in table /\ f = x
      BY <1>1, <1>3, <2>3 DEF Peers
    <2> QED
      BY <1>1, <1>2, <2>1, <2>2, <2>3 DEF Peers
  <1>4. ASSUME NEW e \in table', NEW i \in 1 .. e.index
        PROVE  \E f \in Peers(e.value)' : f.index = i
    <2>1. CASE e \in table
      BY <1>2, <2>1 DEF Dense, MarkersAreDense
    <2>2. CASE e = x /\ i = number[r]
      BY <1>1, <1>2, <2>2
    <2>3. CASE e = x /\ i # number[r]
      <3>1. i \in Nat /\ i > 0 /\ i <= number[r] - 1 /\ number[r] # 1
        BY <1>1, <2>3
      <3>2. PICK d \in Peers(now[r]) : d.index = number[r] - 1
        BY <3>1 DEF Dense, NumberFollows
      <3>3. i \in 1 .. d.index /\ d \in table /\ LabelOf[d.value] = LabelOf[now[r]]
        BY <1>1, <3>1, <3>2 DEF Peers
      <3>4. PICK f \in Peers(d.value) : f.index = i
        BY <3>3 DEF Dense, MarkersAreDense
      <3> QED
        BY <1>1, <1>2, <2>3, <3>3, <3>4 DEF Peers
    <2> QED
      BY <1>1, <2>1, <2>2, <2>3
  <1>5. MarkersAreDense'
    BY <1>3, <1>4 DEF MarkersAreDense
  <1>6. NumberFollows'
    <2>1. \A q \in Requests : pc'[q] = "inserting" => pc[q] = "inserting"
      BY DEF AddEntry, Goto, Dense, TypeOK
    <2> QED
      BY <1>2, <2>1 DEF Dense, NumberFollows
  <1> QED
    BY <1>5, <1>6 DEF Dense

LEMMA InitDense == Init => Dense
  <1> SUFFICES ASSUME Init PROVE Dense
    OBVIOUS
  <1>1. MarkersAreDense
    BY DEF Init, MarkersAreDense
  <1>2. NumberFollows
    BY DEF Init, NumberFollows
  <1> QED
    BY <1>1, <1>2, InitTyped DEF Dense

LEMMA StepDense == Dense /\ [Next]_vars => Dense'
  <1> SUFFICES ASSUME Dense, [Next]_vars PROVE Dense'
    OBVIOUS
  <1>t. TypeOK /\ TypeOK'
    BY StepTyped DEF Dense
  <1>1. ASSUME NEW r \in Requests, NEW V \in SUBSET Values, Begin(r, V) PROVE Dense'
    BY <1>t, <1>1, DenseKept DEF Begin, Goto, TypeOK
  <1>2. ASSUME NEW r \in Requests, Lookup(r) PROVE Dense'
    <2>1. UNCHANGED table /\ pc[r] = "resolving"
      BY <1>2 DEF Lookup, Miss
    <2>2. \A q \in Requests :
            pc'[q] = "inserting" => q # r /\ pc[q] = "inserting" /\ now'[q] = now[q]
      BY <1>t, <1>2 DEF Lookup, Miss, Goto, TypeOK
    <2>3. UNCHANGED number
      BY <1>2 DEF Lookup, Miss
    <2> QED
      BY <1>t, <2>1, <2>2, <2>3, DenseKept
  <1>3. ASSUME NEW r \in Requests, ReadMax(r) PROVE Dense'
    <2>1. UNCHANGED <<table, now>>
      BY <1>3 DEF ReadMax
    <2>2. \A q \in Requests \ {r} : pc'[q] = pc[q] /\ number'[q] = number[q]
      BY <1>t, <1>3 DEF ReadMax, Goto, TypeOK
    <2>3. number'[r] = 1 \/ \E e \in Peers(now[r]) : e.index = number'[r] - 1
      <3>1. \A e \in Peers(now[r]) : e.index \in Nat
        BY <1>t, Shapes DEF Peers
      <3> QED
        BY <1>t, <1>3, <3>1 DEF ReadMax, TypeOK
    <2>4. MarkersAreDense'
      BY <2>1 DEF Dense, MarkersAreDense, Peers
    <2>5. NumberFollows'
      BY <2>1, <2>2, <2>3 DEF Dense, NumberFollows, Peers
    <2> QED
      BY <1>t, <2>4, <2>5 DEF Dense
  <1>4. ASSUME NEW r \in Requests, Insert(r) PROVE Dense'
    <2>1. CASE \E e \in Peers(now[r]) : e.index = number[r]
      BY <1>t, <1>4, <2>1, DenseKept DEF Insert, Goto, TypeOK
    <2>2. CASE ~ \E e \in Peers(now[r]) : e.index = number[r]
      BY <1>t, <1>4, <2>2, DenseGrows DEF Insert
    <2> QED
      BY <2>1, <2>2
  <1>5. ASSUME NEW r \in Requests, End(r) PROVE Dense'
    BY <1>t, <1>5, DenseKept DEF End, Goto, TypeOK
  <1>6. CASE UNCHANGED vars
    BY <1>t, <1>6, DenseKept DEF vars
  <1> QED
    BY <1>1, <1>2, <1>3, <1>4, <1>5, <1>6 DEF Next

\* Under each label the indices are 1 to n, each once, however requests overlap.
THEOREM MarkersStayDense == Spec => []MarkersAreDense
  <1>1. Dense => MarkersAreDense
    BY DEF Dense
  <1> QED
    BY <1>1, InitDense, StepDense, PTL DEF Spec

----------------------------------------------------------------------------
(* Without a race *)

LEMMA InitUnraced == Init => Unraced
  BY DEF Init, Unraced, MissStands, LabelsApart, NumberIsNext, NoneFailed,
         OneMarkerPerValue, Allocating

\* Steps that leave the table alone and make nobody allocate or fail.
LEMMA UnracedKept ==
  ASSUME Unraced, UNCHANGED table,
         \A q \in Requests : pc'[q] # "failed" \/ pc[q] = "failed",
         \A q \in Requests :
           pc'[q] \in {"numbering", "inserting"} =>
             pc'[q] = pc[q] /\ now'[q] = now[q] /\ number'[q] = number[q]
  PROVE  Unraced'
  <1>1. \A q \in Allocating' : q \in Allocating /\ now'[q] = now[q]
    BY DEF Allocating
  <1>2. MissStands' /\ LabelsApart'
    BY <1>1 DEF Unraced, MissStands, LabelsApart
  <1>3. NumberIsNext'
    BY DEF Unraced, NumberIsNext, Peers
  <1>4. NoneFailed' /\ OneMarkerPerValue'
    BY DEF Unraced, NoneFailed, OneMarkerPerValue
  <1> QED
    BY <1>2, <1>3, <1>4 DEF Unraced

\* A miss that does not race.
LEMMA UnracedMiss ==
  ASSUME TypeOK, Unraced, NEW r \in Requests, NEW v \in Values,
         pc[r] = "resolving", \A e \in table : e.value # v, Miss(r, v), ~raced'
  PROVE  Unraced'
  <1>1. /\ pc' = [pc EXCEPT ![r] = "numbering"] /\ now' = [now EXCEPT ![r] = v]
        /\ UNCHANGED <<table, number>>
        /\ \A q \in Allocating : LabelOf[now[q]] # LabelOf[v]
    BY DEF Miss, Goto
  <1>2. \A q \in Allocating' : q # r => q \in Allocating /\ now'[q] = now[q]
    BY <1>1 DEF Allocating, TypeOK
  <1>3. now'[r] = v /\ pc'[r] = "numbering"
    BY <1>1 DEF TypeOK
  <1>4. MissStands'
    BY <1>1, <1>2, <1>3 DEF Unraced, MissStands
  <1>5. LabelsApart'
    BY <1>1, <1>2, <1>3 DEF Unraced, LabelsApart
  <1>6. NumberIsNext' /\ NoneFailed'
    BY <1>1 DEF Unraced, NumberIsNext, NoneFailed, Peers, TypeOK
  <1>7. OneMarkerPerValue'
    BY <1>1 DEF Unraced, OneMarkerPerValue
  <1> QED
    BY <1>4, <1>5, <1>6, <1>7 DEF Unraced

\* The highest index is read.
LEMMA UnracedNumber ==
  ASSUME TypeOK, Unraced, NEW r \in Requests, ReadMax(r)
  PROVE  Unraced'
  <1>1. /\ pc[r] = "numbering" /\ pc' = [pc EXCEPT ![r] = "inserting"]
        /\ UNCHANGED <<table, now>>
        /\ \A q \in Requests \ {r} : number'[q] = number[q]
        /\ \A e \in Peers(now[r]) : e.index < number'[r]
    BY DEF ReadMax, Goto, TypeOK
  <1>2. Allocating' = Allocating
    BY <1>1 DEF Allocating, TypeOK
  <1>3. MissStands' /\ LabelsApart'
    BY <1>1, <1>2 DEF Unraced, MissStands, LabelsApart
  <1>4. NumberIsNext'
    BY <1>1 DEF Unraced, NumberIsNext, Peers, TypeOK
  <1>5. NoneFailed' /\ OneMarkerPerValue'
    BY <1>1 DEF Unraced, NoneFailed, OneMarkerPerValue, TypeOK
  <1> QED
    BY <1>3, <1>4, <1>5 DEF Unraced

\* The marker is inserted: nobody else allocates under its label.
LEMMA UnracedInsert ==
  ASSUME TypeOK, Unraced, NEW r \in Requests, Insert(r)
  PROVE  Unraced'
  <1> DEFINE x == [value |-> now[r], index |-> number[r]]
  <1>1. /\ pc[r] = "inserting" /\ now[r] \in Values /\ r \in Allocating
        /\ UNCHANGED <<now, number>>
    BY DEF Insert, Allocating, TypeOK
  <1>2. \A e \in Peers(now[r]) : e.index # number[r]
    <2>1. \A e \in Peers(now[r]) : e.index < number[r] /\ e.index \in Nat
      BY <1>1, Shapes DEF Unraced, NumberIsNext, Peers
    <2> QED
      BY <2>1
  <1>3. /\ table' = table \cup {x} /\ x.value = now[r]
        /\ pc' = [pc EXCEPT ![r] = "resolving"]
    BY <1>2 DEF Insert, AddEntry, Goto
  <1>4. \A q \in Allocating' : /\ q \in Allocating /\ q # r /\ now'[q] = now[q]
                               /\ LabelOf[now[q]] # LabelOf[now[r]]
    BY <1>1, <1>3 DEF Allocating, TypeOK, Unraced, LabelsApart
  <1>5. MissStands'
    BY <1>1, <1>3, <1>4 DEF Unraced, MissStands
  <1>6. LabelsApart'
    BY <1>4 DEF Unraced, LabelsApart
  <1>7. NumberIsNext'
    <2> SUFFICES ASSUME NEW q \in Requests, pc'[q] = "inserting", NEW e \in Peers(now[q])'
                 PROVE  e.index < number[q]
      BY <1>1 DEF NumberIsNext
    <2>1. q \in Allocating' /\ pc[q] = "inserting"
      BY <1>3 DEF Allocating, TypeOK
    <2>2. e \in Peers(now[q])
      BY <1>1, <1>3, <1>4, <2>1 DEF Peers
    <2> QED
      BY <2>1, <2>2 DEF Unraced, NumberIsNext
  <1>8. NoneFailed'
    BY <1>3 DEF Unraced, NoneFailed, TypeOK
  <1>9. OneMarkerPerValue'
    BY <1>1, <1>3 DEF Unraced, OneMarkerPerValue, MissStands
  <1> QED
    BY <1>5, <1>6, <1>7, <1>8, <1>9 DEF Unraced

LEMMA StepUnraced ==
  ASSUME TypeOK, raced \/ Unraced, [Next]_vars
  PROVE  raced' \/ Unraced'
  <1> SUFFICES ASSUME ~raced' PROVE Unraced'
    OBVIOUS
  <1>u. Unraced
    BY DEF Next, vars, Begin, Lookup, Miss, ReadMax, Insert, End, TypeOK
  <1>1. ASSUME NEW r \in Requests, NEW V \in SUBSET Values, Begin(r, V) PROVE Unraced'
    BY <1>u, <1>1, UnracedKept DEF Begin, Goto, TypeOK
  <1>2. ASSUME NEW r \in Requests, Lookup(r) PROVE Unraced'
    <2>1. PICK v \in todo[r] :
            \/ (\A e \in table : e.value # v) /\ Miss(r, v)
            \/ UNCHANGED <<table, pc, now, number>>
            \/ \E e, f \in table : e.value = v /\ f.value = v /\ e # f
      BY <1>2 DEF Lookup
    <2>2. v \in Values /\ pc[r] = "resolving"
      BY <1>2 DEF Lookup, TypeOK
    <2>3. CASE (\A e \in table : e.value # v) /\ Miss(r, v)
      BY <1>u, <2>2, <2>3, UnracedMiss
    <2>4. CASE UNCHANGED <<table, pc, now, number>>
      BY <1>u, <2>4, UnracedKept
    <2>5. ~ \E e, f \in table : e.value = v /\ f.value = v /\ e # f
      BY <1>u DEF Unraced, OneMarkerPerValue
    <2> QED
      BY <2>1, <2>3, <2>4, <2>5
  <1>3. ASSUME NEW r \in Requests, ReadMax(r) PROVE Unraced'
    BY <1>u, <1>3, UnracedNumber
  <1>4. ASSUME NEW r \in Requests, Insert(r) PROVE Unraced'
    BY <1>u, <1>4, UnracedInsert
  <1>5. ASSUME NEW r \in Requests, End(r) PROVE Unraced'
    BY <1>u, <1>5, UnracedKept DEF End, Goto, TypeOK
  <1>6. CASE UNCHANGED vars
    BY <1>u, <1>6, UnracedKept DEF vars
  <1> QED
    BY <1>1, <1>2, <1>3, <1>4, <1>5, <1>6 DEF Next

LEMMA InitInv == Init => IInv
  BY InitDense, InitUnraced DEF IInv

LEMMA StepInv == IInv /\ [Next]_vars => IInv'
  BY StepDense, StepUnraced DEF IInv, Dense

\* A value has one marker as long as no two requests raced under a label.
THEOREM MarkersAreUnique == Spec => []OneMarkerUnlessRaced
  <1>1. IInv => OneMarkerUnlessRaced
    BY DEF IInv, Unraced, OneMarkerUnlessRaced
  <1> QED
    BY <1>1, InitInv, StepInv, PTL DEF Spec

\* Short of such a race no request fails.
THEOREM RequestsResolve == Spec => []ResolvesUnlessRaced
  <1>1. IInv => ResolvesUnlessRaced
    BY DEF IInv, Unraced, NoneFailed, ResolvesUnlessRaced
  <1> QED
    BY <1>1, InitInv, StepInv, PTL DEF Spec

----------------------------------------------------------------------------
(* Refinement *)

\* A step inserts a fresh value under the next index of its label, or begins a
\* race, or does not show.
LEMMA StepRefines == IInv /\ [Next]_vars => [Register!Next]_(Register!vars)
  <1> SUFFICES ASSUME IInv, [Next]_vars
               PROVE  Register!Next \/ UNCHANGED <<table, raced>>
    BY DEF Register!vars
  <1>t. TypeOK /\ Dense
    BY DEF IInv, Dense
  <1>1. ASSUME NEW r \in Requests, Insert(r)
        PROVE  Register!Next \/ UNCHANGED <<table, raced>>
    <2>1. CASE \E e \in Peers(now[r]) : e.index = number[r]
      BY <1>1, <2>1 DEF Insert
    <2>2. CASE ~ \E e \in Peers(now[r]) : e.index = number[r]
      <3>1. pc[r] = "inserting" /\ now[r] \in Values /\ r \in Allocating
        BY <1>t, <1>1 DEF Insert, TypeOK, Allocating
      <3>2. \A e \in Peers(now[r]) : e.index < number[r]
        BY <1>t, <2>2, <3>1, FreeIsNext
      <3>3. number[r] = 1 \/ \E e \in Peers(now[r]) : e.index = number[r] - 1
        BY <1>t, <3>1 DEF Dense, NumberFollows
      <3>4. Register!IsNext(now[r], number[r])
        BY <3>2, <3>3 DEF Register!IsNext, Register!Peers, Peers
      <3>5. raced \/ \A e \in table : e.value # now[r]
        BY <3>1 DEF IInv, Unraced, MissStands
      <3>6. Register!Allocate(now[r], number[r])
        BY <1>1, <2>2, <3>4, <3>5 DEF Insert, AddEntry, Register!Allocate
      <3>7. number[r] \in {1} \cup {e.index + 1 : e \in table}
        <4>1. /\ \A e \in table : e.index \in Nat
              /\ number[r] \in Nat
          BY <1>t, <3>1, Shapes
        <4> QED
          BY <3>3, <4>1 DEF Peers
      <3> QED
        BY <3>1, <3>6, <3>7 DEF Register!Next
    <2> QED
      BY <2>1, <2>2
  <1>2. ASSUME NEW r \in Requests, Lookup(r)
        PROVE  Register!Next \/ UNCHANGED <<table, raced>>
    <2>1. UNCHANGED table /\ (raced' = raced \/ raced' = TRUE)
      BY <1>t, <1>2 DEF Lookup, Miss, TypeOK
    <2> QED
      BY <2>1 DEF Register!Next, Register!Race
  <1>3. ASSUME NEW r \in Requests,
               (\E V \in SUBSET Values : Begin(r, V)) \/ ReadMax(r) \/ End(r)
        PROVE  UNCHANGED <<table, raced>>
    BY <1>3 DEF Begin, ReadMax, End
  <1> QED
    BY <1>1, <1>2, <1>3 DEF Next, vars

\* The table is the register the rest of the container relies on.
THEOREM ResolverImplementsTable == Spec => ImplementsMarkerTable
  <1>1. Init => Register!Init
    BY DEF Init, Register!Init
  <1> QED
    BY <1>1, InitInv, StepInv, StepRefines, PTL
       DEF Spec, ImplementsMarkerTable, Register!Spec
=============================================================================
