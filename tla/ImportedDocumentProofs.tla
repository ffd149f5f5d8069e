------------------------ MODULE ImportedDocumentProofs ------------------------
(***************************************************************************)
(* What holds of an imported document for any texts, types and number of   *)
(* requests: type correctness, that its files follow its row, that the     *)
(* stored summary is one of the stored text, and that a document whose     *)
(* import was clean restores to the same text for good.                    *)
(***************************************************************************)
EXTENDS ImportedDocument, TextProofs

Labels == {"idle", "uploaded", "created", "extracted", "written", "redacting", "resolved", "read",
           "replaced", "deciding", "deleting", "unlinking", "unlinkingUpload"}
Fields == {"fragment", "type", "marker", "text", "summary", "status"}
Reviewed == {"pending_review", "ready", "rejected"}

\* A request that imports, one that has the document to review, one that has
\* removed the row.
Importing(r) == pc[r] \in {"uploaded", "created", "extracted", "written"}
Reviewing(r) == pc[r] \in {"redacting", "resolved", "read", "replaced", "deciding"}
Removing(r) == pc[r] \in {"unlinking", "unlinkingUpload"}

\* The shape of the requests' variables, and the table's indices have a bound.
Shaped ==
  /\ DOMAIN job = Requests /\ \A r \in Requests : DOMAIN job[r] = Fields
  /\ \A r \in Requests : pc[r] = "redacting" => job[r].type \in Types
  /\ \E n \in Nat : \A e \in table : e.index \in 1 .. n

\* One import is ever made; its row comes after the upload and goes for good.
OneLife ==
  /\ ~imported => /\ status = "none" /\ ~path /\ ~upload /\ ~artefact.there
                  /\ \A r \in Requests : pc[r] = "idle"
  /\ path => Exists
  /\ status \in {"processing", "failed"} => ~path
  /\ \A q, r \in Requests : Importing(q) /\ Importing(r) => q = r
  /\ \A r \in Requests :
       /\ pc[r] = "uploaded" => status = "none" /\ \A q \in Requests \ {r} : pc[q] = "idle"
       /\ pc[r] \in {"created", "extracted", "written"} => status \in {"processing", "none"}
       /\ Reviewing(r) => status \in Reviewed \cup {"none"}
       /\ Removing(r) => status = "none"
       /\ job[r].status # "none" <=> pc[r] = "deciding"

\* The files of a row that exists are there from the step on that writes them.
Backed ==
  /\ Exists \/ (\E r \in Requests : pc[r] = "uploaded") => upload
  /\ status \in Reviewed => path /\ artefact.there
  /\ Exists /\ (\E r \in Requests : pc[r] = "written") => artefact.there

\* Requests that overlap are noticed.
Alone == ~raced => \A q, r \in Requests : pc[q] # "idle" /\ pc[r] # "idle" => q = r

\* As long as none did and none died, each file and row that is not in its
\* final place is in some request's hands.
Tidy ==
  ~raced =>
    /\ status = "processing" => \E r \in Requests : pc[r] \in {"created", "extracted", "written"}
    /\ imported /\ ~Exists => \/ \E r \in Requests : pc[r] = "uploaded" \/ Removing(r)
                              \/ ~upload /\ ~artefact.there
    /\ ~path /\ artefact.there => \E r \in Requests : pc[r] \in {"written", "unlinking"}
    /\ \A r \in Requests :
         /\ pc[r] = "unlinkingUpload" => ~artefact.there
         /\ pc[r] \notin {"idle", "uploaded", "unlinking", "unlinkingUpload"} => Exists

\* The summary on its way into the row, and in it.
Told ==
  /\ \A r \in Requests : pc[r] \in {"extracted", "written"} => Tells(job[r].summary, job[r].text)
  /\ ~raced =>
       /\ path /\ (\A r \in Requests : pc[r] # "replaced") => Tells(summary, artefact.text)
       /\ \A r \in Requests : pc[r] \in {"written", "replaced"} => artefact.text = job[r].text

IInv == TypeOK /\ Shaped /\ OneLife /\ Backed /\ Alone /\ Tidy /\ Told

----------------------------------------------------------------------------
(* The table *)

\* resolve() adds an entry of the type, if any, with an index of its own.
LEMMA TableGrows ==
  ASSUME TypeOK, Shaped, NEW type \in Types, NEW f, table' = table \cup {Resolved(type, f)}
  PROVE  /\ \A e \in table' : e.type \in Types /\ e.index \in Nat \ {0}
         /\ \E n \in Nat : \A e \in table' : e.index \in 1 .. n
  <1>1. PICK n \in Nat : \A e \in table : e.index \in 1 .. n
    BY DEF Shaped
  <1>2. CASE Entry(type, f) # {}
    <2>1. Resolved(type, f) \in table
      BY <1>2 DEF Resolved, Entry
    <2> QED
      BY <1>1, <2>1 DEF TypeOK
  <1>3. CASE Entry(type, f) = {}
    <2> DEFINE used == {0} \cup {e.index : e \in {g \in table : g.type = type}}
    <2>1. used \in SUBSET Nat /\ used # {} /\ \A i \in used : i <= n
      BY <1>1 DEF TypeOK
    <2>2. Max(used) \in Nat
      <3> HIDE DEF used
      <3> QED
        BY <1>1, <2>1, MaxIsGreatest
    <2>3. Resolved(type, f).type = type /\ Resolved(type, f).index = 1 + Max(used)
      BY <1>3 DEF Resolved, NextIndex
    <2> HIDE DEF used
    <2>4. \A e \in table' : e.index \in 1 .. (n + 1 + Max(used))
      BY <1>1, <2>2, <2>3
    <2> QED
      BY <1>1, <2>2, <2>3, <2>4 DEF TypeOK
  <1> QED
    BY <1>2, <1>3

----------------------------------------------------------------------------
(* The steps *)

LEMMA OtherDocumentKeeps ==
  ASSUME IInv, NEW type \in Types, NEW f, OtherDocument(type, f)
  PROVE  IInv'
  <1>1. /\ \A e \in table' : e.type \in Types /\ e.index \in Nat \ {0}
        /\ \E n \in Nat : \A e \in table' : e.index \in 1 .. n
        /\ table \subseteq table'
    BY TableGrows DEF IInv, OtherDocument
  <1>2. TypeOK'
    BY <1>1 DEF IInv, OtherDocument, row, files, history, TypeOK
  <1>3. Shaped'
    BY <1>1 DEF IInv, OtherDocument, Shaped
  <1>4. OneLife'
    BY DEF IInv, OtherDocument, row, files, Importing, Reviewing, Removing, Exists, OneLife
  <1>5. Told'
    BY DEF IInv, OtherDocument, row, files, history, Told, Tells, Known
  <1>6. Backed' /\ Alone' /\ Tidy'
    BY DEF IInv, OtherDocument, row, files, history, Backed, Alone, Tidy, Exists, Removing
  <1> QED
    BY <1>2, <1>3, <1>4, <1>5, <1>6 DEF IInv

LEMMA BeginImportKeeps ==
  ASSUME IInv, NEW r \in Requests, NEW t, BeginImport(r, t)
  PROVE  IInv'
  <1>1. TypeOK'
    BY DEF IInv, BeginImport, Begins, NoJob, row, TypeOK
  <1>2. Shaped'
    BY DEF IInv, BeginImport, Begins, NoJob, Shaped, Fields
  <1>3. OneLife'
    BY DEF IInv, BeginImport, Begins, NoJob, row, Importing, OneLife
  <1>4. Backed'
    BY DEF IInv, BeginImport, Begins, row, Exists, Backed
  <1>5. Alone'
    BY DEF IInv, BeginImport, Begins, OneLife, Alone
  <1>6. Tidy'
    BY DEF IInv, BeginImport, Begins, row, TypeOK, Exists, Tidy
  <1>7. Told'
    BY DEF IInv, BeginImport, Begins, row, TypeOK, Told, Tells, Known
  <1> QED
    BY <1>1, <1>2, <1>3, <1>4, <1>5, <1>6, <1>7 DEF IInv

LEMMA CreateRowKeeps ==
  ASSUME IInv, NEW r \in Requests, CreateRow(r)
  PROVE  IInv'
  <1>1. TypeOK'
    BY DEF IInv, CreateRow, Goto, files, history, TypeOK, Statuses
  <1>2. Shaped'
    BY DEF IInv, CreateRow, Goto, Shaped
  <1>3. OneLife'
    BY DEF IInv, CreateRow, Goto, TypeOK, Importing, Reviewing, Removing, Exists, OneLife
  <1>4. Backed'
    BY DEF IInv, CreateRow, Goto, files, OneLife, Reviewed, Backed
  <1>5. Alone'
    BY DEF IInv, CreateRow, Goto, history, Alone
  <1>6. Tidy'
    BY DEF IInv, CreateRow, Goto, files, history, TypeOK, Exists, Tidy
  <1>7. Told'
    BY DEF IInv, CreateRow, Goto, files, history, Told, Tells, Known
  <1> QED
    BY <1>1, <1>2, <1>3, <1>4, <1>5, <1>6, <1>7 DEF IInv

LEMMA ExtractFailsKeeps ==
  ASSUME IInv, NEW r \in Requests, ExtractFails(r)
  PROVE  IInv'
  <1>1. TypeOK'
    BY DEF IInv, ExtractFails, Ends, NoJob, Goto, files, history, TypeOK, Statuses
  <1>2. Shaped'
    BY DEF IInv, ExtractFails, Ends, NoJob, Goto, Shaped, Fields
  <1>3. OneLife'
    BY DEF IInv, ExtractFails, Ends, NoJob, Goto, TypeOK, Importing, Reviewing, Removing, Reviewed,
           Exists, OneLife
  <1>4. Backed'
    BY DEF IInv, ExtractFails, Ends, Goto, files, Reviewed, Exists, Backed
  <1>5. Alone'
    BY DEF IInv, ExtractFails, Ends, Goto, history, Alone
  <1>6. Tidy'
    BY DEF IInv, ExtractFails, Ends, Goto, files, history, Exists, Tidy
  <1>7. Told'
    BY DEF IInv, ExtractFails, Ends, Goto, files, history, Told, Tells, Known
  <1> QED
    BY <1>1, <1>2, <1>3, <1>4, <1>5, <1>6, <1>7 DEF IInv

LEMMA ExtractKeeps ==
  ASSUME IInv, NEW r \in Requests, Extract(r)
  PROVE  IInv'
  <1>1. TypeOK'
    BY DEF IInv, Extract, Goto, row, files, history, TypeOK
  <1>2. Shaped'
    BY DEF IInv, Extract, Goto, Shaped
  <1>3. OneLife'
    BY DEF IInv, Extract, Goto, row, Importing, Reviewing, Removing, Exists, OneLife
  <1>4. Backed'
    BY DEF IInv, Extract, Goto, row, files, Exists, Backed
  <1>5. Alone'
    BY DEF IInv, Extract, Goto, history, Alone
  <1>6. Tidy'
    BY DEF IInv, Extract, Goto, row, files, history, Exists, Tidy
  <1>7. Told'
    BY DEF IInv, Extract, Goto, row, files, history, Shaped, Told, Tells, Known, Validate
  <1> QED
    BY <1>1, <1>2, <1>3, <1>4, <1>5, <1>6, <1>7 DEF IInv

LEMMA WriteImportKeeps ==
  ASSUME IInv, NEW r \in Requests, WriteImport(r)
  PROVE  IInv'
  <1>1. TypeOK'
    BY DEF IInv, WriteImport, Goto, row, history, TypeOK
  <1>2. Shaped'
    BY DEF IInv, WriteImport, Goto, Shaped
  <1>3. OneLife'
    BY DEF IInv, WriteImport, Goto, row, Importing, Reviewing, Removing, Exists, OneLife
  <1>4. Backed'
    BY DEF IInv, WriteImport, Goto, row, Exists, Backed, File
  <1>5. Alone'
    BY DEF IInv, WriteImport, Goto, history, Alone
  <1>6. Tidy'
    BY DEF IInv, WriteImport, Goto, row, history, TypeOK, Alone, Exists, Tidy
  <1>7. Told'
    BY DEF IInv, WriteImport, Goto, row, history, OneLife, Alone, Exists, Told, Tells, Known, File
  <1> QED
    BY <1>1, <1>2, <1>3, <1>4, <1>5, <1>6, <1>7 DEF IInv

\* The row names a text that is there, with the summary made of it.
LEMMA StoreImportKeeps ==
  ASSUME IInv, NEW r \in Requests, StoreImport(r)
  PROVE  IInv'
  <1>1. TypeOK'
    BY DEF IInv, StoreImport, Ends, NoJob, Goto, row, files, Shaped, TypeOK, Statuses
  <1>2. Shaped'
    BY DEF IInv, StoreImport, Ends, NoJob, Goto, Shaped, Fields
  <1>3. OneLife'
    BY DEF IInv, StoreImport, Ends, NoJob, Goto, row, TypeOK, Importing, Removing, Reviewed, Exists,
           OneLife
  <1>4. Backed'
    BY DEF IInv, StoreImport, Ends, Goto, row, files, Exists, Backed
  <1>5. Alone'
    BY DEF IInv, StoreImport, Ends, Goto, Alone
  <1>6. Tidy'
    BY DEF IInv, StoreImport, Ends, Goto, files, Exists, Tidy
  <1>7. Told'
    BY DEF IInv, StoreImport, Ends, Goto, row, files, TypeOK, Told, Tells, Known
  <1> QED
    BY <1>1, <1>2, <1>3, <1>4, <1>5, <1>6, <1>7 DEF IInv

LEMMA BeginRedactionKeeps ==
  ASSUME IInv, NEW r \in Requests, NEW f, NEW type \in Types, BeginRedaction(r, f, type)
  PROVE  IInv'
  <1>1. TypeOK'
    BY BoundsAreNumbers DEF IInv, BeginRedaction, Begins, NoJob, row, files, TypeOK
  <1>2. Shaped'
    BY DEF IInv, BeginRedaction, Begins, NoJob, Shaped, Fields
  <1>3. OneLife'
    BY DEF IInv, BeginRedaction, Begins, NoJob, row, Importing, Removing, Reviewed, Exists, OneLife
  <1>4. Backed'
    BY DEF IInv, BeginRedaction, row, files, Reviewed, Exists, Backed
  <1>5. Alone'
    BY DEF IInv, BeginRedaction, Begins, TypeOK, OneLife, Alone
  <1>6. Tidy'
    BY DEF IInv, BeginRedaction, Begins, row, files, TypeOK, Exists, Tidy
  <1>7. Told'
    BY DEF IInv, BeginRedaction, Begins, row, files, TypeOK, Told, Tells, Known
  <1> QED
    BY <1>1, <1>2, <1>3, <1>4, <1>5, <1>6, <1>7 DEF IInv

\* The table grows: what was known stays known.
LEMMA ResolveMarkerKeeps ==
  ASSUME IInv, NEW r \in Requests, ResolveMarker(r)
  PROVE  IInv'
  <1>1. /\ \A e \in table' : e.type \in Types /\ e.index \in Nat \ {0}
        /\ \E n \in Nat : \A e \in table' : e.index \in 1 .. n
        /\ table \subseteq table'
    <2>1. job[r].type \in Types /\ table' = table \cup {Resolved(job[r].type, job[r].fragment)}
      BY DEF IInv, Shaped, ResolveMarker
    <2> QED
      BY <2>1, TableGrows DEF IInv
  <1>2. /\ job' = [job EXCEPT ![r].marker = job'[r].marker]
        /\ pc[r] = "redacting" /\ pc' = [pc EXCEPT ![r] = "resolved"]
        /\ UNCHANGED <<container, row, files, imported, edits, first, raced>>
        /\ hit' \in {hit, hit \cup {"spelling"}}
    BY DEF IInv, Shaped, Fields, ResolveMarker, Goto
  <1>3. TypeOK'
    <2>1. pc' \in [Requests -> Labels]
      BY <1>2 DEF IInv, TypeOK, Labels
    <2>2. \A q \in Requests : job'[q].status \in {"none", "ready", "rejected"}
      BY <1>2 DEF IInv, TypeOK, Shaped, Fields
    <2>3. hit' \subseteq {"marker", "spelling"}
      BY <1>2 DEF IInv, TypeOK
    <2> QED
      BY <1>1, <1>2, <2>1, <2>2, <2>3 DEF IInv, TypeOK, row, files, Labels
  <1>4. Shaped'
    BY <1>1, <1>2 DEF IInv, Shaped, Fields
  <1>5. OneLife'
    <2>1. \A q \in Requests : job'[q].status # "none" <=> pc'[q] = "deciding"
      BY <1>2 DEF IInv, TypeOK, Shaped, OneLife, Fields
    <2>2. \A q \in Requests : pc'[q] = pc[q] \/ (q = r /\ pc'[q] = "resolved")
      BY <1>2 DEF IInv, TypeOK
    <2> QED
      BY <1>2, <2>1, <2>2
        DEF IInv, OneLife, Importing, Reviewing, Removing, Reviewed, Exists, row, files
  <1>6. Backed'
    BY <1>2 DEF IInv, row, files, Exists, Backed
  <1>7. Alone'
    BY <1>2 DEF IInv, Alone
  <1>8. Tidy'
    BY <1>2 DEF IInv, row, files, Exists, Tidy
  <1>9. Told'
    BY <1>1, <1>2 DEF IInv, row, files, Shaped, Told, Tells, Known
  <1> QED
    BY <1>3, <1>4, <1>5, <1>6, <1>7, <1>8, <1>9 DEF IInv

LEMMA ReadTextKeeps ==
  ASSUME IInv, NEW r \in Requests, ReadText(r)
  PROVE  IInv'
  <1>1. /\ pc[r] = "resolved" /\ UNCHANGED <<container, table, row, files, imported, edits, first, raced>>
        /\ \/ /\ pc' = [pc EXCEPT ![r] = "read"] /\ hit' \in {hit, hit \cup {"marker"}}
              /\ job' = [job EXCEPT ![r].text = Substitute(artefact.text, job[r].fragment, job[r].marker)]
           \/ /\ pc' = [pc EXCEPT ![r] = "idle"] /\ hit' = hit
              /\ job' = [job EXCEPT ![r] = NoJob]
    BY DEF ReadText, Ends, Goto
  <1>2. TypeOK'
    <2>1. pc' \in [Requests -> Labels]
      BY <1>1 DEF IInv, TypeOK, Labels
    <2>2. \A q \in Requests : job'[q].status \in {"none", "ready", "rejected"}
      BY <1>1 DEF IInv, TypeOK, Shaped, Fields, NoJob
    <2>3. hit' \subseteq {"marker", "spelling"}
      BY <1>1 DEF IInv, TypeOK
    <2> QED
      BY <1>1, <2>1, <2>2, <2>3 DEF IInv, TypeOK, row, files, Labels
  <1>3. Shaped'
    BY <1>1 DEF IInv, NoJob, TypeOK, Shaped, Fields
  <1>4. OneLife'
    <2>1. \A q \in Requests : job'[q].status # "none" <=> pc'[q] = "deciding"
      BY <1>1 DEF IInv, TypeOK, Shaped, OneLife, Fields, NoJob
    <2>2. \A q \in Requests : pc'[q] = pc[q] \/ (q = r /\ pc'[q] \in {"idle", "read"})
      BY <1>1 DEF IInv, TypeOK
    <2> QED
      BY <1>1, <2>1, <2>2
        DEF IInv, OneLife, Importing, Reviewing, Removing, Reviewed, Exists, row, files
  <1>5. Backed'
    BY <1>1 DEF IInv, row, files, TypeOK, Exists, Backed
  <1>6. Alone'
    BY <1>1 DEF IInv, TypeOK, Alone
  <1>7. Tidy'
    BY <1>1 DEF IInv, row, files, TypeOK, Exists, Tidy
  <1>8. Told'
    BY <1>1 DEF IInv, row, files, TypeOK, Shaped, Told, Tells, Known
  <1> QED
    BY <1>2, <1>3, <1>4, <1>5, <1>6, <1>7, <1>8 DEF IInv

LEMMA WriteTextKeeps ==
  ASSUME IInv, NEW r \in Requests, WriteText(r)
  PROVE  IInv'
  <1>1. TypeOK'
    BY DEF IInv, WriteText, Goto, row, history, TypeOK
  <1>2. Shaped'
    BY DEF IInv, WriteText, Goto, Shaped
  <1>3. OneLife'
    BY DEF IInv, WriteText, Goto, row, Importing, Reviewing, Removing, Exists, OneLife
  <1>4. Backed'
    BY DEF IInv, WriteText, Goto, row, Exists, Backed, File
  <1>5. Alone'
    BY DEF IInv, WriteText, Goto, history, Alone
  <1>6. Tidy'
    BY DEF IInv, WriteText, Goto, row, files, history, OneLife, Backed, Reviewing, Exists, Tidy
  <1>7. Told'
    BY DEF IInv, WriteText, Goto, history, TypeOK, Alone, Told, Tells, Known, File
  <1> QED
    BY <1>1, <1>2, <1>3, <1>4, <1>5, <1>6, <1>7 DEF IInv

LEMMA StoreSummaryKeeps ==
  ASSUME IInv, NEW r \in Requests, StoreSummary(r)
  PROVE  IInv'
  <1>1. TypeOK'
    BY DEF IInv, StoreSummary, Ends, NoJob, Goto, files, history, TypeOK
  <1>2. Shaped'
    BY DEF IInv, StoreSummary, Ends, NoJob, Goto, Shaped, Fields
  <1>3. OneLife'
    BY DEF IInv, StoreSummary, Ends, NoJob, Goto, Importing, Reviewing, Removing, Exists, OneLife
  <1>4. Backed'
    BY DEF IInv, StoreSummary, Ends, Goto, files, Exists, Backed
  <1>5. Alone'
    BY DEF IInv, StoreSummary, Ends, Goto, history, Alone
  <1>6. Tidy'
    BY DEF IInv, StoreSummary, Ends, Goto, files, history, Exists, Tidy
  <1>7. Told'
    BY DEF IInv, StoreSummary, Ends, Goto, files, history, TypeOK, OneLife, Told, Tells, Known,
           Validate
  <1> QED
    BY <1>1, <1>2, <1>3, <1>4, <1>5, <1>6, <1>7 DEF IInv

LEMMA BeginDecisionKeeps ==
  ASSUME IInv, NEW r \in Requests, NEW d \in {"ready", "rejected"}, BeginDecision(r, d)
  PROVE  IInv'
  <1>1. TypeOK'
    BY DEF IInv, BeginDecision, Begins, row, files, TypeOK
  <1>2. Shaped'
    BY DEF IInv, BeginDecision, Begins, NoJob, Shaped, Fields
  <1>3. OneLife'
    BY DEF IInv, BeginDecision, Begins, row, TypeOK, Shaped, Importing, Removing, Reviewed, Exists,
           OneLife
  <1>4. Backed'
    BY DEF IInv, BeginDecision, row, files, Reviewed, Exists, Backed
  <1>5. Alone'
    BY DEF IInv, BeginDecision, Begins, TypeOK, OneLife, Alone
  <1>6. Tidy'
    BY DEF IInv, BeginDecision, Begins, row, files, TypeOK, Exists, Tidy
  <1>7. Told'
    BY DEF IInv, BeginDecision, Begins, row, files, TypeOK, Told, Tells, Known
  <1> QED
    BY <1>1, <1>2, <1>3, <1>4, <1>5, <1>6, <1>7 DEF IInv

LEMMA DecideKeeps ==
  ASSUME IInv, NEW r \in Requests, Decide(r)
  PROVE  IInv'
  <1>1. TypeOK'
    BY DEF IInv, Decide, Ends, NoJob, Goto, files, history, TypeOK, Statuses
  <1>2. Shaped'
    BY DEF IInv, Decide, Ends, NoJob, Goto, Shaped, Fields
  <1>3. OneLife'
    BY DEF IInv, Decide, Ends, NoJob, Goto, TypeOK, Shaped, Importing, Reviewing, Removing,
           Reviewed, Exists, OneLife
  <1>4. Backed'
    BY DEF IInv, Decide, Ends, Goto, files, OneLife, Reviewing, Exists, Backed
  <1>5. Alone'
    BY DEF IInv, Decide, Ends, Goto, history, Alone
  <1>6. Tidy'
    BY DEF IInv, Decide, Ends, Goto, files, history, TypeOK, OneLife, Exists, Tidy
  <1>7. Told'
    BY DEF IInv, Decide, Ends, Goto, files, history, Told, Tells, Known
  <1> QED
    BY <1>1, <1>2, <1>3, <1>4, <1>5, <1>6, <1>7 DEF IInv

LEMMA BeginDeleteKeeps ==
  ASSUME IInv, NEW r \in Requests, BeginDelete(r)
  PROVE  IInv'
  <1>1. TypeOK'
    BY DEF IInv, BeginDelete, Begins, NoJob, row, files, TypeOK
  <1>2. Shaped'
    BY DEF IInv, BeginDelete, Begins, NoJob, Shaped, Fields
  <1>3. OneLife'
    BY DEF IInv, BeginDelete, Begins, NoJob, row, Importing, Reviewing, Removing, Exists, OneLife
  <1>4. Backed'
    BY DEF IInv, BeginDelete, Begins, row, files, Backed
  <1>5. Alone'
    BY DEF IInv, BeginDelete, Begins, TypeOK, OneLife, Alone
  <1>6. Tidy'
    BY DEF IInv, BeginDelete, Begins, row, files, TypeOK, Exists, Tidy
  <1>7. Told'
    BY DEF IInv, BeginDelete, Begins, row, files, TypeOK, Told, Tells, Known
  <1> QED
    BY <1>1, <1>2, <1>3, <1>4, <1>5, <1>6, <1>7 DEF IInv

LEMMA DeleteRowKeeps ==
  ASSUME IInv, NEW r \in Requests, DeleteRow(r)
  PROVE  IInv'
  <1>1. /\ pc[r] = "deleting" /\ UNCHANGED <<container, table, files, imported, edits, history>>
        /\ \/ /\ Exists /\ status' = "none" /\ path' = FALSE /\ job' = job
              /\ \/ path /\ pc' = [pc EXCEPT ![r] = "unlinking"]
                 \/ ~path /\ pc' = [pc EXCEPT ![r] = "unlinkingUpload"]
           \/ /\ ~Exists /\ UNCHANGED row /\ pc' = [pc EXCEPT ![r] = "idle"]
              /\ job' = [job EXCEPT ![r] = NoJob]
    BY DEF IInv, TypeOK, DeleteRow, Ends, Goto
  <1>2. TypeOK'
    <2>1. pc' \in [Requests -> Labels]
      BY <1>1 DEF IInv, TypeOK, Labels
    <2>2. \A q \in Requests : job'[q].status \in {"none", "ready", "rejected"}
      BY <1>1 DEF IInv, TypeOK, Shaped, NoJob
    <2>3. status' \in Statuses /\ path' \in BOOLEAN
      BY <1>1 DEF IInv, TypeOK, Statuses, row
    <2> QED
      BY <1>1, <2>1, <2>2, <2>3 DEF IInv, TypeOK, files, history, Labels
  <1>3. Shaped'
    BY <1>1 DEF IInv, NoJob, TypeOK, Shaped, Fields
  <1>4. OneLife'
    BY <1>1 DEF IInv, NoJob, row, TypeOK, Shaped, Importing, Exists, OneLife
  <1>5. Backed'
    BY <1>1 DEF IInv, row, files, TypeOK, Reviewed, Exists, Backed
  <1>6. Alone'
    BY <1>1 DEF IInv, history, TypeOK, Alone
  <1>7. Tidy'
    BY <1>1 DEF IInv, files, history, TypeOK, Alone, Removing, Tidy
  <1>8. Told'
    BY <1>1 DEF IInv, row, files, history, TypeOK, Shaped, Told, Tells, Known
  <1> QED
    BY <1>2, <1>3, <1>4, <1>5, <1>6, <1>7, <1>8 DEF IInv

LEMMA UnlinkKeeps ==
  ASSUME IInv, NEW r \in Requests, Unlink(r)
  PROVE  IInv'
  <1>1. TypeOK'
    BY DEF IInv, Unlink, Ends, NoJob, Goto, row, history, TypeOK, Shaped
  <1>2. Shaped'
    BY DEF IInv, Unlink, Ends, NoJob, Goto, Shaped, Fields
  <1>3. OneLife'
    BY DEF IInv, Unlink, Ends, NoJob, Goto, row, Importing, Removing, Exists, OneLife
  <1>4. Backed'
    BY DEF IInv, Unlink, Ends, Goto, row, OneLife, Removing, Exists, Backed
  <1>5. Alone'
    BY DEF IInv, Unlink, Ends, Goto, history, Alone
  <1>6. Tidy'
    BY DEF IInv, Unlink, Ends, Goto, row, history, Exists, Tidy, NoFile
  <1>7. Told'
    BY DEF IInv, Unlink, Ends, Goto, row, history, OneLife, Alone, Removing, Exists, Told, Tells,
           Known
  <1> QED
    BY <1>1, <1>2, <1>3, <1>4, <1>5, <1>6, <1>7 DEF IInv

LEMMA DeleteContainerKeeps ==
  ASSUME IInv, DeleteContainer
  PROVE  IInv'
  <1>1. TypeOK'
    BY DEF IInv, DeleteContainer, row, files, history, TypeOK
  <1>2. Shaped'
    BY DEF IInv, DeleteContainer, Shaped
  <1>3. OneLife'
    BY DEF IInv, DeleteContainer, row, files, Importing, Reviewing, Removing, Exists, OneLife
  <1>4. Backed' /\ Alone' /\ Tidy' /\ Told'
    BY DEF IInv, DeleteContainer, row, files, history, Backed, Alone, Tidy, Told, Exists, Removing,
           Tells, Known
  <1> QED
    BY <1>1, <1>2, <1>3, <1>4 DEF IInv

LEMMA DieKeeps ==
  ASSUME IInv, NEW r \in Requests, Die(r)
  PROVE  IInv'
  <1>1. TypeOK'
    BY DEF IInv, Die, Ends, NoJob, Goto, row, files, TypeOK
  <1>2. Shaped'
    BY DEF IInv, Die, Ends, NoJob, Goto, TypeOK, Shaped, Fields
  <1>3. OneLife'
    BY DEF IInv, Die, Ends, NoJob, Goto, row, TypeOK, Shaped, Importing, Reviewing, Removing,
           Exists, OneLife
  <1>4. Backed'
    BY DEF IInv, Die, Ends, Goto, row, files, Exists, Backed
  <1>5. Alone'
    BY DEF IInv, Die, Alone
  <1>6. Tidy'
    BY DEF IInv, Die, Tidy
  <1>7. Told'
    BY DEF IInv, Die, Ends, Goto, TypeOK, Told, Tells, Known
  <1> QED
    BY <1>1, <1>2, <1>3, <1>4, <1>5, <1>6, <1>7 DEF IInv

----------------------------------------------------------------------------
(* The theorems *)

LEMMA InitHolds == Init => IInv
  <1> SUFFICES ASSUME Init PROVE IInv
    OBVIOUS
  <1>1. TypeOK
    <2>1. pc \in [Requests -> Labels] /\ \A r \in Requests : job[r].status = "none"
      BY DEF Init, Labels, NoJob
    <2>2. /\ container \in BOOLEAN /\ path \in BOOLEAN /\ upload \in BOOLEAN
          /\ imported \in BOOLEAN /\ raced \in BOOLEAN
      BY DEF Init
    <2>3. status \in Statuses /\ edits \in 0 .. MaxEdits /\ table = {} /\ hit = {}
      BY BoundsAreNumbers DEF Init, Statuses
    <2> QED
      BY <2>1, <2>2, <2>3 DEF TypeOK, Labels
  <1>2. Shaped
    BY DEF Init, Shaped, NoJob, Fields
  <1>3. OneLife /\ Backed
    BY DEF Init, OneLife, Backed, Importing, Reviewing, Removing, Reviewed, Exists, NoJob, NoFile
  <1>4. Alone /\ Tidy /\ Told
    BY DEF Init, Alone, Tidy, Told, Removing, Exists, NoFile
  <1> QED
    BY <1>1, <1>2, <1>3, <1>4 DEF IInv

LEMMA NextKeeps == IInv /\ [Next]_vars => IInv'
  <1> SUFFICES ASSUME IInv, [Next]_vars PROVE IInv'
    OBVIOUS
  <1>1. ASSUME NEW r \in Requests, Import(r) \/ \E t \in Uploads \cup {Unreadable} : BeginImport(r, t)
        PROVE  IInv'
    BY <1>1, BeginImportKeeps, CreateRowKeeps, ExtractFailsKeeps, ExtractKeeps, WriteImportKeeps,
       StoreImportKeeps DEF Import
  <1>2. ASSUME NEW r \in Requests,
               \/ \E f \in Fragments, type \in Types : BeginRedaction(r, f, type)
               \/ ResolveMarker(r) \/ ReadText(r) \/ WriteText(r) \/ StoreSummary(r)
        PROVE  IInv'
    BY <1>2, BeginRedactionKeeps, ResolveMarkerKeeps, ReadTextKeeps, WriteTextKeeps,
       StoreSummaryKeeps
  <1>3. ASSUME NEW r \in Requests,
               \/ \E d \in {"ready", "rejected"} : BeginDecision(r, d)
               \/ Decide(r) \/ BeginDelete(r) \/ DeleteRow(r) \/ Unlink(r) \/ Die(r)
        PROVE  IInv'
    BY <1>3, BeginDecisionKeeps, DecideKeeps, BeginDeleteKeeps, DeleteRowKeeps, UnlinkKeeps,
       DieKeeps
  <1>4. CASE DeleteContainer \/ \E type \in Types, f \in OtherValues : OtherDocument(type, f)
    BY <1>4, DeleteContainerKeeps, OtherDocumentKeeps
  <1>5. CASE UNCHANGED vars
    BY <1>5 DEF vars, row, files, history, IInv, TypeOK, Shaped, OneLife, Backed, Alone, Tidy, Told,
                Importing, Reviewing, Removing, Exists, Tells, Known
  <1> QED
    BY <1>1, <1>2, <1>3, <1>4, <1>5 DEF Next

LEMMA InvariantHolds == Spec => []IInv
  BY InitHolds, NextKeeps, PTL DEF Spec

\* The document, its requests and the table keep their types.
THEOREM ImportTypeCorrect == Spec => []TypeOK
  <1>1. IInv => TypeOK
    BY DEF IInv
  <1> QED
    BY <1>1, InvariantHolds, PTL

\* A document under review or decided has its files, however many requests
\* overlap or die; without that, nothing is left behind (containers/service.py).
THEOREM FilesAreThere == Spec => []FilesFollowTheRow
  <1>1. IInv => FilesFollowTheRow
    BY DEF IInv, FilesFollowTheRow, Backed, Tidy, Reviewed, Exists, Removing
  <1> QED
    BY <1>1, InvariantHolds, PTL

\* Between two requests the stored summary is one of the stored text, whatever
\* the texts are (containers/validation_service.py).
THEOREM SummariesAreRight == Spec => []SummaryTellsTheText
  <1>1. IInv => SummaryTellsTheText
    BY DEF IInv, SummaryTellsTheText, Told
  <1> QED
    BY <1>1, InvariantHolds, PTL

----------------------------------------------------------------------------
(* Restoring *)

\* Labels are neither indices nor letters nor white space; uploads have them in
\* well-formed markers only (what is malformed is Odd), values have none.
PlainImports ==
  /\ Types \cap Nat = {} /\ Types \cap White = {}
  /\ \A c \in DOMAIN Lower : c \notin Types /\ Lower[c] \notin Types
  /\ \A t \in Uploads : /\ IsText(t)
                       /\ \A k \in 1 .. Len(t) : t[k] \in Types => k - 1 \in MarkerStarts(t)
  /\ \A f \in OtherValues : IsText(f) /\ Len(f) > 0 /\ ToSet(f) \cap Types = {}

\* Where the texts that requests pass on come from.
Texts ==
  /\ IsText(artefact.text)
  /\ \A r \in Requests :
       /\ pc[r] \in {"uploaded", "created"} => job[r].text \in Uploads \cup {Unreadable}
       /\ pc[r] \in {"extracted", "written"} => job[r].text \in Uploads
       /\ pc[r] \in {"redacting", "resolved"} => IsText(job[r].fragment) /\ Len(job[r].fragment) > 0
       /\ pc[r] = "read" => IsText(job[r].text)

\* Every entry of the table T has a marker of its own and a value.
Unique(T) ==
  /\ \A e \in T : IsText(e.original) /\ Len(e.original) > 0
  /\ \A e, g \in T : Marker(e) = Marker(g) => e = g

\* What T says of the marker m.
Has(T, m) == \E e \in T : Marker(e) = m
Value(T, m) == (CHOOSE e \in T : Marker(e) = m).original

\* While the document is being imported nobody reviews it and no fragment of
\* it is in the table; its text is what the import made of it.
Apart ==
  /\ ~imported \/ (\E r \in Requests : Importing(r)) =>
       /\ first = NoText /\ \A r \in Requests : ~Reviewing(r)
       /\ \A e \in table : ToSet(e.original) \cap Types = {}
  /\ \A r \in Requests : pc[r] = "written" /\ Exists => artefact = File(job[r].text)

\* The marker of a request is an entry's, of the same letters but for a hit.
Assigned ==
  \A r \in Requests : pc[r] = "resolved" =>
    \E e \in table : /\ Marker(e) = job[r].marker
                     /\ hit = {} => Letters(e.original) = Letters(job[r].fragment)

\* The originals of the markers of t, and t with all of them put back at once.
Values(T, t) == [p \in MarkerStarts(t) |-> Value(T, Slice(t, p, p + 2))]
Opened(T, t) ==
  Splice(t, {[start |-> p, end |-> p + 2, with |-> Values(T, t)[p]] : p \in MarkerStarts(t)})

\* In t the characters of types stand in markers of T only, and those have
\* originals without such characters.
Sound(T, t) ==
  /\ IsText(t)
  /\ \A k \in 1 .. Len(t) : t[k] \in Types => k - 1 \in MarkerStarts(t)
  /\ \A p \in MarkerStarts(t) : /\ Has(T, Slice(t, p, p + 2))
                                /\ ToSet(Values(T, t)[p]) \cap Types = {}

Faithful(T, t, u) == Sound(T, t) /\ Letters(Opened(T, t)) = Letters(u)

\* The text of a clean import, and every text that is to replace it.
Kept ==
  first # NoText /\ hit = {} =>
    /\ artefact.there => Faithful(table, artefact.text, first)
    /\ \A r \in Requests : pc[r] = "read" => Faithful(table, job[r].text, first)

RInv == Texts /\ Unique(table) /\ Apart /\ Assigned /\ Kept

\* The markers of t as places: where they begin, where they end, and what they are.
Here(t) == [p \in MarkerStarts(t) |-> p]
There(t) == [p \in MarkerStarts(t) |-> p + 2]
Markers(t) == [p \in MarkerStarts(t) |-> Slice(t, p, p + 2)]

LEMMA MarkersArePlaces ==
  ASSUME PlainImports, NEW t, IsText(t)
  PROVE  /\ Places(t, MarkerStarts(t), Here(t), There(t))
         /\ AllTagged(Markers(t), MarkerStarts(t), Types)
         /\ \A p \in MarkerStarts(t) : /\ p \in Nat /\ p + 2 <= Len(t)
                                       /\ IsText(Slice(t, p, p + 2)) /\ Slice(t, p, p + 2)[2] \in Nat
  <1>1. Len(t) \in Nat
    BY TextHasLength
  <1>2. \A p \in MarkerStarts(t) : /\ p \in Nat /\ p + 2 <= Len(t)
                                   /\ t[p + 1] \in Types /\ t[p + 2] \in Nat
    BY <1>1 DEF MarkerStarts
  <1>3. \A c : c \in Nat => c \notin Types
    BY DEF PlainImports
  <1>4. \A p, q \in MarkerStarts(t) : p = q \/ p + 2 <= q \/ q + 2 <= p
    <2> SUFFICES ASSUME NEW p \in MarkerStarts(t), NEW q \in MarkerStarts(t), p < q PROVE p + 2 <= q
      BY <1>2
    <2>1. p \in Nat /\ q \in Nat /\ t[p + 2] \notin Types /\ t[q + 1] \in Types
      BY <1>2, <1>3
    <2>2. q # p + 1
      <3>1. q = p + 1 => q + 1 = p + 2
        BY <2>1
      <3> QED
        BY <2>1, <3>1
    <2> QED
      BY <2>1, <2>2
  <1>5. \A p \in MarkerStarts(t) : Here(t)[p] = p /\ There(t)[p] = p + 2
    BY DEF Here, There
  <1>6. Places(t, MarkerStarts(t), Here(t), There(t))
    <2>1. \A p \in MarkerStarts(t) : p \in Nat /\ p + 2 \in Nat /\ p < p + 2
      BY <1>2
    <2> QED
      BY <1>2, <1>4, <1>5, <2>1 DEF Places
  <1>7. ASSUME NEW p \in MarkerStarts(t)
        PROVE  /\ IsText(Slice(t, p, p + 2)) /\ Len(Slice(t, p, p + 2)) = 2
               /\ Slice(t, p, p + 2)[1] = t[p + 1] /\ Slice(t, p, p + 2)[2] = t[p + 2]
    <2> DEFINE q == p + 2
               u == Slice(t, p, q)
    <2>1. p \in Nat /\ q \in Nat /\ p <= q /\ q <= Len(t) /\ q - p = 2
      BY <1>2
    <2> HIDE DEF q
    <2>2. IsText(u) /\ Len(u) = q - p /\ \A k \in 1 .. (q - p) : u[k] = t[p + k]
      BY <2>1, SliceParts
    <2> HIDE DEF u
    <2>3. 1 \in 1 .. (q - p) /\ 2 \in 1 .. (q - p)
      BY <2>1
    <2>4. IsText(u) /\ Len(u) = 2 /\ u[1] = t[p + 1] /\ u[2] = t[p + 2]
      BY <2>1, <2>2, <2>3
    <2> QED
      BY <2>4 DEF u, q
  <1>8. AllTagged(Markers(t), MarkerStarts(t), Types)
    BY <1>2, <1>3, <1>7 DEF AllTagged, Markers
  <1> QED
    BY <1>2, <1>6, <1>7, <1>8

LEMMA OriginalIsTheEntrys ==
  ASSUME NEW T, Unique(T), NEW e \in T
  PROVE  /\ Value(T, Marker(e)) = e.original
         /\ IsText(e.original) /\ Len(e.original) > 0
  <1>1. \A g \in T : Marker(g) = Marker(e) => g = e
    BY DEF Unique
  <1>2. (CHOOSE g \in T : Marker(g) = Marker(e)) = e
    BY <1>1
  <1> QED
    BY <1>2 DEF Value, Unique

\* A sound text has its markers as places that show where they are, and is
\* without characters of types when all originals have been put back.
LEMMA SoundStands ==
  ASSUME PlainImports, NEW T, Unique(T), NEW t, Sound(T, t)
  PROVE  /\ Stands(t, MarkerStarts(t), Here(t), There(t), Markers(t), Values(T, t), Opened(T, t))
         /\ ToSet(Opened(T, t)) \cap Types = {}
         /\ Opened(T, t) = Splice(t, Changes(MarkerStarts(t), Here(t), There(t), Values(T, t)))
  <1> DEFINE I == MarkerStarts(t)
             a == Here(t)
             z == There(t)
             v == Markers(t)
             w == Values(T, t)
             u == Opened(T, t)
  <1>1. IsText(t) /\ \A k \in 1 .. Len(t) : t[k] \in Types => k - 1 \in I
    BY DEF Sound
  <1>2. Places(t, I, a, z)
    BY <1>1, MarkersArePlaces
  <1>3. \A p \in I : /\ IsText(v[p]) /\ Len(v[p]) = 2 /\ Slice(t, a[p], z[p]) = v[p]
                     /\ p \in Nat /\ a[p] = p /\ z[p] = p + 2
    BY <1>1, MarkersArePlaces DEF AllTagged, Here, There, Markers
  <1>4. ASSUME NEW p \in I PROVE IsText(w[p]) /\ Len(w[p]) > 0 /\ ToSet(w[p]) \cap Types = {}
    <2>1. PICK e \in T : Marker(e) = Slice(t, p, p + 2)
      BY DEF Sound, Has
    <2>2. w[p] = Value(T, Marker(e))
      BY <2>1 DEF Values
    <2> QED
      BY <2>2, OriginalIsTheEntrys DEF Sound
  <1>5. u = Splice(t, Changes(I, a, z, w))
    <2>1. Changes(I, a, z, w) = {[start |-> p, end |-> p + 2, with |-> w[p]] : p \in I}
      BY <1>3 DEF Changes
    <2> QED
      BY <2>1 DEF Opened
  <1> HIDE DEF I, a, z, v, w, u
  <1>6. Stands(t, I, a, z, v, w, u)
    <2>1. \A p \in I : Len(v[p]) > 0
      BY <1>3
    <2> QED
      BY <1>1, <1>2, <1>3, <1>4, <1>5, <2>1 DEF Stands
  <1>7. \A k \in 1 .. Len(t) : Outside(I, a, z, k) => t[k] \notin Types
    <2> SUFFICES ASSUME NEW k \in 1 .. Len(t), Outside(I, a, z, k) PROVE t[k] \notin Types
      OBVIOUS
    <2>1. ASSUME k - 1 \in I PROVE FALSE
      <3>1. a[k - 1] = k - 1 /\ z[k - 1] = (k - 1) + 2
        BY <1>3, <2>1
      <3> QED
        BY <2>1, <3>1 DEF Outside
    <2> QED
      BY <1>1, <2>1
  <1>8. ToSet(u) \cap Types = {}
    <2>1. \A p \in I : IsText(w[p]) /\ Len(w[p]) > 0 /\ ToSet(w[p]) \cap Types = {}
      BY <1>4
    <2> QED
      BY <1>1, <1>2, <1>5, <1>7, <2>1, CharactersStayAway
  <1> QED
    BY <1>5, <1>6, <1>8 DEF I, a, z, v, w, u

\* Where a sound text has the first one of each of its markers.
FirstMarkers(t) ==
  {p \in MarkerStarts(t) :
     /\ Slice(t, p, p + 2) \in Known(t)
     /\ \A q \in MarkerStarts(t) : Slice(t, q, q + 2) = Slice(t, p, p + 2) => p <= q}

LEMMA EveryMarkerHasAFirst ==
  ASSUME PlainImports, NEW t, Sound(table, t)
  PROVE  /\ FirstMarkers(t) \subseteq MarkerStarts(t)
         /\ FirstMarkers(t) \in SUBSET Int /\ IsFiniteSet(FirstMarkers(t))
         /\ \A p \in MarkerStarts(t) : \E q \in FirstMarkers(t) :
              Slice(t, q, q + 2) = Slice(t, p, p + 2)
  <1>1. IsText(t) /\ Len(t) \in Nat
    BY TextHasLength DEF Sound
  <1>2. \A p \in MarkerStarts(t) : p \in Nat /\ p \in 0 .. Len(t)
    BY <1>1 DEF MarkerStarts
  <1>3. FirstMarkers(t) \subseteq MarkerStarts(t)
    BY DEF FirstMarkers
  <1>4. FirstMarkers(t) \in SUBSET Int
    BY <1>2, <1>3
  <1>5. IsFiniteSet(FirstMarkers(t))
    <2>1. IsFiniteSet(0 .. Len(t))
      BY <1>1, FS_Interval
    <2>2. FirstMarkers(t) \subseteq 0 .. Len(t)
      BY <1>2, <1>3
    <2> QED
      BY <2>1, <2>2, FS_Subset
  <1>6. ASSUME NEW p \in MarkerStarts(t)
        PROVE  \E q \in FirstMarkers(t) : Slice(t, q, q + 2) = Slice(t, p, p + 2)
    <2> DEFINE same == {q \in MarkerStarts(t) : Slice(t, q, q + 2) = Slice(t, p, p + 2)}
    <2>1. same \in SUBSET Nat /\ p \in same
      BY <1>2
    <2>2. PICK q \in same : \A k \in same : q <= k
      <3> HIDE DEF same
      <3> QED
        BY <2>1, LeastExists
    <2>3. q \in MarkerStarts(t) /\ Slice(t, q, q + 2) = Slice(t, p, p + 2)
      BY <2>2
    <2>4. ASSUME NEW k \in MarkerStarts(t), Slice(t, k, k + 2) = Slice(t, q, q + 2) PROVE q <= k
      <3>1. k \in same
        BY <2>3, <2>4
      <3> HIDE DEF same
      <3> QED
        BY <2>2, <3>1
    <2>5. Slice(t, q, q + 2) \in Known(t)
      BY <2>3 DEF Sound, Has, Known, Tokens
    <2>6. q \in FirstMarkers(t)
      BY <2>3, <2>4, <2>5 DEF FirstMarkers
    <2> QED
      BY <2>3, <2>6
  <1> QED
    BY <1>3, <1>4, <1>5, <1>6

\* Replacing the markers of a sound text in turn puts all originals back.
LEMMA SoundRestores ==
  ASSUME PlainImports, Unique(table), NEW t, Sound(table, t)
  PROVE  Restored(t) = Opened(table, t)
  <1> DEFINE I == MarkerStarts(t)
             a == Here(t)
             z == There(t)
             v == Markers(t)
             w == Values(table, t)
             u == Opened(table, t)
             order == Ascending(FirstMarkers(t))
             n == Len(order)
             r == [k \in 1 .. n |-> Slice(t, order[k], order[k] + 2)]
             o == [k \in 1 .. n |-> Value(table, r[k])]
  <1>1. Stands(t, I, a, z, v, w, u) /\ ToSet(u) \cap Types = {}
    BY SoundStands
  <1>2. AllTagged(v, I, Types)
    BY MarkersArePlaces DEF Sound
  <1>3. /\ FirstMarkers(t) \subseteq I
        /\ FirstMarkers(t) \in SUBSET Int /\ IsFiniteSet(FirstMarkers(t))
        /\ \A p \in I : \E q \in FirstMarkers(t) : Slice(t, q, q + 2) = Slice(t, p, p + 2)
    BY EveryMarkerHasAFirst
  <1>4. /\ n \in Nat /\ \A k \in 1 .. n : order[k] \in FirstMarkers(t)
        /\ \A q \in FirstMarkers(t) : \E k \in 1 .. n : order[k] = q
    <2>1. /\ Len(Ascending(FirstMarkers(t))) = Cardinality(FirstMarkers(t))
          /\ Cardinality(FirstMarkers(t)) \in Nat
          /\ \A k \in 1 .. Cardinality(FirstMarkers(t)) : Ascending(FirstMarkers(t))[k] \in FirstMarkers(t)
          /\ \A x \in FirstMarkers(t) : \E k \in 1 .. Cardinality(FirstMarkers(t)) :
               Ascending(FirstMarkers(t))[k] = x
      BY <1>3, AscendingOrder
    <2> QED
      BY <2>1
  <1>5. \A p \in I : v[p] = Slice(t, p, p + 2) /\ w[p] = Value(table, Slice(t, p, p + 2))
    BY DEF Markers, Values
  <1>6. Restored(t) = ReplacedInTurn(t, r, o)
    BY DEF Restored, FirstMarkers, Original, Value
  <1>7. \A k \in 1 .. n : r[k] = Slice(t, order[k], order[k] + 2)
    OBVIOUS
  <1>8. \A k \in 1 .. n : o[k] = Value(table, r[k])
    OBVIOUS
  <1>9. r = [k \in 1 .. n |-> r[k]]
    OBVIOUS
  <1> HIDE DEF I, a, z, v, w, u, order, n, r, o
  <1>10. Len(r) = n
    BY <1>4, <1>9, FunctionIsText
  <1>11. \A k \in 1 .. n : /\ IsText(r[k]) /\ Len(r[k]) = 2 /\ r[k][1] \in Types
                           /\ IsText(o[k]) /\ Len(o[k]) > 0
                           /\ \A i \in I : v[i] = r[k] => w[i] = o[k]
    <2> SUFFICES ASSUME NEW k \in 1 .. n
                 PROVE  /\ IsText(r[k]) /\ Len(r[k]) = 2 /\ r[k][1] \in Types
                        /\ IsText(o[k]) /\ Len(o[k]) > 0
                        /\ \A i \in I : v[i] = r[k] => w[i] = o[k]
      OBVIOUS
    <2> DEFINE p == order[k]
    <2>1. p \in I
      BY <1>3, <1>4
    <2>2. r[k] = v[p] /\ o[k] = w[p]
      BY <1>5, <1>7, <1>8, <2>1
    <2> HIDE DEF p
    <2>3. IsText(v[p]) /\ IsText(w[p]) /\ Len(w[p]) > 0
      BY <1>1, <2>1 DEF Stands
    <2>4. Len(v[p]) = 2 /\ v[p][1] \in Types
      BY <1>2, <2>1 DEF AllTagged
    <2>5. \A i \in I : v[i] = v[p] => w[i] = w[p]
      BY <1>5, <2>1
    <2> QED
      BY <2>2, <2>3, <2>4, <2>5
  <1>12. \A i \in I : \E k \in 1 .. n : v[i] = r[k]
    <2> SUFFICES ASSUME NEW i \in I PROVE \E k \in 1 .. n : v[i] = r[k]
      OBVIOUS
    <2>1. PICK q \in FirstMarkers(t) : Slice(t, q, q + 2) = Slice(t, i, i + 2)
      BY <1>3
    <2>2. PICK k \in 1 .. n : order[k] = q
      BY <1>4
    <2> QED
      BY <1>5, <1>7, <2>1, <2>2
  <1>13. AllListed(v, w, I, n, r, o, Types)
    BY <1>11, <1>12 DEF AllListed
  <1>14. PICK g : Replaces(g, t, n, r, o) /\ Restored(t) = g[n]
    <2>1. \E g : Replaces(g, t, Len(r), r, o) /\ ReplacedInTurn(t, r, o) = g[Len(r)]
      BY <1>4, <1>10, ReplacingInTurn
    <2> QED
      BY <1>6, <1>10, <2>1
  <1>15. n \in Nat
    BY <1>4
  <1>16. g[n] = u
    BY <1>1, <1>2, <1>13, <1>14, <1>15, OneAfterTheOther
  <1> QED
    BY <1>14, <1>16 DEF u

\* A text is sound if characters of types stand in places only that have known
\* markers, and what it is with their originals has none.
LEMMA StandsIsSound ==
  ASSUME PlainImports, NEW T, Unique(T),
         NEW t, NEW U, NEW b, NEW c, NEW x, NEW w, NEW u, Stands(t, U, b, c, x, w, u),
         ToSet(u) \cap Types = {}, AllTagged(x, U, Types), \A i \in U : x[i][2] \in Nat,
         \A i \in U : \E e \in T : Marker(e) = x[i] /\ e.original = w[i]
  PROVE  Sound(T, t) /\ Opened(T, t) = u
  <1> DEFINE M == MarkerStarts(t)
  <1>1. /\ IsText(t) /\ Places(t, U, b, c) /\ u = Splice(t, Changes(U, b, c, w))
        /\ \A i \in U : IsText(w[i]) /\ Len(w[i]) > 0 /\ Slice(t, b[i], c[i]) = x[i]
    BY DEF Stands
  <1>2. Len(t) \in Nat
    BY <1>1, TextHasLength
  <1>3. \A k \in 1 .. Len(t) : t[k] \in Types => \E i \in U : b[i] = k - 1
    <2> DEFINE D == {i \in U : FALSE}
    <2>1. \A i : i \notin D
      OBVIOUS
    <2> HIDE DEF D
    <2>2. Tagged(x, U, Types, D)
      BY <2>1 DEF Tagged, AllTagged
    <2>3. \A k \in 1 .. Len(t) : t[k] \in Types => \E i \in U : i \notin D /\ b[i] = k - 1
      BY <2>2, TagsShowPlaces
    <2> QED
      BY <2>3
  <1>4. ASSUME NEW i \in U
        PROVE  /\ b[i] \in Nat /\ c[i] = b[i] + 2 /\ b[i] + 2 <= Len(t)
               /\ t[b[i] + 1] \in Types /\ t[b[i] + 2] \in Nat
    <2>1. /\ b[i] \in Nat /\ c[i] \in Nat /\ c[i] <= Len(t)
          /\ Len(x[i]) = c[i] - b[i]
          /\ \A k \in 1 .. (c[i] - b[i]) : x[i][k] = t[b[i] + k]
      BY PlacesHaveLength
    <2>2. Len(x[i]) = 2 /\ x[i][1] \in Types /\ x[i][2] \in Nat
      BY DEF AllTagged
    <2>3. c[i] - b[i] = 2
      BY <2>1, <2>2
    <2>4. c[i] = b[i] + 2 /\ 1 \in 1 .. (c[i] - b[i]) /\ 2 \in 1 .. (c[i] - b[i])
      BY ONLY <2>1, <2>3
    <2>5. x[i][1] = t[b[i] + 1] /\ x[i][2] = t[b[i] + 2]
      BY <2>1, <2>4
    <2> QED
      BY <2>1, <2>2, <2>4, <2>5
  <1>5. M = {b[i] : i \in U}
    <2>1. ASSUME NEW i \in U PROVE b[i] \in M
      <3>1. b[i] \in 0 .. (Len(t) - 2)
        BY <1>2, <1>4
      <3> QED
        BY <1>4, <3>1 DEF MarkerStarts
    <2>2. ASSUME NEW p \in M PROVE \E i \in U : b[i] = p
      <3>1. p \in Nat /\ p + 1 \in 1 .. Len(t) /\ t[p + 1] \in Types
        BY <1>2 DEF MarkerStarts
      <3>2. PICK i \in U : b[i] = (p + 1) - 1
        BY <1>3, <3>1
      <3> QED
        BY <3>1, <3>2
    <2> HIDE DEF M
    <2> QED
      BY <2>1, <2>2
  <1> HIDE DEF M
  <1>6. ASSUME NEW i \in U
        PROVE  /\ Slice(t, b[i], b[i] + 2) = x[i] /\ Has(T, x[i])
               /\ Values(T, t)[b[i]] = w[i]
    <2>1. b[i] \in M /\ Slice(t, b[i], b[i] + 2) = x[i]
      BY <1>1, <1>4, <1>5
    <2>2. PICK e \in T : Marker(e) = x[i] /\ e.original = w[i]
      OBVIOUS
    <2>3. Has(T, x[i])
      BY <2>2 DEF Has
    <2>4. Value(T, x[i]) = w[i]
      BY <2>2, OriginalIsTheEntrys
    <2>5. Values(T, t)[b[i]] = Value(T, Slice(t, b[i], b[i] + 2))
      BY <2>1 DEF Values, M
    <2> QED
      BY <2>1, <2>3, <2>4, <2>5
  <1>7. \A i \in U : ToSet(w[i]) \cap Types = {}
    <2>1. \A i \in U : IsText(w[i])
      BY <1>1
    <2>2. \A i \in U : Len(w[i]) > 0
      BY <1>1
    <2>3. PICK S : Builds(t, U, b, c, w, S) /\ u = S[Len(t)]
      BY <1>1, <2>1, SpliceIsBuilt
    <2>4. \A i \in U : ToSet(w[i]) \subseteq ToSet(S[Len(t)])
      BY <2>2, <2>3, CharactersStay
    <2> QED
      BY <2>3, <2>4
  <1>8. Sound(T, t)
    <2>1. \A k \in 1 .. Len(t) : t[k] \in Types => k - 1 \in M
      BY <1>3, <1>5
    <2>2. \A p \in M : Has(T, Slice(t, p, p + 2)) /\ ToSet(Values(T, t)[p]) \cap Types = {}
      <3> SUFFICES ASSUME NEW p \in M
                   PROVE  Has(T, Slice(t, p, p + 2)) /\ ToSet(Values(T, t)[p]) \cap Types = {}
        OBVIOUS
      <3>1. PICK i \in U : p = b[i]
        BY <1>5
      <3> QED
        BY <1>6, <1>7, <3>1
    <2> QED
      BY <1>1, <2>1, <2>2 DEF Sound, M
  <1>9. Opened(T, t) = u
    <2>1. {[start |-> p, end |-> p + 2, with |-> Values(T, t)[p]] : p \in M}
            = {[start |-> b[i], end |-> b[i] + 2, with |-> Values(T, t)[b[i]]] : i \in U}
      BY <1>5
    <2>2. {[start |-> b[i], end |-> b[i] + 2, with |-> Values(T, t)[b[i]]] : i \in U}
            = Changes(U, b, c, w)
      <3>1. \A i \in U : b[i] + 2 = c[i] /\ Values(T, t)[b[i]] = w[i]
        BY <1>4, <1>6
      <3> QED
        BY <3>1 DEF Changes
    <2> QED
      BY <1>1, <2>1, <2>2 DEF Opened, M
  <1> QED
    BY <1>8, <1>9

\* Values with the same letters have characters of types or not.
LEMMA LettersTellTypes ==
  ASSUME PlainImports, NEW x, IsText(x), NEW y, IsText(y), Letters(x) = Letters(y),
         ToSet(x) \cap Types = {}
  PROVE  ToSet(y) \cap Types = {}
  <1>1. Types \cap White = {} /\ \A c \in DOMAIN Lower : c \notin Types /\ Lower[c] \notin Types
    BY DEF PlainImports
  <1>2. ToSet(Letters(x)) \cap Types = ToSet(x) \cap Types
    BY <1>1, LettersKeep
  <1>3. ToSet(Letters(y)) \cap Types = ToSet(y) \cap Types
    BY <1>1, LettersKeep
  <1> QED
    BY <1>2, <1>3

\* What a larger table says of a text that was sound before.
LEMMA SoundForGood ==
  ASSUME NEW T, NEW U, T \subseteq U, Unique(U), NEW t, Sound(T, t)
  PROVE  Sound(U, t) /\ Opened(U, t) = Opened(T, t)
  <1>1. Unique(T)
    BY DEF Unique
  <1>2. \A p \in MarkerStarts(t) :
          /\ Has(U, Slice(t, p, p + 2))
          /\ Value(U, Slice(t, p, p + 2)) = Value(T, Slice(t, p, p + 2))
    <2> SUFFICES ASSUME NEW p \in MarkerStarts(t)
                 PROVE  /\ Has(U, Slice(t, p, p + 2))
                        /\ Value(U, Slice(t, p, p + 2)) = Value(T, Slice(t, p, p + 2))
      OBVIOUS
    <2>1. PICK e \in T : Marker(e) = Slice(t, p, p + 2)
      BY DEF Sound, Has
    <2>2. Value(T, Marker(e)) = e.original
      BY <1>1, OriginalIsTheEntrys
    <2>3. e \in U
      OBVIOUS
    <2>4. Value(U, Marker(e)) = e.original
      BY <2>3, OriginalIsTheEntrys
    <2> QED
      BY <2>1, <2>2, <2>3, <2>4 DEF Has
  <1>3. Values(U, t) = Values(T, t)
    BY <1>2 DEF Values
  <1> QED
    BY <1>2, <1>3 DEF Sound, Opened

\* A fragment that touches no marker is replaced by the marker of its value:
\* the text stays sound, and restores to the letters it did.
LEMMA RedactionStaysSound ==
  ASSUME PlainImports, NEW T, Unique(T), NEW t, Sound(T, t),
         NEW f, IsText(f), Len(f) > 0, ~Touches(t, f),
         NEW e \in T, e.type \in Types, e.index \in Nat, Letters(e.original) = Letters(f)
  PROVE  /\ Sound(T, Substitute(t, f, Marker(e)))
         /\ Letters(Opened(T, Substitute(t, f, Marker(e)))) = Letters(Opened(T, t))
  <1> DEFINE M == MarkerStarts(t)
             J == Occurrences(t, f)
             U == M \cup J
             m == Marker(e)
             a == [p \in U |-> p]
             z == [p \in U |-> IF p \in M THEN p + 2 ELSE p + Len(f)]
             v == [p \in U |-> IF p \in M THEN Markers(t)[p] ELSE f]
             w == [p \in U |-> IF p \in M THEN Values(T, t)[p] ELSE e.original]
             y == [p \in U |-> IF p \in M THEN Values(T, t)[p] ELSE f]
             x == [p \in U |-> IF p \in J THEN m ELSE v[p]]
             u == Splice(t, Changes(U, a, z, w))
  <1>1. /\ IsText(t) /\ Len(t) \in Nat /\ Len(f) \in Nat
        /\ \A k \in 1 .. Len(t) : t[k] \in Types => k - 1 \in M
    BY TextHasLength DEF Sound
  <1>2. /\ Stands(t, M, Here(t), There(t), Markers(t), Values(T, t), Opened(T, t))
        /\ ToSet(Opened(T, t)) \cap Types = {}
        /\ Opened(T, t) = Splice(t, Changes(M, Here(t), There(t), Values(T, t)))
    BY SoundStands
  <1>3. /\ Places(t, M, Here(t), There(t))
        /\ AllTagged(Markers(t), M, Types)
        /\ \A p \in M : /\ p \in Nat /\ p + 2 <= Len(t)
                        /\ IsText(Slice(t, p, p + 2)) /\ Slice(t, p, p + 2)[2] \in Nat
    BY <1>1, MarkersArePlaces
  <1>4. /\ J \in SUBSET Matches(t, f)
        /\ \A p \in Matches(t, f) : p \in Nat /\ p + Len(f) <= Len(t) /\ Slice(t, p, p + Len(f)) = f
        /\ \A p, q \in J : p = q \/ p + Len(f) <= q \/ q + Len(f) <= p
    BY <1>1, OccurrencesArePlaces
  <1>5. \A p \in J, q \in M : q + 2 <= p \/ p + Len(f) <= q
    BY <1>1, <1>3, <1>4 DEF Touches
  <1>6. M \cap J = {}
    BY <1>1, <1>3, <1>4, <1>5
  <1>7. \A p \in M : /\ p \in U /\ p \notin J /\ a[p] = p /\ z[p] = p + 2
                     /\ Here(t)[p] = p /\ There(t)[p] = p + 2
                     /\ v[p] = Markers(t)[p] /\ w[p] = Values(T, t)[p] /\ y[p] = Values(T, t)[p]
                     /\ x[p] = Markers(t)[p] /\ Markers(t)[p] = Slice(t, p, p + 2)
    BY <1>6 DEF Here, There, Markers
  <1>8. \A p \in J : /\ p \in U /\ p \notin M /\ a[p] = p /\ z[p] = p + Len(f)
                     /\ v[p] = f /\ w[p] = e.original /\ y[p] = f /\ x[p] = m
    BY <1>6
  <1>9. U = M \cup J
    OBVIOUS
  <1>10. \A p \in U : x[p] = IF p \in J THEN m ELSE v[p]
    OBVIOUS
  <1>11. u = Splice(t, Changes(U, a, z, w))
    OBVIOUS
  <1>12. IsText(m) /\ Len(m) = 2 /\ m[1] = e.type /\ m[2] = e.index
    BY PlaceholderIsText DEF Marker, Placeholder
  <1>13. IsText(e.original) /\ Len(e.original) > 0
    BY DEF Unique
  <1> HIDE DEF M, J, U, a, z, v, w, y, x, u
  <1>14. \A p \in M : /\ IsText(Markers(t)[p]) /\ Len(Markers(t)[p]) > 0
                      /\ IsText(Values(T, t)[p]) /\ Len(Values(T, t)[p]) > 0
    BY <1>2 DEF Stands
  <1>15. Places(t, U, a, z)
    <2>1. \A p \in U : a[p] \in Nat /\ z[p] \in Nat /\ a[p] < z[p] /\ z[p] <= Len(t)
      BY <1>1, <1>3, <1>4, <1>7, <1>8, <1>9
    <2>2. \A p, q \in M : p = q \/ p + 2 <= q \/ q + 2 <= p
      BY <1>3, <1>7 DEF Places
    <2>3. \A p, q \in U : p = q \/ z[p] <= a[q] \/ z[q] <= a[p]
      BY <1>4, <1>5, <1>7, <1>8, <1>9, <2>2
    <2> QED
      BY <2>1, <2>3 DEF Places
  <1>16. ASSUME NEW p \in J PROVE ToSet(f) \cap Types = {}
    <2>1. p \in Nat /\ p + Len(f) \in Nat /\ p <= p + Len(f) /\ p + Len(f) <= Len(t)
          /\ (p + Len(f)) - p = Len(f) /\ Slice(t, p, p + Len(f)) = f
      BY <1>1, <1>4
    <2> DEFINE q == p + Len(f)
               s == Slice(t, p, q)
    <2>2. p \in Nat /\ q \in Nat /\ p <= q /\ q <= Len(t) /\ q - p = Len(f) /\ s = f
      BY <2>1
    <2> HIDE DEF q
    <2>3. \A k \in 1 .. (q - p) : s[k] = t[p + k]
      BY <1>1, <2>2, SliceParts
    <2> HIDE DEF s
    <2>4. \A k \in 1 .. Len(f) : f[k] = t[p + k]
      BY <2>2, <2>3
    <2>5. ASSUME NEW k \in 1 .. Len(f), f[k] \in Types PROVE FALSE
      <3>1. p + k \in 1 .. Len(t) /\ t[p + k] \in Types /\ (p + k) - 1 = p + (k - 1)
        BY <1>1, <2>1, <2>4, <2>5
      <3>2. p + (k - 1) \in M
        BY <1>1, <3>1
      <3>3. (p + (k - 1)) + 2 <= p \/ p + Len(f) <= p + (k - 1)
        BY <1>5, <3>2
      <3> QED
        BY <1>1, <2>1, <3>3
    <2> QED
      BY <1>1, <2>5, TextHasLength DEF ToSet
  <1>17. \A p \in U : /\ IsText(w[p]) /\ Len(w[p]) > 0 /\ ToSet(w[p]) \cap Types = {}
                      /\ IsText(y[p]) /\ Letters(w[p]) = Letters(y[p])
    <2>1. ASSUME NEW p \in J PROVE ToSet(e.original) \cap Types = {}
      <3>1. Letters(f) = Letters(e.original) /\ ToSet(f) \cap Types = {}
        BY <1>16
      <3> QED
        BY <1>13, <3>1, LettersTellTypes
    <2>2. \A p \in M : ToSet(Values(T, t)[p]) \cap Types = {}
      BY DEF Sound, M
    <2> QED
      BY <1>7, <1>8, <1>9, <1>13, <1>14, <2>1, <2>2
  <1>18. Stands(t, U, a, z, v, w, u)
    <2>1. \A p \in U : IsText(v[p]) /\ Len(v[p]) > 0 /\ Slice(t, a[p], z[p]) = v[p]
      BY <1>4, <1>7, <1>8, <1>9, <1>14
    <2> QED
      BY <1>1, <1>11, <1>15, <1>17, <2>1 DEF Stands
  <1>19. ToSet(u) \cap Types = {}
    <2>1. \A k \in 1 .. Len(t) : Outside(U, a, z, k) => t[k] \notin Types
      <3> SUFFICES ASSUME NEW k \in 1 .. Len(t), Outside(U, a, z, k), t[k] \in Types PROVE FALSE
        OBVIOUS
      <3>1. k - 1 \in M
        BY <1>1
      <3>2. k - 1 \in U /\ a[k - 1] = k - 1 /\ z[k - 1] = (k - 1) + 2
        BY <1>7, <3>1
      <3> QED
        BY <3>2 DEF Outside
    <2>2. \A p \in U : IsText(w[p]) /\ Len(w[p]) > 0 /\ ToSet(w[p]) \cap Types = {}
      BY <1>17
    <2> QED
      BY <1>1, <1>11, <1>15, <2>1, <2>2, CharactersStayAway
  <1>20. \E b, c : Stands(Substitute(t, f, m), U, b, c, x, w, u)
    <2>1. J \in SUBSET U
      BY <1>9
    <2>2. BeginAt(J, a, Occurrences(t, f))
      BY <1>8 DEF BeginAt, J
    <2>3. \A p \in J : z[p] = a[p] + Len(f)
      BY <1>8
    <2>4. IsText(m) /\ Len(m) > 0
      BY <1>12
    <2> HIDE DEF m
    <2> QED
      BY ONLY <1>10, <1>18, <2>1, <2>2, <2>3, <2>4, StandsAfter
  <1>21. /\ AllTagged(x, U, Types) /\ \A i \in U : x[i][2] \in Nat
         /\ \A i \in U : \E g \in T : Marker(g) = x[i] /\ g.original = w[i]
    <2>1. ASSUME NEW i \in M
          PROVE  /\ Len(x[i]) = 2 /\ x[i][1] \in Types /\ x[i][2] \notin Types /\ x[i][2] \in Nat
                 /\ \E g \in T : Marker(g) = x[i] /\ g.original = w[i]
      <3>1. Len(x[i]) = 2 /\ x[i][1] \in Types /\ x[i][2] \notin Types /\ x[i][2] \in Nat
        BY <1>3, <1>7 DEF AllTagged
      <3>2. PICK g \in T : Marker(g) = Slice(t, i, i + 2)
        BY DEF Sound, Has, M
      <3>3. Values(T, t)[i] = Value(T, Marker(g))
        BY <3>2 DEF Values, M
      <3>4. Value(T, Marker(g)) = g.original
        BY OriginalIsTheEntrys
      <3> QED
        BY <1>7, <3>1, <3>2, <3>3, <3>4
    <2>2. ASSUME NEW i \in J
          PROVE  /\ Len(x[i]) = 2 /\ x[i][1] \in Types /\ x[i][2] \notin Types /\ x[i][2] \in Nat
                 /\ \E g \in T : Marker(g) = x[i] /\ g.original = w[i]
      BY <1>8, <1>12 DEF PlainImports
    <2> QED
      BY <1>9, <2>1, <2>2 DEF AllTagged
  <1>22. Sound(T, Substitute(t, f, m)) /\ Opened(T, Substitute(t, f, m)) = u
    <2> HIDE DEF m
    <2> QED
      BY <1>19, <1>20, <1>21, StandsIsSound
  <1>23. Letters(u) = Letters(Opened(T, t))
    <2>1. Opened(T, t) = Splice(t, Changes(M, a, z, y))
      <3>1. Changes(M, Here(t), There(t), Values(T, t)) = Changes(M, a, z, y)
        BY <1>7 DEF Changes
      <3> QED
        BY <1>2, <3>1
    <2>2. Splice(t, Changes(U, a, z, y)) = Splice(t, Changes(M, a, z, y))
      <3>1. M \in SUBSET U /\ \A p \in U : IsText(y[p])
        BY <1>9, <1>17
      <3>2. \A p \in U \ M : y[p] = Slice(t, a[p], z[p])
        BY <1>4, <1>8, <1>9
      <3> QED
        BY <1>1, <1>15, <3>1, <3>2, PlainPlacesStay
    <2>3. /\ \A p \in U : IsText(w[p])
          /\ \A p \in U : IsText(y[p])
          /\ \A p \in U : Letters(w[p]) = Letters(y[p])
      BY <1>17
    <2>4. PICK S : Builds(t, U, a, z, w, S) /\ Splice(t, Changes(U, a, z, w)) = S[Len(t)]
      BY <1>1, <1>15, <2>3, SpliceIsBuilt
    <2>5. PICK R : Builds(t, U, a, z, y, R) /\ Splice(t, Changes(U, a, z, y)) = R[Len(t)]
      BY <1>1, <1>15, <2>3, SpliceIsBuilt
    <2>6. Letters(S[Len(t)]) = Letters(R[Len(t)])
      BY <2>3, <2>4, <2>5, LettersStay
    <2> QED
      BY <1>11, <2>1, <2>2, <2>4, <2>5, <2>6
  <1> QED
    BY <1>22, <1>23

----------------------------------------------------------------------------
(* The steps, and what the texts restore to *)

\* resolve() gives a new entry a marker that no other one has.
LEMMA MarkersStayUnique ==
  ASSUME TypeOK, Shaped, Unique(table), NEW type \in Types, NEW f, IsText(f), Len(f) > 0,
         table' = table \cup {Resolved(type, f)}
  PROVE  /\ Unique(table') /\ table \subseteq table'
         /\ Resolved(type, f) \in table \/ Resolved(type, f).original = f
  <1>1. CASE Entry(type, f) # {}
    <2>1. Resolved(type, f) \in table
      BY <1>1 DEF Resolved, Entry
    <2>2. table' = table
      BY <2>1
    <2> QED
      BY <2>1, <2>2
  <1>2. CASE Entry(type, f) = {}
    <2> DEFINE used == {0} \cup {e.index : e \in {g \in table : g.type = type}}
               new == Resolved(type, f)
    <2>1. PICK n \in Nat : \A e \in table : e.index \in 1 .. n
      BY DEF Shaped
    <2>2. used \in SUBSET Nat /\ used # {} /\ \A i \in used : i <= n
      BY <2>1 DEF TypeOK
    <2>3. Max(used) \in Nat /\ \A i \in used : i <= Max(used)
      <3> HIDE DEF used
      <3> QED
        BY <2>1, <2>2, MaxIsGreatest
    <2>4. new.type = type /\ new.index = 1 + Max(used) /\ new.original = f
      BY <1>2 DEF Resolved, NextIndex
    <2>5. \A e \in table : e.type = type => e.index \in used
      OBVIOUS
    <2> HIDE DEF used, new
    <2>6. ASSUME NEW e \in table, Marker(e) = Marker(new) PROVE FALSE
      <3>1. e.type = type /\ e.index = new.index
        BY <2>4, <2>6, PlaceholderIsInjective DEF Marker
      <3>2. e.index <= Max(used) /\ e.index \in Nat
        BY <2>3, <2>5, <3>1 DEF TypeOK
      <3> QED
        BY <2>3, <2>4, <3>1, <3>2
    <2>7. table' = table \cup {new}
      BY DEF new
    <2>8. Unique(table')
      BY <2>4, <2>6, <2>7 DEF Unique
    <2> QED
      BY <2>4, <2>7, <2>8 DEF new
  <1> QED
    BY <1>1, <1>2

LEMMA FaithfulForGood ==
  ASSUME NEW T, NEW U, T \subseteq U, Unique(U), NEW t, NEW u, Faithful(T, t, u)
  PROVE  Faithful(U, t, u)
  <1>1. Sound(T, t) /\ Letters(Opened(T, t)) = Letters(u)
    BY DEF Faithful
  <1>2. Sound(U, t) /\ Opened(U, t) = Opened(T, t)
    BY <1>1, SoundForGood
  <1> QED
    BY <1>1, <1>2 DEF Faithful

\* Texts that stay where they are stay faithful when the table grows.
LEMMA KeptStays ==
  ASSUME Kept, table \subseteq table', Unique(table'), first' = first, hit \subseteq hit',
         artefact'.there => artefact.there /\ artefact'.text = artefact.text,
         \A r \in Requests : pc'[r] = "read" => pc[r] = "read" /\ job'[r].text = job[r].text
  PROVE  Kept'
  <1> SUFFICES ASSUME first # NoText, hit = {}
               PROVE  /\ artefact'.there => Faithful(table', artefact'.text, first')
                      /\ \A r \in Requests : pc'[r] = "read" => Faithful(table', job'[r].text, first')
    BY DEF Kept
  <1>1. artefact'.there => Faithful(table', artefact'.text, first')
    BY FaithfulForGood DEF Kept
  <1>2. \A r \in Requests : pc'[r] = "read" => Faithful(table', job'[r].text, first')
    BY FaithfulForGood DEF Kept
  <1> QED
    BY <1>1, <1>2

\* Table, text and history stay, and requests at most end, decide or delete.
Elsewhere ==
  /\ UNCHANGED <<table, artefact, first, hit, imported>>
  /\ Exists' => Exists
  /\ \A q \in Requests : \/ pc'[q] = pc[q] /\ job'[q] = job[q]
                         \/ pc'[q] \in {"idle", "deleting", "unlinking", "unlinkingUpload"}
                         \/ pc'[q] = "deciding" /\ status \in Reviewed

LEMMA ElsewhereKeeps ==
  ASSUME IInv, RInv, Elsewhere
  PROVE  RInv'
  <1>1. Texts'
    BY DEF RInv, Elsewhere, Texts
  <1>2. Unique(table')
    BY DEF RInv, Elsewhere
  <1>3. Apart'
    <2>1. \A q \in Requests : Importing(q)' => Importing(q) /\ pc'[q] = pc[q] /\ job'[q] = job[q]
      BY DEF Elsewhere, Importing
    <2>2. ASSUME NEW q \in Requests, Reviewing(q)', ~Reviewing(q) PROVE status \in Reviewed
      BY <2>2 DEF Elsewhere, Reviewing
    <2>3. ~imported \/ (\E q \in Requests : Importing(q)) => status \notin Reviewed
      BY DEF IInv, OneLife, Importing, Reviewed
    <2> QED
      BY <2>1, <2>2, <2>3 DEF RInv, Elsewhere, Apart, Importing
  <1>4. Assigned'
    BY DEF RInv, Elsewhere, Assigned
  <1>5. Kept'
    BY <1>2, KeptStays DEF RInv, Elsewhere
  <1> QED
    BY <1>1, <1>2, <1>3, <1>4, <1>5 DEF RInv

\* Most steps only end, decide or delete.
LEMMA QuietSteps ==
  ASSUME IInv, NEW r \in Requests,
         \/ ExtractFails(r) \/ StoreSummary(r) \/ Decide(r) \/ BeginDelete(r) \/ DeleteRow(r) \/ Die(r)
         \/ \E d \in {"ready", "rejected"} : BeginDecision(r, d)
  PROVE  Elsewhere
  <1>1. CASE ExtractFails(r)
    BY <1>1 DEF IInv, TypeOK, ExtractFails, Ends, Goto, files, history, Exists, Elsewhere
  <1>2. CASE StoreSummary(r)
    BY <1>2 DEF IInv, TypeOK, StoreSummary, Ends, Goto, files, history, Exists, Elsewhere
  <1>3. CASE Decide(r)
    BY <1>3 DEF IInv, TypeOK, Decide, Ends, Goto, files, history, Exists, Elsewhere
  <1>4. CASE BeginDelete(r)
    BY <1>4 DEF IInv, TypeOK, BeginDelete, Begins, row, files, Exists, Elsewhere
  <1>5. CASE DeleteRow(r)
    <2>1. /\ UNCHANGED <<table, artefact, first, hit, imported>>
          /\ \/ Exists /\ job' = job
             \/ status' = status /\ job' = [job EXCEPT ![r] = NoJob]
      BY <1>5 DEF DeleteRow, Ends, row, files, history
    <2>2. \E l \in {"idle", "unlinking", "unlinkingUpload"} : pc' = [pc EXCEPT ![r] = l]
      BY <1>5 DEF DeleteRow, Ends, Goto
    <2>3. \A q \in Requests : \/ pc'[q] = pc[q] /\ job'[q] = job[q]
                              \/ pc'[q] \in {"idle", "unlinking", "unlinkingUpload"}
      <3>1. PICK l \in {"idle", "unlinking", "unlinkingUpload"} : pc' = [pc EXCEPT ![r] = l]
        BY <2>2
      <3>2. \A q \in Requests : pc'[q] = IF q = r THEN l ELSE pc[q]
        BY <3>1 DEF IInv, TypeOK
      <3>3. \A q \in Requests : q # r => job'[q] = job[q]
        BY <2>1 DEF IInv, Shaped
      <3> QED
        BY <3>2, <3>3
    <2> QED
      BY <2>1, <2>3 DEF Exists, Elsewhere
  <1>6. CASE Die(r)
    BY <1>6 DEF IInv, TypeOK, Die, Ends, Goto, row, files, Exists, Elsewhere
  <1>7. CASE \E d \in {"ready", "rejected"} : BeginDecision(r, d)
    BY <1>7 DEF IInv, TypeOK, BeginDecision, Begins, row, files, Exists, Elsewhere, Reviewed
  <1> QED
    BY <1>1, <1>2, <1>3, <1>4, <1>5, <1>6, <1>7

\* While the document is being imported nothing has been restored.
LEMMA ImportingIsApart ==
  ASSUME IInv, RInv, NEW r \in Requests, Importing(r)
  PROVE  /\ imported /\ first = NoText
         /\ \A q \in Requests : ~Reviewing(q) /\ (Importing(q) => q = r)
         /\ \A e \in table : ToSet(e.original) \cap Types = {}
  BY DEF IInv, OneLife, RInv, Apart, Importing

\* Before the import nothing at all has.
LEMMA BeginImportStays ==
  ASSUME IInv, RInv, NEW r \in Requests, NEW t \in Uploads \cup {Unreadable}, BeginImport(r, t)
  PROVE  RInv'
  <1>1. /\ ~imported /\ \A q \in Requests : pc[q] = "idle"
        /\ pc' = [pc EXCEPT ![r] = "uploaded"] /\ job' = [job EXCEPT ![r] = [NoJob EXCEPT !.text = t]]
        /\ UNCHANGED <<table, artefact, first, hit>>
    BY DEF IInv, OneLife, BeginImport, Begins
  <1>2. \A q \in Requests : pc'[q] = IF q = r THEN "uploaded" ELSE "idle"
    BY <1>1 DEF IInv, TypeOK
  <1>3. job'[r].text = t
    <2> DEFINE new == [NoJob EXCEPT !.text = t]
    <2>1. new.text = t
      BY DEF NoJob
    <2> HIDE DEF new
    <2>2. job'[r] = new
      BY <1>1 DEF IInv, Shaped, new
    <2> QED
      BY <2>1, <2>2
  <1>4. Texts'
    BY <1>1, <1>2, <1>3 DEF RInv, Texts
  <1>5. Unique(table')
    BY <1>1 DEF RInv
  <1>6. Apart'
    BY <1>1, <1>2 DEF RInv, Apart, Reviewing
  <1>7. Assigned'
    BY <1>2 DEF Assigned
  <1>8. Kept'
    BY <1>1, <1>2 DEF RInv, Apart, Kept
  <1> QED
    BY <1>4, <1>5, <1>6, <1>7, <1>8 DEF RInv

LEMMA CreateRowStays ==
  ASSUME IInv, RInv, NEW r \in Requests, CreateRow(r)
  PROVE  RInv'
  <1>1. /\ pc[r] = "uploaded" /\ pc' = [pc EXCEPT ![r] = "created"]
        /\ UNCHANGED <<table, artefact, first, hit, imported, job>>
    BY DEF CreateRow, Goto, files, history
  <1>2. /\ first = NoText
        /\ \A q \in Requests : ~Reviewing(q) /\ (Importing(q) => q = r)
    BY <1>1, ImportingIsApart DEF Importing
  <1>3. Texts'
    BY <1>1 DEF IInv, TypeOK, RInv, Texts
  <1>4. Unique(table')
    BY <1>1 DEF RInv
  <1>5. Apart'
    BY <1>1, <1>2 DEF IInv, TypeOK, RInv, Apart, Importing, Reviewing
  <1>6. Assigned'
    BY <1>1 DEF IInv, TypeOK, RInv, Assigned
  <1>7. Kept'
    BY <1>1, <1>2 DEF Kept
  <1> QED
    BY <1>3, <1>4, <1>5, <1>6, <1>7 DEF RInv

LEMMA ExtractStays ==
  ASSUME IInv, RInv, NEW r \in Requests, Extract(r)
  PROVE  RInv'
  <1>1. /\ pc[r] = "created" /\ pc' = [pc EXCEPT ![r] = "extracted"] /\ job[r].text # Unreadable
        /\ job' = [job EXCEPT ![r].summary = Validate(job[r].text)]
        /\ UNCHANGED <<table, artefact, first, hit, imported, status>>
    BY DEF Extract, Goto, row, files, history
  <1>2. /\ first = NoText
        /\ \A q \in Requests : ~Reviewing(q) /\ (Importing(q) => q = r)
    BY <1>1, ImportingIsApart DEF Importing
  <1>3. \A q \in Requests : job'[q].text = job[q].text /\ (q # r => job'[q] = job[q])
    BY <1>1 DEF IInv, Shaped
  <1>4. Texts'
    BY <1>1, <1>3 DEF IInv, TypeOK, RInv, Texts
  <1>5. Unique(table')
    BY <1>1 DEF RInv
  <1>6. Apart'
    BY <1>1, <1>2, <1>3 DEF IInv, TypeOK, RInv, Apart, Importing, Reviewing, Exists
  <1>7. Assigned'
    BY <1>1, <1>3 DEF IInv, TypeOK, RInv, Assigned
  <1>8. Kept'
    BY <1>1, <1>2 DEF Kept
  <1> QED
    BY <1>4, <1>5, <1>6, <1>7, <1>8 DEF RInv

LEMMA WriteImportStays ==
  ASSUME PlainImports, IInv, RInv, NEW r \in Requests, WriteImport(r)
  PROVE  RInv'
  <1>1. /\ pc[r] = "extracted" /\ pc' = [pc EXCEPT ![r] = "written"]
        /\ artefact' = File(job[r].text)
        /\ UNCHANGED <<table, job, first, hit, imported, status>>
    BY DEF WriteImport, Goto, row, history
  <1>2. /\ first = NoText
        /\ \A q \in Requests : ~Reviewing(q) /\ (Importing(q) => q = r)
    BY <1>1, ImportingIsApart DEF Importing
  <1>3. job[r].text \in Uploads
    BY <1>1 DEF RInv, Texts
  <1>4. IsText(artefact'.text)
    BY <1>1, <1>3 DEF File, PlainImports
  <1>5. Texts'
    BY <1>1, <1>3, <1>4 DEF IInv, TypeOK, RInv, Texts
  <1>6. Unique(table')
    BY <1>1 DEF RInv
  <1>7. Apart'
    <2>1. \A q \in Requests : pc'[q] = "written" => q = r
      BY <1>1, <1>2 DEF IInv, TypeOK, Importing
    <2> QED
      BY <1>1, <1>2, <2>1 DEF IInv, TypeOK, RInv, Apart, Importing, Reviewing, Exists
  <1>8. Assigned'
    BY <1>1 DEF IInv, TypeOK, RInv, Assigned
  <1>9. Kept'
    BY <1>1, <1>2 DEF Kept
  <1> QED
    BY <1>5, <1>6, <1>7, <1>8, <1>9 DEF RInv

\* A clean import is sound: it has markers of the table only.
LEMMA CleanImportIsSound ==
  ASSUME PlainImports, IInv, RInv, NEW r \in Requests, pc[r] = "written", IsClean(job[r].summary)
  PROVE  Sound(table, job[r].text)
  <1> DEFINE t == job[r].text
  <1>1. t \in Uploads /\ Tells(job[r].summary, t)
    BY DEF IInv, Told, RInv, Texts
  <1>2. \A e \in table : ToSet(e.original) \cap Types = {}
    BY ImportingIsApart DEF Importing
  <1>3. Tokens(t) \subseteq Known(t)
    BY <1>1 DEF Tells, IsClean
  <1> HIDE DEF t
  <1>4. IsText(t) /\ \A k \in 1 .. Len(t) : t[k] \in Types => k - 1 \in MarkerStarts(t)
    BY <1>1 DEF PlainImports
  <1>5. ASSUME NEW p \in MarkerStarts(t)
        PROVE  Has(table, Slice(t, p, p + 2)) /\ ToSet(Values(table, t)[p]) \cap Types = {}
    <2>1. Slice(t, p, p + 2) \in Known(t)
      BY <1>3 DEF Tokens
    <2>2. PICK e \in table : Marker(e) = Slice(t, p, p + 2)
      BY <2>1 DEF Known
    <2>3. Value(table, Marker(e)) = e.original
      BY OriginalIsTheEntrys DEF RInv
    <2>4. Values(table, t)[p] = Value(table, Marker(e))
      BY <2>2 DEF Values
    <2> QED
      BY <1>2, <2>2, <2>3, <2>4 DEF Has
  <1>6. Sound(table, t)
    BY <1>4, <1>5 DEF Sound
  <1> QED
    BY <1>6 DEF t

LEMMA StoreImportStays ==
  ASSUME PlainImports, IInv, RInv, NEW r \in Requests, StoreImport(r)
  PROVE  RInv'
  <1>1. /\ pc[r] = "written" /\ pc' = [pc EXCEPT ![r] = "idle"] /\ job' = [job EXCEPT ![r] = NoJob]
        /\ UNCHANGED <<table, artefact, hit, imported>>
        /\ \/ /\ Exists /\ IsClean(job[r].summary) /\ first' = Restored(artefact.text)
           \/ first' = NoText
           \/ first' = first
    BY DEF StoreImport, Ends, Goto, files
  <1>2. /\ imported /\ first = NoText
        /\ \A q \in Requests : ~Reviewing(q) /\ (Importing(q) => q = r)
    BY <1>1, ImportingIsApart DEF Importing
  <1>3. \A q \in Requests : pc'[q] = "idle" \/ (q # r /\ pc'[q] = pc[q] /\ job'[q] = job[q])
    BY <1>1 DEF IInv, TypeOK
  <1>4. Texts'
    BY <1>1, <1>3 DEF RInv, Texts
  <1>5. Unique(table')
    BY <1>1 DEF RInv
  <1>6. Apart'
    BY <1>1, <1>2, <1>3 DEF Apart, Importing
  <1>7. Assigned'
    BY <1>1, <1>3 DEF RInv, Assigned
  <1>8. Kept'
    <2>1. \A q \in Requests : pc'[q] # "read"
      BY <1>2, <1>3 DEF Reviewing
    <2>2. CASE Exists /\ IsClean(job[r].summary) /\ first' = Restored(artefact.text)
      <3> DEFINE t == artefact.text
      <3>1. artefact = File(job[r].text)
        BY <1>1, <2>2 DEF RInv, Apart
      <3>2. t = job[r].text
        BY <3>1 DEF File
      <3>3. Sound(table, t)
        BY <1>1, <2>2, <3>2, CleanImportIsSound
      <3> HIDE DEF t
      <3>4. Restored(t) = Opened(table, t)
        BY <3>3, SoundRestores DEF RInv
      <3>5. first' = Restored(t)
        BY <2>2 DEF t
      <3>6. Faithful(table, t, first')
        BY <3>3, <3>4, <3>5 DEF Faithful
      <3>7. Faithful(table, artefact.text, first')
        BY <3>6 DEF t
      <3> QED
        BY <1>1, <2>1, <3>7 DEF Kept
    <2>3. CASE first' = NoText
      BY <2>3 DEF Kept
    <2> QED
      BY <1>1, <1>2, <2>2, <2>3
  <1> QED
    BY <1>4, <1>5, <1>6, <1>7, <1>8 DEF RInv

\* What a reviewer selects is a text of the screen.
LEMMA BeginRedactionStays ==
  ASSUME IInv, RInv, NEW r \in Requests, NEW f \in Fragments, NEW type, BeginRedaction(r, f, type)
  PROVE  RInv'
  <1>1. /\ pc' = [pc EXCEPT ![r] = "redacting"] /\ status = "pending_review"
        /\ job' = [job EXCEPT ![r] = [NoJob EXCEPT !.fragment = f, !.type = type]]
        /\ UNCHANGED <<table, artefact, first, hit, imported, status>>
    BY DEF BeginRedaction, Begins, row, files
  <1>2. job'[r].fragment = f
    <2> DEFINE new == [NoJob EXCEPT !.fragment = f, !.type = type]
    <2>1. new.fragment = f
      BY DEF NoJob
    <2> HIDE DEF new
    <2>2. job'[r] = new
      BY <1>1 DEF IInv, Shaped, new
    <2> QED
      BY <2>1, <2>2
  <1>3. IsText(f) /\ Len(f) > 0
    <2>1. PICK p \in 0 .. Len(artefact.text), q \in 1 .. Len(artefact.text) :
            f = Slice(artefact.text, p, q)
      BY DEF Fragments
    <2>2. f # <<>>
      BY DEF Fragments, ToSet
    <2>3. IsText(artefact.text)
      BY DEF RInv, Texts
    <2>4. p \in Int /\ q \in Int
      OBVIOUS
    <2>5. IsText(Slice(artefact.text, p, q))
      BY <2>3, <2>4, SliceIsText
    <2>6. IsText(f)
      BY <2>1, <2>5
    <2> QED
      BY <2>2, <2>6, EmptyHasNoLength, TextHasLength
  <1>4. \A q \in Requests : /\ q # r => pc'[q] = pc[q] /\ job'[q] = job[q]
                            /\ pc'[r] = "redacting"
    BY <1>1 DEF IInv, TypeOK
  <1>5. imported /\ \A q \in Requests : ~Importing(q)
    BY <1>1 DEF IInv, OneLife, Importing
  <1>6. Texts'
    BY <1>1, <1>2, <1>3, <1>4 DEF RInv, Texts
  <1>7. Unique(table')
    BY <1>1 DEF RInv
  <1>8. Apart'
    <2>1. \A q \in Requests : pc'[q] \notin {"uploaded", "created", "extracted", "written"}
      BY <1>4, <1>5 DEF Importing
    <2> QED
      BY <1>1, <1>5, <2>1 DEF Apart, Importing
  <1>9. Assigned'
    BY <1>1, <1>4 DEF RInv, Assigned
  <1>10. Kept'
    <2>1. \A q \in Requests : pc'[q] = "read" => pc[q] = "read" /\ job'[q].text = job[q].text
      BY <1>4
    <2>2. table \subseteq table' /\ first' = first /\ hit \subseteq hit' /\ artefact' = artefact
      BY <1>1
    <2> QED
      BY <1>7, <2>1, <2>2, KeptStays DEF RInv
  <1> QED
    BY <1>6, <1>7, <1>8, <1>9, <1>10 DEF RInv

\* While the document is under review its import is over.
LEMMA ReviewingIsLater ==
  ASSUME IInv, RInv, NEW r \in Requests, Reviewing(r)
  PROVE  imported /\ \A q \in Requests : ~Importing(q)
  BY DEF RInv, Apart

LEMMA OtherDocumentStays ==
  ASSUME PlainImports, IInv, RInv, NEW type \in Types, NEW f \in OtherValues, OtherDocument(type, f)
  PROVE  RInv'
  <1>1. /\ table' = table \cup {Resolved(type, f)}
        /\ UNCHANGED <<artefact, first, hit, imported, status, pc, job>>
    BY DEF OtherDocument, row, files, history
  <1>2. IsText(f) /\ Len(f) > 0 /\ ToSet(f) \cap Types = {}
    BY DEF PlainImports
  <1>3. /\ Unique(table') /\ table \subseteq table'
        /\ Resolved(type, f) \in table \/ Resolved(type, f).original = f
    BY <1>1, <1>2, MarkersStayUnique DEF IInv, RInv
  <1>4. Texts'
    BY <1>1 DEF RInv, Texts
  <1>5. Apart'
    BY <1>1, <1>2, <1>3 DEF RInv, Apart, Importing, Reviewing, Exists
  <1>6. Assigned'
    BY <1>1, <1>3 DEF RInv, Assigned
  <1>7. Kept'
    BY <1>1, <1>3, KeptStays DEF RInv
  <1> QED
    BY <1>3, <1>4, <1>5, <1>6, <1>7 DEF RInv

\* The fragment's marker is that of an entry, with its letters but for a hit.
LEMMA ResolveMarkerStays ==
  ASSUME IInv, RInv, NEW r \in Requests, ResolveMarker(r)
  PROVE  RInv'
  <1> DEFINE f == job[r].fragment
             entry == Resolved(job[r].type, f)
  <1>1. /\ pc[r] = "redacting" /\ pc' = [pc EXCEPT ![r] = "resolved"]
        /\ table' = table \cup {entry}
        /\ job' = [job EXCEPT ![r].marker = Marker(entry)]
        /\ hit' = hit \cup (IF Letters(entry.original) = Letters(f) THEN {} ELSE {"spelling"})
        /\ UNCHANGED <<artefact, first, imported>>
    BY DEF ResolveMarker, Goto, row, files
  <1>2. job[r].type \in Types /\ IsText(f) /\ Len(f) > 0
    BY <1>1 DEF IInv, Shaped, RInv, Texts
  <1>3. Unique(table') /\ table \subseteq table'
    BY <1>1, <1>2, MarkersStayUnique DEF IInv, RInv
  <1>4. imported /\ \A q \in Requests : ~Importing(q)
    BY <1>1, ReviewingIsLater DEF Reviewing
  <1>5. \A q \in Requests : /\ pc'[q] = IF q = r THEN "resolved" ELSE pc[q]
                            /\ job'[q].text = job[q].text /\ job'[q].fragment = job[q].fragment
                            /\ job'[q].marker = IF q = r THEN Marker(entry) ELSE job[q].marker
    <2> DEFINE m == Marker(entry)
    <2> HIDE DEF m
    <2>1. \A q \in Requests : job'[q] = IF q = r THEN [job[r] EXCEPT !.marker = m] ELSE job[q]
      BY <1>1 DEF IInv, Shaped, m
    <2>2. \A q \in Requests : /\ job'[q].text = job[q].text /\ job'[q].fragment = job[q].fragment
                              /\ job'[q].marker = IF q = r THEN m ELSE job[q].marker
      BY <2>1 DEF IInv, Shaped, Fields
    <2> QED
      BY <1>1, <2>2 DEF IInv, TypeOK, m
  <1>6. hit' = {} => hit = {} /\ Letters(entry.original) = Letters(f)
    BY <1>1
  <1>7. entry \in table'
    BY <1>1
  <1>8. hit \subseteq hit'
    BY <1>1
  <1> HIDE DEF entry
  <1>9. Texts'
    BY <1>1, <1>2, <1>5 DEF RInv, Texts
  <1>10. Apart'
    BY <1>1, <1>4, <1>5 DEF Apart, Importing
  <1>11. Assigned'
    BY <1>3, <1>5, <1>6, <1>7 DEF RInv, Assigned
  <1>12. Kept'
    <2>1. \A q \in Requests : pc'[q] = "read" => pc[q] = "read" /\ job'[q].text = job[q].text
      BY <1>5
    <2>2. first' = first /\ artefact' = artefact /\ Kept
      BY <1>1 DEF RInv
    <2> QED
      BY <1>3, <1>8, <2>1, <2>2, KeptStays
  <1> QED
    BY <1>3, <1>9, <1>10, <1>11, <1>12 DEF RInv

\* What is to be written is as faithful as what was read, but for a hit.
LEMMA ReadTextStays ==
  ASSUME PlainImports, IInv, RInv, NEW r \in Requests, ReadText(r)
  PROVE  RInv'
  <1> DEFINE f == job[r].fragment
             t == artefact.text
             m == job[r].marker
             new == Substitute(t, f, m)
  <1>1. /\ pc[r] = "resolved" /\ UNCHANGED <<table, artefact, first, imported>>
        /\ \/ /\ artefact.there /\ pc' = [pc EXCEPT ![r] = "read"]
              /\ job' = [job EXCEPT ![r].text = new]
              /\ hit' = hit \cup (IF Touches(t, f) THEN {"marker"} ELSE {})
           \/ /\ pc' = [pc EXCEPT ![r] = "idle"] /\ job' = [job EXCEPT ![r] = NoJob] /\ hit' = hit
    BY DEF ReadText, Ends, Goto, files
  <1>2. PICK e \in table : Marker(e) = m /\ (hit = {} => Letters(e.original) = Letters(f))
    BY <1>1 DEF RInv, Assigned
  <1>3. e.type \in Types /\ e.index \in Nat
    BY DEF IInv, TypeOK
  <1>4. IsText(t) /\ IsText(f) /\ Len(f) > 0
    BY <1>1 DEF RInv, Texts
  <1>5. imported /\ \A q \in Requests : ~Importing(q)
    BY <1>1, ReviewingIsLater DEF Reviewing
  <1>6. IsText(new)
    <2>1. IsText(m)
      BY <1>2, PlaceholderIsText DEF Marker
    <2> HIDE DEF t, f, m
    <2> QED
      BY <1>4, <2>1, SubstituteIsText
  <1>7. ASSUME first # NoText, hit = {}, artefact.there, ~Touches(t, f)
        PROVE  Faithful(table, new, first)
    <2>1. Sound(table, t) /\ Letters(Opened(table, t)) = Letters(first)
      BY <1>7 DEF RInv, Kept, Faithful
    <2>2. Letters(e.original) = Letters(f)
      BY <1>2, <1>7
    <2>3. Unique(table)
      BY DEF RInv
    <2>4. ~Touches(t, f)
      BY <1>7
    <2> HIDE DEF t, f
    <2>5. /\ Sound(table, Substitute(t, f, Marker(e)))
          /\ Letters(Opened(table, Substitute(t, f, Marker(e)))) = Letters(Opened(table, t))
      BY <1>3, <1>4, <2>1, <2>2, <2>3, <2>4, RedactionStaysSound
    <2>6. new = Substitute(t, f, Marker(e))
      BY <1>2
    <2> HIDE DEF new
    <2> QED
      BY <2>1, <2>5, <2>6 DEF Faithful
  <1> HIDE DEF new, m
  <1>8. \A q \in Requests : \/ q # r /\ pc'[q] = pc[q] /\ job'[q] = job[q]
                            \/ q = r /\ pc'[q] = "idle"
                            \/ /\ q = r /\ pc'[q] = "read" /\ job'[q].text = new /\ artefact.there
                               /\ hit' = {} => ~Touches(t, f)
    BY <1>1 DEF IInv, TypeOK, Shaped, Fields
  <1>9. hit \subseteq hit'
    BY <1>1
  <1>10. Texts'
    BY <1>1, <1>6, <1>8 DEF RInv, Texts
  <1>11. Unique(table')
    BY <1>1 DEF RInv
  <1>12. Apart'
    BY <1>1, <1>5, <1>8 DEF Apart, Importing
  <1>13. Assigned'
    BY <1>1, <1>8, <1>9 DEF RInv, Assigned
  <1>14. Kept'
    <2> SUFFICES ASSUME first # NoText, hit' = {}
                 PROVE  /\ artefact.there => Faithful(table, artefact.text, first)
                        /\ \A q \in Requests : pc'[q] = "read" => Faithful(table, job'[q].text, first)
      BY <1>1 DEF Kept
    <2>1. hit = {} /\ Kept
      BY <1>9 DEF RInv
    <2> QED
      BY <1>7, <1>8, <2>1 DEF Kept
  <1> QED
    BY <1>10, <1>11, <1>12, <1>13, <1>14 DEF RInv

LEMMA WriteTextStays ==
  ASSUME IInv, RInv, NEW r \in Requests, WriteText(r)
  PROVE  RInv'
  <1>1. /\ pc[r] = "read" /\ pc' = [pc EXCEPT ![r] = "replaced"]
        /\ artefact' = File(job[r].text)
        /\ UNCHANGED <<table, first, hit, imported, job>>
    BY DEF WriteText, Goto, history
  <1>2. artefact'.text = job[r].text
    BY <1>1 DEF File
  <1>3. imported /\ \A q \in Requests : ~Importing(q)
    BY <1>1, ReviewingIsLater DEF Reviewing
  <1>4. \A q \in Requests : pc'[q] = IF q = r THEN "replaced" ELSE pc[q]
    BY <1>1 DEF IInv, TypeOK
  <1>5. Texts'
    BY <1>1, <1>2, <1>4 DEF RInv, Texts
  <1>6. Unique(table')
    BY <1>1 DEF RInv
  <1>7. Apart'
    BY <1>1, <1>3, <1>4 DEF Apart, Importing
  <1>8. Assigned'
    BY <1>1, <1>4 DEF RInv, Assigned
  <1>9. Kept'
    BY <1>1, <1>2, <1>4 DEF RInv, Kept
  <1> QED
    BY <1>5, <1>6, <1>7, <1>8, <1>9 DEF RInv

LEMMA UnlinkStays ==
  ASSUME IInv, RInv, NEW r \in Requests, Unlink(r)
  PROVE  RInv'
  <1>1. /\ Removing(r) /\ pc' = [pc EXCEPT ![r] = "idle"] /\ job' = [job EXCEPT ![r] = NoJob]
        /\ artefact' = artefact \/ artefact' = NoFile
        /\ UNCHANGED <<table, first, hit, imported, status>>
    BY DEF Unlink, Ends, Goto, row, history, Removing
  <1>2. \A q \in Requests : pc'[q] = "idle" \/ (pc'[q] = pc[q] /\ job'[q] = job[q])
    BY <1>1 DEF IInv, TypeOK, Shaped
  <1>3. NoFile.text = <<>> /\ ~NoFile.there
    BY DEF NoFile
  <1>4. ~Exists'
    BY <1>1 DEF IInv, OneLife, Exists
  <1>5. IsText(artefact'.text)
    BY <1>1, <1>3, EmptyIsText DEF RInv, Texts
  <1>6. Texts'
    BY <1>2, <1>5 DEF RInv, Texts
  <1>7. Unique(table')
    BY <1>1 DEF RInv
  <1>8. Apart'
    BY <1>1, <1>2, <1>4 DEF RInv, Apart, Importing, Reviewing
  <1>9. Assigned'
    BY <1>1, <1>2 DEF RInv, Assigned
  <1>10. Kept'
    BY <1>1, <1>2, <1>3 DEF RInv, Kept
  <1> QED
    BY <1>6, <1>7, <1>8, <1>9, <1>10 DEF RInv

LEMMA InitRestores == Init => RInv
  <1> SUFFICES ASSUME Init PROVE RInv
    OBVIOUS
  <1>1. Texts
    BY EmptyIsText DEF Init, Texts, NoFile
  <1>2. Unique(table)
    BY DEF Init, Unique
  <1>3. Apart /\ Assigned /\ Kept
    BY DEF Init, Apart, Assigned, Kept, Reviewing
  <1> QED
    BY <1>1, <1>2, <1>3 DEF RInv

LEMMA NextRestores ==
  ASSUME PlainImports, IInv, RInv, [Next]_vars
  PROVE  RInv'
  <1>1. ASSUME NEW r \in Requests, Import(r) \/ \E t \in Uploads \cup {Unreadable} : BeginImport(r, t)
        PROVE  RInv'
    <2>1. CASE ExtractFails(r)
      BY <2>1, QuietSteps, ElsewhereKeeps
    <2> QED
      BY <1>1, <2>1, BeginImportStays, CreateRowStays, ExtractStays, WriteImportStays,
         StoreImportStays DEF Import
  <1>2. ASSUME NEW r \in Requests,
               \/ \E f \in Fragments, type \in Types : BeginRedaction(r, f, type)
               \/ ResolveMarker(r) \/ ReadText(r) \/ WriteText(r) \/ Unlink(r)
        PROVE  RInv'
    BY <1>2, BeginRedactionStays, ResolveMarkerStays, ReadTextStays, WriteTextStays, UnlinkStays
  <1>3. ASSUME NEW r \in Requests,
               \/ StoreSummary(r) \/ Decide(r) \/ BeginDelete(r) \/ DeleteRow(r) \/ Die(r)
               \/ \E d \in {"ready", "rejected"} : BeginDecision(r, d)
        PROVE  RInv'
    BY <1>3, QuietSteps, ElsewhereKeeps
  <1>4. CASE \E type \in Types, f \in OtherValues : OtherDocument(type, f)
    BY <1>4, OtherDocumentStays
  <1>5. CASE DeleteContainer \/ UNCHANGED vars
    <2>1. Elsewhere
      BY <1>5 DEF DeleteContainer, vars, row, files, history, Exists, Elsewhere
    <2> QED
      BY <2>1, ElsewhereKeeps
  <1> QED
    BY <1>1, <1>2, <1>3, <1>4, <1>5 DEF Next

\* A document whose import was clean restores to the same letters for good,
\* whatever the texts and however requests overlap, unless a redaction ran into
\* a marker or into another spelling (containers/restore_service.py).
THEOREM CleanImportsStayFaithful ==
  ASSUME PlainImports
  PROVE  Spec => []CleanImportRestores
  <1>1. Init => IInv /\ RInv
    BY InitHolds, InitRestores
  <1>2. IInv /\ RInv /\ [Next]_vars => (IInv /\ RInv)'
    BY NextKeeps, NextRestores
  <1>3. RInv => CleanImportRestores
    <2> SUFFICES ASSUME RInv, first # NoText, hit = {}, artefact.there
                 PROVE  Letters(Restored(artefact.text)) = Letters(first)
      BY DEF CleanImportRestores
    <2>1. Sound(table, artefact.text) /\ Letters(Opened(table, artefact.text)) = Letters(first)
      BY DEF RInv, Kept, Faithful
    <2>2. Restored(artefact.text) = Opened(table, artefact.text)
      BY <2>1, SoundRestores DEF RInv
    <2> QED
      BY <2>1, <2>2
  <1> QED
    BY <1>1, <1>2, <1>3, PTL DEF Spec

===============================================================================
