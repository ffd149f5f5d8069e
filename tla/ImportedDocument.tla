--------------------------- MODULE ImportedDocument ---------------------------
(***************************************************************************)
(* A document that comes into a container already pseudonymized, and its   *)
(* review: the import, the validation of its markers against the           *)
(* container's table, the reviewer's manual redactions, the decision, the  *)
(* restoration of the original values, and the deletion of the document or *)
(* of its container (containers/service.py, validation_service.py,         *)
(* restore_service.py and the endpoints of routers/containers.py).         *)
(*                                                                         *)
(* A step is one commit or one write to a file; the two unlinks of a       *)
(* deletion are one step, and so is resolve(): what its transactions do to *)
(* each other is MarkerResolver.  The texts are those of TextEdits: a      *)
(* marker is two characters, its label, which stands for the entity type,  *)
(* and its index.                                                          *)
(***************************************************************************)
EXTENDS TextEdits

CONSTANTS
  Requests,     \* requests in flight
  Types,        \* entity types
  DigitTypes,   \* those whose values are compared by their digits alone
  NameTypes,    \* those for which marks on letters do not matter: person, company
  MailTypes,    \* those whose white space is removed at the ends only: e-mail
  Plain,        \* the lower-case form of letters without their marks
  Odd,          \* characters that stand for bracketed tokens that are no marker
  Uploads,      \* texts that may be imported
  Unreadable,   \* a file whose extraction fails
  OtherValues,  \* values that the container's other documents bring in
  NoText,       \* no text, no summary
  MaxMarkers,   \* bound: entries of the table
  MaxEdits      \* bound: manual redactions begun

ASSUME KindsAreTypes == DigitTypes \cup NameTypes \cup MailTypes \subseteq Types
ASSUME KindsDiffer == \A x, y \in {DigitTypes, NameTypes, MailTypes} : x = y \/ x \cap y = {}
ASSUME BoundsAreNumbers == MaxMarkers \in Nat /\ MaxEdits \in Nat
ASSUME UnreadableIsNoUpload == Unreadable \notin Uploads /\ Unreadable # NoText

VARIABLES
  container,  \* its row exists
  table,      \* its mapping entries
  status,     \* of the document's row; "none" without a row
  path,       \* pseudonymized_path of the row is set
  summary,    \* validation_summary_json of the row
  upload,     \* the uploaded file is there
  artefact,   \* the file of the pseudonymized text: whether it is there, and the text
  imported,   \* the import has been requested
  edits,      \* manual redactions begun
  pc,         \* where each request is
  job,        \* its arguments and local variables
  first,      \* history: what a clean import restored to
  hit,        \* history: what a manual redaction ran into
  raced       \* history: two requests overlapped, or one died

row == <<status, path, summary>>
files == <<upload, artefact>>
history == <<first, hit, raced>>
vars == <<container, table, row, files, imported, edits, pc, job, history>>

NoJob == [fragment |-> <<>>, type |-> NoText, marker |-> <<>>, text |-> NoText,
          summary |-> NoText, status |-> "none"]

NoFile == [there |-> FALSE, text |-> <<>>]
File(t) == [there |-> TRUE, text |-> t]

Statuses == {"none", "processing", "pending_review", "ready", "rejected", "failed"}

----------------------------------------------------------------------------
(* Markers: validate_pseudonymized_text() and restore_text() *)

\* Where the well-formed markers begin.
MarkerStarts(t) == {p \in 0 .. (Len(t) - 2) : t[p + 1] \in Types /\ t[p + 2] \in Nat}

Tokens(t) == {Slice(t, p, p + 2) : p \in MarkerStarts(t)}
Marker(e) == Placeholder(e.type, e.index)
Known(t) == {m \in Tokens(t) : \E e \in table : Marker(e) = m}

\* The summary: its three lists, and the number of tokens.
Validate(t) ==
  [total |-> Cardinality(MarkerStarts(t)), known |-> Known(t),
   unknown |-> Tokens(t) \ Known(t), malformed |-> ToSet(t) \cap Odd]

\* The summary s was right about t, and what it calls known still is.
Tells(s, t) ==
  /\ s.total = Cardinality(MarkerStarts(t))
  /\ s.known \cup s.unknown = Tokens(t) /\ s.known \subseteq Known(t)
  /\ s.malformed = ToSet(t) \cap Odd

IsClean(s) == s.unknown = {} /\ s.malformed = {}

Original(m) == (CHOOSE e \in table : Marker(e) = m).original

\* The known markers are replaced one after the other, in the order of their
\* first tokens (labels of one length).
Restored(t) ==
  LET firsts == {p \in MarkerStarts(t) :
                   /\ Slice(t, p, p + 2) \in Known(t)
                   /\ \A q \in MarkerStarts(t) : Slice(t, q, q + 2) = Slice(t, p, p + 2) => p <= q}
      order == Ascending(firsts)
      sought == [k \in 1 .. Len(order) |-> Slice(t, order[k], order[k] + 2)]
  IN  ReplacedInTurn(t, sought, [k \in 1 .. Len(order) |-> Original(sought[k])])

----------------------------------------------------------------------------
(* The table: MarkerResolver.resolve() *)

IsDigit(c) == c \in Nat

\* f.strip()
Stripped(f) ==
  LET solid == {i \in 1 .. Len(f) : f[i] \notin White}
  IN  IF solid = {} THEN <<>> ELSE SubSeq(f, Min(solid), Max(solid))

\* A value is compared by its characters, one after the other.
Whole(f) == [letters |-> f, breaks |-> {}]

\* normalize(), and the stripped text where that leaves nothing.
Normal(type, f) ==
  LET digits == SelectSeq(f, IsDigit)
      lower == [i \in DOMAIN f |-> IF f[i] \in DOMAIN Lower THEN Lower[f[i]] ELSE f[i]]
  IN  CASE type \in DigitTypes -> Whole(IF digits # <<>> THEN digits ELSE Stripped(f))
        [] type \in MailTypes -> Whole(Stripped(lower))
        [] type \in NameTypes -> KeyBy(f, Plain)
        [] OTHER -> Key(f)

Entry(type, f) == {e \in table : e.type = type /\ e.value = Normal(type, f)}

\* Wrong on purpose (see README, "Mutants"): the entries of one value count.
NextIndex_PerValue(type, f) == 1 + Cardinality(Entry(type, f))

\* Wrong on purpose: the first index is zero.
NextIndex_FromZero(type, f) ==
  Max({0} \cup {1 + e.index : e \in {g \in table : g.type = type}})

NextIndex(type, f) == 1 + Max({0} \cup {e.index : e \in {g \in table : g.type = type}})

\* The entry for f: the one of its value, or a new one.
Resolved(type, f) ==
  IF Entry(type, f) # {} THEN CHOOSE e \in Entry(type, f) : TRUE
  ELSE [type |-> type, value |-> Normal(type, f), index |-> NextIndex(type, f), original |-> f]

\* The promotion of another document, or its manual redaction.
OtherDocument(type, f) ==
  /\ container
  /\ Entry(type, f) # {} \/ Cardinality(table) < MaxMarkers
  /\ table' = table \cup {Resolved(type, f)}
  /\ UNCHANGED <<container, row, files, imported, edits, pc, job, history>>

----------------------------------------------------------------------------
Init ==
  /\ container = TRUE /\ table = {}
  /\ status = "none" /\ path = FALSE /\ summary = NoText
  /\ upload = FALSE /\ artefact = NoFile
  /\ imported = FALSE /\ edits = 0
  /\ pc = [r \in Requests |-> "idle"] /\ job = [r \in Requests |-> NoJob]
  /\ first = NoText /\ hit = {} /\ raced = FALSE

\* A request r begins: what it does from here on, and with what.
Begins(r, where, with) ==
  /\ pc[r] = "idle"
  /\ pc' = [pc EXCEPT ![r] = where] /\ job' = [job EXCEPT ![r] = with]
  /\ raced' = (raced \/ \E q \in Requests : pc[q] # "idle")
  /\ UNCHANGED <<first, hit>>

Goto(r, where) == pc' = [pc EXCEPT ![r] = where]

Ends(r) == Goto(r, "idle") /\ job' = [job EXCEPT ![r] = NoJob]

Exists == status # "none"

----------------------------------------------------------------------------
(* add_pseudonymized_document() *)

\* The checks, and the upload goes to its file.
BeginImport(r, t) ==
  /\ container /\ ~imported
  /\ Begins(r, "uploaded", [NoJob EXCEPT !.text = t])
  /\ imported' = TRUE /\ upload' = TRUE
  /\ UNCHANGED <<container, table, row, artefact, edits>>

CreateRow(r) ==
  /\ pc[r] = "uploaded"
  /\ status' = "processing"
  /\ Goto(r, "created")
  /\ UNCHANGED <<container, table, path, summary, files, imported, edits, job, history>>

\* Recorded in the row, if that is still there.
ExtractFails(r) ==
  /\ pc[r] = "created" /\ job[r].text = Unreadable
  /\ status' = IF Exists THEN "failed" ELSE status
  /\ Ends(r)
  /\ UNCHANGED <<container, table, path, summary, files, imported, edits, history>>

\* The text is extracted and its markers are looked up.
Extract(r) ==
  /\ pc[r] = "created" /\ job[r].text # Unreadable
  /\ job' = [job EXCEPT ![r].summary = Validate(job[r].text)]
  /\ Goto(r, "extracted")
  /\ UNCHANGED <<container, table, row, files, imported, edits, history>>

WriteImport(r) ==
  /\ pc[r] = "extracted"
  /\ artefact' = File(job[r].text)
  /\ Goto(r, "written")
  /\ UNCHANGED <<container, table, row, upload, imported, edits, job, history>>

\* The row gets path and summary; without a row an assertion fails.
StoreImport(r) ==
  /\ pc[r] = "written"
  /\ IF Exists
     THEN /\ status' = "pending_review" /\ path' = TRUE /\ summary' = job[r].summary
          /\ first' = IF IsClean(job[r].summary) THEN Restored(artefact.text) ELSE NoText
     ELSE UNCHANGED <<row, first>>
  /\ Ends(r)
  /\ UNCHANGED <<container, table, files, imported, edits, hit, raced>>

----------------------------------------------------------------------------
(* apply_manual_redaction_to_pseudonymized() *)

BeginRedaction(r, f, type) ==
  /\ container /\ status = "pending_review" /\ path /\ edits < MaxEdits
  /\ Begins(r, "redacting", [NoJob EXCEPT !.fragment = f, !.type = type])
  /\ edits' = edits + 1
  /\ UNCHANGED <<container, table, row, files, imported>>

\* The fragment's marker, before it is known whether the fragment occurs.
ResolveMarker(r) ==
  LET f == job[r].fragment
      entry == Resolved(job[r].type, f)
  IN  /\ pc[r] = "redacting"
      /\ table' = table \cup {entry}
      /\ job' = [job EXCEPT ![r].marker = Marker(entry)]
      /\ hit' = hit \cup (IF Letters(entry.original) = Letters(f) THEN {} ELSE {"spelling"})
      /\ Goto(r, "resolved")
      /\ UNCHANGED <<container, row, files, imported, edits, first, raced>>

\* The fragment contains a marker's character, or is found within one.
Touches(t, f) ==
  \E p \in Occurrences(t, f), q \in MarkerStarts(t) : p < q + 2 /\ q < p + Len(f)

\* The file is read; a fragment that is not in it is refused.
ReadText(r) ==
  /\ pc[r] = "resolved"
  /\ LET f == job[r].fragment  t == artefact.text
     IN  IF artefact.there /\ Matches(t, f) # {}
         THEN /\ job' = [job EXCEPT ![r].text = Substitute(t, f, job[r].marker)]
              /\ hit' = hit \cup (IF Touches(t, f) THEN {"marker"} ELSE {})
              /\ Goto(r, "read")
         ELSE Ends(r) /\ UNCHANGED hit
  /\ UNCHANGED <<container, table, row, files, imported, edits, first, raced>>

WriteText(r) ==
  /\ pc[r] = "read"
  /\ artefact' = File(job[r].text)
  /\ Goto(r, "replaced")
  /\ UNCHANGED <<container, table, row, upload, imported, edits, job, history>>

\* Wrong on purpose: the summary of the import is kept.
StoreSummary_Old(r) ==
  /\ pc[r] = "replaced"
  /\ Ends(r)
  /\ UNCHANGED <<container, table, row, files, imported, edits, history>>

\* The new text is validated again and the summary stored, if there is a row.
StoreSummary(r) ==
  /\ pc[r] = "replaced"
  /\ summary' = IF Exists THEN Validate(job[r].text) ELSE summary
  /\ Ends(r)
  /\ UNCHANGED <<container, table, status, path, files, imported, edits, history>>

----------------------------------------------------------------------------
(* approve_ and reject_pseudonymized_document() *)

BeginDecision(r, decision) ==
  /\ container /\ status = "pending_review"
  /\ Begins(r, "deciding", [NoJob EXCEPT !.status = decision])
  /\ UNCHANGED <<container, table, row, files, imported, edits>>

\* Whatever the row says by now; without a row an assertion fails.
Decide(r) ==
  /\ pc[r] = "deciding"
  /\ status' = IF Exists THEN job[r].status ELSE status
  /\ Ends(r)
  /\ UNCHANGED <<container, table, path, summary, files, imported, edits, history>>

----------------------------------------------------------------------------
(* delete_document(); its mapping entries stay. *)

BeginDelete(r) ==
  /\ container /\ Exists
  /\ Begins(r, "deleting", NoJob)
  /\ UNCHANGED <<container, table, row, files, imported, edits>>

\* The row goes first; without one the request fails.  The commit that deletes
\* the spans expires the row, so its paths are read again here.
DeleteRow(r) ==
  /\ pc[r] = "deleting"
  /\ IF Exists
     THEN /\ status' = "none" /\ path' = FALSE /\ summary' = NoText
          /\ Goto(r, IF path THEN "unlinking" ELSE "unlinkingUpload") /\ UNCHANGED job
     ELSE Ends(r) /\ UNCHANGED row
  /\ UNCHANGED <<container, table, files, imported, edits, history>>

\* Wrong on purpose: only the text goes.
Unlink_TextOnly(r) ==
  /\ pc[r] \in {"unlinking", "unlinkingUpload"}
  /\ artefact' = IF pc[r] = "unlinking" THEN NoFile ELSE artefact
  /\ Ends(r)
  /\ UNCHANGED <<container, table, row, upload, imported, edits, history>>

\* Then the upload, and the text if the row had its path.
Unlink(r) ==
  /\ pc[r] \in {"unlinking", "unlinkingUpload"}
  /\ upload' = FALSE
  /\ artefact' = IF pc[r] = "unlinking" THEN NoFile ELSE artefact
  /\ Ends(r)
  /\ UNCHANGED <<container, table, row, imported, edits, history>>

----------------------------------------------------------------------------
\* delete() of the container: its row, and nothing that refers to it.
DeleteContainer ==
  /\ container
  /\ container' = FALSE
  /\ UNCHANGED <<table, row, files, imported, edits, pc, job, history>>

\* The server stops, or the request raises, between two steps.
Die(r) ==
  /\ pc[r] # "idle"
  /\ Ends(r) /\ raced' = TRUE
  /\ UNCHANGED <<container, table, row, files, imported, edits, first, hit>>

\* What the reviewer may select in the text on the screen: not white space alone.
Fragments ==
  LET t == artefact.text
  IN  {f \in {Slice(t, p, q) : p \in 0 .. Len(t), q \in 1 .. Len(t)} : ~(ToSet(f) \subseteq White)}

Import(r) == CreateRow(r) \/ ExtractFails(r) \/ Extract(r) \/ WriteImport(r) \/ StoreImport(r)

Next ==
  \/ \E r \in Requests :
       \/ \E t \in Uploads \cup {Unreadable} : BeginImport(r, t)
       \/ Import(r)
       \/ \E f \in Fragments, type \in Types : BeginRedaction(r, f, type)
       \/ ResolveMarker(r) \/ ReadText(r) \/ WriteText(r) \/ StoreSummary(r)
       \/ \E d \in {"ready", "rejected"} : BeginDecision(r, d)
       \/ Decide(r)
       \/ BeginDelete(r) \/ DeleteRow(r) \/ Unlink(r)
       \/ Die(r)
  \/ \E type \in Types, f \in OtherValues : OtherDocument(type, f)
  \/ DeleteContainer

Spec == Init /\ [][Next]_vars

----------------------------------------------------------------------------
(* Properties *)

TypeOK ==
  /\ container \in BOOLEAN /\ path \in BOOLEAN /\ upload \in BOOLEAN
  /\ imported \in BOOLEAN /\ raced \in BOOLEAN
  /\ status \in Statuses
  /\ \A e \in table : e.type \in Types /\ e.index \in Nat \ {0}
  /\ edits \in 0 .. MaxEdits
  /\ pc \in [Requests -> {"idle", "uploaded", "created", "extracted", "written", "redacting",
                          "resolved", "read", "replaced", "deciding", "deleting", "unlinking",
                          "unlinkingUpload"}]
  /\ \A r \in Requests : job[r].status \in {"none", "ready", "rejected"}
  /\ hit \subseteq {"marker", "spelling"}

\* A document whose import was clean restores to the same letters for good,
\* whatever case and white space become: no redaction and nothing that the
\* container's other documents bring in changes them, even when requests
\* overlap or die.  Unless a fragment touched a marker, or took the marker of
\* another spelling: of the same digits, or of the same letters but for marks.
CleanImportRestores ==
  first # NoText /\ hit = {} /\ artefact.there =>
    Letters(Restored(artefact.text)) = Letters(first)

\* Between two requests the stored summary lists the tokens of the text, and
\* what it calls known is in the table.
SummaryTellsTheText ==
  ~raced /\ path /\ (\A r \in Requests : pc[r] # "replaced") => Tells(summary, artefact.text)

\* A document on the review screen, decided or not, has its files, however
\* requests overlap.  Unless they did, or one died: what is in processing is
\* being imported, and of what is deleted no file is left.
FilesFollowTheRow ==
  /\ status \in {"pending_review", "ready", "rejected"} => path /\ upload /\ artefact.there
  /\ status = "processing" /\ ~raced => \E r \in Requests : pc[r] # "idle"
  /\ ~raced /\ imported /\ ~Exists /\ (\A r \in Requests : pc[r] = "idle") =>
       ~upload /\ ~artefact.there
=============================================================================
