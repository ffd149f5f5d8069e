------------------------------ MODULE JobService ------------------------------
(***************************************************************************)
(* The life of one job in JobService (src/anonymizer_api/jobs/service.py)  *)
(* and its endpoints (routers/jobs.py): upload, background run, approve,   *)
(* reject, unapprove, manual redaction, span revert, review comment,       *)
(* reprocess and delete.  Jobs share no row and no file.                   *)
(*                                                                         *)
(* A session is a request with its database session or, once its response  *)
(* is sent, the background task it scheduled.  One step is one commit or   *)
(* one file write; what a request reads before its first write is read in  *)
(* its first step and may be stale when it is used.  A session that dies   *)
(* (an exception, a locked database, the end of the server) stops between  *)
(* two steps and nobody resumes it.                                        *)
(***************************************************************************)
EXTENDS Naturals, FiniteSets

CONSTANTS
  Sessions,    \* requests and background tasks that may be in flight
  Redactions,  \* manual redactions a reviewer can make or revert
  Pipeline,    \* the redactions of the automatic pipeline, as one
  None,        \* what stands for the content of a missing file
  Serial,      \* whether the client waits for each response before it asks again
  CanDie       \* whether sessions may die

ASSUME SerialIsBoolean == Serial \in BOOLEAN
ASSUME CanDieIsBoolean == CanDie \in BOOLEAN
ASSUME RedactionsDistinct == Pipeline \notin Redactions /\ None \notin Redactions \cup {Pipeline}

VARIABLES
  status,  \* jobs.status; "unborn" and "deleted" when there is no row
  paths,   \* whether redacted_path and spans_path are set in the row
  rows,    \* runs whose rows are in detected_spans
  events,  \* event types present in review_events
  source,  \* whether the upload is in quarantine
  text,    \* the redactions in force in redacted.txt, or NoFile
  spans,   \* the redactions in force in spans.json, or NoFile
  pc,      \* where each session is
  verb,    \* the review decision a session carries out
  draft,   \* what an editing session will write to the two files
  lost     \* history: the kinds of work in which some session died

row == <<status, paths>>
tables == <<rows, events>>
files == <<source, text, spans>>
vars == <<status, paths, rows, events, source, text, spans, pc, verb, draft, lost>>

Texts == SUBSET (Redactions \cup {Pipeline})
NoFile == {None}

Reviewable == {"awaiting_review", "approved", "rejected"}
Busy == {"pending", "processing"}
Statuses == Reviewable \cup Busy \cup {"unborn", "failed", "deleted"}

Verbs == {"approve", "reject", "unapprove"}
EventTypes == {"approved", "rejected", "approval_reverted", "note"}

RunPCs ==
  {"running",     \* processing: the upload is not read yet
   "detecting",   \* the pipeline works on the extracted text
   "saving",      \* redacted.txt is written
   "saved",       \* spans.json is written, the reports follow
   "persisted"}   \* the span rows are in the database
TaskPCs == {"scheduled", "notifying"} \cup RunPCs
EditPCs == {"editing", "edited", "annotating"}
ReviewPCs == {"deciding", "recorded", "hook"}
DeletePCs == {"dropRows", "dropEvents", "dropJob", "dropFiles"}
ResetPCs == {"wipeRows", "wipeEvents", "wipeFiles", "resetJob"}
RequestPCs ==
  {"storing",     \* the upload is in quarantine, the row is not there yet
   "submitted",   \* the row is pending, the response is not sent yet
   "commenting"} \cup EditPCs \cup ReviewPCs \cup DeletePCs \cup ResetPCs
PCs == {"idle"} \cup TaskPCs \cup RequestPCs

TypeOK ==
  /\ status \in Statuses
  /\ paths \in BOOLEAN
  /\ rows \in Nat
  /\ events \in SUBSET EventTypes
  /\ source \in BOOLEAN
  /\ text \in Texts \cup {NoFile}
  /\ spans \in Texts \cup {NoFile}
  /\ pc \in [Sessions -> PCs]
  /\ verb \in [Sessions -> Verbs \cup {"none"}]
  /\ draft \in [Sessions -> [text : Texts, spans : Texts]]
  /\ lost \in SUBSET {"run", "review", "edit", "wipe"}

NoDraft == [text |-> {}, spans |-> {}]

Init ==
  /\ status = "unborn" /\ paths = FALSE
  /\ rows = 0 /\ events = {}
  /\ source = FALSE /\ text = NoFile /\ spans = NoFile
  /\ pc = [s \in Sessions |-> "idle"]
  /\ verb = [s \in Sessions |-> "none"]
  /\ draft = [s \in Sessions |-> NoDraft]
  /\ lost = {}

----------------------------------------------------------------------------
(* Helpers *)

\* jobs.get(job_id) finds a row.
Exists == status \notin {"unborn", "deleted"}

\* A session moves on.
Goto(s, l) == pc' = [pc EXCEPT ![s] = l]
Step(s, from, to) == pc[s] = from /\ Goto(s, to)

\* A session ends, and its local variables with it.
End(s) ==
  /\ Goto(s, "idle")
  /\ verb' = [verb EXCEPT ![s] = "none"]
  /\ draft' = [draft EXCEPT ![s] = NoDraft]

\* A session takes up a new request.
Begin(s, l) ==
  /\ pc[s] = "idle"
  /\ Serial => \A u \in Sessions : pc[u] \notin RequestPCs
  /\ Goto(s, l)

\* jobs.update(status=...): nothing happens when the row is gone.
SetStatus(new) == status' = IF Exists THEN new ELSE status

\* Nothing but the sessions themselves changes.
Quietly == UNCHANGED <<row, tables, files, lost>>
NoLocals == UNCHANGED <<verb, draft>>

----------------------------------------------------------------------------
(* submit_upload(), and the response that hands the job to the background *)

Upload(s) ==
  /\ status = "unborn" /\ ~source
  /\ Begin(s, "storing")
  /\ source' = TRUE
  /\ UNCHANGED <<row, tables, text, spans, lost>> /\ NoLocals

CreateJob(s) ==
  /\ Step(s, "storing", "submitted")
  /\ status' = "pending"
  /\ UNCHANGED <<paths, tables, files, lost>> /\ NoLocals

\* The router adds the background task and returns; the task is next.
Schedule(s) == Step(s, "submitted", "scheduled") /\ Quietly /\ NoLocals

----------------------------------------------------------------------------
(* process() *)

StartRun(s) ==
  /\ Step(s, "scheduled", IF Exists THEN "running" ELSE "idle")
  /\ SetStatus("processing")
  /\ UNCHANGED <<paths, tables, files, lost>> /\ NoLocals

\* Wrong on purpose (see README, "Mutants"): the except branch only logs.
FailRun_OnlyLogging(s) ==
  /\ pc[s] \in {"running", "detecting", "saving", "saved"} /\ Goto(s, "idle")
  /\ UNCHANGED <<row, tables, files, lost>> /\ NoLocals

\* The pipeline raises, before, between or after its first writes.
FailRun(s) ==
  /\ pc[s] \in {"running", "detecting", "saving", "saved"} /\ Goto(s, "idle")
  /\ SetStatus("failed")
  /\ UNCHANGED <<paths, tables, files, lost>> /\ NoLocals

\* The upload is extracted; the pipeline does not look at it again.
Extract(s) == Step(s, "running", "detecting") /\ source /\ Quietly /\ NoLocals

\* DocumentPipeline._save() writes the redacted text, then the spans.
SaveText(s) ==
  /\ Step(s, "detecting", "saving")
  /\ text' = {Pipeline}
  /\ UNCHANGED <<row, tables, source, spans, lost>> /\ NoLocals

SaveSpans(s) ==
  /\ Step(s, "saving", "saved")
  /\ spans' = {Pipeline}
  /\ UNCHANGED <<row, tables, source, text, lost>> /\ NoLocals

AddRows(s) ==
  /\ Step(s, "saved", "persisted")
  /\ rows' = rows + 1
  /\ UNCHANGED <<row, events, files, lost>> /\ NoLocals

\* Wrong on purpose: a low risk lets the job skip the review.
FinishRun_AutoApproving(s) ==
  /\ Step(s, "persisted", IF Exists THEN "notifying" ELSE "idle")
  /\ SetStatus("auto_approved")
  /\ paths' = (paths \/ Exists)
  /\ UNCHANGED <<tables, files, lost>> /\ NoLocals

\* The job goes to review; the hook is called if the row is still there.
FinishRun(s) ==
  /\ Step(s, "persisted", IF Exists THEN "notifying" ELSE "idle")
  /\ SetStatus("awaiting_review")
  /\ paths' = (paths \/ Exists)
  /\ UNCHANGED <<tables, files, lost>> /\ NoLocals

\* on_processing_done() has returned.
Notified(s) == Step(s, "notifying", "idle") /\ Quietly /\ NoLocals

----------------------------------------------------------------------------
(* approve(), reject(), revert_approval() *)

Required(v) == IF v = "unapprove" THEN "approved" ELSE "awaiting_review"
EventOf(v) ==
  CASE v = "approve" -> "approved"
    [] v = "reject" -> "rejected"
    [] v = "unapprove" -> "approval_reverted"
Outcome(v) ==
  CASE v = "approve" -> "approved"
    [] v = "reject" -> "rejected"
    [] v = "unapprove" -> "awaiting_review"

\* Wrong on purpose: revert_approval() would skip its status check.
Decide_Unchecked(s, v) ==
  /\ Exists
  /\ v # "unapprove" => status = Required(v)
  /\ Begin(s, "deciding")
  /\ verb' = [verb EXCEPT ![s] = v]
  /\ Quietly /\ UNCHANGED draft

\* The status is checked ...
Decide(s, v) ==
  /\ status = Required(v)
  /\ Begin(s, "deciding")
  /\ verb' = [verb EXCEPT ![s] = v]
  /\ Quietly /\ UNCHANGED draft

\* Wrong on purpose: the decision is not recorded.
Record_Nothing(s) == Step(s, "deciding", "recorded") /\ Quietly /\ NoLocals

\* ... the decision is recorded as a review event ...
Record(s) ==
  /\ Step(s, "deciding", "recorded")
  /\ events' = events \cup {EventOf(verb[s])}
  /\ UNCHANGED <<row, rows, files, lost>> /\ NoLocals

\* ... and the status is set, or update() returned None and the assert fails.
ApplyDecision(s) ==
  /\ pc[s] = "recorded"
  /\ IF Exists /\ verb[s] # "unapprove" THEN Goto(s, "hook") /\ NoLocals ELSE End(s)
  /\ SetStatus(Outcome(verb[s]))
  /\ UNCHANGED <<paths, tables, files, lost>>

\* on_approved() or on_rejected() has returned.
Hooked(s) == pc[s] = "hook" /\ End(s) /\ Quietly

----------------------------------------------------------------------------
(* apply_manual_redaction(), revert_span(), record_review_event() *)

\* Artefacts may be amended in every status but these.
Amendable == Exists /\ status \notin Busy \cup {"failed"} /\ paths

\* The request reads both files and computes what it will write.
BeginEdit(s, newText, newSpans) ==
  /\ Amendable
  /\ text # NoFile /\ spans # NoFile
  /\ Begin(s, "editing")
  /\ draft' = [draft EXCEPT ![s] = [text |-> newText, spans |-> newSpans]]
  /\ Quietly /\ UNCHANGED verb

\* The fragment must occur in the text, so it is not redacted yet.
Redact(s, r) ==
  /\ r \in Redactions /\ r \notin text
  /\ BeginEdit(s, text \cup {r}, spans \cup {r})

\* The span must be listed and not be a false positive yet.
RevertSpan(s, r) ==
  /\ r \in spans
  /\ BeginEdit(s, text \ {r}, spans \ {r})

WriteText(s) ==
  /\ Step(s, "editing", "edited")
  /\ text' = draft[s].text
  /\ UNCHANGED <<row, tables, source, spans, lost>> /\ NoLocals

WriteSpans(s) ==
  /\ Step(s, "edited", "annotating")
  /\ spans' = draft[s].spans
  /\ UNCHANGED <<row, tables, source, text, lost>> /\ NoLocals

BeginComment(s) == Exists /\ Begin(s, "commenting") /\ Quietly /\ NoLocals

\* The review event of an edit or a comment is added.
Annotate(s) ==
  /\ pc[s] \in {"annotating", "commenting"} /\ End(s)
  /\ events' = events \cup {"note"}
  /\ UNCHANGED <<row, rows, files, lost>>

----------------------------------------------------------------------------
(* delete() *)

\* Wrong on purpose: a job may be deleted while it is being processed.
BeginDelete_Unchecked(s) ==
  Exists /\ Begin(s, "dropRows") /\ Quietly /\ NoLocals

BeginDelete(s) ==
  /\ Exists /\ status \notin Busy
  /\ Begin(s, "dropRows")
  /\ Quietly /\ NoLocals

DropRows(s) ==
  /\ Step(s, "dropRows", "dropEvents")
  /\ rows' = 0
  /\ UNCHANGED <<row, events, files, lost>> /\ NoLocals

DropEvents(s) ==
  /\ Step(s, "dropEvents", "dropJob")
  /\ events' = {}
  /\ UNCHANGED <<row, rows, files, lost>> /\ NoLocals

DropJob(s) ==
  /\ Step(s, "dropJob", "dropFiles")
  /\ status' = IF Exists THEN "deleted" ELSE status
  /\ paths' = FALSE
  /\ UNCHANGED <<tables, files, lost>> /\ NoLocals

DropFiles(s) ==
  /\ Step(s, "dropFiles", "idle")
  /\ source' = FALSE /\ text' = NoFile /\ spans' = NoFile
  /\ UNCHANGED <<row, tables, lost>> /\ NoLocals

----------------------------------------------------------------------------
(* reset_for_reprocess() *)

\* Wrong on purpose: a run in progress is not looked for.
BeginReset_WhileProcessing(s) ==
  /\ Exists /\ status # "pending" /\ source
  /\ Begin(s, "wipeRows")
  /\ Quietly /\ NoLocals

BeginReset(s) ==
  /\ Exists /\ status \notin Busy /\ source
  /\ Begin(s, "wipeRows")
  /\ Quietly /\ NoLocals

\* Wrong on purpose: the rows of the previous run stay.
WipeRows_Not(s) == Step(s, "wipeRows", "wipeEvents") /\ Quietly /\ NoLocals

WipeRows(s) ==
  /\ Step(s, "wipeRows", "wipeEvents")
  /\ rows' = 0
  /\ UNCHANGED <<row, events, files, lost>> /\ NoLocals

WipeEvents(s) ==
  /\ Step(s, "wipeEvents", "wipeFiles")
  /\ events' = {}
  /\ UNCHANGED <<row, rows, files, lost>> /\ NoLocals

\* Everything in the output directory but the detector comparison.
WipeFiles(s) ==
  /\ Step(s, "wipeFiles", "resetJob")
  /\ text' = NoFile /\ spans' = NoFile
  /\ UNCHANGED <<row, tables, source, lost>> /\ NoLocals

\* Without a row the router fails before it schedules anything.
ResetJob(s) ==
  /\ Step(s, "resetJob", IF Exists THEN "submitted" ELSE "idle")
  /\ SetStatus("pending")
  /\ paths' = FALSE
  /\ UNCHANGED <<tables, files, lost>> /\ NoLocals

----------------------------------------------------------------------------
(* The whole service *)

KindOf(p) ==
  CASE p \in TaskPCs \cup {"storing", "submitted"} -> "run"
    [] p \in ReviewPCs \cup {"commenting"} -> "review"
    [] p \in EditPCs -> "edit"
    [] p \in DeletePCs \cup ResetPCs -> "wipe"

\* A session dies between two steps.
Die(s) ==
  /\ CanDie
  /\ pc[s] # "idle"
  /\ lost' = lost \cup {KindOf(pc[s])}
  /\ End(s)
  /\ UNCHANGED <<row, tables, files>>

\* The job is gone, or was lost before it had a row.
Over ==
  /\ status = "deleted" \/ (status = "unborn" /\ source)
  /\ \A s \in Sessions : pc[s] = "idle"
  /\ UNCHANGED vars

Run(s) ==
  \/ Schedule(s) \/ StartRun(s) \/ Extract(s) \/ FailRun(s) \/ SaveText(s) \/ SaveSpans(s)
  \/ AddRows(s) \/ FinishRun(s) \/ Notified(s)

Request(s) ==
  \/ Upload(s) \/ BeginComment(s) \/ BeginDelete(s) \/ BeginReset(s)
  \/ \E v \in Verbs : Decide(s, v)
  \/ \E r \in Redactions \cup {Pipeline} : Redact(s, r) \/ RevertSpan(s, r)

Serve(s) ==
  \/ CreateJob(s)
  \/ Record(s) \/ ApplyDecision(s) \/ Hooked(s)
  \/ WriteText(s) \/ WriteSpans(s) \/ Annotate(s)
  \/ DropRows(s) \/ DropEvents(s) \/ DropJob(s) \/ DropFiles(s)
  \/ WipeRows(s) \/ WipeEvents(s) \/ WipeFiles(s) \/ ResetJob(s)

Next == (\E s \in Sessions : Request(s) \/ Serve(s) \/ Run(s) \/ Die(s)) \/ Over

Spec == Init /\ [][Next]_vars

\* Requests that were begun and tasks that were scheduled go on.
Fairness == \A s \in Sessions : WF_vars(Serve(s)) /\ WF_vars(Run(s))
FairSpec == Spec /\ Fairness

----------------------------------------------------------------------------
(* Properties *)

\* A run has the job for itself.  While a session is between setting the job
\* to processing and handing it to the reviewer, no decision, reset or delete
\* of another session touches the status, and no second run is under way or
\* queued, wherever requests, tasks and deaths interleave.
RunOwnsJob ==
  LET queued == {s \in Sessions : pc[s] \in {"submitted", "scheduled"}}
      running == {s \in Sessions : pc[s] \in RunPCs}
  IN  /\ \A s \in queued : status = "pending"
      /\ \A s \in running : status = "processing"
      /\ \A s, u \in queued \cup running : s = u

\* delete() leaves no row of a deleted job behind, not even when it dies half
\* way or when a run's task has not come to its end yet.
DeletedLeavesNoRows == status = "deleted" => rows = 0 /\ events = {}

\* What the reviewer decides on is there and of one piece: the row names the
\* files, the text and the span list agree, and the database holds the rows
\* of exactly one run, after any sequence of runs, failures, edits and
\* reprocessing.  (An edit or a wipe in progress, or one that died, is the
\* exception: the code has no transaction around its files.)
ReviewIsBacked ==
  \/ status \notin Reviewable
  \/ lost \cap {"edit", "wipe"} # {}
  \/ \E s \in Sessions : pc[s] \in EditPCs \cup DeletePCs \cup ResetPCs
  \/ paths /\ text \in Texts /\ text = spans /\ rows = 1

\* An approved or rejected job has the review event that made it so, also
\* when sessions die between the two commits.
DecisionIsAudited ==
  \/ "wipe" \in lost
  \/ \E s \in Sessions : pc[s] \in DeletePCs \cup ResetPCs
  \/ status \in {"approved", "rejected"} => status \in events

\* The service implements the life of a job as its reviewer knows it.
Lifecycle ==
  INSTANCE JobLifecycle WITH shown <- IF status \in Reviewable THEN text ELSE NoFile
ImplementsLifecycle == Lifecycle!Spec

\* A job that is pending or processing comes out of it, for the reviewer or as
\* a failure, unless its session died: no interleaving strands it.
Settles == status \in Busy ~> (status \notin Busy \/ "run" \in lost)

=============================================================================
