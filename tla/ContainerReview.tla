----------------------------- MODULE ContainerReview -----------------------------
(***************************************************************************)
(* A raw document of a container and the job that processes it.  JobService *)
(* knows nothing of containers and ContainerService nothing of jobs: the   *)
(* document row follows the job's through three hooks (main.py:88-123),    *)
(* which run in the session that changed the job, after its commit.        *)
(*                                                                         *)
(* The module extends JobService with the upload into a container, the     *)
(* hooks, the promotion of an approved job and the removal of a document.  *)
(* The conversion table is MarkerResolver's.                               *)
(***************************************************************************)
EXTENDS JobService

CONSTANTS
  MaxPromotions,  \* bound: how often a document may be approved
  MaxLosses       \* bound: how many kinds of work may be lost to deaths

VARIABLES
  tagged,     \* jobs.container_id is set
  doc,        \* container_documents.status; "none" and "gone" without a row
  published,  \* pseudonymized_path is set
  artefact,   \* the redactions in the pseudonymized text, or NoFile
  batches,    \* how often the document's spans are in container_spans
  at,         \* where each session is in a step of the container's
  copy,       \* the redacted text a promotion has read
  overtaken,  \* history: a decision was made while a run's hook was pending
  halfway     \* history: the container operations in which a session died

document == <<tagged, doc, published, artefact, batches>>
cvars == <<vars, document, at, copy, overtaken, halfway>>

DocStatuses == {"processing", "pending_review", "ready", "rejected"}
Uploading == {"tagging", "registering"}
Promoting == {"promoting", "spanned", "written"}
Removing == {"dropSpans", "dropDocument", "unlinking"}

CInit ==
  /\ Init
  /\ tagged = FALSE /\ doc = "none" /\ published = FALSE
  /\ artefact = NoFile /\ batches = 0
  /\ at = [s \in Sessions |-> "none"]
  /\ copy = [s \in Sessions |-> NoFile]
  /\ overtaken = FALSE /\ halfway = {}

----------------------------------------------------------------------------
(* Helpers *)

\* find_by_job_id() finds the document of a job that belongs to a container.
HasDoc == tagged /\ doc \in DocStatuses

\* docs.update(status=...): nothing happens when the row is gone.
MarkDoc(new) == doc' = IF HasDoc THEN new ELSE doc

Move(s, from, to) == at[s] = from /\ at' = [at EXCEPT ![s] = to]

DocUnchanged == UNCHANGED <<document, overtaken, halfway>>

\* The client that waits for each response is not waiting for a removal.
NoRemoval == Serial => \A u \in Sessions : at[u] \notin Removing

----------------------------------------------------------------------------
(* What the job service does by itself *)

JobRequest(s) ==
  /\ Request(s) /\ at[s] = "none" /\ NoRemoval
  /\ pc'[s] = "deciding" /\ verb'[s] = "approve" => batches < MaxPromotions
  /\ overtaken' = (overtaken \/ (pc'[s] = "deciding" /\ \E u \in Sessions : pc[u] = "notifying"))
  /\ UNCHANGED <<document, at, copy, halfway>>

\* A step that is neither a hook nor the upload's.
JobServe(s) ==
  /\ Serve(s) /\ pc[s] \notin {"storing", "hook"}
  /\ DocUnchanged /\ UNCHANGED <<at, copy>>

\* The router schedules the run when add_raw_document() has returned.
JobRun(s) ==
  /\ Run(s) /\ pc[s] # "notifying" /\ at[s] = "none"
  /\ DocUnchanged /\ UNCHANGED <<at, copy>>

----------------------------------------------------------------------------
(* add_raw_document() *)

SubmitRaw(s) ==
  /\ CreateJob(s) /\ Move(s, "none", "tagging")
  /\ DocUnchanged /\ UNCHANGED copy

\* jobs.update(container_id=...)
Tag(s) ==
  /\ Move(s, "tagging", "registering")
  /\ tagged' = Exists
  /\ UNCHANGED <<vars, doc, published, artefact, batches, copy, overtaken, halfway>>

\* docs.create(status="processing")
Register(s) ==
  /\ Move(s, "registering", "none")
  /\ doc' = "processing"
  /\ UNCHANGED <<vars, tagged, published, artefact, batches, copy, overtaken, halfway>>

----------------------------------------------------------------------------
(* The hooks *)

\* Wrong on purpose (see README, "Mutants"): the hook finds no document ...
ProcessingDone_Nothing(s) == Notified(s) /\ DocUnchanged /\ UNCHANGED <<at, copy>>

\* ... or a clean document is promoted without a review.
ProcessingDone_AutoPromoting(s) ==
  /\ Notified(s) /\ MarkDoc("ready")
  /\ UNCHANGED <<tagged, published, artefact, batches, at, copy, overtaken, halfway>>

\* _on_processing_done(): mark_pending_review().  A failed run never calls it.
ProcessingDone(s) ==
  /\ Notified(s) /\ MarkDoc("pending_review")
  /\ UNCHANGED <<tagged, published, artefact, batches, at, copy, overtaken, halfway>>

\* Wrong on purpose: the document is not told.
OnRejected_Nothing(s) ==
  /\ verb[s] = "reject" /\ Hooked(s)
  /\ DocUnchanged /\ UNCHANGED <<at, copy>>

\* _on_rejected(): mark_rejected().
OnRejected(s) ==
  /\ verb[s] = "reject" /\ Hooked(s) /\ MarkDoc("rejected")
  /\ UNCHANGED <<tagged, published, artefact, batches, at, copy, overtaken, halfway>>

Promotable == HasDoc /\ paths /\ text # NoFile /\ spans # NoFile

\* _on_approved() has nothing to promote, or a file is missing and it raises.
NotPromoted(s) ==
  /\ verb[s] = "approve" /\ at[s] = "none" /\ ~Promotable
  /\ Hooked(s)
  /\ DocUnchanged /\ UNCHANGED <<at, copy>>

\* Wrong on purpose: both hooks are wired to the promotion.
ReadJob_AnyDecision(s) ==
  /\ pc[s] = "hook" /\ Promotable
  /\ Move(s, "none", "promoting")
  /\ copy' = [copy EXCEPT ![s] = text]
  /\ UNCHANGED vars /\ DocUnchanged

\* promote_approved_job() reads the job's text and spans ...
ReadJob(s) ==
  /\ pc[s] = "hook" /\ verb[s] = "approve" /\ Promotable
  /\ Move(s, "none", "promoting")
  /\ copy' = [copy EXCEPT ![s] = text]
  /\ UNCHANGED vars /\ DocUnchanged

\* ... resolves their markers and adds the spans to the container's ...
AddSpans(s) ==
  /\ Move(s, "promoting", "spanned")
  /\ batches' = batches + 1
  /\ UNCHANGED <<vars, tagged, doc, published, artefact, copy, overtaken, halfway>>

\* ... writes the pseudonymized text ...
WriteArtefact(s) ==
  /\ Move(s, "spanned", "written")
  /\ artefact' = copy[s]
  /\ UNCHANGED <<vars, tagged, doc, published, batches, copy, overtaken, halfway>>

\* ... and sets the document to ready.
SetReady(s) ==
  /\ Move(s, "written", "none") /\ Hooked(s)
  /\ MarkDoc("ready") /\ published' = (published \/ HasDoc)
  /\ copy' = [copy EXCEPT ![s] = NoFile]
  /\ UNCHANGED <<tagged, artefact, batches, overtaken, halfway>>

----------------------------------------------------------------------------
(* delete_document() *)

\* Neither the document's status nor the job's is looked at.
BeginRemove(s) ==
  /\ HasDoc /\ NoRemoval
  /\ pc[s] = "idle"
  /\ Serial => \A u \in Sessions : pc[u] \notin RequestPCs
  /\ Move(s, "none", "dropSpans")
  /\ UNCHANGED <<vars, copy>> /\ DocUnchanged

DropSpans(s) ==
  /\ Move(s, "dropSpans", "dropDocument")
  /\ batches' = 0
  /\ UNCHANGED <<vars, tagged, doc, published, artefact, copy, overtaken, halfway>>

\* A row that another request deleted has no paths left to unlink.
DropDocument(s) ==
  /\ Move(s, "dropDocument", IF HasDoc THEN "unlinking" ELSE "none")
  /\ MarkDoc("gone")
  /\ UNCHANGED <<vars, tagged, published, artefact, batches, copy, overtaken, halfway>>

\* quarantine_path is the job's upload.
Unlink(s) ==
  /\ Move(s, "unlinking", "none")
  /\ source' = FALSE
  /\ artefact' = IF published THEN NoFile ELSE artefact
  /\ published' = FALSE
  /\ UNCHANGED <<row, tables, text, spans, pc, verb, draft, lost>>
  /\ UNCHANGED <<tagged, doc, batches, copy, overtaken, halfway>>

----------------------------------------------------------------------------
(* The whole *)

\* A session dies, and what it was doing for the container stays half done.
CDie(s) ==
  /\ CanDie /\ Cardinality(lost \cup halfway) < MaxLosses
  /\ Die(s) \/ (at[s] \in Removing /\ UNCHANGED vars)
  /\ at' = [at EXCEPT ![s] = "none"]
  /\ copy' = [copy EXCEPT ![s] = NoFile]
  /\ halfway' = halfway \cup {k \in {"upload", "promotion", "removal"} :
                               \/ k = "upload" /\ at[s] \in Uploading
                               \/ k = "promotion" /\ (at[s] \in Promoting \/ pc[s] = "hook")
                               \/ k = "removal" /\ at[s] \in Removing}
  /\ UNCHANGED <<document, overtaken>>

CRun(s) == JobRun(s) \/ ProcessingDone(s)

CServe(s) ==
  \/ JobServe(s)
  \/ SubmitRaw(s) \/ Tag(s) \/ Register(s)
  \/ OnRejected(s) \/ NotPromoted(s)
  \/ ReadJob(s) \/ AddSpans(s) \/ WriteArtefact(s) \/ SetReady(s)
  \/ DropSpans(s) \/ DropDocument(s) \/ Unlink(s)

CRequest(s) == JobRequest(s) \/ BeginRemove(s)

COver == Over /\ ~HasDoc /\ (\A s \in Sessions : at[s] = "none") /\ UNCHANGED cvars

CNext == (\E s \in Sessions : CRequest(s) \/ CServe(s) \/ CRun(s) \/ CDie(s)) \/ COver

CSpec == CInit /\ [][CNext]_cvars

\* Requests that were begun and tasks that were scheduled go on.
CFairness == \A s \in Sessions : WF_cvars(CServe(s)) /\ WF_cvars(CRun(s))
CFairSpec == CSpec /\ CFairness

----------------------------------------------------------------------------
(* Properties *)

\* What becomes the pseudonymized text is what the reviewer approved, while it
\* is approved: no run, edit, reset or decision gets between the approval and
\* the copy its hook writes.
PublishedIsApproved ==
  [][artefact' \notin {artefact, NoFile} => status = "approved" /\ artefact' = text]_cvars

\* A ready document has its artefact and its spans, whatever was decided,
\* reprocessed or interrupted before.
ReadyIsComplete ==
  \/ doc # "ready"
  \/ "removal" \in halfway \/ \E s \in Sessions : at[s] \in Removing
  \/ published /\ artefact \in Texts /\ batches > 0

AtRest == \A s \in Sessions : pc[s] = "idle" /\ at[s] = "none"

\* What the status of the job may be when its document is in status d.
Behind(d) ==
  CASE d = "processing" -> {"failed", "deleted"}
    [] d = "pending_review" -> {"awaiting_review", "failed", "deleted"}
    [] d = "ready" -> {"approved", "awaiting_review", "failed", "deleted"}
    [] d = "rejected" -> {"rejected", "failed", "deleted"}

\* When every request and task is done the document tells what the job is: it
\* lags only where no hook exists (a failed run, an unapproval, a deleted job),
\* where a session died, or where a decision overtook the run's hook.
DocFollowsJob ==
  AtRest /\ HasDoc /\ lost = {} /\ halfway = {} /\ ~overtaken => status \in Behind(doc)

\* A document leaves processing unless its run fails or a session dies.
DocSettles ==
  doc = "processing" ~>
    (doc # "processing" \/ status \in {"failed", "deleted"} \/ lost # {} \/ halfway # {})

=============================================================================
