# LGPDoc in TLA+

LGPDoc finds personal data in documents with an OPF language model and regular
expressions, redacts it, has a person review the result, and hands it out or
collects it in *containers* under stable markers. It is a FastAPI server with
one SQLite database, a directory of files, a pool of request threads, background
tasks, and one worker process for the model. This directory holds models of the
parts where those actors meet, the runs that check them with TLC, and proofs
checked by TLAPS.

    tlc -workers 2 -config OPFManager_safety.cfg MCOPFManager    # any run of PROJECT.json
    tlapm OPFManagerProofs.tla                                   # any of the eight proof modules

Paths below are relative to `src/src/anonymizer_api/` unless they say otherwise.

## 1. Inventory

| Component | State it keeps | Operations | Modelled in |
|---|---|---|---|
| OPF manager, `opf_manager.py` | `_enabled`, `_loading`, `_client`, `_refcount`, `_last_used_at` under one RLock; the watchdog thread | enable, disable, acquire, release, ensure_loaded, current_base, touch, idle check, shutdown | `OPFManager` |
| Worker client and worker, `anonymizer/subprocess_opf_client.py`, `scripts/opf_worker.py` | process handle, three pipes, a lock | start, detect, stop, kill on timeout; the worker's loop | `OPFWorker`; as the manager sees it, `OPFManager` |
| Job service, `jobs/service.py`, `routers/jobs.py` | rows of `jobs`, `detected_spans`, `review_events`; upload, `redacted.txt`, `spans.json`, reports | upload, run, approve, reject, unapprove, redact, revert, comment, reprocess, delete, restore, compare | `JobService`; texts, spans and restore: `Redaction`; compare: `DetectorComparison` (not validate) |
| Document pipeline, `anonymizer/pipeline.py` | none of its own | extract, detect, redact, verify, save | its writes in `JobService`, its spans in `Redaction` |
| Hooks, `main.py:88-123` | none | processing done, approved, rejected | `ContainerReview` |
| Containers, `containers/service.py`, `promote.py` | rows of `containers`, `container_documents`, `container_spans`; one text per document | create, update, delete a container; add raw or pseudonymized document, promote, review, redact, delete, bundle, restore | `ContainerReview` (raw documents), `ImportedDocument` (pseudonymized ones); not create and update |
| Marker table, `containers/marker_resolver.py` | `container_mapping_entries` | resolve | `MarkerResolver`; normalisation: `ImportedDocument` |
| Validation and restore, `containers/validation_service.py`, `restore_service.py` | none | pure functions | `ImportedDocument`; residual personal data and export are not |
| Detector comparison, `anonymizer/detector_comparison.py`, `jobs/service.py:1174-1280` | a report file per job | pair the spans, write, read | `DetectorComparison` |
| Settings store, `settings_store.py` | a file and its cache | get, update | `DetectorComparison` |
| Augmented clients, `anonymizer/augmentations.py`, `regex_only_client.py` | none | combine detectors, override, filter | `DetectorComparison`; what a pattern matches is an input |
| Redactor, `anonymizer/redactor.py`, `policy.py` | an index per value, for one document | redact | `Redaction` (the indexed strategy) |
| Verification and risk, extractors, storage, configuration, reviewer UI, install scripts | none, or files | - | not modelled (section 7) |

How they interact. A request thread builds a `JobService` with a database
session of its own. Uploading or reprocessing schedules a background task, with
another session, which leases the model from the manager, runs the pipeline,
writes files and rows, sets the job to `awaiting_review` and calls a hook, which
updates the container document if the job has one. Approving calls another hook,
which promotes the job's spans into the container's marker table. Nothing spans
two commits: every repository call commits by itself, and files are written
outside any transaction.

What is hard here, and what would make each component right:

* **Manager.** Loading and stopping happen outside the lock, `disable()` waits
  with the lock released, the watchdog drops it between its check and its act.
  A job takes its lease some lines before the `try` that gives it back. Right
  means: the refcount is the number of leases, no worker is stopped under a lease
  (except after the timeout, or at shutdown), none is lost, one load at a time,
  nobody hangs.
* **Worker protocol.** Requests and answers carry no number. A call that gives up may leave an answer
  behind; `stop()` and other calls wait for the lock meanwhile, and look at the process handle without it. Only reads
  have a timeout. Right means: an answer is read by the call that asked, no process outlives its client, every call
  returns.
* **Jobs.** Each operation is a check, then several commits and file writes, and
  may overlap with the background run or die in between. Right means: a run has
  its job for itself, what is reviewed is complete and consistent, decisions are
  audited, delete leaves nothing, no job hangs in `processing`.
* **Containers.** Two state machines (job and document) tied by hooks that run
  after the commit they react to. Right means: the document's status follows the
  job's, an artefact is downloadable only while its job is approved, one span
  row per span.
* **Text and spans.** The positions of all spans are computed once by the pipeline and
  shifted by every edit; an edit replaces text anywhere. Right means: every span
  lies where its placeholder is, no character of the document is lost, and
  a placeholder stands for one value, so that the document can be restored.
* **Imported documents.** The markers of a text and the table change independently, the summary on the
  review screen is stored beside the text, and neither request nor file has a transaction. Right means: the summary
  tells the text, what was recognised restores to the same values for good, the files follow the row.
* **Comparison and settings.** A comparison takes minutes and reads the settings block by block, while a job
  may be rerun or deleted; settings are a cache and a file. Right means: the pairing depends on the overlaps and
  not on the order of the lists, both clients apply the same settings, the report survives a rerun and the settings a restart.
* **Marker table.** Look up, count and insert in three transactions. Right
  means: a value has one marker, a marker one value, and the lookup never finds
  two rows.

`PROJECT.json` lists the hazards one by one, each at its line, with the
properties that cover it.

## 2. Modules

| Module | What it is |
|---|---|
| `OPFToggle` | abstract: the toggle and its leases, without workers, locks or waiting |
| `OPFManager` | the manager and everything that calls it |
| `MCOPFManager` | instances, symmetry and the action constraint of its runs |
| `OPFManagerProofs` | its theorems |
| `OPFWorker` | one client and its worker process: the protocol over the pipes |
| `MCOPFWorker` | instances of its runs |
| `OPFWorkerProofs` | its theorems |
| `JobLifecycle` | abstract: a job's status and the redactions its reviewer sees |
| `JobService` | the service and its endpoints, one commit or file write per step |
| `MCJobService` | instances of its runs |
| `JobServiceProofs` | its theorems, and those of `ContainerReview` |
| `ContainerReview` | extends `JobService`: a container document, the hooks that tie it to its job, its promotion and removal |
| `MCContainerReview` | instances of its runs |
| `TextEdits` | slices, find and replace, values that count as the same: the texts of the next modules |
| `TextProofs` | lemmas about them: what a splice or a replacement makes of every position of a text |
| `Redaction` | the text of one job and its spans: redactor, pipeline, manual redaction, revert, restore |
| `MCRedaction` | instances of its runs |
| `RedactionProofs` | its theorems |
| `ImportedDocument` | a pseudonymized document that is imported into a container, and its review |
| `MCImportedDocument` | instances of its runs |
| `ImportedDocumentProofs` | its theorems |
| `MarkerTable` | abstract: what a container's conversion table promises |
| `MarkerResolver` | `resolve()` as several requests call it, one transaction per step |
| `MCMarkerResolver` | instances of its runs |
| `MarkerResolverProofs` | its theorems |
| `DetectorComparison` | the comparison of two detectors, beside settings, reruns and deletion |
| `MCDetectorComparison` | instances of its runs |
| `DetectorComparisonProofs` | its theorems |

Names ending in `Name_Something` ("Wrong on purpose") are **mutants**: the definition
`Name` as a plausible bug would have it. No specification uses them. `PROJECT.json`
pairs each property with the mutant that violates it under the run's own
configuration, so no property holds for want of anything to break it.

### OPFManager

One step is one critical section of the RLock, or the work between two of them.
`Condition.wait()` gives the lock up, so a waiting thread is a thread whose `pc`
names the wait. The variables are the manager's fields, plus what each worker
process does, what each actor holds in a local variable, and which threads serve
a comparison.

| Code | Actions |
|---|---|
| `enable()` 167-209 | `Enable`/`EnterEnable` (first section), `BootReady`, `BootFails` (`start()` returned or raised, and the last section), `LoadAwaited` (a waiter wakes) |
| `ensure_loaded()` 291-302 and `routers/detector_comparison.py:69-93` | `EnsureLoaded`, then `AcquireLoaded`, then `Release` |
| `acquire()` 247-259 in a job, up to its `try` (`jobs/service.py:241-259`) | `Acquire`, then `EnterRun`, or `LoseLease` when the commit of `opf_used` or the client's construction raises |
| the `try` and its `finally`, `release()` 261-279 (`jobs/service.py:259-293`) | `DetectFails`, `Release` |
| `ToggledBaseClient.detect()` 64-71 | `CurrentBase`, `AdhocDetect` |
| `disable()` 211-240 | `Disable` (with or without waiting), `Drained`, `StopWorker`; `DisableNow` without waiting |
| watchdog 310-354 | `WatchdogCheck`, then `WatchdogDisable` |
| `shutdown()` 356-365, lifespan | `ShutdownBegin`, `ShutdownDisable`, `Exit` |
| processes and time | `Crash`, `IdleTimePasses` |

Abstractions. The server is one on which OPF is available (otherwise `enable()`
raises at once). `_error` only words an exception. The idle clock is one bit:
whether the timeout has gone by since `_last_used_at`. A detection is one step,
because `SubprocessOPFClient` holds its own lock for the whole exchange and
`stop()` takes the same lock; a detection that succeeds changes nothing here.
Workers are a constant set: a process that is down and that nothing refers to
may be the next one spawned, so an instance with two workers bounds how many
exist at once, not how many are ever started; a load waits while all are in use.
Once `_stop_event` is set no request comes in, as uvicorn has stopped serving.
`ensure_loaded()` looks at `_enabled` in a section of its own, and `enable()` looks again:
only the second look counts, and the model takes both as one. An `enable()`
or `disable()` that finds nothing to do is a stuttering step. `lost` counts the leases that were
taken and never entered the `try`: a history variable, bounded by `MaxLost` in the guard of `LoseLease`. Such a lease
stays in `_refcount` until the server ends: no later action takes it off.

### OPFWorker

`OPFManager` takes a detection for one step. This module opens that step: one `SubprocessOPFClient`, its worker
process, and the pipes between them. A step is one access to the shared `_proc`, one message put into a pipe or
taken from it, or something that happens to the process.

| Code | Actions |
|---|---|
| `start()` 81-105 | `Start` (spawn), `ReadEvent` (a line), `BootTimesOut` (end of file, or no line in time) |
| `is_running()` 127-128, called by `acquire()` | `Begin` (first look at `_proc`), `Poll` (second) |
| `detect()` 134-160, `_send()` 166-171 | `Send` (takes the lock), then `Write` (a text that fits into the pipe), `Drain` (a longer one, as the worker reads it) or `WriteFails` (the worker is dead) |
| `_read_one()` 173-214 | `Read`, `ReadEOF`, `TimeOut` |
| `_kill_proc()` 236-247 | `Killed`, within the step that decides to kill, then `Forget` (`_proc = None`) |
| `stop()` 107-125 | `BeginStop`, `SendShutdown`, `Joined`, `StopTimesOut`, `Forget` |
| `scripts/opf_worker.py` | `Announce`, `Load`, `LoadFails`, `Take`, `Answer`, `DetectFails` |
| the process dies by itself, or lives on without reading or answering | `Crash`, `Hang` |

Abstractions. `start()` runs before the manager makes the client known, and the manager makes at most one `stop()`
(`OneOwner` of `OPFManager`); both are preconditions here. A text is named by the call that sends it, so that
two calls with the same text differ. `Long` are the texts that do not fit into the pipe to the worker: such a `write()`
goes on only while the worker, waiting for a line, reads, and nothing limits its time (label `sending`). A short text is put
there at once: the lock and the answers keep at most one request in the pipe, beside a shutdown. Stdout is read while a
worker answers, and is as long as needed. Stderr is read by nobody while the worker lives:
`StderrRoom` is how many tracebacks it takes before the worker blocks in its logging call. That `poll()`
is called on `None` ends the call in the model; what the exception does in the manager is a hazard without a property. Invalid
JSON, which neither side writes, and `ping`, which nothing sends, are left out.

### JobService

One job; jobs share no row and no file. A *session* is a request with its
database session, or the background task it scheduled once its response is sent
(`submitted` -> `scheduled` is the moment of the response). One step is one
commit or one file write. What a request reads before its first write is read in
its first step and is as old as that when it is used.

| Code | Actions |
|---|---|
| `submit_upload()` 164-218, `routers/jobs.py:73-96` | `Upload` (quarantine file), `CreateJob`, `Schedule` |
| `process()` 224-349 | `StartRun`, `Extract` (the pipeline reads the upload), `SaveText`, `SaveSpans` (pipeline `_save()`), `FailRun`, `AddRows`, `FinishRun`, `Notified` (the hook) |
| `approve()`, `reject()`, `revert_approval()` 355-425 | `Decide` (status check), `Record` (review event), `ApplyDecision` (status), `Hooked` |
| `apply_manual_redaction()` 483-661, `revert_span()` 663-767 | `Redact`, `RevertSpan` (read and compute), `WriteText`, `WriteSpans`, `Annotate` |
| `record_review_event()` 447-474 | `BeginComment`, `Annotate` |
| `delete()` 1047-1090 | `BeginDelete`, `DropRows`, `DropEvents`, `DropJob`, `DropFiles` |
| `reset_for_reprocess()` 1096-1168 and its endpoint | `BeginReset`, `WipeRows`, `WipeEvents`, `WipeFiles`, `ResetJob`, `Schedule` |
| an exception, a locked database, the end of the server | `Die` |

Abstractions. `text` and `spans` are the sets of redactions in force in the two
files, the automatic ones counting as one; an edit adds or removes one. `rows`
counts the runs whose rows are in `detected_spans` (a run that detects nothing
adds none in the code; it counts as one here). Event types that no property
tells apart are `"note"`. Emptying the output directory and removing the files of
a deleted job are one step each, and an `OSError` there, which the code only
logs, is not modelled. Reports, metadata, `opf_used`, the restore of reversible jobs
and the stored comparison are left out: no modelled action reads them.
`update()` on a row that is gone changes nothing (it returns `None`, or raises
when the session still has the row in memory; either ends the session), which
is `SetStatus`. Every commit expires what the session has read, so the `update()` after it
sees the latest row. A restart of the server is the death of every session.
`lost` is a history variable: the kinds of work that died.

`Serial` says that the client waits for each response before it asks for
something else, which is what the reviewer UI of a single user does. The background run
is not a request and overlaps with them in either case. With `Serial` false, two
browser tabs or scripts may overlap too; no run checks that, only `JobTypeCorrect` covers it.

### Redaction

The text of one job, as one sequence of characters, and the positions in it, with the operators of `TextEdits`. In
`JobService` an edit is the addition or removal of one redaction from two files; here it is
what the edit computes. Its initial states are the results of the pipeline on a set of
documents, for every report a detector could give.

| Code | Definitions and actions |
|---|---|
| `_resolve_spans()`, `Redactor.redact()` `anonymizer/redactor.py:24-108` | `Resolve`, `RedactBlock` |
| `_indexed_replacement()` 126-144 | `Index`, `Replacement`, `Placeholder` |
| blocks, spans and their positions, `anonymizer/pipeline.py:148-216`, `extractors/base.py:31-52` | `Found`, `Join`, `Offset`, `Shift`, `PipelineSpan`, `Init` |
| `_compute_manual_replacement()` `jobs/service.py:799-845` | `ManualPlaceholder` |
| `apply_manual_redaction()` 512-632 | `Redact` |
| `revert_span()` 683-746 | `Revert` |
| `_unique_placeholders()`, `restore_processed_text()` 878-977 | `Restored`, of a text that comes back as it was sent |

Abstractions. Letters and types are model values. Every type has the strategy
`indexed`, as in `policies/default.yaml`; the others have no index and no inverse. A
placeholder is two characters, its type (for the label and the brackets) and its index, so it is longer than some
originals, as long as others and shorter than the rest; the separator of two blocks is one character. A
document may contain an index as a character of its own, but no label (`PlainDocuments` of the proofs): one that holds a
whole placeholder by itself restores to something else. Values are compared as the code does, by `" ".join(t.lower().split())`
(`redactor.py:134`, `jobs/service.py:85-89`): `Lower` says which letters are one in lower case, `White` which characters are white space, and the
`Key` of a text are its lower-case letters with the places where a word begins, so that two texts have one key exactly if
they have the same words (TLC checks that on every text of at most 4 characters of the instance, `KeysAreWords`). A
selection may be any slice of the text that is not white space. `hit` is a history
variable: whether a manual redaction cut into a span, in force or reverted.

### ContainerReview

A raw document of a container and its job. `JobService` knows nothing of containers, nor
`ContainerService` of jobs: the document follows the job through three hooks, called in the
session that changed the job, after its commit. So the module extends `JobService` with the
document's variables and with `at`, where each session is in a container operation. `CNext` takes
the actions of `JobService` as they are, except where a hook or the upload's router comes in.

| Code | Actions |
|---|---|
| `add_raw_document()` `containers/service.py:277-333`, `routers/containers.py:257-263` | `Upload`, `SubmitRaw` (with the job's row), `Tag`, `Register`, then `JobRun` schedules the run |
| `_on_processing_done()` `main.py:88-100` | `ProcessingDone` |
| `_on_rejected()` 116-123 | `OnRejected` |
| `_on_approved()` 102-114, `promote_approved_job()` `containers/service.py:368-425` | `NotPromoted`, or `ReadJob`, `AddSpans`, `WriteArtefact`, `SetReady` |
| `delete_document()` 754-778 | `BeginRemove`, `DropSpans`, `DropDocument`, `Unlink` |
| an exception, the end of the server | `CDie` |

Abstractions. The container of the document is not deleted (`ImportedDocument` has that). `build_pseudonymized_bundle()`
only reads. `artefact` is the set of redactions
in the pseudonymized text: which marker stands for which is `MarkerResolver`'s, and a marker
conflict is here a session that dies in `promoting`. `batches` counts how often the document's spans were
added to `container_spans` (a job without spans counts too). The document's status is read by
no guard of the code, so any of the job's operations is possible in each. Deleting the job leaves its document
alone: SQLite does not enforce the foreign key. `CFairness` is `Fairness` for the extended steps.
`overtaken` and `halfway` are history variables: a decision was begun while the hook of a run
was still pending; a session died within an upload, promotion or removal.

### ImportedDocument

A document that is pseudonymized when it comes into its container: no job, no detection, only the markers in it and
the container's table. A request is an import, a manual redaction, a decision or a deletion; a step is one commit or one file write.

| Code (`containers/service.py`) | Definitions and actions |
|---|---|
| `add_pseudonymized_document()` 423-542 | `BeginImport` (the upload's file), `CreateRow`, `Extract` or `ExtractFails`, `WriteImport`, `StoreImport` |
| `apply_manual_redaction_to_pseudonymized()` 648-741 | `BeginRedaction`, `ResolveMarker`, `ReadText` (or a refusal), `WriteText`, `StoreSummary` |
| `approve_` and `reject_pseudonymized_document()` 595-646 | `BeginDecision`, `Decide` |
| `delete_document()` 756-778 | `BeginDelete`, `DeleteRow`, `Unlink` |
| `delete()` 202-209 | `DeleteContainer` |
| `resolve()`, `normalize()` | `Resolved`, `Normal`, `NextIndex`; by the container's other documents: `OtherDocument` |
| `validation_service.py` 96-199 | `MarkerStarts`, `Tokens`, `Known`, `Validate` |
| `restore_service.py` 67-130 | `Restored` |
| an exception, the end of the server | `Die` |

Abstractions. A text is a sequence of characters as in `TextEdits`; a marker is two of them, its label and its
index, and a bracketed token that is no marker is one. Each type has a label of its own (types that share one are
`MarkerResolver`'s). `Normal` has the rules of `normalize()` and of the strip before it (`normalizers.py:28-133`,
`marker_resolver.py:142-146`): a document number or phone by its digits, if it has any, a mail address in lower case and without
blanks at its ends, a name in lower case, without diacritics (`Plain`) and with blanks collapsed, anything else in lower case with
blanks collapsed. `resolve()` is one step, as what its transactions do to each
other is `MarkerResolver`'s; so are the two unlinks of a deletion. A restoration changes nothing: it is an operator that
a property applies to every state. A document is imported once per behaviour. `first` is what a clean import restores to, `hit` what a
redaction ran into (a marker, or an entry of another spelling), `raced` whether two requests overlapped or one died.
`Unlink` uses the paths that the row has at `DeleteRow`: the commit of line 758 expires the document that was read at 757, and
`docs.delete()` reads it again, into the same object, before it deletes it.

### DetectorComparison

One job's comparison, and what goes on beside it. The lease on the worker that it needs is `OPFManager`'s
(`EnsureLoaded`, `AcquireLoaded`, `Release`).

| Code | Definitions and actions |
|---|---|
| `compare_spans()` `anonymizer/detector_comparison.py:226-334` | `Candidates`, `Before`, `Pair` (one candidate), `FinishBlock` with `Items` and `Status` |
| `run_detector_comparison()` `jobs/service.py:1181-1255` | `Begin`, `DetectOPF`, `DetectRegex`, `WriteReport`; `DetectFails` |
| `build_comparison_report()` `anonymizer/detector_comparison.py:357-411` | `Report` |
| `RegexOnlyClient`; `CompositeClient`, `make_augmented_client()` | `RegexOnly`; `Composite`, `Override`, `Augmented` |
| `SettingsStore` `settings_store.py:78-119` | `Enabled` (`get()`), `Update` (`update()`, whose write may fail half-way) |
| `reset_for_reprocess()` 1106-1168, then the run | `BeginReset`, `WipeOutputs`, `PutBack`, `ResetRow`, `FinishRun` |
| `delete()` 1047-1090 | `DeleteRows`, `DeleteFiles` |
| the server stops and starts | `Restart` |

Abstractions. What a detector finds in a text is an input: any list of spans of the instance. Overlap ratios are compared by cross
multiplication, which is what the floats do at these sizes. Context previews, scores and counts per entity type are functions
of the items. The job is reviewable, processing or gone; what else may happen to it is `JobService`'s. One comparison runs at
a time. `told` and `refused` say what the last `PUT /settings` answered, `newest` is the last report written, and `clobbered`
says that a report was written, or the server stopped, while a rerun had its copy of the report in memory.

### MarkerResolver

One container; containers share no entry. A request is the promotion of an
approved job (`promote.py:63-142`), which resolves one value per placeholder, or a
manual redaction of a pseudonymized document (`service.py:648-741`), which resolves one.

| Code | Actions |
|---|---|
| the request begins with the values it needs | `Begin` |
| `find_by_normalized()`, and `touch_last_seen()` on a hit (`marker_resolver.py:141-169`) | `Lookup`: a hit, a miss (`Miss`), or two rows, where `scalar_one_or_none()` raises |
| `max_index_for_label()` (172) | `ReadMax` |
| `create()` (176-187) | `Insert`: the marker is free, or the unique constraint raises |
| the response, an HTTP 500, or a death between two transactions | `End` |

Abstractions. A value is an entity type with a normalised text: what `normalize()` maps to the
same text is the same value. Several entity types may share a label (every unknown one is
`DOCUMENTO`), so `LabelOf` is any function. A marker is its label and index: `format_marker()` is
injective in them, and `max_index_for_label()` rejects markers of a longer label with the same
prefix (`PESSOA_JUR` for `PESSOA`), as the rest is not a number. A request resolves its values in any
order. Nothing deletes an entry. What a request does with its markers afterwards
(spans, texts) belongs to `ContainerReview`. `raced` is a history variable: some request missed its
value while another was between its own miss and its insert under the same label.

## 3. Runs

| Run | Instance | Distinct states | What it shows |
|---|---|---|---|
| `opf_safety` | 3 threads, 2 workers, watchdog, shutdown, timeouts, crashes, one lost lease; symmetry in threads and workers | 386 132 | `TypeOK`, `RefcountCountsLeases`, `OneLoader`, `OneOwner`, `DrainedStopSparesLeases`, `ImplementsToggle` |
| `opf_liveness` | the same without symmetry, restricted by `TogglesAndJobs` to jobs and the two toggle endpoints | 95 752 | `TogglesReturn` |
| `opf_watchdog` | no timeout of `disable()`, no lost lease | (violation) | the worker of a job is stopped under it by the watchdog |
| `opf_worker` | 2 callers with 2 detections each, one of them with a long text, a booter, a stopper, room for 1 traceback on stderr | 8 673 | `TypeOK`, `AnswersMatch`, `NoOrphanedWorker`, `CallsReturn` |
| `opf_worker_hung` | the same | (violation) | a detection of a long text never ends, nor does `stop()` |
| `job_lifecycle` | 3 sessions, 1 manual redaction, `Serial`, sessions may die | 581 089 | `TypeOK`, `RunOwnsJob`, `DeletedLeavesNoRows`, `ReviewIsBacked`, `DecisionIsAudited`, `ImplementsLifecycle`, `Settles` |
| `container_review` | 3 sessions, no manual redaction, `Serial`, at most 2 approvals, one session may die | 687 705 | `ReadyIsComplete`, `DocFollowsJob`, `PublishedIsApproved`, `DocSettles` |
| `redaction_edits` | 4 documents of at most 3 characters in 1 or 2 blocks, 2 listed types and an unlisted one, at most 2 detections per block, 2 manual redactions, any reverts | 73 964 | `HighlightsAligned`, `DocumentIsRecoverable`, `RestoresTheLetters`, `OneValuePerPlaceholder`, `NoClearCopyLeft` |
| `imported_document` | 2 requests, 2 types (a name and a number), 4 uploads of at most 3 characters and an unreadable one, 2 markers at most from elsewhere, 2 manual redactions; symmetry in requests | 2 862 262 | `TypeOK`, `CleanImportRestores`, `SummaryTellsTheText`, `FilesFollowTheRow` |
| `detector_comparison` | 2 kinds, one with check digits; 2 blocks, in the first any two lists of at most 2 spans out of 5 intervals | 278 786 | `PairingIsStable`, `RegexSideShowsThePipeline`, `NewestReportStays`, `AcknowledgedSettingsSurvive` |
| `comparison_deleted` | the same | (violation) | the report of a deleted job is written again |
| `markers_overlap` | 2 requests, 2 values of one label and 1 of another; symmetry in requests | 53 572 | `TypeOK`, `MarkersAreDense`, `OneMarkerUnlessRaced`, `ResolvesUnlessRaced`, `ImplementsMarkerTable` |

Why the bounds are enough. Three threads are one that waits, one that works and
one that interferes; two workers are the one being stopped and its successor,
which every known scenario needs. One lost lease (`MaxLost`) already keeps the refcount from zero, and three threads
may take others beside it. Three sessions are a background run whose hook has
not returned yet, the run that a reprocess scheduled meanwhile, and a request. One manual
redaction beside the automatic one makes text and span list differ in every way
the code tells apart. Nothing is counted without bound: `rows` would grow only if
a run followed a run without the rows being wiped, which is what `ReviewIsBacked`
and `RunOwnsJob` exclude. Two requests are enough for a stale lookup and a stale index, two
values under a label for a collision that is no duplicate, and requests begin again and again, so
one that stays stale meets any number of inserts. Indices grow only while a race makes
duplicates, whose lookups then fail: the state space is finite without a bound. The proofs have
none of these bounds. In `container_review` two numbers are bounded: `MaxPromotions` limits how often a document is
approved (two are the second promotion over the artefact of the first), and
`MaxLosses` ends the deaths once so many kinds of work are lost (with 1: one session dies, anywhere).
It has no manual redaction, whose interleavings `job_lifecycle` has; the redacted text is there or
not.
In `redaction_edits` two detections per block are enough to overlap, touch, nest or
repeat a value; the documents have one value in two spellings and two blocks, a repeated letter (occurrences that
overlap), a digit that is also an index, and a line break, so that spans differ in white space alone. `MaxEdits` bounds
the manual redactions, and with them the reverts;
the run may stop there, so it checks no deadlock. Its constraint `Undamaged` does not go on from a state in which a placeholder in force was
cut into: nothing is claimed of positions from then on (see "Known disagreements"). What `NoClearCopyLeft`, `OneValuePerPlaceholder` and
`RestoresTheLetters` say beyond such a state rests on their theorems.
In `opf_worker` two callers are one that has the lock and one that waits for it while the stopper does, and two
detections each are one that fails and the next, which might read what the first left behind. Room for one
traceback makes the second failure block the worker. One long text among the four (`LongTexts`) blocks its call, or
waits and goes through, before a short one of the same
caller and beside those of the other. In `imported_document` two requests overlap at any two of their steps, beside
any number of steps of other documents; two types are one compared as a name and one compared by digits, so that a redaction
may meet an entry of another spelling: other case, a mark, a blank at its end, or other characters around the same digits
(the rules for mail addresses and for unlisted types, weaker than that for names, have no type in the instance; the
theorem covers them); `MaxMarkers` bounds the entries that other documents bring in and `MaxEdits` the
redactions, after which the run may stop. In `detector_comparison` the five intervals overlap by 0, 1/6, 3/10, 1/3, 4/10, 4/9, 8/10, 9/10 and 1, so on
either side of both thresholds, equal and different. Its constraint `EverydayOrQuiet` follows the rare lists up to their report while
nothing else happens, and the job or the settings, not both, with everyday lists: pairing reads neither.

The invariants are meant to be looked at by someone who knows the code:

* `RefcountCountsLeases`: `_refcount` equals the number of leases on a worker and of those that were lost
  before their `try`, over any toggles in between. `release()` compares with the
  fallback, so a lease taken before a toggle counts against the right side.
* `DrainedStopSparesLeases`: while `disable()` waits, others may enable OPF
  again; it then stops *their* worker, but only at a moment when nobody leases it.
* `OneOwner`: a worker in the hands of a `disable()` or a boot is not the one
  `acquire()` hands out, and no two actors hold the same.
* `OneLoader`: `_loading` is set exactly while one thread boots, never while OPF is on.
* `ImplementsToggle`: OFF -> LOADING -> ON or OFF, ON -> OFF, and leases begin only in ON.
* `RunOwnsJob`: from the row being `pending` to the hand-over to the reviewer,
  no other session changes the status and no second run is queued.
* `ReviewIsBacked`: in a reviewable status the row names its files, text and
  span list agree, and the rows are those of one run. Exempt are an edit or a wipe in
  progress, or one that died half way: the code has no transaction around its files.
* `DecisionIsAudited`: an approved or rejected job has that review event.
* `DeletedLeavesNoRows`: a deleted job has no span row and no review event.
* `ImplementsLifecycle`: the status and the visible text follow `JobLifecycle`.
* `PublishedIsApproved`: an artefact is only ever written with the text that the approved job shows at that
  moment. The hook reads the job's files after the approval's commit and writes in a later step; no run, edit
  or reset gets in between while the client waits for the response.
* `ReadyIsComplete`: a ready document has its artefact and its spans, also after a second approval or one that
  died; exempt is a removal in progress or one that died half way.
* `DocFollowsJob`: when nothing is in flight, the document tells what its job is, but for the exceptions that
  `Behind` lists: no hook exists for a failed run, an unapproval or a deleted job.
* `DocSettles`: a document leaves `processing` unless its run fails or a session dies.
* `HighlightsAligned`: a span's positions hold its placeholder, or its original once it is reverted, after any
  edits. Exempt is what follows a selection that cuts into such a span.
* `DocumentIsRecoverable`: put back in their places, the originals give the document. It relates every position,
  original and the rest of the text, whatever overlaps the detectors reported.
* `RestoresTheLetters`: replacing the placeholders, as the reversible workflow does, gives the document's letters, in order and
  up to case. One placeholder stands for every spelling of its value, so a value comes back in the spelling of
  its first span, in case and in white space ("maria&nbsp;&nbsp;silva" as "Maria Silva"); no letter is lost, added or exchanged.
* `OneValuePerPlaceholder`: indices of the pipeline, of manual redactions and of reverted spans never collide.
* `NoClearCopyLeft`: after a manual redaction no occurrence of its fragment is left outside a span in
  force, whatever the replacement makes of its surroundings and whatever earlier redactions cut into.
* `AnswersMatch`: requests carry no number, so an answer belongs to whoever reads next. Whatever failed, timed out or
  waited before, the spans a call returns are those of its own text.
* `NoOrphanedWorker`: a failed boot, a timeout and a `stop()` leave no process of some 3 GB that nobody refers to.
* `CallsReturn`: `start()`, `detect()` and `stop()` return when the worker hangs, dies or blocks on a full stderr, unless a
  long text is being written to a worker that hangs (`Blocked`), which no deadline covers.
* `CleanImportRestores`: once a clean import restores to some text, it restores to the letters of that text for good, while redactions add
  markers, other documents extend the table and requests die half-way. Exempt is a fragment that cuts into a
  marker, and one that takes over the marker of a value spelled otherwise.
* `SummaryTellsTheText`: the summary of the review screen lists the tokens of the text, and calls known only what still is.
* `FilesFollowTheRow`: no document is under review without its files; deleted, it leaves none unless requests overlapped.
* `PairingIsStable`: the greedy pairing gives a stable matching: no two spans would both rather be with each other.
* `RegexSideShowsThePipeline`: the comparison hides nothing that the pipeline would redact without OPF. It shows more in one
  case, which the property names: the override by a CPF or CNPJ comes before the filter.
* `NewestReportStays`: the report survives any number of reruns, which empty the directory it lies in.
* `AcknowledgedSettingsSurvive`: what `PUT /settings` confirmed is in force until another `PUT`, restarts included.
* `MarkersAreDense`: under each label the indices are 1 to n, each once. A stale `next_idx` is either
  taken by now, and the unique constraint rejects it, or still the next one.
* `OneMarkerUnlessRaced`, `ResolvesUnlessRaced`: requests may overlap in every other way; only two that
  allocate under the same label at once can give a value two markers or fail.
* `ImplementsMarkerTable`: every new marker is the next of its label, entries are never changed.

### What the violations show

* `opf_watchdog`. The module docstring (`opf_manager.py:14-16`) promises that toggling
  off does not pull the rug from a running job. The watchdog drops the lock after its check
  (line 352); a job that leases before `disable(wait_for_jobs=False)` takes it again
  loses its worker and fails.
* `opf_worker_hung`. `anonymizer/subprocess_opf_client.py:30` gives `detect()` a "per-call timeout". The timeout is that of the read; the write
  before it (170-171) has none and holds the client's lock, so a text longer than the pipe, sent to a worker that hangs, blocks that call, every
  later one and `stop()`.
* `comparison_deleted`. The docstring of `delete()` (`jobs/service.py:1049`) says that it removes a job permanently. A comparison
  that began before writes its report afterwards (1242), with the text of every block, and makes the directory again.

### Known disagreements

Further places where a comment or a test says otherwise than the code does. They have no run of their own; the
model behaves as the code does, and where a property is named, the case is its exception.

* A `disable()` that waits for leases leaves its worker in `_client` with `_enabled` already false; an `enable()` then starts
  another and overwrites `_client` (`opf_manager.py:204`). The first process keeps its memory until the server ends, against
  the docstring's line 11. In `OPFManager`: `Enable`, `BootReady`, `Acquire`, `Disable`, `Enable`, `BootReady`.
* `config.py:29-30` disables OPF after a while without activity "and zero outstanding leases", and the watchdog spares it while
  "in-flight jobs are still using OPF" (`opf_manager.py:342`). A job leases at `jobs/service.py:241` and enters the `try` that releases at
  259; the commit of `opf_used` (250) and the client's construction (252) stand between. What raises there leaves the count up with nobody
  holding the lease: the watchdog never disables OPF again, and each `disable()` waits out its 60 seconds. In `OPFManager`: `Enable`,
  `BootReady`, `Acquire`, `LoseLease`; the term `lost` of `RefcountCountsLeases`.
* The API documentation (`documentacao-obsidian/11 - API.md:73`) says that deleting a container cascades to its documents, mapping and
  spans. `delete()` (`containers/service.py:202-209`) removes one row; no foreign key does the rest. The mapping keeps the original values,
  and no endpoint reaches it any more. In `ImportedDocument`: `BeginImport`, `CreateRow`, `DeleteContainer`.
* The comment at `routers/containers.py:257-259` says that the hook moves a raw document to `pending_review` or `failed`. The
  failure branches of `process()` (`jobs/service.py:273-290`) return before the hook (349), so the document of a failed run stays in
  `processing`: the exception of `DocSettles`.
* The docstring at `containers/service.py:814-820` says that only ready documents are bundled; the loop looks at
  `pseudonymized_path` alone (835), which nothing resets. An approval that overtakes the hook of its run, or a rerun of an approved job,
  leaves a document that has an artefact and is not ready: exceptions of `DocFollowsJob`.
* The test `tests/test_api.py:758-761` says that every span must still index into the text after a manual redaction. A fragment that is part
  of a label or an index is replaced there too (`jobs/service.py:591` moves a span only by what ends before it), and
  reverting the span later overwrites other text: the exception `hit` of `HighlightsAligned`.
* The comment at `db/models.py:189-192` says that uniqueness of the table enforces one entry per value; the constraint is on the
  marker alone. Two requests that miss the same value give it two markers (`marker_resolver.py:172`), and every later lookup raises: the
  exception of `OneMarkerUnlessRaced`.
* The docstring of `restore_document()` (`containers/service.py:910-913`) says that the document must be ready; the code asks for its path
  only. `CleanImportRestores` therefore looks at every document that has its text.

## 4. Fairness

`OPFManager!Fairness`: weak fairness of each thread's own next step, as the
server's threads keep running. A boot ends, because reading the worker's answer
has a timeout; a lease that entered its `try` ends, because every detection has one, and a worker is stopped in bounded
time for the same reason. (Both presume that no long text is being written to a worker that hangs: that is `opf_worker_hung`,
and then they do not end.) A lease that is lost never ends; `TogglesReturn` holds with it because of the 60 seconds. A thread waiting for a load polls
every second and is notified too; `LoadAwaited` has strong fairness, because others
may go on loading and the condition need not stay true until it looks. So
`TogglesReturn` says that it returns if loads keep ending, and not that it sees
the end of the very load it waited for. Nobody is made to send a request, no
worker to crash, no time to pass. `TogglesReturn` is checked with
`CanTimeOut`, as `disable()` does give up after 60 seconds.

`JobService!Fairness`: weak fairness of `Serve` and `Run` per session: a request
that was begun and a task that was scheduled go on. `Die` is not fair, and
`Settles` names it as the only way a job stays in `pending` or `processing`:
nothing in the code takes up an interrupted run, and `delete()` and
`reset_for_reprocess()` both refuse such a job.

`OPFWorker!Fairness`: weak fairness of each call that has begun, with its deadline (`ReadEvent` or `BootTimesOut`, `Call` of each caller,
`Stop`). `Call(t)` includes taking the lock when it is free; nobody is promised it before another, as a `threading.Lock` keeps no queue. An endless
stream of other detections could keep one waiting; `MaxCalls` excludes that, so `CallsReturn` says that no call waits for ever on a
worker or on a call that never ends. `Drain` has weak fairness of its own: the write of a long text goes on while the worker waits for a line.
Otherwise nothing is assumed of the worker: it may crash or hang anywhere, and need not answer.

`ContainerReview!CFairness` is the same for the extended steps; `DocSettles` names failed runs and deaths.

`MarkerResolver`, `ImportedDocument` and `DetectorComparison` have no liveness property and no fairness: a request may
die, or the server stop, anywhere, and
nothing in the code takes it up again. Nor has `Redaction`: the reviewer may stop.

## 5. Proofs

For every set of threads, workers, sessions, redactions, requests, texts and values, every list of spans, and every label function:

| Theorem | Says | Assumes |
|---|---|---|
| `TypeCorrect`, `RefcountCorrect`, `LoaderIsAlone`, `OwnerIsAlone`, `DrainedStopIsSafe` | `Spec => []` each invariant of `opf_safety` | the named assumptions on constants: `Threads` is finite, actors and bases are distinct |
| `ManagerImplementsToggle` | `OPFManager` refines `OPFToggle` | the same |
| `JobTypeCorrect` | `Spec => []TypeOK` | nothing about `Serial` |
| `RunsAreExclusive`, `DeleteIsComplete`, `DecisionsAreAudited`, `ReviewsAreBacked` | `Spec => []` each invariant of `job_lifecycle` | `Serial` |
| `ServiceImplementsLifecycle` | `JobService` refines `JobLifecycle` | `Serial` |
| `ReadyDocumentsAreComplete`, `PublicationsAreApproved`, `DocumentsFollowTheirJobs` | `CSpec =>` `[]ReadyIsComplete`, `PublishedIsApproved`, `[]DocFollowsJob` of `ContainerReview` | `Serial` |
| `WorkerTypeCorrect`, `CallsReadTheirAnswers`, `NoWorkerIsOrphaned` | `Spec => []` each invariant of `opf_worker` | threads are distinct, bounds are numbers |
| `PlaceholdersAreUnique`, `PositionsStayAligned`, `DocumentIsNeverLost` | `Spec => []` `OneValuePerPlaceholder`, `HighlightsAligned`, `DocumentIsRecoverable` | documents are sequences of sequences |
| `RedactionIsThorough` | `Spec => NoClearCopyLeft` | the same |
| `RestoringIsFaithful` | `Spec => []RestoresTheLetters` | `PlainDocuments`, and that the separator is white space |
| `MarkerTypeCorrect`, `MarkersStayDense`, `MarkersAreUnique`, `RequestsResolve` | `Spec => []` each invariant of `markers_overlap` | nothing about requests, values or labels |
| `ResolverImplementsTable` | `MarkerResolver` refines `MarkerTable` | the same |
| `ImportTypeCorrect`, `SummariesAreRight`, `FilesAreThere` | `Spec => []` `TypeOK`, `SummaryTellsTheText`, `FilesFollowTheRow` | bounds are numbers, the unreadable file is no text |
| `CleanImportsStayFaithful` | `Spec => []CleanImportRestores` | the same, and `PlainImports` |
| `PairingsAreStable`, `RegexSideIsFaithful`, `NewestReportSurvives`, `SettingsSurvive` | `Spec => []` `PairingIsStable`, `RegexSideShowsThePipeline`, `NewestReportStays`, `AcknowledgedSettingsSurvive` | there is a block; detectors return lists; no set of kinds is the empty cache or an unreadable file |

Two theorems have a hypothesis of their own, which is not an assumption of the module because the code accepts more. `PlainDocuments`: no
character of a document is one that stands for a label, an index is none, the separator of two blocks is none. `PlainImports`: the same
of the values that other documents bring in; in an uploaded text such a character begins a well-formed marker (a
malformed one is a character of its own, in `Odd`); and lower case neither makes nor changes one, nor is one white
space. Without them the properties are false: a
document that holds the text of a placeholder which a redaction then hands out gets the redacted value in its place. The
instances of the runs satisfy both, and the code gives no way to make such a character but to type it.

**OPFManager.** The inductive invariant `IInv` is the conjunction of `Typed` (`TypeOK`
and what each label says about `hold`) and the four safety properties, which need
one another: that a drained stop spares the leases holds because the refcount is
the cardinality of the leases, and that it is kept by a later `acquire()` holds
because a worker being stopped is not `client` (`OneOwner`). The count is kept
because a step adds or removes one thread of a finite set
(`GotoLeases`, `LeaseSteps`). Steps that only move an actor are dealt with by one lemma per
conjunct (`MoveKeepsLoader`, `MoveKeepsOwner`).

**OPFWorker.** That an answer is read by the call that asked rests on what the pipes can hold, and that on the lock and on the kills.
`IInv` says so part by part: who holds the lock is within its critical section (`LockHeld`); what is forgotten is dead (`ForgottenIsDead`);
nobody uses the client before `start()` is through (`Private`, `Booting`); from then on a living worker has empty pipes when the
lock is free (`Quiet`), and beside a caller that reads at most its request or its answer (`Asking`), beside a stopper its
shutdown (`Stopping`), and works on the reader's text (`Working`). The heart is that every thread that gives up has killed the process first,
so that what it leaves in a pipe nobody reads. There is a lemma per action and a step per conjunct.

**JobService.** Statuses are checked in one step and relied on in later ones, so
none of the properties is inductive. `Owned` adds what each label of a session
counts on (`CountsOn`: a session that decided to reject still finds the job in
`awaiting_review`, one that drops rows finds it in a status that is not busy, and so on),
that at most one request is open (`OneRequest`, from `Serial`) and at most one run
(`OneRun`). The argument is the same for every step: the session that moves
establishes what its new label counts on, and no other session may change what
the remaining ones count on, as the only other session that can act is a run,
which needs a busy job (`Others`, `Standing`). `Audited` adds that a
session past `Record` has its event; `Backed` adds what each label says of rows
and files (`HoldsFor`); `Faithful` adds what an editing session's draft and a reset in
progress need for the refinement. `TextSteps`, `FileSteps`, `TableSteps` and `StatusSteps` summarise what a
step can do to one variable and are cited instead of the whole next-state relation.

**ContainerReview.** Every step of the container is a step of the job, or (the last of a removal) touches its upload only, which the
job's invariant `Backed` does not mention (`JobSteps`); so it holds here. `CInv` adds what a session in an
upload, a promotion or a removal counts on (`Counts`: a promotion holds the text as it is), that a hook finds the
decision that called it (`Hooks`), and that a
removal is alone (`OneRemoval`). Whoever is served or removes is alone (`Alone`), so most steps concern their own session
(`LoneStep`); the exception is a run, and while one is queued or under way no decision waits for its hook (`NoHookInARun`).
That the document follows its job needs more (`CFollow`): a busy job has a session that works on it (`InFlight`), no decision
is made while the hook of a run is pending (`NoRace`, `Open`), and where the document lags a hook is on its way (`Told`). All but
the first are said as long as nothing was lost or overtaken, which no step undoes (`CleanSteps`).

**MarkerResolver.** `Dense` holds in every case: it adds that an index in hand is 1 or follows one
in use (`NumberFollows`), which no insert can undo. A free one that follows is the next
(`FreeIsNext`: were there a larger one, density would have it taken). `Unraced` is what a
request between its miss and its insert counts on (its value is still missing, nobody else allocates under its
label, its index is above all others), and holds until the history variable says otherwise.

**TextProofs.** Replacing is recursive over a text, and induction over data is out of reach as such: the library states it with operator
parameters. `LeastExists` (from `WFMin`), `IntervalInduction` and `RecursionIsDefined` state it for sets and functions of numbers instead, and
everything else rests on them. `SpliceIsBuilt` is the way in: a spliced text is the last of a row of texts, one per position, of which each is the one
before and either one character more or what is put in. From it follow where a place and a character behind it are found afterwards (`PlacesMove`,
`OutsideStaysOutside`, `PlacesShift`), that two splices in the same places are one (`SpliceTwice`), that what is replaced by itself
stays (`PlainPlacesStay`), which characters the result has (`CharactersStay`, `NoOtherCharacters`), that texts whose parts have equal
letters have equal letters (`LettersStay`, which goes through the letters up to each position, as white space shifts
them), and that find and replace leaves no occurrence that touches no replacement (`NoOtherOccurrence`).
`Stands(t, I, a, z, v, w, u)` then says that in `t` the places `I` show `v`, and that with `w` in all of them `t` is `u`. It survives the
replacement of any value of some places (`StandsAfter`), so replacing all values one after the other ends in `u`
(`OneAfterTheOther`), if each begins with a character that `u` has not: nothing that is put back can complete another one. The order
does not matter for it.

**ImportedDocument.** The files follow the row because each is written before the row says so (`Backed`), because there is one import
and a row, once removed, does not come back (`OneLife`), and, unless requests overlapped or died (`Alone`), because what is not in its place is in the
hands of the one request under way (`Tidy`). The summary is right because it is computed from the text that is then written
(`Told`), and stays right because the table only grows and an entry never changes (`TableGrows`: known markers stay known).

That a clean import restores to the same text for good has an invariant of its own, `RInv`. `Sound` says of a text that characters of labels
stand in markers of the table only, and that the originals of those have none; such a text restores to its `Opened` form, in which all
originals are put back at once (`SoundRestores`). A redaction that touches no marker keeps it sound, and the letters of its `Opened` form
(`RedactionStaysSound`); a larger table changes neither, as long as no two entries have one marker (`Unique`, `SoundForGood`). `Kept` says so of
the file and of every text that a request is about to write over it, so it does not matter which of them comes last. It
begins with the import, when no
value of the table can come from this document (`Apart`), and uses that the marker a request holds is an entry's, with the value of the
fragment (`Assigned`). TLC has checked `RInv` and `PlainImports` on the instance of `imported_document`.

**DetectorComparison.** Half-way through the candidates of a block (`Pairing`), no pair is worse than a candidate to come, and each candidate
passed over is blocked by a pair at least as good; the next candidate keeps that, whether it becomes a pair or not
(`PairingGoesOn`). The argument uses no arithmetic: `Worse` compares as it does. That the regex side shows the pipeline
rests on one lemma about lists of which
some elements are kept (`Kept`), as both clients keep elements of the same list. The other two follow from what a rerun
or a write to the file has in hand.

**Redaction.** `IInv` adds to `OneValuePerPlaceholder` that every placeholder has the type of its span and an index of at
most the number of spans (`Indexed`), so the next free one is above all, and that texts and
span lists are finite sequences. For the pipeline, the index of a value is the number of values of its type up to its
first occurrence: of two values the set of the later one strictly contains that of the earlier
(`IndexSeparatesValues`).

`PInv` says where the spans are: as long as no redaction cut into a span in force, some set of spans (all spans, if none was cut at
all) stands in the text where their positions say, each as its placeholder or, once reverted, its original, apart from each other, and
the text with their originals put back is the document (`Laid`). It begins with the pipeline, where a span that was
found in a block is one in the joined
text too (`BlocksStand`, `PipelineIsLaid`). A redaction replaces its occurrences, all apart from what it leaves
(`OccurrencesAreReplaced`), moves the other places and adds its own (`RedactKeepsPlaces`); a revert replaces one place and moves those behind
it (`RevertKeepsPlaces`). `HighlightsAligned` and `DocumentIsRecoverable` are read off it. That a redaction leaves no clear copy
follows from the search alone, `NoOtherOccurrence` (`RedactLeavesNoCopy`). That restoring
gives the document is `OneAfterTheOther`: the places of one placeholder have one value (`OneValuePerPlaceholder`), and no original holds a
character of a label (`DocumentStaysPlain`), so none completes another placeholder (`RestoringGivesTheDocument`); equal keys
have equal letters, so each place gets the letters of its own original.

Only model-checked: the four liveness properties (`TogglesReturn`, `CallsReturn`, `Settles`, `DocSettles`), which are out of the provers' reach
under fairness; and the three violations, which are counterexamples on an instance.

## 6. Plan

In order of importance; each line is a module, its run, and what to prove.

1. `OPFManager` with a client whose `acquire()` raises under the manager's lock, and one whose `stop()` never returns, which joins it to `OPFWorker`.
2. `Redaction` with the other replacement strategies. An empty replacement (`suppress`) shares its position with what follows, so the
   places of `TextEdits` have to be allowed to be empty, in the lemmas of `TextProofs` too.
3. The verification of a redacted text and the risk decision, as pure operators.

## 7. Not modelled

Extractors, and what the regular expressions and the model match: file formats, OCR and patterns; what they find is
data, and how the clients combine it is `DetectorComparison`. Verification and risk scoring: a signal that gates
nothing. Storage, configuration, schemas,
logging: no behaviour of their own. The reviewer UI: a client; `Serial` is what is taken from it. The validation of a
processed text of a reversible job, the residual personal data that the validation endpoint shows, the exports, the listings: they only
read. The creation and renaming of a container: one row, one commit. `containers/pipeline.py` (`run_raw_document`): nothing calls it.
