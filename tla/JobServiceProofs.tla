--------------------------- MODULE JobServiceProofs ---------------------------
(***************************************************************************)
(* What JobService guarantees for any number of sessions and redactions,   *)
(* while the client waits for each response: a run has its job for itself, *)
(* a deleted job leaves no rows, every decision is audited, what is        *)
(* reviewed is backed by its files and rows, and the whole implements the  *)
(* life of a job.                                                          *)
(*                                                                         *)
(* The second part is about ContainerReview.  Every step of the container  *)
(* is a step of the job, or leaves the job alone but for its upload        *)
(* (JobSteps), so what the first part shows of the job holds there too:    *)
(* only what is approved is published, a ready document is complete, and   *)
(* at rest the document tells what its job is.                             *)
(***************************************************************************)
EXTENDS ContainerReview, TLAPS

----------------------------------------------------------------------------
(* Type correctness *)

USE DEF row, tables, files, Quietly, NoLocals

\* A session that carries a decision knows which.
VerbOK == \A s \in Sessions : pc[s] \in {"deciding", "recorded"} => verb[s] \in Verbs

Typed == TypeOK /\ VerbOK

\* A session that moves keeps the types.
LEMMA GotoTypes ==
  ASSUME TypeOK, NEW s \in Sessions, NEW l \in PCs, Goto(s, l)
  PROVE  pc' \in [Sessions -> PCs]
  BY DEF TypeOK, Goto

LEMMA EndTypes ==
  ASSUME TypeOK, NEW s \in Sessions, End(s)
  PROVE  /\ pc' \in [Sessions -> PCs]
         /\ verb' \in [Sessions -> Verbs \cup {"none"}]
         /\ draft' \in [Sessions -> [text : Texts, spans : Texts]]
  BY DEF TypeOK, End, Goto, NoDraft, PCs, Texts

\* The labels, one by one.
LEMMA Labels ==
  {"idle", "scheduled", "notifying", "running", "detecting", "saving", "saved", "persisted",
   "editing", "edited", "annotating", "deciding", "recorded", "hook",
   "dropRows", "dropEvents", "dropJob", "dropFiles",
   "wipeRows", "wipeEvents", "wipeFiles", "resetJob",
   "storing", "submitted", "commenting"} = PCs
  BY DEF PCs, TaskPCs, RunPCs, EditPCs, ReviewPCs, DeletePCs, ResetPCs, RequestPCs

\* What the helpers return.
LEMMA Values ==
  /\ Busy \cup Reviewable \cup {"failed", "deleted"} \subseteq Statuses
  /\ \A v \in Verbs : EventOf(v) \in EventTypes /\ Outcome(v) \in Statuses
  /\ "note" \in EventTypes
  /\ {Pipeline} \in Texts
  <1>1. Busy \cup Reviewable \cup {"failed", "deleted"} \subseteq Statuses
    BY DEF Statuses
  <1>2. \A v \in Verbs : EventOf(v) \in EventTypes
    BY DEF Verbs, EventOf, EventTypes
  <1>3. \A v \in Verbs : Outcome(v) \in Statuses
    BY DEF Verbs, Outcome, Statuses, Reviewable
  <1>4. "note" \in EventTypes
    BY DEF EventTypes
  <1>5. {Pipeline} \in Texts
    BY DEF Texts
  <1> QED
    BY <1>1, <1>2, <1>3, <1>4, <1>5

LEMMA StatusTyped ==
  ASSUME TypeOK, NEW new \in Statuses, SetStatus(new)
  PROVE  status' \in Statuses
  BY DEF TypeOK, SetStatus

LEMMA InitTyped == Init => Typed
  <1> SUFFICES ASSUME Init PROVE TypeOK /\ VerbOK
    BY DEF Typed
  <1>1. /\ status \in Statuses /\ paths \in BOOLEAN /\ rows \in Nat
        /\ events \in SUBSET EventTypes /\ source \in BOOLEAN
    BY DEF Init, Statuses
  <1>2. text \in Texts \cup {NoFile} /\ spans \in Texts \cup {NoFile}
    BY DEF Init
  <1>3. pc \in [Sessions -> PCs] /\ verb \in [Sessions -> Verbs \cup {"none"}]
    BY Labels DEF Init
  <1>4. draft \in [Sessions -> [text : Texts, spans : Texts]] /\ lost = {}
    BY DEF Init, NoDraft, Texts
  <1>5. VerbOK
    BY DEF Init, VerbOK
  <1> QED
    BY <1>1, <1>2, <1>3, <1>4, <1>5 DEF TypeOK

\* A step that ends in no decision, or in one that was there, keeps VerbOK.
LEMMA VerbKept ==
  ASSUME TypeOK, VerbOK, NEW s \in Sessions, NEW l, Goto(s, l), UNCHANGED verb,
         l \in {"deciding", "recorded"} => pc[s] \in {"deciding", "recorded"}
  PROVE  VerbOK'
  BY DEF VerbOK, TypeOK, Goto

LEMMA NextTyped == Typed /\ [Next]_vars => Typed'
  <1> SUFFICES ASSUME TypeOK, VerbOK, [Next]_vars PROVE TypeOK' /\ VerbOK'
    BY DEF Typed
  <1> USE Labels, Values, GotoTypes, VerbKept
  \* Steps that only move the session.
  <1>1. ASSUME NEW s \in Sessions, NEW l \in PCs, Goto(s, l), Quietly, UNCHANGED verb,
               draft' \in [Sessions -> [text : Texts, spans : Texts]],
               l \in {"deciding", "recorded"} => pc[s] \in {"deciding", "recorded"}
        PROVE  TypeOK' /\ VerbOK'
    BY <1>1 DEF TypeOK
  <1>2. ASSUME NEW s \in Sessions, Request(s) PROVE TypeOK' /\ VerbOK'
    <2>1. CASE Upload(s)
      BY <2>1 DEF Upload, Begin, TypeOK
    <2>2. CASE BeginComment(s) \/ BeginDelete(s) \/ BeginReset(s)
      BY <1>1, <2>2 DEF BeginComment, BeginDelete, BeginReset, Begin, TypeOK
    <2>3. ASSUME NEW v \in Verbs, Decide(s, v) PROVE TypeOK' /\ VerbOK'
      <3>1. Goto(s, "deciding") /\ verb' = [verb EXCEPT ![s] = v]
            /\ Quietly /\ UNCHANGED draft
        BY <2>3 DEF Decide, Begin
      <3>2. VerbOK'
        BY <3>1 DEF VerbOK, TypeOK, Goto
      <3> QED
        BY <3>1, <3>2 DEF TypeOK
    <2>4. ASSUME NEW T \in Texts, NEW S \in Texts, BeginEdit(s, T, S)
          PROVE  TypeOK' /\ VerbOK'
      <3>1. draft' \in [Sessions -> [text : Texts, spans : Texts]]
        BY <2>4 DEF BeginEdit, TypeOK
      <3> QED
        BY <1>1, <2>4, <3>1 DEF BeginEdit, Begin
    <2>5. ASSUME NEW r \in Redactions \cup {Pipeline}, Redact(s, r) \/ RevertSpan(s, r)
          PROVE  TypeOK' /\ VerbOK'
      <3>1. text \in Texts /\ spans \in Texts
        BY <2>5 DEF Redact, RevertSpan, BeginEdit, TypeOK
      <3>2. /\ text \cup {r} \in Texts /\ spans \cup {r} \in Texts
            /\ text \ {r} \in Texts /\ spans \ {r} \in Texts
        BY <3>1 DEF Texts
      <3> QED
        BY <2>4, <2>5, <3>2 DEF Redact, RevertSpan
    <2>6. CASE \E v \in Verbs : Decide(s, v)
      BY <2>3, <2>6
    <2>7. CASE \E r \in Redactions \cup {Pipeline} : Redact(s, r) \/ RevertSpan(s, r)
      BY <2>5, <2>7
    <2>8. \/ Upload(s) \/ BeginComment(s) \/ BeginDelete(s) \/ BeginReset(s)
          \/ \E v \in Verbs : Decide(s, v)
          \/ \E r \in Redactions \cup {Pipeline} : Redact(s, r) \/ RevertSpan(s, r)
      BY <1>2, Zenon DEF Request
    <2> HIDE Labels, Values, GotoTypes, VerbKept
    <2> QED
      BY <2>1, <2>2, <2>6, <2>7, <2>8, Zenon
  <1>3. ASSUME NEW s \in Sessions, End(s)
        PROVE  /\ pc' \in [Sessions -> PCs] /\ verb' \in [Sessions -> Verbs \cup {"none"}]
               /\ draft' \in [Sessions -> [text : Texts, spans : Texts]] /\ VerbOK'
    BY <1>3, EndTypes DEF VerbOK, TypeOK, End, Goto
  <1>4. ASSUME NEW s \in Sessions, Serve(s) PROVE TypeOK' /\ VerbOK'
    <2>1. CASE CreateJob(s)
      <3>1. status' \in Statuses
        BY <2>1 DEF CreateJob, Busy
      <3> QED
        BY <2>1, <3>1 DEF CreateJob, Step, TypeOK
    <2>2. CASE Record(s)
      <3>1. events' \in SUBSET EventTypes
        BY <2>2 DEF Record, Step, TypeOK, VerbOK
      <3> QED
        BY <2>2, <3>1 DEF Record, Step, TypeOK
    <2>3. CASE ApplyDecision(s)
      <3>1. status' \in Statuses
        BY <2>3, StatusTyped DEF ApplyDecision, VerbOK
      <3>2. CASE Goto(s, "hook") /\ NoLocals
        BY <2>3, <3>1, <3>2 DEF ApplyDecision, TypeOK
      <3>3. CASE End(s)
        BY <1>3, <2>3, <3>1, <3>3 DEF ApplyDecision, TypeOK
      <3> QED
        BY <2>3, <3>2, <3>3 DEF ApplyDecision
    <2>4. CASE Hooked(s)
      BY <1>3, <2>4 DEF Hooked, TypeOK
    <2>5. CASE WriteText(s) \/ WriteSpans(s)
      <3>1. PICK l \in {"edited", "annotating"} : Goto(s, l)
        BY <2>5 DEF WriteText, WriteSpans, Step
      <3>2. text' \in Texts \cup {NoFile} /\ spans' \in Texts \cup {NoFile}
        BY <2>5 DEF WriteText, WriteSpans, TypeOK
      <3>3. UNCHANGED <<row, tables, source, lost, verb, draft>>
        BY <2>5 DEF WriteText, WriteSpans
      <3> QED
        BY <3>1, <3>2, <3>3 DEF TypeOK
    <2>6. CASE Annotate(s)
      BY <1>3, <2>6 DEF Annotate, TypeOK
    <2>7. CASE DropRows(s) \/ DropEvents(s) \/ WipeRows(s) \/ WipeEvents(s)
      <3>1. PICK l \in {"dropEvents", "dropJob", "wipeEvents", "wipeFiles"} : Goto(s, l)
        BY <2>7 DEF DropRows, DropEvents, WipeRows, WipeEvents, Step
      <3>2. rows' \in Nat
        BY <2>7 DEF DropRows, DropEvents, WipeRows, WipeEvents, TypeOK
      <3>3. events' \in SUBSET EventTypes
        BY <2>7 DEF DropRows, DropEvents, WipeRows, WipeEvents, TypeOK
      <3>4. UNCHANGED <<row, files, lost, verb, draft>>
        BY <2>7 DEF DropRows, DropEvents, WipeRows, WipeEvents
      <3> QED
        BY <3>1, <3>2, <3>3, <3>4 DEF TypeOK
    <2>8. CASE DropJob(s)
      <3>1. status' \in Statuses
        BY <2>8 DEF DropJob, TypeOK
      <3> QED
        BY <2>8, <3>1 DEF DropJob, Step, TypeOK
    <2>9. CASE DropFiles(s) \/ WipeFiles(s)
      BY <2>9 DEF DropFiles, WipeFiles, Step, TypeOK
    <2>10. CASE ResetJob(s)
      <3>1. status' \in Statuses
        BY <2>10, StatusTyped DEF ResetJob, Busy
      <3>2. PICK l \in {"submitted", "idle"} : Goto(s, l)
        BY <2>10 DEF ResetJob, Step
      <3> QED
        BY <2>10, <3>1, <3>2 DEF ResetJob, TypeOK
    <2> QED
      BY <1>4, <2>1, <2>2, <2>3, <2>4, <2>5, <2>6, <2>7, <2>8, <2>9, <2>10 DEF Serve
  <1>5. ASSUME NEW s \in Sessions, Run(s) PROVE TypeOK' /\ VerbOK'
    <2>1. CASE Schedule(s) \/ Extract(s) \/ Notified(s)
      BY <1>1, <2>1 DEF Schedule, Extract, Notified, Step, TypeOK
    <2>2. CASE StartRun(s)
      <3>1. status' \in Statuses
        BY <2>2, StatusTyped DEF StartRun, Busy
      <3>2. PICK l \in {"running", "idle"} : Goto(s, l)
        BY <2>2 DEF StartRun, Step
      <3> QED
        BY <2>2, <3>1, <3>2 DEF StartRun, TypeOK
    <2>3. CASE FailRun(s)
      <3>1. status' \in Statuses
        BY <2>3, StatusTyped DEF FailRun
      <3> QED
        BY <2>3, <3>1 DEF FailRun, TypeOK
    <2>4. CASE SaveText(s) \/ SaveSpans(s)
      <3>1. PICK l \in {"saving", "saved"} : Goto(s, l)
        BY <2>4 DEF SaveText, SaveSpans, Step
      <3>2. text' \in Texts \cup {NoFile} /\ spans' \in Texts \cup {NoFile}
        <4>1. {Pipeline} \in Texts
          BY Values
        <4> QED
          BY <2>4, <4>1 DEF SaveText, SaveSpans, TypeOK
      <3>3. UNCHANGED <<row, tables, source, lost, verb, draft>>
        BY <2>4 DEF SaveText, SaveSpans
      <3> QED
        BY <3>1, <3>2, <3>3 DEF TypeOK
    <2>5. CASE AddRows(s)
      BY <2>5 DEF AddRows, Step, TypeOK
    <2>6. CASE FinishRun(s)
      <3>1. status' \in Statuses
        BY <2>6, StatusTyped DEF FinishRun, Reviewable
      <3>2. PICK l \in {"notifying", "idle"} : Goto(s, l)
        BY <2>6 DEF FinishRun, Step
      <3>3. paths' \in BOOLEAN
        BY <2>6 DEF FinishRun, TypeOK
      <3> QED
        BY <2>6, <3>1, <3>2, <3>3 DEF FinishRun, TypeOK
    <2> QED
      BY <1>5, <2>1, <2>2, <2>3, <2>4, <2>5, <2>6 DEF Run
  <1>6. ASSUME NEW s \in Sessions, Die(s) PROVE TypeOK' /\ VerbOK'
    <2>1. KindOf(pc[s]) \in {"run", "review", "edit", "wipe"}
      <3>1. pc[s] \in PCs \ {"idle"}
        BY <1>6 DEF Die, TypeOK
      <3> QED
        BY <3>1 DEF KindOf, PCs, RequestPCs
    <2> QED
      BY <1>3, <1>6, <2>1 DEF Die, TypeOK
  <1>7. CASE UNCHANGED vars
    BY <1>7 DEF vars, TypeOK, VerbOK
  <1> QED
    BY <1>2, <1>4, <1>5, <1>6, <1>7 DEF Next, Over

\* Every variable keeps its type, and a decision under way is one of three.
THEOREM JobTypeCorrect == Spec => []TypeOK
  <1>1. Typed => TypeOK
    BY DEF Typed
  <1> QED
    BY InitTyped, NextTyped, <1>1, PTL DEF Spec

----------------------------------------------------------------------------
(* A run has the job for itself, if the client waits for each response *)

Queued == {"submitted", "scheduled"}
Wiping == {"dropRows", "dropEvents", "dropJob"} \cup ResetPCs

\* One request at a time, and one run at a time.
OneRequest ==
  \A s, u \in Sessions : pc[s] \in RequestPCs /\ pc[u] \in RequestPCs => s = u
OneRun ==
  \A s, u \in Sessions : pc[s] \in Queued \cup RunPCs /\ pc[u] \in Queued \cup RunPCs => s = u

\* What a session at p, with the decision v, may count on: the status it has
\* checked or set, and what it has removed, are still as it left them.
CountsOn(p, v) ==
  /\ p = "storing" => status = "unborn"
  /\ p \in Queued => status = "pending"
  /\ p \in RunPCs => status = "processing"
  /\ p \in {"deciding", "recorded"} => status = Required(v)
  /\ p \in EditPCs => status \in Reviewable
  /\ p = "commenting" => Exists
  /\ p \in Wiping => status \in Reviewable \cup {"failed"}
  /\ p \in {"dropEvents", "dropJob"} => rows = 0
  /\ p = "dropJob" => events = {}
  /\ p = "dropFiles" => status = "deleted"

Steady == \A s \in Sessions : CountsOn(pc[s], verb[s])

Owned == Typed /\ OneRequest /\ OneRun /\ Steady /\ DeletedLeavesNoRows

LEMMA InitOwned == Init => Owned
  <1> SUFFICES ASSUME Init PROVE Owned
    OBVIOUS
  <1>1. \A s \in Sessions : pc[s] = "idle"
    BY DEF Init
  <1>2. OneRequest /\ OneRun
    BY <1>1 DEF OneRequest, OneRun, Queued, RequestPCs, RunPCs, EditPCs, ReviewPCs,
                DeletePCs, ResetPCs
  <1>3. Steady
    BY <1>1 DEF Steady, CountsOn, Queued, RunPCs, EditPCs, Wiping, ResetPCs
  <1>4. DeletedLeavesNoRows
    BY DEF Init, DeletedLeavesNoRows
  <1> QED
    BY <1>2, <1>3, <1>4, InitTyped DEF Owned

\* A session is where it is for one of these reasons only: a request begins
\* when no other is served, and the queue is entered from an upload or a reset.
LEMMA OneMoves ==
  ASSUME Typed, [Next]_vars
  PROVE  \/ UNCHANGED pc
         \/ \E s \in Sessions, l \in PCs :
              /\ Goto(s, l)
              /\ \/ l \notin RequestPCs
                 \/ pc[s] \in RequestPCs
                 \/ Serial => \A u \in Sessions : pc[u] \notin RequestPCs
              /\ l \in Queued \cup RunPCs =>
                   pc[s] \in Queued \cup RunPCs \cup {"storing", "resetJob"}
  <1> DEFINE Moves(s, l) ==
               /\ Goto(s, l)
               /\ \/ l \notin RequestPCs
                  \/ pc[s] \in RequestPCs
                  \/ Serial => \A u \in Sessions : pc[u] \notin RequestPCs
               /\ l \in Queued \cup RunPCs =>
                    pc[s] \in Queued \cup RunPCs \cup {"storing", "resetJob"}
  <1> SUFFICES UNCHANGED pc \/ \E s \in Sessions, l \in PCs : Moves(s, l)
    OBVIOUS
  <1>0. "idle" \notin RequestPCs \cup Queued \cup RunPCs /\ "idle" \in PCs
    BY DEF PCs, RequestPCs, EditPCs, ReviewPCs, DeletePCs, ResetPCs, Queued, RunPCs
  <1>1. ASSUME NEW s \in Sessions, NEW l \in PCs \ (Queued \cup RunPCs), Begin(s, l)
        PROVE  Moves(s, l)
    BY <1>1 DEF Begin
  <1>2. ASSUME NEW s \in Sessions, Request(s) PROVE \E l \in PCs : Moves(s, l)
    <2>1. \E l \in {"storing", "commenting", "dropRows", "wipeRows", "deciding", "editing"} :
             Begin(s, l)
      BY <1>2 DEF Request, Upload, BeginComment, BeginDelete, BeginReset, Decide, Redact,
                  RevertSpan, BeginEdit
    <2>2. {"storing", "commenting", "dropRows", "wipeRows", "deciding", "editing"}
            \subseteq PCs \ (Queued \cup RunPCs)
      BY Labels DEF Queued, RunPCs
    <2> QED
      BY <1>1, <2>1, <2>2
  <1>3. ASSUME NEW s \in Sessions, End(s) \/ Goto(s, "idle") PROVE Moves(s, "idle")
    BY <1>0, <1>3 DEF End
  <1>4. ASSUME NEW s \in Sessions, Serve(s) PROVE \E l \in PCs : Moves(s, l)
    <2>1. \/ Step(s, "storing", "submitted") \/ Step(s, "resetJob", "submitted")
          \/ \E p \in RequestPCs, l \in RequestPCs \ Queued : Step(s, p, l)
          \/ Goto(s, "idle")
      BY <1>4 DEF Serve, CreateJob, Record, ApplyDecision, Hooked, WriteText, WriteSpans,
              Annotate, DropRows, DropEvents, DropJob, DropFiles, WipeRows, WipeEvents,
              WipeFiles, ResetJob, Step, End, RequestPCs, EditPCs, ReviewPCs, DeletePCs,
              ResetPCs, Queued
    <2>2. "submitted" \in PCs /\ "storing" \in RequestPCs /\ "resetJob" \in RequestPCs
      BY DEF PCs, RequestPCs, ResetPCs
    <2>3. RequestPCs \subseteq PCs /\ RequestPCs \cap RunPCs = {}
      BY DEF PCs, RequestPCs, EditPCs, ReviewPCs, DeletePCs, ResetPCs, RunPCs
    <2> QED
      BY <1>0, <1>3, <2>1, <2>2, <2>3 DEF Step
  <1>5. ASSUME NEW s \in Sessions, Run(s) PROVE \E l \in PCs : Moves(s, l)
    <2>1. \/ \E p \in Queued \cup RunPCs, l \in RunPCs \cup {"scheduled", "notifying"} :
               Step(s, p, l)
          \/ Goto(s, "idle")
      BY <1>5 DEF Run, Schedule, Extract, StartRun, FailRun, SaveText, SaveSpans, AddRows, FinishRun,
              Notified, Step, Queued, RunPCs
    <2>2. /\ RunPCs \cup {"scheduled", "notifying"} \subseteq PCs
          /\ (RunPCs \cup {"scheduled", "notifying"}) \cap RequestPCs = {}
      BY DEF PCs, TaskPCs, RequestPCs, EditPCs, ReviewPCs, DeletePCs, ResetPCs, RunPCs
    <2> QED
      BY <1>3, <1>0, <2>1, <2>2 DEF Step
  <1>6. ASSUME NEW s \in Sessions, Die(s) PROVE \E l \in PCs : Moves(s, l)
    BY <1>0, <1>3, <1>6 DEF Die
  <1> QED
    BY <1>2, <1>4, <1>5, <1>6 DEF Next, Over, vars

LEMMA NextOneRequest ==
  ASSUME Serial, Typed, OneRequest, [Next]_vars
  PROVE  OneRequest'
  <1>1. CASE UNCHANGED pc
    BY <1>1 DEF OneRequest
  <1>2. ASSUME NEW s \in Sessions, NEW l \in PCs, Goto(s, l),
               \/ l \notin RequestPCs \/ pc[s] \in RequestPCs
               \/ \A u \in Sessions : pc[u] \notin RequestPCs
        PROVE  OneRequest'
    BY <1>2 DEF OneRequest, Goto, Typed, TypeOK
  <1> QED
    BY <1>1, <1>2, OneMoves

LEMMA NextOneRun ==
  ASSUME Owned, [Next]_vars
  PROVE  OneRun'
  <1>1. CASE UNCHANGED pc
    BY <1>1 DEF OneRun, Owned
  <1>2. ASSUME NEW s \in Sessions, NEW l \in PCs, Goto(s, l),
               l \in Queued \cup RunPCs =>
                 pc[s] \in Queued \cup RunPCs \cup {"storing", "resetJob"}
        PROVE  OneRun'
    <2>1. CASE pc[s] \in {"storing", "resetJob"}
      <3>1. status \in {"unborn", "failed"} \cup Reviewable
        BY <2>1 DEF Owned, Steady, CountsOn, Wiping, ResetPCs
      <3>2. \A u \in Sessions : pc[u] \notin Queued \cup RunPCs
        BY <3>1 DEF Owned, Steady, CountsOn, Reviewable
      <3> QED
        BY <1>2, <3>2 DEF OneRun, Goto, Owned, Typed, TypeOK
    <2>2. CASE l \notin Queued \cup RunPCs \/ pc[s] \in Queued \cup RunPCs
      BY <1>2, <2>2 DEF OneRun, Goto, Owned, Typed, TypeOK
    <2> QED
      BY <1>2, <2>1, <2>2
  <1> QED
    BY <1>1, <1>2, OneMoves DEF Owned

\* While s runs, the others are idle, wait for a hook or add a comment; while s
\* works on a job that is not being processed, the others are idle or in a hook.
LEMMA Others ==
  ASSUME Owned, NEW s \in Sessions, NEW u \in Sessions, u # s
  PROVE  /\ pc[s] \in RunPCs \cup {"scheduled"} =>
              pc[u] \in {"idle", "notifying", "commenting", "hook"}
         /\ pc[s] \in {"storing", "recorded", "dropFiles"} \cup EditPCs \cup Wiping =>
              pc[u] \in {"idle", "notifying"}
         /\ pc[s] \in RequestPCs => pc[u] \notin RequestPCs
  <1>1. pc[s] \in RequestPCs => pc[u] \notin RequestPCs
    BY DEF Owned, OneRequest
  <1>2. pc[u] \in PCs
    BY DEF Owned, Typed, TypeOK
  <1>3. CASE pc[s] \in RunPCs \cup {"scheduled"}
    <2>1. status \in Busy
      BY <1>3 DEF Owned, Steady, CountsOn, Busy, Queued
    <2>2. pc[u] \notin Queued \cup RunPCs
      BY <1>3 DEF Owned, OneRun, Queued
    <2>3. verb[u] \in Verbs => Required(verb[u]) \in Reviewable
      BY DEF Required, Reviewable
    <2>4. pc[u] \notin {"storing", "deciding", "recorded", "dropFiles"} \cup EditPCs \cup Wiping
      BY <2>1, <2>3 DEF Owned, Steady, CountsOn, Busy, Reviewable, Typed, VerbOK
    <2> QED
      BY <1>2, <1>3, <2>2, <2>4, Labels
      DEF Queued, RunPCs, EditPCs, Wiping, RequestPCs, ReviewPCs, DeletePCs, ResetPCs
  <1>4. CASE pc[s] \in {"storing", "recorded", "dropFiles"} \cup EditPCs \cup Wiping
    <2>1. pc[s] \in RequestPCs
      BY <1>4 DEF RequestPCs, EditPCs, Wiping, ReviewPCs, DeletePCs, ResetPCs
    <2>2. status \notin Busy
      BY <1>4 DEF Owned, Steady, CountsOn, Busy, Reviewable, Required
    <2>3. pc[u] \notin Queued \cup RunPCs
      BY <2>2 DEF Owned, Steady, CountsOn, Busy
    <2>4. pc[s] \notin RunPCs \cup {"scheduled"}
      BY <1>4 DEF EditPCs, Wiping, ResetPCs, RunPCs
    <2> QED
      BY <1>1, <1>2, <2>1, <2>3, <2>4 DEF PCs, TaskPCs, Queued
  <1> QED
    BY <1>1, <1>3, <1>4

\* A step that leaves the tables and the status alone disturbs no other session.
LEMMA QuietSteady ==
  ASSUME Typed, Steady, NEW s \in Sessions, NEW l, Goto(s, l),
         UNCHANGED <<status, rows, events>>,
         \A u \in Sessions : u # s => verb'[u] = verb[u],
         CountsOn(l, verb'[s])
  PROVE  Steady'
  <1> SUFFICES ASSUME NEW u \in Sessions PROVE CountsOn(pc[u], verb[u])'
    BY DEF Steady
  <1>1. CASE u = s
    BY <1>1 DEF CountsOn, Exists, Goto, Typed, TypeOK
  <1>2. CASE u # s
    BY <1>2 DEF Steady, CountsOn, Exists, Goto, Typed, TypeOK
  <1> QED
    BY <1>1, <1>2

\* When nobody counts on anything but, perhaps, that there is a job, the mover
\* may do what it likes with the tables and the status.
LEMMA BusySteady ==
  ASSUME Typed, Steady, NEW s \in Sessions, NEW l, Goto(s, l),
         \A u \in Sessions : u # s => pc[u] \in {"idle", "notifying", "commenting", "hook"},
         (\E u \in Sessions : u # s /\ pc[u] = "commenting") => Exists',
         CountsOn(pc[s], verb[s])'
  PROVE  Steady'
  <1> SUFFICES ASSUME NEW u \in Sessions PROVE CountsOn(pc[u], verb[u])'
    BY DEF Steady
  <1>1. CASE u = s
    BY <1>1
  <1>2. CASE u # s
    <2>1. pc'[u] \in {"idle", "notifying", "hook"} \/ (pc'[u] = "commenting" /\ Exists')
      BY <1>2 DEF Goto, Typed, TypeOK
    <2> QED
      BY <2>1 DEF CountsOn, Queued, RunPCs, EditPCs, Wiping, ResetPCs
  <1> QED
    BY <1>1, <1>2

\* A request begins with what it has checked.
LEMMA RequestSteady ==
  ASSUME Owned, NEW s \in Sessions, Request(s)
  PROVE  Steady'
  <1> USE DEF Owned
  <1>1. CASE Upload(s)
    BY <1>1, QuietSteady DEF Upload, Begin, CountsOn, Queued, RunPCs, EditPCs, Wiping, ResetPCs
  <1>2. CASE BeginComment(s)
    BY <1>2, QuietSteady
    DEF BeginComment, Begin, CountsOn, Queued, RunPCs, EditPCs, Wiping, ResetPCs
  <1>3. CASE BeginDelete(s) \/ BeginReset(s)
    <2>1. PICK l \in {"dropRows", "wipeRows"} : Begin(s, l)
      BY <1>3 DEF BeginDelete, BeginReset
    <2>2. status \in Reviewable \cup {"failed"}
      BY <1>3 DEF BeginDelete, BeginReset, Exists, Typed, TypeOK, Statuses, Busy
    <2>3. CountsOn(l, verb'[s])
      BY <2>2 DEF CountsOn, Queued, RunPCs, EditPCs, Wiping, ResetPCs
    <2> QED
      BY <1>3, <2>1, <2>3, QuietSteady DEF BeginDelete, BeginReset, Begin
  <1>4. ASSUME NEW v \in Verbs, Decide(s, v) PROVE Steady'
    <2>1. verb'[s] = v /\ \A u \in Sessions : u # s => verb'[u] = verb[u]
      BY <1>4 DEF Decide, Typed, TypeOK
    <2>2. CountsOn("deciding", v)
      BY <1>4 DEF Decide, CountsOn, Queued, RunPCs, EditPCs, Wiping, ResetPCs
    <2> QED
      BY <1>4, <2>1, <2>2, QuietSteady DEF Decide, Begin
  <1>5. ASSUME NEW r \in Redactions \cup {Pipeline}, Redact(s, r) \/ RevertSpan(s, r)
        PROVE  Steady'
    <2>1. Amendable /\ Begin(s, "editing") /\ Quietly /\ UNCHANGED verb
      BY <1>5 DEF Redact, RevertSpan, BeginEdit
    <2>2. status \in Reviewable
      BY <2>1 DEF Amendable, Exists, Typed, TypeOK, Statuses, Busy
    <2>3. CountsOn("editing", verb'[s])
      BY <2>2 DEF CountsOn, Queued, RunPCs, EditPCs, Wiping, ResetPCs
    <2> QED
      BY <2>1, <2>3, QuietSteady DEF Begin
  <1> QED
    BY <1>1, <1>2, <1>3, <1>4, <1>5 DEF Request

\* An idle session counts on nothing.
LEMMA IdleCountsOn ==
  ASSUME NEW v PROVE CountsOn("idle", v) /\ CountsOn("hook", v) /\ CountsOn("notifying", v)
  BY DEF CountsOn, Queued, RunPCs, EditPCs, Wiping, ResetPCs

\* A run finds its job in the status it left it in.
LEMMA RunSteady ==
  ASSUME Owned, NEW s \in Sessions, Run(s)
  PROVE  Steady'
  <1> USE DEF Owned
  <1>1. CASE Schedule(s) \/ Extract(s) \/ Notified(s) \/ SaveText(s) \/ SaveSpans(s)
    <2>1. PICK l : /\ Goto(s, l)
                   /\ \/ pc[s] = "submitted" /\ l = "scheduled"
                      \/ l = "idle"
                      \/ pc[s] \in RunPCs /\ l \in {"detecting", "saving", "saved"}
      BY <1>1 DEF Schedule, Extract, Notified, SaveText, SaveSpans, Step, RunPCs
    <2>2. CountsOn(l, verb[s])
      BY <2>1 DEF Steady, CountsOn, Queued, RunPCs, EditPCs, Wiping, ResetPCs
    <2>3. UNCHANGED <<status, rows, events, verb>>
      BY <1>1 DEF Schedule, Extract, Notified, SaveText, SaveSpans
    <2> QED
      BY <2>1, <2>2, <2>3, QuietSteady
  <1>2. CASE StartRun(s) \/ FailRun(s) \/ AddRows(s) \/ FinishRun(s)
    <2>1. pc[s] \in RunPCs \cup {"scheduled"}
      BY <1>2 DEF StartRun, FailRun, AddRows, FinishRun, Step, RunPCs
    <2>2. Exists
      BY <2>1 DEF Steady, CountsOn, Exists, Queued
    <2>3. PICK l : /\ Goto(s, l)
                   /\ \/ l = "running" /\ status' = "processing"
                      \/ l = "persisted" /\ pc[s] \in RunPCs /\ UNCHANGED status
                      \/ l \in {"idle", "notifying"} /\ status' \in {"failed", "awaiting_review"}
      BY <1>2, <2>2 DEF StartRun, FailRun, AddRows, FinishRun, Step, SetStatus, RunPCs
    <2>4. pc'[s] = l /\ UNCHANGED verb
      BY <1>2, <2>3 DEF Goto, Typed, TypeOK, StartRun, FailRun, AddRows, FinishRun
    <2>5. CountsOn(pc[s], verb[s])'
      BY <2>3, <2>4 DEF Steady, CountsOn, Queued, RunPCs, EditPCs, Wiping, ResetPCs
    <2>6. Exists'
      BY <2>2, <2>3 DEF Exists
    <2> QED
      BY <2>1, <2>3, <2>5, <2>6, Others, BusySteady
  <1> QED
    BY <1>1, <1>2 DEF Run

\* A request finds the job as it checked it.
LEMMA ServeSteady ==
  ASSUME Owned, NEW s \in Sessions, Serve(s)
  PROVE  Steady'
  <1> USE DEF Owned
  <1>1. CASE CreateJob(s) \/ ApplyDecision(s) \/ ResetJob(s) \/ DropJob(s)
    <2>1. pc[s] \in {"storing", "recorded"} \cup Wiping
      BY <1>1 DEF CreateJob, ApplyDecision, ResetJob, DropJob, Step, Wiping, ResetPCs
    <2>2. ~CreateJob(s) => Exists
      BY <1>1, <2>1 DEF Steady, CountsOn, Exists, Required, Reviewable, CreateJob,
                        ApplyDecision, ResetJob, DropJob, Step, Wiping, ResetPCs
    <2>3. PICK l : /\ Goto(s, l)
                   /\ \/ l = "submitted" /\ status' = "pending"
                      \/ l = "dropFiles" /\ status' = "deleted"
                      \/ l \in {"idle", "hook"}
      BY <1>1, <2>2 DEF CreateJob, ApplyDecision, ResetJob, DropJob, Step, End, SetStatus
    <2>4. pc'[s] = l
      BY <2>3 DEF Goto, Typed, TypeOK
    <2>5. CountsOn(pc[s], verb[s])'
      BY <2>3, <2>4 DEF CountsOn, Queued, RunPCs, EditPCs, Wiping, ResetPCs
    <2> QED
      BY <2>1, <2>3, <2>5, Others, BusySteady
  <1>2. CASE Record(s) \/ Annotate(s)
    <2>1. pc[s] \in RequestPCs
      BY <1>2 DEF Record, Annotate, Step, RequestPCs, ReviewPCs, EditPCs
    <2>2. PICK l \in {"idle", "recorded"} :
             Goto(s, l) /\ (l = "recorded" => Step(s, "deciding", "recorded") /\ UNCHANGED verb)
      BY <1>2 DEF Record, Annotate, Step, End
    <2>3. UNCHANGED <<status, rows>> /\ \A u \in Sessions : u # s => verb'[u] = verb[u]
      BY <1>2 DEF Record, Annotate, End, Typed, TypeOK
    <2>4. ASSUME NEW u \in Sessions PROVE CountsOn(pc[u], verb[u])'
      <3>1. CASE u = s
        <4>1. pc'[s] = l
          BY <2>2 DEF Goto, Typed, TypeOK
        <4> QED
          BY <2>2, <2>3, <3>1, <4>1
          DEF Steady, CountsOn, Step, Queued, RunPCs, EditPCs, Wiping, ResetPCs
      <3>2. CASE u # s
        <4>1. pc'[u] = pc[u] /\ pc[u] # "dropJob"
          BY <2>1, <2>2, <3>2, Others DEF Goto, Typed, TypeOK, RequestPCs, DeletePCs
        <4> QED
          BY <2>3, <3>2, <4>1 DEF Steady, CountsOn, Exists
      <3> QED
        BY <3>1, <3>2
    <2> QED
      BY <2>4 DEF Steady
  <1>3. CASE Hooked(s) \/ DropFiles(s)
    <2>1. Goto(s, "idle") /\ UNCHANGED <<status, rows, events>>
      BY <1>3 DEF Hooked, DropFiles, Step, End
    <2>2. \A u \in Sessions : u # s => verb'[u] = verb[u]
      BY <1>3 DEF Hooked, DropFiles, End, Typed, TypeOK
    <2> QED
      BY <2>1, <2>2, QuietSteady, IdleCountsOn
  <1>4. CASE WriteText(s) \/ WriteSpans(s) \/ WipeFiles(s)
    <2>1. PICK l : /\ Goto(s, l)
                   /\ \/ pc[s] \in EditPCs /\ l \in {"edited", "annotating"}
                      \/ pc[s] = "wipeFiles" /\ l = "resetJob"
      BY <1>4 DEF WriteText, WriteSpans, WipeFiles, Step, EditPCs
    <2>2. CountsOn(l, verb[s])
      BY <2>1 DEF Steady, CountsOn, Queued, RunPCs, EditPCs, Wiping, ResetPCs
    <2>3. UNCHANGED <<status, rows, events, verb>>
      BY <1>4 DEF WriteText, WriteSpans, WipeFiles
    <2> QED
      BY <2>1, <2>2, <2>3, QuietSteady
  <1>5. CASE DropRows(s) \/ DropEvents(s) \/ WipeRows(s) \/ WipeEvents(s)
    <2>1. pc[s] \in Wiping /\ UNCHANGED <<status, verb>>
      BY <1>5 DEF DropRows, DropEvents, WipeRows, WipeEvents, Step, Wiping, ResetPCs
    <2>2. PICK l : /\ Goto(s, l)
                   /\ \/ l = "dropEvents" /\ rows' = 0
                      \/ l = "dropJob" /\ pc[s] = "dropEvents" /\ UNCHANGED rows /\ events' = {}
                      \/ l \in {"wipeEvents", "wipeFiles"}
      BY <1>5 DEF DropRows, DropEvents, WipeRows, WipeEvents, Step
    <2>3. pc'[s] = l
      BY <2>2 DEF Goto, Typed, TypeOK
    <2>4. CountsOn(pc[s], verb[s])'
      BY <2>1, <2>2, <2>3 DEF Steady, CountsOn, Queued, RunPCs, EditPCs, Wiping, ResetPCs
    <2> QED
      BY <2>1, <2>2, <2>4, Others, BusySteady
  <1> QED
    BY <1>1, <1>2, <1>3, <1>4, <1>5 DEF Serve

LEMMA NextSteady ==
  ASSUME Owned, [Next]_vars
  PROVE  Steady'
  <1>1. ASSUME NEW s \in Sessions, Die(s) PROVE Steady'
    <2>1. \A u \in Sessions : u # s => verb'[u] = verb[u]
      BY <1>1 DEF Die, End, Owned, Typed, TypeOK
    <2> QED
      BY <1>1, <2>1, QuietSteady, IdleCountsOn DEF Die, End, Owned
  <1>2. CASE UNCHANGED vars
    BY <1>2 DEF vars, Owned, Steady, CountsOn, Exists
  <1> QED
    BY <1>1, <1>2, RequestSteady, RunSteady, ServeSteady DEF Next, Over

\* A session's step leaves the others where they are.
LEMMA Bystanders ==
  ASSUME Typed, NEW s \in Sessions, NEW u \in Sessions, u # s,
         Request(u) \/ Serve(u) \/ Run(u) \/ Die(u)
  PROVE  pc'[s] = pc[s] /\ verb'[s] = verb[s] /\ draft'[s] = draft[s]
  <1> DEFINE Stands == pc'[s] = pc[s] /\ verb'[s] = verb[s] /\ draft'[s] = draft[s]
  <1>1. CASE Request(u)
    <2>1. ASSUME NEW r, Redact(u, r) \/ RevertSpan(u, r) PROVE Stands
      BY <2>1 DEF Redact, RevertSpan, BeginEdit, Begin, Goto, Typed, TypeOK
    <2>2. ASSUME NEW v, Decide(u, v) PROVE Stands
      BY <2>2 DEF Decide, Begin, Goto, Typed, TypeOK
    <2> QED
      BY <1>1, <2>1, <2>2
      DEF Request, Upload, BeginComment, BeginDelete, BeginReset, Begin, Goto, Typed, TypeOK
  <1>2. CASE Serve(u)
    BY <1>2
    DEF Serve, CreateJob, Record, ApplyDecision, Hooked, WriteText, WriteSpans, Annotate,
        DropRows, DropEvents, DropJob, DropFiles, WipeRows, WipeEvents, WipeFiles, ResetJob,
        Step, End, Goto, Typed, TypeOK
  <1>3. CASE Run(u)
    BY <1>3 DEF Run, Schedule, Extract, StartRun, FailRun, SaveText, SaveSpans, AddRows, FinishRun,
                Notified, Step, Goto, Typed, TypeOK
  <1>4. CASE Die(u)
    BY <1>4 DEF Die, End, Goto, Typed, TypeOK
  <1> QED
    BY <1>1, <1>2, <1>3, <1>4

\* A session moves by its own steps only.
LEMMA Standing ==
  ASSUME Typed, [Next]_vars, NEW s \in Sessions
  PROVE  \/ pc'[s] = pc[s] /\ verb'[s] = verb[s] /\ draft'[s] = draft[s]
         \/ Request(s) \/ Serve(s) \/ Run(s) \/ Die(s)
  BY Bystanders DEF Next, Over, vars

\* A request changes nothing before its second step but the upload.
LEMMA RequestReads ==
  ASSUME NEW s \in Sessions, Request(s)
  PROVE  UNCHANGED <<row, tables, text, spans, lost>>
  <1>1. ASSUME NEW r, Redact(s, r) \/ RevertSpan(s, r) PROVE Quietly
    BY <1>1 DEF Redact, RevertSpan, BeginEdit
  <1>2. ASSUME NEW v, Decide(s, v) PROVE Quietly
    BY <1>2 DEF Decide
  <1> QED
    BY <1>1, <1>2 DEF Request, Upload, BeginComment, BeginDelete, BeginReset

\* The steps that may change the status of the job.
LEMMA StatusSteps ==
  ASSUME [Next]_vars
  PROVE  \/ UNCHANGED status
         \/ \E s \in Sessions :
              \/ CreateJob(s) \/ StartRun(s) \/ FailRun(s) \/ FinishRun(s)
              \/ ApplyDecision(s) \/ DropJob(s) \/ ResetJob(s)
  <1>1. ASSUME NEW s \in Sessions, Serve(s)
        PROVE  UNCHANGED status \/ CreateJob(s) \/ ApplyDecision(s) \/ DropJob(s) \/ ResetJob(s)
    BY <1>1 DEF Serve, Record, Hooked, WriteText, WriteSpans, Annotate, DropRows, DropEvents,
                DropFiles, WipeRows, WipeEvents, WipeFiles
  <1>2. ASSUME NEW s \in Sessions, Run(s)
        PROVE  UNCHANGED status \/ StartRun(s) \/ FailRun(s) \/ FinishRun(s)
    BY <1>2 DEF Run, Schedule, Extract, SaveText, SaveSpans, AddRows, Notified
  <1> QED
    BY <1>1, <1>2, RequestReads DEF Next, Die, Over, vars

\* The steps that may change the tables of its rows.
LEMMA TableSteps ==
  ASSUME [Next]_vars
  PROVE  \/ UNCHANGED tables
         \/ \E s \in Sessions :
              \/ AddRows(s) \/ Record(s) \/ Annotate(s)
              \/ DropRows(s) \/ DropEvents(s) \/ WipeRows(s) \/ WipeEvents(s)
  <1>1. ASSUME NEW s \in Sessions, Serve(s)
        PROVE  \/ UNCHANGED tables \/ Record(s) \/ Annotate(s)
               \/ DropRows(s) \/ DropEvents(s) \/ WipeRows(s) \/ WipeEvents(s)
    BY <1>1 DEF Serve, CreateJob, ApplyDecision, Hooked, WriteText, WriteSpans, DropJob,
                DropFiles, WipeFiles, ResetJob
  <1>2. ASSUME NEW s \in Sessions, Run(s) PROVE UNCHANGED tables \/ AddRows(s)
    BY <1>2 DEF Run, Schedule, Extract, StartRun, FailRun, SaveText, SaveSpans, FinishRun, Notified
  <1> QED
    BY <1>1, <1>2, RequestReads DEF Next, Die, Over, vars

\* Only delete() deletes, when it has removed the rows, and nobody adds a row
\* to a deleted job.
LEMMA NextDeleted ==
  ASSUME Owned, [Next]_vars
  PROVE  DeletedLeavesNoRows'
  <1> USE DEF Owned
  <1>1. CASE status' = "deleted" /\ status # "deleted"
    <2>1. PICK s \in Sessions :
             \/ CreateJob(s) \/ StartRun(s) \/ FailRun(s) \/ FinishRun(s)
             \/ ApplyDecision(s) \/ DropJob(s) \/ ResetJob(s)
      BY <1>1, StatusSteps
    <2>2. ~ApplyDecision(s)
      BY <1>1 DEF ApplyDecision, SetStatus, Outcome, Typed, VerbOK, Verbs
    <2>3. DropJob(s)
      BY <1>1, <2>1, <2>2 DEF CreateJob, StartRun, FailRun, FinishRun, ResetJob, SetStatus
    <2> QED
      BY <2>3 DEF DropJob, Step, Steady, CountsOn, DeletedLeavesNoRows
  <1>2. CASE status' = "deleted" /\ status = "deleted"
    <2>1. rows = 0 /\ events = {}
      BY <1>2 DEF DeletedLeavesNoRows
    <2>2. ASSUME NEW s \in Sessions
          PROVE  pc[s] \notin {"saved", "deciding", "annotating", "commenting"}
      BY <1>2 DEF Steady, CountsOn, RunPCs, EditPCs, Exists, Required, Reviewable
    <2>3. rows' = 0 /\ events' = {}
      BY <2>1, <2>2, TableSteps
      DEF AddRows, Record, Annotate, DropRows, DropEvents, WipeRows, WipeEvents, Step
    <2> QED
      BY <2>3 DEF DeletedLeavesNoRows
  <1> QED
    BY <1>1, <1>2 DEF DeletedLeavesNoRows

LEMMA NextOwned ==
  ASSUME Serial, Owned, [Next]_vars
  PROVE  Owned'
  BY NextTyped, NextOneRequest, NextOneRun, NextSteady, NextDeleted DEF Owned

LEMMA OwnedInvariant ==
  ASSUME Serial
  PROVE  Spec => []Owned
  BY InitOwned, NextOwned, PTL DEF Spec

\* While a session is between setting the job to processing and handing it to
\* the reviewer, no other run is queued or under way and nobody touches the
\* status, for any number of sessions, if the client waits for each response.
THEOREM RunsAreExclusive ==
  ASSUME Serial
  PROVE  Spec => []RunOwnsJob
  <1>1. Owned => RunOwnsJob
    BY DEF Owned, OneRun, Steady, CountsOn, RunOwnsJob, Queued
  <1> QED
    BY OwnedInvariant, <1>1, PTL

\* A deleted job keeps no span row and no review event.
THEOREM DeleteIsComplete ==
  ASSUME Serial
  PROVE  Spec => []DeletedLeavesNoRows
  <1>1. Owned => DeletedLeavesNoRows
    BY DEF Owned
  <1> QED
    BY OwnedInvariant, <1>1, PTL

----------------------------------------------------------------------------
(* Decisions leave their review event *)

RecordedOK == \A s \in Sessions : pc[s] = "recorded" => EventOf(verb[s]) \in events
Audited == Owned /\ RecordedOK /\ DecisionIsAudited

\* Where events may be missing: a reset or a delete is under way or died.
Unaudited ==
  "wipe" \in lost \/ \E s \in Sessions : pc[s] \in DeletePCs \cup ResetPCs

LEMMA InitAudited == Init => Audited
  <1> SUFFICES ASSUME Init PROVE RecordedOK /\ DecisionIsAudited
    BY InitOwned DEF Audited
  <1> QED
    BY DEF Init, RecordedOK, DecisionIsAudited

\* Whoever removes events is a delete or a reset, and one that stops being one
\* has deleted or reset the job, or died.
LEMMA StaysUnaudited ==
  ASSUME Owned, [Next]_vars, Unaudited
  PROVE  Unaudited' \/ status' \notin {"approved", "rejected"}
  <1> USE DEF Owned
  <1>1. \A s \in Sessions : Die(s) => lost \subseteq lost'
    BY DEF Die
  <1>2. CASE "wipe" \in lost
    <2>1. \A s \in Sessions : Serve(s) => UNCHANGED lost
      BY DEF Serve, CreateJob, Record, ApplyDecision, Hooked, WriteText, WriteSpans, Annotate,
             DropRows, DropEvents, DropJob, DropFiles, WipeRows, WipeEvents, WipeFiles, ResetJob
    <2>2. \A s \in Sessions : Run(s) => UNCHANGED lost
      BY DEF Run, Schedule, Extract, StartRun, FailRun, SaveText, SaveSpans, AddRows, FinishRun, Notified
    <2> QED
      BY <1>1, <1>2, <2>1, <2>2, RequestReads DEF Next, Over, vars, Unaudited
  <1>3. ASSUME NEW s \in Sessions, pc[s] \in DeletePCs \cup ResetPCs
        PROVE  Unaudited' \/ status' \notin {"approved", "rejected"}
    <2>1. CASE pc'[s] \in DeletePCs \cup ResetPCs
      BY <2>1 DEF Unaudited
    <2>2. CASE Die(s)
      <3>1. KindOf(pc[s]) = "wipe"
        BY <1>3 DEF KindOf, DeletePCs, ResetPCs, TaskPCs, RunPCs, ReviewPCs, EditPCs
      <3> QED
        BY <2>2, <3>1 DEF Die, Unaudited
    <2>3. CASE Serve(s) /\ pc'[s] \notin DeletePCs \cup ResetPCs
      <3>1. DropFiles(s) \/ ResetJob(s)
        BY <1>3, <2>3
        DEF Serve, CreateJob, Record, ApplyDecision, Hooked, WriteText, WriteSpans, Annotate,
            DropRows, DropEvents, DropJob, WipeRows, WipeEvents, WipeFiles, Step, Goto,
            DeletePCs, ResetPCs, Typed, TypeOK
      <3> QED
        BY <1>3, <3>1 DEF DropFiles, ResetJob, Step, Steady, CountsOn, SetStatus, Exists,
                          Wiping, ResetPCs, Reviewable
    <2>4. ~Request(s) /\ ~Run(s)
      <3>1. pc[s] \notin {"idle"} \cup Queued \cup RunPCs \cup {"notifying"}
        BY <1>3 DEF DeletePCs, ResetPCs, Queued, RunPCs
      <3>2. ~Request(s)
        BY <3>1 DEF Request, Upload, BeginComment, BeginDelete, BeginReset, Decide, Redact,
                    RevertSpan, BeginEdit, Begin
      <3>3. ~Run(s)
        BY <3>1 DEF Run, Schedule, Extract, StartRun, FailRun, SaveText, SaveSpans, AddRows, FinishRun,
                    Notified, Step, Queued, RunPCs
      <3> QED
        BY <3>2, <3>3
    <2> QED
      BY <1>3, <2>1, <2>2, <2>3, <2>4, Standing
  <1> QED
    BY <1>2, <1>3 DEF Unaudited

\* A decision under way has its event on record, as nobody removes it.
LEMMA NextRecorded ==
  ASSUME Owned, RecordedOK, [Next]_vars
  PROVE  RecordedOK'
  <1> USE DEF Owned
  <1>1. SUFFICES ASSUME NEW s \in Sessions, pc'[s] = "recorded"
                 PROVE  EventOf(verb'[s]) \in events'
    BY DEF RecordedOK
  <1>2. CASE Record(s)
    BY <1>2 DEF Record
  <1>3. CASE ~Record(s)
    <2>1. pc[s] = "recorded" /\ verb'[s] = verb[s]
      <3>1. ~Request(s)
        BY <1>1 DEF Request, Upload, BeginComment, BeginDelete, BeginReset, Decide, Redact,
                    RevertSpan, BeginEdit, Begin, Goto, Typed, TypeOK
      <3>2. ~Serve(s)
        BY <1>1, <1>3
        DEF Serve, CreateJob, Record, ApplyDecision, Hooked, WriteText, WriteSpans, Annotate,
            DropRows, DropEvents, DropJob, DropFiles, WipeRows, WipeEvents, WipeFiles,
            ResetJob, Step, End, Goto, Typed, TypeOK
      <3>3. ~Run(s) /\ ~Die(s)
        BY <1>1 DEF Run, Schedule, Extract, StartRun, FailRun, SaveText, SaveSpans, AddRows, FinishRun,
                    Notified, Die, Step, End, Goto, Typed, TypeOK
      <3> QED
        BY <1>1, <3>1, <3>2, <3>3, Standing
    <2>2. EventOf(verb[s]) \in events
      BY <2>1 DEF RecordedOK
    <2>3. ASSUME NEW u \in Sessions PROVE ~DropEvents(u) /\ ~WipeEvents(u)
      <3>1. pc[s] \in RequestPCs
        BY <2>1 DEF RequestPCs, ReviewPCs
      <3>2. pc[u] \in {"dropEvents", "wipeEvents"} => u = s
        BY <3>1 DEF OneRequest, RequestPCs, DeletePCs, ResetPCs
      <3> QED
        BY <2>1, <3>2 DEF DropEvents, WipeEvents, Step
    <2>4. events \subseteq events'
      BY <2>3, TableSteps DEF AddRows, Record, Annotate, DropRows, WipeRows
    <2> QED
      BY <2>1, <2>2, <2>4
  <1> QED
    BY <1>2, <1>3

LEMMA NextAudited ==
  ASSUME Audited, [Next]_vars
  PROVE  DecisionIsAudited'
  <1> USE DEF Audited, Owned
  <1>1. CASE Unaudited
    BY <1>1, StaysUnaudited DEF Unaudited, DecisionIsAudited
  <1>2. CASE ~Unaudited
    <2>1. status \in {"approved", "rejected"} => status \in events
      BY <1>2 DEF Unaudited, DecisionIsAudited
    <2>2. events \subseteq events'
      BY <1>2, TableSteps
      DEF Unaudited, AddRows, Record, Annotate, DropRows, DropEvents, WipeRows, WipeEvents,
          Step, DeletePCs, ResetPCs
    <2>3. CASE status' \in {"approved", "rejected"} /\ status' # status
      <3>1. PICK s \in Sessions :
               \/ CreateJob(s) \/ StartRun(s) \/ FailRun(s) \/ FinishRun(s)
               \/ ApplyDecision(s) \/ DropJob(s) \/ ResetJob(s)
        BY <2>3, StatusSteps
      <3>2. ApplyDecision(s)
        BY <2>3, <3>1 DEF CreateJob, StartRun, FailRun, FinishRun, DropJob, ResetJob, SetStatus
      <3>3. status' = Outcome(verb[s]) /\ EventOf(verb[s]) \in events /\ verb[s] \in Verbs
        BY <2>3, <3>2 DEF ApplyDecision, SetStatus, RecordedOK, Typed, VerbOK
      <3>4. EventOf(verb[s]) = status'
        BY <2>3, <3>3 DEF Outcome, EventOf, Verbs
      <3> QED
        BY <2>2, <3>3, <3>4 DEF DecisionIsAudited
    <2> QED
      BY <2>1, <2>2, <2>3 DEF DecisionIsAudited
  <1> QED
    BY <1>1, <1>2

\* An approved or rejected job has the review event that made it so, however
\* sessions interleave and die, unless a reset or a delete is under way or died.
THEOREM DecisionsAreAudited ==
  ASSUME Serial
  PROVE  Spec => []DecisionIsAudited
  <1>1. Audited => DecisionIsAudited
    BY DEF Audited
  <1>2. Audited /\ Owned' /\ [Next]_vars => Audited'
    BY NextRecorded, NextAudited DEF Audited
  <1> QED
    BY OwnedInvariant, InitAudited, <1>1, <1>2, PTL DEF Spec

----------------------------------------------------------------------------
(* The files, the rows and the span list agree *)

Spoilt == lost \cap {"edit", "wipe"} # {}

\* Labels at which the database holds no span row.
Rowless ==
  {"storing", "wipeEvents", "wipeFiles", "resetJob"} \cup Queued \cup (RunPCs \ {"persisted"})

\* What a session at p, with the draft d, has made of the files and the rows.
HoldsFor(p, d) ==
  /\ p \in Rowless => rows = 0
  /\ p = "persisted" => rows = 1
  /\ p \in {"saving", "saved", "persisted"} => text = {Pipeline}
  /\ p \in {"saved", "persisted"} => spans = {Pipeline}
  /\ p \in EditPCs /\ ~Spoilt =>
       /\ paths /\ rows = 1 /\ text \in Texts /\ d.text = d.spans
       /\ p # "editing" => text = d.text
       /\ p = "annotating" => spans = d.spans

Held == \A s \in Sessions : HoldsFor(pc[s], draft[s])
UnbornIsEmpty == status = "unborn" => rows = 0

Backed == Owned /\ UnbornIsEmpty /\ Held /\ ReviewIsBacked

\* At these labels a session has made nothing.
Unheld == {"idle", "notifying", "scheduled", "commenting", "hook", "deciding", "recorded",
           "dropRows", "dropEvents", "dropJob", "dropFiles", "wipeRows"}

LEMMA UnheldHolds ==
  ASSUME NEW p \in Unheld \ {"scheduled"}, NEW d
  PROVE  HoldsFor(p, d)
  BY DEF Unheld, HoldsFor, Rowless, Queued, RunPCs, EditPCs

LEMMA InitBacked == Init => Backed
  <1> SUFFICES ASSUME Init PROVE UnbornIsEmpty /\ Held /\ ReviewIsBacked
    BY InitOwned DEF Backed
  <1>1. \A s \in Sessions : pc[s] = "idle"
    BY DEF Init
  <1>2. Held
    BY <1>1, UnheldHolds DEF Held, Unheld
  <1> QED
    BY <1>2 DEF Init, UnbornIsEmpty, ReviewIsBacked, Reviewable

\* A step that leaves rows and files alone disturbs no other session.
LEMMA QuietHeld ==
  ASSUME Owned, Held, NEW s \in Sessions, NEW l, Goto(s, l),
         UNCHANGED <<paths, rows, text, spans>>, Spoilt => Spoilt',
         \A u \in Sessions : u # s => draft'[u] = draft[u],
         HoldsFor(l, draft'[s])
  PROVE  Held'
  <1> SUFFICES ASSUME NEW u \in Sessions PROVE HoldsFor(pc[u], draft[u])'
    BY DEF Held
  <1>1. CASE u = s
    BY <1>1 DEF HoldsFor, Goto, Owned, Typed, TypeOK
  <1>2. CASE u # s
    BY <1>2 DEF Held, HoldsFor, Goto, Owned, Typed, TypeOK
  <1> QED
    BY <1>1, <1>2

\* Runs, edits and wipes meet no session that holds anything.
LEMMA AloneHeld ==
  ASSUME Owned, Held, NEW s \in Sessions, NEW l, Goto(s, l),
         pc[s] \in {"scheduled", "storing", "dropFiles"} \cup RunPCs \cup EditPCs \cup Wiping,
         HoldsFor(pc[s], draft[s])'
  PROVE  Held'
  <1> SUFFICES ASSUME NEW u \in Sessions PROVE HoldsFor(pc[u], draft[u])'
    BY DEF Held
  <1>1. CASE u # s
    <2>1. pc[u] \in {"idle", "notifying", "commenting", "hook"}
      BY <1>1, Others
    <2>2. pc'[u] = pc[u]
      BY <1>1 DEF Goto, Owned, Typed, TypeOK
    <2> QED
      BY <2>1, <2>2 DEF HoldsFor, Rowless, Queued, RunPCs, EditPCs
  <1> QED
    BY <1>1

LEMMA RequestHeld ==
  ASSUME Serial, Backed, NEW s \in Sessions, Request(s)
  PROVE  Held'
  <1> USE DEF Backed, Owned
  <1>0. Spoilt => Spoilt'
    BY RequestReads DEF Spoilt
  <1>1. CASE Upload(s)
    <2>1. HoldsFor("storing", draft'[s])
      BY <1>1 DEF Upload, UnbornIsEmpty, HoldsFor, RunPCs, EditPCs
    <2> QED
      BY <1>0, <1>1, <2>1, QuietHeld DEF Upload, Begin
  <1>2. CASE BeginComment(s) \/ BeginDelete(s) \/ BeginReset(s)
    <2>1. PICK l \in {"commenting", "dropRows", "wipeRows"} : Begin(s, l)
      BY <1>2 DEF BeginComment, BeginDelete, BeginReset
    <2>2. HoldsFor(l, draft'[s])
      BY UnheldHolds DEF Unheld
    <2>3. Quietly /\ UNCHANGED draft
      BY <1>2 DEF BeginComment, BeginDelete, BeginReset
    <2> QED
      BY <1>0, <2>1, <2>2, <2>3, QuietHeld DEF Begin
  <1>3. ASSUME NEW v \in Verbs, Decide(s, v) PROVE Held'
    <2>1. HoldsFor("deciding", draft'[s])
      BY UnheldHolds DEF Unheld
    <2> QED
      BY <1>0, <1>3, <2>1, QuietHeld DEF Decide, Begin
  <1>4. ASSUME NEW r \in Redactions \cup {Pipeline}, Redact(s, r) \/ RevertSpan(s, r)
        PROVE  Held'
    <2>1. PICK T, S : /\ BeginEdit(s, T, S)
                      /\ text = spans => T = S
      BY <1>4 DEF Redact, RevertSpan
    <2>2. draft'[s].text = T /\ draft'[s].spans = S
          /\ \A u \in Sessions : u # s => draft'[u] = draft[u]
      BY <2>1 DEF BeginEdit, Typed, TypeOK
    <2>3. status \in Reviewable
      BY <2>1 DEF BeginEdit, Amendable, Exists, Typed, TypeOK, Statuses, Busy
    <2>4. \A u \in Sessions : pc[u] \notin RequestPCs
      BY <2>1 DEF BeginEdit, Begin
    <2>5. ~Spoilt => paths /\ text \in Texts /\ text = spans /\ rows = 1
      BY <2>3, <2>4 DEF ReviewIsBacked, Spoilt, RequestPCs
    <2>6. HoldsFor("editing", draft'[s])
      BY <2>1, <2>2, <2>5 DEF HoldsFor, Rowless, Queued, RunPCs
    <2> QED
      BY <1>0, <2>1, <2>2, <2>6, QuietHeld DEF BeginEdit, Begin
  <1> QED
    BY <1>1, <1>2, <1>3, <1>4 DEF Request

LEMMA RunHeld ==
  ASSUME Backed, NEW s \in Sessions, Run(s)
  PROVE  Held'
  <1> USE DEF Backed, Owned
  <1>1. CASE Schedule(s) \/ Extract(s) \/ Notified(s)
    <2>1. PICK l : Goto(s, l) /\ HoldsFor(l, draft[s])
      BY <1>1, UnheldHolds
      DEF Schedule, Extract, Notified, Step, Held, HoldsFor, Unheld, Rowless, Queued, RunPCs, EditPCs
    <2> QED
      BY <1>1, <2>1, QuietHeld DEF Schedule, Extract, Notified, Spoilt
  <1>2. CASE StartRun(s) \/ FailRun(s) \/ SaveText(s) \/ SaveSpans(s) \/ AddRows(s) \/ FinishRun(s)
    <2>1. pc[s] \in {"scheduled"} \cup RunPCs
      BY <1>2 DEF StartRun, FailRun, SaveText, SaveSpans, AddRows, FinishRun, Step, RunPCs
    <2>2. PICK l : /\ Goto(s, l)
                   /\ \/ l \in {"idle", "notifying"}
                      \/ l = "running" /\ pc[s] = "scheduled" /\ UNCHANGED rows
                      \/ l = "saving" /\ pc[s] = "detecting" /\ UNCHANGED rows /\ text' = {Pipeline}
                      \/ /\ l = "saved" /\ pc[s] = "saving" /\ UNCHANGED <<rows, text>>
                         /\ spans' = {Pipeline}
                      \/ /\ l = "persisted" /\ pc[s] = "saved" /\ UNCHANGED <<text, spans>>
                         /\ rows' = rows + 1
      BY <1>2 DEF StartRun, FailRun, SaveText, SaveSpans, AddRows, FinishRun, Step
    <2>3. pc'[s] = l
      BY <2>2 DEF Goto, Typed, TypeOK
    <2>4. HoldsFor(pc[s], draft[s])
      BY DEF Held
    <2>5. HoldsFor(pc[s], draft[s])'
      BY <2>2, <2>3, <2>4 DEF HoldsFor, Rowless, Queued, RunPCs, EditPCs
    <2> QED
      BY <2>1, <2>2, <2>5, AloneHeld
  <1> QED
    BY <1>1, <1>2 DEF Run

LEMMA ServeHeld ==
  ASSUME Backed, NEW s \in Sessions, Serve(s)
  PROVE  Held'
  <1> USE DEF Backed, Owned
  <1>1. CASE Record(s) \/ ApplyDecision(s) \/ Hooked(s) \/ Annotate(s)
    <2>1. PICK l \in {"recorded", "hook", "idle"} : Goto(s, l)
      BY <1>1 DEF Record, ApplyDecision, Hooked, Annotate, Step, End
    <2>2. UNCHANGED <<paths, rows, text, spans, lost>>
          /\ \A u \in Sessions : u # s => draft'[u] = draft[u]
      BY <1>1 DEF Record, ApplyDecision, Hooked, Annotate, End, Typed, TypeOK
    <2>3. HoldsFor(l, draft'[s])
      BY UnheldHolds DEF Unheld
    <2> QED
      BY <2>1, <2>2, <2>3, QuietHeld DEF Spoilt
  <1>2. CASE \/ CreateJob(s) \/ DropRows(s) \/ DropEvents(s) \/ DropJob(s) \/ DropFiles(s)
             \/ WipeRows(s) \/ WipeEvents(s) \/ WipeFiles(s) \/ ResetJob(s)
    <2>1. pc[s] \in {"storing", "dropFiles"} \cup Wiping
      BY <1>2 DEF CreateJob, DropRows, DropEvents, DropJob, DropFiles, WipeRows, WipeEvents,
                  WipeFiles, ResetJob, Step, Wiping, ResetPCs
    <2>2. PICK l : /\ Goto(s, l)
                   /\ \/ l \in {"idle", "dropEvents", "dropJob", "dropFiles"}
                      \/ l \in {"wipeEvents", "wipeFiles", "resetJob", "submitted"} /\ rows' = 0
      BY <1>2 DEF CreateJob, DropRows, DropEvents, DropJob, DropFiles, WipeRows, WipeEvents,
                  WipeFiles, ResetJob, Step, Held, HoldsFor, Rowless
    <2>3. pc'[s] = l
      BY <2>2 DEF Goto, Typed, TypeOK
    <2>4. HoldsFor(pc[s], draft[s])'
      BY <2>2, <2>3 DEF HoldsFor, Rowless, Queued, RunPCs, EditPCs
    <2> QED
      BY <2>1, <2>2, <2>4, AloneHeld
  <1>3. CASE WriteText(s) \/ WriteSpans(s)
    <2>1. pc[s] \in EditPCs
      BY <1>3 DEF WriteText, WriteSpans, Step, EditPCs
    <2>2. PICK l : /\ Goto(s, l) /\ UNCHANGED <<paths, rows, lost, draft>>
                   /\ \/ l = "edited" /\ text' = draft[s].text
                      \/ /\ l = "annotating" /\ pc[s] = "edited"
                         /\ UNCHANGED text /\ spans' = draft[s].spans
      BY <1>3 DEF WriteText, WriteSpans, Step
    <2>3. pc'[s] = l /\ draft[s].text \in Texts
      BY <2>2 DEF Goto, Typed, TypeOK
    <2>4. HoldsFor(pc[s], draft[s])
      BY DEF Held
    <2>5. HoldsFor(pc[s], draft[s])'
      BY <2>1, <2>2, <2>3, <2>4
      DEF HoldsFor, Spoilt, Rowless, Queued, RunPCs, EditPCs
    <2> QED
      BY <2>1, <2>2, <2>5, AloneHeld
  <1> QED
    BY <1>1, <1>2, <1>3 DEF Serve

LEMMA NextHeld ==
  ASSUME Serial, Backed, [Next]_vars
  PROVE  Held'
  <1>1. ASSUME NEW s \in Sessions, Die(s) PROVE Held'
    <2>1. \A u \in Sessions : u # s => draft'[u] = draft[u]
      BY <1>1 DEF Die, End, Backed, Owned, Typed, TypeOK
    <2>2. HoldsFor("idle", draft'[s])
      BY UnheldHolds DEF Unheld
    <2>3. Spoilt => Spoilt'
      BY <1>1 DEF Die, Spoilt
    <2> QED
      BY <1>1, <2>1, <2>2, <2>3, QuietHeld DEF Die, End, Backed
  <1>2. CASE UNCHANGED vars
    BY <1>2 DEF vars, Backed, Held, HoldsFor, Spoilt
  <1> QED
    BY <1>1, <1>2, RequestHeld, RunHeld, ServeHeld DEF Next, Over

\* Rows are added by a run only.
LEMMA NextUnborn ==
  ASSUME Backed, [Next]_vars
  PROVE  UnbornIsEmpty'
  <1> USE DEF Backed, Owned
  <1>1. status' = "unborn" => status = "unborn"
    <2>1. \A s \in Sessions : ApplyDecision(s) => status' # "unborn" \/ UNCHANGED status
      BY DEF ApplyDecision, SetStatus, Outcome, Typed, VerbOK, Verbs
    <2> QED
      BY <2>1, StatusSteps
      DEF CreateJob, StartRun, FailRun, FinishRun, DropJob, ResetJob, SetStatus
  <1>2. status = "unborn" => ~\E s \in Sessions : AddRows(s)
    BY DEF AddRows, Step, Steady, CountsOn, RunPCs
  <1>3. status = "unborn" => rows' = 0
    BY <1>2, TableSteps
    DEF UnbornIsEmpty, Record, Annotate, DropRows, DropEvents, WipeRows, WipeEvents
  <1> QED
    BY <1>1, <1>3 DEF UnbornIsEmpty

\* The steps that may change the files under review or what the row says of them.
LEMMA FileSteps ==
  ASSUME [Next]_vars
  PROVE  \/ UNCHANGED <<paths, text, spans>>
         \/ \E s \in Sessions :
              \/ SaveText(s) \/ SaveSpans(s) \/ FinishRun(s) \/ WriteText(s) \/ WriteSpans(s)
              \/ DropJob(s) \/ DropFiles(s) \/ WipeFiles(s) \/ ResetJob(s)
  <1>1. ASSUME NEW s \in Sessions, Serve(s)
        PROVE  \/ UNCHANGED <<paths, text, spans>>
               \/ WriteText(s) \/ WriteSpans(s)
               \/ DropJob(s) \/ DropFiles(s) \/ WipeFiles(s) \/ ResetJob(s)
    BY <1>1 DEF Serve, CreateJob, Record, ApplyDecision, Hooked, Annotate, DropRows,
                DropEvents, WipeRows, WipeEvents
  <1>2. ASSUME NEW s \in Sessions, Run(s)
        PROVE  UNCHANGED <<paths, text, spans>> \/ SaveText(s) \/ SaveSpans(s) \/ FinishRun(s)
    BY <1>2 DEF Run, Schedule, Extract, StartRun, FailRun, AddRows, Notified
  <1> QED
    BY <1>1, <1>2, RequestReads DEF Next, Die, Over, vars

\* Deaths are not forgotten.
LEMMA SpoiltStays ==
  ASSUME [Next]_vars, Spoilt
  PROVE  Spoilt'
  <1>1. \A s \in Sessions : Serve(s) => UNCHANGED lost
    BY DEF Serve, CreateJob, Record, ApplyDecision, Hooked, WriteText, WriteSpans, Annotate,
           DropRows, DropEvents, DropJob, DropFiles, WipeRows, WipeEvents, WipeFiles, ResetJob
  <1>2. \A s \in Sessions : Run(s) => UNCHANGED lost
    BY DEF Run, Schedule, Extract, StartRun, FailRun, SaveText, SaveSpans, AddRows, FinishRun, Notified
  <1>3. \A s \in Sessions : Die(s) => lost \subseteq lost'
    BY DEF Die
  <1> QED
    BY <1>1, <1>2, <1>3, RequestReads DEF Next, Over, vars, Spoilt

\* An edit, a wipe or a delete that ends has left the job whole, or has died,
\* or has taken the job from the reviewer.
LEMMA AmendmentEnds ==
  ASSUME Backed, [Next]_vars, NEW s \in Sessions,
         pc[s] \in EditPCs \cup DeletePCs \cup ResetPCs,
         pc'[s] \notin EditPCs \cup DeletePCs \cup ResetPCs
  PROVE  ReviewIsBacked'
  <1> USE DEF Backed, Owned
  <1>1. ~Request(s)
    BY DEF Request, Upload, BeginComment, BeginDelete, BeginReset, Decide, Redact, RevertSpan,
           BeginEdit, Begin, EditPCs, DeletePCs, ResetPCs
  <1>2. ~Run(s)
    BY DEF Run, Schedule, Extract, StartRun, FailRun, SaveText, SaveSpans, AddRows, FinishRun, Notified,
           Step, EditPCs, DeletePCs, ResetPCs
  <1>3. CASE Die(s)
    <2>1. KindOf(pc[s]) \in {"edit", "wipe"}
      BY DEF KindOf, EditPCs, DeletePCs, ResetPCs, TaskPCs, RunPCs, ReviewPCs
    <2> QED
      BY <1>3, <2>1 DEF Die, ReviewIsBacked
  <1>4. CASE Serve(s)
    <2>1. Annotate(s) \/ DropFiles(s) \/ ResetJob(s)
      BY <1>4
      DEF Serve, CreateJob, Record, ApplyDecision, Hooked, WriteText, WriteSpans, DropRows,
          DropEvents, DropJob, WipeRows, WipeEvents, WipeFiles, Step, Goto, EditPCs,
          DeletePCs, ResetPCs, Typed, TypeOK
    <2>2. CASE Annotate(s)
      <3>1. pc[s] = "annotating"
        BY <2>2 DEF Annotate, EditPCs, DeletePCs, ResetPCs
      <3>2. ~Spoilt => paths /\ text \in Texts /\ text = spans /\ rows = 1
        BY <3>1 DEF Held, HoldsFor, EditPCs
      <3> QED
        BY <2>2, <3>2 DEF Annotate, ReviewIsBacked, Spoilt, Texts
    <2>3. CASE DropFiles(s) \/ ResetJob(s)
      <3>1. status' \notin Reviewable
        BY <2>3 DEF DropFiles, ResetJob, Step, Steady, CountsOn, SetStatus, Exists,
                    Wiping, ResetPCs, Reviewable
      <3> QED
        BY <3>1 DEF ReviewIsBacked, Reviewable
    <2> QED
      BY <2>1, <2>2, <2>3
  <1> QED
    BY <1>1, <1>2, <1>3, <1>4, Standing

LEMMA NextReview ==
  ASSUME Backed, [Next]_vars
  PROVE  ReviewIsBacked'
  <1> USE DEF Backed, Owned
  <1>1. CASE status' \notin Reviewable \/ Spoilt'
    BY <1>1 DEF ReviewIsBacked, Reviewable, Spoilt
  <1>2. CASE status' \in Reviewable /\ status \notin Reviewable
    <2>1. PICK s \in Sessions :
             \/ CreateJob(s) \/ StartRun(s) \/ FailRun(s) \/ FinishRun(s)
             \/ ApplyDecision(s) \/ DropJob(s) \/ ResetJob(s)
      BY <1>2, StatusSteps
    <2>2. ~ApplyDecision(s)
      BY <1>2 DEF ApplyDecision, Steady, CountsOn, Required, Reviewable
    <2>3. FinishRun(s)
      BY <1>2, <2>1, <2>2 DEF CreateJob, StartRun, FailRun, DropJob, ResetJob, SetStatus,
                              Reviewable
    <2>4. rows = 1 /\ text = {Pipeline} /\ spans = {Pipeline} /\ Exists
      BY <2>3 DEF FinishRun, Step, Held, HoldsFor, Steady, CountsOn, Exists, RunPCs
    <2>5. {Pipeline} \in Texts
      BY Values
    <2> QED
      BY <2>3, <2>4, <2>5 DEF FinishRun, ReviewIsBacked, Texts
  <1>3. CASE status' \in Reviewable /\ status \in Reviewable /\ ~Spoilt'
    <2>1. ~Spoilt
      BY <1>3, SpoiltStays
    <2>2. CASE \E s \in Sessions : pc[s] \in EditPCs \cup DeletePCs \cup ResetPCs
      <3>1. PICK s \in Sessions : pc[s] \in EditPCs \cup DeletePCs \cup ResetPCs
        BY <2>2
      <3>2. CASE pc'[s] \in EditPCs \cup DeletePCs \cup ResetPCs
        BY <3>2 DEF ReviewIsBacked, EditPCs, DeletePCs, ResetPCs
      <3> QED
        BY <3>1, <3>2, AmendmentEnds
    <2>3. CASE ~\E s \in Sessions : pc[s] \in EditPCs \cup DeletePCs \cup ResetPCs
      <3>1. paths /\ text \in Texts /\ text = spans /\ rows = 1
        BY <1>3, <2>1, <2>3 DEF ReviewIsBacked, Spoilt
      <3>2. \A s \in Sessions : pc[s] \notin RunPCs
        BY <1>3 DEF Steady, CountsOn, Reviewable
      <3>3. UNCHANGED <<paths, text, spans>>
        BY <2>3, <3>2, FileSteps
        DEF SaveText, SaveSpans, FinishRun, WriteText, WriteSpans, DropJob, DropFiles,
            WipeFiles, ResetJob, Step, RunPCs, EditPCs, DeletePCs, ResetPCs
      <3>4. UNCHANGED rows
        BY <2>3, <3>2, TableSteps
        DEF AddRows, Record, Annotate, DropRows, DropEvents, WipeRows, WipeEvents, Step,
            RunPCs, DeletePCs, ResetPCs
      <3> QED
        BY <3>1, <3>3, <3>4 DEF ReviewIsBacked, Texts
    <2> QED
      BY <2>2, <2>3
  <1> QED
    BY <1>1, <1>2, <1>3

LEMMA NextBacked ==
  ASSUME Serial, Backed, [Next]_vars
  PROVE  Backed'
  BY NextOwned, NextHeld, NextUnborn, NextReview DEF Backed

LEMMA BackedInvariant ==
  ASSUME Serial
  PROVE  Spec => []Backed
  BY InitBacked, NextBacked, PTL DEF Spec

\* In every reviewable status the row names the files, the text and the span
\* list agree, and the database holds the rows of exactly one run, after any
\* sequence of runs, failures, deaths, edits and reprocessing.
THEOREM ReviewsAreBacked ==
  ASSUME Serial
  PROVE  Spec => []ReviewIsBacked
  <1>1. Backed => ReviewIsBacked
    BY DEF Backed
  <1> QED
    BY BackedInvariant, <1>1, PTL

----------------------------------------------------------------------------
(* The service implements the life of a job *)

\* An edit under way adds or removes one redaction, if it changes the text.
EditOK ==
  \A s \in Sessions : pc[s] = "editing" =>
    /\ text \in Texts
    /\ \/ draft[s].text = text
       \/ \E r \in Redactions \ text : draft[s].text = text \cup {r}
       \/ \E r \in text : draft[s].text = text \ {r}

\* A job is reset when its artefacts are gone.
ResetOK == \A s \in Sessions : pc[s] = "resetJob" => text = NoFile

Faithful == Backed /\ EditOK /\ ResetOK

\* The text changes while no other session edits or resets.
LEMMA TextSteps ==
  ASSUME Owned, [Next]_vars, NEW s \in Sessions,
         pc[s] \in {"editing", "resetJob"}, pc'[s] = pc[s]
  PROVE  UNCHANGED text
  <1> USE DEF Owned
  <1>1. pc[s] \in RequestPCs
    BY DEF RequestPCs, EditPCs, ResetPCs
  <1>2. ASSUME NEW u \in Sessions, WriteText(u) \/ DropFiles(u) \/ WipeFiles(u)
        PROVE  FALSE
    <2>1. u # s
      BY <1>2 DEF WriteText, DropFiles, WipeFiles, Step, Goto, Typed, TypeOK
    <2>2. pc[u] \in RequestPCs
      BY <1>2 DEF WriteText, DropFiles, WipeFiles, Step, RequestPCs, EditPCs, DeletePCs, ResetPCs
    <2> QED
      BY <1>1, <2>1, <2>2 DEF OneRequest
  <1>3. ASSUME NEW u \in Sessions, SaveText(u) PROVE FALSE
    <2>1. pc[u] \in RunPCs /\ u # s
      BY <1>3 DEF SaveText, Step, RunPCs
    <2> QED
      BY <2>1, Others
  <1> QED
    BY <1>2, <1>3, FileSteps DEF SaveSpans, FinishRun, WriteSpans, DropJob, ResetJob

LEMMA NextEdit ==
  ASSUME Owned, EditOK, [Next]_vars
  PROVE  EditOK'
  <1> USE DEF Owned
  <1> SUFFICES ASSUME NEW s \in Sessions, pc'[s] = "editing"
               PROVE  (/\ text \in Texts
                       /\ \/ draft[s].text = text
                          \/ \E r \in Redactions \ text : draft[s].text = text \cup {r}
                          \/ \E r \in text : draft[s].text = text \ {r})'
    BY DEF EditOK
  <1>1. CASE pc[s] = "editing"
    <2>1. UNCHANGED text
      BY <1>1, TextSteps
    <2>2. ~Request(s) /\ ~Serve(s) /\ ~Run(s) /\ ~Die(s)
      <3>1. ~Request(s)
        BY <1>1 DEF Request, Upload, BeginComment, BeginDelete, BeginReset, Decide, Redact,
                    RevertSpan, BeginEdit, Begin
      <3>2. ~Serve(s)
        BY <1>1
        DEF Serve, CreateJob, Record, ApplyDecision, Hooked, WriteText, WriteSpans, Annotate,
            DropRows, DropEvents, DropJob, DropFiles, WipeRows, WipeEvents, WipeFiles,
            ResetJob, Step, Goto, Typed, TypeOK
      <3>3. ~Run(s) /\ ~Die(s)
        BY <1>1 DEF Run, Schedule, Extract, StartRun, FailRun, SaveText, SaveSpans, AddRows, FinishRun,
                    Notified, Die, End, Step, Goto, Typed, TypeOK
      <3> QED
        BY <3>1, <3>2, <3>3
    <2>3. draft'[s] = draft[s]
      BY <2>2, Standing
    <2> QED
      BY <1>1, <2>1, <2>3 DEF EditOK, Texts
  <1>2. CASE pc[s] # "editing"
    <2>1. Request(s)
      <3>1. ~Serve(s)
        BY <1>2
        DEF Serve, CreateJob, Record, ApplyDecision, Hooked, WriteText, WriteSpans, Annotate,
            DropRows, DropEvents, DropJob, DropFiles, WipeRows, WipeEvents, WipeFiles,
            ResetJob, Step, End, Goto, Typed, TypeOK
      <3>2. ~Run(s) /\ ~Die(s)
        BY <1>2 DEF Run, Schedule, Extract, StartRun, FailRun, SaveText, SaveSpans, AddRows, FinishRun,
                    Notified, Die, End, Step, Goto, Typed, TypeOK
      <3> QED
        BY <1>2, <3>1, <3>2, Standing
    <2>2. PICK r \in Redactions \cup {Pipeline} : Redact(s, r) \/ RevertSpan(s, r)
      BY <2>1 DEF Request, Upload, BeginComment, BeginDelete, BeginReset, Decide, Begin, Goto,
                  Typed, TypeOK
    <2>3. text \in Texts /\ UNCHANGED text
      BY <2>2 DEF Redact, RevertSpan, BeginEdit, Typed, TypeOK
    <2>4. \/ r \in Redactions \ text /\ draft'[s].text = text \cup {r}
          \/ draft'[s].text = text \ {r}
      BY <2>2 DEF Redact, RevertSpan, BeginEdit, Typed, TypeOK
    <2>5. r \notin text => text \ {r} = text
      OBVIOUS
    <2> QED
      BY <2>3, <2>4, <2>5 DEF Texts
  <1> QED
    BY <1>1, <1>2

LEMMA NextReset ==
  ASSUME Owned, ResetOK, [Next]_vars
  PROVE  ResetOK'
  <1> USE DEF Owned
  <1> SUFFICES ASSUME NEW s \in Sessions, pc'[s] = "resetJob" PROVE text' = NoFile
    BY DEF ResetOK, NoFile
  <1>1. CASE pc[s] = "resetJob"
    BY <1>1, TextSteps DEF ResetOK
  <1>2. CASE pc[s] # "resetJob"
    <2>1. ~Request(s)
      BY <1>2 DEF Request, Upload, BeginComment, BeginDelete, BeginReset, Decide, Redact,
                  RevertSpan, BeginEdit, Begin, Goto, Typed, TypeOK
    <2>2. ~Run(s) /\ ~Die(s)
      BY <1>2 DEF Run, Schedule, Extract, StartRun, FailRun, SaveText, SaveSpans, AddRows, FinishRun,
                  Notified, Die, End, Step, Goto, Typed, TypeOK
    <2>3. Serve(s) => WipeFiles(s)
      BY <1>2
      DEF Serve, CreateJob, Record, ApplyDecision, Hooked, WriteText, WriteSpans, Annotate,
          DropRows, DropEvents, DropJob, DropFiles, WipeRows, WipeEvents, ResetJob, Step, End,
          Goto, Typed, TypeOK
    <2> QED
      BY <1>2, <2>1, <2>2, <2>3, Standing DEF WipeFiles
  <1> QED
    BY <1>1, <1>2

\* Every change of the status is one of the lifecycle's.
LEMMA StatusImplements ==
  ASSUME Faithful, [Next]_vars, status' # status
  PROVE  Lifecycle!Next
  <1> USE DEF Faithful, Backed, Owned
  <1>1. PICK s \in Sessions :
           \/ CreateJob(s) \/ StartRun(s) \/ FailRun(s) \/ FinishRun(s)
           \/ ApplyDecision(s) \/ DropJob(s) \/ ResetJob(s)
    BY StatusSteps
  <1>2. HoldsFor(pc[s], draft[s]) /\ CountsOn(pc[s], verb[s])
    BY DEF Held, Steady
  <1>3. CASE CreateJob(s)
    <2>1. status = "unborn" /\ status' = "pending"
      BY <1>2, <1>3 DEF CreateJob, Step, CountsOn
    <2> QED
      BY <2>1 DEF Lifecycle!Next, Lifecycle!Submit, Reviewable
  <1>4. CASE StartRun(s)
    <2>1. status = "pending" /\ status' = "processing"
      BY <1>2, <1>4 DEF StartRun, Step, CountsOn, Queued, SetStatus, Exists
    <2> QED
      BY <2>1 DEF Lifecycle!Next, Lifecycle!Start, Reviewable
  <1>5. CASE FailRun(s)
    <2>1. status = "processing" /\ status' = "failed"
      BY <1>2, <1>5 DEF FailRun, CountsOn, RunPCs, SetStatus, Exists
    <2> QED
      BY <2>1 DEF Lifecycle!Next, Lifecycle!Finish, Reviewable
  <1>6. CASE FinishRun(s)
    <2>1. status = "processing" /\ status' = "awaiting_review" /\ text' = {Pipeline}
      BY <1>2, <1>6 DEF FinishRun, Step, CountsOn, HoldsFor, RunPCs, SetStatus, Exists
    <2> QED
      BY <2>1 DEF Lifecycle!Next, Lifecycle!Finish, Reviewable
  <1>7. CASE ApplyDecision(s)
    <2>1. /\ verb[s] \in Verbs /\ status = Required(verb[s]) /\ status' = Outcome(verb[s])
          /\ UNCHANGED text
      BY <1>2, <1>7 DEF ApplyDecision, CountsOn, SetStatus, Typed, VerbOK
    <2>2. \/ status = "awaiting_review" /\ status' \in {"approved", "rejected"}
          \/ status = "approved" /\ status' = "awaiting_review"
      BY <2>1 DEF Required, Outcome, Verbs
    <2> QED
      BY <2>1, <2>2 DEF Lifecycle!Next, Lifecycle!Approve, Lifecycle!Reject,
                        Lifecycle!Unapprove, Reviewable
  <1>8. CASE DropJob(s)
    <2>1. status \in Reviewable \cup {"failed"} /\ status' = "deleted"
      BY <1>2, <1>8 DEF DropJob, Step, CountsOn, Wiping
    <2> QED
      BY <2>1 DEF Lifecycle!Next, Lifecycle!Delete, Lifecycle!Reviewable, Reviewable
  <1>9. CASE ResetJob(s)
    <2>1. status \in Reviewable \cup {"failed"} /\ status' = "pending" /\ text = NoFile
      BY <1>2, <1>9 DEF ResetJob, Step, CountsOn, Wiping, ResetPCs, ResetOK, SetStatus
    <2> QED
      BY <2>1 DEF Lifecycle!Next, Lifecycle!Reset, Lifecycle!Reviewable, Reviewable
  <1> QED
    BY <1>1, <1>3, <1>4, <1>5, <1>6, <1>7, <1>8, <1>9

\* While the status stays, the text under review changes by an edit, or goes.
LEMMA TextImplements ==
  ASSUME Faithful, [Next]_vars, status \in Reviewable, UNCHANGED status, text' # text
  PROVE  Lifecycle!Edit \/ Lifecycle!Withdraw
  <1> USE DEF Faithful, Backed, Owned
  <1>1. PICK s \in Sessions :
           \/ SaveText(s) \/ SaveSpans(s) \/ FinishRun(s) \/ WriteText(s) \/ WriteSpans(s)
           \/ DropJob(s) \/ DropFiles(s) \/ WipeFiles(s) \/ ResetJob(s)
    BY FileSteps
  <1>2. WriteText(s) \/ WipeFiles(s)
    <2>1. ~SaveText(s) /\ ~DropFiles(s)
      BY DEF SaveText, DropFiles, Step, Steady, CountsOn, RunPCs, Reviewable
    <2> QED
      BY <1>1, <2>1 DEF SaveSpans, FinishRun, WriteSpans, DropJob, ResetJob
  <1>3. CASE WipeFiles(s)
    BY <1>3 DEF WipeFiles, Lifecycle!Withdraw, Lifecycle!Reviewable, Reviewable
  <1>4. CASE WriteText(s)
    <2>1. /\ text \in Texts /\ text' = draft[s].text
          /\ \/ \E r \in Redactions \ text : text' = text \cup {r}
             \/ \E r \in text : text' = text \ {r}
      BY <1>4 DEF WriteText, Step, EditOK
    <2>2. text # NoFile
      BY <2>1, RedactionsDistinct DEF Texts, NoFile
    <2> QED
      BY <2>1, <2>2 DEF Lifecycle!Edit, Lifecycle!Reviewable, Reviewable
  <1> QED
    BY <1>2, <1>3, <1>4

LEMMA NextLifecycle ==
  ASSUME Faithful, [Next]_vars
  PROVE  [Lifecycle!Next]_(Lifecycle!vars)
  <1>1. CASE status' # status
    BY <1>1, StatusImplements
  <1>2. CASE UNCHANGED status /\ status \in Reviewable /\ text' # text
    BY <1>2, TextImplements DEF Lifecycle!Next
  <1>3. CASE UNCHANGED status /\ (status \notin Reviewable \/ UNCHANGED text)
    BY <1>3 DEF Lifecycle!vars, Reviewable, NoFile
  <1> QED
    BY <1>1, <1>2, <1>3

LEMMA FaithfulInvariant ==
  ASSUME Serial
  PROVE  Spec => []Faithful
  <1>1. Init => EditOK /\ ResetOK
    BY DEF Init, EditOK, ResetOK
  <1>2. Backed /\ EditOK /\ ResetOK /\ [Next]_vars => EditOK' /\ ResetOK'
    BY NextEdit, NextReset DEF Backed
  <1> QED
    BY BackedInvariant, <1>1, <1>2, PTL DEF Spec, Faithful

\* Uploads, runs, failures, decisions, edits, resets and deletes, with their
\* sessions, rows, files and deaths, are together the life of a job that its
\* reviewer knows: a text is shown only in a reviewable status, it changes one
\* redaction at a time, and it is gone before the job is run again.
THEOREM ServiceImplementsLifecycle ==
  ASSUME Serial
  PROVE  Spec => ImplementsLifecycle
  <1>1. Init => Lifecycle!Init
    BY DEF Init, Lifecycle!Init, Reviewable
  <1>2. Faithful /\ [Next]_vars => [Lifecycle!Next]_(Lifecycle!vars)
    BY NextLifecycle
  <1> QED
    BY FaithfulInvariant, <1>1, <1>2, PTL DEF Spec, ImplementsLifecycle, Lifecycle!Spec

----------------------------------------------------------------------------
(* The document of a container: types and the invariant *)

USE DEF row, tables, files, Quietly, NoLocals, document, DocUnchanged

Places == {"none"} \cup Uploading \cup Promoting \cup Removing

CTyped ==
  /\ tagged \in BOOLEAN /\ published \in BOOLEAN /\ batches \in Nat
  /\ doc \in DocStatuses \cup {"none", "gone"}
  /\ artefact \in Texts \cup {NoFile}
  /\ at \in [Sessions -> Places]
  /\ copy \in [Sessions -> Texts \cup {NoFile}]

\* What a session at a step of the container counts on.
Counts(s) ==
  /\ at[s] \in Uploading => pc[s] = "submitted" /\ doc = "none"
  /\ at[s] = "registering" => tagged
  /\ at[s] \in Promoting =>
       pc[s] = "hook" /\ verb[s] = "approve" /\ text \in Texts /\ copy[s] = text
  /\ at[s] \in {"spanned", "written"} => batches > 0
  /\ at[s] = "written" => artefact = copy[s]
  /\ at[s] \in Removing => pc[s] = "idle"
  /\ at[s] = "unlinking" => doc = "gone"

Placed == \A s \in Sessions : Counts(s)

\* A hook finds the decision that called it.
Hooks ==
  \A s \in Sessions : pc[s] = "hook" =>
    verb[s] \in {"approve", "reject"} /\ status = Outcome(verb[s])

\* While a document is removed no request is served, and no other removes it.
OneRemoval ==
  \A s, u \in Sessions :
    at[s] \in Removing /\ (pc[u] \in RequestPCs \/ at[u] \in Removing) => s = u

\* There is no document before its job, and a document has its job.
Born == (status = "unborn" => doc = "none") /\ (doc \in DocStatuses => tagged)

\* What the container adds to what the job's invariant says.
Kept == CTyped /\ Placed /\ Hooks /\ OneRemoval /\ Born /\ ReadyIsComplete
CInv == Backed /\ Kept

\* A job that is being processed has a session that does it.
InFlight ==
  lost = {} /\ status \in Busy => \E s \in Sessions : pc[s] \in Queued \cup RunPCs

Clean == lost = {} /\ halfway = {} /\ ~overtaken

\* No decision meets the hook of a run ...
NoRace ==
  Clean => \A s, u \in Sessions : pc[s] \in ReviewPCs => pc[u] # "notifying"

\* ... and none is made while that is to come.
Open ==
  Clean /\ (\E u \in Sessions : pc[u] = "notifying") => status \notin {"approved", "rejected"}

\* The document tells what the job is, or a hook that will is on its way.
Told ==
  \/ status \in Behind(doc) \cup Busy
  \/ status = "awaiting_review" /\ \E u \in Sessions : pc[u] = "notifying"
  \/ \E u \in Sessions : pc[u] = "hook"

Follows == Clean /\ HasDoc => Told

CFollow == CInv /\ InFlight /\ NoRace /\ Open /\ Follows

----------------------------------------------------------------------------
(* The container's steps are the job's *)

LEMMA CInitInv == CInit => CInv /\ InFlight /\ NoRace /\ Open /\ Follows
  <1> SUFFICES ASSUME CInit PROVE CInv /\ InFlight /\ NoRace /\ Open /\ Follows
    OBVIOUS
  <1>1. Backed /\ (\A s \in Sessions : pc[s] = "idle") /\ status = "unborn"
    BY InitBacked DEF CInit, Init
  <1>2. \A s \in Sessions : at[s] = "none"
    BY DEF CInit
  <1>3. CTyped
    BY DEF CInit, CTyped, Places
  <1>4. Placed /\ OneRemoval
    BY <1>2 DEF Placed, Counts, OneRemoval, Uploading, Promoting, Removing
  <1>5. Hooks /\ NoRace /\ Open
    BY <1>1 DEF Hooks, NoRace, Open, ReviewPCs
  <1>6. Born /\ ReadyIsComplete /\ Follows /\ InFlight
    BY <1>1 DEF CInit, Born, ReadyIsComplete, Follows, HasDoc, DocStatuses, InFlight, Busy
  <1> QED
    BY <1>1, <1>3, <1>4, <1>5, <1>6 DEF CInv, Kept

\* Every step of the container but the last of a removal is one of the job's.
LEMMA JobSteps ==
  ASSUME CNext
  PROVE  [Next]_vars \/ \E s \in Sessions : Unlink(s)
  <1>1. ASSUME NEW s \in Sessions, CRequest(s) PROVE [Next]_vars
    BY <1>1 DEF CRequest, JobRequest, BeginRemove, Next
  <1>2. ASSUME NEW s \in Sessions, CServe(s) PROVE [Next]_vars \/ Unlink(s)
    BY <1>2
    DEF CServe, JobServe, SubmitRaw, Tag, Register, OnRejected, NotPromoted, ReadJob, AddSpans,
        WriteArtefact, SetReady, DropSpans, DropDocument, Next, Serve
  <1>3. ASSUME NEW s \in Sessions, CRun(s) PROVE [Next]_vars
    BY <1>3 DEF CRun, JobRun, ProcessingDone, Next, Run
  <1>4. ASSUME NEW s \in Sessions, CDie(s) PROVE [Next]_vars
    BY <1>4 DEF CDie, Next
  <1> QED
    BY <1>1, <1>2, <1>3, <1>4 DEF CNext, COver, Next

\* The job's invariant does not depend on the upload.
LEMMA NextBackedHere ==
  ASSUME Serial, Backed, [CNext]_cvars
  PROVE  Backed'
  <1>1. CASE UNCHANGED cvars
    BY <1>1, NextBacked DEF cvars
  <1>2. CASE \E s \in Sessions : Unlink(s)
    <2>1. UNCHANGED <<status, paths, rows, events, text, spans, pc, verb, draft, lost>>
      BY <1>2 DEF Unlink
    <2>2. source' \in BOOLEAN
      BY <1>2 DEF Unlink
    <2>3. Typed'
      BY <2>1, <2>2 DEF Backed, Owned, Typed, TypeOK, VerbOK
    <2>4. OneRequest' /\ OneRun' /\ Steady' /\ DeletedLeavesNoRows'
      BY <2>1 DEF Backed, Owned, OneRequest, OneRun, Steady, CountsOn, DeletedLeavesNoRows, Exists
    <2>5. UnbornIsEmpty' /\ Held'
      BY <2>1 DEF Backed, UnbornIsEmpty, Held, HoldsFor, Spoilt
    <2>6. ReviewIsBacked'
      BY <2>1 DEF Backed, ReviewIsBacked
    <2> QED
      BY <2>3, <2>4, <2>5, <2>6 DEF Backed, Owned
  <1> QED
    BY <1>1, <1>2, JobSteps, NextBacked

----------------------------------------------------------------------------
(* Every step keeps the invariant *)

\* A session that is served, or that removes the document, is alone.
Lone(s) == pc[s] \in RequestPCs \/ at[s] \in Removing

\* The labels at which a request is served, and those at which none is.
LEMMA Served ==
  /\ {"storing", "submitted", "commenting"} \cup EditPCs \cup ReviewPCs \cup DeletePCs
       \cup ResetPCs = RequestPCs
  /\ {"idle", "notifying", "scheduled"} \cup RunPCs \subseteq PCs \ RequestPCs
  /\ "hook" \in ReviewPCs
  BY DEF PCs, TaskPCs, RequestPCs, EditPCs, ReviewPCs, DeletePCs, ResetPCs, RunPCs

\* A session in a step of the container's is served, or removes.
LEMMA InAStep ==
  ASSUME Placed, CTyped, NEW s \in Sessions
  PROVE  /\ at[s] # "none" => Lone(s)
         /\ pc[s] \in RequestPCs \ {"submitted", "hook"} => at[s] = "none"
         /\ pc[s] \in {"notifying", "scheduled"} \cup RunPCs => at[s] = "none"
         /\ pc[s] = "hook" => at[s] \in {"none"} \cup Promoting
  <1>1. at[s] \in Places /\ Counts(s)
    BY DEF Placed, CTyped
  <1> QED
    BY <1>1, Served DEF Counts, Places, Lone, Uploading, Promoting, Removing, RunPCs

LEMMA Alone ==
  ASSUME CInv, NEW s \in Sessions, NEW u \in Sessions, u # s, Lone(s)
  PROVE  at[u] = "none" /\ pc[u] \notin RequestPCs
  BY InAStep DEF CInv, Kept, Backed, Owned, OneRequest, OneRemoval, Lone

\* While a run is queued or under way no decision waits for its hook.
LEMMA NoHookInARun ==
  ASSUME CInv, NEW s \in Sessions, pc[s] \in Queued \cup RunPCs, NEW u \in Sessions
  PROVE  pc[u] # "hook"
  <1>1. status \in Busy
    BY DEF CInv, Backed, Owned, Steady, CountsOn, Busy
  <1> QED
    BY <1>1 DEF CInv, Kept, Hooks, Outcome, Busy

\* A step of a session that is alone is looked at for that session only.
LEMMA LoneStep ==
  ASSUME CInv, NEW s \in Sessions,
         \A u \in Sessions \ {s} : at[u] = "none" /\ pc[u] \notin RequestPCs,
         \A u \in Sessions \ {s} : at'[u] = at[u] /\ pc'[u] = pc[u],
         Counts(s)',
         pc'[s] = "hook" => verb'[s] \in {"approve", "reject"} /\ status' = Outcome(verb'[s]),
         at'[s] \in Removing => pc'[s] \notin RequestPCs
  PROVE  Placed' /\ Hooks' /\ OneRemoval'
  <1>1. \A u \in Sessions \ {s} : at'[u] = "none" /\ pc'[u] \notin RequestPCs
    OBVIOUS
  <1>2. Placed'
    BY <1>1 DEF Placed, Counts, Uploading, Promoting, Removing
  <1>3. Hooks'
    BY <1>1, Served DEF Hooks
  <1>4. OneRemoval'
    BY <1>1 DEF OneRemoval, Removing
  <1> QED
    BY <1>2, <1>3, <1>4

LEMMA MoveTypes ==
  ASSUME CTyped, NEW s \in Sessions, NEW from, NEW to \in Places, Move(s, from, to)
  PROVE  /\ at[s] = from /\ at'[s] = to /\ at' \in [Sessions -> Places]
         /\ \A u \in Sessions \ {s} : at'[u] = at[u]
  BY DEF CTyped, Move

\* The session of a request or a task is the only one that moves.
LEMMA OneMover ==
  ASSUME CInv, NEW s \in Sessions, Request(s) \/ Serve(s) \/ Run(s) \/ Die(s)
  PROVE  \A u \in Sessions \ {s} : pc'[u] = pc[u] /\ verb'[u] = verb[u]
  BY Bystanders DEF CInv, Backed, Owned

LEMMA RequestKeeps ==
  ASSUME Serial, CInv, NEW s \in Sessions, JobRequest(s)
  PROVE  Kept'
  <1> USE DEF CInv, Kept
  <1>1. /\ Request(s) /\ at[s] = "none" /\ UNCHANGED <<document, at, copy, halfway, status, text>>
    BY RequestReads DEF JobRequest
  <1>2. pc[s] = "idle" /\ pc'[s] # "hook" /\ \A u \in Sessions : pc[u] \notin RequestPCs
    BY <1>1
    DEF Request, Upload, BeginComment, BeginDelete, BeginReset, Decide, Redact, RevertSpan,
        BeginEdit, Begin, Goto, Backed, Owned, Typed, TypeOK
  <1>3. \A u \in Sessions : at[u] = "none"
    BY <1>2, InAStep DEF JobRequest, NoRemoval, Lone
  <1>4. Placed' /\ Hooks' /\ OneRemoval'
    BY <1>1, <1>2, <1>3, OneMover, LoneStep DEF Counts, Uploading, Promoting, Removing
  <1>5. CTyped' /\ Born' /\ ReadyIsComplete'
    BY <1>1 DEF CTyped, Born, ReadyIsComplete
  <1> QED
    BY <1>4, <1>5

LEMMA ServeKeeps ==
  ASSUME CInv, NEW s \in Sessions, JobServe(s)
  PROVE  Kept'
  <1> USE DEF CInv, Kept
  <1>1. Serve(s) /\ UNCHANGED <<document, at, copy, halfway>>
    BY DEF JobServe, DocUnchanged
  <1>2. pc[s] \in RequestPCs \ {"submitted", "hook"}
    BY Served
    DEF JobServe, Serve, CreateJob, Record, ApplyDecision, Hooked, WriteText, WriteSpans,
        Annotate, DropRows, DropEvents, DropJob, DropFiles, WipeRows, WipeEvents, WipeFiles,
        ResetJob, Step, EditPCs, ReviewPCs, DeletePCs, ResetPCs
  <1>3. at[s] = "none" /\ \A u \in Sessions \ {s} : at[u] = "none" /\ pc[u] \notin RequestPCs
    BY <1>2, InAStep, Alone DEF Lone
  <1>4. pc'[s] = "hook" => verb'[s] \in {"approve", "reject"} /\ status' = Outcome(verb'[s])
    <2>1. pc'[s] = "hook" => ApplyDecision(s)
      BY <1>1, <1>2
      DEF Serve, CreateJob, Record, Hooked, WriteText, WriteSpans, Annotate, DropRows,
          DropEvents, DropJob, DropFiles, WipeRows, WipeEvents, WipeFiles, ResetJob, Step,
          End, Goto, Backed, Owned, Typed, TypeOK
    <2>2. ApplyDecision(s) /\ pc'[s] = "hook" =>
            Exists /\ verb[s] \in {"approve", "reject"} /\ UNCHANGED verb
      BY DEF ApplyDecision, End, Goto, Backed, Owned, Typed, TypeOK, VerbOK, Verbs
    <2> QED
      BY <2>1, <2>2 DEF ApplyDecision, SetStatus
  <1>5. Placed' /\ Hooks' /\ OneRemoval'
    BY <1>1, <1>3, <1>4, OneMover, LoneStep DEF Counts, Uploading, Promoting, Removing
  <1>6. CTyped' /\ ReadyIsComplete'
    BY <1>1 DEF CTyped, ReadyIsComplete
  <1>7. status' = "unborn" => status = "unborn"
    BY <1>1
    DEF Serve, CreateJob, Record, ApplyDecision, Hooked, WriteText, WriteSpans, Annotate,
        DropRows, DropEvents, DropJob, DropFiles, WipeRows, WipeEvents, WipeFiles, ResetJob,
        SetStatus, Exists, Outcome, Verbs, Backed, Owned, Typed, VerbOK
  <1>8. Born'
    BY <1>1, <1>7 DEF Born
  <1> QED
    BY <1>5, <1>6, <1>8

LEMMA RunKeeps ==
  ASSUME CInv, NEW s \in Sessions, JobRun(s)
  PROVE  Kept'
  <1> USE DEF CInv, Kept
  <1>1. Run(s) /\ at[s] = "none" /\ UNCHANGED <<document, at, copy, halfway>>
    BY DEF JobRun, DocUnchanged
  <1>2. pc[s] \in Queued \cup RunPCs
    BY <1>1 DEF JobRun, Run, Schedule, StartRun, Extract, FailRun, SaveText, SaveSpans, AddRows,
                FinishRun, Notified, Step, Queued, RunPCs
  <1>3. pc'[s] \in {"idle", "scheduled", "notifying"} \cup RunPCs
    BY <1>1 DEF Run, Schedule, StartRun, Extract, FailRun, SaveText, SaveSpans, AddRows,
                FinishRun, Notified, Step, Goto, RunPCs, Backed, Owned, Typed, TypeOK
  <1>4. pc'[s] \notin RequestPCs
    BY <1>3, Served
  <1>5. ASSUME NEW u \in Sessions PROVE at[u] \in {"none"} \cup Removing
    <2>1. pc[u] # "hook"
      BY <1>2, NoHookInARun
    <2>2. u # s => pc[u] # "submitted"
      BY <1>2 DEF Backed, Owned, OneRun, Queued
    <2> QED
      BY <1>1, <2>1, <2>2 DEF Placed, Counts, CTyped, Places
  <1>6. Placed'
    BY <1>1, <1>5, OneMover DEF Placed, Counts, Uploading, Promoting, Removing
  <1>7. Hooks'
    BY <1>1, <1>2, <1>4, NoHookInARun, OneMover, Served DEF Hooks
  <1>8. OneRemoval'
    BY <1>1, <1>4, OneMover DEF OneRemoval, Removing
  <1>9. CTyped' /\ ReadyIsComplete'
    BY <1>1 DEF CTyped, ReadyIsComplete
  <1>10. status \in Busy /\ tagged' = tagged /\ doc' = doc
    BY <1>1, <1>2 DEF Backed, Owned, Steady, CountsOn, Busy
  <1>11. status' # "unborn"
    BY <1>1, <1>10
    DEF Run, Schedule, StartRun, Extract, FailRun, SaveText, SaveSpans, AddRows, FinishRun,
        Notified, SetStatus, Exists, Busy
  <1> QED
    BY <1>6, <1>7, <1>8, <1>9, <1>10, <1>11 DEF Born

\* The upload: its session is alone with a job that is not processed yet.
LEMMA UploadKeeps ==
  ASSUME CInv, NEW s \in Sessions, SubmitRaw(s) \/ Tag(s) \/ Register(s)
  PROVE  Kept'
  <1> USE DEF CInv, Kept
  <1>1. Lone(s)
    BY Served DEF SubmitRaw, CreateJob, Step, Move, Tag, Register, Placed, Counts, Uploading, Lone
  <1>2. \A u \in Sessions \ {s} : at[u] = "none" /\ pc[u] \notin RequestPCs
    BY <1>1, Alone
  <1>3. CASE SubmitRaw(s)
    <2>1. Serve(s) /\ pc[s] = "storing" /\ pc'[s] = "submitted" /\ status' = "pending"
      BY <1>3 DEF SubmitRaw, CreateJob, Serve, Step, Goto, Backed, Owned, Typed, TypeOK
    <2>2. status = "unborn" /\ doc = "none"
      BY <2>1 DEF Backed, Owned, Steady, CountsOn, Born
    <2>3. /\ at'[s] = "tagging" /\ at' \in [Sessions -> Places]
          /\ \A u \in Sessions \ {s} : at'[u] = at[u]
      BY <1>3, MoveTypes DEF SubmitRaw, Places, Uploading
    <2>4. UNCHANGED <<document, copy, halfway>>
      BY <1>3 DEF SubmitRaw, DocUnchanged
    <2>5. Placed' /\ Hooks' /\ OneRemoval'
      BY <1>2, <2>1, <2>2, <2>3, <2>4, OneMover, LoneStep
      DEF Counts, Uploading, Promoting, Removing
    <2> QED
      BY <2>1, <2>2, <2>3, <2>4, <2>5 DEF CTyped, Born, ReadyIsComplete, DocStatuses
  <1>4. CASE Tag(s) \/ Register(s)
    <2>1. at[s] \in Uploading /\ pc[s] = "submitted" /\ status = "pending" /\ doc = "none"
      BY <1>4 DEF Tag, Register, Move, Placed, Counts, Uploading, Backed, Owned, Steady,
                  CountsOn, Queued
    <2>2. UNCHANGED <<status, text, pc, verb, published, artefact, batches, copy, halfway>>
      BY <1>4 DEF Tag, Register, vars
    <2>3. CASE Tag(s)
      <3>1. tagged' = TRUE /\ UNCHANGED doc
        BY <2>1, <2>3 DEF Tag, Exists
      <3>2. /\ at'[s] = "registering" /\ at' \in [Sessions -> Places]
            /\ \A u \in Sessions \ {s} : at'[u] = at[u]
        BY <2>3, MoveTypes DEF Tag, Places, Uploading
      <3>3. Placed' /\ Hooks' /\ OneRemoval'
        BY <1>2, <2>1, <2>2, <3>1, <3>2, LoneStep DEF Counts, Uploading, Promoting, Removing
      <3> QED
        BY <2>1, <2>2, <3>1, <3>2, <3>3 DEF CTyped, Born, ReadyIsComplete
    <2>4. CASE Register(s)
      <3>1. tagged = TRUE /\ UNCHANGED tagged /\ doc' = "processing"
        BY <2>4 DEF Register, Move, Placed, Counts, CTyped
      <3>2. /\ at'[s] = "none" /\ at' \in [Sessions -> Places]
            /\ \A u \in Sessions \ {s} : at'[u] = at[u]
        BY <2>4, MoveTypes DEF Register, Places
      <3>3. Placed' /\ Hooks' /\ OneRemoval'
        BY <1>2, <2>1, <2>2, <3>2, LoneStep DEF Counts, Uploading, Promoting, Removing
      <3> QED
        BY <2>1, <2>2, <3>1, <3>2, <3>3 DEF CTyped, Born, ReadyIsComplete, DocStatuses
    <2> QED
      BY <1>4, <2>3, <2>4
  <1> QED
    BY <1>3, <1>4

\* MarkDoc() gives a document that is there another status, and no ready one.
LEMMA Marks ==
  ASSUME CTyped, Born, ReadyIsComplete, NEW new \in DocStatuses \ {"ready"}, MarkDoc(new),
         UNCHANGED <<tagged, published, artefact, batches>>
  PROVE  /\ doc' \in DocStatuses \cup {"none", "gone"} /\ doc' # "ready"
         /\ doc \notin DocStatuses => UNCHANGED doc
         /\ status' # "unborn" => Born'
  BY DEF CTyped, Born, MarkDoc, HasDoc, DocStatuses

LEMMA ProcessingDoneKeeps ==
  ASSUME CInv, NEW s \in Sessions, ProcessingDone(s)
  PROVE  Kept'
  <1> USE DEF CInv, Kept
  <1>1. /\ Run(s) /\ pc[s] = "notifying" /\ pc'[s] = "idle"
        /\ UNCHANGED <<status, text, tagged, published, artefact, batches, at, copy, halfway>>
    BY DEF ProcessingDone, Notified, Run, Step, Goto, Backed, Owned, Typed, TypeOK
  <1>2. /\ doc' \in DocStatuses \cup {"none", "gone"} /\ doc' # "ready"
        /\ doc \notin DocStatuses => UNCHANGED doc
    BY <1>1, Marks DEF ProcessingDone, DocStatuses
  <1>3. at[s] = "none"
    BY <1>1, InAStep
  <1>4. Placed'
    BY <1>1, <1>2, <1>3, OneMover
    DEF Placed, Counts, Uploading, Promoting, Removing, DocStatuses
  <1>5. Hooks' /\ OneRemoval'
    BY <1>1, <1>3, OneMover, Served DEF Hooks, OneRemoval
  <1>6. Born'
    BY <1>1, <1>2 DEF ProcessingDone, MarkDoc, HasDoc, Born, DocStatuses
  <1> QED
    BY <1>1, <1>2, <1>4, <1>5, <1>6 DEF CTyped, ReadyIsComplete

\* The hooks that end without a promotion.
LEMMA HookKeeps ==
  ASSUME CInv, NEW s \in Sessions, OnRejected(s) \/ NotPromoted(s)
  PROVE  Kept'
  <1> USE DEF CInv, Kept
  <1>1. /\ Serve(s) /\ pc[s] = "hook" /\ pc'[s] = "idle"
        /\ UNCHANGED <<status, text, tagged, published, artefact, batches, at, copy, halfway>>
    BY DEF OnRejected, NotPromoted, DocUnchanged, Hooked, End, Goto, Serve, Backed, Owned,
           Typed, TypeOK
  <1>2. at[s] = "none"
    BY <1>1, InAStep DEF OnRejected, NotPromoted, Placed, Counts, Promoting
  <1>3. \A u \in Sessions \ {s} : at[u] = "none" /\ pc[u] \notin RequestPCs
    BY <1>1, Alone, Served DEF Lone
  <1>4. Placed' /\ Hooks' /\ OneRemoval'
    BY <1>1, <1>2, <1>3, OneMover, LoneStep DEF Counts, Uploading, Promoting, Removing
  <1>5. UNCHANGED doc \/ (MarkDoc("rejected") /\ doc' # "ready")
    BY DEF OnRejected, NotPromoted, DocUnchanged, MarkDoc, HasDoc, DocStatuses
  <1>6. CTyped' /\ ReadyIsComplete' /\ Born'
    BY <1>1, <1>5 DEF CTyped, ReadyIsComplete, MarkDoc, HasDoc, Born, DocStatuses
  <1> QED
    BY <1>4, <1>6

\* A promotion: its session is alone with the text it has read.
LEMMA PromotionKeeps ==
  ASSUME CInv, NEW s \in Sessions,
         ReadJob(s) \/ AddSpans(s) \/ WriteArtefact(s) \/ SetReady(s)
  PROVE  Kept'
  <1> USE DEF CInv, Kept
  <1>1. pc[s] = "hook" /\ UNCHANGED <<status, text, tagged, halfway>>
    BY DEF ReadJob, AddSpans, WriteArtefact, SetReady, Hooked, Move, DocUnchanged, vars, Placed,
           Counts, Promoting
  <1>2. \A u \in Sessions \ {s} : at[u] = "none" /\ pc[u] \notin RequestPCs
    BY <1>1, Alone, Served DEF Lone
  <1>3. CASE ReadJob(s)
    <2>1. /\ at'[s] = "promoting" /\ at' \in [Sessions -> Places]
          /\ \A u \in Sessions \ {s} : at'[u] = at[u]
      BY <1>3, MoveTypes DEF ReadJob, Places, Promoting
    <2>2. text \in Texts /\ copy'[s] = text /\ copy' \in [Sessions -> Texts \cup {NoFile}]
      BY <1>3 DEF ReadJob, Promotable, Backed, Owned, Typed, TypeOK, CTyped
    <2>3. UNCHANGED <<pc, verb, document>>
      BY <1>3 DEF ReadJob, DocUnchanged, vars
    <2>4. verb[s] = "approve"
      BY <1>3 DEF ReadJob
    <2>5. Placed' /\ Hooks' /\ OneRemoval'
      BY <1>1, <1>2, <2>1, <2>2, <2>3, <2>4, LoneStep
      DEF Counts, Uploading, Promoting, Removing, Hooks
    <2>6. \A u \in Sessions : at[u] \notin Removing
      BY <1>1, <1>2, InAStep DEF Promoting, Removing
    <2> QED
      BY <1>1, <2>1, <2>2, <2>3, <2>5, <2>6 DEF CTyped, Born, ReadyIsComplete
  <1>4. CASE AddSpans(s) \/ WriteArtefact(s)
    <2>1. /\ at[s] \in Promoting /\ verb[s] = "approve" /\ text \in Texts /\ copy[s] = text
          /\ at[s] = "spanned" => batches > 0
      BY <1>4 DEF AddSpans, WriteArtefact, Move, Placed, Counts, Promoting
    <2>2. UNCHANGED <<pc, verb, doc, published, copy>>
      BY <1>4 DEF AddSpans, WriteArtefact, vars
    <2>3. /\ at' \in [Sessions -> Places] /\ \A u \in Sessions \ {s} : at'[u] = at[u]
          /\ \/ /\ at[s] = "promoting" /\ at'[s] = "spanned"
                /\ batches' = batches + 1 /\ UNCHANGED artefact
             \/ /\ at[s] = "spanned" /\ at'[s] = "written"
                /\ UNCHANGED batches /\ artefact' = copy[s]
      BY <1>4, MoveTypes DEF AddSpans, WriteArtefact, Places, Promoting
    <2>4. batches' \in Nat /\ batches' > 0 /\ batches' >= batches /\ batches \in Nat
      BY <2>1, <2>3 DEF CTyped
    <2>5. Placed' /\ Hooks' /\ OneRemoval'
      BY <1>1, <1>2, <2>1, <2>2, <2>3, <2>4, LoneStep
      DEF Counts, Uploading, Promoting, Removing, Hooks
    <2>6. \A u \in Sessions : at[u] \notin Removing
      BY <1>2, <2>1 DEF Promoting, Removing
    <2>7. artefact' \in Texts \/ UNCHANGED artefact
      BY <2>1, <2>3
    <2> QED
      BY <1>1, <2>1, <2>2, <2>3, <2>4, <2>5, <2>6, <2>7 DEF CTyped, Born, ReadyIsComplete
  <1>5. CASE SetReady(s)
    <2>1. at[s] = "written" /\ artefact \in Texts /\ batches > 0
      BY <1>5 DEF SetReady, Move, Placed, Counts, Promoting
    <2>2. Serve(s) /\ pc'[s] = "idle" /\ UNCHANGED <<artefact, batches>>
      BY <1>5 DEF SetReady, Hooked, End, Goto, Serve, Backed, Owned, Typed, TypeOK
    <2>3. /\ at'[s] = "none" /\ at' \in [Sessions -> Places]
          /\ \A u \in Sessions \ {s} : at'[u] = at[u]
      BY <1>5, MoveTypes DEF SetReady, Places
    <2>4. Placed' /\ Hooks' /\ OneRemoval'
      BY <1>2, <2>2, <2>3, OneMover, LoneStep DEF Counts, Uploading, Promoting, Removing
    <2>5. /\ doc' = (IF HasDoc THEN "ready" ELSE doc) /\ published' = (published \/ HasDoc)
          /\ copy' \in [Sessions -> Texts \cup {NoFile}]
      BY <1>5 DEF SetReady, MarkDoc, CTyped
    <2>6. Born' /\ ReadyIsComplete'
      BY <1>1, <2>1, <2>2, <2>5 DEF Born, ReadyIsComplete, HasDoc, DocStatuses
    <2>7. CTyped'
      BY <1>1, <2>2, <2>3, <2>5 DEF CTyped, DocStatuses
    <2> QED
      BY <2>4, <2>6, <2>7
  <1> QED
    BY <1>3, <1>4, <1>5

\* A removal: its session is alone with the document.
LEMMA RemovalKeeps ==
  ASSUME Serial, CInv, NEW s \in Sessions,
         BeginRemove(s) \/ DropSpans(s) \/ DropDocument(s) \/ Unlink(s)
  PROVE  Kept'
  <1> USE DEF CInv, Kept
  <1>1. pc[s] = "idle" /\ UNCHANGED <<status, text, pc, verb, tagged, copy, halfway>>
    BY DEF BeginRemove, DropSpans, DropDocument, Unlink, Move, DocUnchanged, vars, Placed,
           Counts, Removing
  <1>2. \A u \in Sessions \ {s} : at[u] = "none" /\ pc[u] \notin RequestPCs
    <2>1. CASE BeginRemove(s)
      BY <2>1, InAStep DEF BeginRemove, NoRemoval, Lone
    <2>2. CASE DropSpans(s) \/ DropDocument(s) \/ Unlink(s)
      BY <2>2, Alone DEF DropSpans, DropDocument, Unlink, Move, Removing, Lone
    <2> QED
      BY <2>1, <2>2
  <1>3. pc'[s] \notin RequestPCs /\ pc'[s] # "hook"
    BY <1>1, Served
  <1>4. ASSUME at' \in [Sessions -> Places], \A u \in Sessions \ {s} : at'[u] = at[u],
               at'[s] \in {"none"} \cup Removing, at'[s] = "unlinking" => doc' = "gone"
        PROVE  Placed' /\ Hooks' /\ OneRemoval'
    <2>1. Counts(s)'
      BY <1>1, <1>4 DEF Counts, Uploading, Promoting, Removing
    <2> QED
      BY <1>1, <1>2, <1>3, <1>4, <2>1, LoneStep
  <1>5. CASE BeginRemove(s) \/ DropSpans(s)
    <2>1. /\ at' \in [Sessions -> Places] /\ \A u \in Sessions \ {s} : at'[u] = at[u]
          /\ at'[s] \in {"dropSpans", "dropDocument"}
      BY <1>5, MoveTypes DEF BeginRemove, DropSpans, Places, Removing
    <2>2. UNCHANGED <<doc, published, artefact>> /\ batches' \in Nat
      BY <1>5 DEF BeginRemove, DropSpans, DocUnchanged, CTyped
    <2> QED
      BY <1>1, <1>4, <2>1, <2>2 DEF CTyped, Born, ReadyIsComplete, Removing
  <1>6. CASE DropDocument(s)
    <2>1. /\ at' \in [Sessions -> Places] /\ \A u \in Sessions \ {s} : at'[u] = at[u]
          /\ at'[s] = IF HasDoc THEN "unlinking" ELSE "none"
      BY <1>6, MoveTypes DEF DropDocument, Places, Removing
    <2>2. /\ doc' = (IF HasDoc THEN "gone" ELSE doc)
          /\ UNCHANGED <<published, artefact, batches>>
      BY <1>6 DEF DropDocument, MarkDoc
    <2>3. doc' \notin DocStatuses
      BY <2>2 DEF HasDoc, Born, DocStatuses
    <2> QED
      BY <1>1, <1>4, <2>1, <2>2, <2>3
      DEF CTyped, Born, ReadyIsComplete, Removing, DocStatuses, HasDoc
  <1>7. CASE Unlink(s)
    <2>1. /\ at' \in [Sessions -> Places] /\ \A u \in Sessions \ {s} : at'[u] = at[u]
          /\ at'[s] = "none" /\ at[s] = "unlinking"
      BY <1>7, MoveTypes DEF Unlink, Places
    <2>2. doc = "gone" /\ UNCHANGED <<doc, batches>> /\ published' = FALSE
      BY <1>7, <2>1 DEF Unlink, Placed, Counts
    <2>3. artefact' \in Texts \cup {NoFile}
      BY <1>7 DEF Unlink, CTyped
    <2> QED
      BY <1>1, <1>4, <2>1, <2>2, <2>3 DEF CTyped, Born, ReadyIsComplete, DocStatuses
  <1> QED
    BY <1>5, <1>6, <1>7

\* A death leaves the job and the document as they are.
LEMMA DeathKeeps ==
  ASSUME CInv, NEW s \in Sessions, CDie(s)
  PROVE  Kept'
  <1> USE DEF CInv, Kept
  <1>1. /\ at' = [at EXCEPT ![s] = "none"] /\ copy' = [copy EXCEPT ![s] = NoFile]
        /\ UNCHANGED <<status, text, document>> /\ halfway \subseteq halfway'
        /\ at[s] \in Removing => "removal" \in halfway'
    BY DEF CDie, Die, vars
  <1>2. pc'[s] = "idle"
    BY DEF CDie, Die, End, Goto, vars, Placed, Counts, Backed, Owned, Typed, TypeOK
  <1>3. \A u \in Sessions \ {s} : pc'[u] = pc[u] /\ verb'[u] = verb[u]
    BY OneMover DEF CDie, vars
  <1>4. CTyped' /\ at'[s] = "none"
    BY <1>1 DEF CTyped, Places
  <1>5. \A u \in Sessions \ {s} : at'[u] = at[u] /\ copy'[u] = copy[u]
    BY <1>1 DEF CTyped
  <1>6. Placed'
    BY <1>1, <1>3, <1>4, <1>5 DEF Placed, Counts, Uploading, Promoting, Removing
  <1>7. Hooks' /\ OneRemoval'
    BY <1>1, <1>2, <1>3, <1>4, <1>5, Served DEF Hooks, OneRemoval, Removing
  <1>8. Born' /\ ReadyIsComplete'
    BY <1>1, <1>5 DEF Born, ReadyIsComplete
  <1> QED
    BY <1>4, <1>6, <1>7, <1>8

LEMMA NextCInv ==
  ASSUME Serial, CInv, [CNext]_cvars
  PROVE  CInv'
  <1>1. ASSUME NEW s \in Sessions, CRequest(s) \/ CServe(s) PROVE Kept'
    BY <1>1, RequestKeeps, ServeKeeps, UploadKeeps, HookKeeps, PromotionKeeps, RemovalKeeps
    DEF CRequest, CServe
  <1>2. ASSUME NEW s \in Sessions, CRun(s) \/ CDie(s) PROVE Kept'
    BY <1>2, RunKeeps, ProcessingDoneKeeps, DeathKeeps DEF CRun
  <1>3. ASSUME UNCHANGED cvars PROVE Kept'
    <2>1. UNCHANGED <<status, text, pc, verb, document, at, copy, halfway>>
      BY <1>3 DEF cvars, vars
    <2>2. CTyped' /\ Born' /\ ReadyIsComplete'
      BY <2>1 DEF CInv, Kept, CTyped, Born, ReadyIsComplete
    <2>3. Placed' /\ Hooks' /\ OneRemoval'
      BY <2>1 DEF CInv, Kept, Placed, Counts, Hooks, OneRemoval
    <2> QED
      BY <2>2, <2>3 DEF Kept
  <1>4. Kept'
    <2>1. CNext => (\E s \in Sessions : CRequest(s) \/ CServe(s) \/ CRun(s) \/ CDie(s))
                   \/ UNCHANGED cvars
      BY DEF CNext, COver
    <2> QED
      BY <1>1, <1>2, <1>3, <2>1
  <1> QED
    BY <1>4, NextBackedHere DEF CInv

LEMMA CInvariant ==
  ASSUME Serial
  PROVE  CSpec => []CInv
  BY CInitInv, NextCInv, PTL DEF CSpec

\* A ready document has its artefact and its spans, whatever was decided,
\* reprocessed, removed or interrupted before, for any number of sessions and
\* of promotions.
THEOREM ReadyDocumentsAreComplete ==
  ASSUME Serial
  PROVE  CSpec => []ReadyIsComplete
  <1>1. CInv => ReadyIsComplete
    BY DEF CInv, Kept
  <1> QED
    BY CInvariant, <1>1, PTL

\* What becomes the pseudonymized text is what the reviewer approved, while it
\* is approved: nothing gets between the approval and the copy its hook writes.
THEOREM PublicationsAreApproved ==
  ASSUME Serial
  PROVE  CSpec => PublishedIsApproved
  <1>1. ASSUME CInv, [CNext]_cvars
        PROVE  [artefact' \notin {artefact, NoFile} =>
                  status = "approved" /\ artefact' = text]_cvars
    <2>1. SUFFICES ASSUME CNext, artefact' \notin {artefact, NoFile}
                   PROVE  status = "approved" /\ artefact' = text
      BY <1>1
    <2>2. PICK s \in Sessions : WriteArtefact(s)
      <3>1. ASSUME NEW s \in Sessions, CRequest(s) \/ CRun(s) \/ CDie(s) PROVE UNCHANGED artefact
        BY <3>1 DEF CRequest, JobRequest, BeginRemove, CRun, JobRun, ProcessingDone, CDie
      <3>2. ASSUME NEW s \in Sessions, CServe(s)
            PROVE  artefact' \in {artefact, NoFile} \/ WriteArtefact(s)
        BY <3>2
        DEF CServe, JobServe, SubmitRaw, Tag, Register, OnRejected, NotPromoted, ReadJob,
            AddSpans, SetReady, DropSpans, DropDocument, Unlink
      <3> QED
        BY <2>1, <3>1, <3>2 DEF CNext, COver, cvars
    <2>3. pc[s] = "hook" /\ verb[s] = "approve" /\ copy[s] = text /\ artefact' = copy[s]
      BY <1>1, <2>2 DEF WriteArtefact, Move, CInv, Kept, Placed, Counts, Promoting
    <2> QED
      BY <1>1, <2>3 DEF CInv, Kept, Hooks, Outcome
  <1> QED
    BY CInvariant, <1>1, PTL DEF CSpec, PublishedIsApproved

----------------------------------------------------------------------------
(* At rest the document tells what the job is *)

\* What was lost stays lost, and a death is a loss.
LEMMA CleanSteps ==
  ASSUME CInv, [CNext]_cvars, Clean'
  PROVE  Clean /\ (\A s \in Sessions : ~CDie(s)) /\ (\A s \in Sessions : ~Die(s))
  <1> USE DEF CInv, Kept
  <1>1. ASSUME NEW s \in Sessions, Die(s) PROVE lost' # {}
    BY <1>1 DEF Die
  <1>2. ASSUME NEW s \in Sessions, CDie(s) PROVE FALSE
    <2>1. CASE Die(s)
      BY <1>1, <2>1 DEF Clean
    <2>2. CASE at[s] \in Removing
      BY <1>2, <2>2 DEF CDie, Clean
    <2> QED
      BY <1>2, <2>1, <2>2 DEF CDie
  <1>3. ASSUME NEW s \in Sessions, CRequest(s)
        PROVE  UNCHANGED <<lost, halfway>> /\ (overtaken => overtaken')
    <2>1. CASE JobRequest(s)
      <3>1. UNCHANGED <<lost, halfway>>
        BY <2>1, RequestReads DEF JobRequest
      <3>2. overtaken => overtaken'
        BY <2>1, Zenon DEF JobRequest
      <3> QED
        BY <3>1, <3>2, Zenon
    <2>2. CASE BeginRemove(s)
      BY <2>2 DEF BeginRemove, vars
    <2> QED
      BY <1>3, <2>1, <2>2, Zenon DEF CRequest
  <1>4. ASSUME NEW s \in Sessions, CRun(s) PROVE UNCHANGED <<lost, halfway, overtaken>>
    BY <1>4 DEF CRun, JobRun, ProcessingDone, Run, Schedule, StartRun, Extract, FailRun,
                SaveText, SaveSpans, AddRows, FinishRun, Notified
  <1>5. ASSUME NEW s \in Sessions, CServe(s) PROVE UNCHANGED <<lost, halfway, overtaken>>
    <2>1. ASSUME Serve(s) PROVE UNCHANGED lost
      BY <2>1
      DEF Serve, CreateJob, Record, ApplyDecision, Hooked, WriteText, WriteSpans, Annotate,
          DropRows, DropEvents, DropJob, DropFiles, WipeRows, WipeEvents, WipeFiles, ResetJob
    <2> QED
      BY <1>5, <2>1
      DEF CServe, JobServe, SubmitRaw, Tag, Register, OnRejected, NotPromoted, ReadJob,
          AddSpans, WriteArtefact, SetReady, DropSpans, DropDocument, Unlink, Serve, vars
  <1> QED
    <2>1. UNCHANGED <<lost, halfway>> /\ (overtaken => overtaken')
      <3>1. CASE UNCHANGED cvars
        BY <3>1 DEF cvars, vars
      <3>2. ASSUME NEW s \in Sessions, CRequest(s) \/ CServe(s) \/ CRun(s)
            PROVE  UNCHANGED <<lost, halfway>> /\ (overtaken => overtaken')
        BY <1>3, <1>4, <1>5, <3>2
      <3> QED
        BY <1>2, <3>1, <3>2, Zenon DEF CNext, COver
    <2>2. Clean
      BY <2>1 DEF Clean
    <2> QED
      BY <1>1, <1>2, <2>2 DEF Clean

\* What a run in flight is, step by step.
LEMMA NextInFlight ==
  ASSUME CInv, InFlight, [CNext]_cvars
  PROVE  InFlight'
  <1> USE DEF CInv, Backed, Owned
  <1> SUFFICES ASSUME lost' = {}, status' \in Busy
               PROVE  \E s \in Sessions : pc'[s] \in Queued \cup RunPCs
    BY DEF InFlight
  <1>1. CASE \E s \in Sessions : Unlink(s)
    BY <1>1 DEF Unlink, InFlight
  <1>2. CASE [Next]_vars
    <2>1. lost = {}
      <3>1. \A s \in Sessions : Die(s) => lost' # {}
        BY DEF Die
      <3>2. \A s \in Sessions : Serve(s) => UNCHANGED lost
        BY DEF Serve, CreateJob, Record, ApplyDecision, Hooked, WriteText, WriteSpans, Annotate,
               DropRows, DropEvents, DropJob, DropFiles, WipeRows, WipeEvents, WipeFiles,
               ResetJob
      <3>3. \A s \in Sessions : Run(s) => UNCHANGED lost
        BY DEF Run, Schedule, StartRun, Extract, FailRun, SaveText, SaveSpans, AddRows,
               FinishRun, Notified
      <3> QED
        BY <1>2, <3>1, <3>2, <3>3, RequestReads DEF Next, Over, vars
    <2>2. CASE status \notin Busy
      <3>1. PICK s \in Sessions :
               \/ CreateJob(s) \/ StartRun(s) \/ FailRun(s) \/ FinishRun(s)
               \/ ApplyDecision(s) \/ DropJob(s) \/ ResetJob(s)
        BY <1>2, <2>2, StatusSteps
      <3>2. CreateJob(s) \/ ResetJob(s)
        BY <2>2, <3>1
        DEF StartRun, FailRun, FinishRun, ApplyDecision, DropJob, Step, SetStatus, Outcome,
            Busy, Queued, Steady, CountsOn, Typed, VerbOK, Verbs
      <3>3. pc'[s] = "submitted"
        BY <2>2, <3>2
        DEF CreateJob, ResetJob, Step, Goto, SetStatus, Exists, Busy, Typed, TypeOK
      <3> QED
        BY <3>3 DEF Queued
    <2>3. CASE status \in Busy
      <3>1. PICK s \in Sessions : pc[s] \in Queued \cup RunPCs
        BY <2>1, <2>3 DEF InFlight
      <3>2. ~Request(s) /\ ~Serve(s) /\ ~Die(s)
        <4>1. ~Request(s)
          BY <3>1 DEF Request, Upload, BeginComment, BeginDelete, BeginReset, Decide, Redact,
                      RevertSpan, BeginEdit, Begin, Queued, RunPCs
        <4>2. ~Serve(s)
          BY <3>1
          DEF Serve, CreateJob, Record, ApplyDecision, Hooked, WriteText, WriteSpans, Annotate,
              DropRows, DropEvents, DropJob, DropFiles, WipeRows, WipeEvents, WipeFiles,
              ResetJob, Step, Queued, RunPCs, EditPCs
        <4> QED
          BY <4>1, <4>2 DEF Die
      <3>3. Run(s) => pc'[s] \in Queued \cup RunPCs
        BY <2>3, <3>1
        DEF Run, Schedule, StartRun, Extract, FailRun, SaveText, SaveSpans, AddRows, FinishRun,
            Notified, Step, Goto, SetStatus, Exists, Busy, Queued, RunPCs, Typed, TypeOK
      <3> QED
        BY <1>2, <3>1, <3>2, <3>3, Standing
    <2> QED
      BY <2>2, <2>3
  <1>3. CASE UNCHANGED cvars
    BY <1>3, <1>2 DEF cvars
  <1> QED
    BY <1>1, <1>2, <1>3, JobSteps

\* Where the hook of a run comes from.
LEMMA Notifies ==
  ASSUME CInv, [CNext]_cvars, NEW u \in Sessions, pc'[u] = "notifying", pc[u] # "notifying"
  PROVE  FinishRun(u) /\ pc[u] \in RunPCs
  <1> USE DEF CInv, Kept, Backed, Owned
  <1>1. [Next]_vars
    BY JobSteps DEF Unlink, cvars
  <1>2. ~Request(u) /\ ~Serve(u) /\ ~Die(u)
    <2>1. ~Request(u)
      BY DEF Request, Upload, BeginComment, BeginDelete, BeginReset, Decide, Redact,
             RevertSpan, BeginEdit, Begin, Goto, Typed, TypeOK
    <2>2. ~Serve(u)
      BY DEF Serve, CreateJob, Record, ApplyDecision, Hooked, WriteText, WriteSpans, Annotate,
             DropRows, DropEvents, DropJob, DropFiles, WipeRows, WipeEvents, WipeFiles,
             ResetJob, Step, End, Goto, Typed, TypeOK
    <2>3. ~Die(u)
      BY DEF Die, End, Goto, Typed, TypeOK
    <2> QED
      BY <2>1, <2>2, <2>3
  <1>3. FinishRun(u)
    <2>1. Run(u)
      BY <1>1, <1>2, Standing
    <2> QED
      BY <2>1
      DEF Run, Schedule, StartRun, Extract, FailRun, SaveText, SaveSpans, AddRows, Notified,
          Step, Goto, Typed, TypeOK
  <1>4. pc[u] \in RunPCs
    BY <1>3 DEF FinishRun, Step, RunPCs
  <1> QED
    BY <1>3, <1>4

LEMMA OneMoverHere ==
  ASSUME CInv, NEW s \in Sessions, CRequest(s) \/ CServe(s) \/ CRun(s) \/ CDie(s)
  PROVE  \A u \in Sessions \ {s} : pc'[u] = pc[u]
  <1>1. Request(s) \/ Serve(s) \/ Run(s) \/ Die(s) \/ UNCHANGED pc
    BY DEF CRequest, JobRequest, BeginRemove, CServe, JobServe, SubmitRaw, Tag, Register,
           OnRejected, NotPromoted, ReadJob, AddSpans, WriteArtefact, SetReady, DropSpans,
           DropDocument, Unlink, CRun, JobRun, ProcessingDone, CDie, Serve, Run, vars
  <1> QED
    BY <1>1, OneMover

\* A decision that begins while a run's hook is pending is remembered.
LEMMA Overtakes ==
  ASSUME CInv, [CNext]_cvars, NEW s \in Sessions, NEW u \in Sessions, pc[u] = "notifying",
         pc[s] \notin ReviewPCs, pc'[s] \in ReviewPCs
  PROVE  overtaken'
  <1> USE DEF CInv, Kept, Backed, Owned
  <1>1. [Next]_vars
    BY JobSteps DEF Unlink, cvars
  <1>2. ~Serve(s) /\ ~Run(s) /\ ~Die(s)
    <2>1. ~Serve(s)
      BY DEF Serve, CreateJob, Record, ApplyDecision, Hooked, WriteText, WriteSpans, Annotate,
             DropRows, DropEvents, DropJob, DropFiles, WipeRows, WipeEvents, WipeFiles,
             ResetJob, Step, End, Goto, Typed, TypeOK, ReviewPCs
    <2>2. ~Run(s)
      BY DEF Run, Schedule, StartRun, Extract, FailRun, SaveText, SaveSpans, AddRows,
             FinishRun, Notified, Step, Goto, Typed, TypeOK, ReviewPCs
    <2>3. ~Die(s)
      BY DEF Die, End, Goto, Typed, TypeOK, ReviewPCs
    <2> QED
      BY <2>1, <2>2, <2>3
  <1>3. Request(s)
    BY <1>1, <1>2, Standing
  <1>4. pc[s] = "idle" /\ pc'[s] = "deciding"
    BY <1>3 DEF Request, Upload, BeginComment, BeginDelete, BeginReset, Decide, Redact,
                RevertSpan, BeginEdit, Begin, Goto, Typed, TypeOK, ReviewPCs
  <1>5. PICK v \in Sessions : CRequest(v) \/ CServe(v) \/ CRun(v) \/ CDie(v)
    BY <1>4 DEF CNext, COver, cvars, vars
  <1>6. v = s
    BY <1>4, <1>5, OneMoverHere
  <1>7. JobRequest(s)
    <2>1. ~(UNCHANGED pc)
      BY <1>4
    <2> QED
      BY <1>2, <1>5, <1>6, <2>1
      DEF CRequest, BeginRemove, CServe, JobServe, SubmitRaw, Tag, Register,
          OnRejected, NotPromoted, ReadJob, AddSpans, WriteArtefact, SetReady, DropSpans,
          DropDocument, Unlink, CRun, JobRun, ProcessingDone, CDie, Serve, Run, vars
  <1> QED
    BY <1>4, <1>7, Zenon DEF JobRequest

LEMMA NextNoRace ==
  ASSUME CInv, NoRace, [CNext]_cvars
  PROVE  NoRace'
  <1> USE DEF CInv, Kept, Backed, Owned
  <1> SUFFICES ASSUME Clean', NEW s \in Sessions, NEW u \in Sessions,
                      pc'[s] \in ReviewPCs, pc'[u] = "notifying"
               PROVE  FALSE
    BY DEF NoRace
  <1>1. Clean
    BY CleanSteps
  <1>2. CASE pc[u] = "notifying"
    <2>1. pc[s] \notin ReviewPCs
      BY <1>1, <1>2 DEF NoRace
    <2>2. overtaken'
      BY <1>2, <2>1, Overtakes
    <2> QED
      BY <2>2 DEF Clean
  <1>3. CASE pc[u] # "notifying"
    <2>1. FinishRun(u) /\ pc[u] \in RunPCs
      BY <1>3, Notifies
    <2>2. s # u
      BY DEF ReviewPCs
    <2>3. pc'[s] = pc[s]
      BY <2>1, <2>2, OneMover DEF Run
    <2>4. pc[s] \in {"idle", "notifying", "commenting", "hook"}
      BY <2>1, <2>2, Others
    <2> QED
      BY <2>1, <2>3, <2>4, NoHookInARun DEF ReviewPCs
  <1> QED
    BY <1>2, <1>3

LEMMA NextOpen ==
  ASSUME CInv, NoRace, Open, [CNext]_cvars
  PROVE  Open'
  <1> USE DEF CInv, Kept, Backed, Owned
  <1> SUFFICES ASSUME Clean', NEW u \in Sessions, pc'[u] = "notifying",
                      status' \in {"approved", "rejected"}
               PROVE  FALSE
    BY DEF Open
  <1>1. Clean
    BY CleanSteps
  <1>2. CASE pc[u] # "notifying"
    <2>1. FinishRun(u) /\ status = "processing"
      BY <1>2, Notifies DEF Steady, CountsOn
    <2> QED
      BY <2>1 DEF FinishRun, SetStatus, Exists
  <1>3. CASE pc[u] = "notifying"
    <2>1. status' # status
      BY <1>1, <1>3 DEF Open
    <2>2. [Next]_vars
      BY <2>1, JobSteps DEF Unlink, cvars
    <2>3. PICK s \in Sessions :
             \/ CreateJob(s) \/ StartRun(s) \/ FailRun(s) \/ FinishRun(s)
             \/ ApplyDecision(s) \/ DropJob(s) \/ ResetJob(s)
      BY <2>1, <2>2, StatusSteps
    <2>4. ApplyDecision(s)
      BY <2>1, <2>3 DEF CreateJob, StartRun, FailRun, FinishRun, DropJob, ResetJob, SetStatus
    <2>5. pc[s] \in ReviewPCs
      BY <2>4 DEF ApplyDecision, ReviewPCs
    <2> QED
      BY <1>1, <1>3, <2>5 DEF NoRace
  <1> QED
    BY <1>2, <1>3

\* The steps of the job alone.
LEMMA JobTold ==
  ASSUME CInv, Told, doc \in DocStatuses, NEW s \in Sessions,
         JobRequest(s) \/ JobServe(s) \/ JobRun(s)
  PROVE  Told'
  <1> USE DEF CInv, Kept, Backed, Owned
  <1>1. UNCHANGED doc /\ (Request(s) \/ Serve(s) \/ Run(s))
    BY DEF JobRequest, JobServe, DocUnchanged, JobRun
  <1>2. ASSUME UNCHANGED status, pc[s] \notin {"notifying", "hook"} PROVE Told'
    <2>1. \A u \in Sessions : pc[u] \in {"notifying", "hook"} => pc'[u] = pc[u]
      BY <1>1, <1>2, OneMover
    <2> QED
      BY <1>1, <1>2, <2>1 DEF Told, Busy
  <1>3. CASE JobRequest(s)
    <2>1. UNCHANGED status /\ pc[s] = "idle"
      BY <1>3, RequestReads
      DEF JobRequest, Request, Upload, BeginComment, BeginDelete, BeginReset, Decide, Redact,
          RevertSpan, BeginEdit, Begin
    <2> QED
      BY <1>2, <2>1
  <1>4. CASE JobServe(s)
    <2>1. CASE ApplyDecision(s)
      <3>1. status = Required(verb[s]) /\ verb[s] \in Verbs /\ pc[s] = "recorded"
        BY <2>1 DEF ApplyDecision, Steady, CountsOn, Typed, VerbOK
      <3>2. CASE verb[s] # "unapprove"
        <4>1. pc'[s] = "hook"
          BY <2>1, <3>1, <3>2
          DEF ApplyDecision, Goto, Exists, Required, Verbs, Typed, TypeOK
        <4> QED
          BY <4>1 DEF Told
      <3>3. CASE verb[s] = "unapprove"
        <4>1. status = "approved" /\ status' = "awaiting_review"
          BY <2>1, <3>1, <3>3 DEF ApplyDecision, SetStatus, Exists, Required, Outcome
        <4>2. \A u \in Sessions : pc[u] # "hook"
          BY <3>1, Served, Alone DEF Lone, ReviewPCs
        <4>3. "approved" \in Behind(doc)
          BY <4>1, <4>2 DEF Told, Busy
        <4>4. doc = "ready"
          BY <4>3 DEF Behind, DocStatuses
        <4> QED
          BY <1>1, <4>1, <4>4 DEF Told, Behind
      <3> QED
        BY <3>2, <3>3
    <2>2. CASE DropJob(s) \/ ResetJob(s)
      <3>1. status' \in {"deleted", "pending"}
        BY <2>2 DEF DropJob, ResetJob, Step, SetStatus, Exists, Steady, CountsOn, Wiping,
                    ResetPCs, Reviewable
      <3> QED
        BY <1>1, <3>1 DEF Told, Behind, Busy, DocStatuses
    <2>3. CASE ~(ApplyDecision(s) \/ DropJob(s) \/ ResetJob(s))
      <3>1. UNCHANGED status /\ pc[s] \notin {"notifying", "hook"}
        BY <1>4, <2>3
        DEF JobServe, Serve, CreateJob, Record, Hooked, WriteText, WriteSpans, Annotate,
            DropRows, DropEvents, DropFiles, WipeRows, WipeEvents, WipeFiles, Step
      <3> QED
        BY <1>2, <3>1
    <2> QED
      BY <2>1, <2>2, <2>3
  <1>5. CASE JobRun(s)
    <2>1. pc[s] \in Queued \cup RunPCs /\ Run(s) /\ pc[s] # "notifying"
      BY <1>5
      DEF JobRun, Run, Schedule, StartRun, Extract, FailRun, SaveText, SaveSpans, AddRows,
          FinishRun, Notified, Step, Queued, RunPCs
    <2>2. status \in Busy
      BY <2>1 DEF Steady, CountsOn, Busy
    <2>3. \/ status' \in Busy \cup {"failed"}
          \/ status' = "awaiting_review" /\ pc'[s] = "notifying"
      BY <2>1, <2>2
      DEF Run, Schedule, StartRun, Extract, FailRun, SaveText, SaveSpans, AddRows, FinishRun,
          Notified, Step, Goto, SetStatus, Exists, Busy, Typed, TypeOK
    <2> QED
      BY <1>1, <2>3 DEF Told, Behind, Busy, DocStatuses
  <1> QED
    BY <1>3, <1>4, <1>5

\* The hooks tell the document what the job is now.
LEMMA HookTold ==
  ASSUME CInv, NoRace, Open, Clean, Told, HasDoc, NEW s \in Sessions,
         ProcessingDone(s) \/ OnRejected(s) \/ NotPromoted(s) \/ SetReady(s)
  PROVE  Told'
  <1> USE DEF CInv, Kept, Backed, Owned
  <1>1. CASE ProcessingDone(s)
    <2>1. pc[s] = "notifying" /\ UNCHANGED status /\ doc' = "pending_review"
      BY <1>1 DEF ProcessingDone, Notified, Step, MarkDoc
    <2>2. \A u \in Sessions : pc[u] # "hook"
      BY <2>1 DEF NoRace, ReviewPCs
    <2>3. status \notin {"approved", "rejected"}
      BY <2>1 DEF Open
    <2>4. status \in {"awaiting_review", "failed", "deleted"} \cup Busy
      BY <2>2, <2>3 DEF Told, Behind, HasDoc, DocStatuses
    <2> QED
      BY <2>1, <2>4 DEF Told, Behind, Busy
  <1>2. CASE OnRejected(s)
    <2>1. status' = "rejected" /\ doc' = "rejected"
      BY <1>2 DEF OnRejected, Hooked, Hooks, Outcome, MarkDoc
    <2> QED
      BY <2>1 DEF Told, Behind
  <1>3. CASE NotPromoted(s)
    <2>1. pc[s] = "hook" /\ status = "approved"
      BY <1>3 DEF NotPromoted, Hooked, Hooks, Outcome
    <2>2. \A u \in Sessions : pc[u] \notin EditPCs \cup DeletePCs \cup ResetPCs
      BY <2>1, Alone, Served DEF Lone, EditPCs, DeletePCs, ResetPCs
    <2>3. paths /\ text \in Texts /\ text = spans
      BY <2>1, <2>2 DEF ReviewIsBacked, Reviewable, Clean
    <2>4. NoFile \notin Texts
      BY RedactionsDistinct DEF NoFile, Texts
    <2> QED
      BY <1>3, <2>3, <2>4 DEF NotPromoted, Promotable
  <1>4. CASE SetReady(s)
    <2>1. status' = "approved" /\ doc' = "ready"
      BY <1>4 DEF SetReady, Move, Hooked, Hooks, Placed, Counts, Promoting, Outcome, MarkDoc
    <2> QED
      BY <2>1 DEF Told, Behind
  <1> QED
    BY <1>1, <1>2, <1>3, <1>4

LEMMA NextFollows ==
  ASSUME CInv, NoRace, Open, Follows, [CNext]_cvars
  PROVE  Follows'
  <1> USE DEF CInv, Kept, Backed, Owned
  <1> SUFFICES ASSUME Clean', HasDoc' PROVE Told'
    BY DEF Follows
  <1>1. Clean /\ (\A s \in Sessions : ~CDie(s))
    BY CleanSteps
  <1>2. CASE UNCHANGED cvars
    <2>1. UNCHANGED <<status, doc, pc, tagged>>
      BY <1>2 DEF cvars, vars
    <2> QED
      BY <1>1, <2>1 DEF Follows, Told, HasDoc, Busy
  <1>3. ASSUME NEW s \in Sessions, SubmitRaw(s) \/ Tag(s) \/ Register(s) PROVE Told'
    <2>1. status' = "pending"
      BY <1>3
      DEF SubmitRaw, CreateJob, Tag, Register, Move, vars, Placed, Counts, Uploading, Steady,
          CountsOn, Queued
    <2> QED
      BY <2>1 DEF Told, Busy
  <1>4. ASSUME NEW s \in Sessions, ReadJob(s) \/ AddSpans(s) \/ WriteArtefact(s) PROVE Told'
    <2>1. pc'[s] = "hook"
      BY <1>4 DEF ReadJob, AddSpans, WriteArtefact, Move, vars, Placed, Counts, Promoting
    <2> QED
      BY <2>1 DEF Told
  <1>5. ASSUME NEW s \in Sessions,
               BeginRemove(s) \/ DropSpans(s) \/ DropDocument(s) \/ Unlink(s)
        PROVE  Told'
    <2>1. UNCHANGED <<status, pc, tagged>>
      BY <1>5 DEF BeginRemove, DropSpans, DropDocument, Unlink, vars, DocUnchanged
    <2>2. UNCHANGED doc
      BY <1>5, <2>1 DEF BeginRemove, DropSpans, DropDocument, Unlink, DocUnchanged, MarkDoc,
                        HasDoc, DocStatuses
    <2> QED
      BY <1>1, <2>1, <2>2 DEF Follows, Told, HasDoc, Busy
  <1>6. ASSUME NEW s \in Sessions, JobRequest(s) \/ JobServe(s) \/ JobRun(s) PROVE Told'
    <2>1. HasDoc
      BY <1>6 DEF JobRequest, JobServe, JobRun, DocUnchanged, HasDoc
    <2> QED
      BY <1>1, <1>6, <2>1, JobTold DEF Follows, HasDoc
  <1>7. ASSUME NEW s \in Sessions,
               ProcessingDone(s) \/ OnRejected(s) \/ NotPromoted(s) \/ SetReady(s)
        PROVE  Told'
    <2>1. HasDoc
      BY <1>7 DEF ProcessingDone, OnRejected, NotPromoted, SetReady, DocUnchanged, MarkDoc, HasDoc
    <2> QED
      BY <1>1, <1>7, <2>1, HookTold DEF Follows
  <1> QED
    BY <1>1, <1>2, <1>3, <1>4, <1>5, <1>6, <1>7
    DEF CNext, COver, CRequest, CServe, CRun

LEMMA CFollowInvariant ==
  ASSUME Serial
  PROVE  CSpec => []CFollow
  <1>1. CInit => CFollow
    BY CInitInv DEF CFollow
  <1>2. CFollow /\ [CNext]_cvars => CFollow'
    BY NextCInv, NextInFlight, NextNoRace, NextOpen, NextFollows DEF CFollow
  <1> QED
    BY <1>1, <1>2, PTL DEF CSpec

\* When every request and task is done the document tells what the job is,
\* unless a session died or a decision overtook the hook of a run.
THEOREM DocumentsFollowTheirJobs ==
  ASSUME Serial
  PROVE  CSpec => []DocFollowsJob
  <1>1. CFollow => DocFollowsJob
    <2> SUFFICES ASSUME CFollow, AtRest, HasDoc, Clean PROVE status \in Behind(doc)
      BY DEF DocFollowsJob, Clean
    <2>1. \A s \in Sessions : pc[s] = "idle"
      BY DEF AtRest
    <2>2. status \notin Busy
      BY <2>1 DEF CFollow, InFlight, Clean, Queued, RunPCs
    <2> QED
      BY <2>1, <2>2 DEF CFollow, Follows, Told
  <1> QED
    BY CFollowInvariant, <1>1, PTL

================================================================================
