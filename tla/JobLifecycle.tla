----------------------------- MODULE JobLifecycle -----------------------------
(***************************************************************************)
(* What one job looks like from outside: its status, and the redactions    *)
(* the reviewer sees in its text.  No sessions, no rows, no files.         *)
(* JobService implements it as long as one request is served at a time     *)
(* (background runs overlap with requests freely).                         *)
(***************************************************************************)
CONSTANTS
  Redactions,  \* manual redactions a reviewer can make or revert
  Pipeline,    \* the redactions of the automatic pipeline, as one
  NoFile       \* there is no text to see

VARIABLES
  status,  \* of the job; "unborn" before the upload, "deleted" at the end
  shown    \* the redactions in the text under review

vars == <<status, shown>>

Reviewable == {"awaiting_review", "approved", "rejected"}

Init == status = "unborn" /\ shown = NoFile

Submit == status = "unborn" /\ status' = "pending" /\ UNCHANGED shown
Start == status = "pending" /\ status' = "processing" /\ UNCHANGED shown

\* A run ends in front of the reviewer, or fails.
Finish ==
  /\ status = "processing"
  /\ \/ status' = "awaiting_review" /\ shown' = {Pipeline}
     \/ status' = "failed" /\ UNCHANGED shown

Approve == status = "awaiting_review" /\ status' = "approved" /\ UNCHANGED shown
Reject == status = "awaiting_review" /\ status' = "rejected" /\ UNCHANGED shown
Unapprove == status = "approved" /\ status' = "awaiting_review" /\ UNCHANGED shown

\* One redaction at a time is added to the text or taken out of it.
Edit ==
  /\ status \in Reviewable
  /\ shown # NoFile
  /\ \/ \E r \in Redactions \ shown : shown' = shown \cup {r}
     \/ \E r \in shown : shown' = shown \ {r}
  /\ UNCHANGED status

\* The artefacts go before the job is reset.
Withdraw == status \in Reviewable /\ shown' = NoFile /\ UNCHANGED status

Reset ==
  /\ status \in Reviewable \cup {"failed"}
  /\ shown = NoFile
  /\ status' = "pending"
  /\ UNCHANGED shown

Delete ==
  /\ status \in Reviewable \cup {"failed"}
  /\ status' = "deleted"
  /\ shown' = NoFile

Next ==
  \/ Submit \/ Start \/ Finish \/ Approve \/ Reject \/ Unapprove
  \/ Edit \/ Withdraw \/ Reset \/ Delete

Spec == Init /\ [][Next]_vars

=============================================================================
