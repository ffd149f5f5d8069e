-------------------------- MODULE DetectorComparison --------------------------
(***************************************************************************)
(* The comparison of two detectors on a job's document                     *)
(* (anonymizer/detector_comparison.py, run_detector_comparison() in        *)
(* jobs/service.py), with what goes on beside it: the runtime settings its *)
(* regex side reads block by block (settings_store.py), and the deletion   *)
(* or reprocessing of the job.  The augmented client that the pipeline     *)
(* uses is here too, as the comparison's regex side mirrors it.            *)
(*                                                                         *)
(* What a detector finds in a text is an input: a list of spans.  A step   *)
(* is a detection, one candidate of the pairing, a commit or a file write. *)
(***************************************************************************)
EXTENDS Integers, FiniteSets, SequencesExt

CONSTANTS
  Kinds,       \* ALL_KINDS
  Specific,    \* the kinds with check digits: cpf and cnpj
  Blocks,      \* how many blocks the document has: some (the report on none is empty)
  OPFLists,    \* for each block, the lists the OPF side may give ...
  RegexLists,  \* ... and those the regular expressions may give
  NotLoaded,   \* the cache before the settings are read
  Unreadable   \* no settings file, or a corrupt one

ASSUME SpecificAreKinds == Specific \subseteq Kinds
ASSUME BlocksIsPositive == Blocks \in Nat \ {0}
ASSUME ListsAreSequences ==
         \A b \in 1 .. Blocks : \A list \in RegexLists[b] : list \in Seq(ToSet(list))
ASSUME NoSettings == \A K \in SUBSET Kinds : K # NotLoaded /\ K # Unreadable

VARIABLES
  job,       \* the job's row: "reviewable", "processing" or "gone"
  source,    \* the upload is in quarantine
  report,    \* detector_comparison.json: whether it is there, and its items
  cache,     \* SettingsStore._cache
  stored,    \* the settings file
  told,      \* history: the settings last acknowledged by PUT /settings
  refused,   \* history: a later PUT could not write the file
  pc,        \* where the comparison is
  block,     \* the block it is at
  opf,       \* for each block, the spans of the OPF side ...
  raw,       \* ... what the regular expressions match ...
  regex,     \* ... and what is left of it
  kinds,     \* history: the settings read for each block
  left,      \* candidates of this block still to come
  pairs,     \* for each block, the pairs made
  items,     \* the items of the blocks compared
  deleting,  \* delete(): "no", "rows" removed and not the files, "dead" there
  reset,     \* reset_for_reprocess(): "no", or the step it is before
  kept,      \* comparison_payload: the report as it was found
  newest,    \* history: the last report written
  clobbered  \* history: a report was written, or the server stopped, in a reset

jobVars == <<job, source, report, deleting, reset, kept, newest, clobbered>>
settingsVars == <<cache, stored, told, refused>>
runVars == <<pc, block, opf, raw, regex, kinds, left, pairs, items>>
vars == <<jobVars, settingsVars, runVars>>

Absent == [there |-> FALSE, items |-> {}]

\* build_comparison_report(): its counts and its order follow from the items.
Report(I) == [there |-> TRUE, items |-> I]

----------------------------------------------------------------------------
(* Spans: compare_spans() *)

Min2(x, y) == IF x < y THEN x ELSE y
Max2(x, y) == IF x > y THEN x ELSE y

\* Two spans share Shared of the Span characters they reach over.
Shared(s, u) == Max2(0, Min2(s.end, u.end) - Max2(s.start, u.start))
Reach(s, u) == Max2(s.end, u.end) - Min2(s.start, u.start)

\* overlap_ratio >= percent / 100
AtLeast(s, u, percent) == 100 * Shared(s, u) >= percent * Reach(s, u)

\* The candidates: pairs of indices whose overlap is PARTIAL_OVERLAP_THRESHOLD.
Candidates(o, r) ==
  {c \in (1 .. Len(o)) \X (1 .. Len(r)) : AtLeast(o[c[1]], r[c[2]], 30)}

\* Ratios are compared by cross multiplication.
Ratio(o, r, c) == [shared |-> Shared(o[c[1]], r[c[2]]), reach |-> Reach(o[c[1]], r[c[2]])]
Less(x, y) == x.shared * y.reach < y.shared * x.reach

\* c is worse than d.
Worse(o, r, c, d) == Less(Ratio(o, r, c), Ratio(o, r, d))

\* The order of the candidates: the highest ratio first, then by the indices.
Before(o, r, c, d) ==
  /\ ~Worse(o, r, c, d)
  /\ Worse(o, r, d, c) \/ c[1] < d[1] \/ (c[1] = d[1] /\ c[2] < d[2])

\* One of the spans of c is in a pair of made that is at least as good.
Blocked(o, r, c, made) ==
  \E d \in made : (c[1] = d[1] \/ c[2] = d[2]) /\ ~Worse(o, r, d, c)

Status(s, u) ==
  IF ~AtLeast(s, u, 90) THEN "partial_overlap"
  ELSE IF s.type = u.type THEN "both" ELSE "type_conflict"

\* A span that has no partner is an item of its own; index 0 is no span.
Items(b, o, r, matched) ==
  {[block |-> b, opf |-> c[1], regex |-> c[2], status |-> Status(o[c[1]], r[c[2]])] : c \in matched}
  \cup {[block |-> b, opf |-> i, regex |-> 0, status |-> "opf_only"] :
          i \in {k \in 1 .. Len(o) : \A c \in matched : c[1] # k}}
  \cup {[block |-> b, opf |-> 0, regex |-> j, status |-> "regex_only"] :
          j \in {k \in 1 .. Len(r) : \A c \in matched : c[2] # k}}

----------------------------------------------------------------------------
(* The clients: RegexOnlyClient and the augmented one *)

Overlap(s, u) == s.end > u.start /\ s.start < u.end

\* The spans of a list at the indices I.
Kept(list, I) == FlattenSeq([i \in 1 .. Len(list) |-> IF i \in I THEN <<list[i]>> ELSE <<>>])

\* Wrong on purpose (see README, "Mutants"): the settings do not count.
RegexOnly_Unfiltered(list, enabled) == list

RegexOnly(list, enabled) == Kept(list, {i \in DOMAIN list : list[i].type \in enabled})

\* A span that overlaps a CPF or CNPJ yields to it.
Override(list) ==
  LET specific == {i \in DOMAIN list : list[i].type \in Specific}
      yields == {i \in DOMAIN list \ specific : \E j \in specific : Overlap(list[i], list[j])}
  IN  Kept(list, DOMAIN list \ yields)

Composite(base, list) == base \o list

\* Base and regular expressions together; the settings come after that.
Augmented(base, list, enabled) ==
  LET all == Override(Composite(base, list))
  IN  Kept(all, {i \in DOMAIN all : all[i].type \in enabled})

----------------------------------------------------------------------------
(* Settings *)

\* What get() returns, and has in its cache afterwards.
Enabled ==
  IF cache # NotLoaded THEN cache
  ELSE IF stored # Unreadable THEN stored ELSE Kinds

\* Wrong on purpose: only the cache is replaced.
Update_CacheOnly(K) ==
  /\ cache' = K /\ told' = K /\ refused' = FALSE
  /\ UNCHANGED <<stored, jobVars, runVars>>

\* PUT /settings: the cache, then the file; writing it may fail half-way.
Update(K) ==
  /\ cache' = K
  /\ \/ stored' = K /\ told' = K /\ refused' = FALSE
     \/ stored' \in {stored, Unreadable} /\ refused' = TRUE /\ UNCHANGED told
  /\ UNCHANGED <<jobVars, runVars>>

----------------------------------------------------------------------------
Idle == pc = "idle"

NoLists == [b \in 1 .. Blocks |-> <<>>]
NoPairs == [b \in 1 .. Blocks |-> {}]
AllKinds == [b \in 1 .. Blocks |-> Kinds]

Init ==
  /\ job = "reviewable" /\ source = TRUE /\ report = Absent /\ deleting = "no"
  /\ reset = "no" /\ kept = Absent /\ newest = Absent /\ clobbered = FALSE
  /\ cache = NotLoaded /\ stored = Unreadable /\ told = Kinds /\ refused = FALSE
  /\ pc = "idle" /\ block = 1
  /\ opf = NoLists /\ raw = NoLists /\ regex = NoLists /\ kinds = AllKinds
  /\ left = {} /\ pairs = NoPairs /\ items = {}

----------------------------------------------------------------------------
(* run_detector_comparison() *)

\* A job that is not being processed, with its upload; the text is extracted.
Begin ==
  /\ Idle /\ job = "reviewable" /\ source
  /\ pc' = "detecting" /\ block' = 1
  /\ UNCHANGED <<jobVars, settingsVars, opf, raw, regex, kinds, left, pairs, items>>

DetectOPF ==
  /\ pc = "detecting"
  /\ \E list \in OPFLists[block] : opf' = [opf EXCEPT ![block] = list]
  /\ pc' = "matching"
  /\ UNCHANGED <<jobVars, settingsVars, block, raw, regex, kinds, left, pairs, items>>

\* The settings are those of this moment.
DetectRegex ==
  /\ pc = "matching"
  /\ cache' = Enabled
  /\ \E list \in RegexLists[block] :
       /\ raw' = [raw EXCEPT ![block] = list]
       /\ regex' = [regex EXCEPT ![block] = RegexOnly(list, Enabled)]
       /\ left' = Candidates(opf[block], RegexOnly(list, Enabled))
  /\ kinds' = [kinds EXCEPT ![block] = Enabled]
  /\ pc' = "pairing"
  /\ UNCHANGED <<jobVars, stored, told, refused, block, opf, pairs, items>>

\* c is the next candidate.
First(c) == \A d \in left \ {c} : Before(opf[block], regex[block], c, d)

\* Neither of its spans has a partner.
Free(c) == \A p \in pairs[block] : p[1] # c[1] /\ p[2] # c[2]

\* Wrong on purpose: the candidates are taken in the order of the lists.
Pair_InListOrder ==
  \E c \in left :
    /\ pc = "pairing" /\ \A d \in left : c[1] < d[1] \/ (c[1] = d[1] /\ c[2] <= d[2])
    /\ pairs' = [pairs EXCEPT ![block] = @ \cup (IF Free(c) THEN {c} ELSE {})]
    /\ left' = left \ {c}
    /\ UNCHANGED <<jobVars, settingsVars, pc, block, opf, raw, regex, kinds, items>>

Pair ==
  \E c \in left :
    /\ pc = "pairing" /\ First(c)
    /\ pairs' = [pairs EXCEPT ![block] = @ \cup (IF Free(c) THEN {c} ELSE {})]
    /\ left' = left \ {c}
    /\ UNCHANGED <<jobVars, settingsVars, pc, block, opf, raw, regex, kinds, items>>

FinishBlock ==
  /\ pc = "pairing" /\ left = {}
  /\ items' = items \cup Items(block, opf[block], regex[block], pairs[block])
  /\ IF block < Blocks THEN pc' = "detecting" /\ block' = block + 1
                       ELSE pc' = "writing" /\ UNCHANGED block
  /\ UNCHANGED <<jobVars, settingsVars, opf, raw, regex, kinds, left, pairs>>

Forget ==
  /\ pc' = "idle" /\ block' = 1
  /\ opf' = NoLists /\ raw' = NoLists /\ regex' = NoLists /\ kinds' = AllKinds
  /\ left' = {} /\ pairs' = NoPairs /\ items' = {}

\* The output directory is made if it is not there, and the report written.
WriteReport ==
  /\ pc = "writing"
  /\ report' = Report(items) /\ newest' = report'
  /\ clobbered' = (clobbered \/ reset # "no")
  /\ Forget
  /\ UNCHANGED <<job, source, deleting, reset, kept, settingsVars>>

\* The worker dies under a detection: HTTP 500.
DetectFails ==
  /\ pc = "detecting"
  /\ Forget
  /\ UNCHANGED <<jobVars, settingsVars>>

----------------------------------------------------------------------------
(* What happens beside it *)

\* Wrong on purpose: the report is not looked at.
BeginReset_KeepingNothing ==
  /\ job = "reviewable" /\ reset = "no" /\ deleting = "no"
  /\ kept' = Absent /\ reset' = "wipe"
  /\ UNCHANGED <<job, source, report, deleting, newest, clobbered, settingsVars, runVars>>

\* reset_for_reprocess(): the report is read, ...
BeginReset ==
  /\ job = "reviewable" /\ reset = "no" /\ deleting = "no"
  /\ kept' = report /\ reset' = "wipe"
  /\ UNCHANGED <<job, source, report, deleting, newest, clobbered, settingsVars, runVars>>

\* ... the output directory emptied, ...
WipeOutputs ==
  /\ reset = "wipe"
  /\ report' = Absent /\ reset' = "write"
  /\ UNCHANGED <<job, source, deleting, kept, newest, clobbered, settingsVars, runVars>>

\* ... the report written again, ...
PutBack ==
  /\ reset = "write"
  /\ report' = IF kept.there THEN kept ELSE report
  /\ kept' = Absent /\ reset' = "row"
  /\ UNCHANGED <<job, source, deleting, newest, clobbered, settingsVars, runVars>>

\* ... and the row made pending; the run comes next.
ResetRow ==
  /\ reset = "row"
  /\ job' = "processing" /\ reset' = "no"
  /\ UNCHANGED <<source, report, deleting, kept, newest, clobbered, settingsVars, runVars>>

\* It ends in review, or failed: both may be compared.
FinishRun ==
  /\ job = "processing" /\ job' = "reviewable"
  /\ UNCHANGED <<source, report, deleting, reset, kept, newest, clobbered, settingsVars, runVars>>

\* delete(): the rows, ...
DeleteRows ==
  /\ job = "reviewable" /\ reset = "no"
  /\ job' = "gone" /\ deleting' = "rows"
  /\ UNCHANGED <<source, report, reset, kept, newest, clobbered, settingsVars, runVars>>

\* ... then upload and output directory.
DeleteFiles ==
  /\ deleting = "rows"
  /\ source' = FALSE /\ report' = Absent /\ newest' = Absent /\ deleting' = "no"
  /\ UNCHANGED <<job, reset, kept, clobbered, settingsVars, runVars>>

\* The server is started again: what only its memory held is gone.
Restart ==
  /\ cache' = NotLoaded
  /\ deleting' = IF deleting = "rows" THEN "dead" ELSE deleting
  /\ reset' = "no" /\ kept' = Absent /\ clobbered' = (clobbered \/ reset # "no")
  /\ Forget
  /\ UNCHANGED <<job, source, report, newest, stored, told, refused>>

Next ==
  \/ Begin \/ DetectOPF \/ DetectRegex \/ Pair \/ FinishBlock \/ WriteReport \/ DetectFails
  \/ \E K \in SUBSET Kinds : Update(K)
  \/ BeginReset \/ WipeOutputs \/ PutBack \/ ResetRow \/ FinishRun
  \/ DeleteRows \/ DeleteFiles \/ Restart

Spec == Init /\ [][Next]_vars

----------------------------------------------------------------------------
(* Properties *)

\* The pairing of a finished block is a stable matching: no span is in two
\* pairs, and two spans that overlap enough and are not paired with each other
\* have one of them in a pair that overlaps at least as much.
PairingIsStable ==
  pc = "pairing" /\ left = {} =>
    LET o == opf[block]  r == regex[block]  made == pairs[block]
    IN  /\ made \subseteq Candidates(o, r)
        /\ \A c, d \in made : c[1] = d[1] \/ c[2] = d[2] => c = d
        /\ \A c \in Candidates(o, r) \ made : Blocked(o, r, c, made)

\* The regex side shows all that the pipeline would find without OPF, and
\* nothing more but spans that overlap a CPF or CNPJ (regex_only_client.py:11:
\* it "reflects what the real pipeline would see if OPF were silent").
RegexSideShowsThePipeline ==
  \A b \in 1 .. Blocks :
    LET shown == ToSet(regex[b])
        found == ToSet(Augmented(<<>>, raw[b], kinds[b]))
    IN  /\ found \subseteq shown
        /\ \A s \in shown \ found : \E u \in ToSet(raw[b]) : u.type \in Specific /\ Overlap(s, u)

\* The report that GET returns is the last one made, through any number of
\* reruns of the job, unless it was written, or the server stopped, while a
\* rerun had its copy.
NewestReportStays == reset = "no" /\ ~clobbered => report = newest

\* What PUT /settings acknowledged is in force, after restarts too, until
\* another PUT; after one that failed nothing is claimed.
AcknowledgedSettingsSurvive == refused \/ Enabled = told

\* The docstring of delete() (jobs/service.py:1049): it permanently removes a
\* job, "DB rows + quarantined upload + outputs".
DeletedLeavesNoText == job = "gone" /\ deleting = "no" => ~source /\ ~report.there
=============================================================================
