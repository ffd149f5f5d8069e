------------------------------ MODULE Redaction ------------------------------
(***************************************************************************)
(* The text of one job: what the Redactor and the pipeline make of a       *)
(* document (src/anonymizer/redactor.py, pipeline.py), and how the         *)
(* reviewer's edits change the redacted text and the positions of its      *)
(* spans (apply_manual_redaction() and revert_span() in jobs/service.py).  *)
(* Texts, placeholders and find-and-replace are those of TextEdits.        *)
(***************************************************************************)
EXTENDS TextEdits

CONSTANTS
  Documents,  \* documents that may be uploaded, sequences of blocks of text
  Types,      \* the entity types in the policy
  Unlisted,   \* an entity type that is not in the policy
  Separator,  \* what stands between two blocks
  MaxFound,   \* bound: spans that the detectors report in a block
  MaxEdits    \* bound: manual redactions

ASSUME UnlistedIsNoType == Unlisted \notin Types
ASSUME SeparatorIsWhite == Separator \in White
ASSUME DocumentsAreTexts ==
         \A blocks \in Documents : IsText(blocks) /\ \A b \in DOMAIN blocks : IsText(blocks[b])

VARIABLES
  document,  \* the text of the upload
  text,      \* redacted.txt
  spans,     \* spans.json
  edits,     \* how often the reviewer redacted something
  hit        \* history: which spans a manual redaction cut into

vars == <<document, text, spans, edits, hit>>

----------------------------------------------------------------------------
(* Blocks *)

\* Texts joined by the separator, and where each begins.
Join(blocks) ==
  FlattenSeq([b \in 1 .. Len(blocks) |->
                IF b = 1 THEN blocks[b] ELSE <<Separator>> \o blocks[b]])
Offset(blocks, b) == SumUpTo(b - 1, [c \in DOMAIN blocks |-> Len(blocks[c]) + 1])

----------------------------------------------------------------------------
(* The Redactor and the pipeline *)

\* What the detectors may report of the blocks.  Of two spans on one interval
\* the first counts, so there is at most one.
Reports(blocks) ==
  LET longest == Max({Len(blocks[b]) : b \in DOMAIN blocks})
      all == {s \in [start : 0 .. longest, end : 0 .. longest, type : Types \cup {Unlisted}] :
                s.start < s.end}
      lists == {ToSet(l) : l \in UNION {[1 .. k -> all] : k \in 0 .. MaxFound}}
      clean == {r \in lists : \A s, u \in r : s.start = u.start /\ s.end = u.end => s = u}
  IN  {reports \in [DOMAIN blocks -> clean] :
         \A b \in DOMAIN blocks : \A s \in reports[b] : s.end <= Len(blocks[b])}

\* Overlapping spans are dropped from left to right, the wider one first where
\* they begin together; an unlisted type is skipped only after that.
Resolve(report) ==
  LET widest == [p \in {s.start : s \in report} |->
                   Max({s.end : s \in {u \in report : u.start = p}})]
  IN  {s \in report : /\ s.start \in Leftmost(widest)
                      /\ s.end = widest[s.start]
                      /\ s.type \in Types}

\* The spans of all blocks, and in the order of the document.
Detected(blocks, reports) ==
  UNION {{[block |-> b, start |-> s.start, end |-> s.end, type |-> s.type,
           original |-> Slice(blocks[b], s.start, s.end)] : s \in Resolve(reports[b])}
           : b \in 1 .. Len(blocks)}
Precedes(x, y) == x.block < y.block \/ (x.block = y.block /\ x.start < y.start)
Found(blocks, reports) == InOrder(Detected(blocks, reports), Precedes)

\* Wrong on purpose: a new Redactor for each block.
Index_PerBlock(found, i) ==
  LET same == {j \in 1 .. i : found[j].type = found[i].type /\ found[j].block = found[i].block}
      first == Min({j \in same : Key(found[j].original) = Key(found[i].original)})
  IN  Cardinality({Key(found[j].original) : j \in {k \in same : k <= first}})

\* A value has the number of different values of its type up to its first one.
Index(found, i) ==
  LET same == {j \in 1 .. i : found[j].type = found[i].type}
      first == Min({j \in same : Key(found[j].original) = Key(found[i].original)})
  IN  Cardinality({Key(found[j].original) : j \in {k \in same : k <= first}})

Replacement(found, i) == Placeholder(found[i].type, Index(found, i))

RedactBlock(blocks, found, b) ==
  Splice(blocks[b], {[start |-> found[i].start, end |-> found[i].end, with |-> Replacement(found, i)]
                       : i \in {j \in DOMAIN found : found[j].block = b}})

\* How much longer than the original the replacement of a span is.
Growth(found, j) == Len(Replacement(found, j)) - (found[j].end - found[j].start)

\* Wrong on purpose: the running sum begins anew in each block.
Shift_PerBlock(found, i) ==
  SumUpTo(i - 1, [j \in DOMAIN found |->
                    IF found[j].block = found[i].block THEN Growth(found, j) ELSE 0])

\* How far the replacements before span i move it.
Shift(found, i) == SumUpTo(i - 1, [j \in DOMAIN found |-> Growth(found, j)])

PipelineSpan(blocks, found, i) ==
  LET start == Offset(blocks, found[i].block) + found[i].start + Shift(found, i)
  IN  [type |-> found[i].type, original |-> found[i].original,
       replacement |-> Replacement(found, i),
       start |-> start, end |-> start + Len(Replacement(found, i)),
       manual |-> FALSE, reverted |-> FALSE]

\* The pipeline has run and the job is in review.
Init ==
  \E blocks \in Documents :
    /\ document = Join(blocks)
    /\ \E reports \in Reports(blocks) :
         LET found == Found(blocks, reports)
         IN  /\ text = Join([b \in 1 .. Len(blocks) |-> RedactBlock(blocks, found, b)])
             /\ spans = [i \in 1 .. Len(found) |-> PipelineSpan(blocks, found, i)]
    /\ edits = 0 /\ hit = {}

----------------------------------------------------------------------------
(* apply_manual_redaction() *)

\* Wrong on purpose: manual placeholders are counted by themselves.
ManualPlaceholder_Counting(type, f) ==
  LET known == {i \in DOMAIN spans : /\ spans[i].manual /\ spans[i].type = type
                                     /\ Key(spans[i].original) = Key(f)}
      taken == {spans[i].replacement : i \in {j \in DOMAIN spans : spans[j].manual /\ spans[j].type = type}}
  IN  IF known # {} THEN spans[Min(known)].replacement
      ELSE Placeholder(type, 1 + Cardinality(taken))

\* The placeholder of the same manual value, or the next free one.
ManualPlaceholder(type, f) ==
  LET known == {i \in DOMAIN spans : /\ spans[i].manual /\ spans[i].type = type
                                     /\ Key(spans[i].original) = Key(f)}
      taken == {n \in 1 .. Len(spans) : \E i \in DOMAIN spans :
                  spans[i].type = type /\ spans[i].replacement = Placeholder(type, n)}
  IN  IF known # {} THEN spans[Min(known)].replacement
      ELSE Placeholder(type, 1 + Max({0} \cup taken))

Active == {i \in DOMAIN spans : ~spans[i].reverted}

\* The interval [p, q) and a span share a character.
Cuts(p, q, s) == p < s.end /\ s.start < q

Move(s, d) == [s EXCEPT !.start = @ + d, !.end = @ + d]

\* Every occurrence of the fragment is replaced, wherever it is.
Redact(f, type) ==
  LET found == Occurrences(text, f)
      order == Ascending(found)
      r == ManualPlaceholder(type, f)
      grow == Len(r) - Len(f)
      Before(s) == {p \in found : p + Len(f) <= s.start}
      cut == {i \in DOMAIN spans : \E p \in found : Cuts(p, p + Len(f), spans[i])}
  IN  /\ found # {} /\ edits < MaxEdits
      /\ text' = Substitute(text, f, r)
      /\ spans' = [i \in DOMAIN spans |-> Move(spans[i], grow * Cardinality(Before(spans[i])))]
           \o [k \in 1 .. Len(order) |->
                 LET start == order[k] + (k - 1) * grow
                 IN  [type |-> type, original |-> f, replacement |-> r,
                      start |-> start, end |-> start + Len(r),
                      manual |-> TRUE, reverted |-> FALSE]]
      /\ hit' = hit \cup {IF i \in Active THEN "active" ELSE "reverted" : i \in cut}
      /\ edits' = edits + 1
      /\ UNCHANGED document

----------------------------------------------------------------------------
(* revert_span() *)

\* Wrong on purpose: the other spans stay where they were.
Revert_Alone(i) ==
  /\ i \in Active
  /\ text' = Slice(text, 0, spans[i].start) \o spans[i].original
               \o Slice(text, spans[i].end, Len(text))
  /\ spans' = [spans EXCEPT ![i].reverted = TRUE,
                            ![i].end = spans[i].start + Len(spans[i].original)]
  /\ UNCHANGED <<document, edits, hit>>

\* The original is put back, and what begins behind it moves.
Revert(i) ==
  /\ i \in Active
  /\ LET s == spans[i]
         grow == Len(s.original) - (s.end - s.start)
     IN  /\ text' = Slice(text, 0, s.start) \o s.original \o Slice(text, s.end, Len(text))
         /\ spans' = [j \in DOMAIN spans |->
              IF j = i THEN [s EXCEPT !.reverted = TRUE, !.end = s.start + Len(s.original)]
              ELSE IF spans[j].start >= s.end THEN Move(spans[j], grow) ELSE spans[j]]
  /\ UNCHANGED <<document, edits, hit>>

----------------------------------------------------------------------------
(* restore_processed_text(), of a text that came back as it was sent *)

\* One value for each placeholder, that of its first span; each is replaced.
Restored ==
  LET firsts == {i \in Active : \A j \in Active : spans[j].replacement = spans[i].replacement => i <= j}
      order == Ascending(firsts)
  IN  ReplacedInTurn(text, [k \in 1 .. Len(order) |-> spans[order[k]].replacement],
                           [k \in 1 .. Len(order) |-> spans[order[k]].original])

----------------------------------------------------------------------------
(* What the reviewer may select: anything but white space. *)
Fragments ==
  {f \in {Slice(text, p, q) : p, q \in 0 .. Len(text)} : ~(ToSet(f) \subseteq White)}

Next ==
  \/ \E f \in Fragments, type \in Types : Redact(f, type)
  \/ \E i \in DOMAIN spans : Revert(i)

Spec == Init /\ [][Next]_vars

----------------------------------------------------------------------------
(* Properties *)

\* After any sequence of edits the positions of a span are those of its
\* placeholder, and of its original once it is reverted, unless a manual
\* redaction cut into such a span.
HighlightsAligned ==
  \A i \in DOMAIN spans :
    LET s == spans[i]
        there == Slice(text, s.start, s.end)
    IN  IF s.reverted THEN hit = {} => there = s.original
        ELSE "active" \notin hit => there = s.replacement

\* No character of the document is lost, doubled or moved: with the originals
\* in the places of the spans in force, the redacted text is the document.
DocumentIsRecoverable ==
  "active" \in hit \/
  document = Splice(text, {[start |-> spans[i].start, end |-> spans[i].end,
                            with |-> spans[i].original] : i \in Active})

\* A reversible job gets the letters of its document back from its own text,
\* all of them and in order.  Case and white space may change: every spelling
\* of a value has the same placeholder, and all come back as the first one.
RestoresTheLetters == "active" \in hit \/ Letters(Restored) = Letters(document)

\* A placeholder stands for one value, whoever made it.
OneValuePerPlaceholder ==
  \A i, j \in DOMAIN spans :
    spans[i].replacement = spans[j].replacement =>
      Key(spans[i].original) = Key(spans[j].original)

\* A manual redaction leaves no copy of its fragment in the clear.
NoClearCopyLeft ==
  [][Len(spans') > Len(spans) =>
       LET f == spans'[Len(spans')].original
       IN  \A p \in Matches(text', f) : \E i \in DOMAIN spans' :
             ~spans'[i].reverted /\ Cuts(p, p + Len(f), spans'[i])]_vars

=============================================================================
