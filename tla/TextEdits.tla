------------------------------- MODULE TextEdits -------------------------------
(***************************************************************************)
(* Texts and their edits, as the Python code makes them: slices, find and  *)
(* replace, values that count as the same.                                 *)
(*                                                                         *)
(* A text is a sequence of characters; positions count from 0.  Every      *)
(* entity type has the strategy "indexed", as in policies/default.yaml: a  *)
(* placeholder is its type's label and an index, here two characters: the  *)
(* type and a number.  A document may contain such characters by itself.   *)
(***************************************************************************)
EXTENDS Integers, SequencesExt

CONSTANTS
  Lower,  \* the lower-case form of the letters that have one
  White   \* the characters that are white space

\* A text is a sequence of whatever characters it has.
IsText(t) == t \in Seq(ToSet(t))

Placeholder(type, n) == <<type, n>>

\* t[from:to]
Slice(t, from, to) == SubSeq(t, from + 1, Min({to, Len(t)}))

\* The characters of t that are no white space, in their form (Lower, say).
LettersBy(t, form) ==
  FlattenSeq([i \in 1 .. Len(t) |->
    IF t[i] \in White THEN <<>>
    ELSE IF t[i] \in DOMAIN form THEN <<form[t[i]]>> ELSE <<t[i]>>])

\* Those letters, and where white space stands between two of them: two texts
\* have one key if they have the same words.
KeyBy(t, form) ==
  LET letters == LettersBy(t, form)
      blanks == {i \in 1 .. Len(t) : t[i] \in White}
  IN  [letters |-> letters,
       breaks |-> {Len(LettersBy(SubSeq(t, 1, i), form)) : i \in blanks} \ {0, Len(letters)}]

Letters(t) == LettersBy(t, Lower)

\* Values that differ in case and in the amount of white space count as the
\* same: " ".join(t.lower().split()).
Key(t) == KeyBy(t, Lower)

\* Of the intervals [p, ends[p]), those that a scan from the left takes when
\* it skips what begins before the end of one taken.
Leftmost(ends) ==
  LET taken[p \in DOMAIN ends] ==
        \A q \in DOMAIN ends : q < p /\ taken[q] => ends[q] <= p
  IN  {p \in DOMAIN ends : taken[p]}

\* The text with each interval [e.start, e.end) replaced by e.with.
Splice(t, changes) ==
  FlattenSeq([i \in 1 .. Len(t) |->
    LET here == {e \in changes : e.start < i /\ i <= e.end}
    IN  IF here = {} THEN <<t[i]>>
        ELSE LET e == CHOOSE e \in here : TRUE
             IN  IF e.start = i - 1 THEN e.with ELSE <<>>])

\* A finite set as a sequence: the k-th element has k - 1 before it.
InOrder(S, Before(_, _)) ==
  [k \in 1 .. Cardinality(S) |-> CHOOSE x \in S : Cardinality({y \in S : Before(y, x)}) = k - 1]

Ascending(S) == InOrder(S, <)

\* g[1] + ... + g[n]
SumUpTo(n, g) ==
  LET sum[i \in 0 .. n] == IF i = 0 THEN 0 ELSE sum[i - 1] + g[i]
  IN  sum[n]

Matches(t, f) == {p \in 0 .. (Len(t) - Len(f)) : Slice(t, p, p + Len(f)) = f}

\* Wrong on purpose (see README, "Mutants"): only the first one is replaced.
Occurrences_First(t, f) == LET m == Matches(t, f) IN IF m = {} THEN {} ELSE {Min(m)}

\* Where t.find() and t.replace() find f.
Occurrences(t, f) == Leftmost([p \in Matches(t, f) |-> p + Len(f)])

Substitute(t, f, r) ==
  Splice(t, {[start |-> p, end |-> p + Len(f), with |-> r] : p \in Occurrences(t, f)})

\* t after each value of r has been replaced by the one of o, in turn.
ReplacedInTurn(t, r, o) ==
  LET after[k \in 0 .. Len(r)] == IF k = 0 THEN t ELSE Substitute(after[k - 1], r[k], o[k])
  IN  after[Len(r)]

=============================================================================
