------------------------- MODULE MCDetectorComparison -------------------------
(* Model-checking instances of DetectorComparison. *)
EXTENDS DetectorComparison

CONSTANTS cpf, phone

\* Overlaps of 0, 1/6, 3/10, 1/3, 4/10, 4/9, 8/10, 9/10 and 1.
Intervals == {<<0, 10>>, <<0, 9>>, <<1, 10>>, <<0, 4>>, <<3, 6>>}

SpansOf(K) == {[start |-> i[1], end |-> i[2], type |-> k] : i \in Intervals, k \in K}
Lists(S, n) == UNION {[1 .. k -> S] : k \in 0 .. n}

\* In the first block any two lists; in the second few, for what the blocks
\* have in common: the report, the settings, the end.
MCOPFLists == <<Lists(SpansOf({phone}), 2), {<<>>}>>
MCRegexLists == <<Lists(SpansOf({cpf, phone}), 2), {<<[start |-> 0, end |-> 4, type |-> cpf]>>}>>

\* Bounds.  All other lists than these are compared while nothing else goes
\* on, up to the report; and either the settings change or the job does.
Everyday ==
  /\ opf[1] \in {<<>>, <<[start |-> 0, end |-> 9, type |-> phone]>>}
  /\ raw[1] \in {<<>>, <<[start |-> 0, end |-> 10, type |-> phone]>>}
SettingsQuiet == stored = Unreadable /\ cache \in {NotLoaded, Kinds} /\ ~refused
JobQuiet == job = "reviewable" /\ reset = "no" /\ deleting = "no"
EverydayOrQuiet ==
  \/ Everyday /\ (SettingsQuiet \/ JobQuiet)
  \/ SettingsQuiet /\ JobQuiet /\ newest = Absent /\ pc # "writing"
=============================================================================
