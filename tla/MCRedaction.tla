------------------------------ MODULE MCRedaction ------------------------------
(* Model-checking instances of Redaction. *)
EXTENDS Redaction

CONSTANTS P, E, U, a, A, b, nl

\* "a", "A" and " A" are one value; 1 is also the index of a placeholder.
MCLower == [c \in {a, A} |-> a]
MCDocuments == {<< <<a, b>>, <<A>> >>, << <<a, b, b>> >>, << <<a, 1>> >>,
                << <<a, nl, A>> >>}

\* t.lower().split(): from each place where a word begins, up to white space.
Words(t) ==
  LET solid == {i \in DOMAIN t : t[i] \notin White}
      begins == Ascending({i \in solid : i - 1 \notin solid})
      until(i) == Min({k \in i .. Len(t) : k + 1 \notin solid})
  IN  [n \in DOMAIN begins |->
         [k \in 1 .. (until(begins[n]) - begins[n] + 1) |->
            LET c == t[begins[n] + k - 1] IN IF c \in DOMAIN Lower THEN Lower[c] ELSE c]]

\* Two texts have one key exactly if they have the same words.
ASSUME KeysAreWords ==
  LET some == UNION {[1 .. n -> {a, A, b, nl}] : n \in 0 .. 4}
  IN  \A t, u \in some : Key(t) = Key(u) <=> Words(t) = Words(u)

\* Once a redaction cut into a placeholder, nothing is claimed of positions.
Undamaged == "active" \notin hit
=============================================================================
