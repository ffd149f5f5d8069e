-------------------------- MODULE MCImportedDocument --------------------------
(* Model-checking instances of ImportedDocument. *)
EXTENDS ImportedDocument, TLC

CONSTANTS P, E, a, A, b, sp, odd, r1, r2

MCLower == [c \in {a, A} |-> a]
MCPlain == [c \in {a, A, b} |-> a]  \* b is an "a" with a mark

\* A marker or a digit, a value in two spellings, with white space in one, a
\* letter with a mark and a malformed token.
MCUploads == {<<P, 1, a>>, <<A, 1, a>>, <<a, sp, A>>, <<b, odd>>}
MCOtherValues == {<<A>>}

Alike == Permutations({r1, r2})
=============================================================================
