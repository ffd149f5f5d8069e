--------------------------- MODULE MCMarkerResolver ---------------------------
(* Model-checking instances of MarkerResolver. *)
EXTENDS MarkerResolver, TLC

CONSTANTS q1, q2, q3, ana, rui, email

\* Two persons share a label; an e-mail address has another.
Labels == ana :> "PESSOA" @@ rui :> "PESSOA" @@ email :> "EMAIL"

AnyRequest == Permutations(Requests)
=============================================================================
