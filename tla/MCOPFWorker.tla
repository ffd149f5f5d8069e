---------------------------- MODULE MCOPFWorker ----------------------------
(* Model-checking instance of OPFWorker. *)
EXTENDS OPFWorker

CONSTANTS c1, c2

\* One caller sends a long text and then a short one, the other short ones.
LongTexts == {<<c1, 1>>}
=============================================================================
