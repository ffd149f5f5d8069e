---------------------------- MODULE MCJobService ----------------------------
(* Model-checking instances of JobService. *)
EXTENDS JobService, TLC

CONSTANTS s1, s2, s3, r1, r2
=============================================================================
