--------------------------- MODULE MCContainerReview ---------------------------
(* Model-checking instances of ContainerReview. *)
EXTENDS ContainerReview, TLC

CONSTANTS s1, s2, s3, r1
=============================================================================
