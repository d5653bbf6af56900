----------------------------- MODULE MCReviewDesk -----------------------------
(* Instances of ReviewDesk: the constants are given by the configurations. *)
EXTENDS ReviewDesk
=============================================================================
