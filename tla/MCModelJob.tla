------------------------------ MODULE MCModelJob ------------------------------
(* Instances of ModelJob: the constants are given by the configurations. *)
EXTENDS ModelJob
=============================================================================
