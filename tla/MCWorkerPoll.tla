----------------------------- MODULE MCWorkerPoll -----------------------------
(* Instances of WorkerPoll: the constants are given by the configurations. *)
EXTENDS WorkerPoll
=============================================================================
