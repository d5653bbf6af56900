------------------------ MODULE MCPublicationOutbox ------------------------
(* An instance of PublicationOutbox: the constants are given by the configuration. *)
EXTENDS PublicationOutbox
=============================================================================
