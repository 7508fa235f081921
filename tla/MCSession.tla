------------------------------ MODULE MCSession ------------------------------
(* Session on small instances: one client, every behaviour of its peers. *)
EXTENDS SessionInvariants

\* The behaviours the run about FATAL errors needs.
Fatal == {"password", "fatal"}
=============================================================================
