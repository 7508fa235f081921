------------------------------- MODULE MCProxy -------------------------------
(* Proxy on small instances. *)
EXTENDS Proxy, TLC

Symmetry == Permutations(Sessions) \cup Permutations(Workers)

\* Two clients that may leave while an answer is underway, in one segment or two.
Two == {"impatient", "split"}

\* One client and every behaviour of its peers but a FATAL error, after which the
\* session polls the server's socket for ever (MCSession, Session_fatal.cfg).
One == {"ssl", "password", "norole", "split", "splitAuth", "reject", "reset", "impatient",
        "noserver", "long"}
=============================================================================
