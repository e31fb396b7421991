---------------------------- MODULE MCAiDaemon ----------------------------
(* Small instances of AiDaemon for TLC. *)
EXTENDS AiDaemon, TLC

CONSTANTS c1, c2, w1, w2

\* Requests and worker threads are interchangeable.
Symm == Permutations({c1, c2}) \cup Permutations({w1, w2})
=============================================================================
