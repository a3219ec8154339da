------------------------------ MODULE MCServer ------------------------------
(* Instances of Server for TLC. *)
EXTENDS Server, TLC

\* Threads run the same code, and sessions differ only by their traffic.
Symmetry == Permutations(Thread) \cup Permutations(Session)
=============================================================================
