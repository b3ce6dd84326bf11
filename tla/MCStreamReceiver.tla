-------------------------- MODULE MCStreamReceiver --------------------------
(* Small instances of StreamReceiver for TLC. *)
EXTENDS StreamReceiver, TLC

\* Connections, claims and inodes are interchangeable.
Symmetry == Permutations(Conns) \cup Permutations(Claims) \cup Permutations(Inodes)
=============================================================================
