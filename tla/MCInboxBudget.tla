--------------------------- MODULE MCInboxBudget ---------------------------
(* Instances of InboxBudget for TLC. *)
EXTENDS InboxBudget, TLC

Symmetry == Permutations(Writers) \cup Permutations(Files)
=============================================================================
