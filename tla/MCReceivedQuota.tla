-------------------------- MODULE MCReceivedQuota --------------------------
(* Instances of ReceivedQuota for TLC. *)
EXTENDS ReceivedQuota, TLC

Symmetry == Permutations(Streams)
=============================================================================
