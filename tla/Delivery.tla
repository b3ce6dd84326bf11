------------------------------ MODULE Delivery ------------------------------
(***************************************************************************)
(* What sending a file once promises: SendFileStream (filestream.go), seen *)
(* from the caller and from the receiver's directory.                      *)
(*                                                                         *)
(* One call at a time.  The receiver stores what is sent at most once per  *)
(* call, perhaps only after the call has given up.  The call ends with one *)
(* of three outcomes: "ok", the receiver has stored it; "refused", it has  *)
(* not and will not; "unknown", an error that says nothing either way.     *)
(***************************************************************************)
EXTENDS Naturals

VARIABLES
    stored,   \* how often the receiver has stored what this call sends
    outcome   \* what the call has reported, "none" while it runs

vars == <<stored, outcome>>

Outcomes == {"none", "ok", "refused", "unknown"}

Init == stored = 0 /\ outcome = "none"

\* The receiver stores it, for a call that runs or has given up.
Store ==
    /\ stored = 0 /\ outcome \in {"none", "unknown"}
    /\ stored' = 1
    /\ UNCHANGED outcome

\* The call returns; the definite answers are true.
Report ==
    /\ outcome = "none"
    /\ outcome' \in Outcomes \ {"none"}
    /\ outcome' = "ok" => stored = 1
    /\ outcome' = "refused" => stored = 0
    /\ UNCHANGED stored

\* The next call, for the same content or other.
Again ==
    /\ outcome # "none"
    /\ stored' = 0 /\ outcome' = "none"

Next == Store \/ Report \/ Again

Spec == Init /\ [][Next]_vars
=============================================================================
