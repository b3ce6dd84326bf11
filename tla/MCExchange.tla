----------------------------- MODULE MCExchange -----------------------------
(***************************************************************************)
(* Exchange for TLC: two connections and two calls, so that a retry can    *)
(* overtake what an earlier call left with its handler.                    *)
(***************************************************************************)
EXTENDS Exchange
=============================================================================
