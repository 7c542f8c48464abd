----------------------------- MODULE MCMetrics -----------------------------
(***************************************************************************)
(* A small instance of Metrics for TLC: a tick is half a second, and the   *)
(* exchange's clock may be ahead of ours.                                  *)
(***************************************************************************)
EXTENDS Metrics

MCOffsets == {-1, 1, 4}
============================================================================
