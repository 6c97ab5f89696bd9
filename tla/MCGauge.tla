------------------------------ MODULE MCGauge ------------------------------
(* A small instance of Gauge for TLC. *)
EXTENDS Gauge

MCAmounts == {-1, 0, 1}
=============================================================================
