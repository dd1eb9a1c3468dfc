------------------------------ MODULE MCRates ------------------------------
(* Instances of Rates for TLC.                                             *)
EXTENDS Rates

CONSTANTS sda, sdb, md0

(* No device at the start, one, or one with another stacked on it. *)
AtStart == {{}, {sda}, {sda, md0}}

Mishaps == [m \in Modules |-> IF m = "network" THEN 1 ELSE 2]
=============================================================================
