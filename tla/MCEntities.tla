----------------------------- MODULE MCEntities -----------------------------
(* Instances of Entities for TLC.  All constants are numbers and sets of   *)
(* numbers, which the configurations give directly.                        *)
EXTENDS Entities

=============================================================================
