-------------------------- MODULE MCVacuumGripper --------------------------
(***************************************************************************)
(* A product the cup can carry, another one, and one too heavy for it.     *)
(***************************************************************************)
EXTENDS VacuumGripper

CONSTANTS carton, bar, crate

MCProducts == {carton, bar, crate}
MCHeavy == {crate}
=============================================================================
