--------------------------- MODULE MCVehicleSeats ---------------------------
(***************************************************************************)
(* VehicleSeats for TLC.  The players are interchangeable, the vehicles    *)
(* are not: their ids are numbers.                                         *)
(***************************************************************************)
EXTENDS VehicleSeats, TLC

Symmetry == Permutations(Players)
=============================================================================
