---------------------------- MODULE MCVoxelSync ----------------------------
(***************************************************************************)
(* VoxelSync for TLC.  Clients, cells and materials are interchangeable.   *)
(***************************************************************************)
EXTENDS VoxelSync, TLC

Symmetry == Permutations(Clients) \cup Permutations(Cells)
=============================================================================
