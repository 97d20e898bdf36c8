--------------------------- MODULE MCInventoryRun ---------------------------
(* An inventory run for TLC. *)
EXTENDS InventoryRun
=============================================================================
