------------------------- MODULE MCInventoryAlerts -------------------------
(* Values for InventoryAlerts small enough for TLC. *)
EXTENDS InventoryAlerts

=============================================================================
