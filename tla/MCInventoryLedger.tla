-------------------------- MODULE MCInventoryLedger --------------------------
(***************************************************************************)
(* Small instances of InventoryLedger for TLC.  east and west are one      *)
(* untracked stock key in two warehouses that a route joins both ways; tag *)
(* is a serial number of the same product, in the bin of west.             *)
(***************************************************************************)
EXTENDS InventoryLedger, TLC

CONSTANTS east, west, tag

MCRoute == {<<east, west>>, <<west, east>>}

\* Untracked, owned, sellable stock: a shipment's line names the reserved position.
MCIssuedAsReserved == [p \in Position |-> p]

\* post_shipment writes no serial on its line, so the unit leaves untracked stock.
MCIssuedAsUntracked == [p \in Position |-> IF p = tag THEN west ELSE p]

KeySymmetry == Permutations(Key)

=============================================================================
