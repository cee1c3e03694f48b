------------------------- MODULE MCInventoryLedger -------------------------
(***************************************************************************)
(* Values for InventoryLedger small enough for TLC: the inputs are one     *)
(* transaction for each branch of Effect that a race could tell apart.     *)
(***************************************************************************)
EXTENDS InventoryLedger, TLC

CONSTANTS l1, l2

Tx(type, qty, src, dst) == [type |-> type, qty |-> qty, src |-> src, dst |-> dst]

ReceiptAndTransfer ==
  { Tx("Receipt", 2, NoLocation, l1), Tx("Transfer", 1, l1, l2) }

ReceiptAndIssue ==
  { Tx("Receipt", 2, NoLocation, l1), Tx("Issue", 1, l1, NoLocation) }

RequestSymmetry == Permutations(Requests)

\* Inputs for every branch of the switch, accepted or not.
AllInputs == [type : TransactionTypes, qty : 0 .. 1, src : MaybeLocation,
              dst : MaybeLocation]

=============================================================================
