------------------------- MODULE LedgerArithmetic -------------------------
(***************************************************************************)
(* The inventory ledger as data: what an inventory transaction is, when    *)
(* the aggregate accepts it, and how CalculateInventoryProjection folds a  *)
(* component's transactions into the quantity on hand at one location.     *)
(*                                                                         *)
(* Everything here is a constant-level definition: the modules with state  *)
(* (InventoryLedger and the document modules) are built on it.             *)
(*                                                                         *)
(* Abstraction: a transaction keeps its type, quantity and locations.  Its *)
(* component is the index of the ledger it is stored in; the unit of       *)
(* measure, reference, reason and actor do not influence a quantity.       *)
(***************************************************************************)
EXTENDS Integers, Sequences

CONSTANTS
  Locations,    \* ids of the rows of the locations table
  NoLocation    \* an absent (NULL) source or destination location

ASSUME NoLocationAssumption == NoLocation \notin Locations

-----------------------------------------------------------------------------

TransactionTypes ==
  { "Receipt", "Issue", "Transfer", "Adjustment", "Return",
    "Consumption", "Production", "ManualCorrection", "InitialStock" }

MaybeLocation == Locations \cup {NoLocation}

\* The fields of InventoryTransaction that matter to a quantity.
Transaction ==
  [ type : TransactionTypes,
    qty  : Int,
    src  : MaybeLocation,
    dst  : MaybeLocation ]

\* InventoryTransaction.create throws unless this holds.  Return, Consumption,
\* Production, ManualCorrection and InitialStock have no location rule.
Accepted(t) ==
  /\ t.type \in TransactionTypes
  /\ t.qty > 0
  /\ t.type = "Receipt" => t.src = NoLocation
  /\ t.type = "Issue" => t.dst = NoLocation
  /\ t.type = "Transfer" => /\ t.src # NoLocation
                            /\ t.dst # NoLocation
                            /\ t.src # t.dst
  /\ t.type = "Adjustment" => t.src # NoLocation \/ t.dst # NoLocation

\* Mutation: an absent location counts as a location.
TouchedBy_NullIsALocation(t) == {t.src, t.dst}

\* The locations a transaction mentions: the pairs a rebuild collects.
TouchedBy(t) == {t.src, t.dst} \ {NoLocation}

Decreases == {"Issue", "Consumption"}

\* Whether the switch subtracts the quantity at location l: a type that only
\* takes, or a transfer out of l.  Every other type adds, the two corrections
\* whichever of their locations l is.
TakesFrom(t, l) == t.type \in Decreases \/ (t.type = "Transfer" /\ t.src = l)

\* What one transaction adds to the quantity at location l.
Effect(t, l) ==
  IF l \notin TouchedBy(t) THEN 0
  ELSE IF TakesFrom(t, l) THEN -t.qty ELSE t.qty

\* The running total of a sequence of integers.
Total(s) ==
  LET sum[i \in 0 .. Len(s)] == IF i = 0 THEN 0 ELSE sum[i - 1] + s[i]
  IN  sum[Len(s)]

EffectsAt(ledger, l) == [i \in 1 .. Len(ledger) |-> Effect(ledger[i], l)]

\* CalculateInventoryProjection: the quantity on hand at l after a ledger.
OnHand(ledger, l) == Total(EffectsAt(ledger, l))

\* The locations some transaction of a ledger mentions.
TouchedByLedger(ledger) ==
  UNION { TouchedBy(ledger[i]) : i \in 1 .. Len(ledger) }

\* Mutation: deleting either location clears both columns.
Detached_ClearsBoth(t, l) ==
  IF l \in {t.src, t.dst}
  THEN [t EXCEPT !.src = NoLocation, !.dst = NoLocation]
  ELSE t

\* ON DELETE SET NULL on the two location columns of inventory_transactions:
\* what deleting location l leaves of a transaction.
Detached(t, l) ==
  [t EXCEPT !.src = IF @ = l THEN NoLocation ELSE @,
            !.dst = IF @ = l THEN NoLocation ELSE @]

=============================================================================
