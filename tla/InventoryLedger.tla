-------------------------- MODULE InventoryLedger --------------------------
(***************************************************************************)
(* The inventory ledger (inventory_transactions), the projection derived   *)
(* from it (inventory_projections) and the requests that write both.       *)
(*                                                                         *)
(* None of these requests opens a database transaction: every repository   *)
(* statement commits on its own, and between two of them (at every await)  *)
(* another request may run.  A request is therefore a process that takes   *)
(* one statement per step:                                                 *)
(*                                                                         *)
(*   - InventoryTransactionsService.create checks that the component is    *)
(*     not retired, then inserts the transaction;                          *)
(*   - InventoryProjectionsService.rebuild reads the whole ledger once,    *)
(*     computes every (component, location) pair it mentions, and saves    *)
(*     the results one at a time, each save being a select followed by an  *)
(*     update or an insert;                                                *)
(*   - a component or a location may be deleted, which the foreign keys    *)
(*     answer by cascading or by clearing columns.                         *)
(***************************************************************************)
EXTENDS LedgerArithmetic, FiniteSets

CONSTANTS
  Components,   \* ids of the rows of the components table
  Requests,     \* concurrent API requests
  Inputs,       \* transactions a caller may ask create() to record
  MaxLedger,    \* bound: transactions recorded per component
  NoRow         \* no inventory_projections row for the pair

ASSUME InventoryLedgerAssumption ==
  /\ \A t \in Inputs : t \in Transaction
  /\ NoRow \notin Int
  /\ MaxLedger \in Nat

VARIABLES
  component,    \* component[c]: "usable", "consolidated" or "deleted"
  location,     \* the locations that exist
  ledger,       \* ledger[c]: the transactions of c in insertion order
  projection,   \* projection[c][l]: the stored quantity, or NoRow
  pc,           \* pc[r]: what request r does next
  work,         \* work[r]: its local variables
  history       \* what the properties need to know of the past

vars == <<component, location, ledger, projection, pc, work, history>>

Pairs == Components \X Locations

Nothing == [input |-> <<>>, doomed |-> NoLocation,
            snapshot |-> [c \in Components |-> <<>>],
            todo |-> {}, pair |-> <<>>, found |-> FALSE]

(* history.alone: the rebuilds under way that no other rebuild has overlapped, *)
(*   no insertion has overtaken and no lost connection has cut short;          *)
(* history.current: the same, overlapping rebuilds allowed;                    *)
(* history.caughtUp: a rebuild ended in history.current, and no transaction    *)
(*   was inserted since.                                                       *)
History == [alone : SUBSET Requests, current : SUBSET Requests,
            caughtUp : BOOLEAN]

-----------------------------------------------------------------------------
(* What the properties speak about. *)

Live == {c \in Components : component[c] # "deleted"}

\* The first n transactions recorded for c.
Prefix(c, n) == SubSeq(ledger[c], 1, n)

\* The row a rebuild of the whole ledger alone would leave for c at l.
Exact(c, l) ==
  projection[c][l] = IF l \in TouchedByLedger(ledger[c])
                     THEN OnHand(ledger[c], l)
                     ELSE NoRow

Rebuilding(r) == pc[r] \in {"choose", "find", "write"}

-----------------------------------------------------------------------------

Init ==
  /\ component = [c \in Components |-> "usable"]
  /\ location = Locations
  /\ ledger = [c \in Components |-> <<>>]
  /\ projection = [c \in Components |-> [l \in Locations |-> NoRow]]
  /\ pc = [r \in Requests |-> "idle"]
  /\ work = [r \in Requests |-> Nothing]
  /\ history = [alone |-> {}, current |-> {}, caughtUp |-> FALSE]

\* r no longer counts as a rebuild that went well.
Without(r) == [history EXCEPT !.alone = @ \ {r}, !.current = @ \ {r}]

Goto(r, label) == pc' = [pc EXCEPT ![r] = label]

Finish(r) ==
  /\ Goto(r, "idle")
  /\ work' = [work EXCEPT ![r] = Nothing]

-----------------------------------------------------------------------------
(* Recording a transaction. *)

\* create(): the lifecycle guard reads the component (a missing one passes),
\* and the aggregate validates the input.  A refusal changes nothing.
BeginCreate(r, c, t) ==
  /\ pc[r] = "idle"
  /\ component[c] # "consolidated"
  /\ Accepted(t)
  /\ Goto(r, "insert")
  /\ work' = [work EXCEPT ![r] = [Nothing EXCEPT !.input = <<c, t>>]]
  /\ UNCHANGED <<component, location, ledger, projection, history>>

\* repository.save: the foreign keys hold for the component and locations.
InsertTransaction(r) ==
  /\ pc[r] = "insert"
  /\ LET c == work[r].input[1]
         t == work[r].input[2]
     IN  /\ component[c] # "deleted"
         /\ TouchedBy(t) \subseteq location
         /\ Len(ledger[c]) < MaxLedger
         /\ ledger' = [ledger EXCEPT ![c] = Append(@, t)]
  /\ Finish(r)
  /\ history' = [alone |-> {}, current |-> {}, caughtUp |-> FALSE]
  /\ UNCHANGED <<component, location, projection>>

-----------------------------------------------------------------------------
(* Rebuilding the projections. *)

\* Mutation: only destination locations are collected.
MentionedPairs_DestinationsOnly(entries) ==
  UNION {{c} \X ({entries[c][i].dst : i \in 1 .. Len(entries[c])} \ {NoLocation})
           : c \in Components}

\* The (component, location) pairs a ledger mentions.
MentionedPairs(entries) ==
  UNION {{c} \X TouchedByLedger(entries[c]) : c \in Components}

\* transactionRepository.findMany(): one statement, one snapshot.
BeginRebuild(r) ==
  /\ pc[r] = "idle"
  /\ Goto(r, "choose")
  /\ work' = [work EXCEPT ![r] =
       [Nothing EXCEPT
          !.snapshot = ledger,
          !.todo = MentionedPairs(ledger)]]
  /\ history' = [history EXCEPT
                   !.alone = IF \E q \in Requests : Rebuilding(q) THEN {} ELSE {r},
                   !.current = @ \cup {r}]
  /\ UNCHANGED <<component, location, ledger, projection>>

\* The loop takes the next pair; the order is that of a Set of strings.
NextPair(r, p) ==
  /\ pc[r] = "choose"
  /\ p \in work[r].todo
  /\ Goto(r, "find")
  /\ work' = [work EXCEPT ![r].pair = p, ![r].todo = @ \ {p}]
  /\ UNCHANGED <<component, location, ledger, projection, history>>

\* save(): look for the row of the pair.
FindRow(r) ==
  /\ pc[r] = "find"
  /\ LET p == work[r].pair
     IN  work' = [work EXCEPT ![r].found = projection[p[1]][p[2]] # NoRow]
  /\ Goto(r, "write")
  /\ UNCHANGED <<component, location, ledger, projection, history>>

\* Whether the statement that follows the look-up succeeds: an update needs
\* the row still there; an insert needs it still absent (unique index) and
\* both foreign keys to hold.
CanWrite(r) ==
  LET c == work[r].pair[1]
      l == work[r].pair[2]
  IN  IF work[r].found
      THEN projection[c][l] # NoRow
      ELSE /\ projection[c][l] = NoRow
           /\ component[c] # "deleted"
           /\ l \in location

\* Mutation: the computed quantity is added to the stored one.
WriteRow_Accumulates(r) ==
  /\ pc[r] = "write"
  /\ CanWrite(r)
  /\ LET c == work[r].pair[1]
         l == work[r].pair[2]
         old == IF projection[c][l] = NoRow THEN 0 ELSE projection[c][l]
     IN  projection' = [projection EXCEPT
                          ![c][l] = old + OnHand(work[r].snapshot[c], l)]
  /\ Goto(r, "choose")
  /\ UNCHANGED <<component, location, ledger, work, history>>

\* save(): update or insert the quantity computed from the snapshot.
WriteRow(r) ==
  /\ pc[r] = "write"
  /\ CanWrite(r)
  /\ LET c == work[r].pair[1]
         l == work[r].pair[2]
     IN  projection' = [projection EXCEPT
                          ![c][l] = OnHand(work[r].snapshot[c], l)]
  /\ Goto(r, "choose")
  /\ UNCHANGED <<component, location, ledger, work, history>>

\* A save that throws is logged by the catch in the loop, which goes on: the
\* constraint that refused it, or a failing connection.
SwallowFailure(r) ==
  /\ pc[r] \in {"find", "write"}
  /\ Goto(r, "choose")
  /\ history' = IF pc[r] = "write" /\ ~CanWrite(r) THEN history ELSE Without(r)
  /\ UNCHANGED <<component, location, ledger, projection, work>>

EndRebuild(r) ==
  /\ pc[r] = "choose"
  /\ work[r].todo = {}
  /\ Finish(r)
  /\ history' = [Without(r) EXCEPT !.caughtUp = @ \/ r \in history.current]
  /\ UNCHANGED <<component, location, ledger, projection>>

\* A request dies: the process stops, or create() fails on a foreign key.
Abort(r) ==
  /\ pc[r] # "idle"
  /\ Finish(r)
  /\ history' = Without(r)
  /\ UNCHANGED <<component, location, ledger, projection>>

-----------------------------------------------------------------------------
(* The rest of the system, as far as the ledger sees it. *)

\* Consolidation retires a component in a transaction of its own.
Retire(c) ==
  /\ component[c] = "usable"
  /\ component' = [component EXCEPT ![c] = "consolidated"]
  /\ UNCHANGED <<location, ledger, projection, pc, work, history>>

\* DeleteComponent refuses a consolidated component; the foreign keys of the
\* ledger and of the projections cascade. The check and the delete are two
\* statements, and one step here: a consolidation in between has inserted a
\* consolidation_sources row, whose key restricts the delete, so that a
\* component that can be deleted was usable when it was checked.
DeleteComponent(c) ==
  /\ component[c] = "usable"
  /\ component' = [component EXCEPT ![c] = "deleted"]
  /\ ledger' = [ledger EXCEPT ![c] = <<>>]
  /\ projection' = [projection EXCEPT ![c] = [l \in Locations |-> NoRow]]
  /\ UNCHANGED <<location, pc, work, history>>

\* DeleteLocation: isInUse looks, of the tables modelled here, at the
\* projections and not at the ledger.
BeginDeleteLocation(r, l) ==
  /\ pc[r] = "idle"
  /\ l \in location
  /\ \A c \in Components : projection[c][l] = NoRow
  /\ Goto(r, "detach")
  /\ work' = [work EXCEPT ![r] = [Nothing EXCEPT !.doomed = l]]
  /\ UNCHANGED <<component, location, ledger, projection, history>>

\* Then the row goes: projections cascade, ledger columns are set to NULL.
RemoveLocation(r) ==
  /\ pc[r] = "detach"
  /\ LET l == work[r].doomed
     IN  /\ location' = location \ {l}
         /\ ledger' = [c \in Components |->
                [i \in 1 .. Len(ledger[c]) |-> Detached(ledger[c][i], l)]]
         /\ projection' = [c \in Components |->
                [projection[c] EXCEPT ![l] = NoRow]]
  /\ Finish(r)
  /\ UNCHANGED <<component, history>>

-----------------------------------------------------------------------------

Next ==
  \/ \E r \in Requests :
       \/ \E c \in Components, t \in Inputs : BeginCreate(r, c, t)
       \/ InsertTransaction(r)
       \/ BeginRebuild(r)
       \/ \E p \in Pairs : NextPair(r, p)
       \/ FindRow(r)
       \/ WriteRow(r)
       \/ SwallowFailure(r)
       \/ EndRebuild(r)
       \/ Abort(r)
       \/ \E l \in Locations : BeginDeleteLocation(r, l)
       \/ RemoveLocation(r)
  \/ \E c \in Components : Retire(c) \/ DeleteComponent(c)

Spec == Init /\ [][Next]_vars

-----------------------------------------------------------------------------
(* Properties. *)

Work ==
  [ input : {<<>>} \cup (Components \X Inputs),
    doomed : MaybeLocation,
    snapshot : [Components -> Seq(Transaction)],
    todo : SUBSET Pairs,
    pair : {<<>>} \cup Pairs,
    found : BOOLEAN ]

TypeOK ==
  /\ component \in [Components -> {"usable", "consolidated", "deleted"}]
  /\ location \in SUBSET Locations
  /\ ledger \in [Components -> Seq(Transaction)]
  /\ projection \in [Components -> [Locations -> Int \cup {NoRow}]]
  /\ pc \in [Requests -> {"idle", "insert", "choose", "find", "write", "detach"}]
  /\ work \in [Requests -> Work]
  /\ history \in History

\* Whatever rebuilds overlap, die or lose their saves, a stored quantity is
\* the balance the component really had at that location after some number of
\* recorded transactions: possibly old, never a mixture.  (The snapshot of
\* RebuildInventoryProjections is one statement, and each pair is computed
\* from it alone.)
ProjectionIsSomePastBalance ==
  \A c \in Live, l \in location :
    projection[c][l] # NoRow =>
      \E n \in 1 .. Len(ledger[c]) :
        /\ l \in TouchedByLedger(Prefix(c, n))
        /\ projection[c][l] = OnHand(Prefix(c, n), l)

\* A rebuild that no other rebuild overlapped, no insertion overtook and no
\* lost connection cut short leaves every row equal to the balance of the
\* whole ledger, and no row where the ledger never went.  (What the services
\* that call rebuild() after posting rely on.)
UndisturbedRebuildIsExact ==
  \A r \in history.alone :
    pc[r] = "choose" /\ work[r].todo = {} =>
      \A c \in Live, l \in location : Exact(c, l)

\* Deleting a location clears columns of recorded transactions, and deleting
\* a component empties its ledger; neither changes what any recorded
\* transaction means for a location and a component that still exist.
SurvivingHistoryKeepsItsMeaning ==
  [][\A c \in Components : component'[c] # "deleted" =>
       /\ Len(ledger'[c]) >= Len(ledger[c])
       /\ \A i \in 1 .. Len(ledger[c]), l \in location' :
            Effect(ledger'[c][i], l) = Effect(ledger[c][i], l)]_vars

-----------------------------------------------------------------------------
(* Statements of the documentation that the code does not keep. *)

\* RFC-0004: "Projection updates must faithfully represent the Inventory
\* Ledger."  Once a rebuild that read the whole ledger has saved every pair
\* and no rebuild is under way, the projections should be the ledger's.
CaughtUpProjectionIsExact ==
  history.caughtUp /\ (\A r \in Requests : ~Rebuilding(r)) =>
    \A c \in Live, l \in location : Exact(c, l)

=============================================================================
