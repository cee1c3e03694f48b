-------------------------- MODULE ProductionOrders --------------------------
(***************************************************************************)
(* One production order (work order), the finished goods receipts against  *)
(* it, and the requests of ProductionOrdersService and of                  *)
(* FinishedGoodsService.post that work on it.                              *)
(*                                                                         *)
(* A run, a scrap or a completion selects the order, decides on the copy,  *)
(* issues the materials of the bill one by one, receives the goods, issues *)
(* the scrap, rebuilds all projections, and only then saves the row.       *)
(* Posting a finished goods receipt ends in the same select and save, to   *)
(* add up what the order has made.  Every statement commits on its own.    *)
(*                                                                         *)
(* Abstraction: a unit takes one of each material; the lines and the trace *)
(* rows of a receipt are those of PostingDocument, here a receipt has one  *)
(* line, which makes one unit and scraps one.  Dates, notes and priority   *)
(* are left out; so is MATERIAL_ALLOCATED, which nothing sets.             *)
(***************************************************************************)
EXTENDS Integers, Sequences, FiniteSets

CONSTANTS
  Requests,     \* concurrent API requests
  Bill,         \* the materials on the lines of the bill of materials
  Receipts,     \* ids that finished goods receipts may be given
  NoOrder,      \* no row in production_orders
  Plans,        \* values of quantityPlanned that callers ask for
  Outputs,      \* values of producedQuantity, at least 1
  Scraps,       \* values of scrappedQuantity, among them 0
  MaxStarts     \* bound: requests started

Materials == {Bill[i] : i \in DOMAIN Bill}

\* A bill of materials refuses a second line of one component.
ASSUME BillAssumption ==
  /\ Bill \in Seq(Materials)
  /\ \A i, j \in DOMAIN Bill : Bill[i] = Bill[j] => i = j
  /\ Materials \cap {"made", "scrapped"} = {}

ASSUME QuantityAssumption ==
  Plans \subseteq Nat /\ Outputs \subseteq Nat \ {0} /\ Scraps \subseteq Nat

VARIABLES
  order,        \* the row of production_orders, or NoOrder
  receipt,      \* receipt[f]: status of the row of f, or "none"
  ledger,       \* what has been posted: see Ledger
  pc,           \* pc[r]: the next statement of request r
  copy,         \* copy[r]: its operation and what it has loaded
  history       \* what the properties need to know of the past

vars == <<order, receipt, ledger, pc, copy, history>>

Statuses == {"DRAFT", "RELEASED", "IN_PROGRESS", "COMPLETED", "CLOSED", "CANCELLED"}

\* located: locationId is set; without it nothing is posted.
Orders == [status : Statuses, planned : Nat, completed : Nat, scrapped : Nat,
           located : BOOLEAN]

ASSUME NoOrderAssumption == NoOrder \notin Orders \cup Receipts

\* Units issued of each material, received by runs, received by finished goods
\* receipts, and issued as scrap.
Ledger == [issued : [Materials -> Nat], made : Nat, finished : Nat, scrapped : Nat]

Operations == {"update", "release", "start", "output", "scrap", "pause", "resume",
               "complete", "close", "cancel", "delete"}

-----------------------------------------------------------------------------

New(planned, located) ==
  [status |-> "DRAFT", planned |-> planned, completed |-> 0, scrapped |-> 0,
   located |-> located]

Idle == [op |-> "none", order |-> NoOrder, todo |-> <<>>, receipt |-> NoOrder]

(* unbooked: an order has been counted up, or set, by something else than   *)
(* what was posted for it.  The other flags are those of WarehouseTransfer. *)
Init ==
  /\ order \in {NoOrder} \cup
       {[New(planned, located) EXCEPT !.status = status] :
          planned \in Plans, located \in BOOLEAN,
          status \in {"DRAFT", "RELEASED", "IN_PROGRESS", "CANCELLED"}}
  /\ receipt \in [Receipts -> {"none"} \cup IF order = NoOrder THEN {} ELSE {"DRAFT"}]
  /\ ledger = [issued |-> [m \in Materials |-> 0], made |-> 0, finished |-> 0,
               scrapped |-> 0]
  /\ pc = [r \in Requests |-> "idle"]
  /\ copy = [r \in Requests |-> Idle]
  /\ history = [current |-> {}, stale |-> FALSE, cut |-> FALSE,
                unbooked |-> FALSE, started |-> 0]

Quiet == \A r \in Requests : pc[r] = "idle"

Goto(r, label) == pc' = [pc EXCEPT ![r] = label]

Done(r) == Goto(r, "idle") /\ copy' = [copy EXCEPT ![r] = Idle]

Started(r) ==
  /\ history.started < MaxStarts
  /\ history' = [history EXCEPT !.current = @ \cup {r}, !.started = @ + 1]

\* r writes the order: the copies of the others are no longer current.
Writing(r) ==
  history' = [history EXCEPT !.current = @ \cap {r},
                             !.stale = @ \/ r \notin history.current]

-----------------------------------------------------------------------------
(* Creating and loading. *)

Create(r) ==
  /\ pc[r] = "idle"
  /\ order = NoOrder
  /\ history.started = 0
  /\ \E planned \in Plans, located \in BOOLEAN :
       copy' = [copy EXCEPT ![r] = [Idle EXCEPT !.order = New(planned, located)]]
  /\ Goto(r, "save")
  /\ Started(r)
  /\ UNCHANGED <<order, receipt, ledger>>

Load(r, op) ==
  /\ pc[r] = "idle"
  /\ order # NoOrder
  /\ copy' = [copy EXCEPT ![r] = [Idle EXCEPT !.op = op, !.order = order]]
  /\ Goto(r, "decide")
  /\ Started(r)
  /\ UNCHANGED <<order, receipt, ledger>>

-----------------------------------------------------------------------------
(* Operations on the copy. *)

Deciding(r, op) == pc[r] = "decide" /\ copy[r].op = op

\* The copy becomes "result"; "postings" are made before it is saved.
Then(r, result, postings) ==
  /\ copy' = [copy EXCEPT ![r].order = result, ![r].todo = postings]
  /\ Goto(r, IF postings = <<>> THEN "save" ELSE "post")
  /\ UNCHANGED <<order, receipt, ledger>>

\* ... and counts what the postings book.
Booking(booked) == history' = [history EXCEPT !.unbooked = @ \/ ~booked]

Quietly(r, result) == Then(r, result, <<>>) /\ UNCHANGED history

Update(r) ==
  /\ Deciding(r, "update")
  /\ copy[r].order.status = "DRAFT"
  /\ \E planned \in Plans, located \in BOOLEAN :
       Quietly(r, [copy[r].order EXCEPT !.planned = planned, !.located = located])

\* A change of status and nothing else.
Advance(r, op, from, to) ==
  /\ Deciding(r, op)
  /\ copy[r].order.status \in from
  /\ Quietly(r, [copy[r].order EXCEPT !.status = to])

Release(r) == Advance(r, "release", {"DRAFT"}, "RELEASED")
Start(r) == Advance(r, "start", {"DRAFT", "RELEASED"}, "IN_PROGRESS")
Close(r) == Advance(r, "close", {"COMPLETED"}, "CLOSED")
Cancel(r) == Advance(r, "cancel", {"DRAFT", "RELEASED", "IN_PROGRESS"}, "CANCELLED")

\* Pausing saves the row as it is; resuming asks nothing.
Pause(r) == Advance(r, "pause", {"IN_PROGRESS"}, "IN_PROGRESS")
Resume(r) == Advance(r, "resume", Statuses, "IN_PROGRESS")

Posting(what, quantity) == [what |-> what, quantity |-> quantity]

\* Mutation: the goods are received before their materials are issued.
Run_GoodsFirst(quantity) ==
  <<Posting("made", quantity)>> \o [i \in DOMAIN Bill |-> Posting(Bill[i], quantity)]

\* What a run of this quantity posts, in order.
Run(quantity) ==
  [i \in DOMAIN Bill |-> Posting(Bill[i], quantity)] \o <<Posting("made", quantity)>>

\* Mutation: no scrap is posted, too, as a quantity of zero.
ScrapOf_Always(quantity) == <<Posting("scrapped", quantity)>>

ScrapOf(quantity) ==
  IF quantity > 0 THEN <<Posting("scrapped", quantity)>> ELSE <<>>

\* recordOutput()
Counted(o, made, scrapped) ==
  [o EXCEPT !.completed = @ + made, !.scrapped = @ + scrapped,
            !.status = IF o.completed + made >= o.planned
                       THEN "COMPLETED" ELSE "IN_PROGRESS"]

\* addCompletedQuantity()
Added(o, made, scrapped) ==
  [o EXCEPT !.completed = @ + made, !.scrapped = @ + scrapped]

RecordOutput(r) ==
  LET o == copy[r].order IN
  /\ Deciding(r, "output")
  /\ o.status \in {"DRAFT", "RELEASED", "IN_PROGRESS"}
  /\ \E made \in Outputs, scrapped \in Scraps :
       Then(r, Counted(o, made, scrapped),
            IF o.located THEN Run(made) \o ScrapOf(scrapped) ELSE <<>>)
  /\ Booking(o.located)

RecordScrap(r) ==
  LET o == copy[r].order IN
  /\ Deciding(r, "scrap")
  /\ o.status \notin {"COMPLETED", "CANCELLED"}
  /\ \E scrapped \in Scraps \ {0} :
       Then(r, Added(o, 0, scrapped), IF o.located THEN ScrapOf(scrapped) ELSE <<>>)
  /\ Booking(o.located)

Rest(o) == IF o.planned > o.completed THEN o.planned - o.completed ELSE 0

\* Mutation: whatever the order has made, all that is planned is made again.
Complete_Whole(r) ==
  LET o == copy[r].order IN
  /\ Deciding(r, "complete")
  /\ o.status # "COMPLETED"
  /\ Then(r, [o EXCEPT !.status = "COMPLETED", !.completed = o.planned],
          IF o.located THEN Run(o.planned) ELSE <<>>)
  /\ Booking(o.located)

\* The rest is made, or the quantity the caller names; the order has then
\* completed what was planned, whatever was made.
Complete(r) ==
  LET o == copy[r].order IN
  /\ Deciding(r, "complete")
  /\ o.status # "COMPLETED"
  /\ \E made \in Outputs \cup {Rest(o)} :
       /\ Then(r, [o EXCEPT !.status = "COMPLETED", !.completed = o.planned],
               IF made > 0 /\ o.located THEN Run(made) ELSE <<>>)
       /\ Booking((o.located \/ made = 0) /\ o.completed + made = o.planned)

\* A DRAFT without finished goods receipts (they reference it).
Delete(r) ==
  /\ Deciding(r, "delete")
  /\ copy[r].order.status = "DRAFT"
  /\ \A f \in Receipts : receipt[f] = "none"
  /\ order' = NoOrder
  /\ Done(r)
  /\ Writing(r)
  /\ UNCHANGED <<receipt, ledger>>

\* start() of an order in progress and complete() of a completed one return.
Return(r) ==
  /\ \/ Deciding(r, "start") /\ copy[r].order.status = "IN_PROGRESS"
     \/ Deciding(r, "complete") /\ copy[r].order.status = "COMPLETED"
  /\ Done(r)
  /\ UNCHANGED <<order, receipt, ledger, history>>

-----------------------------------------------------------------------------
(* Posting and saving. *)

Booked(posting) ==
  IF posting.what \in Materials
  THEN [ledger EXCEPT !.issued[posting.what] = @ + posting.quantity]
  ELSE [ledger EXCEPT ![posting.what] = @ + posting.quantity]

\* The next posting of a run or of scrap.
Post(r) ==
  LET rest == Tail(copy[r].todo) IN
  /\ pc[r] = "post"
  /\ ledger' = Booked(Head(copy[r].todo))
  /\ copy' = [copy EXCEPT ![r].todo = rest]
  /\ Goto(r, IF rest = <<>> THEN "save" ELSE "post")
  /\ history' = [history EXCEPT !.stale = @ \/ r \notin history.current]
  /\ UNCHANGED <<order, receipt>>

\* save(): all columns, and an insert when the row is gone.
Save(r) ==
  /\ pc[r] = "save"
  /\ order' = copy[r].order
  /\ Done(r)
  /\ Writing(r)
  /\ UNCHANGED <<receipt, ledger>>

-----------------------------------------------------------------------------
(* Finished goods receipts. *)

\* A receipt and its line are entered.
EnterReceipt(f) ==
  /\ order # NoOrder
  /\ receipt[f] = "none"
  /\ receipt' = [receipt EXCEPT ![f] = "DRAFT"]
  /\ UNCHANGED <<order, ledger, pc, copy, history>>

\* post() selects the receipt, which must be a DRAFT.
LoadReceipt(r, f) ==
  /\ pc[r] = "idle"
  /\ receipt[f] = "DRAFT"
  /\ copy' = [copy EXCEPT ![r] = [Idle EXCEPT !.receipt = f]]
  /\ Goto(r, "receive")
  /\ Started(r)
  /\ UNCHANGED <<order, receipt, ledger>>

Receive(r) ==
  /\ pc[r] = "receive"
  /\ ledger' = [ledger EXCEPT !.finished = @ + 1]
  /\ Goto(r, "saveReceipt")
  /\ UNCHANGED <<order, receipt, copy, history>>

\* Two requests may post one receipt: the second finds it POSTED by now.
SaveReceipt(r) ==
  /\ pc[r] = "saveReceipt"
  /\ receipt' = [receipt EXCEPT ![copy[r].receipt] = "POSTED"]
  /\ Goto(r, "loadOrder")
  /\ history' = [history EXCEPT !.stale = @ \/ receipt[copy[r].receipt] = "POSTED"]
  /\ UNCHANGED <<order, ledger, copy>>

\* The order is selected, takes the totals of the receipt, and is saved.
LoadOrder(r) ==
  /\ pc[r] = "loadOrder"
  /\ order # NoOrder
  /\ copy' = [copy EXCEPT ![r].order = Added(order, 1, 1)]
  /\ Goto(r, "save")
  /\ history' = [history EXCEPT !.current = @ \cup {r}]
  /\ UNCHANGED <<order, receipt, ledger>>

\* The request gives up or dies: its copy or its input does not allow the
\* operation, the ledger refuses a posting, the rebuild or the update fails,
\* the process stops.
Abort(r) ==
  /\ pc[r] # "idle"
  /\ Done(r)
  /\ history' = [history EXCEPT !.cut = @ \/ pc[r] \notin {"decide", "receive"}]
  /\ UNCHANGED <<order, receipt, ledger>>

-----------------------------------------------------------------------------

Step(r) ==
  \/ Create(r)
  \/ \E op \in Operations : Load(r, op)
  \/ Update(r)
  \/ Release(r) \/ Start(r) \/ Pause(r) \/ Resume(r) \/ Close(r) \/ Cancel(r)
  \/ RecordOutput(r) \/ RecordScrap(r) \/ Complete(r)
  \/ Delete(r) \/ Return(r)
  \/ Post(r) \/ Save(r)
  \/ \E f \in Receipts : LoadReceipt(r, f)
  \/ Receive(r) \/ SaveReceipt(r) \/ LoadOrder(r)
  \/ Abort(r)

Next ==
  \/ \E r \in Requests : Step(r)
  \/ \E f \in Receipts : EnterReceipt(f)

Spec == Init /\ [][Next]_vars

-----------------------------------------------------------------------------
(* Properties. *)

Labels == {"idle", "decide", "post", "save", "receive", "saveReceipt", "loadOrder"}

Postings == [what : Materials \cup {"made", "scrapped"}, quantity : Nat \ {0}]

TypeOK ==
  /\ order \in Orders \cup {NoOrder}
  /\ receipt \in [Receipts -> {"none", "DRAFT", "POSTED"}]
  /\ ledger \in Ledger
  /\ pc \in [Requests -> Labels]
  /\ DOMAIN copy = Requests
  /\ \A r \in Requests :
       /\ copy[r].op \in Operations \cup {"none"}
       /\ copy[r].order \in Orders \cup {NoOrder}
       /\ copy[r].receipt \in Receipts \cup {NoOrder}
       /\ \A i \in DOMAIN copy[r].todo : copy[r].todo[i] \in Postings
       /\ pc[r] = "post" => copy[r].todo # <<>>
       /\ pc[r] = "save" => copy[r].order # NoOrder
  /\ history \in [current : SUBSET Requests, stale : BOOLEAN, cut : BOOLEAN,
                  unbooked : BOOLEAN, started : Nat]

\* Whatever requests overlap, repeat or die: the ledger never holds goods of a
\* run whose materials it does not hold as issued, and at rest, when no request
\* was cut short, it holds no materials without goods either.
MaterialsMatchGoods ==
  \A m \in Materials :
    /\ ledger.issued[m] >= ledger.made
    /\ ~history.cut /\ Quiet => ledger.issued[m] = ledger.made

\* As long as no request acts on a copy that another has overtaken, none is cut
\* short, and the order was not set to another quantity than was posted, the
\* order at rest has completed and scrapped what the ledger says: over any
\* sequence of runs, scraps, receipts, reopenings and completions.
BooksFollowProduction ==
  ~history.stale /\ ~history.cut /\ ~history.unbooked /\ Quiet /\ order # NoOrder =>
    /\ order.completed = ledger.made + ledger.finished
    /\ order.scrapped = ledger.scrapped
                        + Cardinality({f \in Receipts : receipt[f] = "POSTED"})

\* docs/rfcs/0017-production-orders.md:111: "A closed or cancelled production
\* order cannot be edited or re-opened."  A request on a copy that was loaded
\* before is excused.
ClosedIsFinal ==
  [][/\ ~history'.stale
     /\ NoOrder \notin {order, order'}
     /\ order.status \in {"CLOSED", "CANCELLED"}
     => order'.status = order.status]_vars

=============================================================================
