--------------------------- MODULE GoodsReceiving ---------------------------
(***************************************************************************)
(* One purchase order, the goods receipts against it, and the requests of  *)
(* PurchaseOrdersService and GoodsReceiptsService that work on them.       *)
(*                                                                         *)
(* A request selects the order's header and then its lines (and, when it   *)
(* works on a stored receipt, that receipt's header and lines before),     *)
(* decides on its copies, posts the receipt's lines to the ledger one by   *)
(* one while it adds them up on its copy of the order, saves that copy     *)
(* whole, and then the receipt.  Every statement commits on its own and is *)
(* a step; there is no transaction and no version.                         *)
(*                                                                         *)
(* Abstraction: a line of a receipt is one of GoodsLines, which fixes the  *)
(* order line it is for, of this order or of another, and its quantity; an *)
(* order line fixes the quantity ordered.  Other orders and the receipts   *)
(* against them are left out, but for the rows of their lines.  Prices,    *)
(* dates, batches and serial numbers are left out.                         *)
(***************************************************************************)
EXTENDS Integers

CONSTANTS
  Requests,     \* concurrent API requests
  OrderLines,   \* ids that lines of the order may be given
  OtherLines,   \* ids of the rows of other orders' lines
  Receipts,     \* ids that receipts may be given
  GoodsLines,   \* ids that receipt lines may be given
  Ordered,      \* Ordered[l]: quantityOrdered of order line l
  Against,      \* Against[g]: the order line receipt line g is for (poLineId)
  Quantity,     \* Quantity[g]: quantityReceived of receipt line g
  NoOrder,      \* no row in purchase_orders
  Offered,      \* the operations callers invoke
  MaxStarts     \* bound: requests started

\* addLine() refuses quantities that are not positive.
ASSUME QuantityAssumption ==
  /\ Ordered \in [OrderLines -> Nat \ {0}]
  /\ Quantity \in [GoodsLines -> Nat \ {0}]
  /\ Against \in [GoodsLines -> OrderLines \cup OtherLines]

\* Ids are never given twice.
ASSUME OtherLinesAssumption == OrderLines \cap OtherLines = {}

\* There are ids to give; the idle copy names one.
ASSUME ReceiptsAssumption == Receipts # {}

VARIABLES
  order,        \* status of the row of purchase_orders, or NoOrder
  stored,       \* the order's rows of purchase_order_lines
  received,     \* received[l]: quantity_received of row l, 0 without one
  receipt,      \* receipt[d]: status of the row of goods_receipts, or "none"
  receiptLines, \* receiptLines[d]: the rows of goods_receipt_lines
  given,        \* ids given out so far
  posted,       \* posted[g]: how often the ledger holds receipt line g
  stock,        \* stock[l]: what those postings add up to for order line l
  pc,           \* pc[r]: the next statement of request r
  copy,         \* copy[r]: its operation and its copies of the documents
  history       \* what the properties need to know of the past

vars == <<order, stored, received, receipt, receiptLines, given, posted, stock,
          pc, copy, history>>
orderTables == <<order, stored, received>>
receiptTables == <<receipt, receiptLines>>
ledger == <<posted, stock>>

Statuses == {"DRAFT", "SUBMITTED", "APPROVED", "ISSUED", "PARTIALLY_RECEIVED",
             "FULFILLED", "CANCELLED"}

\* No row is not a row.
ASSUME NoOrderAssumption == NoOrder \notin Statuses

OrderOperations == {"create", "update", "addLine", "submit", "approve", "issue",
                    "cancel", "delete"}

Operations ==
  OrderOperations \cup {"createReceipt", "addReceiptLine", "postReceipt"}

\* goods: the lines of the receipt; todo: what is yet to be posted or saved.
Idle == [ op |-> "create", order |-> NoOrder, stored |-> {},
          received |-> [l \in OrderLines |-> 0],
          receipt |-> CHOOSE d \in Receipts : TRUE, status |-> "none",
          goods |-> {}, todo |-> {} ]

(* The order is new, or was entered and perhaps submitted, approved and     *)
(* issued by requests that are done; an issued order may have a DRAFT       *)
(* receipt, too.                                                            *)
(*                                                                          *)
(* history.current: the requests since whose loading no other request wrote *)
(*   to the tables;                                                         *)
(* history.stale: a request posted or wrote that was not one of them;       *)
(* history.cut: a request ended after some of its statements, not all;      *)
(* history.unchecked: a receipt was accepted of which create() has not      *)
(*   compared the lines with those of the order, or only one by one;        *)
(* history.started: how many requests have started.                         *)
Init ==
  /\ \/ order = NoOrder /\ stored = {}
     \/ order \in {"DRAFT", "SUBMITTED", "APPROVED", "ISSUED", "CANCELLED"}
        /\ stored \in (SUBSET OrderLines) \ {{}}
  /\ received = [l \in OrderLines |-> 0]
  /\ \E drafts \in SUBSET Receipts, goods \in SUBSET GoodsLines :
       /\ \A d, e \in drafts : d = e
       /\ drafts # {} => order = "ISSUED"
       /\ \A g \in goods : drafts # {} /\ Against[g] \in stored \cup OtherLines
       /\ receipt = [d \in Receipts |-> IF d \in drafts THEN "DRAFT" ELSE "none"]
       /\ receiptLines = [d \in Receipts |-> IF d \in drafts THEN goods ELSE {}]
       /\ given = stored \cup drafts \cup goods
  /\ posted = [g \in GoodsLines |-> 0]
  /\ stock = [l \in OrderLines \cup OtherLines |-> 0]
  /\ pc = [r \in Requests |-> "idle"]
  /\ copy = [r \in Requests |-> Idle]
  /\ history = [current |-> {}, stale |-> FALSE, cut |-> FALSE,
                unchecked |-> FALSE, started |-> 0]

Quiet == \A r \in Requests : pc[r] = "idle"

Loading(r) ==
  /\ history.started < MaxStarts
  /\ history' = [history EXCEPT !.current = @ \cup {r}, !.started = @ + 1]

\* r writes: the copies of the others are no longer current.
Writing(r) ==
  history' = [history EXCEPT !.current = @ \cap {r},
                             !.stale = @ \/ r \notin history.current]

Goto(r, label) == pc' = [pc EXCEPT ![r] = label]

\* r goes on with this copy, or is done.
Proceed(r, newCopy, label) ==
  /\ pc' = [pc EXCEPT ![r] = label]
  /\ copy' = [copy EXCEPT ![r] = IF label = "idle" THEN Idle ELSE newCopy]

-----------------------------------------------------------------------------
(* Loading. *)

\* findOne of the order: its header is selected first.
StartOnOrder(r, op) ==
  /\ pc[r] = "idle"
  /\ order # NoOrder
  /\ op \in Offered \cap ((OrderOperations \ {"create"}) \cup {"createReceipt"})
  /\ copy' = [copy EXCEPT ![r] = [Idle EXCEPT !.op = op, !.order = order]]
  /\ Goto(r, "orderLines")
  /\ Loading(r)
  /\ UNCHANGED <<orderTables, receiptTables, ledger, given>>

\* findOne of a receipt: its header is selected first.
StartOnReceipt(r, op, d) ==
  /\ pc[r] = "idle"
  /\ receipt[d] # "none"
  /\ op \in Offered \cap {"addReceiptLine", "postReceipt"}
  /\ copy' = [copy EXCEPT ![r] =
       [Idle EXCEPT !.op = op, !.receipt = d, !.status = receipt[d]]]
  /\ Goto(r, "receiptLines")
  /\ Loading(r)
  /\ UNCHANGED <<orderTables, receiptTables, ledger, given>>

\* Mutation: a receipt that is completed is posted again.
LoadReceiptLines_AnyStatus(r) ==
  /\ pc[r] = "receiptLines"
  /\ copy' = [copy EXCEPT ![r].goods = receiptLines[copy[r].receipt]]
  /\ Goto(r, IF copy[r].op = "postReceipt" THEN "order" ELSE "decide")
  /\ UNCHANGED <<orderTables, receiptTables, ledger, given, history>>

\* Then its lines.  Both operations go on if the receipt is a DRAFT.
LoadReceiptLines(r) ==
  /\ pc[r] = "receiptLines"
  /\ copy[r].status = "DRAFT"
  /\ copy' = [copy EXCEPT ![r].goods = receiptLines[copy[r].receipt]]
  /\ Goto(r, IF copy[r].op = "postReceipt" THEN "order" ELSE "decide")
  /\ UNCHANGED <<orderTables, receiptTables, ledger, given, history>>

LoadOrder(r) ==
  /\ pc[r] = "order"
  /\ order # NoOrder
  /\ copy' = [copy EXCEPT ![r].order = order]
  /\ Goto(r, "orderLines")
  /\ UNCHANGED <<orderTables, receiptTables, ledger, given, history>>

LoadOrderLines(r) ==
  /\ pc[r] = "orderLines"
  /\ copy' = [copy EXCEPT ![r].stored = stored, ![r].received = received]
  /\ Goto(r, "decide")
  /\ UNCHANGED <<orderTables, receiptTables, ledger, given, history>>

-----------------------------------------------------------------------------
(* The operations of the purchase order, on the copy. *)

Deciding(r, op) == pc[r] = "decide" /\ copy[r].op = op

\* The order begins with the request that creates it, with or without lines.
Create(r, new) ==
  /\ pc[r] = "idle"
  /\ order = NoOrder
  /\ history.started = 0
  /\ given' = new
  /\ copy' = [copy EXCEPT ![r] =
       [Idle EXCEPT !.op = "create", !.order = "DRAFT", !.stored = new]]
  /\ Goto(r, "saveOrder")
  /\ Loading(r)
  /\ UNCHANGED <<orderTables, receiptTables, ledger>>

SaveOrderCopy(r, status, lines) ==
  /\ copy' = [copy EXCEPT ![r].order = status, ![r].stored = lines]
  /\ Goto(r, "saveOrder")
  /\ UNCHANGED <<orderTables, receiptTables, ledger, history>>

\* update(): lines, when given, replace those of a DRAFT.
Update(r, new) ==
  /\ Deciding(r, "update")
  /\ copy[r].order # "CANCELLED"
  /\ \/ new = copy[r].stored /\ given' = given
     \/ copy[r].order = "DRAFT" /\ new \cap given = {} /\ given' = given \cup new
  /\ SaveOrderCopy(r, copy[r].order, new)

AddLine(r, l) ==
  /\ Deciding(r, "addLine")
  /\ copy[r].order = "DRAFT"
  /\ l \notin given
  /\ given' = given \cup {l}
  /\ SaveOrderCopy(r, "DRAFT", copy[r].stored \cup {l})

Advance(r, op, from, to) ==
  /\ Deciding(r, op)
  /\ copy[r].order \in from
  /\ SaveOrderCopy(r, to, copy[r].stored)
  /\ UNCHANGED given

Submit(r) == copy[r].stored # {} /\ Advance(r, "submit", {"DRAFT"}, "SUBMITTED")
Approve(r) == Advance(r, "approve", {"SUBMITTED"}, "APPROVED")
Issue(r) == Advance(r, "issue", {"APPROVED"}, "ISSUED")

Cancel(r) ==
  Advance(r, "cancel", {"DRAFT", "SUBMITTED", "APPROVED", "ISSUED"}, "CANCELLED")

Delete(r) ==
  /\ Deciding(r, "delete")
  /\ copy[r].order \in {"DRAFT", "CANCELLED"}
  /\ Goto(r, "delete")
  /\ UNCHANGED <<orderTables, receiptTables, ledger, given, copy, history>>

-----------------------------------------------------------------------------
(* The operations of the goods receipt, on the copies. *)

\* Two of the lines are for one order line.
Doubled(lines) == \E g, h \in lines : g # h /\ Against[g] = Against[h]

\* Mutation: what came in before is forgotten.
FitsRemaining_Ordered(r, g) ==
  Against[g] \in copy[r].stored => Quantity[g] <= Ordered[Against[g]]

\* create() compares each line with what its order line still lacks, if the
\* order has that line.  The status of the order is not looked at.
FitsRemaining(r, g) ==
  Against[g] \in copy[r].stored =>
    Quantity[g] <= Ordered[Against[g]] - copy[r].received[Against[g]]

\* A receipt without lines is saved as a DRAFT; lines are posted at once, and
\* it is saved as COMPLETED.
CreateReceipt(r, d, new) ==
  /\ Deciding(r, "createReceipt")
  /\ \A g \in new : FitsRemaining(r, g)
  /\ (new \cup {d}) \cap given = {}
  /\ given' = given \cup new \cup {d}
  /\ copy' = [copy EXCEPT
       ![r].receipt = d, ![r].goods = new, ![r].todo = new,
       ![r].status = IF new = {} THEN "DRAFT" ELSE "COMPLETED"]
  /\ Goto(r, IF new = {} THEN "saveReceipt" ELSE "post")
  /\ history' = [history EXCEPT !.unchecked = @ \/ Doubled(new)]
  /\ UNCHANGED <<orderTables, receiptTables, ledger>>

AddReceiptLine(r, g) ==
  /\ Deciding(r, "addReceiptLine")
  /\ g \notin given
  /\ given' = given \cup {g}
  /\ copy' = [copy EXCEPT ![r].goods = @ \cup {g}]
  /\ Goto(r, "saveReceipt")
  /\ UNCHANGED <<orderTables, receiptTables, ledger, history>>

\* postReceipt() posts the lines of a DRAFT without comparing quantities.
PostReceipt(r) ==
  /\ Deciding(r, "postReceipt")
  /\ copy' = [copy EXCEPT ![r].todo = copy[r].goods, ![r].status = "COMPLETED"]
  /\ Goto(r, IF copy[r].goods = {} THEN "saveOrder" ELSE "post")
  /\ history' = [history EXCEPT !.unchecked = @ \/ copy[r].goods # {}]
  /\ UNCHANGED <<orderTables, receiptTables, ledger, given>>

-----------------------------------------------------------------------------
(* Posting. *)

\* recordReceipt on the copy: the quantity is added if the order has the line.
Recorded(r, g) ==
  IF Against[g] \in copy[r].stored
  THEN [copy[r].received EXCEPT ![Against[g]] = @ + Quantity[g]]
  ELSE copy[r].received

\* ... and the status follows, whatever it was.
StatusAfter(r, counts) ==
  IF \A l \in copy[r].stored : counts[l] >= Ordered[l]
  THEN "FULFILLED" ELSE "PARTIALLY_RECEIVED"

\* The ledger gets one line, and the copy of the order records it; after the
\* last line the order is saved.
Post(r, g) ==
  LET rest == copy[r].todo \ {g}
  IN  /\ pc[r] = "post"
      /\ g \in copy[r].todo
      /\ posted' = [posted EXCEPT ![g] = @ + 1]
      /\ stock' = [stock EXCEPT ![Against[g]] = @ + Quantity[g]]
      /\ copy' = [copy EXCEPT ![r].todo = rest,
                              ![r].received = Recorded(r, g),
                              ![r].order = StatusAfter(r, Recorded(r, g))]
      /\ Goto(r, IF rest = {} THEN "saveOrder" ELSE "post")
      /\ history' = [history EXCEPT !.stale = @ \/ r \notin history.current]
      /\ UNCHANGED <<orderTables, receiptTables, given>>

-----------------------------------------------------------------------------
(* Saving. *)

\* Where a request goes that has yet to save these lines of the order.
WithOrderLines(r, rest) ==
  IF rest # {} THEN "saveOrderLines"
  ELSE IF copy[r].op \in OrderOperations THEN "idle" ELSE "saveReceipt"

\* save() of the order: the header is inserted or updated.
SaveOrder(r) ==
  LET rest == copy[r].stored
  IN  /\ pc[r] = "saveOrder"
      /\ order' = copy[r].order
      /\ Proceed(r, [copy[r] EXCEPT !.todo = rest], WithOrderLines(r, rest))
      /\ Writing(r)
      /\ UNCHANGED <<stored, received, receiptTables, ledger, given>>

\* ... then each line of the copy; rows the copy has not are left alone.
WriteOrderLine(r, l, count) ==
  LET rest == copy[r].todo \ {l}
  IN  /\ pc[r] = "saveOrderLines"
      /\ order # NoOrder
      /\ l \in copy[r].todo
      /\ stored' = stored \cup {l}
      /\ received' = [received EXCEPT ![l] = count]
      /\ Proceed(r, [copy[r] EXCEPT !.todo = rest], WithOrderLines(r, rest))
      /\ Writing(r)
      /\ UNCHANGED <<order, receiptTables, ledger, given>>

\* Mutation: the row's quantity is increased by the copy's.
SaveOrderLine_Adds(r, l) ==
  WriteOrderLine(r, l, received[l] + copy[r].received[l])

SaveOrderLine(r, l) == WriteOrderLine(r, l, copy[r].received[l])

WithReceiptLines(rest) == IF rest = {} THEN "idle" ELSE "saveReceiptLines"

WriteReceipt(r, status) ==
  LET rest == copy[r].goods
  IN  /\ pc[r] = "saveReceipt"
      /\ order # NoOrder
      /\ receipt' = [receipt EXCEPT ![copy[r].receipt] = status]
      /\ Proceed(r, [copy[r] EXCEPT !.todo = rest], WithReceiptLines(rest))
      /\ Writing(r)
      /\ UNCHANGED <<orderTables, receiptLines, ledger, given>>

\* Mutation: a completed receipt is saved under another status.
SaveReceipt_Posted(r) ==
  WriteReceipt(r, IF copy[r].status = "COMPLETED" THEN "POSTED" ELSE "DRAFT")

\* save() of the receipt: the header, which refers to the order.
SaveReceipt(r) == WriteReceipt(r, copy[r].status)

\* ... then its lines, each of which refers to a row of an order's lines: the
\* database does not ask of which order.
SaveReceiptLine(r, g) ==
  LET rest == copy[r].todo \ {g}
  IN  /\ pc[r] = "saveReceiptLines"
      /\ g \in copy[r].todo
      /\ Against[g] \in stored \cup OtherLines
      /\ receiptLines' = [receiptLines EXCEPT ![copy[r].receipt] = @ \cup {g}]
      /\ Proceed(r, [copy[r] EXCEPT !.todo = rest], WithReceiptLines(rest))
      /\ Writing(r)
      /\ UNCHANGED <<orderTables, receipt, ledger, given>>

\* delete() of the order: refused by the database while a receipt refers to
\* it; the lines cascade.
DeleteRow(r) ==
  /\ pc[r] = "delete"
  /\ \A d \in Receipts : receipt[d] = "none"
  /\ order' = NoOrder
  /\ stored' = {}
  /\ received' = [l \in OrderLines |-> 0]
  /\ Proceed(r, Idle, "idle")
  /\ Writing(r)
  /\ UNCHANGED <<receiptTables, ledger, given>>

\* The request throws or dies: its copy or its input does not allow the
\* operation, the number is taken, a posting or a row is refused, the
\* connection fails, the process stops.
Abort(r) ==
  /\ pc[r] # "idle"
  /\ Proceed(r, Idle, "idle")
  /\ history' = [history EXCEPT !.cut =
       @ \/ pc[r] \in {"post", "saveOrder", "saveOrderLines", "saveReceipt",
                       "saveReceiptLines"}]
  /\ UNCHANGED <<orderTables, receiptTables, ledger, given>>

-----------------------------------------------------------------------------

Step(r) ==
  \/ \E new \in SUBSET OrderLines : Create(r, new) \/ Update(r, new)
  \/ \E op \in Operations : StartOnOrder(r, op)
  \/ \E op \in Operations, d \in Receipts : StartOnReceipt(r, op, d)
  \/ LoadReceiptLines(r) \/ LoadOrder(r) \/ LoadOrderLines(r)
  \/ \E l \in OrderLines : AddLine(r, l)
  \/ Submit(r) \/ Approve(r) \/ Issue(r) \/ Cancel(r) \/ Delete(r)
  \/ \E d \in Receipts, new \in SUBSET GoodsLines : CreateReceipt(r, d, new)
  \/ \E g \in GoodsLines : AddReceiptLine(r, g)
  \/ PostReceipt(r)
  \/ \E g \in GoodsLines : Post(r, g)
  \/ SaveOrder(r)
  \/ \E l \in OrderLines : SaveOrderLine(r, l)
  \/ SaveReceipt(r)
  \/ \E g \in GoodsLines : SaveReceiptLine(r, g)
  \/ DeleteRow(r)
  \/ Abort(r)

Next == \E r \in Requests : Step(r)

Spec == Init /\ [][Next]_vars

-----------------------------------------------------------------------------
(* Properties. *)

Labels == {"idle", "receiptLines", "order", "orderLines", "decide", "post",
           "saveOrder", "saveOrderLines", "saveReceipt", "saveReceiptLines",
           "delete"}

Copies == [ op : Operations, order : Statuses \cup {NoOrder},
            stored : SUBSET OrderLines, received : [OrderLines -> Nat],
            receipt : Receipts, status : {"none", "DRAFT", "COMPLETED"},
            goods : SUBSET GoodsLines, todo : SUBSET (OrderLines \cup GoodsLines) ]

TypeOK ==
  /\ order \in Statuses \cup {NoOrder}
  /\ stored \in SUBSET OrderLines
  /\ received \in [OrderLines -> Nat]
  /\ receipt \in [Receipts -> {"none", "DRAFT", "COMPLETED"}]
  /\ receiptLines \in [Receipts -> SUBSET GoodsLines]
  /\ given \in SUBSET (OrderLines \cup GoodsLines \cup Receipts)
  /\ posted \in [GoodsLines -> Nat]
  /\ stock \in [OrderLines \cup OtherLines -> Nat]
  /\ pc \in [Requests -> Labels]
  /\ copy \in [Requests -> Copies]
  /\ history \in [current : SUBSET Requests, stale : BOOLEAN, cut : BOOLEAN,
                  unchecked : BOOLEAN, started : Nat]

\* However requests overtake each other and wherever they die, the order never
\* claims more of a line than the ledger got for it.  (Each line is posted
\* before it is recorded on the copy, and a copy that overwrites a newer one
\* takes recorded quantities away; it never invents any.)
ReceivedIsPosted == \A l \in OrderLines : received[l] <= stock[l]

\* As long as every receipt was checked against the order, and had one line
\* for each order line, the order never claims more than was ordered, although
\* receipts are checked against copies that others have overtaken.
OrderNeverOverfilled ==
  ~history.unchecked => \A l \in OrderLines : received[l] <= Ordered[l]

PostedFor(d) == IF receipt[d] = "COMPLETED" THEN receiptLines[d] ELSE {}

\* Something has been posted by the receipts of the order.
CameIn == \E g \in GoodsLines : posted[g] > 0

\* As long as no request acts on a copy that another has overtaken, and none
\* is cut short, the three documents agree at rest: the order claims what the
\* ledger got from its receipts for each of its lines, the ledger got exactly
\* the lines of completed receipts, each once, the order is FULFILLED if and
\* only if something came in and no line lacks anything, and no more than was
\* ordered came in unless a receipt went unchecked.  A receipt may have lines
\* for lines of other orders: they are posted and no order claims them (see
\* CompletedReceiptsAreOfOneOrder), and one of them makes an order FULFILLED
\* that has no lines, or whose own have come in.
BooksFollowOrder ==
  ~history.stale /\ ~history.cut /\ Quiet =>
    /\ \A l \in stored : received[l] = stock[l]
    /\ \A g \in GoodsLines :
         posted[g] = IF \E d \in Receipts : g \in PostedFor(d) THEN 1 ELSE 0
    /\ order = "FULFILLED" <=>
         CameIn /\ \A l \in stored : stock[l] >= Ordered[l]
    /\ ~history.unchecked => \A l \in OrderLines : stock[l] <= Ordered[l]

-----------------------------------------------------------------------------
(* Statements of the documentation that the code does not keep. *)

\* RFC-0011: "A Goods Receipt must reference an active, non-fulfilled,
\* non-cancelled PurchaseOrder."  Neither create() nor postReceipt() looks at
\* the status of the order.
ReceivedOrdersAreOpen ==
  [][\A l \in OrderLines : stock'[l] # stock[l] => order # "CANCELLED"]_vars

\* RFC-0011: goods receipts are validated "against PO lines".  create() skips
\* a line that the order does not have, and the database takes the row if any
\* order has it.
CompletedReceiptsAreOfOneOrder ==
  \A d \in Receipts : \A g \in PostedFor(d) : Against[g] \in stored

=============================================================================
