--------------------------- MODULE PostingDocument ---------------------------
(***************************************************************************)
(* One document that posts its lines to the ledger, and the requests that  *)
(* work on it: a supplier return, a stock count, a material consumption or *)
(* a finished goods receipt.  Their services have one shape: select the    *)
(* header, select the lines, decide on the copy, post line by line, upsert *)
(* the header, upsert line by line.  What differs is when they allow what, *)
(* and is said by a table of rules for each kind.                          *)
(*                                                                         *)
(* SupplierReturnsService.complete is a chain of such rounds: it approves  *)
(* and saves a DRAFT, calls dispatch(), which loads the return again, and  *)
(* loads it a third time to complete it.                                   *)
(*                                                                         *)
(* Abstraction: a line posts one unit, nothing (a count without variance,  *)
(* a receipt of scrap only), or is refused by the ledger.  The stock check *)
(* of a dispatch is one of the reasons for which a request may give up.    *)
(* The trace rows of production and the production order itself are left   *)
(* out.  Of the other documents only one thing is seen: a request on       *)
(* another supplier return may delete a line of this one (EraseElsewhere). *)
(***************************************************************************)
EXTENDS Integers

CONSTANTS
  Requests,     \* concurrent API requests
  Lines,        \* ids that lines may be given
  Kinds,        \* the kinds of document considered
  PostsNothing, \* lines that move no stock
  NoDocument,   \* no row of the header table
  MaxStarts     \* bound: requests started, on this document or another

VARIABLES
  kind,         \* what the document is
  status,       \* status of the header row, or NoDocument
  lines,        \* the rows of the line table
  given,        \* line ids given out so far
  posted,       \* posted[t][l]: how often the ledger holds line l with type t
  pc,           \* pc[r]: the next statement of request r
  copy,         \* copy[r]: its operation and its copy of the document
  history       \* what the properties need to know of the past

vars == <<kind, status, lines, given, posted, pc, copy, history>>
document == <<status, lines>>

Types == {"Issue", "Receipt"}

ASSUME KindsAssumption ==
  Kinds \subseteq {"supplierReturn", "stockCount", "consumption", "finishedGoods"}

-----------------------------------------------------------------------------
(* The rules.  An operation takes a document from one of the statuses       *)
(* "from" to the status "to", and posts every line with type "posts".       *)

Rule(op, from, to, posts) == [op |-> op, from |-> from, to |-> to, posts |-> posts]
Quietly(op, from, to) == Rule(op, from, to, "nothing")

\* Mutation: a completed return can be cancelled; its stock is restored.
SupplierReturnRules_CancelCompleted ==
  { Quietly("approve", {"DRAFT"}, "APPROVED"),
    Rule("dispatch", {"APPROVED"}, "DISPATCHED", "Issue"),
    Quietly("settle", {"DISPATCHED"}, "COMPLETED"),
    Rule("cancel", {"DISPATCHED", "COMPLETED"}, "CANCELLED", "Receipt") }

\* Mutation: a dispatched return can be set back to DRAFT.
SupplierReturnRules_ReviseDispatched ==
  { Quietly("approve", {"DRAFT"}, "APPROVED"),
    Quietly("revise", {"DRAFT", "APPROVED", "CANCELLED", "DISPATCHED"}, "DRAFT"),
    Rule("dispatch", {"APPROVED"}, "DISPATCHED", "Issue"),
    Quietly("settle", {"DISPATCHED"}, "COMPLETED") }

\* Mutation: a settled return gets a status nobody knows.
SupplierReturnRules_Credited ==
  { Quietly("approve", {"DRAFT"}, "APPROVED"),
    Rule("dispatch", {"APPROVED"}, "DISPATCHED", "Issue"),
    Quietly("settle", {"DISPATCHED"}, "CREDITED") }

\* "settle" is complete() of the aggregate, "revise" is updateStatus(DRAFT).
\* A cancelled return may be cancelled again, and be revised.
SupplierReturnRules ==
  { Quietly("update", {"DRAFT"}, "DRAFT"),
    Quietly("approve", {"DRAFT"}, "APPROVED"),
    Rule("dispatch", {"APPROVED"}, "DISPATCHED", "Issue"),
    Quietly("settle", {"DISPATCHED"}, "COMPLETED"),
    Quietly("cancel", {"DRAFT", "APPROVED", "CANCELLED"}, "CANCELLED"),
    Rule("cancel", {"DISPATCHED"}, "CANCELLED", "Receipt"),
    Quietly("revise", {"DRAFT", "APPROVED", "CANCELLED"}, "DRAFT") }

\* Assigning sends a count back to ASSIGNED from wherever it is.
StockCountRules ==
  LET open == {"DRAFT", "ASSIGNED", "COUNTING", "SUBMITTED", "APPROVED"}
  IN  { Quietly("assign", open, "ASSIGNED"),
        Quietly("submit", {"COUNTING", "ASSIGNED"}, "SUBMITTED"),
        Quietly("approve", {"SUBMITTED"}, "APPROVED"),
        Rule("post", {"APPROVED"}, "POSTED", "Receipt"),
        Quietly("cancel", open, "CANCELLED") }

ConsumptionRules == { Rule("post", {"DRAFT"}, "POSTED", "Issue") }

FinishedGoodsRules == { Rule("post", {"DRAFT"}, "POSTED", "Receipt") }

Rules ==
  CASE kind = "supplierReturn" -> SupplierReturnRules
    [] kind = "stockCount"     -> StockCountRules
    [] kind = "consumption"    -> ConsumptionRules
    [] kind = "finishedGoods"  -> FinishedGoodsRules

\* Lines may be added in these statuses.
LinesOpen ==
  IF kind = "stockCount"
  THEN {"DRAFT", "ASSIGNED", "COUNTING", "SUBMITTED", "APPROVED"}
  ELSE {"DRAFT"}

\* A count is COUNTING once it has a line, unless it has gone further.
WithLine(s) ==
  IF kind = "stockCount" /\ s \in {"DRAFT", "ASSIGNED"} THEN "COUNTING" ELSE s

\* The ledger knows the line's location.  A line of a stock count names a row
\* of warehouse_bins, and the ledger's locations are rows of locations.
Located(l) == kind # "stockCount"

Statuses == {"DRAFT", "APPROVED", "DISPATCHED", "COMPLETED", "CANCELLED",
             "ASSIGNED", "COUNTING", "SUBMITTED", "POSTED"}

\* The document says that its lines have been posted.
InEffect == {"DISPATCHED", "COMPLETED", "POSTED"}
Effective == status \in InEffect

\* No row is no status.
ASSUME NoDocumentAssumption == NoDocument \notin Statuses

Operations == {"create", "update", "addLine", "removeLine", "delete", "complete",
               "approve", "dispatch", "settle", "cancel", "revise", "assign",
               "submit", "post"}

\* What callers can ask for.
Offered ==
  CASE kind = "supplierReturn" ->
         {"update", "addLine", "removeLine", "delete", "complete", "approve",
          "dispatch", "cancel", "revise"}
    [] OTHER -> {"addLine"} \cup {rule.op : rule \in Rules}

-----------------------------------------------------------------------------

\* chained: the request is inside complete(); type: what its postings are.
Idle == [op |-> "create", status |-> NoDocument, lines |-> {}, todo |-> {},
         type |-> "nothing", chained |-> FALSE]

(* The document is new, or was entered by requests that are done; a return  *)
(* may have been dispatched.  The flags of history are those of             *)
(* WarehouseTransfer; erased holds the lines that requests on other         *)
(* documents deleted from this one while it was in effect.                  *)
Init ==
  /\ kind \in Kinds
  /\ \/ status = NoDocument /\ lines = {}
     \/ status = "DRAFT" /\ lines \in SUBSET Lines
     \/ status \in {"APPROVED", "SUBMITTED"} \cap {rule.to : rule \in Rules}
        /\ lines \in SUBSET Lines
     \/ status = "DISPATCHED" /\ kind = "supplierReturn"
        /\ lines \in (SUBSET Lines) \ {{}}
  /\ given = lines
  /\ posted = [t \in Types |-> [l \in Lines |->
       IF status = "DISPATCHED" /\ t = "Issue" /\ l \in lines \ PostsNothing
       THEN 1 ELSE 0]]
  /\ pc = [r \in Requests |-> "idle"]
  /\ copy = [r \in Requests |-> Idle]
  /\ history = [current |-> {}, stale |-> FALSE, cut |-> FALSE, started |-> 0,
                erased |-> {}]

Quiet == \A r \in Requests : pc[r] = "idle"

\* r writes: the copies of the others are no longer current.
Writing(r) ==
  history' = [history EXCEPT !.current = @ \cap {r},
                             !.stale = @ \/ r \notin history.current]

Goto(r, label) == pc' = [pc EXCEPT ![r] = label]

\* r goes on with this copy, or is done.
Proceed(r, newCopy, label) ==
  /\ Goto(r, label)
  /\ copy' = [copy EXCEPT ![r] = IF label = "idle" THEN Idle ELSE newCopy]

-----------------------------------------------------------------------------
(* Creating and loading. *)

Started(r) ==
  /\ history.started < MaxStarts
  /\ history' = [history EXCEPT !.current = @ \cup {r}, !.started = @ + 1]

\* create(): a DRAFT without lines.
Create(r) ==
  /\ pc[r] = "idle"
  /\ status = NoDocument
  /\ history.started = 0
  /\ copy' = [copy EXCEPT ![r] = [Idle EXCEPT !.status = "DRAFT"]]
  /\ Goto(r, "header")
  /\ Started(r)
  /\ UNCHANGED <<kind, document, given, posted>>

\* A request starts, with the select of the header.
LoadHeader(r, op) ==
  /\ pc[r] = "idle"
  /\ status # NoDocument
  /\ op \in Offered
  /\ copy' = [copy EXCEPT ![r] = [Idle EXCEPT !.op = op, !.status = status,
                                              !.chained = op = "complete"]]
  /\ Goto(r, "load")
  /\ Started(r)
  /\ UNCHANGED <<kind, document, given, posted>>

\* The next round of complete() selects it again.
ReloadHeader(r) ==
  /\ pc[r] = "reload"
  /\ status # NoDocument
  /\ copy' = [copy EXCEPT ![r].status = status]
  /\ Goto(r, "load")
  /\ history' = [history EXCEPT !.current = @ \cup {r}]
  /\ UNCHANGED <<kind, document, given, posted>>

LoadLines(r) ==
  /\ pc[r] = "load"
  /\ copy' = [copy EXCEPT ![r].lines = lines]
  /\ Goto(r, "decide")
  /\ UNCHANGED <<kind, document, given, posted, history>>

-----------------------------------------------------------------------------
(* The operations on the copy. *)

Deciding(r, op) == pc[r] = "decide" /\ copy[r].op = op

\* An operation of the table.  Only a return may not be without lines when it
\* posts them.
Follow(r, rule) ==
  LET todo == IF rule.posts = "nothing" THEN {} ELSE copy[r].lines \ PostsNothing
  IN  /\ Deciding(r, rule.op)
      /\ copy[r].status \in rule.from
      /\ rule.op = "dispatch" => copy[r].lines # {}
      /\ copy' = [copy EXCEPT ![r].status = rule.to, ![r].todo = todo,
                              ![r].type = rule.posts]
      /\ Goto(r, IF todo = {} THEN "header" ELSE "post")
      /\ UNCHANGED <<kind, document, given, posted, history>>

AddLine(r, l) ==
  /\ Deciding(r, "addLine")
  /\ copy[r].status \in LinesOpen
  /\ l \notin given
  /\ given' = given \cup {l}
  /\ copy' = [copy EXCEPT ![r].status = WithLine(@), ![r].lines = @ \cup {l}]
  /\ Goto(r, "header")
  /\ UNCHANGED <<kind, document, posted, history>>

\* The line is taken from the copy; its row is to be deleted.
RemoveLine(r, l) ==
  /\ Deciding(r, "removeLine")
  /\ copy[r].status = "DRAFT"
  /\ copy' = [copy EXCEPT ![r].lines = @ \ {l}, ![r].todo = {l}]
  /\ Goto(r, "eraseLine")
  /\ UNCHANGED <<kind, document, given, posted, history>>

\* complete() branches on the status and goes to its next round.
Complete(r) ==
  /\ Deciding(r, "complete")
  /\ \/ /\ copy[r].status = "DRAFT"
        /\ copy' = [copy EXCEPT ![r].op = "approve", ![r].status = "APPROVED"]
        /\ Goto(r, "header")
     \/ /\ copy[r].status = "APPROVED"
        /\ copy' = [copy EXCEPT ![r].op = "dispatch"]
        /\ Goto(r, "reload")
     \/ /\ copy[r].status \in {"DISPATCHED", "CANCELLED"}
        /\ copy' = [copy EXCEPT ![r].op = "settle"]
        /\ Goto(r, "reload")
  /\ UNCHANGED <<kind, document, given, posted, history>>

Delete(r) ==
  /\ Deciding(r, "delete")
  /\ copy[r].status \in {"DRAFT", "CANCELLED"}
  /\ Goto(r, "eraseLines")
  /\ UNCHANGED <<kind, document, given, posted, copy, history>>

-----------------------------------------------------------------------------
(* Posting. *)

\* Mutation: the document is saved when its first line is posted.
Post_FirstOnly(r, l) ==
  /\ pc[r] = "post"
  /\ l \in copy[r].todo
  /\ Located(l)
  /\ posted' = [posted EXCEPT ![copy[r].type][l] = @ + 1]
  /\ copy' = [copy EXCEPT ![r].todo = {}]
  /\ Goto(r, "header")
  /\ history' = [history EXCEPT !.stale = @ \/ r \notin history.current]
  /\ UNCHANGED <<kind, document, given>>

Post(r, l) ==
  LET rest == copy[r].todo \ {l}
  IN  /\ pc[r] = "post"
      /\ l \in copy[r].todo
      /\ Located(l)
      /\ posted' = [posted EXCEPT ![copy[r].type][l] = @ + 1]
      /\ copy' = [copy EXCEPT ![r].todo = rest]
      /\ Goto(r, IF rest = {} THEN "header" ELSE "post")
      /\ history' = [history EXCEPT !.stale = @ \/ r \notin history.current]
      /\ UNCHANGED <<kind, document, given>>

-----------------------------------------------------------------------------
(* Saving and deleting. *)

\* What follows when these lines are yet to be saved: in complete(), another
\* round.
NextOp(op) == IF op = "approve" THEN "dispatch" ELSE "settle"

AfterSave(r, rest) ==
  IF rest # {} THEN Proceed(r, [copy[r] EXCEPT !.todo = rest], "lines")
  ELSE IF copy[r].chained /\ copy[r].op # "settle"
  THEN Proceed(r, [copy[r] EXCEPT !.op = NextOp(@), !.todo = {}], "reload")
  ELSE Proceed(r, Idle, "idle")

\* save(): the header is inserted or updated.
SaveHeader(r) ==
  /\ pc[r] = "header"
  /\ status' = copy[r].status
  /\ AfterSave(r, copy[r].lines)
  /\ Writing(r)
  /\ UNCHANGED <<kind, lines, given, posted>>

\* ... and each line of the copy; rows the copy has not are left alone.
SaveLine(r, l) ==
  /\ pc[r] = "lines"
  /\ status # NoDocument
  /\ l \in copy[r].todo
  /\ lines' = lines \cup {l}
  /\ AfterSave(r, copy[r].todo \ {l})
  /\ Writing(r)
  /\ UNCHANGED <<kind, status, given, posted>>

\* deleteLine(); then the copy is saved.
EraseLine(r) ==
  /\ pc[r] = "eraseLine"
  /\ lines' = lines \ copy[r].todo
  /\ Goto(r, "header")
  /\ Writing(r)
  /\ UNCHANGED <<kind, status, given, posted, copy>>

\* delete(): the lines, then the header, with whatever lines there are then.
EraseLines(r) ==
  /\ pc[r] = "eraseLines"
  /\ lines' = {}
  /\ Goto(r, "eraseHeader")
  /\ Writing(r)
  /\ UNCHANGED <<kind, status, given, posted, copy>>

EraseHeader(r) ==
  /\ pc[r] = "eraseHeader"
  /\ status' = NoDocument
  /\ lines' = {}
  /\ Proceed(r, Idle, "idle")
  /\ Writing(r)
  /\ UNCHANGED <<kind, given, posted>>

\* removeLine() of another return that is a DRAFT, with the id of a line of
\* this one: the status checked is that of the return in the URL, whose copy
\* has no such line to remove, and deleteLine() goes by the id of the line.
\* The copies others hold of this document are overtaken.
EraseElsewhere(l) ==
  /\ kind = "supplierReturn"
  /\ history.started < MaxStarts
  /\ l \in lines
  /\ lines' = lines \ {l}
  /\ history' = [history EXCEPT !.current = {}, !.started = @ + 1,
                               !.erased = IF Effective THEN @ \cup {l} ELSE @]
  /\ UNCHANGED <<kind, status, given, posted, pc, copy>>

\* The request gives up or dies: its copy, its input, the stock or the ledger
\* does not allow the operation, a row is refused, the process stops.
Abort(r) ==
  /\ pc[r] # "idle"
  /\ Proceed(r, Idle, "idle")
  /\ history' = [history EXCEPT
       !.cut = @ \/ pc[r] \in {"post", "header", "lines", "eraseHeader"}]
  /\ UNCHANGED <<kind, document, given, posted>>

-----------------------------------------------------------------------------

Step(r) ==
  \/ Create(r)
  \/ \E op \in Offered : LoadHeader(r, op)
  \/ ReloadHeader(r)
  \/ LoadLines(r)
  \/ \E rule \in Rules : Follow(r, rule)
  \/ \E l \in Lines : AddLine(r, l) \/ RemoveLine(r, l)
  \/ Complete(r)
  \/ Delete(r)
  \/ \E l \in Lines : Post(r, l) \/ SaveLine(r, l)
  \/ SaveHeader(r)
  \/ EraseLine(r) \/ EraseLines(r) \/ EraseHeader(r)
  \/ Abort(r)

Next ==
  \/ \E r \in Requests : Step(r)
  \/ \E l \in Lines : EraseElsewhere(l)

Spec == Init /\ [][Next]_vars

-----------------------------------------------------------------------------
(* Properties. *)

Labels == {"idle", "reload", "load", "decide", "post", "header", "lines",
           "eraseLine", "eraseLines", "eraseHeader"}

Copies == [op : Operations, status : Statuses \cup {NoDocument},
           lines : SUBSET Lines, todo : SUBSET Lines,
           type : Types \cup {"nothing"}, chained : BOOLEAN]

TypeOK ==
  /\ kind \in Kinds
  /\ status \in Statuses \cup {NoDocument}
  /\ lines \in SUBSET Lines
  /\ given \in SUBSET Lines
  /\ posted \in [Types -> [Lines -> Nat]]
  /\ pc \in [Requests -> Labels]
  /\ copy \in [Requests -> Copies]
  /\ history \in [current : SUBSET Requests, stale : BOOLEAN, cut : BOOLEAN,
                  started : Nat, erased : SUBSET Lines]

\* The postings of line l, less those that took them back.
Standing(l) ==
  IF kind = "supplierReturn" THEN posted["Issue"][l] - posted["Receipt"][l]
  ELSE posted["Issue"][l] + posted["Receipt"][l]

\* As long as no request acts on a copy that another has overtaken, and none
\* is cut short, the ledger holds at rest exactly the lines of a document that
\* is in effect, each once: after any rounds of dispatch, cancellation,
\* revision and removal of lines, and for no document that was deleted.  One
\* exception is the code's: a line that a request on another return deleted
\* while this one was in effect stays posted for good, for no cancellation
\* finds it to take it back.
LedgerFollowsDocument ==
  ~history.stale /\ ~history.cut /\ Quiet =>
    \A l \in Lines :
      Standing(l) = IF /\ l \notin PostsNothing
                       /\ \/ Effective /\ l \in lines
                          \/ l \in history.erased
                    THEN 1 ELSE 0

\* Requests may die at any statement: as long as none acts on a copy that
\* another has overtaken, no line of a document in effect was passed over by
\* its posting, whatever was repeated or left half done.  (All postings come
\* before the save.)
EffectIsPosted ==
  ~history.stale /\ Quiet /\ Effective =>
    \A l \in lines \ PostsNothing : posted["Issue"][l] + posted["Receipt"][l] > 0

\* Unless a request acts on an overtaken copy, a document that is completed or
\* posted keeps that status and its lines are posted no more.
EffectIsFinal ==
  [][~history'.stale /\ status \in {"COMPLETED", "POSTED"} =>
       status' = status /\ posted' = posted]_vars

\* "Cannot modify lines of non-DRAFT return." (supplier-returns.service.ts:110):
\* a dispatched return loses no line while it stays dispatched.  The code does
\* not keep this: EraseElsewhere.
DispatchedReturnsKeepTheirLines ==
  [][~history'.stale /\ kind = "supplierReturn" /\ status = "DISPATCHED"
     /\ status' = status => lines \subseteq lines']_vars

=============================================================================
