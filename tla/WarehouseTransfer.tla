------------------------- MODULE WarehouseTransfer -------------------------
(***************************************************************************)
(* One warehouse transfer and the requests that work on it.                *)
(*                                                                         *)
(* A request of WarehouseTransfersService loads the whole aggregate (a     *)
(* select of the header, then a select of the lines), decides on its copy, *)
(* posts one inventory transaction per line when the operation moves       *)
(* stock, and saves the whole copy: an upsert of the header, a delete of   *)
(* the lines, and one insert per line.  Each of these statements commits   *)
(* on its own and is a step here; between two steps other requests run and *)
(* the request itself may die.  Nothing compares versions.                 *)
(*                                                                         *)
(* Abstraction: every line moves one unit, and the postings of each line   *)
(* are counted by type and location (module InventoryLedger says what      *)
(* becomes of them).  Dates, notes and the transfer number are left out.   *)
(***************************************************************************)
EXTENDS Integers

CONSTANTS
  Requests,     \* concurrent API requests
  Lines,        \* ids that lines may be given
  Locations,    \* ids of the rows of the locations table
  NoTransfer,   \* no row in warehouse_transfers
  Offered,      \* the operations callers invoke
  MaxPostings,  \* bound: postings of one type, line and location
  MaxStarts     \* bound: requests started

VARIABLES
  header,       \* the row of warehouse_transfers, or NoTransfer
  lines,        \* the rows of warehouse_transfer_lines
  given,        \* line ids given out so far
  posted,       \* posted[p]: how often the ledger holds posting p
  pc,           \* pc[r]: the next statement of request r
  copy,         \* copy[r]: its operation and its copy of the aggregate
  history       \* what the properties need to know of the past

vars == <<header, lines, given, posted, pc, copy, history>>

Statuses == {"DRAFT", "SUBMITTED", "DISPATCHED", "RECEIVED", "CANCELLED"}

\* dispatched stands for dispatchedAt # null.
Headers == [status : Statuses, src : Locations, dst : Locations,
            dispatched : BOOLEAN]

ASSUME NoTransferAssumption == NoTransfer \notin Headers

Postings == [type : {"Issue", "Receipt"}, line : Lines, at : Locations]

Operations == {"create", "update", "addLine", "submit", "dispatch", "receive",
               "cancel", "delete"}

\* todo: the lines the request has yet to post, and later to insert.
Idle == [op |-> "create", header |-> NoTransfer, lines |-> {}, todo |-> {}]

(* history.current: the requests since whose loading no other request wrote  *)
(*   to the two tables;                                                      *)
(* history.stale: a request posted or wrote that was not one of them;        *)
(* history.cut: a request ended after some of its statements, not all;        *)
(* history.started: how many requests have started.                          *)
Init ==
  /\ header = NoTransfer
  /\ lines = {}
  /\ given = {}
  /\ posted = [p \in Postings |-> 0]
  /\ pc = [r \in Requests |-> "idle"]
  /\ copy = [r \in Requests |-> Idle]
  /\ history = [current |-> {}, stale |-> FALSE, cut |-> FALSE, started |-> 0]

Quiet == \A r \in Requests : pc[r] = "idle"

\* r starts, and takes a copy.
Loading(r) ==
  /\ history.started < MaxStarts
  /\ history' = [history EXCEPT !.current = @ \cup {r}, !.started = @ + 1]

\* r posts from its copy.
Posting(r) == history' = [history EXCEPT !.stale = @ \/ r \notin history.current]

\* r writes to the tables: the copies of the others are no longer current.
Writing(r) ==
  history' = [history EXCEPT !.current = @ \cap {r},
                             !.stale = @ \/ r \notin history.current]

Goto(r, label) == pc' = [pc EXCEPT ![r] = label]

Finish(r) ==
  /\ Goto(r, "idle")
  /\ copy' = [copy EXCEPT ![r] = Idle]

-----------------------------------------------------------------------------
(* Creating and loading. *)

\* The transfer begins with the request that creates it: a new DRAFT with
\* lines of its own, whose source and destination differ.
Create(r, src, dst, new) ==
  /\ pc[r] = "idle"
  /\ history.started = 0
  /\ src # dst
  /\ given' = new
  /\ copy' = [copy EXCEPT ![r] =
       [Idle EXCEPT !.header = [status |-> "DRAFT", src |-> src, dst |-> dst,
                                dispatched |-> FALSE],
                    !.lines = new]]
  /\ Goto(r, "header")
  /\ Loading(r)
  /\ UNCHANGED <<header, lines, posted>>

\* findOne: the header is selected first.
LoadHeader(r, op) ==
  /\ pc[r] = "idle"
  /\ header # NoTransfer
  /\ op \in Offered \ {"create"}
  /\ copy' = [copy EXCEPT ![r] = [Idle EXCEPT !.op = op, !.header = header]]
  /\ Goto(r, "load")
  /\ Loading(r)
  /\ UNCHANGED <<header, lines, given, posted>>

\* Then its lines, and the request has its copy.
LoadLines(r) ==
  /\ pc[r] = "load"
  /\ copy' = [copy EXCEPT ![r].lines = lines]
  /\ Goto(r, "decide")
  /\ UNCHANGED <<header, lines, given, posted, history>>

-----------------------------------------------------------------------------
(* The operations on the copy.  Each runs to its next await in one step.    *)

\* r is to carry out op, and its copy has one of these statuses.
Deciding(r, op, statuses) ==
  /\ pc[r] = "decide"
  /\ copy[r].op = op
  /\ copy[r].header.status \in statuses

\* The copy changes and is saved.
SaveCopy(r, newHeader, newLines) ==
  /\ copy' = [copy EXCEPT ![r].header = newHeader, ![r].lines = newLines]
  /\ Goto(r, "header")

\* update(): the locations given replace the old ones and are compared only
\* when both are given; lines, when given, are replaced by new ones.
Update(r, src, dst, new) ==
  LET old == copy[r].header
  IN  /\ Deciding(r, "update", {"DRAFT"})
      /\ src = dst => src = old.src \/ dst = old.dst
      /\ \/ new = copy[r].lines /\ given' = given
         \/ new \cap given = {} /\ given' = given \cup new
      /\ SaveCopy(r, [old EXCEPT !.src = src, !.dst = dst], new)
      /\ UNCHANGED <<header, lines, posted, history>>

AddLine(r, l) ==
  /\ Deciding(r, "addLine", {"DRAFT"})
  /\ l \notin given
  /\ given' = given \cup {l}
  /\ SaveCopy(r, copy[r].header, copy[r].lines \cup {l})
  /\ UNCHANGED <<header, lines, posted, history>>

Submit(r) ==
  /\ Deciding(r, "submit", {"DRAFT"})
  /\ copy[r].lines # {}
  /\ SaveCopy(r, [copy[r].header EXCEPT !.status = "SUBMITTED"], copy[r].lines)
  /\ UNCHANGED <<header, lines, given, posted, history>>

\* The copy gets its new header at once, every line is posted, and then the
\* copy is saved: the header is not looked at while the postings are made.
PostLines(r, newHeader) ==
  /\ copy' = [copy EXCEPT ![r].header = newHeader, ![r].todo = copy[r].lines]
  /\ Goto(r, "post")
  /\ UNCHANGED <<header, lines, given, posted, history>>

\* Mutation: dispatching again is not refused.
Dispatch_Again(r) ==
  /\ Deciding(r, "dispatch", {"SUBMITTED", "DRAFT", "DISPATCHED"})
  /\ copy[r].lines # {}
  /\ PostLines(r,
       [copy[r].header EXCEPT !.status = "DISPATCHED", !.dispatched = TRUE])

Dispatch(r) ==
  /\ Deciding(r, "dispatch", {"SUBMITTED", "DRAFT"})
  /\ copy[r].lines # {}
  /\ PostLines(r,
       [copy[r].header EXCEPT !.status = "DISPATCHED", !.dispatched = TRUE])

\* Mutation: the status RFC-0024 names is written instead.
Receive_Completed(r) ==
  /\ Deciding(r, "receive", {"DISPATCHED", "SUBMITTED"})
  /\ PostLines(r, [copy[r].header EXCEPT !.status = "COMPLETED"])

Receive(r) ==
  /\ Deciding(r, "receive", {"DISPATCHED", "SUBMITTED"})
  /\ PostLines(r,
       [copy[r].header EXCEPT !.status = "RECEIVED"])

\* cancel() gives dispatched stock back to the source.
CancelDispatched(r) ==
  /\ Deciding(r, "cancel", {"DISPATCHED"})
  /\ PostLines(r,
       [copy[r].header EXCEPT !.status = "CANCELLED"])

\* Mutation: a received transfer can be cancelled.
Cancel_AfterReceipt(r) ==
  /\ Deciding(r, "cancel", {"DRAFT", "SUBMITTED", "RECEIVED"})
  /\ SaveCopy(r, [copy[r].header EXCEPT !.status = "CANCELLED"], copy[r].lines)
  /\ UNCHANGED <<header, lines, given, posted, history>>

Cancel(r) ==
  /\ Deciding(r, "cancel", {"DRAFT", "SUBMITTED"})
  /\ SaveCopy(r, [copy[r].header EXCEPT !.status = "CANCELLED"], copy[r].lines)
  /\ UNCHANGED <<header, lines, given, posted, history>>

Delete(r) ==
  /\ Deciding(r, "delete", {"DRAFT"})
  /\ Goto(r, "delete")
  /\ UNCHANGED <<header, lines, given, posted, copy, history>>

-----------------------------------------------------------------------------
(* Posting, saving and deleting. *)

\* What request r posts for line l.
PostingOf(r, l) ==
  [ type |-> IF copy[r].op = "dispatch" THEN "Issue" ELSE "Receipt",
    line |-> l,
    at   |-> IF copy[r].op = "receive" THEN copy[r].header.dst
                                       ELSE copy[r].header.src ]

\* inventoryTransactionsService.create for one line.
Post(r, l) ==
  LET p == PostingOf(r, l)
  IN  /\ pc[r] = "post"
      /\ l \in copy[r].todo
      /\ posted[p] < MaxPostings
      /\ posted' = [posted EXCEPT ![p] = @ + 1]
      /\ copy' = [copy EXCEPT ![r].todo = @ \ {l}]
      /\ Posting(r)
      /\ UNCHANGED <<header, lines, given, pc>>

\* Mutation: the copy may be saved before every line is posted.
PostingDone_Early(r) ==
  /\ pc[r] = "post"
  /\ Goto(r, "header")
  /\ UNCHANGED <<header, lines, given, posted, copy, history>>

PostingDone(r) ==
  /\ pc[r] = "post"
  /\ copy[r].todo = {}
  /\ Goto(r, "header")
  /\ UNCHANGED <<header, lines, given, posted, copy, history>>

\* save(): the header is inserted or updated.
SaveHeader(r) ==
  /\ pc[r] = "header"
  /\ header' = copy[r].header
  /\ Goto(r, "erase")
  /\ Writing(r)
  /\ UNCHANGED <<lines, given, posted, copy>>

\* save(): the lines are deleted.
EraseLines(r) ==
  /\ pc[r] = "erase"
  /\ lines' = {}
  /\ copy' = [copy EXCEPT ![r].todo = copy[r].lines]
  /\ Goto(r, "insert")
  /\ Writing(r)
  /\ UNCHANGED <<header, given, posted>>

\* save(): a line is inserted, unless its id is taken or the header is gone.
InsertLine(r, l) ==
  /\ pc[r] = "insert"
  /\ l \in copy[r].todo \ lines
  /\ header # NoTransfer
  /\ lines' = lines \cup {l}
  /\ copy' = [copy EXCEPT ![r].todo = @ \ {l}]
  /\ Writing(r)
  /\ UNCHANGED <<header, given, posted, pc>>

EndSave(r) ==
  /\ pc[r] = "insert"
  /\ copy[r].todo = {}
  /\ Finish(r)
  /\ UNCHANGED <<header, lines, given, posted, history>>

\* delete(): the row goes, whatever its status is by now, and the lines
\* cascade.
DeleteRow(r) ==
  /\ pc[r] = "delete"
  /\ header' = NoTransfer
  /\ lines' = {}
  /\ Finish(r)
  /\ Writing(r)
  /\ UNCHANGED <<given, posted>>

\* The request throws or dies: its copy or its input does not allow the
\* operation, a posting is refused, a line is inserted twice, the connection
\* fails, the process stops.
Abort(r) ==
  /\ pc[r] # "idle"
  /\ Finish(r)
  /\ history' = [history EXCEPT
                   !.cut = @ \/ pc[r] \in {"post", "header", "erase", "insert"}]
  /\ UNCHANGED <<header, lines, given, posted>>

-----------------------------------------------------------------------------

Step(r) ==
  \/ \E src, dst \in Locations, new \in SUBSET Lines : Create(r, src, dst, new)
  \/ \E op \in Operations : LoadHeader(r, op)
  \/ LoadLines(r)
  \/ \E src, dst \in Locations, new \in SUBSET Lines : Update(r, src, dst, new)
  \/ \E l \in Lines : AddLine(r, l)
  \/ Submit(r)
  \/ Dispatch(r)
  \/ Receive(r)
  \/ CancelDispatched(r)
  \/ Cancel(r)
  \/ Delete(r)
  \/ \E l \in Lines : Post(r, l)
  \/ PostingDone(r)
  \/ SaveHeader(r)
  \/ EraseLines(r)
  \/ \E l \in Lines : InsertLine(r, l)
  \/ EndSave(r)
  \/ DeleteRow(r)
  \/ Abort(r)

Next == \E r \in Requests : Step(r)

Spec == Init /\ [][Next]_vars

-----------------------------------------------------------------------------
(* Properties. *)

Copies == [op : Operations, header : Headers \cup {NoTransfer}, lines : SUBSET Lines,
           todo : SUBSET Lines]

TypeOK ==
  /\ header \in Headers \cup {NoTransfer}
  /\ lines \in SUBSET Lines
  /\ given \in SUBSET Lines
  /\ posted \in [Postings -> Nat]
  /\ pc \in [Requests -> {"idle", "load", "decide", "post", "header", "erase",
                          "insert", "delete"}]
  /\ copy \in [Requests -> Copies]
  /\ history \in [current : SUBSET Requests, stale : BOOLEAN, cut : BOOLEAN,
                started : Nat]

Exists == header # NoTransfer

Posted(type, l, at) == posted[[type |-> type, line |-> l, at |-> at]]

\* What the postings of line l add to the stock at a location.
Net(l, at) == Posted("Receipt", l, at) - Posted("Issue", l, at)

Ones(b) == IF b THEN 1 ELSE 0

\* What the saved transfer says they should add.
Claimed(l, at) ==
  IF Exists /\ l \in lines
  THEN Ones(header.status = "RECEIVED" /\ at = header.dst)
       - Ones(header.dispatched /\ header.status # "CANCELLED" /\ at = header.src)
  ELSE 0

\* As long as no request acts on a copy that another has overtaken, and none
\* is cut short, the books say what the document says: every stored line left
\* the source if and only if it was dispatched and not cancelled, reached the
\* destination if and only if it was received, and no line that is no longer
\* stored was ever moved.  (The postings and the save are separate statements
\* of one request.)
BooksFollowDocument ==
  ~history.stale /\ ~history.cut /\ Quiet =>
    \A l \in Lines, at \in Locations : Net(l, at) = Claimed(l, at)

\* Requests may die at any statement: as long as none acts on a copy that
\* another has overtaken, what a stored document claims to have moved has
\* been posted at least once.  (The postings come before the save.)
ClaimsArePosted ==
  ~history.stale /\ Exists =>
    \A l \in lines :
      /\ header.dispatched => Posted("Issue", l, header.src) > 0
      /\ header.status = "RECEIVED" => Posted("Receipt", l, header.dst) > 0
      /\ header.status = "CANCELLED" /\ header.dispatched =>
           Posted("Receipt", l, header.src) > 0

Terminal == Exists /\ header.status \in {"RECEIVED", "CANCELLED"}

\* Unless a request acts on an overtaken copy, nothing is ever posted for a
\* transfer that is received or cancelled, and its header stays as it is.
\* (Every operation looks at the status of its copy, which is then the status
\* of the row.)
TerminalIsFinal ==
  [][Terminal /\ ~history'.stale =>
       /\ header' = header
       /\ posted' = posted]_vars

-----------------------------------------------------------------------------
(* Statements of the documentation that the code does not keep. *)

\* RFC-0024: "Completed or cancelled transfers are immutable."  A request
\* that loaded the transfer earlier saves its copy later.
CompletedIsImmutable == [][Terminal => header' = header]_vars

=============================================================================
