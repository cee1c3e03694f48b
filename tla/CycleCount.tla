----------------------------- MODULE CycleCount -----------------------------
(***************************************************************************)
(* One cycle count, the stock adjustments, and the requests on both.       *)
(*                                                                         *)
(* Approving a count creates an adjustment for the lines that were counted *)
(* differently, approves it, which posts one inventory transaction per     *)
(* line, and only then approves the count.  As everywhere, a request works *)
(* on a copy it loaded, every statement commits on its own, and the        *)
(* request may die between two statements.                                 *)
(*                                                                         *)
(* Abstraction: a line of a count is its variance, a line of an adjustment *)
(* its difference, under the same id; all are at one location.  Counters,  *)
(* dates, notes and reasons are left out; so is the final rebuild of the   *)
(* projections (module InventoryLedger).                                   *)
(***************************************************************************)
EXTENDS Integers, Sequences, FiniteSetsExt

CONSTANTS
  Requests,       \* concurrent API requests
  Lines,          \* ids that lines may be given
  Variances,      \* counted minus system quantity
  Given,          \* the sheets callers hand in: functions from ids to variances
  NoCount,        \* no row in cycle_counts
  Offered,        \* the operations callers invoke
  MaxAdjustments, \* bound: adjustments
  MaxPostings,    \* bound: postings of one line of one adjustment
  MaxStarts       \* bound: requests started

ASSUME VariancesAssumption == Variances \subseteq Int /\ 0 \in Variances

ASSUME GivenAssumption ==
  Given \subseteq UNION { [s -> Variances] : s \in SUBSET Lines }

ASSUME BoundAssumption == MaxAdjustments \in Nat

VARIABLES
  count,          \* the row of cycle_counts, or NoCount
  lines,          \* the rows of cycle_count_lines: id -> variance
  adjustments,    \* stock_adjustments and their lines, by adjustment number
  posted,         \* posted[a][l]: how often the ledger holds l of a
  pc,             \* pc[r]: the next statement of request r
  copy,           \* copy[r]: its operation and its copies
  history         \* what the properties need to know of the past

vars == <<count, lines, adjustments, posted, pc, copy, history>>

Statuses == {"DRAFT", "ASSIGNED", "COUNTING", "REVIEW", "APPROVED", "CANCELLED"}

\* The variances of some lines.
Sheets == UNION { [s -> Variances] : s \in SUBSET Lines }

NoLines == [l \in {} |-> 0]

\* adjustment: the number in stockAdjustmentId, 0 if there is none.
Counts == [status : Statuses, adjustment : 0 .. MaxAdjustments]

\* No row is not a row.
ASSUME NoCountAssumption == NoCount \notin Counts

\* ofCount: the adjustment was generated by a count.
Adjustments == [status : {"PENDING", "APPROVED", "CANCELLED"}, lines : Sheets,
                ofCount : BOOLEAN]

CountOperations == {"create", "update", "assign", "start", "record", "approve",
                    "cancel", "delete"}

AdjustmentOperations == {"adjust", "approveAdjustment", "cancelAdjustment"}

(* count, lines: the copy of the count;                                      *)
(* number, status, sheet: the copy of an adjustment;                         *)
(* todo: lines the request has yet to post or insert;                        *)
(* wrote: it has posted or written something.                                *)
Idle == [op |-> "create", count |-> NoCount, lines |-> NoLines,
         number |-> 0, status |-> "PENDING", sheet |-> NoLines,
         todo |-> {}, wrote |-> FALSE]

(* There is no count yet, or one that has been worked on and saved, but not   *)
(* approved.                                                                 *)
(* history.overtaken: requests that read what another has written since;     *)
(* history.stale: a request posted or wrote that was one of them;            *)
(* history.cut: a request ended after some of its statements, not all;       *)
(* history.started: how many requests have started.                          *)
Init ==
  /\ \/ count = NoCount /\ lines = NoLines
     \/ /\ count \in [status : Statuses \ {"APPROVED"}, adjustment : {0}]
        /\ lines \in Given
  /\ adjustments = <<>>
  /\ posted = [a \in 1 .. MaxAdjustments |-> [l \in Lines |-> 0]]
  /\ pc = [r \in Requests |-> "idle"]
  /\ copy = [r \in Requests |-> Idle]
  /\ history = [overtaken |-> {}, stale |-> FALSE, cut |-> FALSE, started |-> 0]

Quiet == \A r \in Requests : pc[r] = "idle"

HasReadCount(q) == copy[q].op \in CountOperations /\ pc[q] # "idle"

HasReadAdjustment(q, a) ==
  /\ copy[q].number = a
  /\ pc[q] \in {"adjustLines", "findLines", "weigh", "post"}

\* r starts one of its operations.
Starting(r, op) ==
  /\ pc[r] = "idle"
  /\ op \in Offered
  /\ history.started < MaxStarts
  /\ history' = [history EXCEPT !.started = @ + 1]

\* The flags after r writes what the requests in readers have read.
Overtaking(r, readers) ==
  [history EXCEPT !.overtaken = @ \cup (readers \ {r}),
                  !.stale = @ \/ r \in history.overtaken]

ReadersOfCount == { q \in Requests : HasReadCount(q) }

ReadersOfAdjustment(a) == { q \in Requests : HasReadAdjustment(q, a) }

Writing(r, readers) == history' = Overtaking(r, readers)

Goto(r, label) == pc' = [pc EXCEPT ![r] = label]

\* The loop over the lines at this label has come to its end.
Through(r, label) == pc[r] = label /\ copy[r].todo = {}

\* The request ends, with these flags set but for its own.
End(r, flags) ==
  /\ Goto(r, "idle")
  /\ copy' = [copy EXCEPT ![r] = Idle]
  /\ history' = [flags EXCEPT !.overtaken = @ \ {r}]

-----------------------------------------------------------------------------
(* Creating and loading the count. *)

\* A new DRAFT; the caller may already give counted quantities.
Create(r, new) ==
  /\ Starting(r, "create")
  /\ history.started = 0 /\ count = NoCount
  /\ copy' = [copy EXCEPT ![r] =
       [Idle EXCEPT !.count = [status |-> "DRAFT", adjustment |-> 0],
                    !.lines = new]]
  /\ Goto(r, "header")
  /\ UNCHANGED <<count, lines, adjustments, posted>>

\* findOne: the header is selected first.
LoadCount(r, op) ==
  /\ Starting(r, op)
  /\ op \in CountOperations \ {"create"}
  /\ count # NoCount
  /\ copy' = [copy EXCEPT ![r] = [Idle EXCEPT !.op = op, !.count = count]]
  /\ Goto(r, "load")
  /\ UNCHANGED <<count, lines, adjustments, posted>>

\* Then its lines.
LoadLines(r) ==
  /\ pc[r] = "load"
  /\ copy' = [copy EXCEPT ![r].lines = lines]
  /\ Goto(r, "decide")
  /\ UNCHANGED <<count, lines, adjustments, posted, history>>

-----------------------------------------------------------------------------
(* The operations on the copy of the count.  Each runs to its next await.   *)

Deciding(r, op, statuses) ==
  /\ pc[r] = "decide"
  /\ copy[r].op = op
  /\ copy[r].count.status \in statuses
  /\ UNCHANGED <<count, lines, adjustments, posted, history>>

\* The copy changes and is saved.
SaveCopy(r, status, sheet) ==
  /\ copy' = [copy EXCEPT ![r].count.status = status, ![r].lines = sheet]
  /\ Goto(r, "header")

\* update(): the header, and the lines when they are given.
Update(r, new) ==
  /\ Deciding(r, "update", {"DRAFT"})
  /\ SaveCopy(r, "DRAFT", new)

AssignCounter(r) ==
  /\ Deciding(r, "assign", {"DRAFT", "ASSIGNED"})
  /\ SaveCopy(r, "ASSIGNED", copy[r].lines)

StartCounting(r) ==
  /\ Deciding(r, "start", {"DRAFT", "ASSIGNED", "COUNTING"})
  /\ SaveCopy(r, "COUNTING", copy[r].lines)

\* Mutation: the counts are closed under a status the schema does not know.
RecordPhysicalCounts_Counted(r, counted) ==
  /\ Deciding(r, "record", {"DRAFT", "ASSIGNED", "COUNTING"})
  /\ DOMAIN counted = DOMAIN copy[r].lines
  /\ SaveCopy(r, "COUNTED", counted)

\* The counts given replace the variances of their lines, and the count is up
\* for review, also when no count was given.
RecordPhysicalCounts(r, counted) ==
  /\ Deciding(r, "record", {"DRAFT", "ASSIGNED", "COUNTING"})
  /\ DOMAIN counted = DOMAIN copy[r].lines
  /\ SaveCopy(r, "REVIEW", counted)

Cancel(r) ==
  /\ Deciding(r, "cancel", Statuses \ {"APPROVED", "CANCELLED"})
  /\ SaveCopy(r, "CANCELLED", copy[r].lines)

Delete(r) ==
  /\ Deciding(r, "delete", {"DRAFT"})
  /\ Goto(r, "delete")
  /\ UNCHANGED copy

\* Mutation: only the lines with a surplus are reconciled.
Discrepancies_Surplus(sheet) == { l \in DOMAIN sheet : sheet[l] > 0 }

Discrepancies(sheet) == { l \in DOMAIN sheet : sheet[l] # 0 }

\* The next statement of an approval: to make an adjustment for the lines of
\* the count that differ, or to settle the count if there are none.
Reconcile(r) ==
  LET differing == Discrepancies(copy[r].lines)
  IN  /\ copy' = [copy EXCEPT ![r].sheet =
                    [l \in differing |-> copy[r].lines[l]]]
      /\ Goto(r, IF differing = {} THEN "settle" ELSE "number")

\* approve(): an approved count is returned as it is; the aggregate checks
\* every other status only at the end (Settle).
Approve(r) ==
  /\ Deciding(r, "approve", Statuses \ {"APPROVED"})
  /\ Reconcile(r)

-----------------------------------------------------------------------------
(* Creating an adjustment: on its own, or for a count.                      *)

\* create() with the lines the caller gives, equal quantities included.
CreateAdjustment(r, sheet) ==
  /\ Starting(r, "adjust")
  /\ DOMAIN sheet # {}
  /\ copy' = [copy EXCEPT ![r] = [Idle EXCEPT !.op = "adjust", !.sheet = sheet]]
  /\ Goto(r, "number")
  /\ UNCHANGED <<count, lines, adjustments, posted>>

\* The next number: the adjustments there are, and one more.
GenerateNumber(r) ==
  /\ pc[r] = "number"
  /\ Len(adjustments) < MaxAdjustments
  /\ copy' = [copy EXCEPT ![r].number = Len(adjustments) + 1]
  /\ Goto(r, "adjust")
  /\ UNCHANGED <<count, lines, adjustments, posted, history>>

\* save(): the header is inserted, unless the number has been taken.
InsertAdjustment(r) ==
  /\ pc[r] = "adjust"
  /\ copy[r].number = Len(adjustments) + 1
  /\ adjustments' = Append(adjustments,
       [status |-> "PENDING", lines |-> NoLines, ofCount |-> copy[r].op = "approve"])
  /\ copy' = [copy EXCEPT ![r].todo = DOMAIN copy[r].sheet, ![r].wrote = TRUE]
  /\ Goto(r, "adjustLines")
  /\ Writing(r, ReadersOfAdjustment(copy[r].number))
  /\ UNCHANGED <<count, lines, posted>>

\* save(): a line is inserted.
InsertAdjustmentLine(r, l) ==
  /\ pc[r] = "adjustLines"
  /\ l \in copy[r].todo
  /\ adjustments' = [adjustments EXCEPT ![copy[r].number].lines =
                       [k \in DOMAIN @ \cup {l} |-> copy[r].sheet[k]]]
  /\ copy' = [copy EXCEPT ![r].todo = @ \ {l}]
  /\ Writing(r, ReadersOfAdjustment(copy[r].number))
  /\ UNCHANGED <<count, lines, posted, pc>>

-----------------------------------------------------------------------------
(* Approving or cancelling an adjustment.                                   *)

ResolveAdjustment(r, op, a) ==
  /\ Starting(r, op)
  /\ op \in {"approveAdjustment", "cancelAdjustment"}
  /\ copy' = [copy EXCEPT ![r] = [Idle EXCEPT !.op = op, !.number = a]]
  /\ Goto(r, "find")
  /\ UNCHANGED <<count, lines, adjustments, posted>>

\* findOne: the header first, then the lines.  (The adjustment of a count is
\* approved as soon as it is created.)
FindAdjustment(r) ==
  /\ \/ pc[r] = "find"
     \/ Through(r, "adjustLines") /\ copy[r].op = "approve"
  /\ copy' = [copy EXCEPT ![r].status = adjustments[copy[r].number].status]
  /\ Goto(r, "findLines")
  /\ UNCHANGED <<count, lines, adjustments, posted, history>>

FindAdjustmentLines(r) ==
  /\ pc[r] = "findLines"
  /\ copy' = [copy EXCEPT ![r].sheet = adjustments[copy[r].number].lines]
  /\ Goto(r, "weigh")
  /\ UNCHANGED <<count, lines, adjustments, posted, history>>

\* The copy of the adjustment has one of these statuses and gets another.
Resolving(r, statuses, status, todo, label) ==
  /\ pc[r] = "weigh"
  /\ copy[r].status \in statuses
  /\ copy' = [copy EXCEPT ![r].status = status, ![r].todo = todo]
  /\ Goto(r, label)
  /\ UNCHANGED <<count, lines, adjustments, posted, history>>

\* Mutation: lines are posted before the status is looked at.
ApproveAdjustment_Again(r) ==
  /\ copy[r].op \in {"approve", "approveAdjustment"}
  /\ Resolving(r, {"PENDING", "APPROVED"}, "APPROVED",
               Discrepancies(copy[r].sheet), "post")

\* The lines that differ are posted, and then the new status is saved.
ApproveAdjustment(r) ==
  /\ copy[r].op \in {"approve", "approveAdjustment"}
  /\ Resolving(r, {"PENDING"}, "APPROVED", Discrepancies(copy[r].sheet), "post")

\* Mutation: an approved adjustment can be cancelled.
CancelAdjustment_Approved(r) ==
  /\ copy[r].op = "cancelAdjustment"
  /\ Resolving(r, {"PENDING", "APPROVED"}, "CANCELLED", {}, "post")

CancelAdjustment(r) ==
  /\ copy[r].op = "cancelAdjustment"
  /\ Resolving(r, {"PENDING"}, "CANCELLED", {}, "post")

\* inventoryTransactionsService.create for one line.
Post(r, l) ==
  LET a == copy[r].number
  IN  /\ pc[r] = "post"
      /\ l \in copy[r].todo
      /\ posted[a][l] < MaxPostings
      /\ posted' = [posted EXCEPT ![a][l] = @ + 1]
      /\ copy' = [copy EXCEPT ![r].todo = @ \ {l}, ![r].wrote = TRUE]
      /\ Writing(r, {})
      /\ UNCHANGED <<count, lines, adjustments, pc>>

\* save(): the new status.  (Its lines are written back as they were read.)
SaveAdjustment(r) ==
  LET a == copy[r].number
  IN  /\ Through(r, "post")
      /\ adjustments' = [adjustments EXCEPT ![a].status = copy[r].status]
      /\ IF copy[r].op = "approve"
         THEN /\ Goto(r, "settle")
              /\ copy' = [copy EXCEPT ![r].wrote = TRUE]
              /\ Writing(r, ReadersOfAdjustment(a))
         ELSE End(r, Overtaking(r, ReadersOfAdjustment(a)))
      /\ UNCHANGED <<count, lines, posted>>

-----------------------------------------------------------------------------
(* Settling, saving and deleting the count.                                 *)

\* Mutation: the count does not keep the adjustment it was reconciled by.
Settle_Nameless(r) ==
  /\ pc[r] = "settle"
  /\ copy[r].count.status \in {"REVIEW", "COUNTING"}
  /\ SaveCopy(r, "APPROVED", copy[r].lines)
  /\ UNCHANGED <<count, lines, adjustments, posted, history>>

\* CycleCount.approve, which refuses any other status (Abort).
Settle(r) ==
  /\ pc[r] = "settle"
  /\ copy[r].count.status \in {"REVIEW", "COUNTING"}
  /\ copy' = [copy EXCEPT ![r].count =
       [status |-> "APPROVED",
        adjustment |-> IF copy[r].number = 0 THEN @.adjustment ELSE copy[r].number]]
  /\ Goto(r, "header")
  /\ UNCHANGED <<count, lines, adjustments, posted, history>>

\* save(): the header is inserted or updated.
SaveHeader(r) ==
  /\ pc[r] = "header"
  /\ count' = copy[r].count
  /\ copy' = [copy EXCEPT ![r].wrote = TRUE]
  /\ Goto(r, "erase")
  /\ Writing(r, ReadersOfCount)
  /\ UNCHANGED <<lines, adjustments, posted>>

\* save(): the lines are deleted.
EraseLines(r) ==
  /\ pc[r] = "erase"
  /\ lines' = NoLines
  /\ copy' = [copy EXCEPT ![r].todo = DOMAIN copy[r].lines]
  /\ Goto(r, "insert")
  /\ Writing(r, ReadersOfCount)
  /\ UNCHANGED <<count, adjustments, posted>>

\* save(): a line is inserted, unless its id is taken or the header is gone.
InsertLine(r, l) ==
  /\ pc[r] = "insert"
  /\ l \in copy[r].todo \ DOMAIN lines
  /\ count # NoCount
  /\ lines' = [k \in DOMAIN lines \cup {l} |->
                 IF k = l THEN copy[r].lines[l] ELSE lines[k]]
  /\ copy' = [copy EXCEPT ![r].todo = @ \ {l}]
  /\ Writing(r, ReadersOfCount)
  /\ UNCHANGED <<count, adjustments, posted, pc>>

\* delete(): the row goes, whatever its status is by now, with its lines.
DeleteRow(r) ==
  /\ pc[r] = "delete"
  /\ count' = NoCount
  /\ lines' = NoLines
  /\ End(r, Overtaking(r, ReadersOfCount))
  /\ UNCHANGED <<adjustments, posted>>

\* Every line is saved.
Return(r) ==
  /\ \/ Through(r, "adjustLines") /\ copy[r].op = "adjust"
     \/ Through(r, "insert")
  /\ End(r, history)
  /\ UNCHANGED <<count, lines, adjustments, posted>>

\* The request throws or dies: its copy does not allow the operation, the
\* number is taken, a statement is refused, the process stops.
Abort(r) ==
  /\ pc[r] # "idle"
  /\ End(r, [history EXCEPT !.cut = @ \/ copy[r].wrote])
  /\ UNCHANGED <<count, lines, adjustments, posted>>

-----------------------------------------------------------------------------

Step(r) ==
  \/ \E new \in Given : Create(r, new)
  \/ \E op \in CountOperations : LoadCount(r, op)
  \/ LoadLines(r)
  \/ \E new \in Given : Update(r, new)
  \/ AssignCounter(r)
  \/ StartCounting(r)
  \/ \E counted \in Sheets : RecordPhysicalCounts(r, counted)
  \/ Cancel(r)
  \/ Delete(r)
  \/ Approve(r)
  \/ \E sheet \in Given : CreateAdjustment(r, sheet)
  \/ GenerateNumber(r)
  \/ InsertAdjustment(r)
  \/ \E l \in Lines : InsertAdjustmentLine(r, l)
  \/ \E op \in AdjustmentOperations, a \in DOMAIN adjustments :
       ResolveAdjustment(r, op, a)
  \/ FindAdjustment(r)
  \/ FindAdjustmentLines(r)
  \/ ApproveAdjustment(r)
  \/ CancelAdjustment(r)
  \/ \E l \in Lines : Post(r, l)
  \/ SaveAdjustment(r)
  \/ Settle(r)
  \/ SaveHeader(r)
  \/ EraseLines(r)
  \/ \E l \in Lines : InsertLine(r, l)
  \/ DeleteRow(r)
  \/ Return(r)
  \/ Abort(r)

Next == \E r \in Requests : Step(r)

Spec == Init /\ [][Next]_vars

-----------------------------------------------------------------------------
(* Properties. *)

Labels == {"idle", "load", "decide", "number", "adjust", "adjustLines", "find",
           "findLines", "weigh", "post", "settle", "header", "erase",
           "insert", "delete"}

Copies == [op : CountOperations \cup AdjustmentOperations,
           count : Counts \cup {NoCount}, lines : Sheets,
           number : 0 .. MaxAdjustments, status : {"PENDING", "APPROVED", "CANCELLED"},
           sheet : Sheets, todo : SUBSET Lines, wrote : BOOLEAN]

TypeOK ==
  /\ count \in Counts \cup {NoCount}
  /\ lines \in Sheets
  /\ adjustments \in Seq(Adjustments)
  /\ posted \in [1 .. MaxAdjustments -> [Lines -> Nat]]
  /\ pc \in [Requests -> Labels]
  /\ copy \in [Requests -> Copies]
  /\ history \in [overtaken : SUBSET Requests, stale : BOOLEAN, cut : BOOLEAN,
                  started : Nat]

Approved == count # NoCount /\ count.status = "APPROVED"

\* As long as no request acts on what another has overtaken, and none is cut
\* short, an adjustment is posted, line by line and once, if and only if it is
\* approved; nothing is ever posted for a line that does not differ.  (The
\* postings and the new status are separate statements; a count and a caller
\* may resolve one adjustment at the same time.)
AdjustmentPostedOnce ==
  ~history.stale /\ ~history.cut /\ Quiet =>
    \A a \in DOMAIN adjustments, l \in Lines :
      posted[a][l] =
        IF /\ adjustments[a].status = "APPROVED"
           /\ l \in Discrepancies(adjustments[a].lines)
        THEN 1 ELSE 0

Ledger == INSTANCE LedgerArithmetic WITH Locations <- {"bin"}, NoLocation <- "none"

\* The transaction approving adjustment a posts for its line l: a surplus goes
\* to the location, a shortage comes from it.
TransactionOf(a, l) ==
  LET difference == adjustments[a].lines[l]
  IN  [ type |-> "Adjustment",
        qty  |-> IF difference > 0 THEN difference ELSE -difference,
        src  |-> IF difference > 0 THEN "none" ELSE "bin",
        dst  |-> IF difference > 0 THEN "bin" ELSE "none" ]

\* By how much the postings for counts have changed the quantity on hand of
\* line l, as the projection calculates it.
BookedForCounts(l) ==
  LET of == { a \in DOMAIN adjustments :
                adjustments[a].ofCount /\ l \in DOMAIN adjustments[a].lines }
  IN  MapThenSumSet(LAMBDA a : posted[a][l] * Ledger!Effect(TransactionOf(a, l), "bin"), of)

Size(variance) == IF variance > 0 THEN variance ELSE -variance

\* As long as no request acts on what another has overtaken, and none is cut
\* short, over any number of approvals, the quantity on hand of a line has
\* changed once, by the size of its variance, if its count is approved, and not
\* at all if it is not.  (approve() posts through another document, and reaches
\* the status of its own last.)  The size and not the variance: the ledger adds
\* for an Adjustment at either location, so that a shortage raises the quantity
\* too (PostingsMoveStockByDifference).  To approve a count that is not up for
\* review is to be cut short: the adjustment is posted, then approve() throws
\* (OnlyReviewedCountsPost).
CountPostedOnce ==
  ~history.stale /\ ~history.cut /\ Quiet =>
    \A l \in DOMAIN lines :
      BookedForCounts(l) = IF Approved THEN Size(lines[l]) ELSE 0

\* Requests may die at any statement: an approved count names an approved
\* adjustment with every line that differed, and each of them was posted.
ApprovedIsReconciled ==
  ~history.stale /\ Approved =>
    \A l \in Discrepancies(lines) :
      \E a \in DOMAIN adjustments :
        /\ a = count.adjustment
        /\ adjustments[a].status = "APPROVED"
        /\ adjustments[a].lines[l] = lines[l]
        /\ posted[a][l] > 0

\* Unless a request acts on what another has overtaken, an adjustment that is
\* approved or cancelled keeps its status and lines and is not posted again; an
\* approved count stays approved and names the same adjustment, and no
\* adjustment is made for it any more.
ResolutionsStand ==
  [][ ~history'.stale =>
        /\ \A a \in DOMAIN adjustments :
             adjustments[a].status # "PENDING" =>
               adjustments'[a] = adjustments[a] /\ posted'[a] = posted[a]
        /\ Approved =>
             /\ count' = count
             /\ \A a \in DOMAIN adjustments' :
                  adjustments'[a].ofCount => a \in DOMAIN adjustments ]_vars

-----------------------------------------------------------------------------
(* Statements of the code about itself that it does not keep. *)

\* The aggregate approves a count only under review or while counting; so an
\* adjustment of the count is posted only then.
OnlyReviewedCountsPost ==
  [][ \A r \in Requests, l \in Lines :
        copy[r].op = "approve" /\ Post(r, l) =>
          copy[r].count.status \in {"REVIEW", "COUNTING"} ]_vars

\* "Stock addition -> destination location", "Stock removal -> source
\* location": what is posted moves the quantity on hand by the difference.
PostingsMoveStockByDifference ==
  \A a \in DOMAIN adjustments : \A l \in DOMAIN adjustments[a].lines :
    posted[a][l] > 0 =>
      Ledger!Effect(TransactionOf(a, l), "bin") = adjustments[a].lines[l]

=============================================================================
