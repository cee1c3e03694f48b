------------------------ MODULE CycleCountProofs ------------------------
(***************************************************************************)
(* The cycle counts keep their promises for any set of requests, lines and *)
(* variances, any number of adjustments, and any interleaving of their     *)
(* statements.  CountInv, the inductive invariant, has five parts:         *)
(*                                                                         *)
(*  - CopyInv: where each request is, and what its copy holds there.  An   *)
(*    adjustment that is being written has one maker, whose copy of it is  *)
(*    the row, and nobody else works on a count that is being created.     *)
(*  - KnowledgeInv: what a request that nobody has overtaken has read is   *)
(*    still what the tables hold.                                          *)
(*  - ReconInv: an approved count, or one that is about to be saved as     *)
(*    approved, differs nowhere or has an approved adjustment with every   *)
(*    line that differs, each of them posted.                              *)
(*  - PostedInv: the ledger holds an adjustment as its status says, or as  *)
(*    the one request that is posting it has got with its lines, or there  *)
(*    are several, of which the first to save overtakes the others.        *)
(*  - BalanceInv: the same of the adjustments that belong to the count.    *)
(*                                                                         *)
(* The last two are why a promise about quiet states can be kept: what two *)
(* requests have both begun cannot end well for both, and the one that     *)
(* does not end well leaves the flag of a stale or a cut request behind.   *)
(***************************************************************************)
EXTENDS CycleCount, TLAPS

-----------------------------------------------------------------------------
(* The steps as turns: one request takes a copy to a label. *)

\* r goes on with this copy at this label; the other requests stand still.
Turn(r, c, label) ==
  /\ copy' = [copy EXCEPT ![r] = c]
  /\ pc' = [pc EXCEPT ![r] = label]

\* What the requests share.
Tables == <<count, lines, adjustments, posted>>

LEMMA TurnIs ==
  ASSUME copy \in [Requests -> Copies], pc \in [Requests -> Labels],
         NEW r \in Requests, NEW c, NEW label, Turn(r, c, label)
  PROVE  /\ copy'[r] = c /\ pc'[r] = label
         /\ \A q \in Requests \ {r} : copy'[q] = copy[q] /\ pc'[q] = pc[q]
  BY DEF Turn

\* What reconcile puts into the adjustment.
Differing(sheet) == [l \in Discrepancies(sheet) |-> sheet[l]]

\* The copy as an operation gives it to save.
Saved(c, status, sheet) ==
  [c EXCEPT !.count = [c.count EXCEPT !.status = status], !.lines = sheet]

LEMMA LoadTurns ==
  ASSUME TypeOK, NEW r \in Requests
  PROVE  /\ \A new \in Given : Create(r, new) =>
              Turn(r, [Idle EXCEPT !.count = [status |-> "DRAFT", adjustment |-> 0],
                                   !.lines = new], "header")
         /\ \A op \in CountOperations : LoadCount(r, op) =>
              Turn(r, [Idle EXCEPT !.op = op, !.count = count], "load")
         /\ LoadLines(r) => Turn(r, [copy[r] EXCEPT !.lines = lines], "decide")
  BY DEF TypeOK, Turn, Create, LoadCount, LoadLines, Goto

LEMMA SaveCopyTurn ==
  ASSUME TypeOK, NEW r \in Requests, NEW status, NEW sheet, SaveCopy(r, status, sheet)
  PROVE  Turn(r, Saved(copy[r], status, sheet), "header")
<1>1. copy[r] \in Copies
  BY DEF TypeOK
<1>2. copy' = [copy EXCEPT ![r] = [copy[r] EXCEPT !.count = [copy[r].count EXCEPT !.status = status],
                                                  !.lines = sheet]]
  BY <1>1 DEF SaveCopy, TypeOK
<1> QED
  BY <1>2 DEF SaveCopy, Turn, Goto, Saved

LEMMA DecideTurns ==
  ASSUME TypeOK, NEW r \in Requests
  PROVE  /\ \A new : Update(r, new) => Turn(r, Saved(copy[r], "DRAFT", new), "header")
         /\ AssignCounter(r) => Turn(r, Saved(copy[r], "ASSIGNED", copy[r].lines), "header")
         /\ StartCounting(r) => Turn(r, Saved(copy[r], "COUNTING", copy[r].lines), "header")
         /\ \A counted : RecordPhysicalCounts(r, counted) =>
              Turn(r, Saved(copy[r], "REVIEW", counted), "header")
         /\ Cancel(r) => Turn(r, Saved(copy[r], "CANCELLED", copy[r].lines), "header")
         /\ Delete(r) => Turn(r, copy[r], "delete")
         /\ Approve(r) => Turn(r, [copy[r] EXCEPT !.sheet = Differing(copy[r].lines)],
              IF Discrepancies(copy[r].lines) = {} THEN "settle" ELSE "number")
<1>1. Delete(r) => Turn(r, copy[r], "delete")
  BY DEF TypeOK, Delete, Goto, Turn
<1>2. Approve(r) => Turn(r, [copy[r] EXCEPT !.sheet = Differing(copy[r].lines)],
              IF Discrepancies(copy[r].lines) = {} THEN "settle" ELSE "number")
  BY DEF TypeOK, Approve, Reconcile, Differing, Goto, Turn
<1> QED
  BY <1>1, <1>2, SaveCopyTurn DEF Update, AssignCounter, StartCounting, RecordPhysicalCounts, Cancel

LEMMA AdjustTurns ==
  ASSUME TypeOK, NEW r \in Requests
  PROVE  /\ \A sheet : CreateAdjustment(r, sheet) =>
              Turn(r, [Idle EXCEPT !.op = "adjust", !.sheet = sheet], "number")
         /\ GenerateNumber(r) =>
              Turn(r, [copy[r] EXCEPT !.number = Len(adjustments) + 1], "adjust")
         /\ InsertAdjustment(r) =>
              Turn(r, [copy[r] EXCEPT !.todo = DOMAIN copy[r].sheet, !.wrote = TRUE], "adjustLines")
         /\ \A l : InsertAdjustmentLine(r, l) =>
              Turn(r, [copy[r] EXCEPT !.todo = copy[r].todo \ {l}], "adjustLines")
         /\ \A op, a : ResolveAdjustment(r, op, a) =>
              Turn(r, [Idle EXCEPT !.op = op, !.number = a], "find")
         /\ FindAdjustment(r) =>
              Turn(r, [copy[r] EXCEPT !.status = adjustments[copy[r].number].status], "findLines")
         /\ FindAdjustmentLines(r) =>
              Turn(r, [copy[r] EXCEPT !.sheet = adjustments[copy[r].number].lines], "weigh")
         /\ ApproveAdjustment(r) =>
              Turn(r, [copy[r] EXCEPT !.status = "APPROVED", !.todo = Discrepancies(copy[r].sheet)], "post")
         /\ CancelAdjustment(r) =>
              Turn(r, [copy[r] EXCEPT !.status = "CANCELLED", !.todo = {}], "post")
         /\ \A l : Post(r, l) =>
              Turn(r, [copy[r] EXCEPT !.todo = copy[r].todo \ {l}, !.wrote = TRUE], "post")
         /\ SaveAdjustment(r) =>
              IF copy[r].op = "approve"
              THEN Turn(r, [copy[r] EXCEPT !.wrote = TRUE], "settle")
              ELSE Turn(r, Idle, "idle")
<1>1. /\ \A sheet : CreateAdjustment(r, sheet) =>
              Turn(r, [Idle EXCEPT !.op = "adjust", !.sheet = sheet], "number")
      /\ \A op, a : ResolveAdjustment(r, op, a) =>
              Turn(r, [Idle EXCEPT !.op = op, !.number = a], "find")
  BY DEF CreateAdjustment, ResolveAdjustment, Goto, Turn
<1>2. /\ GenerateNumber(r) =>
              Turn(r, [copy[r] EXCEPT !.number = Len(adjustments) + 1], "adjust")
      /\ InsertAdjustment(r) =>
              Turn(r, [copy[r] EXCEPT !.todo = DOMAIN copy[r].sheet, !.wrote = TRUE], "adjustLines")
  BY DEF TypeOK, GenerateNumber, InsertAdjustment, Goto, Turn
<1>3. \A l : InsertAdjustmentLine(r, l) =>
              Turn(r, [copy[r] EXCEPT !.todo = copy[r].todo \ {l}], "adjustLines")
  BY DEF TypeOK, InsertAdjustmentLine, Turn
<1>4. /\ FindAdjustment(r) =>
              Turn(r, [copy[r] EXCEPT !.status = adjustments[copy[r].number].status], "findLines")
      /\ FindAdjustmentLines(r) =>
              Turn(r, [copy[r] EXCEPT !.sheet = adjustments[copy[r].number].lines], "weigh")
  BY DEF TypeOK, FindAdjustment, FindAdjustmentLines, Goto, Turn
<1>5. /\ ApproveAdjustment(r) =>
              Turn(r, [copy[r] EXCEPT !.status = "APPROVED", !.todo = Discrepancies(copy[r].sheet)], "post")
      /\ CancelAdjustment(r) =>
              Turn(r, [copy[r] EXCEPT !.status = "CANCELLED", !.todo = {}], "post")
  BY DEF TypeOK, ApproveAdjustment, CancelAdjustment, Resolving, Goto, Turn
<1>6. \A l : Post(r, l) =>
              Turn(r, [copy[r] EXCEPT !.todo = copy[r].todo \ {l}, !.wrote = TRUE], "post")
  <2> SUFFICES ASSUME NEW l, Post(r, l)
               PROVE  Turn(r, [copy[r] EXCEPT !.todo = copy[r].todo \ {l}, !.wrote = TRUE], "post")
    OBVIOUS
  <2>1. copy' = [copy EXCEPT ![r].todo = @ \ {l}, ![r].wrote = TRUE] /\ pc' = pc /\ pc[r] = "post"
    BY DEF Post
  <2> QED
    BY <2>1 DEF TypeOK, Turn
<1>7. SaveAdjustment(r) =>
              IF copy[r].op = "approve"
              THEN Turn(r, [copy[r] EXCEPT !.wrote = TRUE], "settle")
              ELSE Turn(r, Idle, "idle")
  BY DEF TypeOK, SaveAdjustment, End, Goto, Turn
<1> QED
  BY <1>1, <1>2, <1>3, <1>4, <1>5, <1>6, <1>7

LEMMA SaveTurns ==
  ASSUME TypeOK, NEW r \in Requests
  PROVE  /\ Settle(r) =>
              Turn(r, [copy[r] EXCEPT !.count =
                [status |-> "APPROVED",
                 adjustment |-> IF copy[r].number = 0 THEN copy[r].count.adjustment
                                ELSE copy[r].number]], "header")
         /\ SaveHeader(r) => Turn(r, [copy[r] EXCEPT !.wrote = TRUE], "erase")
         /\ EraseLines(r) => Turn(r, [copy[r] EXCEPT !.todo = DOMAIN copy[r].lines], "insert")
         /\ \A l : InsertLine(r, l) =>
              Turn(r, [copy[r] EXCEPT !.todo = copy[r].todo \ {l}], "insert")
         /\ DeleteRow(r) \/ Return(r) \/ Abort(r) => Turn(r, Idle, "idle")
<1>1. Settle(r) =>
              Turn(r, [copy[r] EXCEPT !.count =
                [status |-> "APPROVED",
                 adjustment |-> IF copy[r].number = 0 THEN copy[r].count.adjustment
                                ELSE copy[r].number]], "header")
  BY DEF TypeOK, Settle, Goto, Turn
<1>2. /\ SaveHeader(r) => Turn(r, [copy[r] EXCEPT !.wrote = TRUE], "erase")
      /\ EraseLines(r) => Turn(r, [copy[r] EXCEPT !.todo = DOMAIN copy[r].lines], "insert")
  BY DEF TypeOK, SaveHeader, EraseLines, Goto, Turn
<1>3. \A l : InsertLine(r, l) =>
              Turn(r, [copy[r] EXCEPT !.todo = copy[r].todo \ {l}], "insert")
  BY DEF TypeOK, InsertLine, Turn
<1>4. DeleteRow(r) \/ Return(r) \/ Abort(r) => Turn(r, Idle, "idle")
  BY DEF TypeOK, DeleteRow, Return, Abort, End, Goto, Turn
<1> QED
  BY <1>1, <1>2, <1>3, <1>4

-----------------------------------------------------------------------------
(* Types. *)

LEMMA SheetsClosed ==
  /\ NoLines \in Sheets
  /\ Given \subseteq Sheets
  /\ \A s \in Sheets : DOMAIN s \subseteq Lines /\ \A l \in DOMAIN s : s[l] \in Variances
  /\ \A s \in Sheets, D \in SUBSET Lines :
       D \subseteq DOMAIN s => [l \in D |-> s[l]] \in Sheets
  /\ \A s \in Sheets : Differing(s) \in Sheets
<1>1. NoLines \in Sheets
  BY DEF NoLines, Sheets
<1>2. Given \subseteq Sheets
  BY GivenAssumption DEF Sheets
<1>3. \A s \in Sheets : DOMAIN s \subseteq Lines /\ \A l \in DOMAIN s : s[l] \in Variances
  BY DEF Sheets
<1>4. ASSUME NEW s \in Sheets, NEW D \in SUBSET Lines, D \subseteq DOMAIN s
      PROVE  [l \in D |-> s[l]] \in Sheets
  <2>1. [l \in D |-> s[l]] \in [D -> Variances]
    BY <1>3, <1>4
  <2> QED
    BY <2>1 DEF Sheets
<1>5. ASSUME NEW s \in Sheets
      PROVE  Differing(s) \in Sheets
  <2>1. Discrepancies(s) \in SUBSET Lines /\ Discrepancies(s) \subseteq DOMAIN s
    BY <1>3 DEF Discrepancies
  <2> QED
    BY <1>4, <2>1 DEF Differing
<1> QED
  BY <1>1, <1>2, <1>3, <1>4, <1>5

LEMMA CountsTyped ==
  /\ \A c \in Counts, s \in Statuses : [c EXCEPT !.status = s] \in Counts
  /\ \A c \in Counts : c.status \in Statuses /\ c.adjustment \in 0 .. MaxAdjustments
  /\ \A s \in Statuses, n \in 0 .. MaxAdjustments : [status |-> s, adjustment |-> n] \in Counts
  BY DEF Counts

LEMMA IdleTyped == Idle \in Copies
  BY BoundAssumption, SheetsClosed DEF Idle, Copies, CountOperations

LEMMA CopyFields ==
  ASSUME NEW c \in Copies
  PROVE  /\ c.op \in CountOperations \cup AdjustmentOperations
         /\ c.count \in Counts \cup {NoCount}
         /\ c.lines \in Sheets
         /\ c.number \in 0 .. MaxAdjustments
         /\ c.status \in {"PENDING", "APPROVED", "CANCELLED"}
         /\ c.sheet \in Sheets
         /\ c.todo \in SUBSET Lines
         /\ c.wrote \in BOOLEAN
  BY DEF Copies

Histories == [overtaken : SUBSET Requests, stale : BOOLEAN, cut : BOOLEAN, started : Nat]

\* What a step of r does to the flags, when the requests in "readers" have read
\* what it writes.
Flags(r, readers, writes, cuts) ==
  /\ history' \in Histories
  /\ \A q \in Requests \ {r} :
       q \in history'.overtaken <=> q \in history.overtaken \/ q \in readers
  /\ r \in history'.overtaken <=> r \in history.overtaken /\ pc'[r] # "idle"
  /\ history'.stale <=> history.stale \/ (writes /\ r \in history.overtaken)
  /\ history'.cut <=> history.cut \/ cuts
  /\ history'.started >= history.started

LEMMA OvertakingTyped ==
  ASSUME history \in Histories, NEW r \in Requests, NEW readers \in SUBSET Requests
  PROVE  /\ Overtaking(r, readers) \in Histories
         /\ Overtaking(r, readers).overtaken = history.overtaken \cup (readers \ {r})
         /\ Overtaking(r, readers).stale <=> history.stale \/ r \in history.overtaken
         /\ Overtaking(r, readers).cut = history.cut
         /\ Overtaking(r, readers).started = history.started
<1> DEFINE b == history.stale \/ r \in history.overtaken
           h == [history EXCEPT !.overtaken = history.overtaken \cup (readers \ {r})]
<1>1. b \in BOOLEAN
  OBVIOUS
<1>2. h \in Histories /\ h.overtaken = history.overtaken \cup (readers \ {r})
       /\ h.cut = history.cut /\ h.started = history.started
  BY DEF Histories
<1>3. Overtaking(r, readers) = [h EXCEPT !.stale = b]
  BY DEF Overtaking, Histories
<1> HIDE DEF b, h
<1>4. /\ [h EXCEPT !.stale = b] \in Histories
      /\ [h EXCEPT !.stale = b].overtaken = h.overtaken
      /\ [h EXCEPT !.stale = b].stale = b
      /\ [h EXCEPT !.stale = b].cut = h.cut
      /\ [h EXCEPT !.stale = b].started = h.started
  BY <1>1, <1>2 DEF Histories
<1> QED
  BY <1>2, <1>3, <1>4 DEF b

\* The request ends with these flags but for its own.
LEMMA EndFlags ==
  ASSUME NEW r \in Requests, NEW flags \in Histories, End(r, flags)
  PROVE  /\ history' \in Histories
         /\ history'.overtaken = flags.overtaken \ {r}
         /\ history'.stale = flags.stale /\ history'.cut = flags.cut
         /\ history'.started = flags.started
  BY DEF End, Histories

LEMMA LoadingFlags ==
  ASSUME history \in Histories, NEW r \in Requests, pc'[r] # "idle",
         history' = history \/ history' = [history EXCEPT !.started = @ + 1]
  PROVE  Flags(r, {}, FALSE, FALSE)
<1>1. CASE history' = history
  BY <1>1 DEF Flags, Histories
<1>2. CASE history' = [history EXCEPT !.started = @ + 1]
  <2>1. /\ history' \in Histories
        /\ history'.overtaken = history.overtaken
        /\ history'.stale = history.stale /\ history'.cut = history.cut
        /\ history'.started = history.started + 1 /\ history.started \in Nat
    BY <1>2 DEF Histories
  <2> QED
    BY <2>1 DEF Flags
<1> QED
  BY <1>1, <1>2

LEMMA WritingFlags ==
  ASSUME history \in Histories, NEW r \in Requests, pc'[r] # "idle",
         NEW readers \in SUBSET Requests, Writing(r, readers)
  PROVE  Flags(r, readers, TRUE, FALSE)
<1>1. history' = Overtaking(r, readers)
  BY DEF Writing
<1>2. history.started \in Nat
  BY DEF Histories
<1> QED
  BY <1>1, <1>2, OvertakingTyped DEF Flags

LEMMA EndingFlags ==
  ASSUME history \in Histories, NEW r \in Requests, pc'[r] = "idle",
         NEW readers \in SUBSET Requests, End(r, Overtaking(r, readers))
  PROVE  Flags(r, readers, TRUE, FALSE)
<1>1. history.started \in Nat
  BY DEF Histories
<1>2. /\ history' \in Histories
      /\ history'.overtaken = Overtaking(r, readers).overtaken \ {r}
      /\ history'.stale = Overtaking(r, readers).stale
      /\ history'.cut = Overtaking(r, readers).cut
      /\ history'.started = Overtaking(r, readers).started
  BY EndFlags, OvertakingTyped
<1> QED
  BY <1>1, <1>2, OvertakingTyped DEF Flags

\* The steps that touch no table, but for the end of a request ...
Selects(r) ==
  \/ \E new \in Given : Create(r, new)
  \/ \E op \in CountOperations : LoadCount(r, op)
  \/ LoadLines(r)
  \/ \E new \in Given : Update(r, new)
  \/ AssignCounter(r)
  \/ StartCounting(r)
  \/ \E counted \in Sheets : RecordPhysicalCounts(r, counted)
  \/ Cancel(r)
  \/ Delete(r)
  \/ Approve(r)
  \/ \E sheet \in Given : CreateAdjustment(r, sheet)
  \/ GenerateNumber(r)
  \/ \E op \in AdjustmentOperations, a \in DOMAIN adjustments : ResolveAdjustment(r, op, a)
  \/ FindAdjustment(r)
  \/ FindAdjustmentLines(r)
  \/ ApproveAdjustment(r)
  \/ CancelAdjustment(r)
  \/ Settle(r)

\* ... and those that write the adjustments, or the count.
WritesAdjustment(r) ==
  \/ InsertAdjustment(r)
  \/ \E l \in Lines : InsertAdjustmentLine(r, l)
  \/ SaveAdjustment(r)

WritesCount(r) ==
  \/ SaveHeader(r)
  \/ EraseLines(r)
  \/ \E l \in Lines : InsertLine(r, l)
  \/ DeleteRow(r)

Posts(r) == \E l \in Lines : Post(r, l)

Ends(r) == Return(r) \/ Abort(r)

LEMMA StepKinds ==
  ASSUME NEW r \in Requests
  PROVE  Step(r) <=> Selects(r) \/ WritesAdjustment(r) \/ WritesCount(r) \/ Posts(r) \/ Ends(r)
  BY DEF Step, Selects, WritesAdjustment, WritesCount, Posts, Ends

LEMMA SelectsFlags ==
  ASSUME TypeOK, NEW r \in Requests, Selects(r)
  PROVE  /\ UNCHANGED Tables
         /\ pc'[r] # "idle"
         /\ Flags(r, {}, FALSE, FALSE)
<1>0. pc \in [Requests -> Labels] /\ history \in Histories
  BY DEF TypeOK, Histories
<1>1. UNCHANGED Tables
  BY DEF Selects, Tables, Create, LoadCount, LoadLines, Update, AssignCounter, StartCounting,
         RecordPhysicalCounts, Cancel, Delete, Approve, Deciding, CreateAdjustment,
         GenerateNumber, ResolveAdjustment, FindAdjustment, FindAdjustmentLines,
         ApproveAdjustment, CancelAdjustment, Resolving, Settle
<1>2. history' = history \/ history' = [history EXCEPT !.started = @ + 1]
  BY DEF Selects, Starting, Create, LoadCount, LoadLines, Update, AssignCounter,
         StartCounting, RecordPhysicalCounts, Cancel, Delete, Approve, Deciding,
         CreateAdjustment, GenerateNumber, ResolveAdjustment, FindAdjustment,
         FindAdjustmentLines, ApproveAdjustment, CancelAdjustment, Resolving, Settle
<1>3. pc'[r] # "idle"
  BY <1>0 DEF Selects, Goto, Create, LoadCount, LoadLines, Update, AssignCounter,
         StartCounting, RecordPhysicalCounts, Cancel, Delete, Approve, Reconcile, SaveCopy,
         CreateAdjustment, GenerateNumber, ResolveAdjustment, FindAdjustment,
         FindAdjustmentLines, ApproveAdjustment, CancelAdjustment, Resolving, Settle
<1> QED
  BY <1>0, <1>1, <1>2, <1>3, LoadingFlags

LEMMA ReadersTyped ==
  /\ ReadersOfCount \in SUBSET Requests
  /\ \A a : ReadersOfAdjustment(a) \in SUBSET Requests
  BY DEF ReadersOfCount, ReadersOfAdjustment

LEMMA WritesAdjustmentFlags ==
  ASSUME TypeOK, NEW r \in Requests, WritesAdjustment(r)
  PROVE  Flags(r, ReadersOfAdjustment(copy[r].number), TRUE, FALSE)
<1>0. pc \in [Requests -> Labels] /\ history \in Histories /\ copy \in [Requests -> Copies]
  BY DEF TypeOK, Histories
<1>1. CASE InsertAdjustment(r)
  BY <1>0, <1>1, WritingFlags, ReadersTyped DEF InsertAdjustment, Goto
<1>2. CASE \E l \in Lines : InsertAdjustmentLine(r, l)
  BY <1>0, <1>2, WritingFlags, ReadersTyped DEF InsertAdjustmentLine
<1>3. CASE SaveAdjustment(r)
  <2>1. CASE copy[r].op = "approve"
    BY <1>0, <1>3, <2>1, WritingFlags, ReadersTyped DEF SaveAdjustment, Goto
  <2>2. CASE copy[r].op # "approve"
    BY <1>0, <1>3, <2>2, EndingFlags, ReadersTyped DEF SaveAdjustment, Goto, End
  <2> QED
    BY <2>1, <2>2
<1> QED
  BY <1>1, <1>2, <1>3 DEF WritesAdjustment

LEMMA WritesCountFlags ==
  ASSUME TypeOK, NEW r \in Requests, WritesCount(r)
  PROVE  Flags(r, ReadersOfCount, TRUE, FALSE)
<1>0. pc \in [Requests -> Labels] /\ history \in Histories /\ copy \in [Requests -> Copies]
  BY DEF TypeOK, Histories
<1>1. CASE SaveHeader(r) \/ EraseLines(r)
  BY <1>0, <1>1, WritingFlags, ReadersTyped DEF SaveHeader, EraseLines, Goto
<1>2. CASE \E l \in Lines : InsertLine(r, l)
  BY <1>0, <1>2, WritingFlags, ReadersTyped DEF InsertLine
<1>3. CASE DeleteRow(r)
  BY <1>0, <1>3, EndingFlags, ReadersTyped DEF DeleteRow, Goto, End
<1> QED
  BY <1>1, <1>2, <1>3 DEF WritesCount

LEMMA PostsFlags ==
  ASSUME TypeOK, NEW r \in Requests, Posts(r)
  PROVE  Flags(r, {}, TRUE, FALSE)
<1>0. pc \in [Requests -> Labels] /\ history \in Histories /\ copy \in [Requests -> Copies]
  BY DEF TypeOK, Histories
<1> QED
  BY <1>0, WritingFlags DEF Posts, Post

LEMMA EndsFlags ==
  ASSUME TypeOK, NEW r \in Requests, Ends(r)
  PROVE  /\ UNCHANGED Tables
         /\ Flags(r, {}, FALSE, Abort(r) /\ copy[r].wrote)
         /\ pc'[r] = "idle"
<1>0. pc \in [Requests -> Labels] /\ history \in Histories /\ copy \in [Requests -> Copies]
  BY DEF TypeOK, Histories
<1>1. pc'[r] = "idle" /\ UNCHANGED Tables
  BY <1>0 DEF Ends, Return, Abort, End, Goto, Tables
<1>2. history.started \in Nat /\ copy[r].wrote \in BOOLEAN /\ history.cut \in BOOLEAN
  BY <1>0, CopyFields DEF Histories
<1>3. CASE Abort(r)
  <2> DEFINE h == [history EXCEPT !.cut = history.cut \/ copy[r].wrote]
  <2>1. (history.cut \/ copy[r].wrote) \in BOOLEAN
    OBVIOUS
  <2>2. h \in Histories /\ h.overtaken = history.overtaken /\ h.stale = history.stale
        /\ h.cut = (history.cut \/ copy[r].wrote) /\ h.started = history.started
    BY <1>0, <2>1 DEF Histories
  <2>3. End(r, h)
    BY <1>3 DEF Abort
  <2> HIDE DEF h
  <2> QED
    BY <1>1, <1>2, <1>3, <2>2, <2>3, EndFlags DEF Flags
<1>4. CASE Return(r) /\ ~Abort(r)
  <2>1. End(r, history)
    BY <1>4 DEF Return
  <2> QED
    BY <1>0, <1>1, <1>2, <1>4, <2>1, EndFlags DEF Flags
<1> QED
  BY <1>1, <1>3, <1>4 DEF Ends

-----------------------------------------------------------------------------
(* Where a request is, and what its copy holds there. *)

Settling == {"settle", "header", "erase", "insert"}

\* What the operation and its label say of the copy of the count ...
Shape(r) ==
  LET c == copy[r]
      at == pc[r]
  IN  /\ at = "idle" => c = Idle
      /\ at \in {"load", "decide", "delete"} \cup Settling =>
           c.op \in CountOperations /\ c.count \in Counts
      /\ at \in {"number", "adjust", "adjustLines"} => c.op \in {"approve", "adjust"}
      /\ at = "find" => c.op \in {"approveAdjustment", "cancelAdjustment"}
      /\ at \in {"findLines", "weigh", "post"} =>
           c.op \in {"approve", "approveAdjustment", "cancelAdjustment"}
      /\ at = "settle" => c.op = "approve"
      /\ at \in {"load", "decide"} => c.op # "create"
      /\ at = "delete" => c.op = "delete" /\ c.count.status = "DRAFT"
      /\ c.op = "approve" => c.count \in Counts
      /\ at \in {"load", "decide", "number", "delete"} => c.number = 0
      /\ at \in Settling /\ c.op # "approve" => c.number = 0 /\ c.count.status # "APPROVED"
      /\ at = "insert" => c.todo \subseteq DOMAIN c.lines
      /\ at \in {"erase", "insert"} => c.wrote
      /\ c.wrote => at \notin {"load", "decide", "number", "adjust", "find", "delete"}

\* ... and of the adjustment it makes, or resolves.
Resolves(r) ==
  LET c == copy[r]
  IN  /\ c.status = IF c.op = "cancelAdjustment" THEN "CANCELLED" ELSE "APPROVED"
      /\ c.todo \subseteq Discrepancies(c.sheet)
      /\ c.op = "cancelAdjustment" => c.todo = {}
      /\ c.op # "cancelAdjustment" /\ c.todo # Discrepancies(c.sheet) => c.wrote
      /\ c.op # "cancelAdjustment" =>
           \A l \in Discrepancies(c.sheet) \ c.todo : posted[c.number][l] > 0

Makes(r) ==
  LET c == copy[r]
  IN  /\ c.wrote
      /\ c.todo \subseteq DOMAIN c.sheet
      /\ adjustments[c.number].lines = [l \in DOMAIN c.sheet \ c.todo |-> c.sheet[l]]
      /\ adjustments[c.number].ofCount = (c.op = "approve")

Made(r) ==
  LET c == copy[r]
  IN  /\ c.number \in DOMAIN adjustments
      /\ c.wrote
      /\ adjustments[c.number].lines = Differing(c.lines)
      /\ adjustments[c.number].ofCount

Mine(r) ==
  LET c == copy[r]
      at == pc[r]
  IN  /\ at \in {"adjustLines", "find", "findLines", "weigh", "post"} =>
           c.number \in DOMAIN adjustments
      /\ at = "adjustLines" => Makes(r)
      /\ c.op = "approve" /\ at \in {"number", "adjust", "adjustLines"} =>
           c.sheet = Differing(c.lines)
      /\ c.op = "approve" /\ at \in {"findLines", "weigh", "post"} => Made(r)
      /\ c.op = "approve" /\ at \in Settling =>
           Made(r) \/ (c.number = 0 /\ Discrepancies(c.lines) = {})
      /\ c.op = "approve" /\ at \in {"header", "erase", "insert"} =>
           /\ c.count.status = "APPROVED"
           /\ c.number # 0 => c.count.adjustment = c.number
      /\ at = "post" => Resolves(r)

\* Adjustments have one maker.
Owns(r) ==
  /\ copy[r].op \in {"approve", "adjust"}
  /\ pc[r] \in {"adjustLines", "findLines", "weigh", "post"} \cup Settling
  /\ copy[r].number # 0

OwnInv == \A q, s \in Requests : Owns(q) /\ Owns(s) /\ q # s => copy[q].number # copy[s].number

\* A request that creates the count is the only one that works on it.
Alone ==
  /\ history.started = 0 => Quiet
  /\ \A r \in Requests : pc[r] = "header" /\ copy[r].op = "create" =>
       /\ count = NoCount
       /\ \A q \in Requests \ {r} : ~HasReadCount(q)

CopyInv ==
  /\ TypeOK
  /\ Len(adjustments) <= MaxAdjustments
  /\ \A r \in Requests : Shape(r) /\ Mine(r) /\ (pc[r] = "idle" => r \notin history.overtaken)
  /\ OwnInv
  /\ Alone

LEMMA CopyInit == Init => CopyInv
<1> SUFFICES ASSUME Init PROVE CopyInv
  OBVIOUS
<1>1. /\ \A r \in Requests : pc[r] = "idle" /\ copy[r] = Idle
      /\ pc \in [Requests -> Labels] /\ copy \in [Requests -> Copies]
  BY IdleTyped DEF Init, Labels
<1>2. count \in Counts \cup {NoCount} /\ lines \in Sheets
  BY BoundAssumption, SheetsClosed DEF Init, Counts
<1>3. adjustments \in Seq(Adjustments) /\ posted \in [1 .. MaxAdjustments -> [Lines -> Nat]]
  BY DEF Init
<1>4. history \in Histories /\ history.overtaken = {}
  BY DEF Init, Histories
<1>5. TypeOK
  BY <1>1, <1>2, <1>3, <1>4 DEF TypeOK, Histories
<1>6. Idle.op = "create" /\ Idle.wrote = FALSE
  BY DEF Idle
<1>7. \A r \in Requests : Shape(r) /\ Mine(r)
  BY <1>1, <1>6 DEF Shape, Mine, Settling
<1>8. OwnInv /\ Alone
  BY <1>1 DEF OwnInv, Owns, Alone, Settling, Quiet
<1>9. Len(adjustments) <= MaxAdjustments
  BY BoundAssumption DEF Init
<1> QED
  BY <1>1, <1>4, <1>5, <1>7, <1>8, <1>9 DEF CopyInv

LEMMA TurnTyped ==
  ASSUME TypeOK, NEW r \in Requests, NEW c \in Copies, NEW label \in Labels,
         Turn(r, c, label)
  PROVE  pc' \in [Requests -> Labels] /\ copy' \in [Requests -> Copies]
  BY DEF TypeOK, Turn

LEMMA SavedTyped ==
  ASSUME NEW c \in Copies, c.count \in Counts, NEW s \in Statuses, NEW sheet \in Sheets
  PROVE  /\ Saved(c, s, sheet) \in Copies
         /\ Saved(c, s, sheet).count = [c.count EXCEPT !.status = s]
         /\ Saved(c, s, sheet).lines = sheet
         /\ Saved(c, s, sheet).op = c.op
         /\ Saved(c, s, sheet).number = c.number
         /\ Saved(c, s, sheet).wrote = c.wrote
         /\ Saved(c, s, sheet).todo = c.todo
         /\ Saved(c, s, sheet).sheet = c.sheet
<1>1. [c.count EXCEPT !.status = s] \in Counts
  BY CountsTyped
<1> QED
  BY <1>1 DEF Saved, Copies

\* One field of a copy changes.
LEMMA CopyUpdates ==
  ASSUME NEW c \in Copies
  PROVE  /\ \A x \in Sheets : [c EXCEPT !.lines = x] \in Copies /\ [c EXCEPT !.sheet = x] \in Copies
         /\ \A x \in Counts : [c EXCEPT !.count = x] \in Copies
         /\ \A x \in 0 .. MaxAdjustments : [c EXCEPT !.number = x] \in Copies
         /\ \A x \in {"PENDING", "APPROVED", "CANCELLED"} : [c EXCEPT !.status = x] \in Copies
         /\ \A x \in SUBSET Lines : [c EXCEPT !.todo = x] \in Copies
         /\ [c EXCEPT !.wrote = TRUE] \in Copies
         /\ \A x \in SUBSET Lines : [c EXCEPT !.todo = x, !.wrote = TRUE] \in Copies
         /\ \A x \in SUBSET Lines, s \in {"PENDING", "APPROVED", "CANCELLED"} :
              [c EXCEPT !.status = s, !.todo = x] \in Copies
  BY DEF Copies

LEMMA StartingCopies ==
  /\ \A x \in Sheets :
       [Idle EXCEPT !.count = [status |-> "DRAFT", adjustment |-> 0], !.lines = x] \in Copies
  /\ \A op \in CountOperations, x \in Counts : [Idle EXCEPT !.op = op, !.count = x] \in Copies
  /\ \A x \in Sheets : [Idle EXCEPT !.op = "adjust", !.sheet = x] \in Copies
  /\ \A op \in AdjustmentOperations, n \in 0 .. MaxAdjustments :
       [Idle EXCEPT !.op = op, !.number = n] \in Copies
<1>1. [status |-> "DRAFT", adjustment |-> 0] \in Counts
  BY BoundAssumption, CountsTyped DEF Statuses
<1> DEFINE k == [status |-> "DRAFT", adjustment |-> 0]
<1>2. k \in Counts
  BY <1>1
<1> HIDE DEF k
<1>3. \A x \in Sheets : [Idle EXCEPT !.count = k, !.lines = x] \in Copies
  BY <1>2, IdleTyped DEF Copies
<1>4. \A op \in CountOperations, x \in Counts : [Idle EXCEPT !.op = op, !.count = x] \in Copies
  BY IdleTyped DEF Copies
<1>5. \A x \in Sheets : [Idle EXCEPT !.op = "adjust", !.sheet = x] \in Copies
  BY IdleTyped DEF Copies, AdjustmentOperations
<1>6. \A op \in AdjustmentOperations, n \in 0 .. MaxAdjustments :
       [Idle EXCEPT !.op = op, !.number = n] \in Copies
  BY IdleTyped DEF Copies
<1> QED
  BY <1>3, <1>4, <1>5, <1>6 DEF k

LEMMA AdjustmentsTyped ==
  ASSUME adjustments \in Seq(Adjustments), NEW a \in DOMAIN adjustments
  PROVE  /\ adjustments[a] \in Adjustments
         /\ adjustments[a].status \in {"PENDING", "APPROVED", "CANCELLED"}
         /\ adjustments[a].lines \in Sheets
         /\ adjustments[a].ofCount \in BOOLEAN
<1>1. adjustments[a] \in Adjustments
  OBVIOUS
<1> QED
  BY <1>1 DEF Adjustments

LEMMA SelectsTyped ==
  ASSUME CopyInv, NEW r \in Requests, Selects(r)
  PROVE  pc' \in [Requests -> Labels] /\ copy' \in [Requests -> Copies]
<1>t. TypeOK /\ copy[r] \in Copies /\ Shape(r) /\ Mine(r)
  BY DEF CopyInv, TypeOK
<1>c. /\ copy[r].lines \in Sheets /\ copy[r].sheet \in Sheets
      /\ copy[r].number \in 0 .. MaxAdjustments
      /\ lines \in Sheets
  BY <1>t, CopyFields DEF TypeOK
<1>s. \A x \in {"DRAFT", "ASSIGNED", "COUNTING", "REVIEW", "CANCELLED"} : x \in Statuses
  BY DEF Statuses
<1>l. \A x \in {"header", "load", "decide", "number", "adjust", "find", "findLines", "weigh",
                "post", "settle", "delete"} : x \in Labels
  BY DEF Labels
<1>1. ASSUME NEW new \in Given, Create(r, new)
      PROVE  pc' \in [Requests -> Labels] /\ copy' \in [Requests -> Copies]
  BY <1>t, <1>l, <1>1, StartingCopies, SheetsClosed, LoadTurns, TurnTyped
<1>2. ASSUME NEW op \in CountOperations, LoadCount(r, op)
      PROVE  pc' \in [Requests -> Labels] /\ copy' \in [Requests -> Copies]
  <2>1. count \in Counts
    BY <1>t, <1>2 DEF LoadCount, TypeOK
  <2> QED
    BY <1>t, <1>l, <1>2, <2>1, StartingCopies, LoadTurns, TurnTyped
<1>3. CASE LoadLines(r)
  BY <1>t, <1>c, <1>l, <1>3, CopyUpdates, LoadTurns, TurnTyped
<1>d. pc[r] = "decide" => copy[r].count \in Counts
  BY <1>t DEF Shape
<1>4. ASSUME NEW s \in Statuses, NEW sheet \in Sheets, SaveCopy(r, s, sheet), pc[r] = "decide"
      PROVE  pc' \in [Requests -> Labels] /\ copy' \in [Requests -> Copies]
  BY <1>t, <1>l, <1>d, <1>4, SavedTyped, SaveCopyTurn, TurnTyped
<1>5. ASSUME NEW new \in Given, Update(r, new)
      PROVE  pc' \in [Requests -> Labels] /\ copy' \in [Requests -> Copies]
  BY <1>4, <1>s, <1>5, SheetsClosed DEF Update, Deciding
<1>6. CASE AssignCounter(r) \/ StartCounting(r) \/ Cancel(r)
  BY <1>4, <1>c, <1>s, <1>6 DEF AssignCounter, StartCounting, Cancel, Deciding
<1>7. ASSUME NEW counted \in Sheets, RecordPhysicalCounts(r, counted)
      PROVE  pc' \in [Requests -> Labels] /\ copy' \in [Requests -> Copies]
  BY <1>4, <1>s, <1>7 DEF RecordPhysicalCounts, Deciding
<1>8. CASE Delete(r)
  BY <1>t, <1>l, <1>8, DecideTurns, TurnTyped
<1>9. CASE Approve(r)
  BY <1>t, <1>c, <1>l, <1>9, SheetsClosed, CopyUpdates, DecideTurns, TurnTyped
<1>10. ASSUME NEW sheet \in Given, CreateAdjustment(r, sheet)
       PROVE  pc' \in [Requests -> Labels] /\ copy' \in [Requests -> Copies]
  BY <1>t, <1>l, <1>10, StartingCopies, SheetsClosed, AdjustTurns, TurnTyped
<1>11. CASE GenerateNumber(r)
  <2>1. Len(adjustments) + 1 \in 0 .. MaxAdjustments
    <3>1. adjustments \in Seq(Adjustments) /\ Len(adjustments) < MaxAdjustments
      BY <1>t, <1>11 DEF GenerateNumber, TypeOK
    <3>2. Len(adjustments) \in Nat
      BY <3>1
    <3> QED
      BY <3>1, <3>2, BoundAssumption
  <2> QED
    BY <1>t, <1>l, <1>11, <2>1, CopyUpdates, AdjustTurns, TurnTyped
<1>12. ASSUME NEW op \in AdjustmentOperations, NEW a \in DOMAIN adjustments,
              ResolveAdjustment(r, op, a)
       PROVE  pc' \in [Requests -> Labels] /\ copy' \in [Requests -> Copies]
  <2>1. a \in 0 .. MaxAdjustments
    BY BoundAssumption DEF CopyInv, TypeOK
  <2> QED
    BY <1>t, <1>l, <1>12, <2>1, StartingCopies, AdjustTurns, TurnTyped
<1>13. CASE FindAdjustment(r) \/ FindAdjustmentLines(r)
  <2>1. copy[r].number \in DOMAIN adjustments
    BY <1>t, <1>13 DEF FindAdjustment, FindAdjustmentLines, Through, Mine
  <2>2. /\ adjustments[copy[r].number].status \in {"PENDING", "APPROVED", "CANCELLED"}
        /\ adjustments[copy[r].number].lines \in Sheets
    BY <1>t, <2>1, AdjustmentsTyped DEF TypeOK
  <2>3. CASE FindAdjustment(r)
    <3>1. [copy[r] EXCEPT !.status = adjustments[copy[r].number].status] \in Copies
      BY <1>t, <2>2, CopyUpdates
    <3>2. Turn(r, [copy[r] EXCEPT !.status = adjustments[copy[r].number].status], "findLines")
      BY <1>t, <2>3, AdjustTurns
    <3> QED
      BY <1>t, <1>l, <3>1, <3>2, TurnTyped
  <2>4. CASE FindAdjustmentLines(r)
    BY <1>t, <1>l, <2>2, <2>4, CopyUpdates, AdjustTurns, TurnTyped
  <2> QED
    BY <1>13, <2>3, <2>4
<1>14. CASE ApproveAdjustment(r) \/ CancelAdjustment(r)
  <2>1. Discrepancies(copy[r].sheet) \in SUBSET Lines
    BY <1>c, SheetsClosed DEF Discrepancies
  <2> QED
    BY <1>t, <1>l, <1>14, <2>1, CopyUpdates, AdjustTurns, TurnTyped
<1>15. CASE Settle(r)
  <2> DEFINE n == IF copy[r].number = 0 THEN copy[r].count.adjustment ELSE copy[r].number
  <2>1. copy[r].count \in Counts
    BY <1>t, <1>15 DEF Settle, Shape
  <2>2. [status |-> "APPROVED", adjustment |-> n] \in Counts
    BY <1>c, <2>1, CountsTyped DEF Statuses
  <2> QED
    BY <1>t, <1>l, <1>15, <2>2, CopyUpdates, SaveTurns, TurnTyped
<1> QED
  BY <1>1, <1>2, <1>3, <1>5, <1>6, <1>7, <1>8, <1>9, <1>10, <1>11, <1>12, <1>13, <1>14, <1>15
     DEF Selects

LEMMA WritesAdjustmentTyped ==
  ASSUME CopyInv, NEW r \in Requests, WritesAdjustment(r)
  PROVE  /\ pc' \in [Requests -> Labels] /\ copy' \in [Requests -> Copies]
         /\ adjustments' \in Seq(Adjustments) /\ Len(adjustments') <= MaxAdjustments
         /\ DOMAIN adjustments \subseteq DOMAIN adjustments'
         /\ UNCHANGED <<count, lines, posted>>
<1>t. TypeOK /\ copy[r] \in Copies /\ Shape(r) /\ Mine(r)
  BY DEF CopyInv, TypeOK
<1>c. /\ copy[r].lines \in Sheets /\ copy[r].sheet \in Sheets
      /\ copy[r].number \in 0 .. MaxAdjustments
      /\ copy[r].todo \in SUBSET Lines
      /\ DOMAIN copy[r].sheet \in SUBSET Lines
      /\ copy[r].status \in {"PENDING", "APPROVED", "CANCELLED"}
  BY <1>t, CopyFields, SheetsClosed
<1>l. \A x \in {"adjustLines", "settle", "idle"} : x \in Labels
  BY DEF Labels
<1>a. adjustments \in Seq(Adjustments) /\ Len(adjustments) <= MaxAdjustments
  BY DEF CopyInv, TypeOK
<1>u. UNCHANGED <<count, lines, posted>>
  BY DEF WritesAdjustment, InsertAdjustment, InsertAdjustmentLine, SaveAdjustment
<1>1. CASE InsertAdjustment(r)
  <2>1. pc' \in [Requests -> Labels] /\ copy' \in [Requests -> Copies]
    BY <1>t, <1>c, <1>l, <1>1, CopyUpdates, AdjustTurns, TurnTyped
  <2> DEFINE new == [status |-> "PENDING", lines |-> NoLines,
                     ofCount |-> copy[r].op = "approve"]
  <2>2. new \in Adjustments
    BY SheetsClosed DEF Adjustments
  <2>3. adjustments' = Append(adjustments, new) /\ Len(adjustments) + 1 \in 0 .. MaxAdjustments
    BY <1>1, <1>c DEF InsertAdjustment
  <2> HIDE DEF new
  <2> QED
    BY <1>a, <1>u, <2>1, <2>2, <2>3
<1>2. ASSUME NEW l \in Lines, InsertAdjustmentLine(r, l)
      PROVE  /\ pc' \in [Requests -> Labels] /\ copy' \in [Requests -> Copies]
             /\ adjustments' \in Seq(Adjustments) /\ Len(adjustments') <= MaxAdjustments
             /\ DOMAIN adjustments \subseteq DOMAIN adjustments'
  <2>1. pc' \in [Requests -> Labels] /\ copy' \in [Requests -> Copies]
    <3>1. copy[r].todo \ {l} \in SUBSET Lines
      BY <1>c
    <3> QED
      BY <1>t, <1>l, <1>2, <3>1, CopyUpdates, AdjustTurns, TurnTyped
  <2> DEFINE a == copy[r].number
             new == [k \in DOMAIN adjustments[a].lines \cup {l} |-> copy[r].sheet[k]]
  <2>2. a \in DOMAIN adjustments /\ Makes(r) /\ l \in copy[r].todo
    BY <1>t, <1>2 DEF InsertAdjustmentLine, Mine
  <2>3. DOMAIN adjustments[a].lines \cup {l} \subseteq DOMAIN copy[r].sheet
    BY <2>2 DEF Makes
  <2>4. new \in Sheets
    BY <1>c, <2>3, SheetsClosed
  <2>5. adjustments' = [adjustments EXCEPT ![a].lines = new]
    BY <1>2 DEF InsertAdjustmentLine
  <2> HIDE DEF a, new
  <2>6. adjustments[a] \in Adjustments
    BY <1>a, <2>2, AdjustmentsTyped
  <2>7. [adjustments[a] EXCEPT !.lines = new] \in Adjustments
    BY <2>4, <2>6 DEF Adjustments
  <2>8. adjustments' = [adjustments EXCEPT ![a] = [adjustments[a] EXCEPT !.lines = new]]
    BY <2>5
  <2> QED
    BY <1>a, <2>1, <2>2, <2>7, <2>8
<1>3. CASE SaveAdjustment(r)
  <2>1. pc' \in [Requests -> Labels] /\ copy' \in [Requests -> Copies]
    <3>1. CASE copy[r].op = "approve"
      BY <1>t, <1>l, <1>3, <3>1, CopyUpdates, AdjustTurns, TurnTyped
    <3>2. CASE copy[r].op # "approve"
      BY <1>t, <1>l, <1>3, <3>2, IdleTyped, AdjustTurns, TurnTyped
    <3> QED
      BY <3>1, <3>2
  <2> DEFINE a == copy[r].number
  <2>2. a \in DOMAIN adjustments
    BY <1>t, <1>3 DEF SaveAdjustment, Through, Mine
  <2>3. adjustments[a] \in Adjustments
    BY <1>a, <2>2, AdjustmentsTyped
  <2>4. [adjustments[a] EXCEPT !.status = copy[r].status] \in Adjustments
    BY <1>c, <2>3 DEF Adjustments
  <2>5. adjustments' = [adjustments EXCEPT ![a] = [adjustments[a] EXCEPT !.status = copy[r].status]]
    BY <1>3 DEF SaveAdjustment
  <2> HIDE DEF a
  <2> QED
    BY <1>a, <1>u, <2>1, <2>2, <2>4, <2>5
<1> QED
  BY <1>1, <1>2, <1>3, <1>u DEF WritesAdjustment

LEMMA WritesCountTyped ==
  ASSUME CopyInv, NEW r \in Requests, WritesCount(r)
  PROVE  /\ pc' \in [Requests -> Labels] /\ copy' \in [Requests -> Copies]
         /\ count' \in Counts \cup {NoCount}
         /\ lines' \in Sheets
         /\ UNCHANGED <<adjustments, posted>>
<1>t. TypeOK /\ copy[r] \in Copies /\ Shape(r) /\ Mine(r)
  BY DEF CopyInv, TypeOK
<1>c. /\ copy[r].lines \in Sheets /\ DOMAIN copy[r].lines \in SUBSET Lines
      /\ copy[r].todo \in SUBSET Lines
      /\ lines \in Sheets /\ count \in Counts \cup {NoCount}
  BY <1>t, CopyFields, SheetsClosed DEF TypeOK
<1>l. \A x \in {"erase", "insert", "idle"} : x \in Labels
  BY DEF Labels
<1>u. UNCHANGED <<adjustments, posted>>
  BY DEF WritesCount, SaveHeader, EraseLines, InsertLine, DeleteRow
<1>1. CASE SaveHeader(r)
  <2>1. pc' \in [Requests -> Labels] /\ copy' \in [Requests -> Copies]
    BY <1>t, <1>l, <1>1, CopyUpdates, SaveTurns, TurnTyped
  <2>2. copy[r].count \in Counts
    BY <1>t, <1>1 DEF SaveHeader, Shape, Settling
  <2> QED
    BY <1>c, <1>u, <1>1, <2>1, <2>2 DEF SaveHeader
<1>2. CASE EraseLines(r)
  <2>1. pc' \in [Requests -> Labels] /\ copy' \in [Requests -> Copies]
    BY <1>t, <1>c, <1>l, <1>2, CopyUpdates, SaveTurns, TurnTyped
  <2> QED
    BY <1>c, <1>u, <1>2, <2>1, SheetsClosed DEF EraseLines
<1>3. ASSUME NEW l \in Lines, InsertLine(r, l)
      PROVE  /\ pc' \in [Requests -> Labels] /\ copy' \in [Requests -> Copies]
             /\ count' \in Counts \cup {NoCount}
             /\ lines' \in Sheets
  <2>1. pc' \in [Requests -> Labels] /\ copy' \in [Requests -> Copies]
    <3>1. copy[r].todo \ {l} \in SUBSET Lines
      BY <1>c
    <3> QED
      BY <1>t, <1>l, <1>3, <3>1, CopyUpdates, SaveTurns, TurnTyped
  <2>2. l \in DOMAIN copy[r].lines /\ count' = count
    BY <1>t, <1>3 DEF InsertLine, Shape
  <2>3. copy[r].lines[l] \in Variances /\ DOMAIN lines \subseteq Lines
        /\ \A k \in DOMAIN lines : lines[k] \in Variances
    BY <1>c, <2>2, SheetsClosed
  <2>4. lines' \in [DOMAIN lines \cup {l} -> Variances]
    BY <1>3, <2>3 DEF InsertLine
  <2>5. lines' \in Sheets
    BY <2>3, <2>4 DEF Sheets
  <2> QED
    BY <1>c, <2>1, <2>2, <2>5
<1>4. CASE DeleteRow(r)
  <2>1. pc' \in [Requests -> Labels] /\ copy' \in [Requests -> Copies]
    BY <1>t, <1>l, <1>4, IdleTyped, SaveTurns, TurnTyped
  <2> QED
    BY <1>u, <1>4, <2>1, SheetsClosed DEF DeleteRow
<1> QED
  BY <1>1, <1>2, <1>3, <1>4, <1>u DEF WritesCount

\* A posting adds one, and no posting is taken back.
LEMMA PostsTyped ==
  ASSUME CopyInv, NEW r \in Requests, NEW l \in Lines, Post(r, l)
  PROVE  /\ pc' \in [Requests -> Labels] /\ copy' \in [Requests -> Copies]
         /\ posted' \in [1 .. MaxAdjustments -> [Lines -> Nat]]
         /\ \A a \in 1 .. MaxAdjustments, k \in Lines :
              posted'[a][k] = posted[a][k]
                + (IF a = copy[r].number /\ k = l THEN 1 ELSE 0)
         /\ copy[r].number \in DOMAIN adjustments
         /\ UNCHANGED <<count, lines, adjustments>>
<1>t. TypeOK /\ copy[r] \in Copies /\ Shape(r) /\ Mine(r)
  BY DEF CopyInv, TypeOK
<1>1. pc' \in [Requests -> Labels] /\ copy' \in [Requests -> Copies]
  <2>1. copy[r].todo \ {l} \in SUBSET Lines
    BY <1>t, CopyFields
  <2>2. "post" \in Labels
    BY DEF Labels
  <2> QED
    BY <1>t, <2>1, <2>2, CopyUpdates, AdjustTurns, TurnTyped
<1>2. copy[r].number \in DOMAIN adjustments
  BY <1>t DEF Post, Mine
<1>3. copy[r].number \in 1 .. MaxAdjustments
  BY <1>2, BoundAssumption DEF CopyInv, TypeOK
<1>4. posted \in [1 .. MaxAdjustments -> [Lines -> Nat]]
  BY <1>t DEF TypeOK
<1>5. posted' = [posted EXCEPT ![copy[r].number][l] = @ + 1]
  BY DEF Post
<1>6. UNCHANGED <<count, lines, adjustments>>
  BY DEF Post
<1> QED
  BY <1>1, <1>2, <1>3, <1>4, <1>5, <1>6

LEMMA TypeStep ==
  ASSUME CopyInv, NEW r \in Requests, Step(r)
  PROVE  TypeOK' /\ Len(adjustments)' <= MaxAdjustments
<1>t. TypeOK /\ Len(adjustments) <= MaxAdjustments
  BY DEF CopyInv
<1>1. CASE Selects(r)
  BY <1>t, <1>1, SelectsTyped, SelectsFlags DEF TypeOK, Tables, Flags, Histories
<1>2. CASE WritesAdjustment(r)
  BY <1>t, <1>2, WritesAdjustmentTyped, WritesAdjustmentFlags DEF TypeOK, Flags, Histories
<1>3. CASE WritesCount(r)
  BY <1>t, <1>3, WritesCountTyped, WritesCountFlags DEF TypeOK, Flags, Histories
<1>4. CASE Posts(r)
  BY <1>t, <1>4, PostsTyped, PostsFlags DEF TypeOK, Flags, Histories, Posts
<1>5. CASE Ends(r)
  <2>1. Turn(r, Idle, "idle") /\ "idle" \in Labels
    BY <1>t, <1>5, SaveTurns DEF Ends, Labels
  <2> QED
    BY <1>t, <1>5, <2>1, IdleTyped, TurnTyped, EndsFlags DEF TypeOK, Flags, Histories, Tables
<1> QED
  BY <1>1, <1>2, <1>3, <1>4, <1>5, StepKinds

\* What is left of a copy when one field changes.
LEMMA Fields ==
  ASSUME NEW c \in Copies
  PROVE  /\ \A x : LET d == [c EXCEPT !.lines = x] IN
              /\ d.lines = x /\ d.op = c.op /\ d.count = c.count /\ d.number = c.number
              /\ d.status = c.status /\ d.sheet = c.sheet /\ d.todo = c.todo /\ d.wrote = c.wrote
         /\ \A x : LET d == [c EXCEPT !.sheet = x] IN
              /\ d.sheet = x /\ d.op = c.op /\ d.count = c.count /\ d.number = c.number
              /\ d.status = c.status /\ d.lines = c.lines /\ d.todo = c.todo /\ d.wrote = c.wrote
         /\ \A x : LET d == [c EXCEPT !.count = x] IN
              /\ d.count = x /\ d.op = c.op /\ d.lines = c.lines /\ d.number = c.number
              /\ d.status = c.status /\ d.sheet = c.sheet /\ d.todo = c.todo /\ d.wrote = c.wrote
         /\ \A x : LET d == [c EXCEPT !.number = x] IN
              /\ d.number = x /\ d.op = c.op /\ d.count = c.count /\ d.lines = c.lines
              /\ d.status = c.status /\ d.sheet = c.sheet /\ d.todo = c.todo /\ d.wrote = c.wrote
         /\ \A x : LET d == [c EXCEPT !.status = x] IN
              /\ d.status = x /\ d.op = c.op /\ d.count = c.count /\ d.number = c.number
              /\ d.lines = c.lines /\ d.sheet = c.sheet /\ d.todo = c.todo /\ d.wrote = c.wrote
         /\ \A x : LET d == [c EXCEPT !.todo = x] IN
              /\ d.todo = x /\ d.op = c.op /\ d.count = c.count /\ d.number = c.number
              /\ d.status = c.status /\ d.sheet = c.sheet /\ d.lines = c.lines /\ d.wrote = c.wrote
         /\ LET d == [c EXCEPT !.wrote = TRUE] IN
              /\ d.wrote /\ d.op = c.op /\ d.count = c.count /\ d.number = c.number
              /\ d.status = c.status /\ d.sheet = c.sheet /\ d.lines = c.lines /\ d.todo = c.todo
         /\ \A x : LET d == [c EXCEPT !.todo = x, !.wrote = TRUE] IN
              /\ d.todo = x /\ d.op = c.op /\ d.count = c.count /\ d.number = c.number
              /\ d.status = c.status /\ d.sheet = c.sheet /\ d.lines = c.lines /\ d.wrote
         /\ \A s, x : LET d == [c EXCEPT !.status = s, !.todo = x] IN
              /\ d.todo = x /\ d.op = c.op /\ d.count = c.count /\ d.number = c.number
              /\ d.status = s /\ d.sheet = c.sheet /\ d.lines = c.lines /\ d.wrote = c.wrote
  BY DEF Copies

LEMMA StartingFields ==
  /\ \A x : LET d == [Idle EXCEPT !.count = [status |-> "DRAFT", adjustment |-> 0], !.lines = x] IN
       d.op = "create" /\ d.number = 0 /\ d.wrote = FALSE /\ d.lines = x
         /\ d.count.status = "DRAFT" /\ d.count \in Counts
  /\ \A op, x : LET d == [Idle EXCEPT !.op = op, !.count = x] IN
       d.op = op /\ d.number = 0 /\ d.wrote = FALSE /\ d.count = x
  /\ \A x : LET d == [Idle EXCEPT !.op = "adjust", !.sheet = x] IN
       d.op = "adjust" /\ d.number = 0 /\ d.wrote = FALSE
  /\ \A op, n : LET d == [Idle EXCEPT !.op = op, !.number = n] IN
       d.op = op /\ d.number = n /\ d.wrote = FALSE
  /\ Idle.op = "create" /\ Idle.number = 0 /\ Idle.wrote = FALSE
<1>1. [status |-> "DRAFT", adjustment |-> 0] \in Counts
  BY BoundAssumption, CountsTyped DEF Statuses
<1> DEFINE k == [status |-> "DRAFT", adjustment |-> 0]
<1>2. k \in Counts /\ k.status = "DRAFT"
  BY <1>1
<1> HIDE DEF k
<1>3. \A x : LET d == [Idle EXCEPT !.count = k, !.lines = x] IN
       d.op = "create" /\ d.number = 0 /\ d.wrote = FALSE /\ d.lines = x /\ d.count = k
  BY DEF Idle
<1>4. /\ \A op, x : LET d == [Idle EXCEPT !.op = op, !.count = x] IN
           d.op = op /\ d.number = 0 /\ d.wrote = FALSE /\ d.count = x
      /\ \A x : LET d == [Idle EXCEPT !.op = "adjust", !.sheet = x] IN
           d.op = "adjust" /\ d.number = 0 /\ d.wrote = FALSE
      /\ \A op, n : LET d == [Idle EXCEPT !.op = op, !.number = n] IN
           d.op = op /\ d.number = n /\ d.wrote = FALSE
      /\ Idle.op = "create" /\ Idle.number = 0 /\ Idle.wrote = FALSE
  BY DEF Idle
<1> QED
  BY <1>2, <1>3, <1>4 DEF k

LEMMA SavedShape ==
  ASSUME CopyInv, NEW r \in Requests, NEW s \in Statuses \ {"APPROVED"}, NEW sheet \in Sheets,
         pc[r] = "decide", copy[r].op # "approve", SaveCopy(r, s, sheet)
  PROVE  /\ Shape(r)' /\ Mine(r)'
         /\ copy'[r].op = copy[r].op /\ pc'[r] = "header"
<1>t. TypeOK /\ copy[r] \in Copies /\ Shape(r)
  BY DEF CopyInv, TypeOK
<1>1. copy[r].count \in Counts /\ copy[r].op \in CountOperations /\ copy[r].op # "create"
        /\ copy[r].number = 0
  BY <1>t DEF Shape
<1>2. copy'[r] = Saved(copy[r], s, sheet) /\ pc'[r] = "header"
  BY <1>t, SaveCopyTurn, TurnIs DEF TypeOK
<1>3. /\ copy'[r].count = [copy[r].count EXCEPT !.status = s]
      /\ copy'[r].op = copy[r].op
      /\ copy'[r].number = copy[r].number
      /\ copy'[r].wrote = copy[r].wrote
  BY <1>t, <1>1, <1>2, SavedTyped
<1>4. copy'[r].count \in Counts /\ copy'[r].count.status = s
  BY <1>1, <1>3, CountsTyped DEF Counts
<1> QED
  BY <1>1, <1>2, <1>3, <1>4 DEF Shape, Mine, Settling

LEMMA SelectsShape ==
  ASSUME CopyInv, NEW r \in Requests, Selects(r)
  PROVE  Shape(r)' /\ Mine(r)'
<1>t. /\ TypeOK /\ copy[r] \in Copies /\ Shape(r) /\ Mine(r)
      /\ copy \in [Requests -> Copies] /\ pc \in [Requests -> Labels]
  BY DEF CopyInv, TypeOK
<1>c. /\ copy[r].lines \in Sheets /\ copy[r].sheet \in Sheets
      /\ copy[r].number \in 0 .. MaxAdjustments
      /\ lines \in Sheets
  BY <1>t, CopyFields DEF TypeOK
<1>u. count' = count /\ lines' = lines /\ adjustments' = adjustments /\ posted' = posted
  BY <1>t, SelectsFlags DEF Tables
<1>s. \A x \in {"DRAFT", "ASSIGNED", "COUNTING", "REVIEW", "CANCELLED"} :
        x \in Statuses \ {"APPROVED"}
  BY DEF Statuses
<1>1. ASSUME NEW new \in Given, Create(r, new)
      PROVE  Shape(r)' /\ Mine(r)'
  <2>1. pc'[r] = "header" /\ copy'[r] = [Idle EXCEPT !.count = [status |-> "DRAFT", adjustment |-> 0],
                                   !.lines = new]
    <3>1. Turn(r, [Idle EXCEPT !.count = [status |-> "DRAFT", adjustment |-> 0],
                                !.lines = new], "header")
      BY <1>t, <1>1, LoadTurns
    <3> QED
      BY <1>t, <1>1, <3>1, TurnIs
  <2>2. copy'[r].op = "create" /\ copy'[r].number = 0 /\ copy'[r].wrote = FALSE
        /\ copy'[r].count.status = "DRAFT" /\ copy'[r].count \in Counts
    BY <2>1, StartingFields
  <2> QED
    BY <2>1, <2>2 DEF Shape, Mine, Settling, CountOperations
<1>2. ASSUME NEW op \in CountOperations, LoadCount(r, op)
      PROVE  Shape(r)' /\ Mine(r)'
  <2>1. pc'[r] = "load" /\ copy'[r] = [Idle EXCEPT !.op = op, !.count = count]
    <3>1. Turn(r, [Idle EXCEPT !.op = op, !.count = count], "load")
      BY <1>t, <1>2, LoadTurns
    <3> QED
      BY <1>t, <1>2, <3>1, TurnIs
  <2>2. copy'[r].op = op /\ op # "create" /\ copy'[r].number = 0 /\ copy'[r].wrote = FALSE
        /\ copy'[r].count \in Counts
    BY <1>t, <1>2, <2>1, StartingFields DEF LoadCount, TypeOK
  <2> QED
    BY <2>1, <2>2 DEF Shape, Mine, Settling
<1>3. CASE LoadLines(r)
  <2>1. pc'[r] = "decide" /\ copy'[r] = [copy[r] EXCEPT !.lines = lines] /\ pc[r] = "load"
    BY <1>t, <1>3, LoadTurns, TurnIs DEF LoadLines
  <2> QED
    BY <1>t, <2>1, Fields DEF Shape, Mine, Settling
<1>4. ASSUME NEW new \in Given, Update(r, new)
      PROVE  Shape(r)' /\ Mine(r)'
  BY <1>s, <1>4, SheetsClosed, SavedShape DEF Update, Deciding
<1>5. CASE AssignCounter(r) \/ StartCounting(r) \/ Cancel(r)
  BY <1>c, <1>s, <1>5, SavedShape DEF AssignCounter, StartCounting, Cancel, Deciding
<1>6. ASSUME NEW counted \in Sheets, RecordPhysicalCounts(r, counted)
      PROVE  Shape(r)' /\ Mine(r)'
  BY <1>s, <1>6, SavedShape DEF RecordPhysicalCounts, Deciding
<1>7. CASE Delete(r)
  <2>1. pc'[r] = "delete" /\ copy'[r] = copy[r] /\ pc[r] = "decide" /\ copy[r].op = "delete"
        /\ copy[r].count.status = "DRAFT"
    BY <1>t, <1>7, DecideTurns, TurnIs DEF Delete, Deciding
  <2> QED
    BY <1>t, <2>1 DEF Shape, Mine, Settling
<1>8. CASE Approve(r)
  <2>1. /\ pc'[r] = IF Discrepancies(copy[r].lines) = {} THEN "settle" ELSE "number"
        /\ copy'[r] = [copy[r] EXCEPT !.sheet = Differing(copy[r].lines)]
        /\ pc[r] = "decide" /\ copy[r].op = "approve"
    BY <1>t, <1>8, DecideTurns, TurnIs DEF Approve, Deciding
  <2>2. /\ copy'[r].op = "approve" /\ copy'[r].count = copy[r].count
        /\ copy'[r].number = 0 /\ copy'[r].lines = copy[r].lines
        /\ copy'[r].sheet = Differing(copy[r].lines) /\ copy'[r].wrote = copy[r].wrote
        /\ ~copy[r].wrote /\ copy[r].count \in Counts
    BY <1>t, <2>1, Fields DEF Shape
  <2> QED
    BY <2>1, <2>2 DEF Shape, Mine, Settling, CountOperations
<1>9. ASSUME NEW sheet \in Given, CreateAdjustment(r, sheet)
      PROVE  Shape(r)' /\ Mine(r)'
  <2>1. pc'[r] = "number" /\ copy'[r] = [Idle EXCEPT !.op = "adjust", !.sheet = sheet]
    <3>1. Turn(r, [Idle EXCEPT !.op = "adjust", !.sheet = sheet], "number")
      BY <1>t, <1>9, AdjustTurns
    <3> QED
      BY <1>t, <1>9, <3>1, TurnIs
  <2> QED
    BY <2>1, StartingFields DEF Shape, Mine, Settling
<1>10. CASE GenerateNumber(r)
  <2>1. pc'[r] = "adjust" /\ copy'[r] = [copy[r] EXCEPT !.number = Len(adjustments) + 1]
        /\ pc[r] = "number"
    <3>1. Turn(r, [copy[r] EXCEPT !.number = Len(adjustments) + 1], "adjust")
      BY <1>t, <1>10, AdjustTurns
    <3> QED
      BY <1>t, <1>10, <3>1, TurnIs DEF GenerateNumber
  <2> QED
    BY <1>t, <2>1, Fields DEF Shape, Mine, Settling
<1>11. ASSUME NEW op \in AdjustmentOperations, NEW a \in DOMAIN adjustments,
              ResolveAdjustment(r, op, a)
       PROVE  Shape(r)' /\ Mine(r)'
  <2>1. pc'[r] = "find" /\ copy'[r] = [Idle EXCEPT !.op = op, !.number = a]
        /\ op \in {"approveAdjustment", "cancelAdjustment"}
    <3>1. Turn(r, [Idle EXCEPT !.op = op, !.number = a], "find")
      BY <1>t, <1>11, AdjustTurns
    <3> QED
      BY <1>t, <1>11, <3>1, TurnIs DEF ResolveAdjustment
  <2> QED
    BY <1>u, <2>1, StartingFields DEF Shape, Mine, Settling
<1>12. CASE FindAdjustment(r)
  <2>1. pc'[r] = "findLines"
        /\ copy'[r] = [copy[r] EXCEPT !.status = adjustments[copy[r].number].status]
        /\ (pc[r] = "find" \/ (pc[r] = "adjustLines" /\ copy[r].todo = {} /\ copy[r].op = "approve"))
    BY <1>t, <1>12, AdjustTurns, TurnIs DEF FindAdjustment, Through
  <2>2. /\ copy'[r].op = copy[r].op /\ copy'[r].count = copy[r].count
        /\ copy'[r].number = copy[r].number /\ copy'[r].lines = copy[r].lines
        /\ copy'[r].wrote = copy[r].wrote
    BY <1>t, <2>1, Fields
  <2>3. Shape(r)'
    BY <1>t, <2>1, <2>2 DEF Shape, Settling
  <2>4. CASE pc[r] = "find"
    BY <1>t, <1>u, <2>1, <2>2, <2>3, <2>4 DEF Mine, Shape, Settling
  <2>5. CASE pc[r] = "adjustLines" /\ copy[r].todo = {} /\ copy[r].op = "approve"
    <3>1. copy[r].number \in DOMAIN adjustments /\ Makes(r) /\ copy[r].sheet = Differing(copy[r].lines)
      BY <1>t, <2>5 DEF Mine
    <3>2. adjustments[copy[r].number].lines = [l \in DOMAIN copy[r].sheet |-> copy[r].sheet[l]]
      BY <2>5, <3>1 DEF Makes
    <3>3. [l \in DOMAIN copy[r].sheet |-> copy[r].sheet[l]] = Differing(copy[r].lines)
      BY <3>1 DEF Differing
    <3>4. Made(r)'
      BY <1>u, <2>2, <2>5, <3>1, <3>2, <3>3 DEF Made, Makes
    <3> QED
      BY <1>u, <2>1, <2>2, <2>3, <3>1, <3>4 DEF Mine, Settling
  <2> QED
    BY <2>1, <2>4, <2>5
<1>13. CASE FindAdjustmentLines(r)
  <2>1. pc'[r] = "weigh" /\ pc[r] = "findLines"
        /\ copy'[r] = [copy[r] EXCEPT !.sheet = adjustments[copy[r].number].lines]
    <3>1. Turn(r, [copy[r] EXCEPT !.sheet = adjustments[copy[r].number].lines], "weigh")
      BY <1>t, <1>13, AdjustTurns
    <3> QED
      BY <1>t, <1>13, <3>1, TurnIs DEF FindAdjustmentLines
  <2> QED
    BY <1>t, <1>u, <2>1, Fields DEF Shape, Mine, Made, Settling
<1>14. CASE ApproveAdjustment(r)
  <2>1. pc'[r] = "post" /\ pc[r] = "weigh" /\ copy[r].op \in {"approve", "approveAdjustment"}
        /\ copy'[r] = [copy[r] EXCEPT !.status = "APPROVED", !.todo = Discrepancies(copy[r].sheet)]
    <3>1. Turn(r, [copy[r] EXCEPT !.status = "APPROVED",
                                  !.todo = Discrepancies(copy[r].sheet)], "post")
      BY <1>t, <1>14, AdjustTurns
    <3> QED
      BY <1>t, <1>14, <3>1, TurnIs DEF ApproveAdjustment, Resolving
  <2> QED
    BY <1>t, <1>u, <2>1, Fields DEF Shape, Mine, Made, Resolves, Settling
<1>15. CASE CancelAdjustment(r)
  <2>1. pc'[r] = "post" /\ pc[r] = "weigh" /\ copy[r].op = "cancelAdjustment"
        /\ copy'[r] = [copy[r] EXCEPT !.status = "CANCELLED", !.todo = {}]
    BY <1>t, <1>15, AdjustTurns, TurnIs DEF CancelAdjustment, Resolving
  <2> QED
    BY <1>t, <1>u, <2>1, Fields DEF Shape, Mine, Made, Resolves, Settling
<1>16. CASE Settle(r)
  <2> DEFINE n == IF copy[r].number = 0 THEN copy[r].count.adjustment ELSE copy[r].number
             k == [status |-> "APPROVED", adjustment |-> n]
  <2>1. pc'[r] = "header" /\ pc[r] = "settle" /\ copy'[r] = [copy[r] EXCEPT !.count = k]
    <3>1. Turn(r, [copy[r] EXCEPT !.count = k], "header")
      BY <1>t, <1>16, SaveTurns
    <3> QED
      BY <1>t, <1>16, <3>1, TurnIs DEF Settle
  <2>2. copy[r].count \in Counts /\ copy[r].op = "approve"
    BY <1>t, <2>1 DEF Shape, Settling
  <2>3. k \in Counts /\ k.status = "APPROVED" /\ k.adjustment = n
    BY <1>c, <2>2, CountsTyped DEF Statuses
  <2> HIDE DEF k
  <2> QED
    BY <1>t, <1>u, <2>1, <2>2, <2>3, Fields DEF Shape, Mine, Made, Settling
<1> QED
  BY <1>1, <1>2, <1>3, <1>4, <1>5, <1>6, <1>7, <1>8, <1>9, <1>10, <1>11, <1>12, <1>13, <1>14,
     <1>15, <1>16 DEF Selects

\* What writing does to the adjustments: one is added, one gets a line of its
\* maker's copy, or one gets a status.
LEMMA AdjustmentWrites ==
  ASSUME CopyInv, NEW r \in Requests
  PROVE  LET n == copy[r].number IN
         /\ InsertAdjustment(r) =>
              /\ n = Len(adjustments) + 1 /\ n \notin DOMAIN adjustments
              /\ DOMAIN adjustments' = DOMAIN adjustments \cup {n}
              /\ \A a \in DOMAIN adjustments : adjustments'[a] = adjustments[a]
              /\ adjustments'[n].status = "PENDING" /\ adjustments'[n].lines = NoLines
              /\ adjustments'[n].ofCount = (copy[r].op = "approve")
         /\ \A l : InsertAdjustmentLine(r, l) =>
              /\ n \in DOMAIN adjustments
              /\ DOMAIN adjustments' = DOMAIN adjustments
              /\ \A a \in DOMAIN adjustments \ {n} : adjustments'[a] = adjustments[a]
              /\ adjustments'[n].status = adjustments[n].status
              /\ adjustments'[n].ofCount = adjustments[n].ofCount
              /\ adjustments'[n].lines =
                   [k \in DOMAIN adjustments[n].lines \cup {l} |-> copy[r].sheet[k]]
         /\ SaveAdjustment(r) =>
              /\ n \in DOMAIN adjustments
              /\ DOMAIN adjustments' = DOMAIN adjustments
              /\ \A a \in DOMAIN adjustments \ {n} : adjustments'[a] = adjustments[a]
              /\ adjustments'[n].status = copy[r].status
              /\ adjustments'[n].ofCount = adjustments[n].ofCount
              /\ adjustments'[n].lines = adjustments[n].lines
<1>t. adjustments \in Seq(Adjustments) /\ Mine(r)
  BY DEF CopyInv, TypeOK
<1> DEFINE n == copy[r].number
<1>1. ASSUME InsertAdjustment(r)
      PROVE  /\ n = Len(adjustments) + 1 /\ n \notin DOMAIN adjustments
             /\ DOMAIN adjustments' = DOMAIN adjustments \cup {n}
             /\ \A a \in DOMAIN adjustments : adjustments'[a] = adjustments[a]
             /\ adjustments'[n].status = "PENDING" /\ adjustments'[n].lines = NoLines
             /\ adjustments'[n].ofCount = (copy[r].op = "approve")
  <2> DEFINE new == [status |-> "PENDING", lines |-> NoLines, ofCount |-> copy[r].op = "approve"]
  <2>1. adjustments' = Append(adjustments, new) /\ n = Len(adjustments) + 1
    BY <1>1 DEF InsertAdjustment
  <2>2. new.status = "PENDING" /\ new.lines = NoLines /\ new.ofCount = (copy[r].op = "approve")
    OBVIOUS
  <2> HIDE DEF new, n
  <2>3. new = new /\ DOMAIN adjustments = 1 .. Len(adjustments) /\ Len(adjustments) \in Nat
    BY <1>t
  <2>4. /\ Append(adjustments, new)[Len(adjustments) + 1] = new
        /\ DOMAIN Append(adjustments, new) = 1 .. Len(adjustments) + 1
        /\ \A a \in DOMAIN adjustments : Append(adjustments, new)[a] = adjustments[a]
    BY <1>t
  <2>5. /\ n = Len(adjustments) + 1 /\ n \notin DOMAIN adjustments
        /\ DOMAIN adjustments' = DOMAIN adjustments \cup {n}
    BY <2>1, <2>3, <2>4
  <2> QED
    BY <2>1, <2>2, <2>4, <2>5
<1>2. ASSUME NEW l, InsertAdjustmentLine(r, l)
      PROVE  /\ n \in DOMAIN adjustments
             /\ DOMAIN adjustments' = DOMAIN adjustments
             /\ \A a \in DOMAIN adjustments \ {n} : adjustments'[a] = adjustments[a]
             /\ adjustments'[n].status = adjustments[n].status
             /\ adjustments'[n].ofCount = adjustments[n].ofCount
             /\ adjustments'[n].lines =
                  [k \in DOMAIN adjustments[n].lines \cup {l} |-> copy[r].sheet[k]]
  <2>1. n \in DOMAIN adjustments
    BY <1>t, <1>2 DEF InsertAdjustmentLine, Mine
  <2>2. adjustments[n] \in Adjustments
    BY <1>t, <2>1, AdjustmentsTyped
  <2>3. adjustments' = [adjustments EXCEPT ![n].lines =
                          [k \in DOMAIN @ \cup {l} |-> copy[r].sheet[k]]]
    BY <1>2 DEF InsertAdjustmentLine
  <2> HIDE DEF n
  <2> QED
    BY <1>t, <2>1, <2>2, <2>3 DEF Adjustments
<1>3. ASSUME SaveAdjustment(r)
      PROVE  /\ n \in DOMAIN adjustments
             /\ DOMAIN adjustments' = DOMAIN adjustments
             /\ \A a \in DOMAIN adjustments \ {n} : adjustments'[a] = adjustments[a]
             /\ adjustments'[n].status = copy[r].status
             /\ adjustments'[n].ofCount = adjustments[n].ofCount
             /\ adjustments'[n].lines = adjustments[n].lines
  <2>1. n \in DOMAIN adjustments
    BY <1>t, <1>3 DEF SaveAdjustment, Through, Mine
  <2>2. adjustments[n] \in Adjustments
    BY <1>t, <2>1, AdjustmentsTyped
  <2>3. adjustments' = [adjustments EXCEPT ![n].status = copy[r].status]
    BY <1>3 DEF SaveAdjustment
  <2> HIDE DEF n
  <2> QED
    BY <1>t, <2>1, <2>2, <2>3 DEF Adjustments
<1> QED
  BY <1>1, <1>2, <1>3

\* The copy of r after a write, a posting, or its end.
LEMMA WritesCopy ==
  ASSUME CopyInv, NEW r \in Requests
  PROVE  LET c == copy[r]
             d == copy'[r]
             Same == /\ d.op = c.op /\ d.count = c.count /\ d.number = c.number
                     /\ d.status = c.status /\ d.sheet = c.sheet /\ d.lines = c.lines
         IN
         /\ InsertAdjustment(r) =>
              /\ pc[r] = "adjust" /\ pc'[r] = "adjustLines" /\ Same
              /\ d.todo = DOMAIN c.sheet /\ d.wrote
         /\ \A l : InsertAdjustmentLine(r, l) =>
              /\ pc[r] = "adjustLines" /\ pc'[r] = "adjustLines" /\ Same
              /\ l \in c.todo /\ d.todo = c.todo \ {l} /\ d.wrote = c.wrote
         /\ SaveAdjustment(r) =>
              /\ pc[r] = "post" /\ c.todo = {}
              /\ IF c.op = "approve"
                 THEN pc'[r] = "settle" /\ Same /\ d.todo = c.todo /\ d.wrote
                 ELSE pc'[r] = "idle" /\ d = Idle
         /\ \A l : Post(r, l) =>
              /\ pc[r] = "post" /\ pc'[r] = "post" /\ Same
              /\ l \in c.todo /\ d.todo = c.todo \ {l} /\ d.wrote
         /\ SaveHeader(r) =>
              /\ pc[r] = "header" /\ pc'[r] = "erase" /\ Same /\ d.todo = c.todo /\ d.wrote
         /\ EraseLines(r) =>
              /\ pc[r] = "erase" /\ pc'[r] = "insert" /\ Same
              /\ d.todo = DOMAIN c.lines /\ d.wrote = c.wrote
         /\ \A l : InsertLine(r, l) =>
              /\ pc[r] = "insert" /\ pc'[r] = "insert" /\ Same
              /\ l \in c.todo /\ d.todo = c.todo \ {l} /\ d.wrote = c.wrote
         /\ DeleteRow(r) => pc[r] = "delete" /\ pc'[r] = "idle" /\ d = Idle
         /\ Ends(r) => pc'[r] = "idle" /\ d = Idle
<1>t. /\ TypeOK /\ copy[r] \in Copies
      /\ copy \in [Requests -> Copies] /\ pc \in [Requests -> Labels]
  BY DEF CopyInv, TypeOK
<1> DEFINE Same == /\ copy'[r].op = copy[r].op /\ copy'[r].count = copy[r].count
                   /\ copy'[r].number = copy[r].number
                   /\ copy'[r].status = copy[r].status /\ copy'[r].sheet = copy[r].sheet
                   /\ copy'[r].lines = copy[r].lines
<1>f. /\ \A x : copy'[r] = [copy[r] EXCEPT !.todo = x] =>
           Same /\ copy'[r].todo = x /\ copy'[r].wrote = copy[r].wrote
      /\ \A x : copy'[r] = [copy[r] EXCEPT !.todo = x, !.wrote = TRUE] =>
           Same /\ copy'[r].todo = x /\ copy'[r].wrote
      /\ copy'[r] = [copy[r] EXCEPT !.wrote = TRUE] =>
           Same /\ copy'[r].todo = copy[r].todo /\ copy'[r].wrote
  <2>1. ASSUME NEW x, copy'[r] = [copy[r] EXCEPT !.todo = x]
        PROVE  Same /\ copy'[r].todo = x /\ copy'[r].wrote = copy[r].wrote
    BY <1>t, <2>1, Fields
  <2>2. ASSUME NEW x, copy'[r] = [copy[r] EXCEPT !.todo = x, !.wrote = TRUE]
        PROVE  Same /\ copy'[r].todo = x /\ copy'[r].wrote
    BY <1>t, <2>2, Fields
  <2>3. ASSUME copy'[r] = [copy[r] EXCEPT !.wrote = TRUE]
        PROVE  Same /\ copy'[r].todo = copy[r].todo /\ copy'[r].wrote
    BY <1>t, <2>3, Fields
  <2> HIDE DEF Same
  <2> QED
    BY <2>1, <2>2, <2>3
<1> HIDE DEF Same
<1>1. ASSUME InsertAdjustment(r)
      PROVE  /\ pc[r] = "adjust" /\ pc'[r] = "adjustLines" /\ Same
             /\ copy'[r].todo = DOMAIN copy[r].sheet /\ copy'[r].wrote
  <2>1. Turn(r, [copy[r] EXCEPT !.todo = DOMAIN copy[r].sheet, !.wrote = TRUE], "adjustLines")
    BY <1>t, <1>1, AdjustTurns
  <2>2. copy'[r] = [copy[r] EXCEPT !.todo = DOMAIN copy[r].sheet, !.wrote = TRUE]
        /\ pc'[r] = "adjustLines"
    BY <1>t, <2>1, TurnIs
  <2> QED
    BY <1>1, <1>f, <2>2 DEF InsertAdjustment
<1>2. ASSUME NEW l, InsertAdjustmentLine(r, l)
      PROVE  /\ pc[r] = "adjustLines" /\ pc'[r] = "adjustLines" /\ Same
             /\ l \in copy[r].todo /\ copy'[r].todo = copy[r].todo \ {l}
             /\ copy'[r].wrote = copy[r].wrote
  <2>1. Turn(r, [copy[r] EXCEPT !.todo = copy[r].todo \ {l}], "adjustLines")
    BY <1>t, <1>2, AdjustTurns
  <2>2. copy'[r] = [copy[r] EXCEPT !.todo = copy[r].todo \ {l}] /\ pc'[r] = "adjustLines"
    BY <1>t, <2>1, TurnIs
  <2> QED
    BY <1>2, <1>f, <2>2 DEF InsertAdjustmentLine
<1>3. ASSUME SaveAdjustment(r)
      PROVE  /\ pc[r] = "post" /\ copy[r].todo = {}
             /\ IF copy[r].op = "approve"
                THEN pc'[r] = "settle" /\ Same /\ copy'[r].todo = copy[r].todo /\ copy'[r].wrote
                ELSE pc'[r] = "idle" /\ copy'[r] = Idle
  <2>1. CASE copy[r].op = "approve"
    <3>1. Turn(r, [copy[r] EXCEPT !.wrote = TRUE], "settle")
      BY <1>t, <1>3, <2>1, AdjustTurns
    <3>2. copy'[r] = [copy[r] EXCEPT !.wrote = TRUE] /\ pc'[r] = "settle"
      BY <1>t, <3>1, TurnIs
    <3> QED
      BY <1>3, <1>f, <2>1, <3>2 DEF SaveAdjustment, Through
  <2>2. CASE copy[r].op # "approve"
    <3>1. Turn(r, Idle, "idle")
      BY <1>t, <1>3, <2>2, AdjustTurns
    <3> QED
      BY <1>t, <1>3, <2>2, <3>1, TurnIs DEF SaveAdjustment, Through
  <2> QED
    BY <2>1, <2>2
<1>4. ASSUME NEW l, Post(r, l)
      PROVE  /\ pc[r] = "post" /\ pc'[r] = "post" /\ Same
             /\ l \in copy[r].todo /\ copy'[r].todo = copy[r].todo \ {l} /\ copy'[r].wrote
  <2>1. Turn(r, [copy[r] EXCEPT !.todo = copy[r].todo \ {l}, !.wrote = TRUE], "post")
    BY <1>t, <1>4, AdjustTurns
  <2>2. copy'[r] = [copy[r] EXCEPT !.todo = copy[r].todo \ {l}, !.wrote = TRUE]
        /\ pc'[r] = "post"
    BY <1>t, <2>1, TurnIs
  <2> QED
    BY <1>4, <1>f, <2>2 DEF Post
<1>5. ASSUME SaveHeader(r)
      PROVE  pc[r] = "header" /\ pc'[r] = "erase" /\ Same /\ copy'[r].todo = copy[r].todo
               /\ copy'[r].wrote
  <2>1. Turn(r, [copy[r] EXCEPT !.wrote = TRUE], "erase")
    BY <1>t, <1>5, SaveTurns
  <2>2. copy'[r] = [copy[r] EXCEPT !.wrote = TRUE] /\ pc'[r] = "erase"
    BY <1>t, <2>1, TurnIs
  <2> QED
    BY <1>5, <1>f, <2>2 DEF SaveHeader
<1>6. ASSUME EraseLines(r)
      PROVE  /\ pc[r] = "erase" /\ pc'[r] = "insert" /\ Same
             /\ copy'[r].todo = DOMAIN copy[r].lines /\ copy'[r].wrote = copy[r].wrote
  <2>1. Turn(r, [copy[r] EXCEPT !.todo = DOMAIN copy[r].lines], "insert")
    BY <1>t, <1>6, SaveTurns
  <2>2. copy'[r] = [copy[r] EXCEPT !.todo = DOMAIN copy[r].lines] /\ pc'[r] = "insert"
    BY <1>t, <2>1, TurnIs
  <2> QED
    BY <1>6, <1>f, <2>2 DEF EraseLines
<1>7. ASSUME NEW l, InsertLine(r, l)
      PROVE  /\ pc[r] = "insert" /\ pc'[r] = "insert" /\ Same
             /\ l \in copy[r].todo /\ copy'[r].todo = copy[r].todo \ {l}
             /\ copy'[r].wrote = copy[r].wrote
  <2>1. Turn(r, [copy[r] EXCEPT !.todo = copy[r].todo \ {l}], "insert")
    BY <1>t, <1>7, SaveTurns
  <2>2. copy'[r] = [copy[r] EXCEPT !.todo = copy[r].todo \ {l}] /\ pc'[r] = "insert"
    BY <1>t, <2>1, TurnIs
  <2> QED
    BY <1>7, <1>f, <2>2 DEF InsertLine
<1>8. ASSUME DeleteRow(r) \/ Ends(r)
      PROVE  pc'[r] = "idle" /\ copy'[r] = Idle
  <2>1. Turn(r, Idle, "idle")
    BY <1>t, <1>8, SaveTurns DEF Ends
  <2> QED
    BY <1>t, <2>1, TurnIs
<1>9. DeleteRow(r) => pc[r] = "delete"
  BY DEF DeleteRow
<1> QED
  BY <1>1, <1>2, <1>3, <1>4, <1>5, <1>6, <1>7, <1>8, <1>9 DEF Same

\* The other requests stand still, and an operation keeps its name.
LEMMA OthersStand ==
  ASSUME CopyInv, NEW r \in Requests, Step(r)
  PROVE  /\ \A q \in Requests \ {r} : copy'[q] = copy[q] /\ pc'[q] = pc[q]
         /\ pc[r] # "idle" /\ pc'[r] # "idle" => copy'[r].op = copy[r].op
<1>t. /\ TypeOK /\ copy[r] \in Copies
      /\ copy \in [Requests -> Copies] /\ pc \in [Requests -> Labels]
      /\ copy[r].lines \in Sheets
  BY CopyFields DEF CopyInv, TypeOK
<1> DEFINE Stands == /\ \A q \in Requests \ {r} : copy'[q] = copy[q] /\ pc'[q] = pc[q]
                     /\ pc[r] # "idle" /\ pc'[r] # "idle" => copy'[r].op = copy[r].op
<1>1. ASSUME NEW c, NEW label, Turn(r, c, label),
             pc[r] = "idle" \/ label = "idle" \/ c.op = copy[r].op
      PROVE  Stands
  <2>1. /\ copy'[r] = c /\ pc'[r] = label
        /\ \A q \in Requests \ {r} : copy'[q] = copy[q] /\ pc'[q] = pc[q]
    BY <1>t, <1>1, TurnIs
  <2> QED
    BY <1>1, <2>1
<1>2. ASSUME NEW s \in Statuses, NEW sheet \in Sheets, SaveCopy(r, s, sheet), pc[r] = "decide"
      PROVE  Stands
  <2>1. copy[r].count \in Counts
    BY <1>2 DEF CopyInv, Shape
  <2>2. Saved(copy[r], s, sheet).op = copy[r].op
    BY <1>t, <2>1, SavedTyped
  <2>3. Turn(r, Saved(copy[r], s, sheet), "header")
    BY <1>t, <1>2, SaveCopyTurn
  <2> QED
    BY <1>1, <2>2, <2>3
<1> HIDE DEF Stands
<1>3. ASSUME Selects(r) PROVE Stands
  <2>1. (\E new \in Given : Create(r, new)) => Stands
    BY <1>t, <1>1, LoadTurns DEF Create, Starting
  <2>2. (\E op \in CountOperations : LoadCount(r, op)) => Stands
    BY <1>t, <1>1, LoadTurns DEF LoadCount, Starting
  <2>3. LoadLines(r) => Stands
    <3>1. [copy[r] EXCEPT !.lines = lines].op = copy[r].op
      BY <1>t, Fields
    <3> QED
      BY <1>t, <1>1, <3>1, LoadTurns
  <2>4. /\ (\E new \in Given : Update(r, new)) => Stands
        /\ AssignCounter(r) => Stands
        /\ StartCounting(r) => Stands
        /\ (\E counted \in Sheets : RecordPhysicalCounts(r, counted)) => Stands
        /\ Cancel(r) => Stands
    BY <1>t, <1>2, SheetsClosed
       DEF Update, AssignCounter, StartCounting, RecordPhysicalCounts, Cancel, Deciding, Statuses
  <2>5. Delete(r) => Stands
    BY <1>t, <1>1, DecideTurns
  <2>6. Approve(r) => Stands
    <3> SUFFICES ASSUME Approve(r) PROVE Stands
      OBVIOUS
    <3>1. [copy[r] EXCEPT !.sheet = Differing(copy[r].lines)].op = copy[r].op
      BY <1>t, Fields
    <3>2. Turn(r, [copy[r] EXCEPT !.sheet = Differing(copy[r].lines)],
              IF Discrepancies(copy[r].lines) = {} THEN "settle" ELSE "number")
      BY <1>t, DecideTurns
    <3> QED
      BY <1>1, <3>1, <3>2
  <2>7. (\E sheet \in Given : CreateAdjustment(r, sheet)) => Stands
    BY <1>t, <1>1, AdjustTurns DEF CreateAdjustment, Starting
  <2>8. GenerateNumber(r) => Stands
    <3>1. [copy[r] EXCEPT !.number = Len(adjustments) + 1].op = copy[r].op
      BY <1>t, Fields
    <3> QED
      BY <1>t, <1>1, <3>1, AdjustTurns
  <2>9. (\E op \in AdjustmentOperations, a \in DOMAIN adjustments :
           ResolveAdjustment(r, op, a)) => Stands
    BY <1>t, <1>1, AdjustTurns DEF ResolveAdjustment, Starting
  <2>10. FindAdjustment(r) => Stands
    <3>1. [copy[r] EXCEPT !.status = adjustments[copy[r].number].status].op = copy[r].op
      BY <1>t, Fields
    <3> QED
      BY <1>t, <1>1, <3>1, AdjustTurns
  <2>11. FindAdjustmentLines(r) => Stands
    <3>1. [copy[r] EXCEPT !.sheet = adjustments[copy[r].number].lines].op = copy[r].op
      BY <1>t, Fields
    <3> QED
      BY <1>t, <1>1, <3>1, AdjustTurns
  <2>12. ApproveAdjustment(r) => Stands
    <3>1. [copy[r] EXCEPT !.status = "APPROVED", !.todo = Discrepancies(copy[r].sheet)].op
            = copy[r].op
      BY <1>t, Fields
    <3> QED
      BY <1>t, <1>1, <3>1, AdjustTurns
  <2>13. CancelAdjustment(r) => Stands
    <3>1. [copy[r] EXCEPT !.status = "CANCELLED", !.todo = {}].op = copy[r].op
      BY <1>t, Fields
    <3> QED
      BY <1>t, <1>1, <3>1, AdjustTurns
  <2>14. Settle(r) => Stands
    <3> DEFINE k == [status |-> "APPROVED",
                     adjustment |-> IF copy[r].number = 0 THEN copy[r].count.adjustment
                                    ELSE copy[r].number]
    <3>1. Settle(r) => Turn(r, [copy[r] EXCEPT !.count = k], "header")
      BY <1>t, SaveTurns
    <3> HIDE DEF k
    <3>2. [copy[r] EXCEPT !.count = k].op = copy[r].op
      BY <1>t, Fields
    <3> QED
      BY <1>1, <3>1, <3>2
  <2> QED
    BY <1>3, <2>1, <2>2, <2>3, <2>4, <2>5, <2>6, <2>7, <2>8, <2>9, <2>10, <2>11, <2>12,
       <2>13, <2>14 DEF Selects
<1>4. ASSUME WritesAdjustment(r) \/ Posts(r) \/ WritesCount(r) \/ Ends(r) PROVE Stands
  <2>1. \E c, label : Turn(r, c, label)
    BY <1>t, <1>4, AdjustTurns, SaveTurns
       DEF WritesAdjustment, Posts, WritesCount, Ends
  <2>2. \A q \in Requests \ {r} : copy'[q] = copy[q] /\ pc'[q] = pc[q]
    BY <1>t, <2>1, TurnIs
  <2>3. pc'[r] # "idle" => copy'[r].op = copy[r].op
    BY <1>4, WritesCopy DEF WritesAdjustment, Posts, WritesCount, Ends
  <2> QED
    BY <2>2, <2>3 DEF Stands
<1>5. Stands
  BY <1>3, <1>4, StepKinds
<1> QED
  BY <1>5 DEF Stands

\* No posting is taken back.
LEMMA PostedGrows ==
  ASSUME CopyInv, NEW r \in Requests, Step(r)
  PROVE  /\ \A a \in 1 .. MaxAdjustments, k \in Lines :
              posted[a][k] \in Nat /\ posted'[a][k] \in Nat /\ posted'[a][k] >= posted[a][k]
         /\ DOMAIN adjustments \subseteq DOMAIN adjustments'
         /\ DOMAIN adjustments \subseteq 1 .. MaxAdjustments
<1>1. posted \in [1 .. MaxAdjustments -> [Lines -> Nat]] /\ adjustments \in Seq(Adjustments)
        /\ Len(adjustments) <= MaxAdjustments
  BY DEF CopyInv, TypeOK
<1>2. ASSUME NEW l \in Lines, Post(r, l)
      PROVE  /\ \A a \in 1 .. MaxAdjustments, k \in Lines :
                   posted[a][k] \in Nat /\ posted'[a][k] \in Nat /\ posted'[a][k] >= posted[a][k]
             /\ DOMAIN adjustments \subseteq DOMAIN adjustments'
             /\ DOMAIN adjustments \subseteq 1 .. MaxAdjustments
  <2>1. adjustments' = adjustments
        /\ \A a \in 1 .. MaxAdjustments, k \in Lines :
             posted'[a][k] = posted[a][k]
                + (IF a = copy[r].number /\ k = l THEN 1 ELSE 0)
    BY <1>2, PostsTyped
  <2>2. \A a \in 1 .. MaxAdjustments, k \in Lines : posted[a][k] \in Nat
    BY <1>1
  <2>3. DOMAIN adjustments \subseteq 1 .. MaxAdjustments
    BY <1>1, BoundAssumption
  <2> QED
    BY <2>1, <2>2, <2>3
<1>3. CASE WritesAdjustment(r)
  <2>1. posted' = posted /\ DOMAIN adjustments \subseteq DOMAIN adjustments'
    BY <1>3, WritesAdjustmentTyped
  <2> QED
    BY <1>1, <2>1, BoundAssumption
<1>4. CASE WritesCount(r) \/ Selects(r) \/ Ends(r)
  <2>1. posted' = posted /\ adjustments' = adjustments
    BY <1>4, WritesCountTyped, SelectsFlags, EndsFlags DEF Tables, CopyInv
  <2> QED
    BY <1>1, <2>1, BoundAssumption
<1> QED
  BY <1>2, <1>3, <1>4, StepKinds DEF Posts

LEMMA WritesShape ==
  ASSUME CopyInv, NEW r \in Requests, WritesAdjustment(r) \/ Posts(r) \/ WritesCount(r) \/ Ends(r)
  PROVE  Shape(r)' /\ Mine(r)'
<1>t. /\ TypeOK /\ copy[r] \in Copies /\ Shape(r) /\ Mine(r)
      /\ DOMAIN copy[r].sheet \subseteq Lines
  BY CopyFields, SheetsClosed DEF CopyInv, TypeOK
<1>0. CASE pc'[r] = "idle" /\ copy'[r] = Idle
  BY <1>0, StartingFields DEF Shape, Mine, Settling
<1>1. CASE InsertAdjustment(r)
  <2>1. /\ pc[r] = "adjust" /\ pc'[r] = "adjustLines"
        /\ copy'[r].op = copy[r].op /\ copy'[r].count = copy[r].count
        /\ copy'[r].number = copy[r].number /\ copy'[r].sheet = copy[r].sheet
        /\ copy'[r].lines = copy[r].lines
        /\ copy'[r].todo = DOMAIN copy[r].sheet /\ copy'[r].wrote
    BY <1>1, WritesCopy
  <2>2. /\ copy[r].number \in DOMAIN adjustments'
        /\ adjustments'[copy[r].number].lines = NoLines
        /\ adjustments'[copy[r].number].ofCount = (copy[r].op = "approve")
    BY <1>1, AdjustmentWrites
  <2>3. Shape(r)'
    BY <1>t, <2>1 DEF Shape, Settling
  <2>4. NoLines = [l \in DOMAIN copy[r].sheet \ DOMAIN copy[r].sheet |-> copy[r].sheet[l]]
    BY DEF NoLines
  <2>5. Makes(r)'
    BY <2>1, <2>2, <2>4 DEF Makes
  <2> QED
    BY <1>t, <2>1, <2>2, <2>3, <2>5 DEF Mine, Settling
<1>2. ASSUME NEW l \in Lines, InsertAdjustmentLine(r, l)
      PROVE  Shape(r)' /\ Mine(r)'
  <2>1. /\ pc[r] = "adjustLines" /\ pc'[r] = "adjustLines"
        /\ copy'[r].op = copy[r].op /\ copy'[r].count = copy[r].count
        /\ copy'[r].number = copy[r].number /\ copy'[r].sheet = copy[r].sheet
        /\ copy'[r].lines = copy[r].lines
        /\ l \in copy[r].todo
        /\ copy'[r].todo = copy[r].todo \ {l} /\ copy'[r].wrote = copy[r].wrote
    BY <1>2, WritesCopy
  <2>2. /\ copy[r].number \in DOMAIN adjustments'
        /\ adjustments'[copy[r].number].lines =
             [k \in DOMAIN adjustments[copy[r].number].lines \cup {l} |-> copy[r].sheet[k]]
        /\ adjustments'[copy[r].number].ofCount = adjustments[copy[r].number].ofCount
    BY <1>2, AdjustmentWrites
  <2>3. Shape(r)'
    BY <1>t, <2>1 DEF Shape, Settling
  <2>4. Makes(r)
    BY <1>t, <2>1 DEF Mine
  <2>5. DOMAIN adjustments[copy[r].number].lines \cup {l}
          = DOMAIN copy[r].sheet \ (copy[r].todo \ {l})
    BY <2>1, <2>4 DEF Makes
  <2>6. Makes(r)'
    BY <2>1, <2>2, <2>4, <2>5 DEF Makes
  <2> QED
    BY <1>t, <2>1, <2>2, <2>3, <2>6 DEF Mine, Settling
<1>3. CASE SaveAdjustment(r)
  <2>1. CASE copy[r].op = "approve"
    <3>1. /\ pc[r] = "post" /\ pc'[r] = "settle"
          /\ copy'[r].op = copy[r].op /\ copy'[r].count = copy[r].count
          /\ copy'[r].number = copy[r].number
          /\ copy'[r].lines = copy[r].lines /\ copy'[r].wrote
      BY <1>3, <2>1, WritesCopy
    <3>2. /\ copy[r].number \in DOMAIN adjustments'
          /\ adjustments'[copy[r].number].lines = adjustments[copy[r].number].lines
          /\ adjustments'[copy[r].number].ofCount = adjustments[copy[r].number].ofCount
      BY <1>3, AdjustmentWrites
    <3>3. Made(r)
      BY <1>t, <2>1, <3>1 DEF Mine
    <3>4. Made(r)'
      BY <3>1, <3>2, <3>3 DEF Made
    <3>5. Shape(r)'
      BY <1>t, <2>1, <3>1 DEF Shape, Settling, CountOperations
    <3> QED
      BY <2>1, <3>1, <3>4, <3>5 DEF Mine, Settling
  <2>2. CASE copy[r].op # "approve"
    <3>1. pc'[r] = "idle" /\ copy'[r] = Idle
      BY <1>3, <2>2, WritesCopy
    <3> QED
      BY <1>0, <3>1
  <2> QED
    BY <2>1, <2>2
<1>4. ASSUME NEW l \in Lines, Post(r, l)
      PROVE  Shape(r)' /\ Mine(r)'
  <2>1. /\ pc[r] = "post" /\ pc'[r] = "post"
        /\ copy'[r].op = copy[r].op /\ copy'[r].count = copy[r].count
        /\ copy'[r].number = copy[r].number /\ copy'[r].sheet = copy[r].sheet
        /\ copy'[r].status = copy[r].status
        /\ copy'[r].lines = copy[r].lines
        /\ l \in copy[r].todo
        /\ copy'[r].todo = copy[r].todo \ {l} /\ copy'[r].wrote
    BY <1>4, WritesCopy
  <2>2. adjustments' = adjustments /\ copy[r].number \in DOMAIN adjustments
        /\ copy[r].number \in 1 .. MaxAdjustments
        /\ \A k \in Lines : posted'[copy[r].number][k] = posted[copy[r].number][k]
                + (IF k = l THEN 1 ELSE 0) /\ posted[copy[r].number][k] \in Nat
    <3>1. copy[r].number \in DOMAIN adjustments
      BY <1>4, PostsTyped
    <3>2. copy[r].number \in 1 .. MaxAdjustments
      BY <3>1, BoundAssumption DEF CopyInv, TypeOK
    <3> QED
      BY <1>t, <1>4, <3>1, <3>2, PostsTyped DEF TypeOK
  <2>3. Shape(r)'
    BY <1>t, <2>1 DEF Shape, Settling
  <2>4. Resolves(r)
    BY <1>t, <2>1 DEF Mine
  <2>5. Discrepancies(copy[r].sheet) \subseteq Lines
    BY <1>t DEF Discrepancies
  <2>6. Resolves(r)'
    BY <2>1, <2>2, <2>4, <2>5 DEF Resolves
  <2>7. copy[r].op = "approve" => Made(r)'
    BY <1>t, <2>1, <2>2 DEF Mine, Made
  <2> QED
    BY <2>1, <2>2, <2>3, <2>6, <2>7 DEF Mine, Settling
<1>5. CASE SaveHeader(r)
  <2>1. /\ pc[r] = "header" /\ pc'[r] = "erase"
        /\ copy'[r].op = copy[r].op /\ copy'[r].count = copy[r].count
        /\ copy'[r].number = copy[r].number /\ copy'[r].lines = copy[r].lines /\ copy'[r].wrote
        /\ adjustments' = adjustments
    BY <1>5, WritesCopy DEF SaveHeader
  <2> QED
    BY <1>t, <2>1 DEF Shape, Mine, Made, Settling
<1>6. CASE EraseLines(r)
  <2>1. /\ pc[r] = "erase" /\ pc'[r] = "insert"
        /\ copy'[r].op = copy[r].op /\ copy'[r].count = copy[r].count
        /\ copy'[r].number = copy[r].number /\ copy'[r].lines = copy[r].lines
        /\ copy'[r].wrote = copy[r].wrote /\ copy'[r].todo = DOMAIN copy[r].lines
        /\ adjustments' = adjustments
    BY <1>6, WritesCopy DEF EraseLines
  <2> QED
    BY <1>t, <2>1 DEF Shape, Mine, Made, Settling
<1>7. ASSUME NEW l \in Lines, InsertLine(r, l)
      PROVE  Shape(r)' /\ Mine(r)'
  <2>1. /\ pc[r] = "insert" /\ pc'[r] = "insert"
        /\ copy'[r].op = copy[r].op /\ copy'[r].count = copy[r].count
        /\ copy'[r].number = copy[r].number /\ copy'[r].lines = copy[r].lines
        /\ copy'[r].wrote = copy[r].wrote /\ copy'[r].todo = copy[r].todo \ {l}
    BY <1>7, WritesCopy
  <2>2. adjustments' = adjustments
    BY <1>7 DEF InsertLine
  <2> QED
    BY <1>t, <2>1, <2>2 DEF Shape, Mine, Made, Settling
<1>8. CASE DeleteRow(r) \/ Ends(r)
  <2>1. pc'[r] = "idle" /\ copy'[r] = Idle
    BY <1>8, WritesCopy
  <2> QED
    BY <1>0, <2>1
<1> QED
  BY <1>1, <1>2, <1>3, <1>4, <1>5, <1>6, <1>7, <1>8 DEF WritesAdjustment, Posts, WritesCount

\* The makers of the other adjustments find theirs as they left it.
LEMMA OthersMine ==
  ASSUME CopyInv, NEW r \in Requests, Step(r), NEW q \in Requests \ {r}
  PROVE  Shape(q)' /\ Mine(q)'
<1>t. /\ TypeOK /\ copy[q] \in Copies /\ Shape(q) /\ Mine(q) /\ Mine(r)
      /\ DOMAIN copy[q].sheet \subseteq Lines
  BY CopyFields, SheetsClosed DEF CopyInv, TypeOK
<1>1. copy'[q] = copy[q] /\ pc'[q] = pc[q]
  BY OthersStand
<1>2. Shape(q)'
  BY <1>t, <1>1 DEF Shape, Settling
<1>3. pc[q] = "post" => Resolves(q)'
  <2> SUFFICES ASSUME pc[q] = "post" PROVE Resolves(q)'
    OBVIOUS
  <2>1. Resolves(q) /\ copy[q].number \in DOMAIN adjustments
    BY <1>t DEF Mine
  <2>2. Discrepancies(copy[q].sheet) \subseteq Lines
    BY <1>t DEF Discrepancies
  <2>3. copy[q].number \in 1 .. MaxAdjustments
    BY <2>1, PostedGrows
  <2>4. \A k \in Discrepancies(copy[q].sheet) \ copy[q].todo :
          posted[copy[q].number][k] > 0 => posted'[copy[q].number][k] > 0
    BY <2>2, <2>3, PostedGrows
  <2> QED
    BY <1>1, <2>1, <2>4 DEF Resolves
<1>4. ASSUME Owns(q) \/ pc[q] = "adjustLines", copy[q].number \in DOMAIN adjustments
      PROVE  /\ copy[q].number \in DOMAIN adjustments'
             /\ adjustments'[copy[q].number].lines = adjustments[copy[q].number].lines
             /\ adjustments'[copy[q].number].ofCount = adjustments[copy[q].number].ofCount
  <2>1. CASE WritesAdjustment(r)
    <3>1. CASE InsertAdjustment(r)
      BY <1>4, <3>1, AdjustmentWrites
    <3>2. ASSUME NEW l \in Lines, InsertAdjustmentLine(r, l)
          PROVE  /\ copy[q].number \in DOMAIN adjustments'
                 /\ adjustments'[copy[q].number] = adjustments[copy[q].number]
      <4>1. pc[r] = "adjustLines"
        BY <3>2, WritesCopy
      <4>2. Owns(r) /\ Owns(q)
        <5>1. pc[q] = "adjustLines" => copy[q].op \in {"approve", "adjust"}
          BY <1>t DEF Shape
        <5>2. copy[r].op \in {"approve", "adjust"} /\ copy[r].number \in DOMAIN adjustments
          BY <4>1 DEF CopyInv, Shape, Mine
        <5>3. \A a \in DOMAIN adjustments : a # 0
          BY DEF CopyInv, TypeOK
        <5> QED
          BY <1>4, <4>1, <5>1, <5>2, <5>3 DEF Owns
      <4>3. copy[q].number # copy[r].number
        BY <4>2 DEF CopyInv, OwnInv
      <4> QED
        BY <1>4, <3>2, <4>3, AdjustmentWrites
    <3>3. CASE SaveAdjustment(r)
      BY <1>4, <3>3, AdjustmentWrites
    <3> QED
      BY <2>1, <3>1, <3>2, <3>3 DEF WritesAdjustment
  <2>2. CASE ~WritesAdjustment(r)
    <3>1. adjustments' = adjustments
      BY <2>2, StepKinds, SelectsFlags, WritesCountTyped, PostsTyped, EndsFlags
         DEF Tables, Posts, CopyInv
    <3> QED
      BY <1>4, <3>1
  <2> QED
    BY <2>1, <2>2
<1>5. copy[q].number \in DOMAIN adjustments => copy[q].number \in DOMAIN adjustments'
  BY PostedGrows
<1>6. pc[q] = "adjustLines" => Makes(q)'
  BY <1>t, <1>1, <1>4 DEF Mine, Makes
<1>7. ASSUME Made(q), copy[q].op = "approve", pc[q] \in {"findLines", "weigh", "post"} \cup Settling
      PROVE  Made(q)'
  <2>1. \A a \in DOMAIN adjustments : a # 0
    BY DEF CopyInv, TypeOK
  <2>2. Owns(q)
    BY <1>7, <2>1 DEF Owns, Made
  <2> QED
    BY <1>1, <1>4, <1>7, <2>2 DEF Made
<1> QED
  BY <1>t, <1>1, <1>2, <1>3, <1>5, <1>6, <1>7 DEF Mine
\* The requests that will save a changed copy of the count.
Revises(r) ==
  \/ \E new \in Given : Update(r, new)
  \/ AssignCounter(r)
  \/ StartCounting(r)
  \/ \E counted \in Sheets : RecordPhysicalCounts(r, counted)
  \/ Cancel(r)

\* The copy of r after a step that touches no table.
LEMMA SelectsCopy ==
  ASSUME CopyInv, NEW r \in Requests
  PROVE  LET c == copy[r]
             d == copy'[r]
         IN
         /\ \A new \in Given : Create(r, new) =>
              /\ pc[r] = "idle" /\ pc'[r] = "header" /\ history.started = 0 /\ count = NoCount
              /\ d.op = "create" /\ d.number = 0 /\ d.wrote = FALSE
         /\ \A op : LoadCount(r, op) =>
              /\ pc[r] = "idle" /\ pc'[r] = "load" /\ count # NoCount
              /\ op # "create" /\ d.op = op /\ d.count = count /\ d.wrote = FALSE
         /\ LoadLines(r) =>
              /\ pc[r] = "load" /\ pc'[r] = "decide" /\ d.lines = lines
              /\ d.op = c.op /\ d.count = c.count /\ d.number = c.number /\ d.wrote = c.wrote
         /\ Revises(r) =>
              /\ pc[r] = "decide" /\ pc'[r] = "header"
              /\ c.count.status # "APPROVED" /\ c.op \notin {"approve", "create"}
              /\ d.op = c.op /\ d.number = c.number /\ d.wrote = c.wrote
         /\ Delete(r) =>
              /\ pc[r] = "decide" /\ pc'[r] = "delete" /\ c.op = "delete" /\ d = c
         /\ Approve(r) =>
              /\ pc[r] = "decide"
              /\ pc'[r] = IF Discrepancies(c.lines) = {} THEN "settle" ELSE "number"
              /\ c.op = "approve" /\ c.count.status # "APPROVED"
              /\ d.op = c.op /\ d.count = c.count /\ d.number = c.number
              /\ d.lines = c.lines /\ d.wrote = c.wrote
         /\ \A sheet : CreateAdjustment(r, sheet) =>
              pc[r] = "idle" /\ pc'[r] = "number" /\ d.op = "adjust" /\ d.wrote = FALSE
         /\ GenerateNumber(r) =>
              /\ pc[r] = "number" /\ pc'[r] = "adjust"
              /\ d.op = c.op /\ d.count = c.count /\ d.lines = c.lines /\ d.wrote = c.wrote
         /\ \A op, a : ResolveAdjustment(r, op, a) =>
              /\ pc[r] = "idle" /\ pc'[r] = "find" /\ d.op = op
              /\ op \in {"approveAdjustment", "cancelAdjustment"} /\ d.wrote = FALSE
         /\ FindAdjustment(r) =>
              /\ pc[r] = "find" \/ (pc[r] = "adjustLines" /\ c.op = "approve" /\ c.todo = {})
              /\ pc'[r] = "findLines" /\ d.status = adjustments[c.number].status
              /\ d.op = c.op /\ d.count = c.count /\ d.number = c.number
              /\ d.lines = c.lines /\ d.wrote = c.wrote
         /\ FindAdjustmentLines(r) =>
              /\ pc[r] = "findLines" /\ pc'[r] = "weigh" /\ d.sheet = adjustments[c.number].lines
              /\ d.op = c.op /\ d.count = c.count /\ d.number = c.number /\ d.status = c.status
              /\ d.lines = c.lines /\ d.wrote = c.wrote
         /\ ApproveAdjustment(r) =>
              /\ pc[r] = "weigh" /\ pc'[r] = "post" /\ c.status = "PENDING"
              /\ c.op \in {"approve", "approveAdjustment"}
              /\ d.op = c.op /\ d.count = c.count /\ d.number = c.number /\ d.sheet = c.sheet
              /\ d.lines = c.lines /\ d.wrote = c.wrote /\ d.todo = Discrepancies(c.sheet)
         /\ CancelAdjustment(r) =>
              /\ pc[r] = "weigh" /\ pc'[r] = "post" /\ c.status = "PENDING"
              /\ c.op = "cancelAdjustment"
              /\ d.op = c.op /\ d.count = c.count /\ d.number = c.number /\ d.sheet = c.sheet
              /\ d.lines = c.lines /\ d.wrote = c.wrote
         /\ Settle(r) =>
              /\ pc[r] = "settle" /\ pc'[r] = "header" /\ c.op = "approve"
              /\ c.count.status \in {"REVIEW", "COUNTING"}
              /\ d.op = c.op /\ d.number = c.number /\ d.lines = c.lines /\ d.wrote = c.wrote
              /\ d.count.status = "APPROVED"
              /\ d.count.adjustment = IF c.number = 0 THEN c.count.adjustment ELSE c.number
<1>t. /\ TypeOK /\ copy[r] \in Copies /\ Shape(r)
      /\ copy \in [Requests -> Copies] /\ pc \in [Requests -> Labels]
      /\ copy[r].lines \in Sheets
  BY CopyFields DEF CopyInv, TypeOK
<1> DEFINE c == copy[r]
           d == copy'[r]
<1>1. ASSUME NEW new \in Given, Create(r, new)
      PROVE  /\ pc[r] = "idle" /\ pc'[r] = "header" /\ history.started = 0 /\ count = NoCount
             /\ d.op = "create" /\ d.number = 0 /\ d.wrote = FALSE
  <2>1. Turn(r, [Idle EXCEPT !.count = [status |-> "DRAFT", adjustment |-> 0],
                             !.lines = new], "header")
    BY <1>t, <1>1, LoadTurns
  <2>2. pc'[r] = "header" /\ d = [Idle EXCEPT !.count = [status |-> "DRAFT", adjustment |-> 0],
                                              !.lines = new]
    BY <1>t, <2>1, TurnIs
  <2>3. d.op = "create" /\ d.number = 0 /\ d.wrote = FALSE
    BY <2>2, StartingFields
  <2>4. pc[r] = "idle" /\ history.started = 0 /\ count = NoCount
    BY <1>1 DEF Create, Starting
  <2> QED
    BY <2>2, <2>3, <2>4
<1>2. ASSUME NEW op, LoadCount(r, op)
      PROVE  /\ pc[r] = "idle" /\ pc'[r] = "load" /\ count # NoCount
             /\ op # "create" /\ d.op = op /\ d.count = count /\ d.wrote = FALSE
  <2>1. Turn(r, [Idle EXCEPT !.op = op, !.count = count], "load") /\ op \in CountOperations
    BY <1>t, <1>2, LoadTurns DEF LoadCount
  <2>2. pc'[r] = "load" /\ d = [Idle EXCEPT !.op = op, !.count = count]
    BY <1>t, <2>1, TurnIs
  <2>3. d.op = op /\ d.count = count /\ d.wrote = FALSE
    BY <2>2, StartingFields
  <2>4. pc[r] = "idle" /\ count # NoCount /\ op # "create"
    BY <1>2 DEF LoadCount, Starting
  <2> QED
    BY <2>2, <2>3, <2>4
<1>3. ASSUME LoadLines(r)
      PROVE  /\ pc[r] = "load" /\ pc'[r] = "decide" /\ d.lines = lines
             /\ d.op = c.op /\ d.count = c.count /\ d.number = c.number /\ d.wrote = c.wrote
  <2>1. pc'[r] = "decide" /\ d = [copy[r] EXCEPT !.lines = lines]
    BY <1>t, <1>3, LoadTurns, TurnIs
  <2> QED
    BY <1>t, <1>3, <2>1, Fields DEF LoadLines
<1>4. ASSUME Revises(r)
      PROVE  /\ pc[r] = "decide" /\ pc'[r] = "header"
             /\ c.count.status # "APPROVED" /\ c.op \notin {"approve", "create"}
             /\ d.op = c.op /\ d.number = c.number /\ d.wrote = c.wrote
  <2>1. /\ \E status \in Statuses, sheet \in Sheets : SaveCopy(r, status, sheet)
        /\ pc[r] = "decide" /\ c.count.status # "APPROVED" /\ c.op \notin {"approve", "create"}
    BY <1>t, <1>4, SheetsClosed
       DEF Revises, Update, AssignCounter, StartCounting, RecordPhysicalCounts, Cancel,
           Deciding, Statuses
  <2>2. PICK status \in Statuses, sheet \in Sheets : SaveCopy(r, status, sheet)
    BY <2>1
  <2>3. d = Saved(copy[r], status, sheet) /\ pc'[r] = "header"
    BY <1>t, <2>2, SaveCopyTurn, TurnIs
  <2>4. copy[r].count \in Counts
    BY <1>t, <2>1 DEF Shape
  <2> HIDE DEF c, d
  <2>5. ASSUME NEW e, e \in Copies, e.count \in Counts
        PROVE  /\ Saved(e, status, sheet).op = e.op /\ Saved(e, status, sheet).number = e.number
               /\ Saved(e, status, sheet).wrote = e.wrote
    BY <2>5, SavedTyped
  <2>6. Saved(copy[r], status, sheet).op = c.op /\ Saved(copy[r], status, sheet).number = c.number
        /\ Saved(copy[r], status, sheet).wrote = c.wrote
    BY <1>t, <2>4, <2>5 DEF c
  <2> QED
    BY <2>1, <2>3, <2>6
<1>5. Delete(r) => pc[r] = "decide" /\ pc'[r] = "delete" /\ c.op = "delete" /\ d = c
  <2> SUFFICES ASSUME Delete(r) PROVE pc[r] = "decide" /\ pc'[r] = "delete" /\ c.op = "delete" /\ d = c
    OBVIOUS
  <2>1. Turn(r, copy[r], "delete")
    BY <1>t, DecideTurns
  <2>2. d = c /\ pc'[r] = "delete"
    BY <1>t, <2>1, TurnIs
  <2> QED
    BY <2>2 DEF Delete, Deciding
<1>6. ASSUME Approve(r)
      PROVE  /\ pc[r] = "decide"
             /\ pc'[r] = IF Discrepancies(c.lines) = {} THEN "settle" ELSE "number"
             /\ c.op = "approve" /\ c.count.status # "APPROVED"
             /\ d.op = c.op /\ d.count = c.count /\ d.number = c.number
             /\ d.lines = c.lines /\ d.wrote = c.wrote
  <2>1. /\ pc'[r] = IF Discrepancies(copy[r].lines) = {} THEN "settle" ELSE "number"
        /\ d = [copy[r] EXCEPT !.sheet = Differing(copy[r].lines)]
        /\ pc[r] = "decide" /\ copy[r].op = "approve" /\ c.count.status # "APPROVED"
    BY <1>t, <1>6, DecideTurns, TurnIs DEF Approve, Deciding
  <2> QED
    BY <1>t, <2>1, Fields
<1>7. ASSUME NEW sheet, CreateAdjustment(r, sheet)
      PROVE  pc[r] = "idle" /\ pc'[r] = "number" /\ d.op = "adjust" /\ d.wrote = FALSE
  <2>1. Turn(r, [Idle EXCEPT !.op = "adjust", !.sheet = sheet], "number")
    BY <1>t, <1>7, AdjustTurns
  <2>2. pc'[r] = "number" /\ d = [Idle EXCEPT !.op = "adjust", !.sheet = sheet]
    BY <1>t, <2>1, TurnIs
  <2>3. d.op = "adjust" /\ d.wrote = FALSE
    BY <2>2, StartingFields
  <2>4. pc[r] = "idle"
    BY <1>7 DEF CreateAdjustment, Starting
  <2> QED
    BY <2>2, <2>3, <2>4
<1>8. ASSUME GenerateNumber(r)
      PROVE  /\ pc[r] = "number" /\ pc'[r] = "adjust"
             /\ d.op = c.op /\ d.count = c.count /\ d.lines = c.lines /\ d.wrote = c.wrote
  <2>1. Turn(r, [copy[r] EXCEPT !.number = Len(adjustments) + 1], "adjust")
    BY <1>t, <1>8, AdjustTurns
  <2>2. pc'[r] = "adjust" /\ d = [copy[r] EXCEPT !.number = Len(adjustments) + 1]
    BY <1>t, <2>1, TurnIs
  <2> QED
    BY <1>t, <1>8, <2>2, Fields DEF GenerateNumber
<1>9. ASSUME NEW op, NEW a, ResolveAdjustment(r, op, a)
      PROVE  /\ pc[r] = "idle" /\ pc'[r] = "find" /\ d.op = op
             /\ op \in {"approveAdjustment", "cancelAdjustment"} /\ d.wrote = FALSE
  <2>1. Turn(r, [Idle EXCEPT !.op = op, !.number = a], "find")
    BY <1>t, <1>9, AdjustTurns
  <2>2. pc'[r] = "find" /\ d = [Idle EXCEPT !.op = op, !.number = a]
    BY <1>t, <2>1, TurnIs
  <2>3. d.op = op /\ d.wrote = FALSE
    BY <2>2, StartingFields
  <2>4. pc[r] = "idle" /\ op \in {"approveAdjustment", "cancelAdjustment"}
    BY <1>9 DEF ResolveAdjustment, Starting
  <2> QED
    BY <2>2, <2>3, <2>4
<1>10. ASSUME FindAdjustment(r)
       PROVE  /\ pc[r] = "find" \/ (pc[r] = "adjustLines" /\ c.op = "approve" /\ c.todo = {})
              /\ pc'[r] = "findLines" /\ d.status = adjustments[c.number].status
              /\ d.op = c.op /\ d.count = c.count /\ d.number = c.number
              /\ d.lines = c.lines /\ d.wrote = c.wrote
  <2>1. Turn(r, [copy[r] EXCEPT !.status = adjustments[copy[r].number].status], "findLines")
    BY <1>t, <1>10, AdjustTurns
  <2>2. pc'[r] = "findLines"
        /\ d = [copy[r] EXCEPT !.status = adjustments[copy[r].number].status]
    BY <1>t, <2>1, TurnIs
  <2> QED
    BY <1>t, <1>10, <2>2, Fields DEF FindAdjustment, Through
<1>11. ASSUME FindAdjustmentLines(r)
       PROVE  /\ pc[r] = "findLines" /\ pc'[r] = "weigh" /\ d.sheet = adjustments[c.number].lines
              /\ d.op = c.op /\ d.count = c.count /\ d.number = c.number /\ d.status = c.status
              /\ d.lines = c.lines /\ d.wrote = c.wrote
  <2>1. Turn(r, [copy[r] EXCEPT !.sheet = adjustments[copy[r].number].lines], "weigh")
    BY <1>t, <1>11, AdjustTurns
  <2>2. pc'[r] = "weigh" /\ d = [copy[r] EXCEPT !.sheet = adjustments[copy[r].number].lines]
    BY <1>t, <2>1, TurnIs
  <2> QED
    BY <1>t, <1>11, <2>2, Fields DEF FindAdjustmentLines
<1>12. ASSUME ApproveAdjustment(r)
       PROVE  /\ pc[r] = "weigh" /\ pc'[r] = "post" /\ c.status = "PENDING"
              /\ c.op \in {"approve", "approveAdjustment"}
              /\ d.op = c.op /\ d.count = c.count /\ d.number = c.number /\ d.sheet = c.sheet
              /\ d.lines = c.lines /\ d.wrote = c.wrote /\ d.todo = Discrepancies(c.sheet)
  <2>1. Turn(r, [copy[r] EXCEPT !.status = "APPROVED",
                                !.todo = Discrepancies(copy[r].sheet)], "post")
    BY <1>t, <1>12, AdjustTurns
  <2>2. pc'[r] = "post"
        /\ d = [copy[r] EXCEPT !.status = "APPROVED", !.todo = Discrepancies(copy[r].sheet)]
    BY <1>t, <2>1, TurnIs
  <2> QED
    BY <1>t, <1>12, <2>2, Fields DEF ApproveAdjustment, Resolving
<1>13. ASSUME CancelAdjustment(r)
       PROVE  /\ pc[r] = "weigh" /\ pc'[r] = "post" /\ c.status = "PENDING"
              /\ c.op = "cancelAdjustment"
              /\ d.op = c.op /\ d.count = c.count /\ d.number = c.number /\ d.sheet = c.sheet
              /\ d.lines = c.lines /\ d.wrote = c.wrote
  <2>1. Turn(r, [copy[r] EXCEPT !.status = "CANCELLED", !.todo = {}], "post")
    BY <1>t, <1>13, AdjustTurns
  <2>2. pc'[r] = "post" /\ d = [copy[r] EXCEPT !.status = "CANCELLED", !.todo = {}]
    BY <1>t, <2>1, TurnIs
  <2> QED
    BY <1>t, <1>13, <2>2, Fields DEF CancelAdjustment, Resolving
<1>14. ASSUME Settle(r)
       PROVE  /\ pc[r] = "settle" /\ pc'[r] = "header" /\ c.op = "approve"
              /\ c.count.status \in {"REVIEW", "COUNTING"}
              /\ d.op = c.op /\ d.number = c.number /\ d.lines = c.lines /\ d.wrote = c.wrote
              /\ d.count.status = "APPROVED"
              /\ d.count.adjustment = IF c.number = 0 THEN c.count.adjustment ELSE c.number
  <2> DEFINE n == IF copy[r].number = 0 THEN copy[r].count.adjustment ELSE copy[r].number
             k == [status |-> "APPROVED", adjustment |-> n]
  <2>1. Turn(r, [copy[r] EXCEPT !.count = k], "header")
    BY <1>t, <1>14, SaveTurns
  <2>2. k.status = "APPROVED" /\ k.adjustment = n
    OBVIOUS
  <2> HIDE DEF k
  <2>3. pc'[r] = "header" /\ d = [copy[r] EXCEPT !.count = k]
    BY <1>t, <2>1, TurnIs
  <2>4. pc[r] = "settle" /\ c.op = "approve" /\ c.count.status \in {"REVIEW", "COUNTING"}
    BY <1>t, <1>14 DEF Settle, Shape
  <2> QED
    BY <1>t, <2>2, <2>3, <2>4, Fields
<1> HIDE DEF c, d
<1> QED
  BY <1>1, <1>2, <1>3, <1>4, <1>5, <1>6, <1>7, <1>8, <1>9, <1>10, <1>11, <1>12, <1>13, <1>14 DEF c, d
LEMMA SelectsFrom ==
  ASSUME CopyInv, NEW r \in Requests, Selects(r)
  PROVE  /\ pc[r] \notin {"adjust", "post", "header", "erase", "insert", "delete"}
         /\ pc'[r] \notin {"idle", "adjustLines", "erase", "insert"}
         /\ pc[r] # "idle" =>
              /\ copy'[r].wrote = copy[r].wrote /\ copy'[r].op = copy[r].op
              /\ pc[r] # "number" => copy'[r].number = copy[r].number
         /\ pc[r] = "idle" => copy'[r].wrote = FALSE
<1>1. CASE \/ \E new \in Given : Create(r, new)
           \/ \E op \in CountOperations : LoadCount(r, op)
           \/ \E sheet \in Given : CreateAdjustment(r, sheet)
           \/ \E op \in AdjustmentOperations, a \in DOMAIN adjustments : ResolveAdjustment(r, op, a)
  BY <1>1, SelectsCopy
<1>2. CASE LoadLines(r) \/ Revises(r) \/ Delete(r) \/ Approve(r) \/ GenerateNumber(r)
  BY <1>2, SelectsCopy
<1>3. CASE \/ FindAdjustment(r) \/ FindAdjustmentLines(r) \/ ApproveAdjustment(r)
           \/ CancelAdjustment(r) \/ Settle(r)
  BY <1>3, SelectsCopy
<1> QED
  BY <1>1, <1>2, <1>3 DEF Selects, Revises

\* What a step does to the flags.
LEMMA StepFlags ==
  ASSUME CopyInv, NEW r \in Requests, Step(r)
  PROVE  /\ ~history'.stale =>
              /\ ~history.stale
              /\ WritesAdjustment(r) \/ WritesCount(r) \/ Posts(r) => r \notin history.overtaken
         /\ ~history'.cut => ~history.cut /\ (Abort(r) => ~copy[r].wrote)
         /\ r \in history'.overtaken <=> r \in history.overtaken /\ pc'[r] # "idle"
         /\ \A q \in Requests \ {r} :
              /\ q \in history.overtaken => q \in history'.overtaken
              /\ q \in history'.overtaken => q \in history.overtaken \/ pc[q] # "idle"
              /\ WritesAdjustment(r) /\ HasReadAdjustment(q, copy[r].number) =>
                   q \in history'.overtaken
              /\ WritesCount(r) /\ HasReadCount(q) => q \in history'.overtaken
         /\ history'.started >= history.started
<1>t. TypeOK
  BY DEF CopyInv
<1>k. /\ Abort(r) => Ends(r)
      /\ \A q \in ReadersOfCount : pc[q] # "idle"
      /\ \A a : \A q \in ReadersOfAdjustment(a) : pc[q] # "idle"
      /\ \A q \in Requests : HasReadCount(q) => q \in ReadersOfCount
      /\ \A q \in Requests : \A a : HasReadAdjustment(q, a) => q \in ReadersOfAdjustment(a)
  BY DEF Ends, ReadersOfCount, ReadersOfAdjustment, HasReadCount, HasReadAdjustment
<1>f. /\ Selects(r) => Flags(r, {}, FALSE, FALSE) /\ pc'[r] # "idle"
      /\ WritesAdjustment(r) => Flags(r, ReadersOfAdjustment(copy[r].number), TRUE, FALSE)
      /\ WritesCount(r) => Flags(r, ReadersOfCount, TRUE, FALSE)
      /\ Posts(r) => Flags(r, {}, TRUE, FALSE)
      /\ Ends(r) => Flags(r, {}, FALSE, Abort(r) /\ copy[r].wrote)
  BY <1>t, SelectsFlags, WritesAdjustmentFlags, WritesCountFlags, PostsFlags, EndsFlags
<1>s. Selects(r) \/ WritesAdjustment(r) \/ WritesCount(r) \/ Posts(r) \/ Ends(r)
  BY StepKinds
<1>1. /\ r \in history'.overtaken <=> r \in history.overtaken /\ pc'[r] # "idle"
      /\ ~history'.stale => ~history.stale
      /\ ~history'.cut => ~history.cut
      /\ history'.started >= history.started
      /\ \A q \in Requests \ {r} : q \in history.overtaken => q \in history'.overtaken
  BY <1>f, <1>s DEF Flags
<1>2. \A q \in Requests \ {r} :
        q \in history'.overtaken => q \in history.overtaken \/ pc[q] # "idle"
  BY <1>k, <1>f, <1>s DEF Flags
<1>3. WritesAdjustment(r) \/ WritesCount(r) \/ Posts(r) =>
        (~history'.stale => r \notin history.overtaken)
  BY <1>f DEF Flags
<1>4. ~history'.cut => (Abort(r) => ~copy[r].wrote)
  BY <1>k, <1>f DEF Flags
<1>5. \A q \in Requests \ {r} :
        /\ WritesAdjustment(r) /\ HasReadAdjustment(q, copy[r].number) => q \in history'.overtaken
        /\ WritesCount(r) /\ HasReadCount(q) => q \in history'.overtaken
  BY <1>k, <1>f DEF Flags
<1> QED
  BY <1>1, <1>2, <1>3, <1>4, <1>5

\* The owner of an adjustment owned it before, or has just made it.
LEMMA OwnStep ==
  ASSUME CopyInv, NEW r \in Requests, Step(r)
  PROVE  Owns(r)' => \/ Owns(r) /\ copy'[r].number = copy[r].number
                     \/ copy'[r].number \notin DOMAIN adjustments
<1>t. Shape(r) /\ Mine(r)
  BY DEF CopyInv
<1> SUFFICES ASSUME Owns(r)'
             PROVE  \/ Owns(r) /\ copy'[r].number = copy[r].number
                    \/ copy'[r].number \notin DOMAIN adjustments
  OBVIOUS
<1>o. /\ copy'[r].op \in {"approve", "adjust"}
      /\ pc'[r] \in {"adjustLines", "findLines", "weigh", "post"} \cup Settling
      /\ copy'[r].number # 0
  BY DEF Owns
<1>1. CASE Selects(r)
  <2>1. ~(\E new \in Given : Create(r, new)) /\ ~(\E op \in CountOperations : LoadCount(r, op))
        /\ ~LoadLines(r) /\ ~Delete(r) /\ ~(\E sheet \in Given : CreateAdjustment(r, sheet))
        /\ ~(\E op \in AdjustmentOperations, a \in DOMAIN adjustments : ResolveAdjustment(r, op, a))
    BY <1>o, SelectsCopy DEF Settling
  <2>2. ~Revises(r) /\ ~CancelAdjustment(r)
    BY <1>o, <1>t, SelectsCopy DEF Shape
  <2>3. ~Approve(r) /\ ~GenerateNumber(r)
    BY <1>o, <1>t, SelectsCopy DEF Shape, Settling
  <2>4. CASE FindAdjustment(r) \/ FindAdjustmentLines(r) \/ ApproveAdjustment(r) \/ Settle(r)
    BY <1>o, <1>t, <2>4, SelectsCopy DEF Shape, Owns, Settling
  <2> QED
    BY <1>1, <2>1, <2>2, <2>3, <2>4 DEF Selects, Revises
<1>2. CASE WritesAdjustment(r)
  <2>1. CASE InsertAdjustment(r)
    BY <2>1, WritesCopy, AdjustmentWrites
  <2>2. CASE ~InsertAdjustment(r)
    BY <1>o, <1>2, <2>2, WritesCopy DEF WritesAdjustment, Owns, Settling
  <2> QED
    BY <2>1, <2>2
<1>3. CASE WritesCount(r) \/ Posts(r) \/ Ends(r)
  BY <1>o, <1>3, WritesCopy DEF WritesCount, Posts, Owns, Settling
<1> QED
  BY <1>1, <1>2, <1>3, StepKinds

LEMMA OwnedExists ==
  ASSUME CopyInv, NEW q \in Requests, Owns(q)
  PROVE  copy[q].number \in DOMAIN adjustments
<1>1. Shape(q) /\ Mine(q)
  BY DEF CopyInv
<1> QED
  BY <1>1 DEF Owns, Shape, Mine, Made, Settling, CountOperations

\* Nobody else works on a count that is being created.
LEMMA AloneStep ==
  ASSUME CopyInv, NEW r \in Requests, Step(r)
  PROVE  Alone'
<1>t. /\ TypeOK /\ Shape(r) /\ Alone
      /\ history.started \in Nat /\ history'.started \in Nat
      /\ history'.started >= history.started
  BY TypeStep, StepFlags DEF CopyInv, TypeOK
<1>o. \A q \in Requests \ {r} : copy'[q] = copy[q] /\ pc'[q] = pc[q]
  BY OthersStand
<1>s. CASE pc[r] = "idle"
  <2>1. \/ \E new \in Given : Create(r, new)
        \/ \E op \in CountOperations : LoadCount(r, op)
        \/ \E sheet \in Given : CreateAdjustment(r, sheet)
        \/ \E op \in AdjustmentOperations, a \in DOMAIN adjustments : ResolveAdjustment(r, op, a)
    BY <1>s DEF Step, LoadLines, Update, AssignCounter, StartCounting, RecordPhysicalCounts,
         Cancel, Delete, Approve, Deciding, GenerateNumber, InsertAdjustment,
         InsertAdjustmentLine, FindAdjustment, FindAdjustmentLines, ApproveAdjustment,
         CancelAdjustment, Resolving, Post, SaveAdjustment, Settle, SaveHeader, EraseLines,
         InsertLine, DeleteRow, Return, Abort, Through
  <2>2. history' = [history EXCEPT !.started = @ + 1] /\ count' = count
    BY <2>1 DEF Create, LoadCount, CreateAdjustment, ResolveAdjustment, Starting
  <2>3. history'.started # 0
    BY <1>t, <2>2 DEF TypeOK
  <2>4. ASSUME NEW q \in Requests, pc'[q] = "header", copy'[q].op = "create"
        PROVE  count' = NoCount /\ \A s \in Requests \ {q} : ~HasReadCount(s)'
    <3>1. CASE q = r
      <4>1. \E new \in Given : Create(r, new)
        BY <2>1, <2>4, <3>1, SelectsCopy
      <4>2. count = NoCount /\ Quiet
        BY <1>t, <4>1, SelectsCopy DEF Alone
      <4> QED
        BY <1>o, <2>2, <3>1, <4>2 DEF Quiet, HasReadCount
    <3>2. CASE q # r
      <4>1. pc[q] = "header" /\ copy[q].op = "create"
        BY <1>o, <2>4, <3>2
      <4>2. count = NoCount /\ (\A s \in Requests \ {q} : ~HasReadCount(s)) /\ history.started # 0
        BY <1>t, <4>1 DEF Alone, Quiet
      <4>3. ~(\E new \in Given : Create(r, new)) /\ ~(\E op \in CountOperations : LoadCount(r, op))
        BY <4>2, SelectsCopy
      <4>4. copy'[r].op \notin CountOperations
        BY <2>1, <4>3, SelectsCopy DEF CountOperations
      <4> QED
        BY <1>o, <2>2, <3>2, <4>2, <4>4 DEF HasReadCount
    <3> QED
      BY <3>1, <3>2
  <2> QED
    BY <2>3, <2>4 DEF Alone
<1>w. CASE pc[r] # "idle"
  <2>1. history.started # 0
    BY <1>t, <1>w DEF Alone, Quiet
  <2>2. pc'[r] # "idle" => copy'[r].op = copy[r].op
    BY <1>w, OthersStand
  <2>3. HasReadCount(r)' => HasReadCount(r)
    BY <1>w, <2>2 DEF HasReadCount
  <2>4. WritesCount(r) => HasReadCount(r)
    BY <1>t, WritesCopy DEF WritesCount, Shape, Settling, HasReadCount
  <2>5. ~WritesCount(r) => count' = count
    BY <1>t, StepKinds, SelectsFlags, WritesAdjustmentTyped, PostsTyped, EndsFlags
       DEF Tables, Posts
  <2>6. ASSUME NEW q \in Requests, pc'[q] = "header", copy'[q].op = "create"
        PROVE  q # r
    <3> SUFFICES ASSUME q = r PROVE FALSE
      OBVIOUS
    <3>1. Selects(r)
      BY <2>6, StepKinds, WritesCopy DEF WritesAdjustment, WritesCount, Posts
    <3>2. ~(\E new \in Given : Create(r, new))
      BY <1>w, SelectsCopy
    <3>3. ~Revises(r) /\ ~Settle(r)
      BY <2>2, <2>6, SelectsCopy
    <3>4. ~(\E op \in CountOperations : LoadCount(r, op))
          /\ ~(\E sheet \in Given : CreateAdjustment(r, sheet))
          /\ ~(\E op \in AdjustmentOperations, a \in DOMAIN adjustments : ResolveAdjustment(r, op, a))
      BY <1>w, SelectsCopy
    <3>5. ~LoadLines(r) /\ ~Delete(r) /\ ~Approve(r) /\ ~GenerateNumber(r) /\ ~FindAdjustment(r)
          /\ ~FindAdjustmentLines(r) /\ ~ApproveAdjustment(r) /\ ~CancelAdjustment(r)
      BY <2>6, SelectsCopy
    <3> QED
      BY <3>1, <3>2, <3>3, <3>4, <3>5 DEF Selects, Revises
  <2>7. ASSUME NEW q \in Requests, pc'[q] = "header", copy'[q].op = "create"
        PROVE  count' = NoCount /\ \A s \in Requests \ {q} : ~HasReadCount(s)'
    <3>1. q # r /\ pc[q] = "header" /\ copy[q].op = "create"
      BY <1>o, <2>6, <2>7
    <3>2. count = NoCount /\ \A s \in Requests \ {q} : ~HasReadCount(s)
      BY <1>t, <3>1 DEF Alone
    <3> QED
      BY <1>o, <2>3, <2>4, <2>5, <3>1, <3>2 DEF HasReadCount
  <2> QED
    BY <1>t, <2>1, <2>7 DEF Alone
<1> QED
  BY <1>s, <1>w

LEMMA CopyStep ==
  ASSUME CopyInv, [Next]_vars
  PROVE  CopyInv'
<1>1. ASSUME NEW r \in Requests, Step(r)
      PROVE  CopyInv'
  <2>1. TypeOK' /\ Len(adjustments)' <= MaxAdjustments
    BY <1>1, TypeStep
  <2>2. \A q \in Requests : Shape(q)' /\ Mine(q)'
    BY <1>1, StepKinds, SelectsShape, WritesShape, OthersMine
  <2>3. \A q \in Requests : pc'[q] = "idle" => q \notin history'.overtaken
    BY <1>1, StepFlags, OthersStand DEF CopyInv
  <2>4. ASSUME NEW q \in Requests, NEW s \in Requests, Owns(q)', Owns(s)', q # s
        PROVE  copy'[q].number # copy'[s].number
    <3>1. \A u \in Requests \ {r} : Owns(u)' =>
            Owns(u) /\ copy'[u].number = copy[u].number /\ copy[u].number \in DOMAIN adjustments
      BY <1>1, OthersStand, OwnedExists DEF Owns
    <3> QED
      BY <1>1, <2>4, <3>1, OwnStep DEF CopyInv, OwnInv
  <2>5. Alone'
    BY <1>1, AloneStep
  <2> QED
    BY <2>1, <2>2, <2>3, <2>4, <2>5 DEF CopyInv, OwnInv
<1>2. CASE UNCHANGED vars
  <2>1. /\ pc' = pc /\ copy' = copy /\ history' = history /\ adjustments' = adjustments
        /\ count' = count /\ posted' = posted /\ lines' = lines
    BY <1>2 DEF vars
  <2>2. TypeOK' /\ Len(adjustments)' <= MaxAdjustments
    BY <2>1 DEF CopyInv, TypeOK
  <2>3. \A r \in Requests : Shape(r)' /\ Mine(r)'
    BY <2>1 DEF CopyInv, Shape, Mine, Makes, Made, Resolves
  <2>4. OwnInv' /\ Alone'
    BY <2>1 DEF CopyInv, OwnInv, Owns, Alone, Quiet, HasReadCount
  <2> QED
    BY <2>1, <2>2, <2>3, <2>4 DEF CopyInv
<1> QED
  BY <1>1, <1>2 DEF Next

-----------------------------------------------------------------------------
(* What a request that nobody has overtaken knows. *)

Reconciling == {"number", "adjust", "adjustLines", "findLines", "weigh", "post", "settle"}

\* Its copy of the count is what the tables hold, or what it has saved of it.
KnowsCount(r) ==
  LET c == copy[r]
      at == pc[r]
  IN  /\ at = "load" => c.count = count
      /\ at \in {"decide", "delete"} \/ (at \in Reconciling /\ c.op = "approve") =>
           c.count = count /\ c.lines = lines
      /\ at = "header" \/ (at \in Reconciling /\ c.op = "approve") => ~Approved
      /\ at = "header" /\ c.op = "approve" => c.lines = lines
      /\ at \in {"erase", "insert"} => c.count = count
      /\ at = "insert" => lines = [l \in DOMAIN c.lines \ c.todo |-> c.lines[l]]

\* Its copy of the adjustment is the row, which nobody has resolved.
KnowsAdjustment(r) ==
  LET c == copy[r]
      at == pc[r]
      a == adjustments[c.number]
  IN  /\ at \in {"adjustLines", "post"} => a.status = "PENDING"
      /\ at \in {"findLines", "weigh"} => c.status = a.status
      /\ at \in {"weigh", "post"} => c.sheet = a.lines

KnowledgeInv == ~history.stale =>
  \A r \in Requests : r \notin history.overtaken => KnowsCount(r) /\ KnowsAdjustment(r)

\* What only some steps change.
LEMMA TablesStand ==
  ASSUME CopyInv, NEW r \in Requests, Step(r)
  PROVE  /\ WritesCount(r) \/ (count' = count /\ lines' = lines)
         /\ WritesAdjustment(r) \/ adjustments' = adjustments
         /\ Posts(r) \/ posted' = posted
  BY StepKinds, SelectsFlags, WritesAdjustmentTyped, WritesCountTyped, PostsTyped, EndsFlags
     DEF Tables, Posts, CopyInv

\* The adjustment that another request works on changes only if it is overtaken.
LEMMA AdjustmentStands ==
  ASSUME CopyInv, NEW r \in Requests, Step(r), NEW q \in Requests \ {r},
         pc[q] \in {"adjustLines", "findLines", "weigh", "post"}, q \notin history'.overtaken
  PROVE  adjustments'[copy[q].number] = adjustments[copy[q].number]
<1>1. copy[q].number \in DOMAIN adjustments
  BY DEF CopyInv, Mine
<1>2. CASE WritesAdjustment(r)
  <2>1. copy[q].number # copy[r].number
    BY <1>2, StepFlags DEF HasReadAdjustment
  <2> QED
    BY <1>1, <1>2, <2>1, AdjustmentWrites DEF WritesAdjustment
<1> QED
  BY <1>2, TablesStand

LEMMA OthersKnow ==
  ASSUME CopyInv, NEW r \in Requests, Step(r), NEW q \in Requests \ {r},
         q \notin history'.overtaken, KnowsCount(q), KnowsAdjustment(q)
  PROVE  KnowsCount(q)' /\ KnowsAdjustment(q)'
<1>1. copy'[q] = copy[q] /\ pc'[q] = pc[q] /\ Shape(q)
  BY OthersStand DEF CopyInv
<1>2. KnowsAdjustment(q)'
  BY <1>1, AdjustmentStands DEF KnowsAdjustment
<1>3. CASE WritesCount(r)
  <2>1. ~HasReadCount(q)
    BY <1>3, StepFlags
  <2>2. pc[q] \notin {"load", "decide", "delete"} \cup Settling
        /\ ~(pc[q] \in Reconciling /\ copy[q].op = "approve")
    BY <1>1, <2>1 DEF HasReadCount, Shape, Settling, Reconciling, CountOperations
  <2>3. KnowsCount(q)'
    BY <1>1, <2>2 DEF KnowsCount, Settling
  <2> QED
    BY <1>2, <2>3
<1>4. CASE ~WritesCount(r)
  <2>1. count' = count /\ lines' = lines
    BY <1>4, TablesStand
  <2>2. KnowsCount(q)'
    BY <1>1, <2>1 DEF KnowsCount, Approved
  <2> QED
    BY <1>2, <2>2
<1> QED
  BY <1>3, <1>4

LEMMA SelectsKnows ==
  ASSUME CopyInv, NEW r \in Requests, Selects(r), KnowsCount(r), KnowsAdjustment(r)
  PROVE  KnowsCount(r)' /\ KnowsAdjustment(r)'
<1>t. TypeOK /\ Shape(r) /\ Mine(r)
  BY DEF CopyInv
<1>u. count' = count /\ lines' = lines /\ adjustments' = adjustments
  BY <1>t, SelectsFlags DEF Tables
<1>a. Approved' = Approved
  BY <1>u DEF Approved
<1>1. CASE \E new \in Given : Create(r, new)
  BY <1>a, <1>1, SelectsCopy DEF KnowsCount, KnowsAdjustment, Reconciling, Approved
<1>2. CASE \E op \in CountOperations : LoadCount(r, op)
  BY <1>u, <1>2, SelectsCopy DEF KnowsCount, KnowsAdjustment, Reconciling
<1>3. CASE LoadLines(r)
  BY <1>u, <1>3, SelectsCopy DEF KnowsCount, KnowsAdjustment, Reconciling
<1>4. CASE Revises(r)
  BY <1>a, <1>4, SelectsCopy DEF KnowsCount, KnowsAdjustment, Reconciling, Approved
<1>5. CASE Delete(r)
  BY <1>u, <1>5, SelectsCopy DEF KnowsCount, KnowsAdjustment, Reconciling
<1>6. CASE Approve(r)
  BY <1>u, <1>a, <1>6, SelectsCopy DEF KnowsCount, KnowsAdjustment, Reconciling, Approved
<1>7. CASE \E sheet \in Given : CreateAdjustment(r, sheet)
  BY <1>7, SelectsCopy DEF KnowsCount, KnowsAdjustment, Reconciling
<1>8. CASE GenerateNumber(r)
  BY <1>u, <1>a, <1>8, SelectsCopy DEF KnowsCount, KnowsAdjustment, Reconciling
<1>9. CASE \E op \in AdjustmentOperations, a \in DOMAIN adjustments : ResolveAdjustment(r, op, a)
  BY <1>9, SelectsCopy DEF KnowsCount, KnowsAdjustment, Reconciling
<1>10. CASE FindAdjustment(r)
  <2>1. pc[r] = "find" => copy[r].op # "approve"
    BY <1>t DEF Shape
  <2> QED
    BY <1>u, <1>a, <1>10, <2>1, SelectsCopy DEF KnowsCount, KnowsAdjustment, Reconciling
<1>11. CASE FindAdjustmentLines(r)
  BY <1>u, <1>a, <1>11, SelectsCopy DEF KnowsCount, KnowsAdjustment, Reconciling
<1>12. CASE ApproveAdjustment(r) \/ CancelAdjustment(r)
  BY <1>u, <1>a, <1>12, SelectsCopy DEF KnowsCount, KnowsAdjustment, Reconciling
<1>13. CASE Settle(r)
  BY <1>u, <1>a, <1>13, SelectsCopy DEF KnowsCount, KnowsAdjustment, Reconciling
<1> QED
  BY <1>1, <1>2, <1>3, <1>4, <1>5, <1>6, <1>7, <1>8, <1>9, <1>10, <1>11, <1>12, <1>13
     DEF Selects, Revises

LEMMA WritesKnows ==
  ASSUME CopyInv, NEW r \in Requests, KnowsCount(r), KnowsAdjustment(r),
         WritesAdjustment(r) \/ Posts(r) \/ WritesCount(r) \/ Ends(r)
  PROVE  KnowsCount(r)' /\ KnowsAdjustment(r)'
<1>t. TypeOK /\ Shape(r) /\ Mine(r) /\ Step(r)
  BY StepKinds DEF CopyInv
<1>0. CASE pc'[r] = "idle"
  BY <1>0 DEF KnowsCount, KnowsAdjustment, Reconciling
<1>1. CASE WritesAdjustment(r)
  <2>1. count' = count /\ lines' = lines /\ Approved' = Approved
    BY <1>1, WritesAdjustmentTyped DEF Approved
  <2>2. CASE InsertAdjustment(r)
    <3>1. adjustments'[copy[r].number].status = "PENDING"
      BY <2>2, AdjustmentWrites
    <3>2. /\ pc[r] = "adjust" /\ pc'[r] = "adjustLines" /\ copy'[r].op = copy[r].op
          /\ copy'[r].count = copy[r].count /\ copy'[r].number = copy[r].number
          /\ copy'[r].lines = copy[r].lines
      BY <2>2, WritesCopy
    <3> QED
      BY <2>1, <3>1, <3>2 DEF KnowsCount, KnowsAdjustment, Reconciling
  <2>3. ASSUME NEW l \in Lines, InsertAdjustmentLine(r, l)
        PROVE  KnowsCount(r)' /\ KnowsAdjustment(r)'
    <3>1. adjustments'[copy[r].number].status = adjustments[copy[r].number].status
      BY <2>3, AdjustmentWrites
    <3> QED
      BY <2>1, <2>3, <3>1, WritesCopy DEF KnowsCount, KnowsAdjustment, Reconciling
  <2>4. CASE SaveAdjustment(r)
    BY <1>0, <2>1, <2>4, WritesCopy DEF KnowsCount, KnowsAdjustment, Reconciling
  <2> QED
    BY <1>1, <2>2, <2>3, <2>4 DEF WritesAdjustment
<1>2. ASSUME NEW l \in Lines, Post(r, l)
      PROVE  KnowsCount(r)' /\ KnowsAdjustment(r)'
  <2>1. /\ count' = count /\ lines' = lines /\ Approved' = Approved
        /\ adjustments' = adjustments
    BY <1>2, PostsTyped DEF Approved
  <2> QED
    BY <1>2, <2>1, WritesCopy DEF KnowsCount, KnowsAdjustment, Reconciling
<1>3. CASE SaveHeader(r)
  <2>1. count' = copy[r].count
    BY <1>3 DEF SaveHeader
  <2> QED
    BY <1>3, <2>1, WritesCopy DEF KnowsCount, KnowsAdjustment, Reconciling
<1>4. CASE EraseLines(r)
  <2>1. count' = count /\ lines' = NoLines
    BY <1>4 DEF EraseLines
  <2>2. NoLines = [l \in DOMAIN copy[r].lines \ DOMAIN copy[r].lines |-> copy[r].lines[l]]
    BY DEF NoLines
  <2>3. /\ pc[r] = "erase" /\ pc'[r] = "insert" /\ copy'[r].count = copy[r].count
        /\ copy'[r].lines = copy[r].lines /\ copy'[r].todo = DOMAIN copy[r].lines
    BY <1>4, WritesCopy
  <2> QED
    BY <2>1, <2>2, <2>3 DEF KnowsCount, KnowsAdjustment, Reconciling
<1>5. ASSUME NEW l \in Lines, InsertLine(r, l)
      PROVE  KnowsCount(r)' /\ KnowsAdjustment(r)'
  <2>1. count' = count
        /\ lines' = [k \in DOMAIN lines \cup {l} |-> IF k = l THEN copy[r].lines[l] ELSE lines[k]]
    BY <1>5 DEF InsertLine
  <2>2. /\ pc[r] = "insert" /\ pc'[r] = "insert" /\ copy'[r].count = copy[r].count
        /\ copy'[r].lines = copy[r].lines /\ l \in copy[r].todo /\ copy'[r].todo = copy[r].todo \ {l}
    BY <1>5, WritesCopy
  <2>3. lines = [k \in DOMAIN copy[r].lines \ copy[r].todo |-> copy[r].lines[k]]
        /\ copy[r].todo \subseteq DOMAIN copy[r].lines
    BY <1>t, <2>2 DEF KnowsCount, Shape
  <2>4. DOMAIN lines \cup {l} = DOMAIN copy[r].lines \ (copy[r].todo \ {l})
    BY <2>2, <2>3
  <2>5. lines' = [k \in DOMAIN copy[r].lines \ (copy[r].todo \ {l}) |-> copy[r].lines[k]]
    BY <2>1, <2>3, <2>4
  <2> QED
    BY <2>1, <2>2, <2>5 DEF KnowsCount, KnowsAdjustment, Reconciling
<1>6. CASE DeleteRow(r) \/ Ends(r)
  BY <1>0, <1>6, WritesCopy
<1> QED
  BY <1>1, <1>2, <1>3, <1>4, <1>5, <1>6 DEF WritesCount, Posts

LEMMA KnowledgeStep ==
  ASSUME CopyInv, KnowledgeInv, NEW r \in Requests, Step(r)
  PROVE  KnowledgeInv'
<1> SUFFICES ASSUME ~history'.stale, NEW q \in Requests, q \notin history'.overtaken
             PROVE  KnowsCount(q)' /\ KnowsAdjustment(q)'
  BY DEF KnowledgeInv
<1>1. ~history.stale
  BY StepFlags
<1>2. CASE q # r
  BY <1>1, <1>2, StepFlags, OthersKnow DEF KnowledgeInv
<1>3. CASE q = r
  <2>1. CASE pc'[r] = "idle"
    BY <1>3, <2>1 DEF KnowsCount, KnowsAdjustment, Reconciling
  <2>2. CASE pc'[r] # "idle"
    <3>1. KnowsCount(r) /\ KnowsAdjustment(r)
      BY <1>1, <1>3, <2>2, StepFlags DEF KnowledgeInv
    <3> QED
      BY <1>3, <3>1, StepKinds, SelectsKnows, WritesKnows
  <2> QED
    BY <2>1, <2>2
<1> QED
  BY <1>2, <1>3
\* Unless a request acts on what another has overtaken, ...
LEMMA ResolutionsStep ==
  ASSUME CopyInv, KnowledgeInv, NEW r \in Requests, Step(r), ~history'.stale
  PROVE  /\ \A a \in DOMAIN adjustments :
              adjustments[a].status # "PENDING" =>
                adjustments'[a] = adjustments[a] /\ posted'[a] = posted[a]
         /\ Approved =>
              /\ count' = count
              /\ \A a \in DOMAIN adjustments' :
                   adjustments'[a].ofCount => a \in DOMAIN adjustments
<1>t. TypeOK /\ Shape(r) /\ Mine(r)
  BY DEF CopyInv
<1>k. WritesAdjustment(r) \/ WritesCount(r) \/ Posts(r) => KnowsCount(r) /\ KnowsAdjustment(r)
  BY StepFlags DEF KnowledgeInv
<1>1. ASSUME NEW a \in DOMAIN adjustments, adjustments[a].status # "PENDING"
      PROVE  adjustments'[a] = adjustments[a]
  <2>1. CASE WritesAdjustment(r)
    <3>1. CASE InsertAdjustment(r)
      BY <1>1, <3>1, AdjustmentWrites
    <3>2. CASE ~InsertAdjustment(r)
      <4>1. pc[r] \in {"adjustLines", "post"}
        BY <2>1, <3>2, WritesCopy DEF WritesAdjustment
      <4>2. a # copy[r].number
        BY <1>1, <1>k, <2>1, <4>1 DEF KnowsAdjustment
      <4> QED
        BY <1>1, <2>1, <3>2, <4>2, AdjustmentWrites DEF WritesAdjustment
    <3> QED
      BY <3>1, <3>2
  <2> QED
    BY <2>1, TablesStand
<1>2. ASSUME NEW a \in DOMAIN adjustments, adjustments[a].status # "PENDING"
      PROVE  posted'[a] = posted[a]
  <2>1. ASSUME NEW l \in Lines, Post(r, l)
        PROVE  posted'[a] = posted[a]
    <3>1. a # copy[r].number
      BY <1>2, <1>k, <2>1, WritesCopy DEF KnowsAdjustment, Posts
    <3>2. posted' = [posted EXCEPT ![copy[r].number][l] = @ + 1]
      BY <2>1 DEF Post
    <3> QED
      BY <1>2, <3>1, <3>2, PostedGrows DEF CopyInv, TypeOK
  <2> QED
    BY <2>1, TablesStand DEF Posts
<1>3. ASSUME Approved
      PROVE  count' = count
  <2>1. ~SaveHeader(r)
    BY <1>3, <1>k, WritesCopy DEF WritesCount, KnowsCount
  <2>2. ~DeleteRow(r)
    BY <1>t, <1>3, <1>k, WritesCopy DEF WritesCount, KnowsCount, Shape, Approved
  <2>3. WritesCount(r) => count' = count
    BY <2>1, <2>2 DEF WritesCount, EraseLines, InsertLine
  <2> QED
    BY <2>3, TablesStand
<1>4. ASSUME Approved, NEW a \in DOMAIN adjustments', adjustments'[a].ofCount
      PROVE  a \in DOMAIN adjustments
  <2>1. CASE InsertAdjustment(r)
    <3>1. pc[r] = "adjust" /\ KnowsCount(r)
      BY <1>k, <2>1, WritesCopy DEF WritesAdjustment
    <3>2. copy[r].op # "approve"
      BY <1>4, <3>1 DEF KnowsCount, Reconciling
    <3> QED
      BY <1>4, <2>1, <3>2, AdjustmentWrites
  <2>2. CASE ~InsertAdjustment(r)
    BY <2>2, TablesStand, AdjustmentWrites DEF WritesAdjustment
  <2> QED
    BY <2>1, <2>2
<1> QED
  BY <1>1, <1>2, <1>3, <1>4

LEMMA KnowledgeKept ==
  ASSUME CopyInv, KnowledgeInv, [Next]_vars
  PROVE  KnowledgeInv'
<1>1. CASE UNCHANGED vars
  BY <1>1 DEF vars, KnowledgeInv, KnowsCount, KnowsAdjustment, Approved
<1> QED
  BY <1>1, KnowledgeStep DEF Next

LEMMA KnowledgeInit == Init => KnowledgeInv
  BY DEF Init, KnowledgeInv, KnowsCount, KnowsAdjustment, Reconciling

-----------------------------------------------------------------------------
(* An approved count is reconciled. *)

\* Adjustment a is approved and posted for each line of the sheet that differs.
Books(a, sheet) ==
  \A l \in Discrepancies(sheet) :
    /\ a \in DOMAIN adjustments
    /\ adjustments[a].status = "APPROVED"
    /\ l \in DOMAIN adjustments[a].lines
    /\ adjustments[a].lines[l] = sheet[l]
    /\ posted[a][l] > 0

ReconInv == ~history.stale =>
  /\ Approved => Books(count.adjustment, lines)
  /\ \A r \in Requests : copy[r].op = "approve" /\ pc[r] \in Settling =>
       Books(copy[r].number, copy[r].lines)

LEMMA BooksStand ==
  ASSUME CopyInv, KnowledgeInv, NEW r \in Requests, Step(r), ~history'.stale,
         NEW a, NEW sheet, Books(a, sheet)
  PROVE  Books(a, sheet)'
<1> SUFFICES ASSUME NEW l \in Discrepancies(sheet)
             PROVE  /\ a \in DOMAIN adjustments'
                    /\ adjustments'[a].status = "APPROVED"
                    /\ l \in DOMAIN adjustments'[a].lines
                    /\ adjustments'[a].lines[l] = sheet[l]
                    /\ posted'[a][l] > 0
  BY DEF Books
<1>1. /\ a \in DOMAIN adjustments
      /\ adjustments[a].status = "APPROVED"
      /\ l \in DOMAIN adjustments[a].lines
      /\ adjustments[a].lines[l] = sheet[l]
      /\ posted[a][l] > 0
  BY DEF Books
<1>2. adjustments'[a] = adjustments[a] /\ posted'[a] = posted[a] /\ a \in DOMAIN adjustments'
  BY <1>1, ResolutionsStep, PostedGrows
<1> QED
  BY <1>1, <1>2

\* Nothing differs, or the adjustment is one.
LEMMA SomeBooks ==
  ASSUME CopyInv, NEW a, NEW sheet, Books(a, sheet)
  PROVE  Discrepancies(sheet) = {} \/ a # 0
<1>1. 0 \notin DOMAIN adjustments
  BY DEF CopyInv, TypeOK
<1> QED
  BY <1>1 DEF Books

LEMMA MakersReconcile ==
  ASSUME CopyInv, KnowledgeInv, ReconInv, NEW r \in Requests, Step(r), ~history'.stale,
         NEW q \in Requests, copy'[q].op = "approve", pc'[q] \in Settling
  PROVE  Books(copy[q].number, copy[q].lines)'
<1>s. ~history.stale
  BY StepFlags
<1>1. CASE q # r
  BY <1>s, <1>1, OthersStand, BooksStand DEF ReconInv
<1>2. CASE q = r
  <2>t. Shape(r) /\ Mine(r)
    BY DEF CopyInv
  <2>1. CASE SaveAdjustment(r)
    <3>1. /\ pc[r] = "post" /\ copy[r].todo = {} /\ copy[r].op = "approve"
          /\ copy'[r].number = copy[r].number /\ copy'[r].lines = copy[r].lines
      BY <1>2, <2>1, WritesCopy DEF Settling
    <3>2. Made(r) /\ Resolves(r)
      BY <2>t, <3>1 DEF Mine
    <3>3. copy[r].sheet = adjustments[copy[r].number].lines
      BY <1>s, <2>1, <3>1, StepFlags DEF WritesAdjustment, KnowledgeInv, KnowsAdjustment
    <3>4. copy[r].sheet = Differing(copy[r].lines)
      BY <3>2, <3>3 DEF Made
    <3>5. /\ Discrepancies(copy[r].sheet) = Discrepancies(copy[r].lines)
          /\ DOMAIN copy[r].sheet = Discrepancies(copy[r].lines)
          /\ \A l \in Discrepancies(copy[r].lines) : copy[r].sheet[l] = copy[r].lines[l]
      BY <3>4 DEF Differing, Discrepancies
    <3>6. \A l \in Discrepancies(copy[r].lines) : posted[copy[r].number][l] > 0
      BY <3>1, <3>2, <3>5 DEF Resolves
    <3>7. /\ copy[r].number \in DOMAIN adjustments'
          /\ adjustments'[copy[r].number].status = "APPROVED"
          /\ adjustments'[copy[r].number].lines = copy[r].sheet
      BY <2>1, <3>1, <3>2, <3>3, AdjustmentWrites DEF Resolves
    <3>8. posted' = posted
      BY <2>1 DEF SaveAdjustment
    <3> QED
      BY <1>2, <3>1, <3>5, <3>6, <3>7, <3>8 DEF Books
  <2>2. CASE Approve(r)
    <3>1. copy'[r].lines = copy[r].lines /\ Discrepancies(copy[r].lines) = {}
      BY <1>2, <2>2, SelectsCopy DEF Settling
    <3> QED
      BY <1>2, <3>1 DEF Books
  <2>3. CASE Settle(r) \/ WritesCount(r)
    <3>1. /\ copy[r].op = "approve" /\ pc[r] \in Settling
          /\ copy'[r].number = copy[r].number /\ copy'[r].lines = copy[r].lines
      <4>1. CASE Settle(r)
        BY <4>1, SelectsCopy DEF Settling
      <4>2. CASE WritesCount(r)
        BY <1>2, <4>2, WritesCopy DEF WritesCount, Settling
      <4> QED
        BY <2>3, <4>1, <4>2
    <3> QED
      BY <1>s, <1>2, <3>1, BooksStand DEF ReconInv
  <2>4. ~(WritesAdjustment(r) /\ ~SaveAdjustment(r)) /\ ~Posts(r) /\ ~Ends(r)
    BY <1>2, WritesCopy DEF WritesAdjustment, Posts, Settling
  <2>5. ~(Selects(r) /\ ~Approve(r) /\ ~Settle(r))
    <3>1. /\ ~(\E new \in Given : Create(r, new)) /\ ~Revises(r)
          /\ ~(\E op \in CountOperations : LoadCount(r, op))
          /\ ~(\E sheet \in Given : CreateAdjustment(r, sheet))
          /\ ~(\E op \in AdjustmentOperations, a \in DOMAIN adjustments : ResolveAdjustment(r, op, a))
      BY <1>2, SelectsCopy DEF Settling
    <3>2. ~LoadLines(r) /\ ~Delete(r) /\ ~GenerateNumber(r) /\ ~FindAdjustment(r)
          /\ ~FindAdjustmentLines(r) /\ ~ApproveAdjustment(r) /\ ~CancelAdjustment(r)
      BY <1>2, SelectsCopy DEF Settling
    <3> QED
      BY <3>1, <3>2 DEF Selects, Revises
  <2> QED
    BY <2>1, <2>2, <2>3, <2>4, <2>5, StepKinds
<1> QED
  BY <1>1, <1>2

LEMMA CountReconciles ==
  ASSUME CopyInv, KnowledgeInv, ReconInv, NEW r \in Requests, Step(r), ~history'.stale, Approved'
  PROVE  Books(count.adjustment, lines)'
<1>s. ~history.stale /\ Shape(r) /\ Mine(r)
  BY StepFlags DEF CopyInv
<1>k. WritesCount(r) => KnowsCount(r)
  BY <1>s, StepFlags DEF KnowledgeInv
<1>1. CASE SaveHeader(r)
  <2>1. pc[r] = "header" /\ count' = copy[r].count /\ lines' = lines
    BY <1>1 DEF SaveHeader
  <2>2. copy[r].op = "approve"
    BY <1>s, <2>1 DEF Shape, Approved, Settling
  <2>3. copy[r].lines = lines
    BY <1>k, <1>1, <2>1, <2>2 DEF WritesCount, KnowsCount
  <2>4. Books(copy[r].number, copy[r].lines)
    BY <1>s, <2>1, <2>2 DEF ReconInv, Settling
  <2>5. Books(copy[r].number, copy[r].lines)' /\ copy'[r].number = copy[r].number
        /\ copy'[r].lines = copy[r].lines
    BY <1>1, <2>2, WritesCopy, MakersReconcile DEF Settling
  <2>6. CASE Discrepancies(copy[r].lines) = {}
    BY <2>1, <2>3, <2>6 DEF Books
  <2>7. CASE copy[r].number # 0
    BY <1>s, <2>1, <2>2, <2>3, <2>5, <2>7 DEF Mine
  <2> QED
    BY <2>4, <2>6, <2>7, SomeBooks
<1>2. CASE EraseLines(r)
  <2>1. Discrepancies(lines') = {}
    BY <1>2 DEF EraseLines, NoLines, Discrepancies
  <2> QED
    BY <2>1 DEF Books
<1>3. ASSUME NEW l \in Lines, InsertLine(r, l)
      PROVE  Books(count.adjustment, lines)'
  <2>1. /\ pc[r] = "insert" /\ pc'[r] = "insert" /\ count' = count /\ copy'[r].op = copy[r].op
        /\ copy'[r].lines = copy[r].lines /\ copy'[r].number = copy[r].number
    BY <1>3, WritesCopy DEF InsertLine
  <2>2. KnowsCount(r) /\ KnowsCount(r)'
    <3>1. WritesCount(r) /\ r \notin history.overtaken
      BY <1>3, StepFlags DEF WritesCount
    <3>2. KnowsCount(r) /\ KnowsAdjustment(r)
      BY <1>s, <3>1 DEF KnowledgeInv
    <3> QED
      BY <3>1, <3>2, WritesKnows
  <2>3. count = copy[r].count /\ copy[r].op = "approve"
    BY <1>s, <2>1, <2>2 DEF KnowsCount, Shape, Approved, Settling
  <2>4. Books(copy[r].number, copy[r].lines) /\ Books(copy[r].number, copy[r].lines)'
    BY <1>s, <2>1, <2>3, MakersReconcile DEF ReconInv, Settling
  <2>5. lines' = [k \in DOMAIN copy[r].lines \ copy'[r].todo |-> copy[r].lines[k]]
    BY <2>1, <2>2 DEF KnowsCount
  <2>6. \A k \in Discrepancies(lines') :
          k \in Discrepancies(copy[r].lines) /\ lines'[k] = copy[r].lines[k]
    BY <2>5 DEF Discrepancies
  <2>7. Books(copy[r].number, lines)'
    BY <2>1, <2>4, <2>6 DEF Books
  <2>8. CASE Discrepancies(copy[r].lines) = {}
    BY <2>6, <2>8 DEF Books
  <2>9. CASE copy[r].number # 0
    BY <1>s, <2>1, <2>3, <2>7, <2>9 DEF Mine
  <2> QED
    BY <2>4, <2>8, <2>9, SomeBooks
<1>4. CASE DeleteRow(r)
  BY <1>4 DEF DeleteRow, Approved
<1>5. CASE ~WritesCount(r)
  <2>1. count' = count /\ lines' = lines
    BY <1>5, TablesStand
  <2>2. Books(count.adjustment, lines)
    BY <1>s, <2>1 DEF ReconInv, Approved
  <2> QED
    BY <2>1, <2>2, BooksStand DEF Books
<1> QED
  BY <1>1, <1>2, <1>3, <1>4, <1>5 DEF WritesCount
LEMMA ReconStep ==
  ASSUME CopyInv, KnowledgeInv, ReconInv, [Next]_vars
  PROVE  ReconInv'
<1>1. CASE UNCHANGED vars
  BY <1>1 DEF vars, ReconInv, Books, Approved
<1>2. ASSUME NEW r \in Requests, Step(r)
      PROVE  ReconInv'
  BY <1>2, CountReconciles, MakersReconcile DEF ReconInv
<1> QED
  BY <1>1, <1>2 DEF Next

LEMMA ReconInit == Init => ReconInv
<1>1. Init => ~Approved /\ \A r \in Requests : pc[r] \notin Settling
  BY NoCountAssumption DEF Init, Approved, Settling
<1> QED
  BY <1>1 DEF ReconInv

-----------------------------------------------------------------------------
(* An adjustment is posted once. *)

\* r has posted some of the lines of adjustment a, and has not saved it yet.
Posting(r, a) ==
  /\ pc[r] = "post" /\ copy[r].number = a
  /\ copy[r].op # "cancelAdjustment"
  /\ copy[r].todo # Discrepancies(copy[r].sheet)

Ones(S) == [l \in Lines |-> IF l \in S THEN 1 ELSE 0]

Complete(a) ==
  IF adjustments[a].status = "APPROVED" THEN Discrepancies(adjustments[a].lines) ELSE {}

\* The ledger holds what the status says, or what one request has posted, unless
\* requests are under way that cannot all succeed.
PostedBalance(a) ==
  \/ \E r \in Requests : Posting(r, a) /\ r \in history.overtaken
  \/ \E q, s \in Requests : q # s /\ Posting(q, a) /\ Posting(s, a)
  \/ \E r \in Requests :
       Posting(r, a) /\ posted[a] = Ones(Discrepancies(copy[r].sheet) \ copy[r].todo)
  \/ (\A r \in Requests : ~Posting(r, a)) /\ posted[a] = Ones(Complete(a))

PostedInv == ~history.stale /\ ~history.cut =>
  /\ \A a \in (1 .. MaxAdjustments) \ DOMAIN adjustments : posted[a] = Ones({})
  /\ \A a \in DOMAIN adjustments : PostedBalance(a)

\* Who posts goes on posting, or saves the adjustment.
LEMMA PostingEnds ==
  ASSUME CopyInv, NEW r \in Requests, Step(r), ~history'.stale, ~history'.cut,
         NEW a, NEW q \in Requests, Posting(q, a)
  PROVE  /\ Posting(q, a)' \/ (q = r /\ SaveAdjustment(r))
         /\ q \in history.overtaken => Posting(q, a)' /\ q \in history'.overtaken
<1>t. Shape(q) /\ Mine(q)
  BY DEF CopyInv
<1>1. pc[q] = "post" /\ copy[q].wrote /\ Resolves(q)
  BY <1>t DEF Posting, Mine, Resolves
<1>2. CASE q # r
  <2>1. Posting(q, a)'
    BY <1>2, OthersStand DEF Posting
  <2> QED
    BY <1>2, <2>1, StepFlags
<1>3. CASE q = r
  <2>1. Posts(r) \/ SaveAdjustment(r)
    <3>1. ~Abort(r) /\ ~Return(r)
      BY <1>1, <1>3, StepFlags DEF Return, Through
    <3>2. ~Selects(r)
      BY <1>1, <1>3, SelectsFrom
    <3>3. ~WritesCount(r) /\ (WritesAdjustment(r) => SaveAdjustment(r))
      BY <1>1, <1>3, WritesCopy DEF WritesCount, WritesAdjustment
    <3> QED
      BY <3>1, <3>2, <3>3, StepKinds DEF Ends
  <2>2. q \notin history.overtaken
    BY <1>3, <2>1, StepFlags DEF WritesAdjustment
  <2>3. ASSUME NEW l \in Lines, Post(r, l)
        PROVE  Posting(r, a)'
    BY <1>1, <1>3, <2>3, WritesCopy DEF Posting, Resolves
  <2> QED
    BY <1>3, <2>1, <2>2, <2>3 DEF Posts
<1> QED
  BY <1>2, <1>3

\* Nobody starts to post but by a posting.
LEMMA PostingStarts ==
  ASSUME CopyInv, NEW r \in Requests, Step(r), NEW a, NEW q \in Requests, Posting(q, a)'
  PROVE  Posting(q, a) \/ (q = r /\ copy[r].number = a /\ Posts(r))
<1>1. CASE q # r
  BY <1>1, OthersStand DEF Posting
<1>2. CASE q = r /\ Posts(r)
  BY <1>2, WritesCopy DEF Posting, Posts
<1>3. CASE q = r /\ ~Posts(r)
  <2>1. pc'[r] = "post" /\ copy'[r].op # "cancelAdjustment"
        /\ copy'[r].todo # Discrepancies(copy'[r].sheet)
    BY <1>3 DEF Posting
  <2>2. Selects(r)
    BY <1>3, <2>1, StepKinds, WritesCopy DEF WritesAdjustment, WritesCount
  <2>3. /\ ~(\E new \in Given : Create(r, new)) /\ ~Revises(r) /\ ~Settle(r)
        /\ ~(\E op \in CountOperations : LoadCount(r, op))
        /\ ~(\E sheet \in Given : CreateAdjustment(r, sheet))
        /\ ~(\E op \in AdjustmentOperations, b \in DOMAIN adjustments : ResolveAdjustment(r, op, b))
    BY <2>1, SelectsCopy
  <2>4. ~LoadLines(r) /\ ~Delete(r) /\ ~GenerateNumber(r) /\ ~FindAdjustment(r) /\ ~Approve(r)
        /\ ~FindAdjustmentLines(r) /\ ~ApproveAdjustment(r) /\ ~CancelAdjustment(r)
    BY <2>1, SelectsCopy
  <2> QED
    BY <2>2, <2>3, <2>4 DEF Selects, Revises
<1> QED
  BY <1>1, <1>2, <1>3

\* The postings of one adjustment change by a posting of a line of it.
LEMMA PostedOf ==
  ASSUME CopyInv, NEW r \in Requests, Step(r), NEW a \in 1 .. MaxAdjustments
  PROVE  \/ posted'[a] = posted[a]
         \/ \E l \in Lines : Post(r, l) /\ copy[r].number = a
              /\ posted[a] \in [Lines -> Nat]
              /\ posted'[a] = [k \in Lines |-> posted[a][k] + (IF k = l THEN 1 ELSE 0)]
<1>1. posted \in [1 .. MaxAdjustments -> [Lines -> Nat]]
  BY DEF CopyInv, TypeOK
<1>2. ASSUME NEW l \in Lines, Post(r, l), copy[r].number # a
      PROVE  posted'[a] = posted[a]
  BY <1>1, <1>2 DEF Post
<1>3. ASSUME NEW l \in Lines, Post(r, l), copy[r].number = a
      PROVE  posted'[a] = [k \in Lines |-> posted[a][k] + (IF k = l THEN 1 ELSE 0)]
  <2>1. posted' = [posted EXCEPT ![a][l] = @ + 1]
    BY <1>3 DEF Post
  <2>2. posted'[a] = [posted[a] EXCEPT ![l] = @ + 1] /\ posted[a] \in [Lines -> Nat]
    BY <1>1, <2>1
  <2> QED
    BY <2>2
<1> QED
  BY <1>1, <1>2, <1>3, TablesStand DEF Posts
LEMMA PostedBalanceStep ==
  ASSUME CopyInv, KnowledgeInv, NEW r \in Requests, Step(r), ~history'.stale, ~history'.cut,
         NEW a \in DOMAIN adjustments, PostedBalance(a)
  PROVE  PostedBalance(a)'
<1>s. ~history.stale /\ Shape(r) /\ Mine(r)
  BY StepFlags DEF CopyInv
<1>k. WritesAdjustment(r) \/ Posts(r) => KnowsAdjustment(r)
  BY <1>s, StepFlags DEF KnowledgeInv
<1>m. a \in 1 .. MaxAdjustments
  BY PostedGrows
<1>o. \A q \in Requests \ {r} : copy'[q] = copy[q] /\ pc'[q] = pc[q]
  BY OthersStand
<1>d. /\ DOMAIN copy[r].sheet \subseteq Lines
      /\ Discrepancies(copy[r].sheet) \subseteq Lines
  <2>1. copy[r].sheet \in Sheets
    BY CopyFields DEF CopyInv, TypeOK
  <2> QED
    BY <2>1, SheetsClosed DEF Discrepancies
<1>1. CASE \E q \in Requests : Posting(q, a) /\ q \in history.overtaken
  BY <1>1, PostingEnds DEF PostedBalance
\* When r saves the adjustment, every other one that posts it is overtaken.
<1>2. ASSUME SaveAdjustment(r), copy[r].number = a, NEW q \in Requests \ {r}, Posting(q, a)
      PROVE  PostedBalance(a)'
  <2>1. HasReadAdjustment(q, a)
    BY <1>2 DEF Posting, HasReadAdjustment
  <2>2. q \in history'.overtaken
    BY <1>2, <2>1, StepFlags DEF WritesAdjustment
  <2>3. Posting(q, a)'
    BY <1>2, PostingEnds
  <2> QED
    BY <2>2, <2>3 DEF PostedBalance
<1>3. CASE \E q, s \in Requests : q # s /\ Posting(q, a) /\ Posting(s, a)
  <2>1. PICK q, s \in Requests : q # s /\ Posting(q, a) /\ Posting(s, a)
    BY <1>3
  <2>2. CASE SaveAdjustment(r) /\ r \in {q, s}
    <3>1. copy[r].number = a
      BY <2>1, <2>2 DEF Posting
    <3> QED
      BY <1>2, <2>1, <2>2, <3>1
  <2>3. CASE ~(SaveAdjustment(r) /\ r \in {q, s})
    <3>1. Posting(q, a)' /\ Posting(s, a)'
      BY <2>1, <2>3, PostingEnds
    <3> QED
      BY <2>1, <3>1 DEF PostedBalance
  <2> QED
    BY <2>2, <2>3
<1>4. ASSUME NEW q \in Requests, Posting(q, a),
             posted[a] = Ones(Discrepancies(copy[q].sheet) \ copy[q].todo)
      PROVE  PostedBalance(a)'
  <2>r. /\ pc[q] = "post" /\ copy[q].number = a /\ copy[q].op # "cancelAdjustment"
        /\ copy[q].todo \subseteq Discrepancies(copy[q].sheet)
        /\ copy[q].status = "APPROVED"
    BY <1>4 DEF Posting, CopyInv, Mine, Resolves
  <2>1. CASE q = r
    <3>1. ASSUME NEW l \in Lines, Post(r, l)
          PROVE  PostedBalance(a)'
      <4>1. /\ l \in copy[r].todo /\ copy'[r].todo = copy[r].todo \ {l}
            /\ copy'[r].sheet = copy[r].sheet
        BY <3>1, WritesCopy
      <4>2. posted[a] \in [Lines -> Nat]
            /\ posted'[a] = [k \in Lines |-> posted[a][k] + (IF k = l THEN 1 ELSE 0)]
        <5>1. copy[r].number = a
          BY <2>r, <2>1
        <5>2. \A k \in Lines : posted'[a][k] = posted[a][k] + (IF k = l THEN 1 ELSE 0)
          BY <1>m, <3>1, <5>1, PostsTyped
        <5>3. posted[a] \in [Lines -> Nat] /\ posted'[a] \in [Lines -> Nat]
          BY <1>m, <3>1, PostsTyped DEF CopyInv, TypeOK
        <5> QED
          BY <5>2, <5>3
      <4>3. \A k \in Lines : posted[a][k] = IF k \in Discrepancies(copy[r].sheet) \ copy[r].todo THEN 1 ELSE 0
        BY <1>4, <2>1 DEF Ones
      <4>4. \A k \in Lines : posted[a][k] + (IF k = l THEN 1 ELSE 0)
              = IF k \in Discrepancies(copy[r].sheet) \ (copy[r].todo \ {l}) THEN 1 ELSE 0
        BY <2>1, <2>r, <4>1, <4>3
      <4>5. posted'[a] = Ones(Discrepancies(copy'[r].sheet) \ copy'[r].todo)
        BY <4>1, <4>2, <4>4 DEF Ones
      <4>6. Posting(r, a)'
        <5>1. pc'[r] = "post" /\ copy'[r].op = copy[r].op /\ copy'[r].number = copy[r].number
          BY <3>1, WritesCopy
        <5> QED
          BY <2>1, <2>r, <4>1, <5>1 DEF Posting
      <4> QED
        BY <4>5, <4>6 DEF PostedBalance
    <3>2. CASE SaveAdjustment(r)
      <4>1. /\ copy[r].todo = {} /\ copy[r].sheet = adjustments[a].lines
            /\ posted' = posted
        BY <1>k, <2>1, <2>r, <3>2, WritesCopy DEF WritesAdjustment, KnowsAdjustment, SaveAdjustment
      <4>2. adjustments'[a].status = "APPROVED" /\ adjustments'[a].lines = adjustments[a].lines
        BY <2>1, <2>r, <3>2, AdjustmentWrites
      <4>3. posted'[a] = Ones(Complete(a)')
        BY <1>4, <2>1, <4>1, <4>2 DEF Complete
      <4>4. CASE \E s \in Requests \ {r} : Posting(s, a)
        BY <1>2, <2>1, <2>r, <3>2, <4>4
      <4>5. CASE \A s \in Requests \ {r} : ~Posting(s, a)
        <5>1. ~Posts(r)
          BY <3>2, WritesCopy DEF Posts
        <5>2. \A s \in Requests \ {r} : ~Posting(s, a)'
          BY <4>5, PostingStarts
        <5>3. ~Posting(r, a)'
          BY <3>2, WritesCopy DEF Posting
        <5>4. (\A s \in Requests : ~Posting(s, a))'
          BY <5>2, <5>3
        <5> QED
          BY <4>3, <5>4 DEF PostedBalance, Ones
      <4> QED
        BY <4>4, <4>5
    <3>3. Posts(r) \/ SaveAdjustment(r)
      <4>1. ~Selects(r) /\ ~WritesCount(r) /\ (WritesAdjustment(r) => SaveAdjustment(r))
        BY <2>1, <2>r, SelectsFrom, WritesCopy DEF WritesCount, WritesAdjustment
      <4>2. CASE Posting(r, a)'
        <5>1. pc'[r] # "idle"
          BY <4>2 DEF Posting
        <5>2. ~Ends(r)
          BY <5>1, WritesCopy DEF Ends
        <5> QED
          BY <4>1, <5>2, StepKinds
      <4>3. CASE SaveAdjustment(r)
        BY <4>3
      <4> QED
        BY <1>4, <2>1, <4>2, <4>3, PostingEnds
    <3> QED
      BY <3>1, <3>2, <3>3 DEF Posts
  <2>2. CASE q # r
    <3>1. Posting(q, a)' /\ copy'[q] = copy[q]
      BY <1>4, <1>o, <2>2, PostingEnds
    <3>2. CASE posted'[a] = posted[a]
      BY <1>4, <3>1, <3>2 DEF PostedBalance, Ones
    <3>3. ASSUME NEW l \in Lines, Post(r, l), copy[r].number = a
          PROVE  PostedBalance(a)'
      <4>1. Posting(r, a)'
        <5>1. Resolves(r) /\ Shape(r)
          BY <1>s, <3>3, WritesCopy DEF Mine
        <5> QED
          BY <3>3, <5>1, WritesCopy DEF Posting, Resolves
      <4> QED
        BY <2>2, <3>1, <4>1 DEF PostedBalance
    <3> QED
      BY <1>m, <3>2, <3>3, PostedOf
  <2> QED
    BY <2>1, <2>2
<1>5. ASSUME \A q \in Requests : ~Posting(q, a), posted[a] = Ones(Complete(a))
      PROVE  PostedBalance(a)'
  <2>1. ASSUME NEW l \in Lines, Post(r, l), copy[r].number = a
        PROVE  PostedBalance(a)'
    <3>1. /\ pc[r] = "post" /\ pc'[r] = "post" /\ l \in copy[r].todo
          /\ copy'[r].todo = copy[r].todo \ {l} /\ copy'[r].sheet = copy[r].sheet
          /\ copy'[r].op = copy[r].op /\ copy'[r].number = copy[r].number
      BY <2>1, WritesCopy
    <3>2. copy[r].op # "cancelAdjustment"
      BY <1>s, <3>1 DEF Mine, Resolves
    <3>3. copy[r].todo = Discrepancies(copy[r].sheet)
      BY <1>5, <2>1, <3>1, <3>2 DEF Posting
    <3>4. Complete(a) = {}
      <4>1. KnowsAdjustment(r)
        BY <1>k, <2>1 DEF Posts
      <4>2. adjustments[a].status = "PENDING"
        BY <2>1, <3>1, <4>1 DEF KnowsAdjustment
      <4> QED
        BY <4>2 DEF Complete
    <3>5. posted[a] \in [Lines -> Nat] /\ posted'[a] \in [Lines -> Nat]
          /\ \A k \in Lines : posted'[a][k] = posted[a][k] + (IF k = l THEN 1 ELSE 0)
      <4>1. \A k \in Lines : posted'[a][k] = posted[a][k] + (IF k = l THEN 1 ELSE 0)
        BY <1>m, <2>1, PostsTyped
      <4>2. posted \in [1 .. MaxAdjustments -> [Lines -> Nat]]
            /\ posted' \in [1 .. MaxAdjustments -> [Lines -> Nat]]
        BY TypeStep DEF CopyInv, TypeOK
      <4> QED
        BY <1>m, <4>1, <4>2
    <3>6. \A k \in Lines : posted[a][k] = 0
      BY <1>5, <3>4 DEF Ones
    <3>7. \A k \in Lines : posted'[a][k] =
            IF k \in Discrepancies(copy'[r].sheet) \ copy'[r].todo THEN 1 ELSE 0
      BY <3>1, <3>3, <3>5, <3>6
    <3>8. posted'[a] = Ones(Discrepancies(copy'[r].sheet) \ copy'[r].todo)
      BY <3>5, <3>7 DEF Ones
    <3>9. Posting(r, a)'
      BY <2>1, <3>1, <3>2, <3>3 DEF Posting
    <3> QED
      BY <3>8, <3>9 DEF PostedBalance
  <2>2. CASE ~(Posts(r) /\ copy[r].number = a)
    <3>1. posted'[a] = posted[a]
      BY <1>m, <2>2, PostedOf DEF Posts
    <3>2. \A q \in Requests : ~Posting(q, a)'
      BY <1>5, <2>2, PostingStarts
    <3>3. Complete(a)' = Complete(a)
      <4>1. CASE adjustments'[a] = adjustments[a]
        BY <4>1 DEF Complete
      <4>2. ASSUME NEW l \in Lines, InsertAdjustmentLine(r, l), copy[r].number = a
            PROVE  Complete(a)' = Complete(a)
        <5>1. adjustments[a].status = "PENDING"
          BY <1>k, <4>2, WritesCopy DEF WritesAdjustment, KnowsAdjustment
        <5> QED
          BY <4>2, <5>1, AdjustmentWrites DEF Complete
      <4>3. ASSUME SaveAdjustment(r), copy[r].number = a
            PROVE  Complete(a)' = Complete(a)
        <5>1. /\ pc[r] = "post" /\ copy[r].todo = {} /\ adjustments[a].status = "PENDING"
              /\ copy[r].sheet = adjustments[a].lines
          BY <1>k, <4>3, WritesCopy DEF WritesAdjustment, KnowsAdjustment
        <5>2. /\ adjustments'[a].status = copy[r].status
              /\ adjustments'[a].lines = adjustments[a].lines
          BY <4>3, AdjustmentWrites
        <5>3. CASE copy[r].op = "cancelAdjustment"
          <6>1. copy[r].status = "CANCELLED"
            BY <1>s, <5>1, <5>3 DEF Mine, Resolves
          <6> QED
            BY <5>1, <5>2, <6>1 DEF Complete
        <5>4. CASE copy[r].op # "cancelAdjustment"
          <6>1. Discrepancies(copy[r].sheet) = {}
            BY <1>5, <4>3, <5>1, <5>4 DEF Posting
          <6> QED
            BY <5>1, <5>2, <6>1 DEF Complete
        <5> QED
          BY <5>3, <5>4
      <4>4. CASE WritesAdjustment(r) /\ adjustments'[a] # adjustments[a]
        BY <4>2, <4>3, <4>4, AdjustmentWrites DEF WritesAdjustment
      <4> QED
        BY <4>1, <4>4, TablesStand
    <3>4. (\A q \in Requests : ~Posting(q, a))'
      BY <3>2
    <3>5. (posted[a] = Ones(Complete(a)))'
      BY <1>5, <3>1, <3>3 DEF Ones
    <3> QED
      BY <3>4, <3>5 DEF PostedBalance
  <2> QED
    BY <2>1, <2>2 DEF Posts
<1> QED
  BY <1>1, <1>3, <1>4, <1>5 DEF PostedBalance

LEMMA PostedStep ==
  ASSUME CopyInv, KnowledgeInv, PostedInv, [Next]_vars
  PROVE  PostedInv'
<1>1. CASE UNCHANGED vars
  <2>1. /\ pc' = pc /\ copy' = copy /\ history' = history /\ adjustments' = adjustments
        /\ posted' = posted
    BY <1>1 DEF vars
  <2>2. \A a : PostedBalance(a) => PostedBalance(a)'
    BY <2>1 DEF PostedBalance, Posting, Complete, Ones
  <2> QED
    BY <2>1, <2>2 DEF PostedInv, Ones
<1>2. ASSUME NEW r \in Requests, Step(r), ~history'.stale, ~history'.cut
      PROVE  /\ \A a \in (1 .. MaxAdjustments) \ DOMAIN adjustments' : posted'[a] = Ones({})
             /\ \A a \in DOMAIN adjustments' : PostedBalance(a)'
  <2>i. /\ \A a \in (1 .. MaxAdjustments) \ DOMAIN adjustments : posted[a] = Ones({})
        /\ \A a \in DOMAIN adjustments : PostedBalance(a)
    BY <1>2, StepFlags DEF PostedInv
  <2>n. DOMAIN adjustments \subseteq DOMAIN adjustments'
    BY <1>2, PostedGrows
  <2>1. ASSUME NEW a \in (1 .. MaxAdjustments) \ DOMAIN adjustments
        PROVE  posted'[a] = Ones({})
    <3>1. ~(Posts(r) /\ copy[r].number = a)
      BY <2>1, PostsTyped DEF Posts
    <3> QED
      BY <1>2, <2>1, <2>i, <3>1, PostedOf DEF Posts
  <2>2. ASSUME NEW a \in DOMAIN adjustments' \ DOMAIN adjustments
        PROVE  PostedBalance(a)'
    <3>1. a \in 1 .. MaxAdjustments
      <4>1. adjustments' \in Seq(Adjustments) /\ Len(adjustments') <= MaxAdjustments
        BY <1>2, TypeStep DEF TypeOK
      <4> QED
        BY <4>1, BoundAssumption
    <3>2. InsertAdjustment(r) /\ copy[r].number = a
      BY <1>2, <2>2, TablesStand, AdjustmentWrites DEF WritesAdjustment
    <3>3. Complete(a)' = {}
      BY <3>2, AdjustmentWrites DEF Complete
    <3>4. ~Posts(r)
      BY <3>2, WritesCopy DEF Posts
    <3>5. \A q \in Requests : ~Posting(q, a)
      BY <2>2 DEF Posting, CopyInv, Mine
    <3>6. (\A q \in Requests : ~Posting(q, a))'
      BY <1>2, <3>4, <3>5, PostingStarts
    <3>7. posted'[a] = Ones({})
      BY <2>1, <2>2, <3>1
    <3> QED
      BY <3>3, <3>6, <3>7 DEF PostedBalance, Ones
  <2> QED
    BY <1>2, <2>1, <2>2, <2>i, <2>n, PostedBalanceStep
<1> QED
  BY <1>1, <1>2 DEF Next, PostedInv

LEMMA PostedInit == Init => PostedInv
  BY DEF Init, PostedInv, Ones

-----------------------------------------------------------------------------
(* A count is posted once. *)

\* r has made an adjustment for the count, or has begun to save the count.
Busy(r) ==
  /\ copy[r].op \in CountOperations /\ copy[r].wrote
  /\ pc[r] = "insert" => copy[r].todo # {}

OfCount == { a \in DOMAIN adjustments : adjustments[a].ofCount }

\* These adjustments are what reconciles this sheet.
Reconciles(S, sheet) ==
  \/ S = {} /\ Discrepancies(sheet) = {}
  \/ \E a \in DOMAIN adjustments :
       S = {a} /\ adjustments[a].lines = Differing(sheet) /\ Books(a, sheet)

\* What the one request that is busy with the count has made of it.
Progress(r) ==
  IF copy[r].op # "approve" THEN OfCount = {} /\ ~Approved
  ELSE IF pc[r] \in {"erase", "insert"} THEN Reconciles(OfCount, copy[r].lines)
  ELSE ~Approved /\ OfCount = {copy[r].number}

\* The adjustments of the count are what its status says, or what one request
\* has made, unless requests are under way that cannot all succeed.
CountBalance ==
  \/ \E r \in Requests : Busy(r) /\ r \in history.overtaken
  \/ \E q, s \in Requests : q # s /\ Busy(q) /\ Busy(s)
  \/ \E r \in Requests : Busy(r) /\ Progress(r)
  \/ /\ \A r \in Requests : ~Busy(r)
     /\ IF Approved THEN Reconciles(OfCount, lines) ELSE OfCount = {}

BalanceInv == ~history.stale /\ ~history.cut => CountBalance

\* Where a request that is busy can be.
LEMMA BusyAt ==
  ASSUME CopyInv, NEW r \in Requests, Busy(r)
  PROVE  /\ copy[r].op \in CountOperations /\ copy[r].wrote /\ HasReadCount(r)
         /\ copy[r].op # "approve" => pc[r] \in {"header", "erase", "insert"}
         /\ copy[r].op = "approve" =>
              pc[r] \in {"adjustLines", "findLines", "weigh", "post"} \cup Settling
         /\ pc[r] = "insert" => copy[r].todo # {}
<1>1. /\ Shape(r) /\ pc[r] \in Labels
      /\ copy[r].op \in CountOperations /\ copy[r].wrote
      /\ pc[r] = "insert" => copy[r].todo # {}
  BY DEF CopyInv, TypeOK, Busy
<1>2. pc[r] # "idle"
  BY <1>1, StartingFields DEF Shape
<1>3. HasReadCount(r)
  BY <1>1, <1>2 DEF HasReadCount
<1>4. pc[r] \in {"adjustLines", "findLines", "weigh", "post"} \cup Settling
  BY <1>1, <1>2 DEF Shape, Labels, Settling
<1>5. copy[r].op # "approve" => pc[r] \in {"header", "erase", "insert"}
  BY <1>1, <1>4 DEF Shape, Settling, CountOperations
<1> QED
  BY <1>1, <1>3, <1>4, <1>5

\* Who is busy stays busy, or saves its last line.
LEMMA BusyEnds ==
  ASSUME CopyInv, NEW r \in Requests, Step(r), ~history'.stale, ~history'.cut,
         NEW q \in Requests, Busy(q)
  PROVE  /\ \/ Busy(q)'
            \/ /\ q = r /\ WritesCount(r) /\ pc'[r] = "insert" /\ copy'[r].todo = {}
               /\ copy'[r].lines = copy[r].lines /\ pc[r] \in {"erase", "insert"}
         /\ q \in history.overtaken => Busy(q)' /\ q \in history'.overtaken
<1>b. /\ copy[q].op \in CountOperations /\ copy[q].wrote /\ HasReadCount(q)
      /\ copy[q].op # "approve" => pc[q] \in {"header", "erase", "insert"}
      /\ copy[q].op = "approve" =>
           pc[q] \in {"adjustLines", "findLines", "weigh", "post"} \cup Settling
      /\ pc[q] = "insert" => copy[q].todo # {}
  BY BusyAt
<1>1. CASE q # r
  <2>1. Busy(q)'
    BY <1>1, OthersStand DEF Busy
  <2> QED
    BY <1>1, <2>1, StepFlags
<1>2. CASE q = r
  <2>o. pc'[r] # "idle" => copy'[r].op = copy[r].op
    BY <1>b, <1>2, OthersStand DEF HasReadCount
  <2>1. CASE Selects(r)
    BY <1>b, <1>2, <2>o, <2>1, SelectsFrom, StepFlags DEF Busy, HasReadCount
  <2>2. CASE WritesAdjustment(r) \/ Posts(r)
    <3>1. r \notin history.overtaken
      BY <2>2, StepFlags
    <3>2. copy[r].op = "approve" /\ pc[r] \in {"adjustLines", "post"}
      BY <1>b, <1>2, <2>2, WritesCopy DEF WritesAdjustment, Posts, Settling
    <3>3. copy'[r].wrote /\ pc'[r] \notin {"insert", "idle"}
      BY <1>b, <1>2, <2>2, <3>2, WritesCopy DEF WritesAdjustment, Posts
    <3> QED
      BY <1>b, <1>2, <2>o, <3>1, <3>3 DEF Busy
  <2>3. CASE WritesCount(r)
    <3>1. r \notin history.overtaken
      BY <2>3, StepFlags
    <3>2. ~DeleteRow(r)
      BY <1>b, <1>2, WritesCopy DEF Settling
    <3>3. /\ copy'[r].wrote /\ pc'[r] # "idle" /\ copy'[r].lines = copy[r].lines
          /\ pc'[r] = "insert" => pc[r] \in {"erase", "insert"}
      BY <1>b, <1>2, <2>3, <3>2, WritesCopy DEF WritesCount
    <3> QED
      BY <1>b, <1>2, <2>3, <2>o, <3>1, <3>3 DEF Busy
  <2>4. ~Ends(r)
    <3>1. ~Abort(r)
      BY <1>b, <1>2, StepFlags
    <3>2. ~Return(r)
      BY <1>b, <1>2 DEF Return, Through, CountOperations
    <3> QED
      BY <3>1, <3>2 DEF Ends
  <2> QED
    BY <2>1, <2>2, <2>3, <2>4, StepKinds
<1> QED
  BY <1>1, <1>2

\* Busy becomes who makes an adjustment, or saves the header.
LEMMA BusyStarts ==
  ASSUME CopyInv, NEW r \in Requests, Step(r), NEW q \in Requests, Busy(q)'
  PROVE  Busy(q) \/ (q = r /\ InsertAdjustment(r) /\ copy[r].op = "approve")
           \/ (q = r /\ SaveHeader(r))
<1>1. CASE q # r
  BY <1>1, OthersStand DEF Busy
<1>2. CASE q = r
  <2>t. Shape(r) /\ Mine(r)
    BY DEF CopyInv
  <2>b. copy'[r].op \in CountOperations /\ copy'[r].wrote /\ (pc'[r] = "insert" => copy'[r].todo # {})
    BY <1>2 DEF Busy
  <2>1. CASE Selects(r)
    BY <1>2, <2>1, <2>b, SelectsFrom DEF Busy
  <2>2. CASE WritesAdjustment(r)
    <3>1. CASE InsertAdjustment(r)
      <4>1. copy[r].op \in {"approve", "adjust"} /\ copy'[r].op = copy[r].op
        BY <2>t, <3>1, WritesCopy DEF Shape
      <4> QED
        BY <1>2, <2>b, <3>1, <4>1 DEF CountOperations
    <3>2. CASE \E l \in Lines : InsertAdjustmentLine(r, l)
      BY <1>2, <2>b, <3>2, WritesCopy DEF Busy
    <3>3. CASE SaveAdjustment(r)
      <4>1. copy[r].op = "approve" /\ pc[r] = "post"
        <5>1. ~Idle.wrote
          BY StartingFields
        <5> QED
          BY <2>b, <3>3, <5>1, WritesCopy
      <4>2. Made(r)
        BY <2>t, <4>1 DEF Mine
      <4> QED
        BY <1>2, <4>1, <4>2 DEF Busy, Made, CountOperations
    <3> QED
      BY <2>2, <3>1, <3>2, <3>3 DEF WritesAdjustment
  <2>3. CASE Posts(r)
    <3>1. copy'[r].op = copy[r].op /\ pc[r] = "post"
      BY <2>3, WritesCopy DEF Posts
    <3>2. copy[r].op = "approve"
      BY <2>b, <2>t, <3>1 DEF Shape, CountOperations
    <3>3. Made(r)
      BY <2>t, <3>1, <3>2 DEF Mine
    <3> QED
      BY <1>2, <3>1, <3>2, <3>3 DEF Busy, Made, CountOperations
  <2>4. CASE WritesCount(r)
    <3>1. CASE EraseLines(r) \/ DeleteRow(r)
      <4>1. ~Idle.wrote
        BY StartingFields
      <4> QED
        BY <1>2, <2>b, <3>1, <4>1, WritesCopy DEF Busy
    <3>2. CASE \E l \in Lines : InsertLine(r, l)
      BY <1>2, <2>b, <3>2, WritesCopy DEF Busy
    <3> QED
      BY <1>2, <2>4, <3>1, <3>2 DEF WritesCount
  <2>5. CASE Ends(r)
    <3>1. ~Idle.wrote
      BY StartingFields
    <3> QED
      BY <2>b, <2>5, <3>1, WritesCopy
  <2> QED
    BY <2>1, <2>2, <2>3, <2>4, <2>5, StepKinds
<1> QED
  BY <1>1, <1>2
\* The adjustments of the count, and their lines, are its makers' work.
LEMMA OfCountStands ==
  ASSUME CopyInv, NEW r \in Requests, Step(r)
  PROVE  /\ InsertAdjustment(r) /\ copy[r].op = "approve" =>
              OfCount' = OfCount \cup {copy[r].number}
         /\ ~(InsertAdjustment(r) /\ copy[r].op = "approve") => OfCount' = OfCount
         /\ \A a \in OfCount :
              \/ adjustments'[a].lines = adjustments[a].lines
              \/ copy[r].op = "approve" /\ \E l \in Lines : InsertAdjustmentLine(r, l)
<1>1. CASE InsertAdjustment(r)
  <2>1. /\ DOMAIN adjustments' = DOMAIN adjustments \cup {copy[r].number}
        /\ copy[r].number \notin DOMAIN adjustments
        /\ \A a \in DOMAIN adjustments : adjustments'[a] = adjustments[a]
        /\ adjustments'[copy[r].number].ofCount = (copy[r].op = "approve")
    BY <1>1, AdjustmentWrites
  <2> QED
    BY <1>1, <2>1 DEF OfCount
<1>2. ASSUME NEW l \in Lines, InsertAdjustmentLine(r, l)
      PROVE  /\ OfCount' = OfCount
             /\ \A a \in OfCount :
                  adjustments'[a].lines = adjustments[a].lines \/ copy[r].op = "approve"
  <2>1. /\ DOMAIN adjustments' = DOMAIN adjustments
        /\ \A a \in DOMAIN adjustments \ {copy[r].number} : adjustments'[a] = adjustments[a]
        /\ adjustments'[copy[r].number].ofCount = adjustments[copy[r].number].ofCount
    BY <1>2, AdjustmentWrites
  <2>2. adjustments[copy[r].number].ofCount = (copy[r].op = "approve")
    BY <1>2, WritesCopy DEF CopyInv, Mine, Makes
  <2> QED
    BY <2>1, <2>2 DEF OfCount
<1>3. CASE SaveAdjustment(r)
  <2>1. /\ DOMAIN adjustments' = DOMAIN adjustments
        /\ \A a \in DOMAIN adjustments \ {copy[r].number} : adjustments'[a] = adjustments[a]
        /\ adjustments'[copy[r].number].ofCount = adjustments[copy[r].number].ofCount
        /\ adjustments'[copy[r].number].lines = adjustments[copy[r].number].lines
    BY <1>3, AdjustmentWrites
  <2>2. ~InsertAdjustment(r)
    BY <1>3, WritesCopy
  <2> QED
    BY <2>1, <2>2 DEF OfCount
<1>4. CASE ~WritesAdjustment(r)
  <2>1. adjustments' = adjustments /\ ~InsertAdjustment(r)
    BY <1>4, TablesStand DEF WritesAdjustment
  <2> QED
    BY <2>1 DEF OfCount
<1>5. (\E l \in Lines : InsertAdjustmentLine(r, l)) => ~InsertAdjustment(r)
  BY WritesCopy
<1> QED
  BY <1>1, <1>2, <1>3, <1>4, <1>5 DEF WritesAdjustment

LEMMA ReconcilesStands ==
  ASSUME CopyInv, KnowledgeInv, NEW r \in Requests, Step(r), ~history'.stale,
         ~(InsertAdjustment(r) /\ copy[r].op = "approve"),
         ~(copy[r].op = "approve" /\ \E l \in Lines : InsertAdjustmentLine(r, l)),
         NEW sheet, Reconciles(OfCount, sheet)
  PROVE  Reconciles(OfCount, sheet)'
<1>1. OfCount' = OfCount
  BY OfCountStands
<1>2. CASE OfCount = {} /\ Discrepancies(sheet) = {}
  BY <1>1, <1>2 DEF Reconciles
<1>3. ASSUME NEW a \in DOMAIN adjustments, OfCount = {a},
             adjustments[a].lines = Differing(sheet), Books(a, sheet)
      PROVE  Reconciles(OfCount, sheet)'
  <2>1. adjustments'[a].lines = adjustments[a].lines
    BY <1>3, OfCountStands
  <2>2. Books(a, sheet)'
    BY <1>3, BooksStand
  <2>3. a \in DOMAIN adjustments'
    BY PostedGrows
  <2> QED
    BY <1>1, <1>3, <2>1, <2>2, <2>3 DEF Reconciles
<1> QED
  BY <1>2, <1>3 DEF Reconciles

\* The one request that is busy goes on.
LEMMA ProgressGoesOn ==
  ASSUME CopyInv, KnowledgeInv, ReconInv, NEW r \in Requests, Step(r),
         ~history'.stale, ~history'.cut, Busy(r), Progress(r)
  PROVE  /\ Busy(r)' => Progress(r)'
         /\ ~Busy(r)' => IF Approved' THEN Reconciles(OfCount, lines)' ELSE OfCount' = {}
<1>s. ~history.stale /\ Shape(r) /\ Mine(r) /\ ReconInv'
  BY StepFlags, ReconStep DEF CopyInv, Next
<1>b. /\ copy[r].op \in CountOperations /\ copy[r].wrote /\ HasReadCount(r)
      /\ copy[r].op # "approve" => pc[r] \in {"header", "erase", "insert"}
      /\ copy[r].op = "approve" =>
           pc[r] \in {"adjustLines", "findLines", "weigh", "post"} \cup Settling
  BY BusyAt
<1>o. pc'[r] # "idle" => copy'[r].op = copy[r].op
  BY <1>b, OthersStand DEF HasReadCount
<1>i. ~InsertAdjustment(r)
  BY <1>b, WritesCopy DEF Settling
<1>a. OfCount' = OfCount
  BY <1>i, OfCountStands
<1>k. WritesCount(r) => r \notin history.overtaken /\ KnowsCount(r) /\ KnowsAdjustment(r)
  BY <1>s, StepFlags DEF KnowledgeInv
<1>n. Busy(r)' => pc'[r] # "idle"
  <2>1. CopyInv'
    BY CopyStep DEF Next
  <2>2. pc'[r] = "idle" => copy'[r] = Idle
    BY <2>1 DEF CopyInv, Shape
  <2> QED
    BY <2>2, StartingFields DEF Busy
<1>e. ~Busy(r)' => /\ WritesCount(r) /\ pc'[r] = "insert" /\ copy'[r].todo = {}
                   /\ copy'[r].lines = copy[r].lines /\ pc[r] \in {"erase", "insert"}
  BY BusyEnds
<1>1. CASE copy[r].op # "approve"
  <2>1. OfCount = {} /\ ~Approved
    BY <1>1 DEF Progress
  <2>2. ~Approved'
    <3>1. CASE SaveHeader(r)
      <4>1. count' = copy[r].count /\ pc[r] = "header"
        BY <3>1 DEF SaveHeader
      <4> QED
        BY <1>1, <1>s, <4>1 DEF Approved, Shape, Settling
    <3>2. CASE ~SaveHeader(r) /\ WritesCount(r)
      <4>1. ~DeleteRow(r)
        BY <1>1, <1>b, WritesCopy
      <4>2. count' = count
        BY <3>2, <4>1 DEF WritesCount, EraseLines, InsertLine
      <4> QED
        BY <2>1, <4>2 DEF Approved
    <3>3. CASE ~WritesCount(r)
      BY <2>1, <3>3, TablesStand DEF Approved
    <3> QED
      BY <3>1, <3>2, <3>3
  <2> QED
    BY <1>1, <1>o, <1>n, <1>a, <2>1, <2>2 DEF Progress
<1>2. CASE copy[r].op = "approve" /\ pc[r] \notin {"erase", "insert"}
  <2>1. ~Approved /\ OfCount = {copy[r].number}
    BY <1>2 DEF Progress
  <2>2. CASE SaveHeader(r)
    <3>1. /\ pc[r] = "header" /\ pc'[r] = "erase" /\ copy'[r].op = "approve"
          /\ copy'[r].number = copy[r].number /\ copy'[r].lines = copy[r].lines
          /\ adjustments' = adjustments
      BY <1>2, <2>2, WritesCopy DEF SaveHeader
    <3>2. copy[r].number \in DOMAIN adjustments
      BY <2>1 DEF OfCount
    <3>3. copy[r].number # 0
      BY <3>2 DEF CopyInv, TypeOK
    <3>4. Made(r)
      BY <1>2, <1>s, <3>1, <3>3 DEF Mine, Settling
    <3>5. Books(copy[r].number, copy[r].lines)
      BY <1>2, <1>s, <3>1 DEF ReconInv, Settling
    <3>6. Books(copy[r].number, copy[r].lines)'
      BY <1>s, <3>1 DEF ReconInv, Settling
    <3>7. Reconciles(OfCount, copy[r].lines)'
      BY <1>a, <2>1, <3>1, <3>2, <3>4, <3>6 DEF Reconciles, Made
    <3> QED
      BY <1>e, <3>1, <3>7 DEF Progress
  <2>3. CASE ~SaveHeader(r)
    <3>1. ~WritesCount(r)
      BY <1>2, <1>b, <2>3, WritesCopy DEF WritesCount, Settling
    <3>2. Busy(r)' /\ pc'[r] # "idle" /\ copy'[r].op = "approve"
      BY <1>2, <1>e, <1>n, <1>o, <3>1
    <3>3. copy'[r].number = copy[r].number /\ pc'[r] \notin {"erase", "insert"}
      <4>1. CASE Selects(r)
        <5>1. pc[r] \notin {"idle", "number"}
          BY <1>2, <1>b DEF Settling
        <5> QED
          BY <4>1, <5>1, SelectsFrom
      <4>2. CASE ~Selects(r)
        BY <1>i, <3>1, <3>2, <4>2, StepKinds, WritesCopy DEF WritesAdjustment, Posts
      <4> QED
        BY <4>1, <4>2
    <3>4. count' = count
      BY <3>1, TablesStand
    <3> QED
      BY <1>a, <2>1, <3>2, <3>3, <3>4 DEF Progress, Approved
  <2> QED
    BY <2>2, <2>3
<1>3. CASE copy[r].op = "approve" /\ pc[r] \in {"erase", "insert"}
  <2>1. EraseLines(r) \/ \E l \in Lines : InsertLine(r, l)
    <3>1. ~Selects(r)
      BY <1>3, SelectsFrom
    <3>2. ~Ends(r)
      BY <1>e, <1>n, WritesCopy
    <3>3. ~WritesAdjustment(r) /\ ~Posts(r) /\ ~SaveHeader(r) /\ ~DeleteRow(r)
      BY <1>3, WritesCopy DEF WritesAdjustment, Posts
    <3> QED
      BY <3>1, <3>2, <3>3, StepKinds DEF WritesCount
  <2>2. /\ pc'[r] = "insert" /\ copy'[r].op = "approve" /\ copy'[r].lines = copy[r].lines
        /\ copy'[r].count = copy[r].count
    BY <1>3, <2>1, WritesCopy
  <2>3. Reconciles(OfCount, copy[r].lines)'
    <3>1. ~(\E l \in Lines : InsertAdjustmentLine(r, l))
      BY <1>3, WritesCopy
    <3>2. Reconciles(OfCount, copy[r].lines)
      BY <1>3 DEF Progress
    <3>3. \A sheet : Reconciles(OfCount, sheet) => Reconciles(OfCount, sheet)'
      BY <1>i, <3>1, ReconcilesStands
    <3> QED
      BY <2>2, <3>2, <3>3
  <2>4. CASE Busy(r)'
    BY <2>2, <2>3, <2>4 DEF Progress
  <2>5. CASE ~Busy(r)'
    <3>1. copy'[r].todo = {} /\ KnowsCount(r)'
      BY <1>e, <1>k, <2>5, WritesKnows
    <3>2. lines' = [l \in DOMAIN copy[r].lines |-> copy[r].lines[l]] /\ count' = copy[r].count
      BY <2>2, <3>1 DEF KnowsCount
    <3>3. copy[r].lines \in Sheets
      BY CopyFields DEF CopyInv, TypeOK
    <3>4. lines' = copy[r].lines
      BY <3>2, <3>3 DEF Sheets
    <3>5. Approved'
      <4>1. copy[r].count.status = "APPROVED" /\ copy[r].count \in Counts
        BY <1>3, <1>s DEF Mine, Shape, Settling
      <4> QED
        BY <3>2, <4>1, NoCountAssumption DEF Approved
    <3> QED
      BY <2>2, <2>3, <2>5, <3>4, <3>5
  <2> QED
    BY <2>4, <2>5
<1> QED
  BY <1>1, <1>2, <1>3
LEMMA CountBalanceStep ==
  ASSUME CopyInv, KnowledgeInv, ReconInv, NEW r \in Requests, Step(r),
         ~history'.stale, ~history'.cut, CountBalance
  PROVE  CountBalance'
<1>s. ~history.stale /\ Shape(r) /\ Mine(r)
  BY StepFlags DEF CopyInv
<1>k. WritesCount(r) \/ WritesAdjustment(r) => KnowsCount(r)
  BY <1>s, StepFlags DEF KnowledgeInv
<1>i. InsertAdjustment(r) /\ copy[r].op = "approve" =>
        Busy(r)' /\ pc'[r] = "adjustLines" /\ copy'[r].op = "approve"
          /\ copy'[r].number = copy[r].number
  BY WritesCopy DEF Busy, CountOperations
<1>l. copy[r].op = "approve" /\ (\E l \in Lines : InsertAdjustmentLine(r, l)) => Busy(r) /\ Busy(r)'
  <2> SUFFICES ASSUME copy[r].op = "approve", NEW l \in Lines, InsertAdjustmentLine(r, l)
               PROVE  Busy(r) /\ Busy(r)'
    OBVIOUS
  <2>1. pc[r] = "adjustLines" /\ pc'[r] = "adjustLines" /\ copy'[r].op = "approve"
        /\ copy'[r].wrote = copy[r].wrote
    BY WritesCopy
  <2>2. copy[r].wrote
    BY <1>s, <2>1 DEF Mine, Makes
  <2> QED
    BY <2>1, <2>2 DEF Busy, CountOperations
<1>1. CASE \E q \in Requests : Busy(q) /\ q \in history.overtaken
  BY <1>1, BusyEnds DEF CountBalance
\* Who is busy when another saves is overtaken.
<1>2. ASSUME WritesCount(r), NEW q \in Requests \ {r}, Busy(q)
      PROVE  CountBalance'
  <2>1. Busy(q)' /\ q \in history'.overtaken
    BY <1>2, BusyAt, BusyEnds, StepFlags
  <2> QED
    BY <2>1 DEF CountBalance
<1>3. ASSUME NEW q \in Requests, NEW s \in Requests, q # s, Busy(q), Busy(s)
      PROVE  CountBalance'
  <2>1. CASE Busy(q)' /\ Busy(s)'
    BY <1>3, <2>1 DEF CountBalance
  <2>2. CASE ~(Busy(q)' /\ Busy(s)')
    BY <1>2, <1>3, <2>2, BusyEnds
  <2> QED
    BY <2>1, <2>2
<1>4. ASSUME NEW q \in Requests, Busy(q), Progress(q)
      PROVE  CountBalance'
  <2>1. CASE q = r
    <3>1. CASE Busy(r)'
      BY <1>4, <2>1, <3>1, ProgressGoesOn DEF CountBalance
    <3>2. CASE ~Busy(r)'
      <4>1. WritesCount(r)
        BY <1>4, <2>1, <3>2, BusyEnds
      <4>2. CASE \E s \in Requests \ {r} : Busy(s)
        BY <1>2, <4>1, <4>2
      <4>3. CASE \A s \in Requests \ {r} : ~Busy(s)
        <5>1. \A s \in Requests : ~Busy(s)'
          BY <3>2, <4>3, BusyStarts
        <5>2. IF Approved' THEN Reconciles(OfCount, lines)' ELSE OfCount' = {}
          BY <1>4, <2>1, <3>2, ProgressGoesOn
        <5>3. (\A s \in Requests : ~Busy(s))'
          BY <5>1
        <5> QED
          BY <5>2, <5>3 DEF CountBalance
      <4> QED
        BY <4>2, <4>3
    <3> QED
      BY <3>1, <3>2
  <2>2. CASE q # r
    <3>1. Busy(q)' /\ copy'[q] = copy[q] /\ pc'[q] = pc[q]
      BY <1>4, <2>2, BusyEnds, OthersStand
    <3>2. CASE WritesCount(r)
      BY <1>2, <1>4, <2>2, <3>2
    <3>3. CASE copy[r].op = "approve" /\ (InsertAdjustment(r) \/ \E l \in Lines : InsertAdjustmentLine(r, l))
      BY <1>i, <1>l, <2>2, <3>1, <3>3 DEF CountBalance
    <3>4. CASE ~WritesCount(r)
               /\ ~(copy[r].op = "approve"
                    /\ (InsertAdjustment(r) \/ \E l \in Lines : InsertAdjustmentLine(r, l)))
      <4>1. count' = count /\ OfCount' = OfCount
        BY <3>4, TablesStand, OfCountStands
      <4>2. \A sheet : Reconciles(OfCount, sheet) => Reconciles(OfCount, sheet)'
        BY <3>4, ReconcilesStands
      <4>3. Progress(q)'
        BY <1>4, <3>1, <4>1, <4>2 DEF Progress, Approved
      <4> QED
        BY <3>1, <4>3 DEF CountBalance
    <3> QED
      BY <3>2, <3>3, <3>4
  <2> QED
    BY <2>1, <2>2
<1>5. ASSUME \A q \in Requests : ~Busy(q),
             IF Approved THEN Reconciles(OfCount, lines) ELSE OfCount = {}
      PROVE  CountBalance'
  <2>1. CASE InsertAdjustment(r) /\ copy[r].op = "approve"
    <3>1. ~Approved /\ count' = count
      BY <1>k, <2>1, WritesCopy, WritesAdjustmentTyped DEF WritesAdjustment, KnowsCount, Reconciling
    <3>2. OfCount' = {copy[r].number} /\ ~Approved'
      BY <1>5, <2>1, <3>1, OfCountStands DEF Approved
    <3>3. Progress(r)'
      BY <1>i, <2>1, <3>2 DEF Progress
    <3> QED
      BY <1>i, <2>1, <3>3 DEF CountBalance
  <2>2. CASE SaveHeader(r)
    <3>1. /\ pc[r] = "header" /\ pc'[r] = "erase" /\ copy'[r].op = copy[r].op
          /\ copy'[r].lines = copy[r].lines /\ copy'[r].wrote /\ count' = copy[r].count
          /\ ~InsertAdjustment(r)
      BY <2>2, WritesCopy DEF SaveHeader
    <3>2. copy[r].op \in CountOperations
      BY <1>s, <3>1 DEF Shape, Settling
    <3>3. OfCount' = {}
      BY <1>5, <1>k, <2>2, <3>1, OfCountStands DEF WritesCount, KnowsCount
    <3>4. Busy(r)'
      BY <3>1, <3>2 DEF Busy
    <3>5. CASE copy[r].op # "approve"
      <4>1. ~Approved'
        BY <1>s, <3>1, <3>5 DEF Shape, Approved, Settling
      <4>2. Progress(r)'
        BY <3>1, <3>3, <3>5, <4>1 DEF Progress
      <4> QED
        BY <3>4, <4>2 DEF CountBalance
    <3>6. CASE copy[r].op = "approve"
      <4>1. ~copy[r].wrote
        BY <1>5, <3>1, <3>2 DEF Busy
      <4>2. Discrepancies(copy[r].lines) = {}
        BY <1>s, <3>1, <3>6, <4>1 DEF Mine, Made, Settling
      <4>3. Reconciles(OfCount, copy[r].lines)'
        BY <3>1, <3>3, <4>2 DEF Reconciles
      <4>4. Progress(r)'
        BY <3>1, <3>6, <4>3 DEF Progress
      <4> QED
        BY <3>4, <4>4 DEF CountBalance
    <3> QED
      BY <3>5, <3>6
  <2>3. CASE ~(InsertAdjustment(r) /\ copy[r].op = "approve") /\ ~SaveHeader(r)
    <3>1. (\A q \in Requests : ~Busy(q))'
      BY <1>5, <2>3, BusyStarts
    <3>2. OfCount' = OfCount
      BY <2>3, OfCountStands
    <3>3. ~EraseLines(r)
      BY <1>5, <1>s, WritesCopy DEF Busy, Shape, Settling
    <3>4. \A l \in Lines : ~InsertLine(r, l)
      BY <1>5, <1>s, WritesCopy DEF Busy, Shape, Settling
    <3>5. CASE DeleteRow(r)
      <4>1. pc[r] = "delete" /\ KnowsCount(r) /\ count' = NoCount
        BY <1>k, <3>5 DEF DeleteRow, WritesCount
      <4>2. ~Approved /\ ~Approved'
        BY <1>s, <4>1 DEF Shape, KnowsCount, Approved
      <4> QED
        BY <1>5, <3>1, <3>2, <4>2 DEF CountBalance
    <3>6. CASE ~WritesCount(r)
      <4>1. count' = count /\ lines' = lines
        BY <3>6, TablesStand
      <4>2. ~(copy[r].op = "approve" /\ \E l \in Lines : InsertAdjustmentLine(r, l))
        BY <1>5, <1>l
      <4>3. \A sheet : Reconciles(OfCount, sheet) => Reconciles(OfCount, sheet)'
        BY <2>3, <4>2, ReconcilesStands
      <4>4. IF Approved' THEN Reconciles(OfCount, lines)' ELSE OfCount' = {}
        BY <1>5, <3>2, <4>1, <4>3 DEF Approved
      <4> QED
        BY <3>1, <4>4 DEF CountBalance
    <3> QED
      BY <2>3, <3>3, <3>4, <3>5, <3>6 DEF WritesCount
  <2> QED
    BY <2>1, <2>2, <2>3
<1> QED
  BY <1>1, <1>3, <1>4, <1>5 DEF CountBalance

LEMMA BalanceStep ==
  ASSUME CopyInv, KnowledgeInv, ReconInv, BalanceInv, [Next]_vars
  PROVE  BalanceInv'
<1>1. CASE UNCHANGED vars
  <2>1. /\ pc' = pc /\ copy' = copy /\ history' = history /\ adjustments' = adjustments
        /\ posted' = posted /\ count' = count /\ lines' = lines
    BY <1>1 DEF vars
  <2>2. Approved' = Approved /\ OfCount' = OfCount
    BY <2>1 DEF Approved, OfCount
  <2>3. \A a, sheet : Books(a, sheet) => Books(a, sheet)'
    BY <2>1 DEF Books
  <2>4. \A S, sheet : Reconciles(S, sheet) => Reconciles(S, sheet)'
    BY <2>1, <2>3 DEF Reconciles
  <2>5. \A q \in Requests : (Busy(q) <=> Busy(q)') /\ (Progress(q) => Progress(q)')
    BY <2>1, <2>2, <2>4 DEF Busy, Progress
  <2>6. CountBalance => CountBalance'
    BY <2>1, <2>2, <2>4, <2>5 DEF CountBalance
  <2> QED
    BY <2>1, <2>6 DEF BalanceInv
<1>2. ASSUME NEW r \in Requests, Step(r), ~history'.stale, ~history'.cut
      PROVE  CountBalance'
  BY <1>2, StepFlags, CountBalanceStep DEF BalanceInv
<1> QED
  BY <1>1, <1>2 DEF Next, BalanceInv

LEMMA BalanceInit == Init => BalanceInv
<1> SUFFICES ASSUME Init PROVE CountBalance
  BY DEF BalanceInv
<1>1. ~Approved /\ OfCount = {} /\ \A r \in Requests : copy[r] = Idle
  BY NoCountAssumption DEF Init, Approved, OfCount
<1>2. \A r \in Requests : ~Busy(r)
  BY <1>1, StartingFields DEF Busy
<1> QED
  BY <1>1, <1>2 DEF CountBalance

-----------------------------------------------------------------------------
(* The theorems. *)

CountInv == CopyInv /\ KnowledgeInv /\ ReconInv /\ PostedInv /\ BalanceInv

\* The inductive invariant: whatever requests there are, on whatever lines, it
\* holds at first and after every statement.
THEOREM CountInvariant == Spec => []CountInv
<1>1. Init => CountInv
  BY CopyInit, KnowledgeInit, ReconInit, PostedInit, BalanceInit DEF CountInv
<1>2. CountInv /\ [Next]_vars => CountInv'
  BY CopyStep, KnowledgeKept, ReconStep, PostedStep, BalanceStep DEF CountInv
<1> QED
  BY <1>1, <1>2, PTL DEF Spec

\* Every variable keeps its type, under all interleavings of the requests on a
\* count and on the adjustments.
THEOREM TypeCorrect == Spec => []TypeOK
<1>1. CountInv => TypeOK
  BY DEF CountInv, CopyInv
<1> QED
  BY <1>1, CountInvariant, PTL

\* Unless a request acts on what another has overtaken, an adjustment that is
\* resolved keeps its status, its lines and its postings; an approved count
\* stays approved, and no adjustment is made for it any more.
THEOREM ResolutionsLast == Spec => ResolutionsStand
<1>1. CountInv /\ [Next]_vars =>
        [ ~history'.stale =>
            /\ \A a \in DOMAIN adjustments :
                 adjustments[a].status # "PENDING" =>
                   adjustments'[a] = adjustments[a] /\ posted'[a] = posted[a]
            /\ Approved =>
                 /\ count' = count
                 /\ \A a \in DOMAIN adjustments' :
                      adjustments'[a].ofCount => a \in DOMAIN adjustments ]_vars
  BY ResolutionsStep DEF Next, CountInv
<1> QED
  BY <1>1, CountInvariant, PTL DEF Spec, ResolutionsStand

\* Requests may die at any statement: an approved count names an approved
\* adjustment with every line that differed, and each of them was posted.
THEOREM ApprovalReconciles == Spec => []ApprovedIsReconciled
<1>1. CountInv => ApprovedIsReconciled
  BY DEF CountInv, ReconInv, Books, ApprovedIsReconciled
<1> QED
  BY <1>1, CountInvariant, PTL

\* A quiet request posts nothing, so the status alone says what is posted.
LEMMA OnceIfBalanced == CountInv => AdjustmentPostedOnce
  BY DEF CountInv, PostedInv, PostedBalance, Posting, Quiet, Complete, Ones, AdjustmentPostedOnce

\* As long as no request acts on what another has overtaken, and none is cut
\* short, every adjustment is posted, line by line and once, if and only if it
\* is approved.
THEOREM AdjustmentsPostedOnce == Spec => []AdjustmentPostedOnce
  BY OnceIfBalanced, CountInvariant, PTL

\* What the ledger does with a posted line: it adds the size of the difference,
\* whichever of the two locations the transaction names.
LEMMA PostingAddsSize ==
  ASSUME NEW a, NEW l, adjustments[a].lines[l] \in Int
  PROVE  Ledger!Effect(TransactionOf(a, l), "bin") = Size(adjustments[a].lines[l])
<1> DEFINE t == TransactionOf(a, l)
<1>1. /\ t.type = "Adjustment" /\ t.qty = Size(adjustments[a].lines[l])
      /\ t.src = "bin" \/ t.dst = "bin"
  BY DEF TransactionOf, Size
<1> HIDE DEF t
<1>2. "bin" \in Ledger!TouchedBy(t) /\ ~Ledger!TakesFrom(t, "bin")
  BY <1>1 DEF Ledger!TouchedBy, Ledger!TakesFrom, Ledger!Decreases
<1>3. Ledger!Effect(t, "bin") = t.qty
  BY <1>2 DEF Ledger!Effect
<1> QED
  BY <1>1, <1>3 DEF t

\* What is booked of a line for counts: nothing, or what is posted of it for the
\* one adjustment.
LEMMA BookedByNone ==
  ASSUME NEW l, { a \in DOMAIN adjustments :
                    adjustments[a].ofCount /\ l \in DOMAIN adjustments[a].lines } = {}
  PROVE  BookedForCounts(l) = 0
  BY DEF BookedForCounts, MapThenSumSet, MapThenFoldSet

LEMMA BookedByOne ==
  ASSUME NEW l, NEW b, posted[b][l] * Ledger!Effect(TransactionOf(b, l), "bin") \in Int,
         { a \in DOMAIN adjustments :
             adjustments[a].ofCount /\ l \in DOMAIN adjustments[a].lines } = {b}
  PROVE  BookedForCounts(l) = posted[b][l] * Ledger!Effect(TransactionOf(b, l), "bin")
<1> DEFINE Sum(g) == g = [s \in SUBSET {b} |->
             IF s = {} THEN 0
             ELSE LET x == CHOOSE x \in s : TRUE
                  IN  posted[x][l] * Ledger!Effect(TransactionOf(x, l), "bin") + g[s \ {x}]]
           v == posted[b][l] * Ledger!Effect(TransactionOf(b, l), "bin")
           h == [s \in SUBSET {b} |-> IF s = {} THEN 0 ELSE v]
           all == CHOOSE g : Sum(g)
<1>1. BookedForCounts(l) = all[{b}]
  BY DEF BookedForCounts, MapThenSumSet, MapThenFoldSet
<1>2. \A s \in SUBSET {b} : s = {} \/ (s = {b} /\ (CHOOSE x \in s : TRUE) = b /\ s \ {b} = {})
  OBVIOUS
<1>3. Sum(h)
  <2>1. \A s \in SUBSET {b} :
          h[s] = IF s = {} THEN 0
                 ELSE LET x == CHOOSE x \in s : TRUE
                      IN  posted[x][l] * Ledger!Effect(TransactionOf(x, l), "bin") + h[s \ {x}]
    BY <1>2
  <2> QED
    BY <2>1
<1>4. Sum(all)
  <2> HIDE DEF Sum, h
  <2> QED
    BY <1>3
<1>5. all[{}] = 0 /\ all[{b}] = v + all[{}]
  <2> HIDE DEF all
  <2> QED
    BY <1>2, <1>4
<1> QED
  BY <1>1, <1>5

\* Under the same conditions, and over any number of approvals, the quantity on
\* hand of a line has changed once, by the size of its variance, if its count is
\* approved, and not at all if it is not.
THEOREM CountsPostedOnce == Spec => []CountPostedOnce
<1>1. CountInv => CountPostedOnce
  <2> SUFFICES ASSUME CountInv, ~history.stale, ~history.cut, Quiet, NEW l \in DOMAIN lines
               PROVE  BookedForCounts(l) = IF Approved THEN Size(lines[l]) ELSE 0
    BY DEF CountPostedOnce
  <2> DEFINE of == { a \in DOMAIN adjustments :
                       adjustments[a].ofCount /\ l \in DOMAIN adjustments[a].lines }
  <2>t. lines \in Sheets /\ l \in Lines /\ lines[l] \in Int
    BY SheetsClosed, VariancesAssumption DEF CountInv, CopyInv, TypeOK
  <2>1. \A r \in Requests : ~Busy(r)
    BY StartingFields DEF CountInv, CopyInv, Shape, Quiet, Busy
  <2>2. IF Approved THEN Reconciles(OfCount, lines) ELSE OfCount = {}
    BY <2>1 DEF CountInv, BalanceInv, CountBalance
  <2>3. CASE OfCount = {} /\ (Approved => Discrepancies(lines) = {})
    <3>1. of = {}
      BY <2>3 DEF OfCount
    <3>2. BookedForCounts(l) = 0
      BY <3>1, BookedByNone
    <3>3. Approved => lines[l] = 0
      BY <2>3 DEF Discrepancies
    <3> QED
      BY <3>2, <3>3 DEF Size
  <2>4. ASSUME Approved, NEW a \in DOMAIN adjustments, OfCount = {a},
               adjustments[a].lines = Differing(lines), Books(a, lines)
        PROVE  BookedForCounts(l) = Size(lines[l])
    <3>1. CASE l \notin Discrepancies(lines)
      <4>1. of = {}
        BY <2>4, <3>1 DEF OfCount, Differing
      <4>2. BookedForCounts(l) = 0
        BY <4>1, BookedByNone
      <4> QED
        BY <3>1, <4>2 DEF Discrepancies, Size
    <3>2. CASE l \in Discrepancies(lines)
      <4>1. /\ adjustments[a].status = "APPROVED"
            /\ l \in DOMAIN adjustments[a].lines /\ adjustments[a].lines[l] = lines[l]
        BY <2>4, <3>2 DEF Books
      <4>2. posted[a][l] = 1
        <5>1. AdjustmentPostedOnce
          BY OnceIfBalanced
        <5>2. l \in Discrepancies(adjustments[a].lines)
          BY <3>2, <4>1 DEF Discrepancies
        <5> QED
          BY <2>4, <2>t, <4>1, <5>1, <5>2 DEF AdjustmentPostedOnce
      <4>3. of = {a}
        BY <2>4, <4>1 DEF OfCount
      <4>4. Ledger!Effect(TransactionOf(a, l), "bin") = Size(lines[l])
        BY <2>t, <4>1, PostingAddsSize
      <4>5. Size(lines[l]) \in Int
        BY <2>t DEF Size
      <4>6. posted[a][l] * Ledger!Effect(TransactionOf(a, l), "bin") = Size(lines[l])
        <5> HIDE DEF Size
        <5> QED
          BY <4>2, <4>4, <4>5
      <4> QED
        BY <4>3, <4>5, <4>6, BookedByOne
    <3> QED
      BY <3>1, <3>2
  <2> QED
    BY <2>2, <2>3, <2>4 DEF Reconciles
<1> QED
  BY <1>1, CountInvariant, PTL

=============================================================================
