---------------------------- MODULE Reservations ----------------------------
(***************************************************************************)
(* Inventory reservations and the requests that work on them.              *)
(*                                                                         *)
(* A reservation promises stock without moving it.  create() and update()  *)
(* of ReservationsService check every line on its own: they select the     *)
(* projection of the line's component and location, select the lines that  *)
(* name the same pair, load each of their reservations, and subtract what  *)
(* the active ones hold.  Only when all lines have passed is the           *)
(* reservation saved: an upsert of the header, a delete of the lines, one  *)
(* insert per line.  Every statement commits on its own and is a step; no  *)
(* lock is held and nothing is checked again.                              *)
(*                                                                         *)
(* Abstraction: a line has an id with which its pair and quantity are      *)
(* fixed.  Stock moves by itself (module InventoryLedger).  Numbers, types, *)
(* notes and the expiry date are left out, and so is fulfilledQuantity,    *)
(* which no operation changes from zero.                                   *)
(***************************************************************************)
EXTENDS Integers, FiniteSetsExt

CONSTANTS
  Requests,      \* concurrent API requests
  Reservations,  \* ids of reservations
  Pairs,         \* a component at a location
  Lines,         \* ids that lines may be given
  At,            \* At[l]: the pair line l reserves
  Quantity,      \* Quantity[l]: how much of it
  Stock,         \* Stock[p]: the quantities the projection of p may hold
  NoRow,         \* no such row in inventory_reservations
  Offered,       \* the operations callers invoke
  MaxStarts      \* bound: requests started

ASSUME LinesAssumption ==
  /\ IsFiniteSet(Lines)
  /\ At \in [Lines -> Pairs]
  /\ Quantity \in [Lines -> Nat \ {0}]
  /\ Stock \in [Pairs -> SUBSET Int]

VARIABLES
  onHand,       \* the projection rows
  rows,         \* rows[v]: the status of reservation v, or NoRow
  lines,        \* lines[v]: its rows in inventory_reservation_lines
  given,        \* line ids given out so far
  pc,           \* pc[r]: the next statement of request r
  work,         \* work[r]: what it is doing and its copy of the reservation
  history       \* what the properties need to know of the past

vars == <<onHand, rows, lines, given, pc, work, history>>

Statuses == {"DRAFT", "ACTIVE", "FULFILLED", "RELEASED", "EXPIRED", "CANCELLED"}

\* No row is not a row.
ASSUME NoRowAssumption == NoRow \notin Statuses

Operations == {"create", "update", "fulfill", "release", "cancel", "delete"}

(* id, status, lines: the copy of the aggregate; todo: the lines yet to     *)
(* check, or to insert; line, free, found, other: the line under check, what *)
(* is left of its stock, the reservations yet to be subtracted, and the one  *)
(* whose lines are selected next.                                            *)
Works == [op : Operations, id : Reservations \cup {NoRow},
          status : Statuses \cup {NoRow}, lines : SUBSET Lines,
          todo : SUBSET Lines, line : Lines \cup {NoRow}, free : Int,
          found : SUBSET Reservations, other : Reservations \cup {NoRow}]

Idle == [op |-> "create", id |-> NoRow, status |-> NoRow, lines |-> {},
         todo |-> {}, line |-> NoRow, free |-> 0, found |-> {}, other |-> NoRow]

(* history.current: the requests since whose first statement no other       *)
(*   request wrote and no stock moved; history.stale: a request wrote that   *)
(*   was not one of them; history.cut: a request ended in the middle of a    *)
(*   save; history.held: the lines that were ever stored; history.started:   *)
(*   how many requests have started.  While r counts, history.seen[r] is the *)
(*   stock it has read, and history.steady[r] the reservations that were     *)
(*   active then and that nobody has written since.                          *)
Init ==
  /\ onHand \in {f \in [Pairs -> UNION {Stock[p] : p \in Pairs}] :
                   \A p \in Pairs : f[p] \in Stock[p]}
  /\ rows = [v \in Reservations |-> NoRow]
  /\ lines = [v \in Reservations |-> {}]
  /\ given = {}
  /\ pc = [r \in Requests |-> "idle"]
  /\ work = [r \in Requests |-> Idle]
  /\ history = [current |-> {}, stale |-> FALSE, cut |-> FALSE,
                held |-> {}, started |-> 0,
                seen |-> [r \in Requests |-> 0],
                steady |-> [r \in Requests |-> {}]]

\* What the lines of S reserve together, unit by unit.
Units(S) == UNION {{l} \X (1 .. Quantity[l]) : l \in S}

Sum(S) == Cardinality(Units(S))

LinesAt(S, p) == {l \in S : At[l] = p}

Active(v) == rows[v] = "ACTIVE"

Quiet == \A r \in Requests : pc[r] = "idle"

Starting(r) ==
  /\ history.started < MaxStarts
  /\ history' = [history EXCEPT !.current = @ \cup {r}, !.started = @ + 1]

\* r writes to the tables, to its reservation, and stores new lines.
Writing(r, new) ==
  history' = [history EXCEPT !.current = @ \cap {r},
                             !.stale = @ \/ r \notin history.current,
                             !.held = @ \cup new,
                             !.steady = [q \in Requests |-> @[q] \ {work[r].id}]]

\* r begins to count, having read this quantity; or it has done so.
Watching(r, quantity, active) ==
  history' = [history EXCEPT !.seen[r] = quantity, !.steady[r] = active]

NotWatching(r) == Watching(r, 0, {})

Goto(r, label) == pc' = [pc EXCEPT ![r] = label]

Finish(r) ==
  /\ Goto(r, "idle")
  /\ work' = [work EXCEPT ![r] = Idle]

TablesUnchanged == UNCHANGED <<onHand, rows, lines>>

-----------------------------------------------------------------------------
(* Starting an operation and deciding whether it is allowed. *)

\* create(): a new reservation with at least one line, all of them to check.
Create(r, v, new) ==
  /\ pc[r] = "idle"
  /\ \A s \in Requests : work[s].id # v
  /\ rows[v] = NoRow /\ lines[v] = {}
  /\ new # {} /\ new \cap given = {}
  /\ given' = given \cup new
  /\ work' = [work EXCEPT ![r] =
       [Idle EXCEPT !.id = v, !.status = "ACTIVE", !.lines = new, !.todo = new]]
  /\ Goto(r, "check")
  /\ Starting(r)
  /\ TablesUnchanged

\* getById: the header is selected first, then its lines.
LoadHeader(r, v, op) ==
  /\ pc[r] = "idle"
  /\ op \in Offered \ {"create"}
  /\ rows[v] # NoRow
  /\ work' = [work EXCEPT ![r] =
                [Idle EXCEPT !.op = op, !.id = v, !.status = rows[v]]]
  /\ Goto(r, "load")
  /\ Starting(r)
  /\ TablesUnchanged /\ UNCHANGED given

LoadLines(r) ==
  /\ pc[r] = "load"
  /\ work' = [work EXCEPT ![r].lines = lines[work[r].id]]
  /\ Goto(r, "decide")
  /\ TablesUnchanged /\ UNCHANGED <<given, history>>

Deciding(r, op, statuses) ==
  /\ pc[r] = "decide"
  /\ work[r].op = op
  /\ work[r].status \in statuses

\* update(): lines, when given, are checked before they replace the old ones.
Update(r, new) ==
  /\ Deciding(r, "update", {"DRAFT", "ACTIVE"})
  /\ \/ /\ new = work[r].lines
        /\ Goto(r, "save")
        /\ UNCHANGED <<given, work>>
     \/ /\ new \cap given = {}
        /\ given' = given \cup new
        /\ work' = [work EXCEPT ![r] = [@ EXCEPT !.lines = new, !.todo = new]]
        /\ Goto(r, "check")
  /\ TablesUnchanged /\ UNCHANGED history

\* fulfill(), release() and cancel() only change the status.
Become(r, status) ==
  /\ work' = [work EXCEPT ![r].status = status]
  /\ Goto(r, "save")
  /\ TablesUnchanged /\ UNCHANGED <<given, history>>

Fulfill(r) == Deciding(r, "fulfill", {"ACTIVE"}) /\ Become(r, "FULFILLED")

\* Mutation: the status is the one stock counts use.
Release_Posted(r) == Deciding(r, "release", {"ACTIVE"}) /\ Become(r, "POSTED")

Release(r) == Deciding(r, "release", {"ACTIVE"}) /\ Become(r, "RELEASED")

Cancel(r) ==
  /\ Deciding(r, "cancel", {"DRAFT", "ACTIVE", "EXPIRED"})
  /\ Become(r, "CANCELLED")

\* Mutation: a reservation can be deleted in every state.
Delete_AnyStatus(r) ==
  /\ Deciding(r, "delete", Statuses)
  /\ Goto(r, "delete")
  /\ TablesUnchanged /\ UNCHANGED <<given, work, history>>

Delete(r) ==
  /\ Deciding(r, "delete", Statuses \ {"FULFILLED", "RELEASED"})
  /\ Goto(r, "delete")
  /\ TablesUnchanged /\ UNCHANGED <<given, work, history>>

-----------------------------------------------------------------------------
(* The check of one line (getAvailableQuantity). *)

\* What is on hand is read first.
ReadOnHand(r, l) ==
  /\ pc[r] = "check"
  /\ l \in work[r].todo
  /\ work' = [work EXCEPT ![r] = [@ EXCEPT !.line = l, !.free = onHand[At[l]]]]
  /\ Goto(r, "match")
  /\ Watching(r, onHand[At[l]], {v \in Reservations : Active(v)})
  /\ TablesUnchanged /\ UNCHANGED given

\* Then the reservations with a line on the same pair.
ReadMatching(r) ==
  LET p == At[work[r].line]
  IN  /\ pc[r] = "match"
      /\ work' = [work EXCEPT ![r].found =
                    {v \in Reservations : LinesAt(lines[v], p) # {}}]
      /\ Goto(r, "count")
      /\ TablesUnchanged /\ UNCHANGED <<given, history>>

\* Each of them is loaded, header first; only the active ones count.
CountHeader(r, v) ==
  /\ pc[r] = "count"
  /\ v \in work[r].found
  /\ work' = [work EXCEPT ![r].found = @ \ {v},
                               ![r].other = IF Active(v) THEN v ELSE NoRow]
  /\ Goto(r, IF Active(v) THEN "subtract" ELSE "count")
  /\ TablesUnchanged /\ UNCHANGED <<given, history>>

\* Mutation: a reservation that also has a line for another pair is passed over.
CountLines_Whole(r) ==
  LET p == At[work[r].line]
      all == lines[work[r].other]
  IN  /\ pc[r] = "subtract"
      /\ work' = [work EXCEPT ![r].free = @ - IF all = LinesAt(all, p) THEN Sum(all) ELSE 0,
                                   ![r].other = NoRow]
      /\ Goto(r, "count")
      /\ TablesUnchanged /\ UNCHANGED <<given, history>>

\* Then its lines, of which those on the pair are subtracted.
CountLines(r) ==
  LET counted == LinesAt(lines[work[r].other], At[work[r].line])
  IN  /\ pc[r] = "subtract"
      /\ work' = [work EXCEPT ![r].free = @ - Sum(counted),
                                   ![r].other = NoRow]
      /\ Goto(r, "count")
      /\ TablesUnchanged /\ UNCHANGED <<given, history>>

Counted(r) == pc[r] = "count" /\ work[r].found = {}

\* Mutation: lines are compared with what is on hand.
PassLine_OnHand(r) ==
  /\ Counted(r)
  /\ Quantity[work[r].line] <= onHand[At[work[r].line]]
  /\ work' = [work EXCEPT ![r].todo = @ \ {work[r].line},
                               ![r].line = NoRow, ![r].free = 0]
  /\ Goto(r, "check")
  /\ NotWatching(r)
  /\ TablesUnchanged /\ UNCHANGED given

\* The line passes when it asks for no more than is available.
PassLine(r) ==
  /\ Counted(r)
  /\ Quantity[work[r].line] <= Max({0, work[r].free})
  /\ work' = [work EXCEPT ![r].todo = @ \ {work[r].line},
                               ![r].line = NoRow, ![r].free = 0]
  /\ Goto(r, "check")
  /\ NotWatching(r)
  /\ TablesUnchanged /\ UNCHANGED given

\* All lines have passed.
ChecksDone(r) ==
  /\ pc[r] = "check"
  /\ work[r].todo = {}
  /\ Goto(r, "save")
  /\ TablesUnchanged /\ UNCHANGED <<given, work, history>>

-----------------------------------------------------------------------------
(* Saving and deleting. *)

SaveHeader(r) ==
  /\ pc[r] = "save"
  /\ rows' = [rows EXCEPT ![work[r].id] = work[r].status]
  /\ Goto(r, "erase")
  /\ Writing(r, {})
  /\ UNCHANGED <<onHand, lines, given, work>>

EraseLines(r) ==
  /\ pc[r] = "erase"
  /\ lines' = [lines EXCEPT ![work[r].id] = {}]
  /\ work' = [work EXCEPT ![r].todo = work[r].lines]
  /\ Goto(r, "insert")
  /\ Writing(r, {})
  /\ UNCHANGED <<onHand, rows, given>>

\* An insert fails when the id is taken or the header is gone.
InsertLine(r, l) ==
  /\ pc[r] = "insert"
  /\ l \in work[r].todo \ lines[work[r].id]
  /\ rows[work[r].id] # NoRow
  /\ lines' = [lines EXCEPT ![work[r].id] = @ \cup {l}]
  /\ work' = [work EXCEPT ![r].todo = @ \ {l}]
  /\ Writing(r, {l})
  /\ UNCHANGED <<onHand, rows, given, pc>>

EndSave(r) ==
  /\ pc[r] = "insert"
  /\ work[r].todo = {}
  /\ Finish(r)
  /\ TablesUnchanged /\ UNCHANGED <<given, history>>

\* The row goes, whatever its status is by now, and its lines cascade.
DeleteRow(r) ==
  /\ pc[r] = "delete"
  /\ rows' = [rows EXCEPT ![work[r].id] = NoRow]
  /\ lines' = [lines EXCEPT ![work[r].id] = {}]
  /\ Finish(r)
  /\ Writing(r, {})
  /\ UNCHANGED <<onHand, given>>

\* The request throws (an operation that is not allowed, too little stock, a
\* component that is retired, an insert that fails) or dies.
Abort(r) ==
  /\ pc[r] # "idle"
  /\ Finish(r)
  /\ history' = [history EXCEPT
                   !.cut = @ \/ pc[r] \in {"save", "erase", "insert"},
                   !.seen[r] = 0, !.steady[r] = {}]
  /\ TablesUnchanged /\ UNCHANGED given

Step(r) ==
  \/ \E v \in Reservations, new \in SUBSET Lines : Create(r, v, new)
  \/ \E v \in Reservations, op \in Operations : LoadHeader(r, v, op)
  \/ LoadLines(r)
  \/ \E new \in SUBSET Lines : Update(r, new)
  \/ Fulfill(r)
  \/ Release(r)
  \/ Cancel(r)
  \/ Delete(r)
  \/ \E l \in Lines : ReadOnHand(r, l)
  \/ ReadMatching(r)
  \/ \E v \in Reservations : CountHeader(r, v)
  \/ CountLines(r)
  \/ PassLine(r)
  \/ ChecksDone(r)
  \/ SaveHeader(r)
  \/ EraseLines(r)
  \/ \E l \in Lines : InsertLine(r, l)
  \/ EndSave(r)
  \/ DeleteRow(r)
  \/ Abort(r)

\* The projection of a pair is rebuilt after the ledger has changed.
MoveStock(p, quantity) ==
  /\ quantity \in Stock[p] \ {onHand[p]}
  /\ onHand' = [onHand EXCEPT ![p] = quantity]
  /\ history' = [history EXCEPT !.current = {}]
  /\ UNCHANGED <<rows, lines, given, pc, work>>

Next ==
  \/ \E r \in Requests : Step(r)
  \/ \E p \in Pairs : \E n \in Stock[p] : MoveStock(p, n)

Spec == Init /\ [][Next]_vars

-----------------------------------------------------------------------------
(* Properties. *)

TypeOK ==
  /\ onHand \in [Pairs -> Int]
  /\ rows \in [Reservations -> Statuses \cup {NoRow}]
  /\ lines \in [Reservations -> SUBSET Lines]
  /\ given \in SUBSET Lines
  /\ pc \in [Requests -> {"idle", "load", "decide", "check", "match", "count",
                          "subtract", "save", "erase", "insert", "delete"}]
  /\ work \in [Requests -> Works]
  /\ history \in [current : SUBSET Requests, stale : BOOLEAN, cut : BOOLEAN,
                  held : SUBSET Lines, started : Nat,
                  seen : [Requests -> Int], steady : [Requests -> SUBSET Reservations]]

\* What the reservations with one of these statuses hold of p.
Held(p, statuses) ==
  Sum(UNION {LinesAt(lines[v], p) :
    v \in {u \in Reservations : rows[u] \in statuses}})

Promised(p) == Held(p, {"ACTIVE"})

OnePerPair(S) == \A k, l \in S : At[k] = At[l] => k = l

\* Whatever others save, finish, delete or move meanwhile: a request that has
\* counted has subtracted, from the stock it read, all that was reserved then
\* and that nobody has written since; so what it finds free is never more.  And
\* if no other wrote and no stock moved since the request began, it is exact.
\* (It looks at one reservation after the other, each in two statements, while
\* lines are deleted and inserted again: what it finds may never have been
\* true, and a reservation that is being saved may be missed.)
CountMissesNothing ==
  \A r \in Requests : Counted(r) =>
    LET p == At[work[r].line]
        kept == UNION {LinesAt(lines[v], p) : v \in history.steady[r]}
    IN  /\ work[r].free <= history.seen[r] - Sum(kept)
        /\ r \in history.current => work[r].free = onHand[p] - Promised(p)

\* No request asks for two lines of one pair.
NoDoubles ==
  /\ \A r \in Requests : OnePerPair(work[r].lines)
  /\ \A v \in Reservations : OnePerPair(lines[v])

\* As long as no request writes on an overtaken copy or count, and none asks
\* for two lines of one pair, a line that was never stored before does not
\* raise what is promised of its pair above what is there.  (Stock may be
\* taken away under a promise, which no service prevents, and an update that
\* keeps its lines stores them again unchecked.)
NewPromisesAreBacked ==
  [][~history'.stale /\ NoDoubles' => \A l \in history'.held \ history.held :
       Promised(At[l])' <= onHand[At[l]]]_vars

\* A reservation that is fulfilled or released stays what it is, and a
\* cancelled one stays cancelled or is deleted, as long as no request writes
\* on an overtaken copy.  (Each operation looks at the status of its copy.)
DoneStaysDone ==
  [][~history'.stale => \A v \in Reservations :
       /\ rows[v] \in {"FULFILLED", "RELEASED"} => rows'[v] = rows[v]
       /\ rows[v] = "CANCELLED" => rows'[v] \in {"CANCELLED", NoRow}]_vars

-----------------------------------------------------------------------------
(* Statements of the documentation that the code does not keep. *)

\* RFC-0008: "inventory cannot be promised to multiple consumers
\* simultaneously."  Two requests count before either has saved.
PromisedOnce == NoDoubles => \A p \in Pairs : Promised(p) <= onHand[p]

=============================================================================
