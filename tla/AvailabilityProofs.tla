------------------------- MODULE AvailabilityProofs -------------------------
(***************************************************************************)
(* What Reservations guarantees for any number of requests, reservations,  *)
(* lines and quantities, and InventoryAlerts for any number of runs,       *)
(* quantities, reorder points and failures.                                *)
(*                                                                         *)
(* Reservations.  A line id belongs to one reservation (OwnInv), and what  *)
(* is stored or was loaded had been stored (HeldInv).  A request since     *)
(* whose first statement no other wrote and no stock moved knows what it   *)
(* has read to be true (Knows): while it counts, what is left of the stock *)
(* is the stock less what the reservations counted so far hold (Left), and *)
(* each line that has passed, or is stored for the first time, fits beside *)
(* what the other reservations hold (Fits).  And whatever others do, a     *)
(* count leaves no more than the stock it read less what the reservations  *)
(* hold that were active then, that nobody has written since and that are  *)
(* counted already (Watches): a write takes its reservation from the set.  *)
(*                                                                         *)
(* InventoryAlerts, which shares no variable with Reservations, is the     *)
(* second half.  The argument counts the runs that are about to announce   *)
(* (Pending): a run joins them only with the statement that changed a row, *)
(* so notices sent and notices pending are together no more than the       *)
(* alerts opened, or closed (Accounted).                                   *)
(***************************************************************************)
EXTENDS Reservations, InventoryAlerts, FiniteSetTheorems, TLAPS

-----------------------------------------------------------------------------
(* What lines reserve together. *)

LEMMA UnitsOfLine ==
  ASSUME NEW l \in Lines
  PROVE  IsFiniteSet(Units({l})) /\ Cardinality(Units({l})) = Quantity[l]
<1>1. Quantity[l] \in Nat /\ Quantity[l] > 0
  BY LinesAssumption
<1>2. IsFiniteSet(1 .. Quantity[l]) /\ Cardinality(1 .. Quantity[l]) = Quantity[l]
  <2>1. 1 \in Int /\ Quantity[l] \in Int
    BY <1>1
  <2>2. /\ IsFiniteSet(1 .. Quantity[l])
        /\ Cardinality(1 .. Quantity[l]) =
             IF 1 > Quantity[l] THEN 0 ELSE Quantity[l] - 1 + 1
    BY <2>1, FS_Interval, Zenon
  <2> QED
    BY <1>1, <2>2
<1>3. IsFiniteSet({l}) /\ Cardinality({l}) = 1
  BY FS_Singleton
<1>4. Units({l}) = {l} \X (1 .. Quantity[l])
  BY DEF Units
<1>5. /\ IsFiniteSet({l} \X (1 .. Quantity[l]))
      /\ Cardinality({l} \X (1 .. Quantity[l])) =
           Cardinality({l}) * Cardinality(1 .. Quantity[l])
  BY <1>2, <1>3, FS_Product, Zenon
<1>6. IsFiniteSet(Units({l})) /\ Cardinality(Units({l})) = 1 * Quantity[l]
  BY <1>2, <1>3, <1>4, <1>5, Zenon
<1> QED
  BY <1>1, <1>6

LEMMA UnitsFinite ==
  ASSUME NEW S \in SUBSET Lines
  PROVE  IsFiniteSet(Units(S))
<1> DEFINE Blocks == {{l} \X (1 .. Quantity[l]) : l \in S}
           Block == [l \in S |-> {l} \X (1 .. Quantity[l])]
<1>1. IsFiniteSet(S)
  BY LinesAssumption, FS_Subset
<1>2. Block \in Surjection(S, Blocks)
  BY DEF Surjection
<1>3. IsFiniteSet(Blocks)
  <2> HIDE DEF Block, Blocks
  <2> QED
    BY <1>1, <1>2, FS_Surjection
<1>4. ASSUME NEW B \in Blocks
      PROVE  IsFiniteSet(B)
  <2>1. PICK l \in S : B = {l} \X (1 .. Quantity[l])
    OBVIOUS
  <2>2. B = Units({l})
    BY <2>1 DEF Units
  <2> QED
    BY <2>2, UnitsOfLine
<1>5. IsFiniteSet(UNION Blocks)
  <2> HIDE DEF Blocks
  <2> QED
    BY <1>3, <1>4, FS_UNION
<1> QED
  BY <1>5 DEF Units

LEMMA SumFacts ==
  /\ Sum({}) = 0
  /\ \A S \in SUBSET Lines : Sum(S) \in Nat
  /\ \A l \in Lines : Sum({l}) = Quantity[l]
<1>1. Units({}) = {}
  BY DEF Units
<1> QED
  BY <1>1, FS_EmptySet, FS_CardinalityType, UnitsFinite, UnitsOfLine DEF Sum

LEMMA SumDisjoint ==
  ASSUME NEW S \in SUBSET Lines, NEW T \in SUBSET Lines, S \cap T = {}
  PROVE  Sum(S \cup T) = Sum(S) + Sum(T)
<1>1. Units(S \cup T) = Units(S) \cup Units(T)
  BY DEF Units
<1>2. Units(S) \cap Units(T) = {}
  <2> SUFFICES ASSUME NEW u \in Units(S), u \in Units(T)
               PROVE  FALSE
    OBVIOUS
  <2>1. \A R : u \in Units(R) => u[1] \in R
    BY DEF Units
  <2> QED
    BY <2>1
<1>3. Cardinality(Units(S) \cup Units(T)) =
        Cardinality(Units(S)) + Cardinality(Units(T)) - 0
  BY <1>2, UnitsFinite, FS_Union, FS_EmptySet
<1>4. Cardinality(Units(S)) \in Nat /\ Cardinality(Units(T)) \in Nat
  BY UnitsFinite, FS_CardinalityType
<1>5. /\ Sum(S) = Cardinality(Units(S)) /\ Sum(T) = Cardinality(Units(T))
      /\ Sum(S \cup T) = Cardinality(Units(S) \cup Units(T))
  BY <1>1, Zenon DEF Sum
<1> QED
  BY <1>3, <1>4, <1>5

LEMMA SumMonotone ==
  ASSUME NEW T \in SUBSET Lines, NEW S \in SUBSET T
  PROVE  Sum(S) <= Sum(T)
<1>1. T = S \cup (T \ S) /\ S \cap (T \ S) = {}
  OBVIOUS
<1>2. Sum(T) = Sum(S) + Sum(T \ S)
  BY <1>1, SumDisjoint
<1>3. Sum(S) \in Nat /\ Sum(T \ S) \in Nat
  BY SumFacts
<1> QED
  BY <1>2, <1>3

-----------------------------------------------------------------------------
(* The steps as turns: one request takes its work to a label. *)

Places == {"idle", "load", "decide", "check", "match", "count", "subtract",
           "save", "erase", "insert", "delete"}

Histories == [current : SUBSET Requests, stale : BOOLEAN, cut : BOOLEAN,
              held : SUBSET Lines, started : Nat,
              seen : [Requests -> Int], steady : [Requests -> SUBSET Reservations]]

\* r goes on with this work at this label; the other requests stand still.
Turn(r, w, label) ==
  /\ work' = [work EXCEPT ![r] = w]
  /\ pc' = [pc EXCEPT ![r] = label]

LEMMA TurnIs ==
  ASSUME TypeOK, NEW r \in Requests, NEW w, NEW label, Turn(r, w, label)
  PROVE  /\ work'[r] = w /\ pc'[r] = label
         /\ \A q \in Requests \ {r} : work'[q] = work[q] /\ pc'[q] = pc[q]
  BY DEF Turn, TypeOK

LEMMA IdleTyped == Idle \in Works
  BY DEF Idle, Works, Operations

LEMMA WorkTyped ==
  ASSUME TypeOK, NEW r \in Requests
  PROVE  /\ work[r] \in Works
         /\ work[r].op \in Operations /\ work[r].id \in Reservations \cup {NoRow}
         /\ work[r].status \in Statuses \cup {NoRow}
         /\ work[r].lines \in SUBSET Lines /\ work[r].todo \in SUBSET Lines
         /\ work[r].line \in Lines \cup {NoRow} /\ work[r].free \in Int
         /\ work[r].found \in SUBSET Reservations
         /\ work[r].other \in Reservations \cup {NoRow}
<1>1. work[r] \in Works
  BY DEF TypeOK
<1> QED
  BY <1>1 DEF Works

LEMMA DecisionTurns ==
  ASSUME TypeOK, NEW r \in Requests
  PROVE  LET w == work[r] IN
         /\ \A v \in Reservations, new \in SUBSET Lines : Create(r, v, new) =>
              Turn(r, [Idle EXCEPT !.id = v, !.status = "ACTIVE", !.lines = new,
                                   !.todo = new], "check")
         /\ \A v \in Reservations, op \in Operations : LoadHeader(r, v, op) =>
              Turn(r, [Idle EXCEPT !.op = op, !.id = v, !.status = rows[v]], "load")
         /\ LoadLines(r) => Turn(r, [w EXCEPT !.lines = lines[w.id]], "decide")
         /\ \A new \in SUBSET Lines : Update(r, new) =>
              \/ /\ Turn(r, w, "save")
                 /\ given' = given
              \/ /\ Turn(r, [w EXCEPT !.lines = new, !.todo = new], "check")
                 /\ new \cap given = {} /\ given' = given \cup new
         /\ Fulfill(r) => Turn(r, [w EXCEPT !.status = "FULFILLED"], "save")
         /\ Release(r) => Turn(r, [w EXCEPT !.status = "RELEASED"], "save")
         /\ Cancel(r) => Turn(r, [w EXCEPT !.status = "CANCELLED"], "save")
         /\ Delete(r) => Turn(r, w, "delete")
<1>1. ASSUME NEW v \in Reservations, NEW new \in SUBSET Lines, Create(r, v, new)
      PROVE  Turn(r, [Idle EXCEPT !.id = v, !.status = "ACTIVE", !.lines = new,
                                  !.todo = new], "check")
  BY <1>1 DEF TypeOK, Turn, Create, Goto
<1>2. ASSUME NEW v \in Reservations, NEW op \in Operations, LoadHeader(r, v, op)
      PROVE  Turn(r, [Idle EXCEPT !.op = op, !.id = v, !.status = rows[v]], "load")
  BY <1>2 DEF TypeOK, Turn, LoadHeader, Goto
<1>3. LoadLines(r) => Turn(r, [work[r] EXCEPT !.lines = lines[work[r].id]], "decide")
  BY DEF TypeOK, Turn, LoadLines, Goto
<1>4. ASSUME NEW new \in SUBSET Lines, Update(r, new)
      PROVE  \/ /\ Turn(r, work[r], "save")
                /\ given' = given
             \/ /\ Turn(r, [work[r] EXCEPT !.lines = new, !.todo = new], "check")
                /\ new \cap given = {} /\ given' = given \cup new
  BY <1>4 DEF TypeOK, Turn, Update, Goto
<1>5. /\ Fulfill(r) => Turn(r, [work[r] EXCEPT !.status = "FULFILLED"], "save")
      /\ Release(r) => Turn(r, [work[r] EXCEPT !.status = "RELEASED"], "save")
      /\ Cancel(r) => Turn(r, [work[r] EXCEPT !.status = "CANCELLED"], "save")
      /\ Delete(r) => Turn(r, work[r], "delete")
  BY DEF TypeOK, Turn, Fulfill, Release, Cancel, Become, Delete, Goto
<1> QED
  BY <1>1, <1>2, <1>3, <1>4, <1>5

LEMMA CheckTurns ==
  ASSUME TypeOK, NEW r \in Requests
  PROVE  LET w == work[r] IN
         /\ \A l \in Lines : ReadOnHand(r, l) =>
              Turn(r, [w EXCEPT !.line = l, !.free = onHand[At[l]]], "match")
         /\ ReadMatching(r) =>
              Turn(r, [w EXCEPT !.found =
                {v \in Reservations : LinesAt(lines[v], At[w.line]) # {}}], "count")
         /\ \A v \in Reservations : CountHeader(r, v) =>
              Turn(r, [w EXCEPT !.found = w.found \ {v},
                                !.other = IF Active(v) THEN v ELSE NoRow],
                   IF Active(v) THEN "subtract" ELSE "count")
         /\ CountLines(r) =>
              Turn(r, [w EXCEPT
                !.free = w.free - Sum(LinesAt(lines[w.other], At[w.line])),
                !.other = NoRow], "count")
         /\ PassLine(r) =>
              Turn(r, [w EXCEPT !.todo = w.todo \ {w.line}, !.line = NoRow, !.free = 0],
                   "check")
         /\ ChecksDone(r) => Turn(r, w, "save")
  BY DEF TypeOK, Turn, ReadOnHand, ReadMatching, CountHeader, CountLines, PassLine,
         ChecksDone, Goto

LEMMA SaveTurns ==
  ASSUME TypeOK, NEW r \in Requests
  PROVE  LET w == work[r] IN
         /\ SaveHeader(r) => Turn(r, w, "erase")
         /\ EraseLines(r) => Turn(r, [w EXCEPT !.todo = w.lines], "insert")
         /\ \A l \in Lines : InsertLine(r, l) =>
              Turn(r, [w EXCEPT !.todo = w.todo \ {l}], "insert")
         /\ EndSave(r) \/ DeleteRow(r) \/ Abort(r) => Turn(r, Idle, "idle")
  BY DEF TypeOK, Turn, SaveHeader, EraseLines, InsertLine, EndSave, DeleteRow, Abort,
         Finish, Goto

-----------------------------------------------------------------------------
(* Types, and what a request has at each statement. *)

Checking == {"check", "match", "count", "subtract"}

\* The copy w of a request that is about to make the statement "label".
Shape(w, label) ==
  /\ w \in Works /\ label \in Places
  /\ label = "idle" => w = Idle
  /\ label # "idle" => w.id \in Reservations /\ w.status \in Statuses
  /\ w.todo \subseteq w.lines
  /\ label \in {"load", "decide", "save", "erase", "delete"} => w.todo = {}
  /\ label \in {"match", "count", "subtract"} => w.line \in w.todo
  /\ label = "subtract" => w.other \in Reservations

TablesTyped ==
  /\ onHand \in [Pairs -> Int]
  /\ rows \in [Reservations -> Statuses \cup {NoRow}]
  /\ lines \in [Reservations -> SUBSET Lines]
  /\ given \in SUBSET Lines
  /\ history \in Histories

ShapeInv == TypeOK /\ \A r \in Requests : Shape(work[r], pc[r])

LEMMA TurnShape ==
  ASSUME ShapeInv, NEW r \in Requests, NEW w, NEW label, Turn(r, w, label),
         Shape(w, label), TablesTyped'
  PROVE  ShapeInv'
<1>1. TypeOK
  BY DEF ShapeInv
<1>2. w \in Works /\ label \in Places
  BY DEF Shape
<1>3. pc' \in [Requests -> Places] /\ work' \in [Requests -> Works]
  BY <1>1, <1>2 DEF TypeOK, Turn, Places
<1>4. TypeOK'
  BY <1>3 DEF TypeOK, TablesTyped, Places, Histories
<1>5. ASSUME NEW q \in Requests
      PROVE  Shape(work'[q], pc'[q])
  BY <1>1, TurnIs DEF ShapeInv
<1> QED
  BY <1>4, <1>5 DEF ShapeInv

LEMMA IdleShape == Shape(Idle, "idle")
  BY IdleTyped DEF Shape, Idle, Places

LEMMA TablesKept ==
  ASSUME TypeOK
  PROVE  TablesTyped
  BY DEF TypeOK, TablesTyped, Histories

LEMMA StartingTyped ==
  ASSUME history \in Histories, NEW r \in Requests, Starting(r)
  PROVE  /\ history' \in Histories
         /\ history'.current = history.current \cup {r}
         /\ history'.stale = history.stale /\ history'.held = history.held
         /\ history'.seen = history.seen /\ history'.steady = history.steady
<1>1. PICK n \in Nat : n = history.started + 1
  BY DEF Histories
<1>2. history' = [history EXCEPT !.current = @ \cup {r}, !.started = n]
  BY <1>1 DEF Starting
<1> QED
  BY <1>2 DEF Histories

\* A request begins to count, or has counted.
LEMMA WatchingTyped ==
  ASSUME history \in Histories, NEW r \in Requests,
         NEW n \in Int, NEW S \in SUBSET Reservations, Watching(r, n, S)
  PROVE  /\ history' \in Histories
         /\ history'.current = history.current
         /\ history'.stale = history.stale /\ history'.held = history.held
         /\ history'.seen[r] = n /\ history'.steady[r] = S
         /\ \A q \in Requests \ {r} : /\ history'.seen[q] = history.seen[q]
                                      /\ history'.steady[q] = history.steady[q]
<1>1. /\ history.seen \in [Requests -> Int]
      /\ history.steady \in [Requests -> SUBSET Reservations]
  BY DEF Histories
<1>2. PICK f, T : /\ f = [history.seen EXCEPT ![r] = n]
                  /\ T = [history.steady EXCEPT ![r] = S]
  OBVIOUS
<1>3. /\ f \in [Requests -> Int] /\ T \in [Requests -> SUBSET Reservations]
      /\ f[r] = n /\ T[r] = S
      /\ \A q \in Requests \ {r} : f[q] = history.seen[q] /\ T[q] = history.steady[q]
  BY <1>1, <1>2
<1>4. history' = [history EXCEPT !.seen = f, !.steady = T]
  BY <1>2 DEF Watching
<1> QED
  BY <1>3, <1>4 DEF Histories

LEMMA NotWatchingTyped ==
  ASSUME history \in Histories, NEW r \in Requests, NotWatching(r)
  PROVE  /\ history' \in Histories
         /\ history'.current = history.current
         /\ history'.stale = history.stale /\ history'.held = history.held
         /\ history'.steady[r] = {}
         /\ \A q \in Requests \ {r} : /\ history'.seen[q] = history.seen[q]
                                      /\ history'.steady[q] = history.steady[q]
<1>1. PICK n \in Int : n = 0
  OBVIOUS
<1>2. PICK S \in SUBSET Reservations : S = {}
  OBVIOUS
<1>3. Watching(r, n, S)
  BY <1>1, <1>2 DEF NotWatching
<1>4. /\ history' \in Histories
      /\ history'.current = history.current
      /\ history'.stale = history.stale /\ history'.held = history.held
      /\ history'.steady[r] = S
      /\ \A q \in Requests \ {r} : /\ history'.seen[q] = history.seen[q]
                                   /\ history'.steady[q] = history.steady[q]
  BY <1>3, WatchingTyped
<1> QED
  BY <1>2, <1>4

\* r writes: whatever it writes to, nobody may rely on any more.
LEMMA WritingTyped ==
  ASSUME history \in Histories, NEW r \in Requests, NEW new \in SUBSET Lines,
         Writing(r, new)
  PROVE  /\ history' \in Histories
         /\ history'.current = history.current \cap {r}
         /\ history'.stale = (history.stale \/ r \notin history.current)
         /\ history'.held = history.held \cup new
         /\ history'.seen = history.seen
         /\ \A q \in Requests :
              history'.steady[q] = history.steady[q] \ {work[r].id}
<1>1. PICK T : T = [q \in Requests |-> history.steady[q] \ {work[r].id}]
  OBVIOUS
<1>2. history.steady \in [Requests -> SUBSET Reservations]
  BY DEF Histories
<1>3. /\ T \in [Requests -> SUBSET Reservations]
      /\ \A q \in Requests : T[q] = history.steady[q] \ {work[r].id}
  BY <1>1, <1>2
<1>4. PICK b \in BOOLEAN : b = (history.stale \/ r \notin history.current)
  OBVIOUS
<1>5. history' = [history EXCEPT !.current = @ \cap {r}, !.stale = b,
                                 !.held = @ \cup new, !.steady = T]
  BY <1>1, <1>4 DEF Writing
<1> QED
  BY <1>3, <1>4, <1>5 DEF Histories

\* r throws or dies.
LEMMA AbortTyped ==
  ASSUME history \in Histories, NEW r \in Requests, Abort(r)
  PROVE  /\ history' \in Histories
         /\ history'.current = history.current
         /\ history'.stale = history.stale /\ history'.held = history.held
         /\ history'.steady[r] = {}
         /\ \A q \in Requests \ {r} : /\ history'.seen[q] = history.seen[q]
                                      /\ history'.steady[q] = history.steady[q]
<1>1. /\ history.seen \in [Requests -> Int]
      /\ history.steady \in [Requests -> SUBSET Reservations]
  BY DEF Histories
<1>2. PICK n \in Int : n = 0
  OBVIOUS
<1>3. PICK f, T : /\ f = [history.seen EXCEPT ![r] = n]
                  /\ T = [history.steady EXCEPT ![r] = {}]
  OBVIOUS
<1>4. PICK b \in BOOLEAN : b = (history.cut \/ pc[r] \in {"save", "erase", "insert"})
  OBVIOUS
<1>5. /\ f \in [Requests -> Int] /\ T \in [Requests -> SUBSET Reservations]
      /\ T[r] = {}
      /\ \A q \in Requests \ {r} : f[q] = history.seen[q] /\ T[q] = history.steady[q]
  BY <1>1, <1>3
<1>6. history' = [history EXCEPT !.cut = b, !.seen = f, !.steady = T]
  BY <1>2, <1>3, <1>4 DEF Abort
<1> QED
  BY <1>5, <1>6 DEF Histories

LEMMA DecisionShapes ==
  ASSUME ShapeInv, NEW r \in Requests,
         \/ \E v \in Reservations, new \in SUBSET Lines : Create(r, v, new)
         \/ \E v \in Reservations, op \in Operations : LoadHeader(r, v, op)
         \/ LoadLines(r)
         \/ \E new \in SUBSET Lines : Update(r, new)
         \/ Fulfill(r) \/ Release(r) \/ Cancel(r) \/ Delete(r)
  PROVE  ShapeInv'
<1>1. TypeOK /\ TablesTyped /\ Shape(work[r], pc[r])
  BY TablesKept DEF ShapeInv
<1>2. PICK w : w = work[r]
  OBVIOUS
<1>3. CASE \E v \in Reservations, new \in SUBSET Lines : Create(r, v, new)
  <2>1. PICK v \in Reservations, new \in SUBSET Lines : Create(r, v, new)
    BY <1>3
  <2>2. Turn(r, [Idle EXCEPT !.id = v, !.status = "ACTIVE", !.lines = new,
                             !.todo = new], "check")
    BY <1>1, <2>1, DecisionTurns
  <2>3. Shape([Idle EXCEPT !.id = v, !.status = "ACTIVE", !.lines = new,
                           !.todo = new], "check")
    <3>1. PICK i \in Works : i = Idle
      BY IdleTyped
    <3>2. "ACTIVE" \in Statuses
      BY DEF Statuses
    <3>3. Shape([i EXCEPT !.id = v, !.status = "ACTIVE", !.lines = new,
                          !.todo = new], "check")
      BY <3>2 DEF Shape, Works, Places
    <3> QED
      BY <3>1, <3>3
  <2>4. TablesTyped'
    BY <1>1, <2>1, StartingTyped DEF TablesTyped, Create, TablesUnchanged
  <2> QED
    BY <2>2, <2>3, <2>4, TurnShape
<1>4. CASE \E v \in Reservations, op \in Operations : LoadHeader(r, v, op)
  <2>1. PICK v \in Reservations, op \in Operations : LoadHeader(r, v, op)
    BY <1>4
  <2>2. Turn(r, [Idle EXCEPT !.op = op, !.id = v, !.status = rows[v]], "load")
    BY <1>1, <2>1, DecisionTurns
  <2>3. rows[v] \in Statuses
    BY <1>1, <2>1 DEF LoadHeader, TypeOK
  <2>4. Shape([Idle EXCEPT !.op = op, !.id = v, !.status = rows[v]], "load")
    <3>1. PICK i \in Works : i = Idle
      BY IdleTyped
    <3>2. i.todo = {} /\ i.lines = {}
      BY <3>1 DEF Idle
    <3>3. Shape([i EXCEPT !.op = op, !.id = v, !.status = rows[v]], "load")
      BY <2>3, <3>2 DEF Shape, Works, Places
    <3> QED
      BY <3>1, <3>3
  <2>5. TablesTyped'
    BY <1>1, <2>1, StartingTyped DEF TablesTyped, LoadHeader, TablesUnchanged
  <2> QED
    BY <2>2, <2>4, <2>5, TurnShape
<1>5. CASE LoadLines(r)
  <2>1. Turn(r, [w EXCEPT !.lines = lines[w.id]], "decide")
    BY <1>1, <1>2, <1>5, DecisionTurns
  <2>2. w.id \in Reservations /\ pc[r] = "load"
    BY <1>1, <1>2, <1>5 DEF LoadLines, Shape
  <2>3. lines[w.id] \in SUBSET Lines
    BY <1>1, <2>2 DEF TypeOK
  <2>4. Shape([w EXCEPT !.lines = lines[w.id]], "decide")
    BY <1>1, <1>2, <2>2, <2>3 DEF Shape, Works, Places
  <2>5. TablesTyped'
    BY <1>1, <1>5 DEF TablesTyped, LoadLines, TablesUnchanged
  <2> QED
    BY <2>1, <2>4, <2>5, TurnShape
<1>6. CASE \E new \in SUBSET Lines : Update(r, new)
  <2>1. PICK new \in SUBSET Lines : Update(r, new)
    BY <1>6
  <2>2. pc[r] = "decide"
    BY <2>1 DEF Update, Deciding
  <2>3. \/ /\ Turn(r, w, "save")
           /\ given' = given
        \/ /\ Turn(r, [w EXCEPT !.lines = new, !.todo = new], "check")
           /\ new \cap given = {} /\ given' = given \cup new
    BY <1>1, <1>2, <2>1, DecisionTurns
  <2>4. Shape(w, "save") /\ Shape([w EXCEPT !.lines = new, !.todo = new], "check")
    BY <1>1, <1>2, <2>2 DEF Shape, Works, Places
  <2>5. TablesTyped'
    BY <1>1, <2>1, <2>3 DEF TablesTyped, Update, TablesUnchanged
  <2> QED
    BY <2>3, <2>4, <2>5, TurnShape
<1>7. CASE Fulfill(r) \/ Release(r) \/ Cancel(r) \/ Delete(r)
  <2>1. pc[r] = "decide"
    BY <1>7 DEF Fulfill, Release, Cancel, Delete, Deciding
  <2>2. PICK status \in Statuses, label \in {"save", "delete"} :
          Turn(r, [w EXCEPT !.status = status], label)
    <3>1. w.status \in Statuses /\ w = [w EXCEPT !.status = w.status]
      BY <1>1, <1>2, <2>1 DEF Shape, Works
    <3>2. "FULFILLED" \in Statuses /\ "RELEASED" \in Statuses /\ "CANCELLED" \in Statuses
      BY DEF Statuses
    <3> QED
      <4>1. CASE Delete(r)
        <5>1. Turn(r, w, "delete")
          BY <1>1, <1>2, <4>1, DecisionTurns
        <5> QED
          BY <3>1, <5>1
      <4>2. CASE Fulfill(r)
        BY <1>1, <1>2, <3>2, <4>2, DecisionTurns
      <4>3. CASE Release(r)
        BY <1>1, <1>2, <3>2, <4>3, DecisionTurns
      <4>4. CASE Cancel(r)
        BY <1>1, <1>2, <3>2, <4>4, DecisionTurns
      <4> QED
        BY <1>7, <4>1, <4>2, <4>3, <4>4
  <2>3. Shape([w EXCEPT !.status = status], label)
    BY <1>1, <1>2, <2>1, <2>2 DEF Shape, Works, Places
  <2>4. TablesTyped'
    BY <1>1, <1>7 DEF TablesTyped, Fulfill, Release, Cancel, Delete, Become,
                      TablesUnchanged
  <2> QED
    BY <2>2, <2>3, <2>4, TurnShape
<1> QED
  BY <1>3, <1>4, <1>5, <1>6, <1>7

LEMMA CheckShapes ==
  ASSUME ShapeInv, NEW r \in Requests,
         \/ \E l \in Lines : ReadOnHand(r, l)
         \/ ReadMatching(r)
         \/ \E v \in Reservations : CountHeader(r, v)
         \/ CountLines(r) \/ PassLine(r) \/ ChecksDone(r)
  PROVE  ShapeInv'
<1>1. TypeOK /\ TablesTyped /\ Shape(work[r], pc[r])
  BY TablesKept DEF ShapeInv
<1>2. PICK w : w = work[r]
  OBVIOUS
<1>3. TablesTyped'
  <2>1. history' \in Histories
    <3>1. CASE history' = history
      BY <1>1, <3>1 DEF TablesTyped
    <3>2. ASSUME NEW l \in Lines, ReadOnHand(r, l)
          PROVE  history' \in Histories
      <4>1. onHand[At[l]] \in Int
        BY <1>1, LinesAssumption DEF TypeOK
      <4>2. history \in Histories /\ {v \in Reservations : Active(v)} \in SUBSET Reservations
        BY <1>1 DEF TablesTyped
      <4> QED
        BY <3>2, <4>1, <4>2, WatchingTyped DEF ReadOnHand
    <3>3. ASSUME PassLine(r)
          PROVE  history' \in Histories
      BY <1>1, <3>3, NotWatchingTyped DEF PassLine, TablesTyped
    <3> QED
      BY <3>1, <3>2, <3>3 DEF ReadMatching, CountHeader, CountLines, ChecksDone
  <2> QED
    BY <1>1, <2>1 DEF TablesTyped, ReadOnHand, ReadMatching, CountHeader, CountLines,
                      PassLine, ChecksDone, TablesUnchanged
<1>4. ASSUME NEW l \in Lines, ReadOnHand(r, l)
      PROVE  ShapeInv'
  <2>1. Turn(r, [w EXCEPT !.line = l, !.free = onHand[At[l]]], "match")
    BY <1>1, <1>2, <1>4, CheckTurns
  <2>2. onHand[At[l]] \in Int
    BY <1>1, LinesAssumption DEF TypeOK
  <2>3. Shape([w EXCEPT !.line = l, !.free = onHand[At[l]]], "match")
    BY <1>1, <1>2, <1>4, <2>2 DEF Shape, Works, Places, ReadOnHand
  <2> QED
    BY <1>3, <2>1, <2>3, TurnShape
<1>5. ASSUME ReadMatching(r)
      PROVE  ShapeInv'
  <2> DEFINE S == {v \in Reservations : LinesAt(lines[v], At[w.line]) # {}}
  <2>1. Turn(r, [w EXCEPT !.found = S], "count")
    BY <1>1, <1>2, <1>5, CheckTurns
  <2>2. S \in SUBSET Reservations
    OBVIOUS
  <2> HIDE DEF S
  <2>3. Shape([w EXCEPT !.found = S], "count")
    BY <1>1, <1>2, <1>5, <2>2 DEF Shape, Works, Places, ReadMatching
  <2> QED
    BY <1>3, <2>1, <2>3, TurnShape
<1>6. ASSUME NEW v \in Reservations, CountHeader(r, v)
      PROVE  ShapeInv'
  <2> DEFINE o == IF Active(v) THEN v ELSE NoRow
             to == IF Active(v) THEN "subtract" ELSE "count"
  <2>1. Turn(r, [w EXCEPT !.found = w.found \ {v}, !.other = o], to)
    BY <1>1, <1>2, <1>6, CheckTurns
  <2>2. o \in Reservations \cup {NoRow} /\ to \in {"subtract", "count"}
        /\ (to = "subtract" => o \in Reservations)
    OBVIOUS
  <2> HIDE DEF o, to
  <2>3. Shape([w EXCEPT !.found = w.found \ {v}, !.other = o], to)
    BY <1>1, <1>2, <1>6, <2>2 DEF Shape, Works, Places, CountHeader
  <2> QED
    BY <1>3, <2>1, <2>3, TurnShape
<1>7. ASSUME CountLines(r)
      PROVE  ShapeInv'
  <2> DEFINE n == w.free - Sum(LinesAt(lines[w.other], At[w.line]))
  <2>1. Turn(r, [w EXCEPT !.free = n, !.other = NoRow], "count")
    BY <1>1, <1>2, <1>7, CheckTurns
  <2>2. n \in Int
    <3>1. w.other \in Reservations /\ w.free \in Int
      BY <1>1, <1>2, <1>7 DEF Shape, Works, CountLines
    <3>2. LinesAt(lines[w.other], At[w.line]) \in SUBSET Lines
      BY <1>1, <3>1 DEF TypeOK, LinesAt
    <3> QED
      BY <3>1, <3>2, SumFacts
  <2> HIDE DEF n
  <2>3. Shape([w EXCEPT !.free = n, !.other = NoRow], "count")
    BY <1>1, <1>2, <1>7, <2>2 DEF Shape, Works, Places, CountLines
  <2> QED
    BY <1>3, <2>1, <2>3, TurnShape
<1>8. ASSUME PassLine(r)
      PROVE  ShapeInv'
  <2>1. Turn(r, [w EXCEPT !.todo = w.todo \ {w.line}, !.line = NoRow, !.free = 0], "check")
    BY <1>1, <1>2, <1>8, CheckTurns
  <2>2. Shape([w EXCEPT !.todo = w.todo \ {w.line}, !.line = NoRow, !.free = 0], "check")
    <3>1. pc[r] = "count"
      BY <1>8 DEF PassLine, Counted
    <3>2. PICK n \in Int : n = 0
      OBVIOUS
    <3>3. Shape([w EXCEPT !.todo = w.todo \ {w.line}, !.line = NoRow, !.free = n], "check")
      BY <1>1, <1>2, <3>1 DEF Shape, Works, Places
    <3> QED
      BY <3>2, <3>3
  <2> QED
    BY <1>3, <2>1, <2>2, TurnShape
<1>9. ASSUME ChecksDone(r)
      PROVE  ShapeInv'
  <2>1. Turn(r, w, "save")
    BY <1>1, <1>2, <1>9, CheckTurns
  <2>2. Shape(w, "save")
    BY <1>1, <1>2, <1>9 DEF Shape, Places, ChecksDone
  <2> QED
    BY <1>3, <2>1, <2>2, TurnShape
<1> QED
  BY <1>4, <1>5, <1>6, <1>7, <1>8, <1>9

LEMMA SaveShapes ==
  ASSUME ShapeInv, NEW r \in Requests,
         \/ SaveHeader(r) \/ EraseLines(r)
         \/ \E l \in Lines : InsertLine(r, l)
         \/ EndSave(r) \/ DeleteRow(r) \/ Abort(r)
  PROVE  ShapeInv'
<1>1. TypeOK /\ TablesTyped /\ Shape(work[r], pc[r])
  BY TablesKept DEF ShapeInv
<1>2. PICK w : w = work[r]
  OBVIOUS
<1>3. pc[r] # "idle" => w.id \in Reservations /\ w.status \in Statuses
  BY <1>1, <1>2 DEF Shape
<1>4. ASSUME SaveHeader(r)
      PROVE  ShapeInv'
  <2>1. Turn(r, w, "erase") /\ Shape(w, "erase")
    BY <1>1, <1>2, <1>4, SaveTurns DEF Shape, Places, SaveHeader
  <2>2. TablesTyped'
    BY <1>1, <1>2, <1>3, <1>4, WritingTyped DEF TablesTyped, SaveHeader
  <2> QED
    BY <2>1, <2>2, TurnShape
<1>5. ASSUME EraseLines(r)
      PROVE  ShapeInv'
  <2>1. Turn(r, [w EXCEPT !.todo = w.lines], "insert")
    BY <1>1, <1>2, <1>5, SaveTurns
  <2>2. Shape([w EXCEPT !.todo = w.lines], "insert")
    BY <1>1, <1>2, <1>5 DEF Shape, Places, Works, EraseLines
  <2>3. TablesTyped'
    BY <1>1, <1>2, <1>3, <1>5, WritingTyped DEF TablesTyped, EraseLines
  <2> QED
    BY <2>1, <2>2, <2>3, TurnShape
<1>6. ASSUME NEW l \in Lines, InsertLine(r, l)
      PROVE  ShapeInv'
  <2>1. Turn(r, [w EXCEPT !.todo = w.todo \ {l}], "insert")
    BY <1>1, <1>2, <1>6, SaveTurns
  <2>2. Shape([w EXCEPT !.todo = w.todo \ {l}], "insert")
    BY <1>1, <1>2, <1>6 DEF Shape, Places, Works, InsertLine
  <2>3. TablesTyped'
    BY <1>1, <1>2, <1>3, <1>6, WritingTyped DEF TablesTyped, InsertLine
  <2> QED
    BY <2>1, <2>2, <2>3, TurnShape
<1>7. ASSUME EndSave(r) \/ DeleteRow(r) \/ Abort(r)
      PROVE  ShapeInv'
  <2>1. Turn(r, Idle, "idle")
    BY <1>1, <1>7, SaveTurns
  <2>2. TablesTyped'
    <3>1. CASE EndSave(r)
      BY <1>1, <3>1 DEF TablesTyped, EndSave, TablesUnchanged
    <3>2. CASE DeleteRow(r)
      BY <1>1, <1>2, <1>3, <3>2, WritingTyped DEF TablesTyped, DeleteRow
    <3>3. CASE Abort(r)
      BY <1>1, <3>3, AbortTyped DEF TablesTyped, Abort, TablesUnchanged
    <3> QED
      BY <1>7, <3>1, <3>2, <3>3
  <2> QED
    BY <2>1, <2>2, IdleShape, TurnShape
<1> QED
  BY <1>4, <1>5, <1>6, <1>7

LEMMA ShapeStep ==
  ASSUME ShapeInv, [Next]_vars
  PROVE  ShapeInv'
<1>1. ASSUME NEW r \in Requests, Step(r)
      PROVE  ShapeInv'
  BY <1>1, DecisionShapes, CheckShapes, SaveShapes DEF Step
<1>2. ASSUME NEW p \in Pairs, NEW n \in Stock[p], MoveStock(p, n)
      PROVE  ShapeInv'
  <2>1. n \in Int
    BY <1>2, LinesAssumption
  <2>2. TypeOK'
    BY <1>2, <2>1 DEF ShapeInv, TypeOK, MoveStock
  <2> QED
    BY <1>2, <2>2 DEF ShapeInv, MoveStock
<1>3. CASE UNCHANGED vars
  <2>1. TypeOK'
    BY <1>3 DEF ShapeInv, TypeOK, vars
  <2> QED
    BY <1>3, <2>1 DEF ShapeInv, vars
<1> QED
  BY <1>1, <1>2, <1>3 DEF Next

LEMMA ShapeInit ==
  ASSUME Init
  PROVE  ShapeInv
<1>1. onHand \in [Pairs -> Int]
  BY LinesAssumption DEF Init
<1>2. TypeOK
  BY <1>1, IdleTyped DEF Init, TypeOK
<1> QED
  BY <1>2, IdleShape DEF ShapeInv, Init

\* Every table holds what its columns may hold, and every copy is well-formed.
THEOREM TypeCorrect == Spec => []TypeOK
<1>1. Spec => []ShapeInv
  BY ShapeInit, ShapeStep, PTL DEF Spec
<1>2. ShapeInv => TypeOK
  BY DEF ShapeInv
<1> QED
  BY <1>1, <1>2, PTL
-----------------------------------------------------------------------------
(* What the steps do to the tables. *)

\* r only reads.
Reads(r) ==
  /\ onHand' = onHand /\ rows' = rows /\ lines' = lines
  /\ given \subseteq given'
  /\ history'.stale = history.stale /\ history'.held = history.held
  /\ history'.current \ {r} = history.current \ {r}
  /\ \A q \in Requests \ {r} : /\ history'.seen[q] = history.seen[q]
                              /\ history'.steady[q] = history.steady[q]

LEMMA ReadingSteps ==
  ASSUME ShapeInv, NEW r \in Requests
  PROVE  /\ \A v \in Reservations, new \in SUBSET Lines : Create(r, v, new) => Reads(r)
         /\ \A v \in Reservations, op \in Operations : LoadHeader(r, v, op) => Reads(r)
         /\ LoadLines(r) => Reads(r)
         /\ \A new \in SUBSET Lines : Update(r, new) => Reads(r)
         /\ Fulfill(r) \/ Release(r) \/ Cancel(r) \/ Delete(r) => Reads(r)
         /\ \A l \in Lines : ReadOnHand(r, l) => Reads(r)
         /\ ReadMatching(r) => Reads(r)
         /\ \A v \in Reservations : CountHeader(r, v) => Reads(r)
         /\ CountLines(r) \/ PassLine(r) \/ ChecksDone(r) => Reads(r)
         /\ EndSave(r) \/ Abort(r) => Reads(r)
<1>1. history \in Histories
  BY TablesKept DEF ShapeInv, TablesTyped
<1>2. ASSUME NEW v \in Reservations, NEW new \in SUBSET Lines, Create(r, v, new)
      PROVE  Reads(r)
  BY <1>1, <1>2, StartingTyped DEF Create, Reads, TablesUnchanged
<1>3. ASSUME NEW v \in Reservations, NEW op \in Operations, LoadHeader(r, v, op)
      PROVE  Reads(r)
  BY <1>1, <1>3, StartingTyped DEF LoadHeader, Reads, TablesUnchanged
<1>4. ASSUME NEW new \in SUBSET Lines, Update(r, new)
      PROVE  Reads(r)
  BY <1>4 DEF Update, Reads, TablesUnchanged
<1>5. Abort(r) => Reads(r)
  BY <1>1, AbortTyped DEF Abort, Reads, TablesUnchanged
<1>6. Fulfill(r) \/ Release(r) \/ Cancel(r) \/ Delete(r) => Reads(r)
  BY DEF Fulfill, Release, Cancel, Delete, Become, Reads, TablesUnchanged
<1>7. /\ LoadLines(r) \/ ReadMatching(r) \/ CountLines(r) => Reads(r)
      /\ ChecksDone(r) \/ EndSave(r) => Reads(r)
      /\ \A v \in Reservations : CountHeader(r, v) => Reads(r)
  BY DEF LoadLines, ReadMatching, CountHeader, CountLines, ChecksDone, EndSave, Reads,
         TablesUnchanged
<1>8. /\ \A l \in Lines : ReadOnHand(r, l) => Reads(r)
      /\ PassLine(r) => Reads(r)
  <2>1. ASSUME NEW l \in Lines, ReadOnHand(r, l)
        PROVE  Reads(r)
    <3>1. onHand[At[l]] \in Int
      BY LinesAssumption DEF ShapeInv, TypeOK
    <3>2. PICK S \in SUBSET Reservations : S = {v \in Reservations : Active(v)}
      OBVIOUS
    <3>3. Watching(r, onHand[At[l]], S)
      BY <2>1, <3>2 DEF ReadOnHand
    <3> QED
      BY <1>1, <2>1, <3>1, <3>3, WatchingTyped DEF ReadOnHand, Reads, TablesUnchanged
  <2>2. ASSUME PassLine(r)
        PROVE  Reads(r)
    BY <1>1, <2>2, NotWatchingTyped DEF PassLine, Reads, TablesUnchanged
  <2> QED
    BY <2>1, <2>2
<1> QED
  BY <1>2, <1>3, <1>4, <1>5, <1>6, <1>7, <1>8

LEMMA WritingIs ==
  ASSUME ShapeInv, NEW r \in Requests, NEW new \in SUBSET Lines, Writing(r, new)
  PROVE  /\ history'.current = history.current \cap {r}
         /\ history'.stale = (history.stale \/ r \notin history.current)
         /\ history'.held = history.held \cup new
<1>1. history \in Histories
  BY TablesKept DEF ShapeInv, TablesTyped
<1> QED
  BY <1>1, WritingTyped

-----------------------------------------------------------------------------
(* Whose line is it?  A line id is given to one reservation, and only its    *)
(* requests carry it.                                                        *)

Belongs(l, v) ==
  \/ l \in lines[v]
  \/ \E r \in Requests : work[r].id = v /\ l \in work[r].lines

OwnInv ==
  \A l \in Lines, v \in Reservations : Belongs(l, v) =>
    /\ l \in given
    /\ \A u \in Reservations : Belongs(l, u) => u = v

\* What is stored, or was loaded, has been stored.
HeldInv ==
  /\ \A v \in Reservations : lines[v] \subseteq history.held
  /\ \A r \in Requests :
       pc[r] \in {"decide", "delete"} => work[r].lines \subseteq history.held

LinesInv == OwnInv /\ HeldInv

LEMMA LinesTurn ==
  ASSUME ShapeInv, LinesInv, NEW r \in Requests, NEW w, NEW label, Turn(r, w, label),
         given \subseteq given', history.held \subseteq history'.held,
         \A v \in Reservations : /\ \A l \in lines'[v] : Belongs(l, v)
                                 /\ lines'[v] \subseteq history'.held,
         \A l \in w.lines : Belongs(l, w.id) \/ l \in given' \ given,
         label \in {"decide", "delete"} => w.lines \subseteq history'.held
  PROVE  LinesInv'
<1>1. /\ work'[r] = w /\ pc'[r] = label
      /\ \A q \in Requests \ {r} : work'[q] = work[q] /\ pc'[q] = pc[q]
  BY TurnIs DEF ShapeInv
<1>2. ASSUME NEW l \in Lines, NEW v \in Reservations, Belongs(l, v)'
      PROVE  Belongs(l, v) \/ (l \in given' \ given /\ v = w.id)
  <2>1. CASE l \in lines'[v]
    BY <2>1
  <2>2. ASSUME NEW q \in Requests, work'[q].id = v, l \in work'[q].lines
        PROVE  Belongs(l, v) \/ (l \in given' \ given /\ v = w.id)
    <3>1. CASE q = r
      BY <1>1, <2>2, <3>1
    <3>2. CASE q # r
      BY <1>1, <2>2, <3>2 DEF Belongs
    <3> QED
      BY <3>1, <3>2
  <2> QED
    BY <1>2, <2>1, <2>2 DEF Belongs
<1>3. OwnInv'
  <2> SUFFICES ASSUME NEW l \in Lines, NEW v \in Reservations, Belongs(l, v)'
               PROVE  /\ l \in given'
                      /\ \A u \in Reservations : Belongs(l, u)' => u = v
    BY DEF OwnInv
  <2>1. \A u \in Reservations : Belongs(l, u)' =>
          Belongs(l, u) \/ (l \in given' \ given /\ u = w.id)
    BY <1>2
  <2>2. \A u \in Reservations : Belongs(l, u) =>
          l \in given /\ \A x \in Reservations : Belongs(l, x) => x = u
    BY DEF LinesInv, OwnInv
  <2> QED
    BY <2>1, <2>2
<1>4. HeldInv'
  BY <1>1 DEF LinesInv, HeldInv
<1> QED
  BY <1>3, <1>4 DEF LinesInv

\* A reader that carries the lines it carried, or none.
LEMMA CarryOn ==
  ASSUME ShapeInv, LinesInv, NEW r \in Requests, Reads(r), NEW w, NEW label,
         Turn(r, w, label),
         w.lines = {} \/ (w.id = work[r].id /\ w.lines = work[r].lines),
         label \in {"decide", "delete"} => pc[r] \in {"decide", "delete"}
  PROVE  LinesInv'
<1>1. /\ given \subseteq given' /\ history.held \subseteq history'.held
      /\ lines' = lines /\ history'.held = history.held
  BY DEF Reads
<1>2. \A v \in Reservations : /\ \A l \in lines'[v] : Belongs(l, v)
                              /\ lines'[v] \subseteq history'.held
  BY <1>1 DEF Belongs, LinesInv, HeldInv
<1>3. \A l \in w.lines : Belongs(l, w.id) \/ l \in given' \ given
  BY DEF Belongs
<1>4. label \in {"decide", "delete"} => w.lines \subseteq history'.held
  BY <1>1 DEF LinesInv, HeldInv
<1> QED
  BY <1>1, <1>2, <1>3, <1>4, LinesTurn

LEMMA DecisionLines ==
  ASSUME ShapeInv, LinesInv, NEW r \in Requests,
         \/ \E v \in Reservations, new \in SUBSET Lines : Create(r, v, new)
         \/ \E v \in Reservations, op \in Operations : LoadHeader(r, v, op)
         \/ LoadLines(r)
         \/ \E new \in SUBSET Lines : Update(r, new)
         \/ Fulfill(r) \/ Release(r) \/ Cancel(r) \/ Delete(r)
  PROVE  LinesInv'
<1>1. TypeOK /\ Shape(work[r], pc[r])
  BY DEF ShapeInv
<1>2. work[r] \in Works
  BY <1>1 DEF Shape
<1>3. PICK w \in Works : w = work[r]
  BY <1>2
<1>4. Reads(r)
  BY ReadingSteps, Zenon
<1>5. /\ given \subseteq given' /\ history.held \subseteq history'.held
      /\ \A v \in Reservations : /\ \A l \in lines'[v] : Belongs(l, v)
                                 /\ lines'[v] \subseteq history'.held
  BY <1>4 DEF Reads, Belongs, LinesInv, HeldInv
<1>6. ASSUME NEW v \in Reservations, NEW new \in SUBSET Lines, Create(r, v, new)
      PROVE  LinesInv'
  <2>1. PICK c : c = [Idle EXCEPT !.id = v, !.status = "ACTIVE", !.lines = new,
                                  !.todo = new]
    OBVIOUS
  <2>2. Turn(r, c, "check") /\ c.lines = new
    BY <1>1, <1>6, <2>1, DecisionTurns DEF Idle
  <2>3. \A l \in new : l \in given' \ given
    BY <1>6 DEF Create
  <2> QED
    BY <1>5, <2>2, <2>3, LinesTurn
<1>7. ASSUME NEW v \in Reservations, NEW op \in Operations, LoadHeader(r, v, op)
      PROVE  LinesInv'
  <2>1. PICK c : c = [Idle EXCEPT !.op = op, !.id = v, !.status = rows[v]]
    OBVIOUS
  <2>2. Turn(r, c, "load") /\ c.lines = {}
    BY <1>1, <1>7, <2>1, DecisionTurns DEF Idle
  <2> QED
    BY <1>4, <2>2, CarryOn
<1>8. ASSUME LoadLines(r)
      PROVE  LinesInv'
  <2>1. PICK c : c = [w EXCEPT !.lines = lines[w.id]]
    OBVIOUS
  <2>2. Turn(r, c, "decide")
    BY <1>1, <1>3, <1>8, <2>1, DecisionTurns
  <2>3. c.lines = lines[w.id] /\ c.id = w.id /\ w.id \in Reservations
    BY <1>1, <1>3, <1>8, <2>1 DEF Works, LoadLines, Shape
  <2>4. /\ \A l \in c.lines : Belongs(l, c.id)
        /\ c.lines \subseteq history'.held
    BY <1>4, <2>3 DEF Belongs, Reads, LinesInv, HeldInv
  <2> QED
    BY <1>5, <2>2, <2>4, LinesTurn
<1>9. ASSUME NEW new \in SUBSET Lines, Update(r, new)
      PROVE  LinesInv'
  <2>1. PICK c : c = [w EXCEPT !.lines = new, !.todo = new]
    OBVIOUS
  <2>2. c.lines = new
    BY <2>1 DEF Works
  <2>3. \/ Turn(r, w, "save")
        \/ Turn(r, c, "check") /\ new \cap given = {} /\ given' = given \cup new
    BY <1>1, <1>3, <1>9, <2>1, DecisionTurns
  <2>4. CASE Turn(r, w, "save")
    BY <1>3, <1>4, <2>4, CarryOn
  <2>5. CASE Turn(r, c, "check") /\ new \cap given = {} /\ given' = given \cup new
    <3>1. \A l \in c.lines : l \in given' \ given
      BY <2>2, <2>5
    <3> QED
      BY <1>5, <2>5, <3>1, LinesTurn
  <2> QED
    BY <2>3, <2>4, <2>5
<1>10. ASSUME Fulfill(r) \/ Release(r) \/ Cancel(r) \/ Delete(r)
       PROVE  LinesInv'
  <2>1. pc[r] = "decide"
    BY <1>10 DEF Fulfill, Release, Cancel, Delete, Deciding
  <2>2. CASE Delete(r)
    <3>1. Turn(r, w, "delete")
      BY <1>1, <1>3, <2>2, DecisionTurns
    <3> QED
      BY <1>3, <1>4, <2>1, <3>1, CarryOn
  <2>3. CASE Fulfill(r) \/ Release(r) \/ Cancel(r)
    <3>1. PICK status : Turn(r, [w EXCEPT !.status = status], "save")
      BY <1>1, <1>3, <2>3, DecisionTurns
    <3>2. PICK c : c = [w EXCEPT !.status = status]
      OBVIOUS
    <3>3. c.lines = w.lines /\ c.id = w.id /\ Turn(r, c, "save")
      BY <3>1, <3>2 DEF Works
    <3> QED
      BY <1>3, <1>4, <3>3, CarryOn
  <2> QED
    BY <1>10, <2>2, <2>3
<1> QED
  BY <1>6, <1>7, <1>8, <1>9, <1>10
LEMMA CheckLines ==
  ASSUME ShapeInv, LinesInv, NEW r \in Requests,
         \/ \E l \in Lines : ReadOnHand(r, l)
         \/ ReadMatching(r)
         \/ \E v \in Reservations : CountHeader(r, v)
         \/ CountLines(r) \/ PassLine(r) \/ ChecksDone(r)
         \/ EndSave(r) \/ Abort(r)
  PROVE  LinesInv'
<1>1. TypeOK /\ work[r] \in Works
  BY DEF ShapeInv, Shape
<1>2. PICK w \in Works : w = work[r]
  BY <1>1
<1>3. Reads(r)
  BY ReadingSteps, Zenon
<1>4. PICK c, label :
        /\ Turn(r, c, label)
        /\ c.lines = {} \/ (c.id = w.id /\ c.lines = w.lines)
        /\ label \notin {"decide", "delete"}
  <2>1. ASSUME NEW l \in Lines, ReadOnHand(r, l)
        PROVE  \E c, label : /\ Turn(r, c, label)
                             /\ c.id = w.id /\ c.lines = w.lines
                             /\ label = "match"
    <3>1. PICK c : c = [w EXCEPT !.line = l, !.free = onHand[At[l]]]
      OBVIOUS
    <3>2. c.id = w.id /\ c.lines = w.lines /\ Turn(r, c, "match")
      BY <1>1, <1>2, <2>1, <3>1, CheckTurns DEF Works
    <3> QED
      BY <3>2
  <2>2. ASSUME ReadMatching(r)
        PROVE  \E c, label : /\ Turn(r, c, label)
                             /\ c.id = w.id /\ c.lines = w.lines
                             /\ label = "count"
    <3>1. PICK c : c = [w EXCEPT !.found =
                          {v \in Reservations : LinesAt(lines[v], At[w.line]) # {}}]
      OBVIOUS
    <3>2. Turn(r, c, "count")
      BY <1>1, <1>2, <2>2, <3>1, CheckTurns
    <3>3. c.id = w.id /\ c.lines = w.lines
      BY <3>1 DEF Works
    <3> QED
      BY <3>2, <3>3
  <2>3. ASSUME NEW v \in Reservations, CountHeader(r, v)
        PROVE  \E c, label : /\ Turn(r, c, label)
                             /\ c.id = w.id /\ c.lines = w.lines
                             /\ label \in {"subtract", "count"}
    <3>1. PICK c : c = [w EXCEPT !.found = w.found \ {v},
                                 !.other = IF Active(v) THEN v ELSE NoRow]
      OBVIOUS
    <3>2. Turn(r, c, IF Active(v) THEN "subtract" ELSE "count")
      BY <1>1, <1>2, <2>3, <3>1, CheckTurns
    <3>3. c.id = w.id /\ c.lines = w.lines
      BY <3>1 DEF Works
    <3> QED
      BY <3>2, <3>3
  <2>4. ASSUME CountLines(r)
        PROVE  \E c, label : /\ Turn(r, c, label)
                             /\ c.id = w.id /\ c.lines = w.lines
                             /\ label = "count"
    <3>1. PICK c : c = [w EXCEPT
                          !.free = w.free - Sum(LinesAt(lines[w.other], At[w.line])),
                          !.other = NoRow]
      OBVIOUS
    <3>2. Turn(r, c, "count")
      BY <1>1, <1>2, <2>4, <3>1, CheckTurns
    <3>3. c.id = w.id /\ c.lines = w.lines
      BY <3>1 DEF Works
    <3> QED
      BY <3>2, <3>3
  <2>5. ASSUME PassLine(r)
        PROVE  \E c, label : /\ Turn(r, c, label)
                             /\ c.id = w.id /\ c.lines = w.lines
                             /\ label = "check"
    <3>1. PICK c : c = [w EXCEPT !.todo = w.todo \ {w.line}, !.line = NoRow, !.free = 0]
      OBVIOUS
    <3>2. Turn(r, c, "check")
      BY <1>1, <1>2, <2>5, <3>1, CheckTurns
    <3>3. c.id = w.id /\ c.lines = w.lines
      BY <3>1 DEF Works
    <3> QED
      BY <3>2, <3>3
  <2>6. ASSUME ChecksDone(r)
        PROVE  Turn(r, w, "save")
    BY <1>1, <1>2, <2>6, CheckTurns
  <2>7. ASSUME EndSave(r) \/ Abort(r)
        PROVE  Turn(r, Idle, "idle") /\ Idle.lines = {}
    BY <1>1, <2>7, SaveTurns DEF Idle
  <2> QED
    BY <2>1, <2>2, <2>3, <2>4, <2>5, <2>6, <2>7
<1> QED
  BY <1>2, <1>3, <1>4, CarryOn

LEMMA SaveLines ==
  ASSUME ShapeInv, LinesInv, NEW r \in Requests,
         \/ SaveHeader(r) \/ EraseLines(r)
         \/ \E l \in Lines : InsertLine(r, l)
         \/ DeleteRow(r)
  PROVE  LinesInv'
<1>1. TypeOK /\ Shape(work[r], pc[r])
  BY DEF ShapeInv
<1>2. PICK w \in Works : w = work[r]
  BY <1>1 DEF Shape
<1>3. \A v \in Reservations : /\ \A l \in lines[v] : Belongs(l, v)
                              /\ lines[v] \subseteq history.held
  BY DEF Belongs, LinesInv, HeldInv
<1>4. \A l \in w.lines : Belongs(l, w.id)
  BY <1>2 DEF Belongs
<1>5. pc[r] # "idle" => w.id \in Reservations
  BY <1>1, <1>2 DEF Shape
<1>6. lines \in [Reservations -> SUBSET Lines]
  BY <1>1 DEF TypeOK
<1>7. ASSUME SaveHeader(r)
      PROVE  LinesInv'
  <2>1. Turn(r, w, "erase")
    BY <1>1, <1>2, <1>7, SaveTurns
  <2>2. history'.held = history.held \cup {}
    BY <1>7, WritingIs DEF SaveHeader
  <2>3. given' = given /\ lines' = lines
    BY <1>7 DEF SaveHeader
  <2> QED
    BY <1>3, <1>4, <2>1, <2>2, <2>3, LinesTurn
<1>8. ASSUME EraseLines(r)
      PROVE  LinesInv'
  <2>1. PICK c : c = [w EXCEPT !.todo = w.lines]
    OBVIOUS
  <2>2. Turn(r, c, "insert")
    BY <1>1, <1>2, <1>8, <2>1, SaveTurns
  <2>3. c.lines = w.lines /\ c.id = w.id
    BY <2>1 DEF Works
  <2>4. history'.held = history.held \cup {}
    BY <1>8, WritingIs DEF EraseLines
  <2>5. given' = given /\ \A v \in Reservations : lines'[v] \subseteq lines[v]
    BY <1>6, <1>8 DEF EraseLines
  <2> QED
    BY <1>3, <1>4, <2>2, <2>3, <2>4, <2>5, LinesTurn
<1>9. ASSUME NEW l \in Lines, InsertLine(r, l)
      PROVE  LinesInv'
  <2>1. PICK c : c = [w EXCEPT !.todo = w.todo \ {l}]
    OBVIOUS
  <2>2. Turn(r, c, "insert")
    BY <1>1, <1>2, <1>9, <2>1, SaveTurns
  <2>3. c.lines = w.lines /\ c.id = w.id
    BY <2>1 DEF Works
  <2>4. history'.held = history.held \cup {l}
    BY <1>9, WritingIs DEF InsertLine
  <2>5. /\ given' = given
        /\ \A v \in Reservations :
             lines'[v] \subseteq lines[v] \cup (IF v = w.id THEN {l} ELSE {})
    BY <1>2, <1>6, <1>9 DEF InsertLine
  <2>6. l \in w.lines
    BY <1>1, <1>2, <1>9 DEF InsertLine, Shape
  <2> QED
    BY <1>3, <1>4, <2>2, <2>3, <2>4, <2>5, <2>6, LinesTurn
<1>10. ASSUME DeleteRow(r)
       PROVE  LinesInv'
  <2>1. Turn(r, Idle, "idle") /\ Idle.lines = {}
    BY <1>1, <1>10, SaveTurns DEF Idle
  <2>2. history'.held = history.held \cup {}
    BY <1>10, WritingIs DEF DeleteRow
  <2>3. given' = given /\ \A v \in Reservations : lines'[v] \subseteq lines[v]
    BY <1>6, <1>10 DEF DeleteRow
  <2> QED
    BY <1>3, <2>1, <2>2, <2>3, LinesTurn
<1> QED
  BY <1>7, <1>8, <1>9, <1>10

LEMMA LinesStep ==
  ASSUME ShapeInv, LinesInv, [Next]_vars
  PROVE  LinesInv'
<1>1. ASSUME NEW r \in Requests, Step(r)
      PROVE  LinesInv'
  BY <1>1, DecisionLines, CheckLines, SaveLines DEF Step
<1>2. ASSUME NEW p \in Pairs, NEW n \in Stock[p], MoveStock(p, n)
      PROVE  LinesInv'
  <2>1. history'.held = history.held
    <3>1. history \in Histories
      BY TablesKept DEF ShapeInv, TablesTyped
    <3> QED
      BY <1>2, <3>1 DEF MoveStock, Histories
  <2> QED
    BY <1>2, <2>1 DEF LinesInv, OwnInv, HeldInv, Belongs, MoveStock
<1>3. CASE UNCHANGED vars
  BY <1>3 DEF LinesInv, OwnInv, HeldInv, Belongs, vars
<1> QED
  BY <1>1, <1>2, <1>3 DEF Next

LEMMA LinesInit ==
  ASSUME Init
  PROVE  LinesInv
  BY DEF Init, LinesInv, OwnInv, HeldInv, Belongs, Idle
-----------------------------------------------------------------------------
(* What a request may rely on while no other wrote and no stock moved.       *)

Saving == {"save", "erase", "insert"}

\* The lines on p of the active reservations among S, in these tables.
ActiveOn(rs, ls, p, S) ==
  {l \in Lines : At[l] = p /\ \E v \in S : rs[v] = "ACTIVE" /\ l \in ls[v]}

\* With all that other reservations hold, there is enough for line l of id.
Fits(stock, rs, ls, l, id) ==
  Quantity[l] + Sum(ActiveOn(rs, ls, At[l], Reservations \ {id})) <= stock[At[l]]

\* What is left of the stock of p when S has been counted.
Left(stock, rs, ls, p, S) == stock[p] - Sum(ActiveOn(rs, ls, p, S))

\* The copy w of a current request, at the statement "label", and the tables.
Knows(stock, rs, ls, held, w, label) ==
  /\ label \in {"load", "decide"} => w.status = rs[w.id]
  /\ label = "delete" => rs[w.id] \notin {"FULFILLED", "RELEASED"}
  /\ label \in Checking \cup {"save"} =>
       rs[w.id] \in {NoRow, "DRAFT", "ACTIVE", "EXPIRED"}
  /\ label = "match" => w.free = stock[At[w.line]]
  /\ label = "count" => w.free = Left(stock, rs, ls, At[w.line], Reservations \ w.found)
  /\ label = "subtract" =>
       /\ rs[w.other] = "ACTIVE" /\ w.other \notin w.found
       /\ w.free = Left(stock, rs, ls, At[w.line],
                        Reservations \ (w.found \cup {w.other}))
  /\ label \in Checking =>
       \A l \in w.lines \ w.todo : Fits(stock, rs, ls, l, w.id)
  /\ label \in Saving =>
       \A l \in w.lines \ held : Fits(stock, rs, ls, l, w.id)

KnowInv ==
  \A r \in history.current :
    Knows(onHand, rows, lines, history.held, work[r], pc[r])

\* The sum over reservations that the model writes, and the one used here.
LEMMA HeldIs ==
  ASSUME NEW rs, NEW ls \in [Reservations -> SUBSET Lines], NEW p
  PROVE  Sum(UNION {LinesAt(ls[v], p) : v \in {u \in Reservations : rs[u] \in {"ACTIVE"}}})
           = Sum(ActiveOn(rs, ls, p, Reservations))
<1>1. UNION {LinesAt(ls[v], p) : v \in {u \in Reservations : rs[u] \in {"ACTIVE"}}}
        = ActiveOn(rs, ls, p, Reservations)
  BY DEF LinesAt, ActiveOn
<1> QED
  BY <1>1, Zenon

LEMMA PromisedIs ==
  ASSUME ShapeInv, NEW p
  PROVE  Promised(p) = Sum(ActiveOn(rows, lines, p, Reservations))
<1>1. lines \in [Reservations -> SUBSET Lines]
  BY DEF ShapeInv, TypeOK
<1> QED
  BY <1>1, HeldIs, Zenon DEF Promised, Held

LEMMA ActiveOnFacts ==
  ASSUME NEW rs, NEW ls, NEW p, NEW S
  PROVE  /\ ActiveOn(rs, ls, p, S) \in SUBSET Lines
         /\ Sum(ActiveOn(rs, ls, p, S)) \in Nat
<1>1. ActiveOn(rs, ls, p, S) \in SUBSET Lines
  BY DEF ActiveOn
<1> QED
  BY <1>1, SumFacts

\* Fewer reservations hold no more.
LEMMA ActiveOnMonotone ==
  ASSUME NEW rs, NEW ls, NEW p, NEW S, NEW R \in SUBSET S
  PROVE  Sum(ActiveOn(rs, ls, p, R)) <= Sum(ActiveOn(rs, ls, p, S))
<1>1. ActiveOn(rs, ls, p, R) \subseteq ActiveOn(rs, ls, p, S)
  BY DEF ActiveOn
<1>2. ActiveOn(rs, ls, p, S) \in SUBSET Lines
  BY ActiveOnFacts
<1> QED
  BY <1>1, <1>2, SumMonotone

\* Whether a line fits does not depend on the reservation it is for.
LEMMA FitsElsewhere ==
  ASSUME NEW stock, NEW rs, NEW ls, NEW rs2, NEW ls2, NEW l, NEW id,
         \A v \in Reservations \ {id} : rs2[v] = rs[v] /\ ls2[v] = ls[v]
  PROVE  Fits(stock, rs2, ls2, l, id) <=> Fits(stock, rs, ls, l, id)
<1>1. ActiveOn(rs2, ls2, At[l], Reservations \ {id})
        = ActiveOn(rs, ls, At[l], Reservations \ {id})
  BY DEF ActiveOn
<1> QED
  BY <1>1, Zenon DEF Fits

LEMMA MaxIs ==
  ASSUME NEW n \in Int, NEW k \in Nat \ {0}, k <= Max({0, n})
  PROVE  k <= n
<1>1. \E x \in {0, n} : \A y \in {0, n} : x >= y
  <2>1. CASE n >= 0
    BY <2>1
  <2>2. CASE n < 0
    BY <2>2
  <2> QED
    BY <2>1, <2>2
<1>2. Max({0, n}) \in {0, n}
  BY <1>1 DEF Max
<1> QED
  BY <1>2

\* A reader keeps what the others know.
LEMMA KnowTurn ==
  ASSUME ShapeInv, KnowInv, NEW r \in Requests, Reads(r), NEW w, NEW label,
         Turn(r, w, label),
         r \in history'.current =>
           Knows(onHand, rows, lines, history.held, w, label)
  PROVE  KnowInv'
<1>1. /\ work'[r] = w /\ pc'[r] = label
      /\ \A q \in Requests \ {r} : work'[q] = work[q] /\ pc'[q] = pc[q]
  BY TurnIs DEF ShapeInv
<1>2. /\ onHand' = onHand /\ rows' = rows /\ lines' = lines
      /\ history'.held = history.held
      /\ history'.current \ {r} = history.current \ {r}
  BY DEF Reads
<1>3. history.current \subseteq Requests
  BY TablesKept DEF ShapeInv, TablesTyped, Histories
<1>4. ASSUME NEW q \in history'.current
      PROVE  Knows(onHand', rows', lines', history'.held, work'[q], pc'[q])
  <2>1. CASE q = r
    BY <1>1, <1>2, <2>1, Zenon
  <2>2. CASE q # r
    <3>1. q \in history.current /\ q \in Requests
      BY <1>2, <1>3, <2>2
    <3>2. work'[q] = work[q] /\ pc'[q] = pc[q]
      BY <1>1, <2>2, <3>1
    <3>3. Knows(onHand, rows, lines, history.held, work[q], pc[q])
      BY <3>1 DEF KnowInv
    <3> QED
      BY <1>2, <3>2, <3>3, Zenon
  <2> QED
    BY <2>1, <2>2
<1> QED
  BY <1>4 DEF KnowInv

\* A writer is the only one left who knows.
LEMMA KnowWrite ==
  ASSUME ShapeInv, NEW r \in Requests, NEW new \in SUBSET Lines, Writing(r, new),
         NEW w, NEW label, Turn(r, w, label),
         r \in history.current =>
           Knows(onHand', rows', lines', history'.held, w, label)
  PROVE  KnowInv'
<1>1. work'[r] = w /\ pc'[r] = label
  BY TurnIs DEF ShapeInv
<1>2. history'.current = history.current \cap {r}
  BY WritingIs
<1>3. ASSUME NEW q \in history'.current
      PROVE  Knows(onHand', rows', lines', history'.held, work'[q], pc'[q])
  <2>1. q = r /\ r \in history.current
    BY <1>2
  <2> QED
    BY <1>1, <2>1, Zenon
<1> QED
  BY <1>3 DEF KnowInv
LEMMA DecisionKnows ==
  ASSUME ShapeInv, LinesInv, KnowInv, NEW r \in Requests,
         \/ \E v \in Reservations, new \in SUBSET Lines : Create(r, v, new)
         \/ \E v \in Reservations, op \in Operations : LoadHeader(r, v, op)
         \/ LoadLines(r)
         \/ \E new \in SUBSET Lines : Update(r, new)
         \/ Fulfill(r) \/ Release(r) \/ Cancel(r) \/ Delete(r)
  PROVE  KnowInv'
<1>1. TypeOK /\ Shape(work[r], pc[r])
  BY DEF ShapeInv
<1>2. PICK w \in Works : w = work[r]
  BY <1>1 DEF Shape
<1>3. Reads(r)
  BY ReadingSteps, Zenon
<1>4. r \in history.current =>
        Knows(onHand, rows, lines, history.held, w, pc[r])
  BY <1>2, Zenon DEF KnowInv
<1>5. ASSUME NEW v \in Reservations, NEW new \in SUBSET Lines, Create(r, v, new)
      PROVE  KnowInv'
  <2>1. PICK c : c = [Idle EXCEPT !.id = v, !.status = "ACTIVE", !.lines = new,
                                  !.todo = new]
    OBVIOUS
  <2>2. Turn(r, c, "check")
    BY <1>1, <1>5, <2>1, DecisionTurns
  <2>3. c.id = v /\ c.lines = new /\ c.todo = new
    BY <2>1 DEF Idle
  <2>4. rows[v] = NoRow
    BY <1>5 DEF Create
  <2>5. Knows(onHand, rows, lines, history.held, c, "check")
    BY <2>3, <2>4 DEF Knows, Checking, Saving
  <2> QED
    BY <1>3, <2>2, <2>5, KnowTurn
<1>6. ASSUME NEW v \in Reservations, NEW op \in Operations, LoadHeader(r, v, op)
      PROVE  KnowInv'
  <2>1. PICK c : c = [Idle EXCEPT !.op = op, !.id = v, !.status = rows[v]]
    OBVIOUS
  <2>2. Turn(r, c, "load")
    BY <1>1, <1>6, <2>1, DecisionTurns
  <2>3. c.id = v /\ c.status = rows[v]
    BY <2>1 DEF Idle
  <2>4. Knows(onHand, rows, lines, history.held, c, "load")
    BY <2>3 DEF Knows, Checking, Saving
  <2> QED
    BY <1>3, <2>2, <2>4, KnowTurn
<1>7. ASSUME LoadLines(r)
      PROVE  KnowInv'
  <2>1. PICK c : c = [w EXCEPT !.lines = lines[w.id]]
    OBVIOUS
  <2>2. Turn(r, c, "decide")
    BY <1>1, <1>2, <1>7, <2>1, DecisionTurns
  <2>3. c.id = w.id /\ c.status = w.status
    BY <2>1 DEF Works
  <2>4. pc[r] = "load" /\ history' = history
    BY <1>7 DEF LoadLines
  <2>5. r \in history.current => Knows(onHand, rows, lines, history.held, c, "decide")
    BY <1>4, <2>3, <2>4 DEF Knows, Checking, Saving
  <2> QED
    BY <1>3, <2>2, <2>4, <2>5, KnowTurn
<1>8. ASSUME NEW new \in SUBSET Lines, Update(r, new)
      PROVE  KnowInv'
  <2>1. PICK c : c = [w EXCEPT !.lines = new, !.todo = new]
    OBVIOUS
  <2>2. c.id = w.id /\ c.lines = new /\ c.todo = new
    BY <2>1 DEF Works
  <2>3. \/ Turn(r, w, "save")
        \/ Turn(r, c, "check")
    BY <1>1, <1>2, <1>8, <2>1, DecisionTurns
  <2>4. /\ pc[r] = "decide" /\ history' = history
        /\ w.status \in {"DRAFT", "ACTIVE"}
    BY <1>2, <1>8 DEF Update, Deciding
  <2>5. w.lines \subseteq history.held
    BY <1>2, <2>4 DEF LinesInv, HeldInv
  <2>6. r \in history.current =>
          /\ Knows(onHand, rows, lines, history.held, w, "save")
          /\ Knows(onHand, rows, lines, history.held, c, "check")
    BY <1>4, <2>2, <2>4, <2>5 DEF Knows, Checking, Saving
  <2> QED
    BY <1>3, <2>3, <2>4, <2>6, KnowTurn
<1>9. ASSUME Fulfill(r) \/ Release(r) \/ Cancel(r)
      PROVE  KnowInv'
  <2>1. PICK status : Turn(r, [w EXCEPT !.status = status], "save")
    BY <1>1, <1>2, <1>9, DecisionTurns
  <2>2. PICK c : c = [w EXCEPT !.status = status]
    OBVIOUS
  <2>3. c.lines = w.lines /\ c.id = w.id /\ Turn(r, c, "save")
    BY <2>1, <2>2 DEF Works
  <2>4. /\ pc[r] = "decide" /\ history' = history
        /\ w.status \in {"DRAFT", "ACTIVE", "EXPIRED"}
    BY <1>2, <1>9 DEF Fulfill, Release, Cancel, Become, Deciding
  <2>5. w.lines \subseteq history.held
    BY <1>2, <2>4 DEF LinesInv, HeldInv
  <2>6. r \in history.current => Knows(onHand, rows, lines, history.held, c, "save")
    BY <1>4, <2>3, <2>4, <2>5 DEF Knows, Checking, Saving
  <2> QED
    BY <1>3, <2>3, <2>4, <2>6, KnowTurn
<1>10. ASSUME Delete(r)
       PROVE  KnowInv'
  <2>1. Turn(r, w, "delete")
    BY <1>1, <1>2, <1>10, DecisionTurns
  <2>2. /\ pc[r] = "decide" /\ history' = history
        /\ w.status \notin {"FULFILLED", "RELEASED"}
    BY <1>2, <1>10 DEF Delete, Deciding
  <2>3. r \in history.current => Knows(onHand, rows, lines, history.held, w, "delete")
    BY <1>4, <2>2 DEF Knows, Checking, Saving
  <2> QED
    BY <1>3, <2>1, <2>2, <2>3, KnowTurn
<1> QED
  BY <1>5, <1>6, <1>7, <1>8, <1>9, <1>10

LEMMA CheckKnows ==
  ASSUME ShapeInv, LinesInv, KnowInv, NEW r \in Requests,
         \/ \E l \in Lines : ReadOnHand(r, l)
         \/ ReadMatching(r)
         \/ \E v \in Reservations : CountHeader(r, v)
         \/ CountLines(r) \/ PassLine(r) \/ ChecksDone(r)
  PROVE  KnowInv'
<1>1. TypeOK /\ Shape(work[r], pc[r])
  BY DEF ShapeInv
<1>2. PICK w \in Works : w = work[r]
  BY <1>1 DEF Shape
<1>3. Reads(r) /\ history'.current = history.current
  <2>1. Reads(r)
    BY ReadingSteps, Zenon
  <2>2. history'.current = history.current
    <3>1. history \in Histories
      BY <1>1, TablesKept DEF TablesTyped
    <3>2. ASSUME NEW l \in Lines, ReadOnHand(r, l)
          PROVE  history'.current = history.current
      <4>1. onHand[At[l]] \in Int
        BY <1>1, LinesAssumption DEF TypeOK
      <4> QED
        BY <3>1, <3>2, <4>1, WatchingTyped DEF ReadOnHand
    <3>3. ASSUME PassLine(r)
          PROVE  history'.current = history.current
      BY <3>1, <3>3, NotWatchingTyped DEF PassLine
    <3> QED
      BY <3>2, <3>3 DEF ReadMatching, CountHeader, CountLines, ChecksDone
  <2> QED
    BY <2>1, <2>2
<1>4. r \in history.current =>
        Knows(onHand, rows, lines, history.held, w, pc[r])
  BY <1>2, Zenon DEF KnowInv
<1>5. /\ lines \in [Reservations -> SUBSET Lines]
      /\ onHand \in [Pairs -> Int]
      /\ At \in [Lines -> Pairs]
  BY <1>1, LinesAssumption DEF TypeOK
<1>6. ASSUME NEW l \in Lines, ReadOnHand(r, l)
      PROVE  KnowInv'
  <2>1. PICK c : c = [w EXCEPT !.line = l, !.free = onHand[At[l]]]
    OBVIOUS
  <2>2. Turn(r, c, "match")
    BY <1>1, <1>2, <1>6, <2>1, CheckTurns
  <2>3. /\ c.id = w.id /\ c.lines = w.lines /\ c.todo = w.todo
        /\ c.line = l /\ c.free = onHand[At[l]]
    BY <2>1 DEF Works
  <2>4. pc[r] = "check"
    BY <1>6 DEF ReadOnHand
  <2>5. r \in history.current => Knows(onHand, rows, lines, history.held, c, "match")
    BY <1>4, <2>3, <2>4 DEF Knows, Checking, Saving
  <2> QED
    BY <1>3, <2>2, <2>5, KnowTurn
<1>7. ASSUME ReadMatching(r)
      PROVE  KnowInv'
  <2>1. PICK S \in SUBSET Reservations :
          S = {v \in Reservations : LinesAt(lines[v], At[w.line]) # {}}
    OBVIOUS
  <2>2. PICK c : c = [w EXCEPT !.found = S]
    OBVIOUS
  <2>3. Turn(r, c, "count")
    BY <1>1, <1>2, <1>7, <2>1, <2>2, CheckTurns
  <2>4. /\ c.id = w.id /\ c.lines = w.lines /\ c.todo = w.todo
        /\ c.line = w.line /\ c.free = w.free /\ c.found = S
    BY <2>2 DEF Works
  <2>5. pc[r] = "match"
    BY <1>7 DEF ReadMatching
  <2>6. ActiveOn(rows, lines, At[w.line], Reservations \ S) = {}
    BY <2>1 DEF ActiveOn, LinesAt
  <2>7. Left(onHand, rows, lines, At[w.line], Reservations \ S) = onHand[At[w.line]] - 0
    BY <2>6, SumFacts, Zenon DEF Left
  <2>8. onHand[At[w.line]] \in Int
    BY <1>1, <1>2, <1>5, <2>5 DEF Shape, Works
  <2>9. Left(onHand, rows, lines, At[w.line], Reservations \ S) = onHand[At[w.line]]
    BY <2>7, <2>8
  <2>10. r \in history.current => Knows(onHand, rows, lines, history.held, c, "count")
    BY <1>4, <2>4, <2>5, <2>9 DEF Knows, Checking, Saving
  <2> QED
    BY <1>3, <2>3, <2>10, KnowTurn
<1>8. ASSUME NEW v \in Reservations, CountHeader(r, v)
      PROVE  KnowInv'
  <2>1. pc[r] = "count" /\ v \in w.found /\ w.found \in SUBSET Reservations
    BY <1>2, <1>8 DEF CountHeader, Works
  <2>2. CASE Active(v)
    <3>1. PICK c : c = [w EXCEPT !.found = w.found \ {v}, !.other = v]
      OBVIOUS
    <3>2. Turn(r, c, "subtract")
      BY <1>1, <1>2, <1>8, <2>2, <3>1, CheckTurns
    <3>3. /\ c.id = w.id /\ c.lines = w.lines /\ c.todo = w.todo
          /\ c.line = w.line /\ c.free = w.free /\ c.found = w.found \ {v} /\ c.other = v
      BY <3>1 DEF Works
    <3>4. c.found \cup {c.other} = w.found /\ c.other \notin c.found
      BY <2>1, <3>3
    <3>5. rows[v] = "ACTIVE"
      BY <2>2 DEF Active
    <3>6. r \in history.current =>
            w.free = Left(onHand, rows, lines, At[w.line], Reservations \ w.found)
      BY <1>4, <2>1 DEF Knows
    <3>7. r \in history.current =>
            c.free = Left(onHand, rows, lines, At[c.line],
                          Reservations \ (c.found \cup {c.other}))
      BY <3>3, <3>4, <3>6, Zenon
    <3>8. r \in history.current => Knows(onHand, rows, lines, history.held, c, "subtract")
      BY <1>4, <2>1, <3>3, <3>4, <3>5, <3>7 DEF Knows, Checking, Saving
    <3> QED
      BY <1>3, <3>2, <3>8, KnowTurn
  <2>3. CASE ~Active(v)
    <3>1. PICK c : c = [w EXCEPT !.found = w.found \ {v}, !.other = NoRow]
      OBVIOUS
    <3>2. Turn(r, c, "count")
      BY <1>1, <1>2, <1>8, <2>3, <3>1, CheckTurns
    <3>3. /\ c.id = w.id /\ c.lines = w.lines /\ c.todo = w.todo
          /\ c.line = w.line /\ c.free = w.free /\ c.found = w.found \ {v}
      BY <3>1 DEF Works
    <3>4. ActiveOn(rows, lines, At[w.line], Reservations \ (w.found \ {v}))
            = ActiveOn(rows, lines, At[w.line], Reservations \ w.found)
      BY <2>3 DEF ActiveOn, Active
    <3>5. r \in history.current =>
            c.free = Left(onHand, rows, lines, At[c.line], Reservations \ c.found)
      BY <1>4, <2>1, <3>3, <3>4 DEF Knows, Left
    <3>6. r \in history.current => Knows(onHand, rows, lines, history.held, c, "count")
      BY <1>4, <2>1, <3>3, <3>5 DEF Knows, Checking, Saving
    <3> QED
      BY <1>3, <3>2, <3>6, KnowTurn
  <2> QED
    BY <2>2, <2>3
<1>9. ASSUME CountLines(r)
      PROVE  KnowInv'
  <2>1. PICK counted : counted = LinesAt(lines[w.other], At[w.line])
    OBVIOUS
  <2>2. PICK n : n = w.free - Sum(counted)
    OBVIOUS
  <2>3. PICK c : c = [w EXCEPT !.free = n, !.other = NoRow]
    OBVIOUS
  <2>4. Turn(r, c, "count")
    BY <1>1, <1>2, <1>9, <2>1, <2>2, <2>3, CheckTurns
  <2>5. /\ c.id = w.id /\ c.lines = w.lines /\ c.todo = w.todo
        /\ c.line = w.line /\ c.free = n /\ c.found = w.found
    BY <2>3 DEF Works
  <2>6. /\ pc[r] = "subtract" /\ w.other \in Reservations
        /\ w.line \in Lines /\ w.found \in SUBSET Reservations
    BY <1>1, <1>2, <1>9 DEF CountLines, Shape, Works
  <2>7. r \in history.current =>
          n = Left(onHand, rows, lines, At[w.line], Reservations \ w.found)
    <3> SUFFICES ASSUME r \in history.current
                 PROVE  n = Left(onHand, rows, lines, At[w.line], Reservations \ w.found)
      OBVIOUS
    <3> DEFINE A == ActiveOn(rows, lines, At[w.line],
                             Reservations \ (w.found \cup {w.other}))
               B == ActiveOn(rows, lines, At[w.line], Reservations \ w.found)
    <3>1. /\ rows[w.other] = "ACTIVE" /\ w.other \notin w.found
          /\ w.free = onHand[At[w.line]] - Sum(A)
      BY <1>4, <2>6 DEF Knows, Left
    <3>2. counted \in SUBSET Lines /\ A \in SUBSET Lines
      BY <1>5, <2>1, <2>6 DEF LinesAt, ActiveOn
    <3>3. B = A \cup counted
      BY <1>5, <2>1, <2>6, <3>1 DEF LinesAt, ActiveOn
    <3>4. A \cap counted = {}
      <4> SUFFICES ASSUME NEW l \in A, l \in counted
                   PROVE  FALSE
        OBVIOUS
      <4>1. l \in Lines /\ l \in lines[w.other]
        BY <2>1 DEF LinesAt, ActiveOn
      <4>2. PICK v \in Reservations \ (w.found \cup {w.other}) : l \in lines[v]
        BY DEF ActiveOn
      <4>3. Belongs(l, v) /\ Belongs(l, w.other) /\ v # w.other
        BY <4>1, <4>2 DEF Belongs
      <4> QED
        BY <2>6, <4>1, <4>2, <4>3 DEF LinesInv, OwnInv
    <3> HIDE DEF A, B
    <3>5. Sum(B) = Sum(A) + Sum(counted)
      BY <3>2, <3>3, <3>4, SumDisjoint
    <3>6. Sum(A) \in Nat /\ Sum(counted) \in Nat /\ onHand[At[w.line]] \in Int
      BY <1>5, <2>6, <3>2, SumFacts
    <3>7. n = onHand[At[w.line]] - Sum(B)
      BY <2>2, <3>1, <3>5, <3>6
    <3> QED
      BY <3>7 DEF Left, B
  <2>8. r \in history.current => Knows(onHand, rows, lines, history.held, c, "count")
    BY <1>4, <2>5, <2>6, <2>7 DEF Knows, Checking, Saving
  <2> QED
    BY <1>3, <2>4, <2>8, KnowTurn
<1>10. ASSUME PassLine(r)
       PROVE  KnowInv'
  <2>1. PICK c : c = [w EXCEPT !.todo = w.todo \ {w.line}, !.line = NoRow, !.free = 0]
    OBVIOUS
  <2>2. Turn(r, c, "check")
    BY <1>1, <1>2, <1>10, <2>1, CheckTurns
  <2>3. c.id = w.id /\ c.lines = w.lines /\ c.todo = w.todo \ {w.line}
    BY <2>1 DEF Works
  <2>4. /\ pc[r] = "count" /\ w.found = {}
        /\ Quantity[w.line] <= Max({0, w.free})
    BY <1>2, <1>10 DEF PassLine, Counted
  <2>5. /\ w.line \in Lines /\ w.free \in Int /\ Quantity[w.line] \in Nat \ {0}
        /\ onHand[At[w.line]] \in Int
    BY <1>1, <1>2, <1>5, <2>4, LinesAssumption DEF Shape, Works
  <2>6. Quantity[w.line] <= w.free
    BY <2>4, <2>5, MaxIs
  <2>7. ASSUME r \in history.current
        PROVE  Fits(onHand, rows, lines, w.line, w.id)
    <3> DEFINE a == Sum(ActiveOn(rows, lines, At[w.line], Reservations))
               b == Sum(ActiveOn(rows, lines, At[w.line], Reservations \ {w.id}))
    <3>1. Reservations \ w.found = Reservations
      BY <2>4
    <3>2. w.free = onHand[At[w.line]] - a
      BY <1>4, <2>4, <2>7, <3>1 DEF Knows, Left
    <3>3. b <= a
      BY ActiveOnMonotone
    <3>4. a \in Nat /\ b \in Nat
      BY ActiveOnFacts
    <3> HIDE DEF a, b
    <3>5. Quantity[w.line] + b <= onHand[At[w.line]]
      BY <2>5, <2>6, <3>2, <3>3, <3>4
    <3> QED
      BY <3>5 DEF Fits, b
  <2>8. r \in history.current => Knows(onHand, rows, lines, history.held, c, "check")
    BY <1>4, <2>3, <2>4, <2>7 DEF Knows, Checking, Saving
  <2> QED
    BY <1>3, <2>2, <2>8, KnowTurn
<1>11. ASSUME ChecksDone(r)
       PROVE  KnowInv'
  <2>1. Turn(r, w, "save")
    BY <1>1, <1>2, <1>11, CheckTurns
  <2>2. pc[r] = "check" /\ w.todo = {}
    BY <1>2, <1>11 DEF ChecksDone
  <2>3. r \in history.current => Knows(onHand, rows, lines, history.held, w, "save")
    BY <1>4, <2>2 DEF Knows, Checking, Saving
  <2> QED
    BY <1>3, <2>1, <2>3, KnowTurn
<1> QED
  BY <1>6, <1>7, <1>8, <1>9, <1>10, <1>11
LEMMA SaveKnows ==
  ASSUME ShapeInv, KnowInv, NEW r \in Requests,
         \/ SaveHeader(r) \/ EraseLines(r)
         \/ \E l \in Lines : InsertLine(r, l)
         \/ EndSave(r) \/ DeleteRow(r) \/ Abort(r)
  PROVE  KnowInv'
<1>1. TypeOK /\ Shape(work[r], pc[r])
  BY DEF ShapeInv
<1>2. PICK w \in Works : w = work[r]
  BY <1>1 DEF Shape
<1>3. r \in history.current =>
        Knows(onHand, rows, lines, history.held, w, pc[r])
  BY <1>2, Zenon DEF KnowInv
<1>4. /\ rows \in [Reservations -> Statuses \cup {NoRow}]
      /\ lines \in [Reservations -> SUBSET Lines]
  BY <1>1 DEF TypeOK
<1>5. \A stock, rs, ls, held : Knows(stock, rs, ls, held, Idle, "idle")
  BY DEF Knows, Checking, Saving
<1>6. ASSUME NEW c, NEW label \in {"erase", "insert"}, c.id = w.id, c.lines = w.lines,
             pc[r] \in Saving, r \in history.current, onHand' = onHand,
             \A v \in Reservations \ {w.id} : rows'[v] = rows[v] /\ lines'[v] = lines[v],
             history.held \subseteq history'.held
      PROVE  Knows(onHand', rows', lines', history'.held, c, label)
  <2>1. \A l \in w.lines \ history.held : Fits(onHand, rows, lines, l, w.id)
    BY <1>3, <1>6 DEF Knows
  <2>2. \A l : Fits(onHand, rows', lines', l, w.id) <=> Fits(onHand, rows, lines, l, w.id)
    BY <1>6, FitsElsewhere
  <2>3. \A l \in c.lines \ history'.held : Fits(onHand', rows', lines', l, c.id)
    BY <1>6, <2>1, <2>2
  <2> QED
    BY <2>3 DEF Knows, Checking, Saving
<1>7. ASSUME SaveHeader(r)
      PROVE  KnowInv'
  <2>1. Turn(r, w, "erase") /\ Writing(r, {})
    BY <1>1, <1>2, <1>7, SaveTurns DEF SaveHeader
  <2>2. history.held \subseteq history'.held
    BY <2>1, WritingIs
  <2>3. /\ pc[r] \in Saving /\ onHand' = onHand
        /\ \A v \in Reservations \ {w.id} : rows'[v] = rows[v] /\ lines'[v] = lines[v]
    BY <1>2, <1>4, <1>7 DEF SaveHeader, Saving
  <2>4. r \in history.current =>
          Knows(onHand', rows', lines', history'.held, w, "erase")
    BY <1>6, <2>2, <2>3
  <2> QED
    BY <2>1, <2>4, KnowWrite
<1>8. ASSUME EraseLines(r)
      PROVE  KnowInv'
  <2>1. PICK c : c = [w EXCEPT !.todo = w.lines]
    OBVIOUS
  <2>2. Turn(r, c, "insert") /\ Writing(r, {})
    BY <1>1, <1>2, <1>8, <2>1, SaveTurns DEF EraseLines
  <2>3. c.lines = w.lines /\ c.id = w.id
    BY <2>1 DEF Works
  <2>4. history.held \subseteq history'.held
    BY <2>2, WritingIs
  <2>5. /\ pc[r] \in Saving /\ onHand' = onHand
        /\ \A v \in Reservations \ {w.id} : rows'[v] = rows[v] /\ lines'[v] = lines[v]
    BY <1>2, <1>4, <1>8 DEF EraseLines, Saving
  <2>6. r \in history.current =>
          Knows(onHand', rows', lines', history'.held, c, "insert")
    BY <1>6, <2>3, <2>4, <2>5
  <2> QED
    BY <2>2, <2>6, KnowWrite
<1>9. ASSUME NEW l \in Lines, InsertLine(r, l)
      PROVE  KnowInv'
  <2>1. PICK c : c = [w EXCEPT !.todo = w.todo \ {l}]
    OBVIOUS
  <2>2. Turn(r, c, "insert") /\ Writing(r, {l})
    BY <1>1, <1>2, <1>9, <2>1, SaveTurns DEF InsertLine
  <2>3. c.lines = w.lines /\ c.id = w.id
    BY <2>1 DEF Works
  <2>4. history.held \subseteq history'.held
    BY <2>2, WritingIs
  <2>5. /\ pc[r] \in Saving /\ onHand' = onHand
        /\ \A v \in Reservations \ {w.id} : rows'[v] = rows[v] /\ lines'[v] = lines[v]
    BY <1>2, <1>4, <1>9 DEF InsertLine, Saving
  <2>6. r \in history.current =>
          Knows(onHand', rows', lines', history'.held, c, "insert")
    BY <1>6, <2>3, <2>4, <2>5
  <2> QED
    BY <2>2, <2>6, KnowWrite
<1>10. ASSUME DeleteRow(r)
       PROVE  KnowInv'
  <2>1. Turn(r, Idle, "idle") /\ Writing(r, {})
    BY <1>1, <1>10, SaveTurns DEF DeleteRow
  <2> QED
    BY <1>5, <2>1, KnowWrite
<1>11. ASSUME EndSave(r) \/ Abort(r)
       PROVE  KnowInv'
  <2>1. Turn(r, Idle, "idle") /\ Reads(r)
    BY <1>1, <1>11, SaveTurns, ReadingSteps
  <2> QED
    BY <1>5, <2>1, KnowTurn
<1> QED
  BY <1>7, <1>8, <1>9, <1>10, <1>11

LEMMA KnowStep ==
  ASSUME ShapeInv, LinesInv, KnowInv, [Next]_vars
  PROVE  KnowInv'
<1>1. ASSUME NEW r \in Requests, Step(r)
      PROVE  KnowInv'
  BY <1>1, DecisionKnows, CheckKnows, SaveKnows DEF Step
<1>2. ASSUME NEW p \in Pairs, NEW n \in Stock[p], MoveStock(p, n)
      PROVE  KnowInv'
  <2>1. history \in Histories
    BY TablesKept DEF ShapeInv, TablesTyped
  <2>2. history'.current = {}
    BY <1>2, <2>1 DEF MoveStock, Histories
  <2> QED
    BY <2>2 DEF KnowInv
<1>3. CASE UNCHANGED vars
  BY <1>3 DEF KnowInv, vars
<1> QED
  BY <1>1, <1>2, <1>3 DEF Next

-----------------------------------------------------------------------------
(* What a count may rely on whatever others do: the reservations that were   *)
(* active when it read the stock and that nobody has written since.          *)

Counting == {"match", "count", "subtract"}

\* The copy w of a request at the statement "label", and what it watches.
Watches(rs, ls, seen, steady, w, label) ==
  /\ \A v \in steady : rs[v] = "ACTIVE"
  /\ label = "match" => w.free = seen
  /\ label = "count" =>
       w.free <= seen - Sum(ActiveOn(rs, ls, At[w.line], steady \ w.found))
  /\ label = "subtract" =>
       w.free <= seen - Sum(ActiveOn(rs, ls, At[w.line],
                                     steady \ (w.found \cup {w.other})))

WatchInv ==
  \A r \in Requests :
    Watches(rows, lines, history.seen[r], history.steady[r], work[r], pc[r])

\* A reader keeps what the others watch.
LEMMA WatchTurn ==
  ASSUME ShapeInv, WatchInv, NEW r \in Requests, Reads(r), NEW w, NEW label,
         Turn(r, w, label),
         Watches(rows, lines, history'.seen[r], history'.steady[r], w, label)
  PROVE  WatchInv'
<1>1. /\ work'[r] = w /\ pc'[r] = label
      /\ \A q \in Requests \ {r} : work'[q] = work[q] /\ pc'[q] = pc[q]
  BY TurnIs DEF ShapeInv
<1>2. /\ rows' = rows /\ lines' = lines
      /\ \A q \in Requests \ {r} : /\ history'.seen[q] = history.seen[q]
                                   /\ history'.steady[q] = history.steady[q]
  BY DEF Reads
<1>3. ASSUME NEW q \in Requests
      PROVE  Watches(rows', lines', history'.seen[q], history'.steady[q], work'[q], pc'[q])
  <2>1. CASE q = r
    BY <1>1, <1>2, <2>1, Zenon
  <2>2. CASE q # r
    <3>1. /\ work'[q] = work[q] /\ pc'[q] = pc[q]
          /\ history'.seen[q] = history.seen[q] /\ history'.steady[q] = history.steady[q]
      BY <1>1, <1>2, <2>2
    <3>2. Watches(rows, lines, history.seen[q], history.steady[q], work[q], pc[q])
      BY DEF WatchInv
    <3> QED
      BY <1>2, <3>1, <3>2, Zenon
  <2> QED
    BY <2>1, <2>2
<1> QED
  BY <1>3 DEF WatchInv

\* A reader that does not count, or no longer.
LEMMA WatchNothing ==
  ASSUME ShapeInv, WatchInv, NEW r \in Requests, Reads(r), NEW w, NEW label,
         Turn(r, w, label), label \notin Counting,
         history'.steady[r] \subseteq history.steady[r]
  PROVE  WatchInv'
<1>1. \A v \in history.steady[r] : rows[v] = "ACTIVE"
  BY DEF WatchInv, Watches
<1>2. Watches(rows, lines, history'.seen[r], history'.steady[r], w, label)
  BY <1>1 DEF Watches, Counting
<1> QED
  BY <1>2, WatchTurn

\* What a writer changes, nobody watches any more.
LEMMA WatchWrite ==
  ASSUME ShapeInv, WatchInv, NEW r \in Requests, NEW new \in SUBSET Lines,
         Writing(r, new), NEW w, NEW label, Turn(r, w, label), label \notin Counting,
         \A v \in Reservations \ {work[r].id} : rows'[v] = rows[v] /\ lines'[v] = lines[v]
  PROVE  WatchInv'
<1>1. /\ work'[r] = w /\ pc'[r] = label
      /\ \A q \in Requests \ {r} : work'[q] = work[q] /\ pc'[q] = pc[q]
  BY TurnIs DEF ShapeInv
<1>2. history \in Histories
  BY TablesKept DEF ShapeInv, TablesTyped
<1>3. /\ history'.seen = history.seen
      /\ \A q \in Requests : history'.steady[q] = history.steady[q] \ {work[r].id}
  BY <1>2, WritingTyped
<1>4. ASSUME NEW q \in Requests
      PROVE  /\ history.seen[q] \in Int /\ history.steady[q] \in SUBSET Reservations
             /\ work[q].free \in Int
  BY <1>2, WorkTyped DEF Histories, ShapeInv
<1>5. ASSUME NEW q \in Requests, NEW p, NEW X
      PROVE  LET before == Sum(ActiveOn(rows, lines, p, history.steady[q] \ X))
                 after == Sum(ActiveOn(rows', lines', p, history'.steady[q] \ X))
             IN  before \in Nat /\ after \in Nat /\ after <= before
  <2>1. ActiveOn(rows', lines', p, history'.steady[q] \ X)
          \subseteq ActiveOn(rows, lines, p, history.steady[q] \ X)
    BY <1>3, <1>4 DEF ActiveOn
  <2>2. /\ ActiveOn(rows, lines, p, history.steady[q] \ X) \in SUBSET Lines
        /\ Sum(ActiveOn(rows, lines, p, history.steady[q] \ X)) \in Nat
        /\ Sum(ActiveOn(rows', lines', p, history'.steady[q] \ X)) \in Nat
    BY ActiveOnFacts
  <2> QED
    BY <2>1, <2>2, SumMonotone
<1>6. ASSUME NEW q \in Requests
      PROVE  Watches(rows', lines', history'.seen[q], history'.steady[q], work'[q], pc'[q])
  <2>1. Watches(rows, lines, history.seen[q], history.steady[q], work[q], pc[q])
    BY DEF WatchInv
  <2>2. \A v \in history'.steady[q] : rows'[v] = "ACTIVE"
    BY <1>3, <1>4, <2>1 DEF Watches
  <2>3. CASE q = r
    BY <1>1, <2>2, <2>3 DEF Watches, Counting
  <2>4. CASE q # r
    <3>1. /\ work'[q] = work[q] /\ pc'[q] = pc[q] /\ history'.seen[q] = history.seen[q]
      BY <1>1, <1>3, <2>4
    <3>2. pc[q] = "match" => work[q].free = history.seen[q]
      BY <2>1 DEF Watches
    <3>3. pc[q] = "count" =>
            work[q].free <= history.seen[q]
              - Sum(ActiveOn(rows', lines', At[work[q].line],
                             history'.steady[q] \ work[q].found))
      <4>1. pc[q] = "count" =>
              work[q].free <= history.seen[q]
                - Sum(ActiveOn(rows, lines, At[work[q].line],
                               history.steady[q] \ work[q].found))
        BY <2>1 DEF Watches
      <4> DEFINE X == work[q].found
                 p == At[work[q].line]
                 before == Sum(ActiveOn(rows, lines, p, history.steady[q] \ X))
                 after == Sum(ActiveOn(rows', lines', p, history'.steady[q] \ X))
      <4>2. before \in Nat /\ after \in Nat /\ after <= before
        BY <1>5
      <4>3. pc[q] = "count" => work[q].free <= history.seen[q] - before
        BY <4>1
      <4> HIDE DEF before, after
      <4>4. pc[q] = "count" => work[q].free <= history.seen[q] - after
        BY <1>4, <4>2, <4>3
      <4> QED
        BY <4>4 DEF after
    <3>4. pc[q] = "subtract" =>
            work[q].free <= history.seen[q]
              - Sum(ActiveOn(rows', lines', At[work[q].line],
                             history'.steady[q] \ (work[q].found \cup {work[q].other})))
      <4>1. pc[q] = "subtract" =>
              work[q].free <= history.seen[q]
                - Sum(ActiveOn(rows, lines, At[work[q].line],
                               history.steady[q] \ (work[q].found \cup {work[q].other})))
        BY <2>1 DEF Watches
      <4> DEFINE X == (work[q].found \cup {work[q].other})
                 p == At[work[q].line]
                 before == Sum(ActiveOn(rows, lines, p, history.steady[q] \ X))
                 after == Sum(ActiveOn(rows', lines', p, history'.steady[q] \ X))
      <4>2. before \in Nat /\ after \in Nat /\ after <= before
        BY <1>5
      <4>3. pc[q] = "subtract" => work[q].free <= history.seen[q] - before
        BY <4>1
      <4> HIDE DEF before, after
      <4>4. pc[q] = "subtract" => work[q].free <= history.seen[q] - after
        BY <1>4, <4>2, <4>3
      <4> QED
        BY <4>4 DEF after
    <3> QED
      BY <2>2, <3>1, <3>2, <3>3, <3>4 DEF Watches
  <2> QED
    BY <2>3, <2>4
<1> QED
  BY <1>6 DEF WatchInv

LEMMA DecisionWatches ==
  ASSUME ShapeInv, WatchInv, NEW r \in Requests,
         \/ \E v \in Reservations, new \in SUBSET Lines : Create(r, v, new)
         \/ \E v \in Reservations, op \in Operations : LoadHeader(r, v, op)
         \/ LoadLines(r)
         \/ \E new \in SUBSET Lines : Update(r, new)
         \/ Fulfill(r) \/ Release(r) \/ Cancel(r) \/ Delete(r)
  PROVE  WatchInv'
<1>1. TypeOK /\ history \in Histories
  BY TablesKept DEF ShapeInv, TablesTyped
<1>2. Reads(r)
  BY ReadingSteps, Zenon
<1>3. PICK w, label : Turn(r, w, label) /\ label \in {"check", "load", "decide", "save", "delete"}
  BY <1>1, DecisionTurns
<1>4. history'.steady = history.steady
  BY <1>1, StartingTyped DEF Create, LoadHeader, LoadLines, Update, Fulfill, Release,
                             Cancel, Delete, Become
<1> QED
  BY <1>2, <1>3, <1>4, WatchNothing DEF Counting

LEMMA CheckWatches ==
  ASSUME ShapeInv, LinesInv, WatchInv, NEW r \in Requests,
         \/ \E l \in Lines : ReadOnHand(r, l)
         \/ ReadMatching(r)
         \/ \E v \in Reservations : CountHeader(r, v)
         \/ CountLines(r) \/ PassLine(r) \/ ChecksDone(r)
         \/ EndSave(r) \/ Abort(r)
  PROVE  WatchInv'
<1>1. TypeOK /\ history \in Histories /\ Shape(work[r], pc[r])
  BY TablesKept DEF ShapeInv, TablesTyped
<1>2. PICK w \in Works : w = work[r]
  BY <1>1 DEF Shape
<1>3. Reads(r)
  BY ReadingSteps, Zenon
<1>4. PICK seen, steady : seen = history.seen[r] /\ steady = history.steady[r]
  OBVIOUS
<1>5. /\ Watches(rows, lines, seen, steady, w, pc[r])
      /\ seen \in Int /\ steady \in SUBSET Reservations
      /\ lines \in [Reservations -> SUBSET Lines]
  BY <1>1, <1>2, <1>4 DEF WatchInv, Histories, TypeOK
<1>6. ASSUME NEW l \in Lines, ReadOnHand(r, l)
      PROVE  WatchInv'
  <2>1. PICK n \in Int : n = onHand[At[l]]
    BY <1>1, LinesAssumption DEF TypeOK
  <2>2. PICK c : c = [w EXCEPT !.line = l, !.free = n]
    OBVIOUS
  <2>3. Turn(r, c, "match") /\ c.free = n
    BY <1>1, <1>2, <1>6, <2>1, <2>2, CheckTurns DEF Works
  <2>4. PICK S \in SUBSET Reservations : S = {v \in Reservations : Active(v)}
    OBVIOUS
  <2>5. history'.seen[r] = n /\ history'.steady[r] = S
    <3>1. Watching(r, n, S)
      BY <1>6, <2>1, <2>4 DEF ReadOnHand
    <3>2. history \in Histories
      BY <1>1
    <3>3. history'.seen[r] = n
      BY <3>1, <3>2, WatchingTyped
    <3>4. history'.steady[r] = S
      BY <3>1, <3>2, WatchingTyped
    <3> QED
      BY <3>3, <3>4
  <2>6. Watches(rows, lines, history'.seen[r], history'.steady[r], c, "match")
    BY <2>3, <2>4, <2>5 DEF Watches, Active
  <2> QED
    BY <1>3, <2>3, <2>6, WatchTurn
<1>7. ASSUME ReadMatching(r)
      PROVE  WatchInv'
  <2>1. PICK S : S = {v \in Reservations : LinesAt(lines[v], At[w.line]) # {}}
    OBVIOUS
  <2>2. PICK c : c = [w EXCEPT !.found = S]
    OBVIOUS
  <2>3. Turn(r, c, "count")
    BY <1>1, <1>2, <1>7, <2>1, <2>2, CheckTurns
  <2>4. c.line = w.line /\ c.free = w.free /\ c.found = S
    BY <2>2 DEF Works
  <2>5. pc[r] = "match" /\ history' = history
    BY <1>7 DEF ReadMatching
  <2>6. ActiveOn(rows, lines, At[w.line], steady \ S) = {}
    BY <1>5, <2>1 DEF ActiveOn, LinesAt
  <2>7. Sum(ActiveOn(rows, lines, At[w.line], steady \ S)) = 0
    BY <2>6, SumFacts, Zenon
  <2>8. w.free = seen
    BY <1>5, <2>5 DEF Watches
  <2>9. c.free <= seen - Sum(ActiveOn(rows, lines, At[c.line], steady \ c.found))
    BY <1>5, <2>4, <2>7, <2>8
  <2>10. Watches(rows, lines, history'.seen[r], history'.steady[r], c, "count")
    BY <1>4, <1>5, <2>5, <2>9 DEF Watches
  <2> QED
    BY <1>3, <2>3, <2>10, WatchTurn
<1>8. ASSUME NEW v \in Reservations, CountHeader(r, v)
      PROVE  WatchInv'
  <2>1. /\ pc[r] = "count" /\ v \in w.found /\ history' = history
    BY <1>2, <1>8 DEF CountHeader
  <2>2. w.free <= seen - Sum(ActiveOn(rows, lines, At[w.line], steady \ w.found))
    BY <1>5, <2>1 DEF Watches
  <2>3. CASE Active(v)
    <3>1. PICK c : c = [w EXCEPT !.found = w.found \ {v}, !.other = v]
      OBVIOUS
    <3>2. Turn(r, c, "subtract")
      BY <1>1, <1>2, <1>8, <2>3, <3>1, CheckTurns
    <3>3. /\ c.line = w.line /\ c.free = w.free
          /\ c.found \cup {c.other} = w.found
      BY <2>1, <3>1 DEF Works
    <3>4. Watches(rows, lines, history'.seen[r], history'.steady[r], c, "subtract")
      BY <1>4, <1>5, <2>1, <2>2, <3>3 DEF Watches
    <3> QED
      BY <1>3, <3>2, <3>4, WatchTurn
  <2>4. CASE ~Active(v)
    <3>1. PICK c : c = [w EXCEPT !.found = w.found \ {v}, !.other = NoRow]
      OBVIOUS
    <3>2. Turn(r, c, "count")
      BY <1>1, <1>2, <1>8, <2>4, <3>1, CheckTurns
    <3>3. c.line = w.line /\ c.free = w.free /\ c.found = w.found \ {v}
      BY <3>1 DEF Works
    <3>4. ActiveOn(rows, lines, At[w.line], steady \ (w.found \ {v}))
            = ActiveOn(rows, lines, At[w.line], steady \ w.found)
      BY <2>4 DEF ActiveOn, Active
    <3>5. c.free <= seen - Sum(ActiveOn(rows, lines, At[c.line], steady \ c.found))
      BY <2>2, <3>3, <3>4
    <3>6. Watches(rows, lines, history'.seen[r], history'.steady[r], c, "count")
      BY <1>4, <1>5, <2>1, <3>5 DEF Watches
    <3> QED
      BY <1>3, <3>2, <3>6, WatchTurn
  <2> QED
    BY <2>3, <2>4
<1>9. ASSUME CountLines(r)
      PROVE  WatchInv'
  <2>1. PICK counted : counted = LinesAt(lines[w.other], At[w.line])
    OBVIOUS
  <2>2. PICK n : n = w.free - Sum(counted)
    OBVIOUS
  <2>3. PICK c : c = [w EXCEPT !.free = n, !.other = NoRow]
    OBVIOUS
  <2>4. Turn(r, c, "count")
    BY <1>1, <1>2, <1>9, <2>1, <2>2, <2>3, CheckTurns
  <2>5. c.line = w.line /\ c.free = n /\ c.found = w.found
    BY <2>3 DEF Works
  <2>6. pc[r] = "subtract" /\ w.other \in Reservations /\ history' = history
    BY <1>1, <1>2, <1>9 DEF CountLines, Shape
  <2> DEFINE A == ActiveOn(rows, lines, At[w.line], steady \ (w.found \cup {w.other}))
             B == ActiveOn(rows, lines, At[w.line], steady \ w.found)
  <2>7. w.free <= seen - Sum(A)
    BY <1>5, <2>6 DEF Watches
  <2>8. counted \in SUBSET Lines /\ A \in SUBSET Lines
    BY <1>5, <2>1, <2>6 DEF LinesAt, ActiveOn
  <2>9. B \subseteq A \cup counted
    BY <1>5, <2>1, <2>6 DEF LinesAt, ActiveOn
  <2>10. A \cap counted = {}
    <3> SUFFICES ASSUME NEW l \in A, l \in counted
                 PROVE  FALSE
      OBVIOUS
    <3>1. l \in Lines /\ l \in lines[w.other]
      BY <2>1 DEF LinesAt, ActiveOn
    <3>2. PICK v \in Reservations \ {w.other} : l \in lines[v]
      BY <1>5 DEF ActiveOn
    <3>3. Belongs(l, v) /\ Belongs(l, w.other) /\ v # w.other
      BY <3>1, <3>2 DEF Belongs
    <3> QED
      BY <2>6, <3>1, <3>2, <3>3 DEF LinesInv, OwnInv
  <2> HIDE DEF A, B
  <2>11. Sum(A \cup counted) = Sum(A) + Sum(counted)
    BY <2>8, <2>10, SumDisjoint
  <2>12. Sum(B) <= Sum(A \cup counted)
    BY <2>8, <2>9, SumMonotone
  <2>13. Sum(A) \in Nat /\ Sum(counted) \in Nat /\ Sum(B) \in Nat /\ w.free \in Int
    <3>1. B \in SUBSET Lines
      BY <2>8, <2>9
    <3> QED
      BY <2>8, <3>1, SumFacts DEF Works
  <2>14. n <= seen - Sum(B)
    BY <1>5, <2>2, <2>7, <2>11, <2>12, <2>13
  <2>15. Watches(rows, lines, history'.seen[r], history'.steady[r], c, "count")
    BY <1>4, <1>5, <2>5, <2>6, <2>14 DEF Watches, B
  <2> QED
    BY <1>3, <2>4, <2>15, WatchTurn
<1>10. ASSUME PassLine(r) \/ ChecksDone(r) \/ EndSave(r) \/ Abort(r)
       PROVE  WatchInv'
  <2>1. PICK c, label : Turn(r, c, label) /\ label \in {"check", "save", "idle"}
    BY <1>1, <1>10, CheckTurns, SaveTurns
  <2>2. history'.steady[r] \subseteq history.steady[r]
    <3>1. PassLine(r) => history'.steady[r] = {}
      BY <1>1, NotWatchingTyped DEF PassLine
    <3>2. Abort(r) => history'.steady[r] = {}
      BY <1>1, AbortTyped
    <3>3. ChecksDone(r) \/ EndSave(r) => history' = history
      BY DEF ChecksDone, EndSave
    <3> QED
      BY <1>10, <3>1, <3>2, <3>3
  <2> QED
    BY <1>3, <2>1, <2>2, WatchNothing DEF Counting
<1> QED
  BY <1>6, <1>7, <1>8, <1>9, <1>10

LEMMA SaveWatches ==
  ASSUME ShapeInv, WatchInv, NEW r \in Requests,
         \/ SaveHeader(r) \/ EraseLines(r)
         \/ \E l \in Lines : InsertLine(r, l)
         \/ DeleteRow(r)
  PROVE  WatchInv'
<1>1. /\ TypeOK /\ rows \in [Reservations -> Statuses \cup {NoRow}]
      /\ lines \in [Reservations -> SUBSET Lines]
  BY DEF ShapeInv, TypeOK
<1>2. PICK w, label : Turn(r, w, label) /\ label \in {"erase", "insert", "idle"}
  BY <1>1, SaveTurns
<1>3. PICK new \in SUBSET Lines : Writing(r, new)
  BY DEF SaveHeader, EraseLines, InsertLine, DeleteRow
<1>4. \A v \in Reservations \ {work[r].id} : rows'[v] = rows[v] /\ lines'[v] = lines[v]
  BY <1>1 DEF SaveHeader, EraseLines, InsertLine, DeleteRow
<1> QED
  BY <1>2, <1>3, <1>4, WatchWrite DEF Counting

LEMMA WatchStep ==
  ASSUME ShapeInv, LinesInv, WatchInv, [Next]_vars
  PROVE  WatchInv'
<1>1. ASSUME NEW r \in Requests, Step(r)
      PROVE  WatchInv'
  BY <1>1, DecisionWatches, CheckWatches, SaveWatches DEF Step
<1>2. ASSUME NEW p \in Pairs, NEW n \in Stock[p], MoveStock(p, n)
      PROVE  WatchInv'
  <2>1. history \in Histories
    BY TablesKept DEF ShapeInv, TablesTyped
  <2>2. history'.seen = history.seen /\ history'.steady = history.steady
    BY <1>2, <2>1 DEF MoveStock, Histories
  <2> QED
    BY <1>2, <2>2 DEF WatchInv, MoveStock
<1>3. CASE UNCHANGED vars
  BY <1>3 DEF WatchInv, vars
<1> QED
  BY <1>1, <1>2, <1>3 DEF Next

\* What all steps preserve together.
PromiseInv == ShapeInv /\ LinesInv /\ KnowInv /\ WatchInv

\* However requests overlap, fail or stop, what is known stays known.
THEOREM PromiseInvariant == Spec => []PromiseInv
<1>1. Init => PromiseInv
  <2>1. Init => KnowInv
    BY DEF Init, KnowInv
  <2>2. Init => WatchInv
    BY DEF Init, WatchInv, Watches
  <2> QED
    BY <2>1, <2>2, ShapeInit, LinesInit DEF PromiseInv
<1>2. PromiseInv /\ [Next]_vars => PromiseInv'
  BY ShapeStep, LinesStep, KnowStep, WatchStep DEF PromiseInv
<1> QED
  BY <1>1, <1>2, PTL DEF Spec

\* Whatever others do meanwhile, a count has subtracted all that was reserved
\* when it read the stock and has not been written since; undisturbed, it is exact.
THEOREM CountsMissNothing == Spec => []CountMissesNothing
<1>1. ASSUME PromiseInv, NEW r \in Requests, Counted(r)
      PROVE  work[r].free <= history.seen[r]
               - Sum(UNION {LinesAt(lines[v], At[work[r].line]) : v \in history.steady[r]})
  <2> DEFINE kept == UNION {LinesAt(lines[v], At[work[r].line]) : v \in history.steady[r]}
  <2>1. Watches(rows, lines, history.seen[r], history.steady[r], work[r], pc[r])
    BY <1>1 DEF PromiseInv, WatchInv
  <2>2. pc[r] = "count" /\ work[r].found = {}
    BY <1>1 DEF Counted
  <2>3. history \in Histories /\ lines \in [Reservations -> SUBSET Lines]
    BY <1>1, TablesKept DEF PromiseInv, ShapeInv, TablesTyped
  <2>4. history.steady[r] \in SUBSET Reservations
    BY <2>3 DEF Histories
  <2>5. kept = ActiveOn(rows, lines, At[work[r].line], history.steady[r])
    BY <2>1, <2>3, <2>4 DEF Watches, ActiveOn, LinesAt
  <2>6. history.steady[r] \ work[r].found = history.steady[r]
    BY <2>2
  <2>7. work[r].free <= history.seen[r]
          - Sum(ActiveOn(rows, lines, At[work[r].line], history.steady[r]))
    BY <2>1, <2>2, <2>6 DEF Watches
  <2> HIDE DEF kept
  <2>8. work[r].free <= history.seen[r] - Sum(kept)
    BY <2>5, <2>7
  <2> QED
    BY <2>8 DEF kept
<1>2. ASSUME PromiseInv, NEW r \in history.current, Counted(r)
      PROVE  work[r].free = onHand[At[work[r].line]] - Promised(At[work[r].line])
  <2>1. Knows(onHand, rows, lines, history.held, work[r], pc[r])
    BY <1>2 DEF PromiseInv, KnowInv
  <2>2. pc[r] = "count" /\ work[r].found = {}
    BY <1>2 DEF Counted
  <2>3. Reservations \ work[r].found = Reservations
    BY <2>2
  <2>4. work[r].free = Left(onHand, rows, lines, At[work[r].line], Reservations)
    BY <2>1, <2>2, <2>3 DEF Knows
  <2>5. Promised(At[work[r].line])
          = Sum(ActiveOn(rows, lines, At[work[r].line], Reservations))
    BY <1>2, PromisedIs DEF PromiseInv
  <2> QED
    BY <2>4, <2>5, Zenon DEF Left
<1>3. PromiseInv => CountMissesNothing
  BY <1>1, <1>2, Zenon DEF CountMissesNothing
<1> QED
  BY <1>3, PromiseInvariant, PTL

\* One new line adds no more than its quantity.
LEMMA OneLineMore ==
  ASSUME NEW S \in SUBSET Lines, NEW l \in Lines, NEW T \in SUBSET (S \cup {l})
  PROVE  Sum(T) <= Quantity[l] + Sum(S)
<1>1. /\ Sum(S) \in Nat /\ Sum(S \ {l}) \in Nat /\ Sum(T) \in Nat
      /\ Sum(S \cup {l}) \in Nat /\ Sum({l}) = Quantity[l] /\ Sum({l}) \in Nat
  BY SumFacts
<1>2. Sum(T) <= Sum(S \cup {l})
  BY SumMonotone
<1>3. Sum(S \cup {l}) = Sum(S \ {l}) + Sum({l})
  <2>1. (S \ {l}) \cap {l} = {} /\ (S \ {l}) \cup {l} = S \cup {l}
    OBVIOUS
  <2> QED
    BY <2>1, SumDisjoint
<1>4. Sum(S \ {l}) <= Sum(S)
  BY SumMonotone
<1> QED
  BY <1>1, <1>2, <1>3, <1>4

\* A step changes a header or stores a line only as the write of one request.
LEMMA StepsWriteOnce ==
  ASSUME ShapeInv, [Next]_vars
  PROVE  \/ rows' = rows /\ history'.held = history.held
         \/ \E r \in Requests :
              /\ \/ SaveHeader(r) \/ EraseLines(r) \/ DeleteRow(r)
                 \/ \E l \in Lines : InsertLine(r, l)
              /\ ~history'.stale => r \in history.current
<1>1. ASSUME NEW r \in Requests, Step(r)
      PROVE  \/ Reads(r)
             \/ /\ \/ SaveHeader(r) \/ EraseLines(r) \/ DeleteRow(r)
                   \/ \E l \in Lines : InsertLine(r, l)
                /\ ~history'.stale => r \in history.current
  <2>1. ASSUME SaveHeader(r) \/ EraseLines(r) \/ DeleteRow(r)
        PROVE  ~history'.stale => r \in history.current
    BY <2>1, WritingIs DEF SaveHeader, EraseLines, DeleteRow
  <2>2. ASSUME NEW l \in Lines, InsertLine(r, l)
        PROVE  ~history'.stale => r \in history.current
    BY <2>2, WritingIs DEF InsertLine
  <2> QED
    BY <1>1, <2>1, <2>2, ReadingSteps DEF Step
<1>2. ASSUME NEW p \in Pairs, NEW n \in Stock[p], MoveStock(p, n)
      PROVE  rows' = rows /\ history'.held = history.held
  <2>1. history \in Histories
    BY TablesKept DEF ShapeInv, TablesTyped
  <2> QED
    BY <1>2, <2>1 DEF MoveStock, Histories
<1>3. CASE UNCHANGED vars
  BY <1>3 DEF vars
<1> QED
  BY <1>1, <1>2, <1>3 DEF Next, Reads

\* As long as no request writes on an overtaken copy or count, and none asks for
\* two lines of one pair, a line stored for the first time is backed by stock.
THEOREM PromisesAreBacked == Spec => NewPromisesAreBacked
<1>1. ASSUME PromiseInv, PromiseInv', [Next]_vars, ~history'.stale, NoDoubles',
             NEW l \in history'.held \ history.held
      PROVE  Promised(At[l])' <= onHand[At[l]]
  <2>1. PICK r \in Requests :
          /\ \/ SaveHeader(r) \/ EraseLines(r) \/ DeleteRow(r)
             \/ \E k \in Lines : InsertLine(r, k)
          /\ r \in history.current
    BY <1>1, StepsWriteOnce DEF PromiseInv
  <2>2. ~(SaveHeader(r) \/ EraseLines(r) \/ DeleteRow(r))
    <3>1. ASSUME SaveHeader(r) \/ EraseLines(r) \/ DeleteRow(r)
          PROVE  history'.held = history.held \cup {}
      BY <1>1, <3>1, WritingIs DEF SaveHeader, EraseLines, DeleteRow, PromiseInv
    <3> QED
      BY <1>1, <3>1
  <2>3. PICK k \in Lines : InsertLine(r, k)
    BY <2>1, <2>2
  <2>4. l = k
    BY <1>1, <2>3, WritingIs DEF InsertLine, PromiseInv
  <2>5. TypeOK /\ Shape(work[r], pc[r])
    BY <1>1 DEF PromiseInv, ShapeInv
  <2>6. PICK w \in Works : w = work[r]
    BY <2>5 DEF Shape
  <2>7. /\ pc[r] = "insert" /\ w.id \in Reservations /\ l \in w.todo /\ l \in w.lines
        /\ rows' = rows /\ onHand' = onHand
        /\ lines' = [lines EXCEPT ![w.id] = @ \cup {l}]
    BY <2>3, <2>4, <2>5, <2>6 DEF InsertLine, Shape
  <2>8. Fits(onHand, rows, lines, l, w.id)
    <3>1. Knows(onHand, rows, lines, history.held, work[r], pc[r])
      BY <1>1, <2>1 DEF PromiseInv, KnowInv
    <3> QED
      BY <1>1, <2>6, <2>7, <3>1 DEF Knows, Saving
  <2> DEFINE S == ActiveOn(rows, lines, At[l], Reservations \ {w.id})
  <2>9. PICK T : T = ActiveOn(rows', lines', At[l], Reservations)
    OBVIOUS
  <2>10. lines \in [Reservations -> SUBSET Lines]
    BY <2>5 DEF TypeOK
  <2>11. \A m \in lines'[w.id] : At[m] = At[l] => m = l
    <3>1. OnePerPair(lines'[w.id])
      BY <1>1, <2>7 DEF NoDoubles
    <3> QED
      BY <2>7, <2>10, <3>1 DEF OnePerPair
  <2>12. T \subseteq S \cup {l}
    BY <2>7, <2>9, <2>10, <2>11 DEF ActiveOn
  <2>13. S \in SUBSET Lines /\ Sum(S) \in Nat
    BY ActiveOnFacts
  <2>14. Sum(T) <= Quantity[l] + Sum(S)
    BY <2>3, <2>4, <2>12, <2>13, OneLineMore
  <2>15. Quantity[l] + Sum(S) <= onHand[At[l]]
    BY <2>8 DEF Fits
  <2>16. Promised(At[l])' = Sum(T)
    <3>1. lines' \in [Reservations -> SUBSET Lines]
      BY <1>1 DEF PromiseInv, ShapeInv, TypeOK
    <3> QED
      BY <2>9, <3>1, HeldIs, Zenon DEF Promised, Held
  <2>17. /\ Sum(T) \in Nat /\ Quantity[l] \in Nat /\ onHand[At[l]] \in Int
    BY <2>3, <2>4, <2>5, <2>9, ActiveOnFacts, LinesAssumption DEF TypeOK
  <2> HIDE DEF S
  <2> QED
    BY <2>13, <2>14, <2>15, <2>16, <2>17
<1>2. PromiseInv /\ PromiseInv' /\ [Next]_vars =>
        [~history'.stale /\ NoDoubles' => \A l \in history'.held \ history.held :
           Promised(At[l])' <= onHand[At[l]]]_vars
  BY <1>1
<1> QED
  BY <1>2, PromiseInvariant, PTL DEF Spec, NewPromisesAreBacked

\* What is fulfilled or released stays so, and what is cancelled is revived by
\* nobody, as long as no request writes on an overtaken copy.
THEOREM DoneStays == Spec => DoneStaysDone
<1>1. ASSUME PromiseInv, [Next]_vars, ~history'.stale, NEW v \in Reservations
      PROVE  /\ rows[v] \in {"FULFILLED", "RELEASED"} => rows'[v] = rows[v]
             /\ rows[v] = "CANCELLED" => rows'[v] \in {"CANCELLED", NoRow}
  <2>1. CASE rows' = rows
    BY <2>1
  <2>2. ASSUME NEW r \in Requests, r \in history.current,
               SaveHeader(r) \/ DeleteRow(r)
        PROVE  /\ rows[v] \in {"FULFILLED", "RELEASED"} => rows'[v] = rows[v]
               /\ rows[v] = "CANCELLED" => rows'[v] \in {"CANCELLED", NoRow}
    <3>1. Knows(onHand, rows, lines, history.held, work[r], pc[r])
      BY <1>1, <2>2 DEF PromiseInv, KnowInv
    <3>2. rows \in [Reservations -> Statuses \cup {NoRow}]
      BY <1>1 DEF PromiseInv, ShapeInv, TypeOK
    <3>3. CASE SaveHeader(r)
      <4>1. /\ rows[work[r].id] \in {NoRow, "DRAFT", "ACTIVE", "EXPIRED"}
            /\ rows' = [rows EXCEPT ![work[r].id] = work[r].status]
        BY <3>1, <3>3 DEF Knows, SaveHeader
      <4> QED
        BY <3>2, <4>1, NoRowAssumption DEF Statuses
    <3>4. CASE DeleteRow(r)
      <4>1. /\ rows[work[r].id] \notin {"FULFILLED", "RELEASED"}
            /\ rows' = [rows EXCEPT ![work[r].id] = NoRow]
        BY <3>1, <3>4 DEF Knows, DeleteRow
      <4> QED
        BY <3>2, <4>1
    <3> QED
      BY <2>2, <3>3, <3>4
  <2>3. ASSUME NEW r \in Requests, EraseLines(r) \/ \E l \in Lines : InsertLine(r, l)
        PROVE  rows' = rows
    BY <2>3 DEF EraseLines, InsertLine
  <2> QED
    BY <1>1, <2>1, <2>2, <2>3, StepsWriteOnce DEF PromiseInv
<1>2. PromiseInv /\ [Next]_vars =>
        [~history'.stale => \A v \in Reservations :
           /\ rows[v] \in {"FULFILLED", "RELEASED"} => rows'[v] = rows[v]
           /\ rows[v] = "CANCELLED" => rows'[v] \in {"CANCELLED", NoRow}]_vars
  BY <1>1
<1> QED
  BY <1>2, PromiseInvariant, PTL DEF Spec, DoneStaysDone

-----------------------------------------------------------------------------
(* The alerts: types. *)

Typed ==
  /\ projected \in Quantities \cup {NoStock}
  /\ reserved \in Reserved
  /\ threshold \in Thresholds
  /\ inScope \in BOOLEAN
  /\ open \in [Types -> BOOLEAN]
  /\ opened \in [Types -> Nat]
  /\ notices \in [Types \cup {"STOCK_RECOVERED"} -> Nat]
  /\ events \in 0 .. MaxEvents

\* What a step of run e does to the program counters and the copies.
CopyStep(e, c, label) ==
  /\ c \in Copies
  /\ label \in Labels
  /\ copy' = [copy EXCEPT ![e] = c]
  /\ stage' = [stage EXCEPT ![e] = label]

Others(e) == \A f \in Runs \ {e} : stage'[f] = stage[f] /\ copy'[f] = copy[f]

LEMMA UnreadTyped == Unread \in Copies
  BY DEF Unread, Copies, Types

LEMMA TypeParts ==
  ASSUME AlertTypeOK
  PROVE  /\ Typed
         /\ stage \in [Runs -> Labels]
         /\ copy \in [Runs -> Copies]
         /\ \A e \in Runs : copy[e] \in Copies
  BY DEF AlertTypeOK, Typed

LEMMA CopyStepTyped ==
  ASSUME AlertTypeOK, NEW e \in Runs, NEW c, NEW label, CopyStep(e, c, label), Typed'
  PROVE  /\ AlertTypeOK'
         /\ Others(e)
         /\ stage'[e] = label /\ copy'[e] = c
<1>1. stage \in [Runs -> Labels] /\ copy \in [Runs -> Copies]
  BY TypeParts
<1>2. stage' \in [Runs -> Labels] /\ copy' \in [Runs -> Copies]
  BY <1>1 DEF CopyStep
<1>3. Others(e) /\ stage'[e] = label /\ copy'[e] = c
  BY <1>1 DEF CopyStep, Others
<1> QED
  BY <1>2, <1>3 DEF AlertTypeOK, Typed

LEMMA DesiredTyped ==
  ASSUME NEW q, NEW held, NEW point
  PROVE  DesiredType(q, held, point) \in Types \cup {"none"}
  BY DEF DesiredType, Types

LEMMA ConcludedTyped ==
  ASSUME NEW read
  PROVE  Concluded(read) \in Copies
<1> DEFINE q == IF read.onHand = NoStock THEN 0 ELSE read.onHand
           w == DesiredType(q, read.reserved, read.threshold)
           b == read.onHand # NoStock \/ read.reserved > 0
<1>1. w \in Types \cup {"none"}
  BY DesiredTyped
<1>2. b \in BOOLEAN
  OBVIOUS
<1>3. Concluded(read) = [Unread EXCEPT !.wanted = w, !.stocked = b]
  BY DEF Concluded
<1> HIDE DEF w, b
<1>4. [Unread EXCEPT !.wanted = w] \in Copies
  BY <1>1, UnreadTyped DEF Copies
<1>5. ASSUME NEW c \in Copies
      PROVE  [c EXCEPT !.stocked = b] \in Copies
  BY <1>2 DEF Copies
<1>6. [Unread EXCEPT !.wanted = w, !.stocked = b] =
        [[Unread EXCEPT !.wanted = w] EXCEPT !.stocked = b]
  OBVIOUS
<1> QED
  BY <1>3, <1>4, <1>5, <1>6

\* Closing rows keeps the type of the table.
LEMMA CloseTyped ==
  ASSUME Typed, NEW types, Close(types)
  PROVE  /\ open' \in [Types -> BOOLEAN]
         /\ opened' = opened
         /\ \A t \in Types : open'[t] <=> open[t] /\ t \notin types
  BY DEF Typed, Close

-----------------------------------------------------------------------------
(* Accounting. *)

Recovery == "STOCK_RECOVERED"

\* The runs that are about to announce n.
Pending(n) ==
  {e \in Runs : stage[e] \in {"closeOther", "notify"} /\ copy[e].notice = n}

IsOpen(t) == IF open[t] THEN 1 ELSE 0

\* How many alerts have been closed.
Closed ==
  opened["LOW_STOCK"] - IsOpen("LOW_STOCK")
    + opened["OUT_OF_STOCK"] - IsOpen("OUT_OF_STOCK")

Accounted ==
  /\ \A t \in Types : /\ IsFiniteSet(Pending(t))
                      /\ notices[t] + Cardinality(Pending(t)) <= opened[t]
  /\ IsFiniteSet(Pending(Recovery))
  /\ notices[Recovery] + Cardinality(Pending(Recovery)) <= Closed

In(e, n) == IF e \in Pending(n) THEN 1 ELSE 0

\* A step of e adds no notice, sent or pending, that no row accounts for.
Balanced(e) ==
  /\ \A t \in Types :
       (notices'[t] + In(e, t)') - (notices[t] + In(e, t)) <= opened'[t] - opened[t]
  /\ (notices'[Recovery] + In(e, Recovery)') - (notices[Recovery] + In(e, Recovery))
       <= Closed' - Closed

Effect(e) == AlertTypeOK' /\ Others(e) /\ Balanced(e)

\* Only e joins or leaves the runs that are about to announce.
LEMMA PendingStep ==
  ASSUME NEW e \in Runs, Others(e), NEW n, IsFiniteSet(Pending(n))
  PROVE  /\ IsFiniteSet(Pending(n)')
         /\ Cardinality(Pending(n)') = Cardinality(Pending(n)) + In(e, n)' - In(e, n)
         /\ Cardinality(Pending(n)) \in Nat
<1> DEFINE S == Pending(n)
           T == Pending(n)'
<1>1. S \ {e} = T \ {e}
  BY DEF Others, Pending
<1>2. /\ In(e, n) = IF e \in S THEN 1 ELSE 0
      /\ In(e, n)' = IF e \in T THEN 1 ELSE 0
  BY DEF In
<1>3. IsFiniteSet(S)
  OBVIOUS
<1> HIDE DEF S, T
<1>4. IsFiniteSet(S \ {e}) /\ Cardinality(S) \in Nat /\ Cardinality(S \ {e}) \in Nat
  BY <1>3, FS_RemoveElement, FS_CardinalityType
<1>5. Cardinality(S) = Cardinality(S \ {e}) + (IF e \in S THEN 1 ELSE 0)
  BY <1>3, <1>4, FS_RemoveElement
<1>6. /\ IsFiniteSet(T)
      /\ Cardinality(T) = Cardinality(S \ {e}) + (IF e \in T THEN 1 ELSE 0)
  <2>1. CASE e \in T
    <3>1. T = (S \ {e}) \cup {e} /\ e \notin S \ {e}
      BY <1>1, <2>1
    <3> QED
      BY <1>4, <2>1, <3>1, FS_AddElement
  <2>2. CASE e \notin T
    <3>1. T = S \ {e}
      BY <1>1, <2>2
    <3> QED
      BY <1>4, <2>2, <3>1
  <2> QED
    BY <2>1, <2>2
<1> QED
  BY <1>2, <1>4, <1>5, <1>6 DEF S, T

LEMMA AccountedStep ==
  ASSUME AlertTypeOK, Accounted, NEW e \in Runs, Effect(e)
  PROVE  Accounted'
<1>t. /\ Recovery \in Types \cup {"STOCK_RECOVERED"}
      /\ "LOW_STOCK" \in Types /\ "OUT_OF_STOCK" \in Types
  BY DEF Recovery, Types
<1>1. /\ \A t \in Types : notices[t] \in Nat /\ notices'[t] \in Nat
                          /\ opened[t] \in Nat /\ opened'[t] \in Nat
      /\ notices[Recovery] \in Nat /\ notices'[Recovery] \in Nat
  BY <1>t DEF Effect, AlertTypeOK
<1>2. Closed \in Int /\ Closed' \in Int
  BY <1>1, <1>t DEF Closed, IsOpen
<1>3. \A n : /\ In(e, n) \in {0, 1} /\ In(e, n)' \in {0, 1}
  BY DEF In
<1>4. ASSUME NEW t \in Types
      PROVE  /\ IsFiniteSet(Pending(t)')
             /\ notices'[t] + Cardinality(Pending(t)') <= opened'[t]
  <2>1. IsFiniteSet(Pending(t)) /\ notices[t] + Cardinality(Pending(t)) <= opened[t]
    BY DEF Accounted
  <2>2. /\ IsFiniteSet(Pending(t)')
        /\ Cardinality(Pending(t)') = Cardinality(Pending(t)) + In(e, t)' - In(e, t)
        /\ Cardinality(Pending(t)) \in Nat
    BY <2>1, PendingStep DEF Effect
  <2>3. (notices'[t] + In(e, t)') - (notices[t] + In(e, t)) <= opened'[t] - opened[t]
    BY DEF Effect, Balanced
  <2> QED
    BY <1>1, <1>3, <2>1, <2>2, <2>3
<1>5. /\ IsFiniteSet(Pending(Recovery)')
      /\ notices'[Recovery] + Cardinality(Pending(Recovery)') <= Closed'
  <2>1. /\ IsFiniteSet(Pending(Recovery))
        /\ notices[Recovery] + Cardinality(Pending(Recovery)) <= Closed
    BY DEF Accounted
  <2>2. /\ IsFiniteSet(Pending(Recovery)')
        /\ Cardinality(Pending(Recovery)') =
             Cardinality(Pending(Recovery)) + In(e, Recovery)' - In(e, Recovery)
        /\ Cardinality(Pending(Recovery)) \in Nat
    BY <2>1, PendingStep DEF Effect
  <2>3. (notices'[Recovery] + In(e, Recovery)') - (notices[Recovery] + In(e, Recovery))
          <= Closed' - Closed
    BY DEF Effect, Balanced
  <2> QED
    BY <1>1, <1>2, <1>3, <2>1, <2>2, <2>3
<1> QED
  BY <1>4, <1>5 DEF Accounted, Recovery

-----------------------------------------------------------------------------
(* What a step does. *)

\* A step that announces nothing and opens nothing is balanced if it does not
\* make e one that is about to announce.
LEMMA NothingNew ==
  ASSUME AlertTypeOK, NEW e \in Runs, open' \in [Types -> BOOLEAN],
         notices' = notices, opened' = opened,
         \A t \in Types : open'[t] => open[t],
         \A n : In(e, n)' <= In(e, n)
  PROVE  Balanced(e)
<1>1. /\ "LOW_STOCK" \in Types /\ "OUT_OF_STOCK" \in Types
      /\ Recovery \in Types \cup {"STOCK_RECOVERED"}
  BY DEF Types, Recovery
<1>2. /\ \A t \in Types : opened[t] \in Nat /\ notices[t] \in Nat
      /\ notices[Recovery] \in Nat
  BY <1>1 DEF AlertTypeOK
<1>3. \A n : In(e, n) \in {0, 1} /\ In(e, n)' \in {0, 1}
  BY DEF In
<1>4. Closed <= Closed'
  BY <1>1, <1>2 DEF Closed, IsOpen
<1>5. Closed \in Int /\ Closed' \in Int
  BY <1>1, <1>2 DEF Closed, IsOpen
<1> QED
  BY <1>2, <1>3, <1>4, <1>5 DEF Balanced

\* A run elsewhere is not about to announce.
LEMMA Elsewhere ==
  ASSUME NEW e \in Runs
  PROVE  /\ stage[e] \notin {"closeOther", "notify"} => \A n : In(e, n) = 0
         /\ stage'[e] \notin {"closeOther", "notify"} => \A n : In(e, n)' = 0
         /\ \A n : In(e, n) \in {0, 1} /\ In(e, n)' \in {0, 1}
  BY DEF In, Pending

LEMMA ReadingEffects ==
  ASSUME AlertTypeOK, NEW e \in Runs
  PROVE  /\ Start(e) => Effect(e)
         /\ \A table \in {"onHand", "reserved"} : ReadStock(e, table) => Effect(e)
         /\ ReadAlerts(e) => Effect(e)
         /\ ReadScope(e) => Effect(e)
         /\ ReadCandidates(e) => Effect(e)
<1>t. /\ Typed /\ copy \in [Runs -> Copies] /\ stage \in [Runs -> Labels]
      /\ copy[e] \in Copies
  BY TypeParts
\* Such a step, from the copy and the label it leaves.
<1>s. ASSUME NEW c, NEW label \in Labels \ {"closeOther", "notify"},
             CopyStep(e, c, label), stage[e] \notin {"closeOther", "notify"},
             UNCHANGED <<world, alerts, notices, events>>
      PROVE  Effect(e)
  <2>1. Typed' /\ open' = open /\ opened' = opened /\ notices' = notices
    BY <1>s, <1>t DEF Typed, world, alerts
  <2>2. AlertTypeOK' /\ Others(e) /\ stage'[e] = label
    BY <1>s, <2>1, CopyStepTyped
  <2>3. \A n : In(e, n)' <= In(e, n)
    BY <1>s, <2>2, Elsewhere
  <2> QED
    BY <1>t, <2>1, <2>2, <2>3, NothingNew DEF Effect, Typed
<1>1. ASSUME Start(e)
      PROVE  Effect(e)
  <2> DEFINE c == [copy[e] EXCEPT !.threshold = threshold]
  <2>1. c \in Copies
    BY <1>t DEF Copies, Typed
  <2>2. CopyStep(e, c, "stock")
    BY <1>1, <1>t, <2>1 DEF Start, CopyStep, Proceed, Labels
  <2> HIDE DEF c
  <2> QED
    BY <1>1, <1>s, <2>2 DEF Start, Proceed, Labels
<1>2. ASSUME NEW table \in {"onHand", "reserved"}, ReadStock(e, table)
      PROVE  Effect(e)
  <2> DEFINE left == copy[e].toRead \ {table}
             hand == IF table = "onHand" THEN projected ELSE copy[e].onHand
             held == IF table = "reserved" THEN reserved ELSE copy[e].reserved
             read == [copy[e] EXCEPT !.toRead = left, !.onHand = hand,
                                     !.reserved = held]
             c == IF left = {} THEN Concluded(read) ELSE read
             label == IF left = {} THEN "alerts" ELSE "stock"
  <2>1. /\ left \in SUBSET {"onHand", "reserved"}
        /\ hand \in Quantities \cup {NoStock}
        /\ held \in Reserved \cup {0}
    BY <1>t DEF Copies, Typed
  <2>2. copy' = [copy EXCEPT ![e] = c] /\ stage' = [stage EXCEPT ![e] = label]
    BY <1>2, <1>t DEF ReadStock, Proceed, Copies
  <2>3. read \in Copies
    <3> HIDE DEF left, hand, held
    <3> QED
      BY <1>t, <2>1 DEF Copies
  <2>4. c \in Copies
    <3> HIDE DEF read, left
    <3> QED
      BY <2>3, ConcludedTyped
  <2>5. label \in Labels \ {"closeOther", "notify"}
    BY DEF Labels
  <2> HIDE DEF c, label
  <2>6. CopyStep(e, c, label)
    BY <2>2, <2>4, <2>5 DEF CopyStep
  <2> QED
    BY <1>2, <1>s, <2>5, <2>6 DEF ReadStock, Proceed
<1>3. ASSUME ReadAlerts(e)
      PROVE  Effect(e)
  <2> DEFINE active == [t \in Types |-> IF open[t] THEN opened[t] ELSE 0]
             c == [copy[e] EXCEPT !.alerts = active]
             label == IF \E t \in Types : open[t] THEN "scope" ELSE "candidates"
  <2>1. active \in [Types -> Nat]
    BY <1>t DEF Typed
  <2>2. copy' = [copy EXCEPT ![e] = c] /\ stage' = [stage EXCEPT ![e] = label]
    BY <1>3, <1>t DEF ReadAlerts, Proceed
  <2>3. c \in Copies
    <3> HIDE DEF active
    <3> QED
      BY <1>t, <2>1 DEF Copies
  <2>4. label \in Labels \ {"closeOther", "notify"}
    BY DEF Labels
  <2> HIDE DEF c, label
  <2>5. CopyStep(e, c, label)
    BY <2>2, <2>3, <2>4 DEF CopyStep
  <2> QED
    BY <1>3, <1>s, <2>4, <2>5 DEF ReadAlerts, Proceed
<1>4. ASSUME ReadScope(e)
      PROVE  Effect(e)
  <2> DEFINE label == IF inScope THEN "candidates" ELSE "closeAll"
  <2>1. copy' = [copy EXCEPT ![e] = copy[e]] /\ stage' = [stage EXCEPT ![e] = label]
    BY <1>4, <1>t DEF ReadScope, Proceed
  <2>2. label \in Labels \ {"closeOther", "notify"}
    BY DEF Labels
  <2> HIDE DEF label
  <2>3. CopyStep(e, copy[e], label)
    BY <1>t, <2>1, <2>2 DEF CopyStep
  <2> QED
    BY <1>4, <1>s, <2>2, <2>3 DEF ReadScope, Proceed
<1>5. ASSUME ReadCandidates(e)
      PROVE  Effect(e)
  <2>1. \/ copy' = [copy EXCEPT ![e] = copy[e]] /\ stage' = [stage EXCEPT ![e] = "treat"]
        \/ copy' = [copy EXCEPT ![e] = Unread] /\ stage' = [stage EXCEPT ![e] = "idle"]
    BY <1>5, <1>t DEF ReadCandidates, Proceed, Done
  <2>2. CopyStep(e, copy[e], "treat") \/ CopyStep(e, Unread, "idle")
    BY <1>t, <2>1, UnreadTyped DEF CopyStep, Labels
  <2>3. /\ stage[e] = "candidates"
        /\ UNCHANGED <<world, alerts, notices, events>>
    BY <1>5 DEF ReadCandidates, Proceed, Done
  <2>4. "treat" \in Labels /\ "idle" \in Labels
    BY DEF Labels
  <2> QED
    BY <1>s, <2>2, <2>3, <2>4
<1> QED
  BY <1>1, <1>2, <1>3, <1>4, <1>5

\* Closing alerts that were open, and announcing that.
LEMMA ClosedGrows ==
  ASSUME AlertTypeOK, NEW types \in SUBSET Types, types # {}, \A t \in types : open[t],
         Close(types)
  PROVE  Closed' >= Closed + 1 /\ Closed \in Int /\ Closed' \in Int
<1>1. /\ "LOW_STOCK" \in Types /\ "OUT_OF_STOCK" \in Types
      /\ \A t \in Types : t = "LOW_STOCK" \/ t = "OUT_OF_STOCK"
  BY DEF Types
<1>2. /\ opened' = opened
      /\ \A t \in Types : open'[t] <=> open[t] /\ t \notin types
  BY CloseTyped, TypeParts
<1>3. \A t \in Types : opened[t] \in Nat
  BY DEF AlertTypeOK
<1>4. \/ "LOW_STOCK" \in types
      \/ "OUT_OF_STOCK" \in types
  BY <1>1
<1>5. \A t \in Types : /\ IsOpen(t) \in {0, 1} /\ IsOpen(t)' \in {0, 1}
                       /\ IsOpen(t)' <= IsOpen(t)
                       /\ t \in types => IsOpen(t) = 1 /\ IsOpen(t)' = 0
  BY <1>2 DEF IsOpen
<1> QED
  BY <1>1, <1>2, <1>3, <1>4, <1>5 DEF Closed

LEMMA ClosingIsOpen ==
  ASSUME NEW e \in Runs, NEW types \in SUBSET Types
  PROVE  Closing(e, types) \in SUBSET Types /\ \A t \in Closing(e, types) : open[t]
  BY DEF Closing

LEMMA ClosingEffects ==
  ASSUME AlertTypeOK, NEW e \in Runs
  PROVE  /\ CloseOutOfScope(e) => Effect(e)
         /\ Recover(e) => Effect(e)
         /\ CloseOther(e) => Effect(e)
<1>t. /\ Typed /\ copy \in [Runs -> Copies] /\ stage \in [Runs -> Labels]
      /\ copy[e] \in Copies
  BY TypeParts
\* Closing rows without a new announcement.
<1>s. ASSUME NEW c, NEW label, CopyStep(e, c, label),
             NEW types, Close(types),
             UNCHANGED <<world, notices, events>>,
             \A n : In(e, n)' <= In(e, n)
      PROVE  Effect(e)
  <2>1. /\ open' \in [Types -> BOOLEAN] /\ opened' = opened
        /\ \A t \in Types : open'[t] => open[t]
    BY <1>s, <1>t, CloseTyped
  <2>2. Typed' /\ notices' = notices
    BY <1>s, <1>t, <2>1 DEF Typed, world
  <2>3. AlertTypeOK' /\ Others(e)
    BY <1>s, <2>2, CopyStepTyped
  <2> QED
    BY <1>s, <2>1, <2>2, <2>3, NothingNew DEF Effect
<1>1. ASSUME CloseOutOfScope(e)
      PROVE  Effect(e)
  <2> DEFINE left == [t \in Types |-> IF t \in Closing(e, Types) THEN 0
                                      ELSE copy[e].alerts[t]]
             c == [copy[e] EXCEPT !.alerts = left]
  <2>1. left \in [Types -> Nat]
    BY <1>t DEF Copies
  <2>2. copy' = [copy EXCEPT ![e] = c] /\ stage' = [stage EXCEPT ![e] = "candidates"]
    BY <1>1, <1>t DEF CloseOutOfScope, Proceed
  <2>3. c \in Copies
    <3> HIDE DEF left
    <3> QED
      BY <1>t, <2>1 DEF Copies
  <2> HIDE DEF c
  <2>4. CopyStep(e, c, "candidates")
    BY <2>2, <2>3 DEF CopyStep, Labels
  <2>5. stage'[e] = "candidates"
    BY <1>t, <2>2
  <2> QED
    BY <1>1, <1>s, <2>4, <2>5, Elsewhere DEF CloseOutOfScope, Proceed
<1>2. ASSUME Recover(e)
      PROVE  Effect(e)
  <2> DEFINE types == Closing(e, Types)
  <2>1. types \in SUBSET Types /\ (\A t \in types : open[t]) /\ Close(types)
    BY <1>2, ClosingIsOpen DEF Recover
  <2>2. /\ stage[e] = "treat"
        /\ UNCHANGED <<world, notices, events>>
        /\ IF types = {}
           THEN copy' = [copy EXCEPT ![e] = Unread] /\ stage' = [stage EXCEPT ![e] = "idle"]
           ELSE /\ copy' = [copy EXCEPT ![e].notice = "STOCK_RECOVERED"]
                /\ stage' = [stage EXCEPT ![e] = "notify"]
    BY <1>2 DEF Recover, Done, Proceed
  <2> HIDE DEF types
  <2>3. CASE types = {}
    <3>1. CopyStep(e, Unread, "idle")
      BY <2>2, <2>3, UnreadTyped DEF CopyStep, Labels
    <3>2. stage'[e] = "idle"
      BY <1>t, <2>2, <2>3
    <3> QED
      BY <1>s, <2>1, <2>2, <3>1, <3>2, Elsewhere
  <2>4. CASE types # {}
    <3> DEFINE c == [copy[e] EXCEPT !.notice = "STOCK_RECOVERED"]
    <3>1. c \in Copies /\ c.notice = Recovery
      BY <1>t DEF Copies, Recovery
    <3>2. copy' = [copy EXCEPT ![e] = c] /\ stage' = [stage EXCEPT ![e] = "notify"]
      BY <1>t, <2>2, <2>4
    <3> HIDE DEF c
    <3>3. CopyStep(e, c, "notify")
      BY <3>1, <3>2 DEF CopyStep, Labels
    <3>4. /\ open' \in [Types -> BOOLEAN] /\ opened' = opened
          /\ notices' = notices
      BY <1>t, <2>1, <2>2, CloseTyped
    <3>5. Typed'
      BY <1>t, <2>2, <3>4 DEF Typed, world
    <3>6. AlertTypeOK' /\ Others(e) /\ stage'[e] = "notify" /\ copy'[e] = c
      BY <3>3, <3>5, CopyStepTyped
    <3>7. /\ \A n : In(e, n) = 0
          /\ \A n : In(e, n)' = IF n = Recovery THEN 1 ELSE 0
      BY <2>2, <3>1, <3>6 DEF In, Pending
    <3>8. Closed' >= Closed + 1 /\ Closed \in Int /\ Closed' \in Int
      BY <2>1, <2>4, ClosedGrows
    <3>9. /\ \A t \in Types : notices[t] \in Nat /\ opened[t] \in Nat /\ t # Recovery
          /\ notices[Recovery] \in Nat
      BY DEF AlertTypeOK, Types, Recovery
    <3> QED
      BY <3>4, <3>6, <3>7, <3>8, <3>9 DEF Effect, Balanced
  <2> QED
    BY <2>3, <2>4
<1>3. ASSUME CloseOther(e)
      PROVE  Effect(e)
  <2>1. /\ stage[e] = "closeOther"
        /\ copy' = [copy EXCEPT ![e] = copy[e]] /\ copy' = copy
        /\ stage' = [stage EXCEPT ![e] = "notify"]
    BY <1>3, <1>t DEF CloseOther, Proceed
  <2>2. CopyStep(e, copy[e], "notify")
    BY <1>t, <2>1 DEF CopyStep, Labels
  <2>3. \A n : In(e, n)' <= In(e, n)
    <3>1. stage'[e] = "notify" /\ copy'[e] = copy[e]
      BY <1>t, <2>1
    <3> QED
      BY <2>1, <3>1 DEF In, Pending
  <2> QED
    BY <1>3, <1>s, <2>2, <2>3 DEF CloseOther, Proceed
<1> QED
  BY <1>1, <1>2, <1>3

\* Opening, and the end of a run.
LEMMA OpeningEffects ==
  ASSUME AlertTypeOK, NEW e \in Runs
  PROVE  /\ Refresh(e) => Effect(e)
         /\ Open(e) => Effect(e)
         /\ Notify(e) => Effect(e)
         /\ Fail(e) => Effect(e)
<1>t. /\ Typed /\ copy \in [Runs -> Copies] /\ stage \in [Runs -> Labels]
      /\ copy[e] \in Copies /\ copy[e].wanted \in Types \cup {"none"}
  BY TypeParts DEF Copies
<1>i. ASSUME copy' = [copy EXCEPT ![e] = Unread], stage' = [stage EXCEPT ![e] = "idle"]
      PROVE  /\ CopyStep(e, Unread, "idle")
             /\ stage'[e] = "idle"
             /\ \A n : In(e, n)' = 0
             /\ \A n : In(e, n)' <= In(e, n)
  BY <1>i, <1>t, UnreadTyped, Elsewhere DEF CopyStep, Labels
\* A run that ends and changes no row.
<1>s. ASSUME copy' = [copy EXCEPT ![e] = Unread], stage' = [stage EXCEPT ![e] = "idle"],
             UNCHANGED <<world, alerts, notices>>, events' \in 0 .. MaxEvents
      PROVE  Effect(e)
  <2>1. Typed' /\ open' = open /\ opened' = opened /\ notices' = notices
    BY <1>s, <1>t DEF Typed, world, alerts
  <2>2. CopyStep(e, Unread, "idle") /\ \A n : In(e, n)' <= In(e, n)
    BY <1>s, <1>i
  <2>3. AlertTypeOK' /\ Others(e)
    BY <2>1, <2>2, CopyStepTyped
  <2> QED
    BY <1>t, <2>1, <2>2, <2>3, NothingNew DEF Effect, Typed
<1>1. ASSUME Refresh(e)
      PROVE  Effect(e)
  BY <1>1, <1>s, <1>t DEF Refresh, Done, Proceed, Typed
<1>2. ASSUME Fail(e)
      PROVE  Effect(e)
  <2>1. events' \in 0 .. MaxEvents
    BY <1>2, <1>t, BoundAssumption DEF Fail, Event, Typed
  <2> QED
    BY <1>2, <1>s, <2>1 DEF Fail
<1>3. ASSUME Open(e)
      PROVE  Effect(e)
  <2> DEFINE t == copy[e].wanted
  <2>1. stage[e] = "treat" /\ t \in Types /\ UNCHANGED <<world, notices>>
    BY <1>3, <1>t DEF Open
  <2>2. CASE open[t]
    BY <1>3, <1>s, <1>t, <2>2 DEF Open, Done, Proceed, Typed
  <2>3. CASE ~open[t]
    <3> DEFINE c == [copy[e] EXCEPT !.notice = t]
               label == IF HasAlert(e) THEN "closeOther" ELSE "notify"
    <3>1. /\ open' = [open EXCEPT ![t] = TRUE]
          /\ opened' = [opened EXCEPT ![t] = @ + 1]
          /\ copy' = [copy EXCEPT ![e] = c]
          /\ stage' = [stage EXCEPT ![e] = label]
          /\ events' = events
      BY <1>3, <1>t, <2>3 DEF Open, Proceed
    <3>2. label \in {"closeOther", "notify"} /\ label \in Labels
      BY DEF Labels
    <3> HIDE DEF label
    <3>3. c \in Copies /\ c.notice = t
      BY <1>t, <2>1 DEF Copies
    <3> HIDE DEF c, t
    <3>4. CopyStep(e, c, label)
      BY <3>1, <3>2, <3>3 DEF CopyStep
    <3>5. Typed'
      BY <1>t, <2>1, <3>1 DEF Typed, world
    <3>6. AlertTypeOK' /\ Others(e) /\ stage'[e] = label /\ copy'[e] = c
      BY <3>4, <3>5, CopyStepTyped
    <3>7. /\ \A n : In(e, n) = 0
          /\ \A n : In(e, n)' = IF n = t THEN 1 ELSE 0
      BY <2>1, <3>2, <3>3, <3>6 DEF In, Pending
    <3>8. /\ \A u \in Types : notices[u] \in Nat /\ opened[u] \in Nat /\ u # Recovery
          /\ notices[Recovery] \in Nat
          /\ notices' = notices
          /\ "LOW_STOCK" \in Types /\ "OUT_OF_STOCK" \in Types
          /\ "LOW_STOCK" # "OUT_OF_STOCK"
          /\ t = "LOW_STOCK" \/ t = "OUT_OF_STOCK"
      BY <2>1 DEF AlertTypeOK, Types, Recovery
    <3>9. /\ \A u \in Types : opened'[u] = opened[u] + (IF u = t THEN 1 ELSE 0)
          /\ \A u \in Types : IsOpen(u)' = IsOpen(u) + (IF u = t THEN 1 ELSE 0)
          /\ \A u \in Types : IsOpen(u) \in {0, 1}
      BY <1>t, <2>1, <2>3, <3>1 DEF IsOpen, Typed, t
    <3>10. Closed' = Closed /\ Closed \in Int
      BY <3>8, <3>9 DEF Closed
    <3>11. \A u \in Types :
             (notices'[u] + In(e, u)') - (notices[u] + In(e, u)) <= opened'[u] - opened[u]
      BY <3>7, <3>8, <3>9
    <3>12. (notices'[Recovery] + In(e, Recovery)') -
             (notices[Recovery] + In(e, Recovery)) <= Closed' - Closed
      BY <2>1, <3>7, <3>8, <3>10
    <3> QED
      BY <3>6, <3>11, <3>12 DEF Effect, Balanced
  <2> QED
    BY <2>2, <2>3
<1>4. ASSUME Notify(e)
      PROVE  Effect(e)
  <2> DEFINE n == copy[e].notice
  <2>1. /\ stage[e] = "notify"
        /\ notices' = [notices EXCEPT ![n] = @ + 1]
        /\ copy' = [copy EXCEPT ![e] = Unread] /\ stage' = [stage EXCEPT ![e] = "idle"]
        /\ UNCHANGED <<world, alerts, events>>
    BY <1>4 DEF Notify, Done, Proceed
  <2> HIDE DEF n
  <2>2. CopyStep(e, Unread, "idle") /\ \A k : In(e, k)' = 0
    BY <1>i, <2>1
  <2>3. notices' \in [Types \cup {"STOCK_RECOVERED"} -> Nat]
    <3> DEFINE D == Types \cup {"STOCK_RECOVERED"}
    <3>1. notices \in [D -> Nat]
      BY <1>t DEF Typed
    <3> HIDE DEF D
    <3>2. notices' = [k \in D |-> IF k = n THEN notices[k] + 1 ELSE notices[k]]
      BY <2>1, <3>1
    <3>3. notices' \in [D -> Nat]
      BY <3>1, <3>2
    <3> QED
      BY <3>3 DEF D
  <2>4. Typed' /\ open' = open /\ opened' = opened
    BY <1>t, <2>1, <2>3 DEF Typed, world, alerts
  <2>5. AlertTypeOK' /\ Others(e)
    BY <2>2, <2>4, CopyStepTyped
  <2>6. \A k : In(e, k) = IF k = n THEN 1 ELSE 0
    BY <2>1 DEF In, Pending, n
  <2>7. \A k \in Types \cup {"STOCK_RECOVERED"} :
          /\ notices[k] \in Nat
          /\ notices'[k] = notices[k] + (IF k = n THEN 1 ELSE 0)
    BY <1>t, <2>1 DEF Typed
  <2>8. \A k \in Types \cup {"STOCK_RECOVERED"} :
          (notices'[k] + In(e, k)') - (notices[k] + In(e, k)) = 0
    BY <2>2, <2>6, <2>7
  <2>9. Closed' = Closed /\ Closed \in Int /\ \A t \in Types : opened[t] \in Nat
    BY <1>t, <2>4 DEF Closed, IsOpen, Typed, Types
  <2> QED
    BY <2>4, <2>5, <2>8, <2>9 DEF Effect, Balanced, Recovery
<1> QED
  BY <1>1, <1>2, <1>3, <1>4

LEMMA RunEffect ==
  ASSUME AlertTypeOK, NEW e \in Runs, Start(e) \/ Continue(e) \/ Fail(e)
  PROVE  Effect(e)
  BY ReadingEffects, ClosingEffects, OpeningEffects DEF Continue

\* Nothing outside the runs touches alerts or notices.
LEMMA SurroundingsStep ==
  ASSUME AlertTypeOK, Surroundings
  PROVE  /\ AlertTypeOK'
         /\ UNCHANGED <<alerts, notices, stage, copy>>
<1>1. events' \in 0 .. MaxEvents /\ UNCHANGED <<alerts, notices, stage, copy>>
  BY BoundAssumption DEF Surroundings, Project, DropProjection, Reserve, SetThreshold,
                         Rescope, Change, Event, AlertTypeOK
<1>2. /\ projected' \in Quantities \cup {NoStock}
      /\ reserved' \in Reserved
      /\ threshold' \in Thresholds
  BY DEF Surroundings, Project, DropProjection, Reserve, SetThreshold, Rescope, AlertTypeOK
<1>3. inScope' \in BOOLEAN
  BY DEF Surroundings, Project, DropProjection, Reserve, SetThreshold, Rescope, AlertTypeOK
<1> QED
  BY <1>1, <1>2, <1>3 DEF AlertTypeOK, alerts

-----------------------------------------------------------------------------
(* The theorems. *)

LEMMA InitInv == AlertInit => AlertTypeOK /\ Accounted
<1> SUFFICES ASSUME AlertInit PROVE AlertTypeOK /\ Accounted
  OBVIOUS
<1>1. AlertTypeOK
  BY UnreadTyped, BoundAssumption DEF AlertInit, AlertTypeOK, Labels
<1>2. \A n : Pending(n) = {}
  BY DEF AlertInit, Pending
<1>3. IsFiniteSet({}) /\ Cardinality({}) = 0
  BY FS_EmptySet
<1>4. Closed = 0
  BY DEF AlertInit, Closed, IsOpen, Types
<1>5. Accounted
  BY <1>2, <1>3, <1>4 DEF AlertInit, Accounted, Recovery
<1> QED
  BY <1>1, <1>5

\* Whatever runs overlap or are cut off, tables and copies keep their types.
THEOREM AlertTypesCorrect == AlertSpec => []AlertTypeOK
<1>1. AlertTypeOK /\ [AlertNext]_alertVars => AlertTypeOK'
  <2> SUFFICES ASSUME AlertTypeOK, [AlertNext]_alertVars PROVE AlertTypeOK'
    OBVIOUS
  <2>1. CASE AlertNext
    BY <2>1, RunEffect, SurroundingsStep DEF AlertNext, Effect
  <2>2. CASE UNCHANGED alertVars
    BY <2>2 DEF AlertTypeOK, alertVars
  <2> QED
    BY <2>1, <2>2
<1> QED
  BY InitInv, <1>1, PTL DEF AlertSpec

\* However many runs overlap, an alert is announced at most once for each time
\* it opens, and recovery at most once for each alert that was closed.
THEOREM AnnouncementsAreUnique == AlertSpec => []AnnouncedOnce
<1>1. AlertTypeOK /\ Accounted /\ [AlertNext]_alertVars => Accounted'
  <2> SUFFICES ASSUME AlertTypeOK, Accounted, [AlertNext]_alertVars PROVE Accounted'
    OBVIOUS
  <2>1. CASE \E e \in Runs : Start(e) \/ Continue(e) \/ Fail(e)
    BY <2>1, RunEffect, AccountedStep
  <2>2. ASSUME UNCHANGED <<alerts, notices, stage, copy>>
        PROVE  Accounted'
    <3>1. \A n : Pending(n)' = Pending(n)
      BY <2>2 DEF Pending
    <3>2. Closed' = Closed /\ notices' = notices /\ opened' = opened
      BY <2>2 DEF Closed, IsOpen, alerts
    <3> QED
      BY <3>1, <3>2 DEF Accounted
  <2>3. CASE Surroundings
    BY <2>2, <2>3, SurroundingsStep
  <2>4. CASE UNCHANGED alertVars
    BY <2>2, <2>4 DEF alertVars, alerts
  <2> QED
    BY <2>1, <2>3, <2>4 DEF AlertNext
<1>2. AlertTypeOK /\ Accounted => AnnouncedOnce
  <2> SUFFICES ASSUME AlertTypeOK, Accounted PROVE AnnouncedOnce
    OBVIOUS
  <2>1. /\ \A t \in Types : Cardinality(Pending(t)) \in Nat
        /\ Cardinality(Pending(Recovery)) \in Nat
    BY FS_CardinalityType DEF Accounted
  <2>2. /\ \A t \in Types : notices[t] \in Nat /\ opened[t] \in Nat
        /\ notices[Recovery] \in Nat
    BY DEF AlertTypeOK, Recovery
  <2>3. \A t \in Types : notices[t] <= opened[t]
    BY <2>1, <2>2 DEF Accounted
  <2>4. Closed \in Int
    BY <2>2 DEF Closed, IsOpen, Types
  <2>5. notices[Recovery] <= Closed
    BY <2>1, <2>2, <2>4 DEF Accounted
  <2> QED
    BY <2>3, <2>5 DEF AnnouncedOnce, Closed, IsOpen, Recovery
<1> QED
  BY InitInv, AlertTypesCorrect, <1>1, <1>2, PTL DEF AlertSpec

=============================================================================
