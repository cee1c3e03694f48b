---------------------- MODULE WarehouseTransferProofs ----------------------
(***************************************************************************)
(* What WarehouseTransfer guarantees for any number of requests, lines and *)
(* locations.                                                              *)
(*                                                                         *)
(* The argument: as long as no request acts on an overtaken copy, one that *)
(* is current knows the tables: at each of its statements they are as it   *)
(* loaded, decided or saved them (Knows), and what its copy claims to have *)
(* moved is in the books before the copy is saved (Backed).  A step that   *)
(* writes to the tables leaves no other request current, and a step that   *)
(* does not disturbs nobody's knowledge, because the books only grow.      *)
(*                                                                         *)
(* For the exact counts the balance is kept of one request at a time: it   *)
(* starts from books that agree with the stored transfer, and half way     *)
(* they agree with the stored header for the lines it has yet to post and  *)
(* with its copy for the others (BalanceInv).  A second request that has   *)
(* begun to post or to save dooms one of the two: before all is quiet one  *)
(* acts on an overtaken copy or is cut short (Doomed, DoomStays).          *)
(***************************************************************************)
EXTENDS WarehouseTransfer, TLAPS

Labels == {"idle", "load", "decide", "post", "header", "erase", "insert", "delete"}

Histories == [current : SUBSET Requests, stale : BOOLEAN, cut : BOOLEAN,
              started : Nat]

Finished == {"RECEIVED", "CANCELLED"}

\* The mark of the dispatch agrees with the status where the status tells.
Sound(h) ==
  /\ h.status \in {"DRAFT", "SUBMITTED"} => h.dispatched = FALSE
  /\ h.status = "DISPATCHED" => h.dispatched = TRUE

Moved(books, type, l, at) == books[[type |-> type, line |-> l, at |-> at]] > 0

\* What header h claims of each of the lines ls is in the books.
Backed(books, h, ls) ==
  \A l \in ls :
    /\ h.dispatched => Moved(books, "Issue", l, h.src)
    /\ h.status = "RECEIVED" => Moved(books, "Receipt", l, h.dst)
    /\ h.status = "CANCELLED" /\ h.dispatched => Moved(books, "Receipt", l, h.src)

\* The header that a posting operation makes of h, and what it posts for l.
Decided(op, h) ==
  CASE op = "dispatch" -> [h EXCEPT !.status = "DISPATCHED", !.dispatched = TRUE]
    [] op = "receive"  -> [h EXCEPT !.status = "RECEIVED"]
    [] op = "cancel"   -> [h EXCEPT !.status = "CANCELLED"]

Done(books, op, h, l) ==
  CASE op = "dispatch" -> Moved(books, "Issue", l, h.src)
    [] op = "receive"  -> Moved(books, "Receipt", l, h.dst)
    [] op = "cancel"   -> Moved(books, "Receipt", l, h.src)

Unfinished(h) == h # NoTransfer /\ h.status \notin Finished

\* The statuses from which a posting operation sets out.
From(op) ==
  CASE op = "dispatch" -> {"SUBMITTED", "DRAFT"}
    [] op = "receive"  -> {"DISPATCHED", "SUBMITTED"}
    [] op = "cancel"   -> {"DISPATCHED"}

\* What is true of the tables h, ls and the books when a current request with
\* copy c is about to make the statement "label".
Knows(books, h, ls, label, c) ==
  /\ label \in {"load", "decide"} => h # NoTransfer /\ c.header = h
  /\ label = "decide" => c.lines = ls
  /\ label = "post" =>
       /\ Unfinished(h)
       /\ c.op \in {"dispatch", "receive", "cancel"}
       /\ h.status \in From(c.op)
       /\ c.header = Decided(c.op, h)
       /\ c.lines = ls /\ c.todo \subseteq ls
       /\ \A l \in ls \ c.todo : Done(books, c.op, h, l)
  /\ label = "header" =>
       /\ h = NoTransfer \/ Unfinished(h)
       /\ Backed(books, c.header, ls)
       /\ Backed(books, c.header, c.lines)
  /\ label = "delete" => h # NoTransfer /\ h.status = "DRAFT"
  /\ label \in {"erase", "insert"} => c.header = h /\ Backed(books, h, c.lines)
  /\ label = "insert" => c.todo \subseteq c.lines /\ ls = c.lines \ c.todo

\* A request that is under way has a copy of a header.
CopyInv ==
  \A r \in Requests :
    pc[r] # "idle" => copy[r].header \in Headers /\ Sound(copy[r].header)

HeaderInv == header # NoTransfer => Sound(header)

StartInv ==
  history.started = 0 => header = NoTransfer /\ \A r \in Requests : pc[r] = "idle"

ClaimInv ==
  ~history.stale =>
    /\ header # NoTransfer => Backed(posted, header, lines)
    /\ \A r \in history.current : Knows(posted, header, lines, pc[r], copy[r])

TransferInv == TypeOK /\ CopyInv /\ HeaderInv /\ StartInv /\ ClaimInv

-----------------------------------------------------------------------------

LEMMA TypeParts ==
  ASSUME TypeOK
  PROVE  /\ header \in Headers \cup {NoTransfer}
         /\ lines \in SUBSET Lines
         /\ given \in SUBSET Lines
         /\ posted \in [Postings -> Nat]
         /\ pc \in [Requests -> Labels]
         /\ copy \in [Requests -> Copies]
         /\ history \in Histories
  BY DEF TypeOK, Labels, Histories

LEMMA CopyFields ==
  ASSUME NEW c \in Copies
  PROVE  /\ c.op \in Operations
         /\ c.header \in Headers \cup {NoTransfer}
         /\ c.lines \in SUBSET Lines
         /\ c.todo \in SUBSET Lines
  BY DEF Copies

LEMMA HeaderFields ==
  ASSUME NEW h \in Headers
  PROVE  /\ h.status \in Statuses
         /\ h.src \in Locations
         /\ h.dst \in Locations
         /\ h.dispatched \in BOOLEAN
  BY DEF Headers

LEMMA HistoryFields ==
  ASSUME history \in Histories
  PROVE  /\ history.current \in SUBSET Requests
         /\ history.stale \in BOOLEAN
         /\ history.cut \in BOOLEAN
         /\ history.started \in Nat
  BY DEF Histories

LEMMA PostingTyped ==
  ASSUME NEW type \in {"Issue", "Receipt"}, NEW l \in Lines, NEW at \in Locations
  PROVE  [type |-> type, line |-> l, at |-> at] \in Postings
  BY DEF Postings

LEMMA IdleTyped == Idle \in Copies
  BY DEF Idle, Copies, Operations

-----------------------------------------------------------------------------
(* The bookkeeping of the history. *)

LEMMA LoadingHistory ==
  ASSUME history \in Histories, NEW r \in Requests, Loading(r)
  PROVE  /\ history' \in Histories
         /\ history'.current = history.current \cup {r}
         /\ history'.stale = history.stale
         /\ history'.cut = history.cut
         /\ history'.started > 0
<1>1. history.current \cup {r} \in SUBSET Requests
  BY HistoryFields
<1>2. history.started + 1 \in Nat /\ history.started + 1 > 0
  BY HistoryFields
<1>3. history' = [history EXCEPT !.current = @ \cup {r}, !.started = @ + 1]
  BY DEF Loading
<1>4. history' \in Histories
  BY <1>1, <1>2, <1>3 DEF Histories
<1>5. /\ history'.current = history.current \cup {r}
      /\ history'.stale = history.stale
      /\ history'.cut = history.cut
      /\ history'.started = history.started + 1
  BY <1>3 DEF Histories
<1> QED
  BY <1>2, <1>4, <1>5

LEMMA PostingHistory ==
  ASSUME history \in Histories, NEW r \in Requests, Posting(r)
  PROVE  /\ history' \in Histories
         /\ history'.current = history.current
         /\ ~history'.stale => ~history.stale /\ r \in history.current
         /\ history'.cut = history.cut
         /\ history'.started = history.started
<1>1. PICK b \in BOOLEAN : /\ b = (history.stale \/ r \notin history.current)
                           /\ history' = [history EXCEPT !.stale = b]
  BY DEF Posting
<1> QED
  BY <1>1 DEF Histories

LEMMA WritingHistory ==
  ASSUME history \in Histories, NEW r \in Requests, Writing(r)
  PROVE  /\ history' \in Histories
         /\ history'.current \subseteq {r}
         /\ ~history'.stale => ~history.stale /\ r \in history.current
         /\ history'.cut = history.cut
         /\ history'.started = history.started
<1>1. PICK b \in BOOLEAN :
        /\ b = (history.stale \/ r \notin history.current)
        /\ history' = [history EXCEPT !.current = @ \cap {r}, !.stale = b]
  BY DEF Writing
<1>2. history.current \cap {r} \in SUBSET Requests
  BY HistoryFields
<1>3. history' \in Histories
  BY <1>1, <1>2 DEF Histories
<1>4. /\ history'.current = history.current \cap {r}
      /\ history'.stale = b
      /\ history'.cut = history.cut
      /\ history'.started = history.started
  BY <1>1 DEF Histories
<1> QED
  BY <1>1, <1>3, <1>4

-----------------------------------------------------------------------------
(* What the books back, they back for ever. *)

Grows(old, new) == \A p \in Postings : new[p] >= old[p]

LEMMA MovedGrows ==
  ASSUME NEW old \in [Postings -> Nat], NEW new \in [Postings -> Nat],
         Grows(old, new),
         NEW type \in {"Issue", "Receipt"}, NEW l \in Lines, NEW at \in Locations,
         Moved(old, type, l, at)
  PROVE  Moved(new, type, l, at)
<1> DEFINE p == [type |-> type, line |-> l, at |-> at]
<1>1. p \in Postings
  BY PostingTyped
<1>2. old[p] \in Nat /\ new[p] \in Nat /\ new[p] >= old[p] /\ old[p] > 0
  BY <1>1 DEF Grows, Moved
<1>3. new[p] > 0
  BY <1>2
<1> QED
  BY <1>3 DEF Moved

LEMMA BackedGrows ==
  ASSUME NEW old \in [Postings -> Nat], NEW new \in [Postings -> Nat],
         Grows(old, new), NEW h \in Headers, NEW ls \in SUBSET Lines,
         Backed(old, h, ls)
  PROVE  Backed(new, h, ls)
<1>1. h.src \in Locations /\ h.dst \in Locations
  BY HeaderFields
<1> SUFFICES ASSUME NEW l \in ls
             PROVE  /\ h.dispatched => Moved(new, "Issue", l, h.src)
                    /\ h.status = "RECEIVED" => Moved(new, "Receipt", l, h.dst)
                    /\ h.status = "CANCELLED" /\ h.dispatched =>
                         Moved(new, "Receipt", l, h.src)
  BY DEF Backed
<1>2. /\ h.dispatched => Moved(old, "Issue", l, h.src)
      /\ h.status = "RECEIVED" => Moved(old, "Receipt", l, h.dst)
      /\ h.status = "CANCELLED" /\ h.dispatched => Moved(old, "Receipt", l, h.src)
  BY DEF Backed
<1>3. l \in Lines
  OBVIOUS
<1> QED
  BY <1>1, <1>2, <1>3, MovedGrows

LEMMA DoneGrows ==
  ASSUME NEW old \in [Postings -> Nat], NEW new \in [Postings -> Nat],
         Grows(old, new), NEW h \in Headers, NEW l \in Lines,
         NEW op \in {"dispatch", "receive", "cancel"}, Done(old, op, h, l)
  PROVE  Done(new, op, h, l)
<1>1. h.src \in Locations /\ h.dst \in Locations
  BY HeaderFields
<1>2. CASE op = "dispatch"
  BY <1>1, <1>2, MovedGrows DEF Done
<1>3. CASE op = "receive"
  BY <1>1, <1>3, MovedGrows DEF Done
<1>4. CASE op = "cancel"
  BY <1>1, <1>4, MovedGrows DEF Done
<1> QED
  BY <1>2, <1>3, <1>4

\* A header that claims nothing is backed.
LEMMA NothingClaimed ==
  ASSUME NEW books, NEW h, NEW ls, h.dispatched = FALSE, h.status # "RECEIVED"
  PROVE  Backed(books, h, ls)
  BY DEF Backed

\* Knowledge survives when the tables stay and the books grow.
LEMMA KnowledgeGrows ==
  ASSUME NEW old \in [Postings -> Nat], NEW new \in [Postings -> Nat],
         Grows(old, new), NEW h \in Headers \cup {NoTransfer},
         NEW ls \in SUBSET Lines, NEW label, NEW c \in Copies,
         label # "idle" => c.header \in Headers,
         Knows(old, h, ls, label, c)
  PROVE  Knows(new, h, ls, label, c)
<1>1. c.lines \in SUBSET Lines
  BY CopyFields
<1>2. CASE label = "post"
  <2>1. h \in Headers /\ c.op \in {"dispatch", "receive", "cancel"}
    BY <1>2 DEF Knows, Unfinished
  <2>2. \A l \in ls \ c.todo : Done(new, c.op, h, l)
    <3> TAKE l \in ls \ c.todo
    <3>1. l \in Lines /\ Done(old, c.op, h, l)
      BY <1>2 DEF Knows
    <3> QED
      BY <2>1, <3>1, DoneGrows
  <2> QED
    BY <1>2, <2>2 DEF Knows
<1>3. CASE label = "header"
  <2>1. Backed(new, c.header, ls) /\ Backed(new, c.header, c.lines)
    BY <1>1, <1>3, BackedGrows DEF Knows
  <2> QED
    BY <1>3, <2>1 DEF Knows
<1>4. CASE label \in {"erase", "insert"}
  <2>1. Backed(new, h, c.lines)
    BY <1>1, <1>4, BackedGrows DEF Knows
  <2> QED
    BY <1>4, <2>1 DEF Knows
<1>5. CASE label \notin {"post", "header", "erase", "insert"}
  BY <1>5 DEF Knows
<1> QED
  BY <1>2, <1>3, <1>4, <1>5

-----------------------------------------------------------------------------
(* From what an action of r does to the invariant. *)

\* What a step of r does to the program counters and the copies.
CopyStep(r, c, label) ==
  /\ c \in Copies
  /\ label \in Labels
  /\ label # "idle" => c.header \in Headers /\ Sound(c.header)
  /\ copy' = [copy EXCEPT ![r] = c]
  /\ pc' = [pc EXCEPT ![r] = label]

LEMMA CopyStepTyped ==
  ASSUME TypeOK, NEW r \in Requests, NEW c, NEW label, CopyStep(r, c, label)
  PROVE  /\ pc' \in [Requests -> Labels]
         /\ copy' \in [Requests -> Copies]
         /\ pc'[r] = label /\ copy'[r] = c
         /\ \A q \in Requests \ {r} : pc'[q] = pc[q] /\ copy'[q] = copy[q]
  BY TypeParts DEF CopyStep

\* A step that leaves the tables alone.
LEMMA QuietStep ==
  ASSUME TransferInv, NEW r \in Requests, NEW c, NEW label, CopyStep(r, c, label),
         header' = header, lines' = lines, given' \in SUBSET Lines,
         posted' \in [Postings -> Nat], Grows(posted, posted'),
         history' \in Histories, history'.current \subseteq history.current \cup {r},
         history'.started > 0,
         ~history'.stale => ~history.stale,
         ~history'.stale /\ r \in history'.current =>
           Knows(posted', header, lines, label, c)
  PROVE  TransferInv'
<1>1. TypeOK
  BY DEF TransferInv
<1>2. /\ header \in Headers \cup {NoTransfer}
      /\ lines \in SUBSET Lines
      /\ posted \in [Postings -> Nat]
      /\ copy \in [Requests -> Copies]
  BY <1>1, TypeParts
<1>3. /\ pc' \in [Requests -> Labels]
      /\ copy' \in [Requests -> Copies]
      /\ pc'[r] = label /\ copy'[r] = c
      /\ \A q \in Requests \ {r} : pc'[q] = pc[q] /\ copy'[q] = copy[q]
  BY <1>1, CopyStepTyped
<1>4. TypeOK'
  BY <1>2, <1>3 DEF TypeOK, Labels, Histories
<1>5. CopyInv'
  BY <1>3 DEF CopyInv, CopyStep, TransferInv
<1>6. HeaderInv' /\ StartInv'
  BY DEF HeaderInv, StartInv, TransferInv
<1>7. ClaimInv'
  <2> SUFFICES ASSUME ~history'.stale
               PROVE  /\ header # NoTransfer => Backed(posted', header, lines)
                      /\ \A q \in history'.current :
                           Knows(posted', header, lines, pc'[q], copy'[q])
    BY DEF ClaimInv
  <2>1. header # NoTransfer => Backed(posted', header, lines)
    BY <1>2, BackedGrows DEF TransferInv, ClaimInv
  <2>2. ASSUME NEW q \in history'.current
        PROVE  Knows(posted', header, lines, pc'[q], copy'[q])
    <3>1. CASE q = r
      BY <1>3, <2>2, <3>1
    <3>2. CASE q # r
      <4>1. q \in history.current /\ q \in Requests
        BY <1>1, <3>2, TypeParts, HistoryFields
      <4>2. Knows(posted, header, lines, pc[q], copy[q])
        BY <4>1 DEF TransferInv, ClaimInv
      <4>3. pc[q] # "idle" => copy[q].header \in Headers
        BY <4>1 DEF TransferInv, CopyInv
      <4>4. Knows(posted', header, lines, pc[q], copy[q])
        BY <1>2, <4>1, <4>2, <4>3, KnowledgeGrows
      <4> QED
        BY <1>3, <3>2, <4>1, <4>4
    <3> QED
      BY <3>1, <3>2
  <2> QED
    BY <2>1, <2>2
<1> QED
  BY <1>4, <1>5, <1>6, <1>7 DEF TransferInv

\* A step that writes to the tables.
LEMMA WriteStep ==
  ASSUME TransferInv, NEW r \in Requests, NEW c, NEW label, CopyStep(r, c, label),
         pc[r] # "idle", Writing(r),
         header' \in Headers \cup {NoTransfer},
         header' # NoTransfer => Sound(header'),
         lines' \in SUBSET Lines, given' = given, posted' = posted,
         ~history.stale /\ r \in history.current =>
           /\ header' # NoTransfer => Backed(posted, header', lines')
           /\ Knows(posted, header', lines', label, c)
  PROVE  TransferInv'
<1>1. TypeOK
  BY DEF TransferInv
<1>2. /\ given \in SUBSET Lines
      /\ posted \in [Postings -> Nat]
      /\ history \in Histories
  BY <1>1, TypeParts
<1>3. /\ pc' \in [Requests -> Labels]
      /\ copy' \in [Requests -> Copies]
      /\ pc'[r] = label /\ copy'[r] = c
      /\ \A q \in Requests \ {r} : pc'[q] = pc[q] /\ copy'[q] = copy[q]
  BY <1>1, CopyStepTyped
<1>4. /\ history' \in Histories
      /\ history'.current \subseteq {r}
      /\ ~history'.stale => ~history.stale /\ r \in history.current
      /\ history'.started = history.started
  BY <1>2, WritingHistory
<1>5. TypeOK'
  BY <1>2, <1>3, <1>4 DEF TypeOK, Labels, Histories
<1>6. CopyInv'
  BY <1>3 DEF CopyInv, CopyStep, TransferInv
<1>7. HeaderInv' /\ StartInv'
  BY <1>4 DEF HeaderInv, StartInv, TransferInv
<1>8. ClaimInv'
  BY <1>3, <1>4 DEF ClaimInv
<1> QED
  BY <1>5, <1>6, <1>7, <1>8 DEF TransferInv

\* What is known when r is about to decide.
LEMMA Decides ==
  ASSUME TransferInv, NEW r \in Requests, NEW op, NEW from, Deciding(r, op, from)
  PROVE  /\ TypeOK
         /\ pc[r] = "decide" /\ copy[r].op = op
         /\ copy[r] \in Copies
         /\ copy[r].header \in Headers /\ Sound(copy[r].header)
         /\ copy[r].header.status \in from
         /\ history \in Histories /\ history.started > 0
         /\ ~history.stale /\ r \in history.current =>
              /\ header # NoTransfer
              /\ copy[r].header = header /\ copy[r].lines = lines
              /\ Backed(posted, header, lines)
<1>1. TypeOK /\ pc[r] = "decide" /\ copy[r].op = op /\ copy[r].header.status \in from
  BY DEF TransferInv, Deciding
<1>2. copy[r] \in Copies /\ history \in Histories /\ history.started \in Nat
  BY <1>1, TypeParts, HistoryFields
<1>3. copy[r].header \in Headers /\ Sound(copy[r].header)
  BY <1>1 DEF TransferInv, CopyInv
<1>4. history.started # 0
  BY <1>1 DEF TransferInv, StartInv
<1>5. ~history.stale /\ r \in history.current =>
        /\ header # NoTransfer
        /\ copy[r].header = header /\ copy[r].lines = lines
        /\ Backed(posted, header, lines)
  BY <1>1 DEF TransferInv, ClaimInv, Knows
<1> QED
  BY <1>1, <1>2, <1>3, <1>4, <1>5

LEMMA Unchanged ==
  ASSUME TypeOK
  PROVE  /\ posted \in [Postings -> Nat] /\ Grows(posted, posted)
         /\ given \in SUBSET Lines
  BY TypeParts DEF Grows

-----------------------------------------------------------------------------
(* Creating and loading. *)

LEMMA StartingSteps ==
  ASSUME TransferInv, NEW r \in Requests
  PROVE  /\ \A src, dst \in Locations, new \in SUBSET Lines :
              Create(r, src, dst, new) => TransferInv'
         /\ \A op \in Operations : LoadHeader(r, op) => TransferInv'
         /\ LoadLines(r) => TransferInv'
         /\ Abort(r) => TransferInv'
<1>0. TypeOK
  BY DEF TransferInv
<1>t. /\ header \in Headers \cup {NoTransfer}
      /\ lines \in SUBSET Lines
      /\ given \in SUBSET Lines
      /\ posted \in [Postings -> Nat]
      /\ copy \in [Requests -> Copies]
      /\ copy[r] \in Copies
      /\ history \in Histories
      /\ Grows(posted, posted)
  BY <1>0, TypeParts, Unchanged
<1>1. ASSUME NEW src \in Locations, NEW dst \in Locations, NEW new \in SUBSET Lines,
             Create(r, src, dst, new)
      PROVE  TransferInv'
  <2> DEFINE h == [status |-> "DRAFT", src |-> src, dst |-> dst, dispatched |-> FALSE]
             c == [Idle EXCEPT !.header = h, !.lines = new]
  <2>1. h \in Headers /\ Sound(h) /\ h.dispatched = FALSE /\ h.status # "RECEIVED"
    BY DEF Headers, Statuses, Sound
  <2>2. c.header = h
    BY DEF Idle
  <2>3. c \in Copies /\ c.header = h
    BY <2>1, <2>2, IdleTyped DEF Copies
  <2>4. CopyStep(r, c, "header")
    BY <1>1, <2>1, <2>3 DEF Create, Goto, CopyStep, Labels
  <2>5. header = NoTransfer
    BY <1>1 DEF Create, TransferInv, StartInv
  <2>6. Knows(posted, header, lines, "header", c)
    BY <2>1, <2>3, <2>5, NothingClaimed DEF Knows
  <2>7. /\ history' \in Histories
        /\ history'.current = history.current \cup {r}
        /\ history'.stale = history.stale
        /\ history'.started > 0
    BY <1>1, <1>t, LoadingHistory DEF Create
  <2>8. header' = header /\ lines' = lines /\ posted' = posted /\ given' \in SUBSET Lines
    BY <1>1 DEF Create
  <2> HIDE DEF c, h
  <2> QED
    BY <1>t, <2>4, <2>6, <2>7, <2>8, QuietStep
<1>2. ASSUME NEW op \in Operations, LoadHeader(r, op)
      PROVE  TransferInv'
  <2> DEFINE c == [Idle EXCEPT !.op = op, !.header = header]
  <2>1. header # NoTransfer /\ header \in Headers /\ Sound(header)
    BY <1>2, <1>t DEF LoadHeader, TransferInv, HeaderInv
  <2>2. c.header = header
    BY DEF Idle
  <2>3. c \in Copies /\ c.header = header
    BY <2>1, <2>2, IdleTyped DEF Copies
  <2>4. CopyStep(r, c, "load")
    BY <1>2, <2>1, <2>3 DEF LoadHeader, Goto, CopyStep, Labels
  <2>6. Knows(posted, header, lines, "load", c)
    BY <2>1, <2>3 DEF Knows
  <2>7. /\ history' \in Histories
        /\ history'.current = history.current \cup {r}
        /\ history'.stale = history.stale
        /\ history'.started > 0
    BY <1>2, <1>t, LoadingHistory DEF LoadHeader
  <2>8. header' = header /\ lines' = lines /\ posted' = posted /\ given' = given
    BY <1>2 DEF LoadHeader
  <2> HIDE DEF c
  <2> QED
    BY <1>t, <2>4, <2>6, <2>7, <2>8, QuietStep
<1>3. ASSUME LoadLines(r)
      PROVE  TransferInv'
  <2> DEFINE c == [copy[r] EXCEPT !.lines = lines]
  <2>1. /\ pc[r] = "load"
        /\ copy[r].header \in Headers /\ Sound(copy[r].header)
    BY <1>3 DEF LoadLines, TransferInv, CopyInv
  <2>3. c \in Copies /\ c.header = copy[r].header /\ c.lines = lines
    BY <1>t DEF Copies
  <2>4. CopyStep(r, c, "decide")
    BY <1>3, <1>t, <2>1, <2>3 DEF LoadLines, Goto, CopyStep, Labels
  <2>6. ~history.stale /\ r \in history.current =>
          Knows(posted, header, lines, "decide", c)
    BY <2>1, <2>3 DEF Knows, TransferInv, ClaimInv
  <2>7. history' = history /\ history.started > 0
    <3>1. history.started \in Nat /\ history.started # 0
      BY <1>t, <2>1, HistoryFields DEF TransferInv, StartInv
    <3> QED
      BY <1>3, <3>1 DEF LoadLines
  <2>8. header' = header /\ lines' = lines /\ posted' = posted /\ given' = given
    BY <1>3 DEF LoadLines
  <2> HIDE DEF c
  <2> QED
    BY <1>t, <2>4, <2>6, <2>7, <2>8, QuietStep
<1>4. ASSUME Abort(r)
      PROVE  TransferInv'
  <2>4. CopyStep(r, Idle, "idle")
    BY <1>4, IdleTyped DEF Abort, Finish, Goto, CopyStep, Labels
  <2>6. Knows(posted, header, lines, "idle", Idle)
    BY DEF Knows
  <2>7. /\ history' \in Histories
        /\ history'.current = history.current
        /\ history'.stale = history.stale
        /\ history'.started = history.started
    <3>1. PICK b \in BOOLEAN : history' = [history EXCEPT !.cut = b]
      BY <1>4, <1>t DEF Abort, Histories
    <3> QED
      BY <1>t, <3>1 DEF Histories
  <2>8. history.started > 0
    <3>1. history.started \in Nat /\ history.started # 0
      BY <1>4, <1>t, HistoryFields DEF Abort, TransferInv, StartInv
    <3> QED
      BY <3>1
  <2>9. header' = header /\ lines' = lines /\ posted' = posted /\ given' = given
    BY <1>4 DEF Abort
  <2> QED
    BY <1>t, <2>4, <2>6, <2>7, <2>8, <2>9, QuietStep
<1> QED
  BY <1>1, <1>2, <1>3, <1>4

-----------------------------------------------------------------------------
(* The operations. *)

\* A copy that is changed to claim nothing, and will be saved.
LEMMA SavingSteps ==
  ASSUME TransferInv, NEW r \in Requests, NEW op,
         NEW from \in SUBSET {"DRAFT", "SUBMITTED"},
         Deciding(r, op, from), NEW h \in Headers, NEW ls \in SUBSET Lines,
         SaveCopy(r, h, ls), h.status \notin {"RECEIVED", "DISPATCHED"},
         h.dispatched = copy[r].header.dispatched,
         header' = header, lines' = lines, posted' = posted, history' = history,
         given' \in SUBSET Lines
  PROVE  TransferInv'
<1> DEFINE c == [copy[r] EXCEPT !.header = h, !.lines = ls]
<1>1. /\ TypeOK
      /\ copy[r] \in Copies
      /\ copy[r].header \in Headers /\ Sound(copy[r].header)
      /\ copy[r].header.status \in from
      /\ history \in Histories /\ history.started > 0
      /\ ~history.stale /\ r \in history.current =>
           header # NoTransfer /\ copy[r].header = header
  BY Decides
<1>2. copy[r].header.dispatched = FALSE
  BY <1>1 DEF Sound
<1>3. /\ posted \in [Postings -> Nat] /\ Grows(posted, posted)
      /\ copy \in [Requests -> Copies]
  BY <1>1, TypeParts, Unchanged
<1>4. c \in Copies /\ c.header = h /\ c.lines = ls
  BY <1>1 DEF Copies
<1>5. copy' = [copy EXCEPT ![r] = c]
  BY <1>3 DEF SaveCopy
<1>6. CopyStep(r, c, "header")
  BY <1>2, <1>4, <1>5 DEF SaveCopy, Goto, CopyStep, Labels, Sound
<1>7. Backed(posted, h, lines) /\ Backed(posted, h, ls)
  BY <1>2, NothingClaimed
<1>8. ~history.stale /\ r \in history.current =>
        Knows(posted, header, lines, "header", c)
  BY <1>1, <1>4, <1>7 DEF Knows, Unfinished, Finished
<1> HIDE DEF c
<1> QED
  BY <1>1, <1>3, <1>6, <1>8, QuietStep

LEMMA DecidingSteps ==
  ASSUME TransferInv, NEW r \in Requests
  PROVE  /\ \A src, dst \in Locations, new \in SUBSET Lines :
              Update(r, src, dst, new) => TransferInv'
         /\ \A l \in Lines : AddLine(r, l) => TransferInv'
         /\ Submit(r) => TransferInv'
         /\ Cancel(r) => TransferInv'
         /\ Delete(r) => TransferInv'
<1>t. /\ given \in SUBSET Lines
      /\ copy \in [Requests -> Copies]
      /\ copy[r].lines \in SUBSET Lines
  BY TypeParts, CopyFields DEF TransferInv
<1>1. ASSUME NEW src \in Locations, NEW dst \in Locations, NEW new \in SUBSET Lines,
             Update(r, src, dst, new)
      PROVE  TransferInv'
  <2> DEFINE old == copy[r].header
             h == [old EXCEPT !.src = src, !.dst = dst]
  <2>1. Deciding(r, "update", {"DRAFT"}) /\ SaveCopy(r, h, new)
    BY <1>1 DEF Update
  <2>2. old \in Headers /\ old.status = "DRAFT"
    BY <2>1, Decides
  <2>3. h \in Headers /\ h.status = "DRAFT" /\ h.dispatched = old.dispatched
    BY <2>2 DEF Headers
  <2>4. given' \in SUBSET Lines
    BY <1>1, <1>t DEF Update
  <2>5. header' = header /\ lines' = lines /\ posted' = posted /\ history' = history
    BY <1>1 DEF Update
  <2> HIDE DEF h
  <2> QED
    BY <2>1, <2>3, <2>4, <2>5, SavingSteps
<1>2. ASSUME NEW l \in Lines, AddLine(r, l)
      PROVE  TransferInv'
  <2> DEFINE h == copy[r].header
             ls == copy[r].lines \cup {l}
  <2>1. Deciding(r, "addLine", {"DRAFT"}) /\ SaveCopy(r, h, ls)
    BY <1>2 DEF AddLine
  <2>2. h \in Headers /\ h.status = "DRAFT"
    BY <2>1, Decides
  <2>3. given' \in SUBSET Lines /\ ls \in SUBSET Lines
    BY <1>2, <1>t DEF AddLine
  <2>4. header' = header /\ lines' = lines /\ posted' = posted /\ history' = history
    BY <1>2 DEF AddLine
  <2> HIDE DEF ls
  <2> QED
    BY <2>1, <2>2, <2>3, <2>4, SavingSteps
<1>3. ASSUME Submit(r)
      PROVE  TransferInv'
  <2> DEFINE old == copy[r].header
             h == [old EXCEPT !.status = "SUBMITTED"]
  <2>1. Deciding(r, "submit", {"DRAFT"}) /\ SaveCopy(r, h, copy[r].lines)
    BY <1>3 DEF Submit
  <2>2. old \in Headers
    BY <2>1, Decides
  <2>3. h \in Headers /\ h.status = "SUBMITTED" /\ h.dispatched = old.dispatched
    BY <2>2 DEF Headers, Statuses
  <2>4. /\ header' = header /\ lines' = lines /\ posted' = posted
        /\ history' = history /\ given' = given
    BY <1>3 DEF Submit
  <2> HIDE DEF h
  <2> QED
    BY <1>t, <2>1, <2>3, <2>4, SavingSteps
<1>4. ASSUME Cancel(r)
      PROVE  TransferInv'
  <2> DEFINE old == copy[r].header
             h == [old EXCEPT !.status = "CANCELLED"]
  <2>1. Deciding(r, "cancel", {"DRAFT", "SUBMITTED"}) /\ SaveCopy(r, h, copy[r].lines)
    BY <1>4 DEF Cancel
  <2>2. old \in Headers
    BY <2>1, Decides
  <2>3. h \in Headers /\ h.status = "CANCELLED" /\ h.dispatched = old.dispatched
    BY <2>2 DEF Headers, Statuses
  <2>4. /\ header' = header /\ lines' = lines /\ posted' = posted
        /\ history' = history /\ given' = given
    BY <1>4 DEF Cancel
  <2> HIDE DEF h
  <2> QED
    BY <1>t, <2>1, <2>3, <2>4, SavingSteps
<1>5. ASSUME Delete(r)
      PROVE  TransferInv'
  <2>1. Deciding(r, "delete", {"DRAFT"})
    BY <1>5 DEF Delete
  <2>2. /\ TypeOK
        /\ copy[r] \in Copies
        /\ copy[r].header \in Headers /\ Sound(copy[r].header)
        /\ copy[r].header.status = "DRAFT"
        /\ history \in Histories /\ history.started > 0
        /\ ~history.stale /\ r \in history.current =>
             header # NoTransfer /\ copy[r].header = header
    BY <2>1, Decides
  <2>3. copy' = [copy EXCEPT ![r] = copy[r]]
    BY <1>5, <1>t DEF Delete
  <2>4. CopyStep(r, copy[r], "delete")
    BY <1>5, <2>2, <2>3 DEF Delete, Goto, CopyStep, Labels
  <2>5. ~history.stale /\ r \in history.current =>
          Knows(posted, header, lines, "delete", copy[r])
    BY <2>2 DEF Knows, Unfinished, Finished
  <2>6. /\ header' = header /\ lines' = lines /\ posted' = posted
        /\ history' = history /\ given' = given
    BY <1>5 DEF Delete
  <2>7. posted \in [Postings -> Nat] /\ Grows(posted, posted)
    BY <2>2, Unchanged
  <2> QED
    BY <1>t, <2>2, <2>4, <2>5, <2>6, <2>7, QuietStep
<1> QED
  BY <1>1, <1>2, <1>3, <1>4, <1>5

-----------------------------------------------------------------------------
(* Posting. *)

\* The header a posting operation makes, and what it posts, are as Decided and
\* Done say.
LEMMA PostingStarts ==
  ASSUME TransferInv, NEW r \in Requests,
         NEW op \in {"dispatch", "receive", "cancel"},
         Deciding(r, op, From(op)), PostLines(r, Decided(op, copy[r].header))
  PROVE  TransferInv'
<1> DEFINE old == copy[r].header
           h == Decided(op, old)
           c == [copy[r] EXCEPT !.header = h, !.todo = copy[r].lines]
<1>1. /\ TypeOK
      /\ copy[r] \in Copies /\ copy[r].op = op
      /\ old \in Headers
      /\ old.status \in From(op)
      /\ history \in Histories /\ history.started > 0
      /\ ~history.stale /\ r \in history.current =>
           header # NoTransfer /\ old = header /\ copy[r].lines = lines
  BY Decides
<1>2. /\ posted \in [Postings -> Nat] /\ Grows(posted, posted)
      /\ copy \in [Requests -> Copies] /\ given \in SUBSET Lines
  BY <1>1, TypeParts, Unchanged
<1>3. h \in Headers /\ Sound(h)
  <2>1. CASE op = "dispatch"
    <3>1. h = [old EXCEPT !.status = "DISPATCHED", !.dispatched = TRUE]
      BY <2>1 DEF Decided
    <3> QED
      BY <1>1, <3>1 DEF Headers, Statuses, Sound
  <2>2. CASE op = "receive"
    <3>1. h = [old EXCEPT !.status = "RECEIVED"]
      BY <2>2 DEF Decided
    <3> QED
      BY <1>1, <3>1 DEF Headers, Statuses, Sound
  <2>3. CASE op = "cancel"
    <3>1. h = [old EXCEPT !.status = "CANCELLED"]
      BY <2>3 DEF Decided
    <3> QED
      BY <1>1, <3>1 DEF Headers, Statuses, Sound
  <2> QED
    BY <2>1, <2>2, <2>3
<1> HIDE DEF h
<1>4. /\ c \in Copies /\ c.header = h /\ c.op = op
      /\ c.lines = copy[r].lines /\ c.todo = copy[r].lines
  BY <1>1, <1>3, CopyFields DEF Copies
<1>5. copy' = [copy EXCEPT ![r] = c]
  BY <1>2 DEF PostLines, h
<1> HIDE DEF c
<1>6. CopyStep(r, c, "post")
  BY <1>3, <1>4, <1>5 DEF PostLines, Goto, CopyStep, Labels
<1>7. ~history.stale /\ r \in history.current =>
        Knows(posted, header, lines, "post", c)
  BY <1>1, <1>4 DEF Knows, Unfinished, Finished, From, h
<1>8. /\ header' = header /\ lines' = lines /\ posted' = posted
      /\ history' = history /\ given' = given
  BY DEF PostLines
<1> QED
  BY <1>1, <1>2, <1>6, <1>7, <1>8, QuietStep

LEMMA PostingOperations ==
  ASSUME TransferInv, NEW r \in Requests
  PROVE  /\ Dispatch(r) => TransferInv'
         /\ Receive(r) => TransferInv'
         /\ CancelDispatched(r) => TransferInv'
<1>1. ASSUME Dispatch(r) PROVE TransferInv'
  <2>1. /\ Deciding(r, "dispatch", From("dispatch"))
        /\ PostLines(r, Decided("dispatch", copy[r].header))
    BY <1>1 DEF Dispatch, Decided, From
  <2> QED
    BY <2>1, PostingStarts
<1>2. ASSUME Receive(r) PROVE TransferInv'
  <2>1. /\ Deciding(r, "receive", From("receive"))
        /\ PostLines(r, Decided("receive", copy[r].header))
    BY <1>2 DEF Receive, Decided, From
  <2> QED
    BY <2>1, PostingStarts
<1>3. ASSUME CancelDispatched(r) PROVE TransferInv'
  <2>1. /\ Deciding(r, "cancel", From("cancel"))
        /\ PostLines(r, Decided("cancel", copy[r].header))
    BY <1>3 DEF CancelDispatched, Decided, From
  <2> QED
    BY <2>1, PostingStarts
<1> QED
  BY <1>1, <1>2, <1>3

\* What is known when r is about to make its next statement.
LEMMA UnderWay ==
  ASSUME TransferInv, NEW r \in Requests, pc[r] # "idle"
  PROVE  /\ TypeOK
         /\ header \in Headers \cup {NoTransfer}
         /\ header # NoTransfer => Sound(header)
         /\ lines \in SUBSET Lines
         /\ given \in SUBSET Lines
         /\ posted \in [Postings -> Nat]
         /\ Grows(posted, posted)
         /\ copy \in [Requests -> Copies]
         /\ copy[r] \in Copies
         /\ copy[r].header \in Headers /\ Sound(copy[r].header)
         /\ history \in Histories /\ history.started > 0
         /\ ~history.stale /\ r \in history.current =>
              /\ header # NoTransfer => Backed(posted, header, lines)
              /\ Knows(posted, header, lines, pc[r], copy[r])
<1>1. TypeOK
  BY DEF TransferInv
<1>2. history.started \in Nat /\ history.started # 0
  BY <1>1, TypeParts, HistoryFields DEF TransferInv, StartInv
<1>3. copy[r].header \in Headers /\ Sound(copy[r].header)
  BY DEF TransferInv, CopyInv
<1>4. /\ header # NoTransfer => Sound(header)
      /\ ~history.stale /\ r \in history.current =>
           /\ header # NoTransfer => Backed(posted, header, lines)
           /\ Knows(posted, header, lines, pc[r], copy[r])
  BY DEF TransferInv, HeaderInv, ClaimInv
<1>5. history.started > 0
  BY <1>2
<1> QED
  BY <1>1, <1>3, <1>4, <1>5, TypeParts, Unchanged

LEMMA PostingOfTyped ==
  ASSUME TypeOK, NEW r \in Requests, copy[r].header \in Headers, NEW l \in Lines
  PROVE  PostingOf(r, l) \in Postings
  BY HeaderFields DEF PostingOf, Postings

\* One line is posted: that posting is in the books, and none is lost.
LEMMA PostEffect ==
  ASSUME TransferInv, NEW r \in Requests, NEW l \in Lines, Post(r, l)
  PROVE  /\ posted' \in [Postings -> Nat]
         /\ Grows(posted, posted')
         /\ posted'[PostingOf(r, l)] > 0
<1> DEFINE p == PostingOf(r, l)
<1>1. pc[r] = "post"
  BY DEF Post
<1>2. copy[r].header \in Headers /\ posted \in [Postings -> Nat]
  BY <1>1, UnderWay
<1>3. p \in Postings
  BY <1>2, PostingOfTyped DEF TransferInv
<1>4. posted' = [posted EXCEPT ![p] = @ + 1]
  BY DEF Post
<1> HIDE DEF p
<1>5. posted[p] \in Nat
  BY <1>2, <1>3
<1>6. posted'[p] > 0 /\ posted' \in [Postings -> Nat]
  BY <1>2, <1>3, <1>4, <1>5
<1>7. Grows(posted, posted')
  BY <1>2, <1>3, <1>4, <1>5 DEF Grows
<1> QED
  BY <1>6, <1>7 DEF p

LEMMA PostStep ==
  ASSUME TransferInv, NEW r \in Requests, NEW l \in Lines, Post(r, l)
  PROVE  TransferInv'
<1> DEFINE c == [copy[r] EXCEPT !.todo = @ \ {l}]
<1>1. pc[r] = "post"
  BY DEF Post
<1>2. /\ lines \in SUBSET Lines /\ given \in SUBSET Lines
      /\ posted \in [Postings -> Nat]
      /\ copy \in [Requests -> Copies] /\ pc \in [Requests -> Labels]
      /\ copy[r] \in Copies
      /\ copy[r].header \in Headers /\ Sound(copy[r].header)
      /\ history \in Histories /\ history.started > 0
      /\ ~history.stale /\ r \in history.current =>
           Knows(posted, header, lines, "post", copy[r])
  BY <1>1, UnderWay, TypeParts
<1>3. /\ c \in Copies /\ c.header = copy[r].header /\ c.op = copy[r].op
      /\ c.lines = copy[r].lines /\ c.todo = copy[r].todo \ {l}
  BY <1>2, CopyFields DEF Copies
<1>4. copy' = [copy EXCEPT ![r] = c]
  BY <1>2 DEF Post
<1> HIDE DEF c
<1>5. pc' = [pc EXCEPT ![r] = "post"]
  BY <1>1, <1>2 DEF Post
<1>6. CopyStep(r, c, "post")
  BY <1>2, <1>3, <1>4, <1>5 DEF CopyStep, Labels
<1>7. /\ history' \in Histories
      /\ history'.current = history.current
      /\ ~history'.stale => ~history.stale /\ r \in history.current
      /\ history'.started = history.started
  BY <1>2, PostingHistory DEF Post
<1>8. /\ posted' \in [Postings -> Nat]
      /\ Grows(posted, posted')
      /\ posted'[PostingOf(r, l)] > 0
  BY PostEffect
<1>9. ~history'.stale /\ r \in history'.current =>
        Knows(posted', header, lines, "post", c)
  <2> SUFFICES ASSUME ~history'.stale
               PROVE  Knows(posted', header, lines, "post", c)
    OBVIOUS
  <2>1. /\ Unfinished(header)
        /\ copy[r].op \in {"dispatch", "receive", "cancel"}
        /\ header.status \in From(copy[r].op)
        /\ copy[r].header = Decided(copy[r].op, header)
        /\ copy[r].lines = lines /\ copy[r].todo \subseteq lines
        /\ \A k \in lines \ copy[r].todo : Done(posted, copy[r].op, header, k)
    BY <1>2, <1>7 DEF Knows
  <2>2. header \in Headers
    BY <1>1, <2>1, UnderWay DEF Unfinished
  <2>3. copy[r].header.src = header.src /\ copy[r].header.dst = header.dst
    BY <2>1, <2>2 DEF Decided, Headers
  <2>4. Done(posted', copy[r].op, header, l)
    BY <1>8, <2>1, <2>3 DEF Done, Moved, PostingOf
  <2>5. \A k \in lines \ c.todo : Done(posted', c.op, header, k)
    <3> TAKE k \in lines \ c.todo
    <3>1. CASE k = l
      BY <1>3, <2>4, <3>1
    <3>2. CASE k # l
      <4>1. k \in Lines /\ Done(posted, copy[r].op, header, k)
        BY <1>2, <1>3, <2>1, <3>2
      <4> QED
        BY <1>2, <1>3, <1>8, <2>1, <2>2, <4>1, DoneGrows
    <3> QED
      BY <3>1, <3>2
  <2> QED
    BY <1>3, <2>1, <2>5 DEF Knows
<1>10. header' = header /\ lines' = lines /\ given' = given
  BY DEF Post
<1> QED
  BY <1>2, <1>6, <1>7, <1>8, <1>9, <1>10, QuietStep

\* All lines are posted: the copy is backed.
LEMMA PostedIsBacked ==
  ASSUME NEW books, NEW h \in Headers, Sound(h), Unfinished(h), NEW ls,
         NEW op \in {"dispatch", "receive", "cancel"},
         Backed(books, h, ls), \A l \in ls : Done(books, op, h, l)
  PROVE  Backed(books, Decided(op, h), ls)
<1>1. CASE op = "dispatch"
  <2> DEFINE g == [h EXCEPT !.status = "DISPATCHED", !.dispatched = TRUE]
  <2>1. g.status = "DISPATCHED" /\ g.src = h.src
    BY DEF Headers
  <2>2. Decided(op, h) = g
    BY <1>1 DEF Decided
  <2>3. \A l \in ls : Moved(books, "Issue", l, h.src)
    BY <1>1 DEF Done
  <2> HIDE DEF g
  <2> QED
    BY <2>1, <2>2, <2>3 DEF Backed
<1>2. CASE op = "receive"
  <2> DEFINE g == [h EXCEPT !.status = "RECEIVED"]
  <2>1. /\ g.status = "RECEIVED" /\ g.src = h.src /\ g.dst = h.dst
        /\ g.dispatched = h.dispatched
    BY DEF Headers
  <2>2. Decided(op, h) = g
    BY <1>2 DEF Decided
  <2>3. \A l \in ls : Moved(books, "Receipt", l, h.dst)
    BY <1>2 DEF Done
  <2> HIDE DEF g
  <2> QED
    BY <2>1, <2>2, <2>3 DEF Backed
<1>3. CASE op = "cancel"
  <2> DEFINE g == [h EXCEPT !.status = "CANCELLED"]
  <2>1. g.status = "CANCELLED" /\ g.src = h.src /\ g.dispatched = h.dispatched
    BY DEF Headers
  <2>2. Decided(op, h) = g
    BY <1>3 DEF Decided
  <2>3. \A l \in ls : Moved(books, "Receipt", l, h.src)
    BY <1>3 DEF Done
  <2> HIDE DEF g
  <2> QED
    BY <2>1, <2>2, <2>3 DEF Backed
<1> QED
  BY <1>1, <1>2, <1>3

LEMMA PostingDoneStep ==
  ASSUME TransferInv, NEW r \in Requests, PostingDone(r)
  PROVE  TransferInv'
<1>1. pc[r] = "post" /\ copy[r].todo = {}
  BY DEF PostingDone
<1>2. /\ header \in Headers \cup {NoTransfer}
      /\ header # NoTransfer => Sound(header)
      /\ given \in SUBSET Lines
      /\ posted \in [Postings -> Nat] /\ Grows(posted, posted)
      /\ copy \in [Requests -> Copies] /\ copy[r] \in Copies
      /\ copy[r].header \in Headers /\ Sound(copy[r].header)
      /\ history \in Histories /\ history.started > 0
  BY <1>1, UnderWay
<1>3. CopyStep(r, copy[r], "header")
  BY <1>1, <1>2 DEF PostingDone, Goto, CopyStep, Labels
<1>4. ASSUME ~history.stale, r \in history.current
      PROVE  Knows(posted, header, lines, "header", copy[r])
  <2>1. /\ Knows(posted, header, lines, "post", copy[r])
        /\ header # NoTransfer => Backed(posted, header, lines)
    BY <1>1, <1>4, UnderWay
  <2>2. /\ Unfinished(header)
        /\ copy[r].op \in {"dispatch", "receive", "cancel"}
        /\ copy[r].header = Decided(copy[r].op, header)
        /\ copy[r].lines = lines
        /\ \A l \in lines : Done(posted, copy[r].op, header, l)
    BY <1>1, <2>1 DEF Knows
  <2>3. header \in Headers /\ Sound(header) /\ Backed(posted, header, lines)
    BY <1>2, <2>1, <2>2 DEF Unfinished
  <2>4. Backed(posted, copy[r].header, lines)
    BY <2>2, <2>3, PostedIsBacked
  <2> QED
    BY <2>2, <2>4 DEF Knows
<1>5. /\ header' = header /\ lines' = lines /\ given' = given
      /\ posted' = posted /\ history' = history
  BY DEF PostingDone
<1> QED
  BY <1>2, <1>3, <1>4, <1>5, QuietStep

-----------------------------------------------------------------------------
(* Saving and deleting. *)

LEMMA SavedSteps ==
  ASSUME TransferInv, NEW r \in Requests
  PROVE  /\ SaveHeader(r) => TransferInv'
         /\ EraseLines(r) => TransferInv'
         /\ \A l \in Lines : InsertLine(r, l) => TransferInv'
         /\ EndSave(r) => TransferInv'
         /\ DeleteRow(r) => TransferInv'
<1>1. ASSUME SaveHeader(r) PROVE TransferInv'
  <2>1. pc[r] = "header"
    BY <1>1 DEF SaveHeader
  <2>2. /\ lines \in SUBSET Lines
        /\ copy \in [Requests -> Copies] /\ copy[r] \in Copies
        /\ copy[r].header \in Headers /\ Sound(copy[r].header)
        /\ ~history.stale /\ r \in history.current =>
             Knows(posted, header, lines, "header", copy[r])
    BY <2>1, UnderWay
  <2>3. CopyStep(r, copy[r], "erase")
    BY <1>1, <2>2 DEF SaveHeader, Goto, CopyStep, Labels
  <2>4. /\ header' = copy[r].header /\ lines' = lines /\ given' = given
        /\ posted' = posted /\ Writing(r)
    BY <1>1 DEF SaveHeader
  <2>5. ~history.stale /\ r \in history.current =>
          /\ Backed(posted, header', lines')
          /\ Knows(posted, header', lines', "erase", copy[r])
    BY <2>2, <2>4 DEF Knows
  <2> QED
    BY <2>1, <2>2, <2>3, <2>4, <2>5, WriteStep
<1>2. ASSUME EraseLines(r) PROVE TransferInv'
  <2> DEFINE c == [copy[r] EXCEPT !.todo = copy[r].lines]
  <2>1. pc[r] = "erase"
    BY <1>2 DEF EraseLines
  <2>2. /\ header \in Headers \cup {NoTransfer}
        /\ header # NoTransfer => Sound(header)
        /\ copy \in [Requests -> Copies] /\ copy[r] \in Copies
        /\ copy[r].header \in Headers /\ Sound(copy[r].header)
        /\ ~history.stale /\ r \in history.current =>
             Knows(posted, header, lines, "erase", copy[r])
    BY <2>1, UnderWay
  <2>3. /\ c \in Copies /\ c.header = copy[r].header
        /\ c.lines = copy[r].lines /\ c.todo = copy[r].lines
    BY <2>2, CopyFields DEF Copies
  <2>4. CopyStep(r, c, "insert")
    BY <1>2, <2>2, <2>3 DEF EraseLines, Goto, CopyStep, Labels
  <2>5. /\ header' = header /\ lines' = {} /\ given' = given
        /\ posted' = posted /\ Writing(r)
    BY <1>2 DEF EraseLines
  <2> HIDE DEF c
  <2>6. ~history.stale /\ r \in history.current =>
          /\ Backed(posted, header', lines')
          /\ Knows(posted, header', lines', "insert", c)
    BY <2>2, <2>3, <2>5 DEF Knows, Backed
  <2> QED
    BY <2>1, <2>2, <2>4, <2>5, <2>6, WriteStep
<1>3. ASSUME NEW l \in Lines, InsertLine(r, l) PROVE TransferInv'
  <2> DEFINE c == [copy[r] EXCEPT !.todo = @ \ {l}]
  <2>1. pc[r] = "insert" /\ l \in copy[r].todo
    BY <1>3 DEF InsertLine
  <2>2. /\ header \in Headers \cup {NoTransfer}
        /\ header # NoTransfer => Sound(header)
        /\ lines \in SUBSET Lines
        /\ copy \in [Requests -> Copies] /\ copy[r] \in Copies
        /\ pc \in [Requests -> Labels]
        /\ copy[r].header \in Headers /\ Sound(copy[r].header)
        /\ ~history.stale /\ r \in history.current =>
             /\ header # NoTransfer => Backed(posted, header, lines)
             /\ Knows(posted, header, lines, "insert", copy[r])
    BY <2>1, UnderWay, TypeParts
  <2>3. /\ c \in Copies /\ c.header = copy[r].header
        /\ c.lines = copy[r].lines /\ c.todo = copy[r].todo \ {l}
    BY <2>2, CopyFields DEF Copies
  <2>4. pc' = [pc EXCEPT ![r] = "insert"]
    BY <1>3, <2>1, <2>2 DEF InsertLine
  <2>5. copy' = [copy EXCEPT ![r] = c]
    BY <1>3, <2>2 DEF InsertLine
  <2> HIDE DEF c
  <2>6. CopyStep(r, c, "insert")
    BY <2>2, <2>3, <2>4, <2>5 DEF CopyStep, Labels
  <2>7. /\ header' = header /\ lines' = lines \cup {l} /\ given' = given
        /\ posted' = posted /\ Writing(r) /\ header # NoTransfer
    BY <1>3 DEF InsertLine
  <2>8. ASSUME ~history.stale, r \in history.current
        PROVE  /\ Backed(posted, header', lines')
               /\ Knows(posted, header', lines', "insert", c)
    <3>1. /\ Backed(posted, header, lines)
          /\ copy[r].header = header /\ Backed(posted, header, copy[r].lines)
          /\ copy[r].todo \subseteq copy[r].lines
          /\ lines = copy[r].lines \ copy[r].todo
      BY <2>2, <2>7, <2>8 DEF Knows
    <3>2. Backed(posted, header, lines \cup {l})
      BY <2>1, <3>1 DEF Backed
    <3>3. c.todo \subseteq c.lines /\ lines \cup {l} = c.lines \ c.todo
      BY <2>1, <2>3, <3>1
    <3> QED
      BY <2>3, <2>7, <3>1, <3>2, <3>3 DEF Knows
  <2> QED
    BY <2>1, <2>2, <2>6, <2>7, <2>8, WriteStep
<1>4. ASSUME EndSave(r) PROVE TransferInv'
  <2>1. pc[r] = "insert"
    BY <1>4 DEF EndSave
  <2>2. /\ given \in SUBSET Lines
        /\ posted \in [Postings -> Nat] /\ Grows(posted, posted)
        /\ history \in Histories /\ history.started > 0
    BY <2>1, UnderWay
  <2>3. CopyStep(r, Idle, "idle")
    BY <1>4, IdleTyped DEF EndSave, Finish, Goto, CopyStep, Labels
  <2>4. Knows(posted, header, lines, "idle", Idle)
    BY DEF Knows
  <2>5. /\ header' = header /\ lines' = lines /\ given' = given
        /\ posted' = posted /\ history' = history
    BY <1>4 DEF EndSave
  <2> QED
    BY <2>2, <2>3, <2>4, <2>5, QuietStep
<1>5. ASSUME DeleteRow(r) PROVE TransferInv'
  <2>1. pc[r] = "delete"
    BY <1>5 DEF DeleteRow
  <2>2. CopyStep(r, Idle, "idle")
    BY <1>5, IdleTyped DEF DeleteRow, Finish, Goto, CopyStep, Labels
  <2>3. /\ header' = NoTransfer /\ lines' = {} /\ given' = given
        /\ posted' = posted /\ Writing(r)
    BY <1>5 DEF DeleteRow
  <2>4. Knows(posted, header', lines', "idle", Idle)
    BY DEF Knows
  <2> QED
    BY <2>1, <2>2, <2>3, <2>4, WriteStep
<1> QED
  BY <1>1, <1>2, <1>3, <1>4, <1>5

-----------------------------------------------------------------------------
(* The theorems. *)

LEMMA InvInit == Init => TransferInv
<1> SUFFICES ASSUME Init PROVE TransferInv
  OBVIOUS
<1>1. /\ header = NoTransfer /\ lines = {} /\ given = {}
      /\ posted = [p \in Postings |-> 0]
      /\ pc = [r \in Requests |-> "idle"]
      /\ copy = [r \in Requests |-> Idle]
      /\ history = [current |-> {}, stale |-> FALSE, cut |-> FALSE, started |-> 0]
  BY DEF Init
<1>2. copy \in [Requests -> Copies]
  BY <1>1, IdleTyped
<1>3. TypeOK
  BY <1>1, <1>2 DEF TypeOK
<1>4. CopyInv /\ HeaderInv /\ StartInv
  BY <1>1 DEF CopyInv, HeaderInv, StartInv
<1>5. ClaimInv
  BY <1>1 DEF ClaimInv
<1> QED
  BY <1>3, <1>4, <1>5 DEF TransferInv

LEMMA InvStutter == TransferInv /\ UNCHANGED vars => TransferInv'
<1> SUFFICES ASSUME TransferInv, UNCHANGED vars PROVE TransferInv'
  OBVIOUS
<1>1. TypeOK'
  BY DEF TransferInv, TypeOK, vars
<1>2. CopyInv' /\ HeaderInv' /\ StartInv'
  BY DEF TransferInv, CopyInv, HeaderInv, StartInv, vars
<1>3. ClaimInv'
  BY DEF TransferInv, ClaimInv, vars
<1> QED
  BY <1>1, <1>2, <1>3 DEF TransferInv

LEMMA InvStep == TransferInv /\ [Next]_vars => TransferInv'
<1> SUFFICES ASSUME TransferInv, Next PROVE TransferInv'
  BY InvStutter
<1>1. PICK r \in Requests : Step(r)
  BY DEF Next
<1>2. CASE \/ \E src, dst \in Locations, new \in SUBSET Lines : Create(r, src, dst, new)
           \/ \E op \in Operations : LoadHeader(r, op)
           \/ LoadLines(r)
           \/ Abort(r)
  BY <1>2, StartingSteps
<1>3. CASE \/ \E src, dst \in Locations, new \in SUBSET Lines : Update(r, src, dst, new)
           \/ \E l \in Lines : AddLine(r, l)
           \/ Submit(r)
           \/ Cancel(r)
           \/ Delete(r)
  BY <1>3, DecidingSteps
<1>4. CASE Dispatch(r) \/ Receive(r) \/ CancelDispatched(r)
  BY <1>4, PostingOperations
<1>5. CASE \/ \E l \in Lines : Post(r, l)
           \/ PostingDone(r)
  BY <1>5, PostStep, PostingDoneStep
<1>6. CASE \/ SaveHeader(r)
           \/ EraseLines(r)
           \/ \E l \in Lines : InsertLine(r, l)
           \/ EndSave(r)
           \/ DeleteRow(r)
  BY <1>6, SavedSteps
<1> QED
  BY <1>1, <1>2, <1>3, <1>4, <1>5, <1>6 DEF Step

LEMMA Invariance == Spec => []TransferInv
  BY InvInit, InvStep, PTL DEF Spec

\* WarehouseTransfersService: rows, copies and books keep their types, for any
\* number of requests and lines.
THEOREM TypeCorrect == Spec => []TypeOK
<1>1. TransferInv => TypeOK
  BY DEF TransferInv
<1> QED
  BY <1>1, Invariance, PTL

\* Wherever requests die between the postings and the save: as long as none
\* acts on an overtaken copy, what the stored transfer claims to have moved is
\* in the ledger.
THEOREM ClaimedMovesArePosted == Spec => []ClaimsArePosted
<1>1. TransferInv => ClaimsArePosted
  <2> SUFFICES ASSUME TransferInv, ~history.stale, header # NoTransfer, NEW l \in lines
               PROVE  /\ header.dispatched => Posted("Issue", l, header.src) > 0
                      /\ header.status = "RECEIVED" =>
                           Posted("Receipt", l, header.dst) > 0
                      /\ header.status = "CANCELLED" /\ header.dispatched =>
                           Posted("Receipt", l, header.src) > 0
    BY DEF ClaimsArePosted, Exists
  <2>1. Backed(posted, header, lines)
    BY DEF TransferInv, ClaimInv
  <2> QED
    BY <2>1 DEF Backed, Moved, Posted
<1> QED
  BY <1>1, Invariance, PTL

\* Unless a request acts on an overtaken copy, a received or cancelled transfer
\* keeps its header, and nothing is posted for it any more.
THEOREM FinishedTransfersStay == Spec => TerminalIsFinal
<1> DEFINE Stays == Terminal /\ ~history'.stale => header' = header /\ posted' = posted
<1>1. TransferInv /\ [Next]_vars => [Stays]_vars
  <2> SUFFICES ASSUME TransferInv, Next, Terminal, ~history'.stale
               PROVE  header' = header /\ posted' = posted
    BY DEF vars
  <2>1. PICK r \in Requests : Step(r)
    BY DEF Next
  <2>2. history \in Histories /\ header # NoTransfer /\ ~Unfinished(header)
    BY TypeParts DEF TransferInv, Terminal, Exists, Unfinished, Finished
  <2>3. CASE \E l \in Lines : Post(r, l)
    <3>1. pc[r] = "post" /\ Posting(r)
      BY <2>3 DEF Post
    <3>2. ~history.stale /\ r \in history.current
      BY <2>2, <3>1, PostingHistory
    <3>3. Knows(posted, header, lines, "post", copy[r])
      BY <3>1, <3>2, UnderWay
    <3> QED
      BY <2>2, <3>3 DEF Knows
  <2>4. CASE SaveHeader(r) \/ DeleteRow(r)
    <3>1. pc[r] \in {"header", "delete"} /\ Writing(r)
      BY <2>4 DEF SaveHeader, DeleteRow
    <3>2. ~history.stale /\ r \in history.current
      BY <2>2, <3>1, WritingHistory
    <3>3. Knows(posted, header, lines, pc[r], copy[r])
      BY <3>1, <3>2, UnderWay
    <3> QED
      BY <2>2, <3>1, <3>3 DEF Knows, Unfinished, Finished
  <2>5. CASE ~(\E l \in Lines : Post(r, l)) /\ ~SaveHeader(r) /\ ~DeleteRow(r)
    BY <2>1, <2>5
       DEF Step, Create, LoadHeader, LoadLines, Update, AddLine, Submit, Dispatch,
           Receive, CancelDispatched, PostLines, Cancel, Delete, PostingDone,
           EraseLines, InsertLine, EndSave, Abort
  <2> QED
    BY <2>3, <2>4, <2>5
<1> QED
  BY <1>1, Invariance, PTL DEF TerminalIsFinal, Spec

-----------------------------------------------------------------------------
(* The books and the document.                                             *)
(*                                                                         *)
(* A busy request has something of its operation still to do: it posts, or *)
(* it has yet to save all of its copy.  Two busy requests, or one that is  *)
(* no longer current, are doomed: they cannot all end without one of them  *)
(* acting on an overtaken copy or being cut short.  So as long as neither  *)
(* has happened, and nobody is doomed, at most one request is busy, and    *)
(* the books agree with the saved document, with the copy that is being    *)
(* saved, or, between two postings, with each of them for its lines.       *)

NetIn(books, l, at) == books[[type |-> "Receipt", line |-> l, at |-> at]]
                       - books[[type |-> "Issue", line |-> l, at |-> at]]

\* What header h claims of line l, if it is one of its lines ls.
Claims(h, ls, l, at) ==
  IF h # NoTransfer /\ l \in ls
  THEN Ones(h.status = "RECEIVED" /\ at = h.dst)
       - Ones(h.dispatched /\ h.status # "CANCELLED" /\ at = h.src)
  ELSE 0

Agrees(books, h, ls) ==
  \A l \in Lines, at \in Locations : NetIn(books, l, at) = Claims(h, ls, l, at)

\* The lines of copy c that are posted agree with its header, the others with
\* the saved one.
HalfPosted(books, h, ls, c) ==
  \A l \in Lines, at \in Locations :
    NetIn(books, l, at) = Claims(IF l \in c.todo THEN h ELSE c.header, ls, l, at)

Busy(label, c) ==
  label \in {"post", "header", "erase"} \/ (label = "insert" /\ c.todo # {})

Doomed ==
  \E r \in Requests :
    /\ Busy(pc[r], copy[r])
    /\ \/ r \notin history.current
       \/ \E q \in Requests \ {r} : Busy(pc[q], copy[q])

Halfway(books, h, ls, label, c) ==
  IF label = "post" THEN HalfPosted(books, h, ls, c)
                    ELSE Agrees(books, c.header, c.lines)

Orderly == ~history.stale /\ ~history.cut /\ ~Doomed

BalanceInv ==
  Orderly =>
    /\ (\A r \in Requests : ~Busy(pc[r], copy[r])) => Agrees(posted, header, lines)
    /\ \A r \in Requests : Busy(pc[r], copy[r]) =>
         Halfway(posted, header, lines, pc[r], copy[r])

\* What a step of r does to the requests and to the history.
Moves(r) ==
  /\ \A q \in Requests \ {r} : pc'[q] = pc[q] /\ copy'[q] = copy[q]
  /\ history'.current \subseteq history.current \cup {r}
  /\ history.stale => history'.stale
  /\ history.cut => history'.cut
  /\ Busy(pc[r], copy[r]) /\ ~history'.stale /\ ~history'.cut =>
       /\ Busy(pc'[r], copy'[r]) \/ history'.current \subseteq {r}
       /\ r \notin history.current =>
            Busy(pc'[r], copy'[r]) /\ r \notin history'.current

\* Who is doomed stays doomed until it shows.
LEMMA DoomStays ==
  ASSUME NEW r \in Requests, Moves(r), Orderly'
  PROVE  Orderly
<1>1. /\ ~history.stale /\ ~history.cut
      /\ ~history'.stale /\ ~history'.cut /\ ~Doomed'
  BY DEF Orderly, Moves
<1>2. ASSUME NEW p \in Requests, Busy(pc[p], copy[p]), p \notin history.current
      PROVE  FALSE
  <2>1. Busy(pc'[p], copy'[p]) /\ p \notin history'.current
    BY <1>1, <1>2 DEF Moves
  <2> QED
    BY <1>1, <2>1 DEF Doomed
<1>3. ASSUME NEW p \in Requests, NEW q \in Requests \ {p},
             Busy(pc[p], copy[p]), Busy(pc[q], copy[q]), p # r
      PROVE  FALSE
  <2>1. Busy(pc'[p], copy'[p])
    BY <1>3 DEF Moves
  <2>2. p \in history'.current /\ ~Busy(pc'[q], copy'[q])
    BY <1>1, <2>1 DEF Doomed
  <2>3. q = r
    BY <1>3, <2>2 DEF Moves
  <2> QED
    BY <1>1, <1>3, <2>2, <2>3 DEF Moves
<1> QED
  BY <1>1, <1>2, <1>3 DEF Doomed, Orderly

\* A step after which r is busy: it is the only one.
LEMMA BusyStep ==
  ASSUME NEW r \in Requests, Moves(r), BalanceInv,
         Busy(pc'[r], copy'[r]),
         /\ Orderly /\ r \in history'.current /\ ~history'.stale
         /\ IF Busy(pc[r], copy[r])
            THEN Halfway(posted, header, lines, pc[r], copy[r])
            ELSE Agrees(posted, header, lines)
         => Halfway(posted', header', lines', pc'[r], copy'[r])
  PROVE  BalanceInv'
<1> SUFFICES ASSUME Orderly'
             PROVE  /\ ~ \A q \in Requests : ~Busy(pc'[q], copy'[q])
                    /\ \A q \in Requests : Busy(pc'[q], copy'[q]) =>
                         Halfway(posted', header', lines', pc'[q], copy'[q])
  BY DEF BalanceInv
<1>1. Orderly
  BY DoomStays
<1>2. /\ r \in history'.current /\ ~history'.stale
      /\ \A q \in Requests \ {r} : ~Busy(pc'[q], copy'[q])
  BY DEF Orderly, Doomed
<1>3. \A q \in Requests \ {r} : ~Busy(pc[q], copy[q])
  BY <1>2 DEF Moves
<1>4. IF Busy(pc[r], copy[r])
      THEN Halfway(posted, header, lines, pc[r], copy[r])
      ELSE Agrees(posted, header, lines)
  BY <1>1, <1>3 DEF BalanceInv
<1>5. Halfway(posted', header', lines', pc'[r], copy'[r])
  BY <1>1, <1>2, <1>4
<1> QED
  BY <1>2, <1>5

\* A step of a request that was not busy and is not, and leaves books and
\* tables alone.
LEMMA CalmStep ==
  ASSUME NEW r \in Requests, Moves(r), BalanceInv,
         ~Busy(pc[r], copy[r]), ~Busy(pc'[r], copy'[r]),
         header' = header, lines' = lines, posted' = posted
  PROVE  BalanceInv'
<1> SUFFICES ASSUME Orderly'
             PROVE  /\ (\A q \in Requests : ~Busy(pc'[q], copy'[q])) =>
                         Agrees(posted, header, lines)
                    /\ \A q \in Requests : Busy(pc'[q], copy'[q]) =>
                         Halfway(posted, header, lines, pc'[q], copy'[q])
  BY DEF BalanceInv
<1>1. Orderly
  BY DoomStays
<1>2. \A q \in Requests \ {r} : pc'[q] = pc[q] /\ copy'[q] = copy[q]
  BY DEF Moves
<1> QED
  BY <1>1, <1>2 DEF BalanceInv

\* A step that writes to the tables, and leaves r with nothing to do.
LEMMA WrittenStep ==
  ASSUME NEW r \in Requests, Moves(r), BalanceInv,
         ~Busy(pc'[r], copy'[r]), history'.current \subseteq {r},
         ~history'.stale => r \in history.current,
         /\ Orderly /\ r \in history.current /\ ~history.stale
         /\ IF Busy(pc[r], copy[r])
            THEN Halfway(posted, header, lines, pc[r], copy[r])
            ELSE Agrees(posted, header, lines)
         => Agrees(posted', header', lines')
  PROVE  BalanceInv'
<1> SUFFICES ASSUME Orderly'
             PROVE  /\ Agrees(posted', header', lines')
                    /\ \A q \in Requests : ~Busy(pc'[q], copy'[q])
  BY DEF BalanceInv
<1>1. Orderly /\ ~history.stale /\ r \in history.current
  BY DoomStays DEF Orderly
<1>2. \A q \in Requests : ~Busy(pc'[q], copy'[q])
  BY DEF Orderly, Doomed
<1>3. \A q \in Requests \ {r} : ~Busy(pc[q], copy[q])
  BY <1>2 DEF Moves
<1>4. IF Busy(pc[r], copy[r])
      THEN Halfway(posted, header, lines, pc[r], copy[r])
      ELSE Agrees(posted, header, lines)
  BY <1>1, <1>3 DEF BalanceInv
<1> QED
  BY <1>1, <1>2, <1>4

\* Busy from here on: idle requests and those that load and decide are not.
LEMMA BusyLabels ==
  ASSUME NEW label, NEW c
  PROVE  /\ label \in {"post", "header", "erase"} => Busy(label, c)
         /\ label \in {"idle", "load", "decide", "delete"} => ~Busy(label, c)
         /\ label = "insert" => (Busy(label, c) <=> c.todo # {})
  BY DEF Busy

LEMMA StepMoves ==
  ASSUME TransferInv, NEW r \in Requests, Step(r)
  PROVE  Moves(r)
<1>t. /\ copy \in [Requests -> Copies]
      /\ pc \in [Requests -> Labels]
      /\ history \in Histories
  BY TypeParts DEF TransferInv
<1>0. \A q \in Requests \ {r} : pc'[q] = pc[q] /\ copy'[q] = copy[q]
  BY <1>t DEF Step, Create, LoadHeader, LoadLines, Update, AddLine, Submit, Dispatch,
              Receive, CancelDispatched, PostLines, Cancel, Delete, Post, PostingDone,
              SaveHeader, EraseLines, InsertLine, EndSave, DeleteRow, Abort,
              SaveCopy, Goto, Finish
<1>1. CASE \/ \E src, dst \in Locations, new \in SUBSET Lines : Create(r, src, dst, new)
           \/ \E op \in Operations : LoadHeader(r, op)
  <2>1. pc[r] = "idle" /\ Loading(r)
    BY <1>1 DEF Create, LoadHeader
  <2> QED
    BY <1>t, <1>0, <2>1, LoadingHistory, BusyLabels DEF Moves
<1>2. CASE \/ LoadLines(r)
           \/ \E src, dst \in Locations, new \in SUBSET Lines : Update(r, src, dst, new)
           \/ \E l \in Lines : AddLine(r, l)
           \/ Submit(r)
           \/ Dispatch(r)
           \/ Receive(r)
           \/ CancelDispatched(r)
           \/ Cancel(r)
           \/ Delete(r)
  <2>1. pc[r] \in {"load", "decide"} /\ history' = history
    BY <1>2 DEF LoadLines, Update, AddLine, Submit, Dispatch, Receive, CancelDispatched,
                PostLines, Cancel, Delete, Deciding
  <2> QED
    BY <1>0, <2>1, BusyLabels DEF Moves
<1>3. CASE \E l \in Lines : Post(r, l)
  <2>1. Posting(r) /\ pc[r] = "post" /\ pc'[r] = "post"
    BY <1>3 DEF Post
  <2> QED
    BY <1>t, <1>0, <2>1, PostingHistory, BusyLabels DEF Moves
<1>4. CASE PostingDone(r)
  <2>1. history' = history /\ pc'[r] = "header"
    BY <1>4, <1>t DEF PostingDone, Goto
  <2> QED
    BY <1>0, <2>1, BusyLabels DEF Moves
<1>5. CASE \/ SaveHeader(r)
           \/ EraseLines(r)
           \/ \E l \in Lines : InsertLine(r, l)
           \/ DeleteRow(r)
  <2>1. Writing(r)
    BY <1>5 DEF SaveHeader, EraseLines, InsertLine, DeleteRow
  <2> QED
    BY <1>t, <1>0, <2>1, WritingHistory DEF Moves
<1>6. CASE EndSave(r)
  <2>1. ~Busy(pc[r], copy[r]) /\ history' = history
    BY <1>6, BusyLabels DEF EndSave
  <2> QED
    BY <1>0, <2>1 DEF Moves
<1>7. CASE Abort(r)
  <2>1. PICK b \in BOOLEAN :
          /\ history' = [history EXCEPT !.cut = b]
          /\ b = (history.cut \/ pc[r] \in {"post", "header", "erase", "insert"})
    BY <1>7 DEF Abort
  <2>2. /\ history'.current = history.current
        /\ history'.stale = history.stale
        /\ history'.cut = b
    BY <1>t, <2>1 DEF Histories
  <2>3. ~history'.cut => ~history.cut /\ ~Busy(pc[r], copy[r])
    BY <2>1, <2>2 DEF Busy
  <2> QED
    BY <1>0, <2>2, <2>3 DEF Moves
<1> QED
  BY <1>1, <1>2, <1>3, <1>4, <1>5, <1>6, <1>7 DEF Step

-----------------------------------------------------------------------------
(* The books at each step. *)

\* A header that is neither received nor marked as dispatched claims nothing.
LEMMA ClaimsNothing ==
  ASSUME NEW books, NEW h, NEW g, NEW ls, NEW ks,
         h = NoTransfer \/ (h.status # "RECEIVED" /\ h.dispatched = FALSE),
         g = NoTransfer \/ (g.status # "RECEIVED" /\ g.dispatched = FALSE),
         Agrees(books, h, ls)
  PROVE  Agrees(books, g, ks)
<1>1. \A l, at : Claims(h, ls, l, at) = 0 /\ Claims(g, ks, l, at) = 0
  BY DEF Claims, Ones
<1> QED
  BY <1>1 DEF Agrees

LEMMA DecidedTyped ==
  ASSUME NEW h \in Headers, NEW op \in {"dispatch", "receive", "cancel"}
  PROVE  /\ Decided(op, h) \in Headers
         /\ Decided(op, h).src = h.src
         /\ Decided(op, h).dst = h.dst
  BY DEF Decided, Headers, Statuses

\* What a request claims once it has posted a line is what it posted more than
\* was claimed.
LEMMA PostingClaims ==
  ASSUME NEW h \in Headers, Sound(h), NEW op \in {"dispatch", "receive", "cancel"},
         h.status \in From(op), NEW ls, NEW l \in ls, NEW at
  PROVE  Claims(Decided(op, h), ls, l, at) =
           Claims(h, ls, l, at)
           + (CASE op = "dispatch" -> - Ones(at = h.src)
                [] op = "receive"  -> Ones(at = h.dst)
                [] op = "cancel"   -> Ones(at = h.src))
<1>0. Decided(op, h) \in Headers
  BY DecidedTyped
<1>1. Decided(op, h) # NoTransfer /\ h # NoTransfer
  BY <1>0, NoTransferAssumption
<1>2. CASE op = "dispatch"
  <2>1. /\ Decided(op, h).status = "DISPATCHED" /\ Decided(op, h).dispatched = TRUE
        /\ Decided(op, h).src = h.src
        /\ h.status \in {"SUBMITTED", "DRAFT"} /\ h.dispatched = FALSE
    BY <1>2 DEF Decided, Headers, From, Sound
  <2> QED
    BY <1>1, <1>2, <2>1 DEF Claims, Ones
<1>3. CASE op = "receive"
  <2>1. /\ Decided(op, h).status = "RECEIVED" /\ Decided(op, h).dispatched = h.dispatched
        /\ Decided(op, h).src = h.src /\ Decided(op, h).dst = h.dst
        /\ h.status \in {"DISPATCHED", "SUBMITTED"}
    BY <1>3 DEF Decided, Headers, From
  <2> QED
    BY <1>1, <1>3, <2>1 DEF Claims, Ones
<1>4. CASE op = "cancel"
  <2>1. /\ Decided(op, h).status = "CANCELLED"
        /\ Decided(op, h).src = h.src
        /\ h.status = "DISPATCHED" /\ h.dispatched = TRUE
    BY <1>4 DEF Decided, Headers, From, Sound
  <2> QED
    BY <1>1, <1>4, <2>1 DEF Claims, Ones
<1> QED
  BY <1>2, <1>3, <1>4

LEMMA CalmSteps ==
  ASSUME TransferInv, BalanceInv, NEW r \in Requests, Step(r),
         \/ \E op \in Operations : LoadHeader(r, op)
         \/ LoadLines(r)
         \/ Delete(r)
         \/ EndSave(r)
  PROVE  BalanceInv'
<1>1. pc \in [Requests -> Labels] /\ Moves(r)
  BY TypeParts, StepMoves DEF TransferInv
<1>2. header' = header /\ lines' = lines /\ posted' = posted
  BY DEF LoadHeader, LoadLines, Delete, EndSave
<1>3. ~Busy(pc[r], copy[r])
  BY BusyLabels DEF LoadHeader, LoadLines, Delete, Deciding, EndSave
<1>4. pc'[r] \in {"load", "decide", "delete", "idle"}
  BY <1>1 DEF LoadHeader, LoadLines, Delete, EndSave, Finish, Goto
<1> QED
  BY <1>1, <1>2, <1>3, <1>4, BusyLabels, CalmStep

\* A request that ends halfway is cut short, or has nothing left to do.
LEMMA AbortBalances ==
  ASSUME TransferInv, BalanceInv, NEW r \in Requests, Step(r), Abort(r)
  PROVE  BalanceInv'
<1>1. /\ pc \in [Requests -> Labels] /\ history \in Histories /\ Moves(r)
  BY TypeParts, StepMoves DEF TransferInv
<1>2. ~Busy(pc'[r], copy'[r])
  BY <1>1, BusyLabels DEF Abort, Finish, Goto
<1>3. header' = header /\ lines' = lines /\ posted' = posted
  BY DEF Abort
<1>4. CASE Busy(pc[r], copy[r])
  <2>1. pc[r] \in {"post", "header", "erase", "insert"}
    BY <1>4 DEF Busy
  <2>2. history' = [history EXCEPT !.cut = TRUE]
    BY <2>1 DEF Abort
  <2>3. history'.cut = TRUE
    BY <1>1, <2>2 DEF Histories
  <2> QED
    BY <2>3 DEF BalanceInv, Orderly
<1>5. CASE ~Busy(pc[r], copy[r])
  BY <1>1, <1>2, <1>3, <1>5, CalmStep
<1> QED
  BY <1>4, <1>5

\* A copy that claims nothing is to be saved.
LEMMA SavingBalances ==
  ASSUME TransferInv, BalanceInv, NEW r \in Requests, Step(r),
         NEW op, NEW from \in SUBSET {"DRAFT", "SUBMITTED"}, Deciding(r, op, from),
         NEW h, NEW ls, SaveCopy(r, h, ls), h.status # "RECEIVED",
         h.dispatched = copy[r].header.dispatched,
         header' = header, lines' = lines, posted' = posted, history' = history
  PROVE  BalanceInv'
<1>1. /\ pc[r] = "decide" /\ copy[r] \in Copies
      /\ copy[r].header.status \in from /\ Sound(copy[r].header)
      /\ ~history.stale /\ r \in history.current => copy[r].header = header
      /\ pc \in [Requests -> Labels] /\ copy \in [Requests -> Copies] /\ Moves(r)
  BY Decides, StepMoves, TypeParts DEF TransferInv
<1>2. pc'[r] = "header" /\ copy'[r].header = h /\ copy'[r].lines = ls
  BY <1>1 DEF SaveCopy, Goto, Copies
<1>3. ~Busy(pc[r], copy[r]) /\ Busy(pc'[r], copy'[r])
  BY <1>1, <1>2, BusyLabels
<1>4. ASSUME ~history.stale, r \in history.current, Agrees(posted, header, lines)
      PROVE  Halfway(posted', header', lines', pc'[r], copy'[r])
  <2>1. /\ header.status # "RECEIVED" /\ header.dispatched = FALSE
        /\ h.dispatched = FALSE
    BY <1>1, <1>4 DEF Sound
  <2>2. Agrees(posted, h, ls)
    BY <1>4, <2>1, ClaimsNothing
  <2> QED
    BY <1>2, <2>2 DEF Halfway
<1> QED
  BY <1>1, <1>3, <1>4, BusyStep

LEMMA BeginSteps ==
  ASSUME TransferInv, BalanceInv, NEW r \in Requests, Step(r),
         \/ \E src, dst \in Locations, new \in SUBSET Lines :
              Create(r, src, dst, new) \/ Update(r, src, dst, new)
         \/ \E l \in Lines : AddLine(r, l)
         \/ Submit(r)
         \/ Cancel(r)
  PROVE  BalanceInv'
<1>t. /\ pc \in [Requests -> Labels] /\ copy \in [Requests -> Copies] /\ Moves(r)
  BY StepMoves, TypeParts DEF TransferInv
<1>1. ASSUME NEW src \in Locations, NEW dst \in Locations, NEW new \in SUBSET Lines,
             Create(r, src, dst, new)
      PROVE  BalanceInv'
  <2> DEFINE h == [status |-> "DRAFT", src |-> src, dst |-> dst, dispatched |-> FALSE]
  <2>1. /\ pc[r] = "idle" /\ pc'[r] = "header"
        /\ copy'[r] = [Idle EXCEPT !.header = h, !.lines = new]
        /\ header = NoTransfer /\ posted' = posted
    BY <1>1, <1>t DEF Create, Goto, TransferInv, StartInv
  <2>2. copy'[r].header = h
    BY <2>1 DEF Idle
  <2>3. ~Busy(pc[r], copy[r]) /\ Busy(pc'[r], copy'[r])
    BY <2>1, BusyLabels
  <2>4. ASSUME Agrees(posted, header, lines)
        PROVE  Halfway(posted', header', lines', pc'[r], copy'[r])
    <3>1. Agrees(posted, h, copy'[r].lines)
      BY <2>1, <2>4, ClaimsNothing
    <3> QED
      BY <2>1, <2>2, <3>1 DEF Halfway
  <2> QED
    BY <1>t, <2>3, <2>4, BusyStep
<1>2. ASSUME NEW src \in Locations, NEW dst \in Locations, NEW new \in SUBSET Lines,
             Update(r, src, dst, new)
      PROVE  BalanceInv'
  <2> DEFINE h == [copy[r].header EXCEPT !.src = src, !.dst = dst]
  <2>1. Deciding(r, "update", {"DRAFT"}) /\ SaveCopy(r, h, new)
    BY <1>2 DEF Update
  <2>2. h.status # "RECEIVED" /\ h.dispatched = copy[r].header.dispatched
    BY <2>1, Decides DEF Headers
  <2>3. header' = header /\ lines' = lines /\ posted' = posted /\ history' = history
    BY <1>2 DEF Update
  <2> HIDE DEF h
  <2> QED
    BY <2>1, <2>2, <2>3, SavingBalances
<1>3. ASSUME NEW l \in Lines, AddLine(r, l)
      PROVE  BalanceInv'
  <2>1. /\ Deciding(r, "addLine", {"DRAFT"})
        /\ SaveCopy(r, copy[r].header, copy[r].lines \cup {l})
    BY <1>3 DEF AddLine
  <2>2. copy[r].header.status # "RECEIVED"
    BY <2>1 DEF Deciding
  <2>3. header' = header /\ lines' = lines /\ posted' = posted /\ history' = history
    BY <1>3 DEF AddLine
  <2> QED
    BY <2>1, <2>2, <2>3, SavingBalances
<1>4. ASSUME Submit(r) PROVE BalanceInv'
  <2> DEFINE h == [copy[r].header EXCEPT !.status = "SUBMITTED"]
  <2>1. Deciding(r, "submit", {"DRAFT"}) /\ SaveCopy(r, h, copy[r].lines)
    BY <1>4 DEF Submit
  <2>2. h.status # "RECEIVED" /\ h.dispatched = copy[r].header.dispatched
    BY <2>1, Decides DEF Headers
  <2>3. header' = header /\ lines' = lines /\ posted' = posted /\ history' = history
    BY <1>4 DEF Submit
  <2> HIDE DEF h
  <2> QED
    BY <2>1, <2>2, <2>3, SavingBalances
<1>5. ASSUME Cancel(r) PROVE BalanceInv'
  <2> DEFINE h == [copy[r].header EXCEPT !.status = "CANCELLED"]
  <2>1. Deciding(r, "cancel", {"DRAFT", "SUBMITTED"}) /\ SaveCopy(r, h, copy[r].lines)
    BY <1>5 DEF Cancel
  <2>2. h.status # "RECEIVED" /\ h.dispatched = copy[r].header.dispatched
    BY <2>1, Decides DEF Headers
  <2>3. header' = header /\ lines' = lines /\ posted' = posted /\ history' = history
    BY <1>5 DEF Cancel
  <2> HIDE DEF h
  <2> QED
    BY <2>1, <2>2, <2>3, SavingBalances
<1> QED
  BY <1>1, <1>2, <1>3, <1>4, <1>5

\* Nothing of the new header is posted yet.
LEMMA PostingBegins ==
  ASSUME TransferInv, BalanceInv, NEW r \in Requests, Step(r),
         Dispatch(r) \/ Receive(r) \/ CancelDispatched(r)
  PROVE  BalanceInv'
<1>1. PICK op, from, h : Deciding(r, op, from) /\ PostLines(r, h)
  BY DEF Dispatch, Receive, CancelDispatched
<1>2. /\ pc[r] = "decide" /\ copy[r] \in Copies
      /\ ~history.stale /\ r \in history.current => copy[r].lines = lines
      /\ pc \in [Requests -> Labels] /\ copy \in [Requests -> Copies] /\ Moves(r)
  BY <1>1, Decides, StepMoves, TypeParts DEF TransferInv
<1>3. /\ pc'[r] = "post" /\ copy'[r].todo = copy[r].lines
      /\ header' = header /\ lines' = lines /\ posted' = posted /\ history' = history
  BY <1>1, <1>2 DEF PostLines, Goto, Copies
<1>4. ~Busy(pc[r], copy[r]) /\ Busy(pc'[r], copy'[r])
  BY <1>2, <1>3, BusyLabels
<1>5. ASSUME ~history.stale, r \in history.current, Agrees(posted, header, lines)
      PROVE  Halfway(posted', header', lines', pc'[r], copy'[r])
  <2>1. copy'[r].todo = lines
    BY <1>2, <1>3, <1>5
  <2>2. HalfPosted(posted, header, lines, copy'[r])
    BY <1>5, <2>1 DEF HalfPosted, Agrees, Claims
  <2> QED
    BY <1>3, <2>2 DEF Halfway
<1> QED
  BY <1>2, <1>3, <1>4, <1>5, BusyStep

LEMMA NetAfter ==
  ASSUME NEW old \in [Postings -> Nat], NEW p \in Postings,
         NEW new, \A q \in Postings : new[q] = old[q] + Ones(q = p),
         NEW l \in Lines, NEW at \in Locations
  PROVE  NetIn(new, l, at) =
           NetIn(old, l, at)
           + Ones(p = [type |-> "Receipt", line |-> l, at |-> at])
           - Ones(p = [type |-> "Issue", line |-> l, at |-> at])
<1> DEFINE in  == [type |-> "Receipt", line |-> l, at |-> at]
           out == [type |-> "Issue", line |-> l, at |-> at]
<1>1. /\ in \in Postings /\ out \in Postings /\ in # out
      /\ old[in] \in Nat /\ old[out] \in Nat
  BY PostingTyped
<1>2. CASE p = in
  BY <1>1, <1>2 DEF NetIn, Ones
<1>3. CASE p = out
  BY <1>1, <1>3 DEF NetIn, Ones
<1>4. CASE p # in /\ p # out
  BY <1>1, <1>4 DEF NetIn, Ones
<1> QED
  BY <1>2, <1>3, <1>4

\* One line more is posted, and its header claims it.
LEMMA PostBalances ==
  ASSUME TransferInv, BalanceInv, NEW r \in Requests, Step(r), NEW l \in Lines, Post(r, l)
  PROVE  BalanceInv'
<1>1. /\ pc[r] = "post" /\ l \in copy[r].todo /\ Posting(r)
      /\ posted' = [posted EXCEPT ![PostingOf(r, l)] = @ + 1]
      /\ copy' = [copy EXCEPT ![r].todo = @ \ {l}]
      /\ header' = header /\ lines' = lines /\ pc' = pc
  BY DEF Post
<1>2. /\ posted \in [Postings -> Nat] /\ history \in Histories
      /\ copy \in [Requests -> Copies] /\ copy[r] \in Copies
      /\ ~history.stale /\ r \in history.current =>
           Knows(posted, header, lines, "post", copy[r])
      /\ header \in Headers \cup {NoTransfer}
      /\ header # NoTransfer => Sound(header)
      /\ PostingOf(r, l) \in Postings
      /\ Moves(r)
  BY <1>1, UnderWay, StepMoves, PostingOfTyped
<1>3. /\ copy'[r].todo = copy[r].todo \ {l} /\ copy'[r].op = copy[r].op
      /\ copy'[r].header = copy[r].header /\ copy'[r].lines = copy[r].lines
  BY <1>1, <1>2 DEF Copies
<1>4. Busy(pc[r], copy[r]) /\ Busy(pc'[r], copy'[r])
  BY <1>1, BusyLabels
<1>5. ASSUME Orderly, r \in history'.current, ~history'.stale,
             HalfPosted(posted, header, lines, copy[r])
      PROVE  HalfPosted(posted', header, lines, copy'[r])
  <2> DEFINE op == copy[r].op
  <2>1. /\ header \in Headers /\ Sound(header)
        /\ op \in {"dispatch", "receive", "cancel"}
        /\ header.status \in From(op)
        /\ copy[r].header = Decided(op, header)
        /\ copy[r].lines = lines /\ copy[r].todo \subseteq lines
    BY <1>2, <1>5, PostingHistory, <1>1 DEF Knows, Unfinished
  <2>2. /\ copy[r].header.src = header.src /\ copy[r].header.dst = header.dst
        /\ header.src \in Locations /\ header.dst \in Locations
    BY <2>1, DecidedTyped, HeaderFields
  <2> SUFFICES ASSUME NEW k \in Lines, NEW at \in Locations
               PROVE  NetIn(posted', k, at) =
                        Claims(IF k \in copy'[r].todo THEN header ELSE copy'[r].header,
                               lines, k, at)
    BY DEF HalfPosted
  <2> DEFINE in  == [type |-> "Receipt", line |-> k, at |-> at]
             out == [type |-> "Issue", line |-> k, at |-> at]
             p   == PostingOf(r, l)
  <2>3. /\ in \in Postings /\ out \in Postings
        /\ posted[in] \in Nat /\ posted[out] \in Nat
    BY <1>2, PostingTyped
  <2>4. NetIn(posted, k, at) =
          Claims(IF k \in copy[r].todo THEN header ELSE copy[r].header, lines, k, at)
    BY <1>5 DEF HalfPosted
  <2>5. CASE k # l
    <3>1. in # p /\ out # p
      BY <2>5 DEF PostingOf
    <3>2. NetIn(posted', k, at) = NetIn(posted, k, at)
      BY <1>1, <1>2, <2>3, <3>1 DEF NetIn
    <3> QED
      BY <1>3, <2>4, <2>5, <3>2
  <2>6. CASE k = l /\ l \in lines
    <3> DEFINE effect == CASE op = "dispatch" -> - Ones(at = header.src)
                           [] op = "receive"  -> Ones(at = header.dst)
                           [] op = "cancel"   -> Ones(at = header.src)
    <3>1. Claims(Decided(op, header), lines, l, at) = Claims(header, lines, l, at) + effect
      BY <2>1, <2>6, PostingClaims
    <3>2. NetIn(posted', k, at) = NetIn(posted, k, at) + effect
      <4>1. NetIn(posted', k, at) = NetIn(posted, k, at) + Ones(p = in) - Ones(p = out)
        <5>1. /\ p \in Postings
              /\ \A q \in Postings : posted'[q] = posted[q] + Ones(q = p)
          BY <1>1, <1>2 DEF Ones
        <5> HIDE DEF p
        <5> QED
          BY <1>2, <5>1, NetAfter
      <4>2. CASE op = "dispatch"
        <5>1. p # in /\ (p = out <=> at = header.src)
          BY <2>2, <2>6, <4>2 DEF PostingOf
        <5>2. Ones(p = in) = 0 /\ Ones(p = out) = Ones(at = header.src)
          BY <5>1 DEF Ones
        <5> QED
          BY <2>3, <4>1, <4>2, <5>2 DEF NetIn, Ones
      <4>3. CASE op = "receive"
        <5>1. p # out /\ (p = in <=> at = header.dst)
          BY <2>2, <2>6, <4>3 DEF PostingOf
        <5>2. Ones(p = out) = 0 /\ Ones(p = in) = Ones(at = header.dst)
          BY <5>1 DEF Ones
        <5> QED
          BY <2>3, <4>1, <4>3, <5>2 DEF NetIn, Ones
      <4>4. CASE op = "cancel"
        <5>1. p # out /\ (p = in <=> at = header.src)
          BY <2>2, <2>6, <4>4 DEF PostingOf
        <5>2. Ones(p = out) = 0 /\ Ones(p = in) = Ones(at = header.src)
          BY <5>1 DEF Ones
        <5> QED
          BY <2>3, <4>1, <4>4, <5>2 DEF NetIn, Ones
      <4> QED
        BY <2>1, <4>2, <4>3, <4>4
    <3> QED
      BY <1>1, <1>3, <2>1, <2>4, <2>6, <3>1, <3>2
  <2> QED
    BY <2>1, <2>5, <2>6, <1>1
<1> QED
  BY <1>1, <1>2, <1>4, <1>5, BusyStep DEF Halfway

LEMMA PostingDoneBalances ==
  ASSUME TransferInv, BalanceInv, NEW r \in Requests, Step(r), PostingDone(r)
  PROVE  BalanceInv'
<1>1. /\ pc[r] = "post" /\ copy[r].todo = {} /\ copy' = copy
      /\ header' = header /\ lines' = lines /\ posted' = posted /\ history' = history
  BY DEF PostingDone
<1>2. /\ ~history.stale /\ r \in history.current => copy[r].lines = lines
      /\ pc \in [Requests -> Labels] /\ Moves(r)
  BY <1>1, UnderWay, StepMoves, TypeParts DEF Knows
<1>3. pc'[r] = "header"
  BY <1>2 DEF PostingDone, Goto
<1>4. Busy(pc[r], copy[r]) /\ Busy(pc'[r], copy'[r])
  BY <1>1, <1>3, BusyLabels
<1>5. ASSUME ~history.stale, r \in history.current,
             HalfPosted(posted, header, lines, copy[r])
      PROVE  Agrees(posted, copy[r].header, copy[r].lines)
  BY <1>1, <1>2, <1>5 DEF HalfPosted, Agrees
<1> QED
  BY <1>1, <1>2, <1>3, <1>4, <1>5, BusyStep DEF Halfway

LEMMA SavesBalance ==
  ASSUME TransferInv, BalanceInv, NEW r \in Requests, Step(r),
         \/ SaveHeader(r)
         \/ EraseLines(r)
         \/ \E l \in Lines : InsertLine(r, l)
         \/ DeleteRow(r)
  PROVE  BalanceInv'
<1>t. /\ pc \in [Requests -> Labels] /\ copy \in [Requests -> Copies]
      /\ history \in Histories /\ Moves(r)
  BY StepMoves, TypeParts DEF TransferInv
<1>w. /\ Writing(r) /\ posted' = posted
  BY DEF SaveHeader, EraseLines, InsertLine, DeleteRow
<1>h. /\ history'.current \subseteq {r}
      /\ ~history'.stale => ~history.stale /\ r \in history.current
  BY <1>t, <1>w, WritingHistory
<1>1. CASE SaveHeader(r)
  <2>1. /\ pc[r] = "header" /\ pc'[r] = "erase" /\ copy' = copy
        /\ Busy(pc[r], copy[r]) /\ Busy(pc'[r], copy'[r])
    BY <1>1, <1>t, BusyLabels DEF SaveHeader, Goto
  <2> QED
    BY <1>t, <1>w, <2>1, BusyStep DEF Halfway
<1>2. CASE EraseLines(r)
  <2>1. /\ pc[r] = "erase" /\ pc'[r] = "insert" /\ header' = header /\ lines' = {}
        /\ copy'[r].header = copy[r].header /\ copy'[r].lines = copy[r].lines
        /\ copy'[r].todo = copy[r].lines
        /\ Busy(pc[r], copy[r])
    BY <1>2, <1>t, BusyLabels DEF EraseLines, Goto, Copies
  <2>2. ~history.stale /\ r \in history.current => copy[r].header = header
    BY <2>1, UnderWay DEF Knows
  <2>3. CASE copy[r].lines = {}
    <3>1. ~Busy(pc'[r], copy'[r])
      BY <2>1, <2>3, BusyLabels
    <3>2. Halfway(posted, header, lines, pc[r], copy[r])
            => Agrees(posted', copy[r].header, lines')
      BY <1>w, <2>1, <2>3 DEF Halfway
    <3> QED
      BY <1>t, <1>h, <2>1, <2>2, <3>1, <3>2, WrittenStep
  <2>4. CASE copy[r].lines # {}
    <3>1. Busy(pc'[r], copy'[r])
      BY <2>1, <2>4, BusyLabels
    <3> QED
      BY <1>t, <1>w, <2>1, <3>1, BusyStep DEF Halfway
  <2> QED
    BY <2>3, <2>4
<1>3. CASE \E l \in Lines : InsertLine(r, l)
  <2>1. PICK l \in Lines : InsertLine(r, l)
    BY <1>3
  <2>2. /\ pc[r] = "insert" /\ pc'[r] = "insert" /\ l \in copy[r].todo
        /\ header' = header /\ lines' = lines \cup {l}
        /\ copy'[r].header = copy[r].header /\ copy'[r].lines = copy[r].lines
        /\ copy'[r].todo = copy[r].todo \ {l}
    BY <2>1, <1>t DEF InsertLine, Copies
  <2>3. Busy(pc[r], copy[r])
    BY <2>2, BusyLabels
  <2>4. ~history.stale /\ r \in history.current =>
          /\ copy[r].header = header
          /\ copy[r].todo \subseteq copy[r].lines
          /\ lines = copy[r].lines \ copy[r].todo
    BY <2>2, UnderWay DEF Knows
  <2>5. CASE copy[r].todo = {l}
    <3>1. ~Busy(pc'[r], copy'[r])
      BY <2>2, <2>5, BusyLabels
    <3>2. ASSUME ~history.stale, r \in history.current,
                 Halfway(posted, header, lines, pc[r], copy[r])
          PROVE  Agrees(posted', header', lines')
      <4>1. header' = copy[r].header /\ lines' = copy[r].lines
        BY <2>2, <2>4, <2>5, <3>2
      <4> QED
        BY <1>w, <2>2, <3>2, <4>1 DEF Halfway
    <3> QED
      BY <1>t, <1>h, <2>3, <3>1, <3>2, WrittenStep
  <2>6. CASE copy[r].todo # {l}
    <3>1. Busy(pc'[r], copy'[r])
      BY <2>2, <2>6, BusyLabels
    <3> QED
      BY <1>t, <1>w, <2>2, <2>3, <3>1, BusyStep DEF Halfway
  <2> QED
    BY <2>5, <2>6
<1>4. CASE DeleteRow(r)
  <2>1. /\ pc[r] = "delete" /\ pc'[r] = "idle" /\ header' = NoTransfer
        /\ ~Busy(pc[r], copy[r]) /\ ~Busy(pc'[r], copy'[r])
    BY <1>4, <1>t, BusyLabels DEF DeleteRow, Finish, Goto
  <2>2. ~history.stale /\ r \in history.current =>
          header.status # "RECEIVED" /\ header.dispatched = FALSE
    BY <2>1, UnderWay DEF Knows, Sound
  <2>3. ~history.stale /\ r \in history.current /\ Agrees(posted, header, lines)
          => Agrees(posted', header', lines')
    BY <1>w, <2>1, <2>2, ClaimsNothing
  <2> QED
    BY <1>t, <1>h, <2>1, <2>3, WrittenStep
<1> QED
  BY <1>1, <1>2, <1>3, <1>4

LEMMA BalanceInit == Init => BalanceInv
<1> SUFFICES ASSUME Init PROVE Agrees(posted, header, lines) /\
                               \A r \in Requests : ~Busy(pc[r], copy[r])
  BY DEF BalanceInv
<1>1. \A r \in Requests : pc[r] = "idle"
  BY DEF Init
<1>2. ASSUME NEW l \in Lines, NEW at \in Locations
      PROVE  NetIn(posted, l, at) = Claims(header, lines, l, at)
  <2>1. /\ posted = [p \in Postings |-> 0]
        /\ [type |-> "Receipt", line |-> l, at |-> at] \in Postings
        /\ [type |-> "Issue", line |-> l, at |-> at] \in Postings
    BY PostingTyped DEF Init
  <2>2. NetIn(posted, l, at) = 0
    BY <2>1 DEF NetIn
  <2>3. Claims(header, lines, l, at) = 0
    BY DEF Init, Claims
  <2> QED
    BY <2>2, <2>3
<1> QED
  BY <1>1, <1>2, BusyLabels DEF Agrees

LEMMA BalanceStutter == BalanceInv /\ UNCHANGED vars => BalanceInv'
  BY DEF BalanceInv, Orderly, Doomed, vars

LEMMA BalanceStep == TransferInv /\ BalanceInv /\ [Next]_vars => BalanceInv'
<1> SUFFICES ASSUME TransferInv, BalanceInv, Next PROVE BalanceInv'
  BY BalanceStutter
<1>1. PICK r \in Requests : Step(r)
  BY DEF Next
<1>2. CASE \/ \E op \in Operations : LoadHeader(r, op)
           \/ LoadLines(r)
           \/ Delete(r)
           \/ EndSave(r)
  BY <1>1, <1>2, CalmSteps
<1>3. CASE \/ \E src, dst \in Locations, new \in SUBSET Lines :
                Create(r, src, dst, new) \/ Update(r, src, dst, new)
           \/ \E l \in Lines : AddLine(r, l)
           \/ Submit(r)
           \/ Cancel(r)
  BY <1>1, <1>3, BeginSteps
<1>4. CASE Dispatch(r) \/ Receive(r) \/ CancelDispatched(r)
  BY <1>1, <1>4, PostingBegins
<1>5. CASE (\E l \in Lines : Post(r, l)) \/ PostingDone(r)
  BY <1>1, <1>5, PostBalances, PostingDoneBalances
<1>6. CASE \/ SaveHeader(r)
           \/ EraseLines(r)
           \/ \E l \in Lines : InsertLine(r, l)
           \/ DeleteRow(r)
  BY <1>1, <1>6, SavesBalance
<1>7. CASE Abort(r)
  BY <1>1, <1>7, AbortBalances
<1> QED
  BY <1>1, <1>2, <1>3, <1>4, <1>5, <1>6, <1>7 DEF Step

\* Once every request has ended, none of them on an overtaken copy and none cut
\* short, the ledger holds of each line at each location exactly what the
\* stored transfer says was moved, however the requests interleaved.
THEOREM BooksMatchDocument == Spec => []BooksFollowDocument
<1>1. TransferInv /\ BalanceInv => BooksFollowDocument
  <2> SUFFICES ASSUME BalanceInv, ~history.stale, ~history.cut, Quiet,
                      NEW l \in Lines, NEW at \in Locations
               PROVE  Net(l, at) = Claimed(l, at)
    BY DEF BooksFollowDocument
  <2>1. \A r \in Requests : ~Busy(pc[r], copy[r])
    BY BusyLabels DEF Quiet
  <2>2. Agrees(posted, header, lines)
    BY <2>1 DEF BalanceInv, Orderly, Doomed
  <2>3. NetIn(posted, l, at) = Claims(header, lines, l, at)
    BY <2>2 DEF Agrees
  <2> QED
    BY <2>3 DEF NetIn, Claims, Net, Posted, Claimed, Exists
<1>2. Spec => []BalanceInv
  BY BalanceInit, BalanceStep, Invariance, PTL DEF Spec
<1> QED
  BY <1>1, <1>2, Invariance, PTL

=============================================================================
