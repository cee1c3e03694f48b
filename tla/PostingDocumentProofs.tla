----------------------- MODULE PostingDocumentProofs -----------------------
(***************************************************************************)
(* What PostingDocument guarantees for any number of requests and lines,   *)
(* and for each kind of document.                                          *)
(*                                                                         *)
(* The argument is that of WarehouseTransferProofs: a current request      *)
(* knows the tables (Knows), and a document is saved as in effect only     *)
(* when its lines are in the books (Booked).  Of the rules of a kind it    *)
(* needs two facts: none leaves a final status, and one that leads to a    *)
(* status in effect posts, or starts from such a status (RuleFacts).       *)
(*                                                                         *)
(* So is the argument for the exact counts: of one request the ledger      *)
(* agrees with the stored status for the lines it has yet to post and with *)
(* its copy for the others (BalanceInv), and of two that are half way one  *)
(* will act on an overtaken copy or be cut short (Doomed).  A rule turns   *)
(* what the ledger holds of a line over, or leaves it (Turns).  What was   *)
(* posted of lines deleted through another return is kept apart (Gone):    *)
(* no current copy has such a line (FreshInv).                             *)
(***************************************************************************)
EXTENDS PostingDocument, TLAPS

Histories == [current : SUBSET Requests, stale : BOOLEAN, cut : BOOLEAN,
              started : Nat, erased : SUBSET Lines]

Final == {"COMPLETED", "POSTED"}

\* The lines ls have been posted.
Booked(books, ls) ==
  \A l \in ls \ PostsNothing : books["Issue"][l] + books["Receipt"][l] > 0

\* What is true of the tables s, ls and the books when a current request with
\* copy c is about to make the statement "label".
Knows(books, s, ls, label, c) ==
  /\ label \in {"load", "decide"} => c.status = s
  /\ label = "decide" => c.lines = ls
  /\ label = "post" =>
       /\ s \notin Final
       /\ c.type \in Types
       /\ c.status # NoDocument
       /\ c.lines = ls
       /\ Booked(books, ls \ c.todo)
  /\ label = "header" =>
       /\ s \notin Final
       /\ c.status # NoDocument
       /\ ls \subseteq c.lines
       /\ c.status \in InEffect => Booked(books, ls) /\ Booked(books, c.lines)
  /\ label = "eraseLine" =>
       /\ s \notin InEffect
       /\ c.status \notin InEffect \cup {NoDocument}
       /\ ls \ c.todo \subseteq c.lines
  /\ label \in {"eraseLines", "eraseHeader"} => s \notin InEffect
  /\ label = "lines" =>
       /\ c.status = s
       /\ c.todo \subseteq c.lines
       /\ ls \subseteq c.lines /\ c.lines \ c.todo \subseteq ls
       /\ s \in InEffect => Booked(books, c.lines)

KnowledgeInv ==
  ~history.stale =>
    /\ status \in InEffect => Booked(posted, lines)
    /\ status = NoDocument => lines = {}
    /\ \A r \in history.current : Knows(posted, status, lines, pc[r], copy[r])

DocumentInv == TypeOK /\ KnowledgeInv

\* A posting of type t undoes the effect of the document, or puts it in effect.
Turns(k, t, s, to) ==
  IF k = "supplierReturn" /\ t = "Receipt"
  THEN s \in InEffect /\ to \notin InEffect
  ELSE s \notin InEffect /\ to \in InEffect

-----------------------------------------------------------------------------

LEMMA TypeParts ==
  ASSUME TypeOK
  PROVE  /\ kind \in Kinds
         /\ status \in Statuses \cup {NoDocument}
         /\ lines \in SUBSET Lines
         /\ given \in SUBSET Lines
         /\ posted \in [Types -> [Lines -> Nat]]
         /\ pc \in [Requests -> Labels]
         /\ copy \in [Requests -> Copies]
         /\ history \in Histories
  BY DEF TypeOK, Histories

LEMMA CopyFields ==
  ASSUME NEW c \in Copies
  PROVE  /\ c.op \in Operations
         /\ c.status \in Statuses \cup {NoDocument}
         /\ c.lines \in SUBSET Lines
         /\ c.todo \in SUBSET Lines
         /\ c.type \in Types \cup {"nothing"}
         /\ c.chained \in BOOLEAN
  BY DEF Copies

LEMMA IdleTyped == Idle \in Copies
  BY DEF Idle, Copies, Operations

LEMMA RuleFacts ==
  ASSUME kind \in Kinds, NEW rule \in Rules
  PROVE  /\ rule.op \in Operations
         /\ rule.to \in Statuses
         /\ rule.posts \in Types \cup {"nothing"}
         /\ rule.from \cap Final = {}
         /\ rule.posts = "nothing" =>
              \A s \in rule.from : s \in InEffect <=> rule.to \in InEffect
         /\ rule.posts \in Types =>
              \A s \in rule.from : Turns(kind, rule.posts, s, rule.to)
         /\ rule.to \in InEffect /\ rule.posts = "nothing" => rule.from \subseteq InEffect
<1>1. CASE kind = "supplierReturn"
  BY <1>1 DEF Rules, SupplierReturnRules, Quietly, Rule, Operations, Statuses, Types,
     Final, InEffect, Turns
<1>2. CASE kind = "stockCount"
  BY <1>2 DEF Rules, StockCountRules, Quietly, Rule, Operations, Statuses, Types,
     Final, InEffect, Turns
<1>3. CASE kind = "consumption"
  BY <1>3 DEF Rules, ConsumptionRules, Rule, Operations, Statuses, Types,
     Final, InEffect, Turns
<1>4. CASE kind = "finishedGoods"
  BY <1>4 DEF Rules, FinishedGoodsRules, Rule, Operations, Statuses, Types,
     Final, InEffect, Turns
<1> QED
  BY <1>1, <1>2, <1>3, <1>4, KindsAssumption

-----------------------------------------------------------------------------
(* The bookkeeping of the history. *)

LEMMA HistoryFields ==
  ASSUME history \in Histories
  PROVE  /\ history.current \in SUBSET Requests
         /\ history.stale \in BOOLEAN
         /\ history.cut \in BOOLEAN
         /\ history.started \in Nat
         /\ history.erased \in SUBSET Lines
  BY DEF Histories

LEMMA StartedHistory ==
  ASSUME history \in Histories, NEW r \in Requests, Started(r)
  PROVE  /\ history' \in Histories
         /\ history'.current = history.current \cup {r}
         /\ history'.stale = history.stale
         /\ history'.cut = history.cut
         /\ history'.erased = history.erased
<1>1. history.current \cup {r} \in SUBSET Requests /\ history.started + 1 \in Nat
  BY HistoryFields
<1>2. history' = [history EXCEPT !.current = @ \cup {r}, !.started = @ + 1]
  BY DEF Started
<1> QED
  BY <1>1, <1>2 DEF Histories

LEMMA WritingHistory ==
  ASSUME history \in Histories, NEW r \in Requests, Writing(r)
  PROVE  /\ history' \in Histories
         /\ history'.current \subseteq {r}
         /\ ~history'.stale => ~history.stale /\ r \in history.current
         /\ history'.cut = history.cut
         /\ history'.erased = history.erased
<1>1. PICK b \in BOOLEAN :
        /\ b = (history.stale \/ r \notin history.current)
        /\ history' = [history EXCEPT !.current = @ \cap {r}, !.stale = b]
  BY DEF Writing
<1>2. history.current \cap {r} \in SUBSET Requests
  BY HistoryFields
<1>3. history' \in Histories
  BY <1>1, <1>2 DEF Histories
<1>4. /\ history'.current = history.current \cap {r} /\ history'.stale = b
      /\ history'.cut = history.cut /\ history'.erased = history.erased
  BY <1>1 DEF Histories
<1> QED
  BY <1>1, <1>3, <1>4

\* What Post does to the history.
LEMMA PostingHistory ==
  ASSUME history \in Histories, NEW r \in Requests,
         history' = [history EXCEPT !.stale = @ \/ r \notin history.current]
  PROVE  /\ history' \in Histories
         /\ history'.current = history.current
         /\ ~history'.stale => ~history.stale /\ r \in history.current
         /\ history'.cut = history.cut
         /\ history'.erased = history.erased
<1>1. PICK b \in BOOLEAN : /\ b = (history.stale \/ r \notin history.current)
                           /\ history' = [history EXCEPT !.stale = b]
  OBVIOUS
<1> QED
  BY <1>1 DEF Histories

-----------------------------------------------------------------------------
(* The books only grow. *)

Grows(old, new) == \A t \in Types, l \in Lines : new[t][l] >= old[t][l]

LEMMA BookedGrows ==
  ASSUME NEW old \in [Types -> [Lines -> Nat]], NEW new \in [Types -> [Lines -> Nat]],
         Grows(old, new), NEW ls \in SUBSET Lines, Booked(old, ls)
  PROVE  Booked(new, ls)
<1> SUFFICES ASSUME NEW l \in ls \ PostsNothing
             PROVE  new["Issue"][l] + new["Receipt"][l] > 0
  BY DEF Booked
<1>1. old["Issue"][l] + old["Receipt"][l] > 0
  BY DEF Booked
<1>2. /\ old["Issue"][l] \in Nat /\ old["Receipt"][l] \in Nat
      /\ new["Issue"][l] \in Nat /\ new["Receipt"][l] \in Nat
      /\ new["Issue"][l] >= old["Issue"][l]
      /\ new["Receipt"][l] >= old["Receipt"][l]
  BY DEF Grows, Types
<1> QED
  BY <1>1, <1>2

LEMMA KnowledgeGrows ==
  ASSUME NEW old \in [Types -> [Lines -> Nat]], NEW new \in [Types -> [Lines -> Nat]],
         Grows(old, new), NEW s, NEW ls \in SUBSET Lines, NEW label, NEW c \in Copies,
         Knows(old, s, ls, label, c)
  PROVE  Knows(new, s, ls, label, c)
<1>1. /\ c.lines \in SUBSET Lines
      /\ ls \ c.todo \in SUBSET Lines
  BY CopyFields
<1>2. /\ Booked(old, ls \ c.todo) => Booked(new, ls \ c.todo)
      /\ Booked(old, c.lines) => Booked(new, c.lines)
      /\ Booked(old, ls) => Booked(new, ls)
  BY <1>1, BookedGrows
<1> QED
  BY <1>2 DEF Knows

-----------------------------------------------------------------------------
(* From what an action of r does to the invariant. *)

CopyStep(r, c, label) ==
  /\ c \in Copies
  /\ label \in Labels
  /\ copy' = [copy EXCEPT ![r] = c]
  /\ pc' = [pc EXCEPT ![r] = label]

LEMMA CopyStepTyped ==
  ASSUME TypeOK, NEW r \in Requests, NEW c, NEW label, CopyStep(r, c, label)
  PROVE  /\ pc' \in [Requests -> Labels]
         /\ copy' \in [Requests -> Copies]
         /\ pc'[r] = label /\ copy'[r] = c
         /\ \A q \in Requests \ {r} : pc'[q] = pc[q] /\ copy'[q] = copy[q]
  BY TypeParts DEF CopyStep

\* A step that leaves the tables alone.
LEMMA QuietStep ==
  ASSUME DocumentInv, NEW r \in Requests, NEW c, NEW label, CopyStep(r, c, label),
         UNCHANGED <<kind, document>>, given' \in SUBSET Lines,
         posted' \in [Types -> [Lines -> Nat]], Grows(posted, posted'),
         history' \in Histories, history'.current \subseteq history.current \cup {r},
         ~history'.stale => ~history.stale,
         ~history'.stale /\ r \in history'.current =>
           Knows(posted', status, lines, label, c)
  PROVE  DocumentInv'
<1>1. TypeOK
  BY DEF DocumentInv
<1>2. /\ kind \in Kinds
      /\ status \in Statuses \cup {NoDocument}
      /\ lines \in SUBSET Lines
      /\ posted \in [Types -> [Lines -> Nat]]
      /\ copy \in [Requests -> Copies]
      /\ history \in Histories
  BY <1>1, TypeParts
<1>3. /\ pc' \in [Requests -> Labels]
      /\ copy' \in [Requests -> Copies]
      /\ pc'[r] = label /\ copy'[r] = c
      /\ \A q \in Requests \ {r} : pc'[q] = pc[q] /\ copy'[q] = copy[q]
  BY <1>1, CopyStepTyped
<1>4. kind' = kind /\ status' = status /\ lines' = lines
  BY DEF document
<1>5. TypeOK'
  BY <1>2, <1>3, <1>4 DEF TypeOK, Histories
<1>6. KnowledgeInv'
  <2> SUFFICES ASSUME ~history'.stale
               PROVE  /\ status \in InEffect => Booked(posted', lines)
                      /\ status = NoDocument => lines = {}
                      /\ \A q \in history'.current :
                           Knows(posted', status, lines, pc'[q], copy'[q])
    BY <1>4 DEF KnowledgeInv
  <2>1. /\ status \in InEffect => Booked(posted', lines)
        /\ status = NoDocument => lines = {}
    BY <1>2, BookedGrows DEF DocumentInv, KnowledgeInv
  <2>2. ASSUME NEW q \in history'.current
        PROVE  Knows(posted', status, lines, pc'[q], copy'[q])
    <3>1. CASE q = r
      BY <1>3, <2>2, <3>1
    <3>2. CASE q # r
      <4>1. q \in history.current /\ q \in Requests
        BY <1>2, <3>2, HistoryFields
      <4>2. Knows(posted, status, lines, pc[q], copy[q])
        BY <4>1 DEF DocumentInv, KnowledgeInv
      <4>3. Knows(posted', status, lines, pc[q], copy[q])
        BY <1>2, <4>1, <4>2, KnowledgeGrows
      <4> QED
        BY <1>3, <3>2, <4>1, <4>3
    <3> QED
      BY <3>1, <3>2
  <2> QED
    BY <2>1, <2>2
<1> QED
  BY <1>5, <1>6 DEF DocumentInv

\* A step that writes to the tables.
LEMMA WriteStep ==
  ASSUME DocumentInv, NEW r \in Requests, NEW c, NEW label, CopyStep(r, c, label),
         Writing(r), UNCHANGED <<kind, given, posted>>,
         status' \in Statuses \cup {NoDocument}, lines' \in SUBSET Lines,
         ~history.stale /\ r \in history.current =>
           /\ status' \in InEffect => Booked(posted, lines')
           /\ status' = NoDocument => lines' = {}
           /\ Knows(posted, status', lines', label, c)
  PROVE  DocumentInv'
<1>1. TypeOK
  BY DEF DocumentInv
<1>2. /\ kind \in Kinds
      /\ given \in SUBSET Lines
      /\ posted \in [Types -> [Lines -> Nat]]
      /\ history \in Histories
  BY <1>1, TypeParts
<1>3. /\ pc' \in [Requests -> Labels]
      /\ copy' \in [Requests -> Copies]
      /\ pc'[r] = label /\ copy'[r] = c
  BY <1>1, CopyStepTyped
<1>4. /\ history' \in Histories
      /\ history'.current \subseteq {r}
      /\ ~history'.stale => ~history.stale /\ r \in history.current
  BY <1>2, WritingHistory
<1>5. TypeOK'
  BY <1>2, <1>3, <1>4 DEF TypeOK, Histories
<1>6. KnowledgeInv'
  BY <1>3, <1>4 DEF KnowledgeInv
<1> QED
  BY <1>5, <1>6 DEF DocumentInv

\* What is known when r is about to make its next statement.
LEMMA UnderWay ==
  ASSUME DocumentInv, NEW r \in Requests
  PROVE  /\ TypeOK
         /\ status \in Statuses \cup {NoDocument}
         /\ lines \in SUBSET Lines
         /\ given \in SUBSET Lines
         /\ posted \in [Types -> [Lines -> Nat]]
         /\ Grows(posted, posted)
         /\ copy \in [Requests -> Copies]
         /\ pc \in [Requests -> Labels]
         /\ copy[r] \in Copies
         /\ copy[r].op \in Operations
         /\ copy[r].status \in Statuses \cup {NoDocument}
         /\ copy[r].lines \in SUBSET Lines
         /\ copy[r].todo \in SUBSET Lines
         /\ history \in Histories
         /\ ~history.stale => (status \in InEffect => Booked(posted, lines))
         /\ ~history.stale => (status = NoDocument => lines = {})
         /\ ~history.stale /\ r \in history.current =>
              Knows(posted, status, lines, pc[r], copy[r])
<1>1. TypeOK /\ copy[r] \in Copies
  BY TypeParts DEF DocumentInv
<1>2. posted \in [Types -> [Lines -> Nat]]
  BY <1>1, TypeParts
<1>3. Grows(posted, posted)
  <2> SUFFICES ASSUME NEW t \in Types, NEW l \in Lines
               PROVE  posted[t][l] >= posted[t][l]
    BY DEF Grows
  <2>1. posted[t][l] \in Nat
    BY <1>2
  <2> QED
    BY <2>1
<1>4. /\ ~history.stale => (status \in InEffect => Booked(posted, lines))
      /\ ~history.stale => (status = NoDocument => lines = {})
      /\ ~history.stale /\ r \in history.current =>
           Knows(posted, status, lines, pc[r], copy[r])
  BY DEF DocumentInv, KnowledgeInv
<1> QED
  BY <1>1, <1>3, <1>4, TypeParts, CopyFields

\* A step of r that only decides: the tables and the books stay.
LEMMA LocalStep ==
  ASSUME DocumentInv, NEW r \in Requests, NEW c, NEW label, CopyStep(r, c, label),
         UNCHANGED <<kind, document, posted, history>>, given' \in SUBSET Lines,
         ~history.stale /\ r \in history.current =>
           Knows(posted, status, lines, label, c)
  PROVE  DocumentInv'
<1>1. posted' = posted /\ history' = history
  OBVIOUS
<1> QED
  BY <1>1, UnderWay, QuietStep

-----------------------------------------------------------------------------
(* Creating, loading, giving up. *)

LEMMA StartingSteps ==
  ASSUME DocumentInv, NEW r \in Requests
  PROVE  /\ Create(r) => DocumentInv'
         /\ \A op \in Offered : LoadHeader(r, op) => DocumentInv'
         /\ ReloadHeader(r) => DocumentInv'
         /\ LoadLines(r) => DocumentInv'
         /\ Abort(r) => DocumentInv'
<1>t. /\ status \in Statuses \cup {NoDocument}
      /\ kind \in Kinds
      /\ lines \in SUBSET Lines
      /\ given \in SUBSET Lines
      /\ posted \in [Types -> [Lines -> Nat]]
      /\ Grows(posted, posted)
      /\ copy \in [Requests -> Copies]
      /\ copy[r] \in Copies
      /\ history \in Histories
      /\ ~history.stale => (status = NoDocument => lines = {})
  BY UnderWay, TypeParts
<1>1. ASSUME Create(r) PROVE DocumentInv'
  <2> DEFINE c == [Idle EXCEPT !.status = "DRAFT"]
  <2>1. c.status = "DRAFT" /\ c \in Copies
    BY IdleTyped DEF Idle, Copies, Statuses
  <2>2. CopyStep(r, c, "header")
    BY <1>1, <2>1 DEF Create, Goto, CopyStep, Labels
  <2> HIDE DEF c
  <2>3. ~history.stale => Knows(posted, status, lines, "header", c)
    BY <1>1, <1>t, <2>1, NoDocumentAssumption
       DEF Create, Knows, Final, InEffect, Statuses
  <2>4. /\ history' \in Histories
        /\ history'.current = history.current \cup {r}
        /\ history'.stale = history.stale
    BY <1>1, <1>t, StartedHistory DEF Create
  <2>5. UNCHANGED <<kind, document>> /\ given' = given /\ posted' = posted
    BY <1>1 DEF Create
  <2> QED
    BY <1>t, <2>2, <2>3, <2>4, <2>5, QuietStep
<1>2. ASSUME NEW op \in Offered, LoadHeader(r, op) PROVE DocumentInv'
  <2> DEFINE c == [Idle EXCEPT !.op = op, !.status = status,
                               !.chained = op = "complete"]
  <2>1. op \in Operations
    <3>1. \A rule \in Rules : rule.op \in Operations
      BY <1>t, RuleFacts
    <3> QED
      BY <3>1, <1>t, KindsAssumption DEF Offered, Operations
  <2>2. c.status = status /\ c \in Copies
    BY <1>t, <2>1, IdleTyped DEF Idle, Copies
  <2>3. CopyStep(r, c, "load")
    BY <1>2, <2>2 DEF LoadHeader, Goto, CopyStep, Labels
  <2> HIDE DEF c
  <2>4. Knows(posted, status, lines, "load", c)
    BY <2>2 DEF Knows
  <2>5. /\ history' \in Histories
        /\ history'.current = history.current \cup {r}
        /\ history'.stale = history.stale
    BY <1>2, <1>t, StartedHistory DEF LoadHeader
  <2>6. UNCHANGED <<kind, document>> /\ given' = given /\ posted' = posted
    BY <1>2 DEF LoadHeader
  <2> QED
    BY <1>t, <2>3, <2>4, <2>5, <2>6, QuietStep
<1>3. ASSUME ReloadHeader(r) PROVE DocumentInv'
  <2> DEFINE c == [copy[r] EXCEPT !.status = status]
  <2>1. c \in Copies /\ c.status = status
    BY <1>t DEF Copies
  <2>2. CopyStep(r, c, "load")
    BY <1>3, <1>t, <2>1 DEF ReloadHeader, Goto, CopyStep, Labels
  <2> HIDE DEF c
  <2>3. Knows(posted, status, lines, "load", c)
    BY <2>1 DEF Knows
  <2>4. /\ history' \in Histories
        /\ history'.current = history.current \cup {r}
        /\ history'.stale = history.stale
    <3>1. history' = [history EXCEPT !.current = @ \cup {r}]
      BY <1>3 DEF ReloadHeader
    <3>2. history.current \cup {r} \in SUBSET Requests
      BY <1>t, HistoryFields
    <3> QED
      BY <1>t, <3>1, <3>2 DEF Histories
  <2>5. UNCHANGED <<kind, document>> /\ given' = given /\ posted' = posted
    BY <1>3 DEF ReloadHeader
  <2> QED
    BY <1>t, <2>2, <2>3, <2>4, <2>5, QuietStep
<1>4. ASSUME LoadLines(r) PROVE DocumentInv'
  <2> DEFINE c == [copy[r] EXCEPT !.lines = lines]
  <2>1. c \in Copies /\ c.status = copy[r].status /\ c.lines = lines
    BY <1>t DEF Copies
  <2>2. CopyStep(r, c, "decide")
    BY <1>4, <1>t, <2>1 DEF LoadLines, Goto, CopyStep, Labels
  <2> HIDE DEF c
  <2>3. ~history.stale /\ r \in history.current =>
          Knows(posted, status, lines, "decide", c)
    BY <1>4, <2>1, UnderWay DEF LoadLines, Knows
  <2>4. UNCHANGED <<kind, document, posted, history>> /\ given' = given
    BY <1>4 DEF LoadLines
  <2> QED
    BY <1>t, <2>2, <2>3, <2>4, LocalStep
<1>5. ASSUME Abort(r) PROVE DocumentInv'
  <2>1. CopyStep(r, Idle, "idle")
    BY <1>5, IdleTyped DEF Abort, Proceed, Goto, CopyStep, Labels
  <2>2. Knows(posted, status, lines, "idle", Idle)
    BY DEF Knows
  <2>3. /\ history' \in Histories
        /\ history'.current = history.current
        /\ history'.stale = history.stale
    <3>1. PICK b \in BOOLEAN : history' = [history EXCEPT !.cut = b]
      BY <1>5, <1>t DEF Abort, Histories
    <3> QED
      BY <1>t, <3>1 DEF Histories
  <2>4. UNCHANGED <<kind, document>> /\ given' = given /\ posted' = posted
    BY <1>5 DEF Abort
  <2> QED
    BY <1>t, <2>1, <2>2, <2>3, <2>4, QuietStep
<1> QED
  BY <1>1, <1>2, <1>3, <1>4, <1>5

-----------------------------------------------------------------------------
(* The operations. *)

LEMMA FollowStep ==
  ASSUME DocumentInv, NEW r \in Requests, NEW rule \in Rules, Follow(r, rule)
  PROVE  DocumentInv'
<1> DEFINE todo == IF rule.posts = "nothing" THEN {} ELSE copy[r].lines \ PostsNothing
           c == [copy[r] EXCEPT !.status = rule.to, !.todo = todo, !.type = rule.posts]
           label == IF todo = {} THEN "header" ELSE "post"
<1>1. /\ rule.to \in Statuses
      /\ rule.posts \in Types \cup {"nothing"}
      /\ rule.from \cap Final = {}
      /\ rule.to \in InEffect /\ rule.posts = "nothing" => rule.from \subseteq InEffect
  BY RuleFacts, TypeParts DEF DocumentInv
<1>2. /\ copy \in [Requests -> Copies] /\ copy[r] \in Copies
      /\ copy[r].lines \in SUBSET Lines
      /\ given \in SUBSET Lines
  BY UnderWay
<1>3. todo \in SUBSET Lines
  BY <1>2
<1>4. /\ c \in Copies /\ c.status = rule.to /\ c.todo = todo /\ c.type = rule.posts
      /\ c.lines = copy[r].lines
  <2> HIDE DEF todo
  <2> QED
    BY <1>1, <1>2, <1>3 DEF Copies
<1>5. copy' = [copy EXCEPT ![r] = c]
  BY <1>2 DEF Follow
<1>6. pc' = [pc EXCEPT ![r] = label] /\ label \in Labels
  BY DEF Follow, Goto, Labels
<1> HIDE DEF c
<1>7. CopyStep(r, c, label)
  BY <1>4, <1>5, <1>6 DEF CopyStep
<1>8. ASSUME ~history.stale, r \in history.current
      PROVE  Knows(posted, status, lines, label, c)
  <2>1. /\ copy[r].status = status /\ copy[r].lines = lines
        /\ status \in rule.from
        /\ status \in InEffect => Booked(posted, lines)
    BY <1>8, UnderWay DEF Follow, Deciding, Knows
  <2>2. status \notin Final
    BY <1>1, <2>1
  <2>3. CASE todo = {}
    <3>1. rule.to \in InEffect => Booked(posted, lines)
      <4>1. CASE rule.posts = "nothing"
        BY <1>1, <2>1, <4>1
      <4>2. CASE rule.posts # "nothing"
        BY <2>1, <2>3, <4>2 DEF Booked
      <4> QED
        BY <4>1, <4>2
    <3>2. label = "header"
      BY <2>3
    <3> HIDE DEF label, todo
    <3> QED
      BY <1>1, <1>4, <2>1, <2>2, <3>1, <3>2, NoDocumentAssumption DEF Knows
  <2>4. CASE todo # {}
    <3>1. rule.posts \in Types /\ Booked(posted, lines \ todo)
      BY <1>1, <2>1, <2>4 DEF Booked
    <3>2. label = "post"
      BY <2>4
    <3> HIDE DEF label, todo
    <3> QED
      BY <1>1, <1>4, <2>1, <2>2, <3>1, <3>2, NoDocumentAssumption DEF Knows
  <2> QED
    BY <2>3, <2>4
<1>9. UNCHANGED <<kind, document, posted, history>> /\ given' = given
  BY DEF Follow
<1> HIDE DEF label
<1> QED
  BY <1>2, <1>7, <1>8, <1>9, LocalStep

LEMMA DecidingSteps ==
  ASSUME DocumentInv, NEW r \in Requests
  PROVE  /\ \A l \in Lines : AddLine(r, l) => DocumentInv'
         /\ \A l \in Lines : RemoveLine(r, l) => DocumentInv'
         /\ Complete(r) => DocumentInv'
         /\ Delete(r) => DocumentInv'
<1>t. /\ copy \in [Requests -> Copies] /\ copy[r] \in Copies
      /\ copy[r].status \in Statuses \cup {NoDocument}
      /\ copy[r].lines \in SUBSET Lines
      /\ given \in SUBSET Lines
      /\ ~history.stale /\ r \in history.current =>
           Knows(posted, status, lines, pc[r], copy[r])
  BY UnderWay
<1>1. ASSUME NEW l \in Lines, AddLine(r, l) PROVE DocumentInv'
  <2> DEFINE s == WithLine(copy[r].status)
             c == [copy[r] EXCEPT !.status = s, !.lines = @ \cup {l}]
  <2>1. /\ copy[r].status \in {"DRAFT", "ASSIGNED", "COUNTING", "SUBMITTED", "APPROVED"}
        /\ pc[r] = "decide"
    BY <1>1 DEF AddLine, Deciding, LinesOpen
  <2>2. s \in Statuses /\ s \notin InEffect
    BY <2>1 DEF WithLine, Statuses, InEffect
  <2> HIDE DEF s
  <2>3. c \in Copies /\ c.status = s /\ c.lines = copy[r].lines \cup {l}
    BY <1>t, <2>2 DEF Copies
  <2>4. CopyStep(r, c, "header")
    BY <1>1, <1>t, <2>3 DEF AddLine, Goto, CopyStep, Labels, s
  <2> HIDE DEF c
  <2>5. ~history.stale /\ r \in history.current =>
          Knows(posted, status, lines, "header", c)
    BY <1>t, <2>1, <2>2, <2>3, NoDocumentAssumption DEF Knows, Final
  <2>6. UNCHANGED <<kind, document, posted, history>> /\ given' \in SUBSET Lines
    BY <1>1, <1>t DEF AddLine
  <2> QED
    BY <2>4, <2>5, <2>6, LocalStep
<1>2. ASSUME NEW l \in Lines, RemoveLine(r, l) PROVE DocumentInv'
  <2> DEFINE c == [copy[r] EXCEPT !.lines = @ \ {l}, !.todo = {l}]
  <2>1. copy[r].status = "DRAFT" /\ pc[r] = "decide"
    BY <1>2 DEF RemoveLine, Deciding
  <2>2. /\ c \in Copies /\ c.status = "DRAFT"
        /\ c.lines = copy[r].lines \ {l} /\ c.todo = {l}
    BY <1>t, <2>1 DEF Copies
  <2>3. CopyStep(r, c, "eraseLine")
    BY <1>2, <1>t, <2>2 DEF RemoveLine, Goto, CopyStep, Labels
  <2> HIDE DEF c
  <2>4. ~history.stale /\ r \in history.current =>
          Knows(posted, status, lines, "eraseLine", c)
    BY <1>t, <2>1, <2>2, NoDocumentAssumption DEF Knows, Final, InEffect, Statuses
  <2>5. UNCHANGED <<kind, document, posted, history>> /\ given' = given
    BY <1>2 DEF RemoveLine
  <2> QED
    BY <1>t, <2>3, <2>4, <2>5, LocalStep
<1>3. ASSUME Complete(r) PROVE DocumentInv'
  <2>1. pc[r] = "decide"
    BY <1>3 DEF Complete, Deciding
  <2>2. UNCHANGED <<kind, document, posted, history>> /\ given' = given
    BY <1>3 DEF Complete
  <2>3. CASE /\ copy[r].status = "DRAFT"
             /\ copy' = [copy EXCEPT ![r].op = "approve", ![r].status = "APPROVED"]
             /\ Goto(r, "header")
    <3> DEFINE c == [copy[r] EXCEPT !.op = "approve", !.status = "APPROVED"]
    <3>1. c \in Copies /\ c.status = "APPROVED" /\ c.lines = copy[r].lines
      BY <1>t DEF Copies, Operations, Statuses
    <3>2. CopyStep(r, c, "header")
      BY <1>t, <2>3, <3>1 DEF Goto, CopyStep, Labels
    <3> HIDE DEF c
    <3>3. ~history.stale /\ r \in history.current =>
            Knows(posted, status, lines, "header", c)
      BY <1>t, <2>1, <2>3, <3>1, NoDocumentAssumption
         DEF Knows, Final, InEffect, Statuses
    <3> QED
      BY <1>t, <2>2, <3>2, <3>3, LocalStep
  <2>4. ASSUME NEW op \in {"dispatch", "settle"},
               copy' = [copy EXCEPT ![r].op = op], Goto(r, "reload")
        PROVE  DocumentInv'
    <3> DEFINE c == [copy[r] EXCEPT !.op = op]
    <3>1. c \in Copies
      BY <1>t DEF Copies, Operations
    <3>2. CopyStep(r, c, "reload")
      BY <1>t, <2>4, <3>1 DEF Goto, CopyStep, Labels
    <3> HIDE DEF c
    <3>3. Knows(posted, status, lines, "reload", c)
      BY DEF Knows
    <3> QED
      BY <1>t, <2>2, <3>2, <3>3, LocalStep
  <2> QED
    BY <1>3, <2>3, <2>4 DEF Complete
<1>4. ASSUME Delete(r) PROVE DocumentInv'
  <2>1. pc[r] = "decide" /\ copy[r].status \in {"DRAFT", "CANCELLED"}
    BY <1>4 DEF Delete, Deciding
  <2>2. copy' = [copy EXCEPT ![r] = copy[r]]
    BY <1>4, <1>t DEF Delete
  <2>3. CopyStep(r, copy[r], "eraseLines")
    BY <1>4, <1>t, <2>2 DEF Delete, Goto, CopyStep, Labels
  <2>4. ~history.stale /\ r \in history.current =>
          Knows(posted, status, lines, "eraseLines", copy[r])
    BY <1>t, <2>1 DEF Knows, InEffect
  <2>5. UNCHANGED <<kind, document, posted, history>> /\ given' = given
    BY <1>4 DEF Delete
  <2> QED
    BY <1>t, <2>3, <2>4, <2>5, LocalStep
<1> QED
  BY <1>1, <1>2, <1>3, <1>4

-----------------------------------------------------------------------------
(* Posting. *)

\* One line is posted with the type t.
LEMMA PostEffect ==
  ASSUME posted \in [Types -> [Lines -> Nat]], NEW t \in Types \cup {"nothing"},
         NEW l \in Lines, posted' = [posted EXCEPT ![t][l] = @ + 1]
  PROVE  /\ posted' \in [Types -> [Lines -> Nat]]
         /\ Grows(posted, posted')
         /\ t \in Types => posted'["Issue"][l] + posted'["Receipt"][l] > 0
<1>1. \A u \in Types, k \in Lines : posted[u][k] \in Nat
  OBVIOUS
<1>2. CASE t \in Types
  <2>1. posted' \in [Types -> [Lines -> Nat]]
    BY <1>1, <1>2
  <2>2. \A u \in Types, k \in Lines :
          posted'[u][k] = IF u = t /\ k = l THEN posted[u][k] + 1 ELSE posted[u][k]
    BY <1>2
  <2>3. Grows(posted, posted')
    BY <1>1, <2>2 DEF Grows
  <2>4. posted'["Issue"][l] + posted'["Receipt"][l] > 0
    BY <1>1, <1>2, <2>2 DEF Types
  <2> QED
    BY <2>1, <2>3, <2>4
<1>3. CASE t \notin Types
  <2>1. posted' = posted
    BY <1>3
  <2>2. Grows(posted, posted')
    BY <1>1, <2>1 DEF Grows
  <2> QED
    BY <1>3, <2>1, <2>2
<1> QED
  BY <1>2, <1>3

LEMMA PostStep ==
  ASSUME DocumentInv, NEW r \in Requests, NEW l \in Lines, Post(r, l)
  PROVE  DocumentInv'
<1> DEFINE rest == copy[r].todo \ {l}
           c == [copy[r] EXCEPT !.todo = rest]
           label == IF rest = {} THEN "header" ELSE "post"
<1>1. pc[r] = "post"
  BY DEF Post
<1>2. /\ lines \in SUBSET Lines /\ given \in SUBSET Lines
      /\ posted \in [Types -> [Lines -> Nat]]
      /\ copy \in [Requests -> Copies] /\ copy[r] \in Copies
      /\ copy[r].todo \in SUBSET Lines
      /\ copy[r].type \in Types \cup {"nothing"}
      /\ history \in Histories
      /\ ~history.stale /\ r \in history.current =>
           Knows(posted, status, lines, "post", copy[r])
  BY <1>1, UnderWay, CopyFields
<1>3. /\ c \in Copies /\ c.status = copy[r].status /\ c.type = copy[r].type
      /\ c.lines = copy[r].lines /\ c.todo = rest
  BY <1>2 DEF Copies
<1>4. copy' = [copy EXCEPT ![r] = c]
  BY <1>2 DEF Post
<1>5. CopyStep(r, c, label)
  <2> HIDE DEF c
  <2> QED
    BY <1>3, <1>4 DEF Post, Goto, CopyStep, Labels
<1> HIDE DEF c
<1>6. /\ history' \in Histories
      /\ history'.current = history.current
      /\ ~history'.stale => ~history.stale /\ r \in history.current
  BY <1>2, PostingHistory DEF Post
<1>7. /\ posted' \in [Types -> [Lines -> Nat]]
      /\ Grows(posted, posted')
      /\ copy[r].type \in Types => posted'["Issue"][l] + posted'["Receipt"][l] > 0
  <2>1. posted' = [posted EXCEPT ![copy[r].type][l] = @ + 1]
    BY DEF Post
  <2> QED
    BY <1>2, <2>1, PostEffect
<1>8. ASSUME ~history'.stale
      PROVE  Knows(posted', status, lines, label, c)
  <2>1. /\ status \notin Final
        /\ copy[r].type \in Types
        /\ copy[r].lines = lines
        /\ copy[r].status # NoDocument
        /\ Booked(posted, lines \ copy[r].todo)
    BY <1>2, <1>6, <1>8 DEF Knows
  <2>2. Booked(posted', lines \ copy[r].todo)
    BY <1>2, <1>7, <2>1, BookedGrows
  <2>3. Booked(posted', lines \ rest)
    BY <1>7, <2>1, <2>2 DEF Booked
  <2>4. CASE rest = {}
    <3>1. label = "header" /\ Booked(posted', lines)
      BY <2>3, <2>4
    <3> HIDE DEF label
    <3> QED
      BY <1>3, <2>1, <3>1 DEF Knows
  <2>5. CASE rest # {}
    <3>1. label = "post"
      BY <2>5
    <3> HIDE DEF label, rest
    <3> QED
      BY <1>3, <2>1, <2>3, <3>1 DEF Knows
  <2> QED
    BY <2>4, <2>5
<1>9. UNCHANGED <<kind, document>> /\ given' = given
  BY DEF Post
<1> HIDE DEF label
<1> QED
  BY <1>2, <1>5, <1>6, <1>7, <1>8, <1>9, QuietStep

-----------------------------------------------------------------------------
(* Saving and deleting. *)

\* What follows a saved row is known, too: in another round nothing is.
LEMMA AfterSaveStep ==
  ASSUME DocumentInv, NEW r \in Requests, NEW rest \in SUBSET Lines, AfterSave(r, rest)
  PROVE  \E c, label :
           /\ CopyStep(r, c, label)
           /\ \A s, ls :
                /\ s = copy[r].status
                /\ rest \subseteq copy[r].lines
                /\ ls \subseteq copy[r].lines /\ copy[r].lines \ rest \subseteq ls
                /\ s \in InEffect => Booked(posted, copy[r].lines)
                => Knows(posted, s, ls, label, c)
<1>1. copy[r] \in Copies
  BY UnderWay
<1>2. CASE rest # {}
  <2> DEFINE c == [copy[r] EXCEPT !.todo = rest]
  <2>1. /\ c \in Copies /\ c.status = copy[r].status
        /\ c.lines = copy[r].lines /\ c.todo = rest
    BY <1>1 DEF Copies
  <2>2. CopyStep(r, c, "lines")
    BY <1>2, <2>1 DEF AfterSave, Proceed, Goto, CopyStep, Labels
  <2> HIDE DEF c
  <2>3. \A s, ls :
          /\ s = copy[r].status
          /\ rest \subseteq copy[r].lines
          /\ ls \subseteq copy[r].lines /\ copy[r].lines \ rest \subseteq ls
          /\ s \in InEffect => Booked(posted, copy[r].lines)
          => Knows(posted, s, ls, "lines", c)
    BY <2>1 DEF Knows
  <2> QED
    BY <2>2, <2>3
<1>3. CASE rest = {} /\ copy[r].chained /\ copy[r].op # "settle"
  <2> DEFINE c == [copy[r] EXCEPT !.op = NextOp(@), !.todo = {}]
  <2>1. c \in Copies
    BY <1>1 DEF Copies, NextOp, Operations
  <2>2. CopyStep(r, c, "reload")
    BY <1>3, <2>1 DEF AfterSave, Proceed, Goto, CopyStep, Labels
  <2> HIDE DEF c
  <2>3. \A s, ls : Knows(posted, s, ls, "reload", c)
    BY DEF Knows
  <2> QED
    BY <2>2, <2>3
<1>4. CASE rest = {} /\ ~(copy[r].chained /\ copy[r].op # "settle")
  <2>1. CopyStep(r, Idle, "idle")
    BY <1>4, IdleTyped DEF AfterSave, Proceed, Goto, CopyStep, Labels
  <2>2. \A s, ls : Knows(posted, s, ls, "idle", Idle)
    BY DEF Knows
  <2> QED
    BY <2>1, <2>2
<1> QED
  BY <1>2, <1>3, <1>4

LEMMA SavedSteps ==
  ASSUME DocumentInv, NEW r \in Requests
  PROVE  /\ SaveHeader(r) => DocumentInv'
         /\ \A l \in Lines : SaveLine(r, l) => DocumentInv'
         /\ EraseLine(r) => DocumentInv'
         /\ EraseLines(r) => DocumentInv'
         /\ EraseHeader(r) => DocumentInv'
<1>t. /\ status \in Statuses \cup {NoDocument}
      /\ lines \in SUBSET Lines
      /\ copy \in [Requests -> Copies] /\ copy[r] \in Copies
      /\ copy[r].status \in Statuses \cup {NoDocument}
      /\ copy[r].lines \in SUBSET Lines
      /\ copy[r].todo \in SUBSET Lines
      /\ ~history.stale => (status \in InEffect => Booked(posted, lines))
      /\ ~history.stale => (status = NoDocument => lines = {})
      /\ ~history.stale /\ r \in history.current =>
           Knows(posted, status, lines, pc[r], copy[r])
  BY UnderWay
<1>1. ASSUME SaveHeader(r) PROVE DocumentInv'
  <2>1. PICK c, label :
          /\ CopyStep(r, c, label)
          /\ \A s, ls :
               /\ s = copy[r].status
               /\ copy[r].lines \subseteq copy[r].lines
               /\ ls \subseteq copy[r].lines
               /\ copy[r].lines \ copy[r].lines \subseteq ls
               /\ s \in InEffect => Booked(posted, copy[r].lines)
               => Knows(posted, s, ls, label, c)
    <3>1. AfterSave(r, copy[r].lines)
      BY <1>1 DEF SaveHeader
    <3> QED
      BY <1>t, <3>1, AfterSaveStep
  <2>2. /\ status' = copy[r].status /\ lines' = lines /\ Writing(r)
        /\ UNCHANGED <<kind, given, posted>>
    BY <1>1 DEF SaveHeader
  <2>3. ~history.stale /\ r \in history.current =>
          /\ copy[r].status # NoDocument /\ lines \subseteq copy[r].lines
          /\ copy[r].status \in InEffect =>
               Booked(posted, lines) /\ Booked(posted, copy[r].lines)
    BY <1>1, <1>t DEF SaveHeader, Knows
  <2> QED
    BY <1>t, <2>1, <2>2, <2>3, WriteStep
<1>2. ASSUME NEW l \in Lines, SaveLine(r, l) PROVE DocumentInv'
  <2>1. pc[r] = "lines" /\ l \in copy[r].todo /\ AfterSave(r, copy[r].todo \ {l})
    BY <1>2 DEF SaveLine
  <2>2. PICK c, label :
          /\ CopyStep(r, c, label)
          /\ \A s, ls :
               /\ s = copy[r].status
               /\ copy[r].todo \ {l} \subseteq copy[r].lines
               /\ ls \subseteq copy[r].lines
               /\ copy[r].lines \ (copy[r].todo \ {l}) \subseteq ls
               /\ s \in InEffect => Booked(posted, copy[r].lines)
               => Knows(posted, s, ls, label, c)
    <3>1. copy[r].todo \ {l} \in SUBSET Lines
      BY <1>t
    <3> QED
      BY <2>1, <3>1, AfterSaveStep
  <2>3. /\ status' = status /\ lines' = lines \cup {l} /\ Writing(r)
        /\ UNCHANGED <<kind, given, posted>> /\ status # NoDocument
    BY <1>2 DEF SaveLine
  <2>4. ASSUME ~history.stale, r \in history.current
        PROVE  /\ status' \in InEffect => Booked(posted, lines')
               /\ status' = NoDocument => lines' = {}
               /\ Knows(posted, status', lines', label, c)
    <3>1. /\ copy[r].status = status
          /\ copy[r].todo \subseteq copy[r].lines
          /\ lines \subseteq copy[r].lines
          /\ copy[r].lines \ copy[r].todo \subseteq lines
          /\ status \in InEffect => Booked(posted, copy[r].lines)
      BY <1>t, <2>1, <2>4 DEF Knows
    <3>2. status \in InEffect => Booked(posted, lines \cup {l})
      BY <1>t, <2>1, <2>4, <3>1 DEF Booked
    <3>3. /\ lines' \subseteq copy[r].lines
          /\ copy[r].lines \ (copy[r].todo \ {l}) \subseteq lines'
          /\ copy[r].todo \ {l} \subseteq copy[r].lines
      BY <2>1, <2>3, <3>1
    <3> QED
      BY <2>2, <2>3, <3>1, <3>2, <3>3
  <2> QED
    BY <1>t, <2>2, <2>3, <2>4, WriteStep
<1>3. ASSUME EraseLine(r) PROVE DocumentInv'
  <2>1. /\ pc[r] = "eraseLine"
        /\ status' = status /\ lines' = lines \ copy[r].todo /\ Writing(r)
        /\ UNCHANGED <<kind, given, posted>>
    BY <1>3 DEF EraseLine
  <2>2. CopyStep(r, copy[r], "header")
    BY <1>3, <1>t DEF EraseLine, Goto, CopyStep, Labels
  <2>3. ~history.stale /\ r \in history.current =>
          /\ status' \in InEffect => Booked(posted, lines')
          /\ status' = NoDocument => lines' = {}
          /\ Knows(posted, status', lines', "header", copy[r])
    BY <1>t, <2>1 DEF Knows, Booked, InEffect, Final
  <2> QED
    BY <1>t, <2>1, <2>2, <2>3, WriteStep
<1>4. ASSUME EraseLines(r) PROVE DocumentInv'
  <2>1. /\ pc[r] = "eraseLines"
        /\ status' = status /\ lines' = {} /\ Writing(r)
        /\ UNCHANGED <<kind, given, posted>>
    BY <1>4 DEF EraseLines
  <2>2. CopyStep(r, copy[r], "eraseHeader")
    BY <1>4, <1>t DEF EraseLines, Goto, CopyStep, Labels
  <2>3. ~history.stale /\ r \in history.current =>
          /\ status' \in InEffect => Booked(posted, lines')
          /\ status' = NoDocument => lines' = {}
          /\ Knows(posted, status', lines', "eraseHeader", copy[r])
    BY <1>t, <2>1 DEF Knows, Booked, InEffect, Final
  <2> QED
    BY <1>t, <2>1, <2>2, <2>3, WriteStep
<1>5. ASSUME EraseHeader(r) PROVE DocumentInv'
  <2>1. /\ status' = NoDocument /\ lines' = {} /\ Writing(r)
        /\ UNCHANGED <<kind, given, posted>>
    BY <1>5 DEF EraseHeader
  <2>2. CopyStep(r, Idle, "idle")
    BY <1>5, IdleTyped DEF EraseHeader, Proceed, Goto, CopyStep, Labels
  <2>3. /\ Booked(posted, lines')
        /\ Knows(posted, status', lines', "idle", Idle)
    BY <2>1 DEF Knows, Booked
  <2> QED
    BY <2>1, <2>2, <2>3, WriteStep
<1> QED
  BY <1>1, <1>2, <1>3, <1>4, <1>5

\* A line is deleted from elsewhere: nobody is current any more.
LEMMA ElsewhereHistory ==
  ASSUME history \in Histories, NEW l \in Lines, EraseElsewhere(l)
  PROVE  /\ history' \in Histories
         /\ history'.current = {}
         /\ history'.stale = history.stale
         /\ history'.cut = history.cut
         /\ history'.erased = IF Effective THEN history.erased \cup {l}
                             ELSE history.erased
<1>1. PICK e \in SUBSET Lines :
        /\ e = IF Effective THEN history.erased \cup {l} ELSE history.erased
        /\ history' = [history EXCEPT !.current = {}, !.started = @ + 1, !.erased = e]
  BY HistoryFields DEF EraseElsewhere
<1>2. history.started + 1 \in Nat
  BY HistoryFields
<1> QED
  BY <1>1, <1>2 DEF Histories

LEMMA ElsewhereStep ==
  ASSUME DocumentInv, NEW l \in Lines, EraseElsewhere(l)
  PROVE  DocumentInv'
<1>1. /\ kind \in Kinds
      /\ status \in Statuses \cup {NoDocument}
      /\ lines \in SUBSET Lines
      /\ given \in SUBSET Lines
      /\ posted \in [Types -> [Lines -> Nat]]
      /\ pc \in [Requests -> Labels]
      /\ copy \in [Requests -> Copies]
      /\ history \in Histories
  BY TypeParts DEF DocumentInv
<1>2. /\ kind' = kind /\ status' = status /\ lines' = lines \ {l}
      /\ given' = given /\ posted' = posted /\ pc' = pc /\ copy' = copy
  BY DEF EraseElsewhere
<1>3. /\ history' \in Histories
      /\ history'.current = {}
      /\ history'.stale = history.stale
  BY <1>1, ElsewhereHistory
<1>4. TypeOK'
  BY <1>1, <1>2, <1>3 DEF TypeOK, Histories
<1>5. KnowledgeInv'
  BY <1>2, <1>3 DEF DocumentInv, KnowledgeInv, Booked
<1> QED
  BY <1>4, <1>5 DEF DocumentInv

-----------------------------------------------------------------------------
(* The theorems. *)

LEMMA InvInit == Init => DocumentInv
<1> SUFFICES ASSUME Init PROVE DocumentInv
  OBVIOUS
<1>1. /\ kind \in Kinds /\ given = lines
      /\ pc = [r \in Requests |-> "idle"]
      /\ copy = [r \in Requests |-> Idle]
      /\ history = [current |-> {}, stale |-> FALSE, cut |-> FALSE, started |-> 0,
                    erased |-> {}]
  BY DEF Init
<1>2. lines \in SUBSET Lines
  BY DEF Init
<1>3. status \in {NoDocument, "DRAFT", "APPROVED", "SUBMITTED", "DISPATCHED"}
  BY DEF Init
<1>4. posted = [t \in Types |-> [l \in Lines |->
        IF status = "DISPATCHED" /\ t = "Issue" /\ l \in lines \ PostsNothing
        THEN 1 ELSE 0]]
  BY DEF Init
<1>5. posted \in [Types -> [Lines -> Nat]]
  BY <1>4
<1>6. copy \in [Requests -> Copies]
  BY <1>1, IdleTyped
<1>7. TypeOK
  BY <1>1, <1>2, <1>3, <1>5, <1>6 DEF TypeOK, Statuses, Labels
<1>8. status \in InEffect => Booked(posted, lines)
  <2> SUFFICES ASSUME status \in InEffect, NEW l \in lines \ PostsNothing
               PROVE  posted["Issue"][l] + posted["Receipt"][l] > 0
    BY DEF Booked
  <2>1. status = "DISPATCHED"
    BY <1>3, NoDocumentAssumption DEF InEffect, Statuses
  <2>2. posted["Issue"][l] = 1 /\ posted["Receipt"][l] = 0
    BY <1>2, <1>4, <2>1 DEF Types
  <2> QED
    BY <2>2
<1>9. status = NoDocument => lines = {}
  BY NoDocumentAssumption DEF Init, Statuses
<1>10. KnowledgeInv
  BY <1>1, <1>8, <1>9 DEF KnowledgeInv
<1> QED
  BY <1>7, <1>10 DEF DocumentInv

LEMMA InvStutter == DocumentInv /\ UNCHANGED vars => DocumentInv'
<1> SUFFICES ASSUME DocumentInv, UNCHANGED vars PROVE DocumentInv'
  OBVIOUS
<1>1. TypeOK'
  BY DEF DocumentInv, TypeOK, vars
<1>2. KnowledgeInv'
  BY DEF DocumentInv, KnowledgeInv, vars
<1> QED
  BY <1>1, <1>2 DEF DocumentInv

LEMMA InvStep == DocumentInv /\ [Next]_vars => DocumentInv'
<1> SUFFICES ASSUME DocumentInv, Next PROVE DocumentInv'
  BY InvStutter
<1> SUFFICES ASSUME NEW r \in Requests, Step(r) PROVE DocumentInv'
  BY ElsewhereStep DEF Next
<1>2. CASE \/ Create(r)
           \/ \E op \in Offered : LoadHeader(r, op)
           \/ ReloadHeader(r)
           \/ LoadLines(r)
           \/ Abort(r)
  BY <1>2, StartingSteps
<1>3. CASE \/ \E rule \in Rules : Follow(r, rule)
           \/ \E l \in Lines : AddLine(r, l) \/ RemoveLine(r, l)
           \/ Complete(r)
           \/ Delete(r)
  BY <1>3, FollowStep, DecidingSteps
<1>4. CASE \/ \E l \in Lines : Post(r, l) \/ SaveLine(r, l)
           \/ SaveHeader(r)
           \/ EraseLine(r) \/ EraseLines(r) \/ EraseHeader(r)
  BY <1>4, PostStep, SavedSteps
<1> QED
  BY <1>2, <1>3, <1>4 DEF Step

LEMMA Invariance == Spec => []DocumentInv
  BY InvInit, InvStep, PTL DEF Spec

\* The services of the four documents: rows, copies and books keep their types.
THEOREM TypeCorrect == Spec => []TypeOK
<1>1. DocumentInv => TypeOK
  BY DEF DocumentInv
<1> QED
  BY <1>1, Invariance, PTL

\* Wherever requests die between the postings and the save: as long as none
\* acts on an overtaken copy, every line of a document that is dispatched,
\* completed or posted is in the ledger.
THEOREM EffectsArePosted == Spec => []EffectIsPosted
<1>1. DocumentInv => EffectIsPosted
  <2> SUFFICES ASSUME DocumentInv, ~history.stale, Effective, NEW l \in lines \ PostsNothing
               PROVE  posted["Issue"][l] + posted["Receipt"][l] > 0
    BY DEF EffectIsPosted
  <2>1. Booked(posted, lines)
    BY DEF DocumentInv, KnowledgeInv, Effective, InEffect
  <2> QED
    BY <2>1 DEF Booked
<1> QED
  BY <1>1, Invariance, PTL

\* Unless a request acts on an overtaken copy, a document that is completed or
\* posted keeps its status and is not posted again.
THEOREM EffectsAreFinal == Spec => EffectIsFinal
<1> DEFINE Stays == ~history'.stale /\ status \in Final =>
                      status' = status /\ posted' = posted
<1>1. DocumentInv /\ [Next]_vars => [Stays]_vars
  <2> SUFFICES ASSUME DocumentInv, Next, ~history'.stale, status \in Final
               PROVE  status' = status /\ posted' = posted
    BY DEF vars
  <2> SUFFICES ASSUME NEW r \in Requests, Step(r)
               PROVE  status' = status /\ posted' = posted
    BY DEF Next, EraseElsewhere
  <2>2. history \in Histories
    BY TypeParts DEF DocumentInv
  <2>3. CASE \E l \in Lines : Post(r, l)
    <3>1. /\ pc[r] = "post"
          /\ history' = [history EXCEPT !.stale = @ \/ r \notin history.current]
      BY <2>3 DEF Post
    <3>2. ~history.stale /\ r \in history.current
      BY <2>2, <3>1, PostingHistory
    <3>3. Knows(posted, status, lines, "post", copy[r])
      BY <3>1, <3>2, UnderWay
    <3> QED
      BY <3>3 DEF Knows
  <2>4. CASE SaveHeader(r) \/ EraseHeader(r)
    <3>1. pc[r] \in {"header", "eraseHeader"} /\ Writing(r)
      BY <2>4 DEF SaveHeader, EraseHeader
    <3>2. ~history.stale /\ r \in history.current
      BY <2>2, <3>1, WritingHistory
    <3>3. Knows(posted, status, lines, pc[r], copy[r])
      BY <3>2, UnderWay
    <3> QED
      BY <3>1, <3>3 DEF Knows, InEffect, Final
  <2>5. CASE ~(\E l \in Lines : Post(r, l)) /\ ~SaveHeader(r) /\ ~EraseHeader(r)
    BY <2>5
       DEF Step, Create, LoadHeader, ReloadHeader, LoadLines, Follow, AddLine,
           RemoveLine, Complete, Delete, SaveLine, EraseLine, EraseLines, Abort,
           document
  <2> QED
    BY <2>3, <2>4, <2>5
<1> QED
  BY <1>1, Invariance, PTL DEF EffectIsFinal, Spec, Final

-----------------------------------------------------------------------------
(* The books and the document, as in WarehouseTransferProofs: a busy request *)
(* posts or saves; two of them, or one that is no longer current, are        *)
(* doomed; and as long as nobody is, the books agree with the document, with *)
(* the copy that is being saved, or, line by line, with one of the two.      *)

\* What was posted of the lines that are gone.
Gone == history.erased \ PostsNothing

\* What the books hold of line l, the gone left aside.
StandingIn(k, gone, books, l) ==
  (IF k = "supplierReturn" THEN books["Issue"][l] - books["Receipt"][l]
   ELSE books["Issue"][l] + books["Receipt"][l])
  - (IF l \in gone THEN 1 ELSE 0)

\* What a document with status s and lines ls claims of line l.
Claims(s, ls, l) == IF s \in InEffect /\ l \in ls \ PostsNothing THEN 1 ELSE 0

Agrees(k, gone, books, s, ls) == \A l \in Lines : StandingIn(k, gone, books, l) = Claims(s, ls, l)

\* The lines still to be posted agree with the saved status s, the others with
\* that of copy c.
HalfPosted(k, gone, books, s, ls, c) ==
  /\ c.todo \subseteq ls \ PostsNothing
  /\ Turns(k, c.type, s, c.status)
  /\ \A l \in Lines :
       StandingIn(k, gone, books, l) = Claims(IF l \in c.todo THEN s ELSE c.status, ls, l)

Halfway(k, gone, books, s, ls, label, c) ==
  IF label = "post" THEN HalfPosted(k, gone, books, s, ls, c)
                    ELSE Agrees(k, gone, books, c.status, c.lines)

Busy(label) == label \in {"post", "header", "lines"}

Doomed ==
  \E r \in Requests :
    /\ Busy(pc[r])
    /\ \/ r \notin history.current
       \/ \E q \in Requests \ {r} : Busy(pc[q])

Orderly == ~history.stale /\ ~history.cut /\ ~Doomed

BalanceInv ==
  Orderly =>
    /\ (\A r \in Requests : ~Busy(pc[r])) => Agrees(kind, Gone, posted, status, lines)
    /\ \A r \in Requests : Busy(pc[r]) =>
         Halfway(kind, Gone, posted, status, lines, pc[r], copy[r])

\* What a step of r does to the requests and to the history.
Moves(r) ==
  /\ kind' = kind
  /\ Gone' = Gone
  /\ \A q \in Requests \ {r} : pc'[q] = pc[q] /\ copy'[q] = copy[q]
  /\ history'.current \subseteq history.current \cup {r}
  /\ history.stale => history'.stale
  /\ history.cut => history'.cut
  /\ Busy(pc[r]) /\ ~history'.stale /\ ~history'.cut =>
       /\ Busy(pc'[r]) \/ history'.current \subseteq {r}
       /\ r \notin history.current => Busy(pc'[r]) /\ r \notin history'.current

\* Who is doomed stays doomed until it shows.
LEMMA DoomStays ==
  ASSUME NEW r \in Requests, Moves(r), Orderly'
  PROVE  Orderly
<1>1. /\ ~history.stale /\ ~history.cut
      /\ ~history'.stale /\ ~history'.cut /\ ~Doomed'
  BY DEF Orderly, Moves
<1>2. ASSUME NEW p \in Requests, Busy(pc[p]), p \notin history.current
      PROVE  FALSE
  <2>1. Busy(pc'[p]) /\ p \notin history'.current
    BY <1>1, <1>2 DEF Moves
  <2> QED
    BY <1>1, <2>1 DEF Doomed
<1>3. ASSUME NEW p \in Requests, NEW q \in Requests \ {p},
             Busy(pc[p]), Busy(pc[q]), p # r
      PROVE  FALSE
  <2>1. Busy(pc'[p])
    BY <1>3 DEF Moves
  <2>2. p \in history'.current /\ ~Busy(pc'[q])
    BY <1>1, <2>1 DEF Doomed
  <2>3. q = r
    BY <1>3, <2>2 DEF Moves
  <2> QED
    BY <1>1, <1>3, <2>2, <2>3 DEF Moves
<1> QED
  BY <1>1, <1>2, <1>3 DEF Doomed, Orderly

\* What r finds when it makes a step of which no doom comes.
Found(r) ==
  IF Busy(pc[r]) THEN Halfway(kind, Gone, posted, status, lines, pc[r], copy[r])
                 ELSE Agrees(kind, Gone, posted, status, lines)

\* A step after which r is busy: it is the only one.
LEMMA BusyStep ==
  ASSUME NEW r \in Requests, Moves(r), BalanceInv, Busy(pc'[r]),
         Orderly /\ r \in history'.current /\ ~history'.stale /\ Found(r)
           => Halfway(kind, Gone, posted', status', lines', pc'[r], copy'[r])
  PROVE  BalanceInv'
<1> SUFFICES ASSUME Orderly'
             PROVE  \A q \in Requests : Busy(pc'[q]) =>
                      Halfway(kind, Gone, posted', status', lines', pc'[q], copy'[q])
  BY DEF BalanceInv, Moves
<1>1. Orderly
  BY DoomStays
<1>2. /\ r \in history'.current /\ ~history'.stale
      /\ \A q \in Requests \ {r} : ~Busy(pc'[q])
  BY DEF Orderly, Doomed
<1>3. \A q \in Requests \ {r} : ~Busy(pc[q])
  BY <1>2 DEF Moves
<1>4. Found(r)
  BY <1>1, <1>3 DEF BalanceInv, Found
<1>5. Halfway(kind, Gone, posted', status', lines', pc'[r], copy'[r])
  BY <1>1, <1>2, <1>4
<1> QED
  BY <1>2, <1>5

\* A step that writes to the tables, and leaves r with nothing to save.
LEMMA WrittenStep ==
  ASSUME NEW r \in Requests, Moves(r), BalanceInv, ~Busy(pc'[r]),
         history'.current \subseteq {r}, ~history'.stale => r \in history.current,
         Orderly /\ r \in history.current /\ ~history.stale /\ Found(r)
           => Agrees(kind, Gone, posted', status', lines')
  PROVE  BalanceInv'
<1> SUFFICES ASSUME Orderly'
             PROVE  /\ Agrees(kind, Gone, posted', status', lines')
                    /\ \A q \in Requests : ~Busy(pc'[q])
  BY DEF BalanceInv, Moves
<1>1. Orderly /\ ~history.stale /\ r \in history.current
  BY DoomStays DEF Orderly
<1>2. \A q \in Requests : ~Busy(pc'[q])
  BY DEF Orderly, Doomed
<1>3. \A q \in Requests \ {r} : ~Busy(pc[q])
  BY <1>2 DEF Moves
<1>4. Found(r)
  BY <1>1, <1>3 DEF BalanceInv, Found
<1> QED
  BY <1>1, <1>2, <1>4

\* A step of a request that was not busy and is not, and leaves books and
\* tables alone.
LEMMA CalmStep ==
  ASSUME NEW r \in Requests, Moves(r), BalanceInv, ~Busy(pc[r]), ~Busy(pc'[r]),
         status' = status, lines' = lines, posted' = posted
  PROVE  BalanceInv'
<1> SUFFICES ASSUME Orderly'
             PROVE  /\ (\A q \in Requests : ~Busy(pc'[q])) =>
                         Agrees(kind, Gone, posted, status, lines)
                    /\ \A q \in Requests : Busy(pc'[q]) =>
                         Halfway(kind, Gone, posted, status, lines, pc'[q], copy'[q])
  BY DEF BalanceInv, Moves
<1>1. Orderly
  BY DoomStays
<1>2. \A q \in Requests \ {r} : pc'[q] = pc[q] /\ copy'[q] = copy[q]
  BY DEF Moves
<1> QED
  BY <1>1, <1>2 DEF BalanceInv

LEMMA StepMoves ==
  ASSUME DocumentInv, NEW r \in Requests, Step(r)
  PROVE  Moves(r)
<1>t. /\ copy \in [Requests -> Copies]
      /\ pc \in [Requests -> Labels]
      /\ history \in Histories
  BY TypeParts DEF DocumentInv
<1>0. /\ kind' = kind
      /\ \A q \in Requests \ {r} : pc'[q] = pc[q] /\ copy'[q] = copy[q]
  BY <1>t DEF Step, Create, LoadHeader, ReloadHeader, LoadLines, Follow, AddLine,
              RemoveLine, Complete, Delete, Post, SaveHeader, SaveLine, EraseLine,
              EraseLines, EraseHeader, Abort, AfterSave, Proceed, Goto
<1>1. CASE Create(r) \/ \E op \in Offered : LoadHeader(r, op)
  <2>1. ~Busy(pc[r]) /\ Started(r)
    BY <1>1 DEF Create, LoadHeader, Busy
  <2> QED
    BY <1>t, <1>0, <2>1, StartedHistory DEF Moves, Gone
<1>2. CASE ReloadHeader(r)
  <2>1. ~Busy(pc[r]) /\ history' = [history EXCEPT !.current = @ \cup {r}]
    BY <1>2 DEF ReloadHeader, Busy
  <2>2. /\ history'.current = history.current \cup {r}
        /\ history'.stale = history.stale /\ history'.cut = history.cut
        /\ history'.erased = history.erased
    BY <1>t, <2>1 DEF Histories
  <2> QED
    BY <1>0, <2>1, <2>2 DEF Moves, Gone
<1>3. CASE \/ LoadLines(r)
           \/ \E rule \in Rules : Follow(r, rule)
           \/ \E l \in Lines : AddLine(r, l) \/ RemoveLine(r, l)
           \/ Complete(r)
           \/ Delete(r)
  <2>1. ~Busy(pc[r]) /\ history' = history
    BY <1>3 DEF LoadLines, Follow, AddLine, RemoveLine, Complete, Delete, Deciding, Busy
  <2> QED
    BY <1>0, <2>1 DEF Moves, Gone
<1>4. CASE \E l \in Lines : Post(r, l)
  <2>1. history' = [history EXCEPT !.stale = @ \/ r \notin history.current]
    BY <1>4 DEF Post
  <2>2. Busy(pc'[r])
    BY <1>4, <1>t DEF Post, Goto, Busy
  <2> QED
    BY <1>t, <1>0, <2>1, <2>2, PostingHistory DEF Moves, Gone
<1>5. CASE \/ \E l \in Lines : SaveLine(r, l)
           \/ SaveHeader(r)
           \/ EraseLine(r) \/ EraseLines(r) \/ EraseHeader(r)
  <2>1. Writing(r)
    BY <1>5 DEF SaveLine, SaveHeader, EraseLine, EraseLines, EraseHeader
  <2> QED
    BY <1>t, <1>0, <2>1, WritingHistory DEF Moves, Gone
<1>6. CASE Abort(r)
  <2>1. PICK b \in BOOLEAN :
          /\ history' = [history EXCEPT !.cut = b]
          /\ b = (history.cut \/ pc[r] \in {"post", "header", "lines", "eraseHeader"})
    BY <1>6 DEF Abort
  <2>2. /\ history'.current = history.current
        /\ history'.stale = history.stale
        /\ history'.cut = b
        /\ history'.erased = history.erased
    BY <1>t, <2>1 DEF Histories
  <2>3. ~history'.cut => ~history.cut /\ ~Busy(pc[r])
    BY <2>1, <2>2 DEF Busy
  <2> QED
    BY <1>0, <2>2, <2>3 DEF Moves, Gone
<1> QED
  BY <1>1, <1>2, <1>3, <1>4, <1>5, <1>6 DEF Step

-----------------------------------------------------------------------------
(* The books at each step. *)

LEMMA ClaimsNothing ==
  ASSUME NEW k, NEW gone, NEW books, NEW s, NEW t, NEW ls, NEW ks,
         s \notin InEffect, t \notin InEffect, Agrees(k, gone, books, s, ls)
  PROVE  Agrees(k, gone, books, t, ks)
  BY DEF Agrees, Claims

LEMMA CalmSteps ==
  ASSUME DocumentInv, BalanceInv, NEW r \in Requests, Step(r),
         \/ \E op \in Offered : LoadHeader(r, op)
         \/ ReloadHeader(r)
         \/ LoadLines(r)
         \/ \E l \in Lines : RemoveLine(r, l)
         \/ Complete(r) /\ copy[r].status # "DRAFT"
         \/ Delete(r)
  PROVE  BalanceInv'
<1>1. Moves(r) /\ pc \in [Requests -> Labels]
  BY StepMoves, TypeParts DEF DocumentInv
<1>2. status' = status /\ lines' = lines /\ posted' = posted
  BY DEF LoadHeader, ReloadHeader, LoadLines, RemoveLine, Complete, Delete, document
<1>3. ~Busy(pc[r])
  BY DEF LoadHeader, ReloadHeader, LoadLines, RemoveLine, Complete, Delete, Deciding, Busy
<1>4. ~Busy(pc'[r])
  BY <1>1 DEF LoadHeader, ReloadHeader, LoadLines, RemoveLine, Complete, Delete, Goto, Busy
<1> QED
  BY <1>1, <1>2, <1>3, <1>4, CalmStep

\* A request that ends halfway is cut short, or had nothing to do.
LEMMA AbortBalances ==
  ASSUME DocumentInv, BalanceInv, NEW r \in Requests, Step(r), Abort(r)
  PROVE  BalanceInv'
<1>1. Moves(r) /\ pc \in [Requests -> Labels] /\ history \in Histories
  BY StepMoves, TypeParts DEF DocumentInv
<1>2. ~Busy(pc'[r])
  BY <1>1 DEF Abort, Proceed, Goto, Busy
<1>3. status' = status /\ lines' = lines /\ posted' = posted
  BY DEF Abort, document
<1>4. CASE Busy(pc[r])
  <2>1. history' = [history EXCEPT !.cut = TRUE]
    BY <1>4 DEF Abort, Busy
  <2>2. history'.cut = TRUE
    BY <1>1, <2>1 DEF Histories
  <2> QED
    BY <2>2 DEF BalanceInv, Orderly
<1>5. CASE ~Busy(pc[r])
  BY <1>1, <1>2, <1>3, <1>5, CalmStep
<1> QED
  BY <1>4, <1>5

\* A document that is not in effect, and will not be, is to be saved.
LEMMA SavingBalances ==
  ASSUME DocumentInv, BalanceInv, NEW r \in Requests, Step(r),
         ~Busy(pc[r]), pc'[r] = "header", posted' = posted,
         ~history.stale /\ r \in history'.current =>
           status \notin InEffect /\ copy'[r].status \notin InEffect
  PROVE  BalanceInv'
<1>1. Moves(r) /\ Busy(pc'[r])
  BY StepMoves DEF Busy
<1>2. ASSUME Orderly, r \in history'.current, Agrees(kind, Gone, posted, status, lines)
      PROVE  Halfway(kind, Gone, posted', status', lines', pc'[r], copy'[r])
  <2>1. Agrees(kind, Gone, posted, copy'[r].status, copy'[r].lines)
    BY <1>2, ClaimsNothing DEF Orderly
  <2> QED
    BY <2>1 DEF Halfway
<1> QED
  BY <1>1, <1>2, BusyStep DEF Found

LEMMA BeginSteps ==
  ASSUME DocumentInv, BalanceInv, NEW r \in Requests, Step(r),
         \/ Create(r)
         \/ \E l \in Lines : AddLine(r, l)
         \/ Complete(r) /\ copy[r].status = "DRAFT"
         \/ EraseLine(r)
  PROVE  BalanceInv'
<1>t. /\ copy \in [Requests -> Copies] /\ copy[r] \in Copies
      /\ pc \in [Requests -> Labels] /\ history \in Histories
      /\ ~history.stale /\ r \in history.current =>
           Knows(posted, status, lines, pc[r], copy[r])
  BY UnderWay
<1>1. CASE Create(r)
  <2>1. /\ ~Busy(pc[r]) /\ pc'[r] = "header" /\ posted' = posted
        /\ status = NoDocument
        /\ copy'[r] = [Idle EXCEPT !.status = "DRAFT"]
    BY <1>1, <1>t DEF Create, Goto, Busy
  <2>2. copy'[r].status \notin InEffect
    BY <2>1 DEF Idle, InEffect
  <2>3. status \notin InEffect
    BY <2>1, NoDocumentAssumption DEF InEffect, Statuses
  <2> QED
    BY <2>1, <2>2, <2>3, SavingBalances
<1>2. CASE \E l \in Lines : AddLine(r, l)
  <2>1. PICK l \in Lines : AddLine(r, l)
    BY <1>2
  <2>2. /\ pc[r] = "decide" /\ pc'[r] = "header" /\ posted' = posted
        /\ history' = history
        /\ copy[r].status \in {"DRAFT", "ASSIGNED", "COUNTING", "SUBMITTED", "APPROVED"}
        /\ copy' = [copy EXCEPT ![r].status = WithLine(@), ![r].lines = @ \cup {l}]
    BY <2>1, <1>t DEF AddLine, Deciding, LinesOpen, Goto
  <2>3. copy'[r].status = WithLine(copy[r].status)
    BY <1>t, <2>2 DEF Copies
  <2>4. copy'[r].status \notin InEffect /\ copy[r].status \notin InEffect
    BY <2>2, <2>3 DEF WithLine, InEffect
  <2>5. ~history.stale /\ r \in history.current => copy[r].status = status
    BY <1>t, <2>2 DEF Knows
  <2> QED
    BY <2>2, <2>4, <2>5, SavingBalances DEF Busy
<1>3. CASE Complete(r) /\ copy[r].status = "DRAFT"
  <2>1. /\ pc[r] = "decide" /\ pc'[r] = "header" /\ posted' = posted
        /\ history' = history
        /\ copy'[r].status = "APPROVED"
    BY <1>3, <1>t DEF Complete, Deciding, Goto, Copies
  <2>2. ~history.stale /\ r \in history.current => status = "DRAFT"
    BY <1>t, <1>3, <2>1 DEF Knows
  <2> QED
    BY <2>1, <2>2, SavingBalances DEF Busy, InEffect
<1>4. CASE EraseLine(r)
  <2>1. /\ pc[r] = "eraseLine" /\ pc'[r] = "header" /\ posted' = posted
        /\ copy' = copy /\ history'.current \subseteq {r}
        /\ ~history'.stale => ~history.stale /\ r \in history.current
        /\ Moves(r)
    BY <1>4, <1>t, WritingHistory, StepMoves DEF EraseLine, Goto
  <2>2. ~history.stale /\ r \in history.current =>
          status \notin InEffect /\ copy[r].status \notin InEffect
    BY <1>t, <2>1 DEF Knows
  <2>3. ASSUME Orderly, ~history'.stale, Agrees(kind, Gone, posted, status, lines)
        PROVE  Halfway(kind, Gone, posted', status', lines', pc'[r], copy'[r])
    <3>1. Agrees(kind, Gone, posted, copy[r].status, copy[r].lines)
      BY <2>1, <2>2, <2>3, ClaimsNothing
    <3> QED
      BY <2>1, <3>1 DEF Halfway
  <2> QED
    BY <2>1, <2>3, BusyStep DEF Busy, Found
<1> QED
  BY <1>1, <1>2, <1>3, <1>4

\* An operation of the table begins: nothing of it is posted yet, and one that
\* posts nothing changes nothing of what the document claims.
LEMMA FollowBalances ==
  ASSUME DocumentInv, BalanceInv, NEW r \in Requests, Step(r),
         NEW rule \in Rules, Follow(r, rule)
  PROVE  BalanceInv'
<1> DEFINE todo == IF rule.posts = "nothing" THEN {} ELSE copy[r].lines \ PostsNothing
<1>1. /\ copy \in [Requests -> Copies] /\ copy[r] \in Copies
      /\ pc \in [Requests -> Labels]
      /\ rule.posts \in Types \cup {"nothing"}
      /\ rule.posts = "nothing" =>
           \A s \in rule.from : s \in InEffect <=> rule.to \in InEffect
      /\ rule.posts \in Types =>
           \A s \in rule.from : Turns(kind, rule.posts, s, rule.to)
      /\ Moves(r)
  BY UnderWay, RuleFacts, StepMoves, TypeParts
<1>2. /\ pc[r] = "decide" /\ pc'[r] = IF todo = {} THEN "header" ELSE "post"
      /\ copy[r].status \in rule.from
      /\ copy' = [copy EXCEPT ![r].status = rule.to, ![r].todo = todo,
                              ![r].type = rule.posts]
      /\ status' = status /\ lines' = lines /\ posted' = posted /\ history' = history
  BY <1>1 DEF Follow, Deciding, Goto, document
<1> HIDE DEF todo
<1>3. /\ copy'[r].status = rule.to /\ copy'[r].todo = todo
      /\ copy'[r].type = rule.posts /\ copy'[r].lines = copy[r].lines
  BY <1>1, <1>2 DEF Copies
<1>4. ~Busy(pc[r]) /\ Busy(pc'[r])
  BY <1>2 DEF Busy
<1>5. ASSUME Orderly, r \in history.current, Agrees(kind, Gone, posted, status, lines)
      PROVE  Halfway(kind, Gone, posted', status', lines', pc'[r], copy'[r])
  <2>1. copy[r].status = status /\ copy[r].lines = lines
    BY <1>2, <1>5, UnderWay DEF Orderly, Knows
  <2>2. CASE todo = {}
    <3>1. \A l \in Lines : Claims(status, lines, l) = Claims(rule.to, lines, l)
      <4>1. CASE rule.posts = "nothing"
        BY <1>1, <1>2, <2>1, <4>1 DEF Claims
      <4>2. CASE rule.posts # "nothing"
        BY <2>1, <2>2, <4>2 DEF Claims, todo
      <4> QED
        BY <4>1, <4>2
    <3>2. Agrees(kind, Gone, posted, rule.to, lines)
      BY <1>5, <3>1 DEF Agrees
    <3> QED
      BY <1>2, <1>3, <2>1, <2>2, <3>2 DEF Halfway
  <2>3. CASE todo # {}
    <3>1. rule.posts \in Types /\ todo = lines \ PostsNothing
      BY <1>1, <2>1, <2>3 DEF todo
    <3>2. Turns(kind, rule.posts, status, rule.to)
      BY <1>1, <1>2, <2>1, <3>1
    <3>3. HalfPosted(kind, Gone, posted, status, lines, copy'[r])
      BY <1>3, <1>5, <3>1, <3>2 DEF HalfPosted, Agrees, Claims
    <3> QED
      BY <1>2, <2>3, <3>3 DEF Halfway
  <2> QED
    BY <2>2, <2>3
<1> QED
  BY <1>1, <1>2, <1>4, <1>5, BusyStep DEF Found

\* One line more is posted, and the status of the copy claims it.
LEMMA PostBalances ==
  ASSUME DocumentInv, BalanceInv, NEW r \in Requests, Step(r), NEW l \in Lines, Post(r, l)
  PROVE  BalanceInv'
<1> DEFINE rest == copy[r].todo \ {l}
<1>1. /\ copy \in [Requests -> Copies] /\ copy[r] \in Copies
      /\ pc \in [Requests -> Labels] /\ history \in Histories
      /\ posted \in [Types -> [Lines -> Nat]]
      /\ copy[r].type \in Types \cup {"nothing"}
      /\ Moves(r)
  BY UnderWay, CopyFields, StepMoves
<1>2. /\ pc[r] = "post" /\ pc'[r] = (IF rest = {} THEN "header" ELSE "post")
      /\ l \in copy[r].todo
      /\ posted' = [posted EXCEPT ![copy[r].type][l] = @ + 1]
      /\ copy' = [copy EXCEPT ![r].todo = rest]
      /\ status' = status /\ lines' = lines
      /\ history' = [history EXCEPT !.stale = @ \/ r \notin history.current]
  BY <1>1 DEF Post, Goto, document
<1> HIDE DEF rest
<1>3. /\ copy'[r].todo = rest /\ copy'[r].status = copy[r].status
      /\ copy'[r].type = copy[r].type /\ copy'[r].lines = copy[r].lines
  BY <1>1, <1>2 DEF Copies
<1>4. Busy(pc[r]) /\ Busy(pc'[r])
  BY <1>2 DEF Busy
<1>5. ASSUME ~history'.stale, HalfPosted(kind, Gone, posted, status, lines, copy[r])
      PROVE  Halfway(kind, Gone, posted', status', lines', pc'[r], copy'[r])
  <2>1. copy[r].type \in Types /\ copy[r].lines = lines
    BY <1>1, <1>2, <1>5, PostingHistory, UnderWay DEF Knows
  <2>2. /\ copy[r].todo \subseteq lines \ PostsNothing
        /\ Turns(kind, copy[r].type, status, copy[r].status)
        /\ \A m \in Lines :
             StandingIn(kind, Gone, posted, m) =
               Claims(IF m \in copy[r].todo THEN status ELSE copy[r].status, lines, m)
    BY <1>5 DEF HalfPosted
  <2>3. ASSUME NEW m \in Lines
        PROVE  StandingIn(kind, Gone, posted', m) =
                 Claims(IF m \in rest THEN status ELSE copy[r].status, lines, m)
    <3>1. StandingIn(kind, Gone, posted', m) =
            IF m # l THEN StandingIn(kind, Gone, posted, m)
            ELSE IF kind = "supplierReturn" /\ copy[r].type = "Receipt"
                 THEN StandingIn(kind, Gone, posted, m) - 1
            ELSE StandingIn(kind, Gone, posted, m) + 1
      <4>1. \A u \in Types :
              posted'[u][m] = IF u = copy[r].type /\ m = l
                              THEN posted[u][m] + 1 ELSE posted[u][m]
        BY <1>1, <1>2, <2>1
      <4> QED
        BY <1>1, <2>1, <4>1 DEF StandingIn, Types
    <3>2. CASE m # l
      BY <2>2, <3>1, <3>2 DEF rest
    <3>3. CASE m = l
      <4>1. /\ m \in copy[r].todo /\ m \notin rest /\ m \in lines \ PostsNothing
        BY <1>2, <2>2, <3>3 DEF rest
      <4>2. StandingIn(kind, Gone, posted, m) = Claims(status, lines, m)
        BY <2>2, <4>1
      <4>3. CASE kind = "supplierReturn" /\ copy[r].type = "Receipt"
        <5>1. status \in InEffect /\ copy[r].status \notin InEffect
          BY <2>2, <4>3 DEF Turns
        <5>2. Claims(status, lines, m) = 1 /\ Claims(copy[r].status, lines, m) = 0
          BY <4>1, <5>1 DEF Claims
        <5>3. StandingIn(kind, Gone, posted', m) = StandingIn(kind, Gone, posted, m) - 1
          BY <3>1, <3>3, <4>3
        <5> QED
          BY <4>1, <4>2, <5>2, <5>3
      <4>4. CASE ~(kind = "supplierReturn" /\ copy[r].type = "Receipt")
        <5>1. status \notin InEffect /\ copy[r].status \in InEffect
          BY <2>2, <4>4 DEF Turns
        <5>2. Claims(status, lines, m) = 0 /\ Claims(copy[r].status, lines, m) = 1
          BY <4>1, <5>1 DEF Claims
        <5>3. StandingIn(kind, Gone, posted', m) = StandingIn(kind, Gone, posted, m) + 1
          BY <3>1, <3>3, <4>4
        <5> QED
          BY <4>1, <4>2, <5>2, <5>3
      <4> QED
        BY <4>3, <4>4
    <3> QED
      BY <3>2, <3>3
  <2>4. CASE rest = {}
    <3>1. Agrees(kind, Gone, posted', copy[r].status, lines)
      BY <2>3, <2>4 DEF Agrees
    <3> QED
      BY <1>2, <1>3, <2>1, <2>4, <3>1 DEF Halfway
  <2>5. CASE rest # {}
    <3>1. HalfPosted(kind, Gone, posted', status, lines, copy'[r])
      BY <1>3, <2>2, <2>3 DEF HalfPosted, rest
    <3> QED
      BY <1>2, <2>5, <3>1 DEF Halfway
  <2> QED
    BY <2>4, <2>5
<1> QED
  BY <1>1, <1>2, <1>4, <1>5, BusyStep DEF Found, Halfway

\* Where a saved row leads: back here with less to save, or out.
LEMMA AfterSaveLeads ==
  ASSUME DocumentInv, NEW r \in Requests, NEW rest, AfterSave(r, rest)
  PROVE  /\ rest # {} => /\ pc'[r] = "lines"
                         /\ copy'[r].status = copy[r].status
                         /\ copy'[r].lines = copy[r].lines
         /\ rest = {} => ~Busy(pc'[r])
<1>1. /\ copy \in [Requests -> Copies] /\ copy[r] \in Copies
      /\ pc \in [Requests -> Labels]
  BY UnderWay
<1>2. CASE rest # {}
  BY <1>1, <1>2 DEF AfterSave, Proceed, Goto, Copies
<1>3. CASE rest = {}
  BY <1>1, <1>3 DEF AfterSave, Proceed, Goto, Busy
<1> QED
  BY <1>2, <1>3

LEMMA SavesBalance ==
  ASSUME DocumentInv, BalanceInv, NEW r \in Requests, Step(r),
         SaveHeader(r) \/ \E l \in Lines : SaveLine(r, l)
  PROVE  BalanceInv'
<1>t. /\ history \in Histories /\ Moves(r)
      /\ ~history.stale /\ r \in history.current =>
           Knows(posted, status, lines, pc[r], copy[r])
  BY UnderWay, StepMoves
<1>1. PICK rest :
        /\ AfterSave(r, rest) /\ Writing(r) /\ posted' = posted
        /\ pc[r] \in {"header", "lines"}
        /\ ~history.stale /\ r \in history.current /\ rest = {} =>
             status' = copy[r].status /\ lines' = copy[r].lines
  <2>1. CASE SaveHeader(r)
    <3>1. /\ pc[r] = "header" /\ status' = copy[r].status /\ lines' = lines
          /\ AfterSave(r, copy[r].lines) /\ Writing(r) /\ posted' = posted
      BY <2>1 DEF SaveHeader
    <3>2. ~history.stale /\ r \in history.current => lines \subseteq copy[r].lines
      BY <1>t, <3>1 DEF Knows
    <3> QED
      BY <3>1, <3>2
  <2>2. CASE \E l \in Lines : SaveLine(r, l)
    <3>1. PICK l \in Lines : SaveLine(r, l)
      BY <2>2
    <3>2. /\ pc[r] = "lines" /\ status' = status /\ lines' = lines \cup {l}
          /\ l \in copy[r].todo
          /\ AfterSave(r, copy[r].todo \ {l}) /\ Writing(r) /\ posted' = posted
      BY <3>1 DEF SaveLine
    <3>3. ASSUME ~history.stale, r \in history.current, copy[r].todo \ {l} = {}
          PROVE  status' = copy[r].status /\ lines' = copy[r].lines
      <4>1. /\ copy[r].status = status
            /\ copy[r].todo \subseteq copy[r].lines
            /\ lines \subseteq copy[r].lines /\ copy[r].lines \ copy[r].todo \subseteq lines
        BY <1>t, <3>2, <3>3 DEF Knows
      <4> QED
        BY <3>2, <3>3, <4>1
    <3> QED
      BY <3>2, <3>3
  <2> QED
    BY <2>1, <2>2
<1>2. Busy(pc[r])
  BY <1>1 DEF Busy
<1>3. /\ history'.current \subseteq {r}
      /\ ~history'.stale => ~history.stale /\ r \in history.current
  BY <1>t, <1>1, WritingHistory
<1>4. Found(r) => Agrees(kind, Gone, posted, copy[r].status, copy[r].lines)
  BY <1>1, <1>2 DEF Found, Halfway
<1>5. CASE rest # {}
  <2>1. /\ pc'[r] = "lines" /\ copy'[r].status = copy[r].status
        /\ copy'[r].lines = copy[r].lines
    BY <1>1, <1>5, AfterSaveLeads
  <2> QED
    BY <1>t, <1>1, <1>4, <2>1, BusyStep DEF Busy, Halfway
<1>6. CASE rest = {}
  <2>1. ~Busy(pc'[r])
    BY <1>1, <1>6, AfterSaveLeads
  <2>2. ~history.stale /\ r \in history.current /\ Found(r)
          => Agrees(kind, Gone, posted', status', lines')
    BY <1>1, <1>4, <1>6
  <2> QED
    BY <1>t, <1>3, <2>1, <2>2, WrittenStep
<1> QED
  BY <1>5, <1>6

LEMMA ErasesBalance ==
  ASSUME DocumentInv, BalanceInv, NEW r \in Requests, Step(r),
         EraseLines(r) \/ EraseHeader(r)
  PROVE  BalanceInv'
<1>1. /\ history \in Histories /\ Moves(r) /\ pc \in [Requests -> Labels]
      /\ ~history.stale /\ r \in history.current =>
           Knows(posted, status, lines, pc[r], copy[r])
  BY UnderWay, StepMoves
<1>2. /\ pc[r] \in {"eraseLines", "eraseHeader"} /\ Writing(r) /\ posted' = posted
      /\ status' \in {status, NoDocument}
      /\ ~Busy(pc[r]) /\ ~Busy(pc'[r])
  BY <1>1 DEF EraseLines, EraseHeader, Goto, Proceed, Busy
<1>3. /\ history'.current \subseteq {r}
      /\ ~history'.stale => ~history.stale /\ r \in history.current
  BY <1>1, <1>2, WritingHistory
<1>4. ~history.stale /\ r \in history.current =>
        status \notin InEffect /\ status' \notin InEffect
  BY <1>1, <1>2, NoDocumentAssumption DEF Knows, InEffect, Statuses
<1>5. ~history.stale /\ r \in history.current /\ Found(r)
        => Agrees(kind, Gone, posted', status', lines')
  BY <1>2, <1>4, ClaimsNothing DEF Found
<1> QED
  BY <1>1, <1>2, <1>3, <1>5, WrittenStep

-----------------------------------------------------------------------------
(* Ids of lines are never given twice: a line deleted from elsewhere is not  *)
(* in the table, nor in a copy that is current.                              *)

\* A request that stands here has lines in its copy.
HoldsLines(label) == label \in {"decide", "post", "header", "lines", "eraseLine"}

FreshInv ==
  ~history.stale =>
    /\ history.erased \subseteq given
    /\ lines \subseteq given \ history.erased
    /\ \A r \in history.current :
         HoldsLines(pc[r]) => copy[r].lines \subseteq given \ history.erased

LEMMA FreshInit == Init => FreshInv
  BY DEF Init, FreshInv

\* What a step of r has to keep.
LEMMA FreshKept ==
  ASSUME DocumentInv, FreshInv, NEW r \in Requests,
         \A q \in Requests \ {r} : pc'[q] = pc[q] /\ copy'[q] = copy[q],
         history'.current \subseteq history.current \cup {r},
         ~history'.stale => ~history.stale,
         history'.erased = history.erased,
         given \subseteq given',
         ~history'.stale => lines' \subseteq given' \ history.erased,
         ~history'.stale /\ r \in history'.current /\ HoldsLines(pc'[r]) =>
           copy'[r].lines \subseteq given' \ history.erased
  PROVE  FreshInv'
<1> SUFFICES ASSUME ~history'.stale, NEW q \in history'.current, HoldsLines(pc'[q])
             PROVE  copy'[q].lines \subseteq given' \ history.erased
  BY DEF FreshInv
<1>1. CASE q = r
  BY <1>1
<1>2. CASE q # r
  <2>1. q \in history.current /\ q \in Requests
    BY <1>2, TypeParts, HistoryFields DEF DocumentInv
  <2> QED
    BY <1>2, <2>1 DEF FreshInv
<1> QED
  BY <1>1, <1>2

LEMMA FreshStep ==
  ASSUME DocumentInv, FreshInv, NEW r \in Requests, Step(r)
  PROVE  FreshInv'
<1>t. /\ copy \in [Requests -> Copies] /\ copy[r] \in Copies
      /\ pc \in [Requests -> Labels] /\ history \in Histories
      /\ ~history.stale /\ r \in history.current =>
           Knows(posted, status, lines, pc[r], copy[r])
  BY UnderWay
<1>m. /\ \A q \in Requests \ {r} : pc'[q] = pc[q] /\ copy'[q] = copy[q]
      /\ history'.current \subseteq history.current \cup {r}
      /\ ~history'.stale => ~history.stale
  BY StepMoves DEF Moves
<1>f. ~history.stale =>
        /\ lines \subseteq given \ history.erased
        /\ r \in history.current /\ HoldsLines(pc[r]) =>
             copy[r].lines \subseteq given \ history.erased
  BY DEF FreshInv
<1>1. CASE Create(r) \/ (\E op \in Offered : LoadHeader(r, op)) \/ ReloadHeader(r)
  <2>1. given' = given /\ lines' = lines /\ history'.erased = history.erased
    <3>1. CASE ReloadHeader(r)
      BY <1>t, <3>1 DEF ReloadHeader, document, Histories
    <3>2. CASE ~ReloadHeader(r)
      BY <1>t, <1>1, <3>2, StartedHistory DEF Create, LoadHeader, document
    <3> QED
      BY <3>1, <3>2
  <2>2. HoldsLines(pc'[r]) => copy'[r].lines = {}
    BY <1>t, <1>1 DEF Create, LoadHeader, ReloadHeader, Goto, HoldsLines, Idle
  <2> QED
    BY <1>m, <1>f, <2>1, <2>2, FreshKept
<1>2. CASE LoadLines(r)
  <2>1. /\ given' = given /\ lines' = lines /\ history' = history
        /\ copy'[r].lines = lines
    BY <1>t, <1>2 DEF LoadLines, document, Copies
  <2> QED
    BY <1>m, <1>f, <2>1, FreshKept
<1>3. CASE \/ \E rule \in Rules : Follow(r, rule)
           \/ \E l \in Lines : RemoveLine(r, l)
           \/ Complete(r)
           \/ Delete(r)
  <2>1. /\ given' = given /\ lines' = lines /\ history' = history
        /\ HoldsLines(pc[r])
    BY <1>3 DEF Follow, RemoveLine, Complete, Delete, Deciding, document, HoldsLines
  <2>2. copy'[r].lines \subseteq copy[r].lines
    <3>1. CASE \E rule \in Rules : Follow(r, rule)
      BY <1>t, <3>1 DEF Follow, Copies
    <3>2. CASE \E l \in Lines : RemoveLine(r, l)
      <4>1. PICK l \in Lines : RemoveLine(r, l)
        BY <3>2
      <4>2. copy'[r].lines = copy[r].lines \ {l}
        BY <1>t, <4>1 DEF RemoveLine, Copies
      <4> QED
        BY <4>2
    <3>3. CASE Complete(r) \/ Delete(r)
      BY <1>t, <3>3 DEF Complete, Delete, Copies
    <3> QED
      BY <1>3, <3>1, <3>2, <3>3
  <2> QED
    BY <1>m, <1>f, <2>1, <2>2, FreshKept
<1>4. ASSUME NEW l \in Lines, AddLine(r, l) PROVE FreshInv'
  <2>1. /\ given' = given \cup {l} /\ l \notin given
        /\ lines' = lines /\ history' = history /\ HoldsLines(pc[r])
        /\ copy'[r].lines = copy[r].lines \cup {l}
    BY <1>t, <1>4 DEF AddLine, Deciding, document, HoldsLines, Copies
  <2>2. ~history.stale => l \notin history.erased
    BY <2>1 DEF FreshInv
  <2> QED
    BY <1>m, <1>f, <2>1, <2>2, FreshKept
<1>5. ASSUME NEW l \in Lines, Post(r, l) PROVE FreshInv'
  <2>1. /\ given' = given /\ lines' = lines /\ HoldsLines(pc[r])
        /\ copy'[r].lines = copy[r].lines
    BY <1>t, <1>5 DEF Post, document, HoldsLines, Copies
  <2>2. /\ history'.erased = history.erased /\ history'.current = history.current
    BY <1>t, <1>5, PostingHistory DEF Post
  <2> QED
    BY <1>m, <1>f, <2>1, <2>2, FreshKept
<1>6. CASE SaveHeader(r) \/ EraseLine(r) \/ EraseLines(r) \/ EraseHeader(r)
  <2>1. /\ given' = given /\ lines' \subseteq lines /\ Writing(r)
        /\ HoldsLines(pc'[r]) => HoldsLines(pc[r]) /\ copy'[r].lines = copy[r].lines
    BY <1>t, <1>6
       DEF SaveHeader, EraseLine, EraseLines, EraseHeader, AfterSave, Proceed, Goto,
           HoldsLines, Copies
  <2>2. /\ history'.erased = history.erased
        /\ ~history'.stale => ~history.stale /\ r \in history.current
    BY <1>t, <2>1, WritingHistory
  <2> QED
    BY <1>m, <1>f, <2>1, <2>2, FreshKept
<1>7. ASSUME NEW l \in Lines, SaveLine(r, l) PROVE FreshInv'
  <2>1. /\ given' = given /\ lines' = lines \cup {l} /\ Writing(r)
        /\ pc[r] = "lines" /\ l \in copy[r].todo
        /\ HoldsLines(pc'[r]) => copy'[r].lines = copy[r].lines
    BY <1>t, <1>7 DEF SaveLine, AfterSave, Proceed, Goto, HoldsLines, Copies
  <2>2. /\ history'.erased = history.erased
        /\ ~history'.stale => ~history.stale /\ r \in history.current
    BY <1>t, <2>1, WritingHistory
  <2>3. ~history'.stale => l \in copy[r].lines /\ HoldsLines(pc[r])
    BY <1>t, <2>1, <2>2 DEF Knows, HoldsLines
  <2> QED
    BY <1>m, <1>f, <2>1, <2>2, <2>3, FreshKept
<1>8. CASE Abort(r)
  <2>1. /\ given' = given /\ lines' = lines /\ ~HoldsLines(pc'[r])
    BY <1>t, <1>8 DEF Abort, Proceed, Goto, document, HoldsLines
  <2>2. history'.erased = history.erased
    BY <1>t, <1>8 DEF Abort, Histories
  <2> QED
    BY <1>m, <1>f, <2>1, <2>2, FreshKept
<1> QED
  BY <1>1, <1>2, <1>3, <1>4, <1>5, <1>6, <1>7, <1>8 DEF Step

\* What a line deleted from elsewhere stood for stays in the books, and the
\* document claims it no more; requests half way are overtaken.
LEMMA ElsewhereBalances ==
  ASSUME DocumentInv, FreshInv, BalanceInv, NEW l \in Lines, EraseElsewhere(l)
  PROVE  BalanceInv' /\ FreshInv'
<1>1. /\ kind' = kind /\ status' = status /\ lines' = lines \ {l} /\ l \in lines
      /\ given' = given /\ posted' = posted /\ pc' = pc /\ copy' = copy
  BY DEF EraseElsewhere
<1>2. /\ history'.current = {} /\ history'.stale = history.stale
      /\ history'.cut = history.cut
      /\ history'.erased = IF Effective THEN history.erased \cup {l}
                          ELSE history.erased
  BY ElsewhereHistory, TypeParts DEF DocumentInv
<1>3. FreshInv'
  BY <1>1, <1>2 DEF FreshInv
<1>4. BalanceInv'
  <2> SUFFICES ASSUME Orderly'
               PROVE  /\ Agrees(kind, Gone', posted, status, lines')
                      /\ \A r \in Requests : ~Busy(pc[r])
    BY <1>1 DEF BalanceInv
  <2>1. \A r \in Requests : ~Busy(pc[r])
    BY <1>1, <1>2 DEF Orderly, Doomed
  <2>2. ~history.stale /\ Agrees(kind, Gone, posted, status, lines)
    BY <1>2, <2>1 DEF BalanceInv, Orderly, Doomed
  <2>3. l \notin history.erased
    BY <1>1, <2>2 DEF FreshInv
  <2>4. ASSUME NEW m \in Lines
        PROVE  StandingIn(kind, Gone', posted, m) = Claims(status, lines', m)
    <3>1. StandingIn(kind, Gone, posted, m) = Claims(status, lines, m)
      BY <2>2 DEF Agrees
    <3>2. CASE Effective /\ m = l /\ m \notin PostsNothing
      <4>1. m \notin Gone /\ m \in Gone' /\ m \notin lines'
        BY <1>1, <1>2, <2>3, <3>2 DEF Gone
      <4>2. Claims(status, lines, m) = 1 /\ Claims(status, lines', m) = 0
        BY <1>1, <3>2, <4>1 DEF Claims, Effective
      <4>3. StandingIn(kind, Gone', posted, m) = StandingIn(kind, Gone, posted, m) - 1
        <5>1. /\ posted["Issue"][m] \in Nat /\ posted["Receipt"][m] \in Nat
          BY TypeParts DEF DocumentInv, Types
        <5> QED
          BY <4>1, <5>1 DEF StandingIn
      <4> QED
        BY <3>1, <4>2, <4>3
    <3>3. CASE ~(Effective /\ m = l /\ m \notin PostsNothing)
      <4>1. m \in Gone' <=> m \in Gone
        BY <1>2, <3>3 DEF Gone
      <4>2. Claims(status, lines', m) = Claims(status, lines, m)
        BY <1>1, <3>3 DEF Claims, Effective
      <4> QED
        BY <3>1, <4>1, <4>2 DEF StandingIn
    <3> QED
      BY <3>2, <3>3
  <2> QED
    BY <2>1, <2>4 DEF Agrees
<1> QED
  BY <1>3, <1>4

LEMMA BalanceInit == Init => BalanceInv
<1> SUFFICES ASSUME Init
             PROVE  /\ \A r \in Requests : ~Busy(pc[r])
                    /\ Agrees(kind, Gone, posted, status, lines)
  BY DEF BalanceInv
<1>1. \A r \in Requests : ~Busy(pc[r])
  BY DEF Init, Busy
<1>2. /\ status \in {NoDocument, "DRAFT", "APPROVED", "SUBMITTED", "DISPATCHED"}
      /\ status = "DISPATCHED" => kind = "supplierReturn"
  BY NoDocumentAssumption DEF Init, Statuses
<1>3. status \in InEffect <=> status = "DISPATCHED"
  BY <1>2, NoDocumentAssumption DEF InEffect, Statuses
<1>4. ASSUME NEW l \in Lines
      PROVE  StandingIn(kind, Gone, posted, l) = Claims(status, lines, l)
  <2>1. /\ l \notin Gone
        /\ posted["Receipt"][l] = 0
        /\ posted["Issue"][l] =
             IF status = "DISPATCHED" /\ l \in lines \ PostsNothing THEN 1 ELSE 0
    BY DEF Init, Types, Gone
  <2> QED
    BY <1>3, <2>1 DEF StandingIn, Claims
<1> QED
  BY <1>1, <1>4 DEF Agrees

BooksInv == FreshInv /\ BalanceInv

LEMMA BooksStutter == BooksInv /\ UNCHANGED vars => BooksInv'
  BY DEF BooksInv, FreshInv, BalanceInv, Orderly, Doomed, Gone, vars

LEMMA BooksStep == DocumentInv /\ BooksInv /\ [Next]_vars => BooksInv'
<1> SUFFICES ASSUME DocumentInv, FreshInv, BalanceInv, Next
             PROVE  FreshInv' /\ BalanceInv'
  BY BooksStutter DEF BooksInv
<1> SUFFICES ASSUME NEW r \in Requests, Step(r) PROVE BalanceInv'
  BY FreshStep, ElsewhereBalances DEF Next
<1>2. CASE \/ \E op \in Offered : LoadHeader(r, op)
           \/ ReloadHeader(r)
           \/ LoadLines(r)
           \/ \E l \in Lines : RemoveLine(r, l)
           \/ Complete(r) /\ copy[r].status # "DRAFT"
           \/ Delete(r)
  BY <1>2, CalmSteps
<1>3. CASE \/ Create(r)
           \/ \E l \in Lines : AddLine(r, l)
           \/ Complete(r) /\ copy[r].status = "DRAFT"
           \/ EraseLine(r)
  BY <1>3, BeginSteps
<1>4. CASE \E rule \in Rules : Follow(r, rule)
  BY <1>4, FollowBalances
<1>5. CASE \E l \in Lines : Post(r, l)
  BY <1>5, PostBalances
<1>6. CASE SaveHeader(r) \/ \E l \in Lines : SaveLine(r, l)
  BY <1>6, SavesBalance
<1>7. CASE EraseLines(r) \/ EraseHeader(r)
  BY <1>7, ErasesBalance
<1>8. CASE Abort(r)
  BY <1>8, AbortBalances
<1> QED
  BY <1>2, <1>3, <1>4, <1>5, <1>6, <1>7, <1>8 DEF Step

\* Once every request has ended, none of them on an overtaken copy and none cut
\* short, the ledger holds exactly the lines of a document in effect and those a
\* request on another return deleted from it while it was, each once, whatever
\* dispatches, cancellations, revisions and removals went before or came after.
THEOREM LedgerMatchesDocument == Spec => []LedgerFollowsDocument
<1>1. DocumentInv /\ BooksInv => LedgerFollowsDocument
  <2> SUFFICES ASSUME DocumentInv, FreshInv, BalanceInv,
                      ~history.stale, ~history.cut, Quiet, NEW l \in Lines
               PROVE  Standing(l) = IF /\ l \notin PostsNothing
                                       /\ \/ Effective /\ l \in lines
                                          \/ l \in history.erased
                                    THEN 1 ELSE 0
    BY DEF LedgerFollowsDocument, BooksInv
  <2>1. \A r \in Requests : ~Busy(pc[r])
    BY DEF Quiet, Busy
  <2>2. Agrees(kind, Gone, posted, status, lines)
    BY <2>1 DEF BalanceInv, Orderly, Doomed
  <2>3. StandingIn(kind, Gone, posted, l) = Claims(status, lines, l)
    BY <2>2 DEF Agrees
  <2>4. posted["Issue"][l] \in Nat /\ posted["Receipt"][l] \in Nat
    BY TypeParts DEF DocumentInv, Types
  <2>5. Standing(l) = Claims(status, lines, l) + IF l \in Gone THEN 1 ELSE 0
    BY <2>3, <2>4 DEF StandingIn, Standing, Claims
  <2>6. ~(l \in lines /\ l \in history.erased)
    BY DEF FreshInv
  <2> QED
    BY <2>5, <2>6 DEF Claims, Effective, Gone
<1>2. Init => BooksInv
  BY FreshInit, BalanceInit DEF BooksInv
<1>3. Spec => []BooksInv
  BY <1>2, BooksStep, Invariance, PTL DEF Spec
<1> QED
  BY <1>1, <1>3, Invariance, PTL

=============================================================================
