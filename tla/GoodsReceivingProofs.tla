------------------------ MODULE GoodsReceivingProofs ------------------------
(***************************************************************************)
(* What GoodsReceiving guarantees for any number of requests, order lines, *)
(* receipts and receipt lines, and any quantities.                         *)
(*                                                                         *)
(* The argument: only a posting adds to a quantity, and it adds to the     *)
(* ledger as well (PostEffect); every other step leaves quantities it      *)
(* found in a row or in a copy, or 0 (Plain).  So what the ledger got      *)
(* bounds rows and copies alike (ClaimInv), and so does what was ordered,  *)
(* as long as receipts are compared with the order before they are posted  *)
(* (FillInv).                                                              *)
(*                                                                         *)
(* That the documents agree at rest is an invariant of one busy request:   *)
(* a second one overtakes it, so that one of the two must write or die     *)
(* before all is quiet, and history says so (Doomed, DoomStays).  The one  *)
(* request finds a settled order on its copies (KnowInv); from then on the *)
(* ledger equals what the tables will hold when it has saved everything    *)
(* (Outcome), unless it has posted a line for a row that no order has,     *)
(* which the database keeps it from saving (Stray).  No line is posted     *)
(* twice, for it belongs to one receipt (OwnInv), and a new one has        *)
(* received nothing (RowInv, StartInv).                                    *)
(***************************************************************************)
EXTENDS GoodsReceiving, TLAPS

Rows ==
  /\ order \in Statuses \cup {NoOrder}
  /\ stored \in SUBSET OrderLines
  /\ received \in [OrderLines -> Nat]

ReceiptRows ==
  /\ receipt \in [Receipts -> {"none", "DRAFT", "COMPLETED"}]
  /\ receiptLines \in [Receipts -> SUBSET GoodsLines]

Books ==
  /\ posted \in [GoodsLines -> Nat]
  /\ stock \in [OrderLines \cup OtherLines -> Nat]

Given == given \in SUBSET (OrderLines \cup GoodsLines \cup Receipts)

Histories == [current : SUBSET Requests, stale : BOOLEAN, cut : BOOLEAN,
              unchecked : BOOLEAN, started : Nat]

\* What a step of r does to the program counters and the copies.
CopyStep(r, c, label) ==
  /\ c \in Copies
  /\ label \in Labels
  /\ copy' = [copy EXCEPT ![r] = c]
  /\ pc' = [pc EXCEPT ![r] = label]

LEMMA IdleTyped == Idle \in Copies
<1>1. (CHOOSE d \in Receipts : TRUE) \in Receipts
  BY ReceiptsAssumption
<1> QED
  BY <1>1 DEF Idle, Copies, Operations, OrderOperations

LEMMA TypeInit == Init => TypeOK
<1> SUFFICES ASSUME Init PROVE TypeOK
  OBVIOUS
<1>1. /\ order \in Statuses \cup {NoOrder}
      /\ stored \in SUBSET OrderLines
      /\ received \in [OrderLines -> Nat]
  BY DEF Init, Statuses
<1>2. PICK drafts \in SUBSET Receipts, goods \in SUBSET GoodsLines :
        /\ receipt = [d \in Receipts |-> IF d \in drafts THEN "DRAFT" ELSE "none"]
        /\ receiptLines = [d \in Receipts |-> IF d \in drafts THEN goods ELSE {}]
        /\ given = stored \cup drafts \cup goods
  BY DEF Init
<1>3. receipt \in [Receipts -> {"none", "DRAFT", "COMPLETED"}]
  BY <1>2
<1>4. receiptLines \in [Receipts -> SUBSET GoodsLines]
  BY <1>2
<1>5. given \in SUBSET (OrderLines \cup GoodsLines \cup Receipts)
  BY <1>1, <1>2
<1>6. /\ posted \in [GoodsLines -> Nat]
      /\ stock \in [OrderLines \cup OtherLines -> Nat]
      /\ pc \in [Requests -> Labels]
      /\ copy \in [Requests -> Copies]
  BY IdleTyped DEF Init, Labels
<1>7. history \in [current : SUBSET Requests, stale : BOOLEAN, cut : BOOLEAN,
                   unchecked : BOOLEAN, started : Nat]
  BY DEF Init
<1> QED
  BY <1>1, <1>3, <1>4, <1>5, <1>6, <1>7 DEF TypeOK

LEMMA CopyFields ==
  ASSUME NEW c \in Copies
  PROVE  /\ c.op \in Operations
         /\ c.order \in Statuses \cup {NoOrder}
         /\ c.stored \in SUBSET OrderLines
         /\ c.received \in [OrderLines -> Nat]
         /\ c.receipt \in Receipts
         /\ c.status \in {"none", "DRAFT", "COMPLETED"}
         /\ c.goods \in SUBSET GoodsLines
         /\ c.todo \in SUBSET (OrderLines \cup GoodsLines)
  BY DEF Copies

LEMMA CopyStepTyped ==
  ASSUME pc \in [Requests -> Labels], copy \in [Requests -> Copies],
         NEW r \in Requests, NEW c, NEW label, CopyStep(r, c, label)
  PROVE  /\ pc' \in [Requests -> Labels]
         /\ copy' \in [Requests -> Copies]
         /\ pc'[r] = label /\ copy'[r] = c
         /\ \A q \in Requests \ {r} : pc'[q] = pc[q] /\ copy'[q] = copy[q]
  BY DEF CopyStep

LEMMA HistoryFields ==
  ASSUME NEW h \in Histories, NEW s \in SUBSET Requests, NEW b \in BOOLEAN,
         NEW n \in Nat
  PROVE  /\ [h EXCEPT !.current = s, !.started = n] \in Histories
         /\ [h EXCEPT !.current = s, !.stale = b] \in Histories
         /\ [h EXCEPT !.unchecked = b] \in Histories
         /\ [h EXCEPT !.stale = b] \in Histories
         /\ [h EXCEPT !.cut = b] \in Histories
<1>1. [h EXCEPT !.current = s] \in Histories
  BY DEF Histories
<1>2. ASSUME NEW g \in Histories
      PROVE  [g EXCEPT !.stale = b] \in Histories
  BY DEF Histories
<1>3. [h EXCEPT !.current = s, !.stale = b] =
        [[h EXCEPT !.current = s] EXCEPT !.stale = b]
  OBVIOUS
<1>4. [h EXCEPT !.current = s, !.started = n] \in Histories
  BY DEF Histories
<1>5. [h EXCEPT !.unchecked = b] \in Histories
  BY DEF Histories
<1>6. [h EXCEPT !.cut = b] \in Histories
  BY DEF Histories
<1> QED
  BY <1>1, <1>2, <1>3, <1>4, <1>5, <1>6

LEMMA HistoryTyped ==
  ASSUME history \in Histories, NEW r \in Requests
  PROVE  /\ Loading(r) => history' \in Histories /\ history'.unchecked = history.unchecked
         /\ Writing(r) => history' \in Histories /\ history'.unchecked = history.unchecked
<1>1. /\ history.stale \in BOOLEAN /\ history.current \in SUBSET Requests
      /\ history.started \in Nat
  BY DEF Histories
<1>2. ASSUME Loading(r)
      PROVE  history' \in Histories /\ history'.unchecked = history.unchecked
  <2>1. /\ history.current \cup {r} \in SUBSET Requests
        /\ history.started + 1 \in Nat
    BY <1>1
  <2> QED
    BY <1>2, <2>1, HistoryFields DEF Loading, Histories
<1>3. ASSUME Writing(r)
      PROVE  history' \in Histories /\ history'.unchecked = history.unchecked
  <2>1. PICK b \in BOOLEAN :
          history' = [history EXCEPT !.current = @ \cap {r}, !.stale = b]
    <3>1. (history.stale \/ r \notin history.current) \in BOOLEAN
      OBVIOUS
    <3> QED
      BY <1>3, <3>1 DEF Writing
  <2>2. history.current \cap {r} \in SUBSET Requests
    BY <1>1
  <2> QED
    BY <2>1, <2>2, HistoryFields DEF Histories
<1> QED
  BY <1>2, <1>3

\* What Proceed does, for a copy of the right type.
LEMMA ProceedTyped ==
  ASSUME NEW r \in Requests, NEW c \in Copies, NEW label \in Labels,
         Proceed(r, c, label)
  PROVE  CopyStep(r, IF label = "idle" THEN Idle ELSE c, label)
  BY IdleTyped DEF Proceed, CopyStep

\* The quantities after a posting.
LEMMA RecordedTyped ==
  ASSUME TypeOK, NEW r \in Requests, NEW g \in GoodsLines
  PROVE  /\ Recorded(r, g) \in [OrderLines -> Nat]
         /\ StatusAfter(r, Recorded(r, g)) \in Statuses
         /\ \A l \in OrderLines :
              Recorded(r, g)[l] =
                copy[r].received[l] +
                  (IF l = Against[g] /\ l \in copy[r].stored THEN Quantity[g] ELSE 0)
<1>1. /\ copy[r].received \in [OrderLines -> Nat]
      /\ Against[g] \in OrderLines \cup OtherLines
      /\ Quantity[g] \in Nat
  BY QuantityAssumption, CopyFields DEF TypeOK
<1>2. StatusAfter(r, Recorded(r, g)) \in Statuses
  BY DEF StatusAfter, Statuses
<1>3. CASE Against[g] \in copy[r].stored
  <2>1. Against[g] \in OrderLines
    BY <1>3, CopyFields DEF TypeOK
  <2> QED
    BY <1>1, <1>2, <1>3, <2>1 DEF Recorded
<1>4. CASE Against[g] \notin copy[r].stored
  BY <1>1, <1>2, <1>4 DEF Recorded
<1> QED
  BY <1>3, <1>4

-----------------------------------------------------------------------------
(* What a step does. *)

\* The tables keep their types.
Typed ==
  /\ Rows
  /\ ReceiptRows
  /\ Books
  /\ Given
  /\ history \in Histories

\* A step that posts nothing invents no quantity: what it leaves in a row or in
\* the copy of r was in that row, in that copy, or is 0.
Inherits(r, l, n) == n \in {received[l], copy[r].received[l], 0}

Plain(r) ==
  /\ stock' = stock
  /\ \A l \in OrderLines : Inherits(r, l, received'[l])
  /\ \A l \in OrderLines : Inherits(r, l, copy'[r].received[l])

\* Lines are about to be posted only after these two operations.
Accepts(r) ==
  \/ \E d \in Receipts, new \in SUBSET GoodsLines : CreateReceipt(r, d, new)
  \/ PostReceipt(r)

Effect(r) ==
  /\ TypeOK'
  /\ \A q \in Requests \ {r} : pc'[q] = pc[q] /\ copy'[q] = copy[q]
  /\ history.unchecked => history'.unchecked
  /\ \/ \E g \in GoodsLines : Post(r, g)
     \/ Plain(r) /\ (pc'[r] = "post" => Accepts(r))

LEMMA TypeParts ==
  ASSUME TypeOK
  PROVE  /\ Typed
         /\ pc \in [Requests -> Labels]
         /\ copy \in [Requests -> Copies]
  BY DEF TypeOK, Typed, Rows, ReceiptRows, Books, Given, Histories

\* The copy of r, field by field.
LEMMA CopyTyped ==
  ASSUME TypeOK, NEW r \in Requests
  PROVE  /\ copy[r] \in Copies
         /\ copy[r].op \in Operations
         /\ copy[r].order \in Statuses \cup {NoOrder}
         /\ copy[r].stored \in SUBSET OrderLines
         /\ copy[r].received \in [OrderLines -> Nat]
         /\ copy[r].receipt \in Receipts
         /\ copy[r].status \in {"none", "DRAFT", "COMPLETED"}
         /\ copy[r].goods \in SUBSET GoodsLines
         /\ copy[r].todo \in SUBSET (OrderLines \cup GoodsLines)
  BY CopyFields DEF TypeOK

\* From what an action does to its copy and to the tables, its effect.
LEMMA EffectOf ==
  ASSUME TypeOK, NEW r \in Requests, NEW c, NEW label, CopyStep(r, c, label),
         Typed', history.unchecked => history'.unchecked
  PROVE  /\ TypeOK'
         /\ \A q \in Requests \ {r} : pc'[q] = pc[q] /\ copy'[q] = copy[q]
         /\ pc'[r] = label /\ copy'[r] = c
<1>1. /\ pc' \in [Requests -> Labels]
      /\ copy' \in [Requests -> Copies]
      /\ pc'[r] = label /\ copy'[r] = c
      /\ \A q \in Requests \ {r} : pc'[q] = pc[q] /\ copy'[q] = copy[q]
  BY CopyStepTyped, TypeParts
<1> QED
  BY <1>1 DEF TypeOK, Typed, Rows, ReceiptRows, Books, Given, Histories

\* ... when it changes no quantity outside its copy.
LEMMA PlainEffect ==
  ASSUME TypeOK, NEW r \in Requests, NEW c, NEW label, CopyStep(r, c, label),
         Typed', history.unchecked => history'.unchecked,
         stock' = stock, received' = received,
         \A l \in OrderLines : Inherits(r, l, c.received[l]),
         label = "post" => Accepts(r)
  PROVE  Effect(r)
  BY EffectOf DEF Effect, Plain, Inherits

\* Requests that select.
LEMMA LoadingEffects ==
  ASSUME TypeOK, NEW r \in Requests
  PROVE  /\ \A op \in Operations : StartOnOrder(r, op) => Effect(r)
         /\ \A op \in Operations, d \in Receipts : StartOnReceipt(r, op, d) => Effect(r)
         /\ LoadReceiptLines(r) => Effect(r)
         /\ LoadOrder(r) => Effect(r)
         /\ LoadOrderLines(r) => Effect(r)
<1>t. copy \in [Requests -> Copies] /\ pc \in [Requests -> Labels] /\ Typed
  BY TypeParts
<1>c. copy[r] \in Copies
  BY <1>t
<1>d. copy[r].receipt \in Receipts
  BY CopyTyped
<1>u. Typed /\ UNCHANGED <<orderTables, receiptTables, ledger, given>>
        /\ history' \in Histories => Typed'
  BY DEF Typed, Rows, ReceiptRows, Books, Given, orderTables, receiptTables, ledger
<1>0. \A l \in OrderLines : Idle.received[l] = 0
  BY DEF Idle
<1>1. ASSUME NEW op \in Operations, StartOnOrder(r, op)
      PROVE  Effect(r)
  <2> DEFINE c == [Idle EXCEPT !.op = op, !.order = order]
  <2>1. c \in Copies
    BY <1>t, <1>c, IdleTyped DEF Typed, Rows, Copies
  <2>2. c.received = Idle.received
    BY DEF Idle
  <2>3. CopyStep(r, c, "orderLines")
    BY <1>1, <1>t, <2>1 DEF StartOnOrder, CopyStep, Goto, Labels
  <2>4. history' \in Histories /\ history'.unchecked = history.unchecked
    BY <1>1, <1>t, HistoryTyped DEF StartOnOrder, Typed
  <2>5. Typed' /\ stock' = stock /\ received' = received
    BY <1>1, <1>t, <1>u, <2>4 DEF StartOnOrder, orderTables, ledger
  <2> HIDE DEF c
  <2> QED
    BY <1>0, <2>2, <2>3, <2>4, <2>5, PlainEffect DEF Inherits
<1>2. ASSUME NEW op \in Operations, NEW d \in Receipts, StartOnReceipt(r, op, d)
      PROVE  Effect(r)
  <2> DEFINE c == [Idle EXCEPT !.op = op, !.receipt = d, !.status = receipt[d]]
  <2>1. c \in Copies
    BY <1>t, <1>c, <1>d, IdleTyped DEF Typed, ReceiptRows, Copies
  <2>2. c.received = Idle.received
    BY DEF Idle
  <2>3. CopyStep(r, c, "receiptLines")
    BY <1>2, <1>t, <2>1 DEF StartOnReceipt, CopyStep, Goto, Labels
  <2>4. history' \in Histories /\ history'.unchecked = history.unchecked
    BY <1>2, <1>t, HistoryTyped DEF StartOnReceipt, Typed
  <2>5. Typed' /\ stock' = stock /\ received' = received
    BY <1>2, <1>t, <1>u, <2>4 DEF StartOnReceipt, orderTables, ledger
  <2> HIDE DEF c
  <2> QED
    BY <1>0, <2>2, <2>3, <2>4, <2>5, PlainEffect DEF Inherits
<1>3. ASSUME LoadReceiptLines(r)
      PROVE  Effect(r)
  <2> DEFINE c == [copy[r] EXCEPT !.goods = receiptLines[copy[r].receipt]]
             label == IF copy[r].op = "postReceipt" THEN "order" ELSE "decide"
  <2>1. c \in Copies
    BY <1>t, <1>c, <1>d, IdleTyped DEF Typed, ReceiptRows, Copies
  <2>2. c.received = copy[r].received
    BY <1>c DEF Copies
  <2>3. CopyStep(r, c, label) /\ label # "post"
    BY <1>3, <1>t, <2>1 DEF LoadReceiptLines, CopyStep, Goto, Labels
  <2>5. Typed' /\ stock' = stock /\ received' = received /\ history' = history
    BY <1>3, <1>t, <1>u DEF LoadReceiptLines, orderTables, ledger, Typed
  <2> HIDE DEF c, label
  <2> QED
    BY <2>2, <2>3, <2>5, PlainEffect DEF Inherits
<1>4. ASSUME LoadOrder(r)
      PROVE  Effect(r)
  <2> DEFINE c == [copy[r] EXCEPT !.order = order]
  <2>1. c \in Copies
    BY <1>t, <1>c, IdleTyped DEF Typed, Rows, Copies
  <2>2. c.received = copy[r].received
    BY <1>c DEF Copies
  <2>3. CopyStep(r, c, "orderLines")
    BY <1>4, <1>t, <2>1 DEF LoadOrder, CopyStep, Goto, Labels
  <2>5. Typed' /\ stock' = stock /\ received' = received /\ history' = history
    BY <1>4, <1>t, <1>u DEF LoadOrder, orderTables, ledger, Typed
  <2> HIDE DEF c
  <2> QED
    BY <2>2, <2>3, <2>5, PlainEffect DEF Inherits
<1>5. ASSUME LoadOrderLines(r)
      PROVE  Effect(r)
  <2> DEFINE c == [copy[r] EXCEPT !.stored = stored, !.received = received]
  <2>1. c \in Copies
    BY <1>t, <1>c, IdleTyped DEF Typed, Rows, Copies
  <2>2. c.received = received
    BY <1>c DEF Copies
  <2>3. CopyStep(r, c, "decide")
    BY <1>5, <1>t, <2>1 DEF LoadOrderLines, CopyStep, Goto, Labels
  <2>5. Typed' /\ stock' = stock /\ received' = received /\ history' = history
    BY <1>5, <1>t, <1>u DEF LoadOrderLines, orderTables, ledger, Typed
  <2> HIDE DEF c
  <2> QED
    BY <2>2, <2>3, <2>5, PlainEffect DEF Inherits
<1> QED
  BY <1>1, <1>2, <1>3, <1>4, <1>5

\* The operations of the order.
LEMMA SaveOrderCopyEffect ==
  ASSUME TypeOK, NEW r \in Requests, NEW status \in Statuses \cup {NoOrder},
         NEW lines \in SUBSET OrderLines, SaveOrderCopy(r, status, lines), Given'
  PROVE  Effect(r)
<1>t. copy \in [Requests -> Copies] /\ pc \in [Requests -> Labels] /\ Typed
  BY TypeParts
<1>c. copy[r] \in Copies
  BY <1>t
<1> DEFINE c == [copy[r] EXCEPT !.order = status, !.stored = lines]
<1>1. c \in Copies
  BY <1>c DEF Copies
<1>2. c.received = copy[r].received
  BY <1>c DEF Copies
<1>3. CopyStep(r, c, "saveOrder")
  BY <1>t, <1>1 DEF SaveOrderCopy, CopyStep, Goto, Labels
<1>4. Typed' /\ stock' = stock /\ received' = received /\ history' = history
  BY <1>t DEF SaveOrderCopy, Typed, Rows, ReceiptRows, Books, orderTables,
              receiptTables, ledger
<1> HIDE DEF c
<1> QED
  BY <1>2, <1>3, <1>4, PlainEffect DEF Inherits

LEMMA OrderEffects ==
  ASSUME TypeOK, NEW r \in Requests
  PROVE  /\ \A new \in SUBSET OrderLines : Create(r, new) => Effect(r)
         /\ \A new \in SUBSET OrderLines : Update(r, new) => Effect(r)
         /\ \A l \in OrderLines : AddLine(r, l) => Effect(r)
         /\ Submit(r) \/ Approve(r) \/ Issue(r) \/ Cancel(r) => Effect(r)
         /\ Delete(r) => Effect(r)
<1>t. copy \in [Requests -> Copies] /\ pc \in [Requests -> Labels] /\ Typed
  BY TypeParts
<1>c. /\ copy[r] \in Copies
      /\ copy[r].order \in Statuses \cup {NoOrder}
      /\ copy[r].stored \in SUBSET OrderLines
  BY CopyTyped
<1>g. given \in SUBSET (OrderLines \cup GoodsLines \cup Receipts)
  BY <1>t DEF Typed, Given
<1>1. ASSUME NEW new \in SUBSET OrderLines, Create(r, new)
      PROVE  Effect(r)
  <2> DEFINE c == [Idle EXCEPT !.op = "create", !.order = "DRAFT", !.stored = new]
  <2>1. c \in Copies
    BY IdleTyped DEF Copies, Operations, OrderOperations, Statuses
  <2>2. \A l \in OrderLines : c.received[l] = 0
    BY DEF Idle
  <2>3. CopyStep(r, c, "saveOrder")
    BY <1>1, <1>t, <2>1 DEF Create, CopyStep, Goto, Labels
  <2>4. history' \in Histories /\ history'.unchecked = history.unchecked
    BY <1>1, <1>t, HistoryTyped DEF Create, Typed
  <2>5. Typed' /\ stock' = stock /\ received' = received
    BY <1>1, <1>t, <2>4 DEF Create, Typed, Rows, ReceiptRows, Books, Given,
                            orderTables, receiptTables, ledger
  <2> HIDE DEF c
  <2> QED
    BY <2>2, <2>3, <2>4, <2>5, PlainEffect DEF Inherits
<1>2. ASSUME NEW new \in SUBSET OrderLines, Update(r, new)
      PROVE  Effect(r)
  <2>1. Given'
    BY <1>2, <1>g DEF Update, Given
  <2> QED
    BY <1>2, <1>c, <2>1, SaveOrderCopyEffect DEF Update
<1>3. ASSUME NEW l \in OrderLines, AddLine(r, l)
      PROVE  Effect(r)
  <2>1. Given'
    BY <1>3, <1>g DEF AddLine, Given
  <2>2. "DRAFT" \in Statuses /\ copy[r].stored \cup {l} \in SUBSET OrderLines
    BY <1>c DEF Statuses
  <2> QED
    BY <1>3, <2>1, <2>2, SaveOrderCopyEffect DEF AddLine
<1>4. ASSUME Submit(r) \/ Approve(r) \/ Issue(r) \/ Cancel(r)
      PROVE  Effect(r)
  <2>1. PICK to \in Statuses : SaveOrderCopy(r, to, copy[r].stored) /\ given' = given
    BY <1>4 DEF Submit, Approve, Issue, Cancel, Advance, Statuses
  <2>2. Given'
    BY <1>g, <2>1 DEF Given
  <2> QED
    BY <1>c, <2>1, <2>2, SaveOrderCopyEffect
<1>5. ASSUME Delete(r)
      PROVE  Effect(r)
  <2>1. copy' = [copy EXCEPT ![r] = copy[r]]
    BY <1>5, <1>t DEF Delete
  <2>2. CopyStep(r, copy[r], "delete")
    BY <1>5, <1>c, <1>t, <2>1 DEF Delete, CopyStep, Goto, Labels
  <2>3. Typed' /\ stock' = stock /\ received' = received /\ history' = history
    BY <1>5, <1>t DEF Delete, Typed, Rows, ReceiptRows, Books, Given,
                      orderTables, receiptTables, ledger
  <2> QED
    BY <2>2, <2>3, PlainEffect DEF Inherits
<1> QED
  BY <1>1, <1>2, <1>3, <1>4, <1>5

\* The operations of the receipt.
LEMMA ReceiptEffects ==
  ASSUME TypeOK, NEW r \in Requests
  PROVE  /\ \A d \in Receipts, new \in SUBSET GoodsLines :
              CreateReceipt(r, d, new) => Effect(r)
         /\ \A g \in GoodsLines : AddReceiptLine(r, g) => Effect(r)
         /\ PostReceipt(r) => Effect(r)
<1>t. copy \in [Requests -> Copies] /\ pc \in [Requests -> Labels] /\ Typed
  BY TypeParts
<1>c. copy[r] \in Copies /\ copy[r].goods \in SUBSET GoodsLines
  BY CopyTyped
<1>g. given \in SUBSET (OrderLines \cup GoodsLines \cup Receipts)
  BY <1>t DEF Typed, Given
<1>h. ASSUME NEW b \in BOOLEAN, history' = [history EXCEPT !.unchecked = b],
             history.unchecked => b
      PROVE  history' \in Histories /\ (history.unchecked => history'.unchecked)
  BY <1>t, <1>h, HistoryFields DEF Typed, Histories
<1>1. ASSUME NEW d \in Receipts, NEW new \in SUBSET GoodsLines,
             CreateReceipt(r, d, new)
      PROVE  Effect(r)
  <2> DEFINE status == IF new = {} THEN "DRAFT" ELSE "COMPLETED"
             label == IF new = {} THEN "saveReceipt" ELSE "post"
             c == [copy[r] EXCEPT !.receipt = d, !.goods = new, !.todo = new,
                                  !.status = status]
  <2>1. c \in Copies
    BY <1>c DEF Copies
  <2>2. c.received = copy[r].received
    BY <1>c DEF Copies
  <2>3. CopyStep(r, c, label)
    BY <1>1, <1>t, <2>1 DEF CreateReceipt, CopyStep, Goto, Labels
  <2>4. history' \in Histories /\ (history.unchecked => history'.unchecked)
    <3>1. (history.unchecked \/ Doubled(new)) \in BOOLEAN
      OBVIOUS
    <3> QED
      BY <1>1, <1>h, <3>1 DEF CreateReceipt
  <2>5. Typed' /\ stock' = stock /\ received' = received
    <3>1. given' \in SUBSET (OrderLines \cup GoodsLines \cup Receipts)
      BY <1>1, <1>g DEF CreateReceipt
    <3> QED
      BY <1>1, <1>t, <2>4, <3>1 DEF CreateReceipt, Typed, Rows, ReceiptRows, Books,
                                    Given, orderTables, receiptTables, ledger
  <2>6. Accepts(r)
    BY <1>1 DEF Accepts
  <2> HIDE DEF c, label
  <2> QED
    BY <2>2, <2>3, <2>4, <2>5, <2>6, PlainEffect DEF Inherits
<1>2. ASSUME NEW g \in GoodsLines, AddReceiptLine(r, g)
      PROVE  Effect(r)
  <2> DEFINE c == [copy[r] EXCEPT !.goods = @ \cup {g}]
  <2>1. c \in Copies
    <3>1. copy[r].goods \cup {g} \in SUBSET GoodsLines
      BY <1>c
    <3> QED
      BY <1>c, <3>1 DEF Copies
  <2>2. c.received = copy[r].received
    BY <1>c DEF Copies
  <2>3. CopyStep(r, c, "saveReceipt")
    BY <1>2, <1>t, <2>1 DEF AddReceiptLine, CopyStep, Goto, Labels
  <2>4. given' \in SUBSET (OrderLines \cup GoodsLines \cup Receipts)
    BY <1>2, <1>g DEF AddReceiptLine
  <2>5. Typed' /\ stock' = stock /\ received' = received /\ history' = history
    BY <1>2, <1>t, <2>4 DEF AddReceiptLine, Typed, Rows, ReceiptRows, Books,
                            Given, orderTables, receiptTables, ledger
  <2> HIDE DEF c
  <2> QED
    BY <2>2, <2>3, <2>5, PlainEffect DEF Inherits
<1>3. ASSUME PostReceipt(r)
      PROVE  Effect(r)
  <2> DEFINE label == IF copy[r].goods = {} THEN "saveOrder" ELSE "post"
             c == [copy[r] EXCEPT !.todo = copy[r].goods, !.status = "COMPLETED"]
  <2>1. c \in Copies
    BY <1>c DEF Copies
  <2>2. c.received = copy[r].received
    BY <1>c DEF Copies
  <2>3. CopyStep(r, c, label)
    BY <1>3, <1>t, <2>1 DEF PostReceipt, CopyStep, Goto, Labels
  <2>4. history' \in Histories /\ (history.unchecked => history'.unchecked)
    <3>1. (history.unchecked \/ copy[r].goods # {}) \in BOOLEAN
      OBVIOUS
    <3> QED
      BY <1>3, <1>h, <3>1 DEF PostReceipt
  <2>5. Typed' /\ stock' = stock /\ received' = received
    BY <1>3, <1>t, <2>4 DEF PostReceipt, Typed, Rows, ReceiptRows, Books,
                            Given, orderTables, receiptTables, ledger
  <2>6. Accepts(r)
    BY <1>3 DEF Accepts
  <2> HIDE DEF c, label
  <2> QED
    BY <2>2, <2>3, <2>4, <2>5, <2>6, PlainEffect DEF Inherits
<1> QED
  BY <1>1, <1>2, <1>3

\* One line enters the ledger.
LEMMA PostEffect ==
  ASSUME TypeOK, NEW r \in Requests, NEW g \in GoodsLines, Post(r, g)
  PROVE  /\ Effect(r)
         /\ stock' = [stock EXCEPT ![Against[g]] = @ + Quantity[g]]
         /\ received' = received
         /\ copy'[r].received = Recorded(r, g)
         /\ copy'[r].stored = copy[r].stored
         /\ copy'[r].todo = copy[r].todo \ {g}
<1>t. copy \in [Requests -> Copies] /\ pc \in [Requests -> Labels] /\ Typed
  BY TypeParts
<1>c. copy[r] \in Copies /\ copy[r].todo \in SUBSET (OrderLines \cup GoodsLines)
  BY CopyTyped
<1> DEFINE rest == copy[r].todo \ {g}
           n == Recorded(r, g)
           o == StatusAfter(r, Recorded(r, g))
           label == IF rest = {} THEN "saveOrder" ELSE "post"
           c == [copy[r] EXCEPT !.todo = rest, !.received = n, !.order = o]
<1>1. n \in [OrderLines -> Nat] /\ o \in Statuses
  BY RecordedTyped
<1>2. /\ copy' = [copy EXCEPT ![r].todo = rest, ![r].received = n, ![r].order = o]
      /\ pc' = [pc EXCEPT ![r] = label]
  BY DEF Post, Goto
<1>3. rest \in SUBSET (OrderLines \cup GoodsLines)
  BY <1>c
<1>4. label \in Labels
  BY DEF Labels
<1> HIDE DEF rest, n, o, label
<1>5. c \in Copies /\ c.received = n /\ c.todo = rest /\ c.stored = copy[r].stored
  BY <1>c, <1>1, <1>3 DEF Copies
<1>6. CopyStep(r, c, label)
  BY <1>t, <1>2, <1>4, <1>5 DEF CopyStep
<1>7. history' \in Histories /\ history'.unchecked = history.unchecked
  <2>1. (history.stale \/ r \notin history.current) \in BOOLEAN
    OBVIOUS
  <2>2. PICK b \in BOOLEAN : history' = [history EXCEPT !.stale = b]
    BY <2>1 DEF Post
  <2> QED
    BY <1>t, <2>2, HistoryFields DEF Typed, Histories
<1>8. /\ posted' \in [GoodsLines -> Nat]
      /\ stock' \in [OrderLines \cup OtherLines -> Nat]
      /\ stock' = [stock EXCEPT ![Against[g]] = @ + Quantity[g]]
  BY <1>t, QuantityAssumption DEF Post, Typed, Books
<1>9. Typed' /\ received' = received
  BY <1>t, <1>7, <1>8 DEF Post, Typed, Rows, ReceiptRows, Books, Given,
                          orderTables, receiptTables
<1> HIDE DEF c
<1> QED
  BY <1>5, <1>6, <1>7, <1>8, <1>9, EffectOf DEF Effect, rest, n

\* What remains of a copy when its request goes on saving, or is done.
LEMMA ProceedEffect ==
  ASSUME TypeOK, NEW r \in Requests, NEW x \in SUBSET (OrderLines \cup GoodsLines),
         NEW label \in Labels \ {"post"},
         Proceed(r, [copy[r] EXCEPT !.todo = x], label),
         Typed', history.unchecked => history'.unchecked, stock' = stock,
         \A l \in OrderLines : Inherits(r, l, received'[l])
  PROVE  Effect(r)
<1> DEFINE c == [copy[r] EXCEPT !.todo = x]
           d == IF label = "idle" THEN Idle ELSE c
<1>c. copy[r] \in Copies
  BY CopyTyped
<1>1. c \in Copies /\ c.received = copy[r].received
  BY <1>c DEF Copies
<1>2. \A l \in OrderLines : Idle.received[l] = 0
  BY DEF Idle
<1> HIDE DEF c
<1>3. CopyStep(r, d, label)
  BY <1>1, ProceedTyped DEF c
<1>4. \A l \in OrderLines : Inherits(r, l, d.received[l])
  BY <1>1, <1>2 DEF Inherits
<1> HIDE DEF d
<1>5. /\ TypeOK'
      /\ \A q \in Requests \ {r} : pc'[q] = pc[q] /\ copy'[q] = copy[q]
      /\ pc'[r] = label /\ copy'[r] = d
  BY <1>3, EffectOf
<1> QED
  BY <1>4, <1>5 DEF Effect, Plain

\* A request that is done, or dies.
LEMMA EndEffect ==
  ASSUME TypeOK, NEW r \in Requests, Proceed(r, Idle, "idle"),
         Typed', history.unchecked => history'.unchecked, stock' = stock,
         \A l \in OrderLines : Inherits(r, l, received'[l])
  PROVE  Effect(r)
<1>1. CopyStep(r, Idle, "idle")
  BY IdleTyped, ProceedTyped DEF Labels
<1>2. \A l \in OrderLines : Inherits(r, l, Idle.received[l])
  BY DEF Idle, Inherits
<1>3. /\ TypeOK'
      /\ \A q \in Requests \ {r} : pc'[q] = pc[q] /\ copy'[q] = copy[q]
      /\ pc'[r] = "idle" /\ copy'[r] = Idle
  BY <1>1, EffectOf
<1> QED
  BY <1>2, <1>3 DEF Effect, Plain

\* Requests that save.
LEMMA SavingEffects ==
  ASSUME TypeOK, NEW r \in Requests
  PROVE  /\ SaveOrder(r) => Effect(r)
         /\ \A l \in OrderLines : SaveOrderLine(r, l) => Effect(r)
         /\ SaveReceipt(r) => Effect(r)
         /\ \A g \in GoodsLines : SaveReceiptLine(r, g) => Effect(r)
         /\ DeleteRow(r) => Effect(r)
         /\ Abort(r) => Effect(r)
<1>t. Typed
  BY TypeParts
<1>c. /\ copy[r].order \in Statuses \cup {NoOrder}
      /\ copy[r].stored \in SUBSET OrderLines
      /\ copy[r].received \in [OrderLines -> Nat]
      /\ copy[r].receipt \in Receipts
      /\ copy[r].status \in {"none", "DRAFT", "COMPLETED"}
      /\ copy[r].goods \in SUBSET GoodsLines
      /\ copy[r].todo \in SUBSET (OrderLines \cup GoodsLines)
  BY CopyTyped
<1>w. Writing(r) => /\ history' \in Histories
                    /\ history'.unchecked = history.unchecked
  BY <1>t, HistoryTyped DEF Typed
<1>l. ASSUME NEW x
      PROVE  /\ WithOrderLines(r, x) \in Labels \ {"post"}
             /\ WithReceiptLines(x) \in Labels \ {"post"}
  BY DEF WithOrderLines, WithReceiptLines, Labels
<1>1. ASSUME SaveOrder(r)
      PROVE  Effect(r)
  <2>1. /\ Proceed(r, [copy[r] EXCEPT !.todo = copy[r].stored],
                   WithOrderLines(r, copy[r].stored))
        /\ Writing(r)
    BY <1>1 DEF SaveOrder
  <2>2. Typed' /\ stock' = stock /\ received' = received
    BY <1>1, <1>t, <1>c, <1>w, <2>1 DEF SaveOrder, Typed, Rows, ReceiptRows, Books,
                                   Given, receiptTables, ledger
  <2>3. copy[r].stored \in SUBSET (OrderLines \cup GoodsLines)
    BY <1>c
  <2> QED
    BY <1>l, <1>w, <2>1, <2>2, <2>3, ProceedEffect DEF Inherits
<1>2. ASSUME NEW l \in OrderLines, SaveOrderLine(r, l)
      PROVE  Effect(r)
  <2>1. /\ Proceed(r, [copy[r] EXCEPT !.todo = copy[r].todo \ {l}],
                   WithOrderLines(r, copy[r].todo \ {l}))
        /\ Writing(r)
        /\ received' = [received EXCEPT ![l] = copy[r].received[l]]
        /\ stored' = stored \cup {l}
    BY <1>2 DEF SaveOrderLine, WriteOrderLine
  <2>2. received \in [OrderLines -> Nat] /\ stored \in SUBSET OrderLines
    BY <1>t DEF Typed, Rows
  <2>3. Rows'
    BY <1>2, <1>t, <1>c, <2>1, <2>2 DEF Rows, SaveOrderLine, WriteOrderLine, Typed
  <2>4. Typed' /\ stock' = stock
    BY <1>2, <1>t, <1>w, <2>1, <2>3
       DEF SaveOrderLine, WriteOrderLine, Typed, ReceiptRows, Books, Given,
           receiptTables, ledger
  <2>5. \A k \in OrderLines : Inherits(r, k, received'[k])
    BY <2>1, <2>2 DEF Inherits
  <2>6. copy[r].todo \ {l} \in SUBSET (OrderLines \cup GoodsLines)
    BY <1>c
  <2> QED
    BY <1>l, <1>w, <2>1, <2>4, <2>5, <2>6, ProceedEffect
<1>3. ASSUME SaveReceipt(r)
      PROVE  Effect(r)
  <2>1. /\ Proceed(r, [copy[r] EXCEPT !.todo = copy[r].goods],
                   WithReceiptLines(copy[r].goods))
        /\ Writing(r)
        /\ receipt' = [receipt EXCEPT ![copy[r].receipt] = copy[r].status]
    BY <1>3 DEF SaveReceipt, WriteReceipt
  <2>2. receipt' \in [Receipts -> {"none", "DRAFT", "COMPLETED"}]
    BY <1>t, <1>c, <2>1 DEF Typed, ReceiptRows
  <2>3. Typed' /\ stock' = stock /\ received' = received
    BY <1>3, <1>t, <1>w, <2>1, <2>2
       DEF SaveReceipt, WriteReceipt, Typed, Rows, ReceiptRows, Books, Given,
           orderTables, ledger
  <2>4. copy[r].goods \in SUBSET (OrderLines \cup GoodsLines)
    BY <1>c
  <2> QED
    BY <1>l, <1>w, <2>1, <2>3, <2>4, ProceedEffect DEF Inherits
<1>4. ASSUME NEW g \in GoodsLines, SaveReceiptLine(r, g)
      PROVE  Effect(r)
  <2>1. /\ Proceed(r, [copy[r] EXCEPT !.todo = copy[r].todo \ {g}],
                   WithReceiptLines(copy[r].todo \ {g}))
        /\ Writing(r)
        /\ receiptLines' = [receiptLines EXCEPT ![copy[r].receipt] = @ \cup {g}]
    BY <1>4 DEF SaveReceiptLine
  <2>2. receiptLines' \in [Receipts -> SUBSET GoodsLines]
    BY <1>t, <1>c, <2>1 DEF Typed, ReceiptRows
  <2>3. Typed' /\ stock' = stock /\ received' = received
    BY <1>4, <1>t, <1>w, <2>1, <2>2
       DEF SaveReceiptLine, Typed, Rows, ReceiptRows, Books, Given, orderTables, ledger
  <2>4. copy[r].todo \ {g} \in SUBSET (OrderLines \cup GoodsLines)
    BY <1>c
  <2> QED
    BY <1>l, <1>w, <2>1, <2>3, <2>4, ProceedEffect DEF Inherits
<1>5. ASSUME DeleteRow(r)
      PROVE  Effect(r)
  <2>1. Proceed(r, Idle, "idle") /\ Writing(r)
    BY <1>5 DEF DeleteRow
  <2>2. Typed' /\ stock' = stock
    BY <1>5, <1>t, <1>w, <2>1 DEF DeleteRow, Typed, Rows, ReceiptRows, Books, Given,
                                  receiptTables, ledger
  <2>3. \A l \in OrderLines : Inherits(r, l, received'[l])
    BY <1>5 DEF DeleteRow, Inherits
  <2> QED
    BY <1>w, <2>1, <2>2, <2>3, EndEffect
<1>6. ASSUME Abort(r)
      PROVE  Effect(r)
  <2>1. PICK b \in BOOLEAN : history' = [history EXCEPT !.cut = b]
    <3> DEFINE b == history.cut \/ pc[r] \in {"post", "saveOrder", "saveOrderLines",
                                              "saveReceipt", "saveReceiptLines"}
    <3>1. b \in BOOLEAN
      OBVIOUS
    <3> QED
      BY <1>6, <3>1 DEF Abort
  <2>2. history' \in Histories /\ history'.unchecked = history.unchecked
    BY <1>t, <2>1, HistoryFields DEF Typed, Histories
  <2>3. Typed' /\ stock' = stock /\ received' = received
    BY <1>6, <1>t, <2>2 DEF Abort, Typed, Rows, ReceiptRows, Books, Given,
                            orderTables, receiptTables, ledger
  <2> QED
    BY <1>6, <2>2, <2>3, EndEffect DEF Abort, Inherits
<1> QED
  BY <1>1, <1>2, <1>3, <1>4, <1>5, <1>6

LEMMA StepEffect ==
  ASSUME TypeOK, NEW r \in Requests, Step(r)
  PROVE  Effect(r)
  BY LoadingEffects, OrderEffects, ReceiptEffects, PostEffect, SavingEffects DEF Step

-----------------------------------------------------------------------------
(* Types. *)

\* Whatever requests overlap, fail or die, the tables and the copies keep their
\* types; above all, quantities never become negative.
THEOREM TypeCorrect == Spec => []TypeOK
<1>1. TypeOK /\ [Next]_vars => TypeOK'
  <2> SUFFICES ASSUME TypeOK, [Next]_vars PROVE TypeOK'
    OBVIOUS
  <2>1. CASE Next
    BY <2>1, StepEffect DEF Next, Effect
  <2>2. CASE UNCHANGED vars
    BY <2>2 DEF TypeOK, vars
  <2> QED
    BY <2>1, <2>2
<1> QED
  BY TypeInit, <1>1, PTL DEF Spec

-----------------------------------------------------------------------------
(* The order claims nothing the ledger did not get. *)

\* Copies must be bounded with the rows: a copy may be saved at any later time.
ClaimInv ==
  \A l \in OrderLines :
    /\ received[l] <= stock[l]
    /\ \A r \in Requests : copy[r].received[l] <= stock[l]

LEMMA ClaimStep ==
  ASSUME TypeOK, ClaimInv, NEW r \in Requests, Step(r)
  PROVE  ClaimInv'
<1> SUFFICES ASSUME NEW l \in OrderLines
             PROVE  /\ received'[l] <= stock'[l]
                    /\ \A q \in Requests : copy'[q].received[l] <= stock'[l]
  BY DEF ClaimInv
<1>e. Effect(r)
  BY StepEffect
<1>i. /\ received[l] <= stock[l]
      /\ \A q \in Requests : copy[q].received[l] <= stock[l]
  BY DEF ClaimInv
<1>t. /\ received[l] \in Nat /\ stock[l] \in Nat
      /\ \A q \in Requests : copy[q].received[l] \in Nat
  BY CopyTyped DEF TypeOK
<1>1. CASE Plain(r)
  <2>1. stock'[l] = stock[l] /\ received'[l] <= stock[l] /\ copy'[r].received[l] <= stock[l]
    BY <1>1, <1>i, <1>t DEF Plain, Inherits
  <2> QED
    BY <1>e, <1>i, <2>1 DEF Effect
<1>2. ASSUME NEW g \in GoodsLines, Post(r, g)
      PROVE  /\ received'[l] <= stock'[l]
             /\ \A q \in Requests : copy'[q].received[l] <= stock'[l]
  <2> DEFINE n == IF l = Against[g] THEN Quantity[g] ELSE 0
  <2>1. n \in Nat /\ stock'[l] = stock[l] + n
    BY <1>2, PostEffect, QuantityAssumption DEF TypeOK
  <2>2. /\ copy'[r].received[l] = copy[r].received[l] \/
             copy'[r].received[l] = copy[r].received[l] + n
        /\ received' = received
    <3>1. copy'[r].received = Recorded(r, g) /\ received' = received
      BY <1>2, PostEffect
    <3>2. Recorded(r, g)[l] = copy[r].received[l] +
            (IF l = Against[g] /\ l \in copy[r].stored THEN Quantity[g] ELSE 0)
      BY RecordedTyped
    <3> QED
      BY <1>t, <3>1, <3>2
  <2> HIDE DEF n
  <2>3. /\ received'[l] <= stock'[l]
        /\ copy'[r].received[l] <= stock'[l]
    BY <1>i, <1>t, <2>1, <2>2
  <2>4. ASSUME NEW q \in Requests \ {r}
        PROVE  copy'[q].received[l] <= stock'[l]
    <3>1. copy'[q].received[l] = copy[q].received[l]
      BY <1>e DEF Effect
    <3> QED
      BY <1>i, <1>t, <2>1, <3>1
  <2> QED
    BY <2>3, <2>4
<1> QED
  BY <1>e, <1>1, <1>2 DEF Effect

\* However requests overtake each other and wherever they die, the order never
\* claims more of a line than the ledger got for it.
THEOREM ReceivedGoodsArePosted == Spec => []ReceivedIsPosted
<1>1. Init => ClaimInv
  BY QuantityAssumption DEF Init, ClaimInv, Idle
<1>2. TypeOK /\ ClaimInv /\ [Next]_vars => ClaimInv'
  <2> SUFFICES ASSUME TypeOK, ClaimInv, [Next]_vars PROVE ClaimInv'
    OBVIOUS
  <2>1. CASE Next
    BY <2>1, ClaimStep DEF Next
  <2>2. CASE UNCHANGED vars
    BY <2>2 DEF ClaimInv, vars
  <2> QED
    BY <2>1, <2>2
<1>3. ClaimInv => ReceivedIsPosted
  BY DEF ClaimInv, ReceivedIsPosted
<1> QED
  BY TypeCorrect, <1>1, <1>2, <1>3, PTL DEF Spec

-----------------------------------------------------------------------------
(* Checked receipts do not overfill the order. *)

\* What request r has yet to post fits into what its copy of the order lacks.
Fits(r) ==
  pc[r] = "post" =>
    /\ ~Doubled(copy[r].todo \cap GoodsLines)
    /\ \A g \in copy[r].todo \cap GoodsLines : FitsRemaining(r, g)

FillInv ==
  ~history.unchecked =>
    /\ \A l \in OrderLines : received[l] <= Ordered[l]
    /\ \A r \in Requests, l \in OrderLines : copy[r].received[l] <= Ordered[l]
    /\ \A r \in Requests : Fits(r)

LEMMA FillStep ==
  ASSUME TypeOK, FillInv, NEW r \in Requests, Step(r)
  PROVE  FillInv'
<1> SUFFICES ASSUME ~history'.unchecked
             PROVE  /\ \A l \in OrderLines : received'[l] <= Ordered[l]
                    /\ \A q \in Requests, l \in OrderLines :
                         copy'[q].received[l] <= Ordered[l]
                    /\ \A q \in Requests : Fits(q)'
  BY DEF FillInv
<1>e. Effect(r)
  BY StepEffect
<1>i. /\ \A l \in OrderLines : received[l] <= Ordered[l]
      /\ \A q \in Requests, l \in OrderLines : copy[q].received[l] <= Ordered[l]
      /\ \A q \in Requests : Fits(q)
  BY <1>e DEF FillInv, Effect
<1>t. /\ received \in [OrderLines -> Nat] /\ Ordered \in [OrderLines -> Nat]
      /\ \A q \in Requests : copy[q].received \in [OrderLines -> Nat]
  BY CopyTyped, QuantityAssumption DEF TypeOK
<1>q. \A q \in Requests \ {r} : pc'[q] = pc[q] /\ copy'[q] = copy[q]
  BY <1>e DEF Effect
\* The other requests.
<1>o. ASSUME NEW q \in Requests \ {r}
      PROVE  Fits(q)' /\ \A l \in OrderLines : copy'[q].received[l] <= Ordered[l]
  <2>1. Fits(q) /\ pc'[q] = pc[q] /\ copy'[q] = copy[q]
    BY <1>i, <1>q
  <2> QED
    BY <1>i, <2>1 DEF Fits, FitsRemaining, Doubled
<1>1. CASE Plain(r) /\ (pc'[r] = "post" => Accepts(r))
  <2>1. \A l \in OrderLines : /\ received'[l] <= Ordered[l]
                              /\ copy'[r].received[l] <= Ordered[l]
    BY <1>1, <1>i, <1>t DEF Plain, Inherits
  <2>2. Fits(r)'
    <3> SUFFICES ASSUME pc'[r] = "post" PROVE Fits(r)'
      BY DEF Fits
    <3>c. /\ copy \in [Requests -> Copies] /\ copy[r] \in Copies
          /\ pc \in [Requests -> Labels] /\ history \in Histories
      BY TypeParts, CopyTyped DEF Typed
    <3>1. ~PostReceipt(r)
      <4> SUFFICES ASSUME PostReceipt(r) PROVE FALSE
        OBVIOUS
      <4>1. copy[r].goods # {}
        BY <3>c DEF PostReceipt, Goto
      <4>2. history' = [history EXCEPT !.unchecked = TRUE]
        BY <4>1 DEF PostReceipt
      <4> QED
        BY <3>c, <4>2 DEF Histories
    <3>2. PICK d \in Receipts, new \in SUBSET GoodsLines : CreateReceipt(r, d, new)
      BY <1>1, <3>1 DEF Accepts
    <3>3. /\ copy'[r].todo = new
          /\ copy'[r].received = copy[r].received
          /\ copy'[r].stored = copy[r].stored
      BY <3>2, <3>c DEF CreateReceipt, Copies
    <3>4. ~Doubled(new)
      <4> SUFFICES ASSUME Doubled(new) PROVE FALSE
        OBVIOUS
      <4>1. history' = [history EXCEPT !.unchecked = TRUE]
        BY <3>2 DEF CreateReceipt
      <4> QED
        BY <3>c, <4>1 DEF Histories
    <3>5. \A g \in new : FitsRemaining(r, g)
      BY <3>2 DEF CreateReceipt
    <3> QED
      BY <3>3, <3>4, <3>5 DEF Fits, FitsRemaining, Doubled
  <2> QED
    BY <1>o, <2>1, <2>2
<1>2. ASSUME NEW g \in GoodsLines, Post(r, g)
      PROVE  /\ \A l \in OrderLines : received'[l] <= Ordered[l]
             /\ \A l \in OrderLines : copy'[r].received[l] <= Ordered[l]
             /\ Fits(r)'
  <2>1. /\ received' = received
        /\ copy'[r].received = Recorded(r, g)
        /\ copy'[r].stored = copy[r].stored
        /\ copy'[r].todo = copy[r].todo \ {g}
    BY <1>2, PostEffect
  <2>2. /\ pc[r] = "post" /\ g \in copy[r].todo
        /\ ~Doubled(copy[r].todo \cap GoodsLines)
        /\ \A h \in copy[r].todo \cap GoodsLines : FitsRemaining(r, h)
    BY <1>2, <1>i DEF Post, Fits
  <2>3. \A l \in OrderLines :
          Recorded(r, g)[l] = copy[r].received[l] +
            (IF l = Against[g] /\ l \in copy[r].stored THEN Quantity[g] ELSE 0)
    BY RecordedTyped
  <2>4. ASSUME NEW l \in OrderLines
        PROVE  Recorded(r, g)[l] <= Ordered[l]
    <3>1. CASE l = Against[g] /\ l \in copy[r].stored
      <4>1. Quantity[g] <= Ordered[l] - copy[r].received[l]
        BY <2>2, <3>1 DEF FitsRemaining
      <4> QED
        BY <1>t, <2>3, <3>1, <4>1, QuantityAssumption
    <3>2. CASE ~(l = Against[g] /\ l \in copy[r].stored)
      BY <1>i, <1>t, <2>3, <3>2
    <3> QED
      BY <3>1, <3>2
  <2>5. ASSUME NEW h \in (copy[r].todo \ {g}) \cap GoodsLines,
               Against[h] \in copy[r].stored
        PROVE  Quantity[h] <= Ordered[Against[h]] - Recorded(r, g)[Against[h]]
    <3>1. Against[h] # Against[g]
      BY <2>2 DEF Doubled
    <3>2. Quantity[h] <= Ordered[Against[h]] - copy[r].received[Against[h]]
      BY <2>2, <2>5 DEF FitsRemaining
    <3>3. Recorded(r, g)[Against[h]] = copy[r].received[Against[h]]
      <4>1. Against[h] \in OrderLines
        BY <1>t, <2>5, CopyFields DEF TypeOK
      <4> QED
        BY <1>t, <2>3, <3>1, <4>1
    <3> QED
      BY <3>2, <3>3
  <2>6. Fits(r)'
    BY <2>1, <2>2, <2>5 DEF Fits, FitsRemaining, Doubled
  <2> QED
    BY <1>i, <2>1, <2>4, <2>6
<1> QED
  BY <1>e, <1>o, <1>1, <1>2 DEF Effect

\* Receipts that were compared with the order, one line for each order line,
\* never make it claim more than was ordered, although the comparison is made
\* on a copy of the order that other receipts may have overtaken.
THEOREM CheckedReceiptsFit == Spec => []OrderNeverOverfilled
<1>1. Init => FillInv
  BY QuantityAssumption DEF Init, FillInv, Idle, Fits
<1>2. TypeOK /\ FillInv /\ [Next]_vars => FillInv'
  <2> SUFFICES ASSUME TypeOK, FillInv, [Next]_vars PROVE FillInv'
    OBVIOUS
  <2>1. CASE Next
    BY <2>1, FillStep DEF Next
  <2>2. CASE UNCHANGED vars
    BY <2>2 DEF FillInv, Fits, FitsRemaining, Doubled, vars
  <2> QED
    BY <2>1, <2>2
<1>3. FillInv => OrderNeverOverfilled
  BY DEF FillInv, OrderNeverOverfilled
<1> QED
  BY TypeCorrect, <1>1, <1>2, <1>3, PTL DEF Spec

-----------------------------------------------------------------------------
(* What each operation makes of its request's copy. *)

LEMMA LoadsCopy ==
  ASSUME TypeOK, NEW r \in Requests
  PROVE  LET c == copy[r]
             d == copy'[r]
             SameReceipt == d.receipt = c.receipt /\ d.status = c.status /\ d.goods = c.goods
         IN
         /\ \A op \in Operations : StartOnOrder(r, op) =>
              /\ pc[r] = "idle" /\ pc'[r] = "orderLines" /\ order # NoOrder
              /\ d.op = op /\ d.order = order /\ d.goods = {} /\ d.status = "none"
              /\ op \notin {"addReceiptLine", "postReceipt"}
         /\ \A op \in Operations, rec \in Receipts : StartOnReceipt(r, op, rec) =>
              /\ pc[r] = "idle" /\ pc'[r] = "receiptLines"
              /\ d.op = op /\ d.goods = {} /\ d.receipt = rec /\ d.status = receipt[rec]
              /\ op \in {"addReceiptLine", "postReceipt"} /\ receipt[rec] # "none"
         /\ LoadReceiptLines(r) =>
              /\ pc[r] = "receiptLines"
              /\ pc'[r] = IF c.op = "postReceipt" THEN "order" ELSE "decide"
              /\ d.op = c.op /\ d.receipt = c.receipt /\ d.status = c.status
              /\ d.goods = receiptLines[c.receipt] /\ c.status = "DRAFT"
         /\ LoadOrder(r) =>
              /\ pc[r] = "order" /\ pc'[r] = "orderLines" /\ order # NoOrder
              /\ d.op = c.op /\ SameReceipt /\ d.order = order
         /\ LoadOrderLines(r) =>
              /\ pc[r] = "orderLines" /\ pc'[r] = "decide"
              /\ d.op = c.op /\ SameReceipt
              /\ d.order = c.order /\ d.stored = stored /\ d.received = received
<1>t. /\ copy \in [Requests -> Copies] /\ pc \in [Requests -> Labels]
      /\ copy[r] \in Copies /\ Idle \in Copies
  BY TypeParts, IdleTyped
<1>1. ASSUME NEW op \in Operations, StartOnOrder(r, op)
      PROVE  /\ pc[r] = "idle" /\ pc'[r] = "orderLines" /\ order # NoOrder
             /\ copy'[r].op = op /\ copy'[r].order = order /\ copy'[r].goods = {}
             /\ copy'[r].status = "none"
             /\ op \notin {"addReceiptLine", "postReceipt"}
  <2>1. copy'[r] = [Idle EXCEPT !.op = op, !.order = order]
    BY <1>t, <1>1 DEF StartOnOrder
  <2> QED
    BY <1>t, <1>1, <2>1 DEF StartOnOrder, Goto, Idle, OrderOperations
<1>2. ASSUME NEW op \in Operations, NEW rec \in Receipts, StartOnReceipt(r, op, rec)
      PROVE  /\ pc[r] = "idle" /\ pc'[r] = "receiptLines"
             /\ copy'[r].op = op /\ copy'[r].goods = {} /\ copy'[r].receipt = rec
             /\ copy'[r].status = receipt[rec]
             /\ op \in {"addReceiptLine", "postReceipt"} /\ receipt[rec] # "none"
  <2>1. copy'[r] = [Idle EXCEPT !.op = op, !.receipt = rec, !.status = receipt[rec]]
    BY <1>t, <1>2 DEF StartOnReceipt
  <2> QED
    BY <1>t, <1>2, <2>1 DEF StartOnReceipt, Goto, Idle
<1>3. CASE LoadReceiptLines(r)
  <2>1. copy'[r] = [copy[r] EXCEPT !.goods = receiptLines[copy[r].receipt]]
    BY <1>t, <1>3 DEF LoadReceiptLines
  <2>2. /\ pc[r] = "receiptLines" /\ copy[r].status = "DRAFT"
        /\ pc'[r] = IF copy[r].op = "postReceipt" THEN "order" ELSE "decide"
    BY <1>t, <1>3 DEF LoadReceiptLines, Goto
  <2> QED
    BY <1>t, <1>1, <1>2, <1>3, <2>1, <2>2 DEF Copies, LoadOrder, LoadOrderLines
<1>4. CASE LoadOrder(r)
  <2>1. copy'[r] = [copy[r] EXCEPT !.order = order]
    BY <1>t, <1>4 DEF LoadOrder
  <2>2. pc[r] = "order" /\ pc'[r] = "orderLines" /\ order # NoOrder
    BY <1>t, <1>4 DEF LoadOrder, Goto
  <2> QED
    BY <1>t, <1>1, <1>2, <2>1, <2>2 DEF Copies, LoadReceiptLines, LoadOrderLines
<1>5. CASE LoadOrderLines(r)
  <2>1. copy'[r] = [copy[r] EXCEPT !.stored = stored, !.received = received]
    BY <1>t, <1>5 DEF LoadOrderLines
  <2>2. pc[r] = "orderLines" /\ pc'[r] = "decide"
    BY <1>t, <1>5 DEF LoadOrderLines, Goto
  <2> QED
    BY <1>t, <1>1, <1>2, <2>1, <2>2 DEF Copies, LoadReceiptLines, LoadOrder
<1> QED
  BY <1>1, <1>2, <1>3, <1>4, <1>5

\* The operations that will save a changed copy of the order.
Revises(r) ==
  \/ \E new \in SUBSET OrderLines : Update(r, new)
  \/ \E l \in OrderLines : AddLine(r, l)
  \/ Submit(r) \/ Approve(r) \/ Issue(r) \/ Cancel(r)

\* They leave a status that receipts have given it, and change the lines of a
\* DRAFT only.
LEMMA RevisesCopy ==
  ASSUME TypeOK, NEW r \in Requests, Revises(r)
  PROVE  LET c == copy[r]
             d == copy'[r]
         IN
         /\ pc[r] = "decide" /\ pc'[r] = "saveOrder"
         /\ c.op \in OrderOperations /\ d.op = c.op
         /\ d.receipt = c.receipt /\ d.status = c.status /\ d.goods = c.goods
         /\ d.received = c.received
         /\ d.order = "FULFILLED" <=> c.order = "FULFILLED"
         /\ d.stored = c.stored \/ c.order = "DRAFT"
         /\ UNCHANGED <<orderTables, receiptTables, ledger, history>>
         /\ given \subseteq given'
<1>t. /\ copy \in [Requests -> Copies] /\ pc \in [Requests -> Labels]
      /\ copy[r] \in Copies
  BY TypeParts
<1>1. ASSUME NEW status, NEW new, SaveOrderCopy(r, status, new)
      PROVE  /\ pc'[r] = "saveOrder" /\ copy'[r].op = copy[r].op
             /\ copy'[r].receipt = copy[r].receipt /\ copy'[r].status = copy[r].status
             /\ copy'[r].goods = copy[r].goods /\ copy'[r].received = copy[r].received
             /\ copy'[r].order = status /\ copy'[r].stored = new
             /\ UNCHANGED <<orderTables, receiptTables, ledger, history>>
  <2>1. copy'[r] = [copy[r] EXCEPT !.order = status, !.stored = new]
    BY <1>t, <1>1 DEF SaveOrderCopy
  <2>2. pc'[r] = "saveOrder"
    BY <1>t, <1>1 DEF SaveOrderCopy, Goto
  <2> QED
    BY <1>t, <1>1, <2>1, <2>2 DEF Copies, SaveOrderCopy
<1>2. CASE \E new \in SUBSET OrderLines : Update(r, new)
  BY <1>1, <1>2 DEF Update, Deciding, OrderOperations
<1>3. CASE \E l \in OrderLines : AddLine(r, l)
  BY <1>1, <1>3 DEF AddLine, Deciding, OrderOperations
<1>4. CASE Submit(r)
  <2>1. /\ pc[r] = "decide" /\ copy[r].op \in OrderOperations
        /\ SaveOrderCopy(r, "SUBMITTED", copy[r].stored)
        /\ copy[r].order # "FULFILLED" /\ given' = given
    BY <1>4 DEF Submit, Advance, Deciding, OrderOperations
  <2> QED
    BY <1>1, <2>1
<1>5. CASE Approve(r)
  <2>1. /\ pc[r] = "decide" /\ copy[r].op \in OrderOperations
        /\ SaveOrderCopy(r, "APPROVED", copy[r].stored)
        /\ copy[r].order # "FULFILLED" /\ given' = given
    BY <1>5 DEF Approve, Advance, Deciding, OrderOperations
  <2> QED
    BY <1>1, <2>1
<1>6. CASE Issue(r)
  <2>1. /\ pc[r] = "decide" /\ copy[r].op \in OrderOperations
        /\ SaveOrderCopy(r, "ISSUED", copy[r].stored)
        /\ copy[r].order # "FULFILLED" /\ given' = given
    BY <1>6 DEF Issue, Advance, Deciding, OrderOperations
  <2> QED
    BY <1>1, <2>1
<1>7. CASE Cancel(r)
  <2>1. /\ pc[r] = "decide" /\ copy[r].op \in OrderOperations
        /\ SaveOrderCopy(r, "CANCELLED", copy[r].stored)
        /\ copy[r].order # "FULFILLED" /\ given' = given
    BY <1>7 DEF Cancel, Advance, Deciding, OrderOperations
  <2> QED
    BY <1>1, <2>1
<1> QED
  BY <1>2, <1>3, <1>4, <1>5, <1>6, <1>7 DEF Revises

LEMMA BeginsCopy ==
  ASSUME TypeOK, NEW r \in Requests
  PROVE  LET c == copy[r]
             d == copy'[r]
             SameOrder == d.order = c.order /\ d.stored = c.stored /\ d.received = c.received
         IN
         /\ \A new \in SUBSET OrderLines : Create(r, new) =>
              /\ pc[r] = "idle" /\ pc'[r] = "saveOrder"
              /\ order = NoOrder /\ history.started = 0 /\ given' = new
              /\ d.op = "create" /\ d.order = "DRAFT" /\ d.stored = new
              /\ d.received = [l \in OrderLines |-> 0]
              /\ d.goods = {} /\ d.status = "none"
         /\ Delete(r) =>
              pc[r] = "decide" /\ pc'[r] = "delete" /\ c.op = "delete" /\ d = c
         /\ \A rec \in Receipts, new \in SUBSET GoodsLines : CreateReceipt(r, rec, new) =>
              /\ pc[r] = "decide" /\ c.op = "createReceipt" /\ d.op = c.op
              /\ pc'[r] = IF new = {} THEN "saveReceipt" ELSE "post"
              /\ SameOrder /\ d.receipt = rec /\ d.goods = new /\ d.todo = new
              /\ d.status = IF new = {} THEN "DRAFT" ELSE "COMPLETED"
              /\ (new \cup {rec}) \cap given = {} /\ given' = given \cup new \cup {rec}
         /\ \A g \in GoodsLines : AddReceiptLine(r, g) =>
              /\ pc[r] = "decide" /\ c.op = "addReceiptLine" /\ d.op = c.op
              /\ pc'[r] = "saveReceipt"
              /\ SameOrder /\ d.receipt = c.receipt /\ d.status = c.status
              /\ d.goods = c.goods \cup {g} /\ g \notin given /\ given' = given \cup {g}
         /\ PostReceipt(r) =>
              /\ pc[r] = "decide" /\ c.op = "postReceipt" /\ d.op = c.op
              /\ pc'[r] = IF c.goods = {} THEN "saveOrder" ELSE "post"
              /\ SameOrder /\ d.receipt = c.receipt /\ d.goods = c.goods
              /\ d.todo = c.goods /\ d.status = "COMPLETED"
<1>t. /\ copy \in [Requests -> Copies] /\ pc \in [Requests -> Labels]
      /\ copy[r] \in Copies /\ Idle \in Copies
  BY TypeParts, IdleTyped
<1>1. ASSUME NEW new \in SUBSET OrderLines, Create(r, new)
      PROVE  /\ pc[r] = "idle" /\ pc'[r] = "saveOrder"
             /\ order = NoOrder /\ history.started = 0 /\ given' = new
             /\ copy'[r].op = "create" /\ copy'[r].order = "DRAFT" /\ copy'[r].stored = new
             /\ copy'[r].received = [l \in OrderLines |-> 0]
             /\ copy'[r].goods = {} /\ copy'[r].status = "none"
  <2>1. copy'[r] = [Idle EXCEPT !.op = "create", !.order = "DRAFT", !.stored = new]
    BY <1>t, <1>1 DEF Create
  <2> QED
    BY <1>t, <1>1, <2>1 DEF Create, Goto, Idle
<1>2. ASSUME Delete(r)
      PROVE  /\ pc[r] = "decide" /\ pc'[r] = "delete"
             /\ copy[r].op = "delete" /\ copy'[r] = copy[r]
  BY <1>t, <1>2 DEF Delete, Deciding, Goto
<1>3. ASSUME NEW rec \in Receipts, NEW new \in SUBSET GoodsLines, CreateReceipt(r, rec, new)
      PROVE  /\ pc[r] = "decide" /\ copy[r].op = "createReceipt" /\ copy'[r].op = copy[r].op
             /\ pc'[r] = IF new = {} THEN "saveReceipt" ELSE "post"
             /\ copy'[r].order = copy[r].order /\ copy'[r].stored = copy[r].stored
             /\ copy'[r].received = copy[r].received
             /\ copy'[r].receipt = rec /\ copy'[r].goods = new /\ copy'[r].todo = new
             /\ copy'[r].status = IF new = {} THEN "DRAFT" ELSE "COMPLETED"
             /\ (new \cup {rec}) \cap given = {} /\ given' = given \cup new \cup {rec}
  <2>1. copy'[r] = [copy[r] EXCEPT !.receipt = rec, !.goods = new, !.todo = new,
                      !.status = IF new = {} THEN "DRAFT" ELSE "COMPLETED"]
    BY <1>t, <1>3 DEF CreateReceipt
  <2>2. /\ pc[r] = "decide" /\ copy[r].op = "createReceipt"
        /\ pc'[r] = IF new = {} THEN "saveReceipt" ELSE "post"
        /\ (new \cup {rec}) \cap given = {} /\ given' = given \cup new \cup {rec}
    BY <1>t, <1>3 DEF CreateReceipt, Deciding, Goto
  <2> QED
    BY <1>t, <2>1, <2>2 DEF Copies
<1>4. ASSUME NEW g \in GoodsLines, AddReceiptLine(r, g)
      PROVE  /\ pc[r] = "decide" /\ copy[r].op = "addReceiptLine" /\ copy'[r].op = copy[r].op
             /\ pc'[r] = "saveReceipt"
             /\ copy'[r].order = copy[r].order /\ copy'[r].stored = copy[r].stored
             /\ copy'[r].received = copy[r].received
             /\ copy'[r].receipt = copy[r].receipt /\ copy'[r].status = copy[r].status
             /\ copy'[r].goods = copy[r].goods \cup {g}
             /\ g \notin given /\ given' = given \cup {g}
  <2>1. copy'[r] = [copy[r] EXCEPT !.goods = copy[r].goods \cup {g}]
    BY <1>t, <1>4 DEF AddReceiptLine
  <2>2. /\ pc[r] = "decide" /\ copy[r].op = "addReceiptLine" /\ pc'[r] = "saveReceipt"
        /\ g \notin given /\ given' = given \cup {g}
    BY <1>t, <1>4 DEF AddReceiptLine, Deciding, Goto
  <2> QED
    BY <1>t, <2>1, <2>2 DEF Copies
<1>5. ASSUME PostReceipt(r)
      PROVE  /\ pc[r] = "decide" /\ copy[r].op = "postReceipt" /\ copy'[r].op = copy[r].op
             /\ pc'[r] = IF copy[r].goods = {} THEN "saveOrder" ELSE "post"
             /\ copy'[r].order = copy[r].order /\ copy'[r].stored = copy[r].stored
             /\ copy'[r].received = copy[r].received
             /\ copy'[r].receipt = copy[r].receipt /\ copy'[r].goods = copy[r].goods
             /\ copy'[r].todo = copy[r].goods /\ copy'[r].status = "COMPLETED"
  <2>1. copy'[r] = [copy[r] EXCEPT !.todo = copy[r].goods, !.status = "COMPLETED"]
    BY <1>t, <1>5 DEF PostReceipt
  <2>2. /\ pc[r] = "decide" /\ copy[r].op = "postReceipt"
        /\ pc'[r] = IF copy[r].goods = {} THEN "saveOrder" ELSE "post"
    BY <1>t, <1>5 DEF PostReceipt, Deciding, Goto
  <2> QED
    BY <1>t, <2>1, <2>2 DEF Copies
<1> QED
  BY <1>1, <1>2, <1>3, <1>4, <1>5

LEMMA PostCopy ==
  ASSUME TypeOK, NEW r \in Requests, NEW g \in GoodsLines, Post(r, g)
  PROVE  LET c == copy[r]
             d == copy'[r]
         IN
         /\ pc[r] = "post" /\ g \in c.todo
         /\ pc'[r] = IF d.todo = {} THEN "saveOrder" ELSE "post"
         /\ d.op = c.op /\ d.receipt = c.receipt /\ d.status = c.status /\ d.goods = c.goods
         /\ d.todo = c.todo \ {g} /\ d.stored = c.stored
         /\ d.received = Recorded(r, g) /\ d.order = StatusAfter(r, Recorded(r, g))
         /\ posted' = [posted EXCEPT ![g] = @ + 1]
         /\ stock' = [stock EXCEPT ![Against[g]] = @ + Quantity[g]]
<1>t. /\ copy \in [Requests -> Copies] /\ pc \in [Requests -> Labels]
      /\ copy[r] \in Copies
  BY TypeParts
<1>1. copy'[r] = [copy[r] EXCEPT !.todo = copy[r].todo \ {g}, !.received = Recorded(r, g),
                                 !.order = StatusAfter(r, Recorded(r, g))]
  BY <1>t DEF Post
<1>2. /\ pc[r] = "post" /\ g \in copy[r].todo
      /\ pc'[r] = IF copy[r].todo \ {g} = {} THEN "saveOrder" ELSE "post"
      /\ posted' = [posted EXCEPT ![g] = @ + 1]
      /\ stock' = [stock EXCEPT ![Against[g]] = @ + Quantity[g]]
  BY <1>t DEF Post, Goto
<1> QED
  BY <1>t, <1>1, <1>2 DEF Copies

\* A copy whose request has this left to save.
LEMMA TodoFields ==
  ASSUME NEW c \in Copies, NEW x
  PROVE  LET d == [c EXCEPT !.todo = x]
         IN  /\ d.op = c.op /\ d.order = c.order /\ d.stored = c.stored
             /\ d.received = c.received /\ d.receipt = c.receipt
             /\ d.status = c.status /\ d.goods = c.goods /\ d.todo = x
  BY DEF Copies

LEMMA SavesCopy ==
  ASSUME TypeOK, NEW r \in Requests
  PROVE  LET c == copy[r]
             d == copy'[r]
             Left(x) ==
               /\ pc'[r] = "idle" => d = Idle
               /\ pc'[r] # "idle" =>
                    /\ d.op = c.op /\ d.order = c.order /\ d.stored = c.stored
                    /\ d.received = c.received /\ d.receipt = c.receipt
                    /\ d.status = c.status /\ d.goods = c.goods /\ d.todo = x
         IN
         /\ SaveOrder(r) =>
              /\ pc[r] = "saveOrder" /\ pc'[r] = WithOrderLines(r, c.stored)
              /\ Left(c.stored) /\ order' = c.order
         /\ \A l \in OrderLines : SaveOrderLine(r, l) =>
              /\ pc[r] = "saveOrderLines" /\ pc'[r] = WithOrderLines(r, c.todo \ {l})
              /\ Left(c.todo \ {l}) /\ l \in c.todo
              /\ stored' = stored \cup {l}
              /\ received' = [received EXCEPT ![l] = c.received[l]]
         /\ SaveReceipt(r) =>
              /\ pc[r] = "saveReceipt" /\ pc'[r] = WithReceiptLines(c.goods)
              /\ Left(c.goods) /\ receipt' = [receipt EXCEPT ![c.receipt] = c.status]
         /\ \A g \in GoodsLines : SaveReceiptLine(r, g) =>
              /\ pc[r] = "saveReceiptLines" /\ pc'[r] = WithReceiptLines(c.todo \ {g})
              /\ Left(c.todo \ {g}) /\ g \in c.todo /\ Against[g] \in stored \cup OtherLines
              /\ receiptLines' = [receiptLines EXCEPT ![c.receipt] = @ \cup {g}]
         /\ DeleteRow(r) => pc[r] = "delete" /\ pc'[r] = "idle" /\ d = Idle
         /\ Abort(r) => pc[r] # "idle" /\ pc'[r] = "idle" /\ d = Idle
<1>t. /\ copy \in [Requests -> Copies] /\ pc \in [Requests -> Labels]
      /\ copy[r] \in Copies
  BY TypeParts
<1> DEFINE Left(x, label) ==
      /\ pc'[r] = label
      /\ label = "idle" => copy'[r] = Idle
      /\ label # "idle" =>
           /\ copy'[r].op = copy[r].op /\ copy'[r].order = copy[r].order
           /\ copy'[r].stored = copy[r].stored
           /\ copy'[r].received = copy[r].received /\ copy'[r].receipt = copy[r].receipt
           /\ copy'[r].status = copy[r].status /\ copy'[r].goods = copy[r].goods
           /\ copy'[r].todo = x
<1>1. ASSUME SaveOrder(r)
      PROVE  /\ pc[r] = "saveOrder" /\ order' = copy[r].order
             /\ Left(copy[r].stored, WithOrderLines(r, copy[r].stored))
  <2>1. pc'[r] = WithOrderLines(r, copy[r].stored)
    BY <1>t, <1>1 DEF SaveOrder, Proceed
  <2>2. copy'[r] = IF WithOrderLines(r, copy[r].stored) = "idle" THEN Idle
                   ELSE [copy[r] EXCEPT !.todo = copy[r].stored]
    BY <1>t, <1>1 DEF SaveOrder, Proceed
  <2>3. Left(copy[r].stored, WithOrderLines(r, copy[r].stored))
    BY <1>t, <2>1, <2>2, TodoFields
  <2> QED
    BY <1>1, <2>3 DEF SaveOrder
<1>2. ASSUME NEW l \in OrderLines, SaveOrderLine(r, l)
      PROVE  /\ pc[r] = "saveOrderLines" /\ l \in copy[r].todo
             /\ stored' = stored \cup {l}
             /\ received' = [received EXCEPT ![l] = copy[r].received[l]]
             /\ Left(copy[r].todo \ {l}, WithOrderLines(r, copy[r].todo \ {l}))
  <2>1. pc'[r] = WithOrderLines(r, copy[r].todo \ {l})
    BY <1>t, <1>2 DEF SaveOrderLine, WriteOrderLine, Proceed
  <2>2. copy'[r] = IF WithOrderLines(r, copy[r].todo \ {l}) = "idle" THEN Idle
                   ELSE [copy[r] EXCEPT !.todo = copy[r].todo \ {l}]
    BY <1>t, <1>2 DEF SaveOrderLine, WriteOrderLine, Proceed
  <2>3. Left(copy[r].todo \ {l}, WithOrderLines(r, copy[r].todo \ {l}))
    BY <1>t, <2>1, <2>2, TodoFields
  <2> QED
    BY <1>2, <2>3 DEF SaveOrderLine, WriteOrderLine
<1>3. ASSUME SaveReceipt(r)
      PROVE  /\ pc[r] = "saveReceipt"
             /\ receipt' = [receipt EXCEPT ![copy[r].receipt] = copy[r].status]
             /\ Left(copy[r].goods, WithReceiptLines(copy[r].goods))
  <2>1. pc'[r] = WithReceiptLines(copy[r].goods)
    BY <1>t, <1>3 DEF SaveReceipt, WriteReceipt, Proceed
  <2>2. copy'[r] = IF WithReceiptLines(copy[r].goods) = "idle" THEN Idle
                   ELSE [copy[r] EXCEPT !.todo = copy[r].goods]
    BY <1>t, <1>3 DEF SaveReceipt, WriteReceipt, Proceed
  <2>3. Left(copy[r].goods, WithReceiptLines(copy[r].goods))
    BY <1>t, <2>1, <2>2, TodoFields
  <2> QED
    BY <1>3, <2>3 DEF SaveReceipt, WriteReceipt
<1>4. ASSUME NEW g \in GoodsLines, SaveReceiptLine(r, g)
      PROVE  /\ pc[r] = "saveReceiptLines" /\ g \in copy[r].todo
             /\ Against[g] \in stored \cup OtherLines
             /\ receiptLines' = [receiptLines EXCEPT ![copy[r].receipt] = @ \cup {g}]
             /\ Left(copy[r].todo \ {g}, WithReceiptLines(copy[r].todo \ {g}))
  <2>1. pc'[r] = WithReceiptLines(copy[r].todo \ {g})
    BY <1>t, <1>4 DEF SaveReceiptLine, Proceed
  <2>2. copy'[r] = IF WithReceiptLines(copy[r].todo \ {g}) = "idle" THEN Idle
                   ELSE [copy[r] EXCEPT !.todo = copy[r].todo \ {g}]
    BY <1>t, <1>4 DEF SaveReceiptLine, Proceed
  <2>3. Left(copy[r].todo \ {g}, WithReceiptLines(copy[r].todo \ {g}))
    BY <1>t, <2>1, <2>2, TodoFields
  <2> QED
    BY <1>4, <2>3 DEF SaveReceiptLine
<1>5. /\ DeleteRow(r) => pc[r] = "delete" /\ pc'[r] = "idle" /\ copy'[r] = Idle
      /\ Abort(r) => pc[r] # "idle" /\ pc'[r] = "idle" /\ copy'[r] = Idle
  BY <1>t DEF DeleteRow, Abort, Proceed
<1> QED
  BY <1>1, <1>2, <1>3, <1>4, <1>5

-----------------------------------------------------------------------------
(* Where a request is, and what its copy holds there. *)

OfReceipt(c) == c.op \notin OrderOperations

Shape(c, label) ==
  /\ ~OfReceipt(c) => c.goods = {} /\ c.status = "none"
  /\ label = "idle" => c = Idle
  /\ label \in {"receiptLines", "order"} => c.op \in {"addReceiptLine", "postReceipt"}
  /\ label = "order" => c.op = "postReceipt"
  /\ label = "orderLines" => c.op # "addReceiptLine"
  /\ label = "post" =>
       OfReceipt(c) /\ c.status = "COMPLETED" /\ c.todo \subseteq c.goods
  /\ label \in {"saveOrder", "saveOrderLines"} /\ OfReceipt(c) => c.status = "COMPLETED"
  /\ label = "saveOrderLines" => c.todo \subseteq c.stored
  /\ label \in {"saveReceipt", "saveReceiptLines"} => OfReceipt(c)
  /\ label = "saveReceipt" => c.status # "none"
  /\ label = "saveReceiptLines" => c.status # "none" /\ c.todo \subseteq c.goods
  /\ label = "decide" /\ c.op = "addReceiptLine" => c.status = "DRAFT"

ShapeInv == \A r \in Requests : Shape(copy[r], pc[r])

LEMMA ShapeStep ==
  ASSUME TypeOK, ShapeInv, NEW r \in Requests, Step(r)
  PROVE  ShapeInv'
<1>e. \A q \in Requests \ {r} : pc'[q] = pc[q] /\ copy'[q] = copy[q]
  BY StepEffect DEF Effect
<1>s. Shape(copy[r], pc[r])
  BY DEF ShapeInv
<1> SUFFICES Shape(copy'[r], pc'[r])
  BY <1>e DEF ShapeInv
<1>0. ASSUME pc'[r] = "idle", copy'[r] = Idle
      PROVE  Shape(copy'[r], pc'[r])
  BY <1>0 DEF Shape, Idle, OfReceipt
<1>1. ASSUME NEW op \in Operations, StartOnOrder(r, op)
      PROVE  Shape(copy'[r], pc'[r])
  BY <1>1, LoadsCopy DEF Shape
<1>2. ASSUME NEW op \in Operations, NEW rec \in Receipts, StartOnReceipt(r, op, rec)
      PROVE  Shape(copy'[r], pc'[r])
  BY <1>2, LoadsCopy DEF Shape, OfReceipt, OrderOperations
<1>3. CASE LoadReceiptLines(r) \/ LoadOrder(r) \/ LoadOrderLines(r)
  <2>1. CASE LoadReceiptLines(r)
    BY <1>s, <2>1, LoadsCopy DEF Shape, OfReceipt, OrderOperations
  <2>2. CASE LoadOrder(r)
    BY <1>s, <2>2, LoadsCopy DEF Shape, OfReceipt, OrderOperations
  <2>3. CASE LoadOrderLines(r)
    BY <1>s, <2>3, LoadsCopy DEF Shape, OfReceipt, OrderOperations
  <2> QED
    BY <1>3, <2>1, <2>2, <2>3
<1>4. CASE Revises(r)
  BY <1>s, <1>4, RevisesCopy DEF Shape, OfReceipt
<1>5. ASSUME NEW new \in SUBSET OrderLines, Create(r, new)
      PROVE  Shape(copy'[r], pc'[r])
  BY <1>5, BeginsCopy DEF Shape, OfReceipt, OrderOperations
<1>6. CASE Delete(r)
  BY <1>s, <1>6, BeginsCopy DEF Shape
<1>7. ASSUME NEW rec \in Receipts, NEW new \in SUBSET GoodsLines, CreateReceipt(r, rec, new)
      PROVE  Shape(copy'[r], pc'[r])
  BY <1>7, BeginsCopy DEF Shape, OfReceipt, OrderOperations
<1>8. ASSUME NEW g \in GoodsLines, AddReceiptLine(r, g)
      PROVE  Shape(copy'[r], pc'[r])
  BY <1>s, <1>8, BeginsCopy DEF Shape, OfReceipt, OrderOperations
<1>9. CASE PostReceipt(r)
  BY <1>s, <1>9, BeginsCopy DEF Shape, OfReceipt, OrderOperations
<1>10. ASSUME NEW g \in GoodsLines, Post(r, g)
       PROVE  Shape(copy'[r], pc'[r])
  BY <1>s, <1>10, PostCopy DEF Shape, OfReceipt
<1>l. ASSUME NEW x, pc'[r] \in {"idle", "saveOrderLines", "saveReceipt"},
             pc'[r] = "saveReceipt" => OfReceipt(copy[r]),
             pc[r] \in {"saveOrder", "saveOrderLines"}, x \subseteq copy[r].stored,
             pc'[r] = "idle" => copy'[r] = Idle,
             pc'[r] # "idle" =>
               /\ copy'[r].op = copy[r].op /\ copy'[r].stored = copy[r].stored
               /\ copy'[r].status = copy[r].status /\ copy'[r].goods = copy[r].goods
               /\ copy'[r].todo = x
      PROVE  Shape(copy'[r], pc'[r])
  <2>1. CASE pc'[r] = "idle"
    BY <1>0, <1>l, <2>1
  <2>2. CASE pc'[r] = "saveOrderLines"
    BY <1>s, <1>l, <2>2 DEF Shape, OfReceipt
  <2>3. CASE pc'[r] = "saveReceipt"
    BY <1>s, <1>l, <2>3 DEF Shape, OfReceipt
  <2> QED
    BY <1>l, <2>1, <2>2, <2>3
<1>11. CASE SaveOrder(r)
  <2>1. /\ pc'[r] \in {"idle", "saveOrderLines", "saveReceipt"}
        /\ pc'[r] = "saveReceipt" => OfReceipt(copy[r])
    BY <1>11, SavesCopy DEF WithOrderLines, OfReceipt
  <2> QED
    BY <1>l, <1>11, <2>1, SavesCopy
<1>12. ASSUME NEW l \in OrderLines, SaveOrderLine(r, l)
       PROVE  Shape(copy'[r], pc'[r])
  <2>1. copy[r].todo \ {l} \subseteq copy[r].stored
    BY <1>s, <1>12, SavesCopy DEF Shape
  <2>2. /\ pc'[r] \in {"idle", "saveOrderLines", "saveReceipt"}
        /\ pc'[r] = "saveReceipt" => OfReceipt(copy[r])
    BY <1>12, SavesCopy DEF WithOrderLines, OfReceipt
  <2>3. /\ pc[r] = "saveOrderLines"
        /\ pc'[r] = "idle" => copy'[r] = Idle
        /\ pc'[r] # "idle" =>
             /\ copy'[r].op = copy[r].op /\ copy'[r].stored = copy[r].stored
             /\ copy'[r].status = copy[r].status /\ copy'[r].goods = copy[r].goods
             /\ copy'[r].todo = copy[r].todo \ {l}
    BY <1>12, SavesCopy
  <2> QED
    BY <1>l, <2>1, <2>2, <2>3
<1>r. ASSUME NEW x, pc'[r] \in {"idle", "saveReceiptLines"},
             pc[r] \in {"saveReceipt", "saveReceiptLines"}, x \subseteq copy[r].goods,
             pc'[r] = "idle" => copy'[r] = Idle,
             pc'[r] # "idle" =>
               /\ copy'[r].op = copy[r].op
               /\ copy'[r].status = copy[r].status /\ copy'[r].goods = copy[r].goods
               /\ copy'[r].todo = x
      PROVE  Shape(copy'[r], pc'[r])
  <2>1. CASE pc'[r] = "idle"
    BY <1>0, <1>r, <2>1
  <2>2. CASE pc'[r] = "saveReceiptLines"
    BY <1>s, <1>r, <2>2 DEF Shape, OfReceipt
  <2> QED
    BY <1>r, <2>1, <2>2
<1>13. CASE SaveReceipt(r)
  <2>1. pc'[r] \in {"idle", "saveReceiptLines"}
    BY <1>13, SavesCopy DEF WithReceiptLines
  <2> QED
    BY <1>r, <1>13, <2>1, SavesCopy
<1>14. ASSUME NEW g \in GoodsLines, SaveReceiptLine(r, g)
       PROVE  Shape(copy'[r], pc'[r])
  <2>1. pc'[r] \in {"idle", "saveReceiptLines"}
    BY <1>14, SavesCopy DEF WithReceiptLines
  <2>2. /\ pc[r] = "saveReceiptLines"
        /\ pc'[r] = "idle" => copy'[r] = Idle
        /\ pc'[r] # "idle" =>
             /\ copy'[r].op = copy[r].op
             /\ copy'[r].status = copy[r].status /\ copy'[r].goods = copy[r].goods
             /\ copy'[r].todo = copy[r].todo \ {g}
    BY <1>14, SavesCopy
  <2>3. copy[r].todo \ {g} \subseteq copy[r].goods
    BY <1>s, <2>2 DEF Shape
  <2> QED
    BY <1>r, <2>1, <2>2, <2>3
<1>15. CASE DeleteRow(r) \/ Abort(r)
  BY <1>0, <1>15, SavesCopy
<1> QED
  BY <1>1, <1>2, <1>3, <1>4, <1>5, <1>6, <1>7, <1>8, <1>9, <1>10, <1>11, <1>12, <1>13,
     <1>14, <1>15 DEF Step, Revises

-----------------------------------------------------------------------------
(* What a step leaves alone, and what it does to the history. *)

Starts(r) ==
  \/ \E op \in Operations : StartOnOrder(r, op)
  \/ \E op \in Operations, d \in Receipts : StartOnReceipt(r, op, d)
  \/ \E new \in SUBSET OrderLines : Create(r, new)

\* The steps that neither write nor post.
Plans(r) ==
  \/ LoadReceiptLines(r) \/ LoadOrder(r) \/ LoadOrderLines(r)
  \/ Revises(r) \/ Delete(r)
  \/ \E d \in Receipts, new \in SUBSET GoodsLines : CreateReceipt(r, d, new)
  \/ \E g \in GoodsLines : AddReceiptLine(r, g)
  \/ PostReceipt(r)

Saves(r) ==
  \/ SaveOrder(r) \/ \E l \in OrderLines : SaveOrderLine(r, l)
  \/ SaveReceipt(r) \/ \E g \in GoodsLines : SaveReceiptLine(r, g)

LEMMA StepKinds ==
  ASSUME NEW r \in Requests
  PROVE  Step(r) <=> \/ Starts(r) \/ Plans(r) \/ \E g \in GoodsLines : Post(r, g)
                     \/ Saves(r) \/ DeleteRow(r) \/ Abort(r)
  BY DEF Step, Starts, Plans, Saves, Revises

LEMMA Frames ==
  ASSUME TypeOK, NEW r \in Requests
  PROVE  /\ Starts(r) \/ Plans(r) \/ Abort(r) =>
              UNCHANGED <<order, stored, received, receipt, receiptLines, posted, stock>>
         /\ \A g \in GoodsLines : Post(r, g) =>
              UNCHANGED <<order, stored, received, receipt, receiptLines, given>>
         /\ SaveOrder(r) =>
              UNCHANGED <<stored, received, receipt, receiptLines, posted, stock, given>>
         /\ \A l \in OrderLines : SaveOrderLine(r, l) =>
              UNCHANGED <<order, receipt, receiptLines, posted, stock, given>>
         /\ SaveReceipt(r) =>
              UNCHANGED <<order, stored, received, receiptLines, posted, stock, given>>
         /\ \A g \in GoodsLines : SaveReceiptLine(r, g) =>
              UNCHANGED <<order, stored, received, receipt, posted, stock, given>>
         /\ DeleteRow(r) =>
              /\ UNCHANGED <<receipt, receiptLines, posted, stock, given>>
              /\ order' = NoOrder /\ stored' = {}
              /\ received' = [l \in OrderLines |-> 0]
              /\ \A d \in Receipts : receipt[d] = "none"
<1>1. Starts(r) => UNCHANGED <<order, stored, received, receipt, receiptLines, posted, stock>>
  BY DEF Starts, StartOnOrder, StartOnReceipt, Create, orderTables, receiptTables, ledger
<1>2. Revises(r) => UNCHANGED <<order, stored, received, receipt, receiptLines, posted, stock>>
  BY RevisesCopy DEF orderTables, receiptTables, ledger
<1>3. Plans(r) => UNCHANGED <<order, stored, received, receipt, receiptLines, posted, stock>>
  BY <1>2 DEF Plans, LoadReceiptLines, LoadOrder, LoadOrderLines, Delete, CreateReceipt,
              AddReceiptLine, PostReceipt, orderTables, receiptTables, ledger
<1> QED
  BY <1>1, <1>3 DEF Abort, Post, SaveOrder, SaveOrderLine, WriteOrderLine, SaveReceipt,
       WriteReceipt, SaveReceiptLine, DeleteRow, orderTables, receiptTables, ledger

Busy(label) ==
  label \in {"post", "saveOrder", "saveOrderLines", "saveReceipt", "saveReceiptLines"}

\* No id is given twice, but for those of an order that is yet to be.
LEMMA GivenStays ==
  ASSUME TypeOK, NEW r \in Requests, Step(r)
  PROVE  \/ given \subseteq given'
         \/ \E new \in SUBSET OrderLines : Create(r, new)
<1>1. \A op \in Operations, d \in Receipts : StartOnReceipt(r, op, d) => given' = given
  BY DEF StartOnReceipt
<1>2. \A op \in Operations : StartOnOrder(r, op) => given' = given
  BY DEF StartOnOrder
<1>3. CASE Starts(r)
  BY <1>1, <1>2, <1>3 DEF Starts
<1>4. CASE Revises(r)
  BY <1>4, RevisesCopy
<1>5. CASE Plans(r) /\ ~Revises(r)
  BY <1>5 DEF Plans, LoadReceiptLines, LoadOrder, LoadOrderLines, Delete,
              CreateReceipt, AddReceiptLine, PostReceipt
<1>6. CASE Saves(r) \/ DeleteRow(r) \/ Abort(r) \/ \E g \in GoodsLines : Post(r, g)
  BY <1>6 DEF Saves, SaveOrder, SaveOrderLine, WriteOrderLine, SaveReceipt, WriteReceipt,
              SaveReceiptLine, DeleteRow, Abort, Post
<1> QED
  BY <1>3, <1>4, <1>5, <1>6, StepKinds

LEMMA StepHistory ==
  ASSUME TypeOK, NEW r \in Requests
  PROVE  LET h == history
             i == history'
         IN
         /\ Starts(r) =>
              /\ pc[r] = "idle" /\ i.current = h.current \cup {r}
              /\ i.started = h.started + 1
              /\ i.stale = h.stale /\ i.cut = h.cut
         /\ Plans(r) =>
              /\ pc[r] # "idle" /\ i.current = h.current /\ i.started = h.started
              /\ i.stale = h.stale /\ i.cut = h.cut
         /\ \A g \in GoodsLines : Post(r, g) =>
              /\ pc[r] # "idle" /\ i.current = h.current /\ i.started = h.started
              /\ i.stale = (h.stale \/ r \notin h.current) /\ i.cut = h.cut
         /\ Saves(r) \/ DeleteRow(r) =>
              /\ pc[r] # "idle" /\ i.current = h.current \cap {r} /\ i.started = h.started
              /\ i.stale = (h.stale \/ r \notin h.current) /\ i.cut = h.cut
         /\ Abort(r) =>
              /\ pc[r] # "idle" /\ i.current = h.current /\ i.started = h.started
              /\ i.stale = h.stale /\ i.cut = (h.cut \/ Busy(pc[r]))
<1>t. history \in Histories /\ history.started \in Nat
  BY TypeParts DEF Typed, Histories
<1>1. CASE Starts(r)
  <2>1. Loading(r) /\ pc[r] = "idle"
    BY <1>1 DEF Starts, StartOnOrder, StartOnReceipt, Create
  <2>2. Starts(r) =>
          /\ pc[r] = "idle" /\ history'.current = history.current \cup {r}
          /\ history'.started = history.started + 1
          /\ history'.stale = history.stale /\ history'.cut = history.cut
    BY <1>t, <2>1 DEF Loading, Histories
  <2>3. ~Plans(r) /\ ~Saves(r) /\ ~DeleteRow(r) /\ ~Abort(r) /\ \A g \in GoodsLines : ~Post(r, g)
    BY <2>1, RevisesCopy DEF Plans, LoadReceiptLines, LoadOrder, LoadOrderLines, Delete,
       CreateReceipt, AddReceiptLine, PostReceipt, Deciding, Saves, SaveOrder, SaveOrderLine,
       WriteOrderLine, SaveReceipt, WriteReceipt, SaveReceiptLine, DeleteRow, Abort, Post
  <2> QED
    BY <2>2, <2>3
<1>2. Plans(r) =>
        /\ pc[r] # "idle" /\ history'.current = history.current
        /\ history'.started = history.started
        /\ history'.stale = history.stale /\ history'.cut = history.cut
  <2>1. Revises(r) => pc[r] # "idle" /\ history' = history
    BY RevisesCopy
  <2>2. \A d \in Receipts, new \in SUBSET GoodsLines : CreateReceipt(r, d, new) =>
          pc[r] # "idle" /\ \E b : history' = [history EXCEPT !.unchecked = b]
    BY DEF CreateReceipt, Deciding
  <2>3. PostReceipt(r) =>
          pc[r] # "idle" /\ \E b : history' = [history EXCEPT !.unchecked = b]
    BY DEF PostReceipt, Deciding
  <2>4. LoadReceiptLines(r) \/ LoadOrder(r) \/ LoadOrderLines(r) \/ Delete(r)
          \/ (\E g \in GoodsLines : AddReceiptLine(r, g)) =>
            pc[r] # "idle" /\ history' = history
    BY DEF LoadReceiptLines, LoadOrder, LoadOrderLines, Delete, AddReceiptLine, Deciding
  <2>5. Plans(r) => pc[r] # "idle" /\ (history' = history \/ \E b : history' = [history EXCEPT !.unchecked = b])
    BY <2>1, <2>2, <2>3, <2>4 DEF Plans
  <2> QED
    BY <1>t, <2>5 DEF Histories
<1>3. ASSUME NEW g \in GoodsLines, Post(r, g)
      PROVE  /\ pc[r] # "idle" /\ history'.current = history.current
             /\ history'.started = history.started
             /\ history'.stale = (history.stale \/ r \notin history.current)
             /\ history'.cut = history.cut
  BY <1>t, <1>3 DEF Post, Histories
<1>4. Saves(r) \/ DeleteRow(r) =>
        /\ pc[r] # "idle" /\ history'.current = history.current \cap {r}
        /\ history'.started = history.started
        /\ history'.stale = (history.stale \/ r \notin history.current)
        /\ history'.cut = history.cut
  <2>1. Saves(r) \/ DeleteRow(r) => pc[r] # "idle" /\ Writing(r)
    BY DEF Saves, SaveOrder, SaveOrderLine, WriteOrderLine, SaveReceipt, WriteReceipt,
           SaveReceiptLine, DeleteRow
  <2> QED
    BY <1>t, <2>1 DEF Writing, Histories
<1>5. Abort(r) =>
        /\ pc[r] # "idle" /\ history'.current = history.current
        /\ history'.started = history.started
        /\ history'.stale = history.stale /\ history'.cut = (history.cut \/ Busy(pc[r]))
  BY <1>t DEF Abort, Histories, Busy
<1> QED
  BY <1>1, <1>2, <1>3, <1>4, <1>5

-----------------------------------------------------------------------------
(* The rows refer to each other. *)

\* Lines belong to a row of a receipt and refer to a row of the order; what has
\* no row claims nothing; stock comes from postings.
RowInv ==
  /\ \A d \in Receipts : receipt[d] = "none" => receiptLines[d] = {}
  /\ \A d \in Receipts : \A g \in receiptLines[d] : Against[g] \in stored \cup OtherLines
  /\ \A l \in OrderLines \ stored : received[l] = 0
  /\ \A l \in OrderLines : stock[l] # 0 =>
       \E g \in GoodsLines : Against[g] = l /\ posted[g] # 0
  /\ \A r \in Requests :
       pc[r] = "saveReceiptLines" => receipt[copy[r].receipt] # "none"

LEMMA RowStep ==
  ASSUME TypeOK, ShapeInv, RowInv, NEW r \in Requests, Step(r)
  PROVE  RowInv'
<1>t. /\ receipt \in [Receipts -> {"none", "DRAFT", "COMPLETED"}]
      /\ receiptLines \in [Receipts -> SUBSET GoodsLines]
      /\ received \in [OrderLines -> Nat] /\ stored \in SUBSET OrderLines
      /\ posted \in [GoodsLines -> Nat] /\ stock \in [OrderLines \cup OtherLines -> Nat]
      /\ copy[r].receipt \in Receipts
      /\ \A q \in Requests : copy[q].receipt \in Receipts
  BY TypeParts, CopyTyped DEF Typed, Rows, ReceiptRows, Books
<1>e. \A q \in Requests \ {r} : pc'[q] = pc[q] /\ copy'[q] = copy[q]
  BY StepEffect DEF Effect
<1>s. Shape(copy[r], pc[r])
  BY DEF ShapeInv
<1>1. CASE Starts(r) \/ Plans(r) \/ Abort(r)
  <2>1. UNCHANGED <<order, stored, received, receipt, receiptLines, posted, stock>>
    BY <1>1, Frames
  <2>2. pc'[r] # "saveReceiptLines"
    BY <1>1, LoadsCopy, RevisesCopy, BeginsCopy, SavesCopy DEF Starts, Plans
  <2> QED
    BY <1>e, <2>1, <2>2 DEF RowInv
<1>2. ASSUME NEW g \in GoodsLines, Post(r, g)
      PROVE  RowInv'
  <2>1. /\ UNCHANGED <<order, stored, received, receipt, receiptLines, given>>
        /\ posted' = [posted EXCEPT ![g] = @ + 1]
        /\ stock' = [stock EXCEPT ![Against[g]] = @ + Quantity[g]]
        /\ pc'[r] # "saveReceiptLines"
    BY <1>2, Frames, PostCopy
  <2>2. \A h \in GoodsLines : posted[h] # 0 => posted'[h] # 0
    BY <1>t, <2>1
  <2>3. posted'[g] # 0
    BY <1>t, <2>1
  <2>4. ASSUME NEW l \in OrderLines, stock'[l] # 0
        PROVE  \E h \in GoodsLines : Against[h] = l /\ posted'[h] # 0
    <3>1. CASE l = Against[g]
      BY <2>3, <3>1
    <3>2. CASE l # Against[g]
      BY <1>t, <2>1, <2>2, <2>4, <3>2 DEF RowInv
    <3> QED
      BY <3>1, <3>2
  <2> QED
    BY <1>e, <2>1, <2>4 DEF RowInv
<1>3. CASE SaveOrder(r)
  <2>1. pc'[r] # "saveReceiptLines"
    BY <1>3, SavesCopy DEF WithOrderLines
  <2> QED
    BY <1>3, <1>e, <2>1, Frames DEF RowInv
<1>4. ASSUME NEW l \in OrderLines, SaveOrderLine(r, l)
      PROVE  RowInv'
  <2>1. pc'[r] # "saveReceiptLines"
    BY <1>4, SavesCopy DEF WithOrderLines
  <2>2. /\ stored' = stored \cup {l}
        /\ received' = [received EXCEPT ![l] = copy[r].received[l]]
        /\ UNCHANGED <<order, receipt, receiptLines, posted, stock, given>>
    BY <1>4, SavesCopy, Frames
  <2>3. \A k \in OrderLines \ stored' : received'[k] = 0
    BY <1>t, <2>2 DEF RowInv
  <2> QED
    BY <1>e, <2>1, <2>2, <2>3 DEF RowInv
<1>5. CASE SaveReceipt(r)
  <2>1. /\ pc[r] = "saveReceipt"
        /\ receipt' = [receipt EXCEPT ![copy[r].receipt] = copy[r].status]
        /\ pc'[r] # "idle" => copy'[r].receipt = copy[r].receipt
        /\ UNCHANGED <<order, stored, received, receiptLines, posted, stock, given>>
    BY <1>5, SavesCopy, Frames
  <2>2. copy[r].status # "none"
    BY <1>s, <2>1 DEF Shape
  <2>3. \A d \in Receipts : receipt'[d] = "none" => receipt[d] = "none"
    BY <1>t, <2>1, <2>2
  <2>4. receipt'[copy[r].receipt] # "none"
    BY <1>t, <2>1, <2>2
  <2>5. ASSUME NEW q \in Requests, pc'[q] = "saveReceiptLines"
        PROVE  receipt'[copy'[q].receipt] # "none"
    <3>1. CASE q = r
      BY <2>1, <2>4, <2>5, <3>1
    <3>2. CASE q # r
      BY <1>e, <1>t, <2>3, <2>5, <3>2 DEF RowInv
    <3> QED
      BY <3>1, <3>2
  <2> QED
    BY <2>1, <2>3, <2>5 DEF RowInv
<1>6. ASSUME NEW g \in GoodsLines, SaveReceiptLine(r, g)
      PROVE  RowInv'
  <2>1. /\ pc[r] = "saveReceiptLines" /\ Against[g] \in stored \cup OtherLines
        /\ receiptLines' = [receiptLines EXCEPT ![copy[r].receipt] = @ \cup {g}]
        /\ pc'[r] # "idle" => copy'[r].receipt = copy[r].receipt
        /\ UNCHANGED <<order, stored, received, receipt, posted, stock, given>>
    BY <1>6, SavesCopy, Frames
  <2>2. receipt[copy[r].receipt] # "none"
    BY <2>1 DEF RowInv
  <2>3. \A d \in Receipts : receipt[d] = "none" => receiptLines'[d] = {}
    BY <1>t, <2>1, <2>2 DEF RowInv
  <2>4. \A d \in Receipts : \A h \in receiptLines'[d] : Against[h] \in stored \cup OtherLines
    BY <1>t, <2>1 DEF RowInv
  <2>5. ASSUME NEW q \in Requests, pc'[q] = "saveReceiptLines"
        PROVE  receipt'[copy'[q].receipt] # "none"
    BY <1>e, <2>1, <2>2, <2>5 DEF RowInv
  <2> QED
    BY <2>1, <2>3, <2>4, <2>5 DEF RowInv
<1>7. CASE DeleteRow(r)
  <2>1. \A d \in Receipts : receipt[d] = "none" /\ receiptLines[d] = {}
    BY <1>7, Frames DEF RowInv
  <2>2. pc'[r] # "saveReceiptLines"
    BY <1>7, SavesCopy
  <2>3. \A l \in OrderLines : received'[l] = 0
    BY <1>7, Frames
  <2> QED
    BY <1>7, <1>e, <2>1, <2>2, <2>3, Frames DEF RowInv
<1> QED
  BY <1>1, <1>2, <1>3, <1>4, <1>5, <1>6, <1>7, StepKinds DEF Saves

\* Before the first request everything is at rest.
StartInv ==
  history.started = 0 =>
    /\ \A r \in Requests : pc[r] = "idle"
    /\ order = NoOrder => stored = {} /\ \A d \in Receipts : receipt[d] = "none"

LEMMA StartStep ==
  ASSUME TypeOK, StartInv, NEW r \in Requests, Step(r)
  PROVE  StartInv'
<1>1. history.started \in Nat
  BY TypeParts DEF Typed, Histories
<1>2. history'.started # 0
  BY <1>1, StepHistory, StepKinds DEF StartInv
<1> QED
  BY <1>2 DEF StartInv

-----------------------------------------------------------------------------
(* A line belongs to one receipt. *)

\* Receipt d has line g, or a request is about to give it the line.
Has(g, d) ==
  \/ g \in receiptLines[d]
  \/ \E r \in Requests : copy[r].receipt = d /\ g \in copy[r].goods

OwnInv ==
  /\ \A g \in GoodsLines, d \in Receipts : Has(g, d) => g \in given
  /\ \A g \in GoodsLines, d, e \in Receipts : Has(g, d) /\ Has(g, e) => d = e
  /\ \A d \in Receipts : receipt[d] # "none" => d \in given
  /\ \A r \in Requests :
       OfReceipt(copy[r]) /\ (copy[r].op # "createReceipt" \/ Busy(pc[r])) =>
         copy[r].receipt \in given

\* What the copy of r holds after a step.
LEMMA GoodsStep ==
  ASSUME TypeOK, ShapeInv, NEW r \in Requests, Step(r),
         NEW g \in copy'[r].goods
  PROVE  \/ copy'[r].receipt = copy[r].receipt
            /\ (g \in copy[r].goods \/ g \in receiptLines[copy[r].receipt])
         \/ g \notin given /\ g \in given'
<1>0. copy'[r] # Idle
  BY DEF Idle
<1>1. CASE Starts(r)
  BY <1>0, <1>1, LoadsCopy, BeginsCopy DEF Starts
<1>2. CASE Plans(r)
  <2>1. CASE LoadReceiptLines(r) \/ LoadOrder(r) \/ LoadOrderLines(r)
    BY <2>1, LoadsCopy
  <2>2. CASE Revises(r)
    BY <2>2, RevisesCopy
  <2>3. CASE Delete(r) \/ PostReceipt(r)
    BY <2>3, BeginsCopy
  <2>4. ASSUME NEW d \in Receipts, NEW new \in SUBSET GoodsLines, CreateReceipt(r, d, new)
        PROVE  g \notin given /\ g \in given'
    BY <2>4, BeginsCopy
  <2>5. ASSUME NEW h \in GoodsLines, AddReceiptLine(r, h)
        PROVE  \/ copy'[r].receipt = copy[r].receipt /\ g \in copy[r].goods
               \/ g \notin given /\ g \in given'
    BY <2>5, BeginsCopy
  <2> QED
    BY <1>2, <2>1, <2>2, <2>3, <2>4, <2>5 DEF Plans
<1>3. CASE \E h \in GoodsLines : Post(r, h)
  BY <1>3, PostCopy
<1>4. CASE Saves(r) \/ DeleteRow(r) \/ Abort(r)
  <2>1. pc'[r] = "idle" => copy'[r] = Idle
    BY <1>4, SavesCopy DEF Saves
  <2> QED
    BY <1>0, <1>4, <2>1, SavesCopy DEF Saves
<1> QED
  BY <1>1, <1>2, <1>3, <1>4, StepKinds

LEMMA HasStep ==
  ASSUME TypeOK, ShapeInv, NEW r \in Requests, Step(r),
         NEW g \in GoodsLines, NEW d \in Receipts, Has(g, d)'
  PROVE  Has(g, d) \/ (g \notin given /\ g \in given' /\ d = copy'[r].receipt)
<1>t. receiptLines \in [Receipts -> SUBSET GoodsLines] /\ copy[r].receipt \in Receipts
  BY TypeParts, CopyTyped DEF Typed, ReceiptRows
<1>e. \A q \in Requests \ {r} : pc'[q] = pc[q] /\ copy'[q] = copy[q]
  BY StepEffect DEF Effect
<1>s. Shape(copy[r], pc[r])
  BY DEF ShapeInv
<1>1. CASE g \in receiptLines'[d]
  <2>1. CASE receiptLines' = receiptLines
    BY <1>1, <2>1 DEF Has
  <2>2. ASSUME NEW h \in GoodsLines, SaveReceiptLine(r, h)
        PROVE  Has(g, d)
    <3>1. h \in copy[r].goods
      BY <1>s, <2>2, SavesCopy DEF Shape
    <3>2. Has(h, copy[r].receipt)
      BY <3>1 DEF Has
    <3>3. receiptLines' = [receiptLines EXCEPT ![copy[r].receipt] = @ \cup {h}]
      BY <2>2, SavesCopy
    <3>4. g \in receiptLines[d] \/ (d = copy[r].receipt /\ g = h)
      BY <1>t, <1>1, <3>3
    <3> QED
      BY <3>2, <3>4 DEF Has
  <2> QED
    BY <2>1, <2>2, Frames, StepKinds DEF Saves
<1>2. ASSUME NEW q \in Requests, copy'[q].receipt = d, g \in copy'[q].goods
      PROVE  Has(g, d) \/ (g \notin given /\ g \in given' /\ d = copy'[r].receipt)
  <2>1. CASE q = r
    BY <1>2, <2>1, GoodsStep DEF Has
  <2>2. CASE q # r
    BY <1>2, <1>e, <2>2 DEF Has
  <2> QED
    BY <2>1, <2>2
<1> QED
  BY <1>1, <1>2 DEF Has

LEMMA OwnStep ==
  ASSUME TypeOK, ShapeInv, RowInv, StartInv, OwnInv, NEW r \in Requests, Step(r)
  PROVE  OwnInv'
<1>t. receipt \in [Receipts -> {"none", "DRAFT", "COMPLETED"}]
  BY TypeParts DEF Typed, ReceiptRows
<1>e. \A q \in Requests \ {r} : pc'[q] = pc[q] /\ copy'[q] = copy[q]
  BY StepEffect DEF Effect
<1>s. Shape(copy[r], pc[r])
  BY DEF ShapeInv
<1>0. ASSUME NEW new \in SUBSET OrderLines, Create(r, new)
      PROVE  OwnInv'
  <2>1. /\ history.started = 0 /\ order = NoOrder
        /\ copy'[r].goods = {} /\ copy'[r].op = "create"
        /\ receipt' = receipt /\ receiptLines' = receiptLines
    BY <1>0, BeginsCopy, Frames DEF Starts
  <2>2. \A q \in Requests \ {r} : copy'[q] = Idle
    BY <1>e, <2>1 DEF StartInv, ShapeInv, Shape
  <2>3. \A q \in Requests : copy'[q].goods = {} /\ ~OfReceipt(copy'[q])
    <3>1. Idle.goods = {} /\ Idle.op = "create"
      BY DEF Idle
    <3>2. \A q \in Requests : copy'[q].goods = {} /\ copy'[q].op = "create"
      BY <2>1, <2>2, <3>1
    <3> QED
      BY <3>2 DEF OfReceipt, OrderOperations
  <2>4. \A d \in Receipts : receipt[d] = "none" /\ receiptLines[d] = {}
    BY <2>1 DEF StartInv, RowInv
  <2>5. \A g \in GoodsLines, d \in Receipts : ~Has(g, d)'
    BY <2>1, <2>3, <2>4 DEF Has
  <2> QED
    BY <2>1, <2>3, <2>4, <2>5 DEF OwnInv
<1>1. CASE given \subseteq given'
  <2>1. ASSUME NEW g \in GoodsLines, NEW d \in Receipts, Has(g, d)'
        PROVE  g \in given'
    BY <1>1, <2>1, HasStep DEF OwnInv
  <2>2. ASSUME NEW g \in GoodsLines, NEW d \in Receipts, NEW e \in Receipts,
               Has(g, d)', Has(g, e)'
        PROVE  d = e
    BY <2>2, HasStep DEF OwnInv
  <2>3. OfReceipt(copy'[r]) /\ (copy'[r].op # "createReceipt" \/ Busy(pc'[r])) =>
          copy'[r].receipt \in given'
    <3>0. copy'[r] = Idle => ~OfReceipt(copy'[r])
      BY DEF Idle, OfReceipt, OrderOperations
    <3>1. CASE Starts(r)
      <4>1. \A op \in Operations, d \in Receipts : StartOnReceipt(r, op, d) =>
              copy'[r].receipt \in given
        BY LoadsCopy DEF OwnInv
      <4>2. \A op \in Operations : StartOnOrder(r, op) =>
              (OfReceipt(copy'[r]) => copy'[r].op = "createReceipt") /\ ~Busy(pc'[r])
        BY LoadsCopy DEF OfReceipt, Operations, Busy
      <4>3. \A new \in SUBSET OrderLines : Create(r, new) => ~OfReceipt(copy'[r])
        BY BeginsCopy DEF OfReceipt, OrderOperations
      <4> QED
        BY <1>1, <3>1, <4>1, <4>2, <4>3 DEF Starts
    <3>2. CASE Plans(r)
      <4>1. CASE LoadReceiptLines(r) \/ LoadOrder(r) \/ LoadOrderLines(r)
        BY <1>1, <4>1, LoadsCopy DEF OwnInv, OfReceipt, Busy
      <4>2. CASE Revises(r)
        BY <4>2, RevisesCopy DEF OfReceipt
      <4>3. CASE Delete(r) \/ PostReceipt(r) \/ \E g \in GoodsLines : AddReceiptLine(r, g)
        BY <1>1, <4>3, BeginsCopy DEF OwnInv, OfReceipt, OrderOperations
      <4>4. CASE \E d \in Receipts, new \in SUBSET GoodsLines : CreateReceipt(r, d, new)
        BY <1>1, <4>4, BeginsCopy
      <4> QED
        BY <3>2, <4>1, <4>2, <4>3, <4>4 DEF Plans
    <3>3. CASE \E g \in GoodsLines : Post(r, g)
      BY <1>1, <3>3, PostCopy DEF OwnInv, OfReceipt, Busy
    <3>4. CASE Saves(r) \/ DeleteRow(r) \/ Abort(r)
      BY <1>1, <3>0, <3>4, SavesCopy DEF Saves, OwnInv, OfReceipt, Busy
    <3> QED
      BY <3>1, <3>2, <3>3, <3>4, StepKinds
  <2>4. ASSUME NEW d \in Receipts, receipt'[d] # "none"
        PROVE  d \in given'
    <3>1. CASE receipt' = receipt
      BY <1>1, <2>4, <3>1 DEF OwnInv
    <3>2. CASE SaveReceipt(r)
      <4>1. /\ pc[r] = "saveReceipt"
            /\ receipt' = [receipt EXCEPT ![copy[r].receipt] = copy[r].status]
        BY <3>2, SavesCopy
      <4>2. copy[r].receipt \in given
        BY <1>s, <4>1 DEF OwnInv, Shape, Busy
      <4> QED
        BY <1>t, <1>1, <2>4, <4>1, <4>2 DEF OwnInv
    <3> QED
      BY <3>1, <3>2, Frames, StepKinds DEF Saves
  <2> QED
    BY <1>1, <1>e, <2>1, <2>2, <2>3, <2>4 DEF OwnInv
<1> QED
  BY <1>0, <1>1, GivenStays

-----------------------------------------------------------------------------
(* What a request that nobody has overtaken knows. *)

\* Its copies are what the tables hold, or it has yet to save what they do not.
Known(r) ==
  LET c == copy[r]
      d == copy[r].receipt
  IN
  /\ pc[r] = "orderLines" => c.order = order
  /\ pc[r] = "decide" /\ c.op # "addReceiptLine" =>
       c.order = order /\ c.stored = stored /\ c.received = received
  /\ pc[r] = "receiptLines" => c.status = receipt[d]
  /\ pc[r] \in {"order", "orderLines", "decide"}
       /\ c.op \in {"addReceiptLine", "postReceipt"} =>
         receipt[d] = "DRAFT" /\ c.goods = receiptLines[d]
  /\ pc[r] \in {"post", "saveOrder", "saveOrderLines", "saveReceipt"} /\ OfReceipt(c) =>
       receipt[d] # "COMPLETED" /\ receiptLines[d] \subseteq c.goods
  /\ pc[r] \in {"post", "saveOrder"} /\ OfReceipt(c) => c.stored = stored
  /\ pc[r] = "saveOrderLines" /\ OfReceipt(c) => c.todo \subseteq stored
  /\ pc[r] = "saveReceiptLines" =>
       receipt[d] = c.status /\ c.goods = receiptLines[d] \cup c.todo

KnowInv == \A r \in history.current : Known(r)

LEMMA OthersKnow ==
  ASSUME TypeOK, KnowInv, NEW r \in Requests, Step(r),
         NEW q \in history'.current, q # r
  PROVE  Known(q)'
<1>1. history.current \subseteq Requests
  BY TypeParts DEF Typed, Histories
<1>2. /\ history'.current \subseteq history.current \cup {r}
      /\ Saves(r) \/ DeleteRow(r) => history'.current \subseteq {r}
  BY StepHistory, StepKinds
<1>3. UNCHANGED <<order, stored, received, receipt, receiptLines>>
  BY <1>2, Frames, StepKinds
<1>4. q \in history.current /\ pc'[q] = pc[q] /\ copy'[q] = copy[q]
  BY <1>1, <1>2, StepEffect DEF Effect
<1> QED
  BY <1>3, <1>4 DEF KnowInv, Known

LEMMA PlansKnow ==
  ASSUME TypeOK, ShapeInv, RowInv, OwnInv, KnowInv, NEW r \in Requests,
         Starts(r) \/ Plans(r), r \in history'.current
  PROVE  Known(r)'
<1>s. Shape(copy[r], pc[r])
  BY DEF ShapeInv
<1>u. UNCHANGED <<order, stored, received, receipt, receiptLines>>
  BY Frames
<1>k. Plans(r) => Known(r)
  BY StepHistory DEF KnowInv
<1>1. CASE Starts(r)
  <2>1. ASSUME NEW op \in Operations, StartOnOrder(r, op)
        PROVE  Known(r)'
    BY <1>u, <2>1, LoadsCopy DEF Known
  <2>2. ASSUME NEW op \in Operations, NEW d \in Receipts, StartOnReceipt(r, op, d)
        PROVE  Known(r)'
    BY <1>u, <2>2, LoadsCopy DEF Known
  <2>3. ASSUME NEW new \in SUBSET OrderLines, Create(r, new)
        PROVE  Known(r)'
    BY <1>u, <2>3, BeginsCopy DEF Known, OfReceipt, OrderOperations
  <2> QED
    BY <1>1, <2>1, <2>2, <2>3 DEF Starts
<1>2. CASE LoadReceiptLines(r)
  BY <1>s, <1>u, <1>k, <1>2, LoadsCopy DEF Plans, Known, Shape
<1>3. CASE LoadOrder(r)
  BY <1>s, <1>u, <1>k, <1>3, LoadsCopy DEF Plans, Known, Shape
<1>4. CASE LoadOrderLines(r)
  BY <1>s, <1>u, <1>k, <1>4, LoadsCopy DEF Plans, Known, Shape
<1>5. CASE Revises(r)
  BY <1>u, <1>5, RevisesCopy DEF Known, OfReceipt
<1>6. CASE Delete(r)
  BY <1>u, <1>6, BeginsCopy DEF Known
<1>7. ASSUME NEW d \in Receipts, NEW new \in SUBSET GoodsLines, CreateReceipt(r, d, new)
      PROVE  Known(r)'
  <2>1. receipt[d] = "none" /\ receiptLines[d] = {}
    BY <1>7, BeginsCopy DEF OwnInv, RowInv
  <2>2. Known(r)
    BY <1>k, <1>7 DEF Plans
  <2> QED
    BY <1>u, <1>7, <2>1, <2>2, BeginsCopy DEF Known
<1>8. ASSUME NEW g \in GoodsLines, AddReceiptLine(r, g)
      PROVE  Known(r)'
  <2>1. Known(r)
    BY <1>k, <1>8 DEF Plans
  <2> QED
    BY <1>u, <1>8, <2>1, BeginsCopy DEF Known
<1>9. CASE PostReceipt(r)
  BY <1>u, <1>k, <1>9, BeginsCopy DEF Plans, Known
<1> QED
  BY <1>1, <1>2, <1>3, <1>4, <1>5, <1>6, <1>7, <1>8, <1>9 DEF Plans

LEMMA SavesKnow ==
  ASSUME TypeOK, ShapeInv, NEW r \in Requests, Known(r), Saves(r)
  PROVE  Known(r)'
<1>t. /\ receipt \in [Receipts -> {"none", "DRAFT", "COMPLETED"}]
      /\ receiptLines \in [Receipts -> SUBSET GoodsLines]
      /\ copy[r].receipt \in Receipts
  BY TypeParts, CopyTyped DEF Typed, ReceiptRows
<1>s. Shape(copy[r], pc[r])
  BY DEF ShapeInv
<1>0. pc'[r] = "idle" => Known(r)'
  BY DEF Known
<1>1. CASE SaveOrder(r)
  BY <1>0, <1>1, SavesCopy, Frames DEF WithOrderLines, Known, OfReceipt
<1>2. ASSUME NEW l \in OrderLines, SaveOrderLine(r, l)
      PROVE  Known(r)'
  BY <1>0, <1>2, SavesCopy, Frames DEF WithOrderLines, Known, OfReceipt
<1>3. CASE SaveReceipt(r)
  <2>0. receipt' = [receipt EXCEPT ![copy[r].receipt] = copy[r].status]
    BY <1>3, SavesCopy
  <2>1. receipt'[copy[r].receipt] = copy[r].status
    BY <1>t, <2>0
  <2>2. OfReceipt(copy[r]) /\ receiptLines[copy[r].receipt] \subseteq copy[r].goods
    BY <1>s, <1>3, SavesCopy DEF Known, Shape
  <2> QED
    BY <1>0, <1>3, <2>1, <2>2, SavesCopy, Frames DEF WithReceiptLines, Known
<1>4. ASSUME NEW g \in GoodsLines, SaveReceiptLine(r, g)
      PROVE  Known(r)'
  <2>1. /\ receiptLines' = [receiptLines EXCEPT ![copy[r].receipt] = @ \cup {g}]
        /\ pc[r] = "saveReceiptLines" /\ g \in copy[r].todo
    BY <1>4, SavesCopy
  <2>2. receiptLines'[copy[r].receipt] = receiptLines[copy[r].receipt] \cup {g}
    BY <1>t, <2>1
  <2> QED
    BY <1>0, <1>4, <2>1, <2>2, SavesCopy, Frames DEF WithReceiptLines, Known
<1> QED
  BY <1>1, <1>2, <1>3, <1>4 DEF Saves

LEMMA KnowStep ==
  ASSUME TypeOK, ShapeInv, RowInv, OwnInv, KnowInv, NEW r \in Requests, Step(r)
  PROVE  KnowInv'
<1> SUFFICES ASSUME r \in history'.current
             PROVE  Known(r)'
  BY OthersKnow DEF KnowInv
<1>1. CASE Starts(r) \/ Plans(r)
  BY <1>1, PlansKnow
<1>2. CASE Saves(r)
  <2>1. Known(r)
    BY <1>2, StepHistory DEF KnowInv
  <2> QED
    BY <1>2, <2>1, SavesKnow
<1>3. ASSUME NEW g \in GoodsLines, Post(r, g)
      PROVE  Known(r)'
  <2>1. Known(r)
    BY <1>3, StepHistory DEF KnowInv
  <2> QED
    BY <1>3, <2>1, PostCopy, Frames DEF Known, OfReceipt
<1>4. CASE DeleteRow(r) \/ Abort(r)
  <2>1. pc'[r] = "idle"
    BY <1>4, SavesCopy
  <2> QED
    BY <2>1 DEF Known
<1> QED
  BY <1>1, <1>2, <1>3, <1>4, StepKinds

-----------------------------------------------------------------------------
(* The documents agree when the one request that works on them is done. *)

\* Something came in, and of these lines of the order all.
Filled(rows) == CameIn /\ \A l \in rows : stock[l] >= Ordered[l]

Completes(g) == \E d \in Receipts : g \in PostedFor(d)

\* What BooksFollowOrder asks for, of all rows.
Settled ==
  /\ \A l \in OrderLines : stock[l] = received[l]
  /\ \A g \in GoodsLines : posted[g] = IF Completes(g) THEN 1 ELSE 0
  /\ order = "FULFILLED" <=> Filled(stored)
  /\ ~history.unchecked => \A l \in OrderLines : stock[l] <= Ordered[l]

\* The lines r has posted and will save as those of a completed receipt.
Booked(r) ==
  IF copy[r].status # "COMPLETED" THEN {}
  ELSE IF pc[r] = "post" THEN copy[r].goods \ copy[r].todo ELSE copy[r].goods

\* The lines of the order that r has yet to save.
Unsaved(r) ==
  IF pc[r] \in {"post", "saveOrder"} THEN copy[r].stored
  ELSE IF pc[r] = "saveOrderLines" THEN copy[r].todo ELSE {}

\* The same as Settled, of what the tables hold when r has saved everything.
Outcome(r) ==
  /\ \A l \in OrderLines :
       stock[l] = IF l \in Unsaved(r) THEN copy[r].received[l] ELSE received[l]
  /\ \A g \in GoodsLines :
       posted[g] = IF Completes(g) \/ g \in Booked(r) THEN 1 ELSE 0
  /\ (IF pc[r] \in {"post", "saveOrder"} THEN copy[r].order ELSE order) = "FULFILLED"
       <=> Filled(stored \cup Unsaved(r))
  /\ ~history.unchecked => \A l \in OrderLines : stock[l] <= Ordered[l]

\* r has posted a line for a row that is not there: it cannot save it.
Stray(r) == \E g \in Booked(r) : Against[g] \notin stored \cup OtherLines

Good(r) == Stray(r) \/ Outcome(r)

\* A request that is busy will fail: another has overtaken it, or one of the
\* two will.
Doomed ==
  \E r \in Requests :
    /\ Busy(pc[r])
    /\ \/ r \notin history.current
       \/ \E q \in Requests \ {r} : Busy(pc[q])

Orderly == ~history.stale /\ ~history.cut /\ ~Doomed

BalanceInv ==
  Orderly =>
    /\ (\A r \in Requests : ~Busy(pc[r])) => Settled
    /\ \A r \in Requests : Busy(pc[r]) => Good(r)

\* What a step of r does to the requests and to the history.
Moves(r) ==
  /\ \A q \in Requests \ {r} : pc'[q] = pc[q] /\ copy'[q] = copy[q]
  /\ history'.current \subseteq history.current \cup {r}
  /\ history.stale => history'.stale
  /\ history.cut => history'.cut
  /\ history.unchecked => history'.unchecked
  /\ Busy(pc[r]) /\ ~history'.stale /\ ~history'.cut =>
       /\ Busy(pc'[r]) \/ history'.current \subseteq {r}
       /\ r \in history.current

LEMMA StepMoves ==
  ASSUME TypeOK, NEW r \in Requests, Step(r)
  PROVE  Moves(r)
<1>e. /\ \A q \in Requests \ {r} : pc'[q] = pc[q] /\ copy'[q] = copy[q]
      /\ history.unchecked => history'.unchecked
  BY StepEffect DEF Effect
<1>1. CASE Starts(r)
  BY <1>e, <1>1, StepHistory DEF Moves, Busy
<1>2. CASE Plans(r)
  <2>1. ~Busy(pc[r])
    BY <1>2, LoadsCopy, RevisesCopy, BeginsCopy DEF Plans, Busy
  <2> QED
    BY <1>e, <1>2, <2>1, StepHistory DEF Moves
<1>3. ASSUME NEW g \in GoodsLines, Post(r, g)
      PROVE  Moves(r)
  <2>1. Busy(pc'[r])
    BY <1>3, PostCopy DEF Busy
  <2> QED
    BY <1>e, <1>3, <2>1, StepHistory DEF Moves
<1>4. CASE Saves(r) \/ DeleteRow(r)
  BY <1>e, <1>4, StepHistory DEF Moves
<1>5. CASE Abort(r)
  BY <1>e, <1>5, StepHistory DEF Moves
<1> QED
  BY <1>1, <1>2, <1>3, <1>4, <1>5, StepKinds

\* Who is doomed stays doomed until it shows.
LEMMA DoomStays ==
  ASSUME NEW r \in Requests, Moves(r), Orderly'
  PROVE  Orderly
<1>1. /\ ~history.stale /\ ~history.cut
      /\ ~history'.stale /\ ~history'.cut /\ ~Doomed'
  BY DEF Orderly, Moves
<1>2. ASSUME NEW p \in Requests, Busy(pc[p]), p \notin history.current
      PROVE  FALSE
  <2>1. p # r
    BY <1>1, <1>2 DEF Moves
  <2>2. Busy(pc'[p]) /\ p \notin history'.current
    BY <1>2, <2>1 DEF Moves
  <2> QED
    BY <1>1, <2>2 DEF Doomed
<1>3. ASSUME NEW p \in Requests, NEW q \in Requests \ {p},
             Busy(pc[p]), Busy(pc[q]), p # r
      PROVE  FALSE
  <2>1. Busy(pc'[p])
    BY <1>3 DEF Moves
  <2>2. p \in history'.current /\ ~Busy(pc'[q])
    BY <1>1, <2>1 DEF Doomed
  <2>3. q = r
    BY <1>3, <2>2 DEF Moves
  <2> QED
    BY <1>1, <1>3, <2>2, <2>3 DEF Moves
<1> QED
  BY <1>1, <1>2, <1>3 DEF Doomed, Orderly

\* What r finds when it makes a step of which no doom comes.
Found(r) == IF Busy(pc[r]) THEN Good(r) ELSE Settled

\* A step after which r is busy: it is the only one.
LEMMA BusyStep ==
  ASSUME NEW r \in Requests, Moves(r), BalanceInv, Busy(pc'[r]),
         r \in history'.current /\ Found(r) => Good(r)'
  PROVE  BalanceInv'
<1> SUFFICES ASSUME Orderly'
             PROVE  \A q \in Requests : Busy(pc'[q]) => Good(q)'
  BY DEF BalanceInv
<1>1. Orderly
  BY DoomStays
<1>2. r \in history'.current /\ \A q \in Requests \ {r} : ~Busy(pc'[q])
  BY DEF Orderly, Doomed
<1>3. \A q \in Requests \ {r} : ~Busy(pc[q])
  BY <1>2 DEF Moves
<1>4. Found(r)
  BY <1>1, <1>3 DEF BalanceInv, Found
<1> QED
  BY <1>2, <1>4

\* A step that leaves r with nothing to save.
LEMMA SettlingStep ==
  ASSUME NEW r \in Requests, Moves(r), BalanceInv, ~Busy(pc'[r]),
         history'.current \subseteq {r}, ~history'.stale => r \in history.current,
         r \in history.current /\ Found(r) => Settled'
  PROVE  BalanceInv'
<1> SUFFICES ASSUME Orderly'
             PROVE  Settled' /\ \A q \in Requests : ~Busy(pc'[q])
  BY DEF BalanceInv
<1>1. Orderly /\ r \in history.current
  BY DoomStays DEF Orderly
<1>2. \A q \in Requests : ~Busy(pc'[q])
  BY DEF Orderly, Doomed
<1>3. \A q \in Requests \ {r} : ~Busy(pc[q])
  BY <1>2 DEF Moves
<1>4. Found(r)
  BY <1>1, <1>3 DEF BalanceInv, Found
<1> QED
  BY <1>1, <1>2, <1>4

\* A step of a request that was not busy and is not, and writes nothing.
LEMMA CalmStep ==
  ASSUME NEW r \in Requests, Moves(r), BalanceInv, ~Busy(pc[r]), ~Busy(pc'[r]),
         UNCHANGED <<order, stored, received, receipt, receiptLines, posted, stock>>
  PROVE  BalanceInv'
<1> SUFFICES ASSUME Orderly'
             PROVE  /\ (\A q \in Requests : ~Busy(pc'[q])) => Settled'
                    /\ \A q \in Requests : Busy(pc'[q]) => Good(q)'
  BY DEF BalanceInv
<1>1. Orderly
  BY DoomStays
<1>2. Settled => Settled'
  BY DEF Settled, Filled, CameIn, Completes, PostedFor, Moves
<1>3. ASSUME NEW q \in Requests, Busy(pc'[q])
      PROVE  Good(q)'
  <2>1. q # r /\ pc'[q] = pc[q] /\ copy'[q] = copy[q]
    BY <1>3 DEF Moves
  <2>2. Good(q)
    BY <1>1, <1>3, <2>1 DEF BalanceInv
  <2>3. Booked(q)' = Booked(q) /\ Unsaved(q)' = Unsaved(q)
    BY <2>1 DEF Booked, Unsaved
  <2>4. Stray(q) => Stray(q)'
    BY <2>3 DEF Stray
  <2>5. Outcome(q) => Outcome(q)'
    BY <2>1, <2>3 DEF Outcome, Filled, CameIn, Completes, PostedFor, Moves
  <2> QED
    BY <2>2, <2>4, <2>5 DEF Good
<1> QED
  BY <1>1, <1>2, <1>3 DEF BalanceInv, Moves
-----------------------------------------------------------------------------
(* Each kind of step keeps the balance. *)

LEMMA SaveHistory ==
  ASSUME TypeOK, NEW r \in Requests, Saves(r) \/ DeleteRow(r)
  PROVE  history'.unchecked = history.unchecked
<1>1. Writing(r)
  BY DEF Saves, SaveOrder, SaveOrderLine, WriteOrderLine, SaveReceipt, WriteReceipt,
         SaveReceiptLine, DeleteRow
<1> QED
  BY <1>1, TypeParts DEF Writing, Typed, Histories

\* What is booked and what is yet to be saved goes into the tables, and the
\* outcome does not change.
LEMMA OutcomeStays ==
  ASSUME TypeOK, NEW r \in Requests, Outcome(r),
         stock' = stock, posted' = posted, history'.unchecked = history.unchecked,
         \A l \in OrderLines :
           (IF l \in Unsaved(r) THEN copy[r].received[l] ELSE received[l]) =
           (IF l \in Unsaved(r)' THEN copy'[r].received[l] ELSE received'[l]),
         \A g \in GoodsLines :
           Completes(g) \/ g \in Booked(r) <=> Completes(g)' \/ g \in Booked(r)',
         (IF pc[r] \in {"post", "saveOrder"} THEN copy[r].order ELSE order) =
         (IF pc'[r] \in {"post", "saveOrder"} THEN copy'[r].order ELSE order'),
         stored \cup Unsaved(r) = stored' \cup Unsaved(r)'
  PROVE  Outcome(r)'
<1>1. \A rows : Filled(rows) <=> Filled(rows)'
  BY DEF Filled, CameIn
<1>2. \A l \in OrderLines :
        stock'[l] = IF l \in Unsaved(r)' THEN copy'[r].received[l] ELSE received'[l]
  BY DEF Outcome
<1>3. \A g \in GoodsLines :
        posted'[g] = IF Completes(g)' \/ g \in Booked(r)' THEN 1 ELSE 0
  BY DEF Outcome
<1>4. (IF pc'[r] \in {"post", "saveOrder"} THEN copy'[r].order ELSE order') = "FULFILLED"
        <=> Filled(stored' \cup Unsaved(r)')
  BY DEF Outcome
<1>5. Filled(stored' \cup Unsaved(r)') <=>
        /\ CameIn'
        /\ \A l \in stored' \cup Unsaved(r)' : stock'[l] >= Ordered[l]
  BY DEF Filled, CameIn
<1> QED
  BY <1>2, <1>3, <1>4, <1>5 DEF Outcome, Filled

LEMMA SaveOrderGood ==
  ASSUME TypeOK, ShapeInv, RowInv, NEW r \in Requests, Known(r),
         SaveOrder(r) \/ \E l \in OrderLines : SaveOrderLine(r, l)
  PROVE  /\ Stray(r) => pc'[r] # "idle" /\ Stray(r)'
         /\ Outcome(r) => Outcome(r)'
<1>t. /\ received \in [OrderLines -> Nat] /\ stored \in SUBSET OrderLines
      /\ copy[r].receipt \in Receipts /\ copy[r].received \in [OrderLines -> Nat]
      /\ copy[r].stored \in SUBSET OrderLines
  BY TypeParts, CopyTyped DEF Typed, Rows
<1>s. Shape(copy[r], pc[r]) /\ Idle.status = "none" /\ Idle.todo = {}
  BY DEF ShapeInv, Idle
<1>u. /\ UNCHANGED <<receipt, receiptLines, posted, stock>>
      /\ history'.unchecked = history.unchecked
  BY Frames, SaveHistory DEF Saves
<1>c. \A g : Completes(g)' <=> Completes(g)
  BY <1>u DEF Completes, PostedFor
<1>1. CASE SaveOrder(r)
  <2>1. /\ pc[r] = "saveOrder" /\ pc'[r] = WithOrderLines(r, copy[r].stored)
        /\ order' = copy[r].order /\ stored' = stored /\ received' = received
        /\ pc'[r] = "idle" => copy'[r] = Idle
        /\ pc'[r] # "idle" =>
             /\ copy'[r].status = copy[r].status /\ copy'[r].goods = copy[r].goods
             /\ copy'[r].received = copy[r].received /\ copy'[r].todo = copy[r].stored
    BY <1>1, SavesCopy, Frames
  <2>2. pc'[r] = "idle" => copy[r].status # "COMPLETED" /\ copy[r].stored = {}
    BY <1>s, <2>1 DEF WithOrderLines, Shape, OfReceipt
  <2>3. Booked(r)' = Booked(r)
    BY <1>s, <2>1, <2>2 DEF Booked, WithOrderLines
  <2>4. Unsaved(r)' = Unsaved(r) /\ Unsaved(r) = copy[r].stored
    BY <1>s, <2>1, <2>2 DEF Unsaved, WithOrderLines
  <2>5. Stray(r) => pc'[r] # "idle" /\ Stray(r)'
    BY <2>1, <2>2, <2>3 DEF Stray, Booked
  <2>6. pc'[r] \notin {"post", "saveOrder"}
    BY <2>1 DEF WithOrderLines
  <2>7. \A l \in OrderLines :
          (IF l \in Unsaved(r) THEN copy[r].received[l] ELSE received[l]) =
          (IF l \in Unsaved(r)' THEN copy'[r].received[l] ELSE received'[l])
    BY <2>1, <2>2, <2>4
  <2>8. Outcome(r) => Outcome(r)'
    BY <1>u, <1>c, <2>1, <2>3, <2>4, <2>6, <2>7, OutcomeStays
  <2> QED
    BY <2>5, <2>8
<1>2. ASSUME NEW k \in OrderLines, SaveOrderLine(r, k)
      PROVE  /\ Stray(r) => pc'[r] # "idle" /\ Stray(r)'
             /\ Outcome(r) => Outcome(r)'
  <2>1. /\ pc[r] = "saveOrderLines" /\ pc'[r] = WithOrderLines(r, copy[r].todo \ {k})
        /\ order' = order /\ k \in copy[r].todo
        /\ stored' = stored \cup {k}
        /\ received' = [received EXCEPT ![k] = copy[r].received[k]]
        /\ pc'[r] = "idle" => copy'[r] = Idle
        /\ pc'[r] # "idle" =>
             /\ copy'[r].status = copy[r].status /\ copy'[r].goods = copy[r].goods
             /\ copy'[r].received = copy[r].received /\ copy'[r].todo = copy[r].todo \ {k}
    BY <1>2, SavesCopy, Frames
  <2>2. pc'[r] = "idle" => copy[r].status # "COMPLETED" /\ copy[r].todo \ {k} = {}
    BY <1>s, <2>1 DEF WithOrderLines, Shape, OfReceipt
  <2>3. Booked(r)' = Booked(r)
    BY <1>s, <2>1, <2>2 DEF Booked, WithOrderLines
  <2>4. Unsaved(r)' = copy[r].todo \ {k} /\ Unsaved(r) = copy[r].todo
    BY <1>s, <2>1, <2>2 DEF Unsaved, WithOrderLines
  <2>5. ASSUME Stray(r)
        PROVE  pc'[r] # "idle" /\ Stray(r)'
    <3>1. copy[r].status = "COMPLETED"
      BY <2>5 DEF Stray, Booked
    <3>2. copy[r].todo \subseteq stored
      BY <1>s, <2>1, <3>1 DEF Known, Shape, OfReceipt
    <3>3. stored' = stored
      BY <2>1, <3>2
    <3> QED
      BY <2>2, <2>3, <2>5, <3>1, <3>3 DEF Stray
  <2>6. pc'[r] \notin {"post", "saveOrder"}
    BY <2>1 DEF WithOrderLines
  <2>7. \A l \in OrderLines :
          (IF l \in Unsaved(r) THEN copy[r].received[l] ELSE received[l]) =
          (IF l \in Unsaved(r)' THEN copy'[r].received[l] ELSE received'[l])
    BY <1>t, <2>1, <2>2, <2>4
  <2>8. stored \cup Unsaved(r) = stored' \cup Unsaved(r)'
    BY <2>1, <2>4
  <2>9. Outcome(r) => Outcome(r)'
    BY <1>u, <1>c, <2>1, <2>3, <2>6, <2>7, <2>8, OutcomeStays
  <2> QED
    BY <2>5, <2>9
<1> QED
  BY <1>1, <1>2

LEMMA SaveReceiptGood ==
  ASSUME TypeOK, ShapeInv, RowInv, NEW r \in Requests, Known(r),
         SaveReceipt(r) \/ \E g \in GoodsLines : SaveReceiptLine(r, g)
  PROVE  /\ Stray(r) => pc'[r] # "idle" /\ Stray(r)'
         /\ Outcome(r) => Outcome(r)'
<1>t. /\ receipt \in [Receipts -> {"none", "DRAFT", "COMPLETED"}]
      /\ receiptLines \in [Receipts -> SUBSET GoodsLines]
      /\ copy[r].receipt \in Receipts
  BY TypeParts, CopyTyped DEF Typed, ReceiptRows
<1>d. PICK d \in Receipts : d = copy[r].receipt
  BY <1>t
<1>s. Shape(copy[r], pc[r]) /\ Idle.status = "none"
  BY DEF ShapeInv, Idle
<1>u. /\ UNCHANGED <<order, stored, received, posted, stock>>
      /\ history'.unchecked = history.unchecked
  BY Frames, SaveHistory DEF Saves
<1>1. /\ pc[r] \in {"saveReceipt", "saveReceiptLines"}
      /\ pc'[r] \in {"idle", "saveReceiptLines"}
      /\ pc'[r] = "idle" => copy'[r] = Idle
      /\ pc'[r] # "idle" =>
           copy'[r].status = copy[r].status /\ copy'[r].goods = copy[r].goods
  BY SavesCopy DEF WithReceiptLines
<1>2. Unsaved(r)' = {} /\ Unsaved(r) = {}
  BY <1>1 DEF Unsaved
<1>3. /\ Booked(r) = IF copy[r].status = "COMPLETED" THEN copy[r].goods ELSE {}
      /\ Booked(r)' = IF pc'[r] = "idle" THEN {} ELSE Booked(r)
  BY <1>s, <1>1 DEF Booked
<1> SUFFICES /\ Stray(r) => pc'[r] # "idle"
             /\ \A g \in GoodsLines :
                  Completes(g) \/ g \in Booked(r) <=> Completes(g)' \/ g \in Booked(r)'
  <2>1. Stray(r) => Stray(r)'
    BY <1>u, <1>3 DEF Stray
  <2>2. Outcome(r) => Outcome(r)'
    BY <1>u, <1>1, <1>2, OutcomeStays
  <2> QED
    BY <2>1, <2>2
<1>4. CASE SaveReceipt(r)
  <2>1. /\ pc[r] = "saveReceipt" /\ pc'[r] = WithReceiptLines(copy[r].goods)
        /\ receipt' = [receipt EXCEPT ![d] = copy[r].status]
        /\ receiptLines' = receiptLines
    BY <1>d, <1>4, SavesCopy, Frames
  <2>2. receipt[d] # "COMPLETED" /\ receiptLines[d] \subseteq copy[r].goods
    BY <1>d, <1>s, <2>1 DEF Known, Shape
  <2>3. pc'[r] = "idle" => copy[r].goods = {}
    BY <2>1 DEF WithReceiptLines
  <2>4. \A e \in Receipts \ {d} : PostedFor(e)' = PostedFor(e)
    BY <1>t, <2>1 DEF PostedFor
  <2>5. /\ PostedFor(d) = {}
        /\ PostedFor(d)' = IF copy[r].status = "COMPLETED" THEN receiptLines[d] ELSE {}
    BY <1>t, <2>1, <2>2 DEF PostedFor
  <2> QED
    BY <1>t, <1>3, <2>2, <2>3, <2>4, <2>5 DEF Stray, Completes
<1>5. ASSUME NEW h \in GoodsLines, SaveReceiptLine(r, h)
      PROVE  /\ Stray(r) => pc'[r] # "idle"
             /\ \A g \in GoodsLines :
                  Completes(g) \/ g \in Booked(r) <=> Completes(g)' \/ g \in Booked(r)'
  <2>1. /\ pc[r] = "saveReceiptLines" /\ pc'[r] = WithReceiptLines(copy[r].todo \ {h})
        /\ receiptLines' = [receiptLines EXCEPT ![d] = @ \cup {h}]
        /\ receipt' = receipt
        /\ h \in copy[r].todo /\ Against[h] \in stored \cup OtherLines
    BY <1>d, <1>5, SavesCopy, Frames
  <2>2. receipt[d] = copy[r].status /\ copy[r].goods = receiptLines[d] \cup copy[r].todo
    BY <1>d, <2>1 DEF Known
  <2>3. pc'[r] = "idle" => copy[r].todo = {h}
    BY <2>1 DEF WithReceiptLines
  <2>4. \A e \in Receipts \ {d} : PostedFor(e)' = PostedFor(e)
    BY <1>t, <2>1 DEF PostedFor
  <2>5. /\ PostedFor(d) = IF copy[r].status = "COMPLETED" THEN receiptLines[d] ELSE {}
        /\ PostedFor(d)' =
             IF copy[r].status = "COMPLETED" THEN receiptLines[d] \cup {h} ELSE {}
    BY <1>t, <2>1, <2>2 DEF PostedFor
  <2>6. ASSUME Stray(r)
        PROVE  pc'[r] # "idle"
    <3>1. PICK g \in copy[r].goods : Against[g] \notin stored \cup OtherLines
      BY <1>3, <2>6 DEF Stray
    <3>2. g \in copy[r].todo /\ g # h
      BY <1>t, <2>1, <2>2, <3>1 DEF RowInv
    <3> QED
      BY <2>3, <3>2
  <2>7. ASSUME NEW g \in GoodsLines
        PROVE  Completes(g) \/ g \in Booked(r) <=> Completes(g)' \/ g \in Booked(r)'
    <3>1. Completes(g) <=>
            g \in PostedFor(d) \/ \E e \in Receipts \ {d} : g \in PostedFor(e)
      BY <1>t DEF Completes
    <3>2. Completes(g)' <=>
            g \in PostedFor(d)' \/ \E e \in Receipts \ {d} : g \in PostedFor(e)
      BY <1>t, <2>4 DEF Completes
    <3> QED
      BY <1>3, <2>1, <2>2, <2>3, <2>5, <3>1, <3>2
  <2> QED
    BY <2>6, <2>7
<1> QED
  BY <1>4, <1>5

\* The steps that save keep what the request has achieved.
LEMMA SavesBalance ==
  ASSUME TypeOK, ShapeInv, RowInv, KnowInv, BalanceInv, NEW r \in Requests, Step(r),
         Saves(r)
  PROVE  BalanceInv'
<1>m. Moves(r)
  BY StepMoves
<1>h. /\ history'.current \subseteq {r} /\ (~history'.stale => r \in history.current)
      /\ history'.current \subseteq history.current
  BY StepHistory
<1>b. Busy(pc[r])
  BY SavesCopy DEF Saves, Busy
<1>1. ASSUME r \in history.current, Good(r)
      PROVE  Good(r)' /\ (pc'[r] = "idle" => Outcome(r)')
  <2>1. Known(r)
    BY <1>1 DEF KnowInv
  <2>2. /\ Stray(r) => pc'[r] # "idle" /\ Stray(r)'
        /\ Outcome(r) => Outcome(r)'
    BY <2>1, SaveOrderGood, SaveReceiptGood DEF Saves
  <2>3. pc'[r] = "idle" => Outcome(r)'
    BY <1>1, <2>2 DEF Good
  <2>4. Good(r)'
    BY <1>1, <2>2 DEF Good
  <2> QED
    BY <2>3, <2>4
<1>2. CASE pc'[r] = "idle"
  <2>1. copy'[r] = Idle
    BY <1>2, SavesCopy DEF Saves
  <2>2. Outcome(r)' => Settled'
    <3>1. Booked(r)' = {} /\ Unsaved(r)' = {}
      BY <1>2, <2>1 DEF Booked, Unsaved, Idle
    <3> QED
      BY <1>2, <3>1 DEF Outcome, Settled
  <2>3. r \in history.current /\ Found(r) => Settled'
    BY <1>1, <1>2, <1>b, <2>2 DEF Found
  <2>4. ~Busy(pc'[r])
    BY <1>2 DEF Busy
  <2> QED
    BY <1>m, <1>h, <2>3, <2>4, SettlingStep
<1>3. CASE pc'[r] # "idle"
  <2>1. Busy(pc'[r])
    BY <1>3, SavesCopy DEF Saves, Busy, WithOrderLines, WithReceiptLines
  <2>2. r \in history'.current /\ Found(r) => Good(r)'
    BY <1>1, <1>h, <1>b DEF Found
  <2> QED
    BY <1>m, <2>1, <2>2, BusyStep
<1> QED
  BY <1>2, <1>3
\* A posting goes into the ledger and onto the copy; that line was not posted
\* before, since no other receipt has it and this one is not completed.
LEMMA PostGood ==
  ASSUME TypeOK, ShapeInv, OwnInv, FillInv', NEW r \in Requests, Known(r),
         NEW g \in GoodsLines, Post(r, g), Good(r), Step(r)
  PROVE  Good(r)'
<1>t. /\ received \in [OrderLines -> Nat] /\ stored \in SUBSET OrderLines
      /\ posted \in [GoodsLines -> Nat] /\ stock \in [OrderLines \cup OtherLines -> Nat]
      /\ copy[r].receipt \in Receipts /\ copy[r].received \in [OrderLines -> Nat]
      /\ Against[g] \in OrderLines \cup OtherLines /\ Quantity[g] \in Nat /\ Ordered \in [OrderLines -> Nat]
  BY TypeParts, CopyTyped, QuantityAssumption DEF Typed, Rows, Books
<1>1. /\ pc[r] = "post" /\ pc'[r] \in {"post", "saveOrder"} /\ g \in copy[r].todo
      /\ copy'[r].status = copy[r].status /\ copy'[r].goods = copy[r].goods
      /\ copy'[r].stored = copy[r].stored /\ copy'[r].todo = copy[r].todo \ {g}
      /\ pc'[r] = "saveOrder" => copy[r].todo \ {g} = {}
      /\ copy'[r].received = Recorded(r, g)
      /\ copy'[r].order = StatusAfter(r, Recorded(r, g))
      /\ posted' = [posted EXCEPT ![g] = @ + 1]
      /\ stock' = [stock EXCEPT ![Against[g]] = @ + Quantity[g]]
      /\ UNCHANGED <<order, stored, received, receipt, receiptLines>>
  BY PostCopy, Frames
<1>2. /\ OfReceipt(copy[r]) /\ copy[r].status = "COMPLETED"
      /\ copy[r].todo \subseteq copy[r].goods
  BY <1>1 DEF ShapeInv, Shape
<1>3. /\ copy[r].stored = stored /\ receipt[copy[r].receipt] # "COMPLETED"
  BY <1>1, <1>2 DEF Known
<1>4. Booked(r) = copy[r].goods \ copy[r].todo /\ Booked(r)' = Booked(r) \cup {g}
  BY <1>1, <1>2 DEF Booked
<1>5. CASE Stray(r) \/ Against[g] \notin stored \cup OtherLines
  <2>1. Stray(r)'
    BY <1>1, <1>4, <1>5 DEF Stray
  <2> QED
    BY <2>1 DEF Good
<1>6. CASE ~Stray(r) /\ Against[g] \in stored \cup OtherLines
  <2>1. Outcome(r)
    BY <1>6 DEF Good
  <2>2. Unsaved(r) = stored /\ Unsaved(r)' = stored
    BY <1>1, <1>3 DEF Unsaved
  <2>3. \A l \in OrderLines : copy'[r].received[l] =
          copy[r].received[l] + (IF l = Against[g] /\ l \in stored THEN Quantity[g] ELSE 0)
    BY <1>1, <1>3, RecordedTyped
  <2>4. \A l \in OrderLines :
          stock'[l] = IF l \in Unsaved(r)' THEN copy'[r].received[l] ELSE received'[l]
    <3>1. \A l \in OrderLines :
            stock[l] = IF l \in stored THEN copy[r].received[l] ELSE received[l]
      BY <2>1, <2>2 DEF Outcome
    <3>2. ASSUME NEW l \in OrderLines
          PROVE  stock'[l] = IF l \in stored THEN copy'[r].received[l] ELSE received[l]
      <4>1. CASE l = Against[g]
        <5>1. l \in stored
          BY <1>6, <4>1, OtherLinesAssumption
        <5>2. stock'[l] = stock[l] + Quantity[g]
          BY <1>t, <1>1, <4>1
        <5>3. stock[l] = copy[r].received[l]
          BY <3>1, <5>1
        <5>4. copy'[r].received[l] = copy[r].received[l] + Quantity[g]
          BY <2>3, <4>1, <5>1
        <5> QED
          BY <5>1, <5>2, <5>3, <5>4
      <4>2. CASE l # Against[g]
        <5>1. stock'[l] = stock[l]
          BY <1>t, <1>1, <4>2
        <5>2. copy'[r].received[l] = copy[r].received[l]
          BY <1>t, <2>3, <4>2
        <5> QED
          BY <3>1, <5>1, <5>2
      <4> QED
        BY <4>1, <4>2
    <3> QED
      BY <1>1, <2>2, <3>2
  <2>5. ~Completes(g)
    <3>1. Has(g, copy[r].receipt)
      BY <1>1, <1>2 DEF Has
    <3>2. ASSUME NEW e \in Receipts, g \in PostedFor(e)
          PROVE  FALSE
      <4>1. Has(g, e) /\ receipt[e] = "COMPLETED"
        BY <3>2 DEF Has, PostedFor
      <4>2. e = copy[r].receipt
        BY <1>t, <3>1, <4>1 DEF OwnInv
      <4> QED
        BY <1>3, <4>1, <4>2
    <3> QED
      BY <3>2 DEF Completes
  <2>6. \A h \in GoodsLines : Completes(h)' <=> Completes(h)
    BY <1>1 DEF Completes, PostedFor
  <2>7. \A h \in GoodsLines :
          posted'[h] = IF Completes(h)' \/ h \in Booked(r)' THEN 1 ELSE 0
    <3>1. \A h \in GoodsLines : posted[h] = IF Completes(h) \/ h \in Booked(r) THEN 1 ELSE 0
      BY <2>1 DEF Outcome
    <3>2. g \notin Booked(r)
      BY <1>1, <1>4
    <3> QED
      BY <1>t, <1>1, <1>4, <2>5, <2>6, <3>1, <3>2
  <2>8. copy'[r].order = "FULFILLED" <=> \A l \in stored : copy'[r].received[l] >= Ordered[l]
    BY <1>1, <1>3 DEF StatusAfter
  <2>9. Filled(stored \cup Unsaved(r))' <=> \A l \in stored : copy'[r].received[l] >= Ordered[l]
    <3>0. CameIn'
      <4>1. posted'[g] = posted[g] + 1
        BY <1>t, <1>1
      <4>2. posted'[g] > 0
        BY <1>t, <4>1
      <4> QED
        BY <4>2 DEF CameIn
    <3>1. Filled(stored)' <=> \A l \in stored : stock'[l] >= Ordered[l]
      BY <1>1, <3>0 DEF Filled
    <3>2. \A l \in stored : stock'[l] = copy'[r].received[l]
      BY <1>t, <2>2, <2>4
    <3>3. stored' \cup Unsaved(r)' = stored'
      BY <1>1, <2>2
    <3> QED
      BY <1>1, <1>6, <3>1, <3>2, <3>3
  <2>10. ~history'.unchecked => \A l \in OrderLines : stock'[l] <= Ordered[l]
    BY <1>t, <2>4 DEF FillInv
  <2>11. Outcome(r)'
    BY <1>1, <2>4, <2>7, <2>8, <2>9, <2>10 DEF Outcome
  <2> QED
    BY <2>11 DEF Good
<1> QED
  BY <1>5, <1>6

LEMMA PostBalance ==
  ASSUME TypeOK, ShapeInv, OwnInv, FillInv', KnowInv, BalanceInv, NEW r \in Requests,
         NEW g \in GoodsLines, Post(r, g), Step(r)
  PROVE  BalanceInv'
<1>1. Busy(pc[r]) /\ Busy(pc'[r])
  BY PostCopy DEF Busy
<1>2. history'.current = history.current
  BY StepHistory
<1>3. r \in history'.current /\ Found(r) => Good(r)'
  BY <1>1, <1>2, PostGood DEF Found, KnowInv
<1> QED
  BY <1>1, <1>3, StepMoves, BusyStep

\* A deleted order had received nothing.
LEMMA DeleteBalance ==
  ASSUME TypeOK, RowInv, BalanceInv, NEW r \in Requests, DeleteRow(r), Step(r)
  PROVE  BalanceInv'
<1>t. /\ posted \in [GoodsLines -> Nat] /\ stock \in [OrderLines \cup OtherLines -> Nat]
      /\ Ordered \in [OrderLines -> Nat] /\ order' = NoOrder /\ stored' = {}
  BY TypeParts, Frames, QuantityAssumption DEF Typed, Books
<1>1. ~Busy(pc[r]) /\ ~Busy(pc'[r])
  BY SavesCopy DEF Busy
<1>2. /\ UNCHANGED <<receipt, receiptLines, posted, stock>>
      /\ received' = [l \in OrderLines |-> 0]
      /\ \A d \in Receipts : receipt[d] = "none"
  BY Frames
<1>3. ASSUME Settled
      PROVE  Settled'
  <2>1. \A g \in GoodsLines : ~Completes(g) /\ ~Completes(g)'
    BY <1>2 DEF Completes, PostedFor
  <2>2. \A g \in GoodsLines : posted[g] = 0
    BY <1>3, <2>1 DEF Settled
  <2>3. \A l \in OrderLines : stock[l] = 0
    BY <2>2 DEF RowInv
  <2>4. order' # "FULFILLED"
    BY <1>t, NoOrderAssumption DEF Statuses
  <2>5. ~Filled(stored)'
    BY <1>2, <2>2 DEF Filled, CameIn
  <2> QED
    BY <1>t, <1>2, <2>1, <2>2, <2>3, <2>4, <2>5 DEF Settled
<1>4. /\ history'.current \subseteq {r}
      /\ ~history'.stale => r \in history.current
  BY StepHistory
<1>5. r \in history.current /\ Found(r) => Settled'
  BY <1>1, <1>3 DEF Found
<1> QED
  BY <1>1, <1>4, <1>5, StepMoves, SettlingStep
\* A request that has decided what to save, and has saved nothing.
LEMMA BeginsGood ==
  ASSUME NEW r \in Requests, Settled, history.unchecked => history'.unchecked,
         UNCHANGED <<order, stored, received, receipt, receiptLines, posted, stock>>,
         Booked(r)' = {},
         \A l \in OrderLines : l \in Unsaved(r)' => copy'[r].received[l] = received[l],
         (IF pc'[r] \in {"post", "saveOrder"} THEN copy'[r].order ELSE order) = "FULFILLED"
           <=> order = "FULFILLED",
         Filled(stored \cup Unsaved(r)') <=> Filled(stored)
  PROVE  Good(r)'
<1>1. \A l \in OrderLines :
        stock'[l] = IF l \in Unsaved(r)' THEN copy'[r].received[l] ELSE received'[l]
  BY DEF Settled
<1>2. \A g \in GoodsLines :
        posted'[g] = IF Completes(g)' \/ g \in Booked(r)' THEN 1 ELSE 0
  BY DEF Settled, Completes, PostedFor
<1>3. (IF pc'[r] \in {"post", "saveOrder"} THEN copy'[r].order ELSE order') = "FULFILLED"
        <=> Filled(stored \cup Unsaved(r))'
  BY DEF Settled, Filled, CameIn
<1>4. ~history'.unchecked => \A l \in OrderLines : stock'[l] <= Ordered[l]
  BY DEF Settled
<1> QED
  BY <1>1, <1>2, <1>3, <1>4 DEF Good, Outcome

\* The order begins: nothing has come in.
LEMMA CreateGood ==
  ASSUME TypeOK, RowInv, StartInv, NEW r \in Requests, NEW new \in SUBSET OrderLines,
         Create(r, new), Settled, Moves(r)
  PROVE  Good(r)'
<1>1. /\ pc'[r] = "saveOrder" /\ order = NoOrder /\ history.started = 0
      /\ copy'[r].order = "DRAFT" /\ copy'[r].stored = new
      /\ copy'[r].received = [l \in OrderLines |-> 0]
      /\ copy'[r].goods = {} /\ copy'[r].status = "none"
  BY BeginsCopy
<1>2. UNCHANGED <<order, stored, received, receipt, receiptLines, posted, stock>>
  BY Frames DEF Starts
<1>3. Booked(r)' = {} /\ Unsaved(r)' = new
  BY <1>1 DEF Booked, Unsaved
<1>4. stored = {} /\ \A l \in OrderLines : received[l] = 0
  BY <1>1 DEF StartInv, RowInv
<1>5. \A g \in GoodsLines : posted[g] = 0
  <2>1. \A g \in GoodsLines : ~Completes(g)
    BY <1>1 DEF StartInv, Completes, PostedFor
  <2> QED
    BY <2>1 DEF Settled
<1>6. ~Filled(stored \cup Unsaved(r)') /\ ~Filled(stored)
  BY <1>5 DEF Filled, CameIn
<1>7. order # "FULFILLED"
  BY <1>1, NoOrderAssumption DEF Statuses
<1> QED
  BY <1>1, <1>2, <1>3, <1>4, <1>6, <1>7, BeginsGood DEF Moves

\* The order changes: what a DRAFT lacks it lacks with more lines, too.
LEMMA RevisesGood ==
  ASSUME TypeOK, ShapeInv, RowInv, NEW r \in Requests, Known(r), Revises(r), Settled, Moves(r)
  PROVE  Good(r)'
<1>t. /\ stock \in [OrderLines \cup OtherLines -> Nat] /\ Ordered \in [OrderLines -> Nat \ {0}]
      /\ copy'[r].stored \in SUBSET OrderLines /\ stored \in SUBSET OrderLines
  <2>1. Step(r)
    BY DEF Revises, Step
  <2>2. TypeOK'
    BY <2>1, StepEffect DEF Effect
  <2>3. copy'[r] \in Copies
    BY <2>2 DEF TypeOK
  <2> QED
    BY <2>3, TypeParts, QuantityAssumption DEF Typed, Books, Rows, Copies
<1>1. /\ pc[r] = "decide" /\ pc'[r] = "saveOrder" /\ copy[r].op \in OrderOperations
      /\ copy'[r].goods = copy[r].goods /\ copy'[r].status = copy[r].status
      /\ copy'[r].received = copy[r].received
      /\ copy'[r].order = "FULFILLED" <=> copy[r].order = "FULFILLED"
      /\ copy'[r].stored = copy[r].stored \/ copy[r].order = "DRAFT"
  BY RevisesCopy
<1>2. UNCHANGED <<order, stored, received, receipt, receiptLines, posted, stock>>
  BY Frames DEF Plans
<1>3. copy[r].goods = {} /\ copy[r].status = "none"
  BY <1>1 DEF ShapeInv, Shape, OfReceipt
<1>4. copy[r].order = order /\ copy[r].stored = stored /\ copy[r].received = received
  BY <1>1 DEF Known, OrderOperations
<1>5. Booked(r)' = {} /\ Unsaved(r)' = copy'[r].stored
  BY <1>1, <1>3 DEF Booked, Unsaved
<1>6. Filled(stored \cup Unsaved(r)') <=> Filled(stored)
  <2>1. CASE copy'[r].stored = stored
    BY <1>5, <2>1
  <2>2. CASE copy[r].order = "DRAFT"
    <3>1. ~Filled(stored)
      BY <1>4, <2>2 DEF Settled
    <3> QED
      BY <3>1 DEF Filled
  <2> QED
    BY <1>1, <1>4, <2>1, <2>2
<1> QED
  BY <1>1, <1>2, <1>4, <1>5, <1>6, BeginsGood DEF Moves

\* A receipt begins: nothing of it has been posted.
LEMMA ReceivesGood ==
  ASSUME TypeOK, ShapeInv, NEW r \in Requests, Known(r), Settled, Moves(r),
         \/ \E d \in Receipts, new \in SUBSET GoodsLines : CreateReceipt(r, d, new)
         \/ \E g \in GoodsLines : AddReceiptLine(r, g)
         \/ PostReceipt(r)
  PROVE  Good(r)'
<1>1. UNCHANGED <<order, stored, received, receipt, receiptLines, posted, stock>>
  BY Frames DEF Plans
<1>2. CASE \E g \in GoodsLines : AddReceiptLine(r, g)
  <2>1. /\ pc[r] = "decide" /\ copy[r].op = "addReceiptLine"
        /\ pc'[r] = "saveReceipt" /\ copy'[r].status = copy[r].status
    BY <1>2, BeginsCopy
  <2>2. copy[r].status = "DRAFT"
    BY <2>1 DEF ShapeInv, Shape
  <2>3. Booked(r)' = {} /\ Unsaved(r)' = {}
    BY <2>1, <2>2 DEF Booked, Unsaved
  <2> QED
    BY <1>1, <2>1, <2>3, BeginsGood DEF Moves
<1>3. CASE ~\E g \in GoodsLines : AddReceiptLine(r, g)
  <2>1. /\ pc[r] = "decide" /\ copy[r].op \in {"createReceipt", "postReceipt"}
        /\ copy'[r].order = copy[r].order /\ copy'[r].stored = copy[r].stored
        /\ copy'[r].received = copy[r].received
        /\ copy'[r].todo = copy'[r].goods
        /\ pc'[r] \in {"post", "saveOrder", "saveReceipt"}
        /\ pc'[r] = "saveOrder" => copy'[r].goods = {}
        /\ pc'[r] = "saveReceipt" => copy'[r].goods = {}
    BY <1>3, BeginsCopy
  <2>2. copy[r].order = order /\ copy[r].stored = stored /\ copy[r].received = received
    BY <2>1 DEF Known
  <2>3. Booked(r)' = {} /\ Unsaved(r)' \in {stored, {}}
    BY <2>1, <2>2 DEF Booked, Unsaved
  <2>4. stored \cup Unsaved(r)' = stored
    BY <2>3
  <2> QED
    BY <1>1, <2>1, <2>2, <2>3, <2>4, BeginsGood DEF Moves
<1> QED
  BY <1>2, <1>3

LEMMA PlansBalance ==
  ASSUME TypeOK, ShapeInv, RowInv, StartInv, KnowInv, BalanceInv, NEW r \in Requests, Step(r),
         Starts(r) \/ Plans(r)
  PROVE  BalanceInv'
<1>m. Moves(r)
  BY StepMoves
<1>b. ~Busy(pc[r])
  BY LoadsCopy, RevisesCopy, BeginsCopy DEF Starts, Plans, Busy
<1>f. Found(r) => Settled
  BY <1>b DEF Found
<1>k. Plans(r) => history'.current = history.current
  BY StepHistory
<1>1. ASSUME NEW new \in SUBSET OrderLines, Create(r, new)
      PROVE  BalanceInv'
  <2>1. Busy(pc'[r])
    BY <1>1, BeginsCopy DEF Busy
  <2> QED
    BY <1>m, <1>f, <1>1, <2>1, CreateGood, BusyStep
<1>2. CASE Revises(r)
  <2>1. Busy(pc'[r])
    BY <1>2, RevisesCopy DEF Busy
  <2> QED
    BY <1>m, <1>f, <1>k, <1>2, <2>1, RevisesGood, BusyStep DEF Plans, KnowInv
<1>3. CASE \/ \E d \in Receipts, new \in SUBSET GoodsLines : CreateReceipt(r, d, new)
           \/ \E g \in GoodsLines : AddReceiptLine(r, g)
           \/ PostReceipt(r)
  <2>1. Busy(pc'[r])
    BY <1>3, BeginsCopy DEF Busy
  <2>2. r \in history'.current => Known(r)
    BY <1>k, <1>3 DEF Plans, KnowInv
  <2>3. r \in history'.current /\ Found(r) => Good(r)'
    BY <1>m, <1>f, <1>3, <2>2, ReceivesGood
  <2> QED
    BY <1>m, <2>1, <2>3, BusyStep
<1>4. CASE \/ \E op \in Operations : StartOnOrder(r, op)
           \/ \E op \in Operations, d \in Receipts : StartOnReceipt(r, op, d)
           \/ LoadReceiptLines(r) \/ LoadOrder(r) \/ LoadOrderLines(r) \/ Delete(r)
  <2>1. ~Busy(pc'[r])
    BY <1>4, LoadsCopy, BeginsCopy DEF Busy
  <2> QED
    BY <1>m, <1>b, <2>1, Frames, CalmStep
<1> QED
  BY <1>1, <1>2, <1>3, <1>4 DEF Starts, Plans

\* A request that is cut short stays so; one that had saved nothing leaves
\* nothing behind.
LEMMA AbortBalance ==
  ASSUME TypeOK, BalanceInv, NEW r \in Requests, Abort(r), Step(r)
  PROVE  BalanceInv'
<1>1. CASE Busy(pc[r])
  BY <1>1, StepHistory DEF BalanceInv, Orderly
<1>2. CASE ~Busy(pc[r])
  <2>1. ~Busy(pc'[r])
    BY SavesCopy DEF Busy
  <2> QED
    BY <1>2, <2>1, StepMoves, Frames, CalmStep
<1> QED
  BY <1>1, <1>2

LEMMA BalanceStep ==
  ASSUME TypeOK, FillInv', ShapeInv, RowInv, StartInv, OwnInv, KnowInv, BalanceInv,
         NEW r \in Requests, Step(r)
  PROVE  BalanceInv'
  BY PlansBalance, PostBalance, SavesBalance, DeleteBalance, AbortBalance, StepKinds

-----------------------------------------------------------------------------

OrderInv ==
  /\ TypeOK /\ FillInv /\ ShapeInv /\ RowInv /\ StartInv /\ OwnInv /\ KnowInv
  /\ BalanceInv

LEMMA OrderInit ==
  ASSUME Init
  PROVE  OrderInv
<1>1. TypeOK
  BY TypeInit
<1>2. FillInv
  BY QuantityAssumption DEF Init, FillInv, Idle, Fits
<1>i. /\ \A r \in Requests : pc[r] = "idle" /\ copy[r] = Idle
      /\ \A l \in OrderLines : received[l] = 0 /\ stock[l] = 0
      /\ \A g \in GoodsLines : posted[g] = 0
      /\ history.current = {} /\ ~history.unchecked
      /\ Idle.goods = {} /\ Idle.op = "create" /\ Idle.status = "none"
  BY DEF Init, Idle
<1>o. \/ order = NoOrder /\ stored = {}
      \/ order \in {"DRAFT", "SUBMITTED", "APPROVED", "ISSUED", "CANCELLED"} /\ stored # {}
  BY DEF Init
<1>d. PICK drafts \in SUBSET Receipts, goods \in SUBSET GoodsLines :
        /\ \A d, e \in drafts : d = e
        /\ drafts # {} => order = "ISSUED"
        /\ \A g \in goods : drafts # {} /\ Against[g] \in stored \cup OtherLines
        /\ receipt = [d \in Receipts |-> IF d \in drafts THEN "DRAFT" ELSE "none"]
        /\ receiptLines = [d \in Receipts |-> IF d \in drafts THEN goods ELSE {}]
        /\ given = stored \cup drafts \cup goods
  BY DEF Init
<1>3. ShapeInv
  <2>1. ~OfReceipt(Idle)
    BY <1>i DEF OfReceipt, OrderOperations
  <2>2. Shape(Idle, "idle")
    BY <1>i, <2>1 DEF Shape
  <2> QED
    BY <1>i, <2>2 DEF ShapeInv
<1>4. RowInv
  <2>1. \A d \in Receipts :
          /\ receiptLines[d] = IF d \in drafts THEN goods ELSE {}
          /\ receipt[d] = IF d \in drafts THEN "DRAFT" ELSE "none"
    BY <1>d
  <2>2. \A d \in Receipts : \A g \in receiptLines[d] : Against[g] \in stored \cup OtherLines
    BY <1>d, <2>1
  <2>3. \A d \in Receipts : receipt[d] = "none" => receiptLines[d] = {}
    BY <2>1
  <2> QED
    BY <1>i, <2>2, <2>3 DEF RowInv
<1>5. StartInv
  BY <1>i, <1>o, <1>d, NoOrderAssumption DEF StartInv, Statuses
<1>6. OwnInv
  BY <1>i, <1>d DEF OwnInv, Has, OfReceipt, OrderOperations
<1>7. KnowInv
  BY <1>i DEF KnowInv
<1>8. BalanceInv
  <2>1. \A g \in GoodsLines : ~Completes(g)
    BY <1>d DEF Completes, PostedFor
  <2>2. order # "FULFILLED" /\ ~Filled(stored)
    BY <1>i, <1>o, NoOrderAssumption DEF Filled, CameIn, Statuses
  <2>3. Settled
    BY <1>i, <2>1, <2>2, QuantityAssumption DEF Settled
  <2> QED
    BY <1>i, <2>3 DEF BalanceInv, Busy
<1> QED
  BY <1>1, <1>2, <1>3, <1>4, <1>5, <1>6, <1>7, <1>8 DEF OrderInv

LEMMA OrderStep ==
  ASSUME OrderInv, [Next]_vars
  PROVE  OrderInv'
<1>1. ASSUME NEW r \in Requests, Step(r)
      PROVE  OrderInv'
  <2>1. TypeOK' /\ FillInv'
    BY <1>1, StepEffect, FillStep DEF OrderInv, Effect
  <2>2. ShapeInv' /\ RowInv' /\ StartInv' /\ OwnInv' /\ KnowInv'
    BY <1>1, ShapeStep, RowStep, StartStep, OwnStep, KnowStep DEF OrderInv
  <2>3. BalanceInv'
    BY <1>1, <2>1, BalanceStep DEF OrderInv
  <2> QED
    BY <2>1, <2>2, <2>3 DEF OrderInv
<1>2. CASE UNCHANGED vars
  <2>1. TypeOK' /\ FillInv'
    BY <1>2 DEF OrderInv, TypeOK, FillInv, Fits, FitsRemaining, Doubled, vars
  <2>2. ShapeInv' /\ RowInv' /\ StartInv' /\ OwnInv'
    BY <1>2 DEF OrderInv, ShapeInv, RowInv, StartInv, OwnInv, Has, vars
  <2>3. KnowInv' /\ BalanceInv'
    BY <1>2 DEF OrderInv, KnowInv, Known, BalanceInv, Orderly, Doomed, Good, Stray,
       Outcome, Booked, Unsaved, Settled, Filled, CameIn, Completes, PostedFor, vars
  <2> QED
    BY <2>1, <2>2, <2>3 DEF OrderInv
<1> QED
  BY <1>1, <1>2 DEF Next

\* As long as no request acts on a copy that another has overtaken, and none is
\* cut short, the order, its receipts and the ledger agree whenever the service
\* is at rest: what was received is what was posted, each line of a completed
\* receipt was posted once and no other line ever, the order is FULFILLED
\* exactly when something came in and it lacks nothing, and checked receipts do
\* not exceed it; whatever lines of other orders its receipts name.
THEOREM BooksMatchOrder == Spec => []BooksFollowOrder
<1>1. OrderInv => BooksFollowOrder
  <2> SUFFICES ASSUME OrderInv, ~history.stale, ~history.cut, Quiet
               PROVE  BooksFollowOrder
    BY DEF BooksFollowOrder
  <2>1. \A r \in Requests : ~Busy(pc[r])
    BY DEF Quiet, Busy
  <2>2. Settled
    BY <2>1 DEF OrderInv, BalanceInv, Orderly, Doomed
  <2>3. stored \in SUBSET OrderLines
    BY DEF OrderInv, TypeOK
  <2> QED
    BY <2>2, <2>3 DEF BooksFollowOrder, Settled, Filled, Completes
<1> QED
  BY <1>1, OrderInit, OrderStep, PTL DEF Spec

=============================================================================
