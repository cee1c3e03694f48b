-------------------------- MODULE BackgroundProofs --------------------------
(***************************************************************************)
(* What the work that timers start guarantees: MailQueue, for every number *)
(* of messages, calls, attempts and losses, and every batch limit, and     *)
(* BackupRuns, for any number of workers, runs, retries and artifacts, and *)
(* any KeepCount.                                                          *)
(*                                                                         *)
(* The mail: a call works from the attempts it claimed, which never exceed *)
(* the refusals there have been (EarnedInv), so what it records is earned  *)
(* even when the row is no longer its own.  As long as no row aged in      *)
(* living hands the claim makes the holder unique (HoldInv), and a         *)
(* delivery nobody has recorded is in the hands of that holder             *)
(* (DeliveryInv), so that every step is one of the promise of              *)
(* MailDelivery, or invisible to callers and server (PromiseStep).         *)
(*                                                                         *)
(* The backups: an artifact that is being made belongs to one worker until *)
(* it is linked (Owns, Exclusive), so what is linked is complete and       *)
(* stored.  Retention deletes an archive only when enough newer ones are   *)
(* linked (Spare), and only one worker at a time does.  What it takes from *)
(* the list never is among the newest, so whatever is missing from the     *)
(* storage keeps that many newer ones (SpareRemains), also when retention  *)
(* fails between the storage and the tables.                               *)
(***************************************************************************)
EXTENDS MailQueue, BackupRuns, FiniteSetTheorems, WellFoundedInduction, TLAPS

-----------------------------------------------------------------------------
(* The mail queue. *)

Batches == UNION { [s -> 0 .. MaxAttempts - 1] : s \in SUBSET Messages }

\* The type of a batch, as one set; a row in the queue has an attempt left.
TypeInv ==
  /\ TypeOK
  /\ batch \in [Calls -> Batches]
  /\ \A m \in Messages :
       outbox[m].status \in {"NONE", "QUEUED", "SENDING"} =>
         outbox[m].attempts < MaxAttempts

\* Call c knows the answer for message m and has yet to record it.
Recording(c, m) == pc[c] = "record" /\ answer[c].to = {m}

\* Only a call that is about to record has an answer, about what it holds.
AnswerInv ==
  \A c \in Calls : IF pc[c] = "record" THEN answer[c].to \subseteq DOMAIN batch[c]
                                        ELSE answer[c] = Nothing

\* Attempts are never more than refusals, in a row or in the hands of a call.
RowEarned(m) ==
  /\ outbox[m].status = "SENT" =>
       /\ tally.delivered[m] > 0
       /\ outbox[m].attempts <= tally.refused[m] + tally.delivered[m]
  /\ outbox[m].status # "SENT" => outbox[m].attempts <= tally.refused[m]
  /\ outbox[m].status = "FAILED" => tally.refused[m] >= MaxAttempts

CallEarned(c, m) ==
  m \in DOMAIN batch[c] =>
    /\ batch[c][m] <= tally.refused[m]
    /\ Recording(c, m) =>
         IF answer[c].accepted THEN tally.delivered[m] > 0
                               ELSE batch[c][m] + 1 <= tally.refused[m]

EarnedInv ==
  \A m \in Messages : RowEarned(m) /\ \A c \in Calls : CallEarned(c, m)

\* What call c holds is SENDING, fresh, and held by no other call.
HeldAlone(c, m) ==
  m \in DOMAIN batch[c] =>
    /\ outbox[m].status = "SENDING"
    /\ ~outbox[m].aged
    /\ \A d \in Calls : m \in DOMAIN batch[d] => d = c

HoldInv ==
  ~tally.slow => \A c \in Calls, m \in Messages : HeldAlone(c, m)

\* A delivery is known to a row, to a call, or to nobody.
Delivered(m) ==
  /\ tally.delivered[m] <= 1 + tally.unknown[m]
  /\ \/ outbox[m].status = "SENT"
     \/ \E c \in Calls : Recording(c, m) /\ answer[c].accepted
     \/ tally.delivered[m] <= tally.unknown[m]

DeliveryInv == ~tally.slow => \A m \in Messages : Delivered(m)

QueueInv ==
  /\ TypeInv
  /\ AnswerInv
  /\ EarnedInv
  /\ HoldInv
  /\ DeliveryInv

-----------------------------------------------------------------------------
(* Lemmas. *)

\* A batch is a function from some messages to attempts, and conversely.
LEMMA BatchIsFunction ==
  ASSUME NEW b
  PROVE  b \in Batches <=>
           /\ DOMAIN b \in SUBSET Messages
           /\ b \in [DOMAIN b -> 0 .. MaxAttempts - 1]
  BY DEF Batches

\* What a call claims are due rows of the queue.
LEMMA ClaimedIsQueued ==
  ASSUME NEW claimed \in kSubset(Min({Limit, Cardinality(Claimable)}), Claimable)
  PROVE  \A m \in claimed : m \in Messages /\ outbox[m].status = "QUEUED"
  BY DEF kSubset, Claimable, With

\* A set with no two different elements has at most one.
LEMMA AtMostOne ==
  ASSUME NEW S, \A x, y \in S : x = y
  PROVE  Cardinality(S) <= 1
<1>1. CASE S = {}
  BY <1>1, FS_EmptySet
<1>2. CASE S # {}
  <2>1. PICK x : x \in S
    BY <1>2
  <2>2. S = {x}
    BY <2>1
  <2> QED
    BY <2>2, FS_Singleton
<1> QED
  BY <1>1, <1>2

-----------------------------------------------------------------------------
(* The invariant. *)

LEMMA InitQueueInv == Init => QueueInv
<1> SUFFICES ASSUME Init PROVE QueueInv
  OBVIOUS
<1> USE QueueAssumption
<1>1. NoBatch \in Batches
  BY BatchIsFunction DEF NoBatch
<1>2. TypeInv
  BY <1>1 DEF Init, TypeInv, TypeOK, Rows, NoBatch, Nothing
<1> QED
  BY <1>2 DEF Init, QueueInv, AnswerInv, EarnedInv, RowEarned, CallEarned,
              HoldInv, HeldAlone, DeliveryInv, Delivered, NoBatch, Nothing, Recording

\* The conjuncts of TypeInv, for steps to prove one by one.
RowsTyped == outbox \in [Messages -> Rows]

RowsCount ==
  \A m \in Messages :
    outbox[m].status \in {"NONE", "QUEUED", "SENDING"} =>
      outbox[m].attempts < MaxAttempts

CallsTyped ==
  /\ pc \in [Calls -> {"idle", "skip", "claim", "send", "record"}]
  /\ batch \in [Calls -> Batches]
  /\ answer \in [Calls -> [to : {{}} \cup {{m} : m \in Messages},
                           accepted : BOOLEAN]]

TallyTyped ==
  tally \in [delivered : [Messages -> Nat], refused : [Messages -> Nat],
             unknown : [Messages -> Nat], slow : BOOLEAN, losses : Nat]

LEMMA TypeParts ==
  TypeInv <=> RowsTyped /\ RowsCount /\ CallsTyped /\ TallyTyped
BY BatchIsFunction DEF TypeInv, TypeOK, RowsTyped, RowsCount, CallsTyped, TallyTyped

\* Every step keeps the types of the rows.
LEMMA RowsStep == TypeInv /\ AnswerInv /\ Next => RowsTyped' /\ RowsCount'
<1> SUFFICES ASSUME TypeInv, AnswerInv, Next PROVE RowsTyped' /\ RowsCount'
  OBVIOUS
<1> USE QueueAssumption DEF RowsTyped, RowsCount
<1>t. RowsTyped /\ RowsCount
  BY TypeParts
<1>b. batch \in [Calls -> Batches]
  BY DEF TypeInv
<1>1. ASSUME NEW m \in Messages, Enqueue(m) PROVE RowsTyped' /\ RowsCount'
  <2>1. outbox' = [outbox EXCEPT ![m] =
                     [outbox[m] EXCEPT !.status = "QUEUED", !.due = TRUE]]
    BY <1>1, <1>t DEF Enqueue, Rows
  <2> QED
    BY <1>1, <1>t, <2>1 DEF Enqueue, Rows
<1>2. ASSUME NEW m \in Messages, Age(m) PROVE RowsTyped' /\ RowsCount'
  <2>1. outbox' = [outbox EXCEPT ![m].aged = TRUE]
    BY <1>2 DEF Age
  <2> QED
    BY <1>t, <2>1 DEF Rows
<1>3. ASSUME NEW m \in Messages, FallDue(m) PROVE RowsTyped' /\ RowsCount'
  <2>1. outbox' = [outbox EXCEPT ![m].due = TRUE]
    BY <1>3 DEF FallDue
  <2> QED
    BY <1>t, <2>1 DEF Rows
<1>4. ASSUME NEW c \in Calls, Begin(c) PROVE RowsTyped' /\ RowsCount'
  BY <1>4, <1>t DEF Begin, Requeued, Rows
<1>5. ASSUME NEW c \in Calls, Skip(c) PROVE RowsTyped' /\ RowsCount'
  BY <1>5, <1>t DEF Skip, With, Rows
<1>6. ASSUME NEW c \in Calls, Claim(c) PROVE RowsTyped' /\ RowsCount'
  <2>1. PICK claimed \in kSubset(Min({Limit, Cardinality(Claimable)}), Claimable) :
          outbox' = [m \in Messages |->
            IF m \in claimed THEN [outbox[m] EXCEPT !.status = "SENDING",
                                                    !.aged = FALSE]
                             ELSE outbox[m]]
    BY <1>6 DEF Claim
  <2>2. \A m \in claimed : m \in Messages /\ outbox[m].status = "QUEUED"
    BY ClaimedIsQueued
  <2> QED
    BY <1>t, <2>1, <2>2 DEF Rows
<1>7. ASSUME NEW c \in Calls, SendAny(c) PROVE RowsTyped' /\ RowsCount'
  BY <1>7, <1>t DEF SendAny, Send
<1>8. ASSUME NEW c \in Calls, RecordAny(c) PROVE RowsTyped' /\ RowsCount'
  <2>1. PICK m \in Messages : Record(c, m)
    BY <1>8 DEF RecordAny
  <2> DEFINE attempts == batch[c][m] + 1
  <2>2. attempts \in 1 .. MaxAttempts
    <3>1. m \in DOMAIN batch[c]
      BY <2>1 DEF Record, AnswerInv
    <3>2. batch[c] \in [DOMAIN batch[c] -> 0 .. MaxAttempts - 1]
      BY <1>b, BatchIsFunction
    <3> QED
      BY <3>1, <3>2
  <2>3. AfterRefusal(attempts) = IF attempts >= MaxAttempts THEN "FAILED" ELSE "QUEUED"
    BY DEF AfterRefusal
  <2>4. PICK accepted \in BOOLEAN, ripe \in BOOLEAN :
          outbox' = [outbox EXCEPT ![m] =
            [ status   |-> IF accepted THEN "SENT" ELSE AfterRefusal(attempts),
              attempts |-> attempts,
              aged     |-> FALSE,
              due      |-> ripe ]]
    <3>1. answer[c].accepted \in BOOLEAN /\ outbox[m].due \in BOOLEAN
      BY <1>t DEF TypeInv, TypeOK, Rows
    <3> QED
      BY <2>1, <3>1 DEF Record
  <2> HIDE DEF attempts
  <2> QED
    BY <1>t, <2>2, <2>3, <2>4 DEF Rows
<1>9. ASSUME NEW c \in Calls, Die(c) PROVE RowsTyped' /\ RowsCount'
  BY <1>9, <1>t DEF Die
<1> QED
  BY <1>1, <1>2, <1>3, <1>4, <1>5, <1>6, <1>7, <1>8, <1>9 DEF Next

\* Every step keeps the types of what calls hold.
LEMMA CallsStep == TypeInv /\ Next => CallsTyped'
<1> SUFFICES ASSUME TypeInv, Next PROVE CallsTyped'
  OBVIOUS
<1> USE QueueAssumption DEF CallsTyped
<1>t. RowsTyped /\ RowsCount /\ CallsTyped
  BY TypeParts
<1>1. ASSUME NEW m \in Messages, Enqueue(m) \/ Age(m) \/ FallDue(m)
      PROVE  CallsTyped'
  BY <1>1, <1>t DEF Enqueue, Age, FallDue
<1>2. ASSUME NEW c \in Calls, Begin(c) \/ Skip(c) PROVE CallsTyped'
  BY <1>2, <1>t DEF Begin, Skip, Goto
<1>3. ASSUME NEW c \in Calls, Claim(c) PROVE CallsTyped'
  <2>1. PICK claimed \in kSubset(Min({Limit, Cardinality(Claimable)}), Claimable) :
          /\ batch' = [batch EXCEPT ![c] = [m \in claimed |-> outbox[m].attempts]]
          /\ Goto(c, IF claimed = {} THEN "idle" ELSE "send")
    BY <1>3 DEF Claim
  <2>2. \A m \in claimed : m \in Messages /\ outbox[m].status = "QUEUED"
    BY ClaimedIsQueued
  <2>3. \A m \in claimed : outbox[m].attempts \in 0 .. MaxAttempts - 1
    BY <1>t, <2>2 DEF RowsTyped, RowsCount, Rows
  <2>4. [m \in claimed |-> outbox[m].attempts] \in Batches
    BY <2>2, <2>3, BatchIsFunction
  <2> QED
    BY <1>3, <1>t, <2>1, <2>4 DEF Claim, Goto
<1>4. ASSUME NEW c \in Calls, SendAny(c) PROVE CallsTyped'
  <2>1. PICK m \in Messages, taken \in BOOLEAN, accepted \in BOOLEAN :
          Send(c, m, taken, accepted)
    BY <1>4 DEF SendAny
  <2> QED
    BY <1>t, <2>1 DEF Send, Goto
<1>5. ASSUME NEW c \in Calls, RecordAny(c) PROVE CallsTyped'
  <2>1. PICK m \in Messages : Record(c, m)
    BY <1>5 DEF RecordAny
  <2>2. Restrict(batch[c], DOMAIN batch[c] \ {m}) \in Batches
    BY <1>t, BatchIsFunction DEF Restrict
  <2>3. batch' \in [Calls -> Batches]
    BY <1>t, <2>1, <2>2 DEF Record
  <2>4. Nothing \in [to : {{}} \cup {{k} : k \in Messages}, accepted : BOOLEAN]
    BY DEF Nothing
  <2> QED
    BY <1>t, <2>1, <2>3, <2>4 DEF Record, Goto
<1>6. ASSUME NEW c \in Calls, Die(c) PROVE CallsTyped'
  <2>1. NoBatch \in Batches
    BY BatchIsFunction DEF NoBatch
  <2> QED
    BY <1>6, <1>t, <2>1 DEF Die, Nothing
<1> QED
  BY <1>1, <1>2, <1>3, <1>4, <1>5, <1>6 DEF Next

\* Every step keeps the types of the tally.
LEMMA TallyStep == TypeInv /\ Next => TallyTyped'
<1> SUFFICES ASSUME TypeInv, Next PROVE TallyTyped'
  OBVIOUS
<1> USE DEF TallyTyped
<1>t. TallyTyped
  BY TypeParts
<1>1. ASSUME NEW m \in Messages, Age(m) PROVE TallyTyped'
  <2>1. PICK b \in BOOLEAN : tally' = [tally EXCEPT !.slow = b]
    <3>1. (tally.slow \/ Holders(m) # {}) \in BOOLEAN
      OBVIOUS
    <3> QED
      BY <1>1, <3>1 DEF Age
  <2> QED
    BY <1>t, <2>1
<1>2. ASSUME NEW c \in Calls, SendAny(c) PROVE TallyTyped'
  <2>1. PICK m \in Messages, taken \in BOOLEAN, accepted \in BOOLEAN :
          Send(c, m, taken, accepted)
    BY <1>2 DEF SendAny
  <2>2. PICK delivered \in [Messages -> Nat], refused \in [Messages -> Nat],
             unknown \in [Messages -> Nat], losses \in Nat :
          tally' = [tally EXCEPT !.delivered = delivered, !.refused = refused,
                                 !.unknown = unknown, !.losses = losses]
    <3> DEFINE D == [tally.delivered EXCEPT ![m] = IF taken THEN @ + 1 ELSE @]
               R == [tally.refused EXCEPT ![m] = IF accepted THEN @ ELSE @ + 1]
               U == [tally.unknown EXCEPT ![m] =
                       IF taken /\ ~accepted THEN @ + 1 ELSE @]
               L == IF taken /\ ~accepted THEN tally.losses + 1 ELSE tally.losses
    <3>1. tally' = [tally EXCEPT !.delivered = D, !.refused = R,
                                 !.unknown = U, !.losses = L]
      BY <2>1 DEF Send
    <3>2. /\ D \in [Messages -> Nat] /\ R \in [Messages -> Nat]
          /\ U \in [Messages -> Nat] /\ L \in Nat
      BY <1>t
    <3> HIDE DEF D, R, U, L
    <3> QED
      BY <3>1, <3>2
  <2> QED
    BY <1>t, <2>2
<1>3. ASSUME NEW c \in Calls, Die(c) PROVE TallyTyped'
  <2> DEFINE more == [m \in Messages |->
                IF answer[c] = [to |-> {m}, accepted |-> TRUE]
                THEN tally.unknown[m] + 1 ELSE tally.unknown[m]]
  <2>1. more \in [Messages -> Nat]
    BY <1>t
  <2>2. PICK k \in Nat : tally' = [tally EXCEPT !.unknown = more, !.losses = k]
    <3>1. tally.losses + 1 \in Nat
      BY <1>t
    <3> QED
      BY <1>3, <3>1 DEF Die
  <2> HIDE DEF more
  <2> QED
    BY <1>t, <2>1, <2>2
<1>4. ASSUME NEW c \in Calls,
             Begin(c) \/ Skip(c) \/ Claim(c) \/ RecordAny(c)
      PROVE  TallyTyped'
  BY <1>4, <1>t DEF Begin, Skip, Claim, RecordAny, Record
<1>5. ASSUME NEW m \in Messages, Enqueue(m) \/ FallDue(m) PROVE TallyTyped'
  BY <1>5, <1>t DEF Enqueue, FallDue
<1> QED
  BY <1>1, <1>2, <1>3, <1>4, <1>5 DEF Next

LEMMA TypeStep == TypeInv /\ AnswerInv /\ [Next]_vars => TypeInv'
<1>1. ASSUME TypeInv, UNCHANGED vars PROVE TypeInv'
  BY <1>1 DEF vars, TypeInv, TypeOK
<1>2. ASSUME TypeInv, AnswerInv, Next PROVE TypeInv'
  <2>1. RowsTyped' /\ RowsCount' /\ CallsTyped' /\ TallyTyped'
    BY <1>2, RowsStep, CallsStep, TallyStep
  <2>2. TypeInv' <=> (RowsTyped /\ RowsCount /\ CallsTyped /\ TallyTyped)'
    BY TypeParts, PTL
  <2> QED
    BY <2>1, <2>2
<1> QED
  BY <1>1, <1>2

\* What the tally is after the server has answered.
LEMMA SendTally ==
  ASSUME TypeInv, NEW c \in Calls, NEW m \in Messages,
         NEW taken \in BOOLEAN, NEW accepted \in BOOLEAN,
         Send(c, m, taken, accepted)
  PROVE  /\ tally'.slow = tally.slow
         /\ \A k \in Messages :
              /\ tally'.delivered[k] = IF k = m /\ taken THEN tally.delivered[k] + 1
                                                         ELSE tally.delivered[k]
              /\ tally'.refused[k] = IF k = m /\ ~accepted THEN tally.refused[k] + 1
                                                           ELSE tally.refused[k]
              /\ tally'.unknown[k] = IF k = m /\ taken /\ ~accepted
                                     THEN tally.unknown[k] + 1 ELSE tally.unknown[k]
BY DEF Send, TypeInv, TypeOK

\* What it is after a call has died.
LEMMA DieTally ==
  ASSUME TypeInv, NEW c \in Calls, Die(c)
  PROVE  /\ tally'.slow = tally.slow
         /\ tally'.delivered = tally.delivered
         /\ tally'.refused = tally.refused
         /\ \A k \in Messages : tally'.unknown[k] =
              IF answer[c] = [to |-> {k}, accepted |-> TRUE]
              THEN tally.unknown[k] + 1 ELSE tally.unknown[k]
BY DEF Die, TypeInv, TypeOK

\* What a call that claims holds afterwards, and what becomes of the rows.
LEMMA ClaimEffect ==
  ASSUME TypeInv, NEW c \in Calls, Claim(c)
  PROVE  /\ pc[c] = "claim" /\ pc' = [pc EXCEPT ![c] = pc'[c]] /\ pc'[c] # "record"
         /\ UNCHANGED <<answer, tally>>
         /\ DOMAIN batch'[c] \subseteq Messages
         /\ \A d \in Calls \ {c} : batch'[d] = batch[d]
         /\ \A m \in DOMAIN batch'[c] :
              /\ outbox[m].status = "QUEUED"
              /\ outbox'[m].status = "SENDING"
              /\ ~outbox'[m].aged
              /\ outbox'[m].attempts = outbox[m].attempts
              /\ batch'[c][m] = outbox[m].attempts
         /\ \A m \in Messages \ DOMAIN batch'[c] : outbox'[m] = outbox[m]
<1>1. PICK claimed \in kSubset(Min({Limit, Cardinality(Claimable)}), Claimable) :
        /\ outbox' = [m \in Messages |->
             IF m \in claimed THEN [outbox[m] EXCEPT !.status = "SENDING",
                                                     !.aged = FALSE]
                              ELSE outbox[m]]
        /\ batch' = [batch EXCEPT ![c] = [m \in claimed |-> outbox[m].attempts]]
        /\ Goto(c, IF claimed = {} THEN "idle" ELSE "send")
  BY DEF Claim
<1>2. \A m \in claimed : m \in Messages /\ outbox[m].status = "QUEUED"
  BY ClaimedIsQueued
<1>3. batch'[c] = [m \in claimed |-> outbox[m].attempts]
  BY <1>1 DEF TypeInv
<1>4. \A d \in Calls \ {c} : batch'[d] = batch[d]
  BY <1>1 DEF TypeInv
<1>5. pc' = [pc EXCEPT ![c] = pc'[c]] /\ pc'[c] # "record"
  BY <1>1 DEF Goto, TypeInv, TypeOK
<1>6. \A m \in claimed :
        /\ outbox'[m].status = "SENDING"
        /\ ~outbox'[m].aged
        /\ outbox'[m].attempts = outbox[m].attempts
  BY <1>1, <1>2 DEF TypeInv, TypeOK, Rows
<1>7. \A m \in Messages \ claimed : outbox'[m] = outbox[m]
  BY <1>1
<1>8. /\ DOMAIN batch'[c] = claimed
      /\ \A m \in claimed : batch'[c][m] = outbox[m].attempts
  BY <1>3
<1>9. pc[c] = "claim" /\ UNCHANGED <<answer, tally>>
  BY DEF Claim
<1> QED
  BY <1>2, <1>4, <1>5, <1>6, <1>7, <1>8, <1>9

\* What recording an answer does to the row and to the batch.
LEMMA RecordEffect ==
  ASSUME TypeInv, AnswerInv, NEW c \in Calls, NEW m \in Messages, Record(c, m)
  PROVE  /\ Recording(c, m) /\ m \in DOMAIN batch[c]
         /\ UNCHANGED tally
         /\ outbox'[m].attempts = batch[c][m] + 1
         /\ outbox'[m].status =
              IF answer[c].accepted THEN "SENT" ELSE AfterRefusal(batch[c][m] + 1)
         /\ \A k \in Messages \ {m} : outbox'[k] = outbox[k]
         /\ DOMAIN batch'[c] = DOMAIN batch[c] \ {m}
         /\ \A k \in DOMAIN batch'[c] : batch'[c][k] = batch[c][k]
         /\ \A d \in Calls \ {c} : batch'[d] = batch[d]
         /\ pc' = [pc EXCEPT ![c] = pc'[c]] /\ pc'[c] # "record"
         /\ answer' = [answer EXCEPT ![c] = Nothing]
<1>1. m \in DOMAIN batch[c]
  BY DEF Record, AnswerInv
<1>2. /\ outbox'[m].attempts = batch[c][m] + 1
      /\ outbox'[m].status =
           IF answer[c].accepted THEN "SENT" ELSE AfterRefusal(batch[c][m] + 1)
      /\ \A k \in Messages \ {m} : outbox'[k] = outbox[k]
  BY DEF Record, TypeInv, TypeOK
<1>3. batch' = [batch EXCEPT ![c] = Restrict(batch[c], DOMAIN batch[c] \ {m})]
  BY DEF Record
<1>4. /\ DOMAIN batch'[c] = DOMAIN batch[c] \ {m}
      /\ \A k \in DOMAIN batch'[c] : batch'[c][k] = batch[c][k]
      /\ \A d \in Calls \ {c} : batch'[d] = batch[d]
  BY <1>3 DEF TypeInv, Restrict
<1>5. pc' = [pc EXCEPT ![c] = pc'[c]] /\ pc'[c] # "record"
  BY DEF Record, Goto, TypeInv, TypeOK
<1> QED
  BY <1>1, <1>2, <1>4, <1>5 DEF Record, Recording

LEMMA AnswerStep == TypeInv /\ AnswerInv /\ [Next]_vars => AnswerInv'
<1> SUFFICES ASSUME TypeInv, AnswerInv, [Next]_vars PROVE AnswerInv'
  OBVIOUS
<1>t. /\ pc \in [Calls -> {"idle", "skip", "claim", "send", "record"}]
      /\ answer \in [Calls -> [to : {{}} \cup {{m} : m \in Messages},
                               accepted : BOOLEAN]]
      /\ batch \in [Calls -> Batches]
  BY DEF TypeInv, TypeOK
<1> USE DEF AnswerInv
<1>1. ASSUME NEW m \in Messages, Enqueue(m) \/ Age(m) \/ FallDue(m)
      PROVE  AnswerInv'
  BY <1>1 DEF Enqueue, Age, FallDue
<1>2. ASSUME NEW c \in Calls, Begin(c) \/ Skip(c) PROVE AnswerInv'
  BY <1>2, <1>t DEF Begin, Skip, Goto
<1>3. ASSUME NEW c \in Calls, Claim(c) PROVE AnswerInv'
  BY <1>3, <1>t, ClaimEffect
<1>4. ASSUME NEW c \in Calls, SendAny(c) PROVE AnswerInv'
  BY <1>4, <1>t DEF SendAny, Send, Goto
<1>5. ASSUME NEW c \in Calls, RecordAny(c) PROVE AnswerInv'
  BY <1>5, <1>t, RecordEffect DEF RecordAny
<1>6. ASSUME NEW c \in Calls, Die(c) PROVE AnswerInv'
  BY <1>6, <1>t DEF Die
<1>7. CASE UNCHANGED vars
  BY <1>7 DEF vars
<1> QED
  BY <1>1, <1>2, <1>3, <1>4, <1>5, <1>6, <1>7 DEF Next

LEMMA EarnedStep ==
  TypeInv /\ AnswerInv /\ EarnedInv /\ [Next]_vars => EarnedInv'
<1> SUFFICES ASSUME TypeInv, AnswerInv, EarnedInv, [Next]_vars,
                    NEW m \in Messages
             PROVE  RowEarned(m)' /\ \A c \in Calls : CallEarned(c, m)'
  BY DEF EarnedInv
<1> USE DEF RowEarned, CallEarned, Recording
<1>t. /\ outbox \in [Messages -> Rows]
      /\ pc \in [Calls -> {"idle", "skip", "claim", "send", "record"}]
      /\ answer \in [Calls -> [to : {{}} \cup {{k} : k \in Messages},
                               accepted : BOOLEAN]]
      /\ \A c \in Calls : \A k \in DOMAIN batch[c] : batch[c][k] \in Nat
      /\ tally.delivered \in [Messages -> Nat] /\ tally.refused \in [Messages -> Nat]
  BY QueueAssumption DEF TypeInv, TypeOK
<1>e. RowEarned(m) /\ \A c \in Calls : CallEarned(c, m)
  BY DEF EarnedInv
<1>1. ASSUME NEW k \in Messages, Enqueue(k) \/ Age(k) \/ FallDue(k)
      PROVE  RowEarned(m)' /\ \A c \in Calls : CallEarned(c, m)'
  <2>1. /\ UNCHANGED <<pc, batch, answer>>
        /\ tally'.delivered = tally.delivered /\ tally'.refused = tally.refused
    BY <1>1 DEF Enqueue, Age, FallDue, TypeInv, TypeOK
  <2>2. /\ outbox'[m].attempts = outbox[m].attempts
        /\ \/ outbox'[m].status = outbox[m].status
           \/ outbox[m].status = "NONE" /\ outbox'[m].status = "QUEUED"
    <3>1. CASE Enqueue(k)
      <4>1. outbox' = [outbox EXCEPT ![k] =
                         [outbox[k] EXCEPT !.status = "QUEUED", !.due = TRUE]]
        BY <1>t, <3>1 DEF Enqueue, Rows
      <4>2. outbox[k].status = "NONE"
        BY <3>1 DEF Enqueue
      <4> QED
        BY <1>t, <4>1, <4>2 DEF Rows
    <3>2. CASE Age(k)
      BY <1>t, <3>2 DEF Age, Rows
    <3>3. CASE FallDue(k)
      BY <1>t, <3>3 DEF FallDue, Rows
    <3> QED
      BY <1>1, <3>1, <3>2, <3>3
  <2> QED
    BY <1>t, <1>e, <2>1, <2>2
<1>2. ASSUME NEW c \in Calls, Begin(c) \/ Skip(c)
      PROVE  RowEarned(m)' /\ \A d \in Calls : CallEarned(d, m)'
  <2>1. /\ UNCHANGED <<batch, answer, tally>>
        /\ \A d \in Calls : pc'[d] = "record" => pc[d] = "record"
    BY <1>2, <1>t DEF Begin, Skip, Goto
  <2>2. /\ outbox'[m].attempts = outbox[m].attempts
        /\ \/ outbox'[m].status = outbox[m].status
           \/ /\ outbox[m].status \in {"SENDING", "QUEUED"}
              /\ outbox'[m].status \in {"SKIPPED", "QUEUED"}
    <3>1. CASE Begin(c)
      BY <1>t, <3>1 DEF Begin, Requeued, Rows
    <3>2. CASE Skip(c)
      BY <1>t, <3>2 DEF Skip, With, Rows
    <3> QED
      BY <1>2, <3>1, <3>2
  <2> QED
    BY <1>t, <1>e, <2>1, <2>2
<1>3. ASSUME NEW c \in Calls, Claim(c)
      PROVE  RowEarned(m)' /\ \A d \in Calls : CallEarned(d, m)'
  BY <1>3, <1>t, <1>e, ClaimEffect
<1>4. ASSUME NEW c \in Calls, SendAny(c)
      PROVE  RowEarned(m)' /\ \A d \in Calls : CallEarned(d, m)'
  <2>1. PICK k \in Messages, taken \in BOOLEAN, accepted \in BOOLEAN :
          Send(c, k, taken, accepted)
    BY <1>4 DEF SendAny
  <2>2. /\ tally'.refused[m] = IF m = k /\ ~accepted THEN tally.refused[m] + 1
                                                     ELSE tally.refused[m]
        /\ tally'.delivered[m] = IF m = k /\ taken THEN tally.delivered[m] + 1
                                                   ELSE tally.delivered[m]
    BY <2>1, SendTally
  <2>6. /\ tally'.refused[m] \in Nat /\ tally'.refused[m] >= tally.refused[m]
        /\ tally'.delivered[m] \in Nat /\ tally'.delivered[m] >= tally.delivered[m]
        /\ m = k /\ ~accepted => tally'.refused[m] = tally.refused[m] + 1
        /\ m = k /\ taken => tally'.delivered[m] > 0
    BY <1>t, <2>2
  <2>3. /\ UNCHANGED <<outbox, batch>>
        /\ answer'[c] = [to |-> {k}, accepted |-> accepted]
        /\ \A d \in Calls \ {c} : answer'[d] = answer[d] /\ pc'[d] = pc[d]
        /\ accepted => taken
    BY <1>t, <2>1 DEF Send, Goto
  <2>4. RowEarned(m)'
    BY <1>t, <1>e, <2>6, <2>3, QueueAssumption DEF Rows
  <2>5. ASSUME NEW d \in Calls PROVE CallEarned(d, m)'
    <3>1. CASE d = c
      <4>1. m \in DOMAIN batch[c] => /\ batch[c][m] \in Nat
                                     /\ batch[c][m] <= tally.refused[m]
        BY <1>t, <1>e
      <4>2. m \in DOMAIN batch[c] => batch[c][m] <= tally'.refused[m]
        BY <1>t, <4>1, <2>6
      <4>3. (m \in DOMAIN batch[c] /\ m = k /\ ~accepted) =>
              batch[c][m] + 1 <= tally'.refused[m]
        BY <1>t, <4>1, <2>6
      <4>4. answer'[c].to = {m} => m = k
        BY <2>3
      <4>5. answer'[c].accepted <=> accepted
        BY <2>3
      <4> QED
        BY <2>3, <2>6, <3>1, <4>2, <4>3, <4>4, <4>5
    <3>2. CASE d # c
      BY <1>t, <1>e, <2>6, <2>3, <3>2
    <3> QED
      BY <3>1, <3>2
  <2> QED
    BY <2>4, <2>5
<1>5. ASSUME NEW c \in Calls, RecordAny(c)
      PROVE  RowEarned(m)' /\ \A d \in Calls : CallEarned(d, m)'
  <2>1. PICK k \in Messages : Record(c, k)
    BY <1>5 DEF RecordAny
  <2>2. CallEarned(c, k)
    BY DEF EarnedInv
  <2>3. RowEarned(m)'
    BY <1>t, <1>e, <2>1, <2>2, RecordEffect, QueueAssumption DEF AfterRefusal
  <2>4. ASSUME NEW d \in Calls PROVE CallEarned(d, m)'
    BY <1>t, <1>e, <2>1, RecordEffect
  <2> QED
    BY <2>3, <2>4
<1>6. ASSUME NEW c \in Calls, Die(c)
      PROVE  RowEarned(m)' /\ \A d \in Calls : CallEarned(d, m)'
  <2>1. /\ UNCHANGED outbox
        /\ \A d \in Calls \ {c} : /\ batch'[d] = batch[d] /\ answer'[d] = answer[d]
                                  /\ pc'[d] = pc[d]
        /\ DOMAIN batch'[c] = {}
    BY <1>6, <1>t DEF Die, NoBatch, TypeInv
  <2> QED
    BY <1>6, <1>t, <1>e, <2>1, DieTally
<1>7. CASE UNCHANGED vars
  BY <1>7, <1>e DEF vars
<1> QED
  BY <1>1, <1>2, <1>3, <1>4, <1>5, <1>6, <1>7 DEF Next

\* A row that ages in the hands of a call makes the tally slow.
LEMMA AgeEffect ==
  ASSUME TypeInv, NEW k \in Messages, Age(k), ~tally'.slow
  PROVE  /\ ~tally.slow
         /\ \A c \in Calls : k \notin DOMAIN batch[c]
         /\ UNCHANGED <<pc, batch, answer>>
         /\ tally'.delivered = tally.delivered
         /\ tally'.unknown = tally.unknown
         /\ \A m \in Messages : outbox'[m].status = outbox[m].status
         /\ \A m \in Messages \ {k} : outbox'[m] = outbox[m]
<1>1. tally'.slow = (tally.slow \/ Holders(k) # {})
  BY DEF Age, TypeInv, TypeOK
<1>2. ~tally.slow /\ Holders(k) = {}
  BY <1>1
<1>3. tally'.delivered = tally.delivered /\ tally'.unknown = tally.unknown
  BY DEF Age, TypeInv, TypeOK
<1>4. /\ \A m \in Messages : outbox'[m].status = outbox[m].status
      /\ \A m \in Messages \ {k} : outbox'[m] = outbox[m]
  BY DEF Age, TypeInv, TypeOK, Rows
<1> QED
  BY <1>2, <1>3, <1>4 DEF Age, Holders

LEMMA HoldStep ==
  TypeInv /\ AnswerInv /\ HoldInv /\ [Next]_vars => HoldInv'
<1> SUFFICES ASSUME TypeInv, AnswerInv, HoldInv, [Next]_vars, ~tally'.slow,
                    NEW c \in Calls, NEW m \in Messages
             PROVE  HeldAlone(c, m)'
  BY DEF HoldInv
<1> USE DEF HeldAlone
<1>t. /\ outbox \in [Messages -> Rows]
      /\ \A d \in Calls : DOMAIN batch[d] \in SUBSET Messages
  BY DEF TypeInv, TypeOK
<1>h. ~tally.slow => \A d \in Calls, k \in Messages : HeldAlone(d, k)
  BY DEF HoldInv
<1>1. ASSUME NEW k \in Messages, Enqueue(k) PROVE HeldAlone(c, m)'
  <2>1. ~tally.slow /\ outbox[k].status = "NONE" /\ UNCHANGED batch
    BY <1>1 DEF Enqueue
  <2>2. \A n \in Messages \ {k} : outbox'[n] = outbox[n]
    BY <1>1, <1>t DEF Enqueue
  <2> QED
    BY <1>h, <2>1, <2>2
<1>2. ASSUME NEW k \in Messages, Age(k) PROVE HeldAlone(c, m)'
  BY <1>2, <1>h, AgeEffect
<1>3. ASSUME NEW k \in Messages, FallDue(k) PROVE HeldAlone(c, m)'
  <2>1. ~tally.slow /\ outbox[k].status = "QUEUED" /\ UNCHANGED batch
    BY <1>3 DEF FallDue
  <2>2. \A n \in Messages \ {k} : outbox'[n] = outbox[n]
    BY <1>3, <1>t DEF FallDue
  <2> QED
    BY <1>h, <2>1, <2>2
<1>4. ASSUME NEW e \in Calls, Begin(e) PROVE HeldAlone(c, m)'
  <2>1. ~tally.slow /\ UNCHANGED batch
    BY <1>4 DEF Begin
  <2>2. ~outbox[m].aged => outbox'[m] = outbox[m]
    BY <1>4, <1>t DEF Begin, Requeued
  <2> QED
    BY <1>h, <2>1, <2>2
<1>5. ASSUME NEW e \in Calls, Skip(e) PROVE HeldAlone(c, m)'
  <2>1. ~tally.slow /\ UNCHANGED batch
    BY <1>5 DEF Skip
  <2>2. outbox[m].status = "SENDING" => outbox'[m] = outbox[m]
    BY <1>5, <1>t DEF Skip, With
  <2> QED
    BY <1>h, <2>1, <2>2
<1>6. ASSUME NEW e \in Calls, Claim(e) PROVE HeldAlone(c, m)'
  <2>1. ~tally.slow
    BY <1>6, ClaimEffect
  <2> QED
    BY <1>6, <1>t, <1>h, <2>1, ClaimEffect
<1>7. ASSUME NEW e \in Calls, SendAny(e) PROVE HeldAlone(c, m)'
  <2>1. UNCHANGED <<outbox, batch>>
    BY <1>7 DEF SendAny, Send
  <2>2. ~tally.slow
    BY <1>7, SendTally DEF SendAny
  <2> QED
    BY <1>h, <2>1, <2>2
<1>8. ASSUME NEW e \in Calls, RecordAny(e) PROVE HeldAlone(c, m)'
  <2>1. PICK k \in Messages : Record(e, k)
    BY <1>8 DEF RecordAny
  <2>2. ~tally.slow
    BY <2>1, RecordEffect
  <2> QED
    BY <1>h, <2>1, <2>2, RecordEffect
<1>9. ASSUME NEW e \in Calls, Die(e) PROVE HeldAlone(c, m)'
  <2>1. /\ UNCHANGED outbox
        /\ \A d \in Calls \ {e} : batch'[d] = batch[d]
        /\ DOMAIN batch'[e] = {}
    BY <1>9 DEF Die, NoBatch, TypeInv
  <2>2. ~tally.slow
    BY <1>9, DieTally
  <2> QED
    BY <1>h, <2>1, <2>2
<1>10. CASE UNCHANGED vars
  BY <1>10, <1>h DEF vars
<1> QED
  BY <1>1, <1>2, <1>3, <1>4, <1>5, <1>6, <1>7, <1>8, <1>9, <1>10 DEF Next

LEMMA DeliveryStep ==
  TypeInv /\ AnswerInv /\ HoldInv /\ DeliveryInv /\ [Next]_vars => DeliveryInv'
<1> SUFFICES ASSUME TypeInv, AnswerInv, HoldInv, DeliveryInv, [Next]_vars,
                    ~tally'.slow, NEW m \in Messages
             PROVE  Delivered(m)'
  BY DEF DeliveryInv
<1> USE DEF Delivered, Recording
<1>t. /\ outbox \in [Messages -> Rows]
      /\ pc \in [Calls -> {"idle", "skip", "claim", "send", "record"}]
      /\ answer \in [Calls -> [to : {{}} \cup {{k} : k \in Messages},
                               accepted : BOOLEAN]]
      /\ \A d \in Calls : DOMAIN batch[d] \in SUBSET Messages
      /\ tally.delivered \in [Messages -> Nat] /\ tally.unknown \in [Messages -> Nat]
  BY DEF TypeInv, TypeOK
<1>h. ~tally.slow => \A d \in Calls, k \in Messages : HeldAlone(d, k)
  BY DEF HoldInv
<1>d. ~tally.slow => Delivered(m)
  BY DEF DeliveryInv
<1>1. ASSUME NEW k \in Messages, Enqueue(k) PROVE Delivered(m)'
  <2>1. /\ UNCHANGED <<pc, batch, answer, tally>>
        /\ outbox[m].status = "SENT" => outbox'[m].status = "SENT"
    BY <1>1, <1>t DEF Enqueue
  <2> QED
    BY <1>d, <2>1
<1>2. ASSUME NEW k \in Messages, Age(k) PROVE Delivered(m)'
  BY <1>2, <1>d, AgeEffect
<1>3. ASSUME NEW k \in Messages, FallDue(k) PROVE Delivered(m)'
  <2>1. /\ UNCHANGED <<pc, batch, answer, tally>>
        /\ outbox[m].status = "SENT" => outbox'[m].status = "SENT"
    BY <1>3, <1>t DEF FallDue
  <2> QED
    BY <1>d, <2>1
<1>4. ASSUME NEW e \in Calls, Begin(e) \/ Skip(e) PROVE Delivered(m)'
  <2>1. /\ UNCHANGED <<batch, answer, tally>>
        /\ \A d \in Calls : pc[d] = "record" => pc'[d] = "record"
    BY <1>4, <1>t DEF Begin, Skip, Goto
  <2>2. outbox[m].status = "SENT" => outbox'[m].status = "SENT"
    BY <1>4, <1>t DEF Begin, Skip, Requeued, With
  <2> QED
    BY <1>d, <2>1, <2>2
<1>5. ASSUME NEW e \in Calls, Claim(e) PROVE Delivered(m)'
  BY <1>5, <1>t, <1>d, ClaimEffect
<1>6. ASSUME NEW e \in Calls, SendAny(e) PROVE Delivered(m)'
  <2>1. PICK k \in Messages, taken \in BOOLEAN, accepted \in BOOLEAN :
          Send(e, k, taken, accepted)
    BY <1>6 DEF SendAny
  <2>2. /\ ~tally.slow
        /\ tally'.delivered[m] = IF m = k /\ taken THEN tally.delivered[m] + 1
                                                   ELSE tally.delivered[m]
        /\ tally'.unknown[m] = IF m = k /\ taken /\ ~accepted
                               THEN tally.unknown[m] + 1 ELSE tally.unknown[m]
    BY <2>1, SendTally
  <2>3. /\ UNCHANGED <<outbox, batch>>
        /\ pc[e] = "send" /\ k \in DOMAIN batch[e]
        /\ answer'[e] = [to |-> {k}, accepted |-> accepted] /\ pc'[e] = "record"
        /\ \A d \in Calls \ {e} : answer'[d] = answer[d] /\ pc'[d] = pc[d]
    BY <1>t, <2>1 DEF Send, Goto
  <2>4. CASE m = k
    <3>1. outbox[m].status = "SENDING"
      BY <1>h, <2>2, <2>3, <2>4 DEF HeldAlone
    <3>2. \A d \in Calls : ~Recording(d, m)
      <4> SUFFICES ASSUME NEW d \in Calls, Recording(d, m) PROVE FALSE
        OBVIOUS
      <4>1. m \in DOMAIN batch[d]
        BY DEF AnswerInv
      <4>2. d = e
        BY <1>h, <2>2, <2>3, <2>4, <4>1 DEF HeldAlone
      <4> QED
        BY <2>3, <4>2
    <3>3. tally.delivered[m] <= tally.unknown[m]
      BY <1>d, <2>2, <3>1, <3>2
    <3>4. CASE taken /\ accepted
      <4>1. Recording(e, m)' /\ answer'[e].accepted
        BY <2>3, <2>4, <3>4
      <4> QED
        BY <1>t, <2>2, <2>4, <3>3, <3>4, <4>1
    <3>5. CASE ~(taken /\ accepted)
      <4>1. tally'.delivered[m] <= tally'.unknown[m]
        BY <1>t, <2>2, <2>4, <3>3, <3>5
      <4>2. tally'.delivered[m] \in Nat /\ tally'.unknown[m] \in Nat
        BY <1>t, <2>2
      <4> QED
        BY <4>1, <4>2
    <3> QED
      BY <3>4, <3>5
  <2>5. CASE m # k
    <3>1. /\ tally'.delivered[m] = tally.delivered[m]
          /\ tally'.unknown[m] = tally.unknown[m]
      BY <2>2, <2>5
    <3>2. \A d \in Calls : Recording(d, m) => d # e
      BY <2>3
    <3> QED
      BY <1>d, <2>2, <2>3, <3>1, <3>2
  <2> QED
    BY <2>4, <2>5
<1>7. ASSUME NEW e \in Calls, RecordAny(e) PROVE Delivered(m)'
  <2>1. PICK k \in Messages : Record(e, k)
    BY <1>7 DEF RecordAny
  <2>2. /\ ~tally.slow /\ UNCHANGED tally
        /\ Recording(e, k) /\ k \in DOMAIN batch[e]
    BY <2>1, RecordEffect
  <2>3. outbox[k].status = "SENDING"
    BY <1>h, <2>2 DEF HeldAlone
  <2>4. CASE m = k
    <3>1. CASE answer[e].accepted
      <4>1. outbox'[m].status = "SENT"
        BY <2>1, <2>4, <3>1, RecordEffect
      <4> QED
        BY <1>d, <2>2, <4>1
    <3>2. CASE ~answer[e].accepted
      <4>1. \A d \in Calls : Recording(d, m) => d = e
        <5> SUFFICES ASSUME NEW d \in Calls, Recording(d, m) PROVE d = e
          OBVIOUS
        <5>1. m \in DOMAIN batch[d]
          BY DEF AnswerInv
        <5> QED
          BY <1>h, <2>2, <2>4, <5>1 DEF HeldAlone
      <4>2. tally.delivered[m] <= tally.unknown[m]
        BY <1>d, <2>2, <2>3, <2>4, <3>2, <4>1
      <4> QED
        BY <1>d, <2>2, <4>2
    <3> QED
      BY <3>1, <3>2
  <2>5. CASE m # k
    <3>1. outbox'[m] = outbox[m]
      BY <2>1, <2>5, RecordEffect
    <3>2. \A d \in Calls : Recording(d, m) => d # e
      BY <2>2, <2>5
    <3>3. \A d \in Calls \ {e} : answer'[d] = answer[d] /\ pc'[d] = pc[d]
      BY <1>t, <2>1, RecordEffect
    <3> QED
      BY <1>d, <2>2, <3>1, <3>2, <3>3
  <2> QED
    BY <2>4, <2>5
<1>8. ASSUME NEW e \in Calls, Die(e) PROVE Delivered(m)'
  <2>1. /\ UNCHANGED outbox
        /\ pc[e] # "idle"
        /\ \A d \in Calls \ {e} : answer'[d] = answer[d] /\ pc'[d] = pc[d]
    BY <1>8, <1>t DEF Die
  <2>2. /\ ~tally.slow
        /\ tally'.delivered = tally.delivered
        /\ tally'.unknown[m] = IF answer[e] = [to |-> {m}, accepted |-> TRUE]
                               THEN tally.unknown[m] + 1 ELSE tally.unknown[m]
    BY <1>8, DieTally
  <2>3. CASE answer[e] = [to |-> {m}, accepted |-> TRUE]
    BY <1>t, <1>d, <2>2, <2>3
  <2>4. CASE answer[e] # [to |-> {m}, accepted |-> TRUE]
    <3>1. ~(Recording(e, m) /\ answer[e].accepted)
      BY <1>t, <2>4
    <3> QED
      BY <1>d, <2>1, <2>2, <2>4, <3>1
  <2> QED
    BY <2>3, <2>4
<1>9. CASE UNCHANGED vars
  BY <1>9, <1>d DEF vars
<1> QED
  BY <1>1, <1>2, <1>3, <1>4, <1>5, <1>6, <1>7, <1>8, <1>9 DEF Next

LEMMA Invariance == Spec => []QueueInv
<1>1. Init => QueueInv
  BY InitQueueInv
<1>2. QueueInv /\ [Next]_vars => QueueInv'
  BY TypeStep, AnswerStep, EarnedStep, HoldStep, DeliveryStep DEF QueueInv
<1> QED
  BY <1>1, <1>2, PTL DEF Spec

-----------------------------------------------------------------------------
(* The theorems. *)

\* MailService: rows, claims and answers keep their types; attempts never
\* exceed max_attempts.
THEOREM TypeCorrect == Spec => []TypeOK
<1>1. QueueInv => TypeOK
  BY DEF QueueInv, TypeInv
<1> QED
  BY <1>1, Invariance, PTL

\* processQueue(): any number of calls share the outbox, and unless a row aged
\* in the hands of a call that was alive, one call at most holds a row.
THEOREM HoldersAreUnique == Spec => []OneHolder
<1>1. QueueInv => OneHolder
  <2> SUFFICES ASSUME QueueInv, ~tally.slow, NEW m \in Messages
               PROVE  /\ Cardinality(Holders(m)) <= 1
                      /\ Holders(m) # {} => outbox[m].status = "SENDING"
    BY DEF OneHolder
  <2>1. \A c \in Calls : HeldAlone(c, m)
    BY DEF QueueInv, HoldInv
  <2>2. \A c, d \in Holders(m) : c = d
    BY <2>1 DEF Holders, HeldAlone
  <2>3. Cardinality(Holders(m)) <= 1
    BY <2>2, AtMostOne
  <2>4. Holders(m) # {} => outbox[m].status = "SENDING"
    BY <2>1 DEF Holders, HeldAlone
  <2> QED
    BY <2>3, <2>4
<1> QED
  BY <1>1, Invariance, PTL

\* Under the same condition the server takes a message once, and once more for
\* every time it did and nobody lived to learn or record it.
THEOREM DeliveriesAreAccounted == Spec => []DeliveredOncePerAnswer
<1>1. QueueInv => DeliveredOncePerAnswer
  BY DEF QueueInv, DeliveryInv, Delivered, DeliveredOncePerAnswer
<1> QED
  BY <1>1, Invariance, PTL

\* Without any condition: SENT was delivered, FAILED was refused max_attempts
\* times, however calls overlap and overwrite each other's rows.
THEOREM StatusesAreEarned == Spec => []StatusIsEarned
<1>1. QueueInv => StatusIsEarned
  <2> SUFFICES ASSUME QueueInv, NEW m \in Messages
               PROVE  /\ outbox[m].status = "SENT" => tally.delivered[m] > 0
                      /\ outbox[m].status = "FAILED" =>
                           tally.refused[m] >= MaxAttempts
                      /\ outbox[m].attempts <= tally.refused[m] + tally.delivered[m]
    BY DEF StatusIsEarned
  <2>1. RowEarned(m)
    BY DEF QueueInv, EarnedInv
  <2>2. /\ tally.refused[m] \in Nat /\ tally.delivered[m] \in Nat
        /\ outbox[m].attempts \in Nat
    BY QueueAssumption DEF QueueInv, TypeInv, TypeOK, Rows
  <2> QED
    BY <2>1, <2>2 DEF RowEarned
<1> QED
  BY <1>1, Invariance, PTL

-----------------------------------------------------------------------------
(* The promise of MailDelivery. *)

\* What is on record as lost was delivered, and what a call is about to record
\* as sent was delivered once more than that.
Lost(m) ==
  /\ tally.unknown[m] <= tally.delivered[m]
  /\ \A c \in Calls : Recording(c, m) /\ answer[c].accepted =>
       tally.unknown[m] < tally.delivered[m]

LostInv == ~tally.slow => \A m \in Messages : Lost(m)

\* Unless a row aged in living hands, a message that is sent is one whose
\* deliveries are all on record as lost, and nobody else is at work on it.
LEMMA SentAgainWhenLost ==
  ASSUME QueueInv, ~tally.slow, NEW e \in Calls, NEW m \in Messages,
         pc[e] = "send", m \in DOMAIN batch[e]
  PROVE  /\ outbox[m].status = "SENDING"
         /\ \A d \in Calls : ~Recording(d, m)
         /\ tally.delivered[m] <= tally.unknown[m]
<1>h. AnswerInv /\ \A d \in Calls : HeldAlone(d, m)
  BY DEF QueueInv, HoldInv
<1>1. outbox[m].status = "SENDING"
  BY <1>h DEF HeldAlone
<1>2. \A d \in Calls : ~Recording(d, m)
  <2> SUFFICES ASSUME NEW d \in Calls, Recording(d, m) PROVE FALSE
    OBVIOUS
  <2>1. m \in DOMAIN batch[d] /\ pc[d] = "record"
    BY <1>h DEF AnswerInv, Recording
  <2>2. d = e
    BY <1>h, <2>1 DEF HeldAlone
  <2> QED
    BY <2>1, <2>2
<1>3. Delivered(m)
  BY DEF QueueInv, DeliveryInv
<1> QED
  BY <1>1, <1>2, <1>3 DEF Delivered

\* What a call is about to record is, unless a row aged in living hands, still
\* being sent, and no other call is about to record it.
LEMMA RecordedAlone ==
  ASSUME QueueInv, ~tally.slow, NEW e \in Calls, NEW m \in Messages,
         Recording(e, m)
  PROVE  /\ outbox[m].status = "SENDING"
         /\ \A d \in Calls : Recording(d, m) => d = e
<1>h. AnswerInv /\ \A d \in Calls : HeldAlone(d, m)
  BY DEF QueueInv, HoldInv
<1>1. \A d \in Calls : Recording(d, m) => m \in DOMAIN batch[d]
  BY <1>h DEF AnswerInv, Recording
<1> QED
  BY <1>h, <1>1 DEF HeldAlone

LEMMA LostStep == QueueInv /\ LostInv /\ [Next]_vars => LostInv'
<1> SUFFICES ASSUME QueueInv, LostInv, [Next]_vars, ~tally'.slow, NEW m \in Messages
             PROVE  Lost(m)'
  BY DEF LostInv
<1> USE DEF Lost, Recording
<1>t. /\ TypeInv /\ AnswerInv /\ outbox \in [Messages -> Rows]
      /\ pc \in [Calls -> {"idle", "skip", "claim", "send", "record"}]
      /\ answer \in [Calls -> [to : {{}} \cup {{k} : k \in Messages},
                               accepted : BOOLEAN]]
      /\ tally.delivered[m] \in Nat /\ tally.unknown[m] \in Nat
  BY DEF QueueInv, TypeInv, TypeOK
<1>l. ~tally.slow => Lost(m)
  BY DEF LostInv
<1>1. ASSUME NEW k \in Messages, Enqueue(k) \/ FallDue(k) PROVE Lost(m)'
  BY <1>1, <1>l DEF Enqueue, FallDue
<1>2. ASSUME NEW k \in Messages, Age(k) PROVE Lost(m)'
  BY <1>2, <1>t, <1>l, AgeEffect
<1>3. ASSUME NEW e \in Calls, Begin(e) \/ Skip(e) PROVE Lost(m)'
  <2>1. UNCHANGED <<answer, tally>> /\ \A d \in Calls : pc'[d] = "record" => pc[d] = "record"
    BY <1>3, <1>t DEF Begin, Skip, Goto
  <2> QED
    BY <1>l, <2>1
<1>4. ASSUME NEW e \in Calls, Claim(e) PROVE Lost(m)'
  <2>1. UNCHANGED <<answer, tally>> /\ \A d \in Calls : pc'[d] = "record" => pc[d] = "record"
    BY <1>4, <1>t, ClaimEffect
  <2> QED
    BY <1>l, <2>1
<1>5. ASSUME NEW e \in Calls, SendAny(e) PROVE Lost(m)'
  <2>1. PICK k \in Messages, taken \in BOOLEAN, accepted \in BOOLEAN :
          Send(e, k, taken, accepted)
    BY <1>5 DEF SendAny
  <2>2. /\ ~tally.slow
        /\ tally'.delivered[m] = IF m = k /\ taken THEN tally.delivered[m] + 1
                                                   ELSE tally.delivered[m]
        /\ tally'.unknown[m] = IF m = k /\ taken /\ ~accepted
                               THEN tally.unknown[m] + 1 ELSE tally.unknown[m]
    BY <1>t, <2>1, SendTally
  <2>3. /\ pc[e] = "send" /\ k \in DOMAIN batch[e] /\ (accepted => taken)
        /\ answer'[e] = [to |-> {k}, accepted |-> accepted]
        /\ \A d \in Calls \ {e} : answer'[d] = answer[d] /\ pc'[d] = pc[d]
    BY <1>t, <2>1 DEF Send, Goto
  <2>4. CASE m = k
    <3>1. \A d \in Calls : ~Recording(d, m)
      BY <2>2, <2>3, <2>4, SentAgainWhenLost
    <3>2. \A d \in Calls : Recording(d, m)' /\ answer'[d].accepted => accepted
      BY <2>3, <3>1
    <3> QED
      BY <1>t, <1>l, <2>2, <2>3, <2>4, <3>2
  <2>5. CASE m # k
    <3>1. \A d \in Calls : Recording(d, m)' => d # e
      BY <2>3, <2>5
    <3> QED
      BY <1>l, <2>2, <2>3, <2>5, <3>1
  <2> QED
    BY <2>4, <2>5
<1>6. ASSUME NEW e \in Calls, RecordAny(e) PROVE Lost(m)'
  <2>1. PICK k \in Messages : Record(e, k)
    BY <1>6 DEF RecordAny
  <2>2. /\ UNCHANGED tally /\ pc'[e] # "record"
        /\ \A d \in Calls \ {e} : answer'[d] = answer[d] /\ pc'[d] = pc[d]
    BY <1>t, <2>1, RecordEffect
  <2> QED
    BY <1>l, <2>2
<1>7. ASSUME NEW e \in Calls, Die(e) PROVE Lost(m)'
  <2>1. /\ pc'[e] # "record"
        /\ \A d \in Calls \ {e} : answer'[d] = answer[d] /\ pc'[d] = pc[d]
    BY <1>7, <1>t DEF Die
  <2>2. /\ ~tally.slow
        /\ tally'.delivered = tally.delivered
        /\ tally'.unknown[m] = IF answer[e] = [to |-> {m}, accepted |-> TRUE]
                               THEN tally.unknown[m] + 1 ELSE tally.unknown[m]
    BY <1>7, <1>t, DieTally
  <2>3. CASE answer[e] = [to |-> {m}, accepted |-> TRUE]
    <3>1. Recording(e, m) /\ answer[e].accepted
      BY <1>t, <2>3 DEF AnswerInv, Nothing
    <3>2. tally.unknown[m] < tally.delivered[m]
      BY <1>l, <2>2, <3>1
    <3>3. \A d \in Calls : Recording(d, m) => d = e
      BY <2>2, <3>1, RecordedAlone
    <3> QED
      BY <1>t, <2>1, <2>2, <2>3, <3>2, <3>3
  <2>4. CASE answer[e] # [to |-> {m}, accepted |-> TRUE]
    BY <1>l, <2>1, <2>2, <2>4
  <2> QED
    BY <2>3, <2>4
<1>8. CASE UNCHANGED vars
  BY <1>8, <1>l DEF vars
<1> QED
  BY <1>1, <1>2, <1>3, <1>4, <1>5, <1>6, <1>7, <1>8 DEF Next

\* Every step of the outbox is a step of the promise, or changes nothing that
\* callers or the server can see.
LEMMA PromiseStep ==
  QueueInv /\ LostInv /\ [Next]_vars => [Delivery!Next]_(Delivery!vars)
<1> SUFFICES ASSUME QueueInv, LostInv, [Next]_vars
             PROVE  Delivery!Next \/ UNCHANGED Delivery!vars
  OBVIOUS
<1> DEFINE Seen == [m \in Messages |-> Shown(outbox[m].status)]
<1>t. /\ TypeInv /\ AnswerInv /\ outbox \in [Messages -> Rows]
      /\ tally.delivered \in [Messages -> Nat] /\ tally.refused \in [Messages -> Nat]
      /\ tally.unknown \in [Messages -> Nat] /\ tally.slow \in BOOLEAN
      /\ tally \in [delivered : [Messages -> Nat], refused : [Messages -> Nat],
                    unknown : [Messages -> Nat], slow : BOOLEAN, losses : Nat]
  BY DEF QueueInv, TypeInv, TypeOK
<1>s. ASSUME UNCHANGED tally,
           \A m \in Messages : Shown(outbox'[m].status) = Shown(outbox[m].status)
    PROVE  UNCHANGED Delivery!vars
  BY <1>s DEF Delivery!vars
<1>1. ASSUME NEW k \in Messages, Enqueue(k) PROVE Delivery!Enqueue(k)
  <2>1. outbox[k].status = "NONE" /\ outbox'[k].status = "QUEUED" /\ UNCHANGED tally
        /\ \A m \in Messages \ {k} : outbox'[m] = outbox[m]
    BY <1>1, <1>t DEF Enqueue, Rows
  <2>2. Seen' = [Seen EXCEPT ![k] = "PENDING"]
    BY <2>1 DEF Shown
  <2> QED
    BY <2>1, <2>2 DEF Delivery!Enqueue, Shown
<1>2. ASSUME NEW k \in Messages, Age(k) PROVE Delivery!Next \/ UNCHANGED Delivery!vars
  <2>1. \A m \in Messages : outbox'[m].status = outbox[m].status
    BY <1>2, <1>t DEF Age, Rows
  <2>2. /\ tally'.delivered = tally.delivered /\ tally'.refused = tally.refused
        /\ tally'.unknown = tally.unknown
        /\ tally'.slow = tally.slow \/ tally'.slow = TRUE
    BY <1>2, <1>t DEF Age
  <2>3. Seen' = Seen
    BY <2>1
  <2> QED
    BY <2>2, <2>3 DEF Delivery!Next, Delivery!Overrun, Delivery!vars
<1>3. ASSUME NEW k \in Messages, FallDue(k) PROVE UNCHANGED Delivery!vars
  <2>1. UNCHANGED tally /\ \A m \in Messages : outbox'[m].status = outbox[m].status
    BY <1>3, <1>t DEF FallDue, Rows
  <2> QED
    BY <1>s, <2>1
<1>4. ASSUME NEW e \in Calls, Begin(e) PROVE UNCHANGED Delivery!vars
  <2>1. UNCHANGED tally
        /\ \A m \in Messages : Shown(outbox'[m].status) = Shown(outbox[m].status)
    BY <1>4, <1>t DEF Begin, Requeued, Rows, Shown
  <2> QED
    BY <1>s, <2>1
<1>5. ASSUME NEW e \in Calls, Skip(e) PROVE Delivery!Skip(With("QUEUED"))
  <2>1. UNCHANGED tally
        /\ \A m \in Messages : IF m \in With("QUEUED") THEN outbox'[m].status = "SKIPPED"
                                                       ELSE outbox'[m] = outbox[m]
    BY <1>5, <1>t DEF Skip, Rows
  <2>2. \A m \in With("QUEUED") : m \in Messages /\ Seen[m] = "PENDING"
    BY DEF With, Shown
  <2>3. Seen' = [m \in Messages |-> IF m \in With("QUEUED") THEN "SKIPPED" ELSE Seen[m]]
    BY <2>1 DEF Shown
  <2> QED
    BY <2>1, <2>2, <2>3 DEF Delivery!Skip
<1>6. ASSUME NEW e \in Calls, Claim(e) PROVE UNCHANGED Delivery!vars
  <2>1. UNCHANGED tally
        /\ \A m \in Messages : Shown(outbox'[m].status) = Shown(outbox[m].status)
    BY <1>6, <1>t, ClaimEffect DEF Shown
  <2> QED
    BY <1>s, <2>1
<1>7. ASSUME NEW e \in Calls, NEW k \in Messages, NEW taken \in BOOLEAN,
             NEW accepted \in BOOLEAN, Send(e, k, taken, accepted)
      PROVE  Delivery!Attempt(k, taken, accepted)
  <2>1. /\ UNCHANGED outbox /\ pc[e] = "send" /\ k \in DOMAIN batch[e]
        /\ accepted => taken
    BY <1>7 DEF Send
  <2>2. /\ tally'.slow = tally.slow
        /\ tally'.delivered = Delivery!Plus(tally.delivered, k, taken)
        /\ tally'.refused = Delivery!Plus(tally.refused, k, ~accepted)
        /\ tally'.unknown = Delivery!Plus(tally.unknown, k, taken /\ ~accepted)
    BY <1>7, <1>t DEF Send, Delivery!Plus
  <2>3. tally.slow \/ (Seen[k] = "PENDING" /\ tally.delivered[k] <= tally.unknown[k])
    BY <2>1, SentAgainWhenLost DEF Shown
  <2>4. Seen' = Seen
    BY <2>1
  <2> QED
    BY <2>1, <2>2, <2>3, <2>4 DEF Delivery!Attempt
<1>8. ASSUME NEW e \in Calls, NEW k \in Messages, Record(e, k)
      PROVE  Delivery!Next \/ UNCHANGED Delivery!vars
  <2>1. /\ Recording(e, k) /\ k \in DOMAIN batch[e] /\ UNCHANGED tally
        /\ outbox'[k].status =
             IF answer[e].accepted THEN "SENT" ELSE AfterRefusal(batch[e][k] + 1)
        /\ \A m \in Messages \ {k} : outbox'[m] = outbox[m]
    BY <1>8, <1>t, RecordEffect
  <2>2. tally.slow \/ outbox[k].status = "SENDING"
    BY <2>1, RecordedAlone
  <2>3. CallEarned(e, k) /\ batch[e][k] \in Nat /\ tally.refused[k] \in Nat
    BY <1>t, <2>1, QueueAssumption DEF QueueInv, EarnedInv, TypeInv, TypeOK
  <2> DEFINE result == Shown(outbox'[k].status)
  <2>4. Seen' = [Seen EXCEPT ![k] = result]
    BY <2>1
  <2>5. /\ result \in {"SENT", "FAILED", "PENDING"}
        /\ result = "SENT" => tally.delivered[k] > 0
        /\ result = "FAILED" => tally.refused[k] >= MaxAttempts
    BY <2>1, <2>3, QueueAssumption DEF CallEarned, AfterRefusal, Shown
  <2>6. CASE tally.slow \/ result # "PENDING"
    <3>1. Delivery!Settle(k, result)
      BY <2>1, <2>2, <2>4, <2>5, <2>6 DEF Delivery!Settle, Delivery!Earned, Shown
    <3> QED
      BY <2>5, <3>1 DEF Delivery!Next
  <2>7. CASE ~tally.slow /\ result = "PENDING"
    <3>1. Shown(outbox[k].status) = "PENDING"
      BY <2>2, <2>7 DEF Shown
    <3> QED
      BY <1>s, <2>1, <2>7, <3>1
  <2> QED
    BY <2>6, <2>7
<1>9. ASSUME NEW e \in Calls, Die(e) PROVE Delivery!Next \/ UNCHANGED Delivery!vars
  <2>1. UNCHANGED outbox
    BY <1>9 DEF Die
  <2>2. /\ tally'.slow = tally.slow /\ tally'.delivered = tally.delivered
        /\ tally'.refused = tally.refused
        /\ tally'.unknown = [m \in Messages |->
             IF answer[e] = [to |-> {m}, accepted |-> TRUE]
             THEN tally.unknown[m] + 1 ELSE tally.unknown[m]]
    BY <1>9, <1>t DEF Die
  <2>3. Seen' = Seen
    BY <2>1
  <2>4. CASE \E k \in Messages : answer[e] = [to |-> {k}, accepted |-> TRUE]
    <3>1. PICK k \in Messages : answer[e] = [to |-> {k}, accepted |-> TRUE]
      BY <2>4
    <3>2. Recording(e, k) /\ answer[e].accepted
      BY <1>t, <3>1 DEF AnswerInv, Nothing, Recording
    <3>3. tally.slow \/ (Seen[k] = "PENDING" /\ tally.unknown[k] < tally.delivered[k])
      BY <3>2, RecordedAlone DEF LostInv, Lost, Shown
    <3>4. \A m \in Messages : answer[e] = [to |-> {m}, accepted |-> TRUE] <=> m = k
      <4>1. ASSUME NEW m \in Messages, answer[e] = [to |-> {m}, accepted |-> TRUE]
            PROVE  m = k
        <5>1. answer[e].to = {m} /\ answer[e].to = {k}
          BY <3>1, <4>1
        <5> QED
          BY <5>1
      <4> QED
        BY <3>1, <4>1
    <3>5. tally'.unknown = Delivery!Plus(tally.unknown, k, TRUE)
      <4>1. tally'.unknown = [m \in Messages |-> IF m = k THEN tally.unknown[m] + 1
                                                         ELSE tally.unknown[m]]
        BY <2>2, <3>4
      <4> QED
        BY <1>t, <4>1 DEF Delivery!Plus
    <3>6. Delivery!Forget(k)
      BY <2>2, <2>3, <3>3, <3>5 DEF Delivery!Forget
    <3> QED
      BY <3>6 DEF Delivery!Next
  <2>5. CASE ~\E k \in Messages : answer[e] = [to |-> {k}, accepted |-> TRUE]
    <3>1. tally'.unknown = tally.unknown
      BY <1>t, <2>2, <2>5
    <3> QED
      BY <2>2, <2>3, <3>1 DEF Delivery!vars
  <2> QED
    BY <2>4, <2>5
<1>10. CASE UNCHANGED vars
  BY <1>10, <1>s DEF vars
<1>11. ASSUME NEW e \in Calls, SendAny(e) PROVE Delivery!Next
  BY <1>7, <1>11 DEF SendAny, Delivery!Next
<1>12. ASSUME NEW e \in Calls, Skip(e) PROVE Delivery!Next
  <2>1. With("QUEUED") \in SUBSET Messages
    BY DEF With
  <2> QED
    BY <1>5, <1>12, <2>1 DEF Delivery!Next
<1>13. ASSUME NEW k \in Messages, Enqueue(k) PROVE Delivery!Next
  BY <1>1, <1>13 DEF Delivery!Next
<1>14. ASSUME NEW e \in Calls, RecordAny(e) PROVE Delivery!Next \/ UNCHANGED Delivery!vars
  BY <1>8, <1>14 DEF RecordAny
<1> QED
  BY <1>2, <1>3, <1>4, <1>6, <1>9, <1>10, <1>11, <1>12, <1>13, <1>14 DEF Next

\* processQueue(), enqueue() and requeueStaleSending(): rows, claims, batches,
\* requeues, crashes and lost answers of any number of overlapping calls
\* implement what MailDelivery promises to whoever enqueued a message.
THEOREM DeliveryIsImplemented == Spec => ImplementsDelivery
<1>1. Init => LostInv
  BY DEF Init, LostInv, Lost, Recording
<1>2. Init => Delivery!Init
  BY DEF Init, Delivery!Init, Shown
<1>3. Spec => []LostInv
  BY <1>1, LostStep, Invariance, PTL DEF Spec
<1> QED
  BY <1>2, <1>3, PromiseStep, Invariance, PTL DEF Spec, ImplementsDelivery, Delivery!Spec

-----------------------------------------------------------------------------
(* The backup runs. *)

RunRows == [status : Statuses, attempt : 0 .. AttemptLimit, artifact : Numbers \cup {0}]

\* The tables no artifact is in.
RestTyped ==
  /\ due \in BOOLEAN
  /\ runs \in [Runs -> RunRows]
  /\ lock \in Nat
  /\ trouble \in 0 .. MaxTrouble

ArtifactsTyped ==
  /\ artifacts \in [Numbers -> {"none", "RUNNING", "COMPLETED", "FAILED", "deleted"}]
  /\ linked \in SUBSET Numbers
  /\ files \in SUBSET Numbers

\* Enough of the numbers in s are newer than a.
Spare(s, a) == Cardinality({b \in s : b > a}) >= KeepCount

Stored(rows, links, archives) ==
  \A a \in links : rows[a] = "COMPLETED" /\ (a \notin archives => Spare(links, a))

Making == {"store", "complete", "failArtifact"}
Owning == Making \cup {"link"}

\* What a worker with copy c that is about to make the statement "label" knows
\* of its run and of the tables.
Owns(rows, links, archives, label, c) ==
  /\ label \in Attempting \cup {"load", "begin"} => c.run \in Runs
  /\ label = "begin" => c.attempt \in 0 .. AttemptLimit
  /\ label \in Making => c.artifact \in Numbers /\ rows[c.artifact] = "RUNNING"
  /\ label = "link" => /\ c.artifact \in Numbers \ links
                       /\ rows[c.artifact] = "COMPLETED"
  /\ label \in {"complete", "link"} => c.artifact \in archives
  /\ label \in Pruning => \A a \in c.todo \cup c.pruned : a \in links /\ Spare(links, a)
  /\ label \notin Pruning \cup {"leave"} => c.pruned = {}

\* Two workers that are about to make these statements with these copies.
Exclusive(l1, c1, l2, c2) ==
  /\ l1 \in Owning /\ l2 \in Owning => c1.artifact # c2.artifact
  /\ ~(l1 \in Pruning /\ l2 \in Pruning)

WorkerInv ==
  \A w \in Workers :
    /\ Owns(artifacts, linked, files, stage[w], copy[w])
    /\ \A v \in Workers \ {w} : Exclusive(stage[v], copy[v], stage[w], copy[w])

BackupInv == BackupTypeOK /\ Stored(artifacts, linked, files) /\ WorkerInv

-----------------------------------------------------------------------------
(* Enough newer ones. *)

LEMMA NewestExists ==
  ASSUME NEW s \in SUBSET Numbers, s # {}
  PROVE  \E m \in s : \A b \in s : b <= m
<1> DEFINE R == {ss \in Nat \X Nat : ss[1] < ss[2]}
           t == {n \in Nat : \E a \in s : n = MaxArtifacts - a}
<1>1. IsWellFoundedOn(R, Nat)
  BY NatLessThanWellFounded DEF OpToRel
<1>2. MaxArtifacts \in Nat /\ \A a \in s : a \in 1 .. MaxArtifacts
  BY JobAssumption DEF Numbers
<1>3. t # {}
  <2>1. PICK a \in s : TRUE
    OBVIOUS
  <2>2. MaxArtifacts - a \in Nat
    BY <1>2
  <2> QED
    BY <2>2
<1>4. PICK x \in t : \A y \in t : ~ (<<y, x>> \in R)
  <2>1. t \in SUBSET Nat
    OBVIOUS
  <2> HIDE DEF R, t
  <2> QED
    BY <1>1, <1>3, <2>1, WFMin
<1>5. \A y \in t : ~ (y < x)
  BY <1>4
<1>6. PICK m \in s : x = MaxArtifacts - m
  OBVIOUS
<1>7. ASSUME NEW b \in s PROVE b <= m
  <2>1. MaxArtifacts - b \in t
    BY <1>2
  <2>2. ~(MaxArtifacts - b < MaxArtifacts - m)
    BY <1>5, <1>6, <2>1
  <2> QED
    BY <1>2, <2>2
<1> QED
  BY <1>7

LEMMA NumbersFinite ==
  ASSUME NEW s \in SUBSET Numbers
  PROVE  IsFiniteSet(s) /\ Cardinality(s) \in Nat
<1>1. IsFiniteSet(Numbers)
  BY JobAssumption, FS_Interval DEF Numbers
<1>2. IsFiniteSet(s)
  BY <1>1, FS_Subset
<1> QED
  BY <1>2, FS_CardinalityType

LEMMA SpareGrows ==
  ASSUME NEW s \in SUBSET Numbers, NEW t \in SUBSET Numbers, NEW a, NEW b,
         {n \in s : n > a} \subseteq {n \in t : n > b}, Spare(s, a)
  PROVE  Spare(t, b)
<1> DEFINE x == {n \in s : n > a}
           y == {n \in t : n > b}
<1>1. x \in SUBSET Numbers /\ y \in SUBSET Numbers /\ x \in SUBSET y
  OBVIOUS
<1>2. Cardinality(x) >= KeepCount
  BY DEF Spare
<1> HIDE DEF x, y
<1>3. /\ Cardinality(x) \in Nat /\ Cardinality(y) \in Nat
      /\ Cardinality(x) <= Cardinality(y)
  BY <1>1, NumbersFinite, FS_Subset
<1>4. Cardinality(y) >= KeepCount
  BY <1>2, <1>3, JobAssumption
<1> QED
  BY <1>4 DEF Spare, y

\* What has enough newer ones keeps them when all that goes has enough, too.
LEMMA SpareRemains ==
  ASSUME NEW s \in SUBSET Numbers, NEW gone \in SUBSET s,
         \A g \in gone : Spare(s, g), NEW a \in Numbers, Spare(s, a)
  PROVE  Spare(s \ gone, a)
<1>0. \A n \in Numbers : n \in Nat
  BY JobAssumption DEF Numbers
<1>1. CASE \A g \in gone : ~(g > a)
  <2>1. {n \in s : n > a} \subseteq {n \in s \ gone : n > a}
    BY <1>1
  <2> QED
    BY <2>1, SpareGrows
<1>2. CASE \E g \in gone : g > a
  <2> DEFINE newer == {g \in gone : g > a}
  <2>1. newer \in SUBSET Numbers /\ newer # {}
    BY <1>2
  <2>2. PICK m \in newer : \A g \in newer : g <= m
    <3> HIDE DEF newer
    <3> QED
      BY <2>1, NewestExists
  <2>3. m \in gone /\ m > a /\ Spare(s, m) /\ m \in Nat /\ a \in Nat
    BY <1>0
  <2>4. {n \in s : n > m} \subseteq {n \in s \ gone : n > a}
    <3> SUFFICES ASSUME NEW n \in s, n > m
                 PROVE  n \notin gone /\ n > a
      OBVIOUS
    <3>1. n \in Nat
      BY <1>0
    <3>2. n > a
      BY <2>3, <3>1
    <3>3. n \notin gone
      BY <2>2, <2>3, <3>1, <3>2
    <3> QED
      BY <3>2, <3>3
  <2> QED
    BY <2>3, <2>4, SpareGrows
<1> QED
  BY <1>1, <1>2

-----------------------------------------------------------------------------
(* Types. *)

LEMMA BackupTypeParts ==
  ASSUME BackupTypeOK
  PROVE  /\ RestTyped /\ ArtifactsTyped
         /\ stage \in [Workers -> Labels]
         /\ copy \in [Workers -> Copies]
  BY DEF BackupTypeOK, RestTyped, ArtifactsTyped, RunRows

LEMMA CopyFields ==
  ASSUME NEW c \in Copies
  PROVE  /\ c.retries \in SUBSET Runs
         /\ c.for \in {"nothing", "retry", "job", "request"}
         /\ c.run \in Runs \cup {NoRun}
         /\ c.attempt \in Nat
         /\ c.artifact \in Numbers \cup {0}
         /\ c.todo \in SUBSET Numbers
         /\ c.pruned \in SUBSET Numbers
  BY DEF Copies

LEMMA RowFields ==
  ASSUME NEW row \in RunRows
  PROVE  /\ row.status \in Statuses
         /\ row.attempt \in 0 .. AttemptLimit
         /\ row.artifact \in Numbers \cup {0}
         /\ \A s \in Statuses : [row EXCEPT !.status = s] \in RunRows
         /\ [row EXCEPT !.artifact = 0] \in RunRows
  BY DEF RunRows

LEMMA IdleTyped == Idle \in Copies /\ Idle.pruned = {} /\ Idle.retries = {}
  BY DEF Idle, Copies

\* One row is changed.
LEMMA RowTyped ==
  ASSUME runs \in [Runs -> RunRows], NEW r \in Runs, NEW s \in Statuses,
         runs' = [runs EXCEPT ![r].status = s]
  PROVE  runs' \in [Runs -> RunRows]
<1>1. [runs[r] EXCEPT !.status = s] \in RunRows
  BY RowFields
<1>2. runs' = [runs EXCEPT ![r] = [runs[r] EXCEPT !.status = s]]
  OBVIOUS
<1> QED
  BY <1>1, <1>2

-----------------------------------------------------------------------------
(* From what an action of w does to the invariant. *)

CopyStep(w, c, label) ==
  /\ c \in Copies
  /\ label \in Labels
  /\ copy' = [copy EXCEPT ![w] = c]
  /\ stage' = [stage EXCEPT ![w] = label]

LEMMA WorkerStep ==
  ASSUME BackupInv, NEW w \in Workers, NEW c, NEW label, CopyStep(w, c, label),
         RestTyped', ArtifactsTyped', Stored(artifacts', linked', files'),
         Owns(artifacts', linked', files', label, c),
         \A v \in Workers \ {w} :
           /\ Owns(artifacts', linked', files', stage[v], copy[v])
           /\ Exclusive(stage[v], copy[v], label, c)
  PROVE  BackupInv'
<1>1. stage \in [Workers -> Labels] /\ copy \in [Workers -> Copies]
  BY BackupTypeParts DEF BackupInv
<1>2. /\ stage' \in [Workers -> Labels] /\ copy' \in [Workers -> Copies]
      /\ stage'[w] = label /\ copy'[w] = c
      /\ \A v \in Workers \ {w} : stage'[v] = stage[v] /\ copy'[v] = copy[v]
  BY <1>1 DEF CopyStep
<1>3. BackupTypeOK'
  BY <1>2 DEF BackupTypeOK, RestTyped, ArtifactsTyped, RunRows
<1>4. ASSUME NEW u \in Workers
      PROVE  /\ Owns(artifacts', linked', files', stage'[u], copy'[u])
             /\ \A v \in Workers \ {u} : Exclusive(stage'[v], copy'[v], stage'[u], copy'[u])
  <2>1. Owns(artifacts', linked', files', stage'[u], copy'[u])
    BY <1>2
  <2>2. ASSUME NEW v \in Workers \ {u}
        PROVE  Exclusive(stage'[v], copy'[v], stage'[u], copy'[u])
    <3>1. CASE u = w
      BY <1>2, <3>1
    <3>2. CASE v = w
      <4>1. Exclusive(stage[u], copy[u], label, c)
        BY <3>2
      <4>2. Exclusive(label, c, stage[u], copy[u])
        BY <4>1 DEF Exclusive, Pruning
      <4> QED
        BY <1>2, <3>2, <4>2
    <3>3. CASE u # w /\ v # w
      BY <1>2, <3>3 DEF BackupInv, WorkerInv
    <3> QED
      BY <3>1, <3>2, <3>3
  <2> QED
    BY <2>1, <2>2
<1> QED
  BY <1>3, <1>4 DEF BackupInv, WorkerInv

\* What is known of w and of the others.
LEMMA Known ==
  ASSUME BackupInv, NEW w \in Workers
  PROVE  /\ RestTyped /\ ArtifactsTyped
         /\ stage \in [Workers -> Labels] /\ copy \in [Workers -> Copies]
         /\ copy[w] \in Copies
         /\ Stored(artifacts, linked, files)
         /\ Owns(artifacts, linked, files, stage[w], copy[w])
         /\ \A v \in Workers \ {w} :
              /\ Owns(artifacts, linked, files, stage[v], copy[v])
              /\ Exclusive(stage[v], copy[v], stage[w], copy[w])
<1>1. BackupTypeOK /\ Stored(artifacts, linked, files) /\ WorkerInv
  BY DEF BackupInv
<1>2. /\ Owns(artifacts, linked, files, stage[w], copy[w])
      /\ \A v \in Workers \ {w} :
           /\ Owns(artifacts, linked, files, stage[v], copy[v])
           /\ Exclusive(stage[v], copy[v], stage[w], copy[w])
  BY <1>1 DEF WorkerInv
<1>3. stage \in [Workers -> Labels] /\ copy \in [Workers -> Copies]
  BY <1>1, BackupTypeParts
<1>4. copy[w] \in Copies
  BY <1>3
<1> QED
  BY <1>1, <1>2, <1>3, <1>4, BackupTypeParts

\* A step that leaves the artifacts alone.
LEMMA LocalStep ==
  ASSUME BackupInv, NEW w \in Workers, NEW c, NEW label, CopyStep(w, c, label),
         RestTyped', UNCHANGED artifactTables,
         Owns(artifacts, linked, files, label, c),
         label \in Owning => stage[w] \in Owning /\ c.artifact = copy[w].artifact,
         label \in Pruning => \A v \in Workers \ {w} : stage[v] \notin Pruning
  PROVE  BackupInv'
<1>1. artifacts' = artifacts /\ linked' = linked /\ files' = files
  BY DEF artifactTables
<1>2. /\ ArtifactsTyped /\ Stored(artifacts, linked, files)
      /\ \A v \in Workers \ {w} :
           /\ Owns(artifacts, linked, files, stage[v], copy[v])
           /\ Exclusive(stage[v], copy[v], stage[w], copy[w])
  BY Known
<1>3. ArtifactsTyped' /\ Stored(artifacts', linked', files')
  BY <1>1, <1>2 DEF ArtifactsTyped
<1>4. ASSUME NEW v \in Workers \ {w}
      PROVE  /\ Owns(artifacts', linked', files', stage[v], copy[v])
             /\ Exclusive(stage[v], copy[v], label, c)
  <2>1. Exclusive(stage[v], copy[v], label, c)
    BY <1>2 DEF Exclusive, Pruning
  <2> QED
    BY <1>1, <1>2, <2>1
<1>5. Owns(artifacts', linked', files', label, c)
  BY <1>1
<1> QED
  BY <1>3, <1>4, <1>5, WorkerStep

\* A step after which w has nothing in hand, or only its run.
LEMMA PlainStep ==
  ASSUME BackupInv, NEW w \in Workers, NEW c, NEW label, CopyStep(w, c, label),
         RestTyped', UNCHANGED artifactTables,
         label \notin Owning \cup Pruning,
         label \in Attempting \cup {"load", "begin"} => c.run \in Runs,
         label = "begin" => c.attempt \in 0 .. AttemptLimit,
         label # "leave" => c.pruned = {}
  PROVE  BackupInv'
<1>1. Owns(artifacts, linked, files, label, c)
  BY DEF Owns, Pruning, Owning, Making
<1> QED
  BY <1>1, LocalStep

LEMMA Stay ==
  ASSUME BackupInv, NEW w \in Workers
  PROVE  /\ copy = [copy EXCEPT ![w] = copy[w]]
         /\ stage = [stage EXCEPT ![w] = stage[w]]
  BY Known

-----------------------------------------------------------------------------
(* The tick. *)

LEMMA TickKeeps ==
  ASSUME BackupInv, NEW w \in Workers, NEW silent, Reclaim(w, silent),
         trouble' \in 0 .. MaxTrouble
  PROVE  BackupInv'
<1>1. /\ RestTyped /\ copy[w] \in Copies /\ stage[w] = "idle"
      /\ Owns(artifacts, linked, files, stage[w], copy[w])
  BY Known DEF Reclaim
<1>2. runs' \in [Runs -> RunRows]
  <2>1. ASSUME NEW r \in Runs
        PROVE  runs[r] \in RunRows /\ Recovered(runs[r]) \in RunRows
    <3>1. runs[r] \in RunRows
      BY <1>1 DEF RestTyped
    <3> QED
      BY <3>1, RowFields DEF Recovered, Statuses
  <2> QED
    BY <2>1 DEF Reclaim
<1>3. RestTyped'
  BY <1>1, <1>2 DEF RestTyped, Reclaim
<1>4. CopyStep(w, copy[w], "select")
  BY <1>1, Stay DEF CopyStep, Reclaim, Proceed, Labels
<1>5. copy[w].pruned = {}
  BY <1>1 DEF Owns, Pruning
<1> QED
  BY <1>3, <1>4, <1>5, PlainStep DEF Reclaim, Owning, Making, Pruning, Attempting

LEMMA TicksKeep ==
  ASSUME BackupInv, NEW w \in Workers,
         Tick(w) \/ \E unheard \in (SUBSET Runs) \ {{}} : TickUnheard(w, unheard)
  PROVE  BackupInv'
<1>1. trouble \in 0 .. MaxTrouble
  BY Known DEF RestTyped
<1>2. CASE Tick(w)
  <2>1. Reclaim(w, Abandoned) /\ trouble' = trouble
    BY <1>2 DEF Tick
  <2> QED
    BY <1>1, <2>1, TickKeeps
<1>3. ASSUME NEW unheard \in SUBSET Runs, TickUnheard(w, unheard)
      PROVE  BackupInv'
  <2>1. Reclaim(w, Abandoned \cup unheard) /\ Trouble
    BY <1>3 DEF TickUnheard
  <2>2. trouble' \in 0 .. MaxTrouble
    BY <1>1, <2>1, JobAssumption DEF Trouble
  <2> QED
    BY <2>1, <2>2, TickKeeps
<1> QED
  BY <1>2, <1>3

LEMMA SelectRetriesKeeps ==
  ASSUME BackupInv, NEW w \in Workers, NEW waiting \in SUBSET Runs,
         SelectRetries(w, waiting)
  PROVE  BackupInv'
<1> DEFINE c == [copy[w] EXCEPT !.retries = waiting]
<1>1. /\ RestTyped /\ copy[w] \in Copies /\ stage[w] = "select"
      /\ Owns(artifacts, linked, files, stage[w], copy[w])
      /\ copy \in [Workers -> Copies]
  BY Known DEF SelectRetries
<1>2. c \in Copies /\ c.pruned = copy[w].pruned
  BY <1>1 DEF Copies
<1>3. RestTyped'
  BY <1>1 DEF RestTyped, SelectRetries
<1>4. CopyStep(w, c, "next")
  BY <1>1, <1>2 DEF CopyStep, SelectRetries, Proceed, Labels
<1>5. c.pruned = {}
  BY <1>1, <1>2 DEF Owns, Pruning
<1> QED
  BY <1>3, <1>4, <1>5, PlainStep DEF SelectRetries, Owning, Making, Pruning, Attempting

LEMMA TakeRetryKeeps ==
  ASSUME BackupInv, NEW w \in Workers, NEW r \in Runs, NEW own \in BOOLEAN,
         TakeRetry(w, r, own)
  PROVE  BackupInv'
<1> DEFINE rest == [Idle EXCEPT !.retries = copy[w].retries \ {r}]
           taken == [rest EXCEPT !.run = r, !.for = "retry"]
<1>1. /\ RestTyped /\ copy[w] \in Copies /\ stage[w] = "next"
      /\ copy \in [Workers -> Copies] /\ stage \in [Workers -> Labels]
  BY Known DEF TakeRetry
<1>2. copy[w].retries \in SUBSET Runs
  BY <1>1, CopyFields
<1>3. /\ rest \in Copies /\ rest.pruned = {}
      /\ taken \in Copies /\ taken.pruned = {} /\ taken.run = r
  BY <1>2, IdleTyped DEF Copies, Idle
<1>4. CASE Lockable(own) /\ Room
  <2>1. RestTyped' /\ UNCHANGED artifactTables
    BY <1>1, <1>4 DEF RestTyped, TakeRetry
  <2>2. CopyStep(w, taken, "load")
    BY <1>1, <1>3, <1>4 DEF CopyStep, TakeRetry, Proceed, Labels
  <2> HIDE DEF taken
  <2> QED
    BY <1>3, <2>1, <2>2, PlainStep DEF Owning, Making, Pruning
<1>5. CASE ~(Lockable(own) /\ Room)
  <2>1. RestTyped' /\ UNCHANGED artifactTables
    BY <1>1, <1>5 DEF RestTyped, TakeRetry
  <2>2. CopyStep(w, rest, "next")
    BY <1>1, <1>3, <1>5, Stay DEF CopyStep, TakeRetry, Labels
  <2> HIDE DEF rest
  <2> QED
    BY <1>3, <2>1, <2>2, PlainStep DEF Owning, Making, Pruning, Attempting
<1> QED
  BY <1>4, <1>5

LEMMA SelectJobKeeps ==
  ASSUME BackupInv, NEW w \in Workers, SelectJob(w)
  PROVE  BackupInv'
<1> DEFINE label == IF due THEN "lock" ELSE "idle"
<1>1. /\ RestTyped /\ copy[w] \in Copies /\ stage[w] = "next"
      /\ Owns(artifacts, linked, files, stage[w], copy[w])
  BY Known DEF SelectJob
<1>2. RestTyped' /\ UNCHANGED artifactTables
  BY <1>1 DEF RestTyped, SelectJob
<1>3. CopyStep(w, copy[w], label)
  BY <1>1, Stay DEF CopyStep, SelectJob, Proceed, Labels
<1>4. copy[w].pruned = {}
  BY <1>1 DEF Owns, Pruning
<1> QED
  BY <1>2, <1>3, <1>4, PlainStep DEF Owning, Making, Pruning, Attempting

LEMMA TakeJobKeeps ==
  ASSUME BackupInv, NEW w \in Workers, NEW own \in BOOLEAN, TakeJob(w, own)
  PROVE  BackupInv'
<1> DEFINE c == [copy[w] EXCEPT !.for = "job"]
<1>1. /\ RestTyped /\ copy[w] \in Copies /\ stage[w] = "lock"
      /\ Owns(artifacts, linked, files, stage[w], copy[w])
      /\ copy \in [Workers -> Copies]
  BY Known DEF TakeJob
<1>2. copy[w].pruned = {}
  BY <1>1 DEF Owns, Pruning
<1>3. c \in Copies /\ c.pruned = {}
  BY <1>1, <1>2 DEF Copies
<1>4. CASE Lockable(own) /\ RoomForRun
  <2>1. RestTyped' /\ UNCHANGED artifactTables
    BY <1>1, <1>4 DEF RestTyped, TakeJob
  <2>2. CopyStep(w, c, "create")
    BY <1>1, <1>3, <1>4 DEF CopyStep, TakeJob, Proceed, Labels
  <2> QED
    BY <1>3, <2>1, <2>2, PlainStep DEF Owning, Making, Pruning, Attempting
<1>5. CASE ~(Lockable(own) /\ RoomForRun)
  <2>1. RestTyped' /\ UNCHANGED artifactTables
    BY <1>1, <1>5 DEF RestTyped, TakeJob
  <2>2. CopyStep(w, copy[w], "idle")
    BY <1>1, <1>5, Stay DEF CopyStep, TakeJob, Proceed, Labels
  <2> QED
    BY <1>2, <2>1, <2>2, PlainStep DEF Owning, Making, Pruning, Attempting
<1> QED
  BY <1>4, <1>5

LEMMA RequestKeeps ==
  ASSUME BackupInv, NEW w \in Workers, Request(w)
  PROVE  BackupInv'
<1> DEFINE c == [copy[w] EXCEPT !.for = "request"]
<1>1. /\ RestTyped /\ copy[w] \in Copies /\ stage[w] = "idle"
      /\ Owns(artifacts, linked, files, stage[w], copy[w])
      /\ copy \in [Workers -> Copies]
  BY Known DEF Request
<1>2. c \in Copies /\ c.pruned = {}
  BY <1>1 DEF Copies, Owns, Pruning
<1>3. RestTyped' /\ UNCHANGED artifactTables
  BY <1>1 DEF RestTyped, Request
<1>4. CopyStep(w, c, "create")
  BY <1>1, <1>2 DEF CopyStep, Request, Proceed, Labels
<1> QED
  BY <1>2, <1>3, <1>4, PlainStep DEF Owning, Making, Pruning, Attempting

-----------------------------------------------------------------------------
(* The run. *)

LEMMA CreateRunKeeps ==
  ASSUME BackupInv, NEW w \in Workers, NEW r \in Runs, CreateRun(w, r)
  PROVE  BackupInv'
<1> DEFINE c == [copy[w] EXCEPT !.run = r, !.attempt = 1]
<1>1. /\ RestTyped /\ copy[w] \in Copies /\ stage[w] = "create"
      /\ Owns(artifacts, linked, files, stage[w], copy[w])
      /\ copy \in [Workers -> Copies]
  BY Known DEF CreateRun
<1>2. c \in Copies /\ c.pruned = {} /\ c.run = r /\ c.attempt = 1
  BY <1>1 DEF Copies, Owns, Pruning
<1>3. runs' \in [Runs -> RunRows]
  BY <1>1, RowTyped DEF CreateRun, RestTyped, Statuses
<1>4. RestTyped' /\ UNCHANGED artifactTables
  BY <1>1, <1>3 DEF RestTyped, CreateRun
<1>5. CopyStep(w, c, "begin")
  BY <1>1, <1>2 DEF CopyStep, CreateRun, Proceed, Labels
<1>6. 1 \in 0 .. AttemptLimit
  BY JobAssumption DEF AttemptLimit
<1> HIDE DEF c
<1> QED
  BY <1>2, <1>4, <1>5, <1>6, PlainStep DEF Owning, Making, Pruning, Attempting

LEMMA LoadRunKeeps ==
  ASSUME BackupInv, NEW w \in Workers, LoadRun(w)
  PROVE  BackupInv'
<1> DEFINE attempt == runs[copy[w].run].attempt + 1
           c == [copy[w] EXCEPT !.attempt = attempt]
           label == IF attempt <= AttemptLimit THEN "begin" ELSE "leave"
<1>1. /\ RestTyped /\ copy[w] \in Copies /\ stage[w] = "load"
      /\ Owns(artifacts, linked, files, stage[w], copy[w])
      /\ copy \in [Workers -> Copies]
  BY Known DEF LoadRun
<1>2. copy[w].run \in Runs /\ copy[w].pruned = {}
  BY <1>1 DEF Owns, Pruning
<1>3. runs[copy[w].run].attempt \in 0 .. AttemptLimit
  BY <1>1, <1>2, RowFields DEF RestTyped
<1>4. attempt \in Nat /\ (label = "begin" => attempt \in 0 .. AttemptLimit)
  BY <1>3, JobAssumption DEF AttemptLimit
<1>5. /\ c \in Copies /\ c.pruned = {} /\ c.run = copy[w].run
      /\ c.attempt = attempt
  <2> HIDE DEF attempt
  <2> QED
    BY <1>1, <1>2, <1>4 DEF Copies
<1>6. RestTyped' /\ UNCHANGED artifactTables
  BY <1>1 DEF RestTyped, LoadRun
<1>7. CopyStep(w, c, label)
  BY <1>1, <1>5 DEF CopyStep, LoadRun, Proceed, Labels
<1>8. label \in {"begin", "leave"}
  OBVIOUS
<1> HIDE DEF c, label, attempt
<1> QED
  BY <1>2, <1>4, <1>5, <1>6, <1>7, <1>8, PlainStep
  DEF Owning, Making, Pruning, Attempting

LEMMA BeginAttemptKeeps ==
  ASSUME BackupInv, NEW w \in Workers, BeginAttempt(w)
  PROVE  BackupInv'
<1> DEFINE row == runs[copy[w].run]
           s == IF copy[w].attempt = 1 THEN "RUNNING" ELSE "RETRYING"
<1>1. /\ RestTyped /\ copy[w] \in Copies /\ stage[w] = "begin"
      /\ Owns(artifacts, linked, files, stage[w], copy[w])
  BY Known DEF BeginAttempt
<1>2. /\ copy[w].run \in Runs /\ copy[w].pruned = {}
      /\ copy[w].attempt \in 0 .. AttemptLimit
  BY <1>1 DEF Owns, Pruning
<1>3. runs' \in [Runs -> RunRows]
  <2>1. row \in RunRows /\ s \in Statuses
    BY <1>1, <1>2 DEF RestTyped, Statuses
  <2>2. [row EXCEPT !.status = s, !.attempt = copy[w].attempt] \in RunRows
    BY <2>1, <1>2 DEF RunRows
  <2>3. runs' = [runs EXCEPT ![copy[w].run] =
                   [row EXCEPT !.status = s, !.attempt = copy[w].attempt]]
    BY <1>1, <1>2 DEF BeginAttempt, RestTyped
  <2> QED
    BY <1>1, <1>2, <2>2, <2>3 DEF RestTyped
<1>4. RestTyped' /\ UNCHANGED artifactTables
  BY <1>1, <1>3 DEF RestTyped, BeginAttempt
<1>5. CopyStep(w, copy[w], "insert")
  BY <1>1, Stay DEF CopyStep, BeginAttempt, Proceed, Labels, Attempting
<1> QED
  BY <1>2, <1>4, <1>5, PlainStep DEF Owning, Making, Pruning

LEMMA SucceedKeeps ==
  ASSUME BackupInv, NEW w \in Workers, Succeed(w)
  PROVE  BackupInv'
<1> DEFINE a == copy[w].artifact
           row == runs[copy[w].run]
           label == IF artifacts[a] = "deleted" THEN "catch" ELSE "reschedule"
<1>1. /\ RestTyped /\ copy[w] \in Copies /\ stage[w] = "success"
      /\ Owns(artifacts, linked, files, stage[w], copy[w])
  BY Known DEF Succeed
<1>2. copy[w].run \in Runs /\ copy[w].pruned = {} /\ a \in Numbers \cup {0}
  BY <1>1, CopyFields DEF Owns, Pruning, Attempting
<1>3. runs' \in [Runs -> RunRows]
  <2>1. row \in RunRows /\ "SUCCESS" \in Statuses
    BY <1>1, <1>2 DEF RestTyped, Statuses
  <2>2. [row EXCEPT !.status = "SUCCESS", !.artifact = a] \in RunRows
    BY <2>1, <1>2 DEF RunRows
  <2>3. \/ runs' = runs
        \/ runs' = [runs EXCEPT ![copy[w].run] =
                      [row EXCEPT !.status = "SUCCESS", !.artifact = a]]
    BY <1>1, <1>2 DEF Succeed, RestTyped
  <2> QED
    BY <1>1, <1>2, <2>2, <2>3 DEF RestTyped
<1>4. RestTyped' /\ UNCHANGED artifactTables
  BY <1>1, <1>3 DEF RestTyped, Succeed
<1>5. CopyStep(w, copy[w], label)
  BY <1>1, Stay DEF CopyStep, Succeed, Proceed, Labels, Attempting
<1> QED
  BY <1>2, <1>4, <1>5, PlainStep DEF Owning, Making, Pruning

LEMMA RescheduleKeeps ==
  ASSUME BackupInv, NEW w \in Workers, Reschedule(w)
  PROVE  BackupInv'
<1>1. /\ RestTyped /\ copy[w] \in Copies /\ stage[w] = "reschedule"
      /\ Owns(artifacts, linked, files, stage[w], copy[w])
  BY Known DEF Reschedule
<1>2. copy[w].run \in Runs /\ copy[w].pruned = {}
  BY <1>1 DEF Owns, Pruning, Attempting
<1>3. RestTyped' /\ UNCHANGED artifactTables
  BY <1>1 DEF RestTyped, Reschedule
<1>4. CopyStep(w, copy[w], "retain")
  BY <1>1, Stay DEF CopyStep, Reschedule, Proceed, Labels, Attempting
<1> QED
  BY <1>2, <1>3, <1>4, PlainStep DEF Owning, Making, Pruning

-----------------------------------------------------------------------------
(* The artifact. *)

LEMMA InsertArtifactKeeps ==
  ASSUME BackupInv, NEW w \in Workers, NEW a \in Numbers, InsertArtifact(w, a)
  PROVE  BackupInv'
<1> DEFINE c == [copy[w] EXCEPT !.artifact = a]
<1>1. /\ RestTyped /\ ArtifactsTyped /\ Stored(artifacts, linked, files)
      /\ copy[w] \in Copies /\ stage[w] = "insert" /\ copy \in [Workers -> Copies]
      /\ Owns(artifacts, linked, files, stage[w], copy[w])
      /\ artifacts[a] = "none"
  BY Known DEF InsertArtifact
<1>2. /\ c \in Copies /\ c.pruned = {} /\ c.run \in Runs /\ c.artifact = a
  BY <1>1 DEF Copies, Owns, Attempting, Pruning
<1>3. /\ artifacts' = [artifacts EXCEPT ![a] = "RUNNING"]
      /\ linked' = linked /\ files' = files
  BY DEF InsertArtifact
<1>4. RestTyped' /\ ArtifactsTyped'
  BY <1>1, <1>3 DEF RestTyped, ArtifactsTyped, InsertArtifact
<1>5. CopyStep(w, c, "store")
  BY <1>1, <1>2 DEF CopyStep, InsertArtifact, Proceed, Labels, Attempting
<1>6. \A b \in Numbers \ {a} : artifacts'[b] = artifacts[b]
  BY <1>1, <1>3 DEF ArtifactsTyped
<1>7. a \notin linked
  BY <1>1 DEF Stored
<1>8. Stored(artifacts', linked', files')
  BY <1>1, <1>3, <1>6, <1>7 DEF Stored, ArtifactsTyped
<1>9. Owns(artifacts', linked', files', "store", c)
  BY <1>1, <1>2, <1>3 DEF Owns, Pruning, Making, ArtifactsTyped
<1>10. ASSUME NEW v \in Workers \ {w}
       PROVE  /\ Owns(artifacts', linked', files', stage[v], copy[v])
              /\ Exclusive(stage[v], copy[v], "store", c)
  <2>1. Owns(artifacts, linked, files, stage[v], copy[v])
    BY Known
  <2>2. stage[v] \in Owning =>
          copy[v].artifact \in Numbers /\ artifacts[copy[v].artifact] # "none"
    BY <2>1 DEF Owns, Pruning, Owning, Making
  <2>3. stage[v] \in Owning => copy[v].artifact # a
    BY <1>1, <2>2
  <2>4. Owns(artifacts', linked', files', stage[v], copy[v])
    BY <1>3, <1>6, <2>1, <2>2, <2>3 DEF Owns, Pruning, Owning, Making
  <2>5. Exclusive(stage[v], copy[v], "store", c)
    BY <1>2, <2>3 DEF Exclusive, Pruning
  <2> QED
    BY <2>4, <2>5
<1> HIDE DEF c
<1> QED
  BY <1>4, <1>5, <1>8, <1>9, <1>10, WorkerStep

LEMMA StoreArchiveKeeps ==
  ASSUME BackupInv, NEW w \in Workers, StoreArchive(w)
  PROVE  BackupInv'
<1>1. /\ RestTyped /\ ArtifactsTyped /\ Stored(artifacts, linked, files)
      /\ copy[w] \in Copies /\ stage[w] = "store"
      /\ Owns(artifacts, linked, files, stage[w], copy[w])
  BY Known DEF StoreArchive
<1>2. /\ artifacts' = artifacts /\ linked' = linked
      /\ files' = files \cup {copy[w].artifact}
  BY DEF StoreArchive
<1>3. copy[w].artifact \in Numbers
  BY <1>1 DEF Owns, Pruning, Making
<1>4. RestTyped' /\ ArtifactsTyped'
  BY <1>1, <1>2, <1>3 DEF RestTyped, ArtifactsTyped, StoreArchive
<1>5. CopyStep(w, copy[w], "complete")
  BY <1>1, Stay DEF CopyStep, StoreArchive, Proceed, Labels, Attempting
<1>6. Stored(artifacts', linked', files')
  BY <1>1, <1>2 DEF Stored
<1>7. Owns(artifacts', linked', files', "complete", copy[w])
  BY <1>1, <1>2 DEF Owns, Pruning, Making, Attempting
<1>8. ASSUME NEW v \in Workers \ {w}
      PROVE  /\ Owns(artifacts', linked', files', stage[v], copy[v])
             /\ Exclusive(stage[v], copy[v], "complete", copy[w])
  <2>1. /\ Owns(artifacts, linked, files, stage[v], copy[v])
        /\ Exclusive(stage[v], copy[v], stage[w], copy[w])
    BY Known
  <2>2. Owns(artifacts', linked', files', stage[v], copy[v])
    BY <1>2, <2>1 DEF Owns, Pruning
  <2>3. Exclusive(stage[v], copy[v], "complete", copy[w])
    BY <1>1, <2>1 DEF Exclusive, Owning, Making, Pruning
  <2> QED
    BY <2>2, <2>3
<1> QED
  BY <1>4, <1>5, <1>6, <1>7, <1>8, WorkerStep

LEMMA CompleteArtifactKeeps ==
  ASSUME BackupInv, NEW w \in Workers, CompleteArtifact(w)
  PROVE  BackupInv'
<1> DEFINE a == copy[w].artifact
<1>1. /\ RestTyped /\ ArtifactsTyped /\ Stored(artifacts, linked, files)
      /\ copy[w] \in Copies /\ stage[w] = "complete"
      /\ Owns(artifacts, linked, files, stage[w], copy[w])
  BY Known DEF CompleteArtifact
<1>2. /\ artifacts' = [artifacts EXCEPT ![a] = "COMPLETED"]
      /\ linked' = linked /\ files' = files
  BY DEF CompleteArtifact
<1>3. a \in Numbers /\ artifacts[a] = "RUNNING" /\ a \in files
  BY <1>1 DEF Owns, Pruning, Making
<1>4. RestTyped' /\ ArtifactsTyped'
  BY <1>1, <1>2, <1>3 DEF RestTyped, ArtifactsTyped, CompleteArtifact
<1>5. CopyStep(w, copy[w], "link")
  BY <1>1, Stay DEF CopyStep, CompleteArtifact, Proceed, Labels, Attempting
<1>6. a \notin linked
  BY <1>1, <1>3 DEF Stored
<1>7. /\ artifacts'[a] = "COMPLETED"
      /\ \A b \in Numbers \ {a} : artifacts'[b] = artifacts[b]
  BY <1>1, <1>2, <1>3 DEF ArtifactsTyped
<1>8. Stored(artifacts', linked', files')
  BY <1>1, <1>2, <1>6, <1>7 DEF Stored, ArtifactsTyped
<1>9. Owns(artifacts', linked', files', "link", copy[w])
  BY <1>1, <1>2, <1>3, <1>6, <1>7 DEF Owns, Pruning, Making, Attempting
<1>10. ASSUME NEW v \in Workers \ {w}
       PROVE  /\ Owns(artifacts', linked', files', stage[v], copy[v])
              /\ Exclusive(stage[v], copy[v], "link", copy[w])
  <2>1. /\ Owns(artifacts, linked, files, stage[v], copy[v])
        /\ Exclusive(stage[v], copy[v], stage[w], copy[w])
    BY Known
  <2>2. stage[v] \in Owning => copy[v].artifact \in Numbers \ {a}
    BY <1>1, <2>1 DEF Owns, Pruning, Exclusive, Owning, Making
  <2>3. Owns(artifacts', linked', files', stage[v], copy[v])
    BY <1>2, <1>7, <2>1, <2>2 DEF Owns, Pruning, Owning, Making
  <2>4. Exclusive(stage[v], copy[v], "link", copy[w])
    BY <2>2 DEF Exclusive, Pruning
  <2> QED
    BY <2>3, <2>4
<1> HIDE DEF a
<1> QED
  BY <1>4, <1>5, <1>8, <1>9, <1>10, WorkerStep

LEMMA FailArtifactKeeps ==
  ASSUME BackupInv, NEW w \in Workers, FailArtifact(w)
  PROVE  BackupInv'
<1> DEFINE a == copy[w].artifact
<1>1. /\ RestTyped /\ ArtifactsTyped /\ Stored(artifacts, linked, files)
      /\ copy[w] \in Copies /\ stage[w] = "failArtifact"
      /\ Owns(artifacts, linked, files, stage[w], copy[w])
  BY Known DEF FailArtifact
<1>2. /\ artifacts' = [artifacts EXCEPT ![a] = "FAILED"]
      /\ linked' = linked /\ files' = files
  BY DEF FailArtifact
<1>3. a \in Numbers /\ artifacts[a] = "RUNNING"
  BY <1>1 DEF Owns, Pruning, Making
<1>4. RestTyped' /\ ArtifactsTyped'
  BY <1>1, <1>2, <1>3 DEF RestTyped, ArtifactsTyped, FailArtifact
<1>5. CopyStep(w, copy[w], "catch")
  BY <1>1, Stay DEF CopyStep, FailArtifact, Proceed, Labels, Attempting
<1>6. a \notin linked /\ \A b \in Numbers \ {a} : artifacts'[b] = artifacts[b]
  BY <1>1, <1>2, <1>3 DEF Stored, ArtifactsTyped
<1>7. Stored(artifacts', linked', files')
  BY <1>1, <1>2, <1>6 DEF Stored, ArtifactsTyped
<1>8. Owns(artifacts', linked', files', "catch", copy[w])
  BY <1>1 DEF Owns, Pruning, Making, Attempting
<1>9. ASSUME NEW v \in Workers \ {w}
      PROVE  /\ Owns(artifacts', linked', files', stage[v], copy[v])
             /\ Exclusive(stage[v], copy[v], "catch", copy[w])
  <2>1. /\ Owns(artifacts, linked, files, stage[v], copy[v])
        /\ Exclusive(stage[v], copy[v], stage[w], copy[w])
    BY Known
  <2>2. stage[v] \in Owning => copy[v].artifact \in Numbers \ {a}
    BY <1>1, <2>1 DEF Owns, Pruning, Exclusive, Owning, Making
  <2>3. Owns(artifacts', linked', files', stage[v], copy[v])
    BY <1>2, <1>6, <2>1, <2>2 DEF Owns, Pruning, Owning, Making
  <2>4. Exclusive(stage[v], copy[v], "catch", copy[w])
    BY DEF Exclusive, Owning, Making, Pruning
  <2> QED
    BY <2>3, <2>4
<1> HIDE DEF a
<1> QED
  BY <1>4, <1>5, <1>7, <1>8, <1>9, WorkerStep

LEMMA LinkArtifactKeeps ==
  ASSUME BackupInv, NEW w \in Workers, LinkArtifact(w)
  PROVE  BackupInv'
<1> DEFINE a == copy[w].artifact
<1>1. /\ RestTyped /\ ArtifactsTyped /\ Stored(artifacts, linked, files)
      /\ copy[w] \in Copies /\ stage[w] = "link"
      /\ Owns(artifacts, linked, files, stage[w], copy[w])
  BY Known DEF LinkArtifact
<1>2. linked' = linked \cup {a} /\ artifacts' = artifacts /\ files' = files
  BY DEF LinkArtifact
<1>3. a \in Numbers /\ artifacts[a] = "COMPLETED" /\ a \in files
  BY <1>1 DEF Owns, Pruning
<1>4. RestTyped' /\ ArtifactsTyped'
  BY <1>1, <1>2, <1>3 DEF RestTyped, ArtifactsTyped, LinkArtifact
<1>5. CopyStep(w, copy[w], "success")
  BY <1>1, Stay DEF CopyStep, LinkArtifact, Proceed, Labels, Attempting
<1>6. ASSUME NEW b \in linked, Spare(linked, b)
      PROVE  Spare(linked', b)
  <2>1. linked \in SUBSET Numbers /\ linked' \in SUBSET Numbers
    BY <1>1, <1>4 DEF ArtifactsTyped
  <2>2. {n \in linked : n > b} \subseteq {n \in linked' : n > b}
    BY <1>2
  <2> QED
    BY <1>6, <2>1, <2>2, SpareGrows
<1>7. Stored(artifacts', linked', files')
  BY <1>1, <1>2, <1>3, <1>6 DEF Stored
<1>8. Owns(artifacts', linked', files', "success", copy[w])
  BY <1>1 DEF Owns, Pruning, Making, Attempting
<1>9. ASSUME NEW v \in Workers \ {w}
      PROVE  /\ Owns(artifacts', linked', files', stage[v], copy[v])
             /\ Exclusive(stage[v], copy[v], "success", copy[w])
  <2>1. /\ Owns(artifacts, linked, files, stage[v], copy[v])
        /\ Exclusive(stage[v], copy[v], stage[w], copy[w])
    BY Known
  <2>2. stage[v] = "link" => copy[v].artifact # a
    BY <1>1, <2>1 DEF Exclusive, Owning, Making, Pruning
  <2>3. Owns(artifacts', linked', files', stage[v], copy[v])
    BY <1>2, <1>6, <2>1, <2>2 DEF Owns, Pruning
  <2>4. Exclusive(stage[v], copy[v], "success", copy[w])
    BY DEF Exclusive, Owning, Making, Pruning
  <2> QED
    BY <2>3, <2>4
<1> HIDE DEF a
<1> QED
  BY <1>4, <1>5, <1>7, <1>8, <1>9, WorkerStep

-----------------------------------------------------------------------------
(* Retention. *)

LEMMA BeginRetentionKeeps ==
  ASSUME BackupInv, NEW w \in Workers, BeginRetention(w)
  PROVE  BackupInv'
<1> DEFINE todo == {a \in Surplus \ Protected : artifacts[a] = "COMPLETED"}
           c == [copy[w] EXCEPT !.todo = todo]
<1>1. /\ RestTyped /\ ArtifactsTyped /\ copy[w] \in Copies /\ stage[w] = "retain"
      /\ Owns(artifacts, linked, files, stage[w], copy[w])
      /\ copy \in [Workers -> Copies]
  BY Known DEF BeginRetention
<1>2. \A a \in todo : a \in linked /\ Spare(linked, a)
  BY DEF Surplus, Newer, Spare
<1>3. todo \in SUBSET Numbers
  BY <1>1, <1>2 DEF ArtifactsTyped
<1>4. CopyStep(w, c, "prune")
  BY <1>1, <1>3 DEF CopyStep, BeginRetention, Proceed, Labels, Attempting, Copies
<1>5. RestTyped' /\ UNCHANGED artifactTables
  BY <1>1 DEF RestTyped, BeginRetention
<1>6. copy[w].run \in Runs /\ copy[w].pruned = {}
  BY <1>1 DEF Owns, Pruning, Attempting
<1>7. c.run = copy[w].run /\ c.pruned = {} /\ c.todo = todo
  BY <1>1, <1>6 DEF Copies
<1> HIDE DEF c, todo
<1>8. Owns(artifacts, linked, files, "prune", c)
  BY <1>2, <1>6, <1>7 DEF Owns, Pruning, Making
<1>9. \A v \in Workers \ {w} : stage[v] \notin Pruning
  BY DEF BeginRetention
<1> QED
  BY <1>4, <1>5, <1>8, <1>9, LocalStep DEF Owning, Making, Pruning

\* What may happen to an artifact that is to be deleted: its archive goes or
\* not, and it is noted or not.
LEMMA PruningKeeps ==
  ASSUME BackupInv, NEW w \in Workers, NEW a, stage[w] \in Pruning,
         a \in copy[w].todo, NEW c \in Copies, NEW label \in Pruning,
         CopyStep(w, c, label), c.run = copy[w].run,
         c.todo \cup c.pruned \subseteq copy[w].todo \cup copy[w].pruned,
         RestTyped', artifacts' = artifacts, linked' = linked,
         files' \in {files, files \ {a}}
  PROVE  BackupInv'
<1>1. /\ ArtifactsTyped /\ Stored(artifacts, linked, files)
      /\ Owns(artifacts, linked, files, stage[w], copy[w])
  BY Known
<1>2. a \in linked /\ Spare(linked, a)
  BY <1>1 DEF Owns
<1>3. ArtifactsTyped'
  BY <1>1 DEF ArtifactsTyped
<1>4. Stored(artifacts', linked', files')
  BY <1>1, <1>2 DEF Stored
<1>5. Owns(artifacts', linked', files', label, c)
  BY <1>1 DEF Owns, Making, Pruning, Attempting
<1>6. ASSUME NEW v \in Workers \ {w}
      PROVE  /\ Owns(artifacts', linked', files', stage[v], copy[v])
             /\ Exclusive(stage[v], copy[v], label, c)
  <2>1. /\ Owns(artifacts, linked, files, stage[v], copy[v])
        /\ Exclusive(stage[v], copy[v], stage[w], copy[w])
    BY Known
  <2>2. stage[v] \in {"complete", "link"} => copy[v].artifact # a
    BY <1>1, <1>2, <2>1 DEF Owns, Making, Stored
  <2>3. Owns(artifacts', linked', files', stage[v], copy[v])
    BY <2>1, <2>2 DEF Owns
  <2>4. Exclusive(stage[v], copy[v], label, c)
    BY <2>1 DEF Exclusive, Owning, Making, Pruning
  <2> QED
    BY <2>3, <2>4
<1> QED
  BY <1>3, <1>4, <1>5, <1>6, WorkerStep

LEMMA PruneKeeps ==
  ASSUME BackupInv, NEW w \in Workers, NEW a \in Numbers, Prune(w, a)
  PROVE  BackupInv'
<1> DEFINE c == [copy[w] EXCEPT !.todo = @ \ {a}, !.pruned = @ \cup {a}]
<1>1. /\ RestTyped /\ copy[w] \in Copies /\ stage[w] \in Pruning
      /\ copy \in [Workers -> Copies] /\ a \in copy[w].todo
  BY Known DEF Prune
<1>2. /\ c \in Copies /\ c.run = copy[w].run
      /\ c.todo \cup c.pruned = copy[w].todo \cup copy[w].pruned
  BY <1>1 DEF Copies
<1>3. CopyStep(w, c, stage[w])
  BY <1>1, <1>2, Stay DEF CopyStep, Prune, Labels, Attempting, Pruning
<1>4. /\ RestTyped' /\ artifacts' = artifacts /\ linked' = linked
      /\ files' = files \ {a}
  BY <1>1 DEF RestTyped, Prune
<1> HIDE DEF c
<1> QED
  BY <1>1, <1>2, <1>3, <1>4, PruningKeeps

LEMMA PruneFailsKeeps ==
  ASSUME BackupInv, NEW w \in Workers, NEW a \in Numbers, PruneFails(w, a)
  PROVE  BackupInv'
<1> DEFINE c == [copy[w] EXCEPT !.todo = @ \ {a}]
<1>1. /\ RestTyped /\ copy[w] \in Copies /\ stage[w] \in Pruning
      /\ copy \in [Workers -> Copies] /\ a \in copy[w].todo
  BY Known DEF PruneFails
<1>2. /\ c \in Copies /\ c.run = copy[w].run
      /\ c.todo \cup c.pruned \subseteq copy[w].todo \cup copy[w].pruned
  BY <1>1 DEF Copies
<1>3. PICK label \in Pruning : CopyStep(w, c, label)
  <2>1. CopyStep(w, c, stage[w]) \/ CopyStep(w, c, "rollback")
    BY <1>1, <1>2, Stay DEF CopyStep, PruneFails, Proceed, Labels, Attempting, Pruning
  <2> QED
    BY <1>1, <2>1 DEF Pruning
<1>4. /\ RestTyped' /\ artifacts' = artifacts /\ linked' = linked
      /\ files' \in {files, files \ {a}}
  BY <1>1, JobAssumption DEF RestTyped, PruneFails, Trouble
<1> HIDE DEF c
<1> QED
  BY <1>1, <1>2, <1>3, <1>4, PruningKeeps

LEMMA CommitRetentionKeeps ==
  ASSUME BackupInv, NEW w \in Workers, CommitRetention(w)
  PROVE  BackupInv'
<1> DEFINE gone == IF stage[w] = "prune" THEN copy[w].pruned ELSE {}
<1>1. /\ RestTyped /\ ArtifactsTyped /\ Stored(artifacts, linked, files)
      /\ copy[w] \in Copies /\ stage[w] \in Pruning
      /\ Owns(artifacts, linked, files, stage[w], copy[w])
  BY Known DEF CommitRetention
<1>2. /\ artifacts' = [a \in Numbers |-> IF a \in gone THEN "deleted" ELSE artifacts[a]]
      /\ linked' = linked \ gone /\ files' = files
  BY DEF CommitRetention
<1>3. gone \in SUBSET linked /\ \A g \in gone : Spare(linked, g)
  BY <1>1 DEF Owns, Pruning
<1>4. runs' \in [Runs -> RunRows]
  <2>1. ASSUME NEW r \in Runs
        PROVE  runs[r] \in RunRows /\ [runs[r] EXCEPT !.artifact = 0] \in RunRows
    BY <1>1, RowFields DEF RestTyped
  <2> QED
    BY <2>1 DEF CommitRetention
<1>5. RestTyped' /\ ArtifactsTyped'
  BY <1>1, <1>2, <1>4 DEF RestTyped, ArtifactsTyped, CommitRetention
<1>6. CopyStep(w, copy[w], "leave")
  BY <1>1, Stay DEF CopyStep, CommitRetention, Proceed, Labels
<1>7. linked \in SUBSET Numbers /\ \A a \in Numbers \ gone : artifacts'[a] = artifacts[a]
  BY <1>1, <1>2 DEF ArtifactsTyped
<1>8. Stored(artifacts', linked', files')
  <2> SUFFICES ASSUME NEW a \in linked \ gone
               PROVE  /\ artifacts'[a] = "COMPLETED"
                      /\ a \notin files => Spare(linked \ gone, a)
    BY <1>2 DEF Stored
  <2>1. artifacts[a] = "COMPLETED" /\ (a \notin files => Spare(linked, a))
    BY <1>1 DEF Stored
  <2>2. Spare(linked, a) => Spare(linked \ gone, a)
    <3> HIDE DEF gone
    <3> QED
      BY <1>3, <1>7, SpareRemains
  <2> QED
    BY <1>7, <2>1, <2>2
<1>9. Owns(artifacts', linked', files', "leave", copy[w])
  BY DEF Owns, Pruning, Making, Attempting
<1>10. ASSUME NEW v \in Workers \ {w}
       PROVE  /\ Owns(artifacts', linked', files', stage[v], copy[v])
              /\ Exclusive(stage[v], copy[v], "leave", copy[w])
  <2>1. /\ Owns(artifacts, linked, files, stage[v], copy[v])
        /\ Exclusive(stage[v], copy[v], stage[w], copy[w])
    BY Known
  <2>2. stage[v] \notin Pruning
    BY <1>1, <2>1 DEF Exclusive, Pruning
  <2>3. stage[v] \in Owning => copy[v].artifact \in Numbers \ gone
    BY <1>1, <1>3, <2>1 DEF Owns, Pruning, Owning, Making, Stored
  <2>4. Owns(artifacts', linked', files', stage[v], copy[v])
    BY <1>2, <1>7, <2>1, <2>2, <2>3 DEF Owns, Pruning, Owning, Making
  <2>5. Exclusive(stage[v], copy[v], "leave", copy[w])
    BY DEF Exclusive, Owning, Making, Pruning
  <2> QED
    BY <2>4, <2>5
<1> HIDE DEF gone
<1> QED
  BY <1>5, <1>6, <1>8, <1>9, <1>10, WorkerStep

-----------------------------------------------------------------------------
(* Failure. *)

LEMMA ThrowKeeps ==
  ASSUME BackupInv, NEW w \in Workers, Throw(w)
  PROVE  BackupInv'
<1> DEFINE label == CASE stage[w] \in {"store", "complete"} -> "failArtifact"
                      [] stage[w] \in {"catch", "giveUp"}   -> "leave"
                      [] OTHER                           -> "catch"
           c == [copy[w] EXCEPT !.todo = {}, !.pruned = {}]
<1>1. /\ RestTyped /\ copy[w] \in Copies /\ stage[w] \in Attempting
      /\ Owns(artifacts, linked, files, stage[w], copy[w])
      /\ copy \in [Workers -> Copies]
  BY Known DEF Throw
<1>2. /\ c \in Copies /\ c.run = copy[w].run /\ c.artifact = copy[w].artifact
      /\ c.pruned = {} /\ c.run \in Runs
  BY <1>1 DEF Copies, Owns, Pruning
<1>3. /\ label \in {"failArtifact", "leave", "catch"}
      /\ label = "failArtifact" => stage[w] \in {"store", "complete"}
  OBVIOUS
<1>4. CopyStep(w, c, label)
  <2>1. label \in Labels
    BY <1>3 DEF Labels, Attempting
  <2> QED
    BY <1>2, <2>1 DEF CopyStep, Throw, Proceed
<1>5. RestTyped' /\ UNCHANGED artifactTables
  BY <1>1, JobAssumption DEF RestTyped, Throw, Trouble
<1> HIDE DEF c, label
<1>6. Owns(artifacts, linked, files, label, c)
  BY <1>1, <1>2, <1>3 DEF Owns, Pruning, Making
<1> QED
  BY <1>2, <1>3, <1>4, <1>5, <1>6, LocalStep DEF Owning, Making, Pruning

LEMMA ScheduleRetryKeeps ==
  ASSUME BackupInv, NEW w \in Workers, ScheduleRetry(w)
  PROVE  BackupInv'
<1>1. /\ RestTyped /\ copy[w] \in Copies /\ stage[w] = "catch"
      /\ Owns(artifacts, linked, files, stage[w], copy[w])
  BY Known DEF ScheduleRetry
<1>2. copy[w].run \in Runs /\ copy[w].pruned = {}
  BY <1>1 DEF Owns, Pruning, Attempting
<1>3. runs' \in [Runs -> RunRows]
  BY <1>1, <1>2, RowTyped DEF ScheduleRetry, RestTyped, Statuses
<1>4. RestTyped' /\ UNCHANGED artifactTables
  BY <1>1, <1>3 DEF RestTyped, ScheduleRetry
<1>5. CopyStep(w, copy[w], "leave")
  BY <1>1, Stay DEF CopyStep, ScheduleRetry, Proceed, Labels
<1> QED
  BY <1>2, <1>4, <1>5, PlainStep DEF Owning, Making, Pruning, Attempting

LEMMA FailRunKeeps ==
  ASSUME BackupInv, NEW w \in Workers, NEW status \in {"FAILED", "EXHAUSTED_RETRIES"},
         FailRun(w, status)
  PROVE  BackupInv'
<1>1. /\ RestTyped /\ copy[w] \in Copies /\ stage[w] = "catch"
      /\ Owns(artifacts, linked, files, stage[w], copy[w])
  BY Known DEF FailRun
<1>2. copy[w].run \in Runs /\ copy[w].pruned = {}
  BY <1>1 DEF Owns, Pruning, Attempting
<1>3. runs' \in [Runs -> RunRows]
  BY <1>1, <1>2, RowTyped DEF FailRun, RestTyped, Statuses
<1>4. RestTyped' /\ UNCHANGED artifactTables
  BY <1>1, <1>3 DEF RestTyped, FailRun
<1>5. CopyStep(w, copy[w], "giveUp")
  BY <1>1, Stay DEF CopyStep, FailRun, Proceed, Labels, Attempting
<1> QED
  BY <1>2, <1>4, <1>5, PlainStep DEF Owning, Making, Pruning, Attempting

LEMMA GiveUpKeeps ==
  ASSUME BackupInv, NEW w \in Workers, GiveUp(w)
  PROVE  BackupInv'
<1>1. /\ RestTyped /\ copy[w] \in Copies /\ stage[w] = "giveUp"
      /\ Owns(artifacts, linked, files, stage[w], copy[w])
  BY Known DEF GiveUp
<1>2. RestTyped' /\ UNCHANGED artifactTables
  BY <1>1 DEF RestTyped, GiveUp
<1>3. CopyStep(w, copy[w], "leave")
  BY <1>1, Stay DEF CopyStep, GiveUp, Proceed, Labels
<1> QED
  BY <1>2, <1>3, PlainStep DEF Owning, Making, Pruning, Attempting

LEMMA LeaveKeeps ==
  ASSUME BackupInv, NEW w \in Workers, NEW own \in BOOLEAN, Leave(w, own)
  PROVE  BackupInv'
<1> DEFINE c == [Idle EXCEPT !.retries = copy[w].retries]
           label == IF copy[w].for = "retry" THEN "next" ELSE "idle"
<1>1. RestTyped /\ copy[w] \in Copies /\ stage[w] = "leave"
  BY Known DEF Leave
<1>2. c \in Copies /\ c.pruned = {}
  BY <1>1, CopyFields, IdleTyped DEF Copies, Idle
<1>3. lock' \in Nat
  BY <1>1 DEF Leave, AfterUnlock, RestTyped
<1>4. RestTyped' /\ UNCHANGED artifactTables
  BY <1>1, <1>3 DEF RestTyped, Leave
<1>5. label \in {"next", "idle"} /\ CopyStep(w, c, label)
  BY <1>2 DEF CopyStep, Leave, Proceed, Labels
<1> HIDE DEF c, label
<1> QED
  BY <1>2, <1>4, <1>5, PlainStep DEF Owning, Making, Pruning, Attempting

LEMMA CrashKeeps ==
  ASSUME BackupInv, Crash
  PROVE  BackupInv'
<1>1. BackupTypeOK /\ Stored(artifacts, linked, files)
  BY DEF BackupInv
<1>2. /\ artifacts' = artifacts /\ linked' = linked /\ files' = files
      /\ stage' = [w \in Workers |-> "idle"] /\ copy' = [w \in Workers |-> Idle]
  BY DEF Crash, artifactTables
<1>3. BackupTypeOK'
  BY <1>1, <1>2, IdleTyped, JobAssumption DEF BackupTypeOK, Crash, Trouble, Labels
<1>4. ASSUME NEW w \in Workers
      PROVE  /\ Owns(artifacts', linked', files', stage'[w], copy'[w])
             /\ \A v \in Workers \ {w} : Exclusive(stage'[v], copy'[v], stage'[w], copy'[w])
  BY <1>2, IdleTyped DEF Owns, Pruning, Exclusive, Owning, Making, Attempting
<1> QED
  BY <1>1, <1>2, <1>3, <1>4 DEF BackupInv, WorkerInv

\* The schedule, and the pool.
LEMMA OutsideKeeps ==
  ASSUME BackupInv, ComeDue \/ CloseSession \/ UNCHANGED backupVars
  PROVE  BackupInv'
<1>1. UNCHANGED <<artifacts, linked, files, stage, copy>>
  BY DEF ComeDue, CloseSession, backupVars, artifactTables
<1>2. BackupTypeOK
  BY DEF BackupInv
<1>3. due' \in BOOLEAN /\ lock' \in Nat /\ UNCHANGED <<runs, trouble>>
  <2>1. due \in BOOLEAN /\ lock \in Nat
    BY <1>2 DEF BackupTypeOK
  <2>2. CASE ComeDue
    <3>1. due' = TRUE /\ UNCHANGED <<runs, lock, trouble>>
      BY <2>2 DEF ComeDue
    <3> QED
      BY <2>1, <3>1
  <2>3. CASE CloseSession
    <3>1. lock' = 0 /\ UNCHANGED <<due, runs, trouble>>
      BY <2>3 DEF CloseSession
    <3> QED
      BY <2>1, <3>1
  <2>4. CASE UNCHANGED backupVars
    <3>1. UNCHANGED <<due, runs, lock, trouble>>
      BY <2>4 DEF backupVars
    <3> QED
      BY <2>1, <3>1
  <2> QED
    BY <2>2, <2>3, <2>4
<1>4. BackupTypeOK'
  BY <1>1, <1>2, <1>3 DEF BackupTypeOK
<1> QED
  BY <1>1, <1>4 DEF BackupInv, WorkerInv

-----------------------------------------------------------------------------

LEMMA InitInv == BackupInit => BackupInv
<1> SUFFICES ASSUME BackupInit PROVE BackupInv
  OBVIOUS
<1>1. linked \in SUBSET Numbers
  BY JobAssumption DEF BackupInit, Numbers
<1>2. runs \in [Runs -> RunRows]
  BY JobAssumption DEF BackupInit, RunRows, Failed, Unused, Statuses, AttemptLimit, Numbers
<1>3. BackupTypeOK
  <2>1. /\ artifacts \in [Numbers -> {"none", "RUNNING", "COMPLETED", "FAILED", "deleted"}]
        /\ files \in SUBSET Numbers
    BY <1>1 DEF BackupInit
  <2>2. stage \in [Workers -> Labels] /\ copy \in [Workers -> Copies]
    BY IdleTyped DEF BackupInit, Labels
  <2>3. lock \in Nat /\ trouble \in 0 .. MaxTrouble
    BY JobAssumption DEF BackupInit
  <2>4. due \in BOOLEAN
    BY Zenon DEF BackupInit
  <2> QED
    BY <1>1, <1>2, <2>1, <2>2, <2>3, <2>4 DEF BackupTypeOK, RunRows
<1>4. Stored(artifacts, linked, files)
  BY <1>1, JobAssumption DEF BackupInit, Stored, Numbers
<1>5. ASSUME NEW w \in Workers
      PROVE  /\ Owns(artifacts, linked, files, stage[w], copy[w])
             /\ \A v \in Workers \ {w} : Exclusive(stage[v], copy[v], stage[w], copy[w])
  BY IdleTyped DEF BackupInit, Owns, Exclusive, Owning, Making, Pruning, Attempting
<1> QED
  BY <1>3, <1>4, <1>5 DEF BackupInv, WorkerInv

LEMMA NextInv == BackupInv /\ [BackupNext]_backupVars => BackupInv'
<1> SUFFICES ASSUME BackupInv, [BackupNext]_backupVars PROVE BackupInv'
  OBVIOUS
<1>1. ASSUME NEW w \in Workers, Continue(w) PROVE BackupInv'
  <2>1. CASE \E waiting \in SUBSET Runs : SelectRetries(w, waiting)
    BY <2>1, SelectRetriesKeeps
  <2>2. CASE \E r \in Runs, own \in BOOLEAN : TakeRetry(w, r, own)
    BY <2>2, TakeRetryKeeps
  <2>3. CASE SelectJob(w) \/ \E own \in BOOLEAN : TakeJob(w, own)
    BY <2>3, SelectJobKeeps, TakeJobKeeps
  <2>4. CASE (\E r \in Runs : CreateRun(w, r)) \/ LoadRun(w) \/ BeginAttempt(w)
    BY <2>4, CreateRunKeeps, LoadRunKeeps, BeginAttemptKeeps
  <2>5. CASE \E a \in Numbers : InsertArtifact(w, a)
    BY <2>5, InsertArtifactKeeps
  <2>6. CASE StoreArchive(w) \/ CompleteArtifact(w) \/ FailArtifact(w)
    BY <2>6, StoreArchiveKeeps, CompleteArtifactKeeps, FailArtifactKeeps
  <2>7. CASE LinkArtifact(w) \/ Succeed(w) \/ Reschedule(w)
    BY <2>7, LinkArtifactKeeps, SucceedKeeps, RescheduleKeeps
  <2>8. CASE \/ BeginRetention(w)
             \/ \E a \in Numbers : Prune(w, a)
             \/ CommitRetention(w)
    BY <2>8, BeginRetentionKeeps, PruneKeeps, CommitRetentionKeeps
  <2>9. CASE \/ ScheduleRetry(w)
             \/ \E status \in {"FAILED", "EXHAUSTED_RETRIES"} : FailRun(w, status)
             \/ GiveUp(w)
    BY <2>9, ScheduleRetryKeeps, FailRunKeeps, GiveUpKeeps
  <2>10. CASE \E own \in BOOLEAN : Leave(w, own)
    BY <2>10, LeaveKeeps
  <2> QED
    BY <1>1, <2>1, <2>2, <2>3, <2>4, <2>5, <2>6, <2>7, <2>8, <2>9, <2>10
    DEF Continue
<1>2. ASSUME NEW w \in Workers, Request(w) \/ Throw(w) PROVE BackupInv'
  BY <1>2, RequestKeeps, ThrowKeeps
<1>4. ASSUME NEW w \in Workers,
             \/ Tick(w)
             \/ \E a \in Numbers : PruneFails(w, a)
             \/ \E unheard \in (SUBSET Runs) \ {{}} : TickUnheard(w, unheard)
      PROVE  BackupInv'
  BY <1>4, TicksKeep, PruneFailsKeeps
<1>3. ASSUME ComeDue \/ CloseSession \/ Crash \/ UNCHANGED backupVars PROVE BackupInv'
  BY <1>3, OutsideKeeps, CrashKeeps
<1> QED
  BY <1>1, <1>2, <1>3, <1>4 DEF BackupNext

THEOREM AlwaysBackupInv == BackupSpec => []BackupInv
  BY InitInv, NextInv, PTL DEF BackupSpec

\* Types of all tables and of what the workers know, whatever overlaps.
THEOREM BackupTypesCorrect == BackupSpec => []BackupTypeOK
<1>1. BackupInv => BackupTypeOK
  BY DEF BackupInv
<1> QED
  BY <1>1, AlwaysBackupInv, PTL

\* However many ticks, requests and retentions of BackupsService overlap, and
\* wherever they fail or the process stops, the newest backups of the job, as
\* many as it is to keep, are complete and in the storage.
THEOREM NewestStayRestorable == BackupSpec => []NewestAreRestorable
<1>1. ASSUME BackupInv PROVE NewestAreRestorable
  <2> SUFFICES ASSUME NEW a \in linked, Cardinality(Newer(a)) < KeepCount
               PROVE  artifacts[a] = "COMPLETED" /\ a \in files
    BY DEF NewestAreRestorable
  <2>1. artifacts[a] = "COMPLETED" /\ (a \notin files => Spare(linked, a))
    BY <1>1 DEF BackupInv, Stored
  <2>2. Cardinality(Newer(a)) \in Nat
    <3>1. Newer(a) \in SUBSET Numbers
      BY <1>1 DEF BackupInv, BackupTypeOK, Newer
    <3> QED
      BY <3>1, NumbersFinite
  <2>3. ~(Cardinality(Newer(a)) >= KeepCount)
    BY <2>2, JobAssumption
  <2> QED
    BY <2>1, <2>3 DEF Spare, Newer
<1> QED
  BY <1>1, AlwaysBackupInv, PTL

=============================================================================
