----------------------------- MODULE MailQueue -----------------------------
(***************************************************************************)
(* The outbox of MailService and the calls of processQueue() that drain    *)
(* it.                                                                     *)
(*                                                                         *)
(* Every API and worker process calls processQueue() from a timer that     *)
(* does not wait for the previous call, and administrators call it too:    *)
(* what matters is how many calls run at once.  A call first returns rows  *)
(* that have been SENDING for too long to the queue, then claims a batch   *)
(* in one transaction (FOR UPDATE SKIP LOCKED), and then sends and records *)
(* one message after the other, from the rows as it claimed them.          *)
(*                                                                         *)
(* Time: aged says that updated_at is older than the staleness window, due *)
(* that next_attempt_at has come; either may happen at any moment.  The    *)
(* order of creation, which decides who is claimed first, is left out.     *)
(***************************************************************************)
EXTENDS Integers, FiniteSetsExt, Functions

CONSTANTS
  Messages,     \* ids of rows of email_outbox
  Calls,        \* calls of processQueue() that may run at once
  MaxAttempts,  \* max_attempts of every row
  Limit,        \* how many rows a call claims at most
  Modes,        \* whether mail is enabled in the process of a call: Booleans
  MaxLosses     \* bound: calls that die, and answers that are lost

ASSUME QueueAssumption ==
  /\ MaxAttempts \in Nat \ {0}
  /\ Limit \in Nat \ {0}
  /\ Modes \subseteq BOOLEAN

VARIABLES
  outbox,   \* outbox[m]: the row of message m
  pc,       \* pc[c]: the next statement of call c
  batch,    \* batch[c]: attempts of the rows c claimed and has yet to record
  answer,   \* answer[c]: the message c has sent last, and the answer
  tally     \* what the properties need to know of the past

vars == <<outbox, pc, batch, answer, tally>>

Rows == [status : {"NONE", "QUEUED", "SENDING", "SENT", "FAILED", "SKIPPED"},
         attempts : 0 .. MaxAttempts, aged : BOOLEAN, due : BOOLEAN]

Nothing == [to |-> {}, accepted |-> FALSE]

NoBatch == [m \in {} |-> 0]

(* tally.delivered: how often the server took the message; tally.refused:    *)
(*   how often a call was told that it did not; tally.unknown: how often it   *)
(*   did and no call learnt it; tally.slow: a row aged in the hands of a call *)
(*   that was alive; tally.losses: calls that died and answers lost.          *)
Init ==
  /\ outbox = [m \in Messages |-> [status |-> "NONE", attempts |-> 0,
                                   aged |-> FALSE, due |-> FALSE]]
  /\ pc = [c \in Calls |-> "idle"]
  /\ batch = [c \in Calls |-> NoBatch]
  /\ answer = [c \in Calls |-> Nothing]
  /\ tally = [delivered |-> [m \in Messages |-> 0],
              refused   |-> [m \in Messages |-> 0],
              unknown   |-> [m \in Messages |-> 0],
              slow |-> FALSE, losses |-> 0]

With(status) == {m \in Messages : outbox[m].status = status}

Holders(m) == {c \in Calls : m \in DOMAIN batch[c]}

Goto(c, label) == pc' = [pc EXCEPT ![c] = label]

-----------------------------------------------------------------------------

\* enqueue(): a new row, due at once.
Enqueue(m) ==
  /\ outbox[m].status = "NONE"
  /\ outbox' = [outbox EXCEPT ![m].status = "QUEUED", ![m].due = TRUE]
  /\ UNCHANGED <<pc, batch, answer, tally>>

\* Mutation: whatever is being sent is returned to the queue.
Requeued_Fresh ==
  [m \in Messages |->
     IF outbox[m].status = "SENDING"
     THEN [outbox[m] EXCEPT !.status = "QUEUED", !.aged = FALSE]
     ELSE outbox[m]]

\* Mutation: a row whose call has died is never returned.
Requeued_Never == outbox

\* Rows that have been SENDING for too long return to the queue.
Requeued ==
  [m \in Messages |->
     IF outbox[m].status = "SENDING" /\ outbox[m].aged
     THEN [outbox[m] EXCEPT !.status = "QUEUED", !.aged = FALSE]
     ELSE outbox[m]]

\* processQueue() begins with requeueStaleSending().
Begin(c) ==
  /\ pc[c] = "idle"
  /\ outbox' = Requeued
  /\ \E enabled \in Modes : Goto(c, IF enabled THEN "claim" ELSE "skip")
  /\ UNCHANGED <<batch, answer, tally>>

\* Mutation: the update forgets its condition on the status.
Skip_AllRows(c) ==
  /\ pc[c] = "skip"
  /\ outbox' = [m \in Messages |-> [outbox[m] EXCEPT !.status = "SKIPPED"]]
  /\ Goto(c, "idle")
  /\ UNCHANGED <<batch, answer, tally>>

\* With mail disabled, everything queued is given up.
Skip(c) ==
  /\ pc[c] = "skip"
  /\ outbox' = [m \in Messages |->
       IF m \in With("QUEUED") THEN [outbox[m] EXCEPT !.status = "SKIPPED",
                                                     !.aged = FALSE]
                               ELSE outbox[m]]
  /\ Goto(c, "idle")
  /\ UNCHANGED <<batch, answer, tally>>

\* Mutation: rows that are being sent may be claimed as well.
Claimable_Sending == {m \in With("QUEUED") \cup With("SENDING") : outbox[m].due}

Claimable == {m \in With("QUEUED") : outbox[m].due}

\* The claim, one transaction: as many due rows as the limit allows.
Claim(c) ==
  /\ pc[c] = "claim"
  /\ \E claimed \in kSubset(Min({Limit, Cardinality(Claimable)}), Claimable) :
       /\ outbox' = [m \in Messages |->
            IF m \in claimed THEN [outbox[m] EXCEPT !.status = "SENDING",
                                                    !.aged = FALSE]
                             ELSE outbox[m]]
       /\ batch' = [batch EXCEPT ![c] = [m \in claimed |-> outbox[m].attempts]]
       /\ Goto(c, IF claimed = {} THEN "idle" ELSE "send")
  /\ UNCHANGED <<answer, tally>>

\* transport.send(): the server takes the message or refuses it, and the call
\* is told so, unless the server takes it and the connection times out.
Send(c, m, taken, accepted) ==
  /\ pc[c] = "send"
  /\ m \in DOMAIN batch[c]
  /\ accepted => taken
  /\ taken /\ ~accepted => tally.losses < MaxLosses
  /\ answer' = [answer EXCEPT ![c] = [to |-> {m}, accepted |-> accepted]]
  /\ Goto(c, "record")
  /\ tally' = [tally EXCEPT
       !.delivered[m] = IF taken THEN @ + 1 ELSE @,
       !.refused[m] = IF accepted THEN @ ELSE @ + 1,
       !.unknown[m] = IF taken /\ ~accepted THEN @ + 1 ELSE @,
       !.losses = IF taken /\ ~accepted THEN @ + 1 ELSE @]
  /\ UNCHANGED <<outbox, batch>>

\* Mutation: a message gets one attempt more.
AfterRefusal_OneMore(attempts) ==
  IF attempts > MaxAttempts THEN "FAILED" ELSE "QUEUED"

\* Mutation: a message gets one attempt less.
AfterRefusal_OneLess(attempts) ==
  IF attempts + 1 >= MaxAttempts THEN "FAILED" ELSE "QUEUED"

\* What becomes of a row after so many attempts.
AfterRefusal(attempts) == IF attempts >= MaxAttempts THEN "FAILED" ELSE "QUEUED"

\* The answer is recorded, whatever the row holds by now.
Record(c, m) ==
  LET attempts == batch[c][m] + 1
  IN  /\ pc[c] = "record"
      /\ answer[c].to = {m}
      /\ outbox' = [outbox EXCEPT ![m] =
           [ status   |-> IF answer[c].accepted THEN "SENT"
                                                ELSE AfterRefusal(attempts),
             attempts |-> attempts,
             aged     |-> FALSE,
             due      |-> answer[c].accepted /\ @.due ]]
      /\ batch' = [batch EXCEPT ![c] = Restrict(@, DOMAIN @ \ {m})]
      /\ answer' = [answer EXCEPT ![c] = Nothing]
      /\ Goto(c, IF DOMAIN batch[c] = {m} THEN "idle" ELSE "send")
      /\ UNCHANGED tally

\* The call dies, or a statement of it fails: what it holds stays SENDING.
Die(c) ==
  /\ pc[c] # "idle"
  /\ tally.losses < MaxLosses
  /\ pc' = [pc EXCEPT ![c] = "idle"]
  /\ batch' = [batch EXCEPT ![c] = NoBatch]
  /\ answer' = [answer EXCEPT ![c] = Nothing]
  /\ tally' = [tally EXCEPT
       !.unknown = [m \in Messages |->
          IF answer[c] = [to |-> {m}, accepted |-> TRUE] THEN @[m] + 1 ELSE @[m]],
       !.losses = @ + 1]
  /\ UNCHANGED outbox

\* The staleness window of a row ends.
Age(m) ==
  /\ outbox[m].status = "SENDING" /\ ~outbox[m].aged
  /\ outbox' = [outbox EXCEPT ![m].aged = TRUE]
  /\ tally' = [tally EXCEPT !.slow = @ \/ Holders(m) # {}]
  /\ UNCHANGED <<pc, batch, answer>>

\* The time of the next attempt comes.
FallDue(m) ==
  /\ outbox[m].status = "QUEUED" /\ ~outbox[m].due
  /\ outbox' = [outbox EXCEPT ![m].due = TRUE]
  /\ UNCHANGED <<pc, batch, answer, tally>>

SendAny(c) ==
  \E m \in Messages, taken, accepted \in BOOLEAN : Send(c, m, taken, accepted)

RecordAny(c) == \E m \in Messages : Record(c, m)

Next ==
  \/ \E m \in Messages : Enqueue(m) \/ Age(m) \/ FallDue(m)
  \/ \E c \in Calls :
       Begin(c) \/ Skip(c) \/ Claim(c) \/ SendAny(c) \/ RecordAny(c) \/ Die(c)

Spec == Init /\ [][Next]_vars

\* The timer keeps calling, a call that runs goes on (the transport has
\* timeouts), and time passes.  That anybody enqueues, that a server accepts
\* and that a call dies is not promised.
FairSpec ==
  /\ Spec
  /\ \A c \in Calls : WF_vars(Begin(c)) /\ WF_vars(Skip(c)) /\ WF_vars(Claim(c))
                      /\ WF_vars(SendAny(c)) /\ WF_vars(RecordAny(c))
  /\ \A m \in Messages : WF_vars(Age(m)) /\ WF_vars(FallDue(m))

-----------------------------------------------------------------------------
(* Properties. *)

TypeOK ==
  /\ outbox \in [Messages -> Rows]
  /\ pc \in [Calls -> {"idle", "skip", "claim", "send", "record"}]
  /\ \A c \in Calls : /\ DOMAIN batch[c] \in SUBSET Messages
                      /\ batch[c] \in [DOMAIN batch[c] -> 0 .. MaxAttempts - 1]
  /\ answer \in [Calls -> [to : {{}} \cup {{m} : m \in Messages},
                           accepted : BOOLEAN]]
  /\ tally \in [delivered : [Messages -> Nat], refused : [Messages -> Nat],
                unknown : [Messages -> Nat], slow : BOOLEAN, losses : Nat]

\* As long as no row aged in the hands of a call that was alive, a row is
\* held by one call at most, and is SENDING while it is held.  (The claim is
\* one transaction, and only aged rows are returned to the queue.)
OneHolder ==
  ~tally.slow => \A m \in Messages :
    /\ Cardinality(Holders(m)) <= 1
    /\ Holders(m) # {} => outbox[m].status = "SENDING"

\* And as long as that is so, the server takes a message once, and once more
\* for every time it took it and no call lived to record it.
DeliveredOncePerAnswer ==
  ~tally.slow => \A m \in Messages :
    tally.delivered[m] <= 1 + tally.unknown[m]

\* Always: SENT was delivered, and FAILED was refused as often as allowed,
\* whatever calls overlap, die or overwrite each other's rows.  (attempts is
\* written from the row as it was claimed, and may be lower than the truth,
\* never higher.)
StatusIsEarned ==
  \A m \in Messages :
    /\ outbox[m].status = "SENT" => tally.delivered[m] > 0
    /\ outbox[m].status = "FAILED" => tally.refused[m] >= MaxAttempts
    /\ outbox[m].attempts <= tally.refused[m] + tally.delivered[m]

Settled(m) == outbox[m].status \in {"SENT", "FAILED", "SKIPPED"}

\* Every message that is enqueued is settled in the end and stays settled,
\* also when calls are slow, overlap and overwrite each other, as long as they
\* do not die for ever.
EventuallySettled ==
  \A m \in Messages : outbox[m].status = "QUEUED" ~> [](Settled(m))

-----------------------------------------------------------------------------
(* What the outbox promises, whoever drains it. *)

\* What callers can see of a row: whether it is queued or being sent is not
\* theirs to know.
Shown(status) == IF status \in {"QUEUED", "SENDING"} THEN "PENDING" ELSE status

Delivery == INSTANCE MailDelivery WITH
  state     <- [m \in Messages |-> Shown(outbox[m].status)],
  delivered <- tally.delivered,
  refused   <- tally.refused,
  lost      <- tally.unknown,
  overrun   <- tally.slow

\* Rows, claims, batches, requeues, crashes and lost answers of any number of
\* overlapping calls implement the promise of MailDelivery: unless a row aged
\* in the hands of a call that was alive, no step settles a message twice or
\* sends one whose delivery is on record; and none, ever, calls one sent or
\* failed that was not.
ImplementsDelivery == Delivery!Spec

-----------------------------------------------------------------------------
(* A statement of a comment that the code does not keep. *)

\* processQueue(): "concurrent API/worker processes cannot send the same row
\* twice".  A batch that takes longer than the staleness window is requeued
\* and claimed by another call, though nothing has failed.
NotSentTwice ==
  tally.losses = 0 => \A m \in Messages : tally.delivered[m] <= 1

=============================================================================
