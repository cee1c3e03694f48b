---------------------------- MODULE MailDelivery ----------------------------
(***************************************************************************)
(* What the outbox promises whoever enqueues a message, with no rows,      *)
(* calls, claims or clocks: the message is pending until it is settled; it *)
(* is attempted while it is pending; and a settled one says what happened. *)
(* A message that the server took is attempted again only when nobody was  *)
(* told of that or lived to record it.                                     *)
(*                                                                         *)
(* The promise is void from the moment the outbox takes a message from a   *)
(* call that is still at work on it ("overrun"), but for the meaning of    *)
(* "SENT" and "FAILED", which is kept.                                     *)
(***************************************************************************)
EXTENDS Integers

CONSTANTS
  Messages,    \* messages that may be enqueued
  MaxAttempts  \* refusals after which a message has failed

VARIABLES
  state,       \* state[m]: what callers can see
  delivered,   \* delivered[m]: how often the server took m
  refused,     \* refused[m]: how often a call was told that it did not
  lost,        \* lost[m]: how often it did, and that was not recorded
  overrun      \* a message was taken from a call at work on it

vars == <<state, delivered, refused, lost, overrun>>

Init ==
  /\ state = [m \in Messages |-> "NONE"]
  /\ delivered = [m \in Messages |-> 0]
  /\ refused = [m \in Messages |-> 0]
  /\ lost = [m \in Messages |-> 0]
  /\ overrun = FALSE

Plus(count, m, yes) == IF yes THEN [count EXCEPT ![m] = @ + 1] ELSE count

Enqueue(m) ==
  /\ state[m] = "NONE"
  /\ state' = [state EXCEPT ![m] = "PENDING"]
  /\ UNCHANGED <<delivered, refused, lost, overrun>>

\* The server is given the message, takes it or not, and says so or not.
Attempt(m, taken, told) ==
  /\ overrun \/ (state[m] = "PENDING" /\ delivered[m] <= lost[m])
  /\ told => taken
  /\ delivered' = Plus(delivered, m, taken)
  /\ refused' = Plus(refused, m, ~told)
  /\ lost' = Plus(lost, m, taken /\ ~told)
  /\ UNCHANGED <<state, overrun>>

\* Whoever was told dies before recording it.
Forget(m) ==
  /\ overrun \/ (state[m] = "PENDING" /\ lost[m] < delivered[m])
  /\ lost' = Plus(lost, m, TRUE)
  /\ UNCHANGED <<state, delivered, refused, overrun>>

Earned(m, result) ==
  \/ result = "SENT" /\ delivered[m] > 0
  \/ result = "FAILED" /\ refused[m] >= MaxAttempts

Settle(m, result) ==
  /\ overrun \/ state[m] = "PENDING"
  /\ Earned(m, result) \/ (overrun /\ result = "PENDING")
  /\ state' = [state EXCEPT ![m] = result]
  /\ UNCHANGED <<delivered, refused, lost, overrun>>

\* Mail is disabled: what is pending is given up, but for what is under way.
Skip(waiting) ==
  /\ \A m \in waiting : state[m] = "PENDING"
  /\ state' = [m \in Messages |-> IF m \in waiting THEN "SKIPPED" ELSE state[m]]
  /\ UNCHANGED <<delivered, refused, lost, overrun>>

Overrun ==
  /\ overrun' = TRUE
  /\ UNCHANGED <<state, delivered, refused, lost>>

Next ==
  \/ \E m \in Messages :
       \/ Enqueue(m) \/ Forget(m)
       \/ \E taken, told \in BOOLEAN : Attempt(m, taken, told)
       \/ \E result \in {"SENT", "FAILED", "PENDING"} : Settle(m, result)
  \/ \E waiting \in SUBSET Messages : Skip(waiting)
  \/ Overrun

Spec == Init /\ [][Next]_vars

=============================================================================
