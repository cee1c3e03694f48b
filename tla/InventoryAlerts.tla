--------------------------- MODULE InventoryAlerts ---------------------------
(***************************************************************************)
(* InventoryAlertsService.evaluate, run by the scheduler, after every      *)
(* rebuild of the projections, every change of a reservation or of the     *)
(* reorder point, and by hand; the runs overlap.                           *)
(*                                                                         *)
(* A run reads the reorder point, the stock and the open alerts, closes    *)
(* the alerts of components out of scope, and then treats the components   *)
(* one after the other, each by a few statements, from what it read at the *)
(* start.  The partial unique index of inventory_alerts admits one ACTIVE  *)
(* row for each type.  Every statement is a step; there is no transaction. *)
(*                                                                         *)
(* Abstraction: one component and one recipient.  Components share no row, *)
(* and a run that fails at another component is cut off like any other.    *)
(* Notices are sent when an alert opens, as INVENTORY_ALERT_RENOTIFY_HOURS *)
(* is 0 by default; the quantities copied to the alert are left out.       *)
(*                                                                         *)
(* Names that Reservations also has are qualified (AlertInit, AlertSpec,   *)
(* ...), so that one module can extend both: both tell what of the stock   *)
(* is available.                                                           *)
(***************************************************************************)
EXTENDS Integers

CONSTANTS
  Runs,        \* concurrent runs of evaluate()
  Scheduled,   \* those the scheduler starts
  Quantities,  \* on-hand quantities considered
  Reserved,    \* quantities reserved considered
  Thresholds,  \* reorder points considered
  NoStock,     \* the projection has no row for the component
  MaxEvents    \* bound: changes of what is read, and runs cut off

ASSUME SchedulerAssumption == Scheduled \in SUBSET Runs /\ Scheduled # {}

ASSUME BoundAssumption == MaxEvents \in Nat

VARIABLES
  projected,   \* quantity in inventory_projections, or NoStock
  reserved,    \* what active reservations hold
  threshold,   \* minStockLevel of the system settings
  inScope,     \* the component is active and not consolidated
  open,        \* open[t]: there is an ACTIVE alert of type t
  opened,      \* opened[t]: how many alerts of type t were ever opened
  notices,     \* notices[t]: how often the recipient was told t
  stage,       \* stage[e]: the next statement of run e
  copy,        \* copy[e]: what run e has read
  events       \* changes and failures so far

alertVars == <<projected, reserved, threshold, inScope, open, opened, notices,
               stage, copy, events>>
world == <<projected, reserved, threshold, inScope>>
alerts == <<open, opened>>

Types == {"LOW_STOCK", "OUT_OF_STOCK"}

-----------------------------------------------------------------------------
(* What alert the stock calls for: a type, or "none". *)

\* available is never negative.
Available(q, held) == IF q > held THEN q - held ELSE 0

DesiredType(q, held, point) ==
  CASE q <= 0 -> "OUT_OF_STOCK"
    [] q > 0 /\ point > 0 /\ Available(q, held) <= point -> "LOW_STOCK"
    [] OTHER -> "none"

-----------------------------------------------------------------------------

\* wanted, stocked: what the stock that was read calls for, and whether there
\* was any row of stock or reservation; alerts[t]: the number of the ACTIVE
\* alert of type t that was read, or 0; notice: what is to be announced.
Unread == [threshold |-> 0, onHand |-> NoStock, reserved |-> 0,
         toRead |-> {"onHand", "reserved"}, wanted |-> "none", stocked |-> FALSE,
         alerts |-> [t \in Types |-> 0], notice |-> "none"]

AlertInit ==
  /\ projected \in Quantities \cup {NoStock}
  /\ reserved \in Reserved
  /\ threshold \in Thresholds
  /\ inScope = TRUE
  /\ open = [t \in Types |-> FALSE]
  /\ opened = [t \in Types |-> 0]
  /\ notices = [t \in Types \cup {"STOCK_RECOVERED"} |-> 0]
  /\ stage = [e \in Runs |-> "idle"]
  /\ copy = [e \in Runs |-> Unread]
  /\ events = 0

Proceed(e, label) ==
  /\ stage' = [stage EXCEPT ![e] = label]
  /\ UNCHANGED events

Done(e) ==
  /\ Proceed(e, "idle")
  /\ copy' = [copy EXCEPT ![e] = Unread]

-----------------------------------------------------------------------------
(* What goes on around the runs. *)

Event ==
  /\ events < MaxEvents
  /\ events' = events + 1

Change ==
  /\ Event
  /\ UNCHANGED <<alerts, notices, stage, copy>>

\* A rebuild writes the rows of the component, one for each location, one
\* after the other.
Project(q) ==
  /\ Change
  /\ projected' = q
  /\ UNCHANGED <<reserved, threshold, inScope>>

\* The last location that has a row is deleted.
DropProjection ==
  /\ Change
  /\ projected' = NoStock
  /\ UNCHANGED <<reserved, threshold, inScope>>

Reserve(q) ==
  /\ Change
  /\ reserved' = q
  /\ UNCHANGED <<projected, threshold, inScope>>

SetThreshold(point) ==
  /\ Change
  /\ threshold' = point
  /\ UNCHANGED <<projected, reserved, inScope>>

\* Deactivated or consolidated, or activated again.
Rescope ==
  /\ Change
  /\ inScope' = ~inScope
  /\ UNCHANGED <<projected, reserved, threshold>>

-----------------------------------------------------------------------------
(* Reading. *)

\* A run starts with the select of the reorder point.
Start(e) ==
  /\ stage[e] = "idle"
  /\ copy' = [copy EXCEPT ![e].threshold = threshold]
  /\ Proceed(e, "stock")
  /\ UNCHANGED <<world, alerts, notices>>

\* What follows from the stock that was read; without a row there is none.
Concluded(read) ==
  LET q == IF read.onHand = NoStock THEN 0 ELSE read.onHand
  IN  [Unread EXCEPT !.wanted = DesiredType(q, read.reserved, read.threshold),
                     !.stocked = read.onHand # NoStock \/ read.reserved > 0]

\* loadStockByComponent: two selects, side by side.
ReadStock(e, table) ==
  LET left == copy[e].toRead \ {table}
      read == [copy[e] EXCEPT
                 !.toRead = left,
                 !.onHand = IF table = "onHand" THEN projected ELSE @,
                 !.reserved = IF table = "reserved" THEN reserved ELSE @]
  IN  /\ stage[e] = "stock"
      /\ table \in copy[e].toRead
      /\ copy' = [copy EXCEPT ![e] = IF left = {} THEN Concluded(read) ELSE read]
      /\ Proceed(e, IF left = {} THEN "alerts" ELSE "stock")
      /\ UNCHANGED <<world, alerts, notices>>

HasAlert(e) == \E t \in Types : copy[e].alerts[t] # 0

\* loadActiveAlerts; with none there is no scope to look at.
ReadAlerts(e) ==
  LET active == [t \in Types |-> IF open[t] THEN opened[t] ELSE 0]
  IN  /\ stage[e] = "alerts"
      /\ copy' = [copy EXCEPT ![e].alerts = active]
      /\ Proceed(e, IF \E t \in Types : open[t] THEN "scope" ELSE "candidates")
      /\ UNCHANGED <<world, alerts, notices>>

\* Mutation: alerts of components out of scope are not looked for.
ReadScope_Never(e) ==
  /\ stage[e] = "scope"
  /\ Proceed(e, "candidates")
  /\ UNCHANGED <<world, alerts, notices, copy>>

\* closeOutOfScopeAlerts: the select of the components of those alerts.
ReadScope(e) ==
  /\ stage[e] = "scope"
  /\ Proceed(e, IF inScope THEN "candidates" ELSE "closeAll")
  /\ UNCHANGED <<world, alerts, notices, copy>>

\* resolveComponentsToEvaluate: a component with stock, a reservation or an
\* alert, which is in scope.
ReadCandidates(e) ==
  /\ stage[e] = "candidates"
  /\ IF inScope /\ (copy[e].stocked \/ HasAlert(e))
     THEN Proceed(e, "treat") /\ UNCHANGED copy
     ELSE Done(e)
  /\ UNCHANGED <<world, alerts, notices>>

-----------------------------------------------------------------------------
(* Closing and opening. *)

\* Mutation: rows that were closed meanwhile count as closed by this run.
Closing_AnyStatus(e, types) == {t \in types : copy[e].alerts[t] # 0}

\* resolveAlerts: of the rows that were read, it closes those still ACTIVE.
Closing(e, types) ==
  {t \in types : copy[e].alerts[t] # 0 /\ open[t] /\ opened[t] = copy[e].alerts[t]}

Close(types) ==
  /\ open' = [t \in Types |-> open[t] /\ t \notin types]
  /\ UNCHANGED opened

\* The alerts of a component out of scope are closed without notice, and are
\* no longer known to the run.
CloseOutOfScope(e) ==
  /\ stage[e] = "closeAll"
  /\ Close(Closing(e, Types))
  /\ copy' = [copy EXCEPT ![e].alerts =
       [t \in Types |-> IF t \in Closing(e, Types) THEN 0 ELSE @[t]]]
  /\ Proceed(e, "candidates")
  /\ UNCHANGED <<world, notices>>

\* Mutation: closing is noted under a notice of its own.
Recover_Resolved(e) ==
  /\ stage[e] = "treat"
  /\ copy[e].wanted = "none"
  /\ Close({t \in Types : copy[e].alerts[t] # 0})
  /\ copy' = [copy EXCEPT ![e].notice = "RESOLVED"]
  /\ Proceed(e, "idle")
  /\ UNCHANGED <<world, notices>>

\* Stock is normal: what is open is closed, and recovery is announced if this
\* run closed anything.
Recover(e) ==
  /\ stage[e] = "treat"
  /\ copy[e].wanted = "none"
  /\ Close(Closing(e, Types))
  /\ IF Closing(e, Types) = {} THEN Done(e)
     ELSE /\ copy' = [copy EXCEPT ![e].notice = "STOCK_RECOVERED"]
          /\ Proceed(e, "notify")
  /\ UNCHANGED <<world, notices>>

\* The alert was open already: its quantities are updated.
Refresh(e) ==
  /\ stage[e] = "treat"
  /\ copy[e].wanted # "none"
  /\ copy[e].alerts[copy[e].wanted] # 0
  /\ Done(e)
  /\ UNCHANGED <<world, alerts, notices>>

\* The alert is inserted, unless another run was faster; alerts of the other
\* type are closed only by the run that inserts.
Open(e) ==
  LET t == copy[e].wanted
  IN  /\ stage[e] = "treat"
      /\ t # "none"
      /\ copy[e].alerts[t] = 0
      /\ IF open[t] THEN Done(e) /\ UNCHANGED alerts
         ELSE /\ open' = [open EXCEPT ![t] = TRUE]
              /\ opened' = [opened EXCEPT ![t] = @ + 1]
              /\ copy' = [copy EXCEPT ![e].notice = t]
              /\ Proceed(e, IF HasAlert(e) THEN "closeOther" ELSE "notify")
      /\ UNCHANGED <<world, notices>>

CloseOther(e) ==
  /\ stage[e] = "closeOther"
  /\ Close(Closing(e, Types \ {copy[e].notice}))
  /\ Proceed(e, "notify")
  /\ UNCHANGED <<world, notices, copy>>

\* notifyActivation or notifyRecovery; the stamp of the last notice on the
\* alert is not read again.
Notify(e) ==
  /\ stage[e] = "notify"
  /\ notices' = [notices EXCEPT ![copy[e].notice] = @ + 1]
  /\ Done(e)
  /\ UNCHANGED <<world, alerts>>

\* A statement fails or the process stops; the failure is logged.
Fail(e) ==
  /\ stage[e] # "idle"
  /\ Event
  /\ stage' = [stage EXCEPT ![e] = "idle"]
  /\ copy' = [copy EXCEPT ![e] = Unread]
  /\ UNCHANGED <<world, alerts, notices>>

-----------------------------------------------------------------------------

\* The statements of a run that has started.
Continue(e) ==
  \/ \E table \in {"onHand", "reserved"} : ReadStock(e, table)
  \/ ReadAlerts(e) \/ ReadScope(e) \/ ReadCandidates(e)
  \/ CloseOutOfScope(e)
  \/ Recover(e) \/ Refresh(e) \/ Open(e) \/ CloseOther(e)
  \/ Notify(e)

Surroundings ==
  \/ \E q \in Quantities : Project(q)
  \/ DropProjection
  \/ \E q \in Reserved : Reserve(q)
  \/ \E point \in Thresholds : SetThreshold(point)
  \/ Rescope

AlertNext ==
  \/ Surroundings
  \/ \E e \in Runs : Start(e) \/ Continue(e) \/ Fail(e)

(* A statement that was issued is answered, and the interval timer of the   *)
(* scheduler fires again and again.                                         *)
Fairness ==
  /\ \A e \in Runs : WF_alertVars(Continue(e))
  /\ \A e \in Scheduled : WF_alertVars(Start(e))

AlertSpec == AlertInit /\ [][AlertNext]_alertVars /\ Fairness

-----------------------------------------------------------------------------
(* Properties. *)

Labels == {"idle", "stock", "alerts", "scope", "closeAll", "candidates", "treat",
           "closeOther", "notify"}

Copies == [threshold : Thresholds \cup {0}, onHand : Quantities \cup {NoStock},
           reserved : Reserved \cup {0}, toRead : SUBSET {"onHand", "reserved"},
           wanted : Types \cup {"none"}, stocked : BOOLEAN,
           alerts : [Types -> Nat],
           notice : Types \cup {"none", "STOCK_RECOVERED"}]

AlertTypeOK ==
  /\ projected \in Quantities \cup {NoStock}
  /\ reserved \in Reserved
  /\ threshold \in Thresholds
  /\ inScope \in BOOLEAN
  /\ open \in [Types -> BOOLEAN]
  /\ opened \in [Types -> Nat]
  /\ notices \in [Types \cup {"STOCK_RECOVERED"} -> Nat]
  /\ stage \in [Runs -> Labels]
  /\ copy \in [Runs -> Copies]
  /\ events \in 0 .. MaxEvents

\* However many runs overlap, an alert is announced at most once for each time
\* it opens, and recovery at most once for each alert that was closed: every
\* notice is the work of the one run whose statement changed a row.
AnnouncedOnce ==
  LET isOpen(t) == IF open[t] THEN 1 ELSE 0
  IN  /\ \A t \in Types : notices[t] <= opened[t]
      /\ notices["STOCK_RECOVERED"] <=
           opened["LOW_STOCK"] - isOpen("LOW_STOCK")
             + opened["OUT_OF_STOCK"] - isOpen("OUT_OF_STOCK")

\* The quantity an evaluation assumes, and whether it looks at the component
\* also when no alert is open.
Assumed == IF projected = NoStock THEN 0 ELSE projected
Seen == projected # NoStock \/ reserved > 0

\* The alert that stock, reservations, reorder point and scope call for now.
\* Of a component with neither stock nor reservation nothing is said.
Wanted ==
  CASE ~inScope -> "none"
    [] inScope /\ Seen -> DesiredType(Assumed, reserved, threshold)
    [] OTHER -> "unknown"

\* When nothing changes any more, the alert that is called for is open for
\* good, and if none is, none stays open: whatever runs were cut off or acted
\* on old readings, the scheduler makes up for it.
AlertsConverge ==
  /\ \A t \in Types : <>[](Wanted = t => open[t])
  /\ <>[](Wanted = "none" => \A t \in Types : ~open[t])

-----------------------------------------------------------------------------
(* Statements of the documentation that the code does not keep. *)

\* The scheduler "re-evaluates on an interval so alert state converges without
\* human action".  A run that finds the alert it wants open does not close the
\* one of the other type, which another run may have opened.
OnlyTheWantedStaysOpen ==
  \A t \in Types : <>[](open[t] => Wanted = t)

=============================================================================
