----------------------------- MODULE BackupRuns -----------------------------
(***************************************************************************)
(* The runs of one scheduled backup job: the scheduler's ticks and manual  *)
(* requests of BackupsService, which overlap, and the retention of the     *)
(* artifacts they make.                                                    *)
(*                                                                         *)
(* A tick recovers runs whose worker is gone, takes the runs that wait for *)
(* a retry, and then the job if it is due, each behind an advisory lock of *)
(* PostgreSQL.  That lock belongs to a session, and pool.query takes any   *)
(* idle connection of the pool: a second attempt to lock may come from the *)
(* session that holds the lock and succeed, unlocking may come from one    *)
(* that does not and fail, and a session that is closed when idle drops    *)
(* it.                                                                     *)
(*                                                                         *)
(* Abstraction: a run whose worker is gone counts as expired at once, one  *)
(* whose worker lives only when its heartbeats fail to be written; delays  *)
(* pass at any time.  Retention by age, the download, upload and    *)
(* removal of artifacts and the editing of jobs are left out.              *)
(*                                                                         *)
(* Some names say that they are those of backups (stage, ComeDue, Backup-  *)
(* TypeOK ...): BackgroundProofs extends this module and MailQueue.        *)
(***************************************************************************)
EXTENDS Integers, FiniteSets

CONSTANTS
  Workers,      \* concurrent ticks and requests
  Runs,         \* ids that runs may be given
  Waiting,      \* runs that have failed once
  Earlier,      \* number of backups that earlier runs have made
  MaxArtifacts, \* bound: artifacts begun, those included
  RetryLimit,   \* retryLimit of the job
  KeepCount,    \* retentionMaxCount of the job
  NoRun,        \* no run
  MaxTrouble    \* bound: statements that fail, and crashes

ASSUME JobAssumption ==
  /\ RetryLimit \in Nat /\ KeepCount \in Nat \ {0}
  /\ Earlier \in 0 .. KeepCount /\ MaxArtifacts \in Nat /\ Earlier <= MaxArtifacts
  /\ MaxTrouble \in Nat
  /\ Waiting \in SUBSET Runs
  /\ Waiting # {} => RetryLimit > 0

VARIABLES
  due,       \* nextRunAt of the job has passed
  runs,      \* the rows of backup_job_runs; artifact 0 is null
  artifacts, \* status of the rows of backup_artifacts, numbered by createdAt
  linked,    \* artifacts with the id of the job
  files,     \* artifacts whose archive is in the storage
  lock,      \* how often one session holds the advisory lock of the job
  stage,     \* stage[w]: the next statement of worker w
  copy,      \* copy[w]: what worker w knows
  trouble    \* failures and crashes so far

backupVars == <<due, runs, artifacts, linked, files, lock, stage, copy, trouble>>
artifactTables == <<artifacts, linked, files>>

Numbers == 1 .. MaxArtifacts
AttemptLimit == RetryLimit + 1

\* retries: runs yet to be retried by the tick; for: why runJob was called;
\* run, attempt, artifact: what it is working on; pruned, todo: what its
\* retention has deleted, and is to delete.
Idle == [retries |-> {}, for |-> "nothing", run |-> NoRun, attempt |-> 0,
         artifact |-> 0, todo |-> {}, pruned |-> {}]

Failed == [status |-> "RETRY_SCHEDULED", attempt |-> 1, artifact |-> 0]
Unused == [status |-> "none", attempt |-> 0, artifact |-> 0]

BackupInit ==
  /\ due = FALSE
  /\ runs = [r \in Runs |-> IF r \in Waiting THEN Failed ELSE Unused]
  /\ artifacts = [a \in Numbers |-> IF a <= Earlier THEN "COMPLETED" ELSE "none"]
  /\ linked = 1 .. Earlier
  /\ files = linked
  /\ lock = 0
  /\ stage = [w \in Workers |-> "idle"]
  /\ copy = [w \in Workers |-> Idle]
  /\ trouble = 0

Proceed(w, label) == stage' = [stage EXCEPT ![w] = label]

Trouble == trouble < MaxTrouble /\ trouble' = trouble + 1

\* The labels at which a worker sends heartbeats for its run.
Attempting == {"insert", "store", "complete", "failArtifact", "link", "success",
               "reschedule", "retain", "prune", "rollback", "catch", "giveUp"}

\* The labels in the transaction of a retention.
Pruning == {"prune", "rollback"}

\* How many workers are at one of these labels.
At(labels) == Cardinality({w \in Workers : stage[w] \in labels})

\* The bounds admit another attempt, and another run.
Room ==
  Cardinality({a \in Numbers : artifacts[a] = "none"})
    > At({"create", "load", "begin", "insert"})
RoomForRun ==
  Room /\ Cardinality({r \in Runs : runs[r].status = "none"}) > At({"create"})

Alive(r) == \E w \in Workers : stage[w] \in Attempting /\ copy[w].run = r

-----------------------------------------------------------------------------
(* The lock.  "own": the statement happens to run in the session that holds *)
(* the lock.                                                                *)

\* pg_try_advisory_lock: the session that holds the lock gets it again.
Lockable(own) == own \/ lock = 0

\* pg_advisory_unlock takes one back, or warns that there is none.
AfterUnlock(own) == IF own /\ lock > 0 THEN lock - 1 ELSE lock

\* The pool closes the connection when it has been idle for a while.
CloseSession ==
  /\ lock > 0
  /\ lock' = 0
  /\ UNCHANGED <<due, runs, artifactTables, stage, copy, trouble>>

-----------------------------------------------------------------------------
(* The tick. *)

\* The time of the schedule comes.
ComeDue ==
  /\ ~due
  /\ due' = TRUE
  /\ UNCHANGED <<runs, artifactTables, lock, stage, copy, trouble>>

\* Mutation: what was abandoned is only marked when no attempt is left.
Recovered_Exhausted(row) ==
  IF row.attempt < AttemptLimit THEN row ELSE [row EXCEPT !.status = "FAILED"]

Recovered(row) ==
  [row EXCEPT !.status =
     IF row.attempt < AttemptLimit THEN "RETRY_SCHEDULED" ELSE "FAILED"]

\* recoverAbandonedRuns: runs that are RUNNING and whose last heartbeat is too
\* old, as it is for those that are silent.
Reclaim(w, silent) ==
  /\ stage[w] = "idle"
  /\ runs' = [r \in Runs |->
       IF runs[r].status = "RUNNING" /\ r \in silent THEN Recovered(runs[r])
       ELSE runs[r]]
  /\ Proceed(w, "select")
  /\ UNCHANGED <<due, artifactTables, lock, copy>>

Abandoned == {r \in Runs : ~Alive(r)}

Tick(w) == Reclaim(w, Abandoned) /\ UNCHANGED trouble

\* The heartbeats of workers that live could not be written, which is only
\* logged: the tick takes their runs, too, and they go on.
TickUnheard(w, unheard) == Reclaim(w, Abandoned \cup unheard) /\ Trouble

\* processRetryRuns: the runs whose delay is over.
SelectRetries(w, waiting) ==
  /\ stage[w] = "select"
  /\ \A r \in waiting : runs[r].status = "RETRY_SCHEDULED"
  /\ copy' = [copy EXCEPT ![w].retries = waiting]
  /\ Proceed(w, "next")
  /\ UNCHANGED <<due, runs, artifactTables, lock, trouble>>

\* One after the other: a run is passed over when the lock is not to be had.
TakeRetry(w, r, own) ==
  LET rest == [Idle EXCEPT !.retries = copy[w].retries \ {r}]
  IN  /\ stage[w] = "next"
      /\ r \in copy[w].retries
      /\ IF Lockable(own) /\ Room
         THEN /\ lock' = lock + 1
              /\ copy' = [copy EXCEPT ![w] = [rest EXCEPT !.run = r, !.for = "retry"]]
              /\ Proceed(w, "load")
         ELSE /\ copy' = [copy EXCEPT ![w] = rest]
              /\ UNCHANGED <<lock, stage>>
      /\ UNCHANGED <<due, runs, artifactTables, trouble>>

\* Then the job, if it is due.
SelectJob(w) ==
  /\ stage[w] = "next"
  /\ copy[w].retries = {}
  /\ Proceed(w, IF due THEN "lock" ELSE "idle")
  /\ UNCHANGED <<due, runs, artifactTables, lock, copy, trouble>>

\* With the lock it is run; without, backup.skipped is sent.
TakeJob(w, own) ==
  /\ stage[w] = "lock"
  /\ IF Lockable(own) /\ RoomForRun
     THEN /\ lock' = lock + 1
          /\ copy' = [copy EXCEPT ![w].for = "job"]
          /\ Proceed(w, "create")
     ELSE Proceed(w, "idle") /\ UNCHANGED <<lock, copy>>
  /\ UNCHANGED <<due, runs, artifactTables, trouble>>

\* A request runs the job at once, and asks for no lock.
Request(w) ==
  /\ stage[w] = "idle"
  /\ RoomForRun
  /\ copy' = [copy EXCEPT ![w].for = "request"]
  /\ Proceed(w, "create")
  /\ UNCHANGED <<due, runs, artifactTables, lock, trouble>>

-----------------------------------------------------------------------------
(* runJob. *)

\* Without a run to resume it inserts one.
CreateRun(w, r) ==
  /\ stage[w] = "create"
  /\ runs[r].status = "none"
  /\ runs' = [runs EXCEPT ![r].status = "QUEUED"]
  /\ copy' = [copy EXCEPT ![w].run = r, ![w].attempt = 1]
  /\ Proceed(w, "begin")
  /\ UNCHANGED <<due, artifactTables, lock, trouble>>

\* Mutation: the run is resumed whatever attempts it has had.
LoadRun_Unlimited(w) ==
  /\ stage[w] = "load"
  /\ copy' = [copy EXCEPT ![w].attempt = runs[copy[w].run].attempt + 1]
  /\ Proceed(w, "begin")
  /\ UNCHANGED <<due, runs, artifactTables, lock, trouble>>

\* A run to resume is selected; with no attempt left the worker throws.
LoadRun(w) ==
  LET attempt == runs[copy[w].run].attempt + 1
  IN  /\ stage[w] = "load"
      /\ copy' = [copy EXCEPT ![w].attempt = attempt]
      /\ Proceed(w, IF attempt <= AttemptLimit THEN "begin" ELSE "leave")
      /\ UNCHANGED <<due, runs, artifactTables, lock, trouble>>

BeginAttempt(w) ==
  /\ stage[w] = "begin"
  /\ runs' = [runs EXCEPT
       ![copy[w].run].status = IF copy[w].attempt = 1 THEN "RUNNING" ELSE "RETRYING",
       ![copy[w].run].attempt = copy[w].attempt]
  /\ Proceed(w, "insert")
  /\ UNCHANGED <<due, artifactTables, lock, copy, trouble>>

-----------------------------------------------------------------------------
(* createBackup. *)

InsertArtifact(w, a) ==
  /\ stage[w] = "insert"
  /\ artifacts[a] = "none"
  /\ \A b \in 1 .. a - 1 : artifacts[b] # "none"
  /\ artifacts' = [artifacts EXCEPT ![a] = "RUNNING"]
  /\ copy' = [copy EXCEPT ![w].artifact = a]
  /\ Proceed(w, "store")
  /\ UNCHANGED <<due, runs, linked, files, lock, trouble>>

StoreArchive(w) ==
  /\ stage[w] = "store"
  /\ files' = files \cup {copy[w].artifact}
  /\ Proceed(w, "complete")
  /\ UNCHANGED <<due, runs, artifacts, linked, lock, copy, trouble>>

CompleteArtifact(w) ==
  /\ stage[w] = "complete"
  /\ artifacts' = [artifacts EXCEPT ![copy[w].artifact] = "COMPLETED"]
  /\ Proceed(w, "link")
  /\ UNCHANGED <<due, runs, linked, files, lock, copy, trouble>>

FailArtifact(w) ==
  /\ stage[w] = "failArtifact"
  /\ artifacts' = [artifacts EXCEPT ![copy[w].artifact] = "FAILED"]
  /\ Proceed(w, "catch")
  /\ UNCHANGED <<due, runs, linked, files, lock, copy, trouble>>

-----------------------------------------------------------------------------
(* After the backup. *)

LinkArtifact(w) ==
  /\ stage[w] = "link"
  /\ linked' = linked \cup {copy[w].artifact}
  /\ Proceed(w, "success")
  /\ UNCHANGED <<due, runs, artifacts, files, lock, copy, trouble>>

\* The run refers to its artifact; if it was pruned meanwhile this throws.
Succeed(w) ==
  LET a == copy[w].artifact
  IN  /\ stage[w] = "success"
      /\ IF artifacts[a] = "deleted"
         THEN Proceed(w, "catch") /\ UNCHANGED runs
         ELSE /\ runs' = [runs EXCEPT ![copy[w].run].status = "SUCCESS",
                                      ![copy[w].run].artifact = a]
              /\ Proceed(w, "reschedule")
      /\ UNCHANGED <<due, artifactTables, lock, copy, trouble>>

Reschedule(w) ==
  /\ stage[w] = "reschedule"
  /\ due' = FALSE
  /\ Proceed(w, "retain")
  /\ UNCHANGED <<runs, artifactTables, lock, copy, trouble>>

-----------------------------------------------------------------------------
(* applyRetention: a transaction behind a lock of its own. *)

Newer(a) == {b \in linked : b > a}

\* Mutation: the list is cut one too early.
Surplus_One == {a \in linked : Cardinality(Newer(a)) >= KeepCount - 1}

\* artifacts.slice(retentionMaxCount), newest first.
Surplus == {a \in linked : Cardinality(Newer(a)) >= KeepCount}

Protected ==
  {runs[r].artifact : r \in {q \in Runs : runs[q].status \in {"RUNNING", "RETRYING"}}}

BeginRetention(w) ==
  /\ stage[w] = "retain"
  /\ \A v \in Workers : stage[v] \notin Pruning
  /\ copy' = [copy EXCEPT ![w].todo =
       {a \in Surplus \ Protected : artifacts[a] = "COMPLETED"}]
  /\ Proceed(w, "prune")
  /\ UNCHANGED <<due, runs, artifactTables, lock, trouble>>

\* The archive is deleted from the storage, at once; the row when the
\* transaction commits.
Prune(w, a) ==
  /\ stage[w] \in Pruning
  /\ a \in copy[w].todo
  /\ files' = files \ {a}
  /\ copy' = [copy EXCEPT ![w].todo = @ \ {a}, ![w].pruned = @ \cup {a}]
  /\ UNCHANGED <<due, runs, artifacts, linked, lock, stage, trouble>>

\* The catch around each artifact swallows what fails: the storage, which may
\* have deleted the archive all the same, or the delete of the row, after which
\* the database refuses the rest of the transaction, but the storage does not.
PruneFails(w, a) ==
  /\ stage[w] \in Pruning
  /\ a \in copy[w].todo
  /\ Trouble
  /\ \/ files' \in {files, files \ {a}} /\ UNCHANGED stage
     \/ files' = files \ {a} /\ Proceed(w, "rollback")
  /\ copy' = [copy EXCEPT ![w].todo = @ \ {a}]
  /\ UNCHANGED <<due, runs, artifacts, linked, lock>>

\* Runs lose their reference to what is deleted; nothing is when the
\* transaction is rolled back, silently.
CommitRetention(w) ==
  LET gone == IF stage[w] = "prune" THEN copy[w].pruned ELSE {}
  IN  /\ stage[w] \in Pruning
      /\ copy[w].todo = {}
      /\ artifacts' = [a \in Numbers |-> IF a \in gone THEN "deleted" ELSE artifacts[a]]
      /\ linked' = linked \ gone
      /\ runs' = [r \in Runs |->
           IF runs[r].artifact \in gone THEN [runs[r] EXCEPT !.artifact = 0]
           ELSE runs[r]]
      /\ Proceed(w, "leave")
      /\ UNCHANGED <<due, files, lock, copy, trouble>>

-----------------------------------------------------------------------------
(* Failure. *)

\* A statement of the attempt throws; createBackup marks its artifact first.
Throw(w) ==
  /\ stage[w] \in Attempting
  /\ Trouble
  /\ Proceed(w, CASE stage[w] \in {"store", "complete"} -> "failArtifact"
               [] stage[w] \in {"catch", "giveUp"}   -> "leave"
               [] OTHER                           -> "catch")
  /\ copy' = [copy EXCEPT ![w].todo = {}, ![w].pruned = {}]
  /\ UNCHANGED <<due, runs, artifactTables, lock>>

\* The run waits for its next attempt ...
ScheduleRetry(w) ==
  /\ stage[w] = "catch"
  /\ copy[w].attempt <= RetryLimit
  /\ runs' = [runs EXCEPT ![copy[w].run].status = "RETRY_SCHEDULED"]
  /\ Proceed(w, "leave")
  /\ UNCHANGED <<due, artifactTables, lock, copy, trouble>>

\* ... or has failed: no attempt is left, or the error is permanent.
FailRun(w, status) ==
  /\ stage[w] = "catch"
  /\ status = "EXHAUSTED_RETRIES" => copy[w].attempt > RetryLimit
  /\ runs' = [runs EXCEPT ![copy[w].run].status = status]
  /\ Proceed(w, "giveUp")
  /\ UNCHANGED <<due, artifactTables, lock, copy, trouble>>

GiveUp(w) ==
  /\ stage[w] = "giveUp"
  /\ due' = FALSE
  /\ Proceed(w, "leave")
  /\ UNCHANGED <<runs, artifactTables, lock, copy, trouble>>

\* finally: the lock is taken back in some session; after a retry the tick
\* goes on.
Leave(w, own) ==
  /\ stage[w] = "leave"
  /\ lock' = IF copy[w].for = "request" THEN lock ELSE AfterUnlock(own)
  /\ Proceed(w, IF copy[w].for = "retry" THEN "next" ELSE "idle")
  /\ copy' = [copy EXCEPT ![w] = [Idle EXCEPT !.retries = copy[w].retries]]
  /\ UNCHANGED <<due, runs, artifactTables, trouble>>

\* The process stops, with all its workers and sessions.
Crash ==
  /\ \E w \in Workers : stage[w] # "idle"
  /\ Trouble
  /\ stage' = [w \in Workers |-> "idle"]
  /\ copy' = [w \in Workers |-> Idle]
  /\ lock' = 0
  /\ UNCHANGED <<due, runs, artifactTables>>

-----------------------------------------------------------------------------

\* The statements of a worker that has started.
Continue(w) ==
  \/ \E waiting \in SUBSET Runs : SelectRetries(w, waiting)
  \/ \E r \in Runs, own \in BOOLEAN : TakeRetry(w, r, own)
  \/ SelectJob(w)
  \/ \E own \in BOOLEAN : TakeJob(w, own)
  \/ \E r \in Runs : CreateRun(w, r)
  \/ LoadRun(w) \/ BeginAttempt(w)
  \/ \E a \in Numbers : InsertArtifact(w, a)
  \/ StoreArchive(w) \/ CompleteArtifact(w) \/ FailArtifact(w)
  \/ LinkArtifact(w) \/ Succeed(w) \/ Reschedule(w)
  \/ BeginRetention(w)
  \/ \E a \in Numbers : Prune(w, a)
  \/ CommitRetention(w)
  \/ ScheduleRetry(w)
  \/ \E status \in {"FAILED", "EXHAUSTED_RETRIES"} : FailRun(w, status)
  \/ GiveUp(w)
  \/ \E own \in BOOLEAN : Leave(w, own)

BackupNext ==
  \/ ComeDue \/ CloseSession \/ Crash
  \/ \E w \in Workers : Tick(w) \/ Request(w) \/ Continue(w) \/ Throw(w)
  \/ \E w \in Workers :
       \/ \E a \in Numbers : PruneFails(w, a)
       \/ \E unheard \in (SUBSET Runs) \ {{}} : TickUnheard(w, unheard)

(* A statement that was issued is answered, and the interval timer of the   *)
(* scheduler fires again and again.                                         *)
Fairness ==
  /\ \A w \in Workers : WF_backupVars(Continue(w))
  /\ WF_backupVars(\E w \in Workers : Tick(w))

BackupSpec == BackupInit /\ [][BackupNext]_backupVars /\ Fairness

-----------------------------------------------------------------------------
(* Properties. *)

Statuses == {"none", "QUEUED", "RUNNING", "RETRYING", "RETRY_SCHEDULED",
             "SUCCESS", "FAILED", "EXHAUSTED_RETRIES"}

Labels == {"idle", "select", "next", "lock", "create", "load", "begin", "leave"}
            \cup Attempting

Copies == [retries : SUBSET Runs, for : {"nothing", "retry", "job", "request"},
           run : Runs \cup {NoRun}, attempt : Nat, artifact : Numbers \cup {0},
           todo : SUBSET Numbers, pruned : SUBSET Numbers]

BackupTypeOK ==
  /\ due \in BOOLEAN
  /\ runs \in [Runs -> [status : Statuses, attempt : 0 .. AttemptLimit,
                        artifact : Numbers \cup {0}]]
  /\ artifacts \in [Numbers -> {"none", "RUNNING", "COMPLETED", "FAILED", "deleted"}]
  /\ linked \in SUBSET Numbers
  /\ files \in SUBSET Numbers
  /\ lock \in Nat
  /\ stage \in [Workers -> Labels]
  /\ copy \in [Workers -> Copies]
  /\ trouble \in 0 .. MaxTrouble

\* However ticks, requests and retentions overlap, and wherever they fail or
\* the process stops, the newest KeepCount backups of the job are complete and
\* their archives are in the storage: each was stored before its row was
\* completed, and what retention deletes has that many newer ones.
NewestAreRestorable ==
  \A a \in linked : Cardinality(Newer(a)) < KeepCount =>
    artifacts[a] = "COMPLETED" /\ a \in files

\* A run does not stay RUNNING: it ends, or is scheduled again by a tick after
\* its worker is gone.
RunningEnds == \A r \in Runs : []<>(runs[r].status # "RUNNING")

-----------------------------------------------------------------------------
(* Statements of the documentation that the code does not keep. *)

\* "If an API process crashed during a backup, ... the next scheduler tick
\* automatically reclaims runs where heartbeat > 30 seconds old."  Only those
\* that are RUNNING: a run is RETRYING in all attempts but its first.
CrashedRunsAreReclaimed ==
  \A r \in Runs : runs[r].status = "RETRYING" ~> runs[r].status # "RETRYING"

\* "Background ticks acquire a PostgreSQL advisory lock.  If a run is already
\* executing, concurrent runs are skipped."
OneRunAtATime ==
  \A v, w \in Workers :
    (\A u \in {v, w} : stage[u] \in Attempting /\ copy[u].for # "request") => v = w

=============================================================================
