------------------------- MODULE IngestionScheduler -------------------------
(***************************************************************************)
(* PersistentIngestionScheduler and scheduler_runner: cron processes that  *)
(* share one row per job in ingestion_schedule_states.                     *)
(*                                                                         *)
(* A process reads the clock once, when its cycle starts, and walks the    *)
(* jobs in catalog order.  For each job it claims the row (SELECT ... FOR  *)
(* UPDATE and the COMMIT are one step: the lock is held in between), runs  *)
(* it, reads the row again without a lock and writes back the columns the  *)
(* result changed.  A row that is missing cannot be locked, so a first     *)
(* claim is a read and an INSERT with another process possible in between. *)
(***************************************************************************)
EXTENDS Integers

CONSTANTS
  Procs,       \* cron executions that may be alive at once
  LastJob,     \* the catalog is the jobs 1 .. LastJob, in this order
  Enabled,     \* the enabled ones
  Interval,    \* interval_seconds of each job
  RetryDelay,  \* FAILED_RETRY_SECONDS
  CycleLimit,  \* environment: how long a cycle may last
  MaxTime,     \* bound: when the clock stops
  MaxCrashes,  \* bound: how many processes may be killed
  None

Jobs == 1 .. LastJob

Statuses == {"success", "failed"}

\* A row of ingestion_schedule_states; status is last_status.
State == [next    : Nat,
          updated : Nat,
          status  : Statuses \cup {"none"}]

ASSUME SchedulerAssumption ==
  /\ LastJob \in Nat \ {0}
  /\ Enabled \subseteq Jobs
  /\ Interval \in [Jobs -> Nat \ {0}]
  /\ RetryDelay \in Nat \ {0}
  /\ CycleLimit \in Nat
  /\ \A j \in Jobs : CycleLimit < Interval[j]
  /\ CycleLimit < RetryDelay
  /\ MaxTime \in Nat
  /\ MaxCrashes \in Nat
  /\ None \notin Int \cup State

Running == {"run", "read", "write"}
Stages == {"off", "select", "insert", "aborted"} \cup Running

VARIABLES
  clock,
  row,       \* the table: Jobs -> State or None
  stage,     \* where each process is
  at,        \* the job it is at
  now,       \* the time its cycle started, its idea of the time
  result,    \* status of the run it has just finished ...
  finished,  \* ... and when
  snap,      \* the row as _record_result read it
  crashes,
  claimed    \* history: the time of the last claim of each job

vars == <<clock, row, stage, at, now, result, finished, snap, crashes, claimed>>

TypeOK ==
  /\ clock \in Nat
  /\ row \in [Jobs -> State \cup {None}]
  /\ stage \in [Procs -> Stages]
  /\ at \in [Procs -> Jobs]
  /\ now \in [Procs -> Nat]
  /\ result \in [Procs -> Statuses \cup {"none"}]
  /\ finished \in [Procs -> Nat]
  /\ snap \in [Procs -> State \cup {None}]
  /\ crashes \in Nat
  /\ claimed \in [Jobs -> Nat \cup {None}]

Init ==
  /\ clock = 0
  /\ row = [j \in Jobs |-> None]
  /\ stage = [p \in Procs |-> "off"]
  /\ at = [p \in Procs |-> 1]
  /\ now = [p \in Procs |-> 0]
  /\ result = [p \in Procs |-> "none"]
  /\ finished = [p \in Procs |-> 0]
  /\ snap = [p \in Procs |-> None]
  /\ crashes = 0
  /\ claimed = [j \in Jobs |-> None]
-----------------------------------------------------------------------------
Sooner(a, b) == IF a <= b THEN a ELSE b

\* Mutant: a failed job is due again at once.
DueAtOnce(r) == IF r.status = "failed" THEN r.updated ELSE r.next

\* When the row lets its job run: a failed job after RetryDelay at the latest.
Due(r) ==
  IF r.status = "failed" THEN Sooner(r.next, r.updated + RetryDelay) ELSE r.next

Goto(p, st) == stage' = [stage EXCEPT ![p] = st]

\* The process is gone, and with it what it knew.
Leave(p) ==
  /\ Goto(p, "off")
  /\ at' = [at EXCEPT ![p] = 1]
  /\ now' = [now EXCEPT ![p] = 0]

\* The loop of run_due goes to the next job, or the process exits.
Advance(p) ==
  IF at[p] = LastJob
    THEN Leave(p)
    ELSE /\ Goto(p, "select")
         /\ at' = [at EXCEPT ![p] = @ + 1]
         /\ UNCHANGED now

ForgetRun(p) ==
  /\ snap' = [snap EXCEPT ![p] = None]
  /\ result' = [result EXCEPT ![p] = "none"]
  /\ finished' = [finished EXCEPT ![p] = 0]

\* The claim is committed under the time the cycle started with.
Claim(p, st) ==
  /\ row' = [row EXCEPT ![at[p]] =
       [next |-> now[p] + Interval[at[p]], updated |-> now[p], status |-> st]]
  /\ claimed' = [claimed EXCEPT ![at[p]] = now[p]]
  /\ Goto(p, "run")
  /\ UNCHANGED <<at, now>>

Start(p) ==
  /\ stage[p] = "off"
  /\ Goto(p, "select")
  /\ at' = [at EXCEPT ![p] = 1]
  /\ now' = [now EXCEPT ![p] = clock]
  /\ UNCHANGED <<clock, row, result, finished, snap, crashes, claimed>>

\* Mutant: the due time is not compared.
SelectAny(p) ==
  /\ stage[p] = "select"
  /\ \/ /\ at[p] \notin Enabled
        /\ Advance(p)
        /\ UNCHANGED <<row, claimed>>
     \/ /\ at[p] \in Enabled
        /\ row[at[p]] = None
        /\ Goto(p, "insert")
        /\ UNCHANGED <<at, now, row, claimed>>
     \/ /\ at[p] \in Enabled
        /\ row[at[p]] # None
        /\ Claim(p, row[at[p]].status)
  /\ UNCHANGED <<clock, result, finished, snap, crashes>>

\* Mutant: a job without a row is passed over.
SelectKnown(p) ==
  /\ stage[p] = "select"
  /\ \/ /\ at[p] \in Enabled => row[at[p]] = None
        /\ Advance(p)
        /\ UNCHANGED <<row, claimed>>
     \/ /\ at[p] \in Enabled
        /\ row[at[p]] # None
        /\ Due(row[at[p]]) > now[p]
        /\ Advance(p)
        /\ UNCHANGED <<row, claimed>>
     \/ /\ at[p] \in Enabled
        /\ row[at[p]] # None
        /\ Due(row[at[p]]) <= now[p]
        /\ Claim(p, row[at[p]].status)
  /\ UNCHANGED <<clock, result, finished, snap, crashes>>

\* _claim finds a row under its lock: claim it if it is due.
Select(p) ==
  /\ stage[p] = "select"
  /\ \/ /\ at[p] \notin Enabled
        /\ Advance(p)
        /\ UNCHANGED <<row, claimed>>
     \/ /\ at[p] \in Enabled
        /\ row[at[p]] = None
        /\ Goto(p, "insert")
        /\ UNCHANGED <<at, now, row, claimed>>
     \/ /\ at[p] \in Enabled
        /\ row[at[p]] # None
        /\ Due(row[at[p]]) > now[p]
        /\ Advance(p)
        /\ UNCHANGED <<row, claimed>>
     \/ /\ at[p] \in Enabled
        /\ row[at[p]] # None
        /\ Due(row[at[p]]) <= now[p]
        /\ Claim(p, row[at[p]].status)
  /\ UNCHANGED <<clock, result, finished, snap, crashes>>

\* _claim found no row: the INSERT of a new one, due at once.  When another
\* process has inserted it meanwhile, the primary key raises and the exception
\* leaves run_due: the rest of the cycle is lost.
Insert(p) ==
  /\ stage[p] = "insert"
  /\ \/ row[at[p]] = None /\ Claim(p, "none")
     \/ row[at[p]] # None /\ Goto(p, "aborted") /\ UNCHANGED <<at, now, row, claimed>>
  /\ UNCHANGED <<clock, result, finished, snap, crashes>>

\* run_job returns: every failure of the source comes back as a result.
Finish(p, st) ==
  /\ stage[p] = "run"
  /\ Goto(p, "read")
  /\ result' = [result EXCEPT ![p] = st]
  /\ finished' = [finished EXCEPT ![p] = clock]
  /\ UNCHANGED <<clock, row, at, now, snap, crashes, claimed>>

\* _record_result: db.get, without a lock.
ReadState(p) ==
  /\ stage[p] = "read"
  /\ snap' = [snap EXCEPT ![p] = row[at[p]]]
  /\ Goto(p, "write")
  /\ UNCHANGED <<clock, row, at, now, result, finished, crashes, claimed>>

\* Mutant: a success keeps the status of the run before.
RecordedFailureOnly(p) ==
  [next    |-> IF result[p] = "failed"
                 THEN Sooner(snap[p].next, finished[p] + RetryDelay)
                 ELSE snap[p].next,
   updated |-> finished[p],
   status  |-> IF result[p] = "failed" THEN "failed" ELSE snap[p].status]

\* The row _record_result wants: a failure is due again after RetryDelay.
Recorded(p) ==
  [next    |-> IF result[p] = "failed"
                 THEN Sooner(snap[p].next, finished[p] + RetryDelay)
                 ELSE snap[p].next,
   updated |-> finished[p],
   status  |-> result[p]]

\* The UPDATE carries only the columns that differ from what was read.
Pick(current, read, new) == IF new # read THEN new ELSE current

WriteState(p) ==
  /\ stage[p] = "write"
  /\ LET j == at[p]
         r == Recorded(p) IN
       row' = [row EXCEPT ![j] =
         [next    |-> Pick(row[j].next, snap[p].next, r.next),
          updated |-> Pick(row[j].updated, snap[p].updated, r.updated),
          status  |-> Pick(row[j].status, snap[p].status, r.status)]]
  /\ Advance(p)
  /\ ForgetRun(p)
  /\ UNCHANGED <<clock, crashes, claimed>>

\* The process is killed, or the database raises in _claim or _record_result:
\* nothing of the transaction at hand is kept, and the cycle ends.
Crash(p) ==
  /\ stage[p] \notin {"off", "aborted"}
  /\ crashes < MaxCrashes
  /\ crashes' = crashes + 1
  /\ Leave(p)
  /\ ForgetRun(p)
  /\ UNCHANGED <<clock, row, claimed>>

\* The process exits with the traceback.
Exit(p) ==
  /\ stage[p] = "aborted"
  /\ Leave(p)
  /\ UNCHANGED <<clock, row, result, finished, snap, crashes, claimed>>

\* Time passes, as long as no living cycle is older than CycleLimit.
Tick ==
  /\ clock < MaxTime
  /\ \A p \in Procs : stage[p] # "off" => clock < now[p] + CycleLimit
  /\ clock' = clock + 1
  /\ UNCHANGED <<row, stage, at, now, result, finished, snap, crashes, claimed>>

Work(p) ==
  \/ Select(p)
  \/ Insert(p)
  \/ \E st \in Statuses : Finish(p, st)
  \/ ReadState(p)
  \/ WriteState(p)
  \/ Exit(p)

Next ==
  \/ \E p \in Procs : Start(p) \/ Work(p) \/ Crash(p)
  \/ Tick

Spec == Init /\ [][Next]_vars

\* A process that runs makes progress, cron starts the next cycle, and the
\* clock does not stop before MaxTime.  A killed process stays killed.
Fairness ==
  /\ \A p \in Procs : WF_vars(Work(p)) /\ WF_vars(Start(p))
  /\ WF_vars(Tick)

FairSpec == Spec /\ Fairness
-----------------------------------------------------------------------------
(* Properties *)

InRun(p) == stage[p] \in Running

\* One process at a time runs a job and records its result, for as long as
\* cycles are shorter than the shortest interval and than RetryDelay: the claim
\* is a lease, nothing else keeps a second process away.
OneRunPerJob ==
  \A p, q \in Procs : InRun(p) /\ InRun(q) /\ at[p] = at[q] => p = q

\* Two claims of a job are at least the shorter of its interval and RetryDelay
\* apart, also when the run in between failed, crashed or was recorded late;
\* after a success they are a whole interval apart.
ClaimsSpaced ==
  [][\A j \in Jobs :
       claimed'[j] # claimed[j] /\ claimed[j] # None =>
         claimed'[j] >= claimed[j] +
           IF row[j].status = "success" THEN Interval[j]
           ELSE Sooner(Interval[j], RetryDelay)]_vars

\* What _record_result commits is this run's outcome: nobody has changed the
\* row between its unlocked read and its write.
ResultRecorded ==
  [][\A p \in Procs :
       stage[p] = "write" /\ stage'[p] # "write" /\ crashes' = crashes =>
         LET r == row'[at[p]] IN
           /\ r.status = result[p]
           /\ r.updated = finished[p]
           /\ result[p] = "success" => r.next = claimed[at[p]] + Interval[at[p]]
           /\ result[p] = "failed" => r.next <= finished[p] + RetryDelay]_vars

\* A job that is due is run before long, whatever crashed or aborted: no row
\* stays due for ever.
Overdue(j) == row[j] = None \/ Due(row[j]) <= clock

NoJobStarves == \A j \in Enabled : []<>(~Overdue(j))
=============================================================================
