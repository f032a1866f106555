----------------------------- MODULE IngestionRun -----------------------------
(***************************************************************************)
(* IngestionOrchestrator.run_job on top of the draw store.                 *)
(*                                                                         *)
(* A worker runs its job again and again.  A run has up to MaxAttempts     *)
(* attempts, each with a database session of its own: fetch the source,    *)
(* get a batch of records, and persist them one by one.  Every record is   *)
(* committed by itself, so an attempt that fails half way leaves what it   *)
(* has persisted.  The other sessions are REST requests.                   *)
(***************************************************************************)
EXTENDS DrawStore, Naturals, Sequences

CONSTANTS
  Workers,      \* the sessions that belong to ingestion jobs
  JobLottery,   \* job.lottery_code of each worker
  Batches,      \* what the pipeline may return: sequences of records
  MaxAttempts   \* job.max_attempts

Members(b) == {b[k] : k \in 1 .. Len(b)}

\* Two records that claim to be the same draw.
SameIdentity(r, q) ==
  /\ r.series = q.series
  /\ r.date = q.date \/ (r.number # None /\ r.number = q.number)

ASSUME IngestionRunAssumption ==
  /\ Workers \subseteq Sessions
  /\ JobLottery \in [Workers -> Lotteries]
  /\ Batches \subseteq Seq(Records)
  /\ MaxAttempts \in Nat \ {0}

VARIABLES
  phase,    \* where the run of each worker is
  attempt,
  batch,    \* the last batch the pipeline returned
  pos,      \* the record of it that is next
  report,   \* IngestionRunResult.status of the last run
  quiet,    \* history: nobody else committed since the batch was fetched
  done      \* history: records of the batch persisted, nobody else since

run == <<phase, attempt, batch, pos, report, quiet, done>>
runVars == <<vars, run>>

RunTypeOK ==
  /\ phase \in [Workers -> {"off", "fetch", "persist", "stored"}]
  /\ attempt \in [Workers -> 1 .. MaxAttempts]
  /\ batch \in [Workers -> Batches \cup {<<>>}]
  /\ pos \in [Workers -> Nat]
  /\ \A p \in Workers : pos[p] \in 1 .. Len(batch[p]) + 1
  /\ report \in [Workers -> {"none", "success", "failed"}]
  /\ quiet \in [Workers -> BOOLEAN]
  /\ done \in [Workers -> SUBSET Records]

RunInit ==
  /\ Init
  /\ phase = [p \in Workers |-> "off"]
  /\ attempt = [p \in Workers |-> 1]
  /\ batch = [p \in Workers |-> <<>>]
  /\ pos = [p \in Workers |-> 1]
  /\ report = [p \in Workers |-> "none"]
  /\ quiet = [p \in Workers |-> TRUE]
  /\ done = [p \in Workers |-> {}]
-----------------------------------------------------------------------------
GoOn(p, ph) == phase' = [phase EXCEPT ![p] = ph]

Start(p) ==
  /\ phase[p] = "off"
  /\ GoOn(p, "fetch")
  /\ attempt' = [attempt EXCEPT ![p] = 1]
  /\ report' = [report EXCEPT ![p] = "none"]
  /\ UNCHANGED <<vars, batch, pos, quiet, done>>

\* The pipeline returns a batch.
Fetched(p, b) ==
  /\ phase[p] = "fetch"
  /\ GoOn(p, "persist")
  /\ batch' = [batch EXCEPT ![p] = b]
  /\ pos' = [pos EXCEPT ![p] = 1]
  /\ quiet' = [quiet EXCEPT ![p] = TRUE]
  /\ done' = [done EXCEPT ![p] = IF b = batch[p] THEN @ ELSE {}]
  /\ UNCHANGED <<vars, attempt, report>>

\* An attempt has failed with an error that is worth another one.
Retries(p) ==
  IF attempt[p] < MaxAttempts
    THEN /\ GoOn(p, "fetch")
         /\ attempt' = [attempt EXCEPT ![p] = @ + 1]
         /\ UNCHANGED report
    ELSE /\ GoOn(p, "off")
         /\ report' = [report EXCEPT ![p] = "failed"]
         /\ UNCHANGED attempt

GivesUp(p) ==
  /\ GoOn(p, "off")
  /\ report' = [report EXCEPT ![p] = "failed"]
  /\ UNCHANGED attempt

\* Fetching, parsing or normalising raises a SourceIngestionError.
FetchFails(p) ==
  /\ phase[p] = "fetch"
  /\ Retries(p)
  /\ UNCHANGED <<vars, batch, pos, quiet, done>>

Foreign(p) == LotteryOf(batch[p][pos[p]].series) # JobLottery[p]

\* A record of another lottery: ValueError, which is retried.
RefuseForeign(p) ==
  /\ phase[p] = "persist"
  /\ pos[p] <= Len(batch[p])
  /\ Foreign(p)
  /\ Retries(p)
  /\ UNCHANGED <<vars, batch, pos, quiet, done>>

PersistNext(p) ==
  /\ phase[p] = "persist"
  /\ pos[p] <= Len(batch[p])
  /\ ~Foreign(p)
  /\ Begin(p, Persist(batch[p][pos[p]]))
  /\ GoOn(p, "stored")
  /\ UNCHANGED <<attempt, batch, pos, report, quiet, done>>

\* Mutant: a new attempt finds the rows the last one had loaded.
KeepSession(p) ==
  /\ Goto(p, "idle")
  /\ req' = [req EXCEPT ![p] = NoRequest]
  /\ hit' = [hit EXCEPT ![p] = None]
  /\ target' = [target EXCEPT ![p] = None]
  /\ want' = [want EXCEPT ![p] = None]
  /\ overlap' = [overlap EXCEPT ![p] = FALSE]
  /\ UNCHANGED <<lotteries, draws, used, loaded>>

\* Nothing refers to a loaded row once persist_raw_record has returned, and the
\* identity map is weak; a failed attempt rolls its session back and closes it.
Release(p) == Return(p)

Stored(p) ==
  /\ phase[p] = "stored"
  /\ pc[p] = "ok"
  /\ Release(p)
  /\ GoOn(p, "persist")
  /\ pos' = [pos EXCEPT ![p] = @ + 1]
  /\ done' = [done EXCEPT ![p] =
       IF overlap[p] THEN @ ELSE @ \cup {batch[p][pos[p]]}]
  /\ UNCHANGED <<attempt, batch, report, quiet>>

\* Mutant: a rejected record is skipped.
SkipsRejected(p) ==
  /\ phase[p] = "stored"
  /\ pc[p] \in {"404", "409"}
  /\ Release(p)
  /\ GoOn(p, "persist")
  /\ pos' = [pos EXCEPT ![p] = @ + 1]
  /\ UNCHANGED <<attempt, batch, report, quiet, done>>

\* 404 and 409 are final: the run ends at once, whatever was persisted.
Rejected(p) ==
  /\ phase[p] = "stored"
  /\ pc[p] \in {"404", "409"}
  /\ Release(p)
  /\ GivesUp(p)
  /\ UNCHANGED <<batch, pos, quiet, done>>

\* Any other exception of the store is worth another attempt.
Breaks(p) ==
  /\ phase[p] = "stored"
  /\ pc[p] = "error"
  /\ Release(p)
  /\ Retries(p)
  /\ UNCHANGED <<batch, pos, quiet, done>>

\* Every record is persisted, also when there is none.
Completes(p) ==
  /\ phase[p] = "persist"
  /\ pos[p] > Len(batch[p])
  /\ GoOn(p, "off")
  /\ report' = [report EXCEPT ![p] = "success"]
  /\ UNCHANGED <<vars, attempt, batch, pos, quiet, done>>

\* The histories of the others end when session s commits a change.
Interfere(s) ==
  IF UNCHANGED <<lotteries, draws>>
    THEN UNCHANGED <<quiet, done>>
    ELSE /\ quiet' = [p \in Workers |-> p = s /\ quiet[p]]
         /\ done' = [p \in Workers |-> IF p = s THEN done[p] ELSE {}]

\* A session works at its request: the steps of DrawStore.
Serve(s) ==
  /\ pc[s] \in Working
  /\ Step(s) \/ Fail(s)
  /\ Interfere(s)
  /\ UNCHANGED <<phase, attempt, batch, pos, report>>

\* The other sessions: administrators.
Ask(s, r) == Begin(s, r) /\ UNCHANGED run
Answer(s) == Return(s) /\ UNCHANGED run

Work(p) ==
  \/ \E b \in Batches : Fetched(p, b)
  \/ FetchFails(p)
  \/ RefuseForeign(p)
  \/ PersistNext(p)
  \/ Stored(p)
  \/ Rejected(p)
  \/ Breaks(p)
  \/ Completes(p)

RunNext ==
  \/ \E p \in Workers : Start(p) \/ Work(p)
  \/ \E s \in Sessions : Serve(s)
  \/ \E s \in Sessions \ Workers :
       \/ \E r \in Requests \ Ingestions : Ask(s, r)
       \/ Answer(s)

RunSpec == RunInit /\ [][RunNext]_runVars
-----------------------------------------------------------------------------
(* Properties *)

\* Different draws by date and by number, and numbered all of them or none: the
\* row that takes a record without a number may have one, and a record of that
\* number that comes behind it moves the row to its own date.
DifferentDraws(b) ==
  \A k, l \in 1 .. Len(b) :
    /\ SameIdentity(b[k], b[l]) => k = l
    /\ b[k].number = None => b[l].number = None

\* The row has all the record says.
Carries(row, rec) == Compatible(row, rec) /\ Refreshed(row, rec) = row

\* "persists canonical records idempotently": a run reported as a success has
\* stored every record of its batch, as long as they are different draws and
\* nobody else has committed since the batch was fetched.
SuccessMeansStored ==
  \A p \in Workers :
    /\ phase[p] = "off"
    /\ report[p] = "success"
    /\ quiet[p]
    /\ DifferentDraws(batch[p])
    => \A r \in Members(batch[p]) :
         \E i \in ByDate(r) : Carries(draws[i], r)

\* A retry, or the next run, that finds the same batch leaves the draws it has
\* already persisted as they are: no duplicate, no row moved back and forth.
RetryWritesNothing ==
  [][\A p \in Workers :
       /\ phase[p] = "stored"
       /\ DifferentDraws(batch[p])
       /\ batch[p][pos[p]] \in done[p]
       /\ pc[p] # pc'[p]
       => UNCHANGED draws]_runVars

\* The workers use the store as DrawStore says a session does.
ImplementsStore == Spec
=============================================================================
