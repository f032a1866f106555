# Lotto Analítica AI backend: specifications and proofs

TLA+ models of the backend in `src/`, the TLC configurations that check them
on small instances, and TLAPS proofs of the properties that matter most. All
module names below are files of this directory; paths such as
`app/services/lottery_draw_service.py` are relative to `src/`.

## 1. The system

The backend keeps the results of Colombian lotteries. Cron processes fetch the
operators' pages and store the draws; a FastAPI process serves them, with
statistics and with "predictions" that Gemini writes. PostgreSQL is the only
durable state and every process, thread and request shares it at READ
COMMITTED. Redis holds the counters that limit logins and predictions.

| Component | State it keeps | Operations | How it meets the others |
|---|---|---|---|
| Draw store (`lottery_draw_service.py`, `lottery_draw_repository.py`, `models/`) | table `lottery_draws`, two unique constraints per series, foreign key to `lotteries` | `persist_raw_record` (ingestion), create, update, delete, cascade of `delete_lottery` | called by every ingestion and by the REST routes, each in a session of its own |
| Ingestion run (`sources/orchestrator.py`) | none of its own; one commit per record | `run_job`: fetch, parse, persist, retry | from the persistent scheduler and `POST /ingestion` |
| Persistent scheduler (`sources/scheduler.py`, `scheduler_runner.py`) | table `ingestion_schedule_states`, one row per job | claim, run, `_record_result` | cron processes that may overlap |
| Draw calendar (`scheduler/draw_schedule.py`, `dated_schedule.py`) | none | `due_draws`, `evaluate_schedule`, `DatedSchedule.is_due`, `as_scheduled_draw` | asked by the controlled scheduler |
| Controlled scheduler (`scripts/run_scheduler.py`, `scheduler/runner.py`, `executor.py`, `catalog_integration.py`) | draws and lotteries | one cycle: due groups, fetch, look up the lottery, persist, report | cron processes that may overlap |
| Rate limiting and login (`core/rate_limit.py`, `routes/auth.py`, `/health`) | counters in Redis, or in the process; the client itself | `allow`, `reset`, `health_check` | threads of the API process |
| Administrator bootstrap (`routes/auth.py`, `cli/`) | table `users` | register, bootstrap command, password reset | an advisory lock of PostgreSQL |
| Requests and connections (`db/session.py`, `dependencies/auth.py`, `main.py`, `prediction_service.py`, `gemini_client.py`) | SQLAlchemy's pool, worker threads | authenticate, run a route, ask Gemini, close | every request of the API |
| Lottery registry (`lottery_service.py`) | table `lotteries` | create, update, delete, migration of codes | foreign key of the draws, look-up by the executor |
| Acta fetcher (`sources/fetchers.py`) | none that outlives a fetch | index, scan, expansion, bisection, one HTTP request each | called by the pipelines of ingestion |
| Result parsers (`sources/parsers.py`, `four_digit_parsers.py`, `provider_parser_adapter.py`, `traditional_lottery_components.py`), chosen by `catalog.py` | none | one page in, records out: number, date, result and series of a draw | between the fetchers and the adapters of a pipeline |
| Statistics, prediction contract, normaliser (`statistical_service.py`, `prediction_service.py`, `gemini_validator.py`, `normalizer.py`) | none | one SELECT and a computation over what the writers have stored | read the draws that ingestion and REST write |
| Fetcher of Risaralda (`fetchers.py`) | none that outlives a fetch | two requests whose pages are joined | called by the pipelines of ingestion |
| Embedded frames, adapters, registries | none | pure functions, or HTTP requests in a fixed order | feed the components above |

What is hard in it:

* **Check-then-act without locks.** Every write path reads with plain SELECTs
  and writes later. What keeps identities unique are the constraints; what
  keeps a retry harmless is the comparison with a row that may be stale.
* **Identity map.** SQLAlchemy keeps a row as the session first saw it and its
  UPDATE writes only the columns that differ, so two writers can mix rows.
* **Leases instead of locks.** A claim of the scheduler commits before the job
  runs. Nothing but time keeps a second process away, or brings a crashed job
  back.
* **Partial failure.** An attempt fails between two commits; Redis fails after
  it has counted; a request fails with its connection checked out.
* **Calendars read three ways**, at the edges of a day, of a tolerance and of
  a holiday.
* **Two resources taken one after the other**: a request holds a connection
  and waits for a thread, another holds a thread and waits for a connection.

* **A remote site that can only be guessed at.** The newest acta is searched for
  by asking for URLs; a failed request looks like an acta that is not there, and
  placeholders look like actas.
* **Writers and readers that validate apart.** Ingestion, REST and the readers
  each have their own idea of a list of numbers, and one draw a reader refuses
  stops the reading of its whole lottery.
* **Pages that move.** A page announces a draw, shows it, and keeps old ones below
  or above it. The parsers put a record together from what stands near, so every
  layout and every moment of a page is another chance to join two draws.

`PROJECT.json` lists the components one by one with what is left out of each,
and every hazard at its line with the properties that are there for it.

## 2. Modules

```
DrawTable        what the table of draws promises
  ^ implemented by            ^ whose changes feed
DrawStore                    DrawReadings
  ^ extended, and implemented again, by
IngestionRun
DrawCalendar     <- CalendarClock, ControlledScheduler
ResultPage, CalendarClock     <- ResultWatch
IngestionScheduler   RateLimiter   AdminBootstrap   RequestPool   ActaDiscovery
```

`MC<module>` instantiates a module for TLC and `<module>Proofs` holds its
theorems, but for two modules of proofs that are about two modules each:
`IngestionRunProofs` (`DrawStore` and `IngestionRun`) and `RequestProofs`
(`RequestPool` and `DrawReadings`, what a request takes and what it reads). Mutants (operators marked as such, placed before the definition they
replace) are plausible bugs; each property is shown to fail under one.

**DrawStore** is `LotteryDrawService` and its repository. A session has a
program counter `pc[s]` that names the statement it is about to run (`lottery`,
`number`, `date`, `insert`, `write`, ...), so that any other session can commit
in between. `draws` and `lotteries` are the tables, `used` the ids handed out,
`loaded[s]` the identity map, `want[s]` the row the session would like,
`overlap[s]` a history variable (someone else committed meanwhile). Flush and
COMMIT of an operation are one step, as no other session sees the first
without the second. A record carries what the code compares: two identities
(number, date), numbers, an optional core field, a semantic metadata key, the
source with its host family, and `source_verified`.

**DrawTable** is the abstract specification: one atomic change at a time, each
of them leaving one draw per number and per date and no draw without its
lottery. `DrawStore` implements it with the identity as refinement mapping on
`lotteries`, `draws`, `used`; the sessions are what is hidden.

**IngestionRun** composes `run_job` with the store: a worker is a session that
persists a batch record after record, one commit each, and starts another
attempt after a retryable failure. The pages are free: each attempt may find
any of the batches. The other sessions are REST requests. `ImplementsStore`
says that the composition is still a `DrawStore`, so what is proved there holds
here.

**IngestionScheduler** has the rows of `ingestion_schedule_states`, and
processes that read the clock once and walk the jobs. `SELECT ... FOR UPDATE`
with its COMMIT is one step when the row exists; when it does not there is
nothing to lock, and the read and the INSERT are two. `claimed` is a history
variable. A crash kills a process at any step, for good.

**DrawCalendar** translates the three readings as operators over a record per
schedule, with minutes for time. **CalendarClock** lets a clock run over any of
the schedules, holidays and dated calendars of its instance. **ControlledScheduler**
uses the same operators for whole cycles of processes that overlap each other,
changing pages, deletions, registrations and the migration of codes. A group of
the cycle (a code and a draw type) is known by the position of its first schedule
in `AllSchedules`, so `queue[p]` is a set of positions and `Turn(p)` its least.

**ResultPage** has the parsers as operators. A page is a sequence of texts; a
text has a label (which kind of pattern recognises it) and the draw it is about,
which no parser looks at: the parser sees order and distance, and the properties
compare the draws of what it has put together. `Merit`, `DateNear`, `NearestDraw`
are the sort keys of `TraditionalLotteryHtmlParser.parse` and `_parse_date`;
`Follow` and `Matches` are `search` and `finditer` on patterns joined by lazy
gaps; `Part` is the window of the boletin; tables and JSON are rows with the
labels they show. `Reading` is a pipeline of the catalog, from page to records.

**ResultWatch** extends `CalendarClock` by the page of one source: as the days of
its schedule pass, `Announce` and `Publish` change `page` (per game the results it
has, latest first, and the day it announces), and `Readings` is what a job would
read at this very moment. `primary` is the first of the two requests of
`RisaraldaOfficialSourceFetcher`, between which the other page may change. The
operator's behaviour is the environment: a result comes out when the draw's time
has come or later, or never. A result is shown by the texts of the template `full`
of its site and a notice by those of `pending`, each with its own widths; `Tables`
are the entries as rows, `Body` is the same page flattened to texts. `LaidOut` says
what each parser takes for granted of the page it is written for: that a game's first
entry is its newest (`NewestFirst`), that behind the first part of a pattern an entry
has the others (`Followed`), that a result is nearer to its own date and series than to
those of the entries around it (`KeepsNear`), and the like.

**RateLimiter** has the counters in Redis and in memory, with expiry times, and
threads at the granularity at which they share `self._redis`: testing it and
using it are two steps. A `RedisError` may come before or after the script ran.
`ticket` and `admitted` are history variables: an attempt that its account's
counter lets pass has a ticket (which store counted it, in which window, at which
place, and when), and takes it along to the password. A success clears the tickets
of its account, as it clears the counters. `Patience` is the environment's: how
long a request may take at most. It is assumed to be a window at most, which is 60
seconds, while the Redis client gives up after five.

**AdminBootstrap** has `users` and the advisory lock with its holder; a session
waits, looks, writes, commits, or breaks with its connection.

**RequestPool** has requests that wait for a thread, check a connection out,
wait for another turn of a thread, run their route, ask Gemini once or twice,
and close. `inUse` is the pool's own count, `holds` which session has what.

**ActaDiscovery** is one fetch after another of `CundinamarcaActaSourceFetcher`.
`docs` is the site (nothing, a page with links, a PDF that names its draw, a PDF
without text), `phase` the loop the fetcher is in, `low`, `high`, `step` and
`best` the variables of `_discover_newer_acta`, `found` the links of the scan.
Every request is a step, so the site publishes, a week begins or a request fails
between any two. `named` (draws that pages have named) and `calm` (nothing has
failed or changed since the search began) are history variables.

**DrawReadings** has the writers reduced to what they let into the table, each a
change of `DrawTable`, and the readers as operators over it: `Analysis`,
`Overview`, `History` and `Game`. `ORDER BY draw_date, id` is the order `Before`; the
place of a row is the number of rows before it, `LIMIT n` takes the rows of the
first `n` places (`Earliest`, `Latest`), and `Ordered` is the list that the loop of
`analyze` walks. What the loop leaves in its dictionaries is said by position in
that list (`Seen`, `Recency`); the properties say it by dates, ids and cardinalities
of sets of rows, without a list.

## 3. Runs

| Run | Instance | What it shows |
|---|---|---|
| `draws` (`DrawStore.cfg`) | one session alone over every shape of record, three sources of which two share a host family, two lotteries, numbers and dates; or two sessions, with records that race with each other, with patches and with `delete_lottery` | unique identities, no orphans, no overwriting by unverified records; an accepted record is stored and its repeat writes nothing; a 409 names a real contradiction; refinement of `DrawTable` |
| `ingestion_run` (`IngestionRun.cfg`) | a worker with batches of up to two records, numbered or not, and two attempts against one REST session; row ids are symmetric | success means stored; a retry writes nothing; the composition refines the store |
| `scheduler` (`Scheduler.cfg`) | two processes, three jobs of which one is disabled, two intervals, one crash | one run per job, spaced claims, recorded results; no job starves |
| `rate_limit_windows` (`RateLimiterWindows.cfg`) | two threads, one account and one address, a window of two ticks, four logins | of attempts less than a window apart, fewer than three windows' worth get to the password; a lock-out ends with its window |
| `admin_bootstrap` (`AdminBootstrap.cfg`) | three sessions, two emails, two passwords of which one is refused | one administrator; passwords change by a reset only; the lock is served |
| `result_watch` (`ResultWatch.cfg`) | days of eight minutes, weeks of two days, three days, two subsets of holidays; 18 plain schedules and the pages of 16 sources, each with the layout its parser is written for (`LayoutAssumption`, evaluated by the run) | the readings of the calendar agree and a day runs forward; rows and blocks are read as one draw; a labelled result has its date and series; the newest result is read |
| `result_mixing` (`ResultMixing.cfg`) | the last two results of one lottery, the newest first | a statement of the tests that is violated (section 6) |
| `controlled_cycles` (`ControlledCycles.cfg`) | two overlapping cycles (three in all), days of three instants, a catalog with each integration status | every group is reported; a draw is credited once; only ready lotteries are stored; a quiet cycle has stored its draw |
| `controlled_lookup` (`ControlledLookup.cfg`) | no legacy lottery, one cycle | a statement of the code that is violated (section 6) |
| `request_pool` (`RequestPool.cfg`) | three requests, two threads, one connection | connections are accounted for; requests are answered; the pool recovers |
| `acta_discovery` (`ActaDiscovery.cfg`) | eight draws, four sites, three index pages, one draw whose document may change, expansion up to four | bounds stay sane; a future acta needs evidence; a newer one is one a probe accepts; an undisturbed search finds the newest; every fetch ends |
| `draw_readings` (`DrawReadings.cfg`) | three draws of two lotteries, three dates, seven lists of numbers, analyses of two draws at most | stored numbers can be analysed; nothing is left out; gaps are exact; single-number games are recognised |

Ten runs pass; `controlled_lookup` and `result_mixing` expect a violation. Every
property of a passing run has a mutant of the code in `PROJECT.json` under which
TLC finds it violated. All type invariants are proved, or hold by the proofs of the
modules they extend; only that of `RateLimiter` is checked as well, since a counter
of nothing is one of the mistakes its code could make.

**Why these bounds.** The hazards of the stores are between two actors: a
stale read needs one reader and one writer, and a third session meets the same
committed table as the second. Two ids are enough for the two identities of a
record to point at different rows, which is the hardest case of the
reconciliation. Two of each datum tell "equal" from "different"; the code never
compares more. The scheduler needs a clock long enough for a claim, a late
result and the next claim (`MaxTime`), and one crash, as a killed process
leaves nothing but its row. In the calendar every comparison is within a day or
with the next one, so two weekdays and three days meet every edge. For the
limiter two windows are the most its properties speak about. In the pool the
number of threads is above the capacity, so that both kinds of waiting happen.
The actas need eight draws so that the expansion takes two steps, stops at its
limit once and leaves room for a bisection beyond; the sites have, between them,
a hole, a wrapper page, scanned actas and placeholders of draws that are not due.
Pages keep up to three results, so that there is one before and one behind any
entry; widths of texts are those of the fixtures, with which two entries are
within the 600 characters of a date and three entries of the boletin within its
900; every reader of the catalog has a page, with the notice of the next draw in
front or behind.
For the readings, analyses take two draws of the three there may be, so that a
table is empty, within the limit, at it and above it; numbers go up to 2, which
is enough for lists that are empty, out of range, repeated, or of more numbers
than a request body may have.
The bounds named in the modules (`MaxTime`, `MaxCrashes`, `MaxLogins`,
`MaxCycles`, `MaxLen`, `LastMinute`, `MaxAttempts`) appear in guards only, and
`LastDraw` and `Late` bound the site; the proofs do not depend on their values.

`DrawStore.cfg` has a state constraint, `AloneOrRacing`: in each
state either one session at most is at work, with any request, or several are, on
requests that race and rows such requests can make. All requests at once would be
out of reach.

Symmetry is declared in `DrawStore.cfg`, `IngestionRun.cfg`, `RateLimiterWindows.cfg`
and `ControlledCycles.cfg` as far as sessions, row ids, threads, processes and draw
numbers are interchangeable, and in no run with a liveness property. Deadlock is not
checked where the system really stops: the clock of `ResultWatch.cfg` and
`ResultMixing.cfg` ends, the cycles of `ControlledCycles.cfg` and `ControlledLookup.cfg` do, and in
`DrawReadings.cfg` all lotteries may be deleted and all ids used up.

## 4. Fairness

* `IngestionScheduler`: weak fairness of each process's steps (a running
  process goes on, or is killed), of starting (cron) and of the clock.
  A killed process stays killed. The clock stops at `MaxTime`; what is due then
  must still be run.
* `AdminBootstrap`: weak fairness of the work of the session that has the lock;
  strong fairness of getting it, since PostgreSQL queues those that wait.
* `ActaDiscovery`: weak fairness of the fetch, because every HTTP request is
  answered or times out (`HttpSourceFetcher` has a timeout). Nothing is assumed
  of the site, and no fetch has to begin.
* `RequestPool`: weak fairness of what a thread does (statements, Gemini and the
  wait for a connection have a timeout each); strong fairness of getting a
  thread, since AnyIO's limiter serves first come first served.

## 5. Proofs

| Module | Theorems | Inductive invariant |
|---|---|---|
| `IngestionRunProofs`, the store | `TypeCorrect`, `Implements`, `TableSafety`, `DrawsHaveLotteries`, `UnverifiedSafe`, `RepeatsWriteNothing`, `RejectionsJustified` | `TypeOK /\ Stages`: what each session has in hand at each stage. `TypeOK` alone is not inductive: a session writes `want` under `target`, and only its stage says that these are a row and an id, and that an unverified record wants the core of the row it read. On top of it `Undisturbed`: what an ingestion knows of the table at each stage while nobody else has committed |
| `IngestionRunProofs`, the jobs | `RunTypeCorrect`, `RunImplementsStore`, `RunKeepsTableSafe`, `SuccessIsStored`, `RetriesWriteNothing` | `RunTypeOK /\ InBatch`: the position of a worker that is busy is within its batch. On top of it `Progress`: while its histories go on, the worker's session knows the table and every record it has persisted is still carried by a row |
| `IngestionSchedulerProofs` | `TypeCorrect`, `Exclusion`, `Spacing`, `Recording` | exclusion together with `ProcOK` (while a process runs a job the row still says what its claim wrote) and `RowOK` (how early a row may be due after its last claim) |
| `AdminBootstrapProofs` | `TypeCorrect`, `OneAdministratorEver`, `PasswordsSafe` | the lock is held by one session at most, which has seen an empty table whenever it is about to insert |
| `ControlledSchedulerProofs` | `TypeCorrect`, `CreditedOnce`, `StoresReadyOnly`, `ReportsEveryGroup`, `QuietIsStored`, `TableStaysSound` | `TypeOK` with `Reported` (a group has an attempt or is in the queue, and not both), `Credited` (what was credited is in the table, or its lottery is no row the executor can find), and `ReadyOnly` (what a process has in hand is of a ready lottery) |
| `ResultWatchProofs` | `WatchTypeCorrect`, `Agree`, `AgreeOnDates`, `Forward`, `PagesStayInOrder`, `BlocksStayApart`, `ResultsKeepTheirDates`, `NewestIsAlwaysRead`, `BoletinKeepsDrawsApart`, `LabelledIsOneDraw` | types, and on top of them `PagesInOrder`: a game's results are out latest first, no more than are kept and none of a day to come, a notice only where the site has notices, and the counter read for Risaralda is no newer than its result. The operators of the calendar are unfolded by cases. The theorems on the boletin and on labelled results are about every document |
| `RequestProofs`, the pool | `TypeCorrect`, `Accounted` | accounting together with "the number of posts is within the retries at each stage" |
| `RequestProofs`, the readings | `TableHoldsNormalised`, `ReadingsOfTable`, `StoredStaysAnalysable`, `NothingIsLeftOut`, `RecencyStaysExact`, `HistoryAlwaysFitsGame` | `ReadingsIInv`: rows are rows, there are finitely many, and a list of numbers that is there is one the normaliser takes, whoever wrote it |
| `RateLimiterProofs` | `TypeCorrect`, `TicketsAreAttempts`, `AdmissionsStayBounded`, `LockoutEnds` | types with `Asked` (who is being served has an attempt), `Timely` and `Running` (how far a reading of the time, a window and a request may be from now), `Refusing` (a series of refusals began in the window that is still counted in), `Holding` and `Tickets` (below) |
| `ActaDiscoveryProofs` | `TypeCorrect`, `NewerActasAreProbed`, `FutureActasAreEvident`, `NewestIsFound` | `BoundsInv` (the bounds stay above the draw the search started from), `BestInv` (what the search holds was accepted), `EvidenceInv` (links of draws that are not due were named by a page), and `SearchInv` |

The argument for the store: every commit of a session is guarded by the
constraints as the database checks them (`Fits` in `DrawTable`), whatever the
session has read before, so every step is a step of `DrawTable` or stutters
(`Implements`); the table's own invariant then gives `UniqueIdentity` and
`NoOrphans` for the sessions (`TableSafety`), and `IngestionRun` inherits both.
What ingestion promises for one record is followed through its stages (`Knows`):
up to the flush its first sights are the rows that are there; where the
record goes on as new, no row has an identity of it, so the constraints admit it;
what is about to be written carries the record and goes to a row that has one of
its identities. A commit of another session changes the table only together with
`overlap`, so that nothing is claimed afterwards. From this `RepeatsWriteNothing`
and `RejectionsJustified` follow at the reply. For a whole batch (`Progress`)
one thing more is needed: the row a record is written to carries no other record
of the batch. It has an identity of its own record, and what carries another
one has that one's date and number; so the two would be one draw, provided
they are numbered alike. For a batch that mixes numbered and unnumbered records
this fails, and so does the property (`DifferentDraws` says which batches it is about).
The argument for the scheduler: if a cycle is shorter than every interval and
than the retry delay (`SchedulerAssumption`), a row that has been claimed is
not due before its claimant's cycle is over; so nobody else runs the job, the
unlocked read of `_record_result` is not stale, and claims are spaced.
The argument for the search: `SearchInv` says where each phase stands if the
newer actas are the next `n` draws: while the step doubles, the last draw probed
exists; when a probe has failed the newest lies between the last success and the
failure; the bisection keeps it there. With both bounds met, `best` is it. The
statement is for every limit of the expansion and every `n`; above the limit the
search is only claimed to end at or beyond it. `AcceptedStays` carries the
safety half across disturbances: documents change, but what was accepted stays
acceptable, since no acta is taken away and weeks only go by.

The argument for the controlled scheduler: a success needs an INSERT that the
constraints admit, a row that has been credited stays or goes with its lottery,
and a lottery that is created again is stored under a code the executor does not
find, so no second INSERT of the draw is admitted (`CreditedOnce`); each attempt
takes its group from the queue (`ReportsEveryGroup`). The constraints keep each draw
in the table once and with its lottery, as `DrawTable` promises, also when a cycle
breaks after its commit (`TableStaysSound`). The argument for the boletin: a window ends at the next
name of a game, so what is found in it is of the draw of its own name, by the
length of the window alone and without any distance. For the general parser the
distances decide, and `LabelledIsOneDraw` says what must be true of them: the
result's own header and date, and its series if any is in reach, are nearer than
those of other draws. `OneDrawPerRecord` (section 6) fails where the first fails.

The argument for the pages: `PagesInOrder` says what a page shows after any number of
announcements and publications, and the rest is about one such page, of any number of
games, entries and texts of any widths. The recursive functions of the model, and the
flattening of the page, are first given their equation by induction with a set for the
predicate (`Counting`, `StepByStep`, `Recurrence`). Then the flattened page is its
entries again: each has an offset, its texts are those behind the offset, and every
text is one of some entry (`Sections`, `Laid`, `LaidFacts`). So a distance within an
entry is that of its template (`DistanceInEntry`), one to another entry is at least
`Across` (`FarBehind`), and by `KeepsNear` the nearest date and series in reach are the
own ones (`OwnTextIsNearest`). The general parser takes the candidate that no other is
above in merit, date and position; the newest entry has one of each kind that
an older entry has, with a later date (`BestIsNewest`). For patterns, what begins in an
entry ends in it and no entry is passed over (`MatchInEntry`, `EveryEntryMatches`):
that is where a notice without a result breaks the layout, and why `Settled` is in the
properties. Where the first match on the page counts, a page with the newest first has
it first (`FirstIsNewest`). There is one lemma for each reader of the catalog
(`CaucaIsSound`, `ManizalesIsSound` and so on), and `ReadingsAreSound` puts them
together.

The argument for the limiter: a counter gives each of its places once, and a new
window begins when the one before is over, so that two tickets of one store are of
one window and differ in place, or of windows a whole window apart (`Apart`). What
Redis has counted is a whole window before the end of any window in memory, because
memory begins when the client is given up for good, and a request that is about to
count in memory has read the time after that. A period as long as a window
therefore meets three windows at most: two in Redis and the first in memory, or
three in memory, when a thread read the time in one window and counted, late, in the
next. The first place of a window is given when the window begins; the first of the
three windows began before the period, so that its first place lies outside of it.
What is left is fewer tickets than three windows have places (`ThreeWindows`), and
as a login has a ticket of its own (`Holding`), fewer attempts. A success takes the
counters and the tickets of its account away together, in two steps of which each
may meet a thread that counts in between. For `LockoutEnds`: a series of refusals
lies within a window that began no later than it, so it can go on after the window's
end only by a thread that had read the time before.

The argument for the readings: by date and id any two rows are told apart, so the
place of a row among `n` is one of `0 .. n - 1`, differs from row to row, and by
counting every place is taken (`PlaceOrders`, `EveryPlace`). `Ordered` is
therefore a bijection of places and rows (`OrderedRows`); taking `n + 1` rows shows
whether there are more than `n` (`EarliestRows`); what holds at so many positions
of the list holds of so many rows (`CountPlaces`, for the frequencies), and the rows
behind the last one with a number are those behind all of them (`LastSeen`). The
overview counts pairs of a lottery and a place (`OverviewIsSum`). No induction over the
list is needed.

Assumptions are the `ASSUME`s of the modules, about types of the constants, and three
more. The scheduler's cycles are shorter than its intervals, and a request takes no
longer than a window of the limiter. And `LayoutAssumption`: each page that is watched
has the layout its parser is written for, as the fixtures of the tests have it
(`LaidOut`). It is about the templates of one entry, or of two side by side, and where a
parser can only read a page with one game or one result, about that; it says nothing
else of how many entries there are, which draws they are of, or when one is announced
or published. Where `KeepsNear` or `NewestFirst` fails, a parser may read the date of
another draw, or an older result; the proofs say that nothing more is needed. TLC
evaluates the assumption on the sixteen sites of `MCResultWatch`. Nothing else is taken
on trust.

Only model-checked: all liveness (`NoJobStarves`, `LockServed`,
`EveryRequestAnswered`, `PoolRecovers`, `FetchEnds`), which is out of the
prover's reach. Every invariant and every action property that a passing run checks, and
the two refinements, are proved.

## 6. What the code does that its readers may not expect

Two statements are contradicted by a run. `RegisteredIsFound`: the
executor looks lottery codes up in upper case while they are stored in lower
case, so that every draw of a lottery created or migrated by the present code
ends as "not registered". `OneDrawPerRecord`: the draw number of a record is the one
nearest to its result in characters; when a page shows its newest result first, the
header of the draw before is nearer than the own one, and the newest result is
stored under the number of an older draw. The tests have pages of several entries,
with the newest last. `PROJECT.json` has both findings with their lines.

Other behaviours are in the models, no property forbids them, and they are
worth knowing:

* `DrawStore`: a record without a number is merged into the row of its date; when
  that row has a number and a later record of the batch has the same number with
  another date, the row moves there, and the first record is gone though the run
  reports it as persisted. Batches that are numbered alike are safe
  (`SuccessIsStored`).
* `DrawStore`: of two sessions that persist the same new record one is answered
  409, which is never retried, though `persist_raw_record` promises the existing
  row for an exact repeat. Two concurrent reconciliations may leave the date of
  one record and the numbers of the other. `PUT {"main_numbers": null}` stores a
  JSON null, after which the response schema of `GET /draws` refuses the list.
* `IngestionScheduler`: two first claims of one job abort one of the cycles.
* `RateLimiter`: `/health` swallows the Redis failure it pings for and then never
  looks again, while `DEPLOYMENT_PRODUCTION_CHECKLIST.md` has Redis among what it
  checks. A login that meets a Redis error goes on with the counters in memory.
* `RequestPool`: `/health` reports PostgreSQL unavailable when other requests have
  all the connections.
* `ResultPage`: a page that announces a draw and has no result has the number of that
  draw taken for the result, as it has four digits and is no year. The block pattern
  for Cauca and the one for Paga Todo cross from a pending entry into the next. A
  pending notice above the entries makes Cauca's pattern skip even the newest block
  and read an older one. MiLoto pairs the first number and date of a page with the
  first result. Risaralda's number and result are fetched one after the other, and on
  the day of a draw the inferred number is of the draw to come.
* `ControlledScheduler`: the catalog calls Risaralda ready, and the executor has no
  branch for its fetcher; the draw fails every week before anything is requested.
* `registry.py` fixes Baloto and Revancha at the page of draw 2712; nothing in the code
  rotates it, so these jobs read the same draw for ever.
* `ActaDiscovery`: PDFs a wrapper page links to are believed at any number, also
  beyond the draw that is due.

## 7. Abstractions

* Data: a number, date, list of balls or URL is a model value; records differ
  in what the code compares. `source_timestamp`, `validation_json`,
  descriptions and the wording of details are left out.
* The identity map holds rows strongly. That CPython may collect a row nobody
  refers to, and read it afresh, is left out.
* Backoffs have no duration. Cycles of the persistent scheduler are assumed
  shorter than its intervals and its retry delay (`CycleLimit`), the shortest of
  which are 900 seconds; nothing in the code enforces it.
* Redis and the in-process counters expire at the same ticks; the purge of the
  memory store every 256 operations removes expired counters only and is left
  out. The limiter of predictions is the same class with other limits.
* `AdminBootstrap`: a COMMIT whose answer is lost counts as done. On SQLite,
  which is for tests only, no lock is taken and none of this holds.
* `ControlledScheduler`: `main` passes no holidays, and so does the model. The
  executor's three SELECTs that find the lottery are one step. A page may show
  anything at each fetch. Canonicalisation keeps one lottery per code.
* `ActaDiscovery`: a link is its year, its draw and whether the search can make
  other URLs of it; HTML and PDF parsing is abstracted to the kind of document.
  A document that changes becomes a PDF, and a PDF that names its draw stays.
* `ResultPage`: draw numbers have four digits and are no years, a page has one date
  format and texts without overlap, and results that look like a year, which the
  parsers skip, are left out. Widths are one per kind of text. `ResultWatch` watches
  one source at a time, whose games have a common time, and reads what the page shows
  at one moment but for the two requests of Risaralda. What is not UTF-8, not a PDF
  or not JSON is an empty reading, as is every `SourceParseError`.
* `DrawReadings`: a series has dates and no draw numbers, the metadata that says
  "four digits" belongs to the source, and reads see one committed table. Lists
  of more than a hundred numbers, which an analysis refuses, are left out.
* `RequestPool`: the turn of a thread in which `require_roles` compares the role
  is merged with that of `get_current_user`; `get_db` is entered without
  waiting, and its exit has a thread of its own. Pre-ping, recycling and clients
  that disconnect are left out. `/health` here is its PostgreSQL half; its Redis
  half is in `RateLimiter`.

## 8. Not modelled, and the plan

Done, in the order of importance: the draw store and its table, the persistent
scheduler, the run that joins them, logins and limits, the bootstrap, the
calendar, the controlled scheduler with its proofs, the request pool, the search for
actas, the readings of the table, the parsers and the pages they read. What is left:

1. **LotteryRegistry**: `update_lottery` racing `create_lottery`, deletion and
   the executor's look-up; canonical codes stay unique.
2. **PredictionContract**: risk levels, confidence and the extra number, and
   `validate_predictions` against the response model: what passes the first
   must never fail the second.
3. **EmbeddedIframeSourceFetcher**: which frame of a page is followed.
4. **Configuration**: which settings start the program in production.

Left out for good: what the regular expressions accept character by character, the
parsers no job uses (`JsonSourceParser`, `HtmlJsonLdParser`,
`AntioquenitaLoteriaYaHtmlParser`), the secondary history row of Cundinamarca, prompts,
cryptography, middlewares that add headers, the TEE and functional encryption
contracts (their only provider answers that it is unavailable),
`gemini_service.py` (no caller), the catalogs' data, build files.
