-------------------------- MODULE ControlledScheduler --------------------------
(***************************************************************************)
(* scripts/run_scheduler.py: a process that cron starts, which builds the  *)
(* schedules from a fixed table and the catalog, asks once which draws are *)
(* due, and fetches and persists them one after the other through the      *)
(* controlled executor.  Processes may overlap, a page may change and a    *)
(* lottery may be deleted at any point of that.                            *)
(***************************************************************************)
EXTENDS DrawCalendar, FiniteSetsExt, SequencesExt

CONSTANTS
  Procs,
  Fixed,        \* DRAW_SCHEDULES
  Catalog,      \* COLOMBIA_LOTTERIES_2026
  Verified,     \* codes whose profile is verified and has a result_url
  Supported,    \* codes whose profile names a fetcher the executor knows
  Legacy,       \* the lotteries registered before codes were made lower case
  Numbers,      \* draw numbers a page may show
  MaxLen,       \* bound of the records a page yields
  LastMinute,   \* bound of the clock
  MaxCycles,    \* bound of the cycles
  Enabled,      \* SCHEDULER_ENABLE_INGESTION
  NoRecord

NoWeekday == -1

CatalogEntry ==
  [code : STRING, status : {"ACTIVE", "SUSPENDED_ORDINARY", "EXTRAORDINARY_ONLY"},
   weekday : 0 .. WeekLength - 1 \cup {NoWeekday}, verified : BOOLEAN]

ASSUME ControlledAssumption ==
  /\ Fixed \in Seq(ScheduledDraw)
  /\ Catalog \in Seq(CatalogEntry)
  /\ \A i \in DOMAIN Fixed : Fixed[i].code \notin Verified   \* no game is a traditional lottery
  /\ Enabled \in BOOLEAN
  /\ {MaxLen, LastMinute, MaxCycles} \subseteq Nat

-----------------------------------------------------------------------------
(* catalog_integration                                                     *)

\* Mutant: the profile alone decides.
SourceVerifiedByProfile(entry) == entry.code \in Verified

\* A lottery whose profile is verified, but not its entry of the catalog, or
\* the other way round, waits for its source.
SourceVerified(entry) == entry.code \in Verified /\ entry.verified

IntegrationStatus(entry) ==
  CASE entry.status = "EXTRAORDINARY_ONLY" -> "EXTRAORDINARY_ONLY"
    [] entry.status = "SUSPENDED_ORDINARY" -> "SUSPENDED"
    [] entry.status = "ACTIVE" ->
         IF SourceVerified(entry) THEN "READY_FOR_CONTROLLED_TEST" ELSE "PENDING_SOURCE"

OrdinaryType == "ORDINARY"

\* The calendar rule of an entry that has a weekday.
CalendarRule(entry) ==
  [code |-> entry.code, draw_type |-> OrdinaryType, expected |-> NoTime,
   weekdays |-> {entry.weekday}, tolerance |-> 30, enabled |-> entry.status = "ACTIVE",
   holiday_times |-> <<>>, skip_on_holiday |-> FALSE, calendar_only |-> TRUE]

Ready(entry) ==
  /\ IntegrationStatus(entry) = "READY_FOR_CONTROLLED_TEST"
  /\ entry.weekday # NoWeekday

ReadyEntries == {j \in DOMAIN Catalog : Ready(Catalog[j])}

\* The fixed schedules and behind them the rules of the catalog, of which
\* those of the ready entries are used.
AllSchedules == Fixed \o [j \in DOMAIN Catalog |-> CalendarRule(Catalog[j])]

Positions == DOMAIN Fixed \cup {Len(Fixed) + j : j \in ReadyEntries}

-----------------------------------------------------------------------------
(* runner                                                                  *)

SameKey(i, j) ==
  /\ AllSchedules[i].code = AllSchedules[j].code
  /\ AllSchedules[i].draw_type = AllSchedules[j].draw_type

\* grouped is a dict: its keys come in the order of their first schedules, and
\* a group is known here by the position of its first.
Groups == {g \in Positions : \A j \in Positions : j < g => ~ SameKey(j, g)}

\* main passes no holiday to run_once.
Statuses(g, t) ==
  {Evaluate(AllSchedules[i], t, {}) : i \in {j \in Positions : SameKey(j, g)}}

DueGroups(t) == {g \in Groups : "SUCCESS" \in Statuses(g, t)}

NotDue(g, t) == IF "OUTSIDE_TOLERANCE" \in Statuses(g, t) THEN "OUTSIDE_TOLERANCE"
                                                            ELSE "NOT_PUBLISHED"

\* What can be raised while a draw is ingested: http is the status code of an
\* HTTPException (0 for any other exception), parse says that a
\* SourceParseError is the exception or one of its causes.
Exception(kind, http, parse) == [kind |-> kind, http |-> http, parse |-> parse]

Extraction    == Exception("SourceExtractionError", 0, FALSE)
Parsing       == Exception("SourceExtractionError", 0, TRUE)
Normalization == Exception("SourceNormalizationError", 0, FALSE)
Runtime       == Exception("RuntimeError", 0, FALSE)
Database      == Exception("SQLAlchemyError", 0, FALSE)
Conflict      == Exception("HTTPException", 409, FALSE)

\* Mutant: a refusal of any kind counts as a duplicate.
ClassifyLeniently(exc) ==
  IF exc.http = 409 \/ exc.kind = "RuntimeError" THEN "DUPLICATE"
  ELSE IF exc.parse THEN "PARSE_ERROR"
  ELSE IF exc.kind = "SourceNormalizationError" THEN "VALIDATION_ERROR"
  ELSE IF exc.kind = "SourceExtractionError" THEN "SOURCE_ERROR"
  ELSE "ERROR"

Classify(exc) ==
  IF exc.http = 409 THEN "DUPLICATE"
  ELSE IF exc.parse THEN "PARSE_ERROR"
  ELSE IF exc.kind = "SourceNormalizationError" THEN "VALIDATION_ERROR"
  ELSE IF exc.kind = "SourceExtractionError" THEN "SOURCE_ERROR"
  ELSE "ERROR"

FailureStatuses == {"SOURCE_ERROR", "PARSE_ERROR", "VALIDATION_ERROR", "ERROR"}

-----------------------------------------------------------------------------
Codes == {AllSchedules[i].code : i \in Positions}

\* What the adapter makes of one entry of a page.
PageRecords(t) == [draw_type : {OrdinaryType, "OTHER"}, number : Numbers, day : 0 .. DayOf(t)]

Row == [code : Codes, draw_type : {OrdinaryType, "OTHER"}, number : Numbers, day : Nat]

ASSUME NoRecordAssumption == NoRecord \notin Row

Attempt == [group : Groups, status : FailureStatuses \cup
              {"SUCCESS", "DUPLICATE", "NOT_PUBLISHED", "OUTSIDE_TOLERANCE"},
            message : {"", "not registered", "other"}, row : Row \cup {NoRecord}]

\* A row written before codes were made lower case, the same row after the
\* migration, or one LotteryService created.
LotteryRows == {"none", "legacy", "migrated", "created"}

VARIABLES
  clock,
  lottery,   \* what row of lotteries a code has
  table,     \* the draws
  pc,
  queue,     \* the groups that are due and whose turn has not passed
  row,
  attempts,  \* what run_once has appended so far
  cycles

vars == <<clock, lottery, table, pc, queue, row, attempts, cycles>>

TypeOK ==
  /\ clock \in 0 .. LastMinute
  /\ lottery \in [Codes -> LotteryRows]
  /\ table \subseteq Row
  /\ pc \in [Procs -> {"idle", "ingest", "lookup", "insert", "done"}]
  /\ queue \in [Procs -> SUBSET Groups]
  /\ row \in [Procs -> Row \cup {NoRecord}]
  /\ attempts \in [Procs -> SUBSET Attempt]
  /\ cycles \in 0 .. MaxCycles
  /\ \A p \in Procs : pc[p] \in {"lookup", "insert"} => queue[p] # {} /\ row[p] \in Row

Init ==
  /\ clock = 0
  /\ lottery = [c \in Codes |-> IF c \in Legacy THEN "legacy" ELSE "none"]
  /\ table = {}
  /\ pc = [p \in Procs |-> "idle"]
  /\ queue = [p \in Procs |-> {}]
  /\ row = [p \in Procs |-> NoRecord]
  /\ attempts = [p \in Procs |-> {}]
  /\ cycles = 0
-----------------------------------------------------------------------------
(* A cycle                                                                 *)

Turn(p) == Min(queue[p])

Clashes(r) == {x \in table : /\ x.code = r.code
                             /\ x.draw_type = r.draw_type
                             /\ x.number = r.number \/ x.day = r.day}

\* The next draw is taken up whatever became of this one.
Report(p, status, message) ==
  /\ attempts' = [attempts EXCEPT ![p] = @ \cup
                    {[group |-> Turn(p), status |-> status, message |-> message, row |-> row[p]]}]
  /\ queue' = [queue EXCEPT ![p] = @ \ {Turn(p)}]
  /\ row' = [row EXCEPT ![p] = NoRecord]
  /\ pc' = [pc EXCEPT ![p] = "ingest"]

\* Mutant: the loop is left with the exception.
RaisesAndStops(p, exc, message) ==
  /\ attempts' = [attempts EXCEPT ![p] = @ \cup
       {[group |-> Turn(p), status |-> Classify(exc), message |-> message, row |-> row[p]]}]
  /\ queue' = [queue EXCEPT ![p] = {}]
  /\ row' = [row EXCEPT ![p] = NoRecord]
  /\ pc' = [pc EXCEPT ![p] = "ingest"]

Raises(p, exc, message) == Report(p, Classify(exc), message)

Start(p) ==
  /\ pc[p] \in {"idle", "done"}
  /\ cycles < MaxCycles
  /\ cycles' = cycles + 1
  /\ queue' = [queue EXCEPT ![p] = DueGroups(clock)]
  /\ attempts' = [attempts EXCEPT ![p] =
       {[group |-> g, status |-> NotDue(g, clock), message |-> "other", row |-> NoRecord] :
          g \in Groups \ DueGroups(clock)}]
  /\ pc' = [pc EXCEPT ![p] = "ingest"]
  /\ UNCHANGED <<clock, lottery, table, row>>

Working(p) == pc[p] = "ingest" /\ queue[p] # {}

MayFetch(p) == Enabled /\ AllSchedules[Turn(p)].code \in Verified \cap Supported

\* Ingestion is disabled, the lottery is no traditional one or not verified, or
\* its fetcher is one that _build_profile_fetcher has no branch for.
Refuse(p) ==
  /\ Working(p) /\ ~ MayFetch(p)
  /\ Raises(p, Runtime, "other")
  /\ UNCHANGED <<clock, lottery, table, cycles>>

FetchFails(p, exc) ==
  /\ Working(p) /\ MayFetch(p)
  /\ Raises(p, exc, "other")
  /\ UNCHANGED <<clock, lottery, table, cycles>>

Pages == SeqOf(PageRecords(clock), MaxLen)

Matching(draw_type, records) == {i \in DOMAIN records : records[i].draw_type = draw_type}

Fetched(p) ==
  /\ Working(p) /\ MayFetch(p)
  /\ LET turn == AllSchedules[Turn(p)]
     IN  \E records \in Pages : \E i \in DOMAIN records :
           /\ Matching(turn.draw_type, records) = {i}
           /\ row' = [row EXCEPT ![p] =
                [code |-> turn.code, draw_type |-> turn.draw_type,
                 number |-> records[i].number, day |-> records[i].day]]
  /\ pc' = [pc EXCEPT ![p] = "lookup"]
  /\ UNCHANGED <<clock, lottery, table, queue, attempts, cycles>>

\* None of the records or more than one is of the draw type.
Ambiguous(p) ==
  /\ Working(p) /\ MayFetch(p)
  /\ LET turn == AllSchedules[Turn(p)]
     IN  \E records \in Pages : \A i \in DOMAIN records : Matching(turn.draw_type, records) # {i}
  /\ Raises(p, Runtime, "other")
  /\ UNCHANGED <<clock, lottery, table, cycles>>

\* The executor looks for the code in upper case.
Found(c) == lottery[c] = "legacy"

Unregistered(p) ==
  /\ pc[p] = "lookup"
  /\ ~ Found(row[p].code)
  /\ Raises(p, Runtime, "not registered")
  /\ UNCHANGED <<clock, lottery, table, cycles>>

\* create_draw finds a row of the number or of the date, or none.
Known(p) ==
  /\ pc[p] = "lookup"
  /\ Found(row[p].code)
  /\ Clashes(row[p]) # {}
  /\ Raises(p, Conflict, "other")
  /\ UNCHANGED <<clock, lottery, table, cycles>>

Unknown(p) ==
  /\ pc[p] = "lookup"
  /\ Found(row[p].code)
  /\ Clashes(row[p]) = {}
  /\ pc' = [pc EXCEPT ![p] = "insert"]
  /\ UNCHANGED <<clock, lottery, table, queue, row, attempts, cycles>>

\* Mutant: the table has no unique constraints.
AdmitsAnything(r) == lottery[r.code] \in {"legacy", "migrated"}

\* The foreign key is the id of the row that was found, which a lottery
\* created afterwards does not have.
Admits(r) == lottery[r.code] \in {"legacy", "migrated"} /\ Clashes(r) = {}

Insert(p) ==
  /\ pc[p] = "insert"
  /\ Admits(row[p])
  /\ table' = table \cup {row[p]}
  /\ Report(p, "SUCCESS", "")
  /\ UNCHANGED <<clock, lottery, cycles>>

\* create_draw turns any IntegrityError into a 409.
InsertFails(p) ==
  /\ pc[p] = "insert"
  /\ ~ Admits(row[p])
  /\ Raises(p, Conflict, "other")
  /\ UNCHANGED <<clock, lottery, table, cycles>>

\* The database fails; when it does so in the refresh, the row is there.
Breaks(p) ==
  /\ pc[p] \in {"lookup", "insert"}
  /\ \/ UNCHANGED table
     \/ /\ pc[p] = "insert" /\ Admits(row[p])
        /\ table' = table \cup {row[p]}
  /\ Raises(p, Database, "other")
  /\ UNCHANGED <<clock, lottery, cycles>>

Finish(p) ==
  /\ pc[p] = "ingest" /\ queue[p] = {}
  /\ pc' = [pc EXCEPT ![p] = "done"]
  /\ UNCHANGED <<clock, lottery, table, queue, row, attempts, cycles>>

Crash(p) ==
  /\ pc[p] \in {"ingest", "lookup", "insert"}
  /\ pc' = [pc EXCEPT ![p] = "idle"]
  /\ queue' = [queue EXCEPT ![p] = {}]
  /\ row' = [row EXCEPT ![p] = NoRecord]
  /\ UNCHANGED <<clock, lottery, table, attempts, cycles>>

-----------------------------------------------------------------------------
(* Around the cycles                                                       *)

Tick ==
  /\ clock < LastMinute
  /\ clock' = clock + 1
  /\ UNCHANGED <<lottery, table, pc, queue, row, attempts, cycles>>

\* POST /lotteries: LotteryService makes the code lower case.
Register(c) ==
  /\ lottery[c] = "none"
  /\ lottery' = [lottery EXCEPT ![c] = "created"]
  /\ UNCHANGED <<clock, table, pc, queue, row, attempts, cycles>>

\* DELETE /lotteries/{id}, with the draws of the lottery.
DropLottery(c) ==
  /\ lottery[c] # "none"
  /\ lottery' = [lottery EXCEPT ![c] = "none"]
  /\ table' = {x \in table : x.code # c}
  /\ UNCHANGED <<clock, pc, queue, row, attempts, cycles>>

\* alembic upgrade: every code becomes lower case.
Canonicalize ==
  /\ \E c \in Codes : lottery[c] = "legacy"
  /\ lottery' = [c \in Codes |-> IF lottery[c] = "legacy" THEN "migrated" ELSE lottery[c]]
  /\ UNCHANGED <<clock, table, pc, queue, row, attempts, cycles>>

Cycle(p) ==
  \/ Start(p) \/ Refuse(p)
  \/ \E exc \in {Extraction, Parsing, Normalization} : FetchFails(p, exc)
  \/ Fetched(p) \/ Ambiguous(p)
  \/ Unregistered(p) \/ Known(p) \/ Unknown(p)
  \/ Insert(p) \/ InsertFails(p) \/ Breaks(p)
  \/ Finish(p) \/ Crash(p)

Next ==
  \/ \E p \in Procs : Cycle(p)
  \/ \E c \in Codes : Register(c) \/ DropLottery(c)
  \/ Canonicalize
  \/ Tick

Spec == Init /\ [][Next]_vars
-----------------------------------------------------------------------------
NewAttempts(p) == attempts[p]' \ attempts[p]

(* A draw for which a cycle answers SUCCESS or DUPLICATE, so that cron sees*)
(* no failure, is in the table at that moment by its number or its date,   *)
(* unless its lottery is no longer the row the executor found.             *)
QuietMeansStored ==
  [][\A p \in Procs : \A a \in NewAttempts(p) :
       a.status \in {"SUCCESS", "DUPLICATE"} =>
         /\ a.row # NoRecord
         /\ \/ Clashes(a.row)' # {}
            \/ lottery'[a.row.code] \in {"none", "created"}]_vars

(* One failing draw costs no other draw its turn: a cycle that has come to *)
(* its end has one attempt for every group of the schedule.                *)
EveryGroupReported ==
  \A p \in Procs :
    pc[p] = "done" => \A g \in Groups : Cardinality({a \in attempts[p] : a.group = g}) = 1

(* Whatever cycles overlap, a draw is credited to one of them at most.     *)
OneSuccessPerDraw ==
  \A p, q \in Procs : \A a \in attempts[p], b \in attempts[q] :
    /\ a.status = "SUCCESS" /\ b.status = "SUCCESS"
    /\ a.row.code = b.row.code /\ a.row.draw_type = b.row.draw_type
    /\ a.row.number = b.row.number \/ a.row.day = b.row.day
    => p = q /\ a = b

(* A draw is only ever stored for a lottery the catalog calls active and   *)
(* whose source both the catalog and the profile call verified.            *)
OnlyReadyStored ==
  \A x \in table : \E i \in DOMAIN Catalog :
    /\ Catalog[i].code = x.code
    /\ Catalog[i].status = "ACTIVE"
    /\ Catalog[i].verified
    /\ x.code \in Verified

(* "Persist one verified traditional-lottery result for a scheduler cycle":*)
(* a lottery that is registered is one the executor can persist for.       *)
RegisteredIsFound ==
  \A p \in Procs : pc[p] = "lookup" /\ lottery[row[p].code] # "none" => Found(row[p].code)
=============================================================================
