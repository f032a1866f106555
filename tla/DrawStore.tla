------------------------------ MODULE DrawStore ------------------------------
(***************************************************************************)
(* The lottery_draws table and every operation that changes it:            *)
(*   LotteryDrawService.persist_raw_record  (ingestion),                   *)
(*   create_draw, update_draw, delete_draw  (REST, admin role),            *)
(*   LotteryService.delete_lottery          (cascades to the draws).       *)
(*                                                                         *)
(* Each operation runs in a database session of its own.  PostgreSQL runs  *)
(* at READ COMMITTED, so every SELECT of an operation is a step of its own *)
(* that sees what other sessions have committed so far; the flush and the  *)
(* COMMIT that end the operation are one step.  SQLAlchemy's identity map  *)
(* (loaded) keeps a row as the session first saw it, and an UPDATE writes  *)
(* only the columns that differ from that first sight.                     *)
(***************************************************************************)
EXTENDS FiniteSets

CONSTANTS
  None,            \* SQL NULL, an absent key, "no row"
  Sessions,        \* requests and cron jobs that may be in flight together
  RowIds,          \* primary keys the table's sequence can hand out
  Lotteries,       \* primary keys of lotteries
  DrawTypes,
  Numbers, Dates,  \* the two identities of a draw within a series
  Mains,           \* main_numbers
  Extras,          \* an optional core field: draw_time, bonus_numbers
  Metas,           \* a semantic key of metadata_json (raw_result, series)
  Sources,         \* a source label with its URL
  SameHostFamily,  \* pairs of sources whose URLs share a host family
  Records,         \* canonical records the ingestion may deliver
  AdminRows,       \* bodies of POST /draws
  Patches          \* bodies of PUT /draws/{id}: only the fields that were set

\* A series is what both unique constraints are relative to.
Series == Lotteries \X DrawTypes

LotteryOf(series) == series[1]

\* A row of lottery_draws.  verified is metadata_json["source_verified"];
\* main is None when the column holds the JSON value null.
Row == [series   : Series,
        number   : Numbers \cup {None},
        date     : Dates,
        main     : Mains \cup {None},
        extra    : Extras \cup {None},
        meta     : Metas \cup {None},
        source   : Sources \cup {None},
        verified : BOOLEAN \cup {None}]

Fields == {"series", "number", "date", "main", "extra", "meta", "source",
           "verified"}

\* A row as an operation would like it: a patch may null the date.
Wish == [series   : Series,
         number   : Numbers \cup {None},
         date     : Dates \cup {None},
         main     : Mains \cup {None},
         extra    : Extras \cup {None},
         meta     : Metas \cup {None},
         source   : Sources \cup {None},
         verified : BOOLEAN \cup {None}]

\* The row or wish r with the fields of the patch p put in.
Patched(r, p) == [f \in Fields |-> IF f \in DOMAIN p THEN p[f] ELSE r[f]]

ASSUME DrawStoreAssumption ==
  /\ None \notin UNION {Sessions, RowIds, Lotteries, DrawTypes, Numbers, Dates,
                        Mains, Extras, Metas, Sources, Row, BOOLEAN}
  /\ Records \subseteq Row
  /\ AdminRows \subseteq Row
  /\ \A p \in Patches : \A r \in Row : Patched(r, p) \in Wish
  /\ SameHostFamily \subseteq Sources \X Sources

NoRequest == [kind |-> "none", via |-> "rest", record |-> None, id |-> None,
              patch |-> None, lottery |-> None]

Persist(r)      == [NoRequest EXCEPT !.kind = "persist", !.via = "ingestion", !.record = r]
Create(r)       == [NoRequest EXCEPT !.kind = "create", !.record = r]
Update(i, p)    == [NoRequest EXCEPT !.kind = "update", !.id = i, !.patch = p]
Delete(i)       == [NoRequest EXCEPT !.kind = "delete", !.id = i]
DropLottery(l)  == [NoRequest EXCEPT !.kind = "drop", !.lottery = l]

Ingestions == {Persist(r) : r \in Records}
Creations  == {Create(r) : r \in AdminRows}
Updates    == {Update(u[1], u[2]) : u \in RowIds \X Patches}
Deletions  == {Delete(i) : i \in RowIds}
Drops      == {DropLottery(l) : l \in Lotteries}

Requests == Ingestions \cup Creations \cup Updates \cup Deletions \cup Drops

\* persist_raw_record ends in create_draw when it finds no row: the request
\* then goes on as a creation that came from the ingestion.
Adopted == {[Persist(r) EXCEPT !.kind = "create"] : r \in Records}

Working == {"row", "lottery", "number", "date", "collect",
            "insert", "write", "remove", "drop", "refresh"}
Replies == {"ok", "404", "409", "error"}

VARIABLES
  lotteries,  \* ids of the lotteries that exist
  draws,      \* the committed table: RowIds -> Row or None
  used,       \* ids the sequence has handed out
  pc,         \* where each session is
  req,        \* what it was asked
  loaded,     \* its identity map
  hit,        \* the row its lookup by number found
  target,     \* the row it is about to write, or has written
  want,       \* the row it wants to see there
  overlap     \* history: somebody else committed since the session began

vars == <<lotteries, draws, used, pc, req, loaded, hit, target, want, overlap>>
local == <<req, loaded, hit, target, want>>

NothingLoaded == [i \in RowIds |-> None]

TypeOK ==
  /\ lotteries \subseteq Lotteries
  /\ draws \in [RowIds -> Row \cup {None}]
  /\ used \subseteq RowIds
  /\ pc \in [Sessions -> {"idle"} \cup Working \cup Replies]
  /\ req \in [Sessions -> Requests \cup Adopted \cup {NoRequest}]
  /\ loaded \in [Sessions -> [RowIds -> Row \cup {None}]]
  /\ hit \in [Sessions -> RowIds \cup {None}]
  /\ target \in [Sessions -> RowIds \cup {None}]
  /\ want \in [Sessions -> Wish \cup {None}]
  /\ overlap \in [Sessions -> BOOLEAN]

Init ==
  /\ lotteries = Lotteries
  /\ draws = NothingLoaded
  /\ used = {}
  /\ pc = [s \in Sessions |-> "idle"]
  /\ req = [s \in Sessions |-> NoRequest]
  /\ loaded = [s \in Sessions |-> NothingLoaded]
  /\ hit = [s \in Sessions |-> None]
  /\ target = [s \in Sessions |-> None]
  /\ want = [s \in Sessions |-> None]
  /\ overlap = [s \in Sessions |-> FALSE]
-----------------------------------------------------------------------------
(* What ingestion makes of a row it finds: pure functions of row and record *)

\* Fields a record leaves out do not conflict; main is never left out here.
CoreCompatible(row, rec) ==
  /\ row.series = rec.series
  /\ rec.number \in {None, row.number}
  /\ rec.date   \in {None, row.date}
  /\ rec.main   \in {None, row.main}
  /\ rec.extra  \in {None, row.extra}

\* A semantic metadata key conflicts only when both sides have it.
MetaCompatible(row, rec) ==
  \/ rec.meta = None
  \/ row.meta = None
  \/ rec.meta = row.meta

Compatible(row, rec) == CoreCompatible(row, rec) /\ MetaCompatible(row, rec)

VerifiedContinuity(row, rec) ==
  /\ rec.verified = TRUE
  /\ row.verified = TRUE
  /\ <<row.source, rec.source>> \in SameHostFamily

\* Mutant: the record need not be verified.
AuthoritativeBySourceAlone(row, rec) ==
  row.source = rec.source \/ VerifiedContinuity(row, rec)

Authoritative(row, rec) ==
  /\ rec.verified = TRUE
  /\ row.source = rec.source \/ VerifiedContinuity(row, rec)

\* What the record leaves out stays as it was.
Updated(old, new) == IF new = None THEN old ELSE new

\* The compatible row with the record's provenance and new metadata.
Refreshed(row, rec) ==
  [row EXCEPT !.meta     = Updated(@, rec.meta),
              !.verified = Updated(@, rec.verified),
              !.source   = rec.source]

\* Mutants: a field is left out of the reconciliation.
ReconciledWithoutMain(row, rec) ==
  [rec EXCEPT !.series = row.series, !.main = row.main]

ReconciledWithoutDate(row, rec) ==
  [rec EXCEPT !.series = row.series, !.date = row.date]

\* An authoritative record replaces the row; id, lottery and type stay.
Reconciled(row, rec) == [rec EXCEPT !.series = row.series]
-----------------------------------------------------------------------------
(* Lookups and constraints on the committed table *)

ByNumber(r) ==
  {i \in RowIds : /\ r.number # None
                  /\ draws[i] # None
                  /\ draws[i].series = r.series
                  /\ draws[i].number = r.number}

ByDate(r) ==
  {i \in RowIds : /\ draws[i] # None
                  /\ draws[i].series = r.series
                  /\ draws[i].date = r.date}

First(S) == IF S = {} THEN None ELSE CHOOSE i \in S : TRUE

\* Mutants: one of the table's constraints is missing.
AdmitsEqualNumbers(i, r) ==
  /\ r.date # None
  /\ LotteryOf(r.series) \in lotteries
  /\ ByDate(r) \subseteq {i}

AdmitsWithoutLottery(i, r) ==
  /\ r.date # None
  /\ ByNumber(r) \subseteq {i}
  /\ ByDate(r) \subseteq {i}

\* NOT NULL, the foreign key and the two unique constraints (a NULL number
\* equals nothing) accept row r under id i.
Admits(i, r) ==
  /\ r.date # None
  /\ LotteryOf(r.series) \in lotteries
  /\ ByNumber(r) \subseteq {i}
  /\ ByDate(r) \subseteq {i}
-----------------------------------------------------------------------------
(* Sessions *)

Goto(s, l) == pc' = [pc EXCEPT ![s] = l]

\* Session s commits a change: every other open session now overlaps it.
Disturb(s) ==
  overlap' = [t \in Sessions |-> overlap[t] \/ (t # s /\ pc[t] # "idle")]

\* Row i as session s sees it: its first sight of it, if it had one.
Seen(s, i) == IF loaded[s][i] = None THEN draws[i] ELSE loaded[s][i]

Load(s, i) ==
  loaded' = IF i = None THEN loaded ELSE [loaded EXCEPT ![s][i] = Seen(s, i)]

Ingesting(s) == req[s].via = "ingestion"

FirstStep(kind) == IF kind \in {"update", "delete"} THEN "row" ELSE "lottery"

Begin(s, r) ==
  /\ pc[s] = "idle"
  /\ Goto(s, FirstStep(r.kind))
  /\ req' = [req EXCEPT ![s] = r]
  /\ want' = [want EXCEPT ![s] = r.record]
  /\ target' = [target EXCEPT ![s] = r.id]
  /\ UNCHANGED <<lotteries, draws, used, loaded, hit, overlap>>

\* get_draw: the row a PUT or DELETE names.
LoadRow(s) ==
  /\ pc[s] = "row"
  /\ LET row == draws[target[s]] IN
       IF row = None
         THEN /\ Goto(s, "404")
              /\ UNCHANGED <<loaded, want>>
         ELSE /\ Load(s, target[s])
              /\ IF req[s].kind = "update"
                   THEN /\ Goto(s, "lottery")
                        /\ want' = [want EXCEPT ![s] = Patched(row, req[s].patch)]
                   ELSE /\ Goto(s, "remove")
                        /\ UNCHANGED want
  /\ UNCHANGED <<lotteries, draws, used, req, hit, target, overlap>>

LotteryAskedFor(s) ==
  IF req[s].kind = "drop" THEN req[s].lottery ELSE LotteryOf(want[s].series)

LookupLottery(s) ==
  /\ pc[s] = "lottery"
  /\ Goto(s, IF LotteryAskedFor(s) \notin lotteries THEN "404"
             ELSE IF req[s].kind = "drop" THEN "collect" ELSE "number")
  /\ UNCHANGED <<lotteries, draws, used, local, overlap>>

\* Another row than the one being updated already has that identity.
Clashes(s, i) == i # None /\ req[s].kind # "persist" /\ i # req[s].id

LookupNumber(s) ==
  /\ pc[s] = "number"
  /\ LET i == First(ByNumber(want[s])) IN
       /\ Load(s, i)
       /\ hit' = [hit EXCEPT ![s] = i]
       /\ Goto(s, IF Clashes(s, i) THEN "409" ELSE "date")
  /\ UNCHANGED <<lotteries, draws, used, req, target, want, overlap>>

\* create_draw and update_draw: the date must be free too.
LookupDate(s) ==
  /\ pc[s] = "date"
  /\ req[s].kind # "persist"
  /\ LET i == First(ByDate(want[s])) IN
       /\ Load(s, i)
       /\ Goto(s, IF Clashes(s, i) THEN "409"
                  ELSE IF req[s].kind = "create" THEN "insert" ELSE "write")
  /\ UNCHANGED <<lotteries, draws, used, req, hit, target, want, overlap>>

DateHit(s) == First(ByDate(want[s]))

SplitIdentity(s) ==
  /\ hit[s] # None
  /\ DateHit(s) # None
  /\ hit[s] # DateHit(s)

\* persist_raw_record has looked up the date and found row i.
Resolves(s, i) ==
  /\ pc[s] = "date"
  /\ req[s].kind = "persist"
  /\ ~SplitIdentity(s)
  /\ i = IF hit[s] # None THEN hit[s] ELSE DateHit(s)
  /\ i # None

\* Mutant: the number alone decides that the record is new.
AdoptByNumberAlone(s) ==
  /\ pc[s] = "date"
  /\ req[s].kind = "persist"
  /\ hit[s] = None
  /\ req' = [req EXCEPT ![s].kind = "create"]
  /\ Goto(s, "number")
  /\ UNCHANGED <<lotteries, draws, used, loaded, hit, target, want, overlap>>

\* No row has either identity: go on as create_draw, which looks again.
AdoptAsNew(s) ==
  /\ pc[s] = "date"
  /\ req[s].kind = "persist"
  /\ hit[s] = None
  /\ DateHit(s) = None
  /\ req' = [req EXCEPT ![s].kind = "create"]
  /\ Goto(s, "number")
  /\ UNCHANGED <<lotteries, draws, used, loaded, hit, target, want, overlap>>

\* An exact repeat: nothing to write, nothing to refresh.
AcceptRepeat(s, i) ==
  /\ Resolves(s, i)
  /\ Compatible(Seen(s, i), want[s])
  /\ Refreshed(Seen(s, i), want[s]) = Seen(s, i)
  /\ Goto(s, "ok")
  /\ Load(s, i)
  /\ target' = [target EXCEPT ![s] = i]
  /\ UNCHANGED <<lotteries, draws, used, req, hit, want, overlap>>

PrepareRefresh(s, i) ==
  /\ Resolves(s, i)
  /\ Compatible(Seen(s, i), want[s])
  /\ Refreshed(Seen(s, i), want[s]) # Seen(s, i)
  /\ Goto(s, "write")
  /\ Load(s, i)
  /\ target' = [target EXCEPT ![s] = i]
  /\ want' = [want EXCEPT ![s] = Refreshed(Seen(s, i), @)]
  /\ UNCHANGED <<lotteries, draws, used, req, hit, overlap>>

PrepareReconcile(s, i) ==
  /\ Resolves(s, i)
  /\ ~Compatible(Seen(s, i), want[s])
  /\ Authoritative(Seen(s, i), want[s])
  /\ Goto(s, "write")
  /\ Load(s, i)
  /\ target' = [target EXCEPT ![s] = i]
  /\ want' = [want EXCEPT ![s] = Reconciled(Seen(s, i), @)]
  /\ UNCHANGED <<lotteries, draws, used, req, hit, overlap>>

\* Two rows share the record's identities, or the one row contradicts it.
RejectRecord(s) ==
  /\ pc[s] = "date"
  /\ req[s].kind = "persist"
  /\ \/ SplitIdentity(s)
     \/ \E i \in RowIds : /\ Resolves(s, i)
                          /\ ~Compatible(Seen(s, i), want[s])
                          /\ ~Authoritative(Seen(s, i), want[s])
  /\ Goto(s, "409")
  /\ UNCHANGED <<lotteries, draws, used, local, overlap>>
-----------------------------------------------------------------------------
(* Flush and commit *)

\* INSERT under a fresh id; a constraint that another session's commit has
\* meanwhile made false is mapped to 409, an exhausted sequence is an error.
Insert(s) ==
  /\ pc[s] = "insert"
  /\ \/ /\ used = RowIds
        /\ Goto(s, "error")
        /\ UNCHANGED <<draws, used, target, overlap>>
     \/ \E i \in RowIds \ used :
          /\ used' = used \cup {i}
          /\ target' = [target EXCEPT ![s] = i]
          /\ IF Admits(i, want[s])
               THEN /\ draws' = [draws EXCEPT ![i] = want[s]]
                    /\ Goto(s, "refresh")
                    /\ Disturb(s)
               ELSE /\ Goto(s, "409")
                    /\ UNCHANGED <<draws, overlap>>
  /\ UNCHANGED <<lotteries, req, loaded, hit, want>>

\* The row after an UPDATE of the columns the session changed: meta and verified
\* are keys of one JSON column, which is written as a whole.
Pick(now, seen, new) == IF new # seen THEN new ELSE now

MetadataChanged(seen, new) == new.meta # seen.meta \/ new.verified # seen.verified

Merged(now, seen, new) ==
  [series   |-> Pick(now.series, seen.series, new.series),
   number   |-> Pick(now.number, seen.number, new.number),
   date     |-> Pick(now.date, seen.date, new.date),
   main     |-> Pick(now.main, seen.main, new.main),
   extra    |-> Pick(now.extra, seen.extra, new.extra),
   source   |-> Pick(now.source, seen.source, new.source),
   meta     |-> IF MetadataChanged(seen, new) THEN new.meta ELSE now.meta,
   verified |-> IF MetadataChanged(seen, new) THEN new.verified ELSE now.verified]

\* Nothing differs from what the session loaded: no UPDATE is sent.
WriteNothing(s) ==
  /\ pc[s] = "write"
  /\ want[s] = loaded[s][target[s]]
  /\ Goto(s, "refresh")
  /\ UNCHANGED <<lotteries, draws, used, local, overlap>>

\* The UPDATE matches no row: StaleDataError.
WriteLost(s) ==
  /\ pc[s] = "write"
  /\ want[s] # loaded[s][target[s]]
  /\ draws[target[s]] = None
  /\ Goto(s, "error")
  /\ UNCHANGED <<lotteries, draws, used, local, overlap>>

\* update_draw maps a broken constraint to 409; persist_raw_record does not.
Write(s) ==
  /\ pc[s] = "write"
  /\ want[s] # loaded[s][target[s]]
  /\ draws[target[s]] # None
  /\ LET i == target[s]
         row == Merged(draws[i], loaded[s][i], want[s]) IN
       IF Admits(i, row)
         THEN /\ draws' = [draws EXCEPT ![i] = row]
              /\ Goto(s, "refresh")
              /\ Disturb(s)
         ELSE /\ Goto(s, IF req[s].kind = "update" THEN "409" ELSE "error")
              /\ UNCHANGED <<draws, overlap>>
  /\ UNCHANGED <<lotteries, used, local>>

\* db.refresh after the commit: the row may be gone again by now.
Refresh(s) ==
  /\ pc[s] = "refresh"
  /\ Goto(s, IF draws[target[s]] = None THEN "error" ELSE "ok")
  /\ UNCHANGED <<lotteries, draws, used, local, overlap>>

\* A DELETE that matches no row is only warned about.
Remove(s) ==
  /\ pc[s] = "remove"
  /\ draws' = [draws EXCEPT ![target[s]] = None]
  /\ Goto(s, "ok")
  /\ Disturb(s)
  /\ UNCHANGED <<lotteries, used, local>>

\* delete_lottery: the ORM cascade loads the lottery's draws ...
CollectDraws(s) ==
  /\ pc[s] = "collect"
  /\ loaded' = [loaded EXCEPT ![s] =
       [i \in RowIds |->
          IF draws[i] # None /\ LotteryOf(draws[i].series) = req[s].lottery
            THEN draws[i] ELSE None]]
  /\ Goto(s, "drop")
  /\ UNCHANGED <<lotteries, draws, used, req, hit, target, want, overlap>>

\* Mutant: the foreign key does not cascade.
DropLoadedOnly(s) ==
  /\ pc[s] = "drop"
  /\ lotteries' = lotteries \ {req[s].lottery}
  /\ draws' = [i \in RowIds |-> IF loaded[s][i] # None THEN None ELSE draws[i]]
  /\ Goto(s, "ok")
  /\ Disturb(s)
  /\ UNCHANGED <<used, local>>

\* ... deletes those it loaded, then the lottery, and ON DELETE CASCADE takes
\* the draws that were added to it meanwhile.
Drop(s) ==
  /\ pc[s] = "drop"
  /\ lotteries' = lotteries \ {req[s].lottery}
  /\ draws' = [i \in RowIds |->
       IF \/ loaded[s][i] # None
          \/ draws[i] # None /\ LotteryOf(draws[i].series) = req[s].lottery
         THEN None ELSE draws[i]]
  /\ Goto(s, "ok")
  /\ Disturb(s)
  /\ UNCHANGED <<used, local>>

\* The connection fails: what is not committed is rolled back.  At "refresh"
\* the change is already committed, and the caller still sees an error.
Fail(s) ==
  /\ pc[s] \in Working
  /\ Goto(s, "error")
  /\ UNCHANGED <<lotteries, draws, used, local, overlap>>

\* The reply is sent and the session closed.
Return(s) ==
  /\ pc[s] \in Replies
  /\ Goto(s, "idle")
  /\ req' = [req EXCEPT ![s] = NoRequest]
  /\ loaded' = [loaded EXCEPT ![s] = NothingLoaded]
  /\ hit' = [hit EXCEPT ![s] = None]
  /\ target' = [target EXCEPT ![s] = None]
  /\ want' = [want EXCEPT ![s] = None]
  /\ overlap' = [overlap EXCEPT ![s] = FALSE]
  /\ UNCHANGED <<lotteries, draws, used>>

Step(s) ==
  \/ LoadRow(s)
  \/ LookupLottery(s)
  \/ LookupNumber(s)
  \/ LookupDate(s)
  \/ AdoptAsNew(s)
  \/ \E i \in RowIds : \/ AcceptRepeat(s, i)
                       \/ PrepareRefresh(s, i)
                       \/ PrepareReconcile(s, i)
  \/ RejectRecord(s)
  \/ Insert(s)
  \/ WriteNothing(s)
  \/ WriteLost(s)
  \/ Write(s)
  \/ Refresh(s)
  \/ CollectDraws(s)
  \/ Remove(s)
  \/ Drop(s)
  \/ Return(s)

Next == \E s \in Sessions :
  \/ \E r \in Requests : Begin(s, r)
  \/ Step(s)
  \/ Fail(s)

Spec == Init /\ [][Next]_vars
-----------------------------------------------------------------------------
(* Properties *)

\* No two rows of a series share a draw number or a draw date, whatever the
\* sessions interleave (the check-then-insert of create_draw, persist and
\* update_draw rests on the constraints, not on its own lookups).
UniqueIdentity ==
  \A i, j \in RowIds :
    /\ draws[i] # None
    /\ draws[j] # None
    /\ draws[i].series = draws[j].series
    /\ \/ draws[i].date = draws[j].date
       \/ draws[i].number # None /\ draws[i].number = draws[j].number
    => i = j

\* A draw never outlives its lottery, even when it is inserted or moved there
\* while delete_lottery is under way.
NoOrphans ==
  \A i \in RowIds : draws[i] # None => LotteryOf(draws[i].series) \in lotteries

\* "An exact repeat of the same canonical record returns the existing row":
\* when a record was accepted and nobody else committed meanwhile, the row it
\* went to answers to each of its identities and repeating it writes nothing.
RepeatIsNoOp ==
  \A s \in Sessions :
    pc[s] = "ok" /\ Ingesting(s) /\ ~overlap[s] =>
      LET rec == req[s].record
          row == draws[target[s]] IN
        /\ row # None
        /\ ByDate(rec) = {target[s]}
        /\ ByNumber(rec) \subseteq {target[s]}
        /\ Compatible(row, rec)
        /\ Refreshed(row, rec) = row

\* A 409 is never a false alarm: without a concurrent commit, ingestion
\* rejects a record only if some row of the table holds one of its identities
\* and contradicts it.
RejectionJustified ==
  \A s \in Sessions :
    pc[s] = "409" /\ Ingesting(s) /\ ~overlap[s] =>
      \E i \in RowIds :
        /\ i \in ByNumber(req[s].record) \cup ByDate(req[s].record)
        /\ ~Compatible(draws[i], req[s].record)

\* Ingesting an unverified record never changes number, date or numbers of a
\* row that is already there, not even from a stale read of it.
CoreOf(row) == <<row.series, row.number, row.date, row.main, row.extra>>

UnverifiedNeverOverwrites ==
  [][\A s \in Sessions, i \in RowIds :
       /\ Ingesting(s)
       /\ req[s].record.verified # TRUE
       /\ draws[i] # None
       /\ pc[s] = "write" /\ pc'[s] # "write"
       => draws'[i] # None /\ CoreOf(draws'[i]) = CoreOf(draws[i])]_vars

\* The sessions implement the table of DrawTable: every commit is one atomic
\* change of it, every other step changes nothing in it.
Table == INSTANCE DrawTable WITH Rows <- Row

ImplementsTable == Table!Spec
=============================================================================
