------------------------- MODULE IngestionRunProofs -------------------------
(***************************************************************************)
(* Proofs about the draw store and the jobs that fill it.                  *)
(*                                                                         *)
(* First DrawStore, for any number of sessions, rows, lotteries and any    *)
(* records, bodies and patches that satisfy DrawStoreAssumption: types,    *)
(* the refinement of DrawTable, the table's safety, what an unverified     *)
(* record may do, and what an undisturbed ingestion is answered.           *)
(*                                                                         *)
(* Then IngestionRun, for any workers, batches and attempts: runs are well *)
(* typed, they use the store as DrawStore allows, and so what is proved of *)
(* the store holds while jobs run and retry; a success has stored its      *)
(* batch, and a batch that comes again writes nothing.                     *)
(***************************************************************************)
EXTENDS IngestionRun, TLAPS
-----------------------------------------------------------------------------
(* The draw store                                                          *)


\* What a session has in hand at each stage of a request.
StageOK(s) ==
  /\ pc[s] = "row" =>
       /\ target[s] \in RowIds
       /\ ~Ingesting(s)
       /\ req[s].kind \in {"update", "delete"}
       /\ req[s].kind = "update" => req[s].patch \in Patches
  /\ pc[s] \in {"lottery", "number", "date"} =>
       CASE req[s].kind = "drop"    -> /\ pc[s] = "lottery"
                                       /\ req[s].lottery \in Lotteries
         [] req[s].kind = "persist" -> /\ Ingesting(s)
                                       /\ want[s] \in Row
                                       /\ want[s] = req[s].record
         [] req[s].kind = "create"  -> want[s] \in Row
         [] OTHER -> /\ req[s].kind = "update"
                     /\ ~Ingesting(s)
                     /\ want[s] \in Wish
                     /\ target[s] \in RowIds
                     /\ loaded[s][target[s]] \in Row
  /\ pc[s] = "date" /\ hit[s] # None => loaded[s][hit[s]] \in Row
  /\ pc[s] = "insert" => want[s] \in Row
  /\ pc[s] = "write" =>
       /\ target[s] \in RowIds
       /\ want[s] \in Wish
       /\ loaded[s][target[s]] \in Row
       /\ Ingesting(s) /\ req[s].record.verified # TRUE =>
            CoreOf(want[s]) = CoreOf(loaded[s][target[s]])
  /\ pc[s] \in {"remove", "refresh"} => target[s] \in RowIds
  /\ pc[s] \in {"collect", "drop"} => req[s].lottery \in Lotteries

Stages == \A s \in Sessions : StageOK(s)

\* The inductive invariant behind the theorems of this module.
IInv == TypeOK /\ Stages
-----------------------------------------------------------------------------
(* The constants and the pure operators *)

LEMMA NoneIsNoRow == None \notin Row
BY DrawStoreAssumption

LEMMA RowIsWish == Row \subseteq Wish
BY DEF Row, Wish

LEMMA DatedWishIsRow ==
  ASSUME NEW r \in Wish, r.date # None
  PROVE  r \in Row
BY DEF Row, Wish

LEMMA RequestShapes ==
  ASSUME NEW r \in Requests
  PROVE  \/ /\ r \in Ingestions
            /\ r.kind = "persist" /\ r.via = "ingestion"
            /\ r.record \in Row /\ r.id = None
         \/ /\ r.kind = "create" /\ r.via = "rest"
            /\ r.record \in Row /\ r.id = None
         \/ /\ r.kind = "update" /\ r.via = "rest"
            /\ r.record = None /\ r.id \in RowIds /\ r.patch \in Patches
         \/ /\ r.kind = "delete" /\ r.via = "rest"
            /\ r.record = None /\ r.id \in RowIds
         \/ /\ r.kind = "drop" /\ r.via = "rest"
            /\ r.record = None /\ r.id = None /\ r.lottery \in Lotteries
<1>1. CASE r \in Ingestions
  BY <1>1, DrawStoreAssumption DEF Ingestions, Persist, NoRequest
<1>2. CASE r \in Creations
  BY <1>2, DrawStoreAssumption DEF Creations, Create, NoRequest
<1>3. CASE r \in Updates
  <2>1. PICK u \in RowIds \X Patches : r = Update(u[1], u[2])
    BY <1>3 DEF Updates
  <2>2. r.kind = "update" /\ r.via = "rest" /\ r.record = None
       /\ r.id = u[1] /\ r.patch = u[2]
    BY <2>1 DEF Update, NoRequest
  <2> QED
    BY <2>2
<1>4. CASE r \in Deletions
  BY <1>4 DEF Deletions, Delete, NoRequest
<1>5. CASE r \in Drops
  BY <1>5 DEF Drops, DropLottery, NoRequest
<1> QED
  BY <1>1, <1>2, <1>3, <1>4, <1>5, Zenon DEF Requests

\* persist_raw_record goes on as create_draw.
LEMMA AdoptedShape ==
  ASSUME NEW r \in Requests, r.kind = "persist"
  PROVE  [r EXCEPT !.kind = "create"] \in Adopted
<1>1. r \in Ingestions
  BY RequestShapes
<1> QED
  BY <1>1 DEF Ingestions, Adopted

LEMMA AdoptedKind ==
  ASSUME NEW r \in Adopted \cup {NoRequest}
  PROVE  r.kind # "persist"
<1>1. CASE r \in Adopted
  BY <1>1 DEF Adopted, Persist, NoRequest
<1> QED
  BY <1>1 DEF NoRequest

LEMMA RefreshedRow ==
  ASSUME NEW row \in Row, NEW rec \in Row
  PROVE  /\ Refreshed(row, rec) \in Row
         /\ CoreOf(Refreshed(row, rec)) = CoreOf(row)
<1>1. Updated(row.meta, rec.meta) \in Metas \cup {None}
  BY DEF Updated, Row
<1>2. Updated(row.verified, rec.verified) \in BOOLEAN \cup {None}
  BY Zenon DEF Updated, Row
<1>3. rec.source \in Sources \cup {None}
  BY DEF Row
<1>4. [row EXCEPT !.meta = Updated(@, rec.meta)] \in Row
  BY <1>1 DEF Row
<1>5. [row EXCEPT !.meta = Updated(@, rec.meta),
                  !.verified = Updated(@, rec.verified)] \in Row
  BY <1>1, <1>2 DEF Row
<1>6. Refreshed(row, rec) \in Row
  BY <1>3, <1>5 DEF Row, Refreshed
<1>7. CoreOf(Refreshed(row, rec)) = CoreOf(row)
  BY DEF Refreshed, Row, CoreOf
<1> QED
  BY <1>6, <1>7

LEMMA ReconciledRow ==
  ASSUME NEW row \in Row, NEW rec \in Row
  PROVE  Reconciled(row, rec) \in Row
BY DEF Reconciled, Row

LEMMA MergedWish ==
  ASSUME NEW now \in Row, NEW seen \in Row, NEW new \in Wish
  PROVE  Merged(now, seen, new) \in Wish
BY DEF Merged, Pick, MetadataChanged, Row, Wish

\* An update that leaves the core of what was loaded alone leaves the core of
\* what is there alone.
LEMMA MergedCore ==
  ASSUME NEW now \in Row, NEW seen \in Row, NEW new \in Wish,
         CoreOf(new) = CoreOf(seen)
  PROVE  CoreOf(Merged(now, seen, new)) = CoreOf(now)
BY DEF Merged, Pick, CoreOf, Row, Wish
-----------------------------------------------------------------------------
(* What the helpers of the actions do to the state *)

\* A lookup finds a row of the table, or nothing.
LEMMA FirstFinds ==
  ASSUME NEW S \in SUBSET RowIds
  PROVE  /\ First(S) \in S \cup {None}
         /\ First(S) = None => S = {}
BY DrawStoreAssumption DEF First

LEMMA LookupsFind ==
  ASSUME NEW r
  PROVE  /\ ByNumber(r) \in SUBSET RowIds
         /\ ByDate(r) \in SUBSET RowIds
         /\ \A i \in ByNumber(r) \cup ByDate(r) : i \in RowIds /\ draws[i] # None
BY DEF ByNumber, ByDate

LEMMA SeenRow ==
  ASSUME TypeOK, NEW s \in Sessions, NEW i \in RowIds
  PROVE  /\ Seen(s, i) \in Row \cup {None}
         /\ draws[i] # None => Seen(s, i) \in Row
         /\ loaded[s][i] # None => Seen(s, i) = loaded[s][i]
BY DEF Seen, TypeOK

\* Loading a row keeps what the session saw before.
LEMMA LoadKeeps ==
  ASSUME TypeOK, NEW s \in Sessions, NEW i \in RowIds \cup {None}, Load(s, i)
  PROVE  /\ loaded' \in [Sessions -> [RowIds -> Row \cup {None}]]
         /\ \A t \in Sessions \ {s} : loaded'[t] = loaded[t]
         /\ i # None => loaded'[s][i] = Seen(s, i)
         /\ \A j \in RowIds : loaded[s][j] \in Row => loaded'[s][j] = loaded[s][j]
<1>1. CASE i = None
  BY <1>1 DEF Load, TypeOK
<1>2. CASE i \in RowIds
  <2>1. loaded' = [loaded EXCEPT ![s][i] = Seen(s, i)]
    BY <1>2, DrawStoreAssumption DEF Load
  <2>2. Seen(s, i) \in Row \cup {None}
    BY <1>2, SeenRow
  <2>3. ASSUME NEW j \in RowIds, loaded[s][j] \in Row
        PROVE  loaded'[s][j] = loaded[s][j]
    BY <2>1, <2>3, <1>2, SeenRow, NoneIsNoRow DEF TypeOK
  <2> QED
    BY <2>1, <2>2, <2>3, <1>2 DEF TypeOK
<1> QED
  BY <1>1, <1>2

\* StageOK looks at nothing but the session's own variables.
LEMMA StageFrame ==
  ASSUME NEW t \in Sessions, StageOK(t),
         pc'[t] = pc[t], req'[t] = req[t], want'[t] = want[t],
         target'[t] = target[t], loaded'[t] = loaded[t], hit'[t] = hit[t]
  PROVE  StageOK(t)'
BY DEF StageOK, Ingesting

\* A session that is idle or has its reply promises nothing.
LEMMA StageFree ==
  ASSUME NEW t \in Sessions, pc'[t] \in {"idle"} \cup Replies
  PROVE  StageOK(t)'
BY DEF StageOK, Replies

\* A step of session s leaves the other sessions' variables alone.
OthersAlone(s) ==
  \A t \in Sessions \ {s} :
    /\ pc'[t] = pc[t]
    /\ req'[t] = req[t]
    /\ want'[t] = want[t]
    /\ target'[t] = target[t]
    /\ loaded'[t] = loaded[t]
    /\ hit'[t] = hit[t]

LEMMA Assemble ==
  ASSUME Stages, NEW s \in Sessions, StageOK(s)', OthersAlone(s)
  PROVE  Stages'
<1> SUFFICES ASSUME NEW t \in Sessions PROVE StageOK(t)'
  BY DEF Stages
<1>1. CASE t = s
  BY <1>1
<1>2. CASE t # s
  BY <1>2, StageFrame DEF OthersAlone, Stages
<1> QED
  BY <1>1, <1>2

\* A step that only moves pc to a reply.
LEMMA MoveOn ==
  ASSUME IInv, NEW s \in Sessions,
         NEW l \in {"idle"} \cup Replies, Goto(s, l),
         UNCHANGED <<lotteries, draws, used, local, overlap>>
  PROVE  IInv'
<1>1. TypeOK'
  BY DEF IInv, TypeOK, Goto, local, Replies, Working
<1>2. OthersAlone(s)
  BY DEF IInv, TypeOK, Goto, local, OthersAlone
<1>3. StageOK(s)'
  <2> pc'[s] = l
    BY DEF IInv, TypeOK, Goto
  <2> QED
    BY StageFree
<1> QED
  BY <1>1, <1>2, <1>3, Assemble DEF IInv
-----------------------------------------------------------------------------
(* Every step keeps the inductive invariant *)

LEMMA BeginKeeps ==
  ASSUME IInv, NEW s \in Sessions, NEW r \in Requests, Begin(s, r)
  PROVE  IInv'
<1>1. TypeOK'
  <2>1. r.record \in Wish \cup {None} /\ r.id \in RowIds \cup {None}
    BY RequestShapes, RowIsWish
  <2>2. FirstStep(r.kind) \in Working
    BY DEF FirstStep, Working
  <2> QED
    BY <2>1, <2>2 DEF IInv, TypeOK, Begin, Goto
<1>2. OthersAlone(s)
  BY DEF IInv, TypeOK, Begin, Goto, OthersAlone
<1>3. StageOK(s)'
  BY RequestShapes DEF IInv, TypeOK, Begin, Goto, FirstStep, StageOK, Ingesting
<1> QED
  BY <1>1, <1>2, <1>3, Assemble DEF IInv

LEMMA LoadRowKeeps ==
  ASSUME IInv, NEW s \in Sessions, LoadRow(s)
  PROVE  IInv'
<1> DEFINE i == target[s]
<1>1. i \in RowIds /\ req[s].kind \in {"update", "delete"} /\ ~Ingesting(s)
  BY DEF IInv, Stages, StageOK, LoadRow
<1>2. CASE draws[i] = None
  BY <1>2, MoveOn DEF LoadRow, Replies, local
<1>3. CASE draws[i] # None /\ req[s].kind = "update"
  <2>1. /\ Goto(s, "lottery") /\ Load(s, i)
        /\ want' = [want EXCEPT ![s] = Patched(draws[i], req[s].patch)]
        /\ UNCHANGED <<lotteries, draws, used, req, hit, target, overlap>>
    BY <1>3, Zenon DEF LoadRow
  <2>2. draws[i] \in Row /\ Patched(draws[i], req[s].patch) \in Wish
    BY <1>1, <1>3, DrawStoreAssumption DEF IInv, TypeOK, Stages, StageOK, LoadRow
  <2>3. TypeOK'
    BY <1>1, <2>1, <2>2, LoadKeeps DEF IInv, TypeOK, Goto, Working
  <2>4. OthersAlone(s)
    BY <1>1, <2>1, LoadKeeps DEF IInv, TypeOK, Goto, OthersAlone
  <2>5. loaded'[s][i] \in Row
    <3>1. i \in RowIds \cup {None} /\ i # None /\ TypeOK
      BY <1>1, DrawStoreAssumption DEF IInv
    <3>2. loaded'[s][i] = Seen(s, i)
      BY <3>1, <2>1, LoadKeeps, Zenon
    <3> QED
      BY <3>1, <3>2, <1>1, <1>3, SeenRow
  <2>6. ~Ingesting(s)'
    BY <2>1, <1>1 DEF Ingesting
  <2>7. StageOK(s)'
    BY <1>1, <1>3, <2>1, <2>2, <2>5, <2>6 DEF IInv, TypeOK, StageOK, Goto
  <2> QED
    BY <2>3, <2>4, <2>7, Assemble DEF IInv
<1>4. CASE draws[i] # None /\ req[s].kind = "delete"
  <2>1. /\ Goto(s, "remove") /\ Load(s, i)
        /\ UNCHANGED <<lotteries, draws, used, req, hit, target, want, overlap>>
    BY <1>4 DEF LoadRow
  <2>3. TypeOK'
    BY <1>1, <2>1, LoadKeeps DEF IInv, TypeOK, Goto, Working
  <2>4. OthersAlone(s)
    BY <1>1, <2>1, LoadKeeps DEF IInv, TypeOK, Goto, OthersAlone
  <2>7. StageOK(s)'
    BY <1>1, <2>1 DEF IInv, TypeOK, StageOK, Goto
  <2> QED
    BY <2>3, <2>4, <2>7, Assemble DEF IInv
<1> QED
  BY <1>1, <1>2, <1>3, <1>4

LEMMA LookupLotteryKeeps ==
  ASSUME IInv, NEW s \in Sessions, LookupLottery(s)
  PROVE  IInv'
<1>1. TypeOK'
  BY DEF IInv, TypeOK, LookupLottery, Goto, local, Working, Replies
<1>2. OthersAlone(s)
  BY DEF IInv, TypeOK, LookupLottery, Goto, local, OthersAlone
<1>3. StageOK(s)'
  BY DEF IInv, TypeOK, Stages, StageOK, LookupLottery, Goto, local, Ingesting
<1> QED
  BY <1>1, <1>2, <1>3, Assemble DEF IInv

LEMMA LookupNumberKeeps ==
  ASSUME IInv, NEW s \in Sessions, LookupNumber(s)
  PROVE  IInv'
<1> DEFINE i == First(ByNumber(want[s]))
<1>1. i \in RowIds \cup {None} /\ (i # None => Seen(s, i) \in Row)
  BY FirstFinds, LookupsFind, SeenRow DEF IInv
<1>2. Load(s, i) /\ hit' = [hit EXCEPT ![s] = i]
  BY DEF LookupNumber
<1>3. TypeOK'
  BY <1>1, <1>2, LoadKeeps DEF IInv, TypeOK, LookupNumber, Goto, Working, Replies
<1>4. OthersAlone(s)
  BY <1>1, <1>2, LoadKeeps DEF IInv, TypeOK, LookupNumber, Goto, OthersAlone
<1>5. /\ \A j \in RowIds : loaded[s][j] \in Row => loaded'[s][j] = loaded[s][j]
      /\ hit'[s] # None => loaded'[s][hit'[s]] \in Row
  BY <1>1, <1>2, LoadKeeps DEF IInv, TypeOK
<1>6. StageOK(s)'
  BY <1>5 DEF IInv, TypeOK, Stages, StageOK, LookupNumber, Goto, Replies, Ingesting
<1> QED
  BY <1>3, <1>4, <1>6, Assemble DEF IInv

LEMMA LookupDateKeeps ==
  ASSUME IInv, NEW s \in Sessions, LookupDate(s)
  PROVE  IInv'
<1> DEFINE i == First(ByDate(want[s]))
<1>1. i \in RowIds \cup {None} /\ Load(s, i)
  BY FirstFinds, LookupsFind DEF LookupDate
<1>2. TypeOK'
  BY <1>1, LoadKeeps DEF IInv, TypeOK, LookupDate, Goto, Working, Replies
<1>3. OthersAlone(s)
  BY <1>1, LoadKeeps DEF IInv, TypeOK, LookupDate, Goto, OthersAlone
<1>4. \A j \in RowIds : loaded[s][j] \in Row => loaded'[s][j] = loaded[s][j]
  BY <1>1, LoadKeeps DEF IInv
<1>5. StageOK(s)'
  BY <1>4 DEF IInv, TypeOK, Stages, StageOK, LookupDate, Goto, Replies, Ingesting
<1> QED
  BY <1>2, <1>3, <1>5, Assemble DEF IInv

LEMMA AdoptAsNewKeeps ==
  ASSUME IInv, NEW s \in Sessions, AdoptAsNew(s)
  PROVE  IInv'
<1>1. req[s] \in Requests
  BY AdoptedKind DEF IInv, TypeOK, AdoptAsNew
<1>2. [req[s] EXCEPT !.kind = "create"] \in Adopted
  BY <1>1, AdoptedShape DEF AdoptAsNew
<1>3. req' = [req EXCEPT ![s] = [req[s] EXCEPT !.kind = "create"]]
  BY DEF AdoptAsNew
<1>4. TypeOK'
  BY <1>2, <1>3 DEF IInv, TypeOK, AdoptAsNew, Goto, Working
<1>5. OthersAlone(s)
  BY <1>3 DEF IInv, TypeOK, AdoptAsNew, Goto, OthersAlone
<1>6. req'[s].kind = "create"
  <2>1. PICK r \in Records : req[s] = Persist(r)
    BY <1>1, RequestShapes DEF AdoptAsNew, Ingestions
  <2>2. [req[s] EXCEPT !.kind = "create"].kind = "create"
    BY <2>1 DEF Persist, NoRequest
  <2>3. req'[s] = [req[s] EXCEPT !.kind = "create"]
    BY <1>3 DEF IInv, TypeOK
  <2> QED
    BY <2>2, <2>3
<1>7. StageOK(s)'
  BY <1>6 DEF IInv, TypeOK, Stages, StageOK, AdoptAsNew, Goto, Ingesting
<1> QED
  BY <1>4, <1>5, <1>7, Assemble DEF IInv

LEMMA ResolvedRow ==
  ASSUME IInv, NEW s \in Sessions, NEW i \in RowIds, Resolves(s, i)
  PROVE  /\ Seen(s, i) \in Row
         /\ want[s] \in Row
         /\ Ingesting(s) /\ want[s] = req[s].record
<1>1. ASSUME hit[s] # None PROVE Seen(s, i) \in Row
  BY <1>1, SeenRow, NoneIsNoRow DEF IInv, Stages, StageOK, Resolves
<1>2. ASSUME hit[s] = None PROVE Seen(s, i) \in Row
  <2>1. i = First(ByDate(want[s])) /\ i # None
    BY <1>2 DEF Resolves, DateHit
  <2>2. i \in ByDate(want[s])
    BY <2>1, FirstFinds, LookupsFind
  <2>3. draws[i] # None
    BY <2>2, LookupsFind
  <2> QED
    BY <2>3, SeenRow DEF IInv
<1>3. want[s] \in Row /\ Ingesting(s) /\ want[s] = req[s].record
  BY DEF IInv, Stages, StageOK, Resolves
<1> QED
  BY <1>1, <1>2, <1>3, Zenon

LEMMA AcceptRepeatKeeps ==
  ASSUME IInv, NEW s \in Sessions, NEW i \in RowIds, AcceptRepeat(s, i)
  PROVE  IInv'
<1>1. TypeOK'
  BY LoadKeeps DEF IInv, TypeOK, AcceptRepeat, Goto, Replies
<1>2. OthersAlone(s)
  BY LoadKeeps DEF IInv, TypeOK, AcceptRepeat, Goto, OthersAlone
<1>3. pc'[s] \in Replies
  BY DEF IInv, TypeOK, AcceptRepeat, Goto, Replies
<1> QED
  BY <1>1, <1>2, <1>3, StageFree, Assemble DEF IInv

\* persist_raw_record has decided to make row i the row w.
LEMMA PreparedKeeps ==
  ASSUME IInv, NEW s \in Sessions, NEW i \in RowIds, NEW w \in Row,
         Resolves(s, i), Goto(s, "write"), Load(s, i),
         target' = [target EXCEPT ![s] = i],
         want' = [want EXCEPT ![s] = w],
         req[s].record.verified # TRUE => CoreOf(w) = CoreOf(Seen(s, i)),
         UNCHANGED <<lotteries, draws, used, req, hit, overlap>>
  PROVE  IInv'
<1>1. TypeOK'
  BY LoadKeeps, RowIsWish DEF IInv, TypeOK, Goto, Working
<1>2. OthersAlone(s)
  BY LoadKeeps DEF IInv, TypeOK, Goto, OthersAlone
<1>3. loaded'[s][i] = Seen(s, i)
  BY LoadKeeps, DrawStoreAssumption DEF IInv
<1>4. pc'[s] = "write" /\ target'[s] = i /\ want'[s] = w
  BY DEF IInv, TypeOK, Goto
<1>5. StageOK(s)'
  BY <1>3, <1>4, ResolvedRow, RowIsWish DEF StageOK, Ingesting
<1> QED
  BY <1>1, <1>2, <1>5, Assemble DEF IInv

LEMMA PrepareRefreshKeeps ==
  ASSUME IInv, NEW s \in Sessions, NEW i \in RowIds, PrepareRefresh(s, i)
  PROVE  IInv'
<1>1. Resolves(s, i)
  BY DEF PrepareRefresh
<1>2. /\ Refreshed(Seen(s, i), want[s]) \in Row
      /\ CoreOf(Refreshed(Seen(s, i), want[s])) = CoreOf(Seen(s, i))
  BY <1>1, ResolvedRow, RefreshedRow
<1> QED
  BY <1>1, <1>2, PreparedKeeps DEF PrepareRefresh

LEMMA PrepareReconcileKeeps ==
  ASSUME IInv, NEW s \in Sessions, NEW i \in RowIds, PrepareReconcile(s, i)
  PROVE  IInv'
<1>1. Resolves(s, i)
  BY DEF PrepareReconcile
<1>2. Reconciled(Seen(s, i), want[s]) \in Row
  BY <1>1, ResolvedRow, ReconciledRow
<1>3. req[s].record.verified = TRUE
  BY <1>1, ResolvedRow DEF PrepareReconcile, Authoritative
<1> QED
  BY <1>1, <1>2, <1>3, PreparedKeeps DEF PrepareReconcile

LEMMA RejectRecordKeeps ==
  ASSUME IInv, NEW s \in Sessions, RejectRecord(s)
  PROVE  IInv'
BY MoveOn DEF RejectRecord, Replies, local

LEMMA WriteNothingKeeps ==
  ASSUME IInv, NEW s \in Sessions, WriteNothing(s)
  PROVE  IInv'
<1>1. TypeOK'
  BY DEF IInv, TypeOK, WriteNothing, Goto, local, Working
<1>2. OthersAlone(s)
  BY DEF IInv, TypeOK, WriteNothing, Goto, local, OthersAlone
<1>3. StageOK(s)'
  BY DEF IInv, TypeOK, Stages, StageOK, WriteNothing, Goto, local
<1> QED
  BY <1>1, <1>2, <1>3, Assemble DEF IInv

LEMMA WriteLostKeeps ==
  ASSUME IInv, NEW s \in Sessions, WriteLost(s)
  PROVE  IInv'
BY MoveOn DEF WriteLost, Replies, local

LEMMA RefreshKeeps ==
  ASSUME IInv, NEW s \in Sessions, Refresh(s)
  PROVE  IInv'
BY MoveOn DEF Refresh, Replies, local

LEMMA FailKeeps ==
  ASSUME IInv, NEW s \in Sessions, Fail(s)
  PROVE  IInv'
BY MoveOn DEF Fail, Replies, local
-----------------------------------------------------------------------------
(* The steps that change the table *)

\* The two ways a change reaches the table: as an insertion, as an update.
LEMMA InsertedRow ==
  ASSUME IInv, NEW s \in Sessions, Insert(s), draws' # draws
  PROVE  \E i \in RowIds \ used :
           /\ used' = used \cup {i}
           /\ want[s] \in Row
           /\ Admits(i, want[s])
           /\ draws' = [draws EXCEPT ![i] = want[s]]
           /\ lotteries' = lotteries
BY DEF IInv, Stages, StageOK, Insert

LEMMA InsertKeeps ==
  ASSUME IInv, NEW s \in Sessions, Insert(s)
  PROVE  IInv'
<1>1. want[s] \in Row
  BY DEF IInv, Stages, StageOK, Insert
<1>2. UNCHANGED <<lotteries, req, loaded, hit, want>>
  BY DEF Insert
<1>3. CASE used = RowIds /\ Goto(s, "error") /\ UNCHANGED <<draws, used, target, overlap>>
  BY <1>2, <1>3, MoveOn DEF Replies, local
<1>4. ASSUME NEW i \in RowIds \ used,
             used' = used \cup {i}, target' = [target EXCEPT ![s] = i],
             \/ /\ draws' = [draws EXCEPT ![i] = want[s]]
                /\ Goto(s, "refresh")
                /\ Disturb(s)
             \/ Goto(s, "409") /\ UNCHANGED <<draws, overlap>>
      PROVE  IInv'
  <2>1. TypeOK'
    BY <1>1, <1>2, <1>4 DEF IInv, TypeOK, Goto, Disturb, Working, Replies
  <2>2. OthersAlone(s)
    BY <1>2, <1>4 DEF IInv, TypeOK, Goto, OthersAlone
  <2>3. StageOK(s)'
    BY <1>4 DEF IInv, TypeOK, Goto, StageOK
  <2> QED
    BY <2>1, <2>2, <2>3, Assemble DEF IInv
<1> QED
  BY <1>3, <1>4 DEF Insert

\* An accepted UPDATE puts a row there that the constraints admit.
LEMMA WrittenRow ==
  ASSUME IInv, NEW s \in Sessions, Write(s)
  PROVE  /\ target[s] \in RowIds
         /\ draws[target[s]] \in Row
         /\ UNCHANGED <<lotteries, used, local>>
         /\ LET row == Merged(draws[target[s]], loaded[s][target[s]], want[s]) IN
              \/ /\ row \in Row
                 /\ Admits(target[s], row)
                 /\ draws' = [draws EXCEPT ![target[s]] = row]
                 /\ Goto(s, "refresh")
                 /\ Disturb(s)
              \/ /\ Goto(s, IF req[s].kind = "update" THEN "409" ELSE "error")
                 /\ UNCHANGED <<draws, overlap>>
<1>1. /\ target[s] \in RowIds
      /\ want[s] \in Wish
      /\ loaded[s][target[s]] \in Row
      /\ draws[target[s]] \in Row
  BY DEF IInv, TypeOK, Stages, StageOK, Write
<1> DEFINE row == Merged(draws[target[s]], loaded[s][target[s]], want[s])
<1>2. row \in Wish
  BY <1>1, MergedWish
<1>3. Admits(target[s], row) => row \in Row
  BY <1>2, DatedWishIsRow DEF Admits
<1> QED
  BY <1>1, <1>3 DEF Write

LEMMA WriteKeeps ==
  ASSUME IInv, NEW s \in Sessions, Write(s)
  PROVE  IInv'
<1> DEFINE row == Merged(draws[target[s]], loaded[s][target[s]], want[s])
<1>1. target[s] \in RowIds /\ UNCHANGED <<lotteries, used, local>>
  BY WrittenRow
<1>2. \/ /\ row \in Row
         /\ draws' = [draws EXCEPT ![target[s]] = row]
         /\ Goto(s, "refresh")
         /\ Disturb(s)
      \/ /\ Goto(s, IF req[s].kind = "update" THEN "409" ELSE "error")
         /\ UNCHANGED <<draws, overlap>>
  BY WrittenRow
<1> HIDE DEF row
<1>3. CASE UNCHANGED <<draws, overlap>> /\ Goto(s, IF req[s].kind = "update" THEN "409" ELSE "error")
  BY <1>1, <1>3, MoveOn DEF Replies
<1>4. CASE /\ row \in Row
           /\ draws' = [draws EXCEPT ![target[s]] = row]
           /\ Goto(s, "refresh")
           /\ Disturb(s)
  <2>1. TypeOK'
    BY <1>1, <1>4 DEF IInv, TypeOK, Goto, Disturb, local, Working
  <2>2. OthersAlone(s)
    BY <1>1, <1>4 DEF IInv, TypeOK, Goto, OthersAlone, local
  <2>3. StageOK(s)'
    BY <1>1, <1>4 DEF IInv, TypeOK, Goto, StageOK, local
  <2> QED
    BY <2>1, <2>2, <2>3, Assemble DEF IInv
<1> QED
  BY <1>2, <1>3, <1>4

LEMMA RemoveKeeps ==
  ASSUME IInv, NEW s \in Sessions, Remove(s)
  PROVE  IInv'
<1>1. TypeOK'
  BY DEF IInv, TypeOK, Remove, Goto, Disturb, local, Replies
<1>2. OthersAlone(s)
  BY DEF IInv, TypeOK, Remove, Goto, OthersAlone, local
<1>3. pc'[s] \in Replies
  BY DEF IInv, TypeOK, Remove, Goto, Replies
<1> QED
  BY <1>1, <1>2, <1>3, StageFree, Assemble DEF IInv

LEMMA CollectDrawsKeeps ==
  ASSUME IInv, NEW s \in Sessions, CollectDraws(s)
  PROVE  IInv'
<1>1. TypeOK'
  BY DEF IInv, TypeOK, CollectDraws, Goto, Working
<1>2. OthersAlone(s)
  BY DEF IInv, TypeOK, CollectDraws, Goto, OthersAlone
<1>3. StageOK(s)'
  BY DEF IInv, TypeOK, Stages, StageOK, CollectDraws, Goto
<1> QED
  BY <1>1, <1>2, <1>3, Assemble DEF IInv

LEMMA DropKeeps ==
  ASSUME IInv, NEW s \in Sessions, Drop(s)
  PROVE  IInv'
<1>1. TypeOK'
  BY DEF IInv, TypeOK, Drop, Goto, Disturb, local, Replies
<1>2. OthersAlone(s)
  BY DEF IInv, TypeOK, Drop, Goto, OthersAlone, local
<1>3. pc'[s] \in Replies
  BY DEF IInv, TypeOK, Drop, Goto, Replies
<1> QED
  BY <1>1, <1>2, <1>3, StageFree, Assemble DEF IInv

LEMMA ReturnKeeps ==
  ASSUME IInv, NEW s \in Sessions, Return(s)
  PROVE  IInv'
<1>1. TypeOK'
  BY DEF IInv, TypeOK, Return, Goto, NothingLoaded
<1>2. OthersAlone(s)
  BY DEF IInv, TypeOK, Return, Goto, OthersAlone
<1>3. pc'[s] = "idle"
  BY DEF IInv, TypeOK, Return, Goto
<1> QED
  BY <1>1, <1>2, <1>3, StageFree, Assemble DEF IInv
-----------------------------------------------------------------------------
(* Type correctness *)

LEMMA InitInvariant == Init => IInv
<1> SUFFICES ASSUME Init PROVE IInv
  OBVIOUS
<1>1. TypeOK
  BY DEF Init, TypeOK, NothingLoaded
<1>2. Stages
  BY DEF Init, Stages, StageOK
<1> QED
  BY <1>1, <1>2 DEF IInv

LEMMA StepKeeps ==
  ASSUME IInv, NEW s \in Sessions, Step(s)
  PROVE  IInv'
<1>1. CASE LoadRow(s) \/ LookupLottery(s) \/ LookupNumber(s) \/ LookupDate(s)
  BY <1>1, LoadRowKeeps, LookupLotteryKeeps, LookupNumberKeeps, LookupDateKeeps
<1>2. CASE AdoptAsNew(s) \/ RejectRecord(s)
  BY <1>2, AdoptAsNewKeeps, RejectRecordKeeps
<1>3. ASSUME NEW i \in RowIds,
             AcceptRepeat(s, i) \/ PrepareRefresh(s, i) \/ PrepareReconcile(s, i)
      PROVE  IInv'
  BY <1>3, AcceptRepeatKeeps, PrepareRefreshKeeps, PrepareReconcileKeeps
<1>4. CASE Insert(s) \/ WriteNothing(s) \/ WriteLost(s) \/ Write(s) \/ Refresh(s)
  BY <1>4, InsertKeeps, WriteNothingKeeps, WriteLostKeeps, WriteKeeps, RefreshKeeps
<1>5. CASE CollectDraws(s) \/ Remove(s) \/ Drop(s) \/ Return(s)
  BY <1>5, CollectDrawsKeeps, RemoveKeeps, DropKeeps, ReturnKeeps
<1> QED
  BY <1>1, <1>2, <1>3, <1>4, <1>5 DEF Step

LEMMA NextKeeps == IInv /\ [Next]_vars => IInv'
<1> SUFFICES ASSUME IInv, [Next]_vars PROVE IInv'
  OBVIOUS
<1>1. CASE UNCHANGED vars
  <2>1. TypeOK'
    BY <1>1 DEF vars, IInv, TypeOK
  <2>2. ASSUME NEW s \in Sessions PROVE StageOK(s)'
    BY <1>1 DEF vars, IInv, Stages, StageOK, Ingesting
  <2> QED
    BY <2>1, <2>2 DEF IInv, Stages
<1>2. ASSUME NEW s \in Sessions, NEW r \in Requests, Begin(s, r) PROVE IInv'
  BY <1>2, BeginKeeps
<1>3. ASSUME NEW s \in Sessions, Step(s) PROVE IInv'
  BY <1>3, StepKeeps
<1>4. ASSUME NEW s \in Sessions, Fail(s) PROVE IInv'
  BY <1>4, FailKeeps
<1> QED
  BY <1>1, <1>2, <1>3, <1>4 DEF Next

THEOREM Invariance == Spec => []IInv
BY InitInvariant, NextKeeps, PTL DEF Spec

\* Whatever the requests and their interleaving, the table and the sessions
\* keep their types: in particular no row without a date is ever committed.
THEOREM TypeCorrect == Spec => []TypeOK
BY Invariance, PTL DEF IInv
-----------------------------------------------------------------------------
(* Refinement of DrawTable *)

LEMMA AdmittedFits ==
  ASSUME NEW i \in RowIds, NEW r \in Row, Admits(i, r)
  PROVE  Table!Fits(i, r)
BY DEF Admits, Table!Fits, Table!SameDraw, ByNumber, ByDate, LotteryOf

\* Every step of a session is one change of the table, or none.
LEMMA StepIsChange ==
  ASSUME IInv, NEW s \in Sessions, Step(s)
  PROVE  [Table!Next]_(Table!table)
<1>1. CASE UNCHANGED <<lotteries, draws, used>>
  BY <1>1 DEF Table!table
<1>2. CASE Insert(s)
  <2>1. CASE UNCHANGED <<draws, used>>
    BY <1>2, <2>1, <1>1 DEF Insert
  <2>2. ASSUME NEW i \in RowIds \ used, used' = used \cup {i}, want[s] \in Row,
               \/ Admits(i, want[s]) /\ draws' = [draws EXCEPT ![i] = want[s]]
               \/ UNCHANGED draws
        PROVE  Table!Add(i)
    <3>1. lotteries' = lotteries
      BY <1>2 DEF Insert
    <3>2. CASE Admits(i, want[s]) /\ draws' = [draws EXCEPT ![i] = want[s]]
      <4>1. draws'[i] = want[s] /\ Table!Fits(i, want[s])
        BY <2>2, <3>2, AdmittedFits DEF IInv, TypeOK
      <4> QED
        BY <2>2, <3>1, <3>2, <4>1 DEF Table!Add, Table!Stands
    <3> QED
      BY <2>2, <3>1, <3>2 DEF Table!Add
  <2>3. want[s] \in Row
    BY <1>2 DEF IInv, Stages, StageOK, Insert
  <2> QED
    BY <1>2, <2>1, <2>2, <2>3 DEF Insert, Table!Next
<1>3. CASE Write(s)
  <2> DEFINE i == target[s]
             row == Merged(draws[i], loaded[s][i], want[s])
  <2>1. i \in RowIds /\ draws[i] \in Row /\ UNCHANGED <<lotteries, used>>
    BY <1>3, WrittenRow
  <2>2. \/ row \in Row /\ Admits(i, row) /\ draws' = [draws EXCEPT ![i] = row]
        \/ UNCHANGED draws
    BY <1>3, WrittenRow
  <2> HIDE DEF i, row
  <2>3. CASE row \in Row /\ Admits(i, row) /\ draws' = [draws EXCEPT ![i] = row]
    <3>1. draws'[i] = row /\ Table!Fits(i, row) /\ draws[i] # None
      BY <2>1, <2>3, AdmittedFits, NoneIsNoRow DEF IInv, TypeOK
    <3>2. Table!Change(i)
      BY <2>1, <2>3, <3>1 DEF Table!Change, Table!Stands
    <3> QED
      BY <2>1, <3>2 DEF Table!Next
  <2> QED
    BY <1>1, <2>1, <2>2, <2>3
<1>4. CASE Remove(s)
  <2>1. target[s] \in RowIds
    BY <1>4 DEF IInv, Stages, StageOK, Remove
  <2>2. Table!Delete(target[s])
    BY <1>4 DEF Remove, Table!Delete
  <2> QED
    BY <2>1, <2>2 DEF Table!Next
<1>5. CASE Drop(s)
  <2> DEFINE l == req[s].lottery
  <2>1. Table!DropLottery(l)
    BY <1>5 DEF Drop, Table!DropLottery, LotteryOf
  <2>2. l \in Lotteries
    BY <1>5 DEF IInv, Stages, StageOK, Drop
  <2> QED
    BY <2>1, <2>2 DEF Table!Next
<1>6. \/ UNCHANGED <<lotteries, draws, used>>
      \/ Insert(s) \/ Write(s) \/ Remove(s) \/ Drop(s)
  BY DEF Step, LoadRow, LookupLottery, LookupNumber, LookupDate, AdoptAsNew,
         AcceptRepeat, PrepareRefresh, PrepareReconcile, RejectRecord,
         WriteNothing, WriteLost, Refresh, CollectDraws, Return
<1> QED
  BY <1>1, <1>2, <1>3, <1>4, <1>5, <1>6

LEMMA NextIsChange == IInv /\ [Next]_vars => [Table!Next]_(Table!table)
<1> SUFFICES ASSUME IInv, [Next]_vars PROVE [Table!Next]_(Table!table)
  OBVIOUS
<1>1. ASSUME NEW s \in Sessions, Step(s) PROVE [Table!Next]_(Table!table)
  BY <1>1, StepIsChange
<1>2. ASSUME NEW s \in Sessions, NEW r \in Requests, Begin(s, r) \/ Fail(s)
      PROVE  [Table!Next]_(Table!table)
  BY <1>2 DEF Begin, Fail, Table!table
<1>3. ASSUME NEW s \in Sessions, Fail(s) PROVE [Table!Next]_(Table!table)
  BY <1>3 DEF Fail, Table!table
<1>4. CASE UNCHANGED vars
  BY <1>4 DEF vars, Table!table
<1> QED
  BY <1>1, <1>2, <1>3, <1>4 DEF Next

LEMMA InitIsInit == Init => Table!Init
BY DEF Init, NothingLoaded, Table!Init

\* The interleaved sessions, with their stale reads, partial updates, failed
\* commits and cascades, implement the table of DrawTable.
THEOREM Implements == Spec => ImplementsTable
BY InitIsInit, NextIsChange, Invariance, PTL DEF Spec, ImplementsTable, Table!Spec
-----------------------------------------------------------------------------
(* Safety of the table, from the changes DrawTable allows *)

LEMMA ChangeKeepsSafe ==
  ASSUME IInv, IInv', UniqueIdentity, NoOrphans, [Table!Next]_(Table!table)
  PROVE  UniqueIdentity' /\ NoOrphans'
<1> DEFINE Safe == UniqueIdentity /\ NoOrphans
<1>1. CASE UNCHANGED <<lotteries, draws, used>>
  BY <1>1 DEF UniqueIdentity, NoOrphans
<1>2. ASSUME NEW i \in RowIds, Table!Stands(i), UNCHANGED lotteries
      PROVE  Safe'
  <2> DEFINE r == draws'[i]
  <2>1. r \in Row /\ Table!Fits(i, r) /\ draws' = [draws EXCEPT ![i] = r]
    BY <1>2, Zenon DEF Table!Stands
  <2> HIDE DEF r
  <2>2. draws'[i] = r /\ \A j \in RowIds \ {i} : draws'[j] = draws[j]
    BY <2>1 DEF IInv, TypeOK
  <2>3. NoOrphans'
    BY <1>2, <2>1, <2>2 DEF NoOrphans, Table!Fits, LotteryOf
  <2>4. UniqueIdentity'
    <3> SUFFICES ASSUME NEW j \in RowIds, NEW k \in RowIds,
                        draws'[j] # None, draws'[k] # None,
                        Table!SameDraw(draws'[j], draws'[k]),
                        j # k
                 PROVE  FALSE
      BY DEF UniqueIdentity, Table!SameDraw
    <3>1. CASE j # i /\ k # i
      BY <3>1, <2>2 DEF UniqueIdentity, Table!SameDraw
    <3>2. CASE j = i \/ k = i
      BY <3>2, <2>1, <2>2 DEF Table!Fits, Table!SameDraw
    <3> QED
      BY <3>1, <3>2
  <2> QED
    BY <2>3, <2>4
<1>3. ASSUME \A i \in RowIds : draws'[i] \in {draws[i], None},
             \A i \in RowIds : draws'[i] # None => LotteryOf(draws[i].series) \in lotteries'
      PROVE  Safe'
  BY <1>3 DEF UniqueIdentity, NoOrphans
<1>4. ASSUME NEW i \in RowIds, Table!Delete(i) PROVE Safe'
  BY <1>3, <1>4 DEF Table!Delete, NoOrphans, IInv, TypeOK
<1>5. ASSUME NEW l \in Lotteries, Table!DropLottery(l) PROVE Safe'
  BY <1>3, <1>5 DEF Table!DropLottery, NoOrphans, LotteryOf
<1>6. ASSUME NEW i \in RowIds, Table!Add(i) \/ Table!Change(i) PROVE Safe'
  <2>1. CASE Table!Stands(i) /\ UNCHANGED lotteries
    BY <2>1, <1>2
  <2>2. CASE UNCHANGED <<lotteries, draws>>
    BY <2>2 DEF UniqueIdentity, NoOrphans
  <2> QED
    BY <1>6, <2>1, <2>2 DEF Table!Add, Table!Change
<1> QED
  BY <1>1, <1>4, <1>5, <1>6 DEF Table!Next, Table!table

LEMMA InitSafe == Init => UniqueIdentity /\ NoOrphans
BY DEF Init, NothingLoaded, UniqueIdentity, NoOrphans

\* At most one draw per number and per date of a series, and none without its
\* lottery, in every reachable table.
THEOREM TableSafety == Spec => [](UniqueIdentity /\ NoOrphans)
<1>1. IInv /\ IInv' /\ (UniqueIdentity /\ NoOrphans) /\ [Next]_vars
        => (UniqueIdentity /\ NoOrphans)'
  BY NextIsChange, ChangeKeepsSafe
<1> QED
  BY InitSafe, <1>1, Invariance, PTL DEF Spec
LEMMA UniqueAlways == Spec => []UniqueIdentity
BY TableSafety, PTL

\* No draw outlives its lottery, whatever is inserted or moved there while the
\* lottery is being deleted.
THEOREM DrawsHaveLotteries == Spec => []NoOrphans
BY TableSafety, PTL

\* A row stands under an id that has been handed out.
UsedRows == \A i \in RowIds : draws[i] # None => i \in used

LEMMA RowsAreUsed == Spec => []UsedRows
<1>1. Init => UsedRows
  BY DEF Init, NothingLoaded, UsedRows
<1>2. ASSUME IInv, UsedRows, [Next]_vars PROVE UsedRows'
  <2>1. [Table!Next]_(Table!table)
    BY <1>2, NextIsChange
  <2> QED
    BY <1>2, <2>1 DEF Table!Next, Table!table, Table!Add, Table!Change, Table!Stands,
                      Table!Delete, Table!DropLottery, UsedRows, IInv, TypeOK
<1> QED
  BY <1>1, <1>2, Invariance, PTL DEF Spec
-----------------------------------------------------------------------------
(* What an unverified record may do to a row *)

LEMMA UnverifiedWrite ==
  ASSUME IInv, NEW s \in Sessions, NEW i \in RowIds, Write(s) \/ WriteNothing(s) \/ WriteLost(s),
         Ingesting(s), req[s].record.verified # TRUE, draws[i] # None, pc'[s] # "write"
  PROVE  draws'[i] # None /\ CoreOf(draws'[i]) = CoreOf(draws[i])
<1>1. CASE UNCHANGED draws
  BY <1>1
<1>2. CASE Write(s) /\ draws' # draws
  <2> DEFINE t == target[s]
             row == Merged(draws[t], loaded[s][t], want[s])
  <2>1. /\ t \in RowIds /\ draws[t] \in Row /\ loaded[s][t] \in Row /\ want[s] \in Wish
        /\ CoreOf(want[s]) = CoreOf(loaded[s][t])
    BY <1>2, WrittenRow DEF IInv, Stages, StageOK, Write
  <2>2. row \in Row /\ draws' = [draws EXCEPT ![t] = row]
    BY <1>2, WrittenRow
  <2>3. CoreOf(row) = CoreOf(draws[t])
    BY <2>1, MergedCore
  <2> HIDE DEF row
  <2>4. CASE i = t
    BY <2>1, <2>2, <2>3, <2>4, NoneIsNoRow DEF IInv, TypeOK
  <2>5. CASE i # t
    BY <2>2, <2>5 DEF IInv, TypeOK
  <2> QED
    BY <2>4, <2>5
<1> QED
  BY <1>1, <1>2 DEF WriteNothing, WriteLost

\* The steps that leave "write".
LEMMA LeavingWrite ==
  ASSUME IInv, [Next]_vars, NEW s \in Sessions, pc[s] = "write", pc'[s] # "write"
  PROVE  Write(s) \/ WriteNothing(s) \/ WriteLost(s) \/ UNCHANGED draws
<1>1. ASSUME NEW t \in Sessions, t # s, NEW l, Goto(t, l) PROVE FALSE
  BY <1>1 DEF Goto, IInv, TypeOK
<1>2. ASSUME NEW t \in Sessions, Step(t) PROVE \E l : Goto(t, l)
  BY <1>2, Zenon DEF Step, LoadRow, LookupLottery, LookupNumber, LookupDate, AdoptAsNew,
         AcceptRepeat, PrepareRefresh, PrepareReconcile, RejectRecord, Insert,
         WriteNothing, WriteLost, Write, Refresh, CollectDraws, Remove, Drop, Return
<1>3. ASSUME Step(s) PROVE Write(s) \/ WriteNothing(s) \/ WriteLost(s) \/ UNCHANGED draws
  BY <1>3 DEF Step, LoadRow, LookupLottery, LookupNumber, LookupDate, AdoptAsNew,
         AcceptRepeat, PrepareRefresh, PrepareReconcile, RejectRecord, Insert,
         Refresh, CollectDraws, Remove, Drop, Return, Replies
<1>4. ASSUME NEW t \in Sessions, NEW r \in Requests, Begin(t, r) \/ Fail(t)
      PROVE  UNCHANGED draws
  BY <1>4 DEF Begin, Fail
<1>5. ASSUME NEW t \in Sessions, Step(t) PROVE t = s
  BY <1>1, <1>2, <1>5
<1>6. CASE Next
  <2>1. PICK t \in Sessions : \/ \E r \in Requests : Begin(t, r)
                              \/ Step(t)
                              \/ Fail(t)
    BY <1>6 DEF Next
  <2>2. CASE Step(t)
    <3>1. t = s
      BY <1>5, <2>2
    <3> QED
      BY <1>3, <2>2, <3>1
  <2>3. CASE Fail(t)
    BY <2>3 DEF Fail
  <2> QED
    BY <1>4, <2>1, <2>2, <2>3
<1> QED
  BY <1>6 DEF vars

\* An unverified source can complete a row, never rewrite what it says.
THEOREM UnverifiedSafe == Spec => UnverifiedNeverOverwrites
<1>1. IInv /\ [Next]_vars =>
        [\A s \in Sessions, i \in RowIds :
           /\ Ingesting(s)
           /\ req[s].record.verified # TRUE
           /\ draws[i] # None
           /\ pc[s] = "write" /\ pc'[s] # "write"
           => draws'[i] # None /\ CoreOf(draws'[i]) = CoreOf(draws[i])]_vars
  BY LeavingWrite, UnverifiedWrite
<1> QED
  BY <1>1, Invariance, PTL DEF Spec, UnverifiedNeverOverwrites
-----------------------------------------------------------------------------
(* What an ingestion knows of the table while nobody else changes it.  The *)
(* proofs about RepeatIsNoOp and RejectionJustified follow a record through*)
(* the stages of its request.                                              *)

HasNumber(row, r) ==
  row # None /\ row.series = r.series /\ r.number # None /\ row.number = r.number

HasDate(row, r) == row # None /\ row.series = r.series /\ row.date = r.date

Answers(row, r) == HasNumber(row, r) \/ HasDate(row, r)

\* Persisting the record again would find this row and write nothing.
Carried(row, r) == row # None /\ Compatible(row, r) /\ Refreshed(row, r) = row

Fresh(s) == \A i \in RowIds : loaded[s][i] \in {None, draws[i]}

\* What is true of the table once a record has got to each stage, as long as
\* nobody else has changed the table since it was begun.
KnowsAt(s, rec) ==
  /\ rec \in Row
  /\ req[s].kind \in {"persist", "create"}
  /\ pc[s] \notin {"idle", "row", "remove", "collect", "drop"}
  /\ pc[s] \in {"lottery", "number", "date", "write"} => Fresh(s)
  /\ pc[s] \in {"lottery", "write"} => req[s].kind = "persist"
  /\ pc[s] \in {"lottery", "number", "date", "insert"} => want[s] = rec
  /\ pc[s] \in {"number", "date", "insert"} => LotteryOf(rec.series) \in lotteries
  /\ \/ pc[s] = "insert"
     \/ pc[s] \in {"number", "date"} /\ req[s].kind = "create"
     => \A i \in RowIds : ~Answers(draws[i], rec)
  /\ pc[s] = "date" =>
       IF hit[s] = None
         THEN \A i \in RowIds : ~HasNumber(draws[i], rec)
         ELSE hit[s] \in RowIds /\ HasNumber(draws[hit[s]], rec)
  /\ pc[s] = "write" =>
       /\ target[s] \in RowIds
       /\ Answers(draws[target[s]], rec)
       /\ Carried(want[s], rec)
       /\ ~Carried(draws[target[s]], rec)
  /\ pc[s] \in {"refresh", "ok"} =>
       target[s] \in RowIds /\ Carried(draws[target[s]], rec)
  /\ pc[s] = "409" =>
       \E i \in RowIds : Answers(draws[i], rec) /\ ~Compatible(draws[i], rec)

Knows(s) == Ingesting(s) => KnowsAt(s, req[s].record)

\* A session without a request remembers nothing.
Blank(s) == pc[s] = "idle" => loaded[s] = NothingLoaded /\ req[s] = NoRequest
-----------------------------------------------------------------------------
(* Rows and records *)

LEMMA LookupMeaning ==
  ASSUME NEW r
  PROVE  /\ ByNumber(r) = {i \in RowIds : HasNumber(draws[i], r)}
         /\ ByDate(r) = {i \in RowIds : HasDate(draws[i], r)}
BY DEF ByNumber, ByDate, HasNumber, HasDate

LEMMA RecordCarriesItself ==
  ASSUME NEW rec \in Row
  PROVE  Carried(rec, rec)
<1>1. Compatible(rec, rec)
  BY DEF Compatible, CoreCompatible, MetaCompatible
<1>2. Refreshed(rec, rec) = rec
  BY DEF Refreshed, Updated, Row
<1> QED
  BY <1>1, <1>2, NoneIsNoRow DEF Carried

LEMMA RefreshCarries ==
  ASSUME NEW row \in Row, NEW rec \in Row, Compatible(row, rec)
  PROVE  Carried(Refreshed(row, rec), rec)
<1> DEFINE new == Refreshed(row, rec)
<1>1. new \in Row /\ CoreOf(new) = CoreOf(row)
  BY RefreshedRow
<1>2. new.meta = Updated(row.meta, rec.meta)
  BY DEF Refreshed, Row
<1>3. Compatible(new, rec)
  BY <1>1, <1>2 DEF Compatible, CoreCompatible, MetaCompatible, CoreOf, Updated
<1>4. Refreshed(new, rec) = new
  BY DEF Refreshed, Updated, Row
<1> QED
  BY <1>1, <1>3, <1>4, NoneIsNoRow DEF Carried

LEMMA ReconcileCarries ==
  ASSUME NEW row \in Row, NEW rec \in Row, Answers(row, rec)
  PROVE  Carried(Reconciled(row, rec), rec)
<1>1. Reconciled(row, rec) = rec
  BY DEF Reconciled, Answers, HasNumber, HasDate, Row
<1> QED
  BY <1>1, RecordCarriesItself

\* A row that nobody has changed since it was loaded becomes what was wanted.
LEMMA MergedUndisturbed ==
  ASSUME NEW row \in Row, NEW new \in Wish
  PROVE  Merged(row, row, new) = new
BY DEF Merged, Pick, MetadataChanged, Row, Wish

\* A row that carries a record has its date, and its number if it has one.
LEMMA CarriedAnswers ==
  ASSUME NEW row \in Row, NEW rec \in Row, Carried(row, rec)
  PROVE  /\ HasDate(row, rec)
         /\ rec.number # None => HasNumber(row, rec)
BY DrawStoreAssumption DEF Carried, Compatible, CoreCompatible, HasDate, HasNumber, Row
-----------------------------------------------------------------------------
(* The session's own steps keep what it knows *)

LEMMA KnowsFrame ==
  ASSUME NEW s \in Sessions, Knows(s), UNCHANGED <<lotteries, draws>>,
         pc'[s] = pc[s], req'[s] = req[s], want'[s] = want[s],
         target'[s] = target[s], loaded'[s] = loaded[s], hit'[s] = hit[s]
  PROVE  Knows(s)'
BY DEF Knows, KnowsAt, Ingesting, Fresh

LEMMA LoadFresh ==
  ASSUME TypeOK, NEW s \in Sessions, NEW i \in RowIds \cup {None},
         Fresh(s), Load(s, i), draws' = draws
  PROVE  Fresh(s)'
BY DEF Fresh, Load, Seen, TypeOK

LEMMA BeginKnows ==
  ASSUME IInv, NEW s \in Sessions, Blank(s), NEW r \in Requests, Begin(s, r)
  PROVE  Knows(s)'
<1>1. /\ req'[s] = r /\ want'[s] = r.record /\ pc'[s] = FirstStep(r.kind)
      /\ loaded'[s] = NothingLoaded /\ draws' = draws
  BY DEF Begin, Goto, Blank, IInv, TypeOK
<1>2. CASE r.via = "ingestion"
  BY <1>1, <1>2, RequestShapes DEF Knows, KnowsAt, Fresh, NothingLoaded, FirstStep
<1>3. CASE r.via # "ingestion"
  BY <1>1, <1>3 DEF Knows, Ingesting
<1> QED
  BY <1>2, <1>3

LEMMA LookupLotteryKnows ==
  ASSUME IInv, NEW s \in Sessions, Knows(s), LookupLottery(s)
  PROVE  Knows(s)'
<1>1. /\ pc'[s] \in {"404", "collect", "number"}
      /\ req[s].kind # "drop" => LotteryOf(want[s].series) \in lotteries \/ pc'[s] = "404"
      /\ req[s].kind # "drop" => pc'[s] # "collect"
  BY DEF LookupLottery, LotteryAskedFor, Goto, IInv, TypeOK
<1>2. UNCHANGED <<lotteries, draws, used, local>>
  BY DEF LookupLottery
<1> QED
  BY <1>1, <1>2 DEF Knows, KnowsAt, Ingesting, Fresh, LookupLottery, local

LEMMA LookupNumberKnows ==
  ASSUME IInv, NEW s \in Sessions, Knows(s), LookupNumber(s)
  PROVE  Knows(s)'
<1> SUFFICES ASSUME Ingesting(s) PROVE KnowsAt(s, req[s].record)'
  BY DEF Knows, Ingesting, LookupNumber
<1> DEFINE rec == req[s].record
           i == First(ByNumber(want[s]))
<1>1. want[s] = rec /\ Fresh(s) /\ KnowsAt(s, rec)
  BY DEF Knows, KnowsAt, LookupNumber
<1>2. /\ i \in RowIds \cup {None}
      /\ i # None => HasNumber(draws[i], rec)
      /\ i = None => \A j \in RowIds : ~HasNumber(draws[j], rec)
  BY <1>1, FirstFinds, LookupMeaning
<1>3. /\ Load(s, i) /\ hit'[s] = i
      /\ pc'[s] = IF Clashes(s, i) THEN "409" ELSE "date"
      /\ UNCHANGED <<lotteries, draws, used, req, target, want, overlap>>
  BY DEF LookupNumber, Goto, IInv, TypeOK
<1>4. ~Clashes(s, i)
  BY <1>1, <1>2 DEF Clashes, KnowsAt, LookupNumber, Answers
<1>5. Fresh(s)'
  BY <1>1, <1>2, <1>3, LoadFresh DEF IInv
<1> QED
  BY <1>1, <1>2, <1>3, <1>4, <1>5 DEF KnowsAt, LookupNumber

LEMMA LookupDateKnows ==
  ASSUME IInv, NEW s \in Sessions, Knows(s), LookupDate(s)
  PROVE  Knows(s)'
<1> SUFFICES ASSUME Ingesting(s) PROVE KnowsAt(s, req[s].record)'
  BY DEF Knows, Ingesting, LookupDate
<1> DEFINE rec == req[s].record
           i == First(ByDate(want[s]))
<1>1. want[s] = rec /\ req[s].kind = "create" /\ KnowsAt(s, rec)
  BY DEF Knows, KnowsAt, LookupDate
<1>2. i = None
  <2>1. i # None => i \in RowIds /\ HasDate(draws[i], rec)
    BY <1>1, FirstFinds, LookupMeaning
  <2> QED
    BY <1>1, <2>1 DEF KnowsAt, LookupDate, Answers
<1>3. pc'[s] = "insert" /\ UNCHANGED <<lotteries, draws, used, req, target, want>>
  BY <1>1, <1>2 DEF LookupDate, Clashes, Goto, IInv, TypeOK
<1> QED
  BY <1>1, <1>3 DEF KnowsAt, LookupDate

\* Nothing answers to the record.
LEMMA NothingFound ==
  ASSUME IInv, NEW s \in Sessions, Knows(s), Ingesting(s), pc[s] = "date",
         hit[s] = None, DateHit(s) = None
  PROVE  \A i \in RowIds : ~Answers(draws[i], req[s].record)
<1>1. want[s] = req[s].record
  BY DEF Knows, KnowsAt
<1>2. ByDate(want[s]) = {}
  BY FirstFinds, LookupsFind DEF DateHit
<1>3. \A i \in RowIds : ~HasDate(draws[i], req[s].record)
  BY <1>1, <1>2, LookupMeaning
<1> QED
  BY <1>3 DEF Knows, KnowsAt, Answers

LEMMA AdoptAsNewKnows ==
  ASSUME IInv, NEW s \in Sessions, Knows(s), AdoptAsNew(s)
  PROVE  Knows(s)'
<1>1. req[s] \in Requests
  BY AdoptedKind DEF IInv, TypeOK, AdoptAsNew
<1>2. req[s] = Persist(req[s].record)
  <2>1. req[s] \in Ingestions
    BY <1>1, RequestShapes DEF AdoptAsNew
  <2> QED
    BY <2>1 DEF Ingestions, Persist, NoRequest
<1>3. /\ req'[s].kind = "create" /\ req'[s].record = req[s].record
      /\ pc'[s] = "number"
      /\ UNCHANGED <<lotteries, draws, used, loaded, hit, target, want>>
  BY <1>2 DEF AdoptAsNew, Persist, NoRequest, Goto, IInv, TypeOK
<1>4. Ingesting(s)
  BY <1>1, RequestShapes DEF AdoptAsNew, Ingesting
<1>5. \A i \in RowIds : ~Answers(draws[i], req[s].record)
  BY <1>4, NothingFound DEF AdoptAsNew
<1> QED
  BY <1>3, <1>4, <1>5 DEF Knows, KnowsAt, Fresh, AdoptAsNew

LEMMA ResolvedAnswers ==
  ASSUME IInv, NEW s \in Sessions, Knows(s), NEW i \in RowIds, Resolves(s, i)
  PROVE  /\ Ingesting(s) /\ KnowsAt(s, req[s].record)
         /\ want[s] = req[s].record /\ req[s].record \in Row
         /\ Answers(draws[i], req[s].record)
         /\ draws[i] \in Row
         /\ Seen(s, i) = draws[i]
<1>1. /\ Ingesting(s) /\ want[s] = req[s].record /\ want[s] \in Row
      /\ pc[s] = "date"
  BY ResolvedRow DEF Resolves
<1>2. KnowsAt(s, req[s].record)
  BY <1>1 DEF Knows
<1>3. Answers(draws[i], req[s].record)
  <2>1. CASE hit[s] # None
    BY <2>1, <1>1, <1>2 DEF Resolves, KnowsAt, Answers
  <2>2. CASE hit[s] = None
    <3>1. i \in ByDate(want[s])
      BY <2>2, FirstFinds, LookupsFind DEF Resolves, DateHit
    <3> QED
      BY <3>1, <1>1, LookupMeaning DEF Answers
  <2> QED
    BY <2>1, <2>2
<1>4. draws[i] \in Row
  BY <1>3 DEF Answers, HasNumber, HasDate, IInv, TypeOK
<1>5. Seen(s, i) = draws[i]
  BY <1>1, <1>2 DEF Seen, KnowsAt, Fresh
<1> QED
  BY <1>1, <1>2, <1>3, <1>4, <1>5

LEMMA AcceptRepeatKnows ==
  ASSUME IInv, NEW s \in Sessions, Knows(s), NEW i \in RowIds, AcceptRepeat(s, i)
  PROVE  Knows(s)'
<1> DEFINE rec == req[s].record
<1>1. Resolves(s, i)
  BY DEF AcceptRepeat
<1>2. Carried(draws[i], rec)
  BY <1>1, ResolvedAnswers, NoneIsNoRow DEF Carried, AcceptRepeat
<1>3. /\ pc'[s] = "ok" /\ target'[s] = i
      /\ UNCHANGED <<lotteries, draws, used, req, hit, want>>
  BY DEF AcceptRepeat, Goto, IInv, TypeOK
<1> QED
  BY <1>1, <1>2, <1>3, ResolvedAnswers DEF Knows, KnowsAt

\* persist_raw_record has decided to make row i the row w.
LEMMA PreparedKnows ==
  ASSUME IInv, NEW s \in Sessions, Knows(s), NEW i \in RowIds, NEW w,
         Resolves(s, i), Goto(s, "write"), Load(s, i),
         target' = [target EXCEPT ![s] = i],
         want' = [want EXCEPT ![s] = w],
         Carried(w, req[s].record), ~Carried(draws[i], req[s].record),
         UNCHANGED <<lotteries, draws, used, req, hit, overlap>>
  PROVE  Knows(s)'
<1>1. KnowsAt(s, req[s].record) /\ Answers(draws[i], req[s].record)
  BY ResolvedAnswers
<1>2. Fresh(s)'
  BY <1>1, LoadFresh DEF KnowsAt, Resolves, IInv
<1>3. pc'[s] = "write" /\ target'[s] = i /\ want'[s] = w
  BY DEF Goto, IInv, TypeOK
<1> QED
  BY <1>1, <1>2, <1>3 DEF Knows, KnowsAt, Resolves

LEMMA PrepareKnows ==
  ASSUME IInv, NEW s \in Sessions, Knows(s), NEW i \in RowIds,
         PrepareRefresh(s, i) \/ PrepareReconcile(s, i)
  PROVE  Knows(s)'
<1> DEFINE rec == req[s].record
<1>1. Resolves(s, i)
  BY DEF PrepareRefresh, PrepareReconcile
<1>2. /\ want[s] = rec /\ rec \in Row /\ draws[i] \in Row
      /\ Answers(draws[i], rec) /\ Seen(s, i) = draws[i]
  BY <1>1, ResolvedAnswers
<1>3. CASE PrepareRefresh(s, i)
  <2>1. Compatible(draws[i], rec) /\ Refreshed(draws[i], rec) # draws[i]
    BY <1>2, <1>3 DEF PrepareRefresh
  <2>2. Carried(Refreshed(draws[i], rec), rec) /\ ~Carried(draws[i], rec)
    BY <1>2, <2>1, RefreshCarries DEF Carried
  <2> QED
    BY <1>1, <1>2, <1>3, <2>2, PreparedKnows DEF PrepareRefresh
<1>4. CASE PrepareReconcile(s, i)
  <2>1. ~Compatible(draws[i], rec)
    BY <1>2, <1>4 DEF PrepareReconcile
  <2>2. Carried(Reconciled(draws[i], rec), rec) /\ ~Carried(draws[i], rec)
    BY <1>2, <2>1, ReconcileCarries DEF Carried
  <2> QED
    BY <1>1, <1>2, <1>4, <2>2, PreparedKnows DEF PrepareReconcile
<1> QED
  BY <1>3, <1>4

\* Of two rows that share the record's identities one contradicts it.
LEMMA SplitContradicts ==
  ASSUME IInv, UniqueIdentity, NEW rec \in Row, NEW i \in RowIds, NEW j \in RowIds,
         HasNumber(draws[i], rec), HasDate(draws[j], rec), i # j
  PROVE  ~Compatible(draws[i], rec)
BY DrawStoreAssumption DEF UniqueIdentity, HasNumber, HasDate, Compatible, CoreCompatible, Row

LEMMA RejectRecordKnows ==
  ASSUME IInv, UniqueIdentity, NEW s \in Sessions, Knows(s), RejectRecord(s)
  PROVE  Knows(s)'
<1> DEFINE rec == req[s].record
<1>1. Ingesting(s) /\ want[s] = rec /\ KnowsAt(s, rec)
  BY DEF RejectRecord, IInv, Stages, StageOK, Knows
<1>2. pc'[s] = "409" /\ UNCHANGED <<lotteries, draws, used, local>>
  BY DEF RejectRecord, Goto, IInv, TypeOK
<1>3. \E i \in RowIds : Answers(draws[i], rec) /\ ~Compatible(draws[i], rec)
  <2>1. CASE SplitIdentity(s)
    <3>1. DateHit(s) \in RowIds /\ HasDate(draws[DateHit(s)], rec)
      BY <1>1, <2>1, FirstFinds, LookupMeaning DEF SplitIdentity, DateHit
    <3>2. hit[s] \in RowIds /\ HasNumber(draws[hit[s]], rec) /\ hit[s] # DateHit(s)
      BY <1>1, <2>1 DEF SplitIdentity, KnowsAt, RejectRecord
    <3> QED
      BY <1>1, <3>1, <3>2, SplitContradicts DEF Answers, KnowsAt
  <2>2. ASSUME NEW i \in RowIds, Resolves(s, i), ~Compatible(Seen(s, i), want[s])
        PROVE  Answers(draws[i], rec) /\ ~Compatible(draws[i], rec)
    BY <2>2, ResolvedAnswers
  <2> QED
    BY <2>1, <2>2 DEF RejectRecord
<1> QED
  BY <1>1, <1>2, <1>3 DEF Knows, KnowsAt, local

LEMMA InsertKnows ==
  ASSUME IInv, NEW s \in Sessions, Knows(s), Insert(s)
  PROVE  Knows(s)'
<1> SUFFICES ASSUME Ingesting(s) PROVE KnowsAt(s, req[s].record)'
  BY DEF Knows, Ingesting, Insert
<1> DEFINE rec == req[s].record
<1>1. /\ KnowsAt(s, rec) /\ want[s] = rec /\ rec \in Row
      /\ LotteryOf(rec.series) \in lotteries
      /\ \A i \in RowIds : ~Answers(draws[i], rec)
  BY DEF Knows, KnowsAt, Insert
<1>2. \A i \in RowIds : Admits(i, want[s])
  <2>1. ByNumber(rec) = {} /\ ByDate(rec) = {}
    BY <1>1, LookupMeaning DEF Answers
  <2>2. rec.date # None
    BY <1>1, DrawStoreAssumption DEF Row
  <2> QED
    BY <1>1, <2>1, <2>2 DEF Admits
<1>3. UNCHANGED <<lotteries, req, loaded, hit, want>>
  BY DEF Insert
<1>4. CASE Goto(s, "error")
  <2>1. pc'[s] = "error"
    BY <1>4 DEF Goto, IInv, TypeOK
  <2> QED
    BY <1>1, <1>3, <2>1 DEF KnowsAt
<1>5. ASSUME NEW i \in RowIds, target' = [target EXCEPT ![s] = i],
             draws' = [draws EXCEPT ![i] = want[s]], Goto(s, "refresh")
      PROVE  KnowsAt(s, req[s].record)'
  <2>1. pc'[s] = "refresh" /\ target'[s] = i /\ draws'[i] = rec
    BY <1>1, <1>5 DEF Goto, IInv, TypeOK
  <2>2. Carried(rec, rec)
    BY <1>1, RecordCarriesItself
  <2> QED
    BY <1>1, <1>3, <2>1, <2>2 DEF KnowsAt
<1> QED
  BY <1>2, <1>4, <1>5 DEF Insert

\* The row that is about to be written, when nobody has touched it.
LEMMA UndisturbedWrite ==
  ASSUME IInv, NEW s \in Sessions, Knows(s), Ingesting(s), pc[s] = "write"
  PROVE  /\ KnowsAt(s, req[s].record)
         /\ target[s] \in RowIds
         /\ loaded[s][target[s]] = draws[target[s]]
         /\ draws[target[s]] \in Row
         /\ want[s] # draws[target[s]]
         /\ Merged(draws[target[s]], loaded[s][target[s]], want[s]) = want[s]
<1>1. KnowsAt(s, req[s].record)
  BY DEF Knows
<1>2. /\ target[s] \in RowIds /\ loaded[s][target[s]] \in Row /\ want[s] \in Wish
  BY DEF IInv, Stages, StageOK
<1>3. loaded[s][target[s]] = draws[target[s]]
  BY <1>1, <1>2, NoneIsNoRow DEF KnowsAt, Fresh
<1>4. want[s] # draws[target[s]]
  BY <1>1 DEF KnowsAt
<1> QED
  BY <1>1, <1>2, <1>3, <1>4, MergedUndisturbed

LEMMA WriteKnows ==
  ASSUME IInv, NEW s \in Sessions, Knows(s), Write(s) \/ WriteNothing(s) \/ WriteLost(s)
  PROVE  Knows(s)'
<1> SUFFICES ASSUME Ingesting(s) PROVE KnowsAt(s, req[s].record)'
  BY DEF Knows, Ingesting, Write, WriteNothing, WriteLost, local
<1> DEFINE rec == req[s].record
           t == target[s]
<1>1. /\ KnowsAt(s, rec) /\ t \in RowIds /\ loaded[s][t] = draws[t] /\ draws[t] \in Row
      /\ want[s] # draws[t]
      /\ Merged(draws[t], loaded[s][t], want[s]) = want[s]
  BY UndisturbedWrite DEF Write, WriteNothing, WriteLost
<1>2. CASE WriteNothing(s)
  BY <1>1, <1>2 DEF WriteNothing
<1>3. CASE WriteLost(s)
  BY <1>1, <1>3, NoneIsNoRow DEF WriteLost
<1>4. CASE Write(s)
  <2>1. req[s].kind = "persist" /\ Carried(want[s], rec)
    BY <1>1, <1>4 DEF KnowsAt, Write
  <2>2. \/ draws' = [draws EXCEPT ![t] = want[s]] /\ pc'[s] = "refresh"
        \/ pc'[s] = "error"
    BY <1>1, <1>4, <2>1 DEF Write, Goto, IInv, TypeOK
  <2>3. UNCHANGED local
    BY <1>4 DEF Write
  <2>4. CASE pc'[s] = "error"
    BY <1>1, <2>3, <2>4 DEF KnowsAt, local
  <2>5. CASE draws' = [draws EXCEPT ![t] = want[s]] /\ pc'[s] = "refresh"
    <3>1. draws'[t] = want[s]
      BY <1>1, <2>5 DEF IInv, TypeOK
    <3> QED
      BY <1>1, <2>1, <2>3, <2>5, <3>1 DEF KnowsAt, local
  <2> QED
    BY <2>2, <2>4, <2>5
<1> QED
  BY <1>2, <1>3, <1>4

LEMMA RefreshKnows ==
  ASSUME IInv, NEW s \in Sessions, Knows(s), Refresh(s) \/ Fail(s)
  PROVE  Knows(s)'
<1>1. /\ pc'[s] \in {"ok", "error"} /\ (pc'[s] = "ok" => pc[s] = "refresh")
      /\ UNCHANGED <<lotteries, draws, local>>
  BY DEF Refresh, Fail, Goto, IInv, TypeOK
<1> QED
  BY <1>1 DEF Knows, KnowsAt, Ingesting, local

\* Steps that no ingestion takes, and the one that ends the request.
LEMMA OtherRequestsKnow ==
  ASSUME IInv, NEW s \in Sessions, Knows(s),
         LoadRow(s) \/ CollectDraws(s) \/ Remove(s) \/ Drop(s) \/ Return(s)
  PROVE  Knows(s)'
<1>1. CASE Return(s)
  BY <1>1 DEF Return, Knows, Ingesting, NoRequest, IInv, TypeOK
<1>2. CASE LoadRow(s) \/ CollectDraws(s) \/ Remove(s) \/ Drop(s)
  <2>1. ~Ingesting(s)
    BY <1>2 DEF Knows, KnowsAt, LoadRow, CollectDraws, Remove, Drop
  <2>2. req' = req
    BY <1>2 DEF LoadRow, CollectDraws, Remove, Drop, local
  <2> QED
    BY <2>1, <2>2 DEF Knows, Ingesting
<1> QED
  BY <1>1, <1>2

LEMMA OwnStepKnows ==
  ASSUME IInv, UniqueIdentity, NEW s \in Sessions, Knows(s), Step(s) \/ Fail(s)
  PROVE  Knows(s)'
<1>1. CASE LookupLottery(s) \/ LookupNumber(s) \/ LookupDate(s) \/ AdoptAsNew(s)
  BY <1>1, LookupLotteryKnows, LookupNumberKnows, LookupDateKnows, AdoptAsNewKnows
<1>2. ASSUME NEW i \in RowIds,
             AcceptRepeat(s, i) \/ PrepareRefresh(s, i) \/ PrepareReconcile(s, i)
      PROVE  Knows(s)'
  BY <1>2, AcceptRepeatKnows, PrepareKnows
<1>3. CASE RejectRecord(s) \/ Insert(s) \/ WriteNothing(s) \/ WriteLost(s) \/ Write(s)
  BY <1>3, RejectRecordKnows, InsertKnows, WriteKnows
<1>4. CASE Refresh(s) \/ Fail(s)
  BY <1>4, RefreshKnows
<1>5. CASE LoadRow(s) \/ CollectDraws(s) \/ Remove(s) \/ Drop(s) \/ Return(s)
  BY <1>5, OtherRequestsKnow
<1> QED
  BY <1>1, <1>2, <1>3, <1>4, <1>5 DEF Step
-----------------------------------------------------------------------------
(* The other sessions *)

LEMMA StepIsLocal ==
  ASSUME IInv, NEW s \in Sessions, Step(s) \/ Fail(s)
  PROVE  OthersAlone(s)
<1>1. CASE LoadRow(s)
  <2>1. target[s] \in RowIds \cup {None}
    BY DEF IInv, TypeOK
  <2>2. CASE UNCHANGED loaded
    BY <1>1, <2>2 DEF LoadRow, Goto, IInv, TypeOK, OthersAlone
  <2>3. CASE Load(s, target[s])
    BY <1>1, <2>1, <2>3, LoadKeeps DEF LoadRow, Goto, IInv, TypeOK, OthersAlone
  <2> QED
    BY <1>1, <2>2, <2>3, Zenon DEF LoadRow
<1>2. CASE LookupNumber(s)
  <2>1. First(ByNumber(want[s])) \in RowIds \cup {None}
    BY FirstFinds, LookupsFind
  <2> QED
    BY <1>2, <2>1, LoadKeeps DEF LookupNumber, Goto, IInv, TypeOK, OthersAlone
<1>3. CASE LookupDate(s)
  <2>1. First(ByDate(want[s])) \in RowIds \cup {None}
    BY FirstFinds, LookupsFind
  <2> QED
    BY <1>3, <2>1, LoadKeeps DEF LookupDate, Goto, IInv, TypeOK, OthersAlone
<1>4. ASSUME NEW i \in RowIds,
             AcceptRepeat(s, i) \/ PrepareRefresh(s, i) \/ PrepareReconcile(s, i)
      PROVE  OthersAlone(s)
  BY <1>4, LoadKeeps DEF AcceptRepeat, PrepareRefresh, PrepareReconcile, Goto, IInv,
                         TypeOK, OthersAlone
<1>5. CASE Insert(s)
  BY <1>5 DEF Insert, Goto, IInv, TypeOK, OthersAlone
<1>6. CASE Write(s)
  BY <1>6 DEF Write, Goto, local, IInv, TypeOK, OthersAlone
<1>7. CASE LookupLottery(s) \/ AdoptAsNew(s) \/ RejectRecord(s) \/ CollectDraws(s) \/ Return(s)
  BY <1>7 DEF LookupLottery, AdoptAsNew, RejectRecord, CollectDraws, Return,
              Goto, local, IInv, TypeOK, OthersAlone
<1>8. CASE WriteNothing(s) \/ WriteLost(s) \/ Refresh(s) \/ Remove(s) \/ Drop(s) \/ Fail(s)
  BY <1>8 DEF WriteNothing, WriteLost, Refresh, Remove, Drop, Fail, Goto, local,
              IInv, TypeOK, OthersAlone
<1> QED
  BY <1>1, <1>2, <1>3, <1>4, <1>5, <1>6, <1>7, <1>8 DEF Step

\* Whoever changes the table disturbs every session that is at work.
LEMMA ChangeDisturbs ==
  ASSUME IInv, NEW s \in Sessions, Step(s) \/ Fail(s),
         NEW t \in Sessions \ {s}
  PROVE  /\ overlap'[t] = overlap[t] \/ overlap'[t] = TRUE
         /\ UNCHANGED <<lotteries, draws>> \/ pc[t] = "idle" \/ overlap'[t] = TRUE
<1>1. CASE Disturb(s)
  BY <1>1, Zenon DEF Disturb, IInv, TypeOK
<1>2. CASE UNCHANGED <<lotteries, draws, overlap>>
  BY <1>2
<1>3. CASE Return(s)
  BY <1>3 DEF Return, IInv, TypeOK
<1>4. \/ Disturb(s) \/ Return(s)
      \/ UNCHANGED <<lotteries, draws, overlap>>
  BY DEF Step, LoadRow, LookupLottery, LookupNumber, LookupDate, AdoptAsNew,
         AcceptRepeat, PrepareRefresh, PrepareReconcile, RejectRecord, Insert,
         WriteNothing, WriteLost, Write, Refresh, CollectDraws, Remove, Drop, Fail
<1> QED
  BY <1>1, <1>2, <1>3, <1>4

LEMMA BlankKeeps ==
  ASSUME IInv, NEW s \in Sessions, Blank(s), Step(s) \/ Fail(s)
  PROVE  Blank(s)'
<1>1. CASE Return(s)
  BY <1>1 DEF Return, Goto, Blank, IInv, TypeOK, NothingLoaded
<1>2. CASE ~Return(s)
  <2>1. pc'[s] # "idle"
    BY <1>2, Zenon DEF Step, LoadRow, LookupLottery, LookupNumber, LookupDate, AdoptAsNew,
         AcceptRepeat, PrepareRefresh, PrepareReconcile, RejectRecord, Insert,
         WriteNothing, WriteLost, Write, Refresh, CollectDraws, Remove, Drop, Fail,
         Goto, IInv, TypeOK
  <2> QED
    BY <2>1 DEF Blank
<1> QED
  BY <1>1, <1>2

LEMMA BlankFrame ==
  ASSUME NEW t \in Sessions, Blank(t),
         pc'[t] = pc[t], req'[t] = req[t], loaded'[t] = loaded[t]
  PROVE  Blank(t)'
BY DEF Blank, NothingLoaded

\* Undisturbed, an ingestion knows the table.
Undisturbed == \A s \in Sessions : Blank(s) /\ (~overlap[s] => Knows(s))

LEMMA InitUndisturbed == Init => Undisturbed
BY DEF Init, Undisturbed, Blank, Knows, Ingesting, NoRequest

LEMMA StepUndisturbed ==
  ASSUME IInv, UniqueIdentity, Undisturbed, NEW s \in Sessions, Step(s) \/ Fail(s)
  PROVE  Undisturbed'
<1> SUFFICES ASSUME NEW t \in Sessions
             PROVE  Blank(t)' /\ (~overlap'[t] => Knows(t)')
  BY DEF Undisturbed
<1>1. CASE t = s
  <2>1. overlap'[s] = overlap[s] \/ Return(s)
    BY DEF Step, LoadRow, LookupLottery, LookupNumber, LookupDate, AdoptAsNew,
         AcceptRepeat, PrepareRefresh, PrepareReconcile, RejectRecord, Insert,
         WriteNothing, WriteLost, Write, Refresh, CollectDraws, Remove, Drop, Fail,
         Disturb, IInv, TypeOK
  <2>2. Return(s) => Knows(s)'
    BY DEF Return, Knows, Ingesting, NoRequest, IInv, TypeOK
  <2> QED
    BY <1>1, <2>1, <2>2, OwnStepKnows, BlankKeeps DEF Undisturbed
<1>2. CASE t # s
  <2>1. /\ pc'[t] = pc[t] /\ req'[t] = req[t] /\ want'[t] = want[t]
        /\ target'[t] = target[t] /\ loaded'[t] = loaded[t] /\ hit'[t] = hit[t]
    BY <1>2, StepIsLocal DEF OthersAlone
  <2>2. Blank(t)'
    BY <2>1, BlankFrame DEF Undisturbed
  <2>3. ASSUME ~overlap'[t] PROVE Knows(t)'
    <3>1. ~overlap[t] /\ (UNCHANGED <<lotteries, draws>> \/ pc[t] = "idle")
      BY <1>2, <2>3, ChangeDisturbs
    <3>2. CASE pc[t] = "idle"
      BY <2>1, <3>2 DEF Undisturbed, Blank, Knows, Ingesting, NoRequest
    <3>3. CASE UNCHANGED <<lotteries, draws>>
      BY <2>1, <3>1, <3>3, KnowsFrame DEF Undisturbed
    <3> QED
      BY <3>1, <3>2, <3>3
  <2> QED
    BY <2>2, <2>3
<1> QED
  BY <1>1, <1>2

LEMMA BeginUndisturbed ==
  ASSUME IInv, Undisturbed, NEW s \in Sessions, NEW r \in Requests, Begin(s, r)
  PROVE  Undisturbed'
<1> SUFFICES ASSUME NEW t \in Sessions
             PROVE  Blank(t)' /\ (~overlap'[t] => Knows(t)')
  BY DEF Undisturbed
<1>1. CASE t = s
  <2>1. pc'[s] # "idle"
    BY DEF Begin, Goto, FirstStep, IInv, TypeOK
  <2> QED
    BY <1>1, <2>1, BeginKnows DEF Undisturbed, Blank
<1>2. CASE t # s
  <2>1. /\ pc'[t] = pc[t] /\ req'[t] = req[t] /\ want'[t] = want[t]
        /\ target'[t] = target[t] /\ loaded'[t] = loaded[t] /\ hit'[t] = hit[t]
        /\ overlap'[t] = overlap[t] /\ UNCHANGED <<lotteries, draws>>
    BY <1>2 DEF Begin, Goto, IInv, TypeOK
  <2> QED
    BY <2>1, BlankFrame, KnowsFrame DEF Undisturbed
<1> QED
  BY <1>1, <1>2

LEMMA NextUndisturbed ==
  IInv /\ UniqueIdentity /\ Undisturbed /\ [Next]_vars => Undisturbed'
<1> SUFFICES ASSUME IInv, UniqueIdentity, Undisturbed, [Next]_vars PROVE Undisturbed'
  OBVIOUS
<1>1. CASE UNCHANGED vars
  BY <1>1, BlankFrame, KnowsFrame DEF vars, Undisturbed
<1>2. CASE Next
  BY <1>2, StepUndisturbed, BeginUndisturbed DEF Next
<1> QED
  BY <1>1, <1>2

LEMMA UndisturbedAlways == Spec => []Undisturbed
BY InitUndisturbed, NextUndisturbed, UniqueAlways, Invariance, PTL DEF Spec

LEMMA KnownRepeats ==
  ASSUME IInv, UniqueIdentity, NEW s \in Sessions, Knows(s), Ingesting(s), pc[s] = "ok"
  PROVE  LET rec == req[s].record
             row == draws[target[s]] IN
           /\ row # None
           /\ ByDate(rec) = {target[s]}
           /\ ByNumber(rec) \subseteq {target[s]}
           /\ Compatible(row, rec)
           /\ Refreshed(row, rec) = row
<1> DEFINE rec == req[s].record
           t == target[s]
<1>1. rec \in Row /\ t \in RowIds /\ Carried(draws[t], rec)
  BY DEF Knows, KnowsAt
<1>2. draws[t] \in Row
  BY <1>1 DEF Carried, IInv, TypeOK
<1>3. HasDate(draws[t], rec) /\ (rec.number # None => HasNumber(draws[t], rec))
  BY <1>1, <1>2, CarriedAnswers
<1>4. \A i \in RowIds : Answers(draws[i], rec) => i = t
  BY <1>1, <1>3 DEF Answers, HasDate, HasNumber, UniqueIdentity
<1>5. ByDate(rec) = {t} /\ ByNumber(rec) \subseteq {t}
  BY <1>1, <1>3, <1>4, LookupMeaning DEF Answers
<1> QED
  BY <1>1, <1>5 DEF Carried

\* A record that was accepted while nobody else committed is in the table, in
\* one row that answers to all its identities, and would write nothing again.
THEOREM RepeatsWriteNothing == Spec => []RepeatIsNoOp
<1>1. IInv /\ UniqueIdentity /\ Undisturbed => RepeatIsNoOp
  BY KnownRepeats DEF Undisturbed, RepeatIsNoOp
<1> QED
  BY <1>1, UniqueAlways, UndisturbedAlways, Invariance, PTL

\* A record that was refused while nobody else committed is contradicted by a
\* row that has one of its identities.
THEOREM RejectionsJustified == Spec => []RejectionJustified
<1>1. Undisturbed => RejectionJustified
  BY LookupMeaning DEF Undisturbed, Knows, KnowsAt, RejectionJustified, Answers
<1> QED
  BY <1>1, UndisturbedAlways, PTL
-----------------------------------------------------------------------------
(* The jobs                                                                *)


\* A record that is being persisted is one of the batch.
InBatch == \A p \in Workers : phase[p] = "stored" => pos[p] <= Len(batch[p])

\* The inductive invariant.
RunIInv == RunTypeOK /\ InBatch

LEMMA BatchIsSequence ==
  ASSUME RunIInv, NEW p \in Workers
  PROVE  batch[p] \in Seq(Records)
<1>1. batch[p] \in Batches \cup {<<>>}
  BY DEF RunIInv, RunTypeOK
<1>2. <<>> \in Seq(Records)
  OBVIOUS
<1>3. Batches \subseteq Seq(Records)
  BY IngestionRunAssumption
<1> QED
  BY <1>1, <1>2, <1>3, Zenon

LEMMA BatchRecord ==
  ASSUME RunIInv, NEW p \in Workers, pos[p] <= Len(batch[p])
  PROVE  /\ batch[p][pos[p]] \in Records
         /\ pos[p] \in 1 .. Len(batch[p])
<1>1. batch[p] \in Seq(Records)
  BY BatchIsSequence
<1>2. pos[p] \in Nat /\ pos[p] >= 1
  BY <1>1 DEF RunIInv, RunTypeOK
<1> QED
  BY <1>1, <1>2

LEMMA RunInitInvariant == RunInit => RunIInv
BY IngestionRunAssumption DEF RunInit, RunIInv, RunTypeOK, InBatch

\* A failed attempt changes phase, attempt and report only.
LEMMA RetriesKeeps ==
  ASSUME RunIInv, NEW p \in Workers, Retries(p) \/ GivesUp(p),
         UNCHANGED <<batch, pos, quiet, done>>
  PROVE  RunIInv'
<1>1. phase' \in [Workers -> {"off", "fetch", "persist", "stored"}]
  BY DEF Retries, GivesUp, GoOn, RunIInv, RunTypeOK
<1>2. attempt' \in [Workers -> 1 .. MaxAttempts]
  <2>1. CASE UNCHANGED attempt
    BY <2>1 DEF RunIInv, RunTypeOK
  <2>2. CASE attempt[p] < MaxAttempts /\ attempt' = [attempt EXCEPT ![p] = @ + 1]
    <3>1. attempt[p] + 1 \in 1 .. MaxAttempts
      BY <2>2, IngestionRunAssumption DEF RunIInv, RunTypeOK
    <3> QED
      BY <2>2, <3>1 DEF RunIInv, RunTypeOK
  <2> QED
    BY <2>1, <2>2 DEF Retries, GivesUp
<1>3. report' \in [Workers -> {"none", "success", "failed"}]
  BY DEF Retries, GivesUp, RunIInv, RunTypeOK
<1>4. InBatch'
  BY DEF Retries, GivesUp, GoOn, RunIInv, RunTypeOK, InBatch
<1> QED
  BY <1>1, <1>2, <1>3, <1>4 DEF RunIInv, RunTypeOK

LEMMA WorkKeeps ==
  ASSUME RunIInv, NEW p \in Workers, Start(p) \/ Work(p)
  PROVE  RunIInv'
<1>1. CASE Start(p)
  BY <1>1, IngestionRunAssumption DEF Start, GoOn, RunIInv, RunTypeOK, InBatch
<1>2. ASSUME NEW b \in Batches, Fetched(p, b) PROVE RunIInv'
  <2>1. b \in Seq(Records)
    BY IngestionRunAssumption
  <2>2. /\ batch' = [batch EXCEPT ![p] = b]
        /\ pos' = [pos EXCEPT ![p] = 1]
        /\ phase' = [phase EXCEPT ![p] = "persist"]
    BY <1>2 DEF Fetched, GoOn
  <2>3. \A q \in Workers : pos'[q] \in 1 .. Len(batch'[q]) + 1
    BY <2>1, <2>2 DEF RunIInv, RunTypeOK
  <2>4. pos' \in [Workers -> Nat] /\ batch' \in [Workers -> Batches \cup {<<>>}]
    BY <2>2 DEF RunIInv, RunTypeOK
  <2>5. /\ quiet' \in [Workers -> BOOLEAN]
        /\ done' \in [Workers -> SUBSET Records]
        /\ UNCHANGED <<attempt, report>>
    BY <1>2 DEF Fetched, RunIInv, RunTypeOK
  <2>6. phase' \in [Workers -> {"off", "fetch", "persist", "stored"}]
    BY <2>2 DEF RunIInv, RunTypeOK
  <2>7. InBatch'
    BY <2>2 DEF RunIInv, RunTypeOK, InBatch
  <2> QED
    BY <2>3, <2>4, <2>5, <2>6, <2>7 DEF RunIInv, RunTypeOK
<1>3. CASE FetchFails(p) \/ RefuseForeign(p) \/ Rejected(p) \/ Breaks(p)
  BY <1>3, RetriesKeeps DEF FetchFails, RefuseForeign, Rejected, Breaks
<1>4. CASE PersistNext(p)
  BY <1>4 DEF PersistNext, GoOn, RunIInv, RunTypeOK, InBatch
<1>5. CASE Stored(p)
  <2>1. batch[p][pos[p]] \in Records /\ pos[p] \in 1 .. Len(batch[p])
    BY <1>5, BatchRecord DEF Stored, RunIInv, InBatch
  <2>2. /\ pos' = [pos EXCEPT ![p] = @ + 1]
        /\ phase' = [phase EXCEPT ![p] = "persist"]
        /\ UNCHANGED <<attempt, batch, report, quiet>>
    BY <1>5 DEF Stored, GoOn
  <2>3. done' \in [Workers -> SUBSET Records]
    BY <1>5, <2>1 DEF Stored, RunIInv, RunTypeOK
  <2>4. batch[p] \in Seq(Records)
    BY BatchIsSequence
  <2>5. pos[p] + 1 \in 1 .. Len(batch[p]) + 1
    BY <2>1, <2>4
  <2>6. pos' \in [Workers -> Nat] /\ \A q \in Workers : pos'[q] \in 1 .. Len(batch'[q]) + 1
    BY <2>2, <2>5 DEF RunIInv, RunTypeOK
  <2>7. phase' \in [Workers -> {"off", "fetch", "persist", "stored"}] /\ InBatch'
    BY <2>2 DEF RunIInv, RunTypeOK, InBatch
  <2> QED
    BY <2>2, <2>3, <2>6, <2>7 DEF RunIInv, RunTypeOK
<1>6. CASE Completes(p)
  BY <1>6 DEF Completes, GoOn, RunIInv, RunTypeOK, InBatch
<1> QED
  BY <1>1, <1>2, <1>3, <1>4, <1>5, <1>6 DEF Work

LEMMA ServeKeeps ==
  ASSUME RunIInv, NEW s \in Sessions, Serve(s)
  PROVE  RunIInv'
<1>1. /\ quiet' \in [Workers -> BOOLEAN]
      /\ done' \in [Workers -> SUBSET Records]
  BY DEF Serve, Interfere, RunIInv, RunTypeOK
<1> QED
  BY <1>1 DEF Serve, RunIInv, RunTypeOK, InBatch

LEMMA RunNextKeeps == RunIInv /\ [RunNext]_runVars => RunIInv'
<1> SUFFICES ASSUME RunIInv, [RunNext]_runVars PROVE RunIInv'
  OBVIOUS
<1>1. CASE UNCHANGED run
  BY <1>1 DEF run, RunIInv, RunTypeOK, InBatch
<1> QED
  BY <1>1, WorkKeeps, ServeKeeps DEF RunNext, runVars, Ask, Answer

LEMMA RunInvariance == RunSpec => []RunIInv
BY RunInitInvariant, RunNextKeeps, PTL DEF RunSpec

\* Attempts stay within max_attempts and the record at hand within its batch,
\* whatever fails and however often the run is retried.
THEOREM RunTypeCorrect == RunSpec => []RunTypeOK
BY RunInvariance, PTL DEF RunIInv
-----------------------------------------------------------------------------
(* The runs and the administrators use the store as DrawStore says *)

LEMMA RunStepIsStoreStep == RunIInv /\ [RunNext]_runVars => [Next]_vars
<1> SUFFICES ASSUME RunIInv, [RunNext]_runVars PROVE [Next]_vars
  OBVIOUS
<1>1. CASE UNCHANGED vars
  BY <1>1
<1>2. ASSUME NEW p \in Workers, Start(p) \/ Work(p) PROVE [Next]_vars
  <2>1. p \in Sessions
    BY IngestionRunAssumption
  <2>2. CASE PersistNext(p)
    <3>1. Persist(batch[p][pos[p]]) \in Requests
      BY <2>2, BatchRecord DEF PersistNext, Requests, Ingestions
    <3>2. Begin(p, Persist(batch[p][pos[p]]))
      BY <2>2 DEF PersistNext
    <3> QED
      BY <2>1, <3>1, <3>2 DEF Next
  <2>3. CASE Stored(p) \/ Rejected(p) \/ Breaks(p)
    <3>1. Step(p)
      BY <2>3 DEF Stored, Rejected, Breaks, Release, Step
    <3> QED
      BY <2>1, <3>1 DEF Next
  <2>4. CASE \/ Start(p) \/ FetchFails(p) \/ RefuseForeign(p) \/ Completes(p)
             \/ \E b \in Batches : Fetched(p, b)
    BY <2>4 DEF Start, FetchFails, RefuseForeign, Completes, Fetched
  <2> QED
    BY <1>2, <2>2, <2>3, <2>4 DEF Work
<1>3. ASSUME NEW s \in Sessions, Serve(s) PROVE [Next]_vars
  BY <1>3 DEF Serve, Next
<1>4. ASSUME NEW s \in Sessions \ Workers,
             Answer(s) \/ \E r \in Requests \ Ingestions : Ask(s, r)
      PROVE  [Next]_vars
  <2>1. CASE Answer(s)
    BY <2>1 DEF Answer, Next, Step
  <2>2. CASE \E r \in Requests \ Ingestions : Ask(s, r)
    BY <2>2 DEF Ask, Next
  <2> QED
    BY <1>4, <2>1, <2>2
<1> QED
  BY <1>1, <1>2, <1>3, <1>4 DEF RunNext, runVars

\* A job's attempts, each with its own session and one commit per record, are
\* sessions of the draw store like any other.
THEOREM RunImplementsStore == RunSpec => ImplementsStore
BY RunStepIsStoreStep, RunInvariance, PTL DEF RunSpec, RunInit, Spec, ImplementsStore

\* Partial batches, retries and administrators at work in between never leave
\* two rows for one draw or a draw without its lottery.
THEOREM RunKeepsTableSafe == RunSpec => [](UniqueIdentity /\ NoOrphans)
BY RunImplementsStore, TableSafety, PTL DEF ImplementsStore
-----------------------------------------------------------------------------
(* What a run has stored stays stored while nobody else changes the table. *)
(* A worker's record is followed with Knows, as the store's are; its commit *)
(* cannot touch the row of another record of the batch, because the row it *)
(* writes has an identity of its own record.                               *)

\* A draw of the table carries the record.
Kept(r) == \E i \in RowIds : Carried(draws[i], r)

\* A worker has a request in its session just while it waits for a record.
AtWork(p) ==
  IF phase[p] = "stored"
    THEN pc[p] # "idle" /\ Ingesting(p) /\ req[p].record = batch[p][pos[p]]
    ELSE pc[p] = "idle"

\* While one of the histories goes on, nobody else has changed the table since
\* the request began.
InHand(p) ==
  phase[p] = "stored" /\ (quiet[p] \/ ~overlap[p] \/ done[p] # {}) => Knows(p)

DoneKept(p) ==
  /\ done[p] \subseteq Members(batch[p])
  /\ DifferentDraws(batch[p]) => \A r \in done[p] : Kept(r)

QuietKept(p) ==
  DifferentDraws(batch[p]) /\ quiet[p] =>
    /\ phase[p] \in {"persist", "stored"} =>
         \A k \in 1 .. pos[p] - 1 : Kept(batch[p][k])
    /\ phase[p] = "off" /\ report[p] = "success" =>
         \A k \in 1 .. Len(batch[p]) : Kept(batch[p][k])

\* What a run can rely on.
Progress == \A p \in Workers : AtWork(p) /\ InHand(p) /\ DoneKept(p) /\ QuietKept(p)
-----------------------------------------------------------------------------
(* What a commit of the worker's own does to the records already stored    *)

LEMMA RecordsAreRows ==
  ASSUME RunIInv, NEW p \in Workers
  PROVE  /\ \A k \in 1 .. Len(batch[p]) : batch[p][k] \in Row
         /\ Len(batch[p]) \in Nat
         /\ pos[p] \in 1 .. Len(batch[p]) + 1
<1>1. batch[p] \in Seq(Records)
  BY BatchIsSequence
<1>2. Records \subseteq Row
  BY DrawStoreAssumption
<1> QED
  BY <1>1, <1>2 DEF RunIInv, RunTypeOK

\* How an undisturbed ingestion can change the table.
LEMMA OwnCommit ==
  ASSUME IInv, UsedRows, NEW s \in Sessions, Knows(s), Ingesting(s), Step(s) \/ Fail(s),
         pc[s] \in Working
  PROVE  \/ draws' = draws
         \/ /\ pc[s] \in {"insert", "write"}
            /\ \E i \in RowIds :
                 /\ draws' = [draws EXCEPT ![i] = want[s]]
                 /\ Carried(want[s], req[s].record)
                 /\ \/ pc[s] = "insert" /\ draws[i] = None
                    \/ pc[s] = "write" /\ i = target[s]
<1>1. CASE Insert(s) /\ draws' # draws
  <2>1. want[s] = req[s].record /\ req[s].record \in Row /\ pc[s] = "insert"
    BY <1>1 DEF Insert, Knows, KnowsAt
  <2>2. PICK i \in RowIds \ used : draws' = [draws EXCEPT ![i] = want[s]]
    BY <1>1, InsertedRow
  <2> QED
    BY <2>1, <2>2, RecordCarriesItself DEF UsedRows
<1>2. CASE Write(s) /\ draws' # draws
  <2>1. /\ target[s] \in RowIds
        /\ Merged(draws[target[s]], loaded[s][target[s]], want[s]) = want[s]
        /\ Carried(want[s], req[s].record)
    BY <1>2, UndisturbedWrite DEF Write, KnowsAt
  <2>2. draws' = [draws EXCEPT ![target[s]] = want[s]]
    BY <1>2, <2>1, WrittenRow
  <2> QED
    BY <1>2, <2>1, <2>2 DEF Write
<1>3. pc[s] \notin {"remove", "drop"}
  BY DEF Knows, KnowsAt
<1> QED
  BY <1>1, <1>2, <1>3 DEF Step, LoadRow, LookupLottery, LookupNumber, LookupDate, AdoptAsNew,
         AcceptRepeat, PrepareRefresh, PrepareReconcile, RejectRecord,
         WriteNothing, WriteLost, Refresh, CollectDraws, Remove, Drop, Return, Fail

\* Two records of one batch: the same, or different draws numbered alike.
Apart(r, q) == ~SameIdentity(r, q) /\ (r.number = None <=> q.number = None)

\* A row that carries one record has no identity of another.
LEMMA CarriedElsewhere ==
  ASSUME NEW row \in Row, NEW r \in Row, NEW rec \in Row, Carried(row, r), Apart(r, rec)
  PROVE  ~Answers(row, rec)
<1>1. HasDate(row, r) /\ (r.number # None => HasNumber(row, r))
  BY CarriedAnswers
<1> QED
  BY <1>1 DEF Apart, SameIdentity, Answers, HasNumber, HasDate

LEMMA CommitKeeps ==
  ASSUME IInv, UsedRows, NEW s \in Sessions, Knows(s), Ingesting(s), Step(s) \/ Fail(s),
         pc[s] \in Working, NEW r \in Row, Kept(r),
         r = req[s].record \/ Apart(r, req[s].record)
  PROVE  \E k \in RowIds : Carried(draws'[k], r)
<1> DEFINE rec == req[s].record
<1>1. PICK j \in RowIds : Carried(draws[j], r)
  BY DEF Kept
<1>2. CASE draws' = draws
  BY <1>1, <1>2
<1>3. ASSUME NEW i \in RowIds,
             draws' = [draws EXCEPT ![i] = want[s]],
             Carried(want[s], rec),
             \/ pc[s] = "insert" /\ draws[i] = None
             \/ pc[s] = "write" /\ i = target[s]
      PROVE  \E k \in RowIds : Carried(draws'[k], r)
  <2>1. CASE i # j
    <3>1. draws'[j] = draws[j]
      BY <1>3, <2>1 DEF IInv, TypeOK
    <3> QED
      BY <1>1, <3>1
  <2>2. CASE i = j
    <3>1. draws[j] # None /\ draws[j] \in Row /\ rec \in Row
      BY <1>1 DEF Carried, IInv, TypeOK, Knows, KnowsAt
    <3>2. Answers(draws[j], rec)
      BY <1>3, <2>2, <3>1 DEF Knows, KnowsAt
    <3>3. r = rec
      BY <1>1, <3>1, <3>2, CarriedElsewhere
    <3>4. draws'[i] = want[s]
      BY <1>3 DEF IInv, TypeOK
    <3> QED
      BY <1>3, <3>3, <3>4
  <2> QED
    BY <2>1, <2>2
<1> QED
  BY <1>2, <1>3, OwnCommit

\* A record that is in the table already is not written again.
LEMMA KeptWritesNothing ==
  ASSUME IInv, UniqueIdentity, UsedRows, NEW s \in Sessions, Knows(s), Ingesting(s),
         Step(s) \/ Fail(s), pc[s] \in Working, Kept(req[s].record)
  PROVE  draws' = draws
<1> DEFINE rec == req[s].record
<1>1. PICK j \in RowIds : Carried(draws[j], rec)
  BY DEF Kept
<1>2. draws[j] \in Row /\ rec \in Row /\ KnowsAt(s, rec)
  BY <1>1 DEF Carried, IInv, TypeOK, Knows, KnowsAt
<1>3. HasDate(draws[j], rec) /\ (rec.number # None => HasNumber(draws[j], rec))
  BY <1>1, <1>2, CarriedAnswers
<1>4. pc[s] # "insert"
  BY <1>2, <1>3 DEF KnowsAt, Answers
<1>5. ASSUME pc[s] = "write" PROVE FALSE
  <2>1. /\ target[s] \in RowIds /\ Answers(draws[target[s]], rec)
        /\ ~Carried(draws[target[s]], rec)
    BY <1>2, <1>5 DEF KnowsAt
  <2>2. target[s] = j
    BY <1>3, <2>1 DEF Answers, HasDate, HasNumber, UniqueIdentity
  <2> QED
    BY <1>1, <2>1, <2>2
<1> QED
  BY <1>4, <1>5, OwnCommit
-----------------------------------------------------------------------------
(* The steps of the run *)

\* What the store guarantees throughout.
StoreOK == IInv /\ UniqueIdentity /\ UsedRows /\ \A s \in Sessions : Blank(s)

LEMMA RunInitProgress == RunInit => Progress
<1> SUFFICES ASSUME RunInit, NEW p \in Workers
             PROVE  AtWork(p) /\ InHand(p) /\ DoneKept(p) /\ QuietKept(p)
  BY DEF Progress
<1>1. /\ phase[p] = "off" /\ report[p] = "none" /\ done[p] = {}
      /\ p \in Sessions /\ pc[p] = "idle"
  BY IngestionRunAssumption DEF RunInit, Init
<1> QED
  BY <1>1 DEF AtWork, InHand, DoneKept, QuietKept

\* A worker that another one's step leaves alone.
RunAlone(p) ==
  /\ phase'[p] = phase[p] /\ batch'[p] = batch[p] /\ pos'[p] = pos[p]
  /\ report'[p] = report[p] /\ quiet'[p] = quiet[p] /\ done'[p] = done[p]
  /\ overlap'[p] = overlap[p] \/ overlap'[p] = TRUE
  /\ pc'[p] = pc[p] /\ req'[p] = req[p] /\ want'[p] = want[p]
  /\ target'[p] = target[p] /\ loaded'[p] = loaded[p] /\ hit'[p] = hit[p]

LEMMA ProgressFrame ==
  ASSUME Progress, NEW p \in Workers, UNCHANGED <<lotteries, draws>>, RunAlone(p)
  PROVE  (AtWork(p) /\ InHand(p) /\ DoneKept(p) /\ QuietKept(p))'
<1>1. p \in Sessions
  BY IngestionRunAssumption
<1>2. AtWork(p)'
  BY DEF Progress, AtWork, RunAlone, Ingesting
<1>3. InHand(p)'
  <2>1. Knows(p) => Knows(p)'
    BY <1>1, KnowsFrame DEF RunAlone
  <2> QED
    BY <2>1 DEF Progress, InHand, RunAlone
<1>4. DoneKept(p)' /\ QuietKept(p)'
  BY DEF Progress, DoneKept, QuietKept, RunAlone, Kept, Members, DifferentDraws, SameIdentity
<1> QED
  BY <1>2, <1>3, <1>4

\* Steps of a worker leave the table and the other workers alone.
LEMMA WorkIsLocal ==
  ASSUME RunIInv, IInv, NEW p \in Workers, Start(p) \/ Work(p), NEW q \in Workers \ {p}
  PROVE  UNCHANGED <<lotteries, draws>> /\ RunAlone(q)
<1>1. p \in Sessions /\ q \in Sessions
  BY IngestionRunAssumption
<1>2. UNCHANGED vars \/ Return(p) \/ \E r \in Requests : Begin(p, r)
  BY BatchRecord DEF Start, Work, Fetched, FetchFails, RefuseForeign, Completes,
     PersistNext, Stored, Rejected, Breaks, Release, Requests, Ingestions
<1>3. /\ UNCHANGED <<lotteries, draws>>
      /\ pc'[q] = pc[q] /\ req'[q] = req[q] /\ want'[q] = want[q]
      /\ target'[q] = target[q] /\ loaded'[q] = loaded[q] /\ hit'[q] = hit[q]
      /\ overlap'[q] = overlap[q]
  BY <1>1, <1>2 DEF vars, Return, Begin, Goto, IInv, TypeOK
<1>4. /\ phase'[q] = phase[q] /\ batch'[q] = batch[q] /\ pos'[q] = pos[q]
      /\ report'[q] = report[q] /\ quiet'[q] = quiet[q] /\ done'[q] = done[q]
  BY DEF Start, Work, Fetched, FetchFails, RefuseForeign, Completes, PersistNext, Stored,
     Rejected, Breaks, Retries, GivesUp, GoOn, RunIInv, RunTypeOK
<1> QED
  BY <1>3, <1>4 DEF RunAlone

LEMMA WorkProgress ==
  ASSUME RunIInv, StoreOK, Progress, NEW p \in Workers, Start(p) \/ Work(p)
  PROVE  (AtWork(p) /\ InHand(p) /\ DoneKept(p) /\ QuietKept(p))'
<1>p. p \in Sessions
  BY IngestionRunAssumption
<1>t. IInv /\ TypeOK /\ Blank(p) /\ AtWork(p) /\ InHand(p) /\ DoneKept(p) /\ QuietKept(p)
  BY <1>p DEF StoreOK, IInv, Progress
\* The run goes on without the store.
<1>1. CASE Start(p) \/ FetchFails(p) \/ RefuseForeign(p)
  <2>1. /\ phase'[p] \in {"fetch", "off"}
        /\ phase'[p] = "off" => report'[p] = "failed"
        /\ phase[p] # "stored"
        /\ UNCHANGED <<vars, batch, pos, quiet, done>>
    BY <1>1 DEF Start, FetchFails, RefuseForeign, Retries, GoOn, RunIInv, RunTypeOK
  <2>2. AtWork(p)' /\ InHand(p)'
    BY <1>t, <2>1 DEF AtWork, InHand, vars
  <2>3. DoneKept(p)' /\ QuietKept(p)'
    BY <1>t, <2>1 DEF DoneKept, QuietKept, vars, Kept, Members, DifferentDraws, SameIdentity
  <2> QED
    BY <2>2, <2>3
<1>2. ASSUME NEW b \in Batches, Fetched(p, b)
      PROVE  (AtWork(p) /\ InHand(p) /\ DoneKept(p) /\ QuietKept(p))'
  <2>1. /\ phase[p] = "fetch" /\ phase'[p] = "persist" /\ pos'[p] = 1
        /\ batch'[p] = b
        /\ done'[p] = IF b = batch[p] THEN done[p] ELSE {}
        /\ UNCHANGED vars
    BY <1>2 DEF Fetched, GoOn, RunIInv, RunTypeOK
  <2>2. AtWork(p)' /\ InHand(p)'
    BY <1>t, <2>1 DEF AtWork, InHand, vars
  <2>3. DoneKept(p)'
    BY <1>t, <2>1 DEF DoneKept, vars, Kept, Members, DifferentDraws, SameIdentity
  <2>4. QuietKept(p)'
    BY <2>1 DEF QuietKept
  <2> QED
    BY <2>2, <2>3, <2>4
<1>3. CASE PersistNext(p)
  <2> DEFINE r == Persist(batch[p][pos[p]])
  <2>1. r \in Requests /\ r.via = "ingestion" /\ r.record = batch[p][pos[p]]
    BY <1>3, BatchRecord DEF PersistNext, Requests, Ingestions, Persist, NoRequest
  <2>2. /\ Begin(p, r) /\ phase[p] = "persist" /\ phase'[p] = "stored"
        /\ UNCHANGED <<attempt, batch, pos, report, quiet, done>>
    BY <1>3 DEF PersistNext, GoOn, RunIInv, RunTypeOK
  <2>3. Knows(p)'
    BY <1>p, <1>t, <2>1, <2>2, BeginKnows
  <2>4. pc'[p] # "idle" /\ req'[p] = r /\ UNCHANGED <<lotteries, draws>>
    BY <1>p, <1>t, <2>2 DEF Begin, Goto, FirstStep, TypeOK
  <2>5. AtWork(p)'
    BY <2>1, <2>2, <2>4 DEF AtWork, Ingesting
  <2>6. DoneKept(p)' /\ QuietKept(p)'
    BY <1>t, <2>2, <2>4 DEF DoneKept, QuietKept, Kept, Members, DifferentDraws, SameIdentity
  <2> QED
    BY <2>3, <2>5, <2>6 DEF InHand
<1>4. CASE Stored(p)
  <2> DEFINE rec == batch[p][pos[p]]
  <2>1. /\ phase[p] = "stored" /\ phase'[p] = "persist" /\ pc[p] = "ok"
        /\ pos'[p] = pos[p] + 1
        /\ done'[p] = IF overlap[p] THEN done[p] ELSE done[p] \cup {rec}
        /\ Return(p)
        /\ UNCHANGED <<attempt, batch, report, quiet>>
    BY <1>4 DEF Stored, Release, GoOn, RunIInv, RunTypeOK
  <2>2. pc'[p] = "idle" /\ UNCHANGED <<lotteries, draws>>
    BY <1>p, <1>t, <2>1 DEF Return, Goto, TypeOK
  <2>3. pos[p] \in 1 .. Len(batch[p]) /\ Len(batch[p]) \in Nat
    BY <2>1, RecordsAreRows DEF RunIInv, InBatch
  <2>4. Knows(p) => Kept(rec)
    BY <1>t, <2>1 DEF AtWork, Knows, KnowsAt, Kept
  <2>5. quiet[p] \/ ~overlap[p] => Kept(rec)
    BY <1>t, <2>1, <2>4 DEF InHand
  <2>6. AtWork(p)' /\ InHand(p)'
    BY <2>1, <2>2 DEF AtWork, InHand
  <2>7. DoneKept(p)'
    <3>1. done'[p] \subseteq Members(batch[p])
      BY <1>t, <2>1, <2>3 DEF DoneKept, Members
    <3>2. DifferentDraws(batch[p]) => \A r \in done'[p] : Kept(r)
      BY <1>t, <2>1, <2>5 DEF DoneKept
    <3> QED
      BY <2>1, <2>2, <3>1, <3>2 DEF DoneKept, Kept, Members, DifferentDraws, SameIdentity
  <2>8. QuietKept(p)'
    <3>1. ASSUME DifferentDraws(batch[p]), quiet[p], NEW k \in 1 .. pos[p]
          PROVE  Kept(batch[p][k])
      <4>1. k = pos[p] \/ k \in 1 .. pos[p] - 1
        BY <2>3
      <4> QED
        BY <1>t, <2>1, <2>5, <3>1, <4>1 DEF QuietKept
    <3>2. 1 .. pos'[p] - 1 = 1 .. pos[p]
      BY <2>1, <2>3
    <3> QED
      BY <2>1, <2>2, <3>1, <3>2 DEF QuietKept, Kept, DifferentDraws, SameIdentity
  <2> QED
    BY <2>6, <2>7, <2>8
<1>5. CASE Rejected(p) \/ Breaks(p)
  <2>1. /\ phase'[p] \in {"fetch", "off"}
        /\ phase'[p] = "off" => report'[p] = "failed"
        /\ Return(p)
        /\ UNCHANGED <<batch, pos, quiet, done>>
    BY <1>5 DEF Rejected, Breaks, Release, Retries, GivesUp, GoOn, RunIInv, RunTypeOK
  <2>2. pc'[p] = "idle" /\ UNCHANGED <<lotteries, draws>>
    BY <1>p, <1>t, <2>1 DEF Return, Goto, TypeOK
  <2>3. AtWork(p)' /\ InHand(p)'
    BY <2>1, <2>2 DEF AtWork, InHand
  <2>4. DoneKept(p)' /\ QuietKept(p)'
    BY <1>t, <2>1, <2>2 DEF DoneKept, QuietKept, Kept, Members, DifferentDraws, SameIdentity
  <2> QED
    BY <2>3, <2>4
<1>6. CASE Completes(p)
  <2>1. /\ phase[p] = "persist" /\ phase'[p] = "off" /\ pos[p] > Len(batch[p])
        /\ UNCHANGED <<vars, attempt, batch, pos, quiet, done>>
    BY <1>6 DEF Completes, GoOn, RunIInv, RunTypeOK
  <2>2. AtWork(p)' /\ InHand(p)'
    BY <1>t, <2>1 DEF AtWork, InHand, vars
  <2>3. DoneKept(p)'
    BY <1>t, <2>1 DEF DoneKept, vars, Kept, Members, DifferentDraws, SameIdentity
  <2>4. 1 .. pos[p] - 1 = 1 .. Len(batch[p])
    BY <2>1, RecordsAreRows
  <2>5. ASSUME DifferentDraws(batch[p]), quiet[p], NEW k \in 1 .. Len(batch[p])
        PROVE  Kept(batch[p][k])
    BY <1>t, <2>1, <2>4, <2>5 DEF QuietKept
  <2>6. batch'[p] = batch[p] /\ quiet'[p] = quiet[p] /\ phase'[p] = "off" /\ draws' = draws
    BY <2>1 DEF vars
  <2>7. QuietKept(p)'
    BY <2>5, <2>6 DEF QuietKept, Kept, DifferentDraws, SameIdentity
  <2> QED
    BY <2>2, <2>3, <2>7
<1> QED
  BY <1>1, <1>2, <1>3, <1>4, <1>5, <1>6 DEF Work
-----------------------------------------------------------------------------
(* The steps of the sessions *)

\* A session at work goes on with its request.
LEMMA ServesOn ==
  ASSUME IInv, NEW s \in Sessions, pc[s] \in Working, Step(s) \/ Fail(s)
  PROVE  /\ pc'[s] # "idle" /\ overlap'[s] = overlap[s]
         /\ Ingesting(s)' = Ingesting(s) /\ req'[s].record = req[s].record
<1>1. ~Return(s)
  BY DEF Return, Working, Replies
<1>2. pc'[s] # "idle"
  BY <1>1, Zenon DEF Step, LoadRow, LookupLottery, LookupNumber, LookupDate, AdoptAsNew,
         AcceptRepeat, PrepareRefresh, PrepareReconcile, RejectRecord, Insert,
         WriteNothing, WriteLost, Write, Refresh, CollectDraws, Remove, Drop, Fail,
         Goto, IInv, TypeOK
<1>3. overlap'[s] = overlap[s]
  BY <1>1 DEF Step, LoadRow, LookupLottery, LookupNumber, LookupDate, AdoptAsNew,
         AcceptRepeat, PrepareRefresh, PrepareReconcile, RejectRecord, Insert,
         WriteNothing, WriteLost, Write, Refresh, CollectDraws, Remove, Drop, Fail,
         Disturb, IInv, TypeOK
<1>4. CASE AdoptAsNew(s)
  <2>1. req[s] \in Ingestions
    BY <1>4, AdoptedKind, RequestShapes DEF AdoptAsNew, IInv, TypeOK
  <2>2. req[s] = Persist(req[s].record)
    BY <2>1 DEF Ingestions, Persist, NoRequest
  <2>3. req'[s] = [req[s] EXCEPT !.kind = "create"]
    BY <1>4 DEF AdoptAsNew, IInv, TypeOK
  <2>4. req'[s].via = "ingestion" /\ req[s].via = "ingestion" /\ req'[s].record = req[s].record
    BY <2>2, <2>3 DEF Persist, NoRequest
  <2> QED
    BY <1>2, <1>3, <2>4 DEF Ingesting
<1>5. CASE ~AdoptAsNew(s)
  <2>1. req' = req
    BY <1>1, <1>5 DEF Step, LoadRow, LookupLottery, LookupNumber, LookupDate,
         AcceptRepeat, PrepareRefresh, PrepareReconcile, RejectRecord, Insert,
         WriteNothing, WriteLost, Write, Refresh, CollectDraws, Remove, Drop, Fail, local
  <2> QED
    BY <1>2, <1>3, <2>1 DEF Ingesting
<1> QED
  BY <1>4, <1>5

\* The worker's own session commits the record at hand, or works on.
LEMMA OwnServe ==
  ASSUME RunIInv, StoreOK, Progress, NEW p \in Workers, Serve(p)
  PROVE  (AtWork(p) /\ InHand(p) /\ DoneKept(p) /\ QuietKept(p))'
<1>1. p \in Sessions /\ IInv /\ UniqueIdentity /\ UsedRows
  BY IngestionRunAssumption DEF StoreOK
<1>2. /\ pc[p] \in Working /\ (Step(p) \/ Fail(p))
      /\ UNCHANGED <<phase, attempt, batch, pos, report>>
  BY DEF Serve
<1>3. AtWork(p) /\ InHand(p) /\ DoneKept(p) /\ QuietKept(p)
  BY DEF Progress
<1>4. quiet'[p] = quiet[p] /\ done'[p] = done[p]
  BY DEF Serve, Interfere, RunIInv, RunTypeOK
<1>5. phase[p] = "stored" /\ Ingesting(p) /\ req[p].record = batch[p][pos[p]]
  BY <1>2, <1>3 DEF AtWork, Working
<1>6. AtWork(p)' /\ overlap'[p] = overlap[p]
  BY <1>1, <1>2, <1>5, ServesOn DEF AtWork
<1>7. InHand(p)'
  <2>1. Knows(p) => Knows(p)'
    BY <1>1, <1>2, OwnStepKnows
  <2> QED
    BY <1>2, <1>3, <1>4, <1>6, <2>1 DEF InHand
<1>8. pos[p] \in 1 .. Len(batch[p]) /\ Len(batch[p]) \in Nat
  BY <1>5, RecordsAreRows DEF RunIInv, InBatch
<1>9. ASSUME Knows(p), DifferentDraws(batch[p]), NEW k \in 1 .. Len(batch[p]),
             Kept(batch[p][k])
      PROVE  \E i \in RowIds : Carried(draws'[i], batch[p][k])
  <2>1. batch[p][k] \in Row
    BY RecordsAreRows
  <2>2. batch[p][k] = req[p].record \/ Apart(batch[p][k], req[p].record)
    BY <1>5, <1>8, <1>9 DEF DifferentDraws, Apart
  <2> QED
    BY <1>1, <1>2, <1>5, <1>9, <2>1, <2>2, CommitKeeps
<1>10. DoneKept(p)'
  <2>1. ASSUME DifferentDraws(batch[p]), NEW r \in done[p]
        PROVE  \E i \in RowIds : Carried(draws'[i], r)
    <3>1. PICK k \in 1 .. Len(batch[p]) : r = batch[p][k]
      BY <1>3, <2>1 DEF DoneKept, Members
    <3>2. Knows(p) /\ Kept(batch[p][k])
      BY <1>3, <1>5, <2>1, <3>1 DEF InHand, DoneKept
    <3> QED
      BY <1>9, <2>1, <3>1, <3>2
  <2> QED
    BY <1>2, <1>3, <1>4, <2>1 DEF DoneKept, Kept, Members, DifferentDraws, SameIdentity
<1>11. QuietKept(p)'
  <2>1. ASSUME DifferentDraws(batch[p]), quiet[p], NEW k \in 1 .. pos[p] - 1
        PROVE  \E i \in RowIds : Carried(draws'[i], batch[p][k])
    <3>1. Knows(p) /\ Kept(batch[p][k]) /\ k \in 1 .. Len(batch[p])
      BY <1>3, <1>5, <1>8, <2>1 DEF InHand, QuietKept
    <3> QED
      BY <1>9, <2>1, <3>1
  <2> QED
    BY <1>2, <1>4, <1>5, <2>1 DEF QuietKept, Kept, DifferentDraws, SameIdentity
<1> QED
  BY <1>6, <1>7, <1>10, <1>11

\* Another session works: it changes nothing, or it ends the histories.
LEMMA OthersServe ==
  ASSUME RunIInv, StoreOK, Progress, NEW s \in Sessions, Serve(s), NEW p \in Workers \ {s}
  PROVE  (AtWork(p) /\ InHand(p) /\ DoneKept(p) /\ QuietKept(p))'
<1>1. p \in Sessions /\ IInv
  BY IngestionRunAssumption DEF StoreOK
<1>2. /\ Step(s) \/ Fail(s)
      /\ UNCHANGED <<phase, attempt, batch, pos, report>>
      /\ Interfere(s)
  BY DEF Serve
<1>3. /\ pc'[p] = pc[p] /\ req'[p] = req[p] /\ want'[p] = want[p]
      /\ target'[p] = target[p] /\ loaded'[p] = loaded[p] /\ hit'[p] = hit[p]
  BY <1>1, <1>2, StepIsLocal DEF OthersAlone
<1>4. /\ overlap'[p] = overlap[p] \/ overlap'[p] = TRUE
      /\ UNCHANGED <<lotteries, draws>> \/ pc[p] = "idle" \/ overlap'[p] = TRUE
  BY <1>1, <1>2, ChangeDisturbs
<1>5. CASE UNCHANGED <<lotteries, draws>>
  <2>1. RunAlone(p)
    BY <1>2, <1>3, <1>4, <1>5 DEF Interfere, RunAlone
  <2> QED
    BY <1>5, <2>1, ProgressFrame
<1>6. CASE ~UNCHANGED <<lotteries, draws>>
  <2>1. quiet'[p] = FALSE /\ done'[p] = {}
    BY <1>2, <1>6, Zenon DEF Interfere
  <2>2. AtWork(p)'
    BY <1>2, <1>3 DEF Progress, AtWork, Ingesting
  <2>3. InHand(p)'
    BY <1>2, <1>3, <1>4, <1>6, <2>1 DEF Progress, AtWork, InHand
  <2> QED
    BY <2>1, <2>2, <2>3 DEF DoneKept, QuietKept
<1> QED
  BY <1>5, <1>6

LEMMA NextProgress ==
  RunIInv /\ StoreOK /\ Progress /\ [RunNext]_runVars => Progress'
<1> SUFFICES ASSUME RunIInv, StoreOK, Progress, [RunNext]_runVars, NEW p \in Workers
             PROVE  (AtWork(p) /\ InHand(p) /\ DoneKept(p) /\ QuietKept(p))'
  BY DEF Progress
<1>1. CASE UNCHANGED runVars
  BY <1>1, ProgressFrame DEF runVars, vars, run, RunAlone
<1>2. ASSUME NEW q \in Workers, Start(q) \/ Work(q)
      PROVE  (AtWork(p) /\ InHand(p) /\ DoneKept(p) /\ QuietKept(p))'
  <2>1. CASE q = p
    BY <1>2, <2>1, WorkProgress
  <2>2. CASE q # p
    <3>1. UNCHANGED <<lotteries, draws>> /\ RunAlone(p)
      BY <1>2, <2>2, WorkIsLocal DEF StoreOK
    <3> QED
      BY <3>1, ProgressFrame
  <2> QED
    BY <2>1, <2>2
<1>3. ASSUME NEW s \in Sessions, Serve(s)
      PROVE  (AtWork(p) /\ InHand(p) /\ DoneKept(p) /\ QuietKept(p))'
  <2>1. CASE s = p
    BY <1>3, <2>1, OwnServe
  <2>2. CASE s # p
    BY <1>3, <2>2, OthersServe
  <2> QED
    BY <2>1, <2>2
<1>4. ASSUME NEW s \in Sessions \ Workers,
             Answer(s) \/ \E r \in Requests \ Ingestions : Ask(s, r)
      PROVE  (AtWork(p) /\ InHand(p) /\ DoneKept(p) /\ QuietKept(p))'
  <2>1. p # s /\ p \in Sessions
    BY <1>4, IngestionRunAssumption
  <2>2. UNCHANGED <<lotteries, draws>> /\ RunAlone(p)
    BY <1>4, <2>1 DEF Answer, Ask, Return, Begin, Goto, run, RunAlone, StoreOK, IInv, TypeOK
  <2> QED
    BY <2>2, ProgressFrame
<1> QED
  BY <1>1, <1>2, <1>3, <1>4 DEF RunNext

LEMMA StoreAlways == RunSpec => []StoreOK
<1>1. Spec => [](IInv /\ UniqueIdentity /\ UsedRows /\ Undisturbed)
  BY Invariance, UniqueAlways, RowsAreUsed, UndisturbedAlways, PTL
<1>2. IInv /\ UniqueIdentity /\ UsedRows /\ Undisturbed => StoreOK
  BY DEF Undisturbed, StoreOK
<1> QED
  BY <1>1, <1>2, RunImplementsStore, PTL DEF ImplementsStore

LEMMA ProgressAlways == RunSpec => []Progress
BY RunInitProgress, NextProgress, RunInvariance, StoreAlways, PTL DEF RunSpec

LEMMA SuccessHolds ==
  ASSUME RunIInv, StoreOK, Progress
  PROVE  SuccessMeansStored
<1> SUFFICES ASSUME NEW p \in Workers, phase[p] = "off", report[p] = "success", quiet[p],
                    DifferentDraws(batch[p]), NEW r \in Members(batch[p])
             PROVE  \E i \in ByDate(r) : Carries(draws[i], r)
  BY DEF SuccessMeansStored
<1>1. PICK k \in 1 .. Len(batch[p]) : r = batch[p][k]
  BY DEF Members
<1>2. r \in Row
  BY <1>1, RecordsAreRows
<1>3. PICK i \in RowIds : Carried(draws[i], r)
  BY <1>1 DEF Progress, QuietKept, Kept
<1>4. draws[i] \in Row
  BY <1>3 DEF Carried, StoreOK, IInv, TypeOK
<1>5. i \in ByDate(r)
  BY <1>2, <1>3, <1>4, CarriedAnswers, LookupMeaning
<1> QED
  BY <1>3, <1>5 DEF Carried, Carries

\* A success means that each draw of the batch is in the table with all the
\* record says, for any batches of different draws, any attempts, failures and
\* crashes of the connection, as long as nobody else changes the table.
THEOREM SuccessIsStored == RunSpec => []SuccessMeansStored
BY SuccessHolds, RunInvariance, StoreAlways, ProgressAlways, PTL

LEMMA RetryStep ==
  ASSUME RunIInv, StoreOK, Progress, [RunNext]_runVars, NEW p \in Workers,
         phase[p] = "stored", DifferentDraws(batch[p]),
         batch[p][pos[p]] \in done[p], pc[p] # pc'[p]
  PROVE  UNCHANGED draws
<1>1. CASE UNCHANGED vars
  BY <1>1 DEF vars
<1>2. ASSUME NEW q \in Workers, Start(q) \/ Work(q) PROVE UNCHANGED draws
  BY <1>2 DEF Start, Work, Fetched, FetchFails, RefuseForeign, Completes, PersistNext,
     Stored, Rejected, Breaks, Release, Return, Begin, vars
<1>3. ASSUME NEW s \in Sessions, Answer(s) \/ \E r \in Requests \ Ingestions : Ask(s, r)
      PROVE  UNCHANGED draws
  BY <1>3 DEF Answer, Ask, Return, Begin
<1>4. ASSUME NEW s \in Sessions, Serve(s) PROVE UNCHANGED draws
  <2>1. IInv /\ UniqueIdentity /\ UsedRows /\ p \in Sessions
    BY IngestionRunAssumption DEF StoreOK
  <2>2. pc[s] \in Working /\ (Step(s) \/ Fail(s))
    BY <1>4 DEF Serve
  <2>3. s = p
    BY <2>1, <2>2, StepIsLocal DEF OthersAlone
  <2>4. Knows(p) /\ Ingesting(p) /\ Kept(req[p].record)
    BY DEF Progress, AtWork, InHand, DoneKept
  <2> QED
    BY <2>1, <2>2, <2>3, <2>4, KeptWritesNothing
<1> QED
  BY <1>1, <1>2, <1>3, <1>4 DEF RunNext, runVars

\* A batch that is delivered again, to a retry or to the next run, finds what it
\* has stored and writes none of it again.
THEOREM RetriesWriteNothing == RunSpec => RetryWritesNothing
<1>1. RunIInv /\ StoreOK /\ Progress /\ [RunNext]_runVars =>
        [\A p \in Workers :
           /\ phase[p] = "stored"
           /\ DifferentDraws(batch[p])
           /\ batch[p][pos[p]] \in done[p]
           /\ pc[p] # pc'[p]
           => UNCHANGED draws]_runVars
  BY RetryStep
<1> QED
  BY <1>1, RunInvariance, StoreAlways, ProgressAlways, PTL DEF RunSpec, RetryWritesNothing
=============================================================================
