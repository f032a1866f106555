---------------------------- MODULE RequestProofs ----------------------------
(***************************************************************************)
(* Proofs about the requests of the API: what they take while they are     *)
(* served, and what they answer out of the table of draws.                 *)
(*                                                                         *)
(* RequestPool, for any finite set of clients and any number of threads,   *)
(* connections and retries.                                                *)
(*                                                                         *)
(* DrawReadings, for any rows, lotteries, sources and lists of numbers and *)
(* any bounds.  Draws are ordered by date and id; a draw's place is the    *)
(* number of draws before it, and the places of n draws are 0 .. n - 1, so *)
(* that counting draws and counting places is the same.                    *)
(***************************************************************************)
EXTENDS RequestPool, DrawReadings, FiniteSetTheorems, TLAPS
-----------------------------------------------------------------------------
(* Threads and connections                                                 *)


Holders == {c \in Clients : holds[c]}

\* How far a prediction has got with Gemini.
PostsOK(c) ==
  /\ stage[c] \in {"idle", "queued", "connect", "allowed", "route"} => posts[c] = 0
  /\ stage[c] = "backoff" => posts[c] <= Retries

\* The inductive invariant: PostsOK keeps posts in its range.
IInv == TypeOK /\ PoolAccounted /\ \A c \in Clients : PostsOK(c)

LEMMA InitInvariant == Init => IInv
<1> SUFFICES ASSUME Init PROVE IInv
  OBVIOUS
<1>1. TypeOK
  BY RequestPoolAssumption DEF Init, TypeOK, Stages, Kinds, Answers
<1>2. {c \in Clients : holds[c]} = {} /\ Busy = {}
  BY DEF Init, Busy, Threaded
<1>3. PoolAccounted
  BY <1>2, FS_EmptySet, RequestPoolAssumption DEF Init, PoolAccounted
<1> QED
  BY <1>1, <1>3, RequestPoolAssumption DEF Init, IInv, PostsOK

LEMMA Finite ==
  /\ IsFiniteSet(Busy) /\ Cardinality(Busy) \in Nat
  /\ IsFiniteSet(Holders) /\ Cardinality(Holders) \in Nat
<1>1. Busy \subseteq Clients /\ Holders \subseteq Clients
  BY DEF Busy, Holders
<1> QED
  BY <1>1, RequestPoolAssumption, FS_Subset, FS_CardinalityType

\* A step of one client keeps within the threads: it leaves its thread, keeps
\* it, or has found one free.
LEMMA BusyBound ==
  ASSUME IInv, NEW c \in Clients, NEW st,
         stage' = [stage EXCEPT ![c] = st],
         st \in Threaded => stage[c] \in Threaded \/ ThreadFree
  PROVE  Cardinality(Busy') <= Threads
<1>0. /\ Cardinality(Busy) <= Threads /\ Cardinality(Busy) \in Nat
      /\ Threads \in Nat /\ IsFiniteSet(Busy)
      /\ stage \in [Clients -> Stages]
  BY Finite, RequestPoolAssumption DEF IInv, PoolAccounted, TypeOK
<1>1. CASE st \notin Threaded
  <2>1. Busy' \subseteq Busy
    BY <1>0, <1>1 DEF Busy
  <2> QED
    BY <2>1, <1>0, FS_Subset, FS_CardinalityType
<1>2. CASE st \in Threaded /\ stage[c] \in Threaded
  <2>1. Busy' = Busy
    BY <1>0, <1>2 DEF Busy
  <2> QED
    BY <2>1, <1>0
<1>3. CASE st \in Threaded /\ stage[c] \notin Threaded
  <2>1. Busy' = Busy \cup {c} /\ c \notin Busy
    BY <1>0, <1>3 DEF Busy
  <2>2. Cardinality(Busy') = Cardinality(Busy) + 1
    BY <2>1, <1>0, FS_AddElement
  <2> QED
    BY <2>2, <1>0, <1>3 DEF ThreadFree
<1> QED
  BY <1>1, <1>2, <1>3

\* A step of one client that leaves the pool alone.
LEMMA MoveKeeps ==
  ASSUME IInv, NEW c \in Clients, NEW st \in Stages,
         stage' = [stage EXCEPT ![c] = st],
         st \in Threaded => stage[c] \in Threaded \/ ThreadFree,
         holds[c] => st \notin {"idle", "queued", "connect"},
         kind' \in [Clients -> Kinds],
         answer' \in [Clients -> Answers \cup {"none"}],
         holds' = holds, inUse' = inUse, dbUp' = dbUp,
         posts' \in [Clients -> 0 .. Retries + 1],
         \A d \in Clients \ {c} : posts'[d] = posts[d],
         st \in {"idle", "queued", "connect", "allowed", "route"} => posts'[c] = 0,
         st = "backoff" => posts'[c] <= Retries
  PROVE  IInv'
<1>1. TypeOK'
  BY DEF IInv, TypeOK
<1>2. Cardinality(Busy') <= Threads
  BY BusyBound
<1>3. PoolAccounted'
  BY <1>2 DEF IInv, TypeOK, PoolAccounted
<1>4. \A d \in Clients : PostsOK(d)'
  BY DEF IInv, TypeOK, PostsOK
<1> QED
  BY <1>1, <1>3, <1>4 DEF IInv

\* The same of a step that leaves posts alone as well.
LEMMA StageKeeps ==
  ASSUME IInv, NEW c \in Clients, NEW st \in Stages,
         stage' = [stage EXCEPT ![c] = st],
         st \in Threaded => stage[c] \in Threaded \/ ThreadFree,
         holds[c] => st \notin {"idle", "queued", "connect"},
         kind' \in [Clients -> Kinds],
         answer' \in [Clients -> Answers \cup {"none"}],
         UNCHANGED <<holds, inUse, posts, dbUp>>,
         st \in {"idle", "queued", "connect", "allowed", "route"} => posts[c] = 0,
         st = "backoff" => posts[c] <= Retries
  PROVE  IInv'
<1>1. /\ posts' \in [Clients -> 0 .. Retries + 1]
      /\ posts'[c] = posts[c]
      /\ \A d \in Clients \ {c} : posts'[d] = posts[d]
  BY DEF IInv, TypeOK
<1> QED
  BY <1>1, MoveKeeps

-----------------------------------------------------------------------------
(* Every step keeps the inductive invariant *)

LEMMA ArriveKeeps ==
  ASSUME IInv, NEW c \in Clients, NEW k \in Kinds, Arrive(c, k)
  PROVE  IInv'
<1>1. /\ stage[c] = "idle" /\ ~holds[c] /\ posts[c] = 0
      /\ stage' = [stage EXCEPT ![c] = "queued"]
      /\ kind' \in [Clients -> Kinds]
      /\ UNCHANGED <<answer, holds, inUse, posts, dbUp>>
      /\ answer' \in [Clients -> Answers \cup {"none"}]
  BY DEF IInv, TypeOK, PoolAccounted, PostsOK, Arrive, Goto
<1> QED
  BY <1>1, StageKeeps DEF Stages, Waiting, Threaded

LEMMA WaitKeeps ==
  ASSUME IInv, NEW c \in Clients, Wait(c)
  PROVE  IInv'
<1>1. CASE Reject(c) \/ Invalid(c)
  <2>1. /\ stage[c] \in {"queued", "allowed"} /\ posts[c] = 0
        /\ stage' = [stage EXCEPT ![c] = "answered"]
        /\ answer' \in [Clients -> Answers \cup {"none"}]
        /\ kind' \in [Clients -> Kinds]
        /\ UNCHANGED <<holds, inUse, posts, dbUp>>
    BY <1>1 DEF IInv, TypeOK, PostsOK, Reject, Invalid, Respond, Goto, Answers
  <2> QED
    BY <2>1, StageKeeps DEF Stages, Waiting, Threaded
<1>2. CASE TakeThread(c)
  <2>1. /\ stage[c] = "queued" /\ posts[c] = 0 /\ ~holds[c] /\ ThreadFree
        /\ stage' = [stage EXCEPT ![c] = "connect"]
        /\ answer' \in [Clients -> Answers \cup {"none"}]
        /\ kind' \in [Clients -> Kinds]
        /\ UNCHANGED <<holds, inUse, posts, dbUp>>
    BY <1>2 DEF IInv, TypeOK, PoolAccounted, PostsOK, TakeThread, Goto
  <2> QED
    BY <2>1, StageKeeps DEF Stages, Waiting, Threaded
<1>3. CASE EnterRoute(c)
  <2>1. /\ stage[c] = "allowed" /\ posts[c] = 0 /\ ThreadFree
        /\ stage' = [stage EXCEPT ![c] = "route"]
        /\ answer' \in [Clients -> Answers \cup {"none"}]
        /\ kind' \in [Clients -> Kinds]
        /\ UNCHANGED <<holds, inUse, posts, dbUp>>
    BY <1>3 DEF IInv, TypeOK, PostsOK, EnterRoute, Goto
  <2> QED
    BY <2>1, StageKeeps DEF Stages, Waiting, Threaded
<1> QED
  BY <1>1, <1>2, <1>3 DEF Wait

\* A request that is answered while it has a thread.
LEMMA RespondKeeps ==
  ASSUME IInv, NEW c \in Clients, NEW a \in Answers, Respond(c, a),
         UNCHANGED <<kind, holds, inUse, posts, dbUp>>
  PROVE  IInv'
<1>1. /\ stage' = [stage EXCEPT ![c] = "answered"]
      /\ answer' \in [Clients -> Answers \cup {"none"}]
      /\ kind' \in [Clients -> Kinds]
  BY DEF IInv, TypeOK, Respond, Goto
<1> QED
  BY <1>1, StageKeeps DEF Stages, Waiting, Threaded

LEMMA ConnectKeeps ==
  ASSUME IInv, NEW c \in Clients, Connect(c)
  PROVE  IInv'
<1>1. /\ stage[c] = "connect" /\ posts[c] = 0 /\ ~holds[c]
      /\ inUse < Capacity
      /\ holds' = [holds EXCEPT ![c] = TRUE]
      /\ inUse' = inUse + 1
      /\ UNCHANGED <<kind, posts, dbUp>>
  BY DEF IInv, PoolAccounted, PostsOK, Connect, CheckOut
<1>2. PICK st \in {"answered", "allowed"} :
        /\ stage' = [stage EXCEPT ![c] = st]
        /\ answer' \in [Clients -> Answers \cup {"none"}]
  BY DEF IInv, TypeOK, Connect, Respond, Goto, Answers
<1>3. TypeOK'
  BY <1>1, <1>2, RequestPoolAssumption DEF IInv, TypeOK, Stages, Waiting
<1>4. Cardinality(Busy') <= Threads
  BY <1>2, BusyBound DEF Threaded
<1>5. Holders' = Holders \cup {c} /\ c \notin Holders
  BY <1>1 DEF IInv, TypeOK, Holders
<1>6. Cardinality(Holders') = Cardinality(Holders) + 1
  BY <1>5, Finite, FS_AddElement
<1>7. PoolAccounted'
  <2>1. inUse' = Cardinality(Holders')
    BY <1>1, <1>6 DEF IInv, PoolAccounted, Holders
  <2>2. ASSUME NEW d \in Clients, holds'[d]
        PROVE  stage'[d] \notin {"idle", "queued", "connect"}
    BY <2>2, <1>1, <1>2 DEF IInv, TypeOK, PoolAccounted
  <2> QED
    BY <2>1, <2>2, <1>4 DEF PoolAccounted, Holders
<1>8. \A d \in Clients : PostsOK(d)'
  BY <1>1, <1>2 DEF IInv, TypeOK, PostsOK
<1> QED
  BY <1>3, <1>7, <1>8 DEF IInv

LEMMA DialKeeps ==
  ASSUME IInv, NEW c \in Clients, Dial(c)
  PROVE  IInv'
<1>1. CASE Connect(c)
  BY <1>1, ConnectKeeps
<1>2. CASE ConnectFails(c) \/ PoolTimeout(c)
  <2>1. /\ \E a \in Answers : Respond(c, a)
        /\ UNCHANGED <<kind, holds, inUse, posts, dbUp>>
    BY <1>2 DEF ConnectFails, PoolTimeout, DatabaseError, Answers
  <2> QED
    BY <2>1, RespondKeeps
<1> QED
  BY <1>1, <1>2 DEF Dial

LEMMA RouteKeeps ==
  ASSUME IInv, NEW c \in Clients, Route(c)
  PROVE  IInv'
<1>1. CASE Read(c) \/ QueryFails(c) \/ Limited(c) \/ Refuse(c)
  <2>1. /\ \E a \in Answers : Respond(c, a)
        /\ UNCHANGED <<kind, holds, inUse, posts, dbUp>>
    BY <1>1 DEF Read, QueryFails, Limited, Refuse, DatabaseError, Answers
  <2> QED
    BY <2>1, RespondKeeps
<1>2. CASE Ask(c)
  <2>1. /\ stage[c] = "route" /\ posts[c] = 0
        /\ stage' = [stage EXCEPT ![c] = "gemini"]
        /\ posts' = [posts EXCEPT ![c] = posts[c] + 1]
        /\ answer' \in [Clients -> Answers \cup {"none"}]
        /\ kind' \in [Clients -> Kinds]
        /\ UNCHANGED <<holds, inUse, dbUp>>
    BY <1>2 DEF IInv, TypeOK, PostsOK, Ask, Post, Goto
  <2>2. /\ posts' \in [Clients -> 0 .. Retries + 1]
        /\ \A d \in Clients \ {c} : posts'[d] = posts[d]
    BY <2>1, RequestPoolAssumption DEF IInv, TypeOK
  <2> QED
    BY <2>1, <2>2, MoveKeeps DEF Stages, Waiting, Threaded
<1> QED
  BY <1>1, <1>2 DEF Route

LEMMA GeminiKeeps ==
  ASSUME IInv, NEW c \in Clients, Gemini(c)
  PROVE  IInv'
<1>1. CASE GeminiReplies(c) \/ GeminiFails(c) \/ (GeminiUnavailable(c) /\ ~MayRetry(c))
  <2>1. /\ \E a \in Answers : Respond(c, a)
        /\ UNCHANGED <<kind, holds, inUse, posts, dbUp>>
    BY <1>1 DEF GeminiReplies, GeminiFails, GeminiUnavailable, Answers
  <2> QED
    BY <2>1, RespondKeeps
<1>2. CASE GeminiUnavailable(c) /\ MayRetry(c)
  <2>1. /\ stage[c] = "gemini" /\ posts[c] <= Retries
        /\ stage' = [stage EXCEPT ![c] = "backoff"]
        /\ answer' \in [Clients -> Answers \cup {"none"}]
        /\ kind' \in [Clients -> Kinds]
        /\ UNCHANGED <<holds, inUse, posts, dbUp>>
    BY <1>2 DEF IInv, TypeOK, GeminiUnavailable, MayRetry, Goto
  <2> QED
    BY <2>1, StageKeeps DEF Stages, Waiting, Threaded
<1>3. CASE AskAgain(c)
  <2>1. /\ stage[c] = "backoff" /\ posts[c] <= Retries
        /\ stage' = [stage EXCEPT ![c] = "gemini"]
        /\ posts' = [posts EXCEPT ![c] = posts[c] + 1]
        /\ answer' \in [Clients -> Answers \cup {"none"}]
        /\ kind' \in [Clients -> Kinds]
        /\ UNCHANGED <<holds, inUse, dbUp>>
    BY <1>3 DEF IInv, TypeOK, PostsOK, AskAgain, Post, Goto
  <2>2. /\ posts' \in [Clients -> 0 .. Retries + 1]
        /\ \A d \in Clients \ {c} : posts'[d] = posts[d]
    BY <2>1, RequestPoolAssumption DEF IInv, TypeOK
  <2> QED
    BY <2>1, <2>2, MoveKeeps DEF Stages, Waiting, Threaded
<1> QED
  BY <1>1, <1>2, <1>3 DEF Gemini

LEMMA CloseKeeps ==
  ASSUME IInv, NEW c \in Clients, Close(c)
  PROVE  IInv'
<1>1. /\ stage[c] = "answered"
      /\ stage' = [stage EXCEPT ![c] = "idle"]
      /\ kind' = [kind EXCEPT ![c] = "health"]
      /\ answer' = [answer EXCEPT ![c] = "none"]
      /\ posts' = [posts EXCEPT ![c] = 0]
      /\ holds' = [holds EXCEPT ![c] = FALSE]
      /\ inUse' = IF holds[c] THEN inUse - 1 ELSE inUse
      /\ UNCHANGED dbUp
  BY DEF Close, Forget, Goto
<1>2. inUse' = Cardinality(Holders') /\ inUse' \in 0 .. Capacity
  <2>0. inUse = Cardinality(Holders) /\ inUse \in 0 .. Capacity
    BY DEF IInv, TypeOK, PoolAccounted, Holders
  <2>1. CASE holds[c]
    <3>1. Holders' = Holders \ {c} /\ c \in Holders
      BY <1>1, <2>1 DEF IInv, TypeOK, Holders
    <3>2. Cardinality(Holders') = Cardinality(Holders) - 1 /\ Cardinality(Holders') \in Nat
      BY <3>1, Finite, FS_RemoveElement, FS_CardinalityType
    <3> QED
      BY <3>2, <2>0, <2>1, <1>1, RequestPoolAssumption
  <2>2. CASE ~holds[c]
    <3>1. Holders' = Holders
      BY <1>1, <2>2 DEF IInv, TypeOK, Holders
    <3> QED
      BY <3>1, <2>0, <2>2, <1>1
  <2> QED
    BY <2>1, <2>2
<1>3. TypeOK'
  BY <1>1, <1>2, RequestPoolAssumption DEF IInv, TypeOK, Stages, Kinds
<1>4. Cardinality(Busy') <= Threads
  BY <1>1, BusyBound DEF Threaded
<1>5. PoolAccounted'
  <2>1. ASSUME NEW d \in Clients, holds'[d]
        PROVE  stage'[d] \notin {"idle", "queued", "connect"}
    BY <2>1, <1>1 DEF IInv, TypeOK, PoolAccounted
  <2> QED
    BY <2>1, <1>2, <1>4 DEF PoolAccounted, Holders
<1>6. \A d \in Clients : PostsOK(d)'
  BY <1>1 DEF IInv, TypeOK, PostsOK
<1> QED
  BY <1>3, <1>5, <1>6 DEF IInv

LEMMA NextKeeps == IInv /\ [Next]_vars => IInv'
<1> SUFFICES ASSUME IInv, [Next]_vars PROVE IInv'
  OBVIOUS
<1>1. CASE UNCHANGED <<stage, kind, answer, holds, inUse, posts>> /\ dbUp' \in BOOLEAN
  BY <1>1 DEF IInv, TypeOK, PoolAccounted, Busy, PostsOK
<1>2. CASE Outage
  BY <1>2, <1>1 DEF Outage
<1>3. CASE UNCHANGED vars
  BY <1>3, <1>1 DEF vars, IInv, TypeOK
<1> QED
  BY <1>2, <1>3, ArriveKeeps, WaitKeeps, DialKeeps, RouteKeeps, GeminiKeeps, CloseKeeps
     DEF Next

LEMMA Invariance == Spec => []IInv
BY InitInvariant, NextKeeps, PTL DEF Spec
-----------------------------------------------------------------------------
\* Every state of RequestPool is well typed: in particular the pool never hands
\* out more than Capacity connections and a prediction is never sent to Gemini
\* more than Retries + 1 times.
THEOREM TypeCorrect == Spec => []TypeOK
BY Invariance, PTL DEF IInv

\* However requests interleave, fail, time out and are refused, the pool's count
\* is right, no client keeps a connection after its request, and the threads are
\* enough for the requests that are in them.
THEOREM Accounted == Spec => []PoolAccounted
BY Invariance, PTL DEF IInv
-----------------------------------------------------------------------------

(* The table that requests read                                            *)

Drawn == {i \in RowIds : draws[i] # None}

\* Whoever wrote it, a list of numbers that is there is one the normaliser takes.
Stored == \A i \in Drawn : draws[i].main # None => Normalised(draws[i].main)

\* The inductive invariant of the table.
ReadingsIInv ==
  /\ draws \in [RowIds -> Row \cup {None}]
  /\ IsFiniteSet(Drawn)
  /\ Stored

LEMMA ReadingsConstants ==
  /\ RowIds \subseteq Nat /\ Dates \subseteq Nat /\ Lists \subseteq Seq(Int)
  /\ None \notin Lists /\ None \notin Sources /\ None \notin Row
  /\ MaxNumber \in Nat \ {0} /\ MaxItems \in Nat \ {0}
  /\ MaxDraws \in Nat \ {0} /\ Recent \in Nat \ {0}
BY ReadingsAssumption

LEMMA ValidIsNormalised ==
  ASSUME NEW list \in Lists, Valid(list)
  PROVE  Normalised(list)
<1>1. list \in Seq(Int) /\ Len(list) # 0
  BY ReadingsConstants DEF Valid
<1>2. list # <<>>
  BY <1>1
<1> QED
  BY <1>2 DEF Valid, Normalised

LEMMA PutKeeps ==
  ASSUME ReadingsIInv, NEW i \in RowIds, NEW row \in Row, Put(i, row),
         row.main # None => Normalised(row.main)
  PROVE  ReadingsIInv'
<1>1. draws' = [draws EXCEPT ![i] = row]
  BY DEF Put
<1>2. draws' \in [RowIds -> Row \cup {None}]
  BY <1>1 DEF ReadingsIInv
<1>3. Drawn' \subseteq Drawn \cup {i}
  BY <1>1 DEF Drawn, ReadingsIInv
<1>4. IsFiniteSet(Drawn')
  <2>1. IsFiniteSet(Drawn \cup {i})
    BY FS_AddElement DEF ReadingsIInv
  <2> QED
    BY <1>3, <2>1, FS_Subset
<1>5. Stored'
  BY <1>1 DEF Stored, Drawn, ReadingsIInv
<1> QED
  BY <1>2, <1>4, <1>5 DEF ReadingsIInv

\* Rows go, and none is changed.
LEMMA LossKeeps ==
  ASSUME ReadingsIInv, draws' \in [RowIds -> Row \cup {None}],
         \A i \in RowIds : draws'[i] \in {draws[i], None}
  PROVE  ReadingsIInv'
<1>1. Drawn' \subseteq Drawn
  BY DEF Drawn
<1>2. IsFiniteSet(Drawn')
  BY <1>1, FS_Subset DEF ReadingsIInv
<1>3. Stored'
  BY DEF Stored, Drawn, ReadingsIInv
<1> QED
  BY <1>2, <1>3 DEF ReadingsIInv

LEMMA TableInit == Table!Init => ReadingsIInv
<1> SUFFICES ASSUME Table!Init PROVE ReadingsIInv
  OBVIOUS
<1>1. draws = [i \in RowIds |-> None]
  BY DEF Table!Init
<1>2. Drawn = {}
  BY <1>1 DEF Drawn
<1> QED
  BY <1>1, <1>2, FS_EmptySet DEF ReadingsIInv, Stored

LEMMA TableKeeps == ReadingsIInv /\ [ReadingsNext]_readingsVars => ReadingsIInv'
<1> SUFFICES ASSUME ReadingsIInv, [ReadingsNext]_readingsVars PROVE ReadingsIInv'
  OBVIOUS
<1>1. CASE UNCHANGED readingsVars
  BY <1>1 DEF readingsVars, ReadingsIInv, Stored, Drawn
<1>2. ASSUME NEW i \in RowIds, Ingest(i) PROVE ReadingsIInv'
  BY <1>2, PutKeeps DEF Ingest, NormalisedRows
<1>3. ASSUME NEW i \in RowIds, Create(i) PROVE ReadingsIInv'
  <2>1. PICK row \in ValidRows : Put(i, row)
    BY <1>3 DEF Create
  <2>2. row \in Row /\ Normalised(row.main)
    BY <2>1, ValidIsNormalised DEF ValidRows, Row
  <2> QED
    BY <2>1, <2>2, PutKeeps
<1>4. ASSUME NEW i \in RowIds, Update(i) PROVE ReadingsIInv'
  <2>1. i \in Drawn
    BY <1>4 DEF Update, Drawn
  <2>2. PICK r \in Row : (r.main \in {None, draws[i].main} \/ r \in ValidRows) /\ Put(i, r)
    BY <1>4 DEF Update
  <2>3. r.main # None => Normalised(r.main)
    BY <2>1, <2>2, ValidIsNormalised DEF ValidRows, Row, ReadingsIInv, Stored
  <2> QED
    BY <2>2, <2>3, PutKeeps
<1>5. ASSUME NEW i \in RowIds, Delete(i) PROVE ReadingsIInv'
  <2>1. draws' \in [RowIds -> Row \cup {None}] /\ \A j \in RowIds : draws'[j] \in {draws[j], None}
    BY <1>5 DEF Delete, ReadingsIInv
  <2> QED
    BY <2>1, LossKeeps
<1>6. ASSUME NEW l \in Lotteries, DropLottery(l) PROVE ReadingsIInv'
  <2>1. draws' \in [RowIds -> Row \cup {None}] /\ \A j \in RowIds : draws'[j] \in {draws[j], None}
    BY <1>6 DEF DropLottery, ReadingsIInv
  <2> QED
    BY <2>1, LossKeeps
<1> QED
  BY <1>1, <1>2, <1>3, <1>4, <1>5, <1>6 DEF ReadingsNext

\* Whatever is ingested, entered, corrected, nulled, moved or deleted, a stored
\* list of numbers is one that the normaliser takes.
THEOREM TableHoldsNormalised == ReadingsSpec => []ReadingsIInv
BY TableInit, TableKeeps, PTL DEF ReadingsSpec

\* The writers change the table as DrawTable allows, which is what DrawStore
\* implements.
THEOREM ReadingsOfTable == ReadingsSpec => Table!Spec
<1>1. ReadingsIInv /\ [ReadingsNext]_readingsVars => [Table!Next]_(Table!table)
  <2> SUFFICES ASSUME ReadingsIInv, ReadingsNext PROVE Table!Next
    BY DEF readingsVars, Table!table
  <2>1. ASSUME NEW i \in RowIds, Ingest(i) \/ Create(i) \/ Update(i) PROVE Table!Next
    BY <2>1 DEF Ingest, Create, Update, Table!Next
  <2>2. ASSUME NEW i \in RowIds, Delete(i) PROVE Table!Next
    BY <2>2 DEF Delete, Table!Next, Table!Delete
  <2>3. ASSUME NEW l \in Lotteries, DropLottery(l) PROVE Table!Next
    <3>1. Table!DropLottery(l)
      BY <2>3 DEF DropLottery, Table!DropLottery
    <3> QED
      BY <3>1 DEF Table!Next
  <2> QED
    BY <2>1, <2>2, <2>3 DEF ReadingsNext
<1> QED
  BY <1>1, TableHoldsNormalised, PTL DEF ReadingsSpec, Table!Spec
-----------------------------------------------------------------------------
(* Rows in their order                                                     *)

\* A finite set of rows that are in the table.
Standing(S) == S \subseteq RowIds /\ IsFiniteSet(S) /\ \A i \in S : draws[i] \in Row

LEMMA Parts ==
  ASSUME NEW S, Standing(S), NEW P \in SUBSET S
  PROVE  /\ Standing(P)
         /\ Cardinality(P) \in Nat /\ Cardinality(S) \in Nat
         /\ Cardinality(P) <= Cardinality(S)
BY FS_Subset, FS_CardinalityType DEF Standing

LEMMA BeforeOrders ==
  ASSUME NEW S, Standing(S), NEW i \in S, NEW j \in S
  PROVE  /\ ~Before(i, i)
         /\ Before(i, j) => ~Before(j, i)
         /\ i # j => Before(i, j) \/ Before(j, i)
         /\ \A k \in S : Before(i, j) /\ Before(j, k) => Before(i, k)
<1>1. \A k \in S : k \in Nat /\ draws[k].date \in Nat
  BY ReadingsConstants DEF Standing, Row
<1> QED
  BY <1>1 DEF Before

LEMMA PlaceRange ==
  ASSUME NEW S, Standing(S), NEW i \in S
  PROVE  Place(i, S) \in 0 .. Cardinality(S) - 1
<1> DEFINE P == {j \in S : Before(j, i)}
<1>1. P \subseteq S \ {i}
  BY BeforeOrders
<1>2. IsFiniteSet(S \ {i}) /\ Cardinality(S \ {i}) = Cardinality(S) - 1
  BY FS_RemoveElement DEF Standing
<1>3. Cardinality(P) <= Cardinality(S) - 1
  BY <1>1, <1>2, FS_Subset
<1>4. Cardinality(P) \in Nat /\ Cardinality(S) \in Nat
  <2> HIDE DEF P
  <2> QED
    BY <1>1, Parts
<1> QED
  BY <1>3, <1>4 DEF Place

LEMMA PlaceOrders ==
  ASSUME NEW S, Standing(S), NEW i \in S, NEW j \in S
  PROVE  /\ Before(i, j) <=> Place(i, S) < Place(j, S)
         /\ Place(i, S) = Place(j, S) => i = j
<1>1. ASSUME NEW x \in S, NEW y \in S, Before(x, y) PROVE Place(x, S) < Place(y, S)
  <2> DEFINE P == {z \in S : Before(z, x)}
             Q == {z \in S : Before(z, y)}
  <2>1. P \subseteq Q \ {x} /\ x \in Q
    BY <1>1, BeforeOrders
  <2>2. IsFiniteSet(Q) /\ Cardinality(Q) \in Nat /\ Cardinality(P) \in Nat
    BY Parts DEF Standing
  <2>3. IsFiniteSet(Q \ {x}) /\ Cardinality(Q \ {x}) = Cardinality(Q) - 1
    <3> HIDE DEF Q
    <3> QED
      BY <2>1, <2>2, FS_RemoveElement
  <2>4. Cardinality(P) <= Cardinality(Q) - 1
    <3> HIDE DEF P, Q
    <3> QED
      BY <2>1, <2>3, FS_Subset
  <2>5. Place(x, S) = Cardinality(P) /\ Place(y, S) = Cardinality(Q)
    BY DEF Place
  <2> HIDE DEF P, Q
  <2> QED
    BY <2>2, <2>4, <2>5
<1>2. Place(i, S) \in Int /\ Place(j, S) \in Int
  BY PlaceRange, Parts
<1> QED
  BY <1>1, <1>2, BeforeOrders

LEMMA EveryPlace ==
  ASSUME NEW S, Standing(S), NEW k \in 0 .. Cardinality(S) - 1
  PROVE  \E i \in S : Place(i, S) = k
<1> DEFINE n == Cardinality(S)
           T == 0 .. n - 1
           f == [i \in S |-> Place(i, S)]
<1>1. n \in Nat
  BY Parts
<1>2. IsFiniteSet(T) /\ Cardinality(T) = n
  <2>1. 0 \in Int /\ n - 1 \in Int
    BY <1>1
  <2>2. IsFiniteSet(T) /\ Cardinality(T) = IF 0 > n - 1 THEN 0 ELSE (n - 1) - 0 + 1
    <3> HIDE DEF n
    <3> QED
      BY <2>1, FS_Interval
  <2> HIDE DEF T, n
  <2> QED
    BY <1>1, <2>2
<1>3. f \in Injection(S, T)
  <2>1. f \in [S -> T]
    BY PlaceRange
  <2>2. \A i, j \in S : f[i] = f[j] => i = j
    BY PlaceOrders
  <2> QED
    BY <2>1, <2>2 DEF Injection, IsInjective
<1>4. f \in Surjection(S, T)
  <2> HIDE DEF f, T
  <2> QED
    BY <1>2, <1>3, FS_Injection
<1> QED
  BY <1>4 DEF Surjection

LEMMA OrderedRows ==
  ASSUME NEW S, Standing(S)
  PROVE  /\ Ordered(S) \in [1 .. Cardinality(S) -> S]
         /\ \A k \in 1 .. Cardinality(S) : Place(Ordered(S)[k], S) = k - 1
         /\ \A i \in S : Place(i, S) + 1 \in 1 .. Cardinality(S) /\ Ordered(S)[Place(i, S) + 1] = i
         /\ Len(Ordered(S)) = Cardinality(S)
         /\ Range(Ordered(S)) = S
<1>1. Cardinality(S) \in Nat
  BY Parts
<1>2. ASSUME NEW k \in 1 .. Cardinality(S)
      PROVE  Ordered(S)[k] \in S /\ Place(Ordered(S)[k], S) = k - 1
  <2>1. \E i \in S : Place(i, S) = k - 1
    BY <1>1, EveryPlace
  <2> QED
    BY <2>1 DEF Ordered
<1>3. ASSUME NEW i \in S
      PROVE  Place(i, S) + 1 \in 1 .. Cardinality(S) /\ Ordered(S)[Place(i, S) + 1] = i
  <2>1. Place(i, S) + 1 \in 1 .. Cardinality(S) /\ (Place(i, S) + 1) - 1 = Place(i, S)
    BY <1>1, PlaceRange
  <2>2. Place(Ordered(S)[Place(i, S) + 1], S) = Place(i, S)
    BY <1>2, <2>1
  <2> QED
    BY <1>2, <2>1, <2>2, PlaceOrders
<1>4. Ordered(S) \in [1 .. Cardinality(S) -> S]
  BY <1>2 DEF Ordered
<1>5. Len(Ordered(S)) = Cardinality(S)
  BY <1>1, <1>4
<1>6. Range(Ordered(S)) = S
  BY <1>3, <1>4 DEF Range
<1> QED
  BY <1>2, <1>3, <1>4, <1>5, <1>6

\* What holds of so many rows holds in so many places of the order.
LEMMA CountPlaces ==
  ASSUME NEW S, Standing(S), NEW P \in SUBSET S
  PROVE  Cardinality({k \in DOMAIN Ordered(S) : Ordered(S)[k] \in P}) = Cardinality(P)
<1> DEFINE K == {k \in DOMAIN Ordered(S) : Ordered(S)[k] \in P}
           f == [i \in P |-> Place(i, S) + 1]
<1>1. /\ DOMAIN Ordered(S) = 1 .. Cardinality(S) /\ Cardinality(S) \in Nat
      /\ \A k \in 1 .. Cardinality(S) : Place(Ordered(S)[k], S) = k - 1
      /\ \A i \in S : Place(i, S) + 1 \in 1 .. Cardinality(S) /\ Ordered(S)[Place(i, S) + 1] = i
      /\ \A i \in S : Place(i, S) \in Int
  BY OrderedRows, Parts, PlaceRange
<1>2. f \in [P -> K]
  BY <1>1
<1>3. \A i, j \in P : f[i] = f[j] => i = j
  BY <1>1, PlaceOrders
<1>4. \A k \in K : \E i \in P : f[i] = k
  BY <1>1
<1>5. f \in Injection(P, K) /\ f \in Surjection(P, K)
  BY <1>2, <1>3, <1>4 DEF Injection, IsInjective, Surjection
<1>6. IsFiniteSet(P)
  BY FS_Subset DEF Standing
<1> HIDE DEF f, K
<1> QED
  BY <1>5, <1>6, FS_Surjection DEF K

LEMMA EarliestRows ==
  ASSUME NEW S, Standing(S), NEW n \in Nat
  PROVE  /\ Cardinality(S) <= n => Earliest(n, S) = S
         /\ Cardinality(S) > n => Cardinality(Earliest(n, S)) = n
<1>1. Cardinality(S) \in Nat /\ \A i \in S : Place(i, S) \in 0 .. Cardinality(S) - 1
  BY PlaceRange, Parts
<1>2. CASE Cardinality(S) <= n
  BY <1>1, <1>2 DEF Earliest
<1>3. CASE Cardinality(S) > n
  <2> DEFINE E == Earliest(n, S)
             T == 1 .. n
             f == [k \in T |-> Ordered(S)[k]]
  <2>1. T \subseteq 1 .. Cardinality(S)
    BY <1>1, <1>3
  <2>2. f \in [T -> E]
    BY <2>1, OrderedRows DEF Earliest
  <2>3. \A j, k \in T : f[j] = f[k] => j = k
    BY <2>1, OrderedRows
  <2>4. \A i \in E : \E k \in T : f[k] = i
    <3> SUFFICES ASSUME NEW i \in E PROVE \E k \in T : f[k] = i
      OBVIOUS
    <3>1. i \in S /\ Place(i, S) < n /\ Place(i, S) \in Nat
      BY <1>1 DEF Earliest
    <3>2. Place(i, S) + 1 \in T /\ f[Place(i, S) + 1] = i
      BY <3>1, OrderedRows
    <3> QED
      BY <3>2
  <2>5. f \in Injection(T, E) /\ f \in Surjection(T, E)
    BY <2>2, <2>3, <2>4 DEF Injection, IsInjective, Surjection
  <2>6. IsFiniteSet(T) /\ Cardinality(T) = n
    <3>1. IsFiniteSet(T) /\ Cardinality(T) = IF 1 > n THEN 0 ELSE n - 1 + 1
      BY 1 \in Int, n \in Int, FS_Interval
    <3> HIDE DEF T
    <3> QED
      BY <3>1
  <2> HIDE DEF T, E, f
  <2>7. Cardinality(E) = n
    BY <2>5, <2>6, FS_Surjection
  <2> QED
    BY <1>1, <1>3, <2>7 DEF E
<1> QED
  BY <1>1, <1>2, <1>3

\* The newest row that a number was drawn in ends the places it was seen in, and
\* the rows after all of its rows are in the places after that one.
LEMMA LastSeen ==
  ASSUME NEW S, Standing(S), NEW n, \E i \in S : Has(i, n)
  PROVE  Cardinality({j \in S : \A i \in S : Has(i, n) => Before(i, j)}) =
           Cardinality(S) - Max(Seen(n, Ordered(S)))
<1> DEFINE m == Cardinality(S)
           o == Ordered(S)
           P == {i \in S : Has(i, n)}
           After == {j \in S : \A i \in S : Has(i, n) => Before(i, j)}
<1>1. /\ m \in Nat /\ o \in [1 .. m -> S] /\ \A k \in 1 .. m : Place(o[k], S) = k - 1
      /\ \A i \in S : Place(i, S) + 1 \in 1 .. m /\ o[Place(i, S) + 1] = i /\ Place(i, S) \in Int
  BY OrderedRows, Parts, PlaceRange
<1>2. PICK x \in P : \A i \in P : i = x \/ Before(i, x)
  <2>1. Standing(P) /\ Cardinality(P) \in Nat
    BY Parts
  <2>2. Cardinality(P) # 0
    <3>1. IsFiniteSet(P) /\ P # {}
      BY <2>1 DEF Standing
    <3> HIDE DEF P
    <3> QED
      BY <3>1, FS_EmptySet
  <2>3. PICK x \in P : Place(x, P) = Cardinality(P) - 1
    <3>1. Cardinality(P) - 1 \in 0 .. Cardinality(P) - 1
      BY <2>1, <2>2
    <3> HIDE DEF P
    <3> QED
      BY <2>1, <3>1, EveryPlace
  <2>4. ASSUME NEW i \in P PROVE i = x \/ Before(i, x)
    <3>1. Place(i, P) \in 0 .. Cardinality(P) - 1
      BY <2>1, PlaceRange
    <3>2. Before(i, x) <=> Place(i, P) < Place(x, P)
      BY <2>1, PlaceOrders
    <3>3. Place(i, P) = Place(x, P) => i = x
      BY <2>1, PlaceOrders
    <3> QED
      BY <2>1, <2>3, <3>1, <3>2, <3>3
  <2> QED
    BY <2>4
<1> DEFINE last == Place(x, S) + 1
<1>3. /\ last \in 1 .. m /\ o[last] = x /\ last \in Seen(n, o)
      /\ \A k \in Seen(n, o) : k \in 1 .. m /\ k <= last
  <2>1. last \in 1 .. m /\ o[last] = x
    BY <1>1
  <2>2. last \in Seen(n, o)
    BY <1>1, <2>1 DEF Seen
  <2>3. ASSUME NEW k \in Seen(n, o) PROVE k \in 1 .. m /\ k <= last
    <3>1. k \in 1 .. m /\ o[k] \in P
      BY <1>1 DEF Seen
    <3>2. o[k] = x \/ Place(o[k], S) < Place(x, S)
      BY <1>2, <3>1, PlaceOrders
    <3>3. Place(o[k], S) = k - 1 /\ Place(x, S) \in Int /\ k \in Int
      BY <1>1, <3>1
    <3> HIDE DEF o
    <3> QED
      BY <3>1, <3>2, <3>3
  <2> QED
    BY <2>1, <2>2, <2>3
<1>4. Max(Seen(n, o)) = last
  BY <1>1, <1>3 DEF Max
<1>5. {k \in DOMAIN o : o[k] \in After} = last + 1 .. m
  <2>1. ASSUME NEW k \in 1 .. m PROVE o[k] \in After <=> last < k
    <3>1. o[k] \in S /\ Place(o[k], S) = k - 1 /\ Place(x, S) = last - 1 /\ Place(x, S) \in Int
      BY <1>1
    <3>2. Before(x, o[k]) <=> last < k
      <4>1. Before(x, o[k]) <=> Place(x, S) < Place(o[k], S)
        BY <3>1, PlaceOrders
      <4> QED
        BY <3>1, <4>1
    <3>3. o[k] \in After => Before(x, o[k])
      OBVIOUS
    <3>4. Before(x, o[k]) => o[k] \in After
      BY <1>2, <3>1, BeforeOrders
    <3> QED
      BY <3>2, <3>3, <3>4
  <2> HIDE DEF After, last, o
  <2> QED
    BY <1>1, <1>3, <2>1
<1>6. Cardinality(last + 1 .. m) = m - last
  <2>1. last \in Int /\ last <= m
    BY <1>1, <1>3
  <2> HIDE DEF last, m
  <2>2. last + 1 \in Int /\ m \in Int
    BY <1>1, <2>1
  <2>3. Cardinality(last + 1 .. m) = IF last + 1 > m THEN 0 ELSE m - (last + 1) + 1
    BY <2>2, FS_Interval
  <2> QED
    BY <2>1, <2>2, <2>3
<1>7. Cardinality({k \in DOMAIN o : o[k] \in After}) = Cardinality(After)
  <2> HIDE DEF After
  <2>1. After \in SUBSET S
    BY DEF After
  <2> QED
    BY <2>1, CountPlaces
<1> QED
  BY <1>4, <1>5, <1>6, <1>7
-----------------------------------------------------------------------------
(* Statistics                                                              *)

Numbered(l, source) == {i \in Rows(l, source) : HasNumbers(i)}

LEMMA RowsStand ==
  ASSUME ReadingsIInv, NEW l, NEW source
  PROVE  /\ Standing(Drawn) /\ Rows(l, source) \in SUBSET Drawn
         /\ Standing(Rows(l, source)) /\ Standing(Numbered(l, source))
         /\ Numbered(l, source) \in SUBSET Rows(l, source)
<1>1. Standing(Drawn)
  BY DEF Standing, Drawn, ReadingsIInv
<1>2. Rows(l, source) \in SUBSET Drawn
  BY DEF Rows, Drawn
<1>3. Numbered(l, source) \in SUBSET Rows(l, source)
  BY DEF Numbered
<1> QED
  BY <1>1, <1>2, <1>3, Parts

LEMMA StoredAnalysable ==
  ASSUME ReadingsIInv, NEW i \in Drawn
  PROVE  Analysable(i)
<1> SUFFICES ASSUME HasNumbers(i)
             PROVE  IsInjective(draws[i].main) /\ \A k \in DOMAIN draws[i].main : draws[i].main[k] > 0
  BY DEF Analysable
<1>1. Normalised(draws[i].main)
  BY DEF HasNumbers, ReadingsIInv, Stored
<1>2. MaxNumber \in Nat
  BY ReadingsConstants
<1> QED
  BY <1>1, <1>2 DEF Normalised, InRange

\* An analysis is refused for its size only; otherwise it is of all rows with numbers.
LEMMA AnalysisFields ==
  ASSUME ReadingsIInv, NEW l, NEW source
  PROVE  /\ Cardinality(Rows(l, source)) > MaxDraws => Analysis(l, source).status = "too large"
         /\ ~(Cardinality(Rows(l, source)) > MaxDraws) =>
              /\ Analysis(l, source).status \in {"standby", "ready"}
              /\ Analysis(l, source).analyzed = Len(Ordered(Numbered(l, source)))
              /\ Analysis(l, source).frequency = Frequency(Ordered(Numbered(l, source)))
              /\ Analysis(l, source).recency = Recency(Ordered(Numbered(l, source)))
<1> DEFINE rows == Rows(l, source)
           N == Numbered(l, source)
           o == Ordered(N)
<1>1. /\ Standing(rows) /\ Standing(N) /\ N \in SUBSET rows /\ rows \in SUBSET Drawn
      /\ Cardinality(rows) \in Nat /\ MaxDraws \in Nat
  BY RowsStand, Parts, ReadingsConstants
<1>2. CASE Cardinality(rows) > MaxDraws
  <2>1. Cardinality(Earliest(MaxDraws + 1, rows)) > MaxDraws
    <3>1. CASE Cardinality(rows) <= MaxDraws + 1
      BY <1>1, <1>2, <3>1, EarliestRows
    <3>2. CASE Cardinality(rows) > MaxDraws + 1
      BY <1>1, <3>2, EarliestRows
    <3> QED
      BY <1>1, <3>1, <3>2
  <2> QED
    BY <1>1, <1>2, <2>1 DEF Analysis, Load
<1>3. CASE ~(Cardinality(rows) > MaxDraws)
  <2>1. Load(l, source) = rows
    <3>1. Cardinality(rows) <= MaxDraws + 1 /\ MaxDraws + 1 \in Nat
      BY <1>1, <1>3
    <3> QED
      BY <1>1, <3>1, EarliestRows DEF Load
  <2>2. {i \in Load(l, source) : HasNumbers(i)} = N
    BY <2>1 DEF Numbered
  <2>3. ~\E k \in DOMAIN o : ~Analysable(o[k])
    <3>1. \A k \in DOMAIN o : o[k] \in N
      BY <1>1, OrderedRows
    <3> HIDE DEF o, N
    <3> QED
      BY <1>1, <3>1, StoredAnalysable
  <2>4. PICK status : status = (IF o = <<>> THEN "standby" ELSE "ready")
    OBVIOUS
  <2>5. status \in {"standby", "ready"}
    BY <2>4
  <2>6. Analysis(l, source) = [status |-> status, analyzed |-> Len(o),
                              frequency |-> Frequency(o), recency |-> Recency(o)]
    <3> HIDE DEF o
    <3>1. o = Ordered({i \in Load(l, source) : HasNumbers(i)})
      BY <2>2 DEF o
    <3> QED
      BY <1>3, <2>1, <2>3, <2>4, <3>1 DEF Analysis
  <2> HIDE DEF o
  <2>7. /\ Analysis(l, source).status \in {"standby", "ready"}
        /\ Analysis(l, source).analyzed = Len(o)
        /\ Analysis(l, source).frequency = Frequency(o)
        /\ Analysis(l, source).recency = Recency(o)
    BY <2>5, <2>6
  <2> QED
    BY <1>3, <2>7 DEF o
<1> QED
  BY <1>2, <1>3

\* Past the normaliser, the schemas and a PUT that nulls the numbers, no lottery
\* is left with a draw that its statistics refuse.
THEOREM StoredStaysAnalysable == ReadingsSpec => []StoredIsAnalysable
<1>1. ReadingsIInv => StoredIsAnalysable
  <2> SUFFICES ASSUME ReadingsIInv, NEW s \in Scopes
               PROVE  Analysis(s[1], s[2]).status # "invalid"
    BY DEF StoredIsAnalysable
  <2>1. Analysis(s[1], s[2]).status \in {"too large", "standby", "ready"}
    BY AnalysisFields
  <2> QED
    BY <2>1
<1> QED
  BY <1>1, TableHoldsNormalised, PTL

LEMMA RecencyOfRows ==
  ASSUME ReadingsIInv, NEW l, NEW source
  PROVE  LET rows == Numbered(l, source) IN
         Recency(Ordered(rows)) =
           [n \in NumbersIn(rows) |->
              Cardinality({j \in rows : \A i \in rows : Has(i, n) => Before(i, j)})]
<1> DEFINE rows == Numbered(l, source)
<1>1. Standing(rows)
  BY RowsStand
<1>2. Range(Ordered(rows)) = rows /\ Len(Ordered(rows)) = Cardinality(rows)
  BY <1>1, OrderedRows
<1>3. ASSUME NEW n \in NumbersIn(rows)
      PROVE  Cardinality(rows) - Max(Seen(n, Ordered(rows))) =
               Cardinality({j \in rows : \A i \in rows : Has(i, n) => Before(i, j)})
  <2>1. \E i \in rows : Has(i, n)
    BY DEF NumbersIn, Has
  <2> HIDE DEF rows
  <2> QED
    BY <1>1, <2>1, LastSeen
<1> HIDE DEF rows
<1>4. Recency(Ordered(rows)) = [n \in NumbersIn(rows) |-> Cardinality(rows) - Max(Seen(n, Ordered(rows)))]
  BY <1>2 DEF Recency
<1>5. Recency(Ordered(rows)) =
        [n \in NumbersIn(rows) |->
           Cardinality({j \in rows : \A i \in rows : Has(i, n) => Before(i, j)})]
  BY <1>3, <1>4
<1> QED
  BY <1>5 DEF rows

\* The gap of a number is exact, however the draws were stored, corrected or moved.
THEOREM RecencyStaysExact == ReadingsSpec => []RecencyIsExact
<1>1. ReadingsIInv => RecencyIsExact
  <2> SUFFICES ASSUME ReadingsIInv, NEW s \in Scopes, Analysis(s[1], s[2]).status = "ready"
               PROVE  LET rows == {i \in Rows(s[1], s[2]) : HasNumbers(i)} IN
                      Analysis(s[1], s[2]).recency =
                        [n \in NumbersIn(rows) |->
                           Cardinality({j \in rows : \A i \in rows : Has(i, n) => Before(i, j)})]
    BY DEF RecencyIsExact
  <2>1. ~(Cardinality(Rows(s[1], s[2])) > MaxDraws)
    BY AnalysisFields
  <2>2. Analysis(s[1], s[2]).recency = Recency(Ordered(Numbered(s[1], s[2])))
    BY <2>1, AnalysisFields
  <2> QED
    BY <2>2, RecencyOfRows DEF Numbered
<1> QED
  BY <1>1, TableHoldsNormalised, PTL

LEMMA FrequencyOfRows ==
  ASSUME ReadingsIInv, NEW l, NEW source, NEW n \in NumbersIn(Numbered(l, source))
  PROVE  Frequency(Ordered(Numbered(l, source)))[n] =
           Cardinality({i \in Numbered(l, source) : Has(i, n)})
<1> DEFINE rows == Numbered(l, source)
           o == Ordered(rows)
           P == {i \in rows : Has(i, n)}
<1>1. Standing(rows)
  BY RowsStand
<1>2. Range(o) = rows /\ \A k \in DOMAIN o : o[k] \in rows
  BY <1>1, OrderedRows
<1>3. Seen(n, o) = {k \in DOMAIN o : o[k] \in P}
  BY <1>2 DEF Seen
<1>4. Cardinality({k \in DOMAIN o : o[k] \in P}) = Cardinality(P)
  <2>1. P \in SUBSET rows
    OBVIOUS
  <2> HIDE DEF P, rows
  <2> QED
    BY <1>1, <2>1, CountPlaces
<1>5. Frequency(o)[n] = Cardinality(Seen(n, o))
  BY <1>2 DEF Frequency
<1> QED
  BY <1>3, <1>4, <1>5

\* The overview counts every draw of every lottery once.
LEMMA OverviewIsSum ==
  ASSUME ReadingsIInv, Overview # None
  PROVE  /\ \A l \in Lotteries : Analysis(l, None).status # "too large"
         /\ Overview =
              Cardinality(UNION {{l} \X (1 .. Analysis(l, None).analyzed) : l \in Lotteries})
<1> DEFINE N(l) == Numbered(l, None)
           all == {i \in Drawn : HasNumbers(i)}
           counted == UNION {{l} \X (1 .. Cardinality(N(l))) : l \in Lotteries}
           f == [i \in all |-> <<draws[i].series[1], Place(i, N(draws[i].series[1])) + 1>>]
<1>1. /\ ~(Cardinality(Drawn) > MaxDraws) /\ Overview = Cardinality(all)
      /\ Cardinality(Drawn) \in Nat /\ MaxDraws \in Nat
  BY RowsStand, Parts, ReadingsConstants DEF Overview, Drawn
<1>2. ASSUME NEW l \in Lotteries
      PROVE  Analysis(l, None).status # "too large" /\ Analysis(l, None).analyzed = Cardinality(N(l))
  <2>1. /\ Standing(Drawn) /\ Rows(l, None) \in SUBSET Drawn /\ Standing(N(l))
    BY RowsStand
  <2>2. ~(Cardinality(Rows(l, None)) > MaxDraws)
    <3>1. Cardinality(Rows(l, None)) \in Nat /\ Cardinality(Rows(l, None)) <= Cardinality(Drawn)
      BY <2>1, Parts
    <3> QED
      BY <1>1, <3>1
  <2>3. Len(Ordered(N(l))) = Cardinality(N(l))
    BY <2>1, OrderedRows
  <2> HIDE DEF N
  <2>4. Analysis(l, None).analyzed = Len(Ordered(N(l))) /\ Analysis(l, None).status # "too large"
    BY <2>2, AnalysisFields DEF N
  <2> QED
    BY <2>3, <2>4
<1>3. ASSUME NEW i \in all
      PROVE  /\ draws[i].series[1] \in Lotteries
             /\ i \in N(draws[i].series[1])
  <2>1. i \in RowIds /\ draws[i] \in Row /\ draws[i] # None /\ HasNumbers(i)
    BY DEF Drawn, ReadingsIInv
  <2> QED
    BY <2>1 DEF Row, Series, Numbered, Rows
<1>4. ASSUME NEW l \in Lotteries, NEW i \in N(l)
      PROVE  i \in all /\ draws[i].series[1] = l
  BY DEF Numbered, Rows, Drawn
<1>5. \A l \in Lotteries : Standing(N(l))
  BY RowsStand
<1> HIDE DEF N, all
<1>6. f \in [all -> counted]
  <2> SUFFICES ASSUME NEW i \in all PROVE f[i] \in counted
    OBVIOUS
  <2>1. PICK l \in Lotteries : l = draws[i].series[1] /\ i \in N(l)
    BY <1>3
  <2>2. Place(i, N(l)) + 1 \in 1 .. Cardinality(N(l))
    BY <1>5, <2>1, OrderedRows
  <2> QED
    BY <2>1, <2>2
<1>7. ASSUME NEW i \in all, NEW j \in all, f[i] = f[j] PROVE i = j
  <2>1. PICK l \in Lotteries : l = draws[i].series[1] /\ i \in N(l) /\ l = draws[j].series[1] /\ j \in N(l)
    BY <1>3, <1>7
  <2>2. Place(i, N(l)) + 1 = Place(j, N(l)) + 1
    BY <1>7, <2>1
  <2>3. Place(i, N(l)) \in Int /\ Place(j, N(l)) \in Int
    BY <1>5, <2>1, PlaceRange
  <2>4. Place(i, N(l)) = Place(j, N(l))
    BY <2>2, <2>3
  <2> QED
    BY <1>5, <2>1, <2>4, PlaceOrders
<1>8. ASSUME NEW c \in counted PROVE \E i \in all : f[i] = c
  <2>1. PICK l \in Lotteries : \E k \in 1 .. Cardinality(N(l)) : c = <<l, k>>
    OBVIOUS
  <2>a. PICK k \in 1 .. Cardinality(N(l)) : c = <<l, k>>
    BY <2>1
  <2>2. PICK i \in N(l) : Place(i, N(l)) = k - 1
    <3>1. Cardinality(N(l)) \in Nat
      BY <1>5, Parts
    <3>2. k - 1 \in 0 .. Cardinality(N(l)) - 1
      BY <3>1
    <3> QED
      BY <1>5, <3>2, EveryPlace
  <2>3. f[i] = <<l, k>>
    BY <1>4, <2>2
  <2> QED
    BY <1>4, <2>a, <2>3
<1>9. f \in Injection(all, counted) /\ f \in Surjection(all, counted)
  BY <1>6, <1>7, <1>8 DEF Injection, IsInjective, Surjection
<1>10. IsFiniteSet(all)
  BY FS_Subset DEF all, ReadingsIInv
<1>11. Cardinality(counted) = Cardinality(all)
  <2> HIDE DEF f, counted
  <2> QED
    BY <1>9, <1>10, FS_Surjection
<1>12. UNION {{l} \X (1 .. Analysis(l, None).analyzed) : l \in Lotteries} = counted
  BY <1>2
<1> QED
  BY <1>1, <1>2, <1>11, <1>12

\* An analysis that answers has counted every draw with numbers, and the overview
\* is the sum of the analyses.
THEOREM NothingIsLeftOut == ReadingsSpec => []NothingLeftOut
<1>1. ReadingsIInv => NothingLeftOut
  <2> SUFFICES ASSUME ReadingsIInv PROVE NothingLeftOut
    OBVIOUS
  <2>1. ASSUME NEW s \in Scopes
        PROVE  LET analysis == Analysis(s[1], s[2])
                   rows == {i \in Rows(s[1], s[2]) : HasNumbers(i)} IN
               /\ analysis.status = "too large" <=> Cardinality(Rows(s[1], s[2])) > MaxDraws
               /\ analysis.status \in {"ready", "standby"} =>
                    /\ analysis.analyzed = Cardinality(rows)
                    /\ \A n \in NumbersIn(rows) :
                         analysis.frequency[n] = Cardinality({i \in rows : Has(i, n)})
    <3> DEFINE N == Numbered(s[1], s[2])
               o == Ordered(N)
               analysis == Analysis(s[1], s[2])
    <3>1. N = {i \in Rows(s[1], s[2]) : HasNumbers(i)}
      BY DEF Numbered
    <3>2. CASE Cardinality(Rows(s[1], s[2])) > MaxDraws
      BY <3>2, AnalysisFields
    <3>3. CASE ~(Cardinality(Rows(s[1], s[2])) > MaxDraws)
      <4>1. /\ analysis.status # "too large" /\ analysis.analyzed = Len(o)
            /\ analysis.frequency = Frequency(o)
        BY <3>3, AnalysisFields
      <4>2. Len(o) = Cardinality(N)
        BY RowsStand, OrderedRows
      <4>3. \A n \in NumbersIn(N) : Frequency(o)[n] = Cardinality({i \in N : Has(i, n)})
        BY FrequencyOfRows
      <4> HIDE DEF analysis, o, N
      <4>4. /\ analysis.status = "too large" <=> Cardinality(Rows(s[1], s[2])) > MaxDraws
            /\ analysis.analyzed = Cardinality(N)
            /\ \A n \in NumbersIn(N) : analysis.frequency[n] = Cardinality({i \in N : Has(i, n)})
        BY <3>3, <4>1, <4>2, <4>3
      <4> QED
        BY <3>1, <4>4 DEF analysis
    <3> QED
      BY <3>2, <3>3
  <2> QED
    BY <2>1, OverviewIsSum DEF NothingLeftOut
<1> QED
  BY <1>1, TableHoldsNormalised, PTL
-----------------------------------------------------------------------------
(* Predictions                                                             *)

\* A lottery of single numbers may be predicted whatever it has drawn.
THEOREM HistoryAlwaysFitsGame == ReadingsSpec => []HistoryFitsGame
<1>1. ReadingsIInv => HistoryFitsGame
  <2> SUFFICES ASSUME ReadingsIInv, NEW l \in Lotteries, l \notin DOMAIN Registered,
                      \A i \in History(l) : Len(draws[i].main) = 1, NEW i \in History(l)
               PROVE  Ticket(Game(l), draws[i].main)
    BY DEF HistoryFitsGame
  <2>1. History(l) \subseteq Drawn /\ \A j \in History(l) : HasNumbers(j)
    BY RowsStand DEF History, RecentDraws, Latest
  <2>2. Singles(History(l)) = Cardinality(History(l)) /\ Cardinality(History(l)) \in Nat
    <3>1. {j \in History(l) : HasNumbers(j) /\ Len(draws[j].main) = 1} = History(l)
      BY <2>1
    <3>2. IsFiniteSet(History(l))
      BY <2>1, FS_Subset DEF ReadingsIInv
    <3> QED
      BY <3>1, <3>2, FS_CardinalityType DEF Singles
  <2>3. Game(l) = SingleResult
    BY <2>2 DEF Game, SingleShare
  <2>4. Normalised(draws[i].main) /\ Len(draws[i].main) = 1
    BY <2>1 DEF HasNumbers, ReadingsIInv, Stored
  <2>5. MaxNumber \in Nat
    BY ReadingsConstants
  <2> QED
    BY <2>3, <2>4, <2>5 DEF Ticket, SingleResult, Normalised, InRange
<1> QED
  BY <1>1, TableHoldsNormalised, PTL
==============================================================================
