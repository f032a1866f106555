---------------------- MODULE IngestionSchedulerProofs ----------------------
(***************************************************************************)
(* Proofs about IngestionScheduler, for any number of processes and jobs,  *)
(* any intervals and any cycle limit below them and below RetryDelay.      *)
(***************************************************************************)
EXTENDS IngestionScheduler, TLAPS

\* What holds of each process: its cycle is recent; while it runs a job the
\* row still says what its claim wrote.
ProcOK(p) ==
  /\ stage[p] # "off" => now[p] <= clock /\ clock <= now[p] + CycleLimit
  /\ InRun(p) =>
       /\ claimed[at[p]] = now[p]
       /\ row[at[p]] # None
       /\ row[at[p]].next = now[p] + Interval[at[p]]
       /\ row[at[p]].updated = now[p]
  /\ stage[p] \in {"read", "write"} => result[p] \in Statuses /\ now[p] <= finished[p]
  /\ stage[p] = "write" => snap[p] = row[at[p]]

\* What holds of each row: how early it may be due after its last claim.
RowOK(j) ==
  claimed[j] # None =>
    /\ row[j] # None
    /\ row[j].updated >= claimed[j]
    /\ row[j].next >= claimed[j] + Sooner(Interval[j], RetryDelay)
    /\ row[j].status # "failed" => row[j].next >= claimed[j] + Interval[j]

\* The inductive invariant.
IInv ==
  /\ TypeOK
  /\ OneRunPerJob
  /\ \A p \in Procs : ProcOK(p)
  /\ \A j \in Jobs : RowOK(j)

LEMMA NoneIsNoValue == None \notin Nat /\ None \notin State
BY SchedulerAssumption

LEMMA IntervalsAreLong ==
  ASSUME NEW j \in Jobs
  PROVE  /\ Interval[j] \in Nat /\ RetryDelay \in Nat /\ CycleLimit \in Nat
         /\ CycleLimit < Sooner(Interval[j], RetryDelay)
         /\ Sooner(Interval[j], RetryDelay) <= Interval[j]
         /\ Sooner(Interval[j], RetryDelay) <= RetryDelay
         /\ Sooner(Interval[j], RetryDelay) \in Nat
BY SchedulerAssumption DEF Sooner

LEMMA InitInvariant == Init => IInv
BY SchedulerAssumption
   DEF Init, IInv, TypeOK, OneRunPerJob, ProcOK, RowOK, InRun, Running, Stages, Statuses, Jobs

\* A row is not due while a process runs its job.
LEMMA RunningIsNotDue ==
  ASSUME IInv, NEW p \in Procs, NEW q \in Procs,
         InRun(q), stage[p] # "off", at[p] = at[q]
  PROVE  row[at[p]] # None /\ Due(row[at[p]]) > now[p]
<1> DEFINE j == at[q]
           r == row[j]
<1>1. j \in Jobs /\ now[p] \in Nat /\ now[q] \in Nat /\ clock \in Nat
  BY DEF IInv, TypeOK
<1>2. /\ r # None /\ r.next = now[q] + Interval[j] /\ r.updated = now[q]
      /\ stage[q] # "off"
  BY DEF IInv, ProcOK, InRun, Running
<1>3. now[p] <= clock /\ clock <= now[q] + CycleLimit
  BY <1>2 DEF IInv, ProcOK
<1>4. Due(r) > now[p]
  BY <1>1, <1>2, <1>3, IntervalsAreLong DEF Due, Sooner
<1> QED
  BY <1>2, <1>4
-----------------------------------------------------------------------------
(* Every step keeps the inductive invariant *)

\* A step of p that touches no row and brings p into no run.
LEMMA ProcessStep ==
  ASSUME IInv, TypeOK', NEW p \in Procs,
         UNCHANGED <<clock, row, claimed>>,
         \A q \in Procs \ {p} :
           /\ stage'[q] = stage[q] /\ at'[q] = at[q] /\ now'[q] = now[q]
           /\ result'[q] = result[q] /\ finished'[q] = finished[q] /\ snap'[q] = snap[q],
         ~InRun(p)',
         stage'[p] # "off" => now'[p] <= clock /\ clock <= now'[p] + CycleLimit
  PROVE  IInv'
<1>1. OneRunPerJob'
  BY DEF IInv, OneRunPerJob, InRun
<1>2. ASSUME NEW q \in Procs PROVE ProcOK(q)'
  <2>1. CASE q = p
    BY <2>1 DEF ProcOK, InRun, Running
  <2>2. CASE q # p
    BY <2>2 DEF IInv, ProcOK, InRun
  <2> QED
    BY <2>1, <2>2
<1>3. ASSUME NEW j \in Jobs PROVE RowOK(j)'
  BY DEF IInv, RowOK
<1> QED
  BY <1>1, <1>2, <1>3 DEF IInv

LEMMA ClaimKeeps ==
  ASSUME IInv, NEW p \in Procs, NEW st \in Statuses \cup {"none"},
         stage[p] \in {"select", "insert"},
         row[at[p]] = None \/ Due(row[at[p]]) <= now[p],
         Claim(p, st),
         UNCHANGED <<clock, result, finished, snap, crashes>>
  PROVE  IInv'
<1> DEFINE j == at[p]
<1>1. /\ j \in Jobs /\ now[p] \in Nat /\ clock \in Nat
      /\ stage[p] # "off" /\ ~InRun(p)
  BY DEF IInv, TypeOK, InRun, Running
<1>2. /\ row' = [row EXCEPT ![j] =
           [next |-> now[p] + Interval[j], updated |-> now[p], status |-> st]]
      /\ claimed' = [claimed EXCEPT ![j] = now[p]]
      /\ stage' = [stage EXCEPT ![p] = "run"]
      /\ UNCHANGED <<at, now>>
  BY DEF Claim, Goto
<1>3. ASSUME NEW q \in Procs, q # p, InRun(q), at[q] = j PROVE FALSE
  <2>1. row[j] # None /\ Due(row[j]) > now[p]
    BY <1>1, <1>3, RunningIsNotDue
  <2>2. row[j] \in State
    BY <1>1, <2>1 DEF IInv, TypeOK
  <2>3. Due(row[j]) \in Int
    BY <2>2, SchedulerAssumption DEF Due, Sooner, State
  <2> QED
    BY <1>1, <2>1, <2>3
<1>4. [next |-> now[p] + Interval[j], updated |-> now[p], status |-> st] \in State
  BY <1>1, IntervalsAreLong DEF State
<1>5. TypeOK'
  BY <1>1, <1>2, <1>4 DEF IInv, TypeOK, Stages, Running
<1>6. OneRunPerJob'
  BY <1>1, <1>2, <1>3 DEF IInv, TypeOK, OneRunPerJob, InRun
<1>7. ASSUME NEW q \in Procs PROVE ProcOK(q)'
  <2>1. CASE q = p
    <3>1. stage'[q] = "run"
      BY <1>2, <2>1 DEF IInv, TypeOK
    <3>2. /\ row'[j] = [next |-> now[p] + Interval[j], updated |-> now[p], status |-> st]
          /\ claimed'[j] = now[p]
      BY <1>1, <1>2 DEF IInv, TypeOK
    <3>3. row'[j] # None
      BY <1>4, <3>2, NoneIsNoValue
    <3> QED
      BY <1>1, <1>2, <2>1, <3>1, <3>2, <3>3 DEF IInv, ProcOK
  <2>2. CASE q # p
    <3>1. stage'[q] = stage[q]
      BY <1>2, <2>2 DEF IInv, TypeOK
    <3>2. InRun(q) => at[q] # j /\ row'[at[q]] = row[at[q]] /\ claimed'[at[q]] = claimed[at[q]]
      BY <1>2, <1>3, <2>2 DEF IInv, TypeOK
    <3> QED
      BY <1>2, <3>1, <3>2 DEF IInv, ProcOK, InRun, Running
  <2> QED
    BY <2>1, <2>2
<1>8. ASSUME NEW k \in Jobs PROVE RowOK(k)'
  <2>1. CASE k = j
    <3>1. /\ row'[j] = [next |-> now[p] + Interval[j], updated |-> now[p], status |-> st]
          /\ claimed'[j] = now[p]
      BY <1>1, <1>2 DEF IInv, TypeOK
    <3>2. row'[j] # None
      BY <1>4, <3>1, NoneIsNoValue
    <3> QED
      BY <1>1, <2>1, <3>1, <3>2, IntervalsAreLong DEF RowOK
  <2>2. CASE k # j
    BY <1>2, <2>2 DEF IInv, TypeOK, RowOK
  <2> QED
    BY <2>1, <2>2
<1> QED
  BY <1>5, <1>6, <1>7, <1>8 DEF IInv

LEMMA AdvanceType ==
  ASSUME TypeOK, NEW p \in Procs, Advance(p)
  PROVE  /\ stage' \in [Procs -> Stages] /\ at' \in [Procs -> Jobs] /\ now' \in [Procs -> Nat]
         /\ \A q \in Procs \ {p} : stage'[q] = stage[q] /\ at'[q] = at[q] /\ now'[q] = now[q]
         /\ stage'[p] \in {"off", "select"}
         /\ stage'[p] # "off" => now'[p] = now[p]
<1>1. 1 \in Jobs /\ (at[p] # LastJob => at[p] + 1 \in Jobs)
  BY SchedulerAssumption DEF TypeOK, Jobs
<1>2. CASE at[p] = LastJob
  BY <1>1, <1>2 DEF Advance, Leave, Goto, TypeOK, Stages
<1>3. CASE at[p] # LastJob
  BY <1>1, <1>3 DEF Advance, Goto, TypeOK, Stages
<1> QED
  BY <1>2, <1>3

LEMMA StartKeeps ==
  ASSUME IInv, NEW p \in Procs, Start(p)
  PROVE  IInv'
<1>1. 1 \in Jobs
  BY SchedulerAssumption DEF Jobs
<1>2. TypeOK'
  BY <1>1 DEF IInv, TypeOK, Start, Goto, Stages
<1>3. stage'[p] = "select" /\ now'[p] = clock /\ clock \in Nat /\ CycleLimit \in Nat
  BY SchedulerAssumption DEF IInv, TypeOK, Start, Goto
<1>4. ~InRun(p)'
  BY <1>3 DEF InRun, Running
<1> QED
  BY <1>2, <1>3, <1>4, ProcessStep DEF Start, Goto, IInv, TypeOK

LEMMA SelectKeeps ==
  ASSUME IInv, NEW p \in Procs, Select(p)
  PROVE  IInv'
<1>1. CASE Advance(p) /\ UNCHANGED <<row, claimed>>
  <2>1. TypeOK'
    BY <1>1, AdvanceType DEF IInv, TypeOK, Select
  <2>2. ~InRun(p)'
    BY <1>1, AdvanceType DEF IInv, InRun, Running
  <2>3. stage'[p] # "off" => now'[p] <= clock /\ clock <= now'[p] + CycleLimit
    BY <1>1, AdvanceType DEF IInv, ProcOK, Select
  <2> QED
    BY <1>1, <2>1, <2>2, <2>3, AdvanceType, ProcessStep DEF IInv, Select
<1>2. CASE Goto(p, "insert") /\ UNCHANGED <<at, now, row, claimed>>
  <2>1. TypeOK'
    BY <1>2 DEF IInv, TypeOK, Select, Goto, Stages
  <2>2. stage'[p] = "insert"
    BY <1>2 DEF IInv, TypeOK, Goto
  <2>3. ~InRun(p)'
    BY <2>2 DEF InRun, Running
  <2>4. now'[p] <= clock /\ clock <= now'[p] + CycleLimit
    BY <1>2 DEF IInv, ProcOK, Select
  <2>5. \A q \in Procs \ {p} : stage'[q] = stage[q]
    BY <1>2 DEF IInv, TypeOK, Goto
  <2> QED
    BY <1>2, <2>1, <2>3, <2>4, <2>5, ProcessStep DEF IInv, Select
<1>3. CASE row[at[p]] # None /\ Due(row[at[p]]) <= now[p] /\ Claim(p, row[at[p]].status)
  <2>1. row[at[p]].status \in Statuses \cup {"none"}
    BY <1>3 DEF IInv, TypeOK, State
  <2> QED
    BY <1>3, <2>1, ClaimKeeps DEF Select
<1> QED
  BY <1>1, <1>2, <1>3 DEF Select

LEMMA InsertKeeps ==
  ASSUME IInv, NEW p \in Procs, Insert(p)
  PROVE  IInv'
<1>1. CASE row[at[p]] = None /\ Claim(p, "none")
  BY <1>1, ClaimKeeps DEF Insert
<1>2. CASE Goto(p, "aborted") /\ UNCHANGED <<at, now, row, claimed>>
  <2>1. TypeOK'
    BY <1>2 DEF IInv, TypeOK, Insert, Goto, Stages
  <2>2. stage'[p] = "aborted"
    BY <1>2 DEF IInv, TypeOK, Goto
  <2>3. ~InRun(p)'
    BY <2>2 DEF InRun, Running
  <2>4. now'[p] <= clock /\ clock <= now'[p] + CycleLimit
    BY <1>2 DEF IInv, ProcOK, Insert
  <2>5. \A q \in Procs \ {p} : stage'[q] = stage[q]
    BY <1>2 DEF IInv, TypeOK, Goto
  <2> QED
    BY <1>2, <2>1, <2>3, <2>4, <2>5, ProcessStep DEF IInv, Insert
<1> QED
  BY <1>1, <1>2 DEF Insert

LEMMA FinishKeeps ==
  ASSUME IInv, NEW p \in Procs, NEW st \in Statuses, Finish(p, st)
  PROVE  IInv'
<1>1. TypeOK'
  BY DEF IInv, TypeOK, Finish, Goto, Stages, Running
<1>2. /\ InRun(p) /\ stage'[p] = "read" /\ result'[p] = st /\ finished'[p] = clock
      /\ now[p] <= clock
  BY DEF IInv, TypeOK, ProcOK, Finish, Goto, InRun, Running
<1>3. \A q \in Procs : InRun(q)' <=> InRun(q)
  BY <1>2 DEF IInv, TypeOK, Finish, Goto, InRun, Running
<1>4. OneRunPerJob'
  BY <1>3 DEF IInv, OneRunPerJob, Finish
<1>5. ASSUME NEW q \in Procs PROVE ProcOK(q)'
  <2>1. CASE q = p
    BY <1>2, <2>1 DEF IInv, ProcOK, Finish, InRun, Running
  <2>2. CASE q # p
    BY <2>2 DEF IInv, TypeOK, ProcOK, Finish, Goto, InRun
  <2> QED
    BY <2>1, <2>2
<1>6. ASSUME NEW j \in Jobs PROVE RowOK(j)'
  BY DEF IInv, RowOK, Finish
<1> QED
  BY <1>1, <1>4, <1>5, <1>6 DEF IInv

LEMMA ReadStateKeeps ==
  ASSUME IInv, NEW p \in Procs, ReadState(p)
  PROVE  IInv'
<1>1. TypeOK'
  BY DEF IInv, TypeOK, ReadState, Goto, Stages, Running
<1>2. InRun(p) /\ stage'[p] = "write" /\ snap'[p] = row[at[p]]
  BY DEF IInv, TypeOK, ReadState, Goto, InRun, Running
<1>3. \A q \in Procs : InRun(q)' <=> InRun(q)
  BY <1>2 DEF IInv, TypeOK, ReadState, Goto, InRun, Running
<1>4. OneRunPerJob'
  BY <1>3 DEF IInv, OneRunPerJob, ReadState
<1>5. ASSUME NEW q \in Procs PROVE ProcOK(q)'
  <2>1. CASE q = p
    BY <1>2, <2>1 DEF IInv, ProcOK, ReadState, InRun, Running
  <2>2. CASE q # p
    BY <2>2 DEF IInv, TypeOK, ProcOK, ReadState, Goto, InRun
  <2> QED
    BY <2>1, <2>2
<1>6. ASSUME NEW j \in Jobs PROVE RowOK(j)'
  BY DEF IInv, RowOK, ReadState
<1> QED
  BY <1>1, <1>4, <1>5, <1>6 DEF IInv

\* The write finds the row as it was read, and writes what it wants.
LEMMA WrittenRow ==
  ASSUME IInv, NEW p \in Procs, WriteState(p)
  PROVE  /\ Recorded(p) \in State
         /\ row' = [row EXCEPT ![at[p]] = Recorded(p)]
         /\ Recorded(p).status = result[p]
         /\ Recorded(p).updated = finished[p]
         /\ result[p] = "success" => Recorded(p).next = now[p] + Interval[at[p]]
         /\ result[p] = "failed" =>
              Recorded(p).next = Sooner(now[p] + Interval[at[p]], finished[p] + RetryDelay)
<1>1. /\ at[p] \in Jobs /\ row[at[p]] \in State /\ snap[p] = row[at[p]]
      /\ result[p] \in Statuses /\ finished[p] \in Nat /\ now[p] \in Nat
      /\ row[at[p]].next = now[p] + Interval[at[p]]
  BY DEF IInv, TypeOK, ProcOK, InRun, Running, WriteState
<1>2. /\ Recorded(p).next \in Nat
      /\ result[p] = "success" => Recorded(p).next = now[p] + Interval[at[p]]
      /\ result[p] = "failed" =>
              Recorded(p).next = Sooner(now[p] + Interval[at[p]], finished[p] + RetryDelay)
  BY <1>1, IntervalsAreLong DEF Recorded, Sooner, Statuses
<1>3. /\ Recorded(p).status = result[p] /\ Recorded(p).updated = finished[p]
      /\ Recorded(p) = [next |-> Recorded(p).next, updated |-> finished[p], status |-> result[p]]
  BY DEF Recorded
<1>4. Recorded(p) \in State
  BY <1>1, <1>2, <1>3 DEF State
<1> DEFINE r == Recorded(p)
<1> HIDE DEF r
<1>5. /\ Pick(row[at[p]].next, snap[p].next, r.next) = r.next
      /\ Pick(row[at[p]].updated, snap[p].updated, r.updated) = r.updated
      /\ Pick(row[at[p]].status, snap[p].status, r.status) = r.status
  BY <1>1 DEF Pick
<1>6. r = [next |-> r.next, updated |-> r.updated, status |-> r.status]
  BY <1>4 DEF State, r
<1>7. row' = [row EXCEPT ![at[p]] = r]
  BY <1>5, <1>6 DEF WriteState, r
<1> QED
  BY <1>2, <1>3, <1>4, <1>7 DEF r

LEMMA WriteStateKeeps ==
  ASSUME IInv, NEW p \in Procs, WriteState(p)
  PROVE  IInv'
<1> DEFINE j == at[p]
           r == Recorded(p)
<1>1. /\ r \in State /\ row' = [row EXCEPT ![j] = r] /\ r # None
      /\ UNCHANGED <<clock, crashes, claimed>>
  BY WrittenRow, NoneIsNoValue DEF WriteState
<1>2. /\ j \in Jobs /\ now[p] \in Nat /\ finished[p] \in Nat /\ now[p] <= finished[p]
      /\ claimed[j] = now[p] /\ InRun(p) /\ result[p] \in Statuses
  BY DEF IInv, TypeOK, ProcOK, InRun, Running, WriteState
<1>3. Advance(p) /\ ForgetRun(p)
  BY DEF WriteState
<1>4. TypeOK'
  BY <1>1, <1>2, <1>3, AdvanceType DEF IInv, TypeOK, ForgetRun
<1>5. ~InRun(p)'
  BY <1>3, AdvanceType DEF IInv, InRun, Running
<1>6. \A q \in Procs \ {p} :
        /\ stage'[q] = stage[q] /\ at'[q] = at[q] /\ now'[q] = now[q]
        /\ result'[q] = result[q] /\ finished'[q] = finished[q] /\ snap'[q] = snap[q]
  BY <1>3, AdvanceType DEF IInv, TypeOK, ForgetRun
<1>7. OneRunPerJob'
  BY <1>5, <1>6 DEF IInv, OneRunPerJob, InRun
<1>8. ASSUME NEW q \in Procs PROVE ProcOK(q)'
  <2>1. CASE q = p
    BY <1>1, <1>3, <1>5, <2>1, AdvanceType DEF IInv, ProcOK, InRun, Running, WriteState
  <2>2. CASE q # p
    <3>1. InRun(q) => at[q] # j
      BY <1>2, <2>2 DEF IInv, OneRunPerJob
    <3>2. InRun(q) => row'[at[q]] = row[at[q]]
      BY <1>1, <3>1 DEF IInv, TypeOK
    <3> QED
      BY <1>1, <1>6, <2>2, <3>2 DEF IInv, ProcOK, InRun, Running
  <2> QED
    BY <2>1, <2>2
<1>9. ASSUME NEW k \in Jobs PROVE RowOK(k)'
  <2>1. CASE k = j
    <3>1. row'[j] = r /\ claimed'[j] = now[p]
      BY <1>1, <1>2 DEF IInv, TypeOK
    <3>2. /\ r.updated >= now[p]
          /\ r.next >= now[p] + Sooner(Interval[j], RetryDelay)
          /\ r.status # "failed" => r.next >= now[p] + Interval[j]
      <4> HIDE DEF r
      <4>1. /\ r.status = result[p] /\ r.updated = finished[p]
            /\ result[p] = "success" => r.next = now[p] + Interval[j]
            /\ result[p] = "failed" => r.next = Sooner(now[p] + Interval[j], finished[p] + RetryDelay)
        BY WrittenRow DEF r
      <4> QED
        BY <1>2, <4>1, IntervalsAreLong DEF Sooner, Statuses
    <3> QED
      BY <1>1, <2>1, <3>1, <3>2 DEF RowOK
  <2>2. CASE k # j
    BY <1>1, <2>2 DEF IInv, TypeOK, RowOK
  <2> QED
    BY <2>1, <2>2
<1> QED
  BY <1>4, <1>7, <1>8, <1>9 DEF IInv

LEMMA LeaveKeeps ==
  ASSUME IInv, NEW p \in Procs, Exit(p) \/ Crash(p)
  PROVE  IInv'
<1>1. Leave(p) /\ UNCHANGED <<clock, row, claimed>>
  BY DEF Exit, Crash
<1>2. 1 \in Jobs
  BY SchedulerAssumption DEF Jobs
<1>3. CASE Exit(p)
  <2>1. TypeOK'
    BY <1>1, <1>2, <1>3 DEF IInv, TypeOK, Leave, Goto, Stages, Exit
  <2> QED
    BY <1>1, <1>3, <2>1, ProcessStep DEF IInv, TypeOK, Leave, Goto, Exit, InRun, Running
<1>4. CASE Crash(p)
  <2>1. TypeOK'
    BY <1>1, <1>2, <1>4 DEF IInv, TypeOK, Leave, Goto, Stages, Crash, ForgetRun
  <2> QED
    BY <1>1, <1>4, <2>1, ProcessStep DEF IInv, TypeOK, Leave, Goto, Crash, ForgetRun, InRun, Running
<1> QED
  BY <1>3, <1>4

LEMMA TickKeeps ==
  ASSUME IInv, Tick
  PROVE  IInv'
<1>1. TypeOK'
  BY DEF IInv, TypeOK, Tick
<1>2. OneRunPerJob'
  BY DEF IInv, OneRunPerJob, InRun, Tick
<1>3. ASSUME NEW q \in Procs PROVE ProcOK(q)'
  BY SchedulerAssumption DEF IInv, TypeOK, ProcOK, InRun, Tick
<1>4. ASSUME NEW j \in Jobs PROVE RowOK(j)'
  BY DEF IInv, RowOK, Tick
<1> QED
  BY <1>1, <1>2, <1>3, <1>4 DEF IInv

LEMMA NextKeeps == IInv /\ [Next]_vars => IInv'
<1> SUFFICES ASSUME IInv, [Next]_vars PROVE IInv'
  OBVIOUS
<1>1. ASSUME NEW p \in Procs, Start(p) \/ Crash(p) PROVE IInv'
  BY <1>1, StartKeeps, LeaveKeeps
<1>2. ASSUME NEW p \in Procs, Work(p) PROVE IInv'
  BY <1>2, SelectKeeps, InsertKeeps, FinishKeeps, ReadStateKeeps, WriteStateKeeps, LeaveKeeps
     DEF Work
<1>3. CASE UNCHANGED vars
  BY <1>3 DEF vars, IInv, TypeOK, OneRunPerJob, ProcOK, RowOK, InRun
<1> QED
  BY <1>1, <1>2, <1>3, TickKeeps DEF Next
-----------------------------------------------------------------------------
(* Theorems *)

THEOREM Invariance == Spec => []IInv
BY InitInvariant, NextKeeps, PTL DEF Spec

\* The rows and the processes keep their types; no due time is ever negative.
THEOREM TypeCorrect == Spec => []TypeOK
BY Invariance, PTL DEF IInv

\* The claim excludes: no two processes are in a run of one job, however many
\* there are, as long as cycles are shorter than every interval and RetryDelay.
THEOREM Exclusion == Spec => []OneRunPerJob
BY Invariance, PTL DEF IInv
-----------------------------------------------------------------------------
(* The two action properties *)

\* The shortest time between two claims of j, given its row before the second.
Gap(j) == IF row[j].status = "success" THEN Interval[j]
          ELSE Sooner(Interval[j], RetryDelay)

LEMMA DueAfterGap ==
  ASSUME IInv, NEW j \in Jobs, claimed[j] # None
  PROVE  row[j] \in State /\ Due(row[j]) >= claimed[j] + Gap(j)
<1>1. row[j] \in State /\ claimed[j] \in Nat
  BY DEF IInv, TypeOK, RowOK
<1> QED
  BY <1>1, IntervalsAreLong DEF IInv, RowOK, Due, Gap, Sooner, State, Statuses

\* claimed changes only in a claim, and a claim finds the row due or missing.
LEMMA ClaimStep ==
  ASSUME IInv, [Next]_vars, NEW j \in Jobs, claimed'[j] # claimed[j]
  PROVE  \E p \in Procs : /\ at[p] = j
                          /\ claimed'[j] = now[p]
                          /\ row[j] = None \/ Due(row[j]) <= now[p]
<1>1. ASSUME NEW p \in Procs, NEW st, Claim(p, st) PROVE at[p] = j /\ claimed'[j] = now[p]
  BY <1>1 DEF Claim, IInv, TypeOK
<1>2. ASSUME NEW p \in Procs, Select(p)
      PROVE  at[p] = j /\ claimed'[j] = now[p] /\ Due(row[j]) <= now[p]
  BY <1>1, <1>2 DEF Select
<1>3. ASSUME NEW p \in Procs, Insert(p)
      PROVE  at[p] = j /\ claimed'[j] = now[p] /\ row[j] = None
  BY <1>1, <1>3 DEF Insert
<1>4. \E p \in Procs : Select(p) \/ Insert(p)
  BY DEF Next, Work, vars, Start, Finish, ReadState, WriteState, Crash, Exit, Tick
<1> QED
  BY <1>2, <1>3, <1>4

\* No job is claimed again too early, whatever happened to the run in between.
THEOREM Spacing == Spec => ClaimsSpaced
<1>1. IInv /\ [Next]_vars =>
        [\A j \in Jobs :
           claimed'[j] # claimed[j] /\ claimed[j] # None =>
             claimed'[j] >= claimed[j] +
               IF row[j].status = "success" THEN Interval[j]
               ELSE Sooner(Interval[j], RetryDelay)]_vars
  <2> SUFFICES ASSUME IInv, [Next]_vars, NEW j \in Jobs,
                      claimed'[j] # claimed[j], claimed[j] # None
               PROVE  claimed'[j] >= claimed[j] + Gap(j)
    BY DEF Gap
  <2>1. PICK p \in Procs : claimed'[j] = now[p] /\ (row[j] = None \/ Due(row[j]) <= now[p])
    BY ClaimStep
  <2>2. row[j] \in State /\ Due(row[j]) >= claimed[j] + Gap(j) /\ row[j] # None
    BY DueAfterGap, NoneIsNoValue
  <2>3. claimed[j] \in Nat /\ now[p] \in Nat /\ Gap(j) \in Nat
    BY IntervalsAreLong DEF IInv, TypeOK, Gap
  <2>4. Due(row[j]) \in Int
    BY <2>2, SchedulerAssumption DEF Due, Sooner, State
  <2> QED
    BY <2>1, <2>2, <2>3, <2>4
<1> QED
  BY <1>1, Invariance, PTL DEF Spec, ClaimsSpaced

\* The steps that leave "write".
LEMMA LeavingWrite ==
  ASSUME IInv, [Next]_vars, NEW p \in Procs,
         stage[p] = "write", stage'[p] # "write", crashes' = crashes
  PROVE  WriteState(p)
<1>1. ASSUME NEW q \in Procs, q # p, Start(q) \/ Work(q) \/ Crash(q) PROVE FALSE
  BY <1>1, AdvanceType DEF IInv, TypeOK, Start, Work, Crash, Select, Insert, Finish, ReadState,
       WriteState, Exit, Goto, Leave, Claim
<1>2. Start(p) \/ Work(p) \/ Crash(p)
  BY <1>1 DEF Next, vars, Tick
<1>3. ~Crash(p)
  BY DEF Crash, IInv, TypeOK
<1> QED
  BY <1>2, <1>3 DEF Start, Work, Select, Insert, Finish, ReadState, Exit

\* No update of a row is lost between the unlocked read and the write.
THEOREM Recording == Spec => ResultRecorded
<1>1. IInv /\ [Next]_vars =>
        [\A p \in Procs :
           stage[p] = "write" /\ stage'[p] # "write" /\ crashes' = crashes =>
             LET r == row'[at[p]] IN
               /\ r.status = result[p]
               /\ r.updated = finished[p]
               /\ result[p] = "success" => r.next = claimed[at[p]] + Interval[at[p]]
               /\ result[p] = "failed" => r.next <= finished[p] + RetryDelay]_vars
  <2> SUFFICES ASSUME IInv, [Next]_vars, NEW p \in Procs,
                      stage[p] = "write", stage'[p] # "write", crashes' = crashes
               PROVE  LET r == row'[at[p]] IN
                        /\ r.status = result[p]
                        /\ r.updated = finished[p]
                        /\ result[p] = "success" => r.next = claimed[at[p]] + Interval[at[p]]
                        /\ result[p] = "failed" => r.next <= finished[p] + RetryDelay
    OBVIOUS
  <2>1. WriteState(p)
    BY LeavingWrite
  <2>2. /\ at[p] \in Jobs /\ claimed[at[p]] = now[p] /\ now[p] \in Nat /\ finished[p] \in Nat
    BY DEF IInv, TypeOK, ProcOK, InRun, Running
  <2>3. row'[at[p]] = Recorded(p)
    BY <2>1, <2>2, WrittenRow DEF IInv, TypeOK
  <2>4. Sooner(now[p] + Interval[at[p]], finished[p] + RetryDelay) <= finished[p] + RetryDelay
    BY <2>2, IntervalsAreLong DEF Sooner
  <2> QED
    BY <2>1, <2>2, <2>3, <2>4, WrittenRow
<1> QED
  BY <1>1, Invariance, PTL DEF Spec, ResultRecorded
=============================================================================
