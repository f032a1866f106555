----------------------- MODULE ControlledSchedulerProofs -----------------------
(***************************************************************************)
(* Whatever the tables of schedules, the pages, the processes and the      *)
(* deletions: a cycle has one attempt for every group, no draw is credited *)
(* twice, and only ready lotteries get draws.                              *)
(***************************************************************************)
EXTENDS ControlledScheduler, FiniteSetTheorems, WellFoundedInduction, TLAPS

USE DEF OrdinaryType

-----------------------------------------------------------------------------
(* The groups                                                              *)

\* A set of naturals has a least element, which Min chooses.
LEMMA LeastOfNaturals ==
  ASSUME NEW S \in SUBSET Nat, S # {}
  PROVE  Min(S) \in S
<1> DEFINE Less == {ss \in Nat \X Nat : ss[1] < ss[2]}
<1>1. IsWellFoundedOn(Less, Nat)
  BY NatLessThanWellFounded DEF OpToRel
<1>2. PICK x \in S : \A y \in S : ~ (<<y, x>> \in Less)
  BY <1>1, WFMin, Zenon
<1>3. ASSUME NEW y \in S, y < x PROVE FALSE
  <2> DEFINE pair == <<y, x>>
  <2>1. pair \in Nat \X Nat /\ pair[1] = y /\ pair[2] = x
    OBVIOUS
  <2> HIDE DEF pair
  <2>2. pair \in Less
    BY <1>3, <2>1
  <2> QED BY <1>2, <2>2 DEF pair
<1>4. \A y \in S : x <= y
  BY <1>3
<1> QED BY <1>4 DEF Min

LEMMA GroupsArePositions ==
  /\ Positions \subseteq Nat
  /\ Groups \subseteq Positions
<1>1. Fixed \in Seq(ScheduledDraw) /\ Catalog \in Seq(CatalogEntry)
  BY ControlledAssumption
<1> DEFINE S == ScheduledDraw
           C == CatalogEntry
<1>2. Fixed \in Seq(S) /\ Catalog \in Seq(C)
  BY <1>1
<1> HIDE DEF S, C
<1>3. DOMAIN Fixed \subseteq Nat /\ DOMAIN Catalog \subseteq Nat /\ Len(Fixed) \in Nat
  BY <1>2
<1>4. Positions \subseteq Nat
  BY <1>3 DEF Positions, ReadyEntries
<1> QED BY <1>4 DEF Groups

\* The schedule at a position that the catalog fills is the rule of its entry.
LEMMA RuleOfEntry ==
  ASSUME NEW j \in ReadyEntries
  PROVE  AllSchedules[Len(Fixed) + j] = CalendarRule(Catalog[j])
<1> DEFINE S == ScheduledDraw
           C == CatalogEntry
           rules == [i \in DOMAIN Catalog |-> CalendarRule(Catalog[i])]
<1>1. Fixed \in Seq(S) /\ Catalog \in Seq(C)
  BY ControlledAssumption
<1> HIDE DEF S, C
<1>2. Len(Catalog) \in Nat /\ DOMAIN Catalog = 1 .. Len(Catalog)
  BY <1>1
<1>3. rules \in Seq({CalendarRule(Catalog[i]) : i \in DOMAIN Catalog}) /\ Len(rules) = Len(Catalog)
  BY <1>2
<1>4. j \in 1 .. Len(Catalog)
  BY <1>2 DEF ReadyEntries
<1> DEFINE R == {CalendarRule(Catalog[i]) : i \in DOMAIN Catalog}
<1>5. rules \in Seq(R)
  BY <1>3
<1>6. rules[j] = CalendarRule(Catalog[j])
  BY <1>4, <1>2
<1>7. AllSchedules = Fixed \o rules
  BY DEF AllSchedules
<1> HIDE DEF rules, R
<1>8. (Fixed \o rules)[Len(Fixed) + j] = rules[j]
  BY <1>1, <1>3, <1>4, <1>5
<1> QED BY <1>6, <1>7, <1>8

LEMMA FixedRules ==
  ASSUME NEW i \in DOMAIN Fixed
  PROVE  AllSchedules[i] = Fixed[i]
<1> DEFINE S == ScheduledDraw
           C == CatalogEntry
           rules == [k \in DOMAIN Catalog |-> CalendarRule(Catalog[k])]
           R == {CalendarRule(Catalog[k]) : k \in DOMAIN Catalog}
<1>1. Fixed \in Seq(S) /\ Catalog \in Seq(C)
  BY ControlledAssumption
<1> HIDE DEF S, C
<1>2. rules \in Seq(R)
  BY <1>1
<1>3. AllSchedules = Fixed \o rules
  BY DEF AllSchedules
<1> HIDE DEF rules, R
<1> QED BY <1>1, <1>2, <1>3

\* What a draw may be stored for.
Storable(code) ==
  \E i \in DOMAIN Catalog :
    /\ Catalog[i].code = code
    /\ Catalog[i].status = "ACTIVE"
    /\ Catalog[i].verified
    /\ code \in Verified

LEMMA VerifiedGroupIsStorable ==
  ASSUME NEW g \in Groups, AllSchedules[g].code \in Verified
  PROVE  Storable(AllSchedules[g].code)
<1>1. g \notin DOMAIN Fixed
  BY FixedRules, ControlledAssumption
<1>2. PICK j \in ReadyEntries : g = Len(Fixed) + j
  BY <1>1, GroupsArePositions DEF Positions
<1>3. AllSchedules[g].code = Catalog[j].code
  <2>1. AllSchedules[g] = CalendarRule(Catalog[j])
    BY <1>2, RuleOfEntry
  <2>2. CalendarRule(Catalog[j]).code = Catalog[j].code
    BY DEF CalendarRule
  <2> QED BY <2>1, <2>2
<1>4. j \in DOMAIN Catalog /\ Ready(Catalog[j]) /\ Catalog[j] \in CatalogEntry
  BY ControlledAssumption DEF ReadyEntries
<1>5. Catalog[j].status = "ACTIVE" /\ SourceVerified(Catalog[j])
  BY <1>4 DEF Ready, IntegrationStatus, CatalogEntry
<1> QED BY <1>3, <1>4, <1>5 DEF Storable, SourceVerified
-----------------------------------------------------------------------------
(* The inductive invariant                                                 *)

\* A group of a cycle has its one attempt or is still to have its turn.
Reported ==
  \A p \in Procs :
    /\ pc[p] = "done" => queue[p] = {}
    /\ pc[p] # "idle" =>
         \A g \in Groups :
           /\ g \in queue[p] => \A a \in attempts[p] : a.group # g
           /\ g \notin queue[p] => \E a \in attempts[p] : {b \in attempts[p] : b.group = g} = {a}

\* The lottery of a code is no row that the executor can have found.
Gone(code) == lottery[code] \in {"none", "created"}

\* A credited draw stays in the table as long as its lottery is the row that
\* was found; a lottery that is gone never becomes such a row again.
Credited ==
  \A p \in Procs : \A a \in attempts[p] :
    a.status = "SUCCESS" => a.row \in Row /\ (a.row \in table \/ Gone(a.row.code))

ReadyOnly ==
  /\ \A x \in table : Storable(x.code)
  /\ \A p \in Procs : row[p] \in Row => Storable(row[p].code)

Inv == TypeOK /\ Reported /\ Credited /\ OneSuccessPerDraw /\ ReadyOnly

LEMMA TurnIsDue ==
  ASSUME TypeOK, NEW p \in Procs, queue[p] # {}
  PROVE  Turn(p) \in queue[p] /\ Turn(p) \in Groups
<1>1. queue[p] \in SUBSET Groups
  BY DEF TypeOK
<1>2. queue[p] \in SUBSET Nat
  BY <1>1, GroupsArePositions
<1>3. Turn(p) \in queue[p]
  BY <1>2, LeastOfNaturals DEF Turn
<1> QED BY <1>1, <1>3

\* What an attempt that failed is called.
LEMMA Classified ==
  ASSUME NEW exc
  PROVE  Classify(exc) \in FailureStatuses \cup {"DUPLICATE"}
  BY DEF Classify, FailureStatuses

LEMMA Quiet ==
  ASSUME NEW exc \in {Runtime, Database, Extraction, Parsing, Normalization}
  PROVE  Classify(exc) \in FailureStatuses
  BY DEF Classify, FailureStatuses, Runtime, Database, Extraction, Parsing, Normalization, Exception

ReportStatuses == FailureStatuses \cup {"SUCCESS", "DUPLICATE"}
Messages == {"", "not registered", "other"}

\* The attempt that Report appends.
Made(p, status, message) ==
  [group |-> Turn(p), status |-> status, message |-> message, row |-> row[p]]

LEMMA Reporting ==
  ASSUME TypeOK, Reported, NEW p \in Procs, pc[p] \in {"ingest", "lookup", "insert"},
         queue[p] # {}, NEW status \in ReportStatuses, NEW message \in Messages,
         Report(p, status, message)
  PROVE  /\ pc' \in [Procs -> {"idle", "ingest", "lookup", "insert", "done"}]
         /\ queue' \in [Procs -> SUBSET Groups]
         /\ row' \in [Procs -> Row \cup {NoRecord}]
         /\ attempts' \in [Procs -> SUBSET Attempt]
         /\ \A q \in Procs : pc'[q] \in {"lookup", "insert"} => queue'[q] # {} /\ row'[q] \in Row
         /\ Reported'
         /\ \A q \in Procs : row'[q] \in Row => row'[q] = row[q]
         /\ \A q \in Procs : \A a \in attempts'[q] :
              a \in attempts[q] \/ (q = p /\ a = Made(p, status, message))
<1> DEFINE made == Made(p, status, message)
<1>1. Turn(p) \in queue[p] /\ Turn(p) \in Groups
  BY TurnIsDue
<1>2. made \in Attempt
  BY <1>1 DEF TypeOK, Made, Attempt, ReportStatuses, Messages
<1>3. /\ attempts' = [attempts EXCEPT ![p] = @ \cup {made}]
      /\ queue' = [queue EXCEPT ![p] = @ \ {Turn(p)}]
      /\ row' = [row EXCEPT ![p] = NoRecord]
      /\ pc' = [pc EXCEPT ![p] = "ingest"]
  BY DEF Report, Made
<1>4. made.group = Turn(p)
  BY DEF Made
<1> HIDE DEF made
<1>5. pc' \in [Procs -> {"idle", "ingest", "lookup", "insert", "done"}]
  BY <1>3 DEF TypeOK
<1>6. queue' \in [Procs -> SUBSET Groups]
  BY <1>3 DEF TypeOK
<1>7. row' \in [Procs -> Row \cup {NoRecord}] /\ \A q \in Procs : row'[q] \in Row => row'[q] = row[q]
  BY <1>3, NoRecordAssumption DEF TypeOK
<1>8. attempts' \in [Procs -> SUBSET Attempt]
  BY <1>2, <1>3 DEF TypeOK
<1>9. \A q \in Procs : pc'[q] \in {"lookup", "insert"} => queue'[q] # {} /\ row'[q] \in Row
  BY <1>3 DEF TypeOK
<1>10. \A q \in Procs : \A a \in attempts'[q] : a \in attempts[q] \/ (q = p /\ a = made)
  BY <1>3 DEF TypeOK
<1>11. Reported'
  <2> SUFFICES ASSUME NEW q \in Procs
               PROVE  /\ pc'[q] = "done" => queue'[q] = {}
                      /\ pc'[q] # "idle" =>
                           \A g \in Groups :
                             /\ g \in queue'[q] => \A a \in attempts'[q] : a.group # g
                             /\ g \notin queue'[q] =>
                                  \E a \in attempts'[q] : {b \in attempts'[q] : b.group = g} = {a}
    BY DEF Reported
  <2>1. CASE q # p
    <3>1. pc'[q] = pc[q] /\ queue'[q] = queue[q] /\ attempts'[q] = attempts[q]
      BY <1>3, <2>1 DEF TypeOK
    <3> QED BY <3>1 DEF Reported
  <2>2. CASE q = p
    <3>1. /\ pc'[p] = "ingest" /\ queue'[p] = queue[p] \ {Turn(p)}
          /\ attempts'[p] = attempts[p] \cup {made}
      BY <1>3 DEF TypeOK
    <3>2. \A a \in attempts[p] : a.group # Turn(p)
      BY <1>1 DEF Reported
    <3> SUFFICES ASSUME NEW g \in Groups
                 PROVE  /\ g \in queue'[p] => \A a \in attempts'[p] : a.group # g
                        /\ g \notin queue'[p] =>
                             \E a \in attempts'[p] : {b \in attempts'[p] : b.group = g} = {a}
      BY <2>2, <3>1
    <3>3. CASE g = Turn(p)
      <4>1. {b \in attempts'[p] : b.group = g} = {made}
        BY <1>4, <3>1, <3>2, <3>3
      <4> QED BY <3>1, <3>3, <4>1
    <3>4. CASE g # Turn(p)
      <4>1. {b \in attempts'[p] : b.group = g} = {b \in attempts[p] : b.group = g}
        BY <1>4, <3>1, <3>4
      <4>2. g \in queue'[p] <=> g \in queue[p]
        BY <3>1, <3>4
      <4>3. \A a \in attempts'[p] : a \in attempts[p] \/ a.group = Turn(p)
        BY <1>4, <3>1
      <4>4. g \in queue[p] => \A a \in attempts'[p] : a.group # g
        BY <3>4, <4>3 DEF Reported
      <4>5. g \notin queue[p] => \E a \in attempts[p] : {b \in attempts[p] : b.group = g} = {a}
        BY DEF Reported
      <4> QED BY <3>1, <4>1, <4>2, <4>4, <4>5
    <3> QED BY <3>3, <3>4
  <2> QED BY <2>1, <2>2
<1> QED BY <1>5, <1>6, <1>7, <1>8, <1>9, <1>10, <1>11 DEF made
\* What is credited stays so while no row leaves the table but with its lottery.
LEMMA CreditStays ==
  ASSUME Inv,
         \A x \in Row : x \in table => x \in table' \/ Gone(x.code)',
         \A c \in Codes : Gone(c) => Gone(c)',
         \A q \in Procs : \A a \in attempts'[q] : a \in attempts[q] \/ a.status # "SUCCESS"
  PROVE  Credited' /\ OneSuccessPerDraw'
<1>1. Credited'
  <2> SUFFICES ASSUME NEW q \in Procs, NEW a \in attempts'[q], a.status = "SUCCESS"
               PROVE  a.row \in Row /\ (a.row \in table' \/ Gone(a.row.code)')
    BY DEF Credited
  <2>1. a.row \in Row /\ (a.row \in table \/ Gone(a.row.code))
    BY DEF Inv, Credited
  <2>2. a.row.code \in Codes
    BY <2>1 DEF Row
  <2> QED BY <2>1, <2>2
<1>2. OneSuccessPerDraw'
  BY DEF Inv, OneSuccessPerDraw
<1> QED BY <1>1, <1>2

\* A draw that fails leaves the invariant, whatever it failed with.
LEMMA Failing ==
  ASSUME Inv, NEW p \in Procs, pc[p] \in {"ingest", "lookup", "insert"}, queue[p] # {},
         NEW exc, NEW message \in Messages, Raises(p, exc, message),
         UNCHANGED <<clock, lottery, cycles>>, table \subseteq table', table' \subseteq Row,
         \A x \in table' \ table : Storable(x.code)
  PROVE  Inv'
<1> DEFINE status == Classify(exc)
<1>1. status \in ReportStatuses /\ status # "SUCCESS"
  BY Classified DEF ReportStatuses, FailureStatuses
<1>2. Report(p, status, message)
  BY DEF Raises
<1> HIDE DEF status
<1>3. /\ pc' \in [Procs -> {"idle", "ingest", "lookup", "insert", "done"}]
      /\ queue' \in [Procs -> SUBSET Groups]
      /\ row' \in [Procs -> Row \cup {NoRecord}]
      /\ attempts' \in [Procs -> SUBSET Attempt]
      /\ \A q \in Procs : pc'[q] \in {"lookup", "insert"} => queue'[q] # {} /\ row'[q] \in Row
      /\ Reported'
      /\ \A q \in Procs : row'[q] \in Row => row'[q] = row[q]
      /\ \A q \in Procs : \A a \in attempts'[q] :
           a \in attempts[q] \/ (q = p /\ a = Made(p, status, message))
  BY <1>1, <1>2, Reporting DEF Inv
<1>4. TypeOK'
  BY <1>3 DEF Inv, TypeOK
<1>5. \A q \in Procs : \A a \in attempts'[q] : a \in attempts[q] \/ a.status # "SUCCESS"
  BY <1>1, <1>3 DEF Made
<1>6. Credited' /\ OneSuccessPerDraw'
  BY <1>5, CreditStays DEF Gone
<1>7. ReadyOnly'
  BY <1>3 DEF Inv, ReadyOnly
<1> QED BY <1>3, <1>4, <1>6, <1>7 DEF Inv

\* A draw that is stored is credited to the process that stored it alone:
\* nothing in the table is the same draw, and nothing that was credited for a
\* row of this lottery is gone.
LEMMA Inserting ==
  ASSUME Inv, NEW p \in Procs, Insert(p)
  PROVE  Inv'
<1>1. /\ pc[p] = "insert" /\ queue[p] # {} /\ row[p] \in Row
      /\ Storable(row[p].code)
  BY DEF Insert, Inv, TypeOK, ReadyOnly
<1>2. /\ table' = table \cup {row[p]} /\ Report(p, "SUCCESS", "")
      /\ UNCHANGED <<clock, lottery, cycles>> /\ Admits(row[p])
  BY DEF Insert
<1> DEFINE made == Made(p, "SUCCESS", "")
<1>3. made.row = row[p]
  BY DEF Made
<1>4. /\ pc' \in [Procs -> {"idle", "ingest", "lookup", "insert", "done"}]
      /\ queue' \in [Procs -> SUBSET Groups]
      /\ row' \in [Procs -> Row \cup {NoRecord}]
      /\ attempts' \in [Procs -> SUBSET Attempt]
      /\ \A q \in Procs : pc'[q] \in {"lookup", "insert"} => queue'[q] # {} /\ row'[q] \in Row
      /\ Reported'
      /\ \A q \in Procs : row'[q] \in Row => row'[q] = row[q]
      /\ \A q \in Procs : \A a \in attempts'[q] : a \in attempts[q] \/ (q = p /\ a = made)
  BY <1>1, <1>2, Reporting DEF Inv, ReportStatuses, Messages
<1> HIDE DEF made
<1>5. TypeOK'
  BY <1>1, <1>2, <1>4 DEF Inv, TypeOK
<1>6. Credited'
  BY <1>1, <1>2, <1>3, <1>4 DEF Inv, Credited, Gone
<1>7. ReadyOnly'
  BY <1>1, <1>2, <1>4 DEF Inv, ReadyOnly
<1>8. OneSuccessPerDraw'
  <2>1. ASSUME NEW q \in Procs, NEW a \in attempts[q], a.status = "SUCCESS",
               a.row.code = row[p].code, a.row.draw_type = row[p].draw_type,
               a.row.number = row[p].number \/ a.row.day = row[p].day
        PROVE  FALSE
    <3>1. a.row \in table \/ Gone(a.row.code)
      BY <2>1 DEF Inv, Credited
    <3>2. a.row \notin table
      BY <1>2, <2>1 DEF Admits, Clashes
    <3>3. ~ Gone(a.row.code)
      BY <1>2, <2>1 DEF Admits, Gone
    <3> QED BY <3>1, <3>2, <3>3
  <2> SUFFICES ASSUME NEW q \in Procs, NEW r \in Procs,
                      NEW a \in attempts'[q], NEW b \in attempts'[r],
                      a.status = "SUCCESS", b.status = "SUCCESS",
                      a.row.code = b.row.code, a.row.draw_type = b.row.draw_type,
                      a.row.number = b.row.number \/ a.row.day = b.row.day
               PROVE  q = r /\ a = b
    BY DEF OneSuccessPerDraw
  <2>2. CASE a \in attempts[q] /\ b \in attempts[r]
    BY <2>2 DEF Inv, OneSuccessPerDraw
  <2>3. CASE a \in attempts[q] /\ b \notin attempts[r]
    <3>1. b.row = row[p]
      BY <1>3, <1>4, <2>3
    <3> QED BY <2>1, <2>3, <3>1
  <2>4. CASE a \notin attempts[q] /\ b \in attempts[r]
    <3>1. a.row = row[p]
      BY <1>3, <1>4, <2>4
    <3> QED BY <2>1, <2>4, <3>1
  <2>5. CASE a \notin attempts[q] /\ b \notin attempts[r]
    BY <1>4, <2>5
  <2> QED BY <2>2, <2>3, <2>4, <2>5
<1> QED BY <1>4, <1>5, <1>6, <1>7, <1>8 DEF Inv
-----------------------------------------------------------------------------
(* The steps                                                               *)

LEMMA Initially == ASSUME Init PROVE Inv
<1>1. TypeOK
  BY ControlledAssumption DEF Init, TypeOK, LotteryRows
<1>2. Reported /\ Credited /\ OneSuccessPerDraw
  BY DEF Init, Reported, Credited, OneSuccessPerDraw
<1>3. ReadyOnly
  BY NoRecordAssumption DEF Init, ReadyOnly
<1> QED BY <1>1, <1>2, <1>3 DEF Inv

\* A cycle begins with an attempt for every group that is not due.
LEMMA Starting ==
  ASSUME Inv, NEW p \in Procs, Start(p)
  PROVE  Inv'
<1> DEFINE Made0(g) ==
      [group |-> g, status |-> NotDue(g, clock), message |-> "other", row |-> NoRecord]
    rest == Groups \ DueGroups(clock)
<1>1. /\ queue' = [queue EXCEPT ![p] = DueGroups(clock)]
      /\ attempts' = [attempts EXCEPT ![p] = {Made0(g) : g \in rest}]
      /\ pc' = [pc EXCEPT ![p] = "ingest"] /\ cycles < MaxCycles /\ cycles' = cycles + 1
      /\ UNCHANGED <<clock, lottery, table, row>>
  BY DEF Start
<1>2. \A g \in rest : Made0(g) \in Attempt /\ Made0(g).group = g /\ Made0(g).status # "SUCCESS"
  BY DEF Attempt, NotDue
<1>3. DueGroups(clock) \subseteq Groups
  BY DEF DueGroups
<1> HIDE DEF Made0
<1>4. TypeOK'
  <2>1. cycles' \in 0 .. MaxCycles
    BY <1>1, ControlledAssumption DEF Inv, TypeOK
  <2>2. attempts' \in [Procs -> SUBSET Attempt] /\ queue' \in [Procs -> SUBSET Groups]
    BY <1>1, <1>2, <1>3 DEF Inv, TypeOK
  <2>3. \A q \in Procs : pc'[q] \in {"lookup", "insert"} => queue'[q] # {} /\ row'[q] \in Row
    BY <1>1 DEF Inv, TypeOK
  <2> QED BY <1>1, <2>1, <2>2, <2>3 DEF Inv, TypeOK
<1>5. Reported'
  <2> SUFFICES ASSUME NEW q \in Procs
               PROVE  /\ pc'[q] = "done" => queue'[q] = {}
                      /\ pc'[q] # "idle" =>
                           \A g \in Groups :
                             /\ g \in queue'[q] => \A a \in attempts'[q] : a.group # g
                             /\ g \notin queue'[q] =>
                                  \E a \in attempts'[q] : {b \in attempts'[q] : b.group = g} = {a}
    BY DEF Reported
  <2>1. CASE q # p
    <3>1. pc'[q] = pc[q] /\ queue'[q] = queue[q] /\ attempts'[q] = attempts[q]
      BY <1>1, <2>1 DEF Inv, TypeOK
    <3> QED BY <3>1 DEF Inv, Reported
  <2>2. CASE q = p
    <3>1. /\ pc'[p] = "ingest" /\ queue'[p] = DueGroups(clock)
          /\ attempts'[p] = {Made0(g) : g \in rest}
      BY <1>1 DEF Inv, TypeOK
    <3>2. ASSUME NEW g \in Groups, g \in queue'[p]
          PROVE  \A a \in attempts'[p] : a.group # g
      BY <1>2, <3>1, <3>2
    <3>3. ASSUME NEW g \in Groups, g \notin queue'[p]
          PROVE  \E a \in attempts'[p] : {b \in attempts'[p] : b.group = g} = {a}
      <4>1. Made0(g) \in attempts'[p] /\ {b \in attempts'[p] : b.group = g} = {Made0(g)}
        BY <1>2, <3>1, <3>3
      <4> QED BY <4>1
    <3> QED BY <2>2, <3>1, <3>2, <3>3
  <2> QED BY <2>1, <2>2
<1>6. \A q \in Procs : \A a \in attempts'[q] : a \in attempts[q] \/ a.status # "SUCCESS"
  BY <1>1, <1>2 DEF Inv, TypeOK
<1>7. Credited' /\ OneSuccessPerDraw'
  BY <1>1, <1>6, CreditStays DEF Gone
<1>8. ReadyOnly'
  BY <1>1 DEF Inv, ReadyOnly
<1> QED BY <1>4, <1>5, <1>7, <1>8 DEF Inv

LEMMA Fetching ==
  ASSUME Inv, NEW p \in Procs, Fetched(p)
  PROVE  Inv'
<1> DEFINE turn == AllSchedules[Turn(p)]
<1>1. pc[p] = "ingest" /\ queue[p] # {} /\ turn.code \in Verified
  BY DEF Fetched, Working, MayFetch
<1>2. Turn(p) \in Groups
  BY <1>1, TurnIsDue DEF Inv
<1>31. PICK records \in Pages :
         \E i \in DOMAIN records :
           /\ Matching(turn.draw_type, records) = {i}
           /\ row' = [row EXCEPT ![p] = [code |-> turn.code, draw_type |-> turn.draw_type,
                                         number |-> records[i].number, day |-> records[i].day]]
  BY DEF Fetched
<1>3. PICK i \in DOMAIN records :
        /\ Matching(turn.draw_type, records) = {i}
        /\ row' = [row EXCEPT ![p] = [code |-> turn.code, draw_type |-> turn.draw_type,
                                      number |-> records[i].number, day |-> records[i].day]]
  BY <1>31
<1>4. pc' = [pc EXCEPT ![p] = "lookup"] /\ UNCHANGED <<clock, lottery, table, queue, attempts, cycles>>
  BY DEF Fetched
<1>5. records[i] \in PageRecords(clock)
  BY <1>31, <1>3 DEF Pages, SeqOf
<1>6. /\ records[i].draw_type \in {OrdinaryType, "OTHER"}
      /\ records[i].number \in Numbers /\ records[i].day \in Nat
  BY <1>5 DEF PageRecords
<1>7. turn.draw_type = records[i].draw_type
  BY <1>3 DEF Matching
<1>8. turn.code \in Codes
  BY <1>2, GroupsArePositions DEF Codes
<1>9. Storable(turn.code)
  BY <1>1, <1>2, VerifiedGroupIsStorable
<1> DEFINE new == [code |-> turn.code, draw_type |-> turn.draw_type,
                   number |-> records[i].number, day |-> records[i].day]
<1>10. new \in Row /\ new.code = turn.code
  BY <1>6, <1>7, <1>8 DEF Row
<1>11. row' = [row EXCEPT ![p] = new]
  BY <1>3
<1> HIDE DEF new, turn
<1>12. TypeOK'
  <2>1. pc' \in [Procs -> {"idle", "ingest", "lookup", "insert", "done"}]
    BY <1>4 DEF Inv, TypeOK
  <2>2. row' \in [Procs -> Row \cup {NoRecord}]
    BY <1>10, <1>11 DEF Inv, TypeOK
  <2>3. \A q \in Procs : pc'[q] \in {"lookup", "insert"} => queue'[q] # {} /\ row'[q] \in Row
    BY <1>1, <1>4, <1>10, <1>11 DEF Inv, TypeOK
  <2> QED BY <1>4, <2>1, <2>2, <2>3 DEF Inv, TypeOK
<1>13. Reported'
  BY <1>1, <1>4 DEF Inv, TypeOK, Reported
<1>14. Credited' /\ OneSuccessPerDraw'
  BY <1>4, CreditStays DEF Gone
<1>15. ReadyOnly'
  BY <1>4, <1>9, <1>10, <1>11 DEF Inv, TypeOK, ReadyOnly
<1> QED BY <1>12, <1>13, <1>14, <1>15 DEF Inv
\* Every way in which a draw fails is a case of Failing.
LEMMA Failures ==
  ASSUME Inv, NEW p \in Procs,
         \/ Refuse(p) \/ Ambiguous(p) \/ Unregistered(p) \/ Known(p) \/ InsertFails(p) \/ Breaks(p)
         \/ \E exc \in {Extraction, Parsing, Normalization} : FetchFails(p, exc)
  PROVE  Inv'
<1>1. CASE Refuse(p) \/ Ambiguous(p)
  BY <1>1, Failing DEF Refuse, Ambiguous, Working, Messages, Inv, TypeOK
<1>2. ASSUME NEW exc, FetchFails(p, exc) PROVE Inv'
  BY <1>2, Failing DEF FetchFails, Working, Messages, Inv, TypeOK
<1>3. CASE Unregistered(p) \/ Known(p) \/ InsertFails(p)
  <2>1. pc[p] \in {"lookup", "insert"} /\ queue[p] # {}
    BY <1>3 DEF Unregistered, Known, InsertFails, Inv, TypeOK
  <2> QED BY <1>3, <2>1, Failing DEF Unregistered, Known, InsertFails, Messages, Inv, TypeOK
<1>4. CASE Breaks(p)
  <2>1. pc[p] \in {"lookup", "insert"} /\ queue[p] # {} /\ row[p] \in Row
    BY <1>4 DEF Breaks, Inv, TypeOK
  <2>2. table' = table \/ table' = table \cup {row[p]}
    BY <1>4 DEF Breaks
  <2>3. table \subseteq table' /\ table' \subseteq Row /\ \A x \in table' \ table : Storable(x.code)
    BY <2>1, <2>2 DEF Inv, TypeOK, ReadyOnly
  <2>4. Raises(p, Database, "other") /\ UNCHANGED <<clock, lottery, cycles>>
    BY <1>4 DEF Breaks
  <2> QED BY <2>1, <2>3, <2>4, Failing DEF Messages
<1> QED BY <1>1, <1>2, <1>3, <1>4

LEMMA Proceeding ==
  ASSUME Inv, NEW p \in Procs, Unknown(p) \/ Finish(p) \/ Crash(p)
  PROVE  Inv'
<1>1. UNCHANGED <<clock, lottery, table, attempts, cycles>>
  BY DEF Unknown, Finish, Crash
<1>2. Credited' /\ OneSuccessPerDraw'
  BY <1>1, CreditStays DEF Gone
<1>3. CASE Unknown(p)
  <2>1. TypeOK' /\ Reported' /\ ReadyOnly'
    BY <1>3 DEF Unknown, Inv, TypeOK, Reported, ReadyOnly
  <2> QED BY <1>2, <2>1 DEF Inv
<1>4. CASE Finish(p)
  <2>1. TypeOK' /\ ReadyOnly'
    BY <1>4 DEF Finish, Inv, TypeOK, ReadyOnly
  <2>2. Reported'
    BY <1>4 DEF Finish, Inv, TypeOK, Reported
  <2> QED BY <1>2, <2>1, <2>2 DEF Inv
<1>5. CASE Crash(p)
  <2>1. /\ pc' = [pc EXCEPT ![p] = "idle"] /\ queue' = [queue EXCEPT ![p] = {}]
        /\ row' = [row EXCEPT ![p] = NoRecord]
    BY <1>5 DEF Crash
  <2>2. TypeOK'
    BY <1>1, <2>1 DEF Inv, TypeOK
  <2>3. ReadyOnly'
    BY <1>1, <2>1, NoRecordAssumption DEF Inv, TypeOK, ReadyOnly
  <2>4. Reported'
    BY <1>1, <2>1 DEF Inv, TypeOK, Reported
  <2> QED BY <1>2, <2>2, <2>3, <2>4 DEF Inv
<1> QED BY <1>3, <1>4, <1>5

\* A lottery that is dropped takes its draws along, and no change of the
\* registry makes a row of a lottery that is gone.
LEMMA Surrounding ==
  ASSUME Inv, \/ \E c \in Codes : Register(c) \/ DropLottery(c)
              \/ Canonicalize \/ Tick
  PROVE  Inv'
<1>1. UNCHANGED <<pc, queue, row, attempts, cycles>>
  BY DEF Register, DropLottery, Canonicalize, Tick
<1>2. Reported'
  BY <1>1 DEF Inv, Reported
<1>3. /\ clock' \in 0 .. LastMinute /\ lottery' \in [Codes -> LotteryRows] /\ table' \subseteq table
      /\ \A x \in Row : x \in table => x \in table' \/ Gone(x.code)'
      /\ \A c \in Codes : Gone(c) => Gone(c)'
  <2>1. CASE Tick
    BY <2>1, ControlledAssumption DEF Tick, Inv, TypeOK, Gone
  <2>2. CASE Canonicalize
    BY <2>2 DEF Canonicalize, Inv, TypeOK, Gone, LotteryRows
  <2>3. ASSUME NEW c \in Codes, Register(c)
        PROVE  /\ clock' = clock /\ lottery' \in [Codes -> LotteryRows] /\ table' = table
               /\ \A d \in Codes : Gone(d) => Gone(d)'
    BY <2>3 DEF Register, Inv, TypeOK, Gone, LotteryRows
  <2>4. ASSUME NEW c \in Codes, DropLottery(c)
        PROVE  /\ clock' = clock /\ lottery' \in [Codes -> LotteryRows] /\ table' \subseteq table
               /\ \A x \in Row : x \in table => x \in table' \/ Gone(x.code)'
               /\ \A d \in Codes : Gone(d) => Gone(d)'
    BY <2>4 DEF DropLottery, Inv, TypeOK, Gone, LotteryRows
  <2>5. clock \in 0 .. LastMinute
    BY DEF Inv, TypeOK
  <2> QED BY <2>1, <2>2, <2>3, <2>4, <2>5
<1>4. TypeOK'
  BY <1>1, <1>3 DEF Inv, TypeOK
<1>5. Credited' /\ OneSuccessPerDraw'
  BY <1>1, <1>3, CreditStays
<1>6. ReadyOnly'
  BY <1>1, <1>3 DEF Inv, ReadyOnly
<1> QED BY <1>2, <1>4, <1>5, <1>6 DEF Inv

LEMMA Step == ASSUME Inv, [Next]_vars PROVE Inv'
<1>1. ASSUME NEW p \in Procs, Cycle(p) PROVE Inv'
  BY <1>1, Starting, Fetching, Failures, Proceeding, Inserting DEF Cycle
<1>2. CASE UNCHANGED vars
  BY <1>2 DEF vars, Inv, TypeOK, Reported, Credited, Gone, OneSuccessPerDraw, ReadyOnly
<1> QED BY <1>1, <1>2, Surrounding DEF Next

-----------------------------------------------------------------------------
(* The theorems                                                            *)

LEMMA Always == Spec => []Inv
<1>1. Init => Inv
  BY Initially
<1>2. Inv /\ [Next]_vars => Inv'
  BY Step
<1> QED BY <1>1, <1>2, PTL DEF Spec

\* Every variable of the scheduler keeps its type: a draw that is looked up or
\* inserted is a draw of a group that is due (executor.py).
THEOREM TypeCorrect == Spec => []TypeOK
<1>1. Inv => TypeOK
  BY DEF Inv
<1> QED BY <1>1, Always, PTL

\* Overlapping cycles, whatever becomes of the lotteries meanwhile, credit a
\* draw to one of them at most (runner.py, create_draw and its constraints).
THEOREM CreditedOnce == Spec => []OneSuccessPerDraw
<1>1. Inv => OneSuccessPerDraw
  BY DEF Inv
<1> QED BY <1>1, Always, PTL

\* Draws are stored for ready lotteries only: neither a game of the fixed table
\* nor a suspended or unverified lottery gets one (catalog_integration.py).
THEOREM StoresReadyOnly == Spec => []OnlyReadyStored
<1>1. Inv => OnlyReadyStored
  BY DEF Inv, ReadyOnly, Storable, OnlyReadyStored
<1> QED BY <1>1, Always, PTL

\* A cycle that is done has one attempt for every group of its schedules, for
\* any tables of schedules: no failing draw costs another its turn (run_once).
THEOREM ReportsEveryGroup == Spec => []EveryGroupReported
<1>1. Inv => EveryGroupReported
  <2> SUFFICES ASSUME Inv, NEW p \in Procs, pc[p] = "done", NEW g \in Groups
               PROVE  Cardinality({a \in attempts[p] : a.group = g}) = 1
    BY DEF EveryGroupReported
  <2>1. PICK a \in attempts[p] : {b \in attempts[p] : b.group = g} = {a}
    BY DEF Inv, Reported
  <2> QED BY <2>1, FS_Singleton
<1> QED BY <1>1, Always, PTL
-----------------------------------------------------------------------------
(* The table                                                               *)

\* No two rows are one draw, by number or by date.
EachDrawOnce ==
  \A x, y \in table :
    /\ x.code = y.code /\ x.draw_type = y.draw_type
    /\ x.number = y.number \/ x.day = y.day
    => x = y

\* Every row has the lottery it was stored for.
EachDrawHasLottery == \A x \in table : lottery[x.code] \in {"legacy", "migrated"}

TableSound == EachDrawOnce /\ EachDrawHasLottery

\* What a commit of the executor does to the table.
LEMMA CommitKeepsTable ==
  ASSUME TypeOK, TableSound, NEW r \in Row, Admits(r), table' = table \cup {r}, UNCHANGED lottery
  PROVE  TableSound'
<1>1. \A x \in table : ~ (x.code = r.code /\ x.draw_type = r.draw_type
                            /\ (x.number = r.number \/ x.day = r.day))
  BY DEF Admits, Clashes
<1>2. lottery[r.code] \in {"legacy", "migrated"}
  BY DEF Admits
<1>3. EachDrawOnce'
  <2> SUFFICES ASSUME NEW x \in table', NEW y \in table',
                      x.code = y.code, x.draw_type = y.draw_type,
                      x.number = y.number \/ x.day = y.day
               PROVE  x = y
    BY DEF EachDrawOnce
  <2>1. CASE x \in table /\ y \in table
    BY <2>1 DEF TableSound, EachDrawOnce
  <2>2. CASE x = r /\ y = r
    BY <2>2
  <2>3. CASE x = r /\ y \in table
    BY <1>1, <2>3
  <2>4. CASE x \in table /\ y = r
    BY <1>1, <2>4
  <2> QED BY <2>1, <2>2, <2>3, <2>4
<1>4. EachDrawHasLottery'
  BY <1>2 DEF TableSound, EachDrawHasLottery
<1> QED BY <1>3, <1>4 DEF TableSound

LEMMA TableStep == ASSUME Inv, TableSound, [Next]_vars PROVE TableSound'
<1>1. CASE UNCHANGED <<table, lottery>>
  BY <1>1 DEF TableSound, EachDrawOnce, EachDrawHasLottery
<1>2. ASSUME NEW p \in Procs, Cycle(p) PROVE TableSound'
  <2>1. CASE pc[p] = "insert" /\ Admits(row[p]) /\ table' = table \cup {row[p]} /\ UNCHANGED lottery
    <3>1. TypeOK /\ row[p] \in Row
      BY <2>1 DEF Inv, TypeOK
    <3> QED BY <2>1, <3>1, CommitKeepsTable
  <2>2. \/ UNCHANGED <<table, lottery>>
        \/ pc[p] = "insert" /\ Admits(row[p]) /\ table' = table \cup {row[p]} /\ UNCHANGED lottery
    BY <1>2 DEF Cycle, Start, Refuse, FetchFails, Fetched, Ambiguous, Unregistered, Known, Unknown,
                Insert, InsertFails, Breaks, Finish, Crash
  <2> QED BY <1>1, <2>1, <2>2
<1>3. ASSUME NEW c \in Codes, Register(c) PROVE TableSound'
  <2>1. \A x \in table : x.code \in Codes /\ x.code # c
    BY <1>3 DEF Inv, TypeOK, Row, Register, TableSound, EachDrawHasLottery
  <2> QED BY <1>3, <2>1 DEF Register, Inv, TypeOK, TableSound, EachDrawOnce, EachDrawHasLottery
<1>4. ASSUME NEW c \in Codes, DropLottery(c) PROVE TableSound'
  <2>1. \A x \in table : x.code \in Codes
    BY DEF Inv, TypeOK, Row
  <2> QED BY <1>4, <2>1 DEF DropLottery, Inv, TypeOK, TableSound, EachDrawOnce, EachDrawHasLottery
<1>5. CASE Canonicalize
  <2>1. \A x \in table : x.code \in Codes
    BY DEF Inv, TypeOK, Row
  <2> QED BY <1>5, <2>1 DEF Canonicalize, TableSound, EachDrawOnce, EachDrawHasLottery
<1>6. CASE Tick
  BY <1>1, <1>6 DEF Tick
<1>7. CASE UNCHANGED vars
  BY <1>1, <1>7 DEF vars
<1> QED BY <1>2, <1>3, <1>4, <1>5, <1>6, <1>7 DEF Next

\* The executor keeps the promise of DrawTable to the readers of the table: every
\* draw is there once, by its number and by its date, and with its lottery, whatever
\* cycles overlap, break after their commit, lose a lottery or meet a migration.
THEOREM TableStaysSound == Spec => []TableSound
<1>1. Init => TableSound
  BY DEF Init, TableSound, EachDrawOnce, EachDrawHasLottery
<1>2. Inv /\ TableSound /\ [Next]_vars => TableSound'
  BY TableStep
<1> QED BY <1>1, <1>2, Always, PTL DEF Spec

\* What SUCCESS and DUPLICATE say at the step that reports them.
LEMMA QuietStep ==
  ASSUME Inv, Next, NEW p \in Procs, NEW a \in NewAttempts(p), a.status \in {"SUCCESS", "DUPLICATE"}
  PROVE  /\ a.row # NoRecord
         /\ \/ Clashes(a.row)' # {}
            \/ lottery'[a.row.code] \in {"none", "created"}
<1>1. a \in attempts'[p] /\ a \notin attempts[p]
  BY DEF NewAttempts
<1>2. ASSUME NEW q \in Procs, Start(q) PROVE FALSE
  <2>1. attempts' = [attempts EXCEPT ![q] =
          {[group |-> g, status |-> NotDue(g, clock), message |-> "other", row |-> NoRecord] :
             g \in Groups \ DueGroups(clock)}]
    BY <1>2 DEF Start
  <2>2. a.status \notin {"SUCCESS", "DUPLICATE"}
    BY <1>1, <2>1 DEF Inv, TypeOK, NotDue
  <2> QED BY <2>2
<1>3. ASSUME NEW q \in Procs, NEW status \in ReportStatuses, NEW message \in Messages,
             pc[q] \in {"ingest", "lookup", "insert"}, queue[q] # {}, Report(q, status, message)
      PROVE  a.row = row[q] /\ status = a.status
  BY <1>1, <1>3, Reporting DEF Inv, Made
<1>4. ASSUME NEW q \in Procs, NEW message \in Messages,
             pc[q] \in {"ingest", "lookup", "insert"}, queue[q] # {},
             NEW exc, Raises(q, exc, message)
      PROVE  a.row = row[q] /\ Classify(exc) = "DUPLICATE"
  <2>1. Classify(exc) \in FailureStatuses \cup {"DUPLICATE"}
    BY Classified
  <2>2. a.row = row[q] /\ Classify(exc) = a.status
    BY <1>3, <1>4, <2>1 DEF Raises, ReportStatuses
  <2> QED BY <2>1, <2>2 DEF FailureStatuses
<1>5. \A exc \in {Runtime, Database, Extraction, Parsing, Normalization} : Classify(exc) # "DUPLICATE"
  BY Quiet DEF FailureStatuses
<1>6. ASSUME NEW q \in Procs, Refuse(q) \/ Ambiguous(q) \/ Unregistered(q) \/ Breaks(q)
                 \/ \E exc \in {Extraction, Parsing, Normalization} : FetchFails(q, exc)
      PROVE  FALSE
  <2>1. pc[q] \in {"ingest", "lookup", "insert"} /\ queue[q] # {}
    BY <1>6 DEF Refuse, Ambiguous, Unregistered, Breaks, FetchFails, Working, Inv, TypeOK
  <2>2. \E exc \in {Runtime, Database, Extraction, Parsing, Normalization}, message \in Messages :
          Raises(q, exc, message)
    BY <1>6 DEF Refuse, Ambiguous, Unregistered, Breaks, FetchFails, Messages
  <2> QED BY <1>4, <1>5, <2>1, <2>2
<1>7. ASSUME NEW q \in Procs, Known(q) \/ InsertFails(q)
      PROVE  /\ a.row \in Row
             /\ \/ Clashes(a.row)' # {}
                \/ lottery'[a.row.code] \in {"none", "created"}
  <2>1. pc[q] \in {"lookup", "insert"} /\ queue[q] # {} /\ row[q] \in Row
    BY <1>7 DEF Known, InsertFails, Inv, TypeOK
  <2>2. Raises(q, Conflict, "other") /\ UNCHANGED <<lottery, table>>
    BY <1>7 DEF Known, InsertFails
  <2>3. a.row = row[q]
    BY <1>4, <2>1, <2>2 DEF Messages
  <2>4. Clashes(row[q]) # {} \/ lottery[row[q].code] \in {"none", "created"}
    <3>1. row[q].code \in Codes
      BY <2>1 DEF Row
    <3>2. lottery[row[q].code] \in LotteryRows
      BY <3>1 DEF Inv, TypeOK
    <3> QED BY <1>7, <3>2 DEF Known, InsertFails, Admits, LotteryRows
  <2> QED BY <2>1, <2>2, <2>3, <2>4 DEF Clashes
<1>8. ASSUME NEW q \in Procs, Insert(q)
      PROVE  a.row \in Row /\ Clashes(a.row)' # {}
  <2>1. pc[q] = "insert" /\ queue[q] # {} /\ row[q] \in Row
    BY <1>8 DEF Insert, Inv, TypeOK
  <2>2. Report(q, "SUCCESS", "") /\ table' = table \cup {row[q]}
    BY <1>8 DEF Insert
  <2>3. a.row = row[q]
    BY <1>3, <2>1, <2>2 DEF Messages, ReportStatuses
  <2>4. row[q] \in table'
    BY <2>2
  <2> QED BY <2>1, <2>3, <2>4 DEF Clashes
<1>9. ASSUME UNCHANGED attempts PROVE FALSE
  BY <1>1, <1>9
<1>10. ASSUME NEW q \in Procs, Fetched(q) \/ Unknown(q) \/ Finish(q) \/ Crash(q) PROVE FALSE
  BY <1>9, <1>10 DEF Fetched, Unknown, Finish, Crash
<1>11. CASE \E q \in Procs : Cycle(q)
  BY <1>2, <1>6, <1>7, <1>8, <1>10, <1>11, NoRecordAssumption DEF Cycle
<1>12. CASE (\E c \in Codes : Register(c) \/ DropLottery(c)) \/ Canonicalize \/ Tick
  BY <1>9, <1>12 DEF Register, DropLottery, Canonicalize, Tick
<1> QED BY <1>11, <1>12 DEF Next

\* A cycle that reports a draw as stored or as known, so that cron sees no
\* failure, has it in the table, unless its lottery has been deleted.
THEOREM QuietIsStored == Spec => QuietMeansStored
<1>1. Inv /\ [Next]_vars =>
        [\A p \in Procs : \A a \in NewAttempts(p) :
           a.status \in {"SUCCESS", "DUPLICATE"} =>
             /\ a.row # NoRecord
             /\ \/ Clashes(a.row)' # {}
                \/ lottery'[a.row.code] \in {"none", "created"}]_vars
  BY QuietStep
<1> QED BY <1>1, Always, PTL DEF Spec, QuietMeansStored
=============================================================================
