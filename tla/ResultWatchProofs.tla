--------------------------- MODULE ResultWatchProofs ---------------------------
(***************************************************************************)
(* The readings of the calendar agree, for every schedule, every set of    *)
(* holidays and every instant, also while the pages change.                *)
(* And of the pages, through all the days of every calendar: what a parser *)
(* reads is of one draw, with the date of that draw, and of the newest     *)
(* one.  The page is a sequence of entries that is flattened to texts; the *)
(* parsers see the texts, by order and distance.  So a recursive function  *)
(* is first given its equation (Recurrence), then the texts their places   *)
(* in the entries (Sections, Laid), then each parser its argument about    *)
(* entries, and at last the readings all of them (ReadingsAreSound).       *)
(***************************************************************************)
EXTENDS ResultWatch, SequenceTheorems, FiniteSetTheorems, WellFoundedInduction, TLAPS

\* An instant lies in the minutes of its own day.
LEMMA InstantInDay ==
  ASSUME NEW t \in Nat
  PROVE  /\ DayOf(t) \in Nat
         /\ At(DayOf(t), 0) \in Int
         /\ At(DayOf(t), 0) <= t
         /\ t <= At(DayOf(t), DayLength - 1)
  BY CalendarAssumption DEF DayOf, At

LEMMA AtShift ==
  ASSUME NEW d \in Nat, NEW m \in Int
  PROVE  At(d, m) \in Int /\ At(d, m) = At(d, 0) + m
  BY CalendarAssumption DEF At

\* A schedule with a holiday time has a first one.
LEMMA FirstTime ==
  ASSUME NEW times \in Seq(Minutes), times # <<>> \/ Len(times) = 1
  PROVE  times[1] \in Minutes /\ times # <<>>
<1> DEFINE M == Minutes
<1>1. times \in Seq(M)
  OBVIOUS
<1> HIDE DEF M
<1>2. Len(<<>>) = 0
  OBVIOUS
<1>3. times # <<>>
  BY <1>2
<1>4. Len(times) \in Nat /\ Len(times) # 0
  BY <1>1, <1>3
<1>5. 1 \in 1 .. Len(times)
  BY <1>4
<1>6. times[1] \in M
  BY <1>1, <1>5
<1> QED BY <1>3, <1>6 DEF M

\* What evaluate_schedule answers SUCCESS to.
LEMMA SuccessIsWindow ==
  ASSUME NEW s, NEW t, NEW hols
  PROVE  Evaluate(s, t, hols) = "SUCCESS" <=>
           /\ Scheduled(s, t)
           /\ HasWindow(s, DayOf(t), hols)
           /\ ~ (t < Opens(s, DayOf(t), hols))
           /\ ~ (t > Closes(s, DayOf(t), hols))
  BY DEF Evaluate

\* A timed window, seen from either side.
LEMMA TimedWindow ==
  ASSUME NEW t \in Nat, NEW time \in Minutes, NEW tolerance \in Nat
  PROVE  Within(t, time, tolerance) <=>
           /\ ~ (t < At(DayOf(t), time))
           /\ ~ (t > At(DayOf(t), time) + tolerance)
<1>1. time \in Int
  BY CalendarAssumption DEF Minutes
<1>2. At(DayOf(t), time) \in Int
  BY <1>1, InstantInDay, AtShift
<1> QED BY <1>2 DEF Within

LEMMA Agreement ==
  ASSUME NEW s \in ScheduledDraw, NEW t \in Nat, NEW hols, Regular(s)
  PROVE  Due(s, t, hols) <=> Evaluate(s, t, hols) = "SUCCESS"
<1> DEFINE day == DayOf(t)
<1>t. /\ s.expected \in Minutes \cup {NoTime}
      /\ s.tolerance \in Nat
      /\ s.holiday_times \in Seq(Minutes)
  BY DEF ScheduledDraw
<1>1. CASE s.calendar_only
  <2>1. ~ s.skip_on_holiday
    BY <1>1 DEF Regular
  <2>2. Due(s, t, hols) <=> Scheduled(s, t)
    BY <2>1, <1>1 DEF Due, Skips
  <2>3. /\ Opens(s, day, hols) = At(day, 0)
        /\ Closes(s, day, hols) = At(day, DayLength - 1)
        /\ HasWindow(s, day, hols)
    BY <1>1 DEF Opens, Closes, HasWindow
  <2>4. At(day, DayLength - 1) \in Int
    BY InstantInDay, AtShift, CalendarAssumption
  <2>5. ~ (t < At(day, 0)) /\ ~ (t > At(day, DayLength - 1))
    BY <2>4, InstantInDay
  <2> QED BY <2>2, <2>3, <2>5, SuccessIsWindow
<1>2. CASE ~ s.calendar_only /\ Skips(s, t, hols)
  <2>1. Len(s.holiday_times) = 1 /\ day \in hols
    BY <1>2 DEF Regular, Skips
  <2>2. DOMAIN s.holiday_times = {1}
    BY <1>t, <2>1
  <2>3. s.holiday_times[1] \in Minutes /\ s.holiday_times # <<>>
    BY <1>t, <2>1, FirstTime
  <2>4. ExpectedTime(s, day, hols) = s.holiday_times[1]
    BY <2>1, <2>3 DEF ExpectedTime
  <2>5. /\ Opens(s, day, hols) = At(day, s.holiday_times[1])
        /\ Closes(s, day, hols) = At(day, s.holiday_times[1]) + s.tolerance
    BY <1>2, <2>4 DEF Opens, Closes
  <2>6. s.holiday_times[1] # NoTime
    BY <2>3, CalendarAssumption DEF Minutes
  <2>7. HasWindow(s, day, hols)
    BY <2>4, <2>6 DEF HasWindow
  <2>8. Due(s, t, hols) <=> Scheduled(s, t) /\ Within(t, s.holiday_times[1], s.tolerance)
    BY <1>2, <2>2 DEF Due
  <2> QED BY <1>t, <2>3, <2>5, <2>7, <2>8, TimedWindow, SuccessIsWindow
<1>3. CASE ~ s.calendar_only /\ ~ Skips(s, t, hols)
  <2>1. ExpectedTime(s, day, hols) = s.expected
    BY <1>3 DEF ExpectedTime, Regular, Skips
  <2>2. /\ HasWindow(s, day, hols) <=> s.expected # NoTime
        /\ Opens(s, day, hols) = At(day, s.expected)
        /\ Closes(s, day, hols) = At(day, s.expected) + s.tolerance
    BY <1>3, <2>1 DEF HasWindow, Opens, Closes
  <2>3. Due(s, t, hols) <=>
          Scheduled(s, t) /\ s.expected # NoTime /\ Within(t, s.expected, s.tolerance)
    BY <1>3 DEF Due
  <2>4. s.expected # NoTime =>
          (Within(t, s.expected, s.tolerance) <=>
             /\ ~ (t < At(day, s.expected))
             /\ ~ (t > At(day, s.expected) + s.tolerance))
    BY <1>t, TimedWindow
  <2> QED BY <2>2, <2>3, <2>4, SuccessIsWindow
<1> QED BY <1>1, <1>2, <1>3

\* An entry of the dated calendar, read directly and as the ScheduledDraw it
\* makes.
LEMMA DatedAgreement ==
  ASSUME NEW t \in Nat, NEW entries \in Calendars, NEW type, NEW tolerance \in Nat,
         HasDate(entries, DayOf(t), type)
  PROVE  IsDue(entries, t, type, tolerance) <=>
           Evaluate(AsScheduled(entries, DayOf(t), type, tolerance), t, {}) = "SUCCESS"
<1> DEFINE day == DayOf(t)
           made == AsScheduled(entries, day, type, tolerance)
           time == EntryFor(entries, day, type).expected_time
           D == DatedDrawTime
<1>1. PICK i \in DOMAIN entries : ForDate(entries, day, type) = {i}
  BY DEF HasDate
<1>2. EntryFor(entries, day, type) = entries[i]
  BY <1>1 DEF EntryFor
<1>3. entries[i] \in D
  <2>1. entries \in Seq(D)
    BY ClockAssumption
  <2> HIDE DEF D
  <2> QED BY <2>1
<1>4. time \in Minutes
  BY <1>2, <1>3 DEF DatedDrawTime
<1>5. /\ made.expected = time /\ made.tolerance = tolerance /\ made.enabled
      /\ ~ made.calendar_only /\ made.weekdays = {WeekdayOf(day)}
  BY DEF AsScheduled
<1> HIDE DEF time
<1>6. IsDue(entries, t, type, tolerance) <=> Within(t, time, tolerance)
  BY <1>5 DEF IsDue
<1> HIDE DEF made
<1>7. Scheduled(made, t)
  BY <1>5 DEF Scheduled
<1>8. ExpectedTime(made, day, {}) = time
  BY <1>5 DEF ExpectedTime
<1>9. HasWindow(made, day, {})
  BY <1>4, <1>8, CalendarAssumption DEF HasWindow, Minutes
<1>10. /\ Opens(made, day, {}) = At(day, time)
       /\ Closes(made, day, {}) = At(day, time) + tolerance
  BY <1>5, <1>8 DEF Opens, Closes
<1> QED BY <1>4, <1>6, <1>7, <1>9, <1>10, TimedWindow, SuccessIsWindow DEF made

-----------------------------------------------------------------------------
(* The page                                                                *)

\* A set of naturals has a least element, which Min chooses.
LEMMA LeastOfNaturals ==
  ASSUME NEW S \in SUBSET Nat, S # {}
  PROVE  Min(S) \in S /\ \A y \in S : Min(S) <= y
<1> DEFINE Less == {ss \in Nat \X Nat : ss[1] < ss[2]}
<1>1. IsWellFoundedOn(Less, Nat)
  BY NatLessThanWellFounded DEF OpToRel
<1>2. PICK x \in S : \A y \in S : ~ (<<y, x>> \in Less)
  BY <1>1, WFMin, Zenon
<1>3. ASSUME NEW y \in S, y < x PROVE FALSE
  <2> DEFINE pair == <<y, x>>
  <2>1. pair \in Nat \X Nat /\ pair[1] = y /\ pair[2] = x
    OBVIOUS
  <2> HIDE DEF pair
  <2>2. pair \in Less
    BY <1>3, <2>1
  <2> QED BY <1>2, <2>2 DEF pair
<1>4. \A y \in S : x <= y
  BY <1>3
<1> QED BY <1>4 DEF Min

\* A finite set of naturals has a greatest element, which Max chooses.
LEMMA GreatestOfNaturals ==
  ASSUME NEW S \in SUBSET Nat, S # {}, IsFiniteSet(S)
  PROVE  Max(S) \in S /\ \A y \in S : y <= Max(S)
<1> DEFINE above(x) == {y \in S : y > x}
           counts == {Cardinality(above(x)) : x \in S}
<1>1. \A x \in S : IsFiniteSet(above(x)) /\ Cardinality(above(x)) \in Nat
  BY FS_Subset, FS_CardinalityType
<1>2. counts \in SUBSET Nat /\ counts # {}
  BY <1>1
<1>3. PICK x \in S : \A y \in S : Cardinality(above(x)) <= Cardinality(above(y))
  <2>1. Min(counts) \in counts /\ \A n \in counts : Min(counts) <= n
    <3> HIDE DEF counts
    <3> QED BY <1>2, LeastOfNaturals
  <2> QED BY <2>1
<1>4. ASSUME NEW y \in S, y > x PROVE FALSE
  <2>1. above(y) \in SUBSET (above(x) \ {y}) /\ y \in above(x)
    <3>1. x \in Int /\ y \in Int /\ \A z \in S : z \in Int
      OBVIOUS
    <3>2. ASSUME NEW z \in S, z > y PROVE z > x /\ z # y
      BY <1>4, <3>1, <3>2
    <3> QED BY <1>4, <3>2
  <2>2. /\ IsFiniteSet(above(x) \ {y}) /\ Cardinality(above(x) \ {y}) = Cardinality(above(x)) - 1
        /\ Cardinality(above(x)) \in Nat /\ Cardinality(above(y)) \in Nat
    <3>1. IsFiniteSet(above(x)) /\ Cardinality(above(x)) \in Nat /\ Cardinality(above(y)) \in Nat
      BY <1>1
    <3> HIDE DEF above
    <3> QED BY <2>1, <3>1, FS_RemoveElement
  <2>3. Cardinality(above(y)) <= Cardinality(above(x)) - 1
    <3> HIDE DEF above
    <3> QED BY <2>1, <2>2, FS_Subset
  <2> HIDE DEF above
  <2> QED BY <1>3, <2>2, <2>3
<1>5. \A y \in S : y <= x
  BY <1>4
<1> QED BY <1>5 DEF Max

\* What the boletin yields is of one draw, if whatever stands between the name
\* of a game and the next name is of one draw: its number, its date and its
\* result come from one part, however many games the page has, however long
\* their parts are and whichever draws are pending (AntioquenitaHtmlParser).
THEOREM BoletinKeepsDrawsApart ==
  ASSUME NEW doc \in Seq([label : Labels, of : Draw]),
         \A t \in Where(doc, {"titulo"}), j \in DOMAIN doc :
           j > t /\ (\A k \in Where(doc, {"titulo"}) : k > t => j < k) => doc[j].of = doc[t].of,
         NEW record \in Boletin(doc)
  PROVE  OneDraw(record)
<1> DEFINE Found(t, labels) == Part(doc, t) \cap Where(doc, labels)
           First(t, labels) == doc[Min(Found(t, labels))]
           Heads == {"sorteo", "proximo"}
           Results == {"resultado", "numero"}
<1>1. PICK t \in Where(doc, {"titulo"}) :
        /\ Found(t, Heads) # {} /\ Found(t, {"fecha"}) # {} /\ Found(t, Results) # {}
        /\ record = Record(doc[t].of.game, First(t, Heads).of, First(t, {"fecha"}).of.day,
                           First(t, Results), Nothing, "game")
  BY DEF Boletin
<1>2. ASSUME NEW labels, Found(t, labels) # {}
      PROVE  First(t, labels).of = doc[t].of /\ First(t, labels).label \in labels
  <2> DEFINE j == Min(Found(t, labels))
  <2>1. DOMAIN doc \subseteq Nat
    <3> DEFINE T == [label : Labels, of : Draw]
    <3>1. doc \in Seq(T)
      OBVIOUS
    <3> HIDE DEF T
    <3> QED BY <3>1
  <2>2. Found(t, labels) \in SUBSET Nat
    BY <2>1 DEF Where
  <2>3. j \in Found(t, labels)
    BY <1>2, <2>2, LeastOfNaturals
  <2> HIDE DEF j
  <2>4. j \in DOMAIN doc /\ j > t /\ (\A k \in Where(doc, {"titulo"}) : k > t => j < k)
    BY <2>3 DEF Part
  <2>5. doc[j].label \in labels
    BY <2>3 DEF Where
  <2> QED BY <2>4, <2>5 DEF j
<1> HIDE DEF Found, First
<1>3. /\ First(t, Heads).of = doc[t].of /\ First(t, {"fecha"}).of = doc[t].of
      /\ First(t, Results).of = doc[t].of /\ First(t, Results).label \in Results
  BY <1>1, <1>2
<1>4. /\ record.label \in Results /\ record.result = doc[t].of
      /\ record.game = doc[t].of.game /\ record.date = doc[t].of.day
      /\ record.number = doc[t].of /\ record.series = Nothing
  BY <1>1, <1>3 DEF Record
<1> QED BY <1>4 DEF OneDraw

Text == [label : Labels, of : Draw]

\* A text of the draw of the result at i is nearer to it than any of another draw.
OwnIsNearest(doc, i, js) ==
  \E j \in js : /\ doc[j].of = doc[i].of
               /\ \A k \in js : doc[k].of # doc[i].of => Distance(doc, i, j) < Distance(doc, i, k)

LEMMA NearestIsOwn ==
  ASSUME NEW doc, NEW i, NEW js, OwnIsNearest(doc, i, js),
         \A j \in js : Distance(doc, i, j) \in Nat
  PROVE  /\ ClosestTo(doc, i, js) # {}
         /\ \A c \in ClosestTo(doc, i, js) : doc[c].of = doc[i].of
<1> DEFINE far == {Distance(doc, i, j) : j \in js}
<1>1. PICK own \in js : /\ doc[own].of = doc[i].of
                        /\ \A k \in js : doc[k].of # doc[i].of => Distance(doc, i, own) < Distance(doc, i, k)
  BY DEF OwnIsNearest
<1>2. far \in SUBSET Nat /\ far # {}
  OBVIOUS
<1>3. PICK c \in js : \A k \in js : Distance(doc, i, c) <= Distance(doc, i, k)
  <2>1. Min(far) \in far /\ \A n \in far : Min(far) <= n
    <3> HIDE DEF far
    <3> QED BY <1>2, LeastOfNaturals
  <2> QED BY <2>1
<1>4. ASSUME NEW k \in ClosestTo(doc, i, js), doc[k].of # doc[i].of PROVE FALSE
  <2>1. /\ Distance(doc, i, k) <= Distance(doc, i, own) /\ Distance(doc, i, own) < Distance(doc, i, k)
        /\ Distance(doc, i, k) \in Nat /\ Distance(doc, i, own) \in Nat
    BY <1>1, <1>4 DEF ClosestTo
  <2> QED BY <2>1
<1> QED BY <1>3, <1>4 DEF ClosestTo

\* The part that is looked for by distance is then of the result's draw.
LEMMA NearestDrawIsOwn ==
  ASSUME NEW doc, DOMAIN doc \subseteq Nat, NEW i, NEW js \in SUBSET DOMAIN doc,
         OwnIsNearest(doc, i, js), \A j \in js : Distance(doc, i, j) \in Nat
  PROVE  NearestDraw(doc, i, js) = doc[i].of
<1>1. /\ ClosestTo(doc, i, js) \in SUBSET Nat /\ ClosestTo(doc, i, js) # {} /\ js # {}
      /\ \A c \in ClosestTo(doc, i, js) : doc[c].of = doc[i].of
  <2>1. ClosestTo(doc, i, js) \in SUBSET js
    BY DEF ClosestTo
  <2>2. ClosestTo(doc, i, js) # {} /\ \A c \in ClosestTo(doc, i, js) : doc[c].of = doc[i].of
    BY NearestIsOwn
  <2> QED BY <2>1, <2>2
<1>2. Min(ClosestTo(doc, i, js)) \in ClosestTo(doc, i, js)
  BY <1>1, LeastOfNaturals
<1> QED BY <1>1, <1>2 DEF NearestDraw

\* And so is the date, when one of the result's own draw is in reach: DateOf passes
\* over no date, as none is later than the latest.
LEMMA DateIsOwn ==
  ASSUME NEW doc \in Seq(Text), NEW i \in DOMAIN doc,
         \A j \in DOMAIN doc : Distance(doc, i, j) \in Nat,
         OwnIsNearest(doc, i, InReach(doc, i, Where(doc, {"fecha"})))
  PROVE  DateOf(doc, i) = doc[i].of.day
<1> DEFINE dates == Where(doc, {"fecha"})
           days == Days(doc)
           nearby == InReach(doc, i, dates)
<1>1. /\ DOMAIN doc = 1 .. Len(doc) /\ Len(doc) \in Nat
      /\ \A j \in DOMAIN doc : doc[j].of \in Draw /\ doc[j].of.day \in Nat
  <2> HIDE DEF Text
  <2>1. DOMAIN doc = 1 .. Len(doc) /\ Len(doc) \in Nat /\ \A j \in DOMAIN doc : doc[j] \in Text
    OBVIOUS
  <2> QED BY <2>1 DEF Text, Draw
<1>2. IsFiniteSet(dates) /\ dates \in SUBSET DOMAIN doc
  <2>1. IsFiniteSet(DOMAIN doc)
    BY <1>1, FS_Interval
  <2> QED BY <2>1, FS_Subset DEF Where
<1>3. nearby \in SUBSET dates /\ dates # {}
  BY DEF InReach, OwnIsNearest
<1>4. days = {doc[j].of.day : j \in dates}
  BY DEF Days, DaysAt
<1>5. IsFiniteSet(days)
  <2> DEFINE f == [j \in dates |-> doc[j].of.day]
  <2>1. f \in Surjection(dates, days)
    BY <1>4 DEF Surjection
  <2> HIDE DEF f, dates, days
  <2> QED BY <1>2, <2>1, FS_Surjection
<1>6. \A day \in days : day <= Max(days)
  <2>1. days \in SUBSET Nat /\ days # {}
    BY <1>1, <1>2, <1>3, <1>4
  <2> HIDE DEF days
  <2> QED BY <1>5, <2>1, GreatestOfNaturals
<1>7. {j \in dates : doc[j].of.day <= Max(days)} = dates
  BY <1>4, <1>6
<1>8. DateOf(doc, i) = DayFrom(doc, i, dates, nearby, Max(days))
  BY <1>3, <1>7 DEF DateOf, DateNear
<1>9. /\ ClosestTo(doc, i, nearby) # {} /\ nearby # {}
      /\ \A c \in ClosestTo(doc, i, nearby) : doc[c].of = doc[i].of
  <2>1. OwnIsNearest(doc, i, nearby) /\ \A j \in nearby : Distance(doc, i, j) \in Nat
    BY <1>2, <1>3
  <2> HIDE DEF nearby
  <2>2. /\ ClosestTo(doc, i, nearby) # {}
        /\ \A c \in ClosestTo(doc, i, nearby) : doc[c].of = doc[i].of
    BY <2>1, NearestIsOwn
  <2> QED BY <2>2 DEF ClosestTo
<1>10. DaysAt(doc, ClosestTo(doc, i, nearby)) = {doc[i].of.day}
  BY <1>9 DEF DaysAt
<1>11. Max({doc[i].of.day}) = doc[i].of.day
  BY <1>1 DEF Max
<1> QED BY <1>8, <1>9, <1>10, <1>11 DEF DayFrom

-----------------------------------------------------------------------------
(* The clock, with the pages that change under it                          *)

\* What the arguments need of a state.
Placed == now \in Nat /\ schedule \in Schedules /\ calendar \in Calendars

\* A page changes, and a page is fetched, in no time: the clock of WatchSpec is
\* that of CalendarClock.
LEMMA WatchRunsTheClock == WatchSpec => Spec
<1>1. WatchInit => Init
  BY DEF WatchInit
<1>2. [WatchNext]_watchVars => [Next]_vars
  BY DEF WatchNext, watchVars, Pass, Next, Announce, Publish, FetchPrimary, FetchEnds
<1> QED BY <1>1, <1>2, PTL DEF WatchSpec, Spec

LEMMA AlwaysPlaced == Spec => []Placed
<1>1. Init => Placed
  BY DEF Init, Placed
<1>2. Placed /\ [Next]_vars => Placed'
  BY DEF Placed, Next, Tick, vars
<1> QED BY <1>1, <1>2, PTL DEF Spec

\* A result goes in front, and of the old ones as many stay as the page keeps.
LEMMA Shortened ==
  ASSUME NEW past \in Seq(Nat), NEW day \in Nat, NEW keep \in Nat \ {0}
  PROVE  LET t == SubSeq(<<day>> \o past, 1, Min({keep, Len(past) + 1}))
         IN  /\ t \in Seq(Nat) /\ Len(t) \in Nat /\ DOMAIN t = 1 .. Len(t) /\ 1 \in DOMAIN t
             /\ Len(t) <= keep /\ t[1] = day
             /\ \A i \in DOMAIN t : i # 1 => i - 1 \in DOMAIN past /\ t[i] = past[i - 1]
<1> DEFINE s == <<day>> \o past
           n == Min({keep, Len(past) + 1})
           t == SubSeq(s, 1, n)
<1>1. /\ s \in Seq(Nat) /\ Len(s) = Len(past) + 1 /\ Len(past) \in Nat /\ DOMAIN past = 1 .. Len(past)
      /\ s[1] = day /\ \A i \in 1 .. Len(s) : i # 1 => s[i] = past[i - 1]
  <2>1. <<day>> \in Seq(Nat) /\ Len(<<day>>) = 1 /\ <<day>>[1] = day
    OBVIOUS
  <2> DEFINE d == <<day>>
  <2>2. /\ d \o past \in Seq(Nat) /\ Len(d \o past) = 1 + Len(past)
        /\ \A i \in 1 .. 1 + Len(past) : (d \o past)[i] = IF i <= 1 THEN d[i] ELSE past[i - 1]
    BY <2>1, ConcatProperties
  <2>3. Len(past) \in Nat /\ DOMAIN past = 1 .. Len(past)
    OBVIOUS
  <2> HIDE DEF d
  <2> QED BY <2>1, <2>2, <2>3 DEF d
<1>2. n \in Nat /\ 1 <= n /\ n <= keep /\ n <= Len(past) + 1
  <2> DEFINE S == {keep, Len(past) + 1}
  <2>1. S \in SUBSET Nat /\ S # {} /\ keep \in S /\ Len(past) + 1 \in S /\ \A x \in S : 1 <= x
    OBVIOUS
  <2> HIDE DEF S
  <2>2. Min(S) \in S /\ \A x \in S : Min(S) <= x
    BY <2>1, LeastOfNaturals
  <2>3. Min(S) \in Nat /\ 1 <= Min(S) /\ Min(S) <= keep /\ Min(S) <= Len(past) + 1
    BY <2>1, <2>2
  <2> QED BY <2>3 DEF S
<1> HIDE DEF s, n
<1>3. t \in Seq(Nat) /\ Len(t) = n /\ \A i \in 1 .. n : t[i] = s[i]
  <2>1. \A i \in 1 .. n : s[i] \in Nat
    BY <1>1, <1>2
  <2>2. /\ t \in Seq(Nat) /\ Len(t) = IF 1 <= n THEN n - 1 + 1 ELSE 0
        /\ \A i \in 1 .. n - 1 + 1 : t[i] = s[1 + i - 1]
    BY <1>1, <1>2, <2>1, SubSeqProperties
  <2>3. n - 1 + 1 = n /\ \A i \in 1 .. n : 1 + i - 1 = i
    BY <1>2
  <2> HIDE DEF t
  <2> QED BY <1>2, <2>2, <2>3
<1>4. DOMAIN t = 1 .. n
  BY <1>3
<1> HIDE DEF t
<1>5. \A i \in 1 .. n : i # 1 => i - 1 \in 1 .. Len(past) /\ i \in 1 .. Len(s)
  BY <1>1, <1>2
<1>6. 1 \in 1 .. n /\ n <= keep
  BY <1>2
<1> QED BY <1>1, <1>2, <1>3, <1>4, <1>5, <1>6 DEF t, s, n

LEMMA DaysAreNaturals == ASSUME TypeOK PROVE DayOf(now) \in Nat
<1>1. now \in Nat
  BY ClockAssumption DEF TypeOK
<1> QED BY <1>1, InstantInDay

LEMMA SiteOfCode ==
  ASSUME Watched
  PROVE  site.games \in Seq(STRING) \ {<<>>} /\ site.keep \in Nat \ {0}
  BY SiteAssumption DEF Watched, site, Site

\* What a page shows are days, and a counter that is read is one of them.
THEOREM WatchTypeCorrect == WatchSpec => []WatchTypeOK
<1>1. WatchInit => WatchTypeOK
  <2> SUFFICES ASSUME WatchInit PROVE WatchTypeOK
    OBVIOUS
  <2>1. TypeOK
    BY ClockAssumption DEF WatchInit, Init, TypeOK
  <2>2. [past |-> <<>>, next |-> Nothing] \in Shown
    BY DEF Shown, ShownDays
  <2>3. page \in [DOMAIN Games -> Shown]
    BY <2>2 DEF WatchInit
  <2> QED BY <2>1, <2>3 DEF WatchInit, WatchTypeOK
<1>2. WatchTypeOK /\ [WatchNext]_watchVars => WatchTypeOK'
  <2> SUFFICES ASSUME WatchTypeOK, [WatchNext]_watchVars PROVE WatchTypeOK'
    OBVIOUS
  <2> USE DEF WatchTypeOK
  <2>1. TypeOK' /\ Games' = Games
    <3>1. [Next]_vars
      BY DEF WatchNext, watchVars, Pass, Next, Announce, Publish, FetchPrimary, FetchEnds
    <3>2. TypeOK'
      BY <3>1, ClockAssumption DEF TypeOK, Next, Tick, vars
    <3>3. schedule' = schedule
      BY <3>1 DEF Next, Tick, vars
    <3> QED BY <3>2, <3>3 DEF Games, Watched, site, code
  <2>2. ASSUME NEW g \in DOMAIN Games, Announce(g) PROVE WatchTypeOK'
    <3>1. PICK day \in DayOf(now) .. DayOf(now) + 1 : page' = [page EXCEPT ![g].next = day]
      BY <2>2 DEF Announce
    <3>2. day \in ShownDays
      BY <3>1, DaysAreNaturals DEF ShownDays
    <3>3. page[g].past \in Seq(Nat) /\ page[g].next \in ShownDays /\ page[g] \in Shown
      BY DEF Shown
    <3>4. [page[g] EXCEPT !.next = day] \in Shown
      BY <3>2, <3>3 DEF Shown
    <3>5. page' \in [DOMAIN Games -> Shown]
      BY <3>1, <3>4
    <3> QED BY <2>1, <2>2, <3>5 DEF Announce
  <2>3. ASSUME NEW g \in DOMAIN Games, NEW day \in 0 .. DayOf(now), Publish(g, day) PROVE WatchTypeOK'
    <3> DEFINE past == SubSeq(<<day>> \o page[g].past, 1, Min({site.keep, Len(page[g].past) + 1}))
               next == IF page[g].next # Nothing /\ page[g].next <= day THEN Nothing ELSE page[g].next
    <3>1. page[g].past \in Seq(Nat) /\ page[g].next \in ShownDays
      BY DEF Shown
    <3>2. Watched
      BY <2>3 DEF Games
    <3>3. past \in Seq(Nat)
      <4>1. site.keep \in Nat \ {0}
        BY <3>2, SiteOfCode
      <4>2. DayOf(now) \in Nat
        BY DaysAreNaturals
      <4>3. day \in Nat
        BY <4>2
      <4> QED BY <3>1, <4>1, <4>3, Shortened
    <3>4. next \in ShownDays
      BY <3>1 DEF ShownDays
    <3>5. page' = [page EXCEPT ![g] = [past |-> past, next |-> next]]
      BY <2>3 DEF Publish
    <3> HIDE DEF past, next
    <3>6. page' \in [DOMAIN Games -> Shown]
      BY <3>3, <3>4, <3>5 DEF Shown
    <3> QED BY <2>1, <2>3, <3>6 DEF Publish
  <2>4. CASE FetchPrimary
    <3>1. Watched /\ primary' \in {<<Counter>>, <<Nothing>>} /\ page' = page
      BY <2>4 DEF FetchPrimary, TwoPages
    <3>2. Counter \in ShownDays
      <4>1. 1 \in DOMAIN Games
        BY <3>1, SiteOfCode, EmptySeq DEF Games
      <4>2. page[1].past \in Seq(Nat)
        BY <4>1 DEF Shown
      <4>3. page[1].past # <<>> => page[1].past[1] \in Nat
        BY <4>2
      <4> QED BY <4>3 DEF Counter, ShownDays
    <3>3. Nothing \in ShownDays
      BY DEF ShownDays
    <3>4. \A d \in ShownDays : <<d>> \in Seq(ShownDays)
      <4> DEFINE S == ShownDays
      <4> SUFFICES \A d \in S : <<d>> \in Seq(S)
        OBVIOUS
      <4> HIDE DEF S
      <4> QED OBVIOUS
    <3>5. primary' \in Seq(ShownDays)
      BY <3>1, <3>2, <3>3, <3>4
    <3> QED BY <2>1, <3>1, <3>5
  <2>5. CASE FetchEnds
    BY <2>1, <2>5 DEF FetchEnds
  <2>6. CASE Pass
    BY <2>1, <2>6 DEF Pass, watch
  <2>7. CASE UNCHANGED watchVars
    BY <2>1, <2>7 DEF watchVars, watch
  <2> QED BY <2>2, <2>3, <2>4, <2>5, <2>6, <2>7 DEF WatchNext
<1> QED BY <1>1, <1>2, PTL DEF WatchSpec

(* However many schedules there are and however long the day and the week: *)
(* due_draws and evaluate_schedule agree about every regular schedule.     *)
THEOREM Agree == WatchSpec => []SchedulersAgree
<1>1. Placed => SchedulersAgree
  BY Agreement, ClockAssumption DEF Placed, SchedulersAgree
<1> QED BY <1>1, AlwaysPlaced, WatchRunsTheClock, PTL

(* DatedSchedule.is_due agrees with evaluate_schedule of the ScheduledDraw *)
(* that as_scheduled_draw makes, for every dated calendar and instant.     *)
THEOREM AgreeOnDates == WatchSpec => []DatedAgrees
<1>1. Placed => DatedAgrees
  BY DatedAgreement DEF Placed, DatedAgrees
<1> QED BY <1>1, AlwaysPlaced, WatchRunsTheClock, PTL

(* A day goes forward, whatever the schedule and the holidays: the answer  *)
(* of evaluate_schedule never returns to an earlier stage of the day.      *)
THEOREM Forward == WatchSpec => DayRunsForward
<1>3. Placed /\ Placed' /\ [Next]_vars =>
        [DayOf(now') = DayOf(now) =>
           Rank(Evaluate(schedule, now, holidays)) <= Rank(Evaluate(schedule, now, holidays)')]_vars
  <2> SUFFICES ASSUME Placed, Tick, DayOf(now') = DayOf(now)
               PROVE  Rank(Evaluate(schedule, now, holidays))
                        <= Rank(Evaluate(schedule, now, holidays)')
    BY DEF Next
  <2>1. now \in Nat /\ now' = now + 1 /\ schedule' = schedule /\ holidays' = holidays
    BY DEF Placed, Tick
  <2>2. Evaluate(schedule, now, holidays)' = Evaluate(schedule, now', holidays)
    BY <2>1 DEF Evaluate, Scheduled, HasWindow, ExpectedTime, Opens, Closes, DayOf, At, WeekdayOf
  <2>3. Scheduled(schedule, now) <=> Scheduled(schedule, now')
    BY <2>1 DEF Scheduled
  <2> DEFINE opens == Opens(schedule, DayOf(now), holidays)
             closes == Closes(schedule, DayOf(now), holidays)
  <2>4. CASE ~ Scheduled(schedule, now) \/ ~ HasWindow(schedule, DayOf(now), holidays)
    BY <2>2, <2>3, <2>4 DEF Evaluate, Rank
  <2>5. CASE Scheduled(schedule, now) /\ HasWindow(schedule, DayOf(now), holidays)
    <3>1. schedule \in ScheduledDraw
      BY ClockAssumption DEF Placed
    <3>2. opens \in Int /\ closes \in Int
      <4>1. CASE schedule.calendar_only
        <5>1. DayLength - 1 \in Int
          BY CalendarAssumption
        <5> QED BY <2>1, <4>1, <5>1, InstantInDay, AtShift DEF Opens, Closes
      <4>2. CASE ~ schedule.calendar_only
        <5> DEFINE time == ExpectedTime(schedule, DayOf(now), holidays)
        <5>1. time \in Minutes \cup {NoTime}
          BY <3>1, FirstTime DEF ExpectedTime, ScheduledDraw
        <5>2. time \in Int
          BY <2>5, <4>2, <5>1, CalendarAssumption DEF HasWindow, Minutes
        <5>3. schedule.tolerance \in Nat
          BY <3>1 DEF ScheduledDraw
        <5>4. At(DayOf(now), time) \in Int
          BY <2>1, <5>2, InstantInDay, AtShift
        <5> QED BY <4>2, <5>3, <5>4 DEF Opens, Closes
      <4> QED BY <4>1, <4>2
    <3> HIDE DEF opens, closes
    <3>3. (now < opens <=> FALSE) => ~ (now' < opens)
      BY <2>1, <3>2
    <3>4. now > closes => now' > closes
      BY <2>1, <3>2
    <3> QED BY <2>2, <2>3, <2>5, <3>3, <3>4 DEF Evaluate, Rank, opens, closes
  <2> QED BY <2>4, <2>5
<1> QED BY <1>3, AlwaysPlaced, WatchRunsTheClock, PTL DEF Spec, DayRunsForward

-----------------------------------------------------------------------------
(* What is defined from one position to the next                           *)

\* Induction, with a set in the place of the predicate.
LEMMA Counting ==
  ASSUME NEW S \in SUBSET Nat, 0 \in S, \A m \in S : m + 1 \in S
  PROVE  S = Nat
<1> SUFFICES ASSUME Nat \ S # {} PROVE FALSE
  OBVIOUS
<1> DEFINE missing == Nat \ S
           least == Min(missing)
<1>1. least \in missing /\ \A y \in missing : least <= y
  <2> HIDE DEF missing
  <2>1. missing \in SUBSET Nat /\ missing # {}
    BY DEF missing
  <2> QED BY <2>1, LeastOfNaturals
<1> HIDE DEF least
<1>2. least \in Nat /\ least # 0
  BY <1>1
<1>3. least - 1 \in S
  BY <1>1, <1>2
<1>4. least - 1 + 1 = least
  BY <1>2
<1> QED BY <1>1, <1>3, <1>4

\* What a function is that goes on from position to position.
Recurrence(f, F, base, n) == f[0] = base /\ \A i \in 1 .. n : f[i] = F[i][f[i - 1]]

\* Such a function exists.
LEMMA StepByStep ==
  ASSUME NEW X, NEW F \in [Nat -> [X -> X]], NEW base \in X, NEW n \in Nat
  PROVE  \E f \in [0 .. n -> X] : Recurrence(f, F, base, n)
<1> USE DEF Recurrence
<1> DEFINE Reaches(m) == \E f \in [0 .. m -> X] : Recurrence(f, F, base, m)
           S == {m \in Nat : Reaches(m)}
<1>1. Reaches(0)
  <2> DEFINE f == [i \in 0 .. 0 |-> base]
  <2>1. f \in [0 .. 0 -> X] /\ f[0] = base
    OBVIOUS
  <2>2. Recurrence(f, F, base, 0)
    OBVIOUS
  <2> HIDE DEF f
  <2> QED BY <2>1, <2>2
<1>2. ASSUME NEW m \in Nat, Reaches(m) PROVE Reaches(m + 1)
  <2>1. PICK f \in [0 .. m -> X] : f[0] = base /\ \A i \in 1 .. m : f[i] = F[i][f[i - 1]]
    BY <1>2
  <2> DEFINE h == [i \in 0 .. m + 1 |-> IF i = m + 1 THEN F[m + 1][f[m]] ELSE f[i]]
  <2>2. h \in [0 .. m + 1 -> X]
    BY <2>1
  <2>3. Recurrence(h, F, base, m + 1)
    <3>1. h[0] = base
      BY <2>1
    <3>2. ASSUME NEW i \in 1 .. m + 1 PROVE h[i] = F[i][h[i - 1]]
      <4>1. CASE i = m + 1
        BY <4>1
      <4>2. CASE i # m + 1
        <5>1. i \in 1 .. m /\ i - 1 \in 0 .. m + 1 /\ i - 1 # m + 1 /\ i \in 0 .. m + 1
          BY <4>2
        <5> QED BY <2>1, <4>2, <5>1
      <4> QED BY <4>1, <4>2
    <3> QED BY <3>1, <3>2
  <2> HIDE DEF h, Recurrence
  <2> QED BY <2>2, <2>3
<1> HIDE DEF Reaches
<1>3. S = Nat
  <2>1. S \in SUBSET Nat /\ 0 \in S /\ \A m \in S : m + 1 \in S
    BY <1>1, <1>2
  <2> HIDE DEF S
  <2> QED BY <2>1, Counting
<1> HIDE DEF Recurrence
<1> QED BY <1>3 DEF Reaches

-----------------------------------------------------------------------------
\* Where each of the sequences begins in what they are together.
Sections(flat, seqs, off) ==
  /\ off \in [1 .. Len(seqs) + 1 -> Nat] /\ off[1] = 0 /\ off[Len(seqs) + 1] = Len(flat)
  /\ \A e \in DOMAIN seqs :
       /\ off[e + 1] = off[e] + Len(seqs[e])
       /\ \A k \in DOMAIN seqs[e] : off[e] + k \in DOMAIN flat /\ flat[off[e] + k] = seqs[e][k]
  /\ \A e, f \in DOMAIN seqs : e < f => off[e + 1] <= off[f]
  /\ \A j \in DOMAIN flat : \E e \in DOMAIN seqs : \E k \in DOMAIN seqs[e] : j = off[e] + k

\* The equation of FlattenSeq.
LEMMA FlattenEquation ==
  ASSUME NEW T, NEW seqs \in Seq(Seq(T)), Len(seqs) # 0
  PROVE  \E g : /\ g = [i \in 1 .. Len(seqs) |-> IF i = 1 THEN seqs[i] ELSE g[i - 1] \o seqs[i]]
                /\ FlattenSeq(seqs) = g[Len(seqs)]
<1> DEFINE X == Seq(T)
           n == Len(seqs)
           none == <<>>
           F == [i \in Nat |-> [x \in X |-> IF i \in 1 .. n THEN x \o seqs[i] ELSE x]]
<1>1. n \in Nat /\ n # 0 /\ \A i \in 1 .. n : seqs[i] \in X
  <2>1. seqs \in Seq(X)
    OBVIOUS
  <2> HIDE DEF X
  <2> QED BY <2>1
<1>2. \A x, y \in X : x \o y \in X
  BY ConcatProperties
<1>3. none \in X /\ \A x \in X : none \o x = x
  BY ConcatEmptySeq, EmptySeq
<1> HIDE DEF X, n, none
<1>4. F \in [Nat -> [X -> X]]
  BY <1>1, <1>2
<1>5. PICK f \in [0 .. n -> X] : Recurrence(f, F, none, n)
  <2> HIDE DEF F
  <2>1. n \in Nat /\ none \in X /\ F \in [Nat -> [X -> X]]
    BY <1>1, <1>3, <1>4
  <2> QED BY <2>1, StepByStep
<1>6. ASSUME NEW i \in 1 .. n PROVE f[i] = f[i - 1] \o seqs[i]
  <2>1. i \in Nat /\ i - 1 \in 0 .. n
    BY <1>1
  <2>2. f[i - 1] \in X /\ f[i] = F[i][f[i - 1]]
    BY <1>5, <2>1 DEF Recurrence
  <2> HIDE DEF F
  <2>3. F[i] = [x \in X |-> x \o seqs[i]]
    BY <2>1 DEF F
  <2> QED BY <2>2, <2>3
<1> DEFINE h == [i \in 1 .. n |-> f[i]]
<1>7. h = [i \in 1 .. n |-> IF i = 1 THEN seqs[i] ELSE h[i - 1] \o seqs[i]]
  <2>1. ASSUME NEW i \in 1 .. n PROVE f[i] = IF i = 1 THEN seqs[i] ELSE h[i - 1] \o seqs[i]
    <3>1. CASE i = 1
      <4>0. 1 - 1 = 0
        OBVIOUS
      <4>1. f[1] = f[1 - 1] \o seqs[1] /\ seqs[1] \in X
        BY <1>1, <1>6, <3>1
      <4> QED BY <1>3, <1>5, <3>1, <4>0, <4>1 DEF Recurrence
    <3>2. CASE i # 1
      <4>1. i - 1 \in 1 .. n
        BY <1>1, <3>2
      <4> QED BY <1>6, <3>2, <4>1
    <3> QED BY <3>1, <3>2
  <2> QED BY <2>1
<1> HIDE DEF h
<1> QED BY <1>1, <1>7 DEF FlattenSeq, n

LEMMA Flattened ==
  ASSUME NEW T, NEW seqs \in Seq(Seq(T))
  PROVE  /\ FlattenSeq(seqs) \in Seq(T)
         /\ \E off : Sections(FlattenSeq(seqs), seqs, off)
<1> DEFINE X == Seq(T)
           n == Len(seqs)
<1>1. n \in Nat /\ DOMAIN seqs = 1 .. n /\ \A i \in 1 .. n : seqs[i] \in X
  <2>1. seqs \in Seq(X)
    OBVIOUS
  <2> HIDE DEF X
  <2> QED BY <2>1
<1>2. \A x, y \in X : /\ x \o y \in X /\ Len(x \o y) = Len(x) + Len(y) /\ Len(x) \in Nat /\ DOMAIN x = 1 .. Len(x)
                      /\ \A i \in 1 .. Len(x) + Len(y) : (x \o y)[i] = IF i <= Len(x) THEN x[i] ELSE y[i - Len(x)]
  BY ConcatProperties
<1>3. CASE n = 0
  <2>1. seqs = <<>> /\ FlattenSeq(seqs) = <<>>
    BY <1>3, EmptySeq DEF FlattenSeq
  <2>2. <<>> \in Seq(T) /\ Len(<<>>) = 0
    BY EmptySeq
  <2>3. Sections(<<>>, <<>>, [e \in 1 .. 1 |-> 0])
    BY <2>2 DEF Sections
  <2> QED BY <2>1, <2>2, <2>3
<1>4. CASE n # 0
  <2>1. PICK g : /\ g = [i \in 1 .. n |-> IF i = 1 THEN seqs[i] ELSE g[i - 1] \o seqs[i]]
                 /\ FlattenSeq(seqs) = g[n]
    BY <1>4, FlattenEquation
  <2>2. g[1] = seqs[1] /\ \A i \in 2 .. n : g[i] = g[i - 1] \o seqs[i]
    <3>1. 1 \in 1 .. n /\ \A i \in 2 .. n : i \in 1 .. n /\ i # 1
      BY <1>1, <1>4
    <3> HIDE DEF n
    <3>2. \A i \in 1 .. n : g[i] = IF i = 1 THEN seqs[i] ELSE g[i - 1] \o seqs[i]
      BY <2>1
    <3> QED BY <3>1, <3>2
  <2> HIDE DEF X, n
  <2> DEFINE off == [e \in 1 .. n + 1 |-> IF e = 1 THEN 0 ELSE Len(g[e - 1])]
             Good(p) ==
               /\ g[p] \in X
               /\ \A e \in 1 .. p : off[e] \in Nat /\ off[e + 1] \in Nat /\ off[e + 1] <= Len(g[p])
               /\ \A e \in 1 .. p :
                    /\ off[e + 1] = off[e] + Len(seqs[e])
                    /\ \A k \in 1 .. Len(seqs[e]) : g[p][off[e] + k] = seqs[e][k]
               /\ \A e, f \in 1 .. p : e < f => off[e + 1] <= off[f]
               /\ \A j \in 1 .. Len(g[p]) : \E e \in 1 .. p : \E k \in 1 .. Len(seqs[e]) : j = off[e] + k
             S == {m \in Nat : m + 1 <= n => Good(m + 1)}
  <2>3. Good(1)
    <3>1. 1 \in 1 .. n /\ seqs[1] \in X /\ off[1] = 0 /\ off[2] = Len(g[1]) /\ Len(seqs[1]) \in Nat
      BY <1>1, <1>2, <1>4
    <3>2. 1 .. 1 = {1} /\ 1 + 1 = 2
      OBVIOUS
    <3> HIDE DEF off
    <3>3. \A k \in 1 .. Len(seqs[1]) : 0 + k = k
      BY <3>1
    <3> QED BY <2>2, <3>1, <3>2, <3>3
  <2>4. ASSUME NEW p \in 1 .. n, p + 1 <= n, Good(p) PROVE Good(p + 1)
    <3> DEFINE q == p + 1
               x == g[p]
               y == seqs[q]
    <3>1. q \in 2 .. n /\ q \in 1 .. n /\ q - 1 = p /\ q + 1 \in 1 .. n + 1 /\ q \in 1 .. n + 1 /\ q # 1
          /\ q + 1 # 1 /\ q + 1 - 1 = q /\ q \in Nat /\ p \in Nat /\ p < q
      BY <1>1, <2>4
    <3> HIDE DEF q
    <3>2. x \in X /\ y \in X /\ g[q] = x \o y
      BY <1>1, <2>2, <2>4, <3>1
    <3>4. off[q] = Len(x) /\ off[q + 1] = Len(g[q])
      BY <3>1
    <3>5. /\ \A e \in 1 .. p : off[e] \in Nat /\ off[e + 1] \in Nat /\ off[e + 1] <= Len(x)
          /\ \A e \in 1 .. p : /\ off[e + 1] = off[e] + Len(seqs[e])
                               /\ \A k \in 1 .. Len(seqs[e]) : x[off[e] + k] = seqs[e][k]
          /\ \A e, f \in 1 .. p : e < f => off[e + 1] <= off[f]
          /\ \A j \in 1 .. Len(x) : \E e \in 1 .. p : \E k \in 1 .. Len(seqs[e]) : j = off[e] + k
      BY <2>4
    <3>6. \A e \in 1 .. p : Len(seqs[e]) \in Nat
      BY <1>1, <1>2, <3>1
    <3>7. \A e \in 1 .. q : e \in 1 .. p \/ e = q
      BY <3>1 DEF q
    <3> HIDE DEF off, x, y
    <3>3. /\ g[q] \in X /\ Len(g[q]) = Len(x) + Len(y) /\ Len(x) \in Nat /\ Len(y) \in Nat
          /\ \A i \in 1 .. Len(x) + Len(y) : g[q][i] = IF i <= Len(x) THEN x[i] ELSE y[i - Len(x)]
      BY <1>2, <3>2
    <3>8. \A e \in 1 .. q : off[e] \in Nat /\ off[e + 1] \in Nat /\ off[e + 1] <= Len(g[q])
      <4>1. off[q] \in Nat /\ off[q + 1] \in Nat /\ off[q + 1] <= Len(g[q])
        BY <3>3, <3>4
      <4>2. ASSUME NEW e \in 1 .. p PROVE off[e + 1] <= Len(g[q])
        BY <3>3, <3>5
      <4> QED BY <3>5, <3>7, <4>1, <4>2
    <3>9. ASSUME NEW e \in 1 .. q
          PROVE  /\ off[e + 1] = off[e] + Len(seqs[e])
                 /\ \A k \in 1 .. Len(seqs[e]) : g[q][off[e] + k] = seqs[e][k]
      <4>1. CASE e = q
        <5>1. off[q + 1] = off[q] + Len(seqs[q])
          BY <3>3, <3>4 DEF y
        <5>2. ASSUME NEW k \in 1 .. Len(y) PROVE g[q][Len(x) + k] = y[k]
          <6>1. Len(x) + k \in 1 .. Len(x) + Len(y) /\ ~ (Len(x) + k <= Len(x)) /\ Len(x) + k - Len(x) = k
            BY <3>3
          <6> QED BY <3>3, <6>1
        <5> QED BY <3>4, <4>1, <5>1, <5>2 DEF y
      <4>2. CASE e \in 1 .. p
        <5>1. ASSUME NEW k \in 1 .. Len(seqs[e]) PROVE g[q][off[e] + k] = x[off[e] + k]
          <6>1. off[e] \in Nat /\ Len(seqs[e]) \in Nat /\ off[e] + Len(seqs[e]) <= Len(x) /\ Len(x) \in Nat
            BY <3>3, <3>5, <3>6, <4>2
          <6>2. k \in Nat /\ 1 <= k /\ k <= Len(seqs[e])
            BY <6>1
          <6> DEFINE o == off[e]
                     l == Len(seqs[e])
                     c == Len(x)
                     d == Len(y)
          <6>5. o \in Nat /\ l \in Nat /\ o + l <= c /\ c \in Nat /\ d \in Nat /\ k \in Nat /\ 1 <= k /\ k <= l
            BY <3>3, <6>1, <6>2
          <6> HIDE DEF o, l, c, d
          <6>6. o + k \in Nat /\ 1 <= o + k /\ o + k <= c /\ o + k \in 1 .. c + d
            BY <6>5
          <6>3. off[e] + k \in Nat /\ 1 <= off[e] + k /\ off[e] + k <= Len(x)
            BY <6>6 DEF o, c
          <6>4. off[e] + k \in 1 .. Len(x) + Len(y)
            BY <6>6 DEF o, c, d
          <6> QED BY <3>3, <6>3, <6>4
        <5> QED BY <3>5, <4>2, <5>1
      <4> QED BY <3>7, <4>1, <4>2
    <3>10. ASSUME NEW e \in 1 .. q, NEW f \in 1 .. q, e < f PROVE off[e + 1] <= off[f]
      <4>1. e \in 1 .. p
        BY <3>1, <3>7, <3>10
      <4>2. CASE f = q
        BY <3>4, <3>5, <4>1, <4>2
      <4>3. CASE f \in 1 .. p
        BY <3>5, <3>10, <4>1, <4>3
      <4> QED BY <3>7, <4>2, <4>3
    <3>11. ASSUME NEW j \in 1 .. Len(g[q]) PROVE \E e \in 1 .. q : \E k \in 1 .. Len(seqs[e]) : j = off[e] + k
      <4>0. q \in 1 .. q /\ \A e \in 1 .. p : e \in 1 .. q
        BY <3>1
      <4>1. CASE j <= Len(x)
        <5>1. j \in 1 .. Len(x)
          BY <3>3, <4>1
        <5> QED BY <3>5, <4>0, <5>1
      <4>2. CASE ~ (j <= Len(x))
        <5>1. j - Len(x) \in 1 .. Len(y) /\ j = off[q] + (j - Len(x))
          BY <3>3, <3>4, <4>2
        <5> QED BY <4>0, <5>1 DEF y
      <4> QED BY <4>1, <4>2
    <3>12. Good(q)
      BY <3>3, <3>8, <3>9, <3>10, <3>11
    <3> QED BY <3>12 DEF q
  <2> HIDE DEF Good
  <2>5. S = Nat
    <3>1. ASSUME NEW m \in S PROVE m + 1 \in S
      <4>1. CASE m + 1 + 1 <= n
        <5>1. m + 1 \in 1 .. n /\ m + 1 <= n /\ m + 1 \in Nat
          BY <1>1, <4>1
        <5>2. Good(m + 1 + 1)
          BY <2>4, <4>1, <5>1
        <5> QED BY <5>1, <5>2
      <4>2. CASE ~ (m + 1 + 1 <= n)
        BY <4>2
      <4> QED BY <4>1, <4>2
    <3>2. S \in SUBSET Nat /\ 0 \in S
      BY <2>3
    <3> HIDE DEF S
    <3> QED BY <3>1, <3>2, Counting
  <2>6. Good(n)
    <3>1. n - 1 \in S /\ n - 1 + 1 = n /\ n <= n
      <4>1. n - 1 \in Nat /\ n - 1 + 1 = n /\ n <= n
        BY <1>1, <1>4
      <4> HIDE DEF S
      <4> QED BY <2>5, <4>1
    <3> QED BY <3>1
  <2>8. g[n] \in X /\ DOMAIN g[n] = 1 .. Len(g[n]) /\ Len(g[n]) \in Nat
    BY <1>2, <2>6 DEF Good
  <2>9. /\ off \in [1 .. n + 1 -> Nat] /\ off[1] = 0 /\ off[n + 1] = Len(g[n])
    <3>1. off[1] = 0 /\ off[n + 1] = Len(g[n])
      BY <1>1, <1>4
    <3>2. \A e \in 1 .. n : off[e] \in Nat
      BY <2>6 DEF Good
    <3>3. \A e \in 1 .. n + 1 : e \in 1 .. n \/ e = n + 1
      BY <1>1
    <3>4. \A e \in 1 .. n + 1 : off[e] \in Nat
      BY <2>8, <3>1, <3>2, <3>3
    <3> QED BY <3>1, <3>4
  <2>10. \A e \in 1 .. n : DOMAIN seqs[e] = 1 .. Len(seqs[e]) /\ Len(seqs[e]) \in Nat
    BY <1>1, <1>2
  <2> HIDE DEF off, S
  <2>11. ASSUME NEW e \in 1 .. n, NEW k \in DOMAIN seqs[e] PROVE off[e] + k \in DOMAIN g[n]
    <3>1. off[e] \in Nat /\ off[e + 1] = off[e] + Len(seqs[e]) /\ off[e + 1] <= Len(g[n])
      BY <2>6 DEF Good
    <3>2. k \in Nat /\ 1 <= k /\ k <= Len(seqs[e]) /\ Len(seqs[e]) \in Nat
      BY <2>10
    <3>3. off[e] + k \in Nat /\ 1 <= off[e] + k /\ off[e] + k <= Len(g[n])
      <4> DEFINE o == off[e]
                 l == Len(seqs[e])
                 c == Len(g[n])
      <4>1. o \in Nat /\ l \in Nat /\ c \in Nat /\ o + l <= c /\ k \in Nat /\ 1 <= k /\ k <= l
        BY <2>8, <3>1, <3>2
      <4> HIDE DEF o, l, c
      <4>2. o + k \in Nat /\ 1 <= o + k /\ o + k <= c
        BY <4>1
      <4> QED BY <4>2 DEF o, c
    <3> QED BY <2>8, <3>3
  <2>12. Sections(g[n], seqs, off)
    <3>1. /\ \A e \in 1 .. n : /\ off[e + 1] = off[e] + Len(seqs[e])
                               /\ \A k \in 1 .. Len(seqs[e]) : g[n][off[e] + k] = seqs[e][k]
          /\ \A e, f \in 1 .. n : e < f => off[e + 1] <= off[f]
          /\ \A j \in 1 .. Len(g[n]) : \E e \in 1 .. n : \E k \in 1 .. Len(seqs[e]) : j = off[e] + k
      BY <2>6 DEF Good
    <3>2. off \in [1 .. Len(seqs) + 1 -> Nat] /\ off[1] = 0 /\ off[Len(seqs) + 1] = Len(g[n])
      BY <2>9 DEF n
    <3>3. \A e \in DOMAIN seqs :
            /\ off[e + 1] = off[e] + Len(seqs[e])
            /\ \A k \in DOMAIN seqs[e] : off[e] + k \in DOMAIN g[n] /\ g[n][off[e] + k] = seqs[e][k]
      BY <1>1, <2>10, <2>11, <3>1
    <3>4. \A e, f \in DOMAIN seqs : e < f => off[e + 1] <= off[f]
      BY <1>1, <3>1
    <3>5. ASSUME NEW j \in DOMAIN g[n] PROVE \E e \in DOMAIN seqs : \E k \in DOMAIN seqs[e] : j = off[e] + k
      <4>1. j \in 1 .. Len(g[n])
        BY <2>8
      <4>2. PICK e \in 1 .. n : \E k \in 1 .. Len(seqs[e]) : j = off[e] + k
        BY <3>1, <4>1
      <4>3. e \in DOMAIN seqs /\ DOMAIN seqs[e] = 1 .. Len(seqs[e])
        BY <1>1, <2>10
      <4> QED BY <4>2, <4>3
    <3> QED BY <3>2, <3>3, <3>4, <3>5 DEF Sections
  <2> QED BY <2>1, <2>8, <2>12 DEF X
<1> QED BY <1>3, <1>4

\* A document, or an entry, as the patterns see it.
Running(doc) == Len(doc) \in Nat /\ DOMAIN doc = 1 .. Len(doc)

\* Where the next part of a pattern is found.
NextAt(doc, labels, a) ==
  LET next == {j \in Where(doc, labels) : j > a} IN IF next = {} THEN Len(doc) + 1 ELSE Min(next)

LEMMA NextIsFirst ==
  ASSUME NEW doc, Running(doc), NEW labels, NEW a \in Nat
  PROVE  LET b == NextAt(doc, labels, a)
         IN  /\ b \in Nat
             /\ b <= Len(doc) => b \in Where(doc, labels) /\ b > a
             /\ \A j \in Where(doc, labels) : j > a => b <= j /\ b <= Len(doc)
<1> DEFINE next == {j \in Where(doc, labels) : j > a}
<1>1. next \in SUBSET Nat /\ \A j \in next : j <= Len(doc) /\ j \in Where(doc, labels) /\ j > a
  BY DEF Running, Where
<1>2. CASE next = {}
  BY <1>2 DEF NextAt, Running
<1>3. CASE next # {}
  <2>1. Min(next) \in next /\ \A j \in next : Min(next) <= j
    <3> HIDE DEF next
    <3> QED BY <1>1, <1>3, LeastOfNaturals
  <2>2. NextAt(doc, labels, a) = Min(next)
    BY <1>3 DEF NextAt
  <2> DEFINE b == Min(next)
  <2> HIDE DEF b
  <2>3. b \in next /\ \A j \in next : b <= j
    BY <2>1 DEF b
  <2>4. b \in Nat /\ b <= Len(doc) /\ b \in Where(doc, labels) /\ b > a
    BY <1>1, <2>3
  <2>5. \A j \in Where(doc, labels) : j > a => b <= j
    BY <2>3
  <2> QED BY <2>2, <2>4, <2>5 DEF b
<1> QED BY <1>2, <1>3

\* What stands before a part of a pattern.
Before(at, from, n) == IF n = 1 THEN from - 1 ELSE at[n - 1]

\* The equation of Follow.
LEMMA FollowEquation ==
  ASSUME NEW doc, Running(doc), NEW from \in Nat \ {0}, NEW parts, Len(parts) \in Nat
  PROVE  LET at == Follow(doc, from, parts)
         IN  /\ at \in [1 .. Len(parts) -> Nat]
             /\ \A n \in 1 .. Len(parts) : at[n] = NextAt(doc, parts[n], Before(at, from, n))
<1> DEFINE m == Len(parts)
           F == [n \in Nat |-> [a \in Nat |-> NextAt(doc, parts[n], a)]]
           Line(f) == f = [n \in 0 .. m |-> IF n = 0 THEN from - 1 ELSE NextAt(doc, parts[n], f[n - 1])]
           base == from - 1
           at == Follow(doc, from, parts)
<1>1. m \in Nat /\ base \in Nat
  OBVIOUS
<1> HIDE DEF m, base
<1>2. F \in [Nat -> [Nat -> Nat]]
  BY NextIsFirst
<1>3. PICK f \in [0 .. m -> Nat] : Recurrence(f, F, base, m)
  <2> HIDE DEF F
  <2> QED BY <1>1, <1>2, StepByStep
<1>4. f[0] = base /\ \A n \in 1 .. m : f[n - 1] \in Nat /\ f[n] = NextAt(doc, parts[n], f[n - 1])
  <2>1. \A n \in 1 .. m : n \in Nat /\ n - 1 \in 0 .. m
    BY <1>1
  <2>2. \A n \in 1 .. m : f[n - 1] \in Nat /\ f[n] = F[n][f[n - 1]]
    BY <1>3, <2>1 DEF Recurrence
  <2> QED BY <1>3, <2>1, <2>2 DEF Recurrence
<1>5. Line(f)
  <2>1. ASSUME NEW n \in 0 .. m PROVE f[n] = IF n = 0 THEN from - 1 ELSE NextAt(doc, parts[n], f[n - 1])
    <3>1. n # 0 => n \in 1 .. m
      BY <1>1
    <3> QED BY <1>4, <3>1 DEF base
  <2> QED BY <2>1
<1> DEFINE g == CHOOSE h : Line(h)
<1>6. Line(g)
  <2> HIDE DEF Line
  <2> QED BY <1>5
<1>7. at = [n \in 1 .. m |-> g[n]]
  BY Zenon DEF Follow, NextAt, m
<1> HIDE DEF g, at
<1>8. g[0] = base /\ \A n \in 1 .. m : g[n] = NextAt(doc, parts[n], g[n - 1])
  <2>1. 0 \in 0 .. m /\ \A n \in 1 .. m : n \in 0 .. m /\ n # 0
    BY <1>1
  <2>2. \A n \in 0 .. m : g[n] = IF n = 0 THEN from - 1 ELSE NextAt(doc, parts[n], g[n - 1])
    BY <1>6
  <2> QED BY <2>1, <2>2 DEF base
<1> HIDE DEF Line
<1>9. \A n \in 0 .. m : g[n] \in Nat
  <2> DEFINE S == {n \in Nat : n <= m => g[n] \in Nat}
  <2>1. 0 \in S
    BY <1>1, <1>8
  <2>2. ASSUME NEW n \in S, n + 1 <= m PROVE g[n + 1] \in Nat
    <3>1. n + 1 \in 1 .. m /\ n + 1 - 1 = n /\ g[n] \in Nat
      BY <1>1, <2>2
    <3>2. g[n + 1] = NextAt(doc, parts[n + 1], g[n])
      BY <1>8, <3>1
    <3> QED BY <3>1, <3>2, NextIsFirst
  <2>3. S = Nat
    <3>1. \A n \in S : n + 1 \in S
      BY <2>2
    <3>2. S \in SUBSET Nat
      OBVIOUS
    <3> HIDE DEF S
    <3> QED BY <2>1, <3>1, <3>2, Counting
  <2> QED BY <1>1, <2>3
<1>10. \A n \in 1 .. m : n \in 0 .. m /\ at[n] = g[n] /\ at[n] \in Nat
  BY <1>1, <1>7, <1>9
<1>11. ASSUME NEW n \in 1 .. m PROVE at[n] = NextAt(doc, parts[n], Before(at, from, n))
  <2>1. g[n - 1] = Before(at, from, n)
    <3>1. CASE n = 1
      BY <1>8, <3>1 DEF Before, base
    <3>2. CASE n # 1
      <4>1. n - 1 \in 1 .. m
        BY <1>1, <3>2
      <4> QED BY <1>10, <3>2, <4>1 DEF Before
    <3> QED BY <3>1, <3>2
  <2> QED BY <1>8, <1>10, <2>1
<1>12. at \in [1 .. m -> Nat]
  BY <1>7, <1>10
<1> QED BY <1>11, <1>12 DEF m, at

\* The parts of a pattern stand one behind the other, each at its first place.
LEMMA FollowFacts ==
  ASSUME NEW doc, Running(doc), NEW from \in Nat \ {0}, NEW parts, Len(parts) \in Nat
  PROVE  LET at == Follow(doc, from, parts)
         IN  /\ DOMAIN at = 1 .. Len(parts)
             /\ \A n \in 1 .. Len(parts) :
                  /\ at[n] \in Nat /\ Before(at, from, n) \in Nat
                  /\ at[n] <= Len(doc) => at[n] \in Where(doc, parts[n]) /\ at[n] > Before(at, from, n)
                  /\ \A j \in Where(doc, parts[n]) :
                       j > Before(at, from, n) => at[n] <= j /\ at[n] <= Len(doc)
<1> DEFINE at == Follow(doc, from, parts)
           m == Len(parts)
<1>1. /\ at \in [1 .. m -> Nat]
      /\ \A n \in 1 .. m : at[n] = NextAt(doc, parts[n], Before(at, from, n))
  BY FollowEquation
<1> HIDE DEF at
<1>2. ASSUME NEW n \in 1 .. m PROVE Before(at, from, n) \in Nat
  <2>1. n # 1 => n - 1 \in 1 .. m
    OBVIOUS
  <2>2. from - 1 \in Nat
    OBVIOUS
  <2> QED BY <1>1, <2>1, <2>2 DEF Before
<1>3. ASSUME NEW n \in 1 .. m
      PROVE  /\ at[n] \in Nat
             /\ at[n] <= Len(doc) => at[n] \in Where(doc, parts[n]) /\ at[n] > Before(at, from, n)
             /\ \A j \in Where(doc, parts[n]) : j > Before(at, from, n) => at[n] <= j /\ at[n] <= Len(doc)
  <2> DEFINE b == Before(at, from, n)
  <2>1. b \in Nat /\ at[n] = NextAt(doc, parts[n], b)
    BY <1>1, <1>2
  <2> HIDE DEF b
  <2> QED BY <2>1, NextIsFirst DEF b
<1> QED BY <1>1, <1>2, <1>3 DEF at

\* A piece of a document that looks like an entry: the texts behind off.
Piece(doc, s, off) ==
  /\ off \in Nat
  /\ \A k \in DOMAIN s : off + k \in DOMAIN doc /\ doc[off + k].label = s[k].label

\* A pattern that an entry has in itself, from one of its texts on, is found
\* there wherever the entry stands.
LEMMA FollowInPiece ==
  ASSUME NEW doc, Running(doc), NEW s, Running(s), NEW off, Piece(doc, s, off),
         NEW p \in Nat \ {0}, NEW parts, Len(parts) \in Nat, Fits(s, Follow(s, p, parts))
  PROVE  \A n \in 1 .. Len(parts) :
           /\ Follow(s, p, parts)[n] \in DOMAIN s
           /\ Follow(doc, off + p, parts)[n] = off + Follow(s, p, parts)[n]
<1> DEFINE m == Len(parts)
           inner == Follow(s, p, parts)
           outer == Follow(doc, off + p, parts)
<1>0. off \in Nat /\ off + p \in Nat \ {0} /\ m \in Nat
  BY DEF Piece
<1>1. \A n \in 1 .. m : /\ inner[n] \in Where(s, parts[n]) /\ inner[n] > Before(inner, p, n)
                        /\ inner[n] \in Nat /\ Before(inner, p, n) \in Nat /\ inner[n] <= Len(s)
                        /\ \A j \in Where(s, parts[n]) : j > Before(inner, p, n) => inner[n] <= j
  BY FollowFacts DEF Fits
<1>2. \A n \in 1 .. m : /\ outer[n] \in Nat /\ Before(outer, off + p, n) \in Nat
                        /\ outer[n] <= Len(doc) => outer[n] \in Where(doc, parts[n]) /\ outer[n] > Before(outer, off + p, n)
                        /\ \A j \in Where(doc, parts[n]) :
                             j > Before(outer, off + p, n) => outer[n] <= j /\ outer[n] <= Len(doc)
  BY <1>0, FollowFacts
<1>3. ASSUME NEW k \in DOMAIN s
      PROVE  \A labels : k \in Where(s, labels) <=> off + k \in Where(doc, labels)
  BY DEF Piece, Where
<1>4. \A n \in 1 .. m : inner[n] \in DOMAIN s
  BY <1>1 DEF Where
<1>5. DOMAIN s = 1 .. Len(s) /\ Len(s) \in Nat /\ DOMAIN doc = 1 .. Len(doc) /\ Len(doc) \in Nat
  BY DEF Running
<1> HIDE DEF inner, outer, m
<1>6. ASSUME NEW n \in 1 .. m, Before(outer, off + p, n) = off + Before(inner, p, n)
      PROVE  outer[n] = off + inner[n]
  <2> DEFINE a == Before(inner, p, n)
             b == inner[n]
             c == outer[n]
  <2>1. a \in Nat /\ b \in Nat /\ b > a /\ b \in DOMAIN s /\ b \in Where(s, parts[n])
    BY <1>1, <1>4
  <2>2. off + b \in Where(doc, parts[n]) /\ off + b > off + a
    BY <1>0, <1>3, <2>1
  <2>3. c \in Nat /\ c <= off + b /\ c <= Len(doc) /\ c \in Where(doc, parts[n]) /\ c > off + a
    BY <1>2, <1>6, <2>2
  <2>4. c - off \in DOMAIN s /\ c = off + (c - off) /\ c - off > a
    <3> HIDE DEF a, b, c
    <3>1. b <= Len(s)
      BY <1>5, <2>1
    <3> QED BY <1>0, <1>5, <2>1, <2>3, <3>1
  <2>5. c - off \in Where(s, parts[n])
    BY <1>3, <2>3, <2>4
  <2>6. b <= c - off
    BY <1>1, <2>4, <2>5
  <2> HIDE DEF a, b, c
  <2>7. c = off + b
    BY <1>0, <2>1, <2>3, <2>6
  <2> QED BY <2>7 DEF b, c
<1> DEFINE S == {n \in Nat : n + 1 <= m => outer[n + 1] = off + inner[n + 1]}
<1>7. 0 \in S
  <2>1. ASSUME 1 <= m PROVE outer[1] = off + inner[1]
    <3>1. 1 \in 1 .. m /\ off + p - 1 = off + (p - 1)
      BY <1>0, <2>1
    <3>2. Before(outer, off + p, 1) = off + Before(inner, p, 1)
      BY <1>0, <3>1 DEF Before
    <3> QED BY <1>6, <3>1, <3>2
  <2> QED BY <2>1
<1>8. ASSUME NEW n \in S, n + 1 + 1 <= m PROVE outer[n + 1 + 1] = off + inner[n + 1 + 1]
  <2>1. n + 1 + 1 \in 1 .. m /\ n + 1 \in 1 .. m /\ n + 1 + 1 # 1 /\ n + 1 + 1 - 1 = n + 1
    BY <1>0, <1>8
  <2>2. outer[n + 1] = off + inner[n + 1]
    BY <1>0, <2>1
  <2>3. Before(outer, off + p, n + 1 + 1) = off + Before(inner, p, n + 1 + 1)
    BY <2>1, <2>2 DEF Before
  <2> QED BY <1>6, <2>1, <2>3
<1>9. S = Nat
  <2>1. S \in SUBSET Nat /\ \A n \in S : n + 1 \in S
    BY <1>8
  <2> HIDE DEF S
  <2> QED BY <1>7, <2>1, Counting
<1>10. ASSUME NEW n \in 1 .. m PROVE outer[n] = off + inner[n]
  <2>1. n - 1 \in Nat /\ n - 1 + 1 = n /\ n <= m
    BY <1>0
  <2>2. n - 1 \in S
    <3> HIDE DEF S
    <3> QED BY <1>9, <2>1
  <2> QED BY <2>1, <2>2
<1> QED BY <1>4, <1>10 DEF inner, outer, m

-----------------------------------------------------------------------------
\* What finditer has found from a text on.
FoundFrom(doc, parts, from, i) ==
  LET at == Follow(doc, i, parts) IN IF Fits(doc, at) THEN {at} \cup from[at[Len(parts)] + 1] ELSE {}

\* All the parts of a match lie in the document, behind where it was looked for.
LEMMA FitFacts ==
  ASSUME NEW doc, Running(doc), NEW from \in Nat \ {0}, NEW parts, Len(parts) \in Nat,
         Fits(doc, Follow(doc, from, parts))
  PROVE  LET at == Follow(doc, from, parts)
         IN  \A n \in 1 .. Len(parts) :
               /\ at[n] \in DOMAIN doc /\ at[n] \in Where(doc, parts[n]) /\ from <= at[n]
               /\ \A k \in 1 .. n : at[k] <= at[n]
<1> DEFINE at == Follow(doc, from, parts)
           m == Len(parts)
           S == {n \in Nat : n + 1 <= m => from <= at[n + 1] /\ \A k \in 1 .. n + 1 : at[k] <= at[n + 1]}
<1>1. \A n \in 1 .. m : /\ at[n] \in Nat /\ at[n] \in Where(doc, parts[n]) /\ at[n] \in DOMAIN doc
                        /\ Before(at, from, n) \in Nat /\ at[n] > Before(at, from, n)
  BY FollowFacts DEF Fits, Where
<1>0. m \in Nat
  OBVIOUS
<1> HIDE DEF at, m
<1>2. 0 \in S
  <2>1. ASSUME 1 <= m PROVE from <= at[1] /\ \A k \in 1 .. 1 : at[k] <= at[1]
    <3>1. 1 \in 1 .. m
      BY <2>1 DEF m
    <3>2. at[1] \in Nat /\ at[1] > from - 1
      BY <1>1, <3>1 DEF Before
    <3> QED BY <3>2
  <2> QED BY <2>1
<1>3. ASSUME NEW n \in S, n + 1 + 1 <= m
      PROVE  from <= at[n + 1 + 1] /\ \A k \in 1 .. n + 1 + 1 : at[k] <= at[n + 1 + 1]
  <2> DEFINE q == n + 1 + 1
             r == n + 1
  <2>1. q \in 1 .. m /\ r \in 1 .. m /\ q # 1 /\ q - 1 = r /\ r <= m
    BY <1>3 DEF m
  <2>2. from <= at[r] /\ \A k \in 1 .. r : at[k] <= at[r]
    BY <2>1
  <2>3. \A k \in 1 .. q : k \in 1 .. r \/ k = q
    BY <2>1
  <2> HIDE DEF q, r
  <2>4. at[q] \in Nat /\ at[r] \in Nat /\ at[q] > at[r]
    BY <1>1, <2>1 DEF Before
  <2>5. ASSUME NEW k \in 1 .. r PROVE at[k] <= at[q]
    <3>1. k \in 1 .. m
      BY <1>0, <2>1
    <3>2. at[k] \in Nat
      BY <1>1, <3>1
    <3> QED BY <2>2, <2>4, <3>2
  <2>6. from <= at[q] /\ \A k \in 1 .. q : at[k] <= at[q]
    BY <2>2, <2>3, <2>4, <2>5
  <2> QED BY <2>6 DEF q
<1>4. S = Nat
  <2>1. S \in SUBSET Nat /\ \A n \in S : n + 1 \in S
    BY <1>3
  <2> HIDE DEF S
  <2> QED BY <1>2, <2>1, Counting
<1>5. ASSUME NEW n \in 1 .. m PROVE from <= at[n] /\ \A k \in 1 .. n : at[k] <= at[n]
  <2>1. n - 1 \in Nat /\ n - 1 + 1 = n /\ n <= m
    BY DEF m
  <2>2. n - 1 \in S
    <3> HIDE DEF S
    <3> QED BY <1>4, <2>1
  <2> QED BY <2>1, <2>2
<1> QED BY <1>1, <1>5 DEF at, m

\* The equation of Matches.
LEMMA MatchesEquation ==
  ASSUME NEW doc, Running(doc), NEW parts, Len(parts) \in Nat \ {0}
  PROVE  \E from : /\ Matches(doc, parts) = from[1]
                   /\ \A i \in 1 .. Len(doc) + 1 : from[i] = FoundFrom(doc, parts, from, i)
<1> DEFINE last == Len(doc) + 1
           places == 1 .. last
           Line(f) == f = [i \in places |-> FoundFrom(doc, parts, f, i)]
           Right(f, i) == f[i] = FoundFrom(doc, parts, f, i)
           Reaches(d) == \E f : DOMAIN f = places /\ f = [i \in places |-> f[i]]
                               /\ \A i \in places : i > last - d => Right(f, i)
           S == {d \in Nat : d <= last => Reaches(d)}
<1>0. last \in Nat \ {0} /\ Len(doc) \in Nat
  BY DEF Running
\* A match is followed by what begins behind it.
<1>1. ASSUME NEW i \in places, NEW f, NEW g, \A j \in places : j > i => f[j] = g[j]
      PROVE  FoundFrom(doc, parts, f, i) = FoundFrom(doc, parts, g, i)
  <2> DEFINE at == Follow(doc, i, parts)
             n == Len(parts)
  <2>1. ASSUME Fits(doc, at) PROVE at[n] + 1 \in places /\ at[n] + 1 > i
    <3>1. n \in 1 .. n /\ i \in Nat \ {0} /\ n \in Nat
      BY <1>0
    <3>2. at[n] \in DOMAIN doc /\ i <= at[n]
      BY <2>1, <3>1, FitFacts
    <3> HIDE DEF at
    <3> QED BY <1>0, <3>1, <3>2 DEF Running
  <2> HIDE DEF at
  <2> QED BY <1>1, <2>1 DEF FoundFrom, at
<1> HIDE DEF places
<1>2. 0 \in S
  <2> DEFINE f == [i \in places |-> {}]
  <2>1. DOMAIN f = places /\ f = [i \in places |-> f[i]]
    OBVIOUS
  <2>2. \A i \in places : ~ (i > last - 0)
    BY <1>0 DEF places
  <2> HIDE DEF f, Right
  <2>3. Reaches(0)
    BY <2>1, <2>2
  <2> QED BY <2>3
<1>3. ASSUME NEW d \in Nat, d + 1 <= last, Reaches(d) PROVE Reaches(d + 1)
  <2>1. PICK f : DOMAIN f = places /\ \A i \in places : i > last - d => Right(f, i)
    BY <1>3
  <2> DEFINE p == last - d
             g == [i \in places |-> IF i = p THEN FoundFrom(doc, parts, f, p) ELSE f[i]]
  <2>2. p \in places /\ p \in Int /\ last - (d + 1) = p - 1
    BY <1>0, <1>3 DEF places
  <2> HIDE DEF p
  <2>3. DOMAIN g = places /\ g = [i \in places |-> g[i]]
    OBVIOUS
  <2>4. ASSUME NEW i \in places, i > p - 1 PROVE Right(g, i)
    <3>1. \A j \in places : j > i => f[j] = g[j]
      <4>1. \A j \in places : j > i => j # p
        BY <2>2, <2>4 DEF places
      <4> QED BY <4>1
    <3>2. FoundFrom(doc, parts, f, i) = FoundFrom(doc, parts, g, i)
      <4> HIDE DEF g
      <4> QED BY <1>1, <3>1
    <3>3. CASE i = p
      BY <3>2, <3>3
    <3>4. CASE i # p
      <4>1. i > p
        BY <2>2, <2>4, <3>4 DEF places
      <4>2. Right(f, i)
        BY <2>1, <4>1 DEF p
      <4> QED BY <3>2, <3>4, <4>2
    <3> QED BY <3>3, <3>4
  <2> HIDE DEF g, Right
  <2>5. \A i \in places : i > last - (d + 1) => Right(g, i)
    BY <2>2, <2>4
  <2> QED BY <2>3, <2>5
<1>4. S = Nat
  <2> HIDE DEF Reaches
  <2>1. ASSUME NEW d \in S PROVE d + 1 \in S
    <3>1. d + 1 <= last => d <= last
      BY <1>0
    <3> QED BY <1>3, <3>1
  <2>2. S \in SUBSET Nat
    OBVIOUS
  <2> HIDE DEF S
  <2> QED BY <1>2, <2>1, <2>2, Counting
<1>5. \E f : Line(f)
  <2>1. Reaches(last)
    <3> HIDE DEF Reaches
    <3>1. last \in S /\ last <= last
      <4> HIDE DEF S
      <4> QED BY <1>0, <1>4
    <3> QED BY <3>1
  <2>2. PICK f : /\ DOMAIN f = places /\ f = [i \in places |-> f[i]]
                 /\ \A i \in places : i > last - last => Right(f, i)
    BY <2>1
  <2>3. \A i \in places : i > last - last
    BY <1>0 DEF places
  <2>4. \A i \in places : f[i] = FoundFrom(doc, parts, f, i)
    BY <2>2, <2>3
  <2>5. f = [i \in places |-> FoundFrom(doc, parts, f, i)]
    BY <2>2, <2>4
  <2> QED BY <2>5
<1> DEFINE g == CHOOSE f : Line(f)
<1>6. Line(g)
  <2> HIDE DEF Line
  <2> QED BY <1>5
<1>7. Matches(doc, parts) = g[1]
  BY Zenon DEF Matches, FoundFrom, places
<1> HIDE DEF g
<1>8. \A i \in places : g[i] = FoundFrom(doc, parts, g, i)
  BY <1>6
<1> QED BY <1>7, <1>8 DEF places

\* A match is what the pattern finds from some text on.
LEMMA MatchesAreFollows ==
  ASSUME NEW doc, Running(doc), NEW parts, Len(parts) \in Nat \ {0}, NEW at \in Matches(doc, parts)
  PROVE  \E i \in DOMAIN doc : at = Follow(doc, i, parts) /\ Fits(doc, at)
<1>1. PICK from : /\ Matches(doc, parts) = from[1]
                  /\ \A i \in 1 .. Len(doc) + 1 : from[i] = FoundFrom(doc, parts, from, i)
  BY MatchesEquation
<1> DEFINE last == Len(doc) + 1
           n == Len(parts)
           Good(i) == \A a \in from[i] : \E k \in DOMAIN doc : a = Follow(doc, k, parts) /\ Fits(doc, a)
           S == {d \in Nat : \A i \in 1 .. last : i >= last - d => Good(i)}
<1>0. last \in Nat \ {0} /\ Len(doc) \in Nat /\ DOMAIN doc = 1 .. Len(doc) /\ n \in 1 .. n /\ n \in Nat
  BY DEF Running
<1>2. ASSUME NEW i \in 1 .. last, \A j \in 1 .. last : j > i => Good(j) PROVE Good(i)
  <2> DEFINE b == Follow(doc, i, parts)
  <2>1. CASE ~ Fits(doc, b)
    BY <1>1, <2>1 DEF FoundFrom
  <2>2. CASE Fits(doc, b)
    <3>1. i \in Nat \ {0}
      BY <1>0
    <3>2. b[n] \in DOMAIN doc /\ i <= b[n]
      BY <1>0, <2>2, <3>1, FitFacts
    <3> DEFINE c == b[n]
    <3>3. c + 1 \in 1 .. last /\ c + 1 > i /\ i \in DOMAIN doc
      <4> HIDE DEF c
      <4>1. c \in DOMAIN doc /\ i <= c
        BY <3>2 DEF c
      <4> QED BY <1>0, <3>1, <4>1
    <3>4. Good(c + 1)
      <4> HIDE DEF c, Good
      <4> QED BY <1>2, <3>3
    <3>5. from[i] = {b} \cup from[c + 1]
      BY <1>1, <2>2 DEF FoundFrom
    <3> HIDE DEF b, c
    <3> QED BY <2>2, <3>3, <3>4, <3>5 DEF b
  <2> QED BY <2>1, <2>2
<1> HIDE DEF Good
<1>3. 0 \in S
  <2>1. \A i \in 1 .. last : i >= last - 0 => \A j \in 1 .. last : ~ (j > i)
    BY <1>0
  <2>2. \A i \in 1 .. last : i >= last - 0 => Good(i)
    BY <1>2, <2>1
  <2> QED BY <2>2
<1>4. ASSUME NEW d \in S PROVE d + 1 \in S
  <2>1. ASSUME NEW i \in 1 .. last, i >= last - (d + 1) PROVE Good(i)
    <3>1. \A j \in 1 .. last : j > i => j >= last - d
      BY <1>0, <2>1
    <3> QED BY <1>2, <1>4, <3>1
  <2> QED BY <2>1
<1>5. S = Nat
  <2>1. S \in SUBSET Nat
    OBVIOUS
  <2> HIDE DEF S
  <2> QED BY <1>3, <1>4, <2>1, Counting
<1>6. Good(1)
  <2>1. last \in S /\ 1 \in 1 .. last /\ 1 >= last - last
    <3> HIDE DEF S
    <3> QED BY <1>0, <1>5
  <2> QED BY <2>1
<1> QED BY <1>1, <1>6 DEF Good

-----------------------------------------------------------------------------
(* Documents that are made of entries                                      *)

\* Texts whose widths are known.
Labelling(doc) == Running(doc) /\ \A j \in DOMAIN doc : doc[j].label \in Labels

\* Where the texts begin: the equation of Start.
LEMMA StartFacts ==
  ASSUME NEW doc, Labelling(doc)
  PROVE  /\ Start(doc, 1) = 0
         /\ \A i \in 1 .. Len(doc) + 1 : Start(doc, i) \in Nat
         /\ \A i \in 1 .. Len(doc) :
              Start(doc, i + 1) = Start(doc, i) + Width[doc[i].label] /\ Width[doc[i].label] \in Nat \ {0}
<1> DEFINE m == Len(doc)
           w(j) == Width[doc[j].label]
           F == [n \in Nat |-> [a \in Nat |-> IF n \in 1 .. m THEN a + w(n) ELSE a]]
           Line(f) == f = [j \in 0 .. m |-> IF j = 0 THEN 0 ELSE f[j - 1] + w(j)]
<1>1. m \in Nat /\ DOMAIN doc = 1 .. m /\ \A j \in 1 .. m : w(j) \in Nat \ {0}
  BY PageAssumption DEF Labelling, Running
<1> HIDE DEF m, w
<1>2. F \in [Nat -> [Nat -> Nat]]
  BY <1>1
<1>3. PICK f \in [0 .. m -> Nat] : Recurrence(f, F, 0, m)
  <2> HIDE DEF F
  <2> QED BY <1>1, <1>2, StepByStep
<1>4. f[0] = 0 /\ \A n \in 1 .. m : f[n] = f[n - 1] + w(n)
  <2>1. \A n \in 1 .. m : n \in Nat /\ n - 1 \in 0 .. m
    BY <1>1
  <2>2. \A n \in 1 .. m : f[n - 1] \in Nat /\ f[n] = F[n][f[n - 1]]
    BY <1>3, <2>1 DEF Recurrence
  <2> QED BY <1>3, <2>1, <2>2 DEF Recurrence
<1>5. Line(f)
  <2>1. ASSUME NEW j \in 0 .. m PROVE f[j] = IF j = 0 THEN 0 ELSE f[j - 1] + w(j)
    <3>1. j # 0 => j \in 1 .. m
      BY <1>1
    <3> QED BY <1>4, <3>1
  <2> QED BY <2>1
<1> DEFINE g == CHOOSE h : Line(h)
<1>6. Line(g)
  <2> HIDE DEF Line
  <2> QED BY <1>5
<1>7. \A i : Start(doc, i) = g[i - 1]
  BY Zenon DEF Start, m, w
<1> HIDE DEF g
<1>8. g[0] = 0 /\ \A n \in 1 .. m : g[n] = g[n - 1] + w(n)
  <2>1. 0 \in 0 .. m /\ \A n \in 1 .. m : n \in 0 .. m /\ n # 0
    BY <1>1
  <2>2. \A n \in 0 .. m : g[n] = IF n = 0 THEN 0 ELSE g[n - 1] + w(n)
    BY <1>6
  <2> QED BY <2>1, <2>2
<1> HIDE DEF Line
<1>9. \A n \in 0 .. m : g[n] \in Nat
  <2> DEFINE S == {n \in Nat : n <= m => g[n] \in Nat}
  <2>1. 0 \in S
    BY <1>8
  <2>2. ASSUME NEW n \in S, n + 1 <= m PROVE g[n + 1] \in Nat
    <3>1. n + 1 \in 1 .. m /\ n + 1 - 1 = n /\ g[n] \in Nat
      BY <1>1, <2>2
    <3>2. g[n + 1] = g[n] + w(n + 1) /\ w(n + 1) \in Nat
      BY <1>1, <1>8, <3>1
    <3> QED BY <3>1, <3>2
  <2>3. S = Nat
    <3>1. \A n \in S : n + 1 \in S
      BY <2>2
    <3>2. S \in SUBSET Nat
      OBVIOUS
    <3> HIDE DEF S
    <3> QED BY <2>1, <3>1, <3>2, Counting
  <2> QED BY <1>1, <2>3
<1>10. \A i \in 1 .. m + 1 : Start(doc, i) \in Nat
  <2>1. \A i \in 1 .. m + 1 : i - 1 \in 0 .. m
    BY <1>1
  <2> QED BY <1>7, <1>9, <2>1
<1>11. Start(doc, 1) = 0
  <2>1. 1 - 1 = 0
    OBVIOUS
  <2> QED BY <1>7, <1>8, <2>1
<1>12. \A i \in 1 .. m : Start(doc, i + 1) = Start(doc, i) + w(i)
  <2>1. \A i \in 1 .. m : i + 1 - 1 = i
    BY <1>1
  <2> QED BY <1>7, <1>8, <2>1
<1> QED BY <1>1, <1>10, <1>11, <1>12 DEF m, w

\* What stands later begins later.
LEMMA StartGrows ==
  ASSUME NEW doc, Labelling(doc), NEW i \in 1 .. Len(doc) + 1, NEW j \in 1 .. Len(doc) + 1, i <= j
  PROVE  Start(doc, i) <= Start(doc, j)
<1> DEFINE m == Len(doc)
           S == {d \in Nat : i + d <= m + 1 => Start(doc, i) <= Start(doc, i + d)}
<1>0. m \in Nat /\ i \in Nat /\ j \in Nat
  BY DEF Labelling, Running
<1>1. 0 \in S
  <2>1. i + 0 = i /\ Start(doc, i) \in Nat
    BY <1>0, StartFacts
  <2> QED BY <2>1
<1>2. ASSUME NEW d \in S, i + (d + 1) <= m + 1 PROVE Start(doc, i) <= Start(doc, i + (d + 1))
  <2> DEFINE p == i + d
  <2>1. p \in 1 .. m /\ p \in 1 .. m + 1 /\ i + (d + 1) = p + 1 /\ p <= m + 1 /\ p + 1 \in 1 .. m + 1
    BY <1>0, <1>2
  <2>2. Start(doc, i) <= Start(doc, p)
    BY <1>2, <2>1
  <2> HIDE DEF p
  <2>3. /\ Start(doc, p + 1) = Start(doc, p) + Width[doc[p].label] /\ Width[doc[p].label] \in Nat
        /\ Start(doc, p) \in Nat /\ Start(doc, i) \in Nat
    BY <2>1, StartFacts
  <2>4. Start(doc, i) <= Start(doc, p + 1)
    BY <2>2, <2>3
  <2> QED BY <2>1, <2>4
<1>3. S = Nat
  <2>1. S \in SUBSET Nat /\ \A d \in S : d + 1 \in S
    BY <1>2
  <2> HIDE DEF S
  <2> QED BY <1>1, <2>1, Counting
<1>4. j - i \in S /\ i + (j - i) = j
  <2>1. j - i \in Nat /\ i + (j - i) = j
    BY <1>0
  <2> HIDE DEF S
  <2> QED BY <1>3, <2>1
<1> QED BY <1>4

LEMMA DistancesAreNaturals ==
  ASSUME NEW doc, Labelling(doc), NEW i \in DOMAIN doc, NEW j \in DOMAIN doc
  PROVE  Distance(doc, i, j) \in Nat
<1>1. i \in 1 .. Len(doc) + 1 /\ j \in 1 .. Len(doc) + 1
  BY DEF Labelling, Running
<1>2. Start(doc, i) \in Nat /\ Start(doc, j) \in Nat
  BY <1>1, StartFacts
<1> QED BY <1>2 DEF Distance, Apart

\* In an entry the texts begin as far from its beginning as they do when it
\* stands alone.
LEMMA StartInPiece ==
  ASSUME NEW doc, Labelling(doc), NEW s, Labelling(s), NEW off, Piece(doc, s, off),
         off + Len(s) <= Len(doc), NEW k \in 1 .. Len(s) + 1
  PROVE  /\ Start(doc, off + k) = Start(doc, off + 1) + Start(s, k)
         /\ Start(doc, off + 1) \in Nat /\ Start(s, k) \in Nat
<1> DEFINE m == Len(s)
           Adds(n) == Start(doc, off + n) = Start(doc, off + 1) + Start(s, n)
           S == {n \in Nat : n + 1 <= m + 1 => Adds(n + 1)}
<1>0. m \in Nat /\ off \in Nat /\ Len(doc) \in Nat /\ DOMAIN s = 1 .. m
  BY DEF Labelling, Running, Piece
<1>1. Start(s, 1) = 0 /\ \A n \in 1 .. m + 1 : Start(s, n) \in Nat
  BY StartFacts
<1>2. \A n \in 1 .. m + 1 : off + n \in 1 .. Len(doc) + 1 /\ Start(doc, off + n) \in Nat
  <2>1. \A n \in 1 .. m + 1 : off + n \in 1 .. Len(doc) + 1
    BY <1>0
  <2> QED BY <2>1, StartFacts
<1>3. 0 \in S
  <2>1. 0 + 1 = 1 /\ 1 \in 1 .. m + 1
    BY <1>0
  <2>2. Start(doc, off + 1) = Start(doc, off + 1) + Start(s, 1)
    BY <1>1, <1>2, <2>1
  <2> QED BY <2>1, <2>2
<1>4. ASSUME NEW n \in S, n + 1 + 1 <= m + 1
      PROVE  Adds(n + 1 + 1)
  <2> DEFINE p == n + 1
  <2>1. p \in 1 .. m /\ p \in 1 .. m + 1 /\ off + p \in 1 .. Len(doc) /\ off + (p + 1) = off + p + 1
        /\ p <= m + 1
    BY <1>0, <1>4
  <2>2. Start(doc, off + p) = Start(doc, off + 1) + Start(s, p)
    BY <1>4, <2>1
  <2> HIDE DEF p
  <2>3. Start(doc, off + p + 1) = Start(doc, off + p) + Width[doc[off + p].label]
    BY <2>1, StartFacts
  <2>4. Start(s, p + 1) = Start(s, p) + Width[s[p].label] /\ Width[s[p].label] \in Nat
    BY <2>1, StartFacts
  <2>5. doc[off + p].label = s[p].label
    BY <1>0, <2>1 DEF Piece
  <2>6. Start(s, p) \in Nat /\ Start(doc, off + 1) \in Nat
    <3>1. 1 \in 1 .. m + 1
      BY <1>0
    <3> QED BY <1>1, <1>2, <2>1, <3>1
  <2>7. Adds(p + 1)
    BY <2>1, <2>2, <2>3, <2>4, <2>5, <2>6
  <2> QED BY <2>7 DEF p
<1> HIDE DEF Adds
<1>5. S = Nat
  <2>1. ASSUME NEW n \in S PROVE n + 1 \in S
    <3>1. n + 1 \in Nat
      OBVIOUS
    <3> HIDE DEF m
    <3>2. n + 1 + 1 <= m + 1 => Adds(n + 1 + 1)
      BY <1>4, Zenon
    <3> QED BY <3>1, <3>2
  <2>2. S \in SUBSET Nat
    OBVIOUS
  <2> HIDE DEF S
  <2> QED BY <1>3, <2>1, <2>2, Counting
<1>6. k - 1 \in S /\ k - 1 + 1 = k /\ k <= m + 1
  <2>1. k - 1 \in Nat /\ k - 1 + 1 = k /\ k <= m + 1
    BY <1>0
  <2> HIDE DEF S
  <2> QED BY <1>5, <2>1
<1>7. 1 \in 1 .. m + 1
  BY <1>0
<1> QED BY <1>1, <1>2, <1>6, <1>7 DEF Adds

EntryType == [of : Draw, shows : Template]

\* A document that is made of entries, and where they begin.
Laid(doc, es, off) ==
  /\ doc \in Seq(Text) /\ es \in Seq(EntryType)
  /\ Sections(doc, [e \in DOMAIN es |-> Texts(es[e])], off)

LEMMA TextsAreLabelled ==
  ASSUME NEW doc \in Seq(Text)
  PROVE  Labelling(doc) /\ \A j \in DOMAIN doc : doc[j].of \in Draw /\ doc[j] \in Text
<1> DEFINE T == Text
<1>1. doc \in Seq(T)
  OBVIOUS
<1> HIDE DEF T
<1>2. Running(doc) /\ \A j \in DOMAIN doc : doc[j] \in T
  BY <1>1 DEF Running
<1> QED BY <1>2 DEF T, Text, Labelling

LEMMA TemplatesAreLabelled ==
  ASSUME NEW s \in Template
  PROVE  Labelling(s)
<1> DEFINE T == [label : Labels]
<1>1. s \in Seq(T)
  BY DEF Template
<1> HIDE DEF T
<1>2. Running(s) /\ \A j \in DOMAIN s : s[j] \in T
  BY <1>1 DEF Running
<1> QED BY <1>2 DEF T, Labelling

LEMMA TextsOfEntry ==
  ASSUME NEW entry \in EntryType
  PROVE  /\ Labelling(entry.shows) /\ entry.of \in Draw
         /\ Texts(entry) \in Seq(Text) /\ Len(Texts(entry)) = Len(entry.shows)
         /\ DOMAIN Texts(entry) = DOMAIN entry.shows
         /\ \A k \in DOMAIN entry.shows :
              Texts(entry)[k].label = entry.shows[k].label /\ Texts(entry)[k].of = entry.of
<1> DEFINE s == entry.shows
<1>1. Labelling(s) /\ entry.of \in Draw
  BY TemplatesAreLabelled DEF EntryType
<1>2. DOMAIN s = 1 .. Len(s) /\ Len(s) \in Nat /\ \A k \in DOMAIN s : s[k].label \in Labels
  BY <1>1 DEF Labelling, Running
<1> HIDE DEF s
<1> DEFINE t == [k \in 1 .. Len(s) |-> [label |-> s[k].label, of |-> entry.of]]
<1>3. Texts(entry) = t
  BY <1>2 DEF Texts, s
<1>4. \A k \in 1 .. Len(s) : [label |-> s[k].label, of |-> entry.of] \in Text
  BY <1>1, <1>2 DEF Text
<1>5. t \in Seq(Text) /\ Len(t) = Len(s) /\ DOMAIN t = 1 .. Len(s)
  BY <1>2, <1>4, IsASeq
<1>6. \A k \in 1 .. Len(s) : t[k].label = s[k].label /\ t[k].of = entry.of
  OBVIOUS
<1> HIDE DEF t
<1> QED BY <1>1, <1>2, <1>3, <1>5, <1>6 DEF s

\* What the arguments about the parsers use of such a document.
LEMMA LaidFacts ==
  ASSUME NEW doc, NEW es, NEW off, Laid(doc, es, off)
  PROVE  /\ Labelling(doc) /\ Running(doc) /\ Len(es) \in Nat /\ DOMAIN es = 1 .. Len(es)
         /\ off[1] = 0
         /\ \A e \in DOMAIN es :
              /\ es[e] \in EntryType /\ Labelling(es[e].shows) /\ Piece(doc, es[e].shows, off[e])
              /\ off[e] \in Nat /\ off[e + 1] = off[e] + Len(es[e].shows) /\ off[e + 1] <= Len(doc)
              /\ \A k \in DOMAIN es[e].shows :
                   /\ off[e] + k \in DOMAIN doc /\ off[e] < off[e] + k /\ off[e] + k <= off[e + 1]
                   /\ doc[off[e] + k].label = es[e].shows[k].label /\ doc[off[e] + k].of = es[e].of
         /\ \A e, f \in DOMAIN es : e < f => off[e + 1] <= off[f]
         /\ \A j \in DOMAIN doc : \E e \in DOMAIN es : \E k \in DOMAIN es[e].shows : j = off[e] + k
<1> DEFINE seqs == [e \in DOMAIN es |-> Texts(es[e])]
           E == EntryType
<1>1. Labelling(doc)
  BY TextsAreLabelled DEF Laid
<1>2. Len(es) \in Nat /\ DOMAIN es = 1 .. Len(es) /\ \A e \in DOMAIN es : es[e] \in E
  <2>1. es \in Seq(E)
    BY DEF Laid
  <2> HIDE DEF E
  <2> QED BY <2>1
<1>3. Sections(doc, seqs, off)
  BY DEF Laid
<1>4. Len(seqs) = Len(es) /\ DOMAIN seqs = DOMAIN es
  BY <1>2
<1>5. \A e \in DOMAIN es :
        /\ Labelling(es[e].shows) /\ seqs[e] = Texts(es[e])
        /\ Len(seqs[e]) = Len(es[e].shows) /\ DOMAIN seqs[e] = DOMAIN es[e].shows
        /\ \A k \in DOMAIN es[e].shows :
             seqs[e][k].label = es[e].shows[k].label /\ seqs[e][k].of = es[e].of
  BY <1>2, TextsOfEntry
<1> HIDE DEF seqs, E
<1>6. /\ off \in [1 .. Len(es) + 1 -> Nat] /\ off[1] = 0 /\ off[Len(es) + 1] = Len(doc)
      /\ \A e \in DOMAIN es :
           /\ off[e + 1] = off[e] + Len(es[e].shows)
           /\ \A k \in DOMAIN es[e].shows : off[e] + k \in DOMAIN doc /\ doc[off[e] + k] = seqs[e][k]
      /\ \A e, f \in DOMAIN es : e < f => off[e + 1] <= off[f]
      /\ \A j \in DOMAIN doc : \E e \in DOMAIN es : \E k \in DOMAIN es[e].shows : j = off[e] + k
  BY <1>3, <1>4, <1>5 DEF Sections
<1>7. \A e \in DOMAIN es : off[e] \in Nat /\ off[e + 1] \in Nat
  <2>1. \A e \in DOMAIN es : e \in 1 .. Len(es) + 1 /\ e + 1 \in 1 .. Len(es) + 1
    BY <1>2
  <2> QED BY <1>6, <2>1
<1>8. ASSUME NEW e \in DOMAIN es PROVE off[e + 1] <= Len(doc)
  <2>1. CASE e = Len(es)
    BY <1>6, <1>7, <2>1
  <2>2. CASE e # Len(es)
    <3> DEFINE n == Len(es)
    <3>1. n \in DOMAIN es /\ e < n
      BY <1>2, <2>2
    <3>2. off[e + 1] <= off[n] /\ off[n + 1] = off[n] + Len(es[n].shows) /\ Len(es[n].shows) \in Nat
      BY <1>5, <1>6, <3>1 DEF Labelling, Running
    <3>3. off[n] \in Nat /\ off[e + 1] \in Nat /\ off[n + 1] = Len(doc)
      BY <1>6, <1>7, <3>1
    <3> HIDE DEF n
    <3> QED BY <3>2, <3>3
  <2> QED BY <2>1, <2>2
<1>9. ASSUME NEW e \in DOMAIN es, NEW k \in DOMAIN es[e].shows
      PROVE  /\ off[e] + k \in DOMAIN doc /\ off[e] < off[e] + k /\ off[e] + k <= off[e + 1]
             /\ doc[off[e] + k].label = es[e].shows[k].label /\ doc[off[e] + k].of = es[e].of
  <2> DEFINE l == Len(es[e].shows)
  <2>1. k \in 1 .. l /\ l \in Nat
    BY <1>5 DEF Labelling, Running
  <2>2. off[e] \in Nat /\ off[e + 1] = off[e] + l
    BY <1>6, <1>7
  <2> HIDE DEF l
  <2>3. off[e] < off[e] + k /\ off[e] + k <= off[e + 1]
    BY <2>1, <2>2
  <2>4. off[e] + k \in DOMAIN doc /\ doc[off[e] + k] = seqs[e][k]
    BY <1>6
  <2>5. seqs[e][k].label = es[e].shows[k].label /\ seqs[e][k].of = es[e].of
    BY <1>5
  <2> QED BY <2>3, <2>4, <2>5
<1>10. ASSUME NEW e \in DOMAIN es PROVE Piece(doc, es[e].shows, off[e])
  BY <1>7, <1>9 DEF Piece
<1> QED BY <1>1, <1>2, <1>5, <1>6, <1>7, <1>8, <1>9, <1>10 DEF Labelling, E

\* Every text of a page is a text of one of its entries.
LEMMA Located ==
  ASSUME NEW doc, NEW es, NEW off, Laid(doc, es, off), NEW j \in DOMAIN doc
  PROVE  \E e \in DOMAIN es : \E k \in DOMAIN es[e].shows : j = off[e] + k
BY LaidFacts

\* Where an entry lies is a matter of natural numbers.
LEMMA PlaceOfEntry ==
  ASSUME NEW doc, NEW es, NEW off, Laid(doc, es, off), NEW e \in DOMAIN es
  PROVE  e \in Nat /\ off[e] \in Nat /\ off[e + 1] \in Nat
<1>1. DOMAIN es = 1 .. Len(es) /\ Len(es) \in Nat
  BY LaidFacts
<1>2. off[e] \in Nat /\ off[e + 1] = off[e] + Len(es[e].shows)
  BY LaidFacts
<1>3. Labelling(es[e].shows)
  BY LaidFacts
<1>4. Len(es[e].shows) \in Nat
  BY <1>3 DEF Labelling, Running
<1>5. e \in Nat
  BY <1>1
<1> QED BY <1>2, <1>4, <1>5

\* What the general parser puts beside a labelled result is of its draw, on every
\* page on which a header, a date within reach and the series within reach of that
\* draw, if there is any, are nearer to the result than those of other draws; however
\* many entries there are and in whatever order (TraditionalLotteryHtmlParser.parse).
\* Where a page has the newest entry first the header is not, which is how
\* OneDrawPerRecord fails.
THEOREM LabelledIsOneDraw ==
  ASSUME NEW doc \in Seq(Text), NEW source, NEW game, NEW i \in Where(doc, DOMAIN Weight),
         doc[i].of.game = game,
         OwnIsNearest(doc, i, DrawHeaders(doc, source)),
         OwnIsNearest(doc, i, InReach(doc, i, Where(doc, {"fecha"}))),
         \/ InReach(doc, i, Where(doc, {"serie"})) = {}
         \/ OwnIsNearest(doc, i, InReach(doc, i, Where(doc, {"serie"})))
  PROVE  OneDraw(Labelled(doc, source, game, i))
<1> DEFINE record == Labelled(doc, source, game, i)
           series == InReach(doc, i, Where(doc, {"serie"}))
           headers == DrawHeaders(doc, source)
<1>1. DOMAIN doc \subseteq Nat
  <2> HIDE DEF Text
  <2> QED OBVIOUS
<1>0. \A j \in DOMAIN doc : Distance(doc, i, j) \in Nat
  <2>1. i \in DOMAIN doc
    BY DEF Where
  <2> QED BY <2>1, TextsAreLabelled, DistancesAreNaturals
<1>2. i \in DOMAIN doc /\ doc[i].label \in {"premio_mayor", "resultado", "numero"}
  BY DEF Where, Weight
<1>3. series \in SUBSET DOMAIN doc /\ headers \in SUBSET DOMAIN doc
  BY DEF InReach, Where, DrawHeaders
<1>4. NearestDraw(doc, i, headers) = doc[i].of
  <2> HIDE DEF headers
  <2> QED BY <1>0, <1>1, <1>3, NearestDrawIsOwn DEF headers
<1>5. NearestDraw(doc, i, series) \in {Nothing, doc[i].of}
  <2>1. CASE series = {}
    BY <2>1 DEF NearestDraw
  <2>2. CASE OwnIsNearest(doc, i, series)
    <3> HIDE DEF series
    <3> QED BY <1>0, <1>1, <1>3, <2>2, NearestDrawIsOwn
  <2> QED BY <2>1, <2>2
<1>6. DateOf(doc, i) = doc[i].of.day
  BY <1>0, <1>2, DateIsOwn
<1>7. record = Record(game, NearestDraw(doc, i, headers), DateOf(doc, i), doc[i],
                      NearestDraw(doc, i, series), "labelled")
  BY DEF Labelled, RecordAt
<1>8. /\ record.game = game /\ record.number = doc[i].of /\ record.date = doc[i].of.day
      /\ record.result = doc[i].of /\ record.label = doc[i].label
      /\ record.series \in {Nothing, doc[i].of}
  <2> HIDE DEF record, series, headers
  <2> QED BY <1>4, <1>5, <1>6, <1>7 DEF Record
<1> HIDE DEF record
<1>9. OneDraw(record)
  BY <1>2, <1>8 DEF OneDraw
<1> QED BY <1>9 DEF record

\* From a text of an entry to a text of one further down it is at least as far
\* as it would be if that one followed directly.
LEMMA FarBehind ==
  ASSUME NEW doc, NEW es, NEW off, Laid(doc, es, off), NEW e \in DOMAIN es, NEW f \in DOMAIN es, e < f,
         NEW p \in DOMAIN es[e].shows, NEW r \in DOMAIN es[f].shows
  PROVE  /\ Across(es[e].shows, p, es[f].shows, r) \in Int
         /\ Across(es[e].shows, p, es[f].shows, r) <= Distance(doc, off[e] + p, off[f] + r)
         /\ Distance(doc, off[f] + r, off[e] + p) = Distance(doc, off[e] + p, off[f] + r)
<1> DEFINE s == es[e].shows
           t == es[f].shows
           a == off[e]
           b == off[f]
           m == Len(s)
<1>1. /\ Labelling(doc) /\ Labelling(s) /\ Labelling(t) /\ Piece(doc, s, a) /\ Piece(doc, t, b)
      /\ a \in Nat /\ b \in Nat /\ off[e + 1] = a + m /\ off[e + 1] <= b /\ a + m <= Len(doc)
      /\ b + Len(t) <= Len(doc)
  <2>1. Labelling(doc) /\ Labelling(s) /\ Labelling(t) /\ Piece(doc, s, a) /\ Piece(doc, t, b)
    BY LaidFacts
  <2>2. a \in Nat /\ b \in Nat /\ off[e + 1] = a + m /\ off[e + 1] <= b
    BY LaidFacts
  <2>3. off[e + 1] <= Len(doc) /\ off[f + 1] = b + Len(t) /\ off[f + 1] <= Len(doc)
    BY LaidFacts
  <2> HIDE DEF s, t, a, b, m
  <2> QED BY <2>1, <2>2, <2>3
<1> HIDE DEF s, t, a, b
<1>2. m \in Nat /\ Len(t) \in Nat /\ p \in 1 .. m /\ r \in 1 .. Len(t) /\ Len(doc) \in Nat
  BY <1>1 DEF Labelling, Running, s, t
<1>3. p \in 1 .. m + 1 /\ m + 1 \in 1 .. m + 1 /\ r \in 1 .. Len(t) + 1 /\ p <= m + 1
  BY <1>2
<1> HIDE DEF m
<1>4. /\ Start(doc, a + p) = Start(doc, a + 1) + Start(s, p) /\ Start(s, p) \in Nat
      /\ Start(doc, a + (m + 1)) = Start(doc, a + 1) + Start(s, m + 1) /\ Start(s, m + 1) \in Nat
      /\ Start(doc, a + 1) \in Nat
  <2>1. \A k \in 1 .. Len(s) + 1 :
          /\ Start(doc, a + k) = Start(doc, a + 1) + Start(s, k)
          /\ Start(s, k) \in Nat /\ Start(doc, a + 1) \in Nat
    BY <1>1, StartInPiece DEF m
  <2>2. m + 1 \in 1 .. Len(s) + 1 /\ p \in 1 .. Len(s) + 1
    BY <1>3 DEF m
  <2> QED BY <2>1, <2>2
<1>5. Start(doc, b + r) = Start(doc, b + 1) + Start(t, r) /\ Start(t, r) \in Nat /\ Start(doc, b + 1) \in Nat
  BY <1>1, <1>2, <1>3, StartInPiece
<1>6. Start(doc, a + (m + 1)) <= Start(doc, b + 1)
  <2>1. a + (m + 1) \in 1 .. Len(doc) + 1 /\ b + 1 \in 1 .. Len(doc) + 1 /\ a + (m + 1) <= b + 1
    BY <1>1, <1>2
  <2> QED BY <1>1, <2>1, StartGrows
<1>7. Start(s, p) <= Start(s, m + 1)
  BY <1>1, <1>2, <1>3, StartGrows DEF m
<1> DEFINE x == Start(doc, a + p)
           y == Start(doc, b + r)
           c == Across(s, p, t, r)
<1>8. c = Start(s, m + 1) - Start(s, p) + Start(t, r)
  BY DEF Across, m
<1>9. x \in Nat /\ y \in Nat /\ c \in Int /\ c <= y - x /\ 0 <= c
  BY <1>4, <1>5, <1>6, <1>7, <1>8
<1> HIDE DEF x, y, c
<1>10. Apart(x, y) = y - x /\ Apart(y, x) = y - x
  BY <1>9 DEF Apart
<1>11. Distance(doc, a + p, b + r) = y - x /\ Distance(doc, b + r, a + p) = y - x
  BY <1>10 DEF Distance, x, y
<1> QED BY <1>9, <1>11 DEF s, t, a, b, c

\* In one entry the distances are those of the entry alone.
LEMMA DistanceInEntry ==
  ASSUME NEW doc, NEW es, NEW off, Laid(doc, es, off), NEW e \in DOMAIN es,
         NEW p \in DOMAIN es[e].shows, NEW q \in DOMAIN es[e].shows
  PROVE  Distance(doc, off[e] + p, off[e] + q) = Distance(es[e].shows, p, q)
<1> DEFINE s == es[e].shows
           a == off[e]
<1>1. /\ Labelling(doc) /\ Labelling(s) /\ Piece(doc, s, a) /\ a + Len(s) <= Len(doc)
      /\ p \in 1 .. Len(s) + 1 /\ q \in 1 .. Len(s) + 1
  <2>1. Labelling(doc) /\ Labelling(s) /\ Piece(doc, s, a)
    BY LaidFacts
  <2>2. off[e + 1] = a + Len(s) /\ off[e + 1] <= Len(doc)
    BY LaidFacts
  <2>3. p \in DOMAIN s /\ q \in DOMAIN s
    OBVIOUS
  <2> HIDE DEF s, a
  <2>4. p \in 1 .. Len(s) /\ q \in 1 .. Len(s) /\ Len(s) \in Nat
    BY <2>1, <2>3 DEF Labelling, Running
  <2>5. p \in 1 .. Len(s) + 1 /\ q \in 1 .. Len(s) + 1
    BY <2>4
  <2> QED BY <2>1, <2>2, <2>5
<1> HIDE DEF s, a
<1>2. /\ Start(doc, a + p) = Start(doc, a + 1) + Start(s, p) /\ Start(s, p) \in Nat
      /\ Start(doc, a + q) = Start(doc, a + 1) + Start(s, q) /\ Start(s, q) \in Nat
      /\ Start(doc, a + 1) \in Nat
  BY <1>1, StartInPiece
<1> DEFINE x == Start(doc, a + 1)
           y == Start(s, p)
           z == Start(s, q)
<1>3. \A u, v, w \in Nat : Apart(u + v, u + w) = Apart(v, w)
  BY DEF Apart
<1> HIDE DEF x, y, z
<1>4. Distance(doc, a + p, a + q) = Apart(x + y, x + z) /\ Distance(s, p, q) = Apart(y, z)
  BY <1>2 DEF Distance, x, y, z
<1>5. x \in Nat /\ y \in Nat /\ z \in Nat
  BY <1>2 DEF x, y, z
<1> QED BY <1>3, <1>4, <1>5 DEF s, a

\* The documents of a site: entries that are out, and one that is not.
Entered(s, es) ==
  /\ \A e \in DOMAIN es : es[e].shows \in {s.full, s.pending}
  /\ OneResult(s) => \A e, f \in DOMAIN es : es[e].of = es[f].of

\* Of the texts in reach the nearest is the result's own.
LEMMA OwnTextIsNearest ==
  ASSUME NEW doc, NEW es, NEW off, Laid(doc, es, off), NEW s, Entered(s, es),
         Where(s.pending, DOMAIN Weight) = {}, NEW label, KeepsNear(s, label),
         NEW i \in Where(doc, DOMAIN Weight)
  PROVE  OwnIsNearest(doc, i, InReach(doc, i, Where(doc, {label})))
<1>1. PICK e \in DOMAIN es, p \in DOMAIN s.full :
        i = off[e] + p /\ p \in Where(s.full, DOMAIN Weight) /\ es[e].shows = s.full
  <2>1. i \in DOMAIN doc /\ doc[i].label \in DOMAIN Weight
    BY DEF Where
  <2>2. PICK e \in DOMAIN es : \E k \in DOMAIN es[e].shows : i = off[e] + k
    BY <2>1, LaidFacts
  <2>3. PICK p \in DOMAIN es[e].shows : i = off[e] + p
    BY <2>2
  <2>4. doc[i].label = es[e].shows[p].label
    BY <2>3, LaidFacts
  <2>5. p \in Where(es[e].shows, DOMAIN Weight)
    BY <2>1, <2>4 DEF Where
  <2>6. es[e].shows = s.full
    BY <2>5 DEF Entered
  <2> QED BY <2>3, <2>5, <2>6
<1>2. PICK q \in Where(s.full, {label}) :
        /\ Distance(s.full, p, q) <= Reach
        /\ OneResult(s) \/ \A other \in {s.full, s.pending} : \A j \in Where(other, {label}) :
             Distance(s.full, p, q) < Across(s.full, p, other, j) /\ Distance(s.full, p, q) < Across(other, j, s.full, p)
  BY <1>1 DEF KeepsNear
<1> DEFINE own == off[e] + q
<1>3. q \in DOMAIN s.full /\ s.full[q].label = label
  BY <1>2 DEF Where
<1>4. own \in DOMAIN doc /\ doc[own].label = label /\ doc[own].of = es[e].of /\ doc[i].of = es[e].of
  <2>1. p \in DOMAIN es[e].shows /\ q \in DOMAIN es[e].shows
    BY <1>1, <1>3
  <2>2. \A k \in DOMAIN es[e].shows :
          off[e] + k \in DOMAIN doc /\ doc[off[e] + k].label = es[e].shows[k].label /\ doc[off[e] + k].of = es[e].of
    BY LaidFacts
  <2>3. es[e].shows[q].label = label
    BY <1>1, <1>3
  <2> QED BY <1>1, <2>1, <2>2, <2>3
<1>5. Distance(doc, i, own) = Distance(s.full, p, q)
  BY <1>1, <1>3, DistanceInEntry
<1>6. own \in InReach(doc, i, Where(doc, {label}))
  BY <1>2, <1>4, <1>5 DEF InReach, Where
<1>7. ASSUME NEW k \in InReach(doc, i, Where(doc, {label})), doc[k].of # doc[i].of
      PROVE  Distance(doc, i, own) < Distance(doc, i, k)
  <2>1. k \in DOMAIN doc /\ doc[k].label = label
    BY DEF InReach, Where
  <2>2. PICK f \in DOMAIN es : \E r \in DOMAIN es[f].shows : k = off[f] + r
    BY <2>1, Located
  <2>3. PICK r \in DOMAIN es[f].shows : k = off[f] + r
    BY <2>2
  <2>4. doc[k].of = es[f].of /\ es[f].shows[r].label = label
    <3>1. doc[off[f] + r].of = es[f].of /\ doc[off[f] + r].label = es[f].shows[r].label
      BY LaidFacts
    <3> QED BY <2>1, <2>3, <3>1
  <2>5. f # e /\ ~ OneResult(s)
    BY <1>4, <1>7, <2>4 DEF Entered
  <2>6. es[f].shows \in {s.full, s.pending} /\ r \in Where(es[f].shows, {label})
    BY <2>4 DEF Entered, Where
  <2> DEFINE d == Distance(s.full, p, q)
             behind == Across(s.full, p, es[f].shows, r)
             before == Across(es[f].shows, r, s.full, p)
             far == Distance(doc, i, k)
  <2>7. d < behind /\ d < before
    BY <1>2, <2>5, <2>6
  <2>8. d \in Nat /\ far \in Nat
    <3>1. Labelling(s.full) /\ Labelling(doc) /\ i \in DOMAIN doc
      BY <1>1, LaidFacts
    <3> QED BY <1>1, <1>3, <2>1, <3>1, DistancesAreNaturals
  <2>9. e \in Nat /\ f \in Nat
    BY LaidFacts
  <2>10. CASE e < f
    <3>1. behind \in Int /\ behind <= far
      BY <1>1, <2>3, <2>10, FarBehind
    <3> HIDE DEF d, behind, before, far
    <3>2. d < far
      BY <2>7, <2>8, <3>1
    <3> QED BY <1>5, <3>2 DEF d, far
  <2>11. CASE f < e
    <3>1. before \in Int /\ before <= far
      BY <1>1, <2>3, <2>11, FarBehind
    <3> HIDE DEF d, behind, before, far
    <3>2. d < far
      BY <2>7, <2>8, <3>1
    <3> QED BY <1>5, <3>2 DEF d, far
  <2> QED BY <2>5, <2>9, <2>10, <2>11
<1> QED BY <1>4, <1>6, <1>7 DEF OwnIsNearest

-----------------------------------------------------------------------------
(* The best of the labelled results                                        *)

\* Of finitely many things one has the greatest key.
LEMMA GreatestKey ==
  ASSUME NEW S, IsFiniteSet(S), S # {}, NEW key \in [S -> Int]
  PROVE  \E x \in S : \A y \in S : key[y] <= key[x]
<1> DEFINE above(x) == {y \in S : key[y] > key[x]}
           counts == {Cardinality(above(x)) : x \in S}
<1>1. \A x \in S : IsFiniteSet(above(x)) /\ Cardinality(above(x)) \in Nat
  BY FS_Subset, FS_CardinalityType
<1>2. PICK x \in S : \A y \in S : Cardinality(above(x)) <= Cardinality(above(y))
  <2> HIDE DEF above
  <2>1. counts \in SUBSET Nat /\ counts # {}
    BY <1>1
  <2>2. Min(counts) \in counts /\ \A n \in counts : Min(counts) <= n
    <3> HIDE DEF counts
    <3> QED BY <2>1, LeastOfNaturals
  <2> QED BY <2>2
<1>3. ASSUME NEW y \in S, key[y] > key[x] PROVE FALSE
  <2>1. above(y) \in SUBSET (above(x) \ {y}) /\ y \in above(x)
    <3>1. key[x] \in Int /\ key[y] \in Int /\ \A z \in S : key[z] \in Int
      OBVIOUS
    <3>2. ASSUME NEW z \in S, key[z] > key[y] PROVE key[z] > key[x] /\ z # y
      BY <1>3, <3>1, <3>2
    <3> QED BY <1>3, <3>2
  <2>2. IsFiniteSet(above(x)) /\ Cardinality(above(x)) \in Nat /\ Cardinality(above(y)) \in Nat
    BY <1>1
  <2> HIDE DEF above
  <2>3. /\ IsFiniteSet(above(x) \ {y}) /\ Cardinality(above(x) \ {y}) = Cardinality(above(x)) - 1
        /\ Cardinality(above(y)) <= Cardinality(above(x) \ {y})
    BY <2>1, <2>2, FS_RemoveElement, FS_Subset
  <2> QED BY <1>2, <2>2, <2>3
<1>4. ASSUME NEW y \in S PROVE key[y] <= key[x]
  <2>1. key[x] \in Int /\ key[y] \in Int
    OBVIOUS
  <2> QED BY <1>3, <2>1
<1> QED BY <1>4

\* Those that have it, finitely many again.
Greatest(S, key) == {x \in S : \A y \in S : key[y] <= key[x]}

LEMMA GreatestFacts ==
  ASSUME NEW S, IsFiniteSet(S), S # {}, NEW key \in [S -> Int]
  PROVE  LET T == Greatest(S, key)
         IN  /\ T # {} /\ T \in SUBSET S /\ IsFiniteSet(T)
             /\ \A x \in T, y \in S : IF y \in T THEN key[x] = key[y] ELSE key[x] > key[y]
<1> DEFINE T == Greatest(S, key)
<1>1. T # {}
  BY GreatestKey DEF Greatest
<1>2. T \in SUBSET S /\ IsFiniteSet(T)
  BY FS_Subset DEF Greatest
<1>3. \A x \in S : key[x] \in Int
  OBVIOUS
<1>4. ASSUME NEW x \in T, NEW y \in T PROVE key[x] = key[y]
  BY <1>3 DEF Greatest
<1>5. ASSUME NEW x \in T, NEW y \in S, y \notin T PROVE key[x] > key[y]
  <2>1. PICK z \in S : ~ (key[z] <= key[y])
    BY <1>5 DEF Greatest
  <2>2. key[z] <= key[x]
    BY DEF Greatest
  <2>3. key[x] \in Int /\ key[y] \in Int /\ key[z] \in Int
    BY <1>2, <1>3
  <2> QED BY <2>1, <2>2, <2>3
<1> QED BY <1>1, <1>2, <1>4, <1>5

LEMMA AboveTwo ==
  ASSUME NEW a1 \in Int, NEW a2 \in Int, NEW b1 \in Int, NEW b2 \in Int
  PROVE  Above(<<a1, a2>>, <<b1, b2>>) <=> a1 > b1 \/ (a1 = b1 /\ a2 > b2)
<1> DEFINE a == <<a1, a2>>
           b == <<b1, b2>>
<1>1. DOMAIN a = {1, 2} /\ a[1] = a1 /\ a[2] = a2 /\ b[1] = b1 /\ b[2] = b2
  OBVIOUS
<1> HIDE DEF a, b
<1>2. 1 .. (1 - 1) = {} /\ 1 .. (2 - 1) = {1}
  OBVIOUS
<1>3. Above(a, b) <=> (a[1] > b[1] /\ \A m \in 1 .. (1 - 1) : a[m] = b[m])
                      \/ (a[2] > b[2] /\ \A m \in 1 .. (2 - 1) : a[m] = b[m])
  BY <1>1 DEF Above
<1> QED BY <1>1, <1>2, <1>3 DEF a, b

LEMMA AboveFive ==
  ASSUME NEW a, NEW b, DOMAIN a = 1 .. 5
  PROVE  Above(a, b) <=>
           \/ a[1] > b[1]
           \/ a[1] = b[1] /\ a[2] > b[2]
           \/ a[1] = b[1] /\ a[2] = b[2] /\ a[3] > b[3]
           \/ a[1] = b[1] /\ a[2] = b[2] /\ a[3] = b[3] /\ a[4] > b[4]
           \/ a[1] = b[1] /\ a[2] = b[2] /\ a[3] = b[3] /\ a[4] = b[4] /\ a[5] > b[5]
<1> DEFINE DecidesAt(n) == a[n] > b[n] /\ \A m \in 1 .. n - 1 : a[m] = b[m]
<1>1. Above(a, b) <=> DecidesAt(1) \/ DecidesAt(2) \/ DecidesAt(3) \/ DecidesAt(4) \/ DecidesAt(5)
  <2>1. 1 .. 5 = {1, 2, 3, 4, 5}
    OBVIOUS
  <2> QED BY <2>1 DEF Above
<1>2. /\ 1 .. 1 - 1 = {} /\ 1 .. 2 - 1 = {1} /\ 1 .. 3 - 1 = {1, 2} /\ 1 .. 4 - 1 = {1, 2, 3}
      /\ 1 .. 5 - 1 = {1, 2, 3, 4}
  OBVIOUS
<1> QED BY <1>1, <1>2

\* Five keys of the members of a set, the last of which tells them apart.
Keyed(S, merit, k1, k2, k3, k4) ==
  /\ {k1, k2, k3, k4} \subseteq [S -> Int]
  /\ \A x \in S : merit[x] = <<k1[x], k2[x], k3[x], k4[x], -x>>

\* Of finitely many tuples that differ in the last place one is above the others.
LEMMA UppermostExists ==
  ASSUME NEW S \in SUBSET Int, IsFiniteSet(S), S # {}, NEW merit, NEW k1, NEW k2, NEW k3, NEW k4,
         Keyed(S, merit, k1, k2, k3, k4)
  PROVE  \E x \in S : \A y \in S \ {x} : Above(merit[x], merit[y])
<1> DEFINE S1 == Greatest(S, k1)
           r2 == [x \in S1 |-> k2[x]]
           S2 == Greatest(S1, r2)
           r3 == [x \in S2 |-> k3[x]]
           S3 == Greatest(S2, r3)
           r4 == [x \in S3 |-> k4[x]]
           S4 == Greatest(S3, r4)
           r5 == [x \in S4 |-> -x]
           S5 == Greatest(S4, r5)
<1>0. /\ k1 \in [S -> Int] /\ k2 \in [S -> Int] /\ k3 \in [S -> Int] /\ k4 \in [S -> Int]
      /\ \A x \in S : merit[x] = <<k1[x], k2[x], k3[x], k4[x], -x>>
  BY DEF Keyed
<1>1. /\ S1 # {} /\ S1 \in SUBSET S /\ IsFiniteSet(S1)
      /\ \A x \in S1, y \in S : IF y \in S1 THEN k1[x] = k1[y] ELSE k1[x] > k1[y]
  BY <1>0, GreatestFacts
<1> HIDE DEF S1
<1>2. /\ S2 # {} /\ S2 \in SUBSET S1 /\ IsFiniteSet(S2)
      /\ \A x \in S2, y \in S1 : IF y \in S2 THEN k2[x] = k2[y] ELSE k2[x] > k2[y]
  <2>1. r2 \in [S1 -> Int] /\ \A x \in S1 : r2[x] = k2[x]
    BY <1>0, <1>1
  <2> HIDE DEF r2
  <2>2. /\ S2 # {} /\ S2 \in SUBSET S1 /\ IsFiniteSet(S2)
        /\ \A x \in S2, y \in S1 : IF y \in S2 THEN r2[x] = r2[y] ELSE r2[x] > r2[y]
    BY <1>1, <2>1, GreatestFacts
  <2> HIDE DEF S2
  <2> QED BY <2>1, <2>2
<1> HIDE DEF S2
<1>3. /\ S3 # {} /\ S3 \in SUBSET S2 /\ IsFiniteSet(S3)
      /\ \A x \in S3, y \in S2 : IF y \in S3 THEN k3[x] = k3[y] ELSE k3[x] > k3[y]
  <2>1. r3 \in [S2 -> Int] /\ \A x \in S2 : r3[x] = k3[x]
    BY <1>0, <1>1, <1>2
  <2> HIDE DEF r3
  <2>2. /\ S3 # {} /\ S3 \in SUBSET S2 /\ IsFiniteSet(S3)
        /\ \A x \in S3, y \in S2 : IF y \in S3 THEN r3[x] = r3[y] ELSE r3[x] > r3[y]
    BY <1>2, <2>1, GreatestFacts
  <2> HIDE DEF S3
  <2> QED BY <2>1, <2>2
<1> HIDE DEF S3
<1>4. /\ S4 # {} /\ S4 \in SUBSET S3 /\ IsFiniteSet(S4)
      /\ \A x \in S4, y \in S3 : IF y \in S4 THEN k4[x] = k4[y] ELSE k4[x] > k4[y]
  <2>1. r4 \in [S3 -> Int] /\ \A x \in S3 : r4[x] = k4[x]
    BY <1>0, <1>1, <1>2, <1>3
  <2> HIDE DEF r4
  <2>2. /\ S4 # {} /\ S4 \in SUBSET S3 /\ IsFiniteSet(S4)
        /\ \A x \in S4, y \in S3 : IF y \in S4 THEN r4[x] = r4[y] ELSE r4[x] > r4[y]
    BY <1>3, <2>1, GreatestFacts
  <2> HIDE DEF S4
  <2> QED BY <2>1, <2>2
<1> HIDE DEF S4
<1>5. PICK x \in S4 : \A y \in S4 : y # x => -x > -y
  <2>1. r5 \in [S4 -> Int] /\ \A x \in S4 : r5[x] = -x /\ x \in Int
    BY <1>1, <1>2, <1>3, <1>4
  <2> HIDE DEF r5
  <2>2. /\ S5 # {} /\ S5 \in SUBSET S4
        /\ \A x \in S5, y \in S4 : IF y \in S5 THEN r5[x] = r5[y] ELSE r5[x] > r5[y]
    BY <1>4, <2>1, GreatestFacts
  <2> HIDE DEF S5
  <2>3. PICK x \in S5 : TRUE
    BY <2>2
  <2>4. ASSUME NEW y \in S4, y # x PROVE -x > -y
    BY <2>1, <2>2, <2>4
  <2> QED BY <2>2, <2>4
<1>6. x \in S /\ x \in S1 /\ x \in S2 /\ x \in S3
  BY <1>1, <1>2, <1>3, <1>4
<1>7. ASSUME NEW y \in S \ {x} PROVE Above(merit[x], merit[y])
  <2> DEFINE a == <<k1[x], k2[x], k3[x], k4[x], -x>>
             b == <<k1[y], k2[y], k3[y], k4[y], -y>>
  <2>1. /\ DOMAIN a = 1 .. 5 /\ a[1] = k1[x] /\ a[2] = k2[x] /\ a[3] = k3[x] /\ a[4] = k4[x] /\ a[5] = -x
        /\ b[1] = k1[y] /\ b[2] = k2[y] /\ b[3] = k3[y] /\ b[4] = k4[y] /\ b[5] = -y
    OBVIOUS
  <2>2. merit[x] = a /\ merit[y] = b
    BY <1>0, <1>6
  <2> HIDE DEF a, b
  <2>3. \/ a[1] > b[1]
        \/ a[1] = b[1] /\ a[2] > b[2]
        \/ a[1] = b[1] /\ a[2] = b[2] /\ a[3] > b[3]
        \/ a[1] = b[1] /\ a[2] = b[2] /\ a[3] = b[3] /\ a[4] > b[4]
        \/ a[1] = b[1] /\ a[2] = b[2] /\ a[3] = b[3] /\ a[4] = b[4] /\ a[5] > b[5]
    <3>1. CASE y \notin S1
      BY <1>1, <1>6, <2>1, <3>1
    <3>2. CASE y \in S1 /\ y \notin S2
      BY <1>1, <1>2, <1>6, <2>1, <3>2
    <3>3. CASE y \in S2 /\ y \notin S3
      BY <1>1, <1>2, <1>3, <1>6, <2>1, <3>3
    <3>4. CASE y \in S3 /\ y \notin S4
      BY <1>1, <1>2, <1>3, <1>4, <1>6, <2>1, <3>4
    <3>5. CASE y \in S4
      BY <1>1, <1>2, <1>3, <1>4, <1>5, <1>6, <2>1, <3>5
    <3> QED BY <1>1, <1>2, <1>3, <1>4, <3>1, <3>2, <3>3, <3>4, <3>5
  <2>4. Above(a, b)
    BY <2>1, <2>3, AboveFive
  <2> QED BY <2>2, <2>4
<1> QED BY <1>6, <1>7

\* A page that the general parser reads: results of no day to come, each of which
\* keeps its own texts near.
Kept(doc, es, off, s, today) ==
  /\ Laid(doc, es, off) /\ Entered(s, es) /\ today \in Nat
  /\ \A e \in DOMAIN es : Where(es[e].shows, DOMAIN Weight) # {} => es[e].of.day <= today
  /\ Where(s.pending, DOMAIN Weight) = {}
  /\ KeepsNear(s, "fecha")
  /\ KeepsNear(s, "serie") \/ Where(s.full, {"serie"}) \cup Where(s.pending, {"serie"}) = {}

LEMMA LabelledFacts ==
  ASSUME NEW doc, NEW es, NEW off, NEW s, NEW today, Kept(doc, es, off, s, today),
         NEW i \in Where(doc, DOMAIN Weight)
  PROVE  /\ i \in Nat /\ doc[i].of \in Draw /\ doc[i].of.day \in Nat /\ doc[i].of.day <= today
         /\ DateOf(doc, i) = doc[i].of.day
         /\ NearestDraw(doc, i, InReach(doc, i, Where(doc, {"serie"}))) \in {Nothing, doc[i].of}
         /\ LET near == InReach(doc, i, Where(doc, {"fecha"}))
            IN  near = {} \/ Distance(doc, i, Min(near)) \in Nat
<1>1. /\ Laid(doc, es, off) /\ Entered(s, es) /\ Where(s.pending, DOMAIN Weight) = {}
      /\ KeepsNear(s, "fecha")
      /\ KeepsNear(s, "serie") \/ Where(s.full, {"serie"}) \cup Where(s.pending, {"serie"}) = {}
      /\ \A e \in DOMAIN es : Where(es[e].shows, DOMAIN Weight) # {} => es[e].of.day <= today
  BY DEF Kept
<1>2. Labelling(doc) /\ doc \in Seq(Text) /\ DOMAIN doc \subseteq Nat /\ i \in DOMAIN doc
  <2>1. Labelling(doc) /\ doc \in Seq(Text) /\ i \in DOMAIN doc
    BY <1>1, LaidFacts DEF Laid, Where
  <2> QED BY <2>1 DEF Labelling, Running
<1>3. \A j \in DOMAIN doc : Distance(doc, i, j) \in Nat
  BY <1>2, DistancesAreNaturals
<1>4. doc[i].of \in Draw /\ doc[i].of.day \in Nat
  BY <1>2, TextsAreLabelled DEF Draw
<1>5. doc[i].of.day <= today
  <2>1. PICK e \in DOMAIN es : \E k \in DOMAIN es[e].shows : i = off[e] + k
    BY <1>1, <1>2, LaidFacts
  <2>2. PICK k \in DOMAIN es[e].shows : i = off[e] + k
    BY <2>1
  <2>3. doc[i].label = es[e].shows[k].label /\ doc[i].of = es[e].of
    BY <1>1, <2>2, LaidFacts
  <2>4. k \in Where(es[e].shows, DOMAIN Weight)
    BY <2>3 DEF Where
  <2> QED BY <1>1, <2>3, <2>4
<1>6. OwnIsNearest(doc, i, InReach(doc, i, Where(doc, {"fecha"})))
  BY <1>1, OwnTextIsNearest
<1>7. DateOf(doc, i) = doc[i].of.day
  BY <1>2, <1>3, <1>6, DateIsOwn
<1> DEFINE series == InReach(doc, i, Where(doc, {"serie"}))
<1>8. NearestDraw(doc, i, series) \in {Nothing, doc[i].of}
  <2>1. series \in SUBSET DOMAIN doc
    BY DEF InReach, Where
  <2>2. ASSUME KeepsNear(s, "serie") PROVE NearestDraw(doc, i, series) = doc[i].of
    <3>1. OwnIsNearest(doc, i, series)
      BY <1>1, <2>2, OwnTextIsNearest
    <3> HIDE DEF series
    <3>2. \A j \in series : Distance(doc, i, j) \in Nat
      BY <1>3, <2>1
    <3> QED BY <1>2, <2>1, <3>1, <3>2, NearestDrawIsOwn
  <2>3. ASSUME Where(s.full, {"serie"}) \cup Where(s.pending, {"serie"}) = {}, NEW j \in series PROVE FALSE
    <3>1. j \in DOMAIN doc /\ doc[j].label = "serie"
      BY DEF InReach, Where
    <3>2. PICK e \in DOMAIN es : \E k \in DOMAIN es[e].shows : j = off[e] + k
      BY <1>1, <3>1, LaidFacts
    <3>3. PICK k \in DOMAIN es[e].shows : j = off[e] + k
      BY <3>2
    <3>4. es[e].shows[k].label = "serie"
      BY <1>1, <3>1, <3>3, LaidFacts
    <3>5. k \in Where(es[e].shows, {"serie"})
      BY <3>4 DEF Where
    <3>6. es[e].shows \in {s.full, s.pending}
      BY <1>1 DEF Entered
    <3> QED BY <2>3, <3>5, <3>6
  <2>4. KeepsNear(s, "serie") \/ Where(s.full, {"serie"}) \cup Where(s.pending, {"serie"}) = {}
    BY DEF Kept
  <2> HIDE DEF series
  <2>5. series = {} => NearestDraw(doc, i, series) = Nothing
    BY DEF NearestDraw
  <2> QED BY <2>2, <2>3, <2>4, <2>5
<1>9. LET near == InReach(doc, i, Where(doc, {"fecha"}))
      IN  near = {} \/ Distance(doc, i, Min(near)) \in Nat
  <2> DEFINE near == InReach(doc, i, Where(doc, {"fecha"}))
  <2>1. near \in SUBSET DOMAIN doc
    BY DEF InReach, Where
  <2> HIDE DEF near
  <2>2. ASSUME near # {} PROVE Distance(doc, i, Min(near)) \in Nat
    <3>1. Min(near) \in near
      BY <1>2, <2>1, <2>2, LeastOfNaturals
    <3> QED BY <1>3, <2>1, <3>1
  <2>3. near = {} \/ Distance(doc, i, Min(near)) \in Nat
    BY <2>2
  <2> QED BY <2>3 DEF near
<1> QED BY <1>2, <1>4, <1>5, <1>7, <1>8, <1>9

\* The best of the labelled results is one of the latest day.
LEMMA BestIsNewest ==
  ASSUME NEW doc, NEW es, NEW off, NEW s, NEW today, Kept(doc, es, off, s, today),
         Where(doc, DOMAIN Weight) # {}
  PROVE  /\ Best(doc, today) \in Where(doc, DOMAIN Weight)
         /\ \A j \in Where(doc, DOMAIN Weight) : doc[j].of.day <= doc[Best(doc, today)].of.day
<1> DEFINE S == Where(doc, DOMAIN Weight)
           near(i) == InReach(doc, i, Where(doc, {"fecha"}))
           k1 == [i \in S |-> IF DateOf(doc, i) <= today THEN 1 ELSE 0]
           k2 == [i \in S |-> DateOf(doc, i)]
           k3 == [i \in S |-> Weight[doc[i].label]]
           k4 == [i \in S |-> IF near(i) = {} THEN 0 ELSE -Distance(doc, i, Min(near(i)))]
           merit == [i \in S |-> Merit(doc, i, today)]
           best == Best(doc, today)
<1>1. /\ S \in SUBSET Nat /\ today \in Nat
      /\ \A i \in S : /\ doc[i].of.day \in Nat /\ doc[i].of.day <= today /\ DateOf(doc, i) = doc[i].of.day
                      /\ near(i) = {} \/ Distance(doc, i, Min(near(i))) \in Nat
  BY LabelledFacts DEF Kept
<1>2. IsFiniteSet(S)
  <2>1. Running(doc)
    BY LaidFacts DEF Kept
  <2>2. IsFiniteSet(1 .. Len(doc)) /\ S \in SUBSET (1 .. Len(doc))
    BY <2>1, FS_Interval DEF Running, Where
  <2> HIDE DEF S
  <2> QED BY <2>2, FS_Subset
<1>3. k1 \in [S -> Int] /\ k2 \in [S -> Int] /\ k4 \in [S -> Int]
  <2>1. \A i \in S : (IF DateOf(doc, i) <= today THEN 1 ELSE 0) \in Int
    OBVIOUS
  <2>2. \A i \in S : DateOf(doc, i) \in Int
    BY <1>1
  <2>3. \A i \in S : (IF near(i) = {} THEN 0 ELSE -Distance(doc, i, Min(near(i)))) \in Int
    BY <1>1
  <2> QED BY <2>1, <2>2, <2>3
<1>4. k3 \in [S -> Int]
  <2>1. \A i \in S : Weight[doc[i].label] \in Int
    <3>1. \A i \in S : doc[i].label \in {"premio_mayor", "resultado", "numero"}
      BY DEF Where, Weight
    <3>2. \A label \in {"premio_mayor", "resultado", "numero"} : Weight[label] \in Int
      BY DEF Weight
    <3> QED BY <3>1, <3>2
  <2> QED BY <2>1
<1>5. \A i \in S : merit[i] = <<k1[i], k2[i], k3[i], k4[i], -i>>
  BY DEF Merit, MeritOf
<1>6. \E i \in S : \A j \in S \ {i} : Above(merit[i], merit[j])
  <2>1. S \in SUBSET Int /\ S # {}
    BY <1>1
  <2> HIDE DEF S, k1, k2, k3, k4, merit
  <2>2. Keyed(S, merit, k1, k2, k3, k4)
    BY <1>3, <1>4, <1>5 DEF Keyed
  <2> QED BY <1>2, <2>1, <2>2, UppermostExists
<1>7. best \in S /\ \A j \in S \ {best} : Above(merit[best], merit[j])
  <2>1. \A i \in S : merit[i] = Merit(doc, i, today)
    OBVIOUS
  <2>2. best = CHOOSE i \in S : \A j \in S \ {i} : Above(Merit(doc, i, today), Merit(doc, j, today))
    BY DEF Best
  <2> HIDE DEF S, merit, best
  <2>3. \E i \in S : \A j \in S \ {i} : Above(Merit(doc, i, today), Merit(doc, j, today))
    BY <1>6, <2>1
  <2>4. best \in S /\ \A j \in S \ {best} : Above(Merit(doc, best, today), Merit(doc, j, today))
    BY <2>2, <2>3
  <2> QED BY <2>1, <2>4
<1>8. ASSUME NEW j \in S PROVE doc[j].of.day <= doc[best].of.day
  <2>1. CASE j # best
    <3> DEFINE a == merit[best]
               b == merit[j]
    <3>1. DOMAIN a = 1 .. 5 /\ a[1] = 1 /\ b[1] = 1 /\ a[2] = doc[best].of.day /\ b[2] = doc[j].of.day
      <4>1. k1[best] = 1 /\ k1[j] = 1 /\ k2[best] = doc[best].of.day /\ k2[j] = doc[j].of.day
        BY <1>1, <1>7
      <4>2. a = <<k1[best], k2[best], k3[best], k4[best], -best>> /\ b = <<k1[j], k2[j], k3[j], k4[j], -j>>
        BY <1>5, <1>7
      <4> HIDE DEF a, b, k1, k2, k3, k4
      <4> QED BY <4>1, <4>2
    <3>2. Above(a, b)
      BY <1>7, <2>1
    <3> HIDE DEF a, b, merit
    <3>3. a[2] > b[2] \/ a[2] = b[2]
      BY <3>1, <3>2, AboveFive
    <3>4. doc[best].of.day \in Nat /\ doc[j].of.day \in Nat
      BY <1>1, <1>7
    <3> QED BY <3>1, <3>3, <3>4
  <2>2. CASE j = best
    BY <1>1, <2>2
  <2> QED BY <2>1, <2>2
<1> QED BY <1>7, <1>8

\* What the general parser makes of such a page.
LEMMA HtmlReads ==
  ASSUME NEW doc, NEW es, NEW off, NEW s, NEW today, Kept(doc, es, off, s, today),
         NEW source, NEW game, NEW record \in Html(doc, source, game, today)
  PROVE  \/ record.via = "unlabelled" /\ Where(doc, DOMAIN Weight) = {}
         \/ /\ record.via = "labelled"
            /\ \E i \in Where(doc, DOMAIN Weight) :
                 /\ record.result = doc[i].of /\ record.date = doc[i].of.day /\ record.game = game
                 /\ record.series \in {Nothing, doc[i].of}
                 /\ \A j \in Where(doc, DOMAIN Weight) : doc[j].of.day <= doc[i].of.day
<1> DEFINE best == Best(doc, today)
           series == NearestDraw(doc, best, InReach(doc, best, Where(doc, {"serie"})))
           number == NearestDraw(doc, best, DrawHeaders(doc, source))
<1>1. CASE Where(doc, DOMAIN Weight) = {}
  <2>1. record = Plain(doc, source, game, Unlabelled(doc), today)
    BY <1>1 DEF Html
  <2>2. record.via = "unlabelled"
    BY <2>1 DEF Plain, RecordAt, Record
  <2> QED BY <1>1, <2>2
<1>2. CASE Where(doc, DOMAIN Weight) # {}
  <2>1. /\ best \in Where(doc, DOMAIN Weight)
        /\ \A j \in Where(doc, DOMAIN Weight) : doc[j].of.day <= doc[best].of.day
    BY <1>2, BestIsNewest
  <2>2. DateOf(doc, best) = doc[best].of.day /\ series \in {Nothing, doc[best].of}
    BY <2>1, LabelledFacts
  <2>3. record = Record(game, number, DateOf(doc, best), doc[best], series, "labelled")
    BY <1>2 DEF Html, Labelled, RecordAt
  <2> HIDE DEF series, number, best
  <2>4. /\ record.game = game /\ record.date = DateOf(doc, best) /\ record.result = doc[best].of
        /\ record.series = series /\ record.via = "labelled"
    BY <2>3 DEF Record
  <2> QED BY <2>1, <2>2, <2>4
<1> QED BY <1>1, <1>2

-----------------------------------------------------------------------------
(* The page through the days                                               *)

LEMMA DaysGoOn == ASSUME NEW t \in Nat PROVE DayOf(t) <= DayOf(t + 1)
<1> DEFINE L == DayLength
           a == t \div L
           b == (t + 1) \div L
<1>1. L \in Nat \ {0}
  BY CalendarAssumption
<1> HIDE DEF L
<1>2. a \in Nat /\ L * a <= t
  BY <1>1
<1>3. b \in Nat /\ t + 1 < L * (b + 1)
  BY <1>1
<1> HIDE DEF a, b
<1>4. ASSUME b + 1 <= a PROVE FALSE
  <2>1. L * (b + 1) <= L * a /\ L * (b + 1) \in Nat /\ L * a \in Nat
    BY <1>1, <1>2, <1>3, <1>4
  <2> DEFINE x == L * (b + 1)
             y == L * a
  <2>2. x <= y /\ x \in Nat /\ y \in Nat /\ y <= t /\ t + 1 < x
    BY <1>2, <1>3, <2>1
  <2> HIDE DEF x, y
  <2> QED BY <2>2
<1>5. a <= b
  BY <1>2, <1>3, <1>4
<1> QED BY <1>5 DEF DayOf, a, b, L

\* What a page shows of a game: results of no day to come, the latest first, no more
\* than it keeps, and a notice only if the page has notices.
Orderly(shown) ==
  /\ Len(shown.past) <= site.keep
  /\ \A i \in DOMAIN shown.past : shown.past[i] <= DayOf(now)
  /\ \A i, j \in DOMAIN shown.past : i < j => shown.past[j] < shown.past[i]
  /\ site.notice = "nowhere" => shown.next = Nothing

\* And the counter that the first page of Risaralda had when it was read is
\* that of a result that is still out, or of an older one.
CounterBehind ==
  primary # <<>> =>
    /\ TwoPages /\ Len(primary) = 1
    /\ primary[1] # Nothing => page[1].past # <<>> /\ primary[1] <= page[1].past[1]

PagesInOrder == (\A g \in DOMAIN page : Orderly(page[g])) /\ CounterBehind

(* However often draws are announced and published and however many of its *)
(* results a page keeps, it has them in order and none of a day to come,   *)
(* and the number that RisaraldaOfficialSourceFetcher has read is never    *)
(* newer than the result that it is going to read.                         *)
THEOREM PagesStayInOrder == WatchSpec => []PagesInOrder
<1>1. WatchInit => PagesInOrder
  <2> SUFFICES ASSUME WatchInit PROVE PagesInOrder
    OBVIOUS
  <2>1. ASSUME NEW g \in DOMAIN page PROVE Orderly(page[g])
    <3>1. page[g].past = <<>> /\ page[g].next = Nothing
      BY DEF WatchInit
    <3>2. Watched
      BY DEF WatchInit, Games
    <3>3. site.keep \in Nat \ {0}
      BY <3>2, SiteOfCode
    <3>4. Len(<<>>) = 0 /\ DOMAIN <<>> = {}
      OBVIOUS
    <3> QED BY <3>1, <3>3, <3>4 DEF Orderly
  <2>2. CounterBehind
    BY DEF WatchInit, CounterBehind
  <2> QED BY <2>1, <2>2 DEF PagesInOrder
<1>2. WatchTypeOK /\ PagesInOrder /\ [WatchNext]_watchVars => PagesInOrder'
  <2> SUFFICES ASSUME WatchTypeOK, PagesInOrder, [WatchNext]_watchVars PROVE PagesInOrder'
    OBVIOUS
  <2>0. DayOf(now) \in Nat /\ page \in [DOMAIN Games -> Shown]
    BY DaysAreNaturals DEF WatchTypeOK
  <2>1. schedule' = schedule /\ DayOf(now)' \in Nat /\ DayOf(now) <= DayOf(now)'
    <3>1. [Next]_vars
      BY DEF WatchNext, watchVars, Pass, Next, Announce, Publish, FetchPrimary, FetchEnds
    <3>2. schedule' = schedule /\ (now' = now \/ now' = now + 1) /\ now \in Nat
      BY <3>1, ClockAssumption DEF Next, Tick, vars, WatchTypeOK, TypeOK
    <3>3. DayOf(now)' = DayOf(now')
      BY DEF DayOf
    <3>4. CASE now' = now
      BY <2>0, <3>2, <3>3, <3>4
    <3>5. CASE now' = now + 1
      BY <2>0, <3>2, <3>3, <3>5, DaysGoOn, InstantInDay
    <3> QED BY <3>2, <3>4, <3>5
  <2>2. /\ Watched' = Watched /\ site' = site /\ Games' = Games /\ TwoPages' = TwoPages
    BY <2>1 DEF Watched, site, code, Games, TwoPages
  <2>4. \A g \in DOMAIN page : page[g].past \in Seq(Nat) /\ Orderly(page[g])
    BY <2>0 DEF Shown, PagesInOrder
  <2>5. ASSUME NEW g \in DOMAIN Games, Announce(g) PROVE PagesInOrder'
    <3>1. PICK day \in DayOf(now) .. DayOf(now) + 1 :
            page' = [page EXCEPT ![g].next = day] /\ site.notice # "nowhere" /\ primary' = primary
      BY <2>5 DEF Announce
    <3>2. \A h \in DOMAIN page' : page'[h].past = page[h].past /\ h \in DOMAIN page
      BY <2>0, <3>1
    <3>3. ASSUME NEW h \in DOMAIN page' PROVE Orderly(page[h])'
      <4>1. Orderly(page[h])
        BY <2>4, <3>2
      <4>2. UNCHANGED now
        BY <2>5 DEF Announce, vars
      <4> QED BY <2>2, <3>1, <3>2, <4>1, <4>2 DEF Orderly, DayOf
    <3>4. CounterBehind'
      <4>1. CounterBehind
        BY DEF PagesInOrder
      <4>2. TwoPages => page'[1].past = page[1].past
        <5>1. TwoPages => 1 \in DOMAIN page
          BY <2>0, SiteOfCode, EmptySeq DEF TwoPages, Games
        <5> QED BY <2>0, <3>1, <5>1
      <4> QED BY <2>2, <3>1, <4>1, <4>2 DEF CounterBehind
    <3> QED BY <3>3, <3>4 DEF PagesInOrder
  <2>6. ASSUME NEW g \in DOMAIN Games, NEW day \in 0 .. DayOf(now), Publish(g, day) PROVE PagesInOrder'
    <3> DEFINE past == page[g].past
               keep == site.keep
               t == SubSeq(<<day>> \o past, 1, Min({keep, Len(past) + 1}))
               next == IF page[g].next # Nothing /\ page[g].next <= day THEN Nothing ELSE page[g].next
    <3>1. /\ page' = [page EXCEPT ![g] = [past |-> t, next |-> next]] /\ UNCHANGED <<now, primary>>
          /\ \A i \in DOMAIN past : past[i] < day
      BY <2>6 DEF Publish, Newer, vars
    <3>2. past \in Seq(Nat) /\ Orderly(page[g])
      BY <2>0, <2>4
    <3>3. day \in Nat /\ day <= DayOf(now)
      BY <2>0
    <3>4. Watched
      BY DEF Games
    <3>5. site.keep \in Nat \ {0}
      BY <3>4, SiteOfCode
    <3>6. /\ t \in Seq(Nat) /\ Len(t) \in Nat /\ DOMAIN t = 1 .. Len(t) /\ 1 \in DOMAIN t
          /\ Len(t) <= site.keep /\ t[1] = day
          /\ \A i \in DOMAIN t : i # 1 => i - 1 \in DOMAIN past /\ t[i] = past[i - 1]
      <4>1. keep = site.keep
        OBVIOUS
      <4>2. past \in Seq(Nat) /\ keep \in Nat \ {0}
        BY <3>2, <3>5
      <4> HIDE DEF past, keep
      <4>3. /\ t \in Seq(Nat) /\ Len(t) \in Nat /\ DOMAIN t = 1 .. Len(t) /\ 1 \in DOMAIN t
            /\ Len(t) <= keep /\ t[1] = day
            /\ \A i \in DOMAIN t : i # 1 => i - 1 \in DOMAIN past /\ t[i] = past[i - 1]
        BY <3>3, <4>2, Shortened
      <4> HIDE DEF t
      <4> QED BY <4>1, <4>3
    <3>7. \A i \in DOMAIN past : past[i] \in Nat
      BY <3>2
    <3> HIDE DEF t
    <3>8. \A i \in DOMAIN t : t[i] <= DayOf(now)
      <4>1. ASSUME NEW i \in DOMAIN t, i # 1 PROVE t[i] <= DayOf(now)
        <5>1. t[i] \in Nat /\ t[i] < day
          BY <3>1, <3>6, <3>7, <4>1
        <5> QED BY <2>0, <3>3, <5>1
      <4> QED BY <3>3, <3>6, <4>1
    <3>9. ASSUME NEW i \in DOMAIN t, NEW j \in DOMAIN t, i < j PROVE t[j] < t[i]
      <4>1. i \in Nat /\ j \in Nat /\ j # 1 /\ j - 1 \in DOMAIN past /\ t[j] = past[j - 1]
        BY <3>6, <3>9
      <4>2. CASE i = 1
        BY <3>1, <3>6, <4>1, <4>2
      <4>3. CASE i # 1
        <5>1. i - 1 \in DOMAIN past /\ t[i] = past[i - 1] /\ i - 1 < j - 1
          BY <3>6, <3>9, <4>1, <4>3
        <5>2. \A a, b \in DOMAIN past : a < b => past[b] < past[a]
          BY <3>2 DEF Orderly
        <5> HIDE DEF past
        <5> QED BY <4>1, <5>1, <5>2
      <4> QED BY <4>2, <4>3
    <3>10. site.notice = "nowhere" => next = Nothing
      BY <3>2 DEF Orderly
    <3>11. ASSUME NEW h \in DOMAIN page' PROVE Orderly(page[h])'
      <4>1. h \in DOMAIN page /\ g \in DOMAIN page
        BY <2>0, <3>1
      <4>2. CASE h = g
        <5>1. page'[h].past = t /\ page'[h].next = next
          BY <3>1, <4>1, <4>2
        <5> HIDE DEF next, past
        <5> QED BY <2>2, <3>1, <3>6, <3>8, <3>9, <3>10, <5>1 DEF Orderly, DayOf
      <4>3. CASE h # g
        <5>1. page'[h] = page[h] /\ Orderly(page[h])
          BY <2>4, <3>1, <4>1, <4>3
        <5> QED BY <2>2, <3>1, <5>1 DEF Orderly, DayOf
      <4> QED BY <4>2, <4>3
    <3>12. CounterBehind'
      <4>1. CounterBehind
        BY DEF PagesInOrder
      <4>2. ASSUME TwoPages, primary # <<>>, primary[1] # Nothing, page[1].past # <<>>,
                   primary[1] <= page[1].past[1]
            PROVE  page'[1].past # <<>> /\ primary[1] <= page'[1].past[1]
        <5>1. CASE g # 1
          <6>1. 1 \in DOMAIN page
            BY <2>0, <4>2, SiteOfCode, EmptySeq DEF TwoPages, Games
          <6> QED BY <3>1, <4>2, <5>1, <6>1
        <5>2. CASE g = 1
          <6>1. page'[1].past = t
            BY <2>0, <3>1, <5>2
          <6>2. t # <<>>
            BY <3>6
          <6>3. 1 \in DOMAIN past /\ past[1] < day /\ past[1] \in Nat
            <7>1. past # <<>>
              BY <4>2, <5>2
            <7>2. 1 \in DOMAIN past
              <8> HIDE DEF past
              <8> QED BY <3>2, <7>1, EmptySeq
            <7> QED BY <3>1, <3>7, <7>2
          <6>4. primary[1] \in Nat
            <7> DEFINE S == ShownDays
            <7>1. primary \in Seq(S)
              BY DEF WatchTypeOK
            <7> HIDE DEF S
            <7>2. primary[1] \in S
              BY <4>2, <7>1, EmptySeq
            <7> QED BY <4>2, <7>2 DEF S, ShownDays
          <6>5. primary[1] <= past[1]
            BY <4>2, <5>2
          <6> HIDE DEF past
          <6>6. primary[1] <= day
            BY <3>3, <6>3, <6>4, <6>5
          <6> QED BY <3>6, <6>1, <6>2, <6>6
        <5> QED BY <5>1, <5>2
      <4> QED BY <2>2, <3>1, <4>1, <4>2 DEF CounterBehind
    <3> QED BY <3>11, <3>12 DEF PagesInOrder
  <2>7. ASSUME UNCHANGED page, CounterBehind' PROVE PagesInOrder'
    <3>1. ASSUME NEW g \in DOMAIN page PROVE Orderly(page[g])'
      <4> DEFINE shown == page[g]
      <4>1. page'[g] = page[g]
        BY <2>7
      <4>2. Orderly(shown) /\ shown.past \in Seq(Nat)
        BY <2>4
      <4>3. \A i \in DOMAIN shown.past : shown.past[i] <= DayOf(now)'
        <5> DEFINE a == DayOf(now)
                   b == DayOf(now)'
                   p == shown.past
        <5>1. a \in Nat /\ b \in Nat /\ a <= b
          BY <2>0, <2>1
        <5>2. \A i \in DOMAIN p : p[i] <= a /\ p[i] \in Nat
          BY <4>2 DEF Orderly
        <5> HIDE DEF a, b, p
        <5>3. \A i \in DOMAIN p : p[i] <= b
          BY <5>1, <5>2
        <5> QED BY <5>3 DEF b, p
      <4> QED BY <2>2, <4>1, <4>2, <4>3 DEF Orderly
    <3> QED BY <2>7, <3>1 DEF PagesInOrder
  <2>8. CASE FetchPrimary
    <3>1. TwoPages /\ primary' \in {<<Counter>>, <<Nothing>>} /\ UNCHANGED page
      BY <2>8 DEF FetchPrimary
    <3>2. CounterBehind'
      <4>1. Len(primary') = 1 /\ primary'[1] \in {Counter, Nothing}
        BY <3>1
      <4>2. Counter # Nothing => page[1].past # <<>> /\ Counter = page[1].past[1] /\ Counter \in Nat
        <5>1. 1 \in DOMAIN page
          BY <2>0, <3>1, SiteOfCode, EmptySeq DEF TwoPages, Games
        <5>2. page[1].past \in Seq(Nat)
          BY <2>4, <5>1
        <5>3. page[1].past # <<>> => page[1].past[1] \in Nat
          BY <5>2, EmptySeq
        <5> QED BY <5>3 DEF Counter
      <4> QED BY <2>2, <3>1, <4>1, <4>2 DEF CounterBehind
    <3> QED BY <2>7, <3>1, <3>2
  <2>9. CASE FetchEnds
    <3>1. primary' = <<>> /\ UNCHANGED page
      BY <2>9 DEF FetchEnds
    <3>2. CounterBehind'
      BY <3>1 DEF CounterBehind
    <3> QED BY <2>7, <3>1, <3>2
  <2>10. CASE Pass \/ UNCHANGED watchVars
    <3>1. UNCHANGED <<page, primary>>
      BY <2>10 DEF Pass, watch, watchVars
    <3>2. CounterBehind'
      BY <2>2, <3>1 DEF CounterBehind, PagesInOrder
    <3> QED BY <2>7, <3>1, <3>2
  <2> QED BY <2>5, <2>6, <2>8, <2>9, <2>10 DEF WatchNext
<1> QED BY <1>1, <1>2, WatchTypeCorrect, PTL DEF WatchSpec

Entries == FlattenSeq(Tables)

\* What the rows of a game are.
IsRow(entry, g) ==
  \/ \E n \in DOMAIN page[g].past : entry = Entry(g, page[g].past[n], site.full)
  \/ page[g].next # Nothing /\ entry = Entry(g, page[g].next, site.pending)

LEMMA EntryIsTyped ==
  ASSUME Watched, NEW g \in DOMAIN Games, NEW day \in Nat
  PROVE  /\ Entry(g, day, site.full) \in EntryType /\ Entry(g, day, site.pending) \in EntryType
         /\ DrawAt(g, day) \in Draw
<1>1. site \in Site
  BY SiteAssumption DEF Watched, site
<1>2. site.games \in Seq(STRING) /\ site.full \in Template /\ site.pending \in Template
  BY <1>1 DEF Site
<1>3. Games[g] \in STRING
  <2> DEFINE T == STRING
  <2>1. Games \in Seq(T)
    BY <1>2 DEF Games
  <2> HIDE DEF T
  <2>2. Games[g] \in T
    BY <2>1
  <2> QED BY <2>2 DEF T
<1>4. DrawAt(g, day) \in Draw
  BY <1>3 DEF DrawAt, Draw
<1> QED BY <1>2, <1>4 DEF Entry, EntryType

LEMMA RowsOfGame ==
  ASSUME WatchTypeOK, PagesInOrder, Watched, NEW g \in DOMAIN Games
  PROVE  /\ Rows(g) \in Seq(EntryType)
         /\ \A r \in DOMAIN Rows(g) : IsRow(Rows(g)[r], g)
         /\ \A n \in DOMAIN page[g].past : \E r \in DOMAIN Rows(g) :
              Rows(g)[r] = Entry(g, page[g].past[n], site.full)
         /\ NewestFirst(site) /\ page[g].past # <<>> /\ page[g].next = Nothing =>
              1 \in DOMAIN Rows(g) /\ Rows(g)[1] = Entry(g, page[g].past[1], site.full)
         /\ OneResult(site) => DOMAIN Rows(g) \subseteq {1}
<1> DEFINE past == page[g].past
           E == EntryType
           results == [i \in DOMAIN past |-> Entry(g, past[i], site.full)]
           notice == IF page[g].next = Nothing THEN <<>> ELSE <<Entry(g, page[g].next, site.pending)>>
           ordered == IF site.oldest_first THEN Reverse(results) ELSE results
           m == Len(past)
<1>1. past \in Seq(Nat) /\ page[g].next \in ShownDays /\ Orderly(page[g])
  BY DEF WatchTypeOK, Shown, PagesInOrder
<1>2. m \in Nat /\ DOMAIN past = 1 .. m /\ \A i \in 1 .. m : past[i] \in Nat
  <2> HIDE DEF past
  <2> QED BY <1>1
<1>3. \A i \in 1 .. m : Entry(g, past[i], site.full) \in E
  BY <1>2, EntryIsTyped
<1> HIDE DEF E
<1>4. /\ results \in Seq(E) /\ Len(results) = m /\ DOMAIN results = 1 .. m
      /\ \A i \in 1 .. m : results[i] = Entry(g, past[i], site.full)
  <2>1. results = [i \in 1 .. m |-> Entry(g, past[i], site.full)]
    BY <1>2
  <2> HIDE DEF m, past
  <2> QED BY <1>2, <1>3, <2>1, IsASeq
<1>5. /\ notice \in Seq(E) /\ Len(notice) \in {0, 1}
      /\ Len(notice) = 0 <=> page[g].next = Nothing
      /\ \A i \in 1 .. Len(notice) : notice[i] = Entry(g, page[g].next, site.pending)
  <2>1. CASE page[g].next = Nothing
    <3>1. notice = <<>>
      BY <2>1
    <3> HIDE DEF notice
    <3> QED BY <2>1, <3>1
  <2>2. CASE page[g].next # Nothing
    <3> DEFINE x == Entry(g, page[g].next, site.pending)
    <3>1. x \in E
      <4>1. page[g].next \in Nat
        BY <1>1, <2>2 DEF ShownDays
      <4> QED BY <4>1, EntryIsTyped DEF E
    <3>2. notice = <<x>>
      BY <2>2
    <3> HIDE DEF notice, x
    <3>3. Len(notice) = 1 /\ notice[1] = x /\ notice \in Seq(E)
      BY <3>1, <3>2
    <3>4. 1 .. 1 = {1}
      OBVIOUS
    <3> QED BY <2>2, <3>3, <3>4 DEF x
  <2> QED BY <2>1, <2>2
<1> HIDE DEF results, notice, past
<1>6. /\ ordered \in Seq(E) /\ Len(ordered) = m
      /\ \A i \in 1 .. m : \E n \in 1 .. m : ordered[i] = results[n]
      /\ \A n \in 1 .. m : \E i \in 1 .. m : ordered[i] = results[n]
      /\ ~ site.oldest_first \/ m = 1 => \A i \in 1 .. m : ordered[i] = results[i]
  <2>1. CASE ~ site.oldest_first
    <3>1. ordered = results
      BY <2>1
    <3> QED BY <1>4, <3>1
  <2>2. CASE site.oldest_first
    <3> DEFINE back == [i \in 1 .. m |-> results[(m - i) + 1]]
    <3>1. ordered = back
      BY <1>4, <2>2 DEF Reverse
    <3>2. \A i \in 1 .. m : (m - i) + 1 \in 1 .. m /\ (m - ((m - i) + 1)) + 1 = i
      BY <1>2
    <3>3. \A i \in 1 .. m : results[(m - i) + 1] \in E
      BY <1>4, <3>2
    <3>4. back \in Seq(E) /\ Len(back) = m
      BY <1>2, <3>3, IsASeq
    <3>5. \A i \in 1 .. m : back[i] = results[(m - i) + 1]
      OBVIOUS
    <3> HIDE DEF back
    <3>6. \A n \in 1 .. m : back[(m - n) + 1] = results[n]
      BY <3>2, <3>5
    <3>7. m = 1 => \A i \in 1 .. m : (m - i) + 1 = i
      BY <1>2
    <3> QED BY <2>2, <3>1, <3>2, <3>4, <3>5, <3>6, <3>7
  <2> QED BY <2>1, <2>2
<1>7. Rows(g) = IF site.notice = "first" THEN notice \o ordered ELSE ordered \o notice
  BY DEF Rows, results, notice, past
<1> HIDE DEF ordered, m
<1>8. /\ Rows(g) \in Seq(E)
      /\ \A r \in DOMAIN Rows(g) : (\E i \in 1 .. m : Rows(g)[r] = ordered[i])
                                   \/ (\E i \in 1 .. Len(notice) : Rows(g)[r] = notice[i])
      /\ \A i \in 1 .. m : \E r \in DOMAIN Rows(g) : Rows(g)[r] = ordered[i]
      /\ Len(notice) = 0 => DOMAIN Rows(g) = 1 .. m /\ \A i \in 1 .. m : Rows(g)[i] = ordered[i]
  <2> DEFINE k == Len(notice)
             a == notice \o ordered
             b == ordered \o notice
  <2>1. k \in Nat /\ m \in Nat
    BY <1>2, <1>5
  <2>0. notice \in Seq(E) /\ ordered \in Seq(E) /\ Len(ordered) = m
    BY <1>5, <1>6
  <2>2. /\ a \in Seq(E) /\ Len(a) = k + m
        /\ \A r \in 1 .. k + m : a[r] = IF r <= k THEN notice[r] ELSE ordered[r - k]
    BY <2>0, ConcatProperties
  <2>3. /\ b \in Seq(E) /\ Len(b) = m + k
        /\ \A r \in 1 .. m + k : b[r] = IF r <= m THEN ordered[r] ELSE notice[r - m]
    BY <2>0, ConcatProperties
  <2>4. CASE site.notice = "first"
    <3>1. Rows(g) = a
      BY <1>7, <2>4
    <3> HIDE DEF a, b, k
    <3>2. DOMAIN a = 1 .. k + m
      BY <2>1, <2>2
    <3>3. \A r \in 1 .. k + m : IF r <= k THEN r \in 1 .. k ELSE r - k \in 1 .. m
      BY <2>1
    <3>4. \A i \in 1 .. m : i + k \in 1 .. k + m /\ ~ (i + k <= k) /\ i + k - k = i
      BY <2>1
    <3>5. ASSUME NEW i \in 1 .. m PROVE a[i + k] = ordered[i]
      <4> DEFINE r == i + k
      <4>1. r \in 1 .. k + m /\ ~ (r <= k) /\ r - k = i
        BY <2>1
      <4> HIDE DEF r
      <4> QED BY <2>2, <4>1 DEF r
    <3>6. k = 0 => k + m = m /\ \A i \in 1 .. m : i + k = i
      BY <2>1
    <3>7. \A r \in DOMAIN a : (\E i \in 1 .. m : a[r] = ordered[i]) \/ (\E i \in 1 .. k : a[r] = notice[i])
      BY <2>2, <3>2, <3>3
    <3>8. k = 0 => DOMAIN a = 1 .. m /\ \A i \in 1 .. m : a[i] = ordered[i]
      BY <3>2, <3>5, <3>6
    <3> QED BY <2>2, <3>1, <3>2, <3>4, <3>5, <3>7, <3>8 DEF k
  <2>5. CASE site.notice # "first"
    <3>1. Rows(g) = b
      BY <1>7, <2>5
    <3> HIDE DEF a, b, k
    <3>2. DOMAIN b = 1 .. m + k
      BY <2>1, <2>3
    <3>3. \A r \in 1 .. m + k : IF r <= m THEN r \in 1 .. m ELSE r - m \in 1 .. k
      BY <2>1
    <3>4. \A i \in 1 .. m : i \in 1 .. m + k /\ i <= m
      BY <2>1
    <3>5. \A i \in 1 .. m : b[i] = ordered[i]
      BY <2>3, <3>4
    <3>6. k = 0 => m + k = m
      BY <2>1
    <3>7. \A r \in DOMAIN b : (\E i \in 1 .. m : b[r] = ordered[i]) \/ (\E i \in 1 .. k : b[r] = notice[i])
      BY <2>3, <3>2, <3>3
    <3>8. k = 0 => DOMAIN b = 1 .. m /\ \A i \in 1 .. m : b[i] = ordered[i]
      BY <3>2, <3>5, <3>6
    <3> QED BY <2>3, <3>1, <3>2, <3>4, <3>5, <3>7, <3>8 DEF k
  <2> QED BY <2>4, <2>5
<1>9. ASSUME NEW r \in DOMAIN Rows(g) PROVE IsRow(Rows(g)[r], g)
  <2>1. CASE \E i \in 1 .. m : Rows(g)[r] = ordered[i]
    <3>1. \E n \in 1 .. m : Rows(g)[r] = results[n]
      BY <1>6, <2>1
    <3>2. \E n \in 1 .. m : Rows(g)[r] = Entry(g, past[n], site.full)
      BY <1>4, <3>1
    <3> QED BY <1>2, <3>2 DEF IsRow, past
  <2>2. CASE \E i \in 1 .. Len(notice) : Rows(g)[r] = notice[i]
    <3>1. Rows(g)[r] = Entry(g, page[g].next, site.pending) /\ Len(notice) # 0
      BY <1>5, <2>2
    <3> QED BY <1>5, <3>1 DEF IsRow
  <2> QED BY <1>8, <2>1, <2>2
<1>10. ASSUME NEW n \in DOMAIN past
       PROVE  \E r \in DOMAIN Rows(g) : Rows(g)[r] = Entry(g, past[n], site.full)
  BY <1>2, <1>4, <1>6, <1>8
<1>11. ASSUME NewestFirst(site), past # <<>>, page[g].next = Nothing
       PROVE  1 \in DOMAIN Rows(g) /\ Rows(g)[1] = Entry(g, past[1], site.full)
  <2>1. m # 0
    BY <1>1, <1>11, EmptySeq DEF m, past
  <2>2. ~ site.oldest_first \/ m = 1
    <3>1. m <= site.keep
      BY <1>1 DEF Orderly, past, m
    <3>2. site.keep = 1 => m = 1
      BY <1>2, <2>1, <3>1
    <3> QED BY <1>11, <3>2 DEF NewestFirst
  <2>3. 1 \in 1 .. m
    BY <1>2, <2>1
  <2> QED BY <1>4, <1>5, <1>6, <1>8, <1>11, <2>2, <2>3
<1>12. ASSUME OneResult(site) PROVE DOMAIN Rows(g) \subseteq {1}
  <2>1. m <= 1 /\ Len(notice) = 0
    BY <1>1, <1>5, <1>12 DEF Orderly, OneResult, m, past
  <2>2. 1 .. m \subseteq {1}
    BY <1>2, <2>1
  <2> QED BY <1>8, <2>1, <2>2
<1> QED BY <1>8, <1>9, <1>10, <1>11, <1>12 DEF E, past

-----------------------------------------------------------------------------
\* The page as a sequence of entries, and its text.
LEMMA EntriesOfPage ==
  ASSUME WatchTypeOK, PagesInOrder, Watched
  PROVE  /\ Entries \in Seq(EntryType)
         /\ \A e \in DOMAIN Entries : \E g \in DOMAIN Games : IsRow(Entries[e], g)
         /\ \A g \in DOMAIN Games : \A n \in DOMAIN page[g].past : \E e \in DOMAIN Entries :
              Entries[e] = Entry(g, page[g].past[n], site.full)
         /\ NewestFirst(site) /\ Settled =>
              \A e \in DOMAIN Entries : \E g \in DOMAIN Games, f \in DOMAIN Entries :
                /\ f <= e /\ IsRow(Entries[e], g) /\ page[g].past # <<>>
                /\ Entries[f] = Entry(g, page[g].past[1], site.full)
         /\ OneResult(site) /\ Len(Games) = 1 => \A e, f \in DOMAIN Entries : e = f
<1> DEFINE E == EntryType
<1>0. DOMAIN Games = 1 .. Len(Games) /\ Len(Games) \in Nat
  <2> DEFINE T == STRING
  <2>1. Games \in Seq(T)
    BY SiteOfCode DEF Games
  <2> HIDE DEF T
  <2> QED BY <2>1
<1>1. /\ Tables \in Seq(Seq(E)) /\ DOMAIN Tables = DOMAIN Games
      /\ \A g \in DOMAIN Games : Tables[g] = Rows(g) /\ Rows(g) \in Seq(E)
  <2>1. \A g \in 1 .. Len(Games) : Rows(g) \in Seq(E)
    BY <1>0, RowsOfGame
  <2> HIDE DEF E
  <2>2. Tables = [g \in 1 .. Len(Games) |-> Rows(g)]
    BY <1>0 DEF Tables
  <2>3. Tables \in Seq(Seq(E))
    BY <1>0, <2>1, <2>2, IsASeq
  <2> QED BY <1>0, <2>1, <2>2, <2>3
<1>2. PICK off : Sections(Entries, Tables, off)
  <2> HIDE DEF E
  <2> QED BY <1>1, Flattened DEF Entries
<1>3. Entries \in Seq(E)
  <2> HIDE DEF E
  <2> QED BY <1>1, Flattened DEF Entries
<1>4. /\ \A g \in DOMAIN Games : \A r \in DOMAIN Rows(g) :
           off[g] + r \in DOMAIN Entries /\ Entries[off[g] + r] = Rows(g)[r]
      /\ \A e \in DOMAIN Entries : \E g \in DOMAIN Games : \E r \in DOMAIN Rows(g) : e = off[g] + r
  <2>1. /\ \A g \in DOMAIN Tables : \A r \in DOMAIN Tables[g] :
             off[g] + r \in DOMAIN Entries /\ Entries[off[g] + r] = Tables[g][r]
        /\ \A e \in DOMAIN Entries : \E g \in DOMAIN Tables : \E r \in DOMAIN Tables[g] : e = off[g] + r
    BY <1>2 DEF Sections
  <2>2. DOMAIN Tables = DOMAIN Games /\ \A g \in DOMAIN Games : Tables[g] = Rows(g)
    BY <1>1
  <2>3. ASSUME NEW g \in DOMAIN Games, NEW r \in DOMAIN Rows(g)
        PROVE  off[g] + r \in DOMAIN Entries /\ Entries[off[g] + r] = Rows(g)[r]
    <3>1. g \in DOMAIN Tables /\ r \in DOMAIN Tables[g] /\ Tables[g] = Rows(g)
      BY <2>2
    <3> QED BY <2>1, <3>1
  <2>4. ASSUME NEW e \in DOMAIN Entries
        PROVE  \E g \in DOMAIN Games : \E r \in DOMAIN Rows(g) : e = off[g] + r
    BY <2>1, <2>2
  <2> QED BY <2>3, <2>4
<1>5. ASSUME NEW e \in DOMAIN Entries PROVE \E g \in DOMAIN Games : IsRow(Entries[e], g)
  <2>1. PICK g \in DOMAIN Games : \E r \in DOMAIN Rows(g) : e = off[g] + r
    BY <1>4
  <2>2. PICK r \in DOMAIN Rows(g) : e = off[g] + r
    BY <2>1
  <2>3. Entries[e] = Rows(g)[r]
    BY <1>4, <2>2
  <2> QED BY <2>3, RowsOfGame
<1>6. ASSUME NEW g \in DOMAIN Games, NEW n \in DOMAIN page[g].past
      PROVE  \E e \in DOMAIN Entries : Entries[e] = Entry(g, page[g].past[n], site.full)
  <2>1. PICK r \in DOMAIN Rows(g) : Rows(g)[r] = Entry(g, page[g].past[n], site.full)
    BY RowsOfGame
  <2> QED BY <1>4, <2>1
<1>7. ASSUME NewestFirst(site), Settled, NEW e \in DOMAIN Entries
      PROVE  \E g \in DOMAIN Games, f \in DOMAIN Entries :
               /\ f <= e /\ IsRow(Entries[e], g) /\ page[g].past # <<>>
               /\ Entries[f] = Entry(g, page[g].past[1], site.full)
  <2>1. PICK g \in DOMAIN Games : \E r \in DOMAIN Rows(g) : e = off[g] + r
    BY <1>4
  <2>2. PICK r \in DOMAIN Rows(g) : e = off[g] + r
    BY <2>1
  <2>3. g \in DOMAIN page /\ page[g].past # <<>> /\ page[g].next = Nothing
    BY <1>7 DEF Settled, WatchTypeOK
  <2>4. 1 \in DOMAIN Rows(g) /\ Rows(g)[1] = Entry(g, page[g].past[1], site.full)
    BY <1>7, <2>3, RowsOfGame
  <2>5. off[g] \in Nat /\ r \in Nat \ {0}
    <3>1. Rows(g) \in Seq(E)
      BY <1>1
    <3> HIDE DEF E
    <3>2. r \in Nat \ {0}
      BY <3>1
    <3>3. g \in 1 .. Len(Tables) + 1 /\ off \in [1 .. Len(Tables) + 1 -> Nat]
      BY <1>0, <1>1, <1>2 DEF Sections
    <3> QED BY <3>2, <3>3
  <2>6. off[g] + 1 <= e
    BY <2>2, <2>5
  <2>7. Entries[e] = Rows(g)[r] /\ IsRow(Rows(g)[r], g)
    BY <1>4, <2>2, RowsOfGame
  <2>8. off[g] + 1 \in DOMAIN Entries /\ Entries[off[g] + 1] = Rows(g)[1]
    BY <1>4, <2>4
  <2> QED BY <2>3, <2>4, <2>6, <2>7, <2>8
<1>8. ASSUME OneResult(site), Len(Games) = 1, NEW e \in DOMAIN Entries PROVE e = off[1] + 1
  <2>1. PICK g \in DOMAIN Games : \E r \in DOMAIN Rows(g) : e = off[g] + r
    BY <1>4
  <2>2. PICK r \in DOMAIN Rows(g) : e = off[g] + r
    BY <2>1
  <2>3. g = 1
    BY <1>0, <1>8
  <2>4. r = 1
    BY <1>8, RowsOfGame
  <2> QED BY <2>2, <2>3, <2>4
<1>9. OneResult(site) /\ Len(Games) = 1 => \A e, f \in DOMAIN Entries : e = f
  BY <1>8
<1> QED BY <1>3, <1>5, <1>6, <1>7, <1>9

LEMMA BodyIsLaid ==
  ASSUME WatchTypeOK, PagesInOrder, Watched
  PROVE  \E off : Laid(Body, Entries, off)
<1> DEFINE seqs == [e \in DOMAIN Entries |-> Texts(Entries[e])]
           T == Text
           E == EntryType
<1>1. Entries \in Seq(E)
  BY EntriesOfPage
<1>2. \A entry \in E : Texts(entry) \in Seq(T)
  BY TextsOfEntry
<1>3. seqs \in Seq(Seq(T))
  <2> HIDE DEF E, T
  <2>1. DOMAIN Entries = 1 .. Len(Entries) /\ Len(Entries) \in Nat
    BY <1>1
  <2>2. \A e \in 1 .. Len(Entries) : Texts(Entries[e]) \in Seq(T)
    BY <1>1, <1>2, <2>1
  <2> QED BY <2>1, <2>2, IsASeq
<1>4. Body = FlattenSeq(seqs)
  BY DEF Body, Entries
<1> HIDE DEF seqs, T, E
<1>5. Body \in Seq(T) /\ \E off : Sections(Body, seqs, off)
  BY <1>3, <1>4, Flattened
<1> QED BY <1>1, <1>5 DEF Laid, seqs, T, E

\* The states that the arguments about the readings are about.
Watching == WatchTypeOK /\ PagesInOrder /\ Watched

\* What is claimed of a record that is read.
Sound(record) ==
  /\ record.via \notin Near /\ (ReaderOf(code) \in Bounded \/ Settled) => OneDraw(record)
  /\ record.via = "labelled" =>
       /\ record.date = record.result.day
       /\ record.series \in {Nothing, record.result}
  /\ record.via # "unlabelled" /\ ReaderOf(code) \notin Lists /\ (record.via \in Near \/ Settled) =>
       \E g \in DOMAIN page : Games[g] = record.game /\ record.result = DrawAt(g, page[g].past[1])
  /\ record.via = "composite" => record.number.day <= record.result.day

LEMMA SiteFacts ==
  ASSUME Watching
  PROVE  /\ site \in Site /\ LaidOut(code) /\ ReaderOf(code) \in Readers
         /\ Games = site.games /\ DOMAIN Games = 1 .. Len(Games) /\ Len(Games) \in Nat /\ 1 \in DOMAIN Games
         /\ DayOf(now) \in Nat /\ DOMAIN page = DOMAIN Games
         /\ Running(site.full) /\ Running(site.pending)
<1>1. site \in Site /\ LaidOut(code) /\ ReaderOf(code) \in Readers
  BY SiteAssumption, LayoutAssumption DEF Watching, Watched, site
<1>2. Games = site.games /\ site.games \in Seq(STRING) \ {<<>>}
  BY SiteOfCode DEF Watching, Games
<1>3. DOMAIN Games = 1 .. Len(Games) /\ Len(Games) \in Nat /\ 1 \in DOMAIN Games
  <2> DEFINE T == STRING
  <2>1. Games \in Seq(T) /\ Games # <<>>
    BY <1>2
  <2> HIDE DEF T
  <2>2. DOMAIN Games = 1 .. Len(Games) /\ Len(Games) \in Nat
    BY <2>1
  <2>3. Len(Games) # 0
    BY <2>1, EmptySeq
  <2> QED BY <2>2, <2>3
<1>4. DayOf(now) \in Nat /\ DOMAIN page = DOMAIN Games
  BY DaysAreNaturals DEF Watching, WatchTypeOK
<1>5. Running(site.full) /\ Running(site.pending)
  BY <1>1, TemplatesAreLabelled DEF Site, Labelling
<1> QED BY <1>1, <1>2, <1>3, <1>4, <1>5

LEMMA PastFacts ==
  ASSUME Watching, NEW g \in DOMAIN Games, NEW n \in DOMAIN page[g].past
  PROVE  /\ page[g].past[n] \in Nat /\ page[g].past[n] <= DayOf(now)
         /\ page[g].past # <<>> /\ 1 \in DOMAIN page[g].past
         /\ page[g].past[1] \in Nat /\ page[g].past[n] <= page[g].past[1]
<1> DEFINE past == page[g].past
<1>1. past \in Seq(Nat) /\ Orderly(page[g])
  BY DEF Watching, WatchTypeOK, Shown, PagesInOrder
<1>2. past[n] <= DayOf(now) /\ \A i, j \in DOMAIN past : i < j => past[j] < past[i]
  BY <1>1 DEF Orderly
<1> HIDE DEF past
<1>3. n \in Nat \ {0} /\ past[n] \in Nat /\ past # <<>> /\ 1 \in DOMAIN past /\ past[1] \in Nat
  <2>1. n \in DOMAIN past
    BY DEF past
  <2>2. DOMAIN past = 1 .. Len(past) /\ Len(past) \in Nat
    BY <1>1
  <2>3. past # <<>>
    BY <1>1, <2>1, EmptySeq
  <2> QED BY <1>1, <2>1, <2>2, <2>3
<1>4. past[n] <= past[1]
  <2>1. CASE n = 1
    BY <1>3, <2>1
  <2>2. CASE n # 1
    <3>1. 1 < n /\ n \in DOMAIN past
      BY <1>3, <2>2 DEF past
    <3>2. past[n] < past[1]
      BY <1>2, <1>3, <3>1
    <3> QED BY <1>3, <3>2
  <2> QED BY <2>1, <2>2
<1> QED BY <1>2, <1>3, <1>4 DEF past

LEMMA EntryFacts ==
  ASSUME Watching, NEW e \in DOMAIN Entries
  PROVE  \E g \in DOMAIN Games :
           /\ Entries[e].of = DrawAt(g, Entries[e].of.day) /\ Entries[e].of.game = Games[g]
           /\ \/ /\ Entries[e].shows = site.full
                 /\ \E n \in DOMAIN page[g].past : Entries[e].of.day = page[g].past[n]
              \/ Entries[e].shows = site.pending /\ page[g].next # Nothing
<1>1. PICK g \in DOMAIN Games : IsRow(Entries[e], g)
  BY EntriesOfPage DEF Watching
<1>2. \A day, shows : /\ Entry(g, day, shows).of = DrawAt(g, day) /\ Entry(g, day, shows).of.day = day
                      /\ Entry(g, day, shows).of.game = Games[g] /\ Entry(g, day, shows).shows = shows
  BY DEF Entry, DrawAt
<1> QED BY <1>1, <1>2 DEF IsRow

\* While the page is settled, its entries are results.
LEMMA SettledEntries ==
  ASSUME Watching, Settled, NEW e \in DOMAIN Entries
  PROVE  Entries[e].shows = site.full
<1>1. PICK g \in DOMAIN Games :
        Entries[e].shows = site.full \/ (Entries[e].shows = site.pending /\ page[g].next # Nothing)
  BY EntryFacts
<1>2. page[g].next = Nothing
  BY SiteFacts DEF Settled
<1> QED BY <1>1, <1>2

\* A page of one lottery: its results are those of its first draw type.
LEMMA OfOneLottery ==
  ASSUME Watching, Len(site.games) = 1
  PROVE  /\ DOMAIN Games = {1}
         /\ \A e \in DOMAIN Entries :
              /\ Entries[e].of = DrawAt(1, Entries[e].of.day) /\ Entries[e].of.game = Games[1]
              /\ \/ /\ Entries[e].shows = site.full
                    /\ \E n \in DOMAIN page[1].past : Entries[e].of.day = page[1].past[n]
                 \/ Entries[e].shows = site.pending /\ page[1].next # Nothing
<1>1. DOMAIN Games = 1 .. Len(Games) /\ Len(Games) = 1
  BY SiteFacts
<1>2. DOMAIN Games = {1}
  <2>1. 1 .. 1 = {1}
    OBVIOUS
  <2> QED BY <1>1, <2>1
<1>3. ASSUME NEW e \in DOMAIN Entries
      PROVE  /\ Entries[e].of = DrawAt(1, Entries[e].of.day) /\ Entries[e].of.game = Games[1]
             /\ \/ /\ Entries[e].shows = site.full
                   /\ \E n \in DOMAIN page[1].past : Entries[e].of.day = page[1].past[n]
                \/ Entries[e].shows = site.pending /\ page[1].next # Nothing
  <2>1. PICK g \in DOMAIN Games :
          /\ Entries[e].of = DrawAt(g, Entries[e].of.day) /\ Entries[e].of.game = Games[g]
          /\ \/ /\ Entries[e].shows = site.full
                /\ \E n \in DOMAIN page[g].past : Entries[e].of.day = page[g].past[n]
             \/ Entries[e].shows = site.pending /\ page[g].next # Nothing
    BY EntryFacts
  <2>2. g = 1
    BY <1>2
  <2> QED BY <2>1, <2>2
<1> QED BY <1>2, <1>3

\* A page of one result: it has no other draw.
LEMMA OfOneResult ==
  ASSUME Watching, Len(site.games) = 1, OneResult(site), NEW e \in DOMAIN Entries
  PROVE  /\ page[1].past # <<>> /\ page[1].past[1] \in Nat
         /\ Entries[e].of = DrawAt(1, page[1].past[1]) /\ Entries[e].shows = site.full
<1>1. DOMAIN Games = {1} /\ Orderly(page[1])
  BY OfOneLottery DEF Watching, WatchTypeOK, PagesInOrder
<1>2. page[1].next = Nothing /\ Len(page[1].past) <= 1
  BY <1>1 DEF Orderly, OneResult
<1>3. PICK n \in DOMAIN page[1].past :
        Entries[e].of = DrawAt(1, page[1].past[n]) /\ Entries[e].shows = site.full
  BY <1>1, <1>2, OfOneLottery
<1>4. n = 1
  <2> DEFINE past == page[1].past
  <2>1. past \in Seq(Nat) /\ Len(past) <= 1 /\ n \in DOMAIN past
    BY <1>1, <1>2 DEF Watching, WatchTypeOK, Shown
  <2> HIDE DEF past
  <2> QED BY <2>1
<1> QED BY <1>1, <1>3, <1>4, PastFacts

-----------------------------------------------------------------------------
(* TraditionalLotteryHtmlParser                                            *)

LEMMA PageIsKept ==
  ASSUME Watching, ReaderOf(code) = "result_page", NEW off, Laid(Body, Entries, off)
  PROVE  Kept(Body, Entries, off, site, DayOf(now))
<1>1. /\ Len(site.games) = 1 /\ Where(site.pending, DOMAIN Weight) = {} /\ KeepsNear(site, "fecha")
      /\ KeepsNear(site, "serie") \/ Where(site.full, {"serie"}) \cup Where(site.pending, {"serie"}) = {}
  <2>1. LaidOut(code) /\ site = Sites[code]
    BY SiteFacts DEF site
  <2> QED BY <2>1 DEF LaidOut
<1>2. Entered(site, Entries)
  <2>1. \A e \in DOMAIN Entries : Entries[e].shows \in {site.full, site.pending}
    BY <1>1, OfOneLottery
  <2>2. OneResult(site) => \A e, f \in DOMAIN Entries : Entries[e].of = Entries[f].of
    BY <1>1, OfOneResult
  <2> QED BY <2>1, <2>2 DEF Entered
<1>3. ASSUME NEW e \in DOMAIN Entries, Where(Entries[e].shows, DOMAIN Weight) # {}
      PROVE  Entries[e].of.day <= DayOf(now)
  <2>1. Entries[e].shows # site.pending
    BY <1>1, <1>3
  <2>2. PICK n \in DOMAIN page[1].past : Entries[e].of.day = page[1].past[n]
    BY <1>1, <2>1, OfOneLottery
  <2> QED BY <1>1, <2>2, OfOneLottery, PastFacts
<1> QED BY <1>1, <1>2, <1>3, SiteFacts DEF Kept

\* What the general parser reads is of the newest result, with its date and series.
LEMMA HtmlIsNewest ==
  ASSUME Watching, ReaderOf(code) = "result_page",
         NEW source, NEW record \in Html(Body, source, Games[1], DayOf(now))
  PROVE  \/ record.via = "unlabelled" /\ Where(Body, DOMAIN Weight) = {}
         \/ /\ record.via = "labelled" /\ record.game = Games[1]
            /\ record.date = record.result.day /\ record.series \in {Nothing, record.result}
            /\ record.result = DrawAt(1, page[1].past[1])
<1>1. PICK off : Laid(Body, Entries, off)
  BY BodyIsLaid DEF Watching
<1>2. Kept(Body, Entries, off, site, DayOf(now)) /\ Len(site.games) = 1 /\ Where(site.pending, DOMAIN Weight) = {}
  <2>1. LaidOut(code) /\ site = Sites[code]
    BY SiteFacts DEF site
  <2> QED BY <1>1, <2>1, PageIsKept DEF LaidOut
<1>3. ASSUME NEW i \in Where(Body, DOMAIN Weight),
             \A j \in Where(Body, DOMAIN Weight) : Body[j].of.day <= Body[i].of.day
      PROVE  Body[i].of = DrawAt(1, page[1].past[1])
  <2>1. PICK e \in DOMAIN Entries : \E k \in DOMAIN Entries[e].shows : i = off[e] + k
    BY <1>1, LaidFacts DEF Where
  <2>2. PICK k \in DOMAIN Entries[e].shows : i = off[e] + k
    BY <2>1
  <2>3. Body[i].label = Entries[e].shows[k].label /\ Body[i].of = Entries[e].of
    BY <1>1, <2>2, LaidFacts
  <2>4. k \in Where(Entries[e].shows, DOMAIN Weight)
    BY <2>3 DEF Where
  <2>5. Entries[e].shows = site.full
    BY <1>2, <2>4, OfOneLottery
  <2>6. Entries[e].shows # site.pending
    BY <1>2, <2>4
  <2>7. PICK n \in DOMAIN page[1].past : Body[i].of = DrawAt(1, page[1].past[n])
    BY <1>2, <2>3, <2>6, OfOneLottery
  <2> DEFINE first == page[1].past[1]
             day == page[1].past[n]
  <2>8. 1 \in DOMAIN Games /\ 1 \in DOMAIN page[1].past /\ day \in Nat /\ first \in Nat /\ day <= first
    BY <1>2, OfOneLottery, PastFacts
  <2>9. PICK f \in DOMAIN Entries : Entries[f] = Entry(1, first, site.full)
    BY <2>8, EntriesOfPage DEF Watching
  <2>10. Entries[f].shows = site.full /\ Entries[f].of = DrawAt(1, first)
    BY <2>9 DEF Entry
  <2>11. off[f] + k \in Where(Body, DOMAIN Weight) /\ Body[off[f] + k].of = DrawAt(1, first)
    <3>1. k \in DOMAIN Entries[f].shows
      BY <2>2, <2>5, <2>10
    <3>2. /\ off[f] + k \in DOMAIN Body /\ Body[off[f] + k].of = Entries[f].of
          /\ Body[off[f] + k].label = Entries[f].shows[k].label
      <4>1. \A j \in DOMAIN Entries[f].shows :
              /\ off[f] + j \in DOMAIN Body /\ Body[off[f] + j].of = Entries[f].of
              /\ Body[off[f] + j].label = Entries[f].shows[j].label
        BY <1>1, LaidFacts
      <4> QED BY <3>1, <4>1
    <3>3. Body[off[f] + k].label \in DOMAIN Weight
      BY <2>4, <2>5, <2>10, <3>2 DEF Where
    <3> QED BY <2>10, <3>2, <3>3 DEF Where
  <2>12. DrawAt(1, first).day <= DrawAt(1, day).day
    BY <1>3, <2>7, <2>11
  <2>13. first <= day
    BY <2>12 DEF DrawAt
  <2> HIDE DEF first, day
  <2>14. first = day
    BY <2>8, <2>13
  <2> QED BY <2>7, <2>14 DEF first, day
<1>4. \/ record.via = "unlabelled" /\ Where(Body, DOMAIN Weight) = {}
      \/ /\ record.via = "labelled"
         /\ \E i \in Where(Body, DOMAIN Weight) :
              /\ record.result = Body[i].of /\ record.date = Body[i].of.day /\ record.game = Games[1]
              /\ record.series \in {Nothing, Body[i].of}
              /\ \A j \in Where(Body, DOMAIN Weight) : Body[j].of.day <= Body[i].of.day
  BY <1>2, HtmlReads
<1> QED BY <1>3, <1>4

LEMMA HtmlIsSound ==
  ASSUME Watching, ReaderOf(code) = "result_page",
         NEW source, NEW record \in Html(Body, source, Games[1], DayOf(now))
  PROVE  Sound(record)
<1>1. 1 \in DOMAIN page
  BY SiteFacts
<1>2. record.via \in Near /\ record.via # "composite"
  BY HtmlIsNewest DEF Near
<1> QED BY <1>1, <1>2, HtmlIsNewest DEF Sound

-----------------------------------------------------------------------------
(* Patterns in a document of entries                                       *)

\* A pattern that is looked for again from its first part is found where it was.
LEMMA FollowAgain ==
  ASSUME NEW doc, Running(doc), NEW i \in Nat \ {0}, NEW parts, Len(parts) \in Nat \ {0},
         Follow(doc, i, parts)[1] <= Len(doc)
  PROVE  LET at == Follow(doc, i, parts)
         IN  /\ at[1] \in Where(doc, parts[1]) /\ at[1] \in Nat \ {0} /\ i <= at[1]
             /\ \A n \in 1 .. Len(parts) : Follow(doc, at[1], parts)[n] = at[n]
<1> DEFINE m == Len(parts)
           at == Follow(doc, i, parts)
           again == Follow(doc, at[1], parts)
           S == {n \in Nat : n + 1 <= m => again[n + 1] = at[n + 1]}
<1>1. m \in Nat \ {0} /\ 1 \in 1 .. m
  OBVIOUS
<1>2. /\ \A n \in 1 .. m : at[n] = NextAt(doc, parts[n], Before(at, i, n))
      /\ at[1] \in Nat /\ at[1] \in Where(doc, parts[1]) /\ at[1] > i - 1
  <2> HIDE DEF at
  <2>1. Before(at, i, 1) = i - 1
    BY DEF Before
  <2> USE DEF at
  <2>2. \A n \in 1 .. m : at[n] = NextAt(doc, parts[n], Before(at, i, n))
    BY FollowEquation
  <2>3. at[1] \in Nat /\ (at[1] <= Len(doc) => at[1] \in Where(doc, parts[1]) /\ at[1] > Before(at, i, 1))
    BY <1>1, FollowFacts
  <2> QED BY <2>1, <2>2, <2>3
<1>3. at[1] \in Nat \ {0} /\ i <= at[1]
  BY <1>2
<1>4. \A n \in 1 .. m : again[n] = NextAt(doc, parts[n], Before(again, at[1], n))
  BY <1>3, FollowEquation
<1> HIDE DEF at, again
<1>5. again[1] = at[1]
  <2>1. again[1] = NextAt(doc, parts[1], at[1] - 1)
    BY <1>1, <1>4 DEF Before
  <2> DEFINE b == NextAt(doc, parts[1], at[1] - 1)
  <2>2. at[1] - 1 \in Nat /\ at[1] > at[1] - 1
    BY <1>3
  <2>3. b \in Nat /\ (b <= Len(doc) => b > at[1] - 1) /\ b <= at[1] /\ b <= Len(doc)
    BY <1>2, <2>2, NextIsFirst
  <2> HIDE DEF b
  <2>4. b = at[1]
    BY <1>3, <2>3
  <2> QED BY <2>1, <2>4 DEF b
<1> HIDE DEF m
<1>6. S = Nat
  <2>1. 0 \in S
    BY <1>5
  <2>2. ASSUME NEW n \in S PROVE n + 1 \in S
    <3>1. ASSUME n + 1 + 1 <= m PROVE again[n + 1 + 1] = at[n + 1 + 1]
      <4>1. n + 1 \in 1 .. m /\ n + 1 + 1 \in 1 .. m /\ n + 1 + 1 # 1 /\ n + 1 + 1 - 1 = n + 1
        BY <1>1, <3>1
      <4>2. again[n + 1] = at[n + 1]
        BY <4>1
      <4> DEFINE q == n + 1 + 1
      <4>3. q \in 1 .. m /\ q # 1 /\ q - 1 = n + 1
        BY <4>1
      <4> HIDE DEF q
      <4>4. again[q] = NextAt(doc, parts[q], again[n + 1]) /\ at[q] = NextAt(doc, parts[q], at[n + 1])
        BY <1>2, <1>4, <4>3 DEF Before
      <4> QED BY <4>2, <4>4 DEF q
    <3>2. n + 1 \in Nat
      OBVIOUS
    <3> QED BY <3>1, <3>2
  <2> HIDE DEF S
  <2>3. S \in SUBSET Nat
    BY DEF S
  <2> QED BY <2>1, <2>2, <2>3, Counting
<1>7. ASSUME NEW n \in 1 .. m PROVE again[n] = at[n]
  <2> DEFINE k == n - 1
  <2>1. k \in Nat /\ k + 1 = n /\ n <= m
    BY <1>1
  <2> HIDE DEF k
  <2>2. k \in S
    BY <1>6, <2>1
  <2> QED BY <2>1, <2>2
<1> QED BY <1>2, <1>3, <1>7 DEF m, at, again

\* The texts that a pattern takes stand in one entry.
WithinEntry(doc, es, off, e, parts, at) ==
  \A n \in 1 .. Len(parts) :
    /\ at[n] \in DOMAIN doc /\ doc[at[n]].of = es[e].of /\ doc[at[n]].label \in parts[n]
    /\ at[n] \in Nat /\ off[e] < at[n] /\ at[n] <= off[e + 1]

LEMMA LineInEntry ==
  ASSUME NEW doc, NEW es, NEW off, Laid(doc, es, off), NEW e \in DOMAIN es, NEW p \in Nat \ {0},
         NEW parts, Len(parts) \in Nat, Fits(es[e].shows, Follow(es[e].shows, p, parts))
  PROVE  LET at == Follow(doc, off[e] + p, parts)
         IN  WithinEntry(doc, es, off, e, parts, at) /\ Fits(doc, at)
<1> DEFINE s == es[e].shows
           inner == Follow(s, p, parts)
           at == Follow(doc, off[e] + p, parts)
           m == Len(parts)
<1>1. /\ Running(doc) /\ Running(s) /\ Piece(doc, s, off[e]) /\ off[e] \in Nat
      /\ \A k \in DOMAIN s :
           /\ off[e] + k \in DOMAIN doc /\ off[e] < off[e] + k /\ off[e] + k <= off[e + 1]
           /\ doc[off[e] + k].label = s[k].label /\ doc[off[e] + k].of = es[e].of
  BY LaidFacts DEF Labelling
<1>2. \A n \in 1 .. m : inner[n] \in DOMAIN s /\ at[n] = off[e] + inner[n]
  BY <1>1, FollowInPiece
<1>3. off[e] + p \in Nat \ {0}
  BY <1>1
<1>4. /\ DOMAIN at = 1 .. m
      /\ \A n \in 1 .. m : at[n] \in Nat /\ (at[n] <= Len(doc) => at[n] \in Where(doc, parts[n]))
  BY <1>1, <1>3, FollowFacts
<1> HIDE DEF s, inner, at
<1>5. ASSUME NEW n \in 1 .. m
      PROVE  /\ at[n] \in DOMAIN doc /\ doc[at[n]].of = es[e].of /\ off[e] < at[n] /\ at[n] <= off[e + 1]
  BY <1>1, <1>2
<1>6. \A n \in 1 .. m : at[n] <= Len(doc)
  BY <1>1, <1>5 DEF Running
<1>7. \A n \in 1 .. m : doc[at[n]].label \in parts[n]
  BY <1>4, <1>6 DEF Where
<1> QED BY <1>4, <1>5, <1>6, <1>7 DEF WithinEntry, Fits, at

\* Each match of a pattern that every entry has from its first part on.
LEMMA MatchInEntry ==
  ASSUME NEW doc, NEW es, NEW off, Laid(doc, es, off), NEW parts, Len(parts) \in Nat \ {0},
         \A e \in DOMAIN es : Followed(es[e].shows, parts),
         NEW i \in Nat \ {0}, Follow(doc, i, parts)[1] <= Len(doc)
  PROVE  LET at == Follow(doc, i, parts)
         IN  Fits(doc, at) /\ \E e \in DOMAIN es : WithinEntry(doc, es, off, e, parts, at)
<1> DEFINE at == Follow(doc, i, parts)
           again == Follow(doc, at[1], parts)
           m == Len(parts)
<1>1. Running(doc) /\ m \in Nat \ {0}
  BY LaidFacts
<1>2. at[1] \in Where(doc, parts[1]) /\ at[1] \in Nat \ {0} /\ \A n \in 1 .. m : again[n] = at[n]
  BY <1>1, FollowAgain
<1>3. DOMAIN at = 1 .. m
  BY <1>1, FollowFacts
<1> HIDE DEF at
<1>4. PICK e \in DOMAIN es : \E p \in DOMAIN es[e].shows : at[1] = off[e] + p
  <2>1. at[1] \in DOMAIN doc
    BY <1>2 DEF Where
  <2> QED BY <2>1, Located
<1>5. PICK p \in DOMAIN es[e].shows : at[1] = off[e] + p
  BY <1>4
<1>6. /\ doc[at[1]].label = es[e].shows[p].label /\ Running(es[e].shows)
      /\ DOMAIN again = 1 .. m
  <2>1. doc[at[1]].label = es[e].shows[p].label /\ Labelling(es[e].shows)
    BY <1>5, LaidFacts
  <2>2. DOMAIN again = 1 .. m
    BY <1>1, <1>2, FollowFacts
  <2> QED BY <2>1, <2>2 DEF Labelling
<1>7. p \in Where(es[e].shows, parts[1]) /\ p \in Nat \ {0}
  BY <1>2, <1>6 DEF Where, Running
<1>8. Fits(es[e].shows, Follow(es[e].shows, p, parts))
  BY <1>7 DEF Followed
<1>9. WithinEntry(doc, es, off, e, parts, again) /\ Fits(doc, again)
  BY <1>1, <1>5, <1>7, <1>8, LineInEntry
<1> HIDE DEF again
<1>10. WithinEntry(doc, es, off, e, parts, at)
  BY <1>2, <1>9 DEF WithinEntry
<1>11. Fits(doc, at)
  BY <1>2, <1>3, <1>6, <1>9 DEF Fits
<1> QED BY <1>10, <1>11 DEF at

\* And no entry that has the pattern is passed over: what comes before ends
\* before it.
LEMMA EveryEntryMatches ==
  ASSUME NEW doc, NEW es, NEW off, Laid(doc, es, off), NEW parts, Len(parts) \in Nat \ {0},
         \A e \in DOMAIN es : Followed(es[e].shows, parts),
         NEW e \in DOMAIN es, Where(es[e].shows, parts[1]) # {}
  PROVE  \E at \in Matches(doc, parts) : WithinEntry(doc, es, off, e, parts, at)
<1> DEFINE L == Len(parts)
           start == off[e] + 1
           Right(a) == WithinEntry(doc, es, off, e, parts, a)
<1>1. PICK from : /\ Matches(doc, parts) = from[1]
                  /\ \A i \in 1 .. Len(doc) + 1 : from[i] = FoundFrom(doc, parts, from, i)
  BY MatchesEquation, LaidFacts
<1>2. PICK p \in Where(es[e].shows, parts[1]) : TRUE
  OBVIOUS
<1>3. /\ off[e] \in Nat /\ off[e] + p \in Where(doc, parts[1]) /\ off[e] + p <= off[e + 1]
      /\ off[e] < off[e] + p /\ off[e + 1] \in Nat /\ off[e + 1] <= Len(doc) /\ Len(doc) \in Nat /\ Running(doc)
  <2>1. p \in DOMAIN es[e].shows /\ es[e].shows[p].label \in parts[1]
    BY DEF Where
  <2>2. /\ off[e] \in Nat /\ off[e + 1] = off[e] + Len(es[e].shows) /\ off[e + 1] <= Len(doc)
        /\ Running(doc) /\ Running(es[e].shows)
    BY LaidFacts DEF Labelling
  <2>3. /\ off[e] + p \in DOMAIN doc /\ off[e] < off[e] + p /\ off[e] + p <= off[e + 1]
        /\ doc[off[e] + p].label = es[e].shows[p].label
    BY <2>1, LaidFacts
  <2> QED BY <2>1, <2>2, <2>3 DEF Where, Running
<1> DEFINE S == {d \in Nat : \A i \in 1 .. start : start - i <= d => \E a \in from[i] : Right(a)}
<1>4. ASSUME NEW i \in 1 .. start
      PROVE  \/ \E a \in from[i] : Right(a)
             \/ \E j \in 1 .. start : i < j /\ from[j] \subseteq from[i]
  <2> DEFINE at == Follow(doc, i, parts)
             hit == off[e] + p
  <2>1. hit \in Where(doc, parts[1]) /\ hit > i - 1 /\ i \in Nat \ {0} /\ hit \in Nat /\ hit <= off[e + 1]
    <3>1. hit \in Nat
      BY <1>3 DEF Where, Running
    <3> QED BY <1>3, <3>1
  <2> HIDE DEF hit
  <2>2. at[1] \in Nat /\ at[1] <= hit /\ at[1] <= Len(doc) /\ at[1] > i - 1 /\ 1 \in 1 .. L
    <3>1. 1 \in 1 .. L /\ Before(at, i, 1) = i - 1
      BY DEF Before
    <3>2. /\ at[1] \in Nat
          /\ at[1] <= Len(doc) => at[1] > Before(at, i, 1)
          /\ \A j \in Where(doc, parts[1]) : j > Before(at, i, 1) => at[1] <= j /\ at[1] <= Len(doc)
      BY <1>3, <2>1, <3>1, FollowFacts
    <3> HIDE DEF at
    <3> QED BY <2>1, <3>1, <3>2
  <2>3. PICK f \in DOMAIN es : WithinEntry(doc, es, off, f, parts, at)
    BY <2>1, <2>2, MatchInEntry
  <2>4. Fits(doc, at)
    BY <2>1, <2>2, MatchInEntry
  <2>5. i \in 1 .. Len(doc) + 1
    BY <1>3, <2>1
  <2>6. from[i] = {at} \cup from[at[L] + 1]
    BY <1>1, <2>4, <2>5 DEF FoundFrom
  <2>7. /\ L \in 1 .. L /\ at[L] \in Nat /\ at[1] <= at[L] /\ at[L] <= off[f + 1] /\ off[f] < at[1]
        /\ off[f] \in Nat /\ off[f + 1] \in Nat /\ f \in Nat /\ e \in Nat
    <3>1. L \in 1 .. L /\ Len(parts) \in Nat
      OBVIOUS
    <3>2. at[L] \in Nat /\ at[L] <= off[f + 1] /\ off[f] < at[1]
      BY <2>2, <2>3, <3>1 DEF WithinEntry
    <3>3. at[1] <= at[L]
      <4>1. \A n \in 1 .. L : \A k \in 1 .. n : at[k] <= at[n]
        BY <1>3, <2>1, <2>2, <2>4, <3>1, FitFacts
      <4>2. 1 \in 1 .. L
        BY <3>1
      <4> QED BY <3>1, <4>1, <4>2
    <3>4. off[f] \in Nat /\ off[f + 1] \in Nat /\ f \in Nat /\ e \in Nat
      BY PlaceOfEntry
    <3> QED BY <3>1, <3>2, <3>3, <3>4
  <2> HIDE DEF at
  <2>8. CASE f = e
    BY <2>3, <2>6, <2>8
  <2>9. CASE f < e
    <3>1. off[f + 1] <= off[e]
      BY <2>9, LaidFacts
    <3> DEFINE last == at[L]
               j == last + 1
    <3>2. last \in Nat /\ last <= off[e] /\ i <= last
      <4>1. last \in Nat /\ at[1] <= last /\ last <= off[f + 1] /\ off[f + 1] \in Nat /\ off[e] \in Nat
        BY <1>3, <2>7
      <4>2. i \in Nat /\ at[1] \in Nat /\ at[1] > i - 1
        BY <2>1, <2>2
      <4> HIDE DEF last
      <4> QED BY <3>1, <4>1, <4>2
    <3> HIDE DEF last
    <3>3. j \in 1 .. start /\ i < j
      BY <1>3, <2>1, <3>2
    <3> QED BY <2>6, <3>3 DEF last
  <2>10. CASE e < f
    <3>1. off[e + 1] <= off[f]
      BY <2>10, LaidFacts
    <3>2. at[1] <= off[e + 1] /\ off[f] < at[1] /\ at[1] \in Nat /\ off[f] \in Nat /\ off[e + 1] \in Nat
      BY <1>3, <2>1, <2>2, <2>7
    <3> QED BY <3>1, <3>2
  <2>11. f = e \/ f < e \/ e < f
    <3>1. f \in Nat /\ e \in Nat
      BY PlaceOfEntry
    <3> QED BY <3>1
  <2> QED BY <2>8, <2>9, <2>10, <2>11
<1>5. start \in Nat \ {0}
  BY <1>3
<1> HIDE DEF start, Right
<1>6. S = Nat
  <2>1. 0 \in S
    <3>1. ASSUME NEW i \in 1 .. start, start - i <= 0 PROVE \E a \in from[i] : Right(a)
      <4>1. ~ \E j \in 1 .. start : i < j
        BY <1>5, <3>1
      <4> QED BY <1>4, <4>1
    <3> QED BY <3>1
  <2>2. ASSUME NEW d \in S PROVE d + 1 \in S
    <3>1. ASSUME NEW i \in 1 .. start, start - i <= d + 1 PROVE \E a \in from[i] : Right(a)
      <4>1. CASE \E j \in 1 .. start : i < j /\ from[j] \subseteq from[i]
        <5>1. PICK j \in 1 .. start : i < j /\ from[j] \subseteq from[i]
          BY <4>1
        <5>2. start - j <= d
          BY <1>5, <3>1, <5>1
        <5>3. \E a \in from[j] : Right(a)
          BY <5>2
        <5> QED BY <5>1, <5>3
      <4> QED BY <1>4, <4>1
    <3>2. d + 1 \in Nat
      OBVIOUS
    <3> QED BY <3>1, <3>2
  <2> HIDE DEF S
  <2>3. S \in SUBSET Nat
    BY DEF S
  <2> QED BY <2>1, <2>2, <2>3, Counting
<1>7. \E a \in from[1] : Right(a)
  <2> DEFINE d == start - 1
  <2>1. 1 \in 1 .. start /\ d \in Nat /\ start - 1 <= d
    BY <1>5
  <2> HIDE DEF d
  <2>2. d \in S
    BY <1>6, <2>1
  <2> QED BY <2>1, <2>2
<1> QED BY <1>1, <1>7 DEF Right

-----------------------------------------------------------------------------
(* Readers of one result                                                   *)

\* A record that stands outside the general parser is sound when it is of one draw,
\* and of the newest of its game while the page is settled.
LEMMA SoundWhen ==
  ASSUME Watching, NEW record, record.via \notin Near,
         ReaderOf(code) \in Bounded \/ Settled => OneDraw(record),
         ReaderOf(code) \notin Lists /\ Settled =>
           \E g \in DOMAIN Games : Games[g] = record.game /\ record.result = DrawAt(g, page[g].past[1])
  PROVE  Sound(record)
  BY SiteFacts DEF Sound, Near

-----------------------------------------------------------------------------
(* _parse_cauca_homepage_current_result                                    *)

LEMMA CaucaIsSound ==
  ASSUME Watching, code = "LOTERIA_CAUCA",
         NEW record \in Cauca(Body, code, Games[1], DayOf(now))
  PROVE  Sound(record)
<1> DEFINE today == DayOf(now)
           lines == Matches(Body, CaucaLine)
           valid == {at \in lines : Body[at[2]].of.day <= today}
           SortKey(at) == <<Body[at[2]].of.day, Body[at[1]].of.day>>
           line == CHOOSE at \in valid : \A b \in valid : ~ Above(SortKey(b), SortKey(at))
           taken == Record(Games[1], Body[line[1]].of, Body[line[2]].of.day, Body[line[3]], Body[line[4]].of, "block")
           first == page[1].past[1]
<1>1. ReaderOf(code) = "result_page" /\ code \in TraditionalCodes
  BY DEF ReaderOf, TraditionalCodes, ParserKey
<1>2. /\ Len(site.games) = 1 /\ Where(site.full, CaucaLine[1]) # {} /\ Followed(site.full, CaucaLine)
  <2>1. LaidOut(code) /\ site = Sites[code]
    BY SiteFacts DEF site
  <2> QED BY <1>1, <2>1 DEF LaidOut
<1>3. /\ Len(CaucaLine) = 4 /\ CaucaLine[1] = {"sorteo", "proximo"} /\ CaucaLine[2] = {"fecha"}
      /\ CaucaLine[3] = {"premio_mayor"} /\ CaucaLine[4] = {"serie"}
  BY DEF CaucaLine
<1>4. CASE lines = {}
  <2>1. record \in Html(Body, code, Games[1], DayOf(now))
    BY <1>4 DEF Cauca
  <2> QED BY <1>1, <2>1, HtmlIsSound
<1>5. CASE lines # {}
  <2>1. record = taken
    BY <1>5 DEF Cauca
  <2>2. record.via = "block" /\ record.game = Games[1]
    BY <2>1 DEF Record
  <2>3. ASSUME Settled PROVE OneDraw(record) /\ record.result = DrawAt(1, first)
    <3>1. PICK off : Laid(Body, Entries, off)
      BY BodyIsLaid DEF Watching
    <3>2. \A e \in DOMAIN Entries : Entries[e].shows = site.full /\ Followed(Entries[e].shows, CaucaLine)
      BY <1>2, <2>3, SettledEntries
    <3> DEFINE Draws(at, draw) == \A n \in 1 .. 4 : Body[at[n]].of = draw /\ Body[at[n]].label \in CaucaLine[n]
    <3>3. first \in Nat /\ first <= today /\ \A n \in DOMAIN page[1].past : page[1].past[n] <= first
      <4>1. 1 \in DOMAIN Games /\ 1 \in DOMAIN page /\ page[1].past # <<>>
        BY <1>2, <2>3, SiteFacts DEF Settled
      <4>2. 1 \in DOMAIN page[1].past
        <5> DEFINE past == page[1].past
        <5>1. past \in Seq(Nat) /\ past # <<>>
          BY <4>1 DEF Watching, WatchTypeOK, Shown
        <5> HIDE DEF past
        <5>2. 1 \in DOMAIN past
          BY <5>1, EmptySeq
        <5> QED BY <5>2 DEF past
      <4> QED BY <4>1, <4>2, PastFacts
    <3>4. ASSUME NEW at \in lines
          PROVE  \E n \in DOMAIN page[1].past : Draws(at, DrawAt(1, page[1].past[n]))
      <4>1. Running(Body)
        BY <3>1, LaidFacts
      <4>2. PICK i \in DOMAIN Body : at = Follow(Body, i, CaucaLine) /\ Fits(Body, at)
        BY <1>3, <4>1, MatchesAreFollows
      <4>3. i \in Nat \ {0} /\ at[1] <= Len(Body)
        <5>1. i \in Nat \ {0}
          BY <4>1 DEF Running
        <5>2. DOMAIN at = 1 .. 4
          BY <1>3, <4>1, <4>2, <5>1, FollowFacts
        <5> QED BY <4>2, <5>1, <5>2 DEF Fits
      <4>4. PICK e \in DOMAIN Entries : WithinEntry(Body, Entries, off, e, CaucaLine, at)
        BY <1>3, <3>1, <3>2, <4>2, <4>3, MatchInEntry
      <4>5. Draws(at, Entries[e].of)
        BY <1>3, <4>4 DEF WithinEntry
      <4>6. page[1].next = Nothing
        BY <2>3, SiteFacts DEF Settled
      <4>7. PICK n \in DOMAIN page[1].past : Entries[e].of = DrawAt(1, page[1].past[n])
        BY <1>2, <4>6, OfOneLottery
      <4> QED BY <4>5, <4>7
    <3>5. PICK newest \in lines : Draws(newest, DrawAt(1, first))
      <4>1. 1 \in DOMAIN Games /\ 1 \in DOMAIN page[1].past
        <5>1. PICK at \in lines : TRUE
          BY <1>5
        <5>2. PICK n \in DOMAIN page[1].past : TRUE
          BY <3>4, <5>1
        <5> QED BY <5>2, SiteFacts, PastFacts
      <4>2. PICK f \in DOMAIN Entries : Entries[f] = Entry(1, first, site.full)
        BY <4>1, EntriesOfPage DEF Watching
      <4>3. Entries[f].of = DrawAt(1, first) /\ Where(Entries[f].shows, CaucaLine[1]) # {}
        BY <1>2, <4>2 DEF Entry
      <4>4. PICK at \in lines : WithinEntry(Body, Entries, off, f, CaucaLine, at)
        <5>1. Len(CaucaLine) \in Nat \ {0}
          BY <1>3
        <5> QED BY <3>1, <3>2, <4>3, <5>1, EveryEntryMatches
      <4>5. Draws(at, Entries[f].of)
        BY <1>3, <4>4 DEF WithinEntry
      <4> QED BY <4>3, <4>5
    <3> HIDE DEF lines
    <3>6. /\ \A day : DrawAt(1, day).day = day
          /\ \A at, draw : Draws(at, draw) =>
               SortKey(at) = <<draw.day, draw.day>> /\ Body[at[2]].of.day = draw.day
      <4>1. 1 \in 1 .. 4 /\ 2 \in 1 .. 4
        OBVIOUS
      <4> QED BY <4>1 DEF DrawAt
    <3>7. newest \in valid
      BY <3>3, <3>5, <3>6
    <3>8. ASSUME NEW at \in valid
          PROVE  \E day \in Nat : /\ Draws(at, DrawAt(1, day)) /\ day <= first
                                  /\ SortKey(at) = <<day, day>> /\ SortKey(newest) = <<first, first>>
      <4>1. PICK n \in DOMAIN page[1].past : Draws(at, DrawAt(1, page[1].past[n]))
        BY <3>4
      <4>2. page[1].past[n] \in Nat /\ page[1].past[n] <= first
        BY SiteFacts, PastFacts
      <4> DEFINE day == page[1].past[n]
      <4>3. DrawAt(1, day).day = day
        BY <3>6
      <4>4. SortKey(at) = <<day, day>>
        BY <3>6, <4>1, <4>3
      <4>5. SortKey(newest) = <<first, first>>
        BY <3>5, <3>6
      <4>6. day \in Nat /\ day <= first /\ Draws(at, DrawAt(1, day))
        BY <4>1, <4>2
      <4> HIDE DEF day
      <4> QED BY <4>4, <4>5, <4>6
    <3> HIDE DEF valid, SortKey, first, Draws
    <3>9. \A b \in valid : ~ Above(SortKey(b), SortKey(newest))
      <4>1. ASSUME NEW b \in valid PROVE ~ Above(SortKey(b), SortKey(newest))
        <5>1. PICK day \in Nat : day <= first /\ SortKey(b) = <<day, day>> /\ SortKey(newest) = <<first, first>>
          BY <3>8
        <5>2. ~ Above(<<day, day>>, <<first, first>>)
          BY <3>3, <5>1, AboveTwo
        <5> QED BY <5>1, <5>2
      <4> QED BY <4>1
    <3>10. line \in valid /\ \A b \in valid : ~ Above(SortKey(b), SortKey(line))
      BY <3>7, <3>9
    <3> HIDE DEF line
    <3>11. PICK day \in Nat : /\ Draws(line, DrawAt(1, day)) /\ day <= first
                              /\ SortKey(line) = <<day, day>> /\ SortKey(newest) = <<first, first>>
      BY <3>8, <3>10
    <3>12. day = first
      <4>1. ~ Above(<<first, first>>, <<day, day>>)
        BY <3>7, <3>10, <3>11
      <4> QED BY <3>3, <3>11, <4>1, AboveTwo
    <3>13. Draws(line, DrawAt(1, first))
      BY <3>11, <3>12
    <3> DEFINE draw == DrawAt(1, first)
    <3>14. /\ Body[line[1]].of = draw /\ Body[line[2]].of = draw /\ Body[line[3]].of = draw /\ Body[line[4]].of = draw
           /\ Body[line[3]].label = "premio_mayor"
      <4>1. 1 \in 1 .. 4 /\ 2 \in 1 .. 4 /\ 3 \in 1 .. 4 /\ 4 \in 1 .. 4
        OBVIOUS
      <4> HIDE DEF draw
      <4> QED BY <1>3, <3>13, <4>1 DEF Draws, draw
    <3>15. /\ record.label = "premio_mayor" /\ record.result = draw /\ record.number = draw
           /\ record.date = draw.day /\ record.series = draw /\ record.game = Games[1] /\ draw.game = Games[1]
      <4>1. draw.game = Games[1]
        BY DEF DrawAt
      <4> HIDE DEF draw
      <4> QED BY <2>1, <3>14, <4>1 DEF Record
    <3> QED BY <3>15 DEF OneDraw
  <2>4. record.via \notin Near /\ ReaderOf(code) \notin Bounded
    BY <1>1, <2>2 DEF Near, Bounded
  <2> QED BY <2>2, <2>3, <2>4, SiteFacts, SoundWhen
<1> QED BY <1>4, <1>5

\* With the newest first the entry at the head of a page of one lottery is that of
\* its newest result.
LEMMA NewestAhead ==
  ASSUME Watching, Settled, Len(site.games) = 1, NewestFirst(site), NEW e \in DOMAIN Entries
  PROVE  \E f \in DOMAIN Entries : /\ f <= e /\ Entries[f].shows = site.full
                                   /\ Entries[f].of = DrawAt(1, page[1].past[1])
<1>1. PICK g \in DOMAIN Games, f \in DOMAIN Entries : f <= e /\ Entries[f] = Entry(g, page[g].past[1], site.full)
  BY EntriesOfPage DEF Watching
<1>2. g = 1
  BY OfOneLottery
<1> QED BY <1>1, <1>2 DEF Entry

\* The first of some texts stands in the first of the entries that have one.
LEMMA FirstIsAhead ==
  ASSUME NEW doc, NEW es, NEW off, Laid(doc, es, off), NEW S \in SUBSET DOMAIN doc,
         NEW e \in DOMAIN es, NEW p \in DOMAIN es[e].shows, Min(S) = off[e] + p,
         NEW f \in DOMAIN es, f <= e, NEW k \in DOMAIN es[f].shows, off[f] + k \in S
  PROVE  f = e
<1> DEFINE first == Min(S)
           own == off[f] + k
<1>0. Running(doc) /\ DOMAIN doc \subseteq Nat /\ e \in Nat /\ f \in Nat
  <2>1. Running(doc) /\ Len(es) \in Nat /\ DOMAIN es = 1 .. Len(es)
    BY LaidFacts
  <2> QED BY <2>1 DEF Running
<1>1. first <= own
  <2>1. S \in SUBSET Nat
    BY <1>0
  <2> QED BY <2>1, LeastOfNaturals
<1>2. /\ own \in Nat /\ own <= off[f + 1] /\ off[f + 1] \in Nat
      /\ off[e] \in Nat /\ off[e] < first /\ first \in Nat
  <2>1. /\ off[f] \in Nat /\ off[f + 1] = off[f] + Len(es[f].shows) /\ Labelling(es[f].shows)
        /\ off[e] \in Nat
    BY LaidFacts
  <2>2. \A r \in DOMAIN es[f].shows : off[f] + r \in DOMAIN doc /\ off[f] + r <= off[f + 1]
    BY LaidFacts
  <2>3. \A r \in DOMAIN es[e].shows : off[e] + r \in DOMAIN doc /\ off[e] < off[e] + r
    BY LaidFacts
  <2>4. own \in DOMAIN doc /\ own <= off[f + 1]
    BY <2>2
  <2>5. first \in DOMAIN doc /\ off[e] < first
    BY <2>3
  <2>6. off[f + 1] \in Nat
    BY <2>1 DEF Labelling, Running
  <2> HIDE DEF first, own
  <2> QED BY <1>0, <2>1, <2>4, <2>5, <2>6
<1>3. f < e => off[f + 1] <= off[e]
  BY LaidFacts
<1> HIDE DEF first, own
<1> QED BY <1>0, <1>1, <1>2, <1>3

\* So on a settled page with the newest first it is of the newest result.
LEMMA FirstIsNewest ==
  ASSUME Watching, Settled, Len(site.games) = 1, NewestFirst(site), NEW off, Laid(Body, Entries, off),
         NEW S \in SUBSET DOMAIN Body, NEW k \in DOMAIN site.full, S # {},
         \A f \in DOMAIN Entries : off[f] + k \in S
  PROVE  Body[Min(S)].of = DrawAt(1, page[1].past[1])
<1>1. Min(S) \in DOMAIN Body
  <2>1. S \in SUBSET Nat
    BY LaidFacts DEF Running
  <2> QED BY <2>1, LeastOfNaturals
<1>2. PICK e \in DOMAIN Entries : \E p \in DOMAIN Entries[e].shows : Min(S) = off[e] + p
  BY <1>1, LaidFacts
<1>3. PICK p \in DOMAIN Entries[e].shows : Min(S) = off[e] + p
  BY <1>2
<1>4. Body[Min(S)].of = Entries[e].of
  BY <1>3, LaidFacts
<1>5. PICK f \in DOMAIN Entries : /\ f <= e /\ Entries[f].shows = site.full
                                 /\ Entries[f].of = DrawAt(1, page[1].past[1])
  BY NewestAhead
<1>6. f = e
  BY <1>3, <1>5, FirstIsAhead
<1> QED BY <1>4, <1>5, <1>6

-----------------------------------------------------------------------------
(* _parse_manizales_homepage_current_result                                *)

LEMMA ManizalesIsSound ==
  ASSUME Watching, code = "LOTERIA_MANIZALES",
         NEW record \in Manizales(Body, code, Games[1], DayOf(now))
  PROVE  Sound(record)
<1> DEFINE headers == {i \in Where(Body, {"sorteo"}) : i + 1 \in Where(Body, {"fecha"})}
           head == Min(headers)
           parts == <<{"premio_mayor"}, {"serie"}>>
           at == Follow(Body, head + 2, parts)
           taken == Record(Games[1], Body[head].of, Body[head + 1].of.day, Body[at[1]], Body[at[2]].of, "block")
           draw == DrawAt(1, page[1].past[1])
<1>1. ReaderOf(code) = "result_page" /\ code \in TraditionalCodes
  BY DEF ReaderOf, TraditionalCodes, ParserKey
<1>2. /\ Len(site.games) = 1 /\ NewestFirst(site)
      /\ Where(site.full, {"sorteo"}) # {} /\ Where(site.pending, {"sorteo"}) = {}
      /\ \A i \in Where(site.full, {"sorteo"}) :
           i + 1 \in Where(site.full, {"fecha"}) /\ Fits(site.full, Follow(site.full, i + 2, parts))
  <2>1. LaidOut(code) /\ site = Sites[code]
    BY SiteFacts DEF site
  <2> QED BY <1>1, <2>1 DEF LaidOut
<1>3. CASE headers = {}
  <2>1. record \in Html(Body, code, Games[1], DayOf(now))
    BY <1>3 DEF Manizales
  <2> QED BY <1>1, <2>1, HtmlIsSound
<1>4. CASE headers # {}
  <2>1. PICK off : Laid(Body, Entries, off)
    BY BodyIsLaid DEF Watching
  <2>2. head \in headers /\ head \in Nat \ {0} /\ \A i \in headers : head <= i
    <3>1. headers \in SUBSET (Nat \ {0})
      BY <2>1, LaidFacts DEF Running, Where
    <3> HIDE DEF headers
    <3>2. headers \in SUBSET Nat
      BY <3>1
    <3> QED BY <1>4, <3>1, <3>2, LeastOfNaturals
  <2> HIDE DEF head
  <2>3. PICK e \in DOMAIN Entries : \E p \in DOMAIN Entries[e].shows : head = off[e] + p
    BY <2>1, <2>2, LaidFacts DEF Where
  <2>4. PICK p \in DOMAIN Entries[e].shows : head = off[e] + p
    BY <2>3
  <2>5. p \in Where(Entries[e].shows, {"sorteo"}) /\ Running(Entries[e].shows) /\ off[e] \in Nat
    <3>1. Body[head].label = Entries[e].shows[p].label /\ Labelling(Entries[e].shows) /\ off[e] \in Nat
      BY <2>1, <2>4, LaidFacts
    <3> QED BY <2>2, <3>1 DEF Where, Labelling
  <2>6. Entries[e].shows = site.full
    <3>1. Entries[e].shows # site.pending
      BY <1>2, <2>5
    <3> QED BY <1>2, <3>1, OfOneLottery
  <2> DEFINE full == site.full
             of == Entries[e].of
  <2>7. p + 1 \in Where(full, {"fecha"}) /\ Fits(full, Follow(full, p + 2, parts)) /\ p \in Nat \ {0}
    BY <1>2, <2>5, <2>6 DEF Running
  <2>8. Fits(Body, at) /\ WithinEntry(Body, Entries, off, e, parts, at)
    <3>1. p + 2 \in Nat \ {0} /\ Len(parts) = 2 /\ head + 2 = off[e] + (p + 2)
      BY <2>4, <2>5, <2>7
    <3>2. Fits(Entries[e].shows, Follow(Entries[e].shows, p + 2, parts))
      BY <2>6, <2>7
    <3> DEFINE q == p + 2
               P == parts
    <3>3. q \in Nat \ {0} /\ Len(P) \in Nat /\ Fits(Entries[e].shows, Follow(Entries[e].shows, q, P))
      BY <3>1, <3>2
    <3> HIDE DEF q, P
    <3>4. Fits(Body, Follow(Body, off[e] + q, P)) /\ WithinEntry(Body, Entries, off, e, P, Follow(Body, off[e] + q, P))
      BY <2>1, <3>3, LineInEntry
    <3> QED BY <3>1, <3>4 DEF q, P
  <2>9. /\ Body[head].of = of /\ Body[head + 1].of = of
    <3>1. \A k \in DOMAIN Entries[e].shows : Body[off[e] + k].of = of
      BY <2>1, LaidFacts
    <3>2. p + 1 \in DOMAIN Entries[e].shows /\ off[e] + (p + 1) = head + 1
      BY <2>4, <2>5, <2>6, <2>7 DEF Where
    <3> QED BY <2>4, <3>1, <3>2
  <2>10. Body[at[1]].of = of /\ Body[at[2]].of = of /\ Body[at[1]].label = "premio_mayor" /\ at[1] <= Len(Body)
    <3>1. Len(parts) = 2 /\ parts[1] = {"premio_mayor"} /\ 1 \in 1 .. 2 /\ 2 \in 1 .. 2 /\ Running(Body)
      BY <2>1, LaidFacts
    <3> HIDE DEF parts, at
    <3> QED BY <2>8, <3>1 DEF WithinEntry, Running
  <2>11. record = taken
    <3>1. ~ (at[1] > Len(Body))
      <4>1. at[1] \in Nat /\ Len(Body) \in Nat
        <5>1. Len(parts) = 2 /\ 1 \in 1 .. 2 /\ Running(Body)
          BY <2>1, LaidFacts
        <5> HIDE DEF parts, at
        <5> QED BY <2>8, <5>1 DEF WithinEntry, Running
      <4> HIDE DEF at
      <4> QED BY <2>10, <4>1
    <3> HIDE DEF taken
    <3>2. Manizales(Body, code, Games[1], DayOf(now)) \subseteq {taken}
      BY <1>4, <2>8, <3>1 DEF Manizales, taken, head
    <3> QED BY <3>2
  <2>12. of.game = Games[1] /\ of = DrawAt(1, of.day)
    BY <1>2, OfOneLottery
  <2> HIDE DEF at
  <2>13. /\ record.via = "block" /\ record.game = Games[1] /\ record.label = "premio_mayor" /\ record.result = of
         /\ record.number = of /\ record.date = of.day /\ record.series = of
    <3> HIDE DEF of
    <3> QED BY <2>9, <2>10, <2>11 DEF Record
  <2> HIDE DEF taken
  <2>14. OneDraw(record)
    <3> HIDE DEF of
    <3> QED BY <2>12, <2>13 DEF OneDraw
  <2>15. ASSUME Settled PROVE record.result = draw
    <3>1. p \in DOMAIN full /\ full[p].label = "sorteo" /\ p + 1 \in DOMAIN full /\ full[p + 1].label = "fecha"
      BY <2>5, <2>6, <2>7 DEF Where
    <3>2. ASSUME NEW f \in DOMAIN Entries PROVE off[f] + p \in headers
      <4>1. \A k \in DOMAIN full : off[f] + k \in DOMAIN Body /\ Body[off[f] + k].label = full[k].label
        <5>1. Entries[f].shows = full
          BY <2>15, SettledEntries
        <5>2. \A k \in DOMAIN Entries[f].shows :
                off[f] + k \in DOMAIN Body /\ Body[off[f] + k].label = Entries[f].shows[k].label
          BY <2>1, LaidFacts
        <5> QED BY <5>1, <5>2
      <4>2. off[f] + (p + 1) = (off[f] + p) + 1
        <5>1. off[f] \in Nat
          BY <2>1, LaidFacts
        <5> QED BY <2>7, <5>1
      <4>3. off[f] + p \in Where(Body, {"sorteo"})
        BY <3>1, <4>1 DEF Where
      <4>4. off[f] + (p + 1) \in Where(Body, {"fecha"})
        <5> DEFINE q == p + 1
        <5>1. q \in DOMAIN full /\ full[q].label = "fecha"
          BY <3>1
        <5> HIDE DEF q
        <5>2. off[f] + q \in Where(Body, {"fecha"})
          BY <4>1, <5>1 DEF Where
        <5> QED BY <5>2 DEF q
      <4> QED BY <4>2, <4>3, <4>4
    <3>3. headers \in SUBSET DOMAIN Body
      BY DEF Where
    <3> HIDE DEF headers
    <3>4. Body[Min(headers)].of = draw
      BY <1>2, <1>4, <2>1, <2>15, <3>1, <3>2, <3>3, FirstIsNewest
    <3> QED BY <2>9, <2>13, <3>4 DEF head
  <2>16. record.via \notin Near
    BY <2>13 DEF Near
  <2> QED BY <2>13, <2>14, <2>15, <2>16, SiteFacts, SoundWhen
<1> QED BY <1>3, <1>4

\* The texts of a page of one result.
LEMMA BodyOfOneResult ==
  ASSUME Watching, Len(site.games) = 1, OneResult(site), NEW j \in DOMAIN Body
  PROVE  /\ page[1].past # <<>> /\ page[1].past[1] \in Nat
         /\ Body[j].of = DrawAt(1, page[1].past[1])
<1>1. PICK off : Laid(Body, Entries, off)
  BY BodyIsLaid DEF Watching
<1>2. PICK e \in DOMAIN Entries : \E k \in DOMAIN Entries[e].shows : j = off[e] + k
  BY <1>1, LaidFacts
<1>3. PICK k \in DOMAIN Entries[e].shows : j = off[e] + k
  BY <1>2
<1>4. Body[j].of = Entries[e].of
  BY <1>1, <1>3, LaidFacts
<1> QED BY <1>4, OfOneResult

-----------------------------------------------------------------------------
(* _parse_risaralda_official                                               *)

\* A text that is not of the first page is of the body: what is said of a document
\* with a counter in front.
LEMMA WithCounter ==
  ASSUME NEW draw \in Draw, NEW body \in Seq(Text)
  PROVE  LET doc == <<[label |-> "jugados", of |-> draw]>> \o body
         IN  /\ Len(doc) \in Nat /\ DOMAIN doc = 1 .. Len(doc) /\ 1 \in DOMAIN doc
             /\ doc[1].label = "jugados" /\ doc[1].of = draw
             /\ \A j \in DOMAIN doc : j # 1 => j - 1 \in DOMAIN body /\ doc[j] = body[j - 1]
<1> DEFINE T == Text
           x == [label |-> "jugados", of |-> draw]
           front == <<x>>
           doc == front \o body
<1>1. x \in T /\ x.label = "jugados" /\ x.of = draw
  BY DEF Text, Labels
<1> HIDE DEF x, T
<1>2. front \in Seq(T) /\ Len(front) = 1 /\ front[1] = x /\ body \in Seq(T) /\ Len(body) \in Nat
      /\ DOMAIN body = 1 .. Len(body)
  BY <1>1 DEF T
<1> HIDE DEF front
<1>3. /\ doc \in Seq(T) /\ Len(doc) = 1 + Len(body)
      /\ \A j \in 1 .. 1 + Len(body) : doc[j] = IF j <= 1 THEN front[j] ELSE body[j - 1]
  <2>1. front \in Seq(T) /\ body \in Seq(T) /\ Len(front) = 1
    BY <1>2
  <2>2. /\ doc \in Seq(T) /\ Len(doc) = Len(front) + Len(body)
        /\ \A j \in 1 .. Len(front) + Len(body) :
             doc[j] = IF j <= Len(front) THEN front[j] ELSE body[j - Len(front)]
    BY <2>1, ConcatProperties
  <2> HIDE DEF doc
  <2> QED BY <2>1, <2>2
<1> HIDE DEF doc
<1>4. DOMAIN doc = 1 .. 1 + Len(body) /\ 1 \in DOMAIN doc
  BY <1>2, <1>3
<1>5. \A j \in DOMAIN doc : j # 1 => j - 1 \in DOMAIN body /\ doc[j] = body[j - 1]
  BY <1>2, <1>3, <1>4
<1>6. doc[1] = x
  BY <1>2, <1>3, <1>4
<1> QED BY <1>1, <1>2, <1>3, <1>4, <1>5, <1>6 DEF doc, front, x

\* The texts of Risaralda: of its one result, but for a counter that is no newer.
LEMMA RisaraldaDocument ==
  ASSUME Watching, TwoPages, primary # <<>>
  PROVE  /\ Len(site.games) = 1 /\ DOMAIN Document \subseteq Nat
         /\ Where(Document, {"jugados"}) = {} => Document = Body
         /\ \A j \in DOMAIN Document :
              /\ page[1].past # <<>> /\ page[1].past[1] \in Nat
              /\ Document[j].of \in Draw /\ Document[j].of.day <= page[1].past[1]
              /\ Document[j].label # "jugados" => Document[j].of = DrawAt(1, page[1].past[1])
<1> DEFINE first == page[1].past[1]
           draw == DrawAt(1, primary[1])
<1>1. Len(site.games) = 1 /\ OneResult(site)
  <2>1. LaidOut(code) /\ site = Sites[code] /\ code = "LOTERIA_RISARALDA"
    BY SiteFacts DEF site, TwoPages
  <2>2. ReaderOf(code) = "result_page"
    BY <2>1 DEF ReaderOf, TraditionalCodes, ParserKey
  <2> QED BY <2>1, <2>2 DEF LaidOut
<1>2. /\ Body \in Seq(Text) /\ DOMAIN Body \subseteq Nat
      /\ \A j \in DOMAIN Body : /\ page[1].past # <<>> /\ first \in Nat
                                /\ Body[j].of = DrawAt(1, first) /\ Body[j].of \in Draw
                                /\ DrawAt(1, first).day = first
  <2>1. PICK off : Laid(Body, Entries, off)
    BY BodyIsLaid DEF Watching
  <2>2. Body \in Seq(Text) /\ DOMAIN Body \subseteq Nat
    BY <2>1, LaidFacts DEF Laid, Running
  <2>3. \A j \in DOMAIN Body : page[1].past # <<>> /\ first \in Nat /\ Body[j].of = DrawAt(1, first)
    BY <1>1, BodyOfOneResult
  <2>4. \A j \in DOMAIN Body : Body[j].of \in Draw
    BY <2>2, TextsAreLabelled
  <2> QED BY <2>2, <2>3, <2>4 DEF DrawAt
<1>3. Len(primary) = 1 /\ (primary[1] # Nothing => page[1].past # <<>> /\ primary[1] <= first)
  BY DEF Watching, PagesInOrder, CounterBehind
<1>4. primary = <<primary[1]>> /\ primary[1] \in ShownDays
  <2> DEFINE S == ShownDays
  <2>1. primary \in Seq(S) /\ Len(primary) = 1
    BY <1>3 DEF Watching, WatchTypeOK
  <2> HIDE DEF S
  <2> DEFINE t == <<primary[1]>>
  <2>2. primary[1] \in S /\ DOMAIN primary = 1 .. 1
    BY <2>1
  <2>3. t \in Seq(S) /\ Len(t) = 1 /\ t[1] = primary[1] /\ \A i \in 1 .. 1 : i = 1
    BY <2>2
  <2> HIDE DEF t
  <2>4. primary = t
    BY <2>1, <2>3, SeqEqual
  <2> QED BY <2>2, <2>4 DEF S, t
<1>5. CASE primary[1] = Nothing
  <2>1. Document = Body
    BY <1>4, <1>5 DEF Document
  <2> QED BY <1>1, <1>2, <2>1
<1>6. CASE primary[1] # Nothing
  <2>1. primary # <<Nothing>>
    BY <1>6
  <2>2. Document = <<[label |-> "jugados", of |-> draw]>> \o Body
    BY <2>1 DEF Document
  <2>3. /\ primary[1] \in Nat /\ primary[1] <= first /\ page[1].past # <<>> /\ first \in Nat
        /\ draw \in Draw /\ draw.day = primary[1]
    <3>1. primary[1] \in Nat /\ 1 \in DOMAIN Games
      BY <1>4, <1>6, SiteFacts DEF ShownDays
    <3>2. draw \in Draw
      BY <3>1, EntryIsTyped DEF Watching
    <3>3. first \in Nat
      <4> DEFINE past == page[1].past
      <4>1. past \in Seq(Nat) /\ past # <<>>
        BY <1>3, <1>6, <3>1 DEF Watching, WatchTypeOK, Shown
      <4> HIDE DEF past
      <4>2. past[1] \in Nat
        BY <4>1, EmptySeq
      <4> QED BY <4>2 DEF past
    <3> QED BY <1>3, <1>6, <3>1, <3>2, <3>3 DEF DrawAt
  <2> HIDE DEF draw
  <2>4. /\ Len(Document) \in Nat /\ DOMAIN Document = 1 .. Len(Document) /\ 1 \in DOMAIN Document
        /\ Document[1].label = "jugados" /\ Document[1].of = draw
        /\ \A j \in DOMAIN Document : j # 1 => j - 1 \in DOMAIN Body /\ Document[j] = Body[j - 1]
    BY <1>2, <2>2, <2>3, WithCounter
  <2>5. Where(Document, {"jugados"}) # {}
    BY <2>4 DEF Where
  <2>6. DOMAIN Document \subseteq Nat
    BY <2>4
  <2> HIDE DEF first
  <2>7. ASSUME NEW j \in DOMAIN Document
        PROVE  /\ Document[j].of \in Draw /\ Document[j].of.day <= first
               /\ Document[j].label # "jugados" => Document[j].of = DrawAt(1, first)
    <3>1. CASE j = 1
      BY <2>3, <2>4, <3>1
    <3>2. CASE j # 1
      <4>1. Document[j] = Body[j - 1] /\ j - 1 \in DOMAIN Body
        BY <2>4, <3>2
      <4>2. Body[j - 1].of = DrawAt(1, first) /\ DrawAt(1, first) \in Draw /\ DrawAt(1, first).day = first
        BY <1>2, <4>1
      <4>3. first <= first
        BY <2>3
      <4> QED BY <4>1, <4>2, <4>3
    <3> QED BY <3>1, <3>2
  <2> QED BY <1>1, <2>3, <2>5, <2>6, <2>7 DEF first
<1> QED BY <1>5, <1>6

LEMMA RisaraldaIsSound ==
  ASSUME Watching, code = "LOTERIA_RISARALDA", primary # <<>>, NEW expected,
         NEW record \in Risaralda(Document, code, Games[1], expected, DayOf(now))
  PROVE  Sound(record)
<1> DEFINE doc == Document
           counters == Where(doc, {"jugados"})
           majors == Where(doc, {"premio_mayor"})
           series == InReach(doc, Min(majors), Where(doc, {"serie"}))
           counter == doc[Min(counters)].of
           headers == DrawHeaders(doc, code)
           first == page[1].past[1]
           nearest == NearestDraw(doc, Min(majors), series)
<1>1. ReaderOf(code) = "result_page" /\ TwoPages /\ 1 \in DOMAIN page
  BY SiteFacts DEF ReaderOf, TraditionalCodes, ParserKey, TwoPages, Watching
<1>2. CASE counters # {}
  <2>1. majors # {} /\ series # {}
    BY <1>2 DEF Risaralda
  <2>2. record = Record(Games[1], counter, counter.day, doc[Min(majors)], nearest, "composite")
    BY <1>2, <2>1 DEF Risaralda
  <2>3. Min(majors) \in majors /\ Min(counters) \in counters
    <3>1. majors \in SUBSET Nat /\ counters \in SUBSET Nat
      BY <1>1, RisaraldaDocument DEF Where
    <3> HIDE DEF majors, counters
    <3> QED BY <1>2, <2>1, <3>1, LeastOfNaturals
  <2>4. doc[Min(majors)].of = DrawAt(1, first) /\ counter.day <= first
    <3> DEFINE i == Min(majors)
               j == Min(counters)
    <3>1. i \in DOMAIN doc /\ doc[i].label = "premio_mayor" /\ j \in DOMAIN doc
      BY <2>3 DEF Where
    <3> HIDE DEF i, j
    <3>2. doc[i].of = DrawAt(1, first) /\ doc[j].of.day <= first
      BY <1>1, <3>1, RisaraldaDocument
    <3> QED BY <3>2 DEF i, j
  <2> HIDE DEF counter, majors, counters, nearest
  <2>5. /\ record.via = "composite" /\ record.game = Games[1]
        /\ record.number.day <= record.result.day /\ record.result = DrawAt(1, first)
    <3>1. /\ record.via = "composite" /\ record.game = Games[1] /\ record.number = counter
          /\ record.result = doc[Min(majors)].of
      BY <2>2 DEF Record
    <3> QED BY <2>4, <3>1 DEF DrawAt
  <2> HIDE DEF first
  <2> QED BY <1>1, <2>5 DEF Sound, Near, first
<1>3. CASE counters = {} /\ headers = {} /\ Where(doc, DOMAIN Weight) # {}
  <2>1. PICK r \in Html(doc, code, Games[1], DayOf(now)) :
          record = [r EXCEPT !.number = expected, !.date = expected.day, !.via = "inferred"]
    BY <1>3 DEF Risaralda
  <2>2. doc = Body
    BY <1>1, <1>3, RisaraldaDocument
  <2>3. r.game = Games[1] /\ r.result = DrawAt(1, first)
    BY <1>1, <1>3, <2>1, <2>2, HtmlIsNewest
  <2>4. DOMAIN r = {"game", "number", "date", "result", "label", "series", "via"}
    <3>1. r \in {Labelled(doc, code, Games[1], Best(doc, DayOf(now)))}
      BY <1>3, <2>1 DEF Html
    <3> QED BY <3>1 DEF Labelled, RecordAt, Record
  <2>5. record.via = "inferred" /\ record.game = r.game /\ record.result = r.result
    BY <2>1, <2>4
  <2> QED BY <1>1, <2>3, <2>5 DEF Sound, Near
<1>4. CASE counters = {} /\ headers # {} /\ Days(doc) = {} /\ Where(doc, DOMAIN Weight) # {}
  <2> DEFINE r == RecordAt(doc, code, Games[1], Unlabelled(doc), expected.day, "unlabelled")
  <2>1. record = [r EXCEPT !.date = r.number.day]
    BY <1>4 DEF Risaralda
  <2>2. r.via = "unlabelled" /\ DOMAIN r = {"game", "number", "date", "result", "label", "series", "via"}
    BY DEF RecordAt, Record
  <2> HIDE DEF r
  <2>3. record.via = "unlabelled"
    BY <2>1, <2>2
  <2> QED BY <2>3 DEF Sound, Near
<1>5. CASE counters = {} /\ headers # {} /\ Days(doc) # {} /\ Where(doc, DOMAIN Weight) # {}
  <2>1. record \in Html(doc, code, Games[1], DayOf(now))
    BY <1>5 DEF Risaralda
  <2>2. doc = Body
    BY <1>1, <1>5, RisaraldaDocument
  <2> QED BY <1>1, <2>1, <2>2, HtmlIsSound
<1>6. counters # {} \/ Where(doc, DOMAIN Weight) # {}
  BY DEF Risaralda
<1> QED BY <1>2, <1>3, <1>4, <1>5, <1>6

LEMMA ResultPageIsSound ==
  ASSUME Watching, ReaderOf(code) = "result_page", TwoPages => primary # <<>>,
         NEW record \in TraditionalHtml(Document, code, Games[1], Expected, DayOf(now))
  PROVE  Sound(record)
<1>1. CASE code = "LOTERIA_RISARALDA"
  <2>1. record \in Risaralda(Document, code, Games[1], Expected, DayOf(now))
    BY <1>1 DEF TraditionalHtml
  <2> QED BY <1>1, <2>1, RisaraldaIsSound DEF TwoPages, Watching
<1>2. CASE code # "LOTERIA_RISARALDA"
  <2>1. Document = Body
    BY <1>2 DEF Document, TwoPages
  <2>2. CASE code = "LOTERIA_CAUCA"
    BY <2>1, <2>2, CaucaIsSound DEF TraditionalHtml
  <2>3. CASE code = "LOTERIA_MANIZALES"
    BY <2>1, <2>3, ManizalesIsSound DEF TraditionalHtml
  <2>4. CASE code \notin {"LOTERIA_CAUCA", "LOTERIA_MANIZALES"}
    <3>1. record \in Html(Body, code, Games[1], DayOf(now))
      BY <1>2, <2>1, <2>4 DEF TraditionalHtml
    <3> QED BY <3>1, HtmlIsSound
  <2> QED BY <2>2, <2>3, <2>4
<1> QED BY <1>1, <1>2

\* What a page of one lottery yields of its newest result alone is sound.
LEMMA NewestIsSound ==
  ASSUME Watching, Len(site.games) = 1, NEW record, record.via \notin Near,
         ReaderOf(code) \in Bounded \/ Settled =>
           /\ record.result = DrawAt(1, page[1].past[1]) /\ record.date = page[1].past[1]
           /\ record.game = Games[1] /\ {record.number, record.series} \subseteq {Nothing, record.result}
           /\ record.label \notin {"sorteo", "proximo"}
  PROVE  Sound(record)
<1> DEFINE draw == DrawAt(1, page[1].past[1])
<1>1. draw.game = Games[1] /\ draw.day = page[1].past[1] /\ 1 \in DOMAIN Games
  BY SiteFacts DEF DrawAt
<1>2. ReaderOf(code) \in Bounded \/ Settled => OneDraw(record)
  BY <1>1 DEF OneDraw
<1> QED BY <1>1, <1>2, SoundWhen

-----------------------------------------------------------------------------
(* CundinamarcaActaPdfParser                                               *)

LEMMA ActaIsSound ==
  ASSUME Watching, ReaderOf(code) = "acta_pdf", NEW record \in Acta(Body, Games[1])
  PROVE  Sound(record)
<1> DEFINE First(label) == Min(Where(Body, {label}))
           mayor == First("premio_mayor")
           near == {j \in DOMAIN Body : j >= mayor /\ Start(Body, j) - Start(Body, mayor) <= ActaWindow}
           digits == near \cap (Digits(Body) \cup Where(Body, {"fecha"}))
           result == Max(digits)
           series == {j \in near \cap Where(Body, {"serie"}) : j > result}
           draw == DrawAt(1, page[1].past[1])
<1>1. /\ Len(site.games) = 1 /\ OneResult(site)
      /\ \A i \in Where(site.full, {"sorteo", "proximo"}), j \in Where(site.full, {"premio_mayor"}) : i < j
  <2>1. LaidOut(code) /\ site = Sites[code]
    BY SiteFacts DEF site
  <2> QED BY <2>1 DEF LaidOut
<1>2. PICK off : Laid(Body, Entries, off)
  BY BodyIsLaid DEF Watching
<1>3. /\ \A label \in {"sorteo", "fecha", "premio_mayor"} : Where(Body, {label}) # {}
      /\ series # {}
      /\ record = Record(Games[1], Body[First("sorteo")].of, Body[First("fecha")].of.day, Body[result],
                         Body[Min(series)].of, "first")
  BY DEF Acta
<1>4. /\ Running(Body) /\ DOMAIN Body \in SUBSET Nat /\ IsFiniteSet(DOMAIN Body)
      /\ Labelling(Body)
  <2>1. Running(Body) /\ Labelling(Body)
    BY <1>2, LaidFacts
  <2>2. IsFiniteSet(DOMAIN Body)
    BY <2>1, FS_Interval DEF Running
  <2> QED BY <2>1, <2>2 DEF Running
<1>5. ASSUME NEW label \in {"sorteo", "fecha", "premio_mayor"}
      PROVE  First(label) \in Where(Body, {label})
  <2> DEFINE S == Where(Body, {label})
  <2>1. S \in SUBSET Nat /\ S # {}
    BY <1>3, <1>4 DEF Where
  <2> HIDE DEF S
  <2>2. Min(S) \in S
    BY <2>1, LeastOfNaturals
  <2> QED BY <2>2 DEF S
<1>6. mayor \in DOMAIN Body /\ Body[mayor].label = "premio_mayor" /\ mayor \in Nat
  BY <1>4, <1>5 DEF Where
<1>7. result \in digits
  <2>1. mayor \in digits
    <3> HIDE DEF mayor
    <3>1. Start(Body, mayor) \in Nat
      <4>1. mayor \in 1 .. Len(Body) + 1
        BY <1>4, <1>6 DEF Running
      <4> QED BY <1>4, <4>1, StartFacts
    <3>2. mayor \in near
      BY <1>6, <3>1, PageAssumption
    <3>3. "premio_mayor" \in DOMAIN Weight
      BY DEF Weight
    <3> HIDE DEF near
    <3> QED BY <1>6, <3>2, <3>3 DEF Digits, Where
  <2>2. digits \in SUBSET DOMAIN Body
    BY DEF Where, Digits
  <2> HIDE DEF digits
  <2>3. IsFiniteSet(digits) /\ digits \in SUBSET Nat
    BY <1>4, <2>2, FS_Subset
  <2> QED BY <2>1, <2>3, GreatestOfNaturals
<1> HIDE DEF result
<1>8. result \in DOMAIN Body /\ result >= mayor
  BY <1>7
<1>9. Body[result].label \notin {"sorteo", "proximo"}
  <2>1. SUFFICES ASSUME Body[result].label \in {"sorteo", "proximo"} PROVE FALSE
    OBVIOUS
  <2>2. PICK e \in DOMAIN Entries : \E k \in DOMAIN Entries[e].shows : result = off[e] + k
    BY <1>2, <1>8, LaidFacts
  <2>3. PICK k \in DOMAIN Entries[e].shows : result = off[e] + k
    BY <2>2
  <2> HIDE DEF mayor
  <2>4. PICK f \in DOMAIN Entries : \E r \in DOMAIN Entries[f].shows : mayor = off[f] + r
    BY <1>2, <1>6, LaidFacts
  <2>5. PICK r \in DOMAIN Entries[f].shows : mayor = off[f] + r
    BY <2>4
  <2>6. e = f
    <3>1. OneResult(site) /\ Len(Games) = 1
      BY <1>1, SiteFacts
    <3> QED BY <3>1, EntriesOfPage DEF Watching
  <2>7. /\ Entries[e].shows = site.full
        /\ Body[off[e] + k].label = site.full[k].label /\ Body[off[e] + r].label = site.full[r].label
        /\ off[e] \in Nat /\ k \in Nat /\ r \in Nat
    <3>1. Entries[e].shows = site.full
      BY <1>1, OfOneResult
    <3>2. /\ \A i \in DOMAIN Entries[e].shows : Body[off[e] + i].label = Entries[e].shows[i].label
          /\ off[e] \in Nat /\ Labelling(Entries[e].shows)
      BY <1>2, LaidFacts
    <3>3. k \in Nat /\ r \in Nat
      BY <2>6, <3>2 DEF Labelling, Running
    <3> QED BY <2>6, <3>1, <3>2, <3>3
  <2>8. k \in Where(site.full, {"sorteo", "proximo"}) /\ r \in Where(site.full, {"premio_mayor"})
    BY <1>6, <2>1, <2>3, <2>5, <2>6, <2>7 DEF Where
  <2>9. k < r
    BY <1>1, <2>8
  <2> QED BY <1>8, <2>3, <2>5, <2>6, <2>7, <2>9
<1>10. Min(series) \in DOMAIN Body
  <2>1. series \in SUBSET DOMAIN Body
    BY DEF Where
  <2> HIDE DEF series
  <2>2. series \in SUBSET Nat
    BY <1>4, <2>1
  <2> QED BY <1>3, <2>1, <2>2, LeastOfNaturals
<1>11. First("sorteo") \in DOMAIN Body /\ First("fecha") \in DOMAIN Body
  BY <1>5 DEF Where
<1>12. \A j \in DOMAIN Body : Body[j].of = draw
  BY <1>1, BodyOfOneResult
<1> HIDE DEF series, First
<1>13. /\ record.via = "first" /\ record.game = Games[1] /\ record.label = Body[result].label
       /\ record.result = draw /\ record.number = draw /\ record.date = draw.day /\ record.series = draw
  <2> HIDE DEF draw
  <2> QED BY <1>3, <1>8, <1>10, <1>11, <1>12 DEF Record
<1>14. record.date = page[1].past[1]
  BY <1>13 DEF DrawAt
<1> QED BY <1>1, <1>9, <1>13, <1>14, NewestIsSound DEF Near

-----------------------------------------------------------------------------
(* BalotoResultPageParser                                                  *)

LEMMA BalotoIsSound ==
  ASSUME Watching, ReaderOf(code) = "baloto", NEW record \in Baloto(Body, Games[1])
  PROVE  Sound(record)
<1> DEFINE number == Where(Body, {"sorteo", "proximo"})
           parts == <<{"fecha"}, {"cifras"}>>
           at == Follow(Body, 1, parts)
           draw == DrawAt(1, page[1].past[1])
<1>1. Len(site.games) = 1 /\ OneResult(site)
  <2>1. LaidOut(code) /\ site = Sites[code]
    BY SiteFacts DEF site
  <2> QED BY <2>1 DEF LaidOut
<1>2. /\ number # {} /\ Fits(Body, at)
      /\ record = Record(Games[1], Body[Min(number)].of, Body[at[1]].of.day, Body[at[2]], Nothing, "first")
  BY DEF Baloto
<1>3. Running(Body) /\ DOMAIN Body \in SUBSET Nat
  <2>1. PICK off : Laid(Body, Entries, off)
    BY BodyIsLaid DEF Watching
  <2>2. Running(Body)
    BY <2>1, LaidFacts
  <2> QED BY <2>2 DEF Running
<1>4. at[1] \in DOMAIN Body /\ at[2] \in DOMAIN Body /\ Body[at[2]].label = "cifras"
  <2>1. Len(parts) = 2 /\ parts[2] = {"cifras"} /\ 1 \in 1 .. 2 /\ 2 \in 1 .. 2 /\ 1 \in Nat \ {0} /\ Len(parts) \in Nat
    OBVIOUS
  <2> HIDE DEF parts
  <2>2. \A n \in 1 .. Len(parts) : at[n] \in DOMAIN Body /\ at[n] \in Where(Body, parts[n])
    BY <1>2, <1>3, <2>1, FitFacts
  <2> HIDE DEF at
  <2> QED BY <2>1, <2>2 DEF Where
<1>5. Min(number) \in DOMAIN Body
  <2>1. number \in SUBSET DOMAIN Body
    BY DEF Where
  <2> HIDE DEF number
  <2>2. number \in SUBSET Nat
    BY <1>3, <2>1
  <2> QED BY <1>2, <2>1, <2>2, LeastOfNaturals
<1>6. \A j \in DOMAIN Body : Body[j].of = draw
  BY <1>1, BodyOfOneResult
<1> HIDE DEF at, number
<1>7. /\ record.via = "first" /\ record.game = Games[1] /\ record.label = "cifras"
      /\ record.result = draw /\ record.number = draw /\ record.date = draw.day /\ record.series = Nothing
  <2> HIDE DEF draw
  <2> QED BY <1>2, <1>4, <1>5, <1>6 DEF Record
<1>8. record.date = page[1].past[1]
  BY <1>7 DEF DrawAt
<1> QED BY <1>1, <1>7, <1>8, NewestIsSound DEF Near

LEMMA RowsAreEntries ==
  ASSUME Watching
  PROVE  /\ ToSet(FlattenSeq(Tables)) = {Entries[e] : e \in DOMAIN Entries}
         /\ IsFiniteSet(ToSet(FlattenSeq(Tables)))
<1>1. ToSet(FlattenSeq(Tables)) = {Entries[e] : e \in DOMAIN Entries}
  BY DEF ToSet, Entries
<1>2. IsFiniteSet(DOMAIN Entries)
  <2>1. PICK off : Laid(Body, Entries, off)
    BY BodyIsLaid DEF Watching
  <2>2. Len(Entries) \in Nat /\ DOMAIN Entries = 1 .. Len(Entries)
    BY <2>1, LaidFacts
  <2> QED BY <2>2, FS_Interval
<1> DEFINE rows == {Entries[e] : e \in DOMAIN Entries}
           f == [e \in DOMAIN Entries |-> Entries[e]]
<1>3. f \in Surjection(DOMAIN Entries, rows)
  BY DEF Surjection
<1>4. IsFiniteSet(rows)
  <2> HIDE DEF rows, f
  <2> QED BY <1>2, <1>3, FS_Surjection
<1> QED BY <1>1, <1>4

\* What is read of a row.
OfRow(record, row, game) ==
  /\ record.via = "row" /\ record.game = game /\ record.result = row.of /\ record.date = row.of.day
  /\ record.label \notin {"sorteo", "proximo"}
  /\ record.number \in {Nothing, row.of} /\ record.series \in {Nothing, row.of}

\* It is of the draw that the row is of.
LEMMA RowIsOneDraw ==
  ASSUME NEW record, NEW row, NEW game, row.of.game = game, OfRow(record, row, game)
  PROVE  /\ OneDraw(record) /\ record.via = "row" /\ record.game = game /\ record.result = row.of
  BY DEF OfRow, OneDraw

-----------------------------------------------------------------------------
(* HtmlTableParser, and the parsers of parse_four_digit_record             *)

LEMMA ListedIsSound ==
  ASSUME Watching, ReaderOf(code) \in {"table", "json"}, NEW record,
         \/ record \in Table(ToSet(FlattenSeq(Tables)), ToSet(Games))
         \/ record \in Json(ToSet(FlattenSeq(Tables)), ToSet(Games))
  PROVE  Sound(record)
<1>1. CASE record \in Table(ToSet(FlattenSeq(Tables)), ToSet(Games))
  <2>1. PICK row \in ToSet(FlattenSeq(Tables)) :
          record = RowRecord(row.of.game, row, "cifras", FALSE, FALSE, "row")
    BY <1>1 DEF Table
  <2>2. OfRow(record, row, row.of.game)
    BY <2>1 DEF RowRecord, Record, OfRow
  <2>3. OneDraw(record) /\ record.via = "row"
    BY <2>2, RowIsOneDraw
  <2> QED BY <2>3, SoundWhen DEF Near, Lists
<1>2. CASE record \in Json(ToSet(FlattenSeq(Tables)), ToSet(Games))
  <2>1. PICK row \in ToSet(FlattenSeq(Tables)) :
          record = RowRecord(row.of.game, row, "resultado", TRUE, FALSE, "row")
    BY <1>2 DEF Json
  <2>2. OfRow(record, row, row.of.game)
    BY <2>1 DEF RowRecord, Record, OfRow
  <2>3. OneDraw(record) /\ record.via = "row"
    BY <2>2, RowIsOneDraw
  <2> QED BY <2>3, SoundWhen DEF Near, Lists
<1> QED BY <1>1, <1>2

-----------------------------------------------------------------------------
(* SantanderOpenDataParser                                                 *)

LEMMA SantanderIsSound ==
  ASSUME Watching, ReaderOf(code) = "santander_open_data", NEW today,
         NEW record \in Santander(ToSet(FlattenSeq(Tables)), Games[1], today)
  PROVE  Sound(record)
<1> DEFINE rows == ToSet(FlattenSeq(Tables))
           mayor == {row \in rows : Shows(row, {"premio_mayor"})}
           numbered == {row \in mayor : Shows(row, {"sorteo"})}
           row == CHOOSE r \in numbered : \A q \in numbered : r.of.day >= q.of.day
           first == page[1].past[1]
<1>1. Len(site.games) = 1 /\ Shows([shows |-> site.full], {"premio_mayor", "sorteo"})
  <2>1. LaidOut(code) /\ site = Sites[code]
    BY SiteFacts DEF site
  <2> QED BY <2>1 DEF LaidOut
<1>2. numbered # {} /\ record = RowRecord(Games[1], row, "premio_mayor", TRUE, TRUE, "row")
  BY DEF Santander
<1>3. \A r \in rows : /\ r.of.day \in Int /\ r.of = DrawAt(1, r.of.day) /\ r.of.game = Games[1]
  <2>1. SUFFICES ASSUME NEW r \in rows PROVE r.of.day \in Int /\ r.of = DrawAt(1, r.of.day) /\ r.of.game = Games[1]
    OBVIOUS
  <2>2. PICK e \in DOMAIN Entries : r = Entries[e]
    BY RowsAreEntries
  <2>3. r.of = DrawAt(1, r.of.day) /\ r.of.game = Games[1]
    BY <1>1, <2>2, OfOneLottery
  <2>4. r.of \in Draw
    <3>1. PICK off : Laid(Body, Entries, off)
      BY BodyIsLaid DEF Watching
    <3>2. Entries[e] \in EntryType
      BY <3>1, LaidFacts
    <3> QED BY <2>2, <3>2 DEF EntryType
  <2> QED BY <2>3, <2>4 DEF Draw
<1>4. row \in numbered /\ \A q \in numbered : row.of.day >= q.of.day
  <2> DEFINE key == [r \in numbered |-> r.of.day]
  <2>1. IsFiniteSet(numbered)
    BY RowsAreEntries, FS_Subset
  <2>2. key \in [numbered -> Int] /\ \A r \in numbered : r.of.day \in Int
    BY <1>3
  <2>3. \A r \in numbered : key[r] = r.of.day
    OBVIOUS
  <2> HIDE DEF numbered, key
  <2>4. PICK r \in numbered : \A q \in numbered : key[q] <= key[r]
    BY <1>2, <2>1, <2>2, GreatestKey
  <2>5. \A q \in numbered : r.of.day >= q.of.day
    BY <2>2, <2>3, <2>4
  <2> QED BY <2>5
<1>5. row \in rows
  BY <1>4
<1>6. /\ record.via = "row" /\ OneDraw(record) /\ record.result = row.of /\ record.game = Games[1]
  <2> HIDE DEF row, rows
  <2>1. OfRow(record, row, Games[1])
    BY <1>2 DEF RowRecord, Record, OfRow
  <2> QED BY <1>3, <1>5, <2>1, RowIsOneDraw
<1>7. ASSUME Settled PROVE row.of = DrawAt(1, first)
  <2>1. PICK e \in DOMAIN Entries : row = Entries[e]
    BY <1>5, RowsAreEntries
  <2>2. Entries[e].shows = site.full /\ page[1].next = Nothing
    BY <1>7, SiteFacts, SettledEntries DEF Settled
  <2>3. PICK n \in DOMAIN page[1].past : row.of.day = page[1].past[n]
    BY <1>1, <2>1, <2>2, OfOneLottery
  <2>4. /\ 1 \in DOMAIN Games /\ first \in Nat /\ page[1].past[n] \in Nat /\ page[1].past[n] <= first
        /\ 1 \in DOMAIN page[1].past
    BY SiteFacts, PastFacts
  <2>5. PICK f \in DOMAIN Entries : Entries[f] = Entry(1, first, site.full)
    BY <2>4, EntriesOfPage DEF Watching
  <2>6. Entries[f].shows = site.full /\ Entries[f].of.day = first
    BY <2>5 DEF Entry, DrawAt
  <2>7. Entries[f] \in numbered
    <3>1. Entries[f] \in rows
      BY RowsAreEntries
    <3> HIDE DEF rows
    <3> QED BY <1>1, <2>6, <3>1 DEF Shows
  <2> HIDE DEF numbered, row, first
  <2>8. row.of.day >= first
    BY <1>4, <2>6, <2>7
  <2>9. row.of.day = first
    BY <2>3, <2>4, <2>8
  <2> QED BY <1>3, <1>5, <2>9
<1> HIDE DEF row, first
<1> QED BY <1>6, <1>7, SoundWhen, SiteFacts DEF Near, first

-----------------------------------------------------------------------------
(* SuperAstroResultPageParser                                              *)

LEMMA AstroIsSound ==
  ASSUME Watching, ReaderOf(code) = "astro", NEW k \in DOMAIN Games, NEW record \in Astro(Tables, Games, k)
  PROVE  Sound(record)
<1> DEFINE Good(rows) == {i \in DOMAIN rows : Shows(rows[i], {"cifras", "sorteo", "fecha"})}
           own == Good(Tables[k])
           flat == FlattenSeq(Tables)
           first == page[k].past[1]
           top == Entry(k, first, site.full)
           Of(row) == RowRecord(Games[k], row, "cifras", TRUE, TRUE, "row")
<1>1. NewestFirst(site) /\ Shows([shows |-> site.full], {"cifras", "sorteo", "fecha"})
  <2>1. LaidOut(code) /\ site = Sites[code]
    BY SiteFacts DEF site
  <2> QED BY <2>1 DEF LaidOut
<1>2. record.via = "row"
  <2>1. \E row : record = Of(row)
    BY DEF Astro
  <2> QED BY <2>1 DEF RowRecord, Record
<1>3. ASSUME Settled
      PROVE  OneDraw(record) /\ record.game = Games[k] /\ record.result = DrawAt(k, first)
  <2>1. page[k].past # <<>> /\ page[k].next = Nothing
    BY <1>3, SiteFacts DEF Settled
  <2>2. Tables[k] = Rows(k)
    BY DEF Tables
  <2>3. 1 \in DOMAIN Tables[k] /\ Tables[k][1] = top /\ Tables[k] \in Seq(EntryType)
    BY <1>1, <2>1, <2>2, RowsOfGame DEF Watching
  <2>4. Shows(top, {"cifras", "sorteo", "fecha"}) /\ top.of = DrawAt(k, first) /\ top.of.game = Games[k]
    BY <1>1 DEF Shows, Entry, DrawAt
  <2> HIDE DEF top
  <2>5. 1 \in own
    BY <2>3, <2>4
  <2>6. Min(own) = 1
    <3> DEFINE table == Tables[k]
               E == EntryType
    <3>1. table \in Seq(E)
      BY <2>3
    <3> HIDE DEF table, E
    <3>2. DOMAIN table \subseteq Nat \ {0}
      BY <3>1
    <3>3. own \subseteq Nat \ {0}
      BY <3>2 DEF table
    <3> HIDE DEF own
    <3>4. own \in SUBSET Nat
      BY <3>3
    <3>5. Min(own) \in own /\ Min(own) <= 1
      BY <2>5, <3>4, LeastOfNaturals
    <3>6. \A n \in Nat \ {0} : n <= 1 => n = 1
      OBVIOUS
    <3> QED BY <3>3, <3>5, <3>6
  <2>7. record = Of(Tables[k][Min(own)])
    BY <2>5 DEF Astro
  <2>8. record = RowRecord(Games[k], top, "cifras", TRUE, TRUE, "row")
    BY <2>3, <2>6, <2>7
  <2> HIDE DEF first
  <2>9. OfRow(record, top, Games[k])
    BY <2>8 DEF RowRecord, Record, OfRow
  <2> QED BY <2>4, <2>9, RowIsOneDraw
<1>4. ReaderOf(code) \notin Bounded
  BY DEF Bounded
<1> QED BY <1>2, <1>3, <1>4, SoundWhen DEF Near

-----------------------------------------------------------------------------
(* MiLotoResultPageParser                                                  *)

LEMMA MiLotoIsSound ==
  ASSUME Watching, ReaderOf(code) = "miloto", NEW record \in MiLoto(Body, Games[1])
  PROVE  Sound(record)
<1> DEFINE number == Where(Body, {"sorteo", "proximo"})
           dates == Where(Body, {"fecha"})
           results == {i \in Where(Body, {"cifras"}) : i - 1 \in dates}
           draw == DrawAt(1, page[1].past[1])
<1>1. /\ Len(site.games) = 1 /\ NewestFirst(site)
      /\ Where(site.full, {"sorteo", "proximo"}) # {}
      /\ \E i \in Where(site.full, {"cifras"}) : i - 1 \in Where(site.full, {"fecha"})
  <2>1. LaidOut(code) /\ site = Sites[code]
    BY SiteFacts DEF site
  <2> QED BY <2>1 DEF LaidOut
<1>2. /\ number # {} /\ results # {}
      /\ record = Record(Games[1], Body[Min(number)].of, Body[Min(dates)].of.day, Body[Min(results)], Nothing, "first")
  BY DEF MiLoto
<1>3. PICK off : Laid(Body, Entries, off)
  BY BodyIsLaid DEF Watching
<1>4. DOMAIN Body \subseteq Nat /\ results \in SUBSET DOMAIN Body
  <2>1. Running(Body)
    BY <1>3, LaidFacts
  <2> QED BY <2>1 DEF Running, Where
<1>5. record.via = "first" /\ record.label = "cifras"
  <2>1. Min(results) \in results
    <3>1. results \in SUBSET Nat
      BY <1>4
    <3> HIDE DEF results
    <3> QED BY <1>2, <3>1, LeastOfNaturals
  <2>2. Body[Min(results)].label = "cifras"
    BY <2>1 DEF Where
  <2> HIDE DEF results, number, dates
  <2> QED BY <1>2, <2>2 DEF Record
<1>6. ASSUME Settled
      PROVE  record.result = draw /\ record.number = draw /\ record.date = draw.day
  <2>1. ASSUME NEW f \in DOMAIN Entries
        PROVE  /\ off[f] \in Nat
               /\ \A k \in DOMAIN site.full : /\ off[f] + k \in DOMAIN Body
                                             /\ Body[off[f] + k].label = site.full[k].label
    <3>1. Entries[f].shows = site.full
      BY <1>6, SettledEntries
    <3> QED BY <1>3, <3>1, LaidFacts
  <2>2. PICK k \in Where(site.full, {"sorteo", "proximo"}) : TRUE
    BY <1>1
  <2>3. PICK m \in Where(site.full, {"cifras"}) : m - 1 \in Where(site.full, {"fecha"})
    BY <1>1
  <2>4. Body[Min(number)].of = draw
    <3>1. \A f \in DOMAIN Entries : off[f] + k \in number
      BY <2>1, <2>2 DEF Where
    <3>2. number \in SUBSET DOMAIN Body /\ k \in DOMAIN site.full
      BY <2>2 DEF Where
    <3> HIDE DEF number
    <3> QED BY <1>1, <1>2, <1>3, <1>6, <3>1, <3>2, FirstIsNewest
  <2> DEFINE d == m - 1
  <2>5. d \in DOMAIN site.full /\ m \in DOMAIN site.full /\ \A f \in DOMAIN Entries : off[f] + d \in dates
    <3>1. d \in DOMAIN site.full /\ site.full[d].label = "fecha" /\ m \in DOMAIN site.full
      BY <2>3 DEF Where
    <3> HIDE DEF d
    <3> QED BY <2>1, <3>1 DEF Where
  <2>6. \A f \in DOMAIN Entries : off[f] + m \in results
    <3>1. m \in Nat
      BY <2>5, SiteFacts DEF Running
    <3>2. \A f \in DOMAIN Entries : (off[f] + m) - 1 = off[f] + d
      BY <2>1, <3>1
    <3>3. \A f \in DOMAIN Entries : off[f] + m \in Where(Body, {"cifras"})
      BY <2>1, <2>3, <2>5 DEF Where
    <3> HIDE DEF d, dates
    <3> QED BY <2>5, <3>2, <3>3
  <2>7. Body[Min(results)].of = draw
    <3> HIDE DEF results
    <3> QED BY <1>1, <1>2, <1>3, <1>4, <1>6, <2>5, <2>6, FirstIsNewest
  <2>8. Body[Min(dates)].of = draw
    <3>1. dates # {} /\ dates \in SUBSET DOMAIN Body
      BY <1>2 DEF Where
    <3> HIDE DEF dates, d
    <3> QED BY <1>1, <1>3, <1>6, <2>5, <3>1, FirstIsNewest
  <2> HIDE DEF draw, number, dates, results
  <2> QED BY <1>2, <2>4, <2>7, <2>8 DEF Record
<1>7. record.game = Games[1] /\ record.series = Nothing
  <2> HIDE DEF results, number, dates
  <2> QED BY <1>2 DEF Record
<1>8. draw.day = page[1].past[1]
  BY DEF DrawAt
<1>9. ReaderOf(code) \notin Bounded
  BY DEF Bounded
<1> QED BY <1>1, <1>5, <1>6, <1>7, <1>8, <1>9, NewestIsSound DEF Near

-----------------------------------------------------------------------------
(* AntioquenitaHtmlParser                                                  *)

LEMMA BoletinIsSound ==
  ASSUME Watching, ReaderOf(code) = "boletin", NEW record \in Boletin(Body)
  PROVE  Sound(record)
<1>1. \A texts \in {site.full, site.pending} : texts # <<>> => texts[1].label = "titulo"
  <2>1. LaidOut(code) /\ site = Sites[code]
    BY SiteFacts DEF site
  <2> QED BY <2>1 DEF LaidOut
<1>2. PICK off : Laid(Body, Entries, off)
  BY BodyIsLaid DEF Watching
<1>3. ASSUME NEW t \in Where(Body, {"titulo"}), NEW j \in DOMAIN Body, j > t,
             \A k \in Where(Body, {"titulo"}) : k > t => j < k
      PROVE  Body[j].of = Body[t].of
  <2>0. t \in DOMAIN Body
    BY DEF Where
  <2>1. PICK e \in DOMAIN Entries : \E p \in DOMAIN Entries[e].shows : t = off[e] + p
    BY <1>2, <2>0, LaidFacts
  <2>2. PICK p \in DOMAIN Entries[e].shows : t = off[e] + p
    BY <2>1
  <2>3. PICK f \in DOMAIN Entries : \E q \in DOMAIN Entries[f].shows : j = off[f] + q
    BY <1>2, LaidFacts
  <2>4. PICK q \in DOMAIN Entries[f].shows : j = off[f] + q
    BY <2>3
  <2> DEFINE texts == Entries[f].shows
             head == off[f] + 1
  <2>5. /\ e \in Nat /\ f \in Nat /\ t \in Nat /\ j \in Nat /\ off[e] \in Nat /\ off[f] \in Nat
        /\ off[e] < t /\ t <= off[e + 1] /\ off[f] < j /\ j <= off[f + 1]
        /\ off[e + 1] \in Nat /\ off[f + 1] \in Nat
    <3>1. DOMAIN Entries = 1 .. Len(Entries) /\ Len(Entries) \in Nat /\ Running(Body)
      BY <1>2, LaidFacts
    <3>2. /\ \A i \in DOMAIN Entries[e].shows : off[e] < off[e] + i /\ off[e] + i <= off[e + 1]
          /\ \A i \in DOMAIN Entries[f].shows : off[f] < off[f] + i /\ off[f] + i <= off[f + 1]
          /\ off[e] \in Nat /\ off[f] \in Nat
          /\ off[e + 1] = off[e] + Len(Entries[e].shows) /\ off[f + 1] = off[f] + Len(Entries[f].shows)
          /\ Labelling(Entries[e].shows) /\ Labelling(Entries[f].shows)
      BY <1>2, LaidFacts
    <3>3. e \in Nat /\ f \in Nat /\ t \in Nat /\ j \in Nat
      BY <2>0, <3>1 DEF Running
    <3>4. off[e + 1] \in Nat /\ off[f + 1] \in Nat
      BY <1>2, PlaceOfEntry
    <3> QED BY <2>2, <2>4, <3>2, <3>3, <3>4
  <2>6. ~ (f < e)
    <3>1. f < e => off[f + 1] <= off[e]
      BY <1>2, LaidFacts
    <3> QED BY <1>3, <2>5, <3>1
  <2>7. ~ (e < f)
    <3>1. SUFFICES ASSUME e < f PROVE FALSE
      OBVIOUS
    <3>2. off[e + 1] <= off[f]
      BY <1>2, <3>1, LaidFacts
    <3>3. texts \in {site.full, site.pending}
      BY EntryFacts
    <3>4. texts # <<>> /\ 1 \in DOMAIN texts /\ q \in Nat \ {0}
      <4>1. Labelling(texts)
        BY <1>2, LaidFacts
      <4> HIDE DEF texts
      <4>2. Len(texts) \in Nat /\ DOMAIN texts = 1 .. Len(texts) /\ q \in DOMAIN texts
        BY <4>1 DEF Labelling, Running, texts
      <4> QED BY <4>2
    <3>5. texts[1].label = "titulo"
      BY <1>1, <3>3, <3>4
    <3>6. head \in Where(Body, {"titulo"})
      <4>1. \A i \in DOMAIN texts : off[f] + i \in DOMAIN Body /\ Body[off[f] + i].label = texts[i].label
        BY <1>2, LaidFacts
      <4>2. head \in DOMAIN Body /\ Body[head].label = "titulo"
        BY <3>4, <3>5, <4>1
      <4> HIDE DEF head
      <4> QED BY <4>2 DEF Where
    <3>7. t < head /\ head <= j /\ head \in Nat
      <4> DEFINE end == off[e + 1]
                 begin == off[f]
      <4>1. t \in Nat /\ end \in Nat /\ begin \in Nat /\ q \in Nat \ {0}
        BY <2>5, <3>4
      <4>2. t <= end /\ end <= begin /\ j = begin + q /\ head = begin + 1
        BY <2>4, <2>5, <3>2
      <4> HIDE DEF end, begin, head
      <4> QED BY <4>1, <4>2
    <3> HIDE DEF head
    <3>8. t < head => j < head
      BY <1>3, <2>5, <3>6
    <3> QED BY <2>5, <3>7, <3>8
  <2>8. e = f
    BY <2>5, <2>6, <2>7
  <2>9. Body[off[e] + p].of = Entries[e].of /\ Body[off[f] + q].of = Entries[f].of
    BY <1>2, LaidFacts
  <2> QED BY <2>2, <2>4, <2>8, <2>9
<1>4. Body \in Seq([label : Labels, of : Draw])
  BY <1>2 DEF Laid, Text
<1>5. OneDraw(record)
  BY <1>3, <1>4, BoletinKeepsDrawsApart
<1>6. record.via = "game"
  <2>1. \E game, number, date, result : record = Record(game, number, date, result, Nothing, "game")
    BY DEF Boletin
  <2> QED BY <2>1 DEF Record
<1> QED BY <1>5, <1>6, SoundWhen DEF Near, Lists

-----------------------------------------------------------------------------
(* PagaTodoResultPageParser                                                *)

LEMMA PagaTodoIsSound ==
  ASSUME Watching, ReaderOf(code) = "paga_todo", NEW record \in PagaTodo(Body, ToSet(Games))
  PROVE  Sound(record)
<1> DEFINE Line(g) == Follow(Body, Min(Titles(Body, g)), GameLine)
<1>1. NewestFirst(site) /\ Followed(site.full, GameLine)
  <2>1. LaidOut(code) /\ site = Sites[code]
    BY SiteFacts DEF site
  <2> QED BY <2>1 DEF LaidOut
<1>2. PICK game \in ToSet(Games) :
        /\ Titles(Body, game) # {}
        /\ record = Record(game, Nothing, Body[Line(game)[2]].of.day, Body[Line(game)[3]], Nothing, "game")
  BY DEF PagaTodo
<1> DEFINE titles == Titles(Body, game)
           top == Min(titles)
           at == Line(game)
<1>3. PICK off : Laid(Body, Entries, off)
  BY BodyIsLaid DEF Watching
<1>4. titles \in SUBSET DOMAIN Body /\ DOMAIN Body \subseteq Nat
  <2>1. Running(Body)
    BY <1>3, LaidFacts
  <2> QED BY <2>1 DEF Running, Titles, Where
<1>5. top \in titles
  <2>1. titles \in SUBSET Nat
    BY <1>4
  <2> HIDE DEF titles
  <2> QED BY <1>2, <2>1, LeastOfNaturals DEF titles
<1>6. record.via = "game" /\ record.game = game /\ record.number = Nothing /\ record.series = Nothing
  <2> HIDE DEF Line
  <2> QED BY <1>2 DEF Record
<1>7. ASSUME Settled
      PROVE  /\ OneDraw(record)
             /\ \E g \in DOMAIN Games : Games[g] = record.game /\ record.result = DrawAt(g, page[g].past[1])
  <2>1. PICK e \in DOMAIN Entries : \E p \in DOMAIN Entries[e].shows : top = off[e] + p
    BY <1>3, <1>4, <1>5, LaidFacts
  <2>2. PICK p \in DOMAIN Entries[e].shows : top = off[e] + p
    BY <2>1
  <2>3. Entries[e].shows = site.full
    BY <1>7, SettledEntries
  <2> DEFINE of == Entries[e].of
  <2>4. Body[top].of = of /\ Body[top].label = site.full[p].label
    BY <1>3, <2>2, <2>3, LaidFacts
  <2>5. site.full[p].label = "titulo" /\ of.game = game
    <3> HIDE DEF top, of
    <3> QED BY <1>5, <2>4 DEF Titles, Where
  <2>6. p \in Where(site.full, {"titulo"}) /\ p \in Nat \ {0}
    BY <2>2, <2>3, <2>5, SiteFacts DEF Where, Running
  <2>7. Len(GameLine) = 3 /\ GameLine[1] = {"titulo"} /\ GameLine[3] = {"cifras"} /\ Len(GameLine) \in Nat
    BY DEF GameLine
  <2>8. Fits(Entries[e].shows, Follow(Entries[e].shows, p, GameLine))
    BY <1>1, <2>3, <2>6, <2>7 DEF Followed
  <2>9. WithinEntry(Body, Entries, off, e, GameLine, at)
    <3>1. WithinEntry(Body, Entries, off, e, GameLine, Follow(Body, off[e] + p, GameLine))
      BY <1>3, <2>6, <2>7, <2>8, LineInEntry
    <3> QED BY <2>2, <3>1
  <2>10. Body[at[2]].of = of /\ Body[at[3]].of = of /\ Body[at[3]].label = "cifras"
    <3>1. 2 \in 1 .. 3 /\ 3 \in 1 .. 3
      OBVIOUS
    <3> HIDE DEF at, of
    <3> QED BY <2>7, <2>9, <3>1 DEF WithinEntry, of
  <2>11. record.result = of /\ record.date = of.day /\ record.label = "cifras"
    <3> HIDE DEF of, Line
    <3>1. record = Record(game, Nothing, Body[at[2]].of.day, Body[at[3]], Nothing, "game")
      BY <1>2
    <3> HIDE DEF at
    <3> QED BY <2>10, <3>1 DEF Record
  <2>12. OneDraw(record)
    <3> HIDE DEF of
    <3> QED BY <1>6, <2>5, <2>11 DEF OneDraw
  <2>13. PICK g \in DOMAIN Games, f \in DOMAIN Entries :
           /\ f <= e /\ IsRow(Entries[e], g)
           /\ Entries[f] = Entry(g, page[g].past[1], site.full)
    BY <1>1, <1>7, EntriesOfPage DEF Watching
  <2>14. of.game = Games[g] /\ Entries[f].of.game = Games[g] /\ Entries[f].of = DrawAt(g, page[g].past[1])
         /\ Entries[f].shows = site.full
    BY <2>13 DEF IsRow, Entry, DrawAt
  <2>15. off[f] + p \in titles
    <3>1. off[f] + p \in DOMAIN Body /\ Body[off[f] + p].label = site.full[p].label
          /\ Body[off[f] + p].of = Entries[f].of
      <4>1. \A k \in DOMAIN Entries[f].shows :
              /\ off[f] + k \in DOMAIN Body /\ Body[off[f] + k].label = Entries[f].shows[k].label
              /\ Body[off[f] + k].of = Entries[f].of
        BY <1>3, LaidFacts
      <4> QED BY <2>2, <2>3, <2>14, <4>1
    <3>2. Entries[f].of.game = game
      BY <2>5, <2>14
    <3> QED BY <2>5, <3>1, <3>2 DEF Titles, Where
  <2>16. f = e
    <3>1. p \in DOMAIN Entries[f].shows
      BY <2>2, <2>3, <2>14
    <3>2. Min(titles) = off[e] + p
      BY <2>2
    <3> HIDE DEF titles
    <3> QED BY <1>3, <1>4, <2>13, <2>15, <3>1, <3>2, FirstIsAhead
  <2>17. record.result = DrawAt(g, page[g].past[1]) /\ Games[g] = record.game
    BY <1>6, <2>5, <2>11, <2>14, <2>16
  <2> QED BY <2>12, <2>17
<1>8. ReaderOf(code) \notin Bounded
  BY DEF Bounded
<1> QED BY <1>6, <1>7, <1>8, SoundWhen DEF Near

-----------------------------------------------------------------------------
(* All the readers                                                         *)

\* Whatever the reader: a record that a fetch of this moment finds is sound.
LEMMA ReadingsAreSound ==
  ASSUME WatchTypeOK, PagesInOrder, NEW record \in Readings
  PROVE  Sound(record)
<1> DEFINE reader == ReaderOf(code)
           rows == ToSet(FlattenSeq(Tables))
           today == DayOf(now)
<1>1. Watching /\ (TwoPages => primary # <<>>)
  BY DEF Readings, Watching
<1>2. record \in Reading(code, Games, Tables, Document, Expected, today)
  BY DEF Readings
<1>3. reader \in Readers
  BY <1>1, SiteFacts
<1>4. ASSUME reader # "result_page" PROVE Document = Body
  <2>1. code # "LOTERIA_RISARALDA"
    BY <1>4 DEF ReaderOf, ParserKey, TraditionalCodes
  <2> QED BY <2>1 DEF Document, TwoPages
<1>5. ASSUME NEW records, record \in Normalised(records, ToSet(Games)) PROVE record \in records
  BY <1>5 DEF Normalised
<1> HIDE DEF rows, today
<1>6. CASE reader = "result_page"
  <2>1. record \in TraditionalHtml(Document, code, Games[1], Expected, today)
    BY <1>2, <1>5, <1>6 DEF Reading
  <2> QED BY <1>1, <1>6, <2>1, ResultPageIsSound DEF today
<1>7. CASE reader = "acta_pdf"
  <2>1. record \in Acta(Body, Games[1])
    BY <1>2, <1>4, <1>5, <1>7 DEF Reading
  <2> QED BY <1>1, <1>7, <2>1, ActaIsSound
<1>8. CASE reader = "baloto"
  <2>1. record \in Baloto(Body, Games[1])
    BY <1>2, <1>4, <1>5, <1>8 DEF Reading
  <2> QED BY <1>1, <1>8, <2>1, BalotoIsSound
<1>9. CASE reader = "santander_open_data"
  <2>1. record \in Santander(ToSet(FlattenSeq(Tables)), Games[1], today)
    BY <1>2, <1>5, <1>9 DEF Reading
  <2> QED BY <1>1, <1>9, <2>1, SantanderIsSound
<1>10. CASE reader = "miloto"
  <2>1. record \in MiLoto(Body, Games[1])
    BY <1>2, <1>4, <1>5, <1>10 DEF Reading
  <2> QED BY <1>1, <1>10, <2>1, MiLotoIsSound
<1>11. CASE reader = "astro"
  <2>1. PICK k \in DOMAIN Games : record \in Astro(Tables, Games, k)
    BY <1>2, <1>5, <1>11 DEF Reading
  <2> QED BY <1>1, <1>11, <2>1, AstroIsSound
<1>12. CASE reader = "boletin"
  <2>1. record \in Boletin(Body)
    BY <1>2, <1>4, <1>5, <1>12 DEF Reading
  <2> QED BY <1>1, <1>12, <2>1, BoletinIsSound
<1>13. CASE reader = "paga_todo"
  <2>1. record \in PagaTodo(Body, ToSet(Games))
    BY <1>2, <1>4, <1>5, <1>13 DEF Reading
  <2> QED BY <1>1, <1>13, <2>1, PagaTodoIsSound
<1>14. CASE reader = "table"
  <2>1. record \in Table(ToSet(FlattenSeq(Tables)), ToSet(Games))
    BY <1>2, <1>5, <1>14 DEF Reading
  <2> QED BY <1>1, <1>14, <2>1, ListedIsSound
<1>15. CASE reader = "json"
  <2>1. record \in Json(ToSet(FlattenSeq(Tables)), ToSet(Games))
    BY <1>2, <1>5, <1>15 DEF Reading
  <2> QED BY <1>1, <1>15, <2>1, ListedIsSound
<1> QED
  BY <1>3, <1>6, <1>7, <1>8, <1>9, <1>10, <1>11, <1>12, <1>13, <1>14, <1>15 DEF Readers

(* What a parser takes from rows, from the parts of the boletin or from an  *)
(* acta is of one draw at every moment of the page; what the patterns for   *)
(* Cauca, Manizales, Baloto, MiLoto and Paga Todo and the tables of Super   *)
(* Astro yield is so while no draw is announced without its result.  Every  *)
(* page that has the layout its parser is written for: any number of games, *)
(* entries and texts, of any widths.                                        *)
THEOREM BlocksStayApart == WatchSpec => []BlocksDoNotMix
<1>1. WatchTypeOK /\ PagesInOrder => BlocksDoNotMix
  BY ReadingsAreSound DEF BlocksDoNotMix, Sound
<1> QED BY <1>1, WatchTypeCorrect, PagesStayInOrder, PTL

(* The general parser puts the date and the series of its own draw beside a *)
(* labelled result, whatever the entries before and behind have and         *)
(* wherever the next draw is announced (_parse_date, parse).                *)
THEOREM ResultsKeepTheirDates == WatchSpec => []ResultKeepsItsDate
<1>1. WatchTypeOK /\ PagesInOrder => ResultKeepsItsDate
  BY ReadingsAreSound DEF ResultKeepsItsDate, Sound
<1> QED BY <1>1, WatchTypeCorrect, PagesStayInOrder, PTL

(* Of the results that a page keeps the newest is read: by the general      *)
(* parser through all the days, by the others while no draw is announced    *)
(* without its result; and RisaraldaOfficialSourceFetcher never joins the   *)
(* number of a newer draw with a result, whatever is published between its  *)
(* two requests.                                                            *)
THEOREM NewestIsAlwaysRead == WatchSpec => []NewestIsRead
<1>1. WatchTypeOK /\ PagesInOrder => NewestIsRead
  BY ReadingsAreSound DEF NewestIsRead, Sound
<1> QED BY <1>1, WatchTypeCorrect, PagesStayInOrder, PTL
================================================================================
