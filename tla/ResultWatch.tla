------------------------------ MODULE ResultWatch ------------------------------
(***************************************************************************)
(* The page of one source through the days of its calendar: draws are      *)
(* announced, held and published, old ones disappear, and a job may fetch  *)
(* the page at any moment of that.                                         *)
(***************************************************************************)
EXTENDS CalendarClock, ResultPage

CONSTANT
  Sites   \* per code of a schedule that is watched, how its page is laid out

\* The texts of an entry, in reading order.
Template == Seq([label : Labels])

\* games: the draw types, in page order.  full, pending: what an entry has
\* once, and before, its result is out.  notice: where the draw to come stands.
\* oldest_first: the page goes up in time.  keep: how many results of a game it has.
Site ==
  [games : Seq(STRING) \ {<<>>}, full : Template, pending : Template,
   notice : {"first", "last", "nowhere"}, oldest_first : BOOLEAN, keep : Nat \ {0}]

ASSUME SiteAssumption == \A c \in DOMAIN Sites : Sites[c] \in Site /\ ReaderOf(c) \in Readers

(* What the parsers take for granted of the pages they are written for.    *)

\* A result and nothing of any other draw.
OneResult(s) == s.keep = 1 /\ s.notice = "nowhere"

\* The first entry of a game has its newest result.
NewestFirst(s) == s.keep = 1 \/ ~ s.oldest_first

\* Behind the first part of a pattern an entry has the others.
Followed(texts, parts) == \A i \in Where(texts, parts[1]) : Fits(texts, Follow(texts, i, parts))

\* From the text at i of an entry to the text at j of the entry behind it.
Across(texts, i, behind, j) == Start(texts, Len(texts) + 1) - Start(texts, i) + Start(behind, j)

\* A result has its own text with a label in reach, and nearer than any that an
\* entry before or behind it has.
KeepsNear(s, label) ==
  \A i \in Where(s.full, DOMAIN Weight) : \E own \in Where(s.full, {label}) :
    LET near == Distance(s.full, i, own)
    IN  /\ near <= Reach
        /\ OneResult(s) \/ \A other \in {s.full, s.pending} : \A j \in Where(other, {label}) :
             near < Across(s.full, i, other, j) /\ near < Across(other, j, s.full, i)

LaidOut(c) ==
  LET s == Sites[c]
      reader == ReaderOf(c)
  IN  /\ reader \in {"result_page", "acta_pdf", "baloto", "santander_open_data", "miloto"} => Len(s.games) = 1
      /\ reader \in {"acta_pdf", "baloto"} \/ c = "LOTERIA_RISARALDA" => OneResult(s)
      /\ reader \in {"miloto", "astro", "paga_todo"} \/ c = "LOTERIA_MANIZALES" => NewestFirst(s)
      /\ reader = "result_page" =>
           /\ Where(s.pending, DOMAIN Weight) = {}
           /\ KeepsNear(s, "fecha")
           /\ KeepsNear(s, "serie") \/ Where(s.full, {"serie"}) \cup Where(s.pending, {"serie"}) = {}
      /\ c = "LOTERIA_CAUCA" => Where(s.full, CaucaLine[1]) # {} /\ Followed(s.full, CaucaLine)
      /\ c = "LOTERIA_MANIZALES" =>
           /\ Where(s.full, {"sorteo"}) # {} /\ Where(s.pending, {"sorteo"}) = {}
           /\ \A i \in Where(s.full, {"sorteo"}) :
                /\ i + 1 \in Where(s.full, {"fecha"})
                /\ Fits(s.full, Follow(s.full, i + 2, <<{"premio_mayor"}, {"serie"}>>))
      /\ reader = "acta_pdf" =>
           \A i \in Where(s.full, {"sorteo", "proximo"}), j \in Where(s.full, {"premio_mayor"}) : i < j
      /\ reader = "miloto" =>
           /\ Where(s.full, {"sorteo", "proximo"}) # {}
           /\ \E i \in Where(s.full, {"cifras"}) : i - 1 \in Where(s.full, {"fecha"})
      /\ reader = "astro" => Shows([shows |-> s.full], {"cifras", "sorteo", "fecha"})
      /\ reader = "santander_open_data" => Shows([shows |-> s.full], {"premio_mayor", "sorteo"})
      /\ reader = "boletin" =>
           \A texts \in {s.full, s.pending} : texts # <<>> => texts[1].label = "titulo"
      /\ reader = "paga_todo" => Followed(s.full, GameLine)

ASSUME LayoutAssumption == \A c \in DOMAIN Sites : LaidOut(c)

VARIABLES
  page,     \* per game the days whose result it has, latest first, and the day announced
  primary   \* the first page of Risaralda, if it is fetched: <<the counter it has or Nothing>>

watch == <<page, primary>>
watchVars == <<vars, watch>>

code == schedule.code
Watched == code \in DOMAIN Sites
site == Sites[code]
Games == IF Watched THEN site.games ELSE <<>>

ShownDays == Nat \cup {Nothing}

Shown == [past : Seq(Nat), next : ShownDays]

WatchTypeOK ==
  /\ TypeOK
  /\ page \in [DOMAIN Games -> Shown]
  /\ primary \in Seq(ShownDays)

WatchInit ==
  /\ Init
  /\ page = [g \in DOMAIN Games |-> [past |-> <<>>, next |-> Nothing]]
  /\ primary = <<>>
-----------------------------------------------------------------------------
(* The operator of the lottery                                             *)

DrawDay(day) == WeekdayOf(day) \in schedule.weekdays

\* The draw of a day has been held: its time has come, or its day has passed.
Held(day) ==
  /\ DrawDay(day)
  /\ \/ day < DayOf(now)
     \/ day = DayOf(now) /\ Evaluate(schedule, now, holidays) # "NOT_PUBLISHED"

Newer(g, day) == \A i \in DOMAIN page[g].past : page[g].past[i] < day

Announce(g) ==
  /\ site.notice # "nowhere"
  /\ page[g].next = Nothing
  /\ \E day \in DayOf(now) .. DayOf(now) + 1 :
       /\ DrawDay(day) /\ Newer(g, day)
       /\ page' = [page EXCEPT ![g].next = day]
  /\ UNCHANGED <<vars, primary>>

\* A result replaces the notice of its draw, and the oldest result if the page is full.
Publish(g, day) ==
  /\ Held(day) /\ Newer(g, day)
  /\ page' = [page EXCEPT ![g] =
       [past |-> SubSeq(<<day>> \o @.past, 1, Min({site.keep, Len(@.past) + 1})),
        next |-> IF @.next # Nothing /\ @.next <= day THEN Nothing ELSE @.next]]
  /\ UNCHANGED <<vars, primary>>

-----------------------------------------------------------------------------
(* RisaraldaOfficialSourceFetcher                                          *)

TwoPages == Watched /\ code = "LOTERIA_RISARALDA"

Counter == IF page[1].past = <<>> THEN Nothing ELSE page[1].past[1]

\* The institutional page has the number of the last draw whose result is out,
\* unless it answers with a shell without any text.
FetchPrimary ==
  /\ TwoPages /\ primary = <<>>
  /\ primary' \in {<<Counter>>, <<Nothing>>}
  /\ UNCHANGED <<vars, page>>

\* The consultation is read as well, or one of the requests fails.
FetchEnds ==
  /\ primary # <<>>
  /\ primary' = <<>>
  /\ UNCHANGED <<vars, page>>

Pass == Tick /\ UNCHANGED watch

WatchNext ==
  \/ Pass
  \/ \E g \in DOMAIN Games : Announce(g) \/ \E day \in 0 .. DayOf(now) : Publish(g, day)
  \/ FetchPrimary
  \/ FetchEnds

WatchSpec == WatchInit /\ [][WatchNext]_watchVars
-----------------------------------------------------------------------------
(* What a fetch would find and its parser read, at this moment             *)

DrawAt(g, day) == [game |-> Games[g], day |-> day]

Entry(g, day, shows) == [of |-> DrawAt(g, day), shows |-> shows]

\* The rows of a game, in page order.
Rows(g) ==
  LET results == [i \in DOMAIN page[g].past |-> Entry(g, page[g].past[i], site.full)]
      notice == IF page[g].next = Nothing THEN <<>> ELSE <<Entry(g, page[g].next, site.pending)>>
      ordered == IF site.oldest_first THEN Reverse(results) ELSE results
  IN  IF site.notice = "first" THEN notice \o ordered ELSE ordered \o notice

Texts(entry) == [i \in DOMAIN entry.shows |-> [label |-> entry.shows[i].label, of |-> entry.of]]

Tables == [g \in DOMAIN Games |-> Rows(g)]

Body == LET rows == FlattenSeq(Tables)
        IN  FlattenSeq([i \in DOMAIN rows |-> Texts(rows[i])])

\* The two pages of Risaralda are joined, the one that was read first in front.
Document ==
  IF TwoPages /\ primary # <<Nothing>>
  THEN <<[label |-> "jugados", of |-> DrawAt(1, primary[1])]>> \o Body
  ELSE Body

\* The draws of Risaralda are a week apart.
Expected == DrawAt(1, (DayOf(now) \div WeekLength) * WeekLength)

Readings ==
  IF ~ Watched \/ (TwoPages /\ primary = <<>>) THEN {}
  ELSE Reading(code, Games, Tables, Document, Expected, DayOf(now))
-----------------------------------------------------------------------------
\* A record that says one thing: its number, its date and its series are of the
\* draw of its game whose result it has.
OneDraw(record) ==
  /\ record.label \notin {"sorteo", "proximo"}
  /\ record.result.game = record.game
  /\ record.result.day = record.date
  /\ {record.number, record.series} \subseteq {Nothing, record.result}

\* Every game has a result and no draw is announced without one.
Settled == \A g \in DOMAIN page : page[g].past # <<>> /\ page[g].next = Nothing

\* Readers that stay within the entry, row or part that a record is of, and
\* those of them that take every entry of the page.
Bounded == {"boletin", "table", "json", "santander_open_data", "acta_pdf"}
Lists == {"boletin", "table", "json"}

\* What TraditionalLotteryHtmlParser puts together by distance.
Near == {"labelled", "unlabelled", "composite", "inferred"}

(* What a parser takes from rows, from the parts of the boletin or from an  *)
(* acta is of one draw, with whatever the page has of the draws before and  *)
(* of the one to come; what a pattern takes that runs from text to text is  *)
(* of one draw while no draw is announced without its result.               *)
BlocksDoNotMix ==
  \A record \in Readings :
    record.via \notin Near /\ (ReaderOf(code) \in Bounded \/ Settled) => OneDraw(record)

(* The date and the series that the general parser puts beside a labelled  *)
(* result are those of its draw, although it looks for each of them by its *)
(* distance alone and the entries before and behind have their own.        *)
ResultKeepsItsDate ==
  \A record \in Readings :
    record.via = "labelled" =>
      /\ record.date = record.result.day
      /\ record.series \in {Nothing, record.result}

(* A page shows old results as well, some of them above the newest: a      *)
(* record has the newest result of its game that the page has, under the   *)
(* same conditions.  The number of Risaralda, which is read before its     *)
(* result is, is never newer than that.                                    *)
NewestIsRead ==
  \A record \in Readings :
    /\ record.via # "unlabelled" /\ ReaderOf(code) \notin Lists /\ (record.via \in Near \/ Settled) =>
         \E g \in DOMAIN page :
           Games[g] = record.game /\ record.result = DrawAt(g, page[g].past[1])
    /\ record.via = "composite" => record.number.day <= record.result.day

(* What tests/test_traditional_current_result_selection.py:242 says of a    *)
(* page with several entries: number, date, result and series of a record   *)
(* belong together.                                                         *)
OneDrawPerRecord == \A record \in Readings : OneDraw(record)
=============================================================================
