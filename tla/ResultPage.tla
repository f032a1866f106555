------------------------------ MODULE ResultPage ------------------------------
(***************************************************************************)
(* What the parsers of app/sources take from the page of an operator.      *)
(* A document is a sequence of texts.  A text has a label, which is the    *)
(* kind of pattern that recognises it, and the draw it is about, which no  *)
(* parser sees: a parser has the order of the texts and their distances.   *)
(* A reading is a set of records; the empty set is a SourceParseError.     *)
(***************************************************************************)
EXTENDS Integers, Sequences, FiniteSets, FiniteSetsExt, SequencesExt

CONSTANTS
  Width,         \* the characters that a text takes
  Reach,         \* 600: how far a date or a series may be from its result
  Window,        \* 900: how far the part of a game goes in the boletin
  ActaWindow,    \* 300: how far the acta is read behind "premio mayor"
  MaxStaleness,  \* MAX_STALENESS_DAYS
  Nothing

\* The kinds of text: the name of a game, the number of a draw, the number of
\* the next draw, "2968 + sorteos jugados", a date, four digits with one of
\* three labels or with none, and a series or additional value.
Labels == {"titulo", "sorteo", "proximo", "jugados", "fecha",
           "premio_mayor", "resultado", "numero", "cifras", "serie"}

Draw == [game : STRING, day : Nat]

ASSUME PageAssumption ==
  /\ Width \in [Labels -> Nat \ {0}]
  /\ {Reach, Window, ActaWindow, MaxStaleness} \subseteq Nat
  /\ Nothing \notin Draw

Where(doc, labels) == {i \in DOMAIN doc : doc[i].label \in labels}

\* Where the text at i begins: behind all those before it.
Start(doc, i) ==
  LET end[j \in 0 .. Len(doc)] == IF j = 0 THEN 0 ELSE end[j - 1] + Width[doc[j].label]
  IN  end[i - 1]

Apart(a, b) == IF a < b THEN b - a ELSE a - b

Distance(doc, i, j) == Apart(Start(doc, i), Start(doc, j))

InReach(doc, i, js) == {j \in js : Distance(doc, i, j) <= Reach}

ClosestTo(doc, i, js) == {j \in js : \A k \in js : Distance(doc, i, j) <= Distance(doc, i, k)}

NearestDraw(doc, i, js) == IF js = {} THEN Nothing ELSE doc[Min(ClosestTo(doc, i, js))].of

\* date, unlike the other parts, is what the page says and not of what draw:
\* two games may have a draw on one day.
Record(game, number, date, result, series, via) ==
  [game |-> game, number |-> number, date |-> date, result |-> result.of,
   label |-> result.label, series |-> series, via |-> via]

-----------------------------------------------------------------------------
(* TraditionalLotteryHtmlParser                                            *)

Weight == [label \in {"premio_mayor", "resultado", "numero"} |->
             CASE label = "premio_mayor" -> 90 [] label = "resultado" -> 70 [] label = "numero" -> 60]

DaysAt(doc, js) == {doc[j].of.day : j \in js}

Days(doc) == DaysAt(doc, Where(doc, {"fecha"}))

\* Mutant: the latest date of the page, wherever it is.
DateLatest(doc, i, today) ==
  LET past == {d \in Days(doc) : d <= today} IN IF past # {} THEN Max(past) ELSE Min(Days(doc))

\* Of the dates of a pool that are near, the nearest; when none is near, the
\* nearest of all if they are to come, and else the latest.
DayFrom(doc, i, pool, nearby, today) ==
  IF nearby # {} THEN Max(DaysAt(doc, ClosestTo(doc, i, nearby)))
  ELSE IF \A day \in DaysAt(doc, pool) : day > today
  THEN Min(DaysAt(doc, ClosestTo(doc, i, pool)))
  ELSE Max(DaysAt(doc, pool))

\* _parse_date: dates after today only if there is no other.
DateNear(doc, i, today) ==
  LET dates == Where(doc, {"fecha"})
      past == {j \in dates : doc[j].of.day <= today}
      pool == IF past # {} THEN past ELSE dates
  IN  DayFrom(doc, i, pool, InReach(doc, i, pool), today)

\* With no reference date any date will do.
DateOf(doc, i) == DateNear(doc, i, Max(Days(doc)))

\* Mutant: the label decides before the date.
MeritOfLabel(doc, i, today) == <<Weight[doc[i].label], -i>>

\* The keys a labelled result is chosen by, the first one first; near are the
\* dates in reach of it.
MeritOf(doc, i, today, day, near) ==
  <<IF day <= today THEN 1 ELSE 0, day, Weight[doc[i].label],
    IF near = {} THEN 0 ELSE -Distance(doc, i, Min(near)), -i>>

Merit(doc, i, today) ==
  MeritOf(doc, i, today, DateOf(doc, i), InReach(doc, i, Where(doc, {"fecha"})))

Above(a, b) == \E n \in DOMAIN a : a[n] > b[n] /\ \A m \in 1 .. n - 1 : a[m] = b[m]

Best(doc, today) ==
  LET labelled == Where(doc, DOMAIN Weight)
  IN  CHOOSE i \in labelled : \A j \in labelled \ {i} : Above(Merit(doc, i, today), Merit(doc, j, today))

\* Four digits that a page has without the label of a result: the numbers of
\* its draws are among them.
Digits(doc) == Where(doc, DOMAIN Weight \cup {"sorteo", "proximo", "cifras"})

Unlabelled(doc) ==
  LET numbers == Where(doc, {"numero"}) IN Min(IF numbers # {} THEN numbers ELSE Digits(doc))

\* LOTERIA_BOYACA prefers the headers that say "resultado sorteo".
DrawHeaders(doc, code) ==
  LET own == Where(doc, {"sorteo"})
  IN  IF code = "LOTERIA_BOYACA" /\ own # {} THEN own ELSE Where(doc, {"sorteo", "proximo"})

\* The number and the series that are nearest to a result.
RecordAt(doc, code, game, anchor, date, via) ==
  Record(game, NearestDraw(doc, anchor, DrawHeaders(doc, code)), date, doc[anchor],
         NearestDraw(doc, anchor, InReach(doc, anchor, Where(doc, {"serie"}))), via)

Labelled(doc, code, game, anchor) ==
  RecordAt(doc, code, game, anchor, DateOf(doc, anchor), "labelled")

Plain(doc, code, game, anchor, today) ==
  RecordAt(doc, code, game, anchor, DateNear(doc, anchor, today), "unlabelled")

Html(doc, code, game, today) ==
  IF Days(doc) = {} \/ Digits(doc) = {} THEN {}
  ELSE IF Where(doc, DOMAIN Weight) # {} THEN {Labelled(doc, code, game, Best(doc, today))}
  ELSE {Plain(doc, code, game, Unlabelled(doc), today)}

\* A pattern whose parts are joined by lazy gaps: where its parts are found,
\* each of them at its first text behind the part before, or behind the end.
Follow(doc, from, parts) ==
  LET at[n \in 0 .. Len(parts)] ==
        IF n = 0 THEN from - 1
        ELSE LET next == {j \in Where(doc, parts[n]) : j > at[n - 1]}
             IN  IF next = {} THEN Len(doc) + 1 ELSE Min(next)
  IN  [n \in 1 .. Len(parts) |-> at[n]]

Fits(doc, at) == \A n \in DOMAIN at : at[n] <= Len(doc)

\* finditer: each match begins behind the one before.
Matches(doc, parts) ==
  LET from[i \in 1 .. Len(doc) + 1] ==
        LET at == Follow(doc, i, parts)
        IN  IF Fits(doc, at) THEN {at} \cup from[at[Len(parts)] + 1] ELSE {}
  IN  from[1]

CaucaLine == <<{"sorteo", "proximo"}, {"fecha"}, {"premio_mayor"}, {"serie"}>>

Cauca(doc, code, game, today) ==
  LET lines == Matches(doc, CaucaLine)
      valid == {at \in lines : doc[at[2]].of.day <= today}
      SortKey(at) == <<doc[at[2]].of.day, doc[at[1]].of.day>>
      line == CHOOSE at \in valid : \A b \in valid : ~ Above(SortKey(b), SortKey(at))
  IN  IF lines = {} THEN Html(doc, code, game, today)
      ELSE IF valid = {} THEN {}
      ELSE {Record(game, doc[line[1]].of, doc[line[2]].of.day, doc[line[3]], doc[line[4]].of, "block")}

\* "4974 resultados 23 de septiembre de 2026 ... premio mayor": such a number
\* is no header for the general patterns.
Manizales(doc, code, game, today) ==
  LET headers == {i \in Where(doc, {"sorteo"}) : i + 1 \in Where(doc, {"fecha"})}
      head == Min(headers)
      at == Follow(doc, head + 2, <<{"premio_mayor"}, {"serie"}>>)
      cut == \E j \in Where(doc, {"proximo"}) : at[1] < j /\ j < at[2]
      plain == [i \in DOMAIN doc |-> IF i \in headers THEN [doc[i] EXCEPT !.label = "cifras"] ELSE doc[i]]
  IN  IF headers = {} THEN Html(doc, code, game, today)
      ELSE IF at[1] > Len(doc) THEN Html(plain, code, game, today)
      ELSE IF ~ Fits(doc, at) \/ cut \/ doc[head + 1].of.day > today THEN {}
      ELSE {Record(game, doc[head].of, doc[head + 1].of.day, doc[at[1]], doc[at[2]].of, "block")}

\* The dates of Risaralda follow from the numbers of its draws.  A page without
\* any number is of the draw that should have been the last one.
Risaralda(doc, code, game, expected, today) ==
  LET counters == Where(doc, {"jugados"})
      majors == Where(doc, {"premio_mayor"})
      series == InReach(doc, Min(majors), Where(doc, {"serie"}))
      headers == DrawHeaders(doc, code)
  IN  IF counters # {}
      THEN IF majors = {} THEN {} ELSE IF series = {} THEN {}
           ELSE LET counter == doc[Min(counters)].of
                IN  {Record(game, counter, counter.day, doc[Min(majors)],
                            NearestDraw(doc, Min(majors), series), "composite")}
      ELSE IF Where(doc, DOMAIN Weight) = {} THEN {}
      ELSE IF headers = {}
      THEN {[r EXCEPT !.number = expected, !.date = expected.day, !.via = "inferred"] :
              r \in Html(doc, code, game, today)}
      ELSE IF Days(doc) = {}
      THEN LET r == RecordAt(doc, code, game, Unlabelled(doc), expected.day, "unlabelled")
           IN  {[r EXCEPT !.date = r.number.day]}
      ELSE Html(doc, code, game, today)

-----------------------------------------------------------------------------
(* Pages of several draws or games                                         *)

\* CundinamarcaActaPdfParser: the first number, date and "premio mayor", and
\* of the characters behind that the last four digits, with what comes next.
Acta(doc, game) ==
  LET First(label) == Min(Where(doc, {label}))
      near == {j \in DOMAIN doc :
                 j >= First("premio_mayor") /\ Start(doc, j) - Start(doc, First("premio_mayor")) <= ActaWindow}
      result == Max(near \cap (Digits(doc) \cup Where(doc, {"fecha"})))
      series == {j \in near \cap Where(doc, {"serie"}) : j > result}
  IN  IF \E label \in {"sorteo", "fecha", "premio_mayor"} : Where(doc, {label}) = {} THEN {}
      ELSE IF series = {} THEN {}
      ELSE {Record(game, doc[First("sorteo")].of, doc[First("fecha")].of.day, doc[result],
                   doc[Min(series)].of, "first")}

\* BalotoResultPageParser: the balls stand behind the first date.
Baloto(doc, game) ==
  LET number == Where(doc, {"sorteo", "proximo"})
      at == Follow(doc, 1, <<{"fecha"}, {"cifras"}>>)
  IN  IF number = {} \/ ~ Fits(doc, at) THEN {}
      ELSE {Record(game, doc[Min(number)].of, doc[at[1]].of.day, doc[at[2]], Nothing, "first")}

\* The result of MiLoto is what directly follows some date.
MiLoto(doc, game) ==
  LET number == Where(doc, {"sorteo", "proximo"})
      results == {i \in Where(doc, {"cifras"}) : i - 1 \in Where(doc, {"fecha"})}
  IN  IF number = {} \/ results = {} THEN {}
      ELSE {Record(game, doc[Min(number)].of, doc[Min(Where(doc, {"fecha"}))].of.day,
                   doc[Min(results)], Nothing, "first")}

Titles(doc, game) == {i \in Where(doc, {"titulo"}) : doc[i].of.game = game}

GameLine == <<{"titulo"}, {"fecha"}, {"cifras"}>>

\* All the games of the page, or none of them.
PagaTodo(doc, games) ==
  LET Line(g) == Follow(doc, Min(Titles(doc, g)), GameLine)
  IN  IF \E g \in games : Titles(doc, g) = {} THEN {}
      ELSE IF \E g \in games : ~ Fits(doc, Line(g)) THEN {}
      ELSE {Record(g, Nothing, doc[Line(g)[2]].of.day, doc[Line(g)[3]], Nothing, "game") : g \in games}

\* Mutant: a part of the boletin ends nowhere but at its greatest length.
PartUnbounded(doc, t) ==
  {j \in DOMAIN doc : j > t /\ Start(doc, j + 1) <= Start(doc, t) + Window}

\* AntioquenitaHtmlParser: what stands between the name of a game and the next.
Part(doc, t) ==
  {j \in DOMAIN doc :
     /\ j > t
     /\ \A k \in Where(doc, {"titulo"}) : k > t => j < k
     /\ Start(doc, j + 1) <= Start(doc, t) + Window}

Boletin(doc) ==
  LET Found(t, labels) == Part(doc, t) \cap Where(doc, labels)
      Whole(t) == \A labels \in {{"sorteo", "proximo"}, {"fecha"}, {"resultado", "numero"}} : Found(t, labels) # {}
      First(t, labels) == doc[Min(Found(t, labels))]
  IN  {Record(doc[t].of.game, First(t, {"sorteo", "proximo"}).of, First(t, {"fecha"}).of.day,
              First(t, {"resultado", "numero"}), Nothing, "game") :
         t \in {u \in Where(doc, {"titulo"}) : Whole(u)}}

-----------------------------------------------------------------------------
(* Tables and JSON: a row has its cells, which are texts, and is of a draw *)

Shows(row, labels) == \A label \in labels : Where(row.shows, {label}) # {}

RowRecord(game, row, label, number, series, via) ==
  Record(game, IF number THEN row.of ELSE Nothing, row.of.day,
         [label |-> label, of |-> row.of], IF series THEN row.of ELSE Nothing, via)

\* SuperAstroResultPageParser: the first good row of the table of the game,
\* else the row of the whole page that has the game's place.
Astro(tables, games, k) ==
  LET Good(rows) == {i \in DOMAIN rows : Shows(rows[i], {"cifras", "sorteo", "fecha"})}
      flat == FlattenSeq(tables)
      own == Good(tables[k])
      inPlace == {i \in Good(flat) : Cardinality({j \in Good(flat) : j <= i}) = k}
      Of(row) == RowRecord(games[k], row, "cifras", TRUE, TRUE, "row")
  IN  IF own # {} THEN {Of(tables[k][Min(own)])} ELSE {Of(flat[i]) : i \in inPlace}

\* HtmlTableParser with HtmlProviderParserAdapter: rows that lack a cell are
\* passed over, a row of another game refuses the page.
Table(rows, games) ==
  LET good == {row \in rows : Shows(row, {"titulo", "fecha", "cifras"})}
  IN  IF \E row \in good : row.of.game \notin games THEN {}
      ELSE {RowRecord(row.of.game, row, "cifras", FALSE, FALSE, "row") : row \in good}

\* ProviderParserAdapter with parse_four_digit_record: one row that lacks a
\* field, or is of another game, refuses the page.
Json(rows, games) ==
  IF \A row \in rows : Shows(row, {"titulo", "sorteo", "fecha", "resultado"}) /\ row.of.game \in games
  THEN {RowRecord(row.of.game, row, "resultado", TRUE, FALSE, "row") : row \in rows} ELSE {}

\* SantanderOpenDataParser: the greatest number, if it is whole and not stale.
Santander(rows, game, today) ==
  LET mayor == {row \in rows : Shows(row, {"premio_mayor"})}
      numbered == {row \in mayor : Shows(row, {"sorteo"})}
      row == CHOOSE r \in numbered : \A q \in numbered : r.of.day >= q.of.day
  IN  IF numbered = {} THEN {}
      ELSE IF ~ Shows(row, {"serie", "fecha"}) \/ today - row.of.day > MaxStaleness THEN {}
      ELSE {RowRecord(game, row, "premio_mayor", TRUE, TRUE, "row")}

-----------------------------------------------------------------------------
(* Which parser reads the page of which source                             *)

TraditionalCodes ==
  {"LOTERIA_CUNDINAMARCA", "LOTERIA_TOLIMA", "LOTERIA_CRUZ_ROJA", "LOTERIA_HUILA",
   "LOTERIA_MANIZALES", "LOTERIA_VALLE", "LOTERIA_META", "LOTERIA_BOGOTA", "LOTERIA_QUINDIO",
   "LOTERIA_MEDELLIN", "LOTERIA_SANTANDER", "LOTERIA_RISARALDA", "LOTERIA_BOYACA", "LOTERIA_CAUCA"}

\* build_traditional_lottery_components with the profiles.
ParserKey(code) ==
  CASE code = "LOTERIA_CUNDINAMARCA" -> "acta_pdf"
    [] code = "LOTERIA_SANTANDER" -> "santander_open_data"
    [] OTHER -> "result_page"

Readers == {"result_page", "acta_pdf", "santander_open_data", "miloto", "baloto", "astro",
            "boletin", "paga_todo", "table", "json"}

\* build_ingestion_catalog; CHONTICO_HTML is its job chontico-html-primary.
ReaderOf(code) ==
  CASE code \in TraditionalCodes -> ParserKey(code)
    [] code = "MILOTO" -> "miloto"
    [] code \in {"BALOTO", "REVANCHA"} -> "baloto"
    [] code = "SUPER_ASTRO" -> "astro"
    [] code = "ANTIOQUENITA" -> "boletin"
    [] code = "DORADO" -> "paga_todo"
    [] code = "CHONTICO_HTML" -> "table"
    [] code \in {"CHONTICO", "CAFETERITO", "PAISITA", "FANTASTICA"} -> "json"

TraditionalHtml(doc, code, game, expected, today) ==
  CASE code = "LOTERIA_CAUCA" -> Cauca(doc, code, game, today)
    [] code = "LOTERIA_MANIZALES" -> Manizales(doc, code, game, today)
    [] code = "LOTERIA_RISARALDA" -> Risaralda(doc, code, game, expected, today)
    [] OTHER -> Html(doc, code, game, today)

\* The adapters take the draw types of their source only, and one record that
\* is refused refuses the page.
Normalised(records, games) == IF \A r \in records : r.game \in games THEN records ELSE {}

\* What the pipelines of a source make of its page: tables has the rows of each
\* of the games, doc their texts in reading order.
Reading(code, games, tables, doc, expected, today) ==
  LET reader == ReaderOf(code)
      all == ToSet(games)
      rows == ToSet(FlattenSeq(tables))
      parsed ==
        CASE reader = "result_page" -> TraditionalHtml(doc, code, games[1], expected, today)
          [] reader = "acta_pdf" -> Acta(doc, games[1])
          [] reader = "baloto" -> Baloto(doc, games[1])
          [] reader = "santander_open_data" -> Santander(rows, games[1], today)
          [] reader = "miloto" -> MiLoto(doc, games[1])
          [] reader = "astro" -> UNION {Astro(tables, games, k) : k \in DOMAIN games}
          [] reader = "boletin" -> Boletin(doc)
          [] reader = "paga_todo" -> PagaTodo(doc, all)
          [] reader = "table" -> Table(rows, all)
          [] reader = "json" -> Json(rows, all)
  IN  Normalised(parsed, all)
=============================================================================
