---------------------------- MODULE DrawReadings ----------------------------
(***************************************************************************)
(* What is read out of the table of draws: the statistics of a lottery, the*)
(* overview of all of them, and the history a prediction rests on with the *)
(* numbers it may answer.                                                  *)
(*                                                                         *)
(* Each of them is one SELECT and then computation, so it is an operator   *)
(* over the committed table.  The table changes as DrawTable allows; what  *)
(* matters here is which lists of numbers get into it, past the normaliser *)
(* of the ingestion or the schemas of the REST interface.                  *)
(***************************************************************************)
EXTENDS Integers, Sequences, FiniteSetsExt, Functions

CONSTANTS
  None,
  RowIds,         \* primary keys, in the order the sequence hands them out
  Lotteries,
  DrawTypes,
  Dates,
  Sources,
  Lists,          \* lists of integers that sources and administrators send
  MaxNumber,      \* 9999
  MaxItems,       \* the most numbers a body of POST or PUT /draws may have
  MaxDraws,       \* the most draws an analysis takes
  Recent,         \* the draws a prediction looks at
  FourDigit,      \* the sources whose metadata says that a result has four digits
  Registered      \* the games of the lotteries whose code or name tells them

Series == Lotteries \X DrawTypes

Row == [series : Series, number : {None}, date : Dates, main : Lists \cup {None},
        source : Sources \cup {None}]

ASSUME ReadingsAssumption ==
  /\ RowIds \subseteq Nat /\ Dates \subseteq Nat /\ Lists \subseteq Seq(Int)
  /\ None \notin RowIds /\ None \notin Lists /\ None \notin Sources /\ None \notin Row
  /\ {MaxNumber, MaxItems, MaxDraws, Recent} \subseteq Nat \ {0}
  /\ FourDigit \subseteq Sources /\ DOMAIN Registered \subseteq Lotteries

VARIABLES lotteries, draws, used

readingsVars == <<lotteries, draws, used>>

Table == INSTANCE DrawTable WITH Rows <- Row
-----------------------------------------------------------------------------
(* What gets into the table *)

InRange(list) == \A k \in DOMAIN list : list[k] \in 1 .. MaxNumber

\* Mutant: the normaliser lets numbers repeat.
NormalisedLoosely(list) == list # <<>> /\ InRange(list)

\* What the normaliser lets through; the service stores it without the schema.
Normalised(list) == list # <<>> /\ InRange(list) /\ IsInjective(list)

\* What the schema of POST and PUT lets through.
Valid(list) == Len(list) \in 1 .. MaxItems /\ InRange(list) /\ IsInjective(list)

\* The rows whose numbers ingestion, and POST, may bring.
NormalisedRows == {r \in Row : r.main # None /\ Normalised(r.main)}
ValidRows == {r \in Row : r.main # None /\ Valid(r.main)}

Put(i, row) ==
  /\ draws' = [draws EXCEPT ![i] = row]
  /\ used' = used \cup {i}
  /\ UNCHANGED lotteries

\* Ingestion adds a draw, or reconciles the one that is there.
Ingest(i) == \E row \in NormalisedRows :
  /\ Put(i, row)
  /\ Table!Add(i) \/ (Table!Change(i) /\ row.series = draws[i].series)

Create(i) == \E row \in ValidRows : Put(i, row) /\ Table!Add(i)

\* A PUT may null the numbers: the column takes the JSON value null.
Update(i) ==
  /\ draws[i] # None
  /\ \E row \in Row :
       /\ row.main \in {None, draws[i].main} \/ row \in ValidRows
       /\ Put(i, row)
       /\ Table!Change(i)

Delete(i) ==
  /\ draws[i] # None
  /\ draws' = [draws EXCEPT ![i] = None]
  /\ UNCHANGED <<lotteries, used>>

DropLottery(l) ==
  /\ l \in lotteries
  /\ lotteries' = lotteries \ {l}
  /\ draws' = [i \in RowIds |-> IF draws[i] # None /\ draws[i].series[1] = l
                                THEN None ELSE draws[i]]
  /\ UNCHANGED used

ReadingsNext ==
  \/ \E i \in RowIds : Ingest(i) \/ Create(i) \/ Update(i) \/ Delete(i)
  \/ \E l \in Lotteries : DropLottery(l)

ReadingsSpec == Table!Init /\ [][ReadingsNext]_readingsVars
-----------------------------------------------------------------------------
(* Statistics *)

\* By date, then by id.
Before(i, j) ==
  draws[i].date < draws[j].date \/ (draws[i].date = draws[j].date /\ i < j)

Rows(l, source) ==
  {i \in RowIds : /\ draws[i] # None /\ draws[i].series[1] = l
                  /\ source = None \/ draws[i].source = source}

HasNumbers(i) == draws[i].main # None /\ draws[i].main # <<>>

\* How many of the rows come before i.
Place(i, rows) == Cardinality({j \in rows : Before(j, i)})

\* ORDER BY draw_date, id LIMIT n; Latest has them the other way round.
Earliest(n, rows) == {i \in rows : Place(i, rows) < n}
Latest(n, rows) == {i \in rows : Cardinality({j \in rows : Before(i, j)}) < n}

\* Mutant: exactly as many draws as an analysis takes.
LoadNoMore(l, source) == Earliest(MaxDraws, Rows(l, source))

\* One draw more than an analysis takes, to tell when there are too many.
Load(l, source) == Earliest(MaxDraws + 1, Rows(l, source))

\* The rows in their order.
Ordered(rows) ==
  [k \in 1 .. Cardinality(rows) |-> CHOOSE i \in rows : Place(i, rows) = k - 1]

Analysable(i) == HasNumbers(i) =>
  IsInjective(draws[i].main) /\ \A k \in DOMAIN draws[i].main : draws[i].main[k] > 0

Has(i, n) == n \in Range(draws[i].main)

NumbersIn(rows) == UNION {Range(draws[i].main) : i \in rows}

\* Where in the order number n was drawn.
Seen(n, ordered) == {k \in DOMAIN ordered : Has(ordered[k], n)}

\* Mutant: what an earlier draw said stays.
RecencyOfFirst(ordered) ==
  [n \in NumbersIn(Range(ordered)) |-> Len(ordered) - Min(Seen(n, ordered))]

\* The loop over the draws, in which later ones overwrite what earlier ones said.
Recency(ordered) ==
  [n \in NumbersIn(Range(ordered)) |-> Len(ordered) - Max(Seen(n, ordered))]

Frequency(ordered) ==
  [n \in NumbersIn(Range(ordered)) |-> Cardinality(Seen(n, ordered))]

Analysis(l, source) ==
  LET loaded == Load(l, source)
      ordered == Ordered({i \in loaded : HasNumbers(i)}) IN
  IF Cardinality(loaded) > MaxDraws THEN [status |-> "too large"]
  ELSE IF \E k \in DOMAIN ordered : ~Analysable(ordered[k]) THEN [status |-> "invalid"]
  ELSE [status |-> IF ordered = <<>> THEN "standby" ELSE "ready",
        analyzed |-> Len(ordered),
        frequency |-> Frequency(ordered),
        recency |-> Recency(ordered)]

\* How many draws could be analysed, whatever their lottery; None: too many.
Overview ==
  LET all == {i \in RowIds : draws[i] # None} IN
  IF Cardinality(all) > MaxDraws THEN None ELSE Cardinality({i \in all : HasNumbers(i)})
-----------------------------------------------------------------------------
(* Predictions *)

\* The newest draws, with and without numbers.
RecentDraws(l) == Latest(Recent, Rows(l, None))

History(l) == {i \in RecentDraws(l) : HasNumbers(i)}

Singles(rows) == Cardinality({i \in rows : HasNumbers(i) /\ Len(draws[i].main) = 1})

\* Mutant: the share is taken of all draws, those without numbers included.
SingleShareOfAll(l) == 5 * Singles(History(l)) >= 4 * Cardinality(RecentDraws(l))

\* Four fifths of the history have a single number.
SingleShare(l) == 5 * Singles(History(l)) >= 4 * Cardinality(History(l))

\* One draw that says so is enough, with or without numbers.
FourDigitHistory(l) ==
  \E i \in RecentDraws(l) : draws[i].source \in FourDigit

\* A result of one number: any four digits, 0000 included.
SingleResult == [count |-> 1, least |-> 0, most |-> MaxNumber]

FiveBalls == [count |-> 5, least |-> 1, most |-> 1000]

\* The game as the prompt and the validation of the reply have it.
Game(l) ==
  IF l \in DOMAIN Registered THEN Registered[l]
  ELSE IF FourDigitHistory(l) \/ SingleShare(l) THEN SingleResult ELSE FiveBalls

\* Whether validate_predictions takes these numbers for a ticket of the game.
Ticket(game, numbers) ==
  /\ Len(numbers) = game.count
  /\ \A k \in DOMAIN numbers : numbers[k] \in game.least .. game.most
  /\ IsInjective(numbers)

-----------------------------------------------------------------------------
(* Properties *)

Scopes == Lotteries \X (Sources \cup {None})

\* Nothing that the normaliser or the schemas let into the table, and no null
\* that a PUT puts there, makes the statistics fail.
StoredIsAnalysable == \A s \in Scopes : Analysis(s[1], s[2]).status # "invalid"

\* An analysis that answers has seen every draw of its scope that has numbers;
\* when there are more draws than it takes it says so.  The overview, when it
\* answers, is the sum of the analyses.
NothingLeftOut ==
  /\ \A s \in Scopes :
       LET analysis == Analysis(s[1], s[2])
           rows == {i \in Rows(s[1], s[2]) : HasNumbers(i)} IN
       /\ analysis.status = "too large" <=> Cardinality(Rows(s[1], s[2])) > MaxDraws
       /\ analysis.status \in {"ready", "standby"} =>
            /\ analysis.analyzed = Cardinality(rows)
            /\ \A n \in NumbersIn(rows) :
                 analysis.frequency[n] = Cardinality({i \in rows : Has(i, n)})
  /\ Overview # None =>
       /\ \A l \in Lotteries : Analysis(l, None).status # "too large"
       /\ Overview =
            Cardinality(UNION {{l} \X (1 .. Analysis(l, None).analyzed) : l \in Lotteries})

\* For every number, the draws since it was last seen are those of the scope,
\* with numbers, that come after every draw that has it, by date and then by id:
\* in whatever order they were stored, corrected or moved to another date.
RecencyIsExact ==
  \A s \in Scopes :
    LET analysis == Analysis(s[1], s[2])
        rows == {i \in Rows(s[1], s[2]) : HasNumbers(i)} IN
    analysis.status = "ready" =>
      analysis.recency =
        [n \in NumbersIn(rows) |->
           Cardinality({j \in rows : \A i \in rows : Has(i, n) => Before(i, j)})]

\* A game nobody registered is known by its history: when all its draws that
\* have numbers have a single one, each of them would be accepted as a prediction.
HistoryFitsGame ==
  \A l \in Lotteries :
    l \notin DOMAIN Registered /\ (\A i \in History(l) : Len(draws[i].main) = 1) =>
      \A i \in History(l) : Ticket(Game(l), draws[i].main)
=============================================================================
