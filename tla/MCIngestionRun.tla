---------------------------- MODULE MCIngestionRun ----------------------------
(***************************************************************************)
(* IngestionRun for TLC: one worker of lottery lot1, and a REST session.   *)
(***************************************************************************)
EXTENDS IngestionRun, TLC

CONSTANTS s1, s2, i1, i2, lot1, lot2, ordinary, n1, n2, d1, d2, m1, m2,
          operator

series1 == <<lot1, ordinary>>
series2 == <<lot2, ordinary>>

Result(series, n, d, m) ==
  [series |-> series, number |-> n, date |-> d, main |-> m, extra |-> None,
   meta |-> None, source |-> operator, verified |-> TRUE]

\* The operator first publishes draw n1 under the wrong date, then corrects it
\* and publishes draw n2 of that date.
Early == Result(series1, n1, d2, m1)
Corrected == Result(series1, n1, d1, m1)
Later == Result(series1, n2, d2, m2)
Elsewhere == Result(series2, n1, d1, m1)

\* Its page without draw numbers.
Unnumbered(d) == Result(series1, None, d, m1)

AllBatches ==
  {<<Early>>, <<Corrected, Later>>, <<Later, Elsewhere>>,
   <<Unnumbered(d2), Unnumbered(d1)>>, <<>>}

BatchRecords ==
  {Early, Corrected, Later, Elsewhere, Unnumbered(d1), Unnumbered(d2)}

Lottery1 == [p \in Workers |-> lot1]

NoRows == {}
NoHosts == {}

\* An administrator renumbers a draw.
Renumbering == {[number |-> n2]}

\* Row ids are handed out in any order.
Symmetry == Permutations({i1, i2})
=============================================================================
