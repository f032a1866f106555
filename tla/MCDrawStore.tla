----------------------------- MODULE MCDrawStore -----------------------------
(***************************************************************************)
(* Instances of DrawStore for TLC.  One series is enough for every identity*)
(* question, since both constraints are relative to a series; a second     *)
(* lottery is there to move a draw to.                                     *)
(***************************************************************************)
EXTENDS DrawStore, Naturals, TLC

CONSTANTS s1, s2, i1, i2, lot1, lot2, ordinary, n1, n2, d1, d2, m1, m2, e1, k1,
          operator, renamed, mirror

series1 == <<lot1, ordinary>>
series2 == <<lot2, ordinary>>

Published(n, d, m, e, k, src, v) ==
  [series |-> series1, number |-> n, date |-> d, main |-> m, extra |-> e,
   meta |-> k, source |-> src, verified |-> v]

\* What the verified operator publishes: a result, its correction, a page
\* without the draw number, and, after its site was renamed, one that moves the
\* draw to another date.
OperatorRecords ==
  {Published(n1, d1, m1, None, None, operator, TRUE),
   Published(n1, d1, m2, None, None, operator, TRUE),
   Published(None, d1, m1, e1, None, operator, TRUE),
   Published(n1, d2, m2, None, None, renamed, TRUE)}

OneHost == {<<operator, renamed>>, <<renamed, operator>>}

\* What an unverified mirror publishes: the result with a detail of its own, and
\* the result under another number.
MirrorRecords ==
  {Published(n1, d1, m1, None, k1, mirror, None),
   Published(n2, d1, m1, None, None, mirror, FALSE)}

AllRecords == OperatorRecords \cup MirrorRecords

\* An administrator enters a draw by hand, without provenance.
ManualRows == {Published(n2, d1, m1, None, None, None, None)}

\* PUT bodies: re-identify, clear the number, move to the other lottery, null
\* the date.
RacingPatches == {[number |-> n2, date |-> d2]}

ManualPatches ==
  RacingPatches \cup {[number |-> None, main |-> m2], [series |-> series2], [date |-> None]}

\* What two sessions do at the same time: a result, its correction and the
\* mirror's copy of the result under another number, against a PUT that
\* re-identifies the draw, and deletions.
RacingRecords ==
  {Published(n1, d1, m1, None, None, operator, TRUE),
   Published(n1, d1, m2, None, None, operator, TRUE),
   Published(n2, d1, m1, None, None, mirror, FALSE)}

RacingRows ==
  RacingRecords \cup {[r EXCEPT !.number = n2, !.date = d2] : r \in RacingRecords}

Alone == Cardinality({s \in Sessions : pc[s] # "idle"}) <= 1

Racing ==
  /\ lot2 \in lotteries
  /\ \A s \in Sessions :
       /\ req[s].record \in RacingRecords \cup {None}
       /\ req[s].patch \in RacingPatches \cup {None}
       /\ req[s].lottery # lot2
  /\ \A i \in RowIds : draws[i] # None =>
       draws[i] \in RacingRows

\* The bound of the run: any requests one after the other, or those at once.
AloneOrRacing == Alone \/ Racing

Symmetry == Permutations({i1, i2}) \cup Permutations({s1, s2})
=============================================================================
