------------------------------ MODULE DrawTable ------------------------------
(***************************************************************************)
(* What the table of draws promises to everybody who reads it, sessions    *)
(* left out: every committed change is atomic, is one of the changes below,*)
(* and leaves at most one draw per number and per date of a series, all of *)
(* them of existing lotteries.  DrawStore implements it.                   *)
(***************************************************************************)
CONSTANTS None, RowIds, Lotteries, Rows

VARIABLES lotteries, draws, used

table == <<lotteries, draws, used>>

SameDraw(r, q) ==
  /\ r.series = q.series
  /\ r.date = q.date \/ (r.number # None /\ r.number = q.number)

\* Row r can stand under id i: its lottery exists and no other row is that draw.
Fits(i, r) ==
  /\ r.series[1] \in lotteries
  /\ \A j \in RowIds \ {i} : draws[j] # None => ~SameDraw(r, draws[j])

Init ==
  /\ lotteries = Lotteries
  /\ draws = [i \in RowIds |-> None]
  /\ used = {}

\* Only id i changes, to a row that can stand there.
Stands(i) ==
  /\ draws' = [draws EXCEPT ![i] = draws'[i]]
  /\ draws'[i] \in Rows
  /\ Fits(i, draws'[i])

\* An id is used for one row only, also when the insertion fails.
Add(i) ==
  /\ i \notin used
  /\ used' = used \cup {i}
  /\ Stands(i) \/ UNCHANGED draws
  /\ UNCHANGED lotteries

Change(i) ==
  /\ draws[i] # None
  /\ Stands(i)
  /\ UNCHANGED <<lotteries, used>>

Delete(i) ==
  /\ draws' = [draws EXCEPT ![i] = None]
  /\ UNCHANGED <<lotteries, used>>

\* A dropped lottery takes all its draws along, and may take draws that were
\* moved out of it while it was being dropped.
DropLottery(l) ==
  /\ lotteries' = lotteries \ {l}
  /\ draws' = [i \in RowIds |-> draws'[i]]
  /\ \A i \in RowIds :
       \/ draws'[i] = None
       \/ draws'[i] = draws[i] /\ draws[i].series[1] # l
  /\ UNCHANGED used

Next ==
  \/ \E i \in RowIds : Add(i) \/ Change(i) \/ Delete(i)
  \/ \E l \in Lotteries : DropLottery(l)

Spec == Init /\ [][Next]_table
=============================================================================
