------------------------- MODULE ActaDiscoveryProofs -------------------------
(* What ActaDiscovery promises for every site and every limit of the search.  *)
EXTENDS ActaDiscovery, TLAPS

Searching == phase \in Probing \cup {"acta"}

\* The bounds stay above the draw the search started from.
BoundsInv ==
  /\ phase \in Probing => low > latest
  /\ phase \in Probing \ {"bisect"} => high > latest
  /\ phase = "first" => low = latest + 1 /\ step = 1
  /\ phase = "expand" => step < StepLimit

\* What the search holds has been probed, and is still acceptable.
BestInv ==
  /\ ~Searching \/ phase \in {"first", "expand", "limit", "again"} => best = 0
  /\ best # 0 => best > latest /\ Accepts(best)

\* Every link the scan keeps is of a draw that was due, or one a page named.
EvidenceInv ==
  /\ phase # "scan" => found = {}
  /\ phase = "scan" => upto <= expected + Window
  /\ \A l \in found : l.draw \in named \/ l.draw <= expected
  /\ latest \in named \/ latest <= expected

-----------------------------------------------------------------------------
(* The middle of two bounds lies between them.                             *)
LEMMA Middle ==
  ASSUME NEW l \in Nat, NEW h \in Nat, l <= h
  PROVE  (l + h) \div 2 \in Nat /\ l <= (l + h) \div 2 /\ (l + h) \div 2 <= h
OBVIOUS

(* No step leaves the types, or the bounds of the search.                  *)
LEMMA TypeStep ==
  ASSUME TypeOK, BoundsInv, [Next]_vars
  PROVE  (TypeOK /\ BoundsInv)'
<1> USE DEF TypeOK, BoundsInv, Probing, Ended, Phases, scan, start, bounds
<1>1. ASSUME Begin PROVE (TypeOK /\ BoundsInv)'
  BY <1>1 DEF Begin
<1>2. ASSUME NEW links \in Indexes, ReadIndex(links)
      PROVE  (TypeOK /\ BoundsInv)'
  BY <1>2, DiscoveryAssumption DEF ReadIndex, Choose, Newest, Link, Draws
<1>3. ASSUME PageFails PROVE (TypeOK /\ BoundsInv)'
  BY <1>3 DEF PageFails
<1>4. ASSUME ReadEmptyIndex PROVE (TypeOK /\ BoundsInv)'
  BY <1>4, DiscoveryAssumption DEF ReadEmptyIndex
<1>5. ASSUME NEW probeable \in BOOLEAN, ScanFinds(probeable)
      PROVE  (TypeOK /\ BoundsInv)'
  BY <1>5, DiscoveryAssumption DEF ScanFinds, Direct, Wrapped, IsPdf, Doc, Draws, Link
<1>6. ASSUME ScanMoves PROVE (TypeOK /\ BoundsInv)'
  BY <1>6, DiscoveryAssumption DEF ScanMoves
<1>7. ASSUME ScanChooses PROVE (TypeOK /\ BoundsInv)'
  BY <1>7, DiscoveryAssumption DEF ScanChooses, Choose, Newest, Link, Draws
<1>8. ASSUME ScanFindsNothing PROVE (TypeOK /\ BoundsInv)'
  BY <1>8 DEF ScanFindsNothing
<1>9. ASSUME ReadSecondary PROVE (TypeOK /\ BoundsInv)'
  BY <1>9 DEF ReadSecondary
<1>10. ASSUME NEW ok \in BOOLEAN, First(ok)
      PROVE  (TypeOK /\ BoundsInv)'
  BY <1>10, DiscoveryAssumption DEF First, Probe
<1>11. ASSUME NEW ok \in BOOLEAN, Expand(ok)
      PROVE  (TypeOK /\ BoundsInv)'
  BY <1>11, DiscoveryAssumption DEF Expand, Probe
<1>12. ASSUME NEW ok \in BOOLEAN, Limit(ok)
      PROVE  (TypeOK /\ BoundsInv)'
  BY <1>12, DiscoveryAssumption DEF Limit, Probe
<1>13. ASSUME NEW ok \in BOOLEAN, Again(ok)
      PROVE  (TypeOK /\ BoundsInv)'
  BY <1>13, DiscoveryAssumption DEF Again, Probe
<1>14. ASSUME NEW ok \in BOOLEAN, Bisect(ok)
      PROVE  (TypeOK /\ BoundsInv)'
  BY <1>14, Middle DEF Bisect, Probe
<1>15. ASSUME FetchActa PROVE (TypeOK /\ BoundsInv)'
  BY <1>15, DiscoveryAssumption DEF FetchActa, SearchOver, Target, Leave
<1>16. ASSUME FetchActaFails PROVE (TypeOK /\ BoundsInv)'
  BY <1>16, DiscoveryAssumption DEF FetchActaFails, SearchOver, Leave
<1>17. ASSUME NextWeek PROVE (TypeOK /\ BoundsInv)'
  <2>1. expected' \in Nat
    BY <1>17, DiscoveryAssumption DEF NextWeek
  <2>2. calm' = FALSE /\ UNCHANGED <<docs, phase, scan, named, start, bounds, best, got>>
    BY <1>17 DEF NextWeek
  <2>3. QED
    BY <2>1, <2>2
<1>18. ASSUME NEW n \in Late, Publish(n)
      PROVE  (TypeOK /\ BoundsInv)'
  BY <1>18, DiscoveryAssumption DEF Publish, Documents
<1>19. CASE UNCHANGED vars
  BY <1>19 DEF vars, scan, start, bounds
<1>20. QED
  BY <1>1, <1>2, <1>3, <1>4, <1>5, <1>6, <1>7, <1>8, <1>9, <1>10, <1>11, <1>12, <1>13, <1>14, <1>15, <1>16, <1>17, <1>18, <1>19 DEF Next, Fetching, Index, Scan, Search

LEMMA InitTyped == Init => TypeOK /\ BoundsInv
<1>1. ASSUME Init PROVE TypeOK
  <2>1. docs \in [Draws -> Documents] /\ expected \in Nat /\ step \in 1 .. 2 * StepLimit
    BY <1>1, DiscoveryAssumption DEF Init
  <2>2. phase \in Phases /\ phase # "scan" /\ found \subseteq Link /\ named \subseteq Draws
    BY <1>1 DEF Init, Ended, Phases
  <2>3. probes \in BOOLEAN /\ calm \in BOOLEAN
    BY <1>1 DEF Init
  <2>4. {latest, low, high, pos, upto, best, got} \subseteq Nat
    BY <1>1 DEF Init
  <2>5. QED
    BY <2>1, <2>2, <2>3, <2>4 DEF TypeOK
<1>2. ASSUME Init PROVE BoundsInv
  BY <1>2 DEF Init, BoundsInv, Probing
<1>3. QED
  BY <1>1, <1>2

(* The types hold always: no bound of the search becomes negative, and its *)
(* step never passes twice its limit.                                      *)
THEOREM TypeCorrect == Spec => []TypeOK
<1>1. TypeOK /\ BoundsInv /\ [Next]_vars => (TypeOK /\ BoundsInv)'
  BY TypeStep
<1>2. QED
  BY <1>1, InitTyped, PTL DEF Spec
-----------------------------------------------------------------------------
(* What a probe has accepted stays acceptable: documents only gain, and the*)
(* weeks pass.                                                             *)
LEMMA AcceptedStays ==
  ASSUME TypeOK, [Next]_vars, NEW n \in Nat, Accepts(n)
  PROVE  Accepts(n)'
<1> USE DEF Accepts, Doc, TypeOK
<1>1. CASE NextWeek
  BY <1>1, DiscoveryAssumption DEF NextWeek
<1>2. ASSUME NEW m \in Late, Publish(m) PROVE Accepts(n)'
  BY <1>2, DiscoveryAssumption DEF Publish
<1>3. CASE UNCHANGED <<docs, expected>>
  BY <1>3
<1>4. Next => NextWeek \/ (\E m \in Late : Publish(m)) \/ UNCHANGED <<docs, expected>>
  BY DEF Next, Begin, Fetching, Index, Scan, Search, ReadIndex, PageFails, ReadEmptyIndex,
         Choose, ScanFinds, ScanMoves, ScanChooses, ScanFindsNothing, ReadSecondary,
         First, Expand, Limit, Again, Bisect, Probe, FetchActa, FetchActaFails
<1>5. QED
  BY <1>1, <1>2, <1>3, <1>4 DEF vars

(* The newest draw a search holds is one a probe has accepted.             *)
LEMMA BestStep ==
  ASSUME TypeOK, BoundsInv, BestInv, NewerIsProbed, [Next]_vars
  PROVE  BestInv' /\ NewerIsProbed'
<1> USE DEF BestInv, NewerIsProbed, BoundsInv, Searching, Probing, Ended, scan, start, bounds
<1>1. ASSUME Begin
      PROVE  BestInv' /\ NewerIsProbed'
  BY <1>1, AcceptedStays DEF Begin, TypeOK
<1>2. ASSUME NEW links \in Indexes, ReadIndex(links)
      PROVE  BestInv' /\ NewerIsProbed'
  BY <1>2, AcceptedStays DEF ReadIndex, Choose, Newest, TypeOK
<1>3. ASSUME PageFails
      PROVE  BestInv' /\ NewerIsProbed'
  BY <1>3, AcceptedStays DEF PageFails, TypeOK
<1>4. ASSUME ReadEmptyIndex
      PROVE  BestInv' /\ NewerIsProbed'
  BY <1>4, AcceptedStays DEF ReadEmptyIndex, TypeOK
<1>5. ASSUME NEW probeable \in BOOLEAN, ScanFinds(probeable)
      PROVE  BestInv' /\ NewerIsProbed'
  BY <1>5, AcceptedStays DEF ScanFinds, Direct, Wrapped, IsPdf, TypeOK
<1>6. ASSUME ScanMoves
      PROVE  BestInv' /\ NewerIsProbed'
  BY <1>6, AcceptedStays DEF ScanMoves, TypeOK
<1>7. ASSUME ScanChooses
      PROVE  BestInv' /\ NewerIsProbed'
  BY <1>7, AcceptedStays DEF ScanChooses, Choose, Newest, TypeOK
<1>8. ASSUME ScanFindsNothing
      PROVE  BestInv' /\ NewerIsProbed'
  BY <1>8, AcceptedStays DEF ScanFindsNothing, TypeOK
<1>9. ASSUME ReadSecondary
      PROVE  BestInv' /\ NewerIsProbed'
  BY <1>9, AcceptedStays DEF ReadSecondary, TypeOK
<1>10. ASSUME NEW ok \in BOOLEAN, First(ok)
      PROVE  BestInv' /\ NewerIsProbed'
  BY <1>10, AcceptedStays DEF First, Probe, TypeOK
<1>11. ASSUME NEW ok \in BOOLEAN, Expand(ok)
      PROVE  BestInv' /\ NewerIsProbed'
  BY <1>11, AcceptedStays, DiscoveryAssumption DEF Expand, Probe, TypeOK
<1>12. ASSUME NEW ok \in BOOLEAN, Limit(ok)
      PROVE  BestInv' /\ NewerIsProbed'
  BY <1>12, AcceptedStays DEF Limit, Probe, TypeOK
<1>13. ASSUME NEW ok \in BOOLEAN, Again(ok)
      PROVE  BestInv' /\ NewerIsProbed'
  BY <1>13, AcceptedStays DEF Again, Probe, TypeOK
<1>14. ASSUME NEW ok \in BOOLEAN, Bisect(ok)
      PROVE  BestInv' /\ NewerIsProbed'
  BY <1>14, AcceptedStays, Middle DEF Bisect, Probe, TypeOK
<1>15. ASSUME FetchActa
      PROVE  BestInv' /\ NewerIsProbed'
  BY <1>15, AcceptedStays DEF FetchActa, SearchOver, Target, Leave, TypeOK
<1>16. ASSUME FetchActaFails
      PROVE  BestInv' /\ NewerIsProbed'
  BY <1>16, AcceptedStays DEF FetchActaFails, SearchOver, Leave, TypeOK
<1>17. ASSUME NextWeek
      PROVE  BestInv' /\ NewerIsProbed'
  BY <1>17, AcceptedStays DEF NextWeek, TypeOK
<1>18. ASSUME NEW n \in Late, Publish(n)
      PROVE  BestInv' /\ NewerIsProbed'
  BY <1>18, AcceptedStays DEF Publish, TypeOK
<1>19. CASE UNCHANGED vars
  BY <1>19 DEF vars, Accepts, Doc
<1>20. QED
  BY <1>1, <1>2, <1>3, <1>4, <1>5, <1>6, <1>7, <1>8, <1>9, <1>10, <1>11, <1>12, <1>13, <1>14, <1>15, <1>16, <1>17, <1>18, <1>19
  DEF Next, Fetching, Index, Scan, Search

(* Draws that were not due yet come from pages or from what a PDF says.    *)
LEMMA EvidenceStep ==
  ASSUME TypeOK, BestInv, EvidenceInv, FutureNeedsEvidence, [Next]_vars
  PROVE  EvidenceInv' /\ FutureNeedsEvidence'
<1> USE DEF EvidenceInv, FutureNeedsEvidence, Ended, Probing, scan, start, bounds
<1>1. ASSUME Begin
      PROVE  EvidenceInv' /\ FutureNeedsEvidence'
  BY <1>1 DEF Begin, TypeOK
<1>2. ASSUME NEW links \in Indexes, ReadIndex(links)
      PROVE  EvidenceInv' /\ FutureNeedsEvidence'
  BY <1>2 DEF ReadIndex, Choose, Newest, TypeOK, Link
<1>3. ASSUME PageFails
      PROVE  EvidenceInv' /\ FutureNeedsEvidence'
  BY <1>3 DEF PageFails, TypeOK
<1>4. ASSUME ReadEmptyIndex
      PROVE  EvidenceInv' /\ FutureNeedsEvidence'
  BY <1>4, DiscoveryAssumption DEF ReadEmptyIndex, TypeOK
<1>5. ASSUME NEW probeable \in BOOLEAN, ScanFinds(probeable)
      PROVE  EvidenceInv' /\ FutureNeedsEvidence'
  BY <1>5, DiscoveryAssumption DEF ScanFinds, Direct, Wrapped, IsPdf, TypeOK, Link, Draws
<1>6. ASSUME ScanMoves
      PROVE  EvidenceInv' /\ FutureNeedsEvidence'
  BY <1>6 DEF ScanMoves, TypeOK
<1>7. ASSUME ScanChooses
      PROVE  EvidenceInv' /\ FutureNeedsEvidence'
  BY <1>7 DEF ScanChooses, Choose, Newest, TypeOK, Link
<1>8. ASSUME ScanFindsNothing
      PROVE  EvidenceInv' /\ FutureNeedsEvidence'
  BY <1>8 DEF ScanFindsNothing, TypeOK
<1>9. ASSUME ReadSecondary
      PROVE  EvidenceInv' /\ FutureNeedsEvidence'
  BY <1>9 DEF ReadSecondary, TypeOK
<1>10. ASSUME NEW ok \in BOOLEAN, First(ok)
      PROVE  EvidenceInv' /\ FutureNeedsEvidence'
  BY <1>10 DEF First, Probe, TypeOK
<1>11. ASSUME NEW ok \in BOOLEAN, Expand(ok)
      PROVE  EvidenceInv' /\ FutureNeedsEvidence'
  BY <1>11 DEF Expand, Probe, TypeOK
<1>12. ASSUME NEW ok \in BOOLEAN, Limit(ok)
      PROVE  EvidenceInv' /\ FutureNeedsEvidence'
  BY <1>12 DEF Limit, Probe, TypeOK
<1>13. ASSUME NEW ok \in BOOLEAN, Again(ok)
      PROVE  EvidenceInv' /\ FutureNeedsEvidence'
  BY <1>13 DEF Again, Probe, TypeOK
<1>14. ASSUME NEW ok \in BOOLEAN, Bisect(ok)
      PROVE  EvidenceInv' /\ FutureNeedsEvidence'
  BY <1>14 DEF Bisect, Probe, TypeOK
<1>15. ASSUME FetchActa
      PROVE  EvidenceInv' /\ FutureNeedsEvidence'
  <2>1. UNCHANGED <<docs, expected, named, latest>> /\ got' = Target
    BY <1>15 DEF FetchActa
  <2>2. EvidenceInv'
    BY <1>15, <2>1 DEF FetchActa, SearchOver
  <2>3. CASE best = 0
    BY <2>1, <2>2, <2>3 DEF Target, TypeOK
  <2>4. CASE best # 0
    <3>1. Doc(got)' = Doc(best)
      BY <2>1, <2>4 DEF Target, Doc
    <3>2. Doc(best) = "marked" \/ best <= expected
      BY <2>4 DEF BestInv, Accepts
    <3>3. QED
      BY <2>1, <2>2, <2>4, <3>1, <3>2 DEF Target, TypeOK
  <2>5. QED
    BY <2>2, <2>3, <2>4
<1>16. ASSUME FetchActaFails
      PROVE  EvidenceInv' /\ FutureNeedsEvidence'
  BY <1>16 DEF FetchActaFails, SearchOver, Leave, TypeOK
<1>17. ASSUME NextWeek
      PROVE  EvidenceInv' /\ FutureNeedsEvidence'
  BY <1>17, DiscoveryAssumption DEF NextWeek, TypeOK, Link, Draws, Doc
<1>18. ASSUME NEW n \in Late, Publish(n)
      PROVE  EvidenceInv' /\ FutureNeedsEvidence'
  BY <1>18, DiscoveryAssumption DEF Publish, TypeOK, Doc
<1>19. CASE UNCHANGED vars
  BY <1>19 DEF vars, Doc
<1>20. QED
  BY <1>1, <1>2, <1>3, <1>4, <1>5, <1>6, <1>7, <1>8, <1>9, <1>10, <1>11, <1>12, <1>13, <1>14, <1>15, <1>16, <1>17, <1>18, <1>19
  DEF Next, Fetching, Index, Scan, Search

Inv == TypeOK /\ BoundsInv /\ BestInv /\ NewerIsProbed /\ EvidenceInv /\ FutureNeedsEvidence

LEMMA InvHolds == Spec => []Inv
<1>1. Init => Inv
  <2>1. ASSUME Init PROVE BestInv /\ NewerIsProbed /\ EvidenceInv /\ FutureNeedsEvidence
    BY <2>1, DiscoveryAssumption
    DEF Init, BestInv, NewerIsProbed, EvidenceInv, FutureNeedsEvidence, Searching, Probing
  <2>2. QED
    BY <2>1, InitTyped DEF Inv
<1>2. Inv /\ [Next]_vars => Inv'
  BY TypeStep, BestStep, EvidenceStep DEF Inv
<1>3. QED
  BY <1>1, <1>2, PTL DEF Spec

(* Whatever fails, is published or falls due while it searches, a fetch    *)
(* ends with the acta it started from or a newer one that a probe accepts. *)
THEOREM NewerActasAreProbed == Spec => []NewerIsProbed
BY InvHolds, PTL DEF Inv

(* A placeholder of a draw that is not due is never taken for an acta.     *)
THEOREM FutureActasAreEvident == Spec => []FutureNeedsEvidence
BY InvHolds, PTL DEF Inv

-----------------------------------------------------------------------------
(* The course of a search that nothing disturbs                            *)

\* Where an undisturbed search is when the newer actas are the next n draws.
At(n) ==
  /\ phase \in {"expand", "limit", "again"} => low = latest + step /\ step <= n
  /\ phase = "limit" => step >= StepLimit
  /\ phase = "again" => high = latest + 2 * step /\ n < 2 * step /\ step < StepLimit
  /\ phase = "bisect" =>
       /\ best <= latest + n /\ latest + n <= high
       /\ high < latest + 2 * StepLimit
       /\ (best = low /\ low <= high) \/ (best = low - 1 /\ low <= high + 1)
  /\ phase = "acta" =>
       Target = latest + n \/ (n > StepLimit /\ Target >= latest + StepLimit)

Undisturbed == calm /\ probes /\ latest < expected

SearchInv == Undisturbed => \A n \in 0 .. 2 * StepLimit : Newer(n) => At(n)

(* In an undisturbed search a probe answers what the newer actas are.       *)
LEMMA SteadyProbe ==
  ASSUME Inv, SearchInv, NEW k \in Nat, NEW ok \in BOOLEAN, Probe(k, ok),
         Undisturbed', NEW n \in 0 .. 2 * StepLimit, Newer(n)'
  PROVE  /\ At(n)
         /\ latest' = latest /\ latest \in Nat
         /\ k \in latest + 1 .. latest + 2 * StepLimit => (ok <=> k <= latest + n)
<1>1. UNCHANGED <<docs, expected, latest, probes>> /\ calm /\ (ok <=> Accepts(k))
  BY DEF Probe, Undisturbed, start
<1>2. Undisturbed
  BY <1>1 DEF Undisturbed
<1>3. Newer(n)
  BY <1>1 DEF Newer, Accepts, Doc
<1>4. QED
  BY <1>1, <1>2, <1>3 DEF SearchInv, Newer, Inv, TypeOK

LEMMA SearchStep ==
  ASSUME Inv, SearchInv, FindsNewest, [Next]_vars
  PROVE  SearchInv' /\ FindsNewest'
<1> USE DiscoveryAssumption
<1>1. ASSUME NEW links, Choose(links) PROVE SearchInv' /\ FindsNewest'
  BY <1>1 DEF Choose, SearchInv, FindsNewest, Undisturbed, At
<1>2. ASSUME NEW ok \in BOOLEAN, First(ok) PROVE SearchInv' /\ FindsNewest'
  <2>1. SUFFICES ASSUME Undisturbed', NEW n \in 0 .. 2 * StepLimit, Newer(n)'
                 PROVE  At(n)'
    BY <1>2 DEF SearchInv, FindsNewest, First
  <2>2. Probe(latest + 1, ok) /\ latest + 1 \in Nat
    BY <1>2 DEF First, Inv, TypeOK
  <2>3. latest' = latest /\ latest \in Nat /\ (ok <=> 1 <= n)
    BY <2>1, <2>2, SteadyProbe
  <2>4. phase = "first" /\ low = latest + 1 /\ step = 1 /\ best = 0
    BY <1>2 DEF First, Inv, BoundsInv, BestInv
  <2>5. QED
    BY <1>2, <2>3, <2>4 DEF First, At, bounds, Target
<1>3. ASSUME NEW ok \in BOOLEAN, Expand(ok) PROVE SearchInv' /\ FindsNewest'
  <2>1. SUFFICES ASSUME Undisturbed', NEW n \in 0 .. 2 * StepLimit, Newer(n)'
                 PROVE  At(n)'
    BY <1>3 DEF SearchInv, FindsNewest, Expand
  <2>2. phase = "expand" /\ step \in Nat /\ step >= 1 /\ step < StepLimit
    BY <1>3 DEF Expand, Inv, BoundsInv, TypeOK
  <2>3. Probe(latest + 2 * step, ok) /\ latest + 2 * step \in Nat
    BY <1>3, <2>2 DEF Expand, Inv, TypeOK
  <2>4. At(n) /\ latest' = latest /\ latest \in Nat /\ (ok <=> 2 * step <= n)
    BY <2>1, <2>2, <2>3, SteadyProbe
  <2>5. QED
    BY <1>3, <2>2, <2>4 DEF Expand, At
<1>4. ASSUME NEW ok \in BOOLEAN, Limit(ok) PROVE SearchInv' /\ FindsNewest'
  <2>1. SUFFICES ASSUME Undisturbed', NEW n \in 0 .. 2 * StepLimit, Newer(n)'
                 PROVE  At(n)'
    BY <1>4 DEF SearchInv, FindsNewest, Limit
  <2>2. phase = "limit" /\ step \in Nat /\ low \in Nat /\ low > latest
    BY <1>4 DEF Limit, Inv, BoundsInv, Probing, TypeOK
  <2>3. Probe(low, ok)
    BY <1>4 DEF Limit
  <2>4. /\ At(n) /\ latest' = latest /\ latest \in Nat
        /\ low \in latest + 1 .. latest + 2 * StepLimit => (ok <=> low <= latest + n)
    BY <2>1, <2>2, <2>3, SteadyProbe
  <2>5. low = latest + step /\ step <= n /\ step >= StepLimit /\ ok
    BY <2>2, <2>4 DEF At
  <2>6. QED
    BY <1>4, <2>2, <2>4, <2>5 DEF Limit, At, Target
<1>5. ASSUME NEW ok \in BOOLEAN, Again(ok) PROVE SearchInv' /\ FindsNewest'
  <2>1. SUFFICES ASSUME Undisturbed', NEW n \in 0 .. 2 * StepLimit, Newer(n)'
                 PROVE  At(n)'
    BY <1>5 DEF SearchInv, FindsNewest, Again
  <2>2. phase = "again" /\ step \in Nat /\ step >= 1 /\ low \in Nat /\ low > latest
    BY <1>5 DEF Again, Inv, BoundsInv, Probing, TypeOK
  <2>3. Probe(low, ok)
    BY <1>5 DEF Again
  <2>4. /\ At(n) /\ latest' = latest /\ latest \in Nat
        /\ low \in latest + 1 .. latest + 2 * StepLimit => (ok <=> low <= latest + n)
    BY <2>1, <2>2, <2>3, SteadyProbe
  <2>5. /\ low = latest + step /\ step <= n /\ step < StepLimit /\ ok
        /\ high = latest + 2 * step /\ n < 2 * step
    BY <2>2, <2>4 DEF At
  <2>6. QED
    BY <1>5, <2>2, <2>4, <2>5 DEF Again, At
<1>6. ASSUME NEW ok \in BOOLEAN, Bisect(ok) PROVE SearchInv' /\ FindsNewest'
  <2> DEFINE mid == (low + high) \div 2
  <2>1. SUFFICES ASSUME Undisturbed', NEW n \in 0 .. 2 * StepLimit, Newer(n)'
                 PROVE  At(n)'
    BY <1>6 DEF SearchInv, FindsNewest, Bisect
  <2>2. phase = "bisect" /\ low \in Nat /\ high \in Nat /\ low <= high /\ low > latest /\ best \in Nat
    BY <1>6 DEF Bisect, Inv, BoundsInv, Probing, TypeOK
  <2>3. Probe(mid, ok) /\ mid \in Nat /\ low <= mid /\ mid <= high
    BY <1>6, <2>2, Middle DEF Bisect
  <2>4. /\ At(n) /\ latest' = latest /\ latest \in Nat
        /\ mid \in latest + 1 .. latest + 2 * StepLimit => (ok <=> mid <= latest + n)
    <3> HIDE DEF mid
    <3> QED
      BY <2>1, <2>2, <2>3, SteadyProbe
  <2>5. /\ best' = IF ok THEN mid ELSE best
        /\ low' = IF ok THEN mid + 1 ELSE low
        /\ high' = IF ok THEN high ELSE mid - 1
        /\ phase' = "bisect"
    BY <1>6, <2>2 DEF Bisect
  <2> HIDE DEF mid
  <2>6. /\ best <= latest + n /\ latest + n <= high /\ high < latest + 2 * StepLimit
        /\ (best = low /\ low <= high) \/ (best = low - 1 /\ low <= high + 1)
    BY <2>2, <2>4 DEF At
  <2>7. ok <=> mid <= latest + n
    BY <2>2, <2>3, <2>4, <2>6
  <2>8. QED
    BY <2>2, <2>3, <2>4, <2>5, <2>6, <2>7 DEF At
<1>7. CASE FetchActa
  <2>1. SUFFICES ASSUME Undisturbed', NEW n \in 0 .. 2 * StepLimit, Newer(n)'
                 PROVE  got' = latest' + n \/ (n > StepLimit /\ got' >= latest' + StepLimit)
    BY <1>7 DEF SearchInv, FindsNewest, FetchActa, Undisturbed, At
  <2>2. UNCHANGED <<docs, expected, latest, probes, calm>> /\ got' = Target /\ SearchOver
    BY <1>7 DEF FetchActa, start
  <2>3. Undisturbed /\ Newer(n)
    BY <2>1, <2>2 DEF Undisturbed, Newer, Accepts, Doc
  <2>4. At(n)
    BY <2>3 DEF SearchInv
  <2>5. CASE phase = "acta"
    BY <2>2, <2>4, <2>5 DEF At
  <2>6. CASE phase = "bisect" /\ low > high
    BY <2>2, <2>4, <2>6 DEF At, Target, Inv, TypeOK, BoundsInv, Probing
  <2>7. QED
    BY <2>2, <2>5, <2>6 DEF SearchOver
<1>8. CASE NextWeek \/ (\E n \in Late : Publish(n))
  BY <1>8 DEF NextWeek, Publish, SearchInv, FindsNewest, Undisturbed
<1>9. CASE UNCHANGED vars
  BY <1>9 DEF vars, scan, start, bounds, SearchInv, FindsNewest, Undisturbed, At, Newer,
              Accepts, Doc, Target
<1>10. ASSUME phase' \in {"index", "scan", "secondary", "elsewhere", "failed"}
       PROVE  SearchInv' /\ FindsNewest'
  BY <1>10 DEF SearchInv, FindsNewest, At
<1>11. QED
  <2>1. ASSUME NEW links \in Indexes, ReadIndex(links) PROVE SearchInv' /\ FindsNewest'
    BY <2>1, <1>1 DEF ReadIndex
  <2>2. CASE ScanChooses
    BY <2>2, <1>1 DEF ScanChooses
  <2>3. CASE FetchActaFails
    BY <2>3, <1>10 DEF FetchActaFails
  <2>4. CASE Begin \/ PageFails \/ ReadEmptyIndex
    <3>1. phase' \in {"index", "failed", "scan"}
      BY <2>4 DEF Begin, PageFails, ReadEmptyIndex
    <3>2. QED
      BY <3>1, <1>10
  <2>5. ASSUME NEW probeable \in BOOLEAN, ScanFinds(probeable)
        PROVE  SearchInv' /\ FindsNewest'
    <3>1. phase' = "scan"
      BY <2>5 DEF ScanFinds
    <3>2. QED
      BY <3>1, <1>10
  <2>6. CASE ScanMoves \/ ScanFindsNothing \/ ReadSecondary
    <3>1. phase' \in {"scan", "secondary", "elsewhere"}
      BY <2>6 DEF ScanMoves, ScanFindsNothing, ReadSecondary
    <3>2. QED
      BY <3>1, <1>10
  <2>7. QED
    BY <2>1, <2>2, <2>3, <2>4, <2>5, <2>6, <1>2, <1>3, <1>4, <1>5, <1>6, <1>7, <1>8, <1>9
    DEF Next, Fetching, Index, Scan, Search

(* However the site looks and however far the search may go: when nothing   *)
(* disturbs it and the newer actas have no holes, it ends with the newest,  *)
(* or beyond its limit.                                                     *)
THEOREM NewestIsFound == Spec => []FindsNewest
<1>1. Init => SearchInv /\ FindsNewest
  BY DEF Init, SearchInv, Undisturbed, FindsNewest
<1>2. Inv /\ SearchInv /\ FindsNewest /\ [Next]_vars => (SearchInv /\ FindsNewest)'
  BY SearchStep
<1>3. QED
  BY <1>1, <1>2, InvHolds, PTL DEF Spec
=============================================================================
