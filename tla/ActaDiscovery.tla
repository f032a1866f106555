---------------------------- MODULE ActaDiscovery ----------------------------
(***************************************************************************)
(* CundinamarcaActaSourceFetcher: which acta (a PDF per draw) is the latest*)
(* one the operator has published.                                         *)
(*                                                                         *)
(* The index page names some actas; if it names none, the URLs of the draws*)
(* around the one that is expected this week are tried one after the other.*)
(* From the latest acta found that way on, the URLs of newer draws are     *)
(* probed: twice as far each time until one fails, then by bisection.      *)
(* Every request is a step: the site publishes, a week ends or a request   *)
(* fails in between.                                                       *)
(***************************************************************************)
EXTENDS Integers

CONSTANTS
  LastDraw,    \* bound: the site has no documents beyond this draw
  Anchor,      \* the verified draw of the schedule anchor
  Window,      \* draws tried on either side of the expected one
  StepLimit,   \* the expansion stops when its step is no longer below this
  ThisYear,    \* the year of the links that the scan makes up
  Sites,       \* documents the site may have at first
  Late,        \* bound: draws whose document may still change
  Indexes      \* sets of links the index page may show

Draws == 1 .. LastDraw

\* What the URL of a draw's acta serves: nothing, a page with links, a PDF
\* whose text names the draw, or a PDF without such text: a scanned acta or a
\* placeholder.
Documents == {"nothing", "page", "marked", "bare"}

\* year is 0 when the URL has none; probeable says that the URL is absolute and
\* its path ends in the number of the draw.
Link == [year : Nat, draw : Draws, probeable : BOOLEAN]

ASSUME DiscoveryAssumption ==
  /\ LastDraw \in Nat
  /\ Anchor \in Nat \ {0}
  /\ Window \in Nat
  /\ StepLimit \in Nat /\ StepLimit > 1
  /\ ThisYear \in Nat
  /\ Sites \subseteq [Draws -> Documents]
  /\ Late \subseteq Draws
  /\ \A links \in Indexes : links \subseteq Link

VARIABLES
  docs,      \* the site
  expected,  \* the draw of this week, as today's date has it
  phase,
  pos, upto, \* where the scan is, and where it ends
  found,     \* links the scan has found
  named,     \* draws that pages of the site have named to this fetch
  latest,    \* the draw the search starts from
  probes,    \* its URL tells those of newer draws
  low, high, \* bounds of the search
  step,
  best,      \* the newest draw probed so far, 0 for none
  got,       \* the draw of the acta that was fetched
  calm       \* since the search began no request failed, nothing changed

scan == <<pos, upto, found>>
start == <<latest, probes>>
bounds == <<low, high, step>>
vars == <<docs, expected, phase, scan, named, start, bounds, best, got, calm>>

Probing == {"first", "expand", "limit", "again", "bisect"}
Ended == {"idle", "done", "elsewhere", "failed"}
Phases == Ended \cup Probing \cup {"index", "scan", "secondary", "acta"}

\* Also: the scan tries no draw below the verified one, and the step of the
\* expansion stays below twice its limit.
TypeOK ==
  /\ docs \in [Draws -> Documents]
  /\ expected \in Nat
  /\ phase \in Phases
  /\ pos \in Nat /\ upto \in Nat /\ (phase = "scan" => pos >= Anchor)
  /\ found \subseteq Link
  /\ named \subseteq Draws
  /\ latest \in Nat /\ low \in Nat /\ high \in Nat
  /\ step \in 1 .. 2 * StepLimit
  /\ best \in Nat /\ got \in Nat
  /\ probes \in BOOLEAN /\ calm \in BOOLEAN

Init ==
  /\ docs \in Sites
  /\ expected = Anchor
  /\ phase = "idle"
  /\ pos = 0 /\ upto = 0 /\ found = {} /\ named = {}
  /\ latest = 0 /\ low = 0 /\ high = 0 /\ step = 1 /\ best = 0
  /\ got = 0
  /\ probes = FALSE /\ calm = FALSE
-----------------------------------------------------------------------------
(* The site *)

Doc(n) == IF n \in Draws THEN docs[n] ELSE "nothing"

IsPdf(n) == Doc(n) \in {"marked", "bare"}

\* What probe makes of a document it gets.
Accepts(n) == Doc(n) = "marked" \/ (Doc(n) = "bare" /\ n <= expected)

Publish(n) ==
  /\ docs[n] # "marked"
  /\ \E d \in {"marked", "bare"} \ {docs[n]} : docs' = [docs EXCEPT ![n] = d]
  /\ calm' = FALSE
  /\ UNCHANGED <<expected, phase, scan, named, start, bounds, best, got>>

NextWeek ==
  /\ expected < LastDraw
  /\ expected' = expected + 1
  /\ calm' = FALSE
  /\ UNCHANGED <<docs, phase, scan, named, start, bounds, best, got>>
-----------------------------------------------------------------------------
(* The index page *)

Begin ==
  /\ phase \in Ended
  /\ phase' = "index"
  /\ got' = 0 /\ latest' = 0 /\ probes' = FALSE /\ named' = {}
  /\ UNCHANGED <<docs, expected, scan, bounds, best, calm>>

\* The links with the greatest year and draw; which of them is up to their URLs.
Newest(links) ==
  {l \in links : \A k \in links :
     k.year < l.year \/ (k.year = l.year /\ k.draw <= l.draw)}

\* The acta to start from; whether newer ones are looked for at all.
Choose(links) ==
  \E l \in Newest(links) :
    /\ latest' = l.draw /\ probes' = l.probeable
    /\ low' = l.draw + 1 /\ high' = l.draw + 1 /\ step' = 1
    /\ phase' = IF l.probeable /\ l.draw < expected THEN "first" ELSE "acta"
    /\ calm' = TRUE
    /\ pos' = 0 /\ upto' = 0 /\ found' = {}
    /\ UNCHANGED <<docs, expected, best, got>>

ReadIndex(links) ==
  /\ phase = "index"
  /\ links # {}
  /\ Choose(links)
  /\ named' = {l.draw : l \in links}

\* The index or the secondary page fails, or is not HTML.
PageFails ==
  /\ phase \in {"index", "secondary"}
  /\ phase' = "failed"
  /\ UNCHANGED <<docs, expected, scan, named, start, bounds, best, got, calm>>

ReadEmptyIndex ==
  /\ phase = "index"
  /\ phase' = "scan"
  /\ pos' = IF expected - Window > Anchor THEN expected - Window ELSE Anchor
  /\ upto' = expected + Window
  /\ found' = {}
  /\ UNCHANGED <<docs, expected, named, start, bounds, best, got, calm>>
-----------------------------------------------------------------------------
(* The scan of the draws around the expected one *)

\* Mutant: placeholders of future draws are taken for actas.
DirectAnyPdf(n) == IF IsPdf(n) THEN {n} ELSE {}

\* A PDF counts up to the draw that was expected when the scan began.
Direct(n) == IF IsPdf(n) /\ n <= upto - Window THEN {n} ELSE {}

\* A page leads to any acta it links to.
Wrapped(n) == IF Doc(n) = "page" THEN {m \in Draws : IsPdf(m)} ELSE {}

ScanFinds(probeable) ==
  /\ phase = "scan"
  /\ pos <= upto
  /\ \E m \in Direct(pos) \cup Wrapped(pos) :
       /\ found' = found \cup {[year |-> ThisYear, draw |-> m, probeable |-> probeable]}
       /\ named' = IF m \in Wrapped(pos) THEN named \cup {m} ELSE named
  /\ UNCHANGED <<docs, expected, phase, pos, upto, start, bounds, best, got, calm>>

\* The URLs of the draw are done, or have failed.
ScanMoves ==
  /\ phase = "scan"
  /\ pos <= upto
  /\ pos' = pos + 1
  /\ UNCHANGED <<docs, expected, phase, upto, found, named, start, bounds, best, got, calm>>

ScanChooses ==
  /\ phase = "scan"
  /\ pos > upto
  /\ Choose(found)
  /\ UNCHANGED named

ScanFindsNothing ==
  /\ phase = "scan"
  /\ pos > upto
  /\ found = {}
  /\ phase' = "secondary"
  /\ pos' = 0 /\ upto' = 0
  /\ UNCHANGED <<docs, expected, found, named, start, bounds, best, got, calm>>

\* The results page of another site stands in for the acta.
ReadSecondary ==
  /\ phase = "secondary"
  /\ phase' = "elsewhere"
  /\ UNCHANGED <<docs, expected, scan, named, start, bounds, best, got, calm>>
-----------------------------------------------------------------------------
(* The search for newer actas *)

\* A probe says yes only to what it accepts; when the request fails it says no.
Probe(n, ok) ==
  /\ ok => Accepts(n)
  /\ calm' = (calm /\ (ok <=> Accepts(n)))
  /\ UNCHANGED <<docs, expected, scan, named, start, got>>

First(ok) ==
  /\ phase = "first"
  /\ Probe(latest + 1, ok)
  /\ phase' = IF ok THEN "expand" ELSE "acta"
  /\ UNCHANGED <<bounds, best>>

\* Mutant: the draw that failed becomes the lower bound.
ExpandPast(ok) ==
  LET candidate == latest + 2 * step IN
  /\ phase = "expand"
  /\ Probe(candidate, ok)
  /\ high' = candidate
  /\ low' = candidate
  /\ step' = IF ok THEN 2 * step ELSE step
  /\ phase' = IF ~ok THEN "again"
              ELSE IF 2 * step < StepLimit THEN "expand" ELSE "limit"
  /\ UNCHANGED best

Expand(ok) ==
  LET candidate == latest + 2 * step IN
  /\ phase = "expand"
  /\ Probe(candidate, ok)
  /\ high' = candidate
  /\ low' = IF ok THEN candidate ELSE low
  /\ step' = IF ok THEN 2 * step ELSE step
  /\ phase' = IF ~ok THEN "again"
              ELSE IF 2 * step < StepLimit THEN "expand" ELSE "limit"
  /\ UNCHANGED best

\* The expansion never failed: it is over with the draw it reached.
Limit(ok) ==
  /\ phase = "limit"
  /\ Probe(low, ok)
  /\ best' = IF ok THEN low ELSE 0
  /\ phase' = "acta"
  /\ UNCHANGED bounds

\* The bisection starts with another probe of the draw the expansion reached.
Again(ok) ==
  /\ phase = "again"
  /\ Probe(low, ok)
  /\ best' = IF ok THEN low ELSE 0
  /\ high' = high - 1
  /\ phase' = "bisect"
  /\ UNCHANGED <<low, step>>

\* Mutant: the upper bound stays at the middle.
BisectInPlace(ok) ==
  LET mid == (low + high) \div 2 IN
  /\ phase = "bisect" /\ low <= high
  /\ Probe(mid, ok)
  /\ best' = IF ok THEN mid ELSE best
  /\ low' = IF ok THEN mid + 1 ELSE low
  /\ high' = IF ok THEN high ELSE mid
  /\ UNCHANGED <<phase, step>>

\* Mutant: the draw counts whatever the probe says.
BisectUnasked(ok) ==
  LET mid == (low + high) \div 2 IN
  /\ phase = "bisect" /\ low <= high
  /\ Probe(mid, ok)
  /\ best' = mid
  /\ low' = IF ok THEN mid + 1 ELSE low
  /\ high' = IF ok THEN high ELSE mid - 1
  /\ UNCHANGED <<phase, step>>

Bisect(ok) ==
  LET mid == (low + high) \div 2 IN
  /\ phase = "bisect" /\ low <= high
  /\ Probe(mid, ok)
  /\ best' = IF ok THEN mid ELSE best
  /\ low' = IF ok THEN mid + 1 ELSE low
  /\ high' = IF ok THEN high ELSE mid - 1
  /\ UNCHANGED <<phase, step>>
-----------------------------------------------------------------------------
(* The acta *)

SearchOver == phase = "acta" \/ (phase = "bisect" /\ low > high)

\* Without a newer acta, the one the search started from.
Target == IF best = 0 THEN latest ELSE best

\* The search's variables are gone when it is.
Leave == low' = 0 /\ high' = 0 /\ step' = 1 /\ best' = 0

FetchActa ==
  /\ SearchOver
  /\ IsPdf(Target)
  /\ got' = Target
  /\ phase' = "done"
  /\ Leave
  /\ UNCHANGED <<docs, expected, scan, named, start, calm>>

FetchActaFails ==
  /\ SearchOver
  /\ phase' = "failed"
  /\ Leave
  /\ UNCHANGED <<docs, expected, scan, named, start, got, calm>>
-----------------------------------------------------------------------------
Index == (\E links \in Indexes : ReadIndex(links)) \/ ReadEmptyIndex \/ PageFails

Scan ==
  \/ \E probeable \in BOOLEAN : ScanFinds(probeable)
  \/ ScanMoves \/ ScanChooses \/ ScanFindsNothing \/ ReadSecondary

Search == \E ok \in BOOLEAN : First(ok) \/ Expand(ok) \/ Limit(ok) \/ Again(ok) \/ Bisect(ok)

Fetching == Index \/ Scan \/ Search \/ FetchActa \/ FetchActaFails

Next == Begin \/ Fetching \/ NextWeek \/ \E n \in Late : Publish(n)

\* Every request is answered or times out, and the fetch goes on.
Spec == Init /\ [][Next]_vars /\ WF_vars(Fetching)
-----------------------------------------------------------------------------
(* Properties *)

\* An acta that was not due yet is believed only when its own text names the
\* draw, or when a page of the site has named it: the site serves placeholders
\* for file names of future draws.
FutureNeedsEvidence ==
  phase = "done" /\ got > expected => Doc(got) = "marked" \/ got \in named

\* A newer acta than the one the search started from is one that a probe would
\* still accept, whatever failed or was published meanwhile; never an older one.
NewerIsProbed == phase = "done" => got = latest \/ (got > latest /\ Accepts(got))

\* The newer actas are the next n draws, without a hole.
Newer(n) == \A d \in latest + 1 .. latest + 2 * StepLimit : Accepts(d) <=> d <= latest + n

\* When nothing fails or changes and the newer actas have no holes, the search
\* ends with the newest of them, or stops at its limit.
FindsNewest ==
  phase = "done" /\ calm /\ probes /\ latest < expected =>
    \A n \in 0 .. 2 * StepLimit :
      Newer(n) => got = latest + n \/ (n > StepLimit /\ got >= latest + StepLimit)

\* Every fetch ends: with an acta, with the secondary page or with an error.
FetchEnds == phase = "index" ~> phase \in Ended

=============================================================================
