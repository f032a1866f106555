------------------------ MODULE MCControlledScheduler ------------------------
(***************************************************************************)
(* ControlledScheduler for TLC: days of three instants and weeks of two    *)
(* days; a fixed game with two rows for one draw type, as CAFETERITO_NOCHE *)
(* has, and a catalog with an entry of each integration status.            *)
(***************************************************************************)
EXTENDS ControlledScheduler

CONSTANTS p1, p2, n101, n102

Game(time) ==
  [code |-> "CAFETERITO", draw_type |-> "CAFETERITO_NOCHE", expected |-> time,
   weekdays |-> {0}, tolerance |-> 0, enabled |-> TRUE,
   holiday_times |-> <<>>, skip_on_holiday |-> FALSE, calendar_only |-> FALSE]

MCFixed == <<Game(0), Game(2)>>

Entry(code, status, weekday, verified) ==
  [code |-> code, status |-> status, weekday |-> weekday, verified |-> verified]

MCCatalog ==
  <<Entry("BOYACA", "ACTIVE", 0, TRUE), Entry("META", "ACTIVE", 0, FALSE),
    Entry("QUINDIO", "SUSPENDED_ORDINARY", 0, TRUE), Entry("RISARALDA", "ACTIVE", 1, TRUE),
    Entry("EXTRA_COLOMBIA", "EXTRAORDINARY_ONLY", NoWeekday, FALSE)>>

MCVerified == {"BOYACA", "META", "QUINDIO", "RISARALDA"}

MCSupported == MCVerified \ {"RISARALDA"}

Symmetry == Permutations(Procs) \cup Permutations(Numbers)
=============================================================================
