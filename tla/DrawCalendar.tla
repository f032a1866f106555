----------------------------- MODULE DrawCalendar -----------------------------
(***************************************************************************)
(* When a draw is due.  The code asks this in three ways: due_draws,       *)
(* evaluate_schedule (through expected_window) and DatedSchedule.is_due.   *)
(* Time is counted in minutes of America/Bogota from a midnight.           *)
(***************************************************************************)
EXTENDS Integers, Sequences

CONSTANTS
  DayLength, WeekLength,
  NoTime   \* expected_time=None

Minutes == 0 .. DayLength - 1

ScheduledDraw ==
  [code : STRING, draw_type : STRING, expected : Minutes \cup {NoTime},
   weekdays : SUBSET (0 .. WeekLength - 1), tolerance : Nat, enabled : BOOLEAN,
   holiday_times : Seq(Minutes), skip_on_holiday : BOOLEAN, calendar_only : BOOLEAN]

ASSUME CalendarAssumption ==
  /\ DayLength \in Nat \ {0}
  /\ WeekLength \in Nat \ {0}
  /\ NoTime \notin Int

DayOf(now) == now \div DayLength
WeekdayOf(day) == day % WeekLength
At(day, time) == day * DayLength + time

Scheduled(s, now) == s.enabled /\ WeekdayOf(DayOf(now)) \in s.weekdays

-----------------------------------------------------------------------------
(* due_draws                                                               *)

Within(now, time, tolerance) ==
  /\ At(DayOf(now), time) <= now
  /\ now <= At(DayOf(now), time) + tolerance

Skips(s, now, holidays) == s.skip_on_holiday /\ DayOf(now) \in holidays

Due(s, now, holidays) ==
  /\ Scheduled(s, now)
  /\ IF Skips(s, now, holidays)
     THEN \E i \in DOMAIN s.holiday_times : Within(now, s.holiday_times[i], s.tolerance)
     ELSE \/ s.calendar_only
          \/ s.expected # NoTime /\ Within(now, s.expected, s.tolerance)

-----------------------------------------------------------------------------
(* expected_window and evaluate_schedule                                   *)

\* Mutant: holidays are forgotten.
ExpectedTimeAnyDay(s, day, holidays) == s.expected

ExpectedTime(s, day, holidays) ==
  IF day \in holidays /\ s.holiday_times # <<>> THEN s.holiday_times[1] ELSE s.expected

HasWindow(s, day, holidays) == s.calendar_only \/ ExpectedTime(s, day, holidays) # NoTime

Opens(s, day, holidays) == IF s.calendar_only THEN At(day, 0) ELSE At(day, ExpectedTime(s, day, holidays))

Closes(s, day, holidays) ==
  IF s.calendar_only THEN At(day, DayLength - 1)
                     ELSE At(day, ExpectedTime(s, day, holidays)) + s.tolerance

\* Mutant: whatever is not inside the window is outside the tolerance.
EvaluateTwoSided(s, now, holidays) ==
  LET day == DayOf(now)
  IN  IF ~ Scheduled(s, now) \/ ~ HasWindow(s, day, holidays) THEN "NOT_PUBLISHED"
      ELSE IF now < Opens(s, day, holidays) \/ now > Closes(s, day, holidays)
           THEN "OUTSIDE_TOLERANCE"
           ELSE "SUCCESS"

Evaluate(s, now, holidays) ==
  LET day == DayOf(now)
  IN  IF ~ Scheduled(s, now) \/ ~ HasWindow(s, day, holidays) THEN "NOT_PUBLISHED"
      ELSE IF now < Opens(s, day, holidays) THEN "NOT_PUBLISHED"
      ELSE IF now > Closes(s, day, holidays) THEN "OUTSIDE_TOLERANCE"
      ELSE "SUCCESS"

-----------------------------------------------------------------------------
(* DatedSchedule                                                           *)

DatedDrawTime == [draw_date : Nat, draw_type : STRING, expected_time : Minutes]

\* The positions of the matches.
ForDate(entries, day, type) ==
  {i \in DOMAIN entries : entries[i].draw_date = day /\ entries[i].draw_type = type}

\* for_date raises on a second match.
HasDate(entries, day, type) == \E i \in DOMAIN entries : ForDate(entries, day, type) = {i}

EntryFor(entries, day, type) == entries[CHOOSE i \in ForDate(entries, day, type) : TRUE]

\* Mutant: the schedule that is built keeps the dataclass's own tolerance.
AsScheduledDefault(entries, day, type, tolerance) ==
  [code |-> "SUPER_ASTRO", draw_type |-> type,
   expected |-> EntryFor(entries, day, type).expected_time,
   weekdays |-> {WeekdayOf(day)}, tolerance |-> 1, enabled |-> TRUE,
   holiday_times |-> <<>>, skip_on_holiday |-> FALSE, calendar_only |-> FALSE]

AsScheduled(entries, day, type, tolerance) ==
  [code |-> "SUPER_ASTRO", draw_type |-> type,
   expected |-> EntryFor(entries, day, type).expected_time,
   weekdays |-> {WeekdayOf(day)}, tolerance |-> tolerance, enabled |-> TRUE,
   holiday_times |-> <<>>, skip_on_holiday |-> FALSE, calendar_only |-> FALSE]

IsDue(entries, now, type, tolerance) ==
  /\ HasDate(entries, DayOf(now), type)
  /\ Within(now, AsScheduled(entries, DayOf(now), type, tolerance).expected, tolerance)
=============================================================================
