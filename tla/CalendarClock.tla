----------------------------- MODULE CalendarClock -----------------------------
(***************************************************************************)
(* A clock that runs over one schedule, one set of holidays and one dated  *)
(* calendar, whichever they are: what the readings of DrawCalendar answer  *)
(* from one minute to the next.                                            *)
(***************************************************************************)
EXTENDS DrawCalendar

CONSTANTS
  Schedules,    \* the ScheduledDraw records to be looked at
  Holidays,     \* the days that may be holidays
  Calendars,    \* sequences of DatedDrawTime
  LastMinute    \* bound of the clock

ASSUME ClockAssumption ==
  /\ Schedules \subseteq ScheduledDraw
  /\ Calendars \subseteq Seq(DatedDrawTime)
  /\ LastMinute \in Nat

VARIABLES
  now,
  schedule,  \* the schedule that is looked at
  holidays,
  calendar   \* the dated entries that are looked at

vars == <<now, schedule, holidays, calendar>>

TypeOK ==
  /\ now \in 0 .. LastMinute
  /\ schedule \in Schedules
  /\ holidays \subseteq Holidays
  /\ calendar \in Calendars

Init ==
  /\ now = 0
  /\ schedule \in Schedules
  /\ holidays \in SUBSET Holidays
  /\ calendar \in Calendars

Tick ==
  /\ now < LastMinute
  /\ now' = now + 1
  /\ UNCHANGED <<schedule, holidays, calendar>>

Next == Tick

Spec == Init /\ [][Next]_vars
-----------------------------------------------------------------------------
\* A schedule whose two holiday fields say the same thing: it has one holiday
\* time exactly when its ordinary time is skipped on a holiday.
Regular(s) ==
  /\ s.skip_on_holiday <=> Len(s.holiday_times) = 1
  /\ ~ s.skip_on_holiday => s.holiday_times = <<>>
  /\ ~ (s.skip_on_holiday /\ s.calendar_only)

(* due_draws and evaluate_schedule, two readings of the same record, never *)
(* disagree about a regular schedule, on any day and any set of holidays.  *)
SchedulersAgree ==
  Regular(schedule) =>
    (Due(schedule, now, holidays) <=> Evaluate(schedule, now, holidays) = "SUCCESS")

Rank(status) == CASE status = "NOT_PUBLISHED" -> 0
                  [] status = "SUCCESS" -> 1
                  [] status = "OUTSIDE_TOLERANCE" -> 2

(* Within a day evaluate_schedule goes from not published to due and from  *)
(* due to outside the tolerance, and never back: a cycle that finds a draw *)
(* outside its tolerance can give that day up.                             *)
DayRunsForward ==
  [][DayOf(now') = DayOf(now) =>
       Rank(Evaluate(schedule, now, holidays)) <= Rank(Evaluate(schedule, now, holidays)')]_vars

(* DatedSchedule.is_due says what the scheduler says of the ScheduledDraw  *)
(* that as_scheduled_draw makes of the entry, on the day of that entry.    *)
DatedAgrees ==
  \A i \in DOMAIN calendar :
    LET type == calendar[i].draw_type
        made == AsScheduled(calendar, DayOf(now), type, 2)
    IN  HasDate(calendar, DayOf(now), type) =>
          (IsDue(calendar, now, type, 2) <=> Evaluate(made, now, {}) = "SUCCESS")
=============================================================================
