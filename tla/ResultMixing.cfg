SPECIFICATION WatchSpec
CONSTANTS
  NoTime = NoTime
  Nothing = Nothing
  DayLength = 8
  WeekLength = 2
  LastMinute = 23
  Holidays = {1}
  Reach = 600
  Window = 900
  ActaWindow = 300
  MaxStaleness = 1
  Width <- MCWidth
  Sites <- Newest
  Schedules <- NewestSchedules
  Calendars <- MCCalendars
INVARIANT OneDrawPerRecord
CHECK_DEADLOCK FALSE
