----------------------------- MODULE Recurrence -----------------------------
(***************************************************************************)
(* The calendar of task definitions: the chain of occurrences from         *)
(* first_schedule_occurrence through next_schedule_occurrence, with        *)
(* _localize_schedule_time, and schedule_frequency_limit_minutes           *)
(* (backend/app/main.py), compared with what a schedule means.             *)
(*                                                                         *)
(* Time is counted in slots; minutes of the code are slots here.  A UTC    *)
(* instant and a local (wall) time are both numbers of slots since the     *)
(* first midnight, which is a Monday and the first of a month.  The clock  *)
(* of a zone goes forward by z.shift at the instant z.spring and back at   *)
(* z.fall; a zone without clock changes has shift 0.  zoneinfo itself is   *)
(* external: Local converts an instant, Instant a wall time with fold=0.   *)
(***************************************************************************)
EXTENDS Integers, Sequences, FiniteSetsExt

CONSTANTS SlotsPerDay,
          MonthStarts, \* the first days of the months, and the day after the last month
          Zones,       \* records [spring, fall, shift]
          MaxGap,      \* slots tried after an imaginary wall time (180 minutes in the code)
          LastStart,   \* bound: the last start, and the last occurrence that is followed
          Null         \* NULL

Months == 1 .. Len(MonthStarts) - 1

\* A month has no fewer days than a week; no gap is as long as a day.  LastStart lies
\* before the last month, so that every occurrence has a next one in the calendar.
ASSUME CalendarAssumption ==
  /\ SlotsPerDay \in Nat \ {0} /\ MaxGap \in 0 .. SlotsPerDay - 1
  /\ MonthStarts \in Seq(Nat) /\ Len(MonthStarts) > 1 /\ MonthStarts[1] = 0
  /\ \A i, j \in DOMAIN MonthStarts : i < j => MonthStarts[i] + 7 <= MonthStarts[j]
  /\ LastStart \in Nat /\ LastStart + MaxGap < SlotsPerDay * MonthStarts[Len(MonthStarts) - 1]
ASSUME ZoneAssumption ==
  \A z \in Zones : /\ z.spring \in Nat /\ z.fall \in Nat /\ z.shift \in 0 .. MaxGap
                   /\ z.spring + z.shift < z.fall
ASSUME NullAssumption == Null \notin Int

VARIABLES zone, schedule, start_at, \* columns of a definition
          next_run_at,              \* its next occurrence
          emitted                   \* history: the occurrences before that one

calendarVars == <<zone, schedule, start_at, next_run_at, emitted>>
-----------------------------------------------------------------------------
Week == 0 .. 6
Starts == 0 .. LastStart

Local(z, t) == IF z.spring <= t /\ t < z.fall THEN t + z.shift ELSE t
\* fold=0: in the gap the time before it, of two instants the first one
Instant(z, w) == IF w < z.spring + z.shift \/ z.fall + z.shift <= w THEN w ELSE w - z.shift
Valid(z, w) == Local(z, Instant(z, w)) = w

Day(w) == w \div SlotsPerDay
TimeOfDay(w) == w % SlotsPerDay
Weekday(w) == Day(w) % 7

MonthLength(m) == MonthStarts[m + 1] - MonthStarts[m]
MonthOf(d) == CHOOSE m \in Months : MonthStarts[m] <= d /\ d < MonthStarts[m + 1]
ShortestMonth == Min({MonthLength(m) : m \in Months})

\* The columns of a definition; month_day 0 is LAST_DAY.  A WEEKLY schedule is
\* a DAILY one with at least one weekday.
Schedules ==
  [type : {"ONCE"}, weekdays : {{}}, month_day : {0}]
  \cup [type : {"DAILY"}, weekdays : SUBSET Week, month_day : {0}]
  \cup [type : {"MONTHLY"}, weekdays : {{}}, month_day : 0 .. ShortestMonth]
-----------------------------------------------------------------------------
(* The code *)

\* _localize_schedule_time: the first wall time from w that survives the round trip.
LocalizeScheduleTime(z, w) == w + Min({m \in 0 .. MaxGap : Valid(z, w + m)})

\* The day that month_day stands for in month m.
DayInMonth(m, month_day) ==
  MonthStarts[m] + (IF month_day = 0 THEN MonthLength(m) ELSE month_day) - 1

MonthlyLocalCandidate(z, anchor, m, month_day) ==
  LocalizeScheduleTime(z, DayInMonth(m, month_day) * SlotsPerDay + TimeOfDay(anchor))

Allowed(s, w) == s.weekdays = {} \/ Weekday(w) \in s.weekdays

\* Of the given distances in days those that lead to a candidate on an allowed weekday.
\* Without any, "invalid task schedule" is raised.
Matches(z, s, anchor, distances) ==
  {k \in distances : Allowed(s, LocalizeScheduleTime(z, anchor + k * SlotsPerDay))}
Raises(z, s, anchor, distances) == s.type = "DAILY" /\ Matches(z, s, anchor, distances) = {}
DailyCandidate(z, s, anchor, distances) ==
  LocalizeScheduleTime(z, anchor + Min(Matches(z, s, anchor, distances)) * SlotsPerDay)

\* Mutant of FirstScheduleOccurrence: the month of the start is not compared with it.
FirstOfThisMonth(z, s, start) ==
  LET anchor == Local(z, start)
  IN IF s.type = "MONTHLY"
     THEN Instant(z, MonthlyLocalCandidate(z, anchor, MonthOf(Day(anchor)), s.month_day))
     ELSE Instant(z, DailyCandidate(z, s, anchor, 0 .. 7))

\* The comparison in a month is one of wall times, because both have the same zone.
FirstScheduleOccurrence(z, s, start) ==
  LET anchor == Local(z, start)
      m == MonthOf(Day(anchor))
      this == MonthlyLocalCandidate(z, anchor, m, s.month_day)
  IN IF s.type = "ONCE" THEN start
     ELSE IF s.type = "DAILY" THEN Instant(z, DailyCandidate(z, s, anchor, 0 .. 7))
     ELSE Instant(z, IF this >= anchor THEN this ELSE MonthlyLocalCandidate(z, anchor, m + 1, s.month_day))

\* Mutants of NextScheduleOccurrence: the same weekday of the next week is out of
\* reach; a day has 24 hours of UTC.
NextWithinSix(z, s, t) ==
  LET anchor == Local(z, t)
      near == Matches(z, s, anchor, 1 .. 6)
  IN IF s.type = "ONCE" THEN Null
     ELSE IF s.type = "MONTHLY"
     THEN Instant(z, MonthlyLocalCandidate(z, anchor, MonthOf(Day(anchor)) + 1, s.month_day))
     ELSE Instant(z, DailyCandidate(z, s, anchor, IF near = {} THEN 8 .. 14 ELSE near))
NextInUtc(z, s, t) ==
  IF s.type # "DAILY" THEN Null
  ELSE t + SlotsPerDay * Min({k \in 1 .. 8 : Allowed(s, Local(z, t + k * SlotsPerDay))})

NextScheduleOccurrence(z, s, t) ==
  LET anchor == Local(z, t)
  IN IF s.type = "ONCE" THEN Null
     ELSE IF s.type = "DAILY" THEN Instant(z, DailyCandidate(z, s, anchor, 1 .. 8))
     ELSE Instant(z, MonthlyLocalCandidate(z, anchor, MonthOf(Day(anchor)) + 1, s.month_day))

\* Mutant of FrequencyLimit: the gap over Sunday is left out.
LimitWithoutWrap(s) ==
  SlotsPerDay * (IF s.type = "MONTHLY" THEN ShortestMonth
                 ELSE IF s.weekdays = {} THEN 1
                 ELSE Min({7} \cup {p[2] - p[1] : p \in {q \in s.weekdays \X s.weekdays : q[1] < q[2]}}))

\* The circular gap from weekday a to b, and the shortest one of a schedule; the
\* shortest month, 28 days in the code, for a month.  ONCE has no next run.
DaysFrom(a, b) == IF a = b THEN 7 ELSE (b + 7 - a) % 7
FrequencyLimit(s) ==
  SlotsPerDay * (IF s.type = "MONTHLY" THEN ShortestMonth
                 ELSE IF s.weekdays = {} THEN 1
                 ELSE Min({DaysFrom(p[1], p[2]) : p \in s.weekdays \X s.weekdays}))
-----------------------------------------------------------------------------
(* create_task_definition, then the loop of generate_due_task_instances *)

CalendarInit ==
  /\ zone \in Zones /\ schedule \in Schedules /\ start_at \in Starts
  /\ next_run_at = Null /\ emitted = {}

\* Where a search raises, the request or the pass ends and is rolled back.
CreateDefinition ==
  /\ next_run_at = Null /\ emitted = {}
  /\ ~Raises(zone, schedule, Local(zone, start_at), 0 .. 7)
  /\ next_run_at' = FirstScheduleOccurrence(zone, schedule, start_at)
  /\ UNCHANGED <<zone, schedule, start_at, emitted>>

Emit ==
  /\ next_run_at # Null /\ next_run_at <= LastStart
  /\ ~Raises(zone, schedule, Local(zone, next_run_at), 1 .. 8)
  /\ emitted' = emitted \cup {next_run_at}
  /\ next_run_at' = NextScheduleOccurrence(zone, schedule, next_run_at)
  /\ UNCHANGED <<zone, schedule, start_at>>

CalendarNext == CreateDefinition \/ Emit
CalendarSpec == CalendarInit /\ [][CalendarNext]_calendarVars
-----------------------------------------------------------------------------
(* What a schedule means *)

\* s has an occurrence on day d.
OnDay(s, d) ==
  IF s.type = "MONTHLY"
  THEN LET m == MonthOf(d)
       IN d + 1 = IF s.month_day = 0 THEN MonthStarts[m + 1] ELSE MonthStarts[m] + s.month_day
  ELSE s.weekdays = {} \/ d % 7 \in s.weekdays

Days == 0 .. MonthStarts[Len(MonthStarts)] - 1

\* The first instant at which the clocks show w or, when they skip it, a later time.
Showing(z, w) == Min({t \in w - z.shift .. w : Local(z, t) >= w})

\* The second of the two instants with one wall time.
Repeated(z, t) == \E x \in t - z.shift .. t - 1 : Local(z, x) = Local(z, t)

\* The time of day of the start, and whether the clocks skip it some day.
Wall == TimeOfDay(Local(zone, start_at))
Gap == zone.spring .. zone.spring + zone.shift - 1
Skipped == \E w \in Gap : TimeOfDay(w) = Wall

\* The first valid time after the skipped one is on the next day: a gap that ends at
\* midnight, as that of America/Nuuk, or goes over it.
PastMidnight == \E w \in Gap : TimeOfDay(w) = Wall /\ Day(w) # Day(zone.spring + zone.shift)
Occurrences == IF next_run_at = Null THEN emitted ELSE emitted \cup {next_run_at}
LocalDay(t) == Day(Local(zone, t))
-----------------------------------------------------------------------------
(* Properties *)

\* A definition starts with the first occurrence on or after its start: "the first
\* valid occurrence after a skipped local time and the first occurrence for a
\* repeated local time" (spec/05-tasks-and-scheduling.md:22).  A start within the
\* second pass of a repeated hour is excepted: its occurrence may lie before it.
\* So is a time that moves to the next day, whose weekday is the one compared.
FirstIsFirst ==
  /\ emitted = {} /\ next_run_at # Null /\ schedule.type # "ONCE"
  /\ ~Repeated(zone, start_at) /\ ~PastMidnight
  => next_run_at = Min({x \in {Showing(zone, d * SlotsPerDay + Wall) : d \in {y \in Days : OnDay(schedule, y)}} :
                         x >= start_at})

\* From its first occurrence on, a schedule has exactly one on each of its days, over
\* month ends, Sundays and both clock changes, unless its time moves to the next day.
EveryDayOnce ==
  schedule.type # "ONCE" /\ Occurrences # {} /\ ~PastMidnight =>
    /\ {LocalDay(x) : x \in Occurrences} =
         {d \in LocalDay(Min(Occurrences)) .. LocalDay(Max(Occurrences)) : OnDay(schedule, d)}
    /\ \A x, y \in Occurrences : LocalDay(x) = LocalDay(y) => x = y

\* Occurrences keep the local time of the start through every clock change, unless
\* the clocks skip that very time: then it moves, and stays moved (next_schedule_occurrence
\* knows only the last occurrence).
WallTimeKept == Skipped \/ \A x \in Occurrences : TimeOfDay(Local(zone, x)) = Wall

\* Two occurrences are never closer than the limit of the due offset ("so work never
\* overlaps its next run", main.py:410), but for the hours a clock change takes away.
WorkEndsBeforeNextRun ==
  [][next_run_at # Null /\ next_run_at' # Null /\ ~PastMidnight =>
       next_run_at' - next_run_at + zone.shift >= FrequencyLimit(schedule)]_calendarVars

\* The search for the next occurrence never raises, whatever time the clocks skip
\* ("Daylight-saving transitions use the first valid occurrence after a skipped local
\* time", spec/05-tasks-and-scheduling.md:22).
NextIsFound == next_run_at # Null => ~Raises(zone, schedule, Local(zone, next_run_at), 1 .. 8)
=============================================================================
