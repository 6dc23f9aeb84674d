------------------------------- MODULE Cadence -------------------------------
(***************************************************************************)
(* When a backup schedule runs next (services/backup_schedule.py) on a     *)
(* calendar of real month lengths.  A moment is a day since the start of   *)
(* the calendar and a slot of that day; slots stand for the minutes of a   *)
(* day.  A cron expression is left to croniter, which is not part of the   *)
(* source; whoever creates a schedule has its expression evaluated, so a   *)
(* stored one always has a next moment.                                    *)
(***************************************************************************)
EXTENDS Integers, Sequences, FiniteSets

CONSTANTS Slots,         \* slots in a day
          FirstWeekday,  \* weekday of day 0; 0 is Monday
          MonthLengths,  \* lengths of the calendar's months, in order
          CronDays       \* the days on which the cron expression matches

ASSUME CadenceAssumption == /\ Slots \in Nat \ {0} /\ FirstWeekday \in 0..6
                            /\ MonthLengths \in Seq(28..31)

Months == DOMAIN MonthLengths
FirstOf[m \in Nat] == IF m <= 1 THEN 0 ELSE FirstOf[m - 1] + MonthLengths[m - 1]
LastDay == FirstOf[Len(MonthLengths) + 1] - 1

\* It matches in the calendar's last month too, as whatever is asked falls before it.
ASSUME CronAssumption == /\ CronDays \subseteq Nat
                         /\ \E d \in CronDays : FirstOf[Len(MonthLengths)] <= d /\ d <= LastDay

At(day, slot) == day * Slots + slot
DayOf(t) == t \div Slots
MonthOf(t) == CHOOSE m \in Months : FirstOf[m] <= DayOf(t) /\ DayOf(t) < FirstOf[m] + MonthLengths[m]
Weekday(day) == (FirstWeekday + day) % 7

-----------------------------------------------------------------------------
\* The moment itself does not count: a run at 02:00 is followed by tomorrow's.
Passed(target, after) == target <= after

NextDaily(after, slot) ==
    LET target == At(DayOf(after), slot)
    IN  IF Passed(target, after) THEN target + Slots ELSE target

NextWeekly(after, slot, weekday) ==
    LET ahead == (weekday - Weekday(DayOf(after))) % 7
        target == At(DayOf(after) + ahead, slot)
    IN  IF Passed(target, after) THEN target + 7 * Slots ELSE target

\* A fault: a day the month does not have runs over into the next one.
BuildUnclamped(month, slot, monthday) == At(FirstOf[month] + monthday - 1, slot)

\* A day the month does not have becomes its last day.
Build(month, slot, monthday) ==
    LET day == IF monthday < MonthLengths[month] THEN monthday ELSE MonthLengths[month]
    IN  At(FirstOf[month] + day - 1, slot)

NextMonthly(after, slot, monthday) ==
    LET candidate == Build(MonthOf(after), slot, monthday)
    IN  IF Passed(candidate, after) THEN Build(MonthOf(after) + 1, slot, monthday) ELSE candidate

\* croniter(expression, after).get_next: the first match after the moment.
NextCron(after, slot) ==
    CHOOSE t \in {At(d, slot) : d \in CronDays} :
        t > after /\ \A d \in CronDays : At(d, slot) > after => t <= At(d, slot)

compute_next_run(cadence, after) ==
    CASE cadence.frequency = "daily" -> NextDaily(after, cadence.slot)
      [] cadence.frequency = "weekly" -> NextWeekly(after, cadence.slot, cadence.weekday)
      [] cadence.frequency = "monthly" -> NextMonthly(after, cadence.slot, cadence.monthday)
      [] cadence.frequency = "cron" -> NextCron(after, cadence.slot)

-----------------------------------------------------------------------------
\* Any cadence the API accepts, asked at any moment.
VARIABLES asked,   \* the cadence and the moment compute_next_run was asked about
          answer   \* its answer, or -1
cadenceVars == <<asked, answer>>

Cadences == [frequency : {"daily", "cron"}, slot : 0..Slots - 1]
      \union [frequency : {"weekly"}, slot : 0..Slots - 1, weekday : 0..6]
      \union [frequency : {"monthly"}, slot : 0..Slots - 1, monthday : 1..31]

\* A run due in the last month would fall outside this calendar.
Moments == 0..At(FirstOf[Len(MonthLengths)], 0) - 1

CadenceInit == /\ asked \in [cadence : Cadences, after : Moments]
               /\ answer = -1

Preview == /\ answer = -1
           /\ answer' = compute_next_run(asked.cadence, asked.after)
           /\ UNCHANGED asked

CadenceTyped == answer \in -1..At(LastDay, Slots - 1)

-----------------------------------------------------------------------------
(* The days a cadence means, written down independently: a monthly day past *)
(* the end of a month means its last day, never a skipped month.            *)
DueOn(cadence, day) ==
    CASE cadence.frequency = "daily" -> TRUE
      [] cadence.frequency = "weekly" -> Weekday(day) = cadence.weekday
      [] cadence.frequency = "monthly" ->
           \E m \in Months : /\ FirstOf[m] <= day /\ day < FirstOf[m] + MonthLengths[m]
                             /\ \/ day - FirstOf[m] + 1 = cadence.monthday
                                \/ cadence.monthday > MonthLengths[m] /\ day = FirstOf[m + 1] - 1
      [] cadence.frequency = "cron" -> day \in CronDays

(* compute_next_run answers the first moment the cadence means that lies    *)
(* strictly after the one asked about: a run is neither skipped over a      *)
(* short month or a week's end nor answered with the moment that just ran.  *)
FirstMomentAfter ==
    answer # -1 =>
        /\ answer > asked.after
        /\ answer % Slots = asked.cadence.slot /\ DueOn(asked.cadence, DayOf(answer))
        /\ \A t \in asked.after + 1 .. answer - 1 :
             ~(t % Slots = asked.cadence.slot /\ DueOn(asked.cadence, DayOf(t)))
=============================================================================
