------------------------------ MODULE Dashboard ------------------------------
(***************************************************************************)
(* What the dashboard works out from the rows and the clock, in the zone of *)
(* the person (todo/selectors.py).  It asks in several queries; each is     *)
(* taken here from one state of the rows.  Labels, the heights of the bars  *)
(* and the greeting are left out.                                           *)
(***************************************************************************)
EXTENDS TaskList

CONSTANTS
  Day,           \* per zone: the local day of an instant
  WeekDays,      \* WEEK_DAYS (7)
  StreakWindow,  \* STREAK_WINDOW_DAYS (30)
  NextLimit      \* NEXT_TASK_LIMIT (5)

\* Days the model reaches back to are numbered from 1, so that none is lost.
ASSUME DayAssumption ==
  /\ WeekDays \in Nat \ {0} /\ StreakWindow \in Nat \ {0} /\ NextLimit \in Nat
  /\ \A z \in Zones : \A i \in Instants : Day[z][i] \in Nat /\ Day[z][i] > StreakWindow

-----------------------------------------------------------------------------
\* The conditions the queries count by; now and today are read once.

DueDay(d, t, z) == IF d.task[t].due = Undated THEN 0 ELSE Day[z][d.task[t].due.at]
DoneDay(d, t, z) == IF d.task[t].done = 0 THEN 0 ELSE Day[z][d.task[t].done]
OpenTasks(d, u) == {t \in OwnTasks(d, u) : d.task[t].done = 0}
DueToday(d, u, z) == {t \in OwnTasks(d, u) : DueDay(d, t, z) = Day[z][now]}
DueLater(d, u, z) == {t \in OwnTasks(d, u) : DueDay(d, t, z) > Day[z][now]}
DuePast(d, u) == {t \in OwnTasks(d, u) : d.task[t].due # Undated /\ d.task[t].due.at < now}
DoneToday(d, u, z) == {t \in OwnTasks(d, u) : DoneDay(d, t, z) = Day[z][now]}

\* tasks_for_user: the list a status opens, those that go by the clock too.
Opened(d, u, z, status) ==
  {t \in Filtered(d, u, status) :
     /\ status \in {"today", "scheduled", "overdue"} => d.task[t].done = 0
     /\ status = "today" => DueDay(d, t, z) = Day[z][now]
     /\ status = "scheduled" => DueDay(d, t, z) > Day[z][now]
     /\ status = "overdue" => d.task[t].due # Undated /\ d.task[t].due.at < now}

-----------------------------------------------------------------------------
\* _dashboard_aggregates: one query.
Aggregates(d, u, z) ==
  LET open == OpenTasks(d, u)
      dues == {d.task[t].due.at : t \in open \cap DueLater(d, u, z)} IN
  [today |-> Cardinality(open \cap DueToday(d, u, z)),
   scheduled |-> Cardinality(open \cap DueLater(d, u, z)),
   all |-> Cardinality(OwnTasks(d, u)),
   overdue |-> Cardinality(open \cap DuePast(d, u)),
   done_today |-> Cardinality(DoneToday(d, u, z)),
   due_today |-> Cardinality(DueToday(d, u, z)),
   total_today |-> Cardinality(DueToday(d, u, z) \cup DoneToday(d, u, z)),
   next_scheduled |-> {i \in dues : \A j \in dues : i <= j}]

\* _completions_by_local_day: how many tasks were done on each day since.
Completions(d, u, z, since) ==
  LET worked == {DoneDay(d, t, z) : t \in OwnTasks(d, u)} \ 0..(since - 1) IN
  [day \in worked |-> Cardinality({t \in OwnTasks(d, u) : DoneDay(d, t, z) = day})]

\* _week_bars: the days that end today, a day without work counting 0.
Week(completions, today) ==
  [day \in (today + 1 - WeekDays)..today |->
     IF day \in DOMAIN completions THEN completions[day] ELSE 0]

\* _streak_days: the run of days with work that ends today or, while today
\* has none yet, yesterday.
\* Mutant: a day without work yet ends the run.
LastDayToday(completions, today) == today
LastDay(completions, today) == IF today \in DOMAIN completions THEN today ELSE today - 1
Streak(completions, today) ==
  LET last == LastDay(completions, today)
      run[n \in 0..StreakWindow] ==
        IF n < StreakWindow /\ (last - n) \in DOMAIN completions THEN run[n + 1] ELSE n IN
  run[0]

\* Python's round: to the nearest, and a half to the even one.
Percent(part, whole) ==
  LET floor == (100 * part) \div whole
      twice == 2 * ((100 * part) % whole) IN
  IF twice > whole \/ (twice = whole /\ floor % 2 = 1) THEN floor + 1 ELSE floor

\* dashboard_summary.
Board(d, u, z) ==
  LET today == Day[z][now]
      completions == Completions(d, u, z, today - StreakWindow)
      totals == Aggregates(d, u, z)
      active == Filtered(d, u, "active") IN
  [totals |-> totals,
   progress |-> IF totals.total_today = 0 THEN 0
                ELSE Percent(totals.done_today, totals.total_today),
   week |-> Week(completions, today),
   streak |-> Streak(completions, today),
   categories |-> [c \in OwnCats(d, u) |-> Cardinality({t \in active : d.task[t].category = c})],
   next |-> {t \in active : Place(d, active, t) < NextLimit}]

-----------------------------------------------------------------------------
\* The longest run of days with work that ends on a day.
Worked(u, z, last, n) == (last + 1 - n)..last \subseteq {DoneDay(db, t, z) : t \in OwnTasks(db, u)}
LongestRun(u, z, last) ==
  CHOOSE n \in 0..StreakWindow :
    Worked(u, z, last, n) /\ (n < StreakWindow => ~Worked(u, z, last, n + 1))

\* The dashboard keeps its word whatever was written, whatever the hour and
\* the zone: each card counts the list it opens, though the conditions are
\* written twice; what was done today is part of what today held, so that
\* progress is a percentage, and it is today's bar, which another query
\* counts; the streak is the longest run of days with work that ends today,
\* or yesterday while today has none, as far as its window goes, though only
\* the days its query reached back to are known (dashboard_summary,
\* tasks_for_user).
BoardHonest ==
  \A u \in Users, z \in Zones :
    LET board == Board(db, u, z)
        totals == board.totals
        today == Day[z][now]
        run == LongestRun(u, z, today) IN
    /\ \A s \in {"today", "scheduled", "all", "overdue"} :
         totals[s] = Cardinality(Opened(db, u, z, s))
    /\ board.week[today] = totals.done_today
    /\ totals.done_today <= totals.total_today
    /\ board.progress \in 0..100
    /\ board.streak = IF run > 0 THEN run ELSE LongestRun(u, z, today - 1)
=============================================================================
