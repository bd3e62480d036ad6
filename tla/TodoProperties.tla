---------------------------- MODULE TodoProperties ----------------------------
(***************************************************************************)
(* What holds of the TODO data whatever requests overlap.                   *)
(***************************************************************************)
EXTENDS Todo

\* A task's category exists, and it is its owner's own unless the Admin moved
\* a row: a form that accepted a category which is deleted before the write
\* is refused, and a deleted category leaves its tasks (Task.clean,
\* delete_category, the views' LOST_RACE).
OwnCategory ==
  \A t \in Live(db.task) :
    LET c == db.task[t].category IN
    c # None => c \in Live(db.cat) /\ (transfers = 0 => db.cat[c].user = db.task[t].user)

\* No user ever has two categories whose names differ in case alone, though
\* two requests may both have found the name free (CategoryForm.clean_name,
\* create_category, update_category).
UniqueNames ==
  \A u \in Users : \A c, d \in OwnCats(db, u) :
    Fold[db.cat[c].name] = Fold[db.cat[d].name] => c = d

\* A screen may be behind its user's own rows only while a hint that makes it
\* look again is still on its way: every commit tells every user whose rows,
\* or whose tasks' category, it changed, the old and the new owner of a row
\* the Admin moved among them, it names the rows a form goes by, and it tells
\* them after it can be seen (_owners, _saved, _deleted, notify_after_commit,
\* affectsForm).
ScreensLearn ==
  \A x \in stale : \E r \in Requests : \E h \in out[r] : Tells(h, x[1], x[2])

\* The list of categories is behind only while a hint is on its way, like
\* every other screen: it is refreshed when a task is saved or deleted, as
\* README.md says of it ("Task/category saves and deletes", "Automatic
\* refresh").  It counts every task of a category (Count("tasks")), and a
\* task tells its own owner, not its category's (_owners).
CountsLearn ==
  \A u \in miscounted : \E r \in Requests : \E h \in out[r] : Tells(h, u, CatList)

\* Saving a form that posts back the schedule it showed never moves the
\* deadline, not even one another device has set since the form was drawn or
\* checked, nor between the two instants of a repeated hour, nor to another
\* day when it is saved in another time zone (TaskForm.clean, update_task).
ScheduleKept ==
  [][\A r \in Requests :
       req[r].pc = "task_edit" /\ req'[r].pc = "done" /\ req[r].carried /\ req[r].same
         => \A t \in Live(db.task) : t \in Live(db'.task) => db'.task[t].due = db.task[t].due]_vars
=============================================================================
