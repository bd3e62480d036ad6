-------------------------------- MODULE MCTodo --------------------------------
(***************************************************************************)
(* Forms and writes, the list and the dashboard in one run: the behaviours  *)
(* in which one of them moves freely and the others rest.                   *)
(***************************************************************************)
EXTENDS Dashboard, TodoProperties, TLC

\* Deadlines: 11 and 12 are the two instants of one hour that a clock change
\* repeats in zone "z1"; 19 is the end of a day there, "z2" is in the next one.
At(i, whole) == [at |-> i, all_day |-> whole]
NoDeadline == At(0, FALSE)
SomeDeadlines == {NoDeadline, At(11, FALSE), At(12, FALSE), At(19, TRUE)}
Moments == Clock \cup {11, 12, 19}
Texts == [z \in Zones |-> [d \in Deadlines |->
  CASE d.at = 0 -> ""
    [] d.at = 19 -> IF z = "z1" THEN "first day" ELSE "second day"
    [] OTHER -> IF z = "z1" THEN "01:30" ELSE IF d.at = 11 THEN "06:30" ELSE "07:30"]]
Named == [z \in Zones |->
  IF z = "z1" THEN [x \in {"", "01:30", "first day"} |->
    CASE x = "" -> NoDeadline [] x = "01:30" -> At(11, FALSE) [] OTHER -> At(19, TRUE)]
  ELSE [x \in {"", "06:30", "07:30"} |->
    CASE x = "" -> NoDeadline [] x = "06:30" -> At(11, FALSE) [] OTHER -> At(12, FALSE)]]
Days == [z \in Zones |->
  [i \in Moments |-> 5 + (IF z = "z1" THEN i ELSE i + 5) \div 10]]
LowerCase == [n \in Names |-> IF n = "Home" THEN "home" ELSE n]

\* A user with a task in a category; a user with two tasks and no category.
Few == [task |-> [t \in Tasks |-> IF t = 1 THEN Task("alice", 1, At(12, FALSE)) ELSE Unborn],
        cat |-> [c \in Cats |-> IF c = 1 THEN Cat("alice", "home") ELSE Unborn]]
Many == [task |-> [t \in Tasks |->
           CASE t = 1 -> Task("alice", None, At(19, TRUE))
             [] t = 2 -> Task("alice", None, At(11, FALSE))
             [] OTHER -> Unborn],
         cat |-> [c \in Cats |-> Unborn]]
BothStarts == {Few, Many}

-----------------------------------------------------------------------------
\* The forms: the list is not read and the clock stands still; the forms of
\* tasks are alice's.  The list: tasks without a category are created, toggled
\* and deleted by two requests.  The dashboard: the same by three, while the
\* clock moves and the list is not read.
FirstHour == \A i \in Clock : now <= i
Unread == view.owed /\ view.address = 1 /\ view.rows = {} /\ AtRest /\ ~view.more
Plain ==
  /\ \A c \in Cats : db.cat[c] = Unborn
  /\ \A r \in Requests : req[r].pc \in {"idle", "task_new", "done"}
  /\ \A r \in Requests : req[r].pc = "task_new" => req[r].user = "alice" /\ req[r].due = NoDeadline
  /\ \A t \in Live(db.task) : db.task[t].user = "alice"
OwnForms ==
  /\ \E t \in Tasks : db.task[t] = Unborn
  /\ \A r \in Requests :
       /\ req[r].pc \in {"form", "task_edit", "task_new"} => req[r].user = "alice"
       /\ req[r].pc = "task_new" => req[r].due = NoDeadline
Workload ==
  \/ FirstHour /\ Unread /\ OwnForms /\ view.status = "all"
  \/ FirstHour /\ Plain /\ \E r \in Requests : Free(r)
  \/ Unread /\ Plain /\ view.status = "all"
\* The steps of the specification that stay within one of the three.
MCSpec == ListInit /\ [][ListNext /\ Workload']_lvars
Symmetry == Permutations(Requests)
=============================================================================
