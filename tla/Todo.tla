--------------------------------- MODULE Todo ---------------------------------
(***************************************************************************)
(* The private TODO data: tasks and categories, the requests that read a    *)
(* form, check what is posted and write it (todo/forms.py, todo/views.py,   *)
(* todo/services.py), the Admin beside them, and the hints every commit     *)
(* leaves for the owners whose screens it changed (todo/realtime_signals.py,*)
(* todo/realtime_notifications.py).                                         *)
(*                                                                         *)
(* A service is one transaction, and SQLite is asked for its write lock     *)
(* first, so it is one step; what a view read before it may be old by then. *)
(***************************************************************************)
EXTENDS Naturals, FiniteSets

CONSTANTS
  Users,
  Tasks, Cats,         \* identifiers, each given to at most one row, in increasing order
  None,                \* no category
  Names, Fold,         \* category names, and their lower case
  Instants,            \* the instants rows may hold
  Deadlines, Undated,  \* stored deadlines [at, all_day], and the one that is none
  Zones,               \* the time zones requests come from
  Wall, Instant,       \* per zone: what a form shows of a deadline; the deadline a text names
  Clock,               \* bound: those at which something happens
  Requests,            \* the requests of a behaviour, each made once (or drawn, then posted)
  Starts,              \* the rows there may be to begin with
  MaxTransfers         \* bound: rows the Admin gives to another user

ASSUME IdAssumption == Tasks \subseteq Nat /\ Cats \subseteq Nat /\ None \notin Cats
ASSUME TransfersAssumption == MaxTransfers \in Nat
ASSUME DeadlinesAssumption ==
  /\ Instants \subseteq Nat \ {0} /\ Clock \subseteq Instants /\ Clock # {}
  /\ Undated \in Deadlines /\ \A d \in Deadlines \ {Undated} : d.at \in Instants
  /\ \A z \in Zones : \A text \in DOMAIN Instant[z] :
       Instant[z][text] \in Deadlines /\ Wall[z][Instant[z][text]] = text
  /\ \A z \in Zones : \A d \in Deadlines : Wall[z][d] = Wall[z][Undated] => d = Undated

VARIABLES
  db,          \* the committed rows
  req,         \* what each request is doing
  out,         \* its hints, deferred to after its commit
  now,         \* the server's clock
  stale,       \* history: the users' screens that changed since they were last told to look
  miscounted,  \* history: the users whose categories others' tasks came to or left since then
  transfers    \* rows that changed owner

vars == <<db, req, out, now, stale, miscounted, transfers>>

Unborn == [state |-> "unborn"]
Gone == [state |-> "gone"]
\* A task is done at an instant, 0 while it is open.
TaskRow ==
  [state : {"live"}, user : Users, category : Cats \cup {None}, due : Deadlines,
   done : Instants \cup {0}]
CatRow == [state : {"live"}, user : Users, name : Names]
Database ==
  [task : [Tasks -> TaskRow \cup {Unborn, Gone}], cat : [Cats -> CatRow \cup {Unborn, Gone}]]
Task(user, cat, due) ==
  [state |-> "live", user |-> user, category |-> cat, due |-> due, done |-> 0]
Cat(user, name) == [state |-> "live", user |-> user, name |-> name]

Live(rows) == {i \in DOMAIN rows : rows[i].state = "live"}
OwnTasks(d, u) == {t \in Live(d.task) : d.task[t].user = u}
OwnCats(d, u) == {c \in Live(d.cat) : d.cat[c].user = u}
\* Rows are given identifiers in the order they are created in.
Fresh(rows, i) == rows[i] = Unborn /\ \A j \in DOMAIN rows : rows[j] = Unborn => i <= j

\* What the constraints of the tables and the services have kept so far.
ASSUME StartsAssumption == \A d \in Starts :
  /\ d \in Database
  /\ \A t \in Live(d.task) : d.task[t].category \in OwnCats(d, d.task[t].user) \cup {None}
  /\ \A u \in Users : \A b, c \in OwnCats(d, u) : Fold[d.cat[b].name] = Fold[d.cat[c].name] => b = c

-----------------------------------------------------------------------------
\* What the screens of a user show: the two lists, the form of a task, and a
\* category as its form shows it or a task's form that has chosen it.  The
\* dashboard depends on what the lists depend on.  The list of categories
\* counts every task in them, one the Admin left in another user's too.

Lists == {<<"task list", 0>>, <<"category list", 0>>}
Objects == ({"tasks"} \X Tasks) \cup ({"categories"} \X Cats)
Row(d, t) == [id |-> t, category |-> {d.cat[c].name : c \in Live(d.cat) \cap {d.task[t].category}},
              due |-> d.task[t].due, done |-> d.task[t].done]
CatRows(d, u, counted) ==
  {[id |-> c, name |-> d.cat[c].name,
    tasks |-> Cardinality({t \in counted : d.task[t].category = c})] : c \in OwnCats(d, u)}
Shown(d, u, screen) ==
  CASE screen[1] = "task list" -> {Row(d, t) : t \in OwnTasks(d, u)}
    [] screen[1] = "category list" -> CatRows(d, u, Live(d.task))
    [] screen[1] = "tasks" -> {d.task[t].due : t \in OwnTasks(d, u) \cap {screen[2]}}
    [] OTHER -> {d.cat[c].name : c \in OwnCats(d, u) \cap {screen[2]}}

\* The part of a screen that the user's own rows make.
Own(d, u, screen) ==
  IF screen[1] = "category list" THEN CatRows(d, u, OwnTasks(d, u)) ELSE Shown(d, u, screen)
CatList == <<"category list", 0>>
\* The screens that a commit of e changes.
Altered(d, e) ==
  {x \in Users \X (Lists \cup Objects) : Shown(d, x[1], x[2]) # Shown(e, x[1], x[2])}

-----------------------------------------------------------------------------
\* The signals: who had the row before the write and who has it after, with
\* the owners of a category's tasks; what kind of row, and which one.

TaskOwners(d, t) == {d.task[x].user : x \in Live(d.task) \cap {t}}
\* Mutant: a category's change is told to its owner only.
CatOwnersAlone(d, c) == {d.cat[x].user : x \in Live(d.cat) \cap {c}}
CatOwners(d, c) == {d.cat[x].user : x \in Live(d.cat) \cap {c}}
                   \cup {d.task[t].user : t \in {x \in Live(d.task) : d.task[x].category = c}}
Hint(owners, resources, key) ==
  {[to |-> o, of |-> resources, key |-> key] : o \in {owners} \ {{}}}
TaskHint(d, e, t) == Hint(TaskOwners(d, t) \cup TaskOwners(e, t), {"tasks"}, <<"tasks", t>>)
CatHint(d, e, c) == Hint(CatOwners(d, c) \cup CatOwners(e, c), {"categories"}, <<"categories", c>>)
CatGoneHint(d, c) == Hint(CatOwners(d, c), {"tasks", "categories"}, <<"categories", c>>)

\* A list looks again at any of its resources, a form when the row it edits
\* or the category it has chosen is named.
Tells(h, u, s) == u \in h.to /\ (s \in Lists \/ (s[1] \in h.of /\ s = h.key))

Idle == [pc |-> "idle"]
Done == [pc |-> "done"]

Init ==
  /\ db \in Starts /\ transfers = 0 /\ stale = {} /\ miscounted = {}
  /\ now \in Clock /\ \A i \in Clock : now <= i
  /\ req = [r \in Requests |-> Idle] /\ out = [r \in Requests |-> {}]

Free(r) == req[r].pc = "idle"
Becomes(r, x) == req' = [req EXCEPT ![r] = x]

\* A transaction commits rows e and leaves its hints to on_commit.
Stored(r, e, hints) ==
  /\ db' = e /\ out' = [out EXCEPT ![r] = hints] /\ now' = now
  /\ stale' = stale \cup {x \in Altered(db, e) : Own(db, x[1], x[2]) # Own(e, x[1], x[2])}
  /\ miscounted' = miscounted \cup {u \in Users : /\ <<u, CatList>> \in Altered(db, e)
                                                 /\ Own(db, u, CatList) = Own(e, u, CatList)}
Commit(r, e, hints) == Stored(r, e, hints) /\ Becomes(r, Done) /\ UNCHANGED transfers
\* The view answers a form, 404 or 422, and nothing is written.
Read(r, x) == Becomes(r, x) /\ UNCHANGED <<db, out, now, stale, miscounted, transfers>>
Refuse(r) == Read(r, Done)

-----------------------------------------------------------------------------
\* Tasks.

\* GET of the edit form.  It carries the schedule it shows in hidden inputs,
\* unless the screen is an older one.
DrawTask(r) ==
  /\ Free(r)
  /\ \E u \in Users, z \in Zones : \E t \in OwnTasks(db, u), carried \in BOOLEAN :
       Read(r, [pc |-> "form", user |-> u, task |-> t,
                shown |-> Wall[z][db.task[t].due], carried |-> carried])

\* A category on offer to the form of user u.
Offered(u) == OwnCats(db, u) \cup {None}

\* TaskForm.clean: a schedule that is the one the form showed is not written.
\* An older screen does not say what it showed: it is taken to have shown
\* what would be drawn here and now, if there is a deadline at all.
\* Mutant: every screen is taken for an older one.
ChangedHere(x, posted, here) == posted # here
Changed(x, posted, here) == posted # (IF x.carried THEN x.shown ELSE here)
NothingShown(x, stored) == ~x.carried /\ stored = Undated

\* POST of the edit form, up to the service: the row and the categories are
\* read and the form is checked.
CheckTask(r) ==
  LET x == req[r]
      stored == db.task[x.task].due IN
  /\ x.pc = "form"
  /\ IF x.task \notin OwnTasks(db, x.user) THEN Refuse(r)
     ELSE \E z \in Zones, cat \in Cats \cup {None} :
          \E posted \in DOMAIN Instant[z] \cup {x.shown} :
       LET changed == NothingShown(x, stored) \/ Changed(x, posted, Wall[z][stored]) IN
       IF cat \notin Offered(x.user) THEN Refuse(r)
       ELSE /\ changed => posted \in DOMAIN Instant[z]
            /\ Read(r, [pc |-> "task_edit", user |-> x.user, task |-> x.task, carried |-> x.carried,
                        same |-> posted = x.shown, category |-> cat, changed |-> changed,
                        due |-> IF changed THEN Instant[z][posted] ELSE stored])
CheckNewTask(r) ==
  /\ Free(r)
  /\ \E u \in Users, z \in Zones : \E cat \in Offered(u), posted \in DOMAIN Instant[z] :
       Read(r, [pc |-> "task_new", user |-> u, category |-> cat, due |-> Instant[z][posted]])

\* Task.full_clean in the transaction: the category is still there.  Whose it
\* is was read with the form.
\* Mutant: the category that passed the form's check is not looked at again.
CleanUnchecked(x) == TRUE
Clean(x) == x.category \in Live(db.cat) \cup {None}
Edited(x) ==
  [db.task[x.task] EXCEPT !.category = x.category, !.due = IF x.changed THEN x.due ELSE @]

UpdateTask(r) ==
  LET x == req[r]
      e == [db EXCEPT !.task[x.task] = Edited(x)] IN
  /\ x.pc = "task_edit"
  /\ IF x.task \notin OwnTasks(db, x.user) \/ ~Clean(x) THEN Refuse(r)
     ELSE Commit(r, e, TaskHint(db, e, x.task))
CreateTask(r) ==
  LET x == req[r] IN
  /\ x.pc = "task_new"
  /\ IF ~Clean(x) THEN Refuse(r)
     ELSE \E t \in Tasks : LET e == [db EXCEPT !.task[t] = Task(x.user, x.category, x.due)] IN
            Fresh(db.task, t) /\ Commit(r, e, TaskHint(db, e, t))
ToggleTask(r) ==
  /\ Free(r)
  /\ \E u \in Users : \E t \in OwnTasks(db, u) :
       LET e == [db EXCEPT !.task[t].done = IF @ = 0 THEN now ELSE 0] IN
       Commit(r, e, TaskHint(db, e, t))
DeleteTask(r) ==
  /\ Free(r)
  /\ \E u \in Users : \E t \in OwnTasks(db, u) :
       LET e == [db EXCEPT !.task[t] = Gone] IN Commit(r, e, TaskHint(db, db, t))

-----------------------------------------------------------------------------
\* Categories.

\* The name is not one of the user's other categories', whatever its case.
NameFree(u, name, but) == \A c \in OwnCats(db, u) \ {but} : Fold[db.cat[c].name] # Fold[name]

CheckCategory(r) ==
  /\ Free(r)
  /\ \E u \in Users, name \in Names : \E c \in OwnCats(db, u) \cup {None} :
       /\ NameFree(u, name, c)
       /\ Read(r, [pc |-> IF c = None THEN "category_new" ELSE "category_edit",
                   user |-> u, cat |-> c, name |-> name])

\* Category.full_clean checks the name again, in the transaction.
\* Mutant: it does not.
CreateUnchecked(r) ==
  LET x == req[r] IN
  /\ x.pc = "category_new"
  /\ \E c \in Cats : LET e == [db EXCEPT !.cat[c] = Cat(x.user, x.name)] IN
       Fresh(db.cat, c) /\ Commit(r, e, CatHint(db, e, c))
CreateCategory(r) ==
  LET x == req[r] IN
  /\ x.pc = "category_new"
  /\ IF ~NameFree(x.user, x.name, None) THEN Refuse(r)
     ELSE \E c \in Cats : LET e == [db EXCEPT !.cat[c] = Cat(x.user, x.name)] IN
            Fresh(db.cat, c) /\ Commit(r, e, CatHint(db, e, c))
UpdateCategory(r) ==
  LET x == req[r]
      e == [db EXCEPT !.cat[x.cat].name = x.name] IN
  /\ x.pc = "category_edit"
  /\ IF x.cat \notin OwnCats(db, x.user) \/ ~NameFree(x.user, x.name, x.cat) THEN Refuse(r)
     ELSE Commit(r, e, CatHint(db, e, x.cat))

\* The tasks of a deleted category stay, without one (SET_NULL).
Without(d, c) ==
  [task |-> [t \in Tasks |-> IF t \in Live(d.task) /\ d.task[t].category = c
                             THEN [d.task[t] EXCEPT !.category = None] ELSE d.task[t]],
   cat |-> [d.cat EXCEPT ![c] = Gone]]
DeleteCategory(r) ==
  /\ Free(r)
  /\ \E u \in Users : \E c \in OwnCats(db, u) : Commit(r, Without(db, c), CatGoneHint(db, c))

-----------------------------------------------------------------------------
\* The Admin may give a row to another user.  A task's category has to be the
\* new owner's; a category's tasks are not looked at.

Give(r, e, hints) ==
  /\ Free(r) /\ transfers < MaxTransfers /\ transfers' = transfers + 1
  /\ Stored(r, e, hints) /\ Becomes(r, Done)
AdminTask(r) ==
  \E t \in Live(db.task), u \in Users, cat \in Cats \cup {None} :
    LET e == [db EXCEPT !.task[t].user = u, !.task[t].category = cat] IN
    u # db.task[t].user /\ cat \in Offered(u) /\ Give(r, e, TaskHint(db, e, t))
AdminCategory(r) ==
  \E c \in Live(db.cat), u \in Users :
    LET e == [db EXCEPT !.cat[c].user = u] IN
    u # db.cat[c].user /\ NameFree(u, db.cat[c].name, c) /\ Give(r, e, CatHint(db, e, c))

-----------------------------------------------------------------------------
\* A hint is published after its commit; the screens it tells look at the
\* rows as they are now.
Publish(r) ==
  \E h \in out[r] :
    /\ out' = [out EXCEPT ![r] = @ \ {h}]
    /\ stale' = {x \in stale : ~Tells(h, x[1], x[2])}
    /\ miscounted' = {u \in miscounted : ~Tells(h, u, CatList)}
    /\ UNCHANGED <<db, req, now, transfers>>

\* Time passes.
Tick == now' \in {i \in Clock : i > now} /\ UNCHANGED <<db, req, out, stale, miscounted, transfers>>

Serve(r) ==
  \/ DrawTask(r) \/ CheckTask(r) \/ CheckNewTask(r) \/ UpdateTask(r) \/ CreateTask(r)
  \/ ToggleTask(r) \/ DeleteTask(r)
  \/ CheckCategory(r) \/ CreateCategory(r) \/ UpdateCategory(r) \/ DeleteCategory(r)
  \/ AdminTask(r) \/ AdminCategory(r) \/ Publish(r)
Next == Tick \/ \E r \in Requests : Serve(r)
Spec == Init /\ [][Next]_vars
=============================================================================
