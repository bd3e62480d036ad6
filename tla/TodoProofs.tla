------------------------------ MODULE TodoProofs ------------------------------
(***************************************************************************)
(* What TodoProperties says of the TODO data, for any users, rows, names,   *)
(* deadlines, zones and requests, and any number of transfers; what         *)
(* TaskList says of a list, for any size of page, and Dashboard of the      *)
(* board, for any calendar, week and window.                                *)
(***************************************************************************)
EXTENDS Dashboard, TodoProperties, TLAPS, FiniteSetTheorems

-----------------------------------------------------------------------------
\* The invariant, conjunct by conjunct, over rows d of which n changed owner.

Kept(d, n) ==
  \A t \in Live(d.task) :
    LET c == d.task[t].category IN
    c # None => c \in Live(d.cat) /\ (n = 0 => d.cat[c].user = d.task[t].user)
Unique(d) ==
  \A u \in Users : \A b, c \in OwnCats(d, u) : Fold[d.cat[b].name] = Fold[d.cat[c].name] => b = c

\* What a request holds between two of its steps.
Holds(x) ==
  /\ x.pc = "form" => x.user \in Users /\ x.task \in Tasks
  /\ x.pc = "task_edit" =>
       /\ x.user \in Users /\ x.task \in Tasks /\ x.category \in Cats \cup {None}
       /\ x.due \in Deadlines /\ (x.carried /\ x.same => ~x.changed)
  /\ x.pc = "task_new" => x.user \in Users /\ x.category \in Cats \cup {None} /\ x.due \in Deadlines
  /\ x.pc = "category_new" => x.user \in Users /\ x.name \in Names
  /\ x.pc = "category_edit" => x.user \in Users /\ x.name \in Names /\ x.cat \in Cats
\* The category a request chose was there, and while rows keep their owner it
\* is still the user's or it is gone for good.
Chose(x, d, n) ==
  x.pc \in {"task_edit", "task_new"} /\ x.category # None =>
    /\ d.cat[x.category] # Unborn
    /\ x.category \in Live(d.cat) /\ n = 0 => d.cat[x.category].user = x.user

\* The screens that differ between d and e are told by one of the hints.
Covers(d, e, hints) ==
  \A u \in Users, s \in Lists \cup Objects :
    Own(d, u, s) # Own(e, u, s) => \E h \in hints : Tells(h, u, s)

Typed ==
  /\ db \in Database /\ transfers \in Nat /\ now \in Clock
  /\ DOMAIN req = Requests /\ DOMAIN out = Requests
  /\ \A r \in Requests : Holds(req[r])
IInv ==
  /\ Typed /\ Kept(db, transfers) /\ Unique(db)
  /\ \A r \in Requests : Chose(req[r], db, transfers)
  /\ \A r \in Requests : out[r] # {} => req[r].pc = "done"
  /\ stale \subseteq Users \X (Lists \cup Objects) /\ ScreensLearn

-----------------------------------------------------------------------------
\* Tables.

\* One row of a table is written.
LEMMA WriteTask ==
  ASSUME NEW d \in Database, NEW t \in Tasks, NEW row \in TaskRow \cup {Unborn, Gone}
  PROVE  LET e == [d EXCEPT !.task[t] = row] IN
         /\ e \in Database /\ e.cat = d.cat /\ e.task[t] = row
         /\ \A x \in Tasks \ {t} : e.task[x] = d.task[x]
BY DEF Database
LEMMA WriteCat ==
  ASSUME NEW d \in Database, NEW c \in Cats, NEW row \in CatRow \cup {Unborn, Gone}
  PROVE  LET e == [d EXCEPT !.cat[c] = row] IN
         /\ e \in Database /\ e.task = d.task /\ e.cat[c] = row
         /\ \A x \in Cats \ {c} : e.cat[x] = d.cat[x]
BY DEF Database

\* The live rows of a table.
LEMMA LiveRows ==
  ASSUME NEW d \in Database
  PROVE  /\ Live(d.task) \subseteq Tasks /\ Live(d.cat) \subseteq Cats
         /\ \A t \in Tasks : t \in Live(d.task) <=> d.task[t].state = "live"
         /\ \A c \in Cats : c \in Live(d.cat) <=> d.cat[c].state = "live"
         /\ \A t \in Live(d.task) : d.task[t] \in TaskRow
         /\ \A c \in Live(d.cat) : d.cat[c] \in CatRow
         /\ \A t \in Tasks : d.task[t] \in TaskRow \cup {Unborn, Gone}
         /\ \A c \in Cats : d.cat[c] \in CatRow \cup {Unborn, Gone}
BY DEF Database, Live, Unborn, Gone, TaskRow, CatRow

-----------------------------------------------------------------------------
\* What writes keep.

\* A task is written whose category is none, or there and its owner's.
LEMMA TaskWritten ==
  ASSUME NEW d \in Database, NEW e \in Database, NEW t \in Tasks, NEW n \in Nat,
         e.cat = d.cat, \A x \in Tasks \ {t} : e.task[x] = d.task[x],
         t \in Live(e.task) /\ e.task[t].category # None =>
           /\ e.task[t].category \in Live(d.cat)
           /\ n = 0 => d.cat[e.task[t].category].user = e.task[t].user,
         Kept(d, n), Unique(d)
  PROVE  Kept(e, n) /\ Unique(e)
<1>1. Unique(e)
  BY DEF Unique, OwnCats
<1>2. Kept(e, n)
  BY LiveRows DEF Kept
<1> QED
  BY <1>1, <1>2

\* A screen, and what it shows.
Counted(d, u, c) == Cardinality({t \in OwnTasks(d, u) : d.task[t].category = c})
CatLine(d, u, c) == [id |-> c, name |-> d.cat[c].name, tasks |-> Counted(d, u, c)]
TaskLines(d, u) == {Row(d, t) : t \in OwnTasks(d, u)}
CatLines(d, u) == {CatLine(d, u, c) : c \in OwnCats(d, u)}
TaskForm(d, u, t) == {d.task[x].due : x \in OwnTasks(d, u) \cap {t}}
CatForm(d, u, c) == {d.cat[x].name : x \in OwnCats(d, u) \cap {c}}
LEMMA Screens ==
  ASSUME NEW s \in Lists \cup Objects
  PROVE  \/ s = <<"task list", 0>>
         \/ s = <<"category list", 0>>
         \/ \E t \in Tasks : s = <<"tasks", t>>
         \/ \E c \in Cats : s = <<"categories", c>>
<1>1. CASE s \in Lists
  BY <1>1 DEF Lists
<1>2. CASE s \in {"tasks"} \X Tasks
  <2>1. s = <<s[1], s[2]>> /\ s[1] = "tasks" /\ s[2] \in Tasks
    BY <1>2
  <2> QED
    BY <2>1
<1>3. CASE s \in {"categories"} \X Cats
  <2>1. s = <<s[1], s[2]>> /\ s[1] = "categories" /\ s[2] \in Cats
    BY <1>3
  <2> QED
    BY <2>1
<1> QED
  BY <1>1, <1>2, <1>3 DEF Objects
LEMMA ScreenShows ==
  ASSUME NEW d, NEW u
  PROVE  /\ Own(d, u, <<"task list", 0>>) = TaskLines(d, u)
         /\ Own(d, u, <<"category list", 0>>) = CatLines(d, u)
         /\ \A t \in Tasks : Own(d, u, <<"tasks", t>>) = TaskForm(d, u, t)
         /\ \A c \in Cats : Own(d, u, <<"categories", c>>) = CatForm(d, u, c)
<1>1. Own(d, u, <<"task list", 0>>) = TaskLines(d, u)
  BY DEF Own, Shown, TaskLines
<1>2. Own(d, u, <<"category list", 0>>) = CatLines(d, u)
  BY DEF Own, CatRows, CatLines, CatLine, Counted
<1>3. ASSUME NEW t \in Tasks
      PROVE  Own(d, u, <<"tasks", t>>) = TaskForm(d, u, t)
  BY DEF Own, Shown, TaskForm
<1>4. ASSUME NEW c \in Cats
      PROVE  Own(d, u, <<"categories", c>>) = CatForm(d, u, c)
  BY DEF Own, Shown, CatForm
<1> QED
  BY <1>1, <1>2, <1>3, <1>4

\* A screen that differs is a list, or a form whose row differs.
Different(d, e, u, s) ==
  \/ s \in Lists /\ (TaskLines(d, u) # TaskLines(e, u) \/ CatLines(d, u) # CatLines(e, u))
  \/ \E t \in Tasks : s = <<"tasks", t>> /\ TaskForm(d, u, t) # TaskForm(e, u, t)
  \/ \E c \in Cats : s = <<"categories", c>> /\ CatForm(d, u, c) # CatForm(e, u, c)
LEMMA Differs ==
  ASSUME NEW d, NEW e, NEW u, NEW s \in Lists \cup Objects, Own(d, u, s) # Own(e, u, s)
  PROVE  Different(d, e, u, s)
<1>1. CASE s \in {<<"task list", 0>>, <<"category list", 0>>}
  BY <1>1, ScreenShows DEF Lists, Different
<1>2. ASSUME NEW t \in Tasks, s = <<"tasks", t>>
      PROVE  TaskForm(d, u, t) # TaskForm(e, u, t)
  BY <1>2, ScreenShows
<1>3. ASSUME NEW c \in Cats, s = <<"categories", c>>
      PROVE  CatForm(d, u, c) # CatForm(e, u, c)
  BY <1>3, ScreenShows
<1> QED
  BY <1>1, <1>2, <1>3, Screens DEF Different

\* A task's screens: its owners before and after see the lists and its form.
LEMMA TaskTold ==
  ASSUME NEW d \in Database, NEW e \in Database, NEW t \in Tasks,
         e.cat = d.cat, \A x \in Tasks \ {t} : e.task[x] = d.task[x]
  PROVE  Covers(d, e, TaskHint(d, e, t))
<1> SUFFICES ASSUME NEW u \in Users, NEW s \in Lists \cup Objects,
                    Own(d, u, s) # Own(e, u, s)
             PROVE  \E h \in TaskHint(d, e, t) : Tells(h, u, s)
  BY DEF Covers
<1> DEFINE O == TaskOwners(d, t) \cup TaskOwners(e, t)
           hint == [to |-> O, of |-> {"tasks"}, key |-> <<"tasks", t>>]
<1>d. Different(d, e, u, s)
  BY Differs
<1>1. OwnCats(d, u) = OwnCats(e, u)
  BY DEF OwnCats
<1>2. \A x \in Tasks \ {t} : x \in OwnTasks(d, u) <=> x \in OwnTasks(e, u)
  BY LiveRows DEF OwnTasks
<1>3. \A x \in Tasks \ {t} : Row(d, x) = Row(e, x)
  BY DEF Row
<1>4. \A c \in Cats : CatForm(d, u, c) = CatForm(e, u, c)
  BY <1>1 DEF CatForm
<1>5. ASSUME NEW x \in Tasks \ {t}
      PROVE  TaskForm(d, u, x) = TaskForm(e, u, x)
  BY <1>2 DEF TaskForm
<1>6. CASE u \notin O
  <2>1. t \notin OwnTasks(d, u) /\ t \notin OwnTasks(e, u)
    BY <1>6, LiveRows DEF OwnTasks, TaskOwners
  <2>2. OwnTasks(d, u) = OwnTasks(e, u) /\ OwnTasks(d, u) \subseteq Tasks \ {t}
    BY <1>2, <2>1, LiveRows DEF OwnTasks
  <2>3. TaskLines(d, u) = TaskLines(e, u)
    BY <1>3, <2>2 DEF TaskLines
  <2>4. \A c \in Cats : {x \in OwnTasks(d, u) : d.task[x].category = c}
                      = {x \in OwnTasks(e, u) : e.task[x].category = c}
    BY <2>2
  <2>5. \A c \in OwnCats(d, u) : CatLine(d, u, c) = CatLine(e, u, c)
    BY <2>4, LiveRows DEF CatLine, Counted, OwnCats
  <2>6. CatLines(d, u) = CatLines(e, u)
    BY <1>1, <2>5 DEF CatLines
  <2>7. TaskForm(d, u, t) = TaskForm(e, u, t)
    BY <2>1 DEF TaskForm
  <2>8. \A x \in Tasks : TaskForm(d, u, x) = TaskForm(e, u, x)
    BY <1>5, <2>7
  <2> QED
    BY <1>4, <2>3, <2>6, <2>8, <1>d DEF Different
<1>7. CASE u \in O
  <2>1. hint \in TaskHint(d, e, t)
    BY <1>7 DEF TaskHint, Hint
  <2>2. s \in Lists \/ s = <<"tasks", t>>
    BY <1>4, <1>5, <1>d DEF Different
  <2>3. Tells(hint, u, s)
    BY <1>7, <2>2 DEF Tells
  <2> QED
    BY <2>1, <2>3
<1> QED
  BY <1>6, <1>7

\* A category's screens: its owners before and after and the owners of its
\* tasks see the lists and its form.
LEMMA CatTold ==
  ASSUME NEW d \in Database, NEW e \in Database, NEW c \in Cats,
         e.task = d.task, \A x \in Cats \ {c} : e.cat[x] = d.cat[x]
  PROVE  Covers(d, e, CatHint(d, e, c))
<1> SUFFICES ASSUME NEW u \in Users, NEW s \in Lists \cup Objects,
                    Own(d, u, s) # Own(e, u, s)
             PROVE  \E h \in CatHint(d, e, c) : Tells(h, u, s)
  BY DEF Covers
<1> DEFINE O == CatOwners(d, c) \cup CatOwners(e, c)
           hint == [to |-> O, of |-> {"categories"}, key |-> <<"categories", c>>]
<1>d. Different(d, e, u, s)
  BY Differs
<1>1. OwnTasks(d, u) = OwnTasks(e, u)
  BY DEF OwnTasks
<1>2. \A x \in Cats \ {c} : x \in OwnCats(d, u) <=> x \in OwnCats(e, u)
  BY LiveRows DEF OwnCats
<1>3. \A t \in Tasks : TaskForm(d, u, t) = TaskForm(e, u, t)
  BY <1>1 DEF TaskForm
<1>4. ASSUME NEW x \in Cats \ {c}
      PROVE  CatForm(d, u, x) = CatForm(e, u, x)
  BY <1>2 DEF CatForm
<1>5. CASE u \notin O
  <2>1. c \notin OwnCats(d, u) /\ c \notin OwnCats(e, u)
    BY <1>5, LiveRows DEF OwnCats, CatOwners
  <2>2. OwnCats(d, u) = OwnCats(e, u) /\ OwnCats(d, u) \subseteq Cats \ {c}
    BY <1>2, <2>1, LiveRows DEF OwnCats
  <2>3. ASSUME NEW t \in OwnTasks(d, u)
        PROVE  Row(d, t) = Row(e, t)
    <3>1. d.task[t].category # c
      BY <1>5 DEF OwnTasks, CatOwners
    <3>2. Live(d.cat) \cap {d.task[t].category} = Live(e.cat) \cap {d.task[t].category}
      BY <3>1, LiveRows
    <3>3. \A x \in Live(d.cat) \cap {d.task[t].category} : d.cat[x] = e.cat[x]
      BY <3>1, LiveRows
    <3> QED
      BY <3>2, <3>3 DEF Row
  <2>4. TaskLines(d, u) = TaskLines(e, u)
    BY <1>1, <2>3 DEF TaskLines
  <2>5. \A x \in OwnCats(d, u) : CatLine(d, u, x) = CatLine(e, u, x)
    BY <1>1, <2>2 DEF CatLine, Counted
  <2>6. CatLines(d, u) = CatLines(e, u)
    BY <2>2, <2>5 DEF CatLines
  <2>7. CatForm(d, u, c) = CatForm(e, u, c)
    BY <2>1 DEF CatForm
  <2>8. \A x \in Cats : CatForm(d, u, x) = CatForm(e, u, x)
    BY <1>4, <2>7
  <2> QED
    BY <1>3, <2>4, <2>6, <2>8, <1>d DEF Different
<1>6. CASE u \in O
  <2>1. hint \in CatHint(d, e, c)
    BY <1>6 DEF CatHint, Hint
  <2>2. s \in Lists \/ s = <<"categories", c>>
    BY <1>3, <1>4, <1>d DEF Different
  <2>3. Tells(hint, u, s)
    BY <1>6, <2>2 DEF Tells
  <2> QED
    BY <2>1, <2>3
<1> QED
  BY <1>5, <1>6

\* A category that goes: its tasks stay, without one.
LEMMA WithoutCat ==
  ASSUME NEW d \in Database, NEW c \in Cats
  PROVE  LET e == Without(d, c) IN
         /\ e \in Database /\ e.cat[c] = Gone /\ c \notin Live(e.cat)
         /\ \A x \in Cats \ {c} : e.cat[x] = d.cat[x]
         /\ \A t \in Tasks : t \in Live(e.task) <=> t \in Live(d.task)
         /\ \A t \in Live(d.task) :
              /\ e.task[t].user = d.task[t].user /\ e.task[t].due = d.task[t].due
              /\ e.task[t].category = IF d.task[t].category = c THEN None ELSE d.task[t].category
              /\ d.task[t].category # c => e.task[t] = d.task[t]
<1> DEFINE e == Without(d, c)
<1>1. e.cat = [d.cat EXCEPT ![c] = Gone]
  BY DEF Without
<1>2. e.task = [t \in Tasks |-> IF t \in Live(d.task) /\ d.task[t].category = c
                                THEN [d.task[t] EXCEPT !.category = None] ELSE d.task[t]]
  BY DEF Without
<1>3. DOMAIN d.task = Tasks /\ DOMAIN d.cat = Cats
  BY DEF Database
<1>4. ASSUME NEW row \in TaskRow
      PROVE  LET r == [row EXCEPT !.category = None] IN
             /\ r \in TaskRow /\ r.category = None /\ r.state = "live"
             /\ r.user = row.user /\ r.due = row.due
  BY DEF TaskRow
<1>5. \A t \in Tasks : e.task[t] \in TaskRow \cup {Unborn, Gone}
  BY <1>2, <1>4, LiveRows
<1>6. e.task \in [Tasks -> TaskRow \cup {Unborn, Gone}]
  BY <1>2, <1>5
<1>7. e.cat \in [Cats -> CatRow \cup {Unborn, Gone}]
  BY <1>1 DEF Database
<1>8. e \in Database
  BY <1>6, <1>7 DEF Database, Without
<1>9. e.cat[c] = Gone /\ \A x \in Cats \ {c} : e.cat[x] = d.cat[x]
  BY <1>1, <1>3
<1>10. c \notin Live(e.cat)
  BY <1>9 DEF Live, Gone
<1>11. \A t \in Live(d.task) :
         /\ e.task[t].user = d.task[t].user /\ e.task[t].due = d.task[t].due
         /\ e.task[t].state = "live"
         /\ e.task[t].category = IF d.task[t].category = c THEN None ELSE d.task[t].category
         /\ d.task[t].category # c => e.task[t] = d.task[t]
  BY <1>2, <1>4, LiveRows DEF TaskRow
<1>12. \A t \in Tasks \ Live(d.task) : e.task[t] = d.task[t]
  BY <1>2
<1>13. \A t \in Tasks : t \in Live(e.task) <=> t \in Live(d.task)
  BY <1>8, <1>11, <1>12, LiveRows
<1> QED
  BY <1>8, <1>9, <1>10, <1>11, <1>13

LEMMA CatGoneTold ==
  ASSUME NEW d \in Database, NEW c \in Cats
  PROVE  Covers(d, Without(d, c), CatGoneHint(d, c))
<1> DEFINE e == Without(d, c)
<1> SUFFICES ASSUME NEW u \in Users, NEW s \in Lists \cup Objects,
                    Own(d, u, s) # Own(e, u, s)
             PROVE  \E h \in CatGoneHint(d, c) : Tells(h, u, s)
  BY DEF Covers
<1> DEFINE O == CatOwners(d, c)
           hint == [to |-> O, of |-> {"tasks", "categories"}, key |-> <<"categories", c>>]
<1>d. Different(d, e, u, s)
  BY Differs
<1>e. /\ e \in Database /\ c \notin Live(e.cat)
      /\ \A x \in Cats \ {c} : e.cat[x] = d.cat[x]
      /\ \A t \in Tasks : t \in Live(e.task) <=> t \in Live(d.task)
      /\ \A t \in Live(d.task) :
           /\ e.task[t].user = d.task[t].user /\ e.task[t].due = d.task[t].due
           /\ d.task[t].category # c => e.task[t] = d.task[t]
  BY WithoutCat
<1> HIDE DEF e
<1>1. OwnTasks(d, u) = OwnTasks(e, u)
  BY <1>e, LiveRows DEF OwnTasks
<1>2. \A x \in Cats \ {c} : x \in OwnCats(d, u) <=> x \in OwnCats(e, u)
  BY <1>e, LiveRows DEF OwnCats
<1>3. \A t \in Tasks : TaskForm(d, u, t) = TaskForm(e, u, t)
  BY <1>1, <1>e DEF TaskForm, OwnTasks
<1>4. ASSUME NEW x \in Cats \ {c}
      PROVE  CatForm(d, u, x) = CatForm(e, u, x)
  BY <1>2, <1>e DEF CatForm
<1>5. CASE u \notin O
  <2>1. c \notin OwnCats(d, u) /\ c \notin OwnCats(e, u)
    BY <1>5, <1>e, LiveRows DEF OwnCats, CatOwners
  <2>2. OwnCats(d, u) = OwnCats(e, u) /\ OwnCats(d, u) \subseteq Cats \ {c}
    BY <1>2, <1>e, <2>1, LiveRows DEF OwnCats
  <2>3. \A t \in OwnTasks(d, u) : d.task[t].category # c /\ e.task[t] = d.task[t]
    BY <1>5, <1>e DEF OwnTasks, CatOwners
  <2>4. ASSUME NEW t \in OwnTasks(d, u)
        PROVE  Row(d, t) = Row(e, t)
    <3>1. Live(d.cat) \cap {d.task[t].category} = Live(e.cat) \cap {d.task[t].category}
      BY <2>3, <1>e, LiveRows
    <3>2. \A x \in Live(d.cat) \cap {d.task[t].category} : d.cat[x] = e.cat[x]
      BY <2>3, <1>e, LiveRows
    <3> QED
      BY <2>3, <3>1, <3>2 DEF Row
  <2>5. TaskLines(d, u) = TaskLines(e, u)
    BY <1>1, <2>4 DEF TaskLines
  <2>6. \A x \in Cats : {t \in OwnTasks(d, u) : d.task[t].category = x}
                      = {t \in OwnTasks(e, u) : e.task[t].category = x}
    BY <1>1, <2>3
  <2>7. \A x \in OwnCats(d, u) : CatLine(d, u, x) = CatLine(e, u, x)
    BY <1>e, <2>2, <2>6 DEF CatLine, Counted
  <2>8. CatLines(d, u) = CatLines(e, u)
    BY <2>2, <2>7 DEF CatLines
  <2>9. CatForm(d, u, c) = CatForm(e, u, c)
    BY <2>1 DEF CatForm
  <2>10. \A x \in Cats : CatForm(d, u, x) = CatForm(e, u, x)
    BY <1>4, <2>9
  <2> QED
    BY <1>3, <2>5, <2>8, <2>10, <1>d DEF Different
<1>6. CASE u \in O
  <2>1. hint \in CatGoneHint(d, c)
    BY <1>6 DEF CatGoneHint, Hint
  <2>2. s \in Lists \/ s = <<"categories", c>>
    BY <1>3, <1>4, <1>d DEF Different
  <2>3. Tells(hint, u, s)
    BY <1>6, <2>2 DEF Tells
  <2> QED
    BY <2>1, <2>3
<1> QED
  BY <1>5, <1>6

-----------------------------------------------------------------------------
\* Steps.  A request that only reads goes on to x.
LEMMA Reads ==
  ASSUME IInv, NEW r \in Requests, NEW x, req[r].pc # "done",
         Read(r, x), Holds(x), Chose(x, db, transfers)
  PROVE  IInv'
<1>1. /\ db' = db /\ transfers' = transfers /\ now' = now /\ out' = out /\ stale' = stale
      /\ DOMAIN req' = Requests /\ req'[r] = x /\ \A q \in Requests \ {r} : req'[q] = req[q]
  BY DEF Read, Becomes, IInv, Typed
<1>2. Typed'
  BY <1>1 DEF IInv, Typed
<1>3. \A q \in Requests : Chose(req'[q], db', transfers')
  BY <1>1 DEF IInv
<1>4. \A q \in Requests : out'[q] # {} => req'[q].pc = "done"
  BY <1>1 DEF IInv
<1>5. ScreensLearn'
  BY <1>1 DEF IInv, ScreensLearn
<1> QED
  BY <1>1, <1>2, <1>3, <1>4, <1>5 DEF IInv, Kept, Unique

LEMMA Refuses ==
  ASSUME IInv, NEW r \in Requests, req[r].pc # "done", Refuse(r)
  PROVE  IInv'
<1>1. Holds(Done) /\ Chose(Done, db, transfers)
  BY DEF Holds, Chose, Done
<1> QED
  BY <1>1, Reads DEF Refuse

\* Categories that other requests chose: none becomes another user's.
Stay(d, e, n) ==
  \A c \in Cats : d.cat[c] # Unborn =>
    /\ e.cat[c] # Unborn
    /\ c \in Live(e.cat) /\ n = 0 => c \in Live(d.cat) /\ e.cat[c].user = d.cat[c].user

\* A transaction commits rows that keep what held, and tells the screens.
LEMMA Commits ==
  ASSUME IInv, NEW r \in Requests, req[r].pc # "done",
         NEW e \in Database, NEW hints, Stored(r, e, hints), Becomes(r, Done),
         transfers' \in Nat, transfers' = 0 => transfers = 0,
         Kept(e, transfers'), Unique(e), Stay(db, e, transfers'), Covers(db, e, hints)
  PROVE  IInv'
<1>1. /\ db' = e /\ now' = now /\ DOMAIN out' = Requests /\ out'[r] = hints
      /\ \A q \in Requests \ {r} : out'[q] = out[q]
      /\ DOMAIN req' = Requests /\ req'[r] = Done /\ \A q \in Requests \ {r} : req'[q] = req[q]
      /\ stale' = stale \cup {x \in Altered(db, e) : Own(db, x[1], x[2]) # Own(e, x[1], x[2])}
  BY DEF Stored, Becomes, IInv, Typed
<1>2. Holds(Done) /\ Chose(Done, e, transfers') /\ Done.pc = "done"
  BY DEF Holds, Chose, Done
<1>3. Typed'
  BY <1>1, <1>2 DEF IInv, Typed
<1>4. ASSUME NEW q \in Requests \ {r}
      PROVE  Chose(req'[q], db', transfers')
  <2> DEFINE x == req[q]
  <2>1. Chose(x, db, transfers) /\ Holds(x)
    BY DEF IInv, Typed
  <2>2. SUFFICES ASSUME x.pc \in {"task_edit", "task_new"}, x.category # None
                 PROVE  Chose(x, e, transfers')
    BY <1>1 DEF Chose
  <2>3. x.category \in Cats
    BY <2>1, <2>2 DEF Holds
  <2> QED
    BY <2>1, <2>2, <2>3 DEF Chose, Stay
<1>5. \A q \in Requests : Chose(req'[q], db', transfers')
  BY <1>1, <1>2, <1>4
<1>6. \A q \in Requests : out'[q] # {} => req'[q].pc = "done"
  BY <1>1, <1>2 DEF IInv
<1>7. stale' \subseteq Users \X (Lists \cup Objects)
  BY <1>1 DEF IInv, Altered
<1>8. ASSUME NEW x \in stale'
      PROVE  \E q \in Requests : \E h \in out'[q] : Tells(h, x[1], x[2])
  <2>1. CASE x \in stale
    <3>1. PICK q \in Requests : \E h \in out[q] : Tells(h, x[1], x[2])
      BY <2>1 DEF IInv, ScreensLearn
    <3>2. q # r
      BY <3>1 DEF IInv
    <3> QED
      BY <1>1, <3>1, <3>2
  <2>2. CASE x \notin stale
    <3>1. /\ x[1] \in Users /\ x[2] \in Lists \cup Objects
          /\ Own(db, x[1], x[2]) # Own(e, x[1], x[2])
      BY <1>1, <2>2 DEF Altered
    <3> QED
      BY <1>1, <3>1 DEF Covers
  <2> QED
    BY <2>1, <2>2
<1>9. ScreensLearn'
  BY <1>8 DEF ScreensLearn
<1>10. Kept(db', transfers') /\ Unique(db')
  BY <1>1
<1> QED
  BY <1>3, <1>5, <1>6, <1>7, <1>9, <1>10 DEF IInv, Kept, Unique

\* A commit that writes one task.
LEMMA TaskCommits ==
  ASSUME IInv, NEW r \in Requests, req[r].pc # "done", NEW t \in Tasks,
         NEW row \in TaskRow \cup {Unborn, Gone},
         row.state = "live" /\ row.category # None =>
           /\ row.category \in Live(db.cat)
           /\ transfers' = 0 => db.cat[row.category].user = row.user,
         transfers' \in Nat, transfers' = 0 => transfers = 0,
         Stored(r, [db EXCEPT !.task[t] = row], TaskHint(db, [db EXCEPT !.task[t] = row], t)),
         Becomes(r, Done)
  PROVE  IInv'
<1> DEFINE e == [db EXCEPT !.task[t] = row]
<1>1. /\ e \in Database /\ e.cat = db.cat /\ e.task[t] = row
      /\ \A x \in Tasks \ {t} : e.task[x] = db.task[x]
  BY WriteTask DEF IInv, Typed
<1>2. Stored(r, e, TaskHint(db, e, t))
  OBVIOUS
<1> HIDE DEF e
<1>3. db \in Database /\ Kept(db, transfers') /\ Unique(db)
  BY DEF IInv, Typed, Kept
<1>4. t \in Live(e.task) /\ e.task[t].category # None =>
        /\ e.task[t].category \in Live(db.cat)
        /\ transfers' = 0 => db.cat[e.task[t].category].user = e.task[t].user
  BY <1>1, LiveRows
<1>5. Kept(e, transfers') /\ Unique(e)
  BY <1>1, <1>3, <1>4, TaskWritten
<1>6. Stay(db, e, transfers')
  BY <1>1 DEF Stay
<1>7. Covers(db, e, TaskHint(db, e, t))
  BY <1>1, <1>3, TaskTold
<1> QED
  BY <1>1, <1>2, <1>5, <1>6, <1>7, Commits

\* A commit that writes one category: a new one, or one that was there; if it
\* is given to another user that is counted.
LEMMA CatCommits ==
  ASSUME IInv, NEW r \in Requests, req[r].pc # "done", NEW c \in Cats, NEW row \in CatRow,
         \/ db.cat[c] = Unborn
         \/ c \in Live(db.cat) /\ (transfers' = 0 => row.user = db.cat[c].user),
         NameFree(row.user, row.name, c),
         transfers' \in Nat, transfers' = 0 => transfers = 0,
         Stored(r, [db EXCEPT !.cat[c] = row], CatHint(db, [db EXCEPT !.cat[c] = row], c)),
         Becomes(r, Done)
  PROVE  IInv'
<1> DEFINE e == [db EXCEPT !.cat[c] = row]
<1>1. /\ e \in Database /\ e.task = db.task /\ e.cat[c] = row
      /\ \A x \in Cats \ {c} : e.cat[x] = db.cat[x]
  BY WriteCat DEF IInv, Typed
<1>2. Stored(r, e, CatHint(db, e, c))
  OBVIOUS
<1> HIDE DEF e
<1>3. db \in Database /\ Kept(db, transfers') /\ Unique(db)
  BY DEF IInv, Typed, Kept
<1>4. row # Unborn /\ row.state = "live"
  BY DEF CatRow, Unborn
<1>5. Live(e.cat) = Live(db.cat) \cup {c}
  BY <1>1, <1>3, <1>4, LiveRows
<1>6. Kept(e, transfers')
  <2> SUFFICES ASSUME NEW t \in Live(e.task), e.task[t].category # None
               PROVE  /\ e.task[t].category \in Live(e.cat)
                      /\ transfers' = 0 => e.cat[e.task[t].category].user = e.task[t].user
    BY DEF Kept
  <2>1. /\ db.task[t].category \in Live(db.cat)
        /\ transfers' = 0 => db.cat[db.task[t].category].user = db.task[t].user
    BY <1>1, <1>3 DEF Kept
  <2>2. db.task[t].category = c => db.cat[c] # Unborn
    BY <2>1, <1>3, LiveRows DEF Unborn
  <2> QED
    BY <1>1, <1>3, <1>5, <2>1, <2>2, LiveRows
<1>7. Unique(e)
  <2> SUFFICES ASSUME NEW u \in Users, NEW a \in OwnCats(e, u), NEW b \in OwnCats(e, u),
                      Fold[e.cat[a].name] = Fold[e.cat[b].name]
               PROVE  a = b
    BY DEF Unique
  <2>1. \A x \in OwnCats(e, u) \ {c} : x \in OwnCats(db, u) /\ e.cat[x] = db.cat[x]
    BY <1>1, <1>3, <1>5, LiveRows DEF OwnCats
  <2>2. c \in OwnCats(e, u) => row.user = u
    BY <1>1 DEF OwnCats
  <2>3. \A x \in OwnCats(db, u) \ {c} : row.user = u => Fold[db.cat[x].name] # Fold[row.name]
    BY DEF NameFree
  <2>4. CASE a # c /\ b # c
    BY <1>3, <2>1, <2>4 DEF Unique
  <2>5. CASE a = c \/ b = c
    BY <1>1, <2>1, <2>2, <2>3, <2>5
  <2> QED
    BY <2>4, <2>5
<1>8. Stay(db, e, transfers')
  BY <1>1, <1>3, <1>4, LiveRows DEF Stay
<1>9. Covers(db, e, CatHint(db, e, c))
  BY <1>1, <1>3, CatTold
<1> QED
  BY <1>1, <1>2, <1>6, <1>7, <1>8, <1>9, Commits

-----------------------------------------------------------------------------
\* Every action keeps the invariant.

LEMMA StartsHold ==
  ASSUME Init
  PROVE  IInv
<1>1. db \in Database /\ Unique(db)
  BY StartsAssumption DEF Init, Unique
<1>2. Kept(db, transfers)
  BY StartsAssumption DEF Init, Kept, OwnCats
<1>3. \A r \in Requests : req[r] = Idle /\ out[r] = {} /\ Idle.pc = "idle"
  BY DEF Init, Idle
<1>4. Typed
  BY <1>1, <1>3, DeadlinesAssumption DEF Init, Typed, Holds
<1>5. \A r \in Requests : Chose(req[r], db, transfers)
  BY <1>3 DEF Chose
<1> QED
  BY <1>1, <1>2, <1>3, <1>4, <1>5 DEF IInv, Init, ScreensLearn

\* Tasks.
LEMMA DrawTaskKeeps ==
  ASSUME IInv, NEW r \in Requests, DrawTask(r)
  PROVE  IInv'
<1>1. PICK u \in Users, z \in Zones : \E t \in OwnTasks(db, u), carried \in BOOLEAN :
        Read(r, [pc |-> "form", user |-> u, task |-> t,
                 shown |-> Wall[z][db.task[t].due], carried |-> carried])
  BY DEF DrawTask
<1>2. PICK t \in OwnTasks(db, u), carried \in BOOLEAN :
        Read(r, [pc |-> "form", user |-> u, task |-> t,
                 shown |-> Wall[z][db.task[t].due], carried |-> carried])
  BY <1>1
<1> DEFINE x == [pc |-> "form", user |-> u, task |-> t,
                 shown |-> Wall[z][db.task[t].due], carried |-> carried]
<1>3. t \in Tasks
  BY LiveRows DEF OwnTasks, IInv, Typed
<1>4. Holds(x) /\ Chose(x, db, transfers)
  BY <1>3 DEF Holds, Chose
<1> QED
  BY <1>2, <1>4, Reads DEF DrawTask, Free

\* The category a form accepted, by what it means afterwards.
LEMMA OfferedChosen ==
  ASSUME IInv, NEW u \in Users, NEW c \in Offered(u)
  PROVE  /\ c \in Cats \cup {None}
         /\ c # None => c \in Live(db.cat) /\ db.cat[c].user = u /\ db.cat[c] # Unborn
BY LiveRows DEF Offered, OwnCats, IInv, Typed, Unborn

LEMMA CheckTaskKeeps ==
  ASSUME IInv, NEW r \in Requests, CheckTask(r)
  PROVE  IInv'
<1> DEFINE x == req[r]
           stored == db.task[x.task].due
<1>1. x.pc = "form" /\ x.user \in Users /\ x.task \in Tasks
  BY DEF CheckTask, IInv, Typed, Holds
<1>2. CASE Refuse(r)
  BY <1>1, <1>2, Refuses
<1>3. CASE ~Refuse(r)
  <2>1. x.task \in OwnTasks(db, x.user)
    BY <1>3 DEF CheckTask
  <2>2. PICK z \in Zones, cat \in Cats \cup {None} :
          \E posted \in DOMAIN Instant[z] \cup {x.shown} :
            LET changed == NothingShown(x, stored) \/ Changed(x, posted, Wall[z][stored]) IN
            /\ cat \in Offered(x.user)
            /\ changed => posted \in DOMAIN Instant[z]
            /\ Read(r, [pc |-> "task_edit", user |-> x.user, task |-> x.task, carried |-> x.carried,
                        same |-> posted = x.shown, category |-> cat, changed |-> changed,
                        due |-> IF changed THEN Instant[z][posted] ELSE stored])
    BY <1>3, <2>1 DEF CheckTask
  <2>3. PICK posted \in DOMAIN Instant[z] \cup {x.shown} :
          LET changed == NothingShown(x, stored) \/ Changed(x, posted, Wall[z][stored]) IN
          /\ cat \in Offered(x.user)
          /\ changed => posted \in DOMAIN Instant[z]
          /\ Read(r, [pc |-> "task_edit", user |-> x.user, task |-> x.task, carried |-> x.carried,
                      same |-> posted = x.shown, category |-> cat, changed |-> changed,
                      due |-> IF changed THEN Instant[z][posted] ELSE stored])
    BY <2>2
  <2> DEFINE changed == NothingShown(x, stored) \/ Changed(x, posted, Wall[z][stored])
             due == IF changed THEN Instant[z][posted] ELSE stored
             y == [pc |-> "task_edit", user |-> x.user, task |-> x.task, carried |-> x.carried,
                   same |-> posted = x.shown, category |-> cat, changed |-> changed, due |-> due]
  <2>4. stored \in Deadlines
    BY <2>1, LiveRows DEF OwnTasks, IInv, Typed, TaskRow
  <2>5. due \in Deadlines
    BY <2>3, <2>4, DeadlinesAssumption
  <2>6. x.carried /\ posted = x.shown => ~changed
    BY DEF NothingShown, Changed
  <2> HIDE DEF due, changed, stored
  <2>7. Holds(y)
    BY <1>1, <2>5, <2>6 DEF Holds
  <2>8. Chose(y, db, transfers)
    BY <1>1, <2>3, OfferedChosen DEF Chose
  <2>9. Read(r, y)
    BY <2>3 DEF due, changed, stored
  <2> QED
    BY <1>1, <2>7, <2>8, <2>9, Reads
<1> QED
  BY <1>2, <1>3

LEMMA CheckNewTaskKeeps ==
  ASSUME IInv, NEW r \in Requests, CheckNewTask(r)
  PROVE  IInv'
<1>1. PICK u \in Users, z \in Zones : \E cat \in Offered(u), posted \in DOMAIN Instant[z] :
        Read(r, [pc |-> "task_new", user |-> u, category |-> cat, due |-> Instant[z][posted]])
  BY DEF CheckNewTask
<1>2. PICK cat \in Offered(u), posted \in DOMAIN Instant[z] :
        Read(r, [pc |-> "task_new", user |-> u, category |-> cat, due |-> Instant[z][posted]])
  BY <1>1
<1> DEFINE x == [pc |-> "task_new", user |-> u, category |-> cat, due |-> Instant[z][posted]]
<1>3. Instant[z][posted] \in Deadlines
  BY DeadlinesAssumption
<1>4. Holds(x)
  BY <1>3, OfferedChosen DEF Holds
<1>5. Chose(x, db, transfers)
  BY OfferedChosen DEF Chose
<1> QED
  BY <1>2, <1>4, <1>5, Reads DEF CheckNewTask, Free

\* A commit changes no owner.
LEMMA CommitIs ==
  ASSUME IInv, NEW r, NEW e, NEW hints, Commit(r, e, hints)
  PROVE  /\ Stored(r, e, hints) /\ Becomes(r, Done)
         /\ transfers' = transfers /\ transfers' \in Nat /\ (transfers' = 0 => transfers = 0)
BY DEF Commit, IInv, Typed

LEMMA UpdateTaskKeeps ==
  ASSUME IInv, NEW r \in Requests, UpdateTask(r)
  PROVE  IInv'
<1> DEFINE x == req[r]
           row == Edited(x)
<1>1. /\ x.pc = "task_edit" /\ x.user \in Users /\ x.task \in Tasks
      /\ x.category \in Cats \cup {None} /\ x.due \in Deadlines
  BY DEF UpdateTask, IInv, Typed, Holds
<1>2. CASE Refuse(r)
  BY <1>1, <1>2, Refuses
<1>3. CASE ~Refuse(r)
  <2>1. /\ x.task \in OwnTasks(db, x.user) /\ x.category \in Live(db.cat) \cup {None}
        /\ Commit(r, [db EXCEPT !.task[x.task] = row],
                  TaskHint(db, [db EXCEPT !.task[x.task] = row], x.task))
    BY <1>3 DEF UpdateTask, Clean
  <2>2. db.task[x.task] \in TaskRow /\ db.task[x.task].user = x.user
    BY <2>1, LiveRows DEF OwnTasks, IInv, Typed
  <2>3. row \in TaskRow /\ row.category = x.category /\ row.user = x.user
    BY <1>1, <2>2 DEF Edited, TaskRow
  <2>4. x.category # None => x.category \in Live(db.cat)
                             /\ (transfers = 0 => db.cat[x.category].user = x.user)
    BY <1>1, <2>1 DEF IInv, Chose
  <2> HIDE DEF row
  <2> QED
    BY <1>1, <2>1, <2>3, <2>4, CommitIs, TaskCommits
<1> QED
  BY <1>2, <1>3

LEMMA CreateTaskKeeps ==
  ASSUME IInv, NEW r \in Requests, CreateTask(r)
  PROVE  IInv'
<1> DEFINE x == req[r]
           row == Task(x.user, x.category, x.due)
<1>1. /\ x.pc = "task_new" /\ x.user \in Users
      /\ x.category \in Cats \cup {None} /\ x.due \in Deadlines
  BY DEF CreateTask, IInv, Typed, Holds
<1>2. CASE Refuse(r)
  BY <1>1, <1>2, Refuses
<1>3. CASE ~Refuse(r)
  <2>1. PICK t \in Tasks :
          Commit(r, [db EXCEPT !.task[t] = row], TaskHint(db, [db EXCEPT !.task[t] = row], t))
    BY <1>3 DEF CreateTask
  <2>2. row \in TaskRow /\ row.category = x.category /\ row.user = x.user
    BY <1>1 DEF Task, TaskRow
  <2>3. x.category # None => x.category \in Live(db.cat)
                             /\ (transfers = 0 => db.cat[x.category].user = x.user)
    BY <1>1, <1>3 DEF IInv, Chose, CreateTask, Clean
  <2> HIDE DEF row
  <2> QED
    BY <1>1, <2>1, <2>2, <2>3, CommitIs, TaskCommits
<1> QED
  BY <1>2, <1>3

LEMMA ToggleTaskKeeps ==
  ASSUME IInv, NEW r \in Requests, ToggleTask(r)
  PROVE  IInv'
<1>1. PICK u \in Users : \E t \in OwnTasks(db, u) :
        LET e == [db EXCEPT !.task[t].done = IF @ = 0 THEN now ELSE 0] IN
        Commit(r, e, TaskHint(db, e, t))
  BY DEF ToggleTask
<1>2. PICK t \in OwnTasks(db, u) :
        LET e == [db EXCEPT !.task[t].done = IF @ = 0 THEN now ELSE 0] IN
        Commit(r, e, TaskHint(db, e, t))
  BY <1>1
<1> DEFINE row == [db.task[t] EXCEPT !.done = IF @ = 0 THEN now ELSE 0]
<1>3. t \in Live(db.task) /\ t \in Tasks /\ db.task[t] \in TaskRow
  BY LiveRows DEF OwnTasks, IInv, Typed
<1>4. [db EXCEPT !.task[t].done = IF @ = 0 THEN now ELSE 0] = [db EXCEPT !.task[t] = row]
  BY <1>3 DEF IInv, Typed, Database
<1>5. row \in TaskRow /\ row.category = db.task[t].category /\ row.user = db.task[t].user
  BY <1>3, DeadlinesAssumption DEF TaskRow, IInv, Typed
<1>6. row.category # None => row.category \in Live(db.cat)
                             /\ (transfers = 0 => db.cat[row.category].user = row.user)
  BY <1>3, <1>5 DEF IInv, Kept
<1> HIDE DEF row
<1>7. Commit(r, [db EXCEPT !.task[t] = row], TaskHint(db, [db EXCEPT !.task[t] = row], t))
  BY <1>2, <1>4
<1> QED
  BY <1>3, <1>5, <1>6, <1>7, CommitIs, TaskCommits DEF ToggleTask, Free

LEMMA DeleteTaskKeeps ==
  ASSUME IInv, NEW r \in Requests, DeleteTask(r)
  PROVE  IInv'
<1>1. PICK u \in Users : \E t \in OwnTasks(db, u) :
        Commit(r, [db EXCEPT !.task[t] = Gone], TaskHint(db, db, t))
  BY DEF DeleteTask
<1>2. PICK t \in OwnTasks(db, u) : Commit(r, [db EXCEPT !.task[t] = Gone], TaskHint(db, db, t))
  BY <1>1
<1> DEFINE e == [db EXCEPT !.task[t] = Gone]
<1>3. t \in Tasks /\ db \in Database
  BY LiveRows DEF OwnTasks, IInv, Typed
<1>4. e \in Database /\ e.task[t] = Gone
  BY <1>3, WriteTask
<1>5. t \notin Live(e.task)
  BY <1>4 DEF Live, Gone
<1>6. TaskOwners(e, t) = {}
  BY <1>5 DEF TaskOwners
<1>7. TaskHint(db, db, t) = TaskHint(db, e, t)
  BY <1>6 DEF TaskHint
<1>8. Stored(r, e, TaskHint(db, e, t)) /\ Becomes(r, Done)
      /\ transfers' = transfers /\ transfers' \in Nat
  BY <1>2, <1>7, CommitIs
<1>9. Gone.state # "live"
  BY DEF Gone
<1> QED
  BY <1>3, <1>8, <1>9, TaskCommits DEF DeleteTask, Free

\* Categories.
LEMMA CheckCategoryKeeps ==
  ASSUME IInv, NEW r \in Requests, CheckCategory(r)
  PROVE  IInv'
<1>1. PICK u \in Users, name \in Names : \E c \in OwnCats(db, u) \cup {None} :
        Read(r, [pc |-> IF c = None THEN "category_new" ELSE "category_edit",
                 user |-> u, cat |-> c, name |-> name])
  BY DEF CheckCategory
<1>2. PICK c \in OwnCats(db, u) \cup {None} :
        Read(r, [pc |-> IF c = None THEN "category_new" ELSE "category_edit",
                 user |-> u, cat |-> c, name |-> name])
  BY <1>1
<1> DEFINE x == [pc |-> IF c = None THEN "category_new" ELSE "category_edit",
                 user |-> u, cat |-> c, name |-> name]
<1>3. c # None => c \in Cats
  BY LiveRows DEF OwnCats, IInv, Typed
<1>4. Holds(x)
  BY <1>3 DEF Holds
<1>5. Chose(x, db, transfers)
  BY DEF Chose
<1> QED
  BY <1>2, <1>4, <1>5, Reads DEF CheckCategory, Free

LEMMA CreateCategoryKeeps ==
  ASSUME IInv, NEW r \in Requests, CreateCategory(r)
  PROVE  IInv'
<1> DEFINE x == req[r]
           row == Cat(x.user, x.name)
<1>1. x.pc = "category_new" /\ x.user \in Users /\ x.name \in Names
  BY DEF CreateCategory, IInv, Typed, Holds
<1>2. CASE Refuse(r)
  BY <1>1, <1>2, Refuses
<1>3. CASE ~Refuse(r)
  <2>1. NameFree(x.user, x.name, None)
    BY <1>3 DEF CreateCategory
  <2>2. PICK c \in Cats :
          /\ db.cat[c] = Unborn
          /\ Commit(r, [db EXCEPT !.cat[c] = row], CatHint(db, [db EXCEPT !.cat[c] = row], c))
    BY <1>3 DEF CreateCategory, Fresh
  <2>3. row \in CatRow /\ row.user = x.user /\ row.name = x.name
    BY <1>1 DEF Cat, CatRow
  <2>4. None \notin OwnCats(db, x.user)
    BY LiveRows, IdAssumption DEF OwnCats, IInv, Typed
  <2>5. NameFree(row.user, row.name, c)
    BY <2>1, <2>3, <2>4 DEF NameFree
  <2> HIDE DEF row
  <2> QED
    BY <1>1, <2>2, <2>3, <2>5, CommitIs, CatCommits
<1> QED
  BY <1>2, <1>3

LEMMA UpdateCategoryKeeps ==
  ASSUME IInv, NEW r \in Requests, UpdateCategory(r)
  PROVE  IInv'
<1> DEFINE x == req[r]
           c == x.cat
           row == [db.cat[c] EXCEPT !.name = x.name]
<1>1. x.pc = "category_edit" /\ x.user \in Users /\ x.name \in Names /\ c \in Cats
  BY DEF UpdateCategory, IInv, Typed, Holds
<1>2. CASE Refuse(r)
  BY <1>1, <1>2, Refuses
<1>3. CASE ~Refuse(r)
  <2>1. c \in OwnCats(db, x.user) /\ NameFree(x.user, x.name, c)
    BY <1>3 DEF UpdateCategory
  <2>2. c \in Live(db.cat) /\ db.cat[c] \in CatRow /\ db.cat[c].user = x.user
    BY <2>1, LiveRows DEF OwnCats, IInv, Typed
  <2>3. [db EXCEPT !.cat[c].name = x.name] = [db EXCEPT !.cat[c] = row]
    BY <1>1 DEF IInv, Typed, Database
  <2>4. row \in CatRow /\ row.user = x.user /\ row.name = x.name
    BY <1>1, <2>2 DEF CatRow
  <2> HIDE DEF row
  <2>5. Commit(r, [db EXCEPT !.cat[c] = row], CatHint(db, [db EXCEPT !.cat[c] = row], c))
    BY <1>3, <2>1, <2>3 DEF UpdateCategory
  <2> QED
    BY <1>1, <2>1, <2>2, <2>4, <2>5, CommitIs, CatCommits
<1> QED
  BY <1>2, <1>3

LEMMA DeleteCategoryKeeps ==
  ASSUME IInv, NEW r \in Requests, DeleteCategory(r)
  PROVE  IInv'
<1>1. PICK u \in Users : \E c \in OwnCats(db, u) :
        Commit(r, Without(db, c), CatGoneHint(db, c))
  BY DEF DeleteCategory
<1>2. PICK c \in OwnCats(db, u) : Commit(r, Without(db, c), CatGoneHint(db, c))
  BY <1>1
<1> DEFINE e == Without(db, c)
<1>3. c \in Cats /\ db \in Database
  BY LiveRows DEF OwnCats, IInv, Typed
<1>4. /\ e \in Database /\ e.cat[c] = Gone /\ c \notin Live(e.cat)
      /\ \A x \in Cats \ {c} : e.cat[x] = db.cat[x]
      /\ \A t \in Tasks : t \in Live(e.task) <=> t \in Live(db.task)
      /\ \A t \in Live(db.task) :
           /\ e.task[t].user = db.task[t].user
           /\ e.task[t].category = IF db.task[t].category = c THEN None ELSE db.task[t].category
  BY <1>3, WithoutCat
<1>5. Covers(db, e, CatGoneHint(db, c))
  BY <1>3, CatGoneTold
<1>6. Stored(r, e, CatGoneHint(db, c)) /\ Becomes(r, Done)
      /\ transfers' = transfers /\ transfers' \in Nat
  BY <1>2, CommitIs
<1> HIDE DEF e
<1>7. \A x \in Live(e.cat) : x # c /\ x \in Live(db.cat) /\ e.cat[x] = db.cat[x]
  BY <1>3, <1>4, LiveRows
<1>8. \A x \in Live(db.cat) \ {c} : x \in Live(e.cat) /\ e.cat[x] = db.cat[x]
  BY <1>3, <1>4, LiveRows
<1>9. Kept(e, transfers)
  <2> SUFFICES ASSUME NEW t \in Live(e.task), e.task[t].category # None
               PROVE  /\ e.task[t].category \in Live(e.cat)
                      /\ transfers = 0 => e.cat[e.task[t].category].user = e.task[t].user
    BY DEF Kept
  <2>1. t \in Live(db.task)
    BY <1>4, LiveRows
  <2>2. /\ e.task[t].category = db.task[t].category /\ db.task[t].category # c
        /\ e.task[t].user = db.task[t].user
    BY <1>4, <2>1
  <2> QED
    BY <1>8, <2>1, <2>2 DEF IInv, Kept
<1>10. Unique(e)
  <2> SUFFICES ASSUME NEW v \in Users, NEW a \in OwnCats(e, v), NEW b \in OwnCats(e, v),
                      Fold[e.cat[a].name] = Fold[e.cat[b].name]
               PROVE  a = b
    BY DEF Unique
  <2> QED
    BY <1>7 DEF IInv, Unique, OwnCats
<1>11. Gone # Unborn
  BY DEF Gone, Unborn
<1>12. Stay(db, e, transfers)
  BY <1>4, <1>7, <1>11 DEF Stay
<1> QED
  BY <1>4, <1>5, <1>6, <1>9, <1>10, <1>12, Commits DEF DeleteCategory, Free

\* The Admin.
LEMMA GiveIs ==
  ASSUME IInv, NEW r, NEW e, NEW hints, Give(r, e, hints)
  PROVE  /\ Stored(r, e, hints) /\ Becomes(r, Done) /\ req[r].pc # "done"
         /\ transfers' \in Nat /\ transfers' # 0
BY DEF Give, Free, IInv, Typed

LEMMA AdminTaskKeeps ==
  ASSUME IInv, NEW r \in Requests, AdminTask(r)
  PROVE  IInv'
<1>1. PICK t \in Live(db.task), u \in Users, c \in Cats \cup {None} :
        LET e == [db EXCEPT !.task[t].user = u, !.task[t].category = c] IN
        c \in Offered(u) /\ Give(r, e, TaskHint(db, e, t))
  BY DEF AdminTask
<1> DEFINE row == [db.task[t] EXCEPT !.user = u, !.category = c]
<1>2. t \in Tasks /\ db.task[t] \in TaskRow /\ db \in Database
  BY LiveRows DEF IInv, Typed
<1>3. [db EXCEPT !.task[t].user = u, !.task[t].category = c] = [db EXCEPT !.task[t] = row]
  BY <1>2 DEF Database, TaskRow
<1>4. row \in TaskRow /\ row.category = c
  BY <1>2 DEF TaskRow
<1>5. c # None => c \in Live(db.cat)
  BY <1>1, OfferedChosen
<1> HIDE DEF row
<1>6. Give(r, [db EXCEPT !.task[t] = row], TaskHint(db, [db EXCEPT !.task[t] = row], t))
  BY <1>1, <1>3
<1> QED
  BY <1>2, <1>4, <1>5, <1>6, GiveIs, TaskCommits

LEMMA AdminCategoryKeeps ==
  ASSUME IInv, NEW r \in Requests, AdminCategory(r)
  PROVE  IInv'
<1>1. PICK c \in Live(db.cat), u \in Users :
        LET e == [db EXCEPT !.cat[c].user = u] IN
        /\ u # db.cat[c].user /\ NameFree(u, db.cat[c].name, c)
        /\ Give(r, e, CatHint(db, e, c))
  BY DEF AdminCategory
<1> DEFINE row == [db.cat[c] EXCEPT !.user = u]
<1>2. c \in Cats /\ db.cat[c] \in CatRow /\ db \in Database
  BY LiveRows DEF IInv, Typed
<1>3. [db EXCEPT !.cat[c].user = u] = [db EXCEPT !.cat[c] = row]
  BY <1>2 DEF Database
<1>4. row \in CatRow /\ row.user = u /\ row.name = db.cat[c].name
  BY <1>2 DEF CatRow
<1> HIDE DEF row
<1>5. Give(r, [db EXCEPT !.cat[c] = row], CatHint(db, [db EXCEPT !.cat[c] = row], c))
  BY <1>1, <1>3
<1> QED
  BY <1>1, <1>2, <1>4, <1>5, GiveIs, CatCommits

\* A hint that is published reaches the screens it tells: those still behind
\* are told by another one.
LEMMA PublishKeeps ==
  ASSUME IInv, NEW r \in Requests, Publish(r)
  PROVE  IInv'
<1>1. PICK h \in out[r] :
        /\ out' = [out EXCEPT ![r] = @ \ {h}]
        /\ stale' = {x \in stale : ~Tells(h, x[1], x[2])}
        /\ UNCHANGED <<db, req, now, transfers>>
  BY DEF Publish
<1>2. /\ DOMAIN out' = Requests /\ out'[r] = out[r] \ {h}
      /\ \A q \in Requests \ {r} : out'[q] = out[q]
  BY <1>1 DEF IInv, Typed
<1>3. ASSUME NEW x \in stale'
      PROVE  \E q \in Requests : \E g \in out'[q] : Tells(g, x[1], x[2])
  <2>1. PICK q \in Requests : \E g \in out[q] : Tells(g, x[1], x[2])
    BY <1>1 DEF IInv, ScreensLearn
  <2>2. PICK g \in out[q] : Tells(g, x[1], x[2])
    BY <2>1
  <2>3. g # h
    BY <1>1, <2>2
  <2> QED
    BY <1>2, <2>2, <2>3
<1>4. ScreensLearn'
  BY <1>3 DEF ScreensLearn
<1>5. \A q \in Requests : out'[q] # {} => req'[q].pc = "done"
  BY <1>1, <1>2 DEF IInv
<1>6. Typed'
  BY <1>1, <1>2 DEF IInv, Typed
<1> QED
  BY <1>1, <1>4, <1>5, <1>6 DEF IInv, Kept, Unique

LEMMA TickKeeps ==
  ASSUME IInv, Tick
  PROVE  IInv'
<1>1. Typed'
  BY DeadlinesAssumption DEF Tick, IInv, Typed
<1> QED
  BY <1>1 DEF Tick, IInv, Kept, Unique, ScreensLearn

LEMMA NextKeeps ==
  ASSUME IInv, [Next]_vars
  PROVE  IInv'
<1>1. CASE Tick
  BY <1>1, TickKeeps
<1>2. ASSUME NEW r \in Requests, Serve(r)
      PROVE  IInv'
  BY <1>2, DrawTaskKeeps, CheckTaskKeeps, CheckNewTaskKeeps, UpdateTaskKeeps, CreateTaskKeeps,
     ToggleTaskKeeps, DeleteTaskKeeps, CheckCategoryKeeps, CreateCategoryKeeps,
     UpdateCategoryKeeps, DeleteCategoryKeeps, AdminTaskKeeps, AdminCategoryKeeps, PublishKeeps
     DEF Serve
<1>3. CASE UNCHANGED vars
  BY <1>3 DEF vars, IInv, Typed, Kept, Unique, ScreensLearn
<1> QED
  BY <1>1, <1>2, <1>3 DEF Next

-----------------------------------------------------------------------------
\* A save that posts back the schedule its form showed.

\* The only step on which an edit that was checked is done is its update, or
\* its refusal.
LEMMA EditEnds ==
  ASSUME IInv, [Next]_vars, NEW r \in Requests, req[r].pc = "task_edit", req'[r].pc = "done"
  PROVE  UpdateTask(r)
<1>1. CASE Tick \/ UNCHANGED vars
  BY <1>1 DEF Tick, vars
<1>2. ASSUME NEW q \in Requests, Serve(q), q # r
      PROVE  req'[r] = req[r]
  <2>1. \A x : Becomes(q, x) => req'[r] = req[r]
    BY <1>2 DEF Becomes, IInv, Typed
  <2>2. CASE Publish(q)
    BY <2>2 DEF Publish
  <2>3. CASE DrawTask(q) \/ CheckNewTask(q) \/ CheckCategory(q)
    BY <2>1, <2>3 DEF DrawTask, CheckNewTask, CheckCategory, Read
  <2>4. CASE CheckTask(q)
    BY <2>1, <2>4 DEF CheckTask, Refuse, Read
  <2>5. CASE UpdateTask(q) \/ CreateTask(q) \/ ToggleTask(q) \/ DeleteTask(q)
    BY <2>1, <2>5 DEF UpdateTask, CreateTask, ToggleTask, DeleteTask, Refuse, Read, Commit
  <2>6. CASE CreateCategory(q) \/ UpdateCategory(q) \/ DeleteCategory(q)
    BY <2>1, <2>6 DEF CreateCategory, UpdateCategory, DeleteCategory, Refuse, Read, Commit
  <2>7. CASE AdminTask(q) \/ AdminCategory(q)
    BY <2>1, <2>7 DEF AdminTask, AdminCategory, Give
  <2> QED
    BY <1>2, <2>2, <2>3, <2>4, <2>5, <2>6, <2>7 DEF Serve
<1>3. CASE Serve(r)
  <2>1. ~Free(r) /\ req'[r] # req[r]
    BY DEF Free
  <2> QED
    BY <1>3, <2>1 DEF Serve, Publish, DrawTask, CheckTask, CheckNewTask, CreateTask, ToggleTask,
       DeleteTask, CheckCategory, CreateCategory, UpdateCategory, DeleteCategory, AdminTask,
       AdminCategory, Give, Free
<1> QED
  BY <1>1, <1>2, <1>3 DEF Next

LEMMA EditKeepsSchedules ==
  ASSUME IInv, [Next]_vars
  PROVE  \A r \in Requests :
           req[r].pc = "task_edit" /\ req'[r].pc = "done" /\ req[r].carried /\ req[r].same
             => \A t \in Live(db.task) : t \in Live(db'.task) => db'.task[t].due = db.task[t].due
<1> SUFFICES ASSUME NEW r \in Requests, req[r].pc = "task_edit", req'[r].pc = "done",
                    req[r].carried, req[r].same, NEW t \in Live(db.task)
             PROVE  db'.task[t].due = db.task[t].due
  OBVIOUS
<1> DEFINE x == req[r]
<1>1. UpdateTask(r) /\ ~x.changed /\ x.task \in Tasks
  BY EditEnds DEF IInv, Typed, Holds
<1>2. t \in Tasks /\ db \in Database /\ db.task[t] \in TaskRow
  BY LiveRows DEF IInv, Typed
<1>3. CASE Refuse(r)
  BY <1>3 DEF Refuse, Read
<1>4. CASE ~Refuse(r)
  <2>1. db' = [db EXCEPT !.task[x.task] = Edited(x)]
    BY <1>1, <1>4 DEF UpdateTask, Commit, Stored
  <2>2. CASE t = x.task
    <3>1. db'.task[t] = Edited(x)
      BY <1>2, <2>1, <2>2 DEF Database
    <3> QED
      BY <1>1, <1>2, <2>2, <3>1 DEF Edited, TaskRow
  <2>3. CASE t # x.task
    BY <1>2, <2>1, <2>3 DEF Database
  <2> QED
    BY <2>2, <2>3
<1> QED
  BY <1>3, <1>4

-----------------------------------------------------------------------------
\* The theorems about the rows.

\* The invariant holds throughout: what requests hold between two steps is of
\* its type, a category one of them chose is its user's or gone for good, and
\* every screen behind the rows has a hint on its way (todo/views.py,
\* todo/services.py, todo/realtime_signals.py).
THEOREM Invariance == Spec => []IInv
<1>1. Init => IInv
  BY StartsHold
<1>2. IInv /\ [Next]_vars => IInv'
  BY NextKeeps
<1> QED
  BY <1>1, <1>2, PTL DEF Spec

\* A task's category is there and, unless the Admin moved a row, its owner's,
\* whichever forms, deletions and saves overlap (Task.clean, create_task,
\* update_task, delete_category).
THEOREM OwnCategoryAlways == Spec => []OwnCategory
<1>1. IInv => OwnCategory
  BY DEF IInv, Kept, OwnCategory
<1> QED
  BY <1>1, Invariance, PTL

\* No user has two categories of one name, though several requests may have
\* found it free before the first is written (create_category,
\* update_category, Category.full_clean).
THEOREM UniqueNamesAlways == Spec => []UniqueNames
<1>1. IInv => UniqueNames
  BY DEF IInv, Unique, UniqueNames
<1> QED
  BY <1>1, Invariance, PTL

\* Whatever a commit changed on a user's screens, a hint that makes them look
\* again is published after it (notify_after_commit, _owners, _saved, _deleted).
THEOREM ScreensLearnAlways == Spec => []ScreensLearn
<1>1. IInv => ScreensLearn
  BY DEF IInv
<1> QED
  BY <1>1, Invariance, PTL

\* A form saved with the schedule it showed moves no deadline (TaskForm.clean,
\* update_task).
THEOREM ScheduleKeptAlways == Spec => ScheduleKept
<1>1. IInv /\ [Next]_vars =>
        [\A r \in Requests :
           req[r].pc = "task_edit" /\ req'[r].pc = "done" /\ req[r].carried /\ req[r].same
             => \A t \in Live(db.task) :
                  t \in Live(db'.task) => db'.task[t].due = db.task[t].due]_vars
  BY EditKeepsSchedules
<1> QED
  BY <1>1, Invariance, PTL DEF Spec, ScheduleKept

-----------------------------------------------------------------------------
\* The order of a list, and its pages.

\* A row of the tasks, and what its place goes by.
LEMMA TaskOrder ==
  ASSUME NEW d \in Database, NEW t \in Live(d.task)
  PROVE  /\ t \in Nat /\ d.task[t].done \in Nat /\ d.task[t].due \in Deadlines
         /\ d.task[t].due # Undated => d.task[t].due.at \in Nat
<1>1. t \in Tasks /\ d.task[t] \in TaskRow
  BY LiveRows
<1>2. d.task[t].done \in Instants \cup {0} /\ d.task[t].due \in Deadlines
  BY <1>1 DEF TaskRow
<1>3. Tasks \subseteq Nat
  BY IdAssumption
<1>4. Instants \cup {0} \subseteq Nat /\ \A x \in Deadlines \ {Undated} : x.at \in Instants
  BY DeadlinesAssumption
<1>5. t \in Nat
  BY <1>1, <1>3
<1>6. d.task[t].done \in Nat
  BY <1>2, <1>4
<1>7. d.task[t].due # Undated => d.task[t].due.at \in Nat
  BY <1>2, <1>4
<1> QED
  BY <1>2, <1>5, <1>6, <1>7

\* Before is a strict order in which any two tasks compare.
LEMMA BeforeOrders ==
  ASSUME NEW d \in Database,
         NEW s \in Live(d.task), NEW t \in Live(d.task), NEW x \in Live(d.task)
  PROVE  /\ ~Before(d, s, s)
         /\ Before(d, s, t) /\ Before(d, t, x) => Before(d, s, x)
         /\ s = t \/ Before(d, s, t) \/ Before(d, t, s)
<1> DEFINE a == d.task[s]
           b == d.task[t]
           c == d.task[x]
<1>1. /\ s \in Nat /\ a.done \in Nat /\ (a.due # Undated => a.due.at \in Nat)
      /\ t \in Nat /\ b.done \in Nat /\ (b.due # Undated => b.due.at \in Nat)
      /\ x \in Nat /\ c.done \in Nat /\ (c.due # Undated => c.due.at \in Nat)
  BY TaskOrder
<1>2. ~Before(d, s, s)
  BY <1>1 DEF Before, NoneLast, SameDue
<1>3. s = t \/ Before(d, s, t) \/ Before(d, t, s)
  BY <1>1 DEF Before, NoneLast, SameDue
<1>4. ASSUME Before(d, s, t), Before(d, t, x)
      PROVE  Before(d, s, x)
  BY <1>1, <1>4 DEF Before, NoneLast, SameDue
<1> QED
  BY <1>2, <1>3, <1>4

\* Each place from the first to the last is one row's.
LEMMA PlacesFill ==
  ASSUME NEW d \in Database, NEW list \in SUBSET Live(d.task)
  PROVE  /\ IsFiniteSet(list) /\ Cardinality(list) \in Nat
         /\ [t \in list |-> Place(d, list, t)] \in Bijection(list, 0..(Cardinality(list) - 1))
<1> DEFINE n == Cardinality(list)
           Ahead(t) == {s \in list : Before(d, s, t)}
           place == [t \in list |-> Place(d, list, t)]
<1>1. IsFiniteSet(list) /\ n \in Nat
  BY LiveRows, ReaderAssumption, FS_Subset, FS_CardinalityType
<1>2. ASSUME NEW t \in list
      PROVE  /\ IsFiniteSet(Ahead(t)) /\ Place(d, list, t) = Cardinality(Ahead(t))
             /\ Place(d, list, t) \in 0..(n - 1)
  <2>1. Ahead(t) \in SUBSET (list \ {t})
    BY BeforeOrders
  <2>2. IsFiniteSet(list \ {t}) /\ Cardinality(list \ {t}) = n - 1
    BY <1>1, FS_RemoveElement
  <2>3. IsFiniteSet(Ahead(t)) /\ Cardinality(Ahead(t)) <= n - 1
    BY <2>1, <2>2, FS_Subset
  <2>4. Cardinality(Ahead(t)) \in Nat
    BY <2>3, FS_CardinalityType
  <2> QED
    BY <1>1, <2>3, <2>4 DEF Place
<1>3. ASSUME NEW s \in list, NEW t \in list, Before(d, s, t)
      PROVE  Place(d, list, s) # Place(d, list, t)
  <2>1. Ahead(s) \in SUBSET Ahead(t)
    BY <1>3, BeforeOrders
  <2>2. s \in Ahead(t) /\ s \notin Ahead(s)
    BY <1>3, BeforeOrders
  <2>3. Cardinality(Ahead(t)) # Cardinality(Ahead(s))
    BY <1>2, <2>1, <2>2, FS_Subset
  <2> QED
    BY <1>2, <2>3
<1>4. \A s, t \in list : Place(d, list, s) = Place(d, list, t) => s = t
  BY <1>3, BeforeOrders
<1>5. place \in [list -> 0..(n - 1)]
  BY <1>2
<1>6. place \in Injection(list, 0..(n - 1))
  BY <1>4, <1>5 DEF Injection, IsInjective
<1>7. IsFiniteSet(0..(n - 1)) /\ Cardinality(0..(n - 1)) = n
  BY <1>1, FS_Interval
<1>8. place \in Surjection(list, 0..(n - 1))
  BY <1>6, <1>7, FS_Injection
<1> QED
  BY <1>1, <1>6, <1>8 DEF Bijection

\* The rows of a list from one place up to another: as many as there are up to
\* place k, and those of two slices that meet are those of one.
Selected(d, status, from, to) ==
  {Row(d, t) : t \in {x \in Filtered(d, Reader, status) :
                        Place(d, Filtered(d, Reader, status), x) \in from..(to - 1)}}
LEMMA RowsCounted ==
  ASSUME NEW d \in Database, NEW status, NEW k \in Nat
  PROVE  LET n == Cardinality(Filtered(d, Reader, status)) IN
         /\ n \in Nat /\ IsFiniteSet(Selected(d, status, 0, k))
         /\ Cardinality(Selected(d, status, 0, k)) = IF n < k THEN n ELSE k
<1> DEFINE list == Filtered(d, Reader, status)
           n == Cardinality(list)
           m == IF n < k THEN n ELSE k
           place == [t \in list |-> Place(d, list, t)]
           first == {x \in list : Place(d, list, x) \in 0..(k - 1)}
           rows == {Row(d, t) : t \in first}
<1>1. list \in SUBSET Live(d.task)
  BY DEF Filtered, OwnTasks
<1>2. n \in Nat /\ IsFiniteSet(list) /\ place \in Bijection(list, 0..(n - 1))
  BY <1>1, PlacesFill
<1> HIDE DEF list
<1>3. /\ \A t \in list : Place(d, list, t) \in 0..(n - 1)
      /\ \A s, t \in list : Place(d, list, s) = Place(d, list, t) => s = t
      /\ \A i \in 0..(n - 1) : \E t \in list : Place(d, list, t) = i
  BY <1>2 DEF Bijection, Injection, Surjection, IsInjective
<1>4. IsFiniteSet(first)
  BY <1>2, FS_Subset
<1>5. [t \in first |-> Place(d, list, t)] \in Bijection(first, 0..(m - 1))
  <2>1. \A t \in first : Place(d, list, t) \in 0..(m - 1)
    BY <1>2, <1>3
  <2>2. \A i \in 0..(m - 1) : \E t \in first : Place(d, list, t) = i
    BY <1>2, <1>3
  <2> QED
    BY <1>3, <2>1, <2>2 DEF Bijection, Injection, Surjection, IsInjective
<1>6. Cardinality(0..(m - 1)) = Cardinality(first)
  BY <1>4, <1>5, FS_Bijection DEF ExistsBijection
<1>7. Cardinality(first) = m
  <2>1. m \in Nat /\ 0 \in Int /\ m - 1 \in Int
    BY <1>2
  <2> HIDE DEF m, first
  <2>2. Cardinality(0..(m - 1)) = IF 0 > m - 1 THEN 0 ELSE (m - 1) - 0 + 1
    BY <2>1, FS_Interval
  <2> QED
    BY <1>6, <2>1, <2>2
<1>8. [t \in first |-> Row(d, t)] \in Bijection(first, rows)
  <2>1. \A s, t \in first : Row(d, s) = Row(d, t) => s = t
    BY DEF Row
  <2> QED
    BY <2>1 DEF Bijection, Injection, Surjection, IsInjective
<1>9. IsFiniteSet(rows) /\ Cardinality(rows) = Cardinality(first)
  BY <1>4, <1>8, FS_Bijection DEF ExistsBijection
<1>10. rows = Selected(d, status, 0, k)
  BY DEF Selected, list
<1> QED
  BY <1>2, <1>7, <1>9, <1>10 DEF list
LEMMA RowsJoin ==
  ASSUME NEW d \in Database, NEW status, NEW a \in Nat, NEW b \in Nat, a < b
  PROVE  LET n == Cardinality(Filtered(d, Reader, status)) IN
         /\ Selected(d, status, 0, a) \cup Selected(d, status, a, b) = Selected(d, status, 0, b)
         /\ IsFiniteSet(Selected(d, status, a, b))
         /\ a < n => Cardinality(Selected(d, status, a, b)) > 0
<1> DEFINE list == Filtered(d, Reader, status)
           n == Cardinality(list)
<1>1. list \in SUBSET Live(d.task)
  BY DEF Filtered, OwnTasks
<1>2. n \in Nat /\ [t \in list |-> Place(d, list, t)] \in Bijection(list, 0..(n - 1))
  BY <1>1, PlacesFill
<1>3. /\ \A t \in list : Place(d, list, t) \in 0..(n - 1)
      /\ \A i \in 0..(n - 1) : \E t \in list : Place(d, list, t) = i
  BY <1>2 DEF Bijection, Injection, Surjection
<1>4. Selected(d, status, 0, a) \cup Selected(d, status, a, b) = Selected(d, status, 0, b)
  <2>1. \A t \in list : Place(d, list, t) \in 0..(b - 1)
          <=> Place(d, list, t) \in 0..(a - 1) \/ Place(d, list, t) \in a..(b - 1)
    BY <1>2, <1>3
  <2> QED
    BY <2>1 DEF Selected
<1>5. IsFiniteSet(Selected(d, status, a, b))
  <2>1. Selected(d, status, a, b) \in SUBSET Selected(d, status, 0, b)
    BY <1>4
  <2> QED
    BY <2>1, RowsCounted, FS_Subset
<1>6. ASSUME a < n
      PROVE  Selected(d, status, a, b) # {}
  <2>1. PICK t \in list : Place(d, list, t) = a
    BY <1>2, <1>3, <1>6
  <2>2. Row(d, t) \in Selected(d, status, a, b)
    BY <2>1 DEF Selected
  <2> QED
    BY <2>2
<1>7. a < n => Cardinality(Selected(d, status, a, b)) > 0
  BY <1>5, <1>6, FS_CardinalityType, FS_EmptySet
<1> QED
  BY <1>4, <1>5, <1>7

\* How many pages n rows take.
LEMMA Pages ==
  ASSUME NEW n \in Nat, NEW k \in Nat \ {0}
  PROVE  /\ PagesOf(n) \in Nat \ {0}
         /\ PagesOf(n) > k <=> n > k * PageSize
         /\ PagesOf(k * PageSize) = k
<1> DEFINE P == PageSize
<1>1. P \in Nat /\ P > 0
  BY PageAssumption
<1>2. \A i \in Nat \ {0} : PagesOf(i) \in Nat /\ P * PagesOf(i) >= i /\ P * PagesOf(i) <= i + P - 1
  BY SMTT(30), <1>1 DEF PagesOf
<1>3. \A i \in Nat, j \in Nat : i > j => P * i >= P * j + P
  BY SMTT(30), <1>1
<1>4. \A i \in Nat : PagesOf(i) \in Nat \ {0}
  BY <1>1, <1>2 DEF PagesOf
<1>5. \A i \in Nat, j \in Nat \ {0} : PagesOf(i) > j <=> i > j * P
  BY SMTT(30), <1>1, <1>2, <1>3, <1>4 DEF PagesOf
<1>6. PagesOf(k * P) = k
  <2>1. k * P \in Nat /\ ~(PagesOf(k * P) > k)
    BY <1>1, <1>5
  <2>2. k > 1 => k - 1 \in Nat \ {0} /\ k * P > (k - 1) * P
    BY <1>1
  <2>3. k > 1 => PagesOf(k * P) > k - 1
    BY <1>5, <2>1, <2>2
  <2> QED
    BY <1>4, <2>1, <2>3
<1> QED
  BY <1>4, <1>5, <1>6

-----------------------------------------------------------------------------
\* The list on the screen.

\* The list v over the rows d when it is up to date.
All(d, v) == Cardinality(Filtered(d, Reader, v.status))
Shows(d, v) ==
  /\ v.rows = Selected(d, v.status, 0, v.pages * PageSize)
  /\ v.pages <= PagesOf(All(d, v))
  /\ v.more <=> All(d, v) > v.pages * PageSize
Asks == {"reload", "append", "pull"}
ReadTyped(x) ==
  \/ x = Still
  \/ x.pc \in Asks /\ x.asked \in Nat \ {0}
  \/ x.pc = "rows" /\ x.as \in Asks /\ x.count \in Nat \ {0} /\ x.target \in 1..x.count
ViewTyped(v) ==
  /\ v = [status |-> v.status, rows |-> v.rows, pages |-> v.pages, more |-> v.more,
          address |-> v.address, owed |-> v.owed, read |-> v.read]
  /\ v.pages \in Nat \ {0} /\ v.address \in Nat \ {0} /\ ReadTyped(v.read)
\* While nobody owes it news the list is up to date at rest and while the next
\* page is asked for; what a count found is what is there.
Abreast(d, v) ==
  /\ v.read.pc \in {"still", "append"} => Shows(d, v)
  /\ v.read.pc = "append" => v.read.asked = v.pages + 1
  /\ v.read.pc = "rows" =>
       /\ v.read.count = PagesOf(All(d, v))
       /\ v.read.as = "append" => Shows(d, v) /\ v.read.target = v.pages + 1
LInv == IInv /\ ViewTyped(view) /\ (Told => Abreast(db, view))

\* Databases that show a user the same lines hold the same list for the user.
LEMMA SameLines ==
  ASSUME NEW d, NEW e, NEW status, TaskLines(d, Reader) = TaskLines(e, Reader)
  PROVE  /\ Filtered(d, Reader, status) = Filtered(e, Reader, status)
         /\ \A from, to : Selected(d, status, from, to) = Selected(e, status, from, to)
<1> DEFINE own == OwnTasks(d, Reader)
           list == Filtered(d, Reader, status)
<1>1. \A a, b : \A t \in OwnTasks(a, Reader) :
        TaskLines(a, Reader) = TaskLines(b, Reader) =>
          t \in OwnTasks(b, Reader) /\ Row(b, t) = Row(a, t)
  <2> SUFFICES ASSUME NEW a, NEW b, NEW t \in OwnTasks(a, Reader),
                      TaskLines(a, Reader) = TaskLines(b, Reader)
               PROVE  t \in OwnTasks(b, Reader) /\ Row(b, t) = Row(a, t)
    OBVIOUS
  <2>1. Row(a, t) \in TaskLines(b, Reader)
    BY DEF TaskLines
  <2>2. PICK x \in OwnTasks(b, Reader) : Row(b, x) = Row(a, t)
    BY <2>1 DEF TaskLines
  <2>3. x = t
    BY <2>2 DEF Row
  <2> QED
    BY <2>2, <2>3
<1>2. own = OwnTasks(e, Reader) /\ \A t \in own : Row(d, t) = Row(e, t)
  BY <1>1
<1>3. \A t \in own : d.task[t].done = e.task[t].done /\ d.task[t].due = e.task[t].due
  BY <1>2 DEF Row
<1> HIDE DEF own
<1>4. list = Filtered(e, Reader, status) /\ list \subseteq own
  BY <1>2, <1>3 DEF Filtered, own
<1>5. \A s, t \in own : Before(d, s, t) <=> Before(e, s, t)
  BY <1>3 DEF Before, NoneLast, SameDue
<1> HIDE DEF list
<1>6. ASSUME NEW t \in list
      PROVE  Place(d, list, t) = Place(e, list, t)
  <2>1. {s \in list : Before(d, s, t)} = {s \in list : Before(e, s, t)}
    BY <1>4, <1>5
  <2> QED
    BY <2>1 DEF Place
<1>7. ASSUME NEW from, NEW to
      PROVE  Selected(d, status, from, to) = Selected(e, status, from, to)
  <2>1. {x \in list : Place(d, list, x) \in from..(to - 1)}
          = {x \in list : Place(e, list, x) \in from..(to - 1)}
    BY <1>6
  <2>2. \A x \in list : Row(d, x) = Row(e, x)
    BY <1>2, <1>4 DEF own
  <2>3. Selected(d, status, from, to)
          = {Row(d, t) : t \in {x \in list : Place(d, list, x) \in from..(to - 1)}}
    BY DEF Selected, list
  <2>4. Selected(e, status, from, to)
          = {Row(e, t) : t \in {x \in list : Place(e, list, x) \in from..(to - 1)}}
    BY <1>4 DEF Selected, list
  <2> QED
    BY <2>1, <2>2, <2>3, <2>4
<1> QED
  BY <1>4, <1>7 DEF list

\* What a step of a request does to rows and hints.
LEMMA ServeIs ==
  ASSUME IInv, NEW r \in Requests, Serve(r)
  PROVE  /\ \A q \in Requests \ {r} : out'[q] = out[q]
         /\ \/ db' = db
            \/ stale' = stale \cup {x \in Altered(db, db') :
                                     Own(db, x[1], x[2]) # Own(db', x[1], x[2])}
<1> DEFINE Wrote == \E e, hints : Stored(r, e, hints)
           Same == db' = db /\ out' = out
<1>1. CASE Publish(r)
  BY <1>1 DEF Publish, IInv, Typed
<1>2. CASE Wrote
  BY <1>2 DEF Stored, IInv, Typed
<1>3. CASE Same
  BY <1>3
<1>4. \A x : Read(r, x) => Same
  BY DEF Read
<1>5. \A e, hints : Commit(r, e, hints) \/ Give(r, e, hints) => Wrote
  BY DEF Commit, Give
<1> HIDE DEF Wrote, Same
<1>6. CASE DrawTask(r) \/ CheckNewTask(r) \/ CheckCategory(r)
  BY <1>3, <1>4, <1>6 DEF DrawTask, CheckNewTask, CheckCategory
<1>7. CASE CheckTask(r)
  BY <1>3, <1>4, <1>7 DEF CheckTask, Refuse
<1>8. CASE UpdateTask(r) \/ CreateTask(r) \/ ToggleTask(r) \/ DeleteTask(r)
  BY <1>2, <1>3, <1>4, <1>5, <1>8 DEF UpdateTask, CreateTask, ToggleTask, DeleteTask, Refuse
<1>9. CASE CreateCategory(r) \/ UpdateCategory(r) \/ DeleteCategory(r)
  BY <1>2, <1>3, <1>4, <1>5, <1>9 DEF CreateCategory, UpdateCategory, DeleteCategory, Refuse
<1>10. CASE AdminTask(r) \/ AdminCategory(r)
  BY <1>2, <1>5, <1>10 DEF AdminTask, AdminCategory
<1> QED
  BY <1>1, <1>6, <1>7, <1>8, <1>9, <1>10 DEF Serve

\* A step of a request after which nothing is owed: nothing was owed before
\* it, and it changed nothing the list goes by.
LEMMA ServeTold ==
  ASSUME LInv, NEW r \in Requests, Serve(r), view' = [view EXCEPT !.owed = @ \/ Heard(r)], Told'
  PROVE  Told /\ TaskLines(db, Reader) = TaskLines(db', Reader)
<1> DEFINE list == <<"task list", 0>>
<1>1. view'.owed = (view.owed \/ Heard(r))
  BY DEF LInv, ViewTyped
<1>2. ~view.owed /\ ~Heard(r)
  BY <1>1 DEF Told
<1>3. Told
  <2>1. \A q \in Requests : \A h \in out[q] : ~Tells(h, Reader, list)
    BY <1>2, ServeIs DEF Told, Heard, LInv
  <2> QED
    BY <1>2, <2>1 DEF Told
<1>4. CASE db' = db
  BY <1>3, <1>4
<1>5. CASE db' # db
  <2>1. IInv' /\ ScreensLearn'
    BY NextKeeps DEF LInv, Next, IInv
  <2>2. <<Reader, list>> \notin stale'
    BY <2>1 DEF ScreensLearn, Told
  <2>3. <<Reader, list>> \in Users \X (Lists \cup Objects)
    BY ReaderAssumption DEF Lists
  <2>4. Own(db, Reader, list) = Own(db', Reader, list)
    <3>1. Own(db, Reader, list) # Own(db', Reader, list) => <<Reader, list>> \in Altered(db, db')
      BY <2>3 DEF Own, Altered
    <3> QED
      BY <1>5, <2>2, <3>1, ServeIs DEF LInv
  <2> QED
    BY <1>3, <2>4, ScreenShows
<1> QED
  BY <1>4, <1>5

\* Other requests' steps, and time.
LEMMA OthersKeep ==
  ASSUME LInv, Others
  PROVE  LInv'
<1>1. CASE Tick /\ UNCHANGED view
  <2>1. IInv' /\ db' = db /\ out' = out /\ view' = view
    BY <1>1, NextKeeps DEF LInv, Next, Tick
  <2> QED
    BY <2>1 DEF LInv, Told
<1>2. ASSUME NEW r \in Requests, Serve(r), view' = [view EXCEPT !.owed = @ \/ Heard(r)]
      PROVE  LInv'
  <2>1. IInv'
    BY <1>2, NextKeeps DEF LInv, Next
  <2>2. view' = [status |-> view.status, rows |-> view.rows, pages |-> view.pages,
                 more |-> view.more, address |-> view.address, owed |-> view.owed \/ Heard(r),
                 read |-> view.read]
    BY <1>2 DEF LInv, ViewTyped
  <2>3. ViewTyped(view')
    BY <2>2 DEF LInv, ViewTyped
  <2>4. ASSUME Told'
        PROVE  Abreast(db', view')
    <3>1. Told /\ TaskLines(db, Reader) = TaskLines(db', Reader)
      BY <1>2, <2>4, ServeTold
    <3>2. Abreast(db, view)
      BY <3>1 DEF LInv
    <3>3. All(db', view') = All(db, view)
      BY <2>2, <3>1, SameLines DEF All
    <3>4. Shows(db, view) => Shows(db', view')
      BY <2>2, <3>1, <3>3, SameLines DEF Shows
    <3> QED
      BY <2>2, <3>2, <3>3, <3>4 DEF Abreast
  <2> QED
    BY <2>1, <2>3, <2>4 DEF LInv
<1> QED
  BY <1>1, <1>2 DEF Others

\* A reload, the next page or the first one is asked for.
LEMMA RefreshKeeps ==
  ASSUME LInv, UNCHANGED vars, Refresh
  PROVE  LInv'
<1>1. IInv'
  BY NextKeeps DEF LInv
<1> DEFINE n == IF view.pages > MaxPrefix THEN 1 ELSE view.pages
<1>2. /\ n \in Nat \ {0}
      /\ view' = [view EXCEPT !.owed = FALSE, !.address = n,
                              !.read = [pc |-> "reload", asked |-> n]]
  BY DEF Refresh, Reload, LInv, ViewTyped
<1> HIDE DEF n
<1>3. view' = [status |-> view.status, rows |-> view.rows, pages |-> view.pages,
               more |-> view.more, address |-> n, owed |-> FALSE,
               read |-> [pc |-> "reload", asked |-> n]]
  BY <1>2 DEF LInv, ViewTyped
<1>4. ViewTyped(view')
  <2>1. ReadTyped([pc |-> "reload", asked |-> n])
    BY <1>2 DEF ReadTyped, Asks
  <2> QED
    BY <1>2, <1>3, <2>1 DEF LInv, ViewTyped
<1>5. Abreast(db', view')
  BY <1>3 DEF Abreast
<1> QED
  BY <1>1, <1>4, <1>5 DEF LInv

LEMMA AppendKeeps ==
  ASSUME LInv, UNCHANGED vars, Append
  PROVE  LInv'
<1> DEFINE x == [pc |-> "append", asked |-> view.pages + 1]
<1>1. IInv' /\ db' = db /\ out' = out
  BY NextKeeps DEF LInv, vars
<1>2. view' = [status |-> view.status, rows |-> view.rows, pages |-> view.pages,
               more |-> view.more, address |-> view.address, owed |-> view.owed, read |-> x]
  BY DEF Append, Reading, LInv, ViewTyped
<1>3. ViewTyped(view')
  BY <1>2 DEF LInv, ViewTyped, ReadTyped, Asks
<1>4. Told' => Told
  BY <1>1, <1>2 DEF Told
<1>5. ASSUME Told
      PROVE  Abreast(db', view')
  <2>1. Shows(db, view)
    BY <1>5 DEF LInv, Abreast, Append, AtRest, Still
  <2>2. Shows(db', view')
    BY <1>1, <1>2, <2>1 DEF Shows, All
  <2> QED
    BY <1>2, <2>2 DEF Abreast
<1> QED
  BY <1>1, <1>3, <1>4, <1>5 DEF LInv

LEMMA PullKeeps ==
  ASSUME LInv, UNCHANGED vars, Pull
  PROVE  LInv'
<1>1. IInv'
  BY NextKeeps DEF LInv
<1>2. view' = [status |-> view.status, rows |-> view.rows, pages |-> view.pages,
               more |-> view.more, address |-> view.address, owed |-> view.owed,
               read |-> [pc |-> "pull", asked |-> 1]]
  BY DEF Pull, Reading, LInv, ViewTyped
<1>3. ViewTyped(view')
  BY <1>2 DEF LInv, ViewTyped, ReadTyped, Asks
<1>4. Abreast(db', view')
  BY <1>2 DEF Abreast
<1> QED
  BY <1>1, <1>3, <1>4 DEF LInv

\* The pages are counted.
LEMMA CountKeeps ==
  ASSUME LInv, UNCHANGED vars, Count
  PROVE  LInv'
<1> DEFINE x == view.read
           n == All(db, view)
           y == [pc |-> "rows", as |-> x.pc, count |-> PagesOf(n),
                 target |-> Least(x.asked, PagesOf(n))]
<1>1. IInv' /\ db' = db /\ out' = out
  BY NextKeeps DEF LInv, vars
<1>2. x.pc \in Asks /\ x.asked \in Nat \ {0}
  BY DEF Count, LInv, ViewTyped, ReadTyped, Asks, Still
<1>3. CountedPages = PagesOf(n) /\ PagesOf(n) \in Nat \ {0}
  <2>1. n \in Nat
    BY RowsCounted DEF All, LInv, IInv, Typed
  <2> QED
    BY <2>1, Pages DEF CountedPages, All
<1>4. CASE x.pc = "append" /\ x.asked > PagesOf(n)
  <2>1. view' = [status |-> view.status, rows |-> view.rows, pages |-> view.pages,
                 more |-> FALSE, address |-> view.address, owed |-> FALSE,
                 read |-> [pc |-> "reload", asked |-> view.address]]
    BY <1>3, <1>4 DEF Count, PageRefused, LInv, ViewTyped
  <2>2. ViewTyped(view')
    BY <2>1 DEF LInv, ViewTyped, ReadTyped, Asks
  <2>3. Abreast(db', view')
    BY <2>1 DEF Abreast
  <2> QED
    BY <1>1, <2>2, <2>3 DEF LInv
<1>5. CASE ~(x.pc = "append" /\ x.asked > PagesOf(n))
  <2>1. view' = [status |-> view.status, rows |-> view.rows, pages |-> view.pages,
                 more |-> view.more, address |-> view.address, owed |-> view.owed, read |-> y]
    BY <1>3, <1>5 DEF Count, Reading, LInv, ViewTyped
  <2>2. y.target \in 1..y.count
    BY <1>2, <1>3 DEF Least
  <2>3. ViewTyped(view')
    BY <1>2, <1>3, <2>1, <2>2 DEF LInv, ViewTyped, ReadTyped
  <2>4. Told' => Told
    BY <1>1, <2>1 DEF Told
  <2>5. ASSUME Told
        PROVE  Abreast(db', view')
    <3>1. n = All(db', view')
      BY <1>1, <2>1 DEF All
    <3>2. Shows(db, view) => Shows(db', view')
      BY <1>1, <2>1, <3>1 DEF Shows
    <3>3. x.pc = "append" => Shows(db, view) /\ y.target = view.pages + 1
      BY <1>2, <1>3, <1>5, <2>5 DEF LInv, Abreast, Least
    <3> QED
      BY <2>1, <3>1, <3>2, <3>3 DEF Abreast
  <2> QED
    BY <1>1, <2>3, <2>4, <2>5 DEF LInv
<1> QED
  BY <1>4, <1>5

\* A prefix of pages that was counted is whole when it is read: its end is not
\* cut short, and it is full and not the last one when there are more rows.
LEMMA PrefixRead ==
  ASSUME NEW d \in Database, NEW status, NEW target \in Nat \ {0},
         target <= PagesOf(Cardinality(Filtered(d, Reader, status)))
  PROVE  LET n == Cardinality(Filtered(d, Reader, status))
             rows == Cardinality(Selected(d, status, 0, target * PageSize)) IN
         /\ n \in Nat /\ Tail(target, rows) = target
         /\ rows > (target - 1) * PageSize /\ target < PagesOf(n) <=> n > target * PageSize
<1> DEFINE n == Cardinality(Filtered(d, Reader, status))
           k == target * PageSize
           rows == Cardinality(Selected(d, status, 0, k))
<1>1. PageSize \in Nat /\ PageSize > 0 /\ k \in Nat /\ k > (target - 1) * PageSize
  BY PageAssumption
<1>2. n \in Nat /\ rows = IF n < k THEN n ELSE k
  BY <1>1, RowsCounted
<1>3. PagesOf(k) = target /\ (PagesOf(n) > target <=> n > k)
  BY <1>2, Pages
<1>4. PagesOf(n) \in Nat
  BY <1>2, Pages
<1> HIDE DEF n, k, rows
<1>5. Tail(target, rows) = target
  <2>1. CASE rows = k
    BY <1>3, <2>1 DEF Tail, Least
  <2>2. CASE rows = n
    BY <1>4, <2>2 DEF Tail, Least, n
  <2> QED
    BY <1>2, <2>1, <2>2
<1>6. rows > (target - 1) * PageSize /\ target < PagesOf(n) <=> n > k
  <2>1. CASE n > k
    BY <1>1, <1>2, <1>3, <1>4, <2>1
  <2>2. CASE ~(n > k)
    BY <1>2, <1>3, <1>4, <2>2
  <2> QED
    BY <2>1, <2>2
<1> QED
  BY <1>2, <1>5, <1>6 DEF n, k, rows

\* Rows are read, and the answer is on the screen.
LEMMA RowsKeep ==
  ASSUME LInv, UNCHANGED vars, Rows
  PROVE  LInv'
<1> DEFINE x == view.read
           appended == x.as = "append"
           from == IF appended THEN (x.target - 1) * PageSize ELSE 0
           new == Slice(db, from, x.target * PageSize)
           last == IF appended THEN x.target ELSE Tail(x.target, Cardinality(new))
           full == Cardinality(new) > (IF appended THEN 0 ELSE (last - 1) * PageSize)
           n == All(db, view)
<1>1. IInv' /\ db' = db /\ out' = out
  BY NextKeeps DEF LInv, vars
<1>2. /\ x.pc = "rows" /\ x.as \in Asks /\ x.count \in Nat \ {0} /\ x.target \in 1..x.count
      /\ view.pages \in Nat \ {0} /\ db \in Database
  BY DEF Rows, LInv, ViewTyped, ReadTyped, Asks, Still, IInv, Typed
<1>3. view' = [view EXCEPT
       !.read = Still,
       !.rows = IF appended THEN @ \cup new ELSE new,
       !.pages = IF appended /\ ~full THEN @ ELSE last,
       !.more = full /\ last < x.count]
  BY DEF Rows
<1>4. view' = [status |-> view.status,
               rows |-> IF appended THEN view.rows \cup new ELSE new,
               pages |-> IF appended /\ ~full THEN view.pages ELSE last,
               more |-> full /\ last < x.count,
               address |-> view.address, owed |-> view.owed, read |-> Still]
  BY <1>3 DEF LInv, ViewTyped
<1>5. new = Selected(db, view.status, from, x.target * PageSize)
  BY DEF Slice, Selected
<1>6. n \in Nat /\ n = Cardinality(Filtered(db, Reader, view.status))
  BY <1>2, RowsCounted DEF All
<1>7. last \in Nat \ {0}
  <2>1. CASE appended
    BY <1>2, <2>1
  <2>2. CASE ~appended
    <3>1. Cardinality(new) \in Nat
      BY <1>2, <1>5, <2>2, RowsCounted, FS_CardinalityType, PageAssumption
    <3>2. PagesOf(Cardinality(new)) \in Nat \ {0}
      BY <3>1, Pages
    <3> QED
      BY <1>2, <2>2, <3>2 DEF Tail, Least
  <2> QED
    BY <2>1, <2>2
<1>8. ViewTyped(view')
  BY <1>2, <1>4, <1>7 DEF LInv, ViewTyped, ReadTyped
<1>9. Told' => Told
  BY <1>1, <1>4 DEF Told
<1>10. ASSUME Told
       PROVE  Shows(db', view')
  <2>1. x.count = PagesOf(n) /\ (appended => Shows(db, view) /\ x.target = view.pages + 1)
    BY <1>2, <1>10 DEF LInv, Abreast
  <2>2. All(db', view') = n
    BY <1>1, <1>4 DEF All
  <2>3. CASE ~appended
    <3>1. /\ last = x.target
          /\ full /\ x.target < PagesOf(n) <=> n > x.target * PageSize
      BY <1>2, <1>5, <1>6, <2>1, <2>3, PrefixRead
    <3>2. /\ view'.rows = new /\ view'.pages = x.target /\ view'.status = view.status
          /\ view'.more <=> n > x.target * PageSize
      BY <1>4, <2>1, <2>3, <3>1
    <3>3. view'.rows = Selected(db', view'.status, 0, view'.pages * PageSize)
      BY <1>1, <1>5, <2>3, <3>2
    <3> QED
      BY <1>2, <2>1, <2>2, <3>2, <3>3 DEF Shows
  <2>4. CASE appended
    <3> DEFINE a == view.pages * PageSize
               b == x.target * PageSize
    <3>1. a \in Nat /\ b \in Nat /\ a < b /\ (x.target - 1) * PageSize = a
      <4>1. x.target = view.pages + 1 /\ view.pages \in Nat
        BY <1>2, <2>1, <2>4
      <4>2. PageSize \in Nat /\ PageSize > 0
        BY PageAssumption
      <4>3. \A p, k \in Nat :
              k > 0 => p * k \in Nat /\ (p + 1) * k = p * k + k /\ p * k < (p + 1) * k
        BY SMTT(30)
      <4>4. x.target - 1 = view.pages
        BY <4>1
      <4> QED
        BY <4>1, <4>2, <4>3, <4>4
    <3>2. n > a
      BY <1>2, <1>6, <2>1, <2>4, Pages
    <3>3. /\ Selected(db, view.status, 0, a) \cup new = Selected(db, view.status, 0, b)
          /\ Cardinality(new) > 0
      BY <1>2, <1>5, <1>6, <2>4, <3>1, <3>2, RowsJoin
    <3>4. last < x.count <=> n > b
      BY <1>2, <1>6, <2>1, <2>4, Pages
    <3>5. /\ view'.rows = view.rows \cup new /\ view'.pages = x.target
          /\ view'.status = view.status /\ (view'.more <=> n > b)
      BY <1>4, <2>4, <3>3, <3>4
    <3>6. view'.rows = Selected(db', view'.status, 0, view'.pages * PageSize)
      BY <1>1, <2>1, <2>4, <3>3, <3>5 DEF Shows
    <3> QED
      BY <1>2, <2>1, <2>2, <3>5, <3>6 DEF Shows
  <2> QED
    BY <2>3, <2>4
<1>11. Told => Abreast(db', view')
  BY <1>4, <1>10 DEF Abreast, Still
<1> QED
  BY <1>1, <1>8, <1>9, <1>11 DEF LInv

\* Every step.
LEMMA ListKeeps ==
  ASSUME LInv, [ListNext]_lvars
  PROVE  LInv'
<1>1. CASE UNCHANGED lvars
  BY <1>1, NextKeeps DEF lvars, vars, LInv, Told
<1> QED
  BY <1>1, OthersKeep, RefreshKeeps, AppendKeeps, PullKeeps, CountKeeps, RowsKeep DEF ListNext

\* The list beside the rows takes no step of its own on them: every behaviour
\* of the two is one of the rows (_paginate_request only reads).
THEOREM ListReadsOnly == ListSpec => Spec
<1>1. ListInit => Init
  BY DEF ListInit
<1>2. [ListNext]_lvars => [Next]_vars
  BY DEF ListNext, lvars, vars, Others, Next
<1> QED
  BY <1>1, <1>2, PTL DEF ListSpec, Spec

\* The list's invariant holds throughout: while the person's screens are owed
\* nothing, what a count found is what is there, and the pages on the screen
\* are up to date at rest and while the next one is asked for
\* (_paginate_request, resourceReloadUrl).
THEOREM ListInvariance == ListSpec => []LInv
<1>1. ListInit => LInv
  <2> SUFFICES ASSUME ListInit
               PROVE  LInv
    OBVIOUS
  <2>1. IInv
    BY StartsHold DEF ListInit
  <2>2. ViewTyped(view) /\ ~Told
    BY DEF ListInit, ViewTyped, ReadTyped, Told
  <2> QED
    BY <2>1, <2>2 DEF LInv
<1>2. LInv /\ [ListNext]_lvars => LInv'
  BY ListKeeps
<1> QED
  BY <1>1, <1>2, PTL DEF ListSpec

\* A list at rest that is owed nothing shows the first pages of what its filter
\* selects, whole and in date, and asks for the next one exactly when there is
\* one, for any size of page and any writes between its queries
\* (_paginate_request, _paginate, task_items.xml).
THEOREM ListCatchesUpAlways == ListSpec => []ListCatchesUp
<1>1. LInv => ListCatchesUp
  <2> SUFFICES ASSUME LInv, AtRest, Told
               PROVE  LET all == Cardinality(Filtered(db, Reader, view.status)) IN
                      /\ view.rows = Slice(db, 0, view.pages * PageSize)
                      /\ view.pages <= PagesOf(all)
                      /\ view.more <=> all > view.pages * PageSize
    BY DEF ListCatchesUp
  <2>1. Shows(db, view)
    BY DEF LInv, Abreast, AtRest, Still
  <2> QED
    BY <2>1 DEF Shows, All, Slice, Selected
<1> QED
  BY <1>1, ListInvariance, PTL

-----------------------------------------------------------------------------
\* The dashboard.

\* A set of numbers has a least one.
LEMMA LeastIn ==
  ASSUME NEW T \in SUBSET Nat, T # {}
  PROVE  \E m \in T : \A k \in T : m <= k
<1> DEFINE R == OpToRel(<, Nat)
<1>1. IsWellFoundedOn(R, Nat)
  BY NatLessThanWellFounded
<1>2. \A a, b \in Nat : a < b => <<a, b>> \in R
  BY DEF OpToRel
<1> HIDE DEF R
<1>3. PICK m \in T : \A k \in T : ~(<<k, m>> \in R)
  BY <1>1, WFMin
<1>4. \A k \in T : ~(k < m)
  BY <1>2, <1>3
<1> QED
  BY <1>4

\* The streak is the first number of days back at which the run stops, if that
\* is within the window.
LEMMA StreakStops ==
  ASSUME NEW completions, NEW today \in Nat
  PROVE  LET last == LastDay(completions, today) IN
         \E m \in 0..StreakWindow :
           /\ Streak(completions, today) = m
           /\ \A k \in 0..(m - 1) : (last - k) \in DOMAIN completions
           /\ m < StreakWindow => (last - m) \notin DOMAIN completions
<1> DEFINE W == StreakWindow
           D == DOMAIN completions
           last == LastDay(completions, today)
           run == CHOOSE f :
             f = [n \in 0..W |-> IF n < W /\ (last - n) \in D THEN f[n + 1] ELSE n]
           stops == {n \in 0..W : n < W => (last - n) \notin D}
           From(n) == {k \in stops : n <= k}
           g == [n \in 0..W |-> CHOOSE m \in From(n) : \A k \in From(n) : m <= k]
<1>1. W \in Nat
  BY DayAssumption
<1>2. Streak(completions, today) = run[0]
  BY DEF Streak
<1> HIDE DEF last, D
<1>3. ASSUME NEW n \in 0..W
      PROVE  /\ g[n] \in From(n)
             /\ \A k \in From(n) : g[n] <= k
  <2>1. From(n) \in SUBSET Nat /\ W \in From(n)
    BY <1>1
  <2>2. \E m \in From(n) : \A k \in From(n) : m <= k
    BY <2>1, LeastIn
  <2> QED
    BY <2>2
<1> HIDE DEF g
<1>4. ASSUME NEW n \in 0..W
      PROVE  g[n] = IF n < W /\ (last - n) \in D THEN g[n + 1] ELSE n
  <2>1. CASE n < W /\ (last - n) \in D
    <3>1. n \notin stops /\ n + 1 \in 0..W
      BY <1>1, <2>1
    <3>2. g[n] \in From(n + 1) /\ g[n + 1] \in From(n)
      BY <1>1, <1>3, <3>1
    <3>3. g[n] <= g[n + 1] /\ g[n + 1] <= g[n] /\ g[n] \in Nat /\ g[n + 1] \in Nat
      BY <1>3, <3>1, <3>2
    <3> QED
      BY <2>1, <3>3
  <2>2. CASE ~(n < W /\ (last - n) \in D)
    <3>1. n \in From(n)
      BY <1>1, <2>2
    <3> QED
      BY <1>3, <2>2, <3>1
  <2> QED
    BY <2>1, <2>2
<1>5. g = [n \in 0..W |-> IF n < W /\ (last - n) \in D THEN g[n + 1] ELSE n]
  <2>1. g = [n \in 0..W |-> g[n]]
    BY DEF g
  <2> QED
    BY <1>4, <2>1
<1>6. run = [n \in 0..W |-> IF n < W /\ (last - n) \in D THEN run[n + 1] ELSE n]
  BY <1>5
<1> HIDE DEF run
<1> DEFINE m == g[0]
<1>7. m \in 0..W /\ m \in stops /\ \A k \in stops : m <= k
  BY <1>1, <1>3
<1> HIDE DEF m
<1>8. \A k \in 0..(m - 1) : k < W /\ (last - k) \in D
  BY <1>1, <1>7
<1>9. run[0] = run[m]
  <2> DEFINE other == {n \in 0..m : run[n] # run[0]}
  <2>1. SUFFICES ASSUME run[m] # run[0]
                 PROVE  FALSE
    OBVIOUS
  <2>2. other \in SUBSET Nat /\ m \in other
    BY <1>7, <2>1
  <2>3. PICK b \in other : \A k \in other : b <= k
    BY <2>2, LeastIn
  <2>4. b # 0 /\ b - 1 \in 0..(m - 1) /\ b - 1 \in 0..m
    BY <1>7, <2>3
  <2>5. run[b - 1] = run[0]
    BY <2>3, <2>4
  <2> DEFINE a == b - 1
  <2>6. a < W /\ (last - a) \in D /\ a \in 0..W /\ a + 1 = b
    BY <1>1, <1>7, <1>8, <2>4
  <2> HIDE DEF a
  <2>7. run[a] = run[a + 1]
    BY <1>6, <2>6
  <2> QED
    BY <2>3, <2>5, <2>6, <2>7 DEF a
<1>10. run[m] = m
  BY <1>6, <1>7
<1> QED
  BY <1>2, <1>7, <1>8, <1>9, <1>10 DEF last, D

\* The longest run of days is the one that stops where it does.
LEMMA LongestStops ==
  ASSUME NEW u, NEW z, NEW last \in Int, NEW m \in 0..StreakWindow,
         \A k \in 0..(m - 1) : (last - k) \in {DoneDay(db, t, z) : t \in OwnTasks(db, u)},
         m < StreakWindow => (last - m) \notin {DoneDay(db, t, z) : t \in OwnTasks(db, u)}
  PROVE  LongestRun(u, z, last) = m
<1> DEFINE days == {DoneDay(db, t, z) : t \in OwnTasks(db, u)}
           W == StreakWindow
           Longest(n) == Worked(u, z, last, n) /\ (n < W => ~Worked(u, z, last, n + 1))
<1>0. W \in Nat
  BY DayAssumption
<1>1. \A n \in Nat : Worked(u, z, last, n) <=> (last + 1 - n)..last \subseteq days
  BY DEF Worked
<1> HIDE DEF days
<1>2. ASSUME NEW n \in Nat
      PROVE  Worked(u, z, last, n) <=> \A k \in 0..(n - 1) : (last - k) \in days
  <2>1. ASSUME Worked(u, z, last, n), NEW k \in 0..(n - 1)
        PROVE  (last - k) \in days
    <3>1. (last - k) \in (last + 1 - n)..last
      OBVIOUS
    <3> QED
      BY <1>1, <2>1, <3>1
  <2>2. ASSUME \A k \in 0..(n - 1) : (last - k) \in days, NEW i \in (last + 1 - n)..last
        PROVE  i \in days
    <3>1. (last - i) \in 0..(n - 1) /\ last - (last - i) = i
      OBVIOUS
    <3> QED
      BY <2>2, <3>1
  <2> QED
    BY <1>1, <2>1, <2>2
<1>3. (\A k \in 0..(m - 1) : (last - k) \in days) /\ (m < W => (last - m) \notin days)
  BY DEF days
<1>4. Longest(m)
  <2>1. m < W => m \in 0..((m + 1) - 1) /\ m + 1 \in Nat
    BY <1>0
  <2> QED
    BY <1>0, <1>2, <1>3, <2>1
<1>5. ASSUME NEW n \in 0..W, Longest(n)
      PROVE  n = m
  <2>1. CASE n < m
    <3>1. n < W /\ n + 1 \in Nat /\ \A k \in 0..((n + 1) - 1) : k \in 0..(m - 1)
      BY <1>0, <2>1
    <3> QED
      BY <1>2, <1>3, <1>5, <3>1
  <2>2. CASE m < n
    <3>1. m < W /\ m \in 0..(n - 1)
      BY <1>0, <2>2
    <3> QED
      BY <1>0, <1>2, <1>3, <1>5, <3>1
  <2> QED
    BY <1>0, <2>1, <2>2
<1>6. LongestRun(u, z, last) = CHOOSE n \in 0..W : Longest(n)
  BY DEF LongestRun
<1> HIDE DEF Longest
<1> QED
  BY <1>4, <1>5, <1>6

\* A part of a whole is a percentage, rounded.
LEMMA PercentIs ==
  ASSUME NEW part \in Nat, NEW whole \in Nat \ {0}, part <= whole
  PROVE  Percent(part, whole) \in 0..100
<1> DEFINE floor == (100 * part) \div whole
           rest == (100 * part) % whole
<1>1. /\ floor \in Nat /\ rest \in Nat /\ rest < whole
      /\ 100 * part = whole * floor + rest
  BY SMTT(30)
<1>2. Percent(part, whole) = IF 2 * rest > whole \/ (2 * rest = whole /\ floor % 2 = 1)
                             THEN floor + 1 ELSE floor
  BY DEF Percent
<1> HIDE DEF floor, rest
<1>3. floor > 100 => whole * floor >= whole * 101
  BY SMTT(30), <1>1
<1>4. floor <= 100
  BY SMTT(30), <1>1, <1>3
<1>5. floor = 100 => rest = 0
  BY SMTT(30), <1>1
<1> QED
  BY <1>1, <1>2, <1>4, <1>5

\* The days of a user's tasks, and the day it is.
Days(u, z) == {DoneDay(db, t, z) : t \in OwnTasks(db, u)}
LEMMA DaysAre ==
  ASSUME IInv, NEW u \in Users, NEW z \in Zones
  PROVE  /\ Day[z][now] \in Nat /\ Day[z][now] > StreakWindow /\ Days(u, z) \subseteq Nat
         /\ IsFiniteSet(OwnTasks(db, u))
<1>1. \A i \in Instants : Day[z][i] \in Nat /\ Day[z][i] > StreakWindow
  BY DayAssumption
<1>2. now \in Instants
  BY DeadlinesAssumption DEF IInv, Typed
<1>3. ASSUME NEW t \in OwnTasks(db, u)
      PROVE  DoneDay(db, t, z) \in Nat
  <2>1. db.task[t].done \in Instants \cup {0}
    BY LiveRows DEF OwnTasks, IInv, Typed, TaskRow
  <2> QED
    BY <1>1, <2>1 DEF DoneDay
<1>4. OwnTasks(db, u) \subseteq Tasks
  BY LiveRows DEF OwnTasks, IInv, Typed
<1>5. IsFiniteSet(OwnTasks(db, u))
  BY <1>4, ReaderAssumption, FS_Subset
<1> QED
  BY <1>1, <1>2, <1>3, <1>5 DEF Days

\* Each card counts the list it opens.
LEMMA CardsCount ==
  ASSUME NEW d, NEW u, NEW z, NEW s \in {"today", "scheduled", "all", "overdue"}
  PROVE  Aggregates(d, u, z)[s] = Cardinality(Opened(d, u, z, s))
<1>1. Filtered(d, u, s) = OwnTasks(d, u)
  BY DEF Filtered
<1>2. CASE s = "today"
  <2>1. Opened(d, u, z, s) = OpenTasks(d, u) \cap DueToday(d, u, z)
    BY <1>1, <1>2 DEF Opened, OpenTasks, DueToday
  <2> QED
    BY <1>2, <2>1 DEF Aggregates
<1>3. CASE s = "scheduled"
  <2>1. Opened(d, u, z, s) = OpenTasks(d, u) \cap DueLater(d, u, z)
    BY <1>1, <1>3 DEF Opened, OpenTasks, DueLater
  <2> QED
    BY <1>3, <2>1 DEF Aggregates
<1>4. CASE s = "all"
  <2>1. Opened(d, u, z, s) = OwnTasks(d, u)
    BY <1>1, <1>4 DEF Opened
  <2> QED
    BY <1>4, <2>1 DEF Aggregates
<1>5. CASE s = "overdue"
  <2>1. Opened(d, u, z, s) = OpenTasks(d, u) \cap DuePast(d, u)
    BY <1>1, <1>5 DEF Opened, OpenTasks, DuePast
  <2> QED
    BY <1>5, <2>1 DEF Aggregates
<1> QED
  BY <1>2, <1>3, <1>4, <1>5

\* The days the query of completions reaches back to are enough for the week's
\* last bar and for the streak.
LEMMA CompletionsReach ==
  ASSUME IInv, NEW u \in Users, NEW z \in Zones
  PROVE  LET today == Day[z][now]
             completions == Completions(db, u, z, today - StreakWindow) IN
         /\ \A day \in (today - StreakWindow)..today :
              day \in DOMAIN completions <=> day \in Days(u, z)
         /\ today \in DOMAIN completions =>
              completions[today] = Cardinality(DoneToday(db, u, z))
         /\ today \notin DOMAIN completions => Cardinality(DoneToday(db, u, z)) = 0
<1> DEFINE today == Day[z][now]
           since == today - StreakWindow
           completions == Completions(db, u, z, since)
<1>1. today \in Nat /\ since \in Nat /\ since > 0 /\ since <= today /\ Days(u, z) \subseteq Nat
  BY DaysAre, DayAssumption
<1>2. DOMAIN completions = Days(u, z) \ 0..(since - 1)
  BY DEF Completions, Days
<1>3. \A day \in since..today : day \in DOMAIN completions <=> day \in Days(u, z)
  BY <1>1, <1>2
<1>4. today \in DOMAIN completions => completions[today] = Cardinality(DoneToday(db, u, z))
  BY <1>2 DEF Completions, Days, DoneToday
<1>5. ASSUME today \notin DOMAIN completions
      PROVE  Cardinality(DoneToday(db, u, z)) = 0
  <2>1. today \notin Days(u, z)
    BY <1>1, <1>3, <1>5
  <2>2. DoneToday(db, u, z) = {}
    BY <2>1 DEF DoneToday, Days
  <2> QED
    BY <2>2, FS_EmptySet
<1> QED
  BY <1>3, <1>4, <1>5

\* The streak worked out from the days the query knows is the longest run among
\* all the days with work.
LEMMA StreakIsLongest ==
  ASSUME IInv, NEW u \in Users, NEW z \in Zones
  PROVE  LET today == Day[z][now]
             run == LongestRun(u, z, today) IN
         Streak(Completions(db, u, z, today - StreakWindow), today)
           = IF run > 0 THEN run ELSE LongestRun(u, z, today - 1)
<1> DEFINE today == Day[z][now]
           completions == Completions(db, u, z, today - StreakWindow)
           last == LastDay(completions, today)
           W == StreakWindow
<1>1. today \in Nat /\ today > W /\ W \in Nat \ {0}
  BY DaysAre, DayAssumption
<1>2. \A day \in (today - W)..today : day \in DOMAIN completions <=> day \in Days(u, z)
  BY CompletionsReach
<1>3. PICK m \in 0..W :
        /\ Streak(completions, today) = m
        /\ \A k \in 0..(m - 1) : (last - k) \in DOMAIN completions
        /\ m < W => (last - m) \notin DOMAIN completions
  BY <1>1, StreakStops
<1> HIDE DEF completions
<1>4. last = IF today \in DOMAIN completions THEN today ELSE today - 1
  BY DEF LastDay
<1> HIDE DEF today, last
<1>5. \A k \in 0..(W - 1) : (last - k) \in (today - W)..today
  BY <1>1, <1>4
<1>6. LongestRun(u, z, last) = m
  <2>1. \A k \in 0..(m - 1) : (last - k) \in Days(u, z)
    BY <1>1, <1>2, <1>3, <1>5
  <2>2. m < W => (last - m) \notin Days(u, z)
    BY <1>1, <1>2, <1>3, <1>5
  <2>3. last \in Int
    BY <1>1, <1>4
  <2> QED
    BY <2>1, <2>2, <2>3, LongestStops DEF Days
<1>7. CASE today \in DOMAIN completions
  <2>1. m > 0
    BY <1>1, <1>3, <1>4, <1>7
  <2> QED
    BY <1>3, <1>4, <1>6, <1>7, <2>1 DEF today, completions
<1>8. CASE today \notin DOMAIN completions
  <2>1. today \notin Days(u, z)
    BY <1>1, <1>2, <1>8
  <2>2. LongestRun(u, z, today) = 0
    <3>1. 0 \in 0..W /\ today \in Int /\ today - 0 = today
      BY <1>1
    <3>2. \A k \in 0..(0 - 1) : (today - k) \in Days(u, z)
      OBVIOUS
    <3> QED
      BY <2>1, <3>1, <3>2, LongestStops DEF Days
  <2> QED
    BY <1>3, <1>4, <1>6, <1>8, <2>2 DEF today, completions
<1> QED
  BY <1>7, <1>8

\* The board keeps its word in every state of the rows and the clock.
LEMMA BoardAlways ==
  ASSUME IInv
  PROVE  BoardHonest
<1> SUFFICES ASSUME NEW u \in Users, NEW z \in Zones
    PROVE  LET board == Board(db, u, z)
               totals == board.totals
               today == Day[z][now]
               run == LongestRun(u, z, today) IN
           /\ \A s \in {"today", "scheduled", "all", "overdue"} :
                totals[s] = Cardinality(Opened(db, u, z, s))
           /\ board.week[today] = totals.done_today
           /\ totals.done_today <= totals.total_today
           /\ board.progress \in 0..100
           /\ board.streak = IF run > 0 THEN run ELSE LongestRun(u, z, today - 1)
  BY DEF BoardHonest
<1> DEFINE today == Day[z][now]
           completions == Completions(db, u, z, today - StreakWindow)
           totals == Aggregates(db, u, z)
           done == DoneToday(db, u, z)
           held == DueToday(db, u, z) \cup done
           board == Board(db, u, z)
<1>1. /\ board.totals = totals
      /\ board.week = Week(completions, today) /\ board.streak = Streak(completions, today)
      /\ board.progress = IF totals.total_today = 0 THEN 0
                          ELSE Percent(totals.done_today, totals.total_today)
  BY DEF Board
<1>2. totals.done_today = Cardinality(done) /\ totals.total_today = Cardinality(held)
  BY DEF Aggregates
<1>3. /\ IsFiniteSet(held) /\ Cardinality(done) <= Cardinality(held)
      /\ Cardinality(done) \in Nat /\ Cardinality(held) \in Nat
  <2>1. held \in SUBSET OwnTasks(db, u) /\ done \in SUBSET held
    BY DEF DueToday, DoneToday
  <2> QED
    BY <2>1, DaysAre, FS_Subset, FS_CardinalityType
<1>4. Week(completions, today)[today] = Cardinality(done)
  <2>1. today \in Nat /\ today \in (today + 1 - WeekDays)..today
    BY DaysAre, DayAssumption
  <2>2. Week(completions, today)[today]
          = IF today \in DOMAIN completions THEN completions[today] ELSE 0
    BY <2>1 DEF Week
  <2> QED
    BY <2>2, CompletionsReach
<1>5. board.progress \in 0..100
  BY <1>1, <1>2, <1>3, PercentIs
<1>6. \A s \in {"today", "scheduled", "all", "overdue"} :
        totals[s] = Cardinality(Opened(db, u, z, s))
  BY CardsCount
<1> HIDE DEF board, totals, done, held
<1> QED
  BY <1>1, <1>2, <1>3, <1>4, <1>5, <1>6, StreakIsLongest DEF board, totals

\* Each card counts the list it opens, today's bar is what was done today, which
\* is part of what today held, the progress is a percentage, and the streak is
\* the longest run of days with work as far as the window goes, for any
\* calendar (dashboard_summary, _completions_by_local_day, _streak_days).
THEOREM BoardHonestAlways == Spec => []BoardHonest
<1>1. IInv => BoardHonest
  BY BoardAlways
<1> QED
  BY <1>1, Invariance, PTL
=============================================================================
