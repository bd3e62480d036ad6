------------------------------- MODULE TaskList -------------------------------
(***************************************************************************)
(* A task list on a phone, read in pages while others write (views.py       *)
(* _paginate, _paginate_request, task_list; partials/task_items.xml; the    *)
(* reload of a list in realtime/resources.tsx).  A page is read in two      *)
(* queries, its count and its rows, and a commit may fall between them.     *)
(***************************************************************************)
EXTENDS Todo

CONSTANTS
  Reader,      \* whose list it is
  Statuses,    \* the filters it may have: "all", "active", "completed"
  PageSize,    \* PAGE_SIZE
  MaxPrefix    \* the pages one reload may ask for (20)

ASSUME PageAssumption == PageSize \in Nat \ {0} /\ MaxPrefix \in Nat \ {0}
\* Identifiers are those of a 64-bit column: there are finitely many.
ASSUME ReaderAssumption == Reader \in Users /\ IsFiniteSet(Tasks)

VARIABLE view  \* the list on the screen and the read under way

lvars == <<vars, view>>

-----------------------------------------------------------------------------
\* selectors.tasks_for_user: the open tasks first, then by when they were
\* done, then by deadline with none last, then the newest first.

Filtered(d, u, status) ==
  {t \in OwnTasks(d, u) :
     /\ status = "active" => d.task[t].done = 0
     /\ status = "completed" => d.task[t].done # 0}
NoneLast(a, b) == a.due # b.due /\ (b.due = Undated \/ (a.due # Undated /\ a.due.at < b.due.at))
SameDue(a, b) == ~NoneLast(a, b) /\ ~NoneLast(b, a)
Before(d, s, t) ==
  LET a == d.task[s]
      b == d.task[t] IN
  \/ a.done < b.done
  \/ a.done = b.done /\ NoneLast(a, b)
  \/ a.done = b.done /\ SameDue(a, b) /\ s > t
Place(d, list, t) == Cardinality({s \in list : Before(d, s, t)})
\* The rows from place "from" up to place "to".
Slice(d, from, to) ==
  LET list == Filtered(d, Reader, view.status) IN
  {Row(d, t) : t \in {x \in list : Place(d, list, x) \in from..(to - 1)}}

Least(a, b) == IF a < b THEN a ELSE b
\* Django's num_pages: an empty list has one page.
PagesOf(n) == IF n = 0 THEN 1 ELSE (n + PageSize - 1) \div PageSize
CountedPages == PagesOf(Cardinality(Filtered(db, Reader, view.status)))

-----------------------------------------------------------------------------
\* The list: its rows, how many pages of them, whether its last row asks for
\* the next page when it is seen, the pages its document's address asks for,
\* and whether a hint has come since the last reload began.

Still == [pc |-> "still"]
ListInit ==
  /\ Init
  /\ \E s \in Statuses :
       view = [status |-> s, rows |-> {}, pages |-> 1, more |-> FALSE, address |-> 1, owed |-> TRUE,
               read |-> Still]
Reading(x) == view' = [view EXCEPT !.read = x]
AtRest == view.read = Still

\* A reload asks for the pages on the screen, or for the first one if they
\* are more than a reload may ask for.
Reload(pages) ==
  LET n == IF pages > MaxPrefix THEN 1 ELSE pages IN
  view' = [view EXCEPT !.owed = FALSE, !.address = n, !.read = [pc |-> "reload", asked |-> n]]
Refresh == AtRest /\ view.owed /\ Reload(view.pages)
\* The last row has been seen: its behavior asks for the next page, once.
Append == AtRest /\ view.more /\ Reading([pc |-> "append", asked |-> view.pages + 1])
\* The person pulls the list down: its first page in place of all.
Pull == AtRest /\ Reading([pc |-> "pull", asked |-> 1])

\* A page that is not there is refused with a row that reloads the document.
PageRefused ==
  view' = [view EXCEPT !.more = FALSE, !.owed = FALSE,
                       !.read = [pc |-> "reload", asked |-> view.address]]
\* The first query, of the number of pages.
Count ==
  LET x == view.read IN
  /\ x.pc \in {"reload", "append", "pull"}
  /\ IF x.pc = "append" /\ x.asked > CountedPages
     THEN PageRefused
     ELSE Reading([pc |-> "rows", as |-> x.pc, count |-> CountedPages,
                   target |-> Least(x.asked, CountedPages)])

\* A deletion between count and read must not leave an empty page at the end.
Tail(target, rows) == Least(target, PagesOf(rows))

\* The second query, and the answer on the screen.  Only a row can ask for
\* the next page, so an empty page does not.
Rows ==
  LET x == view.read
      appended == x.as = "append"
      new == Slice(db, IF appended THEN (x.target - 1) * PageSize ELSE 0, x.target * PageSize)
      last == IF appended THEN x.target ELSE Tail(x.target, Cardinality(new))
      full == Cardinality(new) > (IF appended THEN 0 ELSE (last - 1) * PageSize) IN
  /\ x.pc = "rows"
  /\ view' = [view EXCEPT
       !.read = Still,
       !.rows = IF appended THEN @ \cup new ELSE new,
       !.pages = IF appended /\ ~full THEN @ ELSE last,
       !.more = full /\ last < x.count]

\* A hint that names tasks or categories makes the list owe a reload, one that
\* comes while a page is read too.
\* Mutant: the page that is being read is taken to be new enough.
HeardAtRest(r) == AtRest /\ \E h \in out[r] \ out'[r] : Tells(h, Reader, <<"task list", 0>>)
Heard(r) == \E h \in out[r] \ out'[r] : Tells(h, Reader, <<"task list", 0>>)
Others ==
  \/ Tick /\ UNCHANGED view
  \/ \E r \in Requests : Serve(r) /\ view' = [view EXCEPT !.owed = @ \/ Heard(r)]

ListNext == Others \/ (UNCHANGED vars /\ (Refresh \/ Append \/ Pull \/ Count \/ Rows))
ListSpec == ListInit /\ [][ListNext]_lvars

-----------------------------------------------------------------------------
Told == ~view.owed /\ \A r \in Requests : \A h \in out[r] : ~Tells(h, Reader, <<"task list", 0>>)
\* When nothing is owed or under way, the list shows the first rows of what
\* the filter now selects, whole pages of them, and its last row asks for
\* the next page exactly when there is one: no row is missing, doubled or
\* out of date, and no list ends in a page without rows, wherever the
\* commits fell between the two queries of a page, or between two pages
\* (_paginate_request, task_items.xml, resourceReloadUrl).
ListCatchesUp ==
  AtRest /\ Told =>
    LET all == Cardinality(Filtered(db, Reader, view.status)) IN
    /\ view.rows = Slice(db, 0, view.pages * PageSize)
    /\ view.pages <= PagesOf(all)
    /\ view.more <=> all > view.pages * PageSize
=============================================================================
