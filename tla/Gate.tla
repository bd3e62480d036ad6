--------------------------------- MODULE Gate ---------------------------------
(***************************************************************************)
(* The gate of the app's screens (mobile/src/realtime/gate.tsx): operations *)
(* of the mounted routes run one at a time, a document counts as applied    *)
(* only when a layout has acknowledged it, hints make screens reload, and   *)
(* what the user has typed survives answers that were asked for before.     *)
(*                                                                         *)
(* An action is the code between two awaits or callbacks.  Nearly every one *)
(* of them ends in drain(), which is a function of the gate's state here:   *)
(* g' = Drained(x).  The list is a route that reloads by itself             *)
(* (automatic()), the form one that does not; it is opened from the list.   *)
(***************************************************************************)
EXTENDS Integers, Sequences, FiniteSets

CONSTANTS
  Ops,           \* bound: operations and coroutines of retired ones
  NoOp,
  MaxHints,      \* bound: hints of an epoch
  MaxEdits, MaxPauses, MaxEpoch,
  MaxActions, MaxChoices    \* bounds: what a user dispatches, answers to a notice

ASSUME GateConstants ==
  /\ NoOp \notin Ops /\ IsFiniteSet(Ops) /\ Ops # {}
  /\ {MaxHints, MaxEdits, MaxPauses, MaxEpoch, MaxActions, MaxChoices} \subseteq Nat

VARIABLE g

Routes == {"list", "form"}
Values == 0 .. 1
None == -1
Void == -2

-----------------------------------------------------------------------------
\* `shown' is what the forms of a tree hold; `current', `baseline' and `rev' are
\* the DraftState.  `want' and `clash' are formVersions and formChanges, `seen'
\* observedResources, `fail' resourceFailure.  `load': the hints there were when
\* the screen itself was asked for.  `layout': an effect is due.  `askedRev' and
\* `askedHeld' are what confirmDiscard()'s caller captured.  History: `behind',
\* what was sent before the last edit; `given', what the server last gave for the
\* whole of a form; `away', the last hint that reached a clean list out of sight.
Fresh == [mounted |-> FALSE, focused |-> FALSE, layout |-> FALSE, load |-> None,
          seen |-> 0, want |-> 0, clash |-> 0, fail |-> None, failed |-> FALSE,
          shown |-> 0, current |-> 0, baseline |-> 0, rev |-> 0,
          consent |-> "none", concealed |-> FALSE, held |-> NoOp,
          askedRev |-> None, askedHeld |-> NoOp,
          behind |-> {}, given |-> 0, away |-> 0]
\* `live': it is in `operations'.  A coroutine that is not only waits to end.
\* `turn': its place in `queue'.
FreeOp == [kind |-> "none", key |-> "list", pc |-> "free", live |-> FALSE, turn |-> 0,
           draft |-> None, value |-> 0, version |-> 0, seen |-> 0, sync |-> FALSE,
           commit |-> None]
Opening(hint) == [Fresh EXCEPT !.load = hint]

Reloads == {"reload", "refresh"}
Drafted == Reloads \cup {"post"}    \* what is applied only to the fields it was sent with
Moves == {"open", "back"}

Init == g = [epoch |-> 1, suspended |-> FALSE, paused |-> FALSE, active |-> NoOp,
             hint |-> 0, changed |-> 0, stack |-> <<"list">>,
             rt |-> [r \in Routes |-> IF r = "list" THEN Opening(0) ELSE Fresh],
             op |-> [o \in Ops |-> FreeOp],
             edits |-> 0, pauses |-> 0, actions |-> 0, choices |-> 0]

Live(x) == {o \in Ops : x.op[o].live}
Vacant(x) == {o \in Ops : x.op[o].pc = "free"}
Late(x) == Ops \ (Live(x) \cup Vacant(x))
Queued(x) == {o \in Live(x) : x.op[o].pc = "queued"}
First(x) == CHOOSE o \in Queued(x) : \A q \in Queued(x) : x.op[o].turn <= x.op[q].turn
Slot(x) == CHOOSE o \in Vacant(x) : TRUE
Top(x) == x.stack[Len(x.stack)]
Dirty(d) == d.current # d.baseline

\* neededVersion(): what is newer than the document of the route.
Newer(version, d) == IF version > d.seen THEN version ELSE 0
Needed(x, r) == Newer(IF r = "form" THEN x.rt[r].want ELSE x.hint, x.rt[r])
Changes(x, r) == Newer(IF r = "form" THEN x.rt[r].clash ELSE x.changed, x.rt[r])

\* updateDraft(): a consent is for the revision it was given for.
Track(d) ==
  IF d.current = d.shown THEN d
  ELSE [d EXCEPT !.current = d.shown, !.rev = @ + 1, !.consent = "none"]

\* enqueue() admits what the screen in front dispatches ...
Interactive(x, r) == ~x.suspended /\ ~x.paused /\ x.rt[r].mounted /\ x.rt[r].focused
\* ... from a node of the tree that is shown.  Between the moment a document is
\* the gate's (route.element) and its layout a tap can reach nobody: the screen
\* is drawn again at once (setState), and the shield over a screen that is not
\* in front takes no touches.
Attached(x, r) ==
  /\ x.rt[r].load = None
  /\ \A o \in Live(x) : x.op[o].key = r /\ x.op[o].pc = "laying" => x.op[o].kind \notin Reloads

-----------------------------------------------------------------------------
(* retire(), finish() and drain().                                         *)

\* The operations of a set are retired.  The coroutine of one that awaits the network
\* or the end of a pause goes on doing so.  (Bound: one such coroutine at a time.)
Pending(p) == p.pc \in {"loading", "accepted"}
Ended(x, p) ==
  IF Pending(p) /\ Late(x) = {} /\ Vacant(x) # {} THEN [p EXCEPT !.live = FALSE] ELSE FreeOp
Released(d, S) ==
  [d EXCEPT !.held = IF @ \in S THEN NoOp ELSE @,
            !.askedHeld = IF @ \in S THEN NoOp ELSE @, !.behind = @ \ S]
Retired(x, S) ==
  [x EXCEPT !.op = [o \in Ops |-> IF o \in S THEN Ended(x, @[o]) ELSE @[o]],
            !.rt = [r \in Routes |-> Released(@[r], S)],
            !.active = IF @ \in S THEN NoOp ELSE @]
\* `why': "ack", "quiet" for the reasons that are no failure of the route,
\* "gone" when its owner is, "bad" for what the network did.
Told(d, T, why) ==
  LET reloads == {p \in T : p.kind \in Reloads}
      refreshes == {p \in T : p.kind = "refresh"} IN
  [d EXCEPT !.failed = why # "ack" /\ (@ \/ why # "quiet"),
            !.fail = IF why = "ack" /\ reloads # {} THEN None
                     ELSE IF why \in {"quiet", "bad"} /\ refreshes # {}
                          THEN (CHOOSE p \in refreshes : TRUE).version ELSE @]
Finished(x, S, why) ==
  LET Of(r) == {x.op[o] : o \in {q \in S : x.op[q].key = r}} IN
  Retired([x EXCEPT !.rt = [r \in Routes |-> IF @[r].mounted /\ Of(r) # {}
                                             THEN Told(@[r], Of(r), why) ELSE @[r]]], S)

\* run(): the operation becomes active and sends what the screen holds now.
Run(x, o) ==
  LET p == x.op[o]
      d == Track(x.rt[p.key])
      sent == [p EXCEPT !.turn = 0,
                        !.pc = IF p.kind \in Moves THEN "navigating" ELSE "loading",
                        !.draft = IF p.kind \in Drafted THEN d.rev ELSE None,
                        !.value = IF p.kind = "post" THEN d.shown ELSE 0,
                        !.seen = IF p.kind \in Reloads THEN x.hint ELSE 0] IN
  [x EXCEPT !.active = o, !.op[o] = sent, !.rt[p.key] = IF p.kind \in Drafted THEN d ELSE @]

\* refreshResources(), when nothing else is under way.
Refreshing(x, r) ==
  LET o == Slot(x) IN
  Run([x EXCEPT !.op[o] = [FreeOp EXCEPT !.kind = "refresh", !.key = r, !.live = TRUE,
                                         !.version = Needed(x, r)]], o)
Wants(x, r) ==
  /\ x.rt[r].mounted /\ x.rt[r].focused /\ x.rt[r].fail # Needed(x, r)
  /\ x.rt[r].consent = "refresh" \/ (r = "list" /\ Needed(x, r) > 0 /\ ~Dirty(x.rt[r]))

\* Mutant: the list is concealed only by a drain that gets beyond its guard.
ConcealedWhenIdle(x) ==
  LET d == x.rt["list"] IN
  IF d.mounted /\ ~d.focused /\ x.active = NoOp /\ ~Dirty(d) /\ Needed(x, "list") > 0
  THEN [x EXCEPT !.rt["list"].concealed = TRUE] ELSE x
\* A stale list nobody looks at is concealed until it has been reloaded.
Concealed(x) ==
  LET d == Track(x.rt["list"]) IN
  IF d.mounted /\ ~d.focused
  THEN [x EXCEPT !.rt["list"] =
          [d EXCEPT !.concealed = @ \/ (~Dirty(d) /\ Needed(x, "list") > 0)]]
  ELSE x
Drained(x0) ==
  LET x == Concealed(x0)
      y == [x EXCEPT !.rt = [r \in Routes |-> IF @[r].mounted THEN Track(@[r]) ELSE @[r]]] IN
  IF x.suspended \/ x.paused \/ x.active # NoOp THEN x
  ELSE IF Queued(x) # {} THEN Run(x, First(x))
  ELSE IF Wants(y, "list") THEN Refreshing(y, "list")
  ELSE IF Wants(y, "form") THEN Refreshing(y, "form")
  ELSE y

-----------------------------------------------------------------------------
(* The effects of a Boundary.                                              *)

InStack(r) == \E i \in 1 .. Len(g.stack) : g.stack[i] = r
LayoutDue(r) ==
  InStack(r) /\ (~g.rt[r].mounted \/ g.rt[r].layout \/ g.rt[r].focused # (Top(g) = r))
UnmountDue(r) == ~InStack(r) /\ g.rt[r] # Fresh

\* Mutant: whatever the form holds at the layout is taken for what was saved.
SavedAnyhow(p, d) == p.commit # None
\* draftCommit: the answer gave the whole form, and it is still what it gave.
Saved(p, d) == p.commit = d.shown /\ p.draft = d.rev

\* A layout acknowledges the document of the screen itself and what has been
\* delivered to it, unless the gate is paused: then the marker waits.
Layout(r) ==
  LET d == g.rt[r]
      front == Top(g) = r
      acks == IF g.paused THEN {}
              ELSE {o \in Live(g) : g.op[o].key = r /\ g.op[o].pc = "laying"}
      whole == {o \in acks : g.op[o].kind \in Reloads}
      committed == whole # {} \/ (~g.paused /\ d.load # None)
      saved == \E o \in acks : Saved(g.op[o], d)
      x == Finished(g, acks, "ack")
      seen == IF whole # {} THEN g.op[CHOOSE o \in whole : TRUE].seen
              ELSE IF committed THEN d.load ELSE d.seen
      consent == IF committed THEN "none" ELSE d.consent
      moved == d.mounted /\ d.current # d.shown
      laid == [x.rt[r] EXCEPT
                 !.mounted = TRUE, !.focused = front, !.layout = FALSE, !.seen = seen,
                 !.load = IF g.paused THEN @ ELSE None,
                 !.want = IF d.mounted THEN @ ELSE g.hint,
                 !.clash = IF d.mounted THEN @ ELSE g.changed,
                 !.concealed = consent # "none" \/ (@ /\ g.hint > seen),
                 !.consent = IF moved THEN "none" ELSE consent,
                 !.current = d.shown, !.rev = IF moved THEN @ + 1 ELSE @,
                 !.baseline = IF ~d.mounted \/ committed \/ saved THEN d.shown ELSE @,
                 !.askedRev = IF committed /\ @ # None THEN Void ELSE @,
                 !.away = IF seen >= @ THEN 0 ELSE @]
      y == [x EXCEPT !.rt[r] = laid]
      gone == IF front THEN {}
              ELSE {o \in Live(y) : y.op[o].key = r /\ y.op[o].kind = "refresh"} IN
  /\ LayoutDue(r)
  /\ g' = Drained(Finished(y, gone, "gone"))

\* The screen has been popped.
Unmount(r) ==
  /\ UnmountDue(r)
  /\ g' = Drained([Finished(g, {o \in Live(g) : g.op[o].key = r}, "gone") EXCEPT !.rt[r] = Fresh])

-----------------------------------------------------------------------------
(* What the user dispatches.                                               *)

\* An operation joins the queue.  Behaviours that share a sync-id replace one
\* another or are dropped; a new explicit action retires a held answer.
Enqueue(r, kind, sync, replace) ==
  LET o == Slot(g)
      rivals == IF sync THEN {q \in Live(g) : /\ g.op[q].key = r /\ g.op[q].sync
                                              /\ g.op[q].pc # "laying"}
                ELSE {}
      x == Finished(g, rivals, "quiet")
      y == IF x.active # NoOp /\ x.op[x.active].pc = "drafting"
           THEN Finished(x, {x.active}, "quiet") ELSE x IN
  /\ g.actions < MaxActions /\ Interactive(g, r) /\ Attached(g, r)
  /\ Cardinality(Vacant(g)) > 1
  /\ rivals # {} => replace
  /\ g' = Drained([y EXCEPT !.op[o] = [FreeOp EXCEPT !.kind = kind, !.key = r, !.live = TRUE,
                                                     !.pc = "queued", !.sync = sync,
                                                     !.turn = g.actions + 1],
                            !.actions = @ + 1])

Dispatch ==
  \/ Enqueue("list", "reload", FALSE, FALSE)
  \/ Enqueue("list", "open", FALSE, FALSE)
  \/ \E replace \in BOOLEAN : Enqueue("list", "get", TRUE, replace)
  \/ \E replace \in BOOLEAN : Enqueue("form", "post", TRUE, replace)
  \/ Enqueue("form", "back", FALSE, FALSE)

\* A field changes: the live tree is swapped at once, a layout follows.
Edit(r, value) ==
  /\ g.edits < MaxEdits /\ Interactive(g, r) /\ Attached(g, r) /\ value # g.rt[r].shown
  /\ g' = Drained([g EXCEPT !.rt[r] = Track([@ EXCEPT !.shown = value, !.layout = TRUE,
                               !.behind = {o \in Live(g) : g.op[o].key = r
                                 /\ g.op[o].pc \in {"loading", "accepted", "drafting"}}]),
                            !.edits = @ + 1])

-----------------------------------------------------------------------------
(* The network and the navigator.                                          *)

\* Mutant: a coroutine does not ask whether its operation has been retired.
OwnedAlways(p) == TRUE
Owned(p) == p.live
\* Mutant: fields are compared by what they hold.
UnchangedValue(p, d) == d.shown = p.value
Unchanged(p, d) == d.rev = p.draft

\* The answer is there, and no pause holds it back.  A reload or the answer to a
\* form is applied if the fields are what they were when it was asked for.
Deliver(o, value, whole) ==
  LET p == g.op[o]
      x == [g EXCEPT !.rt[p.key] = Track(@)]
      d == x.rt[p.key]
      same == Unchanged(p, d)
      Applied(commit) ==
        [x EXCEPT !.op[o] = [p EXCEPT !.pc = "laying", !.commit = commit, !.value = 0],
                  !.rt[p.key] = [d EXCEPT !.layout = TRUE,
                                          !.held = IF @ = o THEN NoOp ELSE @,
                                          !.shown = IF p.kind = "get" THEN @ ELSE value,
                                          !.given = IF commit = None THEN @ ELSE commit]] IN
  /\ Pending(p) /\ ~g.paused
  /\ p.kind = "post" \/ whole
  /\ value \in (IF p.kind = "post" THEN {0, p.value} ELSE {0})
  /\ \/ /\ ~Owned(p)
        /\ g' = [g EXCEPT !.op[o] = FreeOp]
     \/ /\ Owned(p) /\ p.kind \in Reloads /\ ~same
        /\ g' = Drained(Finished([x EXCEPT !.rt[p.key].fail = None], {o}, "quiet"))
     \/ /\ Owned(p) /\ p.kind = "post" /\ ~same
        /\ g' = [x EXCEPT !.op[o].pc = "drafting", !.rt[p.key].held = o]
     \/ /\ Owned(p) /\ p.kind \in Drafted /\ same
        /\ g' = Applied(IF whole THEN value ELSE None)
     \/ /\ Owned(p) /\ p.kind = "get"
        /\ g' = Applied(None)

\* Mutant: nothing goes on after an error.
FailUndrained(o) ==
  /\ g.op[o].pc = "loading"
  /\ g' = IF g.op[o].live THEN Finished(g, {o}, "bad") ELSE [g EXCEPT !.op[o] = FreeOp]
\* The request fails, is answered 204 or with a document of another request.
Fail(o) ==
  LET p == g.op[o] IN
  /\ p.pc = "loading"
  /\ g' = IF p.live THEN Drained(Finished(g, {o}, "bad"))
          ELSE [g EXCEPT !.op[o] = FreeOp]

\* The navigator's state changes, or there was nowhere to go.  (Bound: one form.)
Navigate(o) ==
  LET p == g.op[o]
      x == IF p.kind = "open" /\ Len(g.stack) = 1 /\ g.rt["form"] = Fresh
           THEN [g EXCEPT !.stack = <<"list", "form">>, !.rt["form"] = Opening(g.hint)]
           ELSE IF p.kind = "back" THEN [g EXCEPT !.stack = <<"list">>]
           ELSE g IN
  /\ p.pc = "navigating"
  /\ g' = Drained(Finished(x, {o}, "quiet"))

\* The back gesture is the navigator's own.
UserBack ==
  /\ Len(g.stack) = 2 /\ g.choices < MaxChoices
  /\ g' = [g EXCEPT !.stack = <<"list">>, !.choices = @ + 1]

-----------------------------------------------------------------------------
(* Notices and dialogs.                                                    *)

\* A form that has changed elsewhere: conflictChoices().
Conflict(x, r) == r = "form" /\ x.rt[r].consent = "none" /\ Changes(x, r) > 0 /\ ~x.rt[r].failed

\* The user gives the draft up, for the new document or for the list before it.
Choose(back) ==
  LET x0 == [g EXCEPT !.rt["form"] = Track(@), !.rt["list"] = IF back THEN Track(@) ELSE @]
      held == x0.rt["form"].held
      x == IF held = NoOp THEN x0 ELSE Finished(x0, {held}, "quiet")
      Agreed(d, consent) == [d EXCEPT !.consent = consent, !.concealed = TRUE]
      y == [x EXCEPT !.rt["form"] = Agreed(@, IF back THEN "leave" ELSE "refresh"),
                     !.choices = @ + 1] IN
  /\ Interactive(g, "form") /\ Conflict(x0, "form") /\ g.choices < MaxChoices
  /\ g.rt["form"].current = g.rt["form"].shown
  /\ Live(g) \subseteq {held} /\ g.rt["form"].askedRev = None
  /\ back => Len(g.stack) = 2 /\ x0.rt["list"].mounted /\ ~Dirty(x0.rt["list"])
  /\ g' = IF back
          THEN Drained([y EXCEPT !.stack = <<"list">>, !.rt["list"] = Agreed(@, "refresh")])
          ELSE Refreshing(y, "form")

\* The notice of a route offers an update; over a draft it asks first.
Update(r) ==
  LET x == [g EXCEPT !.rt[r] = Track(@)]
      d == x.rt[r]
      offered == \/ d.held # NoOp \/ d.failed
                 \/ Changes(g, r) > 0 /\ ~(r = "list" /\ ~Dirty(d) /\ d.fail # Needed(g, r)) IN
  /\ Interactive(g, r) /\ offered /\ ~Conflict(g, r) /\ d.askedRev = None
  /\ d.consent = "none" \/ d.held # NoOp \/ d.failed
  /\ g.active \in {NoOp, d.held} /\ g.choices < MaxChoices
  /\ g' = IF d.consent = "refresh" \/ (~Dirty(d) /\ d.held = NoOp)
          THEN Refreshing([x EXCEPT !.choices = @ + 1], r)
          ELSE [x EXCEPT !.rt[r] = [@ EXCEPT !.askedRev = d.rev, !.askedHeld = d.held],
                         !.choices = @ + 1]

\* confirmDiscard() settles: what it was asked about must still be there.
ConfirmAnswer(r, accepted) ==
  LET x == [g EXCEPT !.rt[r] = Track([@ EXCEPT !.askedRev = None, !.askedHeld = NoOp])]
      d == x.rt[r]
      held == g.rt[r].askedHeld
      valid == Interactive(g, r) /\ accepted /\ d.rev = g.rt[r].askedRev IN
  /\ g.rt[r].askedRev # None
  /\ g' = IF valid /\ held # NoOp /\ g.active = held /\ d.held = held
          THEN [x EXCEPT !.op[held] = [@ EXCEPT !.draft = d.rev, !.pc = "accepted"],
                         !.rt[r].behind = @ \ {held}]
          ELSE IF valid /\ g.active = NoOp THEN Refreshing(x, r)
          ELSE x

-----------------------------------------------------------------------------
(* What the owners of the gate call.                                       *)

\* invalidateResources().  `affects': affectsForm() of the form that is open.
Hint(cause, affects) ==
  LET h == g.hint + 1
      d == g.rt["list"]
      hits == g.rt["form"].mounted /\ (cause = "resync" \/ affects) IN
  /\ ~g.suspended /\ g.hint < MaxHints
  /\ g' = Drained([g EXCEPT
       !.hint = h, !.changed = IF cause = "invalidate" THEN h ELSE @,
       !.rt = [g.rt EXCEPT
         !["form"].want = IF hits THEN h ELSE @,
         !["form"].clash = IF hits /\ cause = "invalidate" THEN h ELSE @,
         !["list"].away = IF d.mounted /\ ~d.focused /\ ~Dirty(Track(d)) THEN h ELSE @]])

\* setRetainedPaused(): delivery waits; afterwards every route is laid out anew.
Pause ==
  /\ ~g.suspended /\ ~g.paused /\ g.pauses < MaxPauses
  /\ g' = [g EXCEPT !.paused = TRUE, !.pauses = @ + 1]
ResumeDue == ~g.suspended /\ g.paused
\* Mutant: the delivered documents are not laid out again.
ResumeUnlaid == ResumeDue /\ g' = Drained([g EXCEPT !.paused = FALSE])
Resume ==
  /\ ResumeDue
  /\ g' = Drained([g EXCEPT !.paused = FALSE,
                            !.rt = [r \in Routes |->
                                      [g.rt[r] EXCEPT !.layout = @ \/ g.rt[r].mounted]]])

\* Mutant: the versions of changed resources outlive their epoch.
ResetKeepingChanges ==
  /\ g.epoch < MaxEpoch
  /\ g' = [Finished(g, Live(g), "gone") EXCEPT
             !.epoch = @ + 1, !.suspended = TRUE, !.active = NoOp,
             !.hint = 0, !.stack = <<>>, !.rt = [r \in Routes |-> Fresh]]
\* resetEpoch() and resumeEpoch().
Reset ==
  /\ g.epoch < MaxEpoch
  /\ g' = [Finished(g, Live(g), "gone") EXCEPT
             !.epoch = @ + 1, !.suspended = TRUE, !.active = NoOp,
             !.hint = 0, !.changed = 0, !.stack = <<>>,
             !.rt = [r \in Routes |-> Fresh]]
ResumeEpoch ==
  /\ g.suspended
  /\ g' = [g EXCEPT !.suspended = FALSE, !.stack = <<"list">>,
                    !.rt["list"] = Opening(0)]

-----------------------------------------------------------------------------
Next ==
  \/ \E r \in Routes : Layout(r)
  \/ \E r \in Routes : Unmount(r)
  \/ Dispatch
  \/ \E r \in Routes, value \in Values : Edit(r, value)
  \/ \E o \in Ops, value \in Values, whole \in BOOLEAN : Deliver(o, value, whole)
  \/ \E o \in Ops : Fail(o)
  \/ \E o \in Ops : Navigate(o)
  \/ UserBack
  \/ \E back \in BOOLEAN : Choose(back)
  \/ \E r \in Routes : Update(r)
  \/ \E r \in Routes, accepted \in BOOLEAN : ConfirmAnswer(r, accepted)
  \/ \E cause \in {"invalidate", "resync", "local"}, affects \in BOOLEAN : Hint(cause, affects)
  \/ Pause
  \/ Resume
  \/ Reset
  \/ ResumeEpoch

Spec == Init /\ [][Next]_g

\* React lays out what it was given, requests settle, the navigator does what it
\* is told, and a pause ends; nothing is assumed of the user.  Each of these
\* actions is enabled exactly while it is due and ends that, so that weak fairness
\* of it says that it is not due for ever.
FairSpec ==
  /\ Spec
  /\ \A r \in Routes : []<>~LayoutDue(r) /\ []<>~UnmountDue(r)
  /\ \A o \in Ops : []<>~(Pending(g.op[o]) /\ ~g.paused) /\ []<>(g.op[o].pc # "navigating")
  /\ []<>~ResumeDue
=============================================================================
