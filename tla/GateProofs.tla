------------------------------ MODULE GateProofs ------------------------------
(***************************************************************************)
(* The gate of the screens, for any operations, hints, edits and pauses.    *)
(* run(), finish() and drain() are called one inside the other, so that the *)
(* invariant is about a gate x: Steady(x) holds of what finish() is given   *)
(* and leaves behind, and of what drain() is given; drain() makes it Quiet. *)
(***************************************************************************)
EXTENDS GateProperties, FiniteSetTheorems, WellFoundedInduction, TLAPS

-----------------------------------------------------------------------------
\* The invariant, of the gate's state x, which drain() and finish() keep too.
\* What the operations say of each other: the one that is active is at work, and
\* the others wait; when none is, there is room for a reload.
Working(x) ==
  /\ x.active # NoOp => x.active \in Live(x)
  /\ x.active = NoOp => Vacant(x) # {}
  /\ \A o \in Ops :
       /\ x.op[o].live => x.op[o].pc # "free" /\ (x.active # o <=> x.op[o].pc = "queued")
       /\ ~x.op[o].live => x.op[o].pc = "free" \/ Pending(x.op[o])
  /\ \A o \in Queued(x) : x.op[o].turn <= x.actions
  /\ \A o, q \in Queued(x) : x.op[o].turn = x.op[q].turn => o = q

\* What an operation p of the route d knows of it; `late' if an edit came after
\* it was sent.  An answer to wait for was asked for with an older revision or
\* with this one; one that is applied gave what the route was last given.
Asked(p) == p.kind \in Drafted /\ p.pc \in {"loading", "accepted", "drafting"}
Follows(p, d, late) ==
  /\ Asked(p) => /\ d.current = d.shown /\ p.draft <= d.rev /\ (late => p.draft < d.rev)
                 /\ p.kind = "post" /\ p.draft # d.rev => d.consent # "refresh"
  /\ p.pc = "laying" => /\ p.commit # None => p.commit = d.given
                        /\ p.kind \in Reloads => d.shown = d.given
  /\ d.load # None => p.value = 0
  /\ late => p.pc # "queued"

\* What the record d of route r says: only a mounted screen has operations, only
\* the active one is held, and a document that has not been laid out is untouched.
\* No document is newer than the last hint.
Own(x, r) == {o \in Live(x) : x.op[o].key = r}
Sound(x, r, d) ==
  /\ Own(x, r) # {} => d.mounted
  /\ d.held # NoOp => /\ d.held = x.active /\ d.held \in Own(x, r) /\ d.consent # "refresh"
                      /\ x.op[d.held].kind = "post" /\ x.op[d.held].pc \in {"drafting", "accepted"}
  /\ d.behind \subseteq Own(x, r)
  /\ \A o \in Own(x, r) : Follows(x.op[o], d, o \in d.behind)
  /\ d.load # None => d.shown = 0 /\ d.given = 0
  /\ d.away <= x.hint /\ (d.away > 0 => d.concealed)
  /\ d.seen <= x.hint /\ d.load <= x.hint /\ \A o \in Own(x, r) : x.op[o].seen <= x.hint

\* Nothing is left of an epoch that is over.
Over(x) == Live(x) = {} /\ x.stack = <<>> /\ \A r \in Routes : x.rt[r] = Fresh
Steady(x) ==
  /\ x \in Gates /\ x.changed <= x.hint /\ Working(x)
  /\ \A r \in Routes : Sound(x, r, x.rt[r])
  /\ x.suspended => Over(x)
\* A gate that rests has nothing to do.
Rests(x) == x.active = NoOp /\ ~x.paused /\ ~x.suspended
Quiet(x) ==
  Rests(x) => /\ Queued(x) = {}
              /\ \A r \in Routes : /\ ~Wants(x, r)
                                   /\ x.rt[r].mounted => x.rt[r].current = x.rt[r].shown
IInv == Steady(g) /\ Quiet(g)

-----------------------------------------------------------------------------
\* What a step of the gate leaves alone.
Beside(x, y) ==
  /\ y.suspended = x.suspended /\ y.paused = x.paused /\ y.hint = x.hint
  /\ y.changed = x.changed /\ y.stack = x.stack /\ y.actions = x.actions
  /\ y.epoch = x.epoch /\ y.choices = x.choices

\* What is assumed of the constants.
LEMMA Bounds ==
  /\ MaxHints \in Nat /\ MaxActions \in Nat /\ NoOp \notin Ops
  /\ MaxEdits \in Nat /\ MaxPauses \in Nat /\ MaxEpoch \in Nat /\ MaxChoices \in Nat
  /\ None = -1 /\ Void = -2 /\ Routes = {"list", "form"} /\ Values = 0 .. 1
BY GateConstants DEF None, Void, Routes, Values

\* A route that is not there, one that is being opened and an operation that is free.
LEMMA FreshIs ==
  /\ Fresh \in RouteRecord /\ ~Fresh.mounted /\ Fresh.held = NoOp /\ Fresh.behind = {}
  /\ Fresh.load = None /\ Fresh.away = 0 /\ Fresh.given = 0 /\ Fresh.shown = 0
  /\ Fresh.seen = 0
BY Bounds DEF Fresh, RouteRecord

\* A route that is being opened.
LEMMA OpeningIs ==
  ASSUME NEW h \in 0 .. MaxHints
  PROVE  /\ Opening(h) \in RouteRecord /\ ~Opening(h).mounted /\ Opening(h).held = NoOp
         /\ Opening(h).behind = {} /\ Opening(h).load = h
         /\ Opening(h).away = 0 /\ Opening(h).given = 0 /\ Opening(h).shown = 0
         /\ Opening(h).seen = 0
BY FreshIs, Bounds DEF Opening, RouteRecord

\* An operation that is free.
LEMMA FreeOpIs ==
  /\ FreeOp \in OpRecord /\ FreeOp.pc = "free" /\ ~FreeOp.live /\ FreeOp.key = "list"
  /\ FreeOp.turn = 0 /\ FreeOp.kind = "none" /\ FreeOp.value = 0 /\ FreeOp.seen = 0
BY Bounds DEF FreeOp, OpRecord, Routes, Values

\* A gate with other routes, or other operations.
LEMMA RoutesSet ==
  ASSUME NEW x \in Gates, NEW f \in [Routes -> RouteRecord]
  PROVE  LET y == [x EXCEPT !.rt = f] IN
         /\ y \in Gates /\ y.rt = f /\ y.op = x.op /\ y.active = x.active /\ Beside(x, y)
BY DEF Gates, Beside

\* A gate with other operations.
LEMMA OpsSet ==
  ASSUME NEW x \in Gates, NEW f \in [Ops -> OpRecord]
  PROVE  LET y == [x EXCEPT !.op = f] IN
         /\ y \in Gates /\ y.op = f /\ y.rt = x.rt /\ y.active = x.active /\ Beside(x, y)
BY DEF Gates, Beside

\* A route with another value in one of its fields.
LEMMA RouteFields ==
  ASSUME NEW d \in RouteRecord
  PROVE  /\ \A v \in BOOLEAN : /\ [d EXCEPT !.mounted = v] \in RouteRecord
                               /\ [d EXCEPT !.focused = v] \in RouteRecord
                               /\ [d EXCEPT !.layout = v] \in RouteRecord
                               /\ [d EXCEPT !.failed = v] \in RouteRecord
                               /\ [d EXCEPT !.concealed = v] \in RouteRecord
         /\ \A v \in 0 .. MaxHints : /\ [d EXCEPT !.seen = v] \in RouteRecord
                                     /\ [d EXCEPT !.want = v] \in RouteRecord
                                     /\ [d EXCEPT !.clash = v] \in RouteRecord
                                     /\ [d EXCEPT !.away = v] \in RouteRecord
         /\ \A v \in None .. MaxHints : /\ [d EXCEPT !.load = v] \in RouteRecord
                                        /\ [d EXCEPT !.fail = v] \in RouteRecord
         /\ \A v \in Values : /\ [d EXCEPT !.shown = v] \in RouteRecord
                              /\ [d EXCEPT !.current = v] \in RouteRecord
                              /\ [d EXCEPT !.baseline = v] \in RouteRecord
                              /\ [d EXCEPT !.given = v] \in RouteRecord
         /\ \A v \in Nat : [d EXCEPT !.rev = v] \in RouteRecord
         /\ \A v \in {"none", "refresh", "leave"} : [d EXCEPT !.consent = v] \in RouteRecord
         /\ \A v \in Ops \cup {NoOp} : /\ [d EXCEPT !.held = v] \in RouteRecord
                                       /\ [d EXCEPT !.askedHeld = v] \in RouteRecord
         /\ \A v \in Nat \cup {None, Void} : [d EXCEPT !.askedRev = v] \in RouteRecord
         /\ \A v \in SUBSET Ops : [d EXCEPT !.behind = v] \in RouteRecord
BY SMTT(60) DEF RouteRecord

\* An operation with another value in one of its fields.
LEMMA OpFields ==
  ASSUME NEW p \in OpRecord
  PROVE  /\ \A v \in {"none", "get", "post"} \cup Reloads \cup Moves :
              [p EXCEPT !.kind = v] \in OpRecord
         /\ \A v \in Routes : [p EXCEPT !.key = v] \in OpRecord
         /\ \A v \in {"free", "queued", "loading", "laying", "drafting", "accepted", "navigating"} :
              [p EXCEPT !.pc = v] \in OpRecord
         /\ \A v \in BOOLEAN : /\ [p EXCEPT !.live = v] \in OpRecord
                               /\ [p EXCEPT !.sync = v] \in OpRecord
         /\ \A v \in 0 .. MaxActions : [p EXCEPT !.turn = v] \in OpRecord
         /\ \A v \in Nat \cup {None} : [p EXCEPT !.draft = v] \in OpRecord
         /\ \A v \in Values : [p EXCEPT !.value = v] \in OpRecord
         /\ \A v \in 0 .. MaxHints : /\ [p EXCEPT !.version = v] \in OpRecord
                                     /\ [p EXCEPT !.seen = v] \in OpRecord
         /\ \A v \in Values \cup {None} : [p EXCEPT !.commit = v] \in OpRecord
BY DEF OpRecord

\* A count below its bound can go up.
LEMMA CountOn ==
  ASSUME g \in Gates
  PROVE  /\ g.choices < MaxChoices => g.choices + 1 \in 0 .. MaxChoices
         /\ g.actions < MaxActions => g.actions + 1 \in 0 .. MaxActions
         /\ g.edits < MaxEdits => g.edits + 1 \in 0 .. MaxEdits
         /\ g.pauses < MaxPauses => g.pauses + 1 \in 0 .. MaxPauses
         /\ g.hint < MaxHints => g.hint + 1 \in 0 .. MaxHints
         /\ g.epoch < MaxEpoch => g.epoch + 1 \in 1 .. MaxEpoch + 1
<1>1. /\ g.choices \in 0 .. MaxChoices /\ g.actions \in 0 .. MaxActions
      /\ g.edits \in 0 .. MaxEdits /\ g.pauses \in 0 .. MaxPauses
      /\ g.hint \in 0 .. MaxHints /\ g.epoch \in 1 .. MaxEpoch + 1
  BY DEF Gates
<1> QED
  BY <1>1, Bounds

\* updateDraft().
LEMMA TrackIs ==
  ASSUME NEW d \in RouteRecord
  PROVE  LET e == Track(d) IN
         /\ e \in RouteRecord /\ e.current = d.shown /\ d.rev <= e.rev
         /\ d.current = d.shown => e = d
         /\ d.current # d.shown => e.consent = "none" /\ d.rev < e.rev
         /\ e.mounted = d.mounted /\ e.focused = d.focused /\ e.load = d.load /\ e.seen = d.seen
         /\ e.held = d.held /\ e.behind = d.behind /\ e.shown = d.shown /\ e.given = d.given
         /\ e.baseline = d.baseline /\ e.away = d.away /\ e.concealed = d.concealed
<1>1. CASE d.current = d.shown
  BY <1>1 DEF Track, RouteRecord
<1>2. CASE d.current # d.shown
  <2>1. Track(d) = [d EXCEPT !.current = d.shown, !.rev = d.rev + 1, !.consent = "none"]
    BY <1>2 DEF Track
  <2> HIDE DEF Track
  <2>2. Track(d) \in RouteRecord
    <3> DEFINE d1 == [d EXCEPT !.current = d.shown]
               d2 == [d1 EXCEPT !.rev = d.rev + 1]
    <3>1. d.shown \in Values /\ d.rev + 1 \in Nat
      BY DEF RouteRecord
    <3>2. d1 \in RouteRecord
      BY <3>1, RouteFields
    <3>3. d2 \in RouteRecord
      BY <3>1, <3>2, RouteFields
    <3>4. Track(d) = [d2 EXCEPT !.consent = "none"]
      BY <2>1
    <3> QED
      BY <3>3, <3>4, RouteFields, ZenonT(60)
  <2>3. /\ Track(d).current = d.shown /\ Track(d).rev = d.rev + 1 /\ Track(d).consent = "none"
        /\ Track(d).mounted = d.mounted /\ Track(d).focused = d.focused
        /\ Track(d).load = d.load /\ Track(d).seen = d.seen /\ Track(d).held = d.held
        /\ Track(d).behind = d.behind /\ Track(d).shown = d.shown /\ Track(d).given = d.given
        /\ Track(d).baseline = d.baseline /\ Track(d).away = d.away
        /\ Track(d).concealed = d.concealed
    BY <2>1 DEF RouteRecord
  <2>4. d.rev \in Nat
    BY DEF RouteRecord
  <2> QED
    BY <1>2, <2>2, <2>3, <2>4
<1> QED
  BY <1>1, <1>2

-----------------------------------------------------------------------------
\* finish() and retire(): what is left of an operation, of a route and of the gate.
LEMMA EndedIs ==
  ASSUME NEW x, NEW p \in OpRecord
  PROVE  /\ Ended(x, p) \in OpRecord /\ ~Ended(x, p).live
         /\ \/ Ended(x, p).pc = "free"
            \/ Pending(p) /\ Pending(Ended(x, p)) /\ Late(x) = {} /\ Vacant(x) # {}
<1>1. CASE Pending(p) /\ Late(x) = {} /\ Vacant(x) # {}
  <2>1. Ended(x, p) = [p EXCEPT !.live = FALSE]
    BY <1>1 DEF Ended
  <2>2. Ended(x, p) \in OpRecord
    BY <2>1, OpFields
  <2>3. ~Ended(x, p).live /\ Ended(x, p).pc = p.pc
    BY <2>1 DEF OpRecord
  <2> QED
    BY <1>1, <2>2, <2>3 DEF Pending
<1>2. CASE ~(Pending(p) /\ Late(x) = {} /\ Vacant(x) # {})
  BY <1>2, FreeOpIs DEF Ended
<1> QED
  BY <1>1, <1>2

\* What the end of operations leaves alone in a route.
Kept(d, e) ==
  /\ e.mounted = d.mounted /\ e.focused = d.focused /\ e.load = d.load /\ e.seen = d.seen
  /\ e.shown = d.shown /\ e.current = d.current /\ e.baseline = d.baseline /\ e.rev = d.rev
  /\ e.consent = d.consent /\ e.concealed = d.concealed /\ e.given = d.given /\ e.away = d.away

\* What a route forgets when operations are retired.
LEMMA ReleasedIs ==
  ASSUME NEW d \in RouteRecord, NEW S \in SUBSET Ops
  PROVE  LET e == Released(d, S) IN
         /\ e \in RouteRecord /\ Kept(d, e) /\ e.held = (IF d.held \in S THEN NoOp ELSE d.held)
         /\ e.behind = d.behind \ S
<1> DEFINE h == IF d.held \in S THEN NoOp ELSE d.held
           a == IF d.askedHeld \in S THEN NoOp ELSE d.askedHeld
           b == d.behind \ S
           d1 == [d EXCEPT !.held = h]
           d2 == [d1 EXCEPT !.askedHeld = a]
           e == [d2 EXCEPT !.behind = b]
<1>1. e = Released(d, S)
  BY DEF Released
<1>2. h \in Ops \cup {NoOp} /\ a \in Ops \cup {NoOp} /\ b \in SUBSET Ops
  BY DEF RouteRecord
<1> HIDE DEF h, a, b
<1>3. d1 \in RouteRecord
  BY <1>2, RouteFields
<1>4. d2 \in RouteRecord
  BY <1>2, <1>3, RouteFields
<1>5. e \in RouteRecord
  BY <1>2, <1>4, RouteFields
<1>6. Kept(d, e) /\ e.held = h /\ e.behind = b
  BY DEF Kept, RouteRecord
<1> QED
  BY <1>1, <1>5, <1>6 DEF h, b

\* What a route learns of the end of its operations.
LEMMA ToldIs ==
  ASSUME NEW d \in RouteRecord, NEW T \in SUBSET OpRecord, NEW why
  PROVE  LET e == Told(d, T, why) IN
         /\ e \in RouteRecord /\ Kept(d, e) /\ e.held = d.held /\ e.behind = d.behind
<1> DEFINE refreshes == {p \in T : p.kind = "refresh"}
           reloads == {p \in T : p.kind \in Reloads}
           b == why # "ack" /\ (d.failed \/ why # "quiet")
           v == IF why = "ack" /\ reloads # {} THEN None
                ELSE IF why \in {"quiet", "bad"} /\ refreshes # {}
                     THEN (CHOOSE p \in refreshes : TRUE).version ELSE d.fail
           d1 == [d EXCEPT !.failed = b]
           e == [d1 EXCEPT !.fail = v]
<1>1. e = Told(d, T, why)
  BY DEF Told
<1>2. v \in None .. MaxHints
  <2>1. refreshes # {} => (CHOOSE p \in refreshes : TRUE) \in OpRecord
    OBVIOUS
  <2>2. refreshes # {} => (CHOOSE p \in refreshes : TRUE).version \in 0 .. MaxHints
    BY <2>1 DEF OpRecord
  <2>3. d.fail \in None .. MaxHints /\ None \in None .. MaxHints
    BY Bounds DEF RouteRecord
  <2> HIDE DEF refreshes, reloads
  <2> QED
    BY <2>2, <2>3, Bounds
<1>3. b \in BOOLEAN
  OBVIOUS
<1> HIDE DEF b, v
<1>4. d1 \in RouteRecord
  BY <1>3, RouteFields
<1>5. e \in RouteRecord
  BY <1>2, <1>4, RouteFields
<1>6. Kept(d, e) /\ e.held = d.held /\ e.behind = d.behind
  BY DEF Kept, RouteRecord
<1> QED
  BY <1>1, <1>5, <1>6

\* What finish() does to the gate.
LEMMA FinishedIs ==
  ASSUME NEW x \in Gates, NEW S \in SUBSET Ops, NEW why
  PROVE  LET y == Finished(x, S, why) IN
         /\ y \in Gates /\ Beside(x, y)
         /\ y.active = (IF x.active \in S THEN NoOp ELSE x.active)
         /\ \A o \in Ops \ S : y.op[o] = x.op[o]
         /\ \A o \in S : /\ ~y.op[o].live
                         /\ \/ y.op[o].pc = "free"
                            \/ Pending(x.op[o]) /\ Pending(y.op[o]) /\ Vacant(x) # {}
         /\ \A r \in Routes : /\ Kept(x.rt[r], y.rt[r])
                              /\ y.rt[r].held = (IF x.rt[r].held \in S THEN NoOp ELSE x.rt[r].held)
                              /\ y.rt[r].behind = x.rt[r].behind \ S
<1> DEFINE Of(r) == {x.op[o] : o \in {q \in S : x.op[q].key = r}}
           told == [r \in Routes |-> IF x.rt[r].mounted /\ Of(r) # {}
                                     THEN Told(x.rt[r], Of(r), why) ELSE x.rt[r]]
           z == [x EXCEPT !.rt = told]
           y == Finished(x, S, why)
<1>1. x.rt \in [Routes -> RouteRecord] /\ x.op \in [Ops -> OpRecord] /\ x.active \in Ops \cup {NoOp}
  BY DEF Gates
<1>2. \A r \in Routes : /\ told[r] \in RouteRecord /\ Kept(x.rt[r], told[r])
                        /\ told[r].held = x.rt[r].held /\ told[r].behind = x.rt[r].behind
  <2> SUFFICES ASSUME NEW r \in Routes
               PROVE  /\ told[r] \in RouteRecord /\ Kept(x.rt[r], told[r])
                      /\ told[r].held = x.rt[r].held /\ told[r].behind = x.rt[r].behind
    OBVIOUS
  <2>1. Of(r) \in SUBSET OpRecord /\ x.rt[r] \in RouteRecord
    BY <1>1
  <2>2. told[r] = IF x.rt[r].mounted /\ Of(r) # {} THEN Told(x.rt[r], Of(r), why) ELSE x.rt[r]
    OBVIOUS
  <2> HIDE DEF Of, told
  <2> QED
    BY <2>1, <2>2, ToldIs DEF Kept
<1>3. told \in [Routes -> RouteRecord]
  BY <1>2
<1> HIDE DEF told
<1>4. z \in Gates /\ z.rt = told /\ z.op = x.op /\ z.active = x.active /\ Beside(x, z)
  BY <1>3, RoutesSet
<1>5. y = Retired(z, S)
  BY DEF Finished, told
<1> HIDE DEF z
<1> DEFINE ops == [o \in Ops |-> IF o \in S THEN Ended(z, z.op[o]) ELSE z.op[o]]
           routes == [r \in Routes |-> Released(z.rt[r], S)]
           a == IF z.active \in S THEN NoOp ELSE z.active
<1>6. y = [z EXCEPT !.op = ops, !.rt = routes, !.active = a]
  BY <1>5 DEF Retired
<1>7. \A o \in S : /\ ops[o] \in OpRecord /\ ~ops[o].live
                   /\ \/ ops[o].pc = "free"
                      \/ Pending(x.op[o]) /\ Pending(ops[o]) /\ Vacant(x) # {}
  <2>1. Vacant(z) = Vacant(x)
    BY <1>4 DEF Vacant
  <2> QED
    BY <1>1, <1>4, <2>1, EndedIs
<1>8. ops \in [Ops -> OpRecord] /\ \A o \in Ops \ S : ops[o] = x.op[o]
  BY <1>1, <1>4, <1>7
<1>9. \A r \in Routes : /\ routes[r] \in RouteRecord /\ Kept(x.rt[r], routes[r])
                        /\ routes[r].held = (IF x.rt[r].held \in S THEN NoOp ELSE x.rt[r].held)
                        /\ routes[r].behind = x.rt[r].behind \ S
  BY <1>2, <1>4, ReleasedIs DEF Kept
<1>10. routes \in [Routes -> RouteRecord]
  BY <1>9
<1>11. a \in Ops \cup {NoOp} /\ a = (IF x.active \in S THEN NoOp ELSE x.active)
  BY <1>1, <1>4
<1> HIDE DEF ops, routes, a, y
<1>12. y \in Gates /\ y.op = ops /\ y.rt = routes /\ y.active = a /\ Beside(z, y)
  BY <1>4, <1>6, <1>8, <1>10, <1>11 DEF Gates, Beside
<1>13. Beside(x, y)
  BY <1>4, <1>12 DEF Beside
<1> QED
  BY <1>7, <1>8, <1>9, <1>11, <1>12, <1>13 DEF y

\* A route that keeps its fields is as sound as it was with fewer operations.
LEMMA SoundKept ==
  ASSUME NEW x, NEW y, NEW r \in Routes, NEW d, NEW e, Sound(x, r, d), Kept(d, e),
         y.hint = x.hint,
         \A o \in Own(y, r) : o \in Own(x, r) /\ y.op[o] = x.op[o],
         e.behind \subseteq d.behind, e.behind \subseteq Own(y, r),
         e.held # NoOp => e.held = d.held /\ e.held \in Own(y, r) /\ y.active = x.active
  PROVE  Sound(y, r, e)
<1>1. Own(y, r) # {} => e.mounted
  BY DEF Sound, Kept
<1>2. e.held # NoOp => /\ e.held = y.active /\ e.held \in Own(y, r) /\ e.consent # "refresh"
                       /\ y.op[e.held].kind = "post"
                       /\ y.op[e.held].pc \in {"drafting", "accepted"}
  BY DEF Sound, Kept
<1>3. \A o \in Own(y, r) : Follows(y.op[o], e, o \in e.behind)
  <2> SUFFICES ASSUME NEW o \in Own(y, r) PROVE Follows(y.op[o], e, o \in e.behind)
    OBVIOUS
  <2>1. Follows(y.op[o], d, o \in d.behind) /\ (o \in e.behind => o \in d.behind)
    BY DEF Sound
  <2> QED
    BY <2>1 DEF Follows, Kept
<1>4. /\ e.load # None => e.shown = 0 /\ e.given = 0
      /\ e.away <= y.hint /\ (e.away > 0 => e.concealed)
      /\ e.seen <= y.hint /\ e.load <= y.hint /\ \A o \in Own(y, r) : y.op[o].seen <= y.hint
  BY DEF Sound, Kept
<1> QED
  BY <1>1, <1>2, <1>3, <1>4 DEF Sound

\* finish() of operations that are owned.
LEMMA FinishedSteady ==
  ASSUME NEW x, Steady(x), ~x.suspended, NEW S \in SUBSET Live(x), NEW why
  PROVE  LET y == Finished(x, S, why) IN
         Steady(y) /\ Live(y) = Live(x) \ S /\ Queued(y) = Queued(x) \ S
<1> DEFINE y == Finished(x, S, why)
<1>1. x \in Gates /\ S \in SUBSET Ops
  BY DEF Steady, Live
<1>2. /\ y \in Gates /\ Beside(x, y)
      /\ y.active = (IF x.active \in S THEN NoOp ELSE x.active)
      /\ \A o \in Ops \ S : y.op[o] = x.op[o]
      /\ \A o \in S : /\ ~y.op[o].live
                      /\ \/ y.op[o].pc = "free"
                         \/ Pending(x.op[o]) /\ Pending(y.op[o]) /\ Vacant(x) # {}
      /\ \A r \in Routes : /\ Kept(x.rt[r], y.rt[r])
                           /\ y.rt[r].held = (IF x.rt[r].held \in S THEN NoOp ELSE x.rt[r].held)
                           /\ y.rt[r].behind = x.rt[r].behind \ S
  BY <1>1, FinishedIs
<1> HIDE DEF y
<1>3. /\ Live(y) = Live(x) \ S /\ Queued(y) = Queued(x) \ S
      /\ \A r \in Routes : Own(y, r) = Own(x, r) \ S
  BY <1>1, <1>2 DEF Live, Queued, Own
<1>4. Working(y)
  <2>1. y.active # NoOp => y.active \in Live(y)
    BY <1>2, <1>3 DEF Steady, Working
  <2>2. y.active = NoOp => Vacant(y) # {}
    <3>1. Vacant(x) \subseteq Vacant(y)
      BY <1>1, <1>2 DEF Vacant, Steady, Working, Live
    <3>2. CASE Vacant(x) # {}
      BY <3>1, <3>2
    <3>3. CASE Vacant(x) = {} /\ y.active = NoOp
      <4>1. x.active \in S
        BY <1>2, <3>3 DEF Steady, Working
      <4>2. x.active \in Vacant(y)
        BY <1>1, <1>2, <3>3, <4>1 DEF Vacant
      <4> QED
        BY <4>2
    <3> QED
      BY <3>2, <3>3
  <2>3. ASSUME NEW o \in Ops
        PROVE  /\ y.op[o].live => y.op[o].pc # "free" /\ (y.active # o <=> y.op[o].pc = "queued")
               /\ ~y.op[o].live => y.op[o].pc = "free" \/ Pending(y.op[o])
    <3>1. CASE o \in S
      BY <1>2, <3>1
    <3>2. CASE o \notin S
      BY <1>2, <3>2, Bounds DEF Steady, Working
    <3> QED
      BY <3>1, <3>2
  <2>4. /\ \A o \in Queued(y) : y.op[o].turn <= y.actions
        /\ \A o, q \in Queued(y) : y.op[o].turn = y.op[q].turn => o = q
    BY <1>2, <1>3 DEF Steady, Working, Beside, Queued, Live
  <2> QED
    BY <2>1, <2>2, <2>3, <2>4 DEF Working
<1>5. \A r \in Routes : Sound(y, r, y.rt[r])
  <2> SUFFICES ASSUME NEW r \in Routes PROVE Sound(y, r, y.rt[r])
    OBVIOUS
  <2>1. Sound(x, r, x.rt[r]) /\ Kept(x.rt[r], y.rt[r]) /\ x.hint = y.hint
    BY <1>2 DEF Steady, Beside
  <2>2. \A o \in Own(y, r) : o \in Own(x, r) /\ y.op[o] = x.op[o]
    BY <1>2, <1>3 DEF Own, Live
  <2>3. y.rt[r].behind \subseteq x.rt[r].behind /\ y.rt[r].behind \subseteq Own(y, r)
    BY <1>2, <1>3, <2>1 DEF Sound
  <2>4. y.rt[r].held # NoOp => /\ y.rt[r].held = x.rt[r].held /\ y.rt[r].held \in Own(y, r)
                               /\ y.active = x.active
    BY <1>2, <1>3, <2>1 DEF Sound
  <2> QED
    BY <2>1, <2>2, <2>3, <2>4, SoundKept
<1>6. y.changed <= y.hint /\ ~y.suspended
  BY <1>2 DEF Steady, Beside
<1> QED
  BY <1>2, <1>3, <1>4, <1>5, <1>6 DEF Steady, y

-----------------------------------------------------------------------------
\* Steps of a gate that change its routes alone.
LEMMA Rerouted ==
  ASSUME NEW x, Steady(x), NEW y \in Gates, ~y.suspended,
         y.op = x.op, y.active = x.active, y.actions = x.actions, y.changed <= y.hint,
         \A r \in Routes : Sound(y, r, y.rt[r])
  PROVE  Steady(y) /\ Live(y) = Live(x) /\ Queued(y) = Queued(x)
<1>1. Live(y) = Live(x) /\ Queued(y) = Queued(x) /\ Vacant(y) = Vacant(x)
  BY DEF Live, Queued, Vacant
<1>2. Working(y)
  BY <1>1 DEF Steady, Working
<1> QED
  BY <1>1, <1>2 DEF Steady

\* A record says the same of two gates with the same operations.
LEMMA SoundAlike ==
  ASSUME NEW x, NEW y, y.op = x.op, y.active = x.active, y.hint = x.hint,
         NEW r, NEW d, Sound(x, r, d)
  PROVE  Sound(y, r, d)
<1>1. Own(y, r) = Own(x, r)
  BY DEF Own, Live
<1> QED
  BY <1>1 DEF Sound

\* updateDraft() keeps what a route says: an answer that was late stays late.
LEMMA TrackSound ==
  ASSUME NEW x, NEW r, NEW d \in RouteRecord, Sound(x, r, d)
  PROVE  Sound(x, r, Track(d))
<1>1. CASE d.current = d.shown
  BY <1>1, TrackIs
<1>2. CASE d.current # d.shown
  <2> DEFINE e == Track(d)
  <2>1. /\ e.consent = "none" /\ e.mounted = d.mounted /\ e.load = d.load /\ e.held = d.held
        /\ e.behind = d.behind /\ e.shown = d.shown /\ e.given = d.given /\ e.away = d.away
        /\ e.concealed = d.concealed /\ e.seen = d.seen
    BY <1>2, TrackIs
  <2> HIDE DEF e
  <2>2. \A o \in Own(x, r) : Follows(x.op[o], e, o \in e.behind)
    BY <1>2, <2>1 DEF Sound, Follows
  <2>3. Sound(x, r, e)
    BY <2>1, <2>2 DEF Sound
  <2> QED
    BY <2>3 DEF e
<1> QED
  BY <1>1, <1>2

\* One route, or every mounted one, is tracked.
LEMMA TrackedSteady ==
  ASSUME NEW x, Steady(x), ~x.suspended, NEW f \in [Routes -> RouteRecord],
         \A r \in Routes : f[r] = x.rt[r] \/ f[r] = Track(x.rt[r])
  PROVE  LET y == [x EXCEPT !.rt = f] IN
         /\ Steady(y) /\ Live(y) = Live(x) /\ Queued(y) = Queued(x)
         /\ y.rt = f /\ y.op = x.op /\ y.active = x.active /\ Beside(x, y)
<1> DEFINE y == [x EXCEPT !.rt = f]
<1>1. x \in Gates /\ x.rt \in [Routes -> RouteRecord]
  BY DEF Steady, Gates
<1>2. y \in Gates /\ y.rt = f /\ y.op = x.op /\ y.active = x.active /\ Beside(x, y)
  BY <1>1, RoutesSet
<1> HIDE DEF y
<1>3. \A r \in Routes : Sound(x, r, f[r])
  BY <1>1, TrackSound DEF Steady
<1>4. \A r \in Routes : Sound(y, r, y.rt[r])
  BY <1>2, <1>3, SoundAlike DEF Beside
<1>5. ~y.suspended /\ y.actions = x.actions /\ y.changed <= y.hint
  BY <1>2 DEF Beside, Steady
<1>6. Steady(y) /\ Live(y) = Live(x) /\ Queued(y) = Queued(x)
  BY <1>2, <1>4, <1>5, Rerouted, SMTT(60)
<1> QED
  BY <1>2, <1>6 DEF y

-----------------------------------------------------------------------------
\* run(): an operation that waits, or one made for a reload, becomes active.
LEMMA RunIs ==
  ASSUME NEW z \in Gates, NEW o \in Ops
  PROVE  LET y == Run(z, o)
             p == z.op[o]
             d == Track(z.rt[p.key])
             q == y.op[o] IN
         /\ y \in Gates /\ Beside(z, y) /\ y.active = o
         /\ \A m \in Ops \ {o} : y.op[m] = z.op[m]
         /\ q.live = p.live /\ q.key = p.key /\ q.kind = p.kind
         /\ q.pc = (IF p.kind \in Moves THEN "navigating" ELSE "loading")
         /\ q.draft = (IF p.kind \in Drafted THEN d.rev ELSE None)
         /\ q.value = (IF p.kind = "post" THEN d.shown ELSE 0)
         /\ q.seen = (IF p.kind \in Reloads THEN z.hint ELSE 0)
         /\ \A r \in Routes :
              y.rt[r] = (IF r = p.key /\ p.kind \in Drafted THEN d ELSE z.rt[r])
<1> DEFINE p == z.op[o]
           d == Track(z.rt[p.key])
           pc == IF p.kind \in Moves THEN "navigating" ELSE "loading"
           draft == IF p.kind \in Drafted THEN d.rev ELSE None
           value == IF p.kind = "post" THEN d.shown ELSE 0
           seen == IF p.kind \in Reloads THEN z.hint ELSE 0
           p1 == [p EXCEPT !.turn = 0]
           p2 == [p1 EXCEPT !.pc = pc]
           p3 == [p2 EXCEPT !.draft = draft]
           p4 == [p3 EXCEPT !.value = value]
           sent == [p4 EXCEPT !.seen = seen]
           e == IF p.kind \in Drafted THEN d ELSE z.rt[p.key]
           y == Run(z, o)
<1>1. /\ p \in OpRecord /\ p.key \in Routes /\ z.rt \in [Routes -> RouteRecord]
      /\ z.op \in [Ops -> OpRecord] /\ z.hint \in 0 .. MaxHints
  BY DEF Gates, OpRecord
<1>2. d \in RouteRecord /\ d.rev \in Nat /\ d.shown \in Values
  <2>1. d \in RouteRecord
    BY <1>1, TrackIs
  <2> HIDE DEF d
  <2> QED
    BY <2>1 DEF RouteRecord
<1>3. y = [z EXCEPT !.active = o, !.op[o] = sent, !.rt[p.key] = e]
  BY DEF Run
<1> HIDE DEF d, y
<1>4. /\ pc \in {"loading", "navigating"} /\ draft \in Nat \cup {None} /\ value \in Values
      /\ seen \in 0 .. MaxHints /\ 0 \in 0 .. MaxActions /\ e \in RouteRecord
  BY <1>1, <1>2, Bounds
<1> HIDE DEF p, pc, draft, value, seen, e
<1>5. p1 \in OpRecord
  BY <1>1, <1>4, OpFields
<1>6. p2 \in OpRecord
  BY <1>4, <1>5, OpFields
<1>7. p3 \in OpRecord
  BY <1>4, <1>6, OpFields
<1>8. p4 \in OpRecord
  BY <1>4, <1>7, OpFields
<1>9. sent \in OpRecord
  BY <1>4, <1>8, OpFields
<1>10. /\ sent.live = p.live /\ sent.key = p.key /\ sent.kind = p.kind /\ sent.pc = pc
       /\ sent.draft = draft /\ sent.value = value /\ sent.seen = seen
  BY <1>1 DEF OpRecord
<1> HIDE DEF sent
<1> DEFINE ops == [z.op EXCEPT ![o] = sent]
           routes == [z.rt EXCEPT ![p.key] = e]
<1>11. /\ ops \in [Ops -> OpRecord] /\ ops[o] = sent
       /\ \A m \in Ops \ {o} : ops[m] = z.op[m]
  BY <1>1, <1>9
<1>12. /\ routes \in [Routes -> RouteRecord]
       /\ \A r \in Routes : routes[r] = (IF r = p.key THEN e ELSE z.rt[r])
  BY <1>1, <1>4
<1>13. y = [z EXCEPT !.active = o, !.op = ops, !.rt = routes]
  BY <1>3
<1> HIDE DEF ops, routes
<1>14. y \in Gates /\ y.op = ops /\ y.rt = routes /\ y.active = o /\ Beside(z, y)
  BY <1>11, <1>12, <1>13 DEF Gates, Beside
<1> QED
  BY <1>10, <1>11, <1>12, <1>14 DEF y, e, d, p, pc, draft, value, seen

\* run() of the first of the queue, or of a new operation.
LEMMA RunSteady ==
  ASSUME NEW x, Steady(x), ~x.suspended, x.active = NoOp,
         NEW z \in Gates, Beside(x, z), z.rt = x.rt, NEW o \in Queued(x) \cup Vacant(x),
         \A q \in Ops \ {o} : z.op[q] = x.op[q],
         z.op[o].live, x.rt[z.op[o].key].mounted, o \in Queued(x) => z.op[o] = x.op[o]
  PROVE  LET y == Run(z, o) IN
         /\ Steady(y) /\ y.active = o /\ Beside(x, y)
         /\ \A q \in Ops \ {o} : y.op[q] = x.op[q]
         /\ y.op[o].pc \in {"loading", "navigating"}
         /\ \A r \in Routes : y.rt[r] \in {x.rt[r], Track(x.rt[r])}
<1> DEFINE y == Run(z, o)
           p == z.op[o]
           d == Track(z.rt[p.key])
           q == y.op[o]
<1>1. /\ x \in Gates /\ o \in Ops /\ p \in OpRecord /\ p.key \in Routes
      /\ x.rt \in [Routes -> RouteRecord] /\ x.op \in [Ops -> OpRecord]
  BY ZenonT(60) DEF Steady, Queued, Vacant, Live, Gates, OpRecord
<1>2. /\ y \in Gates /\ Beside(z, y) /\ y.active = o
      /\ \A m \in Ops \ {o} : y.op[m] = z.op[m]
      /\ q.live = p.live /\ q.key = p.key /\ q.kind = p.kind
      /\ q.pc = (IF p.kind \in Moves THEN "navigating" ELSE "loading")
      /\ q.draft = (IF p.kind \in Drafted THEN d.rev ELSE None)
      /\ q.value = (IF p.kind = "post" THEN d.shown ELSE 0)
      /\ q.seen = (IF p.kind \in Reloads THEN z.hint ELSE 0)
      /\ \A r \in Routes : y.rt[r] = (IF r = p.key /\ p.kind \in Drafted THEN d ELSE z.rt[r])
  BY <1>1, RunIs, ZenonT(60)
<1> HIDE DEF y
<1>3. Beside(x, y) /\ \A m \in Ops \ {o} : y.op[m] = x.op[m]
  BY <1>2 DEF Beside
<1>4. q.pc \in {"loading", "navigating"} /\ q.live
  BY <1>2
<1>5. \A r \in Routes : y.rt[r] \in {x.rt[r], Track(x.rt[r])}
  BY <1>2
<1>6. o \notin Vacant(x) => o \in Queued(x) /\ p = x.op[o]
  OBVIOUS
<1>7. Working(y)
  <2>1. y.active # NoOp => y.active \in Live(y)
    BY <1>1, <1>2, <1>4 DEF Live
  <2>2. y.active # NoOp
    BY <1>1, <1>2, Bounds
  <2>3. \A m \in Ops :
          /\ y.op[m].live => y.op[m].pc # "free" /\ (y.active # m <=> y.op[m].pc = "queued")
          /\ ~y.op[m].live => y.op[m].pc = "free" \/ Pending(y.op[m])
    BY <1>2, <1>3, <1>4, Bounds DEF Steady, Working
  <2>4. Queued(y) \subseteq Queued(x) \ {o}
    BY <1>2, <1>3, <1>4 DEF Queued, Live
  <2>5. /\ \A m \in Queued(y) : y.op[m].turn <= y.actions
        /\ \A m, n \in Queued(y) : y.op[m].turn = y.op[n].turn => m = n
    BY <1>3, <2>4 DEF Steady, Working, Beside, Queued, Live
  <2> QED
    BY <2>1, <2>2, <2>3, <2>5 DEF Working
<1>8. ASSUME NEW r \in Routes PROVE Sound(y, r, y.rt[r])
  <2> DEFINE e == y.rt[r]
  <2>1. Sound(x, r, e) /\ e \in RouteRecord /\ x.rt[r] \in RouteRecord
    BY <1>1, <1>5, TrackSound, TrackIs, SMTT(60) DEF Steady
  <2>2. Own(y, r) = (Own(x, r) \ {o}) \cup (IF r = p.key THEN {o} ELSE {})
    BY <1>1, <1>2, <1>3, <1>4 DEF Own, Live
  <2>3. e.held = NoOp
    BY <2>1 DEF Sound
  <2>4. o \notin e.behind
    <3>1. CASE o \in Queued(x)
      BY <2>1, <3>1, SMTT(60) DEF Sound, Follows, Queued
    <3>2. CASE o \in Vacant(x)
      BY <2>1, <3>2 DEF Sound, Own, Steady, Working, Vacant, Live
    <3> QED
      BY <3>1, <3>2
  <2>5. e.behind \subseteq Own(y, r)
    BY <2>1, <2>2, <2>4 DEF Sound
  <2>6. Own(y, r) # {} => e.mounted
    <3>1. e.mounted = x.rt[r].mounted
      BY <1>5, <2>1, TrackIs, SMTT(60)
    <3> QED
      BY <2>1, <2>2, <3>1 DEF Sound
  <2>7. r = p.key => Follows(q, e, o \in e.behind)
    <3> SUFFICES ASSUME r = p.key PROVE Follows(q, e, o \in e.behind)
      OBVIOUS
    <3>1. Asked(q) => p.kind \in Drafted
      BY <1>2 DEF Asked
    <3>2. p.kind \in Drafted => e = d /\ e.current = e.shown /\ q.draft = e.rev /\ e.rev \in Nat
      <4>1. d.current = d.shown /\ d \in RouteRecord
        BY <1>1, TrackIs, SMTT(60)
      <4> HIDE DEF d
      <4> QED
        BY <1>2, <4>1 DEF RouteRecord
    <3>3. q.value = (IF p.kind = "post" THEN e.shown ELSE 0)
      BY <1>2, <3>2 DEF Drafted
    <3>4. e.load # None => q.value = 0
      BY <2>1, <3>3, ZenonT(60) DEF Sound
    <3> QED
      BY <1>4, <2>4, <3>1, <3>2, <3>4, SMTT(60) DEF Follows
  <2>8. \A m \in Own(y, r) : Follows(y.op[m], e, m \in e.behind)
    BY <1>3, <2>1, <2>2, <2>7 DEF Sound, Own, Live
  <2>9. /\ e.load # None => e.shown = 0 /\ e.given = 0
        /\ e.away <= y.hint /\ (e.away > 0 => e.concealed)
        /\ e.seen <= y.hint /\ e.load <= y.hint
    BY <1>3, <2>1 DEF Sound, Beside
  <2>10. q.seen <= y.hint
    <3>1. x.hint \in Nat /\ z.hint = x.hint /\ y.hint = x.hint
      BY <1>1, <1>3, Bounds DEF Gates, Beside
    <3> QED
      BY <1>2, <3>1
  <2>11. \A m \in Own(y, r) : y.op[m].seen <= y.hint
    BY <1>3, <2>1, <2>2, <2>10 DEF Sound, Own, Live, Beside
  <2> QED
    BY <2>3, <2>5, <2>6, <2>8, <2>9, <2>11 DEF Sound
<1>9. y.changed <= y.hint /\ ~y.suspended
  BY <1>3 DEF Beside, Steady
<1>10. Steady(y)
  BY <1>2, <1>7, <1>8, <1>9 DEF Steady
<1> QED
  BY <1>2, <1>3, <1>4, <1>5, <1>10 DEF y

\* refreshResources(): the reload of a mounted screen.
LEMMA RefreshingSteady ==
  ASSUME NEW x, Steady(x), ~x.suspended, x.active = NoOp, NEW r \in Routes, x.rt[r].mounted
  PROVE  LET y == Refreshing(x, r) IN
         /\ Steady(y) /\ y.active # NoOp /\ Beside(x, y)
         /\ \A o \in Ops : y.op[o] = x.op[o] \/ y.op[o].pc \in {"loading", "navigating"}
         /\ \A m \in Routes : y.rt[m] \in {x.rt[m], Track(x.rt[m])}
<1> DEFINE o == Slot(x)
           n == Needed(x, r)
           p1 == [FreeOp EXCEPT !.kind = "refresh"]
           p2 == [p1 EXCEPT !.key = r]
           p3 == [p2 EXCEPT !.live = TRUE]
           p == [p3 EXCEPT !.version = n]
           z == [x EXCEPT !.op[o] = p]
           y == Refreshing(x, r)
<1>1. x \in Gates /\ x.rt \in [Routes -> RouteRecord] /\ x.op \in [Ops -> OpRecord]
  BY DEF Steady, Gates
<1>2. o \in Vacant(x) /\ o \in Ops
  <2>1. Vacant(x) # {}
    BY DEF Steady, Working
  <2> QED
    BY <2>1 DEF Slot, Vacant
<1>3. n \in 0 .. MaxHints
  <2>1. x.hint \in 0 .. MaxHints /\ x.rt[r].want \in 0 .. MaxHints
    BY <1>1 DEF Gates, RouteRecord
  <2> DEFINE v == IF r = "form" THEN x.rt[r].want ELSE x.hint
  <2>2. v \in 0 .. MaxHints
    BY <2>1
  <2>3. n \in {v, 0}
    BY DEF Needed, Newer
  <2> HIDE DEF v, n
  <2> QED
    BY <2>2, <2>3, Bounds
<1>4. y = Run(z, o)
  BY DEF Refreshing
<1> HIDE DEF o, n, y
<1>5. p1 \in OpRecord
  BY FreeOpIs, OpFields DEF Reloads
<1>6. p2 \in OpRecord
  BY <1>5, OpFields
<1>7. p3 \in OpRecord
  BY <1>6, OpFields
<1>8. p \in OpRecord /\ p.live /\ p.key = r
  <2>1. p \in OpRecord
    BY <1>3, <1>7, OpFields
  <2> QED
    BY <2>1, FreeOpIs DEF OpRecord
<1> HIDE DEF p
<1>9. /\ z \in Gates /\ Beside(x, z) /\ z.rt = x.rt /\ z.op[o] = p
      /\ \A q \in Ops \ {o} : z.op[q] = x.op[q]
  <2> DEFINE ops == [x.op EXCEPT ![o] = p]
  <2>1. ops \in [Ops -> OpRecord] /\ ops[o] = p /\ \A q \in Ops \ {o} : ops[q] = x.op[q]
    BY <1>1, <1>2, <1>8
  <2>2. z = [x EXCEPT !.op = ops]
    OBVIOUS
  <2> HIDE DEF ops, z
  <2> QED
    BY <1>1, <2>1, <2>2, OpsSet
<1> HIDE DEF z
<1>10. o \notin Queued(x)
  BY <1>2 DEF Vacant, Queued
<1>11. /\ Steady(y) /\ y.active = o /\ Beside(x, y)
       /\ \A q \in Ops \ {o} : y.op[q] = x.op[q]
       /\ y.op[o].pc \in {"loading", "navigating"}
       /\ \A m \in Routes : y.rt[m] \in {x.rt[m], Track(x.rt[m])}
  BY <1>2, <1>4, <1>8, <1>9, <1>10, RunSteady
<1> QED
  BY <1>2, <1>11, Bounds DEF y

-----------------------------------------------------------------------------
\* drain() of a gate whose stale list has been concealed.
Shows(d, e) ==
  /\ e.mounted = d.mounted /\ e.load = d.load /\ e.shown = d.shown
  /\ e.baseline = d.baseline /\ e.given = d.given
Showing(x, y) ==
  /\ \A r \in Routes : Shows(x.rt[r], y.rt[r])
  /\ \A o \in Ops : y.op[o].pc = "laying" => x.op[o].pc = "laying"

\* Steps that only track drafts and send requests show nothing new.
LEMMA TrackShows ==
  ASSUME NEW x \in Gates, NEW y,
         \A r \in Routes : y.rt[r] \in {x.rt[r], Track(x.rt[r])},
         \A o \in Ops : y.op[o] = x.op[o] \/ y.op[o].pc \in {"loading", "navigating"}
  PROVE  Showing(x, y)
<1>1. \A r \in Routes : x.rt[r] \in RouteRecord
  BY DEF Gates
<1> QED
  BY <1>1, TrackIs DEF Showing, Shows

\* The first of the queue is one of it.
LEMMA FirstIs ==
  ASSUME NEW x, Steady(x), Queued(x) # {}
  PROVE  First(x) \in Queued(x)
<1> DEFINE R == {ss \in Nat \X Nat : ss[1] < ss[2]}
           turns == {x.op[o].turn : o \in Queued(x)}
<1>1. IsWellFoundedOn(R, Nat)
  BY NatLessThanWellFounded DEF OpToRel
<1>2. turns \subseteq Nat /\ turns # {}
  <2>1. MaxActions \in Nat /\ \A o \in Queued(x) : x.op[o] \in OpRecord
    BY Bounds DEF Steady, Gates, Queued, Live
  <2>2. \A o \in Queued(x) : x.op[o].turn \in Nat
    BY <2>1 DEF OpRecord
  <2> QED
    BY <2>2
<1>3. PICK n \in turns : \A m \in turns : ~(<<m, n>> \in R)
  <2> HIDE DEF R, turns
  <2> QED
    BY <1>1, <1>2, WFMin
<1>4. \A m \in turns : n <= m
  <2> SUFFICES ASSUME NEW m \in turns PROVE n <= m
    OBVIOUS
  <2> HIDE DEF turns
  <2>1. n \in Nat /\ m \in Nat /\ <<m, n>> \in Nat \X Nat
    BY <1>2
  <2>2. ~(m < n)
    BY <1>3, <2>1
  <2> QED
    BY <2>1, <2>2
<1>5. \E o \in Queued(x) : \A q \in Queued(x) : x.op[o].turn <= x.op[q].turn
  BY <1>4
<1> QED
  BY <1>5 DEF First

\* drain() once the list has been concealed: it ends at work or at rest.
LEMMA DrainsSteady ==
  ASSUME NEW x0, NEW x, x = Concealed(x0), Steady(x)
  PROVE  LET y == Drained(x0) IN Steady(y) /\ Quiet(y) /\ Beside(x, y) /\ Showing(x, y)
<1> DEFINE y == Drained(x0)
           f == [r \in Routes |-> IF x.rt[r].mounted THEN Track(x.rt[r]) ELSE x.rt[r]]
           z == [x EXCEPT !.rt = f]
<1>1. x \in Gates /\ x.rt \in [Routes -> RouteRecord] /\ x.op \in [Ops -> OpRecord]
  BY DEF Steady, Gates
<1>2. CASE x.suspended \/ x.paused \/ x.active # NoOp
  <2>1. y = x
    BY <1>2 DEF Drained
  <2>2. Quiet(x) /\ Beside(x, x) /\ Showing(x, x)
    BY <1>2 DEF Quiet, Rests, Beside, Showing, Shows
  <2> QED
    BY <2>1, <2>2
<1>3. CASE ~x.suspended /\ ~x.paused /\ x.active = NoOp /\ Queued(x) # {}
  <2> DEFINE o == First(x)
  <2>1. y = Run(x, o)
    BY <1>3 DEF Drained
  <2>2. o \in Queued(x)
    BY <1>3, FirstIs
  <2>3. /\ o \in Ops /\ x.op[o].live /\ x.op[o].key \in Routes /\ Beside(x, x)
        /\ o \in Own(x, x.op[o].key)
    BY <1>1, <2>2 DEF Queued, Live, OpRecord, Beside, Own
  <2>4. x.rt[x.op[o].key].mounted
    BY <2>3 DEF Steady, Sound
  <2> HIDE DEF o, y
  <2>5. /\ Steady(y) /\ y.active = o /\ Beside(x, y)
        /\ \A q \in Ops \ {o} : y.op[q] = x.op[q]
        /\ y.op[o].pc \in {"loading", "navigating"}
        /\ \A r \in Routes : y.rt[r] \in {x.rt[r], Track(x.rt[r])}
    BY <1>1, <1>3, <2>1, <2>2, <2>3, <2>4, RunSteady
  <2>6. Quiet(y)
    BY <2>3, <2>5, Bounds DEF Quiet, Rests
  <2>7. Showing(x, y)
    BY <1>1, <2>5, TrackShows
  <2> QED
    BY <2>5, <2>6, <2>7 DEF y
<1>4. CASE ~x.suspended /\ ~x.paused /\ x.active = NoOp /\ Queued(x) = {}
  <2>1. /\ f \in [Routes -> RouteRecord]
        /\ \A r \in Routes : /\ f[r] = x.rt[r] \/ f[r] = Track(x.rt[r])
                             /\ x.rt[r].mounted => f[r] = Track(x.rt[r])
                             /\ ~x.rt[r].mounted => f[r] = x.rt[r]
    BY <1>1, TrackIs
  <2> HIDE DEF f
  <2>2. /\ Steady(z) /\ Queued(z) = {} /\ z.rt = f /\ z.op = x.op /\ z.active = NoOp
        /\ Beside(x, z)
    BY <1>4, <2>1, TrackedSteady
  <2> HIDE DEF z
  <2>3. Showing(x, z)
    BY <1>1, <2>1, <2>2, TrackShows
  <2>4. y = IF Wants(z, "list") THEN Refreshing(z, "list")
            ELSE IF Wants(z, "form") THEN Refreshing(z, "form") ELSE z
    BY <1>4 DEF Drained, f, z
  <2>5. \A r \in Routes : z.rt[r].mounted => z.rt[r].current = z.rt[r].shown
    BY <1>1, <2>1, <2>2, TrackIs
  <2> HIDE DEF y
  <2>6. ASSUME NEW r \in Routes, Wants(z, r), y = Refreshing(z, r)
        PROVE  Steady(y) /\ Quiet(y) /\ Beside(x, y) /\ Showing(x, y)
    <3>1. z \in Gates /\ ~z.suspended /\ z.rt[r].mounted
      BY <1>4, <2>2, <2>6 DEF Steady, Wants, Beside
    <3>2. /\ Steady(y) /\ y.active # NoOp /\ Beside(z, y) 
          /\ \A o \in Ops : y.op[o] = z.op[o] \/ y.op[o].pc \in {"loading", "navigating"}
          /\ \A m \in Routes : y.rt[m] \in {z.rt[m], Track(z.rt[m])}
      BY <2>2, <2>6, <3>1, RefreshingSteady
    <3>3. Showing(z, y)
      BY <3>1, <3>2, TrackShows
    <3>4. Quiet(y)
      BY <3>2 DEF Quiet, Rests
    <3> QED
      BY <2>2, <2>3, <3>2, <3>3, <3>4 DEF Beside, Showing, Shows
  <2>7. ASSUME ~Wants(z, "list"), ~Wants(z, "form"), y = z
        PROVE  Steady(y) /\ Quiet(y) /\ Beside(x, y) /\ Showing(x, y)
    BY <2>2, <2>3, <2>5, <2>7 DEF Quiet, Routes
  <2> QED
    BY <2>4, <2>6, <2>7, Bounds DEF y
<1> QED
  BY <1>2, <1>3, <1>4

\* Concealment changes nothing but `concealed' of a tracked list out of sight.
Alike(d, e) ==
  /\ e.mounted = d.mounted /\ e.load = d.load /\ e.shown = d.shown /\ e.current = d.current
  /\ e.baseline = d.baseline /\ e.rev = d.rev /\ e.consent = d.consent /\ e.given = d.given
  /\ e.held = d.held /\ e.behind = d.behind /\ e.seen = d.seen
Like(d, e) == Alike(d, e) /\ e.away = d.away

\* A record with the same fields is as sound.
LEMMA SoundLike ==
  ASSUME NEW x, NEW r, NEW d, NEW e, Sound(x, r, d), Like(d, e), e.away > 0 => e.concealed
  PROVE  Sound(x, r, e)
<1>1. \A o \in Own(x, r) : Follows(x.op[o], e, o \in e.behind)
  BY DEF Sound, Like, Alike, Follows
<1> QED
  BY <1>1 DEF Sound, Like, Alike

\* What the concealment of the list does.
LEMMA ConcealedIs ==
  ASSUME NEW x \in Gates
  PROVE  LET y == Concealed(x)
             d == x.rt["list"]
             e == y.rt["list"]
             t == Track(d) IN
         /\ y \in Gates /\ Beside(x, y) /\ y.op = x.op /\ y.active = x.active
         /\ y.rt["form"] = x.rt["form"]
         /\ \/ y = x /\ (~d.mounted \/ d.focused)
            \/ /\ d.mounted /\ ~d.focused /\ Like(t, e)
               /\ e.concealed = (d.concealed \/ (~Dirty(t) /\ Needed(x, "list") > 0))
<1> DEFINE d == x.rt["list"]
           t == Track(d)
           c == d.concealed \/ (~Dirty(t) /\ Needed(x, "list") > 0)
           e == [t EXCEPT !.concealed = c]
           f == [x.rt EXCEPT !["list"] = e]
           y == [x EXCEPT !.rt = f]
<1>1. d \in RouteRecord /\ x.rt \in [Routes -> RouteRecord]
  BY DEF Gates, Routes
<1>2. /\ t \in RouteRecord /\ t.mounted = d.mounted /\ t.focused = d.focused
      /\ t.concealed = d.concealed
  BY <1>1, TrackIs
<1>3. CASE t.mounted /\ ~t.focused
  <2>1. Concealed(x) = y
    BY <1>2, <1>3 DEF Concealed
  <2> HIDE DEF t
  <2>2. c \in BOOLEAN
    BY <1>1 DEF RouteRecord
  <2> HIDE DEF c
  <2>3. e \in RouteRecord /\ e.concealed = c /\ Like(t, e)
    <3>1. e \in RouteRecord
      BY <1>2, <2>2, RouteFields
    <3> QED
      BY <1>2, <2>2, <3>1 DEF Like, Alike, RouteRecord
  <2> HIDE DEF e
  <2>4. /\ f \in [Routes -> RouteRecord] /\ f["list"] = e /\ f["form"] = x.rt["form"]
    BY <1>1, <2>3 DEF Routes
  <2> HIDE DEF f
  <2>5. y \in Gates /\ y.rt = f /\ y.op = x.op /\ y.active = x.active /\ Beside(x, y)
    BY <2>4, RoutesSet
  <2> QED
    BY <1>2, <1>3, <2>1, <2>3, <2>4, <2>5 DEF c, t
<1>4. CASE ~(t.mounted /\ ~t.focused)
  <2>1. Concealed(x) = x
    BY <1>4 DEF Concealed
  <2> QED
    BY <1>2, <1>4, <2>1 DEF Beside
<1> QED
  BY <1>3, <1>4

\* The concealment of the list keeps what the routes say.
LEMMA ConcealedSteady ==
  ASSUME NEW x, Steady(x)
  PROVE  LET y == Concealed(x) IN Steady(y) /\ Beside(x, y) /\ Showing(x, y)
<1> DEFINE y == Concealed(x)
           d == x.rt["list"]
           e == y.rt["list"]
<1>1. x \in Gates /\ d \in RouteRecord
  BY DEF Steady, Gates, Routes
<1>2. /\ y \in Gates /\ Beside(x, y) /\ y.op = x.op /\ y.active = x.active
      /\ y.rt["form"] = x.rt["form"]
      /\ \/ y = x
         \/ d.mounted /\ Like(Track(d), e) /\ (d.concealed => e.concealed)
  BY <1>1, ConcealedIs
<1> HIDE DEF y
<1>3. CASE y = x
  BY <1>2, <1>3 DEF Showing, Shows, y
<1>4. CASE d.mounted /\ Like(Track(d), e) /\ (d.concealed => e.concealed)
  <2>1. ~x.suspended
    BY <1>4, FreshIs DEF Steady, Over, Routes
  <2>2. Sound(x, "list", Track(d)) /\ Sound(x, "form", x.rt["form"])
    BY <1>1, TrackSound DEF Steady, Routes
  <2>3. Track(d).away = d.away /\ Track(d).concealed = d.concealed
    BY <1>1, TrackIs
  <2>4. Sound(x, "list", e)
    <3>1. Track(d).away > 0 => d.concealed
      BY <2>3 DEF Steady, Sound, Routes
    <3>2. e.away > 0 => e.concealed
      BY <1>4, <3>1 DEF Like, Alike
    <3> QED
      BY <1>4, <2>2, <3>2, SoundLike
  <2>5. \A r \in Routes : Sound(y, r, y.rt[r])
    BY <1>2, <2>2, <2>4, SoundAlike DEF Routes, Beside
  <2>6. Steady(y)
    BY <1>2, <2>1, <2>5, Rerouted DEF Beside, Steady
  <2>7. Showing(x, y)
    BY <1>1, <1>2, <1>4, TrackIs DEF Showing, Shows, Routes, Like, Alike
  <2> QED
    BY <1>2, <2>6, <2>7 DEF y
<1> QED
  BY <1>2, <1>3, <1>4 DEF y

\* drain() as a whole.
LEMMA DrainedSteady ==
  ASSUME NEW x, Steady(x)
  PROVE  LET y == Drained(x) IN Steady(y) /\ Quiet(y) /\ Beside(x, y) /\ Showing(x, y)
<1> DEFINE c == Concealed(x)
           y == Drained(x)
<1>1. Steady(c) /\ Beside(x, c) /\ Showing(x, c)
  BY ConcealedSteady
<1>2. Steady(y) /\ Quiet(y) /\ Beside(c, y) /\ Showing(c, y)
  BY <1>1, DrainsSteady
<1> HIDE DEF c, y
<1>3. Beside(x, y) /\ Showing(x, y)
  BY <1>1, <1>2 DEF Beside, Showing, Shows
<1> QED
  BY <1>2, <1>3 DEF y

-----------------------------------------------------------------------------
(* The actions.                                                            *)

\* What every action but an answer and a layout keeps: nothing new is to be laid
\* out, and the baseline of a mounted screen stays.
Holding(x, y) ==
  /\ \A o \in Ops : y.op[o].pc = "laying" => x.op[o].pc = "laying"
  /\ \A r \in Routes : x.rt[r].mounted /\ y.rt[r].mounted => y.rt[r].baseline = x.rt[r].baseline

\* A step that ends in drain() keeps the invariant.
LEMMA DrainedStep ==
  ASSUME NEW x, Steady(x), g' = Drained(x)
  PROVE  IInv' /\ Showing(x, g')
BY DrainedSteady DEF IInv

\* drain() lays nothing out.
LEMMA HeldOn ==
  ASSUME NEW x, NEW y, NEW z, Holding(x, y), Showing(y, z)
  PROVE  Holding(x, z)
BY DEF Holding, Showing, Shows

\* finish() lays nothing out either.
LEMMA FinishedHolding ==
  ASSUME NEW x \in Gates, NEW S \in SUBSET Ops, NEW why
  PROVE  Holding(x, Finished(x, S, why))
<1> DEFINE y == Finished(x, S, why)
<1>1. /\ \A o \in Ops \ S : y.op[o] = x.op[o]
      /\ \A o \in S : y.op[o].pc = "free" \/ Pending(y.op[o])
      /\ \A r \in Routes : Kept(x.rt[r], y.rt[r])
  BY FinishedIs
<1> HIDE DEF y
<1>2. Holding(x, y)
  BY <1>1 DEF Holding, Kept, Pending
<1> QED
  BY <1>2 DEF y

\* A route without operations, as it is when it is opened or gone.
LEMMA SoundNew ==
  ASSUME NEW x, NEW r, Own(x, r) = {}, x.hint \in Nat,
         NEW d, d = Fresh \/ \E h \in 0 .. MaxHints : h <= x.hint /\ d = Opening(h)
  PROVE  Sound(x, r, d)
<1>1. /\ d.held = NoOp /\ d.behind = {} /\ d.shown = 0 /\ d.given = 0 /\ d.away = 0
      /\ d.seen = 0 /\ d.load <= x.hint
  BY FreshIs, OpeningIs, Bounds
<1> QED
  BY <1>1 DEF Sound

\* The gate as it is made.
LEMMA InitIs == Init => IInv
<1> SUFFICES ASSUME Init PROVE IInv
  OBVIOUS
<1> DEFINE f == [r \in Routes |-> IF r = "list" THEN Opening(0) ELSE Fresh]
<1>1. f \in [Routes -> RouteRecord] /\ [o \in Ops |-> FreeOp] \in [Ops -> OpRecord]
  BY FreshIs, OpeningIs, FreeOpIs, Bounds
<1>2. f["list"] = Opening(0) /\ f["form"] = Fresh
  BY DEF Routes
<1> HIDE DEF f
<1>3. g \in Gates /\ g.rt = f /\ g.op = [o \in Ops |-> FreeOp]
  BY <1>1, GateConstants DEF Init, Gates, f
<1>4. Live(g) = {} /\ Queued(g) = {} /\ Vacant(g) = Ops /\ \A r : Own(g, r) = {}
  BY <1>3, FreeOpIs DEF Live, Queued, Vacant, Own
<1>5. \A r \in Routes : Sound(g, r, g.rt[r]) /\ ~g.rt[r].mounted
  BY <1>2, <1>3, <1>4, SoundNew, FreshIs, OpeningIs, Bounds DEF Init, Routes
<1>6. g.changed = 0 /\ g.hint = 0 /\ ~g.suspended /\ g.active = NoOp
  BY DEF Init
<1>7. Working(g)
  BY <1>3, <1>4, <1>6, FreeOpIs, GateConstants DEF Working
<1>8. Steady(g)
  BY <1>3, <1>5, <1>6, <1>7 DEF Steady
<1>9. Quiet(g)
  BY <1>4, <1>5 DEF Quiet, Wants
<1> QED
  BY <1>8, <1>9 DEF IInv

\* The coroutine of a retired operation ends.
LEMMA FreedStep ==
  ASSUME IInv, NEW o \in Ops, ~g.op[o].live, g' = [g EXCEPT !.op[o] = FreeOp]
  PROVE  IInv' /\ Holding(g, g')
<1> DEFINE f == [g.op EXCEPT ![o] = FreeOp]
           y == [g EXCEPT !.op = f]
<1>1. g \in Gates /\ f \in [Ops -> OpRecord]
  BY FreeOpIs DEF IInv, Steady, Gates
<1>2. f[o] = FreeOp /\ \A q \in Ops \ {o} : f[q] = g.op[q]
  BY <1>1 DEF Gates
<1>3. g' = y
  OBVIOUS
<1> HIDE DEF f
<1>4. /\ g' \in Gates /\ g'.op = f /\ g'.rt = g.rt /\ g'.active = g.active /\ Beside(g, g')
  <2>1. /\ y \in Gates /\ y.op = f /\ y.rt = g.rt /\ y.active = g.active /\ Beside(g, y)
    BY <1>1, OpsSet
  <2> HIDE DEF y
  <2> QED
    BY <1>3, <2>1
<1> HIDE DEF y
<1>5. Live(g') = Live(g) /\ Queued(g') = Queued(g) /\ Vacant(g) \subseteq Vacant(g')
  BY <1>2, <1>4, FreeOpIs DEF Live, Queued, Vacant
<1>6. \A q \in Live(g) : g'.op[q] = g.op[q]
  BY <1>2, <1>4 DEF Live
<1>7. Working(g')
  BY <1>2, <1>4, <1>5, <1>6, FreeOpIs DEF IInv, Steady, Working, Live, Queued, Beside
<1>8. \A r \in Routes : Sound(g', r, g'.rt[r])
  <2> TAKE r \in Routes
  <2>1. Own(g', r) = Own(g, r)
    BY <1>5, <1>6 DEF Own
  <2>2. Sound(g, r, g.rt[r]) /\ Own(g, r) \subseteq Live(g)
    BY DEF IInv, Steady, Own
  <2>3. \A q \in Own(g', r) : q \in Own(g, r) /\ g'.op[q] = g.op[q]
    BY <1>6, <2>1, <2>2
  <2> QED
    BY <1>4, <2>1, <2>2, <2>3 DEF Sound, Beside
<1>9. Steady(g')
  BY <1>4, <1>5, <1>7, <1>8 DEF IInv, Steady, Over, Beside
<1>10. Quiet(g')
  BY <1>4, <1>5 DEF IInv, Quiet, Rests, Wants, Needed, Dirty, Beside
<1>11. Holding(g, g')
  BY <1>2, <1>4, FreeOpIs DEF Holding
<1> QED
  BY <1>9, <1>10, <1>11 DEF IInv

\* One route is replaced by another record that is as sound.
LEMMA Swapped ==
  ASSUME NEW x, Steady(x), ~x.suspended, NEW r \in Routes, NEW e \in RouteRecord, Sound(x, r, e)
  PROVE  LET y == [x EXCEPT !.rt[r] = e] IN
         /\ Steady(y) /\ Live(y) = Live(x) /\ Queued(y) = Queued(x)
         /\ y.rt[r] = e /\ \A m \in Routes \ {r} : y.rt[m] = x.rt[m]
         /\ y.op = x.op /\ y.active = x.active /\ Beside(x, y)
<1> DEFINE f == [x.rt EXCEPT ![r] = e]
           y == [x EXCEPT !.rt = f]
<1>1. x \in Gates /\ x.rt \in [Routes -> RouteRecord]
  BY DEF Steady, Gates
<1>2. /\ f \in [Routes -> RouteRecord] /\ f[r] = e /\ \A m \in Routes \ {r} : f[m] = x.rt[m]
  BY <1>1
<1> HIDE DEF f
<1>3. y \in Gates /\ y.rt = f /\ y.op = x.op /\ y.active = x.active /\ Beside(x, y)
  BY <1>1, <1>2, RoutesSet
<1> HIDE DEF y
<1>4. \A m \in Routes : Sound(y, m, y.rt[m])
  BY <1>2, <1>3, SoundAlike DEF Steady, Beside
<1>5. Steady(y) /\ Live(y) = Live(x) /\ Queued(y) = Queued(x)
  BY <1>3, <1>4, Rerouted DEF Beside, Steady
<1> QED
  BY <1>2, <1>3, <1>5 DEF y, f

\* A screen that has been popped takes its operations with it.
LEMMA UnmountStep ==
  ASSUME IInv, NEW r \in Routes, Unmount(r)
  PROVE  IInv' /\ Holding(g, g')
<1> DEFINE S == Own(g, r)
           y == Finished(g, S, "gone")
           z == [y EXCEPT !.rt[r] = Fresh]
<1>1. Steady(g) /\ g \in Gates /\ ~g.suspended
  BY DEF IInv, Steady, Over, Unmount, UnmountDue
<1>2. g' = Drained(z)
  BY DEF Unmount, Own
<1>3. S \in SUBSET Live(g) /\ S \in SUBSET Ops
  BY DEF Own, Live
<1>4. Steady(y) /\ Live(y) = Live(g) \ S
  BY <1>1, <1>3, FinishedSteady
<1>5. Holding(g, y)
  BY <1>1, <1>3, FinishedHolding
<1>6. ~y.suspended /\ \A o \in Ops \ S : y.op[o] = g.op[o]
  BY <1>1, <1>3, FinishedIs DEF Beside
<1> HIDE DEF y
<1>7. Own(y, r) = {}
  BY <1>3, <1>4, <1>6 DEF Own, Live
<1> HIDE DEF S
<1>8. Sound(y, r, Fresh)
  <2>1. y.hint \in Nat
    BY <1>4, Bounds DEF Steady, Gates
  <2> QED
    BY <1>7, <2>1, SoundNew
<1>9. /\ Steady(z) /\ z.rt[r] = Fresh /\ z.op = y.op
      /\ \A m \in Routes \ {r} : z.rt[m] = y.rt[m]
  BY <1>4, <1>6, <1>8, FreshIs, Swapped
<1> HIDE DEF z
<1>10. Holding(g, z)
  BY <1>5, <1>9, FreshIs DEF Holding
<1> QED
  BY <1>2, <1>9, <1>10, DrainedStep, HeldOn

\* Every operation that is not free is one of the epoch's.
LEMMA Awake ==
  ASSUME IInv, NEW o \in Ops, g.op[o].live
  PROVE  o \in Live(g) /\ ~g.suspended /\ {o} \in SUBSET Live(g) /\ {o} \in SUBSET Ops
BY DEF IInv, Steady, Over, Live

\* A request fails.
LEMMA FailStep ==
  ASSUME IInv, NEW o \in Ops, Fail(o)
  PROVE  IInv' /\ Holding(g, g')
<1>1. CASE g.op[o].live
  <2>1. Steady(g) /\ g \in Gates
    BY DEF IInv, Steady
  <2>2. g' = Drained(Finished(g, {o}, "bad"))
    BY <1>1 DEF Fail
  <2>3. Steady(Finished(g, {o}, "bad")) /\ Holding(g, Finished(g, {o}, "bad"))
    BY <1>1, <2>1, Awake, FinishedSteady, FinishedHolding
  <2> QED
    BY <2>2, <2>3, DrainedStep, HeldOn
<1>2. CASE ~g.op[o].live
  BY <1>2, FreedStep DEF Fail
<1> QED
  BY <1>1, <1>2

\* The navigator has moved, or could not.
LEMMA NavigateStep ==
  ASSUME IInv, NEW o \in Ops, Navigate(o)
  PROVE  IInv' /\ Holding(g, g')
<1> DEFINE opens == g.op[o].kind = "open" /\ Len(g.stack) = 1 /\ g.rt["form"] = Fresh
           a == [g EXCEPT !.stack = <<"list", "form">>, !.rt["form"] = Opening(g.hint)]
           b == [g EXCEPT !.stack = <<"list">>]
           x == IF opens THEN a ELSE IF g.op[o].kind = "back" THEN b ELSE g
<1>1. Steady(g) /\ g \in Gates /\ g.op[o].live /\ ~g.suspended
  <2>1. Steady(g) /\ g \in Gates /\ g.op[o].pc = "navigating"
    BY DEF IInv, Steady, Navigate
  <2>2. g.op[o].live
    BY <2>1 DEF Steady, Working, Pending
  <2> QED
    BY <2>1, <2>2, Awake
<1>2. g' = Drained(Finished(x, {o}, "quiet"))
  BY DEF Navigate
<1>3. ASSUME opens
      PROVE  Steady(a) /\ a.op = g.op /\ ~a.suspended /\ Holding(g, a)
  <2> DEFINE c == [g EXCEPT !.stack = <<"list", "form">>]
  <2>1. /\ c \in Gates /\ c.op = g.op /\ c.active = g.active /\ c.rt = g.rt /\ c.hint = g.hint
        /\ c.actions = g.actions /\ c.changed = g.changed /\ ~c.suspended
    BY <1>1 DEF Gates
  <2> HIDE DEF c
  <2>2. Steady(c)
    BY <1>1, <2>1, Rerouted, SoundAlike DEF Steady
  <2>3. Own(c, "form") = {} /\ g.hint \in 0 .. MaxHints /\ "form" \in Routes
    BY <1>1, <1>3, <2>1, FreshIs DEF Steady, Sound, Own, Live, Gates, Routes
  <2>4. Sound(c, "form", Opening(g.hint)) /\ Opening(g.hint) \in RouteRecord
    BY <2>1, <2>3, SoundNew, OpeningIs
  <2>5. a = [c EXCEPT !.rt["form"] = Opening(g.hint)]
    BY DEF c
  <2> HIDE DEF a
  <2>6. /\ Steady(a) /\ a.op = c.op /\ Beside(c, a) /\ a.rt["form"] = Opening(g.hint)
        /\ \A m \in Routes \ {"form"} : a.rt[m] = c.rt[m]
    BY <2>1, <2>2, <2>3, <2>4, <2>5, Swapped
  <2>7. Holding(g, a)
    BY <2>1, <2>3, <2>6, OpeningIs DEF Holding
  <2> QED
    BY <2>1, <2>6, <2>7 DEF Beside
<1>4. Steady(b) /\ b.op = g.op /\ ~b.suspended /\ Holding(g, b)
  <2>1. /\ b \in Gates /\ b.op = g.op /\ b.active = g.active /\ b.rt = g.rt /\ b.hint = g.hint
        /\ b.actions = g.actions /\ b.changed = g.changed /\ ~b.suspended
    BY <1>1 DEF Gates
  <2> HIDE DEF b
  <2>2. Steady(b)
    BY <1>1, <2>1, Rerouted, SoundAlike DEF Steady
  <2> QED
    BY <2>1, <2>2 DEF Holding
<1>5. Steady(x) /\ x.op = g.op /\ ~x.suspended /\ Holding(g, x)
  BY <1>1, <1>3, <1>4 DEF Holding
<1> HIDE DEF x, opens
<1> DEFINE y == Finished(x, {o}, "quiet")
<1>6. x \in Gates /\ {o} \in SUBSET Live(x) /\ {o} \in SUBSET Ops
  BY <1>1, <1>5 DEF Steady, Live
<1>7. Steady(y) /\ Holding(x, y)
  BY <1>5, <1>6, FinishedSteady, FinishedHolding
<1>8. \A r \in Routes : y.rt[r].mounted = x.rt[r].mounted /\ y.rt[r].baseline = x.rt[r].baseline
  <2>1. \A r \in Routes : Kept(x.rt[r], y.rt[r])
    BY <1>6, FinishedIs
  <2> QED
    BY <2>1 DEF Kept
<1> HIDE DEF y
<1>9. Holding(g, y)
  BY <1>5, <1>7, <1>8 DEF Holding
<1> QED
  BY <1>2, <1>7, <1>9, DrainedStep, HeldOn DEF y

\* The back gesture.
LEMMA UserBackStep ==
  ASSUME IInv, UserBack
  PROVE  IInv' /\ Holding(g, g')
<1>1. Steady(g) /\ g \in Gates /\ ~g.suspended
  BY DEF IInv, Steady, Over, UserBack
<1>2. /\ g' \in Gates /\ g'.op = g.op /\ g'.active = g.active /\ g'.rt = g.rt
      /\ g'.hint = g.hint /\ g'.actions = g.actions /\ g'.changed = g.changed
      /\ g'.suspended = g.suspended /\ g'.paused = g.paused
  <2>1. g.choices + 1 \in 0 .. MaxChoices
    BY <1>1, CountOn DEF UserBack
  <2> QED
    BY <1>1, <2>1 DEF UserBack, Gates
<1>3. Steady(g') /\ Queued(g') = Queued(g)
  BY <1>1, <1>2, Rerouted, SoundAlike DEF Steady
<1>4. Quiet(g')
  BY <1>2, <1>3 DEF IInv, Quiet, Rests, Wants, Needed
<1> QED
  BY <1>2, <1>3, <1>4 DEF IInv, Holding

\* A pause.
LEMMA PauseStep ==
  ASSUME IInv, Pause
  PROVE  IInv' /\ Holding(g, g')
<1>1. Steady(g) /\ g \in Gates /\ ~g.suspended
  BY DEF IInv, Steady, Pause
<1>2. g.pauses + 1 \in 0 .. MaxPauses
  BY <1>1, CountOn DEF Pause
<1>3. /\ g' \in Gates /\ g'.op = g.op /\ g'.active = g.active /\ g'.rt = g.rt
      /\ g'.hint = g.hint /\ g'.actions = g.actions /\ g'.changed = g.changed
      /\ g'.suspended = g.suspended /\ g'.paused
  BY <1>1, <1>2 DEF Pause, Gates
<1>4. Steady(g')
  BY <1>1, <1>3, Rerouted, SoundAlike DEF Steady
<1>5. Quiet(g')
  BY <1>3 DEF Quiet, Rests
<1> QED
  BY <1>3, <1>4, <1>5 DEF IInv, Holding

\* The end of a pause: every screen is to be laid out anew.
LEMMA ResumeStep ==
  ASSUME IInv, Resume
  PROVE  IInv' /\ Holding(g, g')
<1> DEFINE f == [r \in Routes |-> [g.rt[r] EXCEPT !.layout = @ \/ g.rt[r].mounted]]
           a == [g EXCEPT !.paused = FALSE]
           x == [a EXCEPT !.rt = f]
<1>1. Steady(g) /\ g \in Gates /\ ~g.suspended
  BY DEF IInv, Steady, Resume, ResumeDue
<1>2. g' = Drained(x)
  BY DEF Resume
<1>3. /\ a \in Gates /\ a.op = g.op /\ a.active = g.active /\ a.rt = g.rt /\ a.hint = g.hint
      /\ a.actions = g.actions /\ a.changed = g.changed /\ ~a.suspended
  BY <1>1 DEF Gates
<1>4. \A r \in Routes : f[r] \in RouteRecord /\ Like(g.rt[r], f[r])
                        /\ f[r].concealed = g.rt[r].concealed
  <2> SUFFICES ASSUME NEW r \in Routes
               PROVE  f[r] \in RouteRecord /\ Like(g.rt[r], f[r])
                      /\ f[r].concealed = g.rt[r].concealed
    OBVIOUS
  <2> DEFINE d == g.rt[r]
             v == d.layout \/ d.mounted
             e == [d EXCEPT !.layout = v]
  <2>1. d \in RouteRecord
    BY <1>1 DEF Gates
  <2>2. v \in BOOLEAN
    BY <2>1 DEF RouteRecord
  <2>3. f[r] = e
    OBVIOUS
  <2> HIDE DEF v
  <2>4. e \in RouteRecord
    BY <2>1, <2>2, RouteFields
  <2>5. Like(d, e) /\ e.concealed = d.concealed
    BY <2>1 DEF Like, Alike, RouteRecord
  <2> QED
    BY <2>3, <2>4, <2>5
<1>5. f \in [Routes -> RouteRecord]
  BY <1>4
<1> HIDE DEF f, a
<1>6. x \in Gates /\ x.rt = f /\ x.op = a.op /\ x.active = a.active /\ Beside(a, x)
  BY <1>3, <1>5, RoutesSet
<1> HIDE DEF x
<1>7. \A r \in Routes : Sound(x, r, x.rt[r])
  <2> SUFFICES ASSUME NEW r \in Routes PROVE Sound(x, r, f[r])
    BY <1>6
  <2>1. Sound(g, r, g.rt[r])
    BY <1>1 DEF Steady
  <2>2. f[r].away > 0 => f[r].concealed
    BY <1>4, <2>1 DEF Sound, Like, Alike
  <2>3. Sound(g, r, f[r])
    BY <1>4, <2>1, <2>2, SoundLike
  <2> QED
    BY <1>3, <1>6, <2>3, SoundAlike DEF Beside
<1>8. Steady(x)
  BY <1>1, <1>3, <1>6, <1>7, Rerouted DEF Steady, Beside
<1>9. Holding(g, x)
  BY <1>3, <1>4, <1>6 DEF Holding, Like, Alike
<1> QED
  BY <1>2, <1>8, <1>9, DrainedStep, HeldOn, ZenonT(60) DEF x, f, a

\* The end of an epoch.
LEMMA ResetStep ==
  ASSUME IInv, Reset
  PROVE  IInv' /\ Holding(g, g')
<1> DEFINE S == Live(g)
           y == Finished(g, S, "gone")
           f == [r \in Routes |-> Fresh]
<1>1. Steady(g) /\ g \in Gates /\ S \in SUBSET Ops
  BY DEF IInv, Steady, Live
<1>2. /\ y \in Gates /\ Beside(g, y)
      /\ \A o \in Ops \ S : y.op[o] = g.op[o]
      /\ \A o \in S : /\ ~y.op[o].live
                      /\ \/ y.op[o].pc = "free"
                         \/ Pending(g.op[o]) /\ Pending(y.op[o]) /\ Vacant(g) # {}
  BY <1>1, FinishedIs
<1>3. g' = [y EXCEPT !.epoch = @ + 1, !.suspended = TRUE, !.active = NoOp,
                     !.hint = 0, !.changed = 0, !.stack = <<>>, !.rt = f]
  BY DEF Reset
<1> HIDE DEF y
<1>4. y.epoch + 1 \in 1 .. MaxEpoch + 1
  BY <1>1, <1>2, CountOn DEF Reset, Beside
<1>5. f \in [Routes -> RouteRecord] /\ \A r \in Routes : f[r] = Fresh
  BY FreshIs
<1> HIDE DEF f
<1>6. /\ g' \in Gates /\ g'.op = y.op /\ g'.active = NoOp /\ g'.rt = f /\ g'.hint = 0
      /\ g'.changed = 0 /\ g'.suspended /\ g'.stack = <<>>
  <2>1. 0 \in 0 .. MaxHints
    BY Bounds
  <2> QED
    BY <1>2, <1>3, <1>4, <1>5, <2>1 DEF Gates
<1>7. \A o \in Ops : ~g'.op[o].live
  BY <1>1, <1>2, <1>6 DEF Live
<1>8. Live(g') = {} /\ Queued(g') = {} /\ \A r : Own(g', r) = {}
  BY <1>7 DEF Live, Queued, Own
<1>9. \A o \in Ops : g'.op[o].pc = "free" \/ Pending(g'.op[o])
  <2> SUFFICES ASSUME NEW o \in Ops PROVE y.op[o].pc = "free" \/ Pending(y.op[o])
    BY <1>6
  <2>1. CASE o \in S
    BY <1>2, <2>1
  <2>2. CASE o \notin S
    BY <1>1, <1>2, <2>2 DEF Steady, Working, Live
  <2> QED
    BY <2>1, <2>2
<1>10. Vacant(g') # {}
  <2>1. CASE Vacant(g) # {}
    <3>1. PICK v \in Ops : g.op[v].pc = "free"
      BY <2>1 DEF Vacant
    <3>2. v \notin S
      BY <1>1, <3>1 DEF Steady, Working, Live
    <3> QED
      BY <1>2, <1>6, <3>1, <3>2 DEF Vacant
  <2>2. CASE Vacant(g) = {}
    <3>1. g.active \in S
      BY <1>1, <2>2 DEF Steady, Working
    <3> QED
      BY <1>1, <1>2, <1>6, <2>2, <3>1 DEF Vacant
  <2> QED
    BY <2>1, <2>2
<1>11. Working(g')
  BY <1>6, <1>7, <1>8, <1>9, <1>10 DEF Working
<1>12. \A r \in Routes : Sound(g', r, g'.rt[r])
  BY <1>5, <1>6, <1>8, SoundNew, SMTT(60)
<1>13. Steady(g')
  BY <1>5, <1>6, <1>8, <1>11, <1>12 DEF Steady, Over
<1>14. Quiet(g')
  BY <1>6 DEF Quiet, Rests
<1>15. Holding(g, g')
  BY <1>5, <1>6, <1>9, FreshIs DEF Holding, Pending
<1> QED
  BY <1>13, <1>14, <1>15 DEF IInv

\* The start of an epoch.
LEMMA ResumeEpochStep ==
  ASSUME IInv, ResumeEpoch
  PROVE  IInv' /\ Holding(g, g')
<1> DEFINE a == [g EXCEPT !.suspended = FALSE, !.stack = <<"list">>]
           e == Opening(0)
           f == [g.rt EXCEPT !["list"] = e]
<1>1. Steady(g) /\ g \in Gates /\ Over(g) /\ g.rt \in [Routes -> RouteRecord]
  BY DEF IInv, Steady, ResumeEpoch, Gates
<1>2. e \in RouteRecord /\ ~e.mounted /\ 0 \in 0 .. MaxHints
  BY OpeningIs, Bounds
<1>3. f \in [Routes -> RouteRecord] /\ f["list"] = e /\ f["form"] = Fresh
  BY <1>1, <1>2 DEF Over, Routes
<1>4. g' = [g EXCEPT !.suspended = FALSE, !.stack = <<"list">>, !.rt = f]
  BY DEF ResumeEpoch
<1> HIDE DEF f
<1>5. /\ g' \in Gates /\ g'.op = g.op /\ g'.active = g.active /\ g'.rt = f /\ g'.hint = g.hint
      /\ g'.actions = g.actions /\ g'.changed = g.changed /\ ~g'.suspended
  BY <1>1, <1>3, <1>4 DEF Gates
<1>6. Queued(g') = {} /\ \A r : Own(g', r) = {}
  BY <1>1, <1>5 DEF Over, Queued, Own, Live
<1>7. g'.hint \in Nat
  BY <1>1, <1>5, Bounds DEF Gates
<1>8. Sound(g', "list", e)
  BY <1>2, <1>6, <1>7, SoundNew
<1>9. Sound(g', "form", Fresh)
  BY <1>6, <1>7, SoundNew
<1>10. \A r \in Routes : Sound(g', r, g'.rt[r])
  BY <1>3, <1>5, <1>8, <1>9 DEF Routes
<1>11. Steady(g')
  BY <1>1, <1>5, <1>10, Rerouted DEF Steady
<1>12. \A r \in Routes : ~g'.rt[r].mounted
  BY <1>2, <1>3, <1>5, FreshIs DEF Routes
<1>13. Quiet(g')
  BY <1>6, <1>12 DEF Quiet, Wants
<1> QED
  BY <1>5, <1>11, <1>12, <1>13 DEF IInv, Holding

\* A hint makes a route no less sound, if what it says of a hint out of sight is true.
LEMMA SoundLater ==
  ASSUME NEW x \in Gates, NEW y \in Gates, y.op = x.op, y.active = x.active, x.hint <= y.hint,
         NEW r \in Routes, NEW d \in RouteRecord, NEW e, Sound(x, r, d), Alike(d, e),
         e.away <= y.hint, e.away > 0 => e.concealed
  PROVE  Sound(y, r, e)
<1>1. Own(y, r) = Own(x, r)
  BY DEF Own, Live
<1>2. \A o \in Own(x, r) : Follows(x.op[o], e, o \in e.behind)
  BY DEF Sound, Alike, Follows
<1>3. e.seen <= y.hint /\ e.load <= y.hint
  <2>1. /\ d.seen \in Int /\ d.load \in Int /\ x.hint \in Int /\ y.hint \in Int
        /\ d.seen <= x.hint /\ d.load <= x.hint
    BY Bounds DEF Gates, RouteRecord, Sound
  <2> QED
    BY <2>1 DEF Alike
<1>4. \A o \in Own(x, r) : x.op[o].seen <= y.hint
  <2> SUFFICES ASSUME NEW o \in Own(x, r) PROVE x.op[o].seen <= y.hint
    OBVIOUS
  <2>1. x.op[o] \in OpRecord /\ x.op[o].seen <= x.hint
    BY DEF Gates, Own, Live, Sound
  <2>2. x.op[o].seen \in Int
    BY <2>1, Bounds DEF OpRecord
  <2>3. x.hint \in Int /\ y.hint \in Int
    BY Bounds DEF Gates
  <2> QED
    BY <2>1, <2>2, <2>3
<1> QED
  BY <1>1, <1>2, <1>3, <1>4 DEF Sound, Alike

\* A hint is newer than every document.
LEMMA HintStep ==
  ASSUME IInv, NEW cause, NEW affects \in BOOLEAN, Hint(cause, affects)
  PROVE  IInv' /\ Holding(g, g')
<1> DEFINE h == g.hint + 1
           df == g.rt["form"]
           dl == g.rt["list"]
           hits == df.mounted /\ (cause = "resync" \/ affects)
           k == IF cause = "invalidate" THEN h ELSE g.changed
           want == IF hits THEN h ELSE df.want
           clash == IF hits /\ cause = "invalidate" THEN h ELSE df.clash
           away == IF dl.mounted /\ ~dl.focused /\ ~Dirty(Track(dl)) THEN h ELSE dl.away
           ef == [df EXCEPT !.want = want, !.clash = clash]
           el == [dl EXCEPT !.away = away]
           f == [g.rt EXCEPT !["form"] = ef, !["list"] = el]
           a == [g EXCEPT !.hint = h, !.changed = k]
           x == [a EXCEPT !.rt = f]
           c == Concealed(x)
<1>1. /\ Steady(g) /\ g \in Gates /\ ~g.suspended /\ g.rt \in [Routes -> RouteRecord]
      /\ df \in RouteRecord /\ dl \in RouteRecord
  BY DEF IInv, Steady, Hint, Gates, Routes
<1>2. /\ h \in 0 .. MaxHints /\ g.hint < h /\ h > 0 /\ g.hint \in Nat
      /\ k \in 0 .. MaxHints /\ k <= h
  <2>1. h \in 0 .. MaxHints /\ g.hint \in 0 .. MaxHints /\ g.changed \in 0 .. MaxHints
    BY <1>1, CountOn DEF Hint, Gates
  <2>2. g.changed <= g.hint
    BY <1>1 DEF Steady
  <2> QED
    BY <2>1, <2>2, Bounds
<1>3. ef \in RouteRecord /\ Like(df, ef) /\ ef.concealed = df.concealed
  <2>1. df.want \in 0 .. MaxHints /\ df.clash \in 0 .. MaxHints
    BY <1>1 DEF RouteRecord
  <2>2. want \in 0 .. MaxHints /\ clash \in 0 .. MaxHints
    BY <1>2, <2>1
  <2> HIDE DEF want, clash
  <2>3. [df EXCEPT !.want = want] \in RouteRecord
    BY <1>1, <2>2, RouteFields
  <2>4. ef \in RouteRecord
    BY <2>2, <2>3, RouteFields
  <2>5. Like(df, ef) /\ ef.concealed = df.concealed
    BY <1>1 DEF Like, Alike, RouteRecord
  <2> QED
    BY <2>4, <2>5
<1>4. /\ el \in RouteRecord /\ Alike(dl, el) /\ el.away = away /\ el.focused = dl.focused
      /\ el.concealed = dl.concealed /\ away \in 0 .. MaxHints
  <2>1. away \in 0 .. MaxHints
    BY <1>1, <1>2 DEF RouteRecord
  <2> HIDE DEF away
  <2>2. el \in RouteRecord
    BY <1>1, <2>1, RouteFields
  <2>3. /\ Alike(dl, el) /\ el.away = away /\ el.focused = dl.focused
        /\ el.concealed = dl.concealed
    BY <1>1 DEF Alike, RouteRecord
  <2> QED
    BY <2>1, <2>2, <2>3
<1>5. g' = Drained(x)
  <2> DEFINE w == [df EXCEPT !.want = want]
             f1 == [g.rt EXCEPT !["form"] = w]
             f2 == [f1 EXCEPT !["form"] = [w EXCEPT !.clash = clash]]
             f3 == [f2 EXCEPT !["list"] = el]
  <2>1. w.clash = df.clash
    BY <1>1 DEF RouteRecord
  <2>2. f1["form"] = w /\ f2["list"] = dl /\ f3 = f
    BY <1>1 DEF Routes
  <2>3. g' = Drained([a EXCEPT !.rt = f3])
    <3> HIDE DEF Drained
    <3> QED
      BY <2>1, <2>2 DEF Hint
  <2> QED
    BY <2>2, <2>3
<1> HIDE DEF ef, el, k, want, clash
<1>6. f \in [Routes -> RouteRecord] /\ f["form"] = ef /\ f["list"] = el
  BY <1>1, <1>3, <1>4 DEF Routes
<1> HIDE DEF f
<1>7. /\ a \in Gates /\ a.op = g.op /\ a.active = g.active /\ a.rt = g.rt /\ a.hint = h
      /\ a.actions = g.actions /\ a.changed = k /\ ~a.suspended /\ a.paused = g.paused
  <2> HIDE DEF h
  <2> QED
    BY <1>1, <1>2 DEF Gates
<1> HIDE DEF a
<1>8. x \in Gates /\ x.rt = f /\ x.op = a.op /\ x.active = a.active /\ Beside(a, x)
  BY <1>6, <1>7, RoutesSet
<1> HIDE DEF x, h
<1>9. /\ c \in Gates /\ Beside(x, c) /\ c.op = x.op /\ c.active = x.active
      /\ c.rt["form"] = ef
      /\ \/ c.rt["list"] = el /\ (~dl.mounted \/ dl.focused)
         \/ /\ dl.mounted /\ ~dl.focused /\ Like(Track(el), c.rt["list"])
            /\ c.rt["list"].concealed =
                 (dl.concealed \/ (~Dirty(Track(el)) /\ Needed(x, "list") > 0))
  BY <1>4, <1>6, <1>8, ConcealedIs DEF Alike
<1> HIDE DEF c
<1>10. /\ c.hint = h /\ c.op = g.op /\ c.active = g.active /\ ~c.suspended
       /\ c.actions = g.actions /\ c.changed <= c.hint
  BY <1>2, <1>7, <1>8, <1>9 DEF Beside
<1>11. Sound(c, "form", c.rt["form"])
  <2>1. Sound(g, "form", df) /\ "form" \in Routes
    BY <1>1 DEF Steady, Routes
  <2>2. ef.away <= h /\ (ef.away > 0 => ef.concealed)
    <3>1. ef.away \in Nat /\ ef.away <= g.hint /\ (ef.away > 0 => ef.concealed)
      BY <1>3, <2>1, Bounds DEF Sound, RouteRecord, Like, Alike
    <3> QED
      BY <1>2, <3>1
  <2> QED
    BY <1>1, <1>2, <1>3, <1>9, <1>10, <2>1, <2>2, SoundLater DEF Like
<1>12. Sound(g, "list", dl) /\ "list" \in Routes
  BY <1>1 DEF Steady, Routes
<1>13. dl.away \in Nat /\ dl.away <= g.hint /\ (dl.away > 0 => dl.concealed)
  BY <1>1, <1>12, Bounds DEF Sound, RouteRecord
<1>14. away <= h
  BY <1>2, <1>13, Bounds
<1>15. Sound(c, "list", c.rt["list"])
  <2>1. CASE c.rt["list"] = el /\ (~dl.mounted \/ dl.focused)
    <3>1. away = dl.away
      BY <2>1
    <3> HIDE DEF away
    <3> QED
      BY <1>1, <1>2, <1>4, <1>9, <1>10, <1>12, <1>13, <1>14, <2>1, <3>1, SoundLater
  <2>2. CASE /\ dl.mounted /\ ~dl.focused /\ Like(Track(el), c.rt["list"])
             /\ c.rt["list"].concealed
                  = (dl.concealed \/ (~Dirty(Track(el)) /\ Needed(x, "list") > 0))
    <3> DEFINE t == Track(dl)
               u == Track(el)
               e == c.rt["list"]
    <3>1. /\ t \in RouteRecord /\ Sound(g, "list", t) /\ Alike(t, u) /\ u.away = away
      <4>1. t \in RouteRecord /\ Sound(g, "list", t)
        BY <1>1, <1>12, TrackSound, TrackIs
      <4>2. Alike(t, u) /\ u.away = away
        <5> HIDE DEF away
        <5>1. CASE dl.current = dl.shown
          BY <1>1, <1>4, <5>1, TrackIs DEF Alike
        <5>2. CASE dl.current # dl.shown
          <6>1. t = [dl EXCEPT !.current = dl.shown, !.rev = @ + 1, !.consent = "none"]
            BY <5>2 DEF Track
          <6>2. u = [el EXCEPT !.current = el.shown, !.rev = @ + 1, !.consent = "none"]
            BY <1>4, <5>2 DEF Track, Alike
          <6> HIDE DEF t, u
          <6> QED
            BY <1>1, <1>4, <6>1, <6>2 DEF Alike, RouteRecord
        <5> QED
          BY <5>1, <5>2
      <4> QED
        BY <4>1, <4>2
    <3>2. Dirty(u) = Dirty(t)
      BY <3>1 DEF Dirty, Alike
    <3>3. ~Dirty(t) => Needed(x, "list") > 0
      <4>1. x.hint = h /\ x.rt["list"].seen = dl.seen /\ dl.seen \in Nat /\ dl.seen <= g.hint
        BY <1>1, <1>4, <1>6, <1>7, <1>8, <1>12 DEF Beside, Alike, RouteRecord, Sound
      <4> QED
        BY <1>2, <4>1, Bounds DEF Needed, Newer
    <3>4. e.away = away /\ Alike(t, e) /\ e.concealed = (dl.concealed \/ ~Dirty(t))
      <4> HIDE DEF t, u, away
      <4> QED
        BY <2>2, <3>1, <3>2, <3>3 DEF Alike, Like, u
    <3>5. e.away > 0 => e.concealed
      BY <1>13, <2>2, <3>4
    <3> HIDE DEF t, e, away
    <3> QED
      BY <1>1, <1>2, <1>9, <1>10, <1>12, <1>14, <3>1, <3>4, <3>5, SoundLater DEF e
  <2> QED
    BY <1>9, <2>1, <2>2
<1>16. Steady(c)
  BY <1>1, <1>9, <1>10, <1>11, <1>15, Rerouted DEF Routes
<1>17. Holding(g, c)
  <2>1. \A r \in Routes : c.rt[r].baseline = g.rt[r].baseline
    <3>1. el.baseline = dl.baseline /\ Track(el).baseline = el.baseline
      BY <1>4, TrackIs DEF Alike
    <3> QED
      BY <1>3, <1>9, <3>1 DEF Routes, Like, Alike
  <2> QED
    BY <1>10, <2>1 DEF Holding
<1>18. Steady(g') /\ Quiet(g') /\ Showing(c, g')
  BY <1>5, <1>16, DrainsSteady DEF c
<1> QED
  BY <1>17, <1>18, HeldOn DEF IInv

\* An edit comes after every request of its screen that is under way.
LEMMA EditStep ==
  ASSUME IInv, NEW r \in Routes, NEW value \in Values, Edit(r, value)
  PROVE  IInv' /\ Holding(g, g')
<1> DEFINE d == g.rt[r]
           B == {o \in Live(g) : g.op[o].key = r
                                 /\ g.op[o].pc \in {"loading", "accepted", "drafting"}}
           e0 == [d EXCEPT !.shown = value, !.layout = TRUE, !.behind = B]
           e == Track(e0)
           a == [g EXCEPT !.edits = @ + 1]
           x == [a EXCEPT !.rt[r] = e]
<1>1. /\ Steady(g) /\ g \in Gates /\ ~g.suspended /\ d \in RouteRecord /\ d.mounted
      /\ d.load = None /\ value # d.shown /\ Sound(g, r, d)
      /\ \A o \in Own(g, r) : g.op[o].pc = "laying" => g.op[o].kind \notin Reloads
  BY DEF IInv, Steady, Edit, Interactive, Attached, Gates, Own, Live
<1>2. g' = Drained(x)
  BY DEF Edit
<1>3. B \subseteq Own(g, r) /\ B \in SUBSET Ops
  BY DEF Own, Live
<1>4. /\ e0 \in RouteRecord /\ e0.shown = value /\ e0.behind = B /\ e0.current = d.current
      /\ e0.mounted = d.mounted /\ e0.load = d.load /\ e0.seen = d.seen /\ e0.held = d.held
      /\ e0.given = d.given /\ e0.baseline = d.baseline /\ e0.away = d.away /\ e0.rev = d.rev
      /\ e0.concealed = d.concealed /\ e0.consent = d.consent
  <2> HIDE DEF B, d
  <2>1. [d EXCEPT !.shown = value] \in RouteRecord
    BY <1>1, RouteFields
  <2>2. [d EXCEPT !.shown = value, !.layout = TRUE] \in RouteRecord
    BY <2>1, RouteFields
  <2>3. e0 \in RouteRecord
    BY <1>3, <2>2, RouteFields
  <2> QED
    BY <1>1, <2>3, ZenonT(60) DEF RouteRecord
<1> HIDE DEF e0
<1>5. /\ e \in RouteRecord /\ e.current = value /\ e.shown = value /\ d.rev <= e.rev
      /\ d.current # value => e.consent = "none" /\ d.rev < e.rev
      /\ e.consent \in {"none", d.consent}
      /\ e.mounted /\ e.load = None /\ e.seen = d.seen /\ e.held = d.held
      /\ e.behind = B /\ e.given = d.given /\ e.baseline = d.baseline
      /\ e.away = d.away /\ e.concealed = d.concealed
  <2>1. e.consent \in {"none", d.consent}
    BY <1>4, TrackIs
  <2> QED
    BY <1>1, <1>4, <2>1, TrackIs, ZenonT(60)
<1> HIDE DEF e
<1>6. \A o \in Own(g, r) : Follows(g.op[o], e, o \in B)
  <2> SUFFICES ASSUME NEW o \in Own(g, r) PROVE Follows(g.op[o], e, o \in B)
    OBVIOUS
  <2> DEFINE p == g.op[o]
  <2>1. Follows(p, d, o \in d.behind)
    BY <1>1 DEF Sound
  <2>2. Asked(p) => /\ e.current = e.shown /\ p.draft <= e.rev /\ p.draft < e.rev
                    /\ e.consent # "refresh"
    <3> SUFFICES ASSUME Asked(p)
                 PROVE  p.draft <= e.rev /\ p.draft < e.rev /\ e.consent # "refresh"
      BY <1>5
    <3>1. d.current = d.shown /\ p.draft <= d.rev
      BY <2>1 DEF Follows
    <3>2. d.rev < e.rev /\ e.consent = "none"
      BY <1>1, <1>5, <3>1
    <3>3. p \in OpRecord
      BY <1>1 DEF Gates, Own, Live
    <3>4. p.draft \in Int /\ d.rev \in Int /\ e.rev \in Int
      BY <1>1, <1>5, <3>3, Bounds DEF OpRecord, RouteRecord
    <3> QED
      BY <3>1, <3>2, <3>4
  <2>3. p.pc = "laying" => /\ p.commit # None => p.commit = e.given
                           /\ p.kind \notin Reloads
    BY <1>1, <1>5, <2>1 DEF Follows
  <2>4. o \in B => p.pc # "queued"
    OBVIOUS
  <2> HIDE DEF p, B
  <2> QED
    BY <1>5, <2>2, <2>3, <2>4 DEF Follows, p
<1> HIDE DEF B
<1>7. Sound(g, r, e)
  BY <1>1, <1>3, <1>5, <1>6 DEF Sound
<1>8. /\ a \in Gates /\ a.op = g.op /\ a.active = g.active /\ a.rt = g.rt /\ a.hint = g.hint
      /\ a.actions = g.actions /\ a.changed = g.changed /\ ~a.suspended
  <2>1. g.edits + 1 \in 0 .. MaxEdits
    BY <1>1, CountOn DEF Edit
  <2> QED
    BY <1>1, <2>1 DEF Gates
<1> HIDE DEF a
<1>9. Steady(a) /\ Sound(a, r, e)
  BY <1>1, <1>7, <1>8, Rerouted, SoundAlike DEF Steady
<1>10. /\ Steady(x) /\ x.rt[r] = e /\ \A m \in Routes \ {r} : x.rt[m] = a.rt[m]
       /\ x.op = a.op
  BY <1>5, <1>8, <1>9, Swapped
<1> HIDE DEF x
<1>11. Holding(g, x)
  BY <1>5, <1>8, <1>10 DEF Holding
<1> QED
  BY <1>2, <1>10, <1>11, DrainedStep, HeldOn

\* Operations of a gate that is awake are retired, if there are any.
LEMMA Retiring ==
  ASSUME NEW x, Steady(x), ~x.suspended, NEW S \in SUBSET Live(x), NEW why
  PROVE  LET y == Finished(x, S, why) IN
         /\ Steady(y) /\ ~y.suspended /\ Live(y) \subseteq Live(x) /\ Beside(x, y)
         /\ \A o \in Ops \ S : y.op[o] = x.op[o]
         /\ \A r \in Routes : Kept(x.rt[r], y.rt[r])
         /\ Vacant(x) \subseteq Vacant(y) /\ Holding(x, y)
<1> DEFINE y == Finished(x, S, why)
<1>1. x \in Gates /\ S \in SUBSET Ops
  BY DEF Steady, Live
<1>2. Steady(y) /\ Live(y) = Live(x) \ S
  BY FinishedSteady
<1>3. /\ Beside(x, y) /\ \A o \in Ops \ S : y.op[o] = x.op[o]
      /\ \A r \in Routes : Kept(x.rt[r], y.rt[r])
  BY <1>1, FinishedIs
<1>4. Holding(x, y)
  BY <1>1, FinishedHolding
<1> HIDE DEF y
<1>5. Vacant(x) \subseteq Vacant(y)
  BY <1>1, <1>3 DEF Vacant, Steady, Working, Live
<1> QED
  BY <1>2, <1>3, <1>4, <1>5 DEF y, Beside

\* A dispatch: rivals and a held answer are retired before it joins the queue.
LEMMA EnqueueStep ==
  ASSUME IInv, NEW r \in Routes, NEW kind \in {"reload", "open", "get", "post", "back"},
         NEW sync \in BOOLEAN, NEW replace, Enqueue(r, kind, sync, replace)
  PROVE  IInv' /\ Holding(g, g')
<1> DEFINE o == Slot(g)
           S == IF sync THEN {q \in Live(g) : /\ g.op[q].key = r /\ g.op[q].sync
                                              /\ g.op[q].pc # "laying"}
                ELSE {}
           x == Finished(g, S, "quiet")
           T == {x.active}
           drafts == x.active # NoOp /\ x.op[x.active].pc = "drafting"
           y == IF drafts THEN Finished(x, T, "quiet") ELSE x
           t == g.actions + 1
           p == [FreeOp EXCEPT !.kind = kind, !.key = r, !.live = TRUE,
                               !.pc = "queued", !.sync = sync, !.turn = t]
           ops == [y.op EXCEPT ![o] = p]
           z == [y EXCEPT !.op = ops, !.actions = @ + 1]
<1>1. /\ Steady(g) /\ g \in Gates /\ ~g.suspended /\ g.rt[r].mounted /\ Working(g)
  BY ZenonT(60) DEF IInv, Steady, Enqueue, Interactive
<1>2. S \in SUBSET Live(g)
  OBVIOUS
<1> HIDE DEF S
<1>3. /\ Steady(x) /\ ~x.suspended /\ Live(x) \subseteq Live(g) /\ Beside(g, x)
      /\ \A q \in Ops \ S : x.op[q] = g.op[q]
      /\ \A m \in Routes : Kept(g.rt[m], x.rt[m])
      /\ Vacant(g) \subseteq Vacant(x) /\ Holding(g, x)
  BY <1>1, <1>2, Retiring
<1> HIDE DEF x
<1>4. /\ Steady(y) /\ ~y.suspended /\ Live(y) \subseteq Live(g) /\ Beside(g, y)
      /\ \A m \in Routes : Kept(g.rt[m], y.rt[m])
      /\ Vacant(g) \subseteq Vacant(y) /\ Holding(g, y)
  <2>1. CASE ~drafts
    BY <1>3, <2>1
  <2>2. CASE drafts
    <3>1. T \in SUBSET Live(x)
      BY <1>3, <2>2 DEF Steady, Working
    <3> DEFINE w == Finished(x, T, "quiet")
    <3>2. /\ Steady(w) /\ ~w.suspended /\ Live(w) \subseteq Live(x) /\ Beside(x, w)
          /\ \A m \in Routes : Kept(x.rt[m], w.rt[m])
          /\ Vacant(x) \subseteq Vacant(w) /\ Holding(x, w)
      BY <1>3, <3>1, Retiring
    <3>3. y = w
      BY <2>2
    <3> HIDE DEF w, y, drafts
    <3>4. \A m \in Routes : Kept(g.rt[m], w.rt[m])
      BY <1>3, <3>2 DEF Kept
    <3>5. Holding(g, w)
      BY <1>3, <3>2, <3>4 DEF Holding, Kept
    <3>6. Beside(g, w)
      BY <1>3, <3>2 DEF Beside
    <3> QED
      BY <1>3, <3>2, <3>3, <3>4, <3>5, <3>6
  <2> QED
    BY <2>1, <2>2
<1> HIDE DEF y
<1>5. y \in Gates /\ y.op \in [Ops -> OpRecord] /\ y.actions = g.actions
  BY <1>4 DEF Steady, Gates, Beside
<1>6. PICK v \in Vacant(g) : v # o
  <2>1. Cardinality(Vacant(g)) > 1
    BY ZenonT(60) DEF Enqueue
  <2>2. \A s \in Vacant(g) : Vacant(g) # {s}
    BY <2>1, FS_Singleton
  <2>3. Vacant(g) # {}
    BY <2>1, FS_EmptySet
  <2> QED
    BY <2>2, <2>3
<1>7. o \in Vacant(g) /\ o \in Ops
  BY <1>6 DEF Slot, Vacant
<1>8. o \in Vacant(y) /\ v \in Vacant(y) /\ o \notin Live(y) /\ o # y.active
  <2>1. o \in Vacant(y) /\ v \in Vacant(y) /\ Working(y)
    BY <1>4, <1>6, <1>7 DEF Steady
  <2> QED
    BY <1>7, <2>1, Bounds DEF Working, Vacant, Live
<1>9. g' = Drained(z)
  <2>1. g' = Drained([y EXCEPT !.op[o] = p, !.actions = @ + 1])
    BY ZenonT(60) DEF Enqueue, S, x, y
  <2> QED
    BY <2>1
<1> HIDE DEF o, S
<1>10. t \in 0 .. MaxActions /\ g.actions \in Nat
  <2>1. g.actions < MaxActions
    BY ZenonT(60) DEF Enqueue
  <2>2. g.actions \in Nat
    BY <1>1, Bounds DEF Gates
  <2> QED
    BY <1>1, <2>1, <2>2, CountOn
<1> HIDE DEF t
<1>11. /\ p \in OpRecord /\ p.live /\ p.key = r /\ p.pc = "queued" /\ p.turn = t
       /\ p.value = 0 /\ p.seen = 0
  <2>1. [FreeOp EXCEPT !.kind = kind] \in OpRecord
    BY FreeOpIs, OpFields DEF Reloads, Moves
  <2>2. [FreeOp EXCEPT !.kind = kind, !.key = r] \in OpRecord
    BY <2>1, OpFields
  <2>3. [FreeOp EXCEPT !.kind = kind, !.key = r, !.live = TRUE] \in OpRecord
    BY <2>2, OpFields
  <2>4. [FreeOp EXCEPT !.kind = kind, !.key = r, !.live = TRUE, !.pc = "queued"] \in OpRecord
    BY <2>3, OpFields
  <2>5. [FreeOp EXCEPT !.kind = kind, !.key = r, !.live = TRUE, !.pc = "queued",
                       !.sync = sync] \in OpRecord
    BY <2>4, OpFields
  <2>6. p \in OpRecord
    BY <1>10, <2>5, OpFields
  <2> QED
    BY <2>6, FreeOpIs DEF OpRecord
<1> HIDE DEF p
<1>12. ops \in [Ops -> OpRecord] /\ ops[o] = p /\ \A q \in Ops \ {o} : ops[q] = y.op[q]
  BY <1>5, <1>7, <1>11
<1> HIDE DEF ops
<1>13. /\ z \in Gates /\ z.op = ops /\ z.rt = y.rt /\ z.active = y.active /\ z.hint = y.hint
       /\ z.changed = y.changed /\ z.actions = t /\ ~z.suspended
  BY <1>4, <1>5, <1>10, <1>12 DEF Gates, t
<1> HIDE DEF z
<1>14. /\ Live(z) = Live(y) \cup {o} /\ Queued(z) = Queued(y) \cup {o} /\ v \in Vacant(z)
  BY <1>6, <1>7, <1>8, <1>11, <1>12, <1>13 DEF Live, Queued, Vacant
<1>15. Working(z)
  <2>1. Working(y)
    BY <1>4 DEF Steady
  <2>2. z.active # NoOp => z.active \in Live(z)
    BY <1>13, <1>14, <2>1 DEF Working
  <2>3. ASSUME NEW q \in Ops
        PROVE  /\ z.op[q].live => z.op[q].pc # "free" /\ (z.active # q <=> z.op[q].pc = "queued")
               /\ ~z.op[q].live => z.op[q].pc = "free" \/ Pending(z.op[q])
    BY <1>8, <1>11, <1>12, <1>13, <2>1 DEF Working
  <2>4. \A q \in Queued(y) : /\ z.op[q] = y.op[q] /\ y.op[q].turn \in Nat
                             /\ y.op[q].turn <= g.actions /\ q \in Ops
    <3> SUFFICES ASSUME NEW q \in Queued(y)
                 PROVE  /\ z.op[q] = y.op[q] /\ y.op[q].turn \in Nat
                        /\ y.op[q].turn <= g.actions /\ q \in Ops
      OBVIOUS
    <3>1. q \in Ops /\ q # o /\ y.op[q] \in OpRecord
      BY <1>5, <1>8 DEF Queued, Live
    <3>2. y.op[q].turn \in Nat
      BY <3>1, Bounds DEF OpRecord
    <3> QED
      BY <1>5, <1>12, <1>13, <2>1, <3>1, <3>2 DEF Working
  <2>5. /\ z.op[o].turn = g.actions + 1 /\ z.actions = g.actions + 1
    BY <1>11, <1>12, <1>13 DEF t
  <2>6. \A q \in Queued(z) : z.op[q].turn <= z.actions
    BY <1>10, <1>14, <2>4, <2>5
  <2>7. \A q, m \in Queued(z) : z.op[q].turn = z.op[m].turn => q = m
    <3>1. \A q, m \in Queued(y) : y.op[q].turn = y.op[m].turn => q = m
      BY <2>1 DEF Working
    <3>2. \A q \in Queued(y) : z.op[q].turn # z.op[o].turn
      BY <1>10, <2>4, <2>5
    <3> QED
      BY <1>14, <2>4, <3>1, <3>2
  <2> QED
    BY <1>14, <2>2, <2>3, <2>6, <2>7 DEF Working
<1>16. \A m \in Routes : Sound(z, m, z.rt[m])
  <2> SUFFICES ASSUME NEW m \in Routes PROVE Sound(z, m, y.rt[m])
    BY <1>13
  <2> DEFINE d == y.rt[m]
  <2>1. Sound(y, m, d) /\ Own(y, m) \subseteq Live(y) /\ Own(y, m) \subseteq Ops
    BY <1>4 DEF Steady, Own, Live
  <2>2. /\ Own(z, m) = Own(y, m) \cup (IF m = r THEN {o} ELSE {})
        /\ o \notin Own(y, m) /\ \A q \in Own(y, m) : z.op[q] = y.op[q]
    BY <1>7, <1>8, <1>11, <1>12, <1>13, <1>14, <2>1 DEF Own, Live
  <2>3. Follows(z.op[o], d, o \in d.behind)
    <3>1. o \notin d.behind
      BY <2>1, <2>2 DEF Sound
    <3> QED
      BY <1>11, <1>12, <1>13, <3>1 DEF Follows, Asked
  <2>4. \A q \in Own(z, m) : Follows(z.op[q], d, q \in d.behind)
    BY <2>1, <2>2, <2>3 DEF Sound
  <2>5. Own(z, m) # {} => d.mounted
    BY <1>1, <1>4, <2>1, <2>2 DEF Sound, Kept
  <2>6. y.hint \in Nat /\ \A q \in Own(z, m) : z.op[q].seen <= z.hint
    <3>1. y.hint \in Nat
      BY <1>5, Bounds DEF Gates
    <3> QED
      BY <1>11, <1>12, <1>13, <2>1, <2>2, <3>1 DEF Sound
  <2>7. Sound(z, m, d)
    <3> HIDE DEF d
    <3> QED
      BY <1>13, <2>1, <2>2, <2>4, <2>5, <2>6 DEF Sound
  <2> QED
    BY <2>7
<1>17. Steady(z)
  BY <1>4, <1>13, <1>15, <1>16 DEF Steady
<1>18. Holding(g, z)
  BY <1>4, <1>11, <1>12, <1>13 DEF Holding
<1> QED
  BY <1>9, <1>17, <1>18, DrainedStep, HeldOn DEF z

\* A gate with another operation, and another record for a route.
With(x, o, p, r, e) == [x EXCEPT !.op[o] = p, !.rt[r] = e]

\* An operation and its route change together.
LEMMA OpAndRoute ==
  ASSUME NEW x \in Gates, NEW o \in Ops, NEW p \in OpRecord, NEW r \in Routes,
         NEW e \in RouteRecord
  PROVE  LET y == With(x, o, p, r, e) IN
         /\ y \in Gates /\ Beside(x, y) /\ y.active = x.active
         /\ y.op[o] = p /\ \A q \in Ops \ {o} : y.op[q] = x.op[q]
         /\ y.rt[r] = e /\ \A m \in Routes \ {r} : y.rt[m] = x.rt[m]
<1> DEFINE ops == [x.op EXCEPT ![o] = p]
           f == [x.rt EXCEPT ![r] = e]
           y == With(x, o, p, r, e)
<1>1. /\ x.rt \in [Routes -> RouteRecord] /\ x.op \in [Ops -> OpRecord]
  BY DEF Gates
<1>2. /\ ops \in [Ops -> OpRecord] /\ ops[o] = p /\ \A q \in Ops \ {o} : ops[q] = x.op[q]
      /\ f \in [Routes -> RouteRecord] /\ f[r] = e /\ \A m \in Routes \ {r} : f[m] = x.rt[m]
  BY <1>1
<1>3. y = [x EXCEPT !.op = ops, !.rt = f]
  BY <1>1 DEF Gates, With
<1> HIDE DEF ops, f, y
<1>4. y \in Gates /\ y.op = ops /\ y.rt = f /\ y.active = x.active /\ Beside(x, y)
  BY <1>2, <1>3 DEF Gates, Beside
<1> QED
  BY <1>2, <1>4 DEF y

\* The active operation and its route go on together.
LEMMA Handled ==
  ASSUME NEW x, Steady(x), ~x.suspended, NEW r \in Routes, NEW o \in Own(x, r), x.active = o,
         NEW p \in OpRecord, p.live, p.key = r,
         p.pc \in {"loading", "laying", "drafting", "accepted"}, p.seen <= x.hint,
         NEW e \in RouteRecord, e.mounted, e.behind \subseteq Own(x, r),
         e.load = x.rt[r].load \/ e.load = None,
         e.held # NoOp => /\ e.held = o /\ e.consent # "refresh"
                          /\ p.kind = "post" /\ p.pc \in {"drafting", "accepted"},
         Follows(p, e, o \in e.behind), e.behind \subseteq x.rt[r].behind,
         e.load # None => e.shown = 0 /\ e.given = 0,
         e.away = x.rt[r].away, e.concealed = x.rt[r].concealed, e.seen = x.rt[r].seen,
         NEW y \in Gates, Beside(x, y), y.active = o,
         y.op[o] = p, \A q \in Ops \ {o} : y.op[q] = x.op[q],
         y.rt[r] = e, \A m \in Routes \ {r} : y.rt[m] = x.rt[m]
  PROVE  Steady(y) /\ Quiet(y)
<1>1. /\ x \in Gates /\ Working(x) /\ x.rt \in [Routes -> RouteRecord]
      /\ x.op \in [Ops -> OpRecord] /\ o \in Ops /\ x.op[o].live /\ Sound(x, r, x.rt[r])
      /\ x.op[o].key = r
  BY DEF Steady, Gates, Own, Live
<1>2. /\ Live(y) = Live(x) /\ Queued(y) = Queued(x) /\ \A m \in Routes : Own(y, m) = Own(x, m)
  BY <1>1 DEF Live, Queued, Own, Working
<1>3. Working(y)
  <2>1. ASSUME NEW q \in Ops
        PROVE  /\ y.op[q].live => y.op[q].pc # "free" /\ (y.active # q <=> y.op[q].pc = "queued")
               /\ ~y.op[q].live => y.op[q].pc = "free" \/ Pending(y.op[q])
    BY <1>1 DEF Working
  <2>2. \A q \in Queued(y) : q # o /\ q \in Ops
    BY <1>1 DEF Queued, Live
  <2>3. /\ \A q \in Queued(y) : y.op[q].turn <= y.actions
        /\ \A q, m \in Queued(y) : y.op[q].turn = y.op[m].turn => q = m
    BY <1>1, <1>2, <2>2 DEF Working, Beside
  <2> QED
    BY <1>1, <1>2, <2>1, <2>3, Bounds DEF Working, Live
<1>4. ASSUME NEW m \in Routes, m # r PROVE Sound(y, m, y.rt[m])
  <2>1. Sound(x, m, x.rt[m]) /\ y.rt[m] = x.rt[m] /\ Own(y, m) = Own(x, m)
    BY <1>2, <1>4 DEF Steady
  <2>2. \A q \in Own(x, m) : y.op[q] = x.op[q]
    BY <1>1, <1>4 DEF Own, Live
  <2> QED
    BY <2>1, <2>2 DEF Sound, Beside
<1>5. Sound(y, r, e)
  <2>1. \A q \in Own(x, r) : Follows(y.op[q], e, q \in e.behind)
    <3> SUFFICES ASSUME NEW q \in Own(x, r), q # o
                 PROVE  Follows(y.op[q], e, q \in e.behind)
      OBVIOUS
    <3>1. /\ y.op[q] = x.op[q] /\ x.op[q].pc = "queued"
          /\ Follows(x.op[q], x.rt[r], q \in x.rt[r].behind)
      BY <1>1 DEF Own, Live, Working, Sound
    <3> QED
      BY <3>1 DEF Follows, Asked
  <2>2. e.load <= x.hint
    <3>1. x.hint \in Nat
      BY <1>1, Bounds DEF Gates
    <3> QED
      BY <1>1, <3>1, Bounds DEF Sound
  <2>3. \A q \in Own(x, r) : y.op[q].seen <= x.hint
    BY <1>1 DEF Sound, Own, Live
  <2> QED
    BY <1>1, <1>2, <2>1, <2>2, <2>3 DEF Sound, Beside
<1>6. \A m \in Routes : Sound(y, m, y.rt[m])
  BY <1>4, <1>5
<1>7. Steady(y)
  BY <1>3, <1>6 DEF Steady, Beside
<1>8. Quiet(y)
  BY <1>1, Bounds DEF Quiet, Rests
<1> QED
  BY <1>7, <1>8

\* What Deliver alone may do: an answer that is applied was asked for after the
\* last edit of its form.
Applies(x, y) ==
  /\ \A r \in Routes : x.rt[r].mounted /\ y.rt[r].mounted => y.rt[r].baseline = x.rt[r].baseline
  /\ \A o \in Ops : /\ x.op[o].kind \in Drafted /\ x.op[o].pc # "laying"
                    /\ y.op[o].pc = "laying"
                    => o \notin x.rt[x.op[o].key].behind

\* A step that lays nothing out applies no answer.
LEMMA HoldingApplies ==
  ASSUME NEW x, NEW y, Holding(x, y)
  PROVE  Applies(x, y)
BY DEF Holding, Applies

\* An answer: dropped, refused, held as a draft or applied.
LEMMA DeliverStep ==
  ASSUME IInv, NEW o \in Ops, NEW value \in Values, NEW whole \in BOOLEAN,
         Deliver(o, value, whole)
  PROVE  IInv' /\ Applies(g, g')
<1> DEFINE p == g.op[o]
           r == p.key
           d0 == g.rt[r]
           d == Track(d0)
           x == [g EXCEPT !.rt[r] = d]
<1>1. CASE ~p.live
  BY <1>1, FreedStep, HoldingApplies DEF Deliver, Owned
<1>2. CASE p.live
  <2>1. /\ Steady(g) /\ g \in Gates /\ ~g.suspended /\ p \in OpRecord /\ r \in Routes
        /\ d0 \in RouteRecord /\ Sound(g, r, d0) /\ o \in Own(g, r)
        /\ Pending(p) /\ ~g.paused /\ (p.kind = "post" \/ whole)
        /\ value \in (IF p.kind = "post" THEN {0, p.value} ELSE {0})
    <3>1. p \in OpRecord /\ r \in Routes
      BY DEF IInv, Steady, Gates, OpRecord
    <3> QED
      BY <1>2, <3>1, Awake, ZenonT(60) DEF IInv, Steady, Gates, Deliver, Own, Live
  <2>2. g.active = o
    BY <1>2, <2>1, SMTT(60) DEF Steady, Working, Pending
  <2>3. /\ d \in RouteRecord /\ Sound(g, r, d) /\ d.current = d.shown
        /\ d.baseline = d0.baseline /\ d.behind = d0.behind /\ d.mounted = d0.mounted
    BY <2>1, TrackIs, TrackSound, SMTT(60)
  <2> HIDE DEF d
  <2>4. /\ Steady(x) /\ x.rt[r] = d /\ \A m \in Routes \ {r} : x.rt[m] = g.rt[m]
        /\ x.op = g.op /\ x.active = o /\ Beside(g, x)
    BY <2>1, <2>2, <2>3, Swapped
  <2>5. x.rt[r].mounted /\ o \in Own(x, r) /\ Own(x, r) = Own(g, r)
    BY <2>1, <2>3, <2>4, ZenonT(60) DEF Sound, Own, Live
  <2>6. Holding(g, x)
    BY <2>3, <2>4 DEF Holding
  <2> HIDE DEF x
  <2>7. /\ ~x.suspended /\ x.hint = g.hint /\ Follows(p, d, o \in d.behind)
        /\ p.seen <= x.hint /\ (d.load # None => d.shown = 0 /\ d.given = 0)
    BY <2>1, <2>3, <2>4, ZenonT(60) DEF Beside, Sound
  <2> DEFINE same == Unchanged(p, d)
             commit == IF p.kind = "get" THEN None ELSE IF whole THEN value ELSE None
             q == [p EXCEPT !.pc = "laying", !.commit = commit, !.value = 0]
             e == [d EXCEPT !.layout = TRUE, !.held = IF @ = o THEN NoOp ELSE @,
                            !.shown = IF p.kind = "get" THEN @ ELSE value,
                            !.given = IF commit = None THEN @ ELSE commit]
             y == [x EXCEPT !.op[o] = q, !.rt[r] = e]
             Applied(c) ==
               [x EXCEPT !.op[o] = [p EXCEPT !.pc = "laying", !.commit = c, !.value = 0],
                         !.rt[r] = [d EXCEPT !.layout = TRUE, !.held = IF @ = o THEN NoOp ELSE @,
                                             !.shown = IF p.kind = "get" THEN @ ELSE value,
                                             !.given = IF c = None THEN @ ELSE c]]
  <2>8. \/ /\ p.kind \in Reloads /\ ~same
           /\ g' = Drained(Finished([x EXCEPT !.rt[r].fail = None], {o}, "quiet"))
        \/ /\ p.kind = "post" /\ ~same
           /\ g' = [x EXCEPT !.op[o].pc = "drafting", !.rt[r].held = o]
        \/ /\ p.kind = "get" \/ (p.kind \in Drafted /\ same)
           /\ g' = y
    <3> DEFINE X == [g EXCEPT !.rt[p.key] = Track(@)]
               Apply(z, t, c) ==
                 [z EXCEPT !.op[o] = [p EXCEPT !.pc = "laying", !.commit = c, !.value = 0],
                           !.rt[p.key] = [t EXCEPT !.layout = TRUE,
                                                   !.held = IF @ = o THEN NoOp ELSE @,
                                                   !.shown = IF p.kind = "get" THEN @ ELSE value,
                                                   !.given = IF c = None THEN @ ELSE c]]
               Outcome(z, t) ==
                 \/ /\ p.kind \in Reloads /\ ~Unchanged(p, t)
                    /\ g' = Drained(Finished([z EXCEPT !.rt[p.key].fail = None], {o}, "quiet"))
                 \/ /\ p.kind = "post" /\ ~Unchanged(p, t)
                    /\ g' = [z EXCEPT !.op[o].pc = "drafting", !.rt[p.key].held = o]
                 \/ p.kind = "get" /\ g' = Apply(z, t, None)
                 \/ /\ p.kind \in Drafted /\ Unchanged(p, t)
                    /\ g' = Apply(z, t, IF whole THEN value ELSE None)
    <3>1. X = x /\ X.rt[p.key] = d
      BY <2>4, SMTT(60) DEF x, d
    <3>2. Outcome(X, X.rt[p.key])
      BY <1>2 DEF Deliver, Owned
    <3>3. Outcome(x, d)
      <4> HIDE DEF Outcome, X
      <4> QED
        BY <3>1, <3>2
    <3>4. \/ /\ p.kind \in Reloads /\ ~same
             /\ g' = Drained(Finished([x EXCEPT !.rt[r].fail = None], {o}, "quiet"))
          \/ /\ p.kind = "post" /\ ~same
             /\ g' = [x EXCEPT !.op[o].pc = "drafting", !.rt[r].held = o]
          \/ p.kind = "get" /\ g' = Applied(None)
          \/ p.kind \in Drafted /\ same /\ g' = Applied(IF whole THEN value ELSE None)
      BY <3>3
    <3>5. /\ p.kind = "get" => Applied(None) = y
          /\ p.kind \in Drafted => Applied(IF whole THEN value ELSE None) = y
      <4>1. /\ p.kind = "get" => commit = None
            /\ p.kind \in Drafted => commit = (IF whole THEN value ELSE None)
        BY DEF Drafted, Reloads
      <4>2. y = Applied(commit)
        OBVIOUS
      <4> HIDE DEF commit, y
      <4> QED
        BY <4>1, <4>2
    <3> HIDE DEF same, y, Applied
    <3> QED
      BY <3>5, <3>4
  <2> HIDE DEF Applied
  <2>9. CASE /\ p.kind \in Reloads /\ ~same
             /\ g' = Drained(Finished([x EXCEPT !.rt[r].fail = None], {o}, "quiet"))
    <3> DEFINE u == [d EXCEPT !.fail = None]
               w == [x EXCEPT !.rt[r] = u]
               z == Finished(w, {o}, "quiet")
    <3>1. u \in RouteRecord /\ Like(d, u) /\ u.concealed = d.concealed
      <4>1. None \in None .. MaxHints
        BY Bounds
      <4>2. u \in RouteRecord
        BY <2>3, <4>1, RouteFields
      <4> QED
        BY <2>3, <4>2 DEF Like, Alike, RouteRecord
    <3>2. [x EXCEPT !.rt[r].fail = None] = w
      BY <2>4
    <3> HIDE DEF u
    <3>3. Sound(x, r, u)
      <4>1. Sound(x, r, d)
        BY <2>1, <2>4 DEF Steady
      <4>2. u.away > 0 => u.concealed
        BY <3>1, <4>1 DEF Like, Sound
      <4> QED
        BY <3>1, <4>1, <4>2, SoundLike
    <3>4. /\ Steady(w) /\ Live(w) = Live(x) /\ w.rt[r] = u /\ Beside(x, w) /\ w.op = x.op
          /\ \A m \in Routes \ {r} : w.rt[m] = x.rt[m]
      BY <2>1, <2>4, <2>7, <3>1, <3>3, Swapped
    <3>5. Holding(x, w)
      BY <2>4, <3>1, <3>4 DEF Holding, Like, Alike
    <3> HIDE DEF w
    <3>6. /\ Steady(z) /\ Holding(w, z) /\ \A m \in Routes : Kept(w.rt[m], z.rt[m])
      <4>1. {o} \in SUBSET Live(w) /\ ~w.suspended
        BY <2>5, <2>7, <3>4 DEF Own, Beside
      <4> QED
        BY <3>4, <4>1, Retiring
    <3> HIDE DEF z
    <3>7. Holding(g, z)
      <4>1. \A m \in Routes : w.rt[m].mounted = x.rt[m].mounted /\ x.rt[m].mounted = g.rt[m].mounted
        BY <2>3, <2>4, <3>1, <3>4 DEF Like, Alike
      <4> QED
        BY <2>6, <3>5, <3>6, <4>1 DEF Holding, Kept
    <3>8. g' = Drained(z)
      BY <2>9, <3>2 DEF z
    <3> QED
      BY <3>6, <3>7, <3>8, DrainedStep, HeldOn, HoldingApplies
  <2>10. CASE /\ p.kind = "post" /\ ~same
              /\ g' = [x EXCEPT !.op[o].pc = "drafting", !.rt[r].held = o]
    <3> DEFINE s == [p EXCEPT !.pc = "drafting"]
               u == [d EXCEPT !.held = o]
    <3>1. /\ s \in OpRecord /\ s.live /\ s.key = r /\ s.pc = "drafting" /\ s.seen = p.seen
          /\ s.kind = p.kind /\ s.draft = p.draft /\ s.value = p.value
      <4>1. s \in OpRecord
        BY <2>1, OpFields
      <4> QED
        BY <1>2, <2>1, <4>1 DEF OpRecord
    <3>2. /\ u \in RouteRecord /\ u.held = o /\ Alike([d EXCEPT !.held = o], u)
          /\ u.away = d.away /\ u.concealed = d.concealed /\ u.seen = d.seen
          /\ u.load = d.load /\ u.behind = d.behind /\ u.mounted = d.mounted
          /\ u.shown = d.shown /\ u.given = d.given /\ u.rev = d.rev /\ u.current = d.current
          /\ u.consent = d.consent /\ u.baseline = d.baseline
      <4>1. u \in RouteRecord
        BY <2>3, RouteFields
      <4> QED
        BY <2>3, <4>1 DEF Alike, RouteRecord
    <3>3. g' = [x EXCEPT !.op[o] = s, !.rt[r] = u]
      BY <2>4, <2>10
    <3> HIDE DEF s, u
    <3>4. Asked(p) /\ Asked(s)
      BY <2>1, <2>10, <3>1 DEF Asked, Pending, Drafted
    <3>5. u.consent # "refresh" /\ Follows(s, u, o \in u.behind)
      BY <2>7, <2>10, <3>1, <3>2, <3>4 DEF Follows, Unchanged
    <3>6. /\ Steady(g') /\ Quiet(g') /\ g'.op[o] = s /\ \A m \in Ops \ {o} : g'.op[m] = x.op[m]
          /\ g'.rt[r] = u /\ \A m \in Routes \ {r} : g'.rt[m] = x.rt[m]
      <4>1. /\ u.behind \subseteq Own(x, r) /\ u.mounted /\ u.behind \subseteq x.rt[r].behind
            /\ u.load = x.rt[r].load /\ u.away = x.rt[r].away /\ u.seen = x.rt[r].seen
            /\ u.concealed = x.rt[r].concealed /\ s.seen <= x.hint /\ s.kind = "post"
            /\ u.load # None => u.shown = 0 /\ u.given = 0
        BY <2>3, <2>4, <2>5, <2>7, <2>10, <3>1, <3>2, ZenonT(60) DEF Sound
      <4>2. /\ g' \in Gates /\ Beside(x, g') /\ g'.active = x.active
            /\ g'.op[o] = s /\ \A m \in Ops \ {o} : g'.op[m] = x.op[m]
            /\ g'.rt[r] = u /\ \A m \in Routes \ {r} : g'.rt[m] = x.rt[m]
        <5> DEFINE Y == With(x, o, s, r, u)
        <5>1. x \in Gates /\ g' = Y
          BY <2>4, <3>3 DEF Steady, With
        <5>2. /\ Y \in Gates /\ Beside(x, Y) /\ Y.active = x.active
              /\ Y.op[o] = s /\ \A m \in Ops \ {o} : Y.op[m] = x.op[m]
              /\ Y.rt[r] = u /\ \A m \in Routes \ {r} : Y.rt[m] = x.rt[m]
          BY <2>1, <3>1, <3>2, <5>1, OpAndRoute
        <5> HIDE DEF Y
        <5> QED
          BY <5>1, <5>2
      <4> HIDE DEF p, r
      <4> QED
        BY <2>4, <2>5, <2>7, <3>1, <3>2, <3>5, <4>1, <4>2, <2>1, Handled
    <3>7. Holding(g, g')
      <4>1. \A m \in Ops : g'.op[m].pc = "laying" => g.op[m].pc = "laying"
        BY <2>4, <3>1, <3>6
      <4>2. \A m \in Routes : g'.rt[m].baseline = g.rt[m].baseline
        BY <2>3, <2>4, <3>2, <3>6
      <4> QED
        BY <4>1, <4>2 DEF Holding
    <3> QED
      BY <3>6, <3>7, HoldingApplies DEF IInv
  <2>11. CASE /\ p.kind = "get" \/ (p.kind \in Drafted /\ same)
              /\ g' = y
    <3>1. commit \in Values \cup {None} /\ 0 \in Values
      BY Bounds
    <3>2. /\ q \in OpRecord /\ q.live /\ q.key = r /\ q.pc = "laying" /\ q.seen = p.seen
          /\ q.kind = p.kind /\ q.commit = commit /\ q.value = 0
      <4> HIDE DEF commit
      <4>1. [p EXCEPT !.pc = "laying"] \in OpRecord
        BY <2>1, OpFields
      <4>2. [p EXCEPT !.pc = "laying", !.commit = commit] \in OpRecord
        BY <3>1, <4>1, OpFields
      <4>3. q \in OpRecord
        BY <3>1, <4>2, OpFields
      <4> QED
        BY <1>2, <2>1, <4>3 DEF OpRecord
    <3> DEFINE held == IF d.held = o THEN NoOp ELSE d.held
               shown == IF p.kind = "get" THEN d.shown ELSE value
               given == IF commit = None THEN d.given ELSE commit
    <3>3. held = NoOp
      BY <2>2, <2>3 DEF Sound
    <3>4. /\ held \in Ops \cup {NoOp} /\ shown \in Values /\ given \in Values
      <4>1. d.shown \in Values /\ d.given \in Values
        BY <2>3, SMTT(60) DEF RouteRecord
      <4> QED
        BY <3>1, <3>3, <4>1
    <3>5. /\ e \in RouteRecord /\ e.held = held /\ e.shown = shown /\ e.given = given
          /\ e.away = d.away /\ e.concealed = d.concealed /\ e.seen = d.seen
          /\ e.load = d.load /\ e.behind = d.behind /\ e.mounted = d.mounted
          /\ e.baseline = d.baseline
      <4>1. e = [d EXCEPT !.layout = TRUE, !.held = held, !.shown = shown, !.given = given]
        OBVIOUS
      <4> HIDE DEF held, shown, given, e
      <4>2. [d EXCEPT !.layout = TRUE] \in RouteRecord
        BY <2>3, RouteFields
      <4>3. [d EXCEPT !.layout = TRUE, !.held = held] \in RouteRecord
        BY <3>4, <4>2, RouteFields
      <4>4. [d EXCEPT !.layout = TRUE, !.held = held, !.shown = shown] \in RouteRecord
        BY <3>4, <4>3, RouteFields
      <4>5. e \in RouteRecord
        BY <3>4, <4>1, <4>4, RouteFields
      <4> QED
        BY <2>3, <4>1, <4>5 DEF RouteRecord
    <3>6. d.load # None => shown = 0 /\ given = 0 /\ (p.kind = "post" => p.value = 0)
      <4> SUFFICES ASSUME d.load # None
                   PROVE  shown = 0 /\ given = 0 /\ (p.kind = "post" => p.value = 0)
        OBVIOUS
      <4>1. d.shown = 0 /\ d.given = 0 /\ p.value = 0
        <5>1. d.shown = 0 /\ d.given = 0
          BY <2>7
        <5>2. p.value = 0
          <6> HIDE DEF p
          <6> QED
            BY <2>7 DEF Follows
        <5> QED
          BY <5>1, <5>2
      <4>2. value = 0
        BY <2>1, <4>1
      <4> QED
        BY <4>1, <4>2
    <3>7. p.kind \in Reloads => shown = given
      <4> SUFFICES ASSUME p.kind \in Reloads PROVE shown = given
        OBVIOUS
      <4>1. p.kind # "get" /\ p.kind # "post" /\ value # None
        BY Bounds DEF Reloads
      <4>2. commit = value
        BY <2>1, <4>1
      <4> QED
        BY <4>1, <4>2
    <3>8. commit # None => commit = given
      OBVIOUS
    <3> HIDE DEF q, e, commit, held, shown, given
    <3>9. Follows(q, e, o \in e.behind)
      BY <3>2, <3>5, <3>6, <3>7, <3>8 DEF Follows, Asked
    <3>10. /\ Steady(g') /\ Quiet(g') /\ g'.op[o] = q /\ \A m \in Ops \ {o} : g'.op[m] = x.op[m]
           /\ g'.rt[r] = e /\ \A m \in Routes \ {r} : g'.rt[m] = x.rt[m]
      <4>1. /\ e.behind \subseteq Own(x, r) /\ e.mounted /\ e.behind \subseteq x.rt[r].behind
            /\ e.load = x.rt[r].load /\ e.away = x.rt[r].away /\ e.seen = x.rt[r].seen
            /\ e.concealed = x.rt[r].concealed /\ q.seen <= x.hint /\ e.held = NoOp
            /\ e.load # None => e.shown = 0 /\ e.given = 0
        BY <2>3, <2>4, <2>5, <2>7, <3>2, <3>3, <3>5, <3>6, ZenonT(60) DEF Sound
      <4>2. /\ g' \in Gates /\ Beside(x, g') /\ g'.active = x.active
            /\ g'.op[o] = q /\ \A m \in Ops \ {o} : g'.op[m] = x.op[m]
            /\ g'.rt[r] = e /\ \A m \in Routes \ {r} : g'.rt[m] = x.rt[m]
        <5> DEFINE Y == With(x, o, q, r, e)
        <5>1. x \in Gates /\ g' = Y
          BY <2>4, <2>11 DEF Steady, With
        <5>2. /\ Y \in Gates /\ Beside(x, Y) /\ Y.active = x.active
              /\ Y.op[o] = q /\ \A m \in Ops \ {o} : Y.op[m] = x.op[m]
              /\ Y.rt[r] = e /\ \A m \in Routes \ {r} : Y.rt[m] = x.rt[m]
          BY <2>1, <3>2, <3>5, <5>1, OpAndRoute
        <5> HIDE DEF Y
        <5> QED
          BY <5>1, <5>2
      <4> HIDE DEF p, r
      <4> QED
        BY <2>4, <2>5, <2>7, <3>2, <3>5, <3>9, <4>1, <4>2, <2>1, Handled
    <3>11. p.kind \in Drafted => o \notin d0.behind
      <4> SUFFICES ASSUME p.kind \in Drafted, o \in d0.behind PROVE FALSE
        OBVIOUS
      <4>1. Asked(p) /\ same
        BY <2>1, <2>11 DEF Asked, Pending, Drafted, Reloads
      <4>2. p.draft < d.rev /\ d.rev = p.draft
        BY <2>3, <2>7, <4>1 DEF Follows, Unchanged
      <4>3. d.rev \in Nat
        BY <2>3 DEF RouteRecord
      <4> QED
        BY <4>2, <4>3
    <3>12. Applies(g, g')
      <4>1. ASSUME NEW m \in Routes PROVE g'.rt[m].baseline = g.rt[m].baseline
        BY <2>3, <2>4, <3>5, <3>10
      <4>2. ASSUME NEW m \in Ops, g.op[m].kind \in Drafted, g.op[m].pc # "laying",
                   g'.op[m].pc = "laying"
            PROVE  m \notin g.rt[g.op[m].key].behind
        <5>1. m = o
          BY <2>4, <3>10, <4>2
        <5> QED
          BY <3>11, <4>2, <5>1
      <4> QED
        BY <4>1, <4>2 DEF Applies
    <3> QED
      BY <3>10, <3>12 DEF IInv
  <2> QED
    BY <2>8, <2>9, <2>10, <2>11, SMTT(60)
<1> QED
  BY <1>1, <1>2, SMTT(60)

\* What drain() looks at in a route.
Still(d, e) ==
  /\ e.mounted = d.mounted /\ e.focused = d.focused /\ e.fail = d.fail /\ e.consent = d.consent
  /\ e.want = d.want /\ e.seen = d.seen /\ e.shown = d.shown /\ e.current = d.current
  /\ e.baseline = d.baseline

\* A gate stays at rest if what drain() looks at stays.
LEMMA QuietStill ==
  ASSUME NEW x, NEW y, Quiet(x), y.active = x.active, y.paused = x.paused,
         y.suspended = x.suspended, y.hint = x.hint, Queued(y) = Queued(x),
         Rests(x) => \A r \in Routes : y.rt[r].mounted => Still(x.rt[r], y.rt[r])
  PROVE  Quiet(y)
<1> SUFFICES ASSUME Rests(y)
             PROVE  /\ Queued(y) = {}
                    /\ \A r \in Routes : /\ ~Wants(y, r)
                                         /\ y.rt[r].mounted => y.rt[r].current = y.rt[r].shown
  BY DEF Quiet
<1>1. Rests(x)
  BY DEF Rests
<1>2. /\ Queued(x) = {}
      /\ \A r \in Routes : /\ ~Wants(x, r)
                           /\ x.rt[r].mounted => x.rt[r].current = x.rt[r].shown
  BY <1>1 DEF Quiet
<1>3. \A r \in Routes : y.rt[r].mounted => Still(x.rt[r], y.rt[r])
  BY <1>1
<1> QED
  BY <1>2, <1>3 DEF Still, Wants, Needed, Newer, Dirty

\* The user has answered once more.
LEMMA Answered ==
  ASSUME NEW x, Steady(x), ~x.suspended, x.choices < MaxChoices
  PROVE  LET y == [x EXCEPT !.choices = @ + 1] IN
         /\ Steady(y) /\ Live(y) = Live(x) /\ Queued(y) = Queued(x) /\ y.rt = x.rt
         /\ y.op = x.op /\ y.active = x.active /\ y.hint = x.hint /\ ~y.suspended
         /\ y.paused = x.paused /\ y.suspended = x.suspended
<1> DEFINE y == [x EXCEPT !.choices = @ + 1]
<1>1. x \in Gates
  BY DEF Steady
<1>2. x.choices + 1 \in 0 .. MaxChoices
  <2>1. x.choices \in 0 .. MaxChoices
    BY <1>1 DEF Gates
  <2> QED
    BY <2>1, Bounds
<1>3. /\ y \in Gates /\ y.op = x.op /\ y.active = x.active /\ y.rt = x.rt /\ y.hint = x.hint
      /\ y.actions = x.actions /\ y.changed = x.changed /\ ~y.suspended
      /\ y.paused = x.paused /\ y.suspended = x.suspended
  BY <1>1, <1>2 DEF Gates
<1> HIDE DEF y
<1>4. Steady(y) /\ Live(y) = Live(x) /\ Queued(y) = Queued(x)
  BY <1>3, Rerouted, SoundAlike DEF Steady
<1> QED
  BY <1>3, <1>4 DEF y

\* A reload of the screen in front, after which the gate is at work.
LEMMA RefreshingStep ==
  ASSUME NEW x, Steady(x), ~x.suspended, x.active = NoOp, NEW r \in Routes, x.rt[r].mounted,
         Holding(g, x), \A m \in Routes : x.rt[m].mounted = g.rt[m].mounted,
         g' = Refreshing(x, r)
  PROVE  IInv' /\ Holding(g, g')
<1>1. /\ Steady(g') /\ g'.active # NoOp
      /\ \A o \in Ops : g'.op[o] = x.op[o] \/ g'.op[o].pc \in {"loading", "navigating"}
      /\ \A m \in Routes : g'.rt[m] \in {x.rt[m], Track(x.rt[m])}
  BY RefreshingSteady
<1>2. Showing(x, g')
  BY <1>1, TrackShows DEF Steady
<1>3. Quiet(g')
  BY <1>1 DEF Quiet, Rests
<1> QED
  BY <1>1, <1>2, <1>3, HeldOn DEF IInv

\* The notice offers an update, or asks first.
LEMMA UpdateStep ==
  ASSUME IInv, NEW r \in Routes, Update(r)
  PROVE  IInv' /\ Holding(g, g')
<1> DEFINE d == g.rt[r]
           t == Track(d)
           x == [g EXCEPT !.rt[r] = t]
           w == [x EXCEPT !.choices = @ + 1]
           u == [t EXCEPT !.askedRev = t.rev, !.askedHeld = t.held]
           z == [w EXCEPT !.rt[r] = u]
<1>1. /\ Steady(g) /\ g \in Gates /\ ~g.suspended /\ d \in RouteRecord /\ d.mounted
      /\ Sound(g, r, d) /\ g.choices < MaxChoices
  BY DEF IInv, Steady, Update, Interactive, Gates
<1>2. /\ t \in RouteRecord /\ Sound(g, r, t) /\ t.mounted = d.mounted
      /\ t.baseline = d.baseline
      /\ t.held = d.held /\ (d.current = d.shown => t = d)
  BY <1>1, TrackIs, TrackSound
<1> HIDE DEF t
<1>3. /\ Steady(x) /\ x.rt[r] = t /\ \A m \in Routes \ {r} : x.rt[m] = g.rt[m]
      /\ x.op = g.op /\ x.active = g.active /\ Beside(g, x) /\ Queued(x) = Queued(g)
  BY <1>1, <1>2, Swapped
<1>4. \/ /\ t.consent = "refresh" \/ t.held = NoOp
         /\ g.active \in {NoOp, t.held}
         /\ g' = Refreshing(w, r)
      \/ g' = [x EXCEPT !.rt[r] = u, !.choices = @ + 1]
  <2> DEFINE X == [g EXCEPT !.rt[r] = Track(@)]
             Outcome(y, c) ==
               \/ /\ c.consent = "refresh" \/ c.held = NoOp
                  /\ g.active \in {NoOp, c.held}
                  /\ g' = Refreshing([y EXCEPT !.choices = @ + 1], r)
               \/ g' = [y EXCEPT !.rt[r] = [@ EXCEPT !.askedRev = c.rev, !.askedHeld = c.held],
                                 !.choices = @ + 1]
  <2>1. X = x /\ X.rt[r] = t
    BY <1>3 DEF x, t
  <2>2. Outcome(X, X.rt[r])
    BY DEF Update
  <2>3. Outcome(x, t)
    <3> HIDE DEF Outcome, X
    <3> QED
      BY <2>1, <2>2
  <2> QED
    BY <1>3, <2>3
<1> HIDE DEF x
<1>5. /\ Steady(w) /\ Queued(w) = Queued(g) /\ w.rt = x.rt /\ w.op = x.op /\ ~w.suspended
      /\ w.active = g.active /\ w.hint = g.hint /\ w.paused = g.paused
      /\ w.suspended = g.suspended
  <2>1. /\ ~x.suspended /\ x.choices < MaxChoices /\ x.hint = g.hint /\ x.paused = g.paused
        /\ x.suspended = g.suspended
    BY <1>1, <1>3 DEF Beside
  <2> QED
    BY <1>3, <2>1, Answered
<1>6. Holding(g, w) /\ \A m \in Routes : w.rt[m].mounted = g.rt[m].mounted
  <2> HIDE DEF w
  <2>1. \A m \in Routes : /\ w.rt[m].mounted = g.rt[m].mounted
                           /\ w.rt[m].baseline = g.rt[m].baseline
    BY <1>1, <1>2, <1>3, <1>5
  <2> QED
    BY <1>3, <1>5, <2>1 DEF Holding
<1>7. CASE /\ t.consent = "refresh" \/ t.held = NoOp
           /\ g.active \in {NoOp, t.held}
           /\ g' = Refreshing(w, r)
  <2>1. t.held = NoOp
    BY <1>2, <1>7 DEF Sound
  <2> HIDE DEF w
  <2>2. w.active = NoOp /\ w.rt[r].mounted
    BY <1>1, <1>2, <1>3, <1>5, <1>7, <2>1
  <2> QED
    BY <1>5, <1>6, <1>7, <2>2, RefreshingStep
<1>8. CASE g' = [x EXCEPT !.rt[r] = u, !.choices = @ + 1]
  <2>1. /\ u \in RouteRecord /\ Like(t, u) /\ Still(t, u) /\ u.concealed = t.concealed
    <3>1. t.rev \in Nat \cup {None, Void} /\ t.held \in Ops \cup {NoOp}
      BY <1>2 DEF RouteRecord
    <3>2. [t EXCEPT !.askedRev = t.rev] \in RouteRecord
      BY <1>2, <3>1, RouteFields
    <3>3. u \in RouteRecord
      BY <3>1, <3>2, RouteFields
    <3> QED
      BY <1>2, <3>3 DEF Like, Alike, Still, RouteRecord
  <2>2. g' = z
    BY <1>3, <1>8 DEF Steady, Gates
  <2> HIDE DEF u, w
  <2>3. Sound(w, r, u)
    <3>1. Sound(w, r, t)
      BY <1>3, <1>5 DEF Steady
    <3>2. u.away > 0 => u.concealed
      BY <2>1, <3>1 DEF Like, Sound
    <3> QED
      BY <2>1, <3>1, <3>2, SoundLike
  <2>4. /\ Steady(g') /\ Queued(g') = Queued(w) /\ g'.rt[r] = u /\ Beside(w, g')
        /\ \A m \in Routes \ {r} : g'.rt[m] = w.rt[m]
        /\ g'.op = w.op /\ g'.active = w.active
    <3>1. /\ Steady(z) /\ Queued(z) = Queued(w) /\ z.rt[r] = u /\ Beside(w, z)
          /\ \A m \in Routes \ {r} : z.rt[m] = w.rt[m]
          /\ z.op = w.op /\ z.active = w.active
      BY <1>5, <2>1, <2>3, Swapped
    <3> HIDE DEF z
    <3> QED
      BY <2>2, <3>1
  <2>5. ASSUME Rests(g), NEW m \in Routes PROVE Still(g.rt[m], g'.rt[m])
    <3>1. d.current = d.shown
      BY <1>1, <2>5 DEF IInv, Quiet
    <3>2. CASE m = r
      BY <1>2, <2>1, <2>4, <3>1, <3>2
    <3>3. CASE m # r
      BY <1>3, <1>5, <2>4, <3>3 DEF Still
    <3> QED
      BY <3>2, <3>3
  <2>6. Quiet(g')
    <3>1. g'.paused = g.paused /\ g'.suspended = g.suspended /\ g'.hint = g.hint
      BY <1>1, <1>5, <2>4 DEF Beside
    <3> QED
      BY <1>5, <2>4, <2>5, <3>1, QuietStill DEF IInv
  <2>7. Holding(g, g')
    BY <1>2, <1>3, <1>5, <2>1, <2>4 DEF Holding, Still
  <2> QED
    BY <2>4, <2>6, <2>7 DEF IInv
<1> QED
  BY <1>4, <1>7, <1>8

\* A dialog settles, for the draft it was asked about or for nothing.
LEMMA ConfirmAnswerStep ==
  ASSUME IInv, NEW r \in Routes, NEW accepted \in BOOLEAN, ConfirmAnswer(r, accepted)
  PROVE  IInv' /\ Holding(g, g')
<1> DEFINE d == g.rt[r]
           a == [d EXCEPT !.askedRev = None, !.askedHeld = NoOp]
           t == Track(a)
           x == [g EXCEPT !.rt[r] = t]
           held == d.askedHeld
           p == g.op[held]
           q == [p EXCEPT !.draft = t.rev, !.pc = "accepted"]
           u == [t EXCEPT !.behind = @ \ {held}]
<1>1. /\ Steady(g) /\ g \in Gates /\ ~g.suspended /\ d \in RouteRecord /\ Sound(g, r, d)
      /\ Working(g)
  <2>1. Steady(g) /\ g \in Gates /\ d \in RouteRecord /\ Sound(g, r, d) /\ Working(g)
    BY DEF IInv, Steady, Gates
  <2>2. ~g.suspended
    <3>1. d.askedRev # None /\ Fresh.askedRev = None
      BY DEF ConfirmAnswer, Fresh
    <3> QED
      BY <2>1, <3>1 DEF Steady, Over
  <2> QED
    BY <2>1, <2>2
<1>2. a \in RouteRecord /\ Like(d, a) /\ Still(d, a) /\ a.concealed = d.concealed
  <2>1. None \in Nat \cup {None, Void} /\ NoOp \in Ops \cup {NoOp}
    OBVIOUS
  <2>2. [d EXCEPT !.askedRev = None] \in RouteRecord
    BY <1>1, <2>1, RouteFields
  <2>3. a \in RouteRecord
    BY <2>1, <2>2, RouteFields
  <2> QED
    BY <1>1, <2>3 DEF Like, Alike, Still, RouteRecord
<1> HIDE DEF a
<1>3. /\ t \in RouteRecord /\ Sound(g, r, t) /\ t.mounted = d.mounted /\ t.baseline = d.baseline
      /\ t.current = t.shown /\ (d.current = d.shown => t = a)
  <2>1. a.away > 0 => a.concealed
    BY <1>1, <1>2 DEF Like, Sound
  <2>2. Sound(g, r, a)
    BY <1>1, <1>2, <2>1, SoundLike
  <2> QED
    BY <1>2, <2>2, TrackIs, TrackSound DEF Still
<1> HIDE DEF t
<1>4. /\ Steady(x) /\ x.rt[r] = t /\ \A m \in Routes \ {r} : x.rt[m] = g.rt[m]
      /\ x.op = g.op /\ x.active = g.active /\ Beside(g, x) /\ Queued(x) = Queued(g)
      /\ Live(x) = Live(g)
  BY <1>1, <1>3, Swapped
<1>5. Holding(g, x) /\ ~x.suspended /\ \A m \in Routes : x.rt[m].mounted = g.rt[m].mounted
  <2> HIDE DEF x
  <2> QED
    BY <1>1, <1>3, <1>4 DEF Holding, Beside
<1>6. \/ /\ held # NoOp /\ g.active = held /\ t.held = held
         /\ g' = [x EXCEPT !.op[held] = [@ EXCEPT !.draft = t.rev, !.pc = "accepted"],
                           !.rt[r].behind = @ \ {held}]
      \/ g.rt[r].mounted /\ g.active = NoOp /\ g' = Refreshing(x, r)
      \/ g' = x
  <2> DEFINE X == [g EXCEPT !.rt[r] = Track([@ EXCEPT !.askedRev = None, !.askedHeld = NoOp])]
             Outcome(y, c) ==
               \/ /\ held # NoOp /\ g.active = held /\ c.held = held
                  /\ g' = [y EXCEPT !.op[held] = [@ EXCEPT !.draft = c.rev, !.pc = "accepted"],
                                    !.rt[r].behind = @ \ {held}]
               \/ g.rt[r].mounted /\ g.active = NoOp /\ g' = Refreshing(y, r)
               \/ g' = y
  <2>1. X = x /\ X.rt[r] = t
    BY <1>4 DEF x, t, a
  <2>2. Outcome(X, X.rt[r])
    BY DEF ConfirmAnswer, Interactive
  <2>3. Outcome(x, t)
    <3> HIDE DEF Outcome, X
    <3> QED
      BY <2>1, <2>2
  <2> QED
    BY <2>3
<1> HIDE DEF x
<1>7. CASE /\ held # NoOp /\ g.active = held /\ t.held = held
           /\ g' = [x EXCEPT !.op[held] = [@ EXCEPT !.draft = t.rev, !.pc = "accepted"],
                             !.rt[r].behind = @ \ {held}]
  <2>1. /\ held \in Own(g, r) /\ p.kind = "post" /\ p.pc \in {"drafting", "accepted"}
        /\ t.consent # "refresh" /\ p \in OpRecord /\ held \in Ops /\ p.live /\ p.key = r
        /\ Follows(p, t, held \in t.behind) /\ p.seen <= g.hint
        /\ t.behind \subseteq Own(g, r) /\ t.mounted /\ t.rev \in Nat
    BY <1>1, <1>3, <1>7, ZenonT(60) DEF Sound, Own, Live, Gates, RouteRecord
  <2>2. /\ q \in OpRecord /\ q.live /\ q.key = r /\ q.pc = "accepted" /\ q.seen = p.seen
        /\ q.kind = "post" /\ q.draft = t.rev /\ q.value = p.value
    <3>1. [p EXCEPT !.draft = t.rev] \in OpRecord
      BY <2>1, OpFields
    <3>2. q \in OpRecord
      BY <3>1, OpFields
    <3> QED
      BY <2>1, <3>2, ZenonT(60) DEF OpRecord
  <2>3. /\ u \in RouteRecord /\ Still(t, u) /\ u.behind = t.behind \ {held} /\ u.held = t.held
        /\ u.load = t.load /\ u.given = t.given /\ u.rev = t.rev
        /\ u.away = t.away /\ u.concealed = t.concealed
    <3>1. t.behind \ {held} \in SUBSET Ops
      BY <1>3 DEF RouteRecord
    <3>2. u \in RouteRecord
      BY <1>3, <3>1, RouteFields
    <3> QED
      BY <1>3, <3>2 DEF Still, RouteRecord
  <2>4. g' = With(x, held, q, r, u)
    BY <1>4, <1>7 DEF With
  <2> DEFINE y == With(x, held, q, r, u)
  <2> HIDE DEF q, u, held, p
  <2>5. /\ y \in Gates /\ Beside(x, y) /\ y.active = x.active
        /\ y.op[held] = q /\ \A m \in Ops \ {held} : y.op[m] = x.op[m]
        /\ y.rt[r] = u /\ \A m \in Routes \ {r} : y.rt[m] = x.rt[m]
    <3>1. x \in Gates
      BY <1>4 DEF Steady
    <3> QED
      BY <2>1, <2>2, <2>3, <3>1, OpAndRoute
  <2> HIDE DEF y
  <2>6. Follows(q, u, held \in u.behind)
    BY <2>1, <2>2, <2>3, <1>3 DEF Follows, Asked, Still
  <2>7. Own(x, r) = Own(g, r)
    BY <1>4 DEF Own
  <2>8. /\ u.mounted /\ u.behind \subseteq Own(x, r) /\ u.load = x.rt[r].load
        /\ u.consent # "refresh" /\ u.behind \subseteq x.rt[r].behind
        /\ (u.load # None => u.shown = 0 /\ u.given = 0)
        /\ u.away = x.rt[r].away /\ u.concealed = x.rt[r].concealed /\ u.seen = x.rt[r].seen
        /\ q.seen <= x.hint /\ held \in Own(x, r) /\ x.active = held
    BY <1>3, <1>4, <1>7, <2>1, <2>2, <2>3, <2>7 DEF Still, Sound, Beside
  <2>9. Steady(y) /\ Quiet(y)
    BY <1>4, <1>5, <1>7, <2>2, <2>3, <2>5, <2>6, <2>8, Handled
  <2>10. Holding(g, y)
    BY <1>3, <1>4, <2>2, <2>3, <2>5 DEF Holding, Still
  <2> QED
    BY <2>4, <2>9, <2>10, SMTT(60) DEF IInv, y
<1>8. CASE g.rt[r].mounted /\ g.active = NoOp /\ g' = Refreshing(x, r)
  BY <1>4, <1>5, <1>8, RefreshingStep
<1>9. CASE g' = x
  <2>1. ASSUME Rests(g) PROVE \A m \in Routes : x.rt[m].mounted => Still(g.rt[m], x.rt[m])
    <3> SUFFICES ASSUME NEW m \in Routes, x.rt[m].mounted PROVE Still(g.rt[m], x.rt[m])
      OBVIOUS
    <3>1. CASE m = r
      BY <1>2, <1>3, <1>4, <2>1, <3>1 DEF IInv, Quiet
    <3>2. CASE m # r
      BY <1>4, <3>2 DEF Still
    <3> QED
      BY <3>1, <3>2
  <2>2. Quiet(x)
    BY <1>4, <1>5, <2>1, QuietStill DEF IInv, Beside
  <2> QED
    BY <1>4, <1>5, <1>9, <2>2 DEF IInv
<1> QED
  BY <1>6, <1>7, <1>8, <1>9

\* A route without operations is given up for a new document.
Given(d, c) == [d EXCEPT !.consent = c, !.concealed = TRUE]

\* No operation says anything of such a route.
LEMMA AgreedSound ==
  ASSUME NEW x, NEW r, NEW d \in RouteRecord, Sound(x, r, d), Own(x, r) = {},
         NEW c \in {"none", "refresh", "leave"}
  PROVE  LET e == Given(d, c) IN
         e \in RouteRecord /\ Sound(x, r, e) /\ e.mounted = d.mounted /\ e.baseline = d.baseline
<1> DEFINE e == Given(d, c)
<1>1. e \in RouteRecord
  <2>1. [d EXCEPT !.consent = c] \in RouteRecord
    BY RouteFields
  <2> QED
    BY <2>1, RouteFields DEF Given
<1>2. /\ e.mounted = d.mounted /\ e.baseline = d.baseline /\ e.held = d.held /\ e.behind = d.behind
      /\ e.shown = d.shown /\ e.given = d.given /\ e.load = d.load /\ e.away = d.away
      /\ e.seen = d.seen /\ e.concealed
  BY DEF Given, RouteRecord
<1> HIDE DEF e
<1>3. Sound(x, r, e)
  BY <1>2 DEF Sound
<1> QED
  BY <1>1, <1>2, <1>3 DEF e

\* A gate without operations, whose screens compare drafts with what they did.
LEMMA EmptyHolding ==
  ASSUME NEW x, NEW y, Steady(y), Live(y) = {},
         \A r \in Routes : y.rt[r].baseline = x.rt[r].baseline
  PROVE  Holding(x, y)
BY DEF Steady, Working, Live, Pending, Holding

\* The user gives the draft of the form up.
LEMMA ChooseStep ==
  ASSUME IInv, NEW back \in BOOLEAN, Choose(back)
  PROVE  IInv' /\ Holding(g, g')
<1> DEFINE f == [r \in Routes |-> IF r = "form" \/ back THEN Track(g.rt[r]) ELSE g.rt[r]]
           x0 == [g EXCEPT !.rt = f]
           held == f["form"].held
           x == IF held = NoOp THEN x0 ELSE Finished(x0, {held}, "quiet")
           w == [x EXCEPT !.choices = @ + 1]
           c == IF back THEN "leave" ELSE "refresh"
           e == Given(w.rt["form"], c)
           y == [w EXCEPT !.rt["form"] = e]
           v == [y EXCEPT !.stack = <<"list">>]
           a == Given(v.rt["list"], "refresh")
           z == [v EXCEPT !.rt["list"] = a]
<1>1. /\ Steady(g) /\ g \in Gates /\ ~g.suspended /\ g.choices < MaxChoices
      /\ \A r \in Routes : g.rt[r] \in RouteRecord
      /\ g.rt["form"].mounted /\ g.rt["form"].current = g.rt["form"].shown
      /\ "form" \in Routes /\ "list" \in Routes
  BY DEF IInv, Steady, Choose, Interactive, Gates, Routes
<1>2. /\ f \in [Routes -> RouteRecord] /\ f["form"] = g.rt["form"]
      /\ \A r \in Routes : /\ f[r] = g.rt[r] \/ f[r] = Track(g.rt[r])
                           /\ f[r].mounted = g.rt[r].mounted
                           /\ f[r].baseline = g.rt[r].baseline
  <2>1. \A r \in Routes : /\ Track(g.rt[r]) \in RouteRecord
                          /\ Track(g.rt[r]).mounted = g.rt[r].mounted
                          /\ Track(g.rt[r]).baseline = g.rt[r].baseline
                          /\ g.rt[r].current = g.rt[r].shown => Track(g.rt[r]) = g.rt[r]
    BY <1>1, TrackIs
  <2> QED
    BY <1>1, <2>1
<1>3. /\ Live(g) \subseteq {held}
      /\ LET Y == [x EXCEPT !.rt["form"] = Given(@, c), !.choices = @ + 1] IN
         g' = IF back
              THEN Drained([Y EXCEPT !.stack = <<"list">>, !.rt["list"] = Given(@, "refresh")])
              ELSE Refreshing(Y, "form")
  <2> DEFINE X == [g EXCEPT !.rt["form"] = Track(@), !.rt["list"] = IF back THEN Track(@) ELSE @]
             Y(u, h) == [IF h = NoOp THEN u ELSE Finished(u, {h}, "quiet") EXCEPT
                           !.rt["form"] = Given(@, c), !.choices = @ + 1]
             Outcome(u, h) ==
               /\ Live(g) \subseteq {h}
               /\ g' = IF back
                       THEN Drained([Y(u, h) EXCEPT !.stack = <<"list">>,
                                                    !.rt["list"] = Given(@, "refresh")])
                       ELSE Refreshing(Y(u, h), "form")
  <2>1. X = x0
    BY <1>1, ZenonT(60) DEF Gates, Routes
  <2>2. X.rt["form"].held = held
    BY <1>1, <2>1 DEF Gates
  <2>3. Outcome(X, X.rt["form"].held)
    BY DEF Choose, Given
  <2>4. Outcome(x0, held)
    <3> HIDE DEF Outcome, X, x0, held
    <3> QED
      BY <2>1, <2>2, <2>3
  <2> HIDE DEF held, x0, c
  <2> QED
    BY <2>4
<1> HIDE DEF f
<1>4. /\ Steady(x0) /\ Live(x0) = Live(g) /\ x0.rt = f /\ x0.op = g.op
      /\ x0.active = g.active /\ Beside(g, x0) /\ ~x0.suspended
  <2>1. /\ Steady(x0) /\ Live(x0) = Live(g) /\ x0.rt = f /\ x0.op = g.op
        /\ x0.active = g.active /\ Beside(g, x0)
    BY <1>1, <1>2, TrackedSteady
  <2> HIDE DEF x0
  <2> QED
    BY <1>1, <2>1 DEF Beside
<1> HIDE DEF x0
<1>5. /\ Steady(x) /\ Live(x) = {} /\ Beside(g, x)
      /\ \A r \in Routes : /\ x.rt[r].mounted = g.rt[r].mounted
                           /\ x.rt[r].baseline = g.rt[r].baseline
  <2>1. CASE held = NoOp
    <3>1. x = x0
      BY <2>1
    <3>2. Live(g) = {}
      BY <1>3, <2>1, Bounds DEF Live
    <3> QED
      BY <1>2, <1>4, <3>1, <3>2
  <2>2. CASE held # NoOp
    <3>1. held \in Live(g)
      <4>1. Sound(g, "form", g.rt["form"]) /\ held = g.rt["form"].held
        BY <1>1, <1>2 DEF Steady
      <4> QED
        BY <2>2, <4>1 DEF Sound, Own
    <3> HIDE DEF held
    <3>2. {held} \in SUBSET Live(x0) /\ {held} \in SUBSET Ops
      BY <1>4, <3>1 DEF Live
    <3>3. x = Finished(x0, {held}, "quiet")
      BY <2>2
    <3>4. Steady(x) /\ Live(x) = Live(x0) \ {held}
      BY <1>4, <3>2, <3>3, FinishedSteady, SMTT(60)
    <3>5. Beside(x0, x) /\ \A r \in Routes : Kept(x0.rt[r], x.rt[r])
      BY <1>4, <3>2, <3>3, Retiring, ZenonT(60)
    <3> HIDE DEF x
    <3> QED
      BY <1>2, <1>3, <1>4, <3>4, <3>5 DEF Kept, Beside
  <2> QED
    BY <2>1, <2>2
<1> HIDE DEF x, held
<1>6. ~x.suspended /\ x.choices < MaxChoices /\ x.active = NoOp
  BY <1>1, <1>5 DEF Beside, Steady, Working
<1>7. /\ Steady(w) /\ Live(w) = {} /\ w.rt = x.rt /\ w.op = x.op /\ w.active = NoOp
      /\ ~w.suspended
  BY <1>5, <1>6, Answered
<1> HIDE DEF c
<1>8. g' = IF back THEN Drained(z) ELSE Refreshing(y, "form")
  <2> DEFINE Y == [x EXCEPT !.rt["form"] = Given(@, c), !.choices = @ + 1]
             Z(u) == [u EXCEPT !.stack = <<"list">>, !.rt["list"] = Given(@, "refresh")]
  <2>1. x \in Gates
    BY <1>5 DEF Steady
  <2>2. Y = y
    BY <2>1 DEF Gates
  <2>3. Z(y) = z
    BY <2>1 DEF Gates
  <2>4. g' = IF back THEN Drained(Z(Y)) ELSE Refreshing(Y, "form")
    BY <1>3
  <2> HIDE DEF y, z, Y, Z
  <2> QED
    BY <2>2, <2>3, <2>4
<1> HIDE DEF w
<1>9. /\ w.rt["form"] \in RouteRecord /\ Sound(w, "form", w.rt["form"]) /\ Own(w, "form") = {}
      /\ c \in {"none", "refresh", "leave"}
  BY <1>1, <1>7 DEF Steady, Gates, Own, c
<1>10. /\ e \in RouteRecord /\ Sound(w, "form", e) /\ e.mounted = w.rt["form"].mounted
      /\ e.baseline = w.rt["form"].baseline
  BY <1>9, AgreedSound
<1> HIDE DEF e
<1>11. /\ Steady(y) /\ Live(y) = {} /\ y.rt["form"] = e /\ y.rt["list"] = w.rt["list"]
       /\ y.active = NoOp /\ Beside(w, y) /\ y.op = w.op
  BY <1>1, <1>7, <1>10, Swapped
<1>12. ~y.suspended /\ \A r \in Routes : /\ y.rt[r].mounted = g.rt[r].mounted
                                          /\ y.rt[r].baseline = g.rt[r].baseline
  <2> HIDE DEF y
  <2> QED
    BY <1>5, <1>7, <1>10, <1>11, Bounds DEF Beside
<1> HIDE DEF y
<1>13. CASE ~back
  <2>1. g' = Refreshing(y, "form") /\ Holding(g, y)
    BY <1>8, <1>11, <1>12, <1>13, EmptyHolding
  <2> QED
    BY <1>1, <1>11, <1>12, <2>1, RefreshingStep
<1>14. CASE back
  <2>1. /\ v \in Gates /\ ~v.suspended /\ v.op = y.op /\ v.active = y.active
        /\ v.actions = y.actions /\ v.changed <= v.hint /\ v.hint = y.hint /\ v.rt = y.rt
    BY <1>11, <1>12 DEF Steady, Gates
  <2> HIDE DEF v
  <2>2. \A r \in Routes : Sound(v, r, v.rt[r])
    BY <1>11, <2>1, SoundAlike DEF Steady
  <2>3. Steady(v) /\ Live(v) = {}
    BY <1>11, <2>1, <2>2, Rerouted
  <2>4. v.rt["list"] \in RouteRecord /\ Sound(v, "list", v.rt["list"]) /\ Own(v, "list") = {}
    BY <1>1, <2>1, <2>2, <2>3 DEF Gates, Own
  <2>5. /\ a \in RouteRecord /\ Sound(v, "list", a) /\ a.mounted = v.rt["list"].mounted
        /\ a.baseline = v.rt["list"].baseline
    BY <2>4, AgreedSound
  <2> HIDE DEF a
  <2>6. /\ Steady(z) /\ Live(z) = {} /\ z.rt["list"] = a /\ z.rt["form"] = v.rt["form"]
    BY <1>1, <2>1, <2>3, <2>5, Swapped
  <2>7. g' = Drained(z)
    BY <1>8, <1>14
  <2> HIDE DEF z
  <2>8. \A r \in Routes : z.rt[r].baseline = g.rt[r].baseline
    BY <1>12, <2>1, <2>5, <2>6, Bounds
  <2> QED
    BY <2>6, <2>7, <2>8, EmptyHolding, DrainedStep, HeldOn
<1> QED
  BY <1>13, <1>14, SMTT(60)

\* What a layout may do alone: the baseline of a screen moves to what was given.
Proven(x, y) ==
  /\ \A o \in Ops : y.op[o].pc = "laying" => x.op[o].pc = "laying"
  /\ \A r \in Routes :
       x.rt[r].mounted /\ y.rt[r].mounted /\ y.rt[r].baseline # x.rt[r].baseline
         => y.rt[r].baseline = x.rt[r].given

\* The record of a screen that has been laid out, and what it is in full.
Laid(e, d, front, seen, consent, moved, settled, committed) ==
  [e EXCEPT
     !.mounted = TRUE, !.focused = front, !.layout = FALSE, !.seen = seen,
     !.load = IF g.paused THEN @ ELSE None,
     !.want = IF d.mounted THEN @ ELSE g.hint,
     !.clash = IF d.mounted THEN @ ELSE g.changed,
     !.concealed = consent # "none" \/ (@ /\ g.hint > seen),
     !.consent = IF moved THEN "none" ELSE consent,
     !.current = d.shown, !.rev = IF moved THEN @ + 1 ELSE @,
     !.baseline = IF settled THEN d.shown ELSE @,
     !.askedRev = IF committed /\ @ # None THEN Void ELSE @,
     !.away = IF seen >= @ THEN 0 ELSE @]

IsLaid(l, e, seen, consent, moved, settled) ==
  /\ l \in RouteRecord /\ l.mounted /\ l.seen = seen
  /\ l.load = (IF g.paused THEN e.load ELSE None)
  /\ l.concealed = (consent # "none" \/ (e.concealed /\ g.hint > seen))
  /\ l.consent = (IF moved THEN "none" ELSE consent)
  /\ l.current = e.shown /\ l.rev = (IF moved THEN e.rev + 1 ELSE e.rev)
  /\ l.baseline = (IF settled THEN e.shown ELSE e.baseline)
  /\ l.away = (IF seen >= e.away THEN 0 ELSE e.away)
  /\ l.shown = e.shown /\ l.given = e.given /\ l.held = e.held /\ l.behind = e.behind

\* The record has its type.
LEMMA LaidIs ==
  ASSUME g \in Gates, NEW e \in RouteRecord, NEW d, d.shown = e.shown,
         NEW front \in BOOLEAN, NEW seen \in 0 .. MaxHints,
         NEW consent \in {"none", "refresh", "leave"}, NEW moved \in BOOLEAN,
         NEW settled \in BOOLEAN, NEW committed \in BOOLEAN
  PROVE  IsLaid(Laid(e, d, front, seen, consent, moved, settled, committed),
                e, seen, consent, moved, settled)
<1> DEFINE l == Laid(e, d, front, seen, consent, moved, settled, committed)
<1>1. /\ g.hint \in 0 .. MaxHints /\ g.changed \in 0 .. MaxHints
      /\ Void \in Nat \cup {None, Void} /\ None \in None .. MaxHints /\ 0 \in 0 .. MaxHints
  BY Bounds DEF Gates
<1>2. /\ l.mounted /\ l.seen = seen
      /\ l.load = (IF g.paused THEN e.load ELSE None)
      /\ l.concealed = (consent # "none" \/ (e.concealed /\ g.hint > seen))
      /\ l.consent = (IF moved THEN "none" ELSE consent)
      /\ l.current = e.shown /\ l.rev = (IF moved THEN e.rev + 1 ELSE e.rev)
      /\ l.baseline = (IF settled THEN e.shown ELSE e.baseline)
      /\ l.away = (IF seen >= e.away THEN 0 ELSE e.away)
      /\ l.shown = e.shown /\ l.given = e.given /\ l.held = e.held /\ l.behind = e.behind
  BY DEF Laid, RouteRecord
<1>3. l \in RouteRecord
  <2> DEFINE load == IF g.paused THEN e.load ELSE None
             want == IF d.mounted THEN e.want ELSE g.hint
             clash == IF d.mounted THEN e.clash ELSE g.changed
             concealed == consent # "none" \/ (e.concealed /\ g.hint > seen)
             agreed == IF moved THEN "none" ELSE consent
             rev == IF moved THEN e.rev + 1 ELSE e.rev
             baseline == IF settled THEN d.shown ELSE e.baseline
             asked == IF committed /\ e.askedRev # None THEN Void ELSE e.askedRev
             away == IF seen >= e.away THEN 0 ELSE e.away
             e1 == [e EXCEPT !.mounted = TRUE]
             e2 == [e1 EXCEPT !.focused = front]
             e3 == [e2 EXCEPT !.layout = FALSE]
             e4 == [e3 EXCEPT !.seen = seen]
             e5 == [e4 EXCEPT !.load = load]
             e6 == [e5 EXCEPT !.want = want]
             e7 == [e6 EXCEPT !.clash = clash]
             e8 == [e7 EXCEPT !.concealed = concealed]
             e9 == [e8 EXCEPT !.consent = agreed]
             e10 == [e9 EXCEPT !.current = d.shown]
             e11 == [e10 EXCEPT !.rev = rev]
             e12 == [e11 EXCEPT !.baseline = baseline]
             e13 == [e12 EXCEPT !.askedRev = asked]
             e14 == [e13 EXCEPT !.away = away]
  <2>1. /\ load \in None .. MaxHints /\ want \in 0 .. MaxHints /\ clash \in 0 .. MaxHints
        /\ concealed \in BOOLEAN /\ agreed \in {"none", "refresh", "leave"} /\ rev \in Nat
        /\ baseline \in Values /\ asked \in Nat \cup {None, Void} /\ away \in 0 .. MaxHints
        /\ d.shown \in Values
    BY <1>1 DEF RouteRecord
  <2>2. l = e14
    BY DEF Laid
  <2> HIDE DEF l, load, want, clash, concealed, agreed, rev, baseline, asked, away
  <2>3. e1 \in RouteRecord
    BY <2>1, RouteFields
  <2> HIDE DEF e1
  <2>4. e2 \in RouteRecord
    BY <2>3, <2>1, RouteFields
  <2> HIDE DEF e2
  <2>5. e3 \in RouteRecord
    BY <2>4, <2>1, RouteFields
  <2> HIDE DEF e3
  <2>6. e4 \in RouteRecord
    BY <2>5, <2>1, RouteFields
  <2> HIDE DEF e4
  <2>7. e5 \in RouteRecord
    BY <2>6, <2>1, RouteFields
  <2> HIDE DEF e5
  <2>8. e6 \in RouteRecord
    BY <2>7, <2>1, RouteFields
  <2> HIDE DEF e6
  <2>9. e7 \in RouteRecord
    BY <2>8, <2>1, RouteFields
  <2> HIDE DEF e7
  <2>10. e8 \in RouteRecord
    BY <2>9, <2>1, RouteFields
  <2> HIDE DEF e8
  <2>11. e9 \in RouteRecord
    BY <2>10, <2>1, RouteFields
  <2> HIDE DEF e9
  <2>12. e10 \in RouteRecord
    BY <2>11, <2>1, RouteFields
  <2> HIDE DEF e10
  <2>13. e11 \in RouteRecord
    BY <2>12, <2>1, RouteFields
  <2> HIDE DEF e11
  <2>14. e12 \in RouteRecord
    BY <2>13, <2>1, RouteFields
  <2> HIDE DEF e12
  <2>15. e13 \in RouteRecord
    BY <2>14, <2>1, RouteFields
  <2> HIDE DEF e13
  <2>16. e14 \in RouteRecord
    BY <2>15, <2>1, RouteFields
  <2> QED
    BY <2>16, <2>2
<1> HIDE DEF l
<1>4. IsLaid(l, e, seen, consent, moved, settled)
  BY <1>2, <1>3 DEF IsLaid
<1> QED
  BY <1>4 DEF l

\* A laid out record is sound when it acknowledges a document that is not newer
\* than the last hint, and a consent that was there.
LEMMA LaidSound ==
  ASSUME g \in Gates, NEW x, x.hint = g.hint, NEW r, NEW e \in RouteRecord, Sound(x, r, e),
         NEW seen \in 0 .. MaxHints, seen <= g.hint,
         NEW consent, consent = "none" \/ consent = e.consent,
         NEW moved \in BOOLEAN, moved => e.current # e.shown, NEW settled \in BOOLEAN,
         NEW l, IsLaid(l, e, seen, consent, moved, settled)
  PROVE  Sound(x, r, l)
<1>1. /\ l.mounted /\ l.seen = seen
      /\ l.load = (IF g.paused THEN e.load ELSE None)
      /\ l.concealed = (consent # "none" \/ (e.concealed /\ g.hint > seen))
      /\ l.consent = (IF moved THEN "none" ELSE consent)
      /\ l.current = e.shown /\ l.rev = (IF moved THEN e.rev + 1 ELSE e.rev)
      /\ l.away = (IF seen >= e.away THEN 0 ELSE e.away)
      /\ l.shown = e.shown /\ l.given = e.given /\ l.held = e.held /\ l.behind = e.behind
  BY DEF IsLaid
<1>2. /\ e.away \in 0 .. MaxHints /\ e.rev \in Nat /\ g.hint \in 0 .. MaxHints
      /\ e.load \in None .. MaxHints
  BY DEF RouteRecord, Gates
<1>3. l.held # NoOp => /\ l.held = x.active /\ l.held \in Own(x, r) /\ l.consent # "refresh"
                       /\ x.op[l.held].kind = "post"
                       /\ x.op[l.held].pc \in {"drafting", "accepted"}
  BY <1>1 DEF Sound
<1>4. ASSUME NEW o \in Own(x, r) PROVE Follows(x.op[o], l, o \in l.behind)
  <2> DEFINE p == x.op[o]
  <2>1. Follows(p, e, o \in e.behind)
    BY DEF Sound
  <2> HIDE DEF p
  <2>2. Asked(p) => /\ l.current = l.shown /\ l.rev = e.rev
                    /\ p.kind = "post" /\ p.draft # l.rev => l.consent # "refresh"
    BY <1>1, <2>1 DEF Follows
  <2>3. l.load # None => e.load # None
    BY <1>1
  <2> QED
    BY <1>1, <2>1, <2>2, <2>3 DEF Follows, p
<1>5. l.away <= x.hint /\ (l.away > 0 => l.concealed)
  <2>1. e.away <= g.hint /\ (e.away > 0 => e.concealed)
    BY DEF Sound
  <2>2. CASE seen >= e.away
    BY <1>1, <1>2, <2>2
  <2>3. CASE ~(seen >= e.away)
    <3>1. l.away = e.away /\ seen < e.away /\ g.hint > seen /\ e.concealed
      BY <1>1, <1>2, <2>1, <2>3
    <3>2. l.concealed
      BY <1>1, <3>1
    <3> QED
      BY <2>1, <3>1, <3>2
  <2> QED
    BY <2>2, <2>3
<1>6. /\ l.load # None => l.shown = 0 /\ l.given = 0
      /\ l.seen <= x.hint /\ l.load <= x.hint
  BY <1>1, <1>2, Bounds DEF Sound
<1> QED
  BY <1>1, <1>3, <1>4, <1>5, <1>6 DEF Sound

\* A layout: the only step that moves a baseline.
LEMMA LayoutStep ==
  ASSUME IInv, NEW r \in Routes, Layout(r)
  PROVE  IInv' /\ Proven(g, g')
<1> DEFINE d == g.rt[r]
           front == Top(g) = r
           acks == IF g.paused THEN {}
                   ELSE {o \in Live(g) : g.op[o].key = r /\ g.op[o].pc = "laying"}
           whole == {o \in acks : g.op[o].kind \in Reloads}
           committed == whole # {} \/ (~g.paused /\ d.load # None)
           saved == \E o \in acks : Saved(g.op[o], d)
           x == Finished(g, acks, "ack")
           seen == IF whole # {} THEN g.op[CHOOSE o \in whole : TRUE].seen
                   ELSE IF committed THEN d.load ELSE d.seen
           consent == IF committed THEN "none" ELSE d.consent
           moved == d.mounted /\ d.current # d.shown
           settled == ~d.mounted \/ committed \/ saved
           laid == Laid(x.rt[r], d, front, seen, consent, moved, settled, committed)
           y == [x EXCEPT !.rt[r] = laid]
           gone == IF front THEN {}
                   ELSE {o \in Live(y) : y.op[o].key = r /\ y.op[o].kind = "refresh"}
<1>1. /\ Steady(g) /\ g \in Gates /\ ~g.suspended /\ d \in RouteRecord /\ Sound(g, r, d)
      /\ \A m \in Routes : g.rt[m] \in RouteRecord
  <2>1. g.stack # <<>>
    <3>1. InStack(r) /\ Len(<<>>) = 0
      BY ZenonT(60) DEF Layout, LayoutDue
    <3> QED
      BY <3>1 DEF InStack
  <2> QED
    BY <2>1 DEF IInv, Steady, Over, Gates
<1>2. acks \in SUBSET Own(g, r) /\ acks \in SUBSET Live(g) /\ acks \in SUBSET Ops
  BY DEF Own, Live
<1>3. /\ Steady(x) /\ ~x.suspended /\ Beside(g, x) /\ Holding(g, x)
      /\ \A m \in Routes : Kept(g.rt[m], x.rt[m])
  BY <1>1, <1>2, Retiring, ZenonT(60)
<1>4. /\ x.rt[r] \in RouteRecord /\ Sound(x, r, x.rt[r]) /\ Kept(d, x.rt[r])
      /\ x.hint = g.hint
  <2> HIDE DEF x
  <2> QED
    BY <1>3 DEF Steady, Gates, Beside
<1>5. g' = Drained(Finished(y, gone, "gone"))
  BY ZenonT(60) DEF Layout, Laid
<1>6. /\ front \in BOOLEAN /\ moved \in BOOLEAN /\ settled \in BOOLEAN /\ committed \in BOOLEAN
      /\ seen \in 0 .. MaxHints /\ seen <= g.hint
      /\ consent \in {"none", "refresh", "leave"}
      /\ consent = "none" \/ consent = x.rt[r].consent
      /\ moved => x.rt[r].current # x.rt[r].shown
  <2>1. /\ d.load \in None .. MaxHints /\ d.seen \in 0 .. MaxHints
        /\ d.load <= g.hint /\ d.seen <= g.hint
    BY <1>1 DEF RouteRecord, Sound
  <2>2. ASSUME NEW o \in whole PROVE g.op[o].seen \in 0 .. MaxHints /\ g.op[o].seen <= g.hint
    <3>1. o \in Own(g, r) /\ o \in Ops
      BY <1>2
    <3> QED
      BY <1>1, <3>1 DEF Sound, Gates, OpRecord
  <2>3. whole # {} => (CHOOSE o \in whole : TRUE) \in whole
    OBVIOUS
  <2> HIDE DEF whole
  <2>4. seen \in 0 .. MaxHints /\ seen <= g.hint
    BY <2>1, <2>2, <2>3, Bounds
  <2>5. /\ d.consent \in {"none", "refresh", "leave"} /\ x.rt[r].consent = d.consent
        /\ x.rt[r].current = d.current /\ x.rt[r].shown = d.shown
    BY <1>1, <1>4, ZenonT(60) DEF RouteRecord, Kept
  <2> QED
    BY <2>4, <2>5, ZenonT(60)
<1>7. d.mounted /\ settled => d.shown = d.given
  <2>1. ASSUME whole # {} PROVE d.shown = d.given
    <3> PICK o \in whole : TRUE
      BY <2>1
    <3>1. o \in Own(g, r) /\ g.op[o].pc = "laying" /\ g.op[o].kind \in Reloads
      BY <1>2
    <3> QED
      BY <1>1, <3>1 DEF Sound, Follows
  <2>2. ASSUME d.load # None PROVE d.shown = d.given
    BY <1>1, <2>2 DEF Sound
  <2>3. ASSUME saved PROVE d.shown = d.given
    <3> PICK o \in acks : Saved(g.op[o], d)
      BY <2>3
    <3>1. o \in Own(g, r) /\ g.op[o].pc = "laying" /\ g.op[o].commit = d.shown
      BY <1>2 DEF Saved
    <3>2. d.shown # None
      BY <1>1, Bounds DEF RouteRecord
    <3> QED
      BY <1>1, <3>1, <3>2 DEF Sound, Follows
  <2> QED
    BY <2>1, <2>2, <2>3
<1> HIDE DEF front, seen, consent, moved, settled, committed, x
<1>8. /\ laid \in RouteRecord /\ Sound(x, r, laid)
      /\ laid.baseline = (IF settled THEN x.rt[r].shown ELSE x.rt[r].baseline)
  <2>1. d.shown = x.rt[r].shown
    BY <1>4 DEF Kept
  <2>2. IsLaid(laid, x.rt[r], seen, consent, moved, settled)
    BY <1>1, <1>4, <1>6, <2>1, LaidIs
  <2> HIDE DEF laid
  <2>3. Sound(x, r, laid)
    BY <1>1, <1>4, <1>6, <2>2, LaidSound
  <2> QED
    BY <2>2, <2>3 DEF IsLaid
<1> HIDE DEF laid
<1>9. /\ Steady(y) /\ y.rt[r] = laid /\ \A m \in Routes \ {r} : y.rt[m] = x.rt[m]
      /\ y.op = x.op /\ ~y.suspended
  <2>1. /\ Steady(y) /\ y.rt[r] = laid /\ \A m \in Routes \ {r} : y.rt[m] = x.rt[m]
        /\ y.op = x.op /\ Beside(x, y)
    BY <1>3, <1>8, Swapped
  <2> HIDE DEF y
  <2> QED
    BY <1>3, <2>1 DEF Beside
<1> HIDE DEF y
<1>10. gone \in SUBSET Live(y)
  OBVIOUS
<1> HIDE DEF gone
<1> DEFINE z == Finished(y, gone, "gone")
<1>11. Steady(z) /\ Holding(y, z) /\ \A m \in Routes : Kept(y.rt[m], z.rt[m])
  BY <1>9, <1>10, Retiring
<1>12. g' = Drained(z)
  BY <1>5
<1> HIDE DEF z
<1>13. IInv' /\ Showing(z, g')
  BY <1>11, <1>12, DrainedStep
<1>14. \A m \in Routes : g'.rt[m].baseline = y.rt[m].baseline
  BY <1>11, <1>13 DEF Showing, Shows, Kept
<1>15. ASSUME NEW m \in Routes, g.rt[m].mounted, g'.rt[m].baseline # g.rt[m].baseline
       PROVE  g'.rt[m].baseline = g.rt[m].given
  <2>1. CASE m = r
    BY <1>4, <1>7, <1>8, <1>9, <1>14, <1>15, <2>1 DEF Kept
  <2>2. CASE m # r
    BY <1>3, <1>9, <1>14, <1>15, <2>2 DEF Kept
  <2> QED
    BY <2>1, <2>2
<1>16. \A o \in Ops : g'.op[o].pc = "laying" => g.op[o].pc = "laying"
  BY <1>3, <1>9, <1>11, <1>13, SMTT(60) DEF Holding, Showing
<1> QED
  BY <1>13, <1>15, <1>16 DEF Proven

-----------------------------------------------------------------------------
(* The theorems.                                                           *)

\* What a step may do to the documents: no late answer is applied, and a baseline
\* moves to what was given.
Keeps(x, y) ==
  /\ \A o \in Ops : x.op[o].kind \in Drafted /\ x.op[o].pc # "laying" /\ y.op[o].pc = "laying"
                      => o \notin x.rt[x.op[o].key].behind
  /\ \A r \in Routes :
       x.rt[r].mounted /\ y.rt[r].mounted /\ y.rt[r].baseline # x.rt[r].baseline
         => y.rt[r].baseline = x.rt[r].given

\* Each kind of step keeps that.
LEMMA KeepsIs ==
  ASSUME NEW x, NEW y, Applies(x, y) \/ Holding(x, y) \/ Proven(x, y)
  PROVE  Keeps(x, y)
BY DEF Applies, Holding, Proven, Keeps

\* What the user dispatches.
LEMMA DispatchStep ==
  ASSUME IInv, Dispatch
  PROVE  IInv' /\ Holding(g, g')
<1> "list" \in Routes /\ "form" \in Routes /\ FALSE \in BOOLEAN /\ TRUE \in BOOLEAN
  BY DEF Routes
<1>1. CASE Enqueue("list", "reload", FALSE, FALSE)
  BY <1>1, EnqueueStep
<1>2. CASE Enqueue("list", "open", FALSE, FALSE)
  BY <1>2, EnqueueStep
<1>3. ASSUME NEW replace \in BOOLEAN, Enqueue("list", "get", TRUE, replace)
      PROVE  IInv' /\ Holding(g, g')
  BY <1>3, EnqueueStep
<1>4. ASSUME NEW replace \in BOOLEAN, Enqueue("form", "post", TRUE, replace)
      PROVE  IInv' /\ Holding(g, g')
  BY <1>4, EnqueueStep
<1>5. CASE Enqueue("form", "back", FALSE, FALSE)
  BY <1>5, EnqueueStep
<1> QED
  BY <1>1, <1>2, <1>3, <1>4, <1>5 DEF Dispatch

\* Every step keeps the invariant, and does no more to the documents.
LEMMA StepKeeps ==
  ASSUME IInv, [Next]_g
  PROVE  IInv' /\ Keeps(g, g')
<1>1. ASSUME NEW r \in Routes, Layout(r) PROVE IInv' /\ Keeps(g, g')
  BY <1>1, LayoutStep, KeepsIs
<1>2. ASSUME NEW r \in Routes, Unmount(r) PROVE IInv' /\ Keeps(g, g')
  BY <1>2, UnmountStep, KeepsIs
<1>3. CASE Dispatch
  BY <1>3, DispatchStep, KeepsIs
<1>4. ASSUME NEW r \in Routes, NEW value \in Values, Edit(r, value)
      PROVE  IInv' /\ Keeps(g, g')
  BY <1>4, EditStep, KeepsIs
<1>5. ASSUME NEW o \in Ops, NEW value \in Values, NEW whole \in BOOLEAN,
             Deliver(o, value, whole)
      PROVE  IInv' /\ Keeps(g, g')
  BY <1>5, DeliverStep, KeepsIs
<1>6. ASSUME NEW o \in Ops, Fail(o) PROVE IInv' /\ Keeps(g, g')
  BY <1>6, FailStep, KeepsIs
<1>7. ASSUME NEW o \in Ops, Navigate(o) PROVE IInv' /\ Keeps(g, g')
  BY <1>7, NavigateStep, KeepsIs
<1>8. CASE UserBack
  BY <1>8, UserBackStep, KeepsIs
<1>9. ASSUME NEW back \in BOOLEAN, Choose(back) PROVE IInv' /\ Keeps(g, g')
  BY <1>9, ChooseStep, KeepsIs
<1>10. ASSUME NEW r \in Routes, Update(r) PROVE IInv' /\ Keeps(g, g')
  BY <1>10, UpdateStep, KeepsIs
<1>11. ASSUME NEW r \in Routes, NEW accepted \in BOOLEAN, ConfirmAnswer(r, accepted)
       PROVE  IInv' /\ Keeps(g, g')
  BY <1>11, ConfirmAnswerStep, KeepsIs
<1>12. ASSUME NEW cause \in {"invalidate", "resync", "local"}, NEW affects \in BOOLEAN,
              Hint(cause, affects)
       PROVE  IInv' /\ Keeps(g, g')
  BY <1>12, HintStep, KeepsIs
<1>13. CASE Pause
  BY <1>13, PauseStep, KeepsIs
<1>14. CASE Resume
  BY <1>14, ResumeStep, KeepsIs
<1>15. CASE Reset
  BY <1>15, ResetStep, KeepsIs
<1>16. CASE ResumeEpoch
  BY <1>16, ResumeEpochStep, KeepsIs
<1>17. CASE UNCHANGED g
  BY <1>17 DEF IInv, Keeps
<1> QED
  BY <1>1, <1>2, <1>3, <1>4, <1>5, <1>6, <1>7, <1>8, <1>9, <1>10, <1>11, <1>12, <1>13,
     <1>14, <1>15, <1>16, <1>17 DEF Next

\* The invariant holds in every state of the gate.
THEOREM Invariance == Spec => []IInv
<1>1. IInv /\ [Next]_g => IInv'
  BY StepKeeps
<1> QED
  BY InitIs, <1>1, PTL DEF Spec

\* Every field of the gate, its routes and its operations keeps its type, and no
\* change is newer than the last hint (gate.tsx:917).
THEOREM TypeCorrect == Spec => []TypeOK
<1>1. IInv => TypeOK
  BY DEF IInv, Steady, TypeOK
<1> QED
  BY Invariance, <1>1, PTL

\* One operation is at work, the other ones that are owned wait in the queue, and a
\* retired coroutine never does any of the gate's work (gate.tsx:411, :502, :522).
THEOREM OneAtATimeAlways == Spec => []OneAtATime
<1>1. ASSUME IInv PROVE OneAtATime
  <2>1. Working(g) /\ \A r \in Routes : Sound(g, r, g.rt[r])
    BY <1>1 DEF IInv, Steady
  <2>2. g.active # NoOp => g.active \in Live(g)
    BY <2>1 DEF Working
  <2>3. \A o \in Ops : g.op[o].pc \in {"laying", "drafting", "navigating"} => g.active = o
    BY <2>1 DEF Working, Pending
  <2>4. \A o \in Live(g) : g.active = o \/ g.op[o].pc = "queued"
    BY <2>1 DEF Working, Live
  <2>5. ASSUME NEW o \in Live(g), NEW q \in Live(g), o # q,
               {g.op[o].pc, g.op[q].pc} = {"queued"}
        PROVE  g.op[o].turn # g.op[q].turn
    <3>1. g.op[o].pc = "queued" /\ g.op[q].pc = "queued"
      BY <2>5
    <3>2. o \in Queued(g) /\ q \in Queued(g)
      BY <3>1 DEF Queued
    <3> QED
      BY <2>1, <2>5, <3>2 DEF Working
  <2>6. \A r \in Routes : g.rt[r].held # NoOp => g.rt[r].held = g.active
    BY <2>1 DEF Sound
  <2> QED
    BY <2>2, <2>3, <2>4, <2>5, <2>6 DEF OneAtATime
<1> QED
  BY Invariance, <1>1, PTL

\* The gate does not rest while an operation is queued or a screen in front is to be
\* reloaded: whoever retires the active one goes on with the next (gate.tsx:527).
THEOREM NeverIdleAlways == Spec => []NeverIdle
<1>1. IInv => NeverIdle
  BY DEF IInv, Quiet, Rests, NeverIdle
<1> QED
  BY Invariance, <1>1, PTL

\* A clean list that a hint reached out of sight is concealed until it has been
\* reloaded, whatever kept the gate busy meanwhile (gate.tsx:525, :721, :748).
THEOREM StaleConcealedAlways == Spec => []StaleConcealed
<1>1. ASSUME IInv PROVE StaleConcealed
  <2> DEFINE d == g.rt["list"]
  <2>1. /\ d \in RouteRecord /\ Sound(g, "list", d)
    BY <1>1 DEF IInv, Steady, Gates, Routes
  <2>2. d.seen \in 0 .. MaxHints /\ d.away \in 0 .. MaxHints /\ (d.away > 0 => d.concealed)
    BY <2>1 DEF RouteRecord, Sound
  <2> HIDE DEF d
  <2>3. d.seen < d.away => d.concealed
    BY <2>2
  <2> QED
    BY <2>3 DEF StaleConcealed, Hidden, d
<1> QED
  BY Invariance, <1>1, PTL

\* No answer that was asked for before the last edit of a form replaces its fields,
\* unless the user has agreed (gate.tsx:417, :504).
THEOREM DraftsKeptAlways == Spec => DraftsKept
<1> DEFINE A == \A o \in Ops :
                  LET p == g.op[o] IN
                  p.kind \in Drafted /\ p.pc # "laying" /\ g'.op[o].pc = "laying"
                    => o \notin g.rt[p.key].behind
<1>1. IInv /\ [Next]_g => [A]_g
  BY StepKeeps DEF Keeps
<1>2. (DraftsKept) <=> [][A]_g
  BY DEF DraftsKept
<1> HIDE DEF A
<1> QED
  BY Invariance, <1>1, <1>2, PTL DEF Spec

\* The baseline of a mounted screen moves to nothing but what the server gave for
\* the whole of the form (drafts.ts:30, gate.tsx:716).
THEOREM BaselineProvenAlways == Spec => BaselineProven
<1> DEFINE A == \A r \in Routes :
                  g.rt[r].mounted /\ g'.rt[r].mounted /\ g'.rt[r].baseline # g.rt[r].baseline
                    => g'.rt[r].baseline = g.rt[r].given
<1>1. IInv /\ [Next]_g => [A]_g
  BY StepKeeps DEF Keeps
<1>2. BaselineProven <=> [][A]_g
  BY DEF BaselineProven
<1> HIDE DEF A
<1> QED
  BY Invariance, <1>1, <1>2, PTL DEF Spec
=============================================================================
