---------------------------- MODULE SessionProofs ----------------------------
(***************************************************************************)
(* The safety of the session supervisor, for any number of logins,         *)
(* requests, clears, pauses and server sessions.                           *)
(***************************************************************************)
EXTENDS SessionProperties, SequenceTheorems, TLAPS

\* From x to y the screen keeps its owner ...
Stays(x, y) ==
  /\ y.generation = x.generation /\ y.identity = x.identity
  /\ y.everConfirmed = x.everConfirmed /\ y.startupRevoked = x.startupRevoked
  /\ y.recovery = NoRecovery <=> x.recovery = NoRecovery
  /\ y.auth \in {x.auth, NoOp}
  /\ y.availability = "foreground" =>
       x.availability = "foreground" \/ x.identity # NoIdentity \/ x.auth # NoOp

\* ... or is taken from it.
Revoked(x, y) ==
  /\ y.generation = x.generation + 1 /\ y.auth = NoOp /\ y.startupRevoked /\ ~Owned(y)

-----------------------------------------------------------------------------
\* Each field of a supervisor may be assigned a value of its type.
LEMMA Fields ==
  ASSUME NEW x \in Supervisor
  PROVE  /\ \A v \in Nat : [x EXCEPT !.generation = v] \in Supervisor
         /\ \A v \in Availability : [x EXCEPT !.availability = v] \in Supervisor
         /\ \A v \in Ops \cup {NoOp} : [x EXCEPT !.auth = v] \in Supervisor
         /\ \A v \in OptIdentity : [x EXCEPT !.identity = v] \in Supervisor
         /\ \A v \in OptRecovery : [x EXCEPT !.recovery = v] \in Supervisor
         /\ \A v \in BOOLEAN : /\ [x EXCEPT !.active = v] \in Supervisor
                               /\ [x EXCEPT !.everConfirmed = v] \in Supervisor
                               /\ [x EXCEPT !.startupRevoked = v] \in Supervisor
                               /\ [x EXCEPT !.rootReady = v] \in Supervisor
         /\ x.generation \in Nat /\ x.identity \in OptIdentity /\ x.recovery \in OptRecovery
BY DEF Supervisor

\* The absent identity and the absent capability are of their types.
LEMMA Absent ==
  /\ NoIdentity \in OptIdentity /\ NoRecovery \in OptRecovery /\ NoOp \in Ops \cup {NoOp}
  /\ \A b \in Bindings, g \in Nat : /\ [binding |-> b, generation |-> g] \in OptIdentity
                                   /\ [binding |-> b, generation |-> g] # NoIdentity
BY SessionConstants DEF OptIdentity, OptRecovery, NoIdentity

\* protect() raises the shield and changes no owner (session.ts:51).
LEMMA ProtectedSound ==
  ASSUME NEW x, Sound(x)
  PROVE  Sound(Protected(x)) /\ Stays(x, Protected(x)) /\ Protected(x).auth = x.auth
BY DEF Sound, Stays, Owned, Protected, Supervisor, Availability

\* invalidate() leaves nobody behind (session.ts:53).
LEMMA InvalidatedSound ==
  ASSUME NEW x, Sound(x)
  PROVE  Sound(Invalidated(x)) /\ Revoked(x, Invalidated(x))
<1> USE Fields, Absent
<1> DEFINE y1 == [x EXCEPT !.generation = @ + 1]
           y2 == [y1 EXCEPT !.identity = NoIdentity]
           y3 == [y2 EXCEPT !.startupRevoked = TRUE]
           y4 == [y3 EXCEPT !.rootReady = FALSE]
           y5 == [y4 EXCEPT !.auth = NoOp]
           y == [y5 EXCEPT !.recovery = NoRecovery]
<1>1. y1 \in Supervisor
  BY DEF Sound
<1>2. y2 \in Supervisor
  BY <1>1
<1>3. y3 \in Supervisor
  BY <1>2
<1>4. y4 \in Supervisor
  BY <1>3
<1>5. y5 \in Supervisor
  BY <1>4
<1>6. y \in Supervisor
  BY <1>5
<1>7. /\ y.generation = x.generation + 1 /\ y.auth = NoOp /\ y.startupRevoked
      /\ y.identity = NoIdentity /\ y.recovery = NoRecovery /\ ~y.rootReady
  BY DEF Sound, Supervisor
<1>8. Invalidated(x) = Protected(y)
  BY DEF Invalidated
<1> HIDE DEF y
<1>9. Protected(y) \in Supervisor /\ Protected(y).availability # "foreground"
  BY <1>6 DEF Protected, Supervisor, Availability
<1>10. /\ Protected(y).generation = x.generation + 1 /\ Protected(y).auth = NoOp
       /\ Protected(y).startupRevoked /\ Protected(y).identity = NoIdentity
       /\ Protected(y).recovery = NoRecovery /\ ~Protected(y).rootReady
  BY <1>6, <1>7 DEF Protected, Supervisor
<1> QED
  BY <1>8, <1>9, <1>10 DEF Sound, Revoked, Owned

\* publish() makes a sound owner of any binding (session.ts:119).
LEMMA PublishedSound ==
  ASSUME NEW x, Sound(x), NEW b \in Bindings
  PROVE  LET y == Published(x, b) IN
         /\ Sound(y) /\ y.generation = x.generation + 1 /\ y.auth = NoOp
         /\ y.identity.binding = b
<1> USE Fields, Absent
<1> DEFINE n == [binding |-> b, generation |-> x.generation + 1]
           y1 == [x EXCEPT !.generation = @ + 1]
           y2 == [y1 EXCEPT !.identity = n]
           y3 == [y2 EXCEPT !.everConfirmed = TRUE]
           y4 == [y3 EXCEPT !.rootReady = FALSE]
           y5 == [y4 EXCEPT !.recovery = NoRecovery]
           y6 == [y5 EXCEPT !.auth = NoOp]
           y == [y6 EXCEPT !.availability = IF x.active THEN "foreground" ELSE "paused"]
<1>0. n \in OptIdentity /\ n # NoIdentity /\ n.binding = b /\ n.generation = x.generation + 1
  BY DEF Sound
<1>a. y = Published(x, b)
  BY DEF Published
<1> HIDE DEF n
<1>1. y1 \in Supervisor
  BY DEF Sound
<1>2. y2 \in Supervisor
  BY <1>0, <1>1
<1>3. y3 \in Supervisor
  BY <1>2
<1>4. y4 \in Supervisor
  BY <1>3
<1>5. y5 \in Supervisor
  BY <1>4
<1>6. y6 \in Supervisor
  BY <1>5
<1>7. y \in Supervisor
  <2>1. (IF x.active THEN "foreground" ELSE "paused") \in Availability
    BY DEF Availability
  <2> QED
    BY <1>6, <2>1
<1>8. /\ y.generation = x.generation + 1 /\ y.auth = NoOp /\ y.everConfirmed
      /\ y.identity = n /\ y.recovery = NoRecovery /\ ~y.rootReady
      /\ y.availability = (IF x.active THEN "foreground" ELSE "paused")
      /\ y.active = x.active
  BY DEF Sound, Supervisor
<1> HIDE DEF y
<1> QED
  BY <1>0, <1>a, <1>7, <1>8 DEF Sound, Owned

\* publish() of binding b, whether the app's adapter takes the news or throws.
Announced(b) == {Published(s, b), Protected(Published(s, b))}

\* Either way the owner is a sound one (session.ts:123).
LEMMA AnnouncedSound ==
  ASSUME Sound(s), NEW b \in Bindings, NEW y \in Announced(b)
  PROVE  /\ Sound(y) /\ y.generation = s.generation + 1 /\ y.auth = NoOp
         /\ y.identity.binding = b /\ y.everConfirmed
<1> DEFINE x == Published(s, b)
<1>1. /\ Sound(x) /\ x.generation = s.generation + 1 /\ x.auth = NoOp
      /\ x.identity.binding = b
  BY PublishedSound
<1>2. x.everConfirmed
  BY DEF Published, Sound, Supervisor
<1>3. y = x \/ y = Protected(x)
  BY DEF Announced
<1> HIDE DEF x
<1> QED
  BY <1>1, <1>2, <1>3, ProtectedSound DEF Stays

\* Only the news of a new identity can go wrong.
LEMMA ToldCases ==
  ASSUME Sound(s)
  PROVE  /\ \A y \in Told(s) : y = s
         /\ \A y \in Told(Protected(s)) : y = Protected(s)
         /\ \A y \in Told(Invalidated(s)) : y = Invalidated(s)
         /\ \A b : Told(Published(s, b)) \subseteq Announced(b)
<1>1. Protected(s).identity = s.identity /\ Invalidated(s).identity = NoIdentity
  BY DEF Protected, Invalidated, Sound, Supervisor
<1> QED
  BY <1>1 DEF Told, Announced

\* confirmation() returns a binding or nothing (session.ts:108).
LEMMA ConfirmedType ==
  ASSUME TypeOK, NEW t \in Tasks
  PROVE  Confirmed(t) \in OptBinding
BY DEF TypeOK, Confirmed, OptBinding

\* reconcile() keeps the owner or takes it away (session.ts:127).
LEMMA ReconciledSound ==
  ASSUME TypeOK, Sound(s), NEW t \in Tasks, NEW r \in BOOLEAN
  PROVE  LET y == Reconciled(s, t, r) IN
         Sound(y) /\ (Revoked(s, y) \/ (Stays(s, y) /\ y.auth = s.auth))
<1>1. Sound(Protected(s)) /\ Stays(s, Protected(s)) /\ Protected(s).auth = s.auth
  BY ProtectedSound
<1>2. Sound(Invalidated(s)) /\ Revoked(s, Invalidated(s))
  BY InvalidatedSound
<1>3. Sound(s) /\ Stays(s, s)
  BY DEF Stays
<1>4. CASE Confirmed(t) # NoBinding /\ Confirmed(t) = s.identity.binding
  <2> DEFINE y == [s EXCEPT !.availability = "foreground"]
  <2>1. s.identity # NoIdentity
    BY <1>4 DEF NoIdentity
  <2>2. s.active /\ s.auth = NoOp => Sound(y) /\ Stays(s, y) /\ y.auth = s.auth
    BY <2>1 DEF Sound, Stays, Owned, Supervisor, Availability
  <2> QED
    BY <1>1, <1>3, <1>4, <2>2 DEF Reconciled, Confirmed
<1>5. CASE ~(Confirmed(t) # NoBinding /\ Confirmed(t) = s.identity.binding)
  BY <1>1, <1>2, <1>3, <1>5 DEF Reconciled, Confirmed
<1> QED
  BY <1>4, <1>5

\* expected() that hears something else keeps the owner or takes it away
\* (session.ts:144).
LEMMA RefusedSound ==
  ASSUME TypeOK, Sound(s), NEW t \in Tasks, NEW o, NEW b,
         ~Accepts(t, o, b)
  PROVE  LET y == Refused(s, t, o, b) IN
         Sound(y) /\ (Revoked(s, y) \/ (Stays(s, y) /\ y.auth = s.auth))
<1>1. Sound(Protected(s)) /\ Stays(s, Protected(s)) /\ Protected(s).auth = s.auth
  BY ProtectedSound
<1>2. Sound(Invalidated(s)) /\ Revoked(s, Invalidated(s))
  BY InvalidatedSound
<1>3. Sound(s) /\ Stays(s, s)
  BY DEF Stays
<1> QED
  BY <1>1, <1>2, <1>3 DEF Refused, Accepts

\* A capability stays one whether it is confirmed or not.
LEMMA ConfirmedSound ==
  ASSUME NEW x, Sound(x), x.recovery # NoRecovery, NEW v \in BOOLEAN
  PROVE  LET y == [x EXCEPT !.recovery.confirmed = v] IN
         /\ Sound(y) /\ Stays(x, y) /\ y.auth = x.auth
         /\ y.active = x.active /\ y.availability = x.availability
<1> DEFINE r == [x.recovery EXCEPT !.confirmed = v]
           y == [x EXCEPT !.recovery = r]
<1>1. /\ r \in OptRecovery /\ r.generation = x.recovery.generation
      /\ r.binding = x.recovery.binding /\ x.recovery.binding \in Bindings
  BY DEF Sound, Supervisor, OptRecovery
<1>2. r # NoRecovery
  BY <1>1, SessionConstants DEF NoRecovery
<1>3. y = [x EXCEPT !.recovery.confirmed = v]
  OBVIOUS
<1> HIDE DEF r
<1>4. y \in Supervisor
  BY <1>1, Fields DEF Sound
<1>5. /\ y.generation = x.generation /\ y.identity = x.identity
      /\ y.everConfirmed = x.everConfirmed /\ y.startupRevoked = x.startupRevoked
      /\ y.rootReady = x.rootReady /\ y.auth = x.auth /\ y.recovery = r
      /\ y.active = x.active /\ y.availability = x.availability
  BY DEF Sound, Supervisor
<1> HIDE DEF y
<1> QED
  BY <1>1, <1>2, <1>3, <1>4, <1>5 DEF Sound, Stays, Owned

\* expected() that hears its binding confirms a capability (session.ts:149).
LEMMA AcceptedSound ==
  ASSUME Sound(s), NEW o
  PROVE  /\ Sound(Accepted(s, o)) /\ Stays(s, Accepted(s, o))
         /\ Accepted(s, o).auth = s.auth /\ Accepted(s, o).active = s.active
         /\ Accepted(s, o).availability = s.availability
<1>1. CASE s.recovery # NoRecovery
  <2> DEFINE y == [s EXCEPT !.recovery.confirmed = TRUE]
  <2>1. /\ Sound(y) /\ Stays(s, y) /\ y.auth = s.auth
        /\ y.active = s.active /\ y.availability = s.availability
    BY <1>1, ConfirmedSound
  <2>2. Accepted(s, o) \in {s, y}
    BY DEF Accepted
  <2> HIDE DEF y
  <2> QED
    BY <2>1, <2>2 DEF Stays
<1>2. CASE s.recovery = NoRecovery
  BY <1>2 DEF Accepted, Stays
<1> QED
  BY <1>1, <1>2

\* bootstrap() keeps the owner or publishes what it observed (session.ts:206).
LEMMA AdoptedCases ==
  ASSUME TypeOK, Sound(s), NEW t \in Tasks, NEW y \in Told(Adopted(s, t))
  PROVE  \/ y \in {s, Protected(s)}
         \/ /\ conf[t].gen = s.generation /\ Confirmed(t) \in Bindings
            /\ y \in Announced(Confirmed(t))
<1>1. CASE Confirmed(t) = NoBinding \/ ~s.active
  <2>1. Adopted(s, t) \in {s, Protected(s)}
    BY <1>1 DEF Adopted, Confirmed
  <2> QED
    BY <2>1, ToldCases
<1>2. CASE Confirmed(t) # NoBinding /\ s.active
  <2>1. Confirmed(t) \in Bindings /\ conf[t].gen = s.generation
    BY <1>2, ConfirmedType DEF OptBinding, Confirmed
  <2>2. Adopted(s, t) = Published(s, Confirmed(t))
    BY <1>2, <2>1 DEF Adopted
  <2> QED
    BY <2>1, <2>2, ToldCases
<1> QED
  BY <1>1, <1>2

\* Either way it leaves a sound supervisor.
LEMMA AdoptedSound ==
  ASSUME TypeOK, Sound(s), NEW t \in Tasks, NEW y \in Told(Adopted(s, t))
  PROVE  /\ Sound(y)
         /\ \/ Stays(s, y) /\ y.auth = s.auth
            \/ /\ conf[t].gen = s.generation /\ y.auth = NoOp
               /\ y.generation = s.generation + 1
<1>1. Sound(Protected(s)) /\ Stays(s, Protected(s)) /\ Protected(s).auth = s.auth
  BY ProtectedSound
<1>2. Sound(s) /\ Stays(s, s)
  BY DEF Stays
<1> QED
  BY <1>1, <1>2, AdoptedCases, AnnouncedSound

\* A step that hands the screen to nobody new, asks for no confirmation of a
\* first observation, a resumed owner or a recovery, sends no POST and admits
\* nothing keeps the invariant.
LEMMA Carried ==
  ASSUME IInv, TypeOK', Sound(s'), Stays(s, s') \/ Revoked(s, s'),
         \A t \in Tasks : conf'[t].gen <= s.generation,
         \A t \in {"start", "resume", "recover"} :
           conf'[t].busy => conf[t].busy /\ conf'[t].gen = conf[t].gen,
         resume' = resume \/ resume'.pc \notin {"bootstrap", "recovery"},
         \A o \in Ops :
           /\ s'.auth = o => op'[o].gen = op[o].gen
           /\ Submitted(o)' => /\ Submitted(o)
                               /\ s.auth = o => s'.auth = o \/ Revoked(s, s')
           /\ op'[o].run = "answered" \/ op'[o].accepted => op'[o].binding \in Bindings
           /\ op'[o].proc # "idle" => op'[o].accepted
           /\ op'[o].run = "drain" => op[o].run = "drain" /\ op'[o].drain = op[o].drain,
         inFlight' \subseteq inFlight, nativeEffects' \subseteq nativeEffects
  PROVE  Suspended' /\ Operating' /\ PostIsExclusive' /\ IdentityExpected
<1>1. s.generation \in Nat /\ s'.generation \in Nat /\ s.auth \in Ops \cup {NoOp}
  BY DEF IInv, Sound, Supervisor
<1>2. \A t \in Tasks : conf[t].gen \in Nat /\ conf'[t].gen \in Nat
  BY DEF IInv, TypeOK
<1>3. ASSUME NEW t \in {"start", "resume", "recover"}, Live(t)'
      PROVE  Live(t) /\ Stays(s, s')
  <2>1. t \in Tasks /\ conf[t].busy /\ conf[t].gen = s'.generation
    BY <1>3 DEF Live, Tasks
  <2>2. conf[t].gen <= s.generation
    BY <2>1 DEF IInv, Suspended
  <2> QED
    BY <1>1, <1>2, <2>1, <2>2 DEF Live, Revoked, Stays
<1>4. Suspended'
  <2>1. \A t \in Tasks : conf'[t].gen <= s'.generation
    BY <1>1, <1>2 DEF Stays, Revoked
  <2>2. Live("start")' \/ (resume'.pc = "bootstrap" /\ Live("resume")') =>
          ~s'.everConfirmed /\ ~s'.startupRevoked
    BY <1>3 DEF IInv, Suspended, Stays
  <2>3. Live("recover")' => ~Owned(s') /\ s'.startupRevoked
    BY <1>3 DEF IInv, Suspended, Stays, Owned
  <2>4. resume'.pc = "recovery" /\ Live("resume")' =>
          s'.recovery # NoRecovery /\ s'.auth = NoOp /\ s'.availability # "foreground"
    BY <1>3 DEF IInv, Suspended, Stays, Sound
  <2> QED
    BY <2>1, <2>2, <2>3, <2>4 DEF Suspended
<1>o. Operating'
  <2>1. s'.auth # NoOp => op'[s'.auth].gen = s'.generation
    BY <1>1 DEF IInv, Operating, Stays, Revoked
  <2> SUFFICES ASSUME NEW o \in Ops
               PROVE  /\ op'[o].run = "answered" \/ op'[o].accepted => op'[o].binding \in Bindings
                      /\ op'[o].proc # "idle" => op'[o].accepted
                      /\ Submitted(o)' => s'.auth = o \/ (~Owned(s') /\ s'.startupRevoked)
                      /\ Submitted(o)' => ~Live("recover")'
                      /\ s'.auth = o /\ op'[o].run = "drain" =>
                           inFlight' \cup nativeEffects' \subseteq op'[o].drain
    BY <2>1 DEF Operating
  <2>2. Submitted(o)' => s'.auth = o \/ (~Owned(s') /\ s'.startupRevoked)
    BY DEF IInv, Operating, Stays, Revoked, Owned
  <2>3. Submitted(o)' => ~Live("recover")'
    BY <1>3 DEF IInv, Operating
  <2>4. s'.auth = o /\ op'[o].run = "drain" =>
          inFlight' \cup nativeEffects' \subseteq op'[o].drain
    <3> SUFFICES ASSUME s'.auth = o, op'[o].run = "drain"
                 PROVE  inFlight' \cup nativeEffects' \subseteq op'[o].drain
      OBVIOUS
    <3>1. s.auth = o
      BY <1>1, SessionConstants DEF Stays, Revoked
    <3> QED
      BY <3>1 DEF IInv, Operating
  <2> QED
    BY <2>2, <2>3, <2>4
<1>5. PostIsExclusive'
  BY DEF PostIsExclusive, IInv, Submitted
<1>6. IdentityExpected
  BY DEF IdentityExpected, Stays, Revoked, Owned
<1> QED
  BY <1>4, <1>o, <1>5, <1>6

\* Each field of an operation may be assigned a value of its type.
LEMMA OpFields ==
  ASSUME NEW x \in Operation
  PROVE
    /\ \A v \in {"none", "drain", "posted", "answered", "broken", "failing",
                     "settling", "done"} :
         [x EXCEPT !.run = v] \in Operation
    /\ \A v \in {"idle", "effect", "pre", "final"} :
         [x EXCEPT !.proc = v] \in Operation
    /\ \A v \in {"none", "queued", "waiting", "pre", "writing", "compensating",
                     "settled"} :
         [x EXCEPT !.job = v] \in Operation
    /\ \A v \in {"none", "stored", "failed", "stale"} :
         [x EXCEPT !.result = v] \in Operation
    /\ \A v \in {"none", "success", "panel"} :
         [x EXCEPT !.answer = v] \in Operation
    /\ \A v \in {"none", "save", "clear"} :
         [x EXCEPT !.effect = v] \in Operation
    /\ \A v \in OptBinding :
         [x EXCEPT !.expected = v] \in Operation
    /\ \A v \in OptBinding :
         [x EXCEPT !.binding = v] \in Operation
    /\ \A v \in Nat :
         [x EXCEPT !.gen = v] \in Operation
    /\ \A v \in SUBSET (Requests \cup Clears) :
         [x EXCEPT !.drain = v] \in Operation
    /\ \A v \in BOOLEAN :
         [x EXCEPT !.logout = v] \in Operation
    /\ \A v \in BOOLEAN :
         [x EXCEPT !.neutral = v] \in Operation
    /\ \A v \in BOOLEAN :
         [x EXCEPT !.resumeConfirmed = v] \in Operation
    /\ \A v \in BOOLEAN :
         [x EXCEPT !.expired = v] \in Operation
    /\ \A v \in BOOLEAN :
         [x EXCEPT !.accepted = v] \in Operation
    /\ \A v \in BOOLEAN :
         [x EXCEPT !.needsPreconfirm = v] \in Operation
<1>1. \A v \in {"none", "drain", "posted", "answered", "broken", "failing",
                     "settling", "done"} :
       [x EXCEPT !.run = v] \in Operation
  BY DEF Operation
<1>2. \A v \in {"idle", "effect", "pre", "final"} :
       [x EXCEPT !.proc = v] \in Operation
  BY DEF Operation
<1>3. \A v \in {"none", "queued", "waiting", "pre", "writing", "compensating",
                     "settled"} :
       [x EXCEPT !.job = v] \in Operation
  BY DEF Operation
<1>4. \A v \in {"none", "stored", "failed", "stale"} :
       [x EXCEPT !.result = v] \in Operation
  BY DEF Operation
<1>5. \A v \in {"none", "success", "panel"} :
       [x EXCEPT !.answer = v] \in Operation
  BY DEF Operation
<1>6. \A v \in {"none", "save", "clear"} :
       [x EXCEPT !.effect = v] \in Operation
  BY DEF Operation
<1>7. \A v \in OptBinding :
       [x EXCEPT !.expected = v] \in Operation
  BY DEF Operation
<1>8. \A v \in OptBinding :
       [x EXCEPT !.binding = v] \in Operation
  BY DEF Operation
<1>9. \A v \in Nat :
       [x EXCEPT !.gen = v] \in Operation
  BY DEF Operation
<1>10. \A v \in SUBSET (Requests \cup Clears) :
       [x EXCEPT !.drain = v] \in Operation
  BY DEF Operation
<1>11. \A v \in BOOLEAN :
       [x EXCEPT !.logout = v] \in Operation
  BY DEF Operation
<1>12. \A v \in BOOLEAN :
       [x EXCEPT !.neutral = v] \in Operation
  BY DEF Operation
<1>13. \A v \in BOOLEAN :
       [x EXCEPT !.resumeConfirmed = v] \in Operation
  BY DEF Operation
<1>14. \A v \in BOOLEAN :
       [x EXCEPT !.expired = v] \in Operation
  BY DEF Operation
<1>15. \A v \in BOOLEAN :
       [x EXCEPT !.accepted = v] \in Operation
  BY DEF Operation
<1>16. \A v \in BOOLEAN :
       [x EXCEPT !.needsPreconfirm = v] \in Operation
  BY DEF Operation
<1> QED
  BY <1>1, <1>2, <1>3, <1>4, <1>5, <1>6, <1>7, <1>8, <1>9, <1>10, <1>11, <1>12,
     <1>13, <1>14, <1>15, <1>16

\* The same for a request.
LEMMA ReqFields ==
  ASSUME NEW x \in HxmlRequest
  PROVE  /\ \A v \in {"new", "sent", "answered", "reconcile", "ready", "open",
                     "delivered", "done"} :
              [x EXCEPT !.pc = v] \in HxmlRequest
         /\ \A v \in Nat : [x EXCEPT !.gen = v] \in HxmlRequest
         /\ \A v \in BOOLEAN : [x EXCEPT !.neutral = v] \in HxmlRequest
         /\ \A v \in OptBinding \cup {Denied} : [x EXCEPT !.claimed = v] \in HxmlRequest
BY DEF HxmlRequest

\* The binding of a session is one (session_contract.py:29).
LEMMA BindingTypes == \A n \in Bindings : BindingOf(n) \in Bindings
BY SessionConstants DEF BindingOf, Bindings

\* A supervisor that is left alone stays sound and keeps its owner.
LEMMA Untouched ==
  ASSUME IInv, UNCHANGED s
  PROVE  Sound(s') /\ Stays(s, s') /\ ~Revoked(s, s')
BY DEF IInv, Sound, Stays, Revoked, Supervisor

\* The server and the network move no owner.
LEMMA ServeObservationKeeps ==
  ASSUME IInv, NEW t \in Tasks, ServeObservation(t)
  PROVE  IInv' /\ IdentityExpected
<1>1. TypeOK'
  <2>1. BindingOf(cookie) \in OptBinding
    BY BindingTypes DEF IInv, TypeOK, OptBinding
  <2> QED
    BY <2>1 DEF IInv, TypeOK, ServeObservation
<1>2. \A u \in Tasks : conf'[u].gen = conf[u].gen /\ conf'[u].busy = conf[u].busy
  BY DEF IInv, TypeOK, ServeObservation
<1>3. Suspended' /\ Operating' /\ PostIsExclusive' /\ IdentityExpected
  BY <1>1, <1>2, Untouched, Carried DEF ServeObservation, IInv, Suspended, Operating,
     Submitted, Tasks, inFlight, nativeEffects
<1> QED
  BY <1>1, <1>3, Untouched DEF IInv, ServeObservation

\* The server answers a request.
LEMMA ServeRequestKeeps ==
  ASSUME IInv, NEW r \in Requests, ServeRequest(r)
  PROVE  IInv' /\ IdentityExpected
<1>1. TypeOK'
  <2>1. PICK claimed \in {BindingOf(cookie), Denied, NoBinding} :
          req' = [req EXCEPT ![r].pc = "answered", ![r].claimed = claimed]
    BY DEF ServeRequest
  <2>2. claimed \in OptBinding \cup {Denied}
    BY BindingTypes DEF IInv, TypeOK, OptBinding
  <2>3. [req[r] EXCEPT !.pc = "answered", !.claimed = claimed] \in HxmlRequest
    <3>1. [req[r] EXCEPT !.pc = "answered"] \in HxmlRequest
      BY ReqFields DEF IInv, TypeOK
    <3> QED
      BY <2>2, <3>1, ReqFields
  <2> QED
    BY <2>1, <2>3 DEF IInv, TypeOK, ServeRequest
<1>2. inFlight' \subseteq inFlight /\ nativeEffects' \subseteq nativeEffects
  BY DEF IInv, TypeOK, ServeRequest, inFlight, nativeEffects
<1>3. Suspended' /\ Operating' /\ PostIsExclusive' /\ IdentityExpected
  BY <1>1, <1>2, Untouched, Carried DEF ServeRequest, IInv, Suspended, Operating,
     Submitted, Tasks
<1> QED
  BY <1>1, <1>3, Untouched DEF IInv, ServeRequest

\* The server answers a POST with a real binding, or the answer is lost.
LEMMA ServePostKeeps ==
  ASSUME IInv, NEW o \in Ops, ServePost(o)
  PROVE  IInv' /\ IdentityExpected
<1>1. PICK answer \in {"success", "panel"}, effect \in {"none", "save", "clear"},
           new \in Bindings, lost \in BOOLEAN :
        /\ cookie' = new
        /\ op' = [op EXCEPT ![o] = IF lost THEN [@ EXCEPT !.run = "broken"]
                    ELSE [@ EXCEPT !.run = "answered", !.answer = answer,
                                   !.effect = effect, !.binding = BindingOf(new)]]
  BY DEF ServePost
<1> DEFINE b == BindingOf(cookie')
<1>2. /\ op[o] \in Operation /\ op[o].run = "posted"
      /\ UNCHANGED <<s, resume, req, clear, queue, conf>>
  BY DEF IInv, TypeOK, ServePost
<1>b. cookie' \in Bindings /\ b \in Bindings /\ b = BindingOf(new)
  BY <1>1, BindingTypes
<1> HIDE DEF b
<1>3. op'[o] \in Operation /\ \A p \in Ops \ {o} : op'[p] = op[p]
  <2>1. b \in OptBinding
    BY <1>b DEF OptBinding
  <2>2. [op[o] EXCEPT !.run = "broken"] \in Operation
    BY <1>2, OpFields
  <2>3. [op[o] EXCEPT !.run = "answered"] \in Operation
    BY <1>2, OpFields
  <2>4. [op[o] EXCEPT !.run = "answered", !.answer = answer] \in Operation
    BY <2>3, OpFields
  <2>5. [op[o] EXCEPT !.run = "answered", !.answer = answer, !.effect = effect] \in Operation
    BY <2>4, OpFields
  <2>6. [op[o] EXCEPT !.run = "answered", !.answer = answer, !.effect = effect,
                      !.binding = b] \in Operation
    BY <2>1, <2>5, OpFields
  <2> QED
    BY <1>1, <1>b, <2>2, <2>6 DEF IInv, TypeOK
<1>4. TypeOK'
  BY <1>1, <1>3, <1>b DEF IInv, TypeOK, ServePost
<1>5. /\ op'[o].gen = op[o].gen /\ op'[o].accepted = op[o].accepted
      /\ op'[o].proc = op[o].proc /\ op'[o].run \in {"answered", "broken"}
      /\ op'[o].binding \in {op[o].binding, b}
      /\ op'[o].run = "answered" => op'[o].binding = b
  BY <1>1, <1>2, <1>b DEF Operation, IInv, TypeOK
<1>6. Suspended' /\ Operating' /\ PostIsExclusive' /\ IdentityExpected
  BY <1>2, <1>3, <1>4, <1>5, <1>b, Untouched, Carried DEF IInv, Suspended, Operating,
     Submitted, Tasks, inFlight, nativeEffects
<1> QED
  BY <1>2, <1>4, <1>6, Untouched DEF IInv

\* The session on the server changes under the device.
LEMMA ReplaceSessionKeeps ==
  ASSUME IInv, ReplaceSession
  PROVE  IInv' /\ IdentityExpected
<1>1. TypeOK'
  BY DEF IInv, TypeOK, ReplaceSession
<1>2. Suspended' /\ Operating' /\ PostIsExclusive' /\ IdentityExpected
  BY <1>1, Untouched, Carried DEF ReplaceSession, IInv, Suspended, Operating,
     Submitted, Tasks, inFlight, nativeEffects
<1> QED
  BY <1>1, <1>2, Untouched DEF IInv, ReplaceSession

\* The deadline of a POST only raises the shield (session.ts:258).
LEMMA ExpirePostKeeps ==
  ASSUME IInv, NEW o \in Ops, ExpirePost(o)
  PROVE  IInv' /\ IdentityExpected
<1>1. Sound(s') /\ Stays(s, s') /\ s'.auth = s.auth
  BY ProtectedSound DEF ExpirePost, IInv, Stays
<1>2. op' = [op EXCEPT ![o] = [@ EXCEPT !.expired = TRUE]]
  BY DEF ExpirePost
<1>3. op'[o] \in Operation /\ \A p \in Ops \ {o} : op'[p] = op[p]
  BY <1>2, OpFields DEF IInv, TypeOK
<1>4. TypeOK'
  BY <1>1, <1>2, <1>3 DEF IInv, TypeOK, ExpirePost, Sound
<1>5. /\ op'[o].gen = op[o].gen /\ op'[o].accepted = op[o].accepted
      /\ op'[o].proc = op[o].proc /\ op'[o].run = op[o].run
      /\ op'[o].binding = op[o].binding /\ op'[o].drain = op[o].drain
  BY <1>2 DEF IInv, TypeOK, Operation
<1>6. Suspended' /\ Operating' /\ PostIsExclusive' /\ IdentityExpected
  BY <1>1, <1>3, <1>4, <1>5, Carried DEF IInv, Suspended, Operating, ExpirePost,
     Submitted, Tasks, inFlight, nativeEffects
<1> QED
  BY <1>1, <1>4, <1>6 DEF IInv

\* Requests: they move the owner only by revoking it.
LEMMA IssueRequestKeeps ==
  ASSUME IInv, NEW r \in Requests, IssueRequest(r)
  PROVE  IInv' /\ IdentityExpected
<1>1. /\ UNCHANGED <<s, resume, op, clear, queue, conf, cookie, pauses, reconfirmed>>
      /\ s.auth = NoOp /\ Owned(s)
      /\ req' = [req EXCEPT ![r] = [@ EXCEPT !.pc = "sent", !.gen = s.generation,
                                             !.neutral = ~HasIdentity]]
  BY DEF IssueRequest, Visible, HandleCurrent, HandleAlive, Owned, HasIdentity
<1>2. TypeOK'
  <2>1. s.generation \in Nat /\ (~HasIdentity) \in BOOLEAN
    <3>1. s.generation \in Nat
      BY DEF IInv, Sound, Supervisor
    <3>2. (~HasIdentity) \in BOOLEAN
      OBVIOUS
    <3> QED
      BY <3>1, <3>2
  <2>2. [req[r] EXCEPT !.pc = "sent"] \in HxmlRequest
    BY ReqFields DEF IInv, TypeOK
  <2>3. [req[r] EXCEPT !.pc = "sent", !.gen = s.generation] \in HxmlRequest
    BY <2>1, <2>2, ReqFields
  <2>4. [req[r] EXCEPT !.pc = "sent", !.gen = s.generation, !.neutral = ~HasIdentity]
          \in HxmlRequest
    BY <2>1, <2>3, ReqFields
  <2> QED
    BY <1>1, <2>4 DEF IInv, TypeOK
<1>3. \A o \in Ops : ~Submitted(o)
  BY <1>1, SessionConstants DEF IInv, Operating
<1>4. PostIsExclusive' /\ Operating' /\ Suspended' /\ IdentityExpected
  BY <1>1, <1>3, SessionConstants DEF PostIsExclusive, Submitted, IInv, Operating,
     Suspended, Live, IdentityExpected
<1> QED
  BY <1>1, <1>2, <1>4, Untouched DEF IInv

\* A rejected request is out of flight.
LEMMA DropRequestKeeps ==
  ASSUME IInv, NEW r \in Requests, DropRequest(r)
  PROVE  IInv' /\ IdentityExpected
<1>1. TypeOK' /\ inFlight' \subseteq inFlight
  BY SessionConstants DEF IInv, TypeOK, DropRequest, Close, FreshReq, HxmlRequest,
     OptBinding, inFlight
<1>2. Suspended' /\ Operating' /\ PostIsExclusive' /\ IdentityExpected
  BY <1>1, Untouched, Carried DEF DropRequest, IInv, Suspended, Operating, Submitted,
     Tasks, nativeEffects
<1> QED
  BY <1>1, <1>2, Untouched DEF IInv, DropRequest

\* A closed request is out of flight.
LEMMA Closed ==
  ASSUME IInv, NEW r \in Requests, NEW how \in {"done", "delivered"}, Close(r, how)
  PROVE  req' \in [Requests -> HxmlRequest] /\ inFlight' \subseteq inFlight
BY DEF IInv, TypeOK, Close, FreshReq, HxmlRequest, OptBinding, inFlight

\* Asking for a confirmation, or receiving it.
LEMMA Conferring ==
  ASSUME IInv, NEW t \in Tasks, NEW next \in {Idle, Asking(s.generation)},
         conf' = [conf EXCEPT ![t] = next]
  PROVE  /\ conf' \in [Tasks -> [busy : BOOLEAN, gen : Nat, seen : OptBinding]]
         /\ \A u \in Tasks : conf'[u].gen <= s.generation
         /\ \A u \in Tasks \ {t} : conf'[u] = conf[u]
         /\ next = Idle => ~conf'[t].busy
         /\ next # Idle => conf'[t].busy /\ conf'[t].gen = s.generation
<1>1. s.generation \in Nat
  BY DEF IInv, Sound, Supervisor
<1>2. /\ Idle.gen = 0 /\ ~Idle.busy /\ Asking(s.generation).gen = s.generation
      /\ Asking(s.generation).busy
  BY DEF Idle, Asking
<1>3. next \in [busy : BOOLEAN, gen : Nat, seen : OptBinding]
  <2>1. NoBinding \in OptBinding
    BY DEF OptBinding
  <2>2. Idle \in [busy : BOOLEAN, gen : Nat, seen : OptBinding]
    BY <2>1 DEF Idle
  <2>3. Asking(s.generation) \in [busy : BOOLEAN, gen : Nat, seen : OptBinding]
    BY <1>1, <2>1 DEF Asking
  <2> QED
    BY <2>2, <2>3
<1> QED
  BY <1>1, <1>2, <1>3 DEF IInv, TypeOK, Suspended

\* Headers of another owner raise the shield or revoke (session.ts:219).
LEMMA RequestHeadersKeeps ==
  ASSUME IInv, NEW r \in Requests, RequestHeaders(r)
  PROVE  IInv' /\ IdentityExpected
<1>1. /\ UNCHANGED <<resume, op, clear, queue, cookie, pauses, reconfirmed>>
      /\ req[r].pc = "answered" /\ r \in Tasks
      /\ r \notin {"start", "resume", "recover"}
  BY SessionConstants DEF RequestHeaders, Tasks
<1>2. /\ Sound(s') /\ (Revoked(s, s') \/ (Stays(s, s') /\ s'.auth = s.auth))
  BY ProtectedSound, InvalidatedSound, Untouched DEF RequestHeaders, IInv, Stays
<1>3. req' \in [Requests -> HxmlRequest] /\ inFlight' \subseteq inFlight
  <2>1. CASE Close(r, "done")
    BY <2>1, Closed
  <2>2. CASE ~Close(r, "done")
    <3>1. PICK pc \in {"ready", "reconcile"} : req' = [req EXCEPT ![r].pc = pc]
      BY <2>2 DEF RequestHeaders
    <3>2. [req[r] EXCEPT !.pc = pc] \in HxmlRequest
      BY ReqFields DEF IInv, TypeOK
    <3>3. \A q \in Requests : q # r => req'[q] = req[q]
      BY <3>1 DEF IInv, TypeOK
    <3>4. req'[r] = [req[r] EXCEPT !.pc = pc] /\ req' \in [Requests -> HxmlRequest]
      BY <3>1, <3>2 DEF IInv, TypeOK
    <3> QED
      BY <1>1, <3>3, <3>4 DEF inFlight
  <2> QED
    BY <2>1, <2>2
<1>4. /\ conf' \in [Tasks -> [busy : BOOLEAN, gen : Nat, seen : OptBinding]]
      /\ \A u \in Tasks : conf'[u].gen <= s.generation
      /\ \A u \in Tasks \ {r} : conf'[u] = conf[u]
  BY <1>1, Conferring DEF RequestHeaders, IInv, TypeOK, Suspended
<1>5. TypeOK'
  BY <1>1, <1>2, <1>3, <1>4 DEF IInv, TypeOK, Sound
<1>6. Suspended' /\ Operating' /\ PostIsExclusive' /\ IdentityExpected
  BY <1>1, <1>2, <1>3, <1>4, <1>5, Carried DEF IInv, Operating, Submitted, Tasks,
     nativeEffects, Revoked
<1> QED
  BY <1>2, <1>5, <1>6 DEF IInv

\* The re-observation of such a request (session.ts:225).
LEMMA RequestReconciledKeeps ==
  ASSUME IInv, NEW r \in Requests, RequestReconciled(r)
  PROVE  IInv' /\ IdentityExpected
<1>1. /\ UNCHANGED <<resume, op, clear, queue, cookie, pauses>> /\ r \in Tasks
      /\ conf' = [conf EXCEPT ![r] = Idle] /\ reconfirmed' \in BOOLEAN
      /\ Close(r, "done")
      /\ s' = Reconciled(s, r, req[r].claimed = NoBinding)
  BY DEF RequestReconciled, Heard, Tasks, IInv, TypeOK
<1>2. /\ Sound(s') /\ (Revoked(s, s') \/ (Stays(s, s') /\ s'.auth = s.auth))
  BY <1>1, ReconciledSound DEF IInv
<1>3. req' \in [Requests -> HxmlRequest] /\ inFlight' \subseteq inFlight
  BY <1>1, Closed
<1>4. /\ conf' \in [Tasks -> [busy : BOOLEAN, gen : Nat, seen : OptBinding]]
      /\ \A u \in Tasks : conf'[u].gen <= s.generation
      /\ \A u \in Tasks : conf'[u].busy => conf'[u] = conf[u]
  BY <1>1, Conferring
<1>5. TypeOK'
  BY <1>1, <1>2, <1>3, <1>4 DEF IInv, TypeOK, Sound
<1>6. Suspended' /\ Operating' /\ PostIsExclusive' /\ IdentityExpected
  BY <1>1, <1>2, <1>3, <1>4, <1>5, Carried DEF IInv, Operating, Submitted, Tasks,
     nativeEffects, Revoked
<1> QED
  BY <1>2, <1>5, <1>6 DEF IInv

\* Headers are released or their request dropped (session.ts:229).
LEMMA RequestReleasedKeeps ==
  ASSUME IInv, NEW r \in Requests, RequestReleased(r)
  PROVE  IInv' /\ IdentityExpected
<1>1. UNCHANGED <<s, resume, op, clear, queue, conf, cookie, pauses, reconfirmed>>
  BY DEF RequestReleased
<1>2. Sound(s') /\ Stays(s, s') /\ s'.auth = s.auth
  BY <1>1, Untouched DEF IInv, Stays
<1>3. req' \in [Requests -> HxmlRequest] /\ inFlight' \subseteq inFlight
  <2>1. CASE Close(r, "done")
    BY <2>1, Closed
  <2>2. CASE req' = [req EXCEPT ![r].pc = "open"]
    <3>1. [req[r] EXCEPT !.pc = "open"] \in HxmlRequest
      BY ReqFields DEF IInv, TypeOK
    <3>2. \A q \in Requests : q # r => req'[q] = req[q]
      BY <2>2 DEF IInv, TypeOK
    <3>3. /\ req'[r] = [req[r] EXCEPT !.pc = "open"] /\ req'[r].pc = "open"
          /\ req' \in [Requests -> HxmlRequest]
      BY <2>2, <3>1 DEF IInv, TypeOK, HxmlRequest
    <3> QED
      BY <3>2, <3>3 DEF inFlight
  <2> QED
    BY <2>1, <2>2 DEF RequestReleased
<1>5. TypeOK'
  BY <1>1, <1>2, <1>3 DEF IInv, TypeOK, Sound
<1>6. Suspended' /\ Operating' /\ PostIsExclusive' /\ IdentityExpected
  BY <1>1, <1>2, <1>3, <1>5, Carried DEF IInv, Operating, Suspended, Submitted, Tasks,
     nativeEffects, Revoked
<1> QED
  BY <1>2, <1>5, <1>6 DEF IInv

\* A body is handed out or its request dropped (session.ts:235).
LEMMA RequestReadKeeps ==
  ASSUME IInv, NEW r \in Requests, RequestRead(r)
  PROVE  IInv' /\ IdentityExpected
<1>1. /\ UNCHANGED <<resume, op, clear, queue, conf, cookie, pauses, reconfirmed>>
      /\ Close(r, "done") \/ Close(r, "delivered")
  BY DEF RequestRead
<1>2. /\ Sound(s') /\ (Revoked(s, s') \/ (Stays(s, s') /\ s'.auth = s.auth))
  BY InvalidatedSound, Untouched DEF RequestRead, IInv, Stays
<1>3. req' \in [Requests -> HxmlRequest] /\ inFlight' \subseteq inFlight
  BY <1>1, Closed
<1>5. TypeOK'
  BY <1>1, <1>2, <1>3 DEF IInv, TypeOK, Sound
<1>6. Suspended' /\ Operating' /\ PostIsExclusive' /\ IdentityExpected
  BY <1>1, <1>2, <1>3, <1>5, Carried DEF IInv, Operating, Suspended, Submitted, Tasks,
     nativeEffects, Revoked
<1> QED
  BY <1>2, <1>5, <1>6 DEF IInv

\* A forgotten operation holds nothing.
LEMMA RetiredFacts ==
  /\ Retired \in Operation /\ Retired.run = "done" /\ ~Retired.accepted
  /\ Retired.proc = "idle"
<1>1. FreshOp \in Operation
  BY DEF FreshOp, Operation, OptBinding
<1>2. Retired \in Operation
  BY <1>1, OpFields DEF Retired
<1> QED
  BY <1>2 DEF Retired, FreshOp

\* Replacing the record of one operation.
LEMMA Replacing ==
  ASSUME IInv, NEW o \in Ops, NEW x \in Operation, op' = [op EXCEPT ![o] = x]
  PROVE  /\ op' \in [Ops -> Operation] /\ op'[o] = x
         /\ \A p \in Ops \ {o} : op'[p] = op[p]
BY DEF IInv, TypeOK

\* Login and logout up to the accepted answer.
LEMMA AuthenticateKeeps ==
  ASSUME IInv, NEW o \in Ops, Authenticate(o)
  PROVE  IInv' /\ IdentityExpected
<1> DEFINE x1(l) == [op[o] EXCEPT !.run = "drain"]
           x2(l) == [x1(l) EXCEPT !.gen = s.generation]
           x3(l) == [x2(l) EXCEPT !.logout = l]
           x4(l) == [x3(l) EXCEPT !.neutral = ~HasIdentity]
           x5(l) == [x4(l) EXCEPT !.expected =
                       IF HasIdentity THEN s.identity.binding ELSE s.recovery.binding]
           x(l) == [x5(l) EXCEPT !.drain = inFlight \cup nativeEffects]
<1>1. /\ UNCHANGED <<resume, req, clear, queue, conf, cookie, pauses, reconfirmed>>
      /\ op[o].run = "none" /\ s.auth = NoOp /\ s.active
      /\ s' = [s EXCEPT !.auth = o, !.availability = "auth-pending"]
      /\ Owned(s)
  BY DEF Authenticate, HandleCurrent, HandleAlive, Owned, HasIdentity
<1>2. PICK l \in BOOLEAN : op' = [op EXCEPT ![o] = x(l)]
  BY DEF Authenticate
<1>3. s.generation \in Nat /\ s.auth \in Ops \cup {NoOp} /\ op[o] \in Operation
  BY DEF IInv, Sound, Supervisor, TypeOK
<1>4. x(l) \in Operation
  <2>1. x1(l) \in Operation
    BY <1>3, OpFields
  <2>2. x2(l) \in Operation
    BY <1>3, <2>1, OpFields
  <2>3. x3(l) \in Operation
    BY <2>2, OpFields
  <2>4. x4(l) \in Operation
    <3>1. (~HasIdentity) \in BOOLEAN
      OBVIOUS
    <3> HIDE DEF x3
    <3> QED
      BY <2>3, <3>1, OpFields
  <2>5. (IF HasIdentity THEN s.identity.binding ELSE s.recovery.binding) \in OptBinding
    BY DEF IInv, Sound, Supervisor, OptIdentity, OptRecovery, NoIdentity, NoRecovery,
       OptBinding
  <2>6. x5(l) \in Operation
    <3> HIDE DEF x4
    <3> QED
      BY <2>4, <2>5, OpFields
  <2>7. inFlight \cup nativeEffects \in SUBSET (Requests \cup Clears)
    BY DEF inFlight, nativeEffects
  <2> HIDE DEF x5
  <2> QED
    BY <2>6, <2>7, OpFields
<1>5. /\ x(l).run = "drain" /\ x(l).gen = s.generation
      /\ x(l).drain = inFlight \cup nativeEffects
      /\ x(l).accepted = op[o].accepted /\ x(l).proc = op[o].proc
      /\ x(l).binding = op[o].binding
  BY <1>3 DEF Operation
<1> HIDE DEF x
<1>6. op' \in [Ops -> Operation] /\ op'[o] = x(l) /\ \A p \in Ops \ {o} : op'[p] = op[p]
  BY <1>2, <1>4, Replacing
<1>7. /\ s'.generation = s.generation /\ s'.identity = s.identity
      /\ s'.recovery = s.recovery /\ s'.everConfirmed = s.everConfirmed
      /\ s'.startupRevoked = s.startupRevoked /\ s'.rootReady = s.rootReady
      /\ s'.auth = o /\ s'.availability = "auth-pending" /\ s'.active = s.active
  BY <1>1 DEF IInv, Sound, Supervisor
<1>8. Sound(s')
  <2>1. s' \in Supervisor
    BY <1>1, Fields DEF IInv, Sound, Availability
  <2> QED
    BY <1>1, <1>7, <2>1 DEF IInv, Sound, Owned
<1>9. TypeOK'
  BY <1>1, <1>6, <1>8 DEF IInv, TypeOK, Sound
<1>10. Suspended'
  <2>1. \A t \in Tasks : Live(t)' <=> Live(t)
    BY <1>1, <1>7 DEF Live
  <2>2. ~(resume.pc = "recovery" /\ Live("resume"))
    <3>1. ASSUME resume.pc = "recovery", Live("resume") PROVE FALSE
      <4>1. s.recovery # NoRecovery /\ s.availability # "foreground"
        BY <3>1 DEF IInv, Suspended
      <4>2. ~HasIdentity
        BY <4>1 DEF IInv, Sound, HasIdentity
      <4> QED
        BY <4>1, <4>2 DEF Authenticate, HandleCurrent, Visible
    <3> QED
      BY <3>1
  <2> QED
    BY <1>1, <1>7, <2>1, <2>2 DEF IInv, Suspended, Tasks, Owned
<1>11. Operating'
  <2>1. \A p \in Ops : ~Submitted(p)
    BY <1>1, SessionConstants DEF IInv, Operating
  <2>2. \A p \in Ops : ~Submitted(p)'
    BY <1>5, <1>6, <2>1 DEF Submitted
  <2>3. inFlight' = inFlight /\ nativeEffects' = nativeEffects
    BY <1>1 DEF inFlight, nativeEffects
  <2> QED
    BY <1>5, <1>6, <1>7, <2>2, <2>3 DEF IInv, Operating
<1>12. PostIsExclusive' /\ IdentityExpected
  BY <1>1, <1>5, <1>6, <1>7 DEF IInv, PostIsExclusive, IdentityExpected, inFlight,
     nativeEffects
<1> QED
  BY <1>8, <1>9, <1>10, <1>11, <1>12 DEF IInv

\* The POST goes out when everything admitted before it has settled
\* (session.ts:253).
LEMMA SendPostKeeps ==
  ASSUME IInv, NEW o \in Ops, SendPost(o)
  PROVE  IInv' /\ IdentityExpected
<1>1. /\ UNCHANGED <<s, resume, req, clear, queue, conf, cookie, pauses, reconfirmed>>
      /\ op[o].run = "drain" /\ op[o] \in Operation
      /\ op[o].drain \cap (inFlight \cup nativeEffects) = {}
  BY DEF SendPost, IInv, TypeOK
<1>2. Sound(s') /\ Stays(s, s') /\ s.auth \in Ops \cup {NoOp}
  BY <1>1, Untouched DEF IInv, Sound, Supervisor
<1>3. CASE ~Current(o)
  <2>1. op' = [op EXCEPT ![o] = Retired] /\ s.auth # o
    BY <1>3, SessionConstants DEF SendPost, Current, IInv, Operating
  <2>2. op' \in [Ops -> Operation] /\ op'[o] = Retired /\ \A p \in Ops \ {o} : op'[p] = op[p]
    BY <2>1, RetiredFacts, Replacing
  <2>3. TypeOK'
    BY <1>1, <1>2, <2>2 DEF IInv, TypeOK, Sound
  <2>4. Suspended' /\ Operating' /\ PostIsExclusive' /\ IdentityExpected
    BY <1>1, <1>2, <2>1, <2>2, <2>3, Carried, RetiredFacts DEF IInv, Operating,
       Suspended, Submitted, Tasks, nativeEffects, inFlight
  <2> QED
    BY <1>2, <2>3, <2>4 DEF IInv
<1>4. CASE Current(o)
  <2> DEFINE x == [op[o] EXCEPT !.run = "posted"]
  <2>1. op' = [op EXCEPT ![o] = x] /\ s.auth = o
    BY <1>4 DEF SendPost, Current
  <2>2. /\ x \in Operation /\ x.run = "posted" /\ x.gen = op[o].gen
        /\ x.accepted = op[o].accepted /\ x.proc = op[o].proc
        /\ x.binding = op[o].binding
    <3>1. x \in Operation
      BY <1>1, OpFields
    <3>2. /\ x.run = "posted" /\ x.gen = op[o].gen /\ x.accepted = op[o].accepted
          /\ x.proc = op[o].proc /\ x.binding = op[o].binding
      BY <1>1 DEF Operation
    <3> QED
      BY <3>1, <3>2
  <2> HIDE DEF x
  <2>3. op' \in [Ops -> Operation] /\ op'[o] = x /\ \A p \in Ops \ {o} : op'[p] = op[p]
    BY <2>1, <2>2, Replacing
  <2>4. TypeOK'
    BY <1>1, <1>2, <2>3 DEF IInv, TypeOK, Sound
  <2>5. inFlight = {} /\ nativeEffects = {}
    BY <1>1, <2>1 DEF IInv, Operating
  <2>6. inFlight' = {} /\ nativeEffects' = {}
    BY <1>1, <2>5 DEF inFlight, nativeEffects
  <2>7. Suspended' /\ PostIsExclusive' /\ IdentityExpected
    BY <1>1, <2>6 DEF IInv, Suspended, Live, PostIsExclusive, IdentityExpected
  <2>8. \A t \in Tasks : Live(t)' <=> Live(t)
    BY <1>1 DEF Live
  <2>9. ~Live("recover")
    BY <2>1, SessionConstants DEF IInv, Suspended, Sound, Owned
  <2>10. Operating'
    BY <1>1, <2>1, <2>2, <2>3, <2>6, <2>8, <2>9 DEF IInv, Operating, Submitted, Tasks
  <2> QED
    BY <1>1, <1>2, <2>4, <2>7, <2>10 DEF IInv
<1> QED
  BY <1>3, <1>4

\* A failed POST raises the shield (session.ts:136).
LEMMA PostFailedKeeps ==
  ASSUME IInv, NEW o \in Ops, PostFailed(o)
  PROVE  IInv' /\ IdentityExpected
<1>1. /\ UNCHANGED <<resume, req, clear, queue, cookie, pauses, reconfirmed>>
      /\ op[o].run \in {"broken", "answered"} /\ op[o] \in Operation /\ o \in Tasks
      /\ o \notin {"start", "resume", "recover"} /\ s.auth \in Ops \cup {NoOp}
  BY SessionConstants DEF PostFailed, IInv, TypeOK, Tasks, Sound, Supervisor
<1>2. CASE ~Current(o)
  <2>1. op' = [op EXCEPT ![o] = Retired] /\ s.auth # o /\ UNCHANGED <<s, conf>>
    BY <1>2, SessionConstants DEF PostFailed, Current, IInv, Operating
  <2>2. op' \in [Ops -> Operation] /\ op'[o] = Retired /\ \A p \in Ops \ {o} : op'[p] = op[p]
    BY <2>1, RetiredFacts, Replacing
  <2>3. TypeOK'
    BY <1>1, <2>1, <2>2 DEF IInv, TypeOK
  <2>4. Suspended' /\ Operating' /\ PostIsExclusive' /\ IdentityExpected
    BY <1>1, <2>1, <2>2, <2>3, Untouched, Carried, RetiredFacts DEF IInv, Operating,
       Suspended, Submitted, Tasks, nativeEffects, inFlight
  <2> QED
    BY <2>1, <2>3, <2>4, Untouched DEF IInv
<1>3. CASE Current(o)
  <2> DEFINE x == [op[o] EXCEPT !.run = "failing"]
  <2>1. /\ op' = [op EXCEPT ![o] = x] /\ s.auth = o /\ s' = Protected(s)
        /\ conf' = [conf EXCEPT ![o] = Asking(s.generation)]
    BY <1>3 DEF PostFailed, Current
  <2>2. /\ x \in Operation /\ x.run = "failing" /\ x.gen = op[o].gen
        /\ x.accepted = op[o].accepted /\ x.proc = op[o].proc
        /\ x.binding = op[o].binding
    <3>1. x \in Operation
      BY <1>1, OpFields
    <3>2. /\ x.run = "failing" /\ x.gen = op[o].gen /\ x.accepted = op[o].accepted
          /\ x.proc = op[o].proc /\ x.binding = op[o].binding
      BY <1>1 DEF Operation
    <3> QED
      BY <3>1, <3>2
  <2> HIDE DEF x
  <2>3. op' \in [Ops -> Operation] /\ op'[o] = x /\ \A p \in Ops \ {o} : op'[p] = op[p]
    BY <2>1, <2>2, Replacing
  <2>4. Sound(s') /\ Stays(s, s') /\ s'.auth = s.auth
    BY <2>1, ProtectedSound DEF IInv
  <2>5. /\ conf' \in [Tasks -> [busy : BOOLEAN, gen : Nat, seen : OptBinding]]
        /\ \A u \in Tasks : conf'[u].gen <= s.generation
        /\ \A u \in Tasks \ {o} : conf'[u] = conf[u]
    BY <1>1, <2>1, Conferring
  <2>6. TypeOK'
    BY <1>1, <2>3, <2>4, <2>5 DEF IInv, TypeOK, Sound
  <2>7. Suspended' /\ Operating' /\ PostIsExclusive' /\ IdentityExpected
    BY <1>1, <2>2, <2>3, <2>4, <2>5, <2>6, Carried DEF IInv, Operating, Submitted,
       Tasks, nativeEffects, inFlight
  <2> QED
    BY <2>4, <2>6, <2>7 DEF IInv
<1> QED
  BY <1>2, <1>3

\* Its operation is forgotten and its owner kept or revoked (session.ts:141).
LEMMA PostFailureReconciledKeeps ==
  ASSUME IInv, NEW o \in Ops, PostFailureReconciled(o)
  PROVE  IInv' /\ IdentityExpected
<1> DEFINE x == Reconciled(s, o, FALSE)
<1>1. /\ UNCHANGED <<resume, req, clear, queue, cookie, pauses>>
      /\ op[o].run = "failing" /\ op' = [op EXCEPT ![o] = Retired]
      /\ conf' = [conf EXCEPT ![o] = Idle] /\ reconfirmed' \in BOOLEAN /\ o \in Tasks
      /\ s' = [x EXCEPT !.auth = IF @ = o THEN NoOp ELSE @]
  BY DEF PostFailureReconciled, IInv, TypeOK, Tasks, Heard
<1>2. Sound(x) /\ (Revoked(s, x) \/ (Stays(s, x) /\ x.auth = s.auth))
  BY <1>1, ReconciledSound DEF IInv
<1> HIDE DEF x
<1>3. /\ s' \in Supervisor /\ s'.auth \in {x.auth, NoOp} /\ s'.auth # o
      /\ s'.generation = x.generation /\ s'.identity = x.identity
      /\ s'.recovery = x.recovery /\ s'.everConfirmed = x.everConfirmed
      /\ s'.startupRevoked = x.startupRevoked /\ s'.rootReady = x.rootReady
      /\ s'.availability = x.availability /\ s'.active = x.active
      /\ x.auth # o => s'.auth = x.auth
  BY <1>1, <1>2, Fields, SessionConstants DEF Sound, Supervisor
<1>4. Sound(s') /\ (Revoked(s, s') \/ Stays(s, s'))
  BY <1>2, <1>3 DEF Sound, Stays, Revoked, Owned
<1>5. op' \in [Ops -> Operation] /\ op'[o] = Retired /\ \A p \in Ops \ {o} : op'[p] = op[p]
  BY <1>1, RetiredFacts, Replacing
<1>6. /\ conf' \in [Tasks -> [busy : BOOLEAN, gen : Nat, seen : OptBinding]]
      /\ \A u \in Tasks : conf'[u].gen <= s.generation
      /\ \A u \in Tasks : conf'[u].busy => conf'[u] = conf[u]
  BY <1>1, Conferring
<1>7. TypeOK'
  BY <1>1, <1>3, <1>5, <1>6 DEF IInv, TypeOK
<1>8. \A p \in Ops \ {o} : s.auth = p => s'.auth = p \/ Revoked(s, s')
  BY <1>2, <1>3 DEF Revoked, Owned
<1>9. Suspended' /\ Operating' /\ PostIsExclusive' /\ IdentityExpected
  BY <1>1, <1>3, <1>4, <1>5, <1>6, <1>7, <1>8, Carried, RetiredFacts DEF IInv,
     Operating, Submitted, Tasks, nativeEffects, inFlight
<1> QED
  BY <1>4, <1>7, <1>9 DEF IInv
-----------------------------------------------------------------------------
\* What Carried asks of the operations.
OpsCarried ==
  \A o \in Ops :
    /\ s'.auth = o => op'[o].gen = op[o].gen
    /\ Submitted(o)' => /\ Submitted(o)
                        /\ s.auth = o => s'.auth = o \/ Revoked(s, s')
    /\ op'[o].run = "answered" \/ op'[o].accepted => op'[o].binding \in Bindings
    /\ op'[o].proc # "idle" => op'[o].accepted
    /\ op'[o].run = "drain" => op[o].run = "drain" /\ op'[o].drain = op[o].drain

\* r is the record of an accepted operation o, x the supervisor that holds it.
Settling(o, r, x) ==
  /\ r \in Operation /\ r.gen = op[o].gen /\ r.accepted /\ r.binding \in Bindings
  /\ r.run = "settling" \/ (r.run = op[o].run /\ r.drain = op[o].drain)
  /\ Sound(x) /\ Stays(s, x) /\ s.auth = o /\ x.auth = o

\* Replacing the record of o by one that changes no field Carried looks at.
LEMMA KeepsOp ==
  ASSUME IInv, NEW o \in Ops, NEW x \in Operation, op' = [op EXCEPT ![o] = x],
         \/ x = Retired /\ s'.auth # o
         \/ /\ x.gen = op[o].gen /\ x.accepted /\ x.binding \in Bindings
            /\ \/ x.run \in {"settling", "done"}
               \/ x.run = op[o].run /\ x.drain = op[o].drain
         \/ /\ x.gen = op[o].gen /\ x.accepted = op[o].accepted
            /\ x.binding = op[o].binding /\ x.proc = op[o].proc
            /\ x.run = op[o].run /\ x.drain = op[o].drain,
         s'.auth = s.auth \/ Revoked(s, s') \/ (s.auth = o /\ x = Retired)
  PROVE  op' \in [Ops -> Operation] /\ OpsCarried
<1>1. op' \in [Ops -> Operation] /\ op'[o] = x /\ \A p \in Ops \ {o} : op'[p] = op[p]
  BY Replacing
<1> QED
  BY <1>1, RetiredFacts DEF OpsCarried, IInv, Operating, Submitted

\* A record whose promise has settled.
LEMMA FinishedFacts ==
  ASSUME NEW o \in Ops, NEW r \in Operation, NEW x
  PROVE  /\ Finished(o, r, x) \in Operation
         /\ x.auth # o => Finished(o, r, x) = Retired
         /\ x.auth = o =>
              /\ Finished(o, r, x).gen = r.gen
              /\ Finished(o, r, x).accepted = r.accepted
              /\ Finished(o, r, x).binding = r.binding
              /\ Finished(o, r, x).run = "done" /\ Finished(o, r, x).proc = "idle"
<1> DEFINE f1 == [r EXCEPT !.proc = "idle"]
           f == [f1 EXCEPT !.run = "done"]
<1>1. f1 \in Operation
  BY OpFields
<1>2. f \in Operation
  BY <1>1, OpFields
<1>3. /\ f.gen = r.gen /\ f.accepted = r.accepted /\ f.binding = r.binding
      /\ f.drain = r.drain /\ f.run = "done" /\ f.proc = "idle"
  BY DEF Operation
<1>4. x.auth = o => Finished(o, r, x) = f
  BY DEF Finished
<1> HIDE DEF f
<1> QED
  BY <1>2, <1>3, <1>4, RetiredFacts DEF Finished

\* What becomes of an owned answer: held, confirmed once more, or shown
\* (session.ts:184).
LEMMA Concluding ==
  ASSUME IInv, NEW o \in Ops, NEW r, NEW x, Settling(o, r, x), Conclude(o, r, x)
  PROVE  /\ op' \in [Ops -> Operation] /\ OpsCarried
         /\ Sound(s') /\ Stays(s, s')
<1>1. CASE ~x.active
  <2>1. op' = [op EXCEPT ![o] = Finished(o, r, x)] /\ s' = x
    BY <1>1 DEF Conclude
  <2> DEFINE f == Finished(o, r, x)
  <2>2. f \in Operation /\ x.auth = o
    BY FinishedFacts DEF Settling
  <2>3. /\ f.gen = op[o].gen /\ f.accepted /\ f.binding \in Bindings
        /\ f.run \in {"settling", "done"}
    <3>1. r \in Operation
      BY DEF Settling
    <3>2. /\ f.gen = r.gen /\ f.accepted = r.accepted /\ f.binding = r.binding
          /\ f.run = "done"
      BY <2>2, <3>1, FinishedFacts
    <3> HIDE DEF f
    <3> QED
      BY <3>2 DEF Settling
  <2>4. s'.auth = s.auth
    BY <2>1 DEF Settling
  <2> HIDE DEF f
  <2>5. op' \in [Ops -> Operation] /\ OpsCarried
    BY <2>1, <2>2, <2>3, <2>4, KeepsOp DEF f
  <2> QED
    BY <2>1, <2>5 DEF Settling
<1>2. CASE x.active /\ r.answer = "success"
  <2> DEFINE f == [r EXCEPT !.proc = "final"]
  <2>1. op' = [op EXCEPT ![o] = f] /\ s' = x
    BY <1>2 DEF Conclude
  <2>2. f \in Operation
    BY OpFields DEF Settling
  <2>3. /\ f.gen = r.gen /\ f.accepted = r.accepted /\ f.binding = r.binding
        /\ f.drain = r.drain /\ f.run = r.run
    BY DEF Settling, Operation
  <2> HIDE DEF f
  <2>4. /\ f.gen = op[o].gen /\ f.accepted /\ f.binding \in Bindings
        /\ \/ f.run \in {"settling", "done"}
           \/ f.run = op[o].run /\ f.drain = op[o].drain
    BY <2>3 DEF Settling
  <2>5. s'.auth = s.auth
    BY <2>1 DEF Settling
  <2>6. op' \in [Ops -> Operation] /\ OpsCarried
    BY <2>1, <2>2, <2>4, <2>5, KeepsOp
  <2> QED
    BY <2>1, <2>6 DEF Settling
<1>3. CASE x.active /\ r.answer = "panel"
  <2> DEFINE y == [x EXCEPT !.auth = NoOp]
             z == [y EXCEPT !.availability = "foreground"]
  <2>1. op' = [op EXCEPT ![o] = Retired] /\ s' = z
    BY <1>3 DEF Conclude
  <2>2. y \in Supervisor
    BY Fields DEF Settling, Sound
  <2>3. z \in Supervisor
    BY <2>2, Fields DEF Availability
  <2>4. /\ z.generation = x.generation /\ z.identity = x.identity
        /\ z.recovery = x.recovery /\ z.everConfirmed = x.everConfirmed
        /\ z.startupRevoked = x.startupRevoked /\ z.rootReady = x.rootReady
        /\ z.availability = "foreground" /\ z.active = x.active /\ z.auth = NoOp
    BY DEF Settling, Sound, Supervisor
  <2> HIDE DEF z
  <2>5. Sound(z)
    BY <1>3, <2>3, <2>4, SessionConstants DEF Settling, Sound, Owned
  <2>6. Stays(s, z)
    BY <2>4, SessionConstants DEF Settling, Stays
  <2> QED
    BY <2>1, <2>4, <2>5, <2>6, KeepsOp, RetiredFacts, SessionConstants DEF Settling
<1>4. ~x.active \/ (x.active /\ r.answer \in {"success", "panel"})
  BY DEF Conclude
<1> QED
  BY <1>1, <1>2, <1>3, <1>4

\* The synchronous head of completeAuth() (session.ts:152).
LEMMA Completing ==
  ASSUME IInv, NEW o \in Ops, NEW r, NEW x, Settling(o, r, x), Complete(o, r, x)
  PROVE  /\ op' \in [Ops -> Operation] /\ OpsCarried
         /\ Sound(s') /\ Stays(s, s')
         /\ queue' \in Seq(Ops \cup Clears)
         /\ conf' \in [Tasks -> [busy : BOOLEAN, gen : Nat, seen : OptBinding]]
         /\ \A t \in Tasks : conf'[t].gen <= s.generation
         /\ \A t \in Tasks \ {o} : conf'[t] = conf[t]
<1>0. /\ o \in Tasks /\ x.generation = s.generation
      /\ queue \in Seq(Ops \cup Clears)
      /\ conf \in [Tasks -> [busy : BOOLEAN, gen : Nat, seen : OptBinding]]
      /\ \A t \in Tasks : conf[t].gen <= s.generation
  BY DEF Tasks, Settling, Stays, IInv, TypeOK, Suspended
<1>1. CASE /\ x.active /\ r.effect # "none"
           /\ op' = [op EXCEPT ![o] = [r EXCEPT !.proc = "effect",
                                       !.job = IF @ = "none" THEN "queued" ELSE @]]
           /\ queue' = IF r.job = "none" THEN Append(queue, o) ELSE queue
           /\ s' = x /\ UNCHANGED conf
  <2> DEFINE f1 == [r EXCEPT !.proc = "effect"]
             f == [f1 EXCEPT !.job = IF @ = "none" THEN "queued" ELSE @]
  <2>1. f1 \in Operation
    BY OpFields DEF Settling
  <2>2. (IF f1.job = "none" THEN "queued" ELSE f1.job) \in
           {"none", "queued", "waiting", "pre", "writing", "compensating", "settled"}
    BY <2>1 DEF Operation
  <2>3. f \in Operation
    <3> HIDE DEF f1
    <3> QED
      BY <2>1, <2>2, OpFields
  <2>4. /\ f.gen = r.gen /\ f.accepted = r.accepted /\ f.binding = r.binding
        /\ f.drain = r.drain /\ f.run = r.run
    BY DEF Settling, Operation
  <2>5. op' = [op EXCEPT ![o] = f]
    BY <1>1
  <2> HIDE DEF f
  <2>a. /\ f.gen = op[o].gen /\ f.accepted /\ f.binding \in Bindings
        /\ \/ f.run \in {"settling", "done"}
           \/ f.run = op[o].run /\ f.drain = op[o].drain
    BY <2>4 DEF Settling
  <2>b. s'.auth = s.auth
    BY <1>1 DEF Settling
  <2>6. op' \in [Ops -> Operation] /\ OpsCarried
    BY <2>3, <2>5, <2>a, <2>b, KeepsOp
  <2>7. queue' \in Seq(Ops \cup Clears)
    BY <1>0, <1>1, AppendProperties
  <2> QED
    BY <1>0, <1>1, <2>6, <2>7 DEF Settling
<1>2. CASE /\ x.active /\ r.effect = "none" /\ r.needsPreconfirm
           /\ op' = [op EXCEPT ![o] = [r EXCEPT !.proc = "pre"]]
           /\ conf' = [conf EXCEPT ![o] = Asking(x.generation)]
           /\ s' = x /\ UNCHANGED queue
  <2> DEFINE f == [r EXCEPT !.proc = "pre"]
  <2>1. f \in Operation
    BY OpFields DEF Settling
  <2>2. /\ f.gen = r.gen /\ f.accepted = r.accepted /\ f.binding = r.binding
        /\ f.drain = r.drain /\ f.run = r.run
    BY DEF Settling, Operation
  <2> HIDE DEF f
  <2>a. /\ f.gen = op[o].gen /\ f.accepted /\ f.binding \in Bindings
        /\ \/ f.run \in {"settling", "done"}
           \/ f.run = op[o].run /\ f.drain = op[o].drain
    BY <2>2 DEF Settling
  <2>b. s'.auth = s.auth /\ op' = [op EXCEPT ![o] = f]
    BY <1>2 DEF Settling, f
  <2>3. op' \in [Ops -> Operation] /\ OpsCarried
    BY <2>1, <2>a, <2>b, KeepsOp
  <2> QED
    BY <1>0, <1>2, <2>3, Conferring DEF Settling
<1>3. CASE /\ ~x.active \/ (r.effect = "none" /\ ~r.needsPreconfirm)
           /\ Conclude(o, r, x) /\ conf' = [conf EXCEPT ![o] = Awaited(o, r, x)]
           /\ UNCHANGED queue
  <2>1. Awaited(o, r, x) \in {Idle, Asking(s.generation)}
    BY <1>0 DEF Awaited
  <2> QED
    BY <1>0, <1>3, <2>1, Concluding, Conferring
<1> QED
  BY <1>1, <1>2, <1>3 DEF Complete

\* A publication, or any step that starts a generation, keeps the invariant when
\* no POST is out.
LEMMA Renewing ==
  ASSUME IInv, TypeOK', Sound(s'), s'.generation = s.generation + 1, s'.auth = NoOp,
         \A t \in Tasks : conf'[t].gen <= s.generation,
         \A o \in Ops :
           /\ ~Submitted(o)'
           /\ op'[o].run = "answered" \/ op'[o].accepted => op'[o].binding \in Bindings
           /\ op'[o].proc # "idle" => op'[o].accepted
  PROVE  Suspended' /\ Operating' /\ PostIsExclusive'
<1>1. s.generation \in Nat /\ \A t \in Tasks : conf'[t].gen \in Nat
  BY DEF IInv, Sound, Supervisor, TypeOK
<1>2. \A t \in Tasks : ~Live(t)'
  BY <1>1 DEF Live
<1>3. Suspended'
  BY <1>1, <1>2 DEF Suspended, Tasks
<1>4. Operating'
  BY <1>2, SessionConstants DEF Operating
<1>5. PostIsExclusive'
  BY DEF PostIsExclusive, Submitted
<1> QED
  BY <1>3, <1>4, <1>5

\* The answer of the POST is accepted.
LEMMA AcceptPostKeeps ==
  ASSUME IInv, NEW o \in Ops, AcceptPost(o)
  PROVE  IInv' /\ IdentityExpected
<1>1. /\ UNCHANGED <<resume, req, clear, cookie, pauses>> /\ op[o].run = "answered"
      /\ op[o] \in Operation /\ reconfirmed' \in BOOLEAN /\ s.active \in BOOLEAN
      /\ o \notin {"start", "resume", "recover"} /\ s.auth \in Ops \cup {NoOp}
  BY SessionConstants DEF AcceptPost, IInv, TypeOK, Sound, Supervisor
<1>2. CASE ~Current(o)
  <2>1. op' = [op EXCEPT ![o] = Retired] /\ s.auth # o /\ UNCHANGED <<s, conf, queue>>
    BY <1>2, SessionConstants DEF AcceptPost, Current, IInv, Operating
  <2>2. op' \in [Ops -> Operation] /\ OpsCarried
    BY <2>1, RetiredFacts, KeepsOp
  <2>3. TypeOK'
    BY <1>1, <2>1, <2>2 DEF IInv, TypeOK
  <2>4. Suspended' /\ Operating' /\ PostIsExclusive' /\ IdentityExpected
    BY <1>1, <2>1, <2>2, <2>3, Untouched, Carried DEF IInv, OpsCarried,
       Suspended, Tasks, nativeEffects, inFlight
  <2> QED
    BY <2>1, <2>3, <2>4, Untouched DEF IInv
<1>3. CASE Current(o)
  <2> DEFINE r1 == [op[o] EXCEPT !.run = "settling"]
             r2 == [r1 EXCEPT !.accepted = TRUE]
             r == [r2 EXCEPT !.needsPreconfirm = ~s.active]
  <2>1. Complete(o, r, s) /\ s.auth = o
    BY <1>3 DEF AcceptPost, Current
  <2>2. r \in Operation
    <3>1. r2 \in Operation
      BY <1>1, OpFields
    <3>2. (~s.active) \in BOOLEAN
      OBVIOUS
    <3> HIDE DEF r2
    <3> QED
      BY <3>1, <3>2, OpFields
  <2>3. r.run = "settling" /\ r.accepted /\ r.gen = op[o].gen /\ r.binding = op[o].binding
    BY <1>1 DEF Operation
  <2> HIDE DEF r
  <2>4. Settling(o, r, s)
    BY <1>1, <2>1, <2>2, <2>3, Untouched DEF Settling, IInv, Operating, Stays
  <2>5. /\ op' \in [Ops -> Operation] /\ OpsCarried
        /\ Sound(s') /\ Stays(s, s')
        /\ queue' \in Seq(Ops \cup Clears)
        /\ conf' \in [Tasks -> [busy : BOOLEAN, gen : Nat, seen : OptBinding]]
        /\ \A t \in Tasks : conf'[t].gen <= s.generation
        /\ \A t \in Tasks \ {o} : conf'[t] = conf[t]
    BY <2>1, <2>4, Completing
  <2>6. TypeOK'
    BY <1>1, <2>5 DEF IInv, TypeOK, Sound
  <2>7. Suspended' /\ Operating' /\ PostIsExclusive' /\ IdentityExpected
    BY <1>1, <2>5, <2>6, Carried DEF OpsCarried, Tasks, nativeEffects, inFlight
  <2> QED
    BY <2>5, <2>6, <2>7 DEF IInv
<1> QED
  BY <1>2, <1>3

\* The credential effect of the accepted answer has settled (session.ts:178).
LEMMA EffectSettledKeeps ==
  ASSUME IInv, NEW o \in Ops, EffectSettled(o)
  PROVE  IInv' /\ IdentityExpected
<1>1. /\ UNCHANGED <<resume, req, clear, queue, cookie, pauses, reconfirmed>>
      /\ op[o] \in Operation /\ op[o].accepted /\ op[o].binding \in Bindings
      /\ o \in Tasks /\ o \notin {"start", "resume", "recover"}
      /\ s.auth \in Ops \cup {NoOp}
  BY SessionConstants DEF EffectSettled, IInv, TypeOK, Sound, Supervisor, Operating, Tasks
<1>2. /\ op' \in [Ops -> Operation] /\ OpsCarried
      /\ Sound(s') /\ Stays(s, s')
      /\ conf' \in [Tasks -> [busy : BOOLEAN, gen : Nat, seen : OptBinding]]
      /\ \A t \in Tasks : conf'[t].gen <= s.generation
      /\ \A t \in Tasks \ {o} : conf'[t] = conf[t]
  <2>1. CASE ~Current(o) /\ op' = [op EXCEPT ![o] = Retired] /\ UNCHANGED <<s, conf>>
    <3>1. s.auth # o
      BY <2>1, SessionConstants DEF Current, IInv, Operating
    <3> QED
      BY <2>1, <3>1, RetiredFacts, KeepsOp, Untouched DEF IInv, TypeOK, Suspended
  <2>2. CASE /\ Current(o) /\ op' = [op EXCEPT ![o] = Retired]
             /\ s' = [Protected(s) EXCEPT !.auth = NoOp] /\ UNCHANGED conf
    <3> DEFINE y == Protected(s)
    <3>1. Sound(y) /\ Stays(s, y) /\ y.auth = s.auth
      BY ProtectedSound DEF IInv
    <3>2. s' = [y EXCEPT !.auth = NoOp]
      BY <2>2
    <3> HIDE DEF y
    <3>3. /\ s' \in Supervisor /\ s'.auth = NoOp
          /\ s'.generation = y.generation /\ s'.identity = y.identity
          /\ s'.recovery = y.recovery /\ s'.everConfirmed = y.everConfirmed
          /\ s'.startupRevoked = y.startupRevoked /\ s'.rootReady = y.rootReady
          /\ s'.availability = y.availability /\ s'.active = y.active
      BY <3>1, <3>2, Fields DEF Sound, Supervisor
    <3>4. Sound(s') /\ Stays(s, s')
      BY <3>1, <3>3 DEF Sound, Stays, Owned
    <3>5. s.auth = o /\ s'.auth # o
      BY <2>2, <3>3, SessionConstants DEF Current
    <3> QED
      BY <2>2, <3>4, <3>5, RetiredFacts, KeepsOp DEF IInv, TypeOK, Suspended
  <2>3. CASE /\ Current(o) /\ op' = [op EXCEPT ![o].proc = "pre"]
             /\ conf' = [conf EXCEPT ![o] = Asking(s.generation)] /\ UNCHANGED s
    <3> DEFINE f == [op[o] EXCEPT !.proc = "pre"]
    <3>1. f \in Operation
      BY <1>1, OpFields
    <3>2. /\ f.gen = op[o].gen /\ f.accepted /\ f.binding \in Bindings
          /\ f.run = op[o].run /\ f.drain = op[o].drain
      BY <1>1 DEF Operation
    <3>3. op' = [op EXCEPT ![o] = f] /\ s'.auth = s.auth
      BY <2>3
    <3> HIDE DEF f
    <3>4. op' \in [Ops -> Operation] /\ OpsCarried
      BY <3>1, <3>2, <3>3, KeepsOp
    <3> QED
      BY <1>1, <2>3, <3>4, Untouched, Conferring
  <2>4. CASE /\ Current(o) /\ Conclude(o, op[o], s)
             /\ conf' = [conf EXCEPT ![o] = Awaited(o, op[o], s)]
    <3>1. Settling(o, op[o], s)
      BY <1>1, <2>4 DEF Settling, Current, IInv, Stays
    <3>2. Awaited(o, op[o], s) \in {Idle, Asking(s.generation)}
      BY DEF Awaited
    <3> QED
      BY <1>1, <2>4, <3>1, <3>2, Concluding, Conferring
  <2> QED
    BY <2>1, <2>2, <2>3, <2>4 DEF EffectSettled
<1>3. TypeOK'
  BY <1>1, <1>2 DEF IInv, TypeOK, Sound
<1>4. Suspended' /\ Operating' /\ PostIsExclusive' /\ IdentityExpected
  BY <1>1, <1>2, <1>3, Carried DEF OpsCarried, Tasks, nativeEffects, inFlight
<1> QED
  BY <1>2, <1>3, <1>4 DEF IInv

\* A held answer is confirmed again (session.ts:181).
LEMMA PreConfirmedKeeps ==
  ASSUME IInv, NEW o \in Ops, PreConfirmed(o)
  PROVE  IInv' /\ IdentityExpected
<1> DEFINE b == op[o].binding
           ok == Accepts(o, o, b)
           f == [op[o] EXCEPT !.needsPreconfirm = FALSE]
           r == IF s.active \/ op[o].effect = "none" THEN f ELSE op[o]
<1>1. /\ UNCHANGED <<resume, req, clear, queue, cookie, pauses>>
      /\ op[o] \in Operation /\ op[o].accepted /\ op[o].binding \in Bindings
      /\ o \in Tasks /\ o \notin {"start", "resume", "recover"}
      /\ s.auth \in Ops \cup {NoOp} /\ reconfirmed' \in BOOLEAN
  BY SessionConstants DEF PreConfirmed, IInv, TypeOK, Sound, Supervisor, Operating,
     Tasks, Heard
<1>2. \/ /\ ok /\ Conclude(o, r, Accepted(s, o))
         /\ conf' = [conf EXCEPT ![o] = Awaited(o, r, s)]
      \/ /\ ~ok /\ s' = Refused(s, o, o, b) /\ conf' = [conf EXCEPT ![o] = Idle]
         /\ op' = [op EXCEPT ![o] = Finished(o, @, s')]
  BY DEF PreConfirmed, Heard
<1>3. /\ op' \in [Ops -> Operation] /\ OpsCarried
      /\ Sound(s') /\ (Stays(s, s') \/ Revoked(s, s'))
      /\ conf' \in [Tasks -> [busy : BOOLEAN, gen : Nat, seen : OptBinding]]
      /\ \A t \in Tasks : conf'[t].gen <= s.generation
      /\ \A t \in Tasks \ {o} : conf'[t] = conf[t]
  <2>1. CASE /\ ok /\ Conclude(o, r, Accepted(s, o))
             /\ conf' = [conf EXCEPT ![o] = Awaited(o, r, s)]
    <3>1. f \in Operation
      BY <1>1, OpFields
    <3>2. /\ f.gen = op[o].gen /\ f.accepted = op[o].accepted
          /\ f.binding = op[o].binding /\ f.run = op[o].run /\ f.drain = op[o].drain
      BY <1>1 DEF Operation
    <3>3. s.auth = o
      BY <2>1 DEF Accepts, Current
    <3>4. /\ Sound(Accepted(s, o)) /\ Stays(s, Accepted(s, o))
          /\ Accepted(s, o).auth = s.auth
      BY AcceptedSound DEF IInv
    <3> HIDE DEF f
    <3>5. Settling(o, r, Accepted(s, o))
      BY <1>1, <3>1, <3>2, <3>3, <3>4 DEF Settling
    <3>6. Awaited(o, r, s) \in {Idle, Asking(s.generation)}
      BY DEF Awaited
    <3> HIDE DEF r
    <3> QED
      BY <1>1, <2>1, <3>5, <3>6, Concluding, Conferring
  <2>2. CASE /\ ~ok /\ s' = Refused(s, o, o, b) /\ conf' = [conf EXCEPT ![o] = Idle]
             /\ op' = [op EXCEPT ![o] = Finished(o, @, s')]
    <3> DEFINE g == Finished(o, op[o], s')
    <3>1. Sound(s') /\ (Revoked(s, s') \/ (Stays(s, s') /\ s'.auth = s.auth))
      BY <1>1, <2>2, RefusedSound DEF IInv
    <3>2. g \in Operation /\ op' = [op EXCEPT ![o] = g]
      BY <1>1, <2>2, FinishedFacts
    <3>3. s'.auth # o => g = Retired
      BY <1>1, FinishedFacts
    <3>4. s'.auth = o => /\ g.gen = op[o].gen /\ g.accepted /\ g.binding \in Bindings
                         /\ g.run \in {"settling", "done"}
      <4> SUFFICES ASSUME s'.auth = o
                   PROVE  /\ g.gen = op[o].gen /\ g.accepted /\ g.binding \in Bindings
                          /\ g.run \in {"settling", "done"}
        OBVIOUS
      <4>1. /\ g.gen = op[o].gen /\ g.accepted = op[o].accepted
            /\ g.binding = op[o].binding /\ g.run = "done"
        <5>1. op[o] \in Operation
          BY <1>1
        <5> QED
          BY <5>1 DEF Finished, Operation
      <4> HIDE DEF g
      <4> QED
        BY <1>1, <4>1
    <3> HIDE DEF g
    <3>5. op' \in [Ops -> Operation] /\ OpsCarried
      BY <3>1, <3>2, <3>3, <3>4, KeepsOp
    <3> QED
      BY <1>1, <2>2, <3>1, <3>5, Conferring
  <2> QED
    BY <1>2, <2>1, <2>2
<1>4. TypeOK'
  BY <1>1, <1>3 DEF IInv, TypeOK, Sound
<1>5. Suspended' /\ Operating' /\ PostIsExclusive' /\ IdentityExpected
  BY <1>1, <1>3, <1>4, Carried DEF OpsCarried, Tasks, nativeEffects, inFlight
<1> QED
  BY <1>3, <1>4, <1>5 DEF IInv

\* The last confirmation publishes, revokes, raises the shield or changes nothing.
LEMMA FinalCases ==
  ASSUME IInv, NEW o \in Ops, FinalConfirmed(o), NEW b, b = op[o].binding
  PROVE  \/ s' \in Announced(b) /\ Accepts(o, o, b)
         \/ s' = Refused(s, o, o, b) /\ ~Accepts(o, o, b)
         \/ s' = Invalidated(s)
         \/ s' = s
<1>1. PICK x : /\ s' \in Told(x)
               /\ \/ x = Published(s, b) /\ Accepts(o, o, b)
                  \/ x = Refused(s, o, o, b) /\ ~Accepts(o, o, b)
                  \/ x = Invalidated(s)
                  \/ x = s
  BY DEF FinalConfirmed
<1>2. ~Accepts(o, o, b) => Refused(s, o, o, b) \in {s, Protected(s), Invalidated(s)}
  BY DEF Refused, Accepts
<1>3. Sound(s)
  BY DEF IInv
<1>4. CASE x = Refused(s, o, o, b) /\ ~Accepts(o, o, b)
  BY <1>1, <1>2, <1>3, <1>4, ToldCases
<1>5. CASE ~(x = Refused(s, o, o, b) /\ ~Accepts(o, o, b))
  BY <1>1, <1>3, <1>5, ToldCases
<1> QED
  BY <1>4, <1>5

\* The last confirmation publishes the owner the login or logout returned.
LEMMA FinalConfirmedKeeps ==
  ASSUME IInv, NEW o \in Ops, FinalConfirmed(o)
  PROVE  IInv' /\ IdentityExpected
<1> DEFINE b == op[o].binding
           g == Finished(o, op[o], s')
<1>1. /\ UNCHANGED <<resume, req, clear, queue, cookie, pauses>>
      /\ op[o] \in Operation /\ op[o].accepted /\ b \in Bindings
      /\ o \in Tasks /\ o \notin {"start", "resume", "recover"}
      /\ s.auth \in Ops \cup {NoOp} /\ reconfirmed' \in BOOLEAN
      /\ conf' = [conf EXCEPT ![o] = Idle] /\ op' = [op EXCEPT ![o] = g]
  BY SessionConstants DEF FinalConfirmed, IInv, TypeOK, Sound, Supervisor, Operating,
     Tasks, Heard
<1>2. /\ conf' \in [Tasks -> [busy : BOOLEAN, gen : Nat, seen : OptBinding]]
      /\ \A t \in Tasks : conf'[t].gen <= s.generation
      /\ \A t \in Tasks \ {o} : conf'[t] = conf[t]
  BY <1>1, Conferring
<1>3. g \in Operation
  BY <1>1, FinishedFacts
<1>4. s'.auth # o => g = Retired
  BY <1>1, FinishedFacts
<1>5. s'.auth = o => /\ g.gen = op[o].gen /\ g.accepted /\ g.binding \in Bindings
                     /\ g.run \in {"settling", "done"}
  <2> SUFFICES ASSUME s'.auth = o
               PROVE  /\ g.gen = op[o].gen /\ g.accepted /\ g.binding \in Bindings
                      /\ g.run \in {"settling", "done"}
    OBVIOUS
  <2>1. /\ g.gen = op[o].gen /\ g.accepted = op[o].accepted
        /\ g.binding = op[o].binding /\ g.run = "done"
    <3>1. op[o] \in Operation
      BY <1>1
    <3> QED
      BY <3>1 DEF Finished, Operation
  <2> HIDE DEF g
  <2> QED
    BY <1>1, <2>1
<1>6. CASE s' \in Announced(b) /\ Accepts(o, o, b)
  <2>1. /\ Sound(s') /\ s'.generation = s.generation + 1 /\ s'.auth = NoOp
        /\ s'.identity.binding = b /\ s.auth = o
    BY <1>1, <1>6, AnnouncedSound DEF IInv, Accepts, Current
  <2>2. g = Retired
    BY <1>4, <2>1, SessionConstants
  <2>3. op' \in [Ops -> Operation] /\ op'[o] = Retired /\ \A p \in Ops \ {o} : op'[p] = op[p]
    BY <1>1, <1>3, <2>2, Replacing
  <2>4. \A p \in Ops \ {o} : ~Submitted(p)
    BY <2>1, SessionConstants DEF IInv, Operating, Sound, Owned
  <2>5. TypeOK'
    BY <1>1, <1>2, <2>1, <2>3 DEF IInv, TypeOK, Sound
  <2>6. Suspended' /\ Operating' /\ PostIsExclusive'
    BY <1>2, <2>1, <2>3, <2>4, <2>5, Renewing, RetiredFacts DEF IInv, Operating, Submitted
  <2>7. IdentityExpected
    BY <1>1, <2>1, SessionConstants DEF IdentityExpected
  <2> QED
    BY <2>1, <2>5, <2>6, <2>7 DEF IInv
<1>7. CASE Sound(s') /\ (Revoked(s, s') \/ (Stays(s, s') /\ s'.auth = s.auth))
  <2> HIDE DEF g
  <2>1. op' \in [Ops -> Operation] /\ OpsCarried
    BY <1>1, <1>3, <1>4, <1>5, <1>7, KeepsOp
  <2>2. TypeOK'
    BY <1>1, <1>2, <1>7, <2>1 DEF IInv, TypeOK, Sound
  <2>3. Suspended' /\ Operating' /\ PostIsExclusive' /\ IdentityExpected
    BY <1>1, <1>2, <1>7, <2>1, <2>2, Carried DEF OpsCarried, Tasks, nativeEffects,
       inFlight
  <2> QED
    BY <1>7, <2>2, <2>3 DEF IInv
<1>8. \/ s' \in Announced(b) /\ Accepts(o, o, b)
      \/ s' = Refused(s, o, o, b) /\ ~Accepts(o, o, b)
      \/ s' = Invalidated(s)
      \/ s' = s
  BY FinalCases
<1>9. CASE s' = Refused(s, o, o, b) /\ ~Accepts(o, o, b)
  BY <1>1, <1>7, <1>9, RefusedSound DEF IInv
<1>10. CASE s' = Invalidated(s)
  BY <1>7, <1>10, InvalidatedSound DEF IInv
<1>11. CASE s' = s
  BY <1>7, <1>11 DEF IInv, Stays
<1> QED
  BY <1>6, <1>8, <1>9, <1>10, <1>11
-----------------------------------------------------------------------------
\* A record whose job alone has moved.
JobMoved(o, f) ==
  /\ f \in Operation
  /\ f.gen = op[o].gen /\ f.accepted = op[o].accepted /\ f.binding = op[o].binding
  /\ f.proc = op[o].proc /\ f.run = op[o].run /\ f.drain = op[o].drain

Jobs == {"queued", "waiting", "pre", "writing", "compensating", "settled"}
Results == {"none", "stored", "failed", "stale"}

\* Each record the storage queue writes moves the job of an operation and
\* nothing the invariant looks at (session-effects.ts:32).
LEMMA JobMoves ==
  ASSUME IInv, NEW o \in Ops, NEW job \in Jobs, NEW f, f = [op[o] EXCEPT !.job = job]
  PROVE  JobMoved(o, f)
<1>1. op[o] \in Operation
  BY DEF IInv, TypeOK
<1>2. f \in Operation
  BY <1>1, OpFields DEF Jobs
<1>3. /\ f.gen = op[o].gen /\ f.accepted = op[o].accepted /\ f.binding = op[o].binding
      /\ f.proc = op[o].proc /\ f.run = op[o].run /\ f.drain = op[o].drain
  BY <1>1 DEF Operation
<1> QED
  BY <1>2, <1>3 DEF JobMoved

\* A job that ends and one that goes on are records of an operation.
LEMMA JobResults ==
  ASSUME NEW o \in Ops, NEW f, JobMoved(o, f), NEW result \in Results,
         NEW g, g = [f EXCEPT !.result = result] \/ g = [f EXCEPT !.needsPreconfirm = FALSE]
  PROVE  JobMoved(o, g)
<1>1. g \in Operation
  BY OpFields DEF JobMoved, Results
<1>2. /\ g.gen = f.gen /\ g.accepted = f.accepted /\ g.binding = f.binding
      /\ g.proc = f.proc /\ g.run = f.run /\ g.drain = f.drain
  BY DEF JobMoved, Operation
<1> QED
  BY <1>1, <1>2 DEF JobMoved

\* Such a record may replace the old one.
LEMMA KeepsJob ==
  ASSUME IInv, NEW o \in Ops, NEW f, JobMoved(o, f), op' = [op EXCEPT ![o] = f],
         s'.auth = s.auth \/ Revoked(s, s')
  PROVE  op' \in [Ops -> Operation] /\ OpsCarried
BY KeepsOp DEF JobMoved

\* A job that ends takes its result along (JobEnds).
LEMMA KeepsJobEnd ==
  ASSUME IInv, NEW o \in Ops, NEW result \in Results,
         op' = [op EXCEPT ![o].job = "settled", ![o].result = result],
         s'.auth = s.auth \/ Revoked(s, s')
  PROVE  op' \in [Ops -> Operation] /\ OpsCarried
<1> DEFINE f == [op[o] EXCEPT !.job = "settled"]
           g == [f EXCEPT !.result = result]
<1>1. "settled" \in Jobs
  BY DEF Jobs
<1>2. JobMoved(o, f)
  <2>1. f = [op[o] EXCEPT !.job = "settled"]
    OBVIOUS
  <2> HIDE DEF f
  <2> QED
    BY <1>1, <2>1, JobMoves
<1>3. op' = [op EXCEPT ![o] = g]
  BY DEF IInv, TypeOK
<1>4. JobMoved(o, g)
  <2>1. g = [f EXCEPT !.result = result]
    OBVIOUS
  <2> HIDE DEF f, g
  <2> QED
    BY <1>2, <2>1, JobResults
<1> HIDE DEF g
<1> QED
  BY <1>3, <1>4, KeepsJob

\* A job that goes on.
LEMMA KeepsJobStep ==
  ASSUME IInv, NEW o \in Ops, NEW job \in Jobs, op' = [op EXCEPT ![o].job = job],
         s'.auth = s.auth \/ Revoked(s, s')
  PROVE  op' \in [Ops -> Operation] /\ OpsCarried
<1> DEFINE f == [op[o] EXCEPT !.job = job]
<1>1. JobMoved(o, f)
  <2>1. f = [op[o] EXCEPT !.job = job]
    OBVIOUS
  <2> HIDE DEF f
  <2> QED
    BY <2>1, JobMoves
<1>2. op' = [op EXCEPT ![o] = f]
  BY DEF IInv, TypeOK
<1> HIDE DEF f
<1> QED
  BY <1>1, <1>2, KeepsJob

\* The queue loses its head.
LEMMA Dequeuing ==
  ASSUME IInv, NEW j, AtHead(j)
  PROVE  queue \in Seq(Ops \cup Clears) /\ Tail(queue) \in Seq(Ops \cup Clears)
BY HeadTailProperties DEF IInv, TypeOK, AtHead

\* A job of the storage queue gets its turn (session.ts:163).
LEMMA JobRunsKeeps ==
  ASSUME IInv, NEW o \in Ops, JobRuns(o)
  PROVE  IInv' /\ IdentityExpected
<1>1. /\ UNCHANGED <<s, resume, req, clear, cookie, pauses, reconfirmed>>
      /\ queue' \in {queue, Tail(queue)} /\ AtHead(o)
      /\ o \in Tasks /\ o \notin {"start", "resume", "recover"}
  BY SessionConstants DEF JobRuns, JobEnds, Tasks
<1>2. op' \in [Ops -> Operation] /\ OpsCarried
  <2>1. CASE op' = [op EXCEPT ![o].job = "settled", ![o].result = "stale"]
    BY <1>1, <2>1, KeepsJobEnd DEF Results
  <2>2. CASE op' = [op EXCEPT ![o].job = "pre"]
    BY <1>1, <2>2, KeepsJobStep DEF Jobs
  <2>3. CASE op' = [op EXCEPT ![o].job = "writing"]
    BY <1>1, <2>3, KeepsJobStep DEF Jobs
  <2> QED
    BY <2>1, <2>2, <2>3 DEF JobRuns, JobEnds
<1>3. /\ conf' \in [Tasks -> [busy : BOOLEAN, gen : Nat, seen : OptBinding]]
      /\ \A t \in Tasks : conf'[t].gen <= s.generation
      /\ \A t \in Tasks \ {o} : conf'[t] = conf[t]
  BY <1>1, Conferring DEF JobRuns, IInv, TypeOK, Suspended
<1>4. TypeOK'
  BY <1>1, <1>2, <1>3, Dequeuing, Untouched DEF IInv, TypeOK
<1>5. Suspended' /\ Operating' /\ PostIsExclusive' /\ IdentityExpected
  BY <1>1, <1>2, <1>3, <1>4, Untouched, Carried DEF OpsCarried, Tasks, nativeEffects,
     inFlight
<1> QED
  BY <1>1, <1>4, <1>5, Untouched DEF IInv

\* It re-observes the owner first (session.ts:167).
LEMMA JobConfirmedKeeps ==
  ASSUME IInv, NEW o \in Ops, JobConfirmed(o)
  PROVE  IInv' /\ IdentityExpected
<1> DEFINE b == op[o].binding
<1>1. /\ UNCHANGED <<resume, req, clear, cookie, pauses>>
      /\ queue' \in {queue, Tail(queue)} /\ AtHead(o)
      /\ o \in Tasks /\ o \notin {"start", "resume", "recover"}
      /\ conf' = [conf EXCEPT ![o] = Idle] /\ reconfirmed' \in BOOLEAN
  BY SessionConstants DEF JobConfirmed, JobEnds, Tasks, Heard, IInv, TypeOK
<1>2. Sound(s') /\ (Revoked(s, s') \/ (Stays(s, s') /\ s'.auth = s.auth))
  BY <1>1, RefusedSound, AcceptedSound DEF JobConfirmed, IInv
<1>3. op' \in [Ops -> Operation] /\ OpsCarried
  <2>1. CASE op' = [op EXCEPT ![o].job = "settled", ![o].result = "failed"]
    BY <1>2, <2>1, KeepsJobEnd DEF Results
  <2>2. CASE op' = [op EXCEPT ![o].job = "settled", ![o].result = "stale"]
    BY <1>2, <2>2, KeepsJobEnd DEF Results
  <2>3. CASE op' = [op EXCEPT ![o] = [@ EXCEPT !.job = "writing",
                                               !.needsPreconfirm = FALSE]]
    <3> DEFINE f == [op[o] EXCEPT !.job = "writing"]
               g == [f EXCEPT !.needsPreconfirm = FALSE]
    <3>1. op' = [op EXCEPT ![o] = g]
      BY <2>3
    <3>2. f = [op[o] EXCEPT !.job = "writing"] /\ g = [f EXCEPT !.needsPreconfirm = FALSE]
      OBVIOUS
    <3> HIDE DEF f, g
    <3>3. "writing" \in Jobs /\ "none" \in Results
      BY DEF Jobs, Results
    <3>4. JobMoved(o, f)
      BY <3>2, <3>3, JobMoves
    <3>5. JobMoved(o, g)
      BY <3>2, <3>3, <3>4, JobResults
    <3> QED
      BY <1>2, <3>1, <3>5, KeepsJob
  <2>4. CASE op' = [op EXCEPT ![o].job = "waiting"]
    BY <1>2, <2>4, KeepsJobStep DEF Jobs
  <2> QED
    BY <2>1, <2>2, <2>3, <2>4 DEF JobConfirmed, JobEnds
<1>4. /\ conf' \in [Tasks -> [busy : BOOLEAN, gen : Nat, seen : OptBinding]]
      /\ \A t \in Tasks : conf'[t].gen <= s.generation
      /\ \A t \in Tasks \ {o} : conf'[t] = conf[t]
  BY <1>1, Conferring
<1>5. TypeOK'
  BY <1>1, <1>2, <1>3, <1>4, Dequeuing DEF IInv, TypeOK, Sound
<1>6. Suspended' /\ Operating' /\ PostIsExclusive' /\ IdentityExpected
  BY <1>1, <1>2, <1>3, <1>4, <1>5, Carried DEF OpsCarried, Tasks, nativeEffects, inFlight
<1> QED
  BY <1>2, <1>5, <1>6 DEF IInv

\* It reaches the native store (session-effects.ts:22).
LEMMA JobWrittenKeeps ==
  ASSUME IInv, NEW o \in Ops, JobWritten(o)
  PROVE  IInv' /\ IdentityExpected
<1>1. /\ UNCHANGED <<s, resume, req, clear, conf, cookie, pauses, reconfirmed>>
      /\ queue' \in {queue, Tail(queue)} /\ AtHead(o)
  BY DEF JobWritten, JobEnds
<1>2. op' \in [Ops -> Operation] /\ OpsCarried
  <2>1. CASE op' = [op EXCEPT ![o].job = "compensating"]
    BY <1>1, <2>1, KeepsJobStep DEF Jobs
  <2>2. ASSUME NEW r \in {"stored", "failed", "stale"},
               op' = [op EXCEPT ![o].job = "settled", ![o].result = r]
        PROVE  op' \in [Ops -> Operation] /\ OpsCarried
    BY <1>1, <2>2, KeepsJobEnd DEF Results
  <2> QED
    BY <2>1, <2>2 DEF JobWritten, JobEnds
<1>4. TypeOK'
  BY <1>1, <1>2, Dequeuing, Untouched DEF IInv, TypeOK
<1>5. Suspended' /\ Operating' /\ PostIsExclusive' /\ IdentityExpected
  BY <1>1, <1>2, <1>4, Untouched, Carried DEF OpsCarried, Tasks, nativeEffects,
     inFlight, IInv, Suspended
<1> QED
  BY <1>1, <1>4, <1>5, Untouched DEF IInv
-----------------------------------------------------------------------------
\* A clear admitted from the screen belongs to its owner: no POST is out, and
\* no login or logout is open that would not wait for it.
LEMMA ClearAdmittedKeeps ==
  ASSUME IInv, NEW c \in Clears, ClearAdmitted(c)
  PROVE  IInv' /\ IdentityExpected
<1>1. /\ UNCHANGED <<s, resume, op, req, conf, cookie, pauses, reconfirmed>>
      /\ s.auth = NoOp /\ Owned(s) /\ queue' = Append(queue, c)
      /\ clear' = [clear EXCEPT ![c] = [pc |-> "queued", gen |-> s.generation]]
  BY DEF ClearAdmitted, Visible, Owned, HasIdentity
<1>2. TypeOK'
  <2>1. queue' \in Seq(Ops \cup Clears)
    BY <1>1, AppendProperties DEF IInv, TypeOK
  <2>2. [pc |-> "queued", gen |-> s.generation] \in
          [pc : {"new", "queued", "writing", "done"}, gen : Nat]
    BY DEF IInv, Sound, Supervisor
  <2>3. clear' \in [Clears -> [pc : {"new", "queued", "writing", "done"}, gen : Nat]]
    BY <1>1, <2>2 DEF IInv, TypeOK
  <2> QED
    BY <1>1, <2>1, <2>3 DEF IInv, TypeOK
<1>3. \A o \in Ops : ~Submitted(o)
  BY <1>1, SessionConstants DEF IInv, Operating
<1>4. PostIsExclusive' /\ Operating' /\ Suspended' /\ IdentityExpected
  BY <1>1, <1>3, SessionConstants DEF PostIsExclusive, Submitted, IInv, Operating,
     Suspended, Live, IdentityExpected
<1> QED
  BY <1>1, <1>2, <1>4, Untouched DEF IInv

\* A clear that gets its turn.
LEMMA ClearRunsKeeps ==
  ASSUME IInv, NEW c \in Clears, ClearRuns(c)
  PROVE  IInv' /\ IdentityExpected
<1>1. /\ UNCHANGED <<s, resume, op, req, conf, cookie, pauses, reconfirmed>>
      /\ queue' \in {queue, Tail(queue)} /\ AtHead(c) /\ clear[c].pc = "queued"
  BY DEF ClearRuns
<1>2. PICK pc \in {"writing", "done"} : clear' = [clear EXCEPT ![c].pc = pc]
  BY DEF ClearRuns
<1>3. TypeOK'
  BY <1>1, <1>2, Dequeuing DEF IInv, TypeOK
<1>4. nativeEffects' \subseteq nativeEffects
  BY <1>1, <1>2 DEF IInv, TypeOK, nativeEffects
<1>5. Suspended' /\ Operating' /\ PostIsExclusive' /\ IdentityExpected
  BY <1>1, <1>3, <1>4, Untouched, Carried DEF IInv, Suspended, Operating,
     Submitted, Tasks, inFlight
<1> QED
  BY <1>1, <1>3, <1>5, Untouched DEF IInv

\* A clear that reaches the device.
LEMMA ClearWrittenKeeps ==
  ASSUME IInv, NEW c \in Clears, ClearWritten(c)
  PROVE  IInv' /\ IdentityExpected
<1>1. /\ UNCHANGED <<s, resume, op, req, conf, cookie, pauses, reconfirmed>>
      /\ queue' = Tail(queue) /\ AtHead(c) /\ clear' = [clear EXCEPT ![c].pc = "done"]
  BY DEF ClearWritten
<1>2. TypeOK'
  BY <1>1, Dequeuing DEF IInv, TypeOK
<1>3. nativeEffects' \subseteq nativeEffects
  BY <1>1 DEF IInv, TypeOK, nativeEffects
<1>4. Suspended' /\ Operating' /\ PostIsExclusive' /\ IdentityExpected
  BY <1>1, <1>2, <1>3, Untouched, Carried DEF IInv, Suspended, Operating,
     Submitted, Tasks, inFlight
<1> QED
  BY <1>1, <1>2, <1>4, Untouched DEF IInv

-----------------------------------------------------------------------------
\* Only an identity makes the Root ready.
LEMMA MarkRootReadyKeeps ==
  ASSUME IInv, MarkRootReady
  PROVE  IInv' /\ IdentityExpected
<1>1. /\ UNCHANGED <<resume, op, req, clear, queue, conf, cookie, pauses, reconfirmed>>
      /\ s' = [s EXCEPT !.rootReady = TRUE] /\ s.identity # NoIdentity
  BY DEF MarkRootReady, HasIdentity
<1>2. Sound(s') /\ Stays(s, s') /\ s'.auth = s.auth
  BY <1>1 DEF IInv, Sound, Stays, Owned, Supervisor
<1>3. TypeOK'
  BY <1>1, <1>2 DEF IInv, TypeOK, Sound
<1>4. Suspended' /\ Operating' /\ PostIsExclusive' /\ IdentityExpected
  BY <1>1, <1>2, <1>3, Carried DEF IInv, Suspended, Operating, Submitted, Tasks,
     inFlight, nativeEffects
<1> QED
  BY <1>2, <1>3, <1>4 DEF IInv

\* The stream revokes the owner.
LEMMA StreamRevokesKeeps ==
  ASSUME IInv, StreamRevokes
  PROVE  IInv' /\ IdentityExpected
<1>1. /\ UNCHANGED <<resume, op, req, clear, queue, conf, cookie, pauses, reconfirmed>>
      /\ s' = Invalidated(s)
  BY DEF StreamRevokes
<1>2. Sound(s') /\ Revoked(s, s')
  BY <1>1, InvalidatedSound DEF IInv
<1>3. TypeOK'
  BY <1>1, <1>2 DEF IInv, TypeOK, Sound
<1>4. Suspended' /\ Operating' /\ PostIsExclusive' /\ IdentityExpected
  BY <1>1, <1>2, <1>3, SessionConstants, Carried DEF IInv, Suspended, Operating,
     Submitted, Tasks, inFlight, nativeEffects, Revoked
<1> QED
  BY <1>2, <1>3, <1>4 DEF IInv

\* Sign in starts a generation of nobody, when nothing submitted is open.
LEMMA RecoveryStartKeeps ==
  ASSUME IInv, RecoveryStart
  PROVE  IInv' /\ IdentityExpected
<1>1. /\ UNCHANGED <<resume, op, req, clear, queue, cookie, pauses, reconfirmed>>
      /\ s' = Invalidated(s) /\ ~authExecuting
      /\ conf' = [conf EXCEPT !["recover"] = Asking(s.generation + 1)]
  BY DEF RecoveryStart
<1>2. Sound(s') /\ Revoked(s, s') /\ s.generation \in Nat
  BY <1>1, InvalidatedSound DEF IInv, Sound, Supervisor
<1>3. /\ "recover" \in Tasks
      /\ Asking(s.generation + 1) \in [busy : BOOLEAN, gen : Nat, seen : OptBinding]
      /\ Asking(s.generation + 1).gen = s.generation + 1
  BY <1>2 DEF Tasks, Asking, OptBinding
<1>4. /\ conf' \in [Tasks -> [busy : BOOLEAN, gen : Nat, seen : OptBinding]]
      /\ conf'["recover"].gen = s'.generation
      /\ \A t \in Tasks \ {"recover"} : conf'[t] = conf[t]
  BY <1>1, <1>2, <1>3 DEF IInv, TypeOK, Revoked
<1>5. TypeOK'
  BY <1>1, <1>2, <1>4 DEF IInv, TypeOK, Sound
<1>6. s'.generation = s.generation + 1 /\ s'.auth = NoOp /\ s'.startupRevoked /\ ~Owned(s')
  BY <1>2 DEF Revoked
<1>7. \A t \in Tasks \ {"recover"} : conf'[t].gen <= s.generation /\ ~Live(t)'
  <2> SUFFICES ASSUME NEW t \in Tasks \ {"recover"}
               PROVE  conf'[t].gen <= s.generation /\ ~Live(t)'
    OBVIOUS
  <2>1. conf'[t].gen = conf[t].gen /\ conf[t].gen <= s.generation /\ conf[t].gen \in Nat
    BY <1>4 DEF IInv, Suspended, TypeOK
  <2> QED
    BY <1>2, <1>6, <2>1 DEF Live
<1>8. Suspended'
  <2>1. \A t \in Tasks : conf'[t].gen <= s'.generation
    BY <1>2, <1>4, <1>6, <1>7
  <2>2. ~Live("start")' /\ ~Live("resume")'
    BY <1>7 DEF Tasks
  <2> QED
    BY <1>6, <2>1, <2>2 DEF Suspended
<1>9. \A o \in Ops : ~Submitted(o)'
  BY <1>1 DEF authExecuting, Submitted
<1>10. Operating'
  BY <1>1, <1>6, <1>9, SessionConstants DEF IInv, Operating
<1>11. PostIsExclusive' /\ IdentityExpected
  BY <1>6, <1>9 DEF PostIsExclusive, Submitted, IdentityExpected, Owned
<1> QED
  BY <1>2, <1>5, <1>8, <1>10, <1>11 DEF IInv

\* Forgetting the operation behind the shield keeps the owner.
LEMMA DroppedSound ==
  ASSUME Sound(s), s' = [Protected(s) EXCEPT !.auth = NoOp]
  PROVE  Sound(s') /\ Stays(s, s') /\ s'.auth = NoOp
<1> DEFINE y == Protected(s)
<1>1. Sound(y) /\ Stays(s, y)
  BY ProtectedSound
<1>2. s' = [y EXCEPT !.auth = NoOp]
  OBVIOUS
<1> HIDE DEF y
<1>3. s' \in Supervisor
  <2>1. y \in Supervisor
    BY <1>1 DEF Sound
  <2>2. [y EXCEPT !.auth = NoOp] \in Supervisor
    BY <2>1, Fields, Absent
  <2> QED
    BY <1>2, <2>2
<1>4. /\ s'.auth = NoOp
      /\ s'.generation = y.generation /\ s'.identity = y.identity
      /\ s'.recovery = y.recovery /\ s'.everConfirmed = y.everConfirmed
      /\ s'.startupRevoked = y.startupRevoked /\ s'.rootReady = y.rootReady
      /\ s'.availability = y.availability /\ s'.active = y.active
  BY <1>1, <1>2 DEF Sound, Supervisor
<1> QED
  BY <1>1, <1>3, <1>4 DEF Sound, Stays, Owned

\* Only what is unsent or answered may be abandoned (session.ts:433).
LEMMA AbandonKeeps ==
  ASSUME IInv, Abandon
  PROVE  IInv' /\ IdentityExpected
<1>1. /\ UNCHANGED <<resume, req, clear, queue, conf, cookie, pauses, reconfirmed>>
      /\ s' = [Protected(s) EXCEPT !.auth = NoOp] /\ s.auth \in Ops
      /\ op' = IF Sent(s.auth) THEN [op EXCEPT ![s.auth] = Retired] ELSE op
  BY DEF Abandon, IInv, Sound, Supervisor
<1>2. Sound(s') /\ Stays(s, s') /\ s'.auth = NoOp
  BY <1>1, DroppedSound DEF IInv
<1>3. op' \in [Ops -> Operation] /\ OpsCarried
  <2>1. CASE Sent(s.auth)
    BY <1>1, <1>2, <2>1, SessionConstants, RetiredFacts, KeepsOp
  <2>2. CASE ~Sent(s.auth)
    BY <1>1, <1>2, <2>2, SessionConstants DEF OpsCarried, IInv, TypeOK, Operating,
       Submitted, Sent
  <2> QED
    BY <2>1, <2>2
<1>4. TypeOK'
  BY <1>1, <1>2, <1>3 DEF IInv, TypeOK, Sound
<1>5. Suspended' /\ Operating' /\ PostIsExclusive' /\ IdentityExpected
  BY <1>1, <1>2, <1>3, <1>4, Carried DEF OpsCarried, IInv, Suspended, Tasks,
     nativeEffects, inFlight
<1> QED
  BY <1>2, <1>4, <1>5 DEF IInv

\* pause() hides the screen and keeps its owner (session.ts:282).
LEMMA PauseKeeps ==
  ASSUME IInv, Pause
  PROVE  IInv' /\ IdentityExpected
<1> DEFINE y == [s EXCEPT !.active = FALSE]
           z == [y EXCEPT !.availability = "paused"]
<1>1. /\ UNCHANGED <<resume, req, clear, queue, conf, cookie>>
      /\ s' = [z EXCEPT !.recovery.confirmed = FALSE]
      /\ pauses' = pauses + 1 /\ reconfirmed' = FALSE
      /\ s.auth \in Ops \cup {NoOp}
  BY DEF Pause, IInv, Sound, Supervisor
<1>2. Sound(z) /\ Stays(s, z) /\ z.auth = s.auth /\ z.recovery = s.recovery
  <2>1. z \in Supervisor
    BY Fields DEF IInv, Sound, Availability
  <2>2. /\ z.generation = s.generation /\ z.identity = s.identity
        /\ z.recovery = s.recovery /\ z.everConfirmed = s.everConfirmed
        /\ z.startupRevoked = s.startupRevoked /\ z.rootReady = s.rootReady
        /\ z.auth = s.auth /\ z.availability = "paused"
    BY DEF IInv, Sound, Supervisor
  <2> HIDE DEF z
  <2> QED
    BY <2>1, <2>2 DEF IInv, Sound, Stays, Owned
<1> HIDE DEF z
<1>3. Sound(s') /\ Stays(s, s') /\ s'.auth = s.auth
  <2>1. CASE z.recovery # NoRecovery
    <3>1. Sound(s') /\ Stays(z, s') /\ s'.auth = z.auth /\ s'.availability = z.availability
      BY <1>1, <1>2, <2>1, ConfirmedSound
    <3> QED
      BY <1>2, <3>1 DEF Stays
  <2>2. CASE z.recovery = NoRecovery
    <3>1. z.recovery = [z.recovery EXCEPT !.confirmed = FALSE]
      <4>1. /\ z.recovery \in [binding : {NoBinding}, generation : Nat, confirmed : BOOLEAN]
            /\ z.recovery.confirmed = FALSE
        BY <2>2 DEF NoRecovery
      <4> QED
        BY <4>1
    <3>2. s' = z
      BY <1>1, <1>2, <3>1 DEF Sound, Supervisor
    <3> QED
      BY <1>2, <3>2
  <2> QED
    BY <2>1, <2>2
<1>4. op' \in [Ops -> Operation] /\ OpsCarried
  <2>1. CASE s.auth = NoOp
    BY <1>3, <2>1 DEF Pause, OpsCarried, IInv, TypeOK, Operating, Submitted
  <2>2. CASE s.auth # NoOp
    <3> DEFINE a == s.auth
               f == [op[a] EXCEPT !.resumeConfirmed = op[a].resumeConfirmed /\ Sent(a)]
               g == [f EXCEPT !.needsPreconfirm = f.needsPreconfirm \/ op[a].accepted]
    <3>1. a \in Ops /\ op[a] \in Operation
      BY <1>1, <2>2 DEF IInv, TypeOK
    <3>2. op' = [op EXCEPT ![a] = g]
      BY <2>2, <3>1 DEF Pause, IInv, TypeOK, Operation
    <3>3. f \in Operation
      <4>1. (op[a].resumeConfirmed /\ Sent(a)) \in BOOLEAN
        OBVIOUS
      <4> QED
        BY <3>1, <4>1, OpFields
    <3>4. /\ f.gen = op[a].gen /\ f.accepted = op[a].accepted
          /\ f.binding = op[a].binding /\ f.proc = op[a].proc
          /\ f.run = op[a].run /\ f.drain = op[a].drain
      BY <3>1 DEF Operation
    <3> HIDE DEF f
    <3>5. g \in Operation
      <4>1. (f.needsPreconfirm \/ op[a].accepted) \in BOOLEAN
        OBVIOUS
      <4> QED
        BY <3>3, <4>1, OpFields
    <3>6. /\ g.gen = f.gen /\ g.accepted = f.accepted
          /\ g.binding = f.binding /\ g.proc = f.proc
          /\ g.run = f.run /\ g.drain = f.drain
      BY <3>3 DEF Operation
    <3> HIDE DEF g
    <3> QED
      BY <1>3, <3>1, <3>2, <3>4, <3>5, <3>6, KeepsOp
  <2> QED
    BY <2>1, <2>2
<1>5. TypeOK'
  <2>1. pauses' \in Nat
    <3>1. pauses' = pauses + 1 /\ pauses \in Nat
      BY DEF Pause, IInv, TypeOK
    <3> QED
      BY <3>1
  <2>2. reconfirmed' \in BOOLEAN
    <3>1. reconfirmed' = FALSE
      BY <1>1
    <3> QED
      BY <3>1
  <2> QED
    BY <1>1, <1>3, <1>4, <2>1, <2>2 DEF IInv, TypeOK, Sound
<1>6. Suspended' /\ Operating' /\ PostIsExclusive' /\ IdentityExpected
  BY <1>1, <1>3, <1>4, <1>5, Carried DEF OpsCarried, IInv, Suspended, Tasks,
     nativeEffects, inFlight
<1> QED
  BY <1>3, <1>5, <1>6 DEF IInv

-----------------------------------------------------------------------------
\* A first observation publishes an owner only where nobody has been.
LEMMA Adopting ==
  ASSUME IInv, NEW t \in {"start", "resume"}, t = "start" \/ resume.pc = "bootstrap",
         conf[t].busy, conf' = [conf EXCEPT ![t] = Idle], s' \in Told(Adopted(s, t)),
         reconfirmed' \in BOOLEAN, resume' \in {resume, Resting},
         UNCHANGED <<op, req, clear, queue, cookie, pauses>>
  PROVE  IInv' /\ IdentityExpected
<1>1. t \in Tasks /\ s.auth \in Ops \cup {NoOp}
  BY DEF Tasks, IInv, Sound, Supervisor
<1>2. /\ conf' \in [Tasks -> [busy : BOOLEAN, gen : Nat, seen : OptBinding]]
      /\ \A u \in Tasks : conf'[u].gen <= s.generation
      /\ \A u \in Tasks : conf'[u].busy => conf'[u] = conf[u]
  BY <1>1, Conferring
<1>3. Sound(s')
  BY <1>1, AdoptedSound DEF IInv
<1>4. Resting.pc = "idle" /\ Resting.op = NoOp
  BY DEF Resting
<1>5. TypeOK'
  BY <1>2, <1>3, <1>4 DEF IInv, TypeOK, Sound, Resting
<1>6. CASE Stays(s, s') /\ s'.auth = s.auth
  <2>1. Suspended' /\ Operating' /\ PostIsExclusive' /\ IdentityExpected
    BY <1>1, <1>2, <1>3, <1>4, <1>5, <1>6, Carried DEF IInv, Operating, Submitted,
       Tasks, inFlight, nativeEffects
  <2> QED
    BY <1>3, <1>5, <2>1 DEF IInv
<1>7. CASE conf[t].gen = s.generation /\ s'.auth = NoOp /\ s'.generation = s.generation + 1
  <2>1. ~s.everConfirmed /\ ~s.startupRevoked
    BY <1>7 DEF IInv, Suspended, Live
  <2>2. \A o \in Ops : ~Submitted(o)
    BY <2>1, SessionConstants DEF IInv, Operating, Sound, Owned
  <2>3. Suspended' /\ Operating' /\ PostIsExclusive'
    BY <1>2, <1>3, <1>5, <1>7, <2>2, Renewing DEF IInv, Operating, Submitted
  <2>4. IdentityExpected
    BY <2>1 DEF IdentityExpected
  <2> QED
    BY <1>3, <1>5, <2>3, <2>4 DEF IInv
<1> QED
  BY <1>1, <1>6, <1>7, AdoptedSound DEF IInv

\* bootstrap(), at start or on foreground.
LEMMA StartKeeps ==
  ASSUME IInv, Start
  PROVE  IInv' /\ IdentityExpected
<1>1. /\ UNCHANGED <<resume, op, req, clear, queue, cookie, pauses>>
      /\ conf["start"].busy /\ conf' = [conf EXCEPT !["start"] = Idle]
      /\ s' \in Told(Adopted(s, "start")) /\ reconfirmed' \in BOOLEAN
  BY DEF Start, Heard, IInv, TypeOK
<1> QED
  BY <1>1, Adopting

\* The same when foreground() has asked.
LEMMA ResumeBootstrapKeeps ==
  ASSUME IInv, ResumeBootstrap
  PROVE  IInv' /\ IdentityExpected
<1>1. /\ UNCHANGED <<op, req, clear, queue, cookie, pauses>>
      /\ conf["resume"].busy /\ conf' = [conf EXCEPT !["resume"] = Idle]
      /\ s' \in Told(Adopted(s, "resume")) /\ reconfirmed' \in BOOLEAN
      /\ resume' = Resting /\ resume.pc = "bootstrap"
  BY DEF ResumeBootstrap, Heard, IInv, TypeOK
<1> QED
  BY <1>1, Adopting

\* foreground() confirms the owner it suspended (session.ts:283).
LEMMA ResumeOwnerKeeps ==
  ASSUME IInv, ResumeOwner
  PROVE  IInv' /\ IdentityExpected
<1>1. /\ UNCHANGED <<op, req, clear, queue, cookie, pauses>> /\ "resume" \in Tasks
      /\ conf' = [conf EXCEPT !["resume"] = Idle] /\ reconfirmed' \in BOOLEAN
      /\ resume' = Resting /\ s' = Reconciled(s, "resume", TRUE)
  BY DEF ResumeOwner, Heard, Tasks, IInv, TypeOK
<1>2. Sound(s') /\ (Revoked(s, s') \/ (Stays(s, s') /\ s'.auth = s.auth))
  BY <1>1, ReconciledSound DEF IInv
<1>3. /\ conf' \in [Tasks -> [busy : BOOLEAN, gen : Nat, seen : OptBinding]]
      /\ \A u \in Tasks : conf'[u].gen <= s.generation
      /\ \A u \in Tasks : conf'[u].busy => conf'[u] = conf[u]
  BY <1>1, Conferring
<1>4. TypeOK' /\ resume'.pc = "idle"
  BY <1>1, <1>2, <1>3 DEF IInv, TypeOK, Sound, Resting
<1>5. Suspended' /\ Operating' /\ PostIsExclusive' /\ IdentityExpected
  BY <1>1, <1>2, <1>3, <1>4, Carried DEF IInv, Operating, Submitted, Tasks,
     nativeEffects, inFlight, Revoked
<1> QED
  BY <1>2, <1>4, <1>5 DEF IInv

\* An unsent authentication goes on, waits behind the shield, or is revoked.
LEMMA ResumeUnsentKeeps ==
  ASSUME IInv, ResumeUnsent
  PROVE  IInv' /\ IdentityExpected
<1> DEFINE o == resume.op
           ok == Accepts("resume", o, op[o].expected)
           y == Accepted(s, o)
<1>1. /\ UNCHANGED <<req, clear, queue, cookie, pauses>> /\ "resume" \in Tasks
      /\ conf' = [conf EXCEPT !["resume"] = Idle] /\ reconfirmed' \in BOOLEAN
      /\ resume' = Resting
      /\ op' = IF ok /\ s.active THEN [op EXCEPT ![o].resumeConfirmed = TRUE] ELSE op
      /\ s' = CASE ~ok -> Refused(s, "resume", o, op[o].expected)
                [] ok /\ ~s.active -> s
                [] ok /\ s.active -> [y EXCEPT !.availability = "auth-pending"]
  BY DEF ResumeUnsent, Heard, Tasks, IInv, TypeOK
<1>2. Sound(s') /\ (Revoked(s, s') \/ (Stays(s, s') /\ s'.auth = s.auth))
  <2>1. CASE ~ok
    BY <1>1, <2>1, RefusedSound DEF IInv
  <2>2. CASE ok /\ ~s.active
    BY <1>1, <2>2, Untouched DEF IInv
  <2>3. CASE ok /\ s.active
    <3>1. Sound(y) /\ Stays(s, y) /\ y.auth = s.auth
      BY AcceptedSound DEF IInv
    <3>2. s' = [y EXCEPT !.availability = "auth-pending"]
      BY <1>1, <2>3
    <3> HIDE DEF y
    <3>3. s' \in Supervisor
      <4>1. y \in Supervisor /\ "auth-pending" \in Availability
        BY <3>1 DEF Sound, Availability
      <4> QED
        BY <3>2, <4>1, Fields
    <3>4. /\ s'.generation = y.generation /\ s'.identity = y.identity
          /\ s'.recovery = y.recovery /\ s'.everConfirmed = y.everConfirmed
          /\ s'.startupRevoked = y.startupRevoked /\ s'.rootReady = y.rootReady
          /\ s'.auth = y.auth /\ s'.availability = "auth-pending"
      BY <3>1, <3>2 DEF Sound, Supervisor
    <3> QED
      BY <3>1, <3>3, <3>4 DEF Sound, Stays, Owned
  <2> QED
    BY <2>1, <2>2, <2>3
<1>3. op' \in [Ops -> Operation] /\ OpsCarried
  <2>1. CASE op' = op
    BY <1>2, <2>1 DEF OpsCarried, IInv, TypeOK, Operating, Submitted, Revoked
  <2>2. CASE op' # op
    <3> DEFINE f == [op[o] EXCEPT !.resumeConfirmed = TRUE]
    <3>1. op' = [op EXCEPT ![o] = f]
      BY <1>1, <2>2
    <3>2. o \in Ops
      BY <2>2, <3>1 DEF IInv, TypeOK
    <3>3. op[o] \in Operation
      BY <3>2 DEF IInv, TypeOK
    <3>4. f \in Operation
      BY <3>3, OpFields
    <3>5. /\ f.gen = op[o].gen /\ f.accepted = op[o].accepted
          /\ f.binding = op[o].binding /\ f.proc = op[o].proc
          /\ f.run = op[o].run /\ f.drain = op[o].drain
      BY <3>3 DEF Operation
    <3> HIDE DEF f, o
    <3> QED
      BY <1>2, <3>1, <3>2, <3>4, <3>5, KeepsOp
  <2> QED
    BY <2>1, <2>2
<1>4. /\ conf' \in [Tasks -> [busy : BOOLEAN, gen : Nat, seen : OptBinding]]
      /\ \A u \in Tasks : conf'[u].gen <= s.generation
      /\ \A u \in Tasks : conf'[u].busy => conf'[u] = conf[u]
  BY <1>1, Conferring
<1> HIDE DEF ok, y
<1>5. TypeOK' /\ resume'.pc = "idle"
  <2>1. /\ resume' = [pc |-> "idle", op |-> NoOp]
        /\ UNCHANGED <<req, clear, queue, cookie, pauses>>
        /\ reconfirmed' \in BOOLEAN
    BY <1>1 DEF Resting
  <2> QED
    BY <1>2, <1>3, <1>4, <2>1 DEF IInv, TypeOK, Sound
<1>6. Suspended' /\ Operating' /\ PostIsExclusive' /\ IdentityExpected
  BY <1>1, <1>2, <1>3, <1>4, <1>5, Carried DEF OpsCarried, Tasks, nativeEffects, inFlight
<1> QED
  BY <1>2, <1>5, <1>6 DEF IInv

\* Uncovering the screen for a recovery capability, where nobody else is.
LEMMA Uncovering ==
  ASSUME IInv, Sound(s'), s'.auth = NoOp, s'.generation = s.generation,
         s'.identity = s.identity, s'.everConfirmed = s.everConfirmed,
         s'.startupRevoked = s.startupRevoked, UNCHANGED op,
         \A t \in Tasks : conf'[t].gen <= s.generation /\ (Live(t)' => Live(t)),
         ~Live("recover")', ~(resume'.pc = "recovery" /\ Live("resume")'),
         resume'.pc = "bootstrap" => resume.pc = "bootstrap",
         \A o \in Ops : ~Submitted(o)
  PROVE  Suspended' /\ Operating' /\ PostIsExclusive' /\ IdentityExpected
<1>1. Suspended'
  BY DEF IInv, Suspended, Tasks
<1>2. Operating'
  BY SessionConstants DEF IInv, Operating, Submitted
<1>3. PostIsExclusive'
  BY DEF PostIsExclusive, Submitted
<1>4. IdentityExpected
  BY DEF IdentityExpected
<1> QED
  BY <1>1, <1>2, <1>3, <1>4

\* foreground() restores the recovery capability it suspended, or nobody.
LEMMA ResumeRecoveryKeeps ==
  ASSUME IInv, ResumeRecovery
  PROVE  IInv' /\ IdentityExpected
<1> DEFINE live == conf["resume"].gen = s.generation
<1>1. /\ UNCHANGED <<op, req, clear, queue, cookie, pauses>> /\ "resume" \in Tasks
      /\ conf' = [conf EXCEPT !["resume"] = Idle] /\ reconfirmed' \in BOOLEAN
      /\ resume' = Resting /\ resume.pc = "recovery" /\ conf["resume"].busy
  BY DEF ResumeRecovery, Heard, Tasks, IInv, TypeOK
<1>2. \/ s' = s
      \/ s' = Invalidated(s)
      \/ live /\ s.active /\ s' = [s EXCEPT !.recovery.confirmed = TRUE,
                                            !.availability = "foreground"]
  BY DEF ResumeRecovery
<1>3. /\ conf' \in [Tasks -> [busy : BOOLEAN, gen : Nat, seen : OptBinding]]
      /\ \A u \in Tasks : conf'[u].gen <= s.generation
      /\ \A u \in Tasks : conf'[u].busy => conf'[u] = conf[u]
      /\ ~conf'["resume"].busy
  BY <1>1, Conferring
<1>4. resume'.pc = "idle" /\ resume' = [pc |-> "idle", op |-> NoOp]
  BY <1>1 DEF Resting
<1>5. CASE s' = s \/ s' = Invalidated(s)
  <2>1. Sound(s') /\ (Revoked(s, s') \/ (Stays(s, s') /\ s'.auth = s.auth))
    BY <1>5, InvalidatedSound, Untouched DEF IInv
  <2>2. TypeOK'
    BY <1>1, <1>3, <1>4, <2>1 DEF IInv, TypeOK, Sound
  <2>3. Suspended' /\ Operating' /\ PostIsExclusive' /\ IdentityExpected
    BY <1>1, <1>3, <1>4, <2>1, <2>2, Carried DEF IInv, Operating, Submitted, Tasks,
       nativeEffects, inFlight, Revoked
  <2> QED
    BY <2>1, <2>2, <2>3 DEF IInv
<1>6. CASE live /\ s.active /\ s' = [s EXCEPT !.recovery.confirmed = TRUE,
                                              !.availability = "foreground"]
  <2>1. s.recovery # NoRecovery /\ s.auth = NoOp
    BY <1>1, <1>6 DEF IInv, Suspended, Live
  <2> DEFINE y == [s EXCEPT !.recovery.confirmed = TRUE]
  <2>2. Sound(y) /\ Stays(s, y) /\ y.auth = s.auth /\ y.active = s.active
    BY <2>1, ConfirmedSound DEF IInv
  <2>3. s' = [y EXCEPT !.availability = "foreground"]
    BY <1>6
  <2> HIDE DEF y
  <2>4. s' \in Supervisor
    <3>1. y \in Supervisor /\ "foreground" \in Availability
      BY <2>2 DEF Sound, Availability
    <3> QED
      BY <2>3, <3>1, Fields
  <2>5. /\ s'.generation = y.generation /\ s'.identity = y.identity
        /\ s'.recovery = y.recovery /\ s'.everConfirmed = y.everConfirmed
        /\ s'.startupRevoked = y.startupRevoked /\ s'.rootReady = y.rootReady
        /\ s'.auth = y.auth /\ s'.availability = "foreground" /\ s'.active = y.active
    BY <2>2, <2>3 DEF Sound, Supervisor
  <2>6. Sound(s')
    BY <1>6, <2>1, <2>2, <2>4, <2>5 DEF Sound, Stays, Owned
  <2>7. TypeOK'
    BY <1>1, <1>3, <1>4, <2>4 DEF IInv, TypeOK
  <2>8. \A o \in Ops : ~Submitted(o)
    BY <2>1, SessionConstants DEF IInv, Operating, Owned
  <2>9. ~Live("recover")
    BY <2>1 DEF IInv, Suspended, Owned
  <2>10. \A t \in Tasks : Live(t)' => Live(t)
    BY <1>3, <2>2, <2>5 DEF Live, Stays
  <2>11. "recover" \in Tasks
    BY DEF Tasks
  <2>12. Suspended' /\ Operating' /\ PostIsExclusive' /\ IdentityExpected
    BY <1>1, <1>3, <1>4, <2>1, <2>2, <2>5, <2>6, <2>8, <2>9, <2>10, <2>11, Uncovering
       DEF Stays
  <2> QED
    BY <2>6, <2>7, <2>12 DEF IInv
<1> QED
  BY <1>2, <1>5, <1>6

\* Sign in hands out a capability where the screen belongs to nobody.
LEMMA RecoveryObservedKeeps ==
  ASSUME IInv, RecoveryObserved
  PROVE  IInv' /\ IdentityExpected
<1> DEFINE live == conf["recover"].gen = s.generation
           seen == Confirmed("recover")
           capability == [binding |-> seen, generation |-> s.generation, confirmed |-> TRUE]
           y == [s EXCEPT !.availability = "foreground"]
<1>1. /\ UNCHANGED <<resume, op, req, clear, queue, cookie, pauses>> /\ "recover" \in Tasks
      /\ conf' = [conf EXCEPT !["recover"] = Idle] /\ reconfirmed' \in BOOLEAN
      /\ conf["recover"].busy
  BY DEF RecoveryObserved, Heard, Tasks, IInv, TypeOK
<1>2. \/ s' = s
      \/ s' = Protected(s)
      \/ live /\ s.active /\ seen # NoBinding /\ s' = [y EXCEPT !.recovery = capability]
  <2>1. s' = CASE ~live -> s
              [] live /\ (seen = NoBinding \/ ~s.active) -> Protected(s)
              [] seen # NoBinding /\ s.active -> [y EXCEPT !.recovery = capability]
    BY DEF RecoveryObserved
  <2> HIDE DEF capability, y
  <2>2. live \in BOOLEAN /\ s.active \in BOOLEAN /\ (seen # NoBinding => live)
    BY DEF IInv, Sound, Supervisor, Confirmed
  <2> QED
    BY <2>1, <2>2
<1>3. /\ conf' \in [Tasks -> [busy : BOOLEAN, gen : Nat, seen : OptBinding]]
      /\ \A u \in Tasks : conf'[u].gen <= s.generation
      /\ \A u \in Tasks : conf'[u].busy => conf'[u] = conf[u]
      /\ ~conf'["recover"].busy
  BY <1>1, Conferring
<1>5. CASE s' = s \/ s' = Protected(s)
  <2>1. Sound(s') /\ Stays(s, s') /\ s'.auth = s.auth
    BY <1>5, ProtectedSound, Untouched DEF IInv
  <2>2. TypeOK'
    BY <1>1, <1>3, <2>1 DEF IInv, TypeOK, Sound
  <2>3. Suspended' /\ Operating' /\ PostIsExclusive' /\ IdentityExpected
    BY <1>1, <1>3, <2>1, <2>2, Carried DEF IInv, Operating, Submitted, Tasks,
       nativeEffects, inFlight
  <2> QED
    BY <2>1, <2>2, <2>3 DEF IInv
<1>6. CASE live /\ s.active /\ seen # NoBinding /\ s' = [y EXCEPT !.recovery = capability]
  <2>1. ~Owned(s) /\ s.startupRevoked /\ s.auth = NoOp
    BY <1>1, <1>6 DEF IInv, Suspended, Live, Sound
  <2>2. capability \in OptRecovery /\ capability # NoRecovery
    <3>1. seen \in Bindings
      BY <1>1, <1>6, ConfirmedType DEF IInv, OptBinding
    <3> QED
      BY <3>1, SessionConstants DEF IInv, Sound, Supervisor, OptRecovery, NoRecovery
  <2>3. capability.generation = s.generation
    OBVIOUS
  <2> HIDE DEF capability
  <2>4. s' \in Supervisor
    <3>1. y \in Supervisor
      BY Fields DEF IInv, Sound, Availability
    <3> HIDE DEF y
    <3> QED
      BY <1>6, <2>2, <3>1, Fields
  <2>5. /\ s'.generation = s.generation /\ s'.identity = s.identity
        /\ s'.recovery = capability /\ s'.everConfirmed = s.everConfirmed
        /\ s'.startupRevoked = s.startupRevoked /\ s'.rootReady = s.rootReady
        /\ s'.auth = s.auth /\ s'.availability = "foreground" /\ s'.active = s.active
    BY <1>6 DEF IInv, Sound, Supervisor
  <2>6. Sound(s')
    BY <1>6, <2>1, <2>2, <2>3, <2>4, <2>5 DEF IInv, Sound, Owned
  <2>7. TypeOK'
    BY <1>1, <1>3, <2>4 DEF IInv, TypeOK
  <2>8. \A o \in Ops : ~Submitted(o)
    BY <1>1, <1>6 DEF IInv, Operating, Live
  <2>9. ~Live("recover")' /\ ~(resume'.pc = "recovery" /\ Live("resume")')
    <3>1. "resume" \in Tasks
      BY DEF Tasks
    <3>2. Live("resume")' => Live("resume")
      BY <1>3, <2>5, <3>1 DEF Live
    <3> QED
      BY <1>1, <1>3, <2>1, <3>2 DEF IInv, Suspended, Live, Owned
  <2>10. \A t \in Tasks : Live(t)' => Live(t)
    BY <1>3, <2>5 DEF Live
  <2>11. Suspended' /\ Operating' /\ PostIsExclusive' /\ IdentityExpected
    BY <1>1, <1>3, <2>1, <2>5, <2>6, <2>8, <2>9, <2>10, Uncovering
  <2> QED
    BY <2>6, <2>7, <2>11 DEF IInv
<1> QED
  BY <1>2, <1>5, <1>6

-----------------------------------------------------------------------------
\* foreground() asks for a confirmation.
LEMMA Awaiting ==
  ASSUME IInv, Sound(s'), Stays(s, s'), s'.auth = s.auth, s'.availability = s.availability,
         NEW pc \in {"bootstrap", "op", "recovery", "reconcile"},
         resume' = [pc |-> pc, op |-> s.auth],
         conf' = [conf EXCEPT !["resume"] = Asking(s.generation)],
         UNCHANGED <<op, req, clear, queue, cookie, pauses, reconfirmed>>,
         pc = "bootstrap" => ~s.everConfirmed /\ ~s.startupRevoked,
         pc = "recovery" =>
           s.auth = NoOp /\ s.recovery # NoRecovery /\ s.availability # "foreground"
  PROVE  IInv' /\ IdentityExpected
<1>1. "resume" \in Tasks /\ "start" \in Tasks /\ "recover" \in Tasks
  BY DEF Tasks
<1>2. /\ conf' \in [Tasks -> [busy : BOOLEAN, gen : Nat, seen : OptBinding]]
      /\ \A u \in Tasks : conf'[u].gen <= s.generation
      /\ \A u \in Tasks \ {"resume"} : conf'[u] = conf[u]
  BY <1>1, Conferring
<1>3. s'.generation = s.generation /\ resume'.pc = pc
  BY DEF Stays
<1>4. TypeOK'
  BY <1>2 DEF IInv, TypeOK, Sound, Supervisor
<1>5. /\ Live("start")' <=> Live("start")
      /\ Live("recover")' <=> Live("recover")
  BY <1>1, <1>2, <1>3 DEF Live
<1>6. Suspended'
  BY <1>2, <1>3, <1>5 DEF IInv, Suspended, Stays, Owned
<1>7. Operating'
  BY <1>3, <1>5 DEF IInv, Operating, Submitted, Stays, Owned, inFlight, nativeEffects
<1>8. PostIsExclusive' /\ IdentityExpected
  BY DEF IInv, PostIsExclusive, IdentityExpected, Stays, inFlight, nativeEffects
<1> QED
  BY <1>4, <1>6, <1>7, <1>8 DEF IInv

\* foreground() (session.ts:283).
LEMMA ForegroundKeeps ==
  ASSUME IInv, Foreground
  PROVE  IInv' /\ IdentityExpected
<1> DEFINE x == [s EXCEPT !.active = TRUE]
           a == s.auth
           Await(pc) == /\ resume' = [pc |-> pc, op |-> a] /\ s' = x
                        /\ conf' = [conf EXCEPT !["resume"] = Asking(s.generation)]
                        /\ UNCHANGED <<op, queue>>
           Moved == s' = x /\ UNCHANGED <<op, queue, conf>>
<1>1. /\ UNCHANGED <<req, clear, cookie, pauses, reconfirmed>>
      /\ s.auth \in Ops \cup {NoOp}
      /\ s.active => s.availability # "foreground"
  BY DEF Foreground, ShieldOffers, IInv, Sound, Supervisor
<1>2. /\ Sound(x) /\ Stays(s, x) /\ x.auth = s.auth /\ x.availability = s.availability
  <2>1. x \in Supervisor
    BY Fields DEF IInv, Sound
  <2>2. /\ x.generation = s.generation /\ x.identity = s.identity
        /\ x.recovery = s.recovery /\ x.everConfirmed = s.everConfirmed
        /\ x.startupRevoked = s.startupRevoked /\ x.rootReady = s.rootReady
        /\ x.auth = s.auth /\ x.availability = s.availability /\ x.active
    BY DEF IInv, Sound, Supervisor
  <2> HIDE DEF x
  <2> QED
    BY <2>1, <2>2 DEF IInv, Sound, Stays, Owned
<1>3. \/ Moved /\ resume' = resume
      \/ Moved /\ a \in Ops /\ resume' = [pc |-> "complete", op |-> a]
      \/ Await("bootstrap") /\ ~s.everConfirmed /\ ~s.startupRevoked
      \/ Await("op") \/ Await("reconcile")
      \/ Await("recovery") /\ s.auth = NoOp /\ s.recovery # NoRecovery
      \/ /\ a \in Ops /\ op[a].accepted /\ resume' = [pc |-> "complete", op |-> a]
         /\ Complete(a, op[a], x)
  BY <1>1 DEF Foreground
<1> HIDE DEF x
<1>4. CASE Moved /\ (resume' = resume \/ (a \in Ops /\ resume' = [pc |-> "complete", op |-> a]))
  <2>1. Sound(s') /\ Stays(s, s') /\ s'.auth = s.auth
    BY <1>2, <1>4
  <2>2. resume' = resume \/ resume'.pc = "complete"
    BY <1>4
  <2>3. TypeOK'
    BY <1>1, <1>4, <2>1 DEF IInv, TypeOK, Sound
  <2>4. Suspended' /\ Operating' /\ PostIsExclusive' /\ IdentityExpected
    BY <1>1, <1>4, <2>1, <2>2, <2>3, Carried DEF IInv, Suspended, Operating, Submitted,
       Tasks, nativeEffects, inFlight
  <2> QED
    BY <2>1, <2>3, <2>4 DEF IInv
<1>5. ASSUME NEW pc \in {"bootstrap", "op", "recovery", "reconcile"}, Await(pc),
             pc = "bootstrap" => ~s.everConfirmed /\ ~s.startupRevoked,
             pc = "recovery" => s.auth = NoOp /\ s.recovery # NoRecovery
      PROVE  IInv' /\ IdentityExpected
  <2>1. s.availability # "foreground"
    BY <1>1 DEF IInv, Sound
  <2>2. Sound(s') /\ Stays(s, s') /\ s'.auth = s.auth /\ s'.availability = s.availability
    BY <1>2, <1>5
  <2> QED
    BY <1>1, <1>5, <2>1, <2>2, Awaiting
<1>6. CASE /\ a \in Ops /\ op[a].accepted /\ resume' = [pc |-> "complete", op |-> a]
           /\ Complete(a, op[a], x)
  <2>1. Settling(a, op[a], x)
    BY <1>2, <1>6, SessionConstants DEF Settling, IInv, TypeOK, Operating
  <2>2. /\ op' \in [Ops -> Operation] /\ OpsCarried
        /\ Sound(s') /\ Stays(s, s')
        /\ queue' \in Seq(Ops \cup Clears)
        /\ conf' \in [Tasks -> [busy : BOOLEAN, gen : Nat, seen : OptBinding]]
        /\ \A t \in Tasks : conf'[t].gen <= s.generation
        /\ \A t \in Tasks \ {a} : conf'[t] = conf[t]
    BY <1>6, <2>1, Completing
  <2>3. a \notin {"start", "resume", "recover"} /\ resume'.pc = "complete"
    BY <1>6, SessionConstants
  <2>4. TypeOK'
    BY <1>1, <1>6, <2>2 DEF IInv, TypeOK, Sound
  <2>5. Suspended' /\ Operating' /\ PostIsExclusive' /\ IdentityExpected
    BY <1>1, <2>2, <2>3, <2>4, Carried DEF OpsCarried, Tasks, nativeEffects, inFlight
  <2> QED
    BY <2>2, <2>4, <2>5 DEF IInv
<1> QED
  BY <1>3, <1>4, <1>5, <1>6

-----------------------------------------------------------------------------
\* A fresh supervisor satisfies the invariant (session.ts:33).
LEMMA Initially ==
  ASSUME Init
  PROVE  IInv
<1>1. FreshOp \in Operation /\ FreshOp.run = "none" /\ ~FreshOp.accepted
      /\ FreshOp.proc = "idle"
  BY DEF FreshOp, Operation, OptBinding
<1>2. s \in Supervisor
  <2>1. NoIdentity \in OptIdentity /\ NoRecovery \in OptRecovery
    BY Absent
  <2> QED
    BY <2>1 DEF Init, Supervisor, Availability
<1>3. /\ s.generation = 0 /\ s.identity = NoIdentity /\ s.availability = "uncertain"
      /\ ~s.everConfirmed /\ ~s.startupRevoked /\ ~s.rootReady /\ s.auth = NoOp
      /\ s.recovery = NoRecovery /\ resume.pc = "idle"
  BY DEF Init, Resting
<1>4. \A t \in Tasks : /\ conf[t] \in [busy : BOOLEAN, gen : Nat, seen : OptBinding]
                       /\ conf[t].gen = 0 /\ (conf[t].busy => t = "start")
  BY DEF Init, Asking, Idle, OptBinding
<1>5. TypeOK
  <2>1. op \in [Ops -> Operation]
    BY <1>1 DEF Init
  <2>2. req \in [Requests -> HxmlRequest]
    BY DEF Init, FreshReq, HxmlRequest, OptBinding
  <2>3. conf \in [Tasks -> [busy : BOOLEAN, gen : Nat, seen : OptBinding]]
    <3>1. conf = [t \in Tasks |-> conf[t]]
      BY DEF Init
    <3> QED
      BY <1>4, <3>1
  <2>4. clear \in [Clears -> [pc : {"new", "queued", "writing", "done"}, gen : Nat]]
    BY DEF Init
  <2>5. queue \in Seq(Ops \cup Clears)
    BY EmptySeq DEF Init
  <2>6. cookie \in Bindings /\ pauses \in Nat /\ reconfirmed \in BOOLEAN
    <3>1. cookie \in Bindings
      BY SessionConstants DEF Init, Bindings
    <3>2. pauses = 0 /\ reconfirmed = FALSE
      BY DEF Init
    <3> QED
      BY <3>1, <3>2
  <2>7. resume \in [pc : {"idle", "bootstrap", "op", "recovery", "reconcile", "complete"},
                    op : Ops \cup {NoOp}]
    BY DEF Init, Resting
  <2> QED
    BY <1>2, <2>1, <2>2, <2>3, <2>4, <2>5, <2>6, <2>7 DEF TypeOK
<1>6. Sound(s)
  BY <1>2, <1>3 DEF Sound, Owned
<1>7. Suspended
  BY <1>3, <1>4 DEF Suspended, Live, Tasks
<1>8. \A o \in Ops : op[o] = FreshOp
  BY DEF Init
<1>9. Operating /\ PostIsExclusive
  BY <1>1, <1>3, <1>8, SessionConstants DEF Operating, PostIsExclusive, Submitted
<1> QED
  BY <1>5, <1>6, <1>7, <1>9 DEF IInv

\* Every step of the supervisor, the server, the network, the native store and
\* the app keeps the invariant, and publishes no identity that was not asked for.
LEMMA StepKeeps ==
  ASSUME IInv, Next
  PROVE  IInv' /\ IdentityExpected
<1>1. ASSUME NEW t \in Tasks, ServeObservation(t) PROVE IInv' /\ IdentityExpected
  BY <1>1, ServeObservationKeeps
<1>2. CASE ReplaceSession
  BY <1>2, ReplaceSessionKeeps
<1>3. ASSUME NEW r \in Requests,
             \/ ServeRequest(r) \/ DropRequest(r) \/ IssueRequest(r)
             \/ Response(r) \/ RequestRead(r)
      PROVE  IInv' /\ IdentityExpected
  BY <1>3, ServeRequestKeeps, DropRequestKeeps, IssueRequestKeeps, RequestHeadersKeeps,
     RequestReconciledKeeps, RequestReleasedKeeps, RequestReadKeeps DEF Response
<1>4. ASSUME NEW o \in Ops,
             ServePost(o) \/ ExpirePost(o) \/ Authenticate(o) \/ Submission(o)
      PROVE  IInv' /\ IdentityExpected
  BY <1>4, ServePostKeeps, ExpirePostKeeps, AuthenticateKeeps, SendPostKeeps,
     PostFailedKeeps, PostFailureReconciledKeeps, AcceptPostKeeps DEF Submission
<1>5. ASSUME NEW o \in Ops, Completion(o) \/ Job(o) PROVE IInv' /\ IdentityExpected
  BY <1>5, EffectSettledKeeps, PreConfirmedKeeps, FinalConfirmedKeeps, JobRunsKeeps,
     JobConfirmedKeeps, JobWrittenKeeps DEF Completion, Job
<1>6. ASSUME NEW c \in Clears, ClearAdmitted(c) \/ ClearRuns(c) \/ ClearWritten(c)
      PROVE  IInv' /\ IdentityExpected
  BY <1>6, ClearAdmittedKeeps, ClearRunsKeeps, ClearWrittenKeeps
<1>7. CASE Start \/ MarkRootReady \/ Pause \/ Foreground \/ Resuming
  BY <1>7, StartKeeps, MarkRootReadyKeeps, PauseKeeps, ForegroundKeeps,
     ResumeBootstrapKeeps, ResumeOwnerKeeps, ResumeUnsentKeeps, ResumeRecoveryKeeps
     DEF Resuming
<1>8. CASE StreamRevokes \/ RecoveryStart \/ RecoveryObserved \/ Abandon
  BY <1>8, StreamRevokesKeeps, RecoveryStartKeeps, RecoveryObservedKeeps, AbandonKeeps
<1> QED
  BY <1>1, <1>2, <1>3, <1>4, <1>5, <1>6, <1>7, <1>8 DEF Next

\* A step that moves nothing keeps it too.
LEMMA StutterKeeps ==
  ASSUME IInv, UNCHANGED vars
  PROVE  IInv' /\ IdentityExpected
<1>1. UNCHANGED <<s, resume, op, req, clear, queue, conf, cookie, pauses, reconfirmed>>
  BY DEF vars
<1>2. TypeOK' /\ Sound(s')
  BY <1>1, Untouched DEF IInv, TypeOK
<1>3. Suspended' /\ Operating' /\ PostIsExclusive' /\ IdentityExpected
  BY <1>1 DEF IInv, Suspended, Live, Operating, Submitted, PostIsExclusive, inFlight,
     nativeEffects, IdentityExpected
<1> QED
  BY <1>2, <1>3 DEF IInv

-----------------------------------------------------------------------------
\* In every behaviour of the supervisor the invariant always holds.
THEOREM Invariance == Spec => []IInv
<1>1. Init => IInv
  BY Initially
<1>2. IInv /\ [Next]_vars => IInv'
  BY StepKeeps, StutterKeeps
<1> QED
  BY <1>1, <1>2, PTL DEF Spec

\* Every field of the supervisor, its operations, requests and queue keeps the
\* type session.ts declares for it.
THEOREM TypeCorrect == Spec => []TypeOK
<1>1. IInv => TypeOK
  BY DEF IInv
<1> QED
  BY <1>1, Invariance, PTL

\* Whatever owns the screen was established in the current generation.
THEOREM OneOwnerAlways == Spec => []OneOwner
<1>1. IInv => OneOwner
  BY DEF IInv, Sound, Operating, OneOwner, HasIdentity
<1> QED
  BY <1>1, Invariance, PTL

\* The shield is lifted only for a foreground app with an owner and without an
\* open login or logout.
THEOREM ShieldedAlways == Spec => []ShieldedUnlessOwned
<1>1. IInv => ShieldedUnlessOwned
  BY DEF IInv, Sound, Owned, ShieldedUnlessOwned, HasIdentity
<1> QED
  BY <1>1, Invariance, PTL

\* While the POST of a login or logout is out, nothing admitted under the old
\* session is still on its way to the server or the keychain.
THEOREM PostExclusiveAlways == Spec => []PostIsExclusive
<1>1. IInv => PostIsExclusive
  BY DEF IInv
<1> QED
  BY <1>1, Invariance, PTL

\* No identity is published that a first observation did not find or an accepted
\* login or logout did not return.
THEOREM IdentityAlwaysExpected == Spec => NoUnexpectedIdentity
<1>1. IInv /\ [Next]_vars => [IdentityExpected]_vars
  BY StepKeeps, StutterKeeps
<1> QED
  BY <1>1, Invariance, PTL DEF Spec, NoUnexpectedIdentity

=============================================================================
