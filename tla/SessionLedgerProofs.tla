-------------------------- MODULE SessionLedgerProofs --------------------------
(***************************************************************************)
(* The second layer of the session supervisor's proof: the requests, the   *)
(* submissions and the native queue stay in step with the owner of the     *)
(* screen, so that a response reaches only the owner that answered it, an  *)
(* identity never appears during a native write, and a held write starts   *)
(* only after a new confirmation.  It rests on the invariant of            *)
(* SessionProofs.                                                          *)
(***************************************************************************)
EXTENDS SessionProofs

\* From x to y the owner of the screen is the same one, as long as the
\* generation is.
Holds(x, y) ==
  /\ y.generation >= x.generation
  /\ y.generation = x.generation /\ Owned(x) =>
       /\ y.identity = x.identity
       /\ y.recovery = NoRecovery <=> x.recovery = NoRecovery
       /\ y.recovery.binding = x.recovery.binding

\* ... and no identity is published.
Keeps(x, y) == Holds(x, y) /\ y.identity \in {x.identity, NoIdentity}

\* Only a first observation and a last confirmation publish one.
Publishing == Start \/ ResumeBootstrap \/ \E o \in Ops : FinalConfirmed(o)

\* The ways the fields move together keep the owner of a generation.
LEMMA OwnerHolds ==
  ASSUME NEW x \in Supervisor
  PROVE  /\ Keeps(x, x) /\ Keeps(x, Protected(x)) /\ Keeps(x, Invalidated(x))
         /\ \A b : /\ Holds(x, Published(x, b))
                  /\ Holds(x, Protected(Published(x, b)))
         /\ \A y : /\ y.generation = x.generation /\ y.identity = x.identity
                   /\ y.recovery = x.recovery
                   => Keeps(x, y)
<1>1. x.generation \in Nat
  BY DEF Supervisor
<1>2. Keeps(x, x) /\ \A y : /\ y.generation = x.generation /\ y.identity = x.identity
                            /\ y.recovery = x.recovery
                            => Keeps(x, y)
  BY <1>1 DEF Keeps, Holds
<1>3. Keeps(x, Protected(x))
  BY <1>1 DEF Keeps, Holds, Protected, Supervisor
<1>4. Invalidated(x).generation = x.generation + 1 /\ Invalidated(x).identity = NoIdentity
  BY DEF Invalidated, Protected, Supervisor
<1>5. \A b : /\ Published(x, b).generation = x.generation + 1
            /\ Protected(Published(x, b)).generation = x.generation + 1
  BY DEF Published, Protected, Supervisor
<1> QED
  BY <1>1, <1>2, <1>3, <1>4, <1>5 DEF Keeps, Holds

\* What a coroutine makes of its confirmation keeps it too.
LEMMA HeardHolds ==
  ASSUME s \in Supervisor, NEW t, NEW o, NEW b, NEW r
  PROVE  /\ Keeps(s, Reconciled(s, t, r))
         /\ ~Accepts(t, o, b) => Keeps(s, Refused(s, t, o, b))
         /\ Keeps(s, Accepted(s, o))
<1>2. Keeps(s, Reconciled(s, t, r))
  <2> DEFINE y == [s EXCEPT !.availability = "foreground"]
  <2>1. Reconciled(s, t, r) \in {s, Protected(s), Invalidated(s), y}
    BY DEF Reconciled
  <2>2. y.generation = s.generation /\ y.identity = s.identity /\ y.recovery = s.recovery
    BY DEF Supervisor
  <2> HIDE DEF y
  <2> QED
    BY <2>1, <2>2, OwnerHolds
<1>3. ASSUME ~Accepts(t, o, b) PROVE Keeps(s, Refused(s, t, o, b))
  <2>1. Refused(s, t, o, b) \in {s, Protected(s), Invalidated(s)}
    BY <1>3 DEF Refused, Accepts
  <2> QED
    BY <2>1, OwnerHolds
<1>4. Keeps(s, Accepted(s, o))
  <2> DEFINE y == [s EXCEPT !.recovery.confirmed = TRUE]
  <2>1. CASE Accepted(s, o) = s
    BY <2>1, OwnerHolds
  <2>2. CASE Accepted(s, o) = y /\ s.recovery # NoRecovery
    <3>1. y.generation = s.generation /\ y.identity = s.identity
      BY DEF Supervisor
    <3>2. /\ y.recovery = [s.recovery EXCEPT !.confirmed = TRUE]
          /\ s.recovery \in [binding : Bindings, generation : Nat, confirmed : BOOLEAN]
      BY <2>2 DEF Supervisor, OptRecovery
    <3>3. y.recovery.binding = s.recovery.binding /\ y.recovery.binding \in Bindings
      BY <3>2
    <3>4. y.recovery # NoRecovery
      BY <3>3, SessionConstants DEF NoRecovery
    <3> HIDE DEF y
    <3> QED
      BY <2>2, <3>1, <3>3, <3>4 DEF Keeps, Holds, Supervisor
  <2> QED
    BY <2>1, <2>2 DEF Accepted
<1> QED
  BY <1>2, <1>3, <1>4

\* Publication opens a generation.
LEMMA AnnouncedHolds ==
  ASSUME s \in Supervisor, NEW b, NEW y \in Announced(b)
  PROVE  Holds(s, y)
BY OwnerHolds DEF Announced

\* The head and the end of completeAuth() touch the shield and the open login only.
LEMMA CompletingHolds ==
  ASSUME NEW o, NEW r, NEW x, x \in Supervisor, Conclude(o, r, x) \/ Complete(o, r, x)
  PROVE  /\ s'.generation = x.generation /\ s'.identity = x.identity
         /\ s'.recovery = x.recovery
<1>1. s' = x \/ s' = [x EXCEPT !.auth = NoOp, !.availability = "foreground"]
  BY DEF Conclude, Complete
<1> QED
  BY <1>1 DEF Supervisor

\* No step of the system gives the screen another owner within a generation, and
\* few give it a new one.
LEMMA StepHolds ==
  ASSUME IInv, Next
  PROVE  Keeps(s, s') \/ (Holds(s, s') /\ Publishing)
<1>1. s \in Supervisor /\ s.generation \in Nat
  BY DEF IInv, Sound, Supervisor
<1>2. \A y : /\ y.generation = s.generation /\ y.identity = s.identity
             /\ y.recovery = s.recovery
             => Keeps(s, y)
  BY <1>1, OwnerHolds
<1>3. ASSUME UNCHANGED s PROVE Keeps(s, s')
  BY <1>1, <1>3, OwnerHolds
<1>4. ASSUME NEW r \in Requests, Response(r) PROVE Keeps(s, s')
  BY <1>1, <1>4, OwnerHolds, HeardHolds
     DEF Response, RequestHeaders, RequestReconciled, RequestReleased
<1>r. ASSUME NEW r \in Requests, RequestRead(r) PROVE Keeps(s, s')
  BY <1>1, <1>r, OwnerHolds DEF RequestRead
<1>5. ASSUME NEW o \in Ops, ServePost(o) \/ ExpirePost(o) \/ SendPost(o) \/ PostFailed(o)
      PROVE  Keeps(s, s')
  BY <1>1, <1>5, OwnerHolds DEF ServePost, ExpirePost, SendPost, PostFailed
<1>6. ASSUME NEW o \in Ops, Authenticate(o) PROVE Keeps(s, s')
  <2>1. s' = [s EXCEPT !.auth = o, !.availability = "auth-pending"]
    BY <1>6 DEF Authenticate
  <2>2. s'.generation = s.generation /\ s'.identity = s.identity /\ s'.recovery = s.recovery
    BY <1>1, <2>1 DEF Supervisor
  <2> QED
    BY <1>2, <2>2
<1>7. ASSUME NEW o \in Ops, PostFailureReconciled(o) PROVE Keeps(s, s')
  <2> DEFINE x == Reconciled(s, o, FALSE)
  <2>1. s' = [x EXCEPT !.auth = IF @ = o THEN NoOp ELSE @]
    BY <1>7 DEF PostFailureReconciled
  <2>2. x \in Supervisor /\ Keeps(s, x)
    <3>1. o \in Tasks
      BY <1>7 DEF Tasks
    <3> QED
      BY <1>1, <3>1, HeardHolds, ReconciledSound DEF IInv, Sound
  <2> HIDE DEF x
  <2>3. s'.generation = x.generation /\ s'.identity = x.identity /\ s'.recovery = x.recovery
    BY <2>1, <2>2 DEF Supervisor
  <2> QED
    BY <2>2, <2>3 DEF Keeps, Holds
<1>8. ASSUME NEW o \in Ops, AcceptPost(o) PROVE Keeps(s, s')
  BY <1>1, <1>2, <1>3, <1>8, CompletingHolds DEF AcceptPost
<1>9. ASSUME NEW o \in Ops, EffectSettled(o) PROVE Keeps(s, s')
  <2>1. CASE s' = [Protected(s) EXCEPT !.auth = NoOp]
    <3>1. s'.generation = s.generation /\ s'.identity = s.identity /\ s'.recovery = s.recovery
      BY <1>1, <2>1 DEF Protected, Supervisor
    <3> QED
      BY <1>2, <3>1
  <2> QED
    BY <1>1, <1>2, <1>3, <1>9, <2>1, CompletingHolds DEF EffectSettled
<1>10. ASSUME NEW o \in Ops, PreConfirmed(o) PROVE Keeps(s, s')
  <2>1. Keeps(s, Accepted(s, o)) /\ Accepted(s, o) \in Supervisor
    BY <1>1, HeardHolds, AcceptedSound DEF IInv, Sound
  <2>2. CASE ~Accepts(o, o, op[o].binding)
    BY <1>1, <1>10, <2>2, HeardHolds DEF PreConfirmed
  <2>3. CASE Accepts(o, o, op[o].binding)
    <3>1. PICK r : Conclude(o, r, Accepted(s, o))
      BY <1>10, <2>3 DEF PreConfirmed
    <3>2. s'.generation = Accepted(s, o).generation /\ s'.identity = Accepted(s, o).identity
          /\ s'.recovery = Accepted(s, o).recovery
      BY <2>1, <3>1, CompletingHolds
    <3> QED
      BY <2>1, <3>2 DEF Keeps, Holds
  <2> QED
    BY <2>2, <2>3
<1>11. ASSUME NEW o \in Ops, FinalConfirmed(o) PROVE Holds(s, s')
  <2>1. \/ s' \in {s, Invalidated(s)} \/ s' \in Announced(op[o].binding)
        \/ (s' = Refused(s, o, o, op[o].binding) /\ ~Accepts(o, o, op[o].binding))
    BY <1>11, FinalCases
  <2> QED
    BY <1>1, <2>1, OwnerHolds, HeardHolds, AnnouncedHolds DEF Keeps
<1>12. ASSUME NEW o \in Ops, Job(o) PROVE Keeps(s, s')
  BY <1>1, <1>3, <1>12, OwnerHolds, HeardHolds DEF Job, JobRuns, JobConfirmed, JobWritten
<1>13. CASE MarkRootReady \/ Abandon
  <2>1. s'.generation = s.generation /\ s'.identity = s.identity /\ s'.recovery = s.recovery
    BY <1>1, <1>13 DEF MarkRootReady, Abandon, Protected, Supervisor
  <2> QED
    BY <1>2, <2>1
<1>14. CASE StreamRevokes \/ RecoveryStart \/ ResumeOwner
  BY <1>1, <1>14, OwnerHolds, HeardHolds DEF StreamRevokes, RecoveryStart, ResumeOwner
<1>15. CASE Start \/ ResumeBootstrap
  <2>1. PICK t \in Tasks : s' \in Told(Adopted(s, t))
    BY <1>15 DEF Start, ResumeBootstrap, Tasks
  <2>2. s' \in {s, Protected(s)} \/ s' \in Announced(Confirmed(t))
    BY <2>1, AdoptedCases DEF IInv
  <2> QED
    BY <1>1, <1>15, <2>2, OwnerHolds, AnnouncedHolds DEF Keeps, Publishing
<1>16. CASE Pause
  <2> DEFINE y == [s EXCEPT !.recovery.confirmed = FALSE]
  <2>1. s'.generation = s.generation /\ s'.identity = s.identity /\ s'.recovery = y.recovery
    BY <1>1, <1>16 DEF Pause, Supervisor
  <2>2. y.recovery.binding = s.recovery.binding
        /\ (y.recovery = NoRecovery <=> s.recovery = NoRecovery)
    <3>1. /\ y.recovery = [s.recovery EXCEPT !.confirmed = FALSE]
          /\ s.recovery = NoRecovery \/ s.recovery.binding \in Bindings
      BY <1>1 DEF Supervisor, OptRecovery
    <3>2. s.recovery = NoRecovery =>
            y.recovery = NoRecovery /\ y.recovery.binding = s.recovery.binding
      <4>1. [NoRecovery EXCEPT !.confirmed = FALSE] = NoRecovery
        <5>1. /\ NoRecovery \in [binding : {NoBinding}, generation : Nat, confirmed : BOOLEAN]
              /\ NoRecovery.confirmed = FALSE
          BY DEF NoRecovery
        <5> QED
          BY <5>1
      <4> HIDE DEF y
      <4> QED
        BY <3>1, <4>1
    <3>3. s.recovery # NoRecovery => y.recovery.binding = s.recovery.binding
      BY <1>1, <3>1 DEF Supervisor, OptRecovery
    <3> HIDE DEF y
    <3> QED
      BY <3>1, <3>2, <3>3, SessionConstants DEF NoRecovery
  <2> HIDE DEF y
  <2> QED
    BY <1>1, <2>1, <2>2 DEF Keeps, Holds
<1>17. CASE Foreground
  <2> DEFINE x == [s EXCEPT !.active = TRUE]
  <2>1. x \in Supervisor /\ x.generation = s.generation /\ x.identity = s.identity
        /\ x.recovery = s.recovery
    BY <1>1 DEF Supervisor
  <2>2. s' = x \/ \E a \in Ops : \E r : Complete(a, r, x)
    BY <1>1, <1>17 DEF Foreground, Supervisor
  <2> HIDE DEF x
  <2> QED
    BY <1>2, <2>1, <2>2, CompletingHolds
<1>18. CASE ResumeUnsent
  <2> DEFINE o == resume.op
             b == op[resume.op].expected
             y == Accepted(s, resume.op)
  <2>1. \/ s' = s
        \/ s' = Refused(s, "resume", o, b) /\ ~Accepts("resume", o, b)
        \/ s' = [y EXCEPT !.availability = "auth-pending"]
    BY <1>18 DEF ResumeUnsent
  <2>2. Keeps(s, y) /\ y \in Supervisor
    BY <1>1, HeardHolds, AcceptedSound DEF IInv, Sound
  <2>3. CASE s' = [y EXCEPT !.availability = "auth-pending"]
    <3> HIDE DEF y
    <3>1. s'.generation = y.generation /\ s'.identity = y.identity
          /\ s'.recovery = y.recovery
      BY <2>2, <2>3 DEF Supervisor
    <3> QED
      BY <2>2, <3>1 DEF Keeps, Holds
  <2> HIDE DEF o, b, y
  <2> QED
    BY <1>1, <2>1, <2>3, OwnerHolds, HeardHolds
<1>19. CASE ResumeRecovery
  <2> DEFINE y == [s EXCEPT !.recovery.confirmed = TRUE, !.availability = "foreground"]
  <2>1. \/ s' \in {s, Invalidated(s)}
        \/ s' = y /\ Confirmed("resume") \in {s.recovery.binding} \ {NoBinding}
    BY <1>19 DEF ResumeRecovery
  <2>2. CASE s' = y /\ Confirmed("resume") \in {s.recovery.binding} \ {NoBinding}
    <3>1. /\ y.recovery = [s.recovery EXCEPT !.confirmed = TRUE]
          /\ y.generation = s.generation /\ y.identity = s.identity
      BY <1>1 DEF Supervisor
    <3>2. s.recovery # NoRecovery /\ s.recovery.binding # NoBinding
      BY <2>2 DEF NoRecovery
    <3>3. y.recovery.binding = s.recovery.binding
      BY <1>1, <3>1, <3>2 DEF Supervisor, OptRecovery
    <3>4. y.recovery # NoRecovery
      BY <3>2, <3>3 DEF NoRecovery
    <3> HIDE DEF y
    <3> QED
      BY <1>1, <2>2, <3>1, <3>2, <3>3, <3>4 DEF Keeps, Holds
  <2> HIDE DEF y
  <2> QED
    BY <1>1, <2>1, <2>2, OwnerHolds
<1>20. CASE RecoveryObserved
  <2>1. \/ s' \in {s, Protected(s)}
        \/ s'.generation = s.generation /\ s'.identity = s.identity /\ Live("recover")
    <3> DEFINE y == [s EXCEPT !.availability = "foreground",
                       !.recovery = [binding |-> Confirmed("recover"),
                                     generation |-> s.generation, confirmed |-> TRUE]]
    <3>1. /\ conf["recover"].busy
          /\ conf["recover"].gen # s.generation => Confirmed("recover") = NoBinding
      BY <1>20 DEF RecoveryObserved, Heard, Confirmed
    <3>2. s' \in {s, Protected(s)} \/ (s' = y /\ Confirmed("recover") # NoBinding)
      BY <1>20, <3>1 DEF RecoveryObserved
    <3>3. y.generation = s.generation /\ y.identity = s.identity
      BY <1>1 DEF Supervisor
    <3> HIDE DEF y
    <3> QED
      BY <3>1, <3>2, <3>3 DEF Live
  <2>2. Live("recover") => ~Owned(s)
    BY DEF IInv, Suspended
  <2> QED
    BY <1>1, <2>1, <2>2, OwnerHolds DEF Keeps, Holds
<1>21. CASE ReplaceSession \/ \E t \in Tasks : ServeObservation(t)
  BY <1>3, <1>21 DEF ReplaceSession, ServeObservation
<1>22. ASSUME NEW r \in Requests, ServeRequest(r) \/ DropRequest(r) \/ IssueRequest(r)
       PROVE  Keeps(s, s')
  BY <1>3, <1>22 DEF ServeRequest, DropRequest, IssueRequest
<1>23. ASSUME NEW c \in Clears, ClearAdmitted(c) \/ ClearRuns(c) \/ ClearWritten(c)
       PROVE  Keeps(s, s')
  BY <1>3, <1>23 DEF ClearAdmitted, ClearRuns, ClearWritten
<1> QED
  BY <1>4, <1>r, <1>5, <1>6, <1>7, <1>8, <1>9, <1>10, <1>11, <1>12, <1>13, <1>14, <1>15, <1>16,
     <1>17, <1>18, <1>19, <1>20, <1>21, <1>22, <1>23
     DEF Next, Submission, Completion, Resuming, Publishing

-----------------------------------------------------------------------------
\* A request that is left alone goes on waiting for the same owner.
LEMMA WaitsOn ==
  ASSUME IInv, IInv', Answering, Holds(s, s'), NEW r \in Requests,
         Waiting(r), req'[r].gen = req[r].gen, req'[r].neutral = req[r].neutral
  PROVE  /\ req'[r].gen <= s'.generation
         /\ req'[r].gen = s'.generation =>
              /\ req[r].gen = s.generation /\ ReqOwned(r) /\ ReqOwned(r)'
              /\ Owner(r)' = Owner(r)
<1>1. s.generation \in Nat /\ s'.generation \in Nat /\ req[r].gen \in Nat
  BY DEF IInv, TypeOK, Sound, Supervisor, HxmlRequest
<1>2. req[r].gen <= s.generation /\ s.generation <= s'.generation
  BY DEF Answering, Holds
<1>3. req'[r].gen <= s'.generation
  BY <1>1, <1>2
<1>4. ASSUME req'[r].gen = s'.generation
      PROVE  /\ req[r].gen = s.generation /\ ReqOwned(r) /\ ReqOwned(r)'
             /\ Owner(r)' = Owner(r)
  <2>1. req[r].gen = s.generation /\ s'.generation = s.generation /\ ReqOwned(r)
    <3>1. req[r].gen = s'.generation
      BY <1>4
    <3>2. req[r].gen = s.generation /\ s'.generation = s.generation
      BY <1>1, <1>2, <3>1
    <3> QED
      BY <3>2 DEF Answering
  <2>2. Owned(s)
    BY <2>1 DEF ReqOwned, HandleAlive, HasIdentity, Owned
  <2>3. /\ s'.identity = s.identity /\ (s'.recovery = NoRecovery <=> s.recovery = NoRecovery)
        /\ s'.recovery.binding = s.recovery.binding
    BY <2>1, <2>2 DEF Holds
  <2>4. s'.recovery # NoRecovery => s'.recovery.generation = s'.generation
    BY DEF IInv, Sound
  <2> QED
    BY <1>4, <2>1, <2>3, <2>4 DEF ReqOwned, HandleAlive, HasIdentity, Owner
<1> QED
  BY <1>3, <1>4

\* A request that has been closed waits for nobody.
LEMMA ClosedWaits ==
  ASSUME IInv, NEW r \in Requests, NEW how \in {"done", "delivered"}, Close(r, how)
  PROVE  ~Waiting(r)' /\ \A q \in Requests \ {r} : req'[q] = req[q]
BY DEF IInv, TypeOK, Close, FreshReq, Waiting

\* Every step keeps what the requests wait for.
LEMMA AnsweringKept ==
  ASSUME IInv, IInv', Answering, Next
  PROVE  Answering'
<1> USE StepHolds DEF Keeps
<1>1. CASE UNCHANGED req
  BY <1>1, WaitsOn DEF Answering, Waiting
<1>2. ASSUME NEW r \in Requests,
             \E how \in {"done", "delivered"} : Close(r, how)
      PROVE  Answering'
  <2>1. ~Waiting(r)' /\ \A q \in Requests \ {r} : req'[q] = req[q]
    BY <1>2, ClosedWaits
  <2>2. \A q \in Requests \ {r} : Waiting(q)' => Waiting(q)
    BY <2>1 DEF Waiting
  <2> QED
    BY <2>1, <2>2, WaitsOn DEF Answering
<1>3. ASSUME NEW r \in Requests, IssueRequest(r) PROVE Answering'
  <2>1. /\ UNCHANGED s /\ (HasIdentity \/ (HandleAlive /\ ~HasIdentity))
        /\ req' = [req EXCEPT ![r] = [@ EXCEPT !.pc = "sent", !.gen = s.generation,
                                               !.neutral = ~HasIdentity]]
    BY <1>3 DEF IssueRequest, HandleCurrent, HandleAlive
  <2>2. /\ \A q \in Requests \ {r} : req'[q] = req[q]
        /\ req'[r].pc = "sent" /\ req'[r].gen = s.generation /\ req'[r].neutral = ~HasIdentity
    BY <2>1 DEF IInv, TypeOK, HxmlRequest
  <2>3. s.generation \in Nat
    BY DEF IInv, Sound, Supervisor
  <2>4. ReqOwned(r)'
    BY <2>1, <2>2 DEF ReqOwned, HandleAlive, HasIdentity
  <2>5. \A q \in Requests \ {r} : Waiting(q)' => Waiting(q)
    BY <2>2 DEF Waiting
  <2> QED
    BY <2>1, <2>2, <2>3, <2>4, <2>5, WaitsOn DEF Answering
<1>4. ASSUME NEW r \in Requests, ServeRequest(r) PROVE Answering'
  <2>1. PICK b : req' = [req EXCEPT ![r].pc = "answered", ![r].claimed = b]
    BY <1>4 DEF ServeRequest
  <2>2. /\ \A q \in Requests \ {r} : req'[q] = req[q]
        /\ req'[r].pc = "answered" /\ req'[r].gen = req[r].gen
        /\ req'[r].neutral = req[r].neutral /\ Waiting(r)
    BY <1>4, <2>1 DEF IInv, TypeOK, HxmlRequest, ServeRequest, Waiting
  <2>3. \A q \in Requests \ {r} : Waiting(q)' => Waiting(q)
    BY <2>2 DEF Waiting
  <2> QED
    BY <2>2, <2>3, WaitsOn DEF Answering
<1>5. ASSUME NEW r \in Requests, RequestHeaders(r) PROVE Answering'
  <2>1. CASE Close(r, "done")
    BY <1>2, <2>1
  <2>2. ASSUME NEW pc \in {"ready", "reconcile"}, req' = [req EXCEPT ![r].pc = pc],
               pc = "ready" => req[r].claimed = Owner(r)
        PROVE  Answering'
    <3>1. /\ \A q \in Requests \ {r} : req'[q] = req[q]
          /\ req'[r].pc = pc /\ req'[r].gen = req[r].gen /\ req'[r].claimed = req[r].claimed
          /\ req'[r].neutral = req[r].neutral
      BY <2>2 DEF IInv, TypeOK, HxmlRequest
    <3>2. Waiting(r) /\ \A q \in Requests \ {r} : Waiting(q)' => Waiting(q)
      BY <1>5, <3>1 DEF RequestHeaders, Waiting
    <3> QED
      BY <2>2, <3>1, <3>2, WaitsOn DEF Answering
  <2> QED
    BY <1>5, <2>1, <2>2 DEF RequestHeaders, Owner
<1>6. ASSUME NEW r \in Requests, DropRequest(r) \/ RequestReconciled(r) \/ RequestRead(r)
      PROVE  Answering'
  BY <1>2, <1>6 DEF DropRequest, RequestReconciled, RequestRead
<1>r. ASSUME NEW r \in Requests, RequestReleased(r) PROVE Answering'
  <2>1. CASE Close(r, "done")
    BY <1>2, <2>1
  <2>2. CASE req' = [req EXCEPT ![r].pc = "open"]
    <3>1. /\ \A q \in Requests \ {r} : req'[q] = req[q]
          /\ req'[r].pc = "open" /\ req'[r].gen = req[r].gen
          /\ req'[r].claimed = req[r].claimed /\ req'[r].neutral = req[r].neutral
      BY <2>2 DEF IInv, TypeOK, HxmlRequest
    <3>2. /\ Waiting(r) /\ req[r].pc = "ready"
          /\ \A q \in Requests \ {r} : Waiting(q)' => Waiting(q)
      BY <1>r, <3>1 DEF RequestReleased, Waiting
    <3> QED
      BY <3>1, <3>2, WaitsOn DEF Answering
  <2> QED
    BY <1>r, <2>1, <2>2 DEF RequestReleased
<1>7. ASSUME NEW o \in Ops,
             \/ ServePost(o) \/ ExpirePost(o) \/ Authenticate(o)
             \/ Submission(o) \/ Completion(o) \/ Job(o)
      PROVE  UNCHANGED req
  BY <1>7 DEF ServePost, ExpirePost, Authenticate, Submission, SendPost, PostFailed,
     PostFailureReconciled, AcceptPost, Completion, EffectSettled, PreConfirmed,
     FinalConfirmed, Job, JobRuns, JobConfirmed, JobWritten
<1>8. ASSUME NEW c \in Clears, ClearAdmitted(c) \/ ClearRuns(c) \/ ClearWritten(c)
      PROVE  UNCHANGED req
  BY <1>8 DEF ClearAdmitted, ClearRuns, ClearWritten
<1>9. ASSUME \/ \E t \in Tasks : ServeObservation(t)
             \/ ReplaceSession \/ Start \/ MarkRootReady \/ Pause \/ Foreground \/ Resuming
             \/ StreamRevokes \/ RecoveryStart \/ RecoveryObserved \/ Abandon
      PROVE  UNCHANGED req
  BY <1>9 DEF ServeObservation, ReplaceSession, Start, MarkRootReady, Pause, Foreground,
     Resuming, ResumeBootstrap, ResumeOwner, ResumeUnsent, ResumeRecovery, StreamRevokes,
     RecoveryStart, RecoveryObserved, Abandon
<1> QED
  BY <1>1, <1>3, <1>4, <1>5, <1>6, <1>r, <1>7, <1>8, <1>9 DEF Next, Response

\* Headers and body go out only under these conditions (session.ts:229, :235).
Released ==
  \A r \in Requests :
    req'[r] # req[r] /\ req'[r].pc \in {"open", "delivered"} =>
      /\ s'.availability = "foreground"
      /\ req[r].claimed = IF HasIdentity THEN s.identity.binding ELSE s.recovery.binding

\* A step releases a response only to the owner that answered it.
LEMMA StepReleases ==
  ASSUME IInv, Answering, Next
  PROVE  Released
<1> SUFFICES ASSUME NEW r \in Requests, req'[r] # req[r], req'[r].pc \in {"open", "delivered"}
             PROVE  /\ s'.availability = "foreground"
                    /\ req[r].claimed = IF HasIdentity THEN s.identity.binding
                                                      ELSE s.recovery.binding
  BY DEF Released
<1>1. ASSUME NEW q \in Requests, Close(q, "done") PROVE FALSE
  BY <1>1 DEF Close, FreshReq, IInv, TypeOK
<1>2. RequestReleased(r) \/ RequestRead(r)
  <2>1. ASSUME NEW q \in Requests, RequestReleased(q) \/ RequestRead(q) PROVE q = r
    <3>1. Close(q, "delivered") \/ req' = [req EXCEPT ![q].pc = "open"]
      BY <1>1, <2>1 DEF RequestReleased, RequestRead
    <3> QED
      BY <3>1 DEF Close, IInv, TypeOK
  <2>2. ASSUME NEW q \in Requests, ServeRequest(q) \/ IssueRequest(q) \/ RequestHeaders(q)
        PROVE  FALSE
    <3>1. CASE ServeRequest(q)
      <4>1. PICK b : req' = [req EXCEPT ![q].pc = "answered", ![q].claimed = b]
        BY <3>1 DEF ServeRequest
      <4> QED
        BY <4>1 DEF IInv, TypeOK, HxmlRequest
    <3>2. CASE IssueRequest(q)
      BY <3>2 DEF IssueRequest, IInv, TypeOK, HxmlRequest
    <3>3. CASE RequestHeaders(q)
      <4>1. \E pc \in {"ready", "reconcile"} : req' = [req EXCEPT ![q].pc = pc]
        BY <1>1, <3>3 DEF RequestHeaders
      <4> QED
        BY <4>1 DEF IInv, TypeOK, HxmlRequest
    <3> QED
      BY <2>2, <3>1, <3>2, <3>3
  <2>3. ASSUME NEW q \in Requests, DropRequest(q) \/ RequestReconciled(q) PROVE FALSE
    BY <1>1, <2>3 DEF DropRequest, RequestReconciled
  <2>4. ~UNCHANGED req
    OBVIOUS
  <2> QED
    BY <2>1, <2>2, <2>3, <2>4
    DEF Next, Response, ServePost, ExpirePost, Authenticate, Submission, SendPost,
     PostFailed, PostFailureReconciled, AcceptPost, Completion, EffectSettled, PreConfirmed,
     FinalConfirmed, Job, JobRuns, JobConfirmed, JobWritten, ClearAdmitted, ClearRuns,
     ClearWritten, ServeObservation, ReplaceSession, Start, MarkRootReady, Pause,
     Foreground, Resuming, ResumeBootstrap, ResumeOwner, ResumeUnsent, ResumeRecovery,
     StreamRevokes, RecoveryStart, RecoveryObserved, Abandon
<1>3. /\ req[r].pc \in {"ready", "open"} /\ UNCHANGED s /\ ReqOwned(r) /\ Visible
  BY <1>1, <1>2 DEF RequestReleased, RequestRead, Presentable, Close, FreshReq, IInv, TypeOK
<1>4. req[r].claimed = Owner(r)
  BY <1>3 DEF Answering, Waiting, ReqOwned
<1> QED
  BY <1>3, <1>4 DEF Owner, ReqOwned, HandleAlive, Visible

-----------------------------------------------------------------------------
\* A step leaves the native queue alone, admits x to it or ends its first job.
Rests == queue' = queue /\ \A p \in Ops : Pending(p)' <=> Pending(p)
Grows(x) == /\ queue' = Append(queue, x)
            /\ x \in Ops => ~Pending(x)
            /\ \A p \in Ops : Pending(p)' <=> Pending(p) \/ p = x
Shrinks == /\ queue # <<>> /\ queue' = Tail(queue)
           /\ \A p \in Ops : Pending(p)' <=> Pending(p) /\ p # Head(queue)
QueueStep == Rests \/ Shrinks \/ \E x \in Ops \cup Clears : Grows(x)

\* From x to y the screen keeps its identity, though a recovery may have begun.
Lasts(x, y) == /\ y.identity = x.identity /\ y.everConfirmed = x.everConfirmed
               /\ y.startupRevoked = x.startupRevoked /\ y.auth \in {x.auth, NoOp}

\* The places of a sequence that has grown or lost its head.
LEMMA Places ==
  ASSUME NEW S, NEW q \in Seq(S), NEW x \in S
  PROVE  /\ Len(q) \in Nat
         /\ Len(Append(q, x)) = Len(q) + 1 /\ Append(q, x)[Len(q) + 1] = x
         /\ \A i \in 1 .. Len(q) : Append(q, x)[i] = q[i] /\ q[i] \in S
         /\ q # <<>> => /\ Len(q) >= 1 /\ Head(q) = q[1] /\ Len(Tail(q)) = Len(q) - 1
                        /\ \A i \in 1 .. Len(q) - 1 : Tail(q)[i] = q[i + 1]
<1>1. Len(q) \in Nat /\ \A i \in 1 .. Len(q) : q[i] \in S
  BY LenProperties, ElementOfSeq
<1>2. /\ Len(Append(q, x)) = Len(q) + 1 /\ Append(q, x)[Len(q) + 1] = x
      /\ \A i \in 1 .. Len(q) : Append(q, x)[i] = q[i]
  BY <1>1, AppendProperties
<1>3. ASSUME q # <<>>
      PROVE  /\ Len(q) >= 1 /\ Head(q) = q[1] /\ Len(Tail(q)) = Len(q) - 1
             /\ \A i \in 1 .. Len(q) - 1 : Tail(q)[i] = q[i + 1]
  BY <1>1, <1>3, HeadTailProperties, EmptySeq
<1> QED
  BY <1>1, <1>2, <1>3

\* The queue goes on holding exactly the pending operations.
LEMMA QueueingKept ==
  ASSUME IInv, Queueing, QueueStep
  PROVE  Queueing'
<1>1. queue \in Seq(Ops \cup Clears)
  BY DEF IInv, TypeOK
<1>2. CASE Rests
  BY <1>2 DEF Rests, Queueing
<1>3. ASSUME NEW x \in Ops \cup Clears, Grows(x) PROVE Queueing'
  <2>1. /\ Len(queue) \in Nat /\ Len(queue') = Len(queue) + 1 /\ queue'[Len(queue) + 1] = x
        /\ \A i \in 1 .. Len(queue) : queue'[i] = queue[i]
    BY <1>1, <1>3, Places DEF Grows
  <2>2. /\ x \in Ops => ~Pending(x)
        /\ \A p \in Ops : Pending(p)' <=> Pending(p) \/ p = x
    BY <1>3 DEF Grows
  <2>3. \A i \in 1 .. Len(queue') : i \in 1 .. Len(queue) \/ i = Len(queue) + 1
    BY <2>1
  <2>4. \A i \in 1 .. Len(queue) : i \in 1 .. Len(queue')
    BY <2>1
  <2>5. Len(queue) + 1 \in 1 .. Len(queue')
    BY <2>1
  <2>6. \A p \in Ops : Pending(p)' => \E i \in 1 .. Len(queue') : queue'[i] = p
    BY <2>1, <2>2, <2>4, <2>5 DEF Queueing
  <2>7. \A i \in 1 .. Len(queue') : queue'[i] \in Ops => Pending(queue[i])'
    BY <2>1, <2>2, <2>3 DEF Queueing
  <2>8. \A i, j \in 1 .. Len(queue') : queue'[i] \in Ops /\ queue'[i] = queue'[j] => i = j
    BY <2>1, <2>2, <2>3 DEF Queueing
  <2> QED
    BY <2>6, <2>7, <2>8 DEF Queueing, Pending
<1>4. CASE Shrinks
  <2>1. /\ Len(queue) \in Nat /\ Len(queue) >= 1 /\ Head(queue) = queue[1]
        /\ Len(queue') = Len(queue) - 1
        /\ \A i \in 1 .. Len(queue) - 1 : queue'[i] = queue[i + 1]
    <3>1. Len(queue) \in Nat
      BY <1>1, LenProperties
    <3> QED
      BY <1>1, <1>4, <3>1, HeadTailProperties, EmptySeq DEF Shrinks
  <2>2. \A p \in Ops : Pending(p)' <=> Pending(p) /\ p # queue[1]
    BY <1>4, <2>1 DEF Shrinks
  <2>3. \A i \in 1 .. Len(queue') : i + 1 \in 1 .. Len(queue) /\ i + 1 # 1
                                    /\ queue'[i] = queue[i + 1]
    BY <2>1
  <2>4. \A i \in 1 .. Len(queue) : i # 1 => i - 1 \in 1 .. Len(queue') /\ queue'[i - 1] = queue[i]
    BY <2>1
  <2>5. 1 \in 1 .. Len(queue)
    BY <2>1
  <2>6. \A p \in Ops : Pending(p)' => \E i \in 1 .. Len(queue') : queue'[i] = p
    BY <2>2, <2>4 DEF Queueing
  <2>7. \A i \in 1 .. Len(queue') : queue'[i] \in Ops => Pending(queue[i])'
    BY <2>2, <2>3, <2>5 DEF Queueing
  <2>8. \A i, j \in 1 .. Len(queue') : queue'[i] \in Ops /\ queue'[i] = queue'[j] => i = j
    <3> SUFFICES ASSUME NEW i \in 1 .. Len(queue'), NEW j \in 1 .. Len(queue'),
                        queue'[i] \in Ops, queue'[i] = queue'[j]
                 PROVE  i = j
      OBVIOUS
    <3>1. i + 1 = j + 1
      BY <2>3 DEF Queueing
    <3> QED
      BY <2>1, <3>1
  <2> QED
    BY <2>6, <2>7, <2>8 DEF Queueing, Pending
<1> QED
  BY <1>2, <1>3, <1>4 DEF QueueStep

\* Jobs of operations the supervisor has let go of stay in front.
LEMMA BehindKept ==
  ASSUME IInv, Queueing, QueueStep, NEW o \in Ops, Behind(o),
         op'[o].job = "settled" => op[o].job = "settled" \/ (Shrinks /\ Head(queue) = o),
         \A x \in Ops : Grows(x) => x = o
  PROVE  Behind(o)'
<1> SUFFICES ASSUME NEW p \in Ops \ {o}, Pending(p)'
             PROVE  /\ op'[o].job # "settled"
                    /\ \A j \in 1 .. Len(queue') :
                         queue'[j] = o => \E i \in 1 .. Len(queue') : i < j /\ queue'[i] = p
  BY DEF Behind, Pending
<1>1. queue \in Seq(Ops \cup Clears) /\ Len(queue) \in Nat
  BY LenProperties DEF IInv, TypeOK
<1>2. CASE Rests
  <2>1. Pending(p) /\ queue' = queue /\ ~Shrinks
    <3>1. queue # <<>> => Tail(queue) # queue
      BY <1>1, HeadTailProperties, EmptySeq
    <3> QED
      BY <1>2, <3>1 DEF Rests, Shrinks
  <2> QED
    BY <2>1 DEF Behind
<1>3. ASSUME NEW x \in Ops \cup Clears, Grows(x)
      PROVE  /\ op'[o].job # "settled"
             /\ \A j \in 1 .. Len(queue') :
                  queue'[j] = o => \E i \in 1 .. Len(queue') : i < j /\ queue'[i] = p
  <2>1. /\ Len(queue') = Len(queue) + 1 /\ queue'[Len(queue) + 1] = x
        /\ \A i \in 1 .. Len(queue) : queue'[i] = queue[i]
    BY <1>1, <1>3, Places DEF Grows
  <2>2. Pending(p) /\ x # p
    BY <1>3, SessionConstants DEF Grows
  <2>3. ~Shrinks
    <3>1. queue # <<>> => Len(Tail(queue)) = Len(queue) - 1
      BY <1>1, HeadTailProperties
    <3> QED
      BY <1>1, <2>1, <3>1 DEF Shrinks
  <2>4. op'[o].job # "settled"
    BY <2>2, <2>3 DEF Behind
  <2>5. PICK k \in 1 .. Len(queue) : queue[k] = p
    BY <2>2 DEF Queueing
  <2> SUFFICES ASSUME NEW j \in 1 .. Len(queue'), queue'[j] = o
               PROVE  \E i \in 1 .. Len(queue') : i < j /\ queue'[i] = p
    BY <2>4
  <2>6. CASE j = Len(queue) + 1
    BY <1>1, <2>1, <2>5, <2>6
  <2>7. CASE j \in 1 .. Len(queue)
    <3>1. PICK i \in 1 .. Len(queue) : i < j /\ queue[i] = p
      BY <2>1, <2>2, <2>7 DEF Behind
    <3> QED
      BY <1>1, <2>1, <3>1
  <2> QED
    BY <1>1, <2>1, <2>6, <2>7
<1>4. CASE Shrinks
  <2>1. /\ Len(queue) >= 1 /\ Head(queue) = queue[1] /\ Len(queue') = Len(queue) - 1
        /\ \A i \in 1 .. Len(queue) - 1 : queue'[i] = queue[i + 1]
    BY <1>1, <1>4, HeadTailProperties, EmptySeq DEF Shrinks
  <2>2. Pending(p) /\ p # queue[1]
    BY <1>4, <2>1 DEF Shrinks
  <2>3. queue[1] # o
    <3>1. ASSUME queue[1] = o PROVE FALSE
      <4>1. PICK i \in 1 .. Len(queue) : i < 1 /\ queue[i] = p
        BY <1>1, <2>1, <2>2, <3>1 DEF Behind
      <4> QED
        BY <1>1, <4>1
    <3> QED
      BY <3>1
  <2>4. op'[o].job # "settled"
    BY <2>1, <2>2, <2>3 DEF Behind
  <2> SUFFICES ASSUME NEW j \in 1 .. Len(queue'), queue'[j] = o
               PROVE  \E i \in 1 .. Len(queue') : i < j /\ queue'[i] = p
    BY <2>4
  <2>5. j + 1 \in 1 .. Len(queue) /\ queue[j + 1] = o
    BY <1>1, <2>1
  <2>6. PICK i \in 1 .. Len(queue) : i < j + 1 /\ queue[i] = p
    BY <2>2, <2>5 DEF Behind
  <2>7. i # 1
    BY <2>2, <2>6
  <2>8. i - 1 \in 1 .. Len(queue') /\ i - 1 < j /\ queue'[i - 1] = p
    BY <1>1, <2>1, <2>6, <2>7
  <2> QED
    BY <2>8
<1> QED
  BY <1>2, <1>3, <1>4 DEF QueueStep

\* A step keeps the ledger of the queue and its owners when it keeps or takes away
\* the identity, or publishes one with nothing pending, and hands the login over
\* to nobody.
LEMMA AdmittedKept ==
  ASSUME IInv, IInv', Queueing, Admitted, QueueStep,
         \/ Lasts(s, s')
         \/ Revoked(s, s')
         \/ s'.auth = NoOp /\ s'.everConfirmed /\ \A p \in Ops : ~Pending(p)',
         \/ nativeEffects' \subseteq nativeEffects
         \/ Owned(s) /\ s.auth = NoOp /\ s'.auth = NoOp /\ Lasts(s, s'),
         \A x \in Ops : Grows(x) => s.auth = x,
         \A o \in Ops : s'.auth = o =>
           /\ op'[o].logout = op[o].logout
           /\ Sent(o)' => Sent(o) \/ nativeEffects = {}
           /\ op'[o].job = "settled" =>
                op[o].job = "settled" \/ (Shrinks /\ Head(queue) = o),
         \A p \in Ops : s.auth = p /\ Pending(p)' => s'.auth = p \/ Revoked(s, s')
  PROVE  Queueing' /\ Admitted'
<1>1. Queueing'
  BY QueueingKept
<1>3. \A p \in Ops : Pending(p)' => Pending(p) \/ s.auth = p
  BY DEF QueueStep, Rests, Grows, Shrinks
<1>4. HasIdentity' => \A p \in Ops : Pending(p)' => s'.auth = p
  <2>1. Lasts(s, s') => (HasIdentity' <=> HasIdentity)
    BY DEF Lasts, HasIdentity
  <2>2. Revoked(s, s') => ~HasIdentity'
    BY DEF Revoked, Owned, HasIdentity
  <2> QED
    BY <1>3, <2>1, <2>2 DEF Admitted
<1>5. ASSUME NEW o \in Ops, s'.auth = o
      PROVE  /\ HasIdentity' \/ ~op'[o].logout
             /\ Sent(o)' => nativeEffects' = {}
             /\ Behind(o)'
  <2>1. Lasts(s, s') /\ s.auth = o /\ nativeEffects' \subseteq nativeEffects
    BY <1>5, SessionConstants DEF Lasts, Revoked
  <2>2. HasIdentity' <=> HasIdentity
    BY <2>1 DEF Lasts, HasIdentity
  <2>3. (HasIdentity \/ ~op[o].logout) /\ (Sent(o) => nativeEffects = {}) /\ Behind(o)
    BY <2>1 DEF Admitted
  <2>4. Behind(o)'
    BY <1>5, <2>1, <2>3, BehindKept
  <2> QED
    BY <1>5, <2>1, <2>2, <2>3, <2>4
<1>6. ASSUME ~s'.everConfirmed, ~s'.startupRevoked
      PROVE  nativeEffects' = {} /\ \A p \in Ops : ~Pending(p)'
  <2>1. Lasts(s, s') /\ ~s.everConfirmed /\ ~s.startupRevoked
    BY <1>6 DEF Lasts, Revoked
  <2>2. ~Owned(s) /\ s.auth = NoOp
    BY <2>1 DEF IInv, Sound, Owned
  <2> QED
    BY <1>3, <2>1, <2>2, SessionConstants DEF Admitted
<1> QED
  BY <1>1, <1>4, <1>5, <1>6 DEF Admitted

-----------------------------------------------------------------------------
\* What the fields of the supervisor make of the one it becomes.
LEMMA Lasting ==
  /\ \A x, y : Stays(x, y) => Lasts(x, y)
  /\ UNCHANGED s => Lasts(s, s')
BY DEF Stays, Lasts

\* A forgotten operation has written everything it ever will.
LEMMA RetiredProcessed ==
  /\ Processed(Retired) /\ Retired.job = "none" /\ ~Retired.accepted
  /\ Retired.effect = "none" /\ Retired.proc = "idle" /\ Retired.run = "done"
<1>1. /\ Retired.run = "done" /\ Retired.job = "none" /\ ~Retired.accepted
      /\ Retired.effect = "none" /\ Retired.proc = "idle" /\ Retired.answer = "none"
  BY DEF Retired, FreshOp
<1> QED
  BY <1>1 DEF Processed

\* A step about one operation keeps the ledger when the operation's own record
\* stays in order and the supervisor hands the login over to nobody.
LEMMA LedgerMoved ==
  ASSUME IInv, IInv', Ledger, NEW o \in Ops, \A p \in Ops \ {o} : op'[p] = op[p],
         Processed(op'[o]), QueueStep, nativeEffects' \subseteq nativeEffects,
         \A x \in Ops : Grows(x) => s.auth = x,
         \/ Lasts(s, s')
         \/ Revoked(s, s')
         \/ s'.auth = NoOp /\ s'.everConfirmed /\ \A p \in Ops : ~Pending(p)',
         s'.auth = s.auth \/ Revoked(s, s') \/ (s.auth = o /\ s'.auth = NoOp),
         s'.auth = o =>
           /\ op'[o].logout = op[o].logout
           /\ Sent(o)' => Sent(o) \/ nativeEffects = {}
           /\ op'[o].job = "settled" =>
                op[o].job = "settled" \/ (Shrinks /\ Head(queue) = o)
           /\ op'[o].accepted /\ op'[o].effect # "none" /\ ~op'[o].needsPreconfirm =>
                reconfirmed',
         s.auth = o /\ Pending(o)' => s'.auth = o \/ Revoked(s, s'),
         (reconfirmed => reconfirmed') \/ s'.auth = o
  PROVE  Ledger'
<1>1. \A p \in Ops : s'.auth = p => s.auth = p
  BY SessionConstants DEF Revoked
<1>2. \A p \in Ops : Processed(op'[p])
  BY DEF Ledger
<1>3. Queueing' /\ Admitted'
  <2>1. \A p \in Ops : s'.auth = p =>
           /\ op'[p].logout = op[p].logout
           /\ Sent(p)' => Sent(p) \/ nativeEffects = {}
           /\ op'[p].job = "settled" =>
                op[p].job = "settled" \/ (Shrinks /\ Head(queue) = p)
    BY DEF Sent
  <2>2. \A p \in Ops : s.auth = p /\ Pending(p)' => s'.auth = p \/ Revoked(s, s')
    OBVIOUS
  <2> QED
    BY <2>1, <2>2, AdmittedKept DEF Ledger
<1>4. Reheard'
  <2> SUFFICES ASSUME NEW p \in Ops, s'.auth = p, op'[p].accepted, op'[p].effect # "none",
                      ~op'[p].needsPreconfirm
               PROVE  reconfirmed'
    BY DEF Reheard
  <2>1. CASE p = o
    BY <2>1
  <2>2. CASE p # o
    BY <1>1, <2>2 DEF Ledger, Reheard
  <2> QED
    BY <2>1, <2>2
<1> QED
  BY <1>2, <1>3, <1>4 DEF Ledger

\* A step that touches no operation and no native job keeps it too.
LEMMA LedgerAlone ==
  ASSUME IInv, IInv', Ledger, UNCHANGED <<op, queue, clear>>,
         \/ Lasts(s, s') /\ s'.auth = s.auth
         \/ Revoked(s, s')
         \/ s'.auth = NoOp /\ s'.everConfirmed /\ \A p \in Ops : ~Pending(p),
         reconfirmed => reconfirmed'
  PROVE  Ledger'
<1>1. \A p \in Ops : Processed(op'[p])
  BY DEF Ledger
<1>2. Rests /\ \A x \in Ops : ~Grows(x)
  <2>1. Rests
    BY DEF Rests, Pending
  <2>2. ASSUME NEW x \in Ops, Grows(x) PROVE FALSE
    <3>1. Pending(x)' <=> Pending(x)
      BY DEF Pending
    <3>2. ~Pending(x) /\ Pending(x)'
      BY <2>2 DEF Grows
    <3> QED
      BY <3>1, <3>2
  <2> QED
    BY <2>1, <2>2
<1>3. Queueing' /\ Admitted'
  <2>1. \A p \in Ops : Pending(p)' <=> Pending(p)
    BY DEF Pending
  <2>2. \A p \in Ops : s'.auth = p => s.auth = p /\ op'[p] = op[p]
    BY SessionConstants DEF Revoked
  <2>3. nativeEffects' = nativeEffects /\ \A p \in Ops : Sent(p)' <=> Sent(p)
    BY DEF nativeEffects, Sent
  <2>4. \A p \in Ops : s.auth = p /\ Pending(p)' => s'.auth = p \/ Revoked(s, s')
    BY <2>1
  <2> QED
    BY <1>2, <2>1, <2>2, <2>3, <2>4, AdmittedKept DEF Ledger, QueueStep
<1>4. Reheard'
  <2>1. \A p \in Ops : s'.auth = p => s.auth = p /\ op'[p] = op[p]
    BY SessionConstants DEF Revoked
  <2> QED
    BY <2>1 DEF Ledger, Reheard
<1> QED
  BY <1>1, <1>3, <1>4 DEF Ledger

\* The steps of the server, the requests, the life cycle and the shield that touch
\* no operation.
LEMMA AloneLedger ==
  ASSUME IInv, IInv', Ledger,
         \/ \E t \in Tasks : ServeObservation(t)
         \/ ReplaceSession \/ MarkRootReady \/ Start \/ ResumeBootstrap \/ ResumeOwner
         \/ ResumeRecovery \/ StreamRevokes \/ RecoveryStart \/ RecoveryObserved
         \/ \E r \in Requests : \/ ServeRequest(r) \/ DropRequest(r) \/ IssueRequest(r)
                               \/ Response(r) \/ RequestRead(r)
  PROVE  Ledger'
<1>1. UNCHANGED <<op, queue, clear>> /\ (reconfirmed => reconfirmed')
  <2>1. CASE Start \/ ResumeBootstrap \/ ResumeOwner \/ ResumeRecovery \/ RecoveryObserved
    <3>1. UNCHANGED <<op, queue, clear>>
      BY <2>1 DEF Start, ResumeBootstrap, ResumeOwner, ResumeRecovery, RecoveryObserved
    <3>2. \E t \in Tasks : Heard(t, Idle)
      BY <2>1 DEF Tasks, Start, ResumeBootstrap, ResumeOwner, ResumeRecovery,
         RecoveryObserved
    <3> QED
      BY <3>1, <3>2 DEF Heard
  <2>2. ASSUME NEW r \in Requests,
               \/ ServeRequest(r) \/ DropRequest(r) \/ IssueRequest(r)
               \/ Response(r) \/ RequestRead(r)
        PROVE  UNCHANGED <<op, queue, clear>> /\ (reconfirmed => reconfirmed')
    <3>1. UNCHANGED <<op, queue, clear>>
      BY <2>2 DEF ServeRequest, DropRequest, IssueRequest, Response, RequestHeaders,
         RequestReconciled, RequestReleased, RequestRead
    <3>2. reconfirmed' = reconfirmed \/ Heard(r, Idle)
      BY <2>2 DEF ServeRequest, DropRequest, IssueRequest, Response, RequestHeaders,
         RequestReconciled, RequestReleased, RequestRead
    <3>3. CASE reconfirmed' = reconfirmed
      BY <3>1, <3>3
    <3>4. CASE Heard(r, Idle)
      BY <3>1, <3>4 DEF Heard
    <3> QED
      BY <3>2, <3>3, <3>4
  <2>3. CASE \/ \E t \in Tasks : ServeObservation(t)
             \/ ReplaceSession \/ MarkRootReady \/ StreamRevokes \/ RecoveryStart
    BY <2>3 DEF ServeObservation, ReplaceSession, MarkRootReady, StreamRevokes, RecoveryStart
  <2> QED
    BY <2>1, <2>2, <2>3
<1>2. Sound(s) /\ s \in Supervisor /\ TypeOK
  BY DEF IInv, Sound
<1>3. /\ Stays(s, s) /\ Stays(s, Protected(s)) /\ Protected(s).auth = s.auth
      /\ Revoked(s, Invalidated(s))
  BY <1>2, ProtectedSound, InvalidatedSound DEF Stays
<1>4. ASSUME NEW t \in Tasks, NEW b \in BOOLEAN, s' = Reconciled(s, t, b) PROVE Ledger'
  BY <1>1, <1>2, <1>4, ReconciledSound, Lasting, LedgerAlone
<1>5. CASE s' \in {s, Protected(s), Invalidated(s)}
  BY <1>1, <1>3, <1>5, Lasting, LedgerAlone
<1>6. CASE MarkRootReady
  <2>1. Lasts(s, s') /\ s'.auth = s.auth
    BY <1>2, <1>6 DEF MarkRootReady, Lasts, Supervisor
  <2> QED
    BY <1>1, <2>1, LedgerAlone
<1>7. ASSUME NEW t \in {"start", "resume"}, s' \in Told(Adopted(s, t)), conf[t].busy,
             t = "resume" => resume.pc = "bootstrap"
      PROVE  Ledger'
  <2>1. t \in Tasks
    BY DEF Tasks
  <2>2. ASSUME conf[t].gen = s.generation, Confirmed(t) \in Bindings,
               s' \in Announced(Confirmed(t))
        PROVE  Ledger'
    <3>1. ~s.everConfirmed /\ ~s.startupRevoked
      BY <1>7, <2>2 DEF IInv, Suspended, Live
    <3>2. \A p \in Ops : ~Pending(p)
      BY <3>1 DEF Ledger, Admitted
    <3>3. s'.auth = NoOp /\ s'.everConfirmed
      BY <1>2, <2>2, AnnouncedSound
    <3> QED
      BY <1>1, <3>2, <3>3, LedgerAlone
  <2> QED
    BY <1>2, <1>5, <1>7, <2>1, <2>2, AdoptedCases
<1>8. CASE Start \/ ResumeBootstrap
  BY <1>7, <1>8 DEF Start, ResumeBootstrap, Heard
<1>9. CASE ResumeOwner
  BY <1>4, <1>9 DEF ResumeOwner, Tasks
<1>10. CASE ResumeRecovery
  <2> DEFINE y == [s EXCEPT !.recovery.confirmed = TRUE, !.availability = "foreground"]
  <2>1. s' \in {s, Invalidated(s), y}
    BY <1>10 DEF ResumeRecovery
  <2>2. Lasts(s, y) /\ y.auth = s.auth
    BY <1>2 DEF Lasts, Supervisor
  <2> HIDE DEF y
  <2> QED
    BY <1>1, <1>5, <2>1, <2>2, LedgerAlone
<1>11. CASE RecoveryObserved
  <2> DEFINE y == [s EXCEPT !.availability = "foreground",
                     !.recovery = [binding |-> Confirmed("recover"),
                                   generation |-> s.generation, confirmed |-> TRUE]]
  <2>1. s' \in {s, Protected(s), y}
    BY <1>11 DEF RecoveryObserved, Confirmed
  <2>2. Lasts(s, y) /\ y.auth = s.auth
    BY <1>2 DEF Lasts, Supervisor
  <2> HIDE DEF y
  <2> QED
    BY <1>1, <1>5, <2>1, <2>2, LedgerAlone
<1>12. ASSUME NEW r \in Requests,
              \/ ServeRequest(r) \/ DropRequest(r) \/ IssueRequest(r)
              \/ Response(r) \/ RequestRead(r)
       PROVE  Ledger'
  <2>1. CASE RequestReconciled(r)
    <3>1. r \in Tasks
      BY DEF Tasks
    <3> QED
      BY <1>4, <2>1, <3>1 DEF RequestReconciled
  <2> QED
    BY <1>5, <1>12, <2>1 DEF ServeRequest, DropRequest, IssueRequest, Response,
       RequestHeaders, RequestReleased, RequestRead
<1>13. CASE \/ \E t \in Tasks : ServeObservation(t)
            \/ ReplaceSession \/ StreamRevokes \/ RecoveryStart
  BY <1>5, <1>13 DEF ServeObservation, ReplaceSession, StreamRevokes, RecoveryStart
<1> QED
  BY <1>6, <1>8, <1>9, <1>10, <1>11, <1>12, <1>13

-----------------------------------------------------------------------------
\* The queue is left alone and the operation's job neither begins nor ends.
LEMMA QueueRests ==
  ASSUME NEW o \in Ops, \A p \in Ops \ {o} : op'[p] = op[p], queue' = queue,
         Pending(o)' <=> Pending(o)
  PROVE  QueueStep /\ \A x \in Ops : ~Grows(x)
<1>1. \A p \in Ops : Pending(p)' <=> Pending(p)
  BY DEF Pending
<1>2. ASSUME NEW x \in Ops, Grows(x) PROVE FALSE
  <2>1. ~Pending(x) /\ Pending(x)'
    BY <1>2 DEF Grows
  <2> QED
    BY <1>1, <2>1
<1> QED
  BY <1>1, <1>2 DEF QueueStep, Rests

\* What the supervisor holds is current, and what it does not hold is not.
LEMMA HeldIsCurrent ==
  ASSUME IInv, NEW o \in Ops
  PROVE  s.auth = o <=> Current(o)
BY SessionConstants DEF IInv, Operating, Current

\* The server's answer changes nothing but the answer (session.ts:255).
LEMMA ServePostLedger ==
  ASSUME IInv, IInv', Ledger, NEW o \in Ops, ServePost(o)
  PROVE  Ledger'
<1>1. PICK answer \in {"success", "panel"}, effect \in {"none", "save", "clear"},
           new \in Bindings, lost \in BOOLEAN :
        /\ answer = "success" => (op[o].logout <=> effect = "none")
        /\ op' = [op EXCEPT ![o] = IF lost THEN [@ EXCEPT !.run = "broken"]
                   ELSE [@ EXCEPT !.run = "answered", !.answer = answer,
                                  !.effect = effect, !.binding = BindingOf(new)]]
  BY DEF ServePost
<1>2. /\ op[o].run = "posted" /\ UNCHANGED <<s, clear, queue, reconfirmed>>
  BY DEF ServePost
<1>3. /\ \A p \in Ops \ {o} : op'[p] = op[p]
      /\ op'[o].run \in {"broken", "answered"} /\ op'[o].accepted = op[o].accepted
      /\ op'[o].job = op[o].job /\ op'[o].proc = op[o].proc /\ op'[o].logout = op[o].logout
      /\ \/ op'[o].answer = op[o].answer /\ op'[o].effect = op[o].effect
         \/ op'[o].answer = answer /\ op'[o].effect = effect
  BY <1>1 DEF IInv, TypeOK, Operation
<1>4. ~op[o].accepted /\ op[o].job = "none" /\ op[o].proc = "idle" /\ Processed(op[o])
  BY <1>2 DEF Ledger, Processed, IInv, TypeOK, Operating, Operation
<1>5. Processed(op'[o])
  BY <1>1, <1>3, <1>4 DEF Processed
<1>6. QueueStep /\ \A x \in Ops : ~Grows(x)
  BY <1>2, <1>3, QueueRests DEF Pending
<1>7. Sent(o) /\ nativeEffects' = nativeEffects /\ Lasts(s, s')
  BY <1>2 DEF Sent, nativeEffects, Lasts
<1> QED
  BY <1>2, <1>3, <1>4, <1>5, <1>6, <1>7, LedgerMoved

\* A record that differs in no field the ledger looks at.
LEMMA Unnoticed ==
  ASSUME IInv, IInv', Ledger, NEW o \in Ops, \A p \in Ops \ {o} : op'[p] = op[p],
         op'[o].run = op[o].run, op'[o].accepted = op[o].accepted, op'[o].job = op[o].job,
         op'[o].proc = op[o].proc, op'[o].logout = op[o].logout,
         op'[o].answer = op[o].answer, op'[o].effect = op[o].effect,
         op'[o].needsPreconfirm = op[o].needsPreconfirm,
         UNCHANGED <<clear, queue>>, reconfirmed => reconfirmed',
         (Lasts(s, s') /\ s'.auth = s.auth) \/ Revoked(s, s')
  PROVE  Ledger'
<1>1. Processed(op'[o])
  BY DEF Ledger, Processed
<1>2. QueueStep /\ \A x \in Ops : ~Grows(x)
  BY QueueRests DEF Pending
<1>3. (Sent(o)' <=> Sent(o)) /\ nativeEffects' = nativeEffects
  BY DEF Sent, nativeEffects
<1>4. s'.auth = o =>
        s.auth = o /\ (op[o].accepted /\ op[o].effect # "none" /\ ~op[o].needsPreconfirm
                         => reconfirmed)
  BY SessionConstants DEF Revoked, Ledger, Reheard
<1> QED
  BY <1>1, <1>2, <1>3, <1>4, LedgerMoved

\* The deadline of the POST (session.ts:262).
LEMMA ExpirePostLedger ==
  ASSUME IInv, IInv', Ledger, NEW o \in Ops, ExpirePost(o)
  PROVE  Ledger'
<1>1. Lasts(s, s') /\ s'.auth = s.auth
  BY ProtectedSound, Lasting DEF ExpirePost, IInv, Lasts
<1>2. /\ \A p \in Ops \ {o} : op'[p] = op[p]
      /\ op'[o].run = op[o].run /\ op'[o].accepted = op[o].accepted
      /\ op'[o].job = op[o].job /\ op'[o].proc = op[o].proc
      /\ op'[o].logout = op[o].logout /\ op'[o].answer = op[o].answer
      /\ op'[o].effect = op[o].effect /\ op'[o].needsPreconfirm = op[o].needsPreconfirm
  BY DEF ExpirePost, IInv, TypeOK, Operation
<1> QED
  BY <1>1, <1>2, Unnoticed DEF ExpirePost

\* The confirmation of an unsent submission (session.ts:305).
LEMMA ResumeUnsentLedger ==
  ASSUME IInv, IInv', Ledger, ResumeUnsent
  PROVE  Ledger'
<1> DEFINE o == resume.op
           b == op[resume.op].expected
           y == Accepted(s, resume.op)
           z == [y EXCEPT !.availability = "auth-pending"]
<1>1. /\ UNCHANGED <<clear, queue>> /\ (reconfirmed => reconfirmed')
      /\ "resume" \in Tasks
  BY DEF ResumeUnsent, Heard, Tasks
<1>2. (Lasts(s, s') /\ s'.auth = s.auth) \/ Revoked(s, s')
  <2>1. s' = s \/ s' = z \/ (s' = Refused(s, "resume", o, b) /\ ~Accepts("resume", o, b))
    BY DEF ResumeUnsent
  <2>2. y \in Supervisor /\ Stays(s, y) /\ y.auth = s.auth
    BY AcceptedSound DEF IInv, Sound
  <2>3. Lasts(s, z) /\ z.auth = s.auth
    <3> HIDE DEF y
    <3> QED
      BY <2>2, Lasting DEF Lasts, Supervisor
  <2> HIDE DEF z, o, b
  <2> QED
    BY <1>1, <2>1, <2>3, RefusedSound, Lasting DEF IInv, Lasts
<1>3. CASE UNCHANGED op
  BY <1>1, <1>2, <1>3, LedgerAlone
<1>4. CASE op' = [op EXCEPT ![o].resumeConfirmed = TRUE] /\ o \in Ops
  <2> HIDE DEF o
  <2>1. /\ \A p \in Ops \ {o} : op'[p] = op[p]
        /\ op'[o].run = op[o].run /\ op'[o].accepted = op[o].accepted
        /\ op'[o].job = op[o].job /\ op'[o].proc = op[o].proc
        /\ op'[o].logout = op[o].logout /\ op'[o].answer = op[o].answer
        /\ op'[o].effect = op[o].effect /\ op'[o].needsPreconfirm = op[o].needsPreconfirm
    BY <1>4 DEF IInv, TypeOK, Operation
  <2> QED
    BY <1>1, <1>2, <1>4, <2>1, Unnoticed
<1>5. CASE op' = [op EXCEPT ![o].resumeConfirmed = TRUE] /\ o \notin Ops
  <2>1. UNCHANGED op
    BY <1>5 DEF IInv, TypeOK
  <2> QED
    BY <1>3, <2>1
<1> QED
  BY <1>3, <1>4, <1>5 DEF ResumeUnsent

\* A submission that is let go of without an accepted answer leaves no trace.
LEMMA LetGo ==
  ASSUME IInv, IInv', Ledger, NEW o \in Ops, op' = [op EXCEPT ![o] = Retired],
         op[o].proc = "idle" \/ op[o].job \in {"none", "settled"},
         UNCHANGED <<clear, queue>>, reconfirmed => reconfirmed',
         \/ Lasts(s, s') /\ (s'.auth = s.auth \/ (s.auth = o /\ s'.auth = NoOp))
         \/ Revoked(s, s'),
         s'.auth # o
  PROVE  Ledger'
<1>1. op'[o] = Retired /\ \A p \in Ops \ {o} : op'[p] = op[p]
  BY DEF IInv, TypeOK
<1>2. ~Pending(o) /\ ~Pending(o)' /\ nativeEffects' = nativeEffects
  BY <1>1, RetiredProcessed DEF Pending, Ledger, Processed, nativeEffects
<1>3. QueueStep /\ \A x \in Ops : ~Grows(x)
  BY <1>1, <1>2, QueueRests
<1> QED
  BY <1>1, <1>2, <1>3, RetiredProcessed, LedgerMoved

\* The barrier is up only once every clear admitted before it has settled
\* (session.ts:253).
LEMMA SendPostLedger ==
  ASSUME IInv, IInv', Ledger, NEW o \in Ops, SendPost(o)
  PROVE  Ledger'
<1>1. /\ UNCHANGED <<s, clear, queue, reconfirmed>> /\ op[o].run = "drain"
      /\ op[o].drain \cap (inFlight \cup nativeEffects) = {}
      /\ Lasts(s, s')
  BY DEF SendPost, Lasts
<1>2. ~op[o].accepted /\ op[o].job = "none" /\ op[o].proc = "idle" /\ Processed(op[o])
  BY <1>1 DEF Ledger, Processed, IInv, TypeOK, Operating, Operation
<1>3. CASE ~Current(o)
  <2>1. op' = [op EXCEPT ![o] = Retired] /\ s'.auth # o /\ s'.auth = s.auth
    BY <1>1, <1>3, HeldIsCurrent DEF SendPost
  <2> QED
    BY <1>1, <1>2, <2>1, LetGo
<1>4. CASE Current(o)
  <2>1. /\ \A p \in Ops \ {o} : op'[p] = op[p]
        /\ op'[o].run = "posted" /\ op'[o].accepted = op[o].accepted
        /\ op'[o].job = op[o].job /\ op'[o].proc = op[o].proc
        /\ op'[o].logout = op[o].logout /\ op'[o].answer = op[o].answer
        /\ op'[o].effect = op[o].effect
    BY <1>4 DEF SendPost, IInv, TypeOK, Operation
  <2>2. Processed(op'[o])
    BY <1>2, <2>1 DEF Processed
  <2>3. nativeEffects = {}
    <3>1. inFlight \cup nativeEffects \subseteq op[o].drain
      BY <1>1, <1>4, HeldIsCurrent DEF IInv, Operating
    <3> QED
      BY <1>1, <3>1
  <2>4. QueueStep /\ \A x \in Ops : ~Grows(x)
    BY <1>1, <2>1, QueueRests DEF Pending
  <2>5. nativeEffects' = nativeEffects
    BY <1>1 DEF nativeEffects
  <2> QED
    BY <1>1, <1>2, <2>1, <2>2, <2>3, <2>4, <2>5, LedgerMoved
<1> QED
  BY <1>3, <1>4

\* A failed POST is accepted by nobody (session.ts:265).
LEMMA PostFailedLedger ==
  ASSUME IInv, IInv', Ledger, NEW o \in Ops, PostFailed(o)
  PROVE  Ledger'
<1>1. /\ UNCHANGED <<clear, queue, reconfirmed>> /\ op[o].run \in {"broken", "answered"}
      /\ Lasts(s, s') /\ s'.auth = s.auth
  BY ProtectedSound, Lasting DEF PostFailed, IInv, Lasts
<1>2. ~op[o].accepted /\ op[o].job = "none" /\ op[o].proc = "idle" /\ Processed(op[o])
  BY <1>1 DEF Ledger, Processed, IInv, TypeOK, Operating, Operation
<1>3. CASE ~Current(o)
  BY <1>1, <1>2, <1>3, LetGo, HeldIsCurrent DEF PostFailed
<1>4. CASE Current(o)
  <2>1. /\ \A p \in Ops \ {o} : op'[p] = op[p]
        /\ op'[o].run = "failing" /\ op'[o].accepted = op[o].accepted
        /\ op'[o].job = op[o].job /\ op'[o].proc = op[o].proc
        /\ op'[o].logout = op[o].logout /\ op'[o].answer = op[o].answer
        /\ op'[o].effect = op[o].effect
    BY <1>4 DEF PostFailed, IInv, TypeOK, Operation
  <2>2. Processed(op'[o])
    BY <1>2, <2>1 DEF Processed
  <2>3. QueueStep /\ \A x \in Ops : ~Grows(x)
    BY <1>1, <2>1, QueueRests DEF Pending
  <2>4. nativeEffects' = nativeEffects /\ Sent(o)
    BY <1>1 DEF nativeEffects, Sent
  <2> QED
    BY <1>1, <1>2, <2>1, <2>2, <2>3, <2>4, LedgerMoved
<1> QED
  BY <1>3, <1>4

\* ... and forgotten once the owner has been looked at (session.ts:273).
LEMMA PostFailureReconciledLedger ==
  ASSUME IInv, IInv', Ledger, NEW o \in Ops, PostFailureReconciled(o)
  PROVE  Ledger'
<1> DEFINE x == Reconciled(s, o, FALSE)
<1>1. /\ UNCHANGED <<clear, queue>> /\ op[o].run = "failing"
      /\ op' = [op EXCEPT ![o] = Retired] /\ (reconfirmed => reconfirmed')
      /\ s' = [x EXCEPT !.auth = IF @ = o THEN NoOp ELSE @]
  BY DEF PostFailureReconciled, Heard
<1>2. op[o].proc = "idle"
  BY <1>1 DEF Ledger, Processed, IInv, TypeOK, Operating, Operation
<1>3. /\ x \in Supervisor /\ o \in Tasks
      /\ Revoked(s, x) \/ (Stays(s, x) /\ x.auth = s.auth)
  BY ReconciledSound DEF IInv, Sound, Tasks
<1> HIDE DEF x
<1>4. /\ s'.generation = x.generation /\ s'.identity = x.identity
      /\ s'.recovery = x.recovery
      /\ s'.everConfirmed = x.everConfirmed /\ s'.startupRevoked = x.startupRevoked
      /\ s'.auth = IF x.auth = o THEN NoOp ELSE x.auth
  BY <1>1, <1>3 DEF Supervisor
<1>5. s'.auth # o
  BY <1>4, SessionConstants
<1>6. \/ Lasts(s, s') /\ (s'.auth = s.auth \/ (s.auth = o /\ s'.auth = NoOp))
      \/ Revoked(s, s')
  BY <1>3, <1>4, SessionConstants DEF Lasts, Stays, Revoked, Owned
<1> QED
  BY <1>1, <1>2, <1>5, <1>6, LetGo

\* abandonTransition() drops only what has no write under way (session.ts:470).
LEMMA AbandonLedger ==
  ASSUME IInv, IInv', Ledger, Abandon
  PROVE  Ledger'
<1>1. PICK o \in Ops : o = s.auth
  BY DEF Abandon, IInv, Sound, Supervisor
<1>2. /\ UNCHANGED <<clear, queue, reconfirmed>> /\ op[o].proc = "idle"
      /\ Lasts(s, s') /\ s'.auth = NoOp
  BY <1>1 DEF Abandon, Lasts, Protected, IInv, Sound, Supervisor
<1>3. CASE Sent(o)
  <2>1. op' = [op EXCEPT ![o] = Retired]
    BY <1>1, <1>3 DEF Abandon
  <2> QED
    BY <1>1, <1>2, <2>1, LetGo, SessionConstants
<1>4. CASE ~Sent(o)
  <2>1. UNCHANGED op /\ ~Pending(o)
    BY <1>1, <1>2, <1>4 DEF Abandon, Pending, Ledger, Processed
  <2>2. QueueStep /\ \A x \in Ops : ~Grows(x)
    BY <1>2, <2>1, QueueRests DEF Pending
  <2>3. nativeEffects' = nativeEffects /\ ~Pending(o)' /\ Processed(op'[o])
    BY <1>2, <2>1 DEF nativeEffects, Pending, Ledger
  <2> QED
    BY <1>1, <1>2, <2>1, <2>2, <2>3, LedgerMoved, SessionConstants
<1> QED
  BY <1>3, <1>4

\* After a pause an accepted answer has to ask again (session.ts:291).
LEMMA PauseLedger ==
  ASSUME IInv, IInv', Ledger, Pause
  PROVE  Ledger'
<1>1. /\ UNCHANGED <<clear, queue>> /\ s.auth \in Ops \cup {NoOp}
      /\ Lasts(s, s') /\ s'.auth = s.auth
  BY DEF Pause, Lasts, IInv, Sound, Supervisor
<1>2. CASE s.auth = NoOp
  <2>1. UNCHANGED op
    BY <1>2 DEF Pause
  <2>2. Rests /\ \A x \in Ops : ~Grows(x)
    <3>1. \A p \in Ops : Pending(p)' <=> Pending(p)
      BY <2>1 DEF Pending
    <3>2. ASSUME NEW x \in Ops, Grows(x) PROVE FALSE
      <4>1. ~Pending(x) /\ Pending(x)'
        BY <3>2 DEF Grows
      <4> QED
        BY <3>1, <4>1
    <3> QED
      BY <1>1, <3>1, <3>2 DEF Rests
  <2>3. nativeEffects' = nativeEffects /\ \A p \in Ops : s'.auth # p
    BY <1>1, <1>2, SessionConstants DEF nativeEffects
  <2>4. Queueing' /\ Admitted'
    BY <1>1, <1>2, <2>2, <2>3, SessionConstants, AdmittedKept DEF Ledger, QueueStep
  <2>5. \A p \in Ops : Processed(op'[p])
    BY <2>1 DEF Ledger
  <2> QED
    BY <2>3, <2>4, <2>5 DEF Ledger, Reheard
<1>3. ASSUME NEW o \in Ops, o = s.auth PROVE Ledger'
  <2>1. op' = [op EXCEPT ![o].resumeConfirmed = @ /\ Sent(o),
                         ![o].needsPreconfirm = @ \/ op[o].accepted]
    BY <1>3, SessionConstants DEF Pause
  <2>2. /\ \A p \in Ops \ {o} : op'[p] = op[p]
        /\ op'[o].run = op[o].run /\ op'[o].accepted = op[o].accepted
        /\ op'[o].job = op[o].job /\ op'[o].proc = op[o].proc
        /\ op'[o].logout = op[o].logout /\ op'[o].answer = op[o].answer
        /\ op'[o].effect = op[o].effect
        /\ op[o].accepted => op'[o].needsPreconfirm
    <3> DEFINE A == op[o].resumeConfirmed /\ Sent(o)
               B == op[o].needsPreconfirm \/ op[o].accepted
    <3>1. op' = [op EXCEPT ![o].resumeConfirmed = A, ![o].needsPreconfirm = B]
      BY <2>1
    <3>2. op[o].accepted => B
      OBVIOUS
    <3> HIDE DEF A, B
    <3>3. /\ \A p \in Ops \ {o} : op'[p] = op[p]
          /\ op'[o].run = op[o].run /\ op'[o].accepted = op[o].accepted
          /\ op'[o].job = op[o].job /\ op'[o].proc = op[o].proc
          /\ op'[o].logout = op[o].logout /\ op'[o].answer = op[o].answer
          /\ op'[o].effect = op[o].effect /\ op'[o].needsPreconfirm = B
      BY <1>3, <3>1 DEF IInv, TypeOK, Operation
    <3> QED
      BY <3>2, <3>3
  <2>3. Processed(op'[o])
    BY <1>3, <2>2 DEF Ledger, Processed
  <2>4. QueueStep /\ \A x \in Ops : ~Grows(x)
    BY <1>1, <1>3, <2>2, QueueRests DEF Pending
  <2>5. (Sent(o)' <=> Sent(o)) /\ nativeEffects' = nativeEffects
    BY <1>1, <2>2 DEF Sent, nativeEffects
  <2> QED
    BY <1>1, <1>3, <2>2, <2>3, <2>4, <2>5, LedgerMoved
<1> QED
  BY <1>1, <1>2, <1>3

-----------------------------------------------------------------------------
\* A new submission finds the jobs of the older ones in front of its own.
LEMMA AuthenticateLedger ==
  ASSUME IInv, IInv', Ledger, NEW o \in Ops, Authenticate(o)
  PROVE  Ledger'
<1>1. PICK logout \in BOOLEAN :
        /\ HasIdentity \/ ~logout
        /\ op' = [op EXCEPT ![o] = [@ EXCEPT
              !.run = "drain", !.gen = s.generation, !.logout = logout,
              !.neutral = ~HasIdentity,
              !.expected = IF HasIdentity THEN s.identity.binding ELSE s.recovery.binding,
              !.drain = inFlight \cup nativeEffects]]
  BY DEF Authenticate
<1>2. /\ op[o].run = "none" /\ s.auth = NoOp /\ UNCHANGED <<clear, queue, reconfirmed>>
      /\ s' = [s EXCEPT !.auth = o, !.availability = "auth-pending"]
  BY DEF Authenticate
<1>3. /\ s'.auth = o /\ s'.identity = s.identity /\ s'.everConfirmed = s.everConfirmed
      /\ s'.startupRevoked = s.startupRevoked
  BY <1>2 DEF IInv, Sound, Supervisor
<1>4. /\ \A p \in Ops \ {o} : op'[p] = op[p]
      /\ op'[o].run = "drain" /\ op'[o].accepted = op[o].accepted
      /\ op'[o].job = op[o].job /\ op'[o].proc = op[o].proc
      /\ op'[o].logout = logout /\ op'[o].answer = op[o].answer
      /\ op'[o].effect = op[o].effect
  BY <1>1 DEF IInv, TypeOK, Operation
<1>5. /\ ~op[o].accepted /\ op[o].job = "none" /\ op[o].proc = "idle" /\ Processed(op[o])
  BY <1>2 DEF Ledger, Processed, IInv, TypeOK, Operating, Operation
<1>6. op[o].answer # "success"
  BY <1>2 DEF Ledger, Processed
<1>7. Processed(op'[o])
  BY <1>4, <1>5, <1>6 DEF Processed
<1>8. /\ \A p \in Ops : Pending(p)' <=> Pending(p)
      /\ nativeEffects' = nativeEffects /\ (HasIdentity' <=> HasIdentity)
  BY <1>2, <1>3, <1>4 DEF Pending, nativeEffects, HasIdentity
<1>9. Queueing'
  BY <1>2, <1>8, QueueingKept DEF Ledger, QueueStep, Rests
<1>10. Admitted'
  <2>1. HasIdentity => \A p \in Ops : ~Pending(p)
    BY <1>2, SessionConstants DEF Ledger, Admitted
  <2>2. Behind(o)'
    <3>1. \A j \in 1 .. Len(queue) : queue[j] # o
      BY <1>5 DEF Ledger, Queueing, Pending
    <3> QED
      BY <1>2, <1>4, <1>5, <3>1 DEF Behind
  <2>3. HasIdentity' \/ ~op'[o].logout
    BY <1>1, <1>4, <1>8
  <2>4. ~Sent(o)'
    BY <1>4 DEF Sent
  <2>5. ~s'.everConfirmed /\ ~s'.startupRevoked =>
          nativeEffects' = {} /\ \A p \in Ops : ~Pending(p)'
    BY <1>3, <1>8 DEF Ledger, Admitted
  <2> QED
    BY <1>3, <1>8, <2>1, <2>2, <2>3, <2>4, <2>5 DEF Admitted
<1>11. Reheard'
  BY <1>3, <1>4, <1>5 DEF Reheard
<1>12. \A p \in Ops : Processed(op'[p])
  BY <1>4, <1>7 DEF Ledger
<1> QED
  BY <1>9, <1>10, <1>11, <1>12 DEF Ledger

-----------------------------------------------------------------------------
\* r is the record of an accepted answer of o with no job pending, x the supervisor
\* that holds it.
Accepting(o, r, x) ==
  /\ r \in Operation /\ Processed(r) /\ r.accepted /\ r.job \in {"none", "settled"}
  /\ r.job = op[o].job /\ r.logout = op[o].logout
  /\ Lasts(s, x) /\ s.auth = o /\ x.auth = o /\ x \in Supervisor

\* What has become of that record and of the supervisor.
Advanced(o, r, x) ==
  /\ \A p \in Ops \ {o} : op'[p] = op[p]
  /\ Processed(op'[o])
  /\ Lasts(s, s') /\ s'.auth \in {o, NoOp}
  /\ s'.auth = o =>
       /\ op'[o].logout = r.logout /\ op'[o].accepted = r.accepted
       /\ op'[o].effect = r.effect /\ op'[o].needsPreconfirm = r.needsPreconfirm
       /\ op'[o].run # "none" /\ op'[o].run # "drain"
       /\ op'[o].job = "settled" => r.job = "settled"

\* An owned answer is held, confirmed once more, or shown, and writes no more
\* (session.ts:184).
LEMMA ConcludeAdvances ==
  ASSUME IInv, NEW o \in Ops, NEW r, NEW x, Accepting(o, r, x), Conclude(o, r, x),
         x.active => r.effect = "none" \/ r.job = "settled"
  PROVE  Advanced(o, r, x) /\ ~Pending(o)'
<1>1. r \in Operation /\ r.run \in {"settling", "done"} /\ x.auth = o
  BY DEF Accepting, Processed
<1>2. CASE op' = [op EXCEPT ![o] = Finished(o, r, x)] /\ s' = x
  <2> DEFINE f == [r EXCEPT !.proc = "idle", !.run = "done"]
  <2>1. op'[o] = f /\ \A p \in Ops \ {o} : op'[p] = op[p]
    BY <1>1, <1>2 DEF IInv, TypeOK, Finished
  <2>2. /\ f.proc = "idle" /\ f.run = "done" /\ f.job = r.job /\ f.logout = r.logout
        /\ f.accepted = r.accepted /\ f.effect = r.effect /\ f.answer = r.answer
        /\ f.needsPreconfirm = r.needsPreconfirm
    BY <1>1 DEF Operation
  <2> HIDE DEF f
  <2>3. Processed(op'[o])
    BY <2>1, <2>2 DEF Accepting, Processed
  <2> QED
    BY <1>1, <1>2, <2>1, <2>2, <2>3 DEF Accepting, Advanced, Pending
<1>3. CASE x.active /\ r.answer = "success" /\ op' = [op EXCEPT ![o] = [r EXCEPT !.proc = "final"]]
           /\ s' = x
  <2> DEFINE f == [r EXCEPT !.proc = "final"]
  <2>1. op'[o] = f /\ \A p \in Ops \ {o} : op'[p] = op[p]
    BY <1>3 DEF IInv, TypeOK
  <2>2. /\ f.proc = "final" /\ f.run = r.run /\ f.job = r.job /\ f.logout = r.logout
        /\ f.accepted = r.accepted /\ f.effect = r.effect /\ f.answer = r.answer
        /\ f.needsPreconfirm = r.needsPreconfirm
    BY <1>1 DEF Operation
  <2> HIDE DEF f
  <2>3. Processed(op'[o])
    BY <1>3, <2>1, <2>2 DEF Accepting, Processed
  <2> QED
    BY <1>1, <1>3, <2>1, <2>2, <2>3 DEF Accepting, Advanced, Pending
<1>4. CASE op' = [op EXCEPT ![o] = Retired]
           /\ s' = [x EXCEPT !.auth = NoOp, !.availability = "foreground"]
  <2>1. op'[o] = Retired /\ \A p \in Ops \ {o} : op'[p] = op[p]
    BY <1>4 DEF IInv, TypeOK
  <2>2. Lasts(s, s') /\ s'.auth = NoOp
    BY <1>4 DEF Accepting, Lasts, Supervisor
  <2> QED
    BY <2>1, <2>2, RetiredProcessed, SessionConstants DEF Advanced, Pending
<1> QED
  BY <1>2, <1>3, <1>4 DEF Conclude

\* The head of completeAuth() admits the native write, or waits, or concludes
\* (session.ts:152).
LEMMA CompleteAdvances ==
  ASSUME IInv, Ledger, NEW o \in Ops, NEW r, NEW x, Accepting(o, r, x), Complete(o, r, x)
  PROVE  /\ Advanced(o, r, x) /\ QueueStep /\ \A y \in Ops : Grows(y) => y = o
         /\ Pending(o)' => s'.auth = o
<1>1. r \in Operation /\ r.run \in {"settling", "done"} /\ x.auth = o
  BY DEF Accepting, Processed
<1>2. ~Pending(o)
  BY DEF Accepting, Pending
<1>3. ASSUME Advanced(o, r, x), ~Pending(o)', queue' = queue
      PROVE  /\ Advanced(o, r, x) /\ QueueStep /\ \A y \in Ops : Grows(y) => y = o
             /\ Pending(o)' => s'.auth = o
  BY <1>2, <1>3, QueueRests DEF Advanced
<1>4. CASE /\ x.active /\ r.effect # "none"
           /\ op' = [op EXCEPT ![o] = [r EXCEPT !.proc = "effect",
                                       !.job = IF @ = "none" THEN "queued" ELSE @]]
           /\ queue' = IF r.job = "none" THEN Append(queue, o) ELSE queue
           /\ s' = x
  <2> DEFINE j == IF r.job = "none" THEN "queued" ELSE r.job
             f == [r EXCEPT !.proc = "effect", !.job = j]
  <2>1. op'[o] = f /\ \A p \in Ops \ {o} : op'[p] = op[p]
    BY <1>4 DEF IInv, TypeOK
  <2>2. /\ f.proc = "effect" /\ f.run = r.run /\ f.job = j /\ f.logout = r.logout
        /\ f.accepted = r.accepted /\ f.effect = r.effect /\ f.answer = r.answer
        /\ f.needsPreconfirm = r.needsPreconfirm
    BY <1>1 DEF Operation
  <2> HIDE DEF f
  <2>3. Processed(op'[o])
    BY <1>4, <2>1, <2>2 DEF Accepting, Processed
  <2>4. Advanced(o, r, x)
    <3>1. op'[o].job = "settled" => r.job = "settled"
      BY <2>1, <2>2
    <3>2. s' = x
      BY <1>4
    <3>3. op'[o].run \notin {"none", "drain"}
      BY <1>1, <2>1, <2>2
    <3> QED
      BY <2>1, <2>2, <2>3, <3>1, <3>2, <3>3 DEF Accepting, Advanced
  <2>5. CASE r.job = "none"
    <3>1. Pending(o)' /\ \A p \in Ops \ {o} : Pending(p)' <=> Pending(p)
      BY <2>1, <2>2, <2>5 DEF Pending
    <3>2. Grows(o)
      BY <1>2, <1>4, <2>5, <3>1 DEF Grows
    <3>3. ASSUME NEW y \in Ops, Grows(y) PROVE y = o
      BY <3>1, <3>3 DEF Grows
    <3> QED
      BY <1>1, <1>4, <2>4, <3>2, <3>3 DEF QueueStep
  <2>6. CASE r.job # "none"
    <3>1. ~Pending(o)' /\ queue' = queue
      BY <1>4, <2>1, <2>2, <2>6 DEF Accepting, Pending
    <3> QED
      BY <1>3, <2>4, <3>1
  <2> QED
    BY <2>5, <2>6
<1>5. CASE /\ x.active /\ r.effect = "none"
           /\ op' = [op EXCEPT ![o] = [r EXCEPT !.proc = "pre"]]
           /\ s' = x /\ UNCHANGED queue
  <2> DEFINE f == [r EXCEPT !.proc = "pre"]
  <2>1. op'[o] = f /\ \A p \in Ops \ {o} : op'[p] = op[p]
    BY <1>5 DEF IInv, TypeOK
  <2>2. /\ f.proc = "pre" /\ f.run = r.run /\ f.job = r.job /\ f.logout = r.logout
        /\ f.accepted = r.accepted /\ f.effect = r.effect /\ f.answer = r.answer
        /\ f.needsPreconfirm = r.needsPreconfirm
    BY <1>1 DEF Operation
  <2> HIDE DEF f
  <2>3. Processed(op'[o])
    BY <1>5, <2>1, <2>2 DEF Accepting, Processed
  <2>4. Advanced(o, r, x)
    BY <1>1, <1>5, <2>1, <2>2, <2>3 DEF Accepting, Advanced
  <2>5. ~Pending(o)'
    BY <2>1, <2>2 DEF Accepting, Pending
  <2> QED
    BY <1>3, <1>5, <2>4, <2>5
<1>6. CASE /\ ~x.active \/ (r.effect = "none" /\ ~r.needsPreconfirm)
           /\ Conclude(o, r, x) /\ UNCHANGED queue
  BY <1>3, <1>6, ConcludeAdvances
<1> QED
  BY <1>4, <1>5, <1>6 DEF Complete

\* An accepted answer that advances keeps the ledger if what it may write unasked
\* has been confirmed.
LEMMA AdvancedLedger ==
  ASSUME IInv, IInv', Ledger, NEW o \in Ops, NEW r, NEW x, Accepting(o, r, x),
         Advanced(o, r, x), QueueStep, \A y \in Ops : Grows(y) => y = o,
         Pending(o)' => s'.auth = o, UNCHANGED clear, Sent(o), reconfirmed => reconfirmed',
         s'.auth = o /\ r.accepted /\ r.effect # "none" /\ ~r.needsPreconfirm => reconfirmed'
  PROVE  Ledger'
<1>1. /\ s.auth = o /\ r.job = op[o].job /\ r.logout = op[o].logout
      /\ nativeEffects' = nativeEffects
  BY DEF Accepting, nativeEffects
<1> QED
  BY <1>1, LedgerMoved DEF Advanced

\* A promise that settles without publishing anything leaves the answer held or
\* forgotten.
LEMMA FinishedLedger ==
  ASSUME IInv, IInv', Ledger, NEW o \in Ops, op' = [op EXCEPT ![o] = Finished(o, op[o], s')],
         op[o].accepted, op[o].job \in {"none", "settled"}, UNCHANGED <<clear, queue>>,
         reconfirmed => reconfirmed',
         (Lasts(s, s') /\ s'.auth = s.auth) \/ Revoked(s, s')
  PROVE  Ledger'
<1>1. /\ op[o] \in Operation /\ Processed(op[o]) /\ op[o].run \in {"settling", "done"}
      /\ Sent(o)
  BY DEF IInv, TypeOK, Ledger, Processed, Sent
<1>2. op'[o] = Finished(o, op[o], s') /\ \A p \in Ops \ {o} : op'[p] = op[p]
  BY DEF IInv, TypeOK
<1>3. CASE s'.auth # o
  BY <1>2, <1>3, LetGo DEF Finished
<1>4. CASE s'.auth = o
  <2> DEFINE f == [op[o] EXCEPT !.proc = "idle", !.run = "done"]
  <2>1. op'[o] = f
    BY <1>2, <1>4 DEF Finished
  <2>2. /\ f.proc = "idle" /\ f.run = "done" /\ f.job = op[o].job /\ f.logout = op[o].logout
        /\ f.accepted = op[o].accepted /\ f.effect = op[o].effect
        /\ f.answer = op[o].answer /\ f.needsPreconfirm = op[o].needsPreconfirm
    BY <1>1 DEF Operation
  <2> HIDE DEF f
  <2>3. Processed(op'[o])
    BY <1>1, <2>1, <2>2 DEF Processed
  <2>4. ~Pending(o) /\ ~Pending(o)'
    BY <2>1, <2>2 DEF Pending
  <2>5. QueueStep /\ \A x \in Ops : ~Grows(x)
    BY <1>2, <2>4, QueueRests
  <2>6. s.auth = o /\ Lasts(s, s') /\ nativeEffects' = nativeEffects
    BY <1>4, SessionConstants DEF Revoked, nativeEffects
  <2>7. op[o].effect # "none" /\ ~op[o].needsPreconfirm => reconfirmed
    BY <2>6 DEF Ledger, Reheard
  <2> QED
    BY <1>1, <1>2, <1>4, <2>1, <2>2, <2>3, <2>4, <2>5, <2>6, <2>7, LedgerMoved
<1> QED
  BY <1>3, <1>4

\* The answer of the POST is accepted (session.ts:258).
LEMMA AcceptPostLedger ==
  ASSUME IInv, IInv', Ledger, NEW o \in Ops, AcceptPost(o)
  PROVE  Ledger'
<1> DEFINE r == [op[o] EXCEPT !.run = "settling", !.accepted = TRUE,
                              !.needsPreconfirm = ~s.active]
<1>1. /\ op[o].run = "answered" /\ UNCHANGED clear /\ (reconfirmed => reconfirmed')
      /\ Current(o) /\ s.active => reconfirmed'
  BY DEF AcceptPost
<1>2. ~op[o].accepted /\ op[o].job = "none" /\ op[o].proc = "idle" /\ Processed(op[o])
  BY <1>1 DEF Ledger, Processed, IInv, TypeOK, Operating, Operation
<1>3. CASE ~Current(o)
  <2>1. /\ op' = [op EXCEPT ![o] = Retired] /\ s' = s /\ UNCHANGED <<clear, queue>>
        /\ s'.auth # o
    BY <1>1, <1>3, HeldIsCurrent DEF AcceptPost
  <2> QED
    BY <1>1, <1>2, <2>1, LetGo, Lasting
<1>4. CASE Current(o)
  <2>1. Complete(o, r, s)
    BY <1>4 DEF AcceptPost
  <2>2. /\ r \in Operation /\ r.run = "settling" /\ r.accepted
        /\ r.needsPreconfirm = ~s.active /\ r.job = op[o].job /\ r.proc = op[o].proc
        /\ r.logout = op[o].logout /\ r.effect = op[o].effect /\ r.answer = op[o].answer
    <3> DEFINE waits == ~s.active
               r1 == [op[o] EXCEPT !.run = "settling"]
               r2 == [r1 EXCEPT !.accepted = TRUE]
               r3 == [r2 EXCEPT !.needsPreconfirm = waits]
    <3>1. r1 \in Operation
      BY OpFields DEF IInv, TypeOK
    <3>2. r2 \in Operation
      BY <3>1, OpFields
    <3>3. waits \in BOOLEAN
      OBVIOUS
    <3> HIDE DEF waits
    <3>4. r3 \in Operation
      BY <3>2, <3>3, OpFields
    <3>5. /\ r3.run = "settling" /\ r3.accepted
          /\ r3.needsPreconfirm = waits /\ r3.job = op[o].job /\ r3.proc = op[o].proc
          /\ r3.logout = op[o].logout /\ r3.effect = op[o].effect
          /\ r3.answer = op[o].answer
      BY DEF IInv, TypeOK, Operation
    <3>6. r = r3
      BY DEF waits
    <3> HIDE DEF r, r3
    <3> QED
      BY <3>4, <3>5, <3>6 DEF waits
  <2> HIDE DEF r
  <2>3. Processed(r)
    BY <1>2, <2>2 DEF Processed
  <2>4. Accepting(o, r, s)
    BY <1>2, <1>4, <2>2, <2>3, HeldIsCurrent DEF Accepting, Lasts, IInv, Sound
  <2>5. Sent(o)
    BY <1>1 DEF Sent
  <2>6. /\ Advanced(o, r, s) /\ QueueStep /\ \A y \in Ops : Grows(y) => y = o
        /\ Pending(o)' => s'.auth = o
    BY <2>1, <2>4, CompleteAdvances
  <2> QED
    BY <1>1, <1>4, <2>2, <2>4, <2>5, <2>6, AdvancedLedger
<1> QED
  BY <1>3, <1>4

\* The native write has settled (session.ts:172).
LEMMA EffectSettledLedger ==
  ASSUME IInv, IInv', Ledger, NEW o \in Ops, EffectSettled(o)
  PROVE  Ledger'
<1>1. /\ op[o].proc = "effect" /\ op[o].job = "settled"
      /\ UNCHANGED <<clear, queue, reconfirmed>> /\ op[o] \in Operation
      /\ s \in Supervisor
  BY DEF EffectSettled, IInv, TypeOK, Sound
<1>2. op[o].accepted /\ op[o].run \in {"settling", "done"} /\ Processed(op[o]) /\ Sent(o)
  BY <1>1 DEF Ledger, Processed, Sent
<1>3. CASE ~Current(o)
  <2>1. op' = [op EXCEPT ![o] = Retired] /\ s' = s /\ s'.auth # o
    BY <1>3, HeldIsCurrent DEF EffectSettled
  <2> QED
    BY <1>1, <2>1, LetGo, Lasting
<1>4. CASE /\ Current(o) /\ op' = [op EXCEPT ![o] = Retired]
           /\ s' = [Protected(s) EXCEPT !.auth = NoOp]
  <2>1. Lasts(s, s') /\ s'.auth = NoOp /\ s.auth = o
    BY <1>1, <1>4, HeldIsCurrent DEF Lasts, Protected, Supervisor
  <2> QED
    BY <1>1, <1>4, <2>1, LetGo, SessionConstants
<1>5. CASE Current(o) /\ op' = [op EXCEPT ![o].proc = "pre"] /\ s' = s
  <2>1. /\ \A p \in Ops \ {o} : op'[p] = op[p]
        /\ op'[o].proc = "pre" /\ op'[o].run = op[o].run /\ op'[o].accepted = op[o].accepted
        /\ op'[o].job = op[o].job /\ op'[o].logout = op[o].logout
        /\ op'[o].answer = op[o].answer /\ op'[o].effect = op[o].effect
        /\ op'[o].needsPreconfirm = op[o].needsPreconfirm
    BY <1>1, <1>5 DEF IInv, TypeOK, Operation
  <2>2. Processed(op'[o])
    BY <1>1, <1>2, <2>1 DEF Processed
  <2>3. QueueStep /\ \A x \in Ops : ~Grows(x)
    BY <1>1, <2>1, QueueRests DEF Pending
  <2>4. nativeEffects' = nativeEffects /\ ~Pending(o)' /\ Lasts(s, s')
    BY <1>1, <1>5, <2>1 DEF nativeEffects, Pending, Lasts
  <2>5. s'.auth = o /\ op[o].effect # "none" /\ ~op[o].needsPreconfirm => reconfirmed
    BY <1>2, <1>5 DEF Ledger, Reheard
  <2> QED
    BY <1>1, <1>2, <1>5, <2>1, <2>2, <2>3, <2>4, <2>5, LedgerMoved
<1>6. CASE Current(o) /\ Conclude(o, op[o], s)
  <2>1. Accepting(o, op[o], s)
    BY <1>1, <1>2, <1>6, HeldIsCurrent DEF Accepting, Lasts
  <2>2. Advanced(o, op[o], s) /\ ~Pending(o)'
    BY <1>1, <1>6, <2>1, ConcludeAdvances
  <2>3. QueueStep /\ \A x \in Ops : ~Grows(x)
    BY <1>1, <2>2, QueueRests DEF Pending, Advanced
  <2>4. s'.auth = o /\ op[o].effect # "none" /\ ~op[o].needsPreconfirm => reconfirmed
    BY <1>2, <2>1 DEF Accepting, Ledger, Reheard
  <2> QED
    BY <1>1, <1>2, <2>1, <2>2, <2>3, <2>4, AdvancedLedger
<1> QED
  BY <1>3, <1>4, <1>5, <1>6 DEF EffectSettled

\* The owner has been confirmed, or refused, after a pause (session.ts:178).
LEMMA PreConfirmedLedger ==
  ASSUME IInv, IInv', Ledger, NEW o \in Ops, PreConfirmed(o)
  PROVE  Ledger'
<1> DEFINE b == op[o].binding
           ok == Accepts(o, o, b)
           r == IF s.active \/ op[o].effect = "none"
                THEN [op[o] EXCEPT !.needsPreconfirm = FALSE] ELSE op[o]
<1>1. /\ op[o].proc = "pre" /\ UNCHANGED <<clear, queue>> /\ op[o] \in Operation
      /\ s \in Supervisor /\ Sound(s) /\ o \in Tasks /\ TypeOK
      /\ reconfirmed => reconfirmed'
      /\ s.active /\ Confirmed(o) # NoBinding => reconfirmed'
  BY DEF PreConfirmed, Heard, IInv, TypeOK, Sound, Tasks
<1>2. /\ op[o].accepted /\ op[o].run \in {"settling", "done"} /\ Processed(op[o]) /\ Sent(o)
      /\ op[o].binding \in Bindings
      /\ op[o].effect = "none" \/ op[o].job = "settled"
      /\ op[o].job \in {"none", "settled"}
  BY <1>1 DEF Ledger, Processed, Sent, IInv, Operating
<1>3. CASE ok
  <2> DEFINE x == Accepted(s, o)
  <2>1. Conclude(o, r, x) /\ s.auth = o /\ Confirmed(o) = b
    BY <1>3, HeldIsCurrent DEF PreConfirmed, Accepts
  <2>2. /\ r \in Operation /\ r.run = op[o].run /\ r.accepted = op[o].accepted
        /\ r.job = op[o].job /\ r.proc = op[o].proc
        /\ r.logout = op[o].logout /\ r.effect = op[o].effect /\ r.answer = op[o].answer
        /\ s.active \/ r.needsPreconfirm = op[o].needsPreconfirm \/ r.effect = "none"
    <3>1. CASE s.active \/ op[o].effect = "none"
      BY <1>1, <3>1 DEF Operation
    <3>2. CASE ~(s.active \/ op[o].effect = "none")
      BY <1>1, <3>2
    <3> QED
      BY <3>1, <3>2
  <2>3. Lasts(s, x) /\ x.auth = s.auth /\ x \in Supervisor
    BY <1>1, AcceptedSound, Lasting DEF Sound
  <2> HIDE DEF r, x
  <2>4. Processed(r)
    BY <1>2, <2>2 DEF Processed
  <2>5. Accepting(o, r, x)
    BY <1>2, <2>1, <2>2, <2>3, <2>4 DEF Accepting
  <2>6. Advanced(o, r, x) /\ ~Pending(o)'
    BY <1>2, <2>1, <2>2, <2>5, ConcludeAdvances
  <2>7. QueueStep /\ \A y \in Ops : ~Grows(y)
    <3>1. ~Pending(o)
      BY <1>2 DEF Pending
    <3> QED
      BY <1>1, <2>6, <3>1, QueueRests DEF Advanced
  <2>8. r.effect # "none" /\ ~r.needsPreconfirm => reconfirmed'
    <3>1. op[o].binding # NoBinding
      BY <1>2, SessionConstants
    <3>2. CASE s.active
      BY <1>1, <2>1, <3>1, <3>2
    <3>3. CASE ~s.active
      BY <1>1, <1>2, <2>1, <2>2, <3>3 DEF Ledger, Reheard
    <3> QED
      BY <3>2, <3>3
  <2> QED
    BY <1>1, <1>2, <2>5, <2>6, <2>7, <2>8, AdvancedLedger
<1>4. CASE ~ok
  <2>1. /\ s' = Refused(s, o, o, b) /\ op' = [op EXCEPT ![o] = Finished(o, op[o], s')]
    BY <1>4 DEF PreConfirmed
  <2>2. (Lasts(s, s') /\ s'.auth = s.auth) \/ Revoked(s, s')
    BY <1>1, <1>4, <2>1, RefusedSound, Lasting
  <2> QED
    BY <1>1, <1>2, <2>1, <2>2, FinishedLedger
<1> QED
  BY <1>3, <1>4

-----------------------------------------------------------------------------
\* By the time the last confirmation may publish, no native write is pending.
LEMMA NothingPending ==
  ASSUME IInv, Ledger, NEW o \in Ops, op[o].proc = "final", Current(o)
  PROVE  nativeEffects = {} /\ \A p \in Ops : ~Pending(p)
<1>1. s.auth = o
  BY HeldIsCurrent
<1>2. Processed(op[o]) /\ op[o].accepted /\ Sent(o)
  BY DEF Ledger, IInv, Operating, Processed, Sent
<1>3. ~Pending(o)
  BY <1>2 DEF Processed, Pending
<1>4. ASSUME NEW p \in Ops \ {o}, Pending(p) PROVE FALSE
  <2>1. ~HasIdentity
    BY <1>1, <1>4 DEF Ledger, Admitted
  <2>2. ~op[o].logout
    BY <1>1, <2>1 DEF Ledger, Admitted
  <2>3. op[o].job = "settled"
    BY <1>2, <2>2 DEF Processed
  <2> QED
    BY <1>1, <1>4, <2>3 DEF Ledger, Admitted, Behind
<1> QED
  BY <1>1, <1>2, <1>3, <1>4 DEF Ledger, Admitted

\* The last confirmation publishes, revokes or leaves the answer held
\* (session.ts:186).
LEMMA FinalConfirmedLedger ==
  ASSUME IInv, IInv', Ledger, NEW o \in Ops, FinalConfirmed(o)
  PROVE  Ledger'
<1> DEFINE b == op[o].binding
<1>1. /\ op[o].proc = "final" /\ UNCHANGED <<clear, queue>> /\ (reconfirmed => reconfirmed')
      /\ op' = [op EXCEPT ![o] = Finished(o, op[o], s')] /\ o \in Tasks
      /\ s \in Supervisor /\ Sound(s) /\ TypeOK
  BY DEF FinalConfirmed, Heard, Tasks, IInv, Sound
<1>2. op[o].accepted /\ op[o].job \in {"none", "settled"}
  BY <1>1 DEF Ledger, Processed, IInv, Operating
<1>3. CASE s' = Refused(s, o, o, b) /\ ~Accepts(o, o, b)
  <2>1. (Lasts(s, s') /\ s'.auth = s.auth) \/ Revoked(s, s')
    BY <1>1, <1>3, RefusedSound, Lasting
  <2> QED
    BY <1>1, <1>2, <2>1, FinishedLedger
<1>4. CASE s' \in {s, Invalidated(s)}
  BY <1>1, <1>2, <1>4, InvalidatedSound, Lasting, FinishedLedger DEF Lasts
<1>5. CASE s' \in Announced(b) /\ Accepts(o, o, b)
  <2>1. s'.auth = NoOp /\ s'.everConfirmed
    BY <1>1, <1>2, <1>5, AnnouncedSound DEF IInv, Operating
  <2>2. /\ s.auth = o /\ \A p \in Ops : ~Pending(p)
    BY <1>1, <1>5, NothingPending, HeldIsCurrent DEF Accepts
  <2>3. op'[o] = Retired /\ \A p \in Ops \ {o} : op'[p] = op[p]
    BY <1>1, <2>1, SessionConstants DEF Finished, IInv, TypeOK
  <2>4. \A p \in Ops : ~Pending(p)'
    BY <2>2, <2>3, RetiredProcessed DEF Pending
  <2>5. QueueStep /\ \A x \in Ops : ~Grows(x)
    BY <1>1, <2>2, <2>3, <2>4, QueueRests
  <2>6. nativeEffects' = nativeEffects /\ s'.auth # o
    BY <1>1, <2>1, SessionConstants DEF nativeEffects
  <2> QED
    BY <1>1, <2>1, <2>2, <2>3, <2>4, <2>5, <2>6, RetiredProcessed, LedgerMoved
<1> QED
  BY <1>3, <1>4, <1>5, FinalCases

\* foreground() takes a held answer up again (session.ts:283).
LEMMA ForegroundLedger ==
  ASSUME IInv, IInv', Ledger, Foreground
  PROVE  Ledger'
<1> DEFINE x == [s EXCEPT !.active = TRUE]
<1>1. UNCHANGED <<clear, reconfirmed>>
  BY DEF Foreground
<1>2. Lasts(s, x) /\ x.auth = s.auth /\ x \in Supervisor
  BY DEF Lasts, IInv, Sound, Supervisor
<1>3. \/ s' = x /\ UNCHANGED <<op, queue>>
      \/ \E o \in Ops : /\ s.auth = o /\ op[o].accepted /\ op[o].proc = "idle"
                        /\ Complete(o, op[o], x)
  <2>1. s.auth \in Ops \cup {NoOp}
    BY DEF IInv, Sound, Supervisor
  <2> QED
    BY <2>1 DEF Foreground
<1> HIDE DEF x
<1>4. CASE s' = x /\ UNCHANGED <<op, queue>>
  BY <1>1, <1>2, <1>4, LedgerAlone
<1>5. ASSUME NEW o \in Ops, s.auth = o, op[o].accepted, op[o].proc = "idle",
             Complete(o, op[o], x)
      PROVE  Ledger'
  <2>1. /\ Accepting(o, op[o], x) /\ Sent(o)
    BY <1>2, <1>5 DEF Accepting, Ledger, Processed, Sent, IInv, TypeOK, Operation
  <2>2. /\ Advanced(o, op[o], x) /\ QueueStep /\ \A y \in Ops : Grows(y) => y = o
        /\ Pending(o)' => s'.auth = o
    BY <1>5, <2>1, CompleteAdvances
  <2>3. op[o].effect # "none" /\ ~op[o].needsPreconfirm => reconfirmed
    BY <1>5 DEF Ledger, Reheard
  <2> QED
    BY <1>1, <2>1, <2>2, <2>3, AdvancedLedger
<1> QED
  BY <1>3, <1>4, <1>5

-----------------------------------------------------------------------------
\* The job of an operation goes on or ends; a refusal ends it (session-effects.ts:32).
LEMMA JobMovedLedger ==
  ASSUME IInv, IInv', Ledger, NEW o \in Ops, AtHead(o), Pending(o), UNCHANGED clear,
         \A p \in Ops \ {o} : op'[p] = op[p],
         op'[o].run = op[o].run, op'[o].accepted = op[o].accepted,
         op'[o].proc = op[o].proc, op'[o].logout = op[o].logout,
         op'[o].answer = op[o].answer, op'[o].effect = op[o].effect,
         \/ op'[o].job = "settled" /\ queue' = Tail(queue)
         \/ Pending(o)' /\ queue' = queue,
         (Lasts(s, s') /\ s'.auth = s.auth) \/ Revoked(s, s'), reconfirmed => reconfirmed',
         s'.auth = o =>
           op'[o].needsPreconfirm = op[o].needsPreconfirm \/ reconfirmed'
  PROVE  Ledger'
<1>1. Processed(op[o]) /\ op[o].proc = "effect" /\ op[o].accepted /\ op[o].effect # "none"
  BY DEF Ledger, Processed, Pending, IInv, TypeOK, Operation
<1>2. Processed(op'[o])
  BY <1>1 DEF Processed
<1>3. QueueStep /\ \A x \in Ops : ~Grows(x)
  <2>1. CASE Pending(o)' /\ queue' = queue
    BY <2>1, QueueRests
  <2>2. CASE op'[o].job = "settled" /\ queue' = Tail(queue)
    <3>1. ~Pending(o)' /\ \A p \in Ops \ {o} : Pending(p)' <=> Pending(p)
      BY <2>2 DEF Pending
    <3>2. Shrinks
      BY <2>2, <3>1 DEF AtHead, Shrinks
    <3>3. ASSUME NEW x \in Ops, Grows(x) PROVE FALSE
      BY <3>1, <3>3 DEF Grows
    <3> QED
      BY <3>2, <3>3 DEF QueueStep
  <2> QED
    BY <2>1, <2>2
<1>4. op'[o].job = "settled" => Shrinks /\ Head(queue) = o
  <2> SUFFICES ASSUME op'[o].job = "settled" PROVE Shrinks /\ Head(queue) = o
    OBVIOUS
  <2>1. ~Pending(o)' /\ queue' = Tail(queue)
    BY DEF Pending
  <2>2. \A p \in Ops \ {o} : Pending(p)' <=> Pending(p)
    BY DEF Pending
  <2> QED
    BY <2>1, <2>2 DEF AtHead, Shrinks
<1>5. (Sent(o)' <=> Sent(o)) /\ nativeEffects' = nativeEffects
  BY DEF Sent, nativeEffects
<1>6. s'.auth = o /\ ~op'[o].needsPreconfirm => reconfirmed'
  BY <1>1, SessionConstants DEF Ledger, Reheard, Revoked
<1>7. s.auth = o => s'.auth = o \/ Revoked(s, s')
  OBVIOUS
<1> QED
  BY <1>2, <1>3, <1>4, <1>5, <1>6, <1>7, LedgerMoved

\* A job gets its turn (session.ts:163).
LEMMA JobRunsLedger ==
  ASSUME IInv, IInv', Ledger, NEW o \in Ops, JobRuns(o)
  PROVE  Ledger'
<1>1. /\ AtHead(o) /\ Pending(o) /\ UNCHANGED <<clear, reconfirmed>>
      /\ Lasts(s, s') /\ s'.auth = s.auth
  BY DEF JobRuns, Pending, Lasts
<1>2. PICK job \in {"pre", "writing", "settled"} :
        /\ \/ op' = [op EXCEPT ![o].job = job]
           \/ op' = [op EXCEPT ![o].job = job, ![o].result = "stale"]
        /\ queue' = IF job = "settled" THEN Tail(queue) ELSE queue
  BY DEF JobRuns, JobEnds
<1>3. /\ \A p \in Ops \ {o} : op'[p] = op[p]
      /\ op'[o].run = op[o].run /\ op'[o].accepted = op[o].accepted
      /\ op'[o].proc = op[o].proc /\ op'[o].logout = op[o].logout
      /\ op'[o].answer = op[o].answer /\ op'[o].effect = op[o].effect
      /\ op'[o].job = job /\ op'[o].needsPreconfirm = op[o].needsPreconfirm
  BY <1>2 DEF IInv, TypeOK, Operation
<1>4. job # "settled" => Pending(o)'
  BY <1>3 DEF Pending
<1> QED
  BY <1>1, <1>2, <1>3, <1>4, JobMovedLedger

\* It may only write once the owner has been confirmed after a pause (session.ts:167).
LEMMA JobConfirmedLedger ==
  ASSUME IInv, IInv', Ledger, NEW o \in Ops, JobConfirmed(o)
  PROVE  Ledger'
<1> DEFINE b == op[o].binding
<1>1. /\ AtHead(o) /\ Pending(o) /\ UNCHANGED clear /\ (reconfirmed => reconfirmed')
      /\ s.active /\ Confirmed(o) # NoBinding => reconfirmed'
      /\ o \in Tasks /\ s \in Supervisor /\ Sound(s) /\ TypeOK
  BY DEF JobConfirmed, Heard, Pending, Tasks, IInv, Sound
<1>2. b \in Bindings /\ b # NoBinding
  BY <1>1, SessionConstants DEF Ledger, Processed, Pending, IInv, Operating
<1>3. CASE ~Accepts(o, o, b)
  <2>1. PICK result : op' = [op EXCEPT ![o].job = "settled", ![o].result = result]
    BY <1>3 DEF JobConfirmed, JobEnds
  <2>2. s' = Refused(s, o, o, b) /\ queue' = Tail(queue)
    BY <1>3 DEF JobConfirmed, JobEnds
  <2>3. (Lasts(s, s') /\ s'.auth = s.auth) \/ Revoked(s, s')
    BY <1>1, <1>3, <2>2, RefusedSound, Lasting
  <2>4. /\ \A p \in Ops \ {o} : op'[p] = op[p]
        /\ op'[o].run = op[o].run /\ op'[o].accepted = op[o].accepted
        /\ op'[o].proc = op[o].proc /\ op'[o].logout = op[o].logout
        /\ op'[o].answer = op[o].answer /\ op'[o].effect = op[o].effect
        /\ op'[o].job = "settled" /\ op'[o].needsPreconfirm = op[o].needsPreconfirm
    BY <2>1 DEF IInv, TypeOK, Operation
  <2> QED
    BY <1>1, <2>2, <2>3, <2>4, JobMovedLedger
<1>4. CASE Accepts(o, o, b)
  <2>1. /\ s' = Accepted(s, o) /\ queue' = queue
        /\ op' = [op EXCEPT ![o] = IF s.active
                    THEN [@ EXCEPT !.job = "writing", !.needsPreconfirm = FALSE]
                    ELSE [@ EXCEPT !.job = "waiting"]]
    BY <1>4 DEF JobConfirmed
  <2>2. Lasts(s, s') /\ s'.auth = s.auth
    BY <1>1, <2>1, AcceptedSound, Lasting
  <2>3. /\ \A p \in Ops \ {o} : op'[p] = op[p]
        /\ op'[o].run = op[o].run /\ op'[o].accepted = op[o].accepted
        /\ op'[o].proc = op[o].proc /\ op'[o].logout = op[o].logout
        /\ op'[o].answer = op[o].answer /\ op'[o].effect = op[o].effect
        /\ op'[o].job \in {"writing", "waiting"}
        /\ ~s.active => op'[o].needsPreconfirm = op[o].needsPreconfirm
    <3>1. CASE s.active
      <4>1. op' = [op EXCEPT ![o] = [op[o] EXCEPT !.job = "writing",
                                                 !.needsPreconfirm = FALSE]]
        BY <2>1, <3>1
      <4> QED
        BY <3>1, <4>1 DEF IInv, TypeOK, Operation
    <3>2. CASE ~s.active
      <4>1. op' = [op EXCEPT ![o] = [op[o] EXCEPT !.job = "waiting"]]
        BY <2>1, <3>2
      <4> QED
        BY <3>2, <4>1 DEF IInv, TypeOK, Operation
    <3> QED
      BY <3>1, <3>2
  <2>4. Pending(o)'
    BY <2>3 DEF Pending
  <2>5. s.active => reconfirmed'
    BY <1>1, <1>2, <1>4 DEF Accepts
  <2> QED
    BY <1>1, <2>1, <2>2, <2>3, <2>4, <2>5, JobMovedLedger
<1> QED
  BY <1>3, <1>4

\* A write that ends, or is compensated (session-effects.ts:44).
LEMMA JobWrittenLedger ==
  ASSUME IInv, IInv', Ledger, NEW o \in Ops, JobWritten(o)
  PROVE  Ledger'
<1>1. /\ AtHead(o) /\ Pending(o) /\ UNCHANGED <<clear, reconfirmed>>
      /\ Lasts(s, s') /\ s'.auth = s.auth
  BY DEF JobWritten, Pending, Lasts
<1>2. \/ op' = [op EXCEPT ![o].job = "compensating"] /\ queue' = queue
      \/ /\ \E result : op' = [op EXCEPT ![o].job = "settled", ![o].result = result]
         /\ queue' = Tail(queue)
  BY DEF JobWritten, JobEnds
<1>3. /\ \A p \in Ops \ {o} : op'[p] = op[p]
      /\ op'[o].run = op[o].run /\ op'[o].accepted = op[o].accepted
      /\ op'[o].proc = op[o].proc /\ op'[o].logout = op[o].logout
      /\ op'[o].answer = op[o].answer /\ op'[o].effect = op[o].effect
      /\ op'[o].needsPreconfirm = op[o].needsPreconfirm
      /\ \/ op'[o].job = "compensating" /\ queue' = queue
         \/ op'[o].job = "settled" /\ queue' = Tail(queue)
  BY <1>2 DEF IInv, TypeOK, Operation
<1>4. op'[o].job = "compensating" => Pending(o)'
  BY DEF Pending
<1> QED
  BY <1>1, <1>3, <1>4, JobMovedLedger

\* A credential clear enters and leaves the queue without touching a submission
\* (session.ts:447).
LEMMA ClearLedger ==
  ASSUME IInv, IInv', Ledger, NEW c \in Clears,
         ClearAdmitted(c) \/ ClearRuns(c) \/ ClearWritten(c)
  PROVE  Ledger'
<1>1. UNCHANGED <<s, op, reconfirmed>> /\ Lasts(s, s') /\ c \notin Ops
  BY SessionConstants DEF ClearAdmitted, ClearRuns, ClearWritten, Lasts
<1>2. \A p \in Ops : Pending(p)' <=> Pending(p)
  BY <1>1 DEF Pending
<1>3. QueueStep /\ \A x \in Ops : ~Grows(x)
  <2>1. \/ queue' = queue
        \/ queue' = Append(queue, c)
        \/ AtHead(c) /\ queue' = Tail(queue)
    BY DEF ClearAdmitted, ClearRuns, ClearWritten
  <2>2. ASSUME NEW x \in Ops, Grows(x) PROVE FALSE
    BY <1>2, <2>2 DEF Grows
  <2> QED
    BY <1>1, <1>2, <2>1, <2>2 DEF QueueStep, Rests, Grows, Shrinks, AtHead
<1>4. \/ nativeEffects' \subseteq nativeEffects
      \/ Owned(s) /\ s.auth = NoOp /\ s'.auth = NoOp /\ Lasts(s, s')
  <2>1. CASE ClearAdmitted(c)
    BY <1>1, <2>1 DEF ClearAdmitted, HasIdentity, Visible, Owned
  <2>2. CASE ClearRuns(c) \/ ClearWritten(c)
    <3>1. clear[c].pc \in {"queued", "writing"} /\ \E pc : clear' = [clear EXCEPT ![c].pc = pc]
      BY <2>2 DEF ClearRuns, ClearWritten
    <3> QED
      BY <3>1 DEF IInv, TypeOK, nativeEffects
  <2> QED
    BY <2>1, <2>2
<1>5. \A o \in Ops : /\ op'[o].logout = op[o].logout /\ (Sent(o)' <=> Sent(o))
                     /\ op'[o].job = op[o].job
  BY <1>1 DEF Sent
<1>6. Queueing' /\ Admitted'
  BY <1>1, <1>2, <1>3, <1>4, <1>5, AdmittedKept DEF Ledger
<1>7. (\A o \in Ops : Processed(op'[o])) /\ Reheard'
  BY <1>1 DEF Ledger, Reheard
<1> QED
  BY <1>6, <1>7 DEF Ledger

-----------------------------------------------------------------------------
\* The ledger opens empty.
LEMMA LedgerOpens ==
  ASSUME Init
  PROVE  Answering /\ Ledger
<1>1. /\ \A o \in Ops : op[o] = FreshOp
      /\ \A r \in Requests : req[r].pc = "new"
      /\ \A c \in Clears : clear[c].pc = "new"
      /\ queue = <<>> /\ s.identity = NoIdentity /\ s.auth = NoOp
  BY DEF Init, FreshReq
<1>2. /\ FreshOp.run = "none" /\ FreshOp.job = "none" /\ ~FreshOp.accepted
      /\ FreshOp.proc = "idle" /\ FreshOp.answer = "none"
  BY DEF FreshOp
<1>3. Answering
  BY <1>1 DEF Answering, Waiting
<1>4. \A o \in Ops : Processed(op[o]) /\ ~Pending(o) /\ s.auth # o
  BY <1>1, <1>2, SessionConstants DEF Processed, Pending
<1>5. Queueing
  <2>1. Len(queue) = 0
    BY <1>1
  <2> QED
    BY <1>4, <2>1 DEF Queueing
<1>6. Admitted
  <2>1. nativeEffects = {}
    BY <1>1 DEF nativeEffects
  <2> QED
    BY <1>4, <2>1 DEF Admitted
<1> QED
  BY <1>3, <1>4, <1>5, <1>6 DEF Ledger, Reheard

\* Every step keeps it.
LEMMA LedgerKept ==
  ASSUME IInv, IInv', Ledger, Next
  PROVE  Ledger'
<1>1. ASSUME NEW o \in Ops,
             \/ ServePost(o) \/ ExpirePost(o) \/ Authenticate(o)
             \/ Submission(o) \/ Completion(o) \/ Job(o)
      PROVE  Ledger'
  BY <1>1, ServePostLedger, ExpirePostLedger, AuthenticateLedger, SendPostLedger,
     PostFailedLedger, PostFailureReconciledLedger, AcceptPostLedger, EffectSettledLedger,
     PreConfirmedLedger, FinalConfirmedLedger, JobRunsLedger, JobConfirmedLedger,
     JobWrittenLedger DEF Submission, Completion, Job
<1>2. ASSUME NEW c \in Clears, ClearAdmitted(c) \/ ClearRuns(c) \/ ClearWritten(c)
      PROVE  Ledger'
  BY <1>2, ClearLedger
<1>3. CASE Pause \/ Foreground \/ ResumeUnsent \/ Abandon
  BY <1>3, PauseLedger, ForegroundLedger, ResumeUnsentLedger, AbandonLedger
<1>4. ASSUME \/ \E t \in Tasks : ServeObservation(t)
             \/ ReplaceSession \/ MarkRootReady \/ Start \/ ResumeBootstrap \/ ResumeOwner
             \/ ResumeRecovery \/ StreamRevokes \/ RecoveryStart \/ RecoveryObserved
             \/ \E r \in Requests : ServeRequest(r) \/ DropRequest(r) \/ IssueRequest(r)
                                      \/ Response(r) \/ RequestRead(r)
      PROVE  Ledger'
  BY <1>4, AloneLedger
<1> QED
  BY <1>1, <1>2, <1>3, <1>4 DEF Next, Resuming

\* Publication finds no native write under way.
Undisturbed ==
  s'.identity # s.identity /\ s'.identity # NoIdentity =>
    /\ nativeEffects = {}
    /\ \A o \in Ops : op[o].job \notin {"writing", "compensating"}

\* A step publishes an owner only then.
LEMMA StepUndisturbed ==
  ASSUME IInv, Ledger, Next
  PROVE  Undisturbed
<1> SUFFICES ASSUME s'.identity # s.identity, s'.identity # NoIdentity
             PROVE  nativeEffects = {} /\ \A p \in Ops : ~Pending(p)
  BY DEF Undisturbed, Pending
<1>1. Publishing
  BY StepHolds DEF Keeps
<1>2. ASSUME NEW t \in {"start", "resume"}, s' \in Told(Adopted(s, t)), conf[t].busy,
             t = "resume" => resume.pc = "bootstrap"
      PROVE  nativeEffects = {} /\ \A p \in Ops : ~Pending(p)
  <2>1. conf[t].gen = s.generation
    <3>1. t \in Tasks /\ Protected(s).identity = s.identity
      BY DEF Tasks, Protected, IInv, Sound, Supervisor
    <3> QED
      BY <1>2, <3>1, AdoptedCases DEF IInv
  <2>2. ~s.everConfirmed /\ ~s.startupRevoked
    BY <1>2, <2>1 DEF IInv, Suspended, Live
  <2> QED
    BY <2>2 DEF Ledger, Admitted
<1>3. ASSUME NEW o \in Ops, FinalConfirmed(o)
      PROVE  nativeEffects = {} /\ \A p \in Ops : ~Pending(p)
  <2>1. CASE s' = Refused(s, o, o, op[o].binding) /\ ~Accepts(o, o, op[o].binding)
    <3>1. s \in Supervisor
      BY DEF IInv, Sound
    <3>2. Keeps(s, s')
      BY <2>1, <3>1, HeardHolds
    <3> QED
      BY <3>2 DEF Keeps
  <2>2. CASE s' \in {s, Invalidated(s)}
    <3>1. s \in Supervisor
      BY DEF IInv, Sound
    <3>2. Keeps(s, s')
      BY <2>2, <3>1, OwnerHolds
    <3> QED
      BY <3>2 DEF Keeps
  <2>3. CASE Accepts(o, o, op[o].binding)
    BY <1>3, <2>3, NothingPending DEF FinalConfirmed, Accepts
  <2> QED
    BY <1>3, <2>1, <2>2, <2>3, FinalCases
<1> QED
  BY <1>1, <1>2, <1>3 DEF Publishing, Start, ResumeBootstrap, Heard

-----------------------------------------------------------------------------
\* The step begins no native write.
Unwritten == \A p \in Ops : op'[p].job = "writing" => op[p].job = "writing"

\* An operation is forgotten, or moves on with the job it had, and writes nothing.
LEMMA MovedUnwritten ==
  ASSUME IInv, NEW o \in Ops, NEW r, op' = [op EXCEPT ![o] = r],
         r.job \in {op[o].job, "none", "queued", "waiting", "pre", "compensating", "settled"}
  PROVE  Unwritten
BY DEF Unwritten, IInv, TypeOK

\* A job that ends or waits writes nothing.
LEMMA JobUnwritten ==
  ASSUME IInv, NEW o \in Ops, NEW job \in {"pre", "compensating", "settled"}, NEW result,
         \/ op' = [op EXCEPT ![o].job = job]
         \/ op' = [op EXCEPT ![o].job = job, ![o].result = result]
  PROVE  Unwritten
<1>1. op[o] \in Operation
  BY DEF IInv, TypeOK
<1>2. /\ [op[o] EXCEPT !.job = job].job = job
      /\ [op[o] EXCEPT !.job = job, !.result = result].job = job
  BY <1>1 DEF Operation
<1>3. \/ op' = [op EXCEPT ![o] = [op[o] EXCEPT !.job = job]]
      \/ op' = [op EXCEPT ![o] = [op[o] EXCEPT !.job = job, !.result = result]]
  OBVIOUS
<1> QED
  BY <1>2, <1>3, MovedUnwritten

\* Nor does the processing of an accepted answer itself (session.ts:152).
LEMMA CompletingUnwritten ==
  ASSUME IInv, NEW o \in Ops, NEW r \in Operation, NEW x, r.job = op[o].job,
         Conclude(o, r, x) \/ Complete(o, r, x)
  PROVE  Unwritten
<1> DEFINE j == IF r.job = "none" THEN "queued" ELSE r.job
<1>1. \/ op' = [op EXCEPT ![o] = Finished(o, r, x)]
      \/ op' = [op EXCEPT ![o] = [r EXCEPT !.proc = "final"]]
      \/ op' = [op EXCEPT ![o] = [r EXCEPT !.proc = "pre"]]
      \/ op' = [op EXCEPT ![o] = Retired]
      \/ op' = [op EXCEPT ![o] = [r EXCEPT !.proc = "effect", !.job = j]]
  BY DEF Conclude, Complete
<1>2. /\ [r EXCEPT !.proc = "final"].job = r.job /\ [r EXCEPT !.proc = "pre"].job = r.job
      /\ [r EXCEPT !.proc = "idle", !.run = "done"].job = r.job
      /\ [r EXCEPT !.proc = "effect", !.job = j].job = j
  BY DEF Operation
<1>3. Finished(o, r, x).job \in {r.job, "none"} /\ Retired.job = "none"
  BY <1>2, RetiredProcessed DEF Finished
<1>4. j \in {op[o].job, "queued"}
  OBVIOUS
<1> HIDE DEF j
<1> QED
  BY <1>1, <1>2, <1>3, <1>4, MovedUnwritten

\* The steps of a submission's own coroutine begin no write.
LEMMA SubmissionUnwritten ==
  ASSUME IInv, NEW o \in Ops,
         \/ ServePost(o) \/ ExpirePost(o) \/ Authenticate(o)
         \/ Submission(o) \/ Completion(o) \/ JobWritten(o)
  PROVE  Unwritten
<1> op[o] \in Operation
  BY DEF IInv, TypeOK
<1>1. ASSUME op' = [op EXCEPT ![o] = Retired] PROVE Unwritten
  BY <1>1, RetiredProcessed, MovedUnwritten
<1>2. CASE ServePost(o)
  <2>1. PICK answer, effect, b :
          \/ op' = [op EXCEPT ![o] = [op[o] EXCEPT !.run = "broken"]]
          \/ op' = [op EXCEPT ![o] = [op[o] EXCEPT !.run = "answered", !.answer = answer,
                                                  !.effect = effect, !.binding = b]]
    <3>1. PICK answer \in {"success", "panel"}, effect \in {"none", "save", "clear"},
               new \in Bindings, lost \in BOOLEAN :
            op' = [op EXCEPT ![o] = IF lost THEN [@ EXCEPT !.run = "broken"]
                    ELSE [@ EXCEPT !.run = "answered", !.answer = answer,
                                   !.effect = effect, !.binding = BindingOf(new)]]
      BY <1>2 DEF ServePost
    <3>2. CASE lost
      BY <3>1, <3>2
    <3>3. CASE ~lost
      BY <3>1, <3>3
    <3> QED
      BY <3>2, <3>3
  <2>2. /\ [op[o] EXCEPT !.run = "broken"].job = op[o].job
        /\ [op[o] EXCEPT !.run = "answered", !.answer = answer, !.effect = effect,
                         !.binding = b].job = op[o].job
    BY DEF Operation
  <2> QED
    BY <2>1, <2>2, MovedUnwritten
<1>3. CASE ExpirePost(o)
  BY <1>3 DEF ExpirePost, Unwritten, IInv, TypeOK, Operation
<1>4. CASE Authenticate(o)
  <2>1. PICK logout \in BOOLEAN :
          op' = [op EXCEPT ![o] = [op[o] EXCEPT
              !.run = "drain", !.gen = s.generation, !.logout = logout,
              !.neutral = ~HasIdentity,
              !.expected = IF HasIdentity THEN s.identity.binding ELSE s.recovery.binding,
              !.drain = inFlight \cup nativeEffects]]
    BY <1>4 DEF Authenticate
  <2> QED
    BY <2>1 DEF Unwritten, IInv, TypeOK, Operation
<1>5. CASE SendPost(o)
  <2>1. CASE op' = [op EXCEPT ![o] = [op[o] EXCEPT !.run = "posted"]]
    BY <2>1 DEF Unwritten, IInv, TypeOK, Operation
  <2> QED
    BY <1>1, <1>5, <2>1 DEF SendPost
<1>6. CASE PostFailed(o)
  <2>1. CASE op' = [op EXCEPT ![o].run = "failing"]
    BY <2>1 DEF Unwritten, IInv, TypeOK, Operation
  <2> QED
    BY <1>1, <1>6, <2>1 DEF PostFailed
<1>7. CASE PostFailureReconciled(o)
  BY <1>1, <1>7 DEF PostFailureReconciled
<1>8. CASE AcceptPost(o)
  <2> DEFINE waits == ~s.active
             r == [op[o] EXCEPT !.run = "settling", !.accepted = TRUE,
                                !.needsPreconfirm = waits]
  <2>1. waits \in BOOLEAN
    OBVIOUS
  <2>2. Current(o) => Complete(o, r, s)
    BY <1>8 DEF AcceptPost
  <2> HIDE DEF waits
  <2>3. r \in Operation /\ r.job = op[o].job
    BY <2>1 DEF Operation
  <2> HIDE DEF r
  <2> QED
    BY <1>1, <1>8, <2>2, <2>3, CompletingUnwritten DEF AcceptPost
<1>9. CASE EffectSettled(o)
  <2>1. CASE op' = [op EXCEPT ![o].proc = "pre"]
    BY <2>1 DEF Unwritten, IInv, TypeOK, Operation
  <2> QED
    BY <1>1, <1>9, <2>1, CompletingUnwritten DEF EffectSettled
<1>10. ASSUME NEW x, op' = [op EXCEPT ![o] = Finished(o, op[o], x)] PROVE Unwritten
  <2>1. [op[o] EXCEPT !.proc = "idle", !.run = "done"].job = op[o].job
    BY DEF Operation
  <2>2. Finished(o, op[o], x).job \in {op[o].job, "none"}
    BY <2>1, RetiredProcessed DEF Finished
  <2> QED
    BY <1>10, <2>2, MovedUnwritten
<1>11. CASE PreConfirmed(o)
  <2> DEFINE r == IF s.active \/ op[o].effect = "none"
                  THEN [op[o] EXCEPT !.needsPreconfirm = FALSE] ELSE op[o]
  <2>1. \/ Conclude(o, r, Accepted(s, o))
        \/ op' = [op EXCEPT ![o] = Finished(o, op[o], s')]
    BY <1>11 DEF PreConfirmed
  <2>2. r \in Operation /\ r.job = op[o].job
    <3>1. CASE s.active \/ op[o].effect = "none"
      BY <3>1 DEF Operation
    <3>2. CASE ~(s.active \/ op[o].effect = "none")
      BY <3>2
    <3> QED
      BY <3>1, <3>2
  <2> HIDE DEF r
  <2> QED
    BY <1>10, <2>1, <2>2, CompletingUnwritten
<1>12. CASE FinalConfirmed(o)
  BY <1>10, <1>12 DEF FinalConfirmed
<1>13. CASE JobWritten(o)
  <2>1. PICK job \in {"compensating", "settled"} : \E result :
          \/ op' = [op EXCEPT ![o].job = job]
          \/ op' = [op EXCEPT ![o].job = job, ![o].result = result]
    BY <1>13 DEF JobWritten, JobEnds
  <2> QED
    BY <2>1, JobUnwritten
<1> QED
  BY <1>2, <1>3, <1>4, <1>5, <1>6, <1>7, <1>8, <1>9, <1>11, <1>12, <1>13
     DEF Submission, Completion

\* Nor do the steps of the server, the requests, the life cycle and the shield.
LEMMA OthersUnwritten ==
  ASSUME IInv,
         \/ \E t \in Tasks : ServeObservation(t)
         \/ ReplaceSession
         \/ \E r \in Requests : ServeRequest(r) \/ DropRequest(r) \/ IssueRequest(r)
                                  \/ Response(r) \/ RequestRead(r)
         \/ \E c \in Clears : ClearAdmitted(c) \/ ClearRuns(c) \/ ClearWritten(c)
         \/ Start \/ MarkRootReady \/ Pause \/ Foreground \/ Resuming \/ StreamRevokes
         \/ RecoveryStart \/ RecoveryObserved \/ Abandon
  PROVE  Unwritten
<1>1. ASSUME UNCHANGED op PROVE Unwritten
  BY <1>1 DEF Unwritten
<1>2. op \in [Ops -> Operation] /\ s.auth \in Ops \cup {NoOp}
  BY DEF IInv, TypeOK, Sound, Supervisor
<1>3. CASE Pause
  <2>1. CASE s.auth = NoOp
    BY <1>1, <1>3, <2>1 DEF Pause
  <2>2. CASE s.auth \in Ops
    <3>1. PICK a, b : op' = [op EXCEPT ![s.auth].resumeConfirmed = a,
                                       ![s.auth].needsPreconfirm = b]
      BY <1>3, <2>2, SessionConstants DEF Pause
    <3> QED
      BY <1>2, <2>2, <3>1 DEF Unwritten, Operation
  <2> QED
    BY <1>2, <2>1, <2>2
<1>4. CASE Foreground
  <2>1. UNCHANGED op \/ \E o \in Ops : \E x : Complete(o, op[o], x)
    BY <1>2, <1>4, SessionConstants DEF Foreground
  <2> QED
    BY <1>1, <1>2, <2>1, CompletingUnwritten
<1>5. CASE ResumeUnsent
  <2>1. UNCHANGED op \/ op' = [op EXCEPT ![resume.op].resumeConfirmed = TRUE]
    BY <1>5 DEF ResumeUnsent
  <2> QED
    BY <1>1, <1>2, <2>1 DEF Unwritten, Operation
<1>6. CASE Abandon
  <2>1. UNCHANGED op \/ op' = [op EXCEPT ![s.auth] = Retired]
    BY <1>6 DEF Abandon
  <2> QED
    BY <1>1, <1>2, <1>6, <2>1, RetiredProcessed, MovedUnwritten DEF Abandon
<1>7. ASSUME NEW r \in Requests,
             \/ ServeRequest(r) \/ DropRequest(r) \/ IssueRequest(r)
             \/ Response(r) \/ RequestRead(r)
      PROVE  UNCHANGED op
  BY <1>7 DEF ServeRequest, DropRequest, IssueRequest, Response, RequestHeaders,
     RequestReconciled, RequestReleased, RequestRead
<1>8. ASSUME NEW c \in Clears, ClearAdmitted(c) \/ ClearRuns(c) \/ ClearWritten(c)
      PROVE  UNCHANGED op
  BY <1>8 DEF ClearAdmitted, ClearRuns, ClearWritten
<1>9. ASSUME \/ \E t \in Tasks : ServeObservation(t)
             \/ ReplaceSession \/ Start \/ MarkRootReady \/ ResumeBootstrap \/ ResumeOwner
             \/ ResumeRecovery \/ StreamRevokes \/ RecoveryStart \/ RecoveryObserved
      PROVE  UNCHANGED op
  BY <1>9 DEF ServeObservation, ReplaceSession, Start, MarkRootReady, ResumeBootstrap,
     ResumeOwner, ResumeRecovery, StreamRevokes, RecoveryStart, RecoveryObserved
<1> QED
  BY <1>1, <1>3, <1>4, <1>5, <1>6, <1>7, <1>8, <1>9 DEF Resuming

\* A native write of an accepted answer begins only once the server was heard since
\* the last pause.
Reobserved ==
  \A o \in Ops : op[o].job # "writing" /\ op'[o].job = "writing" => reconfirmed'

\* Every step that begins one has that behind it.
LEMMA StepReobserves ==
  ASSUME IInv, Ledger, Next
  PROVE  Reobserved
<1>1. ASSUME Unwritten PROVE Reobserved
  BY <1>1 DEF Unwritten, Reobserved
<1>2. ASSUME NEW o \in Ops, op[o].accepted, op[o].effect # "none", Current(o),
             ~op[o].needsPreconfirm
      PROVE  reconfirmed
  BY <1>2, HeldIsCurrent DEF Ledger, Reheard
<1>3. ASSUME NEW o \in Ops, Pending(o) PROVE op[o].accepted /\ op[o].effect # "none"
  BY <1>3 DEF Ledger, Processed, Pending
<1>4. ASSUME NEW o \in Ops, JobRuns(o) PROVE Reobserved
  <2>1. CASE \/ op' = [op EXCEPT ![o].job = "settled", ![o].result = "stale"]
             \/ op' = [op EXCEPT ![o].job = "pre"]
    <3>1. Unwritten
      BY <2>1, JobUnwritten
    <3> QED
      BY <1>1, <3>1
  <2>2. CASE Current(o) /\ ~op[o].needsPreconfirm
    <3>1. Pending(o) /\ reconfirmed' = reconfirmed
      BY <1>4 DEF JobRuns, Pending
    <3> QED
      BY <1>2, <1>3, <2>2, <3>1 DEF Reobserved
  <2> QED
    BY <1>4, <2>1, <2>2 DEF JobRuns, JobEnds
<1>5. ASSUME NEW o \in Ops, JobConfirmed(o) PROVE Reobserved
  <2> DEFINE b == op[o].binding
  <2>1. b # NoBinding
    <3>1. Pending(o)
      BY <1>5 DEF JobConfirmed, Pending
    <3> QED
      BY <1>3, <3>1, SessionConstants DEF IInv, Operating
  <2>2. CASE Accepts(o, o, b) /\ s.active
    BY <1>5, <2>1, <2>2 DEF JobConfirmed, Heard, Accepts, Reobserved
  <2>3. CASE Accepts(o, o, b) /\ ~s.active
    <3>1. op' = [op EXCEPT ![o] = [op[o] EXCEPT !.job = "waiting"]]
      BY <1>5, <2>3 DEF JobConfirmed
    <3>2. Unwritten
      BY <3>1 DEF Unwritten, IInv, TypeOK, Operation
    <3> QED
      BY <1>1, <3>2
  <2>4. CASE ~Accepts(o, o, b)
    <3>1. PICK result : op' = [op EXCEPT ![o].job = "settled", ![o].result = result]
      BY <1>5, <2>4 DEF JobConfirmed, JobEnds
    <3>2. Unwritten
      BY <3>1, JobUnwritten
    <3> QED
      BY <1>1, <3>2
  <2> QED
    BY <2>2, <2>3, <2>4
<1> QED
  BY <1>1, <1>4, <1>5, SubmissionUnwritten, OthersUnwritten DEF Next, Job

\* A step that moves nothing keeps the second layer, releases, publishes and
\* writes nothing.
LEMMA StutterRests ==
  ASSUME IInv, Answering, Ledger, UNCHANGED vars
  PROVE  Answering' /\ Ledger' /\ Released /\ Undisturbed /\ Reobserved
<1>1. UNCHANGED <<s, resume, op, req, clear, queue, conf, cookie, pauses, reconfirmed>>
  BY DEF vars
<1>2. IInv'
  BY StutterKeeps
<1>3. Ledger'
  BY <1>1, <1>2, LedgerAlone, Lasting
<1>4. Answering'
  BY <1>1 DEF Answering, Waiting, ReqOwned, HandleAlive, HasIdentity, Owner
<1> QED
  BY <1>1, <1>3, <1>4 DEF Released, Undisturbed, Reobserved

-----------------------------------------------------------------------------
\* In every behaviour the requests, the submissions and the native queue stay in
\* step with the owner of the screen.
THEOREM LedgerInvariance == Spec => [](IInv /\ Answering /\ Ledger)
<1>1. Init => IInv /\ Answering /\ Ledger
  BY Initially, LedgerOpens
<1>2. IInv /\ Answering /\ Ledger /\ [Next]_vars => (IInv /\ Answering /\ Ledger)'
  BY StepKeeps, StutterKeeps, AnsweringKept, LedgerKept, StutterRests
<1> QED
  BY <1>1, <1>2, PTL DEF Spec

\* A response is handed only to the owner whose session answered it.
THEOREM ResponsesReachOwners == Spec => ResponseReachesItsOwner
<1>1. IInv /\ Answering /\ Ledger /\ [Next]_vars => [Released]_vars
  BY StepReleases, StutterRests
<1>2. [][Released]_vars => ResponseReachesItsOwner
  BY DEF Released, ResponseReachesItsOwner
<1> QED
  BY <1>1, <1>2, LedgerInvariance, PTL DEF Spec

\* No identity appears while a native credential write is under way.
THEOREM PublishesAfterWrites == Spec => PublishAfterWrites
<1>1. IInv /\ Answering /\ Ledger /\ [Next]_vars => [Undisturbed]_vars
  BY StepUndisturbed, StutterRests
<1>2. [][Undisturbed]_vars => PublishAfterWrites
  BY DEF Undisturbed, PublishAfterWrites
<1> QED
  BY <1>1, <1>2, LedgerInvariance, PTL DEF Spec

\* A native write of an accepted answer starts only after a confirmation since the
\* last pause.
THEOREM WritesAreConfirmed == Spec => WriteNeedsConfirmation
<1>1. IInv /\ Answering /\ Ledger /\ [Next]_vars => [Reobserved]_vars
  BY StepReobserves, StutterRests
<1>2. [][Reobserved]_vars => WriteNeedsConfirmation
  BY DEF Reobserved, WriteNeedsConfirmation
<1> QED
  BY <1>1, <1>2, LedgerInvariance, PTL DEF Spec

=============================================================================
