-------------------------- MODULE SessionProperties --------------------------
(***************************************************************************)
(* What the session supervisor must guarantee, whatever the order in which *)
(* its coroutines, the app's life cycle, the network and the native        *)
(* storage take their steps.                                               *)
(***************************************************************************)
EXTENDS Session

Availability == {"foreground", "paused", "auth-pending", "uncertain"}
OptBinding == Bindings \cup {NoBinding}
OptIdentity == {NoIdentity} \cup [binding : Bindings, generation : Nat]
OptRecovery == {NoRecovery} \cup [binding : Bindings, generation : Nat,
                                  confirmed : BOOLEAN]
Supervisor ==
  [generation : Nat, availability : Availability, auth : Ops \cup {NoOp},
   identity : OptIdentity, recovery : OptRecovery,
   active : BOOLEAN, everConfirmed : BOOLEAN, startupRevoked : BOOLEAN,
   rootReady : BOOLEAN]
Operation ==
  [run : {"none", "drain", "posted", "answered", "broken", "failing", "settling", "done"},
   proc : {"idle", "effect", "pre", "final"},
   job : {"none", "queued", "waiting", "pre", "writing", "compensating", "settled"},
   result : {"none", "stored", "failed", "stale"},
   gen : Nat, expected : OptBinding, binding : OptBinding,
   logout : BOOLEAN, neutral : BOOLEAN, drain : SUBSET (Requests \cup Clears),
   resumeConfirmed : BOOLEAN, expired : BOOLEAN, accepted : BOOLEAN,
   needsPreconfirm : BOOLEAN, answer : {"none", "success", "panel"},
   effect : {"none", "save", "clear"}]
HxmlRequest ==
  [pc : {"new", "sent", "answered", "reconcile", "ready", "open", "delivered", "done"},
   gen : Nat, neutral : BOOLEAN, claimed : OptBinding \cup {Denied}]

\* Every field holds a value of the type session.ts declares for it: above all
\* an identity or a recovery capability that is there names a real binding.
TypeOK ==
  /\ s \in Supervisor
  /\ resume \in [pc : {"idle", "bootstrap", "op", "recovery", "reconcile", "complete"},
                 op : Ops \cup {NoOp}]
  /\ op \in [Ops -> Operation]
  /\ req \in [Requests -> HxmlRequest]
  /\ clear \in [Clears -> [pc : {"new", "queued", "writing", "done"}, gen : Nat]]
  /\ queue \in Seq(Ops \cup Clears)
  /\ conf \in [Tasks -> [busy : BOOLEAN, gen : Nat, seen : OptBinding]]
  /\ cookie \in Bindings /\ pauses \in Nat /\ reconfirmed \in BOOLEAN

-----------------------------------------------------------------------------
\* Whatever owns the screen was established under the current generation: an
\* identity, a recovery capability and an authentication never outlive the
\* generation they were made in, and the first two exclude each other
\* (session.ts:53 invalidate, :119 publish, :337 alive).
OneOwner ==
  /\ HasIdentity => s.identity.generation = s.generation /\ s.everConfirmed
  /\ s.recovery # NoRecovery =>
       s.recovery.generation = s.generation /\ ~HasIdentity /\ s.startupRevoked
  /\ s.auth # NoOp => op[s.auth].gen = s.generation
  /\ s.rootReady => HasIdentity

\* The shield is lifted only for a foreground app with a confirmed owner, and
\* never while a login or logout is open: no late confirmation, retry or
\* recovery can uncover the screen under a pending transition.
ShieldedUnlessOwned ==
  s.availability = "foreground" =>
    s.active /\ s.auth = NoOp /\ (HasIdentity \/ s.recovery # NoRecovery)

\* While the POST of a login or logout is out, every request and every
\* credential clear admitted under the previous session has settled: none of
\* them races the change of the cookie, whatever was issued while the
\* submission waited behind a pause (session.ts:253).
PostIsExclusive ==
  \A o \in Ops : op[o].run \in {"posted", "answered", "broken"} =>
    inFlight = {} /\ nativeEffects = {}

IdentityExpected ==
  s'.identity # s.identity /\ s'.identity # NoIdentity =>
    \/ ~s.everConfirmed /\ ~s.startupRevoked
    \/ /\ s.auth # NoOp /\ op[s.auth].accepted
       /\ op[s.auth].binding = s'.identity.binding

\* After the first confirmation or any revocation an identity is published
\* only for the binding that a completed login or logout itself returned: no
\* retry, foreground or late bootstrap adopts a cookie the app did not ask for.
NoUnexpectedIdentity == [][IdentityExpected]_vars

\* A new identity never appears while a native credential write of an older
\* owner is still under way, although revocation lets go of such a write.
PublishAfterWrites ==
  [][s'.identity # s.identity /\ s'.identity # NoIdentity =>
       /\ nativeEffects = {}
       /\ \A o \in Ops : op[o].job \notin {"writing", "compensating"}]_vars

\* Of a response the screen is handed neither the headers (theme, language,
\* mutation seed) nor the body unless the session that answered it is the one
\* that owns the screen now, however long either waited for a paused app.
ResponseReachesItsOwner ==
  [][\A r \in Requests :
       req'[r] # req[r] /\ req'[r].pc \in {"open", "delivered"} =>
         /\ s'.availability = "foreground"
         /\ req[r].claimed = IF HasIdentity THEN s.identity.binding
                                            ELSE s.recovery.binding]_vars

\* The app does not stay behind the shield of a paused one (PauseEnds below).
ShieldMoves == []<>(s.availability # "paused")

\* A login or logout whose barrier is up comes to an end, though it waits for
\* requests and native writes that wait for a paused app, which waits for a
\* confirmation (session.ts:253-254): nobody waits for everybody.
SubmissionSettles ==
  ShieldMoves => \A o \in Ops : op[o].run = "drain" ~> op[o].run = "done"

\* A credential clear admitted to the native queue is settled, whatever job is
\* in front of it and whatever becomes of its owner (session.ts:447).
ClearSettles ==
  ShieldMoves => \A c \in Clears : clear[c].pc = "queued" ~> clear[c].pc = "done"

-----------------------------------------------------------------------------
\* realtime-session.test.ts:589 "a queued accepted effect waits for foreground
\* confirmation, not merely foreground notification".
WriteNeedsConfirmation ==
  [][\A o \in Ops : op[o].job # "writing" /\ op'[o].job = "writing" => reconfirmed']_vars

\* session.ts:185 "Returning a non-success panel also needs fresh ownership".
PanelNeedsConfirmation ==
  [][s.auth # NoOp /\ s'.auth = NoOp /\ s'.availability = "foreground" => reconfirmed']_vars

\* docs/realtime-app.md: "Recovery returns a finite busy while an actual
\* submitted HTTP/auth/native write is unsettled".
RecoveryWaitsForWrites ==
  [][s'.recovery # NoRecovery /\ s.recovery = NoRecovery =>
       \A o \in Ops : op[o].job \notin {"writing", "compensating"}]_vars

\* docs/realtime-app.md: "Pausing preserves the Root, navigation stack and
\* drafts; foreground confirms the same owner": an app that is back in front
\* does not stay behind the shield of a paused one.
PauseEnds == s.active /\ s.availability = "paused"
               ~> ~(s.active /\ s.availability = "paused")

-----------------------------------------------------------------------------
(* The inductive invariant behind OneOwner, ShieldedUnlessOwned,            *)
(* PostIsExclusive and NoUnexpectedIdentity.                                *)

Owned(x) == x.identity # NoIdentity \/ x.recovery # NoRecovery

\* What the fields of a supervisor x say of each other.
Sound(x) ==
  /\ x \in Supervisor
  /\ x.identity # NoIdentity => x.identity.generation = x.generation /\ x.everConfirmed
  /\ x.recovery # NoRecovery =>
       x.recovery.generation = x.generation /\ x.identity = NoIdentity /\ x.startupRevoked
  /\ x.rootReady => x.identity # NoIdentity
  /\ x.availability = "foreground" => x.active /\ x.auth = NoOp /\ Owned(x)
  /\ x.auth # NoOp => Owned(x)

\* Task t asked for its confirmation in the generation that is still current.
Live(t) == conf[t].busy /\ conf[t].gen = s.generation

Submitted(o) == op[o].run \in {"posted", "answered", "broken"}

\* What the coroutines know when their confirmation is still current: a first
\* observation finds nobody, a new recovery finds nobody after a revocation, a
\* resumed recovery finds its capability and no authentication.
Suspended ==
  /\ \A t \in Tasks : conf[t].gen <= s.generation
  /\ Live("start") \/ (resume.pc = "bootstrap" /\ Live("resume")) =>
       ~s.everConfirmed /\ ~s.startupRevoked
  /\ Live("recover") => ~Owned(s) /\ s.startupRevoked
  /\ resume.pc = "recovery" /\ Live("resume") =>
       s.recovery # NoRecovery /\ s.auth = NoOp /\ s.availability # "foreground"

\* An operation the supervisor holds is of its generation, has a real binding
\* once it is answered, and once its POST is out nobody else owns the screen.
Operating ==
  /\ s.auth # NoOp => op[s.auth].gen = s.generation
  /\ \A o \in Ops :
       /\ op[o].run = "answered" \/ op[o].accepted => op[o].binding \in Bindings
       /\ op[o].proc # "idle" => op[o].accepted
       /\ Submitted(o) => s.auth = o \/ (~Owned(s) /\ s.startupRevoked)
       /\ Submitted(o) => ~Live("recover")
       /\ s.auth = o /\ op[o].run = "drain" => inFlight \cup nativeEffects \subseteq op[o].drain

IInv == TypeOK /\ Sound(s) /\ Suspended /\ Operating /\ PostIsExclusive

-----------------------------------------------------------------------------
(* The second layer, behind ResponseReachesItsOwner, PublishAfterWrites and *)
(* WriteNeedsConfirmation.                                                  *)

Pending(o) == op[o].job \in {"queued", "waiting", "pre", "writing", "compensating"}
Waiting(r) == req[r].pc \in {"sent", "answered", "reconcile", "ready", "open"}
Owner(r) == IF req[r].neutral THEN s.recovery.binding ELSE s.identity.binding

\* A request of this generation still has the owner it was made for, and the
\* response that waits for a paused app was answered by that owner's session.
Answering ==
  \A r \in Requests : Waiting(r) =>
    /\ req[r].gen <= s.generation
    /\ req[r].gen = s.generation =>
         ReqOwned(r) /\ (req[r].pc \in {"ready", "open"} => req[r].claimed = Owner(r))

\* How far a submission has come, read off its own record x: only an accepted
\* answer has a native job, the answer's processing holds the job until it has
\* settled, and the last confirmation of a success comes after that.
Processed(x) ==
  /\ x.accepted => x.run \in {"settling", "done"}
  /\ x.job # "none" => x.accepted /\ x.effect # "none"
  /\ x.job \notin {"none", "settled"} => x.proc = "effect"
  /\ x.proc \in {"pre", "final"} => x.effect = "none" \/ x.job = "settled"
  /\ x.proc = "final" => x.answer = "success"
  /\ x.answer = "success" =>
       x.run \notin {"none", "drain"} /\ (x.logout <=> x.effect = "none")

\* The native queue holds exactly the operations whose job is pending, once each.
Queueing ==
  /\ \A p \in Ops : Pending(p) => \E i \in 1 .. Len(queue) : queue[i] = p
  /\ \A i \in 1 .. Len(queue) : queue[i] \in Ops => Pending(queue[i])
  /\ \A i, j \in 1 .. Len(queue) : queue[i] \in Ops /\ queue[i] = queue[j] => i = j

\* A job of an operation the supervisor has let go of stands in the queue before
\* the one of the operation it holds now, which therefore cannot have settled.
Behind(o) ==
  \A p \in Ops \ {o} : Pending(p) =>
    /\ op[o].job # "settled"
    /\ \A j \in 1 .. Len(queue) : queue[j] = o => \E i \in 1 .. Len(queue) : i < j /\ queue[i] = p

\* The writes admitted to the queue belong to the current owner or come before
\* the login it waits for; before the first observation there are none.
Admitted ==
  /\ HasIdentity => \A p \in Ops : Pending(p) => s.auth = p
  /\ \A o \in Ops : s.auth = o =>
       /\ HasIdentity \/ ~op[o].logout
       /\ Sent(o) => nativeEffects = {}
       /\ Behind(o)
  /\ ~s.everConfirmed /\ ~s.startupRevoked =>
       nativeEffects = {} /\ \A p \in Ops : ~Pending(p)

\* An accepted answer that may touch the device without asking again was
\* confirmed since the last pause.
Reheard ==
  \A o \in Ops : s.auth = o /\ op[o].accepted /\ op[o].effect # "none"
                   /\ ~op[o].needsPreconfirm => reconfirmed

Ledger == /\ \A o \in Ops : Processed(op[o])
          /\ Queueing /\ Admitted /\ Reheard
=============================================================================
