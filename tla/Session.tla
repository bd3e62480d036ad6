------------------------------- MODULE Session -------------------------------
(***************************************************************************)
(* The session supervisor of the mobile app                                *)
(* (mobile/src/realtime/session.ts, session-effects.ts): one object that   *)
(* decides which account the screen belongs to.  Its methods are           *)
(* coroutines: at each await the app may be paused, brought back or        *)
(* revoked, and other coroutines run.  An action below is the code between *)
(* two awaits.                                                             *)
(*                                                                         *)
(* `cookie' is the session the device's cookie names on the server, counted *)
(* in the order they come about, and a session is known by its binding: an *)
(* authenticated one has a binding of its own, all the anonymous ones share *)
(* one.  A confirmation (up to three GETs, folded into one) samples the    *)
(* binding at one moment and is acted upon at a later one.                 *)
(***************************************************************************)
EXTENDS Naturals, FiniteSets, Sequences

CONSTANTS
  LastBinding,    \* bound: the server's sessions are 0 .. LastBinding
  SignedIn,       \* those that are authenticated
  Ops,            \* login and logout submissions, each used once
  Requests,       \* HXML requests, each used once
  Clears,         \* credential clears from the settings screen, each used once
  NoBinding, NoOp,
  MaxPauses,      \* bound on App background transitions
  MaxGeneration   \* bound: from here on the shield's buttons are pressed only
                  \* while a login or logout is open

Bindings == 0 .. LastBinding
BindingOf(session) == IF session \in SignedIn THEN session ELSE 0
Denied == LastBinding + 1   \* stands for a 401, whatever binding it carries

ASSUME SessionConstants ==
  /\ LastBinding \in Nat \ {0} /\ SignedIn \subseteq Bindings \ {0}
  /\ NoBinding \notin Bindings /\ NoOp \notin Ops
  /\ {"start", "resume", "recover"} \cap (Ops \cup Requests) = {}
  /\ Ops \cap (Requests \cup Clears) = {}
  /\ MaxPauses \in Nat /\ MaxGeneration \in Nat

VARIABLES
  s,             \* the supervisor's fields
  resume,        \* the coroutine behind `confirming', NoOp or the op it is about
  op,            \* one record per authentication operation
  req,           \* one record per HXML request
  clear,         \* one record per admitted native clear
  queue,         \* the serial native storage queue, running job first
  conf,          \* the confirmation each coroutine awaits
  cookie,        \* the server's current binding for this device
  pauses,        \* how often the app has been paused
  reconfirmed    \* history: the server was heard since the last pause

vars == <<s, resume, op, req, clear, queue, conf, cookie, pauses, reconfirmed>>

-----------------------------------------------------------------------------
NoIdentity == [binding |-> NoBinding, generation |-> 0]
NoRecovery == [binding |-> NoBinding, generation |-> 0, confirmed |-> FALSE]
Tasks == {"start", "resume", "recover"} \cup Ops \cup Requests
Idle == [busy |-> FALSE, gen |-> 0, seen |-> NoBinding]
Asking(gen) == [busy |-> TRUE, gen |-> gen, seen |-> NoBinding]
Resting == [pc |-> "idle", op |-> NoOp]

FreshOp == [run |-> "none", proc |-> "idle", job |-> "none", result |-> "none",
            gen |-> 0, expected |-> NoBinding, logout |-> FALSE, neutral |-> FALSE,
            drain |-> {}, resumeConfirmed |-> TRUE, expired |-> FALSE,
            answer |-> "none", effect |-> "none", binding |-> NoBinding,
            accepted |-> FALSE, needsPreconfirm |-> FALSE]
Retired == [FreshOp EXCEPT !.run = "done"]
FreshReq == [pc |-> "new", gen |-> 0, neutral |-> FALSE, claimed |-> NoBinding]

HasIdentity == s.identity # NoIdentity
Visible == s.active /\ s.availability = "foreground" /\ s.auth = NoOp
Current(o) == s.auth = o /\ op[o].gen = s.generation
Sent(o) == op[o].run \notin {"none", "drain"}
authExecuting == \E o \in Ops : op[o].run \notin {"none", "done"}
inFlight == {r \in Requests : req[r].pc \in {"sent", "answered"}}
nativeEffects == {c \in Clears : clear[c].pc \in {"queued", "writing"}}
HandleAlive == s.recovery # NoRecovery /\ s.recovery.generation = s.generation
                 /\ ~HasIdentity
HandleCurrent == HandleAlive /\ s.recovery.confirmed /\ Visible

\* What confirmation() returns: a binding, or NoBinding when every attempt
\* failed or the generation moved on meanwhile.
Confirmed(t) == IF conf[t].gen = s.generation THEN conf[t].seen ELSE NoBinding
\* Coroutine t receives its confirmation; `next' is what it awaits then.
Heard(t, next) ==
  /\ conf[t].busy /\ conf' = [conf EXCEPT ![t] = next]
  /\ reconfirmed' = (reconfirmed \/ (s.active /\ Confirmed(t) # NoBinding))

-----------------------------------------------------------------------------
(* The ways the fields move together, as functions of the supervisor.      *)

Protected(x) ==
  [x EXCEPT !.availability = IF x.active THEN "uncertain" ELSE "paused"]

Invalidated(x) ==
  Protected([x EXCEPT !.generation = @ + 1, !.identity = NoIdentity,
                      !.startupRevoked = TRUE, !.rootReady = FALSE,
                      !.auth = NoOp, !.recovery = NoRecovery])

\* Mutant: the recovery capability survives the login it led to.
PublishedKeepingRecovery(x, b) ==
  [x EXCEPT !.generation = @ + 1,
            !.identity = [binding |-> b, generation |-> x.generation + 1],
            !.everConfirmed = TRUE, !.rootReady = FALSE, !.auth = NoOp,
            !.availability = IF x.active THEN "foreground" ELSE "paused"]
Published(x, b) ==
  [x EXCEPT !.generation = @ + 1,
            !.identity = [binding |-> b, generation |-> x.generation + 1],
            !.everConfirmed = TRUE, !.rootReady = FALSE, !.recovery = NoRecovery,
            !.auth = NoOp,
            !.availability = IF x.active THEN "foreground" ELSE "paused"]

\* Mutant: a failed first observation is taken for an answer.
AdoptedUnchecked(x, t) ==
  IF conf[t].gen # x.generation \/ ~x.active THEN x ELSE Published(x, Confirmed(t))
\* What bootstrap() makes of its first observation.
Adopted(x, t) ==
  CASE conf[t].gen # x.generation -> x
    [] conf[t].gen = x.generation /\ (Confirmed(t) = NoBinding \/ ~x.active) -> Protected(x)
    [] Confirmed(t) # NoBinding /\ x.active -> Published(x, Confirmed(t))

\* The app is told of a new identity, and its adapter may fail (the port
\* onIdentity throws): publish() then raises the shield over the new owner.
Told(x) == IF x.identity \in {NoIdentity, s.identity} THEN {x} ELSE {x, Protected(x)}

\* Mutant: a retry takes whatever owner it finds.
ReconciledAdopting(x, t, resuming) ==
  IF Confirmed(t) = NoBinding THEN Protected(x) ELSE Published(x, Confirmed(t))
\* Mutant: the pending login or logout is forgotten.
ReconciledUnderAuth(x, t, resuming) ==
  CASE conf[t].gen # x.generation -> x
    [] conf[t].gen = x.generation /\ Confirmed(t) = NoBinding -> Protected(x)
    [] Confirmed(t) \notin {NoBinding, x.identity.binding} -> Invalidated(x)
    [] Confirmed(t) # NoBinding /\ Confirmed(t) = x.identity.binding ->
         IF resuming /\ x.active THEN [x EXCEPT !.availability = "foreground"] ELSE x
\* reconcile(): re-observe the owner, never adopt another one.
Reconciled(x, t, resuming) ==
  CASE conf[t].gen # x.generation -> x
    [] conf[t].gen = x.generation /\ Confirmed(t) = NoBinding -> Protected(x)
    [] Confirmed(t) \notin {NoBinding, x.identity.binding} -> Invalidated(x)
    [] Confirmed(t) # NoBinding /\ Confirmed(t) = x.identity.binding ->
         IF resuming /\ x.active /\ x.auth = NoOp
         THEN [x EXCEPT !.availability = "foreground"] ELSE x

\* expected(op, binding), when it hears anything but that binding, ...
Refused(x, t, o, b) ==
  CASE ~Current(o) -> x
    [] Current(o) /\ Confirmed(t) = NoBinding -> Protected(x)
    [] Current(o) /\ Confirmed(t) \notin {NoBinding, b} -> Invalidated(x)
\* ... and when it hears it.
Accepts(t, o, b) == Current(o) /\ Confirmed(t) = b
Accepted(x, o) ==
  IF op[o].neutral /\ x.recovery # NoRecovery /\ x.active
       /\ x.recovery.generation = op[o].gen
  THEN [x EXCEPT !.recovery.confirmed = TRUE] ELSE x

Init ==
  /\ s = [generation |-> 0, identity |-> NoIdentity, availability |-> "uncertain",
          active |-> TRUE, everConfirmed |-> FALSE, startupRevoked |-> FALSE,
          rootReady |-> FALSE, auth |-> NoOp, recovery |-> NoRecovery]
  /\ resume = Resting
  /\ op = [o \in Ops |-> FreshOp]
  /\ req = [r \in Requests |-> FreshReq]
  /\ clear = [c \in Clears |-> [pc |-> "new", gen |-> 0]]
  /\ queue = <<>>
  /\ conf = [t \in Tasks |-> IF t = "start" THEN Asking(0) ELSE Idle]
  /\ cookie \in 0 .. 1
  /\ pauses = 0 /\ reconfirmed = FALSE

-----------------------------------------------------------------------------
(* The server and the network.                                             *)

\* One attempt of a confirmation samples the session.
ServeObservation(t) ==
  /\ conf[t].busy /\ conf[t].seen = NoBinding
  /\ conf' = [conf EXCEPT ![t].seen = BindingOf(cookie)]
  /\ UNCHANGED <<s, resume, op, req, clear, queue, cookie, pauses, reconfirmed>>

\* The session expires or is revoked on the server.
ReplaceSession ==
  /\ \E new \in Bindings : new > cookie /\ cookie' = new
  /\ UNCHANGED <<s, resume, op, req, clear, queue, conf, pauses, reconfirmed>>

\* The application states its binding, may answer 401, and a gateway in front
\* of it answers without any binding.
ServeRequest(r) ==
  /\ req[r].pc = "sent"
  /\ \E claimed \in {BindingOf(cookie), Denied, NoBinding} :
       req' = [req EXCEPT ![r].pc = "answered", ![r].claimed = claimed]
  /\ UNCHANGED <<s, resume, op, clear, queue, conf, cookie, pauses, reconfirmed>>

\* A login issues an authenticated session and a native write, a logout an
\* anonymous session, a refusal neither.  "broken": processed or not, the
\* client never gets a usable answer.
ServePost(o) ==
  /\ op[o].run = "posted"
  /\ \E answer \in {"success", "panel"}, effect \in {"none", "save", "clear"},
        new \in Bindings, lost \in BOOLEAN :
       /\ answer = "success" =>
            /\ BindingOf(cookie) = op[o].expected /\ new > cookie
            /\ op[o].logout <=> new \notin SignedIn
            /\ op[o].logout <=> effect = "none"
       /\ answer = "panel" =>
            new = cookie /\ effect # "save" /\ (op[o].logout => effect = "none")
       /\ cookie' = new
       /\ op' = [op EXCEPT ![o] = IF lost THEN [@ EXCEPT !.run = "broken"]
                   ELSE [@ EXCEPT !.run = "answered", !.answer = answer,
                                  !.effect = effect, !.binding = BindingOf(new)]]
  /\ UNCHANGED <<s, resume, req, clear, queue, conf, pauses, reconfirmed>>

\* The 30 s deadline of the POST, or the caller's own abort; both stay armed
\* until a failed POST's owner has been re-observed.
ExpirePost(o) ==
  /\ op[o].run \in {"posted", "answered", "broken", "failing"} /\ ~op[o].expired
  /\ op' = [op EXCEPT ![o].expired = TRUE]
  /\ s' = IF Current(o) THEN Protected(s) ELSE s
  /\ UNCHANGED <<resume, req, clear, queue, conf, cookie, pauses, reconfirmed>>

-----------------------------------------------------------------------------
(* bootstrap(), request() and the recovery handle's fetch.                 *)

Start ==
  /\ Heard("start", Idle) /\ s' \in Told(Adopted(s, "start"))
  /\ UNCHANGED <<resume, op, req, clear, queue, cookie, pauses>>

\* The focused boundary's layout marks the Root ready.
MarkRootReady ==
  /\ ~s.rootReady /\ HasIdentity /\ s.availability = "foreground"
  /\ s' = [s EXCEPT !.rootReady = TRUE]
  /\ UNCHANGED <<resume, op, req, clear, queue, conf, cookie, pauses, reconfirmed>>

IssueRequest(r) ==
  /\ req[r].pc = "new"
  /\ (HasIdentity /\ Visible) \/ HandleCurrent
  /\ req' = [req EXCEPT ![r] = [@ EXCEPT !.pc = "sent", !.gen = s.generation,
                                         !.neutral = ~HasIdentity]]
  /\ UNCHANGED <<s, resume, op, clear, queue, conf, cookie, pauses, reconfirmed>>

\* Mutant: any identity will do.
ReqOwnedByAnyone(r) == IF req[r].neutral THEN HandleAlive ELSE HasIdentity
ReqOwned(r) == /\ req[r].gen = s.generation
               /\ IF req[r].neutral THEN HandleAlive ELSE HasIdentity
Close(r, how) == req' = [req EXCEPT ![r] = [FreshReq EXCEPT !.pc = how]]

\* The transport rejects, or the 30 s deadline of bounded() does.
DropRequest(r) ==
  /\ req[r].pc = "sent" /\ Close(r, "done")
  /\ UNCHANGED <<s, resume, op, clear, queue, conf, cookie, pauses, reconfirmed>>

\* Headers: trust them, or reject and re-observe the owner, or, for a neutral
\* request, revoke the recovery handle.
RequestHeaders(r) ==
  LET owner == IF req[r].neutral THEN s.recovery.binding ELSE s.identity.binding
      trusted == req[r].claimed = owner IN
  /\ req[r].pc = "answered"
  /\ \/ ~ReqOwned(r) /\ Close(r, "done") /\ UNCHANGED <<s, conf>>
     \/ /\ ReqOwned(r) /\ trusted
        /\ req' = [req EXCEPT ![r].pc = "ready"] /\ UNCHANGED <<s, conf>>
     \/ /\ ReqOwned(r) /\ ~trusted /\ req[r].neutral
        /\ s' = Invalidated(s) /\ Close(r, "done") /\ UNCHANGED conf
     \/ /\ ReqOwned(r) /\ ~trusted /\ ~req[r].neutral
        /\ s' = Protected(s) /\ req' = [req EXCEPT ![r].pc = "reconcile"]
        /\ conf' = [conf EXCEPT ![r] = Asking(s.generation)]
  /\ UNCHANGED <<resume, op, clear, queue, cookie, pauses, reconfirmed>>

\* Only a response without any binding may restore the owner unaided.
RequestReconciled(r) ==
  /\ req[r].pc = "reconcile" /\ Heard(r, Idle) /\ Close(r, "done")
  /\ s' = Reconciled(s, r, req[r].claimed = NoBinding)
  /\ UNCHANGED <<resume, op, clear, queue, cookie, pauses>>

\* What is checked after each waitPaused.
Presentable(r) == ReqOwned(r) /\ Visible /\ (req[r].neutral => HandleCurrent)

\* After waitPaused: theme, language and seed go out with the response, whose
\* body is still to be read, or it is rejected.
RequestReleased(r) ==
  /\ req[r].pc = "ready" /\ (ReqOwned(r) => s.availability # "paused")
  /\ IF Presentable(r) THEN req' = [req EXCEPT ![r].pc = "open"] ELSE Close(r, "done")
  /\ UNCHANGED <<s, resume, op, clear, queue, conf, cookie, pauses, reconfirmed>>

\* text(): the body is read, the owner and the screen are looked at once more.
\* Reading may fail at any time; an oversized neutral body revokes the handle.
RequestRead(r) ==
  /\ req[r].pc = "open"
  /\ \/ Close(r, "done") /\ UNCHANGED s
     \/ Presentable(r) /\ Close(r, "delivered") /\ UNCHANGED s
     \/ Presentable(r) /\ req[r].neutral /\ Close(r, "done") /\ s' = Invalidated(s)
  /\ UNCHANGED <<resume, op, clear, queue, conf, cookie, pauses, reconfirmed>>

-----------------------------------------------------------------------------
(* authenticate(): runAuthenticate up to the accepted answer.              *)

Authenticate(o) ==
  /\ op[o].run = "none" /\ ~authExecuting /\ s.auth = NoOp /\ s.active
  /\ \E logout \in BOOLEAN :
       /\ HasIdentity \/ (HandleCurrent /\ ~logout)
       /\ op' = [op EXCEPT ![o] = [@ EXCEPT
              !.run = "drain", !.gen = s.generation, !.logout = logout,
              !.neutral = ~HasIdentity,
              !.expected = IF HasIdentity THEN s.identity.binding ELSE s.recovery.binding,
              !.drain = inFlight \cup nativeEffects]]
  /\ s' = [s EXCEPT !.auth = o, !.availability = "auth-pending"]
  /\ UNCHANGED <<resume, req, clear, queue, conf, cookie, pauses, reconfirmed>>

\* Mutant: the barrier does not wait.
SendPostAtOnce(o) ==
  /\ op[o].run = "drain" /\ (Current(o) => s.active /\ op[o].resumeConfirmed)
  /\ op' = [op EXCEPT ![o] = IF Current(o) THEN [@ EXCEPT !.run = "posted"] ELSE Retired]
  /\ UNCHANGED <<s, resume, req, clear, queue, conf, cookie, pauses, reconfirmed>>
\* It waits for every request and native clear admitted before it.
SendPost(o) ==
  /\ op[o].run = "drain" /\ op[o].drain \cap (inFlight \cup nativeEffects) = {}
  /\ Current(o) => s.active /\ op[o].resumeConfirmed
  /\ op' = [op EXCEPT ![o] = IF Current(o) THEN [@ EXCEPT !.run = "posted"] ELSE Retired]
  /\ UNCHANGED <<s, resume, req, clear, queue, conf, cookie, pauses, reconfirmed>>

\* failAuth: shield, confirm the owner once, then forget the operation.
PostFailed(o) ==
  /\ \/ op[o].run = "broken"
     \/ /\ op[o].run = "answered"
        /\ op[o].expired \/ (op[o].answer = "panel" /\ op[o].binding # op[o].expected)
  /\ IF Current(o)
     THEN /\ op' = [op EXCEPT ![o].run = "failing"] /\ s' = Protected(s)
          /\ conf' = [conf EXCEPT ![o] = Asking(s.generation)]
     ELSE op' = [op EXCEPT ![o] = Retired] /\ UNCHANGED <<s, conf>>
  /\ UNCHANGED <<resume, req, clear, queue, cookie, pauses, reconfirmed>>

PostFailureReconciled(o) ==
  LET x == Reconciled(s, o, FALSE) IN
  /\ op[o].run = "failing" /\ Heard(o, Idle)
  /\ s' = [x EXCEPT !.auth = IF @ = o THEN NoOp ELSE @]
  /\ op' = [op EXCEPT ![o] = Retired]
  /\ UNCHANGED <<resume, req, clear, queue, cookie, pauses>>

-----------------------------------------------------------------------------
(* completeAuth(): credential effect, fresh confirmations, publication.    *)
(* `proc' is the shared promise op.processing; a caller that finds it set  *)
(* waits for the same one.                                                 *)

\* The promise settles; an operation is kept while the supervisor holds it.
Finished(o, r, x) == IF x.auth = o THEN [r EXCEPT !.proc = "idle", !.run = "done"]
                                   ELSE Retired

\* The answer is owned by a fresh confirmation: hold it while paused, confirm a
\* success once more, show a panel.
Conclude(o, r, x) ==
  \/ /\ ~x.active
     /\ op' = [op EXCEPT ![o] = Finished(o, r, x)] /\ s' = x
  \/ /\ x.active /\ r.answer = "success"
     /\ op' = [op EXCEPT ![o] = [r EXCEPT !.proc = "final"]] /\ s' = x
  \/ /\ x.active /\ r.answer = "panel"
     /\ op' = [op EXCEPT ![o] = Retired]
     /\ s' = [x EXCEPT !.auth = NoOp, !.availability = "foreground"]
Awaited(o, r, x) == IF x.active /\ r.answer = "success" THEN Asking(x.generation) ELSE Idle

\* The synchronous head of completeAuth.
Complete(o, r, x) ==
  \/ /\ x.active /\ r.effect # "none"
     /\ op' = [op EXCEPT ![o] = [r EXCEPT !.proc = "effect",
                                 !.job = IF @ = "none" THEN "queued" ELSE @]]
     /\ queue' = IF r.job = "none" THEN Append(queue, o) ELSE queue
     /\ s' = x /\ UNCHANGED conf
  \/ /\ x.active /\ r.effect = "none" /\ r.needsPreconfirm
     /\ op' = [op EXCEPT ![o] = [r EXCEPT !.proc = "pre"]]
     /\ conf' = [conf EXCEPT ![o] = Asking(x.generation)]
     /\ s' = x /\ UNCHANGED queue
  \/ /\ ~x.active \/ (r.effect = "none" /\ ~r.needsPreconfirm)
     /\ Conclude(o, r, x) /\ conf' = [conf EXCEPT ![o] = Awaited(o, r, x)]
     /\ UNCHANGED queue

\* The POST's headers and body are read: the answer becomes the accepted one.
AcceptPost(o) ==
  /\ op[o].run = "answered" /\ ~op[o].expired
  /\ op[o].answer = "panel" => op[o].binding = op[o].expected
  /\ IF Current(o)
     THEN Complete(o, [op[o] EXCEPT !.run = "settling", !.accepted = TRUE,
                                    !.needsPreconfirm = ~s.active], s)
     ELSE op' = [op EXCEPT ![o] = Retired] /\ UNCHANGED <<s, conf, queue>>
  /\ reconfirmed' = (reconfirmed \/ (Current(o) /\ s.active))
  /\ UNCHANGED <<resume, req, clear, cookie, pauses>>

\* Mutant: the credential write is started, not awaited.
EffectStarted(o) ==
  /\ op[o].proc = "effect" /\ Current(o)
  /\ Conclude(o, op[o], s) /\ conf' = [conf EXCEPT ![o] = Awaited(o, op[o], s)]
  /\ UNCHANGED <<resume, req, clear, queue, cookie, pauses, reconfirmed>>
\* accepted.effect has settled.
EffectSettled(o) ==
  LET stored == op[o].result = "stored"
      again == stored /\ s.active /\ op[o].needsPreconfirm IN
  /\ op[o].proc = "effect" /\ op[o].job = "settled"
  /\ \/ /\ ~Current(o) /\ op' = [op EXCEPT ![o] = Retired] /\ UNCHANGED <<s, conf>>
     \/ /\ Current(o) /\ ~stored
        /\ op' = [op EXCEPT ![o] = Retired]
        /\ s' = [Protected(s) EXCEPT !.auth = NoOp] /\ UNCHANGED conf
     \/ /\ Current(o) /\ again
        /\ op' = [op EXCEPT ![o].proc = "pre"]
        /\ conf' = [conf EXCEPT ![o] = Asking(s.generation)] /\ UNCHANGED s
     \/ /\ Current(o) /\ stored /\ ~again
        /\ Conclude(o, op[o], s) /\ conf' = [conf EXCEPT ![o] = Awaited(o, op[o], s)]
  /\ UNCHANGED <<resume, req, clear, queue, cookie, pauses, reconfirmed>>

\* Without an effect the flag is cleared before the pause is looked at.
PreConfirmed(o) ==
  LET b == op[o].binding
      ok == Accepts(o, o, b)
      r == IF s.active \/ op[o].effect = "none"
           THEN [op[o] EXCEPT !.needsPreconfirm = FALSE] ELSE op[o] IN
  /\ op[o].proc = "pre" /\ Heard(o, IF ok THEN Awaited(o, r, s) ELSE Idle)
  /\ \/ ok /\ Conclude(o, r, Accepted(s, o))
     \/ ~ok /\ s' = Refused(s, o, o, b) /\ op' = [op EXCEPT ![o] = Finished(o, @, s')]
  /\ UNCHANGED <<resume, req, clear, queue, cookie, pauses>>

\* The last confirmation decides; a logout must find nobody signed in.
FinalConfirmed(o) ==
  LET b == op[o].binding
      plausible == (b \in SignedIn) = ~op[o].logout IN
  /\ op[o].proc = "final" /\ Heard(o, Idle)
  /\ s' \in Told(CASE ~Accepts(o, o, b) -> Refused(s, o, o, b)
                    [] Accepts(o, o, b) /\ ~plausible -> Invalidated(s)
                    [] Accepts(o, o, b) /\ plausible /\ ~s.active -> s
                    [] Accepts(o, o, b) /\ plausible /\ s.active -> Published(s, b))
  /\ op' = [op EXCEPT ![o] = Finished(o, @, s')]
  /\ UNCHANGED <<resume, req, clear, queue, cookie, pauses>>

-----------------------------------------------------------------------------
(* The native storage queue: one job at a time, in admission order.        *)

AtHead(j) == queue # <<>> /\ Head(queue) = j
JobEnds(o, result) ==
  /\ op' = [op EXCEPT ![o].job = "settled", ![o].result = result]
  /\ queue' = Tail(queue)

\* The accepted effect's job gets its turn, or looks again after a change.
JobRuns(o) ==
  /\ AtHead(o) /\ op[o].job \in {"queued", "waiting"}
  /\ \/ ~Current(o) /\ JobEnds(o, "stale") /\ UNCHANGED conf
     \/ /\ Current(o) /\ s.active /\ op[o].needsPreconfirm
        /\ op' = [op EXCEPT ![o].job = "pre"]
        /\ conf' = [conf EXCEPT ![o] = Asking(s.generation)] /\ UNCHANGED queue
     \/ /\ Current(o) /\ s.active /\ ~op[o].needsPreconfirm
        /\ op' = [op EXCEPT ![o].job = "writing"] /\ UNCHANGED <<conf, queue>>
  /\ UNCHANGED <<s, resume, req, clear, cookie, pauses, reconfirmed>>

\* The owner was re-observed before a held effect may touch the device.
JobConfirmed(o) ==
  LET b == op[o].binding IN
  /\ AtHead(o) /\ op[o].job = "pre" /\ Heard(o, Idle)
  /\ \/ /\ ~Accepts(o, o, b) /\ s' = Refused(s, o, o, b)
        /\ JobEnds(o, IF Current(o) /\ Confirmed(o) = NoBinding THEN "failed" ELSE "stale")
     \/ /\ Accepts(o, o, b) /\ s' = Accepted(s, o) /\ UNCHANGED queue
        /\ op' = [op EXCEPT ![o] = IF s.active
                    THEN [@ EXCEPT !.job = "writing", !.needsPreconfirm = FALSE]
                    ELSE [@ EXCEPT !.job = "waiting"]]
  /\ UNCHANGED <<resume, req, clear, cookie, pauses>>

\* A failed save is compensated by a clear; either write may fail.
JobWritten(o) ==
  /\ AtHead(o) /\ op[o].job \in {"writing", "compensating"}
  /\ \E ok \in BOOLEAN :
       IF ~ok /\ Current(o) /\ op[o].job = "writing" /\ op[o].effect = "save"
       THEN op' = [op EXCEPT ![o].job = "compensating"] /\ UNCHANGED queue
       ELSE JobEnds(o, CASE ~Current(o) -> "stale" [] Current(o) /\ ok -> "stored"
                         [] Current(o) /\ ~ok -> "failed")
  /\ UNCHANGED <<s, resume, req, clear, conf, cookie, pauses, reconfirmed>>

\* lease().clearCredential.
ClearAdmitted(c) ==
  /\ clear[c].pc = "new" /\ HasIdentity /\ Visible
  /\ clear' = [clear EXCEPT ![c] = [pc |-> "queued", gen |-> s.generation]]
  /\ queue' = Append(queue, c)
  /\ UNCHANGED <<s, resume, op, req, conf, cookie, pauses, reconfirmed>>

\* effectCurrent: an admitted clear may finish while an authentication of the
\* same owner waits behind it, never while the owner is uncertain.
ClearMayWrite(c) ==
  /\ HasIdentity /\ clear[c].gen = s.generation /\ s.active
  /\ \/ s.availability = "foreground"
     \/ /\ s.availability = "auth-pending" /\ s.auth # NoOp
        /\ op[s.auth].gen = clear[c].gen /\ op[s.auth].resumeConfirmed
        /\ op[s.auth].expected = s.identity.binding

\* Mutant: an admitted clear waits for the login that waits for it.
ClearRunsInForeground(c) ==
  /\ AtHead(c) /\ clear[c].pc = "queued"
  /\ (HasIdentity /\ clear[c].gen = s.generation) => s.availability = "foreground"
  /\ clear' = [clear EXCEPT ![c].pc = IF ClearMayWrite(c) THEN "writing" ELSE "done"]
  /\ queue' = IF ClearMayWrite(c) THEN queue ELSE Tail(queue)
  /\ UNCHANGED <<s, resume, op, req, conf, cookie, pauses, reconfirmed>>
ClearRuns(c) ==
  /\ AtHead(c) /\ clear[c].pc = "queued"
  /\ (HasIdentity /\ clear[c].gen = s.generation) => s.availability # "paused"
  /\ clear' = [clear EXCEPT ![c].pc = IF ClearMayWrite(c) THEN "writing" ELSE "done"]
  /\ queue' = IF ClearMayWrite(c) THEN queue ELSE Tail(queue)
  /\ UNCHANGED <<s, resume, op, req, conf, cookie, pauses, reconfirmed>>

ClearWritten(c) ==
  /\ AtHead(c) /\ clear[c].pc = "writing"
  /\ clear' = [clear EXCEPT ![c].pc = "done"] /\ queue' = Tail(queue)
  /\ UNCHANGED <<s, resume, op, req, conf, cookie, pauses, reconfirmed>>

-----------------------------------------------------------------------------
(* The app's life cycle, the shield's buttons, revocation and recovery.    *)

\* Mutant: an accepted answer keeps its confirmation across a pause.
PauseWithoutPreconfirm ==
  /\ s.active /\ pauses < MaxPauses
  /\ s' = [s EXCEPT !.active = FALSE, !.availability = "paused",
                    !.recovery.confirmed = FALSE]
  /\ op' = IF s.auth = NoOp THEN op
           ELSE [op EXCEPT ![s.auth].resumeConfirmed = @ /\ Sent(s.auth)]
  /\ pauses' = pauses + 1 /\ reconfirmed' = FALSE
  /\ UNCHANGED <<resume, req, clear, queue, conf, cookie>>
Pause ==
  /\ s.active /\ pauses < MaxPauses
  /\ s' = [s EXCEPT !.active = FALSE, !.availability = "paused",
                    !.recovery.confirmed = FALSE]
  /\ op' = IF s.auth = NoOp THEN op
           ELSE [op EXCEPT ![s.auth].resumeConfirmed = @ /\ Sent(s.auth),
                           ![s.auth].needsPreconfirm = @ \/ op[s.auth].accepted]
  /\ pauses' = pauses + 1 /\ reconfirmed' = FALSE
  /\ UNCHANGED <<resume, req, clear, queue, conf, cookie>>

\* The shield offers Retry and Sign in; not during the very first observation.
ShieldOffers == /\ s.availability = "uncertain" /\ ~conf["start"].busy
                /\ s.generation < MaxGeneration \/ s.auth # NoOp
confirming == resume.pc # "idle" /\ (resume.pc = "complete" => op[resume.op].proc # "idle")

\* foreground(), called by AppState and by Retry.  A call while another one is
\* pending shares its promise.
Foreground ==
  LET x == [s EXCEPT !.active = TRUE]
      a == s.auth
      Await(pc) == /\ resume' = [pc |-> pc, op |-> a] /\ s' = x
                   /\ conf' = [conf EXCEPT !["resume"] = Asking(s.generation)]
                   /\ UNCHANGED <<op, queue>> IN
  /\ ~s.active \/ ShieldOffers
  /\ \/ confirming /\ s' = x /\ UNCHANGED <<resume, op, queue, conf>>
     \/ ~confirming /\ ~s.everConfirmed /\ ~s.startupRevoked /\ Await("bootstrap")
     \/ /\ ~confirming /\ (s.everConfirmed \/ s.startupRevoked)
        /\ \/ a # NoOp /\ ~Sent(a) /\ Await("op")
           \/ a = NoOp /\ s.recovery # NoRecovery /\ Await("recovery")
           \/ a = NoOp /\ s.recovery = NoRecovery /\ Await("reconcile")
           \/ /\ a # NoOp /\ Sent(a) /\ ~op[a].accepted
              /\ s' = x /\ UNCHANGED <<resume, op, queue, conf>>
           \/ /\ a # NoOp /\ op[a].accepted /\ resume' = [pc |-> "complete", op |-> a]
              /\ IF op[a].proc = "idle" THEN Complete(a, op[a], x)
                 ELSE s' = x /\ UNCHANGED <<op, queue, conf>>
  /\ UNCHANGED <<req, clear, cookie, pauses, reconfirmed>>

ResumeBootstrap ==
  /\ resume.pc = "bootstrap" /\ Heard("resume", Idle) /\ resume' = Resting
  /\ s' \in Told(Adopted(s, "resume"))
  /\ UNCHANGED <<op, req, clear, queue, cookie, pauses>>

ResumeOwner ==
  /\ resume.pc = "reconcile" /\ Heard("resume", Idle) /\ resume' = Resting
  /\ s' = Reconciled(s, "resume", TRUE)
  /\ UNCHANGED <<op, req, clear, queue, cookie, pauses>>

\* An unsent authentication goes on only for the owner it was made for.
ResumeUnsent ==
  LET o == resume.op
      ok == Accepts("resume", o, op[o].expected) IN
  /\ resume.pc = "op" /\ Heard("resume", Idle) /\ resume' = Resting
  /\ s' = CASE ~ok -> Refused(s, "resume", o, op[o].expected)
            [] ok /\ ~s.active -> s
            [] ok /\ s.active -> [Accepted(s, o) EXCEPT !.availability = "auth-pending"]
  /\ op' = IF ok /\ s.active THEN [op EXCEPT ![o].resumeConfirmed = TRUE] ELSE op
  /\ UNCHANGED <<req, clear, queue, cookie, pauses>>

ResumeRecovery ==
  LET stale == conf["resume"].gen # s.generation
      same == ~stale /\ Confirmed("resume") \in {s.recovery.binding} \ {NoBinding} IN
  /\ resume.pc = "recovery" /\ Heard("resume", Idle) /\ resume' = Resting
  /\ s' = CASE stale \/ (same /\ ~s.active) -> s
            [] ~stale /\ ~same -> Invalidated(s)
            [] same /\ s.active -> [s EXCEPT !.recovery.confirmed = TRUE,
                                            !.availability = "foreground"]
  /\ UNCHANGED <<op, req, clear, queue, cookie, pauses>>

\* The event stream of an authenticated, ready, visible owner is told to leave.
StreamRevokes ==
  /\ s.rootReady /\ s.availability = "foreground" /\ s.identity.binding \in SignedIn
  /\ s' = Invalidated(s)
  /\ UNCHANGED <<resume, op, req, clear, queue, conf, cookie, pauses, reconfirmed>>

\* Sign in on the shield: refused as busy while something submitted is open.
RecoveryStart ==
  /\ ShieldOffers /\ s.active /\ ~conf["recover"].busy
  /\ ~authExecuting /\ s.auth = NoOp /\ inFlight = {} /\ nativeEffects = {}
  /\ s' = Invalidated(s)
  /\ conf' = [conf EXCEPT !["recover"] = Asking(s.generation + 1)]
  /\ UNCHANGED <<resume, op, req, clear, queue, cookie, pauses, reconfirmed>>

RecoveryObserved ==
  LET stale == conf["recover"].gen # s.generation
      seen == Confirmed("recover") IN
  /\ Heard("recover", Idle)
  /\ s' = CASE stale -> s
            [] ~stale /\ (seen = NoBinding \/ ~s.active) -> Protected(s)
            [] seen # NoBinding /\ s.active ->
                 [s EXCEPT !.availability = "foreground",
                           !.recovery = [binding |-> seen, generation |-> s.generation,
                                         confirmed |-> TRUE]]
  /\ UNCHANGED <<resume, op, req, clear, queue, cookie, pauses>>

\* abandonTransition: only what is settled may be dropped.
Abandon ==
  /\ s.auth # NoOp /\ op[s.auth].proc = "idle"
  /\ Sent(s.auth) => op[s.auth].accepted
  /\ s' = [Protected(s) EXCEPT !.auth = NoOp]
  /\ op' = IF Sent(s.auth) THEN [op EXCEPT ![s.auth] = Retired] ELSE op
  /\ UNCHANGED <<resume, req, clear, queue, conf, cookie, pauses, reconfirmed>>

-----------------------------------------------------------------------------
Completion(o) == EffectSettled(o) \/ PreConfirmed(o) \/ FinalConfirmed(o)
Submission(o) == SendPost(o) \/ PostFailed(o) \/ PostFailureReconciled(o) \/ AcceptPost(o)
Job(o) == JobRuns(o) \/ JobConfirmed(o) \/ JobWritten(o)
Response(r) == RequestHeaders(r) \/ RequestReconciled(r) \/ RequestReleased(r)
Resuming == ResumeBootstrap \/ ResumeOwner \/ ResumeUnsent \/ ResumeRecovery

Next ==
  \/ \E t \in Tasks : ServeObservation(t)
  \/ ReplaceSession
  \/ \E r \in Requests : ServeRequest(r) \/ DropRequest(r) \/ IssueRequest(r)
                           \/ Response(r) \/ RequestRead(r)
  \/ \E o \in Ops : ServePost(o) \/ ExpirePost(o) \/ Authenticate(o)
                      \/ Submission(o) \/ Completion(o) \/ Job(o)
  \/ \E c \in Clears : ClearAdmitted(c) \/ ClearRuns(c) \/ ClearWritten(c)
  \/ Start \/ MarkRootReady \/ Pause \/ Foreground \/ Resuming \/ StreamRevokes
  \/ RecoveryStart \/ RecoveryObserved \/ Abandon

Spec == Init /\ [][Next]_vars

\* What the platform and the user owe the supervisor: promises resolve, timers
\* fire, an aborted transport and the native store settle, the person comes
\* back to the app and presses Retry where it is offered, and the server is
\* not unreachable for ever.  Nobody has to pause, submit, expire or revoke.
Fairness ==
  /\ \A t \in Tasks : SF_vars(ServeObservation(t))
  /\ \A r \in Requests : WF_vars(DropRequest(r) \/ Response(r))
  /\ \A o \in Ops : /\ WF_vars(ServePost(o)) /\ WF_vars(Submission(o))
                    /\ WF_vars(Completion(o)) /\ WF_vars(Job(o))
  /\ \A c \in Clears : WF_vars(ClearRuns(c) \/ ClearWritten(c))
  /\ WF_vars(Start) /\ WF_vars(Resuming) /\ WF_vars(RecoveryObserved)
  /\ WF_vars(Foreground)
FairSpec == Spec /\ Fairness

=============================================================================
