----------------------------- MODULE EventStream -----------------------------
(***************************************************************************)
(* The change stream of the app (mobile/src/realtime/event-stream.ts): at  *)
(* most one connection, for the owner the app shell has set, kept up by a   *)
(* retry timer.  load() is a coroutine per connection; closing one aborts   *)
(* its transport and its timers, but its pending fetch or read still        *)
(* settles later, beside the connections opened since.                      *)
(*                                                                         *)
(* The shell sets an owner exactly while it is current (app-session.tsx:213) *)
(* so isCurrent() is owner # NoOwner here.                                  *)
(***************************************************************************)
EXTENDS Naturals

CONSTANTS
  Conns,     \* bound: connections whose coroutine has not ended
  Owners,    \* the sessions an owner of the screen may have
  NoOwner, NoConn

VARIABLES
  owner,       \* `source' and `owner': whom the shell has set, or NoOwner
  connection,
  cn,          \* one record per connection
  timer,       \* a retry is scheduled
  disabled     \* this owner was answered 404

cvars == <<owner, connection, cn, timer, disabled>>

-----------------------------------------------------------------------------
\* `live': not aborted.  `watch' and `lease': its timers are armed.  `synced':
\* it has brought a resync.
Free == [pc |-> "free", owner |-> NoOwner, live |-> FALSE, watch |-> FALSE,
         lease |-> FALSE, synced |-> FALSE]
Opening(o) == [Free EXCEPT !.pc = "fetching", !.owner = o, !.live = TRUE,
                           !.watch = TRUE, !.lease = TRUE]
\* What close() leaves of a coroutine that is still waiting.
Aborted(x) == [x EXCEPT !.live = FALSE, !.watch = FALSE, !.lease = FALSE]

\* Mutant: a connection that was closed is still taken for the owner's.
OwnsAny(c) == cn[c].pc # "free" /\ owner # NoOwner
Owns(c) == connection = c /\ cn[c].owner = owner

Init ==
  /\ owner = NoOwner /\ connection = NoConn
  /\ cn = [c \in Conns |-> Free] /\ timer = FALSE /\ disabled = FALSE

\* close(c), with `rest' left of its coroutine.
Closes(c, rest) ==
  /\ connection' = IF connection = c THEN NoConn ELSE connection
  /\ cn' = [cn EXCEPT ![c] = rest]
\* Mutant: a connection that is renewed is only closed.
ClosesUnretried(c, rest) ==
  /\ Closes(c, rest) /\ timer' = (timer \/ (Owns(c) /\ rest.pc = "free"))
  /\ UNCHANGED <<owner, disabled>>
\* retry(c): close it, and schedule another one if it was the owner's.
Retries(c, rest) ==
  /\ Closes(c, rest) /\ timer' = (timer \/ Owns(c))
  /\ UNCHANGED <<owner, disabled>>

\* Mutant: stopping leaves the retry timer running.
SetOwnerKeepingTimer(next, c) ==
  LET rest == IF connection = NoConn THEN cn
              ELSE [cn EXCEPT ![connection] = Aborted(@)] IN
  /\ next # owner /\ owner' = next /\ UNCHANGED timer /\ disabled' = FALSE
  /\ \/ next = NoOwner /\ connection' = NoConn /\ cn' = rest
     \/ /\ next # NoOwner /\ rest[c].pc = "free"
        /\ connection' = c /\ cn' = [rest EXCEPT ![c] = Opening(next)]
\* setOwner(): stop whatever there is, then open for the new owner.
SetOwner(next, c) ==
  LET rest == IF connection = NoConn THEN cn
              ELSE [cn EXCEPT ![connection] = Aborted(@)] IN
  /\ next # owner /\ owner' = next /\ timer' = FALSE /\ disabled' = FALSE
  /\ \/ next = NoOwner /\ connection' = NoConn /\ cn' = rest
     \/ /\ next # NoOwner /\ rest[c].pc = "free"
        /\ connection' = c /\ cn' = [rest EXCEPT ![c] = Opening(next)]

TimerFires(c) ==
  /\ timer /\ timer' = FALSE
  /\ connection = NoConn /\ cn[c].pc = "free"
  /\ connection' = c /\ cn' = [cn EXCEPT ![c] = Opening(owner)]
  /\ UNCHANGED <<owner, disabled>>

-----------------------------------------------------------------------------
(* load(): the fetch, the reads and their timers.                          *)

\* authRequired(c): close, and tell the owner, who revokes the session and
\* with it this owner.
AuthRequired(c) ==
  /\ Closes(c, Free) /\ owner' = NoOwner /\ timer' = FALSE /\ disabled' = FALSE

\* The fetch is answered.
Response(c, kind) ==
  /\ cn[c].pc = "fetching" /\ Owns(c)
  /\ \/ /\ kind = "stream" /\ cn' = [cn EXCEPT ![c].pc = "reading"]
        /\ UNCHANGED <<owner, connection, timer, disabled>>
     \/ kind = "auth" /\ AuthRequired(c)
     \/ /\ kind = "absent" /\ Closes(c, Free) /\ disabled' = TRUE
        /\ UNCHANGED <<owner, timer>>
     \/ kind = "failure" /\ Retries(c, Free)

\* A frame is read and handed to the owner.
Frame(c, event) ==
  /\ cn[c].pc = "reading" /\ Owns(c)
  /\ \/ event = "auth-required" /\ AuthRequired(c)
     \/ /\ event # "auth-required"
        /\ cn' = [cn EXCEPT ![c].synced = @ \/ event = "resync"]
        /\ UNCHANGED <<owner, connection, timer, disabled>>

\* Mutant: an ended stream is taken for finished.
BrokenForGood(c) ==
  /\ cn[c].pc # "free" /\ Owns(c) /\ Closes(c, Free)
  /\ UNCHANGED <<owner, timer, disabled>>
\* The body ends, or the fetch, a read or the decoder fails.
Broken(c) ==
  /\ cn[c].pc # "free" /\ Owns(c) /\ Retries(c, Free)

\* A fetch or read of a connection that is not the owner's settles at last.
Settles(c) ==
  /\ cn[c].pc # "free" /\ ~Owns(c) /\ Closes(c, Free)
  /\ UNCHANGED <<owner, timer, disabled>>

\* 45 s without a byte, 60 s in all.
Watchdog(c) == cn[c].watch /\ Retries(c, Aborted(cn[c]))
Lease(c) == cn[c].lease /\ connection = c /\ Retries(c, Aborted(cn[c]))
=============================================================================
