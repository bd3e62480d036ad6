----------------------------- MODULE OwnedStream -----------------------------
(***************************************************************************)
(* The change streams of one backend worker (backend/todo/realtime_stream.py, *)
(* realtime_auth.py, realtime_views.py).  A stream is one GET of the events *)
(* endpoint: it is authorised, admitted against two limits, subscribed to   *)
(* the broker, authorised again, and then iterated by the server, which     *)
(* looks the session up anew before every frame.  The client may leave at   *)
(* any await, and cleanup is a task of its own.  An action is the code      *)
(* between two awaits.                                                      *)
(***************************************************************************)
EXTENDS Naturals, Sequences, FiniteSets

CONSTANTS
  Streams,       \* places for connections; one is used again when it has ended
  Sessions, Users, NoSession,
  UserOf,        \* the principal of a session
  MaxTotal, MaxPerUser,
  QueueBound,    \* of the broker's subscription
  WireBound      \* bound: frames written and not yet read by the client

ASSUME StreamConstants ==
  /\ UserOf \in [Sessions -> Users] /\ NoSession \notin Sessions
  /\ MaxTotal \in Nat \ {0} /\ MaxPerUser \in Nat \ {0}
  /\ QueueBound \in Nat \ {0} /\ WireBound \in Nat \ {0}

VARIABLES
  st,       \* one record per stream
  total,    \* Admissions.total
  counts,   \* Admissions.counts
  valid     \* the sessions that are authenticated on the server

svars == <<st, total, counts, valid>>

-----------------------------------------------------------------------------
\* A hint is "late" if its stream's session had gone when it was published.
Hints == {"resync", "change", "late"}
Fresh(session, claim) ==
  [pc |-> "none", session |-> session, claim |-> claim, ask |-> "none",
   lease |-> FALSE, sub |-> FALSE, queue |-> <<>>, read |-> "none",
   iter |-> "idle", frame |-> "none", due |-> FALSE, closed |-> FALSE,
   cleanup |-> "none", wire |-> <<>>, reply |-> "none"]

\* Mutant: every aclose() starts a cleanup.
ClosingAnew(x) == [x EXCEPT !.closed = TRUE, !.cleanup = "running"]
\* aclose(): one cleanup task, however often it is called.
Closing(x) == [x EXCEPT !.closed = TRUE,
                        !.cleanup = IF @ = "none" THEN "running" ELSE @]
\* The coroutine is over; what it wrote stays on the wire.
Ended(x, reply) ==
  [Fresh(NoSession, NoSession) EXCEPT !.pc = "ended", !.wire = x.wire, !.reply = reply]
\* __anext__ waits for the cleanup before it returns `frame' or stops.
Leaving(x, frame) == [Closing(x) EXCEPT !.iter = "leaving", !.frame = frame]

User(t) == UserOf[st[t].session]
Room(user) == total < MaxTotal /\ counts[user] < MaxPerUser
GiveBack(t) == /\ total' = total - 1
               /\ counts' = [counts EXCEPT ![User(t)] = @ - 1]
Step(t, x) == st' = [st EXCEPT ![t] = x]
Answered(t) == st[t].ask \notin {"none", "asked"}

Init ==
  /\ st = [t \in Streams |-> Fresh(NoSession, NoSession)]
  /\ total = 0 /\ counts = [u \in Users |-> 0]
  /\ valid = Sessions

-----------------------------------------------------------------------------
(* Admission: events(), authorize() and open_stream().                     *)

\* A request with a well-formed contract arrives; it names the session its
\* client expects, and its cookie names one.
Connect(t, cookie, claim) ==
  /\ st[t].pc \in {"none", "ended"}
  /\ Step(t, [Fresh(cookie, claim) EXCEPT !.pc = "authorizing", !.ask = "asked"])
  /\ UNCHANGED <<total, counts, valid>>

\* fresh_identity on a worker thread looks at the session store, or fails.
LookUp(t) ==
  /\ st[t].ask = "asked"
  /\ \E answer \in {IF st[t].session \in valid THEN "yes" ELSE "no", "error"} :
       Step(t, [st[t] EXCEPT !.ask = answer])
  /\ UNCHANGED <<total, counts, valid>>

\* A worker without realtime configuration has no such endpoint.
Unconfigured(t) ==
  /\ st[t].pc = "authorizing" /\ st[t].ask = "asked"
  /\ Step(t, Ended(st[t], "404"))
  /\ UNCHANGED <<total, counts, valid>>

Authorized(t) ==
  LET x == st[t]
      granted == x.ask = "yes" /\ x.claim = x.session IN
  /\ x.pc = "authorizing" /\ Answered(t)
  /\ \/ /\ granted /\ Room(User(t))
        /\ Step(t, [x EXCEPT !.pc = "subscribing", !.ask = "none", !.lease = TRUE])
        /\ total' = total + 1 /\ counts' = [counts EXCEPT ![User(t)] = @ + 1]
     \/ /\ ~granted \/ ~Room(User(t))
        /\ Step(t, Ended(x, CASE x.ask = "no" -> "401"
                              [] x.ask = "yes" /\ x.claim # x.session -> "403"
                              [] x.ask = "error" \/ granted -> "503"))
        /\ UNCHANGED <<total, counts>>
  /\ UNCHANGED valid

\* Every topic is acknowledged; the subscription starts with a resync.
Subscribed(t) ==
  /\ st[t].pc = "subscribing"
  /\ Step(t, [st[t] EXCEPT !.pc = "checking", !.ask = "asked", !.sub = TRUE,
                           !.queue = <<"resync">>])
  /\ UNCHANGED <<total, counts, valid>>

\* Mutant: the lease of a failed subscription is forgotten.
SubscribeFailsKeepingLease(t) ==
  /\ st[t].pc = "subscribing" /\ Step(t, Ended(st[t], "503"))
  /\ UNCHANGED <<total, counts, valid>>
\* The broker fails or takes more than two seconds.
SubscribeFails(t) ==
  /\ st[t].pc = "subscribing" /\ Step(t, Ended(st[t], "503"))
  /\ GiveBack(t) /\ UNCHANGED valid

\* The check after the acknowledgement decides whether there is a response.
Opened(t) ==
  /\ st[t].pc = "checking" /\ Answered(t)
  /\ Step(t, IF st[t].ask = "yes"
             THEN [st[t] EXCEPT !.pc = "open", !.ask = "none", !.reply = "200"]
             ELSE [Closing(st[t]) EXCEPT !.pc = "refusing"])
  /\ UNCHANGED <<total, counts, valid>>
Refused(t) ==
  /\ st[t].pc = "refusing" /\ st[t].cleanup = "done"
  /\ Step(t, Ended(st[t], IF st[t].ask = "no" THEN "401" ELSE "503"))
  /\ UNCHANGED <<total, counts, valid>>

-----------------------------------------------------------------------------
(* The frames: __anext__(), its read task and the broker.                  *)

\* The server asks for the next frame.
Iterate(t) ==
  LET x == st[t] IN
  /\ x.pc = "open" /\ x.iter = "idle" /\ Len(x.wire) < WireBound
  /\ Step(t, CASE x.closed -> Ended(x, "200")
               [] ~x.closed /\ x.due -> Leaving(x, "none")
               [] ~x.closed /\ ~x.due ->
                    [x EXCEPT !.iter = "waiting",
                              !.read = IF @ = "none" THEN "pending" ELSE @])
  /\ UNCHANGED <<total, counts, valid>>

\* The read task takes an item, or the subscription breaks.
Read(t) ==
  /\ st[t].read = "pending" /\ st[t].queue # <<>>
  /\ Step(t, [st[t] EXCEPT !.read = Head(st[t].queue), !.queue = Tail(@)])
  /\ UNCHANGED <<total, counts, valid>>
ReadFails(t) ==
  /\ st[t].read = "pending" /\ Step(t, [st[t] EXCEPT !.read = "failed"])
  /\ UNCHANGED <<total, counts, valid>>

\* Mutant: the heartbeat cancels the read, with the item it may have taken.
WakeCancellingRead(t) ==
  LET x == st[t] IN
  /\ x.iter = "waiting"
  /\ \E frame \in {x.read, "heartbeat"} \ {"pending"} :
       Step(t, CASE frame = "failed" \/ x.due -> Leaving(x, "none")
                 [] frame # "failed" /\ ~x.due ->
                      [x EXCEPT !.read = "none", !.ask = "asked",
                                !.iter = "asking", !.frame = frame])
  /\ UNCHANGED <<total, counts, valid>>
\* The read is done, or the heartbeat or the deadline comes first and leaves it
\* pending.
Wake(t) ==
  LET x == st[t]
      done == x.read # "pending" IN
  /\ x.iter = "waiting"
  /\ Step(t, CASE x.read = "failed" \/ x.due -> Leaving(x, "none")
               [] x.read # "failed" /\ ~x.due ->
                    [x EXCEPT !.read = IF done THEN "none" ELSE @, !.ask = "asked",
                              !.iter = "asking",
                              !.frame = IF done THEN x.read ELSE "heartbeat"])
  /\ UNCHANGED <<total, counts, valid>>

\* The session was looked up for this frame.
Checked(t) ==
  LET x == st[t]
      sends == ~x.closed /\ ~x.due /\ x.ask = "yes" IN
  /\ x.iter = "asking" /\ Answered(t)
  /\ Step(t, CASE sends -> [x EXCEPT !.ask = "none", !.iter = "idle", !.frame = "none",
                                     !.wire = Append(@, x.frame)]
               [] ~sends /\ ~x.closed /\ ~x.due /\ x.ask = "no" ->
                    [Leaving(x, "auth-required") EXCEPT !.ask = "none"]
               [] ~sends /\ (x.closed \/ x.due \/ x.ask = "error") ->
                    [Leaving(x, "none") EXCEPT !.ask = "none"])
  /\ UNCHANGED <<total, counts, valid>>

\* __anext__ goes on after its own aclose().
Closed(t) ==
  LET x == st[t] IN
  /\ x.iter = "leaving" /\ x.cleanup = "done"
  /\ Step(t, [x EXCEPT !.iter = "idle", !.frame = "none",
                       !.wire = IF x.frame = "none" THEN @ ELSE Append(@, x.frame)])
  /\ UNCHANGED <<total, counts, valid>>

-----------------------------------------------------------------------------
(* Deadline, disconnect and cleanup.                                       *)

\* The 60 s after which a connection ends.
Expire(t) ==
  /\ st[t].pc \in {"checking", "open"} /\ ~st[t].due
  /\ Step(t, [st[t] EXCEPT !.due = TRUE])
  /\ UNCHANGED <<total, counts, valid>>

\* Mutant: a response nobody is iterating is left alone.
DisconnectIterated(t) ==
  LET x == st[t] IN
  /\ \/ /\ x.pc \in {"authorizing", "checking", "refusing"}
        /\ Step(t, Ended(x, x.reply)) /\ UNCHANGED <<total, counts>>
     \/ /\ x.pc = "subscribing" /\ Step(t, Ended(x, x.reply)) /\ GiveBack(t)
     \/ /\ x.pc = "open"
        /\ Step(t, [(IF x.iter = "idle" THEN x ELSE Closing(x)) EXCEPT !.pc = "leaving"])
        /\ UNCHANGED <<total, counts>>
  /\ UNCHANGED valid
\* The client has gone: the request is cancelled wherever it is.  An open
\* response is closed, with its iteration cancelled or still to find out.
Disconnect(t) ==
  LET x == st[t] IN
  /\ \/ /\ x.pc = "authorizing" /\ Step(t, Ended(x, x.reply)) /\ UNCHANGED <<total, counts>>
     \/ /\ x.pc = "subscribing" /\ Step(t, Ended(x, x.reply)) /\ GiveBack(t)
     \/ /\ x.pc \in {"checking", "refusing"}
        /\ Step(t, [Closing(x) EXCEPT !.pc = "leaving"]) /\ UNCHANGED <<total, counts>>
     \/ /\ x.pc = "open"
        /\ \/ Step(t, [Closing(x) EXCEPT !.pc = "leaving"])
           \/ Step(t, [Closing(x) EXCEPT !.pc = "leaving", !.ask = "none",
                                         !.iter = "idle", !.frame = "none"])
        /\ UNCHANGED <<total, counts>>
  /\ UNCHANGED valid

\* _finish(): the pending read is cancelled, the subscription is closed within
\* two seconds or given up, and in any case the lease goes back.  Its two waits
\* are one step: what the stream may do is the same before and between them.
CleanUp(t) ==
  /\ st[t].cleanup = "running"
  /\ Step(t, [st[t] EXCEPT !.cleanup = "done", !.lease = FALSE, !.sub = FALSE,
                           !.queue = <<>>, !.read = IF @ = "pending" THEN "failed" ELSE @])
  /\ GiveBack(t) /\ UNCHANGED valid

Left(t) ==
  /\ st[t].pc = "leaving" /\ st[t].iter = "idle" /\ st[t].cleanup = "done"
  /\ Step(t, Ended(st[t], st[t].reply))
  /\ UNCHANGED <<total, counts, valid>>

-----------------------------------------------------------------------------
(* The broker, the session store and the socket.                           *)

\* A committed change of a user is published to the streams subscribed then.  A
\* full subscription keeps one resync instead.
Published(user, t) ==
  LET x == st[t]
      item(name) == IF x.session \in valid THEN name ELSE "late" IN
  IF ~x.sub \/ UserOf[x.session] # user THEN x
  ELSE [x EXCEPT !.queue = IF Len(@) < QueueBound THEN Append(@, item("change"))
                                                  ELSE <<item("resync")>>]
Publish(user) ==
  /\ st' = [t \in Streams |-> Published(user, t)]
  /\ UNCHANGED <<total, counts, valid>>

\* A logout, a login, an expiry or a changed password ends a session for good.
Revoke(session) ==
  /\ session \in valid /\ valid' = valid \ {session}
  /\ UNCHANGED <<st, total, counts>>

\* The client takes a frame off the wire.
Take(t) ==
  /\ st[t].wire # <<>> /\ Step(t, [st[t] EXCEPT !.wire = Tail(@)])
  /\ UNCHANGED <<total, counts, valid>>

-----------------------------------------------------------------------------
Admission(t) == Authorized(t) \/ Subscribed(t) \/ SubscribeFails(t) \/ Opened(t) \/ Refused(t)
Iteration(t) == Iterate(t) \/ Wake(t) \/ Checked(t) \/ Closed(t)
Ending(t) == CleanUp(t) \/ Left(t)

Next ==
  \/ \E t \in Streams :
       \/ \E cookie, claim \in Sessions : Connect(t, cookie, claim)
       \/ LookUp(t) \/ Unconfigured(t) \/ Admission(t) \/ Iteration(t) \/ Read(t) \/ ReadFails(t)
       \/ Ending(t) \/ Expire(t) \/ Disconnect(t) \/ Take(t)
  \/ \E user \in Users : Publish(user)
  \/ \E session \in Sessions : Revoke(session)
Spec == Init /\ [][Next]_svars

\* The worker runs its tasks, the session store, the broker and the timers
\* answer, and a response is iterated and read until its client has gone.
Fairness ==
  \A t \in Streams :
    /\ WF_svars(LookUp(t)) /\ WF_svars(Admission(t)) /\ WF_svars(Iteration(t))
    /\ WF_svars(Ending(t)) /\ WF_svars(Expire(t)) /\ WF_svars(Take(t))
FairSpec == Spec /\ Fairness
=============================================================================
