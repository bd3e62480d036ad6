--------------------------- MODULE StreamProperties ---------------------------
(***************************************************************************)
(* What the change streams of a worker owe their clients, the broker and   *)
(* each other, and how they implement StreamService.                       *)
(***************************************************************************)
EXTENDS OwnedStream

Leasing == {t \in Streams : st[t].lease}
LeasingOf(user) == {t \in Leasing : User(t) = user}
Frames == Hints \cup {"heartbeat", "auth-required"}

Pcs == {"none", "authorizing", "subscribing", "checking", "refusing", "open", "leaving", "ended"}
Answers == {"none", "asked", "yes", "no", "error"}
Reads == Hints \cup {"none", "pending", "failed"}
Iterations == {"idle", "waiting", "asking", "leaving"}
Cleanups == {"none", "running", "done"}
Replies == {"none", "200", "401", "403", "404", "503"}
OptSession == Sessions \cup {NoSession}
OptFrame == Frames \cup {"none"}
StreamRecord ==
  [pc : Pcs, session : OptSession, claim : OptSession, ask : Answers,
   lease : BOOLEAN, sub : BOOLEAN, queue : Seq(Hints), read : Reads,
   iter : Iterations, frame : OptFrame, due : BOOLEAN, closed : BOOLEAN,
   cleanup : Cleanups, wire : Seq(Frames), reply : Replies]

\* Every field holds a value of its type: a wire never carries anything but a
\* hint, a heartbeat or auth-required, and no counter falls below zero.
TypeOK ==
  /\ st \in [Streams -> StreamRecord]
  /\ total \in Nat /\ counts \in [Users -> Nat] /\ valid \subseteq Sessions

\* The counters are exactly the leases that are out, within both limits, and
\* whoever holds a subscription holds a lease: no failure, timeout, refusal or
\* disconnect leaks a place or gives one back twice (realtime_stream.py:51).
CapacityKept ==
  /\ total = Cardinality(Leasing) /\ total <= MaxTotal
  /\ \A u \in Users : counts[u] = Cardinality(LeasingOf(u)) /\ counts[u] <= MaxPerUser
  /\ \A t \in Streams : st[t].sub => st[t].lease

\* An admitted connection gives its place back, whether it is served to its
\* deadline, refused or abandoned before its first frame (realtime_stream.py:226).
LeaseReturned == \A t \in Streams : st[t].lease ~> ~st[t].lease

-----------------------------------------------------------------------------
(* The refinement mapping.  What a stream owes is in the frame that is being *)
(* checked, in the read that outlives the heartbeats and in its queue.       *)

Phase(x) ==
  CASE x.pc \in {"none", "ended"} -> "idle"
    [] x.pc = "authorizing" -> "asked"
    [] x.pc \in {"subscribing", "checking"} -> "admitted"
    [] x.pc = "open" /\ ~x.closed -> "open"
    [] x.pc = "refusing" -> IF x.lease THEN "closing" ELSE "released"
    [] x.pc \in {"open", "leaving"} /\ x.closed ->
         IF x.lease THEN "closing" ELSE IF x.iter = "idle" THEN "idle" ELSE "released"
\* Late hints come last in a queue (they are never followed by one in time).
Parted(queue, n) == \A i \in 1 .. Len(queue) : queue[i] = "late" <=> i > n
InTime(queue) == SubSeq(queue, 1, CHOOSE n \in 0 .. Len(queue) : Parted(queue, n))
Held(item) == IF item \in {"resync", "change"} THEN <<item>> ELSE <<>>
Owed(x) ==
  IF x.pc \in {"checking", "open"} /\ ~x.closed
  THEN Held(x.frame) \o Held(x.read) \o InTime(x.queue) ELSE <<>>
Promised(x) ==
  LET phase == Phase(x) IN
  [phase |-> phase,
   session |-> IF phase = "idle" THEN NoSession ELSE x.session,
   claim |-> IF phase = "idle" THEN NoSession ELSE x.claim,
   owed |-> Owed(x), wire |-> x.wire, reply |-> x.reply]

Service == INSTANCE StreamService WITH sv <- [t \in Streams |-> Promised(st[t])]

\* The coroutines keep the promise of StreamService: no hint is lost to a
\* heartbeat, reordered, sent twice or sent after its session ended, a refusal
\* and auth-required are true, and auth-required is the last frame, written when
\* the place is free again (realtime_stream.py:179, realtime_auth.py:207).
Promise == Service!Spec
=============================================================================
