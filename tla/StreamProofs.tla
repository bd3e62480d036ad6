----------------------------- MODULE StreamProofs -----------------------------
(***************************************************************************)
(* The places and the promise of a worker's change streams, for any        *)
(* streams, sessions, users and limits.                                    *)
(***************************************************************************)
EXTENDS StreamProperties, FiniteSetTheorems, SequenceTheorems, TLAPS

-----------------------------------------------------------------------------
\* The invariant: a predicate on the record of each stream, and the counters.

\* Who holds a lease and a subscription, and who gives them back: the request
\* until it has a response, then the one cleanup of that response.
Places(x) ==
  /\ x.pc \notin {"none", "ended"} => x.session \in Sessions /\ x.claim \in Sessions
  /\ x.lease <=> \/ x.pc = "subscribing"
                 \/ x.pc \in {"checking", "refusing", "open", "leaving"} /\ x.cleanup # "done"
  /\ x.sub <=> x.lease /\ x.pc # "subscribing"
  /\ x.closed <=> x.cleanup # "none"
  /\ x.pc \in {"none", "ended", "authorizing", "subscribing", "checking"} => x.cleanup = "none"
  /\ x.pc \in {"refusing", "leaving"} => x.cleanup # "none"

\* Where the request and the iteration of its response stand to each other.
Turns(x) ==
  /\ x.pc \in {"authorizing", "subscribing", "checking", "refusing"} => x.reply = "none"
  /\ x.pc = "open" \/ x.iter # "idle" => x.reply = "200"
  /\ x.pc # "ended" => x.reply \in {"none", "200"}
  /\ x.iter # "idle" => x.pc \in {"open", "leaving"}
  /\ x.pc = "open" /\ x.closed => x.iter = "leaving" \/ (x.iter = "idle" /\ x.cleanup = "done")
  /\ x.iter = "leaving" => x.closed /\ x.frame \in {"none", "auth-required"}
  /\ x.iter = "asking" => x.frame \in Hints \cup {"heartbeat"}
  /\ x.iter \in {"idle", "waiting"} => x.frame = "none"
  /\ x.iter = "waiting" => x.read # "none"
  /\ x.iter \in {"waiting", "asking"} => Len(x.wire) < WireBound
  /\ x.pc \in {"none", "ended", "authorizing", "subscribing", "checking"} => x.read = "none"
  /\ x.pc = "authorizing" => x.ask # "none"
  /\ x.pc = "subscribing" => x.ask = "none"

\* What has been published is in order; nothing late comes before a hint in time,
\* and nothing is late while the session is valid.
Late(x) == "late" \in {x.frame, x.read} \/ \E i \in 1 .. Len(x.queue) : x.queue[i] = "late"
Hearing(x, v) ==
  /\ \E n \in 0 .. Len(x.queue) : Parted(x.queue, n)
  /\ Late(x) \/ x.ask = "no" \/ x.frame = "auth-required" => x.session \notin v
  /\ x.frame = "late" => x.read \notin {"resync", "change"}
  /\ "late" \in {x.frame, x.read} => Parted(x.queue, 0)
  /\ x.iter = "asking" /\ x.frame = "late" => x.ask # "yes"
  /\ x.pc = "checking" => x.queue # <<>>
  /\ ~x.sub => x.queue = <<>>
Sound(x, v) == x \in StreamRecord /\ Places(x) /\ Turns(x) /\ Hearing(x, v)

IInv ==
  /\ TypeOK /\ IsFiniteSet(Leasing) /\ CapacityKept
  /\ \A t \in Streams : Sound(st[t], valid)

-----------------------------------------------------------------------------
\* The values of the types, and what they have in common.
LEMMA Types ==
  /\ {"none", "authorizing", "subscribing", "checking", "refusing", "open", "leaving", "ended"}
       \subseteq Pcs
  /\ {"none", "asked", "yes", "no", "error"} \subseteq Answers
  /\ {"resync", "change", "late", "none", "pending", "failed"} \subseteq Reads
  /\ {"idle", "waiting", "asking", "leaving"} \subseteq Iterations
  /\ {"none", "running", "done"} \subseteq Cleanups
  /\ {"none", "200", "401", "403", "404", "503"} \subseteq Replies
  /\ {"none", "heartbeat", "auth-required"} \subseteq OptFrame
  /\ {"heartbeat", "auth-required"} \subseteq Frames
  /\ Hints \subseteq Frames /\ Hints \subseteq OptFrame /\ Frames \subseteq OptFrame
  /\ Reads \ {"none", "pending", "failed"} = Hints
  /\ Sessions \subseteq OptSession /\ NoSession \in OptSession
BY DEF Pcs, Answers, Reads, Iterations, Cleanups, Replies, OptFrame, Frames, Hints, OptSession

\* A place without a connection, and a request that has just arrived.
LEMMA FreshSound ==
  ASSUME NEW session \in OptSession, NEW claim \in OptSession, NEW v
  PROVE  Sound(Fresh(session, claim), v)
<1> DEFINE y == Fresh(session, claim)
<1>1. y \in StreamRecord
  BY Types DEF Fresh, StreamRecord
<1>2. /\ y.pc = "none" /\ ~y.lease /\ ~y.sub /\ y.cleanup = "none" /\ ~y.closed
      /\ y.queue = <<>> /\ y.read = "none" /\ y.frame = "none" /\ y.iter = "idle"
      /\ y.reply = "none" /\ y.ask = "none"
  BY DEF Fresh
<1> HIDE DEF y
<1>3. Places(y)
  BY <1>2 DEF Places
<1>4. Turns(y)
  BY <1>2 DEF Turns
<1>5. Hearing(y, v)
  BY <1>2 DEF Hearing, Late, Parted
<1> QED
  BY <1>1, <1>3, <1>4, <1>5 DEF Sound, y

LEMMA ConnectSound ==
  ASSUME NEW session \in Sessions, NEW claim \in Sessions, NEW v
  PROVE  Sound([Fresh(session, claim) EXCEPT !.pc = "authorizing", !.ask = "asked"], v)
<1> DEFINE x == Fresh(session, claim)
           y == [x EXCEPT !.pc = "authorizing", !.ask = "asked"]
<1>0. /\ x.session = session /\ x.claim = claim
  BY DEF Fresh
<1>1. Sound(x, v) /\ x.pc = "none" /\ x.read = "none" /\ x.reply = "none" 
  BY FreshSound, Types DEF Fresh
<1> HIDE DEF x
<1>2. y \in StreamRecord
  BY <1>1, Types DEF Sound, StreamRecord
<1>3. Places(y)
  BY <1>0, <1>1 DEF Sound, StreamRecord, Places
<1>4. Turns(y)
  BY <1>1 DEF Sound, StreamRecord, Turns
<1>5. Hearing(y, v)
  BY <1>1 DEF Sound, StreamRecord, Hearing, Late
<1> QED
  BY <1>2, <1>3, <1>4, <1>5 DEF Sound, x

\* The parts of a queue, of its tail and of one that has grown.
LEMMA QueueParts ==
  /\ <<>> \in Seq(Hints) /\ Parted(<<>>, 0) /\ Len(<<>>) = 0
  /\ \A h \in Hints : /\ <<h>> \in Seq(Hints) /\ Len(<<h>>) = 1 /\ <<h>>[1] = h
                      /\ Parted(<<h>>, IF h = "late" THEN 0 ELSE 1)
BY DEF Parted

LEMMA TailParts ==
  ASSUME NEW q \in Seq(Hints), q # <<>>
  PROVE  /\ Head(q) \in Hints /\ Tail(q) \in Seq(Hints) /\ Head(q) = q[1]
         /\ Len(q) \in Nat \ {0} /\ Len(Tail(q)) = Len(q) - 1
         /\ \A i \in 1 .. Len(Tail(q)) : Tail(q)[i] = q[i + 1] /\ i + 1 \in 1 .. Len(q)
         /\ Parted(q, 0) => Head(q) = "late" /\ Parted(Tail(q), 0)
         /\ \A n \in 0 .. Len(q) : Parted(q, n) =>
              /\ n = 0 <=> Head(q) = "late"
              /\ n # 0 => n - 1 \in 0 .. Len(Tail(q)) /\ Parted(Tail(q), n - 1)
<1>1. /\ Head(q) \in Hints /\ Tail(q) \in Seq(Hints) /\ Head(q) = q[1]
      /\ Len(q) \in Nat \ {0} /\ Len(Tail(q)) = Len(q) - 1
      /\ \A i \in 1 .. Len(Tail(q)) : Tail(q)[i] = q[i + 1] /\ i + 1 \in 1 .. Len(q)
  BY HeadTailProperties, LenProperties, EmptySeq
<1>2. ASSUME NEW n \in 0 .. Len(q), Parted(q, n)
      PROVE  /\ n = 0 <=> Head(q) = "late"
             /\ n = 0 => Parted(Tail(q), 0)
             /\ n # 0 => n - 1 \in 0 .. Len(Tail(q)) /\ Parted(Tail(q), n - 1)
  BY <1>1, <1>2 DEF Parted
<1> QED
  BY <1>1, <1>2

\* fresh_identity answers for the session as it is now (realtime_auth.py).
LEMMA LookUpSound ==
  ASSUME NEW v, NEW x, Sound(x, v),
         NEW a \in {IF x.session \in v THEN "yes" ELSE "no", "error"}, x.ask = "asked"
  PROVE  Sound([x EXCEPT !.ask = a], v)
<1> DEFINE y == [x EXCEPT !.ask = a]
<1>1. y \in StreamRecord
  BY Types DEF Sound, StreamRecord
<1>2. Places(y)
  BY DEF Sound, StreamRecord, Places
<1>3. Turns(y)
  BY DEF Sound, StreamRecord, Turns
<1>4. Hearing(y, v)
  BY DEF Sound, StreamRecord, Hearing, Late
<1> QED
  BY <1>1, <1>2, <1>3, <1>4 DEF Sound

\* A lease is taken for the request.
LEMMA AdmitSound ==
  ASSUME NEW v, NEW x, Sound(x, v), x.pc = "authorizing"
  PROVE  Sound([x EXCEPT !.pc = "subscribing", !.ask = "none", !.lease = TRUE], v)
<1> DEFINE y == [x EXCEPT !.pc = "subscribing", !.ask = "none", !.lease = TRUE]
<1>1. y \in StreamRecord
  BY Types DEF Sound, StreamRecord
<1>2. Places(y)
  BY DEF Sound, StreamRecord, Places
<1>3. Turns(y)
  BY DEF Sound, StreamRecord, Turns
<1>4. Hearing(y, v)
  BY DEF Sound, StreamRecord, Hearing, Late
<1> QED
  BY <1>1, <1>2, <1>3, <1>4 DEF Sound

\* The subscription starts with a resync.
LEMMA SubscribedSound ==
  ASSUME NEW v, NEW x, Sound(x, v), x.pc = "subscribing"
  PROVE  Sound([x EXCEPT !.pc = "checking", !.ask = "asked", !.sub = TRUE,
                         !.queue = <<"resync">>], v)
<1> DEFINE y == [x EXCEPT !.pc = "checking", !.ask = "asked", !.sub = TRUE, !.queue = <<"resync">>]
<1>1. y \in StreamRecord
  BY Types, QueueParts DEF Sound, StreamRecord, Hints
<1>2. Places(y)
  BY DEF Sound, StreamRecord, Places
<1>3. Turns(y)
  BY DEF Sound, StreamRecord, Turns
<1>4. Hearing(y, v)
  BY QueueParts DEF Sound, StreamRecord, Hearing, Late, Hints, Places, Turns
<1> QED
  BY <1>1, <1>2, <1>3, <1>4 DEF Sound

\* The second check passes.
LEMMA OpenedSound ==
  ASSUME NEW v, NEW x, Sound(x, v), x.pc = "checking"
  PROVE  Sound([x EXCEPT !.pc = "open", !.ask = "none", !.reply = "200"], v)
<1> DEFINE y == [x EXCEPT !.pc = "open", !.ask = "none", !.reply = "200"]
<1>1. y \in StreamRecord
  BY Types DEF Sound, StreamRecord
<1>2. Places(y)
  BY DEF Sound, StreamRecord, Places
<1>3. Turns(y)
  BY DEF Sound, StreamRecord, Turns, Places
<1>4. Hearing(y, v)
  BY DEF Sound, StreamRecord, Hearing, Late
<1> QED
  BY <1>1, <1>2, <1>3, <1>4 DEF Sound

\* The second check fails, or the client leaves a response that is not open.
LEMMA ClosedBeforeSound ==
  ASSUME NEW v, NEW x, Sound(x, v), x.pc \in {"checking", "refusing"},
         NEW pc \in {"refusing", "leaving"}
  PROVE  Sound([Closing(x) EXCEPT !.pc = pc], v)
<1> DEFINE y == [Closing(x) EXCEPT !.pc = pc]
<1>1. y \in StreamRecord
  BY Types DEF Sound, StreamRecord, Closing, Pcs, Cleanups
<1>2. Places(y)
  BY DEF Sound, StreamRecord, Places, Closing
<1>3. Turns(y)
  BY DEF Sound, StreamRecord, Turns, Closing
<1>4. Hearing(y, v)
  BY DEF Sound, StreamRecord, Hearing, Late, Closing
<1> QED
  BY <1>1, <1>2, <1>3, <1>4 DEF Sound

\* The server waits for the next frame.
LEMMA WaitingSound ==
  ASSUME NEW v, NEW x, Sound(x, v), x.pc = "open", x.iter = "idle", ~x.closed,
         Len(x.wire) < WireBound
  PROVE  Sound([x EXCEPT !.iter = "waiting",
                       !.read = IF @ = "none" THEN "pending" ELSE @], v)
<1> DEFINE y == [x EXCEPT !.iter = "waiting",
                       !.read = IF @ = "none" THEN "pending" ELSE @]
<1>1. y \in StreamRecord
  BY Types DEF Sound, StreamRecord
<1>2. Places(y)
  BY DEF Sound, StreamRecord, Places
<1>3. Turns(y)
  BY DEF Sound, StreamRecord, Turns
<1>4. Hearing(y, v)
  BY DEF Sound, StreamRecord, Hearing, Late
<1> QED
  BY <1>1, <1>2, <1>3, <1>4 DEF Sound

\* The read task takes an item.
LEMMA ReadSound ==
  ASSUME NEW v, NEW x, Sound(x, v), x.read = "pending", x.queue # <<>>
  PROVE  Sound([x EXCEPT !.read = Head(x.queue), !.queue = Tail(@)], v)
<1> DEFINE y == [x EXCEPT !.read = Head(x.queue), !.queue = Tail(@)]
<1>1. y \in StreamRecord
  BY Types, TailParts DEF Sound, StreamRecord
<1>2. Places(y)
  BY DEF Sound, StreamRecord, Places
<1>3. Turns(y)
  BY TailParts DEF Sound, StreamRecord, Turns, Hints
<1>4. Hearing(y, v)
  <2>1. PICK n \in 0 .. Len(x.queue) : Parted(x.queue, n)
    BY DEF Sound, Hearing
  <2>2. \E m \in 0 .. Len(y.queue) : Parted(y.queue, m)
    <3>1. CASE n = 0
      BY <2>1, <3>1, TailParts, LenProperties DEF Sound, StreamRecord
    <3>2. CASE n # 0
      BY <2>1, <3>2, TailParts DEF Sound, StreamRecord
    <3> QED
      BY <3>1, <3>2
  <2>3. Late(y) => Late(x)
    BY TailParts, LenProperties DEF Sound, StreamRecord, Late
  <2>4. "late" \in {y.frame, y.read} => Parted(y.queue, 0)
    BY <2>1, TailParts DEF Sound, StreamRecord, Hearing
  <2>5. y.frame = "late" => y.read \notin {"resync", "change"}
    BY TailParts DEF Sound, StreamRecord, Hearing
  <2>6. y.pc # "checking"
    BY DEF Sound, StreamRecord, Turns
  <2> QED
    BY <2>2, <2>3, <2>4, <2>5, <2>6 DEF Sound, StreamRecord, Hearing
<1> QED
  BY <1>1, <1>2, <1>3, <1>4 DEF Sound

\* The subscription breaks.
LEMMA ReadFailsSound ==
  ASSUME NEW v, NEW x, Sound(x, v), x.read = "pending"
  PROVE  Sound([x EXCEPT !.read = "failed"], v)
<1> DEFINE y == [x EXCEPT !.read = "failed"]
<1>1. y \in StreamRecord
  BY Types DEF Sound, StreamRecord
<1>2. Places(y)
  BY DEF Sound, StreamRecord, Places
<1>3. Turns(y)
  BY DEF Sound, StreamRecord, Turns
<1>4. Hearing(y, v)
  BY DEF Sound, StreamRecord, Hearing, Late
<1> QED
  BY <1>1, <1>2, <1>3, <1>4 DEF Sound

\* The iteration goes on with what was read, or with a heartbeat.
LEMMA WakeSound ==
  ASSUME NEW v, NEW x, Sound(x, v), x.iter = "waiting", x.read # "failed",
         NEW frame, frame = IF x.read = "pending" THEN "heartbeat" ELSE x.read
  PROVE  Sound([x EXCEPT !.read = IF x.read # "pending" THEN "none" ELSE @, !.ask = "asked",
                       !.iter = "asking", !.frame = frame], v)
<1> DEFINE y == [x EXCEPT !.read = IF x.read # "pending" THEN "none" ELSE @, !.ask = "asked",
                       !.iter = "asking", !.frame = frame]
<1>1. y \in StreamRecord
  BY Types DEF Sound, StreamRecord
<1>2. Places(y)
  BY DEF Sound, StreamRecord, Places
<1>3. Turns(y)
  BY Types DEF Sound, StreamRecord, Turns, Reads, Hints
<1>4. Hearing(y, v)
  BY Types DEF Sound, StreamRecord, Hearing, Late, Turns, Reads, Hints
<1> QED
  BY <1>1, <1>2, <1>3, <1>4 DEF Sound

\* A frame is written.
LEMMA SendsSound ==
  ASSUME NEW v, NEW x, Sound(x, v), x.iter = "asking", ~x.closed
  PROVE  Sound([x EXCEPT !.ask = "none", !.iter = "idle", !.frame = "none",
                       !.wire = Append(@, x.frame)], v)
<1> DEFINE y == [x EXCEPT !.ask = "none", !.iter = "idle", !.frame = "none",
                       !.wire = Append(@, x.frame)]
<1>1. y \in StreamRecord
  BY Types, AppendProperties DEF Sound, StreamRecord, Turns
<1>2. Places(y)
  BY DEF Sound, StreamRecord, Places
<1>3. Turns(y)
  BY DEF Sound, StreamRecord, Turns
<1>4. Hearing(y, v)
  BY DEF Sound, StreamRecord, Hearing, Late
<1> QED
  BY <1>1, <1>2, <1>3, <1>4 DEF Sound

\* __anext__ closes the stream and waits for the cleanup.
LEMMA LeavingSound ==
  ASSUME NEW v, NEW x, Sound(x, v),
         NEW frame \in {"none", "auth-required"}, frame = "auth-required" => x.session \notin v,
         x.pc = "open" \/ x.iter # "idle", NEW ask \in {x.ask, "none"}
  PROVE  Sound([Leaving(x, frame) EXCEPT !.ask = ask], v)
<1> DEFINE y == [Leaving(x, frame) EXCEPT !.ask = ask]
<1>1. y \in StreamRecord
  BY Types DEF Sound, StreamRecord, Leaving, Closing, Cleanups
<1>2. Places(y)
  BY DEF Sound, StreamRecord, Places, Turns, Leaving, Closing, Cleanups
<1>3. Turns(y)
  BY DEF Sound, StreamRecord, Turns, Leaving, Closing
<1>4. Hearing(y, v)
  BY DEF Sound, StreamRecord, Hearing, Late, Leaving, Closing
<1> QED
  BY <1>1, <1>2, <1>3, <1>4 DEF Sound

\* The iteration ends after the cleanup.
LEMMA ClosedSound ==
  ASSUME NEW v, NEW x, Sound(x, v), x.iter = "leaving", x.cleanup = "done",
         NEW w \in {x.wire, Append(x.wire, x.frame)}, x.frame = "none" => w = x.wire
  PROVE  Sound([x EXCEPT !.iter = "idle", !.frame = "none", !.wire = w], v)
<1> DEFINE y == [x EXCEPT !.iter = "idle", !.frame = "none", !.wire = w]
<1>1. y \in StreamRecord
  <2>1. w \in Seq(Frames)
    BY Types, AppendProperties DEF Sound, StreamRecord, Turns
  <2> QED
    BY <2>1, Types DEF Sound, StreamRecord
<1>2. Places(y)
  BY DEF Sound, StreamRecord, Places
<1>3. Turns(y)
  BY DEF Sound, StreamRecord, Turns
<1>4. Hearing(y, v)
  BY DEF Sound, StreamRecord, Hearing, Late
<1> QED
  BY <1>1, <1>2, <1>3, <1>4 DEF Sound

\* The 60 s are over.
LEMMA ExpireSound ==
  ASSUME NEW v, NEW x, Sound(x, v)
  PROVE  Sound([x EXCEPT !.due = TRUE], v)
<1> DEFINE y == [x EXCEPT !.due = TRUE]
<1>1. y \in StreamRecord
  BY Types DEF Sound, StreamRecord
<1>2. Places(y)
  BY DEF Sound, StreamRecord, Places
<1>3. Turns(y)
  BY DEF Sound, StreamRecord, Turns
<1>4. Hearing(y, v)
  BY DEF Sound, StreamRecord, Hearing, Late
<1> QED
  BY <1>1, <1>2, <1>3, <1>4 DEF Sound

\* The client leaves an open response to its iteration.
LEMMA AbandonedSound ==
  ASSUME NEW v, NEW x, Sound(x, v), x.pc = "open"
  PROVE  Sound([Closing(x) EXCEPT !.pc = "leaving"], v)
<1> DEFINE y == [Closing(x) EXCEPT !.pc = "leaving"]
<1>1. y \in StreamRecord
  BY Types DEF Sound, StreamRecord, Closing, Cleanups
<1>2. Places(y)
  BY DEF Sound, StreamRecord, Places, Closing
<1>3. Turns(y)
  BY DEF Sound, StreamRecord, Turns, Closing
<1>4. Hearing(y, v)
  BY DEF Sound, StreamRecord, Hearing, Late, Closing
<1> QED
  BY <1>1, <1>2, <1>3, <1>4 DEF Sound

\* The iteration of an open response is cancelled with it.
LEMMA CancelledSound ==
  ASSUME NEW v, NEW x, Sound(x, v), x.pc = "open"
  PROVE  Sound([Closing(x) EXCEPT !.pc = "leaving", !.ask = "none", !.iter = "idle",
                                !.frame = "none"], v)
<1> DEFINE y == [Closing(x) EXCEPT !.pc = "leaving", !.ask = "none", !.iter = "idle",
                                !.frame = "none"]
<1>1. y \in StreamRecord
  BY Types DEF Sound, StreamRecord, Closing, Cleanups
<1>2. Places(y)
  BY DEF Sound, StreamRecord, Places, Closing
<1>3. Turns(y)
  BY DEF Sound, StreamRecord, Turns, Closing
<1>4. Hearing(y, v)
  BY DEF Sound, StreamRecord, Hearing, Late, Closing
<1> QED
  BY <1>1, <1>2, <1>3, <1>4 DEF Sound

\* The cleanup gives the lease and the subscription back.
LEMMA CleanUpSound ==
  ASSUME NEW v, NEW x, Sound(x, v), x.cleanup = "running"
  PROVE  Sound([x EXCEPT !.cleanup = "done", !.lease = FALSE, !.sub = FALSE, !.queue = <<>>,
                       !.read = IF @ = "pending" THEN "failed" ELSE @], v)
<1> DEFINE y == [x EXCEPT !.cleanup = "done", !.lease = FALSE, !.sub = FALSE, !.queue = <<>>,
                       !.read = IF @ = "pending" THEN "failed" ELSE @]
<1>1. y \in StreamRecord
  BY Types, QueueParts DEF Sound, StreamRecord
<1>2. Places(y)
  BY DEF Sound, StreamRecord, Places
<1>3. Turns(y)
  BY DEF Sound, StreamRecord, Turns
<1>4. Hearing(y, v)
  BY QueueParts DEF Sound, StreamRecord, Hearing, Late, Turns, Places
<1> QED
  BY <1>1, <1>2, <1>3, <1>4 DEF Sound

\* The client takes a frame.
LEMMA TakeSound ==
  ASSUME NEW v, NEW x, Sound(x, v), x.wire # <<>>
  PROVE  Sound([x EXCEPT !.wire = Tail(@)], v)
<1> DEFINE y == [x EXCEPT !.wire = Tail(@)]
<1>1. y \in StreamRecord
  BY Types, HeadTailProperties DEF Sound, StreamRecord
<1>2. Places(y)
  BY DEF Sound, StreamRecord, Places
<1>3. Turns(y)
  BY StreamConstants, HeadTailProperties, LenProperties DEF Sound, StreamRecord, Turns
<1>4. Hearing(y, v)
  BY DEF Sound, StreamRecord, Hearing, Late
<1> QED
  BY <1>1, <1>2, <1>3, <1>4 DEF Sound

\* A request or a response that is over.
LEMMA EndedSound ==
  ASSUME NEW v, NEW x \in StreamRecord, NEW reply \in Replies
  PROVE  Sound(Ended(x, reply), v) /\ ~Ended(x, reply).lease
<1> DEFINE z == Fresh(NoSession, NoSession)
           y == [z EXCEPT !.pc = "ended", !.wire = x.wire, !.reply = reply]
<1>1. Sound(z, v) /\ z.pc = "none" /\ z.iter = "idle" /\ z.read = "none"
  BY FreshSound, Types DEF Fresh
<1> HIDE DEF z
<1>2. y \in StreamRecord
  BY <1>1, Types DEF Sound, StreamRecord
<1>3. Places(y) /\ ~y.lease
  BY <1>1 DEF Sound, StreamRecord, Places
<1>4. Turns(y)
  BY <1>1 DEF Sound, StreamRecord, Turns
<1>5. Hearing(y, v)
  BY <1>1 DEF Sound, StreamRecord, Hearing, Late
<1> QED
  BY <1>2, <1>3, <1>4, <1>5 DEF Sound, Ended, z

\* A hint joins the subscription, or takes the place of all that was dropped.
LEMMA PublishedSound ==
  ASSUME NEW t \in Streams, Sound(st[t], valid), NEW user
  PROVE  /\ Sound(Published(user, t), valid)
         /\ Published(user, t).lease = st[t].lease
         /\ Published(user, t).session = st[t].session
<1> DEFINE x == st[t]
           item(name) == IF x.session \in valid THEN name ELSE "late"
           q == IF Len(x.queue) < QueueBound THEN Append(x.queue, item("change"))
                                             ELSE <<item("resync")>>
           y == [x EXCEPT !.queue = q]
<1>1. Published(user, t) = IF ~x.sub \/ UserOf[x.session] # user THEN x ELSE y
  BY DEF Published
<1>2. ASSUME x.sub
      PROVE  Sound(y, valid) /\ y.lease = x.lease /\ y.session = x.session
  <2>1. item("change") \in Hints /\ item("resync") \in Hints
    BY DEF Hints
  <2>2. q \in Seq(Hints) /\ q # <<>>
    BY <2>1, AppendProperties, QueueParts DEF Sound, StreamRecord
  <2>3. (\E i \in 1 .. Len(q) : q[i] = "late") => Late(x) \/ x.session \notin valid
    <3>1. CASE Len(x.queue) < QueueBound
      <4>1. /\ Len(q) = Len(x.queue) + 1 /\ q[Len(x.queue) + 1] = item("change")
            /\ \A i \in 1 .. Len(x.queue) : q[i] = x.queue[i]
            /\ Len(x.queue) \in Nat
        BY <2>1, <3>1, AppendProperties, LenProperties DEF Sound, StreamRecord
      <4> HIDE DEF q
      <4> QED
        BY <4>1 DEF Late
    <3>2. CASE ~(Len(x.queue) < QueueBound)
      <4>1. q = <<item("resync")>>
        BY <3>2
      <4>2. Len(q) = 1 /\ q[1] = item("resync")
        BY <2>1, <4>1, QueueParts
      <4> HIDE DEF q
      <4> QED
        BY <4>2
    <3> QED
      BY <3>1, <3>2
  <2>4. \E n \in 0 .. Len(q) :
          Parted(q, n) /\ (Parted(x.queue, 0) /\ x.session \notin valid => n = 0)
    <3>1. PICK n \in 0 .. Len(x.queue) : Parted(x.queue, n)
      BY DEF Sound, Hearing
    <3>2. CASE Len(x.queue) < QueueBound
      <4>1. /\ Len(q) = Len(x.queue) + 1 /\ q[Len(x.queue) + 1] = item("change")
            /\ \A i \in 1 .. Len(x.queue) : q[i] = x.queue[i]
            /\ Len(x.queue) \in Nat
        BY <2>1, <3>2, AppendProperties, LenProperties DEF Sound, StreamRecord
      <4> HIDE DEF q
      <4>2. CASE x.session \in valid
        <5>1. \A i \in 1 .. Len(x.queue) : x.queue[i] # "late"
          BY <4>2 DEF Sound, Hearing, Late
        <5>2. Parted(q, Len(q))
          BY <4>1, <4>2, <5>1 DEF Parted
        <5> QED
          BY <4>1, <4>2, <5>2
      <4>3. CASE x.session \notin valid
        <5>1. ASSUME NEW m \in 0 .. Len(x.queue), Parted(x.queue, m)
              PROVE  Parted(q, m)
          <6>1. q[Len(x.queue) + 1] = "late" /\ m < Len(x.queue) + 1
            BY <4>1, <4>3
          <6>2. \A i \in 1 .. Len(x.queue) : q[i] = "late" <=> i > m
            BY <4>1, <5>1 DEF Parted
          <6>3. ASSUME NEW i \in 1 .. Len(q)
                PROVE  i \in 1 .. Len(x.queue) \/ i = Len(x.queue) + 1
            BY <4>1
          <6> QED
            BY <6>1, <6>2, <6>3 DEF Parted
        <5> QED
          BY <3>1, <4>1, <5>1
      <4> QED
        BY <4>2, <4>3
    <3>3. CASE ~(Len(x.queue) < QueueBound)
      <4>1. q = <<item("resync")>>
        BY <3>3
      <4>2. Len(q) = 1 /\ Parted(q, IF item("resync") = "late" THEN 0 ELSE 1)
        BY <2>1, <4>1, QueueParts
      <4> HIDE DEF q
      <4> QED
        BY <4>2
    <3> QED
      BY <3>2, <3>3
  <2>5. y \in StreamRecord /\ y.lease = x.lease /\ y.session = x.session /\ y.queue = q
    BY <2>2 DEF Sound, StreamRecord
  <2>6. Places(y)
    BY DEF Sound, StreamRecord, Places
  <2>7. Turns(y)
    BY DEF Sound, StreamRecord, Turns
  <2> HIDE DEF q
  <2>8. Hearing(y, valid)
    <3>1. Late(y) => Late(x) \/ x.session \notin valid
      BY <2>3 DEF Sound, StreamRecord, Late
    <3>2. "late" \in {x.frame, x.read} => x.session \notin valid /\ Parted(x.queue, 0)
      BY DEF Sound, Hearing, Late
    <3> QED
      BY <1>2, <2>2, <2>4, <3>1, <3>2 DEF Sound, StreamRecord, Hearing
  <2> QED
    BY <2>5, <2>6, <2>7, <2>8 DEF Sound
<1> QED
  BY <1>1, <1>2

-----------------------------------------------------------------------------
\* One stream moves and the others do not.
LEMMA StepSound ==
  ASSUME IInv, NEW t \in Streams, NEW y, Sound(y, valid), Step(t, y), UNCHANGED valid,
         total' \in Nat, counts' \in [Users -> Nat]
  PROVE  /\ TypeOK' /\ st'[t] = y /\ \A u \in Streams \ {t} : st'[u] = st[u]
         /\ \A u \in Streams : Sound(st'[u], valid')
<1>1. /\ st' \in [Streams -> StreamRecord]
      /\ st'[t] = y /\ \A u \in Streams \ {t} : st'[u] = st[u]
  BY DEF IInv, TypeOK, Step, Sound
<1> QED
  BY <1>1 DEF IInv, TypeOK

\* No lease is taken or given back.
LEMMA Quiet ==
  ASSUME IInv, NEW t \in Streams, NEW y, Sound(y, valid), Step(t, y),
         UNCHANGED <<total, counts, valid>>,
         y.lease = st[t].lease, y.lease => y.session = st[t].session
  PROVE  IInv'
<1>1. /\ TypeOK' /\ st'[t] = y /\ \A u \in Streams \ {t} : st'[u] = st[u]
      /\ \A u \in Streams : Sound(st'[u], valid')
  BY StepSound DEF IInv, TypeOK
<1>2. Leasing' = Leasing
  BY <1>1 DEF Leasing
<1>3. \A user \in Users : LeasingOf(user)' = LeasingOf(user)
  BY <1>1 DEF Leasing, LeasingOf, User
<1>4. \A u \in Streams : st'[u].sub => st'[u].lease
  BY <1>1 DEF Sound, Places
<1> QED
  BY <1>1, <1>2, <1>3, <1>4 DEF IInv, CapacityKept

\* A request takes a lease while there is room for its user.
LEMMA Takes ==
  ASSUME IInv, NEW t \in Streams, NEW y, Sound(y, valid), Step(t, y), UNCHANGED valid,
         ~st[t].lease, y.lease, y.session = st[t].session, y.session \in Sessions, Room(User(t)),
         total' = total + 1, counts' = [counts EXCEPT ![User(t)] = @ + 1]
  PROVE  IInv'
<1>0. PICK me \in Users : me = User(t)
  BY StreamConstants DEF User
<1>1. /\ TypeOK' /\ st'[t] = y /\ \A u \in Streams \ {t} : st'[u] = st[u]
      /\ \A u \in Streams : Sound(st'[u], valid')
  <2>1. total' \in Nat /\ counts' \in [Users -> Nat]
    BY <1>0 DEF IInv, TypeOK
  <2> QED
    BY <2>1, StepSound
<1>2. Leasing' = Leasing \cup {t} /\ t \notin Leasing
  BY <1>1 DEF Leasing
<1>3. /\ LeasingOf(me)' = LeasingOf(me) \cup {t} /\ t \notin LeasingOf(me)
      /\ \A user \in Users \ {me} : LeasingOf(user)' = LeasingOf(user)
  BY <1>0, <1>1 DEF Leasing, LeasingOf, User
<1>4. /\ IsFiniteSet(Leasing) /\ IsFiniteSet(LeasingOf(me))
  BY FS_Subset DEF IInv, LeasingOf
<1>5. /\ IsFiniteSet(Leasing') /\ Cardinality(Leasing') = Cardinality(Leasing) + 1
      /\ Cardinality(LeasingOf(me)') = Cardinality(LeasingOf(me)) + 1
  BY <1>2, <1>3, <1>4, FS_AddElement
<1>6. total' = Cardinality(Leasing') /\ total' <= MaxTotal
  BY <1>5, StreamConstants DEF IInv, TypeOK, CapacityKept, Room
<1>7. \A user \in Users : /\ counts'[user] = Cardinality(LeasingOf(user)')
                          /\ counts'[user] <= MaxPerUser
  <2>1. counts' = [counts EXCEPT ![me] = @ + 1] /\ counts[me] < MaxPerUser
    BY <1>0 DEF Room
  <2>2. counts' \in [Users -> Nat] /\ counts[me] = Cardinality(LeasingOf(me))
    BY <1>1 DEF TypeOK, IInv, CapacityKept
  <2>3. counts'[me] = Cardinality(LeasingOf(me)') /\ counts'[me] <= MaxPerUser
    BY <1>5, <2>1, <2>2, StreamConstants DEF IInv, TypeOK
  <2>4. \A user \in Users \ {me} : counts'[user] = counts[user]
    BY <2>1 DEF IInv, TypeOK
  <2> QED
    BY <1>3, <2>3, <2>4 DEF IInv, CapacityKept
<1>8. \A u \in Streams : st'[u].sub => st'[u].lease
  BY <1>1 DEF Sound, Places
<1> QED
  BY <1>1, <1>5, <1>6, <1>7, <1>8 DEF IInv, CapacityKept

\* A lease goes back once.
LEMMA Gives ==
  ASSUME IInv, NEW t \in Streams, NEW y, Sound(y, valid), Step(t, y), UNCHANGED valid,
         st[t].lease, ~y.lease, GiveBack(t)
  PROVE  IInv'
<1>0. PICK me \in Users : me = User(t)
  BY StreamConstants DEF IInv, Sound, Places, User
<1>2. /\ t \in Leasing /\ t \in LeasingOf(me)
      /\ IsFiniteSet(Leasing) /\ IsFiniteSet(LeasingOf(me))
  BY <1>0, FS_Subset DEF IInv, Leasing, LeasingOf
<1>3. total \in Nat \ {0} /\ counts[me] \in Nat \ {0}
  BY <1>0, <1>2, FS_EmptySet, FS_CardinalityType DEF IInv, TypeOK, CapacityKept
<1>4. /\ TypeOK' /\ st'[t] = y /\ \A u \in Streams \ {t} : st'[u] = st[u]
      /\ \A u \in Streams : Sound(st'[u], valid')
  <2>1. total' \in Nat /\ counts' \in [Users -> Nat]
    BY <1>0, <1>3 DEF IInv, TypeOK, GiveBack
  <2> QED
    BY <2>1, StepSound
<1>5. Leasing' = Leasing \ {t}
  BY <1>4 DEF Leasing
<1>6. /\ LeasingOf(me)' = LeasingOf(me) \ {t}
      /\ \A user \in Users \ {me} : LeasingOf(user)' = LeasingOf(user)
  BY <1>0, <1>4 DEF Leasing, LeasingOf, User
<1>7. /\ IsFiniteSet(Leasing') /\ Cardinality(Leasing') = Cardinality(Leasing) - 1
      /\ Cardinality(LeasingOf(me)') = Cardinality(LeasingOf(me)) - 1
  BY <1>2, <1>5, <1>6, FS_RemoveElement
<1>8. total' = Cardinality(Leasing') /\ total' <= MaxTotal
  BY <1>7, StreamConstants DEF IInv, TypeOK, CapacityKept, GiveBack
<1>9. \A user \in Users : /\ counts'[user] = Cardinality(LeasingOf(user)')
                          /\ counts'[user] <= MaxPerUser
  <2>1. counts' = [counts EXCEPT ![me] = @ - 1]
    BY <1>0 DEF GiveBack
  <2>2. counts' \in [Users -> Nat] /\ counts[me] = Cardinality(LeasingOf(me))
        /\ counts[me] <= MaxPerUser
    BY <1>4 DEF TypeOK, IInv, CapacityKept
  <2>3. counts'[me] = Cardinality(LeasingOf(me)') /\ counts'[me] <= MaxPerUser
    BY <1>3, <1>7, <2>1, <2>2, StreamConstants DEF IInv, TypeOK
  <2>4. \A user \in Users \ {me} : counts'[user] = counts[user]
    BY <2>1 DEF IInv, TypeOK
  <2> QED
    BY <1>6, <2>3, <2>4 DEF IInv, CapacityKept
<1>10. \A u \in Streams : st'[u].sub => st'[u].lease
  BY <1>4 DEF Sound, Places
<1> QED
  BY <1>4, <1>7, <1>8, <1>9, <1>10 DEF IInv, CapacityKept

\* The record of a stream, as the lemmas above take it.
LEMMA StreamIs ==
  ASSUME IInv, NEW t \in Streams
  PROVE  Sound(st[t], valid) /\ st[t] \in StreamRecord
BY DEF IInv, Sound

LEMMA InitHolds == Init => IInv
<1> SUFFICES ASSUME Init PROVE IInv
  OBVIOUS
<1>1. Sound(Fresh(NoSession, NoSession), valid) /\ ~Fresh(NoSession, NoSession).lease
      /\ ~Fresh(NoSession, NoSession).sub
  BY FreshSound, Types DEF Fresh
<1>2. \A t \in Streams : st[t] = Fresh(NoSession, NoSession)
  BY DEF Init
<1>3. TypeOK
  BY <1>1, <1>2 DEF Init, TypeOK, Sound
<1>4. Leasing = {} /\ \A u \in Users : LeasingOf(u) = {}
  BY <1>1, <1>2 DEF Leasing, LeasingOf
<1>5. IsFiniteSet(Leasing) /\ CapacityKept
  BY <1>1, <1>2, <1>4, FS_EmptySet, StreamConstants DEF Init, CapacityKept
<1> QED
  BY <1>1, <1>2, <1>3, <1>5 DEF IInv

LEMMA ConnectKeeps ==
  ASSUME IInv, NEW t \in Streams, NEW cookie \in Sessions, NEW claim \in Sessions,
         Connect(t, cookie, claim)
  PROVE  IInv'
<1> DEFINE y == [Fresh(cookie, claim) EXCEPT !.pc = "authorizing", !.ask = "asked"]
<1>1. Sound(y, valid) /\ ~y.lease
  BY ConnectSound DEF Fresh
<1>2. ~st[t].lease
  BY StreamIs DEF Connect, Sound, Places
<1> QED
  BY <1>1, <1>2, StreamIs, Quiet DEF Connect, Sound, StreamRecord

LEMMA LookUpKeeps ==
  ASSUME IInv, NEW t \in Streams, LookUp(t)
  PROVE  IInv'
<1>1. PICK a \in {IF st[t].session \in valid THEN "yes" ELSE "no", "error"} :
        Step(t, [st[t] EXCEPT !.ask = a])
  BY DEF LookUp
<1>2. Sound([st[t] EXCEPT !.ask = a], valid)
  BY StreamIs, LookUpSound DEF LookUp
<1> QED
  BY <1>1, <1>2, StreamIs, Quiet DEF LookUp, StreamRecord

\* A request that holds nothing is over.
LEMMA EndingKeeps ==
  ASSUME IInv, NEW t \in Streams, NEW reply \in Replies, Step(t, Ended(st[t], reply)),
         ~st[t].lease, UNCHANGED <<total, counts, valid>>
  PROVE  IInv'
<1>1. Sound(Ended(st[t], reply), valid) /\ ~Ended(st[t], reply).lease
  BY StreamIs, EndedSound
<1> QED
  BY <1>1, StreamIs, Quiet DEF Sound, StreamRecord

\* A request that holds a lease is over before it has a response.
LEMMA GivingUpKeeps ==
  ASSUME IInv, NEW t \in Streams, NEW reply \in Replies, Step(t, Ended(st[t], reply)),
         st[t].pc = "subscribing", GiveBack(t), UNCHANGED valid
  PROVE  IInv'
<1>1. Sound(Ended(st[t], reply), valid) /\ ~Ended(st[t], reply).lease
  BY StreamIs, EndedSound
<1>2. st[t].lease
  BY StreamIs DEF Sound, Places
<1> QED
  BY <1>1, <1>2, Gives

LEMMA AuthorizedKeeps ==
  ASSUME IInv, NEW t \in Streams, Authorized(t)
  PROVE  IInv'
<1> DEFINE x == st[t]
           granted == x.ask = "yes" /\ x.claim = x.session
           y == [x EXCEPT !.pc = "subscribing", !.ask = "none", !.lease = TRUE]
<1>1. x.pc = "authorizing" /\ Answered(t) /\ UNCHANGED valid /\ ~x.lease /\ x.session \in Sessions
  BY StreamIs DEF Authorized, Sound, Places
<1>2. CASE granted /\ Room(User(t)) /\ Step(t, y) /\ total' = total + 1
           /\ counts' = [counts EXCEPT ![User(t)] = @ + 1]
  <2>1. Sound(y, valid)
    BY <1>1, StreamIs, AdmitSound
  <2>2. y.lease /\ y.session = x.session
    BY StreamIs DEF StreamRecord
  <2> HIDE DEF y
  <2> QED
    BY <1>1, <1>2, <2>1, <2>2, Takes
<1>3. CASE /\ ~granted \/ ~Room(User(t))
           /\ Step(t, Ended(x, CASE x.ask = "no" -> "401"
                                 [] x.ask = "yes" /\ x.claim # x.session -> "403"
                                 [] x.ask = "error" \/ granted -> "503"))
           /\ UNCHANGED <<total, counts>>
  <2>1. x.ask \in {"yes", "no", "error"}
    BY <1>1, StreamIs DEF StreamRecord, Answers, Answered
  <2>2. PICK reply \in Replies : Step(t, Ended(x, reply))
    BY <1>3, <2>1, Types
  <2> QED
    BY <1>1, <1>3, <2>2, EndingKeeps
<1> QED
  BY <1>2, <1>3 DEF Authorized

LEMMA SubscribedKeeps ==
  ASSUME IInv, NEW t \in Streams, Subscribed(t)
  PROVE  IInv'
<1>1. Sound([st[t] EXCEPT !.pc = "checking", !.ask = "asked", !.sub = TRUE,
                          !.queue = <<"resync">>], valid)
  BY StreamIs, SubscribedSound DEF Subscribed
<1> QED
  BY <1>1, StreamIs, Quiet DEF Subscribed, StreamRecord

LEMMA OpenedKeeps ==
  ASSUME IInv, NEW t \in Streams, Opened(t)
  PROVE  IInv'
<1>1. CASE st[t].ask = "yes"
  <2>1. Sound([st[t] EXCEPT !.pc = "open", !.ask = "none", !.reply = "200"], valid)
    BY StreamIs, OpenedSound DEF Opened
  <2> QED
    BY <1>1, <2>1, StreamIs, Quiet DEF Opened, StreamRecord
<1>2. CASE st[t].ask # "yes"
  <2>1. Sound([Closing(st[t]) EXCEPT !.pc = "refusing"], valid)
    BY StreamIs, ClosedBeforeSound DEF Opened
  <2> QED
    BY <1>2, <2>1, StreamIs, Quiet DEF Opened, StreamRecord, Closing
<1> QED
  BY <1>1, <1>2

LEMMA RefusedKeeps ==
  ASSUME IInv, NEW t \in Streams, Refused(t)
  PROVE  IInv'
<1>1. ~st[t].lease
  BY StreamIs DEF Refused, Sound, Places
<1> QED
  BY <1>1, Types, EndingKeeps DEF Refused

LEMMA IterateKeeps ==
  ASSUME IInv, NEW t \in Streams, Iterate(t)
  PROVE  IInv'
<1> DEFINE x == st[t]
<1>0. /\ x.pc = "open" /\ x.iter = "idle" /\ Len(x.wire) < WireBound
      /\ UNCHANGED <<total, counts, valid>> /\ Sound(x, valid) /\ x \in StreamRecord
  BY StreamIs DEF Iterate
<1>1. CASE x.closed
  <2>1. ~x.lease
    BY <1>0, <1>1 DEF Sound, Turns, Places
  <2>2. Step(t, Ended(x, "200"))
    BY <1>1 DEF Iterate
  <2> QED
    BY <1>0, <2>1, <2>2, Types, EndingKeeps
<1>2. CASE ~x.closed /\ x.due
  <2>1. Sound([Leaving(x, "none") EXCEPT !.ask = x.ask], valid)
    BY <1>0, LeavingSound
  <2>2. Leaving(x, "none") = [Leaving(x, "none") EXCEPT !.ask = x.ask]
    BY <1>0 DEF Leaving, Closing, StreamRecord
  <2>3. Step(t, Leaving(x, "none"))
    BY <1>2 DEF Iterate
  <2> QED
    BY <1>0, <2>1, <2>2, <2>3, Quiet DEF StreamRecord, Leaving, Closing
<1>3. CASE ~x.closed /\ ~x.due
  <2> DEFINE y == [x EXCEPT !.iter = "waiting", !.read = IF @ = "none" THEN "pending" ELSE @]
  <2>1. Sound(y, valid)
    BY <1>0, <1>3, WaitingSound
  <2>2. Step(t, y)
    BY <1>3 DEF Iterate
  <2> QED
    BY <1>0, <2>1, <2>2, Quiet DEF StreamRecord
<1> QED
  BY <1>1, <1>2, <1>3

LEMMA ReadKeeps ==
  ASSUME IInv, NEW t \in Streams, Read(t) \/ ReadFails(t)
  PROVE  IInv'
<1>1. CASE Read(t)
  <2>1. Sound([st[t] EXCEPT !.read = Head(st[t].queue), !.queue = Tail(@)], valid)
    BY <1>1, StreamIs, ReadSound DEF Read
  <2> QED
    BY <1>1, <2>1, StreamIs, Quiet DEF Read, StreamRecord
<1>2. CASE ReadFails(t)
  <2>1. Sound([st[t] EXCEPT !.read = "failed"], valid)
    BY <1>2, StreamIs, ReadFailsSound DEF ReadFails
  <2> QED
    BY <1>2, <2>1, StreamIs, Quiet DEF ReadFails, StreamRecord
<1> QED
  BY <1>1, <1>2

LEMMA WakeKeeps ==
  ASSUME IInv, NEW t \in Streams, Wake(t)
  PROVE  IInv'
<1> DEFINE x == st[t]
           done == x.read # "pending"
           frame == IF done THEN x.read ELSE "heartbeat"
<1>0. /\ x.iter = "waiting" /\ UNCHANGED <<total, counts, valid>>
      /\ Sound(x, valid) /\ x \in StreamRecord
  BY StreamIs DEF Wake
<1>1. CASE x.read = "failed" \/ x.due
  <2>1. Sound([Leaving(x, "none") EXCEPT !.ask = x.ask], valid)
    BY <1>0, LeavingSound
  <2>2. Leaving(x, "none") = [Leaving(x, "none") EXCEPT !.ask = x.ask]
    BY <1>0 DEF Leaving, Closing, StreamRecord
  <2>3. Step(t, Leaving(x, "none"))
    BY <1>1 DEF Wake
  <2> QED
    BY <1>0, <2>1, <2>2, <2>3, Quiet DEF StreamRecord, Leaving, Closing
<1>2. CASE x.read # "failed" /\ ~x.due
  <2> DEFINE y == [x EXCEPT !.read = IF done THEN "none" ELSE @, !.ask = "asked",
                            !.iter = "asking", !.frame = frame]
  <2>1. Sound(y, valid)
    BY <1>0, <1>2, WakeSound
  <2>2. Step(t, y)
    BY <1>2 DEF Wake
  <2> QED
    BY <1>0, <2>1, <2>2, Quiet DEF StreamRecord
<1> QED
  BY <1>1, <1>2

LEMMA CheckedKeeps ==
  ASSUME IInv, NEW t \in Streams, Checked(t)
  PROVE  IInv'
<1> DEFINE x == st[t]
           sends == ~x.closed /\ ~x.due /\ x.ask = "yes"
<1>0. /\ x.iter = "asking" /\ x.ask \in {"yes", "no", "error"}
      /\ UNCHANGED <<total, counts, valid>> /\ Sound(x, valid) /\ x \in StreamRecord
  BY StreamIs DEF Checked, Answered, StreamRecord, Answers
<1>1. CASE sends
  <2> DEFINE y == [x EXCEPT !.ask = "none", !.iter = "idle", !.frame = "none",
                            !.wire = Append(@, x.frame)]
  <2>1. Sound(y, valid)
    BY <1>0, <1>1, SendsSound
  <2>2. Step(t, y)
    BY <1>1 DEF Checked
  <2> QED
    BY <1>0, <2>1, <2>2, Quiet DEF StreamRecord
<1>2. ASSUME NEW frame \in {"none", "auth-required"}, frame = "auth-required" => x.ask = "no",
             Step(t, [Leaving(x, frame) EXCEPT !.ask = "none"])
      PROVE  IInv'
  <2>1. frame = "auth-required" => x.session \notin valid
    BY <1>0, <1>2 DEF Sound, Hearing
  <2>2. Sound([Leaving(x, frame) EXCEPT !.ask = "none"], valid)
    BY <1>0, <2>1, LeavingSound
  <2> QED
    BY <1>0, <1>2, <2>2, Quiet DEF StreamRecord, Leaving, Closing
<1>3. CASE ~sends /\ ~x.closed /\ ~x.due /\ x.ask = "no"
  BY <1>2, <1>3 DEF Checked
<1>4. CASE ~sends /\ (x.closed \/ x.due \/ x.ask = "error")
  BY <1>2, <1>4 DEF Checked
<1> QED
  BY <1>0, <1>1, <1>3, <1>4

LEMMA ClosedKeeps ==
  ASSUME IInv, NEW t \in Streams, Closed(t)
  PROVE  IInv'
<1> DEFINE x == st[t]
           w == IF x.frame = "none" THEN x.wire ELSE Append(x.wire, x.frame)
           y == [x EXCEPT !.iter = "idle", !.frame = "none", !.wire = w]
<1>1. Sound(y, valid)
  BY StreamIs, ClosedSound DEF Closed
<1>2. Step(t, y)
  BY DEF Closed
<1> QED
  BY <1>1, <1>2, StreamIs, Quiet DEF Closed, StreamRecord

LEMMA ExpireKeeps ==
  ASSUME IInv, NEW t \in Streams, Expire(t) \/ Take(t)
  PROVE  IInv'
<1>1. CASE Expire(t)
  <2>1. Sound([st[t] EXCEPT !.due = TRUE], valid)
    BY StreamIs, ExpireSound
  <2> QED
    BY <1>1, <2>1, StreamIs, Quiet DEF Expire, StreamRecord
<1>2. CASE Take(t)
  <2>1. Sound([st[t] EXCEPT !.wire = Tail(@)], valid)
    BY <1>2, StreamIs, TakeSound DEF Take
  <2> QED
    BY <1>2, <2>1, StreamIs, Quiet DEF Take, StreamRecord
<1> QED
  BY <1>1, <1>2

LEMMA DisconnectKeeps ==
  ASSUME IInv, NEW t \in Streams, Disconnect(t)
  PROVE  IInv'
<1> DEFINE x == st[t]
<1>0. Sound(x, valid) /\ x \in StreamRecord /\ x.reply \in Replies /\ UNCHANGED valid
  BY StreamIs DEF StreamRecord, Disconnect
<1>1. CASE x.pc = "authorizing" /\ Step(t, Ended(x, x.reply)) /\ UNCHANGED <<total, counts>>
  <2>1. ~x.lease
    BY <1>0, <1>1 DEF Sound, Places
  <2> QED
    BY <1>0, <1>1, <2>1, EndingKeeps
<1>2. CASE x.pc = "subscribing" /\ Step(t, Ended(x, x.reply)) /\ GiveBack(t)
  BY <1>0, <1>2, GivingUpKeeps
<1>3. CASE /\ x.pc \in {"checking", "refusing"}
           /\ Step(t, [Closing(x) EXCEPT !.pc = "leaving"]) /\ UNCHANGED <<total, counts>>
  <2>1. Sound([Closing(x) EXCEPT !.pc = "leaving"], valid)
    BY <1>0, <1>3, ClosedBeforeSound
  <2> QED
    BY <1>0, <1>3, <2>1, Quiet DEF StreamRecord, Closing
<1>4. CASE /\ x.pc = "open" /\ Step(t, [Closing(x) EXCEPT !.pc = "leaving"])
           /\ UNCHANGED <<total, counts>>
  <2>1. Sound([Closing(x) EXCEPT !.pc = "leaving"], valid)
    BY <1>0, <1>4, AbandonedSound
  <2> QED
    BY <1>0, <1>4, <2>1, Quiet DEF StreamRecord, Closing
<1>5. CASE /\ x.pc = "open"
           /\ Step(t, [Closing(x) EXCEPT !.pc = "leaving", !.ask = "none",
                                         !.iter = "idle", !.frame = "none"])
           /\ UNCHANGED <<total, counts>>
  <2>1. Sound([Closing(x) EXCEPT !.pc = "leaving", !.ask = "none", !.iter = "idle",
                                 !.frame = "none"], valid)
    BY <1>0, <1>5, CancelledSound
  <2> QED
    BY <1>0, <1>5, <2>1, Quiet DEF StreamRecord, Closing
<1> QED
  BY <1>1, <1>2, <1>3, <1>4, <1>5 DEF Disconnect

LEMMA CleanUpKeeps ==
  ASSUME IInv, NEW t \in Streams, CleanUp(t)
  PROVE  IInv'
<1> DEFINE x == st[t]
           y == [x EXCEPT !.cleanup = "done", !.lease = FALSE, !.sub = FALSE, !.queue = <<>>,
                          !.read = IF @ = "pending" THEN "failed" ELSE @]
<1>1. Sound(y, valid)
  BY StreamIs, CleanUpSound DEF CleanUp
<1>2. x.lease
  BY StreamIs DEF CleanUp, Sound, Places, StreamRecord, Pcs
<1>3. ~y.lease
  BY StreamIs DEF StreamRecord
<1>4. Step(t, y) /\ GiveBack(t) /\ UNCHANGED valid
  BY DEF CleanUp
<1> QED
  BY <1>1, <1>2, <1>3, <1>4, Gives

LEMMA LeftKeeps ==
  ASSUME IInv, NEW t \in Streams, Left(t)
  PROVE  IInv'
<1>1. ~st[t].lease /\ st[t].reply \in Replies
  BY StreamIs DEF Left, Sound, Places, StreamRecord
<1> QED
  BY <1>1, EndingKeeps DEF Left

LEMMA PublishKeeps ==
  ASSUME IInv, NEW user \in Users, Publish(user)
  PROVE  IInv'
<1>1. \A t \in Streams : /\ Sound(st'[t], valid) /\ st'[t].lease = st[t].lease
                         /\ st'[t].session = st[t].session
  BY StreamIs, PublishedSound DEF Publish
<1>2. TypeOK'
  BY <1>1 DEF IInv, TypeOK, Publish, Sound
<1>3. Leasing' = Leasing /\ \A u \in Users : LeasingOf(u)' = LeasingOf(u)
  BY <1>1 DEF Leasing, LeasingOf, User
<1>4. \A t \in Streams : st'[t].sub => st'[t].lease
  BY <1>1 DEF Sound, Places
<1> QED
  BY <1>1, <1>2, <1>3, <1>4 DEF IInv, CapacityKept, Publish

LEMMA RevokeKeeps ==
  ASSUME IInv, NEW session \in Sessions, Revoke(session)
  PROVE  IInv'
<1>1. \A t \in Streams : Sound(st[t], valid')
  BY StreamIs DEF Revoke, Sound, Hearing
<1> QED
  BY <1>1 DEF IInv, TypeOK, Revoke, CapacityKept, Leasing, LeasingOf, User

LEMMA IdleKeeps ==
  ASSUME IInv, UNCHANGED svars
  PROVE  IInv'
<1>1. st' = st /\ total' = total /\ counts' = counts /\ valid' = valid
  BY DEF svars
<1>2. Leasing' = Leasing /\ \A u \in Users : LeasingOf(u)' = LeasingOf(u)
  BY <1>1 DEF Leasing, LeasingOf, User
<1> QED
  BY <1>1, <1>2 DEF IInv, TypeOK, CapacityKept

LEMMA NextKeeps == IInv /\ [Next]_svars => IInv'
<1> SUFFICES ASSUME IInv, [Next]_svars PROVE IInv'
  OBVIOUS
<1>1. ASSUME NEW t \in Streams, Unconfigured(t) \/ SubscribeFails(t)
      PROVE  IInv'
  <2>1. CASE Unconfigured(t)
    <3>1. ~st[t].lease
      BY <2>1, StreamIs DEF Unconfigured, Sound, Places
    <3> QED
      BY <2>1, <3>1, Types, EndingKeeps DEF Unconfigured
  <2>2. CASE SubscribeFails(t)
    BY <2>2, Types, GivingUpKeeps DEF SubscribeFails
  <2> QED
    BY <1>1, <2>1, <2>2
<1>2. ASSUME NEW t \in Streams, Admission(t)
      PROVE  IInv'
  BY <1>1, <1>2, AuthorizedKeeps, SubscribedKeeps, OpenedKeeps, RefusedKeeps DEF Admission
<1>3. ASSUME NEW t \in Streams, Iteration(t)
      PROVE  IInv'
  BY <1>3, IterateKeeps, WakeKeeps, CheckedKeeps, ClosedKeeps DEF Iteration
<1>4. ASSUME NEW t \in Streams, Ending(t)
      PROVE  IInv'
  BY <1>4, CleanUpKeeps, LeftKeeps DEF Ending
<1> QED
  BY <1>1, <1>2, <1>3, <1>4, ConnectKeeps, LookUpKeeps, ReadKeeps, ExpireKeeps, DisconnectKeeps,
     PublishKeeps, RevokeKeeps, IdleKeeps DEF Next

\* The inductive invariant of the streams, the counters and the sessions.
THEOREM Invariance == Spec => []IInv
BY InitHolds, NextKeeps, PTL DEF Spec

\* The counters are the leases that are out, within the limits, and only who
\* holds a lease is subscribed (realtime_stream.py:51).
THEOREM CapacityAlways == Spec => []CapacityKept
<1>1. IInv => CapacityKept
  BY DEF IInv
<1> QED
  BY <1>1, Invariance, PTL

\* Every field of a stream holds a value of its type, and no counter is negative.
THEOREM TypeCorrect == Spec => []TypeOK
<1>1. IInv => TypeOK
  BY DEF IInv
<1> QED
  BY <1>1, Invariance, PTL

-----------------------------------------------------------------------------
\* What a stream owes, and what becomes of it.
InTimeHints == {"resync", "change"}

LEMMA HeldIs ==
  /\ \A h : Held(h) \in Seq(InTimeHints)
  /\ \A h \in InTimeHints : Held(h) = <<h>>
  /\ \A h : h \notin InTimeHints => Held(h) = <<>>
<1>1. ASSUME NEW h \in InTimeHints PROVE Held(h) = <<h>> /\ Held(h) \in Seq(InTimeHints)
  BY <1>1 DEF Held, InTimeHints
<1>2. ASSUME NEW h, h \notin InTimeHints PROVE Held(h) = <<>> /\ Held(h) \in Seq(InTimeHints)
  BY <1>2 DEF Held, InTimeHints
<1> QED
  BY <1>1, <1>2

\* There is only one way to part a queue.
LEMMA InTimeIs ==
  ASSUME NEW q \in Seq(Hints), NEW n \in 0 .. Len(q), Parted(q, n)
  PROVE  /\ InTime(q) = SubSeq(q, 1, n) /\ InTime(q) \in Seq(InTimeHints)
         /\ Len(InTime(q)) = n /\ \A i \in 1 .. n : InTime(q)[i] = q[i]
<1>0. Len(q) \in Nat
  BY LenProperties
<1>1. ASSUME NEW m \in 0 .. Len(q), Parted(q, m)
      PROVE  m = n
  <2>1. ASSUME m < n PROVE FALSE
    BY <1>0, <1>1, <2>1 DEF Parted
  <2>2. ASSUME n < m PROVE FALSE
    BY <1>0, <1>1, <2>2 DEF Parted
  <2> QED
    BY <1>0, <2>1, <2>2
<1>2. InTime(q) = SubSeq(q, 1, n)
  BY <1>1 DEF InTime
<1>3. \A i \in 1 .. n : q[i] \in InTimeHints
  BY <1>0, ElementOfSeq DEF Parted, Hints, InTimeHints
<1>4. n \in Int /\ 1 \in Int /\ n - 1 + 1 = n
  BY <1>0
<1>5. /\ SubSeq(q, 1, n) \in Seq(InTimeHints)
      /\ Len(SubSeq(q, 1, n)) = IF 1 <= n THEN n - 1 + 1 ELSE 0
      /\ \A i \in 1 .. n - 1 + 1 : SubSeq(q, 1, n)[i] = q[1 + i - 1]
  BY <1>3, <1>4, SubSeqProperties
<1> QED
  BY <1>0, <1>2, <1>4, <1>5

LEMMA InTimeFew ==
  /\ InTime(<<>>) = <<>> /\ InTime(<<"resync">>) = <<"resync">>
  /\ \A q \in Seq(Hints) : Parted(q, 0) => InTime(q) = <<>>
  /\ \A q \in Seq(Hints) : Parted(q, Len(q)) => InTime(q) = q
<1>1. ASSUME NEW q \in Seq(Hints), Parted(q, 0)
      PROVE  InTime(q) = <<>>
  BY <1>1, InTimeIs, LenProperties, EmptySeq
<1>2. ASSUME NEW q \in Seq(Hints), Parted(q, Len(q))
      PROVE  InTime(q) = q
  <2>1. Len(q) \in 0 .. Len(q)
    BY LenProperties
  <2> QED
    BY <1>2, <2>1, InTimeIs, SubSeqFull
<1>3. InTime(<<>>) = <<>>
  BY <1>1, QueueParts
<1>4. InTime(<<"resync">>) = <<"resync">>
  BY <1>2, QueueParts DEF Hints
<1> QED
  BY <1>1, <1>2, <1>3, <1>4

\* What is owed moves with the item that is read, and grows by a hint in time.
LEMMA InTimeTail ==
  ASSUME NEW q \in Seq(Hints), q # <<>>, NEW n \in 0 .. Len(q), Parted(q, n)
  PROVE  InTime(q) = Held(Head(q)) \o InTime(Tail(q))
<1>1. CASE n = 0
  <2>1. InTime(q) = <<>> /\ InTime(Tail(q)) = <<>> /\ Head(q) = "late"
    BY <1>1, TailParts, InTimeFew
  <2> QED
    BY <2>1, HeldIs, ConcatEmptySeq DEF InTimeHints
<1>2. CASE n # 0
  <2>1. /\ Head(q) # "late" /\ Head(q) \in Hints /\ Head(q) = q[1] /\ Tail(q) \in Seq(Hints)
        /\ n - 1 \in 0 .. Len(Tail(q)) /\ Parted(Tail(q), n - 1)
        /\ \A i \in 1 .. Len(Tail(q)) : Tail(q)[i] = q[i + 1]
    BY <1>2, TailParts
  <2>2. Held(Head(q)) = <<Head(q)>> /\ Head(q) \in InTimeHints
    BY <2>1, HeldIs DEF Hints, InTimeHints
  <2>3. /\ InTime(q) \in Seq(InTimeHints) /\ Len(InTime(q)) = n
        /\ \A i \in 1 .. n : InTime(q)[i] = q[i]
    BY InTimeIs
  <2>4. /\ InTime(Tail(q)) \in Seq(InTimeHints) /\ Len(InTime(Tail(q))) = n - 1
        /\ \A i \in 1 .. n - 1 : InTime(Tail(q))[i] = Tail(q)[i]
    BY <2>1, InTimeIs
  <2> DEFINE s == <<Head(q)>> \o InTime(Tail(q))
  <2>5. /\ <<Head(q)>> \in Seq(InTimeHints) /\ Len(<<Head(q)>>) = 1 /\ <<Head(q)>>[1] = Head(q)
    BY <2>2
  <2>6. /\ s \in Seq(InTimeHints) /\ Len(s) = 1 + (n - 1)
        /\ \A i \in 1 .. 1 + (n - 1) : s[i] = IF i <= 1 THEN <<Head(q)>>[i]
                                                        ELSE InTime(Tail(q))[i - 1]
    BY <2>4, <2>5, ConcatProperties
  <2>7. n \in Nat /\ Len(Tail(q)) \in Nat /\ n - 1 <= Len(Tail(q))
    BY <2>1, LenProperties
  <2> HIDE DEF s
  <2>8. Len(s) = Len(InTime(q)) /\ \A i \in 1 .. Len(s) : s[i] = InTime(q)[i]
    <3>1. Len(s) = n
      BY <2>6, <2>7
    <3>2. s[1] = InTime(q)[1]
      BY <1>2, <2>1, <2>3, <2>5, <2>6, <2>7
    <3>3. ASSUME NEW i \in 2 .. n PROVE s[i] = InTime(q)[i]
      <4>1. /\ i - 1 \in 1 .. n - 1 /\ i - 1 \in 1 .. Len(Tail(q)) /\ (i - 1) + 1 = i
            /\ i \in 1 .. 1 + (n - 1) /\ ~(i <= 1) /\ i \in 1 .. n
        BY <2>7
      <4>2. s[i] = InTime(Tail(q))[i - 1]
        BY <2>6, <4>1
      <4>3. InTime(Tail(q))[i - 1] = q[(i - 1) + 1]
        BY <2>1, <2>4, <4>1
      <4> QED
        BY <2>3, <4>1, <4>2, <4>3
    <3> QED
      BY <2>3, <2>7, <3>1, <3>2, <3>3
  <2>9. s = InTime(q)
    BY <2>3, <2>6, <2>8, SeqEqual
  <2> QED
    BY <2>2, <2>9 DEF s
<1> QED
  BY <1>1, <1>2

LEMMA OwedIs ==
  ASSUME NEW v, NEW x, Sound(x, v)
  PROVE  /\ InTime(x.queue) \in Seq(InTimeHints) /\ Owed(x) \in Seq(InTimeHints)
         /\ x.pc \notin {"checking", "open"} \/ x.closed => Owed(x) = <<>>
         /\ x.pc \in {"checking", "open"} /\ ~x.closed =>
              Owed(x) = (Held(x.frame) \o Held(x.read)) \o InTime(x.queue)
<1>1. InTime(x.queue) \in Seq(InTimeHints)
  BY InTimeIs DEF Sound, Hearing, StreamRecord
<1>2. (Held(x.frame) \o Held(x.read)) \o InTime(x.queue) \in Seq(InTimeHints)
  BY <1>1, HeldIs, ConcatProperties
<1> QED
  BY <1>1, <1>2 DEF Owed

-----------------------------------------------------------------------------
\* The abstract state of a stream, case by case.
LEMMA PhaseIs ==
  ASSUME NEW v, NEW x, Sound(x, v)
  PROVE  /\ x.pc \in {"none", "ended"} => Phase(x) = "idle"
         /\ x.pc = "authorizing" => Phase(x) = "asked"
         /\ x.pc \in {"subscribing", "checking"} => Phase(x) = "admitted"
         /\ x.pc = "open" /\ ~x.closed => Phase(x) = "open"
         /\ x.pc = "refusing" => Phase(x) = IF x.lease THEN "closing" ELSE "released"
         /\ x.pc = "leaving" \/ (x.pc = "open" /\ x.closed) =>
              Phase(x) = IF x.lease THEN "closing"
                         ELSE IF x.iter = "idle" THEN "idle" ELSE "released"
         /\ x.lease <=> Phase(x) \in {"admitted", "open", "closing"}
         /\ x.lease => x.session \in Sessions
<1>1. x.pc \in Pcs /\ Places(x)
  BY DEF Sound, StreamRecord
<1>2. CASE x.pc \in {"none", "ended", "authorizing", "subscribing", "checking"}
  BY <1>1, <1>2 DEF Phase, Places
<1>3. CASE x.pc = "open" /\ ~x.closed
  BY <1>1, <1>3 DEF Phase, Places
<1>4. CASE x.pc = "refusing"
  BY <1>1, <1>4 DEF Phase, Places
<1>5. CASE x.pc = "leaving" \/ (x.pc = "open" /\ x.closed)
  BY <1>1, <1>5 DEF Phase, Places
<1> QED
  BY <1>1, <1>2, <1>3, <1>4, <1>5 DEF Pcs

\* A step of a stream is the step of what it promises.
LEMMA Mapped ==
  ASSUME IInv, NEW t \in Streams, NEW y, Step(t, y), UNCHANGED valid, NEW a, Promised(y) = a
  PROVE  Service!Step(t, a)
<1>1. st'[t] = y /\ \A u \in Streams \ {t} : st'[u] = st[u]
  BY DEF IInv, TypeOK, Step
<1>2. [u \in Streams |-> Promised(st'[u])] = [[u \in Streams |-> Promised(st[u])] EXCEPT ![t] = a]
  BY <1>1
<1> QED
  BY <1>2 DEF Service!Step

LEMMA Stutters ==
  ASSUME IInv, NEW t \in Streams, NEW y, Step(t, y), UNCHANGED valid,
         Promised(y) = Promised(st[t])
  PROVE  UNCHANGED Service!pvars
<1>1. st'[t] = y /\ \A u \in Streams \ {t} : st'[u] = st[u]
  BY DEF IInv, TypeOK, Step
<1>2. [u \in Streams |-> Promised(st'[u])] = [u \in Streams |-> Promised(st[u])]
  BY <1>1
<1> QED
  BY <1>2 DEF Service!pvars

LEMMA RoomIs ==
  ASSUME IInv
  PROVE  /\ Service!Holding = Leasing
         /\ \A user \in Users : Room(user) => Service!Room(user)
<1>1. Service!Holding = Leasing
  BY StreamIs, PhaseIs DEF Service!Holding, Leasing, Promised
<1>2. ASSUME NEW user \in Users
      PROVE  {t \in Service!Holding : UserOf[[u \in Streams |-> Promised(st[u])][t].session] = user}
               = LeasingOf(user)
  BY <1>1, StreamIs, PhaseIs DEF LeasingOf, Leasing, User, Promised
<1>3. ASSUME NEW user \in Users, Room(user)
      PROVE  Service!Room(user)
  <2>1. /\ Cardinality(Leasing) < MaxTotal
        /\ Cardinality(LeasingOf(user)) < MaxPerUser
    BY <1>3 DEF IInv, CapacityKept, Room
  <2> QED
    BY <1>1, <1>2, <2>1
       DEF Service!Room, Service!Cardinality, Cardinality, Service!IsFiniteSet, IsFiniteSet
<1> QED
  BY <1>1, <1>3

-----------------------------------------------------------------------------
\* Each step of the coroutines is a step of StreamService or changes nothing there.
Simulated == Service!Next \/ UNCHANGED Service!pvars

\* The fields of what a stream promises.
LEMMA PromisedIs ==
  ASSUME NEW x
  PROVE  /\ Promised(x) = [phase |-> Phase(x),
                           session |-> IF Phase(x) = "idle" THEN NoSession ELSE x.session,
                           claim |-> IF Phase(x) = "idle" THEN NoSession ELSE x.claim,
                           owed |-> Owed(x), wire |-> x.wire, reply |-> x.reply]
         /\ Promised(x).phase = Phase(x) /\ Promised(x).owed = Owed(x) /\ Promised(x).wire = x.wire
         /\ Promised(x).reply = x.reply
         /\ Phase(x) # "idle" => Promised(x).session = x.session /\ Promised(x).claim = x.claim
BY DEF Promised

\* Two records are one when the same values are in their fields.
Exactly(phase, session, claim, owed, wire, reply) ==
  [phase : {phase}, session : {session}, claim : {claim}, owed : {owed}, wire : {wire},
   reply : {reply}]
LEMMA OnlyOne ==
  ASSUME NEW phase, NEW session, NEW claim, NEW owed, NEW wire, NEW reply,
         NEW a \in Exactly(phase, session, claim, owed, wire, reply),
         NEW b \in Exactly(phase, session, claim, owed, wire, reply)
  PROVE  a = b
BY DEF Exactly

LEMMA PromisedExactly ==
  ASSUME NEW x
  PROVE  /\ Phase(x) # "idle" =>
              Promised(x) \in Exactly(Phase(x), x.session, x.claim, Owed(x), x.wire, x.reply)
         /\ Phase(x) = "idle" =>
              Promised(x) \in Exactly("idle", NoSession, NoSession, Owed(x), x.wire, x.reply)
BY DEF Promised, Exactly

\* A request or response that is over promises nothing more.
LEMMA OverIs ==
  ASSUME NEW x \in StreamRecord, NEW reply \in Replies
  PROVE  Promised(Ended(x, reply)) = Service!Over(Promised(x), reply)
<1> DEFINE y == Ended(x, reply)
<1>1. Sound(y, valid)
  BY EndedSound
<1>2. y.pc = "ended" /\ y.wire = x.wire /\ y.reply = reply
  BY DEF Ended, Fresh
<1>3. Phase(y) = "idle" /\ Owed(y) = <<>>
  BY <1>1, <1>2, PhaseIs, OwedIs
<1> HIDE DEF y
<1>4. Promised(y) \in Exactly("idle", NoSession, NoSession, <<>>, x.wire, reply)
  BY <1>2, <1>3, PromisedExactly
<1>5. Service!Over(Promised(x), reply)
        \in Exactly("idle", NoSession, NoSession, <<>>, x.wire, reply)
  BY DEF Service!Over, Service!Vacant, Promised, Exactly
<1>6. Promised(y) = Service!Over(Promised(x), reply)
  BY <1>4, <1>5, OnlyOne
<1> QED
  BY <1>6 DEF y

LEMMA ServeIs ==
  ASSUME NEW t \in Streams
  PROVE  /\ Service!Serve(t) => Simulated
         /\ Service!Take(t) => Simulated
         /\ \A cookie \in Sessions, claim \in Sessions :
              Service!Connect(t, cookie, claim) => Simulated
BY DEF Simulated, Service!Next

LEMMA ConnectSimulated ==
  ASSUME IInv, NEW t \in Streams, NEW cookie \in Sessions, NEW claim \in Sessions,
         Connect(t, cookie, claim)
  PROVE  Simulated
<1> DEFINE x == st[t]
           y == [Fresh(cookie, claim) EXCEPT !.pc = "authorizing", !.ask = "asked"]
           a == [Service!Vacant EXCEPT !.phase = "asked", !.session = cookie, !.claim = claim]
<1>1. Step(t, y) /\ UNCHANGED valid /\ x.pc \in {"none", "ended"}
  BY DEF Connect
<1>2. Phase(x) = "idle"
  BY <1>1, StreamIs, PhaseIs
<1>3. Sound(y, valid)
  BY ConnectSound
<1>4. y.pc = "authorizing" /\ y.wire = <<>> /\ y.reply = "none" /\ y.session = cookie
      /\ y.claim = claim
  BY DEF Fresh
<1>5. Phase(y) = "asked" /\ Owed(y) = <<>>
  BY <1>3, <1>4, PhaseIs, OwedIs
<1>6. a \in Exactly("asked", cookie, claim, <<>>, <<>>, "none")
  BY DEF Service!Vacant, Exactly
<1> HIDE DEF a, y
<1>7. Promised(y) = a
  BY <1>4, <1>5, <1>6, PromisedExactly, OnlyOne
<1>8. Service!Step(t, a)
  BY <1>1, <1>7, Mapped DEF y
<1>9. Service!Connect(t, cookie, claim)
  BY <1>2, <1>8, PromisedIs DEF Service!Connect, a
<1> QED
  BY <1>9, ServeIs

\* A request is turned away with a cause.
LEMMA RefuseSimulated ==
  ASSUME IInv, NEW t \in Streams, NEW reply \in {"401", "403", "404", "503", "none"},
         Step(t, Ended(st[t], reply)), UNCHANGED valid,
         st[t].pc = "authorizing",
         reply = "401" => st[t].ask = "no", reply = "403" => st[t].session # st[t].claim
  PROVE  Simulated
<1>1. Phase(st[t]) = "asked" /\ reply \in Replies
  BY StreamIs, PhaseIs, Types
<1>2. Service!Step(t, Service!Over(Promised(st[t]), reply))
  BY <1>1, StreamIs, OverIs, Mapped
<1>3. st[t].ask = "no" => st[t].session \notin valid
  BY StreamIs DEF Sound, Hearing
<1>4. Service!Cause(t, reply)
  BY <1>1, <1>3, PromisedIs DEF Service!Cause
<1>5. Service!Refuse(t)
  BY <1>1, <1>2, <1>4, PromisedIs DEF Service!Refuse
<1> QED
  BY <1>5, ServeIs DEF Service!Serve

\* The broker denies a subscription, or the client does not wait for it.
LEMMA DenySimulated ==
  ASSUME IInv, NEW t \in Streams, NEW reply \in {"503", "none"},
         Step(t, Ended(st[t], reply)), UNCHANGED valid, st[t].pc = "subscribing"
  PROVE  Simulated
<1>1. Phase(st[t]) = "admitted" /\ Owed(st[t]) = <<>> /\ reply \in Replies
  BY StreamIs, PhaseIs, OwedIs, Types
<1>2. Service!Step(t, Service!Over(Promised(st[t]), reply))
  BY <1>1, StreamIs, OverIs, Mapped
<1>3. Service!Deny(t)
  BY <1>1, <1>2, PromisedIs DEF Service!Deny
<1> QED
  BY <1>3, ServeIs DEF Service!Serve

LEMMA AuthorizedSimulated ==
  ASSUME IInv, NEW t \in Streams, Authorized(t)
  PROVE  Simulated
<1> DEFINE x == st[t]
           granted == x.ask = "yes" /\ x.claim = x.session
           y == [x EXCEPT !.pc = "subscribing", !.ask = "none", !.lease = TRUE]
           a == [Promised(x) EXCEPT !.phase = "admitted"]
<1>1. /\ x.pc = "authorizing" /\ x.ask \in {"yes", "no", "error"} /\ UNCHANGED valid
      /\ x.session \in Sessions /\ Sound(x, valid) /\ Phase(x) = "asked" /\ Owed(x) = <<>>
  BY StreamIs, PhaseIs, OwedIs DEF Authorized, Answered, Sound, StreamRecord, Answers, Places
<1>2. CASE granted /\ Room(User(t)) /\ Step(t, y)
  <2>1. Sound(y, valid)
    BY <1>1, AdmitSound
  <2>2. y.pc = "subscribing" /\ y.wire = x.wire /\ y.reply = x.reply /\ y.session = x.session
        /\ y.claim = x.claim
    BY <1>1 DEF Sound, StreamRecord
  <2>3. Phase(y) = "admitted" /\ Owed(y) = <<>>
    BY <2>1, <2>2, PhaseIs, OwedIs
  <2> HIDE DEF y
  <2>4. Promised(y) = a
    BY <1>1, <2>2, <2>3, PromisedIs
  <2>5. Service!Step(t, a)
    BY <1>1, <1>2, <2>4, Mapped
  <2>6. UserOf[x.session] \in Users /\ User(t) = UserOf[x.session]
    BY <1>1, StreamConstants DEF User
  <2>7. Service!Room(UserOf[x.session])
    BY <1>2, <2>6, RoomIs
  <2>8. Service!Admit(t)
    BY <1>1, <1>2, <2>5, <2>7, PromisedIs DEF Service!Admit
  <2> QED
    BY <2>8, ServeIs DEF Service!Serve
<1>3. CASE /\ ~granted \/ ~Room(User(t))
           /\ Step(t, Ended(x, CASE x.ask = "no" -> "401"
                                 [] x.ask = "yes" /\ x.claim # x.session -> "403"
                                 [] x.ask = "error" \/ granted -> "503"))
  <2>1. CASE x.ask = "no"
    BY <1>1, <1>3, <2>1, RefuseSimulated
  <2>2. CASE x.ask = "yes" /\ x.claim # x.session
    BY <1>1, <1>3, <2>2, RefuseSimulated
  <2>3. CASE x.ask = "error" \/ granted
    BY <1>1, <1>3, <2>3, RefuseSimulated
  <2> QED
    BY <1>1, <2>1, <2>2, <2>3
<1> QED
  BY <1>2, <1>3 DEF Authorized

LEMMA SubscribedSimulated ==
  ASSUME IInv, NEW t \in Streams, Subscribed(t)
  PROVE  Simulated
<1> DEFINE x == st[t]
           y == [x EXCEPT !.pc = "checking", !.ask = "asked", !.sub = TRUE, !.queue = <<"resync">>]
           a == [Promised(x) EXCEPT !.owed = <<"resync">>]
<1>1. /\ x.pc = "subscribing" /\ Step(t, y) /\ UNCHANGED valid /\ Sound(x, valid) /\ Sound(y, valid)
      /\ Phase(x) = "admitted" /\ Owed(x) = <<>>
  BY StreamIs, SubscribedSound, PhaseIs, OwedIs DEF Subscribed
<1>2. /\ y.pc = "checking" /\ y.wire = x.wire /\ y.reply = x.reply /\ y.session = x.session
      /\ y.claim = x.claim /\ y.frame = x.frame /\ y.read = x.read /\ y.queue = <<"resync">>
      /\ ~y.closed /\ x.frame = "none" /\ x.read = "none"
  BY <1>1 DEF Sound, StreamRecord, Places, Turns
<1> HIDE DEF y
<1>3. Held(y.frame) = <<>> /\ Held(y.read) = <<>> /\ InTime(y.queue) = <<"resync">>
  BY <1>2, HeldIs, InTimeFew DEF InTimeHints
<1>4. Phase(y) = "admitted" /\ Owed(y) = <<"resync">>
  <2>1. <<"resync">> \in Seq(InTimeHints) /\ <<>> \in Seq(InTimeHints)
    BY DEF InTimeHints
  <2>2. (<<>> \o <<>>) \o <<"resync">> = <<"resync">>
    BY <2>1, ConcatEmptySeq
  <2>3. Owed(y) = (Held(y.frame) \o Held(y.read)) \o InTime(y.queue)
    BY <1>1, <1>2, OwedIs
  <2>4. Phase(y) = "admitted"
    BY <1>1, <1>2, PhaseIs
  <2> QED
    BY <1>3, <2>2, <2>3, <2>4, Zenon
<1>5. Promised(y) = a
  BY <1>1, <1>2, <1>4, PromisedIs
<1>6. Service!Step(t, a)
  BY <1>1, <1>5, Mapped
<1>7. Service!Subscribe(t)
  BY <1>1, <1>6, PromisedIs DEF Service!Subscribe
<1> QED
  BY <1>7, ServeIs DEF Service!Serve

\* What is owed is dropped when the cleanup begins.
LEMMA CloseSimulated ==
  ASSUME IInv, NEW t \in Streams, NEW y, Step(t, y), UNCHANGED valid, Sound(y, valid),
         st[t].pc \in {"checking", "open"}, ~st[t].closed,
         y.closed, y.pc \in {"refusing", "open", "leaving"}, y.lease,
         y.wire = st[t].wire, y.reply = st[t].reply, y.session = st[t].session,
         y.claim = st[t].claim
  PROVE  Simulated
<1> DEFINE x == st[t]
           a == [Promised(x) EXCEPT !.phase = "closing", !.owed = <<>>]
<1>1. Phase(x) \in {"admitted", "open"}
  BY StreamIs, PhaseIs
<1>2. Phase(y) = "closing" /\ Owed(y) = <<>>
  BY PhaseIs, OwedIs
<1>3. a \in Exactly("closing", x.session, x.claim, <<>>, x.wire, x.reply)
  BY <1>1 DEF Promised, Exactly
<1> HIDE DEF a
<1>4. Promised(y) = a
  BY <1>2, <1>3, PromisedExactly, OnlyOne
<1>5. Service!Step(t, a)
  BY <1>4, Mapped
<1>6. Service!Close(t)
  BY <1>1, <1>5, PromisedIs DEF Service!Close, a
<1> QED
  BY <1>6, ServeIs DEF Service!Serve

\* A stream that is closing goes on closing.
LEMMA StillSimulated ==
  ASSUME IInv, NEW t \in Streams, NEW y, Step(t, y), UNCHANGED valid,
         Phase(y) = Phase(st[t]), Owed(y) = Owed(st[t]),
         y.wire = st[t].wire, y.reply = st[t].reply, y.session = st[t].session,
         y.claim = st[t].claim
  PROVE  Simulated
<1>1. Promised(y) = Promised(st[t])
  BY DEF Promised
<1> QED
  BY <1>1, Stutters DEF Simulated

\* A state that promises nothing any more.
LEMMA OverWhenIdle ==
  ASSUME NEW x, NEW y, Phase(y) = "idle", Owed(y) = <<>>, y.wire = x.wire
  PROVE  Promised(y) = Service!Over(Promised(x), y.reply)
<1>1. Promised(y) \in Exactly("idle", NoSession, NoSession, <<>>, x.wire, y.reply)
  BY PromisedExactly
<1>2. Service!Over(Promised(x), y.reply)
        \in Exactly("idle", NoSession, NoSession, <<>>, x.wire, y.reply)
  BY DEF Service!Over, Service!Vacant, Promised, Exactly
<1> QED
  BY <1>1, <1>2, OnlyOne

\* What the phase and the hints owed are read from.
LEMMA SamePhase ==
  ASSUME NEW x, NEW y, y.pc = x.pc, y.closed = x.closed, y.lease = x.lease,
         y.iter = x.iter \/ (x.pc = "open" /\ ~x.closed)
  PROVE  Phase(y) = Phase(x)
BY DEF Phase

LEMMA SameOwed ==
  ASSUME NEW x, NEW y, y.pc = x.pc, y.closed = x.closed, y.queue = x.queue,
         Held(y.frame) = Held(x.frame), Held(y.read) = Held(x.read)
  PROVE  Owed(y) = Owed(x)
BY DEF Owed

\* A response that is over when its cleanup is done.
LEMMA FinishSimulated ==
  ASSUME IInv, NEW t \in Streams, NEW y, Step(t, y), UNCHANGED valid,
         Phase(st[t]) = "released", Phase(y) = "idle", Owed(y) = <<>>, y.wire = st[t].wire,
         \/ st[t].reply = "200" /\ y.reply = "200"
         \/ st[t].reply = "none" /\ y.reply \in {"503", "none"}
         \/ st[t].reply = "none" /\ y.reply = "401" /\ st[t].session \notin valid
  PROVE  Simulated
<1>1. Service!Step(t, Service!Over(Promised(st[t]), y.reply))
  BY OverWhenIdle, Mapped
<1>2. Service!Finish(t)
  BY <1>1, PromisedIs DEF Service!Finish, Service!Cause
<1> QED
  BY <1>2, ServeIs DEF Service!Serve

\* A response that is over already promises nothing more when it ends.
LEMMA EndedSimulated ==
  ASSUME IInv, NEW t \in Streams, Step(t, Ended(st[t], st[t].reply)), UNCHANGED valid,
         Phase(st[t]) = "idle", Owed(st[t]) = <<>>
  PROVE  Simulated
<1> DEFINE x == st[t]
<1>1. Promised(Ended(x, x.reply)) = Service!Over(Promised(x), x.reply)
  BY StreamIs, OverIs DEF StreamRecord
<1>2. Promised(x) = Service!Over(Promised(x), x.reply)
  BY OverWhenIdle
<1>3. Promised(Ended(x, x.reply)) = Promised(x)
  BY <1>1, <1>2, Zenon
<1> QED
  BY <1>3, Stutters DEF Simulated

LEMMA LookUpSimulated ==
  ASSUME IInv, NEW t \in Streams, LookUp(t) \/ Expire(t)
  PROVE  Simulated
<1>0. st[t] \in StreamRecord
  BY StreamIs
<1>1. ASSUME NEW y, Step(t, y), UNCHANGED valid,
             \/ \E a : y = [st[t] EXCEPT !.ask = a]
             \/ y = [st[t] EXCEPT !.due = TRUE]
      PROVE  Simulated
  <2>1. /\ y.pc = st[t].pc /\ y.closed = st[t].closed /\ y.lease = st[t].lease
        /\ y.iter = st[t].iter /\ y.queue = st[t].queue /\ y.frame = st[t].frame
        /\ y.read = st[t].read /\ y.wire = st[t].wire /\ y.reply = st[t].reply
        /\ y.session = st[t].session /\ y.claim = st[t].claim
    BY <1>0, <1>1 DEF StreamRecord
  <2>2. Phase(y) = Phase(st[t]) /\ Owed(y) = Owed(st[t])
    BY <2>1, SamePhase, SameOwed
  <2> QED
    BY <1>1, <2>1, <2>2, StillSimulated
<1>2. \E y : /\ Step(t, y)
             /\ \/ \E a : y = [st[t] EXCEPT !.ask = a]
                \/ y = [st[t] EXCEPT !.due = TRUE]
  BY DEF LookUp, Expire
<1> QED
  BY <1>1, <1>2 DEF LookUp, Expire

LEMMA ReadSimulated ==
  ASSUME IInv, NEW t \in Streams, Read(t) \/ ReadFails(t)
  PROVE  Simulated
<1> DEFINE x == st[t]
<1>0. x \in StreamRecord /\ Sound(x, valid) /\ x.read = "pending" /\ UNCHANGED valid
  BY StreamIs DEF Read, ReadFails
<1>1. ASSUME NEW y, Step(t, y), Owed(y) = Owed(x),
             \/ y = [x EXCEPT !.read = Head(x.queue), !.queue = Tail(@)]
             \/ y = [x EXCEPT !.read = "failed"]
      PROVE  Simulated
  <2>1. /\ y.pc = x.pc /\ y.closed = x.closed /\ y.lease = x.lease /\ y.iter = x.iter
        /\ y.wire = x.wire /\ y.reply = x.reply /\ y.session = x.session /\ y.claim = x.claim
    BY <1>0, <1>1 DEF StreamRecord
  <2>2. Phase(y) = Phase(x)
    BY <2>1, SamePhase
  <2> QED
    BY <1>0, <1>1, <2>1, <2>2, StillSimulated
<1>2. CASE Read(t)
  <2> DEFINE q == x.queue
             y == [x EXCEPT !.read = Head(q), !.queue = Tail(@)]
             f == Held(x.frame)
             h == Held(Head(q))
             r == InTime(Tail(q))
  <2>1. /\ Step(t, y) /\ q # <<>> /\ q \in Seq(Hints) /\ Sound(y, valid)
        /\ \E n \in 0 .. Len(q) : Parted(q, n)
    <3>1. Step(t, y) /\ q # <<>>
      BY <1>2 DEF Read
    <3>2. Sound(y, valid)
      BY <1>0, <3>1, ReadSound
    <3>3. q \in Seq(Hints)
      BY <1>0 DEF StreamRecord
    <3>4. \E n \in 0 .. Len(q) : Parted(q, n)
      BY <1>0 DEF Sound, Hearing
    <3> QED
      BY <3>1, <3>2, <3>3, <3>4
  <2>2. InTime(q) = h \o r
    BY <2>1, InTimeTail
  <2>3. /\ y.pc = x.pc /\ y.closed = x.closed /\ y.frame = x.frame /\ y.read = Head(q)
        /\ y.queue = Tail(q)
    BY <1>0 DEF StreamRecord
  <2>4. f \in Seq(InTimeHints) /\ h \in Seq(InTimeHints) /\ r \in Seq(InTimeHints)
    BY <2>1, <2>3, HeldIs, OwedIs, Zenon
  <2>5. (f \o <<>>) \o (h \o r) = (f \o h) \o r
    BY <2>4, ConcatEmptySeq, ConcatAssociative
  <2>6. Held(x.read) = <<>>
    BY <1>0, HeldIs DEF InTimeHints
  <2> HIDE DEF f, h, r, y
  <2>7. CASE x.pc \in {"checking", "open"} /\ ~x.closed
    <3>1. Owed(x) = (f \o <<>>) \o (h \o r)
      BY <1>0, <2>2, <2>6, <2>7, OwedIs DEF f
    <3>2. Owed(y) = (f \o h) \o r
      BY <2>1, <2>3, <2>7, OwedIs DEF f, h, r
    <3> QED
      BY <1>1, <2>1, <2>5, <3>1, <3>2 DEF y
  <2>8. CASE x.pc \notin {"checking", "open"} \/ x.closed
    <3>1. Owed(x) = <<>> /\ Owed(y) = <<>>
      BY <1>0, <2>1, <2>3, <2>8, OwedIs
    <3> QED
      BY <1>1, <2>1, <3>1 DEF y
  <2> QED
    BY <2>7, <2>8
<1>3. CASE ReadFails(t)
  <2> DEFINE y == [x EXCEPT !.read = "failed"]
  <2>1. Held(y.read) = Held(x.read) /\ y.queue = x.queue /\ y.frame = x.frame
        /\ y.pc = x.pc /\ y.closed = x.closed
    BY <1>0, HeldIs DEF StreamRecord, InTimeHints
  <2>2. Owed(y) = Owed(x)
    BY <2>1, SameOwed
  <2> QED
    BY <1>1, <1>3, <2>2 DEF ReadFails
<1> QED
  BY <1>2, <1>3

\* __anext__ begins to close the stream, or goes on in a response that closes.
LEMMA LeavingSimulated ==
  ASSUME IInv, NEW t \in Streams, NEW y, Step(t, y), UNCHANGED valid,
         NEW frame \in {"none", "auth-required"}, frame = "auth-required" => st[t].ask = "no",
         NEW ask \in {st[t].ask, "none"}, y = [Leaving(st[t], frame) EXCEPT !.ask = ask],
         st[t].iter \in {"waiting", "asking"} \/ (st[t].pc = "open" /\ ~st[t].closed)
  PROVE  Simulated
<1> DEFINE x == st[t]
<1>0. x \in StreamRecord /\ Sound(x, valid)
  BY StreamIs
<1>1. /\ y.pc = x.pc /\ y.closed /\ y.lease = x.lease /\ y.iter = "leaving" /\ y.wire = x.wire
      /\ y.reply = x.reply /\ y.session = x.session /\ y.claim = x.claim
  BY <1>0 DEF StreamRecord, Leaving, Closing
<1>2. Sound(y, valid)
  <2>1. frame = "auth-required" => x.session \notin valid
    BY <1>0 DEF Sound, Hearing
  <2>2. x.pc = "open" \/ x.iter # "idle"
    OBVIOUS
  <2> QED
    BY <1>0, <2>1, <2>2, LeavingSound
<1>3. CASE x.pc = "open" /\ ~x.closed
  <2>1. y.lease
    BY <1>0, <1>1, <1>3 DEF Sound, Places
  <2> QED
    BY <1>1, <1>2, <1>3, <2>1, CloseSimulated
<1>4. CASE ~(x.pc = "open" /\ ~x.closed)
  <2>1. x.pc = "leaving" /\ x.closed /\ x.iter # "idle"
    BY <1>0, <1>4 DEF Sound, Turns, Places
  <2>2. Phase(x) = IF x.lease THEN "closing" ELSE "released"
    BY <1>0, <2>1, PhaseIs
  <2>3. Phase(y) = IF x.lease THEN "closing" ELSE "released"
    BY <1>1, <1>2, <2>1, PhaseIs
  <2>4. Owed(x) = <<>> /\ Owed(y) = <<>>
    BY <1>0, <1>1, <1>2, <2>1, OwedIs
  <2> QED
    BY <1>1, <2>2, <2>3, <2>4, StillSimulated
<1> QED
  BY <1>3, <1>4

LEMMA IterateSimulated ==
  ASSUME IInv, NEW t \in Streams, Iterate(t)
  PROVE  Simulated
<1> DEFINE x == st[t]
<1>0. /\ x.pc = "open" /\ x.iter = "idle" /\ UNCHANGED valid
      /\ Sound(x, valid) /\ x \in StreamRecord
  BY StreamIs DEF Iterate
<1>1. CASE x.closed
  <2>1. ~x.lease /\ x.reply = "200"
    BY <1>0, <1>1 DEF Sound, Turns, Places
  <2>2. Phase(x) = "idle" /\ Owed(x) = <<>>
    BY <1>0, <1>1, <2>1, PhaseIs, OwedIs
  <2>3. Step(t, Ended(x, x.reply))
    BY <1>1, <2>1 DEF Iterate
  <2> QED
    BY <1>0, <2>2, <2>3, EndedSimulated
<1>2. CASE ~x.closed /\ x.due
  <2>1. Leaving(x, "none") = [Leaving(x, "none") EXCEPT !.ask = x.ask]
    BY <1>0 DEF Leaving, Closing, StreamRecord
  <2>2. Step(t, Leaving(x, "none"))
    BY <1>2 DEF Iterate
  <2> QED
    BY <1>0, <1>2, <2>1, <2>2, LeavingSimulated
<1>3. CASE ~x.closed /\ ~x.due
  <2> DEFINE y == [x EXCEPT !.iter = "waiting", !.read = IF @ = "none" THEN "pending" ELSE @]
  <2>1. Step(t, y)
    BY <1>3 DEF Iterate
  <2>2. /\ y.pc = x.pc /\ y.closed = x.closed /\ y.lease = x.lease /\ y.queue = x.queue
        /\ y.frame = x.frame /\ y.wire = x.wire /\ y.reply = x.reply
        /\ y.session = x.session /\ y.claim = x.claim
        /\ y.read = x.read \/ (x.read = "none" /\ y.read = "pending")
    BY <1>0 DEF StreamRecord
  <2> HIDE DEF y
  <2>3. Held(y.read) = Held(x.read)
    BY <2>2, HeldIs DEF InTimeHints
  <2>4. Phase(y) = Phase(x)
    BY <1>0, <1>3, <2>2, SamePhase
  <2>5. Owed(y) = Owed(x)
    BY <2>2, <2>3, SameOwed
  <2> QED
    BY <1>0, <2>1, <2>2, <2>4, <2>5, StillSimulated
<1> QED
  BY <1>1, <1>2, <1>3

\* There is a response only if the second check passes; while the session is
\* valid the resync of the subscription is owed to it.
LEMMA OpenedSimulated ==
  ASSUME IInv, NEW t \in Streams, Opened(t)
  PROVE  Simulated
<1> DEFINE x == st[t]
<1>0. /\ x.pc = "checking" /\ UNCHANGED valid /\ Sound(x, valid) /\ x \in StreamRecord
      /\ ~x.closed /\ x.lease /\ x.session \in Sessions
  BY StreamIs DEF Opened, Sound, Places
<1>1. CASE x.ask = "yes"
  <2> DEFINE y == [x EXCEPT !.pc = "open", !.ask = "none", !.reply = "200"]
             a == [Promised(x) EXCEPT !.phase = "open", !.reply = "200"]
  <2>1. Step(t, y) /\ Sound(y, valid)
    BY <1>0, <1>1, OpenedSound DEF Opened
  <2>2. /\ y.pc = "open" /\ ~y.closed /\ y.queue = x.queue /\ y.frame = x.frame
        /\ y.read = x.read /\ y.wire = x.wire /\ y.reply = "200" /\ y.session = x.session
        /\ y.claim = x.claim
    BY <1>0 DEF StreamRecord
  <2>3. Phase(y) = "open" /\ Phase(x) = "admitted" /\ Owed(y) = Owed(x)
    <3>1. Owed(y) = Owed(x)
      BY <1>0, <2>2 DEF Owed
    <3> QED
      BY <1>0, <2>1, <2>2, <3>1, PhaseIs
  <2>4. a \in Exactly("open", x.session, x.claim, Owed(x), x.wire, "200")
    BY <2>3 DEF Promised, Exactly
  <2> HIDE DEF a, y
  <2>5. Promised(y) = a
    BY <2>2, <2>3, <2>4, PromisedExactly, OnlyOne
  <2>6. Service!Step(t, a)
    BY <1>0, <2>1, <2>5, Mapped
  <2>7. ASSUME x.session \in valid PROVE Owed(x) # <<>>
    <3>1. PICK n \in 0 .. Len(x.queue) : Parted(x.queue, n)
      BY <1>0 DEF Sound, Hearing
    <3>2. /\ x.queue \in Seq(Hints) /\ x.queue # <<>> /\ Len(x.queue) \in Nat \ {0}
          /\ x.frame = "none" /\ x.read = "none"
      BY <1>0, EmptySeq, LenProperties DEF StreamRecord, Sound, Hearing, Turns
    <3>3. n # 0
      BY <1>0, <2>7, <3>1, <3>2 DEF Sound, Hearing, Late, Parted
    <3>4. InTime(x.queue) \in Seq(InTimeHints) /\ Len(InTime(x.queue)) = n
      BY <3>1, <3>2, InTimeIs
    <3>5. Held(x.frame) = <<>> /\ Held(x.read) = <<>>
      BY <3>2, HeldIs DEF InTimeHints
    <3>6. (<<>> \o <<>>) \o InTime(x.queue) = InTime(x.queue)
      <4>1. <<>> \in Seq(InTimeHints)
        OBVIOUS
      <4> QED
        BY <3>4, <4>1, ConcatEmptySeq
    <3>7. Owed(x) = (Held(x.frame) \o Held(x.read)) \o InTime(x.queue)
      BY <1>0, OwedIs
    <3>8. Owed(x) = InTime(x.queue)
      BY <3>5, <3>6, <3>7, Zenon
    <3> QED
      BY <3>3, <3>4, <3>8, EmptySeq
  <2>8. Service!Open(t)
    BY <2>3, <2>6, <2>7, PromisedIs DEF Service!Open, a
  <2> QED
    BY <2>8, ServeIs DEF Service!Serve
<1>2. CASE x.ask # "yes"
  <2> DEFINE y == [Closing(x) EXCEPT !.pc = "refusing"]
  <2>1. Step(t, y) /\ Sound(y, valid)
    BY <1>0, <1>2, ClosedBeforeSound DEF Opened
  <2>2. /\ y.pc = "refusing" /\ y.closed /\ y.lease /\ y.wire = x.wire /\ y.reply = x.reply
        /\ y.session = x.session /\ y.claim = x.claim
    BY <1>0 DEF StreamRecord, Closing
  <2> HIDE DEF y
  <2> QED
    BY <1>0, <2>1, <2>2, CloseSimulated
<1> QED
  BY <1>1, <1>2

LEMMA RefusedSimulated ==
  ASSUME IInv, NEW t \in Streams, Refused(t)
  PROVE  Simulated
<1> DEFINE x == st[t]
           reply == IF x.ask = "no" THEN "401" ELSE "503"
           y == Ended(x, reply)
<1>1. /\ x.pc = "refusing" /\ Step(t, y) /\ UNCHANGED valid /\ Sound(x, valid)
      /\ x \in StreamRecord /\ reply \in Replies
  BY StreamIs, Types DEF Refused
<1>2. ~x.lease /\ x.reply = "none" /\ (x.ask = "no" => x.session \notin valid)
  BY <1>1 DEF Refused, Sound, Places, Turns, Hearing
<1>3. /\ y.pc = "ended" /\ y.wire = x.wire /\ y.reply = reply /\ Sound(y, valid)
  BY <1>1, EndedSound DEF Ended, Fresh
<1>4. Phase(x) = "released" /\ Phase(y) = "idle" /\ Owed(y) = <<>>
  BY <1>1, <1>2, <1>3, PhaseIs, OwedIs
<1> HIDE DEF y
<1> QED
  BY <1>1, <1>2, <1>3, <1>4, FinishSimulated

\* A heartbeat comes first without losing the read.
LEMMA WakeSimulated ==
  ASSUME IInv, NEW t \in Streams, Wake(t)
  PROVE  Simulated
<1> DEFINE x == st[t]
           done == x.read # "pending"
           frame == IF done THEN x.read ELSE "heartbeat"
<1>0. x.iter = "waiting" /\ UNCHANGED valid /\ Sound(x, valid) /\ x \in StreamRecord
  BY StreamIs DEF Wake
<1>1. CASE x.read = "failed" \/ x.due
  <2>1. Leaving(x, "none") = [Leaving(x, "none") EXCEPT !.ask = x.ask]
    BY <1>0 DEF Leaving, Closing, StreamRecord
  <2>2. Step(t, Leaving(x, "none"))
    BY <1>1 DEF Wake
  <2> QED
    BY <1>0, <2>1, <2>2, LeavingSimulated
<1>2. CASE x.read # "failed" /\ ~x.due
  <2> DEFINE y == [x EXCEPT !.read = IF done THEN "none" ELSE @, !.ask = "asked",
                            !.iter = "asking", !.frame = frame]
  <2>1. Step(t, y) /\ Sound(y, valid)
    BY <1>0, <1>2, WakeSound DEF Wake
  <2>2. /\ y.pc = x.pc /\ y.closed = x.closed /\ y.lease = x.lease /\ y.queue = x.queue
        /\ y.wire = x.wire /\ y.reply = x.reply /\ y.session = x.session /\ y.claim = x.claim
        /\ y.iter = "asking" /\ y.frame = frame /\ y.read = IF done THEN "none" ELSE x.read
    BY <1>0 DEF StreamRecord
  <2> HIDE DEF y
  <2>3. x.pc \in {"open", "leaving"} /\ x.frame = "none" /\ (x.pc = "leaving" => x.closed)
    BY <1>0 DEF Sound, Turns, Places
  <2>4. Phase(y) = Phase(x)
    BY <1>0, <2>1, <2>2, <2>3, PhaseIs
  <2>5. Owed(y) = Owed(x)
    <3>1. CASE x.pc = "open" /\ ~x.closed
      <4>1. Held(y.frame) \o Held(y.read) = Held(x.frame) \o Held(x.read)
        <5>1. Held(x.frame) = <<>>
          BY <2>3, HeldIs DEF InTimeHints
        <5>2. CASE done
          <6>1. Held(y.frame) = Held(x.read) /\ Held(y.read) = <<>>
            BY <2>2, <5>2, HeldIs DEF InTimeHints
          <6>2. Held(x.read) \o <<>> = <<>> \o Held(x.read)
            BY HeldIs, ConcatEmptySeq
          <6> QED
            BY <5>1, <6>1, <6>2
        <5>3. CASE ~done
          <6>1. Held(y.frame) = <<>> /\ y.read = x.read
            BY <2>2, <5>3, HeldIs DEF InTimeHints
          <6> QED
            BY <5>1, <6>1
        <5> QED
          BY <5>2, <5>3
      <4> QED
        BY <1>0, <2>1, <2>2, <3>1, <4>1, OwedIs
    <3>2. CASE ~(x.pc = "open" /\ ~x.closed)
      BY <1>0, <2>1, <2>2, <2>3, <3>2, OwedIs
    <3> QED
      BY <3>1, <3>2
  <2> QED
    BY <1>0, <2>1, <2>2, <2>4, <2>5, StillSimulated
<1> QED
  BY <1>1, <1>2

\* The first of what is owed and the rest.
LEMMA FirstOwed ==
  ASSUME NEW h \in InTimeHints, NEW r \in Seq(InTimeHints)
  PROVE  /\ <<h>> \o r # <<>>
         /\ Head(<<h>> \o r) = h /\ Tail(<<h>> \o r) = r
<1>1. <<h>> \in Seq(InTimeHints) /\ Len(<<h>>) = 1 /\ <<h>>[1] = h /\ Len(r) \in Nat
  BY LenProperties
<1> DEFINE s == <<h>> \o r
<1>2. /\ s \in Seq(InTimeHints) /\ Len(s) = 1 + Len(r)
      /\ \A i \in 1 .. 1 + Len(r) : s[i] = IF i <= 1 THEN <<h>>[i] ELSE r[i - 1]
  BY <1>1, ConcatProperties
<1> HIDE DEF s
<1>3. s # <<>> /\ s[1] = h
  BY <1>1, <1>2, EmptySeq
<1>4. /\ Head(s) = s[1] /\ Tail(s) \in Seq(InTimeHints) /\ Len(Tail(s)) = Len(s) - 1
      /\ \A i \in 1 .. Len(Tail(s)) : Tail(s)[i] = s[i + 1]
  BY <1>2, <1>3, HeadTailProperties
<1>5. \A i \in 1 .. Len(Tail(s)) : Tail(s)[i] = r[i]
  BY <1>1, <1>2, <1>4
<1>6. Tail(s) = r
  BY <1>1, <1>2, <1>4, <1>5, SeqEqual
<1> QED
  BY <1>3, <1>4, <1>6 DEF s

\* A frame is written only after a look that found the session: a hint is the
\* next that is owed, and a heartbeat takes none with it.
LEMMA SendsSimulated ==
  ASSUME IInv, NEW t \in Streams, st[t].iter = "asking", ~st[t].closed, st[t].ask = "yes",
         Step(t, [st[t] EXCEPT !.ask = "none", !.iter = "idle", !.frame = "none",
                               !.wire = Append(@, st[t].frame)]),
         UNCHANGED valid
  PROVE  Simulated
<1> DEFINE x == st[t]
           y == [x EXCEPT !.ask = "none", !.iter = "idle", !.frame = "none",
                          !.wire = Append(@, x.frame)]
           rest == Held(x.read) \o InTime(x.queue)
<1>0. Sound(x, valid) /\ x \in StreamRecord /\ x.pc = "open" /\ Sound(y, valid)
      /\ Len(x.wire) < WireBound /\ x.frame \in {"resync", "change", "heartbeat"}
  <2>1. Sound(x, valid) /\ Sound(y, valid)
    BY StreamIs, SendsSound
  <2> QED
    BY <2>1 DEF Sound, Places, Turns, Hearing, Hints
<1>1. /\ y.pc = "open" /\ ~y.closed /\ y.queue = x.queue /\ y.read = x.read
      /\ y.frame = "none" /\ y.wire = Append(x.wire, x.frame) /\ y.reply = x.reply
      /\ y.session = x.session /\ y.claim = x.claim /\ Step(t, y)
  BY <1>0 DEF StreamRecord
<1> HIDE DEF y
<1>2. Phase(x) = "open" /\ Phase(y) = "open"
  BY <1>0, <1>1, PhaseIs
<1>3. /\ rest \in Seq(InTimeHints) /\ <<>> \in Seq(InTimeHints)
      /\ Held(x.read) \in Seq(InTimeHints) /\ InTime(x.queue) \in Seq(InTimeHints)
  BY <1>0, HeldIs, OwedIs, ConcatProperties
<1>4. Owed(y) = rest
  <2>1. Held(y.frame) = <<>>
    BY <1>1, HeldIs DEF InTimeHints
  <2>2. Owed(y) = (Held(y.frame) \o Held(y.read)) \o InTime(y.queue)
    BY <1>0, <1>1, OwedIs
  <2>3. (<<>> \o Held(x.read)) \o InTime(x.queue) = rest
    BY <1>3, ConcatEmptySeq
  <2> QED
    BY <1>1, <2>1, <2>2, <2>3, Zenon
<1>5. Owed(x) = (Held(x.frame) \o Held(x.read)) \o InTime(x.queue)
  BY <1>0, OwedIs
<1> HIDE DEF rest
<1>6. CASE x.frame = "heartbeat"
  <2> DEFINE a == [Promised(x) EXCEPT !.wire = Append(@, "heartbeat")]
  <2>1. Owed(x) = rest
    <3>1. Held(x.frame) = <<>>
      BY <1>6, HeldIs DEF InTimeHints
    <3>2. (<<>> \o Held(x.read)) \o InTime(x.queue) = rest
      BY <1>3, ConcatEmptySeq DEF rest
    <3> QED
      BY <1>5, <3>1, <3>2, Zenon
  <2>2. a \in Exactly("open", x.session, x.claim, rest, Append(x.wire, "heartbeat"), x.reply)
    BY <1>2, <2>1 DEF Promised, Exactly
  <2> HIDE DEF a
  <2>3. Promised(y) = a
    <3>1. Promised(y)
            \in Exactly("open", x.session, x.claim, rest, Append(x.wire, "heartbeat"), x.reply)
      BY <1>1, <1>2, <1>4, <1>6, PromisedExactly
    <3> QED
      BY <2>2, <3>1, OnlyOne
  <2>4. Service!Step(t, a)
    BY <1>1, <2>3, Mapped
  <2>5. Service!SendHeartbeat(t)
    BY <1>0, <1>2, <2>4, PromisedIs DEF Service!SendHeartbeat, a
  <2> QED
    BY <2>5, ServeIs DEF Service!Serve
<1>7. CASE x.frame \in {"resync", "change"}
  <2> DEFINE a == [Promised(x) EXCEPT !.wire = Append(@, Head(Promised(x).owed)), !.owed = Tail(@)]
  <2>1. Owed(x) = <<x.frame>> \o rest /\ x.frame \in InTimeHints
    <3>1. Held(x.frame) = <<x.frame>> /\ x.frame \in InTimeHints
      BY <1>7, HeldIs DEF InTimeHints
    <3>2. <<x.frame>> \in Seq(InTimeHints)
      BY <3>1
    <3>3. (<<x.frame>> \o Held(x.read)) \o InTime(x.queue) = <<x.frame>> \o rest
      BY <1>3, <3>2, ConcatAssociative DEF rest
    <3> QED
      BY <1>5, <3>1, <3>3, Zenon
  <2>2. Owed(x) # <<>> /\ Head(Owed(x)) = x.frame /\ Tail(Owed(x)) = rest
    BY <1>3, <2>1, FirstOwed
  <2>3. a \in Exactly("open", x.session, x.claim, rest, Append(x.wire, x.frame), x.reply)
    BY <1>2, <2>2 DEF Promised, Exactly
  <2> HIDE DEF a
  <2>4. Promised(y) = a
    <3>1. Promised(y)
            \in Exactly("open", x.session, x.claim, rest, Append(x.wire, x.frame), x.reply)
      BY <1>1, <1>2, <1>4, PromisedExactly
    <3> QED
      BY <2>3, <3>1, OnlyOne
  <2>5. Service!Step(t, a)
    BY <1>1, <2>4, Mapped
  <2>6. Service!SendHint(t)
    BY <1>0, <1>2, <2>2, <2>5, PromisedIs DEF Service!SendHint, a
  <2> QED
    BY <2>6, ServeIs DEF Service!Serve
<1> QED
  BY <1>0, <1>6, <1>7

LEMMA CheckedSimulated ==
  ASSUME IInv, NEW t \in Streams, Checked(t)
  PROVE  Simulated
<1> DEFINE x == st[t]
           sends == ~x.closed /\ ~x.due /\ x.ask = "yes"
<1>0. /\ x.iter = "asking" /\ x.ask \in {"yes", "no", "error"} /\ UNCHANGED valid
      /\ x \in StreamRecord
  BY StreamIs DEF Checked, Answered, StreamRecord, Answers
<1>1. CASE sends
  BY <1>0, <1>1, SendsSimulated DEF Checked
<1>2. ASSUME NEW frame \in {"none", "auth-required"}, frame = "auth-required" => x.ask = "no",
             Step(t, [Leaving(x, frame) EXCEPT !.ask = "none"])
      PROVE  Simulated
  BY <1>0, <1>2, LeavingSimulated
<1>3. CASE ~sends /\ ~x.closed /\ ~x.due /\ x.ask = "no"
  BY <1>2, <1>3 DEF Checked
<1>4. CASE ~sends /\ (x.closed \/ x.due \/ x.ask = "error")
  BY <1>2, <1>4 DEF Checked
<1> QED
  BY <1>0, <1>1, <1>3, <1>4

\* auth-required is written when the place is free, and only if the session has
\* ended.
LEMMA ClosedSimulated ==
  ASSUME IInv, NEW t \in Streams, Closed(t)
  PROVE  Simulated
<1> DEFINE x == st[t]
           w == IF x.frame = "none" THEN x.wire ELSE Append(x.wire, x.frame)
           y == [x EXCEPT !.iter = "idle", !.frame = "none", !.wire = w]
<1>0. /\ x.iter = "leaving" /\ x.cleanup = "done" /\ UNCHANGED valid /\ Sound(x, valid)
      /\ x \in StreamRecord /\ Step(t, y) /\ Sound(y, valid)
  BY StreamIs, ClosedSound DEF Closed
<1>1. /\ x.pc \in {"open", "leaving"} /\ x.closed /\ ~x.lease /\ x.reply = "200"
      /\ x.frame \in {"none", "auth-required"}
      /\ (x.frame = "auth-required" => x.session \notin valid)
  BY <1>0 DEF Sound, Turns, Places, Hearing
<1>2. /\ y.pc = x.pc /\ y.closed /\ ~y.lease /\ y.iter = "idle" /\ y.wire = w
      /\ y.reply = x.reply
  BY <1>0, <1>1 DEF StreamRecord
<1> HIDE DEF y
<1>3. Phase(x) = "released" /\ Owed(x) = <<>>
  BY <1>0, <1>1, PhaseIs, OwedIs
<1>4. Phase(y) = "idle" /\ Owed(y) = <<>>
  BY <1>0, <1>1, <1>2, PhaseIs, OwedIs
<1>5. CASE x.frame = "none"
  BY <1>0, <1>1, <1>2, <1>3, <1>4, <1>5, FinishSimulated
<1>6. CASE x.frame = "auth-required"
  <2> DEFINE o == Service!Over(Promised(x), "200")
             a == [o EXCEPT !.wire = Append(@, "auth-required")]
  <2>1. a \in Exactly("idle", NoSession, NoSession, <<>>, Append(x.wire, "auth-required"), "200")
    BY DEF Service!Over, Service!Vacant, Promised, Exactly
  <2> HIDE DEF a
  <2>2. Promised(y) = a
    <3>1. Promised(y)
            \in Exactly("idle", NoSession, NoSession, <<>>, Append(x.wire, "auth-required"), "200")
      BY <1>1, <1>2, <1>4, <1>6, PromisedExactly
    <3> QED
      BY <2>1, <3>1, OnlyOne
  <2>3. Service!Step(t, a)
    BY <1>0, <2>2, Mapped
  <2>4. Service!Finish(t)
    BY <1>1, <1>3, <1>6, <2>3, PromisedIs DEF Service!Finish, a
  <2> QED
    BY <2>4, ServeIs DEF Service!Serve
<1> QED
  BY <1>1, <1>5, <1>6

\* A request that is refused may be left by its client before it hears of it.
LEMMA LeaveRefusedSimulated ==
  ASSUME IInv, NEW t \in Streams, st[t].pc = "refusing", NEW y,
         y = [Closing(st[t]) EXCEPT !.pc = "leaving"], Step(t, y), UNCHANGED valid
  PROVE  Simulated
<1> DEFINE x == st[t]
<1>0. /\ Sound(x, valid) /\ x \in StreamRecord /\ Sound(y, valid) /\ x.closed /\ x.iter = "idle"
      /\ x.reply = "none"
  <2>1. Sound(x, valid) /\ x \in StreamRecord
    BY StreamIs
  <2>2. Sound(y, valid)
    BY <2>1, ClosedBeforeSound
  <2> QED
    BY <2>1, <2>2 DEF Sound, Places, Turns
<1>1. /\ y.pc = "leaving" /\ y.closed /\ y.lease = x.lease /\ y.iter = "idle" /\ y.wire = x.wire
      /\ y.reply = "none" /\ y.session = x.session /\ y.claim = x.claim
  BY <1>0 DEF StreamRecord, Closing
<1>2. Owed(x) = <<>> /\ Owed(y) = <<>>
  BY ONLY <1>0, <1>1, OwedIs
<1>3. Phase(x) = IF x.lease THEN "closing" ELSE "released"
  BY <1>0, PhaseIs
<1>4. Phase(y) = IF x.lease THEN "closing" ELSE "idle"
  BY ONLY <1>0, <1>1, PhaseIs
<1>5. CASE x.lease
  BY <1>0, <1>1, <1>2, <1>3, <1>4, <1>5, StillSimulated
<1>6. CASE ~x.lease
  BY <1>0, <1>1, <1>2, <1>3, <1>4, <1>6, FinishSimulated
<1> QED
  BY <1>5, <1>6

\* An open response is left to its iteration.
LEMMA AbandonSimulated ==
  ASSUME IInv, NEW t \in Streams, st[t].pc = "open", NEW y,
         y = [Closing(st[t]) EXCEPT !.pc = "leaving"], Step(t, y), UNCHANGED valid
  PROVE  Simulated
<1> DEFINE x == st[t]
<1>0. Sound(x, valid) /\ x \in StreamRecord /\ Sound(y, valid)
  BY StreamIs, AbandonedSound
<1>1. /\ y.pc = "leaving" /\ y.closed /\ y.lease = x.lease /\ y.iter = x.iter /\ y.wire = x.wire
      /\ y.reply = x.reply /\ y.session = x.session /\ y.claim = x.claim
  BY <1>0 DEF StreamRecord, Closing
<1>2. CASE ~x.closed
  <2>1. x.lease
    BY <1>0, <1>2 DEF Sound, Places
  <2> QED
    BY <1>0, <1>1, <1>2, <2>1, CloseSimulated
<1>3. CASE x.closed
  <2>1. Owed(x) = <<>> /\ Owed(y) = <<>>
    BY <1>0, <1>1, <1>3, OwedIs
  <2>2. Phase(x) = IF x.lease THEN "closing" ELSE IF x.iter = "idle" THEN "idle" ELSE "released"
    BY <1>0, <1>3, PhaseIs
  <2>3. Phase(y) = IF x.lease THEN "closing" ELSE IF x.iter = "idle" THEN "idle" ELSE "released"
    BY ONLY <1>0, <1>1, PhaseIs
  <2> QED
    BY <1>1, <2>1, <2>2, <2>3, StillSimulated
<1> QED
  BY <1>2, <1>3

\* The iteration of an open response is cancelled with it.
LEMMA CancelSimulated ==
  ASSUME IInv, NEW t \in Streams, st[t].pc = "open", NEW y,
         y = [Closing(st[t]) EXCEPT !.pc = "leaving", !.ask = "none", !.iter = "idle",
                                    !.frame = "none"],
         Step(t, y), UNCHANGED valid
  PROVE  Simulated
<1> DEFINE x == st[t]
<1>0. Sound(x, valid) /\ x \in StreamRecord /\ Sound(y, valid) /\ x.reply = "200"
  <2>1. Sound(x, valid) /\ x \in StreamRecord
    BY StreamIs
  <2>2. Sound(y, valid)
    BY <2>1, CancelledSound
  <2> QED
    BY <2>1, <2>2 DEF Sound, Turns
<1>1. /\ y.pc = "leaving" /\ y.closed /\ y.lease = x.lease /\ y.iter = "idle" /\ y.wire = x.wire
      /\ y.reply = x.reply /\ y.session = x.session /\ y.claim = x.claim
  BY <1>0 DEF StreamRecord, Closing
<1>2. Owed(y) = <<>>
  BY <1>0, <1>1, OwedIs
<1>3. Phase(y) = IF x.lease THEN "closing" ELSE "idle"
  BY <1>0, <1>1, PhaseIs
<1>4. CASE ~x.closed
  <2>1. x.lease
    BY <1>0, <1>4 DEF Sound, Places
  <2> QED
    BY <1>0, <1>1, <1>4, <2>1, CloseSimulated
<1>5. CASE x.closed
  <2>1. Owed(x) = <<>>
    BY <1>0, <1>5, OwedIs
  <2>2. Phase(x) = IF x.lease THEN "closing" ELSE IF x.iter = "idle" THEN "idle" ELSE "released"
    BY <1>0, <1>5, PhaseIs
  <2>3. CASE x.lease \/ x.iter = "idle"
    <3>1. Phase(x) = Phase(y)
      BY <1>3, <2>2, <2>3
    <3> QED
      BY <1>1, <1>2, <2>1, <3>1, StillSimulated
  <2>4. CASE ~x.lease /\ x.iter # "idle"
    BY <1>0, <1>1, <1>2, <1>3, <2>2, <2>4, FinishSimulated
  <2> QED
    BY <2>3, <2>4
<1> QED
  BY <1>4, <1>5

LEMMA DisconnectSimulated ==
  ASSUME IInv, NEW t \in Streams, Disconnect(t)
  PROVE  Simulated
<1> DEFINE x == st[t]
<1>0. Sound(x, valid) /\ x \in StreamRecord /\ UNCHANGED valid
  BY StreamIs DEF Disconnect
<1>1. CASE x.pc \in {"authorizing", "subscribing"} /\ Step(t, Ended(x, x.reply))
  <2>1. x.reply = "none"
    BY <1>0, <1>1 DEF Sound, Turns
  <2> QED
    BY <1>0, <1>1, <2>1, RefuseSimulated, DenySimulated
<1>2. CASE x.pc = "checking" /\ Step(t, [Closing(x) EXCEPT !.pc = "leaving"])
  <2> DEFINE y == [Closing(x) EXCEPT !.pc = "leaving"]
  <2>1. Sound(y, valid) /\ x.lease /\ ~x.closed
    BY <1>0, <1>2, ClosedBeforeSound DEF Sound, Places
  <2>2. /\ y.pc = "leaving" /\ y.closed /\ y.lease = x.lease /\ y.wire = x.wire
        /\ y.reply = x.reply /\ y.session = x.session /\ y.claim = x.claim
    BY <1>0 DEF StreamRecord, Closing
  <2> HIDE DEF y
  <2>3. Step(t, y)
    BY <1>2 DEF y
  <2> QED
    BY <1>0, <1>2, <2>1, <2>2, <2>3, CloseSimulated
<1>3. CASE x.pc = "refusing" /\ Step(t, [Closing(x) EXCEPT !.pc = "leaving"])
  BY <1>0, <1>3, LeaveRefusedSimulated
<1>4. CASE x.pc = "open" /\ Step(t, [Closing(x) EXCEPT !.pc = "leaving"])
  BY <1>0, <1>4, AbandonSimulated
<1>5. CASE /\ x.pc = "open"
           /\ Step(t, [Closing(x) EXCEPT !.pc = "leaving", !.ask = "none",
                                         !.iter = "idle", !.frame = "none"])
  BY <1>0, <1>5, CancelSimulated
<1> QED
  BY <1>1, <1>2, <1>3, <1>4, <1>5 DEF Disconnect

\* The place is free, and the response is over unless it has something to say.
LEMMA CleanUpSimulated ==
  ASSUME IInv, NEW t \in Streams, CleanUp(t)
  PROVE  Simulated
<1> DEFINE x == st[t]
           y == [x EXCEPT !.cleanup = "done", !.lease = FALSE, !.sub = FALSE, !.queue = <<>>,
                          !.read = IF @ = "pending" THEN "failed" ELSE @]
           a == [Promised(x) EXCEPT !.phase = "released"]
<1>0. /\ x.cleanup = "running" /\ UNCHANGED valid /\ Sound(x, valid) /\ x \in StreamRecord
      /\ Step(t, y) /\ Sound(y, valid)
  BY StreamIs, CleanUpSound DEF CleanUp
<1>1. x.closed /\ x.lease /\ x.pc \in {"refusing", "open", "leaving"}
  BY <1>0 DEF Sound, Places, StreamRecord, Pcs
<1>2. /\ y.pc = x.pc /\ y.closed /\ ~y.lease /\ y.iter = x.iter /\ y.wire = x.wire
      /\ y.reply = x.reply /\ y.session = x.session /\ y.claim = x.claim
  BY <1>0, <1>1 DEF StreamRecord
<1> HIDE DEF y
<1>3. Owed(x) = <<>> /\ Owed(y) = <<>>
  BY <1>0, <1>1, <1>2, OwedIs
<1>4. Phase(x) = "closing"
  BY <1>0, <1>1, PhaseIs
<1>5. CASE x.pc = "refusing" \/ x.iter # "idle"
  <2>1. Phase(y) = "released"
    BY <1>0, <1>1, <1>2, <1>5, PhaseIs
  <2>2. a \in Exactly("released", x.session, x.claim, <<>>, x.wire, x.reply)
    BY <1>3, <1>4 DEF Promised, Exactly
  <2> HIDE DEF a
  <2>3. Promised(y) = a
    <3>1. Promised(y) \in Exactly("released", x.session, x.claim, <<>>, x.wire, x.reply)
      BY <1>2, <1>3, <2>1, PromisedExactly
    <3> QED
      BY <2>2, <3>1, OnlyOne
  <2>4. Service!Step(t, a)
    BY <1>0, <2>3, Mapped
  <2>5. Service!Release(t)
    BY <1>4, <2>4, PromisedIs DEF Service!Release, a
  <2> QED
    BY <2>5, ServeIs DEF Service!Serve
<1>6. CASE x.pc # "refusing" /\ x.iter = "idle"
  <2>1. Phase(y) = "idle"
    BY <1>0, <1>1, <1>2, <1>6, PhaseIs
  <2>2. Promised(y) = Service!Over(Promised(x), y.reply)
    BY <1>2, <1>3, <2>1, OverWhenIdle
  <2>3. Service!Step(t, Service!Over(Promised(x), x.reply))
    BY <1>0, <1>2, <2>2, Mapped
  <2>4. Service!Release(t)
    BY <1>4, <2>3, PromisedIs DEF Service!Release
  <2> QED
    BY <2>4, ServeIs DEF Service!Serve
<1> QED
  BY <1>5, <1>6

LEMMA LeftSimulated ==
  ASSUME IInv, NEW t \in Streams, Left(t)
  PROVE  Simulated
<1>1. /\ st[t].pc = "leaving" /\ st[t].iter = "idle" /\ ~st[t].lease /\ Sound(st[t], valid)
      /\ Step(t, Ended(st[t], st[t].reply)) /\ UNCHANGED valid
  BY StreamIs DEF Left, Sound, Places
<1>2. Phase(st[t]) = "idle" /\ Owed(st[t]) = <<>>
  BY <1>1, PhaseIs, OwedIs
<1> QED
  BY <1>1, <1>2, EndedSimulated

LEMMA TakeSimulated ==
  ASSUME IInv, NEW t \in Streams, Take(t)
  PROVE  Simulated
<1> DEFINE x == st[t]
           y == [x EXCEPT !.wire = Tail(@)]
           a == [Promised(x) EXCEPT !.wire = Tail(@)]
<1>0. x \in StreamRecord /\ x.wire # <<>> /\ Step(t, y) /\ UNCHANGED valid
  BY StreamIs DEF Take
<1>1. /\ y.pc = x.pc /\ y.closed = x.closed /\ y.lease = x.lease /\ y.iter = x.iter
      /\ y.queue = x.queue /\ y.frame = x.frame /\ y.read = x.read /\ y.wire = Tail(x.wire)
      /\ y.reply = x.reply /\ y.session = x.session /\ y.claim = x.claim
  BY <1>0 DEF StreamRecord
<1> HIDE DEF y
<1>2. Phase(y) = Phase(x) /\ Owed(y) = Owed(x)
  BY <1>1, SamePhase, SameOwed
<1>3. Promised(y) = a
  <2> DEFINE s == IF Phase(x) = "idle" THEN NoSession ELSE x.session
             c == IF Phase(x) = "idle" THEN NoSession ELSE x.claim
  <2>1. a \in Exactly(Phase(x), s, c, Owed(x), Tail(x.wire), x.reply)
    BY DEF Promised, Exactly
  <2>2. Promised(y) \in Exactly(Phase(x), s, c, Owed(x), Tail(x.wire), x.reply)
    BY <1>1, <1>2 DEF Promised, Exactly
  <2> HIDE DEF a, s, c
  <2> QED
    BY <2>1, <2>2, OnlyOne
<1>4. Service!Step(t, a)
  BY <1>0, <1>3, Mapped
<1>5. Service!Take(t)
  BY <1>0, <1>4, PromisedIs DEF Service!Take
<1> QED
  BY <1>5, ServeIs

LEMMA RevokeSimulated ==
  ASSUME NEW session \in Sessions, Revoke(session)
  PROVE  Simulated
<1>1. Service!Revoke(session)
  BY DEF Revoke, Service!Revoke
<1> QED
  BY <1>1 DEF Simulated, Service!Next

-----------------------------------------------------------------------------
\* What a publication makes of the hints owed.
LEMMA AppendInTime ==
  ASSUME NEW q \in Seq(Hints), \E n \in 0 .. Len(q) : Parted(q, n)
  PROVE  /\ InTime(Append(q, "late")) = InTime(q)
         /\ Parted(q, Len(q)) => InTime(q) = q /\ InTime(Append(q, "change")) = Append(q, "change")
         /\ InTime(<<"late">>) = <<>>
<1>1. PICK n \in 0 .. Len(q) : Parted(q, n)
  OBVIOUS
<1>2. \A h \in Hints : /\ Append(q, h) \in Seq(Hints) /\ Len(Append(q, h)) = Len(q) + 1
                       /\ \A i \in 1 .. Len(q) : Append(q, h)[i] = q[i]
                       /\ Append(q, h)[Len(q) + 1] = h
  BY AppendProperties
<1>3. Len(q) \in Nat /\ {"late", "change"} \subseteq Hints
  BY LenProperties DEF Hints
<1>4. InTime(Append(q, "late")) = InTime(q)
  <2> DEFINE s == Append(q, "late")
  <2>0. /\ s \in Seq(Hints) /\ Len(s) = Len(q) + 1 /\ s[Len(q) + 1] = "late"
        /\ \A i \in 1 .. Len(q) : s[i] = q[i]
    BY <1>2, <1>3
  <2> HIDE DEF s
  <2>1. n \in 0 .. Len(s) /\ Parted(s, n)
    <3>1. n \in 0 .. Len(s)
      BY <1>3, <2>0
    <3>2. ASSUME NEW i \in 1 .. Len(s) PROVE s[i] = "late" <=> i > n
      <4>1. CASE i = Len(q) + 1
        BY <1>3, <2>0, <4>1
      <4>2. CASE i \in 1 .. Len(q)
        BY <1>1, <2>0, <4>2 DEF Parted
      <4> QED
        BY <1>3, <2>0, <4>1, <4>2
    <3> QED
      BY <3>1, <3>2 DEF Parted
  <2>2. /\ InTime(s) \in Seq(InTimeHints) /\ Len(InTime(s)) = n
        /\ \A i \in 1 .. n : InTime(s)[i] = s[i]
    BY <2>0, <2>1, InTimeIs
  <2>3. /\ InTime(q) \in Seq(InTimeHints) /\ Len(InTime(q)) = n
        /\ \A i \in 1 .. n : InTime(q)[i] = q[i]
    BY <1>1, InTimeIs
  <2>4. \A i \in 1 .. n : InTime(s)[i] = InTime(q)[i]
    BY <1>3, <2>0, <2>2, <2>3
  <2>5. InTime(s) = InTime(q)
    BY <2>2, <2>3, <2>4, SeqEqual
  <2> QED
    BY <2>5 DEF s
<1>5. ASSUME Parted(q, Len(q))
      PROVE  InTime(q) = q /\ InTime(Append(q, "change")) = Append(q, "change")
  <2> DEFINE s == Append(q, "change")
  <2>0. /\ s \in Seq(Hints) /\ Len(s) = Len(q) + 1 /\ s[Len(q) + 1] = "change"
        /\ \A i \in 1 .. Len(q) : s[i] = q[i]
    BY <1>2, <1>3
  <2> HIDE DEF s
  <2>1. ASSUME NEW i \in 1 .. Len(s) PROVE s[i] = "late" <=> i > Len(s)
    <3>1. CASE i = Len(q) + 1
      BY <1>3, <2>0, <3>1
    <3>2. CASE i \in 1 .. Len(q)
      BY <1>3, <1>5, <2>0, <3>2 DEF Parted
    <3> QED
      BY <1>3, <2>0, <3>1, <3>2
  <2>2. Parted(s, Len(s))
    BY <2>1 DEF Parted
  <2> QED
    BY <1>5, <2>0, <2>2, InTimeFew DEF s
<1>6. InTime(<<"late">>) = <<>>
  BY QueueParts, InTimeFew DEF Hints
<1> QED
  BY <1>4, <1>5, <1>6

\* The hints that are kept when a full queue is replaced.
LEMMA KeptPrefix ==
  ASSUME NEW k \in Seq(InTimeHints), NEW r \in Seq(InTimeHints)
  PROVE  /\ k = SubSeq(k \o r, 1, Len(k)) /\ Len(k) \in 0 .. Len(k \o r)
         /\ k \o r = SubSeq(k \o r, 1, Len(k \o r)) /\ Len(k \o r) \in 0 .. Len(k \o r)
<1>1. /\ Len(k) \in Nat /\ Len(r) \in Nat /\ k \o r \in Seq(InTimeHints)
      /\ Len(k \o r) = Len(k) + Len(r)
      /\ \A i \in 1 .. Len(k) + Len(r) : (k \o r)[i] = IF i <= Len(k) THEN k[i] ELSE r[i - Len(k)]
  BY LenProperties, ConcatProperties
<1> DEFINE s == k \o r
           p == SubSeq(s, 1, Len(k))
<1> HIDE DEF s
<1>2. s \in Seq(InTimeHints) /\ Len(s) = Len(k) + Len(r)
      /\ \A i \in 1 .. Len(k) : s[i] = k[i]
  BY <1>1 DEF s
<1>3. \A i \in 1 .. Len(k) : s[i] \in InTimeHints
  BY <1>2, ElementOfSeq
<1>4. /\ p \in Seq(InTimeHints)
      /\ Len(p) = IF 1 <= Len(k) THEN Len(k) - 1 + 1 ELSE 0
      /\ \A i \in 1 .. Len(k) - 1 + 1 : p[i] = s[1 + i - 1]
  BY <1>1, <1>3, SubSeqProperties
<1> HIDE DEF p
<1>5. Len(p) = Len(k) /\ \A i \in 1 .. Len(k) : p[i] = k[i]
  BY <1>1, <1>2, <1>4
<1>6. p = k
  BY <1>4, <1>5, SeqEqual
<1>7. SubSeq(s, 1, Len(s)) = s
  BY <1>2, SubSeqFull
<1> QED
  BY <1>1, <1>2, <1>6, <1>7 DEF s, p

\* What may be owed to a stream, with what it owed and whether its session is
\* valid, when a change of its user has been published.
Prefixes(owed) == {SubSeq(owed, 1, n) : n \in 0 .. Len(owed)}
Grown(owed, heard) ==
  IF heard THEN {Append(owed, "change")} \cup {Append(k, "resync") : k \in Prefixes(owed)}
  ELSE Prefixes(owed)

LEMMA PublishedOwed ==
  ASSUME IInv, NEW t \in Streams, NEW user, st[t].sub, UserOf[st[t].session] = user,
         st[t].pc \in {"checking", "open"}, ~st[t].closed
  PROVE  /\ Owed(Published(user, t)) \in Grown(Owed(st[t]), st[t].session \in valid)
         /\ st[t].session \in valid => Owed(st[t]) # <<>> \/ st[t].pc = "open"
<1> DEFINE x == st[t]
           q == x.queue
           k == Held(x.frame) \o Held(x.read)
           y == Published(user, t)
           item(name) == IF x.session \in valid THEN name ELSE "late"
<1>0. /\ Sound(x, valid) /\ x \in StreamRecord /\ q \in Seq(Hints)
      /\ \E n \in 0 .. Len(q) : Parted(q, n)
      /\ Len(q) \in Nat /\ {"resync", "change", "late"} \subseteq Hints
      /\ QueueBound \in Nat \ {0}
  <2>1. Sound(x, valid) /\ x \in StreamRecord
    BY StreamIs
  <2>2. q \in Seq(Hints)
    BY <2>1 DEF StreamRecord
  <2> QED
    BY <2>1, <2>2, LenProperties, StreamConstants DEF Sound, Hearing, Hints
<1>1. y = [x EXCEPT !.queue = IF Len(q) < QueueBound THEN Append(q, item("change"))
                                                     ELSE <<item("resync")>>]
  BY DEF Published
<1>2. /\ y.pc = x.pc /\ ~y.closed /\ y.frame = x.frame /\ y.read = x.read
      /\ Len(q) < QueueBound => y.queue = Append(q, item("change"))
      /\ ~(Len(q) < QueueBound) => y.queue = <<item("resync")>>
  BY <1>0, <1>1 DEF StreamRecord
<1>3. k \in Seq(InTimeHints) /\ InTime(q) \in Seq(InTimeHints)
  BY <1>0, HeldIs, OwedIs, ConcatProperties
<1>4. Owed(x) = k \o InTime(q)
  BY <1>0, OwedIs
<1>5. Owed(y) = k \o InTime(y.queue)
  BY <1>2 DEF Owed
<1> HIDE DEF k, y
<1>6. \A n \in {Len(k), Len(Owed(x))} : SubSeq(Owed(x), 1, n) \in Prefixes(Owed(x))
  BY <1>3, <1>4, KeptPrefix DEF Prefixes
<1>7. k \in Prefixes(Owed(x)) /\ Owed(x) \in Prefixes(Owed(x))
  BY <1>3, <1>4, <1>6, KeptPrefix
<1>8. CASE x.session \in valid
  <2>1. Parted(q, Len(q)) /\ InTime(q) = q
    <3>1. \A i \in 1 .. Len(q) : q[i] # "late"
      BY <1>0, <1>8 DEF Sound, Hearing, Late
    <3>2. Parted(q, Len(q))
      BY <1>0, <3>1 DEF Parted
    <3> QED
      BY <1>0, <3>2, InTimeFew
  <2>2. ASSUME Len(q) < QueueBound
        PROVE  Owed(y) \in Grown(Owed(x), x.session \in valid)
    <3>1. InTime(y.queue) = Append(q, "change")
      BY <1>0, <1>2, <1>8, <2>1, <2>2, AppendInTime
    <3>2. q \in Seq(InTimeHints) /\ "change" \in InTimeHints /\ <<"change">> \in Seq(InTimeHints)
      BY <1>3, <2>1 DEF InTimeHints
    <3>3. /\ Append(q, "change") = q \o <<"change">>
          /\ Append(k \o q, "change") = (k \o q) \o <<"change">>
      BY <1>3, <3>2, AppendIsConcat, ConcatProperties
    <3>4. k \o (q \o <<"change">>) = (k \o q) \o <<"change">>
      <4> DEFINE c == <<"change">>
      <4>1. k \in Seq(InTimeHints) /\ q \in Seq(InTimeHints) /\ c \in Seq(InTimeHints)
        BY <1>3, <3>2
      <4> HIDE DEF c, q
      <4>2. (k \o q) \o c = k \o (q \o c)
        BY <4>1, ConcatAssociative
      <4> QED
        BY <4>2 DEF c
    <3>5. Owed(y) = Append(Owed(x), "change")
      BY <1>4, <1>5, <2>1, <3>1, <3>3, <3>4
    <3> QED
      BY <1>8, <3>5 DEF Grown
  <2>3. ASSUME ~(Len(q) < QueueBound)
        PROVE  Owed(y) \in Grown(Owed(x), x.session \in valid)
    <3>1. y.queue = <<"resync">>
      BY <1>2, <1>8, <2>3
    <3>2. InTime(y.queue) = <<"resync">>
      BY <3>1, InTimeFew
    <3>3. Append(k, "resync") = k \o <<"resync">>
      BY <1>3, AppendIsConcat DEF InTimeHints
    <3>4. Owed(y) = Append(k, "resync")
      BY <1>5, <3>2, <3>3
    <3> QED
      BY <1>7, <1>8, <3>4 DEF Grown
  <2>4. Owed(x) # <<>> \/ x.pc = "open"
    <3>1. ASSUME x.pc = "checking" PROVE Owed(x) # <<>>
      <4>1. q # <<>> /\ Len(q) # 0
        BY <1>0, <3>1, EmptySeq DEF Sound, Hearing
      <4>2. Len(k \o q) = Len(k) + Len(q) /\ Len(k) \in Nat
        BY <1>3, <2>1, ConcatProperties, LenProperties
      <4>3. Len(Owed(x)) # 0
        BY <1>0, <1>4, <2>1, <4>1, <4>2
      <4> QED
        BY <4>3
    <3> QED
      BY <3>1
  <2> QED
    BY <2>2, <2>3, <2>4 DEF y
<1>9. CASE x.session \notin valid
  <2>1. CASE Len(q) < QueueBound
    <3>1. InTime(y.queue) = InTime(q)
      BY <1>0, <1>2, <1>9, <2>1, AppendInTime
    <3> QED
      BY <1>4, <1>5, <1>7, <1>9, <3>1 DEF Grown, y
  <2>2. CASE ~(Len(q) < QueueBound)
    <3>1. InTime(y.queue) = <<>>
      BY <1>0, <1>2, <1>9, <2>2, AppendInTime
    <3>2. Owed(y) = k
      BY <1>3, <1>5, <3>1, ConcatEmptySeq
    <3> QED
      BY <1>7, <1>9, <3>2 DEF Grown, y
  <2> QED
    BY <2>1, <2>2
<1> QED
  BY <1>8, <1>9

\* What a stream promises after a publication is what StreamService allows.
LEMMA PublishedKept ==
  ASSUME IInv, NEW t \in Streams, NEW user \in Users
  PROVE  Promised(Published(user, t)) \in Service!Kept(Promised(st[t]), user)
<1> DEFINE x == st[t]
           y == Published(user, t)
           p == Promised(x)
<1>0. Sound(x, valid) /\ x \in StreamRecord /\ Sound(y, valid)
  BY StreamIs, PublishedSound
<1>1. Service!Kept(p, user)
        = IF (p.owed = <<>> /\ p.phase # "open") \/ UserOf[p.session] # user THEN {p}
          ELSE {[p EXCEPT !.owed = hints] : hints \in Grown(p.owed, p.session \in valid)}
  BY DEF Service!Kept, Grown, Prefixes
<1>2. p.owed = Owed(x) /\ p.phase = Phase(x) /\ (Phase(x) # "idle" => p.session = x.session)
  BY PromisedIs
<1>3. CASE ~x.sub \/ UserOf[x.session] # user
  <2>1. y = x
    BY <1>3 DEF Published
  <2>2. CASE Owed(x) = <<>> /\ Phase(x) # "open"
    BY <1>1, <1>2, <2>1, <2>2
  <2>3. CASE ~(Owed(x) = <<>> /\ Phase(x) # "open")
    <3>1. x.pc \in {"checking", "open"} /\ ~x.closed
      BY <1>0, <2>3, OwedIs, PhaseIs DEF Sound, StreamRecord, Pcs
    <3>2. x.sub /\ Phase(x) # "idle"
      BY <1>0, <3>1, PhaseIs DEF Sound, Places
    <3> QED
      BY <1>1, <1>2, <1>3, <2>1, <3>2
  <2> QED
    BY <2>2, <2>3
<1>4. CASE x.sub /\ UserOf[x.session] = user
  <2>1. /\ y.pc = x.pc /\ y.closed = x.closed /\ y.lease = x.lease /\ y.iter = x.iter
        /\ y.frame = x.frame /\ y.read = x.read /\ y.wire = x.wire /\ y.reply = x.reply
        /\ y.session = x.session /\ y.claim = x.claim
    BY <1>0, <1>4 DEF Published, StreamRecord
  <2>2. Phase(y) = Phase(x)
    BY <2>1, SamePhase
  <2>3. Phase(x) # "idle"
    BY <1>0, <1>4, PhaseIs DEF Sound, Places
  <2> HIDE DEF y
  <2>4. CASE x.pc \in {"checking", "open"} /\ ~x.closed
    <3>1. /\ Owed(y) \in Grown(Owed(x), x.session \in valid)
          /\ x.session \in valid => Owed(x) # <<>> \/ x.pc = "open"
      BY <1>4, <2>4, PublishedOwed DEF y
    <3>2. Promised(y) = [p EXCEPT !.owed = Owed(y)]
      <4> DEFINE a == [p EXCEPT !.owed = Owed(y)]
      <4>1. a \in Exactly(Phase(x), x.session, x.claim, Owed(y), x.wire, x.reply)
        BY <2>3 DEF Promised, Exactly
      <4>2. Promised(y) \in Exactly(Phase(x), x.session, x.claim, Owed(y), x.wire, x.reply)
        BY <2>1, <2>2, <2>3, PromisedExactly
      <4> HIDE DEF a, p
      <4>3. Promised(y) = a
        BY <4>1, <4>2, OnlyOne
      <4> QED
        BY <4>3 DEF a
    <3>3. CASE ~(Owed(x) = <<>> /\ Phase(x) # "open")
      <4> DEFINE grown == Grown(p.owed, p.session \in valid)
      <4>1. Owed(y) \in grown
        BY <1>2, <2>3, <3>1
      <4>2. Service!Kept(p, user) = {[p EXCEPT !.owed = hints] : hints \in grown}
        BY <1>1, <1>2, <1>4, <2>3, <3>3
      <4> HIDE DEF grown, p
      <4>3. Promised(y) \in Service!Kept(p, user)
        BY <3>2, <4>1, <4>2, Zenon
      <4> QED
        BY <4>3 DEF p, y
    <3>4. CASE Owed(x) = <<>> /\ Phase(x) # "open"
      <4>1. x.session \notin valid
        BY <1>0, <2>4, <3>1, <3>4, PhaseIs
      <4>2. Owed(y) = <<>>
        <5>1. Owed(y) \in Prefixes(<<>>)
          BY <3>1, <3>4, <4>1 DEF Grown
        <5>2. SubSeq(<<>>, 1, 0) = <<>> /\ Len(<<>>) = 0
          OBVIOUS
        <5> QED
          BY <5>1, <5>2 DEF Prefixes
      <4>3. Promised(y) = p
        BY <2>1, <2>2, <3>4, <4>2 DEF Promised
      <4> QED
        BY <1>1, <1>2, <3>4, <4>3 DEF y
    <3> QED
      BY <3>3, <3>4
  <2>5. CASE ~(x.pc \in {"checking", "open"} /\ ~x.closed)
    <3>1. Owed(x) = <<>> /\ Owed(y) = <<>>
      BY <1>0, <2>1, <2>5, OwedIs DEF y
    <3>2. Promised(y) = p
      BY <2>1, <2>2, <3>1 DEF Promised
    <3>3. Phase(x) # "open"
      BY <1>0, <1>4, <2>5, PhaseIs DEF Sound, Places
    <3> QED
      BY <1>1, <1>2, <3>1, <3>2, <3>3 DEF y
  <2> QED
    BY <2>4, <2>5
<1> QED
  BY <1>3, <1>4

LEMMA PublishSimulated ==
  ASSUME IInv, NEW user \in Users, Publish(user)
  PROVE  Simulated
<1> DEFINE service == [t \in Streams |-> Promised(st[t])]
           next == [t \in Streams |-> Promised(Published(user, t))]
<1>1. \A t \in Streams : next[t] \in Service!Kept(service[t], user)
  BY PublishedKept
<1>2. next \in [Streams -> UNION {Service!Kept(service[t], user) : t \in Streams}]
  BY <1>1
<1>3. [t \in Streams |-> Promised(st'[t])] = next
  BY DEF Publish
<1>4. UNCHANGED valid
  BY DEF Publish
<1> HIDE DEF next
<1>5. Service!Publish(user)
  BY <1>1, <1>2, <1>3, <1>4 DEF Service!Publish
<1> QED
  BY <1>5 DEF Simulated, Service!Next

-----------------------------------------------------------------------------
LEMMA NextSimulated == IInv /\ [Next]_svars => [Service!Next]_(Service!pvars)
<1> SUFFICES ASSUME IInv, [Next]_svars PROVE Simulated
  BY DEF Simulated
<1>1. ASSUME NEW t \in Streams, Unconfigured(t) \/ SubscribeFails(t)
      PROVE  Simulated
  BY <1>1, RefuseSimulated, DenySimulated DEF Unconfigured, SubscribeFails
<1>2. ASSUME NEW t \in Streams, Admission(t)
      PROVE  Simulated
  BY <1>1, <1>2, AuthorizedSimulated, SubscribedSimulated, OpenedSimulated, RefusedSimulated
     DEF Admission
<1>3. ASSUME NEW t \in Streams, Iteration(t)
      PROVE  Simulated
  BY <1>3, IterateSimulated, WakeSimulated, CheckedSimulated, ClosedSimulated DEF Iteration
<1>4. ASSUME NEW t \in Streams, Ending(t)
      PROVE  Simulated
  BY <1>4, CleanUpSimulated, LeftSimulated DEF Ending
<1>5. CASE UNCHANGED svars
  BY <1>5 DEF svars, Simulated, Service!pvars
<1> QED
  BY <1>1, <1>2, <1>3, <1>4, <1>5, ConnectSimulated, LookUpSimulated, ReadSimulated,
     DisconnectSimulated, TakeSimulated, PublishSimulated, RevokeSimulated DEF Next

LEMMA InitSimulated == Init => Service!Init
<1> SUFFICES ASSUME Init PROVE Service!Init
  OBVIOUS
<1> DEFINE x == Fresh(NoSession, NoSession)
<1>1. Promised(x) = Service!Vacant
  <2>1. Phase(x) = "idle" /\ Owed(x) = <<>> /\ x.wire = <<>> /\ x.reply = "none"
    BY DEF Fresh, Phase, Owed
  <2>2. Promised(x) \in Exactly("idle", NoSession, NoSession, <<>>, <<>>, "none")
    BY <2>1, PromisedExactly
  <2>3. Service!Vacant \in Exactly("idle", NoSession, NoSession, <<>>, <<>>, "none")
    BY DEF Service!Vacant, Exactly
  <2> QED
    BY <2>2, <2>3, OnlyOne
<1>2. [t \in Streams |-> Promised(st[t])] = [t \in Streams |-> Service!Vacant]
  BY <1>1 DEF Init
<1> QED
  BY <1>2 DEF Init, Service!Init

\* The coroutines of a worker implement StreamService: no hint is lost to a
\* heartbeat, reordered, sent twice or sent after its session ended, a refusal
\* and auth-required are true, and a place is free before auth-required is
\* written (realtime_stream.py:179, realtime_auth.py:207).
THEOREM Implements == Spec => Promise
<1>1. Init => Service!Init
  BY InitSimulated
<1>2. IInv /\ [Next]_svars => [Service!Next]_(Service!pvars)
  BY NextSimulated
<1> QED
  BY <1>1, <1>2, Invariance, PTL DEF Spec, Promise, Service!Spec

=============================================================================
