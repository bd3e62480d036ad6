---------------------------- MODULE RealtimeProofs ----------------------------
(***************************************************************************)
(* A device and a worker together, for any connections, sessions and        *)
(* limits: the device has one connection or waits for one, and nobody is    *)
(* signed out without a cause.                                              *)
(***************************************************************************)
EXTENDS RealtimeProperties, SequenceTheorems, TLAPS

-----------------------------------------------------------------------------
\* The invariant.  The client's half speaks of the client alone.
Present == connection # NoConn => cn[connection].owner = owner /\ cn[connection].pc # "free"
ClientInv ==
  /\ owner \in OptSession /\ connection \in Conns \cup {NoConn}
  /\ cn \in [Conns -> ClientRecord] /\ timer \in BOOLEAN /\ disabled \in BOOLEAN
  /\ OneConnection /\ NeverStalls /\ Present

\* The server's record x of a connection that was opened for an owner o, with the
\* valid sessions v and the device's cookie k.  Cookies come in order and an
\* owner was the cookie once, so that a request for o carried o or a later one;
\* what accuses it is true of o now.
Typed(x) == x \in ServerRecord /\ (x.phase # "idle" => {x.session, x.claim} \subseteq Sessions)
Accused(x) ==
  \/ x.reply \in {"401", "403"}
  \/ \E i \in 1 .. Len(x.wire) : x.wire[i] = "auth-required"
Meant(x, o, v, k) ==
  /\ x.phase # "idle" => x.claim = o /\ o <= x.session /\ x.session <= k
  /\ Accused(x) => o \notin v \/ o < k

IInv ==
  /\ TypeOK /\ ClientInv /\ owner <= cookie
  /\ \A c \in Conns : Typed(sv[c])
  /\ \A c \in Conns : cn[c].pc # "free" => /\ cn[c].owner \in Sessions /\ cn[c].owner <= cookie
                                           /\ Meant(sv[c], cn[c].owner, valid, cookie)

\* A step of the client that opens nothing.
OpensNothing ==
  /\ owner' \in {owner, NoSession}
  /\ \A c \in Conns : cn'[c].pc # "free" => cn[c].pc # "free" /\ cn'[c].owner = cn[c].owner
\* A step of the server that keeps the types and the meaning of x.
Follows(x, y) ==
  /\ Typed(y)
  /\ \A o \in Sessions : Meant(x, o, valid, cookie) => Meant(y, o, valid, cookie)

\* What the assumption says of the sets used below.
LEMMA Constants ==
  /\ Sessions \subseteq Nat /\ NoSession = 0 /\ 0 \notin Sessions /\ NoConn \notin Conns
  /\ OptSession = Sessions \cup {NoSession}
BY RealtimeConstants DEF OptSession

-----------------------------------------------------------------------------
\* The client.
LEMMA FreeIs ==
  /\ Client!Free \in ClientRecord /\ Client!Free.pc = "free" /\ ~Client!Free.live
  /\ ~Client!Free.watch /\ ~Client!Free.lease
BY Constants DEF Client!Free, ClientRecord

\* A connection that is opened, and one that is aborted.
LEMMA OpeningIs ==
  ASSUME NEW o \in OptSession
  PROVE  /\ Client!Opening(o) \in ClientRecord /\ Client!Opening(o).pc = "fetching"
         /\ Client!Opening(o).owner = o /\ Client!Opening(o).live
BY FreeIs DEF Client!Opening, Client!Free, ClientRecord

LEMMA AbortedIs ==
  ASSUME NEW x \in ClientRecord
  PROVE  /\ Client!Aborted(x) \in ClientRecord /\ Client!Aborted(x).pc = x.pc
         /\ Client!Aborted(x).owner = x.owner /\ ~Client!Aborted(x).live
         /\ ~Client!Aborted(x).watch /\ ~Client!Aborted(x).lease
BY DEF Client!Aborted, ClientRecord

\* A connection is closed: nothing is left of it, or a coroutine that has nothing
\* armed.
LEMMA ClosesKeeps ==
  ASSUME ClientInv, NEW c \in Conns, NEW rest \in ClientRecord, Client!Closes(c, rest),
         ~rest.live, ~rest.watch, ~rest.lease,
         rest.pc # "free" => rest.pc = cn[c].pc /\ rest.owner = cn[c].owner,
         timer' \in BOOLEAN, disabled' \in BOOLEAN, owner' \in {owner, NoSession},
         owner' # owner => connection = c /\ ~timer',
         timer' => owner # NoSession,
         timer' => timer \/ connection = c,
         timer => timer' \/ owner' = NoSession,
         disabled => disabled' \/ owner' = NoSession,
         connection = c => timer' \/ disabled' \/ owner' = NoSession
  PROVE  ClientInv' /\ OpensNothing
<1>1. /\ cn' \in [Conns -> ClientRecord] /\ cn'[c] = rest
      /\ \A d \in Conns \ {c} : cn'[d] = cn[d]
      /\ connection' = IF connection = c THEN NoConn ELSE connection
  BY DEF ClientInv, Client!Closes
<1>2. owner' \in OptSession /\ connection' \in Conns \cup {NoConn}
  BY <1>1 DEF ClientInv, OptSession
<1>3. OneConnection'
  BY <1>1, Constants DEF ClientInv, OneConnection
<1>4. NeverStalls'
  BY <1>1, Constants DEF ClientInv, NeverStalls, OneConnection
<1>5. Present'
  BY <1>1, Constants DEF ClientInv, Present
<1>6. OpensNothing
  BY <1>1 DEF OpensNothing
<1> QED
  BY <1>1, <1>2, <1>3, <1>4, <1>5, <1>6 DEF ClientInv

\* retry(c) for the connection of the owner.
LEMMA RetriesKeeps ==
  ASSUME ClientInv, NEW c \in Conns, connection = c,
         NEW rest \in ClientRecord, ~rest.live, ~rest.watch, ~rest.lease,
         rest.pc # "free" => rest.pc = cn[c].pc /\ rest.owner = cn[c].owner,
         Client!Retries(c, rest)
  PROVE  ClientInv' /\ OpensNothing
<1>1. owner # NoSession /\ Client!Owns(c) /\ ~timer
  BY Constants DEF ClientInv, OneConnection, Present, Client!Owns
<1>2. Client!Closes(c, rest) /\ timer' = TRUE /\ owner' = owner /\ disabled' = disabled
  BY <1>1 DEF Client!Retries, ClientInv
<1>3. disabled' \in BOOLEAN
  BY <1>2 DEF ClientInv
<1> QED
  BY <1>1, <1>2, <1>3, ClosesKeeps

\* The owner is signed out by its stream.
LEMMA AuthRequiredKeeps ==
  ASSUME ClientInv, NEW c \in Conns, Client!Owns(c), Client!AuthRequired(c)
  PROVE  ClientInv' /\ OpensNothing
<1>1. /\ connection = c /\ Client!Closes(c, Client!Free) /\ owner' = NoSession
      /\ timer' = FALSE /\ disabled' = FALSE
  BY DEF Client!AuthRequired, Client!Owns
<1> QED
  BY <1>1, FreeIs, ClosesKeeps

\* A record is changed without its transport, its timers or its owner.
LEMMA GoesOn ==
  ASSUME ClientInv, NEW c \in Conns, NEW x \in ClientRecord, cn[c].pc # "free",
         cn' = [cn EXCEPT ![c] = x], UNCHANGED <<owner, connection, timer, disabled>>,
         x.pc # "free", x.owner = cn[c].owner, x.live = cn[c].live, x.watch = cn[c].watch,
         x.lease = cn[c].lease
  PROVE  ClientInv' /\ OpensNothing
<1>1. /\ cn' \in [Conns -> ClientRecord] /\ cn'[c] = x
      /\ \A d \in Conns \ {c} : cn'[d] = cn[d]
  BY DEF ClientInv
<1>2. OneConnection'
  BY <1>1 DEF ClientInv, OneConnection
<1>3. NeverStalls'
  BY DEF ClientInv, NeverStalls
<1>4. Present'
  BY <1>1 DEF ClientInv, Present
<1>5. OpensNothing
  BY <1>1 DEF OpensNothing
<1> QED
  BY <1>1, <1>2, <1>3, <1>4, <1>5 DEF ClientInv

\* The server has answered: a body to read, a refusal, or a retry.
LEMMA ResponseKeeps ==
  ASSUME ClientInv, NEW c \in Conns, NEW kind, Client!Response(c, kind)
  PROVE  ClientInv' /\ OpensNothing
<1>1. cn[c].pc = "fetching" /\ Client!Owns(c) /\ connection = c /\ cn[c] \in ClientRecord
  BY DEF Client!Response, Client!Owns, ClientInv
<1>2. CASE /\ cn' = [cn EXCEPT ![c].pc = "reading"]
           /\ UNCHANGED <<owner, connection, timer, disabled>>
  <2> DEFINE x == [cn[c] EXCEPT !.pc = "reading"]
  <2>1. /\ x \in ClientRecord /\ x.pc # "free" /\ x.owner = cn[c].owner /\ x.live = cn[c].live
        /\ x.watch = cn[c].watch /\ x.lease = cn[c].lease
    BY <1>1 DEF ClientRecord
  <2>2. cn' = [cn EXCEPT ![c] = x]
    BY <1>2
  <2> HIDE DEF x
  <2> QED
    BY <1>1, <1>2, <2>1, <2>2, GoesOn
<1>3. CASE Client!AuthRequired(c)
  BY <1>1, <1>3, AuthRequiredKeeps
<1>4. CASE Client!Closes(c, Client!Free) /\ disabled' = TRUE /\ UNCHANGED <<owner, timer>>
  <2>1. timer' = FALSE
    BY <1>1, <1>4, Constants DEF ClientInv, OneConnection
  <2>2. timer = FALSE /\ owner' = owner /\ disabled' = TRUE
    BY <1>4, <2>1
  <2> QED
    BY <1>1, <1>4, <2>1, <2>2, FreeIs, ClosesKeeps
<1>5. CASE Client!Retries(c, Client!Free)
  BY <1>1, <1>5, FreeIs, RetriesKeeps
<1> QED
  BY <1>2, <1>3, <1>4, <1>5 DEF Client!Response

\* A frame of the body: a hint, a heartbeat or the end of the session.
LEMMA FrameKeeps ==
  ASSUME ClientInv, NEW c \in Conns, NEW event, Client!Frame(c, event)
  PROVE  ClientInv' /\ OpensNothing
<1>1. cn[c].pc = "reading" /\ Client!Owns(c) /\ cn[c] \in ClientRecord
  BY DEF Client!Frame, ClientInv
<1>2. CASE Client!AuthRequired(c)
  BY <1>1, <1>2, AuthRequiredKeeps
<1>3. CASE /\ cn' = [cn EXCEPT ![c].synced = @ \/ event = "resync"]
           /\ UNCHANGED <<owner, connection, timer, disabled>>
  <2> DEFINE x == [cn[c] EXCEPT !.synced = @ \/ event = "resync"]
  <2>1. /\ x \in ClientRecord /\ x.pc # "free" /\ x.owner = cn[c].owner /\ x.live = cn[c].live
        /\ x.watch = cn[c].watch /\ x.lease = cn[c].lease
    BY <1>1 DEF ClientRecord
  <2>2. cn' = [cn EXCEPT ![c] = x]
    BY <1>3
  <2> HIDE DEF x
  <2> QED
    BY <1>1, <1>3, <2>1, <2>2, GoesOn
<1> QED
  BY <1>2, <1>3 DEF Client!Frame

\* Whatever ends a connection by itself.
LEMMA EndsKeeps ==
  ASSUME ClientInv, NEW c \in Conns,
         Client!Broken(c) \/ Client!Settles(c) \/ Client!Watchdog(c) \/ Client!Lease(c)
  PROVE  ClientInv' /\ OpensNothing
<1>0. cn[c] \in ClientRecord
  BY DEF ClientInv
<1>1. CASE Client!Broken(c)
  BY <1>1, FreeIs, RetriesKeeps DEF Client!Broken, Client!Owns
<1>2. CASE Client!Settles(c)
  <2>1. connection # c /\ Client!Closes(c, Client!Free) /\ UNCHANGED <<owner, timer, disabled>>
    BY <1>2, Constants DEF Client!Settles, Client!Owns, ClientInv, Present
  <2>2. timer \in BOOLEAN /\ disabled \in BOOLEAN /\ (timer => owner # NoSession)
    BY DEF ClientInv, OneConnection
  <2> QED
    BY <2>1, <2>2, FreeIs, ClosesKeeps
<1>3. CASE Client!Watchdog(c) \/ Client!Lease(c)
  <2>1. connection = c /\ Client!Retries(c, Client!Aborted(cn[c]))
    BY <1>3 DEF Client!Watchdog, Client!Lease, ClientInv, OneConnection
  <2>2. /\ Client!Aborted(cn[c]) \in ClientRecord /\ ~Client!Aborted(cn[c]).live
        /\ ~Client!Aborted(cn[c]).watch /\ ~Client!Aborted(cn[c]).lease
        /\ Client!Aborted(cn[c]).pc = cn[c].pc /\ Client!Aborted(cn[c]).owner = cn[c].owner
    BY <1>0, AbortedIs
  <2> QED
    BY <2>1, <2>2, RetriesKeeps
<1> QED
  BY <1>1, <1>2, <1>3

\* A connection is opened for an owner.
LEMMA OpensKeeps ==
  ASSUME ClientInv, connection = NoConn, NEW c \in Conns, cn[c].pc = "free", owner' \in Sessions,
         connection' = c, cn' = [cn EXCEPT ![c] = Client!Opening(owner')], timer' = FALSE,
         disabled' \in BOOLEAN
  PROVE  /\ ClientInv' /\ cn'[c].owner = owner'
         /\ \A d \in Conns \ {c} : cn'[d] = cn[d]
<1>1. /\ cn' \in [Conns -> ClientRecord] /\ cn'[c] = Client!Opening(owner')
      /\ \A d \in Conns \ {c} : cn'[d] = cn[d]
      /\ cn'[c].pc = "fetching" /\ cn'[c].owner = owner' /\ cn'[c].live
  BY OpeningIs, Constants DEF ClientInv
<1>2. OneConnection'
  BY <1>1, Constants DEF ClientInv, OneConnection
<1>3. NeverStalls'
  BY Constants DEF NeverStalls
<1>4. Present'
  BY <1>1 DEF Present
<1> QED
  BY <1>1, <1>2, <1>3, <1>4, Constants DEF ClientInv

\* The shell shows an owner when there is none.
LEMMA ShownKeeps ==
  ASSUME ClientInv, owner = NoSession, NEW next \in Sessions, NEW c \in Conns,
         Client!SetOwner(next, c)
  PROVE  /\ ClientInv' /\ owner' = next /\ cn'[c].owner = next
         /\ \A d \in Conns \ {c} : cn'[d] = cn[d]
<1>1. connection = NoConn
  BY Constants DEF ClientInv, OneConnection
<1>2. /\ owner' = next /\ timer' = FALSE /\ disabled' = FALSE /\ connection' = c
      /\ cn[c].pc = "free" /\ cn' = [cn EXCEPT ![c] = Client!Opening(next)]
  BY <1>1, Constants DEF Client!SetOwner
<1> QED
  BY <1>1, <1>2, OpensKeeps

\* The shell takes the owner away.
LEMMA HiddenKeeps ==
  ASSUME ClientInv, NEW c, Client!SetOwner(NoSession, c)
  PROVE  ClientInv' /\ OpensNothing
<1>1. /\ owner' = NoSession /\ timer' = FALSE /\ disabled' = FALSE /\ connection' = NoConn
      /\ cn' = IF connection = NoConn THEN cn
               ELSE [cn EXCEPT ![connection] = Client!Aborted(@)]
  BY DEF Client!SetOwner
<1>2. CASE connection = NoConn
  <2>1. cn' = cn
    BY <1>1, <1>2
  <2> QED
    BY <1>1, <1>2, <2>1, Constants
    DEF ClientInv, OneConnection, NeverStalls, Present, OpensNothing
<1>3. CASE connection \in Conns
  <2> DEFINE c1 == connection
             x == Client!Aborted(cn[c1])
  <2>1. cn[c1] \in ClientRecord /\ cn' = [cn EXCEPT ![c1] = x]
    BY <1>1, <1>3, Constants DEF ClientInv
  <2>2. /\ x \in ClientRecord /\ ~x.live /\ ~x.watch /\ ~x.lease /\ x.pc = cn[c1].pc
        /\ x.owner = cn[c1].owner
    BY <2>1, AbortedIs
  <2> HIDE DEF x
  <2>3. /\ Client!Closes(c1, x) /\ timer' \in BOOLEAN /\ ~timer' /\ disabled' \in BOOLEAN
        /\ owner' \in {owner, NoSession}
    BY <1>1, <2>1 DEF Client!Closes
  <2> QED
    BY <1>1, <1>3, <2>2, <2>3, ClosesKeeps
<1> QED
  BY <1>2, <1>3 DEF ClientInv

\* The retry timer fires.
LEMMA TimerKeeps ==
  ASSUME ClientInv, NEW c \in Conns, Client!TimerFires(c)
  PROVE  /\ ClientInv' /\ owner' = owner /\ owner \in Sessions /\ cn'[c].owner = owner
         /\ \A d \in Conns \ {c} : cn'[d] = cn[d]
<1>1. owner \in Sessions /\ disabled \in BOOLEAN
  BY Constants DEF ClientInv, OneConnection, Client!TimerFires
<1> QED
  BY <1>1, OpensKeeps DEF Client!TimerFires

-----------------------------------------------------------------------------
\* The server.  What a step makes of the record of one stream.
LEMMA VacantIs ==
  /\ Server!Vacant \in ServerRecord
  /\ Server!Vacant.phase = "idle" /\ Server!Vacant.reply = "none" /\ Server!Vacant.wire = <<>>
BY DEF Server!Vacant, ServerRecord, Phases, Replies, OptSession

\* A request that is over keeps the frames that are on the wire.
LEMMA OverIs ==
  ASSUME NEW x \in ServerRecord, NEW reply \in Replies
  PROVE  /\ Server!Over(x, reply) \in ServerRecord /\ Server!Over(x, reply).phase = "idle"
         /\ Server!Over(x, reply).wire = x.wire /\ Server!Over(x, reply).reply = reply
BY VacantIs DEF Server!Over, ServerRecord

\* It accuses the owner only for a cause that is true of him now.
LEMMA OverFollows ==
  ASSUME NEW x, Typed(x), NEW reply \in Replies,
         \/ reply = x.reply \/ reply \notin {"401", "403"}
         \/ x.phase # "idle" /\ reply = "401" /\ x.session \notin valid
         \/ x.phase # "idle" /\ reply = "403" /\ x.session # x.claim,
         cookie \in Sessions
  PROVE  Follows(x, Server!Over(x, reply))
<1> DEFINE y == Server!Over(x, reply)
<1>0. x \in ServerRecord /\ (x.phase # "idle" => x.session \in Sessions /\ x.claim \in Sessions)
  BY DEF Typed
<1>1. y \in ServerRecord
  BY <1>0, OverIs
<1>2. y.phase = "idle" /\ y.wire = x.wire /\ y.reply = reply
  BY <1>0, OverIs
<1> HIDE DEF y
<1>3. ASSUME NEW o \in Sessions, Meant(x, o, valid, cookie)
      PROVE  Meant(y, o, valid, cookie)
  <2>1. CASE Accused(x)
    BY <1>2, <1>3, <2>1 DEF Meant
  <2>2. CASE ~Accused(x)
    <3>1. ASSUME Accused(y) PROVE o \notin valid \/ o < cookie
      <4>1. /\ x.phase # "idle"
            /\ x.session \notin valid \/ x.session # x.claim
        BY <1>2, <2>2, <3>1 DEF Accused
      <4>2. x.claim = o /\ o <= x.session /\ x.session <= cookie
        BY <1>3, <4>1 DEF Meant
      <4>3. o \in Nat /\ x.session \in Nat /\ cookie \in Nat
        BY <1>0, <4>1, Constants
      <4> QED
        BY <4>1, <4>2, <4>3
    <3> QED
      BY <1>2, <3>1 DEF Meant
  <2> QED
    BY <2>1, <2>2
<1> QED
  BY <1>1, <1>2, <1>3 DEF Follows, Typed, y

\* A record that accuses nobody anew.
LEMMA NoNewsFollows ==
  ASSUME NEW x, NEW y, y \in ServerRecord, Typed(x), y.session = x.session, y.claim = x.claim,
         x.phase # "idle" \/ y.phase = "idle", Accused(y) => Accused(x)
  PROVE  Follows(x, y)
BY DEF Follows, Typed, Meant

\* A request for an owner is answered to nobody else.
LEMMA ConnectMeant ==
  ASSUME NEW c \in Conns, sv \in [Conns -> ServerRecord], NEW k \in Sessions, NEW o \in Sessions,
         o <= k, Server!Connect(c, k, o), NEW v
  PROVE  /\ Typed(sv'[c]) /\ Meant(sv'[c], o, v, k)
         /\ \A d \in Conns \ {c} : sv'[d] = sv[d]
         /\ UNCHANGED valid
<1> DEFINE y == [Server!Vacant EXCEPT !.phase = "asked", !.session = k, !.claim = o]
<1>1. /\ y.phase = "asked" /\ y.session = k /\ y.claim = o /\ y.reply = "none" /\ y.wire = <<>>
      /\ y \in ServerRecord
  BY VacantIs DEF ServerRecord, Phases, OptSession
<1>2. sv' = [sv EXCEPT ![c] = y] /\ UNCHANGED valid
  BY DEF Server!Connect, Server!Step
<1> HIDE DEF y
<1>3. sv'[c] = y /\ \A d \in Conns \ {c} : sv'[d] = sv[d]
  BY <1>2
<1>4. ~Accused(y)
  BY <1>1 DEF Accused
<1>5. k \in Nat
  BY Constants
<1> QED
  BY <1>1, <1>2, <1>3, <1>4, <1>5 DEF Typed, Meant

\* The steps of a stream that are not a request.
LEMMA ServeFollows ==
  ASSUME IInv, NEW c \in Conns, Server!Serve(c) \/ Server!Take(c)
  PROVE  /\ Follows(sv[c], sv'[c])
         /\ \A d \in Conns \ {c} : sv'[d] = sv[d]
         /\ UNCHANGED valid
<1> DEFINE x == sv[c]
<1>0. Typed(x) /\ x \in ServerRecord /\ cookie \in Sessions /\ sv \in [Conns -> ServerRecord]
  BY DEF IInv, TypeOK, Typed
<1>1. ASSUME NEW y, Server!Step(c, y), Follows(x, y)
      PROVE  /\ Follows(sv[c], sv'[c])
             /\ \A d \in Conns \ {c} : sv'[d] = sv[d]
             /\ UNCHANGED valid
  BY <1>0, <1>1 DEF Server!Step
<1>2. CASE Server!Refuse(c) \/ Server!Deny(c)
  <2>1. PICK reply \in {"401", "403", "404", "503", "none"} :
          /\ Server!Step(c, Server!Over(x, reply))
          /\ x.phase # "idle"
          /\ reply \notin {"401", "403"} \/ Server!Cause(c, reply)
    BY <1>2 DEF Server!Refuse, Server!Deny
  <2>2. Follows(x, Server!Over(x, reply))
    BY <1>0, <2>1, OverFollows DEF Server!Cause, Replies
  <2> QED
    BY <1>1, <2>1, <2>2
<1>3. CASE Server!Admit(c) \/ Server!Subscribe(c) \/ Server!Open(c) \/ Server!Close(c)
  <2>1. PICK y : /\ Server!Step(c, y) /\ x.phase # "idle"
                 /\ \/ y = [x EXCEPT !.phase = "admitted"]
                    \/ y = [x EXCEPT !.owed = <<"resync">>]
                    \/ y = [x EXCEPT !.phase = "open", !.reply = "200"]
                    \/ y = [x EXCEPT !.phase = "closing", !.owed = <<>>]
    BY <1>3 DEF Server!Admit, Server!Subscribe, Server!Open, Server!Close
  <2>2. <<"resync">> \in Seq(Hints) /\ <<>> \in Seq(Hints)
    BY DEF Hints
  <2>3. /\ y \in ServerRecord /\ y.session = x.session /\ y.claim = x.claim /\ y.wire = x.wire
        /\ y.reply = x.reply \/ y.reply = "200"
    BY <1>0, <2>1, <2>2 DEF ServerRecord, Phases, Replies
  <2>4. Accused(y) => Accused(x)
    BY <2>3 DEF Accused
  <2>5. Follows(x, y)
    BY <1>0, <2>1, <2>3, <2>4, NoNewsFollows
  <2> QED
    BY <1>1, <2>1, <2>5
<1>4. CASE Server!SendHint(c) \/ Server!SendHeartbeat(c)
  <2>1. PICK frame \in Hints \cup {"heartbeat"}, owed \in Seq(Hints) :
          /\ Server!Step(c, [x EXCEPT !.wire = Append(@, frame), !.owed = owed])
          /\ x.phase # "idle"
    <3>1. CASE Server!SendHint(c)
      <4>1. x.owed \in Seq(Hints) /\ x.owed # <<>>
        BY <1>0, <3>1 DEF Server!SendHint, ServerRecord
      <4>2. Head(x.owed) \in Hints /\ Tail(x.owed) \in Seq(Hints)
        BY <4>1, HeadTailProperties
      <4>3. Server!Step(c, [x EXCEPT !.wire = Append(@, Head(x.owed)), !.owed = Tail(x.owed)])
        BY <3>1 DEF Server!SendHint
      <4> QED
        BY <3>1, <4>2, <4>3 DEF Server!SendHint
    <3>2. CASE Server!SendHeartbeat(c)
      <4>1. x.owed \in Seq(Hints)
        BY <1>0 DEF ServerRecord
      <4>2. [x EXCEPT !.wire = Append(@, "heartbeat")]
              = [x EXCEPT !.wire = Append(@, "heartbeat"), !.owed = x.owed]
        BY <1>0 DEF ServerRecord
      <4>3. Server!Step(c, [x EXCEPT !.wire = Append(@, "heartbeat"), !.owed = x.owed])
        BY <3>2, <4>2 DEF Server!SendHeartbeat
      <4> QED
        BY <3>2, <4>1, <4>3 DEF Server!SendHeartbeat
    <3> QED
      BY <1>4, <3>1, <3>2
  <2> DEFINE y == [x EXCEPT !.wire = Append(@, frame), !.owed = owed]
  <2>2. x.wire \in Seq(Frames) /\ frame \in Frames /\ frame # "auth-required"
    BY <1>0 DEF ServerRecord, Frames, Hints
  <2>3. /\ Append(x.wire, frame) \in Seq(Frames)
        /\ Len(Append(x.wire, frame)) = Len(x.wire) + 1 /\ Len(x.wire) \in Nat
        /\ \A i \in 1 .. Len(x.wire) : Append(x.wire, frame)[i] = x.wire[i]
        /\ Append(x.wire, frame)[Len(x.wire) + 1] = frame
    BY <2>2, AppendProperties, LenProperties
  <2>4. /\ y \in ServerRecord /\ y.session = x.session /\ y.claim = x.claim
        /\ y.wire = Append(x.wire, frame) /\ y.reply = x.reply
    BY <1>0, <2>3 DEF ServerRecord
  <2> HIDE DEF y
  <2>5. Accused(y) => Accused(x)
    BY <2>2, <2>3, <2>4 DEF Accused
  <2>6. Follows(x, y)
    BY <1>0, <2>1, <2>4, <2>5, NoNewsFollows
  <2> QED
    BY <1>1, <2>1, <2>6 DEF y
<1>5. CASE Server!Release(c)
  <2>1. CASE Server!Step(c, [x EXCEPT !.phase = "released"])
    <3> DEFINE y == [x EXCEPT !.phase = "released"]
    <3>1. /\ y \in ServerRecord /\ y.session = x.session /\ y.claim = x.claim /\ y.wire = x.wire
          /\ y.reply = x.reply
      BY <1>0 DEF ServerRecord, Phases
    <3> HIDE DEF y
    <3>2. Accused(y) => Accused(x)
      BY <3>1 DEF Accused
    <3>3. Follows(x, y)
      BY <1>0, <1>5, <3>1, <3>2, NoNewsFollows DEF Server!Release
    <3> QED
      BY <1>1, <2>1, <3>3 DEF y
  <2>2. CASE Server!Step(c, Server!Over(x, x.reply))
    <3>1. Follows(x, Server!Over(x, x.reply))
      BY <1>0, OverFollows DEF ServerRecord
    <3> QED
      BY <1>1, <2>2, <3>1
  <2> QED
    BY <1>5, <2>1, <2>2 DEF Server!Release
<1>6. CASE Server!Finish(c)
  <2>0. x.phase # "idle"
    BY <1>6 DEF Server!Finish
  <2>1. CASE x.reply = "none" /\ \E reply \in {"401", "503", "none"} :
               Server!Cause(c, reply) /\ Server!Step(c, Server!Over(x, reply))
    <3>1. PICK reply \in {"401", "503", "none"} :
            Server!Cause(c, reply) /\ Server!Step(c, Server!Over(x, reply))
      BY <2>1
    <3>2. Follows(x, Server!Over(x, reply))
      BY <1>0, <2>0, <3>1, OverFollows DEF Server!Cause, Replies
    <3> QED
      BY <1>1, <3>1, <3>2
  <2>2. CASE x.reply = "200" /\ Server!Step(c, Server!Over(x, "200"))
    <3>1. Follows(x, Server!Over(x, "200"))
      BY <1>0, OverFollows DEF Replies
    <3> QED
      BY <1>1, <2>2, <3>1
  <2>3. CASE /\ x.reply = "200" /\ x.session \notin valid
             /\ Server!Step(c, [Server!Over(x, "200") EXCEPT !.wire = Append(@, "auth-required")])
    <3> DEFINE y == [Server!Over(x, "200") EXCEPT !.wire = Append(@, "auth-required")]
    <3>1. x.wire \in Seq(Frames) /\ "auth-required" \in Frames
      BY <1>0 DEF ServerRecord, Frames
    <3>2. Append(x.wire, "auth-required") \in Seq(Frames)
      BY <3>1, AppendProperties
    <3>3. y \in ServerRecord /\ y.phase = "idle"
      <4> DEFINE over == Server!Over(x, "200")
      <4>1. over \in ServerRecord /\ over.phase = "idle" /\ over.wire = x.wire
        BY <1>0, OverIs DEF Replies
      <4> HIDE DEF over
      <4>2. [over EXCEPT !.wire = Append(@, "auth-required")] \in ServerRecord
        BY <3>2, <4>1 DEF ServerRecord
      <4>3. [over EXCEPT !.wire = Append(@, "auth-required")].phase = "idle"
        BY <4>1 DEF ServerRecord
      <4> QED
        BY <4>2, <4>3 DEF over
    <3> HIDE DEF y
    <3>4. ASSUME NEW o \in Sessions, Meant(x, o, valid, cookie)
          PROVE  Meant(y, o, valid, cookie)
      <4>1. x.claim = o /\ o <= x.session /\ x.session <= cookie /\ x.session \in Sessions
        BY <1>0, <2>0, <3>4 DEF Meant, Typed
      <4>2. o \in Nat /\ x.session \in Nat /\ cookie \in Nat
        BY <1>0, <4>1, Constants
      <4>3. o \notin valid \/ o < cookie
        BY <2>3, <4>1, <4>2
      <4> QED
        BY <3>3, <4>3 DEF Meant
    <3>5. Follows(x, y)
      BY <3>3, <3>4 DEF Follows, Typed
    <3> QED
      BY <1>1, <2>3, <3>5 DEF y
  <2> QED
    BY <1>6, <2>1, <2>2, <2>3 DEF Server!Finish
<1>7. CASE Server!Take(c)
  <2> DEFINE y == [x EXCEPT !.wire = Tail(@)]
  <2>1. x.wire \in Seq(Frames) /\ x.wire # <<>> /\ Server!Step(c, y)
    BY <1>0, <1>7 DEF Server!Take, ServerRecord
  <2>2. /\ Tail(x.wire) \in Seq(Frames) /\ Len(Tail(x.wire)) = Len(x.wire) - 1
        /\ Len(x.wire) \in Nat
        /\ \A i \in 1 .. Len(Tail(x.wire)) : Tail(x.wire)[i] = x.wire[i + 1]
    BY <2>1, HeadTailProperties, LenProperties
  <2>3. /\ y \in ServerRecord /\ y.session = x.session /\ y.claim = x.claim
        /\ y.wire = Tail(x.wire) /\ y.reply = x.reply /\ y.phase = x.phase
    BY <1>0, <2>2 DEF ServerRecord
  <2> HIDE DEF y
  <2>4. ASSUME NEW i \in 1 .. Len(y.wire), y.wire[i] = "auth-required"
        PROVE  i + 1 \in 1 .. Len(x.wire) /\ x.wire[i + 1] = "auth-required"
    BY <2>2, <2>3, <2>4
  <2>5. Accused(y) => Accused(x)
    BY <2>3, <2>4 DEF Accused
  <2>6. Follows(x, y)
    BY <1>0, <2>3, <2>5, NoNewsFollows
  <2> QED
    BY <1>1, <2>1, <2>6
<1> QED
  BY <1>2, <1>3, <1>4, <1>5, <1>6, <1>7 DEF Server!Serve

\* A publication adds hints.
LEMMA PublishFollows ==
  ASSUME IInv, NEW user \in Users, Server!Publish(user)
  PROVE  /\ sv' \in [Conns -> ServerRecord] /\ UNCHANGED valid
         /\ \A c \in Conns : Follows(sv[c], sv'[c])
<1>1. UNCHANGED valid /\ \A c \in Conns : sv'[c] \in Server!Kept(sv[c], user)
  BY DEF Server!Publish
<1>2. ASSUME NEW c \in Conns
      PROVE  Follows(sv[c], sv'[c])
  <2> DEFINE x == sv[c]
             y == sv'[c]
  <2>0. Typed(x) /\ x \in ServerRecord /\ x.owed \in Seq(Hints)
    BY DEF IInv, Typed, ServerRecord
  <2>1. CASE y = x
    BY <2>0, <2>1, NoNewsFollows
  <2>2. CASE y # x
    <3> DEFINE kept == {SubSeq(x.owed, 1, n) : n \in 0 .. Len(x.owed)}
               grown == IF x.session \in valid
                        THEN {Append(x.owed, "change")} \cup {Append(k, "resync") : k \in kept}
                        ELSE kept
    <3>0. Server!Kept(x, user) \subseteq {x} \cup {[x EXCEPT !.owed = hints] : hints \in grown}
      BY DEF Server!Kept
    <3>1. PICK owed \in grown : y = [x EXCEPT !.owed = owed]
      <4> HIDE DEF grown
      <4> QED
        BY <1>1, <2>2, <3>0
    <3>2. \A n \in 0 .. Len(x.owed) : SubSeq(x.owed, 1, n) \in Seq(Hints)
      <4>1. TAKE n \in 0 .. Len(x.owed)
      <4>2. Len(x.owed) \in Nat
        BY <2>0, LenProperties
      <4>3. \A i \in 1 .. n : x.owed[i] \in Hints
        BY <2>0, <4>2, ElementOfSeq
      <4>4. n \in Int /\ 1 \in Int
        BY <4>2
      <4> QED
        BY <2>0, <4>3, <4>4, SubSeqProperties
    <3>3. owed \in Seq(Hints)
      <4>1. kept \subseteq Seq(Hints) /\ {"change", "resync"} \subseteq Hints
        BY <3>2 DEF Hints
      <4>2. \A k \in Seq(Hints) : Append(k, "change") \in Seq(Hints)
                                  /\ Append(k, "resync") \in Seq(Hints)
        BY <4>1, AppendProperties
      <4> HIDE DEF kept
      <4> QED
        BY <2>0, <3>1, <4>1, <4>2
    <3>4. /\ y \in ServerRecord /\ y.session = x.session /\ y.claim = x.claim /\ y.wire = x.wire
          /\ y.reply = x.reply /\ y.phase = x.phase
      BY <2>0, <3>1, <3>3 DEF ServerRecord
    <3>5. Accused(y) => Accused(x)
      BY <3>4 DEF Accused
    <3> QED
      BY <2>0, <3>4, <3>5, NoNewsFollows
  <2> QED
    BY <2>1, <2>2
<1>3. PICK next \in [Conns -> UNION {Server!Kept(sv[c], user) : c \in Conns}] : sv' = next
  BY DEF Server!Publish
<1> QED
  BY <1>1, <1>2, <1>3 DEF Follows, Typed

-----------------------------------------------------------------------------
\* Both together.
LEMMA FaultsIs ==
  ASSUME IInv, NEW works, If(works) \/ Works \/ Fails
  PROVE  faults' \in 0 .. MaxFaults
BY RealtimeConstants DEF If, Works, Fails, IInv, TypeOK

\* Steps in which one of the two ends rests, or the server serves.
LEMMA ClientRests ==
  ASSUME IInv, UNCHANGED client
  PROVE  ClientInv' /\ OpensNothing
<1>1. /\ owner' = owner /\ connection' = connection /\ cn' = cn /\ timer' = timer
      /\ disabled' = disabled
  BY DEF client
<1> QED
  BY <1>1 DEF IInv, ClientInv, OneConnection, NeverStalls, Present, OpensNothing

LEMMA ServerRests ==
  ASSUME IInv, UNCHANGED sv
  PROVE  sv' \in [Conns -> ServerRecord] /\ \A c \in Conns : Follows(sv[c], sv'[c])
BY DEF IInv, TypeOK, Follows

LEMMA ServerServes ==
  ASSUME IInv, NEW c \in Conns, Server!Serve(c) \/ Server!Take(c)
  PROVE  /\ sv' \in [Conns -> ServerRecord] /\ UNCHANGED valid
         /\ \A d \in Conns : Follows(sv[d], sv'[d])
<1>1. /\ Follows(sv[c], sv'[c]) /\ UNCHANGED valid
      /\ \A d \in Conns \ {c} : sv'[d] = sv[d]
  BY ServeFollows
<1>2. \A d \in Conns : Follows(sv[d], sv[d])
  BY DEF IInv, Follows
<1>3. \A d \in Conns : Follows(sv[d], sv'[d])
  BY <1>1, <1>2
<1>4. PICK y : sv' = [sv EXCEPT ![c] = y]
  BY DEF Server!Serve, Server!Take, Server!Refuse, Server!Admit, Server!Deny, Server!Subscribe,
         Server!Open, Server!SendHint, Server!SendHeartbeat, Server!Close, Server!Release,
         Server!Finish, Server!Step
<1>5. sv' = [d \in Conns |-> sv'[d]]
  BY <1>4 DEF IInv, TypeOK
<1> QED
  BY <1>1, <1>3, <1>5 DEF Follows, Typed

\* A step that opens no connection.
LEMMA Together ==
  ASSUME IInv, ClientInv', OpensNothing,
         sv' \in [Conns -> ServerRecord], \A c \in Conns : Follows(sv[c], sv'[c]),
         UNCHANGED <<valid, cookie, root>>,
         version' \in 0 .. MaxVersion, told' \in 0 .. version',
         signedOut' \in BOOLEAN, faults' \in 0 .. MaxFaults
  PROVE  IInv'
<1>1. TypeOK'
  BY DEF IInv, TypeOK, ClientInv, Follows, Typed
<1>2. owner' <= cookie'
  BY Constants DEF IInv, TypeOK, OpensNothing
<1>3. \A c \in Conns : Typed(sv'[c])
  BY DEF Follows
<1>4. ASSUME NEW c \in Conns, cn'[c].pc # "free"
      PROVE  /\ cn'[c].owner \in Sessions /\ cn'[c].owner <= cookie
             /\ Meant(sv'[c], cn'[c].owner, valid, cookie)
  BY <1>4 DEF IInv, OpensNothing, Follows
<1> QED
  BY <1>1, <1>2, <1>3, <1>4 DEF IInv

\* A step that opens a connection for an owner, whom the device's cookie named
\* then or earlier.
LEMMA OpensTogether ==
  ASSUME IInv, ClientInv', NEW c \in Conns, owner' \in Sessions, owner' <= cookie,
         cn'[c].owner = owner', \A d \in Conns \ {c} : cn'[d] = cn[d],
         Server!Connect(c, cookie, owner'), UNCHANGED <<cookie, version>>,
         root' \in OptSession, told' \in 0 .. version, signedOut' \in BOOLEAN,
         faults' \in 0 .. MaxFaults
  PROVE  IInv'
<1>0. sv \in [Conns -> ServerRecord] /\ cookie \in Sessions
  BY DEF IInv, TypeOK
<1>1. /\ Typed(sv'[c]) /\ Meant(sv'[c], owner', valid, cookie)
      /\ \A d \in Conns \ {c} : sv'[d] = sv[d]
      /\ UNCHANGED valid
  BY <1>0, ConnectMeant
<1>2. \A d \in Conns : Typed(sv'[d])
  BY <1>1 DEF IInv
<1>3. sv' \in [Conns -> ServerRecord]
  <2>1. PICK y : sv' = [sv EXCEPT ![c] = y]
    BY DEF Server!Connect, Server!Step
  <2>2. sv' = [d \in Conns |-> sv'[d]]
    BY <1>0, <2>1
  <2> QED
    BY <1>2, <2>2 DEF Typed
<1>4. TypeOK'
  BY <1>1, <1>2, <1>3 DEF IInv, TypeOK, ClientInv, Typed
<1>5. ASSUME NEW d \in Conns, cn'[d].pc # "free"
      PROVE  /\ cn'[d].owner \in Sessions /\ cn'[d].owner <= cookie
             /\ Meant(sv'[d], cn'[d].owner, valid, cookie)
  <2>1. CASE d = c
    BY <1>1, <2>1
  <2>2. CASE d # c
    BY <1>1, <1>5, <2>2 DEF IInv
  <2> QED
    BY <2>1, <2>2
<1> QED
  BY <1>1, <1>2, <1>4, <1>5 DEF IInv

\* The invariant holds at first.
LEMMA InitHolds == Init => IInv
<1> SUFFICES ASSUME Init PROVE IInv
  OBVIOUS
<1>1. sv = [c \in Conns |-> Server!Vacant] /\ valid = Sessions
  BY DEF Init, Server!Init
<1>2. /\ owner = NoSession /\ connection = NoConn /\ cn = [c \in Conns |-> Client!Free]
      /\ timer = FALSE /\ disabled = FALSE
  BY DEF Init, Client!Init
<1>3. /\ cookie \in Sessions /\ root = NoSession /\ version = 0 /\ told = 0
      /\ signedOut = FALSE /\ faults = 0
  BY DEF Init
<1>4. TypeOK
  <2>1. /\ sv \in [Conns -> ServerRecord] /\ \A c \in Conns : sv[c].phase = "idle"
        /\ valid \subseteq Sessions
    BY <1>1, VacantIs
  <2>2. /\ owner \in OptSession /\ connection \in Conns \cup {NoConn}
        /\ cn \in [Conns -> ClientRecord] /\ timer \in BOOLEAN /\ disabled \in BOOLEAN
    BY <1>2, FreeIs, Constants
  <2>3. version \in 0 .. MaxVersion /\ told \in 0 .. version /\ faults \in 0 .. MaxFaults
    BY <1>3, RealtimeConstants
  <2>4. cookie \in Sessions /\ root \in OptSession /\ signedOut \in BOOLEAN
    BY <1>3, Constants
  <2> QED
    BY <2>1, <2>2, <2>3, <2>4 DEF TypeOK
<1>5. ClientInv
  BY <1>2, FreeIs, Constants DEF ClientInv, OneConnection, NeverStalls, Present
<1>6. \A c \in Conns : Typed(sv[c]) /\ cn[c].pc = "free"
  BY <1>1, <1>2, VacantIs, FreeIs DEF Typed
<1>7. owner <= cookie
  BY <1>2, <1>3, Constants
<1> QED
  BY <1>4, <1>5, <1>6, <1>7 DEF IInv

-----------------------------------------------------------------------------
\* One lemma for each kind of step.
LEMMA ShowKeeps ==
  ASSUME IInv, NEW c \in Conns, Show(c) \/ Reconnect(c)
  PROVE  IInv'
<1>0. /\ ClientInv /\ cookie \in Sessions /\ version \in Nat /\ told \in 0 .. version
      /\ root \in OptSession /\ signedOut \in BOOLEAN /\ owner <= cookie
  BY RealtimeConstants DEF IInv, TypeOK
<1>1. CASE Show(c)
  <2>1. /\ ClientInv' /\ owner' = cookie /\ cn'[c].owner = cookie
        /\ \A d \in Conns \ {c} : cn'[d] = cn[d]
    BY <1>0, <1>1, ShownKeeps DEF Show
  <2>2. /\ Server!Connect(c, cookie, cookie) /\ root' = cookie
        /\ told' \in {told, version} /\ signedOut' = FALSE /\ UNCHANGED <<cookie, version>>
        /\ faults' \in 0 .. MaxFaults
    BY <1>1, FaultsIs DEF Show
  <2>3. root' \in OptSession /\ signedOut' \in BOOLEAN
    BY <1>0, <2>2, Constants
  <2>4. told' \in 0 .. version
    BY <1>0, <2>2
  <2>5. cookie <= cookie
    BY <1>0, Constants
  <2> QED
    BY <1>0, <2>1, <2>2, <2>3, <2>4, <2>5, OpensTogether
<1>2. CASE Reconnect(c)
  <2>1. /\ ClientInv' /\ owner' = owner /\ owner \in Sessions /\ cn'[c].owner = owner
        /\ \A d \in Conns \ {c} : cn'[d] = cn[d]
    BY <1>0, <1>2, TimerKeeps DEF Reconnect
  <2>2. /\ Server!Connect(c, cookie, owner) /\ UNCHANGED <<cookie, root, version, told, signedOut>>
        /\ faults' \in 0 .. MaxFaults
    BY <1>2, FaultsIs DEF Reconnect, app
  <2> QED
    BY <1>0, <2>1, <2>2, OpensTogether
<1> QED
  BY <1>1, <1>2

\* Hiding closes the client's connection.
LEMMA HideKeeps ==
  ASSUME IInv, Hide
  PROVE  IInv'
<1>1. ClientInv' /\ OpensNothing
  BY HiddenKeeps DEF Hide, IInv
<1>2. UNCHANGED <<sv, valid, cookie, root, version, told, signedOut>> /\ faults' \in 0 .. MaxFaults
  BY FaultsIs DEF Hide, server, app
<1> QED
  BY <1>1, <1>2, ServerRests, Together DEF IInv, TypeOK

\* The device's cookie and the valid sessions only make an accusation truer.
LEMMA SessionsKeep ==
  ASSUME IInv, ReplaceCookie \/ Revoke
  PROVE  IInv'
<1>1. /\ cookie' \in Sessions /\ cookie <= cookie' /\ valid' \subseteq valid
      /\ UNCHANGED <<sv, client, root, version, told, signedOut>> /\ faults' \in 0 .. MaxFaults
  <2>1. CASE ReplaceCookie
    <3>1. cookie' \in Sessions /\ cookie' > cookie /\ cookie \in Sessions
      BY <2>1 DEF ReplaceCookie, IInv, TypeOK
    <3>2. cookie <= cookie'
      BY <3>1, Constants
    <3> QED
      BY <2>1, <3>1, <3>2, FaultsIs DEF ReplaceCookie, server
  <2>2. CASE Revoke
    <3>1. cookie' = cookie /\ cookie \in Sessions /\ cookie <= cookie
      BY <2>2, Constants DEF Revoke, app, IInv, TypeOK
    <3> QED
      BY <2>2, <3>1, FaultsIs DEF Revoke, app, Server!Revoke
  <2> QED
    BY <2>1, <2>2
<1>2. ClientInv' /\ UNCHANGED <<owner, connection, cn, timer, disabled>>
  BY <1>1, ClientRests DEF client
<1>3. cookie \in Nat /\ cookie' \in Nat /\ owner \in Nat /\ owner <= cookie
  BY <1>1, Constants DEF IInv, TypeOK
<1>4. ASSUME NEW c \in Conns, cn[c].pc # "free"
      PROVE  /\ cn[c].owner \in Sessions /\ cn[c].owner <= cookie'
             /\ Meant(sv[c], cn[c].owner, valid', cookie')
  <2>1. /\ cn[c].owner \in Sessions /\ cn[c].owner <= cookie
        /\ Meant(sv[c], cn[c].owner, valid, cookie)
        /\ sv[c].phase # "idle" => sv[c].session \in Sessions
    BY <1>4 DEF IInv, Typed
  <2>2. cn[c].owner \in Nat /\ (sv[c].phase # "idle" => sv[c].session \in Nat)
    BY <2>1, Constants
  <2> QED
    BY <1>1, <1>3, <2>1, <2>2 DEF Meant
<1>5. TypeOK'
  BY <1>1, <1>2 DEF IInv, TypeOK
<1>6. owner' <= cookie'
  BY <1>1, <1>2, <1>3
<1> QED
  BY <1>1, <1>2, <1>4, <1>5, <1>6 DEF IInv

\* A commit owes hints; no reply and no frame changes.
LEMMA CommitKeeps ==
  ASSUME IInv, Commit
  PROVE  IInv'
<1>1. /\ version' \in 0 .. MaxVersion /\ told' \in 0 .. version'
      /\ UNCHANGED <<cookie, root, signedOut>>
  BY RealtimeConstants DEF Commit, IInv, TypeOK
<1>2. ClientInv' /\ OpensNothing /\ signedOut' \in BOOLEAN
  BY <1>1, ClientRests DEF Commit, IInv, TypeOK
<1>3. /\ sv' \in [Conns -> ServerRecord] /\ \A c \in Conns : Follows(sv[c], sv'[c])
      /\ UNCHANGED valid /\ faults' \in 0 .. MaxFaults
  <2>1. CASE \E user \in Users : Server!Publish(user) /\ Works
    BY <2>1, PublishFollows, FaultsIs
  <2>2. CASE UNCHANGED server /\ Fails
    BY <2>2, ServerRests, FaultsIs DEF server
  <2> QED
    BY <2>1, <2>2 DEF Commit
<1> QED
  BY <1>1, <1>2, <1>3, Together

\* The client hears from the server.
LEMMA HearKeeps ==
  ASSUME IInv, NEW c \in Conns, Respond(c) \/ Hear(c)
  PROVE  IInv'
<1>0. signedOut \in BOOLEAN /\ version \in 0 .. MaxVersion /\ told \in 0 .. version
  BY DEF IInv, TypeOK
<1>1. ClientInv' /\ OpensNothing
  BY ResponseKeeps, FrameKeeps DEF Respond, Hear, IInv
<1>2. /\ UNCHANGED <<valid, cookie, root, version>> /\ told' \in {told, version}
      /\ signedOut' \in BOOLEAN /\ faults' \in 0 .. MaxFaults
  BY <1>0, FaultsIs DEF Respond, Hear, server, Server!Take, Server!Step
<1>3. sv' \in [Conns -> ServerRecord] /\ \A d \in Conns : Follows(sv[d], sv'[d])
  BY ServerRests, ServerServes DEF Respond, Hear, server
<1>4. told' \in 0 .. version' /\ version' \in 0 .. MaxVersion
  BY <1>0, <1>2
<1> QED
  BY <1>1, <1>2, <1>3, <1>4, Together

\* A connection ends at the client.
LEMMA LoseKeeps ==
  ASSUME IInv, NEW c \in Conns, Lose(c) \/ Settle(c) \/ Renew(c) \/ Watch(c)
  PROVE  IInv'
<1>1. ClientInv' /\ OpensNothing
  BY EndsKeeps DEF Lose, Settle, Renew, Watch, IInv
<1>2. UNCHANGED <<server, app>> /\ faults' \in 0 .. MaxFaults
  BY FaultsIs DEF Lose, Settle, Renew, Watch
<1>3. UNCHANGED <<sv, valid, cookie, root, version, told, signedOut>>
  BY <1>2 DEF server, app
<1> QED
  BY <1>1, <1>2, <1>3, ServerRests, Together DEF IInv, TypeOK

\* The server serves a connection.
LEMMA ServingKeeps ==
  ASSUME IInv, NEW c \in Conns,
         \/ Admission(c) \/ Refuse(c) \/ SendHint(c) \/ SendHeartbeat(c) \/ Close(c)
         \/ CleanUp(c) \/ Deny(c)
  PROVE  IInv'
<1>1. Server!Serve(c) /\ UNCHANGED <<client, app>>
  BY DEF Admission, Refuse, SendHint, SendHeartbeat, Close, CleanUp, Deny, Server!Serve
<1>2. faults' \in 0 .. MaxFaults
  BY FaultsIs DEF Admission, Refuse, SendHint, SendHeartbeat, Close, CleanUp, Deny
<1>3. ClientInv' /\ OpensNothing
  BY <1>1, ClientRests
<1>4. /\ sv' \in [Conns -> ServerRecord] /\ UNCHANGED valid
      /\ \A d \in Conns : Follows(sv[d], sv'[d])
  BY <1>1, ServerServes
<1>5. UNCHANGED <<cookie, root, version, told, signedOut>>
  BY <1>1 DEF app
<1> QED
  BY <1>2, <1>3, <1>4, <1>5, Together DEF IInv, TypeOK

\* A step in which nothing happens.
LEMMA IdleKeeps ==
  ASSUME IInv, UNCHANGED vars
  PROVE  IInv'
<1>1. UNCHANGED <<sv, valid, client, cookie, root, version, told, signedOut, faults>>
  BY DEF vars, server, app
<1> QED
  BY <1>1, ClientRests, ServerRests, Together DEF IInv, TypeOK

\* Every step keeps the invariant.
LEMMA NextKeeps == IInv /\ [Next]_vars => IInv'
BY ShowKeeps, HideKeeps, SessionsKeep, CommitKeeps, HearKeeps, LoseKeeps, ServingKeeps, IdleKeeps
   DEF Next

\* The inductive invariant of the two ends.
THEOREM Invariance == Spec => []IInv
BY InitHolds, NextKeeps, PTL DEF Spec

\* Every field holds a value of its type, and every request that is under way
\* carries a cookie and names an owner (event-stream.ts:86).
THEOREM TypeCorrect == Spec => []TypeOK
<1>1. IInv => TypeOK
  BY DEF IInv
<1> QED
  BY <1>1, Invariance, PTL

\* One transport or one timer, and none without an owner, whatever coroutines of
\* closed connections still have to settle (event-stream.ts:53).
THEOREM OneConnectionAlways == Spec => []OneConnection
<1>1. IInv => OneConnection
  BY DEF IInv, ClientInv
<1> QED
  BY <1>1, Invariance, PTL

\* An owner has a connection or a retry unless the server has no such endpoint
\* (event-stream.ts:93).
THEOREM NeverStallsAlways == Spec => []NeverStalls
<1>1. IInv => NeverStalls
  BY DEF IInv, ClientInv
<1> QED
  BY <1>1, Invariance, PTL

-----------------------------------------------------------------------------
\* What accuses the connection of the owner is true of the owner.
LEMMA Accusation ==
  ASSUME IInv, NEW c \in Conns, cn[c].pc # "free", Client!Owns(c), Accused(sv[c])
  PROVE  owner \notin valid \/ cookie # owner
<1>1. owner \in Sessions /\ (owner \notin valid \/ owner < cookie) /\ cookie \in Sessions
  BY DEF IInv, TypeOK, Client!Owns, Meant
<1> QED
  BY <1>1, Constants

\* Only an answer or a frame signs the owner out, and what it says is true of him.
LEMMA StepForCause ==
  ASSUME IInv, [Next]_vars, signedOut', ~signedOut
  PROVE  owner \notin valid \/ cookie # owner
<1>1. PICK c \in Conns : Respond(c) \/ Hear(c)
  BY DEF Next, Show, Hide, ReplaceCookie, Revoke, Commit, Reconnect, Lose, Settle, Renew, Watch,
         Admission, Refuse, SendHint, SendHeartbeat, Close, CleanUp, Deny, vars, app
<1>2. owner' = NoSession /\ Client!Owns(c) /\ cn[c].pc # "free" /\ owner # NoSession
  BY <1>1, Constants DEF Respond, Hear, Client!Response, Client!Frame, Client!Owns, IInv
<1>3. sv[c] \in ServerRecord
  BY DEF IInv, TypeOK
<1>4. CASE Respond(c)
  <2>1. Client!Response(c, Kind(sv[c].reply)) /\ sv[c].reply # "none"
    BY <1>4 DEF Respond
  <2>2. Kind(sv[c].reply) = "auth"
    BY <1>2, <2>1 DEF Client!Response, Client!Retries
  <2>3. sv[c].reply \in {"401", "403"}
    BY <1>3, <2>1, <2>2 DEF Kind, ServerRecord, Replies
  <2> QED
    BY <1>2, <2>3, Accusation DEF Accused
<1>5. CASE Hear(c)
  <2>1. /\ sv[c].wire \in Seq(Frames) /\ sv[c].wire # <<>>
        /\ Client!Frame(c, Head(sv[c].wire))
    BY <1>3, <1>5 DEF Hear, ServerRecord
  <2>2. Head(sv[c].wire) = "auth-required"
    BY <1>2, <2>1 DEF Client!Frame
  <2>3. 1 \in 1 .. Len(sv[c].wire) /\ sv[c].wire[1] = "auth-required"
    BY <2>1, <2>2, HeadTailProperties, LenProperties, EmptySeq
  <2> QED
    BY <1>2, <2>3, Accusation DEF Accused
<1> QED
  BY <1>1, <1>4, <1>5

\* The stream signs nobody out whose session is valid and is the one the device
\* uses: a refusal meant for an older owner, a failed look-up or a full worker
\* never revokes the present one (event-stream.ts:75).
THEOREM SignedOutForCauseAlways == Spec => SignedOutForCause
<1>1. IInv /\ [Next]_vars =>
        [signedOut' /\ ~signedOut => owner \notin valid \/ cookie # owner]_vars
  BY StepForCause
<1> QED
  BY <1>1, Invariance, PTL DEF Spec, SignedOutForCause

=============================================================================
