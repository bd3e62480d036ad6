-------------------------- MODULE RealtimeProperties --------------------------
(***************************************************************************)
(* What the two ends of the change stream guarantee together.              *)
(***************************************************************************)
EXTENDS Realtime, FiniteSets

OptSession == Sessions \cup {NoSession}
Phases == {"idle", "asked", "admitted", "open", "closing", "released"}
Replies == {"none", "200", "401", "403", "404", "503"}
Hints == {"resync", "change"}
Frames == Hints \cup {"heartbeat", "auth-required"}
ServerRecord ==
  [phase : Phases, session : OptSession, claim : OptSession, owed : Seq(Hints),
   wire : Seq(Frames), reply : Replies]
ClientRecord ==
  [pc : {"free", "fetching", "reading"}, owner : OptSession, live : BOOLEAN,
   watch : BOOLEAN, lease : BOOLEAN, synced : BOOLEAN]

\* Every field holds a value of its type, and every request that is under way
\* carries a cookie and names an owner (event-stream.ts:86).
TypeOK ==
  /\ sv \in [Conns -> ServerRecord]
  /\ \A c \in Conns : sv[c].phase # "idle" => {sv[c].session, sv[c].claim} \subseteq Sessions
  /\ valid \subseteq Sessions /\ owner \in OptSession /\ root \in OptSession
  /\ connection \in Conns \cup {NoConn} /\ cn \in [Conns -> ClientRecord]
  /\ timer \in BOOLEAN /\ disabled \in BOOLEAN /\ signedOut \in BOOLEAN
  /\ cookie \in Sessions /\ told \in 0 .. version /\ version \in 0 .. MaxVersion
  /\ faults \in 0 .. MaxFaults

\* The app holds at most one transport and one timer at a time, and none
\* without an owner: the late settlement of a closed connection neither
\* schedules nor opens anything (event-stream.ts:53).
OneConnection ==
  /\ \A c \in Conns : cn[c].live \/ cn[c].watch \/ cn[c].lease => connection = c
  /\ connection # NoConn => ~timer /\ cn[connection].live
  /\ connection # NoConn \/ timer => owner # NoSession

\* An owner is never left without a stream for good: it has a connection, a
\* retry is scheduled, or the server has no such endpoint (event-stream.ts:93).
NeverStalls == owner # NoSession => connection # NoConn \/ timer \/ disabled

\* The stream signs nobody out whose session is valid and is the one the
\* device uses: a refusal meant for an older owner, a failed look-up or a full
\* worker never revokes the present one (event-stream.ts:75).
SignedOutForCause ==
  [][signedOut' /\ ~signedOut => owner \notin valid \/ cookie # owner]_vars

\* Every committed change is in the end seen by the owner who stays in front,
\* though its publication may be lost, the worker full or the connection
\* replaced: the resync of the next connection makes up for it.
EventuallyTold ==
  \A v \in 1 .. MaxVersion :
    version >= v /\ owner # NoSession ~> told >= v \/ owner = NoSession \/ disabled

=============================================================================
