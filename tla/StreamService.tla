---------------------------- MODULE StreamService ----------------------------
(***************************************************************************)
(* What a worker promises of its change streams, without the coroutines     *)
(* that do it: a refusal has its cause, places are limited, every hint      *)
(* published to an open stream is sent once and in order or the stream      *)
(* ends, nothing published after a session ended is sent to it, and         *)
(* auth-required is the last word and is true.  OwnedStream implements it.  *)
(***************************************************************************)
EXTENDS Naturals, Sequences, FiniteSets

CONSTANTS Streams, Sessions, Users, NoSession, UserOf, MaxTotal, MaxPerUser, WireBound

VARIABLES
  sv,       \* one record per stream
  valid     \* the sessions that are authenticated on the server

pvars == <<sv, valid>>

\* `owed': the hints published to the stream and not yet written to it.
Vacant == [phase |-> "idle", session |-> NoSession, claim |-> NoSession,
           owed |-> <<>>, wire |-> <<>>, reply |-> "none"]
Holding == {t \in Streams : sv[t].phase \in {"admitted", "open", "closing"}}
Room(user) ==
  /\ Cardinality(Holding) < MaxTotal
  /\ Cardinality({t \in Holding : UserOf[sv[t].session] = user}) < MaxPerUser
Step(t, x) == sv' = [sv EXCEPT ![t] = x] /\ UNCHANGED valid
Over(x, reply) == [Vacant EXCEPT !.wire = x.wire, !.reply = reply]

Init == sv = [t \in Streams |-> Vacant] /\ valid = Sessions

Connect(t, cookie, claim) ==
  /\ sv[t].phase = "idle"
  /\ Step(t, [Vacant EXCEPT !.phase = "asked", !.session = cookie, !.claim = claim])

\* Why a request or an admitted stream may be turned away.
Cause(t, status) ==
  \/ status = "401" /\ sv[t].session \notin valid
  \/ status = "403" /\ sv[t].session # sv[t].claim
  \/ status \in {"404", "503", "none"}
Refuse(t) ==
  /\ sv[t].phase = "asked"
  /\ \E status \in {"401", "403", "404", "503", "none"} :
       Cause(t, status) /\ Step(t, Over(sv[t], status))

Admit(t) ==
  /\ sv[t].phase = "asked" /\ sv[t].session = sv[t].claim
  /\ Room(UserOf[sv[t].session]) /\ Step(t, [sv[t] EXCEPT !.phase = "admitted"])
\* The subscription is acknowledged; the first hint is a resync.
Subscribe(t) ==
  /\ sv[t].phase = "admitted" /\ sv[t].owed = <<>>
  /\ Step(t, [sv[t] EXCEPT !.owed = <<"resync">>])
Open(t) ==
  /\ sv[t].phase = "admitted" /\ (sv[t].session \in valid => sv[t].owed # <<>>)
  /\ Step(t, [sv[t] EXCEPT !.phase = "open", !.reply = "200"])

SendHint(t) ==
  /\ sv[t].phase = "open" /\ sv[t].owed # <<>> /\ Len(sv[t].wire) < WireBound
  /\ Step(t, [sv[t] EXCEPT !.wire = Append(@, Head(sv[t].owed)), !.owed = Tail(@)])
SendHeartbeat(t) ==
  /\ sv[t].phase = "open" /\ Len(sv[t].wire) < WireBound
  /\ Step(t, [sv[t] EXCEPT !.wire = Append(@, "heartbeat")])

\* The broker denies the subscription, or the client does not wait for it.
Deny(t) ==
  /\ sv[t].phase = "admitted" /\ sv[t].owed = <<>>
  /\ \E status \in {"503", "none"} : Step(t, Over(sv[t], status))

\* The stream ends: what it owes is dropped, then its place is free, then it
\* may say why.
Close(t) ==
  /\ sv[t].phase \in {"admitted", "open"}
  /\ Step(t, [sv[t] EXCEPT !.phase = "closing", !.owed = <<>>])
Release(t) ==
  /\ sv[t].phase = "closing"
  /\ \/ Step(t, [sv[t] EXCEPT !.phase = "released"])
     \/ Step(t, Over(sv[t], sv[t].reply))
Finish(t) ==
  /\ sv[t].phase = "released"
  /\ \/ /\ sv[t].reply = "none"
        /\ \E status \in {"401", "503", "none"} :
             Cause(t, status) /\ Step(t, Over(sv[t], status))
     \/ sv[t].reply = "200" /\ Step(t, Over(sv[t], "200"))
     \/ /\ sv[t].reply = "200" /\ sv[t].session \notin valid
        /\ Step(t, [Over(sv[t], "200") EXCEPT !.wire = Append(@, "auth-required")])

\* A change of a user is published.  A full subscription keeps a resync for the
\* hints it drops, and nothing of it is owed to a session that has ended.
Kept(x, user) ==
  LET kept == {SubSeq(x.owed, 1, n) : n \in 0 .. Len(x.owed)}
      owed == IF x.session \in valid
              THEN {Append(x.owed, "change")} \cup {Append(k, "resync") : k \in kept}
              ELSE kept IN
  IF (x.owed = <<>> /\ x.phase # "open") \/ UserOf[x.session] # user THEN {x}
  ELSE {[x EXCEPT !.owed = hints] : hints \in owed}
Publish(user) ==
  /\ \E next \in [Streams -> UNION {Kept(sv[t], user) : t \in Streams}] :
       (\A t \in Streams : next[t] \in Kept(sv[t], user)) /\ sv' = next
  /\ UNCHANGED valid

Revoke(session) ==
  session \in valid /\ valid' = valid \ {session} /\ UNCHANGED sv
Take(t) == sv[t].wire # <<>> /\ Step(t, [sv[t] EXCEPT !.wire = Tail(@)])

Serve(t) ==
  \/ Refuse(t) \/ Admit(t) \/ Deny(t) \/ Subscribe(t) \/ Open(t)
  \/ SendHint(t) \/ SendHeartbeat(t) \/ Close(t) \/ Release(t) \/ Finish(t)
Next ==
  \/ \E t \in Streams : \/ \E cookie, claim \in Sessions : Connect(t, cookie, claim)
                        \/ Serve(t) \/ Take(t)
  \/ \E user \in Users : Publish(user)
  \/ \E session \in Sessions : Revoke(session)
Spec == Init /\ [][Next]_pvars
=============================================================================
