------------------------------- MODULE Realtime -------------------------------
(***************************************************************************)
(* A device and a worker: EventStream at one end of each connection and     *)
(* StreamService (which OwnedStream implements) at the other, with a        *)
(* network between them that loses connections.  The app shell shows and    *)
(* hides the owner, sessions are replaced, and changes are committed whose  *)
(* publication may be lost.  A hint makes the app read the current state.   *)
(***************************************************************************)
EXTENDS Naturals, Sequences

CONSTANTS
  Conns, Sessions, Users, UserOf, NoSession, NoConn,
  MaxTotal, MaxPerUser, WireBound,
  MaxOwed,      \* bound: hints owed to one stream
  MaxVersion,   \* bound: changes committed
  MaxFaults     \* bound: everything that may fail, together

ASSUME RealtimeConstants ==
  /\ Sessions \subseteq Nat \ {NoSession} /\ NoSession = 0 /\ NoConn \notin Conns
  /\ MaxVersion \in Nat /\ MaxFaults \in Nat

VARIABLES
  sv, valid,                                    \* of StreamService
  owner, connection, cn, timer, disabled,       \* of EventStream
  cookie,       \* the session the device's cookie names; they come in order
  root,         \* the session the mounted screens were loaded for
  version,      \* of the data on the server
  told,         \* the version the app has read
  signedOut,    \* the stream has revoked the owner
  faults

Server == INSTANCE StreamService WITH Streams <- Conns
Client == INSTANCE EventStream WITH Owners <- Sessions, NoOwner <- NoSession

server == <<sv, valid>>
client == <<owner, connection, cn, timer, disabled>>
app == <<cookie, root, version, told, signedOut>>
vars == <<server, client, app, faults>>

Init ==
  /\ Server!Init /\ Client!Init
  /\ cookie \in Sessions /\ root = NoSession
  /\ version = 0 /\ told = 0 /\ signedOut = FALSE /\ faults = 0

\* Everything that goes wrong by itself is counted.
If(works) == \/ works /\ UNCHANGED faults
             \/ ~works /\ faults < MaxFaults /\ faults' = faults + 1
Works == UNCHANGED faults
Fails == If(FALSE)

-----------------------------------------------------------------------------
(* The app shell and the data.                                             *)

\* The owner is confirmed, in front and ready: its stream is opened.  Screens
\* mounted for another session are loaded anew.
Show(c) ==
  /\ owner = NoSession /\ cookie \in valid
  /\ Client!SetOwner(cookie, c) /\ Server!Connect(c, cookie, cookie)
  /\ root' = cookie /\ told' = IF root = cookie THEN told ELSE version
  /\ signedOut' = FALSE /\ UNCHANGED <<cookie, version>> /\ Works

\* The app is paused, a login begins, or a request finds another session.
Hide ==
  /\ owner # NoSession /\ Client!SetOwner(NoSession, NoConn)
  /\ UNCHANGED <<server, app>> /\ Works

\* A response of the server gives the device another session.
ReplaceCookie ==
  /\ \E session \in valid : session > cookie /\ cookie' = session
  /\ UNCHANGED <<server, client, root, version, told, signedOut>> /\ Works

Revoke ==
  /\ \E session \in Sessions : Server!Revoke(session)
  /\ UNCHANGED <<client, app>> /\ Works

\* A change is committed, and then published to the streams or not at all.
Commit ==
  /\ version < MaxVersion /\ version' = version + 1
  /\ \/ /\ \E user \in Users : Server!Publish(user)
        /\ \A c \in Conns : Len(sv'[c].owed) <= MaxOwed
        /\ Works
     \/ UNCHANGED server /\ Fails
  /\ UNCHANGED <<client, cookie, root, told, signedOut>>

-----------------------------------------------------------------------------
(* The client's end of one connection.                                     *)

Reconnect(c) ==
  /\ Client!TimerFires(c) /\ Server!Connect(c, cookie, owner)
  /\ UNCHANGED app /\ Works

Kind(reply) == CASE reply = "200" -> "stream" [] reply \in {"401", "403"} -> "auth"
                 [] reply = "404" -> "absent" [] reply = "503" -> "failure"
Respond(c) ==
  /\ sv[c].reply # "none" /\ Client!Response(c, Kind(sv[c].reply))
  /\ signedOut' = (signedOut \/ owner' = NoSession)
  /\ UNCHANGED <<server, cookie, root, version, told>> /\ Works

Hear(c) ==
  LET event == Head(sv[c].wire) IN
  /\ sv[c].wire # <<>> /\ Server!Take(c) /\ Client!Frame(c, event)
  /\ signedOut' = (signedOut \/ owner' = NoSession)
  /\ told' = IF event \in {"resync", "change"} THEN version ELSE told
  /\ UNCHANGED <<cookie, root, version>> /\ Works

\* The server has ended the body or never answered, or the connection breaks.
Ended(c) == /\ sv[c].phase = "idle" /\ sv[c].wire = <<>>
            /\ cn[c].pc = "reading" \/ sv[c].reply = "none"
Lose(c) == Client!Broken(c) /\ UNCHANGED <<server, app>> /\ If(Ended(c))
Settle(c) == Client!Settles(c) /\ UNCHANGED <<server, app>> /\ Works

\* The connection has had its resync and is renewed, or something is badly late.
Renew(c) == Client!Lease(c) /\ UNCHANGED <<server, app>> /\ If(cn[c].synced)
Watch(c) == Client!Watchdog(c) /\ UNCHANGED <<server, app>> /\ Fails

-----------------------------------------------------------------------------
(* The server's end.                                                       *)

\* A session is looked up before it is admitted; it may end in between.
Admission(c) ==
  /\ UNCHANGED <<client, app>>
  /\ \/ Server!Admit(c) /\ If(sv[c].session \in valid)
     \/ (Server!Subscribe(c) \/ Server!Open(c)) /\ Works
\* It turns a client away with a cause: its session, the limits, its absence.
Refuse(c) ==
  /\ Server!Refuse(c) /\ UNCHANGED <<client, app>>
  /\ If(\/ sv'[c].reply \in {"401", "403"} \/ ~cn[c].live
        \/ sv'[c].reply = "503" /\ ~Server!Room(UserOf[sv[c].session]))
SendHint(c) == Server!SendHint(c) /\ UNCHANGED <<client, app>> /\ Works
SendHeartbeat(c) == Server!SendHeartbeat(c) /\ UNCHANGED <<client, app>> /\ Works
\* It ends a stream: 60 s are over, the session or the client has gone.
Close(c) ==
  /\ Server!Close(c) /\ UNCHANGED <<client, app>>
  /\ If(cn[c].synced \/ ~cn[c].live \/ sv[c].session \notin valid)
CleanUp(c) ==
  /\ Server!Release(c) \/ Server!Finish(c)
  /\ UNCHANGED <<client, app>> /\ Works
Deny(c) == Server!Deny(c) /\ UNCHANGED <<client, app>> /\ If(~cn[c].live)

Next ==
  \/ Hide \/ ReplaceCookie \/ Revoke \/ Commit
  \/ \E c \in Conns :
       \/ Show(c) \/ Reconnect(c) \/ Respond(c) \/ Hear(c) \/ Lose(c) \/ Settle(c)
       \/ Renew(c) \/ Watch(c) \/ Admission(c) \/ Refuse(c) \/ SendHint(c)
       \/ SendHeartbeat(c) \/ Close(c) \/ CleanUp(c) \/ Deny(c)
Spec == Init /\ [][Next]_vars

\* Both programs run, timers fire, a socket is read and its end noticed; a hint
\* is not put off for ever by heartbeats 15 s apart.  Nobody has to show, hide,
\* commit, revoke or fail.
Fairness ==
  \A c \in Conns :
    /\ WF_vars(Reconnect(c)) /\ WF_vars(Respond(c) \/ Hear(c)) /\ WF_vars(Settle(c))
    /\ WF_vars(Lose(c) /\ Works) /\ WF_vars(Renew(c) /\ Works)
    /\ WF_vars((Admission(c) \/ Refuse(c)) /\ Works) /\ SF_vars(SendHint(c))
    /\ WF_vars(Close(c) /\ Works) /\ WF_vars(CleanUp(c)) /\ WF_vars(Deny(c) /\ Works)
FairSpec == Spec /\ Fairness
=============================================================================
