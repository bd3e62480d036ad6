------------------------------- MODULE MCStream -------------------------------
EXTENDS StreamProperties, TLC
UserOfEach == [session \in Sessions |-> IF session = "s1" THEN "alice" ELSE "bob"]

\* The run is a sum: one connection with either session and all that can be
\* published to it, or two connections of one user's session, to which nothing
\* is published but the resync they begin with.
Alone == \E t \in Streams : \A u \in Streams \ {t} : st[u].pc = "none"
Quiet ==
  /\ valid = Sessions
  /\ \A t \in Streams :
       /\ {st[t].session, st[t].claim} \subseteq {"s1", NoSession}
       /\ st[t].queue \in {<<>>, <<"resync">>} /\ st[t].read \notin {"change", "late"}
Workload == Alone \/ Quiet
=============================================================================
