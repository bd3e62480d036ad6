------------------------------ MODULE MCRealtime ------------------------------
EXTENDS RealtimeProperties, TLC
UserOfEach == [session \in Sessions |-> "alice"]

\* The run is a sum: one session with a change and a fault, or a second one that
\* takes its place once its screens have been shown, with neither.
Workload ==
  /\ 2 \in valid
  /\ cookie = 1 \/ (version = 0 /\ faults = 0 /\ root # NoSession)
=============================================================================
