-------------------------------- MODULE MCGate --------------------------------
EXTENDS GateProperties
\* The run is a sum: three edits and actions in all while the first epoch
\* lasts, or one of each around a pause and in a second epoch.
Workload ==
  \/ g.pauses = 0 /\ g.epoch = 1 /\ g.edits + g.actions <= 3
  \/ g.edits <= 1 /\ g.actions <= 1
=============================================================================
