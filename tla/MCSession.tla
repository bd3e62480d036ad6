------------------------------ MODULE MCSession ------------------------------
EXTENDS SessionProperties, TLC
Symmetry == Permutations(Ops) \cup Permutations(Requests)

\* The run is a sum.  Without requests: two operations, or one and a clear, up to
\* the last generation.  With a request: one operation and generations up to 2,
\* and beside a pause one new session and no recovery.
Spare == \E o \in Ops : op[o] = FreshOp
Unused == \A c \in Clears : clear[c].pc = "new"
Simple == pauses = 0 \/ (cookie < 2 /\ s.recovery = NoRecovery)
Workload ==
  \/ (Spare \/ Unused) /\ \A r \in Requests : req[r].pc = "new"
  \/ Spare /\ Unused /\ s.generation <= 2 /\ Simple
=============================================================================
