-------------------------- MODULE MCOsdPrimaryWrite --------------------------
EXTENDS OsdPrimaryWrite

CONSTANTS w1, w2, w3, o1, o2

\* w1 and w2 write o1 (w2 is a CAS expecting the initial version, so it
\* succeeds only if it runs before w1), w3 writes o2.  Versions are 4 bits
\* with 2 epoch bits: o1 starts at counter 1 of epoch 1, so two writes reach
\* the epoch-bump mask.
MCOpOid == [op \in {w1, w2, w3} |-> IF op = w3 THEN o2 ELSE o1]
MCOpCas == [op \in {w1, w2, w3} |-> IF op = w2 THEN 6 ELSE 0]
MCOpFull == [op \in {w1, w2, w3} |-> op # w1]
MCInitVer == [o \in {o1, o2} |-> 5]
MCInitClean == [o \in {o1, o2} |-> "CLEAN"]
MCInitDegraded == [o \in {o1, o2} |-> IF o = o1 THEN "DEGRADED" ELSE "CLEAN"]
=============================================================================
