------------------------- MODULE MCBlockstoreWrite -------------------------
(* Model-checking instance of BlockstoreWrite: one or two objects, a few  *)
(* data blocks and a bounded number of client operations.                 *)
EXTENDS BlockstoreWrite

\* o1 starts flushed at block 0, o2 (when present) does not exist yet.
MCInitClean == [o \in Oids |-> IF o = CHOOSE x \in Oids : TRUE THEN 0 ELSE NoLoc]

====
