---------------------------- MODULE MCNfsClient ----------------------------
EXTENDS NfsClient

(* Three one-fragment records of 2, 1 and 1 units, 7 cells on the wire. *)
MCRecords == <<<<2>>, <<1>>, <<1>>>>
(* One record of two fragments, then a one-fragment record. *)
MCRecordsFrag == <<<<1, 1>>, <<1>>>>
============================================================================
