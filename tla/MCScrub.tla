------------------------------ MODULE MCScrub ------------------------------
(* Two PGs: PG 1 holds objects 1..3, so with scrub_list_limit 2 its list   *)
(* comes in two batches; PG 2 holds objects 4 and 5.  The copies on three  *)
(* replicas (or five, for MCCopies5) cover agreement, a single bad copy, a *)
(* three-way split, a missing and a nonexistent copy.                     *)
EXTENDS Scrub

MCPgObjs == <<<<1, 2, 3>>, <<4, 5>>>>

MCCopies3 == [o \in 1..5 |->
               CASE o = 1 -> <<"A", "A", "B">>
                 [] o = 2 -> <<"A", "B", "C">>
                 [] o = 3 -> <<"A", "A", "A">>
                 [] o = 4 -> <<"A", "MISSING", "B">>
                 [] o = 5 -> <<"A", "NOENT", "A">>]

MCCopies5 == [o \in 1..5 |->
               CASE o = 1 -> <<"A", "A", "A", "B", "B">>
                 [] o = 2 -> <<"A", "B", "A", "B", "C">>
                 [] OTHER -> <<"A", "A", "A", "A", "A">>]
====
