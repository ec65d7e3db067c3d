---------------------------- MODULE RpcConnection ----------------------------
(***************************************************************************)
(* What one RPC-over-TCP connection of the NFS proxy promises, whatever   *)
(* its buffering: the records the client sends reach the server's         *)
(* handlers whole and in the order sent, and the replies put on the wire  *)
(* answer requests that were taken, each at most once.  A server step may *)
(* take several records (one read) or send several replies (one sendmsg). *)
(***************************************************************************)
EXTENDS Naturals, Sequences, SequencesExt, Functions

CONSTANT N            \* the number of records the client sends

VARIABLES
  handled,            \* the requests taken, in order (request i is the i-th record)
  wire                \* the replies sent, in order

Unanswered == Range(handled) \ Range(wire)

Init == handled = <<>> /\ wire = <<>>

(* The next k records are taken. *)
Take == \E k \in 1..(N - Len(handled)) :
          /\ handled' = handled \o [i \in 1..k |-> Len(handled) + i]
          /\ UNCHANGED wire

(* Replies to k distinct unanswered requests go out, in any order. *)
Answer == \E k \in 1..N : \E r \in [1..k -> Unanswered] :
            /\ IsInjective(r)
            /\ wire' = wire \o r
            /\ UNCHANGED handled

Spec == Init /\ [][Take \/ Answer]_<<handled, wire>>
==============================================================================
