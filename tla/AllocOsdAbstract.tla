-------------------------- MODULE AllocOsdAbstract --------------------------
(***************************************************************************)
(* What `vitastor-cli alloc-osd' promises, without etcd, retries or the    *)
(* gap search: each invocation atomically takes one OSD number that has no *)
(* /osd/stats/ key and creates that key, and then reports it; or it fails. *)
(* A failure may come after the key was created (the reply was lost), so   *)
(* a failed invocation may have taken a number too.  Other tools create    *)
(* and delete keys at any time.                                            *)
(***************************************************************************)
EXTENDS Naturals

CONSTANTS Allocators, Ids

VARIABLES
  stats,   \* numbers with a /osd/stats/ key
  phase,   \* "NONE", "COMMITTED" (key created, not yet reported), "OK", "EIO"
  held     \* the number an invocation created, 0 if none

vars == <<stats, phase, held>>

Init ==
  /\ stats \subseteq Ids
  /\ phase = [a \in Allocators |-> "NONE"]
  /\ held = [a \in Allocators |-> 0]

(* The one atomic step that matters: a free number becomes a's key. *)
Take(a, n) ==
  /\ phase[a] = "NONE" /\ n \notin stats
  /\ stats' = stats \cup {n}
  /\ phase' = [phase EXCEPT ![a] = "COMMITTED"]
  /\ held' = [held EXCEPT ![a] = n]

Report(a) ==
  /\ phase[a] = "COMMITTED"
  /\ phase' = [phase EXCEPT ![a] = "OK"]
  /\ UNCHANGED <<stats, held>>

(* The invocation fails, before or after it took a number. *)
Fail(a) ==
  /\ phase[a] \in {"NONE", "COMMITTED"}
  /\ phase' = [phase EXCEPT ![a] = "EIO"]
  /\ UNCHANGED <<stats, held>>

Put(n) == n \notin stats /\ stats' = stats \cup {n} /\ UNCHANGED <<phase, held>>

Remove(n) == n \in stats /\ stats' = stats \ {n} /\ UNCHANGED <<phase, held>>

Next ==
  \/ \E a \in Allocators, n \in Ids : Take(a, n)
  \/ \E a \in Allocators : Report(a) \/ Fail(a)
  \/ \E n \in Ids : Put(n) \/ Remove(n)

Spec == Init /\ [][Next]_vars
=============================================================================
