------------------------------ MODULE AllocOsd ------------------------------
(***************************************************************************)
(* `vitastor-cli alloc-osd' (src/cmd/cli_alloc_osd.cpp): several CLI       *)
(* processes allocate OSD numbers concurrently.  Each one repeats an etcd  *)
(* transaction "if /osd/stats/<new_id> does not exist, create it, else     *)
(* return all /osd/stats/ keys", and on failure picks the next candidate   *)
(* with a binary search for the first gap in the sorted list of used       *)
(* numbers.  etcd executes each transaction atomically; other tools may    *)
(* create or delete stats keys meanwhile (an OSD starting with a fixed     *)
(* number, `rm-osd').                                                      *)
(***************************************************************************)
EXTENDS Integers, FiniteSets, SequencesExt

CONSTANTS
  Allocators,   \* the concurrent alloc_osd_t instances (one per CLI process)
  InitStats,    \* OSD numbers that have a /osd/stats/ key initially
  ExtIds,       \* numbers other tools may create or delete
  AllowRemove,  \* whether other tools delete stats keys (rm-osd)
  MaxChurn,     \* bound on the number of external creations and deletions
  GapBound      \* GapSearchCorrect compares the search over SUBSET 1..GapBound

ASSUME InitStats \subseteq Nat \ {0} /\ ExtIds \subseteq Nat \ {0}

VARIABLES
  stats,     \* numbers with a /osd/stats/<n> key in etcd
  state,     \* alloc_osd_t::state: 0 before the first txn, 1 waiting, 100 done
  new_id,    \* alloc_osd_t::new_id
  msg,       \* the allocator's etcd request or the reply to it
  result,    \* "NONE", "OK" or "EIO" (alloc_osd_t::result)
  created,   \* history: <<a, n, g>> for every key a's transaction created
  gen,       \* history: gen[n] counts the deletions of key n so far
  churn      \* number of external changes so far

vars == <<stats, state, new_id, msg, result, created, gen, churn>>

(* Every number new_id can take: the gap search returns at most |used|+1. *)
IdSpace == 1..(Cardinality(InitStats \cup ExtIds) + Cardinality(Allocators) + 1)

NoMsg == [kind |-> "NONE"]
TxnMsg(n) == [kind |-> "TXN", id |-> n]

(***************************************************************************)
(* The candidate chosen after a failed compare (lines 74-96).  `u' is the  *)
(* sorted vector `used'; C++ index c is u[c+1].                            *)
(***************************************************************************)
BisectGapLast(u, s, e) == u[e]   \* mutant: new_id = used[e-1]

RECURSIVE BisectGap(_, _, _)
BisectGap(u, s, e) ==
  IF e > s + 1
  THEN LET c == (s + e) \div 2
       IN  IF u[c + 1] = c + 1 THEN BisectGap(u, c, e) ELSE BisectGap(u, s, c)
  ELSE u[e] + 1

NextId(kvs) ==
  LET used == SetToSortSeq(kvs, <)
      n    == Len(used)
  IN  IF used[n] = n THEN n + 1 ELSE BisectGap(used, 0, n)

\* The reference: the least positive number with no stats key.
LowestFree(S) == CHOOSE i \in 1..(Cardinality(S) + 1) :
                   i \notin S /\ \A j \in 1..(i - 1) : j \in S

-----------------------------------------------------------------------------
(* loop() from state 0: the first etcd_txn with new_id = 1 (lines 26-63).  *)
Start(a) ==
  /\ state[a] = 0
  /\ state' = [state EXCEPT ![a] = 1]
  /\ msg' = [msg EXCEPT ![a] = TxnMsg(new_id[a])]
  /\ UNCHANGED <<stats, new_id, result, created, gen, churn>>

CompareIgnored(a) == TRUE       \* mutant: the put without its compare

(* The compare of the transaction: VERSION of the key is 0 (lines 33-40). *)
KeyAbsent(a) == msg[a].id \notin stats

(***************************************************************************)
(* etcd executes the transaction atomically (lines 32-61): success puts    *)
(* the key, failure returns the keys of the /osd/stats/ range.             *)
(***************************************************************************)
EtcdTxn(a) ==
  /\ msg[a].kind = "TXN"
  /\ IF KeyAbsent(a)
     THEN /\ stats' = stats \cup {msg[a].id}
          /\ created' = created \cup {<<a, msg[a].id, gen[msg[a].id]>>}
          /\ msg' = [msg EXCEPT ![a] = [kind |-> "REPLY", err |-> FALSE,
                                        succeeded |-> TRUE, kvs |-> {}]]
     ELSE /\ msg' = [msg EXCEPT ![a] = [kind |-> "REPLY", err |-> FALSE,
                                        succeeded |-> FALSE, kvs |-> stats]]
          /\ UNCHANGED <<stats, created>>
  /\ UNCHANGED <<state, new_id, result, gen, churn>>

(***************************************************************************)
(* etcd_txn_slow reports an error: the request was lost before etcd ran   *)
(* it, or its reply was lost after (a timeout racing the commit).          *)
(***************************************************************************)
EtcdError(a) ==
  /\ msg[a].kind \in {"TXN", "REPLY"}
  /\ msg' = [msg EXCEPT ![a] = [kind |-> "REPLY", err |-> TRUE,
                                succeeded |-> FALSE, kvs |-> {}]]
  /\ UNCHANGED <<stats, state, new_id, result, created, gen, churn>>

(***************************************************************************)
(* The etcd_txn callback (cli_common.cpp:79-89) and loop() at resume_1    *)
(* (lines 62-103): an error ends the allocation with EIO, success with     *)
(* new_id, and a failed compare picks the next candidate and sends the    *)
(* transaction again in the same do-while.                                 *)
(***************************************************************************)
Resume(a) ==
  /\ msg[a].kind = "REPLY"
  /\ state[a] = 1
  /\ \/ /\ msg[a].err
        /\ state' = [state EXCEPT ![a] = 100]
        /\ result' = [result EXCEPT ![a] = "EIO"]
        /\ msg' = [msg EXCEPT ![a] = NoMsg]
        /\ UNCHANGED new_id
     \/ /\ ~msg[a].err /\ msg[a].succeeded
        /\ state' = [state EXCEPT ![a] = 100]
        /\ result' = [result EXCEPT ![a] = "OK"]
        /\ msg' = [msg EXCEPT ![a] = NoMsg]
        /\ UNCHANGED new_id
     \/ /\ ~msg[a].err /\ ~msg[a].succeeded
        /\ new_id' = [new_id EXCEPT ![a] = NextId(msg[a].kvs)]
        /\ msg' = [msg EXCEPT ![a] = TxnMsg(new_id'[a])]
        /\ UNCHANGED <<state, result>>
  /\ UNCHANGED <<stats, created, gen, churn>>

(* Another tool creates a stats key: an OSD started with its number.       *)
ExternalPut(n) ==
  /\ churn < MaxChurn /\ n \notin stats
  /\ stats' = stats \cup {n}
  /\ churn' = churn + 1
  /\ UNCHANGED <<state, new_id, msg, result, created, gen>>

(* Another tool deletes a stats key (rm-osd), also one alloc-osd created. *)
ExternalRemove(n) ==
  /\ AllowRemove /\ churn < MaxChurn /\ n \in stats
  /\ stats' = stats \ {n}
  /\ gen' = [gen EXCEPT ![n] = @ + 1]
  /\ churn' = churn + 1
  /\ UNCHANGED <<state, new_id, msg, result, created>>

Finished == \A a \in Allocators : state[a] = 100

Init ==
  /\ stats = InitStats
  /\ state = [a \in Allocators |-> 0]
  /\ new_id = [a \in Allocators |-> 1]
  /\ msg = [a \in Allocators |-> NoMsg]
  /\ result = [a \in Allocators |-> "NONE"]
  /\ created = {}
  /\ gen = [n \in IdSpace |-> 0]
  /\ churn = 0

Next ==
  \/ \E a \in Allocators : Start(a)
  \/ \E a \in Allocators : EtcdTxn(a)
  \/ \E a \in Allocators : EtcdError(a)
  \/ \E a \in Allocators : Resume(a)
  \/ \E n \in ExtIds : ExternalPut(n)
  \/ \E n \in stats : ExternalRemove(n)
  \/ Finished /\ UNCHANGED vars

Spec == Init /\ [][Next]_vars

(* The CLI loop, etcd and the reply callback always make progress; the    *)
(* other tools and etcd errors are not assumed to happen.                   *)
FairSpec == Spec /\ \A a \in Allocators :
              WF_vars(Start(a)) /\ WF_vars(EtcdTxn(a)) /\ WF_vars(Resume(a))

-----------------------------------------------------------------------------
TypeOK ==
  /\ state \in [Allocators -> {0, 1, 100}]
  /\ new_id \in [Allocators -> Nat \ {0}]
  /\ result \in [Allocators -> {"NONE", "OK", "EIO"}]
  /\ churn \in 0..MaxChurn

(***************************************************************************)
(* The first-gap binary search of loop() returns the least free number:   *)
(* for every set of used numbers up to GapBound that contains 1 (a failed *)
(* first compare means 1 is used), and for every key list a failed        *)
(* transaction actually returned with 1 in it.                            *)
(***************************************************************************)
RetriedKvs == {msg[a].kvs : a \in {b \in Allocators : msg[b].kind = "REPLY"
                                      /\ ~msg[b].err /\ ~msg[b].succeeded}}

GapSearchCorrect ==
  \A S \in (SUBSET (1..GapBound)) \cup RetriedKvs :
     1 \in S => NextId(S) = LowestFree(S)

(***************************************************************************)
(* Every alloc-osd invocation eventually finishes (with a number or EIO). *)
(***************************************************************************)
EveryAllocationEnds == \A a \in Allocators : <>(state[a] = 100)
-----------------------------------------------------------------------------
(***************************************************************************)
(* Refinement.  An allocator has committed once its transaction created a *)
(* key: after that the loop only reports (OK, or EIO if the reply was     *)
(* lost), so it commits at most once and new_id no longer changes.        *)
(***************************************************************************)
Committed(a) == \E t \in created : t[1] = a

AbsPhase == [a \in Allocators |->
               IF state[a] = 100 THEN result[a]
               ELSE IF Committed(a) THEN "COMMITTED" ELSE "NONE"]

AbsHeld == [a \in Allocators |-> IF Committed(a) THEN new_id[a] ELSE 0]

Abs == INSTANCE AllocOsdAbstract WITH Ids <- IdSpace, phase <- AbsPhase, held <- AbsHeld

(***************************************************************************)
(* alloc-osd implements the abstract allocator: every key an invocation    *)
(* creates was free when etcd ran the transaction, an invocation creates   *)
(* at most one key, and it reports OK only with the number it created.     *)
(***************************************************************************)
AllocRefinement == Abs!Spec
=============================================================================
