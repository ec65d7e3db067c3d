------------------------------- MODULE Scrub -------------------------------
(***************************************************************************)
(* Scrub on one OSD (src/src/osd/osd_scrub.cpp).  The OSD walks its PGs    *)
(* whose scrub time has come, lists each PG's objects in batches of        *)
(* scrub_list_limit, and starts up to scrub_queue_depth scrub operations   *)
(* at a time for objects with no write or recovery in progress.  A scrub  *)
(* operation reads every copy of the object and votes: copies that differ *)
(* from the most common content are marked corrupted, and an object with  *)
(* no unique most common content is marked inconsistent.                  *)
(*                                                                         *)
(* pick_next_scrub and continue_scrub run to completion on the event loop, *)
(* so each is one step here; they are written as RECURSIVE operators over  *)
(* a record of the scrub state, and the step stores the final record.     *)
(***************************************************************************)
EXTENDS Integers, FiniteSets, SequencesExt

CONSTANTS
  Pgs,          \* PG numbers 1..n, in the order of the pgs map
  PgObjs,       \* PgObjs[p]: the objects of PG p, sorted (object ids are numbers)
  ListLimit,    \* scrub_list_limit
  QueueDepth,   \* scrub_queue_depth
  ScrubSleep,   \* scrub_sleep_ms > 0
  AutoScrub,    \* auto_scrub
  Interval,     \* the scrub interval, in ticks
  MaxTime,      \* bound on the clock
  MaxChurn,     \* bound on PG (de)activations and no_scrub changes
  Roles,        \* 1..pg_size of the replicated pool
  Copies,       \* Copies[o][r]: content of o's copy on role r, "MISSING" or "NOENT"
  FindBest,     \* scrub_find_best
  WriteObjs     \* objects that writes or recovery may touch

ASSUME Pgs = 1..Cardinality(Pgs) /\ ListLimit >= 1 /\ QueueDepth >= 1

VARIABLES
  active,            \* PG_ACTIVE of each pg_t
  scrubbing,         \* PG_SCRUBBING of each pg_t
  next_scrub,        \* pg_t::next_scrub (0 = not planned)
  now,               \* CLOCK_REALTIME, in ticks
  no_scrub,          \* osd_t::no_scrub
  osd_scrubbing,     \* OSD_SCRUBBING in peering_state
  scrub_nearest_ts,
  scrub_timer,       \* the deadline of scrub_timer_id, -1 if none
  scrub_last_pg,     \* 0 stands for the empty pool_pg_num_t {}
  scrub_list_op,     \* the listing in flight, or NoListOp
  scrub_cur_list,    \* [buf, objs, stable]: total_count is Len(objs)
  scrub_list_pos,
  scrub_ops,         \* scrub_ops: "NONE", "RUN", or "SLEEP" (scrub_sleep_ms timer)
  busy,              \* objects in a PG write_queue or in recovery_ops
  last_scrub,        \* history: the object and result of the latest scrub operation
  visited,           \* history: objects the cursor passed this round, per PG
  submitted,         \* history: objects scrubbed this round, per PG
  aborted,           \* force_stop
  churn

vars == <<active, scrubbing, next_scrub, now, no_scrub, osd_scrubbing,
          scrub_nearest_ts, scrub_timer, scrub_last_pg, scrub_list_op,
          scrub_cur_list, scrub_list_pos, scrub_ops, busy, last_scrub, visited,
          submitted, aborted, churn>>

Objs == UNION {Range(PgObjs[p]) : p \in Pgs}
NoListOp == [pg |-> 0, min |-> 0]
EmptyList == [buf |-> FALSE, objs |-> <<>>, stable |-> 0]

(* The state pick_next_scrub and continue_scrub read and write. *)
S == [last |-> scrub_last_pg, listop |-> scrub_list_op, list |-> scrub_cur_list,
      pos |-> scrub_list_pos, scrubbing |-> scrubbing, next |-> next_scrub,
      ops |-> scrub_ops, nearest |-> scrub_nearest_ts, timer |-> scrub_timer,
      visited |-> visited, submitted |-> submitted]

Store(s) ==
  /\ scrub_last_pg' = s.last /\ scrub_list_op' = s.listop
  /\ scrub_cur_list' = s.list /\ scrub_list_pos' = s.pos
  /\ scrubbing' = s.scrubbing /\ next_scrub' = s.next /\ scrub_ops' = s.ops
  /\ scrub_nearest_ts' = s.nearest /\ scrub_timer' = s.timer
  /\ visited' = s.visited /\ submitted' = s.submitted

-----------------------------------------------------------------------------
(* The PG is active and its next_scrub time has come (line 129). *)
Due(s, p) == active[p] /\ s.next[p] # 0 /\ s.next[p] <= now

(* No recovery, scrub or write of the object is in progress (lines 144-146). *)
Idle(s, o) == o \notin busy /\ s.ops[o] = "NONE"

(* The cursor moved over objs[pos+1..k]: they are visited this round. *)
Pass(s, p, k) ==
  [s EXCEPT !.pos = k,
            !.visited[p] = @ \cup Range(SubSeq(s.list.objs, s.pos + 1, k))]

\* mutant: the next batch starts at the last object listed, not after it
ListNextRepeat(s, p) ==
  LET last_oid == IF s.last = p /\ s.list.stable > 0
                  THEN s.list.objs[s.list.stable] ELSE 0
      s1 == IF s.list.buf THEN [s EXCEPT !.list = EmptyList, !.pos = 0] ELSE s
      s2 == IF last_oid = 0
            THEN [s1 EXCEPT !.visited[p] = {}, !.submitted[p] = {}] ELSE s1
  IN  [s2 EXCEPT !.scrubbing[p] = TRUE, !.last = p,
                 !.listop = [pg |-> p, min |-> last_oid]]

(* Lines 163-193: request the next batch of the PG's list. *)
ListNext(s, p) ==
  LET last_oid == IF s.last = p /\ s.list.stable > 0
                  THEN s.list.objs[s.list.stable] + 1 ELSE 0
      s1 == IF s.list.buf THEN [s EXCEPT !.list = EmptyList, !.pos = 0] ELSE s
      \* a listing from the start of the PG begins a scrub round of it
      s2 == IF last_oid = 0
            THEN [s1 EXCEPT !.visited[p] = {}, !.submitted[p] = {}] ELSE s1
  IN  [s2 EXCEPT !.scrubbing[p] = TRUE, !.last = p,
                 !.listop = [pg |-> p, min |-> last_oid]]

(* Lines 195-209: the PG is scrubbed; the list is freed. *)
EndPg(s, p) ==
  LET s1 == IF s.scrubbing[p]
            THEN [s EXCEPT !.last = 0, !.scrubbing[p] = FALSE, !.next[p] = 0]
            ELSE s
  IN  IF s1.list.buf THEN [s1 EXCEPT !.list = EmptyList] ELSE s1

(***************************************************************************)
(* The loop of pick_next_scrub over the PGs from pg_it (lines 127-220).   *)
(* It returns [r, oid, s]: r = 2 with an object to scrub, 1 when a list   *)
(* request was sent, 0 when no PG needs scrubbing.                        *)
(***************************************************************************)
RECURSIVE PickLoop(_, _, _)
PickLoop(s, p, rescan) ==
  LET advance(t) == IF p = Cardinality(Pgs) /\ rescan THEN PickLoop(t, 1, FALSE)
                    ELSE PickLoop(t, p + 1, rescan)
  IN
  IF p > Cardinality(Pgs) THEN [r |-> 0, oid |-> 0, s |-> s]
  ELSE IF ~Due(s, p) THEN advance(s)
  ELSE
    LET total == Len(s.list.objs)
        k == IF s.last = p
             THEN SelectInSubSeq(s.list.objs, s.pos + 1, total,
                                 LAMBDA o : Idle(s, o))
             ELSE 0
    IN
    IF k # 0
    THEN [r |-> 2, oid |-> s.list.objs[k],
          s |-> [Pass(s, p, k) EXCEPT !.scrubbing[p] = TRUE]]
    ELSE
      LET s1 == IF s.last = p /\ s.pos < total THEN Pass(s, p, total) ELSE s
      IN  IF s1.last = p /\ s1.pos >= total /\ s1.list.stable < ListLimit
          THEN advance(EndPg(s1, p))
          ELSE [r |-> 1, oid |-> 0, s |-> ListNext(s1, p)]

(* pick_next_scrub (lines 106-221); the pgs map is never empty here. *)
PickNextScrub(s) ==
  IF s.listop # NoListOp THEN [r |-> 1, oid |-> 0, s |-> s]
  ELSE PickLoop(s, IF s.last = 0 THEN 1 ELSE s.last, s.last # 0)

(* submit_scrub_op (lines 223-278): the object joins scrub_ops. *)
SubmitScrubOp(s, o) ==
  LET p == CHOOSE q \in Pgs : o \in Range(PgObjs[q])
  IN  [s EXCEPT !.ops[o] = "RUN", !.submitted[p] = @ \cup {o}]

RunningOps(s) == {o \in Objs : s.ops[o] # "NONE"}

RECURSIVE ScrubLoop(_)
ScrubLoop(s) ==
  IF Cardinality(RunningOps(s)) >= QueueDepth THEN [r |-> TRUE, s |-> s]
  ELSE LET pk == PickNextScrub(s)
       IN  IF pk.r = 2 THEN ScrubLoop(SubmitScrubOp(pk.s, pk.oid))
           ELSE [r |-> pk.r # 0, s |-> pk.s]

(* continue_scrub (lines 283-320): [r, s] with r its boolean result. *)
ContinueScrub(s) ==
  IF s.listop # NoListOp THEN [r |-> TRUE, s |-> s]
  ELSE IF no_scrub
  THEN [r |-> FALSE,
        s |-> [s EXCEPT !.list = EmptyList, !.last = 0, !.nearest = 0,
                        !.timer = -1, !.scrubbing = [p \in Pgs |-> FALSE]]]
  ELSE ScrubLoop(s)

-----------------------------------------------------------------------------
(***************************************************************************)
(* The replica vote of continue_primary_scrub on a replicated pool (lines *)
(* 470-548) over the copies c read from the roles C: each copy is grouped *)
(* with the first equal copy (eq_to), each group's first role gets its     *)
(* votes, and best is the first role with most votes.                      *)
(***************************************************************************)
EqTo(c, C, r) == Min({q \in C : q <= r /\ c[q] = c[r]})

Votes(c, C, r) == Quantify(C, LAMBDA q : EqTo(c, C, q) = r)

Best(c, C) == LET top == Max({Votes(c, C, r) : r \in C})
              IN  Min({r \in C : Votes(c, C, r) = top})

(* The roles whose read_error the vote sets (lines 508-531). *)
Outvoted(c, C) ==
  LET b == Best(c, C)
  IN  IF C # {} /\ Votes(c, C, b) < Cardinality(C) /\ FindBest
      THEN {r \in C : Votes(c, C, r) > 0 /\ Votes(c, C, r) < Votes(c, C, b)}
      ELSE {}

\* mutant: a tie between the largest groups is not reported
InconsistentNoTie(c, C) ==
  C # {} /\ Votes(c, C, Best(c, C)) < Cardinality(C) /\ ~FindBest

(* No majority: another group as large as best's, or find_best is off. *)
Inconsistent(c, C) ==
  LET b == Best(c, C)
  IN  /\ C # {} /\ Votes(c, C, b) < Cardinality(C)
      /\ \/ \E r \in Roles \ {b} : r \in C /\ Votes(c, C, r) = Votes(c, C, b)
         \/ ~FindBest

NoMark == [bad |-> {}, inc |-> FALSE, cmp |-> {}]

(***************************************************************************)
(* The result of one scrub operation of o (lines 372-469): the present    *)
(* copies are read, reads in E fail with errcode, and the copies that     *)
(* remain are compared.  mark_object_corrupted gets the stripes with      *)
(* read_error or not_exists; it is recorded as the mark.                  *)
(***************************************************************************)
ScrubResult(o, E, errcode) ==
  LET c == Copies[o]
      P == {r \in Roles : c[r] # "MISSING"}
      C == {r \in P \ E : c[r] # "NOENT"}
      inc == Inconsistent(c, C)
      bad == E \cup Outvoted(c, C) \cup {r \in P \ E : c[r] = "NOENT"}
  IN  CASE Cardinality(P) <= 1              -> NoMark
        [] E # {} /\ errcode = "OTHER"      -> NoMark
        [] Cardinality(P \ E) <= 1          -> [bad |-> E, inc |-> FALSE, cmp |-> {}]
        [] OTHER -> IF bad # {} \/ inc THEN [bad |-> bad, inc |-> inc, cmp |-> C]
                    ELSE [NoMark EXCEPT !.cmp = C]

-----------------------------------------------------------------------------
(* schedule_scrub (lines 341-370) of PG p in the state s. *)
ScheduleScrub(s, p) ==
  IF ~no_scrub /\ s.next[p] # 0 /\ (s.nearest = 0 \/ s.nearest > s.next[p])
  THEN IF now >= s.next[p]
       THEN [s |-> [s EXCEPT !.nearest = 0, !.timer = -1], wake |-> TRUE]
       ELSE [s |-> [s EXCEPT !.nearest = s.next[p], !.timer = s.next[p]], wake |-> FALSE]
  ELSE [s |-> s, wake |-> FALSE]

(* Apply a result [s, wake]: wake sets OSD_SCRUBBING. *)
StoreWake(res) ==
  /\ Store(res.s)
  /\ osd_scrubbing' = (osd_scrubbing \/ res.wake)

Env == <<active, now, no_scrub, busy, churn>>

(* plan_scrub (lines 322-339), called when a PG is activated or scrubbed. *)
PlanScrub(p) ==
  /\ ~aborted /\ active[p] /\ next_scrub[p] = 0 /\ AutoScrub
  /\ StoreWake(ScheduleScrub([S EXCEPT !.next[p] = now + Interval], p))
  /\ UNCHANGED <<Env, last_scrub, aborted>>

(* schedule_scrub called for a planned PG from peering. *)
Schedule(p) ==
  /\ ~aborted /\ next_scrub[p] # 0
  /\ StoreWake(ScheduleScrub(S, p))
  /\ UNCHANGED <<Env, last_scrub, aborted>>

(* The callback of scrub_timer_id (lines 361-367). *)
ScrubTimer ==
  /\ ~aborted /\ scrub_timer # -1 /\ now >= scrub_timer
  /\ scrub_timer' = -1 /\ scrub_nearest_ts' = 0 /\ osd_scrubbing' = TRUE
  /\ UNCHANGED <<Env, active, scrubbing, next_scrub, scrub_last_pg,
                 scrub_list_op, scrub_cur_list, scrub_list_pos, scrub_ops,
                 last_scrub, visited, submitted, aborted>>

(* The OSD loop calls continue_scrub while OSD_SCRUBBING is set and       *)
(* clears the flag when it returns false (osd.cpp, not under src/).       *)
OsdLoop ==
  /\ ~aborted /\ osd_scrubbing
  /\ LET res == ContinueScrub(S)
     IN  Store(res.s) /\ osd_scrubbing' = res.r
  /\ UNCHANGED <<Env, last_scrub, aborted>>

(* The OP_LIST callback (lines 35-53): the next batch of at most          *)
(* scrub_list_limit objects from min_oid; an empty result may come with    *)
(* or without a buffer.                                                    *)
ListDone ==
  /\ ~aborted /\ scrub_list_op # NoListOp
  /\ LET p == scrub_list_op.pg
         rest == SelectSeq(PgObjs[p], LAMBDA o : o >= scrub_list_op.min)
         got == SubSeq(rest, 1, IF Len(rest) < ListLimit THEN Len(rest) ELSE ListLimit)
     IN  \E buf \in IF got = <<>> THEN BOOLEAN ELSE {TRUE} :
           LET res == ContinueScrub([S EXCEPT !.listop = NoListOp,
                          !.list = [buf |-> buf, objs |-> got, stable |-> Len(got)]])
           IN  Store(res.s)
  /\ UNCHANGED <<Env, osd_scrubbing, last_scrub, aborted>>

(* The local OP_LIST fails: force_stop(1) (lines 38-43). *)
ListFail ==
  /\ ~aborted /\ scrub_list_op # NoListOp
  /\ aborted' = TRUE /\ scrub_list_op' = NoListOp
  /\ UNCHANGED <<Env, active, scrubbing, next_scrub, osd_scrubbing,
                 scrub_nearest_ts, scrub_timer, scrub_last_pg, scrub_cur_list,
                 scrub_list_pos, scrub_ops, last_scrub, visited, submitted>>

(* The scrub operation of o ends (lines 243-274 and 603-626). *)
ScrubOpDone(o) ==
  /\ ~aborted /\ scrub_ops[o] = "RUN"
  /\ \E E \in SUBSET {r \in Roles : Copies[o][r] # "MISSING"},
        errcode \in {"EIO", "OTHER"} :
        last_scrub' = [o |-> o, m |-> ScrubResult(o, E, errcode)]
  /\ IF ScrubSleep
     THEN /\ scrub_ops' = [scrub_ops EXCEPT ![o] = "SLEEP"]
          /\ UNCHANGED <<scrubbing, next_scrub, scrub_nearest_ts, scrub_timer,
                         scrub_last_pg, scrub_list_op, scrub_cur_list,
                         scrub_list_pos, visited, submitted>>
     ELSE Store(ContinueScrub([S EXCEPT !.ops[o] = "NONE"]).s)
  /\ UNCHANGED <<Env, osd_scrubbing, aborted>>

(* The scrub_sleep_ms timer of o (lines 259-266). *)
SleepDone(o) ==
  /\ ~aborted /\ scrub_ops[o] = "SLEEP"
  /\ Store(ContinueScrub([S EXCEPT !.ops[o] = "NONE"]).s)
  /\ UNCHANGED <<Env, osd_scrubbing, last_scrub, aborted>>

(* The clock advances. *)
Tick ==
  /\ now < MaxTime /\ now' = now + 1
  /\ UNCHANGED <<active, no_scrub, busy, churn, scrubbing, next_scrub,
                 osd_scrubbing, scrub_nearest_ts, scrub_timer, scrub_last_pg,
                 scrub_list_op, scrub_cur_list, scrub_list_pos, scrub_ops,
                 last_scrub, visited, submitted, aborted>>

ScrubVars == <<scrubbing, next_scrub, osd_scrubbing, scrub_nearest_ts,
               scrub_timer, scrub_last_pg, scrub_list_op, scrub_cur_list,
               scrub_list_pos, scrub_ops, last_scrub, visited, submitted, aborted>>

(* A write or recovery of o starts or ends (osd_primary_write.cpp). *)
WriteBegin(o) == o \notin busy /\ busy' = busy \cup {o}
                 /\ UNCHANGED <<active, now, no_scrub, churn, ScrubVars>>
WriteEnd(o) == o \in busy /\ busy' = busy \ {o}
               /\ UNCHANGED <<active, now, no_scrub, churn, ScrubVars>>

(* Peering deactivates or activates a PG; the no_scrub option changes. *)
TogglePg(p) ==
  /\ churn < MaxChurn /\ active' = [active EXCEPT ![p] = ~@] /\ churn' = churn + 1
  /\ UNCHANGED <<now, no_scrub, busy, ScrubVars>>
ToggleNoScrub ==
  /\ churn < MaxChurn /\ no_scrub' = ~no_scrub /\ churn' = churn + 1
  /\ UNCHANGED <<active, now, busy, ScrubVars>>

Init ==
  /\ active = [p \in Pgs |-> TRUE]
  /\ scrubbing = [p \in Pgs |-> FALSE]
  /\ next_scrub = [p \in Pgs |-> 0]
  /\ now = 0 /\ no_scrub = FALSE /\ osd_scrubbing = FALSE
  /\ scrub_nearest_ts = 0 /\ scrub_timer = -1
  /\ scrub_last_pg = 0 /\ scrub_list_op = NoListOp
  /\ scrub_cur_list = EmptyList /\ scrub_list_pos = 0
  /\ scrub_ops = [o \in Objs |-> "NONE"]
  /\ busy = {}
  /\ last_scrub = [o |-> 0, m |-> NoMark]
  /\ visited = [p \in Pgs |-> {}] /\ submitted = [p \in Pgs |-> {}]
  /\ aborted = FALSE /\ churn = 0

(* The clock and churn bounds are used up and no listing, scrub operation *)
(* or write is in flight: the model stops here (the OSD would idle on).   *)
BoundsReached ==
  /\ now = MaxTime /\ churn = MaxChurn
  /\ scrub_list_op.pg = 0 /\ busy = {}
  /\ \A o \in Objs : scrub_ops[o] = "NONE"
  /\ UNCHANGED vars

Next ==
  \/ BoundsReached
  \/ \E p \in Pgs : PlanScrub(p) \/ Schedule(p) \/ TogglePg(p)
  \/ ScrubTimer \/ OsdLoop \/ ListDone \/ ListFail
  \/ \E o \in Objs : ScrubOpDone(o) \/ SleepDone(o)
  \/ \E o \in WriteObjs : WriteBegin(o) \/ WriteEnd(o)
  \/ Tick \/ ToggleNoScrub

Spec == Init /\ [][Next]_vars

-----------------------------------------------------------------------------
PgOf(o) == CHOOSE p \in Pgs : o \in Range(PgObjs[p])

TypeOK ==
  /\ scrub_last_pg \in {0} \cup Pgs
  /\ scrub_ops \in [Objs -> {"NONE", "RUN", "SLEEP"}]
  /\ scrub_list_pos \in Nat

(***************************************************************************)
(* A PG's scrub round ends (next_scrub reset to 0 at line 200) only after *)
(* the list cursor passed every object of the PG, scrubbing it or finding *)
(* it busy: no object is left out of a round.                             *)
(***************************************************************************)
EveryObjectVisited ==
  [][\A p \in Pgs : next_scrub[p] # 0 /\ next_scrub'[p] = 0
                      => Range(PgObjs[p]) \subseteq visited'[p]]_vars

(***************************************************************************)
(* Within a round of a PG, each object is scrubbed at most once: the next *)
(* batch of the list starts after the last object of the previous one.   *)
(***************************************************************************)
ScrubbedOncePerRound ==
  [][\A o \in Objs : scrub_ops[o] = "NONE" /\ scrub_ops'[o] = "RUN"
                       => o \notin submitted[PgOf(o)]]_vars

(* The content the most copies of C hold, if one content has more copies  *)
(* than any other; "NONE" otherwise.                                       *)
Plurality(c, C) ==
  LET n(v) == Quantify(C, LAMBDA r : c[r] = v)
      top == {v \in {c[r] : r \in C} : \A w \in {c[r] : r \in C} \ {v} : n(v) > n(w)}
  IN  IF top = {} THEN "NONE" ELSE CHOOSE v \in top : TRUE

(***************************************************************************)
(* The vote of a replicated scrub never marks a copy that holds the most common *)
(* content as bad, and it declares the object inconsistent exactly *)
(* when the compared copies differ and either no content has more copies  *)
(* than every other or scrub_find_best is off.                            *)
(***************************************************************************)
VoteSound ==
  LET m == last_scrub.m  c == Copies[last_scrub.o]  v == Plurality(c, m.cmp)
  IN  last_scrub.o # 0 =>
        /\ \A r \in m.bad \cap m.cmp : c[r] # v
        /\ m.cmp # {} =>
             (m.inc <=> (Cardinality({c[r] : r \in m.cmp}) > 1
                         /\ (v = "NONE" \/ ~FindBest)))

(***************************************************************************)
(* With scrub_find_best, when one content has more copies than any other, *)
(* every compared copy with other content is marked bad: the printf at    *)
(* lines 519-525 says each such copy is marked as corrupted.              *)
(***************************************************************************)
VoteMarksEveryBadCopy ==
  LET m == last_scrub.m  c == Copies[last_scrub.o]  v == Plurality(c, m.cmp)
  IN  last_scrub.o # 0 /\ FindBest /\ v # "NONE"
        => {r \in m.cmp : c[r] # v} \subseteq m.bad
====
