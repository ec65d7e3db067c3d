--------------------------- MODULE OsdPrimaryWrite ---------------------------
(***************************************************************************)
(* The primary OSD's write path for one PG (src/osd/osd_primary_write.cpp) *)
(* : client writes are serialized per object by pg.write_queue; the head  *)
(* of an object's queue reads the current version from the replicas       *)
(* (RMW read), checks the CAS version, computes the new version from the  *)
(* PG epoch, waits until a newer epoch is reported to etcd, writes, and   *)
(* then stabilizes or remembers the write as unstable, deletes extra      *)
(* copies and hands the queue over to the next write of the object.       *)
(* Sub-operations to the replicas complete, fail or fail partially; the   *)
(* PG may be stopped, and pending flush actions may hold an object back.  *)
(* Replicas are abstracted to one version per object; data to FULL or    *)
(* partial writes.                                                         *)
(***************************************************************************)
EXTENDS Integers, FiniteSets, SequencesExt, Bitwise

CONSTANTS
  Ops,              \* client write operations (model values)
  Oids,             \* objects of the PG
  OpOid,            \* OpOid[op]: the object op writes
  OpCas,            \* OpCas[op]: req.rw.version (0 = no CAS)
  OpFull,           \* OpFull[op]: op overwrites the whole block
  Scheme,           \* "REPLICATED" or "EC" (EC and XOR behave alike here)
  ImmediateCommit,  \* "NONE", "SMALL" or "ALL"
  AutosyncWrites,   \* autosync_writes
  VerBits,          \* width of a version (64 in the code)
  EpochBits,        \* PG_EPOCH_BITS: high bits of a version hold the epoch
  InitVer,          \* InitVer[o]: the object's version on the replicas
  InitObjState,     \* InitObjState[o]: "CLEAN", "DEGRADED" or "INCOMPLETE"
  InitEpoch,        \* pg.epoch = pg.reported_epoch initially
  InitFlush,        \* objects with pending pg.flush_actions initially
  MaxReadErrors     \* bound on EIO answers to RMW reads

ASSUME EpochBits < VerBits /\ InitEpoch \in 1..(2^EpochBits - 1)

VARIABLES
  st,               \* op_data->st; Idle before arrival, StDone after finish_op
  retval,           \* reply.hdr.retval: "NONE", "OK", "EIO", "EINTR", "EPIPE", "ERR"
  fact_ver,         \* op_data->fact_ver
  target_ver,       \* op_data->target_ver
  write_queue,      \* pg.write_queue: object -> ops in insertion order
  flush_actions,    \* objects with pending pg.flush_actions
  pg_state,         \* flags of pg.state: subset of {"ACTIVE", "STOPPING"}
  epoch,            \* pg.epoch
  reported_epoch,   \* pg.reported_epoch
  etcd_epoch,       \* the PG epoch etcd has stored (pg_config[].epoch)
  obj_ver,          \* the object's version on the replicas
  obj_state,        \* the object's entry in the PG's degraded/incomplete lists
  ver_override,     \* pg.ver_override: object -> version, or NoVer
  unstable_write_count,
  read_errors,      \* EIO answers so far
  orig_ver,         \* op_data->orig_ver
  had_state,        \* op_data->object_state was set (object not clean)
  last_ack,         \* history: the version of the last successful write
  aborted           \* the assert at line 219 failed

vars == <<st, retval, fact_ver, target_ver, write_queue, flush_actions,
          pg_state, epoch, reported_epoch, etcd_epoch, obj_ver, obj_state,
          ver_override, unstable_write_count, read_errors, orig_ver, had_state,
          last_ack, aborted>>

NoVer == -1
Idle == -1      \* st before the op reaches continue_primary_write
StDone == 100   \* st after finish_op
CounterSpace == 2^(VerBits - EpochBits)
EpochOf(v) == v \div CounterSpace
Ver(e, c) == e * CounterSpace + c

(* The mask of line 217 as C parses it: 1 << ((64-PG_EPOCH_BITS) - 1).    *)
EpochBumpMask == 2^(VerBits - EpochBits - 1)

OpsOf(o) == {op \in Ops : OpOid[op] = o}
QueueHead(o) == IF write_queue[o] = <<>> THEN "NONE" ELSE write_queue[o][1]

-----------------------------------------------------------------------------
(***************************************************************************)
(* retry_1 (lines 75-109): a partial overwrite of an incomplete object is *)
(* refused with EIO (replicated: lines 82-90, EC: calc_rmw fails).        *)
(***************************************************************************)
RefusedAtRetry(op, os) == os[OpOid[op]] = "INCOMPLETE" /\ ~OpFull[op]

(***************************************************************************)
(* pg_cancel_write_queue (osd_primary.cpp): if op heads its object's      *)
(* queue, every queued op of the object finishes with ret and the queue   *)
(* is erased; otherwise only op finishes.                                  *)
(***************************************************************************)
CancelWriteQueue(op, ret) ==
  LET o == OpOid[op]
      victims == IF QueueHead(o) = op THEN Range(write_queue[o]) ELSE {op}
  IN  /\ st' = [x \in Ops |-> IF x \in victims THEN StDone ELSE st[x]]
      /\ retval' = [x \in Ops |-> IF x \in victims THEN ret ELSE retval[x]]
      /\ write_queue' = IF QueueHead(o) = op
                        THEN [write_queue EXCEPT ![o] = <<>>]
                        ELSE write_queue

(***************************************************************************)
(* continue_others (lines 393-415): op leaves the head of the queue and   *)
(* finishes; the autosync counter is checked; the next write of the       *)
(* object continues from resume_1 at once, seeing the object state os.   *)
(* uwc is unstable_write_count before the check.  A next write refused at *)
(* retry_1 finishes too and hands over in turn, so the ops refused in a   *)
(* row finish and the first other one submits its RMW read (st 2).        *)
(***************************************************************************)
ContinueOthers(op, ret, os, uwc) ==
  LET o    == OpOid[op]
      rest == IF QueueHead(o) = op THEN Tail(write_queue[o]) ELSE write_queue[o]
      k    == SelectInSeq(rest, LAMBDA x : ~RefusedAtRetry(x, os))
      refused == {rest[i] : i \in 1..(IF k = 0 THEN Len(rest) ELSE k - 1)}
  IN  /\ st' = [x \in Ops |->
                  IF x = op \/ x \in refused THEN StDone
                  ELSE IF k > 0 /\ x = rest[k] THEN 2 ELSE st[x]]
      /\ retval' = [x \in Ops |->
                  IF x = op THEN ret
                  ELSE IF x \in refused THEN "EIO" ELSE retval[x]]
      /\ write_queue' = [write_queue EXCEPT ![o] =
                           IF k = 0 THEN <<>> ELSE SubSeq(rest, k, Len(rest))]
      /\ unstable_write_count' = IF uwc >= AutosyncWrites THEN 0 ELSE uwc

(***************************************************************************)
(* resume_1 for the head op of its object, whose queue becomes wq: the    *)
(* op is refused with EIO, or submits its RMW read (lines 65-147).         *)
(***************************************************************************)
Resume1(op, wq) ==
  \/ /\ RefusedAtRetry(op, obj_state)
     /\ ContinueOthers(op, "EIO", obj_state, unstable_write_count)
  \/ /\ ~RefusedAtRetry(op, obj_state)
     /\ st' = [st EXCEPT ![op] = 2]
     /\ write_queue' = wq
     /\ UNCHANGED <<retval, unstable_write_count>>

QueueBusyFlushOnly(op) == OpOid[op] \in flush_actions    \* mutant

(* check_write_queue (lines 16-35): flush actions are pending for the     *)
(* object, or an earlier write of it is queued.                            *)
QueueBusy(op) == OpOid[op] \in flush_actions \/ write_queue[OpOid[op]] # <<>>

Versions == <<fact_ver, target_ver, orig_ver>>
PgVars == <<flush_actions, pg_state, epoch, reported_epoch, etcd_epoch>>
ObjVars == <<obj_ver, obj_state, ver_override, read_errors, had_state>>

(***************************************************************************)
(* continue_primary_write of a new op (lines 40-64) with                  *)
(* check_write_queue (lines 7-38): an inactive PG cancels the op, pending *)
(* flush actions or an earlier write of the object queue it, else it runs *)
(* resume_1 at once.                                                       *)
(***************************************************************************)
Start(op) ==
  LET o == OpOid[op] IN
  /\ st[op] = Idle
  /\ \/ /\ "ACTIVE" \notin pg_state
        /\ CancelWriteQueue(op, "EPIPE")
        /\ UNCHANGED unstable_write_count
     \/ /\ "ACTIVE" \in pg_state
        /\ QueueBusy(op)
        /\ st' = [st EXCEPT ![op] = 1]
        /\ write_queue' = [write_queue EXCEPT ![o] = Append(@, op)]
        /\ UNCHANGED <<retval, unstable_write_count>>
     \/ /\ "ACTIVE" \in pg_state
        /\ ~QueueBusy(op)
        /\ Resume1(op, [write_queue EXCEPT ![o] = <<op>>])
  /\ UNCHANGED <<Versions, PgVars, ObjVars, last_ack, aborted>>

(***************************************************************************)
(* The new version (lines 210-223): a write in a newer epoch restarts the *)
(* counter at 1; otherwise the counter is incremented, and the epoch is   *)
(* incremented first when (fact_ver & mask) == mask.                       *)
(***************************************************************************)
BumpEpoch(fv) == EpochOf(fv) >= epoch /\ (fv & EpochBumpMask) = EpochBumpMask
NewVersionRestart(fv) == Ver(epoch, 1)                    \* mutant

NewVersion(fv) ==
  IF EpochOf(fv) < epoch THEN Ver(epoch, 1) ELSE (fv + 1) % 2^VerBits

(***************************************************************************)
(* Lines 224-258 with the PG epoch e: wait at st 10 until the epoch is    *)
(* reported, cancel if the PG is stopping, else submit the write (st 4). *)
(***************************************************************************)
EpochUnreportedOrEqual(e) == e >= reported_epoch         \* mutant

EpochUnreportedNever(e) == FALSE                          \* mutant

EpochUnreported(e) == e > reported_epoch

SubmitWrite(op, e) ==
  \/ /\ EpochUnreported(e)
     /\ st' = [st EXCEPT ![op] = 10]
     /\ UNCHANGED <<retval, write_queue>>
  \/ /\ ~EpochUnreported(e) /\ "STOPPING" \in pg_state
     /\ CancelWriteQueue(op, "EPIPE")
  \/ /\ ~EpochUnreported(e) /\ "STOPPING" \notin pg_state
     /\ st' = [st EXCEPT ![op] = 4]
     /\ UNCHANGED <<retval, write_queue>>

(***************************************************************************)
(* resume_3 (lines 148-258): the RMW read answered.  EIO/EDOM marks the   *)
(* object corrupted and retries from retry_1; other errors cancel the     *)
(* object's queue; a CAS mismatch replies EINTR; otherwise the version    *)
(* override is saved (EC), the new version computed and the write sent.   *)
(***************************************************************************)
(* The CAS check of lines 167-174.                                         *)
CasMismatch(op, fv) == OpCas[op] # 0 /\ fv # OpCas[op] - 1

ReadDone(op) ==
  LET o  == OpOid[op]
      fv == obj_ver[o]
  IN
  /\ st[op] = 2
  /\ \/ /\ read_errors < MaxReadErrors
        /\ \E s \in {"DEGRADED", "INCOMPLETE"} :
             LET os == [obj_state EXCEPT ![o] = s] IN
             /\ obj_state' = os
             /\ IF RefusedAtRetry(op, os)
                THEN ContinueOthers(op, "EIO", os, unstable_write_count)
                ELSE UNCHANGED <<st, retval, write_queue, unstable_write_count>>
        /\ read_errors' = read_errors + 1
        /\ UNCHANGED <<Versions, PgVars, obj_ver, ver_override, had_state,
                       last_ack, aborted>>
     \/ /\ CancelWriteQueue(op, "ERR")
        /\ UNCHANGED <<Versions, PgVars, ObjVars, unstable_write_count,
                       last_ack, aborted>>
     \/ /\ CasMismatch(op, fv)
        /\ fact_ver' = [fact_ver EXCEPT ![op] = fv]
        /\ ContinueOthers(op, "EINTR", obj_state, unstable_write_count)
        /\ UNCHANGED <<target_ver, orig_ver, PgVars, ObjVars, last_ack, aborted>>
     \/ /\ ~CasMismatch(op, fv)
        /\ BumpEpoch(fv) /\ epoch = 2^EpochBits - 1
        /\ aborted' = TRUE
        /\ UNCHANGED <<st, retval, write_queue, unstable_write_count, Versions,
                       PgVars, ObjVars, last_ack>>
     \/ /\ ~CasMismatch(op, fv)
        /\ ~(BumpEpoch(fv) /\ epoch = 2^EpochBits - 1)
        /\ LET e == IF BumpEpoch(fv) THEN epoch + 1 ELSE epoch IN
           /\ epoch' = e
           /\ SubmitWrite(op, e)
        /\ fact_ver' = [fact_ver EXCEPT ![op] = fv]
        /\ orig_ver' = [orig_ver EXCEPT ![op] = fv]
        /\ target_ver' = [target_ver EXCEPT ![op] = NewVersion(fv)]
        /\ ver_override' = IF Scheme = "REPLICATED" THEN ver_override
                           ELSE [ver_override EXCEPT ![o] = fv]
        /\ UNCHANGED <<flush_actions, pg_state, reported_epoch, etcd_epoch,
                       obj_ver, obj_state, read_errors, had_state,
                       unstable_write_count, last_ack, aborted>>

(***************************************************************************)
(* Lines 315-392 after the write is stable or remembered as unstable:     *)
(* with immediate_commit=all, extra copies of a degraded object are       *)
(* deleted first (st 8); then the reply is the written version and the    *)
(* queue goes on (continue_others).                                        *)
(***************************************************************************)
Finish(op, os, uwc, ver) ==
  /\ ContinueOthers(op, "OK", os, uwc)
  /\ last_ack' = [last_ack EXCEPT ![OpOid[op]] = ver]

AfterStable(op, had, os, uwc, ver) ==
  \/ /\ had /\ ImmediateCommit = "ALL"
     /\ st' = [st EXCEPT ![op] = 8]
     /\ unstable_write_count' = uwc
     /\ UNCHANGED <<retval, write_queue, last_ack>>
  \/ /\ had /\ ImmediateCommit = "ALL"
     /\ Finish(op, os, uwc, ver)      \* no extra copies: n_subops = 0
  \/ /\ ~(had /\ ImmediateCommit = "ALL")
     /\ Finish(op, os, uwc, ver)

(* remember_unstable_write (lines 461-567): is this write committed at    *)
(* once?  With immediate_commit=small a whole-block write (a partial      *)
(* write to a moved object is widened to the block, lines 181-192) is    *)
(* lazy.                                                                   *)
BigWrite(op) == OpFull[op] \/ (Scheme = "REPLICATED" /\ obj_state[OpOid[op]] # "CLEAN")
Immediate(op) ==
  ImmediateCommit = "ALL" \/ (ImmediateCommit = "SMALL" /\ ~BigWrite(op))

(***************************************************************************)
(* resume_5 (lines 262-314) and remember_unstable_write: the write        *)
(* sub-operations answered.  A failure (or a dropped connection, after    *)
(* which some replicas may hold the new version) erases the override and  *)
(* cancels the queue; a partial success is rolled back (EC, st 11) or     *)
(* marked as a partial write (replicated); success forgets the object's   *)
(* degraded state and either sends STABILIZE (EC with immediate commit,   *)
(* st 6) or goes on.                                                       *)
(***************************************************************************)
WriteDone(op) ==
  LET o  == OpOid[op]
      tv == target_ver[op]
      erased == [ver_override EXCEPT ![o] = NoVer]
  IN
  /\ st[op] = 4
  /\ \/ /\ \E v \in {obj_ver[o], tv} : obj_ver' = [obj_ver EXCEPT ![o] = v]
        /\ ver_override' = erased
        /\ CancelWriteQueue(op, "ERR")
        /\ UNCHANGED <<obj_state, fact_ver, had_state, unstable_write_count, last_ack>>
     \/ /\ Scheme # "REPLICATED"
        /\ st' = [st EXCEPT ![op] = 11]
        /\ UNCHANGED <<retval, write_queue, obj_ver, obj_state, ver_override,
                       fact_ver, had_state, unstable_write_count, last_ack>>
     \/ /\ Scheme = "REPLICATED"
        /\ \E v \in {obj_ver[o], tv} : obj_ver' = [obj_ver EXCEPT ![o] = v]
        /\ obj_state' = [obj_state EXCEPT ![o] = "DEGRADED"]
        /\ ver_override' = erased
        /\ CancelWriteQueue(op, "ERR")
        /\ UNCHANGED <<fact_ver, had_state, unstable_write_count, last_ack>>
     \/ LET os == [obj_state EXCEPT ![o] = "CLEAN"]
            had == obj_state[o] # "CLEAN"
        IN
        /\ obj_ver' = [obj_ver EXCEPT ![o] = tv]
        /\ fact_ver' = [fact_ver EXCEPT ![op] = tv]
        /\ obj_state' = os
        /\ had_state' = [had_state EXCEPT ![op] = had]
        /\ ver_override' = IF Scheme = "REPLICATED" THEN ver_override ELSE erased
        /\ IF Immediate(op) /\ Scheme # "REPLICATED"
           THEN /\ st' = [st EXCEPT ![op] = 6]
                /\ UNCHANGED <<retval, write_queue, unstable_write_count, last_ack>>
           ELSE AfterStable(op, had, os,
                  IF Immediate(op) THEN unstable_write_count
                  ELSE unstable_write_count + 1, tv)
  /\ UNCHANGED <<target_ver, orig_ver, PgVars, read_errors, aborted>>

(* resume_7 (lines 503-513): the STABILIZE sub-operations answered.        *)
StabDone(op) ==
  /\ st[op] = 6
  /\ \/ /\ CancelWriteQueue(op, "ERR")
        /\ UNCHANGED <<unstable_write_count, last_ack>>
     \/ AfterStable(op, had_state[op], obj_state, unstable_write_count, fact_ver[op])
  /\ UNCHANGED <<Versions, PgVars, ObjVars, aborted>>

(* resume_9 (lines 382-392): the deletions of extra copies answered.       *)
DelDone(op) ==
  /\ st[op] = 8
  /\ \/ /\ CancelWriteQueue(op, "ERR")
        /\ UNCHANGED <<unstable_write_count, last_ack>>
     \/ Finish(op, obj_state, unstable_write_count, fact_ver[op])
  /\ UNCHANGED <<Versions, PgVars, ObjVars, aborted>>

(* resume_12 (lines 278-294): the rollback answered; its errors are       *)
(* ignored, the override erased and the object's queue cancelled.          *)
RollbackDone(op) ==
  /\ st[op] = 11
  /\ ver_override' = [ver_override EXCEPT ![OpOid[op]] = NoVer]
  /\ CancelWriteQueue(op, "ERR")
  /\ UNCHANGED <<Versions, PgVars, obj_ver, obj_state, read_errors, had_state,
                 unstable_write_count, last_ack, aborted>>

(***************************************************************************)
(* on_change_pg_history_hook (lines 417-459): etcd holds an epoch at      *)
(* least pg.epoch; every write waiting at st 10 resumes at resume_10 and  *)
(* is cancelled if the PG is stopping, else submitted.                     *)
(***************************************************************************)
EpochHook ==
  LET waiting == {op \in Ops : st[op] = 10}
      stopping == "STOPPING" \in pg_state
      victims == UNION {Range(write_queue[OpOid[op]]) : op \in waiting}
  IN
  /\ epoch > reported_epoch /\ etcd_epoch >= epoch
  /\ reported_epoch' = etcd_epoch
  /\ st' = [x \in Ops |-> IF stopping /\ x \in victims THEN StDone
                          ELSE IF x \in waiting THEN 4 ELSE st[x]]
  /\ retval' = [x \in Ops |-> IF stopping /\ x \in victims THEN "EPIPE"
                              ELSE retval[x]]
  /\ write_queue' = [o \in Oids |->
                       IF stopping /\ \E op \in waiting : OpOid[op] = o
                       THEN <<>> ELSE write_queue[o]]
  /\ UNCHANGED <<Versions, flush_actions, pg_state, epoch, etcd_epoch, ObjVars,
                 unstable_write_count, last_ack, aborted>>

-----------------------------------------------------------------------------
(* The environment: etcd, peering and the flusher (outside this file).     *)

\* report_pg_states stores the PG's epoch in etcd.
ReportEpoch ==
  /\ etcd_epoch < epoch
  /\ etcd_epoch' = epoch
  /\ UNCHANGED <<st, retval, Versions, write_queue, flush_actions, pg_state,
                 epoch, reported_epoch, ObjVars, unstable_write_count,
                 last_ack, aborted>>

\* Peering starts to stop the PG, and later deactivates it.
StopPg ==
  /\ pg_state = {"ACTIVE"}
  /\ pg_state' = {"ACTIVE", "STOPPING"}
  /\ UNCHANGED <<st, retval, Versions, write_queue, flush_actions, epoch,
                 reported_epoch, etcd_epoch, ObjVars, unstable_write_count,
                 last_ack, aborted>>

DeactivatePg ==
  /\ "STOPPING" \in pg_state
  /\ pg_state' = {}
  /\ UNCHANGED <<st, retval, Versions, write_queue, flush_actions, epoch,
                 reported_epoch, etcd_epoch, ObjVars, unstable_write_count,
                 last_ack, aborted>>

\* The flush actions of an object finish and its first queued write resumes.
FlushDone(o) ==
  /\ o \in flush_actions
  /\ flush_actions' = flush_actions \ {o}
  /\ IF QueueHead(o) # "NONE" /\ st[QueueHead(o)] = 1
     THEN Resume1(QueueHead(o), write_queue)
     ELSE UNCHANGED <<st, retval, write_queue, unstable_write_count>>
  /\ UNCHANGED <<Versions, pg_state, epoch, reported_epoch, etcd_epoch, ObjVars,
                 last_ack, aborted>>

Terminated == aborted \/ \A op \in Ops : st[op] = StDone

Init ==
  /\ st = [op \in Ops |-> Idle]
  /\ retval = [op \in Ops |-> "NONE"]
  /\ fact_ver = [op \in Ops |-> 0]
  /\ target_ver = [op \in Ops |-> 0]
  /\ orig_ver = [op \in Ops |-> 0]
  /\ write_queue = [o \in Oids |-> <<>>]
  /\ flush_actions = InitFlush
  /\ pg_state = {"ACTIVE"}
  /\ epoch = InitEpoch
  /\ reported_epoch = InitEpoch
  /\ etcd_epoch = InitEpoch
  /\ obj_ver = InitVer
  /\ obj_state = InitObjState
  /\ ver_override = [o \in Oids |-> NoVer]
  /\ unstable_write_count = 0
  /\ read_errors = 0
  /\ had_state = [op \in Ops |-> FALSE]
  /\ last_ack = InitVer
  /\ aborted = FALSE

Next ==
  \/ ~aborted /\ \E op \in Ops : Start(op)
  \/ ~aborted /\ \E op \in Ops : ReadDone(op)
  \/ ~aborted /\ \E op \in Ops : WriteDone(op)
  \/ ~aborted /\ \E op \in Ops : StabDone(op)
  \/ ~aborted /\ \E op \in Ops : DelDone(op)
  \/ ~aborted /\ \E op \in Ops : RollbackDone(op)
  \/ ~aborted /\ EpochHook
  \/ ReportEpoch
  \/ StopPg
  \/ DeactivatePg
  \/ \E o \in Oids : FlushDone(o)
  \/ Terminated /\ UNCHANGED vars

Spec == Init /\ [][Next]_vars

(***************************************************************************)
(* Sub-operations are answered (a dropped connection answers with an      *)
(* error), etcd stores reported epochs and its watch fires the hook, and  *)
(* flush actions finish.  Client arrivals and PG stops are not assumed.   *)
(***************************************************************************)
Fairness ==
  /\ \A op \in Ops : /\ WF_vars(~aborted /\ ReadDone(op))
                     /\ WF_vars(~aborted /\ WriteDone(op))
                     /\ WF_vars(~aborted /\ StabDone(op))
                     /\ WF_vars(~aborted /\ DelDone(op))
                     /\ WF_vars(~aborted /\ RollbackDone(op))
  /\ WF_vars(~aborted /\ EpochHook)
  /\ WF_vars(ReportEpoch)
  /\ \A o \in Oids : WF_vars(FlushDone(o))

FairSpec == Spec /\ Fairness

-----------------------------------------------------------------------------
TypeOK ==
  /\ st \in [Ops -> {Idle, StDone} \cup {1, 2, 4, 6, 8, 10, 11}]
  /\ retval \in [Ops -> {"NONE", "OK", "EIO", "EINTR", "EPIPE", "ERR"}]
  /\ \A o \in Oids : Range(write_queue[o]) \subseteq OpsOf(o)
  /\ obj_ver \in [Oids -> 0..(2^VerBits - 1)]
  /\ unstable_write_count \in 0..AutosyncWrites

(***************************************************************************)
(* Writes of one object are serialized by pg.write_queue: an op past its  *)
(* RMW read submission is the head of its object's queue, and each op is  *)
(* queued at most once.  Hand-over in continue_others, the epoch hook and *)
(* the cancellations must all keep this.                                   *)
(***************************************************************************)
SerializedPerObject ==
  /\ \A op \in Ops : st[op] \in {2, 4, 6, 8, 10, 11} => QueueHead(OpOid[op]) = op
  /\ \A o \in Oids : IsInjective(write_queue[o])

(***************************************************************************)
(* No write is sent to the replicas with a version whose epoch has not    *)
(* been reported to etcd (lines 224-250): after a restart peering must    *)
(* not find versions from an epoch it does not know.                       *)
(***************************************************************************)
EpochReportedBeforeWrite ==
  \A op \in Ops : st[op] \in {4, 6, 8, 11} => EpochOf(target_ver[op]) <= reported_epoch

(***************************************************************************)
(* Every successful write of an object is acknowledged with a version     *)
(* greater than the one acknowledged before it, and was computed from a   *)
(* version no older than that one: no lost update, even with CAS, read    *)
(* errors, partial writes and epoch changes.                               *)
(***************************************************************************)
AckedVersionsIncrease ==
  [][\A op \in Ops :
       (retval[op] # "OK" /\ retval'[op] = "OK") =>
          /\ last_ack'[OpOid[op]] > last_ack[OpOid[op]]
          /\ orig_ver[op] >= last_ack[OpOid[op]]]_vars

(***************************************************************************)
(* The version a write read (fact_ver, compared with the CAS version at   *)
(* line 168 and the base of the new version at lines 210-223) is still    *)
(* the object's version on the replicas while the write waits for its     *)
(* epoch (st 10) and while its subops are in flight (st 4): no other      *)
(* write, retry or partial failure of the object slips in between the     *)
(* check and the write, so a CAS write replaces exactly version v-1.       *)
(***************************************************************************)
ReadCheckWriteAtomic ==
  \A op \in Ops : st[op] \in {4, 10} => obj_ver[OpOid[op]] = fact_ver[op]

(***************************************************************************)
(* The EC version override of an object exists only while a write of the *)
(* object is between lines 198 and 299 (comment at lines 196-197 and     *)
(* 298): reads must not be pinned to a version no write is producing.      *)
(***************************************************************************)
VerOverrideOnlyDuringWrite ==
  \A o \in Oids : ver_override[o] # NoVer =>
     \E op \in OpsOf(o) : st[op] \in {4, 10, 11}

(***************************************************************************)
(* Line 217 increments the PG epoch only when the counter part of the     *)
(* version is exhausted (all ones), as comparing with a mask intends.      *)
(***************************************************************************)
EpochBumpOnlyOnFullCounter ==
  [][epoch' > epoch =>
       \E op \in Ops : st[op] = 2 /\ st'[op] # 2
                       /\ fact_ver'[op] % CounterSpace = CounterSpace - 1]_vars

(***************************************************************************)
(* Every write that reached the OSD eventually gets a reply.               *)
(***************************************************************************)
EveryWriteAnswered == \A op \in Ops : st[op] # Idle ~> st[op] = StDone
====
