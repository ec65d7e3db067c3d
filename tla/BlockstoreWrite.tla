--------------------------- MODULE BlockstoreWrite ---------------------------
(***************************************************************************)
(* The write/delete path of the single-node block storage engine          *)
(* (src/src/blockstore/blockstore_write.cpp) together with the parts of    *)
(* the engine it drives and that are not in src/: the ring-loop dispatch   *)
(* of the submit queue, journal completions, SYNC, stabilize and the      *)
(* flusher (modelled from spec.md sections 4.4, 4.5 and 5).                *)
(*                                                                         *)
(* Data is abstracted away: an object is a model value, a write is either *)
(* a full block ("FULL", becomes a BIG_WRITE) or a part of one ("PART",    *)
(* becomes a SMALL_WRITE), and a data block is a number.  All of the       *)
(* control of the write path is kept: version assignment, WAIT_DEL and     *)
(* WAIT_BIG parking, the extra SYNCs, version restore, cancellation, the  *)
(* allocator, op_state resumption, the counters and the immediate_commit  *)
(* modes.                                                                  *)
(***************************************************************************)
EXTENDS Integers, FiniteSets, SequencesExt, TLC

CONSTANTS
    Oids,             \* object ids
    NBlocks,          \* number of data blocks the allocator manages
    MaxOps,           \* bound: client operations enqueued in a behaviour
    ReqVersions,      \* versions a caller may request (0 = assign one)
    ImmediateCommit,  \* "NONE", "SMALL" or "ALL"
    MaxWriteIodepth,  \* max_write_iodepth
    AutosyncWrites,   \* autosync_writes (0 = off)
    Autosync,         \* autosync_interval > 0: a timer issues SYNCs
    ThrottleSmallWrites, \* throttle_small_writes
    InitClean,        \* [Oids -> block or NoLoc]: objects already flushed
    ClientOpcodes,    \* opcodes the client issues
    ClientLens        \* write sizes the client issues: "FULL" and/or "PART"

Blocks == 0..(NBlocks - 1)
NoLoc == NBlocks            \* find_free() result UINT64_MAX: no free block
CANCEL == -1                \* real_version = UINT64_MAX marks a cancelled op

ASSUME ImmediateCommit \in {"NONE", "SMALL", "ALL"}
ASSUME 0 \in ReqVersions /\ ReqVersions \subseteq Nat
ASSUME InitClean \in [Oids -> Blocks \cup {NoLoc}]
ASSUME ClientOpcodes \subseteq {"WRITE", "WRITE_STABLE", "DELETE"}
ASSUME ClientLens \subseteq {"FULL", "PART"}

(* Workflow part of a dirty entry's state, in the order of BS_ST_*.      *)
WAIT_DEL == 1
WAIT_BIG == 2
IN_FLIGHT == 3
SUBMITTED == 4
WRITTEN == 5
SYNCED == 6
STABLE == 7

VARIABLES
    dirty_db,        \* <<oid, version>> -> dirty entry
    clean_db,        \* oid -> [version, loc]; version 0 = no clean entry
    data_alloc,      \* set of used data blocks (allocator bitmap)
    submit_queue,    \* operations in the engine, in queue order
    write_iodepth,
    unstable_unsynced,
    unsynced_big_write_count,
    unsynced_queued_ops,
    unstable_writes,      \* oid -> max unstable version, 0 = none
    unsynced_big_writes,  \* keys acked but not yet synced (big)
    unsynced_small_writes,\* keys acked but not yet synced (small, delete)
    journal_fifo,    \* seq numbers of ops with journal writes in flight,
                     \* in submission order (completions are delivered so)
    nops,            \* client operations enqueued so far
    last_ack,        \* history: seq of the last write acked per object
    aborted          \* "" or why the process died (assert / exit)

vars == <<dirty_db, clean_db, data_alloc, submit_queue, write_iodepth,
          unstable_unsynced, unsynced_big_write_count, unsynced_queued_ops,
          unstable_writes, unsynced_big_writes, unsynced_small_writes,
          journal_fifo, nops, last_ack, aborted>>

Opcodes == ClientOpcodes
Lens == ClientLens

-----------------------------------------------------------------------------
(* State predicates of blockstore_impl.h, used by the code below.         *)

IS_SYNCED(wf) == wf >= SYNCED
\* Deletions and 'instant' operations are treated as immediately stable
\* (comment at blockstore_write.cpp:625)
IS_INSTANT_FLAG(e) == e.instant               \* mutant: forgets deletions
IS_INSTANT(e) == e.type = "DELETE" \/ e.instant

\* Whether a write of this size is committed by its own journal write.
ImmAlwaysSmall(big) == big => ImmediateCommit = "ALL"          \* mutant
ImmBigAsSmall(big) == ImmediateCommit # "NONE"                  \* mutant
Imm(big) == IF big THEN ImmediateCommit = "ALL" ELSE ImmediateCommit # "NONE"

ObjKeys(o) == {k \in DOMAIN dirty_db : k[1] = o}
LatestKey(o) == CHOOSE k \in ObjKeys(o) : \A j \in ObjKeys(o) : j[2] <= k[2]

IsWrite(op) == op.opcode \in {"WRITE", "WRITE_STABLE"}
Key(op) == <<op.oid, op.version>>

SyncOp(o, v) == [opcode |-> "SYNC", oid |-> o, version |-> v, len |-> "NONE",
                 real_version |-> 0, st |-> 0, io |-> "NONE", seq |-> 0]

-----------------------------------------------------------------------------
(* enqueue_write: what the latest version of the object says about the    *)
(* new operation (found, next version, deleted, unsynced, wait_del,       *)
(* wait_big).                                                             *)
NextVersionSame(o) == LatestKey(o)[2]                          \* mutant
NextVersion(o) == LatestKey(o)[2] + 1

\* A new write must wait for a big write: the latest version is an unsynced
\* big write, or a small write itself waiting for one.
WaitBigSameType(e) == e.wf = WAIT_BIG                            \* mutant
WaitBig(e) == IF e.type = "BIG" THEN ~IS_SYNCED(e.wf) ELSE e.wf = WAIT_BIG

PrevState(o) ==
    IF ObjKeys(o) # {}
    THEN LET e == dirty_db[LatestKey(o)] IN
         [version  |-> NextVersion(o),
          deleted  |-> e.type = "DELETE",
          unsynced |-> ~IS_SYNCED(e.wf),
          wait_del |-> e.wf = WAIT_DEL,
          wait_big |-> WaitBig(e)]
    ELSE [version  |-> clean_db[o].version + 1,
          deleted  |-> clean_db[o].version = 0,
          unsynced |-> FALSE, wait_del |-> FALSE, wait_big |-> FALSE]

(* enqueue_write + enqueue_op: check or assign the version, decide the    *)
(* entry type and parking state, issue the extra SYNCs (queued before the *)
(* operation itself) and insert the dirty entry.                          *)
EnqueueWrite(opcode, o, len, reqv) ==
    LET p        == PrevState(o)
        isDel    == opcode = "DELETE"
        full     == len = "FULL" /\ ~isDel
        overDel  == reqv # 0 /\ reqv < p.version /\ (p.deleted \/ p.wait_del)
        rejected == (isDel /\ p.deleted)
                    \/ (reqv # 0 /\ reqv < p.version /\ ~overDel)
        ver      == IF reqv = 0 \/ overDel THEN p.version ELSE reqv
        imm      == Imm(full)
        extra    == (p.wait_big /\ ~isDel /\ ~p.deleted /\ ~full /\ ~imm)
                    \/ (~imm /\ AutosyncWrites > 0
                        /\ unsynced_queued_ops >= AutosyncWrites)
        type     == IF isDel THEN "DELETE"
                    ELSE IF full \/ p.deleted THEN "BIG" ELSE "SMALL"
        wf       == IF isDel THEN IN_FLIGHT
                    ELSE IF p.wait_del \/ overDel THEN WAIT_DEL
                    ELSE IF type = "SMALL" /\ p.wait_big THEN WAIT_BIG
                    ELSE IN_FLIGHT
        syncs    == (IF overDel /\ p.unsynced THEN <<SyncOp(o, ver)>> ELSE <<>>)
                    \o (IF extra THEN <<SyncOp(o, 0)>> ELSE <<>>)
        op       == [opcode |-> opcode, oid |-> o, version |-> ver,
                     len |-> IF isDel THEN "NONE" ELSE len,
                     real_version |-> IF overDel THEN reqv ELSE 0,
                     st |-> 0, io |-> "NONE", seq |-> nops + 1]
        entry    == [type |-> type, wf |-> wf,
                     instant |-> opcode = "WRITE_STABLE",
                     loc |-> NoLoc, seq |-> nops + 1]
    IN  /\ nops' = nops + 1
        /\ IF rejected
           THEN \* "Already deleted" (retval 0) or -EEXIST: completed at once
                UNCHANGED <<dirty_db, submit_queue, unsynced_queued_ops>>
           ELSE /\ dirty_db' = dirty_db @@ (Key(op) :> entry)   \* emplace
                /\ submit_queue' = submit_queue \o syncs \o <<op>>
                /\ unsynced_queued_ops' =
                       IF ~extra /\ ~imm THEN unsynced_queued_ops + 1
                                         ELSE unsynced_queued_ops

Enqueue ==
    /\ aborted = ""
    /\ nops < MaxOps
    /\ \E opcode \in Opcodes, o \in Oids, len \in Lens, reqv \in ReqVersions :
          EnqueueWrite(opcode, o, len, reqv)
    /\ UNCHANGED <<clean_db, data_alloc, write_iodepth, unstable_unsynced,
                   unsynced_big_write_count, unstable_writes,
                   unsynced_big_writes, unsynced_small_writes, journal_fifo,
                   last_ack, aborted>>

-----------------------------------------------------------------------------
(* cancel_all_writes: erase the op's dirty entry and every later version  *)
(* of the object, mark later queued writes of the object as cancelled and *)
(* finish the op with the error.  d is dirty_db as the caller left it.    *)
CancelAllWrites(i, d, k) ==
    LET o == k[1]
        q == [j \in 1..Len(submit_queue) |->
                IF j > i /\ submit_queue[j].oid = o /\ IsWrite(submit_queue[j])
                THEN [submit_queue[j] EXCEPT !.real_version = CANCEL]
                ELSE submit_queue[j]]
    IN  /\ dirty_db' = Restrict(d, {j \in DOMAIN d : ~(j[1] = o /\ j[2] >= k[2])})
        /\ submit_queue' = RemoveAt(q, i)

(* The ring loop (spec.md section 5, not in src/): queued writes and      *)
(* deletes are dispatched in queue order; once one cannot be submitted,   *)
(* the writes behind it wait for a later loop iteration.                  *)
Dispatchable(i) ==
    \A j \in 1..(i - 1) :
        submit_queue[j].opcode = "SYNC" \/ submit_queue[j].st > 0

(* dequeue_write / dequeue_del: the dirty entry is looked up and asserted *)
(* to exist before anything else.                                         *)
AssertDirtyFound(i) ==
    LET op == submit_queue[i] IN
    /\ aborted = ""
    /\ op.opcode # "SYNC" /\ op.st = 0 /\ Dispatchable(i)
    /\ Key(op) \notin DOMAIN dirty_db
    /\ aborted' = "dirty_missing"
    /\ UNCHANGED <<dirty_db, clean_db, data_alloc, submit_queue, write_iodepth,
                   unstable_unsynced, unsynced_big_write_count,
                   unsynced_queued_ops, unstable_writes, unsynced_big_writes,
                   unsynced_small_writes, journal_fifo, nops, last_ack>>

(* dequeue_write: version restore.  The original low version is invalid  *)
(* if the previous dirty entry of the object has a version >= it.         *)
RestoreConflictStrict(op) ==                                    \* mutant
    \E k \in ObjKeys(op.oid) : k[2] < op.version /\ k[2] > op.real_version
RestoreConflict(op) ==
    \E k \in ObjKeys(op.oid) : k[2] < op.version /\ k[2] >= op.real_version

\* dirty_db after the entry is re-inserted (emplace) under real_version
RestoredDirty(op) ==
    IF op.real_version > 0
    THEN LET k == Key(op) IN
         Restrict(dirty_db, DOMAIN dirty_db \ {k})
             @@ (<<op.oid, op.real_version>> :> dirty_db[k])
    ELSE dirty_db

RestoredOp(op) ==
    IF op.real_version > 0
    THEN [op EXCEPT !.version = op.real_version, !.real_version = 0]
    ELSE op

\* Common guard of dequeue_write for an op that gets past version restore
WriteReady(i) ==
    LET op == submit_queue[i] IN
    /\ aborted = ""
    /\ IsWrite(op) /\ op.st = 0 /\ Dispatchable(i)
    /\ Key(op) \in DOMAIN dirty_db
    /\ dirty_db[Key(op)].wf >= IN_FLIGHT
    /\ op.real_version # CANCEL
    /\ op.real_version > 0 => ~RestoreConflict(op)

(* dequeue_write: the restored version collides with an existing one:     *)
(* this and all later writes of the object fail with -EEXIST.             *)
DequeueConflict(i) ==
    LET op == submit_queue[i] IN
    /\ aborted = ""
    /\ IsWrite(op) /\ op.st = 0 /\ Dispatchable(i)
    /\ Key(op) \in DOMAIN dirty_db
    /\ dirty_db[Key(op)].wf >= IN_FLIGHT
    /\ op.real_version > 0
    /\ RestoreConflict(op)
    /\ CancelAllWrites(i, dirty_db, Key(op))
    /\ UNCHANGED <<clean_db, data_alloc, write_iodepth, unstable_unsynced,
                   unsynced_big_write_count, unsynced_queued_ops,
                   unstable_writes, unsynced_big_writes, unsynced_small_writes,
                   journal_fifo, nops, last_ack, aborted>>

(* dequeue_write: the version was restored but write_iodepth is at its    *)
(* limit, so the op stays queued under its restored version.              *)
DequeueRestoreOnly(i) ==
    LET op == submit_queue[i] IN
    /\ WriteReady(i)
    /\ op.real_version > 0
    /\ write_iodepth >= MaxWriteIodepth
    /\ dirty_db' = RestoredDirty(op)
    /\ submit_queue' = [submit_queue EXCEPT ![i] = RestoredOp(op)]
    /\ UNCHANGED <<clean_db, data_alloc, write_iodepth, unstable_unsynced,
                   unsynced_big_write_count, unsynced_queued_ops,
                   unstable_writes, unsynced_big_writes, unsynced_small_writes,
                   journal_fifo, nops, last_ack, aborted>>

-----------------------------------------------------------------------------
(* mark_stable (blockstore_stable.cpp, not in src/): an entry and every   *)
(* earlier SYNCED version of its object become STABLE, unless an earlier  *)
(* version is not synced yet; unstable_writes forgets the object if its   *)
(* recorded version is covered.                                           *)
Stabilizable(d, k) ==
    \A j \in DOMAIN d : (j[1] = k[1] /\ j[2] <= k[2]) => IS_SYNCED(d[j].wf)

MarkStable(d, k) ==
    IF Stabilizable(d, k)
    THEN [j \in DOMAIN d |->
            IF j[1] = k[1] /\ j[2] <= k[2] /\ d[j].wf = SYNCED
            THEN [d[j] EXCEPT !.wf = STABLE] ELSE d[j]]
    ELSE d

ForgetUnstable(uw, d, k) ==
    IF Stabilizable(d, k) /\ uw[k[1]] <= k[2]
    THEN [uw EXCEPT ![k[1]] = 0] ELSE uw

(* resume_6: acknowledge the write and release its iodepth slot.          *)
(* q is the queue and wio the write_iodepth as the step left them.        *)
AckWrite(i, q, wio) ==
    /\ submit_queue' = RemoveAt(q, i)
    /\ write_iodepth' = wio - 1
    /\ last_ack' = [last_ack EXCEPT ![q[i].oid] = q[i].seq]

(* continue_write from resume_4: switch the entry to SYNCED (immediate    *)
(* commit) or WRITTEN, account it, unblock small writes waiting for this  *)
(* big write, then either pause the reply (throttling) or acknowledge.    *)
ContinueFromFour(i, q, d, wio) ==
    LET op   == q[i]
        k    == Key(op)
        e    == d[k]
        big  == e.type = "BIG"
        imm  == Imm(big)
        inst == IS_INSTANT(e)
        d1   == [d EXCEPT ![k].wf = IF imm THEN SYNCED ELSE WRITTEN]
        d2   == IF imm /\ inst THEN MarkStable(d1, k) ELSE d1
        uw1  == IF imm THEN [unstable_writes EXCEPT ![op.oid] = Max({@, op.version})]
                       ELSE unstable_writes
    IN  /\ dirty_db' =
               IF imm /\ big
               THEN [j \in DOMAIN d2 |->
                       IF j[1] = op.oid /\ j[2] > k[2] /\ d2[j].wf = WAIT_BIG
                       THEN [d2[j] EXCEPT !.wf = IN_FLIGHT] ELSE d2[j]]
               ELSE d2
        /\ unstable_writes' = IF imm /\ inst THEN ForgetUnstable(uw1, d1, k) ELSE uw1
        /\ unstable_unsynced' = IF imm /\ ~inst THEN unstable_unsynced - 1
                                                ELSE unstable_unsynced
        /\ unsynced_big_writes' = IF ~imm /\ big THEN unsynced_big_writes \cup {k}
                                                 ELSE unsynced_big_writes
        /\ unsynced_small_writes' = IF ~imm /\ ~big THEN unsynced_small_writes \cup {k}
                                                    ELSE unsynced_small_writes
        /\ \/ /\ ~big /\ ThrottleSmallWrites
              \* the reply is paused until the throttle timer fires
              /\ submit_queue' = [q EXCEPT ![i].st = 5]
              /\ write_iodepth' = wio
              /\ UNCHANGED last_ack
           \/ AckWrite(i, q, wio)

-----------------------------------------------------------------------------
(* dequeue_write, BIG_WRITE: allocate a data block and submit the data    *)
(* write (after the version restore, which stays done on every exit).     *)
BigToFlush == Cardinality({k \in DOMAIN dirty_db :
                             dirty_db[k].type = "BIG" /\ dirty_db[k].wf = STABLE})

CleanLocs == {clean_db[o].loc : o \in Oids} \ {NoLoc}

\* data_alloc->find_free(): the free blocks; the lowest one is taken.
FreeBlocksOfClean == Blocks \ CleanLocs                          \* mutant
FreeBlocks == Blocks \ data_alloc

DequeueBig(i) ==
    LET op0  == submit_queue[i]
        op   == RestoredOp(op0)
        d    == RestoredDirty(op0)
        k    == Key(op)
        free == FreeBlocks
        loc  == Min(free)
    IN
    /\ WriteReady(i)
    /\ write_iodepth < MaxWriteIodepth
    /\ d[k].type = "BIG"
    /\ \/ /\ free = {} /\ BigToFlush > 0
          \* request_trim, wait_for = WAIT_FREE
          /\ dirty_db' = d
          /\ submit_queue' = [submit_queue EXCEPT ![i] = op]
          /\ UNCHANGED <<data_alloc, write_iodepth, unstable_unsynced,
                         unsynced_big_write_count, aborted>>
       \/ /\ free = {} /\ BigToFlush = 0
          \* -ENOSPC
          /\ CancelAllWrites(i, d, k)
          /\ UNCHANGED <<data_alloc, write_iodepth, unstable_unsynced,
                         unsynced_big_write_count, aborted>>
       \/ /\ free # {}
          \* the metadata entry of a free block must be zero, else exit(1)
          /\ aborted' = IF loc \in CleanLocs THEN "meta_nonzero" ELSE ""
          /\ write_iodepth' = write_iodepth + 1
          /\ dirty_db' = [d EXCEPT ![k].wf = SUBMITTED, ![k].loc = loc]
          /\ data_alloc' = data_alloc \cup {loc}
          /\ unstable_unsynced' = IF d[k].instant THEN unstable_unsynced
                                                  ELSE unstable_unsynced + 1
          /\ IF ImmediateCommit # "ALL"
             THEN /\ unsynced_big_write_count' = unsynced_big_write_count + 1
                  /\ submit_queue' = [submit_queue EXCEPT
                                        ![i] = [op EXCEPT !.st = 3, !.io = "DATA"]]
             ELSE /\ UNCHANGED unsynced_big_write_count
                  /\ submit_queue' = [submit_queue EXCEPT
                                        ![i] = [op EXCEPT !.st = 1, !.io = "DATA"]]
    /\ UNCHANGED <<clean_db, unsynced_queued_ops, unstable_writes,
                   unsynced_big_writes, unsynced_small_writes, journal_fifo,
                   nops, last_ack>>

(* dequeue_write, SMALL_WRITE: write the journal entry and the data into  *)
(* the journal; the op waits for its journal writes (op_state 3).         *)
DequeueSmall(i) ==
    LET op0 == submit_queue[i]
        op  == RestoredOp(op0)
        d   == RestoredDirty(op0)
        k   == Key(op)
    IN
    /\ WriteReady(i)
    /\ write_iodepth < MaxWriteIodepth
    /\ d[k].type # "BIG"
    /\ write_iodepth' = write_iodepth + 1
    /\ dirty_db' = [d EXCEPT ![k].wf = SUBMITTED]
    /\ unstable_unsynced' = IF d[k].instant THEN unstable_unsynced
                                            ELSE unstable_unsynced + 1
    /\ submit_queue' = [submit_queue EXCEPT ![i] = [op EXCEPT !.st = 3, !.io = "JOURNAL"]]
    /\ journal_fifo' = Append(journal_fifo, op.seq)
    /\ UNCHANGED <<clean_db, data_alloc, unsynced_big_write_count,
                   unsynced_queued_ops, unstable_writes, unsynced_big_writes,
                   unsynced_small_writes, nops, last_ack, aborted>>

(* dequeue_write: an op cancelled by cancel_all_writes is finished.       *)
DequeueCancelled(i) ==
    LET op == submit_queue[i] IN
    /\ aborted = ""
    /\ IsWrite(op) /\ op.st = 0 /\ Dispatchable(i)
    /\ Key(op) \in DOMAIN dirty_db
    /\ dirty_db[Key(op)].wf >= IN_FLIGHT
    /\ op.real_version = CANCEL
    /\ submit_queue' = RemoveAt(submit_queue, i)
    /\ UNCHANGED <<dirty_db, clean_db, data_alloc, write_iodepth,
                   unstable_unsynced, unsynced_big_write_count,
                   unsynced_queued_ops, unstable_writes, unsynced_big_writes,
                   unsynced_small_writes, journal_fifo, nops, last_ack, aborted>>

(* dequeue_del: write the delete journal entry.  The current journal      *)
(* sector is written now only in immediate_commit modes or when it is     *)
(* full; otherwise nothing is pending and the op continues at resume_4.   *)
DequeueDel(i) ==
    LET op == submit_queue[i]
        k  == Key(op)
    IN
    /\ aborted = ""
    /\ op.opcode = "DELETE" /\ op.st = 0 /\ Dispatchable(i)
    /\ k \in DOMAIN dirty_db
    /\ write_iodepth < MaxWriteIodepth
    /\ \E sectorFull \in BOOLEAN :
          \* state = BS_ST_DELETE | BS_ST_SUBMITTED
          LET d == [dirty_db EXCEPT ![k].type = "DELETE", ![k].wf = SUBMITTED,
                                    ![k].instant = FALSE] IN
          IF ImmediateCommit # "NONE" \/ sectorFull
          THEN /\ dirty_db' = d
               /\ write_iodepth' = write_iodepth + 1
               /\ submit_queue' = [submit_queue EXCEPT ![i].st = 3, ![i].io = "JOURNAL"]
               /\ journal_fifo' = Append(journal_fifo, op.seq)
               /\ UNCHANGED <<unstable_writes, unstable_unsynced,
                              unsynced_big_writes, unsynced_small_writes, last_ack>>
          ELSE /\ ContinueFromFour(i, [submit_queue EXCEPT ![i].st = 4], d,
                                   write_iodepth + 1)
               /\ UNCHANGED journal_fifo
    /\ UNCHANGED <<clean_db, data_alloc, unsynced_big_write_count,
                   unsynced_queued_ops, nops, aborted>>

(* continue_write, resume_2 (immediate_commit = all): after the data      *)
(* write, write the big_write journal entry.                              *)
ResumeTwo(i) ==
    LET op == submit_queue[i] IN
    /\ aborted = ""
    /\ op.opcode # "SYNC" /\ op.st = 2
    /\ submit_queue' = [submit_queue EXCEPT ![i].st = 3, ![i].io = "JOURNAL"]
    /\ journal_fifo' = Append(journal_fifo, op.seq)
    /\ UNCHANGED <<dirty_db, clean_db, data_alloc, write_iodepth,
                   unstable_unsynced, unsynced_big_write_count,
                   unsynced_queued_ops, unstable_writes, unsynced_big_writes,
                   unsynced_small_writes, nops, last_ack, aborted>>

(* continue_write, resume_4.                                              *)
ResumeFour(i) ==
    /\ aborted = ""
    /\ submit_queue[i].opcode # "SYNC" /\ submit_queue[i].st = 4
    /\ ContinueFromFour(i, submit_queue, dirty_db, write_iodepth)
    /\ UNCHANGED <<clean_db, data_alloc, unsynced_big_write_count,
                   unsynced_queued_ops, journal_fifo, nops, aborted>>

(* The throttle timer fires: op_state 5 -> 6.                             *)
ThrottleTimer(i) ==
    /\ aborted = ""
    /\ submit_queue[i].opcode # "SYNC" /\ submit_queue[i].st = 5
    /\ submit_queue' = [submit_queue EXCEPT ![i].st = 6]
    /\ UNCHANGED <<dirty_db, clean_db, data_alloc, write_iodepth,
                   unstable_unsynced, unsynced_big_write_count,
                   unsynced_queued_ops, unstable_writes, unsynced_big_writes,
                   unsynced_small_writes, journal_fifo, nops, last_ack, aborted>>

(* continue_write, resume_6.                                              *)
ResumeSix(i) ==
    /\ aborted = ""
    /\ submit_queue[i].opcode # "SYNC" /\ submit_queue[i].st = 6
    /\ AckWrite(i, submit_queue, write_iodepth)
    /\ UNCHANGED <<dirty_db, clean_db, data_alloc, unstable_unsynced,
                   unsynced_big_write_count, unsynced_queued_ops,
                   unstable_writes, unsynced_big_writes, unsynced_small_writes,
                   journal_fifo, nops, aborted>>

(* handle_write_event: the data write of a big write completes (in any    *)
(* order relative to other data writes): op_state++.                      *)
DataWriteDone(i) ==
    /\ aborted = ""
    /\ submit_queue[i].opcode # "SYNC" /\ submit_queue[i].io = "DATA"
    /\ submit_queue' = [submit_queue EXCEPT ![i].st = @ + 1, ![i].io = "NONE"]
    /\ UNCHANGED <<dirty_db, clean_db, data_alloc, write_iodepth,
                   unstable_unsynced, unsynced_big_write_count,
                   unsynced_queued_ops, unstable_writes, unsynced_big_writes,
                   unsynced_small_writes, journal_fifo, nops, last_ack, aborted>>

-----------------------------------------------------------------------------
(* The rest of the engine, not in src/ (modelled from spec.md).           *)

(* handle_journal_write: journal writes complete in submission order      *)
(* (flushing_ops is keyed by submit_id); the waiting op moves on to       *)
(* resume_4.                                                              *)
JournalWriteDone ==
    /\ aborted = ""
    /\ journal_fifo # <<>>
    /\ \E i \in 1..Len(submit_queue) :
          /\ submit_queue[i].seq = Head(journal_fifo)
          /\ submit_queue[i].io = "JOURNAL"
          /\ submit_queue' = [submit_queue EXCEPT ![i].st = 4, ![i].io = "NONE"]
    /\ journal_fifo' = Tail(journal_fifo)
    /\ UNCHANGED <<dirty_db, clean_db, data_alloc, write_iodepth,
                   unstable_unsynced, unsynced_big_write_count,
                   unsynced_queued_ops, unstable_writes, unsynced_big_writes,
                   unsynced_small_writes, nops, last_ack, aborted>>

(* A SYNC may run once no SYNC is ahead of it and every write ahead of it *)
(* is written or parked in WAIT_BIG / WAIT_DEL (spec.md section 5).       *)
SyncReady(i) ==
    \A j \in 1..(i - 1) :
        LET op == submit_queue[j] IN
        /\ op.opcode # "SYNC"
        /\ Key(op) \in DOMAIN dirty_db =>
               dirty_db[Key(op)].wf \in {WAIT_DEL, WAIT_BIG, WRITTEN, SYNCED, STABLE}

(* A small write parked in WAIT_BIG may go once no big write before it    *)
(* is unsynced (spec.md section 3, invariant 2).                          *)
BigsBelowSynced(d, k) ==
    \A j \in DOMAIN d : (j[1] = k[1] /\ j[2] < k[2] /\ d[j].type = "BIG")
                            => IS_SYNCED(d[j].wf)

(* SYNC (blockstore_sync.cpp): fsync data and journal, write the big      *)
(* write entries, then every write it took becomes SYNCED (instant ones   *)
(* STABLE) and small writes waiting for those big writes are unblocked.   *)
Sync(i) ==
    LET L  == unsynced_big_writes \cup unsynced_small_writes
        d1 == [j \in DOMAIN dirty_db |->
                 IF j \in L THEN [dirty_db[j] EXCEPT !.wf = SYNCED] ELSE dirty_db[j]]
        Inst == {k \in L : IS_INSTANT(d1[k]) /\ Stabilizable(d1, k)}
        d2 == [j \in DOMAIN d1 |->
                 IF d1[j].wf = SYNCED /\ \E k \in Inst : k[1] = j[1] /\ j[2] <= k[2]
                 THEN [d1[j] EXCEPT !.wf = STABLE] ELSE d1[j]]
        Top(o) == Max({unstable_writes[o]} \cup {k[2] : k \in {j \in L : j[1] = o}})
    IN
    /\ aborted = ""
    /\ submit_queue[i].opcode = "SYNC"
    /\ SyncReady(i)
    /\ dirty_db' = [j \in DOMAIN d2 |->
                      IF d2[j].wf = WAIT_BIG /\ BigsBelowSynced(d2, j)
                      THEN [d2[j] EXCEPT !.wf = IN_FLIGHT] ELSE d2[j]]
    /\ unstable_writes' = [o \in Oids |->
                             IF \E k \in Inst : k[1] = o /\ Top(o) <= k[2]
                             THEN 0 ELSE Top(o)]
    /\ unstable_unsynced' = unstable_unsynced
                            - Cardinality({k \in L : ~IS_INSTANT(d1[k])})
    /\ unsynced_big_write_count' = unsynced_big_write_count
                                   - Cardinality(unsynced_big_writes)
    /\ unsynced_big_writes' = {}
    /\ unsynced_small_writes' = {}
    /\ unsynced_queued_ops' = 0
    /\ submit_queue' = RemoveAt(submit_queue, i)
    /\ UNCHANGED <<clean_db, data_alloc, write_iodepth, journal_fifo, nops,
                   last_ack, aborted>>

(* The primary OSD stabilizes the synced versions it recorded in          *)
(* unstable_writes (BS_OP_STABLE).                                        *)
Stabilize(o) ==
    LET k == <<o, unstable_writes[o]>> IN
    /\ aborted = ""
    /\ unstable_writes[o] > 0
    /\ Stabilizable(dirty_db, k)
    /\ dirty_db' = MarkStable(dirty_db, k)
    /\ unstable_writes' = [unstable_writes EXCEPT ![o] = 0]
    /\ UNCHANGED <<clean_db, data_alloc, submit_queue, write_iodepth,
                   unstable_unsynced, unsynced_big_write_count,
                   unsynced_queued_ops, unsynced_big_writes,
                   unsynced_small_writes, journal_fifo, nops, last_ack, aborted>>

(* The flusher moves the oldest stable version of an object to the clean *)
(* area: a big write frees the previous block, a small write is copied   *)
(* into the clean block, a delete frees the block and the clean entry and *)
(* unblocks the writes parked behind it in WAIT_DEL.                      *)
Flush(o) ==
    LET k   == CHOOSE j \in ObjKeys(o) : \A m \in ObjKeys(o) : j[2] <= m[2]
        e   == dirty_db[k]
        d   == Restrict(dirty_db, DOMAIN dirty_db \ {k})
        old == clean_db[o].loc
    IN
    /\ aborted = ""
    /\ ObjKeys(o) # {}
    /\ e.wf = STABLE
    /\ clean_db' = [clean_db EXCEPT ![o] =
                      CASE e.type = "BIG"    -> [version |-> k[2], loc |-> e.loc]
                        [] e.type = "SMALL"  -> [version |-> k[2], loc |-> old]
                        [] e.type = "DELETE" -> [version |-> 0, loc |-> NoLoc]]
    /\ data_alloc' = IF e.type # "SMALL" THEN data_alloc \ {old} ELSE data_alloc
    /\ dirty_db' =
          IF e.type = "DELETE"
          THEN [j \in DOMAIN d |->
                  IF j[1] = o /\ d[j].wf = WAIT_DEL
                  THEN [d[j] EXCEPT !.wf = IF d[j].type = "SMALL" /\ ~BigsBelowSynced(d, j)
                                           THEN WAIT_BIG ELSE IN_FLIGHT]
                  ELSE d[j]]
          ELSE d
    /\ UNCHANGED <<submit_queue, write_iodepth, unstable_unsynced,
                   unsynced_big_write_count, unsynced_queued_ops,
                   unstable_writes, unsynced_big_writes, unsynced_small_writes,
                   journal_fifo, nops, last_ack, aborted>>

(* The autosync timer queues a SYNC when writes are waiting for one.      *)
AutosyncTimer ==
    /\ aborted = ""
    /\ Autosync
    /\ unsynced_big_writes \cup unsynced_small_writes # {}
    /\ \A j \in 1..Len(submit_queue) : submit_queue[j].opcode # "SYNC"
    /\ submit_queue' = Append(submit_queue, SyncOp(CHOOSE o \in Oids : TRUE, 0))
    /\ UNCHANGED <<dirty_db, clean_db, data_alloc, write_iodepth,
                   unstable_unsynced, unsynced_big_write_count,
                   unsynced_queued_ops, unstable_writes, unsynced_big_writes,
                   unsynced_small_writes, journal_fifo, nops, last_ack, aborted>>

(* The process has died, or all client operations are done.               *)
Done ==
    /\ \/ aborted # ""
       \/ nops = MaxOps /\ submit_queue = <<>>
    /\ UNCHANGED vars

-----------------------------------------------------------------------------
Init ==
    /\ dirty_db = <<>>
    /\ clean_db = [o \in Oids |->
                     IF InitClean[o] = NoLoc THEN [version |-> 0, loc |-> NoLoc]
                                             ELSE [version |-> 1, loc |-> InitClean[o]]]
    /\ data_alloc = {InitClean[o] : o \in Oids} \ {NoLoc}
    /\ submit_queue = <<>>
    /\ write_iodepth = 0
    /\ unstable_unsynced = 0
    /\ unsynced_big_write_count = 0
    /\ unsynced_queued_ops = 0
    /\ unstable_writes = [o \in Oids |-> 0]
    /\ unsynced_big_writes = {}
    /\ unsynced_small_writes = {}
    /\ journal_fifo = <<>>
    /\ nops = 0
    /\ last_ack = [o \in Oids |-> 0]
    /\ aborted = ""

Next ==
    \/ Enqueue
    \/ \E i \in 1..Len(submit_queue) : AssertDirtyFound(i)
    \/ \E i \in 1..Len(submit_queue) : DequeueConflict(i)
    \/ \E i \in 1..Len(submit_queue) : DequeueRestoreOnly(i)
    \/ \E i \in 1..Len(submit_queue) : DequeueCancelled(i)
    \/ \E i \in 1..Len(submit_queue) : DequeueBig(i)
    \/ \E i \in 1..Len(submit_queue) : DequeueSmall(i)
    \/ \E i \in 1..Len(submit_queue) : DequeueDel(i)
    \/ \E i \in 1..Len(submit_queue) : ResumeTwo(i)
    \/ \E i \in 1..Len(submit_queue) : ResumeFour(i)
    \/ \E i \in 1..Len(submit_queue) : ThrottleTimer(i)
    \/ \E i \in 1..Len(submit_queue) : ResumeSix(i)
    \/ \E i \in 1..Len(submit_queue) : DataWriteDone(i)
    \/ \E i \in 1..Len(submit_queue) : Sync(i)
    \/ JournalWriteDone
    \/ \E o \in Oids : Stabilize(o)
    \/ \E o \in Oids : Flush(o)
    \/ AutosyncTimer
    \/ Done

Spec == Init /\ [][Next]_vars

(* The ring loop runs every queued operation again on each wakeup, every  *)
(* I/O eventually completes, timers fire, and the flusher and the primary *)
(* OSD keep working: each internal step is weakly fair.  The client is    *)
(* not required to issue more operations.                                 *)
Fairness ==
    /\ WF_vars(\E i \in 1..Len(submit_queue) : AssertDirtyFound(i))
    /\ WF_vars(\E i \in 1..Len(submit_queue) : DequeueConflict(i))
    /\ WF_vars(\E i \in 1..Len(submit_queue) : DequeueRestoreOnly(i))
    /\ WF_vars(\E i \in 1..Len(submit_queue) : DequeueCancelled(i))
    /\ WF_vars(\E i \in 1..Len(submit_queue) : DequeueBig(i))
    /\ WF_vars(\E i \in 1..Len(submit_queue) : DequeueSmall(i))
    /\ WF_vars(\E i \in 1..Len(submit_queue) : DequeueDel(i))
    /\ WF_vars(\E i \in 1..Len(submit_queue) : ResumeTwo(i))
    /\ WF_vars(\E i \in 1..Len(submit_queue) : ResumeFour(i))
    /\ WF_vars(\E i \in 1..Len(submit_queue) : ThrottleTimer(i))
    /\ WF_vars(\E i \in 1..Len(submit_queue) : ResumeSix(i))
    /\ WF_vars(\E i \in 1..Len(submit_queue) : DataWriteDone(i))
    /\ WF_vars(\E i \in 1..Len(submit_queue) : Sync(i))
    /\ WF_vars(JournalWriteDone)
    /\ \A o \in Oids : WF_vars(Stabilize(o)) /\ WF_vars(Flush(o))
    /\ WF_vars(AutosyncTimer)

FairSpec == Spec /\ Fairness

-----------------------------------------------------------------------------
(* Properties.                                                            *)

Entry == [type : {"BIG", "SMALL", "DELETE"}, wf : WAIT_DEL..STABLE,
          instant : BOOLEAN, loc : Blocks \cup {NoLoc}, seq : 1..MaxOps]
QueuedOp == [opcode : {"WRITE", "WRITE_STABLE", "DELETE", "SYNC"}, oid : Oids, version : Nat,
             len : {"FULL", "PART", "NONE"}, real_version : Nat \cup {CANCEL},
             st : 0..6, io : {"NONE", "DATA", "JOURNAL"}, seq : 0..MaxOps]

TypeOK ==
    /\ DOMAIN dirty_db \subseteq Oids \X Nat
    /\ \A k \in DOMAIN dirty_db : dirty_db[k] \in Entry
    /\ clean_db \in [Oids -> [version : Nat, loc : Blocks \cup {NoLoc}]]
    /\ data_alloc \subseteq Blocks
    /\ submit_queue \in Seq(QueuedOp)
    /\ write_iodepth \in 0..MaxWriteIodepth
    /\ unstable_unsynced \in Nat
    /\ unsynced_big_write_count \in Nat
    /\ unsynced_queued_ops \in Nat
    /\ unstable_writes \in [Oids -> Nat]
    /\ unsynced_big_writes \subseteq DOMAIN dirty_db
    /\ unsynced_small_writes \subseteq DOMAIN dirty_db
    /\ journal_fifo \in Seq(1..MaxOps)
    /\ nops \in 0..MaxOps
    /\ last_ack \in [Oids -> 0..MaxOps]
    /\ aborted \in {"", "dirty_missing", "meta_nonzero"}

(* Allocator: the used blocks are exactly the blocks of clean objects and *)
(* of submitted big writes, and no block has two owners (dequeue_write    *)
(* data_alloc->set, flusher frees; spec.md section 8, property 7).        *)
DirtyLocs == {dirty_db[k].loc : k \in {j \in DOMAIN dirty_db :
                                          dirty_db[j].type = "BIG"}} \ {NoLoc}
AllocatorConsistent ==
    aborted = "" =>
    /\ data_alloc = CleanLocs \cup DirtyLocs
    /\ \A o1, o2 \in Oids : o1 # o2 /\ clean_db[o1].loc # NoLoc
                              => clean_db[o1].loc # clean_db[o2].loc
    /\ \A j, k \in DOMAIN dirty_db :
          j # k /\ dirty_db[j].type = "BIG" /\ dirty_db[k].type = "BIG"
          /\ dirty_db[j].loc # NoLoc => dirty_db[j].loc # dirty_db[k].loc
    /\ CleanLocs \cap DirtyLocs = {}

(* WAIT_BIG: a small write reaches the journal only after every big write *)
(* of the same object before it is synced, so that replaying the journal  *)
(* never applies a small write over a big write it does not contain       *)
(* (enqueue_write wait_big, resume_4 unblocking; spec.md section 3).      *)
SmallWaitsForBig ==
    \A k \in DOMAIN dirty_db :
        dirty_db[k].type = "SMALL" /\ dirty_db[k].wf >= SUBMITTED
            => BigsBelowSynced(dirty_db, k)

(* The engine's counters agree with the dirty entries and the queue:      *)
(* write_iodepth counts submitted, unacknowledged writes and deletes;     *)
(* unstable_unsynced counts submitted non-instant writes not yet synced;  *)
(* unsynced_big_write_count counts submitted big writes not yet synced    *)
(* (dequeue_write increments, resume_4 / resume_6 / SYNC decrement).      *)
Submitted(st) == st >= 1
CountersConsistent ==
    aborted = "" =>
    /\ write_iodepth = Cardinality({i \in 1..Len(submit_queue) :
                          submit_queue[i].opcode # "SYNC" /\ Submitted(submit_queue[i].st)})
    /\ unstable_unsynced = Cardinality({k \in DOMAIN dirty_db :
                              ~IS_INSTANT(dirty_db[k]) /\ dirty_db[k].wf \in {SUBMITTED, WRITTEN}})
    /\ unsynced_big_write_count =
           IF ImmediateCommit = "ALL" THEN 0
           ELSE Cardinality({k \in DOMAIN dirty_db :
                   dirty_db[k].type = "BIG" /\ dirty_db[k].wf \in {SUBMITTED, WRITTEN}})

(* Versions: every queued write that is not cancelled and not yet        *)
(* replied to owns its own dirty entry (no two operations ever share an   *)
(* (oid, version) key), dirty versions of an object are ordered as their  *)
(* operations were enqueued (enqueue_write version assignment,           *)
(* over-delete version restore in dequeue_write, cancel_all_writes).      *)
OwnsEntry(op) == Key(op) \in DOMAIN dirty_db /\ dirty_db[Key(op)].seq = op.seq
VersionOrder ==
    aborted = "" =>
    /\ \A i \in 1..Len(submit_queue) :
          LET op == submit_queue[i] IN
          IsWrite(op) /\ op.real_version # CANCEL /\ op.st < 5 => OwnsEntry(op)
    /\ \A j, k \in DOMAIN dirty_db :
          j[1] = k[1] /\ j[2] < k[2] => dirty_db[j].seq < dirty_db[k].seq

(* A version is written once: every dirty version of an object is above   *)
(* its flushed (clean) version, so a write restored to a low version      *)
(* after a delete never reuses a version already flushed (dequeue_write   *)
(* version restore; spec.md section 8, property 5).                       *)
VersionAboveClean ==
    aborted = "" => \A k \in DOMAIN dirty_db : k[2] > clean_db[k[1]].version

(* Completion callbacks of one object are delivered in enqueue order      *)
(* (spec.md section 5): a write is never acknowledged after a write of    *)
(* the same object that was enqueued later (resume_6 FINISH_OP).          *)
AckOrder == [][\A o \in Oids : last_ack'[o] >= last_ack[o]]_vars

(* The dirty entry of every queued write or delete exists when the op is  *)
(* dequeued: assert(dirty_it != dirty_db.end()) in dequeue_write and      *)
(* dequeue_del never fails, even after cancel_all_writes erased entries.  *)
NoErasedDequeue == aborted # "dirty_missing"

(* Every operation the engine accepts is eventually completed (acked,   *)
(* failed or cancelled) unless the process dies: no write stays parked in *)
(* WAIT_BIG / WAIT_DEL or queued behind one forever (enqueue_write extra  *)
(* SYNCs, dequeue_write, continue_write).                                 *)
InQueue(s) == \E i \in 1..Len(submit_queue) : submit_queue[i].seq = s
EveryOpCompletes ==
    \A s \in 1..MaxOps : InQueue(s) ~> (~InQueue(s) \/ aborted # "")

====
