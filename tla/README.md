# Model checking vitastor: blockstore writes, OSD primary writes, scrub, OSD number allocation, NFS client connections

This directory holds TLA+ models of the vitastor sources under `src/` and the
TLC configurations that check them. All the modules are plain TLA+. They use
only the standard modules and the community modules.

## The system and its parts

The blockstore (`src/src/blockstore/`) stores object versions on one disk. It
has three parts, and they meet in the ring loop:

* **The write path** (`blockstore_write.cpp`).
  * `enqueue_write` assigns a version and creates a *dirty* entry, keyed by
    (object, version).
  * `dequeue_write` handles three cases. It can re-key a write queued over a
    delete. It can send a *big* write to a freshly allocated data block. It
    can send a *small* write to the journal.
  * `continue_write` (resume_2 and resume_4) finishes the journal entries. It
    updates the unstable and unsynced bookkeeping, may throttle the reply,
    and acknowledges the write.
  * `cancel_all_writes` fails the later writes of an object on ENOSPC.
  * `dequeue_del` writes a delete to the journal.
* **Sync, stabilize and the flusher.** SYNC makes written entries synced,
  stabilize makes synced entries stable, and the flusher copies a stable
  entry to the *clean* metadata and frees blocks. This code is not under
  `src/`, so these parts are modelled from `spec.md` (sections 4 and 5).
* **The ring loop.** It dispatches queued operations in order. Writes wait
  behind any earlier write that has not started. A SYNC waits until every
  earlier write has been written.

The OSD (`src/src/osd/`) sits above the blockstore. As the *primary* of a
placement group (PG) it runs each client write (`osd_primary_write.cpp`):
it queues the write behind earlier writes of the same object, reads the
object's current version from the replicas, picks the new version (whose
high bits are the PG epoch), waits until a new epoch is recorded in etcd,
sends the write subops, and then stabilizes or remembers the write as
unstable for a later autosync. `vitastor-cli alloc-osd`
(`src/src/cmd/cli_alloc_osd.cpp`) allocates OSD numbers with an etcd
compare-and-swap transaction.

The OSD also scrubs its PGs (`osd_scrub.cpp`). `plan_scrub` gives an active
PG a `next_scrub` time and `schedule_scrub` arms one timer for the nearest
such time. When it fires, the OSD loop calls `continue_scrub`. That keeps
up to `scrub_queue_depth` scrub operations running, and `pick_next_scrub`
chooses their objects. It walks the PGs that are due, lists each PG's
objects in batches of `scrub_list_limit`, and skips objects that are being
written, recovered or scrubbed. At the end of a PG's list it sets
`next_scrub` to 0. Each scrub operation (`continue_primary_scrub`) reads
every replica, votes on the copies, and marks the outvoted copies, or the
whole object, as corrupted.

The NFS proxy (`src/src/nfs/nfs_proxy.cpp`) accepts NFS clients over TCP.
Each connection is an `nfs_client_t`. Its epoll handler starts a receive
(`submit_read`) on EPOLLIN, resumes sending on EPOLLOUT, and on EPOLLRDHUP
calls `stop()` and decrements `active_connections`. Receives and sends are
io_uring operations counted in `refs`; `stop()` deletes the client once
`refs` is zero. `handle_read` reassembles RPC records from 4-byte fragment
markers and calls `handle_rpc_message`. A handler may reply at once or
later, and may keep pointers into the receive buffer until its reply is
sent. Such buffers are reference counted, parked in `used_buffers` and
reused through `free_buffers`. `rpc_queue_reply` appends the reply to
`send_list`, or to `next_send_list` while a send is in flight.
`handle_send` releases fully sent replies and their buffers.

The client drivers are further components. The last section lists which
of them are modelled.

## Modules

### `BlockstoreWrite.tla`

This module models the write path together with the sync, stabilize and flush
environment it needs.

**State** (each variable is named after the code's own variable):

| variable | models |
|---|---|
| `dirty_db` | the dirty entries (key -> type, workflow state, location, instant flag) |
| `clean_db` | the clean version and location of each object |
| `data_alloc` | the allocator's set of used blocks |
| `submit_queue` | the queued operations, with `op_state` (`st`), `real_version` and the I/O in flight |
| `write_iodepth` | the same counter as in the code |
| `unstable_unsynced` | the same counter as in the code |
| `unsynced_big_write_count` | the same counter as in the code |
| `unsynced_queued_ops` | the same counter as in the code |
| `unstable_writes`, `unsynced_big_writes`, `unsynced_small_writes` | the code's structures of the same names |
| `journal_fifo` | journal writes in submission order |
| `nops` | bounds the number of client operations |
| `last_ack` | the last acknowledged sequence number per object |
| `aborted` | a failed assertion or `exit(1)` |

**Actions.** There is one action per handler step:

* `Enqueue` and `EnqueueWrite` model `enqueue_write`, including the extra
  SYNC and the over-delete version.
* `CancelAllWrites` models `cancel_all_writes`.
* The dequeue actions model `dequeue_write`, one per outcome:
  * `AssertDirtyFound` is the assert at line 256.
  * `DequeueCancelled` finishes an operation that was cancelled.
  * `DequeueConflict` and `DequeueRestoreOnly` are the version restore.
  * `DequeueBig` covers WAIT_FREE, ENOSPC and submit.
  * `DequeueSmall` is the journal path.
* `DequeueDel` models `dequeue_del`.
* `ResumeTwo`, `ResumeFour` and `ContinueFromFour` model `continue_write`.
  `ContinueFromFour` includes the throttle and the acknowledgement.
* `ThrottleTimer` is the throttle timer's callback.
* `ResumeSix` models resume_6.
* `DataWriteDone` models `handle_write_event`.
* `JournalWriteDone`, `Sync`, `Stabilize`, `Flush` and `AutosyncTimer` are
  the environment modelled from `spec.md`.

Data is abstracted:

* Lengths are `FULL`, `PART` or `NONE`.
* Locations are block numbers `0..NBlocks-1`. `NoLoc` stands for "no block".
* Journal space and SQE shortage are not modelled. They only delay steps.

`PROJECT.json` (`map`) gives the source lines of every definition.

`MCBlockstoreWrite.tla` instantiates the model. It starts one object clean,
at version 0 in block 0, and starts every other object absent.

### `AllocOsd.tla` and `AllocOsdAbstract.tla`

`AllocOsd` models `alloc_osd_t::loop` for a set of concurrent `Allocators`
(separate CLI processes), with etcd as one atomic step per transaction.

| variable | models |
|---|---|
| `state`, `new_id`, `result` | the fields of `alloc_osd_t` |
| `stats` | the numbers that have an `/osd/stats/<n>` key |
| `msg` | the allocator's transaction in flight, or the reply to it |
| `created`, `gen` | history: which allocator created which key, and in which generation (deletions so far) of that key |
| `churn` | counts the creations and deletions by other tools |

* `Start` is the first transaction, with `new_id = 1`.
* `EtcdTxn` is etcd running the transaction. `KeyAbsent` is its compare.
* `EtcdError` is `etcd_txn` reporting an error (`cli_common.cpp`). The
  request may have been lost before etcd ran it, or the reply after.
* `Resume` is the callback and the rest of the loop: EIO, success, or the
  next candidate from `NextId` and another transaction.
* `ExternalPut` and `ExternalRemove` are other tools: an OSD started with a
  fixed number, and `rm-osd`.

`NextId` and the RECURSIVE `BisectGap` are the first-gap binary search,
written over the sorted sequence of used numbers (`SetToSortSeq`).
`LowestFree` is the reference definition it is compared with.

`AllocOsdAbstract` is what the command promises: an invocation takes a free
number atomically and reports it, or fails, possibly after taking one.
`AllocOsd` maps onto it with `Abs == INSTANCE AllocOsdAbstract WITH ...`.
An allocator is `COMMITTED` once its transaction created a key. It creates
at most one, because after that the loop only reports.

### `OsdPrimaryWrite.tla`

This module models the primary's write of `Ops` (model values), each on an
object of `Oids` (`OpOid`), with its CAS version (`OpCas`, 0 = none) and
whether it covers whole blocks (`OpFull`). The pool is `REPLICATED` or `EC`,
and `ImmediateCommit` is `NONE`, `SMALL` or `ALL`.

| variable | models |
|---|---|
| `st`, `retval`, `fact_ver`, `target_ver` | `osd_primary_op_data_t` fields (`Idle` before the op starts, `StDone` once answered) |
| `write_queue`, `flush_actions`, `ver_override`, `pg_state`, `epoch`, `reported_epoch` | the `pg_t` fields (`write_queue` as one sequence per object, in multimap order) |
| `etcd_epoch` | the epoch stored in etcd, reported by the history hook |
| `obj_ver`, `obj_state` | the version the replicas hold, and whether the object is CLEAN, DEGRADED or INCOMPLETE |
| `unstable_write_count` | the OSD counter that triggers autosync |
| `read_errors` | bounds the EIO retries of the version read |
| `orig_ver`, `had_state`, `last_ack`, `aborted` | history for the properties, and a failed assertion |

There is one action per resume point of `continue_primary_write`:

* `Start` is `check_write_queue` plus resume_1.
* `ReadDone` is resume_2/3: read errors and retries, the CAS check, the
  assertion at line 219, and the new version and epoch (`NewVersion`,
  `BumpEpoch` with the mask as C parses it, `EpochBumpMask`).
* `SubmitWrite` is the wait at state 10.
* `WriteDone` is resume_4/5. `RollbackDone` is resume_11/12. `StabDone` is
  the stabilize step of `remember_unstable_write`. `DelDone` deletes extra
  copies at resume_8/9.
* `EpochHook` is `on_change_pg_history_hook`.
* `ContinueOthers` is the hand-over to the next write of the object.

`CancelWriteQueue` is `pg_cancel_write_queue`. That function is in
`osd_primary.cpp`, which is not under `src/`, so it is modelled from its
callers: cancelling the head of the queue fails the whole queue of the
object. Subop I/O is abstracted to its outcome: error, partial write
(EC rolls back), or success.

### `Scrub.tla`

The scheduler's state is the OSD's own fields:
* `scrub_last_pg`, `scrub_list_op`, `scrub_cur_list` and `scrub_list_pos`;
* `scrub_ops`, `scrub_nearest_ts` and `scrub_timer`;
* for each PG, `next_scrub` and `PG_SCRUBBING`.

`pick_next_scrub` and `continue_scrub` run without yielding, so each is one
step. They are written as recursive operators (`PickLoop`, `ScrubLoop`)
over a record `S` of that state, and `Store` writes the record back.

The actions are these:
* `PlanScrub` and `Schedule` are plan_scrub and schedule_scrub.
* `ScrubTimer` is the timer callback.
* `OsdLoop` is the OSD loop calling `continue_scrub` while `OSD_SCRUBBING`
  is set. The loop is in `osd.cpp`, which is not in the repository.
* `ListDone` and `ListFail` are the local OP_LIST callback.
* `ScrubOpDone` and `SleepDone` are the scrub operation's callback, with
  and without `scrub_sleep_ms`.
* The environment acts through `Tick`, `WriteBegin`/`WriteEnd` (an object
  busy in a write or recovery), `TogglePg` and `ToggleNoScrub`.
* `BoundsReached` is the terminal stutter once the clock and churn bounds
  are used up and nothing is in flight.

`Copies[o]` gives each replica's content as a model value:
`"MISSING"` means no OSD holds the copy, and `"NOENT"` means the read
returned not_exists. `ScrubOpDone` picks any set `E` of failed reads and an
error code. `ScrubResult` then follows the replicated branch of
`continue_primary_scrub`:
* the early exits for too few copies and for non-EIO errors;
* `eq_to` (`EqTo`), `votes` (`Votes`) and `best` (`Best`);
* the outvoted roles (`Outvoted`) and the tie, or `!scrub_find_best`,
  that makes the object inconsistent (`Inconsistent`).

`last_scrub` records the latest result for the properties. `visited` and
`submitted` are history variables: they hold the objects the cursor passed
and the objects scrubbed in the PG's current round.

### `NfsClient.tla` and `RpcConnection.tla`

`RpcConnection` is what one connection promises, whatever its buffering.
`handled` is the requests taken, and `wire` is the replies sent, both in
order. `Take` takes the next k records, whole and in order. `Answer`
appends replies to k distinct taken, unanswered requests. A server step
may take several records (one read) or send several replies (one
`sendmsg`). `NfsClient` keeps the same two variables as history, and
`Abstract == INSTANCE RpcConnection WITH N <- Len(Records)` is the
refinement.


One client connection. Data is counted in 4-byte cells: a fragment marker
is `Hdr(n, last)`, a body unit of record `m` is `Cell(m, i)`, and `Junk` is
uninitialised memory. `stream` holds what the client sent and the socket
has not delivered yet. `Encode` builds it from `Records`, a sequence of
fragment-size lists.

| variable | code |
|---|---|
| `mem[b]` | the content of heap buffer `b` (`<<>>` when not allocated) |
| `cur` | `cur_buffer` (`buf`, `read_pos`, `parsed_pos`, `refs`) |
| `used`, `free` | `used_buffers` (refs per buffer), `free_buffers` (a vector) |
| `reading`, `sending` | `read_msg.msg_iovlen` with the iov length; `write_msg.msg_iovlen` |
| `send_list`, `next_list` | `outbox`, `next_outbox`: one entry per reply |
| `pending` | replies whose asynchronous handler has not answered yet |
| `refs`, `stopped`, `deleted` | `refs`, `stopped`, and `delete this` in `stop()` |
| `active`, `hup` | this client's share of `active_connections`; EPOLLRDHUP seen |

The read and send paths change many fields at once, so they work on the
record `C` and write it back with `StoreC`, as one atomic step per
callback. The helpers are `SelectReadBuffer`, `SubmitRead`, `SubmitSend`,
`QueueReply`, `HandleMessage`, `Scan` (the fragment loop), `Gather` (the
merge) and the recursive `Parse` (the `while (left > 0)` loop). `Parse`
keeps the code's two positions apart: the parameter `d` is `data`, and
`cur.ppos` is `parsed_pos`.

The actions are `EpollIn`, `EpollOut` and `RdHup` (the epoll handler),
`ReadDone`, `ReadRetry` and `ReadEof` (the outcomes of `handle_read`),
`SendDone(k)`, `SendAgain` and `SendFail` (the outcomes of `handle_send`),
`AsyncReply` (a handler answering later) and `Close` (the client ends its
side). Each one starts with `deref()`. `HandleMessage` abstracts a
handler to one of four outcomes, chosen per record in `Init` from
`Modes`: reply now or later (`SYNC`, `ASYNC`), and with `_REF`, keep the
buffer. A record that fails to decode is dropped. The reject replies
(RPC version mismatch, unknown procedure, garbage arguments) behave like
`SYNC`.

## Runs

**Passing runs.** Together they fire every action:

* `none` (`immediate_commit=none`).
  * Checks `TypeOK`.
  * `AllocatorConsistent`: no block is both free and used, and clean or
    dirty big entries own their blocks. It also means the `exit(1)` at
    line 338 is unreachable.
  * `SmallWaitsForBig`: no small write is submitted while an earlier big
    write of the object is unsynced.
  * `CountersConsistent`: the four counters match the entries they count.
  * `VersionOrder`: queued writes own their entries, and the dirty version
    order matches the queue order.
* `enospc` (`immediate_commit=all`, full writes only, MaxOps 5, two
  blocks) runs into WAIT_FREE and ENOSPC cancellation, and the instant
  resume_2 path. It checks `AllocatorConsistent` and `VersionOrder`.

`none` also checks `EveryOpCompletes` under `FairSpec`: every accepted
operation eventually leaves the queue.

The safety invariants of `BlockstoreWrite` hold only while `aborted`
is empty, and `EveryOpCompletes` counts a process abort as the end. The
process is fail-stop, and after an abort nothing runs. So `none` may
pass through the line-256 assertion without reporting it. Only the
`erased` run reports that assertion.

**Violation runs.** Each one is a finding; `PROJECT.json` gives the details.

| run | property | code behaviour | contradicts |
|---|---|---|---|
| `erased` | `NoErasedDequeue` | A write cancelled after ENOSPC stays queued without its dirty entry, and `dequeue_write` asserts at line 256 before it checks the cancel flag. | |
| `restore` | `VersionAboveClean` | When the first of two version-1 writes over a delete is flushed before the second is dequeued, the second is restored to version 1 as well (line 278). | §8.5 of the spec |
| `smallstuck` | `EveryOpCompletes` | In `immediate_commit=small`, a small write after an unsynced big write is parked with no extra SYNC (line 133). With a write queued behind it, nothing ever completes. | |

`smallstuck` uses `CHECK_DEADLOCK FALSE`, because that stop is the finding.

`BlockstoreWrite` also states `AckOrder` (writes of an object are acked in
version order, line 699) and uses `SmallWaitsForBig` in
`immediate_commit=all` (line 649). TLC breaks both with two big writes of
one object in flight. The OSD's per-object write queue never sends the
blockstore two such writes, but `fio_sec_osd.cpp` (automatic versions,
iodepth up to 32) does, as the `erased` and `restore` findings also
assume. So both breaks are reachable. They have no run only because every
run slot is used; the hazards list in `PROJECT.json` records both.

**OSD number allocation** (`MCAllocOsd`: allocators `a1..a3`, initial keys
`{1,2}`, other tools may create 3 or 4 and delete any key):

* `alloc_race` (pass; three allocators, two external changes, deletions on)
  checks `AllocRefinement`: `AllocOsd` implements `AllocOsdAbstract`, so
  every key an allocator creates was free when etcd ran the transaction, and
  an allocator reports OK only for the key it created. It also checks
  `GapSearchCorrect`: for every set of used numbers in `1..5` containing 1,
  and for every key list a failed transaction really returned, the binary
  search names the least free number.
* `alloc_livelock` (violation) checks `EveryAllocationEnds` under
  `FairSpec`, with one `rm-osd`. With keys `{1,2}`, allocator `a1` fails on
  1 and tries 3. `rm-osd 1` runs, `a2` takes 3, and `a1`'s next reply lists
  `{2,3}`. The search assumes `used[0] == 1`, returns 3 again, and `a1`
  retries 3 forever (`cli_alloc_osd.cpp:86-95`).

**OSD primary write** (`MCOsdPrimaryWrite`: writes `w1..w3`; `w1`, `w2` on
`o1`, which starts DEGRADED; `w3` on `o2`, which has a pending flush
action; `w2` carries CAS version 7; `w1` is partial; all objects at version
5, epoch 1, `VerBits = 4`, `EpochBits = 2`):

* `osd_ec` (pass; EC, `immediate_commit=all`, `FairSpec`) fires every
  action. It checks:
  * `SerializedPerObject`: a write past resume_1 is the head of its
    object's queue, and no write is queued twice;
  * `EpochReportedBeforeWrite`: no subop is sent with an epoch not yet in
    etcd;
  * `ReadCheckWriteAtomic`: while a write waits for its epoch or its
    subops are in flight, the replicas still hold the version it read and
    CAS-checked, so no other write of the object slips between the check
    and the write (`w2` is a CAS on the initial version racing `w1`; the
    mutant that drops the queue check of `check_write_queue` lets both
    read version 5 and write);
  * `AckedVersionsIncrease`: each acknowledged write of an object has a
    higher version than the one before, and was based on a version at
    least as new;
  * `EveryWriteAnswered`: every started write gets an answer.
* `VerOverrideOnlyDuringWrite` states that `ver_override` is set only
  while the object's write is in progress. TLC breaks it: `w1` reads
  version 5 and sets `ver_override[o1]`. The PG stops, and the read
  completion cancels the queue with EPIPE (line 255), so the override
  outlives the write. What the leftover override does next depends on
  `pg_cancel_write_queue` and peering, which are not in `src/`. No run
  checks it, and the hazard list records it.
* `EpochBumpOnlyOnFullCounter` states that the epoch advances only when
  the version counter is full. The C mask `1 << (64-PG_EPOCH_BITS) - 1`
  parses as `1 << 47` (line 217), so the code bumps the epoch at bit 47.
  With the model's 2-bit counter, TLC finds the early bump at version 6.
  In the code it takes 2^47 writes of one object, so no run checks it;
  it is kept as a hazard.

**Scrub** (`MCScrub`: PG 1 holds objects 1..3 and PG 2 holds 4 and 5;
`scrub_list_limit` 2; queue depth 1; `scrub_interval` 1; two clock ticks;
one PG deactivation or `no_scrub` change):

* `scrub_sched` (pass; three replicas, `scrub_sleep_ms` on, object 2 may
  be written) fires every action. It checks:
  * `ScrubbedOncePerRound`: no object is submitted twice in one round of
    its PG. The next batch starts after the last listed object, and busy
    objects are passed over.
  * `VoteSound`: the vote never marks a copy that holds the most common
    content. It declares the object inconsistent exactly when the compared
    copies differ and there is a tie, or `scrub_find_best` is off. The
    copies cover agreement (AAA), one bad copy (AAB), a three-way split
    (ABC), a missing copy and a not_exists copy.
* `scrub_skip` (violation) checks `EveryObjectVisited`: a PG's round ends
  only after the cursor has passed all of its objects.
  * PG 1's list {1,2,3} ends with the short batch {3}, and `scrub_list_pos`
    is left at 1. The end-of-list branch frees the list without resetting
    the cursor (lines 205-209).
  * PG 2's first batch {4,5} is then read from position 1, so object 4 is
    passed over.
  * The next, empty batch ends PG 2's round without object 4 being
    scrubbed.
* `VoteMarksEveryBadCopy` states that with `scrub_find_best` and a strict
  plurality, every copy outside it is marked. TLC breaks it with five
  replicas (`MCCopies5`, `Roles` 1..5). With copies AAABB, `votes` counts B
  only at role 4, its group's first role, so role 5 is never marked
  (lines 517-528). No run checks it; the hazard list records it.

**NFS client connection** (`MCNfsClient`: three buffer addresses):

* `nfs_pass` (pass; `FairSpec`) fires every action. Its input is three
  one-fragment records of 2, 1 and 1 units with 3-unit receive buffers.
  Every handler outcome is tried for every record. MaxEagain is 1. It
  checks:
  * `RequestIntact`: while a reply that kept a pointer into a buffer is
    queued or pending, its request is still in that buffer. A full buffer
    with references goes to `used_buffers` (line 555), and the "no place"
    path moves only unreferenced data.
  * `RefsExact`: `cur_buffer.refs` and each `used_buffers` entry count
    exactly the live replies that point into the buffer, and no buffer in
    `free_buffers` has one.
  * `StreamInSync`: every record reaches `handle_rpc_message` whole and in
    order, and no body cell is read as a marker.
  * `EveryRequestAnswered`: a handled request is eventually sent in full,
    unless the connection stops.
  * `RpcRefinement`: the connection implements `RpcConnection`. Through
    partial sends, EAGAIN and replies parked on `next_send_list`, the
    replies completed on the wire answer requests already taken, each at
    most once. The records reach the handlers whole and in order.
  * `ClientFreed`: a connection that is stopped and closed by the client
    is eventually deleted. The receive and send in flight complete,
    `deref()` brings `refs` to zero, and `stop()` frees the client. This
    holds whichever of EPOLLRDHUP, the EOF read or a failed send stopped
    it.
* `nfs_frag` (violation) checks `StreamInSync` on a record of two
  fragments of 1 unit, then a one-fragment record, with 8-unit buffers.
  The first read brings the first record. It is merged and handled, and
  `parsed_pos` advances by `4+wanted-4*fragments` bytes (line 645): 12 of
  16. The next read appends the second record, and the parse restarts at
  byte 12. That is the moved body of the first record, taken as a marker.
  Any client that fragments records desynchronises the connection.

Two more defects of the same file were confirmed with one-off TLC checks
of definitions that no run keeps (the runs are at their limit). The
hazard list in `PROJECT.json` records both.

* Buffer leak: `BuffersAccounted` states that every allocated buffer is
  `cur_buffer`, in `used_buffers` or in `free_buffers`. It is violated
  when a 4-unit record follows 2-unit buffers. `select_read_buffer` pops
  a too-small free buffer and never frees it (line 507).
* Connection count: `ConnectionCounted` states `deleted => active = 0`.
  It is violated when a read returns 0 before EPOLLRDHUP arrives.
  `stop()` deletes the client and its epoll handler, so the decrement at
  line 478 never runs.


## Bounds

Every cfg names its bounds:

* `MaxOps` is 2 to 5 client operations.
* `NBlocks` is 2 or 3 data blocks.
* `ReqVersions` is `{0,1}`. Version 0 means automatic, and 1 exercises
  EEXIST and the over-delete restore.
* `MaxWriteIodepth` is 1 or 2.
* `none` runs `immediate_commit=none` and `enospc` runs `all`; the
  violation run `smallstuck` explores `small`.

Three operations on one object are enough for every interesting case. They
can make a write over a delete over a write, a small write behind a big one,
a SYNC inserted between two writes, and two writes in flight at once.

With two blocks and a clean object holding one, the next big write exhausts
the free blocks. That exercises WAIT_FREE and ENOSPC.

For allocation, three allocators are enough for two to race for the same
candidate while a third holds another; two external changes are enough for
a deletion and a re-creation between retries. `IdSpace` covers every
number the search can return.

For the primary write, two writes of one object exercise the queue
hand-over, the CAS failure and the read retry. The third, on another
object, meets the pending flush action. A 4-bit version with 2 epoch bits
(counter 0..3) reaches the end of the counter and the epoch bump within
three writes. `MaxReadErrors = 1` allows one EIO retry.

For scrub, two PGs of two and three objects with a list limit of 2 cover
batching: a full batch, a short last batch, and an empty batch that ends
the list. They also cover the hand-over from one PG to the next. Queue
depth 1 with `scrub_sleep_ms` makes every scrub pass through the sleep
timer. One written object is enough to make the cursor skip a busy object.
Two clock ticks let a PG be planned, scrubbed and planned again. The vote
needs no bounds beyond the replicas: three cover every split of three
copies, and five are needed for two outvoted copies with equal content.

For the NFS client, three buffer addresses are enough for a referenced
buffer, a free one and a new one. Records of 2, 1 and 1 units with 3-unit
buffers make a buffer fill exactly at a record boundary (the `submit_read`
reuse path). They also make a record straddle the end of a buffer with
and without references (two of the three "no place" branches). A third
branch, freeing a buffer smaller than the record, needs a record larger
than `RPC_INIT_BUF_SIZE`; the leak check above takes that path. The
fragment run needs buffers large enough that the parse stops inside one
buffer.

## Fairness

`FairSpec` assumes weak fairness of every internal step:

* dequeue and resume steps, I/O completions and timers;
* the flusher and stabilize, per object;
* the autosync timer.

Client enqueues get no fairness. The ring loop retries every queued
operation on each wakeup, and I/O and timers complete. That justifies weak
fairness. Nothing in the code bounds the clients.

`AllocOsd!FairSpec` assumes weak fairness of `Start`, `EtcdTxn` and
`Resume` per allocator. The CLI drives the loop from its event loop and
etcd answers every request. Errors and other tools get no fairness.

`OsdPrimaryWrite!FairSpec` assumes weak fairness of every subop
completion, the history hook, the epoch report and flush actions. The
messenger answers every subop, and a dropped connection answers with an
error. Client arrivals, PG stops and deactivation get no fairness.

The scrub runs check only safety, so `Scrub` has no fairness. Whether a
planned PG is eventually scrubbed depends on the callers of
`schedule_scrub` in `osd.cpp`, which is not in the repository (see the
liveness hazard in `PROJECT.json`).

`NfsClient!FairSpec` assumes weak fairness of `EpollIn`, `ReadDone`
(the kernel delivers data to a posted receive), `ReadEof` (it reports
the client's close to a posted receive), `EpollOut`, the send
completions that make progress, and each asynchronous handler's reply.
The ring loop completes submitted operations. `ReadFair` states the
fairness of `ReadDone` through its enabling condition, so TLC need not
evaluate the whole parse for ENABLED. EAGAIN, errors and the client's
close get no fairness.

`SendAgain` models EAGAIN and EINTR from `sendmsg` alike, and
`WF_vars(EpollOut)` assumes that an EPOLLOUT edge follows either one. That
holds for EAGAIN. After EINTR the socket may already be writable, and
edge-triggered epoll then gives no new edge. `EveryRequestAnswered`
therefore does not cover a send that stalls after EINTR (the hazard at
line 737).

## Not modelled, and the plan

The following are left out for now:

* The journal ring's space accounting and wrap-around (lines 456 and 507).
  The preflight that guards them is in `blockstore_journal.cpp`, which is
  not under `src/`. The write path abstracts them to in-order completion.
* The `submit_id` overflow assert. It is a 64-bit counter.
* The uninitialised `tv_begin` of deletes. The model lets every eligible
  operation be throttled or not, which covers every value it can take.
* `osd_rmw.h` and `timerfd_manager.h`: headers and tests, with no
  implementation under `src/`. From `osd.h`, only the initial values of
  the scrub fields are used, by `Scrub`'s `Init`.
* From `cli_common.cpp`, only `etcd_txn` is modelled (inside `AllocOsd`).
  `change_parent`, `parse_config` and `loop_and_wait` are argument and
  request glue.
* The qemu and fio drivers: adapters between the QEMU and fio plugin
  APIs and the client library. The fio engine's only state is an
  in-flight counter, a `completed` vector filled by callbacks and drained
  by `getevents`/`event`, and a `last_sync` flag that completes a SYNC at
  once after another SYNC. What those are correct against is fio's
  engine contract and the client library's callbacks, neither of which
  is in `src/`. The qemu driver is option parsing, coroutine wrappers and
  bottom halves around the same library calls. A model of either would
  check guesses about code outside the repository.
* In the NFS proxy: the NFS and MOUNT procedures (`nfs_kv*.cpp` and
  `nfs_block*.cpp`, not in `src/`), which appear only as handler outcomes;
  portmap, option parsing, `daemonize`, `write_pid`, the listening socket
  and the cluster client start-up, which are glue; and a full io_uring
  submission queue. The ring loop is outside `src/`, so `get_sqe` is
  assumed to succeed (see the hazard at line 544).
* In `Scrub`, listing from a peer OSD: the primary always lists its own
  blockstore, because it is in the PG's current set. Also the EC and XOR
  branch of the vote, whose `ec_find_good` is outside `osd_scrub.cpp`, and
  the effect of `mark_object_corrupted` on the PG's object sets.
* In `OsdPrimaryWrite`, peering and recovery, which create flush actions
  and change the PG state outside `src/`. They appear only as the
  environment actions `StopPg`, `DeactivatePg` and `FlushDone`.

Planned next:

1. An abstract per-object register, refined by `OsdPrimaryWrite`.
2. Composing `Scrub` with `OsdPrimaryWrite`'s write queue, in place of the
   `WriteBegin`/`WriteEnd` environment.
3. Composing `OsdPrimaryWrite`'s autosync with `BlockstoreWrite`'s SYNC.
