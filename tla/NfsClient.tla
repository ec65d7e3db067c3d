------------------------------ MODULE NfsClient ------------------------------
(***************************************************************************)
(* One NFS client connection of the vitastor NFS proxy                     *)
(* (src/src/nfs/nfs_proxy.cpp, nfs_client_t).  The client sends RPC        *)
(* records, each made of fragments with a 4-byte marker (length, and the   *)
(* top bit on the last fragment).  The proxy reads the TCP stream into     *)
(* receive buffers with io_uring, reassembles the records, hands each to   *)
(* its handler, and sends the replies from a send list.  A handler may     *)
(* keep pointers into the receive buffer until its reply is sent; such     *)
(* buffers are reference counted and moved to used_buffers, and reused    *)
(* through free_buffers once no reply refers to them.                     *)
(*                                                                         *)
(* Sizes are counted in 4-byte units (XDR data is 4-byte aligned): a       *)
(* fragment marker is one cell, a fragment body of n units is n cells.    *)
(***************************************************************************)
EXTENDS Integers, Sequences, SequencesExt, FiniteSets

CONSTANTS
  Records,    \* the records the client sends: each a sequence of fragment sizes
  InitBuf,    \* RPC_INIT_BUF_SIZE, in 4-byte units
  BufIds,     \* the addresses malloc may return for a receive buffer
  Modes,      \* handler outcomes explored (see HandleMessage)
  MaxEagain   \* bound on sendmsg completions with EAGAIN

Msgs == 1..Len(Records)

Hdr(n, last) == [k |-> "H", n |-> n, last |-> last]
Cell(m, i) == [k |-> "B", m |-> m, i |-> i]
Junk == [k |-> "Z"]                         \* uninitialised memory

SumOf(s) == FoldLeft(LAMBDA a, b : a + b, 0, s)
Total(m) == SumOf(Records[m])               \* body units of record m
MsgBody(m) == [i \in 1..Total(m) |-> Cell(m, i)]

(* The bytes of record m on the wire: every fragment's marker, then its body. *)
Encode(m) ==
  LET f == Records[m]
      frag(j) == <<Hdr(f[j], j = Len(f))>>
                 \o [i \in 1..f[j] |-> Cell(m, SumOf(SubSeq(f, 1, j - 1)) + i)]
  IN  FlattenSeq([j \in 1..Len(f) |-> frag(j)])

VARIABLES
  stream,     \* cells the client sent that the socket has not delivered yet
  closed,     \* the client has closed its end
  mem,        \* mem[b]: the content of buffer b, <<>> when b is not allocated
  cur,        \* cur_buffer: [buf, rpos (read_pos), ppos (parsed_pos), refs]
  used,       \* used_buffers: used[b] is the refs of b, 0 when b has no entry
  free,       \* free_buffers (a vector; the back is Last(free))
  reading,    \* iov_len of the recvmsg in flight, 0 when none (read_msg.msg_iovlen)
  sending,    \* a sendmsg is in flight (write_msg.msg_iovlen)
  send_list,  \* send_list/outbox: one entry per reply, the rop
  next_list,  \* next_send_list/next_outbox: replies queued while sending
  pending,    \* rops whose handler has not replied yet
  refs,       \* nfs_client_t::refs: io_uring operations in flight
  stopped,    \* nfs_client_t::stopped
  deleted,    \* the client object was deleted and its fd closed
  active,     \* nfs_proxy_t::active_connections, for this one client
  hup,        \* EPOLLRDHUP was delivered
  wblocked,   \* sendmsg returned EAGAIN; waiting for EPOLLOUT
  eagain,     \* number of EAGAIN send completions so far
  mode,       \* the handler outcome of each record
  handled,    \* history: what handle_rpc_message got, in order
  desync,     \* history: a marker was read where the stream has none
  wire        \* history: the replies sent completely, in order

vars == <<stream, closed, mem, cur, used, free, reading, sending, send_list,
          next_list, pending, refs, stopped, deleted, active, hup, wblocked,
          eagain, mode, handled, desync, wire>>

(* The client state the read and send paths change, as one record. *)
C == [mem |-> mem, cur |-> cur, used |-> used, free |-> free,
      reading |-> reading, sending |-> sending, send_list |-> send_list,
      next_list |-> next_list, pending |-> pending, refs |-> refs,
      handled |-> handled, desync |-> desync]

StoreC(c) ==
  /\ mem' = c.mem /\ cur' = c.cur /\ used' = c.used /\ free' = c.free
  /\ reading' = c.reading /\ sending' = c.sending /\ send_list' = c.send_list
  /\ next_list' = c.next_list /\ pending' = c.pending /\ refs' = c.refs
  /\ handled' = c.handled /\ desync' = c.desync

Size(c) == Len(c.mem[c.cur.buf])
NoBuf == [buf |-> 0, rpos |-> 0, ppos |-> 0, refs |-> 0]

-----------------------------------------------------------------------------
(* select_read_buffer (lines 502-535).  malloc returns some unallocated    *)
(* address; which one does not matter, so the least is taken.            *)
Malloc(c, n) ==
  LET b == CHOOSE x \in BufIds : c.mem[x] = <<>>
  IN  [c EXCEPT !.mem[b] = [i \in 1..n |-> Junk], !.cur = [NoBuf EXCEPT !.buf = b]]

SelectReadBuffer(c, w) ==
  IF c.free # <<>>
  THEN LET b == Last(c.free)
           c1 == [c EXCEPT !.free = Front(c.free)]
       IN  IF Len(c.mem[b]) < w THEN Malloc(c1, w)
           ELSE [c1 EXCEPT !.cur = [NoBuf EXCEPT !.buf = b]]
  ELSE Malloc(c, IF InitBuf < w THEN w ELSE InitBuf)

(* Mutant: a full buffer goes back to free_buffers even when replies     *)
(* still point into it.                                                  *)
SubmitReadNoRefs(c, w) ==
  IF c.reading # 0 THEN c
  ELSE
    LET full == c.cur.buf = 0 \/ Size(c) <= c.cur.rpos
        kept == IF c.cur.buf = 0 THEN c
                ELSE [c EXCEPT !.free = Append(c.free, c.cur.buf)]
        c1 == IF full THEN SelectReadBuffer(kept, w) ELSE c
    IN  [c1 EXCEPT !.reading = IF w # 0 THEN w ELSE Size(c1) - c1.cur.rpos,
                   !.refs = @ + 1]

(* submit_read (lines 537-583); a submission queue entry is always free.  *)
SubmitRead(c, w) ==
  IF c.reading # 0 THEN c
  ELSE
    LET full == c.cur.buf = 0 \/ Size(c) <= c.cur.rpos
        kept == IF c.cur.buf = 0 THEN c
                ELSE IF c.cur.refs > 0 THEN [c EXCEPT !.used[c.cur.buf] = c.cur.refs]
                ELSE [c EXCEPT !.free = Append(c.free, c.cur.buf)]
        c1 == IF full THEN SelectReadBuffer(kept, w) ELSE c
    IN  [c1 EXCEPT !.reading = IF w # 0 THEN w ELSE Size(c1) - c1.cur.rpos,
                   !.refs = @ + 1]

(* Mutant: a second sendmsg is submitted while one is in flight. *)
SubmitSendTwice(c) ==
  IF c.send_list = <<>> THEN c
  ELSE [c EXCEPT !.sending = TRUE, !.refs = @ + 1]

(* submit_send (lines 689-708). *)
SubmitSend(c) ==
  IF c.sending \/ c.send_list = <<>> THEN c
  ELSE [c EXCEPT !.sending = TRUE, !.refs = @ + 1]

(* Mutant: every reply goes to next_send_list. *)
QueueReplyLate(c, rop) ==
  SubmitSend([c EXCEPT !.next_list = Append(@, rop)])

(* rpc_queue_reply (lines 811-842): behind the send in flight, if any. *)
QueueReply(c, rop) ==
  SubmitSend(IF c.sending THEN [c EXCEPT !.next_list = Append(@, rop)]
             ELSE [c EXCEPT !.send_list = Append(@, rop)])

(* The record handle_rpc_message decodes from the cells it is given;     *)
(* Garbled (0) when they are no record the client sent.                  *)
Garbled == 0
Decode(cells) == IF \E m \in Msgs : cells = MsgBody(m)
                 THEN CHOOSE m \in Msgs : cells = MsgBody(m) ELSE Garbled

(***************************************************************************)
(* handle_rpc_message (lines 844-999) for the record whose body starts at *)
(* cell off of the current buffer.  A garbled record fails xdr_decode and *)
(* is dropped.  Otherwise the handler replies at once ("SYNC") or later    *)
(* ("ASYNC"), and with "_REF" it keeps pointers into the buffer and        *)
(* returns 1.  It returns [c, ref].                                        *)
(***************************************************************************)
HandleMessage(c, off, cells) ==
  LET m == Decode(cells)
      c1 == [c EXCEPT !.handled = Append(@, m)]
      md == mode[m]
      rop == [m |-> m, b |-> c.cur.buf, off |-> off,
              ref |-> md \in {"SYNC_REF", "ASYNC_REF"}]
  IN  IF m = Garbled THEN [c |-> c1, ref |-> FALSE]
      ELSE [c |-> IF md \in {"SYNC", "SYNC_REF"} THEN QueueReply(c1, rop)
                  ELSE [c1 EXCEPT !.pending = @ \cup {rop}],
            ref |-> rop.ref]

(***************************************************************************)
(* The fragment scan of handle_read (lines 605-622) at cell d of buffer    *)
(* content s with `left' cells read: [frags, wanted] as the code counts   *)
(* them, or bad when a cell read as a marker is not one (the code would   *)
(* take arbitrary bytes as a length).                                     *)
(***************************************************************************)
RECURSIVE Scan(_, _, _, _, _)
Scan(s, d, left, f, w) ==
  IF left < w + 1 THEN [bad |-> FALSE, frags |-> f + 1, wanted |-> w + 1]
  ELSE LET h == s[d + w + 1]
       IN  IF h.k # "H" THEN [bad |-> TRUE, frags |-> 0, wanted |-> 0]
           ELSE IF left < w + 1 + h.n \/ h.last
           THEN [bad |-> FALSE, frags |-> f + 1, wanted |-> w + 1 + h.n]
           ELSE Scan(s, d, left, f + 1, w + 1 + h.n)

(* The bodies of the first j fragments from cell d, concatenated. *)
RECURSIVE Gather(_, _, _)
Gather(s, d, j) ==
  IF j = 0 THEN <<>>
  ELSE SubSeq(s, d + 2, d + 1 + s[d + 1].n) \o Gather(s, d + 1 + s[d + 1].n, j - 1)

(* Mutant: the copy lands one cell early. *)
PutAtEarly(s, at, t) == [i \in DOMAIN s |-> IF at <= i /\ i < at + Len(t)
                                             THEN t[i - at + 1] ELSE s[i]]

(* s with the cells of t written from cell `at' on (memcpy, memmove). *)
PutAt(s, at, t) == [i \in DOMAIN s |-> IF at < i /\ i <= at + Len(t)
                                        THEN t[i - at] ELSE s[i]]

(***************************************************************************)
(* The parse loop of handle_read (lines 600-685) from cell d (`data').    *)
(* A complete record is merged in place (lines 626-641) and handled;      *)
(* parsed_pos advances by 4+wanted-4*fragments bytes (line 645) while      *)
(* data advances by wanted.  An incomplete one is read on into the same   *)
(* buffer if it fits, else its head is moved to the start of a buffer     *)
(* that can hold it (lines 656-682).                                       *)
(***************************************************************************)
RECURSIVE Parse(_, _)
Parse(c, d) ==
  LET s == c.mem[c.cur.buf]
      left == c.cur.rpos - d
      a == Scan(s, d, left, 0, 0)
  IN
  IF left <= 0 THEN SubmitRead(c, 0)
  ELSE IF a.bad THEN [c EXCEPT !.desync = TRUE]
  ELSE IF left >= a.wanted
  THEN LET body == Gather(s, d, a.frags)
           c1 == IF a.frags > 1 THEN [c EXCEPT !.mem[c.cur.buf] = PutAt(s, d + 1, body)]
                 ELSE c
           h == HandleMessage(c1, d + 1, body)
           c2 == [h.c EXCEPT !.cur.refs = @ + (IF h.ref THEN 1 ELSE 0),
                             !.cur.ppos = @ + 1 + a.wanted - a.frags]
       IN  Parse(c2, d + a.wanted)
  ELSE IF Size(c) >= d + a.wanted
  THEN SubmitRead(c, a.wanted - left)
  ELSE
    LET head == SubSeq(s, d + 1, d + left)
        c1 == IF c.cur.refs > 0
              THEN SelectReadBuffer([c EXCEPT !.used[c.cur.buf] = c.cur.refs], a.wanted)
              ELSE IF Size(c) < a.wanted
              THEN [SelectReadBuffer(c, a.wanted) EXCEPT !.mem[c.cur.buf] = <<>>]
              ELSE c
        c2 == [c1 EXCEPT !.mem[c1.cur.buf] = PutAt(@, 0, head),
                         !.cur.rpos = left, !.cur.ppos = 0]
    IN  SubmitRead(c2, a.wanted - left)

(* Mutant: a sent reply always dereferences cur_buffer. *)
ReleaseAnyCur(c, rop) ==
  IF ~rop.ref THEN c ELSE [c EXCEPT !.cur.refs = @ - 1]

(* A reply is fully sent (lines 757-778): its buffer loses a reference,    *)
(* and a used buffer without references goes to free_buffers.            *)
Release(c, rop) ==
  IF ~rop.ref THEN c
  ELSE IF rop.b = c.cur.buf THEN [c EXCEPT !.cur.refs = @ - 1]
  ELSE IF c.used[rop.b] = 1
  THEN [c EXCEPT !.used[rop.b] = 0, !.free = Append(@, rop.b)]
  ELSE [c EXCEPT !.used[rop.b] = @ - 1]

RECURSIVE ReleaseAll(_, _)
ReleaseAll(c, rops) ==
  IF rops = <<>> THEN c ELSE ReleaseAll(Release(c, Head(rops)), Tail(rops))

(* Mutant: the client is deleted only below zero references. *)
StopLate(r) == /\ stopped' = TRUE
               /\ deleted' = (r < 0)

(* deref() and stop() (lines 710-730): the client is deleted once no     *)
(* I/O is in flight.                                                       *)
Stop(r) == /\ stopped' = TRUE
           /\ deleted' = (r <= 0)

-----------------------------------------------------------------------------
(* EPOLLIN (lines 483-487): the first read of the connection. *)
EpollIn ==
  /\ ~deleted /\ reading = 0 /\ stream # <<>>
  /\ StoreC(SubmitRead(C, 0))
  /\ UNCHANGED <<stream, closed, wire, stopped, deleted, active, hup,
                 wblocked, eagain, mode>>

(***************************************************************************)
(* handle_read (lines 585-687) with result > 0: k cells of the stream land *)
(* at read_pos, then the records are parsed.  deref() comes first: a      *)
(* stopped client with no other I/O is deleted and the data dropped.      *)
(***************************************************************************)
ReadDone ==
  /\ ~deleted /\ reading > 0 /\ stream # <<>>
  /\ \E k \in 1..(IF reading < Len(stream) THEN reading ELSE Len(stream)) :
       LET c0 == [C EXCEPT !.reading = 0, !.refs = @ - 1]
           c1 == [c0 EXCEPT !.mem[cur.buf] = PutAt(@, cur.rpos, SubSeq(stream, 1, k)),
                            !.cur.rpos = @ + k]
       IN  /\ stream' = SubSeq(stream, k + 1, Len(stream))
           /\ IF stopped /\ c0.refs <= 0
              THEN StoreC(c0) /\ Stop(c0.refs)
              ELSE StoreC(Parse(c1, cur.ppos)) /\ UNCHANGED <<stopped, deleted>>
  /\ UNCHANGED <<closed, wire, active, hup, wblocked, eagain, mode>>

(* handle_read with EAGAIN, EINTR or ECANCELED: the read is resubmitted. *)
ReadRetry ==
  /\ ~deleted /\ reading > 0
  /\ LET c0 == [C EXCEPT !.reading = 0, !.refs = @ - 1]
     IN  IF stopped /\ c0.refs <= 0
         THEN StoreC(c0) /\ Stop(c0.refs)
         ELSE StoreC(SubmitRead(c0, 0)) /\ UNCHANGED <<stopped, deleted>>
  /\ UNCHANGED <<stream, closed, wire, active, hup, wblocked, eagain, mode>>

(* handle_read with 0 (the client closed) or an error: stop(), without    *)
(* touching active_connections.                                           *)
ReadEof ==
  /\ ~deleted /\ reading > 0 /\ closed /\ stream = <<>>
  /\ StoreC([C EXCEPT !.reading = 0, !.refs = @ - 1])
  /\ Stop(refs - 1)
  /\ UNCHANGED <<stream, closed, wire, active, hup, wblocked, eagain, mode>>

(* Mutant: the replies sent are not erased from the send list. *)
SendDoneKeep(k) ==
  /\ ~deleted /\ sending /\ k <= Len(send_list)
  /\ LET c0 == [C EXCEPT !.sending = FALSE, !.refs = @ - 1]
         c1 == ReleaseAll(c0, SubSeq(send_list, 1, k))
         c2 == [c1 EXCEPT !.send_list = send_list \o next_list, !.next_list = <<>>]
     IN  IF stopped /\ c0.refs <= 0
         THEN StoreC(c0) /\ Stop(c0.refs) /\ UNCHANGED wire
         ELSE /\ StoreC(IF c2.send_list # <<>> THEN SubmitSend(c2) ELSE c2)
              /\ wire' = wire \o [i \in 1..k |-> send_list[i].m]
              /\ UNCHANGED <<stopped, deleted>>
  /\ UNCHANGED <<stream, closed, active, hup, wblocked, eagain, mode>>

(***************************************************************************)
(* handle_send (lines 732-809) with result > 0: the first k replies were  *)
(* sent completely (k = 0: part of the first one); the replies queued     *)
(* meanwhile join the send list, and sending goes on.                     *)
(***************************************************************************)
SendDone(k) ==
  /\ ~deleted /\ sending /\ k <= Len(send_list)
  /\ LET c0 == [C EXCEPT !.sending = FALSE, !.refs = @ - 1]
         c1 == ReleaseAll(c0, SubSeq(send_list, 1, k))
         c2 == [c1 EXCEPT !.send_list = SubSeq(send_list, k + 1, Len(send_list)) \o next_list,
                          !.next_list = <<>>]
     IN  IF stopped /\ c0.refs <= 0
         THEN StoreC(c0) /\ Stop(c0.refs) /\ UNCHANGED wire
         ELSE /\ StoreC(IF c2.send_list # <<>> THEN SubmitSend(c2) ELSE c2)
              /\ wire' = wire \o [i \in 1..k |-> send_list[i].m]
              /\ UNCHANGED <<stopped, deleted>>
  /\ UNCHANGED <<stream, closed, active, hup, wblocked, eagain, mode>>

(* handle_send with EAGAIN or EINTR: nothing is resubmitted. *)
SendAgain ==
  /\ ~deleted /\ sending /\ eagain < MaxEagain
  /\ LET c0 == [C EXCEPT !.sending = FALSE, !.refs = @ - 1]
     IN  /\ StoreC(c0)
         /\ IF stopped /\ c0.refs <= 0 THEN Stop(c0.refs)
            ELSE UNCHANGED <<stopped, deleted>>
  /\ wblocked' = TRUE /\ eagain' = eagain + 1
  /\ UNCHANGED <<stream, closed, wire, active, hup, mode>>

(* handle_send with another error: stop(), without touching             *)
(* active_connections.                                                     *)
SendFail ==
  /\ ~deleted /\ sending
  /\ StoreC([C EXCEPT !.sending = FALSE, !.refs = @ - 1])
  /\ Stop(refs - 1)
  /\ UNCHANGED <<stream, closed, wire, active, hup, wblocked, eagain, mode>>

(* EPOLLOUT (lines 488-491): the socket is writable again. *)
EpollOut ==
  /\ ~deleted /\ wblocked
  /\ wblocked' = FALSE
  /\ StoreC(SubmitSend(C))
  /\ UNCHANGED <<stream, closed, wire, stopped, deleted, active, hup, eagain, mode>>

(* An asynchronous handler replies (rpc_queue_reply from its callback). *)
AsyncReply(rop) ==
  /\ ~deleted /\ rop \in pending
  /\ StoreC(QueueReply([C EXCEPT !.pending = @ \ {rop}], rop))
  /\ UNCHANGED <<stream, closed, wire, stopped, deleted, active, hup,
                 wblocked, eagain, mode>>

(* The client closes its end after sending everything. *)
Close ==
  /\ ~closed /\ stream = <<>>
  /\ closed' = TRUE
  /\ UNCHANGED <<stream, mem, cur, used, free, reading, sending, send_list,
                 next_list, pending, refs, stopped, deleted, active, hup,
                 wblocked, eagain, mode, handled, desync, wire>>

(* EPOLLRDHUP (lines 470-479): stop() and one connection fewer. *)
RdHup ==
  /\ ~deleted /\ closed /\ ~hup
  /\ hup' = TRUE /\ active' = active - 1
  /\ Stop(refs)
  /\ UNCHANGED <<stream, closed, mem, cur, used, free, reading, sending,
                 send_list, next_list, pending, refs, wblocked, eagain, mode,
                 handled, desync, wire>>

Init ==
  /\ stream = FlattenSeq([m \in Msgs |-> Encode(m)]) /\ closed = FALSE
  /\ mem = [b \in BufIds |-> <<>>] /\ cur = NoBuf
  /\ used = [b \in BufIds |-> 0] /\ free = <<>>
  /\ reading = 0 /\ sending = FALSE /\ send_list = <<>> /\ next_list = <<>>
  /\ pending = {} /\ refs = 0 /\ stopped = FALSE /\ deleted = FALSE
  /\ active = 1 /\ hup = FALSE /\ wblocked = FALSE /\ eagain = 0
  /\ mode \in [Msgs -> Modes]
  /\ handled = <<>> /\ desync = FALSE /\ wire = <<>>

Next ==
  \/ EpollIn \/ ReadDone \/ ReadRetry \/ ReadEof
  \/ \E k \in 0..Len(send_list) : SendDone(k)
  \/ SendAgain \/ SendFail \/ EpollOut
  \/ \E rop \in pending : AsyncReply(rop)
  \/ Close \/ RdHup
  \/ deleted /\ UNCHANGED vars

Spec == Init /\ [][Next]_vars

(* ReadDone is enabled exactly when a read is in flight and data waits;  *)
(* it is the only step that consumes the stream.  ReadFair is            *)
(* WF_vars(ReadDone) written through that condition, which TLC evaluates *)
(* far faster than ENABLED of the whole parse.                           *)
ReadReady == ~deleted /\ reading > 0 /\ stream # <<>>
ReadFair == <>[]ReadReady => []<><<stream' # stream>>_stream

(* The kernel delivers data that has arrived, reports the close to a     *)
(* posted receive and transmits queued replies,                           *)
(* epoll reports writability, and handlers complete.                      *)
FairSpec ==
  /\ Spec
  /\ WF_vars(EpollIn) /\ ReadFair /\ WF_vars(ReadEof) /\ WF_vars(EpollOut)
  /\ WF_vars(\E k \in 1..Len(send_list) : SendDone(k))
  /\ \A m \in Msgs : WF_vars(\E rop \in pending : rop.m = m /\ AsyncReply(rop))

-----------------------------------------------------------------------------
Rop == [m : Msgs, b : BufIds, off : Nat, ref : BOOLEAN]
Cells == {Junk} \cup {Hdr(n, l) : n \in 0..10, l \in BOOLEAN}
           \cup {Cell(m, i) : m \in Msgs, i \in 1..10}

TypeOK ==
  /\ mem \in [BufIds -> Seq(Cells)]
  /\ cur \in [buf : BufIds \cup {0}, rpos : Nat, ppos : Nat, refs : Nat]
  /\ used \in [BufIds -> Nat] /\ free \in Seq(BufIds)
  /\ reading \in Nat /\ sending \in BOOLEAN
  /\ send_list \in Seq(Rop) /\ next_list \in Seq(Rop) /\ pending \subseteq Rop
  /\ refs \in 0..2 /\ active \in 0..1
  /\ mode \in [Msgs -> Modes] /\ wire \in Seq(Msgs)

(* The replies that still exist: queued, being sent, or not yet made. *)
LiveRops == Range(send_list) \cup Range(next_list) \cup pending
Holders(b) == {r \in LiveRops : r.ref /\ r.b = b}

(***************************************************************************)
(* A handler that keeps pointers into the receive buffer (referenced = 1)  *)
(* still finds its request there until the reply is sent: submit_read and *)
(* the "no place" path must never reuse or overwrite a buffer that a       *)
(* queued or pending reply refers to, and the read offset must never run  *)
(* back over parsed data.                                                  *)
(***************************************************************************)
RequestIntact ==
  ~deleted =>
    \A r \in LiveRops :
      r.ref => /\ r.off + Total(r.m) <= Len(mem[r.b])
               /\ SubSeq(mem[r.b], r.off + 1, r.off + Total(r.m)) = MsgBody(r.m)

(***************************************************************************)
(* The buffer reference counts of handle_read and handle_send are exact:  *)
(* cur_buffer.refs and used_buffers[b].refs count the replies that point  *)
(* into the buffer, and no buffer in free_buffers has one.                 *)
(***************************************************************************)
RefsExact ==
  ~deleted =>
    /\ cur.buf # 0 => cur.refs = Cardinality(Holders(cur.buf))
    /\ \A b \in BufIds \ {cur.buf} : used[b] = Cardinality(Holders(b))
    /\ \A i \in DOMAIN free : Holders(free[i]) = {}

(***************************************************************************)
(* handle_read stays in step with the record markers: every record the    *)
(* client sent reaches handle_rpc_message whole and in order, and no cell *)
(* of a body is ever taken for a marker.                                   *)
(***************************************************************************)
StreamInSync ==
  /\ ~desync
  /\ \A i \in DOMAIN handled : handled[i] = i

(***************************************************************************)
(* Every request handed to a handler is answered: its reply is sent       *)
(* completely unless the connection stops.  This needs rpc_queue_reply,    *)
(* handle_send and the EPOLLOUT resubmission to keep the send list moving. *)
(***************************************************************************)
EveryRequestAnswered ==
  \A m \in Msgs : (m \in Range(handled)) ~> (m \in Range(wire) \/ stopped)

(***************************************************************************)
(* A connection that is stopped and closed by the client is eventually    *)
(* freed: the receive and send in flight complete, deref() brings refs to *)
(* zero and stop() deletes the client, whichever of EPOLLRDHUP, the EOF   *)
(* read or a failed send stopped it.                                      *)
(***************************************************************************)
ClientFreed == (stopped /\ closed) ~> deleted

(***************************************************************************)
(* The connection implements RpcConnection: what handle_read passes to    *)
(* handle_rpc_message is the client's records, whole and in order, and    *)
(* what handle_send completes is one reply per request, never twice, and  *)
(* never for a request not yet taken, through partial sends, EAGAIN and   *)
(* replies queued on next_send_list.                                       *)
(***************************************************************************)
Abstract == INSTANCE RpcConnection WITH N <- Len(Records)
RpcRefinement == Abstract!Spec

(***************************************************************************)
(* Statements without a run (see README): TLC finds both violated.        *)
(* select_read_buffer must not drop a buffer it pops: every allocated     *)
(* buffer is cur_buffer, in used_buffers or in free_buffers.              *)
(***************************************************************************)
BuffersAccounted ==
  \A b \in BufIds :
    mem[b] # <<>> => b = cur.buf \/ used[b] > 0 \/ b \in Range(free)

(* A deleted client no longer counts in active_connections, whichever of  *)
(* EPOLLRDHUP, a failed read or a failed send stopped it.                 *)
ConnectionCounted == deleted => active = 0
====
