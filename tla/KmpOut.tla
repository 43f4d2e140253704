------------------------------- MODULE KmpOut -------------------------------
(***************************************************************************)
(* A KMP output track and its upstreams (nginx-kmp-out-module).            *)
(*                                                                         *)
(* A track is a byte log held in a queue of fixed size buffers.  Packets   *)
(* are copied to the log; when a buffer fills up, or the flush timer       *)
(* expires, the new bytes are appended to the chain of every connected     *)
(* upstream and the buffers that no upstream needs are released.  Every    *)
(* upstream has a TCP connection, an "acked reader" (the place from which  *)
(* a new connection resumes) and a republish state machine that obtains a  *)
(* new address from the controller when the connection breaks.             *)
(*                                                                         *)
(* Bytes are counted in units; a packet header is one unit, a buffer holds *)
(* BufSize units.  nginx runs every handler to completion, so one action   *)
(* is one handler.  A handler that calls others which can fail, or send an *)
(* arbitrary part of the data, is written as an operator from a state to   *)
(* the set of states it may leave, [track, up, queue, rc, n]; an action    *)
(* chooses one of them.                                                    *)
(***************************************************************************)
EXTENDS Integers, Sequences, FiniteSets, SequencesExt

CONSTANTS
    Upstreams,      \* ids of the upstreams
    BufSize,        \* units of data in one buffer (buf_queue.used_size)
    Confs           \* the configurations to consider

Confirmations == {"last_acked", "last_sent", "last_written"}

\* The directives of the track, the publish response of the controller, and the
\* bounds of the model.
ConfType(c) ==
    /\ c.initial \in Seq(Upstreams)     \* upstreams of the publish response
    /\ IsInjective(c.initial)
    /\ c.added \subseteq Upstreams      \* those the management API may add
    /\ c.resume \in [Upstreams -> Confirmations]    \* resume_from
    /\ c.required \in [Upstreams -> BOOLEAN]
    /\ c.memLimit \in Nat \ {0}         \* buffers the track may hold
    /\ c.highMark \in Nat               \* auto ack starts when fewer are left
    /\ c.lowMark \in Nat                \* ... and stops when this many are
    /\ c.highMark <= c.lowMark
    /\ c.highMark <= c.memLimit         \* a percentage of it
    /\ c.maxFree \in Nat                \* max_free_buffers
    /\ c.maxRepublishes \in Nat         \* within one republish_interval
    /\ c.keepalive \in BOOLEAN          \* keepalive_interval > 0
    /\ c.writers \subseteq {"chain", "marker", "abort", "unchecked"}
    /\ c.sizes \subseteq Nat            \* units of frame data
    /\ c.maxPackets \in Nat             \* bound: packets, but end of stream
    /\ c.maxFaults \in Nat              \* bound: errors of the environment

ASSUME ConfAssumption ==
    /\ BufSize \in Nat \ {0}
    /\ \A c \in Confs : ConfType(c)

VARIABLES
    track,      \* the ngx_kmp_out_track_t
    up,         \* up[u]: the ngx_kmp_out_upstream_t of u
    queue,      \* track->upstreams, in list order
    faults,     \* faults injected so far, at most conf.maxFaults
    conf        \* the configuration, fixed when the track is created

vars == <<track, up, queue, faults, conf>>

Infinite == 1000000     \* NGX_MAX_SIZE_T_VALUE

(***************************************************************************)
(* The log.  A packet has a type, the offset of its end and the number of  *)
(* frames up to and including it.  "open" is a frame whose header has not  *)
(* been written yet (it is all zero until the frame is complete).          *)
(***************************************************************************)
PacketTypes == {"media", "frame", "null", "eos", "open"}

End(t, k) == IF k = 0 THEN 0 ELSE t.pkts[k].end
Frames(t, k) == IF k = 0 THEN 0 ELSE t.pkts[k].frames

NodeOf(off) == off \div BufSize
Nodes(t) == t.tail - t.head + 1
MemLeft(t) == conf.memLimit - Nodes(t) - t.nfree

EmptyTrack == [
    state    |-> "wait",    \* wait, active or inactive
    pub      |-> FALSE,     \* publish_call # NULL
    pkts     |-> << >>,
    written  |-> 0,         \* stats.written
    appended |-> 0,         \* offset of active_buf.pos
    lastFrame |-> 0,        \* stats.last_frame_written
    head     |-> 0,         \* number of the first buffer in the queue
    tail     |-> -1,        \* number of the last one, the active buffer
    nfree    |-> 0,         \* length of the free list
    pending  |-> FALSE,     \* send_pending
    blocked  |-> FALSE,     \* send_blocked > 0
    werr     |-> FALSE,     \* write_error
    detached |-> FALSE,
    freed    |-> FALSE,     \* the pool of the track was destroyed
    flush    |-> FALSE,     \* the flush timer is set
    keep     |-> FALSE,     \* the keepalive timer is set
    oerr     |-> FALSE,     \* the owner was told of, or returned, an error
    cause    |-> "none",    \* the first error: memory, optional or other
    forced   |-> FALSE,     \* frames were acked because memory was low
    alerts   |-> {} ]       \* events the code logs as alerts, or worse

NoUpstream == [
    conn   |-> "none",      \* none, connecting (last = NULL) or up
    call   |-> FALSE,       \* republish_call # NULL
    timer  |-> FALSE,       \* republish.timer_set
    wtimer |-> FALSE,       \* the timer of the write event is set
    ready  |-> FALSE,       \* write->ready
    broken |-> FALSE,       \* peer.connection->error
    acked  |-> 0,           \* packets before acked_reader
    eos    |-> FALSE,       \* acked_reader was moved over an eos packet
    sent   |-> 0,           \* log offset sent on the connection
    pre    |-> 0,           \* units of connect and media info left to send
    skew   |-> 0,           \* acked offset - offset the chain starts at
    reps   |-> 0,           \* republishes
    recent |-> FALSE,       \* republish_time was set
    noRep  |-> FALSE,       \* no_republish
    sentEnd |-> FALSE,      \* sent_end
    confirmed |-> 0,        \* highest frame id an ack carried, or the first
    used   |-> FALSE ]      \* the id was given to an upstream

-----------------------------------------------------------------------------
(* States of a handler, and sequencing of the calls it makes *)

Now == [track |-> track, up |-> up, queue |-> queue, faults |-> faults,
        rc |-> "ok", n |-> 0]

Become(s) ==
    /\ track' = s.track
    /\ up' = s.up
    /\ queue' = s.queue
    /\ faults' = s.faults
    /\ UNCHANGED conf

\* s after one more fault of the environment, while the bound permits
Fault(s) == IF s.faults < conf.maxFaults THEN {[s EXCEPT !.faults = @ + 1]}
            ELSE {}

Rc(s, rc) == [s EXCEPT !.rc = rc]
Alert(s, a) == [s EXCEPT !.track.alerts = @ \cup {a}]

\* S, then F unless it failed
Then(S, F(_)) == UNION {IF s.rc = "error" THEN {s} ELSE F(s) : s \in S}

\* F for every upstream of the list, stopping at an error
Sweep(s, F(_, _)) ==
    LET upTo[i \in 0 .. Len(s.queue)] ==
            IF i = 0 THEN {Rc(s, "ok")}
            ELSE Then(upTo[i - 1], LAMBDA x : F(x, s.queue[i]))
    IN  upTo[Len(s.queue)]

\* A loop of at most n turns.  Turn takes a state, and what is left to do, to
\* what they may be next; when that is negative, the loop ends.
Loop(s, left, n, Turn(_, _)) ==
    LET after[i \in 0 .. n] ==
            IF i = 0 THEN {<<s, left>>}
            ELSE UNION {IF x[2] < 0 THEN {x} ELSE Turn(x[1], x[2])
                        : x \in after[i - 1]}
    IN  {x[1] : x \in after[n]}

-----------------------------------------------------------------------------
(* The acked reader *)

\* u's reader is inside the queue: what it reads is what was written
Readable(t, u) == NodeOf(End(t, u.acked)) \in t.head .. t.tail

\* mutant: all that was written is taken for sent
AckLimitWritten(t, u) == IF u.conn = "up" THEN t.written ELSE t.lastFrame

\* mutant: the connect packet is counted as part of the log
AckLimitConnect(t, u) ==
    IF u.conn = "up" THEN u.sent + 1 ELSE t.lastFrame

\* the bytes up to which packets may be acked automatically
AckLimit(t, u) ==
    IF u.conn = "up" THEN u.sent + u.skew - u.pre ELSE t.lastFrame

\* read_packet and ack_packet on u's reader until `left` bytes were acked, the
\* limit was reached, or an eos packet or something that is no packet was read:
\* the last packet acked
AckedTo(t, u, left) ==
    Max({k \in u.acked .. Len(t.pkts) :
            \A i \in u.acked + 1 .. k :
                /\ t.pkts[i].type \notin {"eos", "open"}
                /\ End(t, i) <= AckLimit(t, u)
                /\ End(t, i - 1) - End(t, u.acked) < left})

\* ... and why the loop stopped after packet m
AckStop(t, u, left, m) ==
    LET next == IF m < Len(t.pkts) THEN t.pkts[m + 1].type ELSE "none"
    IN  IF End(t, m) - End(t, u.acked) >= left THEN "enough"
        ELSE IF End(t, m) + 1 > AckLimit(t, u) THEN "limit"
        ELSE IF u.eos THEN "past eos"
        ELSE IF next \in {"open", "none"} THEN "bad packet"
        ELSE IF next = "eos" THEN "eos"
        ELSE "limit"

\* A read from a released buffer, from a part of the log that was not written
\* or that holds no header yet: the bytes may be anything.
BadRead(s, u, what) ==
    {Rc(Alert([s EXCEPT !.up[u].noRep = TRUE], what), "error"), Alert(s, what)}

\* The state after the packets up to `to` were acked; n is the counter of the
\* loop, which is not incremented when the last packet acked makes up for what
\* was left to free.
AckMove(s, u, to, why) ==
    [s EXCEPT !.up[u].acked = to,
              !.n = @ + (to - s.up[u].acked) - (IF why = "enough" THEN 1 ELSE 0)]

\* the outcome of a loop that stopped after packet `to`; m is the state then
AckOutcome(s, u, to, why, m) ==
    IF to = s.up[u].acked /\ why = "limit" THEN {s}
    ELSE IF ~Readable(s.track, s.up[u]) THEN BadRead(s, u, "stale read")
    ELSE IF NodeOf(End(s.track, to)) > s.track.tail
    THEN {Rc(Alert([s EXCEPT !.up[u].noRep = TRUE], "skip failed"), "error")}
    ELSE IF why \in {"past eos", "bad packet"} THEN BadRead(m, u, why)
    ELSE IF why = "eos" THEN {[m EXCEPT !.up[u].eos = TRUE]}
    ELSE {m}

\* the loop of ngx_kmp_out_upstream_auto_ack
AckSome(s, u, left) ==
    UNION {UNION {AckOutcome(s, u, to, why, AckMove(s, u, to, why))
                  : why \in {AckStop(s.track, s.up[u], left, to)}}
           : to \in {AckedTo(s.track, s.up[u], left)}}

\* ngx_kmp_out_upstream_auto_ack(u, NGX_MAX_SIZE_T_VALUE, 0)
AutoAck(s, u) == AckSome(s, u, Infinite)

-----------------------------------------------------------------------------
(* Republish *)

\* ngx_kmp_out_upstream_republish_send: the http call may fail to be created
RepublishSend(s, u) ==
    {[s EXCEPT !.up[u].call = TRUE, !.up[u].recent = TRUE]}
        \cup {Rc(x, "error") : x \in Fault(s)}

\* the connection is closed, the buffers of the chain are recycled
CloseConnection(s, u) ==
    [s EXCEPT !.up[u] = [@ EXCEPT !.conn = "none", !.ready = FALSE,
        !.wtimer = FALSE, !.broken = FALSE, !.sent = 0, !.pre = 0,
        !.skew = 0]]

\* `within`: less than republish_interval passed since the last republish
RepublishAfter(s, u, within) ==
    IF within
    THEN {[s EXCEPT !.up[u].timer = TRUE, !.up[u].reps = @ + 1]}
    ELSE RepublishSend([s EXCEPT !.up[u].reps = 0], u)

\* ngx_kmp_out_upstream_republish
Republish(s, u) ==
    LET x == s.up[u]
        closed == CloseConnection(s, u)
        idle == x.conn = "up" /\ x.pre = 0 /\ x.sent = s.track.appended
    IN  UNION {
          IF \/ s.track.state # "active"
             \/ x.noRep
             \/ within /\ x.reps >= conf.maxRepublishes
          THEN {Rc(s, "declined")}
          ELSE IF idle
          THEN {closed}     \* republish once more data is available
          ELSE Then(IF conf.resume[u] = "last_written"
                    THEN AutoAck(closed, u) ELSE {closed},
                    LAMBDA y : RepublishAfter(y, u, within))
          : within \in IF x.recent THEN BOOLEAN ELSE {FALSE}}

\* ngx_kmp_out_upstream_auto_ack(u, left, 1): when everything that was sent is
\* acked and it is not enough, the connection is given up, so that frames which
\* were not sent can be acked as well
AutoAckForce(s, u, left) ==
    LET Acked(x) == End(x.track, x.up[u].acked) - End(s.track, s.up[u].acked)
        Lossy(x) == [x EXCEPT !.track.forced = @ \/ Acked(x) > 0]
        More(a) ==
            IF Acked(a) >= left \/ a.up[u].conn # "up" \/ a.up[u].eos
            THEN {a}
            ELSE UNION {
                CASE r.rc = "error" -> {r}
                  [] r.rc # "error" /\ r.up[u].conn = "up" -> {Rc(r, "ok")}
                  [] OTHER -> AckSome([r EXCEPT !.n = @ + 1], u,
                                      left - Acked(r))
                : r \in Republish(a, u)}
    IN  {Lossy(x) : x \in Then(AckSome(s, u, left), More)}

-----------------------------------------------------------------------------
(* Release of buffers *)

\* mutant: the buffer of the limit is released as well
FreeThrough(s, off) ==
    [s EXCEPT !.track.head = Min({s.track.tail, NodeOf(off) + 1})]

\* ngx_buf_queue_free: release the buffers before the one that holds offset
\* `off`.  If no buffer holds it, all but the last are released.
FreeTo(s, off) ==
    LET t == s.track
        found == NodeOf(off) \in t.head .. t.tail
        first == IF found THEN NodeOf(off) ELSE t.tail
        u == [s EXCEPT !.track.head = first,
                       !.track.nfree = Min({conf.maxFree, @ + first - t.head})]
    IN IF found THEN u ELSE Alert(u, "limit not found")

FrameId(s, u) == Frames(s.track, s.up[u].acked)     \* acked_frame_id

\* mutant: the upstreams are taken to be sorted
MinAckedFirst(s) == s.queue[1]

\* ngx_kmp_out_track_min_acked_upstream: the first one with the least id
MinAcked(s) ==
    LET i == CHOOSE i \in DOMAIN s.queue : \A j \in DOMAIN s.queue :
                \/ FrameId(s, s.queue[i]) < FrameId(s, s.queue[j])
                \/ FrameId(s, s.queue[i]) = FrameId(s, s.queue[j]) /\ i <= j
    IN s.queue[i]

MinReader(s) == End(s.track, s.up[MinAcked(s)].acked)

\* mutant: only what was sent is acked, the connection is kept
MemWatermarkSoft(s) ==
    LET u == MinAcked(s)
        missing == (conf.lowMark - MemLeft(s.track)) * BufSize
    IN  IF missing <= 0 \/ s.queue = << >> THEN {s}
        ELSE Then(AckSome([s EXCEPT !.n = 0], u, missing),
                  LAMBDA a : {FreeTo(a, MinReader(a))})

\* one turn of ngx_kmp_out_track_mem_watermark
WatermarkTurn(s, left) ==
    LET u == MinAcked(s)
        missing == (conf.lowMark - MemLeft(s.track)) * BufSize
    IN  IF missing <= 0 \/ s.queue = << >>
        THEN {<<s, -1>>}
        ELSE {IF a.rc = "error" \/ a.n = 0 THEN <<a, -1>>
              ELSE <<FreeTo(a, MinReader(a)), left>>
              : a \in AutoAckForce([s EXCEPT !.n = 0], u, missing)}

\* ngx_kmp_out_track_mem_watermark.  Every turn but the last acks a packet to
\* an upstream, or gives up the connection of one.
MemWatermark(s) ==
    Loop(s, 0, (Len(s.track.pkts) + 1) * Len(s.queue) + 1, WatermarkTurn)

-----------------------------------------------------------------------------
(* Sending *)

\* a header that is still zero must not be sent
SendsOpen(t, sent) ==
    \E k \in DOMAIN t.pkts : t.pkts[k].type = "open" /\ sent > End(t, k - 1)

\* n units of the chain are accepted by the socket
Sent(s, u, n) ==
    LET x    == s.up[u]
        all  == x.pre + s.track.appended - x.sent
        sent == x.sent + Max({0, n - x.pre})
        y    == [s EXCEPT !.up[u] = [x EXCEPT
                    !.pre = Max({0, @ - n}), !.sent = sent,
                    !.ready = @ /\ n = all,
                    !.wtimer = IF n = all THEN FALSE ELSE @ \/ n > 0]]
    IN IF SendsOpen(s.track, sent) THEN Alert(y, "open header sent") ELSE y

\* ngx_kmp_out_upstream_send_chain
SendChain(s, u) ==
    LET x   == s.up[u]
        all == x.pre + s.track.appended - x.sent
    IN  CASE x.conn # "up" -> {s}     \* connect packet not sent
          [] x.conn = "up" /\ x.broken -> {Rc(s, "error")}
          [] OTHER ->
               {Rc([f EXCEPT !.up[u].broken = TRUE], "error") : f \in Fault(s)}
               \cup UNION {
                 IF conf.resume[u] = "last_acked" THEN {Sent(s, u, n)}
                 ELSE AutoAck(Sent(s, u, n), u)
                 : n \in IF x.ready THEN 0 .. all ELSE {0}}

\* the first error of the track: an error of an upstream that is not required,
\* while there are others, is told apart from the rest
Blame(s, u) ==
    IF s.track.cause # "none" THEN s
    ELSE [s EXCEPT !.track.cause =
            IF conf.required[u] \/ Len(s.queue) = 1 THEN "other"
            ELSE "optional"]

\* ngx_kmp_out_upstream_send; a call from send_all returns only ok or error
Send(s, u) ==
    UNION {IF x.rc # "error" THEN {x}
           ELSE {IF y.rc = "ok" THEN y ELSE Rc(Blame(y, u), "error")
                 : y \in Republish(Rc(x, "ok"), u)}
           : x \in SendChain(s, u)}

\* mutant: send_blocked is not looked at
SendAllUnblocked(s) ==
    IF ~s.track.pending THEN {s}
    ELSE Sweep([s EXCEPT !.track.pending = FALSE], Send)

\* ngx_kmp_out_track_send_all
SendAll(s) ==
    IF ~s.track.pending \/ s.track.blocked
    THEN {s}
    ELSE Sweep([s EXCEPT !.track.pending = FALSE], Send)

-----------------------------------------------------------------------------
(* Writing *)

\* mutant: a broken connection is not replaced when there is more to send
AppendBufferIdle(s, u) == {s}

\* ngx_kmp_out_upstream_append_buffer: a chain already holds the bytes up to
\* `appended`; without a connection, a republish is started if none is pending
AppendBuffer(s, u) ==
    IF s.up[u].conn = "up"
    THEN {s}
    ELSE {IF x.rc = "error" THEN Blame(x, u) ELSE x : x \in
          Then(IF conf.resume[u] = "last_written" THEN AutoAck(s, u) ELSE {s},
            LAMBDA x :
              IF x.up[u].conn = "none" /\ ~x.up[u].call /\ ~x.up[u].timer
              THEN RepublishSend(x, u)
              ELSE {x})}

\* ngx_kmp_out_track_append_all
AppendAll(s) ==
    IF s.track.appended = s.track.written
    THEN {s}
    ELSE Then(Sweep(s, AppendBuffer), LAMBDA a :
            LET ready == \E u \in ToSet(a.queue) : a.up[u].ready
                b == [a EXCEPT !.track.appended = a.track.written,
                               !.track.pending = @ \/ ready]
            IN {IF b.queue = << >> THEN b ELSE FreeTo(b, MinReader(b))})

\* mutant: the memory limit is not looked at
GetBufferUnlimited(s) == {[s EXCEPT !.track.tail = @ + 1]}

\* ngx_buf_queue_get: from the free list, or within the memory limit
GetBuffer(s) ==
    CASE s.track.nfree > 0 -> {[s EXCEPT !.track.nfree = @ - 1,
                                         !.track.tail = @ + 1]}
      [] s.track.nfree = 0 /\ MemLeft(s.track) > 0 ->
            {[s EXCEPT !.track.tail = @ + 1]}
      [] OTHER -> {Rc([s EXCEPT !.track.cause =
                        IF @ = "none" /\ s.track.state = "active"
                        THEN "memory" ELSE @], "error")}

\* one turn of the copy loop: n units are left
CopyTurn(s, n) ==
    LET room == (s.track.tail + 1) * BufSize - s.track.written
    IN  IF n < room
        THEN {<<[s EXCEPT !.track.written = @ + n], -1>>}
        ELSE {<<x, IF x.rc = "error" THEN -1 ELSE n - room>>
              : x \in Then(AppendAll([s EXCEPT !.track.written = @ + room]),
                           GetBuffer)}

\* the copy loop of ngx_kmp_out_track_write_chain: the active buffer may be
\* full before the first turn, and is not before the others
Copy(s, n) == Loop(s, n, n + 2, CopyTurn)

\* ngx_kmp_out_track_write_chain: an error of the watermark is returned
\* without setting write_error
WriteChain(s, n) ==
    LET Fail(x) == IF x.rc = "error" THEN [x EXCEPT !.track.werr = TRUE]
                   ELSE [x EXCEPT !.track.flush = TRUE]
        Body(x) == {Fail(y) : y \in Then(Copy(x, n), SendAll)}
    IN  IF s.track.tail < 0 /\ s.track.written > 0
        THEN {Rc(Alert(s, "released buffer"), "error")}
        ELSE
        Then(IF MemLeft(s.track) < conf.highMark THEN MemWatermark(s) ELSE {s},
             Body)

\* A packet of n units is put at the end of the log, not written yet.  When the
\* last one was cut short by an error, the new one becomes part of its data.
NewPacket(s, type, n) ==
    LET t == s.track
        k == Len(t.pkts)
    IN  IF t.written < End(t, k)
        THEN Alert(s, "inside packet")
        ELSE [s EXCEPT !.track.pkts = Append(@,
            [type |-> type, end |-> t.written + n,
             frames |-> Frames(t, k) + (IF type = "frame" THEN 1 ELSE 0)])]

\* a packet that is copied by two calls of write_chain, header and rest
WritePacket(s, type, n) ==
    Then(WriteChain(NewPacket(s, type, 1 + n), 1),
         LAMBDA x : IF n = 0 THEN {x} ELSE WriteChain(x, n))

\* update_frame_stats
FrameWritten(s) == [s EXCEPT !.track.lastFrame = s.track.written]

-----------------------------------------------------------------------------
(* Errors, and the end of a track *)

\* ngx_kmp_out_upstream_free, of an upstream of the list
FreeUpstream(s, u) ==
    [s EXCEPT !.queue = RemoveAt(@, CHOOSE i \in DOMAIN @ : @[i] = u),
              !.up[u] = [NoUpstream EXCEPT !.used = TRUE]]

\* mutant: the keepalive timer is left set
CleanupKeeps(s) ==
    LET t == [s.track EXCEPT !.flush = FALSE]
    IN  [s EXCEPT !.track =
            IF s.queue # << >> THEN t
            ELSE [t EXCEPT !.head = 0, !.tail = -1, !.nfree = 0,
                           !.freed = t.detached]]

\* ngx_kmp_out_track_cleanup
Cleanup(s) ==
    LET t == [s.track EXCEPT !.flush = FALSE, !.keep = FALSE]
    IN  [s EXCEPT !.track =
            IF s.queue # << >> THEN t
            ELSE [t EXCEPT !.head = 0, !.tail = -1, !.nfree = 0,
                           !.freed = t.detached]]

\* the owner is told, or its call returns an error
OwnerError(s) == [s EXCEPT !.rc = "ok", !.track.oerr = TRUE,
                    !.track.cause = IF @ = "none" THEN "other" ELSE @]

\* mutant: nothing is done once the owner is gone
TrackErrorAttached(s) == IF s.track.detached THEN Rc(s, "ok")
                         ELSE OwnerError(s)

\* ngx_kmp_out_track_error
TrackError(s) == IF s.track.detached THEN Rc(Cleanup(s), "ok")
                 ELSE OwnerError(s)

\* mutant: the loss of the last upstream is not told
FreeNotifyRequired(s, u) ==
    LET x == FreeUpstream(s, u)
    IN  IF ~conf.required[u] THEN Rc(x, "ok") ELSE TrackError(x)

\* ngx_kmp_out_upstream_free_notify
FreeNotify(s, u) ==
    LET x == FreeUpstream(s, u)
    IN  IF ~conf.required[u] /\ x.queue # << >> THEN Rc(x, "ok")
        ELSE TrackError(x)

\* ngx_kmp_out_upstream_error
UpstreamError(s, u) ==
    {IF x.rc = "ok" THEN x ELSE FreeNotify(x, u)
     : x \in Republish(Rc(s, "ok"), u)}

-----------------------------------------------------------------------------
(* The owner of the track: the RTMP, MPEG-TS or closed captions module *)

\* the owner writes nothing after an error; the RTMP and MPEG-TS modules do not
\* write to an inactive track, the closed captions module does not check
OwnerWrites ==
    /\ ~track.detached /\ ~track.oerr
    /\ track.state # "inactive" \/ "unchecked" \in conf.writers
    /\ Len(track.pkts) < conf.maxPackets

Returned(s) == IF s.rc = "error" THEN OwnerError(s) ELSE s

\* the media info of the frames that follow, then the first time a publish
\* request
WriteMediaInfo ==
    /\ OwnerWrites
    /\ \A k \in DOMAIN track.pkts : track.pkts[k].type = "media" =>
            \E j \in DOMAIN track.pkts : j > k /\ track.pkts[j].type = "frame"
    /\ \E s \in WritePacket(Now, "media", 1) :
        Become(Returned(IF s.rc = "ok" /\ track.pkts = << >>
                        THEN [s EXCEPT !.track.pub = TRUE] ELSE s))

\* ngx_kmp_out_track_write_frame
WriteFrame ==
    /\ "chain" \in conf.writers
    /\ OwnerWrites /\ track.pkts # << >>
    /\ \E d \in conf.sizes : \E s \in WritePacket(Now, "frame", d) :
        Become(Returned(IF s.rc = "ok" THEN FrameWritten(s) ELSE s))

\* write_frame_start and write_frame_data: a zero header, sending is blocked
OpenFrame(s, d) ==
    WritePacket([s EXCEPT !.track.blocked = TRUE], "open", d)

\* write_frame_end: the header is filled in, sending resumes
CloseFrame(s) ==
    LET t == s.track
        k == Len(t.pkts)
        closed == [s EXCEPT !.track.blocked = FALSE,
                            !.track.pkts[k].type = "frame",
                            !.track.pkts[k].frames = @ + 1]
    IN  Then(SendAll(closed), LAMBDA x : {FrameWritten(x)})

WriteMarkedFrame ==
    /\ "marker" \in conf.writers
    /\ OwnerWrites /\ track.pkts # << >>
    /\ \E d \in conf.sizes : \E s \in Then(OpenFrame(Now, d), CloseFrame) :
        Become(Returned(s))

\* the parser fails in the middle of a frame, its header is never filled in
AbortFrame ==
    /\ "abort" \in conf.writers
    /\ OwnerWrites /\ track.pkts # << >>
    /\ \E d \in conf.sizes : \E s \in OpenFrame(Now, d) :
        Become(OwnerError(s))

\* ngx_kmp_out_track_keepalive_handler
KeepaliveTimer ==
    /\ track.keep
    /\ Len(track.pkts) < conf.maxPackets
    /\ \E s \in WritePacket(Now, "null", 0) :
        Become(IF s.rc = "error" THEN TrackError(s) ELSE s)

\* ngx_kmp_out_track_flush and its timer
Flush(s) == Then(AppendAll(s), SendAll)

FlushTimer ==
    /\ track.flush
    /\ \E s \in Flush([Now EXCEPT !.track.flush = FALSE]) :
        Become(IF s.rc = "error" THEN TrackError(s) ELSE s)

\* ngx_kmp_out_track_send_end_of_stream
SendEndOfStream(s) ==
    LET Ended(x) == [x EXCEPT !.up = [u \in Upstreams |->
            IF u \in ToSet(x.queue) THEN [x.up[u] EXCEPT !.sentEnd = TRUE]
            ELSE x.up[u]]]
    IN  IF s.track.werr THEN {Rc(s, "error")}
        ELSE Then(WritePacket([s EXCEPT !.track.state = "inactive"],
                              "eos", 0),
                  LAMBDA x : Flush(Ended(x)))

\* ngx_kmp_out_track_free_upstreams
FreeUpstreams(s) ==
    [s EXCEPT !.queue = << >>, !.up = [u \in Upstreams |->
        IF u \in ToSet(s.queue) THEN [NoUpstream EXCEPT !.used = TRUE]
        ELSE s.up[u]]]

\* ngx_kmp_out_track_detach: the input was closed
Detach ==
    /\ ~track.detached
    /\ LET s == [Now EXCEPT !.track.detached = TRUE, !.track.pub = FALSE]
       IN \E x \in IF queue = << >> THEN {s} ELSE SendEndOfStream(s) :
            Become(Cleanup(IF x.rc = "error" THEN FreeUpstreams(x) ELSE x))

-----------------------------------------------------------------------------
(* The controller and the management API *)

\* upstream_create and connect: a connection in progress
NewConnection(acked, eos) ==
    [NoUpstream EXCEPT !.used = TRUE, !.acked = acked, !.eos = eos,
                       !.conn = "connecting", !.wtimer = TRUE]

\* ngx_kmp_out_track_publish_json: the upstreams are created in order; when a
\* connect call fails, the ones before it remain
PublishReply ==
    /\ track.pub
    /\ \E k \in 0 .. Len(conf.initial) :
        LET done == k = Len(conf.initial)
            q == SubSeq(conf.initial, 1, k)
            s == [Now EXCEPT !.track.pub = FALSE, !.queue = @ \o q,
                    !.up = [u \in Upstreams |->
                        IF u \in ToSet(q) THEN NewConnection(0, FALSE)
                        ELSE up[u]]]
        IN  \/ /\ done /\ k = 0
               /\ Become(Cleanup([s EXCEPT !.track.state = "inactive"]))
            \/ /\ done /\ k > 0
               /\ Become([s EXCEPT !.track.state = "active",
                                   !.track.keep = conf.keepalive])
            \/ /\ ~done
               /\ \E x \in Fault(s) : Become(TrackError(x))

\* the call failed, and so did its retries
PublishFail ==
    /\ track.pub
    /\ \E s \in Fault([Now EXCEPT !.track.pub = FALSE]) : Become(TrackError(s))

\* ngx_kmp_out_upstream_republish_handle
RepublishReply(u) ==
    /\ up[u].call
    /\ Become([Now EXCEPT !.up[u] = [@ EXCEPT !.call = FALSE,
                            !.conn = "connecting", !.wtimer = TRUE]])

\* no valid response, or the connect call fails at once
RepublishFail(u) ==
    /\ up[u].call
    /\ \E s \in Fault(Now) : Become(FreeNotify(s, u))

\* ngx_kmp_out_upstream_republish_timer_handler
RepublishTimer(u) ==
    /\ up[u].timer
    /\ \E s \in RepublishSend([Now EXCEPT !.up[u].timer = FALSE], u) :
        Become(IF s.rc = "error" THEN FreeNotify(s, u) ELSE s)

\* ngx_kmp_out_track_add_upstream: the new upstream starts where another one,
\* by default the one that acked the least, would resume; its receiver need not
\* confirm the frames before
AddUpstream(u) ==
    /\ ~track.freed /\ u \in conf.added /\ ~up[u].used
    /\ \E src \in ToSet(queue) :
        Become([Now EXCEPT !.queue = Append(@, u),
                           !.up[u] = [NewConnection(up[src].acked, up[src].eos)
                                EXCEPT !.confirmed = FrameId(Now, src)]])

\* mutant: the track stays active without an upstream
DelUpstreamActive(u) ==
    /\ u \in ToSet(queue)
    /\ \E f \in Fault(Now) :
        LET s == FreeUpstream(f, u)
        IN Become(IF s.queue # << >> THEN s ELSE Cleanup(s))

\* ngx_kmp_out_track_del_upstream
DelUpstream(u) ==
    /\ u \in ToSet(queue)
    /\ \E f \in Fault(Now) :
        LET s == FreeUpstream(f, u)
        IN Become(IF s.queue # << >> THEN s
                  ELSE Cleanup([s EXCEPT !.track.state = "inactive"]))

-----------------------------------------------------------------------------
(* The connection of an upstream *)

WriteHandler(s, u) ==
    UNION {IF x.rc = "error" THEN UpstreamError(x, u) ELSE {x}
           : x \in SendChain(s, u)}

\* ngx_kmp_out_upstream_send_buffered: the connect packet (with the media info
\* that was acked last), then the bytes from the acked reader to active_buf.pos
SendBuffered(s, u) ==
    LET off  == End(s.track, s.up[u].acked)
        from == Min({off, s.track.appended})
        x == [s EXCEPT !.up[u] = [@ EXCEPT !.conn = "up", !.ready = TRUE,
                    !.pre = 1, !.sent = from, !.skew = off - from]]
    IN  IF Readable(s.track, s.up[u]) THEN x ELSE Alert(x, "stale read")

\* ngx_kmp_out_upstream_write_handler: connected, or more can be written
Connected(u) ==
    /\ up[u].conn = "connecting"
    /\ \E s \in WriteHandler(SendBuffered(Now, u), u) : Become(s)

WriteReady(u) ==
    /\ up[u].conn = "up"
    /\ \E s \in WriteHandler([Now EXCEPT !.up[u].ready = TRUE], u) : Become(s)

WriteTimeout(u) ==
    /\ up[u].wtimer
    /\ \E f \in Fault(Now) : \E s \in UpstreamError(f, u) : Become(s)

\* ngx_kmp_out_upstream_read_handler: the peer closed the connection
PeerClosed(u) ==
    /\ up[u].conn # "none"
    /\ \E f \in Fault(Now) : \E s \in UpstreamError(f, u) : Become(s)

\* ... after it got everything, or once it gives up on an ended track
PeerDone(u) ==
    /\ up[u].conn = "up" /\ track.detached
    /\ \E s \in UpstreamError(Now, u) : Become(s)

\* frames the peer got in full
Received(u) ==
    LET whole == {k \in DOMAIN track.pkts : /\ track.pkts[k].type # "open"
                                            /\ End(track, k) <= up[u].sent}
    IN Max({Frames(track, k) : k \in whole \cup {0}})

\* mutant: the frame that is still expected is acked as well
AckFramesThrough(s, u, id) ==
    LET t == s.track
        k == Min({k \in s.up[u].acked .. Len(t.pkts) :
                    Frames(t, k) > id \/ k = Len(t.pkts)})
    IN  [s EXCEPT !.up[u].acked = k]

\* mutant: an ack below the id that is acked already is applied
AckFramesBack(s, u, id) ==
    LET t == s.track
    IN  [s EXCEPT !.up[u].acked =
            Min({k \in 0 .. Len(t.pkts) : Frames(t, k) >= id})]

\* ngx_kmp_out_upstream_ack_frames: all packets up to the frame are read
AckFrames(s, u, id) ==
    LET t == s.track
        k == Min({k \in s.up[u].acked .. Len(t.pkts) : Frames(t, k) >= id})
        failed == Rc([s EXCEPT !.up[u].noRep = TRUE], "error")
    IN  IF k = s.up[u].acked THEN s
        ELSE IF ~Readable(t, s.up[u]) THEN Alert(failed, "stale read")
        ELSE IF NodeOf(End(t, k)) > t.tail THEN Alert(failed, "skip failed")
        ELSE [s EXCEPT !.up[u].acked = k]

\* an ack packet: frames before `id` need not be sent again
ReadAck(u) ==
    /\ up[u].conn = "up" /\ up[u].pre = 0 /\ up[u].skew = 0
    /\ \E id \in up[u].confirmed + 1 .. Received(u) :
        LET s == [Now EXCEPT !.up[u].confirmed = id]
            x == AckFrames(s, u, id)
        IN  IF conf.resume[u] # "last_acked" THEN Become(s)
            ELSE IF x.rc = "ok" THEN Become(x)
            ELSE \E y \in UpstreamError(x, u) : Become(y)

-----------------------------------------------------------------------------

Init ==
    /\ track = EmptyTrack
    /\ up = [u \in Upstreams |-> NoUpstream]
    /\ queue = << >>
    /\ faults = 0
    /\ conf \in Confs

\* the pool was destroyed, nothing remains
Freed == track.freed /\ UNCHANGED vars

Next ==
    \/ WriteMediaInfo \/ WriteFrame \/ WriteMarkedFrame \/ AbortFrame
    \/ KeepaliveTimer \/ FlushTimer \/ Detach
    \/ PublishReply \/ PublishFail
    \/ \E u \in Upstreams :
        \/ RepublishReply(u) \/ RepublishFail(u) \/ RepublishTimer(u)
        \/ AddUpstream(u) \/ DelUpstream(u)
        \/ Connected(u) \/ WriteReady(u) \/ WriteTimeout(u)
        \/ PeerClosed(u) \/ PeerDone(u) \/ ReadAck(u)
    \/ Freed

Spec == Init /\ [][Next]_vars

\* the socket takes all that is left
SendRest(u) ==
    /\ WriteReady(u)
    /\ up'[u].conn = "up" /\ up'[u].pre = 0 /\ up'[u].sent = track.appended

\* Timers expire, the controller answers, a peer that is connected reads what it
\* is sent and closes an ended stream, and an owner that was told of an error
\* closes its input.
Fairness ==
    /\ WF_vars(FlushTimer) /\ WF_vars(PublishReply)
    /\ WF_vars(track.oerr /\ Detach)
    /\ \A u \in Upstreams :
        /\ WF_vars(RepublishReply(u)) /\ WF_vars(RepublishTimer(u))
        /\ WF_vars(Connected(u)) /\ WF_vars(SendRest(u)) /\ WF_vars(PeerDone(u))

FairSpec == Spec /\ Fairness

-----------------------------------------------------------------------------
(* Properties *)

TypeOK ==
    /\ DOMAIN track = DOMAIN EmptyTrack
    /\ track.state \in {"wait", "active", "inactive"}
    /\ \A k \in DOMAIN track.pkts : track.pkts[k] \in
            [type : PacketTypes, end : Nat, frames : Nat]
    /\ {track.written, track.appended, track.lastFrame, track.head,
        track.nfree} \subseteq Nat
    /\ MemLeft(track) \in 0 .. conf.memLimit
    /\ \A u \in Upstreams :
        /\ DOMAIN up[u] = DOMAIN NoUpstream
        /\ up[u].conn \in {"none", "connecting", "up"}
        /\ up[u].acked \in 0 .. Len(track.pkts)
        /\ {up[u].sent, up[u].pre, up[u].skew, up[u].reps} \subseteq Nat
    /\ ToSet(queue) \subseteq Upstreams /\ IsInjective(queue)
    /\ faults \in 0 .. conf.maxFaults

\* The buffer an upstream resumes from is still in the queue, so that
\* append_all frees no buffer that a new connection will send
\* (ngx_kmp_out_track_append_all, ngx_buf_queue_free).
ReaderRetained ==
    \A u \in ToSet(queue) : Readable(track, up[u])

\* What the acked readers parse is a packet in a buffer of the queue: no alert
\* of ack_packet, read_packet or ngx_buf_queue_free is raised.  Two are left
\* out, an end of stream that is parsed over by an upstream that does not wait
\* for acks, and a packet that ends a full buffer after a write error.
NoBadRead ==
    track.alerts \cap {"stale read", "bad packet", "limit not found"} = {}

\* A buffer that is written to is in the queue of the track, if the owner looks
\* at the state of the track before it writes (ngx_kmp_out_track_write_chain,
\* ngx_kmp_out_track_del_upstream).
BufferOwned ==
    "unchecked" \notin conf.writers => "released buffer" \notin track.alerts

\* The header of a frame is sent only after it was filled in (send_blocked).
\* A frame that is never completed is the exception, see HeaderHeld.
NoOpenHeaderSent == "open header sent" \notin track.alerts

\* ... nor before the owner of the track met an error (write_marker_end).
HeaderHeld == "open header sent" \in track.alerts => track.oerr

\* The first frame of a connection is the one its connect packet names
\* (send_buffered and append_all agree on where the chain starts).
StreamAligned == \A u \in Upstreams : up[u].conn = "up" => up[u].skew = 0

\* A connected upstream has acked nothing that was not sent on its connection.
AckedWasSent ==
    \A u \in ToSet(queue) : up[u].conn = "up" /\ up[u].skew = 0
        => End(track, up[u].acked) <= up[u].sent

\* A last_acked upstream forgets only frames that its receiver confirmed, unless
\* memory ran low (ack_frames, auto_ack).
OnlyConfirmedForgotten ==
    \A u \in ToSet(queue) :
        conf.resume[u] = "last_acked" /\ ~track.forced
            => Frames(track, up[u].acked) <= up[u].confirmed

\* The end of stream is the last packet of the log: no timer or handler writes
\* after detach.
EosIsLast ==
    \A k \in DOMAIN track.pkts : track.pkts[k].type = "eos"
                                    => k = Len(track.pkts)

\* Memory runs out on an active track with one upstream only as a last resort:
\* its connection may not be given up, since no new one can be asked for; or the
\* high watermark was used up, down to a part of a buffer, by what was written
\* after the last whole frame; or the log was damaged before (mem_watermark,
\* auto_ack).
MemoryLastResort ==
    [][\A u \in Upstreams :
        queue = <<u>> /\ track.cause # "memory" /\ track'.cause = "memory"
            => \/ up'[u].noRep \/ up'[u].reps >= conf.maxRepublishes
               \/ track'.written - track'.lastFrame
                        > (conf.highMark - 1) * BufSize
               \/ track'.alerts # {}]_vars

\* An error of an upstream that is not required is no error of the track, unless
\* it is the last one (ngx_kmp_out_track_send_all, ngx_kmp_out_upstream_error).
OptionalIgnored == track.cause # "optional"

\* The loss of a required upstream, or of the last one, reaches the owner of a
\* track that is still attached: it is told, or, when the management API deleted
\* the upstream, finds the track inactive (ngx_kmp_out_upstream_free_notify).
LossReported ==
    [][\A u \in ToSet(queue) \ ToSet(queue') :
        (conf.required[u] \/ queue' = << >>) /\ ~track'.detached
            => \/ track'.oerr
               \/ DelUpstream(u) /\ (queue' = << >> => track'.state = "inactive")
      ]_vars

\* An upstream that stays in the track never moves its resume point back.
ResumeForward ==
    [][\A u \in ToSet(queue) \cap ToSet(queue') :
            up[u].acked <= up'[u].acked]_vars

MaxPackets == Max({c.maxPackets : c \in Confs})

Reached(k, offset) == k \in DOMAIN track.pkts /\ End(track, k) <= offset

\* without a connection, nothing on the way to get one
Idle(u) == up[u].conn = "none" /\ ~up[u].call /\ ~up[u].timer

\* What is written reaches the peer of every upstream, unless the upstream is
\* given up.  A connection that breaks when all was sent on it is not replaced
\* until there is more to send, but then it is (append_buffer, republish).
Delivered ==
    \A u \in Upstreams : \A k \in 1 .. MaxPackets :
        (/\ u \in ToSet(queue) /\ k \in DOMAIN track.pkts
         /\ Idle(u) => ~Reached(k, track.appended))
        ~>
            \/ u \notin ToSet(queue)
            \/ up[u].acked >= k
            \/ up[u].conn = "up" /\ Reached(k, up[u].sent)

\* A track whose input closed is freed in the end, with all its upstreams
\* (ngx_kmp_out_track_detach, ngx_kmp_out_track_cleanup).
DetachedFreed == track.detached ~> track.freed

=============================================================================
