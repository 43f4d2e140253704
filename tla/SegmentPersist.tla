---------------------------- MODULE SegmentPersist ----------------------------
(***************************************************************************)
(* How the live server saves the segments of a channel (nginx-live-module: *)
(* ngx_live_segment_index.c, persist/, and what they need of the timelines *)
(* and of the segmenter), and when it acks the frames they are made of.    *)
(*                                                                         *)
(* Segments are put in buckets; when a bucket is complete its media is     *)
(* written, and when it and every bucket before it were written, an index  *)
(* of the segments up to there: a full one or, when it would differ little *)
(* from the last full one, a delta.  A snapshot made with each segment     *)
(* carries the ids of the frames to ack; it is handed from the segment to  *)
(* an earlier one that is still not written, to the write of the index, to *)
(* the snapshot that waits for that write.  Segments leave the memory when *)
(* their bucket is done, when no timeline needs them or when memory is low.*)
(* The server may stop and read everything back.                           *)
(*                                                                         *)
(* One timeline and one track; a frame is a segment, so that its id says   *)
(* how far the track is.  The memory of the channel is the record ch, which*)
(* the operators pass on in the order of the calls of the code.            *)
(***************************************************************************)
EXTENDS Integers, Sequences, FiniteSets, FiniteSetsExt, Functions

CONSTANTS
    BucketSize,     \* bucket_size, segments in a media file
    ForceMemory,    \* force_memory_segments
    MaxDelta,       \* max_delta_segments
    Window,         \* max_segments of the timeline
    MaxSegments,    \* bound: indexes used
    MaxEvents       \* bound: failures, restarts and orders of the user

ASSUME SegmentPersistAssumption ==
    /\ BucketSize \in Nat \ {0} /\ Window \in Nat \ {0}
    /\ ForceMemory \in Nat /\ MaxDelta \in Nat
    /\ MaxSegments \in Nat /\ MaxEvents \in Nat

VARIABLES
    ch,         \* the channel, in memory
    active,     \* channel->active
    store,      \* the files in storage
    calls,      \* the requests storage was sent and did not answer
    seg         \* history: seg[k] tells how segment k was made

vars == <<ch, active, store, calls, seg>>

None == << >>
Some(x) == <<x>>
Bigger(a, b) == IF a > b THEN a ELSE b
\* mutant: not aligned
RoundUpNot(n) == n

\* ngx_round_up_to_multiple, of the index that is next
RoundUp(n) == ((n + BucketSize - 1) \div BucketSize) * BucketSize

BucketOf(k) == k \div BucketSize
Oldest(S, j) == {k \in S : Cardinality({i \in S : i <= k}) <= j}
Newest(S, j) == {k \in S : Cardinality({i \in S : i >= k}) <= j}

\* the tracks of a snapshot: unknown until the segment is ready
NoFrames == [set |-> FALSE, conn |-> 0, id |-> 0]

\* a channel that was just created
NewChannel ==
    [next       |-> 0,      \* next_segment_index
     min        |-> 0,      \* min_segment_index
     connected  |-> FALSE,  \* track->input # NULL
     conn       |-> 0,      \* connection->number
     frames     |-> 0,      \* track->next_frame_id
     acked      |-> 0,      \* what the publisher was told
     snapshots  |-> 0,
     idx        |-> << >>,  \* the segment indexes, by key
     lastReady  |-> -1,     \* last_ready_index
     noFree     |-> FALSE,  \* no_free
     lastBucket |-> -1,     \* last_bucket_id
     media      |-> {},     \* media files that are being written
     iw         |-> None,   \* write_ctx, frames_snap
     pend       |-> None,   \* pending
     success    |-> 0,      \* success_index
     changed    |-> 0,      \* history_changed
     tl         |-> {},     \* segments of the timeline
     trunc      |-> 0,      \* truncate, of the timelines
     cut        |-> 0,      \* the local variable truncate of the callers of free
     fail       |-> {},     \* what cannot be started in this step
     \* history
     events   |-> 0,        \* failures and orders so far
     pub      |-> 0,        \* the publisher
     hist     |-> 0,        \* version of the past segments
     excused  |-> -1,       \* no segment up to here is promised any more
     early    |-> -1,       \* acked with an index that left the memory
     unsaved  |-> {},       \* segments whose media was not written
     health   |-> "new"]    \* how the last writes of the index ended

-----------------------------------------------------------------------------
(* Acks and snapshots *)

\* ngx_kmp_in_ack_frames
Ack(c, n) == [c EXCEPT !.acked = IF c.connected /\ n > @ THEN n ELSE @]

\* mutant: the connection is not compared
FramesCloseAny(c, f, acks) ==
    IF acks /\ f.set
    THEN Ack([c EXCEPT !.snapshots = @ - 1], f.id)
    ELSE [c EXCEPT !.snapshots = @ - 1]

\* ngx_live_persist_snap_frames_close
FramesClose(c, f, acks) ==
    IF acks /\ f.set /\ c.connected /\ f.conn = c.conn
    THEN Ack([c EXCEPT !.snapshots = @ - 1], f.id)
    ELSE [c EXCEPT !.snapshots = @ - 1]

\* mutant: the snapshot that is replaced is not closed
SnapAckLeak(c, s) ==
    IF c.pend # None THEN [c EXCEPT !.pend[1].frames = s.frames]
    ELSE IF c.iw # None THEN [c EXCEPT !.iw[1].frames = s.frames]
    ELSE FramesClose(c, s.frames, TRUE)

\* snap_close with close_ack: the frames are acked after the last index
\* write that is known
SnapAck(c, s) ==
    IF c.pend # None
    THEN [FramesClose(c, c.pend[1].frames, FALSE)
            EXCEPT !.pend[1].frames = s.frames]
    ELSE IF c.iw # None
    THEN [FramesClose(c, c.iw[1].frames, FALSE)
            EXCEPT !.iw[1].frames = s.frames]
    ELSE FramesClose(c, s.frames, TRUE)

\* history: an index or a delta was not written
Failed(h, file) ==
    IF h = "stale" THEN h
    ELSE IF file = "index" \/ h \in {"index", "masked", "new"} THEN "index"
    ELSE "delta"

\* history: it was; a delta does not make up for an index
Written(h, file) ==
    IF h = "stale" THEN h
    ELSE IF file = "index" \/ h = "delta" THEN "ok"
    ELSE IF h \in {"index", "new"} THEN "masked" ELSE h

\* history: a delta that is left over may fit an index that comes later
Reread(h, st, max) ==
    IF h = "stale" \/ (st.delta # None /\ st.delta[1].min > max + 1)
    THEN "stale"
    ELSE IF st.index = None THEN "new" ELSE "ok"

\* the delta file is written, not the index
DeltaFits(c, s) ==
    /\ s.max - c.min + 1 > MaxDelta
    /\ s.max - c.success <= MaxDelta
    /\ c.changed = 0

\* write_file of an index, of the segments lo .. s.max.  The segments are
\* those the timeline has now.
WriteIndex(c, s, file, lo) ==
    IF "index" \in c.fail
    THEN FramesClose([c EXCEPT !.health = Failed(@, file)], s.frames, TRUE)
    ELSE [c EXCEPT !.iw = Some(
            [file |-> file, min |-> lo, max |-> s.max, frames |-> s.frames,
             tl |-> {k \in c.tl : lo <= k /\ k <= s.max},
             trunc |-> s.trunc, next |-> s.next,
             hist |-> IF file = "index" THEN c.hist ELSE 0])]

\* mutant: history_changed is cleared before it is looked at
SnapWriteClears(c, s) ==
    LET cleared == [c EXCEPT !.changed = IF s.max >= @ THEN 0 ELSE @]
    IN  IF c.iw # None
        THEN [IF c.pend # None THEN FramesClose(c, c.pend[1].frames, FALSE)
              ELSE c EXCEPT !.pend = Some(s)]
        ELSE IF s.max < c.min THEN FramesClose(c, s.frames, TRUE)
        ELSE IF DeltaFits(cleared, s)
        THEN WriteIndex(cleared, s, "delta", c.success + 1)
        ELSE WriteIndex(cleared, s, "index", c.min)

\* snap_close with close_write
SnapWrite(c, s) ==
    IF c.iw # None
    THEN [IF c.pend # None THEN FramesClose(c, c.pend[1].frames, FALSE) ELSE c
            EXCEPT !.pend = Some(s)]
    ELSE IF s.max < c.min THEN FramesClose(c, s.frames, TRUE)
    ELSE IF DeltaFits(c, s) THEN WriteIndex(c, s, "delta", c.success + 1)
    ELSE WriteIndex([c EXCEPT !.changed = IF s.max >= @ THEN 0 ELSE @],
                    s, "index", c.min)

-----------------------------------------------------------------------------
(* Segment indexes *)

InFlight(c, k) == \E w \in c.media : w.at = k

Kept(c) == {k \in DOMAIN c.idx : ~c.idx[k].free}
Pending(c) == {k \in DOMAIN c.idx : c.idx[k].persist = "none"}

\* mutant: the write of the media is not looked at
IndexRemoveNow(c, k, snap) ==
    LET closed == IF snap = None THEN c ELSE SnapAck(c, snap[1])
    IN  [closed EXCEPT !.idx = Restrict(@, DOMAIN @ \ {k})]

\* free, once the segment left the cache: the snapshot is acked, and the
\* index removed unless its media is being written
IndexRemove(c, k, snap) ==
    LET closed == IF snap = None THEN c ELSE SnapAck(c, snap[1])
    IN  IF InFlight(c, k) THEN closed
        ELSE [closed EXCEPT !.idx = Restrict(@, DOMAIN @ \ {k})]

\* ngx_live_segment_index_free
IndexFree(c, k) ==
    LET x == c.idx[k]
        lost == ~x.free /\ x.persist # "ok"
        past == x.snap # None /\ x.snap[1].max > k
    IN  IF c.noFree THEN c
        ELSE IndexRemove(
            [c EXCEPT
                !.idx[k].free = TRUE,
                !.idx[k].snap = None,
                !.cut = IF lost THEN k ELSE @,
                !.unsaved = IF lost THEN @ \cup {k} ELSE @,
                !.early = IF past THEN Bigger(@, x.snap[1].max) ELSE @],
            k, x.snap)

\* Op on the indexes K that are below n, the oldest first
InOrder(Op(_, _), c, K, n) ==
    LET upTo[m \in 0 .. n] ==
            IF m = 0 THEN c
            ELSE IF m - 1 \in K THEN Op(upTo[m - 1], m - 1)
            ELSE upTo[m - 1]
    IN  upTo[n]

FreeEach(c, K) == InOrder(IndexFree, [c EXCEPT !.cut = 0], K, c.next + 1)

\* ngx_live_timelines_truncate, of what the callers of free found unsaved
Truncated(c) ==
    IF c.cut = 0 THEN c
    ELSE [c EXCEPT !.trunc = c.cut, !.cut = 0,
                   !.tl = {k \in @ : k > c.cut},
                   !.excused = Bigger(@, c.cut)]

\* ngx_live_segment_index_free_non_forced
FreeNonForced(c) ==
    IF c.lastReady < ForceMemory THEN c
    ELSE Truncated(FreeEach(c, {k \in DOMAIN c.idx \ Pending(c) :
                                    k <= c.lastReady - ForceMemory}))

\* mutant: the index is written though an earlier bucket is not
SnapPassedOn(c, s, before, hi, ok) ==
    IF ~ok /\ s.max < hi
    THEN [SnapAck(c, s) EXCEPT !.excused = Bigger(@, s.max)]
    ELSE SnapWrite(c, s)

\* the end of ngx_live_segment_index_persisted: what becomes of the last
\* snapshot of the bucket
SnapPassed(c, s, before, hi, ok) ==
    IF ~ok /\ s.max < hi
    THEN [SnapAck(c, s) EXCEPT !.excused = Bigger(@, s.max)]
    ELSE IF before = {} THEN SnapWrite(c, s)
    ELSE LET k == Max(before)
         IN  [IF c.idx[k].snap # None
              THEN FramesClose(c, c.idx[k].snap[1].frames, FALSE) ELSE c
                EXCEPT !.idx[k].snap = Some(s)]

\* the indexes K move to the queue done; only the last snapshot is kept
MoveToDone(c, K, snaps, ok) ==
    [c EXCEPT
        !.idx = [k \in DOMAIN @ |->
                    IF k \in K
                    THEN [c.idx[k] EXCEPT !.snap = None,
                            !.persist = IF ok THEN "ok" ELSE "error"]
                    ELSE c.idx[k]],
        !.snapshots = IF snaps = {} THEN @ ELSE @ - (Cardinality(snaps) - 1),
        !.unsaved = IF ok THEN @ ELSE @ \cup K]

PersistedKeys(c, K, hi, ok) ==
    LET snaps == {k \in K : c.idx[k].snap # None}
        before == {k \in Pending(c) : k < Min(K)}
    IN  IF snaps = {} THEN FreeNonForced(MoveToDone(c, K, snaps, ok))
        ELSE SnapPassed(FreeNonForced(MoveToDone(c, K, snaps, ok)),
                        c.idx[Max(snaps)].snap[1], before, hi, ok)

\* ngx_live_segment_index_persisted; what it logs as an alert is ignored
Persisted(c, b, ok) ==
    LET lo == b * BucketSize
        hi == lo + BucketSize
        after == {k \in DOMAIN c.idx : k >= lo}
    IN  IF after = {} \/ ~(Min(after) < hi) \/ ~(Min(after) \in Pending(c))
        THEN c
        ELSE PersistedKeys(c, {k \in after : k < hi}, hi, ok)

\* ngx_live_persist_media_write_file
MediaWrite(c, b) ==
    LET segs == {k \in Kept(c) : BucketOf(k) = b}
    IN  IF "media" \in c.fail \/ segs = {} THEN Persisted(c, b, FALSE)
        ELSE [c EXCEPT !.media =
                @ \cup {[bucket |-> b, at |-> Min(segs), segs |-> segs]}]

\* mutant: the bucket is forgotten when the channel becomes inactive
LastBucketLost(c) == [c EXCEPT !.lastBucket = -1]

LastBucketWritten(c) ==
    IF c.lastBucket = -1 THEN c
    ELSE [MediaWrite(c, c.lastBucket) EXCEPT !.lastBucket = -1]

-----------------------------------------------------------------------------
(* A new segment *)

\* the timeline without the segments that are too old.  A segment that no
\* timeline needs is freed.
TimelineKeeps(c, S) ==
    LET min == IF S = {} THEN c.next ELSE Min(S)
        d == [c EXCEPT !.tl = S, !.min = min,
                       !.excused = Bigger(@, min - 1)]
    IN  [FreeEach(d, {k \in DOMAIN d.idx : k < min}) EXCEPT !.cut = 0]

\* ngx_live_segment_index_create, create_snap
IndexCreate(c) ==
    LET snap == [max |-> c.next, frames |-> NoFrames, trunc |-> c.trunc,
                 next |-> 0]
        new == [persist |-> "none", snap |-> Some(snap), free |-> FALSE]
    IN  [c EXCEPT
            !.idx = [k \in DOMAIN @ \cup {c.next} |->
                        IF k = c.next THEN new ELSE @[k]],
            !.snapshots = @ + 1]

\* snap_update: the frames of the segment are those before next_frame_id
SnapUpdate(c) ==
    [c EXCEPT !.idx[c.next].snap[1].next = c.frames,
              !.idx[c.next].snap[1].frames =
                [set |-> TRUE, conn |-> IF c.connected THEN c.conn ELSE 0,
                 id |-> c.frames]]

\* mutant: the snapshots that are left are not looked at
AckFramesAlways(c) == Ack(c, c.frames)

\* ngx_live_channel_ack_frames, when no snapshot is left
AckFramesIdle(c) == IF c.snapshots <= 0 THEN Ack(c, c.frames) ELSE c

\* ngx_live_persist_media_write_segment_created
SegmentCreated(c, exists) ==
    LET b == BucketOf(c.next)
        d == IF c.lastBucket # b THEN LastBucketWritten(c) ELSE c
    IN  IF (c.next + 1) % BucketSize # 0
        THEN [d EXCEPT !.lastBucket = IF exists THEN b ELSE @]
        ELSE IF exists \/ d.lastBucket # -1
        THEN [MediaWrite(d, b) EXCEPT !.lastBucket = -1]
        ELSE d

\* ngx_live_segment_index_ready
IndexReady(c, exists) ==
    LET d == [c EXCEPT !.lastReady = c.next]
    IN  SegmentCreated(
            AckFramesIdle(FreeNonForced(
                IF exists THEN SnapUpdate(d)
                ELSE [IndexFree(d, d.next) EXCEPT !.cut = 0])),
            exists)

Done(c) == [c EXCEPT !.fail = {}, !.noFree = FALSE]

\* what the environment does is counted
Event(c) == [c EXCEPT !.events = @ + 1]

\* F: what cannot be started in this step
Failing(c, F) == IF F = {} THEN c ELSE [Event(c) EXCEPT !.fail = F]
CanFail(n) == {F \in SUBSET {"media", "index"} :
                    F = {} \/ ch.events + n < MaxEvents}

-----------------------------------------------------------------------------
(* Actions *)

CallsOf(c) ==
    {<<"media", w.bucket>> : w \in c.media}
        \cup {<<"index", c.iw[i].max>> : i \in DOMAIN c.iw}

Init ==
    /\ ch = NewChannel /\ active = FALSE /\ calls = {}
    /\ store = [media |-> {}, index |-> None, delta |-> None]
    /\ seg = << >>

\* the publisher connects.  One that resumes continues after what was acked
\* to it; frames the track has are skipped.
Connect ==
    /\ ~ch.connected /\ ch.conn < MaxEvents + 2
    /\ ch' = [ch EXCEPT !.connected = TRUE, !.conn = @ + 1,
                        !.frames = Bigger(@, ch.acked)]
    /\ UNCHANGED <<active, store, calls, seg>>

\* or there is more to skip than max_skip_frames: the track starts again
\* where the connection does (ngx_live_segmenter_start_stream).  It may be
\* another publisher.
ConnectBack(fresh) ==
    /\ ~ch.connected /\ ch.conn < MaxEvents + 2 /\ ch.events < MaxEvents
    /\ ch.frames > ch.acked \/ fresh
    /\ LET from == IF fresh THEN 0 ELSE ch.acked
       IN ch' = [Event(ch) EXCEPT !.connected = TRUE, !.conn = @ + 1,
                    !.frames = from, !.acked = from,
                    !.pub = IF fresh THEN @ + 1 ELSE @]
    /\ UNCHANGED <<active, store, calls, seg>>

Disconnect ==
    /\ ch.connected /\ ch.events < MaxEvents
    /\ ch' = [Event(ch) EXCEPT !.connected = FALSE]
    /\ UNCHANGED <<active, store, calls, seg>>

\* a frame is added to a track that was inactive
\* (ngx_live_segmenter_add_frame)
Activate ==
    /\ ch.connected /\ ~active /\ ch.next < MaxSegments
    /\ active' = TRUE
    /\ UNCHANGED <<ch, store, calls, seg>>

\* a segment is created, and all that happens with it
\* (ngx_live_segmenter_create_segments, ngx_live_timelines_add_segment,
\* ngx_live_segment_index_create_ready).  When no timeline is active, it does
\* not exist, and the timeline may lose j of its segments by their age.
CreateSegment(exists, j, F) ==
    /\ active /\ ch.next < MaxSegments
    /\ F \in CanFail(IF exists THEN 0 ELSE 1)
    /\ exists => j = 0
    /\ ~exists => ch.events < MaxEvents /\ j <= Cardinality(ch.tl)
    /\ LET framed == [IF exists THEN ch ELSE Event(ch) EXCEPT !.frames = @ + 1]
           tl == IF exists THEN Newest(ch.tl \cup {ch.next}, Window)
                 ELSE ch.tl \ Oldest(ch.tl, j)
       IN  /\ ch' = [Done(IndexReady(IndexCreate(
                            TimelineKeeps(Failing(framed, F), tl)), exists))
                        EXCEPT !.next = @ + 1]
           /\ seg' = [k \in DOMAIN seg \cup {ch.next} |->
                        IF k = ch.next
                        THEN [pub |-> ch.pub, id |-> framed.frames,
                              exists |-> exists,
                              conn |-> IF ch.connected THEN ch.conn ELSE 0]
                        ELSE seg[k]]
    /\ calls' = CallsOf(ch')
    /\ UNCHANGED <<active, store>>

\* frames are dropped before they are in a segment
\* (ngx_live_segmenter_remove_frames)
DisposeFrames ==
    /\ ch.connected /\ ch.events < MaxEvents
    /\ ch' = AckFramesIdle([Event(ch) EXCEPT !.frames = @ + 1])
    /\ UNCHANGED <<active, store, calls, seg>>

\* mutant: the bucket that was left goes on
ChannelInactiveUnaligned(F) ==
    /\ active /\ F \in CanFail(0)
    /\ active' = FALSE
    /\ ch' = Done(LastBucketWritten(Failing(ch, F)))
    /\ calls' = CallsOf(ch')
    /\ UNCHANGED <<store, seg>>

\* all tracks are idle: ngx_live_segmenter_channel_inactive,
\* ngx_live_persist_media_channel_inactive
ChannelInactive(F) ==
    /\ active /\ F \in CanFail(0)
    /\ active' = FALSE
    /\ ch' = [Done(LastBucketWritten(Failing(ch, F))) EXCEPT
                !.next = RoundUp(@)]
    /\ calls' = CallsOf(ch')
    /\ UNCHANGED <<store, seg>>

\* the timeline of a channel that is inactive loses segments by their age
\* (ngx_live_timelines_cleanup)
TimelinesCleanup(j) ==
    /\ ~active /\ ch.events < MaxEvents
    /\ j \in 1 .. Cardinality(ch.tl)
    /\ ch' = Done(TimelineKeeps(Event(ch), ch.tl \ Oldest(ch.tl, j)))
    /\ calls' = CallsOf(ch')
    /\ UNCHANGED <<active, store, seg>>

\* the past was edited (ngx_live_persist_index_channel_history_changed)
HistoryChanged ==
    /\ ch.tl # {} /\ ch.events < MaxEvents
    /\ ch' = [Event(ch) EXCEPT !.changed = ch.next, !.hist = @ + 1]
    /\ UNCHANGED <<active, store, calls, seg>>

\* memory is low: the handlers of one index (ngx_live_segment_index_cleanup)
CancelMedia(c, k) ==
    IF InFlight(c, k)
    THEN LET w == CHOOSE w \in c.media : w.at = k
         IN Persisted([c EXCEPT !.media = @ \ {w}], w.bucket, FALSE)
    ELSE c

WatermarkOne(c, k) ==
    IndexFree([CancelMedia([c EXCEPT !.noFree = TRUE], k)
                    EXCEPT !.noFree = FALSE], k)

\* ngx_live_segment_index_watermark, when n indexes have to go
Watermark(n, F) ==
    /\ ch.events < MaxEvents /\ F \in CanFail(1)
    /\ n \in 1 .. Cardinality({k \in DOMAIN ch.idx : k < ch.next})
    /\ ch' = Done(Truncated(InOrder(WatermarkOne, Failing(Event(ch), F),
                                    Oldest(DOMAIN ch.idx, n), ch.next)))
    /\ calls' = CallsOf(ch')
    /\ UNCHANGED <<active, store, seg>>

\* the media of a bucket was written, or not
\* (ngx_live_persist_media_write_complete)
MediaDone(w, ok, F) ==
    /\ w \in ch.media
    /\ F \in CanFail(IF ok THEN 0 ELSE 1)
    /\ ~ok => ch.events < MaxEvents
    /\ ch' = Done(Persisted(
                [Failing(IF ok THEN ch ELSE Event(ch), F)
                    EXCEPT !.media = @ \ {w}], w.bucket, ok))
    /\ store' = IF ok THEN [store EXCEPT !.media =
                        {k \in @ : BucketOf(k) # w.bucket} \cup w.segs]
                ELSE store
    /\ calls' = CallsOf(ch')
    /\ UNCHANGED <<active, seg>>

Put(st, w) == IF w.file = "index" THEN [st EXCEPT !.index = Some(w)]
              ELSE [st EXCEPT !.delta = Some(w)]

\* mutant: a delta moves success_index too
SuccessAny(c, w, ok) == IF ok THEN w.max ELSE c.success

\* success_index: how far the last full index goes
Success(c, w, ok) == IF ok /\ w.file = "index" THEN w.max ELSE c.success

\* an index was written; when it was not as far as the server knows, it may
\* still be in storage (ngx_live_persist_index_write_complete)
IndexDone(ok, there, F) ==
    /\ ch.iw # None
    /\ F \in CanFail(IF ok THEN 0 ELSE 1)
    /\ ok => there
    /\ ~ok => ch.events < MaxEvents
    /\ LET w == ch.iw[1]
           acked == [FramesClose(Failing(IF ok THEN ch ELSE Event(ch), F),
                                 w.frames, TRUE) EXCEPT
                        !.iw = None, !.pend = None,
                        !.health = IF ok THEN Written(@, w.file)
                                   ELSE Failed(@, w.file),
                        !.success = Success(ch, w, ok)]
       IN  /\ ch' = Done(IF ch.pend = None THEN acked
                         ELSE SnapWrite(acked, ch.pend[1]))
           /\ store' = IF there
                       THEN Put(store, [w EXCEPT !.frames = NoFrames])
                       ELSE store
    /\ calls' = CallsOf(ch')
    /\ UNCHANGED <<active, seg>>

\* the delta goes on where the index ends
DeltaCounts(st) ==
    st.delta # None /\ st.delta[1].min = st.index[1].max + 1

\* what a restart reads back (ngx_live_persist_index_read_channel, the
\* timelines and the tracks)
Recovered(st) ==
    IF st.index = None THEN [max |-> -1, success |-> 0, next |-> 0,
                             tl |-> {}, trunc |-> 0, hist |-> 0]
    ELSE LET i == st.index[1]
             d == IF DeltaCounts(st) THEN st.delta[1] ELSE i
         IN  [max |-> d.max, success |-> i.max, next |-> d.next,
              tl |-> {k \in i.tl : d.trunc = 0 \/ k > d.trunc} \cup d.tl,
              trunc |-> d.trunc, hist |-> i.hist]

\* the server stops.  The writes on their way may still arrive.  It starts
\* and reads the files; the timeline may lose segments by their age
\* (ngx_live_persist_core_read_handler).  Segments that are not read back
\* did not happen, the publisher keeps its frames.
Restart(M, there, j) ==
    /\ ch.events < MaxEvents
    /\ M \subseteq ch.media
    /\ there => ch.iw # None
    /\ LET put == IF there
                  THEN Put(store, [ch.iw[1] EXCEPT !.frames = NoFrames])
                  ELSE store
           r == Recovered(put)
           media == {k \in store.media : \A w \in M : w.bucket # BucketOf(k)}
                        \cup UNION {w.segs : w \in M}
           tl == r.tl \ Oldest(r.tl, j)
           min == IF tl = {} THEN r.max + 1 ELSE Min(tl)
       IN  /\ j \in 0 .. Cardinality(r.tl)
           /\ active' = FALSE /\ calls' = {}
           /\ ch' = [NewChannel EXCEPT
                !.next = RoundUp(r.max + 1), !.min = min, !.tl = tl,
                !.frames = r.next, !.success = r.success, !.trunc = r.trunc,
                !.conn = ch.conn, !.acked = ch.acked,
                !.events = ch.events + 1, !.pub = ch.pub, !.hist = r.hist,
                !.excused = Bigger(IF ch.excused > r.max THEN r.max
                                   ELSE ch.excused, min - 1),
                !.unsaved = {k \in ch.unsaved : k <= r.max},
                !.health = Reread(ch.health, put, r.max)]
           /\ store' = [put EXCEPT !.media = {k \in media : k <= r.max}]
           /\ seg' = [k \in {i \in DOMAIN seg : i <= r.max} |-> seg[k]]

Next ==
    \/ Connect \/ Disconnect \/ Activate \/ DisposeFrames \/ HistoryChanged
    \/ \E fresh \in BOOLEAN : ConnectBack(fresh)
    \/ \E exists \in BOOLEAN, j \in 0 .. Window, F \in CanFail(0) :
            CreateSegment(exists, j, F)
    \/ \E F \in CanFail(0) : ChannelInactive(F)
    \/ \E j \in 1 .. Window : TimelinesCleanup(j)
    \/ \E n \in 1 .. MaxSegments, F \in CanFail(0) : Watermark(n, F)
    \/ \E w \in ch.media, ok \in BOOLEAN, F \in CanFail(0) :
            MediaDone(w, ok, F)
    \/ \E ok, there \in BOOLEAN, F \in CanFail(0) : IndexDone(ok, there, F)
    \/ \E M \in SUBSET ch.media, there \in BOOLEAN, j \in 0 .. MaxSegments :
            Restart(M, there, j)

Spec == Init /\ [][Next]_vars

\* a request is answered; that may let one more be sent
CallEnds(x) ==
    /\ x \in calls
    /\ \E new \in {{}} \cup {{<<"index", m>>} : m \in 0 .. MaxSegments} :
        calls' = (calls \ {x}) \cup new

\* Storage answers, and a channel that gets no frames becomes inactive.
FairSpec ==
    /\ Spec
    /\ \A b \in 0 .. BucketOf(MaxSegments) : WF_calls(CallEnds(<<"media", b>>))
    /\ \A m \in 0 .. MaxSegments : WF_calls(CallEnds(<<"index", m>>))
    /\ WF_active(active /\ active' = FALSE)

-----------------------------------------------------------------------------
(* Properties *)

Keys == 0 .. RoundUp(MaxSegments)
Frames == [set : BOOLEAN, conn : Nat, id : Nat]
Snaps == [max : Keys, frames : Frames, trunc : Keys, next : Nat]
Files == [file : {"index", "delta"}, min : Keys, max : Keys, frames : Frames,
          tl : SUBSET Keys, trunc : Keys, next : Nat, hist : Nat]

\* The shape of the state; an index that left the cache has no snapshot, and
\* the writes are of indexes that are still there.
TypeOK ==
    /\ ch.next \in Keys /\ ch.min \in Keys
    /\ ch.tl \subseteq 0 .. ch.next - 1
    /\ \A k \in DOMAIN ch.idx :
        /\ k < ch.next
        /\ ch.idx[k].persist \in {"none", "ok", "error"}
        /\ ch.idx[k].snap = None \/ ch.idx[k].snap[1] \in Snaps
        /\ ch.idx[k].free => ch.idx[k].snap = None \/ ch.idx[k].snap[1].max > k
    /\ \A w \in ch.media : w.at \in DOMAIN ch.idx /\ w.at \in w.segs
    /\ ch.iw = None \/ ch.iw[1] \in Files
    /\ ch.pend = None \/ ch.pend[1] \in Snaps
    /\ ch.pend # None => ch.iw # None
    /\ ch.lastReady < ch.next
    /\ ch.lastBucket \in {-1, BucketOf(ch.next)}

\* The count of snapshots is that of the snapshots that are held: it is
\* what lets frames be acked that no snapshot covers.
SnapCount ==
    ch.snapshots =
        Cardinality({k \in DOMAIN ch.idx : ch.idx[k].snap # None})
            + Len(ch.iw) + Len(ch.pend)

\* What the index names.
Named == Recovered(store).tl

Saved(k) == k \in Named /\ k \in store.media

\* A segment that was acked, that the timeline still has to have, and the
\* media of which was written.
Promised(k) ==
    /\ seg[k].exists /\ seg[k].pub = ch.pub
    /\ seg[k].id <= ch.acked
    /\ k > ch.excused /\ k \notin ch.unsaved

\* A segment whose frames were acked is read back after a crash, whatever
\* order the writes of media and of the index end in; not one that the index
\* was left out of by an error, or that was acked by an older index.
AckedSaved ==
    ch.health \in {"new", "ok"} =>
        \A k \in DOMAIN seg : Promised(k) /\ k > ch.early => Saved(k)

\* The same of segments that were acked by an older index when that left the
\* memory: not so.
AckedByOld ==
    ch.health \in {"new", "ok"} =>
        \A k \in DOMAIN seg : Promised(k) => Saved(k)

\* The same when the full index could not be written but a delta was since:
\* not so.
AckedByDelta ==
    ch.health \in {"new", "ok", "masked"} =>
        \A k \in DOMAIN seg : Promised(k) /\ k > ch.early => Saved(k)

\* Every segment that would be read back has its media in storage, unless
\* the write of the media was given up.
NoDangling ==
    ch.health # "stale" =>
        \A k \in Named : k \in store.media \/ k \in ch.unsaved

\* An index is written of segments only whose media was, or is given up.
IndexAfterMedia ==
    \A f \in {ch.iw, ch.pend} : f # None =>
        \A k \in Pending(ch) : k > f[1].max \/ k < ch.min

\* No frame is acked that the track did not get from this publisher.
AckedReceived == ch.connected => ch.acked <= ch.frames

\* When nothing is left to do, storage has the past as it was last edited.
HistoryKept ==
    (ch.changed = 0 /\ ch.iw = None /\ ch.health = "ok") =>
        store.index = None \/ store.index[1].hist = ch.hist

\* A bucket is written once: the second write would replace the first.
MediaOnce ==
    \A w \in ch.media : \A k \in store.media : BucketOf(k) # w.bucket

\* What would be read back never ends earlier than before, unless a delta is
\* left over from before a restart that found no index.
StoredForward ==
    [][ch.health # "stale" =>
            Recovered(store).max <= Recovered(store)'.max]_vars

Acked(k) == k \in DOMAIN seg /\ ch.acked >= seg[k].id

\* a segment of the connection that lasts
Expected(k) ==
    /\ k \in DOMAIN seg /\ k \notin ch.unsaved
    /\ seg[k].exists /\ seg[k].pub = ch.pub
    /\ ch.connected /\ seg[k].conn = ch.conn

\* When storage answers and the channel is idle or goes on, the frames of a
\* segment whose media is not given up are acked in the end, if the
\* connection lasts; unless a segment that does not exist came after it, the
\* snapshot of which has no frames and may take the place of another.
AckedInTheEnd ==
    \A k \in 0 .. MaxSegments - 1 :
        Expected(k) ~> \/ ~Expected(k) \/ Acked(k)
                       \/ \E i \in DOMAIN seg : i > k /\ ~seg[i].exists
=============================================================================
