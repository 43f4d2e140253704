------------------------------- MODULE InputBufs -------------------------------
(***************************************************************************)
(* The memory that holds the media of a channel: the buffers of each track *)
(* (nginx-live-module ngx_live_input_bufs.c), the segments that point into *)
(* them (ngx_live_segment_cache.c), and what else does: frames that are    *)
(* not in a segment yet, the packet that is being received, requests that  *)
(* send or save a segment, and the channels that use this one as a filler. *)
(*                                                                         *)
(* A buffer is the number of the block of the log it was filled with, and  *)
(* a piece of media is the blocks it lies in, from..to.  The queue of      *)
(* buffers is then the window first..last (LogWindow, which BufQueue       *)
(* implements): releasing up to a position moves first.  How much memory   *)
(* the queue is charged for is in BufQueue.                                *)
(***************************************************************************)
EXTENDS Integers, Sequences, FiniteSets

CONSTANTS
    Tracks,     \* the tracks of the channel
    Fillers,    \* tracks of channels that use this one as a filler
    Requests,   \* requests that read media
    Others,     \* the channel has more tracks, of which nothing else is modelled
    None,
    MaxBlocks,  \* bound: buffers a track gets
    MaxFrames,  \* bound: frames of a track that wait
    MaxIndex    \* bound: segments

ASSUME InputBufsAssumption ==
    /\ MaxBlocks \in Nat /\ MaxFrames \in Nat /\ MaxIndex \in Nat
    /\ IsFiniteSet(Requests) /\ IsFiniteSet(Fillers)
    /\ Others \in BOOLEAN
    /\ None \notin Tracks

VARIABLES
    live,       \* tracks that are not deleted
    bufs,       \* bufs[t]: the ngx_live_input_bufs_t that track t created
    active,     \* tracks whose connection has a buffer to read into
    packet,     \* packet[t]: block its packet started in, 0 if there is none
    frames,     \* frames[t]: frames that are not in a segment, oldest first
    lastData,   \* lastData[t]: last_data_ptr, 0 before the first frame
    segs,       \* segs[t]: the segments in the cache
    next,       \* channel->next_segment_index
    low,        \* memory is low: the watermark handler runs
    req,        \* req[r]: what a request reads and holds
    copy        \* copy[f]: what a filler track copied

vars == <<live, bufs, active, packet, frames, lastData, segs, next, low, req,
          copy>>

input == <<active, packet, frames, lastData>>

\* a lock: held for n requests, from a position of the first of them on
NewLock(i, at) == [index |-> i, at |-> at, n |-> 1]

NewBufs ==
    [refs     |-> 1,      \* ref_count: tracks that point here, and locks
     locks    |-> {},
     minIndex |-> 0,      \* min_segment_index, min_ptr: the first segment
     minAt    |-> 0,      \*   that is needed, and where it starts
     whole    |-> FALSE,  \* no_partial_free
     first    |-> 1,      \* the window
     last     |-> 0]

NoReq == [on |-> None, reg |-> -1, lock |-> 0, from |-> 0, to |-> 0]

NoCopy == [on |-> None, from |-> 0, to |-> 0]

Init ==
    /\ live = Tracks
    /\ bufs = [t \in Tracks |-> NewBufs]
    /\ active = {}
    /\ packet = [t \in Tracks |-> 0]
    /\ frames = [t \in Tracks |-> << >>]
    /\ lastData = [t \in Tracks |-> 0]
    /\ segs = [t \in Tracks |-> {}]
    /\ next = 0
    /\ low = FALSE
    /\ req = [r \in Requests |-> NoReq]
    /\ copy = [f \in Fillers |-> NoCopy]

-----------------------------------------------------------------------------
(* ngx_live_input_bufs_t *)

First(S) == CHOOSE x \in S : \A y \in S : x.index <= y.index
Last(S) == CHOOSE x \in S : \A y \in S : x.index >= y.index

\* ngx_buf_queue_free; a limit that is not in the queue frees all buffers but
\* the last
FreeUpTo(b, at) ==
    IF b.first > b.last THEN b
    ELSE [b EXCEPT !.first = IF at \in b.first .. b.last THEN at ELSE b.last]

\* mutant: locks are not considered
LimitUnlocked(b) == b.minAt

\* the first position that is needed: that of the first segment, or of a lock
\* on an earlier one
Limit(b) ==
    IF b.locks # {} /\ First(b.locks).index < b.minIndex
    THEN First(b.locks).at ELSE b.minAt

\* ngx_live_input_bufs_free_bufs
FreeBufs(b) ==
    IF b.whole \/ b.minIndex = 0 THEN b ELSE FreeUpTo(b, Limit(b))

\* mutant: what was held for a lock that goes stays
UnrefLate(b, n) ==
    LET c == [b EXCEPT !.refs = @ - n]
    IN  IF c.refs > 0 \/ c.locks # {} THEN c
        ELSE [c EXCEPT !.first = c.last + 1]

\* ngx_live_input_bufs_free, by n of those who refer to it
Unref(b, n) ==
    LET c == [b EXCEPT !.refs = @ - n]
    IN  IF c.refs > 0 THEN FreeBufs(c)
        ELSE IF c.locks # {} THEN c
        ELSE [c EXCEPT !.first = c.last + 1]

\* the lock ngx_live_input_bufs_lock finds for segment i: with no partial
\* free, any will do
Found(b, i) ==
    IF b.whole THEN b.locks # {} ELSE \E l \in b.locks : l.index = i

LockOf(b, i) ==
    IF ~Found(b, i) THEN i
    ELSE IF b.whole THEN Last(b.locks).index ELSE i

\* ngx_live_input_bufs_lock
Lock(b, i, at) ==
    IF Found(b, i)
    THEN [b EXCEPT !.locks =
            {IF l.index = LockOf(b, i) THEN [l EXCEPT !.n = @ + 1] ELSE l
                : l \in b.locks}]
    ELSE [b EXCEPT !.locks = @ \cup {NewLock(i, at)}, !.refs = @ + 1]

\* mutant: a lock stays
UnlockKeeps(b, R) ==
    LET Held(l) == Cardinality({r \in R : req[r].lock = l.index})
    IN  [b EXCEPT !.locks = {[l EXCEPT !.n = @ - Held(l)] : l \in @}]

\* ngx_live_input_bufs_unlock, for the requests R
Unlock(b, R) ==
    LET Held(l) == Cardinality({r \in R : req[r].lock = l.index})
        Gone == {l \in b.locks : l.n = Held(l)}
        c == [b EXCEPT !.locks =
                {[l EXCEPT !.n = @ - Held(l)] : l \in b.locks \ Gone}]
    IN  IF Gone = {} THEN c ELSE Unref(c, Cardinality(Gone))

\* the requests of R end
Ended(R) == [r \in Requests |-> IF r \in R THEN NoReq ELSE req[r]]
Unlocked(R) ==
    [t \in Tracks |-> Unlock(bufs[t], {r \in R : req[r].on = t})]

\* ngx_live_input_bufs_set_min_used
SetMinUsed(b, i, at) == FreeBufs([b EXCEPT !.minIndex = i, !.minAt = at])

\* ngx_live_segment_cache_free_input_bufs, with segments S and frames F left
\* (and ngx_live_segmenter_get_min_used)
FreeInputBufs(b, t, S, F) ==
    IF S # {} THEN SetMinUsed(b, First(S).index, First(S).from)
    ELSE SetMinUsed(b, next, IF F # << >> THEN F[1].from ELSE lastData[t])

-----------------------------------------------------------------------------
(* Media comes in *)

\* ngx_live_input_bufs_get, when the buffer is full; memory may be low then
NewBuf(t) ==
    /\ ~low
    /\ t \in live /\ bufs[t].last < MaxBlocks
    /\ bufs' = [bufs EXCEPT ![t].last = @ + 1]
    /\ active' = active \cup {t}
    /\ low' \in BOOLEAN
    /\ UNCHANGED <<live, packet, frames, lastData, segs, next, req, copy>>

\* the data of a packet starts (ngx_kmp_in_process_buffer)
BeginPacket(t) ==
    /\ ~low
    /\ t \in active /\ packet[t] = 0
    /\ packet' = [packet EXCEPT ![t] = bufs[t].last]
    /\ UNCHANGED <<live, bufs, active, frames, lastData, segs, next, low, req,
                   copy>>

\* It ends: a frame (ngx_live_segmenter_add_frame), or nothing that is kept.
EndPacket(t) ==
    /\ ~low
    /\ packet[t] # 0
    /\ packet' = [packet EXCEPT ![t] = 0]
    /\ \/ /\ Len(frames[t]) < MaxFrames
          /\ frames' = [frames EXCEPT ![t] =
                    Append(@, [from |-> packet[t], to |-> bufs[t].last])]
          /\ lastData' = [lastData EXCEPT ![t] = bufs[t].last]
       \/ UNCHANGED <<frames, lastData>>
    /\ UNCHANGED <<live, bufs, active, segs, next, low, req, copy>>

\* the connection is closed
Disconnect(t) ==
    /\ ~low
    /\ t \in active
    /\ active' = active \ {t}
    /\ packet' = [packet EXCEPT ![t] = 0]
    /\ UNCHANGED <<live, bufs, frames, lastData, segs, next, low, req, copy>>

\* ngx_live_segmenter_start_stream: the frames of the last connection are
\* forgotten
StartStream(t) ==
    /\ ~low
    /\ t \notin active /\ frames[t] # << >>
    /\ frames' = [frames EXCEPT ![t] = << >>]
    /\ UNCHANGED <<live, bufs, active, packet, lastData, segs, next, low, req,
                   copy>>

-----------------------------------------------------------------------------
(* Segments *)

Rest(F, k) == SubSeq(F, k + 1, Len(F))

\* A segment of the first k[t] frames of each track, of which the last may
\* be used again, as subtitles are (ngx_live_segmenter_create_segment).  If
\* no timeline is active it is freed at once, before next_segment_index is
\* increased (ngx_live_segment_index_ready).
CreateSegment(k, d, exists) ==
    LET made(t) == IF k[t] = 0 THEN {}
                   ELSE {[index |-> next, from |-> frames[t][1].from,
                          to |-> frames[t][k[t]].to]}
    IN  /\ ~low
        /\ next < MaxIndex /\ next' = next + 1
        /\ \A t \in Tracks : k[t] <= Len(frames[t]) /\ d[t] <= k[t]
        /\ Others \/ \E t \in Tracks : k[t] > 0
        /\ frames' = [t \in Tracks |-> Rest(frames[t], d[t])]
        /\ IF exists
           THEN /\ segs' = [t \in Tracks |-> segs[t] \cup made(t)]
                /\ UNCHANGED bufs
           ELSE /\ bufs' = [t \in Tracks |->
                        IF k[t] = 0 THEN bufs[t]
                        ELSE FreeInputBufs(bufs[t], t, segs[t], frames'[t])]
                /\ UNCHANGED segs
        /\ UNCHANGED <<live, active, packet, lastData, low, req, copy>>

\* the first k frames of a track are left out
\* (ngx_live_segmenter_remove_frames)
DisposeFrames(t, k) ==
    /\ ~low
    /\ k \in 1 .. Len(frames[t])
    /\ frames' = [frames EXCEPT ![t] = Rest(@, k)]
    /\ bufs' = [bufs EXCEPT ![t] = FreeInputBufs(@, t, segs[t], frames'[t])]
    /\ UNCHANGED <<live, active, packet, lastData, segs, next, low, req, copy>>

Without(t, i) == {s \in segs[t] : s.index # i}

\* ngx_live_segment_cache_free_by_index, with b the buffers of each track
FreeByIndex(i, b) ==
    /\ segs' = [t \in Tracks |-> Without(t, i)]
    /\ bufs' = [t \in Tracks |->
            IF Without(t, i) = segs[t] THEN b[t]
            ELSE FreeInputBufs(b[t], t, Without(t, i), frames[t])]

Cached == UNION {{s.index : s \in segs[t]} : t \in Tracks}

\* a segment leaves the timeline or the memory; requests go on
\* (ngx_live_segment_index_free)
FreeIndex(i) ==
    /\ ~low
    /\ i \in Cached
    /\ FreeByIndex(i, bufs)
    /\ UNCHANGED <<live, active, packet, frames, lastData, next, low, req, copy>>

\* the requests that have to end when index i does
Registered(i) == {r \in Requests : req[r].on # None /\ req[r].reg = i}

\* One turn of ngx_live_segment_index_watermark: the requests that read the
\* first segment end, then it is freed.
WatermarkFree(i) ==
    /\ low
    /\ i \in Cached \/ Registered(i) # {}
    /\ \A j \in 0 .. i - 1 : j \notin Cached /\ Registered(j) = {}
    /\ req' = Ended(Registered(i))
    /\ FreeByIndex(i, Unlocked(Registered(i)))
    /\ UNCHANGED <<live, active, packet, frames, lastData, next, low, copy>>

WatermarkEnd ==
    /\ low /\ low' = FALSE
    /\ UNCHANGED <<live, bufs, active, packet, frames, lastData, segs, next,
                   req, copy>>

-----------------------------------------------------------------------------
(* Requests *)

\* request r reads the blocks from..to of the buffers of t; it has to end when
\* index reg does, if that is not -1
Begin(r, t, i, reg, from, to) ==
    /\ req[r].on = None
    /\ bufs' = [bufs EXCEPT ![t] = Lock(@, i, from)]
    /\ req' = [req EXCEPT ![r] = [on |-> t, reg |-> reg,
                                  lock |-> LockOf(bufs[t], i),
                                  from |-> from, to |-> to]]
    /\ UNCHANGED <<live, input, segs, next, low, copy>>

\* A segment is sent or saved (ngx_live_segment_cache_write,
\* ngx_live_segment_index_lock), or more of them to be a filler, of which
\* only the first is locked (ngx_live_filler_write_segments).
ReadSegments(r, t, s, z) ==
    /\ ~low
    /\ s \in segs[t] /\ z \in segs[t] /\ s.index <= z.index
    /\ \A i \in s.index .. z.index : \E y \in segs[t] : y.index = i
    /\ Begin(r, t, s.index, s.index, s.from, z.to)

\* what a filler track copied is sent; no segment of the track is locked
\* (ngx_live_filler_serve_write_frame_data)
ReadFiller(r, f) ==
    /\ ~low
    /\ copy[f].on # None
    /\ req[r].on = None
    /\ bufs' = [bufs EXCEPT ![copy[f].on] = Lock(@, 0, 0)]
    /\ req' = [req EXCEPT ![r] = [on |-> copy[f].on, reg |-> -1,
                                  lock |-> LockOf(bufs[copy[f].on], 0),
                                  from |-> copy[f].from, to |-> copy[f].to]]
    /\ UNCHANGED <<live, input, segs, next, low, copy>>

\* its pool is destroyed
Finish(r) ==
    /\ ~low
    /\ req[r].on # None
    /\ req' = Ended({r})
    /\ bufs' = Unlocked({r})
    /\ UNCHANGED <<live, input, segs, next, low, copy>>

-----------------------------------------------------------------------------
(* Tracks and fillers *)

\* mutant: one more refers to the buffers, uncounted
LinkUncounted(b) == [b EXCEPT !.whole = TRUE]

\* ngx_live_input_bufs_link; the buffers the filler track had are empty, and
\* not part of the model
Link(b) == [b EXCEPT !.refs = @ + 1, !.whole = TRUE]

\* A filler track copies segments s to z of track t
\* (ngx_live_filler_setup_track_segments).
SetFiller(f, t, s, z) ==
    /\ ~low
    /\ copy[f].on = None
    /\ t \in live
    /\ s \in segs[t] /\ z \in segs[t] /\ s.index <= z.index
    /\ \A i \in s.index .. z.index : \E y \in segs[t] : y.index = i
    /\ bufs' = [bufs EXCEPT ![t] = Link(@)]
    /\ copy' = [copy EXCEPT ![f] = [on |-> t, from |-> s.from, to |-> z.to]]
    /\ UNCHANGED <<live, input, segs, next, low, req>>

\* One of the segments is not in the cache: the filler track is linked and
\* freed again (ngx_live_filler_setup_free_tracks).
SetFillerFails(f, t) ==
    /\ ~low
    /\ copy[f].on = None
    /\ t \in live
    /\ bufs' = [bufs EXCEPT ![t] = Unref(Link(@), 1)]
    /\ UNCHANGED <<live, input, segs, next, low, req, copy>>

\* a track of a channel that uses this one is freed
\* (ngx_live_input_bufs_track_free)
FreeFiller(f) ==
    /\ ~low
    /\ copy[f].on # None
    /\ bufs' = [bufs EXCEPT ![copy[f].on] = Unref(@, 1)]
    /\ copy' = [copy EXCEPT ![f] = NoCopy]
    /\ UNCHANGED <<live, input, segs, next, low, req>>

\* tracks D are freed, with buffers b before
Delete(D, b) ==
    /\ live' = live \ D
    /\ bufs' = [t \in Tracks |-> IF t \in D THEN Unref(b[t], 1) ELSE b[t]]
    /\ active' = active \ D
    /\ packet' = [t \in Tracks |-> IF t \in D THEN 0 ELSE packet[t]]
    /\ frames' = [t \in Tracks |-> IF t \in D THEN << >> ELSE frames[t]]
    /\ lastData' = [t \in Tracks |-> IF t \in D THEN 0 ELSE lastData[t]]
    /\ segs' = [t \in Tracks |-> IF t \in D THEN {} ELSE segs[t]]

\* ngx_live_track_free: requests that read it go on
DeleteTrack(t) ==
    /\ ~low
    /\ t \in live
    /\ Delete({t}, bufs)
    /\ UNCHANGED <<next, low, req, copy>>

\* ngx_live_channel_free: requests for its segments end
\* (ngx_live_segment_index_channel_free), those for a filler's go on
DeleteChannel ==
    /\ ~low
    /\ live # {}
    /\ LET R == UNION {Registered(i) : i \in 0 .. MaxIndex}
       IN  /\ req' = Ended(R)
           /\ Delete(live, Unlocked(R))
    /\ UNCHANGED <<next, low, copy>>

-----------------------------------------------------------------------------

Counts == [Tracks -> 0 .. MaxFrames]

Next ==
    \/ \E t \in Tracks :
        \/ NewBuf(t) \/ BeginPacket(t) \/ EndPacket(t)
        \/ Disconnect(t) \/ StartStream(t) \/ DeleteTrack(t)
        \/ \E k \in 1 .. MaxFrames : DisposeFrames(t, k)
        \/ \E r \in Requests, s, z \in segs[t] : ReadSegments(r, t, s, z)
        \/ \E f \in Fillers :
            \/ \E s, z \in segs[t] : SetFiller(f, t, s, z)
            \/ SetFillerFails(f, t)
    \/ \E k, d \in Counts, exists \in BOOLEAN : CreateSegment(k, d, exists)
    \/ \E i \in 0 .. MaxIndex : FreeIndex(i) \/ WatermarkFree(i)
    \/ WatermarkEnd \/ DeleteChannel
    \/ \E r \in Requests : Finish(r) \/ \E f \in Fillers : ReadFiller(r, f)
    \/ \E f \in Fillers : FreeFiller(f)

Spec == Init /\ [][Next]_vars

-----------------------------------------------------------------------------
(* Properties *)

Blocks == 0 .. MaxBlocks
Indexes == 0 .. MaxIndex

LockType == [index : Indexes, at : Blocks, n : 1 .. Cardinality(Requests)]

BufsType ==
    [refs : Nat, locks : SUBSET LockType, minIndex : Indexes, minAt : Blocks,
     whole : BOOLEAN, first : 1 .. MaxBlocks + 1, last : Blocks]

\* The shape of the state; no two locks are for one segment.
TypeOK ==
    /\ live \subseteq Tracks /\ active \subseteq live
    /\ bufs \in [Tracks -> BufsType]
    /\ packet \in [Tracks -> Blocks]
    /\ frames \in [Tracks -> Seq([from : Blocks, to : Blocks])]
    /\ lastData \in [Tracks -> Blocks]
    /\ segs \in [Tracks -> SUBSET [index : Indexes, from : Blocks, to : Blocks]]
    /\ next \in Indexes /\ low \in BOOLEAN
    /\ req \in [Requests -> [on : Tracks \cup {None}, reg : Indexes \cup {-1},
                             lock : Indexes, from : Blocks, to : Blocks]]
    /\ copy \in [Fillers -> [on : Tracks \cup {None}, from : Blocks,
                             to : Blocks]]
    /\ \A t \in Tracks : \A l, m \in bufs[t].locks : l.index = m.index => l = m

Kept(t, from, to) == bufs[t].first <= from /\ to <= bufs[t].last

\* Whatever may still be read is in memory: frames that wait, the packet that
\* is being received, the segments in the cache, what requests read and
\* fillers copied.
DataKept ==
    /\ \A t \in Tracks :
        /\ \A i \in 1 .. Len(frames[t]) :
            Kept(t, frames[t][i].from, frames[t][i].to)
        /\ packet[t] # 0 => Kept(t, packet[t], bufs[t].last)
        /\ \A s \in segs[t] : Kept(t, s.from, s.to)
    /\ \A r \in Requests :
        req[r].on # None => Kept(req[r].on, req[r].from, req[r].to)
    /\ \A f \in Fillers :
        copy[f].on # None => Kept(copy[f].on, copy[f].from, copy[f].to)

\* And no longer: once segments were freed, the buffers that are left start at
\* the first segment that is needed or at a lock on an earlier one, whatever
\* order segments and requests end in; unless the track was ever copied from.
KeptNoLonger ==
    \A t \in Tracks :
        LET b == bufs[t]
        IN  b.refs > 0 /\ ~b.whole /\ b.minIndex > 0 =>
                \/ b.first = b.minAt
                \/ \E l \in b.locks : l.index < b.minIndex /\ l.at = b.first

Readers(t, i) == {r \in Requests : req[r].on = t /\ req[r].lock = i}
Linked(t) == {f \in Fillers : copy[f].on = t}

\* Nothing is leaked or freed twice: buffers are referred to by their track,
\* the fillers and the locks, a lock is held by the requests that read, and
\* the buffers are freed with the last of them.
Counted ==
    \A t \in Tracks :
        /\ bufs[t].refs = (IF t \in live THEN 1 ELSE 0)
                          + Cardinality(Linked(t)) + Cardinality(bufs[t].locks)
        /\ \A l \in bufs[t].locks : l.n = Cardinality(Readers(t, l.index))
        /\ \A r \in Requests : req[r].on = t =>
                \E l \in bufs[t].locks : l.index = req[r].lock
        /\ bufs[t].refs = 0 => bufs[t].first > bufs[t].last
=============================================================================
