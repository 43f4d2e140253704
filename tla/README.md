# TLA+ models of the media framework

This directory holds a verification development of the live media framework:
TLA+ modules translated from the C sources, TLC configurations that check them
on small instances, and proofs checked by TLAPS.

- [1. The system](#1-the-system): components, state, interactions, what is hard
- [2. Plan](#2-plan): modules, in order
- [3. Modules](#3-modules): how state and actions correspond to the code
- [4. Runs](#4-runs): what is checked, bounds, fairness
- [5. Proofs](#5-proofs)
- [6. Findings](#6-findings)
- [7. What is left out](#7-what-is-left-out)

`PROJECT.json` holds the same in a form tools can read: the components, the
runs, for every modelled definition the lines it models, for every property a
mutation of the code that breaks it, the hazards and the findings.

## 1. The system

Media enters as RTMP or MPEG-TS, is transcoded, cut into segments, stored, and
packaged for players.  Frames travel between the processes in one protocol,
KMP: a TCP connection that carries a connect packet, media info, frames, null
packets and an end of stream one way, and ack packets the other way.  The
address to connect to comes from a controller, over HTTP, and is asked for
again (*republish*) when a connection breaks.  A sender keeps frames in memory
until they are acked; the receiver acks a frame when it will not need it again,
for the live server normally when the segment that holds it was stored.

```
 rtmp-kmp  --\                                      /--> object store (HTTP PUT/GET)
 mpegts-kmp ---> kmp-out track ==KMP==> kmp-in --> segmenter --> segment index + persist
 kmp-cc    --/       |  ^                  |            |              |
                     |  |-- ack packets ---|            +-- acks <-----+
                     +--> controller (HTTP calls)
```

All of it except the transcoder is nginx modules: one process, one thread, an
event loop.  A handler runs to completion, so handlers are the atomic steps; the
concurrency is between handlers (timers, sockets that become readable or
writable, replies to HTTP calls, API requests) and between processes.

| component | state | operations | hard |
|---|---|---|---|
| buffer queue `nginx-common/src/ngx_buf_queue*.c` | list of used buffers, free list, count against a shared memory limit; per stream a buffer and a position | get, free up to a position, delete; open, copy, move, read | addresses are recycled while streams and send chains still refer to them |
| KMP output track `nginx-kmp-out-module/src/ngx_kmp_out_track.c` | buffer queue, active buffer, counters, publish call, flush and keepalive timers, list of upstreams | write media info / frame (whole, or opened and closed), append, flush, keepalive, memory watermark, publish, add / delete upstream, error, detach, cleanup | errors of one upstream inside a pass over all; release of buffers by the slowest; frames whose header is not known yet; teardown with calls pending |
| KMP output upstream `ngx_kmp_out_upstream.c` | connection, chain of bytes to send, acked reader, republish call / timer / counter | connect, send, ack, auto ack, forced ack, republish, error, free | agreement of resume point, first bytes and first frame id of a new connection; timeouts; acks that repeat |
| KMP input `nginx-kmp-in-module/src/ngx_kmp_in.c` | current frame id, frames to skip, waiting for a key frame, acked frame id, pending ack | connect, media info, frame, ack, close | duplicates and gaps when a publisher resumes; acks coalesced while one is being written |
| segmenter, channel, timelines `nginx-live-module/src/ngx_live_segmenter.c`, `_channel.c`, `_timeline.c`, `_segment_list.c`, `_media_info.c` | pending frames per track, next frame id, channel next segment index, segment lists per timeline, blocked counter | start / end stream, add frame, create segments, gaps, idle, inactive, read back | several tracks of one channel out of step; what a restarted stream may skip |
| segment index and persistence `ngx_live_segment_index.c`, `persist/*.c` | index entry per segment (not written, ok, error), pending and done queues, snapshots, an active and a pending index write, success index | create segment, write a media bucket, persisted, write index or delta, write complete, watermark, free, read back | completions out of order; acks that must wait for media and index; restart between writes |
| input buffers, segment cache `ngx_live_input_bufs.c`, `ngx_live_segment_cache.c` | buffers with lock counts, segments that point into them | add frame, lock, unlock, release, copy between tracks | release while a request or another track still uses the data |
| syncer, low latency segmenter, filler | timestamp corrections, parts | correct timestamps, add part | arithmetic on timestamps that jump |
| HTTP calls `nginx-common/src/ngx_http_call.c` | one request, its timer and retries | create, finalize, retry, cancel | late answers, cancel in a callback |
| persistence format, JSON, HTTP API routing | none | parse, format | - |
| RTMP, MPEG-TS, closed captions | demuxer state, output tracks | feed an output track, react to its errors | an error in the middle of a frame |
| KMP to RTMP | frames of two tracks, one RTMP connection | interleave by timestamp | one track stalls |
| packager | none between requests | KSMP request, playlist, media | - |
| transcoder | threads, packet and ack queues | receive, decode, encode, send | threads, acks of frames that were merged or dropped |

What makes them correct, in one line each:

- *buffer queue*: no buffer is free and used at once, none is lost, a stream
  reads the bytes that were written where it stands.
- *output track and upstreams*: every frame is either still held for every
  upstream, or was sent to it and (if it waits for acks) acked by it; a new
  connection starts with the frame it names; a loss the track cannot survive
  reaches its owner; everything is freed in the end.
- *KMP input*: the frames handed on are the published ones, once and in order;
  acks never go back and the last one is always sent.
- *segments and persistence*: a frame is acked only when a restart would not
  need it; an index never names a segment that is not stored; every frame is
  acked in the end.
- *input buffers*: data is kept while something points to it, and no longer.
- *HTTP calls*: a call ends exactly once, with an answer, a failure or a cancel.

The hazards, each at the line where it bites and with the properties that are
about it, are in `PROJECT.json`.

## 2. Plan

| | module | about | status |
|---|---|---|---|
| 1 | `BufQueue`, `LogWindow` | buffer queue and streams; it implements an abstract window on a log | checked and proved |
| 2 | `KmpOut` | output track with its upstreams, composed in one module since every handler of one calls the other | checked and proved |
| 3 | `SegmentPersist` | segment index, media and index writes, acks, restart, in one module since each handler of one calls the others | checked and proved |
| 4 | `KmpIn`, `Delivery`, `FrameDelivery` | the receiver; abstract delivery of frames in order, once; both ends composed | checked and proved |
| 5 | `InputBufs` | buffers, locks, copied segments | checked and proved |
| 6 | `HttpCall` | one call, its retries and its cancel | next |
| 7 | segment lists and timelines, low latency parts, transcoder acks | pure algorithms and queues | last |

Abstract specifications worth stating: `LogWindow` (done); *delivery*: what was
published is delivered once and in order, and forgotten by its sender only when it
was (`FrameDelivery`, done); *durable prefix*: what a restart reads is a prefix of what was created,
and contains all that was acked (stated over the files in storage, as
`AckedSaved`, `NoDangling` and `StoredForward`; a separate abstract module, which
`SegmentPersist` implements, is left for later).

Theorems worth proving: the invariants of `BufQueue` and its refinement (done);
the safety of `Delivery` and that it implements `FrameDelivery` (done);
that `InputBufs` keeps what is needed, no longer, and counts who needs it (done);
the queue discipline of the segment index, the count of snapshots, and what storage
has at any moment, in `SegmentPersist` (done); that what was acked is read back
(`AckedSaved`, done); the agreement of the places from which upstreams resume with
the buffers that are kept, the end of the log and of a track, and what is told of a
loss, in `KmpOut` (done); that memory errors are the last resort
(`MemoryLastResort`, done).

## 3. Modules

### `BufQueue`, `LogWindow`, `BufQueue_proofs`, `MCBufQueue`

`ngx_buf_queue_t` is `used`, `free`, `freeLeft`, `memLeft`, `nbuffers` and
`attached`; `other` stands for what other queues hold of the same shared
`mem_left`.  A buffer is its address, a member of `Nodes`, and comes back after
it was freed.  `data[n]` is the number of the block of the log the buffer was
last filled with, `first` how many blocks were removed: neither is in the code,
they say what a reader *should* find.  `stream[r]` is an
`ngx_buf_queue_stream_t`; its offset in a buffer is left out.

| action | code |
|---|---|
| `GetFree`, `GetNew`, with `Link` | `ngx_buf_queue_get` |
| `Free`, with `Release` | `ngx_buf_queue_free`; its users pass the position of the stream that is behind all others (comment in `ngx_buf_queue_stream.c`) |
| `Delete`, `Detach` | `ngx_buf_queue_delete`, `ngx_buf_queue_detach` |
| `OpenHead`, `OpenTail`, `Copy`, `Move`, `Close` | `ngx_buf_queue_stream_*` |

`LogWindow` is the promise: a log of numbered blocks of which a window is kept,
where each reader gets the block its position stands for.  `WindowSpec` is
`BufQueue` with `at` and `got` mapped to the positions of the open streams and
the contents of their buffers.

### `KmpOut`, `MCKmpOut`, `KmpOut_proofs`, `KmpOutMemory_proofs`

One track with its upstreams.  `track` is the `ngx_kmp_out_track_t`, `up[u]` the
`ngx_kmp_out_upstream_t` of `u`, `queue` the list `track->upstreams`; the comment
of each field names its counterpart.  Data is abstracted to a log of packets
(type, offset of the end, frames so far), with offsets in units of a packet
header.  Pointers into the log become offsets: `appended` is `active_buf.pos`,
`up[u].acked` counts the packets before `acked_reader`, `up[u].sent` is the
offset up to which bytes left on the connection, `up[u].pre` what is left of the
connect packet.  `skew` is the distance between the frame a connection named and
the first byte it sends.

A handler of the track calls handlers of every upstream, and these call back; a
socket takes any part of what is sent and calls may fail anywhere.  So a handler
is an operator from a state to the *set* of states it may leave, with a return
code, and an action picks one of them: the sequencing of the calls, the early
returns and the place of each failure are those of the code.  `Then(S, F)` is "if
rc is ok, go on with F", `Sweep` a loop over the upstreams that stops at an
error, `Loop` one with a bound that the code cannot exceed (the copy loop, the
watermark); both are recursive functions over the turns.

| action | code |
|---|---|
| `WriteMediaInfo`, `WriteFrame`, `WriteMarkedFrame` | `write_media_info`, `write_frame`, `write_frame_start` / `_data` / `_end`, with the whole of `write_chain`: `mem_watermark`, `append_all`, `ngx_buf_queue_get`, `send_all` |
| `AbortFrame` | an owner that meets an error between start and end |
| `FlushTimer`, `KeepaliveTimer` | the two timer handlers of the track |
| `Detach` | `ngx_kmp_out_track_detach`, with end of stream and cleanup |
| `PublishReply`, `PublishFail` | `publish_handle`, and the call that failed after its retries |
| `RepublishReply`, `RepublishFail`, `RepublishTimer` | the same of an upstream |
| `AddUpstream`, `DelUpstream` | the API requests |
| `Connected`, `WriteReady`, `WriteTimeout`, `PeerClosed`, `PeerDone`, `ReadAck` | `ngx_kmp_out_upstream_write_handler`, `_read_handler` |

The owner follows what the RTMP, MPEG-TS and closed captions modules do: media
info before the publish request, nothing after an error, and nothing to a track
that became inactive (`ngx_rtmp_kmp_track.c:471`, `ngx_ts_kmp_track.c:1835`);
`ngx_kmp_cc.c` does not look at the state, which is the writer `unchecked`.

`track.alerts` and `track.cause` are history: which alert of the code (or read
of memory that is not what it should be) happened, and what the first error was.

### `SegmentPersist`, `MCSegmentPersist`, `SegmentPersistSteps`, `SegmentPersist_proofs`, `SegmentPersistAcks`

One channel with one timeline and one track, in which a frame is a segment: the
id of a frame says how far the track is, and `seg[k]` remembers under which
connection and id segment `k` was made.  The memory of the channel is the record
`ch`, whose fields name their counterparts; `store` is what storage has, and
survives `Restart`.  A handler of one file of the code calls handlers of others
(`persisted` frees indexes, which closes a snapshot, which acks or starts a
write), so the record is passed from operator to operator in the order of these
calls, and an action applies the outermost one.  The loops of the code over indexes, oldest
first, are `InOrder`, a recursive function.  What cannot be started in a step
(`ch.fail`) is chosen by the action.

| part | code |
|---|---|
| `ch.idx` | the indexes: queues `pending` (not written) and `done`, the rbtree, `free`, and the snapshot an index holds |
| `ch.iw`, `ch.pend` | `write_ctx` with `frames_snap`; `pending` |
| `ch.media` | the media files on their way, each of which locks the first index of its bucket |
| `FramesClose`, `SnapUpdate` | `ngx_live_persist_snap_frames_*` |
| `SnapAck`, `SnapWrite`, `DeltaFits`, `WriteIndex` | `ngx_live_persist_index_snap_close` |
| `IndexFree`, `FreeNonForced`, `Persisted`, `IndexCreate`, `IndexReady` | `ngx_live_segment_index_*` |
| `SegmentCreated`, `MediaWrite`, `LastBucketWritten` | `ngx_live_persist_media_*` |

| action | code |
|---|---|
| `Connect`, `ConnectBack`, `Disconnect` | `ngx_live_segmenter_start_stream`, and what it skips; the end of a connection |
| `CreateSegment` | the end of `ngx_live_segmenter_create_segments`: the timeline drops old segments and their indexes, the index is created, gets ready, and the bucket may be written |
| `DisposeFrames` | frames that are removed, then `ngx_live_channel_ack_frames` |
| `Activate`, `ChannelInactive` | a first frame; all tracks idle, with the alignment of the next segment to a bucket |
| `TimelinesCleanup` | the timer that ages the timeline of an inactive channel |
| `HistoryChanged` | a timeline was edited |
| `Watermark` | memory is low: the oldest indexes go, and their writes are cancelled |
| `MediaDone`, `IndexDone` | the completion handlers, with success or failure, where a failed write may have arrived |
| `Restart` | a crash, with any of the media writes on their way and the index write arriving or not, and the read of setup, index and delta |

`excused`, `unsaved`, `early` and `health` are history: up to where segments are no
longer promised (the timeline dropped or truncated them), which media was not
written, what was acked with an index that left the memory (finding 5), and how the
last index writes ended.

### `KmpIn`, `Delivery`, `FrameDelivery`, `MCDelivery`, `Delivery_proofs`

`Delivery` composes both ends of KMP and storage: a publisher that wants acks, up to
`MaxConns` connections, the receiver of one track, its segments and their snapshots.
`KmpIn` is the receiver; it takes what has come on a connection as a parameter, so
that it can be composed.  `FrameDelivery` is what the composition promises.

In `KmpIn`, `in[c]` is the `ngx_kmp_in_ctx_t` of connection `c` (`cur` is
`cur_frame_id`, `skip` is `skip_left`, `acked`, `packet` and `writing` are those of
the ack), `input` is `track->input`, `next` is `track->next_frame_id`, and `frames`
what the segmenter has of the track.  `snaps` are the open snapshots, oldest first,
each with the connection and the id it was made with (`ngx_live_persist_snap_frames`);
`durable` and `at` are what a crash leaves.  A frame is its id, and `Key`, `Empty` and
`InfoAt` say which are key frames, have no data, or come after media info.

| action | code |
|---|---|
| `StartStream`, `RefuseHeader` | `ngx_kmp_in_read_header`, `ngx_stream_live_kmp_connected`, `ngx_live_segmenter_start_stream` |
| `ReadInfo`, `SkipFrame`, `RefuseFrame`, `AddFrame` | `ngx_kmp_in_media_info`, `ngx_kmp_in_frame`, `ngx_live_segmenter_add_frame` |
| `AckFrames`, `AckWritten` | `ngx_kmp_in_ack_frames`, `ngx_kmp_in_write_handler` |
| `Close` | `ngx_kmp_in_cleanup`, with end of stream, errors and timeouts |
| `CreateSegment`, `Dispose` | segments of the first frames of the track, and frames that are given up |
| `CloseSnap`, `MergeSnap`, `Crash` | the end of a snapshot (`SegmentPersist` says when it may come), two that become one, a crash and the read of what was saved |

The publisher of `Delivery` is `KmpOut` reduced to one upstream with `resume_from
last_acked`: `made` and `held` are the frames written and the `acked_frame_id`, and
what a connection carries is where it started (`init`) and how far it was sent
(`sent`), since the order of packets on it follows from these.  Each end of a
connection notices by itself that the other is gone (`Break`, `Closed`, `Gone`,
`Drop`): until then the receiver may go on reading an old connection while the
publisher sends on a new one, which the receiver refuses.

| action | code |
|---|---|
| `Publish`, `Send`, `SendEnd` | a frame written, a frame that leaves, the end of the stream |
| `Dial` | `ngx_kmp_out_upstream_connect`, after the republish |
| `ReadAck` | `ngx_kmp_out_upstream_ack_frames`: an ack of more than was sent on this connection is an error, and with `no_republish` the last one (`ngx_kmp_out_upstream.c:953`) |
| `ForceAck` | memory is low and the first frame goes |

`FrameDelivery` has a log of published frames, of which some are in segments
(`stored`), some were given up by either end, and the publisher forgets a prefix.
It lets a frame be taken once and in order, until more than `MaxSkip` frames come
back at once and are taken again; a crash loses only what the publisher still holds.

`stored`, `dropped`, `forced` and `again` are history.

### `InputBufs`, `MCInputBufs`, `InputBufs_proofs`

A buffer is the number of the block of the log it was filled with, and a piece of
media is `from..to`, the blocks it lies in; the queue is the window `first..last` of
`LogWindow`, which `BufQueue` implements, so that `ngx_buf_queue_free` moves `first`
(or, when its limit is not in the queue, frees all buffers but the last, as the code
does).  `bufs[t]` is the `ngx_live_input_bufs_t` that track `t` created: `refs` is
`ref_count`, `minIndex` and `minAt` are `min_segment_index` and `min_ptr`, `whole` is
`no_partial_free`.  `segs[t]` are the segments of the cache, `next` is
`next_segment_index`, `lastData[t]` is `last_data_ptr`, `packet[t]` where the packet
that is being received starts.  `copy[f]` is a track of another channel that uses this
one as a filler; `req[r]` is a request that reads, the lock it holds and the index
whose end is its own (`reg`).

| action | code |
|---|---|
| `NewBuf` | `ngx_live_input_bufs_get` when the buffer is full; memory may be low then (`low`) |
| `BeginPacket`, `EndPacket`, `Disconnect`, `StartStream` | `ngx_kmp_in_process_buffer`, `ngx_live_segmenter_add_frame`, the end of a connection, `ngx_live_segmenter_start_stream` |
| `CreateSegment`, `DisposeFrames` | `ngx_live_segmenter_create_segment` with `ngx_live_segment_index_ready`, `ngx_live_segmenter_remove_frames` |
| `FreeIndex`; `WatermarkFree`, `WatermarkEnd` | `ngx_live_segment_index_free`; the turns of the loop in `ngx_live_segment_index_watermark` |
| `ReadSegments`, `ReadFiller`, `Finish` | `ngx_live_segment_cache_write`, `ngx_live_segment_index_lock` and `ngx_live_filler_write_segments`; `ngx_live_filler_serve_write_frame_data`; the pool of the request is destroyed |
| `SetFiller`, `SetFillerFails`, `FreeFiller` | `ngx_live_filler_setup_track_segments` with `ngx_live_input_bufs_link`, `ngx_live_filler_setup_free_tracks`, `ngx_live_input_bufs_track_free` |
| `DeleteTrack`, `DeleteChannel` | `ngx_live_track_free`, `ngx_live_channel_free` |

The watermark handler runs inside `ngx_live_input_bufs_get`, so no other handler comes
between its turns: every other action has the guard `~low`.

## 4. Runs

Twelve runs.  The configurations of `KmpOut` are records, all in `MCKmpOut`, and
one run considers several of them, since an interesting case needs its own
combination of directives.

| run | shows | bounds |
|---|---|---|
| `buf_queue` | no buffer lost, aliased or read after it was recycled; `LogWindow` is implemented | 4 addresses, 2 streams, 6 blocks, memory for 4 buffers, a free list of 1 |
| `kmp_out_safety` | no frame is released, skipped or forgotten that a new connection has to send; losses are reported; memory errors are the last resort | buffers of 2 units, 2 to 6 packets of 1 to 3 units, 1 or 2 upstreams, 1 or 2 faults, 1 republish per interval |
| `kmp_out_live` | everything written is sent to each upstream that is not given up; a closed track is freed | one upstream, 4 packets, 2 faults |
| `persist` | acked segments are read back, none is read back without media, storage never goes back, acks come in the end | 5 segment indexes in buckets of 2, timeline of 4, deltas of 2, 2 events (failures, restarts, API orders, publishers that come back) |
| `delivery` | frames are taken once and in order and forgotten only when they are in segments or given up; acks are not lost, go forward, and are none the publisher takes for an error; in the end all is stored and acked | 3 frames, of which 2 are key frames, 3 connections, 2 faults, media info again in the middle, at most 1 frame to skip |
| `input_bufs` | what waits, is received, cached, read or copied stays in memory, and what was before it does not; references and locks are exactly those who hold them, and the buffers go with the last of them | one track that gets 3 buffers, with other tracks beside it, 1 filler, 2 requests, 2 segment indexes, 2 frames that wait |
| `persist_old`, `persist_delta` | findings 5 and 6 below, each a counterexample to one property | 6 segment indexes, 1 event |
| `kmp_out_tied`, `kmp_out_optional`, `kmp_out_abort`, `kmp_out_written` | the first four findings below, each a counterexample to one property | two or four packets |

*Why these bounds are enough.*  `buf_queue`: four buffers make a queue with a
head, a middle and a tail while one is free; six blocks recycle addresses, and a
free list of one splits a release between the list and the allocator.
`kmp_out`: buffers of two units and frames of one to three units put a packet
inside a buffer, across two, and exactly at an end.  Two faults are needed for a
connection that breaks while the republish of the one before it just finished;
with one republish per interval the second fault also reaches the limit.  Four
buffers of memory with marks at two and three reach the watermark after five
packets.  Two upstreams are the least with a slowest one; a third adds nothing
the code compares (it only takes minima and passes over the list).  The run
checks eight configurations: one upstream with its receiver acking, two
upstreams, an upstream added later, low memory, a receiver that does not ack,
and three kinds of owner.
`persist`: five segments fill two buckets and start a third, so that two media
writes are on their way at once in both orders while a third is begun, an index is
followed by a delta and that by another delta, and a segment leaves the timeline of
four.  Two events are what the hazards need: a failed write and a restart, two
restarts, an inactive period (which is no event) with a restart and a failure.
What a segment holds besides its snapshot is not compared by any of the code.

`delivery`: three frames with a key frame at each end of a list of one or two give a
segment, a rest that waits, and a list that must start with a key frame; with one
frame to skip, a publisher that comes back with one or with two frames the receiver
has takes both branches of `StartStream`.  Three connections are a stale one, one that
is refused meanwhile, and a new one; the third is needed for a publisher that
resumes twice.  Faults are what ends or loses something: a connection that breaks for
either end, a frame given up by either end, a segment without a frame of this track, a
crash; two of them give a crash after a lost connection, and both ends giving up the
same connection.  The proof below holds for all bounds.

`input_bufs`: buffers are freed only up to a segment other than index 0 (an index of 0
means that nothing was set), so two indexes are the least with which some are freed
while others stay; with other tracks in the channel, this one may have no segment at an
index.  Two requests share a lock or hold two, three buffers put media inside one
buffer, across two, and behind one that is freed.  Tracks do not touch each other's
buffers but in steps that do the same to each.  The proof below holds for all bounds.

The properties of `persist` are conditional where the code makes no promise:
`AckedSaved` leaves out segments whose media write failed or was cancelled (their
frames are acked on purpose), those the timeline dropped, and the time after an
index write failed (its frames are acked, by the code, whether or not it succeeded);
`health` goes back to `ok` with the next index that is written.  `AckedByOld` and
`AckedByDelta` are `AckedSaved` with one of these conditions removed.

`NoDangling` and `StoredForward` leave out what follows one rare sequence, in which
`health` becomes `stale` for good: a delta is written before there is any index
(finding 6), the server restarts, finds no index and starts again from nothing, and
the delta stays in storage with segments that are no longer those of the channel.
When an index is written that ends just before it, the delta counts again
(`ngx_live_persist_index_read_channel` compares nothing but the indexes), and with the
next index it does not: what is read back then names segments of another life and
later ends earlier than it did.  The run reaches `stale`; that `StoredForward` fails
without the condition TLC shows with buckets of one segment.
An empty delta, which the code can write when `max_delta_segments` is 0, changes
nothing in the model; the code would refuse it when it reads
(`ngx_live_persist_index.c:430`).

`TypeOK` includes the limits on memory: buffers held and free never exceed the
limit.  `NoBadRead` leaves out two alerts, named below in section 6.

*Fairness.*  `kmp_out_live` assumes that timers fire, that the controller answers
the calls it is sent (a call that fails is a bounded fault), that a peer that is
connected reads (its socket becomes writable again and takes what is left), that
it closes an ended stream, and that an owner that was told of an error closes
its input, which all three owners do.  The first two are the event loop and the
HTTP timeouts; the others are assumptions on the environment that the protocol
makes.  Nothing is assumed of acks: `Delivered` is about what is sent.  There is
no fairness on writes, API requests or faults.

`persist` assumes that storage answers every request (each write has a timeout in
the HTTP client), per request: `calls` is the set of requests that are not answered,
and weak fairness is stated on one leaving it.  It also assumes that a channel whose
tracks get no frames becomes inactive, which is the timer of the segmenter; it is
what writes a last bucket that is never filled.

`delivery` assumes that the publisher connects, sends and reads (as above), that the
receiver reads what has come on each connection, gets its acks out, and notices a
publisher that is gone (read timeout), that frames get into a segment (the inactive
timer of the segmenter, and the timer of `create_segments`), and that the oldest
snapshot ends (`SegmentPersist` shows that it does, in `AckedInTheEnd`).  Fairness is
per connection; an ack on one connection does not excuse another.  `Settled` excuses a
publisher that is gone before the receiver has read all it sent, since nobody sends
that again.

*Deadlock* is checked in the runs of `BufQueue` and `KmpOut`; a freed track
stutters (`Freed`).  In `SegmentPersist` a channel may stop for good: all segments
are saved and the bounds are used up; so may the publisher and the receiver of
`Delivery`, when all is acked, and `InputBufs`, when the channel is deleted or the
bounds are used up.

## 5. Proofs

`BufQueue_proofs` proves about `BufQueue`, for any number of addresses, streams
and blocks, any memory limit greater than zero and any bound of the free list
(`BufQueueAssumption`):

| theorem | |
|---|---|
| `Invariance` | the inductive invariant |
| `TypeCorrect`, `MemoryAccounted`, `NoBufferAliased`, `StreamsStayInside`, `ReadersReadTheLog` | the properties of the run |
| `ImplementsWindow` | `Spec => WindowSpec` |

None of the properties is inductive alone.  That a stream reads its own block
needs that it is inside the queue (`StreamsInside`) and that the queue holds the
blocks in order (`InOrder`); that order survives a new buffer only if the buffer
is not already in the queue (`NoAlias`), whose preservation by a release needs
the free list to be apart from the queue; and the counters stay natural numbers
only because they agree with the lists (`Accounted`).  The invariant is the
conjunction of the five (`InOrder` is not checked in the run by itself: a stream at any
place of the queue that finds its own block says the same).  The lemmas say what `PushEach` and `DropFirst` (the
release) do to lengths, order and distinctness.  The refinement uses the
invariant: a buffer taken is `Extend`, a release is `Trim`, `Delete` is `Clear`,
every stream operation is `Seek`, and the rest stutters.

`Delivery_proofs` proves about `Delivery`, for any number of frames, connections and
faults, any frames to skip and any choice of key frames, empty frames and media info
(`KmpInAssumption`, `DeliveryAssumption`):

| theorem | |
|---|---|
| `DeliveryInvariance` | the inductive invariant |
| `DeliveryType`, `NoAckLost`, `NoAckAhead` | the invariants of the run |
| `AcksGoForward` | an ack that is written is more than the one before |
| `ImplementsDelivery` | `Spec => Delivered`: the composition implements `FrameDelivery` |

The argument is about what a position means.  A connection was opened at the first
frame that was not acked then; the receiver is somewhere between there and what was
sent (`LinkOK`, `InOK`).  The frames that wait are a run without gaps in ids other
than those given up (`FrameOrder`, `Covered`): everything before the receiver's position
is stored, given up, or waits, so that what is acked is stored or given up (`Safe`),
whichever connection the ack travels on.  A snapshot made with the open connection
names no more than the receiver has read of it (`Snapshots`, `SnapsBehind`), which is
why its ack is never ahead of what the publisher sent on this connection
(`NoFatalAck`); a snapshot made with an earlier one is not acked, since the numbers
differ.  With other tracks in the channel this fails, which is why `NoFatalAck` is
conditional on them (section 6).  The invariant is the conjunction of these, of
`TypeOK` and of `LastAckSent`, with one lemma for each action; TLC checked it as an
invariant first.  For the refinement, a frame that is sent again after too many came
back is where `again` is used.

`InputBufs_proofs` proves about `InputBufs`, for any tracks, any finite sets of fillers
and requests, and any number of buffers, frames and segments
(`InputBufsAssumption`):

| theorem | |
|---|---|
| `InputBufsInvariance` | the inductive invariant `IInv` |
| `InputBufsType`, `InputBufsKeepsData`, `InputBufsKeptNoLonger`, `InputBufsCounted` | the invariants of the run |

Buffers are freed up to a limit that is known only for the first segment and the first
lock, so `DataKept` rests on the order of the media: a position that comes with a later
index is a later one, for segments, for frames and the packet behind them (`Ordered`),
and for locks (`LocksOrdered`); then nothing that is needed is before the limit
(`MinBelow`).  That is not enough, because a limit outside the queue frees all buffers
but the last: the limit must be in the queue, which it is because it is the start of
something that is needed itself, or the last data of the track.  For a lock that is
taken on a segment other than the first, this needs the order again.  What fillers
copied and what is read of it is not in that order; it stays because `no_partial_free`
does until nobody refers to the buffers (`Copied`).  `Counting` says that references
and locks are counted, with one lock for each segment, so that a lock goes with the
last of its readers.  `IInv` is the conjunction of these for each track, and of the
shape of the state.  `KeptNoLonger` is proved on top of it: a step that leaves buffers
with someone who refers to them either changes neither their start nor what it rests on,
or releases up to the limit of the state after it, which `IInv` in that state says is
in the queue.  There is one lemma for each operation on the buffers (`Lock`,
`Unlock`, `Unref`, `SetMinUsed`, ...) and one for each action.

`SegmentPersist_proofs` proves about `SegmentPersist`, for any positive size of the
buckets and of the timeline, and any number of forced segments, segments in a delta,
segments, failures and restarts (`SegmentPersistAssumption`):

| theorem | |
|---|---|
| `SegmentPersistInvariance` | the inductive invariant `IInv` |
| `SegmentPersistType`, `SnapshotsCounted`, `NamedMediaSaved`, `IndexWrittenAfterMedia`, `AcksWereReceived`, `HistoryIsSaved`, `BucketsWrittenOnce` | the invariants `TypeOK`, `SnapCount`, `NoDangling`, `IndexAfterMedia`, `AckedReceived`, `HistoryKept`, `MediaOnce` of the run |
| `StorageGoesForward` | the action property `StoredForward` |

A handler calls others in the middle of what it does, so the invariant has to be known
between the calls, when a step is taken in part.  `Good` says what holds of a channel
there; its parameters tell how far the step is: below which key the indexes are,
which segments are about to be created, from which bucket on nothing was written.
It is the conjunction of

- `Scalars`: the numbers that bound each other (`next`, `min`, `truncate`,
  `success_index`, the start of a delta);
- `Order`: a snapshot waits with a pending segment for one that is not before it, with
  no pending segment between the two, so that when the segment is done, all up to the
  end of the snapshot is; the writes of the index are of segments none of which is
  pending, and each goes further than the one before and than what storage was ever
  sent (`lv`).  This is what the queues of `ngx_live_segment_index_persisted` and
  `snap_close` keep though media writes end in any order;
- `Flight`: a bucket is written once; nothing is added to it once it was begun;
- `Stored`: a segment of the timeline has its media in storage, was given up, is
  pending, or is being created; what an index write names, and what a restart would
  read, has it or was given up;
- `Known`: what is acked, or may be acked by a snapshot that is held, was received
  from this publisher; `History`: what is written, or stored, has the past as it is
  now unless a change is noted.

`Standing` adds that the snapshots are counted (`Counted`) and that an index that left
the memory is only there for a write on its way (`FreeIn`); `Safe` adds the files:
they are well formed (`StoreOK`), storage is read no further than `lv`, and a delta
that does not continue the index now never will (`Readable`).  `lv` is not a variable
of the model, so `IInv` quantifies over it: it says that there is a bound that every
file was written under.  A restart that finds a delta of an earlier life has no such
bound, which is what `health = "stale"` records and why `NoDangling` and
`StoredForward` are conditional on it; that they need to be was found while proving.

`SegmentPersistSteps` first has what the proofs need of arithmetic (buckets), least
and greatest members, records and options, and says what the operators on snapshots
change; then it has one lemma for each operator that a handler is made
of, by which `Good` goes from its first parameters to its last; `SegmentPersist_proofs`
has one lemma for each action.  What a loop over the indexes leaves (`FreeEach`, the
watermark) is not shown by induction on an operator but by the least turn of the
recursive function that would break it.

`SegmentPersistAcks` proves, about the same, the property the module is for:

| theorem | |
|---|---|
| `SegmentsDue` | the inductive invariant `IInv /\ DueInv` |
| `AckedSegmentsSaved` | the invariant `AckedSaved` of the run |

`IInv` does not say what an ack stands for: frames are acked when a snapshot is closed,
by a number that the snapshot took when its segment was ready, while snapshots are
handed from index to index, from the index to the write, and from the write to its
answer, some closed on the way without an ack.  `Due` says, between the calls too, that

- `Owes`: a segment that must be saved before its frames are acked (`Owed`) is behind
  `a`, the end of the last index write that ended, or a snapshot that someone holds
  goes as far (`Covered`); what is not written yet is after `a` (`Above`); the
  publisher was told of no owed segment after `a` (`Reached`), and a snapshot that is
  closed with an ack tells it of none beyond the snapshot's own end (`FramesBehind`);
- `Records`: the timeline, an index that is being written, and each file that is or
  may be read, names every segment that is promised and in its part (`Lists`,
  `Names`), and none was truncated after a promised one;
- `Level`: while the history says that the last writes of the index ended well,
  storage is read at least up to `a`.

A segment leaves `Owed` when the code gives it up: its media failed, the cache freed
it unsaved, it was truncated, or it is older than the timeline.  Those are what
`excused`, `unsaved` and `early` remember, so the lemma of each operator shows that
it excuses no segment it is not entitled to, or that what was handed on still covers
it.  The answer of an index write is the one step that moves `a`; that a segment up to
there is read back follows from `Level` and `FilesName`.

`KmpOut_proofs` proves about `KmpOut`, for any upstreams, any positive size of the
buffers, and any configurations that `ConfAssumption` allows (limits, confirmations,
writers, packets and faults):

| theorem | |
|---|---|
| `KmpOutInvariance` | the inductive invariant `IInv` |
| `KmpOutType`, `EndOfStreamLast`, `HeadersAreHeld`, `BuffersOwned`, `AcksWereSent`, `ForgottenWereConfirmed` | the invariants `TypeOK`, `EosIsLast`, `HeaderHeld`, `BufferOwned`, `AckedWasSent`, `OnlyConfirmedForgotten` of the run |
| `ConnectionsAligned` | `StreamAligned`, unless an upstream is `last_written` (finding 4) or frames were acked for want of memory |
| `ReadersRetained` | `ReaderRetained`, if all upstreams are `last_acked` (finding 1 is about the others) and no frames were acked for want of memory |
| `ReadsAreGood` | `NoBadRead`, if all upstreams are `last_acked` and the watermark is off |
| `ResumesForward`, `LossIsReported` | the action properties `ResumeForward` and `LossReported` |

A handler leaves one of a set of states, and what is known has to hold of each of
them, after an error in the middle as well.  `IInv` is in two parts, `Good` and
`PhaseOK`.  `Good` holds of every state in a handler; it is `Sound`:

- `LogOK`: no packet is empty, each is at most one frame, and only what was written is
  appended; `MemoryOK`: a track with upstreams has buffers, which hold what was written
  and are within the limit; `HeadersOK` and `AlertsOK` are about the history;
- `UpsOK`: an upstream of the list acked no header that is not filled in, and nothing
  beyond what was sent, counted from where its connection starts; one that is not in
  the list has no connection, call or timer;

and `Resuming`, about the place from which each upstream resumes.  That its buffer is
in the queue (`Readable`) is not inductive: buffers are released up to the upstream
that acked the fewest *frames*, while packets that are no frames have no id.  It is
preserved because with `last_acked` a reader stops right behind the first packet with
as many frames (`FirstOf`), so that fewer frames is an earlier byte; the readers that
are moved by what was sent or written do not stop there, which is finding 1.

`PhaseOK` holds between handlers only: a request to publish is pending only
while there are no upstreams and all buffers (`PubOK`), a track whose buffers were
released is inactive and has no timer that writes (`NoBuffers`), the end of stream is
written last, by `Detach` (`EosOK`), and a track whose owner met no error is not in
the middle of a packet or blocked (`WholeOK`).

What a call may change is said by `Touches` (one upstream: it may ack, send,
disconnect), `Steps` (bytes are written, readers move on) and `Handled` (who stays does
not go back, who is lost is told); each operator of the model has a lemma that it
leaves what is `Good` and takes only such a step, and each action one that it is
`Done`.  What a loop leaves is shown for the least turn that would break it.

The proof found an error of the model, not of the code: an upstream that was added with
the place of another one took over what the other's receiver had confirmed, which is
less than that place when the other does not wait for acks; the history variable
`confirmed` now starts with the frames before that place, which the new receiver is
never sent.

Looking for a proof of `MemoryLastResort` showed that its first form, "memory runs out
only when an upstream used up its republishes", was true of the small instance alone:
a frame larger than the memory, null packets that are written while there is no
connection, and two upstreams each break it.  With two upstreams it is broken by the
code: `ngx_kmp_out_upstream_auto_ack` does not count the packet that makes up for what
was left to free, so when that is the first one `mem_watermark` takes it that nothing
was acked, and stops with less memory than the low watermark even when it could go on
with the other upstream.  The property now speaks of tracks with one upstream and
names the other two cases.  Its second form, that the whole high watermark was used up
after the last whole frame, is true of the runs but not of every configuration: the
watermark looks at the buffers that are left, not at the part of the active one that
is left, so up to one buffer less may have been written since.

`KmpOutMemory_proofs` proves that property, about the same:

| theorem | |
|---|---|
| `MemoryInvariance` | the inductive invariant `MInv`, which is `IInv /\ Fine(Now)` |
| `MemoryIsLastResort` | the action property `MemoryLastResort` |

`Fine` is what is known between handlers, from which the memory can be reckoned: a
buffer that is written to is not full (`Roomy`), the last frame ends a packet
(`FrameEnds`), and no reader is past an end of stream that was not written
(`EosRead`).  `MemoryLastResort` then follows from what holds while a packet is
written.  `Spared` says for the only upstream of an active track that its reader is far
enough (`Ahead`: if the buffers before it were released and the memory used up from
there on, the last whole frame would still end before the last `highMark - 1` buffers),
or that it may not be given up (`Stuck`), or that there was an alert.  The steps are:

- a turn of `auto_ack` with force that counts no packet acked enough, or all up to
  the last frame, or met an upstream that is stuck (`AutoAckForceTurned`); each of
  these makes `Spared` true, and so does a turn of the watermark that finds enough left;
- any other turn acks a packet or gives the connection up, so a measure of both
  (`Pot`) bounds the turns, and the watermark leaves what is `Spared`;
- what is written then (`Put`, `append_all`) keeps `Spared`, as readers only move on
  and the last frame stays; when a buffer is wanted and none is left, all that was
  appended is released up to the reader, and `Spared` says `Excused`;
- a call that writes nothing is `Mild`: it loses neither alerts nor the first error,
  and no error of memory is one of its own.  One lemma per action says `Rested`.

The configurations are those of `ConfAssumption`; that the high mark is no more than
the memory limit (`highMark <= memLimit`) is how the code computes it, as a percentage.

Model-checked only: liveness (`Settled`, `AckedInTheEnd`, `Delivered` and
`DetachedFreed` of `KmpOut`), which the provers cannot do.

## 6. Findings

Six places where the code does not do what its documentation or comments say;
each has a run that finds a counterexample.  The full text and the lines are in
`PROJECT.json`.

1. `kmp_out_tied`: the upstream that limits the release of buffers is chosen by
   `acked_frame_id`, which media info and null packets do not advance.  Of two
   upstreams that tie, both without acks, the first in the list wins, though the
   other may be buffers behind: the buffer it would resume from is released.
2. `kmp_out_optional`: an error of an upstream that is not required, met in
   `send_all` or `append_all`, is returned to the owner as the error of the track.
3. `kmp_out_abort`: a frame that was opened and never ended is sent with a zero
   header when the connection is (re)made or the stream is ended.
4. `kmp_out_written`: with `last_written`, the connect packet can name a frame
   after the first byte that is sent.

5. `persist_old`: the snapshot of a bucket that was written early waits with the last
   segment of an earlier bucket; when that segment leaves the timeline while its
   write is still on its way, the snapshot is acked though no index names the later
   segments.
6. `persist_delta`: whether a delta is written depends on the distance from
   `success_index` alone, which is 0 when there is no index: the first file may be a
   delta, which no restart reads, and its frames are acked.

Seen while modelling, without a run: when a track resumes while another track of the
channel makes a segment, or a snapshot is made just after it came back, the ack names
the `next_frame_id` of the track, which may be more than the publisher sent again on
the new connection; the publisher takes that for an error and does not connect again
(`ngx_live_channel.c:400`, `ngx_kmp_out_upstream.c:953`; `NoFatalAck` is conditional on
`mode.others` for this).  A connection that was refused, or a crash, after the
publisher ended its stream loses the frames that wait, since they are dropped by the
next header and nobody sends them again.  A segment that exists on no track closes its
snapshot before it was filled in, and takes the place of the frames of the index
that is being written, so that these are acked with a later segment only
(`AckedInTheEnd` names this exception); `history_changed` is cleared when an index
write starts, which may then fail.  With `last_sent`, a reader that was moved over
the end of stream packet parses past it (a comment in the code says "can happen in
case of auto push"; left out of `NoBadRead`); a failure of `mem_watermark` in the
middle of a packet does not set `write_error`, which only matters to a writer that
goes on (also left out); a timer for a stalled peer is set only once something was
sent (`ngx_kmp_out_upstream.c:1172`).

Also without a run, of the input buffers, in the part of them that concerns the
memory limit of the channel and that `InputBufs` leaves out: freeing a track
always detaches its queue from `channel->mem_left` before it frees the buffers, though
the comment (`ngx_live_input_bufs.c:44`) gives the end of the channel as the reason,
so the memory of a track that is deleted from a live channel is not given back to the
channel.  Freeing a filler's track, or a filler that fails to be set up, does the same
to the queue it shares with the source track, which goes on using it without a limit to
charge (`mem_left` is NULL).  A source that
was linked once is never freed in part again, until all who refer to it are gone.
Tracks of a channel that was read from a filler file have no `last_data_ptr`.

## 7. What is left out

- Of `KmpOut`: a connect that completes within the call, failed allocations other
  than those of the republish call and the send, JSON and the byte layout of
  packets, statistics, logging, the unpublish notification.
- Of `BufQueue`: offsets inside a buffer.
- Of `KmpIn` and `Delivery`: how packets are parsed and the headers checked, buffers
  (those are in `InputBufs`), statistics, the low latency segmenter, which may flush
  and ack before `acked_frame_id` is set (`ngx_kmp_in.c:1026`), and how the segmenter
  chooses where to cut: the model allows every cut before a key frame.
- Of `InputBufs`: what memory is charged for (in `BufQueue`), the empty buffers a
  filler's track has before it is linked, tracks read from a filler file, segments of
  the low latency segmenter, failed allocations.
- Of `SegmentPersist`: several timelines (the code takes the minimum of their first
  segments) and tracks (each acked on its own), `success_delta` (only reported),
  `no_truncate` and `cancel_read_if_empty`, low latency segments that are pending,
  reading a segment back from storage, the setup file, and checks that only log an
  alert.  A media write that failed is taken not to have arrived.
- Not modelled at all: the components marked `not_modelled` in `PROJECT.json`.
  Format conversions, request plumbing and the packager keep no state; demuxers and
  the RTMP protocol appear as the owner of a track; the transcoder is a
  multi-threaded program on FFmpeg of its own; the rest is in the plan.
