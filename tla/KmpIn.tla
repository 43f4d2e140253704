-------------------------------- MODULE KmpIn --------------------------------
(***************************************************************************)
(* The receiving end of KMP in the live server: the connections            *)
(* (nginx-kmp-in-module ngx_kmp_in.c, ngx_stream_live_kmp_module.c), and   *)
(* what the segmenter keeps of the track they feed (ngx_live_segmenter.c): *)
(* the frames that are not in a segment yet and the id of the next one.    *)
(* Frames are acked when their segment is created or, if segments are      *)
(* saved, when the snapshot that was made with it is closed.               *)
(*                                                                         *)
(* A frame is its id.  What comes in is a parameter of the actions: the    *)
(* initial frame id of a connect packet, and how many frames have come.    *)
(* How saving works is in SegmentPersist; of it, this module has the order *)
(* in which snapshots end and what is left of a track after a crash.       *)
(***************************************************************************)
EXTENDS Integers, Sequences

CONSTANTS
    MaxConns,   \* bound: numbers of connections
    Video,      \* the media type of the track is video
    Key,        \* frames with KMP_FRAME_FLAG_KEY
    Empty,      \* frames without data
    InfoAt,     \* frames before which media info is sent again
    MaxSkip     \* segmenter_max_skip_frames

ASSUME KmpInAssumption ==
    /\ MaxConns \in Nat /\ MaxSkip \in Nat
    /\ Video \in BOOLEAN

Conns == 1 .. MaxConns

VARIABLES
    in,         \* in[c]: the ngx_kmp_in_ctx_t of connection c
    input,      \* track->input, the number of a connection or 0
    next,       \* track->next_frame_id
    frames,     \* frames of the track that are not in a segment
    snaps,      \* snapshots that are not closed, oldest first
    durable,    \* frames of the segments that are saved
    at,         \* next_frame_id of the last snapshot that was saved
    mode,       \* whether segments are saved; whether there are more tracks
    stored,     \* history: frames in segments
    dropped,    \* history: frames the receiver did not want
    again       \* history: frames were taken that may be there already

inVars == <<in, input, next, frames, snaps, durable, at, mode, stored,
            dropped, again>>

\* a connection without its header
NewIn ==
    [st       |-> "none",  \* none, new (no header), open, refused, closed
     cur      |-> 0,       \* cur_frame_id
     skip     |-> 0,       \* skip_left
     waitKey  |-> FALSE,   \* wait_key
     infoFor  |-> -1,      \* frame the last media info came before
     acked    |-> 0,       \* acked_frame_id
     packet   |-> 0,       \* ack_packet.a.frame_id
     writing  |-> FALSE]   \* writing

ClosedIn == [NewIn EXCEPT !.st = "closed"]

InitIn ==
    /\ in = [c \in Conns |-> NewIn]
    /\ input = 0 /\ next = 0 /\ frames = << >>
    /\ snaps = << >> /\ durable = {} /\ at = 0
    /\ mode \in [saves : BOOLEAN, others : BOOLEAN]
    /\ stored = {} /\ dropped = {} /\ again = FALSE

-----------------------------------------------------------------------------
(* Acks *)

\* mutant: an id that was acked is acked again
AckFramesAny(i, n) ==
    IF i.writing THEN [i EXCEPT !.acked = n]
    ELSE [i EXCEPT !.acked = n, !.packet = n, !.writing = TRUE]

\* ngx_kmp_in_ack_frames: one ack is written at a time, the last one wins
AckFrames(i, n) ==
    IF n <= i.acked THEN i
    ELSE IF i.writing THEN [i EXCEPT !.acked = n]
    ELSE [i EXCEPT !.acked = n, !.packet = n, !.writing = TRUE]

\* the frames before n of the track are acked to its connection
AckInput(n) ==
    IF input = 0 THEN in ELSE [in EXCEPT ![input] = AckFrames(@, n)]

\* mutant: what came while the ack was written is forgotten
AckWrittenOnce(c) ==
    /\ in[c].st = "open" /\ in[c].writing
    /\ in' = [in EXCEPT ![c].writing = FALSE]

\* ngx_kmp_in_write_handler: an ack packet has left; another one follows if
\* more was acked meanwhile
AckWritten(c) ==
    /\ in[c].st = "open" /\ in[c].writing
    /\ in' = IF in[c].packet # in[c].acked
             THEN [in EXCEPT ![c].packet = in[c].acked]
             ELSE [in EXCEPT ![c].writing = FALSE]

-----------------------------------------------------------------------------
(* Connections *)

Accept(c) ==
    /\ in[c].st = "none"
    /\ in' = [in EXCEPT ![c] = [NewIn EXCEPT !.st = "new"]]
    /\ UNCHANGED <<input, next, frames, snaps, durable, at, mode, stored,
                   dropped, again>>

\* the track is already connected (ngx_stream_live_kmp_connected)
RefuseHeader(c) ==
    /\ in[c].st = "new" /\ input # 0
    /\ in' = [in EXCEPT ![c].st = "refused"]
    /\ UNCHANGED <<input, next, frames, snaps, durable, at, mode, stored,
                   dropped, again>>

\* mutant: the frames that wait stay
StartStreamKeeps(c, init) ==
    LET ahead == next - init
        tooFar == ahead > MaxSkip
    IN  /\ in[c].st = "new" /\ input = 0
        /\ input' = c
        /\ next' = IF tooFar THEN init ELSE next
        /\ again' = (again \/ tooFar)
        /\ in' = [in EXCEPT ![c] =
                    [NewIn EXCEPT !.st = "open", !.cur = init, !.acked = init,
                        !.skip = IF ahead > 0 /\ ~tooFar THEN ahead ELSE 0]]
        /\ UNCHANGED <<frames, snaps, durable, at, mode, stored, dropped>>

\* ngx_kmp_in_read_header, ngx_live_segmenter_start_stream: frames that are
\* not in a segment are forgotten, they come again; frames that are, are
\* skipped, unless there are too many of them
StartStream(c, init) ==
    LET ahead == next - init
        tooFar == ahead > MaxSkip
    IN  /\ in[c].st = "new" /\ input = 0
        /\ input' = c
        /\ frames' = << >>
        /\ next' = IF tooFar THEN init ELSE next
        /\ again' = (again \/ tooFar)
        /\ in' = [in EXCEPT ![c] =
                    [NewIn EXCEPT !.st = "open", !.cur = init, !.acked = init,
                        !.skip = IF ahead > 0 /\ ~tooFar THEN ahead ELSE 0]]
        /\ UNCHANGED <<snaps, durable, at, mode, stored, dropped>>

\* media info comes first, and before some frames
InfoDue(c, init) ==
    /\ in[c].st = "open"
    /\ in[c].cur \in {init} \cup InfoAt
    /\ in[c].infoFor # in[c].cur

\* ngx_kmp_in_media_info
ReadInfo(c, init) ==
    /\ InfoDue(c, init)
    /\ in' = [in EXCEPT ![c].infoFor = in[c].cur, ![c].waitKey = Video]
    /\ UNCHANGED <<input, next, frames, snaps, durable, at, mode, stored,
                   dropped, again>>

\* the next packet is a frame; sent says how many have come
FrameDue(c, init, sent) ==
    /\ in[c].st = "open" /\ in[c].cur < sent
    /\ ~InfoDue(c, init)

\* ngx_kmp_in_frame: one that the track has
SkipFrame(c, init, sent) ==
    /\ FrameDue(c, init, sent) /\ in[c].skip > 0
    /\ in' = [in EXCEPT ![c].skip = @ - 1, ![c].cur = @ + 1]
    /\ UNCHANGED <<input, next, frames, snaps, durable, at, mode, stored,
                   dropped, again>>

\* no media info, no data, or no key frame yet
Refused(i) ==
    i.infoFor = -1 \/ i.cur \in Empty \/ (i.waitKey /\ i.cur \notin Key)

RefuseFrame(c, init, sent) ==
    /\ FrameDue(c, init, sent) /\ in[c].skip = 0 /\ Refused(in[c])
    /\ in' = [in EXCEPT ![c].cur = @ + 1]
    /\ dropped' = dropped \cup {in[c].cur}
    /\ UNCHANGED <<input, next, frames, snaps, durable, at, mode, stored, again>>

\* a list of video frames starts with a key frame
Unusable(f) == Video /\ frames = << >> /\ f \notin Key

\* ngx_kmp_in_frame, ngx_live_segmenter_add_frame
AddFrame(c, init, sent) ==
    LET f == in[c].cur
    IN  /\ FrameDue(c, init, sent) /\ in[c].skip = 0 /\ ~Refused(in[c])
        /\ in' = [in EXCEPT ![c].waitKey = FALSE, ![c].cur = @ + 1]
        /\ frames' = IF Unusable(f) THEN frames ELSE Append(frames, f)
        /\ dropped' = IF Unusable(f) THEN dropped \cup {f} ELSE dropped
        /\ UNCHANGED <<input, next, snaps, durable, at, mode, stored, again>>

\* mutant: the track is not told
CloseKeepsInput(c) ==
    /\ in[c].st \in {"new", "open"}
    /\ in' = [in EXCEPT ![c] = ClosedIn]
    /\ UNCHANGED <<input, next, frames, snaps, durable, at, mode, stored,
                   dropped, again>>

\* the connection is closed and cleaned up: end of stream, an error, a
\* timeout (ngx_kmp_in_cleanup, ngx_stream_live_kmp_disconnected).  The
\* frames stay.
Close(c) ==
    /\ in[c].st \in {"new", "open"}
    /\ in' = [in EXCEPT ![c] = ClosedIn]
    /\ input' = IF input = c THEN 0 ELSE input
    /\ UNCHANGED <<next, frames, snaps, durable, at, mode, stored, dropped,
                   again>>

-----------------------------------------------------------------------------
(* The track *)

Firsts(k) == {frames[i] : i \in 1 .. k}

\* where the frames can be cut in two: video before a key frame
Cut(k) ==
    /\ k \in 0 .. Len(frames)
    /\ Video /\ k \in 1 .. Len(frames) - 1 => frames[k + 1] \in Key

NextAfter(k) == IF k = 0 THEN next ELSE frames[k] + 1

\* ngx_live_segmenter_frame_list_remove
Remove(k) ==
    /\ frames' = SubSeq(frames, k + 1, Len(frames))
    /\ next' = NextAfter(k)

\* A segment of the first k frames, or of none when it is of other tracks
\* only (ngx_live_segmenter_track_create_segment,
\* ngx_live_segment_index_ready).
CreateSegment(k) ==
    /\ Cut(k)
    /\ k = 0 => mode.others
    /\ Remove(k)
    /\ stored' = stored \cup Firsts(k)
    /\ IF mode.saves
       THEN /\ snaps' = Append(snaps, [conn |-> input, id |-> NextAfter(k),
                                       set |-> stored'])
            /\ in' = in
       ELSE /\ snaps' = snaps
            /\ in' = AckInput(NextAfter(k))
    /\ UNCHANGED <<input, durable, at, mode, dropped, again>>

\* mutant: the frames are acked though a snapshot is open
DisposeAcks(k) ==
    /\ Cut(k) /\ k > 0
    /\ Remove(k)
    /\ dropped' = dropped \cup Firsts(k)
    /\ in' = AckInput(NextAfter(k))
    /\ UNCHANGED <<input, snaps, durable, at, mode, stored, again>>

\* The first k frames are left out: they are too old, no cut fits, or no
\* timeline is active (ngx_live_segmenter_remove_frames).
Dispose(k) ==
    /\ Cut(k) /\ k > 0
    /\ Remove(k)
    /\ dropped' = dropped \cup Firsts(k)
    /\ in' = IF snaps = << >> THEN AckInput(NextAfter(k)) ELSE in
    /\ UNCHANGED <<input, snaps, durable, at, mode, stored, again>>

\* mutant: the number of the connection is not compared
CloseSnapAny(told) ==
    LET s == Head(snaps)
    IN  /\ snaps # << >>
        /\ snaps' = Tail(snaps)
        /\ durable' = durable \cup s.set
        /\ at' = s.id
        /\ in' = IF told THEN AckInput(s.id) ELSE in
        /\ UNCHANGED <<input, next, frames, mode, stored, dropped, again>>

\* The oldest snapshot was saved (ngx_live_persist_snap_frames_close).  Its
\* frames are acked, unless another snapshot took their place.
CloseSnap(told) ==
    LET s == Head(snaps)
    IN  /\ snaps # << >>
        /\ snaps' = Tail(snaps)
        /\ durable' = durable \cup s.set
        /\ at' = s.id
        /\ in' = IF told /\ s.conn = input THEN AckInput(s.id) ELSE in
        /\ UNCHANGED <<input, next, frames, mode, stored, dropped, again>>

\* a snapshot that waits is replaced by the one after it
MergeSnap ==
    /\ Len(snaps) > 1
    /\ snaps' = Tail(snaps)
    /\ UNCHANGED <<in, input, next, frames, durable, at, mode, stored, dropped,
                   again>>

\* mutant: the id of the next frame is not read back
CrashForgets ==
    /\ mode.saves
    /\ in' = [c \in Conns |-> IF in[c].st \in {"new", "open"}
                              THEN ClosedIn ELSE in[c]]
    /\ input' = 0 /\ frames' = << >> /\ snaps' = << >>
    /\ next' = 0 /\ stored' = durable
    /\ UNCHANGED <<durable, at, mode, dropped, again>>

\* The server stops, and reads back what was saved
\* (ngx_live_persist_index_read_track).
Crash ==
    /\ mode.saves
    /\ in' = [c \in Conns |-> IF in[c].st \in {"new", "open"}
                              THEN ClosedIn ELSE in[c]]
    /\ input' = 0 /\ frames' = << >> /\ snaps' = << >>
    /\ next' = at /\ stored' = durable
    /\ UNCHANGED <<durable, at, mode, dropped, again>>
=============================================================================
