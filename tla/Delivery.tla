------------------------------- MODULE Delivery -------------------------------
(***************************************************************************)
(* Both ends of KMP: a publisher, what is on the connections, and KmpIn.   *)
(* The publisher is one upstream of KmpOut with resume_from last_acked:    *)
(* it holds the frames that were not acked, connects again after an error  *)
(* and starts where the acks are (ngx_kmp_out_upstream.c).                 *)
(*                                                                         *)
(* What a connection carries follows from where it started: media info,    *)
(* then the frames in order.  So it is kept as the frame it started at and *)
(* how many frames have left; the receiver is at in[c].cur.  Each end      *)
(* finds out by itself that the other is gone, and what was on the way may *)
(* be lost then.  Acks are a queue.                                        *)
(***************************************************************************)
EXTENDS KmpIn

CONSTANTS
    MaxFrames,      \* bound: frames; the stream ends with the last one
    MaxFaults       \* bound: errors, frames given up, and
                    \* segments without a frame of the track

ASSUME DeliveryAssumption == MaxFrames \in Nat /\ MaxFaults \in Nat

VARIABLES
    made,       \* frames written to the upstream
    held,       \* acked_frame_id
    pub,        \* live, ending (the end was sent), ended (the receiver read
                \* the end), cut (it did not, or crashed), fatal (no_republish)
    conn,       \* the connection of the publisher or 0
    dialed,     \* numbers of connections used
    link,       \* link[c]: what is on connection c
    forced,     \* history: frames the publisher forgot untold
    faults

pubVars == <<made, held, pub, conn, dialed, link, forced, faults>>
vars == <<in, input, next, frames, snaps, durable, at, mode, stored, dropped,
          again, made, held, pub, conn, dialed, link, forced, faults>>

NewLink ==
    [init  |-> 0,       \* initial_frame_id
     sent  |-> 0,       \* frames that left; they are those before sent
     eos   |-> FALSE,   \* and the end of the stream
     acks  |-> << >>,   \* acks on their way
     told  |-> 0]       \* the last ack that left, or init

Init ==
    /\ InitIn
    /\ made = 0 /\ held = 0 /\ pub = "live"
    /\ conn = 0 /\ dialed = 0
    /\ link = [c \in Conns |-> NewLink]
    /\ forced = {} /\ faults = 0

Fault == faults < MaxFaults /\ faults' = faults + 1

Fine == faults' = faults

-----------------------------------------------------------------------------
(* The publisher *)

\* ngx_kmp_out_track_write_frame
Publish ==
    /\ pub = "live" /\ made < MaxFrames
    /\ made' = made + 1
    /\ UNCHANGED <<inVars, held, pub, conn, dialed, link, forced, faults>>

\* mutant: it starts after what was sent
DialAfterSent ==
    /\ pub = "live" /\ conn = 0 /\ dialed < MaxConns
    /\ dialed' = dialed + 1 /\ conn' = dialed + 1
    /\ LET from == IF dialed = 0 THEN held ELSE link[dialed].sent
       IN link' = [link EXCEPT ![dialed + 1] =
                    [NewLink EXCEPT !.init = from, !.sent = from,
                                    !.told = from]]
    /\ Accept(dialed + 1)
    /\ UNCHANGED <<made, held, pub, forced, faults>>

\* ngx_kmp_out_upstream_connect; the connect packet names the first frame
\* that is not acked
Dial ==
    /\ pub = "live" /\ conn = 0 /\ dialed < MaxConns
    /\ dialed' = dialed + 1 /\ conn' = dialed + 1
    /\ link' = [link EXCEPT ![dialed + 1] =
                    [NewLink EXCEPT !.init = held, !.sent = held,
                                    !.told = held]]
    /\ Accept(dialed + 1)
    /\ UNCHANGED <<made, held, pub, forced, faults>>

\* ngx_kmp_out_upstream_send_chain
Send ==
    /\ conn # 0 /\ link[conn].sent < made
    /\ link' = [link EXCEPT ![conn].sent = @ + 1]
    /\ UNCHANGED <<inVars, made, held, pub, conn, dialed, forced, faults>>

\* The source is gone: the end of the stream leaves after the last frame
\* (ngx_kmp_out_track_detach).
SendEnd ==
    /\ pub = "live" /\ conn # 0
    /\ made = MaxFrames /\ link[conn].sent = made
    /\ pub' = "ending"
    /\ link' = [link EXCEPT ![conn].eos = TRUE]
    /\ UNCHANGED <<inVars, made, held, conn, dialed, forced, faults>>

\* ngx_kmp_out_upstream_ack_frames: an ack of frames that were not sent on
\* this connection is an error, after which it is not made again
ReadAck ==
    /\ conn # 0 /\ link[conn].acks # << >>
    /\ LET n == Head(link[conn].acks)
       IN  /\ link' = [link EXCEPT ![conn].acks = Tail(@)]
           /\ IF n > held /\ n > link[conn].sent
              THEN /\ pub' = "fatal" /\ conn' = 0
                   /\ UNCHANGED held
              ELSE /\ held' = IF n > held THEN n ELSE held
                   /\ UNCHANGED <<pub, conn>>
    /\ UNCHANGED <<inVars, made, dialed, forced, faults>>

\* memory is low, the first frame goes (ngx_kmp_out_upstream_auto_ack)
ForceAck ==
    /\ Fault
    /\ pub = "live" /\ held < IF conn # 0 THEN link[conn].sent ELSE made
    /\ held' = held + 1
    /\ forced' = forced \cup {held}
    /\ UNCHANGED <<inVars, made, pub, conn, dialed, link>>

\* what is left of the upstream when its connection ends
\* (ngx_kmp_out_upstream_republish)
Left == IF pub = "ending" THEN "cut" ELSE pub

\* The connection breaks, for the publisher; acks are lost.  The receiver
\* reads none, some or all of what is on the way before it notices.
Break ==
    /\ Fault
    /\ conn # 0 /\ in[conn].st \in {"new", "open"}
    /\ link' = [link EXCEPT ![conn].acks = << >>]
    /\ conn' = 0 /\ pub' = Left
    /\ UNCHANGED <<inVars, made, held, dialed, forced>>

\* The receiver closed it.  The number of a connection that was refused is
\* used again, to have fewer states.
Closed ==
    /\ conn # 0 /\ in[conn].st \in {"refused", "closed"}
    /\ conn' = 0
    /\ pub' = Left
    /\ link' = [link EXCEPT ![conn] = NewLink]
    /\ IF in[conn].st = "refused"
       THEN /\ dialed' = dialed - 1
            /\ in' = [in EXCEPT ![conn] = NewIn]
       ELSE UNCHANGED <<dialed, in>>
    /\ UNCHANGED <<input, next, frames, snaps, durable, at, mode, stored,
                   dropped, again, made, held, forced, faults>>

-----------------------------------------------------------------------------
(* The receiver *)

\* a step of the receiver that changes neither what is on the connections
\* nor the publisher
Receiver(A) == A /\ UNCHANGED <<made, held, pub, conn, dialed, link, forced>>

\* a connection the publisher has left is forgotten with the receiver's end
Closing(c) == [link EXCEPT ![c] = IF c = conn THEN @ ELSE NewLink]

\* a publisher that is gone does not send again what is lost
Lost == IF pub = "ended" THEN "cut" ELSE pub

ReadHeader(c) ==
    \/ /\ Fine /\ RefuseHeader(c)
       /\ link' = Closing(c)
       /\ UNCHANGED <<made, held, pub, conn, dialed, forced>>
    \/ /\ Fine /\ StartStream(c, link[c].init)
       /\ pub' = IF frames = << >> THEN pub ELSE Lost
       /\ UNCHANGED <<made, held, conn, dialed, link, forced>>

Read(c) ==
    Receiver(Fine /\ (\/ ReadInfo(c, link[c].init)
                      \/ SkipFrame(c, link[c].init, link[c].sent)
                      \/ RefuseFrame(c, link[c].init, link[c].sent)
                      \/ AddFrame(c, link[c].init, link[c].sent)))

ReadEnd(c) ==
    /\ in[c].st = "open" /\ link[c].eos /\ in[c].cur = link[c].sent
    /\ Fine /\ Close(c)
    /\ pub' = IF pub = "ending" THEN "ended" ELSE pub
    /\ link' = Closing(c)
    /\ UNCHANGED <<made, held, conn, dialed, forced>>

\* the publisher is gone
Gone(c) ==
    /\ c # conn /\ Fine
    /\ Close(c)
    /\ link' = Closing(c)
    /\ UNCHANGED <<made, held, pub, conn, dialed, forced>>

\* an error or a timeout of the receiver
Drop == conn # 0 /\ Receiver(Fault /\ Close(conn))

WriteAck(c) ==
    /\ Fine
    /\ AckWritten(c)
    /\ link' = [link EXCEPT
                    ![c].acks = IF c = conn THEN Append(@, in[c].packet) ELSE @,
                    ![c].told = in[c].packet]
    /\ UNCHANGED <<input, next, frames, snaps, durable, at, mode, stored,
                   dropped, again, made, held, pub, conn, dialed, forced>>

Segment(k) == Receiver((IF k = 0 THEN Fault ELSE Fine) /\ CreateSegment(k))
Discard(k) == Receiver(Fault /\ Dispose(k))
Save(told) == Receiver(Fine /\ CloseSnap(told))
Merge == Receiver(Fine /\ MergeSnap)

Restart ==
    /\ Fault /\ Crash
    /\ pub' = Lost
    /\ link' = [c \in Conns |-> IF c = conn THEN link[c] ELSE NewLink]
    /\ UNCHANGED <<made, held, conn, dialed, forced>>

-----------------------------------------------------------------------------

PubNext ==
    \/ Publish \/ Dial \/ Send \/ SendEnd \/ ReadAck \/ ForceAck
    \/ Break \/ Closed

InNext ==
    \/ \E c \in Conns : \/ ReadHeader(c) \/ Read(c) \/ ReadEnd(c) \/ Gone(c)
                        \/ WriteAck(c)
    \/ \E k \in 0 .. MaxFrames : Segment(k) \/ Discard(k)
    \/ \E told \in BOOLEAN : Save(told)
    \/ Drop \/ Merge \/ Restart

Next == PubNext \/ InNext

Spec == Init /\ [][Next]_vars

PubStep == Dial \/ Send \/ ReadAck \/ Closed

InStep(c) == ReadHeader(c) \/ Read(c) \/ ReadEnd(c) \/ Gone(c) \/ WriteAck(c)

\* The publisher connects again, sends what it has, and reads.  The receiver
\* reads what has come on each connection, its sockets become writable, it
\* notices that a publisher is gone; frames get into a segment after
\* inactive_timeout at the latest; storage answers.
FairSpec ==
    /\ Spec
    /\ WF_vars(PubStep)
    /\ \A c \in Conns : WF_vars(InStep(c))
    /\ WF_vars(\E k \in 1 .. MaxFrames : Segment(k))
    /\ WF_vars(Save(TRUE))

-----------------------------------------------------------------------------
(* Properties *)

Ids == 0 .. MaxFrames

InType ==
    [st : {"none", "new", "open", "refused", "closed"},
     cur : Ids, skip : Ids,
     waitKey : BOOLEAN, infoFor : Ids \cup {-1}, acked : Ids, packet : Ids,
     writing : BOOLEAN]

LinkType ==
    [init : Ids, sent : Ids, eos : BOOLEAN, acks : Seq(Ids), told : Ids]

SnapType == [conn : Conns \cup {0}, id : Ids, set : SUBSET Ids]

\* The shape of the state; the track is fed by the one connection that is
\* open, and none is read further than it was sent.
TypeOK ==
    /\ in \in [Conns -> InType]
    /\ link \in [Conns -> LinkType]
    /\ input \in Conns \cup {0} /\ conn \in Conns \cup {0}
    /\ dialed \in 0 .. MaxConns
    /\ next \in Ids /\ at \in Ids /\ made \in Ids /\ held \in 0 .. made
    /\ frames \in Seq(Ids)
    /\ snaps \in Seq(SnapType)
    /\ durable \subseteq Ids /\ stored \subseteq Ids
    /\ dropped \subseteq Ids /\ forced \subseteq Ids
    /\ mode \in [saves : BOOLEAN, others : BOOLEAN]
    /\ again \in BOOLEAN
    /\ pub \in {"live", "ending", "ended", "cut", "fatal"}
    /\ faults \in 0 .. MaxFaults
    /\ \A c \in Conns : in[c].st = "open" <=> input = c
    /\ \A c \in Conns : in[c].st = "open" => in[c].cur <= link[c].sent

Abstract == INSTANCE FrameDelivery WITH given <- dropped \cup forced

\* Frames are taken once and in order, and the publisher forgets only what
\* is in a segment or was given up, whichever end breaks the connection and
\* when, and though a publisher may send again what it sent before and the
\* receiver may crash.
Delivered == Abstract!Spec

\* No ack is lost while another is written: when nothing is being written,
\* what was last told is all that was acked, and what is being written is
\* more than was told.
LastAckSent ==
    \A c \in Conns : in[c].st = "open" =>
        IF in[c].writing
        THEN link[c].told < in[c].packet /\ in[c].packet <= in[c].acked
        ELSE link[c].told = in[c].acked

TellsMore(c) == Len(link'[c].acks) > Len(link[c].acks)

\* An ack that is written on a connection is more than the one before.
AcksForward ==
    [][\A c \in Conns : TellsMore(c) => link'[c].told > link[c].told]_vars

\* A publisher that resumes is told nothing of frames it did not send again
\* yet, which it would take for an error, although these may be saved just
\* now.  It may be when another track of the channel gets a segment.
NoFatalAck == pub = "fatal" => mode.others

Kept(f) == f \in stored \cup dropped \cup forced

\* In the end every frame is in a segment or was given up, and the publisher
\* knows what was acked, unless the stream ended before all was sent or with
\* an error as above.
Settled ==
    <>[](\/ pub \in {"cut", "fatal"}
         \/ /\ \A f \in 0 .. made - 1 : Kept(f)
            /\ conn # 0 /\ conn = input => held >= in[conn].acked)
=============================================================================
