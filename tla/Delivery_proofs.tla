--------------------------- MODULE Delivery_proofs ---------------------------
(***************************************************************************)
(* The safety properties of Delivery for any number of connections, frames *)
(* and faults, and the refinement of FrameDelivery.                        *)
(*                                                                         *)
(* That an acked frame is not lost follows from where acks come from.  An  *)
(* ack is next_frame_id at some moment: of the track, or of a snapshot.    *)
(* So every frame before next_frame_id has to be accounted for, which      *)
(* needs that the frames that wait are in order and that none is missing   *)
(* between them and the frame the connection is at; and what a snapshot    *)
(* holds, with what is saved, has to be everything there is in segments.   *)
(***************************************************************************)
EXTENDS Delivery, SequenceTheorems, TLAPS

\* No frame is known that was not made.
Bounds ==
    /\ next <= made /\ at <= made
    /\ \A i \in 1 .. Len(frames) : frames[i] < made
    /\ \A i \in 1 .. Len(snaps) : snaps[i].id <= made

\* The publisher uses the last number.
Numbers ==
    /\ conn \in {0, dialed}
    /\ \A c \in Conns : in[c].st = "none" <=> c > dialed
    /\ \A i \in 1 .. Len(snaps) : snaps[i].conn # 0 =>
            in[snaps[i].conn].st \in {"open", "closed"}

\* The frames that wait are in order, between next_frame_id and the frame
\* the connection is at.
FrameOrder ==
    /\ \A i, j \in 1 .. Len(frames) : i < j => frames[i] < frames[j]
    /\ \A i \in 1 .. Len(frames) : next <= frames[i]
    /\ input # 0 =>
        /\ next <= in[input].cur + in[input].skip
        /\ in[input].skip # 0 => next = in[input].cur + in[input].skip
        /\ \A i \in 1 .. Len(frames) : frames[i] < in[input].cur
        /\ frames # << >> => in[input].skip = 0

\* Segments, snapshots and the track are one after the other, unless the
\* stream was taken for a new one.
SegOrder ==
    ~again =>
        /\ \A g \in stored : g < next
        /\ \A g \in durable : g < at
        /\ at <= next
        /\ \A i \in 1 .. Len(snaps) :
            /\ at <= snaps[i].id /\ snaps[i].id <= next
            /\ \A g \in snaps[i].set : g < snaps[i].id
        /\ \A i, j \in 1 .. Len(snaps) : i < j => snaps[i].id <= snaps[j].id

Given == dropped \cup forced

\* No frame is missing before the next one, before one that waits, and
\* before the one the connection is at.
Covered ==
    /\ \A f \in 0 .. next - 1 : f \in stored \cup Given
    /\ \A i \in 1 .. Len(frames) : \A f \in 0 .. frames[i] - 1 :
            f \in stored \cup Given \/ \E j \in 1 .. i - 1 : frames[j] = f
    /\ input # 0 => \A f \in 0 .. in[input].cur - 1 :
            f \in stored \cup Given \/ \E j \in 1 .. Len(frames) : frames[j] = f

\* What is saved, and what every snapshot would save.
Snapshots ==
    /\ snaps # << >> => mode.saves
    /\ durable \subseteq stored
    /\ \A f \in 0 .. at - 1 : f \in durable \cup Given
    /\ \A i \in 1 .. Len(snaps) :
        /\ snaps[i].set \subseteq stored
        /\ \A f \in 0 .. snaps[i].id - 1 : f \in snaps[i].set \cup Given
    /\ mode.saves /\ snaps = << >> => stored \subseteq durable
    /\ snaps # << >> => stored \subseteq durable \cup snaps[Len(snaps)].set

\* what a crash leaves, and what was given up
Lasting == (IF mode.saves THEN durable ELSE stored) \cup Given

\* the frames before n may be forgotten
Safe(n) == 0 .. n - 1 \subseteq Lasting

\* What left on a connection: acks are safe, and not of frames that did not
\* leave if the track is the only one.
LinkOK(c) ==
    /\ link[c].init <= link[c].sent /\ link[c].sent <= made
    /\ \A i \in 1 .. Len(link[c].acks) :
        /\ link[c].acks[i] <= made
        /\ Safe(link[c].acks[i])
        /\ ~mode.others => link[c].acks[i] <= link[c].sent

\* What is acked to a connection.
InOK(c) ==
    /\ in[c].acked <= made /\ in[c].packet <= made
    /\ in[c].st = "new" => /\ link[c].told = link[c].init
                           /\ Safe(link[c].init)
    /\ in[c].st = "open" => /\ Safe(in[c].acked) /\ Safe(in[c].packet)
                            /\ ~mode.others => in[c].acked <= in[c].cur

\* A snapshot made for the connection is not ahead of it.
SnapsBehind ==
    ~mode.others => \A i \in 1 .. Len(snaps) :
        snaps[i].conn = input /\ input # 0 => snaps[i].id <= in[input].cur

IInv ==
    /\ TypeOK /\ Bounds /\ Numbers
    /\ FrameOrder /\ SegOrder /\ Covered /\ Snapshots /\ SnapsBehind
    /\ Safe(held)
    /\ \A c \in Conns : LinkOK(c) /\ InOK(c)
    /\ LastAckSent /\ NoFatalAck

-----------------------------------------------------------------------------
(* The records and the lists *)

LEMMA IdNumbers == Ids \subseteq Nat /\ Ids \subseteq Int
    BY DeliveryAssumption DEF Ids

LEMMA NextId ==
    ASSUME NEW a \in Ids, NEW b \in Ids, a < b
    PROVE  a + 1 \in Ids /\ a + 1 <= b /\ a <= a + 1 /\ a + 1 \in Int
    BY DeliveryAssumption DEF Ids

LEMMA SmallerId ==
    ASSUME NEW a \in Nat, NEW b \in Ids, a <= b
    PROVE  a \in Ids
    BY DeliveryAssumption DEF Ids

LEMMA RecordTypes ==
    /\ 0 \in Ids
    /\ NewIn \in InType /\ ClosedIn \in InType
    /\ NewLink \in LinkType
<1>1. 0 \in Ids
    BY DeliveryAssumption DEF Ids
<1>2. << >> \in Seq(Ids)
    OBVIOUS
<1> QED BY <1>1, <1>2 DEF NewIn, ClosedIn, NewLink, InType, LinkType

\* What an ack changes of a connection.
LEMMA AckFramesFields ==
    ASSUME NEW i \in InType, NEW n \in Ids
    PROVE  /\ AckFrames(i, n) \in InType
           /\ AckFrames(i, n).st = i.st
           /\ AckFrames(i, n).cur = i.cur
           /\ AckFrames(i, n).skip = i.skip
           /\ AckFrames(i, n).acked = IF n <= i.acked THEN i.acked ELSE n
           /\ AckFrames(i, n).packet \in {i.packet, n}
           /\ n <= i.acked => AckFrames(i, n) = i
           /\ n > i.acked => /\ AckFrames(i, n).writing
                             /\ AckFrames(i, n).packet =
                                    IF i.writing THEN i.packet ELSE n
<1>1. i.acked \in Int /\ n \in Int
    BY IdNumbers DEF InType
<1>2. CASE n <= i.acked
  <2>1. AckFrames(i, n) = i
    BY <1>2 DEF AckFrames
  <2> QED BY <2>1, <1>1, <1>2
<1>3. CASE n > i.acked
  <2>1. ~(n <= i.acked)
    BY <1>1, <1>3
  <2>2. CASE i.writing
    <3>1. AckFrames(i, n) = [i EXCEPT !.acked = n]
      BY <2>1, <2>2 DEF AckFrames
    <3> QED BY <3>1, <2>1, <2>2 DEF InType
  <2>3. CASE ~i.writing
    <3>1. AckFrames(i, n) =
            [i EXCEPT !.acked = n, !.packet = n, !.writing = TRUE]
      BY <2>1, <2>3 DEF AckFrames
    <3> QED BY <3>1, <2>1, <2>3 DEF InType
  <2> QED BY <2>2, <2>3
<1> QED BY <1>1, <1>2, <1>3

\* The first k frames are taken away.
LEMMA RemoveProperties ==
    ASSUME frames \in Seq(Ids), NEW k \in 0 .. Len(frames), Remove(k)
    PROVE  /\ frames' \in Seq(Ids)
           /\ Len(frames') = Len(frames) - k
           /\ \A i \in 1 .. Len(frames') : frames'[i] = frames[i + k]
           /\ k = 0 => next' = next
           /\ k # 0 => k \in 1 .. Len(frames) /\ next' = frames[k] + 1
<1>1. Len(frames) \in Nat /\ \A i \in 1 .. Len(frames) : frames[i] \in Ids
    BY LenProperties, ElementOfSeq
<1>2. frames' = SubSeq(frames, k + 1, Len(frames))
    BY DEF Remove
<1>3. /\ k + 1 \in Int /\ Len(frames) \in Int
      /\ \A i \in k + 1 .. Len(frames) : frames[i] \in Ids
    BY <1>1
<1>4. /\ frames' \in Seq(Ids)
      /\ Len(frames') = IF k + 1 <= Len(frames)
                        THEN Len(frames) - (k + 1) + 1 ELSE 0
      /\ \A i \in 1 .. Len(frames) - (k + 1) + 1 :
            frames'[i] = frames[k + 1 + i - 1]
    BY <1>2, <1>3, SubSeqProperties
<1>5. Len(frames') = Len(frames) - k
    BY <1>1, <1>4
<1>6. \A i \in 1 .. Len(frames') : frames'[i] = frames[i + k]
  <2> SUFFICES ASSUME NEW i \in 1 .. Len(frames')
               PROVE  frames'[i] = frames[i + k]
    OBVIOUS
  <2>1. i \in 1 .. Len(frames) - (k + 1) + 1 /\ k + 1 + i - 1 = i + k
    BY <1>1, <1>5
  <2> QED BY <2>1, <1>4
<1>7. /\ k = 0 => next' = next
      /\ k # 0 => k \in 1 .. Len(frames) /\ next' = frames[k] + 1
    BY <1>1 DEF Remove, NextAfter
<1> QED BY <1>4, <1>5, <1>6, <1>7

-----------------------------------------------------------------------------
(* What most steps keep *)

\* A frame that is accounted for stays so.
LEMMA LastingGrows ==
    ASSUME durable \subseteq durable', stored \subseteq stored' \/ mode.saves,
           mode' = mode, Given \subseteq Given'
    PROVE  Lasting \subseteq Lasting'
    BY DEF Lasting

\* The elements of the lists, and the numbers.
LEMMA Elements ==
    ASSUME TypeOK
    PROVE  /\ next \in Int /\ at \in Int /\ made \in Int /\ held \in Int
           /\ Len(frames) \in Nat /\ Len(snaps) \in Nat
           /\ \A i \in 1 .. Len(frames) : frames[i] \in Ids /\ frames[i] \in Int
           /\ \A i \in 1 .. Len(snaps) :
                /\ snaps[i] \in SnapType
                /\ snaps[i].id \in Int /\ snaps[i].conn \in Conns \cup {0}
<1>1. next \in Int /\ at \in Int /\ made \in Int /\ held \in Int
    BY IdNumbers DEF TypeOK
<1>2. /\ Len(frames) \in Nat
      /\ \A i \in 1 .. Len(frames) : frames[i] \in Ids
    BY LenProperties, ElementOfSeq DEF TypeOK
<1>3. /\ Len(snaps) \in Nat
      /\ \A i \in 1 .. Len(snaps) : snaps[i] \in SnapType
    BY LenProperties, ElementOfSeq DEF TypeOK
<1>4. \A x \in SnapType : x.id \in Ids /\ x.conn \in Conns \cup {0}
    BY DEF SnapType
<1> QED BY <1>1, <1>2, <1>3, <1>4, IdNumbers

\* The fields of a connection.
LEMMA Fields ==
    ASSUME TypeOK, NEW c \in Conns
    PROVE  /\ in[c] \in InType /\ link[c] \in LinkType
           /\ in[c].cur \in Int /\ in[c].skip \in Nat
           /\ in[c].acked \in Ids /\ in[c].packet \in Ids
           /\ in[c].acked \in Int /\ in[c].packet \in Int
           /\ link[c].init \in Ids /\ link[c].sent \in Ids /\ link[c].told \in Ids
           /\ link[c].init \in Int /\ link[c].sent \in Int /\ link[c].told \in Int
           /\ link[c].acks \in Seq(Ids) /\ Len(link[c].acks) \in Nat
           /\ \A i \in 1 .. Len(link[c].acks) :
                link[c].acks[i] \in Ids /\ link[c].acks[i] \in Int
<1>1. in[c] \in InType /\ link[c] \in LinkType
    BY DEF TypeOK
<1>2. /\ in[c].cur \in Ids /\ in[c].skip \in Ids
      /\ in[c].acked \in Ids /\ in[c].packet \in Ids
    BY <1>1 DEF InType
<1>3. /\ link[c].init \in Ids /\ link[c].sent \in Ids /\ link[c].told \in Ids
      /\ link[c].acks \in Seq(Ids)
    BY <1>1 DEF LinkType
<1>4. /\ Len(link[c].acks) \in Nat
      /\ \A i \in 1 .. Len(link[c].acks) : link[c].acks[i] \in Ids
    BY <1>3, LenProperties, ElementOfSeq
<1> QED BY <1>1, <1>2, <1>3, <1>4, IdNumbers

\* Nothing happens to the track; the connection it has may go.
LEMMA TrackKept ==
    ASSUME IInv, UNCHANGED <<next, frames, snaps, durable, at, mode, stored, again>>,
           Given \subseteq Given', made <= made', made' \in Int,
           input' = input \/ input' = 0,
           input' # 0 => /\ in'[input].cur = in[input].cur
                         /\ in'[input].skip = in[input].skip
    PROVE  /\ Bounds' /\ FrameOrder' /\ SegOrder' /\ Covered' /\ Snapshots'
           /\ SnapsBehind'
<1>1. Bounds'
  <2>1. TypeOK /\ Bounds
    BY DEF IInv
  <2> QED BY <2>1, Elements DEF Bounds
<1>2. FrameOrder'
    BY DEF IInv, FrameOrder
<1>3. SegOrder'
    BY DEF IInv, SegOrder
<1>4. Covered'
    BY DEF IInv, Covered
<1>5. Snapshots'
    BY DEF IInv, Snapshots
<1>6. SnapsBehind'
    BY DEF IInv, SnapsBehind
<1> QED BY <1>1, <1>2, <1>3, <1>4, <1>5, <1>6

\* Nothing happens to a connection.
LEMMA ConnKept ==
    ASSUME TypeOK, NEW c \in Conns, LinkOK(c), InOK(c),
           in'[c] = in[c], link'[c] = link[c], mode' = mode,
           made <= made', made' \in Int, Lasting \subseteq Lasting'
    PROVE  LinkOK(c)' /\ InOK(c)'
<1>1. made \in Int
    BY Elements
<1>2. LinkOK(c)'
  <2>1. link[c].sent <= made'
    BY <1>1, Fields DEF LinkOK
  <2>2. \A i \in 1 .. Len(link[c].acks) : link[c].acks[i] <= made'
    BY <1>1, Fields DEF LinkOK
  <2> QED BY <2>1, <2>2 DEF LinkOK, Safe
<1>3. InOK(c)'
  <2>1. in[c].acked <= made' /\ in[c].packet <= made'
    BY <1>1, Fields DEF InOK
  <2> QED BY <2>1 DEF InOK, Safe
<1> QED BY <1>2, <1>3

-----------------------------------------------------------------------------
(* The publisher *)

\* The receiver does nothing, and the publisher no harm: what is left to show
\* of such a step is its type, the links, and what is held.
LEMMA ReceiverKept ==
    ASSUME IInv, UNCHANGED <<inVars, conn, dialed>>, TypeOK',
           Given \subseteq Given', made <= made',
           \A c \in Conns : /\ LinkOK(c)'
                            /\ link'[c].told = link[c].told
                            /\ link'[c].init = link[c].init,
           Safe(held)', NoFatalAck'
    PROVE  IInv'
<1>1. TypeOK /\ made \in Int /\ made' \in Int
    BY IdNumbers, Elements DEF IInv, TypeOK
<1>2. Lasting \subseteq Lasting'
    BY LastingGrows DEF inVars
<1>3. /\ Bounds' /\ FrameOrder' /\ SegOrder' /\ Covered' /\ Snapshots'
      /\ SnapsBehind'
    BY <1>1, TrackKept DEF inVars
<1>4. Numbers'
    BY DEF IInv, Numbers, inVars
<1>5. ASSUME NEW c \in Conns
      PROVE  InOK(c)'
  <2>1. InOK(c) /\ in'[c] = in[c]
    BY DEF IInv, inVars
  <2>2. in[c].acked <= made' /\ in[c].packet <= made'
    BY <1>1, <2>1, Fields DEF InOK
  <2> QED BY <1>2, <2>1, <2>2 DEF InOK, Safe, inVars
<1>6. LastAckSent'
    BY DEF IInv, LastAckSent, inVars
<1> QED BY <1>3, <1>4, <1>5, <1>6 DEF IInv

LEMMA PublishStep ==
    ASSUME IInv, Publish
    PROVE  IInv'
<1>1. /\ UNCHANGED <<inVars, held, pub, conn, dialed, link, forced, faults>>
      /\ made' = made + 1 /\ made < MaxFrames
    BY DEF Publish
<1>2. made \in Nat /\ made' \in Ids /\ made <= made' /\ held \in 0 .. made'
    BY <1>1, DeliveryAssumption DEF IInv, TypeOK, Ids
<1>3. TypeOK'
    BY <1>1, <1>2 DEF IInv, TypeOK, inVars
<1>4. Given' = Given /\ Lasting' = Lasting
    BY <1>1 DEF Given, Lasting, inVars
<1>5. ASSUME NEW c \in Conns
      PROVE  /\ LinkOK(c)'
             /\ link'[c].told = link[c].told /\ link'[c].init = link[c].init
  <2>1. TypeOK /\ LinkOK(c) /\ InOK(c) /\ made' \in Int
    BY <1>2 DEF IInv, Ids
  <2>2. in'[c] = in[c] /\ link'[c] = link[c] /\ mode' = mode
    BY <1>1 DEF inVars
  <2> QED BY <1>2, <1>4, <2>1, <2>2, ConnKept
<1>6. Safe(held)' /\ NoFatalAck'
    BY <1>1, <1>4 DEF IInv, Safe, NoFatalAck, inVars
<1> QED BY <1>1, <1>2, <1>3, <1>4, <1>5, <1>6, ReceiverKept

LEMMA SendStep ==
    ASSUME IInv, Send
    PROVE  IInv'
<1>1. /\ UNCHANGED <<inVars, made, held, pub, conn, dialed, forced, faults>>
      /\ conn # 0 /\ link[conn].sent < made
      /\ link' = [link EXCEPT ![conn].sent = @ + 1]
    BY DEF Send
<1>2. conn \in Conns /\ TypeOK /\ made \in Int
    BY <1>1, Elements DEF IInv, TypeOK
<1>3. /\ link' \in [Conns -> LinkType]
      /\ link'[conn] = [link[conn] EXCEPT !.sent = link[conn].sent + 1]
      /\ \A c \in Conns : c # conn => link'[c] = link[c]
  <2>3. link[conn].sent \in Nat /\ made \in 0 .. MaxFrames
    BY <1>2, Fields, IdNumbers DEF TypeOK, Ids
  <2>1. link[conn].sent + 1 \in Ids
    BY <1>1, <2>3, DeliveryAssumption DEF Ids
  <2>2. [link[conn] EXCEPT !.sent = link[conn].sent + 1] \in LinkType
    BY <2>1, <1>2, Fields DEF LinkType
  <2> QED BY <1>1, <1>2, <2>2 DEF TypeOK
<1>4. \A c \in Conns :
        /\ link'[c].init = link[c].init /\ link'[c].told = link[c].told
        /\ link'[c].acks = link[c].acks
        /\ link[c].sent <= link'[c].sent /\ link'[c].sent <= made
  <2> SUFFICES ASSUME NEW c \in Conns
               PROVE  /\ link'[c].init = link[c].init
                      /\ link'[c].told = link[c].told
                      /\ link'[c].acks = link[c].acks
                      /\ link[c].sent <= link'[c].sent /\ link'[c].sent <= made
    OBVIOUS
  <2>1. link[c] \in LinkType /\ link[c].sent \in Int /\ link[c].sent <= made
    BY <1>2, Fields DEF IInv, LinkOK
  <2>2. CASE c = conn
    <3>1. /\ link'[c].init = link[c].init /\ link'[c].told = link[c].told
          /\ link'[c].acks = link[c].acks /\ link'[c].sent = link[c].sent + 1
      BY <1>3, <2>1, <2>2 DEF LinkType
    <3> QED BY <1>1, <1>2, <2>1, <2>2, <3>1
  <2> QED BY <1>3, <2>1, <2>2
<1>5. TypeOK'
  <2>1. ASSUME NEW c \in Conns, in[c].st = "open"
        PROVE  in[c].cur <= link'[c].sent
    <3>1. in[c].cur <= link[c].sent
      BY <1>2, <2>1 DEF TypeOK
    <3>2. link'[c].sent \in Int
      BY <1>3, IdNumbers DEF LinkType
    <3> QED BY <1>2, <1>4, <3>1, <3>2, Fields
  <2> QED BY <1>1, <1>3, <2>1 DEF IInv, TypeOK, inVars
<1>6. Given' = Given /\ Lasting' = Lasting
    BY <1>1 DEF Given, Lasting, inVars
<1>7. ASSUME NEW c \in Conns
      PROVE  LinkOK(c)'
  <2>1. LinkOK(c) /\ link'[c].sent \in Int
    BY <1>3, IdNumbers DEF IInv, LinkType
  <2>2. link[c].init <= link'[c].sent
    BY <1>4, <2>1, <1>2, Fields DEF LinkOK
  <2>3. \A i \in 1 .. Len(link[c].acks) :
            ~mode.others => link[c].acks[i] <= link'[c].sent
    BY <1>2, <1>4, <2>1, Fields DEF LinkOK
  <2> QED BY <1>1, <1>4, <1>6, <2>1, <2>2, <2>3 DEF LinkOK, Safe, inVars
<1>8. Safe(held)' /\ NoFatalAck'
    BY <1>1, <1>6 DEF IInv, Safe, NoFatalAck, inVars
<1> QED BY <1>1, <1>2, <1>4, <1>5, <1>6, <1>7, <1>8, ReceiverKept

\* What leaves on a connection but frames changes neither frames nor acks.
LEMMA SendEndStep ==
    ASSUME IInv, SendEnd
    PROVE  IInv'
<1>1. /\ UNCHANGED <<inVars, made, held, conn, dialed, forced, faults>>
      /\ conn # 0 /\ pub' = "ending"
      /\ link' = [link EXCEPT ![conn].eos = TRUE]
    BY DEF SendEnd
<1>2. conn \in Conns /\ TypeOK /\ made \in Int
    BY <1>1, Elements DEF IInv, TypeOK
<1>3. /\ link' \in [Conns -> LinkType]
      /\ \A c \in Conns :
            /\ link'[c].init = link[c].init /\ link'[c].told = link[c].told
            /\ link'[c].acks = link[c].acks /\ link'[c].sent = link[c].sent
  <2>1. link[conn] \in LinkType
    BY <1>2, Fields
  <2>2. LET l == [link[conn] EXCEPT !.eos = TRUE]
        IN  /\ l \in LinkType /\ l.init = link[conn].init
            /\ l.told = link[conn].told /\ l.acks = link[conn].acks
            /\ l.sent = link[conn].sent
    BY <2>1 DEF LinkType
  <2>3. /\ link \in [Conns -> LinkType]
        /\ link' = [link EXCEPT ![conn] = [link[conn] EXCEPT !.eos = TRUE]]
    BY <1>1, <1>2 DEF TypeOK
  <2> QED BY <1>2, <2>2, <2>3
<1>4. TypeOK'
    BY <1>1, <1>2, <1>3 DEF TypeOK, inVars
<1>5. Given' = Given /\ Lasting' = Lasting
    BY <1>1 DEF Given, Lasting, inVars
<1>6. ASSUME NEW c \in Conns
      PROVE  LinkOK(c)'
    BY <1>1, <1>3, <1>5 DEF IInv, LinkOK, Safe, inVars
<1>7. Safe(held)' /\ NoFatalAck'
    BY <1>1, <1>5 DEF IInv, Safe, NoFatalAck, inVars
<1> QED BY <1>1, <1>2, <1>3, <1>4, <1>5, <1>6, <1>7, ReceiverKept

\* The first ack was read from a connection.
LEMMA AckTaken ==
    ASSUME TypeOK, NEW c \in Conns, link[c].acks # << >>, LinkOK(c),
           link' = [link EXCEPT ![c].acks = Tail(link[c].acks)]
    PROVE  /\ link' \in [Conns -> LinkType]
           /\ \A d \in Conns :
                /\ link'[d].init = link[d].init /\ link'[d].sent = link[d].sent
                /\ link'[d].told = link[d].told
                /\ d # c => link'[d] = link[d]
           /\ Head(link[c].acks) \in Ids
           /\ Head(link[c].acks) <= made
           /\ Safe(Head(link[c].acks))
           /\ ~mode.others => Head(link[c].acks) <= link[c].sent
           /\ \A i \in 1 .. Len(link'[c].acks) : \E j \in 1 .. Len(link[c].acks) :
                link'[c].acks[i] = link[c].acks[j]
<1>1. link \in [Conns -> LinkType] /\ link[c] \in LinkType
    BY DEF TypeOK
<1>2. /\ link[c].acks \in Seq(Ids) /\ Len(link[c].acks) \in Nat
      /\ Len(link[c].acks) # 0
    BY Fields, EmptySeq
<1>3. /\ Tail(link[c].acks) \in Seq(Ids)
      /\ Len(Tail(link[c].acks)) = Len(link[c].acks) - 1
      /\ \A i \in 1 .. Len(Tail(link[c].acks)) :
            Tail(link[c].acks)[i] = link[c].acks[i + 1]
      /\ Head(link[c].acks) = link[c].acks[1]
    BY <1>2, HeadTailProperties
<1>4. LET l == [link[c] EXCEPT !.acks = Tail(link[c].acks)]
      IN  /\ l \in LinkType /\ l.init = link[c].init /\ l.sent = link[c].sent
          /\ l.told = link[c].told /\ l.acks = Tail(link[c].acks)
    BY <1>1, <1>3 DEF LinkType
<1>5. link' = [link EXCEPT ![c] = [link[c] EXCEPT !.acks = Tail(link[c].acks)]]
    OBVIOUS
<1>6. /\ link' \in [Conns -> LinkType]
      /\ link'[c].acks = Tail(link[c].acks)
      /\ \A d \in Conns :
            /\ link'[d].init = link[d].init /\ link'[d].sent = link[d].sent
            /\ link'[d].told = link[d].told
            /\ d # c => link'[d] = link[d]
    BY <1>1, <1>4, <1>5
<1>7. 1 \in 1 .. Len(link[c].acks)
    BY <1>2
<1>8. /\ Head(link[c].acks) \in Ids
      /\ Head(link[c].acks) <= made
      /\ Safe(Head(link[c].acks))
      /\ ~mode.others => Head(link[c].acks) <= link[c].sent
    BY <1>3, <1>7, Fields DEF LinkOK
<1>9. \A i \in 1 .. Len(link'[c].acks) : \E j \in 1 .. Len(link[c].acks) :
        link'[c].acks[i] = link[c].acks[j]
  <2> SUFFICES ASSUME NEW i \in 1 .. Len(link'[c].acks)
               PROVE  \E j \in 1 .. Len(link[c].acks) :
                        link'[c].acks[i] = link[c].acks[j]
    OBVIOUS
  <2>1. i + 1 \in 1 .. Len(link[c].acks)
    BY <1>2, <1>3, <1>6
  <2> QED BY <2>1, <1>3, <1>6
<1> QED BY <1>6, <1>8, <1>9

LEMMA ReadAckStep ==
    ASSUME IInv, ReadAck
    PROVE  /\ IInv'
           /\ held' \in held .. made' /\ Safe(held')
<1> DEFINE n == Head(link[conn].acks)
           fatal == n > held /\ n > link[conn].sent
<1>1. /\ UNCHANGED <<inVars, made, dialed, forced, faults>>
      /\ conn # 0 /\ link[conn].acks # << >>
      /\ link' = [link EXCEPT ![conn].acks = Tail(link[conn].acks)]
      /\ fatal => pub' = "fatal" /\ conn' = 0 /\ held' = held
      /\ ~fatal => /\ held' = IF n > held THEN n ELSE held
                   /\ pub' = pub /\ conn' = conn
    BY DEF ReadAck
<1>2. conn \in Conns /\ TypeOK /\ made \in Int /\ held \in Int /\ held <= made
    BY <1>1, Elements DEF IInv, TypeOK
<1>3. LinkOK(conn)
    BY <1>2 DEF IInv
<1>4. /\ link' \in [Conns -> LinkType]
      /\ \A d \in Conns :
            /\ link'[d].init = link[d].init /\ link'[d].sent = link[d].sent
            /\ link'[d].told = link[d].told
            /\ d # conn => link'[d] = link[d]
      /\ n \in Ids /\ n <= made /\ Safe(n)
      /\ ~mode.others => n <= link[conn].sent
      /\ \A i \in 1 .. Len(link'[conn].acks) :
            \E j \in 1 .. Len(link[conn].acks) :
                link'[conn].acks[i] = link[conn].acks[j]
    BY <1>1, <1>2, <1>3, AckTaken
<1>5. Given' = Given /\ Lasting' = Lasting
    BY <1>1 DEF Given, Lasting, inVars
<1>6. held' \in held .. made /\ Safe(held')
  <2> HIDE DEF n
  <2>1. n \in Int
    BY <1>4, IdNumbers
  <2>2. held \in held .. made /\ (n > held => n \in held .. made)
    BY <1>2, <1>4, <2>1
  <2>3. held' = held \/ (n > held /\ held' = n)
    BY <1>1
  <2>4. Safe(held)
    BY DEF IInv
  <2> QED BY <2>2, <2>3, <2>4, <1>4
<1>7. TypeOK'
  <2>1. held' \in 0 .. made
    BY <1>2, <1>6 DEF TypeOK
  <2>2. conn' \in Conns \cup {0} /\ pub' \in {pub, "fatal"}
    BY <1>1, <1>2
  <2> QED BY <1>1, <1>2, <1>4, <2>1, <2>2 DEF TypeOK, inVars
<1>8. /\ Bounds' /\ FrameOrder' /\ SegOrder' /\ Covered' /\ Snapshots'
      /\ SnapsBehind'
    BY <1>1, <1>2, <1>5, TrackKept DEF inVars
<1>9. Numbers'
    BY <1>1 DEF IInv, Numbers, inVars
<1>10. ASSUME NEW c \in Conns
       PROVE  LinkOK(c)' /\ InOK(c)'
  <2>1. LinkOK(c) /\ InOK(c)
    BY DEF IInv
  <2>2. /\ in' = in /\ mode' = mode /\ made' = made
        /\ link'[c].init = link[c].init /\ link'[c].sent = link[c].sent
        /\ link'[c].told = link[c].told
    BY <1>1, <1>4 DEF inVars
  <2>3. InOK(c)'
    BY <1>5, <2>1, <2>2 DEF InOK, Safe
  <2>4. LinkOK(c)'
    <3>1. CASE c # conn
      <4>1. link'[c] = link[c]
        BY <1>4, <3>1
      <4> QED BY <1>5, <2>1, <2>2, <4>1 DEF LinkOK, Safe
    <3>2. CASE c = conn
      <4>1. \A i \in 1 .. Len(link'[c].acks) :
                \E j \in 1 .. Len(link[c].acks) :
                    link'[c].acks[i] = link[c].acks[j]
        BY <1>4, <3>2
      <4> QED BY <1>5, <2>1, <2>2, <4>1 DEF LinkOK, Safe
    <3> QED BY <3>1, <3>2
  <2> QED BY <2>3, <2>4
<1>11. LastAckSent'
    BY <1>1, <1>4 DEF IInv, LastAckSent, inVars
<1>12. NoFatalAck'
  <2> HIDE DEF n
  <2>1. n \in Int /\ link[conn].sent \in Int /\ (~mode.others => n <= link[conn].sent)
    BY <1>2, <1>4, Fields, IdNumbers
  <2>2. fatal => mode.others
    BY <2>1
  <2> HIDE DEF fatal
  <2> QED BY <1>1, <2>2 DEF IInv, NoFatalAck, inVars
<1>13. Safe(held)' /\ made' = made
    BY <1>1, <1>5, <1>6 DEF Safe
<1> QED BY <1>6, <1>7, <1>8, <1>9, <1>10, <1>11, <1>12, <1>13 DEF IInv

LEMMA ForceAckStep ==
    ASSUME IInv, ForceAck
    PROVE  /\ IInv'
           /\ held < made /\ held' = held + 1 /\ Given' = Given \cup {held}
<1>1. /\ UNCHANGED <<inVars, made, pub, conn, dialed, link>>
      /\ held < IF conn # 0 THEN link[conn].sent ELSE made
      /\ held' = held + 1 /\ forced' = forced \cup {held}
      /\ faults < MaxFaults /\ faults' = faults + 1
    BY DEF ForceAck, Fault
<1>2. TypeOK /\ made \in Int /\ held \in Int /\ 0 <= held
    BY Elements DEF IInv, TypeOK
<1>3. held < made
  <2>1. CASE conn # 0
    <3>1. conn \in Conns
      BY <1>2, <2>1 DEF TypeOK
    <3>2. link[conn].sent <= made
      BY <3>1 DEF IInv, LinkOK
    <3> QED BY <1>1, <1>2, <2>1, <3>1, <3>2, Fields
  <2> QED BY <1>1, <2>1
<1>4. Given' = Given \cup {held}
    BY <1>1 DEF Given, inVars
<1>5. Lasting' = Lasting \cup {held}
    BY <1>1, <1>4 DEF Lasting, inVars
<1>6. TypeOK'
  <2>1. held' \in 0 .. made /\ held \in Ids
    BY <1>1, <1>2, <1>3, DeliveryAssumption DEF TypeOK, Ids
  <2>2. faults' \in 0 .. MaxFaults
    BY <1>1, <1>2, DeliveryAssumption DEF TypeOK
  <2> QED BY <1>1, <1>2, <2>1, <2>2 DEF TypeOK, inVars
<1>7. ASSUME NEW c \in Conns
      PROVE  LinkOK(c)'
    BY <1>1, <1>5 DEF IInv, LinkOK, Safe, inVars
<1>8. Safe(held)'
  <2>1. 0 .. held' - 1 = (0 .. held - 1) \cup {held}
    BY <1>1, <1>2
  <2>2. 0 .. held - 1 \subseteq Lasting
    BY DEF IInv, Safe
  <2> QED BY <1>5, <2>1, <2>2 DEF Safe
<1>9. NoFatalAck'
    BY <1>1 DEF IInv, NoFatalAck, inVars
<1>10. made <= made' /\ UNCHANGED <<inVars, conn, dialed>>
    BY <1>1, <1>2
<1>11. IInv'
    BY <1>1, <1>4, <1>6, <1>7, <1>8, <1>9, <1>10, ReceiverKept
<1> QED BY <1>1, <1>3, <1>4, <1>11

\* what LastAckSent says of a connection
AckSent(c) ==
    in[c].st = "open" =>
        IF in[c].writing
        THEN link[c].told < in[c].packet /\ in[c].packet <= in[c].acked
        ELSE link[c].told = in[c].acked

LEMMA AckSentOfAll == LastAckSent <=> \A c \in Conns : AckSent(c)
    BY DEF LastAckSent, AckSent

\* A step about one connection, of which the track does not know.
LEMMA ConnStep ==
    ASSUME IInv, TypeOK', Numbers', NoFatalAck', held' = held, made' = made,
           UNCHANGED <<next, frames, snaps, durable, at, mode, stored, again>>,
           Given \subseteq Given',
           input' = input \/ input' = 0,
           input' # 0 => /\ in'[input].cur = in[input].cur
                         /\ in'[input].skip = in[input].skip,
           NEW c \in Conns, LinkOK(c)', InOK(c)', AckSent(c)',
           \A d \in Conns : d # c => in'[d] = in[d] /\ link'[d] = link[d]
    PROVE  IInv'
<1>1. TypeOK /\ made \in Int /\ made <= made' /\ made' \in Int
    BY Elements DEF IInv
<1>2. Lasting \subseteq Lasting'
    BY LastingGrows
<1>3. /\ Bounds' /\ FrameOrder' /\ SegOrder' /\ Covered' /\ Snapshots'
      /\ SnapsBehind'
    BY <1>1, TrackKept
<1>4. ASSUME NEW d \in Conns
      PROVE  LinkOK(d)' /\ InOK(d)' /\ AckSent(d)'
  <2>1. CASE d = c
    BY <2>1
  <2>2. CASE d # c
    <3>1. LinkOK(d) /\ InOK(d) /\ AckSent(d)
      BY AckSentOfAll DEF IInv
    <3>2. in'[d] = in[d] /\ link'[d] = link[d]
      BY <2>2
    <3>3. AckSent(d)'
      BY <3>1, <3>2 DEF AckSent
    <3> QED BY <1>1, <1>2, <3>1, <3>2, <3>3, ConnKept
  <2> QED BY <2>1, <2>2
<1>5. LastAckSent'
    BY <1>4 DEF LastAckSent, AckSent
<1>6. Safe(held)'
    BY <1>2 DEF IInv, Safe
<1> QED BY <1>3, <1>4, <1>5, <1>6 DEF IInv

\* A link whose acks were lost.
LEMMA NoAcks ==
    ASSUME NEW c \in Conns, link'[c].acks = << >>,
           link'[c].init <= link'[c].sent, link'[c].sent <= made'
    PROVE  LinkOK(c)'
<1>1. Len(<< >>) = 0
    BY EmptySeq
<1> QED BY <1>1 DEF LinkOK

LEMMA BreakStep ==
    ASSUME IInv, Break
    PROVE  IInv'
<1>1. /\ UNCHANGED <<inVars, made, held, dialed, forced>>
      /\ conn # 0 /\ conn' = 0 /\ pub' = Left
      /\ link' = [link EXCEPT ![conn].acks = << >>]
      /\ faults < MaxFaults /\ faults' = faults + 1
    BY DEF Break, Fault
<1>2. TypeOK
    BY DEF IInv
<1>3. PICK c \in Conns : c = conn
    BY <1>1, <1>2 DEF TypeOK
<1>4. /\ link' \in [Conns -> LinkType]
      /\ link'[c].init = link[c].init /\ link'[c].sent = link[c].sent
      /\ link'[c].told = link[c].told /\ link'[c].acks = << >>
      /\ \A d \in Conns : d # c => link'[d] = link[d]
  <2>1. << >> \in Seq(Ids)
    OBVIOUS
  <2>2. LET l == [link[c] EXCEPT !.acks = << >>]
        IN  /\ l \in LinkType /\ l.init = link[c].init
            /\ l.told = link[c].told /\ l.acks = << >> /\ l.sent = link[c].sent
    BY <1>2, <2>1, Fields DEF LinkType
  <2>3. /\ link \in [Conns -> LinkType]
        /\ link' = [link EXCEPT ![c] = [link[c] EXCEPT !.acks = << >>]]
    BY <1>1, <1>2, <1>3 DEF TypeOK
  <2> QED BY <2>2, <2>3
<1>5. TypeOK'
  <2>1. pub' \in {"live", "ending", "ended", "cut", "fatal"}
    BY <1>1, <1>2 DEF Left, TypeOK
  <2>2. faults' \in 0 .. MaxFaults
    BY <1>1, <1>2, DeliveryAssumption DEF TypeOK
  <2>3. \A d \in Conns : link'[d].sent = link[d].sent
    BY <1>4
  <2> QED BY <1>1, <1>2, <1>4, <2>1, <2>2, <2>3 DEF TypeOK, inVars
<1>6. Numbers'
    BY <1>1 DEF IInv, Numbers, inVars
<1>7. NoFatalAck'
    BY <1>1 DEF IInv, NoFatalAck, Left, inVars
<1>8. Given' = Given /\ Lasting' = Lasting
    BY <1>1 DEF Given, Lasting, inVars
<1>9. LinkOK(c) /\ InOK(c) /\ AckSent(c)
    BY AckSentOfAll DEF IInv
<1>10. LinkOK(c)'
  <2>1. link'[c].init <= link'[c].sent /\ link'[c].sent <= made'
    BY <1>1, <1>4, <1>9 DEF LinkOK
  <2> QED BY <1>4, <2>1, NoAcks
<1>11. InOK(c)' /\ AckSent(c)'
    BY <1>1, <1>4, <1>8, <1>9 DEF InOK, Safe, AckSent, inVars
<1> QED BY <1>1, <1>4, <1>5, <1>6, <1>7, <1>8, <1>10, <1>11, ConnStep
        DEF inVars

LEMMA ClosedStep ==
    ASSUME IInv, Closed
    PROVE  IInv'
<1>1. /\ UNCHANGED <<input, next, frames, snaps, durable, at, mode, stored,
                     dropped, again, made, held, forced, faults>>
      /\ conn # 0 /\ in[conn].st \in {"refused", "closed"}
      /\ conn' = 0 /\ pub' = Left
      /\ link' = [link EXCEPT ![conn] = NewLink]
      /\ \/ /\ in[conn].st = "refused" /\ dialed' = dialed - 1
            /\ in' = [in EXCEPT ![conn] = NewIn]
         \/ /\ in[conn].st # "refused" /\ dialed' = dialed /\ in' = in
    BY DEF Closed
<1>2. TypeOK /\ Numbers
    BY DEF IInv
<1>3. PICK c \in Conns : c = conn
    BY <1>1, <1>2 DEF TypeOK
<1>4. /\ in' \in [Conns -> InType] /\ link' \in [Conns -> LinkType]
      /\ link'[c] = NewLink /\ in'[c] \in {in[c], NewIn}
      /\ in[c].st \in {"refused", "closed"} /\ input # c
      /\ \A d \in Conns : d # c => in'[d] = in[d] /\ link'[d] = link[d]
    BY <1>1, <1>2, <1>3, RecordTypes DEF TypeOK
<1>5. in'[c].st \in {"none", "closed"}
    BY <1>1, <1>2, <1>3, <1>4 DEF TypeOK, NewIn
<1>6. dialed \in Nat /\ dialed = c /\ dialed \in 1 .. MaxConns
    BY <1>1, <1>2, <1>3, KmpInAssumption DEF TypeOK, Numbers, Conns
<1>7. TypeOK'
  <2>1. pub' \in {"live", "ending", "ended", "cut", "fatal"}
    BY <1>1, <1>2 DEF Left, TypeOK
  <2>2. dialed' \in 0 .. MaxConns
    BY <1>1, <1>6, KmpInAssumption
  <2>3. \A d \in Conns : in'[d].st = "open" <=> input' = d
    BY <1>1, <1>2, <1>4, <1>5 DEF TypeOK
  <2>4. \A d \in Conns : in'[d].st = "open" => in'[d].cur <= link'[d].sent
    BY <1>2, <1>4, <1>5 DEF TypeOK
  <2> QED BY <1>1, <1>2, <1>4, <2>1, <2>2, <2>3, <2>4 DEF TypeOK
<1>8. Numbers'
  <2>1. ASSUME NEW d \in Conns
        PROVE  in'[d].st = "none" <=> d > dialed'
    <3>1. in[d].st = "none" <=> d > dialed
      BY <1>2 DEF Numbers
    <3>2. CASE in[conn].st = "refused"
      <4>1. in'[c].st = "none" /\ dialed' = c - 1 /\ d \in Int /\ c \in Int
        BY <1>1, <1>2, <1>3, <1>6, <3>2 DEF TypeOK, NewIn, Conns
      <4> QED BY <1>4, <1>6, <3>1, <4>1
    <3>3. CASE in[conn].st # "refused"
      BY <1>1, <3>1, <3>3
    <3> QED BY <3>2, <3>3
  <2>2. ASSUME NEW i \in 1 .. Len(snaps), snaps[i].conn # 0
        PROVE  in'[snaps[i].conn].st \in {"open", "closed"}
    <3>1. snaps[i].conn \in Conns /\ in[snaps[i].conn].st \in {"open", "closed"}
      BY <1>2, <2>2, Elements DEF Numbers
    <3> QED BY <1>1, <1>3, <1>4, <3>1
  <2> QED BY <1>1, <2>1, <2>2 DEF Numbers
<1>9. NoFatalAck'
    BY <1>1 DEF IInv, NoFatalAck, Left
<1>10. Given' = Given
    BY <1>1 DEF Given
<1>11. LinkOK(c)'
  <2>1. 0 <= made
    BY <1>2 DEF TypeOK, Ids
  <2>2. link'[c].acks = << >> /\ link'[c].init <= link'[c].sent
        /\ link'[c].sent <= made'
    BY <1>1, <1>4, <2>1 DEF NewLink
  <2> QED BY <2>2, NoAcks
<1>12. InOK(c)' /\ AckSent(c)'
  <2>1. InOK(c) /\ 0 <= made
    BY <1>2 DEF IInv, TypeOK, Ids
  <2>2. in'[c].acked <= made' /\ in'[c].packet <= made'
    BY <1>1, <1>4, <2>1 DEF InOK, NewIn
  <2> QED BY <1>5, <2>2 DEF InOK, AckSent
<1>13. input' # 0 => in'[input] = in[input]
    BY <1>1, <1>2, <1>4 DEF TypeOK
<1> QED BY <1>1, <1>4, <1>7, <1>8, <1>9, <1>10, <1>11, <1>12, <1>13, ConnStep

LEMMA DialStep ==
    ASSUME IInv, Dial
    PROVE  IInv'
<1> DEFINE c == dialed + 1
           newIn == [NewIn EXCEPT !.st = "new"]
           newLink == [NewLink EXCEPT !.init = held, !.sent = held, !.told = held]
<1>1. /\ UNCHANGED <<input, next, frames, snaps, durable, at, mode, stored,
                     dropped, again, made, held, pub, forced, faults>>
      /\ conn = 0 /\ dialed < MaxConns
      /\ dialed' = c /\ conn' = c
      /\ link' = [link EXCEPT ![c] = newLink]
      /\ in[c].st = "none"
      /\ in' = [in EXCEPT ![c] = newIn]
    BY DEF Dial, Accept, Receiver, Fine
<1>2. TypeOK /\ Numbers
    BY DEF IInv
<1>3. dialed \in Nat /\ c \in Conns /\ c \in Int
    BY <1>1, <1>2, KmpInAssumption DEF TypeOK, Conns
<1>4. held \in Ids /\ held \in Int /\ made \in Int /\ held <= made /\ 0 <= made
    BY <1>2, DeliveryAssumption DEF TypeOK, Ids
<1>5. /\ newIn \in InType /\ newIn.st = "new"
      /\ newIn.acked = 0 /\ newIn.packet = 0
    BY RecordTypes DEF NewIn, InType
<1>6. /\ newLink \in LinkType /\ newLink.init = held /\ newLink.sent = held
      /\ newLink.told = held /\ newLink.acks = << >>
    BY <1>4, RecordTypes DEF NewLink, LinkType
<1> HIDE DEF newIn, newLink
<1>7. /\ in' \in [Conns -> InType] /\ link' \in [Conns -> LinkType]
      /\ in'[c] = newIn /\ link'[c] = newLink
      /\ \A d \in Conns : d # c => in'[d] = in[d] /\ link'[d] = link[d]
    BY <1>1, <1>2, <1>3, <1>5, <1>6 DEF TypeOK
<1> HIDE DEF c
<1>8. input # c
    BY <1>1, <1>2, <1>3 DEF TypeOK
<1>9. TypeOK'
  <2>1. dialed' \in 0 .. MaxConns /\ conn' \in Conns \cup {0}
    BY <1>1, <1>3 DEF Conns
  <2>2. \A d \in Conns : in'[d].st = "open" <=> input' = d
    BY <1>1, <1>2, <1>5, <1>7, <1>8 DEF TypeOK
  <2>3. \A d \in Conns : in'[d].st = "open" => in'[d].cur <= link'[d].sent
    BY <1>2, <1>5, <1>7 DEF TypeOK
  <2> QED BY <1>1, <1>2, <1>7, <2>1, <2>2, <2>3 DEF TypeOK
<1>10. Numbers'
  <2>1. ASSUME NEW d \in Conns
        PROVE  in'[d].st = "none" <=> d > dialed'
    <3>1. (in[d].st = "none" <=> d > dialed) /\ d \in Int
      BY <1>2 DEF Numbers, Conns
    <3>2. d # c => (d > dialed <=> d > c)
      BY <1>3, <3>1 DEF c
    <3> QED BY <1>1, <1>3, <1>5, <1>7, <3>1, <3>2
  <2>2. ASSUME NEW i \in 1 .. Len(snaps), snaps[i].conn # 0
        PROVE  in'[snaps[i].conn].st \in {"open", "closed"}
    <3>1. snaps[i].conn \in Conns /\ in[snaps[i].conn].st \in {"open", "closed"}
      BY <1>2, <2>2, Elements DEF Numbers
    <3> QED BY <1>1, <1>7, <3>1
  <2> QED BY <1>1, <2>1, <2>2 DEF Numbers
<1>11. NoFatalAck'
    BY <1>1 DEF IInv, NoFatalAck
<1>12. Given' = Given /\ Lasting' = Lasting
    BY <1>1 DEF Given, Lasting
<1>13. PICK e \in Conns : e = c
    BY <1>3
<1>14. LinkOK(e)'
    BY <1>1, <1>4, <1>6, <1>7, <1>13, NoAcks
<1>15. InOK(e)' /\ AckSent(e)'
  <2>1. Safe(held)
    BY DEF IInv
  <2>2. link'[e].told = held /\ link'[e].init = held /\ in'[e].st = "new"
        /\ in'[e].acked = 0 /\ in'[e].packet = 0
    BY <1>5, <1>6, <1>7, <1>13
  <2> QED BY <1>1, <1>4, <1>12, <2>1, <2>2 DEF InOK, AckSent, Safe
<1>16. input' # 0 => in'[input] = in[input]
    BY <1>1, <1>2, <1>7, <1>8 DEF TypeOK
<1> QED BY <1>1, <1>7, <1>9, <1>10, <1>11, <1>12, <1>13, <1>14, <1>15, <1>16,
           ConnStep

-----------------------------------------------------------------------------
(* The connections of the receiver *)

LEMMA ClosingProperties ==
    ASSUME TypeOK, NEW c \in Conns, LinkOK(c), made' = made,
           Lasting' = Lasting, mode' = mode,
           link' = Closing(c) \/ link' = link
    PROVE  /\ link' \in [Conns -> LinkType]
           /\ \A d \in Conns : d # c => link'[d] = link[d]
           /\ LinkOK(c)'
<1>1. 0 <= made
    BY DEF TypeOK, Ids
<1>2. CASE link'[c] = link[c]
  <2>1. link' = link
    BY <1>2 DEF Closing, TypeOK
  <2> QED BY <2>1 DEF LinkOK, Safe, TypeOK
<1>3. CASE link' = [link EXCEPT ![c] = NewLink]
  <2>1. /\ link' \in [Conns -> LinkType] /\ link'[c] = NewLink
        /\ \A d \in Conns : d # c => link'[d] = link[d]
    BY <1>3, RecordTypes DEF TypeOK
  <2>2. LinkOK(c)'
    BY <1>1, <2>1, NoAcks DEF NewLink
  <2> QED BY <2>1, <2>2
<1> QED BY <1>2, <1>3 DEF Closing, TypeOK

\* A connection is refused or closed; the publisher learns no more than that.
LEMMA CloseStep ==
    ASSUME IInv, NEW c \in Conns,
           UNCHANGED <<next, frames, snaps, durable, at, mode, stored, dropped,
                       again, made, held, conn, dialed, forced>>,
           in[c].st \in {"new", "open"},
           input' = IF input = c THEN 0 ELSE input,
           \/ in' = [in EXCEPT ![c].st = "refused"] /\ input # c
           \/ in' = [in EXCEPT ![c] = ClosedIn],
           link' = Closing(c) \/ link' = link,
           pub' \in {"live", "ending", "ended", "cut", "fatal"},
           pub' = "fatal" => pub = "fatal",
           faults' \in 0 .. MaxFaults
    PROVE  IInv'
<1>1. TypeOK /\ Numbers /\ LinkOK(c) /\ InOK(c)
    BY DEF IInv
<1>2. Given' = Given /\ Lasting' = Lasting
    BY DEF Given, Lasting
<1>3. /\ link' \in [Conns -> LinkType]
      /\ \A d \in Conns : d # c => link'[d] = link[d]
      /\ LinkOK(c)'
    BY <1>1, <1>2, ClosingProperties
<1>4. /\ in' \in [Conns -> InType]
      /\ in'[c].st \in {"refused", "closed"}
      /\ input = c => in'[c].st = "closed"
      /\ in[c].st = "open" => in'[c].st = "closed"
      /\ in'[c].acked \in {0, in[c].acked} /\ in'[c].packet \in {0, in[c].packet}
      /\ \A d \in Conns : d # c => in'[d] = in[d]
  <2>1. in \in [Conns -> InType] /\ in[c] \in InType
    BY <1>1 DEF TypeOK
  <2>2. /\ ClosedIn \in InType /\ ClosedIn.st = "closed"
        /\ ClosedIn.acked = 0 /\ ClosedIn.packet = 0
    BY RecordTypes DEF ClosedIn, NewIn
  <2>3. CASE in' = [in EXCEPT ![c] = ClosedIn]
    BY <2>1, <2>2, <2>3
  <2>4. CASE in' = [in EXCEPT ![c].st = "refused"] /\ input # c
    <3>1. LET i == [in[c] EXCEPT !.st = "refused"]
          IN  /\ i \in InType /\ i.st = "refused"
              /\ i.acked = in[c].acked /\ i.packet = in[c].packet
      BY <2>1 DEF InType
    <3>2. in' = [in EXCEPT ![c] = [in[c] EXCEPT !.st = "refused"]]
      BY <2>4
    <3>3. in[c].st # "open"
      BY <1>1, <2>4 DEF TypeOK
    <3> QED BY <2>1, <2>4, <3>1, <3>2, <3>3
  <2> QED BY <2>3, <2>4
<1>5. TypeOK'
  <2>1. \A d \in Conns : in'[d].st = "open" <=> input' = d
    BY <1>1, <1>4 DEF TypeOK, Conns
  <2>2. \A d \in Conns : in'[d].st = "open" => in'[d].cur <= link'[d].sent
    BY <1>1, <1>3, <1>4 DEF TypeOK
  <2>3. input' \in Conns \cup {0}
    BY <1>1 DEF TypeOK
  <2> QED BY <1>1, <1>3, <1>4, <2>1, <2>2, <2>3 DEF TypeOK
<1>6. Numbers'
  <2>1. ASSUME NEW d \in Conns
        PROVE  in'[d].st = "none" <=> d > dialed'
    BY <1>1, <1>4 DEF Numbers
  <2>2. ASSUME NEW i \in 1 .. Len(snaps), snaps[i].conn # 0
        PROVE  in'[snaps[i].conn].st \in {"open", "closed"}
    <3>1. snaps[i].conn \in Conns /\ in[snaps[i].conn].st \in {"open", "closed"}
      BY <1>1, <2>2, Elements DEF Numbers
    <3>2. CASE snaps[i].conn = c
      BY <1>4, <3>1, <3>2
    <3>3. CASE snaps[i].conn # c
      BY <1>4, <3>1, <3>3
    <3> QED BY <3>2, <3>3
  <2> QED BY <1>1, <2>1, <2>2 DEF Numbers
<1>7. NoFatalAck'
    BY DEF IInv, NoFatalAck
<1>8. InOK(c)' /\ AckSent(c)'
  <2>1. 0 <= made
    BY <1>1 DEF TypeOK, Ids
  <2> QED BY <1>1, <1>4, <2>1 DEF InOK, AckSent
<1>9. (input' = input \/ input' = 0) /\ (input' # 0 => in'[input] = in[input])
    BY <1>1, <1>4 DEF TypeOK
<1> QED BY <1>2, <1>3, <1>4, <1>5, <1>6, <1>7, <1>8, <1>9, ConnStep

LEMMA Faults ==
    ASSUME TypeOK, Fine \/ Fault
    PROVE  faults' \in 0 .. MaxFaults
    BY DeliveryAssumption DEF TypeOK, Fine, Fault

LEMMA RefuseStep ==
    ASSUME IInv, NEW c \in Conns, Fine, RefuseHeader(c), link' = Closing(c),
           UNCHANGED <<made, held, pub, conn, dialed, forced>>
    PROVE  IInv'
<1>1. TypeOK
    BY DEF IInv
<1>2. input # c
    BY <1>1 DEF RefuseHeader, TypeOK
<1>3. /\ pub' \in {"live", "ending", "ended", "cut", "fatal"}
      /\ faults' \in 0 .. MaxFaults
    BY <1>1, Faults DEF TypeOK
<1>4. /\ UNCHANGED <<next, frames, snaps, durable, at, mode, stored, dropped,
                     again>>
      /\ in[c].st \in {"new", "open"}
      /\ input' = IF input = c THEN 0 ELSE input
      /\ in' = [in EXCEPT ![c].st = "refused"]
    BY <1>2 DEF RefuseHeader
<1> QED BY <1>2, <1>3, <1>4, CloseStep

LEMMA EndStep ==
    ASSUME IInv, NEW c \in Conns, ReadEnd(c) \/ Gone(c)
    PROVE  IInv'
<1>1. TypeOK
    BY DEF IInv
<1>2. /\ Close(c) /\ Fine /\ link' = Closing(c)
      /\ UNCHANGED <<made, held, conn, dialed, forced>>
      /\ pub' = pub \/ pub' = "ended"
    BY DEF ReadEnd, Gone
<1>3. /\ pub' \in {"live", "ending", "ended", "cut", "fatal"}
      /\ pub' = "fatal" => pub = "fatal"
      /\ faults' \in 0 .. MaxFaults
    BY <1>1, <1>2, Faults DEF TypeOK
<1> QED BY <1>2, <1>3, CloseStep DEF Close

LEMMA DropStep ==
    ASSUME IInv, Drop
    PROVE  IInv'
<1>1. TypeOK
    BY DEF IInv
<1>2. PICK c \in Conns : c = conn
    BY <1>1 DEF Drop, TypeOK
<1>3. /\ Close(c) /\ Fault
      /\ UNCHANGED <<made, held, pub, conn, dialed, link, forced>>
    BY <1>2 DEF Drop, Receiver
<1>4. /\ pub' \in {"live", "ending", "ended", "cut", "fatal"}
      /\ faults' \in 0 .. MaxFaults
    BY <1>1, <1>3, Faults DEF TypeOK
<1> QED BY <1>3, <1>4, CloseStep DEF Close

\* Something is read from a connection: what the track is told is not in this
\* lemma.
LEMMA ReadConn ==
    ASSUME IInv, NEW c \in Conns, in[c].st = "open", NEW r \in InType,
           in' = [in EXCEPT ![c] = r],
           r.st = "open", r.acked = in[c].acked, r.packet = in[c].packet,
           r.writing = in[c].writing,
           in[c].cur <= r.cur, r.cur <= link[c].sent,
           UNCHANGED <<input, next, snaps, durable, at, mode, stored, again,
                       made, held, pub, conn, dialed, link, forced>>,
           Fine, dropped \subseteq dropped', dropped' \subseteq Ids,
           frames' \in Seq(Ids)
    PROVE  /\ TypeOK' /\ Numbers' /\ Snapshots' /\ SegOrder'
           /\ \A d \in Conns : LinkOK(d)' /\ InOK(d)'
           /\ LastAckSent' /\ NoFatalAck' /\ Safe(held)' /\ SnapsBehind'
           /\ in'[c] = r /\ input = c
<1>1. TypeOK /\ Numbers
    BY DEF IInv
<1>2. /\ in' \in [Conns -> InType] /\ in'[c] = r /\ in[c] \in InType
      /\ \A d \in Conns : d # c => in'[d] = in[d]
      /\ input = c
    BY <1>1 DEF TypeOK
<1>3. Given \subseteq Given' /\ Lasting \subseteq Lasting'
  <2>1. Given \subseteq Given'
    BY DEF Given
  <2> QED BY <2>1, LastingGrows
<1>4. TypeOK'
  <2>1. \A d \in Conns : in'[d].st = "open" <=> input' = d
    BY <1>1, <1>2 DEF TypeOK
  <2>2. \A d \in Conns : in'[d].st = "open" => in'[d].cur <= link'[d].sent
    BY <1>1, <1>2 DEF TypeOK
  <2>3. faults' = faults
    BY DEF Fine
  <2> QED BY <1>1, <1>2, <2>1, <2>2, <2>3 DEF TypeOK
<1>5. Numbers'
  <2>1. \A d \in Conns : in'[d].st = in[d].st
    BY <1>2
  <2>2. \A i \in 1 .. Len(snaps) : snaps[i].conn \in Conns \cup {0}
    BY <1>1, Elements
  <2> QED BY <1>1, <2>1, <2>2 DEF Numbers
<1>6. Snapshots'
    BY <1>3 DEF IInv, Snapshots
<1>7. made \in Int /\ made <= made' /\ made' \in Int
    BY <1>1, Elements
<1>8. ASSUME NEW d \in Conns
      PROVE  LinkOK(d)' /\ InOK(d)' /\ AckSent(d)'
  <2>1. LinkOK(d) /\ InOK(d) /\ AckSent(d)
    BY AckSentOfAll DEF IInv
  <2>2. link'[d] = link[d]
    OBVIOUS
  <2>3. LinkOK(d)'
    BY <1>3, <2>1 DEF LinkOK, Safe
  <2>4. AckSent(d)'
    BY <1>2, <2>1 DEF AckSent
  <2>5. CASE d = c
    <3>1. ~mode.others => in[c].acked <= in'[c].cur
      <4>1. /\ in[c].acked \in Int /\ in[c].cur \in Int /\ r.cur \in Int
        BY <1>1, Fields, IdNumbers DEF InType
      <4> QED BY <1>2, <2>1, <2>5, <4>1 DEF InOK
    <3> QED BY <1>2, <1>3, <2>1, <2>3, <2>4, <2>5, <3>1 DEF InOK, Safe
  <2>6. CASE d # c
    <3>1. in'[d] = in[d]
      BY <1>2, <2>6
    <3> QED BY <1>1, <1>3, <1>7, <2>1, <2>2, <2>4, <3>1, ConnKept
  <2> QED BY <2>5, <2>6
<1>9. LastAckSent'
    BY <1>8 DEF LastAckSent, AckSent
<1>10. NoFatalAck' /\ Safe(held)'
    BY <1>3 DEF IInv, NoFatalAck, Safe
<1>11. SnapsBehind'
  <2>1. /\ in[c].cur \in Int /\ r.cur \in Int
        /\ \A i \in 1 .. Len(snaps) : snaps[i].id \in Int
    BY <1>1, Fields, Elements, IdNumbers DEF InType
  <2>2. \A i \in 1 .. Len(snaps) :
            snaps[i].id <= in[c].cur => snaps[i].id <= in'[c].cur
    BY <1>2, <2>1
  <2> QED BY <1>2, <2>2 DEF IInv, SnapsBehind
<1>12. SegOrder'
    BY DEF IInv, SegOrder
<1> QED BY <1>2, <1>4, <1>5, <1>6, <1>8, <1>9, <1>10, <1>11, <1>12

LEMMA ReadInfoStep ==
    ASSUME IInv, NEW c \in Conns, Read(c), ReadInfo(c, link[c].init)
    PROVE  IInv'
<1> DEFINE r == [in[c] EXCEPT !.infoFor = in[c].cur, !.waitKey = Video]
<1>1. /\ in[c].st = "open" /\ Fine
      /\ in' = [in EXCEPT ![c].infoFor = in[c].cur, ![c].waitKey = Video]
      /\ UNCHANGED <<input, next, frames, snaps, durable, at, mode, stored,
                     dropped, again, made, held, pub, conn, dialed, link, forced>>
    BY DEF ReadInfo, InfoDue, Read, Receiver
<1>2. TypeOK
    BY DEF IInv
<1>3. /\ in \in [Conns -> InType] /\ in[c] \in InType /\ in[c].cur \in Ids
      /\ in[c].cur \in Int /\ link[c].sent \in Int
      /\ in[c].cur <= link[c].sent
    BY <1>1, <1>2, Fields DEF TypeOK, InType
<1>4. /\ r \in InType /\ r.st = "open" /\ r.acked = in[c].acked
      /\ r.packet = in[c].packet /\ r.writing = in[c].writing
      /\ r.cur = in[c].cur /\ r.skip = in[c].skip
    BY <1>1, <1>3, KmpInAssumption DEF InType
<1>5. in' = [in EXCEPT ![c] = r]
    BY <1>1, <1>3
<1> HIDE DEF r
<1>6. /\ frames' \in Seq(Ids) /\ dropped \subseteq dropped' /\ dropped' \subseteq Ids
      /\ in[c].cur <= r.cur /\ r.cur <= link[c].sent
    BY <1>1, <1>2, <1>3, <1>4 DEF TypeOK
<1>7. /\ TypeOK' /\ Numbers' /\ Snapshots' /\ SegOrder'
      /\ \A d \in Conns : LinkOK(d)' /\ InOK(d)'
      /\ LastAckSent' /\ NoFatalAck' /\ Safe(held)' /\ SnapsBehind'
      /\ in'[c] = r /\ input = c
    BY <1>1, <1>4, <1>5, <1>6, ReadConn
<1>8. Given' = Given
    BY <1>1 DEF Given
<1>9. made \in Int /\ made <= made' /\ made' \in Int
    BY <1>1, <1>2, Elements
<1>10. Bounds' /\ FrameOrder' /\ Covered'
    BY <1>1, <1>4, <1>7, <1>8, <1>9, TrackKept
<1> QED BY <1>7, <1>10 DEF IInv

\* A frame that is read was sent, and was made.
LEMMA FrameRead ==
    ASSUME IInv, NEW c \in Conns, FrameDue(c, link[c].init, link[c].sent)
    PROVE  /\ in[c].st = "open" /\ input = c /\ c # 0
           /\ in[c].cur \in Ids /\ in[c].cur \in Int /\ in[c].cur < made
           /\ in[c].cur + 1 \in Ids /\ in[c].cur + 1 \in Int
           /\ in[c].cur + 1 <= link[c].sent /\ in[c].cur <= in[c].cur + 1
<1>1. TypeOK /\ LinkOK(c) /\ in[c].st = "open" /\ in[c].cur < link[c].sent
    BY DEF IInv, FrameDue
<1>2. /\ in[c] \in InType /\ in[c].cur \in Ids
      /\ in[c].cur \in Int /\ link[c].sent \in Int /\ link[c].sent \in Ids
      /\ made \in Int /\ link[c].sent <= made
    BY <1>1, Fields, Elements DEF InType, LinkOK
<1>3. /\ in[c].cur + 1 \in Ids /\ in[c].cur + 1 \in Int
      /\ in[c].cur + 1 <= link[c].sent /\ in[c].cur <= in[c].cur + 1
    BY <1>1, <1>2, NextId
<1>4. in[c].cur < made
    BY <1>1, <1>2
<1>5. input = c /\ c # 0
    BY <1>1 DEF TypeOK, Conns
<1> QED BY <1>1, <1>2, <1>3, <1>4, <1>5

LEMMA NoFrames == \A i \in 1 .. Len(<< >>) : FALSE
<1>1. Len(<< >>) = 0
    BY EmptySeq
<1> QED BY <1>1

LEMMA SkipFrameStep ==
    ASSUME IInv, NEW c \in Conns, Read(c),
           SkipFrame(c, link[c].init, link[c].sent)
    PROVE  IInv'
<1>1. TypeOK
    BY DEF IInv
<1>2. /\ in \in [Conns -> InType] /\ in[c] \in InType
      /\ in[c].skip \in Nat /\ in[c].waitKey \in BOOLEAN
    BY <1>1, Fields DEF TypeOK, InType
<1>3. /\ FrameDue(c, link[c].init, link[c].sent) /\ in[c].skip > 0 /\ Fine
      /\ in' = [in EXCEPT ![c].skip = @ - 1, ![c].cur = @ + 1]
      /\ UNCHANGED <<input, next, frames, snaps, durable, at, mode, stored,
                     dropped, again, made, held, pub, conn, dialed, link, forced>>
    BY DEF SkipFrame, Read, Receiver
<1>4. PICK sk \in Nat : sk = in[c].skip - 1
    BY <1>2, <1>3
<1>5. /\ in[c].st = "open" /\ input = c /\ c # 0
      /\ in[c].cur \in Int /\ in[c].cur + 1 \in Ids
      /\ in[c].cur + 1 <= link[c].sent /\ in[c].cur <= in[c].cur + 1
    BY <1>3, FrameRead
<1> DEFINE r == [in[c] EXCEPT !.skip = in[c].skip - 1, !.cur = in[c].cur + 1]
<1>6. in' = [in EXCEPT ![c] = r]
    BY <1>2, <1>3
<1>7. /\ r \in InType /\ r.st = "open" /\ r.acked = in[c].acked
      /\ r.packet = in[c].packet /\ r.writing = in[c].writing
      /\ r.cur = in[c].cur + 1 /\ r.skip = sk
  <2>1. sk \in Ids
    <3>1. in[c].skip \in Ids /\ sk <= in[c].skip
      BY <1>2, <1>4 DEF InType
    <3> QED BY <3>1, SmallerId
  <2> QED BY <1>2, <1>4, <1>5, <2>1 DEF InType
<1> HIDE DEF r
<1>8. frames' \in Seq(Ids) /\ dropped \subseteq dropped' /\ dropped' \subseteq Ids
    BY <1>1, <1>3 DEF TypeOK
<1>9. /\ TypeOK' /\ Numbers' /\ Snapshots' /\ SegOrder'
      /\ \A d \in Conns : LinkOK(d)' /\ InOK(d)'
      /\ LastAckSent' /\ NoFatalAck' /\ Safe(held)' /\ SnapsBehind'
      /\ in'[c].cur = in[c].cur + 1 /\ in'[c].skip = sk
      /\ input = c /\ in[c].cur \in Int
  <2>1. in[c].cur <= r.cur /\ r.cur <= link[c].sent
    BY <1>5, <1>7
  <2> QED BY <1>3, <1>5, <1>6, <1>7, <1>8, <2>1, ReadConn
<1>10. Given' = Given /\ input # 0
    BY <1>3, <1>9 DEF Given, Conns
<1>11. Bounds'
    BY <1>3 DEF IInv, Bounds
<1>12. in[c].skip # 0
    BY <1>2, <1>3
<1>13. FrameOrder /\ Covered /\ frames = << >> /\ frames' = << >>
       /\ next = in[c].cur + in[c].skip
    BY <1>3, <1>9, <1>10, <1>12 DEF IInv, FrameOrder
<1>14. next \in Int /\ next = in'[c].cur + in'[c].skip /\ in'[c].cur <= next
  <2>1. /\ in[c].cur \in Int /\ in'[c].cur = in[c].cur + 1
        /\ in'[c].skip = sk /\ in[c].skip = sk + 1 /\ sk \in Nat
        /\ next = in[c].cur + in[c].skip
    BY <1>2, <1>4, <1>9, <1>13
  <2> QED BY <2>1
<1>15. FrameOrder'
    BY <1>3, <1>9, <1>13, <1>14, NoFrames DEF FrameOrder
<1>16. Covered'
  <2>1. ASSUME NEW f \in 0 .. in'[c].cur - 1
        PROVE  f \in stored \cup Given
    <3>1. f \in 0 .. next - 1
      BY <1>9, <1>14
    <3> QED BY <1>13, <3>1 DEF Covered
  <2>2. \A f \in 0 .. next - 1 : f \in stored \cup Given
    BY <1>13 DEF Covered
  <2> QED BY <1>3, <1>9, <1>10, <1>13, <2>1, <2>2, NoFrames DEF Covered
<1> QED BY <1>9, <1>11, <1>15, <1>16 DEF IInv

\* A frame that is read after the ones to skip is the first that is not known.
LEMMA FrameIsNext ==
    ASSUME IInv, input # 0, in[input].skip = 0
    PROVE  next <= in[input].cur
<1>1. TypeOK /\ FrameOrder
    BY DEF IInv
<1>2. input \in Conns
    BY <1>1 DEF TypeOK
<1>3. in[input].cur \in Int /\ next <= in[input].cur + 0
    BY <1>1, <1>2, Fields DEF FrameOrder
<1> QED BY <1>3

\* A frame is given up.
LEMMA FrameGivenUp ==
    ASSUME IInv, NEW c \in Conns, FrameDue(c, link[c].init, link[c].sent),
           in[c].skip = 0, NEW r \in InType, in' = [in EXCEPT ![c] = r],
           r.st = "open", r.acked = in[c].acked, r.packet = in[c].packet,
           r.writing = in[c].writing, r.cur = in[c].cur + 1, r.skip = 0,
           dropped' = dropped \cup {in[c].cur}, Fine,
           UNCHANGED <<input, next, frames, snaps, durable, at, mode, stored,
                       again, made, held, pub, conn, dialed, link, forced>>
    PROVE  IInv'
<1>1. TypeOK /\ FrameOrder /\ Covered
    BY DEF IInv
<1>2. /\ in[c].st = "open" /\ input = c /\ input # 0
      /\ in[c].cur \in Ids /\ in[c].cur \in Int
      /\ in[c].cur + 1 <= link[c].sent /\ in[c].cur <= in[c].cur + 1
    BY FrameRead
<1>3. /\ in[c].cur <= r.cur /\ r.cur <= link[c].sent
      /\ frames' \in Seq(Ids) /\ dropped \subseteq dropped' /\ dropped' \subseteq Ids
    BY <1>1, <1>2 DEF TypeOK
<1>4. /\ TypeOK' /\ Numbers' /\ Snapshots' /\ SegOrder'
      /\ \A d \in Conns : LinkOK(d)' /\ InOK(d)'
      /\ LastAckSent' /\ NoFatalAck' /\ Safe(held)' /\ SnapsBehind'
      /\ in'[c] = r
    BY <1>2, <1>3, ReadConn
<1>5. Bounds'
    BY DEF IInv, Bounds
<1>6. next \in Int /\ next <= in[c].cur
    BY <1>1, <1>2, FrameIsNext, Elements
<1>7. \A i \in 1 .. Len(frames) : frames[i] < in[c].cur /\ frames[i] \in Int
    BY <1>1, <1>2, Elements DEF FrameOrder
<1>8. FrameOrder'
  <2>1. next <= in[c].cur + 1 + 0
    BY <1>2, <1>6
  <2>2. \A i \in 1 .. Len(frames) : frames[i] < in[c].cur + 1
    BY <1>2, <1>7
  <2> QED BY <1>1, <1>2, <1>4, <2>1, <2>2 DEF FrameOrder
<1>9. Given' = Given \cup {in[c].cur}
    BY DEF Given
<1>10. Covered'
  <2>1. ASSUME NEW f \in 0 .. in'[c].cur - 1
        PROVE  \/ f \in stored \cup Given'
               \/ \E j \in 1 .. Len(frames) : frames[j] = f
    <3>1. f \in 0 .. in[c].cur - 1 \/ f = in[c].cur
      BY <1>2, <1>4
    <3>2. CASE f = in[c].cur
      BY <1>9, <3>2
    <3>3. CASE f \in 0 .. in[c].cur - 1
      BY <1>1, <1>2, <1>9, <3>3 DEF Covered
    <3> QED BY <3>1, <3>2, <3>3
  <2> QED BY <1>1, <1>2, <1>9, <2>1 DEF Covered
<1> QED BY <1>4, <1>5, <1>8, <1>10 DEF IInv

LEMMA RefuseFrameStep ==
    ASSUME IInv, NEW c \in Conns, Read(c),
           RefuseFrame(c, link[c].init, link[c].sent)
    PROVE  IInv'
<1> DEFINE r == [in[c] EXCEPT !.cur = in[c].cur + 1]
<1>1. TypeOK
    BY DEF IInv
<1>2. in \in [Conns -> InType] /\ in[c] \in InType
    BY <1>1 DEF TypeOK
<1>3. /\ FrameDue(c, link[c].init, link[c].sent) /\ in[c].skip = 0 /\ Fine
      /\ in' = [in EXCEPT ![c].cur = @ + 1]
      /\ dropped' = dropped \cup {in[c].cur}
      /\ UNCHANGED <<input, next, frames, snaps, durable, at, mode, stored,
                     again, made, held, pub, conn, dialed, link, forced>>
    BY DEF RefuseFrame, Read, Receiver
<1>4. in[c].st = "open" /\ in[c].cur + 1 \in Ids
    BY <1>3, FrameRead
<1>5. /\ r \in InType /\ r.st = "open" /\ r.acked = in[c].acked
      /\ r.packet = in[c].packet /\ r.writing = in[c].writing
      /\ r.cur = in[c].cur + 1 /\ r.skip = 0
    BY <1>2, <1>3, <1>4 DEF InType
<1>6. in' = [in EXCEPT ![c] = r]
    BY <1>2, <1>3
<1> HIDE DEF r
<1> QED BY <1>3, <1>5, <1>6, FrameGivenUp

LEMMA AddFrameStep ==
    ASSUME IInv, NEW c \in Conns, Read(c),
           AddFrame(c, link[c].init, link[c].sent)
    PROVE  IInv'
<1> DEFINE r == [in[c] EXCEPT !.waitKey = FALSE, !.cur = in[c].cur + 1]
           f == in[c].cur
<1>1. TypeOK /\ FrameOrder /\ Covered
    BY DEF IInv
<1>2. in \in [Conns -> InType] /\ in[c] \in InType
    BY <1>1 DEF TypeOK
<1>3. /\ FrameDue(c, link[c].init, link[c].sent) /\ in[c].skip = 0 /\ Fine
      /\ in' = [in EXCEPT ![c].waitKey = FALSE, ![c].cur = @ + 1]
      /\ frames' = IF Unusable(f) THEN frames ELSE Append(frames, f)
      /\ dropped' = IF Unusable(f) THEN dropped \cup {f} ELSE dropped
      /\ UNCHANGED <<input, next, snaps, durable, at, mode, stored,
                     again, made, held, pub, conn, dialed, link, forced>>
    BY DEF AddFrame, Read, Receiver
<1>4. /\ in[c].st = "open" /\ input = c /\ input # 0
      /\ f \in Ids /\ f \in Int /\ f < made /\ f + 1 \in Ids
      /\ f + 1 <= link[c].sent /\ f <= f + 1
    BY <1>3, FrameRead
<1>5. /\ r \in InType /\ r.st = "open" /\ r.acked = in[c].acked
      /\ r.packet = in[c].packet /\ r.writing = in[c].writing
      /\ r.cur = f + 1 /\ r.skip = 0
    BY <1>2, <1>3, <1>4 DEF InType
<1>6. in' = [in EXCEPT ![c] = r]
    BY <1>2, <1>3
<1> HIDE DEF r
<1>7. CASE Unusable(f)
  <2>1. frames' = frames /\ dropped' = dropped \cup {in[c].cur}
    BY <1>3, <1>7
  <2> QED BY <1>3, <1>5, <1>6, <2>1, FrameGivenUp
<1>8. CASE ~Unusable(f)
  <2>1. frames' = Append(frames, f) /\ dropped' = dropped
    BY <1>3, <1>8
  <2> DEFINE n == Len(frames)
  <2>2. /\ frames' \in Seq(Ids) /\ n \in Nat /\ Len(frames') = n + 1
        /\ frames'[n + 1] = f
        /\ \A i \in 1 .. n : frames'[i] = frames[i] /\ frames[i] \in Int
    BY <1>1, <1>4, <2>1, Elements DEF TypeOK
  <2> HIDE DEF n
  <2>3. /\ in[c].cur <= r.cur /\ r.cur <= link[c].sent
        /\ dropped \subseteq dropped' /\ dropped' \subseteq Ids
    BY <1>1, <1>4, <1>5, <2>1 DEF TypeOK
  <2>4. /\ TypeOK' /\ Numbers' /\ Snapshots' /\ SegOrder'
        /\ \A d \in Conns : LinkOK(d)' /\ InOK(d)'
        /\ LastAckSent' /\ NoFatalAck' /\ Safe(held)' /\ SnapsBehind'
        /\ in'[c] = r
    BY <1>3, <1>4, <1>5, <1>6, <2>2, <2>3, ReadConn
  <2>5. next \in Int /\ next <= f
    BY <1>1, <1>3, <1>4, FrameIsNext, Elements
  <2>6. /\ \A i \in 1 .. n : frames[i] < f /\ next <= frames[i]
        /\ \A i, j \in 1 .. n : i < j => frames[i] < frames[j]
    BY <1>1, <1>4 DEF FrameOrder, n
  <2>7. \A i \in 1 .. n + 1 : frames'[i] \in Int /\ frames'[i] <= f
    BY <1>4, <2>2, <2>6
  <2>8. FrameOrder'
    <3>1. ASSUME NEW i \in 1 .. n + 1, NEW j \in 1 .. n + 1, i < j
          PROVE  frames'[i] < frames'[j]
      <4>1. i \in 1 .. n /\ (j \in 1 .. n \/ j = n + 1)
        BY <2>2, <3>1
      <4> QED BY <2>2, <2>6, <3>1, <4>1
    <3>2. ASSUME NEW i \in 1 .. n + 1
          PROVE  next <= frames'[i]
      <4>1. i \in 1 .. n \/ i = n + 1
        BY <2>2
      <4> QED BY <2>2, <2>5, <2>6, <4>1
    <3>3. \A i \in 1 .. n + 1 : frames'[i] < f + 1
      BY <1>4, <2>7
    <3>4. next <= f + 1 + 0
      BY <1>4, <2>5
    <3> QED BY <1>3, <1>4, <1>5, <2>2, <2>4, <3>1, <3>2, <3>3, <3>4 DEF FrameOrder
  <2>9. Bounds'
    <3>1. \A i \in 1 .. n + 1 : frames'[i] < made
      BY <1>1, <1>4, <2>7, Elements
    <3> QED BY <1>3, <2>2, <3>1 DEF IInv, Bounds
  <2>10. Given' = Given
    BY <1>3, <2>1 DEF Given
  <2>11. \A g \in 0 .. f - 1 : g \in stored \cup Given \/ \E j \in 1 .. n : frames[j] = g
    BY <1>1, <1>4 DEF Covered, n
  <2>12. Covered'
    <3>1. ASSUME NEW i \in 1 .. n + 1, NEW g \in 0 .. frames'[i] - 1
          PROVE  g \in stored \cup Given \/ \E j \in 1 .. i - 1 : frames'[j] = g
      <4>1. CASE i = n + 1
        <5>1. g \in 0 .. f - 1
          BY <2>2, <4>1
        <5>2. g \in stored \cup Given \/ \E j \in 1 .. n : frames[j] = g
          BY <2>11, <5>1
        <5> QED BY <2>2, <4>1, <5>2
      <4>2. CASE i \in 1 .. n
        <5>1. frames'[i] = frames[i]
          BY <2>2, <4>2
        <5>2. g \in stored \cup Given \/ \E j \in 1 .. i - 1 : frames[j] = g
          BY <1>1, <4>2, <5>1 DEF Covered, n
        <5>3. \A j \in 1 .. i - 1 : frames'[j] = frames[j]
          BY <2>2, <4>2
        <5> QED BY <5>2, <5>3
      <4> QED BY <2>2, <4>1, <4>2
    <3>2. ASSUME NEW g \in 0 .. f + 1 - 1
          PROVE  g \in stored \cup Given \/ \E j \in 1 .. n + 1 : frames'[j] = g
      <4>1. g \in 0 .. f - 1 \/ g = f
        BY <1>4
      <4>2. CASE g = f
        BY <2>2, <4>2
      <4>3. CASE g \in 0 .. f - 1
        <5>1. g \in stored \cup Given \/ \E j \in 1 .. n : frames[j] = g
          BY <2>11, <4>3
        <5>2. \A j \in 1 .. n : j \in 1 .. n + 1 /\ frames'[j] = frames[j]
          BY <2>2
        <5> QED BY <5>1, <5>2
      <4> QED BY <4>1, <4>2, <4>3
    <3>3. \A g \in 0 .. next - 1 : g \in stored \cup Given
      BY <1>1 DEF Covered
    <3>4. /\ Len(frames') = n + 1 /\ next' = next /\ stored' = stored
          /\ input' = c /\ in'[c].cur = f + 1
      BY <1>3, <1>4, <1>5, <2>2, <2>4
    <3> QED BY <1>4, <2>2, <2>10, <3>1, <3>2, <3>3, <3>4 DEF Covered
  <2> QED BY <2>4, <2>8, <2>9, <2>12 DEF IInv
<1> QED BY <1>7, <1>8

LEMMA WriteAckStep ==
    ASSUME IInv, NEW c \in Conns, WriteAck(c)
    PROVE  /\ IInv'
           /\ link[c].told < link'[c].told
           /\ \A d \in Conns : d # c => link'[d] = link[d]
<1>1. TypeOK /\ Numbers /\ LinkOK(c) /\ InOK(c) /\ AckSent(c)
    BY AckSentOfAll DEF IInv
<1>2. /\ in \in [Conns -> InType] /\ in[c] \in InType
      /\ link \in [Conns -> LinkType] /\ link[c] \in LinkType
      /\ in[c].cur \in Int
      /\ in[c].packet \in Ids /\ in[c].packet \in Int
      /\ in[c].acked \in Ids /\ in[c].acked \in Int
      /\ link[c].told \in Int /\ link[c].sent \in Int /\ made \in Int
    BY <1>1, Fields, Elements DEF TypeOK
<1>3. /\ in[c].st = "open" /\ in[c].writing /\ Fine
      /\ in' = IF in[c].packet # in[c].acked
               THEN [in EXCEPT ![c] = [in[c] EXCEPT !.packet = in[c].acked]]
               ELSE [in EXCEPT ![c] = [in[c] EXCEPT !.writing = FALSE]]
      /\ UNCHANGED <<input, next, frames, snaps, durable, at, mode, stored,
                     dropped, again, made, held, pub, conn, dialed, forced>>
    BY <1>2 DEF WriteAck, AckWritten
<1>4. input = c
    BY <1>1, <1>3 DEF TypeOK
<1>5. link[c].told < in[c].packet /\ in[c].packet <= in[c].acked
    BY <1>1, <1>3 DEF AckSent
<1>6. /\ in' \in [Conns -> InType] /\ in'[c].st = "open"
      /\ in'[c].cur = in[c].cur /\ in'[c].skip = in[c].skip
      /\ in'[c].acked = in[c].acked /\ in'[c].packet = in[c].acked
      /\ in'[c].writing <=> in[c].packet # in[c].acked
      /\ \A d \in Conns : d # c => in'[d] = in[d]
  <2>1. CASE in[c].packet # in[c].acked
    <3>1. LET i == [in[c] EXCEPT !.packet = in[c].acked]
          IN  /\ i \in InType /\ i.st = in[c].st /\ i.cur = in[c].cur
              /\ i.skip = in[c].skip /\ i.acked = in[c].acked
              /\ i.packet = in[c].acked /\ i.writing = in[c].writing
      BY <1>2 DEF InType
    <3> QED BY <1>2, <1>3, <2>1, <3>1
  <2>2. CASE in[c].packet = in[c].acked
    <3>1. LET i == [in[c] EXCEPT !.writing = FALSE]
          IN  /\ i \in InType /\ i.st = in[c].st /\ i.cur = in[c].cur
              /\ i.skip = in[c].skip /\ i.acked = in[c].acked
              /\ i.packet = in[c].packet /\ ~i.writing
      BY <1>2 DEF InType
    <3> QED BY <1>2, <1>3, <2>2, <3>1
  <2> QED BY <2>1, <2>2
<1> DEFINE acks == IF c = conn THEN Append(link[c].acks, in[c].packet)
                   ELSE link[c].acks
<1>7. /\ acks \in Seq(Ids)
      /\ \A i \in 1 .. Len(acks) :
            \/ acks[i] = in[c].packet
            \/ i \in 1 .. Len(link[c].acks) /\ acks[i] = link[c].acks[i]
  <2>1. link[c].acks \in Seq(Ids) /\ Len(link[c].acks) \in Nat
    BY <1>1, Fields
  <2>2. CASE c = conn
    <3>1. acks = Append(link[c].acks, in[c].packet)
      BY <2>2
    <3>2. /\ acks \in Seq(Ids) /\ Len(acks) = Len(link[c].acks) + 1
          /\ acks[Len(link[c].acks) + 1] = in[c].packet
          /\ \A i \in 1 .. Len(link[c].acks) : acks[i] = link[c].acks[i]
      BY <1>2, <2>1, <3>1
    <3>3. \A i \in 1 .. Len(link[c].acks) + 1 :
            i \in 1 .. Len(link[c].acks) \/ i = Len(link[c].acks) + 1
      BY <2>1
    <3> QED BY <3>2, <3>3
  <2>3. CASE c # conn
    <3>1. acks = link[c].acks
      BY <2>3
    <3> QED BY <2>1, <3>1
  <2> QED BY <2>2, <2>3
<1>8. link' = [link EXCEPT ![c] = [link[c] EXCEPT !.acks = acks,
                                                  !.told = in[c].packet]]
    BY <1>2 DEF WriteAck
<1> HIDE DEF acks
<1>9. /\ link' \in [Conns -> LinkType]
      /\ link'[c].init = link[c].init /\ link'[c].sent = link[c].sent
      /\ link'[c].acks = acks /\ link'[c].told = in[c].packet
      /\ \A d \in Conns : d # c => link'[d] = link[d]
  <2>1. LET l == [link[c] EXCEPT !.acks = acks, !.told = in[c].packet]
        IN  /\ l \in LinkType /\ l.init = link[c].init /\ l.sent = link[c].sent
            /\ l.acks = acks /\ l.told = in[c].packet
    BY <1>2, <1>7 DEF LinkType
  <2> QED BY <1>2, <1>8, <2>1
<1>10. TypeOK'
  <2>1. \A d \in Conns : in'[d].st = in[d].st /\ in'[d].cur = in[d].cur
    BY <1>3, <1>6
  <2>2. \A d \in Conns : link'[d].sent = link[d].sent
    BY <1>9
  <2>3. faults' = faults
    BY <1>3 DEF Fine
  <2> QED BY <1>1, <1>3, <1>6, <1>9, <2>1, <2>2, <2>3 DEF TypeOK
<1>11. Numbers'
  <2>1. \A d \in Conns : in'[d].st = in[d].st
    BY <1>3, <1>6
  <2>2. \A i \in 1 .. Len(snaps) : snaps[i].conn \in Conns \cup {0}
    BY <1>1, Elements
  <2> QED BY <1>1, <1>3, <2>1, <2>2 DEF Numbers
<1>12. NoFatalAck'
    BY <1>3 DEF IInv, NoFatalAck
<1>13. Given' = Given /\ Lasting' = Lasting
    BY <1>3 DEF Given, Lasting
<1>14. LinkOK(c)'
  <2>1. /\ in[c].packet <= made /\ Safe(in[c].packet)
        /\ ~mode.others => in[c].packet <= link[c].sent
    <3>1. in[c].cur <= link[c].sent
      BY <1>1, <1>3 DEF TypeOK
    <3>2. ~mode.others => in[c].acked <= in[c].cur
      BY <1>1, <1>3 DEF InOK
    <3>3. in[c].packet <= made /\ Safe(in[c].packet)
      BY <1>1, <1>3 DEF InOK
    <3> QED BY <1>2, <1>5, <3>1, <3>2, <3>3
  <2>2. ASSUME NEW i \in 1 .. Len(acks)
        PROVE  /\ acks[i] <= made /\ Safe(acks[i])
               /\ ~mode.others => acks[i] <= link[c].sent
    <3>1. CASE acks[i] = in[c].packet
      BY <2>1, <3>1
    <3>2. CASE i \in 1 .. Len(link[c].acks) /\ acks[i] = link[c].acks[i]
      BY <1>1, <3>2 DEF LinkOK
    <3> QED BY <1>7, <3>1, <3>2
  <2> QED BY <1>1, <1>3, <1>9, <1>13, <2>2 DEF LinkOK, Safe
<1>15. InOK(c)'
    BY <1>1, <1>3, <1>6, <1>13 DEF InOK, Safe
<1>16. AckSent(c)'
    BY <1>2, <1>5, <1>6, <1>9 DEF AckSent
<1>17. IInv'
    BY <1>3, <1>4, <1>6, <1>9, <1>10, <1>11, <1>12, <1>13, <1>14, <1>15, <1>16,
       ConnStep
<1> QED BY <1>2, <1>5, <1>9, <1>17

LEMMA Before ==
    ASSUME NEW a \in Int, NEW b \in Int, a <= b, NEW f \in 0 .. a - 1
    PROVE  f \in 0 .. b - 1
    OBVIOUS

LEMMA StartStreamStep ==
    ASSUME IInv, NEW c \in Conns, Fine, StartStream(c, link[c].init),
           pub' = (IF frames = << >> THEN pub ELSE Lost),
           UNCHANGED <<made, held, conn, dialed, link, forced>>
    PROVE  IInv'
<1> DEFINE init == link[c].init
           ahead == next - init
           tooFar == ahead > MaxSkip
           skip == IF ahead > 0 /\ ~tooFar THEN ahead ELSE 0
           r == [NewIn EXCEPT !.st = "open", !.cur = init, !.acked = init,
                              !.skip = skip]
<1>1. TypeOK /\ Numbers /\ LinkOK(c) /\ InOK(c)
    BY DEF IInv
<1>2. /\ in[c].st = "new" /\ input = 0 /\ input' = c /\ frames' = << >>
      /\ next' = (IF tooFar THEN init ELSE next)
      /\ again' = (again \/ tooFar)
      /\ in' = [in EXCEPT ![c] = r]
      /\ UNCHANGED <<snaps, durable, at, mode, stored, dropped>>
    BY DEF StartStream
<1>3. /\ init \in Ids /\ init \in Nat /\ next \in Ids /\ next \in Nat
      /\ made \in Int /\ link[c].sent \in Int /\ MaxSkip \in Nat
      /\ init <= link[c].sent /\ link[c].sent <= made
    BY <1>1, Fields, Elements, IdNumbers, KmpInAssumption DEF TypeOK, LinkOK
<1>4. Safe(init) /\ link[c].told = init
    BY <1>1, <1>2 DEF InOK
<1> HIDE DEF init
<1>5. /\ skip \in Nat /\ skip <= next
      /\ skip # 0 => next' = init + skip
      /\ next' <= init + skip
      /\ next' \in Ids /\ next' \in Nat /\ next' <= made
      /\ ~again' => next' = next
      /\ next' <= next
  <2>1. CASE tooFar
    <3>1. next' = init /\ skip = 0 /\ again'
      BY <1>2, <2>1
    <3>2. init < next /\ init <= made
      BY <1>3, <2>1
    <3> HIDE DEF skip, tooFar, ahead
    <3> QED BY <1>3, <3>1, <3>2
  <2>2. CASE ~tooFar
    <3>1. next' = next /\ next <= made
      BY <1>1, <1>2, <2>2 DEF IInv, Bounds
    <3>2. skip = IF next - init > 0 THEN next - init ELSE 0
      BY <2>2
    <3> HIDE DEF skip, tooFar, ahead
    <3> QED BY <1>3, <3>1, <3>2
  <2> QED BY <2>1, <2>2
<1>6. next' \in Int /\ next \in Int /\ next' <= next
    BY <1>3, <1>5, IdNumbers
<1>7. skip \in Ids
    BY <1>3, <1>5, SmallerId
<1> HIDE DEF skip, tooFar, ahead
<1>8. /\ r \in InType /\ r.st = "open" /\ r.cur = init /\ r.acked = init
      /\ r.skip = skip /\ r.packet = 0 /\ ~r.writing
    BY <1>3, <1>7, RecordTypes DEF NewIn, InType
<1> HIDE DEF r
<1>9. /\ in' \in [Conns -> InType] /\ in'[c] = r
      /\ \A d \in Conns : d # c => in'[d] = in[d]
      /\ c # 0
    BY <1>1, <1>2, <1>8 DEF TypeOK, Conns
<1>10. << >> \in Seq(Ids) /\ \A i \in 1 .. Len(<< >>) : FALSE
    BY EmptySeq, NoFrames
<1>11. Given' = Given /\ Lasting' = Lasting
    BY <1>2 DEF Given, Lasting
<1>12. TypeOK'
  <2>1. \A d \in Conns : in'[d].st = "open" <=> input' = d
    BY <1>1, <1>2, <1>8, <1>9 DEF TypeOK, Conns
  <2>2. \A d \in Conns : in'[d].st = "open" => in'[d].cur <= link'[d].sent
    BY <1>1, <1>3, <1>8, <1>9 DEF TypeOK
  <2>3. pub' \in {"live", "ending", "ended", "cut", "fatal"}
    BY <1>1 DEF Lost, TypeOK
  <2>4. faults' = faults
    BY DEF Fine
  <2> QED BY <1>1, <1>2, <1>5, <1>9, <1>10, <2>1, <2>2, <2>3, <2>4 DEF TypeOK
<1>13. Numbers'
  <2>1. \A d \in Conns : in'[d].st = "none" <=> d > dialed
    BY <1>1, <1>2, <1>8, <1>9 DEF Numbers
  <2>2. ASSUME NEW i \in 1 .. Len(snaps), snaps[i].conn # 0
        PROVE  in'[snaps[i].conn].st \in {"open", "closed"}
    <3>1. snaps[i].conn \in Conns /\ in[snaps[i].conn].st \in {"open", "closed"}
      BY <1>1, <2>2, Elements DEF Numbers
    <3> QED BY <1>2, <1>9, <3>1
  <2> QED BY <1>1, <1>2, <2>1, <2>2 DEF Numbers
<1>14. Bounds'
    BY <1>2, <1>5, <1>10 DEF IInv, Bounds
<1>15. FrameOrder'
    BY <1>2, <1>5, <1>8, <1>9, <1>10 DEF FrameOrder
<1>16. SegOrder'
    BY <1>2, <1>5 DEF IInv, SegOrder
<1>17. Covered'
  <2>1. ASSUME NEW f \in 0 .. next' - 1
        PROVE  f \in stored \cup Given
    <3>1. f \in 0 .. next - 1
      BY <1>6, Before
    <3> QED BY <3>1 DEF IInv, Covered
  <2>2. Lasting \subseteq stored \cup Given
    BY DEF IInv, Snapshots, Lasting
  <2>3. \A f \in 0 .. init - 1 : f \in stored \cup Given
    BY <1>4, <2>2 DEF Safe
  <2> QED BY <1>2, <1>8, <1>9, <1>10, <1>11, <2>1, <2>3 DEF Covered
<1>18. Snapshots'
    BY <1>2, <1>11 DEF IInv, Snapshots
<1>19. SnapsBehind'
  <2>1. \A i \in 1 .. Len(snaps) : snaps[i].conn # c
    BY <1>1, <1>2, <1>9 DEF Numbers
  <2> QED BY <1>2, <2>1 DEF SnapsBehind
<1>20. ASSUME NEW d \in Conns
       PROVE  LinkOK(d)' /\ InOK(d)' /\ AckSent(d)'
  <2>1. LinkOK(d) /\ InOK(d) /\ AckSent(d)
    BY AckSentOfAll DEF IInv
  <2>2. LinkOK(d)'
    BY <1>2, <1>11, <2>1 DEF LinkOK, Safe
  <2>3. CASE d = c
    <3>1. 0 <= made /\ init <= made /\ Safe(0)
      BY <1>3 DEF Safe
    <3>2. InOK(d)'
      BY <1>3, <1>4, <1>8, <1>9, <1>11, <2>3, <3>1 DEF InOK, Safe
    <3>3. AckSent(d)'
      BY <1>4, <1>8, <1>9, <2>3 DEF AckSent
    <3> QED BY <2>2, <3>2, <3>3
  <2>4. CASE d # c
    <3>1. in'[d] = in[d]
      BY <1>9, <2>4
    <3>2. InOK(d)' /\ AckSent(d)'
      BY <1>2, <1>11, <2>1, <3>1 DEF InOK, AckSent, Safe
    <3> QED BY <2>2, <3>2
  <2> QED BY <2>3, <2>4
<1>21. LastAckSent'
    BY <1>20 DEF LastAckSent, AckSent
<1>22. Safe(held)' /\ NoFatalAck'
    BY <1>2, <1>11 DEF IInv, Safe, NoFatalAck, Lost
<1> QED BY <1>12, <1>13, <1>14, <1>15, <1>16, <1>17, <1>18, <1>19, <1>20,
           <1>21, <1>22 DEF IInv

-----------------------------------------------------------------------------
(* The track *)

\* The connection of the track is acked: the others are left alone.
LEMMA AckInputFields ==
    ASSUME TypeOK, NEW n \in Ids, in' = in \/ in' = AckInput(n)
    PROVE  /\ in' \in [Conns -> InType]
           /\ \A d \in Conns : /\ in'[d].st = in[d].st /\ in'[d].cur = in[d].cur
                               /\ in'[d].skip = in[d].skip
           /\ \A d \in Conns : in'[d] = in[d] \/ /\ d = input
                                                 /\ in' = AckInput(n)
                                                 /\ in'[d] = AckFrames(in[d], n)
<1>1. /\ in \in [Conns -> InType] /\ \A d \in Conns : in[d] \in InType
      /\ input \in Conns \cup {0}
    BY DEF TypeOK
<1>2. CASE in' = in
    BY <1>1, <1>2
<1>3. CASE in' = AckInput(n) /\ in' # in
  <2>1. input \in Conns
    BY <1>1, <1>3 DEF AckInput
  <2>2. in' = [in EXCEPT ![input] = AckFrames(in[input], n)]
    BY <1>3, <2>1 DEF AckInput, Conns
  <2>3. AckFrames(in[input], n) \in InType
    BY <1>1, <2>1, AckFramesFields
  <2>4. /\ AckFrames(in[input], n).st = in[input].st
        /\ AckFrames(in[input], n).cur = in[input].cur
        /\ AckFrames(in[input], n).skip = in[input].skip
    BY <1>1, <2>1, AckFramesFields
  <2>5. \A d \in Conns : IF d = input THEN in'[d] = AckFrames(in[d], n)
                                      ELSE in'[d] = in[d]
    BY <1>1, <2>1, <2>2
  <2> QED BY <1>1, <1>3, <2>1, <2>2, <2>3, <2>4, <2>5
<1> QED BY <1>2, <1>3

\* An ack that goes forward is the last that is told, or waits for its turn.
LEMMA AckedConn ==
    ASSUME TypeOK, NEW c \in Conns, NEW n \in Ids, InOK(c), AckSent(c),
           in[c].st = "open",
           in'[c] = AckFrames(in[c], n), link' = link, mode' = mode, made' = made,
           Lasting \subseteq Lasting',
           n <= made, Safe(n)', ~mode.others => n <= in[c].cur
    PROVE  InOK(c)' /\ AckSent(c)'
<1>1. /\ in[c] \in InType /\ in[c].acked \in Int /\ in[c].packet \in Int
      /\ link[c].told \in Int /\ n \in Int /\ made \in Int /\ in[c].cur \in Int
    BY Fields, Elements, IdNumbers
<1>2. /\ in'[c].st = "open" /\ in'[c].cur = in[c].cur
      /\ in'[c].acked = IF n <= in[c].acked THEN in[c].acked ELSE n
      /\ in'[c].packet \in {in[c].packet, n}
      /\ n <= in[c].acked => in'[c] = in[c]
      /\ n > in[c].acked => /\ in'[c].writing
                            /\ in'[c].packet = IF in[c].writing
                                               THEN in[c].packet ELSE n
    BY <1>1, AckFramesFields
<1>3. 0 .. n - 1 \subseteq Lasting'
    BY DEF Safe
<1>4. InOK(c)'
  <2>1. /\ in[c].acked <= made /\ in[c].packet <= made
        /\ 0 .. in[c].acked - 1 \subseteq Lasting'
        /\ 0 .. in[c].packet - 1 \subseteq Lasting'
    BY DEF InOK, Safe
  <2>2. ~mode.others => in[c].acked <= in[c].cur
    BY DEF InOK
  <2>3. in'[c].acked \in {in[c].acked, n}
    BY <1>2
  <2>4. /\ in'[c].acked <= made /\ in'[c].packet <= made
        /\ 0 .. in'[c].acked - 1 \subseteq Lasting'
        /\ 0 .. in'[c].packet - 1 \subseteq Lasting'
    <3>1. in'[c].acked <= made /\ 0 .. in'[c].acked - 1 \subseteq Lasting'
      BY <1>3, <2>1, <2>3
    <3>2. in'[c].packet <= made /\ 0 .. in'[c].packet - 1 \subseteq Lasting'
      BY <1>2, <1>3, <2>1
    <3> QED BY <3>1, <3>2
  <2>5. ~mode'.others => in'[c].acked <= in'[c].cur
    BY <1>2, <2>2, <2>3
  <2> QED BY <1>2, <2>4, <2>5 DEF InOK, Safe
<1>5. AckSent(c)'
  <2>1. CASE n <= in[c].acked
    BY <1>2, <2>1 DEF AckSent
  <2>2. CASE n > in[c].acked
    <3>1. /\ in'[c].acked = n /\ in'[c].writing
          /\ in'[c].packet = IF in[c].writing THEN in[c].packet ELSE n
      BY <1>1, <1>2, <2>2
    <3>2. CASE in[c].writing
      <4>1. link[c].told < in[c].packet /\ in[c].packet <= in[c].acked
        BY <3>2 DEF AckSent
      <4> QED BY <1>1, <2>2, <3>1, <3>2, <4>1 DEF AckSent
    <3>3. CASE ~in[c].writing
      <4>1. link[c].told = in[c].acked
        BY <3>3 DEF AckSent
      <4> QED BY <1>1, <2>2, <3>1, <3>3, <4>1 DEF AckSent
    <3> QED BY <3>2, <3>3
  <2> QED BY <1>1, <2>1, <2>2
<1> QED BY <1>4, <1>5

LEMMA TrackConns ==
    ASSUME IInv, UNCHANGED <<input, mode, made, held, pub, conn, dialed, link>>,
           Lasting \subseteq Lasting',
           NEW n \in Ids, in' = in \/ in' = AckInput(n),
           in' # in => /\ n <= made /\ Safe(n)'
                       /\ ~mode.others => n <= in[input].cur
    PROVE  /\ \A c \in Conns : LinkOK(c)' /\ InOK(c)'
           /\ LastAckSent' /\ NoFatalAck' /\ Safe(held)'
<1>1. TypeOK /\ made \in Int
    BY Elements DEF IInv
<1>2. \A d \in Conns : in'[d] = in[d] \/ /\ d = input
                                         /\ in' = AckInput(n)
                                         /\ in'[d] = AckFrames(in[d], n)
    BY <1>1, AckInputFields
<1>3. ASSUME NEW c \in Conns
      PROVE  LinkOK(c)' /\ InOK(c)' /\ AckSent(c)'
  <2>1. LinkOK(c) /\ InOK(c) /\ AckSent(c)
    BY AckSentOfAll DEF IInv
  <2>2. LinkOK(c)'
    BY <2>1 DEF LinkOK, Safe
  <2>3. CASE in'[c] = in[c]
    <3>1. InOK(c)'
      BY <2>1, <2>3 DEF InOK, Safe
    <3>2. AckSent(c)'
      BY <2>1, <2>3 DEF AckSent
    <3> QED BY <2>2, <3>1, <3>2
  <2>4. CASE in'[c] # in[c]
    <3>1. c = input /\ in'[c] = AckFrames(in[c], n) /\ in' # in
      BY <1>2, <2>4
    <3>2. in[c].st = "open"
      BY <1>1, <3>1 DEF TypeOK
    <3>3. n <= made /\ Safe(n)' /\ (~mode.others => n <= in[c].cur)
      BY <3>1
    <3> QED BY <1>1, <2>1, <2>2, <3>1, <3>2, <3>3, AckedConn
  <2> QED BY <2>3, <2>4
<1>4. LastAckSent'
    BY <1>3 DEF LastAckSent, AckSent
<1>5. NoFatalAck' /\ Safe(held)'
    BY DEF IInv, NoFatalAck, Safe
<1> QED BY <1>3, <1>4, <1>5

\* The types of what a step of the track leaves.
LEMMA TrackTypes ==
    ASSUME IInv, UNCHANGED <<input, mode, made, held, pub, conn, dialed, link,
                             forced, again>>,
           Fine \/ Fault,
           NEW n \in Ids, in' = in \/ in' = AckInput(n),
           next' \in Ids, at' \in Ids, frames' \in Seq(Ids),
           snaps' \in Seq(SnapType),
           durable' \subseteq Ids, stored' \subseteq Ids, dropped' \subseteq Ids,
           \A i \in 1 .. Len(snaps') :
                \/ snaps'[i].conn = input
                \/ \E j \in 1 .. Len(snaps) : snaps'[i].conn = snaps[j].conn
    PROVE  TypeOK' /\ Numbers'
<1>1. TypeOK /\ Numbers
    BY DEF IInv
<1>2. /\ in' \in [Conns -> InType]
      /\ \A d \in Conns : in'[d].st = in[d].st /\ in'[d].cur = in[d].cur
    BY <1>1, AckInputFields
<1>3. faults' \in 0 .. MaxFaults
    BY <1>1, Faults
<1>4. TypeOK'
  <2>1. \A d \in Conns : in'[d].st = "open" <=> input' = d
    BY <1>1, <1>2 DEF TypeOK
  <2>2. \A d \in Conns : in'[d].st = "open" => in'[d].cur <= link'[d].sent
    BY <1>1, <1>2 DEF TypeOK
  <2> QED BY <1>1, <1>2, <1>3, <2>1, <2>2 DEF TypeOK
<1>5. Numbers'
  <2>1. \A d \in Conns : in'[d].st = "none" <=> d > dialed'
    BY <1>1, <1>2 DEF Numbers
  <2>2. ASSUME NEW i \in 1 .. Len(snaps'), snaps'[i].conn # 0
        PROVE  in'[snaps'[i].conn].st \in {"open", "closed"}
    <3>1. CASE snaps'[i].conn = input
      BY <1>1, <1>2, <2>2, <3>1 DEF TypeOK
    <3>2. CASE \E j \in 1 .. Len(snaps) : snaps'[i].conn = snaps[j].conn
      <4>1. PICK j \in 1 .. Len(snaps) : snaps'[i].conn = snaps[j].conn
        BY <3>2
      <4>2. snaps[j].conn \in Conns /\ in[snaps[j].conn].st \in {"open", "closed"}
        BY <1>1, <2>2, <4>1, Elements DEF Numbers
      <4> QED BY <1>2, <4>1, <4>2
    <3> QED BY <3>1, <3>2
  <2>3. conn' \in {0, dialed'}
    BY <1>1 DEF Numbers
  <2> QED BY <2>1, <2>2, <2>3 DEF Numbers
<1> QED BY <1>4, <1>5

\* The first k frames leave the list of those that wait.
LEMMA RemoveStep ==
    ASSUME IInv, NEW k \in 0 .. Len(frames), Remove(k),
           UNCHANGED <<input, made>>,
           \A d \in Conns : in'[d].cur = in[d].cur /\ in'[d].skip = in[d].skip,
           stored \cup Given \cup Firsts(k) \subseteq stored' \cup Given'
    PROVE  /\ frames' \in Seq(Ids) /\ next' \in Ids
           /\ next' = NextAfter(k)
           /\ next <= next' /\ next' <= made
           /\ Firsts(k) \subseteq Ids
           /\ \A f \in Firsts(k) : next <= f /\ f < next' /\ f < made
           /\ input # 0 /\ k # 0 => next' <= in[input].cur
           /\ \A i \in 1 .. Len(frames') : frames'[i] < made
           /\ FrameOrder' /\ Covered'
<1>1. /\ TypeOK /\ Bounds /\ FrameOrder /\ Covered
      /\ frames \in Seq(Ids) /\ input \in Conns \cup {0}
    BY DEF IInv, TypeOK
<1> DEFINE n == Len(frames)
<1>2. /\ n \in Nat /\ k \in 0 .. n /\ next \in Int /\ made \in Int /\ next \in Ids
      /\ \A i \in 1 .. n : frames[i] \in Ids /\ frames[i] \in Int
    BY <1>1, Elements DEF TypeOK
<1>3. /\ frames' \in Seq(Ids) /\ Len(frames') = n - k
      /\ \A i \in 1 .. Len(frames') : frames'[i] = frames[i + k]
      /\ k = 0 => next' = next
      /\ k # 0 => k \in 1 .. n /\ next' = frames[k] + 1
    BY <1>1, RemoveProperties
<1>4. /\ \A i, j \in 1 .. n : i < j => frames[i] < frames[j]
      /\ \A i \in 1 .. n : next <= frames[i] /\ frames[i] < made
      /\ next <= made
    BY <1>1 DEF FrameOrder, Bounds
<1> HIDE DEF n
<1>5. next' \in Ids /\ next <= next' /\ next' <= made
  <2>1. CASE k = 0
    BY <1>2, <1>3, <1>4, <2>1
  <2>2. CASE k # 0
    <3>1. /\ next' = frames[k] + 1 /\ next <= frames[k] /\ frames[k] < made
          /\ frames[k] \in Ids /\ made \in Ids
      BY <1>1, <1>2, <1>3, <1>4, <2>2 DEF TypeOK
    <3>2. frames[k] + 1 \in Ids /\ frames[k] + 1 <= made
      BY <3>1, NextId
    <3>3. next \in Int /\ frames[k] \in Int
      BY <1>2, <3>1, IdNumbers
    <3> QED BY <3>1, <3>2, <3>3
  <2> QED BY <2>1, <2>2
<1>6. next' = NextAfter(k)
    BY DEF Remove
<1>7. Firsts(k) = {frames[i] : i \in 1 .. k}
    BY DEF Firsts
<1>8. \A i \in 1 .. k : i \in 1 .. n /\ frames[i] <= frames[k]
  <2> SUFFICES ASSUME NEW i \in 1 .. k
               PROVE  i \in 1 .. n /\ frames[i] <= frames[k]
    OBVIOUS
  <2>1. i \in 1 .. n /\ k \in 1 .. n /\ (i < k \/ i = k)
    BY <1>2
  <2>2. frames[i] \in Int /\ frames[k] \in Int
    BY <1>2, <2>1
  <2>3. frames[i] < frames[k] \/ i = k
    BY <1>4, <2>1
  <2> QED BY <2>1, <2>2, <2>3
<1>9. /\ Firsts(k) \subseteq Ids
      /\ \A f \in Firsts(k) : next <= f /\ f < next' /\ f < made
  <2> SUFFICES ASSUME NEW i \in 1 .. k
               PROVE  /\ frames[i] \in Ids
                      /\ next <= frames[i] /\ frames[i] < next' /\ frames[i] < made
    BY <1>7
  <2>1. k # 0 /\ i \in 1 .. n /\ k \in 1 .. n /\ frames[i] <= frames[k]
    BY <1>2, <1>8
  <2>2. next' = frames[k] + 1
    BY <1>3, <2>1
  <2> QED BY <1>2, <1>4, <2>1, <2>2
<1>10. \A i \in 1 .. n - k : /\ i + k \in 1 .. n /\ frames'[i] = frames[i + k]
                             /\ frames'[i] \in Int /\ frames'[i] < made
    BY <1>2, <1>3, <1>4
<1>11. input # 0 /\ k # 0 => next' <= in[input].cur
  <2> SUFFICES ASSUME input # 0, k # 0
               PROVE  next' <= in[input].cur
    OBVIOUS
  <2>1. k \in 1 .. n /\ next' = frames[k] + 1 /\ in[input].cur \in Int
    BY <1>1, <1>3, Fields
  <2>2. frames[k] < in[input].cur
    BY <1>1, <2>1 DEF FrameOrder, n
  <2> QED BY <1>2, <2>1, <2>2
<1>12. n # 0 <=> frames # << >>
    BY <1>1, EmptySeq DEF n
<1>13. frames' # << >> => frames # << >>
  <2>1. frames' # << >> => n - k # 0
    BY <1>3, EmptySeq
  <2> QED BY <1>2, <1>12, <2>1
<1>14. FrameOrder'
  <2>1. ASSUME NEW i \in 1 .. n - k, NEW j \in 1 .. n - k, i < j
        PROVE  frames'[i] < frames'[j]
    <3>1. i + k < j + k
      BY <1>2, <2>1
    <3> QED BY <1>4, <1>10, <2>1, <3>1
  <2>2. ASSUME NEW i \in 1 .. n - k
        PROVE  next' <= frames'[i]
    <3>1. CASE k = 0
      BY <1>3, <1>4, <1>10, <3>1
    <3>2. CASE k # 0
      <4>1. k < i + k /\ k \in 1 .. n
        BY <1>2, <3>2
      <4>2. frames[k] < frames[i + k] /\ frames'[i] = frames[i + k]
        BY <1>4, <1>10, <4>1
      <4>3. next' = frames[k] + 1 /\ frames[k] \in Int /\ frames[i + k] \in Int
        BY <1>2, <1>3, <1>10, <3>2, <4>1
      <4> QED BY <4>2, <4>3
    <3> QED BY <3>1, <3>2
  <2>3. ASSUME input # 0
        PROVE  /\ next' <= in[input].cur + in[input].skip
               /\ in[input].skip # 0 => next' = in[input].cur + in[input].skip
               /\ \A i \in 1 .. n - k : frames'[i] < in[input].cur
               /\ frames' # << >> => in[input].skip = 0
    <3>1. /\ next <= in[input].cur + in[input].skip
          /\ in[input].skip # 0 => next = in[input].cur + in[input].skip
          /\ \A i \in 1 .. n : frames[i] < in[input].cur
          /\ frames # << >> => in[input].skip = 0
      BY <1>1, <2>3 DEF FrameOrder, n
    <3>2. in[input].cur \in Int /\ in[input].skip \in Nat
      BY <1>1, <2>3, Fields
    <3>3. CASE k = 0
      BY <1>3, <1>10, <1>13, <3>1, <3>3
    <3>4. CASE k # 0
      <4>1. n # 0
        BY <1>2, <3>4
      <4>2. in[input].skip = 0
        BY <1>12, <3>1, <4>1
      <4> QED BY <1>10, <1>11, <2>3, <3>1, <3>2, <3>4, <4>2
    <3> QED BY <3>3, <3>4
  <2> QED BY <1>1, <1>3, <2>1, <2>2, <2>3 DEF FrameOrder
<1>15. ASSUME NEW i \in 0 .. n, NEW f,
              f \in stored \cup Given \/ \E j \in 1 .. i : frames[j] = f
       PROVE  \/ f \in stored' \cup Given'
              \/ \E j \in 1 .. i - k : frames'[j] = f
  <2>1. CASE f \in stored \cup Given
    BY <2>1
  <2>2. CASE \E j \in 1 .. i : frames[j] = f
    <3>1. PICK j \in 1 .. i : frames[j] = f
      BY <2>2
    <3>2. CASE j <= k
      <4>1. j \in 1 .. k
        BY <1>2, <3>2
      <4> QED BY <1>7, <3>1, <4>1
    <3>3. CASE j > k
      <4>1. j - k \in 1 .. i - k /\ j - k \in 1 .. n - k /\ (j - k) + k = j
        BY <1>2, <3>3
      <4>2. frames'[j - k] = frames[(j - k) + k]
        BY <1>10, <4>1
      <4> QED BY <3>1, <4>1, <4>2
    <3> QED BY <1>2, <3>2, <3>3
  <2> QED BY <1>15, <2>1, <2>2
<1>16. Covered'
  <2>1. ASSUME NEW f \in 0 .. next' - 1
        PROVE  f \in stored' \cup Given'
    <3>1. CASE k = 0
      BY <1>1, <1>3, <3>1 DEF Covered
    <3>2. CASE k # 0
      <4>1. k \in 1 .. n /\ f \in 0 .. frames[k]
        BY <1>2, <1>3, <3>2
      <4>2. CASE f = frames[k]
        <5>1. k \in 1 .. k
          BY <4>1
        <5> QED BY <1>7, <4>2, <5>1
      <4>3. CASE f # frames[k]
        <5>1. f \in 0 .. frames[k] - 1
          BY <1>2, <4>1, <4>3
        <5>2. f \in stored \cup Given \/ \E j \in 1 .. k - 1 : frames[j] = f
          BY <1>1, <4>1, <5>1 DEF Covered, n
        <5>3. k - 1 \in 0 .. n /\ \A j : j \notin 1 .. k - 1 - k
          BY <1>2, <4>1
        <5> QED BY <1>15, <5>2, <5>3
      <4> QED BY <4>2, <4>3
    <3> QED BY <3>1, <3>2
  <2>2. ASSUME NEW i \in 1 .. n - k, NEW f \in 0 .. frames'[i] - 1
        PROVE  f \in stored' \cup Given' \/ \E j \in 1 .. i - 1 : frames'[j] = f
    <3>1. i + k \in 1 .. n /\ f \in 0 .. frames[i + k] - 1
      BY <1>10
    <3>2. f \in stored \cup Given \/ \E j \in 1 .. i + k - 1 : frames[j] = f
      BY <1>1, <3>1 DEF Covered, n
    <3>3. i + k - 1 \in 0 .. n /\ (i + k - 1) - k = i - 1
      BY <1>2, <3>1
    <3> QED BY <1>15, <3>2, <3>3
  <2>3. ASSUME input # 0, NEW f \in 0 .. in[input].cur - 1
        PROVE  f \in stored' \cup Given' \/ \E j \in 1 .. n - k : frames'[j] = f
    <3>1. f \in stored \cup Given \/ \E j \in 1 .. n : frames[j] = f
      BY <1>1, <2>3 DEF Covered, n
    <3>2. n \in 0 .. n
      BY <1>2
    <3> QED BY <1>15, <3>1, <3>2
  <2> QED BY <1>1, <1>3, <2>1, <2>2, <2>3 DEF Covered
<1> QED BY <1>3, <1>5, <1>6, <1>9, <1>10, <1>11, <1>14, <1>16

LEMMA SegmentOrder ==
    ASSUME IInv, next' \in Ids, next <= next',
           UNCHANGED <<durable, at, again>>,
           \A g \in stored' : g \in stored \/ g < next',
           snaps' = snaps
    PROVE  SegOrder'
<1>1. TypeOK /\ next' \in Int
    BY IdNumbers DEF IInv
<1>2. /\ next \in Int /\ at \in Int /\ \A g \in stored : g \in Int
      /\ \A i \in 1 .. Len(snaps) : snaps[i].id \in Int
    BY <1>1, Elements, IdNumbers DEF TypeOK
<1>3. ASSUME ~again
      PROVE  /\ \A g \in stored' : g < next'
             /\ at <= next'
             /\ \A i \in 1 .. Len(snaps) : snaps[i].id <= next'
  <2>1. /\ \A g \in stored : g < next
        /\ at <= next
        /\ \A i \in 1 .. Len(snaps) : snaps[i].id <= next
    BY <1>3 DEF IInv, SegOrder
  <2>2. \A g \in stored : g < next'
    BY <1>1, <1>2, <2>1
  <2> QED BY <1>1, <1>2, <2>1, <2>2
<1>4. ~again => /\ \A g \in durable : g < at
                /\ \A i \in 1 .. Len(snaps) :
                    at <= snaps[i].id /\ \A g \in snaps[i].set : g < snaps[i].id
                /\ \A i, j \in 1 .. Len(snaps) : i < j => snaps[i].id <= snaps[j].id
    BY DEF IInv, SegOrder
<1> QED BY <1>3, <1>4 DEF SegOrder

LEMMA IdsBelow ==
    ASSUME NEW S \in SUBSET Ids, NEW m \in Int, \A f \in S : f < m
    PROVE  S \subseteq 0 .. m - 1
    BY IdNumbers

\* The id of the next frame is one of a frame.
LEMMA NextAfterId ==
    ASSUME IInv, NEW k \in 0 .. Len(frames)
    PROVE  NextAfter(k) \in Ids
<1>1. TypeOK /\ Bounds
    BY DEF IInv
<1>2. CASE k = 0
    BY <1>1, <1>2 DEF NextAfter, TypeOK
<1>3. CASE k # 0
  <2>1. k \in 1 .. Len(frames)
    BY <1>1, <1>3, Elements
  <2>2. frames[k] \in Ids /\ frames[k] < made /\ made \in Ids
    BY <1>1, <2>1, Elements DEF Bounds, TypeOK
  <2>3. NextAfter(k) = frames[k] + 1
    BY <1>3 DEF NextAfter
  <2> QED BY <2>2, <2>3, NextId
<1> QED BY <1>2, <1>3

\* The frames that were removed are given up.
LEMMA DiscardStep ==
    ASSUME IInv, NEW k \in 0 .. MaxFrames, Discard(k)
    PROVE  /\ IInv'
           /\ Given \subseteq Given' /\ Given' \subseteq Given \cup 0 .. made - 1
<1>1. /\ k \in 0 .. Len(frames) /\ k > 0 /\ Remove(k) /\ Fault
      /\ dropped' = dropped \cup Firsts(k)
      /\ in' = IF snaps = << >> THEN AckInput(NextAfter(k)) ELSE in
      /\ UNCHANGED <<input, snaps, durable, at, mode, stored, again, made, held,
                     pub, conn, dialed, link, forced>>
    BY DEF Discard, Dispose, Receiver, Cut
<1>2. /\ TypeOK /\ Bounds /\ Snapshots /\ made \in Int
      /\ input \in Conns \cup {0}
    BY Elements DEF IInv, TypeOK
<1>3. PICK n \in Ids : n = NextAfter(k)
    BY <1>1, NextAfterId
<1>4. in' = in \/ in' = AckInput(n)
    BY <1>1, <1>3
<1>5. \A d \in Conns : in'[d].cur = in[d].cur /\ in'[d].skip = in[d].skip
    BY <1>2, <1>3, <1>4, AckInputFields
<1>6. Given' = Given \cup Firsts(k)
    BY <1>1 DEF Given
<1>7. stored \cup Given \cup Firsts(k) \subseteq stored' \cup Given'
    BY <1>1, <1>6
<1>8. /\ frames' \in Seq(Ids) /\ next' \in Ids /\ next' = n
      /\ next <= next' /\ next' <= made
      /\ Firsts(k) \subseteq Ids /\ \A f \in Firsts(k) : f < made
      /\ input # 0 => next' <= in[input].cur
      /\ \A i \in 1 .. Len(frames') : frames'[i] < made
      /\ FrameOrder' /\ Covered'
    BY <1>1, <1>3, <1>5, <1>7, RemoveStep
<1>9. TypeOK' /\ Numbers'
  <2>1. /\ at' \in Ids /\ snaps' \in Seq(SnapType) /\ durable' \subseteq Ids
        /\ stored' \subseteq Ids /\ dropped' \subseteq Ids
    BY <1>1, <1>2, <1>8 DEF TypeOK
  <2>2. \A i \in 1 .. Len(snaps') :
            \E j \in 1 .. Len(snaps) : snaps'[i].conn = snaps[j].conn
    BY <1>1
  <2> QED BY <1>1, <1>3, <1>4, <1>8, <2>1, <2>2, TrackTypes
<1>10. Bounds'
    BY <1>1, <1>2, <1>8 DEF Bounds
<1>11. SegOrder'
    BY <1>1, <1>8, SegmentOrder
<1>12. Snapshots'
    BY <1>1, <1>2, <1>6 DEF Snapshots
<1>13. SnapsBehind'
    BY <1>1, <1>2, <1>5 DEF IInv, SnapsBehind
<1>14. Lasting \subseteq Lasting'
    BY <1>1, <1>6 DEF Lasting
<1>15. in' # in => n <= made /\ Safe(n)' /\ (~mode.others => n <= in[input].cur)
  <2>0. next' = n /\ n <= made
    BY <1>8
  <2> SUFFICES ASSUME in' # in
               PROVE  Safe(n)' /\ n <= in[input].cur
    BY <2>0
  <2>1. snaps = << >> /\ input # 0
    BY <1>1 DEF AckInput
  <2>2. stored' \subseteq Lasting'
    BY <1>1, <1>2, <2>1 DEF Lasting, Snapshots
  <2>3. Given' \subseteq Lasting'
    BY DEF Lasting
  <2>4. \A f \in 0 .. next' - 1 : f \in stored' \cup Given'
    BY <1>8 DEF Covered
  <2>5. 0 .. n - 1 \subseteq Lasting'
    BY <1>8, <2>2, <2>3, <2>4
  <2> QED BY <1>8, <2>1, <2>5 DEF Safe
<1>16. /\ \A c \in Conns : LinkOK(c)' /\ InOK(c)'
       /\ LastAckSent' /\ NoFatalAck' /\ Safe(held)'
    BY <1>1, <1>3, <1>4, <1>14, <1>15, TrackConns
<1>17. IInv'
    BY <1>8, <1>9, <1>10, <1>11, <1>12, <1>13, <1>16 DEF IInv
<1>18. Firsts(k) \subseteq 0 .. made - 1
    BY <1>2, <1>8, IdsBelow
<1> QED BY <1>6, <1>17, <1>18

\* A snapshot is made with the segment, or the frames are acked.
LEMMA SegmentStep ==
    ASSUME IInv, NEW k \in 0 .. MaxFrames, Segment(k)
    PROVE  /\ IInv'
           /\ Firsts(k) \subseteq 0 .. made - 1
           /\ again \/ \A f \in Firsts(k), g \in stored : f > g
<1>1. /\ k \in 0 .. Len(frames) /\ Remove(k) /\ (Fine \/ Fault)
      /\ k = 0 => mode.others
      /\ stored' = stored \cup Firsts(k)
      /\ IF mode.saves
         THEN /\ snaps' = Append(snaps, [conn |-> input, id |-> NextAfter(k),
                                         set |-> stored'])
              /\ in' = in
         ELSE /\ snaps' = snaps
              /\ in' = AckInput(NextAfter(k))
      /\ UNCHANGED <<input, durable, at, mode, dropped, again, made, held,
                     pub, conn, dialed, link, forced>>
    BY DEF Segment, CreateSegment, Receiver, Cut
<1>2. /\ TypeOK /\ Bounds /\ Snapshots /\ made \in Int
      /\ input \in Conns \cup {0}
    BY Elements DEF IInv, TypeOK
<1>3. \A d \in Conns : in'[d].cur = in[d].cur /\ in'[d].skip = in[d].skip
  <2>1. NextAfter(k) \in Ids
    BY <1>1, NextAfterId
  <2>2. in' = in \/ in' = AckInput(NextAfter(k))
    BY <1>1
  <2> QED BY <1>2, <2>1, <2>2, AckInputFields
<1>4. Given' = Given
    BY <1>1 DEF Given
<1>5. stored \cup Given \cup Firsts(k) \subseteq stored' \cup Given'
    BY <1>1, <1>4
<1>6. /\ frames' \in Seq(Ids) /\ next' \in Ids /\ next' = NextAfter(k)
      /\ next <= next' /\ next' <= made
      /\ Firsts(k) \subseteq Ids
      /\ \A f \in Firsts(k) : next <= f /\ f < next' /\ f < made
      /\ input # 0 /\ k # 0 => next' <= in[input].cur
      /\ \A i \in 1 .. Len(frames') : frames'[i] < made
      /\ FrameOrder' /\ Covered'
    BY <1>1, <1>3, <1>5, RemoveStep
<1>7. \A f \in 0 .. next' - 1 : f \in stored' \cup Given
    BY <1>4, <1>6 DEF Covered
<1>8. stored' \subseteq Ids /\ at' \in Ids /\ durable' \subseteq Ids /\ dropped' \subseteq Ids
    BY <1>1, <1>2, <1>6 DEF TypeOK
<1>9. Lasting \subseteq Lasting'
    BY <1>1, <1>4 DEF Lasting
<1>10. ASSUME mode.saves
       PROVE  IInv'
  <2> DEFINE s == [conn |-> input, id |-> next', set |-> stored']
             m == Len(snaps)
  <2>1. in' = in /\ snaps' = Append(snaps, s)
    BY <1>1, <1>6, <1>10
  <2>2. /\ s \in SnapType
        /\ s.conn = input /\ s.id = next' /\ s.set = stored'
    BY <1>2, <1>6, <1>8 DEF SnapType
  <2> HIDE DEF s
  <2>3. /\ snaps' \in Seq(SnapType) /\ m \in Nat /\ Len(snaps') = m + 1
        /\ snaps'[m + 1] = s
        /\ \A i \in 1 .. m : snaps'[i] = snaps[i]
    BY <1>2, <2>1, <2>2, Elements DEF TypeOK
  <2>4. \A i \in 1 .. m + 1 : i \in 1 .. m \/ i = m + 1
    BY <2>3
  <2>5. \A i \in 1 .. m : snaps[i].id \in Int
    BY <1>2, Elements
  <2> HIDE DEF m
  <2>6. TypeOK' /\ Numbers'
    <3>1. \A i \in 1 .. Len(snaps') :
            \/ snaps'[i].conn = input
            \/ \E j \in 1 .. Len(snaps) : snaps'[i].conn = snaps[j].conn
      BY <2>2, <2>3, <2>4 DEF m
    <3> QED BY <1>1, <1>6, <1>8, <2>1, <2>3, <3>1, TrackTypes
  <2>7. Bounds'
    <3>1. \A i \in 1 .. m + 1 : snaps'[i].id <= made
      BY <1>2, <1>6, <2>2, <2>3, <2>4 DEF Bounds, m
    <3> QED BY <1>1, <1>2, <1>6, <2>3, <3>1 DEF Bounds
  <2>8. SegOrder'
    <3>1. ASSUME ~again
          PROVE  /\ \A g \in stored' : g < next'
                 /\ \A g \in durable : g < at
                 /\ at <= next'
                 /\ \A i \in 1 .. m :
                    /\ at <= snaps[i].id /\ snaps[i].id <= next'
                    /\ \A g \in snaps[i].set : g < snaps[i].id
                 /\ \A i, j \in 1 .. m : i < j => snaps[i].id <= snaps[j].id
      <4>1. /\ \A g \in stored : g < next
            /\ \A g \in durable : g < at
            /\ at <= next
            /\ \A i \in 1 .. m :
                /\ at <= snaps[i].id /\ snaps[i].id <= next
                /\ \A g \in snaps[i].set : g < snaps[i].id
            /\ \A i, j \in 1 .. m : i < j => snaps[i].id <= snaps[j].id
        BY <3>1 DEF IInv, SegOrder, m
      <4>2. /\ next \in Int /\ next' \in Int /\ at \in Int
            /\ \A g \in stored : g \in Int
        BY <1>2, <1>6, Elements, IdNumbers DEF TypeOK
      <4>3. at <= next' /\ \A i \in 1 .. m : snaps[i].id <= next'
        BY <1>6, <2>5, <4>1, <4>2
      <4>4. \A g \in stored : g < next'
        BY <1>6, <4>1, <4>2
      <4>5. \A g \in stored' : g < next'
        BY <1>1, <1>6, <4>4
      <4> QED BY <4>1, <4>3, <4>5
    <3>2. ASSUME ~again
          PROVE  /\ \A i \in 1 .. m + 1 :
                    /\ at <= snaps'[i].id /\ snaps'[i].id <= next'
                    /\ \A g \in snaps'[i].set : g < snaps'[i].id
      <4>1. next' <= next'
        BY <1>6, IdNumbers
      <4> QED BY <2>2, <2>3, <2>4, <3>1, <3>2, <4>1
    <3>3. ASSUME ~again, NEW i \in 1 .. m + 1, NEW j \in 1 .. m + 1, i < j
          PROVE  snaps'[i].id <= snaps'[j].id
      <4>1. i \in 1 .. m
        BY <2>3, <3>3
      <4>2. CASE j \in 1 .. m
        BY <2>3, <3>1, <3>3, <4>1, <4>2
      <4>3. CASE j = m + 1
        BY <2>2, <2>3, <3>1, <3>3, <4>1, <4>3
      <4> QED BY <2>4, <4>2, <4>3
    <3> QED BY <1>1, <2>3, <3>1, <3>2, <3>3 DEF SegOrder
  <2>9. Snapshots'
    <3>1. /\ durable \subseteq stored' /\ \A f \in 0 .. at - 1 : f \in durable \cup Given
      BY <1>1, <1>2 DEF Snapshots
    <3>2. \A i \in 1 .. m : /\ snaps[i].set \subseteq stored'
                            /\ \A f \in 0 .. snaps[i].id - 1 : f \in snaps[i].set \cup Given
      BY <1>1, <1>2 DEF Snapshots, m
    <3>3. \A i \in 1 .. m + 1 :
            /\ snaps'[i].set \subseteq stored'
            /\ \A f \in 0 .. snaps'[i].id - 1 : f \in snaps'[i].set \cup Given
      BY <1>7, <2>2, <2>3, <2>4, <3>2
    <3>4. snaps'[m + 1].set = stored' /\ snaps' # << >>
      BY <2>2, <2>3, EmptySeq
    <3> QED BY <1>1, <1>4, <1>10, <2>3, <3>1, <3>3, <3>4 DEF Snapshots
  <2>10. SnapsBehind'
    <3> SUFFICES ASSUME ~mode.others, NEW i \in 1 .. m + 1,
                        snaps'[i].conn = input, input # 0
                 PROVE  snaps'[i].id <= in[input].cur
      BY <1>1, <2>1, <2>3 DEF SnapsBehind
    <3>1. CASE i \in 1 .. m
      BY <2>3, <3>1 DEF IInv, SnapsBehind, m
    <3>2. CASE i = m + 1
      BY <1>1, <1>6, <2>2, <2>3, <3>2
    <3> QED BY <2>4, <3>1, <3>2
  <2>11. /\ \A c \in Conns : LinkOK(c)' /\ InOK(c)'
         /\ LastAckSent' /\ NoFatalAck' /\ Safe(held)'
    BY <1>1, <1>6, <1>9, <2>1, TrackConns
  <2> QED BY <1>6, <2>6, <2>7, <2>8, <2>9, <2>10, <2>11 DEF IInv
<1>11. ASSUME ~mode.saves
       PROVE  IInv'
  <2> PICK n \in Ids : n = next'
    BY <1>6
  <2>1. snaps' = snaps /\ in' = AckInput(n) /\ snaps = << >>
    BY <1>1, <1>2, <1>6, <1>11 DEF Snapshots
  <2>2. \A i : i \notin 1 .. Len(snaps)
    BY <2>1, NoFrames
  <2>3. TypeOK' /\ Numbers'
    <3>1. snaps' \in Seq(SnapType)
      BY <1>2, <2>1 DEF TypeOK
    <3> QED BY <1>1, <1>6, <1>8, <2>1, <2>2, <3>1, TrackTypes
  <2>4. Bounds'
    BY <1>1, <1>2, <1>6, <2>1 DEF Bounds
  <2>5. SegOrder'
    BY <1>1, <1>6, <2>1, SegmentOrder
  <2>6. Snapshots'
    BY <1>1, <1>2, <1>4, <1>11, <2>1, <2>2 DEF Snapshots
  <2>7. SnapsBehind'
    BY <2>1, <2>2 DEF SnapsBehind
  <2>8. in' # in => /\ n <= made /\ Safe(n)'
                    /\ ~mode.others => n <= in[input].cur
    <3>1. 0 .. n - 1 \subseteq Lasting'
      BY <1>1, <1>4, <1>7, <1>11 DEF Lasting
    <3>2. in' # in => input # 0
      BY <2>1 DEF AckInput
    <3>3. ~mode.others /\ input # 0 => n <= in[input].cur
      BY <1>1, <1>6
    <3> QED BY <1>6, <3>1, <3>2, <3>3 DEF Safe
  <2>9. /\ \A c \in Conns : LinkOK(c)' /\ InOK(c)'
        /\ LastAckSent' /\ NoFatalAck' /\ Safe(held)'
    BY <1>1, <1>6, <1>9, <2>1, <2>8, TrackConns
  <2> QED BY <1>6, <2>3, <2>4, <2>5, <2>6, <2>7, <2>9 DEF IInv
<1>12. Firsts(k) \subseteq 0 .. made - 1
    BY <1>2, <1>6, IdsBelow
<1>13. again \/ \A f \in Firsts(k), g \in stored : f > g
  <2>1. /\ \A f \in Firsts(k) : f \in Int /\ next <= f
        /\ \A g \in stored : g \in Int
        /\ next \in Int
    BY <1>2, <1>6, Elements, IdNumbers DEF TypeOK
  <2>2. again \/ \A g \in stored : g < next
    BY DEF IInv, SegOrder
  <2> QED BY <2>1, <2>2
<1> QED BY <1>10, <1>11, <1>12, <1>13

\* The oldest snapshot is gone, saved or replaced.
LEMMA TailOfSnaps ==
    ASSUME TypeOK, snaps # << >>, snaps' = Tail(snaps)
    PROVE  /\ Len(snaps) \in Nat /\ Len(snaps) # 0
           /\ snaps' \in Seq(SnapType) /\ Len(snaps') = Len(snaps) - 1
           /\ \A i \in 1 .. Len(snaps') :
                i + 1 \in 1 .. Len(snaps) /\ snaps'[i] = snaps[i + 1]
           /\ Head(snaps) = snaps[1] /\ 1 \in 1 .. Len(snaps)
           /\ snaps' # << >> => /\ Len(snaps') \in 1 .. Len(snaps')
                                /\ snaps'[Len(snaps')] = snaps[Len(snaps)]
           /\ snaps' = << >> => Len(snaps) = 1
<1>1. snaps \in Seq(SnapType)
    BY DEF TypeOK
<1>2. Len(snaps) \in Nat /\ Len(snaps) # 0
    BY <1>1, EmptySeq, LenProperties
<1>3. /\ snaps' \in Seq(SnapType) /\ Len(snaps') = Len(snaps) - 1
      /\ \A i \in 1 .. Len(snaps') : snaps'[i] = snaps[i + 1]
      /\ Head(snaps) = snaps[1]
    BY <1>1, HeadTailProperties
<1>4. snaps' # << >> => Len(snaps') # 0
    BY <1>3, EmptySeq
<1>5. snaps' = << >> => Len(snaps') = 0
    BY EmptySeq
<1> QED BY <1>2, <1>3, <1>4, <1>5

LEMMA TailOrder ==
    ASSUME IInv, snaps # << >>, snaps' = Tail(snaps), ~again,
           UNCHANGED <<again, next, stored>>,
           at' \in {at, snaps[1].id}
    PROVE  /\ \A i \in 1 .. Len(snaps') :
                /\ at' <= snaps'[i].id /\ snaps'[i].id <= next
                /\ \A g \in snaps'[i].set : g < snaps'[i].id
           /\ \A i, j \in 1 .. Len(snaps') : i < j => snaps'[i].id <= snaps'[j].id
<1>1. /\ Len(snaps) \in Nat
      /\ \A i \in 1 .. Len(snaps') :
            i + 1 \in 1 .. Len(snaps) /\ snaps'[i] = snaps[i + 1]
      /\ 1 \in 1 .. Len(snaps)
    BY TailOfSnaps DEF IInv
<1>2. /\ \A i \in 1 .. Len(snaps) :
            /\ at <= snaps[i].id /\ snaps[i].id <= next
            /\ \A g \in snaps[i].set : g < snaps[i].id
      /\ \A i, j \in 1 .. Len(snaps) : i < j => snaps[i].id <= snaps[j].id
    BY DEF IInv, SegOrder
<1>3. ASSUME NEW i \in 1 .. Len(snaps')
      PROVE  at' <= snaps'[i].id
  <2>1. i + 1 \in 1 .. Len(snaps) /\ 1 < i + 1 /\ snaps'[i] = snaps[i + 1]
    BY <1>1
  <2>2. at <= snaps[i + 1].id /\ snaps[1].id <= snaps[i + 1].id
    BY <1>1, <1>2, <2>1
  <2> QED BY <2>1, <2>2
<1>4. ASSUME NEW i \in 1 .. Len(snaps'), NEW j \in 1 .. Len(snaps'), i < j
      PROVE  snaps'[i].id <= snaps'[j].id
  <2>1. i + 1 < j + 1
    BY <1>4
  <2> QED BY <1>1, <1>2, <2>1
<1> QED BY <1>1, <1>2, <1>3, <1>4

\* What is saved is acked on the connection the snapshot was made for.
LEMMA SaveStep ==
    ASSUME IInv, \E told \in BOOLEAN : Save(told)
    PROVE  IInv'
<1> DEFINE s == Head(snaps)
<1>1. /\ snaps # << >> /\ snaps' = Tail(snaps) /\ Fine
      /\ durable' = durable \cup s.set
      /\ at' = s.id
      /\ in' = in \/ (s.conn = input /\ in' = AckInput(s.id))
      /\ UNCHANGED <<input, next, frames, mode, stored, dropped, again, made,
                     held, pub, conn, dialed, link, forced>>
    BY DEF Save, CloseSnap, Receiver
<1>2. /\ TypeOK /\ Bounds /\ Snapshots /\ made \in Int
      /\ input \in Conns \cup {0}
    BY Elements DEF IInv, TypeOK
<1>3. /\ Len(snaps) \in Nat
      /\ snaps' \in Seq(SnapType) /\ Len(snaps') = Len(snaps) - 1
      /\ \A i \in 1 .. Len(snaps') :
            i + 1 \in 1 .. Len(snaps) /\ snaps'[i] = snaps[i + 1]
      /\ s = snaps[1] /\ 1 \in 1 .. Len(snaps)
      /\ snaps' # << >> => snaps'[Len(snaps')] = snaps[Len(snaps)]
      /\ snaps' = << >> => Len(snaps) = 1
    BY <1>1, <1>2, TailOfSnaps
<1>4. /\ s \in SnapType /\ s.set \subseteq stored /\ s.set \subseteq Ids
      /\ s.id \in Int /\ s.id <= made
      /\ \A f \in 0 .. s.id - 1 : f \in s.set \cup Given
    BY <1>2, <1>3, Elements DEF SnapType, Bounds, Snapshots
<1> HIDE DEF s
<1>5. PICK n \in Ids : n = s.id
    BY <1>4 DEF SnapType
<1>6. in' = in \/ (s.conn = input /\ in' = AckInput(n))
    BY <1>1, <1>5
<1>7. \A d \in Conns : in'[d].cur = in[d].cur /\ in'[d].skip = in[d].skip
    BY <1>2, <1>5, <1>6, AckInputFields
<1>8. Given' = Given
    BY <1>1 DEF Given
<1>9. Lasting \subseteq Lasting'
    BY <1>1, <1>8 DEF Lasting
<1>10. TypeOK' /\ Numbers'
  <2>1. /\ durable' \subseteq Ids /\ at' \in Ids /\ next' \in Ids
        /\ frames' \in Seq(Ids) /\ stored' \subseteq Ids /\ dropped' \subseteq Ids
    BY <1>1, <1>2, <1>4, <1>5 DEF TypeOK
  <2>2. \A i \in 1 .. Len(snaps') :
            \E j \in 1 .. Len(snaps) : snaps'[i].conn = snaps[j].conn
    BY <1>3
  <2> QED BY <1>1, <1>3, <1>6, <2>1, <2>2, TrackTypes
<1>11. Bounds'
    BY <1>1, <1>2, <1>3, <1>4 DEF Bounds
<1>12. FrameOrder'
    BY <1>1, <1>2, <1>7 DEF IInv, FrameOrder
<1>13. SegOrder'
  <2> SUFFICES ASSUME ~again
               PROVE  SegOrder'
    BY <1>1 DEF SegOrder
  <2>1. /\ \A g \in stored : g < next /\ g \in Int
        /\ \A g \in durable : g < at
        /\ at <= s.id /\ s.id <= next /\ \A g \in s.set : g < s.id
        /\ at \in Int /\ next \in Int
    BY <1>2, <1>3, Elements, IdNumbers DEF IInv, SegOrder, TypeOK
  <2>2. \A g \in durable : g \in stored
    BY <1>2 DEF Snapshots
  <2>3. \A g \in durable' : g < s.id
    BY <1>1, <1>4, <2>1, <2>2
  <2>4. /\ \A i \in 1 .. Len(snaps') :
            /\ s.id <= snaps'[i].id /\ snaps'[i].id <= next
            /\ \A g \in snaps'[i].set : g < snaps'[i].id
        /\ \A i, j \in 1 .. Len(snaps') : i < j => snaps'[i].id <= snaps'[j].id
    <3>1. at' \in {at, snaps[1].id}
      BY <1>1, <1>3
    <3> QED BY <1>1, <1>3, <3>1, TailOrder
  <2> QED BY <1>1, <2>1, <2>3, <2>4 DEF SegOrder
<1>14. Covered'
    BY <1>1, <1>2, <1>7, <1>8 DEF IInv, Covered
<1>15. Snapshots'
  <2>1. durable' \subseteq stored /\ \A f \in 0 .. s.id - 1 : f \in durable' \cup Given
    BY <1>1, <1>2, <1>4 DEF Snapshots
  <2>2. \A i \in 1 .. Len(snaps') :
            /\ snaps'[i].set \subseteq stored
            /\ \A f \in 0 .. snaps'[i].id - 1 : f \in snaps'[i].set \cup Given
    BY <1>2, <1>3 DEF Snapshots
  <2>3. mode.saves /\ stored \subseteq durable \cup snaps[Len(snaps)].set
    BY <1>1, <1>2 DEF Snapshots
  <2>4. snaps' = << >> => stored \subseteq durable'
    BY <1>1, <1>3, <2>3
  <2>5. snaps' # << >> => stored \subseteq durable' \cup snaps'[Len(snaps')].set
    BY <1>1, <1>3, <2>3
  <2> QED BY <1>1, <1>8, <2>1, <2>2, <2>3, <2>4, <2>5 DEF Snapshots
<1>16. SnapsBehind'
  <2> SUFFICES ASSUME ~mode.others, NEW i \in 1 .. Len(snaps'),
                      snaps'[i].conn = input, input # 0
               PROVE  snaps'[i].id <= in'[input].cur
    BY <1>1 DEF SnapsBehind
  <2> QED BY <1>2, <1>3, <1>7 DEF IInv, SnapsBehind
<1>17. in' # in => n <= made /\ Safe(n)' /\ (~mode.others => n <= in[input].cur)
  <2>1. 0 .. n - 1 \subseteq Lasting'
    <3>1. mode.saves
      BY <1>1, <1>2 DEF Snapshots
    <3>2. durable' \cup Given \subseteq Lasting'
      BY <1>1, <1>8, <3>1 DEF Lasting
    <3> QED BY <1>1, <1>4, <1>5, <3>2
  <2>2. in' # in => s.conn = input /\ input # 0
    BY <1>6 DEF AckInput
  <2>3. s.conn = input /\ input # 0 /\ ~mode.others => n <= in[input].cur
    BY <1>3, <1>5 DEF IInv, SnapsBehind
  <2> QED BY <1>4, <1>5, <2>1, <2>2, <2>3 DEF Safe
<1>18. /\ \A c \in Conns : LinkOK(c)' /\ InOK(c)'
       /\ LastAckSent' /\ NoFatalAck' /\ Safe(held)'
  <2>1. in' = in \/ in' = AckInput(n)
    BY <1>6
  <2> QED BY <1>1, <1>9, <1>17, <2>1, TrackConns
<1> QED BY <1>10, <1>11, <1>12, <1>13, <1>14, <1>15, <1>16, <1>18 DEF IInv

LEMMA MergeStep ==
    ASSUME IInv, Merge
    PROVE  IInv'
<1>1. /\ Len(snaps) > 1 /\ snaps' = Tail(snaps) /\ Fine
      /\ UNCHANGED <<in, input, next, frames, durable, at, mode, stored, dropped,
                     again, made, held, pub, conn, dialed, link, forced>>
    BY DEF Merge, MergeSnap, Receiver
<1>2. TypeOK /\ Bounds /\ Snapshots
    BY DEF IInv
<1>3. snaps # << >>
    BY <1>1, EmptySeq
<1>4. /\ Len(snaps) \in Nat
      /\ snaps' \in Seq(SnapType) /\ Len(snaps') = Len(snaps) - 1
      /\ \A i \in 1 .. Len(snaps') :
            i + 1 \in 1 .. Len(snaps) /\ snaps'[i] = snaps[i + 1]
      /\ snaps' # << >> => snaps'[Len(snaps')] = snaps[Len(snaps)]
      /\ snaps' # << >>
    BY <1>1, <1>2, <1>3, TailOfSnaps
<1>5. Given' = Given /\ Lasting' = Lasting
    BY <1>1 DEF Given, Lasting
<1>6. TypeOK' /\ Numbers'
  <2>1. /\ durable' \subseteq Ids /\ at' \in Ids /\ next' \in Ids
        /\ frames' \in Seq(Ids) /\ stored' \subseteq Ids /\ dropped' \subseteq Ids
        /\ 0 \in Ids
    BY <1>1, <1>2, RecordTypes DEF TypeOK
  <2>2. \A i \in 1 .. Len(snaps') :
            \E j \in 1 .. Len(snaps) : snaps'[i].conn = snaps[j].conn
    BY <1>4
  <2> QED BY <1>1, <1>4, <2>1, <2>2, TrackTypes
<1>7. Bounds'
    BY <1>1, <1>2, <1>4 DEF Bounds
<1>8. FrameOrder' /\ Covered'
    BY <1>1, <1>5 DEF IInv, FrameOrder, Covered
<1>9. SegOrder'
  <2> SUFFICES ASSUME ~again
               PROVE  SegOrder'
    BY <1>1 DEF SegOrder
  <2>1. /\ \A i \in 1 .. Len(snaps') :
            /\ at' <= snaps'[i].id /\ snaps'[i].id <= next
            /\ \A g \in snaps'[i].set : g < snaps'[i].id
        /\ \A i, j \in 1 .. Len(snaps') : i < j => snaps'[i].id <= snaps'[j].id
    BY <1>1, <1>3, TailOrder
  <2>2. /\ \A g \in stored : g < next
        /\ \A g \in durable : g < at
        /\ at <= next
    BY DEF IInv, SegOrder
  <2> QED BY <1>1, <2>1, <2>2 DEF SegOrder
<1>10. Snapshots'
    BY <1>1, <1>2, <1>4, <1>5 DEF Snapshots
<1>11. SnapsBehind'
    BY <1>1, <1>4 DEF IInv, SnapsBehind
<1>12. /\ \A c \in Conns : LinkOK(c)' /\ InOK(c)'
       /\ LastAckSent' /\ NoFatalAck' /\ Safe(held)'
    BY <1>1, <1>5, RecordTypes, TrackConns
<1> QED BY <1>6, <1>7, <1>8, <1>9, <1>10, <1>11, <1>12 DEF IInv

\* What is read back is what was saved, and every ack was of that.
LEMMA RestartStep ==
    ASSUME IInv, Restart
    PROVE  IInv'
<1>1. /\ mode.saves /\ Fault
      /\ in' = [c \in Conns |-> IF in[c].st \in {"new", "open"}
                                THEN ClosedIn ELSE in[c]]
      /\ input' = 0 /\ frames' = << >> /\ snaps' = << >>
      /\ next' = at /\ stored' = durable
      /\ pub' = Lost
      /\ link' = [c \in Conns |-> IF c = conn THEN link[c] ELSE NewLink]
      /\ UNCHANGED <<durable, at, mode, dropped, again, made, held, conn, dialed,
                     forced>>
    BY DEF Restart, Crash
<1>2. TypeOK /\ Bounds /\ Numbers /\ Snapshots
    BY DEF IInv
<1>3. /\ \A i : i \notin 1 .. Len(<< >>)
      /\ << >> \in Seq(Ids) /\ << >> \in Seq(SnapType)
    BY NoFrames, EmptySeq
<1>4. Given' = Given /\ Lasting' = Lasting
    BY <1>1 DEF Given, Lasting
<1>5. \A c \in Conns :
        /\ in'[c] \in InType
        /\ in'[c].st \notin {"new", "open"}
        /\ in'[c].st = "none" <=> in[c].st = "none"
        /\ in'[c].acked \in {0, in[c].acked} /\ in'[c].packet \in {0, in[c].packet}
  <2> SUFFICES ASSUME NEW c \in Conns
               PROVE  /\ in'[c] \in InType
                      /\ in'[c].st \notin {"new", "open"}
                      /\ in'[c].st = "none" <=> in[c].st = "none"
                      /\ in'[c].acked \in {0, in[c].acked}
                      /\ in'[c].packet \in {0, in[c].packet}
    OBVIOUS
  <2>1. in[c] \in InType
    BY <1>2 DEF TypeOK
  <2>2. /\ ClosedIn \in InType /\ ClosedIn.st = "closed"
        /\ ClosedIn.acked = 0 /\ ClosedIn.packet = 0
    BY RecordTypes DEF ClosedIn, NewIn
  <2> QED BY <1>1, <2>1, <2>2
<1>6. \A c \in Conns : link'[c] = NewLink \/ link'[c] = link[c]
    BY <1>1
<1>7. TypeOK'
  <2>1. in' \in [Conns -> InType] /\ link' \in [Conns -> LinkType]
    BY <1>1, <1>2, <1>5, <1>6, RecordTypes DEF TypeOK
  <2>2. pub' \in {"live", "ending", "ended", "cut", "fatal"}
    BY <1>1, <1>2 DEF Lost, TypeOK
  <2>3. faults' \in 0 .. MaxFaults
    BY <1>1, <1>2, Faults
  <2>4. \A c \in Conns : c # 0
    BY DEF Conns
  <2> QED BY <1>1, <1>2, <1>3, <1>5, <2>1, <2>2, <2>3, <2>4 DEF TypeOK
<1>8. Numbers'
    BY <1>1, <1>2, <1>3, <1>5 DEF Numbers
<1>9. Bounds'
    BY <1>1, <1>2, <1>3 DEF Bounds
<1>10. FrameOrder' /\ SnapsBehind'
    BY <1>1, <1>3 DEF FrameOrder, SnapsBehind
<1>11. SegOrder'
  <2>1. at <= at
    BY <1>2, Elements
  <2> QED BY <1>1, <1>3, <2>1 DEF IInv, SegOrder
<1>12. Covered'
    BY <1>1, <1>2, <1>3, <1>4 DEF Covered, Snapshots
<1>13. Snapshots'
    BY <1>1, <1>2, <1>3, <1>4 DEF Snapshots
<1>14. ASSUME NEW c \in Conns
       PROVE  LinkOK(c)' /\ InOK(c)' /\ AckSent(c)'
  <2>1. LinkOK(c) /\ InOK(c)
    BY DEF IInv
  <2>2. 0 <= made
    BY <1>2 DEF TypeOK, Ids
  <2>3. LinkOK(c)'
    <3>1. CASE link'[c] = link[c]
      BY <1>1, <1>4, <2>1, <3>1 DEF LinkOK, Safe
    <3>2. CASE link'[c] = NewLink
      BY <1>1, <2>2, <3>2, NoAcks DEF NewLink
    <3> QED BY <1>6, <3>1, <3>2
  <2>4. InOK(c)'
    BY <1>1, <1>5, <2>1, <2>2 DEF InOK
  <2>5. AckSent(c)'
    BY <1>5 DEF AckSent
  <2> QED BY <2>3, <2>4, <2>5
<1>15. LastAckSent'
    BY <1>14 DEF LastAckSent, AckSent
<1>16. NoFatalAck' /\ Safe(held)'
    BY <1>1, <1>4 DEF IInv, NoFatalAck, Lost, Safe
<1> QED BY <1>7, <1>8, <1>9, <1>10, <1>11, <1>12, <1>13, <1>14, <1>15, <1>16
        DEF IInv

-----------------------------------------------------------------------------
(* The theorems *)

LEMMA InitInv == Init => IInv
<1> SUFFICES ASSUME Init PROVE IInv
    OBVIOUS
<1>1. /\ in = [c \in Conns |-> NewIn]
      /\ input = 0 /\ next = 0 /\ frames = << >>
      /\ snaps = << >> /\ durable = {} /\ at = 0
      /\ mode \in [saves : BOOLEAN, others : BOOLEAN]
      /\ stored = {} /\ dropped = {} /\ again = FALSE
      /\ made = 0 /\ held = 0 /\ pub = "live"
      /\ conn = 0 /\ dialed = 0
      /\ link = [c \in Conns |-> NewLink]
      /\ forced = {} /\ faults = 0
    BY DEF Init, InitIn
<1>2. /\ \A i : i \notin 1 .. Len(<< >>)
      /\ << >> \in Seq(Ids) /\ << >> \in Seq(SnapType)
    BY NoFrames, EmptySeq
<1>3. \A f : f \notin 0 .. 0 - 1
    OBVIOUS
<1>4. /\ \A c \in Conns : in[c] = NewIn /\ link[c] = NewLink
      /\ NewIn.st = "none" /\ NewIn.acked = 0 /\ NewIn.packet = 0
      /\ NewLink.init = 0 /\ NewLink.sent = 0 /\ NewLink.acks = << >>
    BY <1>1 DEF NewIn, NewLink
<1>5. TypeOK
  <2>1. in \in [Conns -> InType] /\ link \in [Conns -> LinkType]
    BY <1>1, RecordTypes
  <2>2. 0 \in Ids /\ 0 \in 0 .. MaxFaults /\ 0 \in 0 .. MaxConns /\ 0 \in 0 .. 0
    BY DeliveryAssumption, KmpInAssumption, RecordTypes
  <2>3. \A c \in Conns : c # 0
    BY DEF Conns
  <2> QED BY <1>1, <1>2, <1>4, <2>1, <2>2, <2>3 DEF TypeOK
<1>6. Bounds /\ FrameOrder /\ SnapsBehind
    BY <1>1, <1>2 DEF Bounds, FrameOrder, SnapsBehind
<1>7. Numbers
    BY <1>1, <1>2, <1>4 DEF Numbers, Conns
<1>8. SegOrder
    BY <1>1, <1>2 DEF SegOrder
<1>9. Covered /\ Snapshots
    BY <1>1, <1>2, <1>3 DEF Covered, Snapshots
<1>10. Safe(0)
    BY <1>3 DEF Safe
<1>11. ASSUME NEW c \in Conns
       PROVE  LinkOK(c) /\ InOK(c) /\ AckSent(c)
    BY <1>1, <1>2, <1>4 DEF LinkOK, InOK, AckSent
<1>12. LastAckSent /\ NoFatalAck
    BY <1>1, <1>11, AckSentOfAll DEF NoFatalAck
<1> QED BY <1>1, <1>5, <1>6, <1>7, <1>8, <1>9, <1>10, <1>11, <1>12 DEF IInv

LEMMA HeaderStep ==
    ASSUME IInv, NEW c \in Conns, ReadHeader(c)
    PROVE  IInv'
<1>1. CASE Fine /\ RefuseHeader(c) /\ link' = Closing(c)
           /\ UNCHANGED <<made, held, pub, conn, dialed, forced>>
    BY <1>1, RefuseStep
<1>2. CASE Fine /\ StartStream(c, link[c].init)
           /\ pub' = (IF frames = << >> THEN pub ELSE Lost)
           /\ UNCHANGED <<made, held, conn, dialed, link, forced>>
    BY <1>2, StartStreamStep
<1> QED BY <1>1, <1>2 DEF ReadHeader

LEMMA ReadStep ==
    ASSUME IInv, NEW c \in Conns, Read(c)
    PROVE  IInv'
<1>1. CASE ReadInfo(c, link[c].init)
    BY <1>1, ReadInfoStep
<1>2. CASE SkipFrame(c, link[c].init, link[c].sent)
    BY <1>2, SkipFrameStep
<1>3. CASE RefuseFrame(c, link[c].init, link[c].sent)
    BY <1>3, RefuseFrameStep
<1>4. CASE AddFrame(c, link[c].init, link[c].sent)
    BY <1>4, AddFrameStep
<1> QED BY <1>1, <1>2, <1>3, <1>4 DEF Read, Receiver

LEMMA VarsKept ==
    ASSUME UNCHANGED vars
    PROVE  /\ IInv => IInv'
           /\ link' = link /\ UNCHANGED <<made, held, stored, again>>
           /\ Given' = Given
<1>1. UNCHANGED <<in, input, next, frames, snaps, durable, at, mode, stored,
                  dropped, again>>
    BY DEF vars
<1>2. UNCHANGED <<made, held, pub, conn, dialed, link, forced, faults>>
    BY DEF vars
<1>3. TypeOK => TypeOK'
    BY <1>1, <1>2 DEF TypeOK
<1>4. Bounds /\ Numbers => Bounds' /\ Numbers'
    BY <1>1, <1>2 DEF Bounds, Numbers
<1>5. FrameOrder /\ SegOrder => FrameOrder' /\ SegOrder'
    BY <1>1, <1>2 DEF FrameOrder, SegOrder
<1>6. Given' = Given /\ Lasting' = Lasting
    BY <1>1, <1>2 DEF Given, Lasting
<1>7. Covered /\ Snapshots => Covered' /\ Snapshots'
    BY <1>1, <1>2, <1>6 DEF Covered, Snapshots
<1>8. SnapsBehind /\ Safe(held) => SnapsBehind' /\ Safe(held)'
    BY <1>1, <1>2, <1>6 DEF SnapsBehind, Safe
<1>9. ASSUME NEW c \in Conns
      PROVE  LinkOK(c) /\ InOK(c) => LinkOK(c)' /\ InOK(c)'
    BY <1>1, <1>2, <1>6 DEF LinkOK, InOK, Safe
<1>10. LastAckSent /\ NoFatalAck => LastAckSent' /\ NoFatalAck'
    BY <1>1, <1>2 DEF LastAckSent, NoFatalAck
<1> QED BY <1>1, <1>2, <1>3, <1>4, <1>5, <1>6, <1>7, <1>8, <1>9, <1>10 DEF IInv

LEMMA NextInv == IInv /\ [Next]_vars => IInv'
<1> SUFFICES ASSUME IInv, [Next]_vars
             PROVE  IInv'
    OBVIOUS
<1>1. CASE PubNext
    BY <1>1, PublishStep, DialStep, SendStep, SendEndStep, ReadAckStep,
       ForceAckStep, BreakStep, ClosedStep DEF PubNext
<1>2. ASSUME NEW c \in Conns,
             ReadHeader(c) \/ Read(c) \/ ReadEnd(c) \/ Gone(c) \/ WriteAck(c)
      PROVE  IInv'
    BY <1>2, HeaderStep, ReadStep, EndStep, WriteAckStep
<1>3. ASSUME NEW k \in 0 .. MaxFrames, Segment(k) \/ Discard(k)
      PROVE  IInv'
    BY <1>3, SegmentStep, DiscardStep
<1>4. CASE \E told \in BOOLEAN : Save(told)
    BY <1>4, SaveStep
<1>5. CASE Drop \/ Merge \/ Restart
    BY <1>5, DropStep, MergeStep, RestartStep
<1>6. CASE UNCHANGED vars
    BY <1>6, VarsKept
<1> QED BY <1>1, <1>2, <1>3, <1>4, <1>5, <1>6 DEF Next, InNext

\* The strengthened invariant.
THEOREM DeliveryInvariance == Spec => []IInv
<1> QED BY InitInv, NextInv, PTL DEF Spec

\* The shape of the state: the track is fed by the one connection that is
\* open (ngx_stream_live_kmp_connected).
THEOREM DeliveryType == Spec => []TypeOK
<1>1. IInv => TypeOK
    BY DEF IInv
<1> QED BY <1>1, DeliveryInvariance, PTL

\* The ack that was asked for last is not lost while another is written
\* (ngx_kmp_in_ack_frames, ngx_kmp_in_write_handler).
THEOREM NoAckLost == Spec => []LastAckSent
<1>1. IInv => LastAckSent
    BY DEF IInv
<1> QED BY <1>1, DeliveryInvariance, PTL

\* A publisher of the only track is never told of frames it did not send
\* (ngx_live_persist_snap_frames_close, ngx_kmp_out_upstream_ack_frames).
THEOREM NoAckAhead == Spec => []NoFatalAck
<1>1. IInv => NoFatalAck
    BY DEF IInv
<1> QED BY <1>1, DeliveryInvariance, PTL

\* Only the receiver writes acks.
LEMMA NoAckWritten ==
    ASSUME TypeOK, Next, NEW d \in Conns, \A c \in Conns : ~WriteAck(c)
    PROVE  Len(link'[d].acks) <= Len(link[d].acks)
<1>1. /\ link \in [Conns -> LinkType] /\ link[d] \in LinkType
      /\ link[d].acks \in Seq(Ids) /\ Len(link[d].acks) \in Nat
    BY Fields DEF TypeOK
<1>2. NewLink.acks = << >> /\ Len(<< >>) = 0
    BY EmptySeq DEF NewLink
<1>3. ASSUME link'[d].acks \in {link[d].acks, << >>}
      PROVE  Len(link'[d].acks) <= Len(link[d].acks)
    BY <1>1, <1>2, <1>3
<1>4. CASE link' = link
    BY <1>3, <1>4
<1>5. CASE Dial
  <2> DEFINE l == [NewLink EXCEPT !.init = held, !.sent = held, !.told = held]
  <2>1. link' = [link EXCEPT ![dialed + 1] = l]
    BY <1>5 DEF Dial
  <2>2. l.acks = << >>
    BY DEF NewLink
  <2> HIDE DEF l
  <2>3. link'[d] \in {link[d], l}
    BY <1>1, <2>1
  <2> QED BY <1>3, <2>2, <2>3
<1>6. CASE Send \/ SendEnd
  <2>1. CASE Send
    <3>1. link' = [link EXCEPT ![conn] = [link[conn] EXCEPT !.sent = @ + 1]]
      BY <2>1 DEF Send
    <3>2. link'[d].acks = link[d].acks
      BY <1>1, <3>1 DEF LinkType
    <3> QED BY <1>3, <3>2
  <2>2. CASE SendEnd
    <3>1. link' = [link EXCEPT ![conn] = [link[conn] EXCEPT !.eos = TRUE]]
      BY <2>2 DEF SendEnd
    <3>2. link'[d].acks = link[d].acks
      BY <1>1, <3>1 DEF LinkType
    <3> QED BY <1>3, <3>2
  <2> QED BY <1>6, <2>1, <2>2
<1>7. CASE ReadAck
  <2>1. /\ link' = [link EXCEPT ![conn] = [link[conn] EXCEPT !.acks = Tail(@)]]
        /\ link[conn].acks # << >>
    BY <1>7 DEF ReadAck
  <2>2. CASE d = conn
    <3>1. link'[d].acks = Tail(link[d].acks)
      BY <1>1, <2>1, <2>2 DEF LinkType
    <3>2. Len(Tail(link[d].acks)) = Len(link[d].acks) - 1
      BY <1>1, <2>1, <2>2, HeadTailProperties
    <3> QED BY <1>1, <3>1, <3>2
  <2>3. CASE d # conn
    <3>1. link'[d].acks = link[d].acks
      BY <1>1, <2>1, <2>3
    <3> QED BY <1>3, <3>1
  <2> QED BY <2>2, <2>3
<1>8. CASE Break
  <2>1. link' = [link EXCEPT ![conn] = [link[conn] EXCEPT !.acks = << >>]]
    BY <1>8 DEF Break
  <2>2. link'[d].acks \in {link[d].acks, << >>}
    BY <1>1, <2>1 DEF LinkType
  <2> QED BY <1>3, <2>2
<1>9. CASE Closed
  <2>1. link' = [link EXCEPT ![conn] = NewLink]
    BY <1>9 DEF Closed
  <2>2. link'[d] \in {link[d], NewLink}
    BY <1>1, <2>1
  <2> QED BY <1>2, <1>3, <2>2
<1>10. ASSUME NEW c \in Conns, link' = Closing(c)
       PROVE  Len(link'[d].acks) <= Len(link[d].acks)
  <2>1. link'[d] \in {link[d], NewLink}
    BY <1>1, <1>10 DEF Closing
  <2> QED BY <1>2, <1>3, <2>1
<1>11. CASE Restart
  <2>1. link'[d] \in {link[d], NewLink}
    BY <1>11 DEF Restart
  <2> QED BY <1>2, <1>3, <2>1
<1>12. CASE PubNext
  <2>1. Publish => link' = link
    BY DEF Publish
  <2>2. ForceAck => link' = link
    BY DEF ForceAck
  <2> QED BY <1>4, <1>5, <1>6, <1>7, <1>8, <1>9, <1>12, <2>1, <2>2 DEF PubNext
<1>13. CASE InNext
  <2>1. ASSUME NEW c \in Conns, ReadHeader(c) \/ Read(c) \/ ReadEnd(c) \/ Gone(c)
        PROVE  link' = link \/ link' = Closing(c)
    BY <2>1 DEF ReadHeader, Read, ReadEnd, Gone, Receiver
  <2>2. ASSUME NEW k, Segment(k) \/ Discard(k)
        PROVE  link' = link
    BY <2>2 DEF Segment, Discard, Receiver
  <2>3. Drop \/ Merge \/ (\E told \in BOOLEAN : Save(told)) => link' = link
    BY DEF Drop, Merge, Save, Receiver
  <2> QED BY <1>4, <1>10, <1>11, <1>13, <2>1, <2>2, <2>3 DEF InNext
<1> QED BY <1>12, <1>13 DEF Next

\* An ack that is written is more than the one before it on the connection
\* (ngx_kmp_in_write_handler).
THEOREM AcksGoForward == Spec => AcksForward
<1>1. IInv /\ [Next]_vars =>
        [\A c \in Conns : TellsMore(c) => link'[c].told > link[c].told]_vars
  <2> SUFFICES ASSUME IInv, Next, NEW d \in Conns,
                      Len(link'[d].acks) > Len(link[d].acks)
               PROVE  link'[d].told > link[d].told
    BY DEF TellsMore
  <2>1. TypeOK /\ TypeOK'
    BY NextInv DEF IInv
  <2>2. /\ Len(link[d].acks) \in Int /\ Len(link'[d].acks) \in Int
        /\ link[d].told \in Int /\ link'[d].told \in Int
    <3>1. Len(link[d].acks) \in Int /\ link[d].told \in Int
      BY <2>1, Fields
    <3>2. link'[d].acks \in Seq(Ids) /\ link'[d].told \in Ids
      BY <2>1 DEF TypeOK, LinkType
    <3>3. Len(link'[d].acks) \in Nat
      BY <3>2, LenProperties
    <3>4. link'[d].told \in Int
      BY <3>2, IdNumbers
    <3> QED BY <3>1, <3>3, <3>4
  <2>3. PICK c \in Conns : WriteAck(c)
    BY <2>1, <2>2, NoAckWritten
  <2>4. /\ link[c].told < link'[c].told
        /\ \A e \in Conns : e # c => link'[e] = link[e]
    BY <2>3, WriteAckStep
  <2>5. c = d
    BY <2>2, <2>4
  <2> QED BY <2>2, <2>4, <2>5
<1> QED BY <1>1, DeliveryInvariance, PTL DEF Spec, AcksForward

-----------------------------------------------------------------------------
(* The refinement *)

\* A frame is given up.
LEMMA FrameGiven ==
    ASSUME IInv, NEW c \in Conns, FrameDue(c, link[c].init, link[c].sent),
           UNCHANGED <<made, held, stored, again, forced>>,
           dropped' \in {dropped, dropped \cup {in[c].cur}}
    PROVE  Abstract!Next \/ UNCHANGED Abstract!vars
<1>1. CASE dropped' = dropped
    BY <1>1 DEF Abstract!vars
<1>2. CASE dropped' = dropped \cup {in[c].cur}
  <2>1. TypeOK /\ LinkOK(c)
    BY DEF IInv
  <2>2. /\ in[c].cur \in Ids /\ in[c].cur < link[c].sent
        /\ link[c].sent <= made
        /\ link[c].sent \in Int /\ made \in Int
    BY <2>1, Fields, Elements DEF InType, FrameDue, LinkOK
  <2>3. in[c].cur \in 0 .. made - 1
    <3>1. in[c].cur \in Nat
      BY <2>2, IdNumbers
    <3> QED BY <2>2, <3>1
  <2>4. {in[c].cur} \in SUBSET (0 .. made - 1)
    BY <2>3
  <2>5. (dropped \cup forced)' = (dropped \cup forced) \cup {in[c].cur}
    BY <1>2
  <2>6. Abstract!GiveUp
    BY <2>4, <2>5 DEF Abstract!GiveUp
  <2> QED BY <2>6 DEF Abstract!Next
<1> QED BY <1>1, <1>2

LEMMA DeliveredInit == Init => Abstract!Init
    BY DEF Init, InitIn, Abstract!Init

LEMMA DeliveredNext ==
    IInv /\ [Next]_vars => [Abstract!Next]_Abstract!vars
<1> SUFFICES ASSUME IInv, [Next]_vars
             PROVE  Abstract!Next \/ UNCHANGED Abstract!vars
    BY DEF Abstract!vars
<1>1. /\ TypeOK /\ made \in Int /\ held \in Int
      /\ Lasting \subseteq stored \cup (dropped \cup forced)
  <2>1. Lasting \subseteq stored \cup Given
    BY DEF IInv, Snapshots, Lasting
  <2> QED BY <2>1, Elements DEF IInv, Given
<1>2. ASSUME UNCHANGED <<made, held, stored, dropped, forced, again>>
      PROVE  UNCHANGED Abstract!vars
    BY <1>2 DEF Abstract!vars
<1>3. CASE Publish
  <2>1. Abstract!Publish
    BY <1>3 DEF Publish, inVars, Abstract!Publish
  <2> QED BY <2>1 DEF Abstract!Next
<1>4. CASE ReadAck
  <2>1. /\ UNCHANGED <<made, stored, dropped, forced, again>>
        /\ held' \in held .. made /\ Safe(held')
    BY <1>4, ReadAckStep DEF ReadAck, inVars
  <2>2. 0 .. held' - 1 \subseteq stored \cup (dropped \cup forced)
    BY <1>1, <2>1 DEF Safe
  <2>3. Abstract!Forget
    BY <2>1, <2>2 DEF Abstract!Forget
  <2> QED BY <2>3 DEF Abstract!Next
<1>5. CASE ForceAck
  <2>1. /\ UNCHANGED <<made, stored, dropped, again>>
        /\ held < made /\ held' = held + 1 /\ forced' = forced \cup {held}
    BY <1>5, ForceAckStep DEF ForceAck, inVars
  <2>2. (dropped \cup forced)' = (dropped \cup forced) \cup {held}
    BY <2>1
  <2>3. Abstract!ForgetUntold
    BY <2>1, <2>2 DEF Abstract!ForgetUntold
  <2> QED BY <2>3 DEF Abstract!Next
<1>6. CASE Dial \/ Send \/ SendEnd \/ Break \/ Closed
  <2>1. UNCHANGED <<made, held, stored, dropped, forced, again>>
    BY <1>6 DEF Dial, Accept, Send, SendEnd, Break, Closed, inVars
  <2> QED BY <1>2, <2>1
<1>7. ASSUME NEW c \in Conns, ReadHeader(c)
      PROVE  Abstract!Next \/ UNCHANGED Abstract!vars
  <2>1. CASE RefuseHeader(c)
           /\ UNCHANGED <<made, held, pub, conn, dialed, forced>>
    <3>1. UNCHANGED <<made, held, stored, dropped, forced, again>>
      BY <2>1 DEF RefuseHeader
    <3> QED BY <1>2, <3>1
  <2>2. CASE StartStream(c, link[c].init)
           /\ UNCHANGED <<made, held, conn, dialed, link, forced>>
    <3> DEFINE tooFar == next - link[c].init > MaxSkip
    <3>1. /\ UNCHANGED <<made, held, stored, dropped, forced>>
          /\ again' = (again \/ tooFar)
      BY <2>2 DEF StartStream
    <3>2. again \in BOOLEAN
      BY <1>1 DEF TypeOK
    <3> HIDE DEF tooFar
    <3>3. CASE tooFar
      <4>1. again' = TRUE
        BY <3>1, <3>3
      <4>2. Abstract!StartAgain
        BY <3>1, <4>1 DEF Abstract!StartAgain
      <4> QED BY <4>2 DEF Abstract!Next
    <3>4. CASE ~tooFar
      <4>1. again' = again
        BY <3>1, <3>2, <3>4
      <4> QED BY <1>2, <3>1, <4>1
    <3> QED BY <3>3, <3>4
  <2> QED BY <1>7, <2>1, <2>2 DEF ReadHeader
<1>8. ASSUME NEW c \in Conns, Read(c)
      PROVE  Abstract!Next \/ UNCHANGED Abstract!vars
  <2>1. UNCHANGED <<made, held, forced>>
    BY <1>8 DEF Read, Receiver
  <2>2. CASE ReadInfo(c, link[c].init) \/ SkipFrame(c, link[c].init, link[c].sent)
    <3>1. UNCHANGED <<made, held, stored, dropped, forced, again>>
      BY <2>1, <2>2 DEF ReadInfo, SkipFrame
    <3> QED BY <1>2, <3>1
  <2>3. CASE RefuseFrame(c, link[c].init, link[c].sent)
    <3>1. /\ FrameDue(c, link[c].init, link[c].sent)
          /\ dropped' = dropped \cup {in[c].cur}
          /\ UNCHANGED <<stored, again>>
      BY <2>3 DEF RefuseFrame
    <3> QED BY <2>1, <3>1, FrameGiven
  <2>4. CASE AddFrame(c, link[c].init, link[c].sent)
    <3>1. /\ FrameDue(c, link[c].init, link[c].sent)
          /\ dropped' \in {dropped, dropped \cup {in[c].cur}}
          /\ UNCHANGED <<stored, again>>
      BY <2>4 DEF AddFrame
    <3> QED BY <2>1, <3>1, FrameGiven
  <2> QED BY <1>8, <2>2, <2>3, <2>4 DEF Read, Receiver
<1>9. ASSUME NEW c \in Conns, ReadEnd(c) \/ Gone(c) \/ WriteAck(c)
      PROVE  UNCHANGED Abstract!vars
  <2>1. UNCHANGED <<made, held, stored, dropped, forced, again>>
    BY <1>9 DEF ReadEnd, Gone, Close, WriteAck
  <2> QED BY <1>2, <2>1
<1>10. ASSUME NEW k \in 0 .. MaxFrames, Segment(k)
       PROVE  Abstract!Next
  <2>1. /\ UNCHANGED <<made, held, dropped, forced, again>>
        /\ stored' = stored \cup Firsts(k)
    BY <1>10 DEF Segment, CreateSegment, Receiver
  <2>2. /\ Firsts(k) \in SUBSET (0 .. made - 1)
        /\ again \/ \A f \in Firsts(k), g \in stored : f > g
    BY <1>10, SegmentStep
  <2>3. Abstract!Take
    BY <2>1, <2>2 DEF Abstract!Take
  <2> QED BY <2>3 DEF Abstract!Next
<1>11. ASSUME NEW k \in 0 .. MaxFrames, Discard(k)
       PROVE  Abstract!Next
  <2>1. UNCHANGED <<made, held, stored, again>>
    BY <1>11 DEF Discard, Dispose, Receiver
  <2>2. Given \subseteq Given' /\ Given' \subseteq Given \cup 0 .. made - 1
    BY <1>11, DiscardStep
  <2> DEFINE F == Given' \ Given
  <2>3. F \in SUBSET (0 .. made - 1) /\ Given' = Given \cup F
    BY <2>2
  <2>4. (dropped \cup forced)' = (dropped \cup forced) \cup F
    BY <2>3 DEF Given
  <2> HIDE DEF F
  <2>5. Abstract!GiveUp
    BY <2>1, <2>3, <2>4 DEF Abstract!GiveUp
  <2> QED BY <2>5 DEF Abstract!Next
<1>12. CASE Drop \/ Merge \/ \E told \in BOOLEAN : Save(told)
  <2>1. UNCHANGED <<made, held, stored, dropped, forced, again>>
    BY <1>12 DEF Drop, Merge, Save, Close, MergeSnap, CloseSnap, Receiver
  <2> QED BY <1>2, <2>1
<1>13. CASE Restart
  <2>1. /\ UNCHANGED <<made, held, dropped, forced, again>>
        /\ stored' = durable /\ mode.saves
    BY <1>13 DEF Restart, Crash
  <2>2. durable \subseteq stored /\ stored \subseteq Ids
    BY <1>1 DEF IInv, Snapshots, TypeOK
  <2>3. ASSUME NEW f \in stored \ stored'
        PROVE  f >= held \/ f \in dropped \cup forced
    <3>1. f \in Int /\ 0 <= f
      BY <2>2, IdNumbers
    <3>2. f \in 0 .. held - 1 => f \in durable \cup Given
      BY <2>1 DEF IInv, Safe, Lasting
    <3> QED BY <1>1, <2>1, <3>1, <3>2 DEF Given
  <2>4. Abstract!Lose
    BY <2>1, <2>2, <2>3 DEF Abstract!Lose
  <2> QED BY <2>4 DEF Abstract!Next
<1>14. CASE UNCHANGED vars
  <2>1. UNCHANGED <<made, held, stored, dropped, forced, again>>
    BY <1>14 DEF vars
  <2> QED BY <1>2, <2>1
<1>15. CASE PubNext
    BY <1>3, <1>4, <1>5, <1>6, <1>15 DEF PubNext
<1>16. CASE InNext
    BY <1>7, <1>8, <1>9, <1>10, <1>11, <1>12, <1>13, <1>16 DEF InNext
<1> QED BY <1>14, <1>15, <1>16 DEF Next

\* The two ends implement FrameDelivery: a frame is taken once and in order,
\* and is forgotten by the publisher only when no crash of the receiver can
\* lose it, or when it was given up (ngx_kmp_in.c, ngx_live_segmenter.c,
\* ngx_kmp_out_upstream.c).
THEOREM ImplementsDelivery == Spec => Delivered
<1> QED BY DeliveredInit, DeliveredNext, DeliveryInvariance, PTL
        DEF Spec, Delivered, Abstract!Spec
=============================================================================
