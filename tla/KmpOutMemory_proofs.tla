------------------------- MODULE KmpOutMemory_proofs -------------------------
(***************************************************************************)
(* Proofs about what happens when the memory of a KMP output track runs    *)
(* out.  Mild says what a call that writes nothing may change, Spared what *)
(* the watermark leaves of the memory of a track with one upstream.        *)
(***************************************************************************)
EXTENDS KmpOut_proofs

\* t is a track, t2 what becomes of it, x an upstream, u its id, s the state of
\* a handler.
HasEos(t) == \E k \in DOMAIN t.pkts : t.pkts[k].type = "eos"

\* The first error of the track is the one that is known, and no error is one
\* of memory.
SameCause(t, t2) ==
    /\ t.cause # "none" => t2.cause = t.cause
    /\ t2.cause = "memory" => t.cause = "memory"

\* A reader that is past an eos packet in x was in s, or there is one.
PastEos(s, x) ==
    \A v \in Upstreams : x.up[v].eos =>
        HasEos(x.track) \/ \E w \in Upstreams : s.up[w].eos

\* A call that writes nothing leaves x.
Mild(s, x) ==
    /\ x \in StateType
    /\ LET t == s.track
           t2 == x.track
       IN  /\ t2.pkts = t.pkts /\ t2.written = t.written
           /\ t2.lastFrame = t.lastFrame /\ t2.tail \in {t.tail, -1}
           /\ t.alerts \subseteq t2.alerts /\ SameCause(t, t2)
    /\ PastEos(s, x)

\* What is known of the memory between two actions: a buffer is not full, ...
Roomy(t) ==
    t.tail # -1 /\ t.cause = "none" => t.written < (t.tail + 1) * BufSize
\* ... the last frame ends a packet, ...
FrameEnds(t) ==
    /\ t.lastFrame <= t.written
    /\ t.alerts = {} => \E k \in 0 .. Len(t.pkts) : t.lastFrame = End(t, k)
\* ... and no reader is past an eos packet that was not written.
EosRead(s) == \A v \in Upstreams : s.up[v].eos => HasEos(s.track)

Fine(s) == Roomy(s.track) /\ FrameEnds(s.track) /\ EosRead(s)

MInv == IInv /\ Fine(Now)

-----------------------------------------------------------------------------
(* Calls that write nothing *)

\* Doing nothing is one of them,
LEMMA MildNothing ==
    ASSUME NEW s \in StateType
    PROVE  Mild(s, s)
BY DEF Mild, SameCause, PastEos

\* ... and so are two.
LEMMA MildTwice ==
    ASSUME NEW s, NEW x, NEW y, Mild(s, x), Mild(x, y)
    PROVE  Mild(s, y)
<1>1. PastEos(s, y)
  <2> SUFFICES ASSUME NEW v \in Upstreams, y.up[v].eos, ~HasEos(y.track)
               PROVE  \E w \in Upstreams : s.up[w].eos
    BY DEF PastEos
  <2>1. PICK w \in Upstreams : x.up[w].eos
    BY DEF Mild, PastEos
  <2>2. ~HasEos(x.track)
    BY DEF Mild, HasEos
  <2> QED
    BY <2>1, <2>2 DEF Mild, PastEos
<1>2. SameCause(s.track, y.track)
  BY DEF Mild, SameCause
<1> QED
  BY <1>1, <1>2 DEF Mild

\* It leaves what is fine.
LEMMA MildFine ==
    ASSUME NEW s \in StateType, NEW x, Mild(s, x), Fine(s)
    PROVE  Fine(x)
<1>1. EosRead(x)
  BY DEF Fine, EosRead, Mild, PastEos, HasEos
<1>2. Roomy(x.track)
  BY DEF Fine, Roomy, Mild, SameCause
<1>3. FrameEnds(x.track)
  BY DEF Fine, FrameEnds, Mild, End
<1> QED
  BY <1>1, <1>2, <1>3 DEF Fine

\* Only the flags of the track change.
LEMMA MildTrack ==
    ASSUME NEW s \in StateType, NEW x \in StateType, x.up = s.up,
           NEW t, NEW t2, t = s.track, t2 = x.track,
           t2.pkts = t.pkts, t2.written = t.written,
           t2.lastFrame = t.lastFrame, t2.tail \in {t.tail, -1},
           t.alerts \subseteq t2.alerts, SameCause(t, t2)
    PROVE  Mild(s, x)
BY DEF Mild, PastEos

\* One upstream changes.
LEMMA MildUp ==
    ASSUME NEW s \in StateType, NEW u \in Upstreams, NEW y \in UpType,
           y.eos => s.up[u].eos \/ HasEos(s.track),
           NEW x, x = SetUp(s, u, y)
    PROVE  Mild(s, x)
<1>1. /\ x \in StateType /\ x.track = s.track /\ x.up[u] = y
      /\ \A v \in Upstreams \ {u} : x.up[v] = s.up[v]
  BY UpFields
<1>2. PastEos(s, x)
  BY <1>1 DEF PastEos
<1>3. /\ s.track.alerts \subseteq x.track.alerts
      /\ SameCause(s.track, x.track)
  BY <1>1 DEF SameCause
<1> QED
  BY <1>1, <1>2, <1>3 DEF Mild

\* An alert changes nothing else.
LEMMA AlertKeeps ==
    ASSUME NEW s \in StateType, NEW a \in AlertNames, NEW x, x = Alert(s, a)
    PROVE  /\ Mild(s, x) /\ x.track.alerts # {}
           /\ x.track.cause = s.track.cause
           /\ x.track.lastFrame = s.track.lastFrame
<1> DEFINE t == [s.track EXCEPT !.alerts = @ \cup {a}]
<1>1. x = SetTrack(s, t)
  BY DEF Alert, SetTrack
<1>2. s.track \in TrackType
  BY StateParts
<1>3. /\ t \in TrackType /\ t.alerts = s.track.alerts \cup {a}
      /\ t.pkts = s.track.pkts /\ t.written = s.track.written
      /\ t.lastFrame = s.track.lastFrame /\ t.tail = s.track.tail
      /\ t.cause = s.track.cause
  BY <1>2 DEF TrackType
<1> HIDE DEF t
<1>4. x \in StateType /\ x.track = t /\ x.up = s.up
  BY <1>1, <1>3, TrackFields
<1>5. SameCause(s.track, t)
  BY <1>3 DEF SameCause
<1>6. Mild(s, x)
  BY <1>3, <1>4, <1>5, MildTrack
<1> QED
  BY <1>3, <1>4, <1>6

\* Neither a return code nor a counter matters.
LEMMA MildSame ==
    ASSUME NEW s, NEW y, Mild(s, y), NEW x \in StateType,
           x.track = y.track, x.up = y.up
    PROVE  Mild(s, x)
BY DEF Mild, PastEos

\* ... as a return code is set.
LEMMA MildRc ==
    ASSUME NEW s, NEW y, Mild(s, y), NEW r \in {"ok", "error", "declined"}
    PROVE  Mild(s, Rc(y, r))
<1>1. y \in StateType
  BY DEF Mild
<1> DEFINE x == Rc(y, r)
<1>2. x \in StateType /\ x.track = y.track /\ x.up = y.up
  BY <1>1, RcFields
<1> HIDE DEF x
<1>3. Mild(s, x)
  BY <1>2, MildSame
<1> QED
  BY <1>3 DEF x

\* What is done after AckSome moved the reader is mild.
LEMMA MildMore ==
    ASSUME NEW s \in StateType, NEW u \in Upstreams, NEW x, Mild(s, x)
    PROVE  /\ \A a \in AlertNames : /\ Mild(s, Alert(x, a))
                                    /\ Alert(x, a).track.alerts # {}
           /\ \A r \in {"ok", "error"} : /\ Mild(s, Rc(x, r))
                                         /\ Rc(x, r).track = x.track
           /\ Mild(s, [x EXCEPT !.up[u].noRep = TRUE])
           /\ HasEos(s.track) => Mild(s, [x EXCEPT !.up[u].eos = TRUE])
<1>0. x \in StateType /\ x.up[u] \in UpType /\ x.track.pkts = s.track.pkts
  <2>1. x \in StateType
    BY DEF Mild
  <2> QED
    BY <2>1, StateParts DEF Mild
<1>1. ASSUME NEW a \in AlertNames
      PROVE  Mild(s, Alert(x, a)) /\ Alert(x, a).track.alerts # {}
  <2> DEFINE y == Alert(x, a)
  <2>1. Mild(x, y) /\ y.track.alerts # {}
    BY <1>0, AlertKeeps
  <2> HIDE DEF y
  <2>2. Mild(s, y)
    BY <2>1, MildTwice
  <2> QED
    BY <2>1, <2>2 DEF y
<1>2. ASSUME NEW r \in {"ok", "error"}
      PROVE  Mild(s, Rc(x, r)) /\ Rc(x, r).track = x.track
  BY <1>0, MildRc, RcFields
<1>3. Mild(s, [x EXCEPT !.up[u].noRep = TRUE])
  <2> DEFINE z == [x.up[u] EXCEPT !.noRep = TRUE]
             y == SetUp(x, u, z)
  <2>1. z \in UpType /\ z.eos = x.up[u].eos
    BY <1>0 DEF UpType
  <2>2. [x EXCEPT !.up[u].noRep = TRUE] = y /\ y = SetUp(x, u, z)
    BY DEF SetUp
  <2> HIDE DEF z, y
  <2>3. Mild(x, y)
    BY <1>0, <2>1, <2>2, MildUp
  <2> QED
    BY <2>2, <2>3, MildTwice
<1>4. ASSUME HasEos(s.track) PROVE Mild(s, [x EXCEPT !.up[u].eos = TRUE])
  <2> DEFINE z == [x.up[u] EXCEPT !.eos = TRUE]
             y == SetUp(x, u, z)
  <2>1. z \in UpType
    BY <1>0 DEF UpType
  <2>2. [x EXCEPT !.up[u].eos = TRUE] = y /\ y = SetUp(x, u, z)
    BY DEF SetUp
  <2>3. HasEos(x.track)
    BY <1>0, <1>4 DEF HasEos
  <2> HIDE DEF z, y
  <2>4. Mild(x, y)
    BY <1>0, <2>1, <2>2, <2>3, MildUp
  <2> QED
    BY <2>2, <2>4, MildTwice
<1> QED
  BY <1>1, <1>2, <1>3, <1>4

\* The reader of u is moved to `to`; d is what is added to the counter.
Moved(s, x, u, to, d) ==
    /\ x \in StateType /\ x.track = s.track /\ x.queue = s.queue
    /\ x.up[u] = [s.up[u] EXCEPT !.acked = to]
    /\ \A v \in Upstreams \ {u} : x.up[v] = s.up[v]
    /\ x.rc = s.rc /\ x.faults = s.faults /\ x.n = s.n + d

\* AckMove moves it.
LEMMA AckMoveMoved ==
    ASSUME NEW s \in StateType, NEW u \in Upstreams, NEW to \in Nat,
           NEW why, NEW x, x = AckMove(s, u, to, why)
    PROVE  /\ Mild(s, x)
           /\ Moved(s, x, u, to, to - s.up[u].acked
                                    - (IF why = "enough" THEN 1 ELSE 0))
<1> DEFINE z == [s.up[u] EXCEPT !.acked = to]
           y == SetUp(s, u, z)
           d == to - s.up[u].acked - (IF why = "enough" THEN 1 ELSE 0)
           m == s.n + (to - s.up[u].acked) - (IF why = "enough" THEN 1 ELSE 0)
<1>1. s.up[u] \in UpType /\ s.up[u].acked \in Nat /\ s.n \in Int
  BY StateParts DEF UpType, StateType
<1>2. d \in Int /\ m = s.n + d /\ m \in Int
  BY <1>1
<1>3. z \in UpType /\ z.eos = s.up[u].eos
  BY <1>1 DEF UpType
<1>4. x = [y EXCEPT !.n = m]
  <2>1. x = [s EXCEPT !.up[u] = z, !.n = m]
    BY DEF AckMove
  <2> HIDE DEF z, m
  <2> QED
    BY <2>1 DEF StateType, SetUp
<1>5. y = SetUp(s, u, z)
  OBVIOUS
<1> HIDE DEF y, d, m
<1>6. Mild(s, y)
  <2> HIDE DEF z
  <2> QED
    BY <1>3, <1>5, MildUp
<1>7. /\ y \in StateType /\ y.track = s.track /\ y.queue = s.queue
      /\ y.faults = s.faults /\ y.rc = s.rc /\ y.n = s.n
      /\ y.up[u] = z /\ \A v \in Upstreams \ {u} : y.up[v] = s.up[v]
  <2> HIDE DEF z
  <2> QED
    BY <1>3, <1>5, UpFields
<1>8. /\ x \in StateType /\ x.track = y.track /\ x.up = y.up
      /\ x.queue = y.queue /\ x.faults = y.faults /\ x.rc = y.rc
      /\ x.n = m
  BY <1>2, <1>4, <1>7 DEF StateType
<1>9. Mild(s, x)
  BY <1>6, <1>8, MildSame
<1>10. Moved(s, x, u, to, d)
  BY <1>2, <1>7, <1>8 DEF Moved
<1> QED
  BY <1>9, <1>10 DEF d

\* Nothing is moved.
LEMMA MovedNothing ==
    ASSUME NEW s \in StateType, NEW u \in Upstreams
    PROVE  Moved(s, s, u, s.up[u].acked, 0)
<1>1. s.up[u] \in UpType /\ s.n \in Int
  BY StateParts DEF StateType
<1>2. s.up[u] = [s.up[u] EXCEPT !.acked = s.up[u].acked]
  BY <1>1 DEF UpType
<1> QED
  BY <1>1, <1>2 DEF Moved

\* Why a reader that was moved to `to` is not moved on: enough was acked, or
\* what follows is above the limit.
Stops(t, x, left, to) ==
    \/ End(t, to) - End(t, x.acked) >= left
    \/ AckLimit(t, x) < End(t, to) + 1
    \/ to < Len(t.pkts) /\ AckLimit(t, x) < End(t, to + 1)

\* What AckSome does when it raises no alert and there is no end of stream
Advances(s, x, u, left) ==
    LET t == s.track
        y == s.up[u]
        to == x.up[u].acked
        d == IF End(t, to) - End(t, y.acked) >= left THEN 1 ELSE 0
    IN  /\ Moved(s, x, u, to, to - y.acked - d)
        /\ to \in y.acked .. Len(t.pkts)
        /\ Stops(t, y, left, to)
        /\ to > y.acked => Readable(t, y)

\* The limit is a number,
LEMMA AckLimitInt ==
    ASSUME NEW t \in TrackType, NEW x \in UpType
    PROVE  AckLimit(t, x) \in Int
<1>1. x.sent \in Nat /\ x.skew \in Nat /\ x.pre \in Nat
  BY DEF UpType
<1>2. t.lastFrame \in Nat
  BY DEF TrackType
<1> QED
  BY <1>1, <1>2 DEF AckLimit

\* ... AckSome is mild, and if it raises no alert it acks all that it may.
LEMMA AckSomeMild ==
    ASSUME NEW s \in StateType, NEW u \in Upstreams,
           s.up[u].acked <= Len(s.track.pkts), NEW left \in Int,
           NEW x \in AckSome(s, u, left)
    PROVE  /\ Mild(s, x)
           /\ x.track.alerts = {} /\ ~HasEos(s.track) /\ ~s.up[u].eos
                => Advances(s, x, u, left)
<1> DEFINE t == s.track
           y == s.up[u]
           to == AckedTo(t, y, left)
           why == AckStop(t, y, left, to)
           m == AckMove(s, u, to, why)
           d == to - y.acked - (IF why = "enough" THEN 1 ELSE 0)
           failed == [s EXCEPT !.up[u].noRep = TRUE]
<1>1. x \in AckOutcome(s, u, to, why, m)
  BY DEF AckSome
<1>2. /\ t \in TrackType /\ y \in UpType /\ y.acked \in Nat
      /\ Len(t.pkts) \in Nat
  BY StateParts, LogNumbers DEF UpType
<1>3. to \in y.acked .. Len(t.pkts) /\ to \in Nat
  BY <1>2, AckedToLast
<1>4. Mild(s, s)
  BY MildNothing
<1>5. Mild(s, m) /\ Moved(s, m, u, to, d)
  <2> HIDE DEF to, why
  <2> QED
    BY <1>3, AckMoveMoved
<1>6. AckAlerts \subseteq AlertNames
  BY DEF AckAlerts, AlertNames
<1>7. ASSUME NEW z, Mild(s, z), NEW a \in AckAlerts, x \in BadRead(z, u, a)
      PROVE  Mild(s, x) /\ x.track.alerts # {}
  <2> DEFINE f == [z EXCEPT !.up[u].noRep = TRUE]
  <2>1. Mild(s, f)
    BY <1>7, MildMore
  <2>2. a \in AlertNames
    BY <1>6
  <2>3. x = Rc(Alert(f, a), "error") \/ x = Alert(z, a)
    BY <1>7 DEF BadRead
  <2> HIDE DEF f
  <2>4. Mild(s, Alert(f, a)) /\ Alert(f, a).track.alerts # {}
    BY ONLY s \in StateType, u \in Upstreams, <2>1, <2>2, MildMore
  <2>5. Mild(s, Alert(z, a)) /\ Alert(z, a).track.alerts # {}
    BY ONLY s \in StateType, u \in Upstreams, <1>7, <2>2, MildMore
  <2>6. /\ Mild(s, Rc(Alert(f, a), "error"))
        /\ Rc(Alert(f, a), "error").track = Alert(f, a).track
    BY ONLY s \in StateType, u \in Upstreams, <2>4, MildMore
  <2> QED
    BY <2>3, <2>4, <2>5, <2>6
<1> HIDE DEF m, to
<1>8. \/ to = y.acked /\ why = "limit" /\ x = s
      \/ x \in BadRead(s, u, "stale read")
      \/ x = Rc(Alert(failed, "skip failed"), "error")
      \/ why \in {"past eos", "bad packet"} /\ x \in BadRead(m, u, why)
      \/ why = "eos" /\ x = [m EXCEPT !.up[u].eos = TRUE]
      \/ why \notin {"past eos", "bad packet", "eos"} /\ x = m
         /\ Readable(t, y)
  <2> HIDE DEF why, t, y
  <2> QED
    BY <1>1 DEF AckOutcome, t, y
<1>9. ASSUME why \notin {"past eos", "bad packet", "eos"}
      PROVE  Stops(t, y, left, to)
  <2>1. CASE End(t, to) - End(t, y.acked) >= left
    BY <2>1 DEF Stops
  <2>2. CASE End(t, to) + 1 > AckLimit(t, y)
    <3>1. AckLimit(t, y) \in Int
      BY <1>2, AckLimitInt
    <3>2. End(t, to) \in Nat
      BY <1>2, <1>3, LogNumbers
    <3> DEFINE a == End(t, to)
               l == AckLimit(t, y)
    <3> HIDE DEF a, l, t, y, to
    <3>3. l < a + 1
      BY <2>2, <3>1, <3>2 DEF a, l
    <3> QED
      BY <3>3 DEF Stops, a, l
  <2>3. CASE /\ ~(End(t, to) - End(t, y.acked) >= left)
             /\ ~(End(t, to) + 1 > AckLimit(t, y))
    <3>1. to < Len(t.pkts) /\ t.pkts[to + 1].type \notin {"eos", "open"}
      BY <1>9, <2>3 DEF AckStop
    <3> DEFINE A(i) == /\ t.pkts[i].type \notin {"eos", "open"}
                       /\ End(t, i) <= AckLimit(t, y)
                       /\ End(t, i - 1) - End(t, y.acked) < left
               P(k) == \A i \in y.acked + 1 .. k : A(i)
               T == {k \in y.acked .. Len(t.pkts) : P(k)}
    <3>2. /\ T \subseteq 0 .. Len(t.pkts) /\ y.acked \in T
          /\ to = Max(T)
      BY <1>2 DEF AckedTo, to
    <3>3. to \in T /\ \A k \in T : k <= to
      <4> HIDE DEF T
      <4> QED
        BY <1>2, <3>2, MaxGreatest
    <3>4. to + 1 \in y.acked .. Len(t.pkts) /\ ~(to + 1 <= to)
      BY <1>2, <1>3, <3>1
    <3>5. ~P(to + 1) /\ P(to)
      <4> HIDE DEF P
      <4> QED
        BY <3>3, <3>4
    <3>6. \A i \in y.acked + 1 .. to + 1 :
                i \in y.acked + 1 .. to \/ i = to + 1
      BY <1>2, <1>3
    <3>7. ~A(to + 1)
      <4> HIDE DEF A, t, y
      <4> QED
        BY <3>5, <3>6
    <3>8. (to + 1) - 1 = to
      BY <1>3
    <3>9. /\ End(t, to) \in Nat /\ End(t, y.acked) \in Nat
          /\ End(t, to + 1) \in Nat /\ AckLimit(t, y) \in Int
      <4>1. y.acked \in 0 .. Len(t.pkts) /\ to \in 0 .. Len(t.pkts)
            /\ to + 1 \in 0 .. Len(t.pkts)
        BY <1>2, <1>3, <3>1
      <4>2. AckLimit(t, y) \in Int
        BY <1>2, AckLimitInt
      <4> QED
        BY <1>2, <4>1, <4>2, LogNumbers
    <3> DEFINE a == End(t, to)
               b == End(t, y.acked)
               c == End(t, to + 1)
               l == AckLimit(t, y)
    <3>10. a - b < left
      <4> HIDE DEF a, b, c, l
      <4>1. a \in Nat /\ b \in Nat /\ ~(a - b >= left)
        BY <2>3, <3>9 DEF a, b
      <4> QED
        BY <4>1
    <3>11. ~(c <= l) /\ c \in Nat /\ l \in Int
      <4>1. End(t, (to + 1) - 1) - End(t, y.acked) < left
        BY <3>8, <3>10
      <4> DEFINE U == t.pkts[to + 1].type \notin {"eos", "open"}
                 V == End(t, to + 1) <= AckLimit(t, y)
                 W == End(t, (to + 1) - 1) - End(t, y.acked) < left
      <4>2. U /\ W /\ ~(U /\ V /\ W)
        <5>1. A(to + 1) <=> U /\ V /\ W
          OBVIOUS
        <5> HIDE DEF A, V
        <5> QED
          BY <3>1, <3>7, <4>1, <5>1
      <4>3. ~V
        <5> HIDE DEF U, V, W
        <5> QED
          BY <4>2
      <4> QED
        BY <3>9, <4>3
    <3>12. l < c
      <4> HIDE DEF c, l
      <4> QED
        BY <3>11
    <3> QED
      BY <3>1, <3>12 DEF Stops
  <2> QED
    BY <2>1, <2>2, <2>3
<1>10. why = "enough" <=> End(t, to) - End(t, y.acked) >= left
  BY DEF AckStop
<1>11. ASSUME why \notin {"past eos", "bad packet", "eos"},
              Moved(s, x, u, to, d), to > y.acked => Readable(t, y)
       PROVE  Advances(s, x, u, left)
  <2>1. x.up[u].acked = to
    BY <1>2, <1>3, <1>11 DEF Moved, UpType
  <2>2. Stops(t, y, left, to)
    BY <1>9, <1>11
  <2>3. d = to - y.acked
            - (IF End(t, to) - End(t, y.acked) >= left THEN 1 ELSE 0)
    BY <1>10
  <2> HIDE DEF t, y, d
  <2> QED
    BY <1>3, <1>11, <2>1, <2>2, <2>3 DEF Advances, t, y
<1>12. CASE to = y.acked /\ why = "limit" /\ x = s
  <2>1. Moved(s, s, u, y.acked, 0)
    BY MovedNothing
  <2>2. d = 0
    BY <1>2, <1>12
  <2>3. Advances(s, x, u, left)
    <3> HIDE DEF d, why
    <3> QED
      BY <1>2, <1>11, <1>12, <2>1, <2>2
  <2> QED
    BY <1>4, <1>12, <2>3
<1>13. CASE \/ x \in BadRead(s, u, "stale read")
            \/ x = Rc(Alert(failed, "skip failed"), "error")
            \/ why \in {"past eos", "bad packet"} /\ x \in BadRead(m, u, why)
  <2> HIDE DEF why, failed
  <2>1. ASSUME x = Rc(Alert(failed, "skip failed"), "error")
        PROVE  Mild(s, x) /\ x.track.alerts # {}
    <3>1. Mild(s, failed)
      BY <1>4, MildMore DEF failed
    <3>2. "skip failed" \in AlertNames
      BY DEF AlertNames
    <3> DEFINE f == Alert(failed, "skip failed")
    <3>3. Mild(s, f) /\ f.track.alerts # {}
      BY ONLY s \in StateType, u \in Upstreams, <3>1, <3>2, MildMore
    <3> HIDE DEF f
    <3>4. Mild(s, Rc(f, "error")) /\ Rc(f, "error").track = f.track
      BY ONLY s \in StateType, u \in Upstreams, <3>3, MildMore
    <3> QED
      BY <2>1, <3>3, <3>4 DEF f
  <2> QED
    BY <1>4, <1>5, <1>7, <1>13, <2>1 DEF AckAlerts
<1>14. CASE why = "eos" /\ x = [m EXCEPT !.up[u].eos = TRUE]
  <2>1. HasEos(t)
    <3>1. to < Len(t.pkts) /\ t.pkts[to + 1].type = "eos"
      BY <1>14 DEF AckStop
    <3>2. to + 1 \in DOMAIN t.pkts
      BY <1>2, <1>3, <3>1, LogNumbers
    <3> QED
      BY <3>1, <3>2 DEF HasEos
  <2>2. Mild(s, x)
    BY <1>5, <1>14, <2>1, MildMore
  <2> QED
    BY <2>1, <2>2
<1>15. CASE why \notin {"past eos", "bad packet", "eos"} /\ x = m
            /\ Readable(t, y)
  <2> HIDE DEF d, why
  <2> QED
    BY <1>5, <1>11, <1>15
<1> QED
  <2> HIDE DEF why, d, failed, t, y
  <2> QED
    BY <1>8, <1>12, <1>13, <1>14, <1>15 DEF t, y

-----------------------------------------------------------------------------
(* Calls that concern one upstream *)

\* A call that concerns u leaves x: the reader of u was moved on, from a place
\* in the queue.
Gained(s, x, u) ==
    LET k == s.up[u].acked
        m == x.up[u].acked
    IN  /\ x.track = s.track /\ x.queue = s.queue /\ ~x.up[u].eos
        /\ s.n <= x.n
        /\ m \in k .. Len(s.track.pkts)
        /\ m > k => Readable(s.track, s.up[u])

\* No alert was raised, and there is no end of stream.
Clean(s, u) ==
    /\ s.track.alerts = {} /\ ~HasEos(s.track) /\ ~s.up[u].eos
    /\ s.up[u].acked <= Len(s.track.pkts)

\* ... or there was an alert.
Tame(s, x, u) ==
    /\ Mild(s, x)
    /\ x.track.alerts = {} /\ Clean(s, u) => Gained(s, x, u)

\* What is gained is clean.
LEMMA GainedClean ==
    ASSUME NEW s, NEW u, NEW x, Gained(s, x, u), Clean(s, u)
    PROVE  Clean(x, u)
<1>1. x.up[u].acked <= Len(s.track.pkts)
  BY DEF Gained
<1> QED
  BY <1>1 DEF Gained, Clean

\* Two gains
LEMMA GainedTwice ==
    ASSUME NEW s \in StateType, NEW x \in StateType, NEW y \in StateType,
           NEW u \in Upstreams, Gained(s, x, u), Gained(x, y, u)
    PROVE  Gained(s, y, u)
<1>1. /\ s.up[u].acked \in Nat /\ x.up[u].acked \in Nat
      /\ y.up[u].acked \in Nat /\ s.n \in Int /\ x.n \in Int /\ y.n \in Int
      /\ Len(s.track.pkts) \in Nat
  <2>1. s.up[u] \in UpType /\ x.up[u] \in UpType /\ y.up[u] \in UpType
    BY StateParts
  <2>2. Len(s.track.pkts) \in Nat
    BY StateParts, LogNumbers
  <2>3. s.n \in Int /\ x.n \in Int /\ y.n \in Int
    BY DEF StateType
  <2> QED
    BY <2>1, <2>2, <2>3 DEF UpType
<1> DEFINE a == s.up[u].acked
           b == x.up[u].acked
           c == y.up[u].acked
           l == Len(s.track.pkts)
<1>2. /\ x.track = s.track /\ x.queue = s.queue /\ s.n <= x.n
      /\ b \in a .. l /\ (b > a => Readable(s.track, s.up[u]))
  BY DEF Gained
<1>3. /\ y.track = x.track /\ y.queue = x.queue /\ ~y.up[u].eos /\ x.n <= y.n
      /\ c \in b .. Len(x.track.pkts)
      /\ (c > b => Readable(x.track, x.up[u]))
  BY DEF Gained
<1>4. x.up[u].acked = a => (Readable(x.track, x.up[u])
                                <=> Readable(s.track, s.up[u]))
  BY <1>2 DEF Readable
<1>5. c \in a .. l /\ s.n <= y.n /\ (c > a => b > a \/ (b = a /\ c > b))
  <2>1. a \in Nat /\ b \in Nat /\ c \in Nat /\ l \in Nat
    BY <1>1
  <2>2. c \in b .. l /\ b \in a .. l
    BY <1>2, <1>3
  <2>3. s.n <= y.n
    BY <1>1, <1>2, <1>3
  <2> HIDE DEF a, b, c, l
  <2> QED
    BY <2>1, <2>2, <2>3
<1>6. c > a => Readable(s.track, s.up[u])
  <2> HIDE DEF a, c
  <2> QED
    BY <1>2, <1>3, <1>4, <1>5
<1> QED
  BY <1>2, <1>3, <1>5, <1>6 DEF Gained

\* Two calls
LEMMA TameTwice ==
    ASSUME NEW s \in StateType, NEW x, NEW y, NEW u \in Upstreams,
           Tame(s, x, u), Tame(x, y, u)
    PROVE  Tame(s, y, u)
<1>1. Mild(s, x) /\ Mild(x, y)
  BY DEF Tame
<1>2. Mild(s, y) /\ x \in StateType /\ y \in StateType
  BY <1>1, MildTwice DEF Mild
<1>3. ASSUME y.track.alerts = {}, Clean(s, u)
      PROVE  Gained(s, y, u)
  <2>1. x.track.alerts = {}
    BY <1>1, <1>3 DEF Mild
  <2>2. Gained(s, x, u) /\ Clean(x, u)
    BY <1>3, <2>1, GainedClean DEF Tame
  <2>3. Gained(x, y, u)
    BY <1>3, <2>2 DEF Tame
  <2> QED
    BY <1>2, <2>2, <2>3, GainedTwice
<1> QED
  BY <1>2, <1>3 DEF Tame

\* Nothing is done to u but what does not concern its reader.
LEMMA TameSame ==
    ASSUME NEW s \in StateType, NEW u \in Upstreams, NEW x \in StateType,
           Mild(s, x), x.track = s.track, x.queue = s.queue, s.n <= x.n,
           x.up[u].acked = s.up[u].acked, x.up[u].eos = s.up[u].eos
    PROVE  Tame(s, x, u)
<1>1. s.up[u].acked \in Nat /\ Len(s.track.pkts) \in Nat
  <2>1. s.up[u] \in UpType
    BY StateParts
  <2> QED
    BY <2>1, StateParts, LogNumbers DEF UpType
<1>2. ASSUME Clean(s, u) PROVE Gained(s, x, u)
  <2>1. /\ x.up[u].acked \in s.up[u].acked .. Len(s.track.pkts)
        /\ ~(x.up[u].acked > s.up[u].acked)
    BY <1>1, <1>2 DEF Clean
  <2> QED
    BY <1>2, <2>1 DEF Gained, Clean
<1> QED
  BY <1>2 DEF Tame

\* Doing nothing is tame,
LEMMA TameNothing ==
    ASSUME NEW s \in StateType, NEW u \in Upstreams
    PROVE  Tame(s, s, u)
<1>1. Mild(s, s) /\ s.n <= s.n
  BY MildNothing DEF StateType
<1> QED
  BY <1>1, TameSame

\* u is set to y.
LEMMA TameUp ==
    ASSUME NEW s \in StateType, NEW u \in Upstreams, NEW y \in UpType,
           y.acked = s.up[u].acked, y.eos = s.up[u].eos,
           NEW x, x = SetUp(s, u, y)
    PROVE  Tame(s, x, u) /\ x.up[u] = y
<1>1. /\ x \in StateType /\ x.track = s.track /\ x.queue = s.queue
      /\ x.n = s.n /\ x.up[u] = y
  BY UpFields
<1>2. Mild(s, x)
  BY MildUp
<1>3. s.n <= x.n
  BY <1>1 DEF StateType
<1> QED
  BY <1>1, <1>2, <1>3, TameSame

\* Only a return code, or the count of faults
LEMMA TameRest ==
    ASSUME NEW s \in StateType, NEW u \in Upstreams, NEW x \in StateType,
           x.track = s.track, x.queue = s.queue, x.n = s.n, x.up = s.up
    PROVE  Tame(s, x, u)
<1>1. Mild(s, x) /\ s.n <= x.n
  BY MildNothing, MildSame DEF StateType
<1> QED
  BY <1>1, TameSame

\* What AckSome does is tame if something is to be acked.
LEMMA AckSomeTame ==
    ASSUME NEW s \in StateType, NEW u \in Upstreams,
           s.up[u].acked <= Len(s.track.pkts), NEW left \in Int, left > 0,
           NEW x \in AckSome(s, u, left)
    PROVE  Tame(s, x, u)
<1>1. Mild(s, x) /\ x \in StateType
  BY AckSomeMild DEF Mild
<1>2. ASSUME x.track.alerts = {}, Clean(s, u)
      PROVE  Gained(s, x, u)
  <2>1. Advances(s, x, u, left)
    BY <1>2, AckSomeMild DEF Clean
  <2> DEFINE k == s.up[u].acked
             m == x.up[u].acked
             d == IF End(s.track, m) - End(s.track, k) >= left THEN 1 ELSE 0
  <2>2. /\ Moved(s, x, u, m, m - k - d)
        /\ m \in k .. Len(s.track.pkts)
        /\ m > k => Readable(s.track, s.up[u])
    BY <2>1 DEF Advances
  <2>3. s.up[u] \in UpType /\ k \in Nat /\ Len(s.track.pkts) \in Nat
        /\ s.n \in Int
    BY StateParts, LogNumbers DEF UpType, StateType
  <2>4. m \in Nat /\ k <= m
    BY <2>2, <2>3
  <2>5. m = k => d = 0
    <3>1. k \in 0 .. Len(s.track.pkts)
      BY <2>2, <2>3
    <3>2. End(s.track, k) \in Nat
      BY <3>1, StateParts, LogNumbers
    <3>3. ~(End(s.track, k) - End(s.track, k) >= left)
      BY <3>2
    <3> QED
      BY <3>3
  <2>6. x.n = s.n + (m - k - d)
    <3> HIDE DEF d, m, k
    <3> QED
      BY <2>2 DEF Moved
  <2>7. s.n <= x.n
    <3>1. d \in {0, 1}
      OBVIOUS
    <3> HIDE DEF d, m, k
    <3> QED
      BY <2>3, <2>4, <2>5, <2>6, <3>1
  <2>8. x.track = s.track /\ x.queue = s.queue /\ x.up[u].eos = s.up[u].eos
    BY <2>2, <2>3 DEF Moved, UpType
  <2> QED
    BY <1>2, <2>2, <2>7, <2>8 DEF Gained, Clean
<1> QED
  BY <1>1, <1>2 DEF Tame

\* ... as is acking what may be acked automatically.
LEMMA AutoAckTame ==
    ASSUME NEW s \in StateType, NEW u \in Upstreams,
           s.up[u].acked <= Len(s.track.pkts), NEW x \in AutoAck(s, u)
    PROVE  Tame(s, x, u)
<1>1. x \in AckSome(s, u, Infinite)
  BY DEF AutoAck
<1>2. Infinite \in Int /\ Infinite > 0
  BY DEF Infinite
<1> QED
  BY <1>1, <1>2, AckSomeTame

\* A call is made, or not.
LEMMA RepublishSendTame ==
    ASSUME NEW s \in StateType, NEW u \in Upstreams, conf \in Confs,
           NEW x \in RepublishSend(s, u)
    PROVE  Tame(s, x, u)
<1>1. s.up[u] \in UpType
  BY StateParts
<1>2. CASE x = [s EXCEPT !.up[u].call = TRUE, !.up[u].recent = TRUE]
  <2> DEFINE y == [s.up[u] EXCEPT !.call = TRUE, !.recent = TRUE]
  <2>1. y \in UpType /\ y.acked = s.up[u].acked /\ y.eos = s.up[u].eos
    BY <1>1 DEF UpType
  <2>2. x = SetUp(s, u, y)
    <3>1. s.up \in [Upstreams -> UpType]
      BY StateParts
    <3>2. [s.up EXCEPT ![u].call = TRUE, ![u].recent = TRUE]
            = [s.up EXCEPT ![u] = y]
      BY <1>1, <3>1 DEF UpType
    <3>3. x = [s EXCEPT !.up = [s.up EXCEPT ![u].call = TRUE,
                                            ![u].recent = TRUE]]
      BY <1>2 DEF StateType
    <3> HIDE DEF y
    <3> QED
      BY <3>2, <3>3 DEF SetUp
  <2> HIDE DEF y
  <2> QED
    BY <2>1, <2>2, TameUp
<1>3. CASE \E y \in Fault(s) : x = Rc(y, "error")
  <2>1. PICK y \in Fault(s) : x = Rc(y, "error")
    BY <1>3
  <2>2. /\ y \in StateType /\ y.track = s.track /\ y.up = s.up
        /\ y.queue = s.queue /\ y.n = s.n
    BY FaultFields
  <2>3. /\ x \in StateType /\ x.track = y.track /\ x.up = y.up
        /\ x.queue = y.queue /\ x.n = y.n
    BY <2>1, <2>2, RcFields
  <2> QED
    BY <2>2, <2>3, TameRest
<1> QED
  BY <1>2, <1>3 DEF RepublishSend

\* The connection is closed.
LEMMA CloseTame ==
    ASSUME NEW s \in StateType, NEW u \in Upstreams,
           NEW x, x = CloseConnection(s, u)
    PROVE  Tame(s, x, u) /\ x.up[u].conn = "none"
<1> DEFINE y == [s.up[u] EXCEPT !.conn = "none", !.ready = FALSE,
                    !.wtimer = FALSE, !.broken = FALSE, !.sent = 0,
                    !.pre = 0, !.skew = 0]
<1>1. s.up[u] \in UpType
  BY StateParts
<1>2. /\ y \in UpType /\ y.acked = s.up[u].acked /\ y.eos = s.up[u].eos
      /\ y.conn = "none"
  BY <1>1 DEF UpType
<1>3. x = SetUp(s, u, y)
  BY DEF CloseConnection, SetUp
<1> HIDE DEF y
<1> QED
  BY <1>2, <1>3, TameUp

\* The call is made now or later.
LEMMA RepublishAfterTame ==
    ASSUME NEW s \in StateType, NEW u \in Upstreams, conf \in Confs,
           NEW within \in BOOLEAN, NEW x \in RepublishAfter(s, u, within)
    PROVE  Tame(s, x, u)
<1>1. s.up[u] \in UpType /\ s.up[u].reps \in Nat
  BY StateParts DEF UpType
<1>2. CASE within
  <2> DEFINE y == [s.up[u] EXCEPT !.timer = TRUE, !.reps = @ + 1]
  <2>1. y \in UpType /\ y.acked = s.up[u].acked /\ y.eos = s.up[u].eos
    <3>1. s.up[u].reps + 1 \in Nat
      BY <1>1
    <3> QED
      BY <1>1, <3>1 DEF UpType
  <2>2. x = SetUp(s, u, y)
    <3>1. s.up \in [Upstreams -> UpType]
      BY StateParts
    <3>2. [s.up EXCEPT ![u].timer = TRUE, ![u].reps = @ + 1]
            = [s.up EXCEPT ![u] = y]
      BY <1>1, <3>1 DEF UpType
    <3>3. x = [s EXCEPT !.up = [s.up EXCEPT ![u].timer = TRUE,
                                            ![u].reps = @ + 1]]
      BY <1>2 DEF StateType, RepublishAfter
    <3> HIDE DEF y
    <3> QED
      BY <3>2, <3>3 DEF SetUp
  <2> HIDE DEF y
  <2> QED
    BY <2>1, <2>2, TameUp
<1>3. CASE ~within
  <2> DEFINE y == [s.up[u] EXCEPT !.reps = 0]
             z == SetUp(s, u, y)
  <2>1. y \in UpType /\ y.acked = s.up[u].acked /\ y.eos = s.up[u].eos
    BY <1>1 DEF UpType
  <2>2. x \in RepublishSend(z, u)
    BY <1>3 DEF RepublishAfter, SetUp
  <2>3. z = SetUp(s, u, y)
    OBVIOUS
  <2> HIDE DEF y, z
  <2>4. Tame(s, z, u) /\ z \in StateType
    BY <2>1, <2>3, TameUp DEF Tame, Mild
  <2>5. Tame(z, x, u)
    BY <2>2, <2>4, RepublishSendTame
  <2> QED
    BY <2>4, <2>5, TameTwice
<1> QED
  BY <1>2, <1>3

\* No new connection can be asked for.
Refused(s, u) ==
    s.track.state # "active" \/ s.up[u].noRep
        \/ s.up[u].reps >= conf.maxRepublishes

\* The connection is given up, unless there will be no other.
LEMMA RepublishTame ==
    ASSUME NEW s, Sound(conf, s), NEW u \in ToSet(s.queue),
           NEW x \in Republish(s, u)
    PROVE  /\ Tame(s, x, u)
           /\ x.up[u].conn = "up" => Refused(s, u) /\ x = Rc(s, "declined")
<1>1. /\ s \in StateType /\ conf \in Confs /\ u \in Upstreams
      /\ s.up[u] \in UpType /\ s.faults <= conf.maxFaults
      /\ s.up[u].acked <= Len(s.track.pkts)
  BY StateParts DEF Sound, UpsOK, UpOK
<1> DEFINE c == CloseConnection(s, u)
           Ok(y) == Tame(s, y, u) /\ y.up[u].conn # "up"
<1>2. Tame(s, c, u) /\ c.up[u].conn = "none" /\ Quiet(s, c, u)
      /\ c \in StateType
  <2>1. c = CloseConnection(s, u)
    OBVIOUS
  <2>2. Quiet(s, c, u)
    BY <1>1, CloseQuiet
  <2> HIDE DEF c
  <2> QED
    BY <1>1, <2>1, <2>2, CloseTame DEF Quiet
<1>3. PICK within \in BOOLEAN :
        \/ x = Rc(s, "declined") /\ Refused(s, u)
        \/ x = c
        \/ x \in Then(IF conf.resume[u] = "last_written"
                      THEN AutoAck(c, u) ELSE {c},
                      LAMBDA y : RepublishAfter(y, u, within))
  <2> DEFINE idle == s.up[u].conn = "up" /\ s.up[u].pre = 0
                     /\ s.up[u].sent = s.track.appended
  <2>1. PICK within \in IF s.up[u].recent THEN BOOLEAN ELSE {FALSE} :
          x \in IF \/ s.track.state # "active"
                   \/ s.up[u].noRep
                   \/ within /\ s.up[u].reps >= conf.maxRepublishes
                THEN {Rc(s, "declined")}
                ELSE IF idle THEN {c}
                ELSE Then(IF conf.resume[u] = "last_written"
                          THEN AutoAck(c, u) ELSE {c},
                          LAMBDA y : RepublishAfter(y, u, within))
    BY DEF Republish
  <2> HIDE DEF idle, c
  <2>2. within \in BOOLEAN
    BY <2>1
  <2>3. CASE \/ s.track.state # "active"
             \/ s.up[u].noRep
             \/ within /\ s.up[u].reps >= conf.maxRepublishes
    BY <2>1, <2>2, <2>3 DEF Refused
  <2>4. CASE ~(\/ s.track.state # "active"
               \/ s.up[u].noRep
               \/ within /\ s.up[u].reps >= conf.maxRepublishes)
    BY <2>1, <2>2, <2>4
  <2> QED
    BY <2>3, <2>4
<1> HIDE DEF c
<1>4. CASE x = Rc(s, "declined") /\ Refused(s, u)
  <2>1. /\ x \in StateType /\ x.track = s.track /\ x.up = s.up
        /\ x.queue = s.queue /\ x.n = s.n
    BY <1>1, <1>4, RcFields
  <2> QED
    BY <1>1, <1>4, <2>1, TameRest
<1>5. CASE x = c
  BY <1>2, <1>5
<1>6. CASE x \in Then(IF conf.resume[u] = "last_written"
                      THEN AutoAck(c, u) ELSE {c},
                      LAMBDA y : RepublishAfter(y, u, within))
  <2>1. PICK y \in IF conf.resume[u] = "last_written"
                   THEN AutoAck(c, u) ELSE {c} :
            x \in IF y.rc = "error" THEN {y}
                  ELSE RepublishAfter(y, u, within)
    BY <1>6 DEF Then
  <2>2. Ok(y)
    <3>1. CASE conf.resume[u] = "last_written"
      <4>1. y \in AutoAck(c, u) /\ y \in AckSome(c, u, Infinite)
        BY <2>1, <3>1 DEF AutoAck
      <4>2. c.up[u].acked <= Len(c.track.pkts)
        BY <1>1, <1>2 DEF Quiet
      <4>3. Tame(c, y, u)
        BY <1>1, <1>2, <4>1, <4>2, AutoAckTame
      <4>4. y.up[u].conn = "none"
        BY <1>1, <1>2, <4>1, <4>2, AckSomeAcks DEF Acks
      <4> QED
        BY <1>1, <1>2, <4>3, <4>4, TameTwice
    <3>2. CASE conf.resume[u] # "last_written"
      BY <1>2, <2>1, <3>2
    <3> QED
      BY <3>1, <3>2
  <2>3. CASE x = y
    BY <2>2, <2>3
  <2>4. CASE x \in RepublishAfter(y, u, within)
    <3>1. y \in StateType
      BY <2>2 DEF Tame, Mild
    <3>2. Tame(y, x, u)
      BY <1>1, <2>4, <3>1, RepublishAfterTame
    <3>3. x.up[u].conn # "up"
      <4>1. y.faults <= conf.maxFaults
        <5>1. y.faults = s.faults
          <6>1. c.faults = s.faults
            BY <1>1, CloseQuiet DEF c
          <6>2. CASE conf.resume[u] = "last_written"
            <7>1. y \in AckSome(c, u, Infinite)
              BY <2>1, <6>2 DEF AutoAck
            <7>2. c.up[u].acked <= Len(c.track.pkts)
              BY <1>1, <1>2 DEF Quiet
            <7> QED
              BY <1>1, <1>2, <6>1, <7>1, <7>2, AckSomeAcks DEF Acks
          <6>3. CASE conf.resume[u] # "last_written"
            BY <2>1, <6>1, <6>3
          <6> QED
            BY <6>2, <6>3
        <5> QED
          BY <1>1, <5>1
      <4>2. Quiet(y, x, u)
        BY <1>1, <2>4, <3>1, <4>1, RepublishAfterQuiet
      <4> QED
        BY <2>2, <4>2 DEF Quiet
    <3> QED
      BY <1>1, <2>2, <3>2, <3>3, TameTwice
  <2> QED
    BY <2>1, <2>3, <2>4
<1> QED
  BY <1>3, <1>4, <1>5, <1>6

-----------------------------------------------------------------------------
(* Packets are acked for want of memory *)

\* The same bytes in the same buffers
Alike(t, t2) ==
    /\ t2.pkts = t.pkts /\ t2.written = t.written
    /\ t2.lastFrame = t.lastFrame /\ t2.head = t.head /\ t2.tail = t.tail
    /\ t2.nfree = t.nfree /\ t2.state = t.state

\* auto_ack with force leaves x: it acked enough, ...
EnoughAcked(s, x, u, left) ==
    /\ Readable(s.track, s.up[u])
    /\ End(s.track, x.up[u].acked) - End(s.track, s.up[u].acked) >= left
\* ... the last frame is acked, ...
FrameAcked(s, x, u) == s.track.lastFrame <= End(s.track, x.up[u].acked)
\* ... or it may not give up the connection.
Stuck(x, u) ==
    /\ x.up[u].conn = "up"
    /\ x.up[u].noRep \/ x.up[u].reps >= conf.maxRepublishes

\* When it counts no packet, that is why; otherwise there was progress.
Turned(s, x, u, left) ==
    /\ x.queue = s.queue /\ Alike(s.track, x.track) /\ ~x.up[u].eos
    /\ x.up[u].acked \in s.up[u].acked .. Len(s.track.pkts)
    /\ x.up[u].conn = "up" => s.up[u].conn = "up"
    /\ x.n = 0 => \/ EnoughAcked(s, x, u, left)
                  \/ FrameAcked(s, x, u)
                  \/ Stuck(x, u)
    /\ x.n # 0 => \/ x.up[u].acked > s.up[u].acked
                  \/ s.up[u].conn = "up" /\ x.up[u].conn # "up"

\* An upstream without a connection whose reader was not moved on, and not
\* because enough was acked, acked the last frame.
LEMMA LimitFrame ==
    ASSUME NEW t \in TrackType, LogOK(t), FrameEnds(t), t.alerts = {},
           NEW x \in UpType, x.conn # "up", NEW to \in 0 .. Len(t.pkts),
           NEW left, Stops(t, x, left, to),
           ~(End(t, to) - End(t, x.acked) >= left)
    PROVE  t.lastFrame <= End(t, to)
<1>1. AckLimit(t, x) = t.lastFrame /\ t.lastFrame \in Nat
  BY DEF AckLimit, TrackType
<1>2. PICK k \in 0 .. Len(t.pkts) : t.lastFrame = End(t, k)
  BY DEF FrameEnds
<1>3. End(t, to) \in Nat /\ Len(t.pkts) \in Nat /\ to \in Nat /\ k \in Nat
  BY LogNumbers
<1>4. CASE t.lastFrame < End(t, to) + 1
  <2> DEFINE a == End(t, to)
             l == t.lastFrame
  <2>1. a \in Nat /\ l \in Nat /\ l < a + 1
    BY <1>1, <1>3, <1>4
  <2> HIDE DEF a, l
  <2>2. l <= a
    BY <2>1
  <2> QED
    BY <2>2 DEF a, l
<1>5. CASE to < Len(t.pkts) /\ t.lastFrame < End(t, to + 1)
  <2>1. to + 1 \in 0 .. Len(t.pkts)
    BY <1>3, <1>5
  <2>2. ~(End(t, to + 1) <= End(t, k))
    <3>1. End(t, to + 1) \in Nat /\ End(t, k) \in Nat
      BY <2>1, LogNumbers
    <3> QED
      BY <1>2, <1>5, <3>1
  <2>3. ~(to + 1 <= k)
    BY <2>1, <2>2, LogOrder
  <2>4. k <= to
    BY <1>3, <2>3
  <2> QED
    BY <1>2, <2>4, LogOrder
<1> QED
  BY <1>1, <1>4, <1>5 DEF Stops

\* The mark that frames were acked is set, or not.
LEMMA ForcedFields ==
    ASSUME NEW s \in StateType, NEW b \in BOOLEAN, NEW x,
           x = [s EXCEPT !.track.forced = b]
    PROVE  /\ Mild(s, x) /\ Alike(s.track, x.track)
           /\ x.track.alerts = s.track.alerts /\ x.up = s.up
           /\ x.queue = s.queue /\ x.rc = s.rc /\ x.n = s.n
<1> DEFINE t == [s.track EXCEPT !.forced = b]
<1>1. x = SetTrack(s, t)
  BY DEF SetTrack
<1>2. s.track \in TrackType
  BY StateParts
<1>3. /\ t \in TrackType /\ t.alerts = s.track.alerts
      /\ Alike(s.track, t) /\ t.cause = s.track.cause
  BY <1>2 DEF TrackType, Alike
<1> HIDE DEF t
<1>4. /\ x \in StateType /\ x.track = t /\ x.up = s.up
      /\ x.queue = s.queue /\ x.rc = s.rc /\ x.n = s.n
  BY ONLY s \in StateType, <1>1, <1>3, TrackFields
<1>5. SameCause(s.track, t)
  BY <1>3 DEF SameCause
<1>6. Mild(s, x)
  BY <1>3, <1>4, <1>5, MildTrack DEF Alike
<1> QED
  BY <1>3, <1>4, <1>6

\* What the first loop of auto_ack leaves
LEMMA FirstAcked ==
    ASSUME NEW s, Sound(conf, s), FrameEnds(s.track), s.n = 0,
           NEW u \in ToSet(s.queue), Clean(s, u),
           NEW left \in Int, left > 0,
           NEW x \in AckSome(s, u, left), x.track.alerts = {}
    PROVE  /\ Gained(s, x, u) /\ x.up[u].conn = s.up[u].conn
           /\ x.n = 0 => \/ EnoughAcked(s, x, u, left)
                         \/ x.up[u].conn = "up"
                         \/ FrameAcked(s, x, u)
           /\ x.n # 0 => x.up[u].acked > s.up[u].acked
<1> DEFINE t == s.track
           y == s.up[u]
           k == s.up[u].acked
           m == x.up[u].acked
           d == IF End(t, m) - End(t, k) >= left THEN 1 ELSE 0
<1>1. /\ s \in StateType /\ u \in Upstreams /\ y \in UpType /\ t \in TrackType
      /\ k \in Nat /\ k <= Len(t.pkts) /\ LogOK(t) /\ Len(t.pkts) \in Nat
  BY StateParts, LogNumbers DEF Sound, UpType, Clean
<1>2. Tame(s, x, u)
  BY <1>1, AckSomeTame
<1>3. Gained(s, x, u)
  BY <1>2 DEF Tame
<1>4. Advances(s, x, u, left)
  BY <1>1, AckSomeMild DEF Clean
<1>5. /\ Moved(s, x, u, m, m - k - d)
      /\ m \in k .. Len(t.pkts)
      /\ Stops(t, y, left, m)
      /\ m > k => Readable(t, y)
  BY <1>4 DEF Advances
<1>6. x.up[u].conn = y.conn /\ x.n = s.n + (m - k - d)
  <2> HIDE DEF d, m, k
  <2> QED
    BY <1>1, <1>5 DEF Moved, UpType
<1>7. m \in Nat /\ k <= m /\ m \in 0 .. Len(t.pkts) /\ d \in {0, 1}
  BY <1>1, <1>5
<1>8. x.n = m - k - d
  <2> HIDE DEF d, m, k
  <2> QED
    BY <1>1, <1>6, <1>7
<1>9. k \in 0 .. Len(t.pkts) /\ End(t, k) \in Nat /\ End(t, m) \in Nat
  <2>1. k \in 0 .. Len(t.pkts)
    BY <1>1
  <2> QED
    BY <1>1, <1>7, <2>1, LogNumbers
<1>10. m = k => d = 0
  <2>1. ~(End(t, k) - End(t, k) >= left)
    BY <1>9
  <2> QED
    BY <2>1
<1>11. CASE d = 1
  <2>1. m > k /\ End(t, m) - End(t, k) >= left
    BY <1>1, <1>7, <1>10, <1>11
  <2>2. EnoughAcked(s, x, u, left)
    BY <1>5, <2>1 DEF EnoughAcked
  <2> QED
    BY <1>3, <1>6, <2>1, <2>2
<1>12. CASE d = 0
  <2>1. x.n = 0 <=> ~(m > k)
    <3> HIDE DEF m, k, d
    <3> QED
      BY <1>1, <1>7, <1>8, <1>12
  <2>2. ASSUME y.conn # "up" PROVE FrameAcked(s, x, u)
    <3>1. ~(End(t, m) - End(t, y.acked) >= left)
      BY <1>12
    <3>2. t.alerts = {}
      BY DEF Clean
    <3> HIDE DEF t, y, m
    <3>3. t.lastFrame <= End(t, m)
      <4>1. FrameEnds(t)
        BY DEF t
      <4> QED
        BY <1>1, <1>5, <1>7, <2>2, <3>1, <3>2, <4>1, LimitFrame
    <3> QED
      BY <3>3 DEF FrameAcked, t, m
  <2> QED
    BY <1>3, <1>6, <2>1, <2>2
<1> QED
  BY <1>7, <1>11, <1>12

\* The place from which an upstream of the list resumes is in the log.
LEMMA ReaderEnd ==
    ASSUME NEW s, Sound(conf, s), NEW u \in ToSet(s.queue)
    PROVE  /\ s \in StateType /\ u \in Upstreams /\ s.up[u] \in UpType
           /\ s.up[u].acked \in 0 .. Len(s.track.pkts)
           /\ s.up[u].acked <= Len(s.track.pkts)
           /\ s.up[u].acked \in Nat /\ Len(s.track.pkts) \in Nat
           /\ End(s.track, s.up[u].acked) \in Nat
           /\ s.track \in TrackType /\ LogOK(s.track)
           /\ s.n \in Int /\ s.faults <= conf.maxFaults
<1>1. /\ s \in StateType /\ u \in Upstreams /\ s.up[u] \in UpType
      /\ s.track \in TrackType /\ LogOK(s.track) /\ UpOK(s.track, s.up[u])
      /\ s.n \in Int /\ s.faults <= conf.maxFaults
  BY StateParts DEF Sound, UpsOK, StateType
<1>2. /\ s.up[u].acked \in Nat /\ s.up[u].acked <= Len(s.track.pkts)
      /\ Len(s.track.pkts) \in Nat
  BY <1>1, LogNumbers DEF UpType, UpOK
<1>3. s.up[u].acked \in 0 .. Len(s.track.pkts)
  BY <1>2
<1> QED
  BY <1>1, <1>2, <1>3, LogNumbers

\* A reader whose end is more than that of an earlier place was moved on.
LEMMA EnoughGained ==
    ASSUME NEW s, Sound(conf, s), NEW u \in ToSet(s.queue), NEW x,
           Gained(s, x, u), NEW left \in Int, left > 0,
           End(s.track, x.up[u].acked) - End(s.track, s.up[u].acked) >= left
    PROVE  x.up[u].acked > s.up[u].acked /\ EnoughAcked(s, x, u, left)
<1>1. s.up[u].acked \in Nat /\ Len(s.track.pkts) \in Nat
      /\ End(s.track, s.up[u].acked) \in Nat
  BY ReaderEnd
<1>2. x.up[u].acked \in s.up[u].acked .. Len(s.track.pkts)
  BY DEF Gained
<1>3. x.up[u].acked # s.up[u].acked
  <2> SUFFICES ASSUME x.up[u].acked = s.up[u].acked PROVE FALSE
    OBVIOUS
  <2>1. End(s.track, s.up[u].acked) - End(s.track, s.up[u].acked) >= left
    OBVIOUS
  <2> QED
    BY <1>1, <2>1
<1>4. x.up[u].acked > s.up[u].acked
  BY <1>1, <1>2, <1>3
<1> QED
  BY <1>4 DEF EnoughAcked, Gained

\* The watermark may act for u, the only upstream.
Ready(s, u) ==
    /\ Clean(s, u) /\ FrameEnds(s.track) /\ s.n = 0
    /\ s.track.state = "active"

\* The connection is given up, then more is acked.
LEMMA GivenUpTurned ==
    ASSUME NEW s, Sound(conf, s), NEW u \in ToSet(s.queue), Ready(s, u),
           NEW left \in Int, left > 0,
           NEW r, Sound(conf, r), Gained(s, r, u),
           s.up[u].conn = "up", r.up[u].conn # "up",
           NEW b \in StateType, b.track = r.track, b.up = r.up,
           b.queue = r.queue, b.n = r.n + 1,
           NEW rest \in Int,
           rest = left - (End(s.track, r.up[u].acked)
                            - End(s.track, s.up[u].acked)),
           NEW y \in AckSome(b, u, rest), y.track.alerts = {}
    PROVE  Turned(s, y, u, left)
<1>1. /\ s \in StateType /\ u \in Upstreams /\ s.up[u].acked \in Nat
      /\ Len(s.track.pkts) \in Nat /\ s.n \in Int
      /\ s.track \in TrackType /\ LogOK(s.track)
      /\ End(s.track, s.up[u].acked) \in Nat
      /\ s.up[u].acked \in 0 .. Len(s.track.pkts)
  BY ReaderEnd
<1>2. /\ u \in ToSet(r.queue) /\ r.track = s.track /\ r.queue = s.queue
      /\ ~r.up[u].eos /\ s.n <= r.n
      /\ r.up[u].acked \in s.up[u].acked .. Len(s.track.pkts)
  BY DEF Gained
<1>3. /\ r.n \in Int /\ r.up[u] \in UpType /\ r.up[u].acked \in Nat
      /\ r.up[u].acked \in 0 .. Len(s.track.pkts)
      /\ End(s.track, r.up[u].acked) \in Nat
  BY <1>2, ReaderEnd
<1>4. b.up[u].acked <= Len(b.track.pkts) /\ Clean(b, u)
  BY <1>1, <1>2, <1>3 DEF Ready, Clean
<1>5. Advances(b, y, u, rest)
  BY <1>1, <1>4, AckSomeMild DEF Clean
<1> DEFINE k == s.up[u].acked
           l == r.up[u].acked
           m == y.up[u].acked
           d == IF End(s.track, m) - End(s.track, l) >= rest THEN 1 ELSE 0
<1>6. Moved(b, y, u, m, m - l - d) /\ m \in l .. Len(s.track.pkts)
  BY <1>2, <1>5 DEF Advances
<1>7. /\ y.track = s.track /\ y.queue = s.queue
      /\ y.up[u].conn # "up" /\ ~y.up[u].eos
  <2>1. y.up[u] = [r.up[u] EXCEPT !.acked = m]
    BY <1>6 DEF Moved
  <2> HIDE DEF m
  <2> QED
    BY <1>2, <1>3, <1>6, <2>1 DEF Moved, UpType
<1>8. y.n = r.n + 1 + (m - l - d)
  <2> HIDE DEF d, m, l
  <2> QED
    BY <1>6 DEF Moved
<1>9. m \in Nat /\ m \in k .. Len(s.track.pkts) /\ l <= m /\ k <= l
      /\ m \in 0 .. Len(s.track.pkts)
  <2> DEFINE n == Len(s.track.pkts)
  <2>1. k \in Nat /\ l \in Nat /\ n \in Nat /\ l \in k .. n /\ m \in l .. n
    BY <1>1, <1>2, <1>3, <1>6
  <2> HIDE DEF k, l, m, n
  <2> QED
    BY <2>1 DEF n
<1>10. End(s.track, m) \in Nat /\ End(s.track, l) <= End(s.track, m)
  BY <1>1, <1>3, <1>9, LogNumbers, LogOrder
<1>11. ASSUME y.n = 0 PROVE EnoughAcked(s, y, u, left)
  <2>1. r.n >= 0
    BY <1>1, <1>2, <1>3 DEF Ready
  <2>2. d \in {0, 1}
    OBVIOUS
  <2>3. m = l /\ d = 1
    <3> DEFINE j == r.n
    <3>1. /\ j \in Int /\ j >= 0 /\ m \in Nat /\ l \in Nat /\ l <= m
          /\ d \in {0, 1} /\ j + 1 + (m - l - d) = 0
      BY <1>3, <1>8, <1>9, <1>11, <2>1, <2>2
    <3> HIDE DEF d, m, l, k, j
    <3> QED
      BY ONLY <3>1
  <2>4. End(s.track, m) - End(s.track, l) >= rest
    BY <2>3
  <2>5. End(s.track, l) - End(s.track, k) >= left
    <3> DEFINE e == End(s.track, l)
               f == End(s.track, k)
    <3>1. End(s.track, m) = e
      BY <2>3
    <3>2. rest = left - (e - f) /\ e \in Nat /\ f \in Nat
      BY <1>1, <1>3
    <3>3. e - e >= rest
      BY <2>4, <3>1
    <3> HIDE DEF e, f
    <3>4. e - f >= left
      BY <3>2, <3>3
    <3> QED
      BY <3>4 DEF e, f
  <2>6. EnoughAcked(s, r, u, left)
    BY <2>5, EnoughGained
  <2> QED
    BY <2>3, <2>6 DEF EnoughAcked
<1>12. Alike(s.track, y.track)
  BY <1>7 DEF Alike
<1> QED
  BY <1>7, <1>9, <1>11, <1>12 DEF Turned

\* auto_ack with force acks what it may, or gives up the connection.
LEMMA AutoAckForceTurned ==
    ASSUME NEW s, Good(conf, s), ~Calm(conf), NEW u \in ToSet(s.queue),
           NEW left \in Int, left > 0, NEW x \in AutoAckForce(s, u, left)
    PROVE  /\ Mild(s, x)
           /\ Ready(s, u) /\ x.track.alerts = {} /\ x.rc # "error"
                => Turned(s, x, u, left)
<1> DEFINE Acked(y) == End(y.track, y.up[u].acked)
                        - End(s.track, s.up[u].acked)
           Lossy(y) == [y EXCEPT !.track.forced = @ \/ Acked(y) > 0]
           Turns(a) == UNION {
                CASE r.rc = "error" -> {r}
                  [] r.rc # "error" /\ r.up[u].conn = "up" -> {Rc(r, "ok")}
                  [] OTHER -> AckSome([r EXCEPT !.n = @ + 1], u,
                                      left - Acked(r))
                : r \in Republish(a, u)}
           Kept(a) == Acked(a) >= left \/ a.up[u].conn # "up" \/ a.up[u].eos
           More(a) == IF Kept(a) THEN {a} ELSE Turns(a)
           Ok(y) == Ready(s, u) /\ y.track.alerts = {} /\ y.rc # "error"
                        => Turned(s, y, u, left)
<1>1. /\ Sound(conf, s) /\ conf \in Confs /\ s \in StateType
      /\ u \in Upstreams /\ s.up[u].acked <= Len(s.track.pkts)
  BY ReaderEnd DEF Good, Sound
<1>2. PICK y \in Then(AckSome(s, u, left), More) : x = Lossy(y)
  BY DEF AutoAckForce
<1> HIDE DEF More
<1>3. PICK a \in AckSome(s, u, left) :
        y \in IF a.rc = "error" THEN {a} ELSE More(a)
  BY <1>2 DEF Then
<1>4. Sound(conf, a) /\ Touches(s, a, u) /\ Tame(s, a, u) /\ Mild(s, a)
      /\ a \in StateType /\ u \in ToSet(a.queue)
  BY <1>1, AckSomeSound, AckSomeTame DEF Tame, Touches
<1>5. ASSUME Ready(s, u), a.track.alerts = {}
      PROVE  /\ Gained(s, a, u) /\ a.up[u].conn = s.up[u].conn
             /\ a.n = 0 => \/ EnoughAcked(s, a, u, left)
                           \/ a.up[u].conn = "up"
                           \/ FrameAcked(s, a, u)
             /\ a.n # 0 => a.up[u].acked > s.up[u].acked
  BY <1>1, <1>5, FirstAcked DEF Ready
<1>6. ASSUME Ready(s, u), NEW z, Gained(s, z, u)
      PROVE  /\ Alike(s.track, z.track) /\ z.queue = s.queue
             /\ z.up[u].acked \in s.up[u].acked .. Len(s.track.pkts)
             /\ ~z.up[u].eos
             /\ Acked(z) = End(s.track, z.up[u].acked)
                                - End(s.track, s.up[u].acked)
  BY <1>6 DEF Gained, Alike
<1>7. Mild(s, y) /\ Ok(y)
  <2>1. CASE a.rc = "error" /\ y = a
    BY <1>4, <2>1
  <2>2. CASE Kept(a) /\ y = a
    <3>1. ASSUME Ready(s, u), a.track.alerts = {} PROVE Turned(s, a, u, left)
      <4>1. Gained(s, a, u) /\ ~a.up[u].eos
        BY <1>5, <3>1 DEF Gained
      <4>2. CASE Acked(a) >= left
        <5>1. a.up[u].acked > s.up[u].acked /\ EnoughAcked(s, a, u, left)
          <6>1. End(s.track, a.up[u].acked) - End(s.track, s.up[u].acked)
                    >= left
            BY <1>6, <3>1, <4>1, <4>2
          <6> QED
            BY <1>1, <4>1, <6>1, EnoughGained
        <5> HIDE DEF Acked
        <5> QED
          BY <1>5, <1>6, <3>1, <4>1, <5>1 DEF Turned
      <4>3. CASE a.up[u].conn # "up"
        <5> HIDE DEF Acked
        <5> QED
          BY <1>5, <1>6, <3>1, <4>1, <4>3 DEF Turned
      <4> HIDE DEF Acked
      <4> QED
        BY <2>2, <4>1, <4>2, <4>3
    <3> QED
      BY <1>4, <2>2, <3>1
  <2>3. CASE ~Kept(a) /\ y \in Turns(a)
    <3>1. PICK r \in Republish(a, u) :
            y \in CASE r.rc = "error" -> {r}
                    [] r.rc # "error" /\ r.up[u].conn = "up"
                        -> {Rc(r, "ok")}
                    [] OTHER -> AckSome([r EXCEPT !.n = @ + 1], u,
                                        left - Acked(r))
      BY <2>3
    <3> DEFINE b == [r EXCEPT !.n = @ + 1]
               rest == left - Acked(r)
    <3>2. /\ Tame(a, r, u) /\ Sound(conf, r) /\ Touches(a, r, u)
          /\ r.up[u].conn = "up" => Refused(a, u) /\ r = Rc(a, "declined")
      BY <1>4, RepublishTame, RepublishGood
    <3>3. Tame(s, r, u) /\ Mild(s, r) /\ r \in StateType
          /\ u \in ToSet(r.queue)
      BY <1>1, <1>4, <3>2, TameTwice DEF Tame, Mild, Touches
    <3>4. a.up[u].conn = "up"
      BY <2>3
    <3>5. \/ r.rc = "error" /\ y = r
          \/ r.rc # "error" /\ r.up[u].conn = "up" /\ y = Rc(r, "ok")
          \/ r.rc # "error" /\ r.up[u].conn # "up" /\ y \in AckSome(b, u, rest)
      <4> HIDE DEF b, rest
      <4> QED
        BY <3>1 DEF b, rest
    <3>6. CASE r.rc = "error" /\ y = r
      BY <3>3, <3>6
    <3>7. CASE r.rc # "error" /\ r.up[u].conn = "up" /\ y = Rc(r, "ok")
      <4>1. Mild(s, y)
        BY <3>3, <3>7, MildRc
      <4>2. /\ y.track = a.track /\ y.up = a.up /\ y.queue = a.queue
            /\ y.n = a.n
        <5>1. /\ r \in StateType /\ r.track = a.track /\ r.up = a.up
              /\ r.queue = a.queue /\ r.n = a.n
          BY <1>4, <3>2, <3>7, RcFields
        <5> QED
          BY <3>7, <5>1, RcFields
      <4>3. ASSUME Ready(s, u), y.track.alerts = {}
            PROVE  Turned(s, y, u, left)
        <5>1. /\ Gained(s, a, u) /\ a.up[u].conn = s.up[u].conn
              /\ a.n # 0 => a.up[u].acked > s.up[u].acked
          BY <1>5, <4>2, <4>3
        <5>2. a.track = s.track /\ s.track.state = "active"
          BY <4>3, <5>1 DEF Gained, Ready
        <5>3. Stuck(y, u)
          BY <3>2, <3>4, <3>7, <4>2, <5>2 DEF Refused, Stuck
        <5> HIDE DEF Acked
        <5> QED
          BY <1>6, <4>2, <4>3, <5>1, <5>3 DEF Turned
      <4> QED
        BY <4>1, <4>3
    <3>8. CASE r.rc # "error" /\ r.up[u].conn # "up" /\ y \in AckSome(b, u, rest)
      <4>1. /\ b \in StateType /\ b.track = r.track /\ b.up = r.up
            /\ b.queue = r.queue /\ b.n = r.n + 1
        <5>1. r.n + 1 \in Int
          BY <3>3 DEF StateType
        <5>2. /\ b \in StateType /\ b.track = r.track /\ b.up = r.up
              /\ b.queue = r.queue
          BY <3>3, <5>1, CountFields
        <5> QED
          BY <3>3, <5>2 DEF StateType
      <4> HIDE DEF b
      <4>2. /\ r.up[u].acked <= Len(r.track.pkts)
            /\ End(r.track, r.up[u].acked) \in Nat
            /\ End(s.track, s.up[u].acked) \in Nat
        BY <1>1, <3>2, <3>3, ReaderEnd
      <4>3. rest \in Int
        BY <4>2
      <4>4. Mild(b, y)
        <5> HIDE DEF rest
        <5> QED
          BY <1>1, <3>8, <4>1, <4>2, <4>3, AckSomeMild
      <4>5. Mild(s, b)
        BY <3>3, <4>1, MildSame
      <4>6. Mild(s, y)
        BY <4>4, <4>5, MildTwice
      <4>7. ASSUME Ready(s, u), y.track.alerts = {}
            PROVE  Turned(s, y, u, left)
        <5>1. r.track.alerts = {} /\ a.track.alerts = {}
          BY <3>2, <4>1, <4>4, <4>7 DEF Mild, Tame
        <5>2. Gained(s, r, u)
          BY <3>3, <4>7, <5>1 DEF Tame, Ready
        <5>3. s.up[u].conn = "up"
          BY <1>5, <3>4, <4>7, <5>1
        <5>4. rest = left - (End(s.track, r.up[u].acked)
                                - End(s.track, s.up[u].acked))
          BY <1>6, <4>7, <5>2
        <5> HIDE DEF rest
        <5> QED
          BY <1>1, <3>2, <3>8, <4>1, <4>3, <4>7, <5>2, <5>3, <5>4,
             GivenUpTurned
      <4> QED
        BY <4>6, <4>7
    <3> QED
      BY <3>5, <3>6, <3>7, <3>8
  <2> HIDE DEF Turns, Kept, Ok
  <2> QED
    BY <1>3, <2>1, <2>2, <2>3 DEF More
<1> HIDE DEF Turns, Kept
<1> DEFINE more == Acked(y) > 0
           f == y.track.forced \/ more
<1>8. /\ Mild(y, x) /\ Alike(y.track, x.track)
      /\ x.track.alerts = y.track.alerts /\ x.up = y.up
      /\ x.queue = y.queue /\ x.rc = y.rc /\ x.n = y.n
  <2>1. x = [y EXCEPT !.track.forced = f]
    BY <1>2
  <2>2. y \in StateType /\ f \in BOOLEAN
    BY <1>7 DEF Mild
  <2> HIDE DEF f
  <2> QED
    BY <2>1, <2>2, ForcedFields
<1>9. Mild(s, x)
  BY <1>7, <1>8, MildTwice
<1>10. ASSUME Turned(s, y, u, left) PROVE Turned(s, x, u, left)
  BY <1>8, <1>10 DEF Turned, Alike, EnoughAcked, FrameAcked, Stuck
<1> QED
  BY <1>7, <1>8, <1>9, <1>10

-----------------------------------------------------------------------------
(* The memory that is left *)

\* The numbers of a configuration
LEMMA ConfNumbers ==
    ASSUME conf \in Confs
    PROVE  /\ BufSize \in Nat /\ BufSize > 0
           /\ conf.memLimit \in Nat /\ conf.highMark \in Nat
           /\ conf.lowMark \in Nat /\ conf.maxFree \in Nat
           /\ conf.highMark <= conf.lowMark /\ conf.highMark <= conf.memLimit
BY ConfAssumption DEF ConfType

\* More buffers are more bytes.
LEMMA TimesOrder ==
    ASSUME NEW a \in Int, NEW b \in Int, a <= b, NEW c \in Nat
    PROVE  a * c \in Int /\ b * c \in Int /\ a * c <= b * c
<1> DEFINE d == b - a
<1>1. d \in Nat /\ b = a + d
  OBVIOUS
<1> HIDE DEF d
<1>2. d * c \in Nat /\ a * c \in Int
  BY <1>1
<1>3. (a + d) * c = a * c + d * c
  BY <1>1
<1> QED
  BY <1>1, <1>2, <1>3

\* The buffer of a byte begins before it and ends after it.
LEMMA NodeBounds ==
    ASSUME NEW a \in Nat, NEW n, n = NodeOf(a)
    PROVE  /\ n \in Nat /\ n * BufSize \in Nat /\ (n + 1) * BufSize \in Nat
           /\ n * BufSize <= a /\ a < (n + 1) * BufSize
<1> DEFINE r == a % BufSize
<1>1. BufSize \in Nat \ {0}
  BY ConfAssumption
<1>2. n = a \div BufSize
  BY DEF NodeOf
<1>3. n \in Nat /\ r \in 0 .. BufSize - 1 /\ a = BufSize * n + r
  BY <1>1, <1>2
<1> HIDE DEF r
<1> DEFINE p == n * BufSize
<1>4. p \in Nat /\ BufSize * n = p /\ (n + 1) * BufSize = p + BufSize
  BY <1>1, <1>3
<1> HIDE DEF p
<1>5. p <= a /\ a < p + BufSize /\ p + BufSize \in Nat
  BY <1>1, <1>3, <1>4
<1> QED
  BY <1>3, <1>4, <1>5 DEF p

\* A byte after the begin of a buffer is in that one or a later one.
LEMMA NodeAtLeast ==
    ASSUME NEW a \in Nat, NEW k \in Int, k * BufSize <= a
    PROVE  k <= NodeOf(a)
<1> DEFINE n == NodeOf(a)
<1>1. n \in Nat /\ a < (n + 1) * BufSize
  BY NodeBounds
<1> HIDE DEF n
<1> SUFFICES ASSUME ~(k <= n) PROVE FALSE
  BY DEF n
<1>2. n + 1 <= k /\ BufSize \in Nat
  BY <1>1, ConfAssumption
<1>3. (n + 1) * BufSize <= k * BufSize /\ (n + 1) * BufSize \in Int
      /\ k * BufSize \in Int
  BY <1>1, <1>2, TimesOrder
<1> DEFINE p == (n + 1) * BufSize
           q == k * BufSize
<1>4. p \in Int /\ q \in Int /\ p <= q /\ a < p /\ q <= a
  BY <1>1, <1>3
<1> HIDE DEF p, q
<1> QED
  BY <1>4

\* The buffer from which a reader of the end of packet k resumes, or the first
\* that there is
From(t, k) ==
    LET n == NodeOf(End(t, k))
    IN  IF n >= t.head THEN n ELSE t.head

\* The last whole frame ends before the buffers that are kept for the high
\* watermark when those before From are released and all others are full.
Ahead(t, k) ==
    t.lastFrame < (conf.memLimit + From(t, k) - conf.highMark + 1) * BufSize

\* What is written to the memory of a track with one upstream u has room, or
\* there is a reason why not.
Spared(s, u) ==
    \/ Ahead(s.track, s.up[u].acked)
    \/ Stuck(s, u)
    \/ s.track.alerts # {}

\* The bytes of buffers
LEMMA AheadIf ==
    ASSUME conf \in Confs, NEW t \in TrackType, NEW k, From(t, k) \in Int,
           NEW m \in Int, m <= conf.memLimit + From(t, k) - conf.highMark + 1,
           t.lastFrame < m * BufSize
    PROVE  Ahead(t, k)
<1> DEFINE b == conf.memLimit + From(t, k) - conf.highMark + 1
           l == t.lastFrame
<1>1. b \in Int /\ BufSize \in Nat /\ l \in Nat
  <2>1. l \in Nat
    BY DEF TrackType
  <2> QED
    BY <2>1, ConfNumbers
<1>2. m * BufSize \in Int /\ b * BufSize \in Int
      /\ m * BufSize <= b * BufSize
  <2>1. m \in Int /\ m <= b
    OBVIOUS
  <2> HIDE DEF b
  <2> QED
    BY ONLY <1>1, <2>1, TimesOrder
<1> DEFINE p == m * BufSize
           q == b * BufSize
<1>3. p \in Int /\ q \in Int /\ p <= q /\ l < p
  BY <1>2
<1>4. l < q
  <2> HIDE DEF p, q, l
  <2> QED
    BY <1>1, <1>3
<1> QED
  BY <1>4 DEF Ahead

\* From is a number, no less than the first buffer or that of packet k.
LEMMA FromNumber ==
    ASSUME NEW t \in TrackType, NEW k \in 0 .. Len(t.pkts)
    PROVE  /\ From(t, k) \in Nat /\ t.head <= From(t, k)
           /\ NodeOf(End(t, k)) \in Nat /\ NodeOf(End(t, k)) <= From(t, k)
<1>1. End(t, k) \in Nat /\ t.head \in Nat
  BY LogNumbers DEF TrackType
<1>2. NodeOf(End(t, k)) \in Nat
  BY <1>1, NodeOrder
<1> QED
  BY <1>1, <1>2 DEF From

\* The buffers before From and those after the last one are as many as the high
\* watermark asks for.
LEMMA TailAhead ==
    ASSUME conf \in Confs, NEW t \in TrackType, t.lastFrame <= t.written,
           Fits(t), NEW k \in 0 .. Len(t.pkts),
           t.tail + 2 <= conf.memLimit + From(t, k) - conf.highMark + 1
    PROVE  Ahead(t, k)
<1>1. /\ t.tail \in Int /\ t.written \in Nat /\ t.lastFrame \in Nat
      /\ BufSize \in Nat /\ BufSize > 0 /\ From(t, k) \in Int
  BY ConfNumbers, FromNumber DEF TrackType
<1>2. t.lastFrame < (t.tail + 2) * BufSize
  <2> DEFINE p == (t.tail + 1) * BufSize
             q == (t.tail + 2) * BufSize
             c == t.tail + 1
  <2>1. p \in Int /\ t.written <= p
    BY <1>1 DEF Fits
  <2>2. q = p + BufSize
    <3>1. c \in Int /\ t.tail + 2 = c + 1
      BY <1>1
    <3>2. (c + 1) * BufSize = c * BufSize + BufSize
      <4> HIDE DEF c
      <4> QED
        BY <1>1, <3>1
    <3> QED
      BY <3>1, <3>2
  <2> HIDE DEF p, q
  <2>3. t.lastFrame < q
    BY <1>1, <2>1, <2>2
  <2> QED
    BY <2>3 DEF q
<1>3. t.tail + 2 \in Int
  BY <1>1
<1> QED
  BY <1>1, <1>2, <1>3, AheadIf

\* As many buffers are left as the high watermark asks for.
LEMMA RoomAhead ==
    ASSUME conf \in Confs, NEW t \in TrackType, t.lastFrame <= t.written,
           Fits(t), MemLeft(t) >= conf.highMark, NEW k \in 0 .. Len(t.pkts)
    PROVE  Ahead(t, k)
<1> DEFINE f == From(t, k)
           b == conf.memLimit + f - conf.highMark + 1
<1>1. /\ conf.memLimit \in Nat /\ conf.highMark \in Nat
      /\ t.head \in Nat /\ t.tail \in Int /\ t.nfree \in Nat
      /\ t.written \in Nat /\ t.lastFrame \in Nat
      /\ BufSize \in Nat /\ BufSize > 0
      /\ f \in Nat /\ t.head <= f
  BY ConfNumbers, FromNumber DEF TrackType
<1> HIDE DEF f
<1>2. conf.memLimit - (t.tail - t.head + 1) - t.nfree >= conf.highMark
  BY DEF MemLeft, Nodes
<1>3. t.tail + 2 <= b
  <2> DEFINE m == conf.memLimit
             w == conf.highMark
             h == t.head
             l == t.tail
             n == t.nfree
  <2>1. /\ m \in Nat /\ w \in Nat /\ h \in Nat /\ l \in Int /\ n \in Nat
        /\ f \in Nat /\ h <= f /\ m - (l - h + 1) - n >= w
    BY <1>1, <1>2
  <2> HIDE DEF m, w, h, l, n
  <2>2. l + 2 <= m + f - w + 1
    BY <2>1
  <2> QED
    BY <2>2 DEF m, w, l
<1>4. t.tail + 2 <= conf.memLimit + From(t, k) - conf.highMark + 1
  BY <1>3 DEF f
<1> QED
  BY <1>4, TailAhead

\* The last frame is acked.
LEMMA FrameAhead ==
    ASSUME conf \in Confs, NEW t \in TrackType, NEW k \in 0 .. Len(t.pkts),
           t.lastFrame <= End(t, k)
    PROVE  Ahead(t, k)
<1> DEFINE n == NodeOf(End(t, k))
           e == End(t, k)
           f == From(t, k)
<1>1. e \in Nat /\ t.lastFrame \in Nat
  BY LogNumbers DEF TrackType
<1>2. n \in Nat /\ n <= f /\ f \in Nat
  BY FromNumber
<1>3. (n + 1) * BufSize \in Nat /\ e < (n + 1) * BufSize
  <2> HIDE DEF e
  <2> QED
    BY <1>1, NodeBounds DEF e
<1>4. t.lastFrame < (n + 1) * BufSize
  <2> DEFINE p == (n + 1) * BufSize
  <2>1. p \in Nat /\ e < p /\ t.lastFrame <= e
    BY <1>3
  <2> HIDE DEF p, e
  <2>2. t.lastFrame < p
    BY <1>1, <2>1
  <2> QED
    BY <2>2 DEF p
<1>5. n + 1 <= conf.memLimit + f - conf.highMark + 1
  <2> HIDE DEF n, f
  <2> QED
    BY <1>2, ConfNumbers
<1>6. n + 1 \in Int /\ From(t, k) \in Int
  BY <1>2
<1> HIDE DEF n
<1> QED
  BY <1>4, <1>5, <1>6, AheadIf

\* As much as is missing to the low watermark is acked.
LEMMA EnoughAhead ==
    ASSUME conf \in Confs, NEW t \in TrackType, t.lastFrame <= t.written,
           Fits(t), NEW k \in 0 .. Len(t.pkts), t.head <= NodeOf(End(t, k)),
           NEW m \in 0 .. Len(t.pkts),
           End(t, m) - End(t, k) >= (conf.lowMark - MemLeft(t)) * BufSize
    PROVE  Ahead(t, m)
<1> DEFINE n == NodeOf(End(t, k))
           j == conf.lowMark - MemLeft(t)
           f == From(t, m)
           d == End(t, k)
           e == End(t, m)
<1>1. /\ conf.memLimit \in Nat /\ conf.highMark \in Nat
      /\ conf.lowMark \in Nat /\ conf.highMark <= conf.lowMark
      /\ t.head \in Nat /\ t.tail \in Int /\ t.nfree \in Nat
      /\ BufSize \in Nat /\ d \in Nat /\ e \in Nat
      /\ n \in Nat /\ f \in Nat /\ t.head <= n /\ NodeOf(e) \in Nat
      /\ NodeOf(e) <= f
  BY ConfNumbers, FromNumber, LogNumbers DEF TrackType
<1>2. MemLeft(t) = conf.memLimit - (t.tail - t.head + 1) - t.nfree
      /\ MemLeft(t) \in Int /\ j \in Int
  <2> DEFINE a == conf.memLimit
             o == conf.lowMark
             h == t.head
             l == t.tail
             r == t.nfree
             w == MemLeft(t)
  <2>1. w = a - (l - h + 1) - r
    BY DEF MemLeft, Nodes
  <2>2. a \in Nat /\ o \in Nat /\ h \in Nat /\ l \in Int /\ r \in Nat
    BY <1>1
  <2> HIDE DEF a, o, h, l, r, w
  <2>3. w \in Int /\ o - w \in Int
    BY <2>1, <2>2
  <2> QED
    BY <2>1, <2>3 DEF a, o, h, l, r, w
<1>3. n * BufSize <= d /\ n * BufSize \in Nat
  <2> HIDE DEF d, n
  <2> QED
    BY <1>1, NodeBounds DEF d, n
<1>4. (n + j) * BufSize <= e
  <2> DEFINE p == n * BufSize
             q == j * BufSize
  <2>1. p \in Nat /\ p <= d /\ e - d >= q
    BY <1>3
  <2>2. (n + j) * BufSize = p + q /\ q \in Int
    <3> HIDE DEF n, j
    <3> QED
      BY <1>1, <1>2
  <2> HIDE DEF p, q, d, e
  <2>3. p + q <= e
    BY <1>1, <2>1, <2>2
  <2> QED
    BY <2>2, <2>3
<1>5. n + j <= NodeOf(e)
  <2>1. n + j \in Int
    BY <1>1, <1>2
  <2> DEFINE c == n + j
  <2>2. c \in Int /\ c * BufSize <= e /\ e \in Nat
    BY <1>1, <1>4, <2>1
  <2> HIDE DEF c, e
  <2>3. c <= NodeOf(e)
    BY <2>2, NodeAtLeast
  <2> QED
    BY <2>3 DEF c
<1>6. t.tail + 2 <= conf.memLimit + From(t, m) - conf.highMark + 1
  <2> DEFINE a == conf.memLimit
             w == conf.highMark
             o == conf.lowMark
             h == t.head
             l == t.tail
             r == t.nfree
             g == NodeOf(e)
  <2>1. j = o - (a - (l - h + 1) - r)
    BY <1>2
  <2>2. /\ a \in Nat /\ w \in Nat /\ o \in Nat /\ h \in Nat /\ l \in Int
        /\ r \in Nat /\ g \in Nat /\ w <= o /\ h <= n /\ g <= f
        /\ n + j <= g /\ n \in Nat /\ j \in Int /\ f \in Nat
    BY <1>1, <1>2, <1>5
  <2> HIDE DEF a, w, o, h, l, r, g, j, n, f
  <2>3. l + 2 <= a + f - w + 1
    BY <2>1, <2>2
  <2> QED
    BY <2>3 DEF l, a, f, w
<1> QED
  BY <1>6, TailAhead

\* What is ahead remains so when From is no less.
LEMMA AheadLater ==
    ASSUME conf \in Confs, NEW t \in TrackType, NEW t2 \in TrackType,
           t2.lastFrame = t.lastFrame,
           NEW k \in 0 .. Len(t.pkts), NEW m \in 0 .. Len(t2.pkts),
           From(t, k) <= From(t2, m), Ahead(t, k)
    PROVE  Ahead(t2, m)
<1> DEFINE b == conf.memLimit + From(t, k) - conf.highMark + 1
           c == conf.memLimit + From(t2, m) - conf.highMark + 1
<1>1. /\ conf.memLimit \in Nat /\ conf.highMark \in Nat
      /\ From(t, k) \in Nat /\ From(t2, m) \in Nat
  BY ConfNumbers, FromNumber
<1>2. b \in Int /\ b <= c
  BY <1>1
<1>3. t2.lastFrame < b * BufSize
  BY DEF Ahead
<1> HIDE DEF b
<1> QED
  BY <1>1, <1>2, <1>3, AheadIf

\* ... as it is when more is acked, and the first buffer is no earlier.
LEMMA FromLater ==
    ASSUME NEW t \in TrackType, LogOK(t), NEW t2 \in TrackType,
           t2.pkts = t.pkts, t.head <= t2.head,
           NEW k \in 0 .. Len(t.pkts), NEW m \in k .. Len(t.pkts)
    PROVE  From(t, k) <= From(t2, m)
<1>1. m \in 0 .. Len(t.pkts) /\ k <= m
  BY LogNumbers
<1>2. End(t, k) <= End(t, m) /\ End(t2, m) = End(t, m)
      /\ End(t, k) \in Nat /\ End(t, m) \in Nat
  BY <1>1, LogOrder, LogNumbers DEF End
<1> DEFINE a == NodeOf(End(t, k))
           b == NodeOf(End(t2, m))
<1>3. a \in Nat /\ b \in Nat /\ a <= b
  BY <1>2, NodeOrder
<1>4. t.head \in Nat /\ t2.head \in Nat
  BY DEF TrackType
<1>5. /\ From(t, k) = IF a >= t.head THEN a ELSE t.head
      /\ From(t2, m) = IF b >= t2.head THEN b ELSE t2.head
  BY DEF From
<1> HIDE DEF a, b
<1> QED
  BY <1>3, <1>4, <1>5

-----------------------------------------------------------------------------
(* The watermark *)

\* Buffers before offset `off` are released from s, which leaves x; or there is
\* an alert.
Released(s, x, off) ==
    LET t == s.track
        t2 == x.track
    IN  /\ Mild(s, x) /\ x.up = s.up /\ x.queue = s.queue
        /\ x.rc = s.rc /\ x.n = s.n
        /\ t2.state = t.state /\ t2.cause = t.cause /\ t2.tail = t.tail
        /\ t2.appended = t.appended
        /\ t.head <= t2.head
        /\ t2.alerts = {} => t.alerts = {} /\ t2.head = NodeOf(off)

\* ngx_buf_queue_free does that, for the slowest reader.
LEMMA FreeToReleased ==
    ASSUME NEW s, Good(conf, s), s.queue # << >>, NEW x,
           x = FreeTo(s, MinReader(s))
    PROVE  Released(s, x, MinReader(s))
<1> DEFINE t == s.track
           off == MinReader(s)
           found == NodeOf(off) \in t.head .. t.tail
           first == IF found THEN NodeOf(off) ELSE t.tail
           free == Min({conf.maxFree, t.nfree + first - t.head})
           t2 == [t EXCEPT !.head = first, !.nfree = free]
           y == [s EXCEPT !.track = t2]
<1>1. s \in StateType /\ t \in TrackType /\ MemoryOK(conf, t, s.queue)
  BY StateParts DEF Sound, Good
<1>2. /\ t.head \in Nat /\ t.tail \in Nat /\ t.head <= t.tail
      /\ t.nfree \in Nat /\ conf.maxFree \in Nat
  <2>1. conf \in Confs
    BY DEF Good, Sound
  <2> QED
    BY <1>1, <2>1, ConfNumbers DEF TrackType, MemoryOK
<1> HIDE DEF off
<1>3. first \in t.head .. t.tail /\ first \in Nat /\ t.head <= first
  BY <1>2
<1>4. free \in Nat
  <2>1. t.nfree + first - t.head \in Nat
    BY <1>2, <1>3
  <2> HIDE DEF first
  <2> QED
    BY <1>2, <2>1, MinOfTwo
<1> HIDE DEF free
<1>5. /\ t2 \in TrackType /\ t2.head = first
      /\ t2.pkts = t.pkts /\ t2.written = t.written
      /\ t2.lastFrame = t.lastFrame /\ t2.cause = t.cause
      /\ t2.appended = t.appended /\ t2.tail = t.tail
      /\ t2.state = t.state /\ t2.alerts = t.alerts
  <2> HIDE DEF first, t
  <2> QED
    BY <1>1, <1>3, <1>4 DEF TrackType
<1>6. y = SetTrack(s, t2)
  BY DEF SetTrack
<1>7. x = IF found THEN y ELSE Alert(y, "limit not found")
  <2> DEFINE z == [s EXCEPT !.track.head = first, !.track.nfree =
                        Min({conf.maxFree, @ + first - t.head})]
  <2>1. z = y
    <3> HIDE DEF first
    <3>1. s = [s EXCEPT !.track = s.track]
      BY <1>1 DEF StateType
    <3> QED
      BY <1>1 DEF free, TrackType, StateType
  <2>2. x = IF found THEN z ELSE Alert(z, "limit not found")
    BY DEF FreeTo, off
  <2> HIDE DEF z, y, found
  <2> QED
    BY <2>1, <2>2
<1> HIDE DEF t2, y
<1>8. /\ y \in StateType /\ y.track = t2 /\ y.up = s.up
      /\ y.queue = s.queue /\ y.rc = s.rc /\ y.n = s.n
  BY <1>1, <1>5, <1>6, TrackFields
<1>9. Mild(s, y)
  <2>1. SameCause(t, t2)
    BY <1>5 DEF SameCause
  <2>2. t2.tail \in {t.tail, -1} /\ t.alerts \subseteq t2.alerts
    BY <1>5
  <2> HIDE DEF t
  <2> QED
    BY <1>1, <1>5, <1>8, <2>1, <2>2, MildTrack DEF t
<1> HIDE DEF first
<1>10. CASE found
  <2>1. x = y /\ first = NodeOf(off)
    BY <1>7, <1>10 DEF first
  <2> HIDE DEF found
  <2> QED
    BY <1>3, <1>5, <1>8, <1>9, <2>1 DEF Released, off
<1>11. CASE ~found
  <2>1. x = Alert(y, "limit not found") /\ "limit not found" \in AlertNames
    BY <1>7, <1>11 DEF AlertNames
  <2>2. /\ Mild(y, x) /\ x.track.alerts # {}
        /\ x.track.cause = y.track.cause
    BY ONLY <1>8, <2>1, AlertKeeps
  <2>3. /\ SameLog(y.track, x.track)
        /\ x.up = y.up /\ x.queue = y.queue /\ x.rc = y.rc /\ x.n = y.n
    BY ONLY <1>8, <2>1, AlertFields
  <2>4. Mild(s, x)
    BY <1>9, <2>2, MildTwice
  <2>5. /\ x.track.state = t.state /\ x.track.tail = t.tail
        /\ x.track.appended = t.appended /\ x.track.head = first
        /\ x.track.cause = t.cause
    BY <1>5, <1>8, <2>2, <2>3 DEF SameLog
  <2> HIDE DEF found
  <2> QED
    BY <1>3, <1>8, <2>2, <2>3, <2>4, <2>5 DEF Released
<1> QED
  BY <1>10, <1>11

\* u is the only upstream of an active track, and nothing went wrong.
Alone(s, u) ==
    /\ s.queue = <<u>> /\ Clean(s, u) /\ FrameEnds(s.track)
    /\ s.track.state = "active"

\* What a turn of the watermark makes less: packets to ack, and connections
Pot(s, u) ==
    Len(s.track.pkts) - s.up[u].acked + (IF s.up[u].conn = "up" THEN 1 ELSE 0)

\* A turn leaves x and l: it is the last one, or there is less to do.
Lowered(s, x, u, l) ==
    /\ l < 0 /\ x.rc # "error" => Spared(x, u)
    /\ l >= 0 => Alone(x, u) /\ Pot(x, u) < Pot(s, u)

\* What is known of an upstream that is alone
LEMMA AloneParts ==
    ASSUME NEW s, Sound(conf, s), NEW u, Alone(s, u)
    PROVE  /\ u \in ToSet(s.queue) /\ ToSet(s.queue) = {u}
           /\ u \in Upstreams /\ s.queue # << >>
           /\ Len(s.queue) = 1 /\ s.queue[1] = u
           /\ Fits(s.track) /\ s.track.tail # -1
           /\ s.track.lastFrame <= s.track.written
           /\ conf \in Confs
<1>1. s.queue = <<u>> /\ FrameEnds(s.track)
  BY DEF Alone
<1>2. ToSet(s.queue) = {u}
  <2> DEFINE q == s.queue
  <2>1. q = <<u>>
    BY <1>1
  <2> HIDE DEF q
  <2>2. DOMAIN q = {1} /\ q[1] = u
    BY <2>1
  <2>3. ToSet(q) = {q[i] : i \in DOMAIN q}
    BY DEF ToSet
  <2>4. ToSet(q) = {u}
    BY <2>2, <2>3
  <2> QED
    BY <2>4 DEF q
<1>3. u \in Upstreams
  <2>1. ToSet(s.queue) \subseteq Upstreams
    BY StateParts DEF Sound
  <2> QED
    BY <1>2, <2>1
<1>4. s.queue # << >> /\ Len(s.queue) = 1 /\ s.queue[1] = u
  BY <1>1
<1>5. s.track.tail # -1 /\ Fits(s.track)
  BY <1>4 DEF Sound, MemoryOK
<1> QED
  BY <1>1, <1>2, <1>3, <1>4, <1>5 DEF FrameEnds, Sound

\* No buffer is missing to the low watermark.
LEMMA NoneMissing ==
    ASSUME NEW s, Sound(conf, s), NEW u, Alone(s, u),
           (conf.lowMark - MemLeft(s.track)) * BufSize <= 0
    PROVE  Spared(s, u)
<1> DEFINE j == conf.lowMark - MemLeft(s.track)
<1>1. /\ s.track \in TrackType /\ Fits(s.track) /\ conf \in Confs
      /\ s.track.lastFrame <= s.track.written
      /\ s.up[u].acked \in 0 .. Len(s.track.pkts)
  BY AloneParts, ReaderEnd
<1>2. /\ MemLeft(s.track) \in Int /\ j \in Int
      /\ BufSize \in Nat /\ BufSize > 0 /\ conf.lowMark \in Nat
      /\ conf.highMark \in Nat /\ conf.highMark <= conf.lowMark
  <2>1. /\ s.track.head \in Nat /\ s.track.tail \in Int
        /\ s.track.nfree \in Nat
    BY <1>1 DEF TrackType
  <2>2. MemLeft(s.track) = conf.memLimit
                    - (s.track.tail - s.track.head + 1) - s.track.nfree
    BY DEF MemLeft, Nodes
  <2> DEFINE a == s.track.head
             b == s.track.tail
             c == s.track.nfree
             m == MemLeft(s.track)
  <2> HIDE DEF a, b, c, m
  <2>3. m \in Int
    BY <1>1, <2>1, <2>2, ConfNumbers DEF a, b, c, m
  <2> QED
    BY <1>1, <2>3, ConfNumbers DEF m
<1>3. j <= 0
  <2>1. j * BufSize <= 0
    OBVIOUS
  <2> HIDE DEF j
  <2>2. SUFFICES ASSUME j >= 1 PROVE FALSE
    BY <1>2
  <2>3. 1 * BufSize <= j * BufSize
    BY <1>2, <2>2, TimesOrder
  <2> QED
    BY <1>2, <2>1, <2>3
<1>4. MemLeft(s.track) >= conf.highMark
  <2> DEFINE a == conf.lowMark
             m == MemLeft(s.track)
             w == conf.highMark
  <2>1. a - m <= 0 /\ a \in Nat /\ m \in Int /\ w \in Nat /\ w <= a
    BY <1>2, <1>3
  <2> HIDE DEF a, m, w
  <2>2. m >= w
    BY <2>1
  <2> QED
    BY <2>2 DEF m, w
<1> QED
  BY <1>1, <1>4, RoomAhead DEF Spared

\* The same log is as far ahead.
LEMMA AlikeAhead ==
    ASSUME NEW t, NEW t2, Alike(t, t2), NEW k, Ahead(t, k)
    PROVE  Ahead(t2, k)
<1>1. End(t2, k) = End(t, k) /\ t2.head = t.head
      /\ t2.lastFrame = t.lastFrame
  BY DEF Alike, End
<1>2. From(t2, k) = From(t, k)
  BY <1>1 DEF From
<1> QED
  BY <1>1, <1>2 DEF Ahead

\* No packet was counted.
LEMMA TurnedSpared ==
    ASSUME NEW s, Sound(conf, s), NEW u, Alone(s, u), NEW x,
           NEW left, left = (conf.lowMark - MemLeft(s.track)) * BufSize,
           Turned(s, x, u, left), x.n = 0
    PROVE  Spared(x, u)
<1> DEFINE k == s.up[u].acked
           m == x.up[u].acked
           t == s.track
<1>1. /\ t \in TrackType /\ Fits(t) /\ conf \in Confs
      /\ t.lastFrame <= t.written
      /\ k \in 0 .. Len(t.pkts) /\ k \in Nat /\ Len(t.pkts) \in Nat
  BY AloneParts, ReaderEnd
<1>2. m \in k .. Len(t.pkts) /\ Alike(t, x.track)
  BY DEF Turned
<1>3. m \in 0 .. Len(t.pkts)
  BY <1>1, <1>2
<1>4. \/ EnoughAcked(s, x, u, left)
      \/ FrameAcked(s, x, u)
      \/ Stuck(x, u)
  BY DEF Turned
<1>5. CASE EnoughAcked(s, x, u, left)
  <2>1. /\ NodeOf(End(t, k)) \in t.head .. t.tail
        /\ End(t, m) - End(t, k) >= (conf.lowMark - MemLeft(t)) * BufSize
    BY <1>5 DEF EnoughAcked, Readable
  <2>2. t.head <= NodeOf(End(t, k))
    BY <1>1, <2>1 DEF TrackType
  <2> HIDE DEF t, k, m
  <2>3. Ahead(t, m)
    BY <1>1, <1>3, <2>1, <2>2, EnoughAhead
  <2> QED
    BY <1>2, <2>3, AlikeAhead DEF Spared, m
<1>6. CASE FrameAcked(s, x, u)
  <2>1. t.lastFrame <= End(t, m)
    BY <1>6 DEF FrameAcked
  <2> HIDE DEF t, m
  <2>2. Ahead(t, m)
    BY <1>1, <1>3, <2>1, FrameAhead
  <2> QED
    BY <1>2, <2>2, AlikeAhead DEF Spared, m
<1>7. CASE Stuck(x, u)
  BY <1>7 DEF Spared
<1> QED
  BY <1>4, <1>5, <1>6, <1>7

\* Packets were counted, and buffers released.
LEMMA TurnedAlone ==
    ASSUME NEW s, Sound(conf, s), NEW u, Alone(s, u), NEW a, Mild(s, a),
           NEW left, Turned(s, a, u, left), a.n # 0,
           NEW x, NEW off, Released(a, x, off), x.track.alerts = {}
    PROVE  Alone(x, u) /\ Pot(x, u) < Pot(s, u)
<1>1. Mild(s, x) /\ x \in StateType
  BY MildTwice DEF Released, Mild
<1>2. x.up = a.up /\ x.queue = a.queue /\ x.track.state = a.track.state
  BY DEF Released
<1>3. /\ a.queue = s.queue /\ a.track.state = s.track.state
      /\ ~a.up[u].eos /\ a.up[u].acked \in s.up[u].acked .. Len(s.track.pkts)
  BY DEF Turned, Alike
<1>4. x.track.pkts = s.track.pkts
  BY <1>1 DEF Mild
<1>5. FrameEnds(x.track)
  <2>1. x.track.lastFrame = s.track.lastFrame
        /\ x.track.written = s.track.written
    BY <1>1 DEF Mild
  <2> QED
    BY <1>4, <2>1 DEF Alone, Clean, FrameEnds, End
<1>6. s.up[u].acked \in Nat /\ Len(s.track.pkts) \in Nat
  BY AloneParts, ReaderEnd
<1>7. Alone(x, u)
  BY <1>2, <1>3, <1>4, <1>5, <1>6 DEF Alone, Clean, HasEos
<1>8. Pot(x, u) < Pot(s, u)
  <2> DEFINE n == Len(s.track.pkts)
             k == s.up[u].acked
             m == a.up[u].acked
             c == s.up[u].conn = "up"
             d == a.up[u].conn = "up"
  <2>1. /\ Pot(x, u) = n - m + (IF d THEN 1 ELSE 0)
        /\ Pot(s, u) = n - k + (IF c THEN 1 ELSE 0)
    BY <1>2, <1>4 DEF Pot
  <2>2. /\ d => c
        /\ m > k \/ (c /\ ~d)
    BY DEF Turned
  <2>3. n \in Nat /\ k \in Nat /\ m \in k .. n
    BY <1>3, <1>6
  <2> HIDE DEF n, k, m, c, d
  <2>4. n - m + (IF d THEN 1 ELSE 0) < n - k + (IF c THEN 1 ELSE 0)
    BY <2>2, <2>3
  <2> QED
    BY <2>1, <2>4
<1> QED
  BY <1>7, <1>8

\* What a turn of the watermark leaves
LEMMA WatermarkTurnMild ==
    ASSUME NEW s, Good(conf, s), ~Calm(conf), NEW left \in Nat,
           NEW p \in WatermarkTurn(s, left)
    PROVE  \E x \in StateType : \E l \in Int :
                /\ p = <<x, l>> /\ Good(conf, x) /\ Steps(s, x, 0)
                /\ Mild(s, x)
                /\ \A u : Alone(s, u) /\ x.track.alerts = {}
                            => Lowered(s, x, u, l)
<1> DEFINE m == MinAcked(s)
           missing == (conf.lowMark - MemLeft(s.track)) * BufSize
           z == [s EXCEPT !.n = 0]
<1>1. /\ s \in StateType /\ conf \in Confs /\ s.faults <= conf.maxFaults
      /\ s.track \in TrackType /\ UpsOK(s.track, s.up, s.queue)
      /\ Sound(conf, s)
  BY StateParts DEF Sound, Good
<1>2. CASE missing <= 0 \/ s.queue = << >>
  <2>1. p = <<s, -1>>
    BY <1>2 DEF WatermarkTurn
  <2>2. ASSUME NEW u, Alone(s, u) PROVE Lowered(s, s, u, -1)
    <3>1. missing <= 0
      BY <1>1, <1>2, <2>2, AloneParts
    <3>2. Spared(s, u)
      BY <1>1, <2>2, <3>1, NoneMissing
    <3> QED
      BY <3>2 DEF Lowered
  <2> QED
    BY <1>1, <2>1, <2>2, StepsNothing, MildNothing
<1>3. CASE ~(missing <= 0 \/ s.queue = << >>)
  <2>1. PICK a \in AutoAckForce(z, m, missing) :
            p = IF a.rc = "error" \/ a.n = 0 THEN <<a, -1>>
                ELSE <<FreeTo(a, MinReader(a)), left>>
    BY <1>3 DEF WatermarkTurn
  <2>2. /\ z \in StateType /\ z.track = s.track /\ z.up = s.up
        /\ z.queue = s.queue /\ z.faults = s.faults /\ z.n = 0
    BY <1>1, CountFields
  <2>3. missing \in Int /\ missing > 0
    <3>1. /\ s.track.head \in Nat /\ s.track.tail \in Int
          /\ s.track.nfree \in Nat
      BY <1>1 DEF TrackType
    <3>2. MemLeft(s.track) \in Int
      BY <1>1, <3>1, ConfNumbers DEF MemLeft, Nodes
    <3>3. missing \in Int
      <4> DEFINE j == conf.lowMark - MemLeft(s.track)
      <4>1. j \in Int /\ BufSize \in Nat
        BY <1>1, <3>2, ConfNumbers
      <4> HIDE DEF j
      <4>2. j * BufSize \in Int
        BY <4>1
      <4> QED
        BY <4>2 DEF j
    <3> HIDE DEF missing
    <3> QED
      BY <1>3, <3>3
  <2> HIDE DEF z
  <2>4. Good(conf, z) /\ Sound(conf, z)
    BY <1>1, <2>2, GoodSame DEF Good
  <2>5. m \in ToSet(z.queue)
    <3>1. \A v \in ToSet(s.queue) : s.up[v].acked <= Len(s.track.pkts)
      BY <1>1 DEF UpsOK, UpOK
    <3> QED
      BY <1>1, <1>3, <2>2, <3>1, MinAckedLeast
  <2> HIDE DEF m
  <2>6. Good(conf, a) /\ Steps(z, a, 0)
    BY <2>1, <2>4, <2>5, AutoAckForceGood
  <2>7. a \in StateType /\ Steps(s, a, 0)
    BY <2>2, <2>6 DEF Good, Sound, Steps
  <2>8. /\ Mild(z, a)
        /\ Ready(z, m) /\ a.track.alerts = {} /\ a.rc # "error"
                => Turned(z, a, m, missing)
    <3> HIDE DEF missing
    <3> QED
      BY <2>1, <2>3, <2>4, <2>5, AutoAckForceTurned
  <2>9. Mild(s, a)
    BY <2>2, <2>8 DEF Mild, PastEos
  <2>10. \A u : Alone(s, u) => m = u /\ Ready(z, u) /\ Alone(z, u)
    <3> SUFFICES ASSUME NEW u, Alone(s, u)
                 PROVE  m = u /\ Ready(z, u) /\ Alone(z, u)
      OBVIOUS
    <3>1. m = u
      BY <1>1, <2>2, <2>5, AloneParts
    <3> QED
      BY <2>2, <3>1 DEF Ready, Alone, Clean
  <2>11. missing = (conf.lowMark - MemLeft(z.track)) * BufSize
    BY <2>2
  <2> HIDE DEF missing
  <2>12. CASE a.rc = "error" \/ a.n = 0
    <3>1. p = <<a, -1>>
      BY <2>1, <2>12
    <3>2. ASSUME NEW u, Alone(s, u), a.track.alerts = {}
          PROVE Lowered(s, a, u, -1)
      <4>1. ASSUME a.rc # "error" PROVE Spared(a, u)
        <5>1. Turned(z, a, u, missing) /\ a.n = 0 /\ Alone(z, u)
          BY <2>8, <2>10, <2>12, <3>2, <4>1
        <5> QED
          BY <2>4, <2>11, <5>1, TurnedSpared
      <4> QED
        BY <4>1 DEF Lowered
    <3> QED
      BY <2>6, <2>7, <2>9, <3>1, <3>2
  <2>13. CASE ~(a.rc = "error" \/ a.n = 0)
    <3> DEFINE y == FreeTo(a, MinReader(a))
    <3>1. a.queue # << >>
      BY <1>3, <2>7 DEF Steps
    <3>2. Good(conf, y) /\ Steps(a, y, 0)
      BY <2>6, <3>1, FreeToGood
    <3>3. p = <<y, left>>
      BY <2>1, <2>13
    <3>4. Released(a, y, MinReader(a))
      BY <2>6, <3>1, FreeToReleased
    <3> HIDE DEF y
    <3>5. y \in StateType
      BY <3>2 DEF Good, Sound
    <3>6. Steps(s, y, 0)
      BY <1>1, <2>7, <3>2, <3>5, StepsZero
    <3>7. Mild(s, y)
      BY <2>9, <3>4, MildTwice DEF Released
    <3>8. ASSUME NEW u, Alone(s, u), y.track.alerts = {}
          PROVE Lowered(s, y, u, left)
      <4>1. a.track.alerts = {}
        BY <3>4, <3>8 DEF Released
      <4>2. Turned(z, a, u, missing) /\ a.n # 0 /\ Alone(z, u)
        BY <2>8, <2>10, <2>13, <3>8, <4>1
      <4>3. Alone(y, u) /\ Pot(y, u) < Pot(z, u)
        BY <2>4, <2>8, <3>4, <3>8, <4>2, TurnedAlone
      <4>4. Pot(z, u) = Pot(s, u)
        BY <2>2 DEF Pot
      <4> QED
        BY <4>3, <4>4 DEF Lowered
    <3> QED
      BY <3>2, <3>3, <3>5, <3>6, <3>7, <3>8
  <2> QED
    BY <2>12, <2>13
<1> QED
  BY <1>2, <1>3

\* After i turns the watermark leaves y and l.
Watering(s, i, y, l) ==
    /\ Good(conf, y) /\ Steps(s, y, 0) /\ Mild(s, y)
    /\ \A u : Alone(s, u) /\ y.track.alerts = {} =>
            /\ l < 0 /\ y.rc # "error" => Spared(y, u)
            /\ l >= 0 => Alone(y, u) /\ Pot(y, u) + i <= Pot(s, u)

\* The potential is a number.
LEMMA PotNumber ==
    ASSUME NEW s, Sound(conf, s), NEW u, Alone(s, u)
    PROVE  Pot(s, u) \in Nat /\ Pot(s, u) <= Len(s.track.pkts) + 1
<1>1. s.up[u].acked \in 0 .. Len(s.track.pkts) /\ Len(s.track.pkts) \in Nat
  BY AloneParts, ReaderEnd
<1> QED
  BY <1>1 DEF Pot

\* One more turn
LEMMA WateringTurn ==
    ASSUME NEW s \in StateType, NEW i \in Nat, NEW y, NEW l \in Nat,
           ~Calm(conf), Watering(s, i, y, l), NEW p \in WatermarkTurn(y, l)
    PROVE  \E x \in StateType : \E k \in Int :
                p = <<x, k>> /\ Watering(s, i + 1, x, k)
<1>1. Good(conf, y) /\ Steps(s, y, 0) /\ Mild(s, y) /\ y \in StateType
  BY DEF Watering, Mild
<1>2. PICK x \in StateType, k \in Int :
                /\ p = <<x, k>> /\ Good(conf, x) /\ Steps(y, x, 0)
                /\ Mild(y, x)
                /\ \A u : Alone(y, u) /\ x.track.alerts = {}
                            => Lowered(y, x, u, k)
  BY <1>1, WatermarkTurnMild
<1>3. Steps(s, x, 0) /\ Mild(s, x)
  BY <1>1, <1>2, StepsZero, MildTwice
<1>4. ASSUME NEW u, Alone(s, u), x.track.alerts = {}
      PROVE  /\ k < 0 /\ x.rc # "error" => Spared(x, u)
             /\ k >= 0 => Alone(x, u) /\ Pot(x, u) + (i + 1) <= Pot(s, u)
  <2>1. y.track.alerts = {}
    BY <1>2, <1>4 DEF Mild
  <2>2. Alone(y, u) /\ Pot(y, u) + i <= Pot(s, u)
    BY <1>4, <2>1 DEF Watering
  <2>3. Lowered(y, x, u, k)
    BY <1>2, <1>4, <2>2
  <2>4. ASSUME k >= 0 PROVE Alone(x, u) /\ Pot(x, u) + (i + 1) <= Pot(s, u)
    <3>1. Alone(x, u) /\ Pot(x, u) < Pot(y, u)
      BY <2>3, <2>4 DEF Lowered
    <3>2. Pot(x, u) \in Nat /\ Pot(y, u) \in Nat
      BY <1>1, <1>2, <2>2, <3>1, PotNumber DEF Good
    <3>3. Pot(s, u) \in Int
      <4>1. s.up[u].acked \in Nat /\ Len(s.track.pkts) \in Nat
        <5>1. Pot(y, u) = Len(y.track.pkts) - y.up[u].acked
                            + (IF y.up[u].conn = "up" THEN 1 ELSE 0)
          BY DEF Pot
        <5>2. u \in Upstreams
          BY <1>1, <2>2, AloneParts DEF Good
        <5> QED
          BY <5>2, StateParts, LogNumbers DEF UpType
      <4> QED
        BY <4>1 DEF Pot
    <3> QED
      BY <2>2, <3>1, <3>2, <3>3
  <2> QED
    BY <2>3, <2>4 DEF Lowered
<1>5. Watering(s, i + 1, x, k)
  BY <1>2, <1>3, <1>4 DEF Watering
<1> QED
  BY <1>2, <1>5

\* The watermark spares a track with one upstream, or fails.
LEMMA MemWatermarkMild ==
    ASSUME NEW s, Good(conf, s), ~Calm(conf), NEW x \in MemWatermark(s)
    PROVE  /\ Mild(s, x)
           /\ \A u : Alone(s, u) /\ x.track.alerts = {} /\ x.rc # "error"
                        => Spared(x, u)
<1> DEFINE N == (Len(s.track.pkts) + 1) * Len(s.queue) + 1
           A == {<<s, 0>>}
           P == StateType \X Int
           G(i) == {p \in P : Watering(s, i, p[1], p[2])}
           After(X) == UNION {IF p[2] < 0 THEN {p}
                              ELSE WatermarkTurn(p[1], p[2]) : p \in X}
<1>1. /\ s \in StateType /\ s.track \in TrackType
      /\ s.queue \in Seq(Upstreams) /\ Sound(conf, s)
  BY StateParts DEF Sound, Good
<1>2. N \in Nat
  <2>1. Len(s.track.pkts) \in Nat /\ Len(s.queue) \in Nat
    BY <1>1, LogNumbers
  <2> DEFINE a == Len(s.track.pkts)
             b == Len(s.queue)
  <2> HIDE DEF a, b
  <2>2. a \in Nat /\ b \in Nat
    BY <2>1 DEF a, b
  <2>3. (a + 1) * b + 1 \in Nat
    BY <2>2
  <2> QED
    BY <2>3 DEF a, b
<1>3. A \in SUBSET G(0)
  <2>1. Watering(s, 0, s, 0)
    <3>1. ASSUME NEW u, Alone(s, u) PROVE Pot(s, u) + 0 <= Pot(s, u)
      BY <1>1, <3>1, PotNumber
    <3> QED
      BY <1>1, <3>1, StepsNothing, MildNothing DEF Watering
  <2>2. <<s, 0>> \in P
    BY <1>1
  <2>3. <<s, 0>> \in G(0)
    BY <2>1, <2>2
  <2> HIDE DEF G
  <2> QED
    BY <2>3
<1>4. ASSUME NEW i \in 1 .. N, NEW X \in SUBSET G(i - 1)
      PROVE  After(X) \in SUBSET G(i)
  <2> SUFFICES ASSUME NEW p \in X,
                      NEW r \in IF p[2] < 0 THEN {p}
                                ELSE WatermarkTurn(p[1], p[2])
               PROVE  r \in G(i)
    <3> HIDE DEF G
    <3> QED
      OBVIOUS
  <2>1. p \in P /\ Watering(s, i - 1, p[1], p[2])
    OBVIOUS
  <2>2. p[2] \in Int /\ p = <<p[1], p[2]>> /\ i - 1 \in Nat
    BY <2>1
  <2>3. CASE p[2] < 0
    <3>1. Watering(s, i, p[1], p[2])
      BY <2>1, <2>2, <2>3 DEF Watering
    <3> QED
      BY <2>1, <2>3, <3>1
  <2>4. CASE ~(p[2] < 0)
    <3>1. /\ p[2] \in Nat /\ r \in WatermarkTurn(p[1], p[2])
          /\ i = i - 1 + 1
      BY <2>2, <2>4
    <3>2. PICK z \in StateType, k \in Int :
                r = <<z, k>> /\ Watering(s, i - 1 + 1, z, k)
      BY <1>1, <2>1, <2>2, <3>1, WateringTurn
    <3> QED
      BY <3>1, <3>2
  <2> QED
    BY <2>3, <2>4
<1> DEFINE T == [i \in 0 .. N |-> SUBSET G(i)]
           g == [i \in 1 .. N |-> [X \in SUBSET P |-> After(X)]]
           IsRun(f) == f = [i \in 0 .. N |-> IF i = 0 THEN A
                                             ELSE After(f[i - 1])]
           c == CHOOSE f : IsRun(f)
<1>5. \A i : SUBSET G(i) \subseteq SUBSET P
  OBVIOUS
<1> HIDE DEF N, A, G, After
<1>6. \E f : IsRun(f)
  <2>1. \A i \in 1 .. N : i - 1 \in 0 .. N /\ i \in 0 .. N
    BY <1>2
  <2>2. A \in T[0]
    BY <1>2, <1>3
  <2>3. Leads(g, T, N)
    <3> SUFFICES ASSUME NEW i \in 1 .. N, NEW X \in T[i - 1]
                 PROVE  g[i][X] \in T[i]
      BY DEF Leads
    <3>1. X \in SUBSET G(i - 1)
      BY <2>1
    <3>2. X \in SUBSET P
      BY <1>5, <3>1
    <3>3. g[i][X] = After(X)
      BY <3>2
    <3>4. After(X) \in SUBSET G(i)
      BY <1>4, <3>1
    <3> QED
      BY <2>1, <3>3, <3>4
  <2>4. PICK f : RunOf(f, g, T, A, N)
    <3> HIDE DEF T, g
    <3> QED
      BY <1>2, <2>2, <2>3, RunExists
  <2>5. /\ f = [i \in 0 .. N |-> f[i]]
        /\ f[0] = A
        /\ \A i \in 1 .. N : f[i - 1] \in T[i - 1] /\ f[i] = g[i][f[i - 1]]
    BY <2>4 DEF RunOf
  <2>6. ASSUME NEW i \in 0 .. N
        PROVE  f[i] = IF i = 0 THEN A ELSE After(f[i - 1])
    <3>1. CASE i = 0
      BY <2>5, <3>1
    <3>2. CASE i # 0
      <4>1. i \in 1 .. N
        BY <1>2, <3>2
      <4>2. f[i - 1] \in T[i - 1] /\ f[i] = g[i][f[i - 1]]
        BY <2>5, <4>1
      <4>3. f[i - 1] \in SUBSET P
        BY <1>5, <2>1, <4>1, <4>2
      <4>4. f[i] = After(f[i - 1])
        BY <4>1, <4>2, <4>3
      <4> QED
        BY <3>2, <4>4
    <3> QED
      BY <3>1, <3>2
  <2> QED
    BY <2>5, <2>6
<1>7. IsRun(c)
  <2> HIDE DEF IsRun
  <2> QED
    BY <1>6
<1>8. MemWatermark(s) = {p[1] : p \in c[N]}
  BY DEF MemWatermark, Loop, After, N, A
<1> HIDE DEF c
<1>9. c[N] \in SUBSET G(N)
  <2>1. c[0] = A
    BY <1>2, <1>7
  <2>2. ASSUME NEW i \in 1 .. N, c[i - 1] \in SUBSET G(i - 1)
        PROVE  c[i] \in SUBSET G(i)
    <3>1. i \in 0 .. N /\ i # 0
      BY <1>2
    <3>2. c[i] = After(c[i - 1])
      BY <1>7, <3>1
    <3> QED
      BY <1>4, <2>2, <3>2
  <2>3. c[0] \in T[0]
    BY <1>2, <1>3, <2>1
  <2>4. \A i \in 1 .. N : c[i - 1] \in T[i - 1] => c[i] \in T[i]
    <3> SUFFICES ASSUME NEW i \in 1 .. N, c[i - 1] \in T[i - 1]
                 PROVE  c[i] \in T[i]
      OBVIOUS
    <3>1. i \in 0 .. N /\ i - 1 \in 0 .. N
      BY <1>2
    <3> QED
      BY <2>2, <3>1
  <2>5. c[N] \in T[N]
    <3> HIDE DEF T
    <3> QED
      BY <1>2, <2>3, <2>4, RunStays
  <2> QED
    BY <1>2, <2>5
<1>10. PICK p \in c[N] : x = p[1]
  BY <1>8
<1>11. p[2] \in Int /\ Watering(s, N, x, p[2])
  BY <1>9, <1>10 DEF G
<1>12. ASSUME NEW u, Alone(s, u), x.track.alerts = {}, x.rc # "error"
       PROVE  Spared(x, u)
  <2>1. CASE p[2] < 0
    BY <1>11, <1>12, <2>1 DEF Watering
  <2>2. CASE ~(p[2] < 0)
    <3>1. Alone(x, u) /\ Pot(x, u) + N <= Pot(s, u) /\ Sound(conf, x)
      BY <1>11, <1>12, <2>2 DEF Watering, Good
    <3>2. /\ Pot(x, u) \in Nat /\ Pot(s, u) \in Nat
          /\ Pot(s, u) <= Len(s.track.pkts) + 1
      BY <1>1, <1>12, <3>1, PotNumber
    <3>3. N = Len(s.track.pkts) + 2
      <4>1. Len(s.queue) = 1 /\ Len(s.track.pkts) \in Nat
        BY <1>1, <1>12, AloneParts, LogNumbers
      <4> QED
        BY <4>1 DEF N
    <3>4. Len(s.track.pkts) \in Nat
      BY <1>1, LogNumbers
    <3> QED
      BY <3>1, <3>2, <3>3, <3>4
  <2> QED
    BY <2>1, <2>2
<1> QED
  BY <1>11, <1>12 DEF Watering

-----------------------------------------------------------------------------
(* Sending is mild *)

\* The flags of the track are others.
LEMMA FlagsMild ==
    ASSUME NEW s \in StateType, NEW x, Flags(s, x),
           x.track.lastFrame = s.track.lastFrame,
           SameCause(s.track, x.track)
    PROVE  Mild(s, x)
<1>1. /\ x \in StateType /\ x.up = s.up
      /\ x.track.pkts = s.track.pkts /\ x.track.written = s.track.written
      /\ x.track.tail = s.track.tail /\ x.track.alerts = s.track.alerts
  BY DEF Flags, SameLog
<1>2. x.track.tail \in {s.track.tail, -1}
      /\ s.track.alerts \subseteq x.track.alerts
  BY <1>1
<1> QED
  BY <1>1, <1>2, MildTrack

\* The first error is told apart.
LEMMA BlameMild ==
    ASSUME NEW s \in StateType, NEW u \in Upstreams, NEW x, x = Blame(s, u)
    PROVE  Mild(s, x)
<1> DEFINE c == IF conf.required[u] \/ Len(s.queue) = 1 THEN "other"
                ELSE "optional"
           t == [s.track EXCEPT !.cause = c]
<1>1. s.track \in TrackType
  BY StateParts
<1>2. x = s \/ (x = SetTrack(s, t) /\ s.track.cause = "none")
  BY DEF Blame, SetTrack
<1>3. c \in {"none", "memory", "optional", "other"} /\ c # "memory"
  OBVIOUS
<1> HIDE DEF c
<1>4. /\ t \in TrackType /\ SameLog(s.track, t)
      /\ t.alerts = s.track.alerts /\ t.lastFrame = s.track.lastFrame
      /\ t.cause = c
  BY <1>1, <1>3 DEF TrackType, SameLog
<1> HIDE DEF t
<1>5. CASE x = s
  BY <1>5, MildNothing
<1>6. CASE x = SetTrack(s, t) /\ s.track.cause = "none"
  <2>1. Flags(s, x)
    BY BlameFlags
  <2>2. x.track = t
    BY <1>4, <1>6, TrackFields
  <2>3. SameCause(s.track, t)
    BY <1>3, <1>4, <1>6 DEF SameCause
  <2> QED
    BY <1>4, <2>1, <2>2, <2>3, FlagsMild
<1> QED
  BY <1>2, <1>5, <1>6

\* Part of the chain is sent.
LEMMA SentMild ==
    ASSUME NEW s \in StateType, NEW u \in Upstreams, UpOK(s.track, s.up[u]),
           s.up[u].conn = "up",
           NEW n \in 0 .. (s.up[u].pre + s.track.appended - s.up[u].sent),
           NEW x, x = Sent(s, u, n)
    PROVE  Mild(s, x) /\ x.up[u].acked = s.up[u].acked
<1> DEFINE t == s.track
           z == s.up[u]
           all == z.pre + t.appended - z.sent
           sent == z.sent + Max({0, n - z.pre})
           pre == Max({0, z.pre - n})
           ready == z.ready /\ n = all
           wtimer == IF n = all THEN FALSE ELSE z.wtimer \/ n > 0
           z2 == [z EXCEPT !.pre = pre, !.sent = sent, !.ready = ready,
                           !.wtimer = wtimer]
           y == [s EXCEPT !.up[u] = z2]
<1>1. t \in TrackType /\ z \in UpType
  BY StateParts
<1>2. /\ z.pre \in Nat /\ z.sent \in Nat /\ t.appended \in Nat
      /\ z.sent <= t.appended
  BY <1>1 DEF UpType, TrackType, UpOK
<1>3. n \in Nat
  BY <1>2
<1>4. pre \in Nat /\ sent \in Nat
  <2>1. /\ Max({0, n - z.pre}) = IF n - z.pre > 0 THEN n - z.pre ELSE 0
        /\ Max({0, z.pre - n}) = IF z.pre - n > 0 THEN z.pre - n ELSE 0
    BY <1>2, <1>3, MaxZero
  <2> QED
    BY <1>2, <1>3, <2>1
<1>5. ready \in BOOLEAN /\ wtimer \in BOOLEAN
  BY <1>1 DEF UpType
<1>6. x = IF SendsOpen(t, sent) THEN Alert(y, "open header sent") ELSE y
  BY DEF Sent
<1>7. y = SetUp(s, u, z2)
  BY DEF SetUp
<1> HIDE DEF pre, sent, ready, wtimer, t, y
<1>8. z2 \in UpType /\ z2.acked = z.acked /\ z2.eos = z.eos
  BY <1>1, <1>4, <1>5 DEF UpType
<1> HIDE DEF z2
<1>9. y \in StateType /\ y.up[u] = z2
  BY <1>7, <1>8, UpFields
<1>10. Mild(s, y)
  BY <1>7, <1>8, MildUp
<1>11. CASE SendsOpen(t, sent)
  <2>1. x = Alert(y, "open header sent") /\ "open header sent" \in AlertNames
    BY <1>6, <1>11 DEF AlertNames
  <2>2. Mild(y, x) /\ x.up = y.up
    BY ONLY <1>9, <2>1, AlertKeeps, AlertFields
  <2> QED
    BY <1>8, <1>9, <1>10, <2>2, MildTwice
<1>12. CASE ~SendsOpen(t, sent)
  BY <1>6, <1>8, <1>9, <1>10, <1>12
<1> QED
  BY <1>11, <1>12

\* The chain is sent, and acked if that is what the configuration says.
LEMMA SendChainMild ==
    ASSUME NEW s, Sound(conf, s), NEW u \in ToSet(s.queue),
           NEW x \in SendChain(s, u)
    PROVE  Mild(s, x)
<1> DEFINE all == s.up[u].pre + s.track.appended - s.up[u].sent
<1>1. /\ s \in StateType /\ conf \in Confs /\ u \in Upstreams
      /\ s.up[u] \in UpType /\ UpOK(s.track, s.up[u])
  BY StateParts DEF Sound, UpsOK
<1>2. CASE x \in {s, Rc(s, "error")}
  BY <1>1, <1>2, MildNothing, MildRc
<1>3. ASSUME NEW f \in Fault(s),
             x = Rc([f EXCEPT !.up[u].broken = TRUE], "error")
      PROVE  Mild(s, x)
  <2>1. f \in StateType /\ f.track = s.track /\ f.up = s.up
    BY <1>1, <1>3, FaultFields
  <2> DEFINE z == [f.up[u] EXCEPT !.broken = TRUE]
             y == SetUp(f, u, z)
  <2>2. x = Rc(y, "error") /\ y = SetUp(f, u, z)
    BY <1>3 DEF SetUp
  <2>3. z \in UpType /\ z.eos = s.up[u].eos
    BY <1>1, <2>1 DEF UpType
  <2> HIDE DEF y, z
  <2>4. Mild(f, y)
    BY <1>1, <2>1, <2>2, <2>3, MildUp
  <2>5. Mild(s, y)
    BY <2>1, <2>4 DEF Mild, PastEos
  <2> QED
    BY <2>2, <2>5, MildRc
<1>4. ASSUME s.up[u].conn = "up", NEW n \in 0 .. all,
             x \in IF conf.resume[u] = "last_acked" THEN {Sent(s, u, n)}
                   ELSE AutoAck(Sent(s, u, n), u)
      PROVE  Mild(s, x)
  <2> DEFINE y == Sent(s, u, n)
  <2>1. Mild(s, y) /\ y.up[u].acked = s.up[u].acked
    BY <1>1, <1>4, SentMild
  <2>2. x = y \/ x \in AutoAck(y, u)
    BY <1>4
  <2> HIDE DEF y
  <2>3. ASSUME x \in AutoAck(y, u) PROVE Mild(s, x)
    <3>1. y \in StateType /\ y.up[u].acked <= Len(y.track.pkts)
      BY <1>1, <2>1 DEF Mild, UpOK
    <3>2. Mild(y, x)
      BY <1>1, <2>3, <3>1, AutoAckTame DEF Tame
    <3> QED
      BY <2>1, <3>2, MildTwice
  <2> QED
    BY <2>1, <2>2, <2>3
<1>5. s.up[u].conn = "up" => 0 \in 0 .. all
  <2>1. /\ s.up[u].pre \in Nat /\ s.track.appended \in Nat
        /\ s.up[u].sent \in Nat
    BY <1>1, StateParts DEF UpType, TrackType
  <2>2. s.up[u].conn = "up" => s.up[u].sent <= s.track.appended
    BY <1>1 DEF UpOK
  <2> QED
    BY <2>1, <2>2
<1> QED
  <2> HIDE DEF all
  <2>1. s.up[u].conn = "up" =>
          \A n \in IF s.up[u].ready THEN 0 .. all ELSE {0} : n \in 0 .. all
    BY <1>5
  <2>2. \/ x \in {s, Rc(s, "error")}
        \/ \E f \in Fault(s) :
                x = Rc([f EXCEPT !.up[u].broken = TRUE], "error")
        \/ /\ s.up[u].conn = "up"
           /\ \E n \in IF s.up[u].ready THEN 0 .. all ELSE {0} :
                x \in IF conf.resume[u] = "last_acked" THEN {Sent(s, u, n)}
                      ELSE AutoAck(Sent(s, u, n), u)
    <3>1. CASE s.up[u].conn # "up" \/ s.up[u].broken
      BY <3>1 DEF SendChain
    <3>2. CASE s.up[u].conn = "up" /\ ~s.up[u].broken
      BY <3>2 DEF SendChain, all
    <3> QED
      BY <3>1, <3>2
  <2> QED
    BY <1>2, <1>3, <1>4, <2>1, <2>2

\* A connection that breaks is replaced.
LEMMA SendMild ==
    ASSUME NEW s, Good(conf, s), NEW u \in ToSet(s.queue),
           MaySend(s.track), NEW x \in Send(s, u)
    PROVE  Mild(s, x)
<1>1. PICK y \in SendChain(s, u) :
        x \in IF y.rc # "error" THEN {y}
              ELSE {IF z.rc = "ok" THEN z ELSE Rc(Blame(z, u), "error")
                    : z \in Republish(Rc(y, "ok"), u)}
  BY DEF Send
<1>2. Good(conf, y) /\ Touches(s, y, u) /\ Mild(s, y)
  BY SendChainGood, SendChainMild DEF Good
<1>3. /\ s \in StateType /\ y \in StateType /\ u \in Upstreams
      /\ y.faults <= conf.maxFaults
  BY <1>2, StateParts DEF Good, Sound
<1>4. CASE y.rc # "error"
  BY <1>1, <1>2, <1>4
<1>5. CASE y.rc = "error"
  <2> DEFINE r == Rc(y, "ok")
  <2>1. PICK z \in Republish(r, u) :
            x = IF z.rc = "ok" THEN z ELSE Rc(Blame(z, u), "error")
    BY <1>1, <1>5
  <2>2. /\ r \in StateType /\ r.track = y.track /\ r.up = y.up
        /\ r.queue = y.queue /\ r.faults = y.faults
    BY <1>3, RcFields
  <2>3. Mild(s, r)
    BY <1>2, MildRc
  <2> HIDE DEF r
  <2>4. Sound(conf, r) /\ u \in ToSet(r.queue)
    BY <1>2, <1>3, <2>2, GoodSame DEF Good, Touches
  <2>5. Mild(r, z)
    BY <2>1, <2>4, RepublishTame DEF Tame
  <2>6. Mild(s, z) /\ z \in StateType
    BY <2>3, <2>5, MildTwice DEF Mild
  <2>7. CASE z.rc = "ok"
    BY <2>1, <2>6, <2>7
  <2>8. CASE z.rc # "ok"
    <3> DEFINE b == Blame(z, u)
    <3>1. Mild(z, b)
      BY <1>3, <2>6, BlameMild
    <3>2. x = Rc(b, "error")
      BY <2>1, <2>8
    <3> HIDE DEF b
    <3>3. Mild(s, b)
      BY <2>6, <3>1, MildTwice
    <3> QED
      BY <3>2, <3>3, MildRc
  <2> QED
    BY <2>7, <2>8
<1> QED
  BY <1>4, <1>5

\* An upstream without a connection gets one, or that fails.
LEMMA AppendBufferTame ==
    ASSUME NEW s, Sound(conf, s), NEW u \in ToSet(s.queue),
           NEW x \in AppendBuffer(s, u)
    PROVE  /\ Mild(s, x) /\ (x.rc # "error" => Tame(s, x, u))
           /\ s.up[u].conn = "up" => x = s
<1>1. /\ s \in StateType /\ conf \in Confs /\ u \in Upstreams
      /\ s.up[u].acked <= Len(s.track.pkts)
  BY StateParts DEF Sound, UpsOK, UpOK
<1>2. CASE s.up[u].conn = "up"
  <2>1. x = s
    BY <1>2 DEF AppendBuffer
  <2> QED
    BY <1>1, <2>1, TameNothing DEF Tame
<1>3. CASE s.up[u].conn # "up"
  <2> DEFINE S == IF conf.resume[u] = "last_written" THEN AutoAck(s, u)
                  ELSE {s}
             F(y) == IF y.up[u].conn = "none" /\ ~y.up[u].call
                        /\ ~y.up[u].timer
                     THEN RepublishSend(y, u) ELSE {y}
  <2>1. PICK z \in Then(S, F) : x = IF z.rc = "error" THEN Blame(z, u) ELSE z
    BY <1>3 DEF AppendBuffer
  <2>2. PICK y \in S : z \in IF y.rc = "error" THEN {y} ELSE F(y)
    BY <2>1 DEF Then
  <2> HIDE DEF F
  <2>3. Tame(s, y, u)
    BY <1>1, <2>2, AutoAckTame, TameNothing
  <2>4. y \in StateType
    BY <2>3 DEF Tame, Mild
  <2>5. Tame(s, z, u)
    <3>1. CASE z = y
      BY <2>3, <3>1
    <3>2. CASE z \in RepublishSend(y, u)
      <4>1. Tame(y, z, u)
        BY <1>1, <2>4, <3>2, RepublishSendTame
      <4> QED
        BY <1>1, <2>3, <4>1, TameTwice
    <3> QED
      BY <2>2, <3>1, <3>2 DEF F
  <2>6. Mild(s, z) /\ z \in StateType
    BY <2>5 DEF Tame, Mild
  <2>7. CASE z.rc = "error"
    <3> DEFINE b == Blame(z, u)
    <3>1. x = b /\ b = Blame(z, u)
      BY <2>1, <2>7
    <3> HIDE DEF b
    <3>2. Mild(z, b)
      BY <1>1, <2>6, <3>1, BlameMild
    <3>3. Mild(s, x)
      BY <2>6, <3>1, <3>2, MildTwice
    <3>4. x.rc = "error"
      <4>1. b.rc = z.rc
        BY <2>6, <3>1 DEF Blame, StateType
      <4> QED
        BY <2>7, <3>1, <4>1
    <3> QED
      BY <1>3, <3>3, <3>4
  <2>8. CASE z.rc # "error"
    BY <1>3, <2>1, <2>5, <2>6, <2>8
  <2> QED
    BY <2>7, <2>8
<1> QED
  BY <1>2, <1>3

\* What a sweep over the upstreams does to the only one
Kept(s, x) ==
    \A u : s.queue = <<u>> =>
        /\ Tame(s, x, u)
        /\ s.up[u].conn = "up" => x.up = s.up

\* Every upstream of the list gets a connection.
LEMMA AppendSweepMild ==
    ASSUME NEW s, Good(conf, s), NEW x \in Sweep(s, AppendBuffer)
    PROVE  Mild(s, x) /\ (x.rc # "error" => Kept(s, x))
<1> DEFINE N == Len(s.queue)
           A == {Rc(s, "ok")}
           G == {y \in StateType : /\ Good(conf, y) /\ Steps(s, y, 0)
                                   /\ Mild(s, y)
                                   /\ y.rc # "error" => Kept(s, y)}
           S == SUBSET G
           After(i, X) == UNION {IF y.rc = "error" THEN {y}
                                 ELSE AppendBuffer(y, s.queue[i]) : y \in X}
<1>1. s \in StateType /\ s.queue \in Seq(Upstreams)
      /\ s.faults <= conf.maxFaults
  BY StateParts DEF Sound, Good
<1>2. N \in Nat
  BY <1>1
<1>3. A \in S
  <2> DEFINE r == Rc(s, "ok")
  <2>1. /\ r \in StateType /\ r.track = s.track /\ r.up = s.up
        /\ r.queue = s.queue /\ r.faults = s.faults /\ r.n = s.n
    BY <1>1, RcFields
  <2>2. Mild(s, r)
    BY <1>1, MildNothing, MildRc
  <2> HIDE DEF r
  <2>3. Good(conf, r)
    BY <1>1, <2>1, GoodSame DEF Good
  <2>4. Steps(s, r, 0)
    BY <1>1, <2>1, StepsNothing DEF Steps
  <2>5. Kept(s, r)
    <3> SUFFICES ASSUME NEW u, s.queue = <<u>>
                 PROVE  Tame(s, r, u)
      BY <2>1 DEF Kept
    <3>1. u \in Upstreams
      BY <1>1
    <3> QED
      BY <1>1, <2>1, <3>1, TameRest
  <2>6. r \in G
    BY <2>1, <2>2, <2>3, <2>4, <2>5
  <2> HIDE DEF G
  <2> QED
    BY <2>6 DEF r
<1>4. ASSUME NEW i \in 1 .. N, NEW X \in S PROVE After(i, X) \in S
  <2> SUFFICES ASSUME NEW y \in X,
                      NEW r \in IF y.rc = "error" THEN {y}
                                ELSE AppendBuffer(y, s.queue[i])
               PROVE  r \in G
    <3> HIDE DEF G
    <3> QED
      OBVIOUS
  <2>1. /\ y \in StateType /\ Good(conf, y) /\ Steps(s, y, 0) /\ Mild(s, y)
        /\ y.rc # "error" => Kept(s, y)
    OBVIOUS
  <2>2. CASE y.rc = "error"
    BY <2>1, <2>2
  <2>3. CASE y.rc # "error"
    <3>1. r \in AppendBuffer(y, s.queue[i])
      BY <2>3
    <3>2. s.queue[i] \in ToSet(y.queue) /\ s.queue[i] \in Upstreams
      BY <1>1, <2>1 DEF Steps, ToSet
    <3>3. Good(conf, r) /\ Touches(y, r, s.queue[i])
      BY <2>1, <3>1, <3>2, AppendBufferGood
    <3>4. Steps(s, r, 0) /\ r \in StateType
      <4>1. Steps(y, r, 0) /\ r \in StateType
        BY <2>1, <3>2, <3>3, TouchSteps DEF Touches
      <4> QED
        BY <1>1, <2>1, <4>1, StepsZero
    <3>5. /\ Mild(y, r) /\ (r.rc # "error" => Tame(y, r, s.queue[i]))
          /\ y.up[s.queue[i]].conn = "up" => r = y
      BY <2>1, <3>1, <3>2, AppendBufferTame DEF Good
    <3>6. Mild(s, r)
      BY <2>1, <3>5, MildTwice
    <3>7. ASSUME r.rc # "error" PROVE Kept(s, r)
      <4> SUFFICES ASSUME NEW u, s.queue = <<u>>
                   PROVE  /\ Tame(s, r, u)
                          /\ s.up[u].conn = "up" => r.up = s.up
        BY DEF Kept
      <4>1. s.queue[i] = u
        BY <1>2
      <4>2. Tame(s, y, u) /\ (s.up[u].conn = "up" => y.up = s.up)
        BY <2>1, <2>3 DEF Kept
      <4>3. Tame(s, r, u)
        BY <1>1, <3>2, <3>5, <3>7, <4>1, <4>2, TameTwice
      <4> QED
        BY <3>5, <4>1, <4>2, <4>3
    <3> QED
      BY <3>3, <3>4, <3>6, <3>7
  <2> QED
    BY <2>2, <2>3
<1> DEFINE T == [i \in 0 .. N |-> S]
           g == [i \in 1 .. N |-> [X \in S |-> After(i, X)]]
           IsRun(f) == f = [i \in 0 .. N |-> IF i = 0 THEN A
                                             ELSE After(i, f[i - 1])]
           c == CHOOSE f : IsRun(f)
<1> HIDE DEF N, A, S, After
<1>5. \E f : IsRun(f)
  <2>1. \A i \in 1 .. N : i - 1 \in 0 .. N /\ i \in 0 .. N
    BY <1>2
  <2>2. A \in T[0]
    BY <1>2, <1>3
  <2>3. Leads(g, T, N)
    BY <1>4, <2>1 DEF Leads
  <2>4. PICK f : RunOf(f, g, T, A, N)
    <3> HIDE DEF T, g
    <3> QED
      BY <1>2, <2>2, <2>3, RunExists
  <2>5. /\ f = [i \in 0 .. N |-> f[i]]
        /\ f[0] = A
        /\ \A i \in 1 .. N : f[i - 1] \in T[i - 1] /\ f[i] = g[i][f[i - 1]]
    BY <2>4 DEF RunOf
  <2>6. ASSUME NEW i \in 0 .. N
        PROVE  f[i] = IF i = 0 THEN A ELSE After(i, f[i - 1])
    <3>1. CASE i = 0
      BY <2>5, <3>1
    <3>2. CASE i # 0
      <4>1. i \in 1 .. N
        BY <1>2, <3>2
      <4>2. f[i - 1] \in S /\ f[i] = g[i][f[i - 1]]
        BY <2>1, <2>5, <4>1
      <4> QED
        BY <3>2, <4>1, <4>2
    <3> QED
      BY <3>1, <3>2
  <2> QED
    BY <2>5, <2>6
<1>6. IsRun(c)
  <2> HIDE DEF IsRun
  <2> QED
    BY <1>5
<1>7. Sweep(s, AppendBuffer) = c[N]
  BY DEF Sweep, Then, After, N, A
<1> HIDE DEF c
<1>8. c[N] \in S
  <2>1. c[0] = A
    BY <1>2, <1>6
  <2>2. ASSUME NEW i \in 1 .. N, c[i - 1] \in S PROVE c[i] \in S
    <3>1. i \in 0 .. N /\ i # 0
      BY <1>2
    <3>2. c[i] = After(i, c[i - 1])
      BY <1>6, <3>1
    <3> QED
      BY <1>4, <2>2, <3>2
  <2>3. c[0] \in T[0]
    BY <1>2, <1>3, <2>1
  <2>4. \A i \in 1 .. N : c[i - 1] \in T[i - 1] => c[i] \in T[i]
    <3> SUFFICES ASSUME NEW i \in 1 .. N, c[i - 1] \in T[i - 1]
                 PROVE  c[i] \in T[i]
      OBVIOUS
    <3>1. i \in 0 .. N /\ i - 1 \in 0 .. N
      BY <1>2
    <3> QED
      BY <2>2, <3>1
  <2>5. c[N] \in T[N]
    <3> HIDE DEF T
    <3> QED
      BY <1>2, <2>3, <2>4, RunStays
  <2> QED
    BY <1>2, <2>5
<1> QED
  BY <1>7, <1>8 DEF S

\* Every upstream of the list is sent what was appended.
LEMMA SendSweepMild ==
    ASSUME NEW s, Good(conf, s), MaySend(s.track),
           NEW x \in Sweep(s, Send)
    PROVE  Mild(s, x)
<1> DEFINE N == Len(s.queue)
           A == {Rc(s, "ok")}
           G == {y \in StateType : /\ Good(conf, y) /\ Steps(s, y, 0)
                                   /\ Mild(s, y)}
           S == SUBSET G
           After(i, X) == UNION {IF y.rc = "error" THEN {y}
                                 ELSE Send(y, s.queue[i]) : y \in X}
<1>1. s \in StateType /\ s.queue \in Seq(Upstreams)
      /\ s.faults <= conf.maxFaults
  BY StateParts DEF Sound, Good
<1>2. N \in Nat
  BY <1>1
<1>3. A \in S
  <2> DEFINE r == Rc(s, "ok")
  <2>1. /\ r \in StateType /\ r.track = s.track /\ r.up = s.up
        /\ r.queue = s.queue /\ r.faults = s.faults /\ r.n = s.n
    BY <1>1, RcFields
  <2>2. Mild(s, r)
    BY <1>1, MildNothing, MildRc
  <2> HIDE DEF r
  <2>3. Good(conf, r)
    BY <1>1, <2>1, GoodSame DEF Good
  <2>4. Steps(s, r, 0)
    BY <1>1, <2>1, StepsNothing DEF Steps
  <2>6. r \in G
    BY <2>1, <2>2, <2>3, <2>4
  <2> HIDE DEF G
  <2> QED
    BY <2>6 DEF r
<1>4. ASSUME NEW i \in 1 .. N, NEW X \in S PROVE After(i, X) \in S
  <2> SUFFICES ASSUME NEW y \in X,
                      NEW r \in IF y.rc = "error" THEN {y}
                                ELSE Send(y, s.queue[i])
               PROVE  r \in G
    <3> HIDE DEF G
    <3> QED
      OBVIOUS
  <2>1. /\ y \in StateType /\ Good(conf, y) /\ Steps(s, y, 0) /\ Mild(s, y)
    OBVIOUS
  <2>2. CASE y.rc = "error"
    BY <2>1, <2>2
  <2>3. CASE y.rc # "error"
    <3>1. r \in Send(y, s.queue[i])
      BY <2>3
    <3>2. s.queue[i] \in ToSet(y.queue) /\ s.queue[i] \in Upstreams
      BY <1>1, <2>1 DEF Steps, ToSet
    <3>3. MaySend(y.track)
      BY <2>1 DEF Steps, Later, MaySend
    <3>4. Good(conf, r) /\ Touches(y, r, s.queue[i])
      BY <2>1, <3>1, <3>2, <3>3, SendGood
    <3>5. Steps(s, r, 0) /\ r \in StateType
      <4>1. Steps(y, r, 0) /\ r \in StateType
        BY <2>1, <3>2, <3>4, TouchSteps DEF Touches
      <4> QED
        BY <1>1, <2>1, <4>1, StepsZero
    <3>6. Mild(y, r)
      BY <2>1, <3>1, <3>2, <3>3, SendMild
    <3>7. Mild(s, r)
      BY <2>1, <3>6, MildTwice
    <3> QED
      BY <3>4, <3>5, <3>7
  <2> QED
    BY <2>2, <2>3
<1> DEFINE T == [i \in 0 .. N |-> S]
           g == [i \in 1 .. N |-> [X \in S |-> After(i, X)]]
           IsRun(f) == f = [i \in 0 .. N |-> IF i = 0 THEN A
                                             ELSE After(i, f[i - 1])]
           c == CHOOSE f : IsRun(f)
<1> HIDE DEF N, A, S, After
<1>5. \E f : IsRun(f)
  <2>1. \A i \in 1 .. N : i - 1 \in 0 .. N /\ i \in 0 .. N
    BY <1>2
  <2>2. A \in T[0]
    BY <1>2, <1>3
  <2>3. Leads(g, T, N)
    BY <1>4, <2>1 DEF Leads
  <2>4. PICK f : RunOf(f, g, T, A, N)
    <3> HIDE DEF T, g
    <3> QED
      BY <1>2, <2>2, <2>3, RunExists
  <2>5. /\ f = [i \in 0 .. N |-> f[i]]
        /\ f[0] = A
        /\ \A i \in 1 .. N : f[i - 1] \in T[i - 1] /\ f[i] = g[i][f[i - 1]]
    BY <2>4 DEF RunOf
  <2>6. ASSUME NEW i \in 0 .. N
        PROVE  f[i] = IF i = 0 THEN A ELSE After(i, f[i - 1])
    <3>1. CASE i = 0
      BY <2>5, <3>1
    <3>2. CASE i # 0
      <4>1. i \in 1 .. N
        BY <1>2, <3>2
      <4>2. f[i - 1] \in S /\ f[i] = g[i][f[i - 1]]
        BY <2>1, <2>5, <4>1
      <4> QED
        BY <3>2, <4>1, <4>2
    <3> QED
      BY <3>1, <3>2
  <2> QED
    BY <2>5, <2>6
<1>6. IsRun(c)
  <2> HIDE DEF IsRun
  <2> QED
    BY <1>5
<1>7. Sweep(s, Send) = c[N]
  BY DEF Sweep, Then, After, N, A
<1> HIDE DEF c
<1>8. c[N] \in S
  <2>1. c[0] = A
    BY <1>2, <1>6
  <2>2. ASSUME NEW i \in 1 .. N, c[i - 1] \in S PROVE c[i] \in S
    <3>1. i \in 0 .. N /\ i # 0
      BY <1>2
    <3>2. c[i] = After(i, c[i - 1])
      BY <1>6, <3>1
    <3> QED
      BY <1>4, <2>2, <3>2
  <2>3. c[0] \in T[0]
    BY <1>2, <1>3, <2>1
  <2>4. \A i \in 1 .. N : c[i - 1] \in T[i - 1] => c[i] \in T[i]
    <3> SUFFICES ASSUME NEW i \in 1 .. N, c[i - 1] \in T[i - 1]
                 PROVE  c[i] \in T[i]
      OBVIOUS
    <3>1. i \in 0 .. N /\ i - 1 \in 0 .. N
      BY <1>2
    <3> QED
      BY <2>2, <3>1
  <2>5. c[N] \in T[N]
    <3> HIDE DEF T
    <3> QED
      BY <1>2, <2>3, <2>4, RunStays
  <2> QED
    BY <1>2, <2>5
<1> QED
  BY <1>7, <1>8 DEF S

\* What is pending is sent, unless sending is blocked.
LEMMA SendAllMild ==
    ASSUME NEW s, Good(conf, s), NEW x \in SendAll(s)
    PROVE  Mild(s, x)
<1>1. s \in StateType /\ s.track \in TrackType
  BY StateParts DEF Sound, Good
<1>2. CASE x = s
  BY <1>1, <1>2, MildNothing
<1>3. CASE x # s
  <2> DEFINE t == [s.track EXCEPT !.pending = FALSE]
             y == SetTrack(s, t)
  <2>1. x \in Sweep(y, Send) /\ ~s.track.blocked
    BY <1>3 DEF SendAll, SetTrack
  <2>2. /\ t \in TrackType /\ SameLog(s.track, t)
        /\ t.alerts = s.track.alerts /\ t.lastFrame = s.track.lastFrame
        /\ t.cause = s.track.cause
    BY <1>1 DEF TrackType, SameLog
  <2> HIDE DEF t, y
  <2>3. /\ y \in StateType /\ y.track = t /\ y.up = s.up
        /\ y.queue = s.queue /\ y.faults = s.faults
    BY <1>1, <2>2, TrackFields DEF y
  <2>4. Good(conf, y)
    BY <1>1, <2>2, <2>3, SameLogGood
  <2>5. MaySend(y.track)
    BY <2>1, <2>2, <2>3 DEF MaySend, SameLog
  <2>6. Mild(y, x)
    BY <2>1, <2>4, <2>5, SendSweepMild
  <2>7. Mild(s, y)
    <3>1. Flags(s, y)
      BY <2>2, <2>3 DEF Flags
    <3>2. y.track.lastFrame = s.track.lastFrame
          /\ SameCause(s.track, y.track)
      BY <2>2, <2>3 DEF SameCause
    <3> QED
      BY <1>1, <3>1, <3>2, FlagsMild
  <2> QED
    BY <2>6, <2>7, MildTwice
<1> QED
  BY <1>2, <1>3

\* What append_all does to the only upstream: the buffers before its reader are
\* released if there was something to append.
Appended(s, x, u) ==
    /\ Alone(x, u) /\ s.up[u].acked <= x.up[u].acked
    /\ s.track.head <= x.track.head
    /\ s.up[u].conn = "up" => x.up[u] = s.up[u]
    /\ s.track.appended # s.track.written =>
            x.track.head = NodeOf(End(x.track, x.up[u].acked))

\* Who is alone remains so when the reader is moved on.
LEMMA AloneTame ==
    ASSUME NEW s, Sound(conf, s), NEW u, Alone(s, u), NEW x, Tame(s, x, u),
           x.track.alerts = {}
    PROVE  /\ Alone(x, u) /\ x.track = s.track /\ x.queue = s.queue
           /\ s.up[u].acked <= x.up[u].acked
<1>1. Gained(s, x, u)
  BY DEF Tame, Alone
<1>2. s.up[u].acked \in Nat /\ Len(s.track.pkts) \in Nat
  BY AloneParts, ReaderEnd
<1>3. /\ x.track = s.track /\ x.queue = s.queue /\ ~x.up[u].eos
      /\ x.up[u].acked \in s.up[u].acked .. Len(s.track.pkts)
  BY <1>1 DEF Gained
<1> QED
  BY <1>2, <1>3 DEF Alone, Clean

\* MinReader is the place of the only reader.
LEMMA OneReader ==
    ASSUME NEW s, Sound(conf, s), NEW u, s.queue = <<u>>
    PROVE  MinReader(s) = End(s.track, s.up[u].acked)
<1>1. \A v \in ToSet(s.queue) : s.up[v].acked <= Len(s.track.pkts)
  BY DEF Sound, UpsOK, UpOK
<1>2. s \in StateType /\ s.queue # << >>
  BY DEF Sound
<1>3. MinAcked(s) \in ToSet(s.queue)
  BY <1>1, <1>2, MinAckedLeast
<1>4. ToSet(s.queue) = {u}
  <2> DEFINE q == s.queue
  <2>1. q = <<u>>
    OBVIOUS
  <2> HIDE DEF q
  <2>2. DOMAIN q = {1} /\ q[1] = u
    BY <2>1
  <2>3. ToSet(q) = {q[i] : i \in DOMAIN q}
    BY DEF ToSet
  <2>4. ToSet(q) = {u}
    BY <2>2, <2>3
  <2> QED
    BY <2>4 DEF q
<1> QED
  BY <1>3, <1>4 DEF MinReader

\* Who is alone remains so when more is written.
LEMMA AloneSame ==
    ASSUME NEW s \in StateType, NEW u \in Upstreams, Alone(s, u),
           NEW x \in StateType, x.queue = s.queue,
           NEW t, NEW t2, t = s.track, t2 = x.track,
           t2.alerts = {}, t2.pkts = t.pkts, t2.lastFrame = t.lastFrame,
           t.written <= t2.written, t2.state = t.state,
           x.up[u].acked = s.up[u].acked, x.up[u].eos = s.up[u].eos
    PROVE  Alone(x, u)
<1>1. t.written \in Nat /\ t2.written \in Nat /\ t.lastFrame \in Nat
  BY StateParts DEF TrackType
<1>2. /\ t.lastFrame <= t.written /\ t.alerts = {}
      /\ \E k \in 0 .. Len(t.pkts) : t.lastFrame = End(t, k)
  BY DEF Alone, FrameEnds, Clean
<1>3. FrameEnds(t2)
  <2>1. t2.lastFrame <= t2.written
    BY <1>1, <1>2
  <2>2. \E k \in 0 .. Len(t2.pkts) : t2.lastFrame = End(t2, k)
    BY <1>2 DEF End
  <2> QED
    BY <2>1, <2>2 DEF FrameEnds
<1>4. Clean(x, u)
  BY DEF Alone, Clean, HasEos
<1> QED
  BY <1>3, <1>4 DEF Alone

\* What was written is appended, and buffers are released.
LEMMA AppendAllMild ==
    ASSUME NEW s, Good(conf, s), NEW x \in AppendAll(s)
    PROVE  /\ Mild(s, x)
           /\ \A u : Alone(s, u) /\ x.track.alerts = {} /\ x.rc # "error"
                        => Appended(s, x, u)
<1>1. s \in StateType /\ Sound(conf, s) /\ s.track \in TrackType
  BY StateParts DEF Sound, Good
<1>2. CASE s.track.appended = s.track.written
  <2>1. x = s
    BY <1>2 DEF AppendAll
  <2>2. Mild(s, x)
    BY <1>1, <2>1, MildNothing
  <2>3. ASSUME NEW u, Alone(s, u) PROVE Appended(s, x, u)
    <3>1. s.up[u].acked \in Nat /\ s.track.head \in Nat
      <4>1. u \in ToSet(s.queue)
        BY <1>1, <2>3, AloneParts
      <4> QED
        BY <1>1, <4>1, ReaderEnd DEF TrackType
    <3> QED
      BY <1>2, <2>1, <2>3, <3>1 DEF Appended
  <2> QED
    BY <2>2, <2>3
<1>3. CASE s.track.appended # s.track.written
  <2> DEFINE Appends(a) ==
                LET ready == \E u \in ToSet(a.queue) : a.up[u].ready
                    b == [a EXCEPT !.track.appended = a.track.written,
                                   !.track.pending = @ \/ ready]
                IN  {IF b.queue = << >> THEN b ELSE FreeTo(b, MinReader(b))}
  <2>1. x \in UNION {IF a.rc = "error" THEN {a} ELSE Appends(a)
                     : a \in Sweep(s, AppendBuffer)}
    BY <1>3 DEF AppendAll, Then
  <2> HIDE DEF Appends
  <2>2. PICK a \in Sweep(s, AppendBuffer) :
            x \in IF a.rc = "error" THEN {a} ELSE Appends(a)
    BY <2>1
  <2>3. /\ Good(conf, a) /\ Mild(s, a)
        /\ a.rc # "error" => Kept(s, a)
    BY <2>2, AppendSweepGood, AppendSweepMild
  <2>4. CASE a.rc = "error"
    BY <2>2, <2>3, <2>4
  <2>5. CASE a.rc # "error"
    <3> DEFINE p == \E u \in ToSet(a.queue) : a.up[u].ready
               t == [a.track EXCEPT !.appended = a.track.written,
                                    !.pending = @ \/ p]
               b == SetTrack(a, t)
    <3>1. /\ a \in StateType /\ a.track \in TrackType
          /\ LogOK(a.track) /\ MemoryOK(conf, a.track, a.queue)
      BY <2>3, StateParts DEF Sound, Good
    <3>2. x = IF b.queue = << >> THEN b ELSE FreeTo(b, MinReader(b))
      <4>1. x \in Appends(a)
        BY <2>2, <2>5
      <4>2. b = [a EXCEPT !.track.appended = a.track.written,
                          !.track.pending = @ \/ p]
        BY <3>1 DEF SetTrack, StateType, TrackType
      <4> QED
        BY <4>1, <4>2 DEF Appends
    <3>3. p \in BOOLEAN
      OBVIOUS
    <3> HIDE DEF p
    <3>4. /\ t \in TrackType /\ t.pkts = a.track.pkts
          /\ t.head = a.track.head /\ t.tail = a.track.tail
          /\ t.nfree = a.track.nfree /\ t.oerr = a.track.oerr
          /\ t.blocked = a.track.blocked /\ t.forced = a.track.forced
          /\ t.alerts = a.track.alerts /\ t.state = a.track.state
          /\ t.written = a.track.written
          /\ t.appended = a.track.written
          /\ t.lastFrame = a.track.lastFrame /\ t.cause = a.track.cause
      BY <3>1, <3>3 DEF TrackType
    <3> HIDE DEF t, b
    <3>5. /\ b \in StateType /\ b.track = t /\ b.up = a.up
          /\ b.queue = a.queue /\ b.faults = a.faults /\ b.rc = a.rc
      BY <3>1, <3>4, TrackFields DEF b
    <3>6. /\ a.track.appended <= a.track.written /\ a.track.written \in Nat
          /\ a.track.head \in Nat
      BY <3>1 DEF LogOK, TrackType
    <3>7. t.tail # -1 => Fits(t)
      BY <3>1, <3>4 DEF MemoryOK, Fits
    <3>8. Good(conf, b)
      BY <2>3, <3>4, <3>5, <3>6, <3>7, TrackGood
    <3>9. Mild(s, b)
      <4>1. SameCause(a.track, t) /\ t.tail \in {a.track.tail, -1}
            /\ a.track.alerts \subseteq t.alerts
        BY <3>4 DEF SameCause
      <4>2. Mild(a, b)
        BY <3>1, <3>4, <3>5, <4>1, MildTrack
      <4> QED
        BY <2>3, <4>2, MildTwice
    <3>10. CASE b.queue = << >>
      <4>1. x = b
        BY <3>2, <3>10
      <4>2. ASSUME NEW u, Alone(s, u) PROVE FALSE
        <5>1. s.queue = <<u>> /\ a.queue = s.queue
          <6>1. Steps(s, a, 0)
            BY <2>2, AppendSweepGood
          <6> QED
            BY <4>2, <6>1 DEF Alone, Steps
        <5>2. <<u>> = << >>
          BY <3>5, <3>10, <5>1
        <5> QED
          BY <5>2
      <4> QED
        BY <3>9, <4>1, <4>2
    <3>11. CASE b.queue # << >>
      <4>1. x = FreeTo(b, MinReader(b))
        BY <3>2, <3>11
      <4>2. Released(b, x, MinReader(b))
        BY <3>8, <3>11, <4>1, FreeToReleased
      <4>3. Mild(b, x) /\ Mild(s, x) /\ x \in StateType
        <5>1. Mild(b, x)
          BY <4>2 DEF Released
        <5>2. Mild(s, x)
          BY <3>9, <5>1, MildTwice
        <5> QED
          BY <5>1, <5>2 DEF Mild
      <4>4. ASSUME NEW u, Alone(s, u), x.track.alerts = {}
            PROVE  Appended(s, x, u)
        <5>1. Tame(s, a, u) /\ (s.up[u].conn = "up" => a.up = s.up)
          BY <2>3, <2>5, <4>4 DEF Kept, Alone
        <5>2. a.track.alerts = {}
          <6>1. b.track.alerts \subseteq x.track.alerts
            BY <4>3 DEF Mild
          <6> QED
            BY <3>4, <3>5, <4>4, <6>1
        <5>3. /\ Alone(a, u) /\ a.track = s.track
              /\ s.up[u].acked <= a.up[u].acked
          BY <1>1, <4>4, <5>1, <5>2, AloneTame
        <5>4. u \in Upstreams /\ s.queue = <<u>>
          BY <1>1, <4>4, AloneParts DEF Alone
        <5>5. /\ x.up = b.up /\ x.queue = b.queue /\ x.track.pkts = t.pkts
              /\ x.track.state = t.state /\ x.track.written = t.written
              /\ x.track.lastFrame = t.lastFrame
              /\ t.head <= x.track.head
              /\ x.track.head = NodeOf(MinReader(b))
          BY <3>5, <4>2, <4>4 DEF Released, Mild
        <5>6. Alone(x, u)
          <6>1. a.track.written <= x.track.written
            BY <3>4, <3>6, <5>5
          <6> QED
            BY <3>1, <3>4, <3>5, <4>3, <4>4, <5>3, <5>4, <5>5, <6>1, AloneSame
        <5>7. MinReader(b) = End(x.track, x.up[u].acked)
          <6>1. b.queue = <<u>> /\ Sound(conf, b)
            BY <3>5, <3>8, <5>3 DEF Alone, Good
          <6>2. MinReader(b) = End(b.track, b.up[u].acked)
            BY <6>1, OneReader
          <6> QED
            BY <3>5, <5>5, <6>2 DEF End
        <5> QED
          BY <3>4, <3>5, <5>1, <5>3, <5>5, <5>6, <5>7 DEF Appended
      <4> QED
        BY <4>3, <4>4
    <3> QED
      BY <3>10, <3>11
  <2> QED
    BY <2>4, <2>5
<1> QED
  BY <1>2, <1>3

\* What is spared remains so.
LEMMA SparedAppended ==
    ASSUME NEW s, Sound(conf, s), NEW u, Alone(s, u), Spared(s, u),
           NEW x, Mild(s, x), Appended(s, x, u)
    PROVE  Spared(x, u)
<1> DEFINE k == s.up[u].acked
           m == x.up[u].acked
<1>1. /\ u \in ToSet(s.queue) /\ conf \in Confs
      /\ s.track \in TrackType /\ LogOK(s.track)
      /\ k \in 0 .. Len(s.track.pkts) /\ k \in Nat
      /\ Len(s.track.pkts) \in Nat
  BY AloneParts, ReaderEnd
<1>2. /\ x.track \in TrackType /\ x.track.pkts = s.track.pkts
      /\ x.track.lastFrame = s.track.lastFrame
      /\ s.track.head <= x.track.head
  BY StateParts DEF Mild, Appended
<1>3. u \in Upstreams /\ x.up[u] \in UpType
  BY AloneParts, StateParts DEF Mild
<1>4. m \in Nat /\ k <= m /\ m <= Len(x.track.pkts)
  BY <1>3 DEF Appended, Alone, Clean, UpType
<1>5. m \in k .. Len(s.track.pkts) /\ m \in 0 .. Len(x.track.pkts)
  <2> HIDE DEF k, m
  <2> QED
    BY <1>1, <1>2, <1>4
<1> HIDE DEF k, m
<1>6. CASE Ahead(s.track, k)
  <2>1. From(s.track, k) <= From(x.track, m)
    BY <1>1, <1>2, <1>5, FromLater
  <2>2. Ahead(x.track, m)
    BY <1>1, <1>2, <1>5, <1>6, <2>1, AheadLater
  <2> QED
    BY <2>2 DEF Spared, m
<1>7. CASE Stuck(s, u)
  <2>1. x.up[u] = s.up[u]
    BY <1>7 DEF Appended, Stuck
  <2> QED
    BY <1>7, <2>1 DEF Spared, Stuck
<1> QED
  BY <1>6, <1>7 DEF Spared, Alone, Clean, k

-----------------------------------------------------------------------------
(* Packets are written *)

\* There is no end of stream while the track is active.
Unended(s) ==
    /\ FrameEnds(s.track) /\ EosRead(s)
    /\ s.track.state = "active" => ~HasEos(s.track)

\* Then the only upstream of an active track is alone.
LEMMA UnendedAlone ==
    ASSUME NEW s, Sound(conf, s), Unended(s), NEW u, s.queue = <<u>>,
           s.track.state = "active", s.track.alerts = {}
    PROVE  Alone(s, u) /\ u \in Upstreams
<1>1. u \in ToSet(s.queue)
  <2> DEFINE q == s.queue
  <2>1. q = <<u>>
    OBVIOUS
  <2> HIDE DEF q
  <2>2. 1 \in DOMAIN q /\ q[1] = u
    BY <2>1
  <2>3. u \in ToSet(q)
    BY <2>2 DEF ToSet
  <2> QED
    BY <2>3 DEF q
<1>2. u \in Upstreams /\ s.up[u].acked <= Len(s.track.pkts)
  BY <1>1, ReaderEnd
<1> QED
  BY <1>2 DEF Alone, Clean, Unended, EosRead

\* Memory ran out as a last resort.
Excused(x, u) ==
    \/ x.up[u].noRep \/ x.up[u].reps >= conf.maxRepublishes
    \/ x.track.written - x.track.lastFrame > (conf.highMark - 1) * BufSize
    \/ x.track.alerts # {}

\* A call that writes to the buffers leaves x: it fails when memory runs out.
Fills(s, x) ==
    /\ x \in StateType
    /\ LET t == s.track
           t2 == x.track
       IN  /\ t2.pkts = t.pkts /\ t.written <= t2.written
           /\ t2.lastFrame = t.lastFrame /\ t.alerts \subseteq t2.alerts
           /\ t2.state = t.state
           /\ t.cause # "none" => t2.cause = t.cause
           /\ t2.cause = "memory" /\ t.cause # "memory" =>
                /\ x.rc = "error" /\ t.state = "active"
                /\ \A u : s.queue = <<u>> => Excused(x, u)
    /\ PastEos(s, x)

\* What writes nothing is such a call.
LEMMA MildFills ==
    ASSUME NEW s \in StateType, NEW x, Mild(s, x),
           x.track.state = s.track.state
    PROVE  Fills(s, x)
<1>1. s.track.written <= s.track.written
  BY StateParts DEF TrackType
<1> QED
  BY <1>1 DEF Mild, SameCause, Fills

\* Two calls
LEMMA FillsTwice ==
    ASSUME NEW s \in StateType, NEW x, NEW y, Fills(s, x), Fills(x, y),
           x.rc # "error", x.queue = s.queue
    PROVE  Fills(s, y)
<1>1. s.track.written <= y.track.written
  <2>1. /\ s.track.written \in Nat /\ x.track.written \in Nat
        /\ y.track.written \in Nat
    BY StateParts DEF Fills, TrackType
  <2> QED
    BY <2>1 DEF Fills
<1>2. PastEos(s, y)
  <2> SUFFICES ASSUME NEW v \in Upstreams, y.up[v].eos, ~HasEos(y.track)
               PROVE  \E w \in Upstreams : s.up[w].eos
    BY DEF PastEos
  <2>1. PICK w \in Upstreams : x.up[w].eos
    BY DEF Fills, PastEos
  <2>2. ~HasEos(x.track)
    BY DEF Fills, HasEos
  <2> QED
    BY <2>1, <2>2 DEF Fills, PastEos
<1> QED
  BY <1>1, <1>2 DEF Fills

\* There is no end of stream after it.
LEMMA FillsUnended ==
    ASSUME NEW s \in StateType, NEW x, Fills(s, x), Unended(s),
           x.track.state = s.track.state
    PROVE  Unended(x)
<1>1. FrameEnds(x.track)
  <2>1. /\ s.track.written \in Nat /\ x.track.written \in Nat
        /\ s.track.lastFrame \in Nat
    BY StateParts DEF Fills, TrackType
  <2>2. x.track.lastFrame <= x.track.written
    BY <2>1 DEF Fills, Unended, FrameEnds
  <2>3. x.track.alerts = {} =>
            \E k \in 0 .. Len(x.track.pkts) : x.track.lastFrame = End(x.track, k)
    BY DEF Fills, Unended, FrameEnds, End
  <2> QED
    BY <2>2, <2>3 DEF FrameEnds
<1>2. EosRead(x) /\ (x.track.state = "active" => ~HasEos(x.track))
  BY DEF Fills, Unended, EosRead, PastEos, HasEos
<1> QED
  BY <1>1, <1>2 DEF Unended

\* u has as much memory to write to as is spared, and its buffers are full.
LEMMA NoBuffer ==
    ASSUME NEW s, Sound(conf, s), NEW u, Alone(s, u), Spared(s, u),
           NEW t, t = s.track, t.head = NodeOf(End(t, s.up[u].acked)),
           t.written = (t.tail + 1) * BufSize,
           ~(t.nfree > 0), ~(MemLeft(t) > 0)
    PROVE  Excused(s, u)
<1> DEFINE k == s.up[u].acked
<1>1. /\ t \in TrackType /\ conf \in Confs /\ t.tail # -1
      /\ MemoryOK(conf, t, s.queue)
  BY AloneParts, StateParts DEF Sound
<1>2. /\ t.tail \in Int /\ t.head \in Nat /\ t.nfree \in Nat
      /\ t.lastFrame \in Nat /\ t.written \in Nat
  BY <1>1 DEF TrackType
<1>3. /\ BufSize \in Nat /\ conf.memLimit \in Nat /\ conf.highMark \in Nat
  BY <1>1, ConfNumbers
<1>4. CASE Ahead(t, k)
  <2>1. From(t, k) = t.head
    BY <1>2 DEF From
  <2>2. conf.memLimit = t.tail - t.head + 1
    <3>1. /\ t.tail - t.head + 1 + t.nfree <= conf.memLimit
          /\ ~(t.nfree > 0)
          /\ ~(conf.memLimit - (t.tail - t.head + 1) - t.nfree > 0)
      BY <1>1 DEF MemLeft, Nodes, MemoryOK
    <3> QED
      BY ONLY <1>2, <1>3, <3>1
  <2> DEFINE a == t.tail + 1
             b == conf.highMark - 1
  <2>3. conf.memLimit + From(t, k) - conf.highMark + 1 = a - b
    BY <1>2, <1>3, <2>1, <2>2
  <2>4. a \in Int /\ b \in Int
    BY <1>2, <1>3
  <2>5. t.lastFrame < (a - b) * BufSize
    BY <1>4, <2>3 DEF Ahead
  <2>6. t.written = a * BufSize
    OBVIOUS
  <2> HIDE DEF a, b
  <2>7. \A i \in Int, j \in Int, n \in Nat :
            (i - j) * n = i * n - j * n /\ i * n \in Int /\ j * n \in Int
    OBVIOUS
  <2>8. /\ (a - b) * BufSize = a * BufSize - b * BufSize
        /\ a * BufSize \in Int /\ b * BufSize \in Int
    BY <1>3, <2>4, <2>7
  <2> DEFINE p == a * BufSize
             q == b * BufSize
  <2>9. t.lastFrame < p - q /\ t.written = p /\ p \in Int /\ q \in Int
    BY <2>5, <2>6, <2>8
  <2> HIDE DEF p, q
  <2>10. t.written - t.lastFrame > q
    BY <1>2, <2>9
  <2> QED
    BY <2>10 DEF Excused, q, b
<1>5. CASE Stuck(s, u)
  BY <1>5 DEF Stuck, Excused
<1> QED
  BY <1>4, <1>5 DEF Spared, Excused

\* A buffer is added to the queue, or there is none.
LEMMA GetBufferParts ==
    ASSUME NEW s \in StateType, s.rc # "error", NEW x \in GetBuffer(s)
    PROVE  /\ x \in StateType /\ x.up = s.up /\ x.queue = s.queue
           /\ LET t == s.track
                  t2 == x.track
              IN  /\ t2.pkts = t.pkts /\ t2.written = t.written
                  /\ t2.lastFrame = t.lastFrame /\ t2.head = t.head
                  /\ t2.alerts = t.alerts /\ t2.state = t.state
                  /\ x.rc # "error" => t2.cause = t.cause
                  /\ t2.cause # t.cause => /\ ~(t.nfree > 0) /\ ~(MemLeft(t) > 0)
                                           /\ t.cause = "none"
                                           /\ t.state = "active"
<1> DEFINE t == s.track
           t2 == x.track
<1>1. t \in TrackType /\ t.nfree \in Nat /\ t.tail \in Int
  BY StateParts DEF TrackType
<1>2. CASE t.nfree > 0
  <2> DEFINE m == t.nfree - 1
             n == t.tail + 1
             t4 == [t EXCEPT !.nfree = m]
             t3 == [t4 EXCEPT !.tail = n]
  <2>1. x = [s EXCEPT !.track.nfree = @ - 1, !.track.tail = @ + 1]
    BY <1>2 DEF GetBuffer
  <2>2. x = SetTrack(s, t3)
    BY <1>1, <2>1 DEF SetTrack, StateType, TrackType
  <2>3. m \in Nat /\ n \in Int
    BY <1>1, <1>2
  <2> HIDE DEF m, n, t
  <2>4. /\ t4 \in TrackType
        /\ t4.pkts = t.pkts /\ t4.written = t.written
        /\ t4.lastFrame = t.lastFrame /\ t4.head = t.head
        /\ t4.state = t.state /\ t4.alerts = t.alerts
        /\ t4.cause = t.cause
    BY <1>1, <2>3 DEF TrackType
  <2> HIDE DEF t4
  <2>5. /\ t3 \in TrackType
        /\ t3.pkts = t.pkts /\ t3.written = t.written
        /\ t3.lastFrame = t.lastFrame /\ t3.head = t.head
        /\ t3.state = t.state /\ t3.alerts = t.alerts
        /\ t3.cause = t.cause
    BY <2>3, <2>4 DEF TrackType
  <2> HIDE DEF t3
  <2>6. x \in StateType /\ x.track = t3 /\ x.up = s.up /\ x.queue = s.queue
    BY <2>2, <2>5, TrackFields
  <2> QED
    BY <2>5, <2>6 DEF t
<1>3. CASE t.nfree = 0 /\ MemLeft(t) > 0
  <2> DEFINE n == t.tail + 1
             t3 == [t EXCEPT !.tail = n]
  <2>1. x = [s EXCEPT !.track.tail = @ + 1]
    BY <1>1, <1>3 DEF GetBuffer
  <2>2. x = SetTrack(s, t3)
    BY <1>1, <2>1 DEF SetTrack, StateType, TrackType
  <2>3. n \in Int
    BY <1>1
  <2> HIDE DEF n, t
  <2>5. /\ t3 \in TrackType
        /\ t3.pkts = t.pkts /\ t3.written = t.written
        /\ t3.lastFrame = t.lastFrame /\ t3.head = t.head
        /\ t3.state = t.state /\ t3.alerts = t.alerts
        /\ t3.cause = t.cause
    BY <1>1, <2>3 DEF TrackType
  <2> HIDE DEF t3
  <2>6. x \in StateType /\ x.track = t3 /\ x.up = s.up /\ x.queue = s.queue
    BY <2>2, <2>5, TrackFields
  <2> QED
    BY <2>5, <2>6 DEF t
<1>4. CASE ~(t.nfree > 0) /\ ~(t.nfree = 0 /\ MemLeft(t) > 0)
  <2> DEFINE c == IF t.cause = "none" /\ t.state = "active"
                  THEN "memory" ELSE t.cause
             t3 == [t EXCEPT !.cause = c]
             y == SetTrack(s, t3)
  <2>1. x = Rc([s EXCEPT !.track.cause =
                    IF @ = "none" /\ s.track.state = "active"
                    THEN "memory" ELSE @], "error")
    BY <1>4 DEF GetBuffer
  <2>2. x = Rc(y, "error")
    BY <1>1, <2>1 DEF SetTrack, StateType, TrackType
  <2>3. c \in {"none", "memory", "optional", "other"}
    BY <1>1 DEF TrackType
  <2>4. ~(MemLeft(t) > 0)
    BY <1>1, <1>4
  <2>5. c # t.cause => t.cause = "none" /\ t.state = "active"
    OBVIOUS
  <2> HIDE DEF c, t
  <2>6. /\ t3 \in TrackType
        /\ t3.pkts = t.pkts /\ t3.written = t.written
        /\ t3.lastFrame = t.lastFrame /\ t3.head = t.head
        /\ t3.state = t.state /\ t3.alerts = t.alerts
        /\ t3.cause = c
    BY <1>1, <2>3 DEF TrackType
  <2> HIDE DEF t3, y
  <2>7. y \in StateType /\ y.track = t3 /\ y.up = s.up /\ y.queue = s.queue
    BY <2>6, TrackFields DEF y
  <2>8. /\ x \in StateType /\ x.track = t3 /\ x.up = s.up
        /\ x.queue = s.queue /\ x.rc = "error"
    BY <2>2, <2>7, RcFields
  <2> QED
    BY <1>4, <2>4, <2>5, <2>6, <2>8 DEF t
<1> QED
  BY <1>2, <1>3, <1>4

\* Every upstream that is alone is spared.
Safe(s) == Unended(s) /\ \A u : Alone(s, u) => Spared(s, u)

\* A buffer is added, or memory runs out when all that is spared is full.
LEMMA GetBufferFills ==
    ASSUME NEW s, Good(conf, s), s.rc # "error", Unended(s),
           s.track.cause = "none" =>
                \A u : Alone(s, u) =>
                    /\ Spared(s, u)
                    /\ s.track.head = NodeOf(End(s.track, s.up[u].acked))
                    /\ s.track.written = (s.track.tail + 1) * BufSize,
           NEW x \in GetBuffer(s)
    PROVE  /\ Fills(s, x) /\ x.queue = s.queue
           /\ Safe(s) /\ x.rc # "error" => Safe(x)
<1> DEFINE t == s.track
           t2 == x.track
<1>1. /\ s \in StateType /\ Sound(conf, s) /\ t \in TrackType
      /\ t.written \in Nat
  <2>1. s \in StateType /\ t \in TrackType
    BY StateParts DEF Sound, Good
  <2> HIDE DEF t
  <2> QED
    BY <2>1 DEF Good, TrackType
<1>2. /\ x \in StateType /\ x.up = s.up /\ x.queue = s.queue
      /\ t2.pkts = t.pkts /\ t2.written = t.written
      /\ t2.lastFrame = t.lastFrame /\ t2.head = t.head
      /\ t2.alerts = t.alerts /\ t2.state = t.state
      /\ x.rc # "error" => t2.cause = t.cause
      /\ t2.cause # t.cause => /\ ~(t.nfree > 0) /\ ~(MemLeft(t) > 0)
                               /\ t.cause = "none" /\ t.state = "active"
  BY <1>1, GetBufferParts
<1> HIDE DEF t, t2
<1>3. PastEos(s, x)
  BY <1>2 DEF PastEos
<1>4. ASSUME t2.cause = "memory", t.cause # "memory",
             NEW u, s.queue = <<u>>
      PROVE  Excused(x, u)
  <2>1. CASE t.alerts # {}
    BY <1>2, <2>1 DEF Excused, t2
  <2>2. CASE t.alerts = {}
    <3>1. /\ ~(t.nfree > 0) /\ ~(MemLeft(t) > 0)
          /\ t.cause = "none" /\ t.state = "active"
      BY <1>2, <1>4
    <3>2. Alone(s, u)
      BY <1>1, <1>4, <2>2, <3>1, UnendedAlone DEF t
    <3>3. /\ Spared(s, u) /\ t.head = NodeOf(End(t, s.up[u].acked))
          /\ t.written = (t.tail + 1) * BufSize
      BY <3>1, <3>2 DEF t
    <3>4. Excused(s, u)
      BY <1>1, <3>1, <3>2, <3>3, NoBuffer DEF t
    <3> QED
      BY <1>2, <3>4 DEF Excused, t, t2
  <2> QED
    BY <2>1, <2>2
<1>5. Fills(s, x)
  <2>1. t.written <= t2.written
    BY <1>1, <1>2
  <2>2. t.cause # "none" => t2.cause = t.cause
    BY <1>2
  <2>3. t2.cause = "memory" /\ t.cause # "memory" => x.rc = "error"
    BY <1>2
  <2> QED
    BY <1>2, <1>3, <1>4, <2>1, <2>2, <2>3 DEF Fills, t, t2
<1>6. ASSUME Safe(s) PROVE Safe(x)
  <2>1. Unended(x)
    BY <1>1, <1>2, <1>5, <1>6, FillsUnended DEF Safe, t, t2
  <2>2. ASSUME NEW u, Alone(x, u) PROVE Spared(x, u)
    <3>1. s.queue = <<u>> /\ t.alerts = {} /\ t.state = "active"
      BY <1>2, <2>2 DEF Alone, Clean, t, t2
    <3>2. Alone(s, u)
      BY <1>1, <1>6, <3>1, UnendedAlone DEF Safe, t
    <3>3. Spared(s, u)
      BY <1>6, <3>2 DEF Safe
    <3>4. From(t2, x.up[u].acked) = From(t, s.up[u].acked)
      BY <1>2 DEF From, End
    <3>5. Ahead(t, s.up[u].acked) => Ahead(t2, x.up[u].acked)
      BY <1>2, <3>4 DEF Ahead
    <3>6. Stuck(s, u) => Stuck(x, u)
      BY <1>2 DEF Stuck
    <3> QED
      BY <3>1, <3>3, <3>5, <3>6 DEF Spared, t, t2
  <2> QED
    BY <2>1, <2>2 DEF Safe
<1> QED
  BY <1>2, <1>5, <1>6

\* Bytes are put in the active buffer.
Put(s, m) == [s EXCEPT !.track.written = @ + m]

\* Nothing else changes.
LEMMA MoreWritten ==
    ASSUME NEW s, Good(conf, s), NEW m \in Nat,
           s.track.written + m <= (s.track.tail + 1) * BufSize,
           NEW x, x = Put(s, m)
    PROVE  /\ Good(conf, x) /\ Fills(s, x) /\ x.up = s.up
           /\ x.queue = s.queue /\ x.rc = s.rc
           /\ LET t == s.track
                  t2 == x.track
              IN  /\ t2.pkts = t.pkts /\ t2.written = t.written + m
                  /\ t2.lastFrame = t.lastFrame /\ t2.head = t.head
                  /\ t2.alerts = t.alerts /\ t2.state = t.state
                  /\ t2.cause = t.cause /\ t2.tail = t.tail
                  /\ t2.appended = t.appended
<1> DEFINE t == s.track
           w == t.written + m
           t2 == [t EXCEPT !.written = w]
<1>1. s \in StateType /\ t \in TrackType /\ LogOK(t)
  BY StateParts DEF Sound, Good
<1>2. /\ t.written \in Nat /\ t.appended \in Nat /\ t.appended <= t.written
  <2> HIDE DEF t
  <2> QED
    BY <1>1 DEF LogOK, TrackType
<1>3. w \in Nat /\ t.written <= w /\ t.appended <= w
      /\ w <= (t.tail + 1) * BufSize
  <2>1. w \in Nat /\ t.written <= w /\ t.appended <= w
    <3> HIDE DEF t
    <3> QED
      BY <1>2
  <2> QED
    BY <2>1
<1>4. x = SetTrack(s, t2)
  BY <1>1 DEF Put, SetTrack
<1> HIDE DEF w, t
<1>5. /\ t2 \in TrackType /\ t2.written = w
      /\ t2.pkts = t.pkts /\ t2.head = t.head /\ t2.tail = t.tail
      /\ t2.nfree = t.nfree /\ t2.oerr = t.oerr
      /\ t2.blocked = t.blocked /\ t2.forced = t.forced
      /\ t2.alerts = t.alerts /\ t2.appended = t.appended
      /\ t2.state = t.state /\ t2.lastFrame = t.lastFrame
      /\ t2.cause = t.cause
  BY <1>1, <1>3 DEF TrackType
<1> HIDE DEF t2
<1>6. /\ x \in StateType /\ x.track = t2 /\ x.up = s.up
      /\ x.queue = s.queue /\ x.faults = s.faults /\ x.rc = s.rc
  BY ONLY <1>1, <1>4, <1>5, TrackFields
<1>7. Fits(t2)
  BY <1>3, <1>5 DEF Fits
<1>8. t.appended <= t2.appended /\ t2.appended <= t2.written
  BY <1>2, <1>3, <1>5
<1>9. Good(conf, x)
  BY <1>1, <1>5, <1>6, <1>7, <1>8, TrackGood DEF t
<1>10. Fills(s, x)
  <2>1. PastEos(s, x)
    BY <1>6 DEF PastEos
  <2> QED
    BY <1>3, <1>5, <1>6, <2>1 DEF Fills, t
<1> QED
  BY <1>5, <1>6, <1>9, <1>10 DEF t, w

\* From s, n units are to be written: after i turns l of them are left, in y.
Filling(s, n, i, y, l) ==
    /\ Copying(s, n, i, y, l) /\ Fills(s, y) /\ y.queue = s.queue
    /\ y.rc # "error" => Roomy(y.track)
    /\ l >= 0 => Safe(y) /\ y.rc # "error"

\* All buffers are full and appended: buffers are released for the only
\* upstream, and what is left is spared.
LEMMA FullAppended ==
    ASSUME NEW s, Good(conf, s), Safe(s),
           s.track.appended # s.track.written,
           s.track.written = (s.track.tail + 1) * BufSize,
           NEW x \in AppendAll(s), x.rc # "error"
    PROVE  /\ \A u : Alone(x, u) =>
                /\ Spared(x, u)
                /\ x.track.head = NodeOf(End(x.track, x.up[u].acked))
                /\ x.track.written = (x.track.tail + 1) * BufSize
           /\ Safe(x)
<1>1. /\ Mild(s, x) /\ Good(conf, x) /\ Steps(s, x, 0)
      /\ \A u : Alone(s, u) /\ x.track.alerts = {} => Appended(s, x, u)
  BY AppendAllMild, AppendAllGood
<1>2. /\ s \in StateType /\ Sound(conf, s) /\ x \in StateType
  BY <1>1 DEF Good, Sound
<1>3. x.track.written = s.track.written /\ x.track.tail = s.track.tail
  BY <1>2, <1>1, StepsFits
<1>4. /\ s.track.state = x.track.state /\ s.queue = x.queue
      /\ s.track.alerts \subseteq x.track.alerts
  BY <1>1 DEF Steps, Later, Mild
<1>5. ASSUME NEW u, Alone(x, u)
      PROVE  /\ Spared(x, u)
             /\ x.track.head = NodeOf(End(x.track, x.up[u].acked))
  <2>1. x.track.alerts = {} /\ s.track.alerts = {} /\ s.queue = <<u>>
        /\ s.track.state = "active"
    BY <1>4, <1>5 DEF Alone, Clean
  <2>2. Alone(s, u)
    BY <1>2, <2>1, UnendedAlone DEF Safe
  <2>3. Appended(s, x, u)
    BY <1>1, <2>1, <2>2
  <2>4. Spared(s, u)
    BY <2>2 DEF Safe
  <2>5. Spared(x, u)
    BY <1>1, <1>2, <2>2, <2>3, <2>4, SparedAppended
  <2> QED
    BY <2>3, <2>5 DEF Appended
<1>6. Unended(x)
  <2>1. Fills(s, x)
    BY <1>1, <1>2, <1>4, MildFills
  <2> QED
    BY <1>2, <1>4, <2>1, FillsUnended DEF Safe
<1> QED
  BY <1>3, <1>5, <1>6 DEF Safe

\* One turn of the copy loop
LEMMA CopyTurnFills ==
    ASSUME NEW s \in StateType, NEW n \in Nat, NEW i \in Nat, NEW y,
           NEW l \in Nat, Filling(s, n, i, y, l), NEW p \in CopyTurn(y, l)
    PROVE  \E z \in StateType : \E k \in Int :
                p = <<z, k>> /\ Filling(s, n, i + 1, z, k)
<1> DEFINE t == y.track
           P == (t.tail + 1) * BufSize
           room == P - t.written
<1>1. /\ y \in StateType /\ t \in TrackType /\ Good(conf, y) /\ Fits(t)
      /\ Safe(y) /\ y.rc # "error" /\ Fills(s, y) /\ y.queue = s.queue
      /\ Roomy(t)
  BY StateParts DEF Filling, Copying, Sound, Good
<1>2. /\ P \in Int /\ t.written \in Nat /\ t.tail \in Int
      /\ t.appended \in Nat /\ t.appended <= t.written
      /\ BufSize \in Nat \ {0}
  <2>1. LogOK(t)
    BY <1>1 DEF Good, Sound
  <2> HIDE DEF t
  <2>2. t.tail \in Int /\ BufSize \in Nat \ {0}
    BY <1>1, ConfAssumption DEF TrackType
  <2>3. (t.tail + 1) * BufSize \in Int
    BY <2>2
  <2> QED
    BY <1>1, <2>1, <2>2, <2>3 DEF TrackType, LogOK
<1>3. t.written <= P
  BY <1>1 DEF Fits
<1>4. PICK z \in StateType, k \in Int :
            p = <<z, k>> /\ Copying(s, n, i + 1, z, k)
  BY CopyTurnGood DEF Filling
<1>5. /\ Fills(s, z) /\ z.queue = s.queue
      /\ k < 0 => (z.rc # "error" => z.track.written < (z.track.tail + 1) * BufSize)
      /\ k >= 0 => Safe(z) /\ z.rc # "error"
  <2>1. CASE l < room
    <3> DEFINE w == [y EXCEPT !.track.written = @ + l]
    <3>1. p = <<w, -1>>
      BY <2>1 DEF CopyTurn
    <3>2. z = w /\ k = -1
      BY <1>4, <3>1
    <3>3. t.written + l <= P /\ t.written + l < P
      <4> HIDE DEF t, P
      <4> QED
        BY <1>2, <2>1
    <3>4. w = Put(y, l)
      BY DEF Put
    <3> HIDE DEF w
    <3>5. /\ Good(conf, w) /\ Fills(y, w) /\ w.queue = y.queue
          /\ w.track.written = t.written + l /\ w.track.tail = t.tail
      <4>1. t.written + l <= (t.tail + 1) * BufSize
        BY <3>3
      <4> QED
        BY ONLY <1>1, <3>4, <4>1, l \in Nat, MoreWritten DEF t
    <3>6. Fills(s, w)
      BY <1>1, <3>5, FillsTwice
    <3>7. w.track.written < (w.track.tail + 1) * BufSize
      BY <3>3, <3>5
    <3> HIDE DEF t, P, room
    <3> QED
      BY <1>1, <3>2, <3>5, <3>6, <3>7
  <2>2. CASE ~(l < room)
    <3> DEFINE w == [y EXCEPT !.track.written = @ + room]
    <3>1. PICK x \in Then(AppendAll(w), GetBuffer) :
              p = <<x, IF x.rc = "error" THEN -1 ELSE l - room>>
      BY <2>2 DEF CopyTurn
    <3>2. t.written + room = P /\ room \in Nat /\ l - room \in Nat
      <4> HIDE DEF t, P
      <4> QED
        BY <1>2, <1>3, <2>2
    <3>3. w = Put(y, room)
      BY DEF Put
    <3> HIDE DEF w, room
    <3>4. /\ Good(conf, w) /\ Fills(y, w) /\ w.queue = y.queue
          /\ w.rc = y.rc /\ w.up = y.up
          /\ w.track.written = P /\ w.track.tail = t.tail
          /\ w.track.appended = t.appended
          /\ w.track.cause = t.cause /\ w.track.head = t.head
          /\ w.track.pkts = t.pkts /\ w.track.lastFrame = t.lastFrame
          /\ w.track.alerts = t.alerts /\ w.track.state = t.state
      <4>1. t.written + room <= (t.tail + 1) * BufSize
        <5> HIDE DEF t
        <5> QED
          BY <1>2, <3>2
      <4>2. w.track.written = t.written + room => w.track.written = P
        BY <3>2
      <4> HIDE DEF P
      <4> QED
        BY ONLY <1>1, <3>2, <3>3, <4>1, <4>2, MoreWritten DEF t
    <3>5. Safe(w) /\ w \in StateType /\ Sound(conf, w)
      <4>1. w \in StateType /\ Sound(conf, w)
        BY <3>4 DEF Good, Sound
      <4>2. Unended(w)
        BY <1>1, <3>4, FillsUnended DEF Safe
      <4>3. ASSUME NEW u, Alone(w, u) PROVE Spared(w, u)
        <5>1. y.queue = <<u>> /\ t.alerts = {} /\ t.state = "active"
              /\ Sound(conf, y)
          BY <1>1, <3>4, <4>3 DEF Alone, Clean, Good
        <5>2. Alone(y, u)
          BY <1>1, <5>1, UnendedAlone DEF Safe
        <5>3. Spared(y, u)
          BY <1>1, <5>2 DEF Safe
        <5>4. From(w.track, w.up[u].acked) = From(t, y.up[u].acked)
          BY <3>4 DEF From, End
        <5>5. Ahead(t, y.up[u].acked) => Ahead(w.track, w.up[u].acked)
          BY <3>4, <5>4 DEF Ahead
        <5>6. Stuck(y, u) => Stuck(w, u)
          BY <3>4 DEF Stuck
        <5> QED
          BY <5>1, <5>3, <5>5, <5>6 DEF Spared
      <4> QED
        BY <4>1, <4>2, <4>3 DEF Safe
    <3>6. PICK a \in AppendAll(w) :
              x \in IF a.rc = "error" THEN {a} ELSE GetBuffer(a)
      BY <3>1 DEF Then
    <3>7. Good(conf, a) /\ Steps(w, a, 0) /\ Mild(w, a)
      BY <3>4, <3>6, AppendAllGood, AppendAllMild
    <3>8. Fills(w, a) /\ a.queue = w.queue /\ a \in StateType
      <4>1. Fills(w, a)
        BY <3>5, <3>7, MildFills DEF Steps, Later
      <4> QED
        BY <3>7, <4>1 DEF Steps, Mild
    <3>9. Fills(s, a) /\ a.queue = s.queue
      <4>1. Fills(s, w)
        BY <1>1, <3>4, FillsTwice
      <4>2. w.rc # "error" /\ w.queue = s.queue
        BY <1>1, <3>4
      <4>3. Fills(s, a)
        BY ONLY s \in StateType, <4>1, <4>2, <3>8, FillsTwice
      <4> QED
        BY <3>8, <4>2, <4>3
    <3>10. CASE a.rc = "error"
      <4>1. p = <<a, -1>>
        BY <3>1, <3>6, <3>10
      <4>2. z = a /\ k = -1
        BY <1>4, <4>1
      <4> QED
        BY <3>9, <3>10, <4>2
    <3>11. CASE a.rc # "error"
      <4>1. x \in GetBuffer(a)
        BY <3>6, <3>11
      <4>2. a.track.cause = "none" => t.cause = "none"
        BY <3>4, <3>7 DEF Mild, SameCause
      <4>3. ASSUME a.track.cause = "none", t.tail # -1
            PROVE  w.track.appended # w.track.written
        <5>1. t.written < P
          BY <1>1, <4>2, <4>3 DEF Roomy
        <5> HIDE DEF t, P
        <5> QED
          BY <1>2, <3>4, <5>1
      <4>4. a.track.tail = t.tail
        BY <3>4, <3>5, <3>7, <3>8, StepsFits
      <4>5. ASSUME a.track.cause = "none", NEW u, Alone(a, u)
            PROVE  /\ Spared(a, u)
                   /\ a.track.head = NodeOf(End(a.track, a.up[u].acked))
                   /\ a.track.written = (a.track.tail + 1) * BufSize
        <5>1. a.track.tail # -1
          <6>1. Sound(conf, a)
            BY <3>7 DEF Good
          <6> QED
            BY <4>5, <6>1, AloneParts
        <5>2. w.track.appended # w.track.written
          BY <4>3, <4>4, <4>5, <5>1
        <5>3. w.track.written = (w.track.tail + 1) * BufSize
          BY <3>4
        <5> QED
          BY ONLY <3>4, <3>5, <3>6, <3>11, <4>5, <5>2, <5>3, FullAppended
      <4>6. Unended(a)
        <5>1. a.track.state = w.track.state
          BY <3>7 DEF Steps, Later
        <5> QED
          BY <3>5, <3>8, <5>1, FillsUnended DEF Safe
      <4>7. /\ Fills(a, x) /\ x.queue = a.queue
            /\ Safe(a) /\ x.rc # "error" => Safe(x)
        BY ONLY <3>7, <3>11, <4>1, <4>5, <4>6, GetBufferFills
      <4>8. Fills(s, x)
        BY ONLY s \in StateType, <3>9, <3>11, <4>7, FillsTwice
      <4>9. z = x /\ k = IF x.rc = "error" THEN -1 ELSE l - room
        BY <1>4, <3>1
      <4>10. Safe(a)
        <5>1. ASSUME NEW u, Alone(a, u) PROVE Spared(a, u)
          <6>1. w.queue = <<u>> /\ w.track.alerts = {}
                /\ w.track.state = "active" /\ a.track.alerts = {}
            BY <3>7, <3>8, <5>1 DEF Alone, Clean, Mild, Steps, Later
          <6>2. Alone(w, u)
            BY <3>5, <6>1, UnendedAlone DEF Safe
          <6>3. Appended(w, a, u)
            BY ONLY <3>4, <3>6, <3>11, <6>1, <6>2, AppendAllMild
          <6>4. Spared(w, u)
            BY <3>5, <6>2 DEF Safe
          <6> QED
            BY <3>5, <3>7, <6>2, <6>3, <6>4, SparedAppended
        <5> QED
          BY <4>6, <5>1 DEF Safe
      <4>11. k >= 0 => x.rc # "error"
        BY <4>9
      <4>12. k < 0 => x.rc = "error"
        BY <3>2, <4>9
      <4> QED
        BY <3>9, <4>7, <4>8, <4>9, <4>10, <4>11, <4>12
    <3> QED
      BY <3>10, <3>11
  <2> QED
    BY <2>1, <2>2
<1>6. z.rc # "error" => Roomy(z.track)
  <2>1. CASE k < 0
    BY <1>5, <2>1 DEF Roomy
  <2>2. CASE k >= 0
    <3>1. i + 1 > 0
      OBVIOUS
    <3>2. z.track.written < (z.track.tail + 1) * BufSize
      BY <1>4, <2>2, <3>1 DEF Copying
    <3> QED
      BY <3>2 DEF Roomy
  <2> QED
    BY <2>1, <2>2
<1>7. Filling(s, n, i + 1, z, k)
  BY <1>4, <1>5, <1>6 DEF Filling
<1> QED
  BY <1>4, <1>7

\* The copy loop fails only as a last resort.
LEMMA CopyFills ==
    ASSUME NEW s, Good(conf, s), Fits(s.track), Safe(s), s.rc # "error",
           Roomy(s.track), NEW n \in Nat, NEW x \in Copy(s, n)
    PROVE  /\ Fills(s, x) /\ x.queue = s.queue
           /\ x.rc # "error" => Roomy(x.track)
<1> DEFINE N == n + 2
           A == {<<s, n>>}
           P == StateType \X Int
           G(i) == {p \in P : Filling(s, n, i, p[1], p[2])}
           After(X) == UNION {IF p[2] < 0 THEN {p}
                              ELSE CopyTurn(p[1], p[2]) : p \in X}
<1>1. s \in StateType /\ s.track.written \in Nat
  <2>1. s \in StateType /\ s.track \in TrackType
    BY StateParts DEF Sound, Good
  <2> QED
    BY <2>1 DEF TrackType
<1>2. N \in Nat
  OBVIOUS
<1>3. A \in SUBSET G(0)
  <2>1. Copying(s, n, 0, s, n)
    BY <1>1, StepsNothing DEF Copying, Goes
  <2>4. Fills(s, s)
    BY <1>1, MildNothing, MildFills
  <2>5. Filling(s, n, 0, s, n)
    BY <2>1, <2>4 DEF Filling
  <2>2. <<s, n>> \in P
    BY <1>1
  <2>3. <<s, n>> \in G(0)
    BY <2>2, <2>5
  <2> HIDE DEF G
  <2> QED
    BY <2>3
<1>4. ASSUME NEW i \in 1 .. N, NEW X \in SUBSET G(i - 1)
      PROVE  After(X) \in SUBSET G(i)
  <2> SUFFICES ASSUME NEW p \in X,
                      NEW r \in IF p[2] < 0 THEN {p}
                                ELSE CopyTurn(p[1], p[2])
               PROVE  r \in G(i)
    <3> HIDE DEF G
    <3> QED
      OBVIOUS
  <2>1. p \in P /\ Filling(s, n, i - 1, p[1], p[2])
    OBVIOUS
  <2>2. p[2] \in Int /\ p = <<p[1], p[2]>> /\ i - 1 \in Nat
    BY <2>1
  <2>3. CASE p[2] < 0
    <3>1. Filling(s, n, i, p[1], p[2])
      BY <2>1, <2>2, <2>3 DEF Filling, Copying
    <3> QED
      BY <2>1, <2>3, <3>1
  <2>4. CASE ~(p[2] < 0)
    <3>1. p[2] \in Nat /\ r \in CopyTurn(p[1], p[2]) /\ i = i - 1 + 1
      BY <2>2, <2>4
    <3>2. PICK z \in StateType, k \in Int :
                r = <<z, k>> /\ Filling(s, n, i - 1 + 1, z, k)
      BY <1>1, <2>1, <2>2, <3>1, CopyTurnFills
    <3> QED
      BY <3>1, <3>2
  <2> QED
    BY <2>3, <2>4
<1> DEFINE T == [i \in 0 .. N |-> SUBSET G(i)]
           g == [i \in 1 .. N |-> [X \in SUBSET P |-> After(X)]]
           IsRun(f) == f = [i \in 0 .. N |-> IF i = 0 THEN A
                                             ELSE After(f[i - 1])]
           c == CHOOSE f : IsRun(f)
<1>5. \A i : SUBSET G(i) \subseteq SUBSET P
  OBVIOUS
<1> HIDE DEF N, A, G, After
<1>6. \E f : IsRun(f)
  <2>1. \A i \in 1 .. N : i - 1 \in 0 .. N /\ i \in 0 .. N
    BY <1>2
  <2>2. A \in T[0]
    BY <1>2, <1>3
  <2>3. Leads(g, T, N)
    <3> SUFFICES ASSUME NEW i \in 1 .. N, NEW X \in T[i - 1]
                 PROVE  g[i][X] \in T[i]
      BY DEF Leads
    <3>1. X \in SUBSET G(i - 1)
      BY <2>1
    <3>2. X \in SUBSET P
      BY <1>5, <3>1
    <3>3. g[i][X] = After(X)
      BY <3>2
    <3>4. After(X) \in SUBSET G(i)
      BY <1>4, <3>1
    <3> QED
      BY <2>1, <3>3, <3>4
  <2>4. PICK f : RunOf(f, g, T, A, N)
    <3> HIDE DEF T, g
    <3> QED
      BY <1>2, <2>2, <2>3, RunExists
  <2>5. /\ f = [i \in 0 .. N |-> f[i]]
        /\ f[0] = A
        /\ \A i \in 1 .. N : f[i - 1] \in T[i - 1] /\ f[i] = g[i][f[i - 1]]
    BY <2>4 DEF RunOf
  <2>6. ASSUME NEW i \in 0 .. N
        PROVE  f[i] = IF i = 0 THEN A ELSE After(f[i - 1])
    <3>1. CASE i = 0
      BY <2>5, <3>1
    <3>2. CASE i # 0
      <4>1. i \in 1 .. N
        BY <1>2, <3>2
      <4>2. f[i - 1] \in T[i - 1] /\ f[i] = g[i][f[i - 1]]
        BY <2>5, <4>1
      <4>3. f[i - 1] \in SUBSET P
        BY <1>5, <2>1, <4>1, <4>2
      <4>4. f[i] = After(f[i - 1])
        BY <4>1, <4>2, <4>3
      <4> QED
        BY <3>2, <4>4
    <3> QED
      BY <3>1, <3>2
  <2>7. f = [i \in 0 .. N |-> f[i]]
    BY <2>5
  <2>8. [i \in 0 .. N |-> f[i]]
            = [i \in 0 .. N |-> IF i = 0 THEN A ELSE After(f[i - 1])]
    BY ONLY <2>6
  <2>9. IsRun(f)
    BY ONLY <2>7, <2>8
  <2> QED
    BY <2>9
<1>7. IsRun(c)
  <2> HIDE DEF IsRun
  <2> QED
    BY <1>6
<1>8. Copy(s, n) = {p[1] : p \in c[N]}
  BY DEF Copy, Loop, After, N, A
<1> HIDE DEF c
<1>9. c[N] \in SUBSET G(N)
  <2>1. c[0] = A
    BY <1>2, <1>7
  <2>2. ASSUME NEW i \in 1 .. N, c[i - 1] \in SUBSET G(i - 1)
        PROVE  c[i] \in SUBSET G(i)
    <3>1. i \in 0 .. N /\ i # 0
      BY <1>2
    <3>2. c[i] = After(c[i - 1])
      BY <1>7, <3>1
    <3> QED
      BY <1>4, <2>2, <3>2
  <2>3. c[0] \in T[0]
    BY <1>2, <1>3, <2>1
  <2>4. \A i \in 1 .. N : c[i - 1] \in T[i - 1] => c[i] \in T[i]
    <3> SUFFICES ASSUME NEW i \in 1 .. N, c[i - 1] \in T[i - 1]
                 PROVE  c[i] \in T[i]
      OBVIOUS
    <3>1. i \in 0 .. N /\ i - 1 \in 0 .. N
      BY <1>2
    <3> QED
      BY <2>2, <3>1
  <2>5. c[N] \in T[N]
    <3> HIDE DEF T
    <3> QED
      BY <1>2, <2>3, <2>4, RunStays
  <2> QED
    BY <1>2, <2>5
<1>10. PICK p \in c[N] : x = p[1]
  BY <1>8
<1>11. p[2] \in Int /\ Filling(s, n, N, x, p[2])
  BY <1>9, <1>10 DEF G
<1> QED
  BY <1>11 DEF Filling

\* There is as much room in the buffers after a call that writes nothing.
LEMMA RoomyMild ==
    ASSUME NEW s, NEW x, Mild(s, x), Roomy(s.track)
    PROVE  Roomy(x.track)
BY DEF Mild, SameCause, Roomy

\* Some flags are set after a call that writes.
LEMMA FillsFlags ==
    ASSUME NEW s, NEW z, Fills(s, z), NEW x, Flags(z, x), x.rc = z.rc,
           x.track.lastFrame = z.track.lastFrame,
           x.track.cause = z.track.cause
    PROVE  Fills(s, x) /\ (Roomy(z.track) => Roomy(x.track))
<1>1. /\ x \in StateType /\ x.up = z.up /\ x.queue = z.queue
      /\ x.track.pkts = z.track.pkts /\ x.track.written = z.track.written
      /\ x.track.alerts = z.track.alerts /\ x.track.tail = z.track.tail
      /\ x.track.state = z.track.state
  BY DEF Flags, SameLog
<1>2. \A u : Excused(z, u) => Excused(x, u)
  BY <1>1 DEF Excused
<1>3. PastEos(s, x)
  BY <1>1 DEF Fills, PastEos, HasEos
<1>4. Roomy(z.track) => Roomy(x.track)
  BY <1>1 DEF Roomy
<1> QED
  BY <1>1, <1>2, <1>3, <1>4 DEF Fills

\* Enough memory is left for the high watermark.
LEMMA RoomSafe ==
    ASSUME NEW s, Good(conf, s), Unended(s),
           ~(MemLeft(s.track) < conf.highMark)
    PROVE  Safe(s)
<1>1. Sound(conf, s)
  BY DEF Good
<1>2. ASSUME NEW u, Alone(s, u) PROVE Spared(s, u)
  <2> DEFINE t == s.track
             k == s.up[u].acked
  <2>1. /\ u \in ToSet(s.queue) /\ Fits(t) /\ t.lastFrame <= t.written
        /\ conf \in Confs
    BY <1>1, <1>2, AloneParts
  <2>2. /\ t \in TrackType /\ k \in 0 .. Len(t.pkts)
    BY <1>1, <2>1, ReaderEnd
  <2>3. MemLeft(t) >= conf.highMark
    <3>1. /\ t.tail \in Int /\ t.head \in Nat /\ t.nfree \in Nat
      BY <2>2 DEF TrackType
    <3>2. conf.memLimit \in Nat /\ conf.highMark \in Nat
      BY <2>1, ConfNumbers
    <3>3. ~(MemLeft(t) < conf.highMark)
      OBVIOUS
    <3> HIDE DEF t
    <3> QED
      BY <3>1, <3>2, <3>3 DEF MemLeft, Nodes
  <2> HIDE DEF t, k
  <2>4. Ahead(t, k)
    BY <2>1, <2>2, <2>3, RoomAhead
  <2> QED
    BY <2>4 DEF Spared, t, k
<1> QED
  BY <1>2 DEF Safe

\* The watermark leaves enough for what is written, or there is an error.
LEMMA WatermarkSafe ==
    ASSUME NEW s, Good(conf, s), Unended(s), ~Calm(conf),
           NEW x \in MemWatermark(s), x.rc # "error"
    PROVE  Safe(x)
<1>1. /\ Good(conf, x) /\ Steps(s, x, 0) /\ Mild(s, x)
      /\ \A u : Alone(s, u) /\ x.track.alerts = {} => Spared(x, u)
  BY MemWatermarkGood, MemWatermarkMild
<1>2. s \in StateType /\ Sound(conf, s)
  BY DEF Good, Sound
<1>3. Unended(x)
  <2>1. Fills(s, x)
    BY <1>1, <1>2, MildFills DEF Steps, Later
  <2>2. x.track.state = s.track.state
    BY <1>1 DEF Steps, Later
  <2> QED
    BY <1>2, <2>1, <2>2, FillsUnended
<1>4. ASSUME NEW u, Alone(x, u) PROVE Spared(x, u)
  <2>1. s.queue = <<u>> /\ s.track.alerts = {} /\ x.track.alerts = {}
        /\ s.track.state = "active"
    BY <1>1, <1>4 DEF Alone, Clean, Mild, Steps, Later
  <2>2. Alone(s, u)
    BY <1>2, <2>1, UnendedAlone
  <2> QED
    BY <1>1, <2>1, <2>2
<1> QED
  BY <1>3, <1>4 DEF Safe

\* write_chain fails for want of memory only as a last resort.
LEMMA WriteChainFills ==
    ASSUME NEW s, Good(conf, s), s.rc # "error", Unended(s),
           Roomy(s.track), NEW n \in Nat, NEW x \in WriteChain(s, n)
    PROVE  /\ Fills(s, x) /\ x.queue = s.queue
           /\ x.rc # "error" => Roomy(x.track)
<1>1. /\ s \in StateType /\ s.track \in TrackType /\ conf \in Confs
      /\ MemoryOK(conf, s.track, s.queue) /\ Sound(conf, s)
  BY StateParts DEF Sound, Good
<1>2. s.track.tail \in Int /\ s.track.written \in Nat
      /\ s.track.nfree \in Nat /\ s.track.head \in Nat
  BY <1>1 DEF TrackType
<1>3. CASE s.track.tail < 0 /\ s.track.written > 0
  <2> DEFINE y == Alert(s, "released buffer")
  <2>1. x = Rc(y, "error") /\ y = Alert(s, "released buffer")
    BY <1>3 DEF WriteChain
  <2>2. "released buffer" \in AlertNames
    BY DEF AlertNames
  <2>3. /\ y \in StateType /\ y.queue = s.queue
        /\ y.track.state = s.track.state
    BY <1>1, <2>2, AlertFields DEF SameLog
  <2> HIDE DEF y
  <2>4. Mild(s, y)
    BY ONLY <1>1, <2>1, <2>2, AlertKeeps
  <2>5. /\ Mild(s, x) /\ x.queue = s.queue /\ x.rc = "error"
        /\ x.track.state = s.track.state
    BY <2>1, <2>3, <2>4, MildRc, RcFields
  <2> QED
    BY <1>1, <2>5, MildFills
<1>4. CASE ~(s.track.tail < 0 /\ s.track.written > 0)
  <2> DEFINE Fail(y) == IF y.rc = "error" THEN [y EXCEPT !.track.werr = TRUE]
                        ELSE [y EXCEPT !.track.flush = TRUE]
             Body(y) == {Fail(z) : z \in Then(Copy(y, n), SendAll)}
             S == IF MemLeft(s.track) < conf.highMark THEN MemWatermark(s)
                  ELSE {s}
  <2>1. PICK y \in S : x \in IF y.rc = "error" THEN {y} ELSE Body(y)
    BY <1>4 DEF WriteChain, Then
  <2>2. /\ Good(conf, y) /\ Steps(s, y, 0) /\ Mild(s, y)
        /\ y.rc # "error" => Safe(y)
    <3>1. CASE MemLeft(s.track) < conf.highMark
      <4>1. ~Calm(conf)
        <5>1. MemLeft(s.track) \in Int /\ MemLeft(s.track) >= 0
          <6>1. conf.memLimit \in Nat
            BY <1>1, ConfAssumption DEF ConfType
          <6>2. MemoryOK(conf, s.track, s.queue)
            BY <1>1
          <6>3. s.track.tail - s.track.head + 1 + s.track.nfree
                    <= conf.memLimit
            BY ONLY <6>2 DEF MemoryOK
          <6> QED
            BY ONLY <1>2, <6>1, <6>3 DEF MemLeft, Nodes
        <5> QED
          BY <3>1, <5>1 DEF Calm
      <4>2. y \in MemWatermark(s)
        BY <2>1, <3>1
      <4> QED
        BY <4>1, <4>2, MemWatermarkGood, MemWatermarkMild, WatermarkSafe
    <3>2. CASE ~(MemLeft(s.track) < conf.highMark)
      <4>1. y = s
        BY <2>1, <3>2
      <4> QED
        BY <1>1, <3>2, <4>1, StepsNothing, MildNothing, RoomSafe
    <3> QED
      BY <3>1, <3>2
  <2> HIDE DEF S, Body
  <2>3. y \in StateType /\ y.track \in TrackType /\ y.queue = s.queue
        /\ Fills(s, y) /\ Roomy(y.track)
    <3>1. y \in StateType /\ y.queue = s.queue
      BY <2>2 DEF Good, Sound, Steps
    <3> QED
      BY <1>1, <2>2, <3>1, StateParts, MildFills, RoomyMild
         DEF Steps, Later
  <2>4. CASE y.rc = "error"
    BY <2>1, <2>3, <2>4
  <2>5. CASE y.rc # "error"
    <3>1. PICK z \in Then(Copy(y, n), SendAll) : x = Fail(z)
      BY <2>1, <2>5 DEF Body
    <3>2. PICK a \in Copy(y, n) :
                z \in IF a.rc = "error" THEN {a} ELSE SendAll(a)
      BY <3>1 DEF Then
    <3>3. Fits(y.track)
      <4>1. y.track.written = s.track.written /\ y.track.tail = s.track.tail
            /\ MemoryOK(conf, y.track, y.queue)
        <5>1. y.track.written \in Nat /\ y.track.tail \in Int
          BY <2>3 DEF TrackType
        <5> QED
          BY <1>2, <2>2, <5>1 DEF Steps, Later, Good, Sound
      <4>2. CASE y.track.tail # -1
        BY <4>1, <4>2 DEF MemoryOK
      <4>3. CASE y.track.tail = -1
        <5>1. y.track.written = 0
          BY <1>2, <1>4, <4>1, <4>3
        <5>2. BufSize \in Nat /\ (-1 + 1) * BufSize = 0
          BY ConfAssumption
        <5> QED
          BY <4>1, <4>3, <5>1, <5>2 DEF Fits
      <4> QED
        BY <4>1, <4>2, <4>3
    <3>4. /\ Good(conf, a) /\ Fills(y, a) /\ a.queue = y.queue
          /\ a.rc # "error" => Roomy(a.track)
      BY <2>2, <2>3, <2>5, <3>2, <3>3, CopyGood, CopyFills
    <3>5. Fills(s, a) /\ a \in StateType /\ a.queue = s.queue
      <4>1. Fills(s, a)
        BY ONLY <1>1, <2>3, <2>5, <3>4, FillsTwice
      <4> QED
        BY <2>3, <3>4, <4>1 DEF Fills
    <3>6. /\ Fills(s, z) /\ z \in StateType /\ z.queue = s.queue
          /\ z.rc # "error" => Roomy(z.track)
      <4>1. CASE a.rc = "error"
        BY <3>2, <3>5, <4>1
      <4>2. CASE a.rc # "error"
        <5>1. Good(conf, z) /\ Steps(a, z, 0) /\ Mild(a, z)
          BY <3>2, <3>4, <4>2, SendAllGood, SendAllMild
        <5>2. z \in StateType /\ z.queue = a.queue /\ Fills(a, z)
              /\ Roomy(z.track)
          <6>1. Fills(a, z) /\ Roomy(z.track)
            BY <3>4, <3>5, <4>2, <5>1, MildFills, RoomyMild
               DEF Steps, Later
          <6> QED
            BY <5>1, <6>1 DEF Good, Sound, Steps
        <5>3. Fills(s, z)
          BY ONLY <1>1, <3>5, <4>2, <5>2, FillsTwice
        <5> QED
          BY <3>5, <5>2, <5>3
      <4> QED
        BY <4>1, <4>2
    <3>7. /\ Flags(z, x) /\ x.rc = z.rc
          /\ x.track.lastFrame = z.track.lastFrame
          /\ x.track.cause = z.track.cause
      <4>1. z.track \in TrackType
        BY <3>6, StateParts
      <4> DEFINE t1 == [z.track EXCEPT !.werr = TRUE]
                 t2 == [z.track EXCEPT !.flush = TRUE]
      <4>2. /\ t1 \in TrackType /\ SameLog(z.track, t1)
            /\ t1.alerts = z.track.alerts /\ t1.cause = z.track.cause
            /\ t1.lastFrame = z.track.lastFrame
            /\ t2 \in TrackType /\ SameLog(z.track, t2)
            /\ t2.alerts = z.track.alerts /\ t2.cause = z.track.cause
            /\ t2.lastFrame = z.track.lastFrame
        BY <4>1 DEF TrackType, SameLog
      <4>3. x \in {SetTrack(z, t1), SetTrack(z, t2)}
        BY <3>1 DEF SetTrack
      <4> HIDE DEF t1, t2
      <4> QED
        BY <3>6, <4>2, <4>3, TrackFields DEF Flags
    <3>8. Fills(s, x) /\ (Roomy(z.track) => Roomy(x.track))
      BY ONLY <3>6, <3>7, FillsFlags
    <3>9. x.queue = s.queue
      BY <3>6, <3>7 DEF Flags
    <3> QED
      BY <3>6, <3>7, <3>8, <3>9
  <2> QED
    BY <2>4, <2>5
<1> QED
  BY <1>3, <1>4

\* A packet is put at the end of a log, not written yet: what is known of the
\* end of stream and of the last frame remains.
LEMMA NewPacketUnended ==
    ASSUME NEW s, Good(conf, s), Unended(s), NEW type \in PacketTypes,
           type = "open" => s.track.blocked,
           type = "eos" => s.track.state # "active",
           NEW n \in Nat \ {0}, NEW x, x = NewPacket(s, type, n)
    PROVE  /\ x.rc = s.rc /\ x.queue = s.queue /\ Unended(x)
           /\ LET t == s.track
                  t2 == x.track
              IN  /\ t2.written = t.written /\ t2.lastFrame = t.lastFrame
                  /\ t2.cause = t.cause /\ t2.tail = t.tail
                  /\ t2.state = t.state /\ t.alerts \subseteq t2.alerts
                  /\ t2.alerts = {} => End(t2, Len(t2.pkts)) = t.written + n
<1> DEFINE t == s.track
           k == Len(t.pkts)
           p == Packet(t, type, n)
<1>1. s \in StateType /\ t \in TrackType
  BY StateParts DEF Good, Sound
<1>2. /\ x.track.written = t.written /\ x.track.tail = t.tail
      /\ Onward(s, x) /\ x.rc = s.rc
  BY NewPacketGood
<1>3. x.track.state = t.state /\ x.queue = s.queue
  BY <1>2 DEF Onward
<1>4. CASE t.written < End(t, k)
  <2> DEFINE y == Alert(s, "inside packet")
  <2>1. x = y /\ y = Alert(s, "inside packet")
    BY <1>4 DEF NewPacket
  <2>2. "inside packet" \in AlertNames
    BY DEF AlertNames
  <2> HIDE DEF y
  <2>3. /\ Mild(s, x) /\ x.track.alerts # {} /\ x.track.cause = t.cause
        /\ x.track.lastFrame = t.lastFrame
    BY ONLY <1>1, <2>1, <2>2, AlertKeeps
  <2>4. Fills(s, x)
    BY <1>1, <1>3, <2>3, MildFills
  <2>5. Unended(x)
    BY ONLY <1>1, <1>3, <2>4, Unended(s), FillsUnended
  <2>6. t.alerts \subseteq x.track.alerts
    BY <2>3 DEF Mild
  <2> QED
    BY <1>2, <1>3, <2>3, <2>5, <2>6
<1>5. CASE ~(t.written < End(t, k))
  <2> DEFINE t2 == [t EXCEPT !.pkts = Append(@, p)]
  <2>1. x = SetTrack(s, t2)
    BY <1>5 DEF NewPacket, Packet, SetTrack
  <2>2. p \in PacketType /\ t.pkts \in Seq(PacketType)
    <3>1. LogOK(t)
      BY DEF Good, Sound
    <3>2. End(t, k) \in Nat /\ Frames(t, k) \in Nat
          /\ t.pkts \in Seq(PacketType)
      <4>1. k \in Nat /\ k \in 0 .. k
        BY <1>1, LogNumbers
      <4> QED
        BY <1>1, <4>1, LogNumbers
    <3>3. t.written \in Nat
      BY <1>1 DEF TrackType
    <3>4. t.written + n \in Nat
          /\ Frames(t, k) + (IF type = "frame" THEN 1 ELSE 0) \in Nat
      BY <3>2, <3>3
    <3> QED
      BY <3>2, <3>4 DEF PacketType, Packet
  <2>3. p.type = type /\ p.end = t.written + n
    BY DEF Packet
  <2> HIDE DEF p, t
  <2>4. Append(t.pkts, p) \in Seq(PacketType)
    BY <2>2
  <2>5. /\ t2 \in TrackType /\ t2.lastFrame = t.lastFrame
        /\ t2.pkts = Append(t.pkts, p) /\ t2.cause = t.cause
        /\ t2.alerts = t.alerts /\ t2.written = t.written
        /\ t2.state = t.state
    BY <1>1, <2>4 DEF TrackType
  <2> HIDE DEF t2
  <2>6. x.track = t2 /\ x.up = s.up
    BY <1>1, <2>1, <2>5, TrackFields DEF t
  <2>7. /\ Len(t2.pkts) = k + 1 /\ k \in Nat /\ DOMAIN t2.pkts = 1 .. k + 1
        /\ DOMAIN t.pkts = 1 .. k
        /\ \A j \in 0 .. k : End(t2, j) = End(t, j)
        /\ \A j \in 1 .. k : t2.pkts[j] = t.pkts[j]
        /\ t2.pkts[k + 1] = p /\ End(t2, k + 1) = p.end
    <3>1. k \in Nat /\ DOMAIN t.pkts = 1 .. k
      BY ONLY <1>1, LogNumbers
    <3>2. DOMAIN t2.pkts = 1 .. Len(t2.pkts)
      BY ONLY <2>5, LogNumbers
    <3>3. t \in TrackType /\ p \in PacketType
          /\ t2.pkts = Append(t.pkts, p)
      BY <1>1, <2>2, <2>5
    <3>4. /\ Len(t2.pkts) = k + 1
          /\ \A j \in 0 .. k : End(t2, j) = End(t, j)
          /\ \A j \in 1 .. k : t2.pkts[j] = t.pkts[j]
          /\ t2.pkts[k + 1] = p /\ End(t2, k + 1) = p.end
      BY ONLY <3>3, MorePackets
    <3> QED
      BY ONLY <3>1, <3>2, <3>4
  <2>8. FrameEnds(t) /\ EosRead(s) /\ (t.state = "active" => ~HasEos(t))
    BY DEF Unended, t
  <2>9. FrameEnds(t2)
    <3>1. t.alerts = {} => \E j \in 0 .. k : t.lastFrame = End(t, j)
      BY <2>8 DEF FrameEnds
    <3>2. ASSUME t2.alerts = {}
          PROVE  \E j \in 0 .. Len(t2.pkts) : t2.lastFrame = End(t2, j)
      <4>1. PICK j \in 0 .. k : t.lastFrame = End(t, j)
        BY <2>5, <3>1, <3>2
      <4>2. j \in 0 .. Len(t2.pkts)
        BY <2>7
      <4> QED
        BY <2>5, <2>7, <4>1, <4>2
    <3> QED
      BY <2>5, <2>8, <3>2 DEF FrameEnds
  <2>10. HasEos(t) => HasEos(t2)
    BY <2>7 DEF HasEos
  <2>11. EosRead(x)
    BY <2>6, <2>8, <2>10 DEF EosRead, t
  <2>12. ASSUME t2.state = "active" PROVE ~HasEos(t2)
    <3> SUFFICES ASSUME NEW j \in 1 .. k + 1, t2.pkts[j].type = "eos"
                 PROVE  FALSE
      BY <2>7 DEF HasEos
    <3>1. ~HasEos(t) /\ type # "eos"
      BY <2>5, <2>8, <2>12 DEF t
    <3>2. CASE j \in 1 .. k
      BY <2>7, <3>1, <3>2 DEF HasEos
    <3>3. CASE j = k + 1
      BY <2>3, <2>7, <3>1, <3>3
    <3> QED
      BY <2>7, <3>2, <3>3
  <2>13. Unended(x)
    BY <2>6, <2>9, <2>11, <2>12 DEF Unended
  <2> QED
    BY <1>2, <1>3, <2>3, <2>5, <2>6, <2>7, <2>13 DEF t
<1> QED
  BY <1>4, <1>5

\* Memory of an active track runs out from s to x as a last resort, and the call
\* fails.
LastResort(s, x) ==
    x.track.cause = "memory" /\ s.track.cause # "memory" =>
        /\ x.rc = "error" /\ s.track.state = "active"
        /\ \A u : s.queue = <<u>> => Excused(x, u)

\* A packet was written from s, or that failed.
Filled(s, x) ==
    /\ x \in StateType /\ x.queue = s.queue
    /\ Unended(x) /\ LastResort(s, x)
    /\ LET t == s.track
           t2 == x.track
       IN  /\ t2.state = t.state /\ t2.lastFrame = t.lastFrame
           /\ t.alerts \subseteq t2.alerts
           /\ t.cause # "none" => t2.cause = t.cause
           /\ x.rc # "error" =>
                /\ Roomy(t2)
                /\ t2.alerts = {} => t2.written = End(t2, Len(t2.pkts))

\* A packet is written, or memory runs out as a last resort.
LEMMA WritePacketFills ==
    ASSUME NEW s, Good(conf, s), Owned(conf, s.track), s.rc # "error",
           Unended(s), Roomy(s.track),
           NEW type \in PacketTypes, type = "open" => s.track.blocked,
           type = "eos" => s.track.state # "active",
           NEW n \in Nat, NEW x \in WritePacket(s, type, n)
    PROVE  Filled(s, x)
<1> DEFINE y == NewPacket(s, type, 1 + n)
<1>1. PICK z \in WriteChain(y, 1) :
        x \in IF z.rc = "error" \/ n = 0 THEN {z} ELSE WriteChain(z, n)
  BY DEF WritePacket, Then
<1>2. y = NewPacket(s, type, 1 + n) /\ 1 + n \in Nat \ {0}
  OBVIOUS
<1> HIDE DEF y
<1>3. /\ Good(conf, y) /\ y.track.written = s.track.written
      /\ y.track.tail = s.track.tail
  BY <1>2, NewPacketGood
<1>4. /\ y.rc = s.rc /\ y.queue = s.queue /\ Unended(y)
      /\ LET t == s.track
             t2 == y.track
         IN  /\ t2.lastFrame = t.lastFrame /\ t2.cause = t.cause
             /\ t2.state = t.state /\ t.alerts \subseteq t2.alerts
             /\ t2.alerts = {} => End(t2, Len(t2.pkts)) = t.written + (1 + n)
  BY <1>2, NewPacketUnended
<1>5. Roomy(y.track)
  BY <1>3, <1>4 DEF Roomy
<1>6. Wrote(y, z, 1)
  <2>1. Owned(conf, y.track)
    BY <1>3 DEF Owned
  <2> QED
    BY <1>1, <1>3, <2>1, WriteChainGood
<1>7. /\ Fills(y, z) /\ z.queue = y.queue
      /\ z.rc # "error" => Roomy(z.track)
  BY <1>1, <1>3, <1>4, <1>5, WriteChainFills
<1>8. /\ z.track.state = y.track.state /\ Good(conf, z) /\ z \in StateType
      /\ y \in StateType
  BY <1>3, <1>6 DEF Wrote, Goes, Steps, Later, Good, Sound
<1>9. Unended(z)
  BY <1>4, <1>7, <1>8, FillsUnended
<1>10. /\ Fills(y, x) /\ x.queue = y.queue
       /\ x.rc # "error" => Roomy(x.track)
       /\ x.track.state = y.track.state
  <2>1. CASE z.rc = "error" \/ n = 0
    <3>1. x = z
      BY <1>1, <2>1
    <3> QED
      BY <1>7, <1>8, <3>1
  <2>2. CASE ~(z.rc = "error" \/ n = 0)
    <3>1. x \in WriteChain(z, n)
      BY <1>1, <2>2
    <3>2. /\ Fills(z, x) /\ x.queue = z.queue
          /\ x.rc # "error" => Roomy(x.track)
      BY <1>7, <1>8, <1>9, <2>2, <3>1, WriteChainFills
    <3>3. Fills(y, x)
      BY <1>7, <1>8, <2>2, <3>2, FillsTwice
    <3>4. Owned(conf, z.track)
      <4>1. z.track.tail \in Int
        BY <1>8, StateParts DEF TrackType
      <4> QED
        BY <1>6, <2>2, <4>1 DEF Wrote, Owned
    <3>5. x.track.state = z.track.state
      BY <1>8, <3>1, <3>4, WriteChainGood DEF Wrote, Goes, Steps, Later
    <3> QED
      BY <1>7, <1>8, <3>2, <3>3, <3>5
  <2> QED
    BY <2>1, <2>2
<1>11. Unended(x) /\ x \in StateType
  BY <1>4, <1>8, <1>10, FillsUnended DEF Fills
<1>12. LastResort(s, x)
  BY <1>4, <1>10 DEF Fills, LastResort
<1>13. ASSUME x.rc # "error", x.track.alerts = {}
       PROVE  x.track.written = End(x.track, Len(x.track.pkts))
  <2>1. x.track.written = s.track.written + 1 + n
    BY <1>13, WritePacketGood DEF Writes
  <2>2. x.track.pkts = y.track.pkts /\ y.track.alerts = {}
    BY <1>10, <1>13 DEF Fills
  <2>3. End(x.track, Len(x.track.pkts)) = s.track.written + (1 + n)
    BY <1>4, <2>2 DEF End
  <2>4. s.track.written \in Nat
    BY StateParts DEF Good, Sound, TrackType
  <2> QED
    BY ONLY <2>1, <2>3, <2>4, n \in Nat
<1>14. /\ x.track.state = s.track.state
       /\ x.track.lastFrame = s.track.lastFrame
       /\ s.track.alerts \subseteq x.track.alerts
       /\ s.track.cause # "none" => x.track.cause = s.track.cause
  BY <1>4, <1>10 DEF Fills
<1> QED
  BY <1>4, <1>10, <1>11, <1>12, <1>13, <1>14 DEF Filled

-----------------------------------------------------------------------------
(* Errors and the end of a track are mild *)

\* The owner gets an error: there is a cause.
LEMMA OwnerErrorMild ==
    ASSUME NEW s \in StateType, NEW x, x = OwnerError(s)
    PROVE  /\ Mild(s, x) /\ x.track.cause # "none" /\ x.queue = s.queue
           /\ x.up = s.up /\ x.track.alerts = s.track.alerts
<1> DEFINE t == s.track
           c == IF t.cause = "none" THEN "other" ELSE t.cause
           t2 == [t EXCEPT !.oerr = TRUE, !.cause = c]
           y == SetTrack(s, t2)
<1>1. t \in TrackType
  BY StateParts
<1>2. x = Rc(y, "ok")
  BY <1>1 DEF OwnerError, SetTrack, Rc, StateType, TrackType
<1>3. /\ c \in {"none", "memory", "optional", "other"} /\ c # "none"
      /\ t.cause # "none" => c = t.cause
      /\ c = "memory" => t.cause = "memory"
  <2> HIDE DEF t
  <2> QED
    BY <1>1 DEF TrackType
<1> HIDE DEF c
<1>4. /\ t2 \in TrackType /\ t2.pkts = t.pkts /\ t2.written = t.written
      /\ t2.lastFrame = t.lastFrame /\ t2.tail = t.tail
      /\ t2.alerts = t.alerts /\ t2.cause = c
  <2> HIDE DEF t
  <2> QED
    BY <1>1, <1>3 DEF TrackType
<1>5. y = SetTrack(s, t2)
  OBVIOUS
<1> HIDE DEF t2, y
<1>6. /\ y \in StateType /\ y.track = t2 /\ y.up = s.up
      /\ y.queue = s.queue
  BY <1>4, <1>5, TrackFields
<1>7. /\ x \in StateType /\ x.track = y.track /\ x.up = y.up
      /\ x.queue = y.queue
  BY <1>2, <1>6, RcFields
<1>8. SameCause(t, t2)
  BY <1>3, <1>4 DEF SameCause
<1>9. Mild(s, x)
  BY <1>4, <1>6, <1>7, <1>8, MildTrack
<1> QED
  BY <1>3, <1>4, <1>6, <1>7, <1>9

\* The buffers of a track without upstreams are released.
LEMMA CleanupMild ==
    ASSUME NEW s \in StateType, NEW x, x = Cleanup(s)
    PROVE  /\ Mild(s, x) /\ x.queue = s.queue /\ x.up = s.up
           /\ x.track.alerts = s.track.alerts
           /\ x.track.cause = s.track.cause
           /\ x.queue = << >> => x.track.tail = -1
<1> DEFINE t == s.track
           t1 == [t EXCEPT !.flush = FALSE, !.keep = FALSE]
           t2 == [t1 EXCEPT !.head = 0, !.tail = -1, !.nfree = 0,
                            !.freed = t1.detached]
<1>1. t \in TrackType
  BY StateParts
<1>2. x = SetTrack(s, IF s.queue # << >> THEN t1 ELSE t2)
  BY DEF Cleanup, SetTrack
<1>3. /\ t1 \in TrackType /\ t1.pkts = t.pkts /\ t1.written = t.written
      /\ t1.lastFrame = t.lastFrame /\ t1.tail = t.tail
      /\ t1.alerts = t.alerts /\ t1.cause = t.cause
  <2> HIDE DEF t
  <2> QED
    BY <1>1 DEF TrackType
<1>4. /\ t2 \in TrackType /\ t2.pkts = t1.pkts /\ t2.written = t1.written
      /\ t2.lastFrame = t1.lastFrame /\ t2.tail = -1
      /\ t2.alerts = t1.alerts /\ t2.cause = t1.cause
  <2> DEFINE m == -1
             d == t1.detached
             t3 == [t1 EXCEPT !.head = 0, !.tail = m]
  <2>1. t1 \in TrackType /\ m \in Int /\ d \in BOOLEAN
        /\ t2 = [t3 EXCEPT !.nfree = 0, !.freed = d] /\ m = -1
    <3> HIDE DEF t, t1
    <3> QED
      BY <1>3 DEF TrackType
  <2> HIDE DEF m, d, t1, t2
  <2>2. /\ t3 \in TrackType /\ t3.pkts = t1.pkts
        /\ t3.written = t1.written /\ t3.lastFrame = t1.lastFrame
        /\ t3.tail = m /\ t3.alerts = t1.alerts /\ t3.cause = t1.cause
    BY <2>1 DEF TrackType
  <2> HIDE DEF t3
  <2>3. /\ t2 \in TrackType /\ t2.pkts = t3.pkts
        /\ t2.written = t3.written /\ t2.lastFrame = t3.lastFrame
        /\ t2.tail = t3.tail /\ t2.alerts = t3.alerts
        /\ t2.cause = t3.cause
    BY <2>1, <2>2 DEF TrackType
  <2> QED
    BY ONLY <2>1, <2>2, <2>3
<1> HIDE DEF t1, t2, t
<1>5. PICK t4 \in {t1, t2} : /\ x = SetTrack(s, t4)
                             /\ s.queue = << >> => t4 = t2
  BY <1>2
<1>6. /\ t4 \in TrackType /\ t4.pkts = t.pkts /\ t4.written = t.written
      /\ t4.lastFrame = t.lastFrame /\ t4.tail \in {t.tail, -1}
      /\ t4.alerts = t.alerts /\ t4.cause = t.cause
      /\ s.queue = << >> => t4.tail = -1
  BY <1>3, <1>4, <1>5
<1>7. /\ x \in StateType /\ x.track = t4 /\ x.up = s.up
      /\ x.queue = s.queue
  BY ONLY <1>5, <1>6, s \in StateType, TrackFields
<1>8. SameCause(t, t4)
  BY <1>6 DEF SameCause
<1>9. Mild(s, x)
  BY <1>6, <1>7, <1>8, MildTrack DEF t
<1> QED
  BY <1>6, <1>7, <1>9 DEF t

\* An error of the track
LEMMA TrackErrorMild ==
    ASSUME NEW s \in StateType, NEW x, x = TrackError(s)
    PROVE  /\ Mild(s, x) /\ x.queue = s.queue /\ x.up = s.up
           /\ x.track.alerts = s.track.alerts
           /\ ~s.track.detached => x.track.cause # "none"
<1>1. CASE s.track.detached
  <2> DEFINE y == Cleanup(s)
  <2>1. x = Rc(y, "ok") /\ y = Cleanup(s)
    BY <1>1 DEF TrackError
  <2> HIDE DEF y
  <2>2. /\ Mild(s, y) /\ y.queue = s.queue /\ y.up = s.up
        /\ y.track.alerts = s.track.alerts
    BY <2>1, CleanupMild
  <2>3. y \in StateType
    BY <2>2 DEF Mild
  <2>4. Mild(s, x) /\ x.track = y.track /\ x.up = y.up /\ x.queue = y.queue
    BY <2>1, <2>2, <2>3, MildRc, RcFields
  <2> QED
    BY <1>1, <2>2, <2>4
<1>2. CASE ~s.track.detached
  <2>1. x = OwnerError(s)
    BY <1>2 DEF TrackError
  <2> QED
    BY <2>1, OwnerErrorMild
<1> QED
  BY <1>1, <1>2

\* An upstream is freed.
LEMMA FreeUpstreamMild ==
    ASSUME NEW s, Good(conf, s), NEW u \in ToSet(s.queue),
           NEW x, x = FreeUpstream(s, u)
    PROVE  Mild(s, x)
<1> DEFINE q == RemoveAt(s.queue, CHOOSE i \in DOMAIN s.queue :
                                        s.queue[i] = u)
           z == [NoUpstream EXCEPT !.used = TRUE]
<1>1. s \in StateType /\ u \in Upstreams
  BY StateParts DEF Good, Sound
<1>2. /\ Good(conf, x) /\ x.track = s.track
      /\ \A v \in Upstreams \ {u} : x.up[v] = s.up[v]
  BY FreeUpstreamGood
<1>3. x = [s EXCEPT !.queue = q, !.up[u] = z] /\ ~z.eos
  BY DEF FreeUpstream, NoUpstream
<1> HIDE DEF q, z
<1>4. s.up \in [Upstreams -> UpType] /\ x.up = [s.up EXCEPT ![u] = z]
  BY <1>1, <1>3 DEF StateType
<1>5. ~x.up[u].eos
  BY <1>1, <1>3, <1>4
<1>6. x \in StateType /\ s.track \in TrackType
  BY <1>1, <1>2, StateParts DEF Good, Sound
<1>7. PastEos(s, x)
  BY <1>2, <1>5 DEF PastEos
<1> QED
  BY <1>2, <1>6, <1>7 DEF Mild, SameCause

\* ... and the owner told if that matters.
LEMMA FreeNotifyMild ==
    ASSUME NEW s, Good(conf, s), NEW u \in ToSet(s.queue),
           NEW x, x = FreeNotify(s, u)
    PROVE  Mild(s, x)
<1> DEFINE y == FreeUpstream(s, u)
<1>1. y = FreeUpstream(s, u)
      /\ x = IF ~conf.required[u] /\ y.queue # << >> THEN Rc(y, "ok")
             ELSE TrackError(y)
  BY DEF FreeNotify
<1> HIDE DEF y
<1>2. Mild(s, y)
  BY <1>1, FreeUpstreamMild
<1>3. y \in StateType
  BY <1>2 DEF Mild
<1>4. CASE ~conf.required[u] /\ y.queue # << >>
  BY <1>1, <1>2, <1>4, MildRc
<1>5. CASE ~(~conf.required[u] /\ y.queue # << >>)
  <2>1. x = TrackError(y)
    BY <1>1, <1>5
  <2>2. Mild(y, x)
    BY <1>3, <2>1, TrackErrorMild
  <2> QED
    BY <1>2, <2>2, MildTwice
<1> QED
  BY <1>4, <1>5

\* An error of an upstream: it is connected again, or freed.
LEMMA UpstreamErrorMild ==
    ASSUME NEW s, Good(conf, s), NEW u \in ToSet(s.queue),
           NEW x \in UpstreamError(s, u)
    PROVE  Mild(s, x)
<1> DEFINE r == Rc(s, "ok")
<1>1. PICK y \in Republish(r, u) :
            x = IF y.rc = "ok" THEN y ELSE FreeNotify(y, u)
  BY DEF UpstreamError
<1>2. s \in StateType /\ u \in Upstreams /\ s.faults <= conf.maxFaults
  BY StateParts DEF Good, Sound
<1>3. /\ r \in StateType /\ r.track = s.track /\ r.up = s.up
      /\ r.queue = s.queue /\ r.faults = s.faults
  BY <1>2, RcFields
<1>4. Mild(s, r)
  BY <1>2, MildNothing, MildRc
<1> HIDE DEF r
<1>5. Good(conf, r) /\ u \in ToSet(r.queue)
  BY <1>2, <1>3, GoodSame DEF Good
<1>6. Mild(r, y)
  BY <1>1, <1>5, RepublishTame DEF Good, Tame
<1>7. Good(conf, y) /\ u \in ToSet(y.queue)
  BY <1>1, <1>5, RepublishGood DEF Good, Touches
<1>8. Mild(s, y)
  BY <1>4, <1>6, MildTwice
<1>9. CASE y.rc = "ok"
  BY <1>1, <1>8, <1>9
<1>10. CASE y.rc # "ok"
  <2>1. x = FreeNotify(y, u)
    BY <1>1, <1>10
  <2>2. Mild(y, x)
    BY <1>7, <2>1, FreeNotifyMild
  <2> QED
    BY <1>8, <2>2, MildTwice
<1> QED
  BY <1>9, <1>10

\* ngx_kmp_out_upstream_write_handler sends, or there is an error.
LEMMA WriteHandlerMild ==
    ASSUME NEW s, Good(conf, s), MaySend(s.track),
           NEW u \in ToSet(s.queue), NEW x \in WriteHandler(s, u)
    PROVE  Mild(s, x)
<1>1. PICK y \in SendChain(s, u) :
        IF y.rc = "error" THEN x \in UpstreamError(y, u) ELSE x = y
  BY DEF WriteHandler
<1>2. Mild(s, y)
  BY <1>1, SendChainMild DEF Good
<1>3. Good(conf, y) /\ u \in ToSet(y.queue)
  BY <1>1, SendChainGood DEF Touches
<1>4. CASE y.rc = "error"
  <2>1. Mild(y, x)
    BY <1>1, <1>3, <1>4, UpstreamErrorMild
  <2> QED
    BY <1>2, <2>1, MildTwice
<1> QED
  BY <1>1, <1>2, <1>4

\* What is appended and sent
LEMMA FlushMild ==
    ASSUME NEW s, Good(conf, s), NEW x \in Flush(s)
    PROVE  Mild(s, x)
<1>1. PICK a \in AppendAll(s) :
        x \in IF a.rc = "error" THEN {a} ELSE SendAll(a)
  BY DEF Flush, Then
<1>2. Good(conf, a) /\ Mild(s, a)
  BY <1>1, AppendAllGood, AppendAllMild
<1>3. CASE a.rc = "error"
  BY <1>1, <1>2, <1>3
<1>4. CASE a.rc # "error"
  <2>1. Mild(a, x)
    BY <1>1, <1>2, <1>4, SendAllMild
  <2> QED
    BY <1>2, <2>1, MildTwice
<1> QED
  BY <1>3, <1>4

\* One more fault
LEMMA FaultMild ==
    ASSUME NEW s, Good(conf, s), NEW x \in Fault(s)
    PROVE  Mild(s, x) /\ Good(conf, x) /\ x.queue = s.queue
<1>1. /\ Good(conf, x) /\ x \in StateType /\ x.track = s.track
      /\ x.up = s.up /\ x.queue = s.queue
  BY FaultGood
<1>2. s \in StateType
  BY DEF Good, Sound
<1> QED
  BY <1>1, <1>2, MildNothing, MildSame

-----------------------------------------------------------------------------
(* What an action leaves *)

\* An action that starts in r leaves x.
Rests(r, x) ==
    /\ x \in StateType /\ Fine(x)
    /\ x.track.cause = "memory" /\ r.track.cause # "memory" =>
            \A u : r.queue = <<u>> => Excused(x, u)

Rested == \E x : Rests(Now, x) /\ Become(x)

\* That is what MemoryLastResort says of a step.
Resorted ==
    \A u \in Upstreams :
        queue = <<u>> /\ track.cause # "memory" /\ track'.cause = "memory"
            => \/ up'[u].noRep \/ up'[u].reps >= conf.maxRepublishes
               \/ track'.written - track'.lastFrame
                        > (conf.highMark - 1) * BufSize
               \/ track'.alerts # {}

\* It leaves what is fine, and is excused if memory ran out.
LEMMA RestedFine ==
    ASSUME Rested
    PROVE  Fine(Now)' /\ Resorted
<1>1. PICK x : Rests(Now, x) /\ Become(x)
  BY DEF Rested
<1>2. /\ track' = x.track /\ up' = x.up /\ queue' = x.queue
      /\ conf' = conf
  BY <1>1 DEF Become
<1>3. Now.track = track /\ Now.queue = queue
  BY DEF Now
<1>4. Fine(x)
  BY <1>1 DEF Rests
<1>5. Roomy(track') /\ FrameEnds(track')
      /\ \A v \in Upstreams : up'[v].eos => HasEos(track')
  BY <1>2, <1>4 DEF Fine, EosRead
<1>6. Fine(Now)'
  BY <1>5 DEF Fine, EosRead, Now
<1>7. Resorted
  BY <1>1, <1>2, <1>3 DEF Rests, Excused, Resorted
<1> QED
  BY <1>6, <1>7

\* A call that writes nothing
LEMMA MildRests ==
    ASSUME NEW s \in StateType, Fine(s), NEW x, Mild(s, x)
    PROVE  Rests(s, x)
BY MildFine DEF Mild, SameCause, Rests

\* ... is an action.
LEMMA MildRested ==
    ASSUME MInv, NEW x, Mild(Now, x), Become(x)
    PROVE  Rested
BY NowGood, MildRests DEF MInv, Rested

\* The flush timer expires.
LEMMA FlushTimerRested ==
    ASSUME MInv, FlushTimer
    PROVE  Rested
<1> DEFINE t2 == [track EXCEPT !.flush = FALSE]
           r == [Now EXCEPT !.track.flush = FALSE]
<1>1. PICK s \in Flush(r) :
        Become(IF s.rc = "error" THEN TrackError(s) ELSE s)
  BY DEF FlushTimer
<1>2. /\ Now \in StateType /\ Now.track = track /\ Good(conf, Now)
      /\ MostOK(Now.track, Now.queue) /\ track \in TrackType
  BY NowGood DEF MInv
<1>3. /\ t2 \in TrackType /\ SameLog(track, t2)
      /\ t2.alerts = track.alerts /\ t2.lastFrame = track.lastFrame
      /\ t2.cause = track.cause
  BY <1>2 DEF TrackType, SameLog
<1>4. r = SetTrack(Now, t2)
  BY <1>2 DEF SetTrack
<1> HIDE DEF t2, r
<1>5. Flags(Now, r) /\ r.track = t2
  BY <1>2, <1>3, <1>4, TrackFields DEF Flags
<1>6. Good(conf, r)
  BY <1>2, <1>5, FlagsGood
<1>7. Mild(Now, r)
  BY <1>2, <1>3, <1>5, FlagsMild DEF SameCause
<1>8. Mild(r, s)
  BY <1>1, <1>6, FlushMild
<1>9. Mild(Now, s) /\ s \in StateType
  BY <1>7, <1>8, MildTwice DEF Mild
<1>10. CASE s.rc = "error"
  <2> DEFINE x == TrackError(s)
  <2>1. Become(x) /\ x = TrackError(s)
    BY <1>1, <1>10
  <2> HIDE DEF x
  <2>2. Mild(s, x)
    BY <1>9, <2>1, TrackErrorMild
  <2>3. Mild(Now, x)
    BY <1>9, <2>2, MildTwice
  <2> QED
    BY <2>1, <2>3, MildRested
<1>11. CASE s.rc # "error"
  BY <1>1, <1>9, <1>11, MildRested
<1> QED
  BY <1>10, <1>11

\* What is known of an upstream whose connection, call or timer is concerned
LEMMA NowListed ==
    ASSUME IInv, NEW u \in Upstreams,
           \/ up[u].conn # "none"
           \/ up[u].call \/ up[u].timer \/ up[u].wtimer
    PROVE  /\ Now \in StateType /\ Good(conf, Now) /\ Now.up = up
           /\ Now.track = track /\ u \in ToSet(Now.queue)
           /\ up[u] \in UpType /\ MaySend(track) /\ UpOK(track, up[u])
<1>1. /\ Now \in StateType /\ Good(conf, Now) /\ Now.up = up
      /\ Now.track = track /\ u \in ToSet(Now.queue)
      /\ WholeOK(track) /\ UpsOK(Now.track, Now.up, Now.queue)
  BY NowGood, Listed DEF Good, Sound
<1>2. up[u] \in UpType
  BY <1>1, StateParts
<1> QED
  BY <1>1, <1>2 DEF MaySend, WholeOK, UpsOK

\* A new address is used.
LEMMA RepublishReplyRested ==
    ASSUME MInv, NEW u \in Upstreams, RepublishReply(u)
    PROVE  Rested
<1> DEFINE y == [up[u] EXCEPT !.call = FALSE, !.conn = "connecting",
                              !.wtimer = TRUE]
           x == [Now EXCEPT !.up[u] = y]
<1>1. up[u].call /\ Become(x)
  BY DEF RepublishReply, Now
<1>2. x = SetUp(Now, u, y)
  BY DEF SetUp
<1>3. Now \in StateType /\ Now.up = up /\ up[u] \in UpType
  BY <1>1, NowListed DEF MInv
<1>4. y \in UpType /\ y.eos = up[u].eos
  BY <1>3 DEF UpType
<1> HIDE DEF x, y
<1>5. Mild(Now, x)
  BY <1>2, <1>3, <1>4, MildUp
<1> QED
  BY <1>1, <1>5, MildRested

\* There is none: the upstream is freed.
LEMMA RepublishFailRested ==
    ASSUME MInv, NEW u \in Upstreams, RepublishFail(u)
    PROVE  Rested
<1>1. PICK f \in Fault(Now) : Become(FreeNotify(f, u))
  BY DEF RepublishFail
<1>2. Good(conf, Now) /\ u \in ToSet(Now.queue)
  BY NowListed DEF RepublishFail, MInv
<1>3. Mild(Now, f) /\ Good(conf, f) /\ f.queue = Now.queue
  BY <1>1, <1>2, FaultMild
<1> DEFINE x == FreeNotify(f, u)
<1>4. x = FreeNotify(f, u) /\ Become(x)
  BY <1>1
<1> HIDE DEF x
<1>5. Mild(f, x)
  BY <1>2, <1>3, <1>4, FreeNotifyMild
<1>6. Mild(Now, x)
  BY <1>3, <1>5, MildTwice
<1> QED
  BY <1>4, <1>6, MildRested

\* The timer of a republish expires.
LEMMA RepublishTimerRested ==
    ASSUME MInv, NEW u \in Upstreams, RepublishTimer(u)
    PROVE  Rested
<1> DEFINE y == [up[u] EXCEPT !.timer = FALSE]
           r == [Now EXCEPT !.up[u].timer = FALSE]
<1>1. PICK s \in RepublishSend(r, u) :
        Become(IF s.rc = "error" THEN FreeNotify(s, u) ELSE s)
  BY DEF RepublishTimer
<1>2. /\ Now \in StateType /\ Good(conf, Now) /\ Now.up = up
      /\ u \in ToSet(Now.queue) /\ up[u] \in UpType
  BY NowListed DEF RepublishTimer, MInv
<1>3. r = SetUp(Now, u, y)
  BY <1>2 DEF SetUp, StateType
<1>4. /\ y \in UpType /\ y.acked = up[u].acked /\ y.eos = up[u].eos
      /\ y.confirmed = up[u].confirmed /\ y.used = up[u].used
      /\ y.conn = up[u].conn /\ y.sent = up[u].sent
      /\ y.skew = up[u].skew
  BY <1>2 DEF UpType
<1>5. /\ conf \in Confs /\ faults <= conf.maxFaults /\ Now.faults = faults
      /\ PhaseOK(Now.track, Now.queue)
  BY <1>2, NowGood DEF Good, Sound, MInv
<1> HIDE DEF r, y
<1>6. Mild(Now, r) /\ r \in StateType
  BY <1>2, <1>3, <1>4, MildUp DEF Mild
<1>7. Mild(r, s)
  BY <1>1, <1>5, <1>6, RepublishSendTame DEF Tame
<1>8. Mild(Now, s)
  BY <1>6, <1>7, MildTwice
<1>9. Good(conf, s) /\ u \in ToSet(s.queue)
  <2>1. Quiet(Now, r, u) /\ r.faults = faults
    BY <1>2, <1>3, <1>4, <1>5, SetUpQuiet
  <2>2. Quiet(r, s, u) /\ s.faults <= conf.maxFaults
    BY <1>1, <1>5, <1>6, <2>1, RepublishSendQuiet
  <2>3. Quiet(Now, s, u)
    BY <2>1, <2>2, QuietTwice
  <2> QED
    BY <1>2, <1>5, <2>2, <2>3, QuietDone DEF Done, Touches
<1>10. CASE s.rc = "error"
  <2> DEFINE x == FreeNotify(s, u)
  <2>1. x = FreeNotify(s, u) /\ Become(x)
    BY <1>1, <1>10
  <2> HIDE DEF x
  <2>2. Mild(s, x)
    BY <1>9, <2>1, FreeNotifyMild
  <2>3. Mild(Now, x)
    BY <1>8, <2>2, MildTwice
  <2> QED
    BY <2>1, <2>3, MildRested
<1> QED
  BY <1>1, <1>8, <1>10, MildRested

\* More can be written to the socket.
LEMMA WriteReadyRested ==
    ASSUME MInv, NEW u \in Upstreams, WriteReady(u)
    PROVE  Rested
<1> DEFINE y == [up[u] EXCEPT !.ready = TRUE]
           r == [Now EXCEPT !.up[u].ready = TRUE]
<1>1. PICK x \in WriteHandler(r, u) : Become(x)
  BY DEF WriteReady
<1>2. /\ Now \in StateType /\ Good(conf, Now) /\ Now.up = up
      /\ u \in ToSet(Now.queue) /\ up[u] \in UpType
      /\ Now.track = track /\ MaySend(track)
  BY NowListed DEF WriteReady, MInv
<1>3. r = SetUp(Now, u, y)
  BY <1>2 DEF SetUp, StateType
<1>4. /\ y \in UpType /\ y.acked = up[u].acked /\ y.eos = up[u].eos
      /\ y.confirmed = up[u].confirmed /\ y.used = up[u].used
      /\ y.conn = up[u].conn /\ y.sent = up[u].sent
      /\ y.skew = up[u].skew
  BY <1>2 DEF UpType
<1>5. faults <= conf.maxFaults /\ Now.faults = faults
      /\ PhaseOK(Now.track, Now.queue)
  BY <1>2, NowGood DEF Good, Sound, MInv
<1> HIDE DEF r, y
<1>6. Mild(Now, r) /\ r.track = track
  BY <1>2, <1>3, <1>4, MildUp, UpFields
<1>7. Good(conf, r) /\ u \in ToSet(r.queue)
  <2>1. Quiet(Now, r, u) /\ r.faults = faults
    BY <1>2, <1>3, <1>4, <1>5, SetUpQuiet
  <2> QED
    BY <1>2, <1>5, <2>1, QuietDone DEF Done, Touches
<1>8. Mild(r, x)
  BY <1>1, <1>2, <1>6, <1>7, WriteHandlerMild
<1>9. Mild(Now, x)
  BY <1>6, <1>8, MildTwice
<1> QED
  BY <1>1, <1>9, MildRested

\* The peer reads nothing, or closes the connection.
LEMMA PeerRested ==
    ASSUME MInv, NEW u \in Upstreams,
           WriteTimeout(u) \/ PeerClosed(u) \/ PeerDone(u)
    PROVE  Rested
<1>1. Good(conf, Now) /\ u \in ToSet(Now.queue)
  BY NowListed DEF WriteTimeout, PeerClosed, PeerDone, MInv
<1>2. PICK x : /\ Become(x)
               /\ \/ x \in UpstreamError(Now, u)
                  \/ \E f \in Fault(Now) : x \in UpstreamError(f, u)
  BY DEF WriteTimeout, PeerClosed, PeerDone
<1>3. ASSUME NEW f \in Fault(Now), x \in UpstreamError(f, u)
      PROVE  Mild(Now, x)
  <2>1. Mild(Now, f) /\ Good(conf, f) /\ f.queue = Now.queue
    BY <1>1, FaultMild
  <2>2. Mild(f, x)
    BY <1>1, <1>3, <2>1, UpstreamErrorMild
  <2> QED
    BY <2>1, <2>2, MildTwice
<1>4. Mild(Now, x)
  BY <1>1, <1>2, <1>3, UpstreamErrorMild
<1> QED
  BY <1>2, <1>4, MildRested

\* The connection carries what was not acked.
LEMMA SendBufferedMild ==
    ASSUME IInv, NEW u \in ToSet(Now.queue), up[u].conn = "connecting",
           NEW x, x = SendBuffered(Now, u)
    PROVE  Mild(Now, x)
<1> DEFINE off  == End(track, up[u].acked)
           from == Min({off, track.appended})
           y == [up[u] EXCEPT !.conn = "up", !.ready = TRUE,
                    !.pre = 1, !.sent = from, !.skew = off - from]
           z == SetUp(Now, u, y)
<1>1. /\ Now \in StateType /\ Good(conf, Now) /\ Now.up = up
      /\ Now.track = track /\ track \in TrackType
  BY NowGood
<1>2. UpOK(track, up[u]) /\ u \in Upstreams /\ up[u] \in UpType
  BY <1>1, StateParts DEF Good, Sound, UpsOK
<1>3. off \in Nat /\ track.appended \in Nat
  <2>1. up[u].acked \in 0 .. Len(track.pkts)
    BY <1>2 DEF UpOK, UpType
  <2> QED
    BY <1>1, <2>1, LogNumbers DEF TrackType
<1> HIDE DEF off
<1>4. from \in Nat /\ from <= off
  BY <1>3, MinIsOne
<1>5. x = IF Readable(track, up[u]) THEN z ELSE Alert(z, "stale read")
  BY <1>1 DEF SendBuffered, SetUp, off
<1> HIDE DEF from
<1>6. off - from \in Nat
  BY <1>3, <1>4
<1>7. y \in UpType /\ y.eos = up[u].eos
  BY <1>2, <1>4, <1>6 DEF UpType
<1> HIDE DEF y
<1>8. z = SetUp(Now, u, y)
  OBVIOUS
<1> HIDE DEF z
<1>9. Mild(Now, z) /\ z \in StateType
  BY <1>1, <1>2, <1>7, <1>8, MildUp DEF Mild
<1>10. "stale read" \in AlertNames
  BY DEF AlertNames
<1>11. Mild(z, Alert(z, "stale read"))
  BY <1>9, <1>10, AlertKeeps
<1>12. Mild(Now, Alert(z, "stale read"))
  BY <1>9, <1>11, MildTwice
<1> QED
  BY <1>5, <1>9, <1>12

\* The connection is there.
LEMMA ConnectedRested ==
    ASSUME MInv, NEW u \in Upstreams, Connected(u)
    PROVE  Rested
<1> DEFINE r == SendBuffered(Now, u)
<1>1. PICK x \in WriteHandler(r, u) : Become(x)
  BY DEF Connected
<1>2. r = SendBuffered(Now, u) /\ up[u].conn = "connecting"
  BY DEF Connected
<1> HIDE DEF r
<1>3. /\ IInv /\ u \in ToSet(Now.queue) /\ MaySend(track)
      /\ Now.track = track
  BY <1>2, NowListed DEF MInv
<1>4. Good(conf, r) /\ Steps(Now, r, 0) /\ Mild(Now, r)
  BY <1>2, <1>3, SendBufferedGood, SendBufferedMild
<1>5. u \in ToSet(r.queue) /\ MaySend(r.track)
  BY <1>3, <1>4 DEF Steps, Later, MaySend
<1>6. Mild(r, x)
  BY <1>1, <1>4, <1>5, WriteHandlerMild
<1>7. Mild(Now, x)
  BY <1>4, <1>6, MildTwice
<1> QED
  BY <1>1, <1>7, MildRested

\* The reader is moved to the frames that were acked, or that fails.
LEMMA AckFramesMild ==
    ASSUME NEW s \in StateType, NEW u \in Upstreams, NEW id \in Nat,
           s.up[u].acked <= Len(s.track.pkts),
           NEW x, x = AckFrames(s, u, id),
           \E k \in 0 .. Len(s.track.pkts) : Frames(s.track, k) >= id
                                            /\ k >= s.up[u].acked
    PROVE  Mild(s, x)
<1> DEFINE T == {j \in s.up[u].acked .. Len(s.track.pkts) :
                    Frames(s.track, j) >= id}
           k == Min(T)
           y == [s.up[u] EXCEPT !.acked = k]
           failed == Rc([s EXCEPT !.up[u].noRep = TRUE], "error")
<1>1. s.track \in TrackType /\ s.up \in [Upstreams -> UpType]
      /\ s.up[u] \in UpType
  BY StateParts
<1>2. s.up[u].acked \in Nat /\ Len(s.track.pkts) \in Nat
  BY <1>1, LogNumbers DEF UpType
<1>3. T \subseteq Nat /\ T # {}
  BY <1>2
<1>4. k \in Nat
  <2> HIDE DEF T
  <2> QED
    BY <1>3, MinLeast
<1>5. \/ x = s
      \/ x = Alert(failed, "stale read")
      \/ x = Alert(failed, "skip failed")
      \/ x = [s EXCEPT !.up[u].acked = k]
  BY DEF AckFrames
<1>6. [s EXCEPT !.up[u].acked = k] = SetUp(s, u, y)
  BY DEF SetUp
<1> HIDE DEF k, T
<1>7. y \in UpType /\ y.eos = s.up[u].eos
  BY <1>1, <1>4 DEF UpType
<1>8. y = y /\ failed = Rc([s EXCEPT !.up[u].noRep = TRUE], "error")
  OBVIOUS
<1> HIDE DEF y, failed
<1>9. Mild(s, SetUp(s, u, y))
  BY <1>7, MildUp
<1>10. Mild(s, [s EXCEPT !.up[u].noRep = TRUE])
  BY MildNothing, MildMore
<1>11. Mild(s, failed)
  BY <1>8, <1>10, MildMore
<1>12. \A a \in AlertNames : Mild(s, Alert(failed, a))
  BY <1>11, MildMore
<1>13. "stale read" \in AlertNames /\ "skip failed" \in AlertNames
  BY DEF AlertNames
<1> QED
  BY <1>5, <1>6, <1>9, <1>12, <1>13, MildNothing

\* An ack is read.
LEMMA ReadAckRested ==
    ASSUME MInv, NEW u \in Upstreams, ReadAck(u)
    PROVE  Rested
<1>1. PICK id \in up[u].confirmed + 1 .. Received(u) :
        LET s == [Now EXCEPT !.up[u].confirmed = id]
            x == AckFrames(s, u, id)
        IN  IF conf.resume[u] # "last_acked" THEN Become(s)
            ELSE IF x.rc = "ok" THEN Become(x)
            ELSE \E z \in UpstreamError(x, u) : Become(z)
  BY DEF ReadAck
<1> DEFINE y == [up[u] EXCEPT !.confirmed = id]
           s == [Now EXCEPT !.up[u].confirmed = id]
           x == AckFrames(s, u, id)
<1>2. up[u].conn = "up" /\ up[u].skew = 0
  BY DEF ReadAck
<1>3. /\ Now \in StateType /\ Good(conf, Now) /\ Now.up = up
      /\ Now.track = track /\ track \in TrackType /\ LogOK(track)
      /\ u \in ToSet(Now.queue)
  BY <1>2, NowGood, Listed DEF MInv, Good, Sound
<1>4. /\ UpOK(track, up[u]) /\ Resumes(conf, track, up[u], u)
      /\ up[u] \in UpType
  BY <1>3, StateParts DEF Good, Sound, UpsOK, Resuming
<1>5. /\ id \in Nat /\ id > 0 /\ id <= Received(u)
      /\ up[u].confirmed <= id
  <2>1. up[u].confirmed \in Nat
    BY <1>4 DEF UpType
  <2> QED
    BY <1>1, <2>1
<1>6. s = SetUp(Now, u, y)
  BY <1>3 DEF SetUp, StateType
<1>7. /\ y \in UpType /\ y.acked = up[u].acked /\ y.confirmed = id
      /\ y.conn = up[u].conn /\ y.sent = up[u].sent
      /\ y.skew = up[u].skew /\ y.used = up[u].used
      /\ y.eos = up[u].eos
  BY <1>4, <1>5 DEF UpType
<1>8. /\ y = [up[u] EXCEPT !.confirmed = id] /\ x = AckFrames(s, u, id)
      /\ IF conf.resume[u] # "last_acked" THEN Become(s)
         ELSE IF x.rc = "ok" THEN Become(x)
         ELSE \E z \in UpstreamError(x, u) : Become(z)
  BY <1>1
<1> HIDE DEF x, y, s
<1>9. Good(conf, s) /\ Steps(Now, s, 0)
  <2>1. UpOK(track, y) /\ Resumes(conf, track, y, u)
    BY <1>3, <1>4, <1>5, <1>7, ConfirmGood
  <2>2. Now.up[u].acked <= y.acked
    BY <1>3, <1>4, <1>7, SameAcked
  <2> QED
    BY <1>3, <1>6, <1>7, <2>1, <2>2, SetUpGood
<1>10. Good(conf, x) /\ Steps(Now, x, 0)
  BY <1>2, <1>3, <1>5, <1>6, <1>8, <1>9, AckFramesGood DEF MInv
<1>11. Mild(Now, s) /\ s \in StateType /\ s.track = track /\ s.up[u] = y
  BY <1>3, <1>6, <1>7, MildUp, UpFields
<1>12. Mild(s, x)
  <2>1. PICK w \in 1 .. Len(track.pkts) :
            End(track, w) <= up[u].sent /\ id <= Frames(track, w)
    BY <1>5, ReceivedPacket DEF MInv
  <2> DEFINE n == Len(track.pkts)
  <2>2. /\ n \in Nat /\ n \in 0 .. n
        /\ Frames(track, w) \in Nat /\ Frames(track, n) \in Nat
    BY <1>3, LogNumbers
  <2>3. Frames(track, w) <= Frames(track, n)
    <3>1. w \in 0 .. n /\ w <= n
      BY <2>2
    <3> QED
      BY <1>3, <2>2, <3>1, LogOrder
  <2>4. Frames(track, n) >= id
    BY <1>5, <2>1, <2>2, <2>3
  <2>5. up[u].acked <= n
    BY <1>4 DEF UpOK
  <2>6. /\ s.up[u].acked <= Len(s.track.pkts)
        /\ n \in 0 .. Len(s.track.pkts) /\ n >= s.up[u].acked
        /\ Frames(s.track, n) >= id
    <3>1. s.up[u].acked = up[u].acked
      BY <1>7, <1>11
    <3>2. s.up[u].acked \in Nat
      BY <1>4, <3>1 DEF UpType
    <3> QED
      BY <1>11, <2>2, <2>4, <2>5, <3>1, <3>2
  <2> HIDE DEF n
  <2> QED
    BY <1>5, <1>8, <1>11, <2>6, AckFramesMild
<1>13. Mild(Now, x)
  BY <1>11, <1>12, MildTwice
<1>14. CASE Become(s) \/ Become(x)
  BY <1>11, <1>13, <1>14, MildRested
<1>15. CASE \E z \in UpstreamError(x, u) : Become(z)
  <2>1. PICK z \in UpstreamError(x, u) : Become(z)
    BY <1>15
  <2>2. u \in ToSet(x.queue)
    BY <1>3, <1>10 DEF Steps
  <2>3. Mild(x, z)
    BY <1>10, <2>1, <2>2, UpstreamErrorMild
  <2>4. Mild(Now, z)
    BY <1>13, <2>3, MildTwice
  <2> QED
    BY <2>1, <2>4, MildRested
<1> QED
  BY <1>8, <1>14, <1>15

\* The track is set inactive.
LEMMA InactiveMild ==
    ASSUME NEW s \in StateType, NEW x, x = Inactive(s)
    PROVE  /\ Mild(s, x) /\ x.queue = s.queue /\ x.up = s.up
           /\ x.track.lastFrame = s.track.lastFrame
           /\ x.track.cause = s.track.cause
           /\ x.track.alerts = s.track.alerts
           /\ x.track.tail = s.track.tail
           /\ x.track.written = s.track.written
           /\ x.track.pkts = s.track.pkts
           /\ x.track.state = "inactive" /\ x.rc = s.rc
<1> DEFINE t2 == [s.track EXCEPT !.state = "inactive"]
<1>1. s.track \in TrackType
  BY StateParts
<1>2. /\ t2 \in TrackType /\ t2.pkts = s.track.pkts
      /\ t2.written = s.track.written /\ t2.tail = s.track.tail
      /\ t2.lastFrame = s.track.lastFrame /\ t2.alerts = s.track.alerts
      /\ t2.cause = s.track.cause /\ t2.state = "inactive"
  BY <1>1 DEF TrackType
<1>3. x = SetTrack(s, t2)
  BY DEF Inactive, SetTrack
<1> HIDE DEF t2
<1>4. /\ x \in StateType /\ x.track = t2 /\ x.up = s.up
      /\ x.queue = s.queue /\ x.rc = s.rc
  BY <1>2, <1>3, TrackFields
<1>5. Mild(s, x)
  BY <1>2, <1>4, MildTrack DEF SameCause
<1> QED
  BY <1>2, <1>4, <1>5

\* ... and cleaned up.
LEMMA InactiveCleanupMild ==
    ASSUME NEW s \in StateType, NEW x, x = Cleanup(Inactive(s))
    PROVE  Mild(s, x)
<1> DEFINE a == Inactive(s)
<1>1. a = Inactive(s) /\ x = Cleanup(a)
  OBVIOUS
<1> HIDE DEF a
<1>2. Mild(s, a) /\ a \in StateType
  BY <1>1, InactiveMild DEF Mild
<1>3. Mild(a, x)
  BY <1>1, <1>2, CleanupMild
<1> QED
  BY <1>2, <1>3, MildTwice

\* An upstream is deleted.
LEMMA DelUpstreamRested ==
    ASSUME MInv, NEW u \in Upstreams, DelUpstream(u)
    PROVE  Rested
<1>1. PICK f \in Fault(Now) :
        LET s == FreeUpstream(f, u)
        IN Become(IF s.queue # << >> THEN s
                  ELSE Cleanup([s EXCEPT !.track.state = "inactive"]))
  BY DEF DelUpstream
<1> DEFINE s == FreeUpstream(f, u)
           x == IF s.queue # << >> THEN s ELSE Cleanup(Inactive(s))
<1>2. u \in ToSet(queue) /\ Become(x)
  BY <1>1 DEF DelUpstream, Inactive
<1>3. s = FreeUpstream(f, u)
      /\ x = IF s.queue # << >> THEN s ELSE Cleanup(Inactive(s))
  OBVIOUS
<1> HIDE DEF s, x
<1>4. Good(conf, Now) /\ Now.queue = queue
  BY NowGood DEF MInv
<1>5. Mild(Now, f) /\ Good(conf, f) /\ f.queue = Now.queue
  BY <1>1, <1>4, FaultMild
<1>6. Mild(f, s)
  BY <1>2, <1>3, <1>4, <1>5, FreeUpstreamMild
<1>7. Mild(Now, s) /\ s \in StateType
  BY <1>5, <1>6, MildTwice DEF Mild
<1>8. Mild(s, x)
  BY <1>3, <1>7, InactiveCleanupMild, MildNothing
<1>9. Mild(Now, x)
  BY <1>7, <1>8, MildTwice
<1> QED
  BY <1>2, <1>9, MildRested

\* An upstream is added: it is past the end of the stream if the one is after
\* which it resumes.
LEMMA AddUpstreamRested ==
    ASSUME MInv, NEW u \in Upstreams, AddUpstream(u)
    PROVE  Rested
<1>1. PICK src \in ToSet(queue) :
        Become([Now EXCEPT !.queue = Append(@, u),
                           !.up[u] = [NewConnection(up[src].acked, up[src].eos)
                                EXCEPT !.confirmed = FrameId(Now, src)]])
  BY DEF AddUpstream
<1> DEFINE new == NewConnection(up[src].acked, up[src].eos)
           id  == FrameId(Now, src)
           y   == [new EXCEPT !.confirmed = id]
           ups == [up EXCEPT ![u] = y]
           q   == Append(queue, u)
           x   == SetUps(Now, ups, q)
<1>2. /\ Now \in StateType /\ Now.up = up /\ Now.track = track
      /\ track \in TrackType /\ Now.queue = queue
      /\ UpsOK(track, up, queue)
  BY NowGood DEF Good, Sound, MInv
<1>3. Become(x)
  <2>1. x = [Now EXCEPT !.queue = Append(@, u), !.up[u] = y]
    BY <1>2 DEF SetUps, StateType
  <2> QED
    BY <1>1, <2>1
<1>4. /\ src \in Upstreams /\ up[src] \in UpType
      /\ up \in [Upstreams -> UpType] /\ queue \in Seq(Upstreams)
      /\ UpOK(track, up[src])
  BY <1>2, StateParts DEF UpsOK
<1>5. up[src].acked \in Nat /\ up[src].eos \in BOOLEAN
  BY <1>4 DEF UpType
<1>6. new \in UpType
  BY <1>5, NewUp
<1>7. new.eos = up[src].eos
  BY <1>5 DEF NewConnection, NoUpstream
<1>8. id \in Nat
  <2>1. up[src].acked \in 0 .. Len(track.pkts)
    BY <1>4, <1>5 DEF UpOK
  <2>2. Frames(track, up[src].acked) \in Nat
    BY <1>2, <2>1, LogNumbers
  <2> QED
    BY <1>2, <2>2 DEF FrameId
<1> HIDE DEF new, id
<1>9. y \in UpType /\ y.eos = up[src].eos
  BY <1>6, <1>7, <1>8 DEF UpType
<1> HIDE DEF y
<1>10. q \in Seq(Upstreams)
  BY <1>4
<1>11. /\ ups \in [Upstreams -> UpType] /\ ups[u] = y
       /\ \A v \in Upstreams \ {u} : ups[v] = up[v]
  BY <1>4, <1>9
<1>12. x = SetUps(Now, ups, q)
  OBVIOUS
<1> HIDE DEF ups, q, x
<1>13. x \in StateType /\ x.track = track /\ x.up = ups
  BY <1>2, <1>10, <1>11, <1>12, UpsFields
<1>14. PastEos(Now, x)
  <2> SUFFICES ASSUME NEW v \in Upstreams, ups[v].eos
               PROVE  \E w \in Upstreams : up[w].eos
    BY <1>2, <1>13 DEF PastEos
  <2>1. CASE v = u
    BY <1>4, <1>9, <1>11, <2>1
  <2>2. CASE v # u
    BY <1>11, <2>2
  <2> QED
    BY <2>1, <2>2
<1>15. Mild(Now, x)
  BY <1>2, <1>13, <1>14 DEF Mild, SameCause
<1> QED
  BY <1>3, <1>15, MildRested

\* The request to publish is no longer pending.
LEMMA AnsweredMild ==
    ASSUME MInv, NEW r, r = [Now EXCEPT !.track.pub = FALSE]
    PROVE  Mild(Now, r) /\ r \in StateType
<1> DEFINE t2 == [track EXCEPT !.pub = FALSE]
<1>1. Now \in StateType /\ Now.track = track /\ track \in TrackType
  BY NowGood DEF MInv
<1>2. /\ t2 \in TrackType /\ t2.pkts = track.pkts
      /\ t2.written = track.written /\ t2.tail = track.tail
      /\ t2.lastFrame = track.lastFrame /\ t2.alerts = track.alerts
      /\ t2.cause = track.cause
  BY <1>1 DEF TrackType
<1>3. r = SetTrack(Now, t2)
  BY <1>1 DEF SetTrack
<1> HIDE DEF t2
<1>4. r \in StateType /\ r.track = t2 /\ r.up = Now.up
  <2>1. Now \in StateType /\ t2 \in TrackType
    BY <1>1, <1>2
  <2> QED
    BY ONLY <1>3, <2>1, TrackFields
<1>5. Mild(Now, r)
  BY <1>1, <1>2, <1>4, MildTrack DEF SameCause
<1> QED
  BY <1>4, <1>5

\* The upstreams of the response are created.
LEMMA PublishedMild ==
    ASSUME MInv, track.pub, NEW k \in 0 .. Len(conf.initial),
           NEW q, q = SubSeq(conf.initial, 1, k), NEW s, s = Published(q)
    PROVE  Mild(Now, s) /\ s \in StateType
<1> DEFINE r == [Now EXCEPT !.track.pub = FALSE]
           new == NewConnection(0, FALSE)
           ups == [u \in Upstreams |-> IF u \in ToSet(q) THEN new ELSE up[u]]
<1>1. r = [Now EXCEPT !.track.pub = FALSE] /\ IInv
  BY DEF MInv
<1>2. /\ r \in StateType /\ r.up = up /\ queue = << >>
  BY <1>1, AnsweredGood
<1>3. /\ q \in Seq(Upstreams) /\ ToSet(q) \subseteq Upstreams
      /\ << >> \o q = q
  <2>1. conf.initial \in Seq(Upstreams) /\ IsInjective(conf.initial)
    BY <1>1, NowGood DEF ConfType
  <2> QED
    BY <2>1, FirstOnes
<1>4. s = SetUps(r, ups, q)
  <2>1. Now.queue \o q = q /\ Now \in StateType
    BY <1>1, <1>2, <1>3, NowGood
  <2> QED
    BY <2>1 DEF SetUps, StateType, Published
<1>5. Mild(Now, r)
  BY <1>1, AnsweredMild
<1> HIDE DEF r
<1>6. new \in UpType /\ ~new.eos
  BY NewUp DEF NewConnection, NoUpstream
<1> HIDE DEF new
<1>7. up \in [Upstreams -> UpType]
  BY <1>2, StateParts
<1>8. /\ ups \in [Upstreams -> UpType]
      /\ \A v \in Upstreams : ups[v].eos => up[v].eos
  BY <1>6, <1>7
<1> HIDE DEF ups
<1>9. s \in StateType /\ s.track = r.track /\ s.up = ups
  BY ONLY <1>2, <1>3, <1>4, <1>8, UpsFields
<1>10. PastEos(r, s)
  BY <1>2, <1>8, <1>9 DEF PastEos
<1>11. Mild(r, s)
  BY <1>9, <1>10 DEF Mild, SameCause
<1>12. Mild(Now, s)
  BY <1>5, <1>11, MildTwice
<1> QED
  BY <1>9, <1>12

\* The track becomes active.
LEMMA ActiveMild ==
    ASSUME NEW s \in StateType, NEW keep \in BOOLEAN, NEW x,
           x = [s EXCEPT !.track.state = "active", !.track.keep = keep]
    PROVE  Mild(s, x)
<1> DEFINE a == [s.track EXCEPT !.state = "active"]
           t2 == [a EXCEPT !.keep = keep]
<1>1. s.track \in TrackType
  BY StateParts
<1>2. x = SetTrack(s, t2)
  BY <1>1 DEF SetTrack, StateType
<1>3. /\ a \in TrackType /\ a.pkts = s.track.pkts
      /\ a.written = s.track.written /\ a.tail = s.track.tail
      /\ a.lastFrame = s.track.lastFrame /\ a.alerts = s.track.alerts
      /\ a.cause = s.track.cause
  BY <1>1 DEF TrackType
<1> HIDE DEF a
<1>4. /\ t2 \in TrackType /\ t2.pkts = s.track.pkts
      /\ t2.written = s.track.written /\ t2.tail = s.track.tail
      /\ t2.lastFrame = s.track.lastFrame /\ t2.alerts = s.track.alerts
      /\ t2.cause = s.track.cause
  BY <1>3 DEF TrackType
<1> HIDE DEF t2
<1>5. x \in StateType /\ x.track = t2 /\ x.up = s.up
  <2>1. s \in StateType /\ t2 \in TrackType
    BY <1>4
  <2> QED
    BY ONLY <1>2, <2>1, TrackFields
<1> QED
  BY <1>4, <1>5, MildTrack DEF SameCause

\* The controller answers a request to publish.
LEMMA PublishReplyRested ==
    ASSUME MInv, PublishReply
    PROVE  Rested
<1> DEFINE Q(k) == SubSeq(conf.initial, 1, k)
           S(k) == Published(Q(k))
<1>1. track.pub /\ IInv
  BY DEF PublishReply, MInv
<1>2. PICK k \in 0 .. Len(conf.initial) :
        \/ k = 0 /\ Become(Cleanup(Inactive(S(k))))
        \/ k > 0 /\ Become([S(k) EXCEPT !.track.state = "active",
                                        !.track.keep = conf.keepalive])
        \/ \E y \in Fault(S(k)) : Become(TrackError(y))
  BY DEF PublishReply, Inactive, Published
<1> DEFINE q == Q(k)
           s == S(k)
<1>3. /\ q = SubSeq(conf.initial, 1, k)
      /\ s = Published(q)
  OBVIOUS
<1>4. \/ k = 0 /\ Become(Cleanup(Inactive(s)))
      \/ k > 0 /\ Become([s EXCEPT !.track.state = "active",
                                   !.track.keep = conf.keepalive])
      \/ \E y \in Fault(s) : Become(TrackError(y))
  BY <1>2
<1> HIDE DEF q, s, Q, S
<1>5. Good(conf, s)
  BY <1>1, <1>3, PublishedGood
<1>6. Mild(Now, s) /\ s \in StateType
  BY <1>1, <1>3, PublishedMild
<1>7. conf.keepalive \in BOOLEAN
  BY <1>1, NowGood DEF ConfType
<1>8. CASE k = 0 /\ Become(Cleanup(Inactive(s)))
  <2> DEFINE x == Cleanup(Inactive(s))
  <2>1. x = Cleanup(Inactive(s)) /\ Become(x)
    BY <1>8
  <2> HIDE DEF x
  <2>2. Mild(s, x)
    BY <1>6, <2>1, InactiveCleanupMild
  <2>3. Mild(Now, x)
    BY <1>6, <2>2, MildTwice
  <2> QED
    BY <2>1, <2>3, MildRested
<1>9. CASE k > 0 /\ Become([s EXCEPT !.track.state = "active",
                                     !.track.keep = conf.keepalive])
  <2> DEFINE x == [s EXCEPT !.track.state = "active",
                            !.track.keep = conf.keepalive]
  <2>1. x = [s EXCEPT !.track.state = "active",
                      !.track.keep = conf.keepalive] /\ Become(x)
    BY <1>9
  <2> HIDE DEF x
  <2>2. Mild(s, x)
    BY <1>6, <1>7, <2>1, ActiveMild
  <2>3. Mild(Now, x)
    BY <1>6, <2>2, MildTwice
  <2> QED
    BY <2>1, <2>3, MildRested
<1>10. CASE \E y \in Fault(s) : Become(TrackError(y))
  <2>1. PICK y \in Fault(s) : Become(TrackError(y))
    BY <1>10
  <2>2. Mild(s, y)
    BY <1>5, <2>1, FaultMild
  <2>3. Mild(Now, y) /\ y \in StateType
    BY <1>6, <2>2, MildTwice DEF Mild
  <2> DEFINE x == TrackError(y)
  <2>4. x = TrackError(y) /\ Become(x)
    BY <2>1
  <2> HIDE DEF x
  <2>5. Mild(y, x)
    BY <2>3, <2>4, TrackErrorMild
  <2>6. Mild(Now, x)
    BY <2>3, <2>5, MildTwice
  <2> QED
    BY <2>4, <2>6, MildRested
<1> QED
  BY <1>4, <1>8, <1>9, <1>10

\* The request fails.
LEMMA PublishFailRested ==
    ASSUME MInv, PublishFail
    PROVE  Rested
<1> DEFINE r == [Now EXCEPT !.track.pub = FALSE]
<1>1. PICK y \in Fault(r) : Become(TrackError(y))
  BY DEF PublishFail
<1>2. track.pub /\ r = [Now EXCEPT !.track.pub = FALSE] /\ IInv
  BY DEF PublishFail, MInv
<1> HIDE DEF r
<1>3. Good(conf, r)
  BY <1>2, AnsweredGood
<1>4. Mild(Now, r)
  BY <1>2, AnsweredMild
<1>5. Mild(r, y)
  BY <1>1, <1>3, FaultMild
<1>6. Mild(Now, y) /\ y \in StateType
  BY <1>4, <1>5, MildTwice DEF Mild
<1> DEFINE x == TrackError(y)
<1>7. x = TrackError(y) /\ Become(x)
  BY <1>1
<1> HIDE DEF x
<1>8. Mild(y, x)
  BY <1>6, <1>7, TrackErrorMild
<1>9. Mild(Now, x)
  BY <1>6, <1>8, MildTwice
<1> QED
  BY <1>7, <1>9, MildRested

-----------------------------------------------------------------------------
(* Packets are written by actions *)

\* x is fine, and memory did not run out.
Sits(x) ==
    /\ x \in StateType /\ Fine(x)
    /\ x.track.cause = "memory" => track.cause = "memory"

\* An action may leave it,
LEMMA SitsRested ==
    ASSUME MInv, NEW x, Sits(x), Become(x)
    PROVE  Rested
<1>1. Now.track = track
  BY NowGood DEF MInv
<1>2. Rests(Now, x)
  BY <1>1 DEF Sits, Rests
<1> QED
  BY <1>2 DEF Rested

\* ... and a call that writes nothing keeps that,
LEMMA SitsMild ==
    ASSUME NEW s, Sits(s), NEW x, Mild(s, x)
    PROVE  Sits(x)
BY MildFine DEF Sits, Mild, SameCause

\* ... as the return of an error.
LEMMA SitsReturned ==
    ASSUME MInv, NEW s, Sits(s), Become(Returned(s))
    PROVE  Rested
<1> DEFINE x == Returned(s)
<1>1. x = (IF s.rc = "error" THEN OwnerError(s) ELSE s) /\ Become(x)
  BY DEF Returned
<1> HIDE DEF x
<1>2. s \in StateType
  BY DEF Sits
<1>3. CASE s.rc = "error"
  <2>1. Mild(s, x)
    BY <1>1, <1>2, <1>3, OwnerErrorMild
  <2> QED
    BY <1>1, <2>1, SitsMild, SitsRested
<1>4. CASE s.rc # "error"
  BY <1>1, <1>4, SitsRested
<1> QED
  BY <1>3, <1>4

\* An action that writes a packet starts in r.
Starts(r) ==
    /\ Good(conf, r) /\ r.up = up /\ r.queue = queue /\ r.rc = "ok"
    /\ LET t == r.track
       IN  /\ t.pkts = track.pkts /\ t.written = track.written
           /\ t.lastFrame = track.lastFrame /\ t.tail = track.tail
           /\ t.cause = track.cause /\ t.alerts = track.alerts

\* It may be the current state,
LEMMA NowStarts ==
    ASSUME MInv
    PROVE  Starts(Now) /\ Now.track = track
<1>1. /\ Good(conf, Now) /\ Now.up = up /\ Now.queue = queue
      /\ Now.track = track
  BY NowGood DEF MInv
<1>2. Now.rc = "ok"
  BY DEF Now
<1> QED
  BY <1>1, <1>2 DEF Starts

\* ... but that sending is blocked.
LEMMA BlockedStarts ==
    ASSUME MInv, NEW r, r = Blocked(Now)
    PROVE  Starts(r) /\ r.track.blocked
<1> DEFINE t2 == [track EXCEPT !.blocked = TRUE]
<1>1. Now \in StateType /\ Now.track = track /\ track \in TrackType
      /\ Starts(Now)
  BY NowStarts DEF Starts, Good, Sound, StateType
<1>2. /\ Good(conf, r) /\ r.up = up /\ r.queue = queue /\ r.track.blocked
  BY BlockedGood DEF MInv
<1>3. /\ t2 \in TrackType /\ t2.pkts = track.pkts
      /\ t2.written = track.written /\ t2.tail = track.tail
      /\ t2.lastFrame = track.lastFrame /\ t2.alerts = track.alerts
      /\ t2.cause = track.cause
  BY <1>1 DEF TrackType
<1>4. r = SetTrack(Now, t2)
  BY <1>1 DEF Blocked, SetTrack
<1> HIDE DEF t2
<1>5. r.track = t2 /\ r.rc = Now.rc
  BY ONLY <1>1, <1>3, <1>4, TrackFields
<1> QED
  BY <1>1, <1>2, <1>3, <1>5 DEF Starts

\* There is no end of stream, and room in the buffers.
LEMMA StartsUnended ==
    ASSUME MInv, ~track.detached, NEW r, Starts(r)
    PROVE  Unended(r) /\ Roomy(r.track) /\ r \in StateType
<1>1. /\ EosOK(track) /\ Fine(Now) /\ Now.track = track /\ Now.up = up
  BY NowGood DEF MInv, MostOK
<1>2. ~HasEos(track)
  BY <1>1 DEF EosOK, HasEos
<1>3. FrameEnds(track) /\ Roomy(track) /\ EosRead(Now)
  BY <1>1 DEF Fine
<1>4. FrameEnds(r.track) /\ Roomy(r.track)
  BY <1>3 DEF Starts, FrameEnds, Roomy, End
<1>5. ~HasEos(r.track)
  BY <1>2 DEF Starts, HasEos
<1>6. EosRead(r)
  BY <1>1, <1>2, <1>3 DEF Starts, EosRead
<1> QED
  BY <1>4, <1>5, <1>6 DEF Unended, Starts, Good, Sound

\* The buffers were not released, or the owner does not check.
LEMMA StartsOwned ==
    ASSUME MInv, ~track.detached, NEW r, Starts(r),
           track.keep \/ OwnerWrites
    PROVE  Owned(conf, r.track)
<1>1. /\ NoBuffers(track) /\ track \in TrackType
      /\ MemoryOK(conf, track, queue)
  BY NowGood DEF MInv, MostOK, Good, Sound
<1>2. track.tail \in Int /\ track.head \in Nat
  BY <1>1 DEF TrackType
<1>3. track.tail < 0 => track.tail = -1
  BY <1>1, <1>2 DEF MemoryOK
<1>4. track.keep \/ track.state # "inactive" \/ "unchecked" \in conf.writers
  BY DEF OwnerWrites
<1>5. track.tail < 0 /\ track.written > 0 => "unchecked" \in conf.writers
  BY <1>1, <1>3, <1>4 DEF NoBuffers
<1> QED
  BY <1>5 DEF Starts, Owned

\* A packet that is not an end of stream is written.
LEMMA StartsFilled ==
    ASSUME MInv, ~track.detached, NEW r, Starts(r),
           track.keep \/ OwnerWrites,
           NEW type \in PacketTypes \ {"eos"},
           type = "open" => r.track.blocked,
           NEW n \in Nat, NEW s \in WritePacket(r, type, n)
    PROVE  Filled(r, s)
<1>1. /\ Unended(r) /\ Roomy(r.track) /\ Owned(conf, r.track)
      /\ Good(conf, r) /\ r.rc # "error"
  BY StartsUnended, StartsOwned DEF Starts
<1>2. type \in PacketTypes /\ type # "eos"
  OBVIOUS
<1> QED
  BY <1>1, <1>2, WritePacketFills

\* It is written,
LEMMA FilledSits ==
    ASSUME NEW r, Starts(r), NEW s, Filled(r, s), s.rc # "error"
    PROVE  Sits(s)
<1>1. s \in StateType /\ Unended(s) /\ Roomy(s.track) /\ LastResort(r, s)
  BY DEF Filled
<1>2. Fine(s)
  BY <1>1 DEF Fine, Unended
<1>3. s.track.cause = "memory" => track.cause = "memory"
  BY <1>1 DEF LastResort, Starts
<1> QED
  BY <1>1, <1>2, <1>3 DEF Sits

\* ... or the owner is told that it is not.
LEMMA FilledFails ==
    ASSUME MInv, NEW r, Starts(r), NEW s, Filled(r, s), NEW x, Mild(s, x),
           x.track.cause # "none", x.up = s.up,
           x.track.alerts = s.track.alerts, Become(x)
    PROVE  Rested
<1>1. /\ s \in StateType /\ FrameEnds(s.track) /\ EosRead(s)
      /\ LastResort(r, s)
  BY DEF Filled, Unended
<1>2. x \in StateType
  BY DEF Mild
<1>3. FrameEnds(x.track) /\ EosRead(x)
  <2>1. EosRead(x)
    BY <1>1 DEF EosRead, Mild, PastEos, HasEos
  <2>2. FrameEnds(x.track)
    BY <1>1 DEF FrameEnds, Mild, End
  <2> QED
    BY <2>1, <2>2
<1>4. Fine(x)
  BY <1>3 DEF Fine, Roomy
<1>5. Now.track = track /\ Now.queue = queue
  BY NowGood DEF MInv
<1>6. ASSUME x.track.cause = "memory", Now.track.cause # "memory",
             NEW u, Now.queue = <<u>>
      PROVE  Excused(x, u)
  <2>1. s.track.cause = "memory" /\ r.track.cause # "memory"
        /\ r.queue = <<u>>
    BY <1>5, <1>6 DEF Mild, SameCause, Starts
  <2>2. Excused(s, u)
    BY <1>1, <2>1 DEF LastResort
  <2>3. /\ x.track.written = s.track.written
        /\ x.track.lastFrame = s.track.lastFrame
    BY DEF Mild
  <2> QED
    BY <2>2, <2>3 DEF Excused
<1>7. Rests(Now, x)
  BY <1>2, <1>4, <1>6 DEF Rests
<1> QED
  BY <1>7 DEF Rested

\* ... as its call returns an error.
LEMMA FilledReturned ==
    ASSUME MInv, NEW r, Starts(r), NEW s, Filled(r, s),
           Become(Returned(s))
    PROVE  Rested
<1>1. CASE s.rc # "error"
  BY <1>1, FilledSits, SitsReturned
<1>2. CASE s.rc = "error"
  <2> DEFINE x == OwnerError(s)
  <2>1. Become(x) /\ x = OwnerError(s)
    BY <1>2 DEF Returned
  <2> HIDE DEF x
  <2>2. s \in StateType
    BY DEF Filled
  <2>3. /\ Mild(s, x) /\ x.track.cause # "none" /\ x.up = s.up
        /\ x.track.alerts = s.track.alerts
    BY <2>1, <2>2, OwnerErrorMild
  <2> QED
    BY <2>1, <2>3, FilledFails
<1> QED
  BY <1>1, <1>2

\* All that was written is in whole packets.
Written(s) ==
    s.track.alerts = {} =>
        s.track.written = End(s.track, Len(s.track.pkts))

\* A frame that was written ends a packet.
LEMMA FrameWrittenSits ==
    ASSUME NEW s, Sits(s), Written(s), NEW x, x = FrameWritten(s)
    PROVE  Sits(x)
<1> DEFINE t2 == [s.track EXCEPT !.lastFrame = s.track.written]
<1>1. /\ s \in StateType /\ s.track \in TrackType /\ Fine(s)
      /\ s.track.written \in Nat
  BY StateParts DEF Sits, TrackType
<1>2. /\ t2 \in TrackType /\ t2.pkts = s.track.pkts
      /\ t2.written = s.track.written /\ t2.tail = s.track.tail
      /\ t2.lastFrame = s.track.written /\ t2.alerts = s.track.alerts
      /\ t2.cause = s.track.cause
  BY <1>1 DEF TrackType
<1>3. x = SetTrack(s, t2)
  BY DEF FrameWritten, SetTrack
<1> HIDE DEF t2
<1>4. x \in StateType /\ x.track = t2 /\ x.up = s.up
  BY ONLY <1>1, <1>2, <1>3, TrackFields
<1>5. FrameEnds(t2)
  <2>1. t2.lastFrame <= t2.written
    BY <1>1, <1>2
  <2>2. ASSUME t2.alerts = {}
        PROVE  \E k \in 0 .. Len(t2.pkts) : t2.lastFrame = End(t2, k)
    <3>1. t2.lastFrame = End(s.track, Len(s.track.pkts))
      BY <1>2, <2>2 DEF Written
    <3>2. t2.lastFrame = End(t2, Len(t2.pkts))
      BY <1>2, <3>1 DEF End
    <3>3. Len(t2.pkts) \in 0 .. Len(t2.pkts)
      <4>1. Len(t2.pkts) \in Nat
        BY <1>2, LogNumbers
      <4> QED
        BY <4>1
    <3> QED
      BY <3>2, <3>3
  <2> QED
    BY <2>1, <2>2 DEF FrameEnds
<1>6. Roomy(t2)
  BY <1>1, <1>2 DEF Fine, Roomy
<1>7. EosRead(x)
  BY <1>1, <1>2, <1>4 DEF Fine, EosRead, HasEos
<1> QED
  BY <1>2, <1>4, <1>5, <1>6, <1>7 DEF Sits, Fine

\* The track is to be published.
LEMMA PubMild ==
    ASSUME NEW s \in StateType, NEW x,
           x = SetTrack(s, [s.track EXCEPT !.pub = TRUE])
    PROVE  Mild(s, x) /\ x.rc = s.rc
<1> DEFINE t2 == [s.track EXCEPT !.pub = TRUE]
<1>1. s.track \in TrackType
  BY StateParts
<1>2. x = SetTrack(s, t2)
  OBVIOUS
<1>3. /\ t2 \in TrackType /\ t2.pkts = s.track.pkts
      /\ t2.written = s.track.written /\ t2.tail = s.track.tail
      /\ t2.lastFrame = s.track.lastFrame /\ t2.alerts = s.track.alerts
      /\ t2.cause = s.track.cause
  BY <1>1 DEF TrackType
<1> HIDE DEF t2
<1>4. x \in StateType /\ x.track = t2 /\ x.up = s.up /\ x.rc = s.rc
  <2>1. s \in StateType /\ t2 \in TrackType
    BY <1>3
  <2> QED
    BY ONLY <1>2, <2>1, TrackFields
<1> QED
  BY <1>3, <1>4, MildTrack DEF SameCause

\* The media info is written.
LEMMA WriteMediaInfoRested ==
    ASSUME MInv, WriteMediaInfo
    PROVE  Rested
<1> DEFINE Pub(s) == SetTrack(s, [s.track EXCEPT !.pub = TRUE])
           Next1(s) == IF s.rc = "ok" /\ track.pkts = << >> THEN Pub(s)
                       ELSE s
<1>1. OwnerWrites /\ ~track.detached
  BY DEF WriteMediaInfo, OwnerWrites
<1>2. PICK s \in WritePacket(Now, "media", 1) : Become(Returned(Next1(s)))
  BY DEF WriteMediaInfo, SetTrack
<1>3. "media" \in PacketTypes \ {"eos"} /\ "media" # "open" /\ 1 \in Nat
  BY DEF PacketTypes
<1>4. Starts(Now)
  BY NowStarts
<1>5. Filled(Now, s)
  BY <1>1, <1>2, <1>3, <1>4, StartsFilled
<1>6. CASE s.rc = "ok" /\ track.pkts = << >>
  <2> DEFINE y == Pub(s)
  <2>1. /\ Become(Returned(y))
        /\ y = SetTrack(s, [s.track EXCEPT !.pub = TRUE])
    BY <1>2, <1>6
  <2> HIDE DEF y
  <2>2. Sits(s)
    BY <1>4, <1>5, <1>6, FilledSits
  <2>3. Mild(s, y)
    BY <2>1, <2>2, PubMild DEF Sits
  <2> QED
    BY <2>1, <2>2, <2>3, SitsMild, SitsReturned
<1>7. CASE ~(s.rc = "ok" /\ track.pkts = << >>)
  <2>1. Become(Returned(s))
    BY <1>2, <1>7
  <2> QED
    BY <1>4, <1>5, <2>1, FilledReturned
<1> QED
  BY <1>6, <1>7

\* A frame is written.
LEMMA WriteFrameRested ==
    ASSUME MInv, WriteFrame
    PROVE  Rested
<1> DEFINE Next1(s) == IF s.rc = "ok" THEN FrameWritten(s) ELSE s
<1>1. OwnerWrites /\ ~track.detached
  BY DEF WriteFrame, OwnerWrites
<1>2. PICK d \in conf.sizes : \E s \in WritePacket(Now, "frame", d) :
        Become(Returned(Next1(s)))
  BY DEF WriteFrame
<1>3. PICK s \in WritePacket(Now, "frame", d) : Become(Returned(Next1(s)))
  BY <1>2
<1>4. "frame" \in PacketTypes \ {"eos"} /\ "frame" # "open"
  BY DEF PacketTypes
<1>5. Starts(Now) /\ d \in Nat
  BY <1>2, NowStarts, NowGood DEF MInv, ConfType
<1>6. Filled(Now, s)
  BY <1>1, <1>3, <1>4, <1>5, StartsFilled
<1>7. CASE s.rc = "ok"
  <2> DEFINE y == FrameWritten(s)
  <2>1. Become(Returned(y)) /\ y = FrameWritten(s)
    BY <1>3, <1>7
  <2> HIDE DEF y
  <2>2. Sits(s)
    BY <1>5, <1>6, <1>7, FilledSits
  <2>3. Written(s)
    BY <1>6, <1>7 DEF Filled, Written
  <2> QED
    BY <2>1, <2>2, <2>3, FrameWrittenSits, SitsReturned
<1>8. CASE s.rc # "ok"
  <2>1. Become(Returned(s))
    BY <1>3, <1>8
  <2> QED
    BY <1>5, <1>6, <2>1, FilledReturned
<1> QED
  BY <1>7, <1>8

\* A frame is started in two parts.
LEMMA OpenFrameFilled ==
    ASSUME MInv, OwnerWrites, NEW d \in conf.sizes,
           NEW s \in OpenFrame(Now, d)
    PROVE  \E r : Starts(r) /\ Filled(r, s)
<1> DEFINE r == Blocked(Now)
<1>1. s \in WritePacket(r, "open", d)
  BY DEF OpenFrame, Blocked
<1>2. r = Blocked(Now)
  OBVIOUS
<1> HIDE DEF r
<1>3. Starts(r) /\ r.track.blocked
  BY <1>2, BlockedStarts
<1>4. "open" \in PacketTypes \ {"eos"} /\ d \in Nat /\ ~track.detached
  BY NowGood DEF MInv, ConfType, PacketTypes, OwnerWrites
<1>5. Filled(r, s)
  BY <1>1, <1>3, <1>4, StartsFilled
<1> QED
  BY <1>3, <1>5

\* A frame is cut short.
LEMMA AbortFrameRested ==
    ASSUME MInv, AbortFrame
    PROVE  Rested
<1>1. OwnerWrites
  BY DEF AbortFrame
<1>2. PICK d \in conf.sizes : \E s \in OpenFrame(Now, d) :
        Become(OwnerError(s))
  BY DEF AbortFrame
<1>3. PICK s \in OpenFrame(Now, d) : Become(OwnerError(s))
  BY <1>2
<1>4. PICK r : Starts(r) /\ Filled(r, s)
  BY <1>1, <1>3, OpenFrameFilled
<1> DEFINE x == OwnerError(s)
<1>5. x = OwnerError(s) /\ Become(x)
  BY <1>3
<1> HIDE DEF x
<1>6. /\ Mild(s, x) /\ x.track.cause # "none" /\ x.up = s.up
      /\ x.track.alerts = s.track.alerts
  BY <1>4, <1>5, OwnerErrorMild DEF Filled
<1> QED
  BY <1>4, <1>5, <1>6, FilledFails
\* A keepalive packet is written.
LEMMA KeepaliveRested ==
    ASSUME MInv, KeepaliveTimer
    PROVE  Rested
<1>1. PICK s \in WritePacket(Now, "null", 0) :
        Become(IF s.rc = "error" THEN TrackError(s) ELSE s)
  BY DEF KeepaliveTimer
<1>2. /\ Now.track = track /\ Now.queue = queue /\ track.keep
      /\ Good(conf, Now) /\ MostOK(track, queue) /\ Starts(Now)
  BY NowGood, NowStarts DEF MInv, KeepaliveTimer
<1>3. ~track.detached
  BY <1>2 DEF MostOK, KeepOK
<1>4. "null" \in PacketTypes \ {"eos"} /\ "null" # "open" /\ 0 \in Nat
  BY DEF PacketTypes
<1>5. Filled(Now, s)
  BY <1>1, <1>2, <1>3, <1>4, StartsFilled
<1>6. CASE s.rc = "error"
  <2>1. Owned(conf, Now.track)
    BY <1>2, <1>3, StartsOwned
  <2>2. "null" \in PacketTypes /\ "null" # "eos" /\ Now.rc # "error"
    BY <1>4, <1>2 DEF Starts
  <2>3. Writes(Now, s, "null", 0)
    BY <1>1, <1>2, <1>4, <2>1, <2>2, WritePacketGood
  <2>4. ~s.track.detached
    BY <1>2, <1>3, <2>3 DEF Writes, Onward
  <2> DEFINE x == TrackError(s)
  <2>5. x = TrackError(s) /\ Become(x)
    BY <1>1, <1>6
  <2> HIDE DEF x
  <2>6. /\ Mild(s, x) /\ x.track.cause # "none" /\ x.up = s.up
        /\ x.track.alerts = s.track.alerts
    BY <1>5, <2>4, <2>5, TrackErrorMild DEF Filled
  <2> QED
    BY <1>2, <1>5, <2>5, <2>6, FilledFails
<1>7. CASE s.rc # "error"
  BY <1>1, <1>2, <1>5, <1>7, FilledSits, SitsRested
<1> QED
  BY <1>6, <1>7

\* The header of the last packet is filled in.
LEMMA ClosedSits ==
    ASSUME NEW s, Sits(s), Written(s), Len(s.track.pkts) > 0,
           s.track.pkts[Len(s.track.pkts)].type = "open",
           NEW c, c = Closed(s)
    PROVE  Sits(c) /\ Written(c)
<1> DEFINE t == s.track
           t2 == c.track
           m == Len(t.pkts)
           p == [type |-> "frame", end |-> t.pkts[m].end,
                 frames |-> t.pkts[m].frames + 1]
<1>1. s \in StateType /\ t \in TrackType /\ Fine(s)
  BY StateParts DEF Sits
<1>2. c \in StateType /\ ClosedTrack(t, t2) /\ c.up = s.up
  BY <1>1, ClosedFields
<1>3. m \in Nat /\ t.pkts \in Seq(PacketType) /\ DOMAIN t.pkts = 1 .. m
  BY <1>1, LogNumbers
<1> HIDE DEF t, t2
<1>4. /\ t2.pkts = [t.pkts EXCEPT ![m] = p]
      /\ t2.written = t.written /\ t2.lastFrame = t.lastFrame
      /\ t2.tail = t.tail /\ t2.alerts = t.alerts /\ t2.cause = t.cause
  BY <1>2 DEF ClosedTrack, ClosedLog
<1>5. p.end = t.pkts[m].end
  OBVIOUS
<1> HIDE DEF p
<1>6. m \in DOMAIN t.pkts
  <2>1. m > 0
    BY DEF t
  <2> QED
    BY <1>3, <2>1
<1>7. /\ Len(t2.pkts) = m /\ DOMAIN t2.pkts = DOMAIN t.pkts
      /\ t2.pkts[m] = p
      /\ \A k \in DOMAIN t.pkts : k # m => t2.pkts[k] = t.pkts[k]
  <2>1. DOMAIN t2.pkts = DOMAIN t.pkts
    BY <1>4
  <2>2. Len(t2.pkts) = m
    <3>1. t2.pkts = [k \in 1 .. m |-> IF k = m THEN p ELSE t.pkts[k]]
      BY <1>3, <1>4
    <3>2. Len([k \in 1 .. m |-> IF k = m THEN p ELSE t.pkts[k]]) = m
      BY <1>3
    <3> QED
      BY <3>1, <3>2
  <2>3. t2.pkts[m] = p
    BY <1>4, <1>6
  <2>4. \A k \in DOMAIN t.pkts : k # m => t2.pkts[k] = t.pkts[k]
    BY <1>4
  <2> QED
    BY <2>1, <2>2, <2>3, <2>4
<1>8. \A k \in 0 .. m : End(t2, k) = End(t, k)
  <2> SUFFICES ASSUME NEW k \in 0 .. m, k # 0
               PROVE  t2.pkts[k].end = t.pkts[k].end
    BY DEF End
  <2>1. k \in DOMAIN t.pkts
    BY <1>3
  <2>2. CASE k = m
    BY <1>5, <1>7, <2>2
  <2>3. CASE k # m
    BY <1>7, <2>1, <2>3
  <2> QED
    BY <2>2, <2>3
<1>9. HasEos(t) => HasEos(t2)
  <2>1. t.pkts[m].type # "eos"
    BY DEF t
  <2> QED
    BY <1>7, <2>1 DEF HasEos
<1>10. FrameEnds(t2) /\ Roomy(t2)
  <2>1. FrameEnds(t) /\ Roomy(t)
    BY <1>1 DEF Fine, t
  <2>2. FrameEnds(t2)
    BY <1>4, <1>7, <1>8, <2>1 DEF FrameEnds
  <2>3. Roomy(t2)
    BY <1>4, <2>1 DEF Roomy
  <2> QED
    BY <2>2, <2>3
<1>11. EosRead(c)
  BY <1>1, <1>2, <1>9 DEF Fine, EosRead, t, t2
<1>12. Fine(c)
  BY <1>10, <1>11 DEF Fine, t2
<1>13. Sits(c)
  BY <1>2, <1>4, <1>12 DEF Sits, t, t2
<1>14. m \in 0 .. m
  BY <1>3
<1>15. Written(c)
  BY <1>4, <1>7, <1>8, <1>14 DEF Written, t, t2
<1> QED
  BY <1>13, <1>15

\* ... and sent.
LEMMA CloseFrameSits ==
    ASSUME MInv, OwnerWrites, NEW d \in Nat, NEW s \in OpenFrame(Now, d),
           s.rc # "error", Sits(s), Written(s), NEW z \in CloseFrame(s)
    PROVE  Sits(z)
<1> DEFINE c == Closed(s)
<1>1. PICK y \in SendAll(c) :
        z = IF y.rc = "error" THEN y ELSE FrameWritten(y)
  BY DEF CloseFrame, Then, Closed
<1>2. c = Closed(s)
  OBVIOUS
<1> HIDE DEF c
<1>3. /\ Len(s.track.pkts) > 0 /\ Good(conf, c)
      /\ s.track.pkts[Len(s.track.pkts)].type = "open"
  BY <1>2, OpenFrameClosed DEF MInv
<1>4. Sits(c) /\ Written(c)
  BY <1>2, <1>3, ClosedSits
<1>5. Mild(c, y)
  BY <1>1, <1>3, SendAllMild
<1>6. Sits(y)
  BY <1>4, <1>5, SitsMild
<1>7. Written(y)
  BY <1>4, <1>5 DEF Written, Mild, End
<1> QED
  BY <1>1, <1>6, <1>7, FrameWrittenSits

\* A frame is written in two parts.
LEMMA WriteMarkedFrameRested ==
    ASSUME MInv, WriteMarkedFrame
    PROVE  Rested
<1>1. OwnerWrites
  BY DEF WriteMarkedFrame
<1>2. PICK d \in conf.sizes :
        \E z \in Then(OpenFrame(Now, d), CloseFrame) : Become(Returned(z))
  BY DEF WriteMarkedFrame
<1>3. PICK z \in Then(OpenFrame(Now, d), CloseFrame) : Become(Returned(z))
  BY <1>2
<1>4. PICK s \in OpenFrame(Now, d) :
        z \in IF s.rc = "error" THEN {s} ELSE CloseFrame(s)
  BY <1>3 DEF Then
<1>5. PICK r : Starts(r) /\ Filled(r, s)
  BY <1>1, <1>4, OpenFrameFilled
<1>6. CASE s.rc = "error"
  <2>1. z = s
    BY <1>4, <1>6
  <2> QED
    BY <1>3, <1>5, <2>1, FilledReturned
<1>7. CASE s.rc # "error"
  <2>1. z \in CloseFrame(s) /\ d \in Nat
    BY <1>2, <1>4, <1>7, NowGood DEF MInv, ConfType
  <2>2. Sits(s) /\ Written(s)
    BY <1>5, <1>7, FilledSits DEF Filled, Written
  <2>3. Sits(z)
    BY <1>1, <1>4, <1>7, <2>1, <2>2, CloseFrameSits
  <2> QED
    BY <1>3, <2>3, SitsReturned
<1> QED
  BY <1>6, <1>7

-----------------------------------------------------------------------------
(* The input is closed *)

\* x is fine but for the room in its buffers.
Nearly(x) ==
    /\ x \in StateType /\ FrameEnds(x.track) /\ EosRead(x)
    /\ x.track.cause = "memory" => track.cause = "memory"

\* A call that writes nothing keeps that.
LEMMA NearlyMild ==
    ASSUME NEW s, Nearly(s), NEW x, Mild(s, x)
    PROVE  Nearly(x)
<1>1. EosRead(x)
  BY DEF Nearly, EosRead, Mild, PastEos, HasEos
<1>2. FrameEnds(x.track)
  BY DEF Nearly, FrameEnds, Mild, End
<1> QED
  BY <1>1, <1>2 DEF Nearly, Mild, SameCause

\* All upstreams are freed.
LEMMA FreeUpstreamsMild ==
    ASSUME NEW s \in StateType, NEW x, x = FreeUpstreams(s)
    PROVE  Mild(s, x) /\ x \in StateType /\ x.queue = << >>
<1> DEFINE gone == [NoUpstream EXCEPT !.used = TRUE]
           ups == [u \in Upstreams |->
                    IF u \in ToSet(s.queue) THEN gone ELSE s.up[u]]
           q == << >>
<1>1. s \in StateType /\ s.up \in [Upstreams -> UpType]
  BY StateParts
<1>2. gone \in UpType /\ ~gone.eos
  BY GoneUp DEF NoUpstream
<1>3. x = SetUps(s, ups, q)
  BY DEF FreeUpstreams, SetUps
<1> HIDE DEF gone
<1>4. /\ ups \in [Upstreams -> UpType]
      /\ \A v \in Upstreams : ups[v].eos => s.up[v].eos
  BY <1>1, <1>2
<1>5. q = << >> /\ q \in Seq(Upstreams)
  OBVIOUS
<1> HIDE DEF ups, q
<1>6. x \in StateType /\ x.track = s.track /\ x.up = ups /\ x.queue = q
  <2>1. /\ s \in StateType /\ ups \in [Upstreams -> UpType]
        /\ q \in Seq(Upstreams)
    BY <1>1, <1>4, <1>5
  <2> QED
    BY ONLY <1>3, <2>1, UpsFields
<1>7. PastEos(s, x)
  BY <1>4, <1>6 DEF PastEos
<1> QED
  BY <1>5, <1>6, <1>7 DEF Mild, SameCause

\* The upstreams know that the stream ends.
LEMMA EndedMild ==
    ASSUME NEW s, Good(conf, s), NEW x, x = Ended(s)
    PROVE  Mild(s, x)
<1> DEFINE ups == EndedUps(s)
<1>1. s \in StateType /\ s.up \in [Upstreams -> UpType]
  BY StateParts DEF Good, Sound
<1>2. Good(conf, x) /\ x.track = s.track
  BY EndedGood
<1>3. x.up = ups
  BY <1>1 DEF Ended, StateType
<1>4. ASSUME NEW v \in Upstreams, ups[v].eos
      PROVE  s.up[v].eos
  <2>1. s.up[v] \in UpType
    BY <1>1
  <2>2. CASE v \in ToSet(s.queue)
    <3>1. ups[v] = [s.up[v] EXCEPT !.sentEnd = TRUE]
      BY <2>2 DEF EndedUps
    <3> HIDE DEF ups
    <3> QED
      BY <1>4, <2>1, <3>1 DEF UpType
  <2>3. CASE v \notin ToSet(s.queue)
    BY <1>4, <2>3 DEF EndedUps
  <2> QED
    BY <2>2, <2>3
<1> HIDE DEF ups
<1>5. PastEos(s, x)
  BY <1>3, <1>4 DEF PastEos
<1> QED
  BY <1>2, <1>5 DEF Mild, SameCause, Good, Sound

\* The track is set detached.
LEMMA DetachedStarts ==
    ASSUME MInv, ~track.detached, NEW s,
           s = [Now EXCEPT !.track.detached = TRUE, !.track.pub = FALSE]
    PROVE  Starts(s) /\ Mild(Now, s)
<1> DEFINE a == [track EXCEPT !.detached = TRUE]
           t2 == [a EXCEPT !.pub = FALSE]
<1>1. /\ Now \in StateType /\ Now.track = track /\ track \in TrackType
  BY NowGood DEF MInv, Good, Sound
<1>2. s = SetTrack(Now, t2)
  BY <1>1 DEF SetTrack, StateType
<1>3. /\ a \in TrackType /\ a.pkts = track.pkts
      /\ a.written = track.written /\ a.tail = track.tail
      /\ a.lastFrame = track.lastFrame /\ a.alerts = track.alerts
      /\ a.cause = track.cause
  BY <1>1 DEF TrackType
<1>4. IInv /\ s = [Now EXCEPT !.track.detached = TRUE, !.track.pub = FALSE]
  BY DEF MInv
<1>5. /\ Good(conf, s) /\ s.up = up /\ s.queue = queue /\ s.rc = "ok"
  BY <1>4, DetachStart DEF Detaching
<1> HIDE DEF a
<1>6. /\ t2 \in TrackType /\ t2.pkts = track.pkts
      /\ t2.written = track.written /\ t2.tail = track.tail
      /\ t2.lastFrame = track.lastFrame /\ t2.alerts = track.alerts
      /\ t2.cause = track.cause
  BY <1>3 DEF TrackType
<1> HIDE DEF t2
<1>7. s \in StateType /\ s.track = t2 /\ s.up = Now.up
  BY ONLY <1>1, <1>2, <1>6, TrackFields
<1>8. Starts(s)
  BY <1>5, <1>6, <1>7 DEF Starts
<1>9. Mild(Now, s)
  <2>1. SameCause(track, t2) /\ t2.tail \in {track.tail, -1}
        /\ track.alerts \subseteq t2.alerts
    BY <1>6 DEF SameCause
  <2> QED
    BY ONLY <1>1, <1>6, <1>7, <2>1, MildTrack
<1> QED
  BY <1>8, <1>9

\* The end of stream is written, appended and sent; memory may run out, but the
\* track is not active any more.
LEMMA EndOfStreamNearly ==
    ASSUME MInv, ~track.detached, NEW s, Starts(s), s.queue # << >>,
           NEW x \in SendEndOfStream(s)
    PROVE  Nearly(x) /\ (x.rc # "error" => Sits(x))
<1>1. /\ Unended(s) /\ Roomy(s.track) /\ s \in StateType
      /\ Good(conf, s) /\ s.rc = "ok"
  BY StartsUnended DEF Starts
<1>2. s.track.cause = track.cause
  BY DEF Starts
<1>3. Sits(s) /\ Nearly(s)
  BY <1>1, <1>2 DEF Sits, Nearly, Fine, Unended
<1>4. CASE s.track.werr
  <2>1. x = Rc(s, "error")
    BY <1>4 DEF SendEndOfStream
  <2>2. Mild(s, x) /\ x.rc = "error"
    <3>1. Mild(s, x)
      BY <1>1, <2>1, MildNothing, MildRc
    <3>2. x.rc = "error"
      BY <1>1, <2>1, RcFields
    <3> QED
      BY <3>1, <3>2
  <2> QED
    BY <1>3, <2>2, NearlyMild
<1>5. CASE ~s.track.werr
  <2> DEFINE a == Inactive(s)
  <2>1. PICK w \in WritePacket(a, "eos", 0) :
          x \in IF w.rc = "error" THEN {w} ELSE Flush(Ended(w))
    BY <1>5 DEF SendEndOfStream, Then, Inactive, Ended, EndedUps
  <2>2. a = Inactive(s)
    OBVIOUS
  <2> HIDE DEF a
  <2>3. /\ Mild(s, a) /\ a.up = s.up /\ a.queue = s.queue
        /\ a.track.cause = s.track.cause /\ a.track.tail = s.track.tail
        /\ a.track.state = "inactive" /\ a.rc = s.rc
    BY <1>1, <2>2, InactiveMild
  <2>4. Good(conf, a)
    BY <1>1, <2>2, InactiveFields
  <2>5. Sits(a)
    BY <1>3, <2>3, SitsMild
  <2>6. Unended(a) /\ Roomy(a.track)
    BY <2>3, <2>5 DEF Sits, Fine, Unended
  <2>7. Owned(conf, a.track)
    <3>1. MemoryOK(conf, s.track, s.queue) /\ s.track \in TrackType
      BY <1>1, StateParts DEF Good, Sound
    <3>2. s.track.tail \in Int /\ s.track.head \in Nat
      BY <3>1 DEF TrackType
    <3>3. ~(a.track.tail < 0)
      BY <2>3, <3>1, <3>2 DEF MemoryOK
    <3> QED
      BY <3>3 DEF Owned
  <2>8. "eos" \in PacketTypes /\ "eos" # "open" /\ 0 \in Nat
        /\ a.rc # "error" /\ a.track.state # "active"
    BY <1>1, <2>3 DEF PacketTypes
  <2>9. Filled(a, w)
    BY <2>1, <2>4, <2>6, <2>7, <2>8, WritePacketFills
  <2>10. Writes(a, w, "eos", 0)
    BY <2>1, <2>4, <2>7, <2>8, WritePacketGood
  <2>11. w.track.cause = "memory" => track.cause = "memory"
    BY <1>2, <2>3, <2>8, <2>9 DEF Filled, LastResort
  <2>12. Nearly(w)
    BY <2>9, <2>11 DEF Nearly, Filled, Unended
  <2>13. CASE w.rc = "error"
    BY <2>1, <2>12, <2>13
  <2>14. CASE w.rc # "error"
    <3> DEFINE e == Ended(w)
    <3>1. x \in Flush(e) /\ e = Ended(w)
      BY <2>1, <2>14
    <3> HIDE DEF e
    <3>2. Good(conf, w)
      BY <2>10 DEF Writes
    <3>3. Sits(w)
      BY <2>9, <2>12, <2>14 DEF Sits, Nearly, Fine, Filled
    <3>4. Good(conf, e) /\ Mild(w, e)
      BY <3>1, <3>2, EndedGood, EndedMild
    <3>5. Mild(e, x)
      BY <3>1, <3>4, FlushMild
    <3>6. Sits(x)
      BY <3>3, <3>4, <3>5, SitsMild
    <3> QED
      BY <3>6 DEF Sits, Nearly, Fine
  <2> QED
    BY <2>13, <2>14
<1> QED
  BY <1>4, <1>5

\* The track is detached.
LEMMA DetachRested ==
    ASSUME MInv, Detach
    PROVE  Rested
<1> DEFINE s == [Now EXCEPT !.track.detached = TRUE, !.track.pub = FALSE]
           Left(x) == IF x.rc = "error" THEN FreeUpstreams(x) ELSE x
<1>1. PICK x \in IF queue = << >> THEN {s} ELSE SendEndOfStream(s) :
        Become(Cleanup(Left(x)))
  BY DEF Detach
<1>2. ~track.detached /\ s = [Now EXCEPT !.track.detached = TRUE,
                                         !.track.pub = FALSE]
  BY DEF Detach
<1> HIDE DEF s
<1>3. Starts(s) /\ Mild(Now, s) /\ s.queue = queue /\ s.rc = "ok"
  BY <1>2, DetachedStarts DEF Starts
<1>4. Nearly(x) /\ (x.rc # "error" => Sits(x))
  <2>1. CASE queue = << >>
    <3>1. Sits(s)
      BY <1>2, <1>3, StartsUnended DEF Starts, Sits, Fine, Unended
    <3> QED
      BY <1>1, <2>1, <3>1 DEF Sits, Nearly, Fine
  <2>2. CASE queue # << >>
    BY <1>1, <1>2, <1>3, <2>2, EndOfStreamNearly
  <2> QED
    BY <2>1, <2>2
<1> DEFINE y == Left(x)
           z == Cleanup(y)
<1>5. z = Cleanup(y) /\ Become(z)
  BY <1>1
<1>6. Sits(z)
  <2>1. CASE x.rc = "error"
    <3>1. y = FreeUpstreams(x)
      BY <2>1
    <3> HIDE DEF y
    <3>2. Mild(x, y) /\ y \in StateType /\ y.queue = << >>
      BY <1>4, <3>1, FreeUpstreamsMild DEF Nearly
    <3>3. Mild(y, z) /\ z.track.tail = -1
      BY <1>5, <3>2, CleanupMild
    <3>4. Nearly(z)
      BY <1>4, <3>2, <3>3, NearlyMild
    <3> QED
      BY <3>3, <3>4 DEF Nearly, Sits, Fine, Roomy
  <2>2. CASE x.rc # "error"
    <3>1. y = x /\ Sits(x)
      BY <1>4, <2>2
    <3> HIDE DEF y
    <3>2. Mild(y, z)
      BY <1>5, <3>1, CleanupMild DEF Sits
    <3> QED
      BY <3>1, <3>2, SitsMild
  <2> QED
    BY <2>1, <2>2
<1> HIDE DEF y, z
<1> QED
  BY <1>5, <1>6, SitsRested

-----------------------------------------------------------------------------
(* Every step *)

\* At the start nothing was written.
LEMMA InitFine ==
    ASSUME Init
    PROVE  Fine(Now)
<1>1. Now.track = EmptyTrack /\ Now.up = [u \in Upstreams |-> NoUpstream]
  BY DEF Init, Now
<1>2. /\ EmptyTrack.tail = -1 /\ EmptyTrack.lastFrame = 0
      /\ EmptyTrack.written = 0 /\ EmptyTrack.pkts = << >>
  BY DEF EmptyTrack
<1>3. End(EmptyTrack, 0) = 0 /\ 0 \in 0 .. Len(EmptyTrack.pkts)
  BY <1>2 DEF End
<1>4. FrameEnds(EmptyTrack)
  BY <1>2, <1>3 DEF FrameEnds
<1>5. Roomy(EmptyTrack)
  BY <1>2 DEF Roomy
<1>6. ~NoUpstream.eos
  BY DEF NoUpstream
<1>7. EosRead(Now)
  BY <1>1, <1>6 DEF EosRead
<1> QED
  BY <1>1, <1>4, <1>5, <1>7 DEF Fine

\* Nothing happens.
LEMMA StutterRested ==
    ASSUME MInv, UNCHANGED vars
    PROVE  Rested
<1>1. /\ Now \in StateType /\ Now.track = track /\ Now.up = up
      /\ Now.queue = queue
  BY NowGood DEF MInv
<1>2. Now.faults = faults
  BY DEF Now
<1>3. Become(Now)
  BY <1>1, <1>2 DEF Become, vars
<1> QED
  BY <1>1, <1>3, MildNothing, MildRested

\* Every step leaves what is known of the memory, and memory runs out only as
\* the last resort.
LEMMA NextRested ==
    ASSUME MInv, [Next]_vars
    PROVE  MInv' /\ Resorted
<1>1. Rested
  <2>1. CASE \/ WriteMediaInfo \/ WriteFrame \/ WriteMarkedFrame
             \/ AbortFrame \/ KeepaliveTimer \/ FlushTimer \/ Detach
             \/ PublishReply \/ PublishFail
    BY <2>1, WriteMediaInfoRested, WriteFrameRested, WriteMarkedFrameRested,
       AbortFrameRested, KeepaliveRested, FlushTimerRested, DetachRested,
       PublishReplyRested, PublishFailRested
  <2>2. ASSUME NEW u \in Upstreams,
               \/ RepublishReply(u) \/ RepublishFail(u) \/ RepublishTimer(u)
               \/ AddUpstream(u) \/ DelUpstream(u)
        PROVE  Rested
    BY <2>2, RepublishReplyRested, RepublishFailRested,
       RepublishTimerRested, AddUpstreamRested, DelUpstreamRested
  <2>3. ASSUME NEW u \in Upstreams,
               \/ Connected(u) \/ WriteReady(u) \/ WriteTimeout(u)
               \/ PeerClosed(u) \/ PeerDone(u) \/ ReadAck(u)
        PROVE  Rested
    BY <2>3, ConnectedRested, WriteReadyRested, PeerRested, ReadAckRested
  <2>4. CASE Freed \/ UNCHANGED vars
    BY <2>4, StutterRested DEF Freed
  <2> QED
    BY <2>1, <2>2, <2>3, <2>4 DEF Next
<1>2. Fine(Now)' /\ Resorted
  BY <1>1, RestedFine
<1>3. IInv'
  BY NextGood DEF MInv
<1> QED
  BY <1>2, <1>3 DEF MInv

-----------------------------------------------------------------------------
(* Theorems *)

\* A buffer that is written to is not full, the last whole frame ends a packet,
\* and no reader is past an end of stream that was not written
\* (ngx_kmp_out_track_write_chain, update_frame_stats).
THEOREM MemoryInvariance == Spec => []MInv
<1>1. Init => MInv
  BY InitGood, InitFine DEF MInv
<1>2. MInv /\ [Next]_vars => MInv'
  BY NextRested
<1> QED
  BY <1>1, <1>2, PTL DEF Spec

\* Memory of an active track with one upstream runs out only when its connection
\* may not be given up, or what was written after the last whole frame used up
\* the high watermark, or the log was damaged before (mem_watermark, auto_ack).
THEOREM MemoryIsLastResort == Spec => MemoryLastResort
<1>1. MInv /\ [Next]_vars =>
        [\A u \in Upstreams :
            queue = <<u>> /\ track.cause # "memory" /\ track'.cause = "memory"
                => \/ up'[u].noRep \/ up'[u].reps >= conf.maxRepublishes
                   \/ track'.written - track'.lastFrame
                            > (conf.highMark - 1) * BufSize
                   \/ track'.alerts # {}]_vars
  BY NextRested DEF Resorted
<1> QED
  BY <1>1, MemoryInvariance, PTL DEF Spec, MemoryLastResort

=============================================================================
