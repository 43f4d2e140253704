------------------------ MODULE SegmentPersist_proofs ------------------------
(***************************************************************************)
(* What holds of a channel and of its files in every state, for every size *)
(* of the buckets, the deltas, the window and the memory.  Safe is the     *)
(* inductive invariant: the channel stands (SegmentPersistSteps), the      *)
(* files are well formed, and what a restart would read of them is known.  *)
(* One lemma for each action shows that it is kept.                        *)
(***************************************************************************)
EXTENDS SegmentPersistSteps

\* The segments that the files name.
ReadFrom(st) ==
    IF st.index = None THEN {}
    ELSE st.index[1].tl \cup (IF DeltaCounts(st) THEN st.delta[1].tl ELSE {})

\* The delta starts after the index, if there is one.
Alive(st) ==
    st.delta # None /\ (st.index # None => st.index[1].max < st.delta[1].min)

\* What is read back, and whether the files are those that were written
\* since the last restart or before it.
Image(st, fresh) ==
    [index |-> st.index, read |-> ReadFrom(st), fresh |-> fresh]

\* A file of the segments that were there.
FileOK(f) ==
    /\ f.trunc <= f.max /\ f.min <= f.max + 1 /\ f.max < RoundUp(MaxSegments)
    /\ \A k \in f.tl : f.min <= k /\ k <= f.max

StoreType ==
    [media : SUBSET Nat, index : Opt(FileType), delta : Opt(FileType)]

StoreOK(st) ==
    /\ st \in StoreType
    /\ st.index # None => FileOK(st.index[1])
    /\ st.delta # None => FileOK(st.delta[1]) /\ 1 <= st.delta[1].min

\* Storage is read no further than lv, and a delta that is not read now is
\* never read.
Readable(st, lv, success) ==
    /\ st.index # None => st.index[1].max <= lv /\ success <= st.index[1].max
    /\ st.index = None => success = 0
    /\ st.delta # None => st.delta[1].min <= success + 1
    /\ Alive(st) => st.delta[1].max <= lv

Safe(lv, fresh) ==
    /\ Standing(ch, lv, store.media, Image(store, fresh))
    /\ StoreOK(store) /\ ch.next \in Keys
    /\ fresh => Readable(store, lv, ch.success)

\* The inductive invariant.
IInv == \E lv \in Int, fresh \in BOOLEAN : Safe(lv, fresh)

-----------------------------------------------------------------------------
(* The publisher, and what the environment does *)

PublisherFields ==
    {"connected", "conn", "frames", "acked", "pub", "events", "fail",
     "changed", "hist"}

\* The publisher and the user change what they know of.
LEMMA KnownStanding ==
    ASSUME NEW c, NEW d, NEW lv, NEW med, NEW i, Standing(c, lv, med, i),
           Chan(d), Keeps(c, d, PublisherFields),
           Known(d.idx, d.iw, d.pend, d.conn, d.connected, d.frames, d.acked),
           History(d.iw, d.changed, d.hist, d.health, i)
    PROVE  StandingAt(d, c.next, lv, med, i, c.success)
<1> DEFINE n == c.next
           p == BucketOf(n)
           u == {}
<1>1. /\ d.idx = c.idx /\ d.media = c.media /\ d.tl = c.tl /\ d.iw = c.iw
      /\ d.pend = c.pend /\ d.unsaved = c.unsaved /\ d.health = c.health
      /\ d.snapshots = c.snapshots /\ d.next = c.next /\ d.min = c.min
      /\ d.trunc = c.trunc /\ d.lastReady = c.lastReady
      /\ d.success = c.success /\ d.cut = c.cut
  BY DEF Keeps, Fields, PublisherFields
<1>2. Good(c, n, lv, p, med, u, i)
  BY DEF Standing
<1> HIDE DEF n, p, u
<1>3. Scalars(d, n, lv, u)
  BY <1>1, <1>2 DEF Good, Scalars
<1>4. Good(d, n, lv, p, med, u, i)
  BY <1>1, <1>2, <1>3 DEF Good
<1>5. Leads(c, d, PublisherFields, n, lv, p, med, u, i)
  BY <1>1, <1>4 DEF Leads, Standing, Counted
<1>6. PublisherFields \cap {"next", "lastReady", "lastBucket", "success"} = {}
  BY DEF PublisherFields
<1>7. Leads(c, d, PublisherFields, c.next, lv, BucketOf(c.next), med, {}, i)
  BY <1>5 DEF n, p, u
<1> QED
  BY <1>6, <1>7, StepStands

\* An event is counted and something may fail.
LEMMA FailingDoes ==
    ASSUME NEW c, Chan(c), NEW e \in {c, Event(c)}, NEW F
    PROVE  Chan(Failing(e, F)) /\ Keeps(c, Failing(e, F), {"events", "fail"})
<1>1. Chan(e) /\ Keeps(c, e, {"events", "fail"})
  BY DEF Event, Chan, Keeps, Fields
<1>2. Chan(Event(e)) /\ Keeps(c, Event(e), {"events", "fail"})
  BY <1>1 DEF Event, Chan, Keeps, Fields
<1> DEFINE g == Event(e)
<1> HIDE DEF g
<1>3. Chan(g) /\ Keeps(c, g, {"events", "fail"})
  BY <1>2 DEF g
<1>4. Chan([g EXCEPT !.fail = F])
      /\ Keeps(c, [g EXCEPT !.fail = F], {"events", "fail"})
  BY <1>3 DEF Chan, Keeps, Fields
<1> QED
  BY <1>1, <1>4 DEF Failing, g

\* That leaves the channel standing.
LEMMA FailingStanding ==
    ASSUME NEW c, NEW lv, NEW med, NEW i, Standing(c, lv, med, i),
           NEW e \in {c, Event(c)}, NEW F
    PROVE  StandingAt(Failing(e, F), c.next, lv, med, i, c.success)
<1> DEFINE d == Failing(e, F)
<1>1. Chan(c)
  BY DEF Standing, Good
<1>2. Chan(d) /\ Keeps(c, d, {"events", "fail"})
  BY <1>1, FailingDoes
<1> HIDE DEF d
<1>3. /\ d.idx = c.idx /\ d.iw = c.iw /\ d.pend = c.pend
      /\ d.conn = c.conn /\ d.connected = c.connected
      /\ d.frames = c.frames /\ d.acked = c.acked
      /\ d.changed = c.changed /\ d.hist = c.hist /\ d.health = c.health
  BY <1>2 DEF Keeps, Fields
<1>4. Keeps(c, d, PublisherFields)
  BY <1>2 DEF Keeps, PublisherFields
<1>5. /\ Known(d.idx, d.iw, d.pend, d.conn, d.connected, d.frames, d.acked)
      /\ History(d.iw, d.changed, d.hist, d.health, i)
  BY <1>3 DEF Standing, Good
<1> QED
  BY <1>2, <1>4, <1>5, KnownStanding DEF d

\* The parts of the state that a step leaves alone, but for the media.
SameFiles(st, new) == new.index = st.index /\ new.delta = st.delta

\* A step after which the channel stands, and that reads no other files.
LEMMA SafeKept ==
    ASSUME NEW lv \in Int, NEW fresh \in BOOLEAN, Safe(lv, fresh),
           SameFiles(store, store'), store' \in StoreType, NEW n \in Keys,
           StandingAt(ch', n, lv, store'.media, Image(store, fresh),
                      ch.success)
    PROVE  IInv'
<1>1. /\ Standing(ch', lv, store'.media, Image(store, fresh))
      /\ ch'.next = n /\ ch'.success = ch.success
  BY DEF StandingAt
<1>2. Image(store', fresh) = Image(store, fresh)
  BY DEF SameFiles, Image, ReadFrom, DeltaCounts
<1>3. StoreOK(store')
  BY DEF SameFiles, StoreOK, Safe, FileOK
<1>4. fresh => Readable(store', lv, ch'.success)
  BY <1>1 DEF SameFiles, Readable, Safe, Alive
<1>5. Safe(lv, fresh)'
  BY <1>1, <1>2, <1>3, <1>4 DEF Safe, Keys
<1> QED
  BY <1>5 DEF IInv

\* d has no index, nothing is written, and no publisher is connected.
Empty(d, lv, med, i) ==
    /\ Chan(d)
    /\ d.idx = << >> /\ d.media = {} /\ d.iw = None /\ d.pend = None
    /\ d.snapshots = 0 /\ ~d.connected /\ d.changed = 0
    /\ d.lastReady = -1 /\ d.lastBucket = -1 /\ d.cut = 0
    /\ lv < d.next /\ d.min <= d.next /\ d.trunc <= d.next
    /\ \A k \in d.tl : d.min <= k /\ k < d.next
    /\ d.success = 0 \/ d.success <= lv
    /\ \A k \in med : BucketOf(k) < BucketOf(d.next)
    /\ d.health # "stale" =>
        /\ d.tl \subseteq med \cup d.unsaved
        /\ i.fresh /\ i.read \subseteq med \cup d.unsaved
        /\ i.index # None => i.index[1].hist = d.hist

\* It stands.
LEMMA EmptyStanding ==
    ASSUME NEW d, NEW lv, NEW med, NEW i, Empty(d, lv, med, i)
    PROVE  Standing(d, lv, med, i)
<1> DEFINE n == d.next
           p == BucketOf(n)
           u == {}
<1>1. Chan(d) /\ n \in Nat /\ -1 < n
  BY DEF Empty, Chan
<1>2. DOMAIN d.idx = {} /\ HeldIn(d.idx) = {} /\ PendingIn(d.idx) = {}
  BY DEF Empty, HeldIn, PendingIn
<1>3. Scalars(d, n, lv, u)
  BY <1>1 DEF Empty, Scalars, Chan
<1>4. Order(d.idx, d.iw, d.pend, n, lv)
  BY <1>2 DEF Empty, Order
<1>5. Flight(d.idx, d.media, p, med)
  BY <1>2 DEF Empty, Flight
<1>6. Stored(d.idx, d.tl, d.iw, d.unsaved, d.health, med, u, i)
  BY <1>2 DEF Empty, Stored
<1>7. Known(d.idx, d.iw, d.pend, d.conn, d.connected, d.frames, d.acked)
  BY <1>2 DEF Empty, Known
<1>8. History(d.iw, d.changed, d.hist, d.health, i)
  BY DEF Empty, History, Healths
<1>9. Counted(d, 0)
  <2>1. Cardinality(HeldIn(d.idx)) = 0 /\ Len(d.iw) = 0 /\ Len(d.pend) = 0
    BY <1>2, FS_EmptySet DEF Empty, None
  <2> QED
    BY <2>1 DEF Empty, Counted, Count
<1>10. FreeIn(d.idx, d.media, {})
  BY <1>2 DEF FreeIn
<1> QED
  BY <1>1, <1>3, <1>4, <1>5, <1>6, <1>7, <1>8, <1>9, <1>10
     DEF Standing, Good, LastOK, Empty, n, p, u

\* The numbers of the indexes.
LEMMA KeysAre ==
    /\ RoundUp(MaxSegments) \in Nat /\ MaxSegments <= RoundUp(MaxSegments)
    /\ \A n \in Nat : n <= RoundUp(MaxSegments) <=> n \in Keys
    /\ Keys \subseteq Nat
BY SegmentPersistAssumption, RoundUpBounds DEF Keys

\* The channel that was just created is safe.
LEMMA InitSafe ==
    ASSUME Init
    PROVE  IInv
<1>1. /\ ch = NewChannel
      /\ store = [media |-> {}, index |-> None, delta |-> None]
  BY DEF Init
<1> DEFINE i == Image(store, TRUE)
<1>2. Chan(ch)
  BY <1>1 DEF NewChannel, Chan, Fields, IdxType, Opt, Healths
<1>3. i.fresh /\ i.read = {} /\ i.index = None
  BY <1>1 DEF Image, ReadFrom
<1> HIDE DEF i
<1> DEFINE lv == -1
<1>4. Empty(ch, lv, store.media, i)
  <2>1. store.media = {}
    BY <1>1
  <2>2. /\ ch.idx = << >> /\ ch.media = {} /\ ch.iw = None
        /\ ch.pend = None /\ ch.snapshots = 0 /\ ch.connected = FALSE
        /\ ch.changed = 0 /\ ch.lastReady = -1 /\ ch.lastBucket = -1
        /\ ch.cut = 0 /\ ch.next = 0 /\ ch.min = 0 /\ ch.trunc = 0
        /\ ch.tl = {} /\ ch.success = 0
    BY <1>1 DEF NewChannel
  <2> QED
    BY <1>2, <1>3, <2>1, <2>2 DEF Empty
<1>5. StoreOK(store)
  BY <1>1 DEF StoreOK, StoreType, Opt
<1>6. Readable(store, lv, ch.success)
  BY <1>1 DEF Readable, Alive, NewChannel
<1>7. ch.next \in Keys
  BY <1>1, KeysAre DEF NewChannel
<1>8. lv \in Int
  OBVIOUS
<1> HIDE DEF lv
<1>9. Safe(lv, TRUE)
  BY <1>4, <1>5, <1>6, <1>7, EmptyStanding DEF Safe, i
<1> QED
  BY <1>8, <1>9 DEF IInv

\* Standing, of the channel and its files
LEMMA SafeStands ==
    ASSUME NEW lv \in Int, NEW fresh \in BOOLEAN, Safe(lv, fresh)
    PROVE  /\ Standing(ch, lv, store.media, Image(store, fresh))
           /\ Chan(ch) /\ ch.next \in Keys /\ store \in StoreType
           /\ store.media \subseteq Nat
           /\ Known(ch.idx, ch.iw, ch.pend, ch.conn, ch.connected, ch.frames,
                    ch.acked)
           /\ History(ch.iw, ch.changed, ch.hist, ch.health,
                      Image(store, fresh))
BY DEF Safe, Standing, Good, StoreOK, StoreType

\* What is known of the frames stays known when there are more.
LEMMA KnownMore ==
    ASSUME NEW c, NEW d, Chan(c), Chan(d),
           Known(c.idx, c.iw, c.pend, c.conn, c.connected, c.frames, c.acked),
           d.idx = c.idx, d.iw = c.iw, d.pend = c.pend,
           \/ ~d.connected /\ d.conn = c.conn
           \/ /\ d.conn = c.conn + 1 /\ d.acked <= d.frames
           \/ /\ d.conn = c.conn /\ d.connected = c.connected
              /\ c.frames <= d.frames /\ d.acked = c.acked
    PROVE  Known(d.idx, d.iw, d.pend, d.conn, d.connected, d.frames, d.acked)
<1>1. ASSUME NEW f \in FrameType, FrameOK(f, c.conn, c.connected, c.frames)
      PROVE  FrameOK(f, d.conn, d.connected, d.frames)
  <2>1. /\ f.conn \in Nat /\ f.id \in Nat /\ c.conn \in Nat /\ d.conn \in Nat
        /\ c.frames \in Nat /\ d.frames \in Nat
    BY DEF Chan, FrameType
  <2> QED
    BY <1>1, <2>1 DEF FrameOK
<1>2. d.connected => d.acked <= d.frames
  <2>1. CASE c.frames <= d.frames /\ d.acked = c.acked /\ c.connected
    <3>1. c.acked <= c.frames
      BY <2>1 DEF Known
    <3>2. c.acked \in Nat /\ c.frames \in Nat /\ d.frames \in Nat
      BY DEF Chan
    <3> QED
      BY <2>1, <3>1, <3>2
  <2> QED
    BY <2>1
<1>3. /\ \A k \in HeldIn(c.idx) : c.idx[k].snap[1].frames \in FrameType
      /\ c.iw # None => c.iw[1].frames \in FrameType
      /\ c.pend # None => c.pend[1].frames \in FrameType
  BY ChanFrames
<1> QED
  BY <1>1, <1>2, <1>3 DEF Known

\* The publisher and the user leave the channel standing.
LEMMA PublisherSafe ==
    ASSUME NEW lv \in Int, NEW fresh \in BOOLEAN, Safe(lv, fresh),
           Keeps(ch, ch', PublisherFields), Chan(ch'),
           Known(ch'.idx, ch'.iw, ch'.pend, ch'.conn, ch'.connected,
                 ch'.frames, ch'.acked),
           \/ ch'.changed = ch.changed /\ ch'.hist = ch.hist
           \/ ch'.changed # 0,
           store' = store
    PROVE  IInv'
<1> DEFINE i == Image(store, fresh)
           n == ch.next
           g == store.media
<1>1. /\ Standing(ch, lv, g, i) /\ n \in Keys /\ store \in StoreType
      /\ History(ch.iw, ch.changed, ch.hist, ch.health, i)
  BY SafeStands
<1>2. ch'.iw = ch.iw /\ ch'.health = ch.health
  BY DEF Keeps, Fields, PublisherFields
<1>3. History(ch'.iw, ch'.changed, ch'.hist, ch'.health, i)
  BY <1>1, <1>2 DEF History
<1> HIDE DEF i, g
<1>4. StandingAt(ch', n, lv, g, i, ch.success)
  BY <1>1, <1>3, KnownStanding
<1> HIDE DEF n
<1>5. SameFiles(store, store') /\ store'.media = g /\ store' \in StoreType
  BY <1>1 DEF SameFiles, g
<1> QED
  BY <1>1, <1>4, <1>5, SafeKept DEF i

\* The fields of a channel that the publisher and the user count with.
LEMMA ChanCounts ==
    ASSUME NEW c, Chan(c)
    PROVE  /\ DOMAIN c = Fields
           /\ c.conn \in Nat /\ c.frames \in Nat /\ c.acked \in Nat
           /\ c.pub \in Nat /\ c.events \in Nat /\ c.hist \in Nat
           /\ c.next \in Nat /\ c.connected \in BOOLEAN
BY DEF Chan

\* The publisher comes and goes.
LEMMA ConnectSafe ==
    ASSUME NEW lv \in Int, NEW fresh \in BOOLEAN, Safe(lv, fresh),
           Connect \/ Disconnect \/ \E again \in BOOLEAN : ConnectBack(again)
    PROVE  IInv'
<1>1. /\ Chan(ch)
      /\ Known(ch.idx, ch.iw, ch.pend, ch.conn, ch.connected, ch.frames,
               ch.acked)
  BY SafeStands
<1>0. /\ DOMAIN ch = Fields
      /\ ch.conn \in Nat /\ ch.frames \in Nat /\ ch.acked \in Nat
      /\ ch.pub \in Nat /\ ch.events \in Nat /\ ch.hist \in Nat
      /\ ch.next \in Nat /\ ch.connected \in BOOLEAN
  BY <1>1, ChanCounts
<1> DEFINE F == {"connected", "conn", "frames", "acked", "pub", "events"}
<1>2. /\ Keeps(ch, ch', F) /\ store' = store
      /\ ch'.conn \in Nat /\ ch'.frames \in Nat /\ ch'.acked \in Nat
      /\ ch'.pub \in Nat /\ ch'.events \in Nat /\ ch'.connected \in BOOLEAN
      /\ \/ ~ch'.connected /\ ch'.conn = ch.conn
         \/ ch'.conn = ch.conn + 1 /\ ch'.acked <= ch'.frames
  <2>1. CASE Connect
    <3> DEFINE frames == Bigger(ch.frames, ch.acked)
    <3>1. /\ ch' = [ch EXCEPT !.connected = TRUE, !.conn = @ + 1,
                              !.frames = frames]
          /\ store' = store
      BY <2>1 DEF Connect
    <3>2. frames \in Nat /\ ch.acked <= frames
      BY <1>1 DEF Chan, Bigger
    <3> HIDE DEF frames
    <3>3. /\ Keeps(ch, ch', F) /\ ch'.connected = TRUE
          /\ ch'.conn = ch.conn + 1 /\ ch'.frames = frames
          /\ ch'.acked = ch.acked /\ ch'.pub = ch.pub
          /\ ch'.events = ch.events
      BY <1>0, <3>1 DEF Keeps, Fields
    <3> HIDE DEF F
    <3> QED
      BY <1>0, <3>1, <3>2, <3>3
  <2>2. CASE Disconnect
    <3>1. /\ ch' = [ch EXCEPT !.events = @ + 1, !.connected = FALSE]
          /\ store' = store
      BY <2>2 DEF Disconnect, Event
    <3>2. /\ Keeps(ch, ch', F) /\ ch'.connected = FALSE
          /\ ch'.conn = ch.conn /\ ch'.frames = ch.frames
          /\ ch'.acked = ch.acked /\ ch'.pub = ch.pub
          /\ ch'.events = ch.events + 1
      BY <1>0, <3>1 DEF Keeps, Fields
    <3> HIDE DEF F
    <3> QED
      BY <1>0, <3>1, <3>2
  <2>3. ASSUME NEW again \in BOOLEAN, ConnectBack(again)
        PROVE  <1>2
    <3> DEFINE from == IF again THEN 0 ELSE ch.acked
               pub == IF again THEN ch.pub + 1 ELSE ch.pub
    <3>1. from \in Nat /\ pub \in Nat
      BY <1>1 DEF Chan
    <3>2. /\ ch' = [Event(ch) EXCEPT !.connected = TRUE, !.conn = @ + 1,
                        !.frames = from, !.acked = from,
                        !.pub = IF again THEN @ + 1 ELSE @]
          /\ store' = store
      BY <2>3 DEF ConnectBack
    <3> DEFINE e == Event(ch)
    <3>3. Chan(e) /\ Keeps(ch, e, {"events"}) /\ e.pub = ch.pub
          /\ e.conn = ch.conn
      BY <1>1 DEF Event, Chan, Keeps, Fields
    <3>4. ch' = [e EXCEPT !.connected = TRUE, !.conn = @ + 1,
                          !.frames = from, !.acked = from, !.pub = pub]
      BY <3>2, <3>3
    <3> HIDE DEF e, from, pub
    <3>5. DOMAIN e = Fields /\ e.events \in Nat
      BY <3>3, ChanCounts
    <3>6. /\ Keeps(e, ch', F) /\ ch'.connected = TRUE
          /\ ch'.conn = e.conn + 1 /\ ch'.frames = from
          /\ ch'.acked = from /\ ch'.pub = pub /\ ch'.events = e.events
      BY <3>4, <3>5 DEF Keeps, Fields
    <3>7. Keeps(ch, ch', F)
      BY <3>3, <3>6 DEF Keeps
    <3> HIDE DEF F
    <3> QED
      BY <1>0, <3>1, <3>2, <3>3, <3>5, <3>6, <3>7
  <2> QED
    BY <2>1, <2>2, <2>3
<1>4. /\ ch'.changed = ch.changed /\ ch'.hist = ch.hist
      /\ ch'.idx = ch.idx /\ ch'.iw = ch.iw /\ ch'.pend = ch.pend
  BY <1>2 DEF Keeps, Fields
<1>5. Chan(ch') /\ Keeps(ch, ch', PublisherFields)
  BY <1>1, <1>2 DEF Chan, Keeps, Fields, PublisherFields
<1> HIDE DEF F
<1>3. Known(ch'.idx, ch'.iw, ch'.pend, ch'.conn, ch'.connected, ch'.frames,
            ch'.acked)
  BY <1>1, <1>2, <1>4, <1>5, KnownMore
<1> QED
  BY <1>2, <1>3, <1>4, <1>5, PublisherSafe

\* The past is edited.
LEMMA HistoryChangedSafe ==
    ASSUME NEW lv \in Int, NEW fresh \in BOOLEAN, Safe(lv, fresh),
           HistoryChanged
    PROVE  IInv'
<1>1. /\ Chan(ch)
      /\ Known(ch.idx, ch.iw, ch.pend, ch.conn, ch.connected, ch.frames,
               ch.acked)
      /\ Scalars(ch, ch.next, lv, {})
  BY SafeStands DEF Standing, Good
<1>2. ch.next # 0
  <2>1. PICK k \in ch.tl : TRUE
    BY DEF HistoryChanged
  <2> QED
    BY <1>1, <2>1 DEF Scalars, Chan
<1>3. /\ Keeps(ch, ch', {"events", "changed", "hist"}) /\ store' = store
      /\ ch'.changed = ch.next /\ ch'.events \in Nat /\ ch'.hist \in Nat
  <2>1. /\ ch' = [ch EXCEPT !.events = @ + 1, !.changed = ch.next,
                            !.hist = @ + 1]
        /\ store' = store
    BY DEF HistoryChanged, Event
  <2>2. DOMAIN ch = Fields /\ ch.events \in Nat /\ ch.hist \in Nat
    BY <1>1, ChanCounts
  <2>3. /\ Keeps(ch, ch', {"events", "changed", "hist"})
        /\ ch'.changed = ch.next /\ ch'.events = ch.events + 1
        /\ ch'.hist = ch.hist + 1
    BY <2>1, <2>2 DEF Keeps, Fields
  <2> QED
    BY <2>1, <2>2, <2>3
<1>4. /\ ch'.idx = ch.idx /\ ch'.iw = ch.iw
      /\ ch'.pend = ch.pend /\ ch'.conn = ch.conn
      /\ ch'.connected = ch.connected /\ ch'.frames = ch.frames
      /\ ch'.acked = ch.acked
  BY <1>3 DEF Keeps, Fields
<1>5. Chan(ch') /\ Keeps(ch, ch', PublisherFields)
  BY <1>1, <1>3 DEF Chan, Keeps, Fields, PublisherFields
<1> QED
  BY <1>1, <1>2, <1>3, <1>4, <1>5, PublisherSafe

\* Frames are dropped.
LEMMA DisposeFramesSafe ==
    ASSUME NEW lv \in Int, NEW fresh \in BOOLEAN, Safe(lv, fresh),
           DisposeFrames
    PROVE  IInv'
<1> DEFINE e == [Event(ch) EXCEPT !.frames = @ + 1]
           d == AckFramesIdle(e)
           i == Image(store, fresh)
           n == ch.next
           g == store.media
           F == {"acked"}
<1>1. ch' = d /\ store' = store
  BY DEF DisposeFrames
<1>2. /\ Standing(ch, lv, g, i) /\ Chan(ch) /\ n \in Keys
      /\ store \in StoreType
      /\ Known(ch.idx, ch.iw, ch.pend, ch.conn, ch.connected, ch.frames,
               ch.acked)
      /\ History(ch.iw, ch.changed, ch.hist, ch.health, i)
  BY SafeStands
<1>3. /\ Keeps(ch, e, PublisherFields) /\ Chan(e)
      /\ e.changed = ch.changed /\ e.hist = ch.hist /\ e.health = ch.health
      /\ e.idx = ch.idx /\ e.iw = ch.iw /\ e.pend = ch.pend
      /\ e.conn = ch.conn /\ e.connected = ch.connected
      /\ ch.frames <= e.frames /\ e.acked = ch.acked
  <2>1. e = [ch EXCEPT !.events = @ + 1, !.frames = @ + 1]
    BY <1>2 DEF Event, Chan, Fields
  <2> HIDE DEF e
  <2>4. DOMAIN ch = Fields /\ ch.events \in Nat /\ ch.frames \in Nat
    BY <1>2, ChanCounts
  <2>5. /\ Keeps(ch, e, {"events", "frames"}) /\ e.events = ch.events + 1
        /\ e.frames = ch.frames + 1
    BY <2>1, <2>4 DEF Keeps, Fields
  <2>2. /\ Keeps(ch, e, {"events", "frames"}) /\ e.events \in Nat
        /\ e.frames \in Nat /\ ch.frames <= e.frames
    BY <2>4, <2>5
  <2>3. Chan(e) /\ Keeps(ch, e, PublisherFields)
    BY <1>2, <2>2 DEF Chan, Keeps, Fields, PublisherFields
  <2> QED
    BY <2>2, <2>3 DEF Keeps, Fields
<1> HIDE DEF e, i, g
<1>4. Known(e.idx, e.iw, e.pend, e.conn, e.connected, e.frames, e.acked)
  BY <1>2, <1>3, KnownMore
<1>5. StandingAt(e, n, lv, g, i, ch.success)
  BY <1>2, <1>3, <1>4, KnownStanding
<1>6. Leads(e, d, F, e.next, lv, BucketOf(e.next), g, {}, i)
  BY <1>5, AckFramesIdleGood DEF StandingAt, Standing
<1>7. F \cap {"next", "lastReady", "lastBucket", "success"} = {}
  OBVIOUS
<1> HIDE DEF d, F, n
<1>8. StandingAt(d, e.next, lv, g, i, e.success)
  BY <1>5, <1>6, <1>7, StepStands DEF StandingAt
<1>9. StandingAt(ch', n, lv, g, i, ch.success)
  BY <1>1, <1>5, <1>8 DEF StandingAt
<1>10. SameFiles(store, store') /\ store'.media = g /\ store' \in StoreType
  BY <1>1, <1>2 DEF SameFiles, g
<1> QED
  BY <1>2, <1>9, <1>10, SafeKept DEF i

-----------------------------------------------------------------------------
(* The segments *)

\* A frame more, in a step in which F may fail.
LEMMA FramedStanding ==
    ASSUME NEW c, NEW b \in {c, Event(c)}, NEW F, NEW lv, NEW med, NEW i,
           Standing(c, lv, med, i)
    PROVE  LET d == Failing([b EXCEPT !.frames = @ + 1], F) IN
           /\ StandingAt(d, c.next, lv, med, i, c.success) /\ d.tl = c.tl
<1> DEFINE e == [b EXCEPT !.frames = @ + 1]
           d == Failing(e, F)
<1>1. /\ Chan(c) /\ DOMAIN c = Fields /\ c.events \in Nat /\ c.frames \in Nat
      /\ Known(c.idx, c.iw, c.pend, c.conn, c.connected, c.frames, c.acked)
      /\ History(c.iw, c.changed, c.hist, c.health, i)
  BY ChanCounts DEF Standing, Good
<1>2. /\ Keeps(c, b, {"events"}) /\ DOMAIN b = Fields /\ b.events \in Nat
      /\ b.frames = c.frames
  <2>1. CASE b = c
    BY <1>1, <2>1 DEF Keeps, Fields
  <2>2. CASE b = Event(c)
    <3>1. Keeps(c, b, {"events"}) /\ b.events = c.events + 1
      BY <1>1, <2>2 DEF Event, Keeps, Fields
    <3> QED
      BY <1>1, <3>1 DEF Keeps, Fields
  <2> QED
    BY <2>1, <2>2
<1>3. Keeps(b, e, {"frames"}) /\ e.frames = b.frames + 1
  BY <1>2 DEF Keeps, Fields
<1> HIDE DEF e
<1>4. /\ e.frames \in Nat /\ c.frames <= e.frames
      /\ e.events \in Nat /\ Keeps(c, e, {"events", "frames"})
  <2>1. e.events = b.events
    BY <1>3 DEF Keeps, Fields
  <2>2. Keeps(c, e, {"events", "frames"})
    BY <1>2, <1>3 DEF Keeps
  <2> QED
    BY <1>1, <1>2, <1>3, <2>1, <2>2
<1>5. Chan(e) /\ Keeps(c, e, PublisherFields)
  BY <1>1, <1>4 DEF Chan, Keeps, Fields, PublisherFields
<1>6. /\ e.idx = c.idx /\ e.iw = c.iw /\ e.pend = c.pend
      /\ e.conn = c.conn /\ e.connected = c.connected /\ e.acked = c.acked
      /\ e.changed = c.changed /\ e.hist = c.hist /\ e.health = c.health
      /\ e.tl = c.tl
  BY <1>4 DEF Keeps, Fields
<1>7. Known(e.idx, e.iw, e.pend, e.conn, e.connected, e.frames, e.acked)
  BY <1>1, <1>4, <1>5, <1>6, KnownMore
<1>8. StandingAt(e, c.next, lv, med, i, c.success)
  BY <1>1, <1>5, <1>6, <1>7, KnownStanding
<1>9. StandingAt(d, e.next, lv, med, i, e.success)
  BY <1>8, FailingStanding DEF StandingAt
<1>10. d.tl = e.tl
  <2>1. Keeps(e, d, {"events", "fail"})
    BY <1>5, FailingDoes
  <2> QED
    BY <2>1 DEF Keeps, Fields
<1> HIDE DEF d
<1>11. StandingAt(d, c.next, lv, med, i, c.success) /\ d.tl = c.tl
  BY <1>6, <1>8, <1>9, <1>10 DEF StandingAt
<1> QED
  BY <1>11 DEF d, e

\* A segment is created.
LEMMA CreateSafe ==
    ASSUME NEW lv \in Int, NEW fresh \in BOOLEAN, Safe(lv, fresh),
           NEW exists \in BOOLEAN, NEW j, NEW F, CreateSegment(exists, j, F)
    PROVE  IInv'
<1> DEFINE i == Image(store, fresh)
           g == store.media
           n == ch.next
           m == n + 1
           b == IF exists THEN ch ELSE Event(ch)
           c == Failing([b EXCEPT !.frames = @ + 1], F)
           S == IF exists THEN Newest(ch.tl \cup {ch.next}, Window)
                ELSE ch.tl \ Oldest(ch.tl, j)
<1>1. /\ Standing(ch, lv, g, i) /\ n \in Nat /\ n < MaxSegments
      /\ store \in StoreType /\ g \subseteq Nat
  BY SafeStands, KeysAre DEF CreateSegment
<1>2. GetsSegment(c, ch', S, exists) /\ store' = store
  BY DEF CreateSegment, GetsSegment
<1>3. b \in {ch, Event(ch)}
  OBVIOUS
<1>4. S \subseteq ch.tl \cup {n}
  BY DEF Newest
<1>5. m = n + 1 /\ m \in Keys
  <2>1. m \in Nat /\ m <= MaxSegments
    BY <1>1, SegmentPersistAssumption
  <2>2. m <= RoundUp(MaxSegments)
    BY <2>1, KeysAre, SegmentPersistAssumption
  <2> QED
    BY <2>1, <2>2, KeysAre
<1> HIDE DEF b, i, g, S
<1>6. StandingAt(c, n, lv, g, i, ch.success) /\ c.tl = ch.tl
  BY <1>1, <1>3, FramedStanding
<1> HIDE DEF c, n, m
<1>7. /\ Standing(c, lv, g, i) /\ c.next = n /\ c.success = ch.success
      /\ S \subseteq c.tl \cup {n}
  BY <1>4, <1>6 DEF StandingAt
<1>8. StandingAt(ch', m, lv, g, i, c.success)
  BY <1>1, <1>2, <1>5, <1>7, CreateGood
<1>9. SameFiles(store, store') /\ store'.media = g /\ store' \in StoreType
  BY <1>1, <1>2 DEF SameFiles, g
<1> QED
  BY <1>5, <1>7, <1>8, <1>9, SafeKept DEF i

\* The channel becomes inactive.
LEMMA InactiveSafe ==
    ASSUME NEW lv \in Int, NEW fresh \in BOOLEAN, Safe(lv, fresh),
           NEW F, ChannelInactive(F)
    PROVE  IInv'
<1> DEFINE i == Image(store, fresh)
           g == store.media
           n == ch.next
           m == RoundUp(n)
           c == Failing(ch, F)
<1>1. /\ Standing(ch, lv, g, i) /\ n \in Nat /\ n <= RoundUp(MaxSegments)
      /\ store \in StoreType /\ g \subseteq Nat
  BY SafeStands, KeysAre
<1>2. Left(c, ch') /\ store' = store
  BY DEF ChannelInactive, Left
<1>3. m \in Keys
  <2>1. m \in Nat /\ m <= RoundUp(MaxSegments)
    BY <1>1, RoundUpLeast, RoundUpBounds, SegmentPersistAssumption
  <2> QED
    BY <2>1, KeysAre
<1> HIDE DEF i, g
<1>4. StandingAt(c, n, lv, g, i, ch.success)
  BY <1>1, FailingStanding
<1> HIDE DEF c
<1>5. Standing(c, lv, g, i) /\ c.next = n /\ c.success = ch.success
  BY <1>4 DEF StandingAt
<1>6. StandingAt(ch', RoundUp(c.next), lv, g, i, c.success)
  BY <1>1, <1>2, <1>5, InactiveStanding
<1>7. StandingAt(ch', m, lv, g, i, ch.success)
  BY <1>5, <1>6
<1> HIDE DEF m
<1>8. SameFiles(store, store') /\ store'.media = g /\ store' \in StoreType
  BY <1>1, <1>2 DEF SameFiles, g
<1> QED
  BY <1>3, <1>7, <1>8, SafeKept DEF i

\* A step that ends where it started, and writes no file.
LEMMA DoneSafe ==
    ASSUME NEW lv \in Int, NEW fresh \in BOOLEAN, Safe(lv, fresh),
           NEW c, StandingAt(c, ch.next, lv, store.media,
                             Image(store, fresh), ch.success),
           NEW mev, SameFiles(store, store'), store' \in StoreType,
           store'.media = mev,
           StandingAt(ch', c.next, lv, mev, Image(store, fresh), c.success)
    PROVE  IInv'
<1>1. ch.next \in Keys /\ c.next = ch.next /\ c.success = ch.success
  BY SafeStands DEF StandingAt
<1> QED
  BY <1>1, SafeKept

\* The timeline of a channel that is inactive loses segments.
LEMMA CleanupSafe ==
    ASSUME NEW lv \in Int, NEW fresh \in BOOLEAN, Safe(lv, fresh),
           NEW j, TimelinesCleanup(j)
    PROVE  IInv'
<1> DEFINE i == Image(store, fresh)
           g == store.media
           none == {}
           e == Event(ch)
           c == Failing(e, none)
           S == ch.tl \ Oldest(ch.tl, j)
<1>1. Standing(ch, lv, g, i) /\ store \in StoreType /\ Chan(ch)
  BY SafeStands
<1>2. ch' = Done(TimelineKeeps(c, S)) /\ store' = store
  BY DEF TimelinesCleanup, Failing
<1>3. S \subseteq ch.tl /\ e \in {ch, Event(ch)}
  OBVIOUS
<1> HIDE DEF i, g, e, none, S
<1>4. StandingAt(c, ch.next, lv, g, i, ch.success)
  BY <1>1, <1>3, FailingStanding
<1>5. Keeps(ch, c, {"events", "fail"})
  BY <1>1, <1>3, FailingDoes
<1> HIDE DEF c
<1>6. S \subseteq c.tl
  BY <1>3, <1>5 DEF Keeps, Fields
<1>7. StandingAt(Done(TimelineKeeps(c, S)), c.next, lv, g, i, c.success)
  BY <1>4, <1>6, TimelineStanding DEF StandingAt
<1>8. StandingAt(ch', c.next, lv, g, i, c.success)
  BY <1>2, <1>7
<1>9. SameFiles(store, store') /\ store'.media = g /\ store' \in StoreType
  BY <1>1, <1>2 DEF SameFiles, g
<1> QED
  BY <1>4, <1>8, <1>9, DoneSafe DEF i, g

\* Memory is low.
LEMMA WatermarkSafe ==
    ASSUME NEW lv \in Int, NEW fresh \in BOOLEAN, Safe(lv, fresh),
           NEW n, NEW F, Watermark(n, F)
    PROVE  IInv'
<1> DEFINE i == Image(store, fresh)
           g == store.media
           e == Event(ch)
           c == Failing(e, F)
           K == Oldest(DOMAIN ch.idx, n)
           d == Done(Truncated(InOrder(WatermarkOne, c, K, c.next)))
<1>1. Standing(ch, lv, g, i) /\ store \in StoreType /\ Chan(ch)
  BY SafeStands
<1>2. /\ ch' = Done(Truncated(InOrder(WatermarkOne, c, K, ch.next)))
      /\ store' = store
  BY DEF Watermark
<1>3. K \subseteq DOMAIN ch.idx /\ e \in {ch, Event(ch)}
  BY DEF Oldest
<1>4. StandingAt(c, ch.next, lv, g, i, ch.success)
  BY <1>1, <1>3, FailingStanding
<1>5. Keeps(ch, c, {"events", "fail"})
  BY <1>1, <1>3, FailingDoes
<1> HIDE DEF i, g, e, K, c
<1>6. K \subseteq DOMAIN c.idx /\ c.next = ch.next
  BY <1>3, <1>5 DEF Keeps, Fields
<1>7. StandingAt(d, c.next, lv, g, i, c.success)
  BY <1>4, <1>6, LowStanding DEF StandingAt
<1>8. ch' = d
  BY <1>2, <1>6
<1> HIDE DEF d
<1>9. StandingAt(ch', c.next, lv, g, i, c.success)
  BY <1>7, <1>8
<1>10. SameFiles(store, store') /\ store'.media = g /\ store' \in StoreType
  BY <1>1, <1>2 DEF SameFiles, g
<1> QED
  BY <1>4, <1>9, <1>10, DoneSafe DEF i, g

\* The write of a bucket is answered.
LEMMA MediaSafe ==
    ASSUME NEW lv \in Int, NEW fresh \in BOOLEAN, Safe(lv, fresh),
           NEW w, NEW ok \in BOOLEAN, NEW F, MediaDone(w, ok, F)
    PROVE  IInv'
<1> DEFINE i == Image(store, fresh)
           g == store.media
           mev == IF ok THEN g \cup w.segs ELSE g
           b == IF ok THEN ch ELSE Event(ch)
           c == Failing(b, F)
           e == [c EXCEPT !.media = @ \ {w}]
<1>1. /\ Standing(ch, lv, g, i) /\ store \in StoreType /\ Chan(ch)
      /\ w \in ch.media /\ g \subseteq Nat
  BY SafeStands DEF MediaDone
<1>2. /\ ch' = Done(Persisted(e, w.bucket, ok))
      /\ store' = IF ok THEN [store EXCEPT !.media =
                        {k \in @ : BucketOf(k) # w.bucket} \cup w.segs]
                  ELSE store
  BY DEF MediaDone
<1>3. b \in {ch, Event(ch)}
  OBVIOUS
<1>4. /\ w.segs \subseteq Nat
      /\ \A k \in g : BucketOf(k) # w.bucket
  <2>1. Flight(ch.idx, ch.media, BucketOf(ch.next), g)
    BY <1>1 DEF Standing, Good
  <2> QED
    BY <1>1, <2>1 DEF Flight, FlightOK, Chan, MediaType
<1>5. SameFiles(store, store') /\ store'.media = mev /\ store' \in StoreType
  BY <1>1, <1>2, <1>4 DEF SameFiles, StoreType
<1> HIDE DEF i, g, b
<1>6. StandingAt(c, ch.next, lv, g, i, ch.success)
  BY <1>1, <1>3, FailingStanding
<1>7. Keeps(ch, c, {"events", "fail"})
  BY <1>1, <1>3, FailingDoes
<1> HIDE DEF c
<1>8. DOMAIN c = Fields /\ w \in c.media
  BY <1>1, <1>7 DEF Keeps, Fields
<1>9. Keeps(c, e, {"media"}) /\ e.media = c.media \ {w}
  BY <1>8 DEF Keeps, Fields
<1> HIDE DEF e
<1>10. WriteEnds(c, e, w, ok, g, mev)
  BY <1>8, <1>9 DEF WriteEnds
<1> HIDE DEF mev
<1>11. StandingAt(Done(Persisted(e, w.bucket, ok)), c.next, lv, mev, i,
                  c.success)
  BY <1>6, <1>10, MediaStanding DEF StandingAt
<1>12. StandingAt(ch', c.next, lv, mev, i, c.success)
  BY <1>2, <1>11
<1> QED
  BY <1>5, <1>6, <1>12, DoneSafe DEF i, g

-----------------------------------------------------------------------------
(* The files *)

\* f is the file w as it is in storage.
Alike(f, w) ==
    /\ f \in FileType /\ f.file = w.file /\ f.min = w.min /\ f.max = w.max
    /\ f.tl = w.tl /\ f.trunc = w.trunc /\ f.hist = w.hist

IndexPut(st, w, there) ==
    IF there THEN Put(st, [w EXCEPT !.frames = NoFrames]) ELSE st

\* new is st with the file w, if it is there
FilePut(st, new, w, there) ==
    /\ new \in StoreType /\ new.media = st.media
    /\ ~there => SameFiles(st, new)
    /\ there /\ w.file = "index" =>
        new.delta = st.delta /\ new.index # None /\ Alike(new.index[1], w)
    /\ there /\ w.file = "delta" =>
        new.index = st.index /\ new.delta # None /\ Alike(new.delta[1], w)

\* What is written takes the place of what was there.
LEMMA FilePutDoes ==
    ASSUME NEW st \in StoreType, NEW w \in FileType, NEW there \in BOOLEAN
    PROVE  FilePut(st, IndexPut(st, w, there), w, there)
<1> DEFINE f == [w EXCEPT !.frames = NoFrames]
           new == IndexPut(st, w, there)
<1>1. Alike(f, w)
  BY DEF Alike, FileType, FrameType, NoFrames
<1>2. f \in FileType
  BY <1>1 DEF Alike
<1>3. Some(f) \in Opt(FileType) /\ Some(f) # None /\ Some(f)[1] = f
  BY <1>2, OptSome
<1>4. new = IF ~there THEN st
            ELSE IF w.file = "index" THEN [st EXCEPT !.index = Some(f)]
            ELSE [st EXCEPT !.delta = Some(f)]
  BY <1>1 DEF IndexPut, Put, Alike
<1> SUFFICES FilePut(st, new, w, there)
  OBVIOUS
<1> HIDE DEF f, new
<1>5. CASE ~there
  BY <1>4, <1>5 DEF FilePut, SameFiles
<1>6. CASE there /\ w.file = "index"
  <2>1. new = [st EXCEPT !.index = Some(f)]
    BY <1>4, <1>6
  <2>2. new \in StoreType /\ new.media = st.media /\ new.delta = st.delta
        /\ new.index = Some(f)
    BY <1>3, <2>1 DEF StoreType
  <2> QED
    BY <1>1, <1>3, <1>6, <2>2 DEF FilePut
<1>7. CASE there /\ w.file # "index"
  <2>1. new = [st EXCEPT !.delta = Some(f)]
    BY <1>4, <1>7
  <2>2. new \in StoreType /\ new.media = st.media /\ new.index = st.index
        /\ new.delta = Some(f)
    BY <1>3, <2>1 DEF StoreType
  <2> QED
    BY <1>1, <1>3, <1>7, <2>2 DEF FilePut
<1> QED
  BY <1>5, <1>6, <1>7

\* The file w that is written is beyond what is read.
WriteFits(w, lv, success) ==
    /\ w \in FileType /\ lv < w.max /\ FileOK(w)
    /\ w.file = "delta" => w.min = success + 1
    /\ success \in Nat /\ (success = 0 \/ success <= lv)

\* The numbers of the files
LEMMA StoreNumbers ==
    ASSUME NEW st \in StoreType
    PROVE  /\ st.index # None =>
                /\ st.index[1] \in FileType /\ st.index[1].max \in Nat
                /\ st.index[1].min \in Nat /\ st.index[1].trunc \in Nat
                /\ st.index[1].tl \subseteq Nat
           /\ st.delta # None =>
                /\ st.delta[1] \in FileType /\ st.delta[1].max \in Nat
                /\ st.delta[1].min \in Nat /\ st.delta[1].trunc \in Nat
                /\ st.delta[1].tl \subseteq Nat
BY FileHas DEF StoreType

\* The files stay well formed.
LEMMA FilePutOK ==
    ASSUME NEW st, StoreOK(st), NEW new, NEW w, NEW lv, NEW success,
           WriteFits(w, lv, success), NEW there \in BOOLEAN,
           FilePut(st, new, w, there)
    PROVE  StoreOK(new)
<1>1. w \in FileType /\ w.file \in {"index", "delta"} /\ FileOK(w)
      /\ w.min \in Nat /\ (w.file = "delta" => 1 <= w.min)
  BY DEF WriteFits, FileType
<1>2. \A f : Alike(f, w) => FileOK(f) /\ f.min = w.min
  BY <1>1 DEF Alike, FileOK
<1>3. CASE ~there
  BY <1>3 DEF FilePut, StoreOK, SameFiles
<1>4. CASE there /\ w.file = "index"
  BY <1>2, <1>4 DEF FilePut, StoreOK
<1>5. CASE there /\ w.file = "delta"
  BY <1>1, <1>2, <1>5 DEF FilePut, StoreOK
<1> QED
  BY <1>1, <1>3, <1>4, <1>5

\* How far storage is read, and how far the last full index that is known
\* goes, when the write of w was answered.
FileEnds(w, lv, success, there, l, sn) ==
    /\ l = IF there THEN w.max ELSE lv
    /\ sn = success \/ (there /\ w.file = "index" /\ sn = w.max)

\* What is read back comes from what was read before and what was written.
LEMMA FilePutReadable ==
    ASSUME NEW st, StoreOK(st), NEW new, NEW w, NEW lv \in Int, NEW success,
           WriteFits(w, lv, success), NEW there \in BOOLEAN,
           FilePut(st, new, w, there), Readable(st, lv, success),
           NEW l, NEW sn, FileEnds(w, lv, success, there, l, sn)
    PROVE  Readable(new, l, sn) /\ ReadFrom(new) \subseteq ReadFrom(st) \cup w.tl
<1>1. /\ w.max \in Nat /\ w.min \in Nat /\ w.file \in {"index", "delta"}
      /\ success \in Nat /\ lv < w.max /\ w.min <= w.max + 1
      /\ w.tl \subseteq Nat /\ (success = 0 \/ success <= lv)
  BY DEF WriteFits, FileType, FileOK
<1>2. /\ st.index # None => st.index[1].max \in Nat
      /\ st.delta # None => /\ st.delta[1].max \in Nat
                            /\ st.delta[1].min \in Nat
                            /\ st.delta[1].min <= st.delta[1].max + 1
  BY StoreNumbers DEF StoreOK, FileOK
<1>3. CASE ~there
  <2>1. l = lv /\ sn = success /\ SameFiles(st, new)
    BY <1>3 DEF FileEnds, FilePut
  <2> QED
    BY <2>1 DEF SameFiles, Readable, Alive, ReadFrom, DeltaCounts
<1>4. CASE there /\ w.file = "index"
  <2>1. /\ new.delta = st.delta /\ new.index # None
        /\ new.index[1].max = w.max /\ new.index[1].tl = w.tl
        /\ l = w.max /\ sn \in {success, w.max}
    BY <1>4 DEF FileEnds, FilePut, Alike
  <2>2. sn <= w.max /\ success <= sn /\ sn \in Nat
    BY <1>1, <2>1
  <2>3. st.delta # None => ~(w.max < st.delta[1].min)
    <3>1. CASE Alive(st)
      <4>1. st.delta[1].max <= lv
        BY <3>1 DEF Readable
      <4> QED
        BY <1>1, <1>2, <4>1
    <3>2. CASE ~Alive(st)
      <4>1. st.delta # None =>
                st.index # None /\ ~(st.index[1].max < st.delta[1].min)
        BY <3>2 DEF Alive
      <4>2. st.index # None => st.index[1].max <= lv
        BY DEF Readable
      <4> QED
        BY <1>1, <1>2, <4>1, <4>2
    <3> QED
      BY <3>1, <3>2
  <2>4. ~Alive(new)
    BY <2>1, <2>3 DEF Alive
  <2>5. ~DeltaCounts(new)
    BY <1>1, <1>2, <2>1, <2>3 DEF DeltaCounts
  <2>6. st.delta # None => st.delta[1].min <= sn + 1
    <3>1. st.delta # None => st.delta[1].min <= success + 1
      BY DEF Readable
    <3> QED
      BY <1>1, <1>2, <2>2, <3>1
  <2>7. Readable(new, l, sn)
    BY <1>1, <2>1, <2>2, <2>4, <2>6 DEF Readable
  <2>8. ReadFrom(new) = w.tl
    BY <2>1, <2>5 DEF ReadFrom
  <2> QED
    BY <2>7, <2>8
<1>5. CASE there /\ w.file = "delta"
  <2>1. /\ new.index = st.index /\ new.delta # None
        /\ new.delta[1].max = w.max /\ new.delta[1].tl = w.tl
        /\ new.delta[1].min = w.min
        /\ l = w.max /\ sn = success /\ w.min = success + 1
    BY <1>5 DEF FileEnds, FilePut, Alike, WriteFits
  <2>2. Readable(new, l, sn)
    BY <1>1, <1>2, <2>1 DEF Readable
  <2>3. ReadFrom(new) \subseteq ReadFrom(st) \cup w.tl
    BY <2>1 DEF ReadFrom
  <2> QED
    BY <2>2, <2>3
<1> QED
  BY <1>1, <1>3, <1>4, <1>5

\* What a restart reads of well formed files.
LEMMA RecoveredIs ==
    ASSUME NEW st, StoreOK(st)
    PROVE  LET r == Recovered(st) IN
           /\ r.max \in Int /\ -1 <= r.max /\ r.max + 1 \in Nat
           /\ r.max < RoundUp(MaxSegments)
           /\ r.success \in Nat /\ r.next \in Nat /\ r.trunc \in Nat
           /\ r.hist \in Nat /\ r.trunc <= r.max + 1
           /\ r.success = 0 \/ r.success <= r.max
           /\ r.tl \subseteq ReadFrom(st) /\ r.tl \subseteq Nat
           /\ \A k \in r.tl : k <= r.max
           /\ st.index = None => r.max = -1 /\ r.success = 0
           /\ st.index # None =>
                /\ r.success = st.index[1].max /\ r.hist = st.index[1].hist
                /\ st.index[1].max <= r.max
                /\ DeltaCounts(st) => r.max = st.delta[1].max
                /\ ~DeltaCounts(st) => r.max = st.index[1].max
<1> DEFINE r == Recovered(st)
           i == st.index[1]
           e == st.delta[1]
           d == IF DeltaCounts(st) THEN e ELSE i
<1>1. RoundUp(MaxSegments) \in Nat
  BY KeysAre
<1>2. CASE st.index = None
  <2>1. r = [max |-> -1, success |-> 0, next |-> 0, tl |-> {}, trunc |-> 0,
             hist |-> 0]
    BY <1>2 DEF Recovered
  <2> HIDE DEF r
  <2> QED
    BY <1>1, <1>2, <2>1 DEF r
<1>3. CASE st.index # None
  <2>1. r = [max |-> d.max, success |-> i.max, next |-> d.next,
             tl |-> {k \in i.tl : d.trunc = 0 \/ k > d.trunc} \cup d.tl,
             trunc |-> d.trunc, hist |-> i.hist]
    BY <1>3 DEF Recovered
  <2>2. /\ i \in FileType /\ i.max \in Nat /\ i.next \in Nat
        /\ i.trunc \in Nat /\ i.hist \in Nat /\ i.tl \subseteq Nat
        /\ FileOK(i)
    BY <1>3, FileHas DEF StoreOK, StoreType
  <2>3. DeltaCounts(st) => /\ e \in FileType /\ e.max \in Nat
        /\ e.next \in Nat /\ e.trunc \in Nat /\ e.tl \subseteq Nat
        /\ FileOK(e) /\ e.min \in Nat /\ e.min = i.max + 1
    BY FileHas DEF StoreOK, StoreType, DeltaCounts
  <2>4. ReadFrom(st) = i.tl \cup (IF DeltaCounts(st) THEN e.tl ELSE {})
    BY <1>3 DEF ReadFrom
  <2> HIDE DEF i, e
  <2>5. CASE DeltaCounts(st)
    <3>1. d = e
      BY <2>5
    <3> HIDE DEF d, r
    <3>2. i.max <= e.max
      BY <2>2, <2>3, <2>5 DEF FileOK
    <3>3. /\ r.max = e.max /\ r.success = i.max /\ r.next = e.next
          /\ r.trunc = e.trunc /\ r.hist = i.hist
          /\ r.tl = {k \in i.tl : e.trunc = 0 \/ k > e.trunc} \cup e.tl
      BY <2>1, <3>1
    <3>4. \A k \in r.tl : k \in Nat /\ k <= r.max
      BY <2>2, <2>3, <2>5, <3>2, <3>3 DEF FileOK
    <3>5. r.tl \subseteq ReadFrom(st) /\ r.tl \subseteq Nat
      BY <2>4, <2>5, <3>3, <3>4
    <3>6. r.max < RoundUp(MaxSegments) /\ r.trunc <= r.max
      BY <2>3, <2>5, <3>3 DEF FileOK
    <3> QED
      BY <1>1, <1>3, <2>2, <2>3, <2>5, <3>2, <3>3, <3>4, <3>5, <3>6
         DEF r, i, e
  <2>6. CASE ~DeltaCounts(st)
    <3>1. d = i
      BY <2>6
    <3> HIDE DEF d, r
    <3>3. /\ r.max = i.max /\ r.success = i.max /\ r.next = i.next
          /\ r.trunc = i.trunc /\ r.hist = i.hist
          /\ r.tl = {k \in i.tl : i.trunc = 0 \/ k > i.trunc} \cup i.tl
      BY <2>1, <3>1
    <3>4. \A k \in r.tl : k \in Nat /\ k <= r.max
      BY <2>2, <3>3 DEF FileOK
    <3>5. r.tl \subseteq ReadFrom(st) /\ r.tl \subseteq Nat
      BY <2>4, <2>6, <3>3, <3>4
    <3>6. r.max < RoundUp(MaxSegments) /\ r.trunc <= r.max
      BY <2>2, <3>3 DEF FileOK
    <3> QED
      BY <1>1, <1>3, <2>2, <2>6, <3>3, <3>4, <3>5, <3>6 DEF r, i, e
  <2> QED
    BY <2>5, <2>6
<1> QED
  BY <1>2, <1>3

\* A file that is written does not make storage be read less far.
LEMMA FilePutForward ==
    ASSUME NEW st, StoreOK(st), NEW new, StoreOK(new), NEW w, NEW lv \in Int,
           NEW success, WriteFits(w, lv, success), NEW there \in BOOLEAN,
           FilePut(st, new, w, there), Readable(st, lv, success)
    PROVE  Recovered(st).max <= Recovered(new).max
<1> DEFINE r == Recovered(st)
           q == Recovered(new)
<1>1. /\ r.max \in Int /\ -1 <= r.max
      /\ st.index = None => r.max = -1
      /\ st.index # None =>
            /\ st.index[1].max <= r.max
            /\ DeltaCounts(st) => r.max = st.delta[1].max
            /\ ~DeltaCounts(st) => r.max = st.index[1].max
  BY RecoveredIs
<1>2. /\ q.max \in Int /\ -1 <= q.max
      /\ new.index # None =>
            /\ new.index[1].max <= q.max
            /\ DeltaCounts(new) => q.max = new.delta[1].max
  BY RecoveredIs
<1>3. /\ w.max \in Nat /\ w.min \in Nat /\ w.file \in {"index", "delta"}
      /\ success \in Nat /\ lv < w.max
      /\ w.file = "delta" => w.min = success + 1
  BY DEF WriteFits, FileType
<1>4. /\ st.index # None => st.index[1].max \in Nat
      /\ st.delta # None => /\ st.delta[1].max \in Nat
                            /\ st.delta[1].min \in Nat
  BY StoreNumbers DEF StoreOK
<1>5. CASE ~there
  <2>1. r = q
    BY <1>5 DEF FilePut, SameFiles, Recovered, DeltaCounts
  <2> QED
    BY <1>1, <2>1
<1> HIDE DEF r, q
<1>6. r.max <= lv \/ st.index = None
  <2>1. CASE st.index # None /\ DeltaCounts(st)
    <3>1. Alive(st)
      BY <1>4, <2>1 DEF Alive, DeltaCounts
    <3> QED
      BY <1>1, <2>1, <3>1 DEF Readable
  <2>2. CASE st.index # None /\ ~DeltaCounts(st)
    BY <1>1, <2>2 DEF Readable
  <2> QED
    BY <2>1, <2>2
<1>7. CASE there /\ w.file = "index"
  <2>1. new.index # None /\ new.index[1].max = w.max
    BY <1>7 DEF FilePut, Alike
  <2> QED
    BY <1>1, <1>2, <1>3, <1>6, <2>1 DEF r, q
<1>8. CASE there /\ w.file = "delta"
  <2>1. /\ new.index = st.index /\ new.delta # None
        /\ new.delta[1].max = w.max /\ new.delta[1].min = success + 1
    BY <1>3, <1>8 DEF FilePut, Alike
  <2>2. CASE st.index = None
    BY <1>1, <1>2, <2>2 DEF r, q
  <2>3. CASE st.index # None /\ ~DeltaCounts(st)
    BY <1>1, <1>2, <2>1, <2>3 DEF r, q
  <2>4. CASE st.index # None /\ DeltaCounts(st)
    <3>1. /\ st.delta[1].min = st.index[1].max + 1
          /\ st.delta[1].min <= success + 1 /\ success <= st.index[1].max
      BY <2>4 DEF DeltaCounts, Readable
    <3>2. st.index[1].max = success
      BY <1>3, <1>4, <2>4, <3>1
    <3>3. DeltaCounts(new)
      BY <2>1, <3>2 DEF DeltaCounts
    <3>4. q.max = w.max
      BY <1>2, <2>1, <2>4, <3>3
    <3> QED
      BY <1>1, <1>3, <1>6, <2>4, <3>4 DEF r, q
  <2> QED
    BY <2>2, <2>3, <2>4
<1> QED
  BY <1>3, <1>5, <1>7, <1>8

-----------------------------------------------------------------------------
(* The write of an index is answered *)

\* d is c after the write of w was answered, and before the snapshot that
\* waits is looked at.
Answered(c, d, w, ok) ==
    /\ Keeps(c, d, {"snapshots", "acked", "iw", "pend", "health", "success"})
    /\ d.snapshots = c.snapshots - 1 /\ d.iw = None /\ d.pend = None
    /\ d.acked = IF Acks(c, w.frames) THEN w.frames.id ELSE c.acked
    /\ d.health = IF ok THEN Written(c.health, w.file)
                  ELSE Failed(c.health, w.file)
    /\ d.success = IF ok /\ w.file = "index" THEN w.max ELSE c.success

\* What is read goes from i to j when w is there.
ReadsOn(i, j, w, there) ==
    /\ i.fresh => j.fresh /\ j.read \subseteq i.read \cup w.tl
    /\ there /\ w.file = "index" =>
            j.index # None /\ j.index[1].hist = w.hist
    /\ ~(there /\ w.file = "index") => j.index = i.index

\* What is history after a write.
LEMMA HealthEnds ==
    ASSUME NEW h \in Healths, NEW file \in {"index", "delta"},
           NEW ok \in BOOLEAN,
           NEW g, g = IF ok THEN Written(h, file) ELSE Failed(h, file)
    PROVE  /\ g \in Healths /\ (g # "stale" => h # "stale")
           /\ g \in {"ok", "delta", "new"} =>
                \/ ok /\ file = "index"
                \/ file = "delta" /\ h \in {"ok", "delta", "new"}
BY DEF Written, Failed, Healths

\* What an answer does.
LEMMA AnsweredDoes ==
    ASSUME NEW c, Chan(c), NEW w \in FileType, NEW ok \in BOOLEAN,
           NEW b, b.success = c.success
    PROVE  Answered(c, [FramesClose(c, w.frames, TRUE) EXCEPT
                            !.iw = None, !.pend = None,
                            !.health = IF ok THEN Written(@, w.file)
                                       ELSE Failed(@, w.file),
                            !.success = Success(b, w, ok)], w, ok)
<1> DEFINE f == w.frames
           a == FramesClose(c, f, TRUE)
           sn == Success(b, w, ok)
           d == [a EXCEPT !.iw = None, !.pend = None,
                          !.health = IF ok THEN Written(@, w.file)
                                     ELSE Failed(@, w.file),
                          !.success = sn]
<1> SUFFICES Answered(c, d, w, ok)
  OBVIOUS
<1>1. f \in FrameType
  BY DEF FileType
<1>2. Closed(c, a, f, TRUE)
  BY <1>1, FramesCloseDoes
<1>3. sn = IF ok /\ w.file = "index" THEN w.max ELSE c.success
  BY DEF Success
<1> HIDE DEF a, sn
<1>4. /\ DOMAIN a = Fields /\ a.health = c.health
      /\ Keeps(c, a, {"snapshots", "acked"})
      /\ a.snapshots = c.snapshots - 1
      /\ a.acked = IF Acks(c, f) THEN f.id ELSE c.acked
  BY <1>2 DEF Closed, Keeps, Fields
<1>5. /\ Keeps(a, d, {"iw", "pend", "health", "success"})
      /\ d.iw = None /\ d.pend = None /\ d.success = sn
      /\ d.health = IF ok THEN Written(a.health, w.file)
                    ELSE Failed(a.health, w.file)
      /\ d.snapshots = a.snapshots /\ d.acked = a.acked
  BY <1>4 DEF Keeps, Fields
<1> HIDE DEF d
<1>6. Keeps(c, d, {"snapshots", "acked", "iw", "pend", "health", "success"})
  BY <1>4, <1>5 DEF Keeps
<1> QED
  BY <1>3, <1>4, <1>5, <1>6 DEF Answered

\* An answer leaves the channel good, and the snapshot that waits can be
\* written.
LEMMA AnsweredGood ==
    ASSUME NEW c, NEW d, NEW w, NEW ok \in BOOLEAN, NEW there \in BOOLEAN,
           NEW n \in Nat, NEW lv \in Int, NEW l, NEW p, NEW med, NEW u,
           NEW i, NEW j, Good(c, n, lv, p, med, u, i), Counted(c, 0),
           c.iw # None, w = c.iw[1], ok => there, Answered(c, d, w, ok),
           l = IF there THEN w.max ELSE lv, ReadsOn(i, j, w, there)
    PROVE  /\ Good(d, n, l, p, med, u, j) /\ l \in Int
           /\ c.pend = None => Counted(d, 0)
           /\ c.pend # None => Counted(d, 1) /\ Writable(d, c.pend[1], n, l)
<1>1. /\ d.idx = c.idx /\ d.tl = c.tl /\ d.media = c.media
      /\ d.unsaved = c.unsaved /\ d.conn = c.conn
      /\ d.connected = c.connected /\ d.frames = c.frames
      /\ d.changed = c.changed /\ d.hist = c.hist
      /\ d.next = c.next /\ d.min = c.min /\ d.trunc = c.trunc
      /\ d.cut = c.cut /\ d.lastReady = c.lastReady
  BY DEF Answered, Keeps, Fields
<1>2. /\ d.snapshots = c.snapshots - 1 /\ d.iw = None /\ d.pend = None
      /\ d.success = IF ok /\ w.file = "index" THEN w.max ELSE c.success
      /\ d.health = IF ok THEN Written(c.health, w.file)
                    ELSE Failed(c.health, w.file)
      /\ \/ d.acked = c.acked
         \/ d.acked = w.frames.id /\ c.connected /\ w.frames.conn = c.conn
  BY DEF Answered, Acks
<1>3. /\ Chan(c) /\ Scalars(c, n, lv, u) /\ Order(c.idx, c.iw, c.pend, n, lv)
      /\ Stored(c.idx, c.tl, c.iw, c.unsaved, c.health, med, u, i)
      /\ Known(c.idx, c.iw, c.pend, c.conn, c.connected, c.frames, c.acked)
      /\ History(c.iw, c.changed, c.hist, c.health, i)
      /\ w \in FileType /\ w.max \in Nat /\ w.frames \in FrameType
      /\ w.file \in {"index", "delta"} /\ lv < w.max
      /\ WriteOK(c.idx, w, n, lv)
  <2>1. Chan(c) /\ Order(c.idx, c.iw, c.pend, n, lv)
    BY DEF Good
  <2>2. /\ w \in FileType /\ w.max \in Nat /\ w.frames \in FrameType
        /\ w.file \in {"index", "delta"}
    BY <2>1, FileHas DEF Chan
  <2>3. lv < w.max /\ WriteOK(c.idx, w, n, lv)
    BY <2>1 DEF Order, WriteOK
  <2> QED
    BY <2>1, <2>2, <2>3 DEF Good
<1>4. /\ d.health \in Healths /\ (d.health # "stale" => c.health # "stale")
      /\ d.health \in {"ok", "delta", "new"} =>
            \/ ok /\ w.file = "index"
            \/ w.file = "delta" /\ c.health \in {"ok", "delta", "new"}
  BY <1>2, <1>3, HealthEnds DEF Chan
<1>5. l \in Int /\ lv <= l /\ l <= w.max /\ l < n
  BY <1>3 DEF WriteOK
<1>6. /\ d.acked \in Nat /\ (d.connected => d.acked <= d.frames)
      /\ d.success \in Nat /\ d.snapshots \in Int
  <2>1. /\ c.acked \in Nat /\ c.success \in Nat /\ c.snapshots \in Int
        /\ w.frames.id \in Nat
    BY <1>3 DEF Chan, FrameType
  <2>2. /\ c.connected => c.acked <= c.frames
        /\ c.connected /\ w.frames.conn = c.conn => w.frames.id <= c.frames
    BY <1>3 DEF Known, FrameOK
  <2> QED
    BY <1>1, <1>2, <1>3, <2>1, <2>2
<1>7. Chan(d)
  <2>1. d.iw \in Opt(FileType) /\ d.pend \in Opt(SnapType)
    BY <1>2 DEF Opt
  <2>2. /\ DOMAIN d = Fields /\ d.events = c.events /\ d.pub = c.pub
        /\ d.lastBucket = c.lastBucket /\ d.excused = c.excused
        /\ d.early = c.early /\ d.noFree = c.noFree
    BY DEF Answered, Keeps, Fields
  <2> QED
    BY <1>1, <1>3, <1>4, <1>6, <2>1, <2>2 DEF Chan
<1>8. Scalars(d, n, l, u)
  <2>1. d.success = 0 \/ d.success <= l
    <3>1. CASE ok /\ w.file = "index"
      BY <1>2, <1>3, <1>5, <3>1
    <3>2. CASE ~(ok /\ w.file = "index")
      BY <1>2, <1>3, <1>5, <3>2 DEF Scalars, Chan
    <3> QED
      BY <3>1, <3>2
  <2> QED
    BY <1>1, <1>2, <1>3, <2>1 DEF Scalars
<1>9. Order(d.idx, d.iw, d.pend, n, l)
  <2>1. \A k \in PendingIn(c.idx) : l < k
    <3>1. ASSUME NEW k \in PendingIn(c.idx) PROVE l < k
      <4>1. k \in Nat /\ w.max < k
        BY <1>3 DEF Chan, IdxType, PendingIn, WriteOK
      <4> QED
        BY <1>3, <1>5, <4>1
    <3> QED
      BY <3>1
  <2> QED
    BY <1>1, <1>2, <1>3, <2>1 DEF Order
<1>10. Stored(d.idx, d.tl, d.iw, d.unsaved, d.health, med, u, j)
  <2>1. d.health # "stale" => j.fresh /\ j.read \subseteq med \cup c.unsaved
    BY <1>3, <1>4 DEF Stored, ReadsOn
  <2> QED
    BY <1>1, <1>2, <1>3, <1>4, <2>1 DEF Stored
<1>11. Known(d.idx, d.iw, d.pend, d.conn, d.connected, d.frames, d.acked)
  BY <1>1, <1>2, <1>3, <1>6 DEF Known
<1>12. History(d.iw, d.changed, d.hist, d.health, j)
  <2>1. ASSUME c.changed = 0, d.health # "stale",
               d.health \in {"ok", "delta", "new"}, j.index # None
        PROVE  j.index[1].hist = c.hist
    <3>1. CASE ok /\ w.file = "index"
      BY <1>3, <1>4, <2>1, <3>1 DEF History, ReadsOn
    <3>2. CASE w.file = "delta" /\ c.health \in {"ok", "delta", "new"}
      BY <1>3, <1>4, <2>1, <3>2 DEF History, ReadsOn
    <3> QED
      BY <1>4, <2>1, <3>1, <3>2
  <2> QED
    BY <1>1, <1>2, <2>1 DEF History
<1>13. /\ c.pend = None => Counted(d, 0)
       /\ c.pend # None => Counted(d, 1)
  <2> DEFINE h == Cardinality(HeldIn(c.idx))
             a == Len(c.iw)
             b == Len(c.pend)
  <2>1. /\ h \in Nat /\ a = 1 /\ b \in {0, 1} /\ (b = 0 <=> c.pend = None)
        /\ Len(None) = 0
    <3>1. h \in Nat
      BY <1>3, CountedAre DEF Order
    <3>2. b \in {0, 1} /\ (b = 0 <=> c.pend = None)
      BY <1>3, OptLen DEF Chan
    <3>3. a = 1
      BY <1>3, OptHas DEF Chan
    <3> QED
      BY <3>1, <3>2, <3>3, OptSome
  <2>2. c.snapshots = h + a + b + 0
    BY DEF Counted, Count
  <2> HIDE DEF h, a, b
  <2>3. d.snapshots = h + 0 + 0 + b
    BY <1>2, <2>1, <2>2
  <2>4. Counted(d, b)
    BY <1>1, <1>2, <2>1, <2>3 DEF Counted, Count, h
  <2>5. CASE b = 0
    BY <2>1, <2>4, <2>5
  <2>6. CASE b = 1
    BY <2>1, <2>4, <2>6
  <2> QED
    BY <2>1, <2>5, <2>6
<1>14. c.pend # None => Writable(d, c.pend[1], n, l)
  <2>1. ASSUME c.pend # None PROVE Writable(d, c.pend[1], n, l)
    <3> DEFINE s == c.pend[1]
    <3>1. s \in SnapType /\ s.max \in Nat
      BY <1>3, <2>1, SnapHas DEF Chan
    <3>2. WriteOK(c.idx, s, n, lv) /\ w.max < s.max
      BY <1>3, <2>1 DEF Order
    <3>3. FrameOK(s.frames, c.conn, c.connected, c.frames)
      BY <1>3, <2>1 DEF Known
    <3> HIDE DEF s
    <3>4. WriteOK(c.idx, s, n, l)
      BY <1>3, <1>5, <3>1, <3>2 DEF WriteOK
    <3>5. Writable(d, s, n, l)
      BY <1>1, <1>2, <3>1, <3>3, <3>4 DEF Writable
    <3> QED
      BY <3>5 DEF s
  <2> QED
    BY <2>1
<1>15. Flight(d.idx, d.media, p, med)
  BY <1>1 DEF Good
<1> QED
  BY <1>5, <1>7, <1>8, <1>9, <1>10, <1>11, <1>12, <1>13, <1>14, <1>15
     DEF Good

\* What is written is beyond what is read.
LEMMA WriteFitsStanding ==
    ASSUME NEW c, NEW lv \in Int, NEW med, NEW i, Standing(c, lv, med, i),
           c.next \in Keys, c.iw # None
    PROVE  WriteFits(c.iw[1], lv, c.success)
<1> DEFINE w == c.iw[1]
           n == c.next
<1>1. /\ Order(c.idx, c.iw, c.pend, n, lv) /\ Chan(c)
      /\ c.success = 0 \/ c.success <= lv
      /\ w.file = "delta" => w.min = c.success + 1
  BY DEF Standing, Good, Scalars
<1>2. n \in Nat /\ n <= RoundUp(MaxSegments) /\ RoundUp(MaxSegments) \in Nat
  BY KeysAre
<1>3. w \in FileType /\ w.max \in Nat
  BY <1>1, FileHas DEF Chan
<1>4. /\ lv < w.max /\ w.max < n /\ w.trunc <= w.max
      /\ w.min <= w.max + 1
      /\ \A k \in w.tl : w.min <= k /\ k <= w.max
  BY <1>1 DEF Order, WriteOK
<1>5. c.success \in Nat
  BY <1>1 DEF Chan
<1> HIDE DEF w, n
<1>6. w.max < RoundUp(MaxSegments)
  BY <1>2, <1>3, <1>4
<1>7. WriteFits(w, lv, c.success)
  BY <1>1, <1>3, <1>4, <1>5, <1>6 DEF WriteFits, FileOK
<1> QED
  BY <1>7 DEF w

\* new has the files of a channel that stands, and the one that it writes
\* if that is there.
PutOf(new, there) ==
    (there => ch.iw # None) /\ new = IndexPut(store, ch.iw[1], there)

\* What is read of them was saved, and goes as far as before.
LEMMA PutSafe ==
    ASSUME NEW lv \in Int, NEW fresh \in BOOLEAN, Safe(lv, fresh),
           NEW there \in BOOLEAN, NEW new, PutOf(new, there)
    PROVE  /\ StoreOK(new) /\ new.media = store.media
           /\ ch.health # "stale" =>
                /\ Recovered(store).max <= Recovered(new).max
                /\ ReadFrom(new) \subseteq store.media \cup ch.unsaved
           /\ ch.iw # None => /\ WriteFits(ch.iw[1], lv, ch.success)
                              /\ FilePut(store, new, ch.iw[1], there)
<1> DEFINE w == ch.iw[1]
           g == store.media
           i == Image(store, fresh)
<1>1. /\ Standing(ch, lv, g, i) /\ Chan(ch) /\ ch.next \in Keys
      /\ store \in StoreType /\ StoreOK(store)
      /\ fresh => Readable(store, lv, ch.success)
  BY SafeStands DEF Safe
<1>2. ch.health # "stale" =>
        /\ fresh /\ ReadFrom(store) \subseteq g \cup ch.unsaved
        /\ ch.iw # None => w.tl \subseteq g \cup ch.unsaved
  <2>1. Stored(ch.idx, ch.tl, ch.iw, ch.unsaved, ch.health, g, {}, i)
    BY <1>1 DEF Standing, Good
  <2>2. i.fresh = fresh /\ i.read = ReadFrom(store)
    BY DEF Image
  <2> QED
    BY <2>1, <2>2 DEF Stored
<1>3. CASE ch.iw = None
  <2>1. new = store
    BY <1>3 DEF PutOf, IndexPut
  <2>2. Recovered(store).max \in Int
    BY <1>1, RecoveredIs
  <2> QED
    BY <1>1, <1>2, <1>3, <2>1, <2>2
<1>4. CASE ch.iw # None
  <2>1. WriteFits(w, lv, ch.success)
    BY <1>1, <1>4, WriteFitsStanding
  <2>2. FilePut(store, new, w, there)
    BY <1>1, <2>1, FilePutDoes DEF WriteFits, PutOf
  <2>3. StoreOK(new) /\ new.media = g
    BY <1>1, <2>1, <2>2, FilePutOK DEF FilePut
  <2>4. ASSUME ch.health # "stale"
        PROVE  /\ Recovered(store).max <= Recovered(new).max
               /\ ReadFrom(new) \subseteq g \cup ch.unsaved
    <3>1. Readable(store, lv, ch.success)
      BY <1>1, <1>2, <2>4
    <3>2. Recovered(store).max <= Recovered(new).max
      BY <1>1, <2>1, <2>2, <2>3, <3>1, FilePutForward
    <3> DEFINE l == IF there THEN w.max ELSE lv
    <3>3. FileEnds(w, lv, ch.success, there, l, ch.success)
      BY DEF FileEnds
    <3> HIDE DEF l
    <3>4. ReadFrom(new) \subseteq ReadFrom(store) \cup w.tl
      BY <1>1, <2>1, <2>2, <3>1, <3>3, FilePutReadable
    <3> QED
      BY <1>2, <1>4, <2>4, <3>2, <3>4
  <2> QED
    BY <2>1, <2>2, <2>3, <2>4
<1> QED
  BY <1>3, <1>4

\* The write of the channel c, that stands, was answered, and new has the
\* files then: what d is, and what is read.
LEMMA IndexAnswered ==
    ASSUME NEW lv \in Int, NEW fresh \in BOOLEAN, Safe(lv, fresh),
           NEW ok \in BOOLEAN, NEW there \in BOOLEAN, ok => there,
           NEW new, PutOf(new, there), ch.iw # None,
           NEW c, StandingAt(c, ch.next, lv, store.media,
                             Image(store, fresh), ch.success),
           NEW w, w = ch.iw[1], c.iw = ch.iw, NEW d, Answered(c, d, w, ok),
           NEW l, l = IF there THEN w.max ELSE lv
    PROVE  /\ Good(d, ch.next, l, BucketOf(ch.next), store.media, {},
                   Image(new, fresh))
           /\ l \in Int
           /\ c.pend = None => Counted(d, 0)
           /\ c.pend # None =>
                Counted(d, 1) /\ Writable(d, c.pend[1], ch.next, l)
           /\ fresh => Readable(new, l, d.success)
<1> DEFINE i == Image(store, fresh)
           j == Image(new, fresh)
           g == store.media
           n == ch.next
           p == BucketOf(n)
           u == {}
           sn == d.success
<1>1. /\ Chan(ch) /\ n \in Nat /\ StoreOK(store)
      /\ (fresh => Readable(store, lv, ch.success))
  BY SafeStands, KeysAre DEF Safe
<1>2. /\ WriteFits(w, lv, ch.success) /\ FilePut(store, new, w, there)
  BY PutSafe
<1>3. w \in FileType /\ w.file \in {"index", "delta"}
  BY <1>2 DEF WriteFits, FileType
<1>4. i.fresh = fresh /\ i.read = ReadFrom(store) /\ i.index = store.index
      /\ j.fresh = fresh /\ j.read = ReadFrom(new)
      /\ j.index = new.index
  BY DEF Image
<1>5. /\ Good(c, n, lv, p, g, u, i) /\ Counted(c, 0)
      /\ c.success = ch.success
  BY DEF StandingAt, Standing
<1>6. FileEnds(w, lv, ch.success, there, l, sn)
  <2>1. sn = IF ok /\ w.file = "index" THEN w.max ELSE c.success
    BY DEF Answered
  <2> HIDE DEF sn
  <2> QED
    BY <1>5, <2>1 DEF FileEnds
<1> HIDE DEF i, j, g, n, p, u, sn
<1>7. fresh => /\ Readable(new, l, sn)
               /\ ReadFrom(new) \subseteq ReadFrom(store) \cup w.tl
  <2>1. ASSUME fresh
        PROVE  /\ Readable(new, l, sn)
               /\ ReadFrom(new) \subseteq ReadFrom(store) \cup w.tl
    <3>1. Readable(store, lv, ch.success)
      BY <1>1, <2>1
    <3> QED
      BY <1>1, <1>2, <1>6, <3>1, FilePutReadable
  <2> QED
    BY <2>1
<1>8. ReadsOn(i, j, w, there)
  <2>1. i.fresh => j.fresh /\ j.read \subseteq i.read \cup w.tl
    BY <1>4, <1>7
  <2>2. there /\ w.file = "index" =>
            j.index # None /\ j.index[1].hist = w.hist
    BY <1>2, <1>4 DEF FilePut, Alike
  <2>3. ~(there /\ w.file = "index") => j.index = i.index
    BY <1>2, <1>3, <1>4 DEF FilePut, SameFiles
  <2> QED
    BY <2>1, <2>2, <2>3 DEF ReadsOn
<1>9. /\ Good(d, n, l, p, g, u, j) /\ l \in Int
      /\ c.pend = None => Counted(d, 0)
      /\ c.pend # None => Counted(d, 1) /\ Writable(d, c.pend[1], n, l)
  BY <1>1, <1>5, <1>8, AnsweredGood
<1> QED
  BY <1>7, <1>9 DEF i, j, g, n, p, u, sn

\* The write of an index is answered.
LEMMA IndexSafe ==
    ASSUME NEW lv \in Int, NEW fresh \in BOOLEAN, Safe(lv, fresh),
           NEW ok \in BOOLEAN, NEW there \in BOOLEAN, NEW F,
           IndexDone(ok, there, F)
    PROVE  IInv'
<1> DEFINE i == Image(store, fresh)
           j == Image(store', fresh)
           g == store.media
           n == ch.next
           p == BucketOf(n)
           u == {}
           b == IF ok THEN ch ELSE Event(ch)
           c == Failing(b, F)
           w == ch.iw[1]
           l == IF there THEN w.max ELSE lv
           d == [FramesClose(c, w.frames, TRUE) EXCEPT
                    !.iw = None, !.pend = None,
                    !.health = IF ok THEN Written(@, w.file)
                               ELSE Failed(@, w.file),
                    !.success = Success(ch, w, ok)]
           e == IF ch.pend = None THEN d ELSE SnapWrite(d, ch.pend[1])
           new == store'
<1>1. /\ ch' = Done(e) /\ PutOf(new, there) /\ ch.iw # None
      /\ ok => there
  BY DEF IndexDone, PutOf, IndexPut
<1>2. /\ Standing(ch, lv, g, i) /\ Chan(ch) /\ n \in Keys /\ n \in Nat
  BY SafeStands, KeysAre DEF Safe
<1>3. /\ StoreOK(store') /\ store'.media = g
      /\ WriteFits(w, lv, ch.success)
  BY <1>1, PutSafe
<1>4. b \in {ch, Event(ch)}
  OBVIOUS
<1>5. w \in FileType
  BY <1>3 DEF WriteFits, FileType
<1>6. l = IF there THEN w.max ELSE lv
  OBVIOUS
<1> HIDE DEF b
<1>8. StandingAt(c, n, lv, g, i, ch.success)
  BY <1>2, <1>4, FailingStanding
<1>9. Keeps(ch, c, {"events", "fail"})
  BY <1>2, <1>4, FailingDoes
<1> HIDE DEF c, new
<1>10. c.iw = ch.iw /\ c.pend = ch.pend /\ c.success = ch.success
  BY <1>9 DEF Keeps, Fields
<1>11. /\ Order(c.idx, c.iw, c.pend, n, lv) /\ Chan(c)
       /\ FreeIn(c.idx, c.media, {})
       /\ c.next = n /\ c.lastReady < n /\ lv < n
       /\ LastOK(c.lastBucket, n)
  BY <1>8 DEF StandingAt, Standing, Good
<1>12. Answered(c, d, w, ok)
  BY <1>5, <1>10, <1>11, AnsweredDoes
<1>13. w = ch.iw[1]
  OBVIOUS
<1> HIDE DEF l, w, d
<1>14. /\ Good(d, ch.next, l, BucketOf(ch.next), store.media, {},
               Image(new, fresh))
       /\ l \in Int
       /\ c.pend = None => Counted(d, 0)
       /\ c.pend # None =>
            Counted(d, 1) /\ Writable(d, c.pend[1], ch.next, l)
       /\ fresh => Readable(new, l, d.success)
  BY <1>1, <1>6, <1>8, <1>10, <1>12, <1>13, IndexAnswered
<1> DEFINE sn == d.success
<1>15. fresh => Readable(store', l, sn)
  BY <1>14 DEF new
<1>17. /\ Good(d, n, l, p, g, u, j) /\ l \in Int
       /\ c.pend = None => Counted(d, 0)
       /\ c.pend # None => Counted(d, 1) /\ Writable(d, c.pend[1], n, l)
  BY <1>14 DEF new
<1> HIDE DEF i, j, g, p, u, sn
<1>18. /\ Good(e, n, l, p, g, u, j) /\ Counted(e, 0)
       /\ Keeps(d, e, {"snapshots", "acked", "iw", "pend", "changed",
                       "health"})
  <2>1. CASE ch.pend = None
    BY <1>10, <1>17, <2>1 DEF Keeps, Good, Chan
  <2>2. CASE ch.pend # None
    <3> DEFINE s == ch.pend[1]
    <3>1. /\ Good(d, n, l, p, g, u, j) /\ Counted(d, 1)
          /\ Writable(d, s, n, l) /\ s \in SnapType
      BY <1>10, <1>17, <2>2 DEF Writable
    <3>2. e = SnapWrite(d, s)
      BY <2>2
    <3> HIDE DEF e, s
    <3>3. Good(SnapWrite(d, s), n, l, p, g, u, j)
          /\ Counted(SnapWrite(d, s), 0)
      BY <1>2, <1>17, <3>1, SnapWriteGood
    <3>4. Keeps(d, SnapWrite(d, s),
                {"snapshots", "acked", "iw", "pend", "changed", "health"})
      BY <3>1, SnapWriteKeeps DEF Good
    <3> QED
      BY <3>2, <3>3, <3>4
  <2> QED
    BY <2>1, <2>2
<1> HIDE DEF e
<1>19. /\ e.idx = c.idx /\ e.media = c.media /\ e.next = c.next
       /\ e.lastReady = c.lastReady /\ e.lastBucket = c.lastBucket
       /\ e.success = sn
  <2>1. Keeps(c, e, {"snapshots", "acked", "iw", "pend", "changed", "health",
                     "success"})
    BY <1>12, <1>18 DEF Answered, Keeps
  <2>2. e.success = d.success
    BY <1>18 DEF Keeps, Fields
  <2> QED
    BY <2>1, <2>2 DEF Keeps, Fields, sn
<1>20. Finishes(e, Done(e), n)
  BY <1>11, <1>18, <1>19, FinishesHere DEF Good
<1>21. l < n
  BY <1>1, <1>3, <1>6, <1>10, <1>11, <1>13 DEF Order, WriteOK
<1>22. /\ Good(e, n, l, BucketOf(n), g, {}, j) /\ FreeIn(e.idx, e.media, {})
       /\ e.next <= n /\ e.lastReady < n /\ LastOK(e.lastBucket, n) /\ n <= n
  BY <1>2, <1>11, <1>18, <1>19 DEF p, u
<1>23. StandingAt(Done(e), n, l, g, j, sn)
  BY <1>2, <1>18, <1>19, <1>20, <1>21, <1>22, FinishedStands
<1>24. StandingAt(ch', n, l, g, j, sn)
  BY <1>1, <1>23
<1>25. /\ Standing(ch', l, store'.media, Image(store', fresh))
       /\ ch'.next = n /\ ch'.success = sn
  BY <1>3, <1>24 DEF StandingAt, j
<1>26. PICK m \in Int : m = l
  BY <1>17
<1>27. /\ Standing(ch', m, store'.media, Image(store', fresh))
       /\ fresh => Readable(store', m, ch'.success)
  BY <1>15, <1>25, <1>26
<1>28. Safe(m, fresh)'
  BY <1>2, <1>3, <1>25, <1>27 DEF Safe, Keys
<1> QED
  BY <1>28 DEF IInv

-----------------------------------------------------------------------------
(* The server restarts *)

\* What it reads is beside what the history says of the files.
LEMMA RereadReadable ==
    ASSUME NEW st, StoreOK(st), NEW r, r = Recovered(st), NEW h,
           Reread(h, st, r.max) # "stale"
    PROVE  Readable(st, r.max, r.success) /\ h # "stale"
<1>1. /\ r.max \in Int /\ r.success \in Nat
      /\ st.index = None => r.max = -1 /\ r.success = 0
      /\ st.index # None =>
            /\ r.success = st.index[1].max /\ st.index[1].max <= r.max
            /\ DeltaCounts(st) => r.max = st.delta[1].max
            /\ ~DeltaCounts(st) => r.max = st.index[1].max
  BY RecoveredIs
<1>2. h # "stale" /\ (st.delta # None => ~(st.delta[1].min > r.max + 1))
  BY DEF Reread
<1>3. /\ st.index # None => st.index[1].max \in Nat
      /\ st.delta # None => /\ st.delta[1].max \in Nat
                            /\ st.delta[1].min \in Nat
                            /\ 1 <= st.delta[1].min
  BY StoreNumbers DEF StoreOK
<1>4. CASE st.index = None
  <2>1. st.delta = None
    BY <1>1, <1>2, <1>3, <1>4
  <2> QED
    BY <1>1, <1>2, <1>4, <2>1 DEF Readable, Alive
<1>5. CASE st.index # None /\ DeltaCounts(st)
  BY <1>1, <1>2, <1>3, <1>5 DEF Readable, Alive, DeltaCounts
<1>6. CASE st.index # None /\ ~DeltaCounts(st)
  BY <1>1, <1>2, <1>3, <1>6 DEF Readable, Alive, DeltaCounts
<1> QED
  BY <1>4, <1>5, <1>6

\* What the files name is not beyond what is read.
LEMMA ReadFromEnds ==
    ASSUME NEW st, StoreOK(st)
    PROVE  \A k \in ReadFrom(st) : k \in Nat /\ k <= Recovered(st).max
<1> DEFINE r == Recovered(st)
<1>1. /\ r.max \in Int
      /\ st.index # None =>
            /\ st.index[1].max <= r.max
            /\ DeltaCounts(st) => r.max = st.delta[1].max
  BY RecoveredIs
<1> HIDE DEF r
<1>2. /\ st.index # None => /\ st.index[1].max \in Nat
                            /\ st.index[1].tl \subseteq Nat
                            /\ \A k \in st.index[1].tl : k <= st.index[1].max
      /\ st.delta # None => /\ st.delta[1].max \in Nat
                            /\ st.delta[1].tl \subseteq Nat
                            /\ \A k \in st.delta[1].tl : k <= st.delta[1].max
  BY StoreNumbers DEF StoreOK, FileOK
<1>3. ASSUME NEW k \in ReadFrom(st) PROVE k \in Nat /\ k <= r.max
  <2>1. CASE st.index # None /\ k \in st.index[1].tl
    BY <1>1, <1>2, <2>1
  <2>2. CASE st.index # None /\ DeltaCounts(st) /\ k \in st.delta[1].tl
    BY <1>1, <1>2, <2>2 DEF DeltaCounts
  <2> QED
    BY <2>1, <2>2 DEF ReadFrom
<1> QED
  BY <1>3 DEF r

\* d is the channel c after a restart that read r; z is the next index.
Restarted(c, d, r, z) ==
    /\ Chan(d)
    /\ d.idx = << >> /\ d.media = {} /\ d.iw = None /\ d.pend = None
    /\ d.snapshots = 0 /\ ~d.connected /\ d.changed = 0
    /\ d.lastReady = -1 /\ d.lastBucket = -1 /\ d.cut = 0
    /\ d.next = z /\ d.success = r.success /\ d.trunc = r.trunc
    /\ d.hist = r.hist /\ d.tl \subseteq r.tl
    /\ d.unsaved = {k \in c.unsaved : k <= r.max}
    /\ d.min <= r.max + 1 /\ \A k \in d.tl : d.min <= k

\* It lost j segments by their age, and what is before the first is excused.
Aged(c, d, r, j) ==
    /\ d.tl = r.tl \ Oldest(r.tl, j)
    /\ d.min = IF d.tl = {} THEN r.max + 1 ELSE Min(d.tl)
    /\ d.excused = Bigger(IF c.excused > r.max THEN r.max ELSE c.excused,
                          d.min - 1)
    /\ d.pub = c.pub /\ d.noFree = FALSE

\* The channel is made anew.
LEMMA RestartMakes ==
    ASSUME NEW M, NEW there \in BOOLEAN, NEW j, Restart(M, there, j),
           Chan(ch), NEW put, PutOf(put, there), StoreOK(put),
           NEW r, r = Recovered(put)
    PROVE  Restarted(ch, ch', r, RoundUp(r.max + 1))
           /\ ch'.health = Reread(ch.health, put, r.max)
           /\ Aged(ch, ch', r, j)
<1> DEFINE z == RoundUp(r.max + 1)
           tl == r.tl \ Oldest(r.tl, j)
           min == IF tl = {} THEN r.max + 1 ELSE Min(tl)
           events == ch.events + 1
           excused == Bigger(IF ch.excused > r.max THEN r.max
                             ELSE ch.excused, min - 1)
           unsaved == {k \in ch.unsaved : k <= r.max}
           health == Reread(ch.health, put, r.max)
<1>1. /\ r.max \in Int /\ r.max + 1 \in Nat /\ r.success \in Nat
      /\ r.next \in Nat /\ r.trunc \in Nat /\ r.hist \in Nat
      /\ r.tl \subseteq Nat /\ \A k \in r.tl : k <= r.max
  BY RecoveredIs
<1>2. ch' = [NewChannel EXCEPT
                !.next = z, !.min = min, !.tl = tl,
                !.frames = r.next, !.success = r.success, !.trunc = r.trunc,
                !.conn = ch.conn, !.acked = ch.acked,
                !.events = events, !.pub = ch.pub, !.hist = r.hist,
                !.excused = excused, !.unsaved = unsaved, !.health = health]
  BY DEF Restart, PutOf, IndexPut
<1>3. z \in Nat
  BY <1>1, RoundUpBounds
<1>4. tl \subseteq r.tl /\ tl \subseteq Nat
  BY <1>1
<1>5. min \in Nat /\ min <= r.max + 1 /\ \A k \in tl : min <= k
  <2>1. CASE tl = {}
    BY <1>1, <2>1
  <2>2. CASE tl # {}
    <3>1. Min(tl) \in tl /\ \A k \in tl : Min(tl) <= k
      BY <1>4, <2>2, MinLeast
    <3>2. min = Min(tl)
      BY <2>2
    <3> HIDE DEF tl, min
    <3>3. min \in tl /\ \A k \in tl : min <= k
      BY <3>1, <3>2
    <3>4. min \in Nat /\ min <= r.max
      BY <1>1, <1>4, <3>3
    <3>5. min <= r.max + 1
      BY <1>1, <3>4
    <3> QED
      BY <3>3, <3>4, <3>5
  <2> QED
    BY <2>1, <2>2
<1> HIDE DEF z, tl, min
<1>6. /\ events \in Nat /\ excused \in Int /\ unsaved \subseteq Nat
      /\ ch.conn \in Nat /\ ch.acked \in Nat /\ ch.pub \in Nat
      /\ health \in Healths
  BY <1>1, <1>5 DEF Chan, Bigger, Reread, Healths
<1> HIDE DEF events, excused, health, unsaved
<1>7. /\ DOMAIN ch' = Fields
      /\ ch'.idx = << >> /\ ch'.media = {} /\ ch'.iw = None
      /\ ch'.pend = None /\ ch'.snapshots = 0 /\ ch'.connected = FALSE
      /\ ch'.changed = 0 /\ ch'.lastReady = -1 /\ ch'.lastBucket = -1
      /\ ch'.cut = 0 /\ ch'.early = -1 /\ ch'.noFree = FALSE
  BY <1>2 DEF NewChannel, Fields
<1>8. /\ ch'.next = z /\ ch'.min = min /\ ch'.tl = tl /\ ch'.frames = r.next
      /\ ch'.success = r.success /\ ch'.trunc = r.trunc
      /\ ch'.conn = ch.conn /\ ch'.acked = ch.acked /\ ch'.events = events
      /\ ch'.pub = ch.pub /\ ch'.hist = r.hist /\ ch'.excused = excused
      /\ ch'.unsaved = unsaved /\ ch'.health = health
  BY <1>2 DEF NewChannel
<1>9. Chan(ch')
  <2>1. IdxType(ch'.idx) /\ ch'.iw \in Opt(FileType) /\ ch'.pend \in Opt(SnapType)
    BY <1>7 DEF IdxType, Opt
  <2>2. /\ ch'.media \subseteq MediaType /\ ch'.snapshots \in Int
        /\ ch'.lastReady \in Int /\ ch'.lastBucket \in Int
        /\ ch'.early \in Int /\ ch'.changed \in Nat /\ ch'.cut \in Nat
    BY <1>7
  <2>4. ch'.connected \in BOOLEAN /\ ch'.noFree \in BOOLEAN
    BY <1>7
  <2>3. /\ ch'.next \in Nat /\ ch'.min \in Nat /\ ch'.conn \in Nat
        /\ ch'.frames \in Nat /\ ch'.acked \in Nat /\ ch'.success \in Nat
        /\ ch'.trunc \in Nat /\ ch'.events \in Nat /\ ch'.pub \in Nat
        /\ ch'.hist \in Nat /\ ch'.excused \in Int /\ ch'.tl \subseteq Nat
        /\ ch'.unsaved \subseteq Nat /\ ch'.health \in Healths
    BY <1>1, <1>3, <1>4, <1>5, <1>6, <1>8
  <2> QED
    BY <1>7, <2>1, <2>2, <2>3, <2>4 DEF Chan
<1>10. Aged(ch, ch', r, j)
  BY <1>7, <1>8 DEF Aged, tl, min, excused
<1> QED
  BY <1>4, <1>5, <1>7, <1>8, <1>9, <1>10 DEF Restarted, z, unsaved, health

\* a is the media that is in storage after the writes M arrived.
Arrived(a, med, M) ==
    a = {k \in med : \A w \in M : w.bucket # BucketOf(k)}
            \cup UNION {w.segs : w \in M}

\* It has what was there before.
LEMMA ArrivedMedia ==
    ASSUME NEW M, NEW p, NEW med \in SUBSET Nat, Chan(ch), M \subseteq ch.media,
           Flight(ch.idx, ch.media, p, med),
           NEW a, Arrived(a, med, M)
    PROVE  med \subseteq a /\ a \subseteq Nat
<1>1. ASSUME NEW k \in med, NEW w \in M PROVE w.bucket # BucketOf(k)
  BY DEF Flight, FlightOK
<1>2. ASSUME NEW w \in M PROVE w.segs \subseteq Nat
  BY DEF Chan, MediaType
<1> QED
  BY <1>1, <1>2 DEF Arrived

\* The server starts with what it reads.
LEMMA RestartSafe ==
    ASSUME NEW lv \in Int, NEW fresh \in BOOLEAN, Safe(lv, fresh),
           NEW M, NEW there \in BOOLEAN, NEW j, Restart(M, there, j)
    PROVE  IInv'
<1> DEFINE put == IndexPut(store, ch.iw[1], there)
           r == Recovered(put)
           g == store.media
           arrived == {k \in g : \A w \in M : w.bucket # BucketOf(k)}
                        \cup UNION {w.segs : w \in M}
           mev == {k \in arrived : k <= r.max}
           h == Reread(ch.health, put, r.max)
           again == (h # "stale")
           z == RoundUp(r.max + 1)
<1>1. /\ Chan(ch) /\ g \subseteq Nat /\ g \in SUBSET Nat
      /\ Flight(ch.idx, ch.media, BucketOf(ch.next), g)
  BY SafeStands DEF Standing, Good
<1>2. PutOf(put, there) /\ M \subseteq ch.media
  BY DEF PutOf, Restart
<1>3. store' = [put EXCEPT !.media = mev]
  BY DEF Restart, IndexPut
<1>4. /\ StoreOK(put)
      /\ ch.health # "stale" => ReadFrom(put) \subseteq g \cup ch.unsaved
  BY <1>2, PutSafe
<1>5. r = Recovered(put)
  OBVIOUS
<1> HIDE DEF put, r
<1>28. Arrived(arrived, g, M)
  BY DEF Arrived
<1>6. Restarted(ch, ch', r, z) /\ ch'.health = h
  BY <1>1, <1>2, <1>4, <1>5, RestartMakes
<1> HIDE DEF arrived
<1>7. g \subseteq arrived /\ arrived \subseteq Nat
  BY <1>1, <1>2, <1>28, ArrivedMedia
<1>8. /\ r.max \in Int /\ -1 <= r.max /\ r.max + 1 \in Nat
      /\ r.max < RoundUp(MaxSegments)
      /\ r.success \in Nat /\ r.trunc \in Nat /\ r.trunc <= r.max + 1
      /\ r.success = 0 \/ r.success <= r.max
      /\ r.tl \subseteq ReadFrom(put) /\ r.tl \subseteq Nat
      /\ \A k \in r.tl : k <= r.max
      /\ put.index # None => r.hist = put.index[1].hist
  BY <1>4, <1>5, RecoveredIs
<1>9. \A k \in ReadFrom(put) : k \in Nat /\ k <= r.max
  BY <1>4, <1>5, ReadFromEnds
<1>10. h # "stale" => Readable(put, r.max, r.success) /\ ch.health # "stale"
  BY <1>4, <1>5, RereadReadable
<1>11. /\ z \in Nat /\ r.max + 1 <= z
       /\ \A k \in Nat : k < r.max + 1 => BucketOf(k) < BucketOf(z)
  BY <1>8, RoundUpBounds
<1>12. z \in Keys
  <2>1. RoundUp(MaxSegments) \in Nat /\ MaxSegments \in Nat
    BY KeysAre, SegmentPersistAssumption
  <2>2. r.max + 1 <= RoundUp(MaxSegments)
    BY <1>8, <2>1
  <2>3. z <= RoundUp(MaxSegments)
    BY <1>8, <2>1, <2>2, RoundUpLeast
  <2> QED
    BY <1>11, <2>3, KeysAre
<1> HIDE DEF z, h
<1>13. mev \subseteq Nat /\ \A k \in mev : BucketOf(k) < BucketOf(z)
  <2>1. ASSUME NEW k \in mev PROVE k \in Nat /\ BucketOf(k) < BucketOf(z)
    <3>1. k \in Nat /\ k <= r.max
      BY <1>7
    <3>2. k < r.max + 1
      BY <1>8, <3>1
    <3> QED
      BY <1>11, <3>1, <3>2
  <2> QED
    BY <2>1
<1>14. ch.health # "stale" =>
            ReadFrom(put) \subseteq mev \cup {k \in ch.unsaved : k <= r.max}
  BY <1>4, <1>7, <1>9
<1> HIDE DEF mev
<1>15. SameFiles(put, store') /\ store'.media = mev /\ store' \in StoreType
  <2>1. put \in StoreType
    BY <1>4 DEF StoreOK
  <2> QED
    BY <1>3, <1>13, <2>1 DEF SameFiles, StoreType
<1>16. StoreOK(store')
  BY <1>4, <1>15 DEF SameFiles, StoreOK, FileOK
<1>17. ReadFrom(store') = ReadFrom(put)
  BY <1>15 DEF SameFiles, ReadFrom, DeltaCounts
<1>18. again \in BOOLEAN
  OBVIOUS
<1> DEFINE i == Image(store', again)
<1>19. i.fresh = again /\ i.read = ReadFrom(put) /\ i.index = put.index
  BY <1>15, <1>17 DEF Image, SameFiles
<1> HIDE DEF i
<1>20. Empty(ch', r.max, mev, i)
  <2>1. ch'.min <= ch'.next /\ r.max < ch'.next /\ ch'.trunc <= ch'.next
    <3>1. ch'.min \in Nat /\ ch'.min <= r.max + 1 /\ ch'.next = z
          /\ ch'.trunc = r.trunc
      BY <1>6 DEF Restarted, Chan
    <3> QED
      BY <1>8, <1>11, <3>1
  <2>2. \A k \in ch'.tl : ch'.min <= k /\ k < ch'.next
    <3>1. /\ ch'.tl \subseteq r.tl /\ ch'.next = z
          /\ \A k \in ch'.tl : ch'.min <= k
      BY <1>6 DEF Restarted
    <3>2. \A k \in r.tl : k < z
      BY <1>8, <1>11
    <3> QED
      BY <3>1, <3>2
  <2>3. ch'.success = 0 \/ ch'.success <= r.max
    BY <1>6, <1>8 DEF Restarted
  <2>4. \A k \in mev : BucketOf(k) < BucketOf(ch'.next)
    BY <1>6, <1>13 DEF Restarted
  <2>5. ASSUME ch'.health # "stale"
        PROVE  /\ ch'.tl \subseteq mev \cup ch'.unsaved
               /\ i.fresh /\ i.read \subseteq mev \cup ch'.unsaved
               /\ i.index # None => i.index[1].hist = ch'.hist
    <3>1. h # "stale" /\ ch.health # "stale" /\ again
      BY <1>6, <1>10, <2>5
    <3>2. /\ ch'.unsaved = {k \in ch.unsaved : k <= r.max}
          /\ ch'.tl \subseteq r.tl /\ ch'.hist = r.hist
      BY <1>6 DEF Restarted
    <3> HIDE DEF again
    <3> QED
      BY <1>8, <1>14, <1>19, <3>1, <3>2
  <2> QED
    BY <1>6, <2>1, <2>2, <2>3, <2>4, <2>5 DEF Restarted, Empty
<1>21. Standing(ch', r.max, mev, i)
  BY <1>20, EmptyStanding
<1>22. again => Readable(store', r.max, ch'.success)
  <2>1. h # "stale" => Readable(put, r.max, ch'.success)
    BY <1>6, <1>10 DEF Restarted
  <2> QED
    BY <1>15, <2>1 DEF SameFiles, Readable, Alive
<1>23. PICK m \in Int : m = r.max
  BY <1>8
<1>24. PICK f \in BOOLEAN : f = again
  BY <1>18
<1>25. ch'.next \in Keys
  BY <1>6, <1>12 DEF Restarted
<1>26. /\ Standing(ch', m, store'.media, Image(store', f))
       /\ f => Readable(store', m, ch'.success)
  BY <1>15, <1>21, <1>22, <1>23, <1>24 DEF i
<1>27. Safe(m, f)'
  BY <1>16, <1>25, <1>26 DEF Safe, Keys
<1> QED
  BY <1>27 DEF IInv

-----------------------------------------------------------------------------
(* All steps *)

\* A step that leaves the channel and the files as they are.
LEMMA NothingSafe ==
    ASSUME IInv, ch' = ch, store' = store
    PROVE  IInv'
<1>1. PICK lv \in Int, fresh \in BOOLEAN : Safe(lv, fresh)
  BY DEF IInv
<1>2. Safe(lv, fresh)'
  BY <1>1 DEF Safe, Keys
<1> QED
  BY <1>2 DEF IInv

\* Every step keeps the invariant.
LEMMA NextSafe ==
    ASSUME IInv, [Next]_vars
    PROVE  IInv'
<1>0. PICK lv \in Int, fresh \in BOOLEAN : Safe(lv, fresh)
  BY DEF IInv
<1>1. CASE Connect \/ Disconnect \/ \E again \in BOOLEAN : ConnectBack(again)
  BY <1>0, <1>1, ConnectSafe
<1>2. CASE Activate
  BY <1>2, NothingSafe DEF Activate
<1>3. CASE DisposeFrames
  BY <1>0, <1>3, DisposeFramesSafe
<1>4. CASE HistoryChanged
  BY <1>0, <1>4, HistoryChangedSafe
<1>5. ASSUME NEW exists \in BOOLEAN, NEW j, NEW F, CreateSegment(exists, j, F)
      PROVE  IInv'
  BY <1>0, <1>5, CreateSafe
<1>6. ASSUME NEW F, ChannelInactive(F) PROVE IInv'
  BY <1>0, <1>6, InactiveSafe
<1>7. ASSUME NEW j, TimelinesCleanup(j) PROVE IInv'
  BY <1>0, <1>7, CleanupSafe
<1>8. ASSUME NEW n, NEW F, Watermark(n, F) PROVE IInv'
  BY <1>0, <1>8, WatermarkSafe
<1>9. ASSUME NEW w, NEW ok \in BOOLEAN, NEW F, MediaDone(w, ok, F)
      PROVE  IInv'
  BY <1>0, <1>9, MediaSafe
<1>10. ASSUME NEW ok \in BOOLEAN, NEW there \in BOOLEAN, NEW F,
              IndexDone(ok, there, F)
       PROVE  IInv'
  BY <1>0, <1>10, IndexSafe
<1>11. ASSUME NEW M, NEW there \in BOOLEAN, NEW j, Restart(M, there, j)
       PROVE  IInv'
  BY <1>0, <1>11, RestartSafe
<1>12. CASE UNCHANGED vars
  BY <1>12, NothingSafe DEF vars
<1> QED
  BY <1>1, <1>2, <1>3, <1>4, <1>5, <1>6, <1>7, <1>8, <1>9, <1>10, <1>11,
     <1>12 DEF Next

\* The channel stands, and its files are well formed, whatever the sizes of
\* buckets, deltas, window and memory are.
THEOREM SegmentPersistInvariance == Spec => []IInv
<1>1. Init => IInv
  BY InitSafe
<1>2. IInv /\ [Next]_vars => IInv'
  BY NextSafe
<1> QED
  BY <1>1, <1>2, PTL DEF Spec

-----------------------------------------------------------------------------
(* What the invariant means *)

\* The state has the shape it is said to have.
LEMMA ShapeOK ==
    ASSUME IInv
    PROVE  TypeOK
<1>0. PICK lv \in Int, fresh \in BOOLEAN : Safe(lv, fresh)
  BY DEF IInv
<1> DEFINE n == ch.next
           g == store.media
<1>1. /\ Chan(ch) /\ n \in Keys /\ n \in Nat /\ Keys \subseteq Nat
      /\ \A m \in Nat : m <= n => m \in Keys
  <2>1. Chan(ch) /\ n \in Keys
    BY <1>0, SafeStands
  <2> HIDE DEF n
  <2>2. RoundUp(MaxSegments) \in Nat
    BY KeysAre
  <2>3. n \in Nat /\ n <= RoundUp(MaxSegments) /\ Keys \subseteq Nat
    BY <2>1, KeysAre
  <2>4. ASSUME NEW m \in Nat, m <= n PROVE m \in Keys
    BY <2>2, <2>3, <2>4 DEF Keys
  <2> QED
    BY <2>1, <2>3, <2>4
<1>2. /\ Scalars(ch, n, lv, {}) /\ Order(ch.idx, ch.iw, ch.pend, n, lv)
      /\ Flight(ch.idx, ch.media, BucketOf(n), g)
      /\ ch.lastReady < n /\ LastOK(ch.lastBucket, n)
  BY <1>0 DEF Safe, Standing, Good
<1>3. ch.min \in Keys /\ ch.tl \subseteq 0 .. n - 1
  <2>1. ch.min \in Nat /\ ch.min <= n /\ ch.tl \subseteq Nat
        /\ \A k \in ch.tl : k < n
    BY <1>1, <1>2 DEF Scalars, Chan
  <2> HIDE DEF n
  <2>2. ch.min \in Keys
    BY <1>1, <2>1
  <2>3. ASSUME NEW k \in ch.tl PROVE k \in 0 .. n - 1
    BY <1>1, <2>1
  <2> QED
    BY <2>2, <2>3
<1>4. ASSUME NEW s \in SnapType, s.max < n, s.trunc <= s.max
      PROVE  s \in Snaps
  <2>1. s.max \in Nat /\ s.trunc \in Nat
    BY DEF SnapType
  <2>2. s.max \in Keys /\ s.trunc \in Keys
    BY <1>1, <1>4, <2>1
  <2> QED
    BY <2>2 DEF SnapType, Snaps, FrameType, Frames
<1>5. ASSUME NEW k \in DOMAIN ch.idx
      PROVE  /\ k < n /\ ch.idx[k].persist \in {"none", "ok", "error"}
             /\ ch.idx[k].snap = None \/ ch.idx[k].snap[1] \in Snaps
             /\ ch.idx[k].free =>
                    ch.idx[k].snap = None \/ ch.idx[k].snap[1].max > k
  <2> DEFINE x == ch.idx[k]
  <2>1. x \in EntryType /\ k \in Nat /\ k < n
    BY <1>1, <1>2 DEF Chan, IdxType, Order
  <2>2. x.persist \in {"none", "ok", "error"} /\ x.snap \in Opt(SnapType)
    BY <2>1, EntryHas
  <2>3. ASSUME x.snap # None
        PROVE  x.snap[1] \in Snaps /\ (x.free => x.snap[1].max > k)
    <3> DEFINE s == x.snap[1]
    <3>1. s \in SnapType /\ s.max \in Nat
      BY <2>2, <2>3, SnapHas
    <3>2. /\ s.max < n /\ s.trunc <= s.max
          /\ x.free => k < s.max
      BY <1>2, <2>3 DEF Order, HeldIn, HeldOK
    <3> HIDE DEF s, n
    <3>3. s \in Snaps
      BY <1>4, <3>1, <3>2
    <3>4. x.free => s.max > k
      BY <2>1, <3>1, <3>2
    <3> QED
      BY <3>3, <3>4 DEF s
  <2> QED
    BY <2>1, <2>2, <2>3
<1>6. \A w \in ch.media : w.at \in DOMAIN ch.idx /\ w.at \in w.segs
  BY <1>2 DEF Flight, FlightOK, PendingIn
<1>7. ch.iw = None \/ ch.iw[1] \in Files
  <2>1. ASSUME ch.iw # None PROVE ch.iw[1] \in Files
    <3> DEFINE w == ch.iw[1]
    <3>1. /\ w \in FileType /\ w.max \in Nat /\ w.min \in Nat
          /\ w.trunc \in Nat /\ w.tl \subseteq Nat
      BY <1>1, <2>1, FileHas DEF Chan
    <3>2. /\ w.max < n /\ w.trunc <= w.max /\ w.min <= w.max + 1
          /\ \A k \in w.tl : k <= w.max
      BY <1>2, <2>1 DEF Order, WriteOK
    <3> HIDE DEF w, n
    <3>3. w.max \in Keys /\ w.trunc \in Keys /\ w.min \in Keys
      BY <1>1, <3>1, <3>2
    <3>4. w.tl \subseteq Keys
      <4>1. ASSUME NEW k \in w.tl PROVE k \in Keys
        BY <1>1, <3>1, <3>2
      <4> QED
        BY <4>1
    <3>5. w \in Files
      BY <3>1, <3>3, <3>4 DEF FileType, Files, FrameType, Frames
    <3> QED
      BY <3>5 DEF w
  <2> QED
    BY <2>1
<1>8. ch.pend = None \/ ch.pend[1] \in Snaps
  <2>1. ASSUME ch.pend # None PROVE ch.pend[1] \in Snaps
    <3> DEFINE s == ch.pend[1]
    <3>1. s \in SnapType
      BY <1>1, <2>1, SnapHas DEF Chan
    <3>2. s.max < n /\ s.trunc <= s.max
      BY <1>2, <2>1 DEF Order, WriteOK
    <3> HIDE DEF s, n
    <3> QED
      BY <1>4, <3>1, <3>2 DEF s
  <2> QED
    BY <2>1
<1>9. ch.pend # None => ch.iw # None
  BY <1>2 DEF Order
<1>10. ch.lastBucket \in {-1, BucketOf(n)}
  BY <1>2 DEF LastOK
<1> QED
  BY <1>1, <1>2, <1>3, <1>5, <1>6, <1>7, <1>8, <1>9, <1>10 DEF TypeOK

\* The shape of the state; an index that left the cache has no snapshot of
\* its own, and the writes are of indexes that are still there.
THEOREM SegmentPersistType == Spec => []TypeOK
BY ShapeOK, SegmentPersistInvariance, PTL

\* Snapshots are neither lost nor closed twice: the count of them, which
\* lets frames be acked that none covers, is that of those that are held.
THEOREM SnapshotsCounted == Spec => []SnapCount
<1>1. ASSUME IInv PROVE SnapCount
  <2>1. PICK lv \in Int, fresh \in BOOLEAN : Safe(lv, fresh)
    BY <1>1 DEF IInv
  <2>2. /\ Counted(ch, 0) /\ Chan(ch) /\ ch.next \in Nat
        /\ \A j \in DOMAIN ch.idx : j < ch.next
    BY <2>1 DEF Safe, Standing, Good, Order, Chan
  <2> DEFINE h == Cardinality(HeldIn(ch.idx)) + Len(ch.iw) + Len(ch.pend)
  <2>3. h \in Int
    BY <2>2, CountedAre
  <2>4. ch.snapshots = h + 0
    BY <2>2 DEF Counted, Count
  <2> HIDE DEF h
  <2>5. ch.snapshots = h
    BY <2>3, <2>4
  <2> QED
    BY <2>5 DEF h, SnapCount, HeldIn
<1> QED
  BY <1>1, SegmentPersistInvariance, PTL

\* What would be read back has its media in storage, unless the write of the
\* media was given up.
THEOREM NamedMediaSaved == Spec => []NoDangling
<1>1. ASSUME IInv PROVE NoDangling
  <2>1. PICK lv \in Int, fresh \in BOOLEAN : Safe(lv, fresh)
    BY <1>1 DEF IInv
  <2>2. /\ Stored(ch.idx, ch.tl, ch.iw, ch.unsaved, ch.health, store.media,
                  {}, Image(store, fresh))
        /\ StoreOK(store)
    BY <2>1 DEF Safe, Standing, Good
  <2>3. ch.health # "stale" =>
            ReadFrom(store) \subseteq store.media \cup ch.unsaved
    BY <2>2 DEF Stored, Image
  <2>4. Recovered(store).tl \subseteq ReadFrom(store)
    BY <2>2, RecoveredIs
  <2> QED
    BY <2>3, <2>4 DEF NoDangling, Named
<1> QED
  BY <1>1, SegmentPersistInvariance, PTL

\* An index is written, or waits to be, of segments only whose media was
\* saved or given up.
THEOREM IndexWrittenAfterMedia == Spec => []IndexAfterMedia
<1>1. ASSUME IInv PROVE IndexAfterMedia
  <2>1. PICK lv \in Int, fresh \in BOOLEAN : Safe(lv, fresh)
    BY <1>1 DEF IInv
  <2>2. Order(ch.idx, ch.iw, ch.pend, ch.next, lv) /\ Chan(ch)
    BY <2>1 DEF Safe, Standing, Good
  <2>3. ASSUME NEW k \in Pending(ch)
        PROVE  /\ ch.iw # None => k > ch.iw[1].max
               /\ ch.pend # None => k > ch.pend[1].max
    <3>1. k \in PendingIn(ch.idx) /\ k \in Nat
      BY <2>2 DEF Pending, PendingIn, Chan, IdxType
    <3>2. /\ ch.iw # None => ch.iw[1].max \in Nat /\ ch.iw[1].max < k
          /\ ch.pend # None => ch.pend[1].max \in Nat /\ ch.pend[1].max < k
      BY <2>2, <3>1, FileHas, SnapHas DEF Chan, Order, WriteOK
    <3> QED
      BY <3>1, <3>2
  <2> QED
    BY <2>3 DEF IndexAfterMedia
<1> QED
  BY <1>1, SegmentPersistInvariance, PTL

\* No frame is acked that the track did not get from the publisher that is
\* connected.
THEOREM AcksWereReceived == Spec => []AckedReceived
<1>1. ASSUME IInv PROVE AckedReceived
  <2>1. PICK lv \in Int, fresh \in BOOLEAN : Safe(lv, fresh)
    BY <1>1 DEF IInv
  <2> QED
    BY <2>1 DEF Safe, Standing, Good, Known, AckedReceived
<1> QED
  BY <1>1, SegmentPersistInvariance, PTL

\* When nothing is left to do, storage has the past as it was last edited.
THEOREM HistoryIsSaved == Spec => []HistoryKept
<1>1. ASSUME IInv PROVE HistoryKept
  <2>1. PICK lv \in Int, fresh \in BOOLEAN : Safe(lv, fresh)
    BY <1>1 DEF IInv
  <2>2. History(ch.iw, ch.changed, ch.hist, ch.health, Image(store, fresh))
    BY <2>1, SafeStands
  <2>3. Image(store, fresh).index = store.index
    BY DEF Image
  <2> QED
    BY <2>2, <2>3 DEF History, HistoryKept
<1> QED
  BY <1>1, SegmentPersistInvariance, PTL

\* The media of a bucket is written once.
THEOREM BucketsWrittenOnce == Spec => []MediaOnce
<1>1. ASSUME IInv PROVE MediaOnce
  <2>1. PICK lv \in Int, fresh \in BOOLEAN : Safe(lv, fresh)
    BY <1>1 DEF IInv
  <2> QED
    BY <2>1 DEF Safe, Standing, Good, Flight, FlightOK, MediaOnce
<1> QED
  BY <1>1, SegmentPersistInvariance, PTL

\* What a step does to the files: nothing, or the index that is being
\* written is there.
LEMMA StepFiles ==
    ASSUME IInv, [Next]_vars
    PROVE  \/ SameFiles(store, store')
           \/ \E there \in BOOLEAN :
                SameFiles(IndexPut(store, ch.iw[1], there), store')
                /\ (there => ch.iw # None)
<1>0. store \in StoreType
  BY SafeStands DEF IInv
<1>1. CASE store' = store
  BY <1>1 DEF SameFiles
<1>2. ASSUME NEW w, NEW ok \in BOOLEAN, NEW F, MediaDone(w, ok, F)
      PROVE  SameFiles(store, store')
  <2>1. CASE ok
    <3>1. store' = [store EXCEPT !.media =
                        {k \in @ : BucketOf(k) # w.bucket} \cup w.segs]
      BY <1>2, <2>1 DEF MediaDone
    <3> QED
      BY <1>0, <3>1 DEF SameFiles, StoreType
  <2>2. CASE ~ok
    BY <1>2, <2>2 DEF MediaDone, SameFiles
  <2> QED
    BY <2>1, <2>2
<1>3. ASSUME NEW ok \in BOOLEAN, NEW there \in BOOLEAN, NEW F,
             IndexDone(ok, there, F)
      PROVE  SameFiles(IndexPut(store, ch.iw[1], there), store')
             /\ (there => ch.iw # None)
  <2>1. store' = IndexPut(store, ch.iw[1], there) /\ ch.iw # None
    BY <1>3 DEF IndexDone, IndexPut
  <2> QED
    BY <2>1 DEF SameFiles
<1>4. ASSUME NEW M, NEW there \in BOOLEAN, NEW j, Restart(M, there, j)
      PROVE  SameFiles(IndexPut(store, ch.iw[1], there), store')
             /\ (there => ch.iw # None)
  <2> DEFINE put == IndexPut(store, ch.iw[1], there)
  <2>1. PICK med : store' = [put EXCEPT !.media = med]
    BY <1>4 DEF Restart, IndexPut
  <2>2. PutOf(put, there)
    BY <1>4 DEF PutOf, Restart
  <2>3. put \in StoreType
    BY <2>2, PutSafe DEF IInv, StoreOK
  <2> HIDE DEF put
  <2>4. SameFiles(put, store')
    BY <2>1, <2>3 DEF SameFiles, StoreType
  <2> QED
    BY <2>2, <2>4 DEF put, PutOf
<1>5. CASE \/ Connect \/ Disconnect \/ Activate \/ DisposeFrames
           \/ HistoryChanged \/ \E again \in BOOLEAN : ConnectBack(again)
           \/ UNCHANGED vars
  BY <1>1, <1>5 DEF Connect, Disconnect, Activate, DisposeFrames,
                    HistoryChanged, ConnectBack, vars
<1>6. ASSUME NEW exists \in BOOLEAN, NEW j, NEW F, CreateSegment(exists, j, F)
      PROVE  SameFiles(store, store')
  BY <1>6 DEF CreateSegment, SameFiles
<1>7. ASSUME NEW F, ChannelInactive(F) PROVE SameFiles(store, store')
  BY <1>7 DEF ChannelInactive, SameFiles
<1>8. ASSUME NEW j, TimelinesCleanup(j) PROVE SameFiles(store, store')
  BY <1>8 DEF TimelinesCleanup, SameFiles
<1>9. ASSUME NEW n, NEW F, Watermark(n, F) PROVE SameFiles(store, store')
  BY <1>9 DEF Watermark, SameFiles
<1> QED
  BY <1>2, <1>3, <1>4, <1>5, <1>6, <1>7, <1>8, <1>9 DEF Next

\* What would be read back never ends earlier than before, whatever writes
\* fail or arrive late, unless a delta is left over from before a restart
\* that found no index.
THEOREM StorageGoesForward == Spec => StoredForward
<1>1. ASSUME IInv, [Next]_vars
      PROVE  [ch.health # "stale" =>
                    Recovered(store).max <= Recovered(store)'.max]_vars
  <2>1. PICK lv \in Int, fresh \in BOOLEAN : Safe(lv, fresh)
    BY <1>1 DEF IInv
  <2>2. \A st : SameFiles(st, store') => Recovered(store') = Recovered(st)
    BY DEF SameFiles, Recovered, DeltaCounts
  <2>3. CASE SameFiles(store, store')
    <3>1. Recovered(store).max \in Int
      BY <2>1, RecoveredIs DEF Safe
    <3> QED
      BY <2>2, <2>3, <3>1
  <2>4. ASSUME NEW there \in BOOLEAN,
               SameFiles(IndexPut(store, ch.iw[1], there), store'),
               there => ch.iw # None, ch.health # "stale"
        PROVE  Recovered(store).max <= Recovered(store').max
    <3> DEFINE put == IndexPut(store, ch.iw[1], there)
    <3>1. PutOf(put, there)
      BY <2>4 DEF PutOf
    <3> HIDE DEF put
    <3>2. Recovered(store).max <= Recovered(put).max
      BY <2>1, <2>4, <3>1, PutSafe
    <3> QED
      BY <2>2, <2>4, <3>2 DEF put
  <2> QED
    BY <1>1, <2>3, <2>4, StepFiles
<1> QED
  BY <1>1, SegmentPersistInvariance, PTL DEF Spec, StoredForward

=============================================================================
