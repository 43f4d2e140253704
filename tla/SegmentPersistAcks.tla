-------------------------- MODULE SegmentPersistAcks --------------------------
(***************************************************************************)
(* Why a segment that was acked is read back.  Due says, between the calls *)
(* of the code, who holds the snapshot that lets a segment be acked, and   *)
(* that what is written names all the segments up to there.  One lemma for *)
(* each operator shows what becomes of it, one for each action that it is  *)
(* kept; SegmentPersist_proofs is what the channel is known to be.         *)
(***************************************************************************)
EXTENDS SegmentPersist_proofs

(* The parameters of the definitions below:                                *)
(*   sg   how the segments were made, with the one this step makes;        *)
(*   x    segments up to here are excused at the end of the step;          *)
(*   n    no index is as great;                                            *)
(*   a    how far segments may be acked: the end of the last index write   *)
(*        that ended, or could not be started;                             *)
(*   l    a, or the end of the snapshot the operator is about to hand on.  *)

SegType(sg) ==
    DOMAIN sg \subseteq Nat /\ \A k \in DOMAIN sg : sg[k].id \in Nat

\* The segments that the timelines have to have.
Made(c, sg, x) ==
    {k \in DOMAIN sg : /\ sg[k].exists /\ c.excused < k /\ x < k
                       /\ c.cut = 0 \/ c.cut < k}

\* The segments that have to be saved before they are acked.
Owed(c, sg, x) == {k \in Made(c, sg, x) : k \notin c.unsaved /\ c.early < k}

\* The frames f can be acked.
Mine(c, f) == f.set /\ c.connected /\ f.conn = c.conn

\* To ack the frames f acks segments up to m only.
Behind(O, c, sg, f, m) ==
    Mine(c, f) =>
        \A k \in O : sg[k].pub = c.pub /\ sg[k].id <= f.id => k <= m

FramesBehind(O, c, sg) ==
    /\ c.iw # None => Behind(O, c, sg, c.iw[1].frames, c.iw[1].max)
    /\ c.pend # None => Behind(O, c, sg, c.pend[1].frames, c.pend[1].max)
    /\ \A j \in HeldIn(c.idx) :
            Behind(O, c, sg, c.idx[j].snap[1].frames, c.idx[j].snap[1].max)

HeldUpTo(idx, k) == \E j \in HeldIn(idx) : k <= idx[j].snap[1].max

\* A segment that is not acked has a snapshot that will ack it.
Covered(O, n, idx, iw, pend, l) ==
    \A k \in O : k < n =>
        \/ k <= l
        \/ iw # None /\ k <= iw[1].max
        \/ pend # None /\ k <= pend[1].max
        \/ HeldUpTo(idx, k)

\* What is not written yet is after a.
Above(idx, iw, pend, a) ==
    /\ \A j \in PendingIn(idx) : a < j
    /\ iw # None => a < iw[1].max
    /\ pend # None => a < pend[1].max

Reached(O, c, sg, a) ==
    \A k \in O : sg[k].pub = c.pub /\ sg[k].id <= c.acked => k <= a

OwesOf(c, n, a, l, O, sg) ==
    /\ Above(c.idx, c.iw, c.pend, a)
    /\ Covered(O, n, c.idx, c.iw, c.pend, l)
    /\ Reached(O, c, sg, a)
    /\ FramesBehind(O, c, sg)

Owes(c, n, a, l, x, sg) == OwesOf(c, n, a, l, Owed(c, sg, x), sg)

\* Nothing that is promised was truncated before t.
TruncOK(t, e) == t = 0 \/ t <= e

\* The file w names all segments of M that are in its part.
Names(w, M, e) ==
    /\ TruncOK(w.trunc, e)
    /\ \A k \in M : k <= w.max /\ (w.file = "index" \/ w.min <= k) => k \in w.tl

\* The timeline, and what is written of it, has the segments of M.
Lists(c, n, u, M) ==
    /\ TruncOK(c.trunc, c.excused)
    /\ \A j \in HeldIn(c.idx) : TruncOK(c.idx[j].snap[1].trunc, c.excused)
    /\ c.pend # None => TruncOK(c.pend[1].trunc, c.excused)
    /\ c.iw # None => Names(c.iw[1], M, c.excused)
    /\ \A k \in M : k < n \/ k \in u => k \in c.tl

Records(c, n, u, x, sg) ==
    /\ c.min <= c.excused + 1
    /\ \A j \in DOMAIN c.idx : c.idx[j].free => j < c.min
    /\ c.health # "stale" => Lists(c, n, u, Made(c, sg, x))

\* The last index that was written goes as far as a, of which storage has q,
\* and with the delta r.
Level(c, a, r, q) ==
    /\ c.health \in {"ok", "new"} => a <= r
    /\ c.health \in {"ok", "delta"} => c.success = q

Due(c, n, a, l, u, x, sg, r, q) ==
    /\ Owes(c, n, a, l, x, sg)
    /\ Records(c, n, u, x, sg)
    /\ Level(c, a, r, q)

-----------------------------------------------------------------------------
(* A snapshot is handed on *)

\* No segment of O is acked with the frames f.
NoneOf(O, c, sg, f) ==
    Mine(c, f) => \A k \in O : ~(sg[k].pub = c.pub /\ sg[k].id <= f.id)

\* q has snapshots of idx, and those of O that were held are or are up to l.
StillHeld(O, idx, q, l) ==
    /\ HeldIn(q) \subseteq HeldIn(idx)
    /\ \A j \in HeldIn(q) : q[j].snap = idx[j].snap
    /\ PendingIn(q) \subseteq PendingIn(idx)
    /\ \A j \in O : HeldUpTo(idx, j) => j <= l \/ HeldUpTo(q, j)

\* c and d have the same publisher, and the same frames of it.
SamePub(c, d) ==
    /\ d.pub = c.pub /\ d.conn = c.conn /\ d.connected = c.connected
    /\ d.frames = c.frames

\* When no segment that is owed is acked with the frames that are handed on,
\* others are as before.
LEMMA HandedOnOwes ==
    ASSUME NEW c, NEW d, NEW f \in FrameType, NEW n, NEW a, NEW l, NEW m,
           NEW O, NEW P, NEW sg,
           Chan(c), OwesOf(c, n, a, l, O, sg), P \subseteq O,
           HandedOn(c, d, f), SamePub(c, d), NoneOf(P, c, sg, f),
           StillHeld(P, c.idx, d.idx, m), \A j \in P : j <= l => j <= m
    PROVE  OwesOf(d, n, a, m, P, sg)
<1>1. /\ d.iw \in Opt(FileType) /\ d.pend \in Opt(SnapType)
      /\ Reframes(c.iw, d.iw) /\ Reframes(c.pend, d.pend)
      /\ c.iw # None => d.iw[1].frames \in {c.iw[1].frames, f}
      /\ c.pend # None => d.pend[1].frames \in {c.pend[1].frames, f}
  BY HandedOnReframes
<1>2. Above(d.idx, d.iw, d.pend, a)
  <2>1. Above(c.idx, c.iw, c.pend, a)
    BY DEF OwesOf
  <2> QED
    BY <1>1, <2>1 DEF Above, Reframes, StillHeld
<1>3. Covered(P, n, d.idx, d.iw, d.pend, m)
  <2>1. Covered(O, n, c.idx, c.iw, c.pend, l)
    BY DEF OwesOf
  <2> QED
    BY <1>1, <2>1 DEF Covered, Reframes, StillHeld
<1>4. Reached(P, d, sg, a)
  <2>1. Reached(O, c, sg, a)
    BY DEF OwesOf
  <2>2. d.acked = c.acked \/ (Mine(c, f) /\ d.acked = f.id)
    BY DEF HandedOn, Acks, Mine
  <2> QED
    BY <2>1, <2>2 DEF Reached, NoneOf, SamePub
<1>5. FramesBehind(P, d, sg)
  <2>1. \A y, z : Behind(O, c, sg, y, z) => Behind(P, d, sg, y, z)
    BY DEF Behind, Mine, SamePub
  <2>2. \A z : Behind(P, d, sg, f, z)
    BY DEF NoneOf, Behind, Mine, SamePub
  <2>3. FramesBehind(O, c, sg)
    BY DEF OwesOf
  <2> QED
    BY <1>1, <2>1, <2>2, <2>3 DEF FramesBehind, Reframes, StillHeld
<1> QED
  BY <1>2, <1>3, <1>4, <1>5 DEF OwesOf

\* From c to d segments can only be excused.
Fewer(c, d) ==
    /\ c.excused <= d.excused /\ c.cut <= d.cut /\ c.early <= d.early
    /\ c.unsaved \subseteq d.unsaved

\* Then no more segments are owed.
LEMMA FewerOwed ==
    ASSUME NEW c, NEW d, NEW sg, NEW x \in Int, Chan(c), Chan(d),
           SegType(sg), Fewer(c, d)
    PROVE  Made(d, sg, x) \subseteq Made(c, sg, x)
           /\ Owed(d, sg, x) \subseteq Owed(c, sg, x)
BY DEF Made, Owed, Fewer, Chan, SegType

\* Where the snapshots of c and d are.
SameHeld(c, d) ==
    d.idx = c.idx /\ d.iw = c.iw /\ d.pend = c.pend /\ d.acked = c.acked

\* What is owed of more segments is owed of less.
LEMMA OwesLess ==
    ASSUME NEW c, NEW d, NEW n, NEW a, NEW l, NEW O, NEW P, NEW sg,
           OwesOf(c, n, a, l, O, sg), P \subseteq O, SamePub(c, d),
           SameHeld(c, d)
    PROVE  OwesOf(d, n, a, l, P, sg)
<1>1. Above(d.idx, d.iw, d.pend, a) /\ Covered(P, n, d.idx, d.iw, d.pend, l)
      /\ Reached(P, d, sg, a)
  BY DEF OwesOf, SameHeld, SamePub, Covered, Reached
<1>2. \A y, z : Behind(O, c, sg, y, z) => Behind(P, d, sg, y, z)
  BY DEF Behind, Mine, SamePub
<1>3. FramesBehind(P, d, sg)
  BY <1>2 DEF OwesOf, FramesBehind, SameHeld
<1> QED
  BY <1>1, <1>3 DEF OwesOf

\* From c to d nothing is added to what is listed.
Shorter(c, d) ==
    /\ d.trunc = c.trunc /\ c.excused <= d.excused
    /\ HeldIn(d.idx) \subseteq HeldIn(c.idx)
    /\ \A j \in HeldIn(d.idx) : d.idx[j].snap[1].trunc = c.idx[j].snap[1].trunc
    /\ c.pend = None => d.pend = None
    /\ d.pend # None => d.pend[1].trunc = c.pend[1].trunc
    /\ c.iw = None => d.iw = None
    /\ d.iw # None =>
        /\ d.iw[1].trunc = c.iw[1].trunc /\ d.iw[1].tl = c.iw[1].tl
        /\ d.iw[1].max = c.iw[1].max /\ d.iw[1].min = c.iw[1].min
        /\ d.iw[1].file = c.iw[1].file
    /\ d.tl = c.tl

\* The number of a snapshot of the channel.
LEMMA HeldNumbers ==
    ASSUME NEW c, Chan(c)
    PROVE  /\ \A j \in HeldIn(c.idx) :
                /\ j \in Nat /\ c.idx[j].snap[1] \in SnapType
                /\ c.idx[j].snap[1].max \in Nat
                /\ c.idx[j].snap[1].trunc \in Nat
                /\ c.idx[j].snap[1].frames \in FrameType
           /\ c.pend # None => c.pend[1].trunc \in Nat /\ c.pend[1].max \in Nat
           /\ c.iw # None => /\ c.iw[1].trunc \in Nat /\ c.iw[1].max \in Nat
                             /\ c.iw[1].min \in Nat
<1>1. ASSUME NEW j \in HeldIn(c.idx)
      PROVE  /\ j \in Nat /\ c.idx[j].snap[1] \in SnapType
             /\ c.idx[j].snap[1].max \in Nat
             /\ c.idx[j].snap[1].trunc \in Nat
             /\ c.idx[j].snap[1].frames \in FrameType
  <2>1. j \in Nat /\ c.idx[j] \in EntryType /\ c.idx[j].snap # None
    BY DEF Chan, IdxType, HeldIn
  <2> QED
    BY <2>1, EntryHas, SnapHas
<1>2. c.pend # None => c.pend[1].trunc \in Nat /\ c.pend[1].max \in Nat
  BY SnapHas DEF Chan
<1>3. c.iw # None => /\ c.iw[1].trunc \in Nat /\ c.iw[1].max \in Nat
                     /\ c.iw[1].min \in Nat
  BY FileHas DEF Chan
<1> QED
  BY <1>1, <1>2, <1>3

\* Then less is to be listed.
LEMMA ListsLess ==
    ASSUME NEW c, NEW d, NEW n, NEW u, NEW M, NEW N, Chan(c), Chan(d),
           Lists(c, n, u, M), N \subseteq M, Shorter(c, d)
    PROVE  Lists(d, n, u, N)
<1>0. c.excused \in Int /\ d.excused \in Int /\ c.excused <= d.excused
  BY DEF Chan, Shorter
<1>1. \A t \in Nat : TruncOK(t, c.excused) => TruncOK(t, d.excused)
  BY <1>0 DEF TruncOK
<1>2. c.trunc \in Nat
  BY DEF Chan
<1>3. TruncOK(d.trunc, d.excused)
  BY <1>1, <1>2 DEF Lists, Shorter
<1>4. \A j \in HeldIn(d.idx) : TruncOK(d.idx[j].snap[1].trunc, d.excused)
  <2> SUFFICES ASSUME NEW j \in HeldIn(d.idx)
               PROVE  TruncOK(d.idx[j].snap[1].trunc, d.excused)
    OBVIOUS
  <2>1. /\ j \in HeldIn(c.idx)
        /\ d.idx[j].snap[1].trunc = c.idx[j].snap[1].trunc
    BY DEF Shorter
  <2>2. TruncOK(c.idx[j].snap[1].trunc, c.excused)
    BY <2>1 DEF Lists
  <2>3. c.idx[j].snap[1].trunc \in Nat
    BY <2>1, HeldNumbers
  <2> QED
    BY <1>1, <2>1, <2>2, <2>3
<1>5. ASSUME d.pend # None PROVE TruncOK(d.pend[1].trunc, d.excused)
  <2>1. /\ c.pend # None /\ d.pend[1].trunc = c.pend[1].trunc
        /\ TruncOK(c.pend[1].trunc, c.excused)
    BY <1>5 DEF Shorter, Lists
  <2>2. c.pend[1].trunc \in Nat
    BY <2>1, HeldNumbers
  <2> QED
    BY <1>1, <2>1, <2>2
<1>6. ASSUME d.iw # None PROVE Names(d.iw[1], N, d.excused)
  <2>1. /\ c.iw # None /\ d.iw[1].trunc = c.iw[1].trunc
        /\ d.iw[1].tl = c.iw[1].tl /\ d.iw[1].max = c.iw[1].max
        /\ d.iw[1].min = c.iw[1].min /\ d.iw[1].file = c.iw[1].file
    BY <1>6 DEF Shorter
  <2>2. Names(c.iw[1], M, c.excused)
    BY <2>1 DEF Lists
  <2>3. c.iw[1].trunc \in Nat
    BY <2>1, HeldNumbers
  <2>4. TruncOK(d.iw[1].trunc, d.excused)
    BY <1>1, <2>1, <2>2, <2>3 DEF Names
  <2> QED
    BY <2>1, <2>2, <2>4 DEF Names
<1>7. \A k \in N : k < n \/ k \in u => k \in d.tl
  BY DEF Lists, Shorter
<1> QED
  BY <1>3, <1>4, <1>5, <1>6, <1>7 DEF Lists

\* When the frames of no write change, fewer snapshots may be held.
LEMMA DroppedOwes ==
    ASSUME NEW c, NEW d, NEW n, NEW a, NEW l, NEW m, NEW O, NEW P, NEW sg,
           OwesOf(c, n, a, l, O, sg), P \subseteq O, SamePub(c, d),
           d.iw = c.iw, d.pend = c.pend, d.acked = c.acked,
           StillHeld(P, c.idx, d.idx, m), \A j \in P : j <= l => j <= m
    PROVE  OwesOf(d, n, a, m, P, sg)
<1>1. Above(d.idx, d.iw, d.pend, a)
  BY DEF OwesOf, Above, StillHeld
<1>2. Covered(P, n, d.idx, d.iw, d.pend, m)
  BY DEF OwesOf, Covered, StillHeld
<1>3. Reached(P, d, sg, a)
  BY DEF OwesOf, SamePub, Reached
<1>4. \A y, z : Behind(O, c, sg, y, z) => Behind(P, d, sg, y, z)
  BY DEF Behind, Mine, SamePub
<1>5. FramesBehind(P, d, sg)
  BY <1>4 DEF OwesOf, FramesBehind, StillHeld
<1> QED
  BY <1>1, <1>2, <1>3, <1>5 DEF OwesOf

\* Freeing an index excuses the segments its snapshot is about.
LEMMA FreeExcuses ==
    ASSUME NEW c, NEW d, NEW k \in DOMAIN c.idx, NEW sg, NEW x \in Int,
           Chan(c), Chan(d), SegType(sg), IndexFreed(c, d, k),
           NEW n, NEW lv, Order(c.idx, c.iw, c.pend, n, lv),
           c.idx[k].snap # None
    PROVE  \A j \in Owed(d, sg, x) : c.idx[k].snap[1].max < j
<1> DEFINE s == c.idx[k].snap[1]
<1>1. /\ k \in HeldIn(c.idx) /\ s.max \in Nat /\ k \in Nat
      /\ c.idx[k] \in EntryType
  BY HeldNumbers DEF HeldIn, Chan, IdxType
<1>2. /\ k \in PendingIn(c.idx) /\ k <= s.max
      /\ c.idx[k].free => k < s.max
  BY <1>1 DEF Order, HeldOK
<1>3. c.idx[k].persist = "none" /\ c.idx[k].free \in BOOLEAN
  BY <1>1, <1>2 DEF PendingIn, EntryType
<1>4. CASE k < s.max
  <2>1. d.early = Bigger(c.early, s.max)
    BY <1>1, <1>4 DEF IndexFreed
  <2>2. s.max <= d.early
    BY <1>1, <2>1 DEF Bigger, Chan
  <2> QED
    BY <1>1, <2>2 DEF Owed, Made, Chan, SegType
<1>5. CASE ~(k < s.max)
  <2>1. LostBy(c.idx[k]) /\ s.max = k
    BY <1>1, <1>2, <1>3, <1>5 DEF LostBy
  <2>2. d.cut = k /\ k \in d.unsaved
    BY <2>1 DEF IndexFreed
  <2> QED
    BY <1>1, <2>1, <2>2 DEF Owed, Made, SegType
<1> QED
  BY <1>4, <1>5

\* Freeing an index leaves what is owed with those who hold it.
LEMMA IndexFreeOwes ==
    ASSUME NEW c, NEW d, NEW k \in DOMAIN c.idx, NEW sg, NEW x \in Int,
           NEW n \in Int, NEW a \in Int, NEW l \in Int, NEW lv \in Int,
           Chan(c), Chan(d), SegType(sg), IndexFreed(c, d, k),
           Order(c.idx, c.iw, c.pend, n, lv), c.cut <= k,
           Owes(c, n, a, l, x, sg)
    PROVE  Owes(d, n, a, l, x, sg) /\ Fewer(c, d)
<1> DEFINE O == Owed(c, sg, x)
           P == Owed(d, sg, x)
           s == c.idx[k].snap
           kept == FlightAt(c.media, k)
<1>0. k \in Nat /\ IdxType(c.idx) /\ c.idx[k] \in EntryType
  BY DEF Chan, IdxType
<1>1. /\ IdxFreed(c.idx, d.idx, k, kept) /\ SamePub(c, d)
      /\ d.excused = c.excused
  BY DEF IndexFreed, IdxFreed, SamePub, Keeps, Fields
<1>2. Fewer(c, d)
  <2>1. s # None => s[1].max \in Nat
    BY <1>0, EntryHas, SnapHas
  <2>2. c.early <= d.early
    BY <2>1 DEF IndexFreed, Bigger, Chan
  <2>3. c.unsaved \subseteq d.unsaved
    BY DEF IndexFreed
  <2>4. c.cut <= d.cut
    BY <1>0 DEF IndexFreed, Chan
  <2> QED
    BY <1>1, <2>2, <2>3, <2>4 DEF Fewer, Chan
<1>3. P \subseteq O
  BY <1>2, FewerOwed
<1>4. kept \in BOOLEAN
  BY DEF FlightAt
<1>5. /\ HeldIn(d.idx) = HeldIn(c.idx) \ {k}
      /\ PendingIn(d.idx) \subseteq PendingIn(c.idx)
      /\ OneFreed(c.idx, d.idx, k, kept)
  BY <1>0, <1>1, <1>4, IdxFreedSets, IdxFreedDoes
<1>6. \A j \in HeldIn(d.idx) : d.idx[j] = c.idx[j]
  BY <1>5 DEF OneFreed, HeldIn
<1>7. OwesOf(c, n, a, l, O, sg)
  BY DEF Owes
<1>8. CASE s = None
  <2>1. d.iw = c.iw /\ d.pend = c.pend /\ d.acked = c.acked
    BY <1>8 DEF IndexFreed
  <2>2. HeldIn(d.idx) = HeldIn(c.idx)
    BY <1>5, <1>8 DEF HeldIn
  <2>3. StillHeld(P, c.idx, d.idx, l)
    BY <1>5, <1>6, <2>2 DEF StillHeld, HeldUpTo
  <2> HIDE DEF O, P
  <2>4. OwesOf(d, n, a, l, P, sg)
    BY <1>1, <1>3, <1>7, <2>1, <2>3, DroppedOwes
  <2> QED
    BY <1>2, <2>4 DEF Owes, P
<1>9. CASE s # None
  <2>1. HandedOn(c, d, s[1].frames)
    BY <1>9 DEF IndexFreed
  <2>2. k \in HeldIn(c.idx) /\ s[1].frames \in FrameType /\ s[1].max \in Nat
    BY <1>0, <1>9, EntryHas, SnapHas DEF HeldIn
  <2>3. \A j \in P : s[1].max < j
    BY <1>9, FreeExcuses
  <2>4. P \subseteq Nat
    BY DEF Owed, Made, SegType
  <2> HIDE DEF O, P
  <2>5. NoneOf(P, c, sg, s[1].frames)
    <3>1. Behind(O, c, sg, s[1].frames, s[1].max)
      BY <1>7, <2>2 DEF OwesOf, FramesBehind
    <3> QED
      BY <1>3, <2>2, <2>3, <2>4, <3>1 DEF Behind, NoneOf
  <2>6. StillHeld(P, c.idx, d.idx, l)
    <3>1. ASSUME NEW j \in P, HeldUpTo(c.idx, j) PROVE HeldUpTo(d.idx, j)
      <4>1. PICK h \in HeldIn(c.idx) : j <= c.idx[h].snap[1].max
        BY <3>1 DEF HeldUpTo
      <4>2. h # k
        BY <2>2, <2>3, <2>4, <4>1
      <4> QED
        BY <1>5, <1>6, <4>1, <4>2 DEF HeldUpTo
    <3> QED
      BY <1>5, <1>6, <3>1 DEF StillHeld
  <2>7. OwesOf(d, n, a, l, P, sg)
    BY <1>1, <1>3, <1>7, <2>1, <2>2, <2>5, <2>6, HandedOnOwes
  <2> QED
    BY <1>2, <2>7 DEF Owes, P
<1> QED
  BY <1>8, <1>9

\* What is listed stays so when an index is freed.
LEMMA IndexFreedRecords ==
    ASSUME NEW c, NEW d, NEW k \in DOMAIN c.idx, NEW sg, NEW x \in Int,
           NEW n, NEW u, Chan(c), Chan(d), SegType(sg), IndexFreed(c, d, k),
           Fewer(c, d), FlightAt(c.media, k) => k < c.min,
           Records(c, n, u, x, sg)
    PROVE  Records(d, n, u, x, sg)
<1> DEFINE M == Made(c, sg, x)
           N == Made(d, sg, x)
           s == c.idx[k].snap
           kept == FlightAt(c.media, k)
<1>1. /\ IdxFreed(c.idx, d.idx, k, kept)
      /\ d.excused = c.excused /\ d.min = c.min /\ d.health = c.health
      /\ d.trunc = c.trunc /\ d.tl = c.tl
  BY DEF IndexFreed, IdxFreed, Keeps, Fields
<1>2. kept \in BOOLEAN /\ IdxType(c.idx)
  BY DEF FlightAt, Chan
<1>3. /\ HeldIn(d.idx) = HeldIn(c.idx) \ {k}
      /\ OneFreed(c.idx, d.idx, k, kept)
  BY <1>1, <1>2, IdxFreedSets, IdxFreedDoes
<1>4. ASSUME NEW j \in DOMAIN d.idx, d.idx[j].free PROVE j < d.min
  <2>1. CASE j = k
    BY <1>1, <1>3, <1>4, <2>1 DEF OneFreed
  <2>2. CASE j # k
    <3>1. j \in DOMAIN c.idx /\ d.idx[j] = c.idx[j]
      BY <1>3, <2>2 DEF OneFreed
    <3> QED
      BY <1>1, <1>4, <3>1 DEF Records
  <2> QED
    BY <2>1, <2>2
<1>5. d.min <= d.excused + 1
  BY <1>1 DEF Records
<1>6. ASSUME d.health # "stale" PROVE Lists(d, n, u, N)
  <2>1. Lists(c, n, u, M)
    BY <1>1, <1>6 DEF Records
  <2>2. N \subseteq M
    BY FewerOwed
  <2>3. /\ Reframes(c.iw, d.iw) /\ Reframes(c.pend, d.pend)
        /\ c.iw # None =>
            /\ d.iw[1].min = c.iw[1].min /\ d.iw[1].tl = c.iw[1].tl
            /\ d.iw[1].file = c.iw[1].file
    <3>1. CASE s = None
      BY <3>1 DEF IndexFreed, Reframes
    <3>2. CASE s # None
      <4>1. s[1].frames \in FrameType
        BY <3>2, HeldNumbers DEF HeldIn
      <4>2. HandedOn(c, d, s[1].frames)
        BY <3>2 DEF IndexFreed
      <4> QED
        BY <4>1, <4>2, HandedOnReframes
    <3> QED
      BY <3>1, <3>2
  <2>4. \A j \in HeldIn(d.idx) : d.idx[j] = c.idx[j]
    BY <1>3 DEF OneFreed, HeldIn
  <2>5. Shorter(c, d)
    <3>1. c.excused <= d.excused
      BY <1>1 DEF Chan
    <3>2. /\ HeldIn(d.idx) \subseteq HeldIn(c.idx)
          /\ \A j \in HeldIn(d.idx) :
                d.idx[j].snap[1].trunc = c.idx[j].snap[1].trunc
      BY <1>3, <2>4
    <3>3. /\ c.pend = None => d.pend = None
          /\ d.pend # None => d.pend[1].trunc = c.pend[1].trunc
      BY <2>3 DEF Reframes
    <3>4. /\ c.iw = None => d.iw = None
          /\ d.iw # None =>
                /\ d.iw[1].trunc = c.iw[1].trunc /\ d.iw[1].tl = c.iw[1].tl
                /\ d.iw[1].max = c.iw[1].max /\ d.iw[1].min = c.iw[1].min
                /\ d.iw[1].file = c.iw[1].file
      BY <2>3 DEF Reframes
    <3> QED
      BY <1>1, <3>1, <3>2, <3>3, <3>4 DEF Shorter
  <2> QED
    BY <2>1, <2>2, <2>5, ListsLess
<1> QED
  BY <1>4, <1>5, <1>6 DEF Records

-----------------------------------------------------------------------------
(* From one channel to the next *)

\* From c to d no more segments are due, and frames are acked to a publisher
\* that is connected only.
Less(c, d, sg, x) ==
    /\ Made(d, sg, x) \subseteq Made(c, sg, x)
    /\ Owed(d, sg, x) \subseteq Owed(c, sg, x)
    /\ c.excused <= d.excused
    /\ SamePub(c, d)
    /\ c.connected \/ d.acked = c.acked

\* One such step follows the other.
LEMMA LessOn ==
    ASSUME NEW c, NEW d, NEW e, NEW sg, NEW x, Chan(c), Chan(d), Chan(e),
           Less(c, d, sg, x), Less(d, e, sg, x)
    PROVE  Less(c, e, sg, x)
<1>1. c.excused <= e.excused
  BY DEF Less, Chan
<1>2. SamePub(c, e)
  BY DEF Less, SamePub
<1>3. c.connected \/ e.acked = c.acked
  <2>1. d.connected = c.connected
    BY DEF Less, SamePub
  <2> QED
    BY <2>1 DEF Less
<1> QED
  BY <1>1, <1>2, <1>3 DEF Less

\* Segments that are excused are due no more.
LEMMA FewerLess ==
    ASSUME NEW c, NEW d, NEW sg, NEW x \in Int, Chan(c), Chan(d),
           SegType(sg), Fewer(c, d), SamePub(c, d),
           c.connected \/ d.acked = c.acked
    PROVE  Less(c, d, sg, x)
BY FewerOwed DEF Less, Fewer

\* Nothing is listed anew.
LEMMA RecordsLess ==
    ASSUME NEW c, NEW d, NEW n, NEW u, NEW x, NEW sg, Chan(c), Chan(d),
           Records(c, n, u, x, sg), Shorter(c, d),
           Made(d, sg, x) \subseteq Made(c, sg, x), d.min = c.min,
           \A j \in DOMAIN d.idx : d.idx[j].free =>
                j \in DOMAIN c.idx /\ c.idx[j].free,
           d.health = "stale" \/ c.health # "stale"
    PROVE  Records(d, n, u, x, sg)
<1>1. d.min <= d.excused + 1
  BY DEF Records, Shorter, Chan
<1>2. \A j \in DOMAIN d.idx : d.idx[j].free => j < d.min
  BY DEF Records
<1>3. ASSUME d.health # "stale" PROVE Lists(d, n, u, Made(d, sg, x))
  BY <1>3, ListsLess DEF Records
<1> QED
  BY <1>1, <1>2, <1>3 DEF Records

\* The fields that what is due is about.
DueFields ==
    {"idx", "iw", "pend", "acked", "pub", "conn", "connected", "frames",
     "excused", "cut", "early", "unsaved", "trunc", "tl", "min", "health",
     "success"}

\* When others change the same is due.
LEMMA SameDue ==
    ASSUME NEW c, NEW d, NEW F, NEW n, NEW a, NEW l, NEW u, NEW x, NEW sg,
           NEW r, NEW q, Chan(c), Chan(d), Keeps(c, d, F),
           F \cap DueFields = {}, Due(c, n, a, l, u, x, sg, r, q)
    PROVE  Due(d, n, a, l, u, x, sg, r, q) /\ Less(c, d, sg, x)
<1>1. /\ d.idx = c.idx /\ d.iw = c.iw /\ d.pend = c.pend
      /\ d.acked = c.acked /\ d.pub = c.pub /\ d.conn = c.conn
      /\ d.connected = c.connected /\ d.excused = c.excused
      /\ d.frames = c.frames
      /\ d.cut = c.cut /\ d.early = c.early /\ d.unsaved = c.unsaved
      /\ d.trunc = c.trunc /\ d.tl = c.tl /\ d.min = c.min
      /\ d.health = c.health /\ d.success = c.success
  <2>1. \A f \in DueFields : f \in Fields \ F
    BY DEF DueFields, Fields
  <2> QED
    BY <2>1 DEF Keeps, DueFields
<1>2. SamePub(c, d) /\ SameHeld(c, d)
  BY <1>1 DEF SamePub, SameHeld
<1>3. /\ Made(d, sg, x) = Made(c, sg, x) /\ Owed(d, sg, x) = Owed(c, sg, x)
  BY <1>1 DEF Made, Owed
<1>4. c.excused <= d.excused
  BY <1>1 DEF Chan
<1>5. Less(c, d, sg, x)
  BY <1>1, <1>2, <1>3, <1>4 DEF Less
<1>6. Owes(d, n, a, l, x, sg)
  BY <1>2, <1>3, OwesLess DEF Due, Owes
<1>7. Shorter(c, d)
  BY <1>1, <1>4 DEF Shorter
<1>8. Records(d, n, u, x, sg)
  BY <1>1, <1>3, <1>7, RecordsLess DEF Due
<1>9. Level(d, a, r, q)
  BY <1>1 DEF Due, Level
<1> QED
  BY <1>5, <1>6, <1>8, <1>9 DEF Due

\* When no segment is owed anew, and all snapshots stay where they are.
LEMMA LessDue ==
    ASSUME NEW c, NEW d, NEW n, NEW a, NEW l, NEW u, NEW x, NEW y, NEW sg,
           NEW r, NEW q, Chan(c), Chan(d), Due(c, n, a, l, u, x, sg, r, q),
           Made(d, sg, y) \subseteq Made(c, sg, x),
           Owed(d, sg, y) \subseteq Owed(c, sg, x),
           SamePub(c, d), SameHeld(c, d), Records(d, n, u, y, sg),
           d.health = c.health, d.success = c.success
    PROVE  Due(d, n, a, l, u, y, sg, r, q)
<1>1. Owes(d, n, a, l, y, sg)
  BY OwesLess DEF Due, Owes
<1>2. Level(d, a, r, q)
  BY DEF Due, Level
<1> QED
  BY <1>1, <1>2 DEF Due

-----------------------------------------------------------------------------
(* Indexes leave the memory *)

\* What is due stays so when an index is freed.
LEMMA IndexFreeDue ==
    ASSUME NEW c, NEW k \in DOMAIN c.idx, NEW sg, NEW x \in Int,
           NEW n \in Int, NEW a \in Int, NEW l \in Int, NEW lv \in Int,
           NEW u, NEW r, NEW q, Chan(c), Chan(IndexFree(c, k)), SegType(sg),
           Order(c.idx, c.iw, c.pend, n, lv), c.cut <= k,
           FlightAt(c.media, k) => k < c.min, Due(c, n, a, l, u, x, sg, r, q)
    PROVE  LET d == IndexFree(c, k) IN
           /\ Due(d, n, a, l, u, x, sg, r, q) /\ Less(c, d, sg, x)
           /\ d.cut \in {c.cut, k}
<1> DEFINE d == IndexFree(c, k)
<1> SUFFICES Due(d, n, a, l, u, x, sg, r, q) /\ Less(c, d, sg, x)
             /\ d.cut \in {c.cut, k}
  OBVIOUS
<1>1. IF c.noFree THEN d = c ELSE IndexFreed(c, d, k)
  BY IndexFreeDoes
<1>2. Chan(d) /\ k \in Int
  BY DEF Chan, IdxType
<1> HIDE DEF d
<1>3. CASE c.noFree
  <2>1. Less(c, c, sg, x)
    BY DEF Less, SamePub, Chan
  <2> QED
    BY <1>1, <1>3, <2>1
<1>4. CASE ~c.noFree
  <2>1. IndexFreed(c, d, k)
    BY <1>1, <1>4
  <2>2. Owes(d, n, a, l, x, sg) /\ Fewer(c, d)
    BY <1>2, <2>1, IndexFreeOwes DEF Due
  <2>3. Records(d, n, u, x, sg)
    BY <1>2, <2>1, <2>2, IndexFreedRecords DEF Due
  <2>4. d.health = c.health /\ d.success = c.success
    BY <2>1 DEF IndexFreed, Keeps, Fields
  <2>5. Level(d, a, r, q)
    BY <2>4 DEF Due, Level
  <2>6. d.cut \in {c.cut, k}
    BY <2>1 DEF IndexFreed
  <2>7. SamePub(c, d)
    BY <2>1 DEF IndexFreed, SamePub, Keeps, Fields
  <2>8. c.connected \/ d.acked = c.acked
    BY <2>1 DEF IndexFreed, HandedOn, Acks
  <2>9. Less(c, d, sg, x)
    BY <1>2, <2>2, <2>7, <2>8, FewerLess
  <2> QED
    BY <2>2, <2>3, <2>5, <2>6, <2>9 DEF Due
<1> QED
  BY <1>3, <1>4

\* What was cut and is excused may be forgotten.
LEMMA CutDue ==
    ASSUME NEW c, NEW n, NEW a, NEW l, NEW u, NEW x \in Int, NEW sg,
           NEW r, NEW q, Chan(c), Due(c, n, a, l, u, x, sg, r, q),
           c.cut = 0 \/ c.cut <= x \/ c.cut <= c.excused, SegType(sg)
    PROVE  LET d == [c EXCEPT !.cut = 0] IN
           Due(d, n, a, l, u, x, sg, r, q) /\ Less(c, d, sg, x)
<1> DEFINE d == [c EXCEPT !.cut = 0]
<1> SUFFICES Due(d, n, a, l, u, x, sg, r, q) /\ Less(c, d, sg, x)
  OBVIOUS
<1>1. Keeps(c, d, {"cut"}) /\ d.cut = 0
  BY DEF Keeps, Chan, Fields
<1>2. Chan(d)
  BY <1>1 DEF Keeps, Chan, Fields
<1> HIDE DEF d
<1>3. /\ d.idx = c.idx /\ d.iw = c.iw /\ d.pend = c.pend
      /\ d.acked = c.acked /\ d.pub = c.pub /\ d.conn = c.conn
      /\ d.connected = c.connected /\ d.excused = c.excused
      /\ d.frames = c.frames
      /\ d.early = c.early /\ d.unsaved = c.unsaved
      /\ d.trunc = c.trunc /\ d.tl = c.tl /\ d.min = c.min
      /\ d.health = c.health /\ d.success = c.success
  BY <1>1 DEF Keeps, Fields
<1>4. Made(d, sg, x) \subseteq Made(c, sg, x)
  BY <1>1, <1>3 DEF Made, Chan, SegType
<1>5. Owed(d, sg, x) \subseteq Owed(c, sg, x)
  BY <1>3, <1>4 DEF Owed
<1>6. SamePub(c, d) /\ SameHeld(c, d) /\ c.excused <= d.excused
  BY <1>3 DEF SamePub, SameHeld, Chan
<1>7. Shorter(c, d)
  BY <1>3, <1>6 DEF Shorter
<1>8. Records(d, n, u, x, sg)
  BY <1>2, <1>3, <1>4, <1>7, RecordsLess DEF Due
<1>9. Due(d, n, a, l, u, x, sg, r, q)
  BY <1>2, <1>3, <1>4, <1>5, <1>6, <1>8, LessDue
<1> QED
  BY <1>3, <1>4, <1>5, <1>6, <1>9 DEF Less

\* What was cut is one of the indexes K below m.
CutIn(d, K, m) == d.cut = 0 \/ (d.cut \in K /\ d.cut < m)

\* Of c the indexes of K below m were freed.
DueSoFar(c, d, K, m, n, a, l, u, x, sg, r, q) ==
    /\ Due(d, n, a, l, u, x, sg, r, q) /\ Less(c, d, sg, x)
    /\ CutIn(d, K, m)

\* Indexes that are freed are lost with all before them.
FreeableIn(c, K) ==
    /\ K \subseteq DOMAIN c.idx
    /\ \A k \in K : FlightAt(c.media, k) => k < c.min

\* Indexes are freed in order.
LEMMA FreeAllDue ==
    ASSUME NEW c, NEW K, NEW n \in Nat, NEW lv \in Int, NEW p, NEW med,
           NEW u, NEW i, NEW z \in Int, NEW m \in Nat,
           Good(c, n, lv, p, med, u, i), FreeIn(c.idx, c.media, {}),
           Counted(c, z), FreeableIn(c, K), \A k \in K : k < m,
           NEW a \in Int, NEW l \in Int, NEW x \in Int, NEW sg,
           NEW r, NEW q, NEW v, Due(c, n, a, l, v, x, sg, r, q), SegType(sg),
           c.cut = 0
    PROVE  DueSoFar(c, FreeAll(c, K, m), K, m, n, a, l, v, x, sg, r, q)
<1>0. K \subseteq DOMAIN c.idx /\ Chan(c) /\ K \subseteq Nat
  BY DEF Good, FreeableIn, Chan, IdxType
<1>m. m \in Nat
  OBVIOUS
<1>1. PICK h : /\ h[0] = c /\ h[m] = FreeAll(c, K, m)
               /\ \A j \in 0 .. m - 1 :
                    h[j + 1] = IF j \in K THEN IndexFree(h[j], j) ELSE h[j]
  BY ONLY FreeRunGives, <1>m
<1> DEFINE D(e, j) == DueSoFar(c, e, K, j, n, a, l, v, x, sg, r, q)
           S(e, j) == FreedSoFar(c, e, K, j, n, lv, p, med, u, i, z)
           T == {j \in 0 .. m : S(h[j], j) /\ D(h[j], j)}
<1>2. 0 \in T
  <2>1. Freed(c, c, {k \in K : k < 0})
    BY <1>0, FreedNone
  <2>2. S(c, 0)
    BY <2>1 DEF FreedSoFar
  <2>3. Less(c, c, sg, x)
    BY <1>0 DEF Less, SamePub, Chan
  <2>4. D(c, 0)
    BY <2>3 DEF DueSoFar, CutIn
  <2> QED
    BY <1>1, <2>2, <2>4
<1>3. ASSUME NEW j \in 0 .. m - 1, j \in T PROVE j + 1 \in T
  <2> DEFINE d == h[j]
             e == h[j + 1]
             o == j + 1
  <2>1. /\ e = IF j \in K THEN IndexFree(d, j) ELSE d
        /\ S(d, j) /\ D(d, j) /\ j \in Nat /\ o = j + 1 /\ o \in 0 .. m
    BY <1>1, <1>3
  <2> HIDE DEF d, e, o
  <2>2. S(e, o)
    BY <1>0, <2>1, FreedOneMore
  <2>3. Chan(d) /\ Chan(e) /\ Order(d.idx, d.iw, d.pend, n, lv)
    BY <2>1, <2>2 DEF FreedSoFar, Good
  <2>4. CASE j \in K
    <3>1. e = IndexFree(d, j)
      BY <2>1, <2>4
    <3>2. /\ Freed(c, d, {k \in K : k < j})
          /\ Due(d, n, a, l, v, x, sg, r, q) /\ Less(c, d, sg, x)
          /\ CutIn(d, K, j)
      BY <2>1 DEF FreedSoFar, DueSoFar
    <3>3. j \in DOMAIN d.idx
      BY <1>0, <2>1, <2>4, <3>2 DEF Freed
    <3>4. d.media = c.media /\ d.min = c.min
      BY <3>2 DEF Freed, Keeps, FreeFields, Fields
    <3>5. FlightAt(d.media, j) => j < d.min
      BY <2>4, <3>4 DEF FreeableIn
    <3>6. d.cut <= j
      BY <2>1, <2>3, <3>2 DEF CutIn, Chan
    <3>7. /\ Due(e, n, a, l, v, x, sg, r, q) /\ Less(d, e, sg, x)
          /\ e.cut \in {d.cut, j}
      BY <2>3, <3>1, <3>2, <3>3, <3>5, <3>6, IndexFreeDue
    <3>8. Less(c, e, sg, x)
      BY <1>0, <2>3, <3>2, <3>7, LessOn
    <3>9. CutIn(e, K, o)
      BY <2>1, <2>3, <2>4, <3>2, <3>7 DEF CutIn, Chan
    <3>10. D(e, o)
      BY <3>7, <3>8, <3>9 DEF DueSoFar
    <3> QED
      BY <2>1, <2>2, <3>10 DEF e, o
  <2>5. CASE j \notin K
    <3>1. e = d
      BY <2>1, <2>5
    <3>2. CutIn(d, K, o)
      BY <2>1, <2>3 DEF CutIn, DueSoFar, Chan
    <3>3. D(e, o)
      BY <2>1, <3>1, <3>2 DEF DueSoFar
    <3> QED
      BY <2>1, <2>2, <3>3 DEF e, o
  <2> QED
    BY <2>4, <2>5
<1>4. m \in T
  <2> HIDE DEF T
  <2> QED
    BY <1>2, <1>3, UpTo
<1> QED
  BY <1>1, <1>4

\* What was cut is excused at the end of the step.
CutOK(c, x) == c.cut = 0 \/ c.cut <= x

\* FreeEach frees them in order, too.
LEMMA FreeEachDue ==
    ASSUME NEW c, NEW K, NEW n \in Nat, NEW lv \in Int, NEW p, NEW med,
           NEW u, NEW i, NEW z \in Int,
           Good(c, n, lv, p, med, u, i), FreeIn(c.idx, c.media, {}),
           Counted(c, z), FreeableIn(c, K),
           NEW a \in Int, NEW l \in Int, NEW x \in Int, NEW sg,
           NEW r, NEW q, NEW v, Due(c, n, a, l, v, x, sg, r, q), SegType(sg),
           CutOK(c, x)
    PROVE  LET d == FreeEach(c, K) IN
           /\ Due(d, n, a, l, v, x, sg, r, q) /\ Less(c, d, sg, x)
           /\ d.cut = 0 \/ d.cut \in K
<1> DEFINE e == [c EXCEPT !.cut = 0]
           m == c.next + 1
<1>0. Chan(c)
  BY DEF Good
<1>1. /\ Good(e, n, lv, p, med, u, i) /\ FreeIn(e.idx, e.media, {})
      /\ Counted(e, z) /\ Keeps(c, e, {"cut"}) /\ e.cut = 0
  BY CutGood
<1>2. m \in Nat /\ \A k \in K : k < m
  BY DEF Good, Chan, Scalars, Order, IdxType, FreeableIn
<1>3. FreeEach(c, K) = FreeAll(e, K, m)
  BY DEF FreeEach, FreeAll
<1>4. Due(e, n, a, l, v, x, sg, r, q) /\ Less(c, e, sg, x)
  BY <1>0, CutDue DEF CutOK
<1> DEFINE d == FreeAll(e, K, m)
<1> HIDE DEF e, m
<1>5. FreeableIn(e, K)
  BY <1>1 DEF Keeps, Fields, FreeableIn
<1>6. DueSoFar(e, d, K, m, n, a, l, v, x, sg, r, q)
  BY <1>1, <1>2, <1>4, <1>5, FreeAllDue
<1>7. Good(d, n, lv, p, med, u, i)
  BY <1>1, <1>2, <1>5, FreeAllGood DEF FreeableIn
<1> HIDE DEF d
<1>8. Chan(d) /\ Chan(e)
  BY <1>1, <1>7 DEF Good
<1>9. Less(c, d, sg, x)
  BY <1>0, <1>4, <1>6, <1>8, LessOn DEF DueSoFar
<1> QED
  BY <1>3, <1>6, <1>9 DEF d, DueSoFar, CutIn

\* What is cut from the timeline is excused.
LEMMA TruncatedDue ==
    ASSUME NEW c, NEW n, NEW a, NEW l, NEW u, NEW x \in Int, NEW sg,
           NEW r, NEW q, Chan(c), Chan(Truncated(c)), SegType(sg),
           Due(c, n, a, l, u, x, sg, r, q)
    PROVE  LET d == Truncated(c) IN
           /\ Due(d, n, a, l, u, x, sg, r, q) /\ Less(c, d, sg, x)
           /\ d.cut = 0
<1> DEFINE d == Truncated(c)
<1> SUFFICES Due(d, n, a, l, u, x, sg, r, q) /\ Less(c, d, sg, x) /\ d.cut = 0
  OBVIOUS
<1>1. CASE c.cut = 0
  <2>1. d = c
    BY <1>1 DEF Truncated
  <2>2. Less(c, c, sg, x)
    BY DEF Less, SamePub, Chan
  <2> QED
    BY <1>1, <2>1, <2>2
<1>2. CASE c.cut # 0
  <2>1. /\ Keeps(c, d, {"trunc", "cut", "tl", "excused"})
        /\ d.trunc = c.cut /\ d.cut = 0 /\ d.tl = {k \in c.tl : k > c.cut}
        /\ d.excused = Bigger(c.excused, c.cut)
    BY <1>2 DEF Truncated, Keeps, Fields, Chan
  <2>2. Chan(d)
    OBVIOUS
  <2> HIDE DEF d
  <2>3. c.excused <= d.excused /\ c.cut <= d.excused
        /\ (d.excused = c.excused \/ d.excused = c.cut)
    BY <2>1 DEF Bigger, Chan
  <2>4. /\ d.idx = c.idx /\ d.iw = c.iw /\ d.pend = c.pend
        /\ d.acked = c.acked /\ d.pub = c.pub /\ d.conn = c.conn
        /\ d.connected = c.connected /\ d.frames = c.frames /\ d.min = c.min
        /\ d.early = c.early /\ d.unsaved = c.unsaved
        /\ d.health = c.health /\ d.success = c.success
    BY <2>1 DEF Keeps, Fields
  <2>5. Made(d, sg, x) \subseteq Made(c, sg, x)
        /\ \A k \in Made(c, sg, x) : k > c.cut
    BY <1>2, <2>1, <2>3 DEF Made, Chan, SegType
  <2>6. Owed(d, sg, x) \subseteq Owed(c, sg, x)
    BY <2>4, <2>5 DEF Owed
  <2>7. SamePub(c, d) /\ SameHeld(c, d)
    BY <2>4 DEF SamePub, SameHeld
  <2>8. Records(d, n, u, x, sg)
    <3>1. d.min <= d.excused + 1
      BY <2>3, <2>4 DEF Due, Records, Chan
    <3>2. \A j \in DOMAIN d.idx : d.idx[j].free => j < d.min
      BY <2>4 DEF Due, Records
    <3>3. ASSUME d.health # "stale" PROVE Lists(d, n, u, Made(d, sg, x))
      <4> DEFINE M == Made(c, sg, x)
                 N == Made(d, sg, x)
                 e == [d EXCEPT !.trunc = c.trunc, !.tl = c.tl]
      <4>1. Lists(c, n, u, M)
        BY <2>4, <3>3 DEF Due, Records
      <4>2. Keeps(d, e, {"trunc", "tl"}) /\ e.trunc = c.trunc /\ e.tl = c.tl
        BY <2>2 DEF Keeps, Fields, Chan
      <4>3. Chan(e)
        BY <2>2, <4>2 DEF Keeps, Fields, Chan
      <4> HIDE DEF e
      <4>4. /\ e.idx = c.idx /\ e.iw = c.iw /\ e.pend = c.pend
            /\ e.excused = d.excused
        BY <2>4, <4>2 DEF Keeps, Fields
      <4>5. Shorter(c, e)
        BY <2>3, <4>2, <4>4 DEF Shorter
      <4> HIDE DEF M, N
      <4>6. Lists(e, n, u, N)
        BY <2>5, <4>1, <4>3, <4>5, ListsLess DEF M, N
      <4>7. TruncOK(d.trunc, d.excused)
        BY <2>1, <2>3 DEF TruncOK
      <4>8. \A k \in N : k < n \/ k \in u => k \in d.tl
        BY <2>1, <2>5, <4>2, <4>6 DEF Lists, M, N
      <4>9. Lists(d, n, u, N)
        BY <2>4, <4>4, <4>6, <4>7, <4>8 DEF Lists
      <4> QED
        BY <4>9 DEF N
    <3> QED
      BY <3>1, <3>2, <3>3 DEF Records
  <2>9. Due(d, n, a, l, u, x, sg, r, q)
    BY <2>2, <2>4, <2>5, <2>6, <2>7, <2>8, LessDue
  <2> QED
    BY <2>1, <2>3, <2>4, <2>5, <2>6, <2>7, <2>9 DEF Less
<1> QED
  BY <1>1, <1>2

\* Those that are not pending are freed.
LEMMA FreeNonForcedDue ==
    ASSUME NEW c, NEW n \in Nat, NEW lv \in Int, NEW p, NEW med,
           NEW u, NEW i, NEW z \in Int,
           Good(c, n, lv, p, med, u, i), FreeIn(c.idx, c.media, {}),
           Counted(c, z),
           NEW a \in Int, NEW l \in Int, NEW x \in Int, NEW sg,
           NEW r, NEW q, NEW v, Due(c, n, a, l, v, x, sg, r, q), SegType(sg),
           CutOK(c, x)
    PROVE  LET d == FreeNonForced(c) IN
           /\ Due(d, n, a, l, v, x, sg, r, q) /\ Less(c, d, sg, x)
           /\ CutOK(d, x)
<1>0. Chan(c)
  BY DEF Good
<1>1. CASE c.lastReady < ForceMemory
  <2>1. FreeNonForced(c) = c
    BY <1>1 DEF FreeNonForced
  <2>2. Less(c, c, sg, x)
    BY <1>0 DEF Less, SamePub, Chan
  <2> QED
    BY <2>1, <2>2
<1>2. CASE ~(c.lastReady < ForceMemory)
  <2> DEFINE K == {k \in DOMAIN c.idx \ Pending(c) :
                        k <= c.lastReady - ForceMemory}
             e == FreeEach(c, K)
             d == Truncated(e)
  <2>1. FreeNonForced(c) = d
    BY <1>2 DEF FreeNonForced
  <2>2. K \subseteq DOMAIN c.idx /\ K \cap PendingIn(c.idx) = {}
    BY DEF Pending, PendingIn
  <2> HIDE DEF K
  <2>3. FreeableIn(c, K)
    BY <2>2 DEF FreeableIn, Good, Flight, FlightOK, FlightAt
  <2>4. /\ Due(e, n, a, l, v, x, sg, r, q) /\ Less(c, e, sg, x)
    BY <2>3, FreeEachDue
  <2>5. /\ Good(e, n, lv, p, med, u, i) /\ FreeIn(e.idx, e.media, {})
        /\ Counted(e, z)
    BY <2>2, FreeEachGood
  <2> HIDE DEF e
  <2>6. Good(d, n, lv, p, med, u, i)
    BY <2>5, TruncatedGood
  <2>7. Chan(e) /\ Chan(d)
    BY <2>5, <2>6 DEF Good
  <2>8. /\ Due(d, n, a, l, v, x, sg, r, q) /\ Less(e, d, sg, x)
        /\ d.cut = 0
    BY <2>4, <2>7, TruncatedDue
  <2> HIDE DEF d
  <2>9. Less(c, d, sg, x) /\ CutOK(d, x)
    BY <1>0, <2>4, <2>7, <2>8, LessOn DEF CutOK
  <2> QED
    BY <2>1, <2>8, <2>9
<1> QED
  BY <1>1, <1>2

-----------------------------------------------------------------------------
(* A bucket is done *)

\* The snapshot s is handed on: those that it will ack are up to its end.
Passing(c, s, a, x, sg) ==
    /\ a < s.max /\ Behind(Owed(c, sg, x), c, sg, s.frames, s.max)
    /\ c.health # "stale" => TruncOK(s.trunc, c.excused)

\* That stays so.
LEMMA PassingOn ==
    ASSUME NEW c, NEW d, NEW s \in SnapType, NEW a, NEW x, NEW sg,
           Chan(c), Chan(d), Passing(c, s, a, x, sg), Less(c, d, sg, x),
           d.health = c.health
    PROVE  Passing(d, s, a, x, sg)
<1>1. Behind(Owed(d, sg, x), d, sg, s.frames, s.max)
  BY DEF Passing, Less, SamePub, Behind, Mine
<1>2. s.trunc \in Nat
  BY DEF SnapType
<1>3. c.excused \in Int /\ d.excused \in Int /\ c.excused <= d.excused
  BY DEF Chan, Less
<1>4. c.health # "stale" => TruncOK(s.trunc, d.excused)
  BY <1>2, <1>3 DEF Passing, TruncOK
<1> QED
  BY <1>1, <1>4 DEF Passing

\* The last snapshot of K is the one of j, if there is one, and ends at m.
LastHeld(idx, K, a, j, m) ==
    IF HeldIn(idx) \cap K = {} THEN m = a
    ELSE /\ j \in HeldIn(idx) \cap K /\ m = idx[j].snap[1].max
         /\ \A k \in HeldIn(idx) \cap K : k <= j

\* The snapshot of a pending index can be handed on, and ends after those
\* before it.
LEMMA HeldPassing ==
    ASSUME NEW c, NEW j \in HeldIn(c.idx), NEW n, NEW lv, NEW a \in Int,
           NEW l, NEW u, NEW x, NEW sg, NEW r, NEW q, Chan(c),
           Order(c.idx, c.iw, c.pend, n, lv), Due(c, n, a, l, u, x, sg, r, q)
    PROVE  /\ c.idx[j].snap[1] \in SnapType
           /\ c.idx[j].snap[1].max \in Nat /\ j <= c.idx[j].snap[1].max
           /\ a < j
           /\ Passing(c, c.idx[j].snap[1], a, x, sg)
           /\ \A k \in HeldIn(c.idx) :
                k <= j => c.idx[k].snap[1].max <= c.idx[j].snap[1].max
<1> DEFINE s == c.idx[j].snap[1]
<1>1. s \in SnapType /\ s.max \in Nat /\ j \in Nat
  BY HeldNumbers
<1>2. j \in PendingIn(c.idx) /\ HeldOK(c.idx, j, n)
  BY DEF Order
<1>3. j <= s.max
  BY <1>2 DEF HeldOK
<1>4. a < j
  BY <1>2 DEF Due, Owes, OwesOf, Above
<1>5. Behind(Owed(c, sg, x), c, sg, s.frames, s.max)
  BY DEF Due, Owes, OwesOf, FramesBehind
<1>6. c.health # "stale" => TruncOK(s.trunc, c.excused)
  BY DEF Due, Records, Lists
<1>7. Passing(c, s, a, x, sg)
  BY <1>1, <1>3, <1>4, <1>5, <1>6 DEF Passing
<1>8. ASSUME NEW k \in HeldIn(c.idx), k <= j
      PROVE  c.idx[k].snap[1].max <= s.max
  <2>1. HeldOK(c.idx, k, n) /\ k \in Nat /\ c.idx[k].snap[1].max \in Nat
    BY HeldNumbers DEF Order
  <2>2. j <= k \/ c.idx[k].snap[1].max < j
    BY <1>2, <2>1 DEF HeldOK
  <2> QED
    BY <1>1, <1>3, <1>8, <2>1, <2>2
<1> QED
  BY <1>1, <1>3, <1>4, <1>7, <1>8

\* What the indexes K held is with their last snapshot.
LEMMA MovedDue ==
    ASSUME NEW c, NEW d, NEW K, NEW ok \in BOOLEAN, NEW n \in Int, NEW lv,
           NEW a \in Int, NEW u, NEW x \in Int, NEW sg, NEW r, NEW q,
           Chan(c), Chan(d), Order(c.idx, c.iw, c.pend, n, lv),
           K \subseteq DOMAIN c.idx, Moved(c, d, K, ok),
           HeldIn(d.idx) = HeldIn(c.idx) \ K,
           PendingIn(d.idx) = PendingIn(c.idx) \ K,
           Due(c, n, a, a, u, x, sg, r, q), SegType(sg),
           NEW j, NEW m, LastHeld(c.idx, K, a, j, m)
    PROVE  Due(d, n, a, m, u, x, sg, r, q) /\ Less(c, d, sg, x)
           /\ d.cut = c.cut /\ d.health = c.health
<1>1. /\ d.iw = c.iw /\ d.pend = c.pend
      /\ d.acked = c.acked /\ d.pub = c.pub /\ d.conn = c.conn
      /\ d.connected = c.connected /\ d.excused = c.excused
      /\ d.frames = c.frames
      /\ d.cut = c.cut /\ d.early = c.early
      /\ d.trunc = c.trunc /\ d.tl = c.tl /\ d.min = c.min
      /\ d.health = c.health /\ d.success = c.success
  BY DEF Moved, Keeps, Fields
<1>2. c.unsaved \subseteq d.unsaved
  BY DEF Moved
<1>3. Fewer(c, d) /\ SamePub(c, d)
  BY <1>1, <1>2 DEF Fewer, SamePub, Chan
<1>4. Less(c, d, sg, x)
  BY <1>1, <1>3, FewerLess
<1>5. \A k \in HeldIn(d.idx) : d.idx[k] = c.idx[k] /\ k \in HeldIn(c.idx)
  BY DEF Moved, HeldIn
<1>6. Owes(d, n, a, m, x, sg)
  <2> DEFINE O == Owed(c, sg, x)
             P == Owed(d, sg, x)
  <2>1. P \subseteq Nat
    BY DEF Owed, Made, SegType
  <2>2. P \subseteq O
    BY <1>4 DEF Less
  <2>3. OwesOf(c, n, a, a, O, sg)
    BY DEF Due, Owes
  <2> HIDE DEF O, P
  <2>4. \A k \in P : k <= a => k <= m
    <3>1. CASE HeldIn(c.idx) \cap K = {}
      BY <3>1 DEF LastHeld
    <3>2. CASE HeldIn(c.idx) \cap K # {}
      <4>1. j \in HeldIn(c.idx) /\ m = c.idx[j].snap[1].max
        BY <3>2 DEF LastHeld
      <4>2. a < m /\ m \in Nat
        BY <4>1, HeldPassing DEF Passing
      <4> QED
        BY <2>1, <4>2
    <3> QED
      BY <3>1, <3>2
  <2>5. ASSUME NEW k \in P, HeldUpTo(c.idx, k)
        PROVE  k <= m \/ HeldUpTo(d.idx, k)
    <3>1. PICK h \in HeldIn(c.idx) : k <= c.idx[h].snap[1].max
      BY <2>5 DEF HeldUpTo
    <3>2. CASE h \in K
      <4>1. j \in HeldIn(c.idx) /\ m = c.idx[j].snap[1].max /\ h <= j
        BY <3>1, <3>2 DEF LastHeld
      <4>2. c.idx[h].snap[1].max <= m /\ m \in Nat
        BY <3>1, <4>1, HeldPassing
      <4>3. c.idx[h].snap[1].max \in Nat
        BY <3>1, HeldNumbers
      <4> QED
        BY <2>1, <3>1, <4>2, <4>3
    <3>3. CASE h \notin K
      <4>1. h \in HeldIn(d.idx)
        BY <3>1, <3>3
      <4> QED
        BY <1>5, <3>1, <4>1 DEF HeldUpTo
    <3> QED
      BY <3>2, <3>3
  <2>6. StillHeld(P, c.idx, d.idx, m)
    BY <1>5, <2>5 DEF StillHeld
  <2>7. OwesOf(d, n, a, m, P, sg)
    BY <1>1, <1>3, <2>2, <2>3, <2>4, <2>6, DroppedOwes
  <2> QED
    BY <2>7 DEF Owes, P
<1>7. Records(d, n, u, x, sg)
  <2>1. c.excused <= d.excused
    BY <1>1 DEF Chan
  <2>2. Shorter(c, d)
    BY <1>1, <1>5, <2>1 DEF Shorter
  <2>3. ASSUME NEW k \in DOMAIN d.idx, d.idx[k].free
        PROVE  k \in DOMAIN c.idx /\ c.idx[k].free
    BY <2>3 DEF Moved
  <2> QED
    BY <1>1, <1>4, <2>2, <2>3, RecordsLess DEF Due, Less
<1>8. Level(d, a, r, q)
  BY <1>1 DEF Due, Level
<1> QED
  BY <1>1, <1>4, <1>6, <1>7, <1>8 DEF Due

\* The snapshot s goes on in place of those that are held before.
Replaces(c, s, before) ==
    \A k \in before : c.idx[k].snap # None => c.idx[k].snap[1].max <= s.max

\* The snapshot s that is put at k holds what that held.
LEMMA SnapPutDue ==
    ASSUME NEW c, NEW k \in PendingIn(c.idx), NEW s \in SnapType, NEW n \in Int,
           NEW a \in Int, NEW u, NEW x \in Int, NEW sg, NEW r, NEW q,
           Chan(c), Chan(SnapPut(c, k, s)), SegType(sg),
           Due(c, n, a, s.max, u, x, sg, r, q), Passing(c, s, a, x, sg),
           Replaces(c, s, {k})
    PROVE  LET d == SnapPut(c, k, s) IN
           Due(d, n, a, a, u, x, sg, r, q) /\ Less(c, d, sg, x)
           /\ d.cut = c.cut
<1> DEFINE d == SnapPut(c, k, s)
<1> SUFFICES Due(d, n, a, a, u, x, sg, r, q) /\ Less(c, d, sg, x)
             /\ d.cut = c.cut
  OBVIOUS
<1>0. k \in DOMAIN c.idx /\ k \in Nat
  BY DEF PendingIn, Chan, IdxType
<1>1. Keeps(c, d, {"idx", "snapshots"}) /\ PutIn(c.idx, d.idx, k, s)
  BY <1>0, SnapPutDoes
<1>2. /\ Chan(d)
      /\ c.idx[k].snap # None => c.idx[k].snap[1].max <= s.max
  BY DEF Replaces
<1> HIDE DEF d
<1>3. /\ d.iw = c.iw /\ d.pend = c.pend
      /\ d.acked = c.acked /\ d.pub = c.pub /\ d.conn = c.conn
      /\ d.connected = c.connected /\ d.excused = c.excused
      /\ d.frames = c.frames
      /\ d.cut = c.cut /\ d.early = c.early /\ d.unsaved = c.unsaved
      /\ d.trunc = c.trunc /\ d.tl = c.tl /\ d.min = c.min
      /\ d.health = c.health /\ d.success = c.success
  BY <1>1 DEF Keeps, Fields
<1>4. Made(d, sg, x) = Made(c, sg, x) /\ Owed(d, sg, x) = Owed(c, sg, x)
  BY <1>3 DEF Made, Owed
<1>5. c.excused <= d.excused /\ SamePub(c, d)
  BY <1>3 DEF Chan, SamePub
<1>6. Less(c, d, sg, x)
  BY <1>3, <1>4, <1>5 DEF Less
<1>7. /\ DOMAIN d.idx = DOMAIN c.idx
      /\ \A j \in DOMAIN c.idx \ {k} : d.idx[j] = c.idx[j]
      /\ d.idx[k].persist = c.idx[k].persist /\ d.idx[k].free = c.idx[k].free
      /\ d.idx[k].snap # None /\ d.idx[k].snap[1] = s
  BY <1>1 DEF PutIn
<1>8. /\ PendingIn(d.idx) = PendingIn(c.idx)
      /\ k \in HeldIn(d.idx)
      /\ \A j \in HeldIn(c.idx) : j \in HeldIn(d.idx)
      /\ \A j \in HeldIn(d.idx) :
            j = k \/ (j \in HeldIn(c.idx) /\ d.idx[j] = c.idx[j])
      /\ \A j \in DOMAIN d.idx : d.idx[j].free =>
            j \in DOMAIN c.idx /\ c.idx[j].free
  BY <1>0, <1>7 DEF PendingIn, HeldIn
<1>9. s.max \in Nat
  BY DEF SnapType
<1>10. Owes(d, n, a, a, x, sg)
  <2> DEFINE O == Owed(c, sg, x)
  <2>1. OwesOf(c, n, a, s.max, O, sg) /\ O \subseteq Nat
    BY DEF Due, Owes, Owed, Made, SegType
  <2>2. Behind(O, c, sg, s.frames, s.max)
    BY DEF Passing
  <2> HIDE DEF O
  <2>3. Above(d.idx, d.iw, d.pend, a)
    BY <1>3, <1>8, <2>1 DEF OwesOf, Above
  <2>4. Covered(O, n, d.idx, d.iw, d.pend, a)
    <3>1. ASSUME NEW o \in O, o <= s.max PROVE HeldUpTo(d.idx, o)
      BY <1>7, <1>8, <3>1 DEF HeldUpTo
    <3>2. ASSUME NEW o \in O, HeldUpTo(c.idx, o) PROVE HeldUpTo(d.idx, o)
      <4>1. PICK h \in HeldIn(c.idx) : o <= c.idx[h].snap[1].max
        BY <3>2 DEF HeldUpTo
      <4>2. CASE h = k
        <5>1. c.idx[k].snap[1].max <= s.max /\ c.idx[h].snap[1].max \in Nat
          BY <1>2, <4>1, <4>2, HeldNumbers DEF HeldIn
        <5>2. o <= s.max
          BY <1>9, <2>1, <4>1, <4>2, <5>1
        <5> QED
          BY <3>1, <5>2
      <4>3. CASE h # k
        BY <1>7, <1>8, <4>1, <4>3 DEF HeldUpTo, HeldIn
      <4> QED
        BY <4>2, <4>3
    <3> QED
      BY <1>3, <2>1, <3>1, <3>2 DEF OwesOf, Covered
  <2>5. Reached(O, d, sg, a)
    BY <1>3, <2>1 DEF OwesOf, Reached
  <2>6. \A y, m : Behind(O, c, sg, y, m) => Behind(O, d, sg, y, m)
    BY <1>3 DEF Behind, Mine
  <2>7. FramesBehind(O, d, sg)
    BY <1>3, <1>7, <1>8, <2>1, <2>2, <2>6 DEF OwesOf, FramesBehind
  <2>8. OwesOf(d, n, a, a, O, sg)
    BY <2>3, <2>4, <2>5, <2>7 DEF OwesOf
  <2> QED
    BY <1>4, <2>8 DEF Owes, O
<1>11. Records(d, n, u, x, sg)
  <2>1. Records(c, n, u, x, sg)
    BY DEF Due
  <2>2. d.min <= d.excused + 1 /\ \A j \in DOMAIN d.idx : d.idx[j].free => j < d.min
    BY <1>3, <1>8, <2>1 DEF Records
  <2>3. ASSUME d.health # "stale" PROVE Lists(d, n, u, Made(d, sg, x))
    <3>1. Lists(c, n, u, Made(c, sg, x)) /\ TruncOK(s.trunc, c.excused)
      BY <1>3, <2>1, <2>3 DEF Records, Passing
    <3>2. \A j \in HeldIn(d.idx) : TruncOK(d.idx[j].snap[1].trunc, d.excused)
      BY <1>3, <1>7, <1>8, <3>1 DEF Lists
    <3> QED
      BY <1>3, <1>4, <3>1, <3>2 DEF Lists
  <2> QED
    BY <2>2, <2>3 DEF Records
<1>12. Level(d, a, r, q)
  BY <1>3 DEF Due, Level
<1> QED
  BY <1>3, <1>6, <1>10, <1>11, <1>12 DEF Due

\* Some a is as far as segments may be acked.
Dues(c, n, u, x, sg, r, q) ==
    CutOK(c, x) /\ \E a \in Int : a < n /\ Due(c, n, a, a, u, x, sg, r, q)

\* A snapshot that ends with segments that are excused is acked.
LEMMA PassedByDue ==
    ASSUME NEW c, NEW d, NEW s \in SnapType, NEW n \in Int, NEW a \in Int,
           NEW u, NEW x \in Int, NEW sg, NEW r, NEW q, Chan(c), Chan(d),
           SegType(sg), Due(c, n, a, s.max, u, x, sg, r, q),
           Passing(c, s, a, x, sg), HandedOn(c, d, s.frames),
           Keeps(c, d, {"snapshots", "acked", "iw", "pend", "excused"}),
           c.excused <= d.excused, s.max <= d.excused
    PROVE  Due(d, n, a, a, u, x, sg, r, q) /\ Less(c, d, sg, x)
           /\ d.cut = c.cut
<1> DEFINE f == s.frames
<1>1. /\ d.idx = c.idx /\ d.pub = c.pub /\ d.conn = c.conn
      /\ d.connected = c.connected /\ d.frames = c.frames
      /\ d.cut = c.cut /\ d.early = c.early /\ d.unsaved = c.unsaved
      /\ d.trunc = c.trunc /\ d.tl = c.tl /\ d.min = c.min
      /\ d.health = c.health /\ d.success = c.success
  BY DEF Keeps, Fields
<1>2. s.max \in Nat /\ f \in FrameType
  BY DEF SnapType
<1> HIDE DEF f
<1>3. Fewer(c, d) /\ SamePub(c, d) /\ (c.connected \/ d.acked = c.acked)
  <2>1. c.connected \/ d.acked = c.acked
    BY DEF HandedOn, Acks
  <2> QED
    BY <1>1, <2>1 DEF Fewer, SamePub, Chan
<1>4. Less(c, d, sg, x)
  BY <1>3, FewerLess
<1>5. Owes(d, n, a, a, x, sg)
  <2> DEFINE O == Owed(c, sg, x)
             P == Owed(d, sg, x)
  <2>1. OwesOf(c, n, a, s.max, O, sg) /\ Behind(O, c, sg, f, s.max)
    BY DEF Due, Owes, Passing, f
  <2>2. P \subseteq O
    BY <1>4 DEF Less
  <2>3. \A k \in P : k \in Nat /\ s.max < k
    BY <1>2 DEF Owed, Made, SegType, Chan
  <2> HIDE DEF O, P
  <2>4. NoneOf(P, c, sg, f)
    BY <1>2, <2>1, <2>2, <2>3 DEF NoneOf, Behind
  <2>5. StillHeld(P, c.idx, d.idx, a)
    BY <1>1 DEF StillHeld
  <2>6. \A k \in P : k <= s.max => k <= a
    BY <1>2, <2>3
  <2>7. HandedOn(c, d, f)
    BY DEF f
  <2>8. OwesOf(d, n, a, a, P, sg)
    BY <1>2, <1>3, <2>1, <2>2, <2>4, <2>5, <2>6, <2>7, HandedOnOwes
  <2> QED
    BY <2>8 DEF Owes, P
<1>6. Records(d, n, u, x, sg)
  <2>1. /\ Reframes(c.iw, d.iw) /\ Reframes(c.pend, d.pend)
        /\ c.iw # None =>
            /\ d.iw[1].min = c.iw[1].min /\ d.iw[1].tl = c.iw[1].tl
            /\ d.iw[1].file = c.iw[1].file
    BY <1>2, HandedOnReframes DEF f
  <2>2. /\ c.pend = None => d.pend = None
        /\ d.pend # None => d.pend[1].trunc = c.pend[1].trunc
        /\ c.iw = None => d.iw = None
        /\ d.iw # None =>
            /\ d.iw[1].trunc = c.iw[1].trunc /\ d.iw[1].tl = c.iw[1].tl
            /\ d.iw[1].max = c.iw[1].max /\ d.iw[1].min = c.iw[1].min
            /\ d.iw[1].file = c.iw[1].file
    BY <2>1 DEF Reframes
  <2>3. Shorter(c, d)
    BY <1>1, <2>2 DEF Shorter
  <2> QED
    BY <1>1, <1>4, <2>3, RecordsLess DEF Due, Less
<1>7. Level(d, a, r, q)
  BY <1>1 DEF Due, Level
<1> QED
  BY <1>1, <1>4, <1>5, <1>6, <1>7 DEF Due

\* A snapshot waits for the write that is known.
LEMMA WaitsDue ==
    ASSUME NEW c, NEW d, NEW s \in SnapType, NEW n \in Int, NEW a \in Int,
           NEW u, NEW x \in Int, NEW sg, NEW r, NEW q, Chan(c), Chan(d),
           SegType(sg), Due(c, n, a, s.max, u, x, sg, r, q),
           Passing(c, s, a, x, sg),
           Keeps(c, d, {"snapshots", "pend"}), d.pend = Some(s),
           c.pend # None => c.pend[1].max < s.max
    PROVE  Due(d, n, a, a, u, x, sg, r, q) /\ Less(c, d, sg, x)
           /\ d.cut = c.cut
<1>1. /\ d.idx = c.idx /\ d.iw = c.iw /\ d.acked = c.acked
      /\ d.pub = c.pub /\ d.conn = c.conn
      /\ d.connected = c.connected /\ d.excused = c.excused
      /\ d.frames = c.frames
      /\ d.cut = c.cut /\ d.early = c.early /\ d.unsaved = c.unsaved
      /\ d.trunc = c.trunc /\ d.tl = c.tl /\ d.min = c.min
      /\ d.health = c.health /\ d.success = c.success
  BY DEF Keeps, Fields
<1>2. d.pend # None /\ d.pend[1] = s /\ s.max \in Nat
  BY OptSome DEF SnapType
<1>3. Made(d, sg, x) = Made(c, sg, x) /\ Owed(d, sg, x) = Owed(c, sg, x)
  BY <1>1 DEF Made, Owed
<1>4. Less(c, d, sg, x)
  BY <1>1, <1>3 DEF Less, SamePub, Chan
<1>5. Owes(d, n, a, a, x, sg)
  <2> DEFINE O == Owed(c, sg, x)
  <2>1. OwesOf(c, n, a, s.max, O, sg) /\ Behind(O, c, sg, s.frames, s.max)
        /\ O \subseteq Nat
    BY DEF Due, Owes, Passing, Owed, Made, SegType
  <2> HIDE DEF O
  <2>2. Above(d.idx, d.iw, d.pend, a)
    BY <1>1, <1>2, <2>1 DEF OwesOf, Above, Passing
  <2>3. c.pend # None => c.pend[1].max \in Nat
    BY HeldNumbers
  <2>4. Covered(O, n, d.idx, d.iw, d.pend, a)
    BY <1>1, <1>2, <2>1, <2>3 DEF OwesOf, Covered
  <2>5. Reached(O, d, sg, a)
    BY <1>1, <2>1 DEF OwesOf, Reached
  <2>6. \A y, m : Behind(O, c, sg, y, m) => Behind(O, d, sg, y, m)
    BY <1>1 DEF Behind, Mine
  <2>7. FramesBehind(O, d, sg)
    BY <1>1, <1>2, <2>1, <2>6 DEF OwesOf, FramesBehind
  <2>8. OwesOf(d, n, a, a, O, sg)
    BY <2>2, <2>4, <2>5, <2>7 DEF OwesOf
  <2> QED
    BY <1>3, <2>8 DEF Owes, O
<1>6. Records(d, n, u, x, sg)
  <2>1. Records(c, n, u, x, sg)
    BY DEF Due
  <2>2. /\ d.min <= d.excused + 1
        /\ \A j \in DOMAIN d.idx : d.idx[j].free => j < d.min
    BY <1>1, <2>1 DEF Records
  <2>3. ASSUME d.health # "stale" PROVE Lists(d, n, u, Made(d, sg, x))
    <3>1. Lists(c, n, u, Made(c, sg, x)) /\ TruncOK(s.trunc, c.excused)
      BY <1>1, <2>1, <2>3 DEF Records, Passing
    <3> QED
      BY <1>1, <1>2, <1>3, <3>1 DEF Lists
  <2> QED
    BY <2>2, <2>3 DEF Records
<1>7. Level(d, a, r, q)
  BY <1>1 DEF Due, Level
<1> QED
  BY <1>1, <1>4, <1>5, <1>6, <1>7 DEF Due

\* A snapshot that ends before the first segment is dropped.
LEMMA ClosedDue ==
    ASSUME NEW c, NEW d, NEW s \in SnapType, NEW n \in Int, NEW a \in Int,
           NEW u, NEW x \in Int, NEW sg, NEW r, NEW q, Chan(c), Chan(d),
           SegType(sg), Due(c, n, a, s.max, u, x, sg, r, q),
           Passing(c, s, a, x, sg), Keeps(c, d, {"snapshots", "acked"}),
           d.acked = IF Acks(c, s.frames) THEN s.frames.id ELSE c.acked,
           s.max < c.min
    PROVE  Due(d, n, a, a, u, x, sg, r, q) /\ Less(c, d, sg, x)
           /\ d.cut = c.cut
<1>1. /\ d.idx = c.idx /\ d.iw = c.iw /\ d.pend = c.pend
      /\ d.pub = c.pub /\ d.conn = c.conn
      /\ d.connected = c.connected /\ d.excused = c.excused
      /\ d.frames = c.frames
      /\ d.cut = c.cut /\ d.early = c.early /\ d.unsaved = c.unsaved
      /\ d.trunc = c.trunc /\ d.tl = c.tl /\ d.min = c.min
      /\ d.health = c.health /\ d.success = c.success
  BY DEF Keeps, Fields
<1>2. s.max \in Nat
  BY DEF SnapType
<1>3. Made(d, sg, x) = Made(c, sg, x) /\ Owed(d, sg, x) = Owed(c, sg, x)
  BY <1>1 DEF Made, Owed
<1>4. d.acked = c.acked \/ (Mine(c, s.frames) /\ d.acked = s.frames.id)
  BY DEF Acks, Mine
<1>5. Less(c, d, sg, x)
  <2>1. c.connected \/ d.acked = c.acked
    BY <1>4 DEF Mine
  <2> QED
    BY <1>1, <1>3, <2>1 DEF Less, SamePub, Chan
<1>6. Owes(d, n, a, a, x, sg)
  <2> DEFINE O == Owed(c, sg, x)
  <2>1. OwesOf(c, n, a, s.max, O, sg) /\ Behind(O, c, sg, s.frames, s.max)
    BY DEF Due, Owes, Passing
  <2>2. \A k \in O : k \in Nat /\ s.max < k
    <3>1. c.min <= c.excused + 1
      BY DEF Due, Records
    <3> QED
      BY <1>2, <3>1 DEF Owed, Made, SegType, Chan
  <2> HIDE DEF O
  <2>3. Above(d.idx, d.iw, d.pend, a)
    BY <1>1, <2>1 DEF OwesOf
  <2>4. Covered(O, n, d.idx, d.iw, d.pend, a)
    BY <1>1, <1>2, <2>1, <2>2 DEF OwesOf, Covered
  <2>5. Reached(O, d, sg, a)
    BY <1>1, <1>2, <1>4, <2>1, <2>2 DEF OwesOf, Reached, Behind
  <2>6. \A y, m : Behind(O, c, sg, y, m) => Behind(O, d, sg, y, m)
    BY <1>1 DEF Behind, Mine
  <2>7. FramesBehind(O, d, sg)
    BY <1>1, <2>1, <2>6 DEF OwesOf, FramesBehind
  <2>8. OwesOf(d, n, a, a, O, sg)
    BY <2>3, <2>4, <2>5, <2>7 DEF OwesOf
  <2> QED
    BY <1>3, <2>8 DEF Owes, O
<1>7. Records(d, n, u, x, sg)
  <2>1. Shorter(c, d)
    BY <1>1 DEF Shorter, Chan
  <2> QED
    BY <1>1, <1>3, <2>1, RecordsLess DEF Due
<1>8. Level(d, a, r, q)
  BY <1>1 DEF Due, Level
<1> QED
  BY <1>1, <1>5, <1>6, <1>7, <1>8 DEF Due

\* The index that is written names what the timeline has.
LEMMA FileNames ==
    ASSUME NEW c, NEW s \in SnapType, NEW file \in {"index", "delta"},
           NEW lo \in Nat, NEW n \in Int, NEW u, NEW x, NEW sg, Chan(c),
           Lists(c, n, u, Made(c, sg, x)), TruncOK(s.trunc, c.excused),
           c.min <= c.excused + 1, SegType(sg), s.max < n,
           file = "index" => lo = c.min
    PROVE  Names(FileOf(c, s, file, lo), Made(c, sg, x), c.excused)
<1> DEFINE w == FileOf(c, s, file, lo)
           M == Made(c, sg, x)
<1>1. /\ w.file = file /\ w.min = lo /\ w.max = s.max /\ w.trunc = s.trunc
      /\ w.tl = {k \in c.tl : lo <= k /\ k <= s.max}
  BY FileOfGood
<1> HIDE DEF w
<1>2. s.max \in Nat
  BY DEF SnapType
<1>3. ASSUME NEW k \in M, k <= w.max, w.file = "index" \/ w.min <= k
      PROVE  k \in w.tl
  <2>1. k \in Nat /\ c.min <= k
    BY DEF Made, SegType, Chan
  <2>2. lo <= k
    BY <1>1, <1>3, <2>1
  <2>3. k < n
    BY <1>1, <1>2, <1>3, <2>1
  <2>4. k \in c.tl
    BY <2>3 DEF Lists
  <2> QED
    BY <1>1, <1>3, <2>2, <2>4
<1>4. TruncOK(w.trunc, c.excused)
  BY <1>1
<1>5. Names(w, M, c.excused)
  BY <1>3, <1>4 DEF Names
<1> QED
  BY <1>5 DEF w

\* A write is started.
LEMMA WritesDue ==
    ASSUME NEW c, NEW d, NEW s \in SnapType, NEW n \in Int, NEW a \in Int,
           NEW u, NEW x \in Int, NEW sg, NEW r, NEW q, Chan(c), Chan(d),
           SegType(sg), Due(c, n, a, s.max, u, x, sg, r, q),
           Passing(c, s, a, x, sg), c.iw = None, c.pend = None, s.max < n,
           NEW file \in {"index", "delta"}, NEW lo \in Nat,
           file = "index" => lo = c.min,
           Keeps(c, d, {"changed", "iw"}), d.iw = Some(FileOf(c, s, file, lo))
    PROVE  Due(d, n, a, a, u, x, sg, r, q) /\ Less(c, d, sg, x)
           /\ d.cut = c.cut
<1> DEFINE w == FileOf(c, s, file, lo)
<1>1. /\ d.idx = c.idx /\ d.pend = c.pend /\ d.acked = c.acked
      /\ d.pub = c.pub /\ d.conn = c.conn
      /\ d.connected = c.connected /\ d.excused = c.excused
      /\ d.frames = c.frames
      /\ d.cut = c.cut /\ d.early = c.early /\ d.unsaved = c.unsaved
      /\ d.trunc = c.trunc /\ d.tl = c.tl /\ d.min = c.min
      /\ d.health = c.health /\ d.success = c.success
  BY DEF Keeps, Fields
<1>2. /\ w.file = file /\ w.min = lo /\ w.max = s.max /\ w.trunc = s.trunc
      /\ w.frames = s.frames /\ d.iw # None /\ d.iw[1] = w /\ s.max \in Nat
  BY FileOfGood DEF SnapType
<1>3. Made(d, sg, x) = Made(c, sg, x) /\ Owed(d, sg, x) = Owed(c, sg, x)
  BY <1>1 DEF Made, Owed
<1>4. Less(c, d, sg, x)
  BY <1>1, <1>3 DEF Less, SamePub, Chan
<1>5. Records(d, n, u, x, sg)
  <2>1. Records(c, n, u, x, sg)
    BY DEF Due
  <2>2. /\ d.min <= d.excused + 1
        /\ \A j \in DOMAIN d.idx : d.idx[j].free => j < d.min
    BY <1>1, <2>1 DEF Records
  <2>3. ASSUME d.health # "stale" PROVE Lists(d, n, u, Made(d, sg, x))
    <3>1. Lists(c, n, u, Made(c, sg, x)) /\ TruncOK(s.trunc, c.excused)
          /\ c.min <= c.excused + 1
      BY <1>1, <2>1, <2>3 DEF Records, Passing
    <3>2. Names(w, Made(c, sg, x), c.excused)
      BY <3>1, FileNames
    <3> HIDE DEF w
    <3> QED
      BY <1>1, <1>2, <1>3, <3>1, <3>2 DEF Lists
  <2> QED
    BY <2>2, <2>3 DEF Records
<1> HIDE DEF w
<1>6. Owes(d, n, a, a, x, sg)
  <2> DEFINE O == Owed(c, sg, x)
  <2>1. OwesOf(c, n, a, s.max, O, sg) /\ Behind(O, c, sg, s.frames, s.max)
    BY DEF Due, Owes, Passing
  <2> HIDE DEF O
  <2>2. Above(d.idx, d.iw, d.pend, a)
    BY <1>1, <1>2, <2>1 DEF OwesOf, Above, Passing
  <2>3. Covered(O, n, d.idx, d.iw, d.pend, a)
    BY <1>1, <1>2, <2>1 DEF OwesOf, Covered
  <2>4. Reached(O, d, sg, a)
    BY <1>1, <2>1 DEF OwesOf, Reached
  <2>5. \A y, m : Behind(O, c, sg, y, m) => Behind(O, d, sg, y, m)
    BY <1>1 DEF Behind, Mine
  <2>6. FramesBehind(O, d, sg)
    BY <1>1, <1>2, <2>1, <2>5 DEF OwesOf, FramesBehind
  <2>7. OwesOf(d, n, a, a, O, sg)
    BY <2>2, <2>3, <2>4, <2>6 DEF OwesOf
  <2> QED
    BY <1>3, <2>7 DEF Owes, O
<1>7. Level(d, a, r, q)
  BY <1>1 DEF Due, Level
<1> QED
  BY <1>1, <1>4, <1>5, <1>6, <1>7 DEF Due

\* After a failure no segment is said to be saved that was not before.
LEMMA FailedHealth ==
    ASSUME NEW h \in Healths, NEW file \in {"index", "delta"}
    PROVE  /\ Failed(h, file) \notin {"ok", "new"}
           /\ Failed(h, file) = "delta" =>
                h \in {"ok", "delta"} /\ file = "delta"
           /\ Failed(h, file) # "stale" => h # "stale"
BY DEF Failed, Healths

\* It cannot be started: the frames are acked.
LEMMA NotStartedDue ==
    ASSUME NEW c, NEW d, NEW s \in SnapType, NEW n \in Int, NEW a \in Int,
           NEW u, NEW x \in Int, NEW sg, NEW r, NEW q, Chan(c), Chan(d),
           SegType(sg), Due(c, n, a, s.max, u, x, sg, r, q),
           Passing(c, s, a, x, sg), c.iw = None, c.pend = None,
           \A j \in PendingIn(c.idx) : s.max < j,
           NEW file \in {"index", "delta"},
           Keeps(c, d, {"changed", "health", "snapshots", "acked"}),
           d.health = Failed(c.health, file),
           d.acked = IF Acks(c, s.frames) THEN s.frames.id ELSE c.acked
    PROVE  Due(d, n, s.max, s.max, u, x, sg, r, q) /\ Less(c, d, sg, x)
           /\ d.cut = c.cut
<1> DEFINE m == s.max
<1>1. /\ d.idx = c.idx /\ d.iw = c.iw /\ d.pend = c.pend
      /\ d.pub = c.pub /\ d.conn = c.conn
      /\ d.connected = c.connected /\ d.excused = c.excused
      /\ d.frames = c.frames
      /\ d.cut = c.cut /\ d.early = c.early /\ d.unsaved = c.unsaved
      /\ d.trunc = c.trunc /\ d.tl = c.tl /\ d.min = c.min
      /\ d.success = c.success
  BY DEF Keeps, Fields
<1>2. m \in Nat
  BY DEF SnapType
<1>3. Made(d, sg, x) = Made(c, sg, x) /\ Owed(d, sg, x) = Owed(c, sg, x)
  BY <1>1 DEF Made, Owed
<1>4. d.acked = c.acked \/ (Mine(c, s.frames) /\ d.acked = s.frames.id)
  BY DEF Acks, Mine
<1>5. Less(c, d, sg, x)
  <2>1. c.connected \/ d.acked = c.acked
    BY <1>4 DEF Mine
  <2> QED
    BY <1>1, <1>3, <2>1 DEF Less, SamePub, Chan
<1>6. Owes(d, n, m, m, x, sg)
  <2> DEFINE O == Owed(c, sg, x)
  <2>1. OwesOf(c, n, a, m, O, sg) /\ Behind(O, c, sg, s.frames, m) /\ a < m
    BY DEF Due, Owes, Passing
  <2>2. O \subseteq Nat
    BY DEF Owed, Made, SegType
  <2> HIDE DEF O, m
  <2>3. Above(d.idx, d.iw, d.pend, m)
    BY <1>1 DEF Above, m
  <2>4. Covered(O, n, d.idx, d.iw, d.pend, m)
    BY <1>1, <2>1 DEF OwesOf
  <2>5. Reached(O, d, sg, m)
    BY <1>1, <1>2, <1>4, <2>1, <2>2 DEF OwesOf, Reached, Behind
  <2>6. \A y, z : Behind(O, c, sg, y, z) => Behind(O, d, sg, y, z)
    BY <1>1 DEF Behind, Mine
  <2>7. FramesBehind(O, d, sg)
    BY <1>1, <2>1, <2>6 DEF OwesOf, FramesBehind
  <2>8. OwesOf(d, n, m, m, O, sg)
    BY <2>3, <2>4, <2>5, <2>7 DEF OwesOf
  <2> QED
    BY <1>3, <2>8 DEF Owes, O
<1>7. Records(d, n, u, x, sg)
  <2>1. Shorter(c, d)
    BY <1>1 DEF Shorter, Chan
  <2>2. d.health = "stale" \/ c.health # "stale"
    BY FailedHealth DEF Chan
  <2> QED
    BY <1>1, <1>3, <2>1, <2>2, RecordsLess DEF Due
<1>8. Level(d, m, r, q)
  <2>1. d.health \notin {"ok", "new"}
        /\ (d.health = "delta" => c.health \in {"ok", "delta"})
    BY FailedHealth DEF Chan
  <2> QED
    BY <1>1, <2>1 DEF Due, Level
<1> QED
  BY <1>1, <1>5, <1>6, <1>7, <1>8 DEF Due

\* From c to d it is known what is due.
Leaves(c, d, n, u, x, sg, r, q) ==
    Dues(d, n, u, x, sg, r, q) /\ Less(c, d, sg, x)

\* A snapshot that may be written is written, waits or is dropped.
LEMMA SnapWriteDue ==
    ASSUME NEW c, NEW s, NEW n \in Nat, NEW lv \in Int, NEW p, NEW med,
           NEW v, NEW i, Good(c, n, lv, p, med, v, i), Counted(c, 1),
           Writable(c, s, n, lv), NEW a \in Int, NEW u, NEW x \in Int,
           NEW sg, NEW r, NEW q, SegType(sg), CutOK(c, x),
           Due(c, n, a, s.max, u, x, sg, r, q), Passing(c, s, a, x, sg)
    PROVE  Leaves(c, SnapWrite(c, s), n, u, x, sg, r, q)
<1> DEFINE d == SnapWrite(c, s)
<1> SUFFICES Leaves(c, d, n, u, x, sg, r, q)
  OBVIOUS
<1>0. Good(d, n, lv, p, med, v, i)
  BY SnapWriteGood
<1>1. Chan(c) /\ Chan(d) /\ s \in SnapType /\ s.max \in Nat
  BY <1>0 DEF Good, Writable, SnapType
<1>2. SnapWritten(c, d, s)
  BY <1>1, SnapWriteDoes
<1>3. /\ s.max < n /\ a < s.max /\ c.success \in Nat /\ c.min \in Nat
      /\ \A j \in PendingIn(c.idx) : s.max < j
      /\ c.pend # None => c.pend[1].max < s.max
      /\ c.iw = None => c.pend = None
  BY <1>1 DEF Good, Writable, WriteOK, Order, Passing, Chan
<1> HIDE DEF d
<1>4. ASSUME d.cut = c.cut, Less(c, d, sg, x), NEW b \in Int, b < n,
             Due(d, n, b, b, u, x, sg, r, q)
      PROVE  Leaves(c, d, n, u, x, sg, r, q)
  BY <1>4 DEF Leaves, Dues, CutOK
<1>5. a < n
  BY <1>1, <1>3
<1>6. ASSUME NEW file \in {"index", "delta"}, NEW lo \in Nat,
             file = "index" => lo = c.min, c.iw = None,
             Started(c, d, s, file, lo)
      PROVE  Leaves(c, d, n, u, x, sg, r, q)
  <2>1. CASE Keeps(c, d, {"changed", "iw"})
             /\ d.iw = Some(FileOf(c, s, file, lo))
    <3>1. Due(d, n, a, a, u, x, sg, r, q) /\ Less(c, d, sg, x)
          /\ d.cut = c.cut
      BY <1>1, <1>3, <1>6, <2>1, WritesDue
    <3> QED
      BY <1>4, <1>5, <3>1
  <2>2. CASE /\ Keeps(c, d, {"changed", "health", "snapshots", "acked"})
             /\ d.health = Failed(c.health, file)
             /\ d.acked = IF Acks(c, s.frames) THEN s.frames.id ELSE c.acked
    <3>1. Due(d, n, s.max, s.max, u, x, sg, r, q) /\ Less(c, d, sg, x)
          /\ d.cut = c.cut
      BY <1>1, <1>3, <1>6, <2>2, NotStartedDue
    <3> QED
      BY <1>1, <1>3, <1>4, <3>1
  <2> QED
    BY <1>6, <2>1, <2>2 DEF Started
<1>7. CASE /\ c.iw # None /\ Keeps(c, d, {"snapshots", "pend"})
           /\ d.pend = Some(s)
  <2>1. Due(d, n, a, a, u, x, sg, r, q) /\ Less(c, d, sg, x) /\ d.cut = c.cut
    BY <1>1, <1>3, <1>7, WaitsDue
  <2> QED
    BY <1>4, <1>5, <2>1
<1>8. CASE s.max < c.min /\ Closed(c, d, s.frames, TRUE)
  <2>0. /\ s.max < c.min /\ Keeps(c, d, {"snapshots", "acked"})
        /\ d.acked = IF Acks(c, s.frames) THEN s.frames.id ELSE c.acked
    BY <1>8 DEF Closed
  <2>1. Due(d, n, a, a, u, x, sg, r, q) /\ Less(c, d, sg, x) /\ d.cut = c.cut
    BY <1>1, <2>0, ClosedDue
  <2> QED
    BY <1>4, <1>5, <2>1
<1>9. CASE c.iw = None /\ Started(c, d, s, "delta", c.success + 1)
  <2>1. c.success + 1 \in Nat
    BY <1>3
  <2> QED
    BY <1>6, <1>9, <2>1
<1>10. CASE c.iw = None /\ Started(c, d, s, "index", c.min)
  BY <1>3, <1>6, <1>10
<1> QED
  BY <1>2, <1>7, <1>8, <1>9, <1>10 DEF SnapWritten

\* The last snapshot of a bucket goes on.
LEMMA SnapPassedDue ==
    ASSUME NEW c, NEW s, NEW before, NEW hi, NEW ok \in BOOLEAN,
           NEW n \in Nat, NEW lv \in Int, NEW p, NEW med, NEW v, NEW i,
           Good(c, n, lv, p, med, v, i), FreeIn(c.idx, c.media, {}),
           Counted(c, 1), Passable(c, s, before, n, lv),
           NEW a \in Int, NEW u, NEW x \in Int,
           NEW sg, NEW r, NEW q, SegType(sg), CutOK(c, x),
           Due(c, n, a, s.max, u, x, sg, r, q), Passing(c, s, a, x, sg),
           Replaces(c, s, before)
    PROVE  Leaves(c, SnapPassed(c, s, before, hi, ok), n, u, x, sg, r, q)
<1> DEFINE d == SnapPassed(c, s, before, hi, ok)
<1> SUFFICES Leaves(c, d, n, u, x, sg, r, q)
  OBVIOUS
<1>0. /\ Chan(c) /\ s \in SnapType /\ s.max \in Nat /\ c.excused \in Int
      /\ a < n
  BY DEF Good, Passable, Chan, SnapType, Passing
<1>1. Good(d, n, lv, p, med, v, i) /\ Chan(d)
  BY SnapPassedGood DEF Passed, Good
<1>2. ASSUME d.cut = c.cut, Less(c, d, sg, x), Due(d, n, a, a, u, x, sg, r, q)
      PROVE  Leaves(c, d, n, u, x, sg, r, q)
  BY <1>0, <1>2 DEF Leaves, Dues, CutOK
<1>3. CASE ~ok /\ s.max < hi
  <2> DEFINE e == SnapAck(c, s)
  <2>1. d = [e EXCEPT !.excused = Bigger(@, s.max)]
    BY <1>3 DEF SnapPassed
  <2>2. SnapAcked(c, e, s.frames)
    BY <1>0, SnapAckDoes
  <2> HIDE DEF e
  <2>3. Keeps(e, d, {"excused"}) /\ d.excused = Bigger(e.excused, s.max)
    BY <2>1, <2>2 DEF SnapAcked, Keeps, Fields
  <2> HIDE DEF d
  <2>4. /\ d.snapshots = e.snapshots /\ d.pend = e.pend /\ d.iw = e.iw
        /\ d.acked = e.acked /\ e.excused = c.excused
    BY <2>2, <2>3 DEF SnapAcked, Keeps, Fields
  <2>5. HandedOn(c, d, s.frames)
    BY <2>2, <2>4 DEF SnapAcked, HandedOn
  <2>6. Keeps(c, d, {"snapshots", "acked", "iw", "pend", "excused"})
    BY <2>2, <2>3 DEF SnapAcked, Keeps, Fields
  <2>7. c.excused <= d.excused /\ s.max <= d.excused
    BY <1>0, <2>3, <2>4 DEF Bigger
  <2>8. Due(d, n, a, a, u, x, sg, r, q) /\ Less(c, d, sg, x) /\ d.cut = c.cut
    BY <1>0, <1>1, <2>5, <2>6, <2>7, PassedByDue
  <2> QED
    BY <1>2, <2>8
<1>4. CASE ~(~ok /\ s.max < hi) /\ before = {}
  <2>1. d = SnapWrite(c, s)
    BY <1>4 DEF SnapPassed
  <2>2. Writable(c, s, n, lv)
    BY <1>4 DEF Passable, Writable, WriteOK
  <2> HIDE DEF d
  <2> QED
    BY <2>1, <2>2, SnapWriteDue
<1>5. CASE ~(~ok /\ s.max < hi) /\ before # {}
  <2> DEFINE k == Max(before)
  <2>1. d = SnapPut(c, k, s)
    BY <1>5 DEF SnapPassed, SnapPut
  <2>2. before \subseteq 0 .. n
    BY DEF Passable, PendingIn, Good, Order, Chan, IdxType
  <2>3. k \in before
    BY <1>5, <2>2, MaxGreatest
  <2> HIDE DEF k, d
  <2>4. k \in PendingIn(c.idx) /\ Replaces(c, s, {k})
    BY <2>3 DEF Passable, Replaces
  <2> DEFINE e == SnapPut(c, k, s)
  <2>5. Chan(e)
    BY <1>1, <2>1
  <2>6. Due(e, n, a, a, u, x, sg, r, q) /\ Less(c, e, sg, x) /\ e.cut = c.cut
    BY <1>0, <2>4, <2>5, SnapPutDue
  <2> HIDE DEF e
  <2>7. Due(d, n, a, a, u, x, sg, r, q) /\ Less(c, d, sg, x) /\ d.cut = c.cut
    BY <2>1, <2>6 DEF e
  <2> QED
    BY <1>2, <2>7
<1> QED
  BY <1>3, <1>4, <1>5

\* The indexes of a bucket are done.
LEMMA PersistedKeysDue ==
    ASSUME NEW c, NEW K, NEW b, NEW hi, NEW ok, NEW X,
           NEW n \in Nat, NEW lv \in Int, NEW p, NEW med, NEW v, NEW i,
           Good(c, n, lv, p, med, v, i), Counted(c, 0),
           Ends(c, K, b, ok, X, p, med), NEW u, NEW x \in Int, NEW sg,
           NEW r, NEW q, SegType(sg), Dues(c, n, u, x, sg, r, q)
    PROVE  Leaves(c, PersistedKeys(c, K, hi, ok), n, u, x, sg, r, q)
<1> DEFINE snaps == {k \in K : c.idx[k].snap # None}
           before == {k \in Pending(c) : k < Min(K)}
           j == Max(snaps)
           s == c.idx[j].snap[1]
           e == MoveToDone(c, K, snaps, ok)
           g == FreeNonForced(e)
           d == PersistedKeys(c, K, hi, ok)
<1> SUFFICES Leaves(c, d, n, u, x, sg, r, q)
  OBVIOUS
<1>1. d = IF snaps = {} THEN g ELSE SnapPassed(g, s, before, hi, ok)
  BY DEF PersistedKeys
<1>2. /\ snaps = HeldIn(c.idx) \cap K /\ K \subseteq DOMAIN c.idx
      /\ before = {k \in PendingIn(c.idx) : k < Min(K)} /\ ok \in BOOLEAN
  BY DEF HeldIn, Ends, InBucket, Pending, PendingIn
<1>3. snaps # {} => j \in snaps /\ \A k \in snaps : k <= j
  <2>1. snaps \subseteq 0 .. n
    BY <1>2 DEF Good, Order, Chan, IdxType
  <2> HIDE DEF snaps
  <2> QED
    BY <2>1, MaxGreatest
<1>4. PICK a \in Int : a < n /\ Due(c, n, a, a, u, x, sg, r, q)
  BY DEF Dues
<1>5. CutOK(c, x) /\ Chan(c) /\ Order(c.idx, c.iw, c.pend, n, lv)
  BY DEF Dues, Good
<1> DEFINE m == IF snaps = {} THEN a ELSE s.max
<1> HIDE DEF snaps, before, j, d, e
<1>6. /\ Good(e, n, lv, p, med, v, i) /\ FreeIn(e.idx, e.media, {})
      /\ Moved(c, e, K, ok) /\ PendingIn(e.idx) = PendingIn(c.idx) \ K
      /\ snaps = {} => Counted(e, 0)
      /\ snaps # {} => Counted(e, 1)
  <2>1. Emptied(c, e, K, ok, snaps, n, lv, p, med, v, i)
    BY <1>2, MoveToDoneGood DEF e
  <2> QED
    BY <2>1 DEF Emptied
<1>7. Chan(e) /\ e.snapshots \in Int
  BY <1>6 DEF Good, Chan
<1>8. HeldIn(e.idx) = HeldIn(c.idx) \ K
  BY <1>6, <1>7, MovedGood
<1>9. LastHeld(c.idx, K, a, j, m)
  BY <1>2, <1>3 DEF LastHeld
<1>10. snaps # {} => s.max \in Nat
  BY <1>2, <1>3, <1>5, HeldNumbers
<1>11. m \in Int
  BY <1>10
<1> HIDE DEF m
<1>12. /\ Due(e, n, a, m, u, x, sg, r, q) /\ Less(c, e, sg, x)
       /\ e.cut = c.cut /\ e.health = c.health
  <2>1. /\ Chan(c) /\ Chan(e) /\ Order(c.idx, c.iw, c.pend, n, lv)
        /\ K \subseteq DOMAIN c.idx /\ Moved(c, e, K, ok)
        /\ HeldIn(e.idx) = HeldIn(c.idx) \ K
        /\ PendingIn(e.idx) = PendingIn(c.idx) \ K
        /\ Due(c, n, a, a, u, x, sg, r, q) /\ LastHeld(c.idx, K, a, j, m)
        /\ SegType(sg) /\ ok \in BOOLEAN /\ n \in Int /\ a \in Int
        /\ x \in Int
    BY <1>2, <1>4, <1>5, <1>6, <1>7, <1>8, <1>9
  <2> QED
    BY ONLY <2>1, MovedDue
<1>13. CutOK(e, x)
  BY <1>5, <1>12 DEF CutOK
<1>14. ASSUME NEW z \in Int, Counted(e, z)
       PROVE  /\ Good(g, n, lv, p, med, v, i) /\ FreeIn(g.idx, g.media, {})
              /\ Counted(g, z) /\ NonForced(e, g)
              /\ Due(g, n, a, m, u, x, sg, r, q) /\ Less(e, g, sg, x)
              /\ CutOK(g, x)
  BY <1>6, <1>11, <1>12, <1>13, <1>14, FreeNonForcedGood, FreeNonForcedDue
<1> HIDE DEF g
<1>15. CASE snaps = {}
  <2>1. /\ Good(g, n, lv, p, med, v, i)
        /\ Due(g, n, a, m, u, x, sg, r, q) /\ Less(e, g, sg, x)
        /\ CutOK(g, x)
    BY <1>6, <1>14, <1>15
  <2>2. Less(c, g, sg, x)
    BY <1>5, <1>7, <1>12, <2>1, LessOn DEF Good
  <2>3. m = a
    BY <1>15 DEF m
  <2>4. Leaves(c, g, n, u, x, sg, r, q)
    BY <1>4, <2>1, <2>2, <2>3 DEF Leaves, Dues
  <2> QED
    BY <1>1, <1>15, <2>4
<1>16. CASE snaps # {}
  <2>1. /\ Good(g, n, lv, p, med, v, i) /\ FreeIn(g.idx, g.media, {})
        /\ Counted(g, 1) /\ NonForced(e, g)
        /\ Due(g, n, a, m, u, x, sg, r, q) /\ Less(e, g, sg, x)
        /\ CutOK(g, x)
    BY <1>6, <1>14, <1>16
  <2>2. Chan(g) /\ g.health = e.health
    BY <2>1 DEF Good, NonForced, Keeps, TrimFields, FreeFields, Fields
  <2>3. j \in HeldIn(c.idx) /\ j \in K
    BY <1>2, <1>3, <1>16
  <2>4. /\ s \in SnapType /\ s.max \in Nat /\ Passing(c, s, a, x, sg)
        /\ \A k \in HeldIn(c.idx) : k <= j => c.idx[k].snap[1].max <= s.max
    BY <1>4, <1>5, <2>3, HeldPassing
  <2>5. m = s.max
    BY <1>16 DEF m
  <2> HIDE DEF s
  <2>6. Passing(g, s, a, x, sg)
    <3>1. Passing(e, s, a, x, sg)
      BY <1>5, <1>7, <1>12, <2>4, PassingOn
    <3> QED
      BY <1>7, <2>1, <2>2, <2>4, <3>1, PassingOn
  <2>7. Passable(g, s, before, n, lv)
    BY <1>2, <1>6, <2>1, <2>3, LastSnapPassable DEF s
  <2>8. Replaces(g, s, before)
    <3> SUFFICES ASSUME NEW k \in before, g.idx[k].snap # None
                 PROVE  g.idx[k].snap[1].max <= s.max
      BY DEF Replaces
    <3>1. K \subseteq Nat /\ K # {}
      BY <1>2, <1>5, <2>3 DEF Chan, IdxType
    <3>2. \A h \in K : Min(K) <= h /\ Min(K) \in Nat
      BY <3>1, MinLeast
    <3>3. k \in PendingIn(c.idx) /\ k < Min(K) /\ k \in Nat
      BY <1>2, <1>5 DEF PendingIn, Chan, IdxType
    <3>4. k \notin K /\ k <= j
      BY <2>3, <3>1, <3>2, <3>3
    <3>5. e.idx[k] = c.idx[k] /\ k \in PendingIn(e.idx)
      BY <1>6, <3>3, <3>4 DEF Moved, PendingIn
    <3>6. g.idx[k] = c.idx[k]
      BY <2>1, <3>5 DEF NonForced
    <3>7. k \in HeldIn(c.idx)
      BY <3>3, <3>6 DEF HeldIn, PendingIn
    <3> QED
      BY <2>4, <3>4, <3>6, <3>7
  <2>9. Leaves(g, SnapPassed(g, s, before, hi, ok), n, u, x, sg, r, q)
    BY <1>2, <1>4, <2>1, <2>4, <2>5, <2>6, <2>7, <2>8, SnapPassedDue
  <2>10. Leaves(g, d, n, u, x, sg, r, q)
    BY <1>1, <1>16, <2>9
  <2>11. Good(d, n, lv, p, med, v, i)
    BY <1>1, <1>2, <1>16, <2>1, <2>7, SnapPassedGood DEF Passed
  <2>12. Chan(d)
    BY <2>11 DEF Good
  <2>13. Less(c, d, sg, x)
    <3>1. Less(c, g, sg, x)
      BY <1>5, <1>7, <1>12, <2>1, <2>2, LessOn
    <3> QED
      BY <1>5, <2>2, <2>10, <2>12, <3>1, LessOn DEF Leaves
  <2> QED
    BY <2>10, <2>13 DEF Leaves
<1> QED
  BY <1>15, <1>16

\* Nothing is less due when no field that this is about changes.
LEMMA LeavesSame ==
    ASSUME NEW c, NEW d, NEW F, NEW n, NEW u, NEW x, NEW sg, NEW r, NEW q,
           Chan(c), Chan(d), Keeps(c, d, F), F \cap DueFields = {},
           Dues(c, n, u, x, sg, r, q)
    PROVE  Leaves(c, d, n, u, x, sg, r, q)
<1>1. PICK a \in Int : a < n /\ Due(c, n, a, a, u, x, sg, r, q)
  BY DEF Dues
<1>2. Due(d, n, a, a, u, x, sg, r, q) /\ Less(c, d, sg, x)
  BY <1>1, SameDue
<1>3. d.cut = c.cut
  BY DEF Keeps, Fields, DueFields
<1>4. CutOK(d, x)
  BY <1>3 DEF Dues, CutOK
<1> QED
  BY <1>1, <1>2, <1>4 DEF Leaves, Dues

\* What is due stays known from one step to the next.
LEMMA LeavesOn ==
    ASSUME NEW c, NEW d, NEW e, NEW n, NEW m, NEW u, NEW v, NEW x, NEW sg,
           NEW r, NEW q, Chan(c), Chan(d), Chan(e),
           Leaves(c, d, n, u, x, sg, r, q), Leaves(d, e, m, v, x, sg, r, q)
    PROVE  Leaves(c, e, m, v, x, sg, r, q)
<1>1. Less(c, e, sg, x)
  BY LessOn DEF Leaves
<1> QED
  BY <1>1 DEF Leaves

\* A bucket is done.
LEMMA PersistedDue ==
    ASSUME NEW c, NEW b, NEW ok, NEW X,
           NEW n \in Nat, NEW lv \in Int, NEW p, NEW med, NEW v, NEW i,
           Good(c, n, lv, p, med, v, i), Counted(c, 0),
           BucketEnds(c, b, ok, X, p, med), NEW u, NEW x \in Int, NEW sg,
           NEW r, NEW q, SegType(sg), Dues(c, n, u, x, sg, r, q)
    PROVE  Leaves(c, Persisted(c, b, ok), n, u, x, sg, r, q)
<1> DEFINE K == InBucket(c.idx, b)
           lo == b * BucketSize
           hi == lo + BucketSize
           after == {k \in DOMAIN c.idx : k >= lo}
           d == Persisted(c, b, ok)
           out == after = {} \/ ~(Min(after) < hi) \/ ~(Min(after) \in Pending(c))
<1>1. d = IF out THEN c ELSE PersistedKeys(c, {k \in after : k < hi}, hi, ok)
  BY DEF Persisted
<1>2. IdxType(c.idx) /\ b \in Nat /\ Ends(c, K, b, ok, X, p, med) /\ Chan(c)
  BY DEF Good, Chan, BucketEnds
<1>3. K = {k \in DOMAIN c.idx : lo <= k /\ k < lo + BucketSize}
  BY <1>2, BucketInterval
<1> HIDE DEF lo
<1>4. {k \in after : k < hi} = K
  BY <1>2, <1>3 DEF IdxType
<1>5. d = c \/ d = PersistedKeys(c, K, hi, ok)
  BY <1>1, <1>4
<1> HIDE DEF hi, K, d
<1>6. CASE d = PersistedKeys(c, K, hi, ok)
  <2>1. Leaves(c, d, n, u, x, sg, r, q)
    BY <1>2, <1>6, PersistedKeysDue
  <2> QED
    BY <2>1 DEF d
<1>7. CASE d = c
  <2>1. Keeps(c, c, {})
    BY <1>2 DEF Keeps, Chan
  <2>2. Leaves(c, c, n, u, x, sg, r, q)
    BY <1>2, <2>1, LeavesSame
  <2> QED
    BY <1>7, <2>2 DEF d
<1> QED
  BY <1>5, <1>6, <1>7

\* The media of a bucket is written, or that cannot be started.
LEMMA MediaWriteDue ==
    ASSUME NEW c, NEW b \in Nat,
           NEW n \in Nat, NEW lv \in Int, NEW p \in Int, NEW med, NEW v,
           NEW i, Good(c, n, lv, p, med, v, i), Counted(c, 0),
           FreeIn(c.idx, c.media, {}), med \subseteq Nat, p <= b,
           NEW u, NEW x \in Int, NEW sg,
           NEW r, NEW q, SegType(sg), Dues(c, n, u, x, sg, r, q)
    PROVE  Leaves(c, MediaWrite(c, b), n, u, x, sg, r, q)
<1> DEFINE segs == {k \in Kept(c) : BucketOf(k) = b}
           d == MediaWrite(c, b)
           z == b + 1
<1> SUFFICES Leaves(c, d, n, u, x, sg, r, q)
  OBVIOUS
<1>1. z \in Int /\ p <= z /\ z = b + 1
  OBVIOUS
<1> HIDE DEF z
<1>2. CASE "media" \in c.fail \/ segs = {}
  <2> DEFINE ok == FALSE
             X == {}
  <2>1. d = Persisted(c, b, ok)
    BY <1>2 DEF MediaWrite
  <2>2. Good(c, n, lv, z, med, v, i)
    BY <1>1, LaterBuckets
  <2>3. \A w \in c.media : w.bucket # b /\ b < z
    <3> SUFFICES ASSUME NEW w \in c.media PROVE w.bucket # b /\ b < z
      OBVIOUS
    <3>1. w.bucket < p
      BY DEF Good, Flight, FlightOK
    <3> QED
      BY <1>1, <3>1
  <2>4. BucketEnds(c, b, ok, X, z, med)
    BY <1>1, <2>3 DEF BucketEnds, Ends, FirstOf
  <2> HIDE DEF ok, X, d
  <2>5. Leaves(c, Persisted(c, b, ok), n, u, x, sg, r, q)
    BY <2>2, <2>4, PersistedDue
  <2> QED
    BY <2>1, <2>5
<1>3. CASE ~("media" \in c.fail \/ segs = {})
  <2>1. d = Sent(c, b, segs)
    BY <1>3 DEF MediaWrite, Sent
  <2>2. Chan(c) /\ Keeps(c, d, {"media"})
    BY <2>1 DEF Sent, Keeps, Good, Chan, Fields
  <2> HIDE DEF segs, d
  <2>3. Good(d, n, lv, z, med, v, i)
    BY <1>1, MediaWriteGood DEF Leads, d
  <2>4. Chan(d)
    BY <2>3 DEF Good
  <2>5. {"media"} \cap DueFields = {}
    BY DEF DueFields
  <2> QED
    BY <2>2, <2>4, <2>5, LeavesSame
<1> QED
  BY <1>2, <1>3

\* The bucket that is not complete is written.
LEMMA LastBucketWrittenDue ==
    ASSUME NEW c, NEW n \in Nat, NEW lv \in Int, NEW p \in Int,
           NEW med, NEW v, NEW i, Good(c, n, lv, p, med, v, i),
           Counted(c, 0), FreeIn(c.idx, c.media, {}), med \subseteq Nat,
           c.lastBucket = -1 \/ (c.lastBucket \in Nat /\ p <= c.lastBucket),
           NEW u, NEW x \in Int, NEW sg,
           NEW r, NEW q, SegType(sg), Dues(c, n, u, x, sg, r, q)
    PROVE  Leaves(c, LastBucketWritten(c), n, u, x, sg, r, q)
<1> DEFINE d == LastBucketWritten(c)
<1> SUFFICES Leaves(c, d, n, u, x, sg, r, q)
  OBVIOUS
<1>1. Chan(c)
  BY DEF Good
<1>2. CASE c.lastBucket = -1
  <2>1. d = c /\ Keeps(c, d, {})
    BY <1>1, <1>2 DEF LastBucketWritten, Keeps, Chan
  <2> QED
    BY <1>1, <2>1, LeavesSame
<1>3. CASE c.lastBucket # -1 /\ c.lastBucket \in Nat /\ p <= c.lastBucket
  <2> DEFINE b == c.lastBucket
             z == b + 1
             e == MediaWrite(c, b)
  <2>1. d = [e EXCEPT !.lastBucket = -1]
    BY <1>3 DEF LastBucketWritten
  <2>2. b \in Nat /\ p <= b /\ z = b + 1
    BY <1>3
  <2> HIDE DEF b, z
  <2>3. Leads(c, e, MediaFields, n, lv, z, med, v, i)
    BY <2>2, MediaWriteGood
  <2>4. Leaves(c, e, n, u, x, sg, r, q)
    BY <2>2, MediaWriteDue
  <2> HIDE DEF e, d
  <2>5. Keeps(e, d, {"lastBucket"}) /\ d.lastBucket = -1 /\ Chan(e)
    BY <2>1, <2>3 DEF Leads, Good, Keeps, Fields
  <2>6. Chan(d)
    BY <2>5 DEF Chan, Keeps, Fields
  <2>7. {"lastBucket"} \cap DueFields = {}
    BY DEF DueFields
  <2>8. Dues(e, n, u, x, sg, r, q)
    BY <2>4 DEF Leaves
  <2>9. Leaves(e, d, n, u, x, sg, r, q)
    BY <2>5, <2>6, <2>7, <2>8, LeavesSame
  <2> QED
    BY <1>1, <2>4, <2>5, <2>6, <2>9, LeavesOn
<1> QED
  BY <1>2, <1>3

\* The bucket of the last segment is written when it is complete.
LEMMA SegmentCreatedDue ==
    ASSUME NEW c, NEW exists \in BOOLEAN, NEW n \in Nat, NEW m,
           NEW lv \in Int, NEW med, NEW i,
           Good(c, m, lv, BucketOf(n), med, {}, i), Counted(c, 0),
           FreeIn(c.idx, c.media, {}), med \subseteq Nat, c.next = n,
           m = n + 1, c.lastBucket \in {-1, BucketOf(n)},
           NEW u, NEW x \in Int, NEW sg,
           NEW r, NEW q, SegType(sg), Dues(c, m, u, x, sg, r, q)
    PROVE  Leaves(c, SegmentCreated(c, exists), m, u, x, sg, r, q)
<1> DEFINE b == BucketOf(n)
           z == b + 1
           g == SegmentCreated(c, exists)
           v == {}
<1> SUFFICES Leaves(c, g, m, u, x, sg, r, q)
  OBVIOUS
<1>1. b \in Nat /\ m \in Nat /\ b \in Int /\ b <= b /\ z = b + 1
  BY NextBucket
<1>2. g = IF m % BucketSize # 0
          THEN [c EXCEPT !.lastBucket = IF exists THEN b ELSE @]
          ELSE IF exists \/ c.lastBucket # -1
          THEN [MediaWrite(c, b) EXCEPT !.lastBucket = -1]
          ELSE c
  BY DEF SegmentCreated, LastBucketWritten
<1>3. Good(c, m, lv, b, med, v, i) /\ c.lastBucket \in {-1, b} /\ Chan(c)
  BY DEF Good
<1>4. {"lastBucket"} \cap DueFields = {}
  BY DEF DueFields
<1> HIDE DEF b, v, g, z
<1>5. CASE m % BucketSize # 0
  <2> DEFINE y == IF exists THEN b ELSE c.lastBucket
  <2>1. g = [c EXCEPT !.lastBucket = y]
    BY <1>2, <1>5
  <2>2. y \in Int
    BY <1>1, <1>3
  <2> HIDE DEF y
  <2>3. Keeps(c, g, {"lastBucket"}) /\ g.lastBucket = y
    BY <1>3, <2>1 DEF Chan, Keeps, Fields
  <2>4. Chan(g)
    BY <1>3, <2>2, <2>3 DEF Chan, Keeps, Fields
  <2> QED
    BY <1>3, <1>4, <2>3, <2>4, LeavesSame
<1>6. CASE m % BucketSize = 0 /\ (exists \/ c.lastBucket # -1)
  <2> DEFINE e == MediaWrite(c, b)
  <2>1. g = [e EXCEPT !.lastBucket = -1]
    BY <1>2, <1>6
  <2>2. Leads(c, e, MediaFields, m, lv, z, med, v, i)
    BY <1>1, <1>3, MediaWriteGood
  <2>3. Leaves(c, e, m, u, x, sg, r, q)
    BY <1>1, <1>3, MediaWriteDue
  <2> HIDE DEF e
  <2>4. Keeps(e, g, {"lastBucket"}) /\ g.lastBucket = -1 /\ Chan(e)
    BY <2>1, <2>2 DEF Leads, Good, Chan, Keeps, Fields
  <2>5. Chan(g)
    BY <2>4 DEF Chan, Keeps, Fields
  <2>6. Dues(e, m, u, x, sg, r, q)
    BY <2>3 DEF Leaves
  <2>7. Leaves(e, g, m, u, x, sg, r, q)
    BY <1>4, <2>4, <2>5, <2>6, LeavesSame
  <2> QED
    BY <1>3, <2>3, <2>4, <2>5, <2>7, LeavesOn
<1>7. CASE m % BucketSize = 0 /\ ~exists /\ c.lastBucket = -1
  <2>1. g = c /\ Keeps(c, g, {})
    BY <1>2, <1>3, <1>7 DEF Keeps, Chan
  <2> QED
    BY <1>3, <2>1, LeavesSame
<1> QED
  BY <1>5, <1>6, <1>7

-----------------------------------------------------------------------------
(* The timeline loses segments *)

\* The segments S are the last of those of the timeline, and have those of w
\* that are new.
Trims(c, S, w) ==
    /\ S \subseteq c.tl \cup w /\ w \subseteq S
    /\ \A k \in c.tl \ S : \A j \in S : k < j

\* d is c with the segments S in the timeline, which starts at min.
TimelineSet(c, d, S, min) ==
    /\ Keeps(c, d, {"tl", "min", "excused"}) /\ d.tl = S /\ d.min = min
    /\ d.excused = Bigger(c.excused, min - 1)
    /\ min \in Nat /\ c.min <= min
    /\ \A k \in c.tl \ S : k < min

\* What is before the first segment is excused.
LEMMA TimelineSetDue ==
    ASSUME NEW c, NEW d, NEW S, NEW w, NEW min, NEW n \in Nat,
           NEW a \in Int, NEW l, NEW x \in Int, NEW sg, NEW r, NEW q,
           Chan(c), Chan(d), SegType(sg), TimelineSet(c, d, S, min),
           Trims(c, S, w), Due(c, n, a, l, {}, x, sg, r, q)
    PROVE  Due(d, n, a, l, w, x, sg, r, q) /\ Less(c, d, sg, x)
<1> DEFINE O == Owed(c, sg, x)
           P == Owed(d, sg, x)
           M == Made(c, sg, x)
           N == Made(d, sg, x)
<1>1. /\ d.idx = c.idx /\ d.iw = c.iw /\ d.pend = c.pend
      /\ d.acked = c.acked /\ d.pub = c.pub /\ d.conn = c.conn
      /\ d.connected = c.connected /\ d.frames = c.frames /\ d.cut = c.cut
      /\ d.early = c.early /\ d.unsaved = c.unsaved /\ d.trunc = c.trunc
      /\ d.health = c.health /\ d.success = c.success
  BY DEF TimelineSet, Keeps, Fields
<1>2. /\ d.tl = S /\ d.min = min /\ min \in Nat /\ c.min <= min
      /\ c.min \in Nat /\ c.excused \in Int /\ d.excused \in Int
      /\ c.excused <= d.excused /\ min <= d.excused + 1
      /\ \A k \in c.tl \ S : k < min
  BY DEF TimelineSet, Chan, Bigger
<1>3. SamePub(c, d) /\ SameHeld(c, d)
  BY <1>1 DEF SamePub, SameHeld
<1>4. Fewer(c, d)
  BY <1>1, <1>2 DEF Fewer, Chan
<1>5. Less(c, d, sg, x)
  BY <1>1, <1>3, <1>4, FewerLess
<1>6. N \subseteq M /\ P \subseteq O
  BY <1>5 DEF Less
<1>7. \A k \in N : k \in Nat /\ min <= k
  BY <1>2 DEF Made, SegType
<1> HIDE DEF M, N, O, P
<1>8. Owes(d, n, a, l, x, sg)
  BY <1>3, <1>6, OwesLess DEF Due, Owes, O, P
<1>9. Records(d, n, w, x, sg)
  <2>1. \A j \in DOMAIN d.idx : d.idx[j].free => j < d.min
    <3> SUFFICES ASSUME NEW j \in DOMAIN c.idx, c.idx[j].free
                 PROVE  j < d.min
      BY <1>1
    <3>1. j < c.min /\ j \in Nat
      BY DEF Due, Records, Chan, IdxType
    <3> QED
      BY <1>2, <3>1
  <2>2. ASSUME d.health # "stale" PROVE Lists(d, n, w, N)
    <3>1. Lists(c, n, {}, M)
      BY <1>1, <2>2 DEF Due, Records, M
    <3> DEFINE e == [d EXCEPT !.tl = c.tl]
               y == {}
    <3>2. Keeps(d, e, {"tl"}) /\ e.tl = c.tl
      BY DEF Keeps, Fields, Chan
    <3>3. Chan(e)
      BY <3>2 DEF Keeps, Fields, Chan
    <3> HIDE DEF e, y
    <3>4. /\ e.idx = c.idx /\ e.iw = c.iw /\ e.pend = c.pend
          /\ e.excused = d.excused /\ e.trunc = c.trunc
      BY <1>1, <3>2 DEF Keeps, Fields
    <3>5. Shorter(c, e)
      BY <1>2, <3>2, <3>4 DEF Shorter
    <3>6. Lists(e, n, y, N)
      BY <1>6, <3>1, <3>3, <3>5, ListsLess DEF y
    <3>7. \A k \in N : k < n \/ k \in w => k \in d.tl
      <4> SUFFICES ASSUME NEW k \in N, k < n \/ k \in w PROVE k \in S
        BY <1>2
      <4>1. CASE k \in w
        BY <4>1 DEF Trims
      <4>2. CASE k < n
        <5>1. k \in c.tl
          BY <1>6, <3>1, <4>2 DEF Lists
        <5> QED
          BY <1>2, <1>7, <5>1
      <4> QED
        BY <4>1, <4>2
    <3> QED
      BY <1>1, <3>4, <3>6, <3>7 DEF Lists
  <2> QED
    BY <1>2, <2>1, <2>2 DEF Records, N
<1>10. Level(d, a, r, q)
  BY <1>1 DEF Due, Level
<1> QED
  BY <1>5, <1>8, <1>9, <1>10 DEF Due

\* The timeline keeps the segments S; what it drops is freed.
LEMMA TimelineKeepsDue ==
    ASSUME NEW c, NEW S, NEW n \in Nat, NEW lv \in Int, NEW p,
           NEW med, NEW w, NEW i, Good(c, n, lv, p, med, {}, i),
           Counted(c, 0), FreeIn(c.idx, c.media, {}), w \subseteq {n},
           c.next = n, Trims(c, S, w),
           NEW x \in Int, NEW sg, NEW r, NEW q, SegType(sg),
           Dues(c, n, {}, x, sg, r, q)
    PROVE  Leaves(c, TimelineKeeps(c, S), n, w, x, sg, r, q)
<1> DEFINE min == IF S = {} THEN c.next ELSE Min(S)
           d == [c EXCEPT !.tl = S, !.min = min,
                          !.excused = Bigger(@, min - 1)]
           K == {k \in DOMAIN d.idx : k < min}
           e == FreeEach(d, K)
           g == TimelineKeeps(c, S)
           z == 0
<1> SUFFICES Leaves(c, g, n, w, x, sg, r, q)
  OBVIOUS
<1>0. g = [e EXCEPT !.cut = 0]
  BY DEF TimelineKeeps
<1>1. /\ Chan(c) /\ Scalars(c, n, lv, {}) /\ S \subseteq Nat
      /\ S \subseteq c.tl \cup w
  BY DEF Good, Chan, Trims
<1>2. /\ min \in Nat /\ min <= n /\ c.min <= min /\ c.min \in Nat
      /\ \A k \in S : min <= k
      /\ \A k \in c.tl \ S : k < min
  <2>1. /\ c.min \in Nat /\ c.min <= n
        /\ \A k \in c.tl : c.min <= k /\ k < n
        /\ c.tl \subseteq Nat
    BY <1>1 DEF Scalars, Chan
  <2>2. CASE S = {}
    BY <1>1, <2>1, <2>2
  <2>3. CASE S # {}
    <3>1. Min(S) \in S /\ \A k \in S : Min(S) <= k
      BY <1>1, <2>3, MinLeast
    <3>2. \A k \in S : c.min <= k /\ k <= n
      <4> SUFFICES ASSUME NEW k \in S PROVE c.min <= k /\ k <= n
        OBVIOUS
      <4>1. k = n \/ k \in c.tl
        BY <1>1
      <4> QED
        BY <2>1, <4>1
    <3>3. \A k \in c.tl \ S : k < Min(S)
      BY <3>1 DEF Trims
    <3> QED
      BY <1>1, <2>1, <2>3, <3>1, <3>2, <3>3
  <2> QED
    BY <2>2, <2>3
<1>3. PICK a \in Int : a < n /\ Due(c, n, a, a, {}, x, sg, r, q)
  BY DEF Dues
<1> HIDE DEF min
<1>4. TimelineSet(c, d, S, min)
  BY <1>1, <1>2 DEF Keeps, Fields, Chan, TimelineSet
<1> HIDE DEF d
<1>5. /\ d.idx = c.idx /\ d.media = c.media /\ d.iw = c.iw
      /\ d.pend = c.pend /\ d.unsaved = c.unsaved /\ d.health = c.health
      /\ d.conn = c.conn /\ d.connected = c.connected
      /\ d.frames = c.frames /\ d.acked = c.acked
      /\ d.changed = c.changed /\ d.hist = c.hist
      /\ d.snapshots = c.snapshots
      /\ d.next = c.next /\ d.trunc = c.trunc
      /\ d.lastReady = c.lastReady /\ d.success = c.success
      /\ d.cut = c.cut /\ d.tl = S /\ d.min = min
  BY <1>4 DEF TimelineSet, Keeps, Fields
<1>6. Chan(d) /\ min <= d.excused + 1
  <2>1. d.excused \in Int /\ min <= d.excused + 1
    BY <1>1, <1>2, <1>4 DEF Chan, Bigger, TimelineSet
  <2> QED
    BY <1>1, <1>2, <1>4, <2>1 DEF Chan, Keeps, Fields, TimelineSet
<1>7. Good(d, n, lv, p, med, w, i)
  <2>1. \A k \in S : k < n \/ k \in w
    BY <1>1 DEF Scalars
  <2>2. Scalars(d, n, lv, w)
    BY <1>1, <1>2, <1>5, <2>1 DEF Scalars
  <2>3. Stored(c.idx, c.tl, c.iw, c.unsaved, c.health, med, {}, i)
    BY DEF Good
  <2>4. Stored(d.idx, d.tl, d.iw, d.unsaved, d.health, med, w, i)
    BY <1>1, <1>5, <2>3 DEF Stored
  <2> QED
    BY <1>5, <1>6, <2>2, <2>4 DEF Good
<1>8. Due(d, n, a, a, w, x, sg, r, q) /\ Less(c, d, sg, x) /\ CutOK(d, x)
  BY <1>1, <1>3, <1>4, <1>5, <1>6, TimelineSetDue DEF Dues, CutOK
<1>9. /\ Counted(d, z) /\ FreeIn(d.idx, d.media, {}) /\ FreeableIn(d, K)
      /\ z \in Int /\ K \subseteq DOMAIN d.idx
      /\ \A k \in K : k \in Nat /\ k < min
  BY <1>5, <1>6 DEF Counted, FreeableIn, Chan, IdxType
<1> HIDE DEF K, z
<1>10. /\ Due(e, n, a, a, w, x, sg, r, q) /\ Less(d, e, sg, x)
       /\ e.cut = 0 \/ e.cut \in K
  BY <1>7, <1>8, <1>9, FreeEachDue
<1>11. Good(e, n, lv, p, med, w, i)
  BY <1>7, <1>9, FreeEachGood
<1> HIDE DEF e
<1>12. Chan(e) /\ d.excused <= e.excused
  BY <1>10, <1>11 DEF Good, Less
<1>13. e.cut = 0 \/ e.cut <= x \/ e.cut <= e.excused
  <2>1. e.cut \in Nat /\ d.excused \in Int /\ e.excused \in Int
    BY <1>6, <1>12 DEF Chan
  <2> QED
    BY <1>2, <1>6, <1>9, <1>10, <1>12, <2>1
<1>14. Due(g, n, a, a, w, x, sg, r, q) /\ Less(e, g, sg, x)
  BY <1>0, <1>10, <1>12, <1>13, CutDue
<1>15. g.cut = 0 /\ Chan(g)
  <2> HIDE DEF g
  <2>1. Keeps(e, g, {"cut"}) /\ g.cut = 0
    BY <1>0, <1>12 DEF Keeps, Fields, Chan
  <2> QED
    BY <1>12, <2>1 DEF Keeps, Fields, Chan
<1> HIDE DEF g
<1>16. Less(c, e, sg, x)
  BY <1>1, <1>6, <1>8, <1>10, <1>12, LessOn
<1>17. Less(c, g, sg, x)
  BY <1>1, <1>12, <1>14, <1>15, <1>16, LessOn
<1> QED
  BY <1>3, <1>14, <1>15, <1>17 DEF Leaves, Dues, CutOK

-----------------------------------------------------------------------------
(* A segment is created *)

\* The index of the next segment, which is made if it is new to the timeline,
\* will ack it.
LEMMA CreatedDue ==
    ASSUME NEW c, NEW d, NEW w, NEW n \in Nat, NEW m, NEW lv, NEW a \in Int,
           NEW x \in Int, NEW sg, NEW r, NEW q, Chan(c), Chan(d), SegType(sg),
           Created(c, d), c.next = n, m = n + 1, a < n,
           Order(c.idx, c.iw, c.pend, n, lv),
           n \in Made(c, sg, x) => n \in w, Due(c, n, a, a, w, x, sg, r, q)
    PROVE  Due(d, m, a, a, {}, x, sg, r, q) /\ Less(c, d, sg, x)
<1> DEFINE O == Owed(c, sg, x)
           M == Made(c, sg, x)
           y == d.idx
<1>1. /\ d.iw = c.iw /\ d.pend = c.pend
      /\ d.acked = c.acked /\ d.pub = c.pub /\ d.conn = c.conn
      /\ d.connected = c.connected /\ d.frames = c.frames /\ d.cut = c.cut
      /\ d.early = c.early /\ d.unsaved = c.unsaved /\ d.trunc = c.trunc
      /\ d.health = c.health /\ d.success = c.success
      /\ d.excused = c.excused /\ d.tl = c.tl /\ d.min = c.min
  BY DEF Created, Keeps, Fields
<1>2. Made(d, sg, x) = M /\ Owed(d, sg, x) = O
  BY <1>1 DEF Made, Owed
<1>3. /\ DOMAIN y = DOMAIN c.idx \cup {n}
      /\ \A k \in DOMAIN c.idx : k < n /\ k \in Nat
      /\ \A k \in DOMAIN c.idx : y[k] = c.idx[k]
      /\ y[n].persist = "none" /\ y[n].free = FALSE /\ y[n].snap # None
      /\ y[n].snap[1].max = n /\ y[n].snap[1].trunc = c.trunc
      /\ y[n].snap[1].frames = NoFrames
  <2>1. \A k \in DOMAIN c.idx : k < n /\ k \in Nat
    BY DEF Order, Chan, IdxType
  <2>2. \A k \in DOMAIN c.idx : k \in DOMAIN c.idx \ {n}
    BY <2>1
  <2> QED
    BY <2>1, <2>2 DEF Created
<1>4. /\ HeldIn(y) = HeldIn(c.idx) \cup {n}
      /\ PendingIn(y) = PendingIn(c.idx) \cup {n}
      /\ \A k \in HeldIn(c.idx) : y[k] = c.idx[k]
  BY <1>3 DEF HeldIn, PendingIn
<1>5. O \subseteq Nat /\ M \subseteq Nat
  BY DEF Owed, Made, SegType
<1>6. Less(c, d, sg, x)
  BY <1>1, <1>2 DEF Less, SamePub, Chan
<1> HIDE DEF y, O, M
<1>7. Owes(d, m, a, a, x, sg)
  <2>1. OwesOf(c, n, a, a, O, sg)
    BY DEF Due, Owes, O
  <2>2. Above(y, d.iw, d.pend, a)
    BY <1>1, <1>4, <2>1 DEF OwesOf, Above
  <2>3. Covered(O, m, y, d.iw, d.pend, a)
    <3>1. HeldUpTo(y, n)
      BY <1>3, <1>4 DEF HeldUpTo
    <3>2. \A k : HeldUpTo(c.idx, k) => HeldUpTo(y, k)
      BY <1>4 DEF HeldUpTo
    <3>3. \A k \in O : k < m => k < n \/ k = n
      BY <1>5
    <3> QED
      BY <1>1, <2>1, <3>1, <3>2, <3>3 DEF OwesOf, Covered
  <2>4. Reached(O, d, sg, a)
    BY <1>1, <2>1 DEF OwesOf, Reached
  <2>5. \A f, g : Behind(O, c, sg, f, g) => Behind(O, d, sg, f, g)
    BY <1>1 DEF Behind, Mine
  <2>6. \A g : Behind(O, d, sg, NoFrames, g)
    BY DEF Behind, Mine, NoFrames
  <2>7. FramesBehind(O, d, sg)
    BY <1>1, <1>3, <1>4, <2>1, <2>5, <2>6 DEF OwesOf, FramesBehind, y
  <2> QED
    BY <1>2, <2>2, <2>3, <2>4, <2>7 DEF Owes, OwesOf, y
<1>8. Records(d, m, {}, x, sg)
  <2>1. d.min <= d.excused + 1
    BY <1>1 DEF Due, Records
  <2>2. \A j \in DOMAIN d.idx : d.idx[j].free => j < d.min
    <3>1. \A j \in DOMAIN c.idx : c.idx[j].free => j < d.min
      BY <1>1 DEF Due, Records
    <3> QED
      BY <1>3, <3>1 DEF y
  <2>3. ASSUME d.health # "stale" PROVE Lists(d, m, {}, M)
    <3>1. Lists(c, n, w, M)
      BY <1>1, <2>3 DEF Due, Records, M
    <3>2. \A j \in HeldIn(y) : TruncOK(y[j].snap[1].trunc, d.excused)
      BY <1>1, <1>3, <1>4, <3>1 DEF Lists
    <3>3. \A k \in M : k < m => k \in d.tl
      <4>1. \A k \in M : k < m => k < n \/ k = n
        BY <1>5
      <4>2. n \in M => n \in w
        BY DEF M
      <4> QED
        BY <1>1, <3>1, <4>1, <4>2 DEF Lists
    <3> QED
      BY <1>1, <3>1, <3>2, <3>3 DEF Lists, y
  <2> QED
    BY <1>2, <2>1, <2>2, <2>3 DEF Records
<1>9. Level(d, a, r, q)
  BY <1>1 DEF Due, Level
<1> QED
  BY <1>6, <1>7, <1>8, <1>9 DEF Due

\* The frames of a snapshot become known: those of the segment.
LEMMA UpdatedDue ==
    ASSUME NEW c, NEW d, NEW k \in HeldIn(c.idx), NEW s \in SnapType,
           NEW n, NEW a \in Int, NEW u,
           NEW x \in Int, NEW sg, NEW r, NEW q, Chan(c), Chan(d), SegType(sg),
           Keeps(c, d, {"idx"}), PutIn(c.idx, d.idx, k, s),
           s.max = c.idx[k].snap[1].max, s.trunc = c.idx[k].snap[1].trunc,
           Behind(Owed(c, sg, x), c, sg, s.frames, s.max),
           Due(c, n, a, a, u, x, sg, r, q)
    PROVE  Due(d, n, a, a, u, x, sg, r, q) /\ Less(c, d, sg, x)
<1> DEFINE O == Owed(c, sg, x)
           M == Made(c, sg, x)
           y == d.idx
<1>1. /\ d.iw = c.iw /\ d.pend = c.pend
      /\ d.acked = c.acked /\ d.pub = c.pub /\ d.conn = c.conn
      /\ d.connected = c.connected /\ d.frames = c.frames /\ d.cut = c.cut
      /\ d.early = c.early /\ d.unsaved = c.unsaved /\ d.trunc = c.trunc
      /\ d.health = c.health /\ d.success = c.success
      /\ d.excused = c.excused /\ d.tl = c.tl /\ d.min = c.min
  BY DEF Keeps, Fields
<1>2. Made(d, sg, x) = M /\ Owed(d, sg, x) = O
  BY <1>1 DEF Made, Owed
<1>3. /\ DOMAIN y = DOMAIN c.idx /\ k \in DOMAIN c.idx
      /\ \A j \in DOMAIN c.idx : j # k => y[j] = c.idx[j]
      /\ y[k].persist = c.idx[k].persist /\ y[k].free = c.idx[k].free
      /\ y[k].snap # None /\ y[k].snap[1] = s
  BY DEF PutIn, HeldIn
<1>4. HeldIn(y) = HeldIn(c.idx) /\ PendingIn(y) = PendingIn(c.idx)
  BY <1>3 DEF HeldIn, PendingIn
<1>5. \A j \in HeldIn(c.idx) :
        /\ y[j].snap[1].max = c.idx[j].snap[1].max
        /\ y[j].snap[1].trunc = c.idx[j].snap[1].trunc
        /\ j # k => y[j].snap[1].frames = c.idx[j].snap[1].frames
  BY <1>3 DEF HeldIn
<1>6. Less(c, d, sg, x)
  BY <1>1, <1>2 DEF Less, SamePub, Chan
<1> HIDE DEF y, O, M
<1>7. Owes(d, n, a, a, x, sg)
  <2>1. OwesOf(c, n, a, a, O, sg) /\ Behind(O, c, sg, s.frames, s.max)
    BY DEF Due, Owes, O
  <2>2. Above(y, d.iw, d.pend, a)
    BY <1>1, <1>4, <2>1 DEF OwesOf, Above
  <2>3. Covered(O, n, y, d.iw, d.pend, a)
    <3>1. \A j : HeldUpTo(c.idx, j) => HeldUpTo(y, j)
      BY <1>4, <1>5 DEF HeldUpTo
    <3> QED
      BY <1>1, <2>1, <3>1 DEF OwesOf, Covered
  <2>4. Reached(O, d, sg, a)
    BY <1>1, <2>1 DEF OwesOf, Reached
  <2>5. \A f, g : Behind(O, c, sg, f, g) => Behind(O, d, sg, f, g)
    BY <1>1 DEF Behind, Mine
  <2>6. FramesBehind(O, d, sg)
    BY <1>1, <1>3, <1>4, <1>5, <2>1, <2>5 DEF OwesOf, FramesBehind, y
  <2> QED
    BY <1>2, <2>2, <2>3, <2>4, <2>6 DEF Owes, OwesOf, y
<1>8. Records(d, n, u, x, sg)
  <2>1. d.min <= d.excused + 1
    BY <1>1 DEF Due, Records
  <2>2. \A j \in DOMAIN d.idx : d.idx[j].free => j < d.min
    <3>1. \A j \in DOMAIN c.idx : c.idx[j].free => j < d.min
      BY <1>1 DEF Due, Records
    <3> QED
      BY <1>3, <3>1 DEF y
  <2>3. ASSUME d.health # "stale" PROVE Lists(d, n, u, M)
    <3>1. Lists(c, n, u, M)
      BY <1>1, <2>3 DEF Due, Records, M
    <3>2. \A j \in HeldIn(y) : TruncOK(y[j].snap[1].trunc, d.excused)
      BY <1>1, <1>4, <1>5, <3>1 DEF Lists
    <3> QED
      BY <1>1, <3>1, <3>2 DEF Lists, y
  <2> QED
    BY <1>2, <2>1, <2>2, <2>3 DEF Records
<1>9. Level(d, a, r, q)
  BY <1>1 DEF Due, Level
<1> QED
  BY <1>6, <1>7, <1>8, <1>9 DEF Due

\* d is c after the snapshot of a segment that does not exist was handed on,
\* and its index left the memory.
Skipped(c, d) ==
    /\ Keeps(c, d, {"idx", "snapshots", "acked", "iw", "pend", "unsaved",
                    "lastReady"})
    /\ HandedOn([c EXCEPT !.snapshots = @ + 1], d, NoFrames)
    /\ DOMAIN d.idx = DOMAIN c.idx
    /\ \A j \in DOMAIN c.idx : d.idx[j] = c.idx[j]
    /\ c.unsaved \subseteq d.unsaved

\* That acks nothing.
LEMMA SkippedDue ==
    ASSUME NEW c, NEW d, NEW w, NEW n \in Nat, NEW m, NEW a \in Int,
           NEW x \in Int, NEW sg, NEW r, NEW q, Chan(c), Chan(d), SegType(sg),
           Skipped(c, d), m = n + 1, n \notin Made(c, sg, x),
           Due(c, n, a, a, w, x, sg, r, q)
    PROVE  Due(d, m, a, a, {}, x, sg, r, q) /\ Less(c, d, sg, x)
<1> DEFINE g == [c EXCEPT !.snapshots = @ + 1]
           O == Owed(c, sg, x)
           P == Owed(d, sg, x)
           M == Made(c, sg, x)
           N == Made(d, sg, x)
           f == NoFrames
<1>1. Keeps(c, g, {"snapshots"}) /\ g.snapshots = c.snapshots + 1
  BY DEF Keeps, Fields, Chan
<1>2. HandedOn(g, d, f)
  BY DEF Skipped
<1> HIDE DEF g
<1>3. Chan(g)
  <2>1. g.snapshots \in Int
    BY <1>1 DEF Chan
  <2> QED
    BY <1>1, <2>1 DEF Keeps, Fields, Chan
<1>4. /\ g.idx = c.idx /\ g.iw = c.iw /\ g.pend = c.pend
      /\ g.acked = c.acked /\ g.pub = c.pub /\ g.conn = c.conn
      /\ g.connected = c.connected /\ g.frames = c.frames
  BY <1>1 DEF Keeps, Fields
<1>5. /\ d.pub = c.pub /\ d.conn = c.conn
      /\ d.connected = c.connected /\ d.frames = c.frames /\ d.cut = c.cut
      /\ d.early = c.early /\ d.trunc = c.trunc
      /\ d.health = c.health /\ d.success = c.success
      /\ d.excused = c.excused /\ d.tl = c.tl /\ d.min = c.min
  BY DEF Skipped, Keeps, Fields
<1>6. /\ HeldIn(d.idx) = HeldIn(c.idx) /\ PendingIn(d.idx) = PendingIn(c.idx)
      /\ \A j \in HeldIn(c.idx) : d.idx[j] = c.idx[j]
      /\ \A j \in DOMAIN d.idx : j \in DOMAIN c.idx /\ d.idx[j] = c.idx[j]
  BY DEF Skipped, HeldIn, PendingIn
<1>7. f \in FrameType /\ \A b : ~Mine(b, f)
  BY DEF FrameType, NoFrames, Mine
<1> HIDE DEF f
<1>8. d.acked = c.acked
  <2>1. ~Acks(g, f)
    BY <1>7 DEF Acks, Mine
  <2> QED
    BY <1>2, <1>4, <2>1 DEF HandedOn
<1>9. SamePub(c, d) /\ SamePub(c, g) /\ SamePub(g, d) /\ SameHeld(c, g)
  BY <1>4, <1>5 DEF SamePub, SameHeld
<1>10. Fewer(c, d)
  BY <1>5 DEF Fewer, Chan, Skipped
<1>11. Less(c, d, sg, x)
  BY <1>8, <1>9, <1>10, FewerLess
<1>12. N \subseteq M /\ P \subseteq O /\ P \subseteq M /\ P \subseteq Nat
       /\ M \subseteq Nat /\ n \notin M
  BY <1>11 DEF Less, Owed, Made, SegType
<1> HIDE DEF M, N, O, P
<1>13. Owes(d, m, a, a, x, sg)
  <2>1. OwesOf(c, n, a, a, O, sg)
    BY DEF Due, Owes, O
  <2>2. OwesOf(g, n, a, a, O, sg)
    BY <1>9, <2>1, OwesLess
  <2>3. NoneOf(P, g, sg, f)
    BY <1>7 DEF NoneOf
  <2>4. StillHeld(P, g.idx, d.idx, a)
    BY <1>4, <1>6 DEF StillHeld, HeldUpTo
  <2>5. OwesOf(d, n, a, a, P, sg)
    BY <1>2, <1>3, <1>7, <1>9, <1>12, <2>2, <2>3, <2>4, HandedOnOwes
  <2>6. \A k \in P : k < m => k < n
    BY <1>12
  <2>7. Covered(P, m, d.idx, d.iw, d.pend, a)
    BY <2>5, <2>6 DEF OwesOf, Covered
  <2> QED
    BY <2>5, <2>7 DEF OwesOf, Owes, P
<1>14. Records(d, m, {}, x, sg)
  <2>1. /\ Reframes(c.iw, d.iw) /\ Reframes(c.pend, d.pend)
        /\ c.iw # None =>
            /\ d.iw[1].min = c.iw[1].min /\ d.iw[1].tl = c.iw[1].tl
            /\ d.iw[1].file = c.iw[1].file
    <3>1. /\ Reframes(g.iw, d.iw) /\ Reframes(g.pend, d.pend)
          /\ g.iw # None =>
              /\ d.iw[1].min = g.iw[1].min /\ d.iw[1].tl = g.iw[1].tl
              /\ d.iw[1].file = g.iw[1].file
      BY <1>2, <1>3, <1>7, HandedOnReframes
    <3> QED
      BY <1>4, <3>1
  <2>2. Shorter(c, d)
    <3>1. c.excused <= d.excused
      BY <1>10 DEF Fewer
    <3>2. /\ HeldIn(d.idx) \subseteq HeldIn(c.idx)
          /\ \A j \in HeldIn(d.idx) :
                d.idx[j].snap[1].trunc = c.idx[j].snap[1].trunc
      BY <1>6
    <3>3. /\ c.pend = None => d.pend = None
          /\ d.pend # None => d.pend[1].trunc = c.pend[1].trunc
          /\ c.iw = None => d.iw = None
          /\ d.iw # None =>
                /\ d.iw[1].trunc = c.iw[1].trunc
                /\ d.iw[1].max = c.iw[1].max
                /\ c.iw # None
      BY <2>1 DEF Reframes
    <3> QED
      BY <1>5, <2>1, <3>1, <3>2, <3>3 DEF Shorter
  <2>3. Records(d, n, w, x, sg)
    BY <1>5, <1>6, <1>12, <2>2, RecordsLess DEF Due, M, N
  <2>4. \A k \in N : k < m => k < n
    BY <1>12
  <2>5. d.health # "stale" => Lists(d, m, {}, N)
    BY <2>3, <2>4 DEF Records, Lists, N
  <2> QED
    BY <2>3, <2>5 DEF Records, N
<1>15. Level(d, a, r, q)
  BY <1>5 DEF Due, Level
<1> QED
  BY <1>11, <1>13, <1>14, <1>15 DEF Due

\* When no snapshot is left, all segments may be acked.
LEMMA AckFramesIdleDue ==
    ASSUME NEW c, NEW n \in Nat, NEW lv, NEW p, NEW med, NEW v, NEW i,
           Good(c, n, lv, p, med, v, i), Counted(c, 0),
           FreeIn(c.idx, c.media, {}), NEW u,
           NEW x \in Int, NEW sg, NEW r, NEW q, SegType(sg),
           \A k \in DOMAIN sg : k < n, Dues(c, n, u, x, sg, r, q)
    PROVE  Leaves(c, AckFramesIdle(c), n, u, x, sg, r, q)
<1> DEFINE d == AckFramesIdle(c)
           O == Owed(c, sg, x)
<1> SUFFICES Leaves(c, d, n, u, x, sg, r, q)
  OBVIOUS
<1>0. Chan(c) /\ Order(c.idx, c.iw, c.pend, n, lv)
  BY DEF Good
<1>1. CASE ~(c.snapshots <= 0) \/ ~(c.connected /\ c.frames > c.acked)
  <2>1. d = c \/ d = [c EXCEPT !.acked = c.acked]
    BY <1>1 DEF AckFramesIdle, Ack
  <2>2. Keeps(c, d, {})
    BY <1>0, <2>1 DEF Keeps, Fields, Chan
  <2>3. Chan(d)
    BY <1>0, <2>2, AckFramesIdleGood DEF Leads, Good
  <2> HIDE DEF d
  <2> QED
    BY <1>0, <2>2, <2>3, LeavesSame
<1>2. CASE c.snapshots <= 0 /\ c.connected /\ c.frames > c.acked
  <2>1. Keeps(c, d, {"acked"}) /\ Chan(d)
    BY AckFramesIdleGood DEF Leads, Good
  <2> HIDE DEF d
  <2>2. /\ d.idx = c.idx /\ d.iw = c.iw /\ d.pend = c.pend
        /\ d.pub = c.pub /\ d.conn = c.conn
        /\ d.connected = c.connected /\ d.frames = c.frames /\ d.cut = c.cut
        /\ d.early = c.early /\ d.unsaved = c.unsaved /\ d.trunc = c.trunc
        /\ d.health = c.health /\ d.success = c.success
        /\ d.excused = c.excused /\ d.tl = c.tl /\ d.min = c.min
    BY <2>1 DEF Keeps, Fields
  <2>3. PICK a \in Int : a < n /\ Due(c, n, a, a, u, x, sg, r, q)
    BY DEF Dues
  <2>4. Made(d, sg, x) = Made(c, sg, x) /\ Owed(d, sg, x) = O
    BY <2>2 DEF Made, Owed
  <2>5. Less(c, d, sg, x)
    BY <1>0, <1>2, <2>2, <2>4 DEF Less, SamePub, Chan
  <2>6. c.iw = None /\ c.pend = None /\ HeldIn(c.idx) = {}
    <3>1. \A j \in DOMAIN c.idx : j < n
      BY <1>0 DEF Order
    <3>2. /\ Cardinality(HeldIn(c.idx)) \in Nat
          /\ Len(c.iw) \in {0, 1} /\ Len(c.pend) \in {0, 1}
      BY <1>0, <3>1, CountedAre
    <3>3. c.snapshots = Cardinality(HeldIn(c.idx)) + Len(c.iw) + Len(c.pend) + 0
      BY DEF Counted, Count
    <3>4. /\ Cardinality(HeldIn(c.idx)) = 0
          /\ Len(c.iw) = 0 /\ Len(c.pend) = 0
      BY <1>2, <3>2, <3>3
    <3>5. IsFiniteSet(HeldIn(c.idx))
      BY <1>0, <3>1, HeldFinite DEF Chan
    <3>6. HeldIn(c.idx) = {}
      BY <3>4, <3>5, FS_EmptySet
    <3> QED
      BY <1>0, <3>4, <3>6, OptLen DEF Chan
  <2>7. \A k \in O : k <= a
    <3>1. \A k \in O : k < n
      BY DEF Owed, Made
    <3> QED
      BY <2>3, <2>6, <3>1 DEF Due, Owes, OwesOf, Covered, HeldUpTo
  <2> HIDE DEF O
  <2>8. Owes(d, n, a, a, x, sg)
    <3>1. OwesOf(c, n, a, a, O, sg)
      BY <2>3 DEF Due, Owes, O
    <3>2. OwesOf(d, n, a, a, O, sg)
      BY <2>2, <2>6, <2>7, <3>1
         DEF OwesOf, Above, Covered, Reached, FramesBehind
    <3> QED
      BY <2>4, <3>2 DEF Owes
  <2>9. Records(d, n, u, x, sg)
    <3>1. Shorter(c, d)
      BY <1>0, <2>2 DEF Shorter, Chan
    <3> QED
      BY <1>0, <2>1, <2>2, <2>3, <2>4, <3>1, RecordsLess DEF Due
  <2>10. Level(d, a, r, q)
    BY <2>2, <2>3 DEF Due, Level
  <2>11. CutOK(d, x)
    BY <2>2 DEF Dues, CutOK
  <2> QED
    BY <2>3, <2>5, <2>8, <2>9, <2>10, <2>11 DEF Due, Dues, Leaves
<1> QED
  BY <1>1, <1>2

\* A segment that exists is due once its index has its frames.
LEMMA ReadyMadeDue ==
    ASSUME NEW c, NEW d, NEW e, NEW f, NEW s, NEW w, NEW n \in Nat, NEW m,
           NEW lv, NEW x \in Int, NEW sg, NEW r, NEW q, Chan(c), Chan(d),
           Chan(e), Chan(f), SegType(sg), Created(c, d), c.next = n,
           m = n + 1, Order(c.idx, c.iw, c.pend, n, lv),
           n \in Made(c, sg, x) => n \in w, \A k \in DOMAIN sg : k <= n,
           Keeps(d, e, {"lastReady"}), Updated(e, f, s),
           Dues(c, n, w, x, sg, r, q)
    PROVE  Leaves(c, f, m, {}, x, sg, r, q)
<1> DEFINE u == {}
<1>1. PICK a \in Int : a < n /\ Due(c, n, a, a, w, x, sg, r, q)
  BY DEF Dues
<1>2. Due(d, m, a, a, u, x, sg, r, q) /\ Less(c, d, sg, x)
  BY <1>1, CreatedDue
<1> HIDE DEF u
<1>3. /\ d.cut = c.cut /\ d.next = n /\ d.pub = c.pub
      /\ n \in HeldIn(d.idx) /\ d.idx[n].snap[1].max = n
  BY DEF Created, Keeps, Fields, HeldIn
<1>4. Leaves(c, d, m, u, x, sg, r, q)
  <2>1. CutOK(d, x)
    BY <1>3 DEF Dues, CutOK
  <2>2. a < m
    BY <1>1
  <2> QED
    BY <1>2, <2>1, <2>2 DEF Leaves, Dues
<1>5. Leaves(d, e, m, u, x, sg, r, q)
  <2>1. {"lastReady"} \cap DueFields = {}
    BY DEF DueFields
  <2>2. Dues(d, m, u, x, sg, r, q)
    BY <1>4 DEF Leaves
  <2> QED
    BY <2>1, <2>2, LeavesSame
<1>6. e.idx = d.idx /\ e.next = n
  BY <1>3 DEF Keeps, Fields
<1>7. PICK b \in Int : b < m /\ Due(e, m, b, b, u, x, sg, r, q)
  BY <1>5 DEF Leaves, Dues
<1>8. /\ s \in SnapType /\ s.max = n /\ s.trunc = e.idx[n].snap[1].trunc
      /\ s.max = e.idx[n].snap[1].max
      /\ Keeps(e, f, {"idx"}) /\ PutIn(e.idx, f.idx, n, s)
  BY <1>3, <1>6 DEF Updated
<1>9. Behind(Owed(e, sg, x), e, sg, s.frames, s.max)
  BY <1>8 DEF Behind, Owed, Made
<1>10. n \in HeldIn(e.idx)
  BY <1>3, <1>6
<1>11. Due(f, m, b, b, u, x, sg, r, q) /\ Less(e, f, sg, x)
  BY <1>7, <1>8, <1>9, <1>10, UpdatedDue
<1>12. Leaves(e, f, m, u, x, sg, r, q)
  <2>1. f.cut = e.cut
    BY <1>8 DEF Keeps, Fields
  <2>2. CutOK(f, x)
    BY <1>5, <2>1 DEF Leaves, Dues, CutOK
  <2> QED
    BY <1>7, <1>11, <2>2 DEF Leaves, Dues
<1>13. Leaves(c, e, m, u, x, sg, r, q)
  BY <1>4, <1>5, LeavesOn
<1>14. Leaves(c, f, m, u, x, sg, r, q)
  BY <1>12, <1>13, LeavesOn
<1> QED
  BY <1>14 DEF u

\* The index of one that does not leaves the memory before it was saved.
LEMMA SkippedDoes ==
    ASSUME NEW c, NEW d, NEW e, NEW y, NEW z, NEW n \in Nat, NEW lv, NEW p,
           NEW med, Chan(c), Chan(d), Chan(e), Chan(y), Created(c, d),
           c.next = n, c.cut = 0, Order(c.idx, c.iw, c.pend, n, lv),
           Flight(c.idx, c.media, p, med), Keeps(d, e, {"lastReady"}),
           IndexFreed(e, y, n), Keeps(y, z, {"cut"}), z.cut = 0
    PROVE  Skipped(c, z)
<1> DEFINE G == {"lastReady", "idx", "snapshots", "cut", "unsaved", "early",
                 "acked", "iw", "pend"}
           g == [c EXCEPT !.snapshots = @ + 1]
<1>1. n \notin DOMAIN c.idx
  BY DEF Order
<1>2. /\ e.idx = d.idx /\ e.media = c.media /\ e.snapshots = c.snapshots + 1
      /\ e.iw = c.iw /\ e.pend = c.pend /\ e.acked = c.acked
      /\ e.early = c.early /\ e.unsaved = c.unsaved
      /\ e.connected = c.connected /\ e.frames = c.frames /\ e.conn = c.conn
  BY DEF Created, Keeps, Fields
<1>3. /\ DOMAIN e.idx = DOMAIN c.idx \cup {n}
      /\ \A k \in DOMAIN c.idx : e.idx[k] = c.idx[k]
      /\ e.idx[n].persist = "none" /\ e.idx[n].free = FALSE
      /\ e.idx[n].snap # None /\ e.idx[n].snap[1].max = n
      /\ e.idx[n].snap[1].frames = NoFrames
  BY <1>1, <1>2 DEF Created
<1>4. ~FlightAt(e.media, n)
  BY <1>1, <1>2 DEF Flight, FlightOK, PendingIn, FlightAt
<1>5. y.idx = RemovedFrom(e.idx, n)
  BY <1>4 DEF IndexFreed
<1>6. DOMAIN y.idx = DOMAIN c.idx /\ \A k \in DOMAIN c.idx : y.idx[k] = c.idx[k]
  BY <1>1, <1>3, <1>5 DEF RemovedFrom
<1>7. LostBy(e.idx[n]) /\ ~(e.idx[n].snap[1].max > n)
  BY <1>3 DEF LostBy
<1>8. /\ y.unsaved = c.unsaved \cup {n} /\ y.early = c.early
      /\ HandedOn(e, y, NoFrames)
  BY <1>2, <1>3, <1>7 DEF IndexFreed
<1>9. Keeps(c, z, G)
  BY DEF Created, Keeps, Fields, IndexFreed
<1>10. z.early = c.early /\ z.cut = c.cut /\ z.unsaved = c.unsaved \cup {n}
       /\ z.idx = y.idx /\ z.snapshots = y.snapshots /\ z.acked = y.acked
       /\ z.iw = y.iw /\ z.pend = y.pend
  BY <1>8 DEF Keeps, Fields
<1>11. Keeps(c, z, {"idx", "snapshots", "acked", "iw", "pend", "unsaved",
                    "lastReady"})
  BY <1>9, <1>10 DEF Keeps, Fields
<1>12. /\ g.pend = e.pend /\ g.iw = e.iw /\ g.acked = e.acked
       /\ g.snapshots = e.snapshots /\ g.connected = e.connected
       /\ g.conn = e.conn
  BY <1>2 DEF Chan, Fields
<1> HIDE DEF g
<1>13. HandedOn(g, z, NoFrames)
  BY <1>8, <1>10, <1>12 DEF HandedOn, Acks
<1> QED
  BY <1>6, <1>10, <1>11, <1>13 DEF Skipped, g

\* How the segment n was made: when it exists, the timeline, that has w of the
\* new segments, has it.
MadeNow(sg, n, exists, w) ==
    /\ SegType(sg) /\ n \in DOMAIN sg /\ sg[n].exists = exists
    /\ \A k \in DOMAIN sg : k <= n
    /\ exists => n \in w

\* Once a segment is ready, it is due.
LEMMA ReadyDue ==
    ASSUME NEW c, NEW exists \in BOOLEAN, NEW n \in Nat, NEW m, NEW lv \in Int,
           NEW p \in Int, NEW med, NEW u, NEW i, Good(c, n, lv, p, med, u, i),
           Counted(c, 0), FreeIn(c.idx, c.media, {}), u \subseteq {n},
           c.next = n, OneMore(n, m), lv < n, p <= BucketOf(n), ~c.noFree,
           c.cut = 0, NEW w, NEW x \in Int, NEW sg, NEW r, NEW q,
           MadeNow(sg, n, exists, w), Dues(c, n, w, x, sg, r, q)
    PROVE  Leaves(c, ReadyOf(IndexCreate(c), exists), m, {}, x, sg, r, q)
<1> DEFINE d == IndexCreate(c)
           e == ReadyMark(d)
           f == ReadyIndex(e, exists)
           g == FreeNonForced(f)
           h == AckFramesIdle(g)
           v == {}
           z == 0
<1>0. /\ ReadyOf(d, exists) = h /\ z = 0 /\ z \in Int /\ m \in Nat /\ m = n + 1
      /\ v = {} /\ SegType(sg)
  BY DEF ReadyOf, OneMore, MadeNow
<1>1. /\ Good(d, m, lv, p, med, v, i) /\ Counted(d, 0)
      /\ FreeIn(d.idx, d.media, {}) /\ Created(c, d)
  BY IndexCreateGood
<1> SUFFICES Leaves(c, h, m, v, x, sg, r, q)
  BY <1>0
<1> HIDE DEF d, v
<1>2. d.next = n /\ n \in HeldIn(d.idx) /\ d.noFree = c.noFree
  BY <1>1 DEF Created, Keeps, Fields, HeldIn
<1>3. /\ Leads(d, e, ReadyFields, m, lv, p, med, v, i)
      /\ Keeps(d, e, {"lastReady"})
  BY <1>0, <1>1, ReadyMarkGood
<1> HIDE DEF e
<1>4. e.next = n /\ e.next \in HeldIn(e.idx) /\ e.noFree = c.noFree
  BY <1>2, <1>3 DEF Keeps, Fields
<1>5. Leads(e, f, ReadyFields, m, lv, p, med, v, i)
  BY <1>0, <1>3, <1>4, ReadyIndexGood DEF Leads
<1>6. Chan(c) /\ Chan(d) /\ Chan(e) /\ Chan(f)
  BY <1>1, <1>3, <1>5 DEF Leads, Good
<1>7. /\ Order(c.idx, c.iw, c.pend, n, lv) /\ Flight(c.idx, c.media, p, med)
      /\ \A k \in DOMAIN sg : k <= n
  BY DEF Good, MadeNow
<1>8. Leaves(c, f, m, v, x, sg, r, q)
  <2>1. CASE exists
    <3>1. f = SnapUpdate(e)
      BY <2>1 DEF ReadyIndex
    <3> HIDE DEF f
    <3>2. PICK s : Updated(e, f, s)
      BY <1>4, <1>6, <3>1, SnapUpdateDoes
    <3>3. n \in Made(c, sg, x) => n \in w
      BY <2>1 DEF MadeNow
    <3> QED
      BY <1>0, <1>1, <1>3, <1>6, <1>7, <3>2, <3>3, ReadyMadeDue DEF v
  <2>2. CASE ~exists
    <3> DEFINE y == IndexFree(e, n)
    <3>1. f = [y EXCEPT !.cut = 0]
      BY <1>4, <2>2 DEF ReadyIndex
    <3>2. IndexFreed(e, y, n)
      BY <1>4, <1>6, IndexFreeDoes DEF HeldIn
    <3>3. Chan(y)
      <4>1. Counted(e, z) /\ z \in Int /\ n \in Nat /\ n <= e.next
            /\ n \in DOMAIN e.idx /\ Good(e, m, lv, p, med, v, i)
            /\ FreeIn(e.idx, e.media, {})
        BY <1>0, <1>3, <1>4 DEF Leads, HeldIn
      <4> HIDE DEF z
      <4> QED
        BY <1>0, <4>1, IndexFreeGood DEF Good
    <3> HIDE DEF y, f
    <3>4. Keeps(y, f, {"cut"}) /\ f.cut = 0
      BY <3>1, <3>3 DEF Keeps, Fields, Chan
    <3>5. Skipped(c, f)
      BY <1>1, <1>3, <1>6, <1>7, <3>2, <3>3, <3>4, SkippedDoes
    <3>6. PICK a \in Int : a < n /\ Due(c, n, a, a, w, x, sg, r, q)
      BY DEF Dues
    <3>7. n \notin Made(c, sg, x)
      BY <2>2 DEF MadeNow, Made
    <3>8. Due(f, m, a, a, v, x, sg, r, q) /\ Less(c, f, sg, x)
      BY <1>0, <1>6, <3>5, <3>6, <3>7, SkippedDue DEF v
    <3>9. CutOK(f, x)
      BY <3>4 DEF CutOK
    <3>10. a < m
      BY <1>0, <3>6
    <3> QED
      BY <3>6, <3>8, <3>9, <3>10 DEF Leaves, Dues
  <2> QED
    BY <2>1, <2>2
<1> HIDE DEF f
<1>9. /\ Good(f, m, lv, p, med, v, i) /\ FreeIn(f.idx, f.media, {})
      /\ Counted(f, z) /\ Dues(f, m, v, x, sg, r, q)
  BY <1>0, <1>5, <1>8 DEF Leads, Leaves
<1> HIDE DEF z
<1>10. PICK b \in Int : b < m /\ Due(f, m, b, b, v, x, sg, r, q)
  BY <1>9 DEF Dues
<1>11. /\ Due(g, m, b, b, v, x, sg, r, q) /\ Less(f, g, sg, x)
       /\ CutOK(g, x)
  BY <1>0, <1>9, <1>10, FreeNonForcedDue DEF Dues
<1>12. /\ Good(g, m, lv, p, med, v, i) /\ FreeIn(g.idx, g.media, {})
       /\ Counted(g, z)
  BY <1>0, <1>9, FreeNonForcedGood
<1> HIDE DEF g
<1>13. Leaves(f, g, m, v, x, sg, r, q)
  BY <1>10, <1>11 DEF Leaves, Dues
<1>14. \A k \in DOMAIN sg : k < m
  BY <1>0, <1>7 DEF SegType
<1>15. Leaves(g, h, m, v, x, sg, r, q)
  BY <1>0, <1>12, <1>13, <1>14, AckFramesIdleDue DEF Leaves, z
<1>16. Chan(g) /\ Chan(h)
  BY <1>0, <1>12, AckFramesIdleGood DEF Good, Leads, z
<1> HIDE DEF h
<1>17. Leaves(c, g, m, v, x, sg, r, q)
  BY <1>6, <1>8, <1>13, <1>16, LeavesOn
<1> QED
  BY <1>6, <1>15, <1>16, <1>17, LeavesOn

\* A segment is created, and what is due is known of it, too.
LEMMA CreateDue ==
    ASSUME NEW c, NEW d, NEW S, NEW exists \in BOOLEAN, NEW n, NEW m,
           NEW lv \in Int, NEW med, NEW i, Standing(c, lv, med, i),
           med \subseteq Nat, c.next = n, m = n + 1, ~c.noFree,
           GetsSegment(c, d, S, exists), NEW w, w \subseteq {n},
           Trims(c, S, w), NEW x \in Int, x < 0, NEW sg, NEW r, NEW q,
           MadeNow(sg, n, exists, w), Dues(c, n, {}, x, sg, r, q), Chan(d)
    PROVE  Leaves(c, d, m, {}, x, sg, r, q)
<1> DEFINE p == BucketOf(n)
           u == {n}
           none == {}
           e == TimelineKeeps(c, S)
           f == IndexCreate(e)
           g == ReadyOf(f, exists)
           h == SegmentCreated(g, exists)
<1>1. /\ n \in Nat /\ m \in Nat /\ OneMore(n, m) /\ p \in Nat /\ p \in Int
      /\ u \subseteq {n} /\ S \subseteq c.tl \cup u /\ p <= BucketOf(n)
      /\ SegType(sg) /\ none = {}
  <2>1. n \in Nat
    BY DEF Standing, Good, Chan
  <2> QED
    BY <2>1, NextBucket DEF OneMore, Trims, MadeNow
<1>2. /\ Good(c, n, lv, p, med, none, i) /\ Counted(c, 0)
      /\ FreeIn(c.idx, c.media, {}) /\ lv < n
      /\ c.lastBucket \in {-1, p} /\ Chan(c)
  BY DEF Standing, LastOK, Good
<1>3. h = IndexReady(f, exists)
  BY DEF IndexReady, ReadyOf, ReadyMark, ReadyIndex
<1> HIDE DEF p, u, none
<1>4. Leads(c, e, TimelineFields, n, lv, p, med, u, i)
  BY <1>1, <1>2, TimelineKeepsGood
<1>5. Leaves(c, e, n, w, x, sg, r, q)
  BY <1>1, <1>2, TimelineKeepsDue
<1> HIDE DEF e
<1>6. e.next = n /\ e.lastBucket = c.lastBucket /\ ~e.noFree
  BY <1>4 DEF Leads, Keeps, Fields, TimelineFields, FreeFields
<1>7. e.cut = 0
  BY <1>4, <1>5 DEF Leaves, Dues, CutOK, Leads, Good, Chan
<1>8. /\ Good(f, m, lv, p, med, none, i) /\ Counted(f, 0)
      /\ FreeIn(f.idx, f.media, {}) /\ Created(e, f)
  BY <1>1, <1>2, <1>4, <1>6, IndexCreateGood DEF Leads, p
<1>9. Leaves(e, g, m, {}, x, sg, r, q)
  BY <1>1, <1>2, <1>4, <1>5, <1>6, <1>7, ReadyDue DEF Leads, Leaves
<1> HIDE DEF f
<1>10. /\ f.next = n /\ f.lastBucket = c.lastBucket /\ f.next \in HeldIn(f.idx)
  BY <1>6, <1>8 DEF Created, Keeps, Fields, HeldIn
<1>11. Leads(f, g, ReadyFields, m, lv, p, med, none, i)
  BY <1>1, <1>8, <1>10, ReadyGood
<1> HIDE DEF g
<1>12. g.next = n /\ g.lastBucket = c.lastBucket
  BY <1>10, <1>11
     DEF Leads, Keeps, Fields, ReadyFields, PersistFields, TrimFields,
         FreeFields, PassFields
<1>13. CreatedTo(g, h, m, lv, med, i)
  BY <1>1, <1>2, <1>11, <1>12, SegmentCreatedGood DEF Leads, p
<1>14. Leaves(g, h, m, {}, x, sg, r, q)
  BY <1>1, <1>2, <1>9, <1>11, <1>12, SegmentCreatedDue DEF Leads, Leaves, p
<1> HIDE DEF h
<1>15. Chan(e) /\ Chan(g) /\ Chan(h)
  BY <1>4, <1>11, <1>13 DEF CreatedTo, Leads, Good
<1>16. Leaves(h, d, m, {}, x, sg, r, q)
  <2> DEFINE F == {"fail", "noFree", "next"}
  <2>1. d = [Done(h) EXCEPT !.next = @ + 1]
    BY <1>3 DEF GetsSegment, f, e
  <2>2. Keeps(h, d, F)
    BY <1>15, <2>1 DEF Done, Keeps, Chan, Fields
  <2>3. F \cap DueFields = {}
    BY DEF DueFields
  <2> QED
    BY <1>14, <1>15, <2>2, <2>3, LeavesSame DEF Leaves
<1>17. Leaves(c, g, m, {}, x, sg, r, q)
  BY <1>2, <1>5, <1>9, <1>15, LeavesOn
<1>18. Leaves(c, h, m, {}, x, sg, r, q)
  BY <1>2, <1>14, <1>15, <1>17, LeavesOn
<1> QED
  BY <1>2, <1>15, <1>16, <1>18, LeavesOn

-----------------------------------------------------------------------------
(* The first and the last of some segments *)

\* Of two sets of segments, the one in the other is no greater.
LEMMA FewerSegments ==
    ASSUME NEW n \in Nat, NEW T, T \subseteq 0 .. n, NEW S, S \subseteq T
    PROVE  /\ Cardinality(S) \in Nat /\ Cardinality(T) \in Nat
           /\ Cardinality(S) <= Cardinality(T)
<1>1. IsFiniteSet(0 .. n)
  BY FS_Interval
<1>2. IsFiniteSet(T) /\ IsFiniteSet(S) /\ Cardinality(S) <= Cardinality(T)
  BY <1>1, FS_Subset
<1> QED
  BY <1>2, FS_CardinalityType

\* The newest are the last, and have the one that is new.
LEMMA NewestTrims ==
    ASSUME NEW c, NEW n \in Nat, c.tl \subseteq 0 .. n, NEW j \in Nat, j > 0
    PROVE  Trims(c, Newest(c.tl \cup {n}, j), {n})
<1> DEFINE T == c.tl \cup {n}
           From(k) == {i \in T : i >= k}
           S == Newest(T, j)
<1>1. T \subseteq 0 .. n /\ n \in T
  OBVIOUS
<1>2. S = {k \in T : Cardinality(From(k)) <= j}
  BY DEF Newest
<1>3. From(n) = {n}
  BY <1>1
<1>4. n \in S
  <2>1. Cardinality(From(n)) = 1
    BY <1>3, FS_Singleton
  <2> HIDE DEF From, S
  <2>2. Cardinality(From(n)) <= j
    BY <2>1
  <2> QED
    BY <1>1, <1>2, <2>2
<1>5. ASSUME NEW k \in c.tl \ S, NEW l \in S PROVE k < l
  <2>1. k \in T /\ l \in T /\ k \in Nat /\ l \in Nat
    <3>1. S \subseteq T
      BY <1>2
    <3> HIDE DEF S
    <3> QED
      BY <1>1, <3>1
  <2>2. SUFFICES ASSUME l <= k PROVE FALSE
    BY <2>1
  <2>3. From(k) \subseteq From(l) /\ From(l) \subseteq 0 .. n
    BY <1>1, <2>1, <2>2
  <2>4. /\ Cardinality(From(k)) \in Nat /\ Cardinality(From(l)) \in Nat
        /\ Cardinality(From(k)) <= Cardinality(From(l))
    BY <2>3, FewerSegments
  <2>5. Cardinality(From(l)) <= j /\ ~(Cardinality(From(k)) <= j)
    BY <1>2, <2>1
  <2> HIDE DEF From
  <2> QED
    BY <2>4, <2>5
<1>6. S \subseteq T
  BY <1>2
<1> HIDE DEF S
<1> QED
  BY <1>4, <1>5, <1>6 DEF Trims, S

\* What is left when the oldest are lost is the last.
LEMMA OldestTrims ==
    ASSUME NEW c, NEW n \in Nat, c.tl \subseteq 0 .. n, NEW j \in Nat
    PROVE  Trims(c, c.tl \ Oldest(c.tl, j), {})
<1> DEFINE T == c.tl
           To(k) == {i \in T : i <= k}
           S == T \ Oldest(T, j)
<1>1. Oldest(T, j) = {k \in T : Cardinality(To(k)) <= j}
  BY DEF Oldest
<1>2. ASSUME NEW k \in T \ S, NEW l \in S PROVE k < l
  <2>1. k \in T /\ l \in T /\ k \in Nat /\ l \in Nat
    OBVIOUS
  <2>2. SUFFICES ASSUME l <= k PROVE FALSE
    BY <2>1
  <2>3. To(l) \subseteq To(k) /\ To(k) \subseteq 0 .. n
    BY <2>1, <2>2
  <2>4. /\ Cardinality(To(k)) \in Nat /\ Cardinality(To(l)) \in Nat
        /\ Cardinality(To(l)) <= Cardinality(To(k))
    BY <2>3, FewerSegments
  <2>5. Cardinality(To(k)) <= j /\ ~(Cardinality(To(l)) <= j)
    BY <1>1, <2>1
  <2> HIDE DEF To
  <2> QED
    BY <2>4, <2>5
<1>3. S \subseteq T
  OBVIOUS
<1> HIDE DEF S
<1> QED
  BY <1>2, <1>3 DEF Trims, S

-----------------------------------------------------------------------------
(* Memory is low *)

\* What is due is due when more are promised to be excused.
LEMMA OtherDue ==
    ASSUME NEW c, NEW n, NEW a, NEW l, NEW u, NEW x, NEW y, NEW sg,
           NEW r, NEW q, Chan(c), Due(c, n, a, l, u, x, sg, r, q),
           Made(c, sg, y) \subseteq Made(c, sg, x)
    PROVE  Due(c, n, a, l, u, y, sg, r, q)
<1>1. Owed(c, sg, y) \subseteq Owed(c, sg, x)
  BY DEF Owed
<1>2. Shorter(c, c)
  BY DEF Shorter, Chan
<1>3. Records(c, n, u, x, sg)
  BY DEF Due
<1>4. Records(c, n, u, y, sg)
  BY <1>2, <1>3, ListsLess DEF Records
<1>5. SamePub(c, c) /\ SameHeld(c, c)
  BY DEF SamePub, SameHeld
<1> QED
  BY <1>1, <1>4, <1>5, LessDue

\* So is Less.
LEMMA OtherLess ==
    ASSUME NEW c, NEW d, NEW x, NEW y, NEW sg, Less(c, d, sg, y),
           Made(d, sg, x) \subseteq Made(d, sg, y),
           Made(c, sg, y) \subseteq Made(c, sg, x)
    PROVE  Less(c, d, sg, x)
<1>1. /\ Owed(d, sg, x) \subseteq Owed(d, sg, y)
      /\ Owed(c, sg, y) \subseteq Owed(c, sg, x)
  BY DEF Owed
<1> QED
  BY <1>1 DEF Less

\* What is due while indexes are freed: what was cut is below m.
LowDue(c, n, u, x, sg, r, q, m) ==
    /\ c.cut = 0 \/ c.cut < m
    /\ \E a \in Int : a < n /\ Due(c, n, a, a, u, x, sg, r, q)

\* The bucket of the index k is given up.
GivenUp(e, k) ==
    /\ e.cut = 0 \/ e.cut < k
    /\ ~FlightAt(e.media, k)
    /\ k \in DOMAIN e.idx => e.idx[k].persist # "ok"

\* The index k is freed after its bucket was given up: when it was lost, it is
\* what was cut, and when it was not, it is excused.
LEMMA GivenUpDue ==
    ASSUME NEW f, NEW k \in DOMAIN f.idx, NEW n \in Nat, NEW lv \in Int,
           NEW u, NEW x \in Int, NEW y \in Int, NEW sg, NEW r, NEW q,
           Chan(f), Chan(IndexFree(f, k)), SegType(sg), ~f.noFree,
           Order(f.idx, f.iw, f.pend, n, lv), GivenUp(f, k),
           x < 0, y < k, LowDue(f, n, u, y, sg, r, q, k)
    PROVE  LET g == IndexFree(f, k) IN
           /\ LowDue(g, n, u, x, sg, r, q, k + 1) /\ Less(f, g, sg, y)
           /\ Made(g, sg, x) \subseteq Made(g, sg, y)
<1> DEFINE g == IndexFree(f, k)
<1> SUFFICES /\ LowDue(g, n, u, x, sg, r, q, k + 1) /\ Less(f, g, sg, y)
             /\ Made(g, sg, x) \subseteq Made(g, sg, y)
  OBVIOUS
<1>1. k \in Nat /\ f.cut \in Nat /\ (f.cut = 0 \/ f.cut < k) /\ ~FlightAt(f.media, k)
  BY DEF Chan, IdxType, GivenUp
<1>2. PICK a \in Int : a < n /\ Due(f, n, a, a, u, y, sg, r, q)
  BY DEF LowDue
<1>3. /\ Due(g, n, a, a, u, y, sg, r, q) /\ Less(f, g, sg, y)
      /\ g.cut \in {f.cut, k}
  BY <1>1, <1>2, IndexFreeDue
<1>4. IndexFreed(f, g, k)
  BY IndexFreeDoes
<1>5. Chan(g)
  OBVIOUS
<1> HIDE DEF g
<1>6. g.cut = k \/ k <= g.excused
  <2>1. CASE ~f.idx[k].free
    <3>1. LostBy(f.idx[k])
      BY <2>1 DEF LostBy, GivenUp
    <3> QED
      BY <1>4, <3>1 DEF IndexFreed
  <2>2. CASE f.idx[k].free
    <3>1. k < f.min /\ f.min <= f.excused + 1
      BY <1>2, <2>2 DEF Due, Records
    <3>2. f.excused <= g.excused
      BY <1>3 DEF Less
    <3> QED
      BY <1>1, <1>5, <3>1, <3>2 DEF Chan
  <2> QED
    BY <2>1, <2>2
<1>7. Made(g, sg, x) \subseteq Made(g, sg, y)
  <2> SUFFICES ASSUME NEW j \in Made(g, sg, x) PROVE y < j
    BY DEF Made
  <2>1. /\ j \in Nat /\ g.excused < j
        /\ g.cut = 0 \/ g.cut < j
    BY DEF Made, SegType
  <2>2. g.excused \in Int /\ g.cut \in Nat
    BY <1>5 DEF Chan
  <2> QED
    BY <1>1, <1>6, <2>1, <2>2
<1>8. Due(g, n, a, a, u, x, sg, r, q)
  BY <1>3, <1>5, <1>7, OtherDue
<1>9. g.cut = 0 \/ g.cut < k + 1
  BY <1>1, <1>3
<1> QED
  BY <1>2, <1>3, <1>7, <1>8, <1>9 DEF LowDue

\* The write of the bucket of k ends: no segment that was not saved is.
LEMMA CancelMediaDue ==
    ASSUME NEW c, NEW k, NEW n \in Nat, NEW lv \in Int, NEW p \in Int,
           NEW med, NEW v, NEW i, Good(c, n, lv, p, med, v, i),
           Counted(c, 0), FreeIn(c.idx, c.media, {}), FlightAt(c.media, k),
           NEW u, NEW y \in Int, y < k, NEW sg, NEW r, NEW q, SegType(sg),
           Dues(c, n, u, y, sg, r, q), c.noFree
    PROVE  LET e == CancelMedia(c, k) IN
           /\ Leaves(c, e, n, u, y, sg, r, q) /\ GivenUp(e, k)
<1> DEFINE w == CHOOSE w \in c.media : w.at = k
           f == [c EXCEPT !.media = @ \ {w}]
           ok == FALSE
           b == w.bucket
           e == Persisted(f, b, ok)
           X == {w.at}
<1>1. w \in c.media /\ w.at = k
  BY DEF FlightAt
<1>2. CancelMedia(c, k) = e
  BY DEF CancelMedia, InFlight, FlightAt
<1> HIDE DEF w
<1>3. Keeps(c, f, {"media"}) /\ f.media = c.media \ {w}
  BY DEF Good, Chan, Keeps, Fields
<1> HIDE DEF f
<1>4. WriteEnds(c, f, w, ok, med, med) /\ ok \in BOOLEAN /\ ~ok
  BY <1>1, <1>3 DEF WriteEnds
<1> HIDE DEF ok
<1>5. Good(f, n, lv, p, med, v, i) /\ BucketEnds(f, b, ok, X, p, med)
  BY <1>4, WriteEndsGood
<1>6. f.idx = c.idx /\ f.iw = c.iw /\ f.pend = c.pend
      /\ f.snapshots = c.snapshots
  BY <1>3 DEF Keeps, Fields
<1>7. Counted(f, 0)
  BY <1>6 DEF Counted
<1>8. Chan(c) /\ Chan(f)
  BY <1>5 DEF Good
<1>9. Leaves(c, f, n, u, y, sg, r, q)
  <2>1. {"media"} \cap DueFields = {}
    BY DEF DueFields
  <2> QED
    BY <1>3, <1>8, <2>1, LeavesSame
<1>10. Leaves(f, e, n, u, y, sg, r, q)
  BY <1>5, <1>7, <1>9, PersistedDue DEF Leaves
<1>11. /\ Leads(c, e, MediaFields, n, lv, p, med, v, i)
       /\ SavedIf(c, e, ok)
  BY <1>4, WriteEndGood
<1>12. e.media = f.media
  <2>1. Leads(f, e, PersistFields, n, lv, p, med, v, i)
    BY <1>5, <1>7, PersistedGood
  <2> HIDE DEF e
  <2> QED
    BY <2>1 DEF Leads, Keeps, Fields, PersistFields, TrimFields, FreeFields,
                PassFields
<1> HIDE DEF e
<1>13. Chan(e)
  BY <1>11 DEF Leads, Good
<1>14. Leaves(c, e, n, u, y, sg, r, q)
  BY <1>8, <1>9, <1>10, <1>13, LeavesOn
<1>15. e.cut = 0 \/ e.cut < k
  <2>1. CutOK(e, y) /\ e.cut \in Nat /\ k \in Nat
    BY <1>1, <1>13, <1>14 DEF Leaves, Dues, Good, Chan, MediaType
  <2> QED
    BY <2>1 DEF CutOK
<1>16. ~FlightAt(e.media, k)
  <2> SUFFICES ASSUME NEW z \in c.media, z # w, z.at = k PROVE FALSE
    BY <1>3, <1>12 DEF FlightAt
  <2>1. FlightOK(c.idx, z, p, med) /\ FlightOK(c.idx, w, p, med)
        /\ (z.bucket = w.bucket => z = w)
    BY <1>1 DEF Good, Flight
  <2>2. z.bucket = BucketOf(k) /\ w.bucket = BucketOf(k)
    BY <1>1, <2>1 DEF FlightOK
  <2> QED
    BY <2>1, <2>2
<1>17. k \in DOMAIN e.idx => e.idx[k].persist # "ok"
  <2>1. FlightOK(c.idx, w, p, med)
    BY <1>1 DEF Good, Flight
  <2>2. c.idx[k].persist = "none"
    BY <1>1, <2>1 DEF FlightOK, PendingIn
  <2> QED
    BY <1>4, <1>11, <2>2 DEF SavedIf
<1>18. GivenUp(e, k)
  BY <1>15, <1>16, <1>17 DEF GivenUp
<1> QED
  BY <1>2, <1>14, <1>18

\* The handlers of one index, when memory is low.
LEMMA WatermarkOneDue ==
    ASSUME NEW c, NEW k \in DOMAIN c.idx, NEW n \in Nat, NEW lv \in Int,
           NEW p \in Int, NEW med, NEW v, NEW i,
           Good(c, n, lv, p, med, v, i), Counted(c, 0),
           FreeIn(c.idx, c.media, {}), NEW u, NEW x \in Int, x < 0, NEW sg,
           NEW r, NEW q, SegType(sg), LowDue(c, n, u, x, sg, r, q, k),
           Chan(WatermarkOne(c, k))
    PROVE  LET g == WatermarkOne(c, k) IN
           LowDue(g, n, u, x, sg, r, q, k + 1) /\ Less(c, g, sg, x)
<1> DEFINE y == IF c.cut = 0 THEN x ELSE c.cut
           d == [c EXCEPT !.noFree = TRUE]
           e == CancelMedia(d, k)
           f == [e EXCEPT !.noFree = FALSE]
           g == IndexFree(f, k)
           N == {"noFree"}
<1>1. WatermarkOne(c, k) = g
  BY DEF WatermarkOne
<1>a. Chan(g)
  BY <1>1
<1> HIDE DEF g
<1>b. /\ k \in Nat /\ c.cut \in Nat /\ Chan(c)
      /\ c.cut = 0 \/ c.cut < k
  BY DEF Good, Chan, IdxType, LowDue
<1>2. /\ k \in Nat /\ y \in Int /\ y < k /\ c.cut \in Nat /\ Chan(c) /\ Chan(g)
      /\ c.cut = 0 \/ c.cut <= y
      /\ c.cut = 0 \/ c.cut < k
  BY <1>a, <1>b
<1>3. Made(c, sg, y) = Made(c, sg, x)
  BY <1>2 DEF Made, SegType
<1> HIDE DEF y
<1>4. PICK a \in Int : a < n /\ Due(c, n, a, a, u, x, sg, r, q)
  BY DEF LowDue
<1>5. Dues(c, n, u, y, sg, r, q)
  <2>1. Due(c, n, a, a, u, y, sg, r, q)
    BY <1>2, <1>3, <1>4, OtherDue
  <2> QED
    BY <1>2, <1>4, <2>1 DEF Dues, CutOK
<1>6. /\ Leads(c, d, N, n, lv, p, med, v, i) /\ d.noFree /\ d.idx = c.idx
      /\ d.media = c.media
  BY NoFreeSet
<1> HIDE DEF d
<1>7. N \cap DueFields = {}
  BY DEF DueFields
<1>8. /\ Leads(d, e, MediaFields, n, lv, p, med, v, i)
      /\ DOMAIN e.idx = DOMAIN d.idx
  BY <1>6, CancelMediaGood DEF Leads
<1>9. InFlight(d, k) <=> FlightAt(c.media, k)
  BY <1>6 DEF InFlight, FlightAt
<1>10. /\ FlightAt(c.media, k) =>
            Leaves(d, e, n, u, y, sg, r, q) /\ GivenUp(e, k)
       /\ ~FlightAt(c.media, k) => e = d
  <2>1. Leaves(c, d, n, u, y, sg, r, q)
    BY <1>2, <1>5, <1>6, <1>7, LeavesSame DEF Leads, Good
  <2>2. CASE FlightAt(c.media, k)
    BY <1>2, <1>6, <2>1, <2>2, CancelMediaDue DEF Leads, Leaves
  <2>3. CASE ~FlightAt(c.media, k)
    BY <1>9, <2>3 DEF CancelMedia
  <2> QED
    BY <2>2, <2>3
<1> HIDE DEF e
<1>11. /\ Leads(e, f, N, n, lv, p, med, v, i)
       /\ ~f.noFree /\ f.idx = e.idx /\ f.media = e.media
  BY <1>8, NoFreeSet DEF Leads
<1> HIDE DEF f
<1>12. /\ Chan(d) /\ Chan(e) /\ Chan(f)
       /\ Order(f.idx, f.iw, f.pend, n, lv)
       /\ k \in DOMAIN f.idx
  BY <1>6, <1>8, <1>11 DEF Leads, Good
<1>13. Keeps(c, d, N) /\ Keeps(e, f, N)
  BY <1>6, <1>11 DEF Leads
<1> HIDE DEF N
<1>14. CASE FlightAt(c.media, k)
  <2>1. Leaves(c, d, n, u, y, sg, r, q)
    BY <1>2, <1>5, <1>7, <1>12, <1>13, LeavesSame
  <2>2. Leaves(d, e, n, u, y, sg, r, q) /\ GivenUp(e, k)
    BY <1>10, <1>14
  <2>3. Leaves(e, f, n, u, y, sg, r, q)
    BY <1>7, <1>12, <1>13, <2>2, LeavesSame DEF Leaves
  <2>4. Leaves(c, e, n, u, y, sg, r, q)
    BY <1>2, <1>12, <2>1, <2>2, LeavesOn
  <2>5. Leaves(c, f, n, u, y, sg, r, q)
    BY <1>2, <1>12, <2>3, <2>4, LeavesOn
  <2>6. f.cut \in Nat /\ CutOK(f, y)
    BY <1>12, <2>5 DEF Leaves, Dues, Chan
  <2>7. GivenUp(f, k) /\ LowDue(f, n, u, y, sg, r, q, k)
    BY <1>2, <1>11, <2>2, <2>5, <2>6
       DEF GivenUp, CutOK, LowDue, Leaves, Dues
  <2>8. /\ LowDue(g, n, u, x, sg, r, q, k + 1) /\ Less(f, g, sg, y)
        /\ Made(g, sg, x) \subseteq Made(g, sg, y)
    BY <1>2, <1>11, <1>12, <2>7, GivenUpDue DEF g
  <2>9. Less(c, g, sg, y)
    BY <1>2, <1>12, <2>5, <2>8, LessOn DEF Leaves
  <2>10. Less(c, g, sg, x)
    BY <1>3, <2>8, <2>9, OtherLess
  <2> QED
    BY <1>1, <2>8, <2>10
<1>15. CASE ~FlightAt(c.media, k)
  <2>1. e = d
    BY <1>10, <1>15
  <2>2. Due(d, n, a, a, u, x, sg, r, q) /\ Less(c, d, sg, x)
    BY <1>2, <1>4, <1>7, <1>12, <1>13, SameDue
  <2>3. Due(f, n, a, a, u, x, sg, r, q) /\ Less(d, f, sg, x)
    BY <1>7, <1>12, <1>13, <2>1, <2>2, SameDue
  <2>4. f.cut = c.cut
    BY <1>13, <2>1 DEF Keeps, Fields, N
  <2>5. ~FlightAt(f.media, k) /\ f.cut <= k
    BY <1>2, <1>6, <1>11, <1>15, <2>1, <2>4
  <2>6. /\ Due(g, n, a, a, u, x, sg, r, q) /\ Less(f, g, sg, x)
        /\ g.cut \in {f.cut, k}
    BY <1>2, <1>12, <2>3, <2>5, IndexFreeDue DEF g
  <2>7. g.cut = 0 \/ g.cut < k + 1
    BY <1>2, <2>4, <2>6
  <2>8. LowDue(g, n, u, x, sg, r, q, k + 1)
    BY <1>4, <2>6, <2>7 DEF LowDue
  <2>9. Less(c, f, sg, x)
    BY <1>2, <1>12, <2>2, <2>3, LessOn
  <2>10. Less(c, g, sg, x)
    BY <1>2, <1>12, <2>6, <2>9, LessOn
  <2> QED
    BY <1>1, <2>8, <2>10
<1> QED
  BY <1>14, <1>15

\* The indexes are handled in order.
LEMMA LowAllDue ==
    ASSUME NEW c, NEW K, NEW n \in Nat, NEW lv \in Int, NEW p \in Int,
           NEW med, NEW v, NEW i, NEW m \in Nat,
           Good(c, n, lv, p, med, v, i), Counted(c, 0),
           FreeIn(c.idx, c.media, {}), K \subseteq DOMAIN c.idx, m = c.next,
           NEW u, NEW x \in Int, x < 0, NEW sg, NEW r, NEW q,
           SegType(sg), Dues(c, n, u, x, sg, r, q)
    PROVE  LowDue(LowAll(c, K, m), n, u, x, sg, r, q, m)
           /\ Less(c, LowAll(c, K, m), sg, x)
<1>m. m \in Nat
  OBVIOUS
<1>1. PICK h : /\ h[0] = c /\ h[m] = LowAll(c, K, m)
               /\ \A j \in 0 .. m - 1 :
                    h[j + 1] = IF j \in K THEN WatermarkOne(h[j], j)
                               ELSE h[j]
  BY ONLY LowRunGives, <1>m
<1> DEFINE T(e, j) == LowSoFar(c, e, j, n, lv, p, med, v, i)
           D(e, j) == LowDue(e, n, u, x, sg, r, q, j) /\ Less(c, e, sg, x)
           S == {j \in Nat : T(h[j], j) /\ D(h[j], j)}
<1>0. Chan(c) /\ DOMAIN c.idx \subseteq Nat
  BY DEF Good, Chan, IdxType
<1>2. 0 \in S
  <2>1. Leads(c, c, LowFields, n, lv, p, med, v, i)
    BY LeadsNone
  <2>2. T(c, 0)
    BY <2>1 DEF LowSoFar
  <2>3. Less(c, c, sg, x)
    BY <1>0 DEF Less, SamePub, Chan
  <2>4. c.cut = 0
    BY <1>0 DEF Dues, CutOK, Chan
  <2>5. D(c, 0)
    BY <2>3, <2>4 DEF LowDue, Dues
  <2> QED
    BY <1>1, <2>2, <2>5
<1>3. ASSUME NEW j \in 0 .. m - 1, j \in S PROVE j + 1 \in S
  <2> DEFINE o == j + 1
             d == h[j]
             e == h[o]
  <2>1. /\ o \in Nat /\ o = j + 1 /\ j \in Nat /\ j < m
        /\ e = IF j \in K THEN WatermarkOne(d, j) ELSE d
        /\ T(d, j) /\ D(d, j)
    BY <1>1, <1>3
  <2> HIDE DEF o, d, e
  <2>2. d.next = m /\ Chan(d)
    BY <2>1 DEF LowSoFar, Leads, Keeps, Fields, LowFields, MediaFields, Good,
                PersistFields, TrimFields, FreeFields, PassFields
  <2>3. CASE j \in K
    <3>1. j \in DOMAIN d.idx /\ j <= d.next
      BY <2>1, <2>2, <2>3 DEF LowSoFar
    <3>2. Lowered(d, WatermarkOne(d, j), j, n, lv, p, med, v, i)
      BY <2>1, <3>1, WatermarkOneGood DEF LowSoFar, Leads
    <3>3. Lowered(d, e, j, n, lv, p, med, v, i) /\ e = WatermarkOne(d, j)
      BY <2>1, <2>3, <3>2
    <3>4. Leads(c, e, LowFields, n, lv, p, med, v, i)
      BY <2>1, <3>3, LeadsOn DEF LowSoFar, Lowered
    <3>5. T(e, o)
      BY <1>0, <2>1, <3>3, <3>4 DEF LowSoFar, Lowered
    <3>6. Chan(e)
      BY <3>4 DEF Leads, Good
    <3>7. LowDue(e, n, u, x, sg, r, q, o) /\ Less(d, e, sg, x)
      BY <2>1, <3>1, <3>3, <3>6, WatermarkOneDue DEF LowSoFar, Leads
    <3>8. D(e, o)
      BY <1>0, <2>1, <2>2, <3>6, <3>7, LessOn
    <3> QED
      BY <2>1, <3>5, <3>8 DEF o, e
  <2>4. CASE j \notin K
    <3>1. e = d
      BY <2>1, <2>4
    <3>2. d.cut = 0 \/ d.cut < o
      BY <2>1, <2>2 DEF LowDue, Chan
    <3>3. T(e, o) /\ D(e, o)
      BY <1>0, <2>1, <3>1, <3>2 DEF LowSoFar, LowDue
    <3> QED
      BY <2>1, <3>3 DEF o, e
  <2> QED
    BY <2>3, <2>4
<1>4. m \in S
  <2> HIDE DEF S
  <2> QED
    BY <1>2, <1>3, UpTo
<1> QED
  BY <1>1, <1>4

\* Memory is low: what leaves it, and was not saved, is excused.
LEMMA WatermarkDue ==
    ASSUME NEW c, NEW K, NEW lv \in Int, NEW med, NEW i,
           Standing(c, lv, med, i), K \subseteq DOMAIN c.idx,
           NEW u, NEW x \in Int, x < 0, NEW sg, NEW r, NEW q,
           SegType(sg), Dues(c, c.next, u, x, sg, r, q)
    PROVE  Leaves(c, Done(Truncated(InOrder(WatermarkOne, c, K, c.next))),
                  c.next, u, x, sg, r, q)
<1> DEFINE n == c.next
           p == BucketOf(n)
           none == {}
           z == 0
           d == LowAll(c, K, n)
           e == Truncated(d)
           f == Done(e)
<1>0. d = InOrder(WatermarkOne, c, K, c.next) /\ z = 0 /\ z \in Int
  BY DEF LowAll
<1>1. n \in Nat /\ n = c.next
  BY DEF Standing, Good, Chan
<1>2. p \in Int
  BY <1>1, SegmentPersistAssumption, Division DEF BucketOf
<1>3. /\ Good(c, n, lv, p, med, none, i) /\ Counted(c, 0)
      /\ FreeIn(c.idx, c.media, {}) /\ Dues(c, n, u, x, sg, r, q)
  BY DEF Standing
<1> SUFFICES Leaves(c, f, n, u, x, sg, r, q)
  BY <1>0
<1> HIDE DEF n, p, none, z
<1>4. Leads(c, d, LowFields, n, lv, p, med, none, i)
  BY <1>1, <1>2, <1>3, LowAllGood
<1>5. LowDue(d, n, u, x, sg, r, q, n) /\ Less(c, d, sg, x)
  BY <1>1, <1>2, <1>3, LowAllDue
<1> HIDE DEF d
<1>6. /\ Good(d, n, lv, p, med, none, i) /\ FreeIn(d.idx, d.media, {})
      /\ Counted(d, z)
  BY <1>0, <1>4 DEF Leads, z
<1>7. Good(e, n, lv, p, med, none, i)
  BY <1>0, <1>1, <1>6, TruncatedGood
<1>8. Chan(c) /\ Chan(d) /\ Chan(e)
  BY <1>3, <1>6, <1>7 DEF Good
<1>9. PICK a \in Int : a < n /\ Due(d, n, a, a, u, x, sg, r, q)
  BY <1>5 DEF LowDue
<1>10. Due(e, n, a, a, u, x, sg, r, q) /\ Less(d, e, sg, x) /\ e.cut = 0
  BY <1>8, <1>9, TruncatedDue
<1> HIDE DEF e
<1>11. Keeps(e, f, {"fail", "noFree"})
  BY <1>8 DEF Done, Keeps, Chan, Fields
<1>12. Chan(f)
  <2>1. f.noFree = FALSE /\ f.fail = {}
    BY <1>8 DEF Done, Chan, Fields
  <2> HIDE DEF f
  <2> QED
    BY <1>8, <1>11, <2>1 DEF Chan, Keeps, Fields
<1>13. Leaves(c, e, n, u, x, sg, r, q)
  <2>1. Less(c, e, sg, x)
    BY <1>5, <1>8, <1>10, LessOn
  <2> QED
    BY <1>9, <1>10, <2>1 DEF Leaves, Dues, CutOK
<1> HIDE DEF f
<1>14. Leaves(e, f, n, u, x, sg, r, q)
  <2>1. {"fail", "noFree"} \cap DueFields = {}
    BY DEF DueFields
  <2> QED
    BY <1>8, <1>11, <1>12, <1>13, <2>1, LeavesSame DEF Leaves
<1> QED
  BY <1>8, <1>12, <1>13, <1>14, LeavesOn

-----------------------------------------------------------------------------
(* Between the steps *)

\* Before the first segment.
Before == -1

\* How far the index in storage goes.
IndexEnd(st) == IF st.index = None THEN -1 ELSE st.index[1].max

\* What is due between the steps.
DuesAt(c, sg, st) ==
    Dues(c, c.next, {}, Before, sg, Recovered(st).max, IndexEnd(st))

\* The segments were made before the next index, of the publishers so far.
MadeAt(c, sg) ==
    /\ SegType(sg)
    /\ \A k \in DOMAIN sg :
            k < c.next /\ sg[k].pub \in Nat /\ sg[k].pub <= c.pub

\* The files that are read, now or when more is written, name all segments
\* of M that are in their part.
FilesName(st, M, e) ==
    /\ st.index # None => /\ st.index[1].file = "index"
                          /\ Names(st.index[1], M, e)
    /\ Alive(st) => Names(st.delta[1], M, e)

\* The inductive invariant of what is due.
DueInv ==
    /\ MadeAt(ch, seg) /\ DuesAt(ch, seg, store) /\ ~ch.noFree
    /\ ch.health # "stale" =>
            FilesName(store, Made(ch, seg, Before), ch.excused)
    /\ active => ch.acked <= ch.frames

\* No segment is before the first.
LEMMA BeforeAll == Before \in Int /\ Before < 0 /\ \A k \in Nat : Before < k
BY DEF Before

\* What is read back are all segments of M that are not beyond it.
LEMMA RecoveredHas ==
    ASSUME NEW st, StoreOK(st), NEW M, NEW e \in Int, FilesName(st, M, e),
           NEW k \in M, k \in Nat, e < k, k <= Recovered(st).max
    PROVE  k \in Recovered(st).tl
<1> DEFINE r == Recovered(st)
           i == st.index[1]
           d == st.delta[1]
<1>1. /\ st.index # None /\ i.max \in Nat /\ r.max \in Int
      /\ DeltaCounts(st) => r.max = d.max
      /\ ~DeltaCounts(st) => r.max = i.max
  <2>1. st.index # None
    BY RecoveredIs
  <2> QED
    BY <2>1, RecoveredIs, StoreNumbers DEF StoreOK
<1>2. i.file = "index" /\ Names(i, M, e)
  BY <1>1 DEF FilesName
<1>3. r.tl = IF DeltaCounts(st)
             THEN {j \in i.tl : d.trunc = 0 \/ j > d.trunc} \cup d.tl
             ELSE {j \in i.tl : i.trunc = 0 \/ j > i.trunc} \cup i.tl
  BY <1>1 DEF Recovered
<1>4. CASE DeltaCounts(st)
  <2>1. /\ st.delta # None /\ d.min = i.max + 1 /\ d.trunc \in Nat
        /\ d.max \in Nat
    BY <1>4, StoreNumbers DEF DeltaCounts, StoreOK
  <2>2. Alive(st)
    BY <1>1, <2>1 DEF Alive
  <2>3. Names(d, M, e)
    BY <2>2 DEF FilesName
  <2>4. d.trunc = 0 \/ k > d.trunc
    BY <2>1, <2>3 DEF Names, TruncOK
  <2>5. CASE k <= i.max
    <3>1. k \in i.tl
      BY <1>2, <2>5 DEF Names
    <3> QED
      BY <1>3, <1>4, <2>4, <3>1
  <2>6. CASE ~(k <= i.max)
    <3>1. d.min <= k /\ k <= d.max
      BY <1>1, <1>4, <2>1, <2>6
    <3>2. k \in d.tl
      BY <2>3, <3>1 DEF Names
    <3> QED
      BY <1>3, <1>4, <3>2
  <2> QED
    BY <2>5, <2>6
<1>5. CASE ~DeltaCounts(st)
  <2>1. k <= i.max
    BY <1>1, <1>5
  <2>2. k \in i.tl
    BY <1>2, <2>1 DEF Names
  <2> QED
    BY <1>3, <1>5, <2>2
<1> QED
  BY <1>4, <1>5

\* A segment that was acked, and is due, is read back.
LEMMA DueSaved ==
    ASSUME IInv, DueInv
    PROVE  AckedSaved
<1>1. PICK lv \in Int, fresh \in BOOLEAN : Safe(lv, fresh)
  BY DEF IInv
<1>2. StoreOK(store) /\ Chan(ch)
  BY <1>1, SafeStands DEF Safe
<1>3. /\ Stored(ch.idx, ch.tl, ch.iw, ch.unsaved, ch.health, store.media, {},
                Image(store, fresh))
  BY <1>1, SafeStands DEF Standing, Good
<1>4. ASSUME ch.health \in {"new", "ok"}, NEW k \in DOMAIN seg, Promised(k),
             k > ch.early
      PROVE  Saved(k)
  <2> DEFINE M == Made(ch, seg, Before)
             O == Owed(ch, seg, Before)
             n == ch.next
             none == {}
             r == Recovered(store).max
             q == IndexEnd(store)
  <2>1. /\ SegType(seg) /\ CutOK(ch, Before)
        /\ \E a \in Int : a < n /\ Due(ch, n, a, a, none, Before, seg, r, q)
    BY DEF DueInv, MadeAt, DuesAt, Dues
  <2>2. PICK a \in Int : a < n /\ Due(ch, n, a, a, none, Before, seg, r, q)
    BY <2>1
  <2>3. k \in Nat /\ ch.cut = 0 /\ ch.early \in Int /\ ch.excused \in Int
        /\ seg[k].id \in Nat /\ ch.acked \in Nat
    BY <1>2, <2>1, BeforeAll DEF SegType, CutOK, Chan
  <2>4. k \in M /\ ch.excused < k
    BY <1>4, <2>3, BeforeAll DEF Promised, Made
  <2>5. k \in O
    BY <1>4, <2>3, <2>4 DEF Promised, Owed
  <2>6. k <= a
    <3>1. Reached(O, ch, seg, a)
      BY <2>2 DEF Due, Owes, OwesOf
    <3> QED
      BY <1>4, <2>5, <3>1 DEF Reached, Promised
  <2>7. a <= r
    BY <1>4, <2>2 DEF Due, Level
  <2>8. r \in Int
    BY <1>2, RecoveredIs
  <2>9. FilesName(store, M, ch.excused)
    BY <1>4 DEF DueInv
  <2>10. k <= Recovered(store).max
    BY <2>3, <2>6, <2>7, <2>8
  <2> HIDE DEF M, O, r, q
  <2>11. k \in Recovered(store).tl
    BY <1>2, <2>3, <2>4, <2>9, <2>10, RecoveredHas
  <2>12. k \in ReadFrom(store)
    BY <1>2, <2>11, RecoveredIs
  <2>13. k \in store.media \cup ch.unsaved
    BY <1>3, <1>4, <2>12 DEF Stored, Image
  <2> QED
    BY <1>4, <2>11, <2>13 DEF Saved, Named, Promised
<1> QED
  BY <1>4 DEF AckedSaved

\* The files name less when less is to be named.
LEMMA FilesNameLess ==
    ASSUME NEW st \in StoreType, NEW new, SameFiles(st, new), NEW M, NEW N,
           NEW e \in Int, NEW g \in Int, FilesName(st, M, e), N \subseteq M,
           e <= g
    PROVE  FilesName(new, N, g)
<1>1. /\ st.index # None => st.index[1].trunc \in Nat
      /\ st.delta # None => st.delta[1].trunc \in Nat
  BY StoreNumbers
<1>2. \A w : Names(w, M, e) /\ w.trunc \in Nat => Names(w, N, g)
  BY DEF Names, TruncOK
<1>3. /\ new.index = st.index /\ new.delta = st.delta
      /\ Alive(new) <=> Alive(st)
  BY DEF SameFiles, Alive
<1>4. ASSUME st.index # None
      PROVE  st.index[1].file = "index" /\ Names(st.index[1], N, g)
  BY <1>1, <1>2, <1>4 DEF FilesName
<1>5. ASSUME Alive(st) PROVE Names(st.delta[1], N, g)
  <2>1. st.delta # None
    BY <1>5 DEF Alive
  <2> QED
    BY <1>1, <1>2, <1>5, <2>1 DEF FilesName
<1> QED
  BY <1>3, <1>4, <1>5 DEF FilesName

\* The files are what the server knows of, as long as the history says so.
LEMMA SafeKnown ==
    ASSUME IInv
    PROVE  /\ \E lv \in Int : Safe(lv, ch.health # "stale")
           /\ (ch.health # "stale") \in BOOLEAN
<1> DEFINE f == ch.health # "stale"
<1>1. PICK lv \in Int, fresh \in BOOLEAN : Safe(lv, fresh)
  BY DEF IInv
<1>2. f \in BOOLEAN /\ (f => fresh)
  BY <1>1 DEF Safe, Standing, Good, Stored, Image
<1>3. Standing(ch, lv, store.media, Image(store, f))
  BY <1>1, <1>2 DEF Safe, Standing, Good, Stored, History, Image
<1>4. Safe(lv, f)
  BY <1>1, <1>2, <1>3 DEF Safe
<1> QED
  BY <1>2, <1>4

\* What stands with them is not stale if it was not before.
LEMMA StaleStays ==
    ASSUME NEW d, NEW f \in BOOLEAN, NEW lv, NEW med, NEW st,
           Standing(d, lv, med, Image(st, f))
    PROVE  d.health # "stale" => f
BY DEF Standing, Good, Stored, Image

\* What is read of the same files
LEMMA SameReads ==
    ASSUME NEW st, NEW new, SameFiles(st, new)
    PROVE  Recovered(new) = Recovered(st) /\ IndexEnd(new) = IndexEnd(st)
BY DEF SameFiles, Recovered, DeltaCounts, IndexEnd

\* The channel ends the step with d, where it is not less known than c.
StepEnds(c, d) ==
    /\ c.next <= d.next /\ d.noFree = FALSE
    /\ d.health # "stale" => c.health # "stale"

\* A step starts with c: the channel of b, of which the track may get frames.
Starts(b, c) ==
    /\ Keeps(b, c, {"events", "frames", "fail"}) /\ Chan(c)
    /\ b.frames <= c.frames

\* What is due is the same then.
LEMMA StartsDue ==
    ASSUME NEW b, NEW c, NEW n, NEW u, NEW x, NEW sg, NEW r, NEW q,
           Chan(b), Starts(b, c)
    PROVE  /\ Made(c, sg, x) = Made(b, sg, x)
           /\ Owed(c, sg, x) = Owed(b, sg, x)
           /\ Dues(b, n, u, x, sg, r, q) => Dues(c, n, u, x, sg, r, q)
<1>1. /\ c.idx = b.idx /\ c.iw = b.iw /\ c.pend = b.pend
      /\ c.acked = b.acked /\ c.pub = b.pub /\ c.conn = b.conn
      /\ c.connected = b.connected /\ c.excused = b.excused
      /\ c.cut = b.cut /\ c.early = b.early /\ c.unsaved = b.unsaved
      /\ c.trunc = b.trunc /\ c.tl = b.tl /\ c.min = b.min
      /\ c.health = b.health /\ c.success = b.success
  BY DEF Starts, Keeps, Fields
<1>2. Made(c, sg, x) = Made(b, sg, x) /\ Owed(c, sg, x) = Owed(b, sg, x)
  BY <1>1 DEF Made, Owed
<1>3. ASSUME Dues(b, n, u, x, sg, r, q) PROVE Dues(c, n, u, x, sg, r, q)
  <2>1. PICK a \in Int : a < n /\ Due(b, n, a, a, u, x, sg, r, q)
    BY <1>3 DEF Dues
  <2>2. Owes(c, n, a, a, x, sg)
    BY <1>1, <1>2, <2>1
       DEF Due, Owes, OwesOf, Reached, FramesBehind, Behind, Mine
  <2>3. Records(c, n, u, x, sg) /\ Level(c, a, r, q)
    BY <1>1, <1>2, <2>1 DEF Due, Records, Lists, Level
  <2> QED
    BY <1>1, <1>3, <2>1, <2>2, <2>3 DEF Dues, Due, CutOK
<1> QED
  BY <1>2, <1>3

\* A step that makes no segment and reads no other files.
LEMMA StepDue ==
    ASSUME IInv, IInv', DueInv, SameFiles(store, store'), seg' = seg,
           active' => active, StepEnds(ch, ch'), NEW c, Starts(ch, c),
           Leaves(c, ch', ch'.next, {}, Before, seg, Recovered(store).max,
                  IndexEnd(store))
    PROVE  DueInv'
<1> DEFINE M == Made(ch, seg, Before)
           N == Made(ch', seg, Before)
           e == ch.excused
           g == ch'.excused
           x == Before
<1>1. PICK lv \in Int, fresh \in BOOLEAN : Safe(lv, fresh)
  BY DEF IInv
<1>2. Chan(ch) /\ store \in StoreType
  BY <1>1, SafeStands
<1>3. Chan(ch') /\ (ch'.connected => ch'.acked <= ch'.frames)
  <2>1. PICK k \in Int, f \in BOOLEAN : Safe(k, f)'
    BY DEF IInv
  <2> QED
    BY <2>1 DEF Safe, Standing, Good, Known
<1>4. Less(c, ch', seg, x) /\ Made(c, seg, x) = M
  BY <1>2, StartsDue DEF Leaves
<1>5. /\ e \in Int /\ g \in Int /\ ch.frames \in Nat /\ ch'.frames \in Nat
      /\ ch.acked \in Nat /\ ch.next \in Nat /\ ch'.next \in Nat
  BY <1>2, <1>3 DEF Chan
<1>6. /\ c.excused = ch.excused /\ c.pub = ch.pub /\ c.acked = ch.acked
      /\ c.connected = ch.connected /\ ch.frames <= c.frames
  BY DEF Starts, Keeps, Fields
<1>7. /\ N \subseteq M /\ e <= g /\ ch'.pub = ch.pub
      /\ ch'.connected = ch.connected /\ ch.frames <= ch'.frames
      /\ ch.connected \/ ch'.acked = ch.acked
  BY <1>4, <1>6 DEF Less, SamePub
<1>8. MadeAt(ch', seg')
  BY <1>5, <1>7 DEF DueInv, MadeAt, StepEnds, SegType
<1>9. DuesAt(ch', seg', store')
  <2>1. /\ Recovered(store') = Recovered(store)
        /\ IndexEnd(store') = IndexEnd(store)
    BY SameReads
  <2>2. Dues(ch', ch'.next, {}, x, seg, Recovered(store).max, IndexEnd(store))
    BY DEF Leaves
  <2> QED
    BY <2>1, <2>2 DEF DuesAt
<1>10. ASSUME ch'.health # "stale"
       PROVE  FilesName(store', Made(ch', seg', Before), ch'.excused)
  <2>1. FilesName(store, M, e)
    BY <1>10 DEF DueInv, StepEnds
  <2>2. N = Made(ch', seg', Before)
    OBVIOUS
  <2> HIDE DEF M, N, e
  <2>3. FilesName(store', N, g)
    BY <1>2, <1>5, <1>7, <2>1, FilesNameLess
  <2> QED
    BY <2>2, <2>3
<1>11. ASSUME active' PROVE ch'.acked <= ch'.frames
  BY <1>3, <1>5, <1>7, <1>11 DEF DueInv
<1>12. ~ch'.noFree
  BY DEF StepEnds
<1> QED
  BY <1>8, <1>9, <1>10, <1>11, <1>12 DEF DueInv

-----------------------------------------------------------------------------
(* The publisher and the user *)

\* The publisher of c comes or goes; a new one was acked nothing yet.
PubStep(c, d) ==
    /\ Keeps(c, d, {"connected", "conn", "frames", "acked", "pub", "events"})
    /\ ~d.connected \/ d.conn = c.conn + 1
    /\ \/ d.pub = c.pub /\ d.acked = c.acked
       \/ d.pub = c.pub + 1

\* No frames that are known are its own.
LEMMA PubStepDue ==
    ASSUME NEW c, NEW d, NEW n, NEW u, NEW x, NEW sg, NEW r, NEW q,
           Chan(c), Chan(d), MadeAt(c, sg), PubStep(c, d),
           Known(c.idx, c.iw, c.pend, c.conn, c.connected, c.frames, c.acked),
           Dues(c, n, u, x, sg, r, q)
    PROVE  Dues(d, n, u, x, sg, r, q) /\ Made(d, sg, x) = Made(c, sg, x)
<1>1. /\ d.idx = c.idx /\ d.iw = c.iw /\ d.pend = c.pend
      /\ d.excused = c.excused /\ d.cut = c.cut /\ d.early = c.early
      /\ d.unsaved = c.unsaved /\ d.min = c.min /\ d.tl = c.tl
      /\ d.trunc = c.trunc /\ d.health = c.health /\ d.success = c.success
  BY DEF PubStep, Keeps, Fields
<1>2. Made(d, sg, x) = Made(c, sg, x)
  BY <1>1 DEF Made
<1>3. Owed(d, sg, x) = Owed(c, sg, x)
  BY <1>1, <1>2 DEF Owed
<1>4. PICK a \in Int : a < n /\ Due(c, n, a, a, u, x, sg, r, q)
  BY DEF Dues
<1> DEFINE O == Owed(c, sg, x)
<1>5. OwesOf(c, n, a, a, O, sg)
  BY <1>4 DEF Due, Owes
<1>6. Reached(O, d, sg, a)
  <2>1. CASE d.pub = c.pub /\ d.acked = c.acked
    BY <1>5, <2>1 DEF OwesOf, Reached
  <2>2. CASE d.pub = c.pub + 1
    <3>1. \A k \in O : sg[k].pub \in Nat /\ sg[k].pub <= c.pub
      BY DEF MadeAt, Owed, Made
    <3>2. c.pub \in Nat
      BY DEF Chan
    <3> QED
      BY <2>2, <3>1, <3>2 DEF Reached
  <2> QED
    BY <2>1, <2>2 DEF PubStep
<1>7. \A f \in FrameType : f.conn <= c.conn => ~Mine(d, f)
  BY DEF PubStep, Mine, Chan, FrameType
<1>8. FramesBehind(O, d, sg)
  <2>1. /\ c.iw # None => c.iw[1].frames.conn <= c.conn
        /\ c.pend # None => c.pend[1].frames.conn <= c.conn
        /\ \A j \in HeldIn(c.idx) : c.idx[j].snap[1].frames.conn <= c.conn
    BY DEF Known, FrameOK
  <2>2. /\ c.iw # None => ~Mine(d, c.iw[1].frames)
        /\ c.pend # None => ~Mine(d, c.pend[1].frames)
        /\ \A j \in HeldIn(c.idx) : ~Mine(d, c.idx[j].snap[1].frames)
    BY <1>7, <2>1, ChanFrames
  <2> QED
    BY <1>1, <2>2 DEF FramesBehind, Behind
<1>9. Owes(d, n, a, a, x, sg)
  BY <1>1, <1>3, <1>5, <1>6, <1>8 DEF Owes, OwesOf
<1>10. Records(d, n, u, x, sg) /\ Level(d, a, r, q)
  BY <1>1, <1>2, <1>4 DEF Due, Records, Lists, Level
<1>11. Dues(d, n, u, x, sg, r, q)
  BY <1>1, <1>4, <1>9, <1>10 DEF Dues, Due, CutOK
<1> QED
  BY <1>2, <1>11

\* The publisher comes and goes.
LEMMA PublisherDue ==
    ASSUME IInv, DueInv, PubStep(ch, ch'), Chan(ch'), store' = store,
           seg' = seg, active' = active, ch.pub <= ch'.pub,
           \/ ch'.acked <= ch'.frames
           \/ ch'.acked = ch.acked /\ ch'.frames = ch.frames
    PROVE  DueInv'
<1> DEFINE r == Recovered(store).max
           q == IndexEnd(store)
           n == ch.next
           none == {}
           x == Before
<1>1. PICK lv \in Int, fresh \in BOOLEAN : Safe(lv, fresh)
  BY DEF IInv
<1>2. /\ Chan(ch)
      /\ Known(ch.idx, ch.iw, ch.pend, ch.conn, ch.connected, ch.frames,
               ch.acked)
  BY <1>1, SafeStands
<1>3. MadeAt(ch, seg) /\ Dues(ch, n, none, x, seg, r, q)
  BY DEF DueInv, DuesAt
<1>4. /\ ch'.next = ch.next /\ ch'.noFree = ch.noFree
      /\ ch'.health = ch.health /\ ch'.excused = ch.excused
  BY DEF PubStep, Keeps, Fields
<1> HIDE DEF r, q, n, none, x
<1>5. Dues(ch', n, none, x, seg, r, q) /\ Made(ch', seg, x) = Made(ch, seg, x)
  BY <1>2, <1>3, PubStepDue
<1>6. MadeAt(ch', seg')
  BY <1>2, <1>3, <1>4 DEF MadeAt, SegType, Chan
<1>7. DuesAt(ch', seg', store')
  BY <1>4, <1>5 DEF DuesAt, n, none, x, r, q
<1>8. ch'.health # "stale" =>
            FilesName(store', Made(ch', seg', Before), ch'.excused)
  BY <1>4, <1>5 DEF DueInv, x
<1>9. active' => ch'.acked <= ch'.frames
  BY DEF DueInv
<1> QED
  BY <1>4, <1>6, <1>7, <1>8, <1>9 DEF DueInv

\* What the publisher does is such a step.
LEMMA PublisherSteps ==
    ASSUME Chan(ch),
           Connect \/ Disconnect \/ \E again \in BOOLEAN : ConnectBack(again)
    PROVE  /\ PubStep(ch, ch') /\ store' = store /\ seg' = seg
           /\ active' = active /\ ch.pub <= ch'.pub
           /\ \/ ch'.acked <= ch'.frames
              \/ ch'.acked = ch.acked /\ ch'.frames = ch.frames
<1>0. /\ DOMAIN ch = Fields /\ ch.frames \in Nat /\ ch.acked \in Nat
      /\ ch.pub \in Nat /\ ch.conn \in Nat
  BY ChanCounts
<1> DEFINE F == {"connected", "conn", "frames", "acked", "pub", "events"}
<1>1. CASE Connect
  <2> DEFINE frames == Bigger(ch.frames, ch.acked)
  <2>1. ch' = [ch EXCEPT !.connected = TRUE, !.conn = @ + 1,
                         !.frames = frames]
    BY <1>1 DEF Connect
  <2>2. ch.acked <= frames
    BY <1>0 DEF Bigger
  <2> HIDE DEF frames
  <2>3. /\ Keeps(ch, ch', F) /\ ch'.conn = ch.conn + 1
        /\ ch'.frames = frames /\ ch'.acked = ch.acked /\ ch'.pub = ch.pub
    BY <1>0, <2>1 DEF Keeps, Fields
  <2> QED
    BY <1>0, <1>1, <2>2, <2>3 DEF PubStep, Connect
<1>2. CASE Disconnect
  <2>1. ch' = [ch EXCEPT !.events = @ + 1, !.connected = FALSE]
    BY <1>2 DEF Disconnect, Event
  <2>2. /\ Keeps(ch, ch', F) /\ ch'.connected = FALSE
        /\ ch'.frames = ch.frames /\ ch'.acked = ch.acked /\ ch'.pub = ch.pub
    BY <1>0, <2>1 DEF Keeps, Fields
  <2> QED
    BY <1>0, <1>2, <2>2 DEF PubStep, Disconnect
<1>3. ASSUME NEW again \in BOOLEAN, ConnectBack(again)
      PROVE  /\ PubStep(ch, ch') /\ store' = store /\ seg' = seg
             /\ active' = active /\ ch.pub <= ch'.pub
             /\ ch'.acked <= ch'.frames
  <2> DEFINE from == IF again THEN 0 ELSE ch.acked
             pub == IF again THEN ch.pub + 1 ELSE ch.pub
             e == Event(ch)
  <2>1. Keeps(ch, e, {"events"}) /\ DOMAIN e = Fields
    BY <1>0 DEF Event, Keeps, Fields
  <2>2. e.pub = ch.pub /\ e.conn = ch.conn
    BY <2>1 DEF Keeps, Fields
  <2>3. ch' = [e EXCEPT !.connected = TRUE, !.conn = @ + 1,
                        !.frames = from, !.acked = from, !.pub = pub]
    BY <1>3, <2>2 DEF ConnectBack
  <2>4. /\ from \in Nat /\ \/ pub = ch.pub /\ from = ch.acked
                           \/ pub = ch.pub + 1
    BY <1>0
  <2> HIDE DEF e, from, pub
  <2>5. /\ Keeps(e, ch', F) /\ ch'.conn = e.conn + 1 /\ ch'.frames = from
        /\ ch'.acked = from /\ ch'.pub = pub
    BY <2>1, <2>3 DEF Keeps, Fields
  <2>6. Keeps(ch, ch', F)
    BY <2>1, <2>5 DEF Keeps
  <2>7. PubStep(ch, ch')
    BY <2>2, <2>4, <2>5, <2>6 DEF PubStep
  <2>8. store' = store /\ seg' = seg /\ active' = active
    BY <1>3 DEF ConnectBack
  <2>9. ch.pub <= ch'.pub /\ ch'.acked <= ch'.frames
    BY ONLY <1>0, <2>4, <2>5
  <2> QED
    BY ONLY <2>7, <2>8, <2>9
<1> QED
  BY <1>1, <1>2, <1>3

\* The publisher comes and goes.
LEMMA ConnectDue ==
    ASSUME IInv, IInv', DueInv,
           Connect \/ Disconnect \/ \E again \in BOOLEAN : ConnectBack(again)
    PROVE  DueInv'
<1>1. Chan(ch)
  BY SafeStands DEF IInv
<1>2. Chan(ch')
  BY DEF IInv, Safe, Standing, Good
<1> QED
  BY <1>1, <1>2, PublisherSteps, PublisherDue

\* A frame makes the channel active.
LEMMA ActivateDue ==
    ASSUME IInv, DueInv, Activate
    PROVE  DueInv'
<1>1. Chan(ch) /\ (ch.connected => ch.acked <= ch.frames)
  BY SafeStands DEF IInv, Known
<1> QED
  BY <1>1 DEF Activate, DueInv, DuesAt, MadeAt

\* The past is edited.
LEMMA HistoryChangedDue ==
    ASSUME IInv, IInv', DueInv, HistoryChanged
    PROVE  DueInv'
<1> DEFINE r == Recovered(store).max
           q == IndexEnd(store)
           n == ch.next
           none == {}
           x == Before
           F == {"events", "changed", "hist"}
<1>1. Chan(ch) /\ Chan(ch')
  BY SafeStands DEF IInv, Safe, Standing, Good
<1>2. DOMAIN ch = Fields
  BY <1>1 DEF Chan
<1>3. ch' = [ch EXCEPT !.events = @ + 1, !.changed = ch.next, !.hist = @ + 1]
  <2>1. /\ Event(ch) = [ch EXCEPT !.events = @ + 1]
        /\ Event(ch).hist = ch.hist
    BY <1>2 DEF Event, Fields
  <2> QED
    BY <1>2, <2>1 DEF HistoryChanged, Fields
<1>4. Keeps(ch, ch', F) /\ F \cap DueFields = {}
  BY <1>2, <1>3 DEF Keeps, Fields, DueFields
<1>5. Dues(ch, n, none, x, seg, r, q)
  BY DEF DueInv, DuesAt
<1>6. /\ ch'.next = n /\ ch'.frames = ch.frames /\ ch'.noFree = ch.noFree
      /\ ch'.health = ch.health
  BY <1>4 DEF Keeps, Fields
<1> HIDE DEF r, q, n, none, x, F
<1>7. Leaves(ch, ch', n, none, x, seg, r, q)
  BY <1>1, <1>4, <1>5, LeavesSame
<1>8. StepEnds(ch, ch')
  BY <1>1, <1>6 DEF StepEnds, DueInv, Chan, n
<1>9. Leaves(ch, ch', ch'.next, {}, Before, seg, Recovered(store).max,
             IndexEnd(store))
  BY <1>6, <1>7 DEF r, q, none, x
<1>10. SameFiles(store, store') /\ seg' = seg /\ (active' => active)
  BY DEF HistoryChanged, SameFiles
<1>11. Starts(ch, ch)
  BY <1>1 DEF Starts, Keeps, Chan
<1> QED
  BY <1>8, <1>9, <1>10, <1>11, StepDue

\* An event is counted, and something may fail.
LEMMA FailingStarts ==
    ASSUME NEW c, Chan(c), NEW e \in {c, Event(c)}, NEW F
    PROVE  Starts(c, Failing(e, F))
<1> DEFINE d == Failing(e, F)
<1>1. Chan(d) /\ Keeps(c, d, {"events", "fail"})
  BY FailingDoes
<1> HIDE DEF d
<1>2. d.frames = c.frames /\ c.frames \in Nat
  BY <1>1 DEF Keeps, Fields, Chan
<1>3. Starts(c, d)
  BY <1>1, <1>2 DEF Starts, Keeps
<1> QED
  BY <1>3 DEF d

\* The track gets a frame, too.
LEMMA FramedStarts ==
    ASSUME NEW c, Chan(c), NEW b \in {c, Event(c)}, NEW F
    PROVE  LET d == Failing([b EXCEPT !.frames = @ + 1], F) IN
           Starts(c, d) /\ d.frames = c.frames + 1
<1> DEFINE e == [b EXCEPT !.frames = @ + 1]
           d == Failing(e, F)
           none == {}
<1>1. /\ DOMAIN c = Fields /\ c.events \in Nat /\ c.frames \in Nat
  BY ChanCounts
<1>2. Failing(b, none) = b
  BY DEF Failing
<1> HIDE DEF none
<1>3. Chan(b) /\ Keeps(c, b, {"events", "fail"})
  BY <1>2, FailingDoes
<1>4. DOMAIN b = Fields /\ b.frames = c.frames
  BY <1>1, <1>3 DEF Keeps, Fields
<1>5. Keeps(b, e, {"frames"}) /\ e.frames = c.frames + 1
  BY <1>4 DEF Keeps, Fields
<1> HIDE DEF e
<1>6. Chan(e)
  <2>1. e.frames \in Nat
    BY <1>1, <1>5
  <2> QED
    BY <1>3, <1>5, <2>1 DEF Chan, Keeps, Fields
<1>7. Chan(d) /\ Keeps(e, d, {"events", "fail"})
  BY <1>6, FailingDoes
<1> HIDE DEF d
<1>8. d.frames = c.frames + 1
  BY <1>5, <1>7 DEF Keeps, Fields
<1>9. Keeps(c, d, {"events", "frames", "fail"})
  BY <1>3, <1>5, <1>7 DEF Keeps
<1>10. Starts(c, d) /\ d.frames = c.frames + 1
  BY <1>1, <1>7, <1>8, <1>9 DEF Starts
<1> QED
  BY <1>10 DEF d, e

\* Frames are dropped.
LEMMA DisposeFramesDue ==
    ASSUME IInv, IInv', DueInv, DisposeFrames
    PROVE  DueInv'
<1> DEFINE b == Event(ch)
           none == {}
           c == Failing([b EXCEPT !.frames = @ + 1], none)
           r == Recovered(store).max
           q == IndexEnd(store)
           n == ch.next
           p == BucketOf(n)
           x == Before
           g == store.media
           f == ch.health # "stale"
           i == Image(store, f)
<1>1. PICK lv \in Int : Safe(lv, f)
  BY SafeKnown
<1>2. f \in BOOLEAN
  OBVIOUS
<1>3. Standing(ch, lv, g, i) /\ Chan(ch)
  BY <1>1, <1>2, SafeStands
<1>4. /\ ch' = AckFramesIdle(c) /\ SameFiles(store, store') /\ seg' = seg
      /\ active' => active
  BY DEF DisposeFrames, Failing, SameFiles
<1>5. b \in {ch, Event(ch)} /\ x \in Int
  BY BeforeAll
<1>6. MadeAt(ch, seg) /\ Dues(ch, n, none, x, seg, r, q)
  BY DEF DueInv, DuesAt
<1> HIDE DEF b, none, r, q, x, g, i
<1>7. StandingAt(c, n, lv, g, i, ch.success) /\ Starts(ch, c)
  BY <1>3, <1>5, FramedStanding, FramedStarts
<1> HIDE DEF c
<1>8. Dues(c, n, none, x, seg, r, q)
  BY <1>3, <1>6, <1>7, StartsDue
<1>9. /\ Good(c, n, lv, p, g, none, i) /\ Counted(c, 0)
      /\ FreeIn(c.idx, c.media, {}) /\ n \in Nat
  BY <1>3, <1>7 DEF StandingAt, Standing, none, Chan
<1>10. SegType(seg) /\ \A k \in DOMAIN seg : k < n
  BY <1>6 DEF MadeAt
<1> HIDE DEF n, p
<1>11. Leaves(c, ch', n, none, x, seg, r, q)
  BY <1>4, <1>5, <1>8, <1>9, <1>10, AckFramesIdleDue
<1>12. Leads(c, ch', {"acked"}, n, lv, p, g, none, i)
  BY <1>4, <1>9, AckFramesIdleGood
<1>13. /\ ch'.next = ch.next /\ ch'.noFree = ch.noFree
       /\ ch'.health = ch.health
  BY <1>7, <1>12 DEF Leads, Starts, Keeps, Fields
<1>14. StepEnds(ch, ch')
  <2>1. ch.noFree = FALSE /\ ch.next <= ch.next
    BY <1>3 DEF DueInv, Chan
  <2> QED
    BY <1>13, <2>1 DEF StepEnds
<1>15. Leaves(c, ch', ch'.next, {}, Before, seg, Recovered(store).max,
              IndexEnd(store))
  BY <1>11, <1>13 DEF n, none, x, r, q
<1> QED
  BY <1>4, <1>7, <1>14, <1>15, StepDue

\* The step ends, and what is due stays.
LEMMA DoneDue ==
    ASSUME NEW c, NEW d, NEW n, NEW u, NEW x, NEW sg, NEW r, NEW q,
           Chan(c), Chan(d), Leaves(c, d, n, u, x, sg, r, q)
    PROVE  /\ Leaves(c, Done(d), n, u, x, sg, r, q) /\ Chan(Done(d))
           /\ Done(d).noFree = FALSE /\ Done(d).next = d.next
<1> DEFINE f == Done(d)
           F == {"fail", "noFree"}
<1>1. /\ Keeps(d, f, F) /\ f.noFree = FALSE
  BY DEF Done, Keeps, Chan, Fields
<1> SUFFICES /\ Leaves(c, f, n, u, x, sg, r, q) /\ Chan(f)
             /\ f.noFree = FALSE /\ f.next = d.next
  OBVIOUS
<1> HIDE DEF f
<1>2. f.next = d.next
  BY <1>1 DEF Keeps, Fields
<1>3. Chan(f)
  BY <1>1 DEF Chan, Keeps, Fields
<1>4. F \cap DueFields = {}
  BY DEF DueFields
<1>5. Leaves(d, f, n, u, x, sg, r, q)
  BY <1>1, <1>3, <1>4, LeavesSame DEF Leaves
<1>6. Leaves(c, f, n, u, x, sg, r, q)
  BY <1>3, <1>5, LeavesOn
<1> QED
  BY <1>1, <1>2, <1>3, <1>6

\* What is known of the channel when a step starts
Begun(c, lv) ==
    /\ StandingAt(c, ch.next, lv, store.media,
                  Image(store, ch.health # "stale"), ch.success)
    /\ Starts(ch, c)
    /\ Dues(c, ch.next, {}, Before, seg, Recovered(store).max,
            IndexEnd(store))

\* is known of it when an event was counted and something may fail.
LEMMA StepBegins ==
    ASSUME IInv, DueInv, NEW b \in {ch, Event(ch)}, NEW F
    PROVE  \E lv \in Int : Begun(Failing(b, F), lv) /\ Chan(ch)
<1> DEFINE f == ch.health # "stale"
           c == Failing(b, F)
           i == Image(store, f)
           n == ch.next
           g == store.media
           r == Recovered(store).max
           q == IndexEnd(store)
           none == {}
           x == Before
<1>1. PICK lv \in Int : Safe(lv, f)
  BY SafeKnown
<1>2. f \in BOOLEAN
  OBVIOUS
<1>3. Standing(ch, lv, g, i) /\ Chan(ch)
  BY <1>1, <1>2, SafeStands
<1>4. Dues(ch, n, none, x, seg, r, q)
  BY DEF DueInv, DuesAt
<1> HIDE DEF i, n, g, r, q, none, x
<1>5. Starts(ch, c)
  BY <1>3, FailingStarts
<1>6. StandingAt(c, n, lv, g, i, ch.success)
  BY <1>3, FailingStanding DEF n
<1> HIDE DEF c
<1>7. Dues(c, n, none, x, seg, r, q)
  BY <1>3, <1>4, <1>5, StartsDue
<1>8. Begun(c, lv)
  BY <1>5, <1>6, <1>7 DEF Begun, i, n, g, none, x, r, q
<1> QED
  BY <1>3, <1>8 DEF c

\* When a step that makes no segment, and reads no other files, is done, what
\* is due was kept.
LEMMA StepDoneDue ==
    ASSUME IInv, IInv', DueInv, SameFiles(store, store'), seg' = seg,
           active' => active, NEW c, NEW lv, Begun(c, lv), NEW d, Chan(d),
           ch' = Done(d), NEW med, StandingAt(ch', ch.next, lv, med,
                              Image(store, ch.health # "stale"), ch.success),
           Leaves(c, d, ch.next, {}, Before, seg, Recovered(store).max,
                  IndexEnd(store))
    PROVE  DueInv'
<1> DEFINE f == ch.health # "stale"
           n == ch.next
           r == Recovered(store).max
           q == IndexEnd(store)
           none == {}
           x == Before
<1>1. Chan(c) /\ Starts(ch, c) /\ Leaves(c, d, n, none, x, seg, r, q)
  BY DEF Begun, Starts
<1>2. f \in BOOLEAN
  OBVIOUS
<1>3. /\ Standing(ch', lv, med, Image(store, f)) /\ ch'.next = n
  BY DEF StandingAt
<1>4. ch'.health # "stale" => f
  BY <1>2, <1>3, StaleStays
<1> HIDE DEF n, r, q, none, x
<1>5. /\ Leaves(c, ch', n, none, x, seg, r, q) /\ ch'.noFree = FALSE
  BY <1>1, DoneDue
<1>6. n \in Nat
  BY <1>3 DEF Standing, Good, Chan
<1>7. StepEnds(ch, ch')
  BY <1>3, <1>4, <1>5, <1>6 DEF StepEnds, n
<1>8. Leaves(c, ch', ch'.next, {}, Before, seg, Recovered(store).max,
             IndexEnd(store))
  BY <1>3, <1>5 DEF none, x, r, q
<1> QED
  BY <1>1, <1>7, <1>8, StepDue

\* The timeline of a channel that stands
LEMMA StandingTimeline ==
    ASSUME NEW c, NEW lv, NEW med, NEW i, Standing(c, lv, med, i)
    PROVE  c.next \in Nat /\ c.tl \subseteq 0 .. c.next
BY DEF Standing, Good, Scalars, Chan

\* The timeline of a channel that is inactive loses segments.
LEMMA CleanupDue ==
    ASSUME IInv, IInv', DueInv, NEW j, TimelinesCleanup(j)
    PROVE  DueInv'
<1> DEFINE b == Event(ch)
           none == {}
           c == Failing(b, none)
           S == ch.tl \ Oldest(ch.tl, j)
           d == TimelineKeeps(c, S)
           r == Recovered(store).max
           q == IndexEnd(store)
           n == ch.next
           p == BucketOf(n)
           x == Before
           g == store.media
           i == Image(store, ch.health # "stale")
<1>1. /\ ch' = Done(d) /\ SameFiles(store, store') /\ seg' = seg
      /\ active' => active
  BY DEF TimelinesCleanup, Failing, SameFiles
<1>2. b \in {ch, Event(ch)} /\ x \in Int
  BY BeforeAll
<1> HIDE DEF b
<1>3. PICK lv \in Int : Begun(c, lv) /\ Chan(ch)
  BY <1>2, StepBegins
<1> HIDE DEF none
<1>4. /\ Standing(c, lv, g, i) /\ c.next = n /\ c.success = ch.success
      /\ Dues(c, n, none, x, seg, r, q) /\ Starts(ch, c) /\ Chan(c)
  BY <1>3 DEF Begun, StandingAt, Starts, none
<1> HIDE DEF c
<1>5. c.tl = ch.tl /\ n \in Nat /\ c.tl \subseteq 0 .. n
  BY <1>4, StandingTimeline DEF Starts, Keeps, Fields
<1>6. j \in Nat
  <2>1. Cardinality(ch.tl) \in Nat
    BY <1>5, FewerSegments
  <2> QED
    BY <2>1 DEF TimelinesCleanup
<1>7. Trims(c, S, none)
  BY <1>5, <1>6, OldestTrims DEF none
<1> HIDE DEF S
<1>8. SegType(seg)
  BY DEF DueInv, MadeAt
<1>9. /\ Good(c, n, lv, p, g, none, i) /\ Counted(c, 0)
      /\ FreeIn(c.idx, c.media, {}) /\ none \subseteq {n}
      /\ S \subseteq c.tl \cup none /\ S \subseteq c.tl
  BY <1>4, <1>7 DEF Standing, none, Trims
<1>10. StandingAt(Done(d), c.next, lv, g, i, c.success)
  BY <1>4, <1>9, TimelineStanding
<1>11. StandingAt(ch', n, lv, g, i, ch.success)
  BY <1>1, <1>4, <1>10
<1>12. Good(c, n, lv, p, g, {}, i) /\ Dues(c, n, {}, x, seg, r, q)
  BY <1>4, <1>9 DEF none
<1> HIDE DEF n, p, r, q, x, g, i
<1>13. Leads(c, d, TimelineFields, n, lv, p, g, none, i)
  BY <1>4, <1>5, <1>9, <1>12, TimelineKeepsGood
<1>14. Leaves(c, d, n, none, x, seg, r, q)
  BY <1>2, <1>4, <1>5, <1>7, <1>8, <1>9, <1>12, TimelineKeepsDue
<1>15. Chan(d)
  BY <1>13 DEF Leads, Good
<1> HIDE DEF d
<1>16. /\ Leaves(c, d, ch.next, {}, Before, seg, Recovered(store).max,
                 IndexEnd(store))
       /\ StandingAt(ch', ch.next, lv, g, Image(store, ch.health # "stale"),
                     ch.success)
  BY <1>11, <1>14 DEF n, none, x, r, q, i
<1> QED
  BY <1>1, <1>3, <1>15, <1>16, StepDoneDue

\* Memory is low.
LEMMA LowMemoryDue ==
    ASSUME IInv, IInv', DueInv, NEW m, NEW F, Watermark(m, F)
    PROVE  DueInv'
<1> DEFINE b == Event(ch)
           c == Failing(b, F)
           K == Oldest(DOMAIN ch.idx, m)
           d == Truncated(InOrder(WatermarkOne, c, K, c.next))
           f == Done(d)
           r == Recovered(store).max
           q == IndexEnd(store)
           n == ch.next
           none == {}
           x == Before
           g == store.media
           s == ch.health # "stale"
           i == Image(store, s)
<1>1. /\ ch' = Done(Truncated(InOrder(WatermarkOne, c, K, ch.next)))
      /\ SameFiles(store, store') /\ seg' = seg /\ (active' => active)
  BY DEF Watermark, SameFiles
<1>2. b \in {ch, Event(ch)} /\ x \in Int /\ x < 0 /\ s \in BOOLEAN
  BY BeforeAll
<1> HIDE DEF b
<1>3. PICK lv \in Int : Begun(c, lv) /\ Chan(ch)
  BY <1>2, StepBegins
<1>4. /\ Standing(c, lv, g, i) /\ c.next = n /\ c.success = ch.success
      /\ Dues(c, n, none, x, seg, r, q) /\ Starts(ch, c) /\ Chan(c)
  BY <1>3 DEF Begun, StandingAt, Starts
<1> HIDE DEF c
<1>5. K \subseteq DOMAIN c.idx
  BY <1>4 DEF Oldest, Starts, Keeps, Fields
<1> HIDE DEF K
<1>6. SegType(seg) /\ Dues(c, c.next, none, x, seg, r, q)
  BY <1>4 DEF DueInv, MadeAt
<1>7. ch' = f
  BY <1>1, <1>4
<1> HIDE DEF none, x, r, q, g, i, s
<1>8. Leaves(c, f, c.next, none, x, seg, r, q)
  BY <1>2, <1>4, <1>5, <1>6, WatermarkDue
<1>9. StandingAt(f, c.next, lv, g, i, c.success)
  BY <1>4, <1>5, LowStanding
<1> HIDE DEF f
<1>10. StandingAt(ch', n, lv, g, i, ch.success)
  BY <1>4, <1>7, <1>9
<1>11. /\ Standing(ch', lv, g, Image(store, s)) /\ ch'.next = n
       /\ Chan(ch') /\ n \in Nat
  BY <1>10 DEF StandingAt, Standing, Good, Chan, i
<1>12. ch'.health # "stale" => s
  BY <1>2, <1>11, StaleStays
<1>13. ch'.noFree = FALSE
  <2>1. DOMAIN ch' = Fields
    BY <1>11 DEF Chan
  <2>2. ch' = [d EXCEPT !.fail = {}, !.noFree = FALSE]
    BY <1>7 DEF f, Done
  <2> HIDE DEF d
  <2> QED
    BY <2>1, <2>2 DEF Fields
<1>14. StepEnds(ch, ch')
  BY <1>11, <1>12, <1>13 DEF StepEnds, n, s
<1>15. Leaves(c, ch', ch'.next, {}, Before, seg, Recovered(store).max,
              IndexEnd(store))
  BY <1>4, <1>7, <1>8, <1>11 DEF none, x, r, q
<1> QED
  BY <1>1, <1>4, <1>14, <1>15, StepDue

\* The write of a bucket is answered.
LEMMA MediaDoneDue ==
    ASSUME IInv, IInv', DueInv, NEW w, NEW ok \in BOOLEAN, NEW F,
           MediaDone(w, ok, F)
    PROVE  DueInv'
<1> DEFINE b == IF ok THEN ch ELSE Event(ch)
           c == Failing(b, F)
           e == [c EXCEPT !.media = @ \ {w}]
           d == Persisted(e, w.bucket, ok)
           r == Recovered(store).max
           q == IndexEnd(store)
           n == ch.next
           p == BucketOf(n)
           none == {}
           x == Before
           g == store.media
           i == Image(store, ch.health # "stale")
           mev == IF ok THEN g \cup w.segs ELSE g
           X == {w.at}
<1>1. /\ ch' = Done(d) /\ w \in ch.media /\ seg' = seg /\ (active' => active)
      /\ store' = IF ok THEN [store EXCEPT !.media =
                        {k \in @ : BucketOf(k) # w.bucket} \cup w.segs]
                  ELSE store
  BY DEF MediaDone
<1>2. b \in {ch, Event(ch)} /\ x \in Int
  BY BeforeAll
<1> HIDE DEF b
<1>3. PICK lv \in Int : Begun(c, lv) /\ Chan(ch)
  BY <1>2, StepBegins
<1>4. /\ Standing(c, lv, g, i) /\ c.next = n /\ c.success = ch.success
      /\ Dues(c, n, none, x, seg, r, q) /\ Starts(ch, c) /\ Chan(c)
  BY <1>3 DEF Begun, StandingAt, Starts
<1> HIDE DEF c
<1>5. SameFiles(store, store')
  <2>1. store \in StoreType
    BY SafeStands DEF IInv
  <2> QED
    BY <1>1, <2>1 DEF SameFiles, StoreType
<1>6. DOMAIN c = Fields /\ w \in c.media
  BY <1>1, <1>4 DEF Starts, Keeps, Fields
<1>7. Keeps(c, e, {"media"}) /\ e.media = c.media \ {w}
  BY <1>6 DEF Keeps, Fields
<1> HIDE DEF e, mev, X
<1>8. WriteEnds(c, e, w, ok, g, mev)
  BY <1>6, <1>7 DEF WriteEnds, mev
<1>9. StandingAt(Done(d), c.next, lv, mev, i, c.success)
  BY <1>4, <1>8, MediaStanding
<1>10. StandingAt(ch', n, lv, mev, i, ch.success)
  BY <1>1, <1>4, <1>9
<1>11. /\ Good(c, n, lv, p, g, none, i) /\ Counted(c, 0)
       /\ FreeIn(c.idx, c.media, {}) /\ n \in Nat
  BY <1>4 DEF Standing, Chan
<1>12. p \in Int
  BY <1>11, SegmentPersistAssumption, Division DEF BucketOf
<1>13. SegType(seg)
  BY DEF DueInv, MadeAt
<1> HIDE DEF n, p, r, q, x, g, i, none
<1>14. Leads(c, d, MediaFields, n, lv, p, mev, none, i)
  BY <1>8, <1>11, <1>12, WriteEndGood
<1>15. /\ Good(e, n, lv, p, mev, none, i)
       /\ BucketEnds(e, w.bucket, ok, X, p, mev)
  BY <1>8, <1>11, <1>12, WriteEndsGood DEF X
<1>16. Chan(d) /\ Chan(e) /\ Counted(e, 0)
  <2>1. Chan(d) /\ Chan(e)
    BY <1>14, <1>15 DEF Leads, Good
  <2>2. e.idx = c.idx /\ e.iw = c.iw /\ e.pend = c.pend
        /\ e.snapshots = c.snapshots
    BY <1>7 DEF Keeps, Fields
  <2> QED
    BY <1>11, <2>1, <2>2 DEF Counted
<1>17. Leaves(c, e, n, none, x, seg, r, q)
  <2>1. {"media"} \cap DueFields = {}
    BY DEF DueFields
  <2> QED
    BY <1>4, <1>7, <1>16, <2>1, LeavesSame
<1>18. Dues(e, n, none, x, seg, r, q)
  BY <1>17 DEF Leaves
<1>19. Leaves(e, d, n, none, x, seg, r, q)
  BY <1>2, <1>11, <1>13, <1>15, <1>16, <1>18, PersistedDue
<1>20. Leaves(c, d, n, none, x, seg, r, q)
  BY <1>4, <1>16, <1>17, <1>19, LeavesOn
<1> HIDE DEF d
<1>21. /\ Leaves(c, d, ch.next, {}, Before, seg, Recovered(store).max,
                 IndexEnd(store))
       /\ StandingAt(ch', ch.next, lv, mev, Image(store, ch.health # "stale"),
                     ch.success)
  BY <1>10, <1>20 DEF n, none, x, r, q, i
<1> QED
  BY <1>1, <1>3, <1>5, <1>16, <1>21, StepDoneDue

\* What is due stays so when the next index is later than all segments.
LEMMA LaterDue ==
    ASSUME NEW c, NEW n \in Nat, NEW z \in Nat, NEW u, NEW x, NEW sg, NEW r,
           NEW q, n <= z, \A k \in DOMAIN sg : k < n,
           Dues(c, n, u, x, sg, r, q)
    PROVE  Dues(c, z, u, x, sg, r, q)
<1>1. PICK a \in Int : a < n /\ Due(c, n, a, a, u, x, sg, r, q)
  BY DEF Dues
<1>2. \A k \in Made(c, sg, x) : k < n
  BY DEF Made
<1>3. Owes(c, z, a, a, x, sg)
  <2>1. \A k \in Owed(c, sg, x) : k < n
    BY <1>2 DEF Owed
  <2> QED
    BY <1>1, <2>1 DEF Due, Owes, OwesOf, Covered
<1>4. Records(c, z, u, x, sg) /\ Level(c, a, r, q)
  BY <1>1, <1>2 DEF Due, Records, Lists
<1>5. a < z
  BY <1>1
<1> QED
  BY <1>1, <1>3, <1>4, <1>5 DEF Dues, Due

\* The channel becomes inactive.
LEMMA InactiveDue ==
    ASSUME IInv, IInv', DueInv, NEW F, ChannelInactive(F)
    PROVE  DueInv'
<1> DEFINE b == ch
           c == Failing(b, F)
           d == LastBucketWritten(c)
           f == Done(d)
           r == Recovered(store).max
           q == IndexEnd(store)
           n == ch.next
           z == RoundUp(n)
           p == BucketOf(n)
           t == BucketOf(z)
           none == {}
           x == Before
           g == store.media
           s == ch.health # "stale"
           i == Image(store, s)
<1>1. /\ ch' = [f EXCEPT !.next = RoundUp(@)] /\ SameFiles(store, store')
      /\ seg' = seg /\ (active' => active) /\ Left(c, ch')
  BY DEF ChannelInactive, SameFiles, Left
<1>2. b \in {ch, Event(ch)} /\ x \in Int /\ s \in BOOLEAN
  BY BeforeAll
<1> HIDE DEF b
<1>3. PICK lv \in Int : Begun(c, lv) /\ Chan(ch)
  BY <1>2, StepBegins
<1>4. /\ Standing(c, lv, g, i) /\ c.next = n /\ c.success = ch.success
      /\ Dues(c, n, none, x, seg, r, q) /\ Starts(ch, c) /\ Chan(c)
  BY <1>3 DEF Begun, StandingAt, Starts
<1> HIDE DEF c
<1>5. /\ Good(c, n, lv, p, g, none, i) /\ Counted(c, 0)
      /\ FreeIn(c.idx, c.media, {}) /\ n \in Nat /\ LastOK(c.lastBucket, n)
  BY <1>4 DEF Standing, Chan
<1>6. /\ z \in Nat /\ n <= z /\ p \in Nat /\ t \in Nat /\ p <= t
      /\ n % BucketSize # 0 => p < t
  BY <1>5, RoundUpBounds
<1>7. g \subseteq Nat
  BY SafeStands DEF IInv
<1>8. StandingAt(ch', RoundUp(c.next), lv, g, i, c.success)
  BY <1>1, <1>4, <1>7, InactiveStanding
<1>9. MadeAt(ch, seg) /\ ~ch.noFree
  BY DEF DueInv
<1>10. SegType(seg) /\ \A k \in DOMAIN seg : k < n
  BY <1>9 DEF MadeAt
<1>11. /\ c.lastBucket = -1 \/ (c.lastBucket \in Nat /\ p <= c.lastBucket)
       /\ \/ c.lastBucket = -1
          \/ c.lastBucket \in Nat /\ p <= c.lastBucket /\ c.lastBucket < t
       /\ p \in Int /\ t \in Int
  BY <1>5, <1>6 DEF LastOK
<1> HIDE DEF n, z, p, t, none, x, r, q, g, s, i
<1>12. Leads(c, d, LastFields, n, lv, t, g, none, i)
  BY <1>5, <1>6, <1>7, <1>11, LastBucketWrittenGood
<1>13. Chan(d) /\ d.next = n
  BY <1>4, <1>12 DEF Leads, Good, Keeps, Fields, LastFields, MediaFields,
        PersistFields, TrimFields, FreeFields, PassFields, n
<1>14. Leaves(c, d, n, none, x, seg, r, q)
  BY <1>2, <1>4, <1>5, <1>7, <1>10, <1>11, LastBucketWrittenDue
<1> HIDE DEF d
<1>15. /\ Leaves(c, f, n, none, x, seg, r, q) /\ Chan(f)
       /\ f.noFree = FALSE /\ f.next = n
  BY <1>4, <1>13, <1>14, DoneDue
<1> HIDE DEF f
<1>16. /\ Standing(ch', lv, g, Image(store, s)) /\ ch'.next = z
       /\ Chan(ch')
  BY <1>4, <1>8 DEF StandingAt, Standing, Good, i, z, n
<1>17. ch'.health # "stale" => s
  BY <1>2, <1>16, StaleStays
<1>18. Keeps(f, ch', {"next"})
  BY <1>1, <1>15 DEF Keeps, Chan
<1>19. ch'.noFree = FALSE
  BY <1>15, <1>18 DEF Keeps, Fields
<1>20. Leaves(f, ch', n, none, x, seg, r, q)
  <2>1. {"next"} \cap DueFields = {}
    BY DEF DueFields
  <2> QED
    BY <1>15, <1>16, <1>18, <2>1, LeavesSame DEF Leaves
<1>21. Leaves(c, ch', n, none, x, seg, r, q)
  BY <1>4, <1>15, <1>16, <1>20, LeavesOn
<1>22. Leaves(c, ch', z, none, x, seg, r, q)
  BY <1>5, <1>6, <1>10, <1>21, LaterDue DEF Leaves
<1>23. StepEnds(ch, ch')
  BY <1>6, <1>16, <1>17, <1>19 DEF StepEnds, n, s
<1>24. Leaves(c, ch', ch'.next, {}, Before, seg, Recovered(store).max,
              IndexEnd(store))
  BY <1>16, <1>22 DEF none, x, r, q
<1> QED
  BY <1>1, <1>4, <1>23, <1>24, StepDue

-----------------------------------------------------------------------------
(* The files are read *)

\* The channel d has no index, and nothing is written.
Blank(d) ==
    /\ Chan(d) /\ d.idx = << >> /\ d.iw = None /\ d.pend = None
    /\ d.cut = 0

\* All segments can be acked when all are read back.
LEMMA BlankDue ==
    ASSUME NEW d, Blank(d), NEW n \in Int, NEW a \in Int, a < n,
           NEW x \in Int, x < 0, NEW sg, NEW r, NEW q, SegType(sg),
           \A k \in DOMAIN sg : k <= a, Records(d, n, {}, x, sg),
           Level(d, a, r, q)
    PROVE  Dues(d, n, {}, x, sg, r, q)
<1> DEFINE O == Owed(d, sg, x)
           none == {}
<1>1. O \subseteq DOMAIN sg
  BY DEF Owed, Made
<1>2. HeldIn(d.idx) = {} /\ PendingIn(d.idx) = {}
  BY DEF HeldIn, PendingIn, Blank
<1>3. d.iw = None /\ d.pend = None
  BY DEF Blank
<1> HIDE DEF O, none
<1>4. Above(d.idx, d.iw, d.pend, a)
  BY <1>2, <1>3 DEF Above
<1>5. Covered(O, n, d.idx, d.iw, d.pend, a)
  BY <1>1 DEF Covered
<1>6. Reached(O, d, sg, a)
  BY <1>1 DEF Reached
<1>7. FramesBehind(O, d, sg)
  BY <1>2, <1>3 DEF FramesBehind
<1>8. OwesOf(d, n, a, a, O, sg)
  BY <1>4, <1>5, <1>6, <1>7 DEF OwesOf
<1>9. Due(d, n, a, a, {}, x, sg, r, q)
  BY <1>8 DEF Due, Owes, O
<1>10. CutOK(d, x)
  BY DEF CutOK, Blank
<1> QED
  BY <1>9, <1>10 DEF Dues

\* Nothing is due of a channel that was just created.
LEMMA InitDue ==
    ASSUME Init
    PROVE  DueInv
<1> DEFINE sg == seg
           x == Before
           r == Recovered(store).max
           q == IndexEnd(store)
           a == -1
           n == ch.next
           M == Made(ch, sg, x)
<1>1. /\ ch = NewChannel /\ active = FALSE /\ sg = << >>
      /\ store = [media |-> {}, index |-> None, delta |-> None]
  BY DEF Init
<1>2. Chan(ch)
  BY <1>1 DEF NewChannel, Chan, Fields, IdxType, Opt, Healths
<1>3. /\ ch.idx = << >> /\ ch.iw = None /\ ch.pend = None /\ ch.cut = 0
      /\ ch.next = 0 /\ ch.min = 0 /\ ch.trunc = 0 /\ ch.excused = -1
      /\ ch.health = "new" /\ ch.noFree = FALSE
  BY <1>1 DEF NewChannel
<1>4. DOMAIN sg = {}
  BY <1>1
<1>5. r = -1 /\ store.index = None /\ store.delta = None
  BY <1>1 DEF Recovered
<1>6. M = {}
  BY <1>4 DEF Made
<1>7. x \in Int /\ x < 0 /\ a \in Int /\ a < n
  BY <1>3, BeforeAll
<1> HIDE DEF x, sg, r, q
<1>8. Records(ch, n, {}, x, sg)
  <2>1. HeldIn(ch.idx) = {} /\ DOMAIN ch.idx = {}
    BY <1>3 DEF HeldIn
  <2>2. Lists(ch, n, {}, M)
    BY <1>3, <1>6, <2>1 DEF Lists, TruncOK
  <2> QED
    BY <1>3, <2>1, <2>2 DEF Records
<1>9. Level(ch, a, r, q)
  BY <1>3, <1>5 DEF Level
<1>10. SegType(sg) /\ MadeAt(ch, sg)
  BY <1>4 DEF SegType, MadeAt
<1>11. Blank(ch)
  BY <1>2, <1>3 DEF Blank
<1>12. n \in Int /\ \A k \in DOMAIN sg : k <= a
  BY <1>3, <1>4
<1> HIDE DEF n, a, M
<1>13. Dues(ch, n, {}, x, sg, r, q)
  BY <1>7, <1>8, <1>9, <1>10, <1>11, <1>12, BlankDue
<1>14. DuesAt(ch, seg, store)
  BY <1>13 DEF DuesAt, n, x, sg, r, q
<1>15. FilesName(store, M, ch.excused)
  BY <1>5 DEF FilesName, Alive
<1> QED
  BY <1>1, <1>3, <1>10, <1>14, <1>15 DEF DueInv, M, sg, x

-----------------------------------------------------------------------------
(* A segment is made *)

\* new is sg with the segment n, of a frame that the track did not have.
AddsSegment(c, sg, new, n) ==
    /\ SegType(sg) /\ SegType(new)
    /\ DOMAIN new = DOMAIN sg \cup {n}
    /\ \A k \in DOMAIN sg : k < n /\ new[k] = sg[k]
    /\ c.frames < new[n].id /\ c.acked <= c.frames

\* It is not due before its index is there.
LEMMA NewSegmentDue ==
    ASSUME NEW c, Chan(c), NEW n \in Nat, NEW lv, NEW sg, NEW new,
           AddsSegment(c, sg, new, n),
           Order(c.idx, c.iw, c.pend, n, lv),
           Known(c.idx, c.iw, c.pend, c.conn, c.connected, c.frames, c.acked),
           NEW x \in Int, NEW r, NEW q, Dues(c, n, {}, x, sg, r, q)
    PROVE  Dues(c, n, {}, x, new, r, q)
<1> DEFINE O == Owed(c, sg, x)
           P == Owed(c, new, x)
           M == Made(c, sg, x)
           N == Made(c, new, x)
<1>1. PICK a \in Int : a < n /\ Due(c, n, a, a, {}, x, sg, r, q)
  BY DEF Dues
<1>2. /\ Above(c.idx, c.iw, c.pend, a)
      /\ Covered(O, n, c.idx, c.iw, c.pend, a)
      /\ Reached(O, c, sg, a) /\ FramesBehind(O, c, sg)
  BY <1>1 DEF Due, Owes, OwesOf
<1>3. /\ c.min <= c.excused + 1
      /\ \A j \in DOMAIN c.idx : c.idx[j].free => j < c.min
      /\ c.health # "stale" => Lists(c, n, {}, M)
  BY <1>1 DEF Due, Records
<1>4. n \in DOMAIN new /\ \A k \in DOMAIN new : k = n \/ k \in DOMAIN sg
  BY DEF AddsSegment
<1>5. \A k \in N : k = n \/ k \in M
  BY <1>4 DEF Made, AddsSegment
<1>6. \A k \in P : k = n \/ (k \in O /\ k \in DOMAIN sg)
  BY <1>5 DEF Owed, Made
<1>7. /\ c.frames \in Nat /\ c.acked \in Nat /\ new[n].id \in Nat
      /\ c.frames < new[n].id /\ c.acked <= c.frames
  BY <1>4 DEF Chan, AddsSegment, SegType
<1> HIDE DEF O, P, M, N
<1>8. Covered(P, n, c.idx, c.iw, c.pend, a)
  BY <1>2, <1>6 DEF Covered
<1>9. Reached(P, c, new, a)
  <2>1. ~(new[n].id <= c.acked)
    BY <1>7
  <2> QED
    BY <1>2, <1>6, <2>1 DEF Reached, AddsSegment
<1>10. ASSUME NEW f \in FrameType, NEW m, Behind(O, c, sg, f, m),
              FrameOK(f, c.conn, c.connected, c.frames)
       PROVE  Behind(P, c, new, f, m)
  <2>1. f.id \in Nat
    BY DEF FrameType
  <2>2. Mine(c, f) => ~(new[n].id <= f.id)
    BY <1>7, <1>10, <2>1 DEF Mine, FrameOK
  <2> QED
    BY <1>6, <1>10, <2>2 DEF Behind, AddsSegment
<1>11. FramesBehind(P, c, new)
  <2>1. ASSUME c.iw # None
        PROVE  Behind(P, c, new, c.iw[1].frames, c.iw[1].max)
    BY <1>2, <1>10, <2>1, ChanFrames DEF FramesBehind, Known
  <2>2. ASSUME c.pend # None
        PROVE  Behind(P, c, new, c.pend[1].frames, c.pend[1].max)
    BY <1>2, <1>10, <2>2, ChanFrames DEF FramesBehind, Known
  <2>3. ASSUME NEW j \in HeldIn(c.idx)
        PROVE  Behind(P, c, new, c.idx[j].snap[1].frames,
                      c.idx[j].snap[1].max)
    BY <1>2, <1>10, <2>3, ChanFrames DEF FramesBehind, Known
  <2> QED
    BY <2>1, <2>2, <2>3 DEF FramesBehind
<1>12. ASSUME c.health # "stale"
       PROVE  Lists(c, n, {}, N)
  <2>1. Lists(c, n, {}, M)
    BY <1>3, <1>12
  <2>2. c.iw # None => ~(n <= c.iw[1].max)
    BY HeldNumbers DEF Order, WriteOK
  <2>3. c.iw # None => Names(c.iw[1], N, c.excused)
    BY <1>5, <2>1, <2>2 DEF Lists, Names
  <2>4. \A k \in N : k < n => k \in c.tl
    BY <1>5, <2>1 DEF Lists
  <2> QED
    BY <2>1, <2>3, <2>4 DEF Lists
<1>13. Owes(c, n, a, a, x, new)
  BY <1>2, <1>8, <1>9, <1>11 DEF Owes, OwesOf, P
<1>14. Records(c, n, {}, x, new)
  BY <1>3, <1>12 DEF Records, N
<1>15. Due(c, n, a, a, {}, x, new, r, q)
  BY <1>1, <1>13, <1>14 DEF Due
<1> QED
  BY <1>1, <1>15 DEF Dues

\* The files name no segment that is beyond them.
LEMMA FilesNameMore ==
    ASSUME NEW st, StoreOK(st), NEW new, SameFiles(st, new), NEW lv \in Int,
           NEW success, Readable(st, lv, success), NEW n \in Nat, lv < n,
           NEW M, NEW N, NEW e \in Int, NEW g \in Int, FilesName(st, M, e),
           N \subseteq M \cup {n}, e <= g
    PROVE  FilesName(new, N, g)
<1>1. st \in StoreType /\ new.index = st.index /\ new.delta = st.delta
  BY DEF StoreOK, SameFiles
<1>2. ASSUME NEW f \in FileType, f.max <= lv, Names(f, M, e)
      PROVE  Names(f, N, g)
  <2>1. f.trunc \in Nat /\ f.max \in Nat
    BY DEF FileType
  <2>2. TruncOK(f.trunc, g)
    BY <1>2, <2>1 DEF Names, TruncOK
  <2>3. ~(n <= f.max)
    BY <1>2, <2>1
  <2> QED
    BY <1>2, <2>2, <2>3 DEF Names
<1>3. ASSUME st.index # None PROVE Names(st.index[1], N, g)
  BY <1>1, <1>2, <1>3, StoreNumbers DEF FilesName, Readable
<1>4. ASSUME Alive(st) PROVE Names(st.delta[1], N, g)
  <2>1. st.delta # None /\ st.delta[1].max <= lv
        /\ Names(st.delta[1], M, e)
    BY <1>4 DEF FilesName, Readable, Alive
  <2> QED
    BY <1>1, <1>2, <2>1, StoreNumbers
<1>5. Alive(new) => Alive(st)
  BY <1>1 DEF Alive
<1> QED
  BY <1>1, <1>3, <1>4, <1>5 DEF FilesName

\* How the new segment is known to be made.
LEMMA SegmentAdded ==
    ASSUME Chan(ch), MadeAt(ch, seg), active => ch.acked <= ch.frames,
           NEW exists \in BOOLEAN, NEW j, NEW F, CreateSegment(exists, j, F)
    PROVE  /\ AddsSegment(ch, seg, seg', ch.next)
           /\ seg'[ch.next].exists = exists
           /\ seg'[ch.next].pub = ch.pub
<1> DEFINE n == ch.next
           e == IF exists THEN ch ELSE Event(ch)
           framed == [e EXCEPT !.frames = @ + 1]
           one == [pub |-> ch.pub, id |-> framed.frames, exists |-> exists,
                   conn |-> IF ch.connected THEN ch.conn ELSE 0]
<1>1. /\ seg' = [k \in DOMAIN seg \cup {n} |-> IF k = n THEN one ELSE seg[k]]
      /\ active
  BY DEF CreateSegment
<1>2. framed.frames = ch.frames + 1
  <2>1. DOMAIN ch = Fields /\ "frames" \in Fields /\ "frames" # "events"
    BY DEF Chan, Fields
  <2>2. e.frames = ch.frames /\ DOMAIN e = Fields
    BY <2>1 DEF Event
  <2> HIDE DEF e
  <2> QED
    BY <2>1, <2>2
<1>3. one.pub = ch.pub /\ one.id = ch.frames + 1 /\ one.exists = exists
  BY <1>2
<1> HIDE DEF one, framed
<1>4. n \in Nat /\ ch.frames \in Nat
  BY DEF Chan
<1>5. \A k \in DOMAIN seg : k \in Nat /\ k < n /\ seg[k].id \in Nat
  BY DEF MadeAt, SegType
<1> HIDE DEF n
<1>6. /\ DOMAIN seg' = DOMAIN seg \cup {n} /\ seg'[n] = one
      /\ \A k \in DOMAIN seg : seg'[k] = seg[k]
  BY <1>1, <1>4, <1>5
<1>7. SegType(seg')
  BY <1>3, <1>4, <1>5, <1>6 DEF SegType
<1>8. AddsSegment(ch, seg, seg', n)
  BY <1>1, <1>3, <1>4, <1>5, <1>6, <1>7 DEF AddsSegment, MadeAt
<1> QED
  BY <1>3, <1>6, <1>8 DEF n

\* A segment is created.
LEMMA SegmentMadeDue ==
    ASSUME IInv, IInv', DueInv, NEW exists \in BOOLEAN, NEW j \in Nat, NEW F,
           CreateSegment(exists, j, F)
    PROVE  DueInv'
<1> DEFINE b == IF exists THEN ch ELSE Event(ch)
           c == Failing([b EXCEPT !.frames = @ + 1], F)
           S == IF exists THEN Newest(ch.tl \cup {ch.next}, Window)
                ELSE ch.tl \ Oldest(ch.tl, j)
           w == IF exists THEN {ch.next} ELSE {}
           r == Recovered(store).max
           q == IndexEnd(store)
           n == ch.next
           m == n + 1
           none == {}
           x == Before
           g == store.media
           s == ch.health # "stale"
           i == Image(store, s)
           new == seg'
           M == Made(ch, seg, x)
           N == Made(ch', new, x)
<1>1. GetsSegment(c, ch', S, exists) /\ store' = store /\ active' = active
      /\ active
  BY DEF CreateSegment, GetsSegment
<1>2. b \in {ch, Event(ch)} /\ x \in Int /\ x < 0 /\ s \in BOOLEAN
  BY BeforeAll
<1>3. PICK lv \in Int : Safe(lv, s)
  BY SafeKnown
<1>4. /\ Standing(ch, lv, g, i) /\ Chan(ch) /\ g \subseteq Nat
      /\ Known(ch.idx, ch.iw, ch.pend, ch.conn, ch.connected, ch.frames,
               ch.acked)
  BY <1>2, <1>3, SafeStands
<1>5. /\ MadeAt(ch, seg) /\ (active => ch.acked <= ch.frames)
      /\ DuesAt(ch, seg, store)
      /\ (ch.health # "stale" => FilesName(store, M, ch.excused))
  BY DEF DueInv
<1>6. /\ AddsSegment(ch, seg, new, n) /\ new[n].exists = exists
      /\ new[n].pub = ch.pub
  BY <1>4, <1>5, SegmentAdded
<1>7. n \in Nat /\ lv < n /\ Order(ch.idx, ch.iw, ch.pend, n, lv)
      /\ ch.tl \subseteq 0 .. n
  BY <1>4, StandingTimeline DEF Standing, Good
<1>8. Dues(ch, n, none, x, new, r, q)
  <2>1. Dues(ch, n, {}, x, seg, r, q)
    BY <1>5 DEF DuesAt
  <2> HIDE DEF n, r, q, x, new
  <2> QED
    BY <1>2, <1>4, <1>6, <1>7, <2>1, NewSegmentDue
<1>9. /\ StandingAt(c, n, lv, g, i, ch.success) /\ c.tl = ch.tl
      /\ Starts(ch, c) /\ Chan(c)
  <2> HIDE DEF b, g, i, n
  <2> QED
    BY <1>2, <1>4, FramedStanding, FramedStarts DEF Starts, n
<1>10. m = n + 1
  OBVIOUS
<1>11. w \subseteq {n} /\ (exists => n \in w)
  OBVIOUS
<1>12. Trims(c, S, w)
  <2>1. CASE exists
    <3>1. Window \in Nat /\ Window > 0
      BY SegmentPersistAssumption
    <3>2. S = Newest(c.tl \cup {n}, Window) /\ w = {n}
      BY <1>9, <2>1
    <3> HIDE DEF S, w, n, c
    <3>3. Trims(c, Newest(c.tl \cup {n}, Window), {n})
      BY <1>7, <1>9, <3>1, NewestTrims
    <3> QED
      BY <3>2, <3>3
  <2>2. CASE ~exists
    <3>1. S = c.tl \ Oldest(c.tl, j) /\ w = {}
      BY <1>9, <2>2
    <3> HIDE DEF S, w, n, c
    <3>2. Trims(c, c.tl \ Oldest(c.tl, j), {})
      BY <1>7, <1>9, OldestTrims
    <3> QED
      BY <3>1, <3>2
  <2> QED
    BY <2>1, <2>2
<1>13. MadeNow(new, n, exists, w)
  BY <1>6, <1>7, <1>11 DEF MadeNow, AddsSegment, SegType
<1> HIDE DEF b, c, S, w, none, x, g, s, i, r, q, new
<1>14. Standing(c, lv, g, i) /\ c.next = n /\ c.success = ch.success
  BY <1>9 DEF StandingAt
<1>15. ch.noFree = FALSE
  BY <1>4 DEF DueInv, Chan
<1>16. ~c.noFree
  BY <1>9, <1>15 DEF Starts, Keeps, Fields
<1> HIDE DEF n, m
<1>17. StandingAt(ch', m, lv, g, i, c.success)
  <2>1. S \subseteq c.tl \cup {n}
    BY <1>11, <1>12 DEF Trims
  <2> QED
    BY <1>1, <1>4, <1>10, <1>14, <2>1, CreateGood
<1>18. Standing(ch', lv, g, Image(store, s)) /\ ch'.next = m /\ Chan(ch')
  BY <1>17 DEF StandingAt, Standing, Good, i
<1>19. /\ Dues(c, n, none, x, new, r, q) /\ Made(c, new, x) = Made(ch, new, x)
  BY <1>4, <1>8, <1>9, StartsDue
<1>20. Leaves(c, ch', m, none, x, new, r, q)
  BY <1>1, <1>2, <1>4, <1>10, <1>11, <1>12, <1>13, <1>14, <1>16, <1>18,
     <1>19, CreateDue DEF none
<1>21. /\ Less(c, ch', new, x) /\ Dues(ch', m, none, x, new, r, q)
  BY <1>20 DEF Leaves
<1>22. ch'.noFree = FALSE
  <2> DEFINE y == IndexReady(IndexCreate(TimelineKeeps(c, S)), exists)
             v == Done(y)
  <2>1. ch' = [v EXCEPT !.next = @ + 1]
    BY <1>1 DEF GetsSegment
  <2>2. v = [y EXCEPT !.fail = {}, !.noFree = FALSE]
    BY DEF Done
  <2> HIDE DEF y, v
  <2>3. DOMAIN v = Fields /\ DOMAIN y = Fields
    BY <1>18, <2>1, <2>2 DEF Chan
  <2>4. "noFree" \in Fields /\ "noFree" # "next"
    BY DEF Fields
  <2> QED
    BY <2>1, <2>2, <2>3, <2>4
<1>23. ch'.health # "stale" => s
  BY <1>2, <1>18, StaleStays
<1>24. /\ ch'.pub = ch.pub /\ ch'.excused \in Int /\ ch.excused \in Int
       /\ ch.excused <= ch'.excused
  BY <1>4, <1>9, <1>18, <1>21
     DEF Less, SamePub, Starts, Keeps, Fields, Chan
<1>25. N \subseteq M \cup {n}
  <2>1. N \subseteq Made(ch, new, x)
    BY <1>19, <1>21 DEF Less
  <2>2. Made(ch, new, x) \subseteq M \cup {n}
    BY <1>6 DEF Made, AddsSegment
  <2> QED
    BY <2>1, <2>2
<1> HIDE DEF M, N
<1>26. MadeAt(ch', seg')
  <2>1. \A k \in DOMAIN new : k < m
    BY <1>6, <1>7, <1>10 DEF AddsSegment, SegType
  <2>2. \A k \in DOMAIN new : new[k].pub \in Nat /\ new[k].pub <= ch'.pub
    BY <1>4, <1>5, <1>6, <1>24 DEF AddsSegment, MadeAt, Chan
  <2> QED
    BY <1>6, <1>18, <2>1, <2>2 DEF MadeAt, AddsSegment, new
<1>27. DuesAt(ch', seg', store')
  BY <1>1, <1>18, <1>21 DEF DuesAt, none, x, new, r, q
<1>28. ASSUME ch'.health # "stale"
       PROVE  FilesName(store', Made(ch', seg', Before), ch'.excused)
  <2>1. /\ StoreOK(store) /\ Readable(store, lv, ch.success)
        /\ FilesName(store, M, ch.excused)
    BY <1>3, <1>5, <1>23, <1>28 DEF Safe, s
  <2>2. SameFiles(store, store')
    BY <1>1 DEF SameFiles
  <2>3. FilesName(store', N, ch'.excused)
    BY <1>7, <1>24, <1>25, <2>1, <2>2, FilesNameMore
  <2> QED
    BY <2>3 DEF N, new, x
<1>29. ch'.acked <= ch'.frames
  <2>1. /\ ch'.frames = c.frames /\ ch'.connected = c.connected
        /\ c.connected \/ ch'.acked = c.acked
    BY <1>21 DEF Less, SamePub
  <2>2. ch'.connected => ch'.acked <= ch'.frames
    BY <1>18 DEF Standing, Good, Known
  <2>3. c.acked = ch.acked /\ ch.frames <= c.frames
    BY <1>9 DEF Starts, Keeps, Fields
  <2>4. c.frames \in Nat /\ ch.frames \in Nat /\ ch.acked \in Nat
    BY <1>4, <1>9 DEF Chan
  <2> QED
    BY <1>1, <1>5, <2>1, <2>2, <2>3, <2>4
<1> QED
  BY <1>22, <1>26, <1>27, <1>28, <1>29 DEF DueInv

-----------------------------------------------------------------------------
(* The write of an index is answered *)

\* How far storage is read, r, and the index in it goes, q, once w is there;
\* before, the index went up to before.
ReadsTo(w, there, before, r, q) ==
    /\ there /\ w.file = "index" => q = w.max /\ w.max <= r
    /\ ~(there /\ w.file = "index") => q = before
    /\ there /\ w.file = "delta" /\ w.min = before + 1 => w.max <= r

\* What is read with the file that was written.
LEMMA PutReads ==
    ASSUME NEW st, StoreOK(st), NEW new, StoreOK(new), NEW w, NEW lv,
           NEW success, WriteFits(w, lv, success), NEW there \in BOOLEAN,
           FilePut(st, new, w, there)
    PROVE  ReadsTo(w, there, IndexEnd(st), Recovered(new).max, IndexEnd(new))
<1> DEFINE r == Recovered(new).max
           p == IndexEnd(st)
           q == IndexEnd(new)
<1>1. /\ w \in FileType /\ w.file \in {"index", "delta"} /\ w.max \in Nat
      /\ w.min \in Nat
      /\ success \in Nat /\ (w.file = "delta" => w.min = success + 1)
  BY DEF WriteFits, FileType
<1>2. /\ new.index # None => new.index[1].max <= r
      /\ new.index # None /\ DeltaCounts(new) => r = new.delta[1].max
  BY RecoveredIs
<1> HIDE DEF r
<1>3. ASSUME there /\ w.file = "index"
      PROVE  q = w.max /\ w.max <= r
  BY <1>2, <1>3 DEF FilePut, Alike, IndexEnd
<1>4. ASSUME ~(there /\ w.file = "index")
      PROVE  q = p
  BY <1>1, <1>4 DEF FilePut, SameFiles, IndexEnd
<1>5. ASSUME there /\ w.file = "delta" /\ w.min = p + 1
      PROVE  w.max <= r
  <2>1. st.index # None /\ p = st.index[1].max
    BY <1>1, <1>5 DEF IndexEnd
  <2>2. /\ new.index = st.index /\ new.delta # None
        /\ new.delta[1].min = w.min /\ new.delta[1].max = w.max
    BY <1>5 DEF FilePut, Alike
  <2>3. DeltaCounts(new)
    BY <1>5, <2>1, <2>2 DEF DeltaCounts
  <2> QED
    BY <1>1, <1>2, <2>1, <2>2, <2>3
<1> QED
  BY <1>3, <1>4, <1>5 DEF ReadsTo, r, p, q

\* The files name all segments of M when that does, too.
LEMMA FilesNamePut ==
    ASSUME NEW st, StoreOK(st), NEW new, NEW w, NEW lv \in Int,
           NEW success, WriteFits(w, lv, success), NEW there \in BOOLEAN,
           FilePut(st, new, w, there), Readable(st, lv, success),
           NEW M, NEW e, FilesName(st, M, e), Names(w, M, e)
    PROVE  FilesName(new, M, e)
<1>1. /\ w \in FileType /\ w.file \in {"index", "delta"} /\ w.max \in Nat
      /\ w.min \in Nat /\ lv < w.max /\ success \in Nat
  BY DEF WriteFits, FileType
<1>2. st \in StoreType
  BY DEF StoreOK
<1>3. ASSUME NEW f, Alike(f, w) PROVE Names(f, M, e)
  BY <1>3 DEF Alike, Names
<1>4. CASE ~there
  BY <1>4 DEF FilePut, SameFiles, FilesName, Alive
<1>5. CASE there /\ w.file = "index"
  <2>1. /\ new.delta = st.delta /\ new.index # None
        /\ new.index[1].file = "index" /\ new.index[1].max = w.max
        /\ Names(new.index[1], M, e)
    BY <1>3, <1>5 DEF FilePut, Alike
  <2>2. ~Alive(new)
    <3>1. SUFFICES ASSUME st.delta # None, w.max < st.delta[1].min
                   PROVE  FALSE
      BY <2>1 DEF Alive
    <3>2. st.delta[1].max \in Nat /\ st.delta[1].min \in Nat
          /\ st.delta[1].min <= st.delta[1].max + 1
      BY <1>2, <3>1, StoreNumbers DEF StoreOK, FileOK
    <3>3. CASE st.index = None
      BY <1>1, <3>1, <3>2, <3>3 DEF Alive, Readable
    <3>4. CASE st.index # None
      <4>1. /\ st.index[1].max \in Nat /\ st.index[1].max <= lv
            /\ success <= st.index[1].max /\ st.delta[1].min <= success + 1
        BY <1>2, <3>1, <3>4, StoreNumbers DEF Readable
      <4> QED
        BY <1>1, <3>1, <3>2, <4>1
    <3> QED
      BY <3>3, <3>4
  <2> QED
    BY <2>1, <2>2 DEF FilesName
<1>6. CASE there /\ w.file = "delta"
  <2>1. new.index = st.index /\ new.delta # None
        /\ Names(new.delta[1], M, e)
    BY <1>3, <1>6 DEF FilePut
  <2> QED
    BY <2>1 DEF FilesName
<1> QED
  BY <1>1, <1>4, <1>5, <1>6

\* The end of what was written is as far as segments may be acked.
LEMMA AnsweredLevel ==
    ASSUME NEW c, NEW d, NEW w, NEW ok \in BOOLEAN, NEW there \in BOOLEAN,
           c.health \in Healths, ok => there, Answered(c, d, w, ok),
           w.file \in {"index", "delta"}, c.success \in Nat,
           w.file = "delta" => w.min = c.success + 1,
           NEW a, NEW r, NEW q, Level(c, a, r, q), NEW rr, NEW qq,
           ReadsTo(w, there, q, rr, qq)
    PROVE  Level(d, w.max, rr, qq) /\ (d.health # "stale" => c.health # "stale")
<1>1. CASE ok
  <2>1. d.health = Written(c.health, w.file)
    BY <1>1 DEF Answered
  <2>2. d.success = IF w.file = "index" THEN w.max ELSE c.success
    BY <1>1 DEF Answered
  <2>3. CASE w.file = "index"
    BY <1>1, <2>1, <2>2, <2>3 DEF Level, ReadsTo, Written
  <2>4. CASE w.file = "delta"
    <3>1. d.health \in {"ok", "new"} => c.health \in {"ok", "delta"}
      BY <2>1, <2>4 DEF Written
    <3>2. d.health = "delta" => c.health = "delta"
      BY <2>1, <2>4 DEF Written
    <3>3. d.health # "stale" => c.health # "stale"
      BY <2>1 DEF Written
    <3>4. c.health \in {"ok", "delta"} => c.success = q
      BY DEF Level
    <3>5. c.success = q => w.max <= rr /\ qq = q
      BY <1>1, <2>4 DEF ReadsTo
    <3>6. d.success = c.success
      BY <2>2, <2>4
    <3> QED
      BY <3>1, <3>2, <3>3, <3>4, <3>5, <3>6 DEF Level
  <2> QED
    BY <2>3, <2>4
<1>2. CASE ~ok
  <2>1. d.health = Failed(c.health, w.file) /\ d.success = c.success
    BY <1>2 DEF Answered
  <2>2. /\ d.health \notin {"ok", "new"}
        /\ d.health = "delta" =>
                c.health \in {"ok", "delta"} /\ w.file = "delta"
        /\ d.health # "stale" => c.health # "stale"
    BY <2>1, FailedHealth
  <2>3. d.health = "delta" => c.success = q /\ qq = q
    BY <2>2 DEF Level, ReadsTo
  <2> QED
    BY <2>1, <2>2, <2>3 DEF Level
<1> QED
  BY <1>1, <1>2

\* The end of the snapshot that waits, or of what was written.
Waiting(c, w) == IF c.pend = None THEN w.max ELSE c.pend[1].max

\* The write w of c was answered; it is there if it was ok.
AnswerOf(c, d, w, ok, there) ==
    /\ ok \in BOOLEAN /\ there \in BOOLEAN /\ (ok => there)
    /\ c.iw # None /\ w = c.iw[1] /\ Answered(c, d, w, ok)
    /\ w.file = "delta" => w.min = c.success + 1

\* What is due of d then.
AnswerLeaves(c, d, w, n, l, u, x, sg, r, q) ==
    /\ Due(d, n, w.max, l, u, x, sg, r, q) /\ Less(c, d, sg, x)
    /\ d.cut = c.cut
    /\ c.pend # None => Passing(d, c.pend[1], w.max, x, sg)

\* What is due when a write was answered, and the snapshot that waits is
\* looked at.
LEMMA AnsweredDue ==
    ASSUME NEW c, NEW d, NEW w, NEW ok, NEW there,
           Chan(c), Chan(d), AnswerOf(c, d, w, ok, there),
           NEW n \in Nat, NEW lv, Order(c.idx, c.iw, c.pend, n, lv), NEW a \in Int, NEW u, NEW x \in Int, NEW sg, NEW r, NEW q,
           Due(c, n, a, a, u, x, sg, r, q), SegType(sg), NEW rr, NEW qq,
           ReadsTo(w, there, q, rr, qq), NEW l, l = Waiting(c, w)
    PROVE  AnswerLeaves(c, d, w, n, l, u, x, sg, rr, qq)
<1> DEFINE O == Owed(c, sg, x)
           P == Owed(d, sg, x)
           M == Made(c, sg, x)
           N == Made(d, sg, x)
           z == w.max
<1>0. /\ ok \in BOOLEAN /\ there \in BOOLEAN /\ (ok => there)
      /\ c.iw # None /\ w = c.iw[1] /\ Answered(c, d, w, ok)
      /\ w.file = "delta" => w.min = c.success + 1
  BY DEF AnswerOf
<1>1. /\ d.iw = None /\ d.pend = None /\ d.idx = c.idx /\ d.pub = c.pub
      /\ d.conn = c.conn /\ d.connected = c.connected
      /\ d.frames = c.frames /\ d.excused = c.excused /\ d.cut = c.cut
      /\ d.early = c.early /\ d.unsaved = c.unsaved /\ d.min = c.min
      /\ d.trunc = c.trunc /\ d.tl = c.tl
      /\ d.acked = IF Acks(c, w.frames) THEN w.frames.id ELSE c.acked
  BY <1>0 DEF Answered, Keeps, Fields
<1>2. P = O /\ N = M
  BY <1>1 DEF Owed, Made
<1>3. /\ w \in FileType /\ w.file \in {"index", "delta"} /\ z \in Nat
      /\ c.health \in Healths /\ c.success \in Nat /\ c.excused \in Int
      /\ w.frames \in FrameType /\ c.acked \in Nat
  BY <1>0, FileHas DEF Chan
<1>4. /\ Above(c.idx, c.iw, c.pend, a)
      /\ Covered(O, n, c.idx, c.iw, c.pend, a)
      /\ Reached(O, c, sg, a) /\ FramesBehind(O, c, sg)
      /\ Records(c, n, u, x, sg) /\ Level(c, a, r, q)
  BY DEF Due, Owes, OwesOf
<1> HIDE DEF O, P, M, N
<1>5. /\ a < z /\ z < n
      /\ \A j \in PendingIn(c.idx) : z < j
      /\ c.pend # None => z < c.pend[1].max /\ c.pend[1].max \in Nat
  BY <1>0, <1>4, HeldNumbers DEF Order, WriteOK, Above
<1>6. \A k \in O : k \in Nat
  BY DEF O, Owed, Made, SegType
<1>7. Level(d, z, rr, qq) /\ (d.health # "stale" => c.health # "stale")
  BY <1>0, <1>3, <1>4, AnsweredLevel
<1>8. l \in Nat /\ z <= l /\ (c.pend # None => l = c.pend[1].max)
  BY <1>3, <1>5 DEF Waiting
<1> HIDE DEF z
<1>9. Above(d.idx, d.iw, d.pend, z)
  BY <1>1, <1>5 DEF Above
<1>10. Covered(P, n, d.idx, d.iw, d.pend, l)
  <2>1. SUFFICES ASSUME NEW k \in O, k < n
                 PROVE  k <= l \/ HeldUpTo(c.idx, k)
    BY <1>1, <1>2 DEF Covered
  <2>2. \/ k <= a \/ (c.iw # None /\ k <= z)
        \/ (c.pend # None /\ k <= c.pend[1].max)
        \/ HeldUpTo(c.idx, k)
    BY <1>0, <1>4, <2>1 DEF Covered, z
  <2> QED
    BY <1>3, <1>5, <1>6, <1>8, <2>1, <2>2
<1>11. Behind(O, c, sg, w.frames, z)
  BY <1>0, <1>4 DEF FramesBehind, z
<1>12. Reached(P, d, sg, z)
  <2>1. SUFFICES ASSUME NEW k \in O, sg[k].pub = c.pub,
                        sg[k].id <= d.acked
                 PROVE  k <= z
    BY <1>1, <1>2 DEF Reached
  <2>2. CASE Acks(c, w.frames)
    <3>1. Mine(c, w.frames) /\ d.acked = w.frames.id
      BY <1>1, <2>2 DEF Acks, Mine
    <3> QED
      BY <1>11, <2>1, <3>1 DEF Behind
  <2>3. CASE ~Acks(c, w.frames)
    <3>1. k <= a
      BY <1>1, <1>4, <2>1, <2>3 DEF Reached
    <3> QED
      BY <1>3, <1>5, <1>6, <2>1, <3>1
  <2> QED
    BY <2>2, <2>3
<1>13. \A f : Mine(d, f) <=> Mine(c, f)
  BY <1>1 DEF Mine
<1>14. FramesBehind(P, d, sg)
  BY <1>1, <1>2, <1>4, <1>13 DEF FramesBehind, Behind
<1>15. Owes(d, n, z, l, x, sg)
  BY <1>9, <1>10, <1>12, <1>14 DEF Owes, OwesOf, P
<1>16. ASSUME d.health # "stale"
       PROVE  /\ Lists(d, n, u, N)
              /\ c.pend # None => TruncOK(c.pend[1].trunc, d.excused)
  <2>1. Lists(c, n, u, M)
    BY <1>4, <1>7, <1>16 DEF Records, M
  <2> QED
    BY <1>1, <1>2, <2>1 DEF Lists
<1>17. Records(d, n, u, x, sg)
  BY <1>1, <1>4, <1>16 DEF Records, N
<1>18. Due(d, n, z, l, u, x, sg, rr, qq)
  BY <1>7, <1>15, <1>17 DEF Due
<1>19. Less(c, d, sg, x)
  <2>1. c.connected \/ d.acked = c.acked
    BY <1>1 DEF Acks
  <2> QED
    BY <1>1, <1>2, <1>3, <2>1 DEF Less, SamePub, O, P, M, N
<1>20. ASSUME c.pend # None
       PROVE  Passing(d, c.pend[1], z, x, sg)
  <2>1. Behind(O, c, sg, c.pend[1].frames, c.pend[1].max)
    BY <1>4, <1>20 DEF FramesBehind
  <2>2. Behind(P, d, sg, c.pend[1].frames, c.pend[1].max)
    BY <1>1, <1>2, <1>13, <2>1 DEF Behind
  <2> QED
    BY <1>5, <1>16, <1>20, <2>2 DEF Passing, P
<1> QED
  BY <1>1, <1>18, <1>19, <1>20 DEF AnswerLeaves, z

\* What is due when the snapshot that waits for the write goes on.
LEMMA WaitingDue ==
    ASSUME NEW c, NEW d, NEW e, NEW w, NEW n \in Nat, NEW lv \in Int, NEW p,
           NEW med, NEW v, NEW i, Good(d, n, lv, p, med, v, i), Chan(c),
           c.pend = None => Counted(d, 0),
           c.pend # None => Counted(d, 1) /\ Writable(d, c.pend[1], n, lv),
           e = IF c.pend = None THEN d ELSE SnapWrite(d, c.pend[1]),
           NEW u, NEW x \in Int, NEW sg, NEW r, NEW q, SegType(sg),
           CutOK(d, x), w.max \in Nat, w.max < n,
           Due(d, n, w.max, Waiting(c, w), u, x, sg, r, q),
           c.pend # None => Passing(d, c.pend[1], w.max, x, sg)
    PROVE  /\ Leaves(d, e, n, u, x, sg, r, q)
           /\ Good(e, n, lv, p, med, v, i) /\ Counted(e, 0)
<1> DEFINE z == w.max
<1>1. z \in Int /\ z < n /\ Chan(d)
  BY DEF Good
<1>2. CASE c.pend = None
  <2>1. e = d /\ Waiting(c, w) = z
    BY <1>2 DEF Waiting
  <2> HIDE DEF z
  <2>2. Dues(d, n, u, x, sg, r, q)
    BY <1>1, <2>1 DEF Dues, z
  <2>3. Keeps(d, d, {}) /\ {} \cap DueFields = {}
    BY <1>1 DEF Keeps, Chan
  <2>4. Leaves(d, d, n, u, x, sg, r, q)
    BY <1>1, <2>2, <2>3, LeavesSame
  <2> QED
    BY <1>2, <2>1, <2>4
<1>3. CASE c.pend # None
  <2> DEFINE s == c.pend[1]
  <2>1. e = SnapWrite(d, s) /\ Waiting(c, w) = s.max /\ Counted(d, 1)
        /\ Writable(d, s, n, lv) /\ Passing(d, s, z, x, sg)
    BY <1>3 DEF Waiting
  <2>2. Due(d, n, z, s.max, u, x, sg, r, q)
    BY <2>1
  <2> HIDE DEF s, z
  <2>3. Leaves(d, SnapWrite(d, s), n, u, x, sg, r, q)
    BY <1>1, <2>1, <2>2, SnapWriteDue
  <2>4. Good(SnapWrite(d, s), n, lv, p, med, v, i)
        /\ Counted(SnapWrite(d, s), 0)
    BY <2>1, SnapWriteGood
  <2> QED
    BY <2>1, <2>3, <2>4
<1> QED
  BY <1>2, <1>3

\* The write of an index is answered, and the files go on.
LEMMA IndexDoneDue ==
    ASSUME IInv, IInv', DueInv, NEW ok \in BOOLEAN, NEW there \in BOOLEAN,
           NEW F, IndexDone(ok, there, F)
    PROVE  DueInv'
<1> DEFINE b == IF ok THEN ch ELSE Event(ch)
           c == Failing(b, F)
           w == ch.iw[1]
           s == ch.health # "stale"
           d == [FramesClose(c, w.frames, TRUE) EXCEPT
                    !.iw = None, !.pend = None,
                    !.health = IF ok THEN Written(@, w.file)
                               ELSE Failed(@, w.file),
                    !.success = Success(ch, w, ok)]
           e == IF ch.pend = None THEN d ELSE SnapWrite(d, ch.pend[1])
           f == Done(e)
           new == store'
           n == ch.next
           none == {}
           x == Before
           sg == seg
           g == store.media
           p == BucketOf(n)
           i == Image(store, s)
           k == Image(new, s)
           r == Recovered(store).max
           q == IndexEnd(store)
           rr == Recovered(new).max
           qq == IndexEnd(new)
           M == Made(ch, sg, x)
           N == Made(ch', sg, x)
<1>1. /\ ch' = f /\ PutOf(new, there) /\ ch.iw # None /\ (ok => there)
      /\ seg' = seg /\ active' = active
  BY DEF IndexDone, PutOf, IndexPut
<1>2. b \in {ch, Event(ch)} /\ x \in Int /\ x < 0 /\ s \in BOOLEAN
  BY BeforeAll
<1>3. PICK lv \in Int : Safe(lv, s)
  BY SafeKnown
<1> DEFINE l == IF there THEN w.max ELSE lv
<1>4. /\ Standing(ch, lv, g, i) /\ Chan(ch) /\ StoreOK(store)
      /\ (s => Readable(store, lv, ch.success))
  BY <1>2, <1>3, SafeStands DEF Safe
<1>5. /\ MadeAt(ch, sg) /\ (active => ch.acked <= ch.frames)
      /\ Dues(ch, n, none, x, sg, r, q)
      /\ (s => FilesName(store, M, ch.excused))
  BY DEF DueInv, DuesAt
<1>6. /\ StoreOK(new) /\ WriteFits(w, lv, ch.success)
      /\ FilePut(store, new, w, there)
  BY <1>1, <1>2, <1>3, PutSafe
<1>7. w \in FileType /\ w.max \in Nat
  BY <1>6 DEF WriteFits, FileType
<1>8. SegType(sg) /\ n \in Nat
  BY <1>4, <1>5 DEF MadeAt, Chan
<1>9. ReadsTo(w, there, q, rr, qq)
  BY <1>4, <1>6, PutReads
<1>10. /\ l = IF there THEN w.max ELSE lv
       /\ w = ch.iw[1]
  OBVIOUS
<1> HIDE DEF b, x, new, none, s, g, i, r, q, rr, qq, sg
<1>11. StandingAt(c, n, lv, g, i, ch.success) /\ Starts(ch, c) /\ Chan(c)
  BY <1>2, <1>4, FailingStanding, FailingStarts DEF Starts
<1> HIDE DEF c
<1>12. /\ c.iw = ch.iw /\ c.pend = ch.pend /\ c.success = ch.success
       /\ c.pub = ch.pub /\ c.frames \in Nat /\ ch.frames <= c.frames
       /\ c.excused = ch.excused /\ c.acked = ch.acked
  BY <1>11 DEF Starts, Keeps, Fields, Chan
<1>13. Dues(c, n, none, x, sg, r, q) /\ Made(c, sg, x) = M
  BY <1>4, <1>5, <1>11, StartsDue
<1>14. Answered(c, d, w, ok)
  BY <1>7, <1>11, <1>12, AnsweredDoes
<1>15. e = IF c.pend = None THEN d ELSE SnapWrite(d, c.pend[1])
  BY <1>12
<1>16. /\ Order(c.idx, c.iw, c.pend, n, lv) /\ c.next = n
       /\ c.iw # None /\ w = c.iw[1]
       /\ w.file = "delta" => w.min = c.success + 1
  BY <1>1, <1>6, <1>10, <1>11, <1>12
     DEF StandingAt, Standing, Good, WriteFits
<1> HIDE DEF d, w, l, n, p, k
<1>17. /\ Good(d, ch.next, l, BucketOf(ch.next), store.media, {},
               Image(new, s))
       /\ l \in Int
       /\ c.pend = None => Counted(d, 0)
       /\ c.pend # None =>
            Counted(d, 1) /\ Writable(d, c.pend[1], ch.next, l)
  BY <1>1, <1>2, <1>3, <1>10, <1>11, <1>12, <1>14, IndexAnswered
     DEF n, g, i
<1>18. /\ Good(d, n, l, p, g, none, k) /\ Chan(d)
       /\ c.pend # None => Counted(d, 1) /\ Writable(d, c.pend[1], n, l)
  BY <1>17 DEF n, p, g, none, k, Good
<1>19. PICK a \in Int : a < n /\ Due(c, n, a, a, none, x, sg, r, q)
  BY <1>13 DEF Dues
<1>20. /\ Due(d, n, w.max, Waiting(c, w), none, x, sg, rr, qq)
       /\ Less(c, d, sg, x) /\ d.cut = c.cut
       /\ c.pend # None => Passing(d, c.pend[1], w.max, x, sg)
  <2> DEFINE y == Waiting(c, w)
  <2>1. y = Waiting(c, w)
    OBVIOUS
  <2>2. Due(c, n, a, a, none, x, sg, r, q)
    BY <1>19
  <2>3. AnswerOf(c, d, w, ok, there)
    BY <1>1, <1>14, <1>16 DEF AnswerOf
  <2> HIDE DEF y
  <2>4. Chan(c) /\ Chan(d) /\ Order(c.idx, c.iw, c.pend, n, lv)
    BY <1>11, <1>16, <1>18
  <2>5. AnswerLeaves(c, d, w, n, y, none, x, sg, rr, qq)
    BY <1>2, <1>8, <1>9, <2>1, <2>2, <2>3, <2>4, AnsweredDue
  <2> QED
    BY <2>1, <2>5 DEF AnswerLeaves
<1>21. CutOK(d, x)
  BY <1>13, <1>20 DEF Dues, CutOK
<1>22. w.max < n
  BY <1>16 DEF Order, WriteOK
<1> HIDE DEF e
<1>23. /\ Leaves(d, e, n, none, x, sg, rr, qq)
       /\ Good(e, n, l, p, g, none, k) /\ Counted(e, 0)
  BY <1>2, <1>7, <1>8, <1>11, <1>15, <1>17, <1>18, <1>20, <1>21, <1>22,
     WaitingDue
<1>24. Chan(e) /\ (e.health # "stale" => s)
  <2>1. k.fresh = s
    BY DEF k, Image
  <2> QED
    BY <1>23, <2>1 DEF Good, Stored
<1>25. e.next = n
  <2>1. d.next = n
    BY <1>14, <1>16 DEF Answered, Keeps, Fields
  <2>2. CASE c.pend = None
    BY <1>15, <2>1, <2>2
  <2>3. CASE c.pend # None
    <3>1. c.pend[1] \in SnapType
      BY <1>18, <2>3 DEF Writable
    <3>2. Keeps(d, e, {"snapshots", "acked", "iw", "pend", "changed",
                       "health"})
      BY <1>15, <1>18, <2>3, <3>1, SnapWriteKeeps
    <3> QED
      BY <2>1, <3>2 DEF Keeps, Fields
  <2> QED
    BY <2>2, <2>3
<1>26. Leaves(c, e, n, none, x, sg, rr, qq)
  BY <1>11, <1>18, <1>20, <1>23, <1>24, LessOn DEF Leaves
<1>27. f.health = e.health
  BY <1>24 DEF Done, Chan, Fields
<1> HIDE DEF f
<1>28. /\ Leaves(c, f, n, none, x, sg, rr, qq) /\ Chan(f)
       /\ f.noFree = FALSE /\ f.next = n
  <2>1. f = Done(e)
    BY DEF f
  <2> QED
    BY <1>11, <1>24, <1>25, <1>26, <2>1, DoneDue
<1>29. /\ Dues(ch', n, none, x, sg, rr, qq) /\ Less(c, ch', sg, x)
       /\ ch'.noFree = FALSE /\ ch'.next = n /\ Chan(ch')
       /\ ch'.health # "stale" => s
  BY <1>1, <1>24, <1>27, <1>28 DEF Leaves
<1>30. /\ ch'.pub = ch.pub /\ ch'.frames = c.frames
       /\ ch'.connected = c.connected /\ ch.excused <= ch'.excused
       /\ (c.connected \/ ch'.acked = ch.acked) /\ N \subseteq M
  BY <1>12, <1>13, <1>29 DEF Less, SamePub
<1>31. ch.excused \in Int /\ ch'.excused \in Int /\ ch.frames \in Nat
       /\ ch.acked \in Nat
  BY <1>4, <1>29 DEF Chan
<1> HIDE DEF M, N
<1>32. MadeAt(ch', seg')
  <2>1. MadeAt(ch', sg)
    BY <1>5, <1>29, <1>30 DEF MadeAt, n
  <2> QED
    BY <1>1, <2>1 DEF sg
<1>33. DuesAt(ch', seg', store')
  BY <1>1, <1>29 DEF DuesAt, none, x, sg, rr, qq, new
<1>34. ASSUME ch'.health # "stale"
       PROVE  FilesName(store', Made(ch', seg', Before), ch'.excused)
  <2>1. /\ Readable(store, lv, ch.success)
        /\ FilesName(store, M, ch.excused)
    BY <1>4, <1>5, <1>29, <1>34
  <2>2. Names(w, M, ch.excused)
    <3>1. Records(ch, n, none, x, sg)
      BY <1>5 DEF Dues, Due
    <3>2. Lists(ch, n, none, M)
      BY <1>29, <1>34, <3>1 DEF Records, s, M
    <3> QED
      BY <1>1, <1>10, <3>2 DEF Lists
  <2>3. FilesName(new, M, ch.excused)
    BY <1>4, <1>6, <2>1, <2>2, FilesNamePut
  <2>4. new \in StoreType /\ SameFiles(new, new)
    BY <1>6 DEF StoreOK, SameFiles
  <2>5. FilesName(new, N, ch'.excused)
    BY <1>30, <1>31, <2>3, <2>4, FilesNameLess
  <2> QED
    BY <1>1, <2>5 DEF N, new, x, sg
<1>35. ASSUME active' PROVE ch'.acked <= ch'.frames
  <2>1. ch'.connected => ch'.acked <= ch'.frames
    <3>1. PICK lw \in Int, h \in BOOLEAN : Safe(lw, h)'
      BY DEF IInv
    <3> QED
      BY <3>1 DEF Safe, Standing, Good, Known
  <2>2. ch.acked <= ch.frames
    BY <1>1, <1>5, <1>35
  <2> QED
    BY <1>12, <1>30, <1>31, <2>1, <2>2
<1> QED
  BY <1>29, <1>32, <1>33, <1>34, <1>35 DEF DueInv

-----------------------------------------------------------------------------
(* The server restarts *)

\* The lesser of two numbers
Lesser(e, m) == IF e > m THEN m ELSE e

\* Nothing that is promised was truncated before the segments that are read,
\* either.
LEMMA FilesNameRead ==
    ASSUME NEW st, StoreOK(st), NEW new, SameFiles(st, new), NEW lv \in Int,
           NEW success, Readable(st, lv, success), NEW M, NEW N,
           NEW e \in Int, NEW g \in Int, FilesName(st, M, e), N \subseteq M,
           Lesser(e, lv) <= g
    PROVE  FilesName(new, N, g)
<1>1. st \in StoreType /\ new.index = st.index /\ new.delta = st.delta
  BY DEF StoreOK, SameFiles
<1>2. ASSUME NEW f \in FileType, FileOK(f), f.max <= lv, Names(f, M, e)
      PROVE  Names(f, N, g)
  <2>1. f.trunc \in Nat /\ f.max \in Nat /\ f.trunc <= f.max
    BY <1>2 DEF FileType, FileOK
  <2>2. TruncOK(f.trunc, g)
    BY <1>2, <2>1 DEF Names, TruncOK, Lesser
  <2> QED
    BY <1>2, <2>2 DEF Names
<1>3. ASSUME st.index # None PROVE Names(st.index[1], N, g)
  BY <1>1, <1>2, <1>3, StoreNumbers DEF FilesName, Readable, StoreOK
<1>4. ASSUME Alive(st) PROVE Names(st.delta[1], N, g)
  <2>1. /\ st.delta # None /\ st.delta[1].max <= lv
        /\ Names(st.delta[1], M, e)
    BY <1>4 DEF FilesName, Readable, Alive
  <2>2. FileOK(st.delta[1])
    BY <2>1 DEF StoreOK
  <2> QED
    BY <1>1, <1>2, <2>1, <2>2, StoreNumbers
<1>5. Alive(new) => Alive(st)
  BY <1>1 DEF Alive
<1> QED
  BY <1>1, <1>3, <1>4, <1>5 DEF FilesName

\* The timelines are truncated where the files say.
LEMMA TruncRead ==
    ASSUME NEW st, StoreOK(st), NEW lv \in Int, NEW success,
           Readable(st, lv, success), NEW M, NEW e \in Int, NEW g \in Int,
           FilesName(st, M, e), Lesser(e, lv) <= g
    PROVE  TruncOK(Recovered(st).trunc, g)
<1>1. CASE st.index = None
  BY <1>1 DEF Recovered, TruncOK
<1>2. CASE st.index # None
  <2> DEFINE f == IF DeltaCounts(st) THEN st.delta[1] ELSE st.index[1]
  <2>1. Recovered(st).trunc = f.trunc
    BY <1>2 DEF Recovered
  <2>2. SameFiles(st, st)
    BY DEF SameFiles
  <2>3. FilesName(st, M, g)
    BY <2>2, FilesNameRead
  <2>4. DeltaCounts(st) => Alive(st)
    BY <1>2, StoreNumbers DEF DeltaCounts, Alive, StoreOK
  <2>5. Names(f, M, g)
    BY <1>2, <2>3, <2>4 DEF FilesName
  <2> QED
    BY <2>1, <2>5 DEF Names
<1> QED
  BY <1>1, <1>2

\* What is read and was not lost by its age
LEMMA AgedHas ==
    ASSUME NEW c, NEW d, NEW r, NEW j \in Nat, Aged(c, d, r, j),
           r.max + 1 \in Nat, r.max \in Int, r.tl \subseteq Nat,
           \A k \in r.tl : k <= r.max,
           NEW k \in r.tl, d.min <= k
    PROVE  k \in d.tl
<1> DEFINE m == r.max + 1
<1>1. d.tl = r.tl \ Oldest(r.tl, j)
      /\ d.min = IF d.tl = {} THEN m ELSE Min(d.tl)
  BY DEF Aged
<1>2. m \in Nat /\ r.tl \subseteq 0 .. m /\ k < m /\ k \in Nat
  OBVIOUS
<1> HIDE DEF m
<1>3. Trims(r, r.tl \ Oldest(r.tl, j), {})
  BY <1>2, OldestTrims
<1>4. d.tl # {}
  BY <1>1, <1>2
<1>5. Min(d.tl) \in d.tl /\ d.min = Min(d.tl) /\ d.min \in Nat
  <2>1. d.tl \subseteq Nat
    BY <1>1
  <2> QED
    BY <1>1, <1>4, <2>1, MinLeast
<1>6. SUFFICES ASSUME k \notin d.tl PROVE FALSE
  OBVIOUS
<1>7. k < d.min
  BY <1>1, <1>3, <1>5, <1>6 DEF Trims
<1> QED
  BY <1>2, <1>5, <1>7

\* d is the channel c after r was read of the files st, and new are the
\* segments of sg that are read back; j of them are lost by their age.
ReadBack(c, sg, d, new, st, r, z, j) ==
    /\ Chan(c) /\ c.cut = 0 /\ SegType(sg) /\ StoreOK(st)
    /\ r = Recovered(st)
    /\ Restarted(c, d, r, z) /\ Aged(c, d, r, j)
    /\ DOMAIN new = {k \in DOMAIN sg : k <= r.max}
    /\ \A k \in DOMAIN new : new[k] = sg[k]

\* No more segments are promised than before.
LEMMA MadeRead ==
    ASSUME NEW c, NEW sg, NEW d, NEW new, NEW st, NEW r, NEW z, NEW j,
           ReadBack(c, sg, d, new, st, r, z, j), NEW x \in Int
    PROVE  /\ SegType(new) /\ Made(d, new, x) \subseteq Made(c, sg, x)
           /\ Lesser(c.excused, r.max) <= d.excused
           /\ d.min <= d.excused + 1
<1>1. /\ Chan(c) /\ Chan(d) /\ SegType(sg) /\ c.cut = 0
      /\ DOMAIN new = {k \in DOMAIN sg : k <= r.max}
      /\ \A k \in DOMAIN new : new[k] = sg[k]
  BY DEF ReadBack, Restarted
<1>2. r.max \in Int
  BY RecoveredIs DEF ReadBack
<1>3. d.excused = Bigger(IF c.excused > r.max THEN r.max ELSE c.excused,
                         d.min - 1)
  BY DEF ReadBack, Aged
<1>4. c.excused \in Int /\ d.min \in Nat /\ d.excused \in Int
  BY <1>1 DEF Chan
<1>5. Lesser(c.excused, r.max) <= d.excused /\ d.min <= d.excused + 1
  BY ONLY <1>2, <1>3, <1>4 DEF Bigger, Lesser
<1>6. SegType(new)
  BY <1>1 DEF SegType
<1>7. ASSUME NEW k \in Made(d, new, x) PROVE k \in Made(c, sg, x)
  <2>1. /\ k \in DOMAIN sg /\ k <= r.max /\ k \in Nat /\ new[k] = sg[k]
        /\ new[k].exists /\ d.excused < k /\ x < k
    BY <1>1 DEF Made, SegType
  <2>2. c.excused < k
    BY <1>2, <1>4, <1>5, <2>1 DEF Lesser
  <2> QED
    BY <1>1, <2>1, <2>2 DEF Made
<1> QED
  BY <1>5, <1>6, <1>7

\* What is read back lists all that is promised.
LEMMA ReadLists ==
    ASSUME NEW c, NEW sg, NEW d, NEW new, NEW st, NEW r, NEW z, NEW j \in Nat,
           ReadBack(c, sg, d, new, st, r, z, j), NEW x \in Int,
           Readable(st, r.max, r.success),
           FilesName(st, Made(c, sg, x), c.excused)
    PROVE  /\ Lists(d, z, {}, Made(d, new, x))
           /\ FilesName(st, Made(d, new, x), d.excused)
<1> DEFINE M == Made(c, sg, x)
           N == Made(d, new, x)
<1>1. /\ Chan(c) /\ Chan(d) /\ StoreOK(st) /\ r = Recovered(st)
      /\ d.idx = << >> /\ d.iw = None /\ d.pend = None
      /\ d.trunc = r.trunc /\ Aged(c, d, r, j)
      /\ DOMAIN new = {k \in DOMAIN sg : k <= r.max}
  BY DEF ReadBack, Restarted
<1>2. /\ r.max \in Int /\ r.max + 1 \in Nat /\ r.tl \subseteq Nat
      /\ \A k \in r.tl : k <= r.max
  BY <1>1, RecoveredIs
<1>3. /\ SegType(new) /\ N \subseteq M
      /\ Lesser(c.excused, r.max) <= d.excused /\ d.min <= d.excused + 1
  BY MadeRead
<1>4. /\ c.excused \in Int /\ d.excused \in Int /\ d.min \in Nat
      /\ SameFiles(st, st)
  BY <1>1 DEF Chan, SameFiles
<1>5. FilesName(st, M, c.excused)
  OBVIOUS
<1>9. \A k \in N : k \in DOMAIN new /\ d.excused < k
  BY DEF Made
<1> HIDE DEF M, N
<1>6. FilesName(st, N, d.excused)
  BY <1>1, <1>2, <1>3, <1>4, <1>5, FilesNameRead
<1>7. TruncOK(d.trunc, d.excused)
  BY <1>1, <1>2, <1>3, <1>4, <1>5, TruncRead
<1>8. ASSUME NEW k \in N PROVE k \in d.tl
  <2>1. k \in Nat /\ k <= r.max /\ d.excused < k
    BY <1>1, <1>3, <1>9 DEF SegType
  <2>2. k \in r.tl
    BY <1>1, <1>4, <1>6, <2>1, RecoveredHas
  <2>3. d.min <= k
    BY <1>3, <1>4, <2>1
  <2> QED
    BY <1>1, <1>2, <2>2, <2>3, AgedHas
<1>10. HeldIn(d.idx) = {}
  BY <1>1 DEF HeldIn
<1>11. Lists(d, z, {}, N)
  BY <1>1, <1>7, <1>8, <1>10 DEF Lists
<1> QED
  BY <1>6, <1>11 DEF N

\* All that is promised can be acked then.
LEMMA ReadDue ==
    ASSUME NEW c, NEW sg, NEW d, NEW new, NEW st, NEW r, NEW z \in Nat,
           NEW j \in Nat, ReadBack(c, sg, d, new, st, r, z, j),
           r.max < z, NEW x \in Int, x < 0, NEW h,
           d.health = Reread(h, st, r.max),
           h = "stale" \/ FilesName(st, Made(c, sg, x), c.excused)
    PROVE  Dues(d, z, {}, x, new, r.max, IndexEnd(st))
<1> DEFINE q == IndexEnd(st)
           a == r.max
           M == Made(d, new, x)
<1>1. /\ Chan(d) /\ StoreOK(st) /\ r = Recovered(st)
      /\ d.idx = << >> /\ d.iw = None /\ d.pend = None /\ d.cut = 0
      /\ d.success = r.success
      /\ DOMAIN new = {k \in DOMAIN sg : k <= r.max}
  BY DEF ReadBack, Restarted
<1>2. /\ r.max \in Int
      /\ st.index # None => r.success = st.index[1].max
  BY <1>1, RecoveredIs
<1>3. SegType(new) /\ d.min <= d.excused + 1
  BY MadeRead
<1>4. ASSUME d.health # "stale" PROVE Lists(d, z, {}, M)
  <2>1. Readable(st, r.max, r.success) /\ h # "stale"
    BY <1>1, <1>4, RereadReadable
  <2> QED
    BY <2>1, ReadLists
<1>5. Records(d, z, {}, x, new)
  <2>1. DOMAIN d.idx = {}
    BY <1>1
  <2> QED
    BY <1>3, <1>4, <2>1 DEF Records
<1>6. Level(d, a, r.max, q)
  <2>1. d.health \in {"stale", "new", "ok"}
        /\ (d.health = "ok" => st.index # None)
    BY DEF Reread
  <2> QED
    BY <1>1, <1>2, <2>1 DEF Level, IndexEnd
<1>7. Blank(d) /\ a \in Int /\ a < z /\ \A k \in DOMAIN new : k <= a
  BY <1>1, <1>2 DEF Blank
<1> HIDE DEF a, q
<1>8. Dues(d, z, {}, x, new, r.max, q)
  BY <1>3, <1>5, <1>6, <1>7, BlankDue
<1> QED
  BY <1>8 DEF q

\* The server starts with what it reads of the files.
LEMMA RestartDue ==
    ASSUME IInv, DueInv, NEW M, NEW there \in BOOLEAN,
           NEW j \in Nat, Restart(M, there, j)
    PROVE  DueInv'
<1> DEFINE put == IndexPut(store, ch.iw[1], there)
           r == Recovered(put)
           z == RoundUp(r.max + 1)
           x == Before
           s == ch.health # "stale"
           G == Made(ch, seg, x)
           d == ch'
           new == seg'
<1>1. PutOf(put, there) /\ active' = FALSE
  BY DEF PutOf, Restart
<1>2. PICK media : store' = [put EXCEPT !.media = media]
  BY DEF Restart, IndexPut
<1>3. seg' = [k \in {i \in DOMAIN seg : i <= r.max} |-> seg[k]]
  BY DEF Restart, IndexPut
<1>4. r = Recovered(put)
  OBVIOUS
<1>5. x \in Int /\ x < 0 /\ s \in BOOLEAN
  BY BeforeAll
<1>6. PICK lv \in Int : Safe(lv, s)
  BY SafeKnown
<1>7. Chan(ch) /\ StoreOK(store) /\ (s => Readable(store, lv, ch.success))
  BY <1>5, <1>6, SafeStands DEF Safe
<1>8. /\ MadeAt(ch, seg) /\ DuesAt(ch, seg, store)
      /\ (s => FilesName(store, G, ch.excused))
  BY DEF DueInv
<1>9. StoreOK(put)
  BY <1>1, <1>5, <1>6, PutSafe
<1> HIDE DEF put, r
<1>10. /\ Restarted(ch, ch', r, z) /\ Aged(ch, ch', r, j)
       /\ ch'.health = Reread(ch.health, put, r.max)
  BY <1>1, <1>4, <1>7, <1>9, RestartMakes
<1>11. r.max \in Int /\ r.max + 1 \in Nat
  BY <1>4, <1>9, RecoveredIs
<1>12. z \in Nat /\ r.max < z
  <2>1. z \in Nat /\ r.max + 1 <= z
    BY <1>11, RoundUpBounds
  <2> QED
    BY <1>11, <2>1
<1> HIDE DEF z, x, s, d, new
<1>13. CutOK(ch, x) /\ Records(ch, ch.next, {}, x, seg)
  BY <1>8 DEF DuesAt, Dues, Due, x
<1>14. ReadBack(ch, seg, d, new, put, r, z, j)
  <2>1. ch.cut = 0
    BY <1>5, <1>7, <1>13 DEF CutOK, Chan
  <2> QED
    BY <1>3, <1>4, <1>7, <1>8, <1>9, <1>10, <2>1
       DEF ReadBack, MadeAt, d, new
<1>15. ASSUME s PROVE FilesName(put, G, ch.excused)
  <2>1. CASE there
    <3>1. ch.iw # None
      BY <1>1, <2>1 DEF PutOf
    <3>2. Names(ch.iw[1], G, ch.excused)
      BY <1>13, <1>15, <3>1 DEF Records, Lists, s
    <3>3. /\ WriteFits(ch.iw[1], lv, ch.success)
          /\ FilePut(store, put, ch.iw[1], there)
      BY <1>1, <1>5, <1>6, <3>1, PutSafe
    <3> HIDE DEF G
    <3> QED
      BY <1>7, <1>8, <1>15, <3>2, <3>3, FilesNamePut
  <2>2. CASE ~there
    BY <1>8, <1>15, <2>2 DEF put, IndexPut
  <2> QED
    BY <2>1, <2>2
<1>16. Dues(d, z, {}, x, new, r.max, IndexEnd(put))
  BY <1>5, <1>10, <1>12, <1>14, <1>15, ReadDue DEF s, d
<1>17. SameFiles(put, store') /\ SameFiles(put, put) /\ put \in StoreType
  BY <1>2, <1>9 DEF SameFiles, StoreOK, StoreType
<1>18. Recovered(store') = r /\ IndexEnd(store') = IndexEnd(put)
  BY <1>4, <1>17, SameReads
<1>19. ch'.next = z /\ ch'.pub = ch.pub /\ ch'.noFree = FALSE
  BY <1>10 DEF Restarted, Aged
<1>20. DuesAt(ch', seg', store')
  BY <1>16, <1>18, <1>19 DEF DuesAt, d, new, x
<1>21. MadeAt(ch', seg')
  <2>1. SegType(new)
    BY <1>5, <1>14, MadeRead
  <2>2. \A k \in DOMAIN seg' :
            k < z /\ seg'[k].pub \in Nat /\ seg'[k].pub <= ch.pub
    BY <1>3, <1>8, <1>11, <1>12 DEF MadeAt, SegType
  <2> QED
    BY <1>19, <2>1, <2>2 DEF MadeAt, new
<1>22. ASSUME ch'.health # "stale"
       PROVE  FilesName(store', Made(ch', seg', Before), ch'.excused)
  <2>1. Readable(put, r.max, r.success) /\ s
    BY <1>4, <1>9, <1>10, <1>22, RereadReadable DEF s
  <2>2. FilesName(put, Made(d, new, x), d.excused)
    BY <1>5, <1>14, <1>15, <2>1, ReadLists
  <2>3. FilesName(store', Made(d, new, x), d.excused)
    BY <1>17, <2>2 DEF FilesName, SameFiles, Alive
  <2> QED
    BY <2>3 DEF d, new, x
<1> QED
  BY <1>1, <1>19, <1>20, <1>21, <1>22 DEF DueInv

-----------------------------------------------------------------------------
(* All steps *)

\* A step that leaves the channel, the files and the segments as they are.
LEMMA NothingDue ==
    ASSUME DueInv, UNCHANGED vars
    PROVE  DueInv'
<1>1. ch' = ch /\ store' = store /\ seg' = seg /\ active' = active
  BY DEF vars
<1> QED
  BY <1>1 DEF DueInv, MadeAt, SegType, DuesAt

\* Every step keeps what is due.
LEMMA NextDue ==
    ASSUME IInv, IInv', DueInv, [Next]_vars
    PROVE  DueInv'
<1>1. CASE Connect \/ Disconnect \/ \E again \in BOOLEAN : ConnectBack(again)
  BY <1>1, ConnectDue
<1>2. CASE Activate
  BY <1>2, ActivateDue
<1>3. CASE DisposeFrames
  BY <1>3, DisposeFramesDue
<1>4. CASE HistoryChanged
  BY <1>4, HistoryChangedDue
<1>5. ASSUME NEW exists \in BOOLEAN, NEW j \in 0 .. Window, NEW F,
             CreateSegment(exists, j, F)
      PROVE  DueInv'
  <2>1. j \in Nat
    BY SegmentPersistAssumption
  <2> QED
    BY <1>5, <2>1, SegmentMadeDue
<1>6. ASSUME NEW F, ChannelInactive(F) PROVE DueInv'
  BY <1>6, InactiveDue
<1>7. ASSUME NEW j, TimelinesCleanup(j) PROVE DueInv'
  BY <1>7, CleanupDue
<1>8. ASSUME NEW n, NEW F, Watermark(n, F) PROVE DueInv'
  BY <1>8, LowMemoryDue
<1>9. ASSUME NEW w, NEW ok \in BOOLEAN, NEW F, MediaDone(w, ok, F)
      PROVE  DueInv'
  BY <1>9, MediaDoneDue
<1>10. ASSUME NEW ok \in BOOLEAN, NEW there \in BOOLEAN, NEW F,
              IndexDone(ok, there, F)
       PROVE  DueInv'
  BY <1>10, IndexDoneDue
<1>11. ASSUME NEW M, NEW there \in BOOLEAN, NEW j \in 0 .. MaxSegments,
              Restart(M, there, j)
       PROVE  DueInv'
  <2>1. j \in Nat
    BY SegmentPersistAssumption
  <2> QED
    BY <1>11, <2>1, RestartDue
<1>12. CASE UNCHANGED vars
  BY <1>12, NothingDue
<1> QED
  BY <1>1, <1>2, <1>3, <1>4, <1>5, <1>6, <1>7, <1>8, <1>9, <1>10, <1>11,
     <1>12 DEF Next

\* Whoever holds the snapshot that lets a segment be acked, and the files,
\* are where they have to be, whatever the sizes of buckets, deltas, window
\* and memory are.
THEOREM SegmentsDue == Spec => [](IInv /\ DueInv)
<1>1. Init => IInv /\ DueInv
  BY InitSafe, InitDue
<1>2. IInv /\ DueInv /\ [Next]_vars => (IInv /\ DueInv)'
  <2> SUFFICES ASSUME IInv, DueInv, [Next]_vars
               PROVE  IInv' /\ DueInv'
    OBVIOUS
  <2>1. IInv'
    BY NextSafe
  <2>2. DueInv'
    BY <2>1, NextDue
  <2> QED
    BY <2>1, <2>2
<1> QED
  BY <1>1, <1>2, PTL DEF Spec

\* A segment whose frames the publisher was told to forget is read back by a
\* restart, with its media, in whatever order the writes of media and of the
\* index end and arrive; unless it was given up or is too old, the last
\* writes of the index failed, or it was acked by an index that is older.
THEOREM AckedSegmentsSaved == Spec => []AckedSaved
<1>1. IInv /\ DueInv => AckedSaved
  BY DueSaved
<1> QED
  BY <1>1, SegmentsDue, PTL

=============================================================================
