------------------------- MODULE SegmentPersistSteps -------------------------
(***************************************************************************)
(* What the operators of SegmentPersist do to the channel, and what they   *)
(* preserve.                                                               *)
(*                                                                         *)
(* A channel is a record of many fields, of which an operator changes few: *)
(* Keeps(c, d, F) says that d is c but for the fields F, and one predicate *)
(* for each operator says what becomes of these.  The proofs of what the   *)
(* operators preserve use the predicates only.                             *)
(*                                                                         *)
(* Good says what holds of a channel between the calls of the code, when   *)
(* part of a step was taken: its parameters tell how far.  One lemma for   *)
(* each operator; the steps of the specification follow in                 *)
(* SegmentPersist_proofs.                                                  *)
(***************************************************************************)
EXTENDS SegmentPersist, FiniteSetTheorems, WellFoundedInduction, TLAPS

Fields ==
    {"next", "min", "connected", "conn", "frames", "acked", "snapshots",
     "idx", "lastReady", "noFree", "lastBucket", "media", "iw", "pend",
     "success", "changed", "tl", "trunc", "cut", "fail", "events", "pub",
     "hist", "excused", "early", "unsaved", "health"}

Opt(S) == {None} \cup {Some(x) : x \in S}

FrameType == [set : BOOLEAN, conn : Nat, id : Nat]

SnapType == [max : Nat, frames : FrameType, trunc : Nat, next : Nat]

FileType == [file : {"index", "delta"}, min : Nat, max : Nat,
             frames : FrameType, tl : SUBSET Nat, trunc : Nat, next : Nat,
             hist : Nat]

EntryType == [persist : {"none", "ok", "error"}, snap : Opt(SnapType),
              free : BOOLEAN]

MediaType == [bucket : Nat, at : Nat, segs : SUBSET Nat]

Healths == {"new", "ok", "index", "delta", "masked", "stale"}

IdxType(idx) ==
    DOMAIN idx \subseteq Nat /\ \A k \in DOMAIN idx : idx[k] \in EntryType

\* The fields of a channel and what they hold.
Chan(c) ==
    /\ DOMAIN c = Fields
    /\ c.next \in Nat /\ c.min \in Nat /\ c.conn \in Nat
    /\ c.frames \in Nat /\ c.acked \in Nat /\ c.success \in Nat
    /\ c.changed \in Nat /\ c.trunc \in Nat /\ c.cut \in Nat
    /\ c.events \in Nat /\ c.pub \in Nat /\ c.hist \in Nat
    /\ c.snapshots \in Int /\ c.lastReady \in Int /\ c.lastBucket \in Int
    /\ c.excused \in Int /\ c.early \in Int
    /\ c.connected \in BOOLEAN /\ c.noFree \in BOOLEAN
    /\ c.tl \subseteq Nat /\ c.unsaved \subseteq Nat
    /\ IdxType(c.idx)
    /\ c.media \subseteq MediaType
    /\ c.iw \in Opt(FileType) /\ c.pend \in Opt(SnapType)
    /\ c.health \in Healths

\* d is c but for the fields F.
Keeps(c, d, F) == DOMAIN d = Fields /\ \A x \in Fields \ F : d[x] = c[x]

PendingIn(idx) == {k \in DOMAIN idx : idx[k].persist = "none"}

HeldIn(idx) == {k \in DOMAIN idx : idx[k].snap # None}

FlightAt(media, k) == \E w \in media : w.at = k

\* o, with the frames f
Reframed(o, f) == Some([o[1] EXCEPT !.frames = f])

-----------------------------------------------------------------------------
(* Numbers and sets of them *)

\* A set of natural numbers has a least element.
LEMMA LeastOf ==
    ASSUME NEW T, T \subseteq Nat, T # {}
    PROVE  \E x \in T : \A y \in T : x <= y
<1> DEFINE I == {0 .. x : x \in T}
<1>1. I \subseteq FiniteSubsetsOf(Nat)
  <2> SUFFICES ASSUME NEW x \in T PROVE 0 .. x \in FiniteSubsetsOf(Nat)
    OBVIOUS
  <2>1. IsFiniteSet(0 .. x)
    BY FS_Interval
  <2> QED
    BY <2>1 DEF FiniteSubsetsOf
<1>2. PICK s \in I : \A u \in I : <<u, s>> \notin StrictSubsetOrdering(Nat)
  <2>1. I # {}
    OBVIOUS
  <2> QED
    BY <1>1, <2>1, FS_StrictSubsetOrderingWellFounded, WFMin
<1>3. PICK x \in T : s = 0 .. x
  OBVIOUS
<1>4. ASSUME NEW y \in T, y < x PROVE FALSE
  <2>1. 0 .. y \subseteq 0 .. x /\ x \in 0 .. x /\ x \notin 0 .. y
    BY <1>4
  <2>2. <<0 .. y, s>> \in StrictSubsetOrdering(Nat)
    BY <2>1, <1>3 DEF StrictSubsetOrdering
  <2> QED
    BY <1>2, <2>2
<1> QED
  BY <1>4

\* A set that has 0 and, with each number below n, the next has n.
LEMMA UpTo ==
    ASSUME NEW n \in Nat, NEW S, 0 \in S,
           \A m \in 0 .. n - 1 : m \in S => m + 1 \in S
    PROVE  n \in S
<1> SUFFICES ASSUME n \notin S PROVE FALSE
  OBVIOUS
<1> DEFINE T == {m \in 0 .. n : m \notin S}
<1>1. T \subseteq Nat /\ T # {}
  OBVIOUS
<1>2. PICK x \in T : \A y \in T : x <= y
  BY <1>1, LeastOf
<1>3. x # 0 /\ x - 1 \in 0 .. n - 1
  OBVIOUS
<1>4. x - 1 \in S
  BY <1>2, <1>3
<1>5. (x - 1) + 1 \in S
  BY <1>3, <1>4
<1> QED
  BY <1>2, <1>5

\* Min of a set of natural numbers is in it, and least.
LEMMA MinLeast ==
    ASSUME NEW T, T \subseteq Nat, T # {}
    PROVE  Min(T) \in T /\ \A y \in T : Min(T) <= y
BY LeastOf DEF Min

\* Max of a bounded one is in it, and greatest.
LEMMA MaxGreatest ==
    ASSUME NEW n \in Nat, NEW T, T \subseteq 0 .. n, T # {}
    PROVE  Max(T) \in T /\ \A y \in T : y <= Max(T)
<1> DEFINE U == {m \in 0 .. n : n - m \in T}
<1>1. U \subseteq Nat /\ U # {}
  <2>1. PICK x \in T : TRUE
    OBVIOUS
  <2>2. n - x \in 0 .. n /\ n - (n - x) = x
    OBVIOUS
  <2>3. n - x \in U
    BY <2>2
  <2>4. U \subseteq Nat
    OBVIOUS
  <2> HIDE DEF U
  <2> QED
    BY <2>3, <2>4
<1>2. PICK u \in U : \A y \in U : u <= y
  BY <1>1, LeastOf
<1> DEFINE x == n - u
<1>3. x \in T
  OBVIOUS
<1>4. \A y \in T : x >= y
  <2> SUFFICES ASSUME NEW y \in T PROVE x >= y
    OBVIOUS
  <2>1. n - y \in 0 .. n /\ n - (n - y) = y
    OBVIOUS
  <2>2. n - y \in U
    BY <2>1
  <2> QED
    BY <1>2, <2>2
<1> HIDE DEF x
<1>5. Max(T) \in T /\ \A y \in T : Max(T) >= y
  BY <1>3, <1>4 DEF Max
<1> QED
  BY <1>5

\* Division leaves a rest.
LEMMA Division ==
    ASSUME NEW a \in Nat, NEW b \in Nat \ {0}
    PROVE  /\ a \div b \in Nat /\ a % b \in 0 .. b - 1
           /\ a = b * (a \div b) + (a % b)
OBVIOUS

\* The product of natural numbers is one.
LEMMA Product ==
    ASSUME NEW a \in Nat, NEW b \in Nat
    PROVE  a * b \in Nat
OBVIOUS

\* Products are in the order of their factors.
LEMMA TimesOrder ==
    ASSUME NEW a \in Nat, NEW b \in Nat, NEW x \in Nat \ {0}
    PROVE  a <= b <=> a * x <= b * x
<1>1. a * x \in Nat /\ b * x \in Nat
  OBVIOUS
<1>2. ASSUME a <= b PROVE a * x <= b * x
  <2> DEFINE t == b - a
  <2>1. t \in Nat /\ b = a + t
    BY <1>2
  <2> HIDE DEF t
  <2>2. b * x = a * x + t * x
    BY <2>1
  <2>3. t * x \in Nat
    BY <2>1
  <2> DEFINE A == a * x
             B == b * x
             C == t * x
  <2>4. A \in Nat /\ C \in Nat /\ B = A + C
    BY <1>1, <2>2, <2>3
  <2> HIDE DEF A, B, C
  <2>5. A <= B
    BY <2>4
  <2> QED
    BY <2>5 DEF A, B
<1>3. ASSUME b < a PROVE b * x < a * x
  <2> DEFINE t == a - b - 1
  <2>1. t \in Nat /\ a = b + t + 1
    BY <1>3
  <2> HIDE DEF t
  <2>2. a * x = b * x + t * x + x
    BY <2>1
  <2>3. t * x \in Nat
    BY <2>1
  <2> DEFINE A == a * x
             B == b * x
             C == t * x
  <2>4. B \in Nat /\ C \in Nat /\ A = B + C + x
    BY <1>1, <2>2, <2>3
  <2> HIDE DEF A, B, C
  <2>5. B < A
    BY <2>4
  <2> QED
    BY <2>5 DEF A, B
<1> DEFINE A == a * x
           B == b * x
<1>4. /\ A \in Nat /\ B \in Nat
      /\ a <= b => A <= B
      /\ b < a => B < A
  BY <1>1, <1>2, <1>3
<1> HIDE DEF A, B
<1>5. a <= b <=> A <= B
  BY <1>4
<1> QED
  BY <1>5 DEF A, B

\* A number is divided by b with the result q if it is in the interval.
LEMMA DivisionInterval ==
    ASSUME NEW a \in Nat, NEW b \in Nat \ {0}, NEW q \in Nat
    PROVE  a \div b = q <=> (q * b <= a /\ a < q * b + b)
<1> DEFINE r == a \div b
           s == a % b
           Q == q * b
           R == r * b
<1>1. r \in Nat /\ s \in 0 .. b - 1 /\ a = b * r + s
  BY Division
<1>2. Q \in Nat /\ R \in Nat
  BY <1>1, Product
<1>3. a = R + s
  <2> HIDE DEF r, s
  <2>1. b * r = r * b
    BY <1>1
  <2> QED
    BY <1>1, <2>1
<1> HIDE DEF r, s, Q, R
<1>4. ASSUME r = q PROVE Q <= a /\ a < Q + b
  <2>1. Q = R
    BY <1>4 DEF Q, R
  <2> QED
    BY <1>1, <1>2, <1>3, <2>1
<1>5. ASSUME Q <= a, a < Q + b PROVE r = q
  <2>1. CASE r < q
    <3>1. R + b <= Q
      <4>1. r + 1 <= q /\ r + 1 \in Nat
        BY <1>1, <2>1
      <4>2. (r + 1) * b <= q * b
        BY <4>1, TimesOrder
      <4>3. (r + 1) * b = r * b + b
        BY <1>1
      <4> QED
        BY <4>2, <4>3 DEF Q, R
    <3> QED
      BY <1>1, <1>2, <1>3, <1>5, <3>1
  <2>2. CASE q < r
    <3>1. Q + b <= R
      <4>1. q + 1 <= r /\ q + 1 \in Nat
        BY <1>1, <2>2
      <4>2. (q + 1) * b <= r * b
        BY <1>1, <4>1, TimesOrder
      <4>3. (q + 1) * b = q * b + b
        OBVIOUS
      <4> QED
        BY <4>2, <4>3 DEF Q, R
    <3> QED
      BY <1>1, <1>2, <1>3, <1>5, <3>1
  <2> QED
    BY <1>1, <2>1, <2>2
<1> QED
  BY <1>4, <1>5 DEF Q, r

-----------------------------------------------------------------------------
(* What the operators do, field by field *)

\* What is in an option is of its type.
LEMMA OptHas ==
    ASSUME NEW S, NEW o \in Opt(S), o # None
    PROVE  o[1] \in S /\ o = Some(o[1]) /\ Len(o) = 1
BY DEF Opt, Some, None

\* An option is not empty if there is something in it.
LEMMA OptSome ==
    ASSUME NEW S, NEW x \in S
    PROVE  /\ Some(x) \in Opt(S) /\ Some(x) # None /\ Some(x)[1] = x
           /\ Len(Some(x)) = 1 /\ Len(None) = 0 /\ None \in Opt(S)
BY DEF Opt, Some, None

\* The length of an option is a number.
LEMMA OptLen ==
    ASSUME NEW S, NEW o \in Opt(S)
    PROVE  Len(o) \in {0, 1} /\ (Len(o) = 0 <=> o = None)
BY DEF Opt, Some, None

\* What is in an option is replaced.
LEMMA OptExcept ==
    ASSUME NEW S, NEW o \in Opt(S), o # None, NEW y
    PROVE  [o EXCEPT ![1] = y] = Some(y)
BY DEF Opt, Some, None

\* The parts of a snapshot,
LEMMA SnapHas ==
    ASSUME NEW o \in Opt(SnapType), o # None
    PROVE  /\ o[1] \in SnapType /\ o = Some(o[1]) /\ Len(o) = 1
           /\ o[1].max \in Nat /\ o[1].trunc \in Nat /\ o[1].next \in Nat
           /\ o[1].frames \in FrameType
<1>1. o[1] \in SnapType /\ o = Some(o[1]) /\ Len(o) = 1
  BY OptHas
<1> QED
  BY <1>1 DEF SnapType

\* of an index that is being written,
LEMMA FileHas ==
    ASSUME NEW o \in Opt(FileType), o # None
    PROVE  /\ o[1] \in FileType /\ o = Some(o[1]) /\ Len(o) = 1
           /\ o[1].max \in Nat /\ o[1].trunc \in Nat /\ o[1].next \in Nat
           /\ o[1].min \in Nat /\ o[1].frames \in FrameType
           /\ o[1].tl \subseteq Nat /\ o[1].file \in {"index", "delta"}
           /\ o[1].hist \in Nat
<1>1. o[1] \in FileType /\ o = Some(o[1]) /\ Len(o) = 1
  BY OptHas
<1> QED
  BY <1>1 DEF FileType

\* and of a segment index.
LEMMA EntryHas ==
    ASSUME NEW x \in EntryType
    PROVE  /\ x.persist \in {"none", "ok", "error"} /\ x.free \in BOOLEAN
           /\ x.snap \in Opt(SnapType)
           /\ x.snap # None => x.snap[1] \in SnapType
<1>1. /\ x.persist \in {"none", "ok", "error"} /\ x.free \in BOOLEAN
      /\ x.snap \in Opt(SnapType)
  BY DEF EntryType
<1> QED
  BY <1>1, OptHas

\* The frames of snapshots and writes are of their type.
LEMMA ChanFrames ==
    ASSUME NEW c, Chan(c)
    PROVE  /\ \A k \in HeldIn(c.idx) : c.idx[k].snap[1].frames \in FrameType
           /\ c.iw # None => c.iw[1].frames \in FrameType
           /\ c.pend # None => c.pend[1].frames \in FrameType
<1>1. ASSUME NEW k \in HeldIn(c.idx)
      PROVE  c.idx[k].snap[1].frames \in FrameType
  <2>1. c.idx[k] \in EntryType /\ c.idx[k].snap # None
    BY DEF Chan, IdxType, HeldIn
  <2> QED
    BY <2>1, EntryHas, SnapHas
<1> QED
  BY <1>1, SnapHas, FileHas DEF Chan

\* The frames of a snapshot are replaced.
LEMMA ReframedSnap ==
    ASSUME NEW o \in Opt(SnapType), o # None, NEW f \in FrameType
    PROVE  LET q == Reframed(o, f) IN
           /\ q \in Opt(SnapType) /\ q # None /\ q[1].max = o[1].max
           /\ q[1].trunc = o[1].trunc /\ q[1].frames = f
<1>1. o[1] \in SnapType
  BY OptHas
<1> DEFINE y == [o[1] EXCEPT !.frames = f]
<1>2. y \in SnapType /\ y.max = o[1].max /\ y.trunc = o[1].trunc
      /\ y.frames = f
  BY <1>1 DEF SnapType
<1>3. Reframed(o, f) = Some(y)
  BY DEF Reframed
<1> HIDE DEF y
<1> QED
  BY <1>2, <1>3, OptSome

\* and those of an index that is being written.
LEMMA ReframedFile ==
    ASSUME NEW o \in Opt(FileType), o # None, NEW f \in FrameType
    PROVE  LET q == Reframed(o, f) IN
           /\ q \in Opt(FileType) /\ q # None /\ q[1].max = o[1].max
           /\ q[1].trunc = o[1].trunc /\ q[1].frames = f
           /\ q[1].min = o[1].min /\ q[1].tl = o[1].tl
           /\ q[1].file = o[1].file /\ q[1].hist = o[1].hist
           /\ q[1].next = o[1].next
<1>1. o[1] \in FileType
  BY OptHas
<1> DEFINE y == [o[1] EXCEPT !.frames = f]
<1>2. /\ y \in FileType /\ y.max = o[1].max /\ y.trunc = o[1].trunc
      /\ y.frames = f /\ y.min = o[1].min /\ y.tl = o[1].tl
      /\ y.file = o[1].file /\ y.hist = o[1].hist /\ y.next = o[1].next
  BY <1>1 DEF FileType
<1>3. Reframed(o, f) = Some(y)
  BY DEF Reframed
<1> HIDE DEF y
<1> QED
  BY <1>2, <1>3, OptSome

\* The frames f are acked: they are of the connection and new to it.
Acks(c, f) == f.set /\ c.connected /\ f.conn = c.conn /\ f.id > c.acked

\* d is c after FramesClose
Closed(c, d, f, acks) ==
    /\ Keeps(c, d, {"snapshots", "acked"})
    /\ d.snapshots = c.snapshots - 1
    /\ d.acked = IF acks /\ Acks(c, f) THEN f.id ELSE c.acked

\* FramesClose drops a snapshot and may ack its frames.
LEMMA FramesCloseDoes ==
    ASSUME NEW c, Chan(c), NEW f \in FrameType, NEW acks \in BOOLEAN
    PROVE  Closed(c, FramesClose(c, f, acks), f, acks)
BY DEF Chan, Keeps, Closed, FramesClose, Ack, Acks, Fields, FrameType

\* from c to d the frames f go to the last write that is known
HandedOn(c, d, f) ==
    /\ d.snapshots = c.snapshots - 1
    /\ d.pend = IF c.pend # None THEN Reframed(c.pend, f) ELSE c.pend
    /\ d.iw = IF c.pend = None /\ c.iw # None THEN Reframed(c.iw, f) ELSE c.iw
    /\ d.acked = IF c.pend = None /\ c.iw = None /\ Acks(c, f)
                 THEN f.id ELSE c.acked

\* d is c after SnapAck
SnapAcked(c, d, f) ==
    /\ Keeps(c, d, {"snapshots", "acked", "iw", "pend"})
    /\ HandedOn(c, d, f)

\* SnapAck hands on the frames, or acks them when nothing is written.
LEMMA SnapAckDoes ==
    ASSUME NEW c, Chan(c), NEW s \in SnapType
    PROVE  SnapAcked(c, SnapAck(c, s), s.frames)
<1>0. s.frames \in FrameType
  BY DEF SnapType
<1>1. CASE c.pend # None
  <2> DEFINE f == c.pend[1].frames
             e == FramesClose(c, f, FALSE)
  <2>1. f \in FrameType
    BY <1>1, SnapHas DEF Chan
  <2>2. Closed(c, e, f, FALSE)
    BY <2>1, FramesCloseDoes
  <2>3. SnapAck(c, s) = [e EXCEPT !.pend[1].frames = s.frames]
    BY <1>1 DEF SnapAck
  <2> HIDE DEF e
  <2>4. e.pend = c.pend /\ DOMAIN e = Fields
    BY <2>2 DEF Closed, Keeps, Fields
  <2>5. SnapAck(c, s) = [e EXCEPT !.pend =
            [e.pend EXCEPT ![1] = [e.pend[1] EXCEPT !.frames = s.frames]]]
    BY <2>3
  <2>6. SnapAck(c, s) = [e EXCEPT !.pend = Reframed(c.pend, s.frames)]
    BY <2>4, <2>5, <1>1, OptExcept DEF Chan, Reframed
  <2> QED
    BY <1>1, <2>2, <2>4, <2>6 DEF SnapAcked, HandedOn, Closed, Keeps, Fields
<1>2. CASE c.pend = None /\ c.iw # None
  <2> DEFINE f == c.iw[1].frames
             e == FramesClose(c, f, FALSE)
  <2>1. f \in FrameType
    BY <1>2, FileHas DEF Chan
  <2>2. Closed(c, e, f, FALSE)
    BY <2>1, FramesCloseDoes
  <2>3. SnapAck(c, s) = [e EXCEPT !.iw[1].frames = s.frames]
    BY <1>2 DEF SnapAck
  <2> HIDE DEF e
  <2>4. e.iw = c.iw /\ DOMAIN e = Fields
    BY <2>2 DEF Closed, Keeps, Fields
  <2>5. SnapAck(c, s) = [e EXCEPT !.iw =
            [e.iw EXCEPT ![1] = [e.iw[1] EXCEPT !.frames = s.frames]]]
    BY <2>3
  <2>6. SnapAck(c, s) = [e EXCEPT !.iw = Reframed(c.iw, s.frames)]
    BY <2>4, <2>5, <1>2, OptExcept DEF Chan, Reframed
  <2> QED
    BY <1>2, <2>2, <2>4, <2>6 DEF SnapAcked, HandedOn, Closed, Keeps, Fields
<1>3. CASE c.pend = None /\ c.iw = None
  <2>1. SnapAck(c, s) = FramesClose(c, s.frames, TRUE)
    BY <1>3 DEF SnapAck
  <2>2. Closed(c, SnapAck(c, s), s.frames, TRUE)
    BY <1>0, <2>1, FramesCloseDoes
  <2> DEFINE d == SnapAck(c, s)
  <2> HIDE DEF d
  <2>3. Keeps(c, d, {"snapshots", "acked", "iw", "pend"})
        /\ d.iw = c.iw /\ d.pend = c.pend
    BY <2>2 DEF Closed, Keeps, Fields, d
  <2>4. /\ d.snapshots = c.snapshots - 1
        /\ d.acked = IF Acks(c, s.frames) THEN s.frames.id ELSE c.acked
    BY <2>2 DEF Closed, d
  <2>5. HandedOn(c, d, s.frames)
    BY <1>3, <2>3, <2>4 DEF HandedOn
  <2> QED
    BY <2>3, <2>5 DEF SnapAcked, d
<1> QED
  BY <1>1, <1>2, <1>3

\* the index that WriteIndex starts to write
FileOf(c, s, file, lo) ==
    [file |-> file, min |-> lo, max |-> s.max, frames |-> s.frames,
     tl |-> {k \in c.tl : lo <= k /\ k <= s.max},
     trunc |-> s.trunc, next |-> s.next,
     hist |-> IF file = "index" THEN c.hist ELSE 0]

\* what SnapWrite makes of history_changed when it writes a file
Cleared(c, s, file) ==
    IF file = "index" /\ s.max >= c.changed THEN 0 ELSE c.changed

\* d is c after a write of segments from lo on was started, or not
Started(c, d, s, file, lo) ==
    /\ d.changed = Cleared(c, s, file)
    /\ \/ Keeps(c, d, {"changed", "iw"}) /\ d.iw = Some(FileOf(c, s, file, lo))
       \/ /\ Keeps(c, d, {"changed", "health", "snapshots", "acked"})
          /\ d.health = Failed(c.health, file)
          /\ d.snapshots = c.snapshots - 1
          /\ d.acked = IF Acks(c, s.frames) THEN s.frames.id ELSE c.acked

\* d is c after SnapWrite
SnapWritten(c, d, s) ==
    \/ /\ c.iw # None
       /\ Keeps(c, d, {"snapshots", "pend"})
       /\ d.snapshots = c.snapshots - Len(c.pend) /\ d.pend = Some(s)
    \/ c.iw = None /\ s.max < c.min /\ Closed(c, d, s.frames, TRUE)
    \/ /\ c.iw = None /\ ~(s.max < c.min) /\ DeltaFits(c, s)
       /\ Started(c, d, s, "delta", c.success + 1)
    \/ /\ c.iw = None /\ ~(s.max < c.min) /\ ~DeltaFits(c, s)
       /\ Started(c, d, s, "index", c.min)

\* What WriteIndex does, when history_changed was looked at.
LEMMA WriteIndexDoes ==
    ASSUME NEW c, Chan(c), NEW s \in SnapType, NEW file \in {"index", "delta"},
           NEW lo \in Nat, NEW e,
           Keeps(c, e, {"changed"}), e.changed = Cleared(c, s, file)
    PROVE  Started(c, WriteIndex(e, s, file, lo), s, file, lo)
<1>1. s.frames \in FrameType
  BY DEF SnapType
<1>2. Keeps(c, e, {"changed"}) /\ e.changed = Cleared(c, s, file)
  OBVIOUS
<1>3. CASE "index" \in e.fail
  <2> DEFINE g == [e EXCEPT !.health = Failed(@, file)]
  <2>1. /\ Keeps(c, g, {"changed", "health"})
        /\ g.changed = Cleared(c, s, file) /\ g.health = Failed(c.health, file)
    BY <1>2 DEF Keeps, Fields
  <2>2. Chan(g)
    <3>1. Cleared(c, s, file) \in Nat /\ Failed(c.health, file) \in Healths
      BY DEF Chan, Cleared, Failed, Healths
    <3> HIDE DEF g
    <3> QED
      BY <2>1, <3>1 DEF Chan, Keeps, Fields
  <2>3. WriteIndex(e, s, file, lo) = FramesClose(g, s.frames, TRUE)
    BY <1>3 DEF WriteIndex
  <2> HIDE DEF g
  <2>4. Closed(g, FramesClose(g, s.frames, TRUE), s.frames, TRUE)
    BY <1>1, <2>2, FramesCloseDoes
  <2>5. g.snapshots = c.snapshots /\ g.acked = c.acked
        /\ (Acks(g, s.frames) <=> Acks(c, s.frames))
    BY <2>1 DEF Keeps, Fields, Acks
  <2> QED
    BY <2>1, <2>3, <2>4, <2>5 DEF Started, Closed, Keeps, Fields
<1>4. CASE "index" \notin e.fail
  <2>1. WriteIndex(e, s, file, lo) = [e EXCEPT !.iw =
            Some(FileOf(e, s, file, lo))]
    BY <1>4 DEF WriteIndex, FileOf
  <2>2. FileOf(e, s, file, lo) = FileOf(c, s, file, lo)
    <3>1. e.tl = c.tl /\ e.hist = c.hist
      BY <1>2 DEF Keeps, Fields
    <3> QED
      BY <3>1 DEF FileOf
  <2> QED
    BY <1>2, <2>1, <2>2 DEF Started, Keeps, Fields
<1> QED
  BY <1>3, <1>4

\* SnapWrite lets the snapshot wait, drops it or starts a write.
LEMMA SnapWriteDoes ==
    ASSUME NEW c, Chan(c), NEW s \in SnapType
    PROVE  SnapWritten(c, SnapWrite(c, s), s)
<1>0. s.frames \in FrameType
  BY DEF SnapType
<1>1. CASE c.iw # None /\ c.pend # None
  <2> DEFINE e == FramesClose(c, c.pend[1].frames, FALSE)
  <2>1. Closed(c, e, c.pend[1].frames, FALSE) /\ Len(c.pend) = 1
    BY <1>1, SnapHas, FramesCloseDoes DEF Chan
  <2>2. SnapWrite(c, s) = [e EXCEPT !.pend = Some(s)]
    BY <1>1 DEF SnapWrite
  <2> HIDE DEF e
  <2> QED
    BY <1>1, <2>1, <2>2 DEF SnapWritten, Closed, Keeps, Fields
<1>2. CASE c.iw # None /\ c.pend = None
  <2> DEFINE d == [c EXCEPT !.pend = Some(s)]
  <2>1. SnapWrite(c, s) = d
    BY <1>2 DEF SnapWrite
  <2>2. Keeps(c, d, {"snapshots", "pend"}) /\ d.pend = Some(s)
        /\ d.snapshots = c.snapshots
    BY DEF Keeps, Fields, Chan
  <2> HIDE DEF d
  <2>3. c.snapshots - Len(c.pend) = c.snapshots
    BY <1>2 DEF None, Chan
  <2> QED
    BY <1>2, <2>1, <2>2, <2>3 DEF SnapWritten
<1>3. CASE c.iw = None /\ s.max < c.min
  <2>1. SnapWrite(c, s) = FramesClose(c, s.frames, TRUE)
    BY <1>3 DEF SnapWrite
  <2> QED
    BY <1>0, <1>3, <2>1, FramesCloseDoes DEF SnapWritten
<1>4. CASE c.iw = None /\ ~(s.max < c.min) /\ DeltaFits(c, s)
  <2>1. SnapWrite(c, s) = WriteIndex(c, s, "delta", c.success + 1)
    BY <1>4 DEF SnapWrite
  <2>2. /\ Keeps(c, c, {"changed"}) /\ c.changed = Cleared(c, s, "delta")
        /\ c.success + 1 \in Nat
    BY DEF Cleared, Chan, Fields, Keeps
  <2>3. Started(c, SnapWrite(c, s), s, "delta", c.success + 1)
    BY <2>1, <2>2, WriteIndexDoes
  <2> QED
    BY <1>4, <2>3 DEF SnapWritten
<1>5. CASE c.iw = None /\ ~(s.max < c.min) /\ ~DeltaFits(c, s)
  <2> DEFINE e == [c EXCEPT !.changed = Cleared(c, s, "index")]
  <2>1. SnapWrite(c, s) = WriteIndex(e, s, "index", c.min)
    BY <1>5 DEF SnapWrite, Cleared
  <2>2. /\ Keeps(c, e, {"changed"}) /\ e.changed = Cleared(c, s, "index")
        /\ c.min \in Nat
    BY DEF Chan, Keeps, Fields
  <2> HIDE DEF e
  <2>3. Started(c, SnapWrite(c, s), s, "index", c.min)
    BY <2>1, <2>2, WriteIndexDoes
  <2> QED
    BY <1>5, <2>3 DEF SnapWritten
<1> QED
  BY <1>1, <1>2, <1>3, <1>4, <1>5

\* What SnapWrite leaves alone.
LEMMA SnapWriteKeeps ==
    ASSUME NEW c, Chan(c), NEW s \in SnapType
    PROVE  Keeps(c, SnapWrite(c, s),
                 {"snapshots", "acked", "iw", "pend", "changed", "health"})
<1> DEFINE d == SnapWrite(c, s)
<1>1. SnapWritten(c, d, s)
  BY SnapWriteDoes
<1> HIDE DEF d
<1> QED
  BY <1>1 DEF SnapWritten, Started, Closed, Keeps, Fields, d

\* idx when k left the memory but its media is still being written
FreedIn(idx, k) == [idx EXCEPT ![k] = [@ EXCEPT !.free = TRUE, !.snap = None]]

\* idx without k
RemovedFrom(idx, k) == [j \in DOMAIN idx \ {k} |-> idx[j]]

\* k leaves the memory before it was saved
LostBy(x) == ~x.free /\ x.persist # "ok"

\* d is c after IndexFree, of k
IndexFreed(c, d, k) ==
    LET x == c.idx[k] IN
    /\ Keeps(c, d, {"idx", "cut", "unsaved", "early", "snapshots", "acked",
                    "iw", "pend"})
    /\ d.idx = IF FlightAt(c.media, k) THEN FreedIn(c.idx, k)
               ELSE RemovedFrom(c.idx, k)
    /\ d.cut = IF LostBy(x) THEN k ELSE c.cut
    /\ d.unsaved = IF LostBy(x) THEN c.unsaved \cup {k} ELSE c.unsaved
    /\ d.early = IF x.snap # None /\ x.snap[1].max > k
                 THEN Bigger(c.early, x.snap[1].max) ELSE c.early
    /\ IF x.snap = None
       THEN /\ d.snapshots = c.snapshots /\ d.acked = c.acked
            /\ d.iw = c.iw /\ d.pend = c.pend
       ELSE HandedOn(c, d, x.snap[1].frames)

\* idx after k was freed, and after it was removed
LEMMA FreedEntry ==
    ASSUME NEW idx, IdxType(idx), NEW k \in DOMAIN idx
    PROVE  /\ DOMAIN FreedIn(idx, k) = DOMAIN idx
           /\ IdxType(FreedIn(idx, k))
           /\ FreedIn(idx, k)[k].free = TRUE
           /\ FreedIn(idx, k)[k].snap = None
           /\ FreedIn(idx, k)[k].persist = idx[k].persist
           /\ \A j \in DOMAIN idx : j # k => FreedIn(idx, k)[j] = idx[j]
<1> DEFINE y == [idx[k] EXCEPT !.free = TRUE, !.snap = None]
<1>1. y \in EntryType /\ y.free = TRUE /\ y.snap = None
      /\ y.persist = idx[k].persist
  <2>1. idx[k] \in EntryType /\ None \in Opt(SnapType)
    BY DEF IdxType, Opt
  <2> QED
    BY <2>1 DEF EntryType
<1>2. FreedIn(idx, k) = [idx EXCEPT ![k] = y]
  BY DEF FreedIn
<1> HIDE DEF y
<1> QED
  BY <1>1, <1>2 DEF IdxType

\* What IndexFree does.
LEMMA IndexFreeDoes ==
    ASSUME NEW c, Chan(c), NEW k \in DOMAIN c.idx
    PROVE  IF c.noFree THEN IndexFree(c, k) = c
           ELSE IndexFreed(c, IndexFree(c, k), k)
<1> DEFINE x == c.idx[k]
           lost == LostBy(x)
           past == x.snap # None /\ x.snap[1].max > k
           e == [c EXCEPT
                !.idx[k].free = TRUE,
                !.idx[k].snap = None,
                !.cut = IF lost THEN k ELSE @,
                !.unsaved = IF lost THEN @ \cup {k} ELSE @,
                !.early = IF past THEN Bigger(@, x.snap[1].max) ELSE @]
<1> SUFFICES ASSUME ~c.noFree PROVE IndexFreed(c, IndexFree(c, k), k)
  BY DEF IndexFree
<1>1. IndexFree(c, k) = IndexRemove(e, k, x.snap)
  BY DEF IndexFree, LostBy
<1>2. /\ Keeps(c, e, {"idx", "cut", "unsaved", "early"})
      /\ e.idx = FreedIn(c.idx, k)
      /\ e.cut = IF lost THEN k ELSE c.cut
      /\ e.unsaved = IF lost THEN c.unsaved \cup {k} ELSE c.unsaved
      /\ e.early = IF past THEN Bigger(c.early, x.snap[1].max) ELSE c.early
  BY DEF Keeps, Fields, Chan, FreedIn
<1>3. x \in EntryType /\ x.snap \in Opt(SnapType) /\ k \in Nat
  BY EntryHas DEF Chan, IdxType
<1> HIDE DEF e
<1>4. Chan(e)
  <2>1. IdxType(e.idx)
    BY <1>2, FreedEntry DEF Chan
  <2>2. e.cut \in Nat /\ e.unsaved \subseteq Nat
    BY <1>2, <1>3 DEF Chan
  <2>3. e.early \in Int
    <3>1. past => x.snap[1].max \in Int
      BY <1>3, SnapHas
    <3> QED
      BY <1>2, <3>1 DEF Chan, Bigger
  <2> QED
    BY <1>2, <2>1, <2>2, <2>3 DEF Chan, Keeps, Fields
<1> DEFINE g == IF x.snap = None THEN e ELSE SnapAck(e, x.snap[1])
<1>5. /\ Keeps(e, g, {"snapshots", "acked", "iw", "pend"})
      /\ IF x.snap = None
         THEN /\ g.snapshots = e.snapshots /\ g.acked = e.acked
              /\ g.iw = e.iw /\ g.pend = e.pend
         ELSE HandedOn(e, g, x.snap[1].frames)
  <2>1. CASE x.snap = None
    BY <2>1, <1>4 DEF Keeps, Fields, Chan
  <2>2. CASE x.snap # None
    <3>1. x.snap[1] \in SnapType
      BY <1>3, <2>2, SnapHas
    <3>2. SnapAcked(e, SnapAck(e, x.snap[1]), x.snap[1].frames)
      BY <1>4, <3>1, SnapAckDoes
    <3> QED
      BY <2>2, <3>2 DEF SnapAcked
  <2> QED
    BY <2>1, <2>2
<1>6. IndexFree(c, k) = IF FlightAt(e.media, k) THEN g
          ELSE [g EXCEPT !.idx = Restrict(@, DOMAIN @ \ {k})]
  BY <1>1 DEF IndexRemove, InFlight, FlightAt
<1> HIDE DEF g
<1>7. /\ Keeps(c, g, {"idx", "cut", "unsaved", "early", "snapshots", "acked",
                      "iw", "pend"})
      /\ g.idx = FreedIn(c.idx, k) /\ g.cut = e.cut
      /\ g.unsaved = e.unsaved /\ g.early = e.early
  BY <1>2, <1>5 DEF Keeps, Fields
<1>8. IF x.snap = None
      THEN /\ g.snapshots = c.snapshots /\ g.acked = c.acked
           /\ g.iw = c.iw /\ g.pend = c.pend
      ELSE HandedOn(c, g, x.snap[1].frames)
  BY <1>2, <1>5 DEF Keeps, Fields, HandedOn, Acks
<1>9. e.media = c.media
  BY <1>2 DEF Keeps, Fields
<1>10. CASE FlightAt(c.media, k)
  BY <1>2, <1>6, <1>7, <1>8, <1>9, <1>10 DEF IndexFreed
<1>11. CASE ~FlightAt(c.media, k)
  <2> DEFINE h == [g EXCEPT !.idx = Restrict(@, DOMAIN @ \ {k})]
  <2>1. Restrict(g.idx, DOMAIN g.idx \ {k}) = RemovedFrom(c.idx, k)
    <3>1. /\ DOMAIN g.idx = DOMAIN c.idx
          /\ \A j \in DOMAIN c.idx \ {k} : g.idx[j] = c.idx[j]
      <4>1. IdxType(c.idx) /\ g.idx = FreedIn(c.idx, k)
        BY <1>7 DEF Chan
      <4> HIDE DEF g
      <4>2. DOMAIN FreedIn(c.idx, k) = DOMAIN c.idx
        BY <4>1, FreedEntry
      <4>3. \A j \in DOMAIN c.idx : j # k => FreedIn(c.idx, k)[j] = c.idx[j]
        BY <4>1, FreedEntry
      <4> QED
        BY <4>1, <4>2, <4>3
    <3> QED
      BY <3>1 DEF Restrict, RemovedFrom
  <2>2. Keeps(g, h, {"idx"}) /\ h.idx = RemovedFrom(c.idx, k)
    BY <1>7, <2>1 DEF Keeps, Fields
  <2>3. IndexFree(c, k) = h
    BY <1>6, <1>9, <1>11
  <2> HIDE DEF h
  <2>4. /\ Keeps(c, h, {"idx", "cut", "unsaved", "early", "snapshots",
                        "acked", "iw", "pend"})
        /\ h.cut = g.cut /\ h.unsaved = g.unsaved /\ h.early = g.early
        /\ h.snapshots = g.snapshots /\ h.acked = g.acked
        /\ h.iw = g.iw /\ h.pend = g.pend
    BY <1>7, <2>2 DEF Keeps, Fields
  <2>5. HandedOn(c, g, x.snap[1].frames) => HandedOn(c, h, x.snap[1].frames)
    BY <2>4 DEF HandedOn
  <2> QED
    BY <1>2, <1>7, <1>8, <1>11, <2>2, <2>3, <2>4, <2>5 DEF IndexFreed
<1> QED
  BY <1>10, <1>11

-----------------------------------------------------------------------------
(* The parameters of the definitions below:                                *)
(*   n    no index is as great;                                            *)
(*   lv   how far storage is read;                                         *)
(*   p    no bucket from here on was written;                              *)
(*   med  the segments the media of which is in storage;                   *)
(*   u    the segments that will be created in this step;                  *)
(*   i    what is read back: the index, the segments, and whether they     *)
(*        are what the server knows of.                                    *)

\* A snapshot that is held waits for the segment that holds it and for none
\* between that one and its own.
HeldOK(idx, k, n) ==
    LET s == idx[k].snap[1] IN
    /\ k <= s.max /\ s.max < n /\ s.trunc <= s.max
    /\ \A j \in PendingIn(idx) : j <= k \/ s.max < j
    /\ idx[k].free => k < s.max

\* An index of the segments up to f.max may be written.
WriteOK(idx, f, n, lv) ==
    /\ lv < f.max /\ f.max < n /\ f.trunc <= f.max
    /\ \A j \in PendingIn(idx) : f.max < j

\* Where the snapshots are.
Order(idx, iw, pend, n, lv) ==
    /\ \A j \in DOMAIN idx : j < n
    /\ HeldIn(idx) \subseteq PendingIn(idx)
    /\ \A k \in HeldIn(idx) : HeldOK(idx, k, n)
    /\ \A j \in PendingIn(idx) : lv < j
    /\ iw # None =>
        /\ WriteOK(idx, iw[1], n, lv)
        /\ iw[1].min <= iw[1].max + 1
        /\ \A k \in iw[1].tl : iw[1].min <= k /\ k <= iw[1].max
    /\ pend # None =>
        /\ WriteOK(idx, pend[1], n, lv)
        /\ iw # None /\ iw[1].max < pend[1].max

\* The write w is of a bucket that is still to be saved.
FlightOK(idx, w, p, med) ==
    /\ w.at \in PendingIn(idx) /\ w.at \in w.segs /\ w.bucket < p
    /\ \A k \in w.segs : w.at <= k /\ BucketOf(k) = w.bucket
    /\ \A k \in DOMAIN idx : BucketOf(k) = w.bucket => k \in w.segs
    /\ \A k \in med : BucketOf(k) # w.bucket

\* Each bucket is written once, and after that nothing is added to it.
Flight(idx, media, p, med) ==
    /\ \A w \in media : FlightOK(idx, w, p, med)
    /\ \A w, v \in media : w.bucket = v.bucket => w = v
    /\ \A k \in med : BucketOf(k) < p
    /\ \A k \in DOMAIN idx : k \in PendingIn(idx) \/ BucketOf(k) < p

\* An index that left the memory is still there for a write only; X are
\* those of the write that ends.
FreeIn(idx, media, X) ==
    \A k \in PendingIn(idx) : idx[k].free => FlightAt(media, k) \/ k \in X

\* Where the media of the segments is.
Stored(idx, tl, iw, unsaved, health, med, u, i) ==
    /\ \A k \in DOMAIN idx : idx[k].persist = "ok" => k \in med \cup unsaved
    /\ health # "stale" =>
        /\ \A k \in tl : k \in med \cup unsaved \cup PendingIn(idx) \cup u
        /\ iw # None => iw[1].tl \subseteq med \cup unsaved
        /\ i.fresh
        /\ i.read \subseteq med \cup unsaved

\* The frames f were received from their connection.
FrameOK(f, conn, connected, frames) ==
    f.conn <= conn /\ (connected /\ f.conn = conn => f.id <= frames)

\* What is acked, or may be, was received.
Known(idx, iw, pend, conn, connected, frames, acked) ==
    /\ connected => acked <= frames
    /\ \A k \in HeldIn(idx) :
            FrameOK(idx[k].snap[1].frames, conn, connected, frames)
    /\ iw # None => FrameOK(iw[1].frames, conn, connected, frames)
    /\ pend # None => FrameOK(pend[1].frames, conn, connected, frames)

\* What is written, and what is read, is the past as it is now unless it
\* is marked as changed.
History(iw, changed, hist, health, i) ==
    changed = 0 /\ health # "stale" =>
        /\ iw # None /\ iw[1].file = "index" => iw[1].hist = hist
        /\ (/\ health \in {"ok", "delta", "new"}
            /\ iw = None \/ iw[1].file = "delta"
            /\ i.index # None) => i.index[1].hist = hist

\* x snapshots are counted that are held nowhere.
Count(idx, iw, pend, snapshots, x) ==
    snapshots = Cardinality(HeldIn(idx)) + Len(iw) + Len(pend) + x

\* The fields that bound the others; u has what is to be created, if it is.
Scalars(c, n, lv, u) ==
    /\ c.next <= n /\ n <= c.next + 1
    /\ \A k \in u : n <= k
    /\ c.min <= c.next
    /\ \A k \in c.tl : c.min <= k /\ (k < n \/ k \in u)
    /\ c.trunc <= c.next /\ c.cut <= c.next
    /\ c.lastReady <= c.next
    /\ c.success = 0 \/ c.success <= lv
    /\ c.iw # None /\ c.iw[1].file = "delta" => c.iw[1].min = c.success + 1

Good(c, n, lv, p, med, u, i) ==
    /\ Chan(c)
    /\ Scalars(c, n, lv, u)
    /\ Order(c.idx, c.iw, c.pend, n, lv)
    /\ Flight(c.idx, c.media, p, med)
    /\ Stored(c.idx, c.tl, c.iw, c.unsaved, c.health, med, u, i)
    /\ Known(c.idx, c.iw, c.pend, c.conn, c.connected, c.frames, c.acked)
    /\ History(c.iw, c.changed, c.hist, c.health, i)

Counted(c, x) == Count(c.idx, c.iw, c.pend, c.snapshots, x)

OneMore(x, y) == x \in Int /\ y = x + 1

\* There are finitely many indexes.
LEMMA HeldFinite ==
    ASSUME NEW idx, NEW n \in Nat, IdxType(idx), \A j \in DOMAIN idx : j < n
    PROVE  /\ IsFiniteSet(DOMAIN idx) /\ IsFiniteSet(HeldIn(idx))
           /\ Cardinality(HeldIn(idx)) \in Nat
<1>1. DOMAIN idx \subseteq 0 .. n /\ HeldIn(idx) \subseteq 0 .. n
  BY DEF IdxType, HeldIn
<1>2. IsFiniteSet(0 .. n)
  BY FS_Interval
<1>3. IsFiniteSet(DOMAIN idx) /\ IsFiniteSet(HeldIn(idx))
  BY <1>1, <1>2, FS_Subset
<1> QED
  BY <1>3, FS_CardinalityType

\* What is counted are numbers.
LEMMA CountedAre ==
    ASSUME NEW c, NEW n \in Nat, Chan(c), \A j \in DOMAIN c.idx : j < n
    PROVE  /\ Cardinality(HeldIn(c.idx)) \in Nat
           /\ Len(c.iw) \in {0, 1} /\ Len(c.pend) \in {0, 1}
           /\ Cardinality(HeldIn(c.idx)) + Len(c.iw) + Len(c.pend) \in Int
<1> DEFINE h == Cardinality(HeldIn(c.idx))
           a == Len(c.iw)
           b == Len(c.pend)
<1>1. h \in Nat
  BY HeldFinite DEF Chan
<1>2. a \in {0, 1} /\ b \in {0, 1}
  BY OptLen DEF Chan
<1> HIDE DEF h, a, b
<1>3. h + a + b \in Int
  BY <1>1, <1>2
<1> QED
  BY <1>1, <1>2, <1>3 DEF h, a, b

\* c and d differ in the fields only that Scalars bounds.
Beside(c, d) ==
    /\ d.idx = c.idx /\ d.media = c.media /\ d.tl = c.tl /\ d.iw = c.iw
    /\ d.pend = c.pend /\ d.unsaved = c.unsaved /\ d.health = c.health
    /\ d.conn = c.conn /\ d.connected = c.connected /\ d.frames = c.frames
    /\ d.acked = c.acked /\ d.changed = c.changed /\ d.hist = c.hist
    /\ d.snapshots = c.snapshots

\* What changes them leaves all else good.
LEMMA AsideGood ==
    ASSUME NEW c, NEW d, NEW n, NEW lv, NEW p, NEW med, NEW u, NEW i,
           Good(c, n, lv, p, med, u, i), Beside(c, d), Chan(d),
           Scalars(d, n, lv, u)
    PROVE  Good(d, n, lv, p, med, u, i)
BY DEF Good, Beside

\* One is one more than none.
LEMMA OneMoreZero == OneMore(0, 1)
BY DEF OneMore

-----------------------------------------------------------------------------
(* A snapshot is handed on, dropped or written *)

\* The snapshot s may be written.
Writable(c, s, n, lv) ==
    /\ s \in SnapType
    /\ FrameOK(s.frames, c.conn, c.connected, c.frames)
    /\ WriteOK(c.idx, s, n, lv)
    /\ c.iw # None => c.iw[1].max < s.max
    /\ c.pend # None => c.pend[1].max < s.max

\* Only the frames of a write change.
Reframes(o, q) ==
    /\ o # None <=> q # None
    /\ Len(q) = Len(o)
    /\ o # None =>
        /\ q[1].max = o[1].max /\ q[1].trunc = o[1].trunc

\* Handing on changes no more than the frames of the writes.
LEMMA HandedOnReframes ==
    ASSUME NEW c, NEW d, Chan(c), NEW f \in FrameType, HandedOn(c, d, f)
    PROVE  /\ d.iw \in Opt(FileType) /\ d.pend \in Opt(SnapType)
           /\ Reframes(c.iw, d.iw) /\ Reframes(c.pend, d.pend)
           /\ c.iw # None =>
                /\ d.iw[1].min = c.iw[1].min /\ d.iw[1].tl = c.iw[1].tl
                /\ d.iw[1].file = c.iw[1].file /\ d.iw[1].hist = c.iw[1].hist
                /\ d.iw[1].frames \in {c.iw[1].frames, f}
           /\ c.pend # None => d.pend[1].frames \in {c.pend[1].frames, f}
<1>1. c.iw \in Opt(FileType) /\ c.pend \in Opt(SnapType)
  BY DEF Chan
<1>2. /\ d.pend = IF c.pend # None THEN Reframed(c.pend, f) ELSE c.pend
      /\ d.iw = IF c.pend = None /\ c.iw # None
                THEN Reframed(c.iw, f) ELSE c.iw
  BY DEF HandedOn
<1>3. /\ d.pend \in Opt(SnapType) /\ Reframes(c.pend, d.pend)
      /\ c.pend # None => d.pend[1].frames \in {c.pend[1].frames, f}
  <2>1. CASE c.pend = None
    BY <1>1, <1>2, <2>1 DEF Reframes
  <2>2. CASE c.pend # None
    <3> DEFINE q == Reframed(c.pend, f)
    <3>1. /\ q \in Opt(SnapType) /\ q # None /\ q[1].max = c.pend[1].max
          /\ q[1].trunc = c.pend[1].trunc /\ q[1].frames = f
      BY <1>1, <2>2, ReframedSnap
    <3>2. d.pend = q
      BY <1>2, <2>2
    <3> HIDE DEF q
    <3>3. Len(q) = 1 /\ Len(c.pend) = 1
      BY <1>1, <2>2, <3>1, OptHas
    <3> QED
      BY <2>2, <3>1, <3>2, <3>3 DEF Reframes
  <2> QED
    BY <2>1, <2>2
<1>4. /\ d.iw \in Opt(FileType) /\ Reframes(c.iw, d.iw)
      /\ c.iw # None =>
                /\ d.iw[1].min = c.iw[1].min /\ d.iw[1].tl = c.iw[1].tl
                /\ d.iw[1].file = c.iw[1].file /\ d.iw[1].hist = c.iw[1].hist
                /\ d.iw[1].frames \in {c.iw[1].frames, f}
  <2>1. CASE d.iw = c.iw
    BY <1>1, <2>1 DEF Reframes
  <2>2. CASE c.iw # None /\ d.iw = Reframed(c.iw, f)
    <3> DEFINE q == Reframed(c.iw, f)
    <3>1. /\ q \in Opt(FileType) /\ q # None /\ q[1].max = c.iw[1].max
          /\ q[1].trunc = c.iw[1].trunc /\ q[1].frames = f
          /\ q[1].min = c.iw[1].min /\ q[1].tl = c.iw[1].tl
          /\ q[1].file = c.iw[1].file /\ q[1].hist = c.iw[1].hist
      BY <1>1, <2>2, ReframedFile
    <3>2. d.iw = q
      BY <2>2
    <3> HIDE DEF q
    <3>3. Len(q) = 1 /\ Len(c.iw) = 1
      BY <1>1, <2>2, <3>1, OptHas
    <3> QED
      BY <2>2, <3>1, <3>2, <3>3 DEF Reframes
  <2> QED
    BY <1>2, <2>1, <2>2
<1> QED
  BY <1>3, <1>4

\* A snapshot that left its place is handed on: it is counted no more.
LEMMA HandedOnGood ==
    ASSUME NEW c, NEW d, NEW f \in FrameType, NEW n \in Nat, NEW lv \in Int,
           NEW p, NEW med, NEW u, NEW i, NEW x, NEW y,
           Good(c, n, lv, p, med, u, i), OneMore(x, y), Counted(c, y),
           FrameOK(f, c.conn, c.connected, c.frames),
           Keeps(c, d, {"snapshots", "acked", "iw", "pend"}),
           HandedOn(c, d, f)
    PROVE  Good(d, n, lv, p, med, u, i) /\ Counted(d, x)
<1>1. /\ d.idx = c.idx /\ d.tl = c.tl /\ d.media = c.media
      /\ d.unsaved = c.unsaved /\ d.health = c.health /\ d.conn = c.conn
      /\ d.connected = c.connected /\ d.frames = c.frames
      /\ d.changed = c.changed /\ d.hist = c.hist
  BY DEF Keeps, Fields
<1>2. /\ d.iw \in Opt(FileType) /\ d.pend \in Opt(SnapType)
      /\ Reframes(c.iw, d.iw) /\ Reframes(c.pend, d.pend)
      /\ c.iw # None =>
            /\ d.iw[1].min = c.iw[1].min /\ d.iw[1].tl = c.iw[1].tl
            /\ d.iw[1].file = c.iw[1].file /\ d.iw[1].hist = c.iw[1].hist
            /\ d.iw[1].frames \in {c.iw[1].frames, f}
      /\ c.pend # None => d.pend[1].frames \in {c.pend[1].frames, f}
  BY HandedOnReframes DEF Good
<1>3. /\ d.acked \in Nat /\ d.snapshots = c.snapshots - 1
      /\ d.connected => d.acked <= d.frames
  <2>1. /\ d.snapshots = c.snapshots - 1
        /\ \/ d.acked = c.acked
           \/ d.acked = f.id /\ c.connected /\ f.conn = c.conn
    BY DEF HandedOn, Acks
  <2> QED
    BY <1>1, <2>1 DEF Good, Known, FrameOK, FrameType, Chan
<1>4. Chan(d)
  <2>1. d.snapshots \in Int
    BY <1>3 DEF Good, Chan
  <2> QED
    BY <1>2, <1>3, <2>1 DEF Good, Chan, Keeps, Fields
<1>5. Scalars(d, n, lv, u)
  <2>1. /\ d.next = c.next /\ d.min = c.min /\ d.trunc = c.trunc
        /\ d.cut = c.cut /\ d.lastReady = c.lastReady /\ d.success = c.success
    BY DEF Keeps, Fields
  <2>2. Scalars(c, n, lv, u)
    BY DEF Good
  <2> QED
    BY <1>1, <1>2, <2>1, <2>2 DEF Scalars, Reframes
<1>6. Order(d.idx, d.iw, d.pend, n, lv)
  <2>1. Order(c.idx, c.iw, c.pend, n, lv)
    BY DEF Good
  <2> QED
    BY <1>1, <1>2, <2>1 DEF Order, WriteOK, Reframes
<1>7. Flight(d.idx, d.media, p, med)
  BY <1>1 DEF Good
<1>8. Stored(d.idx, d.tl, d.iw, d.unsaved, d.health, med, u, i)
  <2>1. Stored(c.idx, c.tl, c.iw, c.unsaved, c.health, med, u, i)
    BY DEF Good
  <2> QED
    BY <1>1, <1>2, <2>1 DEF Stored, Reframes
<1>9. Known(d.idx, d.iw, d.pend, d.conn, d.connected, d.frames, d.acked)
  <2>1. Known(c.idx, c.iw, c.pend, c.conn, c.connected, c.frames, c.acked)
    BY DEF Good
  <2>2. d.iw # None => FrameOK(d.iw[1].frames, d.conn, d.connected, d.frames)
    BY <1>1, <1>2, <2>1 DEF Known, Reframes
  <2>3. d.pend # None =>
            FrameOK(d.pend[1].frames, d.conn, d.connected, d.frames)
    BY <1>1, <1>2, <2>1 DEF Known, Reframes
  <2>4. \A k \in HeldIn(d.idx) :
            FrameOK(d.idx[k].snap[1].frames, d.conn, d.connected, d.frames)
    BY <1>1, <2>1 DEF Known
  <2> QED
    BY <1>3, <2>2, <2>3, <2>4 DEF Known
<1>10. History(d.iw, d.changed, d.hist, d.health, i)
  <2>1. History(c.iw, c.changed, c.hist, c.health, i)
    BY DEF Good
  <2> QED
    BY <1>1, <1>2, <2>1 DEF History, Reframes
<1>11. Counted(d, x)
  <2> DEFINE h == Cardinality(HeldIn(c.idx))
             a == Len(c.iw)
             b == Len(c.pend)
  <2>1. h \in Nat
    BY HeldFinite DEF Good, Chan, Order
  <2>2. a \in Int /\ b \in Int
    BY OptLen DEF Good, Chan
  <2>3. c.snapshots = h + a + b + y
    BY DEF Counted, Count
  <2>4. d.idx = c.idx /\ Len(d.iw) = a /\ Len(d.pend) = b
    BY <1>1, <1>2 DEF Reframes
  <2> HIDE DEF h, a, b
  <2>5. d.snapshots = h + a + b + x
    BY <1>3, <2>1, <2>2, <2>3 DEF OneMore
  <2> QED
    BY <2>4, <2>5 DEF Counted, Count, h
<1> QED
  BY <1>4, <1>5, <1>6, <1>7, <1>8, <1>9, <1>10, <1>11 DEF Good

\* The frames are of a connection that is known.
LEMMA SnapAckGood ==
    ASSUME NEW c, NEW s \in SnapType, NEW n \in Nat, NEW lv \in Int,
           NEW p, NEW med, NEW u, NEW i, NEW x, NEW y,
           Good(c, n, lv, p, med, u, i), OneMore(x, y), Counted(c, y),
           FrameOK(s.frames, c.conn, c.connected, c.frames)
    PROVE  Good(SnapAck(c, s), n, lv, p, med, u, i) /\ Counted(SnapAck(c, s), x)
<1>1. Chan(c)
  BY DEF Good
<1>2. SnapAcked(c, SnapAck(c, s), s.frames)
  BY <1>1, SnapAckDoes
<1>3. s.frames \in FrameType
  BY DEF SnapType
<1> DEFINE d == SnapAck(c, s)
           f == s.frames
<1>4. /\ Keeps(c, d, {"snapshots", "acked", "iw", "pend"})
      /\ HandedOn(c, d, f)
  BY <1>2 DEF SnapAcked
<1> HIDE DEF d, f
<1>5. f \in FrameType /\ FrameOK(f, c.conn, c.connected, c.frames)
  BY <1>3 DEF f
<1>6. Good(d, n, lv, p, med, u, i) /\ Counted(d, x)
  BY <1>4, <1>5, HandedOnGood
<1> QED
  BY <1>6 DEF d

\* A snapshot that left its place is dropped.
LEMMA ClosedGood ==
    ASSUME NEW c, NEW d, NEW f \in FrameType, NEW a, NEW n \in Nat,
           NEW lv \in Int, NEW p, NEW med, NEW u, NEW i, NEW x, NEW y,
           Good(c, n, lv, p, med, u, i), OneMore(x, y), Counted(c, y),
           FrameOK(f, c.conn, c.connected, c.frames), Closed(c, d, f, a)
    PROVE  Good(d, n, lv, p, med, u, i) /\ Counted(d, x)
<1>1. /\ d.idx = c.idx /\ d.tl = c.tl /\ d.media = c.media
      /\ d.unsaved = c.unsaved /\ d.health = c.health /\ d.conn = c.conn
      /\ d.connected = c.connected /\ d.frames = c.frames
      /\ d.changed = c.changed /\ d.hist = c.hist /\ d.iw = c.iw
      /\ d.pend = c.pend
  BY DEF Closed, Keeps, Fields
<1>2. /\ d.acked \in Nat /\ d.snapshots = c.snapshots - 1
      /\ d.connected => d.acked <= d.frames
  <2>1. /\ d.snapshots = c.snapshots - 1
        /\ \/ d.acked = c.acked
           \/ d.acked = f.id /\ c.connected /\ f.conn = c.conn
    BY DEF Closed, Acks
  <2> QED
    BY <1>1, <2>1 DEF Good, Known, FrameOK, FrameType, Chan
<1>3. Chan(d)
  <2>1. d.snapshots \in Int
    BY <1>2 DEF Good, Chan
  <2> QED
    BY <1>2, <2>1 DEF Good, Chan, Closed, Keeps, Fields
<1>4. Scalars(d, n, lv, u)
  <2>1. /\ d.next = c.next /\ d.min = c.min /\ d.trunc = c.trunc
        /\ d.cut = c.cut /\ d.lastReady = c.lastReady /\ d.success = c.success
    BY DEF Closed, Keeps, Fields
  <2>2. Scalars(c, n, lv, u)
    BY DEF Good
  <2> QED
    BY <1>1, <2>1, <2>2 DEF Scalars
<1>5. Known(d.idx, d.iw, d.pend, d.conn, d.connected, d.frames, d.acked)
  BY <1>1, <1>2 DEF Known, Good
<1>6. Counted(d, x)
  <2> DEFINE h == Cardinality(HeldIn(c.idx)) + Len(c.iw) + Len(c.pend)
  <2>1. h \in Int
    BY CountedAre DEF Good, Order
  <2>2. c.snapshots = h + y
    BY DEF Counted, Count
  <2> HIDE DEF h
  <2>3. d.snapshots = h + x
    BY <1>2, <2>1, <2>2 DEF OneMore
  <2> QED
    BY <1>1, <2>3 DEF Counted, Count, h
<1> QED
  BY <1>1, <1>3, <1>4, <1>5, <1>6 DEF Good

\* The file that is written is of its type.
LEMMA FileOfGood ==
    ASSUME NEW c, Chan(c), NEW s \in SnapType, NEW lo \in Nat,
           NEW file \in {"index", "delta"}
    PROVE  LET w == FileOf(c, s, file, lo) IN
           /\ w \in FileType /\ Some(w) \in Opt(FileType) /\ Some(w) # None
           /\ Some(w)[1] = w /\ Len(Some(w)) = 1
           /\ w.file = file /\ w.min = lo /\ w.max = s.max
           /\ w.frames = s.frames /\ w.trunc = s.trunc
           /\ w.tl = {k \in c.tl : lo <= k /\ k <= s.max}
           /\ file = "index" => w.hist = c.hist
<1> DEFINE w == FileOf(c, s, file, lo)
<1>1. /\ w.file = file /\ w.min = lo /\ w.max = s.max
      /\ w.frames = s.frames /\ w.trunc = s.trunc
      /\ w.tl = {k \in c.tl : lo <= k /\ k <= s.max}
      /\ file = "index" => w.hist = c.hist
  BY DEF FileOf
<1>2. w \in FileType
  BY DEF FileOf, FileType, SnapType, Chan
<1> HIDE DEF w
<1>3. Some(w) \in Opt(FileType) /\ Some(w) # None /\ Some(w)[1] = w
      /\ Len(Some(w)) = 1
  BY <1>2, OptSome
<1> QED
  BY <1>1, <1>2, <1>3 DEF w

\* A write that is started, or is not, counts the snapshot no more.
LEMMA StartedGood ==
    ASSUME NEW c, NEW d, NEW s, NEW n \in Nat, NEW lv \in Int,
           NEW p, NEW med, NEW u, NEW i, NEW lo \in Nat,
           NEW file \in {"index", "delta"},
           Good(c, n, lv, p, med, u, i), Counted(c, 1), Writable(c, s, n, lv),
           c.iw = None, lo <= s.max + 1,
           file = "delta" => c.changed = 0 /\ lo = c.success + 1,
           Started(c, d, s, file, lo)
    PROVE  Good(d, n, lv, p, med, u, i) /\ Counted(d, 0)
<1> USE DEF Writable
<1>0. /\ Chan(c) /\ Scalars(c, n, lv, u) /\ c.pend = None
      /\ s.frames \in FrameType /\ s.max \in Nat /\ s.trunc \in Nat
  BY DEF Good, Order, SnapType
<1>1. d.changed \in Nat
  BY <1>0 DEF Started, Cleared, Chan
<1>2. CASE Keeps(c, d, {"changed", "iw"}) /\ d.iw = Some(FileOf(c, s, file, lo))
  <2>1. /\ d.idx = c.idx /\ d.tl = c.tl /\ d.media = c.media
        /\ d.unsaved = c.unsaved /\ d.health = c.health /\ d.conn = c.conn
        /\ d.connected = c.connected /\ d.frames = c.frames
        /\ d.hist = c.hist /\ d.pend = c.pend /\ d.acked = c.acked
        /\ d.snapshots = c.snapshots
    BY <1>2 DEF Keeps, Fields
  <2>2. /\ d.iw \in Opt(FileType) /\ d.iw # None /\ Len(d.iw) = 1
        /\ d.iw[1].file = file /\ d.iw[1].min = lo /\ d.iw[1].max = s.max
        /\ d.iw[1].frames = s.frames /\ d.iw[1].trunc = s.trunc
        /\ d.iw[1].tl = {k \in c.tl : lo <= k /\ k <= s.max}
        /\ file = "index" => d.iw[1].hist = c.hist
    <3>1. d.iw = Some(FileOf(c, s, file, lo))
      BY <1>2
    <3>2. LET w == FileOf(c, s, file, lo) IN
           /\ Some(w) \in Opt(FileType) /\ Some(w) # None
           /\ Some(w)[1] = w /\ Len(Some(w)) = 1
           /\ w.file = file /\ w.min = lo /\ w.max = s.max
           /\ w.frames = s.frames /\ w.trunc = s.trunc
           /\ w.tl = {k \in c.tl : lo <= k /\ k <= s.max}
           /\ file = "index" => w.hist = c.hist
      BY <1>0, FileOfGood
    <3> DEFINE w == FileOf(c, s, file, lo)
    <3> HIDE DEF w
    <3> QED
      BY <3>1, <3>2 DEF w
  <2>3. Chan(d)
    BY <1>0, <1>1, <1>2, <2>2 DEF Chan, Keeps, Fields
  <2>4. Scalars(d, n, lv, u)
    <3>1. /\ d.next = c.next /\ d.min = c.min /\ d.trunc = c.trunc
          /\ d.cut = c.cut /\ d.lastReady = c.lastReady
          /\ d.success = c.success
      BY <1>2 DEF Keeps, Fields
    <3> QED
      BY <1>0, <2>1, <2>2, <3>1 DEF Scalars
  <2>5. Order(d.idx, d.iw, d.pend, n, lv)
    <3>1. Order(c.idx, c.iw, c.pend, n, lv)
      BY DEF Good
    <3>2. WriteOK(d.idx, d.iw[1], n, lv)
      BY <2>1, <2>2 DEF WriteOK
    <3>3. /\ d.iw[1].min <= d.iw[1].max + 1
          /\ \A k \in d.iw[1].tl : d.iw[1].min <= k /\ k <= d.iw[1].max
      BY <2>2
    <3> QED
      BY <1>0, <2>1, <3>1, <3>2, <3>3 DEF Order
  <2>6. Stored(d.idx, d.tl, d.iw, d.unsaved, d.health, med, u, i)
    <3>1. Stored(c.idx, c.tl, c.iw, c.unsaved, c.health, med, u, i)
      BY DEF Good
    <3>2. ASSUME d.health # "stale" PROVE d.iw[1].tl \subseteq med \cup d.unsaved
      <4> SUFFICES ASSUME NEW k \in d.iw[1].tl
                   PROVE  k \in med \cup d.unsaved
        OBVIOUS
      <4>1. k \in c.tl /\ k <= s.max /\ k \in Nat
        BY <1>0, <2>2 DEF Chan
      <4>2. k \in med \cup c.unsaved \cup PendingIn(c.idx) \cup u
        BY <2>1, <3>1, <3>2, <4>1 DEF Stored
      <4>3. k \notin PendingIn(c.idx)
        BY <1>0, <4>1 DEF WriteOK
      <4>4. k \notin u
        BY <1>0, <4>1 DEF Scalars, WriteOK
      <4> QED
        BY <2>1, <4>2, <4>3, <4>4
    <3> QED
      BY <2>1, <3>1, <3>2 DEF Stored
  <2>7. Known(d.idx, d.iw, d.pend, d.conn, d.connected, d.frames, d.acked)
    BY <1>0, <2>1, <2>2 DEF Good, Known
  <2>8. History(d.iw, d.changed, d.hist, d.health, i)
    <3>1. History(c.iw, c.changed, c.hist, c.health, i)
      BY DEF Good
    <3>2. CASE file = "index"
      BY <2>1, <2>2, <3>2 DEF History
    <3>3. CASE file = "delta"
      BY <2>1, <2>2, <3>1, <3>3 DEF History
    <3> QED
      BY <3>2, <3>3
  <2>9. Counted(d, 0)
    <3> DEFINE h == Cardinality(HeldIn(c.idx))
               b == Len(c.pend)
    <3>1. h \in Nat /\ b \in {0, 1}
      BY CountedAre DEF Good, Order
    <3>2. Len(c.iw) = 0
      BY DEF None
    <3>3. c.snapshots = h + Len(c.iw) + b + 1
      BY DEF Counted, Count
    <3> HIDE DEF h, b
    <3>4. d.snapshots = h + 1 + b + 0
      BY <2>1, <3>1, <3>2, <3>3
    <3> QED
      BY <2>1, <2>2, <3>4 DEF Counted, Count, h, b
  <2>10. Flight(d.idx, d.media, p, med)
    BY <2>1 DEF Good
  <2> QED
    BY <2>3, <2>4, <2>5, <2>6, <2>7, <2>8, <2>9, <2>10 DEF Good
<1>3. CASE /\ Keeps(c, d, {"changed", "health", "snapshots", "acked"})
           /\ d.health = Failed(c.health, file)
           /\ d.snapshots = c.snapshots - 1
           /\ d.acked = IF Acks(c, s.frames) THEN s.frames.id ELSE c.acked
  <2>1. /\ d.idx = c.idx /\ d.tl = c.tl /\ d.media = c.media
        /\ d.unsaved = c.unsaved /\ d.conn = c.conn
        /\ d.connected = c.connected /\ d.frames = c.frames
        /\ d.hist = c.hist /\ d.pend = c.pend /\ d.iw = c.iw
    BY <1>3 DEF Keeps, Fields
  <2>2. /\ d.acked \in Nat
        /\ d.connected => d.acked <= d.frames
    BY <1>0, <1>3, <2>1 DEF Good, Known, FrameOK, FrameType, Chan, Acks
  <2>3. /\ d.health \in Healths
        /\ d.health = "stale" <=> c.health = "stale"
        /\ file = "index" => d.health \in {"stale", "index"}
        /\ d.health \in {"ok", "delta", "new"} =>
                c.health \in {"ok", "delta", "new"}
    BY <1>0, <1>3 DEF Failed, Healths, Chan
  <2>4. Chan(d)
    <3>1. d.snapshots \in Int
      BY <1>0, <1>3 DEF Chan
    <3> QED
      BY <1>0, <1>1, <1>3, <2>2, <2>3, <3>1 DEF Chan, Keeps, Fields
  <2>5. Scalars(d, n, lv, u)
    <3>1. /\ d.next = c.next /\ d.min = c.min /\ d.trunc = c.trunc
          /\ d.cut = c.cut /\ d.lastReady = c.lastReady
          /\ d.success = c.success
      BY <1>3 DEF Keeps, Fields
    <3> QED
      BY <1>0, <2>1, <3>1 DEF Scalars
  <2>6. Order(d.idx, d.iw, d.pend, n, lv) /\ Flight(d.idx, d.media, p, med)
    BY <2>1 DEF Good
  <2>7. Stored(d.idx, d.tl, d.iw, d.unsaved, d.health, med, u, i)
    BY <2>1, <2>3 DEF Good, Stored
  <2>8. Known(d.idx, d.iw, d.pend, d.conn, d.connected, d.frames, d.acked)
    BY <2>1, <2>2 DEF Good, Known
  <2>9. History(d.iw, d.changed, d.hist, d.health, i)
    <3>1. History(c.iw, c.changed, c.hist, c.health, i)
      BY DEF Good
    <3>2. CASE file = "index"
      BY <2>1, <2>3, <3>2 DEF History
    <3>3. CASE file = "delta"
      BY <2>1, <2>3, <3>1, <3>3 DEF History
    <3> QED
      BY <3>2, <3>3
  <2>10. Counted(d, 0)
    <3> DEFINE h == Cardinality(HeldIn(c.idx)) + Len(c.iw) + Len(c.pend)
    <3>1. h \in Int
      BY CountedAre DEF Good, Order
    <3>2. c.snapshots = h + 1
      BY DEF Counted, Count
    <3> HIDE DEF h
    <3>3. d.snapshots = h + 0
      BY <1>3, <3>1, <3>2
    <3> QED
      BY <2>1, <3>3 DEF Counted, Count, h
  <2> QED
    BY <2>4, <2>5, <2>6, <2>7, <2>8, <2>9, <2>10 DEF Good
<1> QED
  BY <1>2, <1>3 DEF Started

\* A snapshot that may be written is written, waits or is dropped.
LEMMA SnapWriteGood ==
    ASSUME NEW c, NEW s, NEW n \in Nat, NEW lv \in Int,
           NEW p, NEW med, NEW u, NEW i,
           Good(c, n, lv, p, med, u, i), Counted(c, 1), Writable(c, s, n, lv)
    PROVE  Good(SnapWrite(c, s), n, lv, p, med, u, i)
           /\ Counted(SnapWrite(c, s), 0)
<1>0. /\ Chan(c) /\ Scalars(c, n, lv, u) /\ Order(c.idx, c.iw, c.pend, n, lv)
      /\ s \in SnapType /\ s.frames \in FrameType /\ s.max \in Nat
      /\ s.trunc \in Nat
  BY DEF Good, Writable, SnapType
<1> DEFINE d == SnapWrite(c, s)
<1> SUFFICES Good(d, n, lv, p, med, u, i) /\ Counted(d, 0)
  OBVIOUS
<1>1. SnapWritten(c, d, s)
  BY <1>0, SnapWriteDoes
<1> HIDE DEF d
<1>2. CASE /\ c.iw # None /\ Keeps(c, d, {"snapshots", "pend"})
           /\ d.snapshots = c.snapshots - Len(c.pend) /\ d.pend = Some(s)
  <2>1. /\ d.idx = c.idx /\ d.tl = c.tl /\ d.media = c.media
        /\ d.unsaved = c.unsaved /\ d.health = c.health /\ d.conn = c.conn
        /\ d.connected = c.connected /\ d.frames = c.frames
        /\ d.hist = c.hist /\ d.iw = c.iw /\ d.acked = c.acked
        /\ d.changed = c.changed
    BY <1>2 DEF Keeps, Fields
  <2>2. /\ d.pend \in Opt(SnapType) /\ d.pend # None /\ d.pend[1] = s
        /\ Len(d.pend) = 1
    BY <1>0, <1>2, OptSome
  <2>3. Len(c.pend) \in {0, 1}
    BY <1>0, CountedAre DEF Order
  <2>4. Chan(d)
    <3>1. d.snapshots \in Int
      BY <1>0, <1>2, <2>3 DEF Chan
    <3> QED
      BY <1>0, <1>2, <2>2, <3>1 DEF Chan, Keeps, Fields
  <2>5. Scalars(d, n, lv, u)
    <3>1. /\ d.next = c.next /\ d.min = c.min /\ d.trunc = c.trunc
          /\ d.cut = c.cut /\ d.lastReady = c.lastReady
          /\ d.success = c.success
      BY <1>2 DEF Keeps, Fields
    <3> QED
      BY <1>0, <2>1, <3>1 DEF Scalars
  <2>6. Order(d.idx, d.iw, d.pend, n, lv)
    BY <1>0, <1>2, <2>1, <2>2 DEF Order, Writable
  <2>7. Known(d.idx, d.iw, d.pend, d.conn, d.connected, d.frames, d.acked)
    BY <2>1, <2>2 DEF Known, Good, Writable
  <2>8. Counted(d, 0)
    <3> DEFINE h == Cardinality(HeldIn(c.idx))
               a == Len(c.iw)
               b == Len(c.pend)
    <3>1. h \in Nat /\ a \in {0, 1} /\ b \in {0, 1}
      BY <1>0, CountedAre DEF Order
    <3>2. c.snapshots = h + a + b + 1
      BY DEF Counted, Count
    <3>3. d.snapshots = c.snapshots - b
      BY <1>2
    <3> HIDE DEF h, a, b
    <3>4. d.snapshots = h + a + 1 + 0
      BY <3>1, <3>2, <3>3
    <3> QED
      BY <2>1, <2>2, <3>4 DEF Counted, Count, h, a
  <2> QED
    BY <2>1, <2>4, <2>5, <2>6, <2>7, <2>8 DEF Good
<1>3. CASE Closed(c, d, s.frames, TRUE)
  <2> DEFINE f == s.frames
             x == 0
             y == 1
  <2>1. /\ f \in FrameType /\ FrameOK(f, c.conn, c.connected, c.frames)
        /\ OneMore(x, y) /\ Counted(c, y)
    BY <1>0, OneMoreZero DEF Writable
  <2>2. Closed(c, d, f, TRUE)
    BY <1>3
  <2> HIDE DEF f, x, y
  <2>3. Good(d, n, lv, p, med, u, i) /\ Counted(d, x)
    BY <2>1, <2>2, ClosedGood
  <2> QED
    BY <2>3 DEF x
<1>4. CASE /\ c.iw = None /\ DeltaFits(c, s)
           /\ Started(c, d, s, "delta", c.success + 1)
  <2> DEFINE lo == c.success + 1
             file == "delta"
  <2>1. /\ lo \in Nat /\ lo <= s.max + 1 /\ file \in {"index", "delta"}
        /\ c.changed = 0 /\ lo = c.success + 1
    BY <1>0, <1>4 DEF Chan, Scalars, Writable, WriteOK, DeltaFits
  <2>2. Started(c, d, s, file, lo)
    BY <1>4
  <2> HIDE DEF lo, file
  <2>3. Good(d, n, lv, p, med, u, i) /\ Counted(d, 0)
    BY <1>4, <2>1, <2>2, StartedGood
  <2> QED
    BY <2>3
<1>5. CASE /\ c.iw = None /\ ~(s.max < c.min)
           /\ Started(c, d, s, "index", c.min)
  <2> DEFINE lo == c.min
             file == "index"
  <2>1. /\ lo \in Nat /\ lo <= s.max + 1 /\ file \in {"index", "delta"}
        /\ file # "delta"
    BY <1>0, <1>5 DEF Chan
  <2>2. Started(c, d, s, file, lo)
    BY <1>5
  <2> HIDE DEF lo, file
  <2>3. Good(d, n, lv, p, med, u, i) /\ Counted(d, 0)
    BY <1>5, <2>1, <2>2, StartedGood
  <2> QED
    BY <2>3
<1> QED
  BY <1>1, <1>2, <1>3, <1>4, <1>5 DEF SnapWritten

-----------------------------------------------------------------------------
(* An index leaves the memory *)

\* q is idx after k left the memory
IdxFreed(idx, q, k, kept) ==
    q = IF kept THEN FreedIn(idx, k) ELSE RemovedFrom(idx, k)

\* so that k has no snapshot, or is not there
OneFreed(idx, q, k, kept) ==
    /\ IdxType(q)
    /\ DOMAIN q = IF kept THEN DOMAIN idx ELSE DOMAIN idx \ {k}
    /\ \A j \in DOMAIN q : j # k => q[j] = idx[j]
    /\ kept => /\ q[k].free = TRUE /\ q[k].snap = None
               /\ q[k].persist = idx[k].persist

\* The others are as they were.
LEMMA IdxFreedDoes ==
    ASSUME NEW idx, IdxType(idx), NEW k \in DOMAIN idx, NEW kept \in BOOLEAN,
           NEW q, IdxFreed(idx, q, k, kept)
    PROVE  OneFreed(idx, q, k, kept)
<1>1. CASE kept
  <2>1. q = FreedIn(idx, k)
    BY <1>1 DEF IdxFreed
  <2> QED
    BY <1>1, <2>1, FreedEntry DEF OneFreed
<1>2. CASE ~kept
  BY <1>2 DEF IdxFreed, RemovedFrom, IdxType, OneFreed
<1> QED
  BY <1>1, <1>2

\* Its snapshot is not held any more.
LEMMA IdxFreedSets ==
    ASSUME NEW idx, IdxType(idx), NEW k \in DOMAIN idx, NEW kept \in BOOLEAN,
           NEW q, IdxFreed(idx, q, k, kept)
    PROVE  /\ HeldIn(q) = HeldIn(idx) \ {k}
           /\ PendingIn(q) = IF kept THEN PendingIn(idx)
                             ELSE PendingIn(idx) \ {k}
<1>1. OneFreed(idx, q, k, kept)
  BY IdxFreedDoes
<1>2. CASE kept
  BY <1>1, <1>2 DEF HeldIn, PendingIn, OneFreed
<1>3. CASE ~kept
  BY <1>1, <1>3 DEF HeldIn, PendingIn, OneFreed
<1> QED
  BY <1>2, <1>3

\* What of IndexFree is no change of the snapshots.
Dropped(c, e, k) ==
    LET x == c.idx[k] IN
    /\ Keeps(c, e, {"idx", "cut", "unsaved", "early"})
    /\ IdxFreed(c.idx, e.idx, k, FlightAt(c.media, k))
    /\ e.cut = IF LostBy(x) THEN k ELSE c.cut
    /\ e.unsaved = IF LostBy(x) THEN c.unsaved \cup {k} ELSE c.unsaved
    /\ e.early \in Int

\* It may be done when the index is not above the next segment.
LEMMA DroppedGood ==
    ASSUME NEW c, NEW e, NEW k \in DOMAIN c.idx, NEW n \in Nat, NEW lv \in Int,
           NEW p, NEW med, NEW u, NEW i,
           Good(c, n, lv, p, med, u, i), k <= c.next,
           FreeIn(c.idx, c.media, {}), Dropped(c, e, k)
    PROVE  Good(e, n, lv, p, med, u, i) /\ FreeIn(e.idx, e.media, {})
<1> DEFINE kept == FlightAt(c.media, k)
           x == c.idx[k]
           q == e.idx
<1>0. /\ Chan(c) /\ IdxType(c.idx) /\ kept \in BOOLEAN
      /\ IdxFreed(c.idx, q, k, kept)
  BY DEF Good, Chan, Dropped, FlightAt
<1>1. /\ e.tl = c.tl /\ e.media = c.media /\ e.iw = c.iw /\ e.pend = c.pend
      /\ e.health = c.health /\ e.conn = c.conn
      /\ e.connected = c.connected /\ e.frames = c.frames
      /\ e.changed = c.changed /\ e.hist = c.hist /\ e.acked = c.acked
  BY DEF Dropped, Keeps, Fields
<1> HIDE DEF kept
<1>2. /\ IdxType(q)
      /\ DOMAIN q = IF kept THEN DOMAIN c.idx ELSE DOMAIN c.idx \ {k}
      /\ \A j \in DOMAIN q : j # k => q[j] = c.idx[j]
      /\ kept => /\ q[k].free = TRUE /\ q[k].snap = None
                 /\ q[k].persist = c.idx[k].persist
  <2>1. OneFreed(c.idx, q, k, kept)
    BY <1>0, IdxFreedDoes
  <2> QED
    BY <2>1 DEF OneFreed
<1>3. /\ HeldIn(q) = HeldIn(c.idx) \ {k}
      /\ PendingIn(q) = IF kept THEN PendingIn(c.idx)
                        ELSE PendingIn(c.idx) \ {k}
  BY <1>0, IdxFreedSets
<1>4. x \in EntryType /\ k \in Nat
  BY <1>0 DEF IdxType
<1>5. /\ e.cut \in Nat /\ e.cut <= c.next
      /\ e.unsaved \subseteq Nat /\ c.unsaved \subseteq e.unsaved
      /\ LostBy(x) => k \in e.unsaved
  BY <1>0, <1>4 DEF Dropped, Chan, Good, Scalars
<1> DEFINE P == PendingIn(c.idx)
           Q == PendingIn(q)
<1>6. /\ DOMAIN q \subseteq DOMAIN c.idx /\ Q \subseteq P
      /\ \A j \in DOMAIN q : q[j].persist = c.idx[j].persist
      /\ \A j \in HeldIn(q) : j \in HeldIn(c.idx) /\ q[j] = c.idx[j]
      /\ \A j \in DOMAIN q : j \in P => j \in Q
  <2>1. HeldIn(q) \subseteq DOMAIN q
    BY DEF HeldIn
  <2> QED
    BY <1>2, <1>3, <2>1
<1>7. k \in P /\ ~kept => k \in e.unsaved
  <2> SUFFICES ASSUME k \in P, ~kept PROVE k \in e.unsaved
    OBVIOUS
  <2>1. x.persist = "none" /\ x.free \in BOOLEAN
    BY <1>4 DEF PendingIn, EntryType
  <2>2. ~x.free
    BY DEF FreeIn, kept
  <2> QED
    BY <1>5, <2>1, <2>2 DEF LostBy
<1>8. Chan(e)
  <2>1. e.early \in Int
    BY DEF Dropped
  <2> QED
    BY <1>0, <1>2, <1>5, <2>1 DEF Chan, Dropped, Keeps, Fields
<1>9. Scalars(e, n, lv, u)
  <2>1. /\ e.next = c.next /\ e.min = c.min /\ e.trunc = c.trunc
        /\ e.lastReady = c.lastReady /\ e.success = c.success
    BY DEF Dropped, Keeps, Fields
  <2>2. Scalars(c, n, lv, u)
    BY DEF Good
  <2> QED
    BY <1>1, <1>5, <2>1, <2>2 DEF Scalars
<1>10. Order(q, e.iw, e.pend, n, lv)
  <2>1. Order(c.idx, c.iw, c.pend, n, lv)
    BY DEF Good
  <2>2. \A j \in DOMAIN q : j < n
    BY <1>6, <2>1 DEF Order
  <2>3. HeldIn(q) \subseteq Q
    <3> SUFFICES ASSUME NEW j \in HeldIn(q) PROVE j \in Q
      OBVIOUS
    <3>1. j \in HeldIn(c.idx) /\ j \in DOMAIN q
      BY <1>6 DEF HeldIn
    <3> QED
      BY <1>6, <2>1, <3>1 DEF Order
  <2>4. \A j \in HeldIn(q) : HeldOK(q, j, n)
    BY <1>6, <2>1 DEF Order, HeldOK
  <2>5. \A j \in Q : lv < j
    BY <1>6, <2>1 DEF Order
  <2>6. \A f : WriteOK(c.idx, f, n, lv) => WriteOK(q, f, n, lv)
    BY <1>6 DEF WriteOK
  <2> HIDE DEF q
  <2> QED
    BY <1>1, <2>1, <2>2, <2>3, <2>4, <2>5, <2>6 DEF Order
<1>11. Flight(q, e.media, p, med)
  <2>1. Flight(c.idx, c.media, p, med)
    BY DEF Good
  <2>2. ASSUME NEW w \in c.media PROVE FlightOK(q, w, p, med)
    <3>1. FlightOK(c.idx, w, p, med)
      BY <2>1 DEF Flight
    <3>2. w.at \in Q
      <4>1. w.at \in P
        BY <3>1 DEF FlightOK
      <4>2. ~kept => w.at # k
        BY DEF kept, FlightAt
      <4> QED
        BY <1>3, <4>1, <4>2
    <3> QED
      BY <1>6, <3>1, <3>2 DEF FlightOK
  <2>3. \A j \in DOMAIN q : j \in Q \/ BucketOf(j) < p
    BY <1>6, <2>1 DEF Flight
  <2> QED
    BY <1>1, <2>1, <2>2, <2>3 DEF Flight
<1>12. Stored(q, e.tl, e.iw, e.unsaved, e.health, med, u, i)
  <2>1. Stored(c.idx, c.tl, c.iw, c.unsaved, c.health, med, u, i)
    BY DEF Good
  <2>2. \A j \in DOMAIN q : q[j].persist = "ok" => j \in med \cup e.unsaved
    BY <1>5, <1>6, <2>1 DEF Stored
  <2>3. \A j \in P : j \in Q \cup e.unsaved
    BY <1>3, <1>7
  <2> HIDE DEF q, P, Q
  <2>4. ASSUME c.health # "stale"
        PROVE \A j \in c.tl : j \in med \cup e.unsaved \cup Q \cup u
    BY <1>5, <2>1, <2>3, <2>4 DEF Stored, P
  <2> QED
    BY <1>1, <1>5, <2>1, <2>2, <2>4 DEF Stored, Q
<1>13. Known(q, e.iw, e.pend, e.conn, e.connected, e.frames, e.acked)
  BY <1>1, <1>6 DEF Good, Known
<1>14. History(e.iw, e.changed, e.hist, e.health, i)
  BY <1>1 DEF Good
<1>15. FreeIn(q, e.media, {})
  <2> SUFFICES ASSUME NEW j \in Q, q[j].free PROVE FlightAt(c.media, j)
    BY <1>1 DEF FreeIn
  <2>1. j \in DOMAIN q
    BY DEF PendingIn
  <2>2. CASE j = k
    BY <1>2, <2>1, <2>2 DEF kept
  <2>3. CASE j # k
    BY <1>2, <1>6, <2>1, <2>3 DEF FreeIn
  <2> QED
    BY <2>2, <2>3
<1> QED
  BY <1>8, <1>9, <1>10, <1>11, <1>12, <1>13, <1>14, <1>15 DEF Good

\* An index leaves the memory: its segment is saved, or counts as unsaved.
LEMMA IndexFreeGood ==
    ASSUME NEW c, NEW k \in DOMAIN c.idx, NEW n \in Nat, NEW lv \in Int,
           NEW p, NEW med, NEW u, NEW i, NEW x \in Int,
           Good(c, n, lv, p, med, u, i), k <= c.next,
           FreeIn(c.idx, c.media, {}), Counted(c, x)
    PROVE  /\ Good(IndexFree(c, k), n, lv, p, med, u, i)
           /\ FreeIn(IndexFree(c, k).idx, IndexFree(c, k).media, {})
           /\ Counted(IndexFree(c, k), x)
<1> DEFINE d == IndexFree(c, k)
           s == c.idx[k].snap
<1> SUFFICES Good(d, n, lv, p, med, u, i) /\ FreeIn(d.idx, d.media, {})
             /\ Counted(d, x)
  OBVIOUS
<1>0. Chan(c) /\ IdxType(c.idx) /\ c.idx[k] \in EntryType
  BY DEF Good, Chan, IdxType
<1>1. c.noFree \/ IndexFreed(c, d, k)
  BY <1>0, IndexFreeDoes
<1>2. c.noFree => d = c
  BY <1>0, IndexFreeDoes
<1>3. CASE c.noFree
  BY <1>2, <1>3
<1>4. CASE IndexFreed(c, d, k)
  <2> HIDE DEF d
  <2> DEFINE e == [d EXCEPT !.snapshots = c.snapshots, !.acked = c.acked,
                            !.iw = c.iw, !.pend = c.pend]
             kept == FlightAt(c.media, k)
  <2>1. /\ Keeps(c, d, {"idx", "cut", "unsaved", "early", "snapshots",
                        "acked", "iw", "pend"})
        /\ IdxFreed(c.idx, d.idx, k, kept)
        /\ d.cut = IF LostBy(c.idx[k]) THEN k ELSE c.cut
        /\ d.unsaved = IF LostBy(c.idx[k]) THEN c.unsaved \cup {k}
                       ELSE c.unsaved
        /\ d.early = IF s # None /\ s[1].max > k
                     THEN Bigger(c.early, s[1].max) ELSE c.early
    BY <1>4 DEF IndexFreed, IdxFreed
  <2>2. /\ Keeps(c, e, {"idx", "cut", "unsaved", "early"})
        /\ Keeps(e, d, {"snapshots", "acked", "iw", "pend"})
        /\ e.idx = d.idx /\ e.cut = d.cut /\ e.unsaved = d.unsaved
        /\ e.early = d.early /\ e.iw = c.iw /\ e.pend = c.pend
        /\ e.snapshots = c.snapshots /\ e.acked = c.acked
        /\ e.connected = c.connected /\ e.conn = c.conn
        /\ e.frames = c.frames /\ e.media = c.media /\ d.media = c.media
    BY <2>1 DEF Keeps, Fields
  <2> HIDE DEF e, kept
  <2>3. e.early \in Int
    <3>1. s # None /\ s[1].max > k => s[1].max \in Int
      BY <1>0, EntryHas, SnapHas
    <3> QED
      BY <1>0, <2>1, <2>2, <3>1 DEF Chan, Bigger
  <2>4. Dropped(c, e, k)
    BY <2>1, <2>2, <2>3 DEF Dropped, kept
  <2>5. Good(e, n, lv, p, med, u, i) /\ FreeIn(e.idx, e.media, {})
    BY <2>4, DroppedGood
  <2>6. HeldIn(e.idx) = HeldIn(c.idx) \ {k}
    <3>1. kept \in BOOLEAN
      BY DEF kept, FlightAt
    <3> QED
      BY <1>0, <2>1, <2>2, <3>1, IdxFreedSets
  <2> DEFINE h == Cardinality(HeldIn(c.idx))
             g == Cardinality(HeldIn(e.idx))
             a == Len(c.iw)
             b == Len(c.pend)
  <2>7. /\ h \in Nat /\ a \in {0, 1} /\ b \in {0, 1}
        /\ IsFiniteSet(HeldIn(c.idx))
    BY <1>0, CountedAre, HeldFinite DEF Good, Order
  <2>8. c.snapshots = h + a + b + x
    BY DEF Counted, Count
  <2>9. CASE s = None
    <3>1. HeldIn(e.idx) = HeldIn(c.idx)
      BY <2>6, <2>9 DEF HeldIn
    <3>2. /\ d.snapshots = c.snapshots /\ d.acked = c.acked
          /\ d.iw = c.iw /\ d.pend = c.pend
      BY <1>4, <2>9 DEF IndexFreed
    <3>3. Counted(e, x)
      BY <2>2, <2>8, <3>1 DEF Counted, Count
    <3>4. Beside(e, d) /\ Chan(d)
      <4>1. Chan(e) /\ Keeps(e, d, {})
        BY <2>2, <2>5, <3>2 DEF Good, Keeps, Fields
      <4>2. Chan(d)
        BY <4>1 DEF Chan, Keeps, Fields
      <4> QED
        BY <4>1, <4>2 DEF Beside, Keeps, Fields
    <3>5. Scalars(d, n, lv, u)
      <4>1. Scalars(e, n, lv, u)
        BY <2>5 DEF Good
      <4>2. /\ d.next = e.next /\ d.min = e.min /\ d.tl = e.tl
            /\ d.trunc = e.trunc /\ d.cut = e.cut /\ d.iw = e.iw
            /\ d.lastReady = e.lastReady /\ d.success = e.success
        BY <2>2, <3>2 DEF Keeps, Fields
      <4> QED
        BY <4>1, <4>2 DEF Scalars
    <3>6. Good(d, n, lv, p, med, u, i)
      BY <2>5, <3>4, <3>5, AsideGood
    <3> QED
      BY <2>5, <3>3, <3>4, <3>6 DEF Beside, Counted, FreeIn
  <2>10. CASE s # None
    <3>1. k \in HeldIn(c.idx)
      BY <2>10 DEF HeldIn
    <3>2. h = g + 1 /\ g \in Nat
      <4> DEFINE H == HeldIn(c.idx)
      <4>1. IsFiniteSet(H) /\ k \in H
        BY <2>7, <3>1
      <4> HIDE DEF H
      <4>2. Cardinality(H \ {k}) = Cardinality(H) - 1
        BY <4>1, FS_RemoveElement
      <4>3. Cardinality(H \ {k}) \in Nat
        BY <4>1, FS_RemoveElement, FS_CardinalityType
      <4>4. g = h - 1 /\ g \in Nat
        BY <2>6, <4>2, <4>3 DEF H
      <4> HIDE DEF g, h
      <4> QED
        BY <2>7, <4>4
    <3> DEFINE y == x + 1
               f == s[1].frames
    <3>3. OneMore(x, y)
      BY DEF OneMore
    <3>4. Counted(e, y)
      <4> HIDE DEF g, h, a, b
      <4>1. c.snapshots = g + a + b + y
        BY <2>7, <2>8, <3>2
      <4> QED
        BY <2>2, <4>1 DEF Counted, Count, g, a, b
    <3>5. HandedOn(e, d, f)
      <4>1. HandedOn(c, d, f)
        BY <1>4, <2>10 DEF IndexFreed
      <4> QED
        BY <2>2, <4>1 DEF HandedOn, Acks
    <3>6. f \in FrameType
      BY <1>0, <2>10, EntryHas, SnapHas
    <3>7. FrameOK(f, e.conn, e.connected, e.frames)
      BY <2>2, <3>1 DEF Good, Known
    <3> HIDE DEF y, f
    <3>8. Keeps(e, d, {"snapshots", "acked", "iw", "pend"})
      BY <2>2
    <3>9. Good(d, n, lv, p, med, u, i) /\ Counted(d, x)
      BY <2>5, <3>3, <3>4, <3>5, <3>6, <3>7, <3>8, HandedOnGood
    <3> QED
      BY <2>2, <2>5, <3>9
  <2> QED
    BY <2>9, <2>10
<1> QED
  BY <1>1, <1>3, <1>4

-----------------------------------------------------------------------------
(* Indexes leave the memory in order *)

\* h has the channel after each of the steps.
FreeRun(h, c, K, n) ==
    h = [m \in 0 .. n |->
            IF m = 0 THEN c
            ELSE IF m - 1 \in K THEN IndexFree(h[m - 1], m - 1)
            ELSE h[m - 1]]

FreeAll(c, K, n) == InOrder(IndexFree, c, K, n)

\* There is such an h,
LEMMA FreeRunExists ==
    ASSUME NEW c, NEW K, NEW n \in Nat
    PROVE  \E h : FreeRun(h, c, K, n)
<1> DEFINE S == {m \in Nat : \E h : FreeRun(h, c, K, m)}
<1>1. 0 \in S
  <2>1. FreeRun([m \in 0 .. 0 |-> c], c, K, 0)
    BY DEF FreeRun
  <2> QED
    BY <2>1
<1>2. ASSUME NEW m \in 0 .. n - 1, m \in S PROVE m + 1 \in S
  <2>1. PICK h : FreeRun(h, c, K, m)
    BY <1>2
  <2> DEFINE e == IF m \in K THEN IndexFree(h[m], m) ELSE h[m]
             g == [j \in 0 .. m + 1 |-> IF j = m + 1 THEN e ELSE h[j]]
  <2>2. g = [j \in 0 .. m + 1 |->
                IF j = 0 THEN c
                ELSE IF j - 1 \in K THEN IndexFree(g[j - 1], j - 1)
                ELSE g[j - 1]]
    <3> SUFFICES ASSUME NEW j \in 0 .. m + 1
                 PROVE  g[j] = IF j = 0 THEN c
                               ELSE IF j - 1 \in K
                               THEN IndexFree(g[j - 1], j - 1)
                               ELSE g[j - 1]
      OBVIOUS
    <3>1. CASE j = m + 1
      <4>1. j # 0 /\ j - 1 = m /\ m # m + 1 /\ m \in 0 .. m + 1
        BY <3>1
      <4>2. g[j] = e /\ g[m] = h[m]
        BY <3>1, <4>1
      <4> HIDE DEF g
      <4> QED
        BY <4>1, <4>2
    <3>2. CASE j = 0
      <4>1. g[j] = h[0]
        BY <3>2
      <4>2. h[0] = c
        BY <2>1 DEF FreeRun
      <4> HIDE DEF g
      <4> QED
        BY <3>2, <4>1, <4>2
    <3>3. CASE j \in 1 .. m
      <4>1. j # 0 /\ j # m + 1 /\ j - 1 # m + 1 /\ j \in 0 .. m
            /\ j - 1 \in 0 .. m + 1
        BY <3>3
      <4>2. g[j] = h[j] /\ g[j - 1] = h[j - 1]
        BY <4>1
      <4>3. h[j] = IF j - 1 \in K THEN IndexFree(h[j - 1], j - 1)
                   ELSE h[j - 1]
        BY <2>1, <4>1 DEF FreeRun
      <4> HIDE DEF g
      <4> QED
        BY <4>1, <4>2, <4>3
    <3> QED
      BY <3>1, <3>2, <3>3
  <2> HIDE DEF g
  <2>3. FreeRun(g, c, K, m + 1)
    BY <2>2 DEF FreeRun
  <2> QED
    BY <2>3
<1> HIDE DEF S
<1>3. n \in S
  BY <1>1, <1>2, UpTo
<1> QED
  BY <1>3 DEF S

\* and the last of it is what InOrder gives.
LEMMA FreeRunGives ==
    ASSUME NEW c, NEW K, NEW n \in Nat
    PROVE  \E h : /\ h[0] = c /\ h[n] = FreeAll(c, K, n)
                  /\ \A m \in 0 .. n - 1 :
                        h[m + 1] = IF m \in K THEN IndexFree(h[m], m)
                                   ELSE h[m]
<1> DEFINE h == CHOOSE h : FreeRun(h, c, K, n)
<1>1. FreeRun(h, c, K, n)
  BY FreeRunExists
<1>2. FreeAll(c, K, n) = h[n]
  BY DEF FreeAll, InOrder, FreeRun
<1> HIDE DEF h
<1>3. h[0] = c
  BY <1>1 DEF FreeRun
<1>4. ASSUME NEW m \in 0 .. n - 1
      PROVE  h[m + 1] = IF m \in K THEN IndexFree(h[m], m) ELSE h[m]
  <2> DEFINE j == m + 1
  <2>1. j \in 0 .. n /\ j # 0 /\ j - 1 = m
    OBVIOUS
  <2> HIDE DEF j
  <2>2. h[j] = IF j - 1 \in K THEN IndexFree(h[j - 1], j - 1) ELSE h[j - 1]
    BY <1>1, <2>1 DEF FreeRun
  <2>3. h[j] = IF m \in K THEN IndexFree(h[m], m) ELSE h[m]
    BY <2>1, <2>2
  <2> QED
    BY <2>3 DEF j
<1> QED
  BY <1>2, <1>3, <1>4

FreeFields ==
    {"idx", "cut", "unsaved", "early", "snapshots", "acked", "iw", "pend"}

\* d is c after indexes of K were freed.
Freed(c, d, K) ==
    /\ Keeps(c, d, FreeFields)
    /\ DOMAIN d.idx \subseteq DOMAIN c.idx
    /\ \A k \in DOMAIN c.idx : k \notin K =>
            k \in DOMAIN d.idx /\ d.idx[k] = c.idx[k]
    /\ \A k \in DOMAIN d.idx : d.idx[k].persist = c.idx[k].persist
    /\ c.unsaved \subseteq d.unsaved
    /\ Reframes(c.iw, d.iw) /\ Reframes(c.pend, d.pend)
    /\ c.noFree => DOMAIN d.idx = DOMAIN c.idx

\* Nothing changes,
LEMMA FreedNone ==
    ASSUME NEW c, Chan(c), NEW K
    PROVE  Freed(c, c, K)
BY DEF Freed, Keeps, Reframes, Chan

\* one index is freed,
LEMMA IndexFreeFreed ==
    ASSUME NEW c, Chan(c), NEW k \in DOMAIN c.idx
    PROVE  Freed(c, IndexFree(c, k), {k})
<1> DEFINE d == IndexFree(c, k)
           s == c.idx[k].snap
           kept == FlightAt(c.media, k)
<1> SUFFICES Freed(c, d, {k})
  OBVIOUS
<1>1. c.noFree \/ IndexFreed(c, d, k)
  BY IndexFreeDoes
<1>2. CASE c.noFree
  <2>1. d = c
    BY <1>2, IndexFreeDoes
  <2> QED
    BY <2>1, FreedNone
<1>3. CASE ~c.noFree /\ IndexFreed(c, d, k)
  <2> HIDE DEF d
  <2>1. /\ Keeps(c, d, FreeFields)
        /\ IdxFreed(c.idx, d.idx, k, kept)
        /\ c.unsaved \subseteq d.unsaved
    BY <1>3 DEF IndexFreed, IdxFreed, FreeFields
  <2>2. Reframes(c.iw, d.iw) /\ Reframes(c.pend, d.pend)
    <3>1. CASE s = None
      BY <1>3, <3>1 DEF IndexFreed, Reframes
    <3>2. CASE s # None
      <4>1. s[1].frames \in FrameType
        BY <3>2, EntryHas, SnapHas DEF Chan, IdxType
      <4>2. HandedOn(c, d, s[1].frames)
        BY <1>3, <3>2 DEF IndexFreed
      <4> QED
        BY <4>1, <4>2, HandedOnReframes
    <3> QED
      BY <3>1, <3>2
  <2>3. OneFreed(c.idx, d.idx, k, kept)
    <3>1. kept \in BOOLEAN
      BY DEF FlightAt
    <3> QED
      BY <2>1, <3>1, IdxFreedDoes DEF Chan
  <2> HIDE DEF kept
  <2>4. /\ DOMAIN d.idx \subseteq DOMAIN c.idx
        /\ \A j \in DOMAIN c.idx : j \notin {k} =>
                j \in DOMAIN d.idx /\ d.idx[j] = c.idx[j]
        /\ \A j \in DOMAIN d.idx : d.idx[j].persist = c.idx[j].persist
    BY <2>3 DEF OneFreed
  <2> QED
    BY <1>3, <2>1, <2>2, <2>4 DEF Freed
<1> QED
  BY <1>1, <1>2, <1>3

\* and one more.
LEMMA FreedMore ==
    ASSUME NEW c, NEW d, NEW e, NEW L, NEW k, Freed(c, d, L), Freed(d, e, {k})
    PROVE  Freed(c, e, L \cup {k})
<1>1. Keeps(c, e, FreeFields) /\ d.noFree = c.noFree
  BY DEF Freed, Keeps, Fields, FreeFields
<1>2. Reframes(c.iw, e.iw)
  BY DEF Freed, Reframes
<1>3. Reframes(c.pend, e.pend)
  BY DEF Freed, Reframes
<1>4. /\ DOMAIN e.idx \subseteq DOMAIN c.idx
      /\ \A j \in DOMAIN c.idx : j \notin L \cup {k} =>
              j \in DOMAIN e.idx /\ e.idx[j] = c.idx[j]
      /\ \A j \in DOMAIN e.idx : e.idx[j].persist = c.idx[j].persist
      /\ c.unsaved \subseteq e.unsaved
  BY DEF Freed
<1>5. c.noFree => DOMAIN e.idx = DOMAIN c.idx
  BY <1>1 DEF Freed
<1> QED
  BY <1>1, <1>2, <1>3, <1>4, <1>5 DEF Freed

\* FreeEach starts without anything cut.
LEMMA CutGood ==
    ASSUME NEW c, NEW n \in Nat, NEW lv \in Int, NEW p, NEW med, NEW u, NEW i,
           NEW x, Good(c, n, lv, p, med, u, i), FreeIn(c.idx, c.media, {}),
           Counted(c, x)
    PROVE  LET d == [c EXCEPT !.cut = 0] IN
           /\ Good(d, n, lv, p, med, u, i) /\ FreeIn(d.idx, d.media, {})
           /\ Counted(d, x) /\ Keeps(c, d, {"cut"}) /\ d.cut = 0
<1> DEFINE d == [c EXCEPT !.cut = 0]
<1>1. Keeps(c, d, {"cut"}) /\ d.cut = 0
  BY DEF Keeps, Fields, Good, Chan
<1> HIDE DEF d
<1>2. Beside(c, d)
  BY <1>1 DEF Beside, Keeps, Fields
<1>3. Chan(d)
  BY <1>1 DEF Good, Chan, Keeps, Fields
<1>4. Scalars(d, n, lv, u)
  <2>1. /\ d.next = c.next /\ d.min = c.min /\ d.tl = c.tl
        /\ d.trunc = c.trunc /\ d.cut = 0 /\ d.iw = c.iw
        /\ d.lastReady = c.lastReady /\ d.success = c.success
    BY <1>1 DEF Keeps, Fields
  <2> QED
    BY <2>1 DEF Good, Scalars, Chan
<1>5. Good(d, n, lv, p, med, u, i)
  BY <1>2, <1>3, <1>4, AsideGood
<1>6. FreeIn(d.idx, d.media, {}) /\ Counted(d, x)
  BY <1>2 DEF Beside, Counted
<1> QED
  BY <1>1, <1>5, <1>6 DEF d

\* Indexes of K below m were freed, and all is good.
FreedSoFar(c, d, K, m, n, lv, p, med, u, i, x) ==
    /\ Good(d, n, lv, p, med, u, i) /\ FreeIn(d.idx, d.media, {})
    /\ Counted(d, x) /\ Freed(c, d, {k \in K : k < m})

\* What one more index that is freed leaves.
LEMMA FreedOneMore ==
    ASSUME NEW c, NEW d, NEW K, NEW m \in Nat, NEW n \in Nat, NEW lv \in Int,
           NEW p, NEW med, NEW u, NEW i, NEW x \in Int, NEW q,
           K \subseteq DOMAIN c.idx, Good(c, n, lv, p, med, u, i),
           FreedSoFar(c, d, K, m, n, lv, p, med, u, i, x), q = m + 1
    PROVE  /\ m \in K =>
                FreedSoFar(c, IndexFree(d, m), K, q, n, lv, p, med, u, i, x)
           /\ m \notin K => FreedSoFar(c, d, K, q, n, lv, p, med, u, i, x)
<1> DEFINE L == {k \in K : k < m}
           L2 == {k \in K : k < q}
<1>0. /\ Good(d, n, lv, p, med, u, i) /\ FreeIn(d.idx, d.media, {})
      /\ Counted(d, x) /\ Freed(c, d, L)
  BY DEF FreedSoFar
<1>1. K \subseteq Nat
  BY DEF Good, Chan, IdxType
<1>2. ASSUME m \in K
      PROVE  FreedSoFar(c, IndexFree(d, m), K, q, n, lv, p, med, u, i, x)
  <2> DEFINE e == IndexFree(d, m)
  <2>1. L2 = L \cup {m}
    BY <1>1, <1>2
  <2>2. m \in DOMAIN d.idx
    BY <1>0, <1>2 DEF Freed
  <2>3. m <= d.next
    BY <1>0, <2>2 DEF Good, Scalars, Order, Chan
  <2>4. /\ Good(e, n, lv, p, med, u, i) /\ FreeIn(e.idx, e.media, {})
        /\ Counted(e, x)
    BY <1>0, <2>2, <2>3, IndexFreeGood
  <2>5. Freed(d, e, {m})
    BY <1>0, <2>2, IndexFreeFreed DEF Good
  <2> HIDE DEF e, L, L2
  <2>6. Freed(c, e, L2)
    BY <1>0, <2>1, <2>5, FreedMore
  <2> QED
    BY <2>4, <2>6 DEF FreedSoFar, e, L2
<1>3. ASSUME m \notin K
      PROVE  FreedSoFar(c, d, K, q, n, lv, p, med, u, i, x)
  <2>1. L2 = L
    BY <1>1, <1>3
  <2> QED
    BY <1>0, <2>1 DEF FreedSoFar
<1> QED
  BY <1>2, <1>3

\* Indexes are freed in order.
LEMMA FreeAllGood ==
    ASSUME NEW c, NEW K, NEW n \in Nat, NEW lv \in Int, NEW p, NEW med,
           NEW u, NEW i, NEW x \in Int, NEW m \in Nat,
           Good(c, n, lv, p, med, u, i), FreeIn(c.idx, c.media, {}),
           Counted(c, x), K \subseteq DOMAIN c.idx, \A k \in K : k < m
    PROVE  LET d == FreeAll(c, K, m) IN
           /\ Good(d, n, lv, p, med, u, i) /\ FreeIn(d.idx, d.media, {})
           /\ Counted(d, x) /\ Freed(c, d, K)
<1>1. PICK h : /\ h[0] = c /\ h[m] = FreeAll(c, K, m)
               /\ \A j \in 0 .. m - 1 :
                    h[j + 1] = IF j \in K THEN IndexFree(h[j], j) ELSE h[j]
  BY FreeRunGives
<1> DEFINE T(j) == FreedSoFar(c, h[j], K, j, n, lv, p, med, u, i, x)
           S == {j \in Nat : T(j)}
<1>2. 0 \in S
  <2>1. Freed(c, c, {k \in K : k < 0})
    BY FreedNone DEF Good
  <2> QED
    BY <1>1, <2>1 DEF FreedSoFar
<1>3. ASSUME NEW j \in 0 .. m - 1, j \in S PROVE j + 1 \in S
  <2> DEFINE q == j + 1
             d == h[j]
             e == h[q]
  <2>1. q \in Nat /\ q = j + 1 /\ j \in Nat
    OBVIOUS
  <2>2. e = IF j \in K THEN IndexFree(d, j) ELSE d
    BY <1>1
  <2>3. FreedSoFar(c, d, K, j, n, lv, p, med, u, i, x)
    BY <1>3
  <2> HIDE DEF q, d, e
  <2>4. /\ j \in K =>
                FreedSoFar(c, IndexFree(d, j), K, q, n, lv, p, med, u, i, x)
        /\ j \notin K => FreedSoFar(c, d, K, q, n, lv, p, med, u, i, x)
    BY <2>1, <2>3, FreedOneMore
  <2>5. FreedSoFar(c, e, K, q, n, lv, p, med, u, i, x)
    BY <2>2, <2>4
  <2> QED
    BY <2>1, <2>5 DEF q, e
<1>4. m \in S
  <2> HIDE DEF S
  <2> QED
    BY <1>2, <1>3, UpTo
<1>5. {k \in K : k < m} = K
  OBVIOUS
<1> QED
  BY <1>1, <1>4, <1>5 DEF FreedSoFar

\* What FreeEach preserves, and leaves alone.
LEMMA FreeEachGood ==
    ASSUME NEW c, NEW K, NEW n \in Nat, NEW lv \in Int, NEW p, NEW med,
           NEW u, NEW i, NEW x \in Int,
           Good(c, n, lv, p, med, u, i), FreeIn(c.idx, c.media, {}),
           Counted(c, x), K \subseteq DOMAIN c.idx
    PROVE  LET d == FreeEach(c, K) IN
           /\ Good(d, n, lv, p, med, u, i) /\ FreeIn(d.idx, d.media, {})
           /\ Counted(d, x) /\ Freed(c, d, K)
<1> DEFINE e == [c EXCEPT !.cut = 0]
           m == c.next + 1
<1>1. /\ Good(e, n, lv, p, med, u, i) /\ FreeIn(e.idx, e.media, {})
      /\ Counted(e, x) /\ Keeps(c, e, {"cut"})
  BY CutGood
<1>2. m \in Nat /\ \A k \in K : k < m
  BY DEF Good, Chan, Scalars, Order, IdxType
<1>3. FreeEach(c, K) = FreeAll(e, K, m)
  BY DEF FreeEach, FreeAll
<1> DEFINE d == FreeAll(e, K, m)
<1> HIDE DEF e, m
<1>4. K \subseteq DOMAIN e.idx
  BY <1>1 DEF Keeps, Fields
<1>5. /\ Good(d, n, lv, p, med, u, i) /\ FreeIn(d.idx, d.media, {})
      /\ Counted(d, x) /\ Freed(e, d, K)
  BY <1>1, <1>2, <1>4, FreeAllGood
<1> HIDE DEF d
<1>6. Freed(c, d, K)
  <2>1. /\ e.idx = c.idx /\ e.unsaved = c.unsaved /\ e.iw = c.iw
        /\ e.pend = c.pend /\ e.noFree = c.noFree
    BY <1>1 DEF Keeps, Fields
  <2>2. Keeps(c, d, FreeFields)
    BY <1>1, <1>5 DEF Freed, Keeps, Fields, FreeFields
  <2> QED
    BY <1>5, <2>1, <2>2 DEF Freed
<1> QED
  BY <1>3, <1>5, <1>6 DEF d

\* The timeline is cut where a segment was lost.
LEMMA TruncatedGood ==
    ASSUME NEW c, NEW n \in Nat, NEW lv \in Int, NEW p, NEW med, NEW u, NEW i,
           NEW x, Good(c, n, lv, p, med, u, i), FreeIn(c.idx, c.media, {}),
           Counted(c, x)
    PROVE  LET d == Truncated(c) IN
           /\ Good(d, n, lv, p, med, u, i) /\ FreeIn(d.idx, d.media, {})
           /\ Counted(d, x) /\ Keeps(c, d, {"trunc", "cut", "tl", "excused"})
           /\ d.tl \subseteq c.tl
<1> DEFINE d == Truncated(c)
<1> SUFFICES /\ Good(d, n, lv, p, med, u, i) /\ FreeIn(d.idx, d.media, {})
             /\ Counted(d, x) /\ Keeps(c, d, {"trunc", "cut", "tl", "excused"})
             /\ d.tl \subseteq c.tl
  OBVIOUS
<1>1. CASE c.cut = 0
  <2>1. d = c
    BY <1>1 DEF Truncated
  <2> QED
    BY <2>1 DEF Keeps, Good, Chan
<1>2. CASE c.cut # 0
  <2>1. /\ Keeps(c, d, {"trunc", "cut", "tl", "excused"})
        /\ d.trunc = c.cut /\ d.cut = 0 /\ d.tl \subseteq c.tl
        /\ d.excused = Bigger(c.excused, c.cut)
    BY <1>2 DEF Truncated, Keeps, Fields, Good, Chan
  <2> HIDE DEF d
  <2>2. d.excused \in Int
    BY <2>1 DEF Bigger, Good, Chan
  <2>3. Chan(d)
    BY <2>1, <2>2 DEF Good, Chan, Keeps, Fields
  <2>4. /\ d.idx = c.idx /\ d.media = c.media /\ d.iw = c.iw
        /\ d.pend = c.pend /\ d.unsaved = c.unsaved /\ d.health = c.health
        /\ d.conn = c.conn /\ d.connected = c.connected
        /\ d.frames = c.frames /\ d.acked = c.acked
        /\ d.changed = c.changed /\ d.hist = c.hist
        /\ d.snapshots = c.snapshots
    BY <2>1 DEF Keeps, Fields
  <2>5. Scalars(d, n, lv, u)
    <3>1. /\ d.next = c.next /\ d.min = c.min /\ d.lastReady = c.lastReady
          /\ d.success = c.success
      BY <2>1 DEF Keeps, Fields
    <3> QED
      BY <2>1, <2>4, <3>1 DEF Good, Scalars, Chan
  <2>6. Stored(d.idx, d.tl, d.iw, d.unsaved, d.health, med, u, i)
    BY <2>1, <2>4 DEF Good, Stored
  <2>7. FreeIn(d.idx, d.media, {}) /\ Counted(d, x)
    BY <2>4 DEF Counted
  <2> QED
    BY <2>1, <2>3, <2>4, <2>5, <2>6, <2>7 DEF Good
<1> QED
  BY <1>1, <1>2

TrimFields == FreeFields \cup {"trunc", "tl", "excused"}

\* d is c after indexes that are not pending were freed.
NonForced(c, d) ==
    /\ Keeps(c, d, TrimFields)
    /\ DOMAIN d.idx \subseteq DOMAIN c.idx
    /\ \A k \in PendingIn(c.idx) : k \in DOMAIN d.idx /\ d.idx[k] = c.idx[k]
    /\ \A k \in DOMAIN d.idx : d.idx[k].persist = c.idx[k].persist
    /\ c.unsaved \subseteq d.unsaved
    /\ d.tl \subseteq c.tl
    /\ Reframes(c.iw, d.iw) /\ Reframes(c.pend, d.pend)
    /\ c.noFree => DOMAIN d.idx = DOMAIN c.idx

\* What FreeNonForced preserves.
LEMMA FreeNonForcedGood ==
    ASSUME NEW c, NEW n \in Nat, NEW lv \in Int, NEW p, NEW med,
           NEW u, NEW i, NEW x \in Int,
           Good(c, n, lv, p, med, u, i), FreeIn(c.idx, c.media, {}),
           Counted(c, x)
    PROVE  LET d == FreeNonForced(c) IN
           /\ Good(d, n, lv, p, med, u, i) /\ FreeIn(d.idx, d.media, {})
           /\ Counted(d, x) /\ NonForced(c, d)
<1>1. CASE c.lastReady < ForceMemory
  <2>1. FreeNonForced(c) = c
    BY <1>1 DEF FreeNonForced
  <2>2. NonForced(c, c)
    BY DEF NonForced, Keeps, Reframes, Good, Chan, PendingIn
  <2> QED
    BY <2>1, <2>2
<1>2. CASE ~(c.lastReady < ForceMemory)
  <2> DEFINE K == {k \in DOMAIN c.idx \ Pending(c) :
                        k <= c.lastReady - ForceMemory}
             e == FreeEach(c, K)
             d == Truncated(e)
  <2>1. FreeNonForced(c) = d
    BY <1>2 DEF FreeNonForced
  <2>2. K \subseteq DOMAIN c.idx /\ K \cap PendingIn(c.idx) = {}
    BY DEF Pending, PendingIn
  <2> HIDE DEF K
  <2>3. /\ Good(e, n, lv, p, med, u, i) /\ FreeIn(e.idx, e.media, {})
        /\ Counted(e, x) /\ Freed(c, e, K)
    BY <2>2, FreeEachGood
  <2> HIDE DEF e
  <2>4. /\ Good(d, n, lv, p, med, u, i) /\ FreeIn(d.idx, d.media, {})
        /\ Counted(d, x) /\ Keeps(e, d, {"trunc", "cut", "tl", "excused"})
        /\ d.tl \subseteq e.tl
    BY <2>3, TruncatedGood
  <2> HIDE DEF d
  <2>5. NonForced(c, d)
    <3>1. Keeps(c, d, TrimFields)
      BY <2>3, <2>4 DEF Freed, Keeps, Fields, FreeFields, TrimFields
    <3>2. /\ d.idx = e.idx /\ d.unsaved = e.unsaved /\ d.iw = e.iw
          /\ d.pend = e.pend /\ e.tl = c.tl /\ e.noFree = c.noFree
      BY <2>3, <2>4 DEF Freed, Keeps, Fields, FreeFields
    <3>3. \A k \in PendingIn(c.idx) :
                k \in DOMAIN d.idx /\ d.idx[k] = c.idx[k]
      BY <2>2, <2>3, <3>2 DEF Freed, PendingIn
    <3> QED
      BY <2>3, <2>4, <3>1, <3>2, <3>3 DEF NonForced, Freed
  <2> QED
    BY <2>1, <2>4, <2>5
<1> QED
  BY <1>1, <1>2

-----------------------------------------------------------------------------
(* A bucket is done *)

InBucket(idx, b) == {k \in DOMAIN idx : BucketOf(k) = b}

\* d is c after MoveToDone
Moved(c, d, K, ok) ==
    /\ Keeps(c, d, {"idx", "snapshots", "unsaved"})
    /\ IdxType(d.idx) /\ DOMAIN d.idx = DOMAIN c.idx
    /\ \A k \in DOMAIN c.idx \ K : d.idx[k] = c.idx[k]
    /\ \A k \in DOMAIN c.idx \cap K :
        /\ d.idx[k].snap = None /\ d.idx[k].free = c.idx[k].free
        /\ d.idx[k].persist = IF ok THEN "ok" ELSE "error"
    /\ d.unsaved = IF ok THEN c.unsaved ELSE c.unsaved \cup K

\* What MoveToDone does.
LEMMA MoveToDoneDoes ==
    ASSUME NEW c, Chan(c), NEW K \in SUBSET DOMAIN c.idx, NEW snaps,
           NEW ok \in BOOLEAN
    PROVE  /\ Moved(c, MoveToDone(c, K, snaps, ok), K, ok)
           /\ MoveToDone(c, K, snaps, ok).snapshots =
                IF snaps = {} THEN c.snapshots
                ELSE c.snapshots - (Cardinality(snaps) - 1)
<1> DEFINE q == [k \in DOMAIN c.idx |->
                    IF k \in K
                    THEN [c.idx[k] EXCEPT !.snap = None,
                            !.persist = IF ok THEN "ok" ELSE "error"]
                    ELSE c.idx[k]]
           d == MoveToDone(c, K, snaps, ok)
<1>1. /\ Keeps(c, d, {"idx", "snapshots", "unsaved"})
      /\ d.idx = q
      /\ d.unsaved = IF ok THEN c.unsaved ELSE c.unsaved \cup K
      /\ d.snapshots = IF snaps = {} THEN c.snapshots
                       ELSE c.snapshots - (Cardinality(snaps) - 1)
  BY DEF MoveToDone, Keeps, Fields, Chan
<1>2. ASSUME NEW k \in DOMAIN c.idx, k \in K
      PROVE  /\ q[k] \in EntryType /\ q[k].snap = None
             /\ q[k].free = c.idx[k].free
             /\ q[k].persist = IF ok THEN "ok" ELSE "error"
  <2> DEFINE y == [c.idx[k] EXCEPT !.snap = None,
                        !.persist = IF ok THEN "ok" ELSE "error"]
  <2>1. c.idx[k] \in EntryType /\ None \in Opt(SnapType)
    BY DEF Chan, IdxType, Opt
  <2>2. /\ y \in EntryType /\ y.snap = None /\ y.free = c.idx[k].free
        /\ y.persist = IF ok THEN "ok" ELSE "error"
    BY <2>1 DEF EntryType
  <2> HIDE DEF y
  <2>3. q[k] = y
    BY <1>2 DEF y
  <2> QED
    BY <2>2, <2>3
<1>3. \A k \in DOMAIN c.idx \ K : q[k] = c.idx[k]
  OBVIOUS
<1>4. DOMAIN q = DOMAIN c.idx
  OBVIOUS
<1> HIDE DEF q, d
<1>5. IdxType(q)
  BY <1>2, <1>3, <1>4 DEF IdxType, Chan
<1>6. Moved(c, d, K, ok)
  BY <1>1, <1>2, <1>3, <1>4, <1>5 DEF Moved
<1> QED
  BY <1>1, <1>6 DEF d

\* The write of the bucket b, of the indexes K, ended; it was the only one.
Ends(c, K, b, ok, X, p, med) ==
    /\ ok \in BOOLEAN /\ p \in Int /\ K = InBucket(c.idx, b) /\ b < p
    /\ \A w \in c.media : w.bucket # b
    /\ FreeIn(c.idx, c.media, X) /\ X \subseteq K
    /\ ok => K \subseteq med \cup c.unsaved

\* Its indexes are pending no more.
LEMMA MovedGood ==
    ASSUME NEW c, NEW d, NEW K, NEW b, NEW ok, NEW X,
           NEW n \in Nat, NEW lv \in Int, NEW p, NEW med, NEW u,
           NEW i, Good(c, n, lv, p, med, u, i),
           Ends(c, K, b, ok, X, p, med),
           Moved(c, d, K, ok), d.snapshots \in Int
    PROVE  /\ Good(d, n, lv, p, med, u, i) /\ FreeIn(d.idx, d.media, {})
           /\ HeldIn(d.idx) = HeldIn(c.idx) \ K
           /\ PendingIn(d.idx) = PendingIn(c.idx) \ K
<1> DEFINE q == d.idx
           P == PendingIn(c.idx)
           Q == PendingIn(q)
<1>1. /\ d.tl = c.tl /\ d.media = c.media /\ d.iw = c.iw /\ d.pend = c.pend
      /\ d.health = c.health /\ d.conn = c.conn
      /\ d.connected = c.connected /\ d.frames = c.frames
      /\ d.changed = c.changed /\ d.hist = c.hist /\ d.acked = c.acked
  BY DEF Moved, Keeps, Fields
<1> USE DEF Ends
<1>2. /\ DOMAIN q = DOMAIN c.idx /\ IdxType(q) /\ K \subseteq DOMAIN c.idx
      /\ \A k \in DOMAIN c.idx \ K : q[k] = c.idx[k]
      /\ \A k \in K : /\ q[k].snap = None
                      /\ q[k].persist = IF ok THEN "ok" ELSE "error"
      /\ d.unsaved = IF ok THEN c.unsaved ELSE c.unsaved \cup K
  BY DEF Moved, InBucket
<1>3. /\ HeldIn(q) = HeldIn(c.idx) \ K /\ Q = P \ K
      /\ K \subseteq med \cup d.unsaved /\ c.unsaved \subseteq d.unsaved
      /\ HeldIn(c.idx) \subseteq DOMAIN c.idx /\ P \subseteq DOMAIN c.idx
  BY <1>2 DEF HeldIn, PendingIn
<1>4. Chan(d)
  <2>1. K \subseteq Nat
    BY <1>2 DEF IdxType
  <2> QED
    BY <1>2, <2>1 DEF Good, Chan, Moved, Keeps, Fields
<1>5. Scalars(d, n, lv, u)
  <2>1. /\ d.next = c.next /\ d.min = c.min /\ d.trunc = c.trunc
        /\ d.lastReady = c.lastReady /\ d.success = c.success
        /\ d.cut = c.cut
    BY DEF Moved, Keeps, Fields
  <2>2. Scalars(c, n, lv, u)
    BY DEF Good
  <2> QED
    BY <1>1, <2>1, <2>2 DEF Scalars
<1> HIDE DEF q, P, Q
<1>6. Order(q, d.iw, d.pend, n, lv)
  <2>1. Order(c.idx, c.iw, c.pend, n, lv)
    BY DEF Good
  <2>2. /\ \A j \in DOMAIN q : j < n
        /\ HeldIn(q) \subseteq Q
        /\ \A j \in Q : lv < j
    BY <1>2, <1>3, <2>1 DEF Order, P
  <2>3. \A j \in HeldIn(q) : HeldOK(q, j, n)
    <3> SUFFICES ASSUME NEW j \in HeldIn(q) PROVE HeldOK(q, j, n)
      OBVIOUS
    <3>1. HeldOK(c.idx, j, n) /\ q[j] = c.idx[j]
      BY <1>2, <1>3, <2>1 DEF Order
    <3> QED
      BY <1>3, <3>1 DEF HeldOK, P, Q
  <2>4. \A f : WriteOK(c.idx, f, n, lv) => WriteOK(q, f, n, lv)
    BY <1>3 DEF WriteOK, P, Q
  <2> QED
    BY <1>1, <2>1, <2>2, <2>3, <2>4 DEF Order, Q
<1>7. Flight(q, d.media, p, med)
  <2>1. Flight(c.idx, c.media, p, med)
    BY DEF Good
  <2>2. ASSUME NEW w \in c.media PROVE FlightOK(q, w, p, med)
    <3>1. FlightOK(c.idx, w, p, med)
      BY <2>1 DEF Flight
    <3>2. w.at \notin K
      BY <3>1 DEF FlightOK, InBucket
    <3>3. w.at \in Q
      BY <1>3, <3>1, <3>2 DEF FlightOK, P
    <3> QED
      BY <1>2, <3>1, <3>3 DEF FlightOK, Q
  <2>3. \A j \in DOMAIN q : j \in Q \/ BucketOf(j) < p
    <3> SUFFICES ASSUME NEW j \in DOMAIN q, j \notin Q PROVE BucketOf(j) < p
      OBVIOUS
    <3>1. CASE j \in K
      BY <3>1 DEF InBucket
    <3>2. CASE j \notin P
      BY <1>2, <2>1, <3>2 DEF Flight, P
    <3> QED
      BY <1>3, <3>1, <3>2
  <2> QED
    BY <1>1, <2>1, <2>2, <2>3 DEF Flight, Q
<1>8. Stored(q, d.tl, d.iw, d.unsaved, d.health, med, u, i)
  <2>1. Stored(c.idx, c.tl, c.iw, c.unsaved, c.health, med, u, i)
    BY DEF Good
  <2>2. \A j \in DOMAIN q : q[j].persist = "ok" => j \in med \cup d.unsaved
    BY <1>2, <1>3, <2>1 DEF Stored
  <2>3. \A j \in P : j \in Q \cup med \cup d.unsaved
    BY <1>3
  <2>4. ASSUME c.health # "stale"
        PROVE \A j \in c.tl : j \in med \cup d.unsaved \cup Q \cup u
    BY <1>3, <2>1, <2>3, <2>4 DEF Stored, P
  <2> QED
    BY <1>1, <1>3, <2>1, <2>2, <2>4 DEF Stored, Q
<1>9. Known(q, d.iw, d.pend, d.conn, d.connected, d.frames, d.acked)
  <2>1. \A j \in HeldIn(q) : j \in HeldIn(c.idx) /\ q[j] = c.idx[j]
    BY <1>2, <1>3
  <2> QED
    BY <1>1, <2>1 DEF Good, Known
<1>10. History(d.iw, d.changed, d.hist, d.health, i)
  BY <1>1 DEF Good
<1>11. FreeIn(q, d.media, {})
  <2> SUFFICES ASSUME NEW j \in Q, q[j].free PROVE FlightAt(c.media, j)
    BY <1>1 DEF FreeIn, Q
  <2>1. j \in P /\ j \notin K /\ q[j] = c.idx[j]
    BY <1>2, <1>3
  <2> QED
    BY <2>1 DEF FreeIn, P
<1> QED
  BY <1>3, <1>4, <1>5, <1>6, <1>7, <1>8, <1>9, <1>10, <1>11 DEF Good, q, P, Q

\* d is c after MoveToDone, and all is good.
Emptied(c, d, K, ok, snaps, n, lv, p, med, u, i) ==
    /\ Good(d, n, lv, p, med, u, i) /\ FreeIn(d.idx, d.media, {})
    /\ Moved(c, d, K, ok) /\ PendingIn(d.idx) = PendingIn(c.idx) \ K
    /\ snaps = {} => Counted(d, 0)
    /\ snaps # {} => Counted(d, 1)

\* The snapshots of a bucket that is done are counted no more, but the last.
LEMMA MoveToDoneGood ==
    ASSUME NEW c, NEW K, NEW b, NEW ok, NEW X, NEW snaps,
           NEW n \in Nat, NEW lv \in Int, NEW p, NEW med, NEW u,
           NEW i, Good(c, n, lv, p, med, u, i),
           Ends(c, K, b, ok, X, p, med),
           snaps = HeldIn(c.idx) \cap K, Counted(c, 0)
    PROVE  Emptied(c, MoveToDone(c, K, snaps, ok), K, ok, snaps,
                   n, lv, p, med, u, i)
<1> DEFINE d == MoveToDone(c, K, snaps, ok)
           h == Cardinality(HeldIn(c.idx))
           g == Cardinality(HeldIn(d.idx))
           t == Cardinality(snaps)
           a == Len(c.iw)
           r == Len(c.pend)
<1>1. Chan(c) /\ K \in SUBSET DOMAIN c.idx /\ ok \in BOOLEAN
  BY DEF Good, InBucket, Ends
<1>2. /\ Moved(c, d, K, ok)
      /\ d.snapshots = IF snaps = {} THEN c.snapshots
                       ELSE c.snapshots - (t - 1)
  BY <1>1, MoveToDoneDoes
<1> HIDE DEF d
<1>3. /\ h \in Nat /\ a \in {0, 1} /\ r \in {0, 1}
      /\ IsFiniteSet(HeldIn(c.idx))
  BY <1>1, CountedAre, HeldFinite DEF Good, Order, Chan
<1>4. t \in Nat
  <2>1. snaps \subseteq HeldIn(c.idx)
    OBVIOUS
  <2> QED
    BY <1>3, <2>1, FS_Subset, FS_CardinalityType
<1>5. d.snapshots \in Int
  <2> HIDE DEF t
  <2> QED
    BY <1>1, <1>2, <1>4 DEF Chan
<1>6. /\ Good(d, n, lv, p, med, u, i) /\ FreeIn(d.idx, d.media, {})
      /\ HeldIn(d.idx) = HeldIn(c.idx) \ K
      /\ PendingIn(d.idx) = PendingIn(c.idx) \ K
  BY <1>2, <1>5, MovedGood
<1>7. g = h - t /\ g \in Nat
  <2>1. g = h - t
    <3> DEFINE H == HeldIn(c.idx)
    <3>1. IsFiniteSet(H)
      BY <1>3
    <3> HIDE DEF H
    <3>2. Cardinality(H \ K) = Cardinality(H) - Cardinality(H \cap K)
      BY <3>1, FS_Difference
    <3> QED
      BY <1>6, <3>2 DEF H
  <2>2. g \in Nat
    BY <1>6, HeldFinite DEF Good, Chan, Order
  <2> QED
    BY <2>1, <2>2
<1>8. c.snapshots = h + a + r + 0 /\ d.iw = c.iw /\ d.pend = c.pend
  BY <1>2 DEF Counted, Count, Moved, Keeps, Fields
<1>9. snaps = {} => t = 0
  BY FS_EmptySet
<1>10. snaps = {} => d.snapshots = g + a + r + 0
  <2> HIDE DEF g, h, t, a, r
  <2> QED
    BY <1>2, <1>3, <1>7, <1>8, <1>9
<1>11. snaps # {} => d.snapshots = g + a + r + 1
  <2> HIDE DEF g, h, t, a, r
  <2> QED
    BY <1>2, <1>3, <1>4, <1>7, <1>8
<1> QED
  BY <1>2, <1>6, <1>8, <1>10, <1>11 DEF Emptied, Counted, Count, d

-----------------------------------------------------------------------------
(* The last snapshot of a bucket goes on *)

\* the end of SnapPassed, when a bucket before is not done
SnapPut(c, k, s) ==
    [IF c.idx[k].snap # None
     THEN FramesClose(c, c.idx[k].snap[1].frames, FALSE) ELSE c
        EXCEPT !.idx[k].snap = Some(s)]

\* q is idx, with s at k
PutIn(idx, q, k, s) ==
    /\ IdxType(q) /\ DOMAIN q = DOMAIN idx
    /\ \A j \in DOMAIN idx \ {k} : q[j] = idx[j]
    /\ q[k].persist = idx[k].persist /\ q[k].free = idx[k].free
    /\ q[k].snap # None /\ q[k].snap[1] = s

\* What it does.
LEMMA SnapPutDoes ==
    ASSUME NEW c, Chan(c), NEW k \in DOMAIN c.idx, NEW s \in SnapType
    PROVE  LET d == SnapPut(c, k, s) IN
           /\ Keeps(c, d, {"idx", "snapshots"})
           /\ PutIn(c.idx, d.idx, k, s)
           /\ d.snapshots = IF c.idx[k].snap # None THEN c.snapshots - 1
                            ELSE c.snapshots
<1> DEFINE e == IF c.idx[k].snap # None
                THEN FramesClose(c, c.idx[k].snap[1].frames, FALSE) ELSE c
           d == SnapPut(c, k, s)
           y == [c.idx[k] EXCEPT !.snap = Some(s)]
<1>1. /\ Keeps(c, e, {"snapshots"})
      /\ e.snapshots = IF c.idx[k].snap # None THEN c.snapshots - 1
                       ELSE c.snapshots
  <2>1. CASE c.idx[k].snap = None
    BY <2>1 DEF Keeps, Chan
  <2>2. CASE c.idx[k].snap # None
    <3> DEFINE f == c.idx[k].snap[1].frames
    <3>1. f \in FrameType
      BY <2>2, EntryHas, SnapHas DEF Chan, IdxType
    <3> HIDE DEF f
    <3>2. Closed(c, FramesClose(c, f, FALSE), f, FALSE)
      BY <3>1, FramesCloseDoes
    <3>3. e = FramesClose(c, f, FALSE)
      BY <2>2 DEF f
    <3> HIDE DEF e
    <3> QED
      BY <2>2, <3>2, <3>3 DEF Closed, Keeps, Fields
  <2> QED
    BY <2>1, <2>2
<1>2. d = [e EXCEPT !.idx[k].snap = Some(s)]
  BY DEF SnapPut
<1> HIDE DEF e, d
<1>3. e.idx = c.idx
  BY <1>1 DEF Keeps, Fields
<1>4. Keeps(c, d, {"idx", "snapshots"}) /\ d.idx = [c.idx EXCEPT ![k] = y]
      /\ d.snapshots = e.snapshots
  BY <1>1, <1>2, <1>3 DEF Keeps, Fields
<1>5. /\ y \in EntryType /\ y.persist = c.idx[k].persist
      /\ y.free = c.idx[k].free /\ y.snap # None /\ y.snap[1] = s
  <2>1. /\ Some(s) \in Opt(SnapType) /\ Some(s) # None /\ Some(s)[1] = s
    BY OptSome
  <2>2. c.idx[k] \in EntryType
    BY DEF Chan, IdxType
  <2> QED
    BY <2>1, <2>2 DEF EntryType
<1> HIDE DEF y
<1>6. PutIn(c.idx, d.idx, k, s)
  BY <1>4, <1>5 DEF PutIn, Chan, IdxType
<1> QED
  BY <1>1, <1>4, <1>6 DEF d

\* The snapshot s of a bucket that is done may go on; before has the indexes
\* of the buckets before that are not.
Passable(c, s, before, n, lv) ==
    /\ s \in SnapType
    /\ FrameOK(s.frames, c.conn, c.connected, c.frames)
    /\ lv < s.max /\ s.max < n /\ s.trunc <= s.max
    /\ c.iw # None => c.iw[1].max < s.max
    /\ c.pend # None => c.pend[1].max < s.max
    /\ before \subseteq PendingIn(c.idx)
    /\ \A j \in PendingIn(c.idx) : j \in before \/ s.max < j
    /\ \A j \in before : j < s.max

\* It is put at the last of these.
LEMMA SnapPutGood ==
    ASSUME NEW c, NEW s, NEW before, NEW k \in before, NEW n \in Nat,
           NEW lv \in Int, NEW p, NEW med, NEW u, NEW i,
           Good(c, n, lv, p, med, u, i), FreeIn(c.idx, c.media, {}),
           Counted(c, 1), Passable(c, s, before, n, lv),
           \A j \in before : j <= k
    PROVE  LET d == SnapPut(c, k, s) IN
           /\ Good(d, n, lv, p, med, u, i) /\ FreeIn(d.idx, d.media, {})
           /\ Counted(d, 0) /\ Keeps(c, d, {"idx", "snapshots"})
<1> DEFINE d == SnapPut(c, k, s)
           q == d.idx
           P == PendingIn(c.idx)
<1>1. /\ Chan(c) /\ s \in SnapType /\ k \in DOMAIN c.idx /\ k \in P
      /\ s.max \in Nat /\ s.trunc \in Nat
  BY DEF Good, Passable, PendingIn, SnapType
<1>2. /\ Keeps(c, d, {"idx", "snapshots"})
      /\ PutIn(c.idx, q, k, s)
      /\ d.snapshots = IF c.idx[k].snap # None THEN c.snapshots - 1
                       ELSE c.snapshots
  BY <1>1, SnapPutDoes
<1> HIDE DEF d
<1>3. /\ d.tl = c.tl /\ d.media = c.media /\ d.iw = c.iw /\ d.pend = c.pend
      /\ d.health = c.health /\ d.conn = c.conn
      /\ d.connected = c.connected /\ d.frames = c.frames
      /\ d.changed = c.changed /\ d.hist = c.hist /\ d.acked = c.acked
      /\ d.unsaved = c.unsaved
  BY <1>2 DEF Keeps, Fields
<1>4. /\ DOMAIN q = DOMAIN c.idx /\ IdxType(q)
      /\ \A j \in DOMAIN c.idx \ {k} : q[j] = c.idx[j]
      /\ q[k].persist = c.idx[k].persist /\ q[k].free = c.idx[k].free
      /\ q[k].snap # None /\ q[k].snap[1] = s
  BY <1>2 DEF PutIn
<1> HIDE DEF q
<1>5. /\ HeldIn(q) = HeldIn(c.idx) \cup {k} /\ PendingIn(q) = P
      /\ \A j \in DOMAIN q : /\ q[j].persist = c.idx[j].persist
                             /\ q[j].free = c.idx[j].free
  <2>1. \A j \in DOMAIN q : /\ q[j].persist = c.idx[j].persist
                            /\ q[j].free = c.idx[j].free
    BY <1>4
  <2>2. \A j \in DOMAIN q : j \in HeldIn(q) <=> j \in HeldIn(c.idx) \/ j = k
    BY <1>1, <1>4 DEF HeldIn
  <2>3. HeldIn(q) \subseteq DOMAIN q /\ HeldIn(c.idx) \subseteq DOMAIN q
        /\ k \in DOMAIN q
    BY <1>1, <1>4 DEF HeldIn
  <2>4. HeldIn(q) = HeldIn(c.idx) \cup {k}
    BY <2>2, <2>3
  <2>5. PendingIn(q) = P
    BY <1>4, <2>1 DEF PendingIn
  <2> QED
    BY <2>1, <2>4, <2>5
<1> HIDE DEF P
<1>6. Chan(d)
  <2>1. d.snapshots \in Int
    BY <1>1, <1>2 DEF Chan
  <2> QED
    BY <1>1, <1>2, <1>4, <2>1 DEF Chan, Keeps, Fields, q
<1>7. Scalars(d, n, lv, u)
  <2>1. /\ d.next = c.next /\ d.min = c.min /\ d.trunc = c.trunc
        /\ d.lastReady = c.lastReady /\ d.success = c.success
        /\ d.cut = c.cut
    BY <1>2 DEF Keeps, Fields
  <2> QED
    BY <1>3, <2>1 DEF Scalars, Good
<1>8. Order(q, d.iw, d.pend, n, lv)
  <2>1. Order(c.idx, c.iw, c.pend, n, lv)
    BY DEF Good
  <2>2. ASSUME NEW j \in HeldIn(q), j # k PROVE HeldOK(q, j, n)
    <3>1. j \in HeldIn(c.idx) /\ j \in DOMAIN q
      BY <1>4, <1>5, <2>2 DEF HeldIn
    <3>2. HeldOK(c.idx, j, n) /\ q[j] = c.idx[j]
      BY <1>4, <2>1, <2>2, <3>1 DEF Order
    <3> QED
      BY <1>5, <3>2 DEF HeldOK, P
  <2>3. HeldOK(q, k, n)
    <3>1. \A j \in P : j <= k \/ s.max < j
      BY DEF Passable, P
    <3>2. k < s.max /\ s.max < n /\ s.trunc <= s.max /\ k \in Nat
      BY <1>1 DEF Passable, Chan, IdxType
    <3> QED
      BY <1>1, <1>4, <1>5, <3>1, <3>2 DEF HeldOK
  <2>4. \A f : WriteOK(c.idx, f, n, lv) => WriteOK(q, f, n, lv)
    BY <1>5 DEF WriteOK, P
  <2>5. /\ \A j \in DOMAIN q : j < n
        /\ HeldIn(q) \subseteq PendingIn(q)
        /\ \A j \in PendingIn(q) : lv < j
    BY <1>1, <1>4, <1>5, <2>1 DEF Order, P
  <2> QED
    BY <1>3, <2>1, <2>2, <2>3, <2>4, <2>5 DEF Order
<1>9. Flight(q, d.media, p, med)
  <2>1. Flight(c.idx, c.media, p, med)
    BY DEF Good
  <2>2. \A w : FlightOK(c.idx, w, p, med) => FlightOK(q, w, p, med)
    BY <1>4, <1>5 DEF FlightOK, P
  <2> QED
    BY <1>3, <1>4, <1>5, <2>1, <2>2 DEF Flight, P
<1>10. Stored(q, d.tl, d.iw, d.unsaved, d.health, med, u, i)
  <2>1. Stored(c.idx, c.tl, c.iw, c.unsaved, c.health, med, u, i)
    BY DEF Good
  <2> QED
    BY <1>3, <1>4, <1>5, <2>1 DEF Stored, P
<1>11. Known(q, d.iw, d.pend, d.conn, d.connected, d.frames, d.acked)
  <2>1. \A j \in HeldIn(q) :
            j = k \/ (j \in HeldIn(c.idx) /\ q[j] = c.idx[j])
    BY <1>4, <1>5 DEF HeldIn
  <2>2. FrameOK(q[k].snap[1].frames, d.conn, d.connected, d.frames)
    BY <1>3, <1>4 DEF Passable
  <2> QED
    BY <1>3, <2>1, <2>2 DEF Good, Known
<1>12. History(d.iw, d.changed, d.hist, d.health, i)
  BY <1>3 DEF Good
<1>13. FreeIn(q, d.media, {})
  BY <1>3, <1>4, <1>5 DEF FreeIn, P, PendingIn
<1>14. Counted(d, 0)
  <2> DEFINE h == Cardinality(HeldIn(c.idx))
             g == Cardinality(HeldIn(q))
             a == Len(c.iw)
             r == Len(c.pend)
  <2>1. /\ h \in Nat /\ a \in {0, 1} /\ r \in {0, 1}
        /\ IsFiniteSet(HeldIn(c.idx))
    BY <1>1, CountedAre, HeldFinite DEF Good, Order, Chan
  <2>2. c.snapshots = h + a + r + 1
    BY DEF Counted, Count
  <2>3. CASE c.idx[k].snap # None
    <3>1. HeldIn(q) = HeldIn(c.idx)
      BY <1>1, <1>5, <2>3 DEF HeldIn
    <3>2. d.snapshots = c.snapshots - 1
      BY <1>2, <2>3
    <3> HIDE DEF h, g, a, r
    <3>3. d.snapshots = h + a + r + 0
      BY <2>1, <2>2, <3>2
    <3> QED
      BY <1>3, <3>1, <3>3 DEF Counted, Count, h, a, r, q
  <2>4. CASE c.idx[k].snap = None
    <3>1. k \notin HeldIn(c.idx)
      BY <2>4 DEF HeldIn
    <3>2. g = h + 1
      <4> DEFINE H == HeldIn(c.idx)
      <4>1. IsFiniteSet(H) /\ k \notin H
        BY <2>1, <3>1
      <4> HIDE DEF H
      <4>2. Cardinality(H \cup {k}) = Cardinality(H) + 1
        BY <4>1, FS_AddElement
      <4> QED
        BY <1>5, <4>2 DEF H
    <3>3. d.snapshots = c.snapshots
      BY <1>2, <2>4
    <3> HIDE DEF h, g, a, r
    <3>4. d.snapshots = g + a + r + 0
      BY <2>1, <2>2, <3>2, <3>3
    <3> QED
      BY <1>3, <3>4 DEF Counted, Count, g, a, r, q
  <2> QED
    BY <2>3, <2>4
<1> QED
  BY <1>2, <1>3, <1>6, <1>7, <1>8, <1>9, <1>10, <1>11, <1>12, <1>13, <1>14
     DEF Good, d, q

PassFields ==
    {"idx", "snapshots", "acked", "iw", "pend", "changed", "health",
     "excused"}

\* d is c after the last snapshot of a bucket went on.
Passed(c, d, n, lv, p, med, u, i) ==
    /\ Good(d, n, lv, p, med, u, i) /\ FreeIn(d.idx, d.media, {})
    /\ Counted(d, 0) /\ Keeps(c, d, PassFields)
    /\ DOMAIN d.idx = DOMAIN c.idx
    /\ \A k \in DOMAIN d.idx : d.idx[k].persist = c.idx[k].persist

\* It is acked, written or put at an index before.
LEMMA SnapPassedGood ==
    ASSUME NEW c, NEW s, NEW before, NEW hi, NEW ok \in BOOLEAN,
           NEW n \in Nat, NEW lv \in Int, NEW p, NEW med, NEW u, NEW i,
           Good(c, n, lv, p, med, u, i), FreeIn(c.idx, c.media, {}),
           Counted(c, 1), Passable(c, s, before, n, lv)
    PROVE  Passed(c, SnapPassed(c, s, before, hi, ok), n, lv, p, med, u, i)
<1> DEFINE d == SnapPassed(c, s, before, hi, ok)
<1>0. Chan(c) /\ s \in SnapType /\ s.max \in Nat /\ c.excused \in Int
  BY DEF Good, Passable, Chan, SnapType
<1>1. CASE ~ok /\ s.max < hi
  <2> DEFINE e == SnapAck(c, s)
  <2>1. d = [e EXCEPT !.excused = Bigger(@, s.max)]
    BY <1>1 DEF SnapPassed
  <2>2. SnapAcked(c, e, s.frames)
    BY <1>0, SnapAckDoes
  <2>3. Good(e, n, lv, p, med, u, i) /\ Counted(e, 0)
    <3> DEFINE x == 0
               y == 1
    <3>1. OneMore(x, y) /\ Counted(c, y)
      BY OneMoreZero
    <3>2. FrameOK(s.frames, c.conn, c.connected, c.frames)
      BY DEF Passable
    <3> HIDE DEF x, y, e
    <3>3. Good(SnapAck(c, s), n, lv, p, med, u, i)
          /\ Counted(SnapAck(c, s), x)
      BY <1>0, <3>1, <3>2, SnapAckGood
    <3> QED
      BY <3>3 DEF x, e
  <2> HIDE DEF e, d
  <2>4. /\ Keeps(e, d, {"excused"}) /\ d.excused = Bigger(e.excused, s.max)
    BY <2>1, <2>2 DEF SnapAcked, Keeps, Fields
  <2>5. Beside(e, d)
    BY <2>4 DEF Beside, Keeps, Fields
  <2>6. d.excused \in Int
    BY <1>0, <2>3, <2>4 DEF Bigger, Good, Chan
  <2>7. Chan(d)
    BY <2>3, <2>4, <2>6 DEF Good, Chan, Keeps, Fields
  <2>8. Scalars(d, n, lv, u)
    <3>1. /\ d.next = e.next /\ d.min = e.min /\ d.trunc = e.trunc
          /\ d.lastReady = e.lastReady /\ d.success = e.success
          /\ d.cut = e.cut /\ d.tl = e.tl /\ d.iw = e.iw
      BY <2>4 DEF Keeps, Fields
    <3> QED
      BY <2>3, <3>1 DEF Good, Scalars
  <2>9. Good(d, n, lv, p, med, u, i)
    BY <2>3, <2>5, <2>7, <2>8, AsideGood
  <2>10. e.idx = c.idx /\ e.media = c.media
    BY <2>2 DEF SnapAcked, Keeps, Fields
  <2>11. FreeIn(d.idx, d.media, {}) /\ Counted(d, 0)
         /\ d.idx = c.idx
    BY <2>3, <2>5, <2>10 DEF Beside, Counted
  <2>12. Keeps(c, d, PassFields)
    BY <2>2, <2>4 DEF SnapAcked, Keeps, Fields, PassFields
  <2> QED
    BY <2>9, <2>11, <2>12 DEF Passed, d
<1>2. CASE ~(~ok /\ s.max < hi) /\ before = {}
  <2>1. d = SnapWrite(c, s)
    BY <1>2 DEF SnapPassed
  <2>2. Writable(c, s, n, lv)
    BY <1>2 DEF Passable, Writable, WriteOK
  <2>3. Good(d, n, lv, p, med, u, i) /\ Counted(d, 0)
    BY <2>1, <2>2, SnapWriteGood
  <2>4. Keeps(c, d, {"snapshots", "acked", "iw", "pend", "changed", "health"})
    BY <1>0, <2>1, SnapWriteKeeps
  <2> HIDE DEF d
  <2>5. d.idx = c.idx /\ d.media = c.media /\ Keeps(c, d, PassFields)
    BY <2>4 DEF Keeps, Fields, PassFields
  <2>6. Passed(c, d, n, lv, p, med, u, i)
    BY <2>3, <2>5 DEF Passed
  <2> QED
    BY <2>6 DEF d
<1>3. CASE ~(~ok /\ s.max < hi) /\ before # {}
  <2> DEFINE k == Max(before)
  <2>1. d = SnapPut(c, k, s)
    BY <1>3 DEF SnapPassed, SnapPut
  <2>2. before \subseteq 0 .. n
    BY DEF Passable, PendingIn, Good, Order, Chan, IdxType
  <2>3. k \in before /\ \A j \in before : j <= k
    BY <1>3, <2>2, MaxGreatest
  <2> HIDE DEF k
  <2>4. /\ Good(d, n, lv, p, med, u, i) /\ FreeIn(d.idx, d.media, {})
        /\ Counted(d, 0) /\ Keeps(c, d, {"idx", "snapshots"})
    BY <2>1, <2>3, SnapPutGood
  <2>5. /\ DOMAIN d.idx = DOMAIN c.idx
        /\ \A j \in DOMAIN d.idx : d.idx[j].persist = c.idx[j].persist
    <3>1. k \in DOMAIN c.idx
      BY <2>3 DEF Passable, PendingIn
    <3>2. PutIn(c.idx, SnapPut(c, k, s).idx, k, s)
      BY <1>0, <3>1, SnapPutDoes
    <3>3. PutIn(c.idx, d.idx, k, s)
      BY <2>1, <3>2
    <3> HIDE DEF d
    <3> QED
      BY <3>3 DEF PutIn
  <2> HIDE DEF d
  <2>6. Keeps(c, d, PassFields)
    BY <2>4 DEF Keeps, Fields, PassFields
  <2>7. Passed(c, d, n, lv, p, med, u, i)
    BY <2>4, <2>5, <2>6 DEF Passed
  <2> QED
    BY <2>7 DEF d
<1> QED
  BY <1>1, <1>2, <1>3

-----------------------------------------------------------------------------
(* The end of the write of a bucket *)

\* Between two indexes of a bucket there are only indexes of it.
LEMMA BucketBetween ==
    ASSUME NEW k \in Nat, NEW l \in Nat, NEW j \in Nat, k <= l, l <= j,
           BucketOf(k) = BucketOf(j)
    PROVE  BucketOf(l) = BucketOf(k)
<1> DEFINE b == BucketSize
           q == k \div b
           Q == q * b
<1>1. b \in Nat \ {0}
  BY SegmentPersistAssumption
<1>2. q \in Nat /\ Q \in Nat
  <2>1. q \in Nat
    BY <1>1, Division
  <2> HIDE DEF q
  <2> QED
    BY <1>1, <2>1, Product
<1>3. k \div b = q /\ j \div b = q
  BY DEF BucketOf
<1> HIDE DEF b, q
<1>4. q * b <= k /\ k < q * b + b /\ q * b <= j /\ j < q * b + b
  BY <1>1, <1>2, <1>3, DivisionInterval
<1> HIDE DEF Q
<1>5. Q <= l /\ l < Q + b
  <2>1. Q <= k /\ j < Q + b
    BY <1>4 DEF Q
  <2> QED
    BY <1>1, <1>2, <2>1
<1>6. l \div b = q
  <2>1. q * b <= l /\ l < q * b + b
    BY <1>5 DEF Q
  <2> QED
    BY <1>1, <1>2, <2>1, DivisionInterval
<1> QED
  BY <1>6 DEF BucketOf, b, q

\* The last snapshot of the bucket b goes on from there.
LEMMA LastSnapPassable ==
    ASSUME NEW c, NEW e, NEW g, NEW K, NEW b, NEW ok, NEW X, NEW j, NEW s,
           NEW before, NEW n \in Nat, NEW lv \in Int, NEW p, NEW med, NEW u,
           NEW i, Good(c, n, lv, p, med, u, i),
           Ends(c, K, b, ok, X, p, med), Moved(c, e, K, ok),
           PendingIn(e.idx) = PendingIn(c.idx) \ K, NonForced(e, g),
           j \in HeldIn(c.idx) \cap K, s = c.idx[j].snap[1],
           before = {k \in PendingIn(c.idx) : k < Min(K)}
    PROVE  Passable(g, s, before, n, lv)
<1> DEFINE P == PendingIn(c.idx)
           m == Min(K)
<1>1. /\ HeldOK(c.idx, j, n) /\ j \in P /\ P \subseteq Nat /\ lv < j
      /\ K \subseteq Nat /\ j \in K /\ j \in Nat
  BY DEF Good, Order, HeldIn, PendingIn, Chan, IdxType, Ends, InBucket
<1>2. m \in K /\ \A l \in K : m <= l
  BY <1>1, MinLeast
<1>3. s \in SnapType /\ s.max \in Nat
  <2>1. c.idx[j] \in EntryType /\ c.idx[j].snap # None
    BY DEF Good, Chan, IdxType, HeldIn
  <2> QED
    BY <2>1, EntryHas, SnapHas
<1>4. PendingIn(g.idx) = P \ K
  <2>1. PendingIn(g.idx) = PendingIn(e.idx)
    BY DEF NonForced, PendingIn
  <2> QED
    BY <2>1
<1>5. /\ j <= s.max /\ s.max < n /\ s.trunc <= s.max
      /\ \A l \in P : l <= j \/ s.max < l
  BY <1>1 DEF HeldOK
<1>6. FrameOK(s.frames, g.conn, g.connected, g.frames)
  <2>1. FrameOK(s.frames, c.conn, c.connected, c.frames)
    BY DEF Good, Known
  <2>2. g.conn = c.conn /\ g.connected = c.connected /\ g.frames = c.frames
    BY DEF Moved, NonForced, Keeps, Fields, TrimFields, FreeFields
  <2> QED
    BY <2>1, <2>2
<1>7. /\ g.iw # None => c.iw # None /\ g.iw[1].max = c.iw[1].max
      /\ g.pend # None => c.pend # None /\ g.pend[1].max = c.pend[1].max
  <2>1. e.iw = c.iw /\ e.pend = c.pend
    BY DEF Moved, Keeps, Fields
  <2> QED
    BY <2>1 DEF NonForced, Reframes
<1>8. /\ g.iw # None => g.iw[1].max < s.max
      /\ g.pend # None => g.pend[1].max < s.max
  <2>1. /\ c.iw # None => c.iw[1].max < j /\ c.iw[1].max \in Nat
        /\ c.pend # None => c.pend[1].max < j /\ c.pend[1].max \in Nat
    BY <1>1, SnapHas, FileHas DEF Good, Chan, Order, WriteOK
  <2> QED
    BY <1>1, <1>3, <1>5, <1>7, <2>1
<1>12. before = {l \in P : l < m}
  OBVIOUS
<1> HIDE DEF m
<1>9. before \subseteq P \ K
  BY <1>1, <1>2, <1>12
<1>10. ASSUME NEW l \in P \ K PROVE l \in before \/ s.max < l
  <2> SUFFICES ASSUME l <= j, ~(l < m) PROVE FALSE
    BY <1>5, <1>10, <1>12
  <2>1. m \in Nat /\ l \in Nat /\ m <= l
    BY <1>1, <1>2
  <2>2. BucketOf(m) = b /\ BucketOf(j) = b
    BY <1>1, <1>2 DEF Ends, InBucket
  <2>3. BucketOf(l) = BucketOf(m)
    BY <1>1, <2>1, <2>2, BucketBetween
  <2>4. l \in K
    BY <2>2, <2>3 DEF Ends, InBucket, PendingIn
  <2> QED
    BY <2>4
<1>11. \A l \in before : l < s.max
  BY <1>1, <1>2, <1>3, <1>5, <1>12
<1>13. lv < s.max
  BY <1>1, <1>3, <1>5
<1>14. /\ before \subseteq PendingIn(g.idx)
       /\ \A l \in PendingIn(g.idx) : l \in before \/ s.max < l
  BY <1>4, <1>9, <1>10
<1> QED
  BY ONLY <1>3, <1>5, <1>6, <1>8, <1>11, <1>13, <1>14 DEF Passable

PersistFields == TrimFields \cup PassFields

\* From c the channel comes to d, and all is good.
Leads(c, d, F, n, lv, p, med, u, i) ==
    /\ Keeps(c, d, F) /\ Good(d, n, lv, p, med, u, i)
    /\ Counted(d, 0) /\ FreeIn(d.idx, d.media, {})

\* From c to d nothing is saved, unless ok.
SavedIf(c, d, ok) ==
    ok \/ \A k \in DOMAIN d.idx : d.idx[k].persist = "ok" =>
                k \in DOMAIN c.idx /\ c.idx[k].persist = "ok"

\* What PersistedKeys preserves.
LEMMA PersistedKeysGood ==
    ASSUME NEW c, NEW K, NEW b, NEW hi, NEW ok, NEW X,
           NEW n \in Nat, NEW lv \in Int, NEW p, NEW med, NEW u, NEW i,
           Good(c, n, lv, p, med, u, i), Counted(c, 0),
           Ends(c, K, b, ok, X, p, med)
    PROVE  LET d == PersistedKeys(c, K, hi, ok) IN
           /\ Leads(c, d, PersistFields, n, lv, p, med, u, i)
           /\ c.noFree => DOMAIN d.idx = DOMAIN c.idx
           /\ SavedIf(c, d, ok)
<1> DEFINE snaps == {k \in K : c.idx[k].snap # None}
           before == {k \in Pending(c) : k < Min(K)}
           j == Max(snaps)
           s == c.idx[j].snap[1]
           e == MoveToDone(c, K, snaps, ok)
           g == FreeNonForced(e)
           d == PersistedKeys(c, K, hi, ok)
<1>1. d = IF snaps = {} THEN g ELSE SnapPassed(g, s, before, hi, ok)
  BY DEF PersistedKeys
<1>2. /\ snaps = HeldIn(c.idx) \cap K /\ K \subseteq DOMAIN c.idx
      /\ before = {k \in PendingIn(c.idx) : k < Min(K)} /\ ok \in BOOLEAN
  BY DEF HeldIn, Ends, InBucket, Pending, PendingIn
<1>3. snaps # {} => j \in snaps
  <2>1. snaps \subseteq 0 .. n
    BY <1>2 DEF Good, Order, Chan, IdxType
  <2> HIDE DEF snaps
  <2> QED
    BY <2>1, MaxGreatest
<1> HIDE DEF snaps, before, j, d, e
<1>4. /\ Good(e, n, lv, p, med, u, i) /\ FreeIn(e.idx, e.media, {})
      /\ Moved(c, e, K, ok) /\ PendingIn(e.idx) = PendingIn(c.idx) \ K
      /\ snaps = {} => Counted(e, 0)
      /\ snaps # {} => Counted(e, 1)
  <2>1. Emptied(c, e, K, ok, snaps, n, lv, p, med, u, i)
    BY <1>2, MoveToDoneGood DEF e
  <2> QED
    BY <2>1 DEF Emptied
<1>5. ASSUME NEW x \in Int, Counted(e, x)
      PROVE  /\ Good(g, n, lv, p, med, u, i) /\ FreeIn(g.idx, g.media, {})
             /\ Counted(g, x) /\ NonForced(e, g)
  BY <1>4, <1>5, FreeNonForcedGood
<1> HIDE DEF g
<1>6. CASE snaps = {}
  <2>1. /\ Good(g, n, lv, p, med, u, i) /\ FreeIn(g.idx, g.media, {})
        /\ Counted(g, 0) /\ NonForced(e, g)
    BY <1>4, <1>5, <1>6
  <2>2. Keeps(c, g, PersistFields) /\ e.noFree = c.noFree
        /\ DOMAIN e.idx = DOMAIN c.idx
    BY <1>4, <2>1 DEF Moved, NonForced, Keeps, Fields, TrimFields,
                      FreeFields, PersistFields
  <2>3. d = g
    BY <1>1, <1>6
  <2>4. c.noFree => DOMAIN d.idx = DOMAIN c.idx
    BY <2>1, <2>2, <2>3 DEF NonForced
  <2>5. Leads(c, d, PersistFields, n, lv, p, med, u, i)
    BY <2>1, <2>2, <2>3 DEF Leads
  <2>6. SavedIf(c, d, ok)
    BY <1>4, <2>1, <2>3 DEF Moved, NonForced, SavedIf
  <2> QED
    BY <2>4, <2>5, <2>6 DEF d
<1>7. CASE snaps # {}
  <2>1. /\ Good(g, n, lv, p, med, u, i) /\ FreeIn(g.idx, g.media, {})
        /\ Counted(g, 1) /\ NonForced(e, g)
    BY <1>4, <1>5, <1>7
  <2> HIDE DEF s
  <2>2. Passable(g, s, before, n, lv)
    BY <1>2, <1>3, <1>4, <1>7, <2>1, LastSnapPassable DEF s
  <2>3. Passed(g, d, n, lv, p, med, u, i)
    BY <1>1, <1>2, <1>7, <2>1, <2>2, SnapPassedGood
  <2>4. Keeps(c, d, PersistFields) /\ e.noFree = c.noFree
        /\ DOMAIN e.idx = DOMAIN c.idx
    BY <1>4, <2>1, <2>3 DEF Moved, NonForced, Keeps, Fields, TrimFields,
                      FreeFields, PersistFields, Passed, PassFields
  <2>5. c.noFree => DOMAIN d.idx = DOMAIN c.idx
    BY <2>1, <2>3, <2>4 DEF NonForced, Passed
  <2>6. Leads(c, d, PersistFields, n, lv, p, med, u, i)
    BY <2>3, <2>4 DEF Leads, Passed
  <2>7. SavedIf(c, d, ok)
    BY <1>4, <2>1, <2>3 DEF Moved, NonForced, Passed, SavedIf
  <2> QED
    BY <2>5, <2>6, <2>7 DEF d
<1> QED
  BY <1>6, <1>7

\* X is the first index of the bucket b, or empty.
FirstOf(idx, b, X) ==
    \A k \in X : k \in PendingIn(idx) /\ \A j \in InBucket(idx, b) : k <= j

BucketEnds(c, b, ok, X, p, med) ==
    b \in Nat /\ Ends(c, InBucket(c.idx, b), b, ok, X, p, med)
    /\ FirstOf(c.idx, b, X)

\* The indexes of a bucket are an interval of the indexes.
LEMMA BucketInterval ==
    ASSUME NEW idx, IdxType(idx), NEW b \in Nat
    PROVE  LET lo == b * BucketSize IN
           /\ lo \in Nat /\ BucketSize \in Nat
           /\ InBucket(idx, b) =
                {k \in DOMAIN idx : lo <= k /\ k < lo + BucketSize}
<1>1. BucketSize \in Nat \ {0}
  BY SegmentPersistAssumption
<1>2. b * BucketSize \in Nat
  BY <1>1, Product
<1>3. ASSUME NEW k \in DOMAIN idx
      PROVE  BucketOf(k) = b <=>
                b * BucketSize <= k /\ k < b * BucketSize + BucketSize
  BY <1>1, DivisionInterval DEF BucketOf, IdxType
<1> QED
  BY <1>1, <1>2, <1>3 DEF InBucket

\* What Persisted preserves.
LEMMA PersistedGood ==
    ASSUME NEW c, NEW b, NEW ok, NEW X,
           NEW n \in Nat, NEW lv \in Int, NEW p, NEW med, NEW u, NEW i,
           Good(c, n, lv, p, med, u, i), Counted(c, 0),
           BucketEnds(c, b, ok, X, p, med)
    PROVE  LET d == Persisted(c, b, ok) IN
           /\ Leads(c, d, PersistFields, n, lv, p, med, u, i)
           /\ c.noFree => DOMAIN d.idx = DOMAIN c.idx
           /\ SavedIf(c, d, ok)
<1> DEFINE K == InBucket(c.idx, b)
           lo == b * BucketSize
           hi == lo + BucketSize
           after == {k \in DOMAIN c.idx : k >= lo}
           d == Persisted(c, b, ok)
           out == after = {} \/ ~(Min(after) < hi) \/ ~(Min(after) \in Pending(c))
<1>1. d = IF out THEN c ELSE PersistedKeys(c, {k \in after : k < hi}, hi, ok)
  BY DEF Persisted
<1>2. /\ IdxType(c.idx) /\ b \in Nat /\ Ends(c, K, b, ok, X, p, med)
      /\ FirstOf(c.idx, b, X)
  BY DEF Good, Chan, BucketEnds
<1>3. lo \in Nat /\ BucketSize \in Nat
      /\ K = {k \in DOMAIN c.idx : lo <= k /\ k < lo + BucketSize}
  BY <1>2, BucketInterval
<1> HIDE DEF lo
<1>4. {k \in after : k < hi} = K
  BY <1>2, <1>3 DEF IdxType
<1>5. CASE ~out
  <2>1. d = PersistedKeys(c, K, hi, ok)
    BY <1>1, <1>4, <1>5
  <2> HIDE DEF d, hi, K
  <2> QED
    BY <1>2, <2>1, PersistedKeysGood DEF d
<1>6. CASE out
  <2>1. d = c
    BY <1>1, <1>6
  <2>2. X = {}
    <3> SUFFICES ASSUME NEW k \in X PROVE FALSE
      OBVIOUS
    <3>1. k \in K /\ k \in PendingIn(c.idx) /\ \A j \in K : k <= j
      BY <1>2 DEF Ends, FirstOf
    <3>2. k \in after /\ k < hi /\ after \subseteq Nat /\ hi \in Nat
      BY <1>2, <1>3, <3>1 DEF IdxType
    <3> DEFINE m == Min(after)
    <3>3. m \in after /\ \A j \in after : m <= j
      BY <3>2, MinLeast
    <3>4. out <=> (after = {} \/ ~(m < hi) \/ ~(m \in Pending(c)))
      OBVIOUS
    <3> HIDE DEF m, after, out
    <3>5. m \in Nat /\ k \in Nat /\ m <= k /\ m < hi
      BY <3>2, <3>3
    <3>6. m \in K
      BY <1>4, <3>3, <3>5
    <3>7. m = k
      BY <3>1, <3>5, <3>6
    <3> QED
      BY <1>6, <3>1, <3>2, <3>4, <3>5, <3>7 DEF Pending, PendingIn
  <2>3. FreeIn(c.idx, c.media, {})
    BY <1>2, <2>2 DEF Ends
  <2>4. Keeps(c, c, PersistFields) /\ SavedIf(c, c, ok)
    BY DEF Keeps, Good, Chan, SavedIf
  <2> HIDE DEF d
  <2> QED
    BY <2>1, <2>3, <2>4 DEF Leads, d
<1> QED
  BY <1>5, <1>6

\* What holds of the buckets from p on holds of those from q on.
LEMMA LaterBuckets ==
    ASSUME NEW c, NEW n, NEW lv, NEW p \in Int, NEW q \in Int,
           NEW med \in SUBSET Nat, NEW u, NEW i,
           Good(c, n, lv, p, med, u, i), p <= q
    PROVE  Good(c, n, lv, q, med, u, i)
<1>1. \A k \in Nat : BucketOf(k) \in Nat
  BY SegmentPersistAssumption, Division DEF BucketOf
<1>2. /\ \A w \in c.media : w.bucket \in Nat
      /\ DOMAIN c.idx \subseteq Nat
  BY DEF Good, Chan, IdxType, MediaType
<1>3. Flight(c.idx, c.media, p, med)
  BY DEF Good
<1>4. \A w \in c.media : FlightOK(c.idx, w, q, med)
  BY <1>2, <1>3 DEF Flight, FlightOK
<1>5. /\ \A k \in med : BucketOf(k) < q
      /\ \A k \in DOMAIN c.idx : k \in PendingIn(c.idx) \/ BucketOf(k) < q
  BY <1>1, <1>2, <1>3 DEF Flight
<1>6. Flight(c.idx, c.media, q, med)
  BY <1>3, <1>4, <1>5 DEF Flight
<1> QED
  BY <1>6 DEF Good

-----------------------------------------------------------------------------
(* A bucket is written *)

MediaFields == PersistFields \cup {"media"}

\* c with the write w of the bucket b, of the segments segs
Sent(c, b, segs) ==
    [c EXCEPT !.media =
        @ \cup {[bucket |-> b, at |-> Min(segs), segs |-> segs]}]

\* The segments of a bucket that was not written are sent.
LEMMA SentGood ==
    ASSUME NEW c, NEW b \in Nat, NEW segs, NEW q,
           NEW n \in Nat, NEW lv \in Int, NEW p \in Int, NEW med, NEW u,
           NEW i, Good(c, n, lv, p, med, u, i), Counted(c, 0),
           FreeIn(c.idx, c.media, {}), med \subseteq Nat, p <= b, q = b + 1,
           segs = {k \in Kept(c) : BucketOf(k) = b}, segs # {}
    PROVE  Leads(c, Sent(c, b, segs), MediaFields, n, lv, q, med, u, i)
<1> DEFINE w == [bucket |-> b, at |-> Min(segs), segs |-> segs]
           d == Sent(c, b, segs)
           P == PendingIn(c.idx)
<1>1. Chan(c) /\ Flight(c.idx, c.media, p, med) /\ IdxType(c.idx)
  BY DEF Good, Chan
<1>2. /\ segs \subseteq DOMAIN c.idx /\ segs \subseteq Nat
      /\ \A k \in segs : BucketOf(k) = b
  BY <1>1 DEF Kept, IdxType
<1>3. Min(segs) \in segs /\ \A k \in segs : Min(segs) <= k
  BY <1>2, MinLeast
<1>4. /\ w.bucket = b /\ w.at \in segs /\ w.segs = segs
      /\ \A k \in segs : w.at <= k
      /\ w \in MediaType
  BY <1>2, <1>3 DEF MediaType
<1>5. d = [c EXCEPT !.media = @ \cup {w}]
  BY DEF Sent
<1> HIDE DEF w, d
<1>6. Keeps(c, d, {"media"}) /\ d.media = c.media \cup {w}
  BY <1>1, <1>5 DEF Keeps, Fields, Chan
<1>7. /\ d.tl = c.tl /\ d.idx = c.idx /\ d.iw = c.iw /\ d.pend = c.pend
      /\ d.health = c.health /\ d.conn = c.conn
      /\ d.connected = c.connected /\ d.frames = c.frames
      /\ d.changed = c.changed /\ d.hist = c.hist /\ d.acked = c.acked
      /\ d.unsaved = c.unsaved /\ d.snapshots = c.snapshots
  BY <1>6 DEF Keeps, Fields
<1>8. ASSUME NEW k \in DOMAIN c.idx, BucketOf(k) = b
      PROVE  k \in segs /\ k \in P
  <2>1. k \in P
    BY <1>1, <1>8 DEF Flight
  <2>2. ~FlightAt(c.media, k)
    <3> SUFFICES ASSUME NEW v \in c.media, v.at = k PROVE FALSE
      BY DEF FlightAt
    <3>1. v.bucket < p /\ BucketOf(v.at) = v.bucket
      BY <1>1 DEF Flight, FlightOK
    <3> QED
      BY <1>8, <3>1
  <2>3. ~c.idx[k].free
    BY <2>1, <2>2 DEF FreeIn
  <2> QED
    BY <1>8, <2>1, <2>3 DEF Kept
<1>9. FlightOK(d.idx, w, q, med)
  <2>1. w.at \in P
    BY <1>2, <1>4, <1>8
  <2>2. \A k \in med : BucketOf(k) # b
    BY <1>1 DEF Flight
  <2> QED
    BY <1>2, <1>4, <1>7, <1>8, <2>1, <2>2 DEF FlightOK
<1>10. Good(c, n, lv, q, med, u, i)
  <2>1. q \in Int /\ p <= q
    OBVIOUS
  <2> QED
    BY <2>1, LaterBuckets
<1>11. \A v \in c.media : v.bucket # b
  <2> SUFFICES ASSUME NEW v \in c.media PROVE v.bucket # b
    OBVIOUS
  <2>1. v.bucket < p
    BY <1>1 DEF Flight, FlightOK
  <2> QED
    BY <2>1
<1>12. Flight(d.idx, d.media, q, med)
  <2>1. Flight(c.idx, c.media, q, med)
    BY <1>10 DEF Good
  <2>2. \A v \in d.media : FlightOK(d.idx, v, q, med)
    BY <1>6, <1>7, <1>9, <2>1 DEF Flight
  <2>3. \A v, z \in d.media : v.bucket = z.bucket => v = z
    <3>1. \A v \in d.media : v = w \/ (v \in c.media /\ v.bucket # b)
      BY <1>6, <1>11
    <3>2. \A v, z \in c.media : v.bucket = z.bucket => v = z
      BY <2>1 DEF Flight
    <3> QED
      BY <1>4, <3>1, <3>2
  <2> QED
    BY <1>7, <2>1, <2>2, <2>3 DEF Flight
<1>13. Chan(d)
  <2>1. d.media \subseteq MediaType
    BY <1>1, <1>4, <1>6 DEF Chan
  <2> QED
    BY <1>1, <1>6, <2>1 DEF Chan, Keeps, Fields
<1>14. Scalars(d, n, lv, u)
  <2>1. /\ d.next = c.next /\ d.min = c.min /\ d.trunc = c.trunc
        /\ d.lastReady = c.lastReady /\ d.success = c.success
        /\ d.cut = c.cut
    BY <1>6 DEF Keeps, Fields
  <2> QED
    BY <1>7, <2>1 DEF Scalars, Good
<1>15. FreeIn(d.idx, d.media, {})
  BY <1>6, <1>7 DEF FreeIn, FlightAt
<1>16. Good(d, n, lv, q, med, u, i)
  BY <1>7, <1>10, <1>12, <1>13, <1>14 DEF Good
<1>17. Counted(d, 0) /\ Keeps(c, d, MediaFields)
  BY <1>6, <1>7 DEF Counted, Keeps, Fields, MediaFields
<1> QED
  BY <1>15, <1>16, <1>17 DEF Leads, d

\* What MediaWrite preserves: the bucket is written, or its end is an error.
LEMMA MediaWriteGood ==
    ASSUME NEW c, NEW b \in Nat, NEW q,
           NEW n \in Nat, NEW lv \in Int, NEW p \in Int, NEW med, NEW u,
           NEW i, Good(c, n, lv, p, med, u, i), Counted(c, 0),
           FreeIn(c.idx, c.media, {}), med \subseteq Nat, p <= b, q = b + 1
    PROVE  Leads(c, MediaWrite(c, b), MediaFields, n, lv, q, med, u, i)
<1> DEFINE segs == {k \in Kept(c) : BucketOf(k) = b}
           d == MediaWrite(c, b)
<1>1. CASE "media" \in c.fail \/ segs = {}
  <2> DEFINE ok == FALSE
             X == {}
  <2>1. d = Persisted(c, b, ok)
    BY <1>1 DEF MediaWrite
  <2>2. Good(c, n, lv, q, med, u, i)
    <3>1. q \in Int /\ p <= q
      OBVIOUS
    <3> QED
      BY <3>1, LaterBuckets
  <2>3. \A w \in c.media : w.bucket # b
    <3> SUFFICES ASSUME NEW w \in c.media PROVE w.bucket # b
      OBVIOUS
    <3>1. w.bucket < p
      BY DEF Good, Flight, FlightOK
    <3> QED
      BY <3>1
  <2>4. BucketEnds(c, b, ok, X, q, med)
    BY <2>3 DEF BucketEnds, Ends, FirstOf
  <2> HIDE DEF ok, X, d
  <2>5. Leads(c, Persisted(c, b, ok), PersistFields, n, lv, q, med, u, i)
    BY <2>2, <2>4, PersistedGood
  <2>6. Leads(c, d, MediaFields, n, lv, q, med, u, i)
    BY <2>1, <2>5 DEF Leads, Keeps, MediaFields
  <2> QED
    BY <2>6 DEF d
<1>2. CASE ~("media" \in c.fail \/ segs = {})
  <2>1. d = Sent(c, b, segs)
    BY <1>2 DEF MediaWrite, Sent
  <2>2. segs # {} /\ segs = {k \in Kept(c) : BucketOf(k) = b}
    BY <1>2
  <2> HIDE DEF segs, d
  <2>3. Leads(c, d, MediaFields, n, lv, q, med, u, i)
    BY <2>1, <2>2, SentGood
  <2> QED
    BY <2>3 DEF d
<1> QED
  BY <1>1, <1>2

\* The fields that are bounded only by Scalars, or not at all.
AsideFields ==
    {"next", "min", "lastReady", "noFree", "lastBucket", "success", "trunc",
     "cut", "fail", "events", "pub", "excused", "early"}

\* When only these change, the rest stays good,
LEMMA AsideLeads ==
    ASSUME NEW c, NEW d, NEW e, NEW F, NEW H, NEW n, NEW lv, NEW p, NEW med,
           NEW u, NEW i, Leads(c, d, F, n, lv, p, med, u, i),
           Keeps(d, e, H \cap AsideFields), F \subseteq H,
           Chan(e), Scalars(e, n, lv, u)
    PROVE  Leads(c, e, H, n, lv, p, med, u, i)
<1>1. Beside(d, e)
  BY DEF Beside, Keeps, Fields, AsideFields
<1>2. Good(e, n, lv, p, med, u, i)
  BY <1>1, AsideGood DEF Leads
<1>3. Counted(e, 0) /\ FreeIn(e.idx, e.media, {})
  BY <1>1 DEF Leads, Beside, Counted
<1>4. Keeps(c, e, H)
  BY DEF Leads, Keeps
<1> QED
  BY <1>2, <1>3, <1>4 DEF Leads

\* and so it does when one change follows the other.
LEMMA LeadsOn ==
    ASSUME NEW c, NEW d, NEW e, NEW F, NEW G, NEW H, NEW n, NEW lv, NEW p,
           NEW med, NEW u, NEW i, NEW m, NEW q, NEW v,
           Leads(c, d, F, n, lv, p, med, u, i),
           Leads(d, e, G, m, lv, q, med, v, i), F \subseteq H, G \subseteq H
    PROVE  Leads(c, e, H, m, lv, q, med, v, i)
BY DEF Leads, Keeps

\* A channel that is good leads to itself.
LEMMA LeadsNone ==
    ASSUME NEW c, NEW F, NEW n, NEW lv, NEW p, NEW med, NEW u, NEW i,
           Good(c, n, lv, p, med, u, i), Counted(c, 0),
           FreeIn(c.idx, c.media, {})
    PROVE  Leads(c, c, F, n, lv, p, med, u, i)
BY DEF Leads, Keeps, Good, Chan

LastFields == MediaFields \cup {"lastBucket"}

\* The bucket that is not complete is written.
LEMMA LastBucketWrittenGood ==
    ASSUME NEW c, NEW n \in Nat, NEW lv \in Int, NEW p \in Int, NEW q \in Int,
           NEW med, NEW u, NEW i, Good(c, n, lv, p, med, u, i),
           Counted(c, 0), FreeIn(c.idx, c.media, {}), med \subseteq Nat,
           p <= q,
           \/ c.lastBucket = -1
           \/ c.lastBucket \in Nat /\ p <= c.lastBucket /\ c.lastBucket < q
    PROVE  LET d == LastBucketWritten(c) IN
           /\ Leads(c, d, LastFields, n, lv, q, med, u, i)
           /\ d.lastBucket = -1
<1>1. CASE c.lastBucket = -1
  <2>1. LastBucketWritten(c) = c
    BY <1>1 DEF LastBucketWritten
  <2>2. Good(c, n, lv, q, med, u, i)
    BY LaterBuckets
  <2>3. Leads(c, c, LastFields, n, lv, q, med, u, i)
    BY <2>2, LeadsNone
  <2> QED
    BY <1>1, <2>1, <2>3
<1>2. CASE /\ c.lastBucket # -1
           /\ c.lastBucket \in Nat /\ p <= c.lastBucket /\ c.lastBucket < q
  <2> DEFINE b == c.lastBucket
             r == b + 1
             e == MediaWrite(c, b)
             d == LastBucketWritten(c)
  <2>1. d = [e EXCEPT !.lastBucket = -1]
    BY <1>2 DEF LastBucketWritten
  <2>2. b \in Nat /\ p <= b /\ r = b + 1 /\ r \in Int /\ r <= q
    BY <1>2
  <2> HIDE DEF b, r
  <2>3. Leads(c, e, MediaFields, n, lv, r, med, u, i)
    BY <2>2, MediaWriteGood
  <2> HIDE DEF e, d
  <2>4. Good(e, n, lv, q, med, u, i)
    BY <2>2, <2>3, LaterBuckets DEF Leads
  <2>5. Leads(c, e, MediaFields, n, lv, q, med, u, i)
    BY <2>3, <2>4 DEF Leads
  <2>6. Keeps(e, d, {"lastBucket"}) /\ d.lastBucket = -1
    BY <2>1, <2>3 DEF Leads, Keeps, Fields
  <2>7. Chan(d)
    BY <2>4, <2>6 DEF Good, Chan, Keeps, Fields
  <2>8. Scalars(d, n, lv, u)
    <3>1. /\ d.next = e.next /\ d.min = e.min /\ d.trunc = e.trunc
          /\ d.lastReady = e.lastReady /\ d.success = e.success
          /\ d.cut = e.cut /\ d.tl = e.tl /\ d.iw = e.iw
      BY <2>6 DEF Keeps, Fields
    <3> QED
      BY <2>4, <3>1 DEF Good, Scalars
  <2>9. Keeps(e, d, LastFields \cap AsideFields)
    BY <2>6 DEF Keeps, LastFields, AsideFields
  <2>10. Leads(c, d, LastFields, n, lv, q, med, u, i)
    BY <2>5, <2>7, <2>8, <2>9, AsideLeads DEF LastFields
  <2> QED
    BY <2>6, <2>10 DEF d
<1> QED
  BY <1>1, <1>2

TimelineFields == FreeFields \cup {"tl", "min", "excused"}

\* What the timeline drops is freed.
LEMMA TimelineKeepsGood ==
    ASSUME NEW c, NEW S, NEW n \in Nat, NEW lv \in Int, NEW p,
           NEW med, NEW u, NEW i, Good(c, n, lv, p, med, {}, i),
           Counted(c, 0), FreeIn(c.idx, c.media, {}), u \subseteq {n},
           c.next = n, S \subseteq c.tl \cup u
    PROVE  Leads(c, TimelineKeeps(c, S), TimelineFields, n, lv, p, med, u, i)
<1> DEFINE min == IF S = {} THEN c.next ELSE Min(S)
           d == [c EXCEPT !.tl = S, !.min = min,
                          !.excused = Bigger(@, min - 1)]
           K == {k \in DOMAIN d.idx : k < min}
           e == FreeEach(d, K)
           g == TimelineKeeps(c, S)
<1>0. g = [e EXCEPT !.cut = 0]
  BY DEF TimelineKeeps
<1>1. Chan(c) /\ Scalars(c, n, lv, {}) /\ S \subseteq Nat
  BY DEF Good, Chan
<1>2. min \in Nat /\ min <= n /\ \A k \in S : min <= k
  <2>1. CASE S = {}
    BY <1>1, <2>1 DEF Chan
  <2>2. CASE S # {}
    <3>1. Min(S) \in S /\ \A k \in S : Min(S) <= k
      BY <1>1, <2>2, MinLeast
    <3>2. \A k \in S : k <= n
      BY <1>1 DEF Scalars
    <3> QED
      BY <1>1, <2>2, <3>1, <3>2
  <2> QED
    BY <2>1, <2>2
<1> HIDE DEF min
<1>3. /\ Keeps(c, d, {"tl", "min", "excused"}) /\ d.tl = S /\ d.min = min
      /\ d.excused = Bigger(c.excused, min - 1)
  BY <1>1 DEF Keeps, Fields, Chan
<1> HIDE DEF d
<1>4. /\ d.idx = c.idx /\ d.media = c.media /\ d.iw = c.iw
      /\ d.pend = c.pend /\ d.unsaved = c.unsaved /\ d.health = c.health
      /\ d.conn = c.conn /\ d.connected = c.connected
      /\ d.frames = c.frames /\ d.acked = c.acked
      /\ d.changed = c.changed /\ d.hist = c.hist
      /\ d.snapshots = c.snapshots
  BY <1>3 DEF Keeps, Fields
<1>5. Chan(d)
  <2>1. d.excused \in Int
    BY <1>1, <1>2, <1>3 DEF Chan, Bigger
  <2> QED
    BY <1>1, <1>2, <1>3, <2>1 DEF Chan, Keeps, Fields
<1>6. Scalars(d, n, lv, u)
  <2>1. /\ d.next = c.next /\ d.trunc = c.trunc
        /\ d.lastReady = c.lastReady /\ d.success = c.success
        /\ d.cut = c.cut
    BY <1>3 DEF Keeps, Fields
  <2>2. \A k \in S : k < n \/ k \in u
    BY <1>1 DEF Scalars
  <2> QED
    BY <1>1, <1>2, <1>3, <1>4, <2>1, <2>2 DEF Scalars
<1>7. Stored(d.idx, d.tl, d.iw, d.unsaved, d.health, med, u, i)
  <2>1. Stored(c.idx, c.tl, c.iw, c.unsaved, c.health, med, {}, i)
    BY DEF Good
  <2> QED
    BY <1>3, <1>4, <2>1 DEF Stored
<1>8. Good(d, n, lv, p, med, u, i)
  BY <1>4, <1>5, <1>6, <1>7 DEF Good
<1>9. Counted(d, 0) /\ FreeIn(d.idx, d.media, {}) /\ K \subseteq DOMAIN d.idx
  BY <1>4 DEF Counted
<1> HIDE DEF K
<1>10. /\ Good(e, n, lv, p, med, u, i) /\ FreeIn(e.idx, e.media, {})
       /\ Counted(e, 0) /\ Freed(d, e, K)
  BY <1>8, <1>9, FreeEachGood
<1> HIDE DEF e, g
<1>11. Keeps(e, g, {"cut"}) /\ g.cut = 0
  BY <1>0, <1>10 DEF Good, Chan, Keeps, Fields
<1>12. Leads(c, e, TimelineFields, n, lv, p, med, u, i)
  <2>1. Keeps(c, e, TimelineFields)
    BY <1>3, <1>10 DEF Freed, Keeps, Fields, FreeFields, TimelineFields
  <2> QED
    BY <1>10, <2>1 DEF Leads
<1>13. Chan(g)
  BY <1>10, <1>11 DEF Good, Chan, Keeps, Fields
<1>14. Scalars(g, n, lv, u)
  <2>1. /\ g.next = e.next /\ g.min = e.min /\ g.trunc = e.trunc
        /\ g.lastReady = e.lastReady /\ g.success = e.success
        /\ g.tl = e.tl /\ g.iw = e.iw
    BY <1>11 DEF Keeps, Fields
  <2> QED
    BY <1>10, <1>11, <2>1 DEF Good, Scalars, Chan
<1>15. Keeps(e, g, TimelineFields \cap AsideFields)
  BY <1>11 DEF Keeps, TimelineFields, FreeFields, AsideFields
<1>16. Leads(c, g, TimelineFields, n, lv, p, med, u, i)
  BY <1>12, <1>13, <1>14, <1>15, AsideLeads
<1> QED
  BY <1>16 DEF g

-----------------------------------------------------------------------------
(* A segment is created *)

\* d is c after IndexCreate
Created(c, d) ==
    /\ Keeps(c, d, {"idx", "snapshots"}) /\ d.snapshots = c.snapshots + 1
    /\ IdxType(d.idx) /\ DOMAIN d.idx = DOMAIN c.idx \cup {c.next}
    /\ \A k \in DOMAIN c.idx \ {c.next} : d.idx[k] = c.idx[k]
    /\ LET x == d.idx[c.next] IN
        /\ x.persist = "none" /\ x.free = FALSE /\ x.snap # None
        /\ x.snap[1].max = c.next /\ x.snap[1].trunc = c.trunc
        /\ x.snap[1].frames = NoFrames

\* The index of the next segment is there, with a snapshot.
LEMMA IndexCreateDoes ==
    ASSUME NEW c, Chan(c)
    PROVE  Created(c, IndexCreate(c))
<1> DEFINE k == c.next
           snap == [max |-> k, frames |-> NoFrames, trunc |-> c.trunc,
                    next |-> 0]
           x == [persist |-> "none", snap |-> Some(snap), free |-> FALSE]
           d == IndexCreate(c)
<1>1. /\ Keeps(c, d, {"idx", "snapshots"}) /\ d.snapshots = c.snapshots + 1
      /\ d.idx = [j \in DOMAIN c.idx \cup {k} |->
                    IF j = k THEN x ELSE c.idx[j]]
  BY DEF IndexCreate, Keeps, Fields, Chan
<1>2. NoFrames \in FrameType
  BY DEF NoFrames, FrameType
<1>3. snap \in SnapType /\ snap.max = k /\ snap.trunc = c.trunc
      /\ snap.frames = NoFrames
  BY <1>2 DEF SnapType, Chan
<1> HIDE DEF snap
<1>4. Some(snap) \in Opt(SnapType) /\ Some(snap) # None /\ Some(snap)[1] = snap
  BY <1>3, OptSome
<1>5. /\ x \in EntryType /\ x.persist = "none" /\ x.free = FALSE
      /\ x.snap # None /\ x.snap[1] = snap
  BY <1>4 DEF EntryType
<1> HIDE DEF x, d
<1>6. IdxType(d.idx) /\ DOMAIN d.idx = DOMAIN c.idx \cup {k}
      /\ \A j \in DOMAIN c.idx \ {k} : d.idx[j] = c.idx[j]
      /\ d.idx[k] = x
  BY <1>1, <1>5 DEF IdxType, Chan
<1>7. Created(c, d)
  BY <1>1, <1>3, <1>5, <1>6 DEF Created
<1> QED
  BY <1>7 DEF d

\* It is the last, of a bucket that was not written.
LEMMA IndexCreateGood ==
    ASSUME NEW c, NEW n \in Nat, NEW m, NEW lv \in Int, NEW p \in Int,
           NEW med, NEW u, NEW i, Good(c, n, lv, p, med, u, i),
           Counted(c, 0), FreeIn(c.idx, c.media, {}), u \subseteq {n},
           c.next = n, OneMore(n, m), lv < n, p <= BucketOf(n)
    PROVE  LET d == IndexCreate(c) IN
           /\ Good(d, m, lv, p, med, {}, i) /\ Counted(d, 0)
           /\ FreeIn(d.idx, d.media, {}) /\ Created(c, d)
<1> DEFINE d == IndexCreate(c)
           q == d.idx
           P == PendingIn(c.idx)
           Q == PendingIn(q)
<1>1. Chan(c) /\ Scalars(c, n, lv, u) /\ Order(c.idx, c.iw, c.pend, n, lv)
      /\ m = n + 1 /\ m \in Nat
  BY DEF Good, OneMore
<1>2. Created(c, d)
  BY <1>1, IndexCreateDoes
<1> HIDE DEF d
<1>3. /\ d.tl = c.tl /\ d.media = c.media /\ d.iw = c.iw /\ d.pend = c.pend
      /\ d.health = c.health /\ d.conn = c.conn
      /\ d.connected = c.connected /\ d.frames = c.frames
      /\ d.changed = c.changed /\ d.hist = c.hist /\ d.acked = c.acked
      /\ d.unsaved = c.unsaved
  BY <1>2 DEF Created, Keeps, Fields
<1>4. /\ IdxType(q) /\ DOMAIN q = DOMAIN c.idx \cup {n}
      /\ \A k \in DOMAIN c.idx : k < n /\ k \in Nat
      /\ \A k \in DOMAIN c.idx : q[k] = c.idx[k]
      /\ q[n].persist = "none" /\ q[n].free = FALSE /\ q[n].snap # None
      /\ q[n].snap[1].max = n /\ q[n].snap[1].trunc = c.trunc
      /\ q[n].snap[1].frames = NoFrames
  <2>1. \A k \in DOMAIN c.idx : k < n /\ k \in Nat
    BY <1>1 DEF Order, Chan, IdxType
  <2>2. \A k \in DOMAIN c.idx : k \in DOMAIN c.idx \ {n}
    BY <2>1
  <2> QED
    BY <1>2, <2>1, <2>2 DEF Created
<1>5. /\ HeldIn(q) = HeldIn(c.idx) \cup {n} /\ Q = P \cup {n}
      /\ n \notin HeldIn(c.idx) /\ n \notin P
      /\ P \subseteq DOMAIN c.idx /\ HeldIn(c.idx) \subseteq DOMAIN c.idx
  BY <1>4 DEF HeldIn, PendingIn
<1> HIDE DEF q, P, Q
<1>6. Chan(d)
  <2>1. d.snapshots \in Int
    BY <1>1, <1>2 DEF Created, Chan
  <2> QED
    BY <1>1, <1>2, <1>4, <2>1 DEF Chan, Created, Keeps, Fields, q
<1>7. Scalars(d, m, lv, {})
  <2>1. /\ d.next = n /\ d.min = c.min /\ d.trunc = c.trunc
        /\ d.lastReady = c.lastReady /\ d.success = c.success
        /\ d.cut = c.cut
    BY <1>2 DEF Created, Keeps, Fields
  <2>2. \A k \in d.tl : d.min <= k /\ k < m
    <3> SUFFICES ASSUME NEW k \in d.tl PROVE d.min <= k /\ k < m
      OBVIOUS
    <3>1. k \in Nat /\ d.min <= k /\ (k < n \/ k = n)
      BY <1>1, <1>3, <2>1 DEF Scalars, Chan
    <3> QED
      BY <1>1, <3>1
  <2> QED
    BY <1>1, <1>3, <2>1, <2>2 DEF Scalars
<1>8. Order(q, d.iw, d.pend, m, lv)
  <2>1. \A f : (WriteOK(c.idx, f, n, lv) /\ f.max \in Nat) =>
                    WriteOK(q, f, m, lv)
    BY <1>1, <1>5 DEF WriteOK, P, Q
  <2>2. ASSUME NEW j \in HeldIn(c.idx) PROVE HeldOK(q, j, m)
    <3>1. HeldOK(c.idx, j, n) /\ j \in DOMAIN c.idx /\ q[j] = c.idx[j]
      BY <1>1, <1>4, <1>5 DEF Order
    <3>2. q[j].snap[1].max \in Nat
      BY <1>1, <1>4, <3>1, EntryHas, SnapHas DEF HeldIn, Chan, IdxType
    <3> QED
      BY <1>1, <1>5, <3>1, <3>2 DEF HeldOK, P, Q
  <2>3. HeldOK(q, n, m)
    <3>1. \A j \in Q : j <= n
      BY <1>4, <1>5
    <3>2. c.trunc <= n
      BY <1>1 DEF Scalars
    <3> QED
      BY <1>1, <1>4, <3>1, <3>2 DEF HeldOK, Q
  <2>4. /\ \A j \in DOMAIN q : j < m
        /\ HeldIn(q) \subseteq Q
        /\ \A j \in Q : lv < j
    BY <1>1, <1>4, <1>5 DEF Order, P
  <2>5. /\ c.iw # None => c.iw[1].max \in Nat
        /\ c.pend # None => c.pend[1].max \in Nat
    BY <1>1, SnapHas, FileHas DEF Chan
  <2> QED
    BY <1>1, <1>3, <1>5, <2>1, <2>2, <2>3, <2>4, <2>5 DEF Order, Q
<1>9. Flight(q, d.media, p, med)
  <2>1. Flight(c.idx, c.media, p, med)
    BY DEF Good
  <2>2. ASSUME NEW w \in c.media PROVE FlightOK(q, w, p, med)
    <3>1. FlightOK(c.idx, w, p, med) /\ w.bucket \in Nat
      BY <1>1, <2>1 DEF Flight, Chan, MediaType
    <3>2. BucketOf(n) \in Nat
      BY SegmentPersistAssumption, Division DEF BucketOf
    <3>3. BucketOf(n) # w.bucket
      BY <3>1, <3>2 DEF FlightOK
    <3> QED
      BY <1>4, <1>5, <3>1, <3>3 DEF FlightOK, P, Q
  <2> QED
    BY <1>3, <1>4, <1>5, <2>1, <2>2 DEF Flight, P, Q
<1>10. Stored(q, d.tl, d.iw, d.unsaved, d.health, med, {}, i)
  <2>1. Stored(c.idx, c.tl, c.iw, c.unsaved, c.health, med, u, i)
    BY DEF Good
  <2>2. \A j \in DOMAIN q : q[j].persist = "ok" => j \in med \cup c.unsaved
    BY <1>4, <2>1 DEF Stored
  <2>3. ASSUME c.health # "stale"
        PROVE \A j \in c.tl : j \in med \cup c.unsaved \cup Q
    BY <1>5, <2>1, <2>3 DEF Stored, P
  <2> QED
    BY <1>3, <2>1, <2>2, <2>3 DEF Stored, Q
<1>11. Known(q, d.iw, d.pend, d.conn, d.connected, d.frames, d.acked)
  <2>1. FrameOK(NoFrames, c.conn, c.connected, c.frames)
    BY <1>1 DEF FrameOK, NoFrames, Chan
  <2>2. \A j \in HeldIn(q) : j = n \/ (j \in HeldIn(c.idx) /\ q[j] = c.idx[j])
    BY <1>4, <1>5
  <2> QED
    BY <1>3, <1>4, <2>1, <2>2 DEF Good, Known
<1>12. History(d.iw, d.changed, d.hist, d.health, i)
  BY <1>3 DEF Good
<1>13. FreeIn(q, d.media, {})
  <2> SUFFICES ASSUME NEW j \in Q, q[j].free PROVE FlightAt(c.media, j)
    BY <1>3 DEF FreeIn, Q
  <2>1. j # n
    BY <1>4
  <2>2. j \in P /\ q[j] = c.idx[j]
    BY <1>4, <1>5, <2>1
  <2> QED
    BY <2>2 DEF FreeIn, P
<1>14. Counted(d, 0)
  <2> DEFINE h == Cardinality(HeldIn(c.idx))
             g == Cardinality(HeldIn(q))
             a == Len(c.iw)
             r == Len(c.pend)
  <2>1. /\ h \in Nat /\ a \in {0, 1} /\ r \in {0, 1}
        /\ IsFiniteSet(HeldIn(c.idx))
    BY <1>1, CountedAre, HeldFinite DEF Order, Chan
  <2>2. c.snapshots = h + a + r + 0
    BY DEF Counted, Count
  <2>3. g = h + 1
    <3> DEFINE H == HeldIn(c.idx)
    <3>1. IsFiniteSet(H) /\ n \notin H
      BY <1>5, <2>1
    <3> HIDE DEF H
    <3>2. Cardinality(H \cup {n}) = Cardinality(H) + 1
      BY <3>1, FS_AddElement
    <3> QED
      BY <1>5, <3>2 DEF H
  <2>4. d.snapshots = c.snapshots + 1
    BY <1>2 DEF Created
  <2> HIDE DEF h, g, a, r
  <2>5. d.snapshots = g + a + r + 0
    BY <2>1, <2>2, <2>3, <2>4
  <2> QED
    BY <1>3, <2>5 DEF Counted, Count, g, a, r, q
<1> QED
  BY <1>2, <1>6, <1>7, <1>8, <1>9, <1>10, <1>11, <1>12, <1>13, <1>14
     DEF Good, d, q

\* The frames of a snapshot that is held become known.
LEMMA FramedGood ==
    ASSUME NEW c, NEW d, NEW k \in HeldIn(c.idx), NEW s \in SnapType,
           NEW n, NEW lv, NEW p, NEW med, NEW u, NEW i,
           Good(c, n, lv, p, med, u, i), Counted(c, 0),
           FreeIn(c.idx, c.media, {}), Keeps(c, d, {"idx"}),
           PutIn(c.idx, d.idx, k, s), s.max = c.idx[k].snap[1].max,
           s.trunc = c.idx[k].snap[1].trunc,
           FrameOK(s.frames, c.conn, c.connected, c.frames)
    PROVE  Leads(c, d, {"idx"}, n, lv, p, med, u, i)
<1> DEFINE q == d.idx
           P == PendingIn(c.idx)
<1>1. Chan(c) /\ k \in DOMAIN c.idx
  BY DEF Good, HeldIn
<1>2. /\ d.tl = c.tl /\ d.media = c.media /\ d.iw = c.iw /\ d.pend = c.pend
      /\ d.health = c.health /\ d.conn = c.conn
      /\ d.connected = c.connected /\ d.frames = c.frames
      /\ d.changed = c.changed /\ d.hist = c.hist /\ d.acked = c.acked
      /\ d.unsaved = c.unsaved /\ d.snapshots = c.snapshots
  BY DEF Keeps, Fields
<1>3. /\ IdxType(q) /\ DOMAIN q = DOMAIN c.idx
      /\ \A j \in DOMAIN c.idx \ {k} : q[j] = c.idx[j]
      /\ q[k].persist = c.idx[k].persist /\ q[k].free = c.idx[k].free
      /\ q[k].snap # None /\ q[k].snap[1] = s
  BY DEF PutIn
<1> HIDE DEF q
<1>4. /\ \A j \in DOMAIN q : /\ q[j].persist = c.idx[j].persist
                             /\ q[j].free = c.idx[j].free
      /\ \A j \in DOMAIN q : j \in HeldIn(q) <=> j \in HeldIn(c.idx)
  BY <1>1, <1>3 DEF HeldIn
<1>5. HeldIn(q) = HeldIn(c.idx) /\ PendingIn(q) = P
  <2>1. HeldIn(q) \subseteq DOMAIN q /\ HeldIn(c.idx) \subseteq DOMAIN q
    BY <1>3 DEF HeldIn
  <2>2. HeldIn(q) = HeldIn(c.idx)
    BY <1>4, <2>1
  <2>3. PendingIn(q) = P
    BY <1>3, <1>4 DEF PendingIn
  <2> QED
    BY <2>2, <2>3
<1> HIDE DEF P
<1>6. Chan(d)
  BY <1>1, <1>3 DEF Chan, Keeps, Fields, q
<1>7. Scalars(d, n, lv, u)
  <2>1. /\ d.next = c.next /\ d.min = c.min /\ d.trunc = c.trunc
        /\ d.lastReady = c.lastReady /\ d.success = c.success
        /\ d.cut = c.cut
    BY DEF Keeps, Fields
  <2> QED
    BY <1>2, <2>1 DEF Good, Scalars
<1>8. Order(q, d.iw, d.pend, n, lv)
  <2>1. Order(c.idx, c.iw, c.pend, n, lv)
    BY DEF Good
  <2>2. ASSUME NEW j \in HeldIn(q) PROVE HeldOK(q, j, n)
    <3>1. HeldOK(c.idx, j, n) /\ j \in DOMAIN q /\ j \in DOMAIN c.idx
      BY <1>3, <1>5, <2>1 DEF Order, HeldIn
    <3>2. /\ q[j].snap[1].max = c.idx[j].snap[1].max
          /\ q[j].snap[1].trunc = c.idx[j].snap[1].trunc
          /\ q[j].free = c.idx[j].free
      BY <1>3, <1>4, <3>1
    <3> QED
      BY <1>5, <3>1, <3>2 DEF HeldOK, P
  <2> QED
    BY <1>2, <1>3, <1>5, <2>1, <2>2 DEF Order, WriteOK, P
<1>9. Flight(q, d.media, p, med)
  <2>1. Flight(c.idx, c.media, p, med)
    BY DEF Good
  <2>2. \A w : FlightOK(c.idx, w, p, med) => FlightOK(q, w, p, med)
    BY <1>3, <1>5 DEF FlightOK, P
  <2> QED
    BY <1>2, <1>3, <1>5, <2>1, <2>2 DEF Flight, P
<1>10. Stored(q, d.tl, d.iw, d.unsaved, d.health, med, u, i)
  <2>1. Stored(c.idx, c.tl, c.iw, c.unsaved, c.health, med, u, i)
    BY DEF Good
  <2> QED
    BY <1>2, <1>3, <1>4, <1>5, <2>1 DEF Stored, P
<1>11. Known(q, d.iw, d.pend, d.conn, d.connected, d.frames, d.acked)
  <2>1. \A j \in HeldIn(q) : j = k \/ q[j] = c.idx[j]
    BY <1>3 DEF HeldIn
  <2> QED
    BY <1>2, <1>3, <1>5, <2>1 DEF Good, Known
<1>12. History(d.iw, d.changed, d.hist, d.health, i)
  BY <1>2 DEF Good
<1>13. FreeIn(q, d.media, {})
  BY <1>2, <1>3, <1>4, <1>5 DEF FreeIn, P, PendingIn
<1>14. Counted(d, 0)
  BY <1>2, <1>5 DEF Counted, Count, q
<1> QED
  BY <1>2, <1>6, <1>7, <1>8, <1>9, <1>10, <1>11, <1>12, <1>13, <1>14
     DEF Good, Leads, q

\* The frames s of the segment are those the track has.
Updated(c, d, s) ==
    LET o == c.idx[c.next].snap[1] IN
    /\ s \in SnapType /\ s.max = o.max /\ s.trunc = o.trunc
    /\ s.frames = [set |-> TRUE, conn |-> IF c.connected THEN c.conn ELSE 0,
                   id |-> c.frames]
    /\ Keeps(c, d, {"idx"}) /\ PutIn(c.idx, d.idx, c.next, s)

\* What SnapUpdate does.
LEMMA SnapUpdateDoes ==
    ASSUME NEW c, Chan(c), c.next \in HeldIn(c.idx)
    PROVE  \E s : Updated(c, SnapUpdate(c), s)
<1> DEFINE k == c.next
           o == c.idx[k].snap
           f == [set |-> TRUE, conn |-> IF c.connected THEN c.conn ELSE 0,
                 id |-> c.frames]
           s == [o[1] EXCEPT !.next = c.frames, !.frames = f]
           x == [c.idx[k] EXCEPT !.snap = Some(s)]
           d == SnapUpdate(c)
<1>1. Chan(c) /\ k \in DOMAIN c.idx /\ c.idx[k] \in EntryType /\ o # None
  BY DEF HeldIn, Chan, IdxType
<1>2. o[1] \in SnapType /\ o \in Opt(SnapType)
  BY <1>1, EntryHas
<1>3. f \in FrameType
  BY <1>1 DEF FrameType, Chan
<1>4. d = [[c EXCEPT !.idx = [c.idx EXCEPT ![k] = [c.idx[k] EXCEPT !.snap =
                [o EXCEPT ![1] = [o[1] EXCEPT !.next = c.frames]]]]]
            EXCEPT !.idx[k].snap[1].frames = f]
  BY DEF SnapUpdate
<1>5. s = [[o[1] EXCEPT !.next = c.frames] EXCEPT !.frames = f]
  BY <1>2 DEF SnapType
<1>6. s \in SnapType /\ s.max = o[1].max /\ s.trunc = o[1].trunc
      /\ s.frames = f
  BY <1>1, <1>2, <1>3 DEF SnapType, Chan
<1> HIDE DEF f, s
<1>7. [o EXCEPT ![1] = s] = Some(s)
  BY <1>1, <1>2, OptExcept
<1>8. d = [c EXCEPT !.idx = [c.idx EXCEPT ![k] =
                [c.idx[k] EXCEPT !.snap = [o EXCEPT ![1] = s]]]]
  <2> DEFINE y == [o[1] EXCEPT !.next = c.frames]
             z == [c.idx[k] EXCEPT !.snap = [o EXCEPT ![1] = y]]
             v == [c.idx EXCEPT ![k] = z]
             e == [c EXCEPT !.idx = v]
  <2>1. [o EXCEPT ![1] = y] = Some(y) /\ Some(y)[1] = y
    BY <1>1, <1>2, OptExcept DEF Some
  <2>2. d = [e EXCEPT !.idx = [e.idx EXCEPT ![k] = [e.idx[k] EXCEPT !.snap =
                [e.idx[k].snap EXCEPT ![1] =
                    [e.idx[k].snap[1] EXCEPT !.frames = f]]]]]
    BY <1>4
  <2>8. s = [y EXCEPT !.frames = f]
    BY <1>5
  <2> HIDE DEF y, d
  <2>9. z.snap = Some(y)
    BY <1>1, <2>1 DEF EntryType
  <2> HIDE DEF z
  <2>10. v[k] = z
    BY <1>1
  <2> HIDE DEF v
  <2>11. e.idx = v
    BY <1>1 DEF Chan, Fields
  <2> HIDE DEF e
  <2>3. d = [e EXCEPT !.idx = [v EXCEPT ![k] = [z EXCEPT !.snap =
                [Some(y) EXCEPT ![1] = s]]]]
    BY <2>1, <2>2, <2>8, <2>9, <2>10, <2>11
  <2>4. [Some(y) EXCEPT ![1] = s] = Some(s)
    BY DEF Some
  <2> HIDE DEF x
  <2>5. [z EXCEPT !.snap = Some(s)] = x
    BY <1>1 DEF EntryType, z, x
  <2>6. [v EXCEPT ![k] = x] = [c.idx EXCEPT ![k] = x]
    BY <1>1 DEF v
  <2>7. d = [e EXCEPT !.idx = [c.idx EXCEPT ![k] = x]]
    BY <2>3, <2>4, <2>5, <2>6
  <2> DEFINE q == [c.idx EXCEPT ![k] = x]
  <2>12. [o EXCEPT ![1] = s] = Some(s)
    BY <1>7
  <2>13. [c.idx EXCEPT ![k] = [c.idx[k] EXCEPT !.snap = [o EXCEPT ![1] = s]]]
            = q
    BY <2>12 DEF x
  <2>14. d = [e EXCEPT !.idx = q]
    BY <2>7
  <2> HIDE DEF q
  <2>15. [e EXCEPT !.idx = q] = [c EXCEPT !.idx = q]
    BY <1>1 DEF e, Chan
  <2> QED
    BY <2>13, <2>14, <2>15
<1>9. d = [c EXCEPT !.idx = [c.idx EXCEPT ![k] = x]]
  BY <1>7, <1>8
<1>10. /\ x \in EntryType /\ x.persist = c.idx[k].persist
       /\ x.free = c.idx[k].free /\ x.snap # None /\ x.snap[1] = s
  <2>1. Some(s) \in Opt(SnapType) /\ Some(s) # None /\ Some(s)[1] = s
    BY <1>6, OptSome
  <2> QED
    BY <1>1, <2>1 DEF EntryType
<1> HIDE DEF x, d
<1>11. Keeps(c, d, {"idx"}) /\ d.idx = [c.idx EXCEPT ![k] = x]
  BY <1>1, <1>9 DEF Keeps, Fields, Chan
<1>12. PutIn(c.idx, d.idx, k, s)
  BY <1>1, <1>10, <1>11 DEF PutIn, Chan, IdxType
<1>13. Updated(c, d, s)
  BY <1>6, <1>11, <1>12 DEF Updated, f
<1> QED
  BY <1>13 DEF d

\* SnapUpdate: the frames of the segment are those the track has.
LEMMA SnapUpdateGood ==
    ASSUME NEW c, NEW n, NEW lv, NEW p, NEW med, NEW u, NEW i,
           Good(c, n, lv, p, med, u, i), Counted(c, 0),
           FreeIn(c.idx, c.media, {}), c.next \in HeldIn(c.idx)
    PROVE  Leads(c, SnapUpdate(c), {"idx"}, n, lv, p, med, u, i)
<1> DEFINE d == SnapUpdate(c)
           k == c.next
<1>1. Chan(c) /\ k \in HeldIn(c.idx)
  BY DEF Good
<1>2. PICK s : Updated(c, d, s)
  BY <1>1, SnapUpdateDoes
<1> HIDE DEF d
<1>3. /\ s \in SnapType /\ s.max = c.idx[k].snap[1].max
      /\ s.trunc = c.idx[k].snap[1].trunc
      /\ Keeps(c, d, {"idx"}) /\ PutIn(c.idx, d.idx, k, s)
  BY <1>2 DEF Updated
<1>4. FrameOK(s.frames, c.conn, c.connected, c.frames)
  BY <1>1, <1>2 DEF Updated, FrameOK, Chan
<1> HIDE DEF k
<1>5. Leads(c, d, {"idx"}, n, lv, p, med, u, i)
  BY <1>1, <1>3, <1>4, FramedGood
<1> QED
  BY <1>5 DEF d

\* When no snapshot is left all frames are acked.
LEMMA AckFramesIdleGood ==
    ASSUME NEW c, NEW n, NEW lv, NEW p, NEW med, NEW u, NEW i,
           Good(c, n, lv, p, med, u, i), Counted(c, 0),
           FreeIn(c.idx, c.media, {})
    PROVE  Leads(c, AckFramesIdle(c), {"acked"}, n, lv, p, med, u, i)
<1> DEFINE d == AckFramesIdle(c)
<1>1. Chan(c)
  BY DEF Good
<1>2. Keeps(c, d, {"acked"}) /\ d.acked \in {c.acked, c.frames}
  BY <1>1 DEF AckFramesIdle, Ack, Keeps, Fields, Chan
<1> HIDE DEF d
<1>3. /\ d.idx = c.idx /\ d.media = c.media /\ d.tl = c.tl /\ d.iw = c.iw
      /\ d.pend = c.pend /\ d.unsaved = c.unsaved /\ d.health = c.health
      /\ d.conn = c.conn /\ d.connected = c.connected
      /\ d.frames = c.frames /\ d.changed = c.changed /\ d.hist = c.hist
      /\ d.snapshots = c.snapshots
  BY <1>2 DEF Keeps, Fields
<1>4. Chan(d)
  BY <1>1, <1>2 DEF Chan, Keeps, Fields
<1>5. Scalars(d, n, lv, u)
  <2>1. /\ d.next = c.next /\ d.min = c.min /\ d.trunc = c.trunc
        /\ d.lastReady = c.lastReady /\ d.success = c.success
        /\ d.cut = c.cut
    BY <1>2 DEF Keeps, Fields
  <2> QED
    BY <1>3, <2>1 DEF Good, Scalars
<1>6. Known(d.idx, d.iw, d.pend, d.conn, d.connected, d.frames, d.acked)
  <2>1. Known(c.idx, c.iw, c.pend, c.conn, c.connected, c.frames, c.acked)
    BY DEF Good
  <2>2. d.connected => d.acked <= d.frames
    BY <1>1, <1>2, <1>3, <2>1 DEF Known, Chan
  <2> QED
    BY <1>3, <2>1, <2>2 DEF Known
<1>7. Good(d, n, lv, p, med, u, i)
  BY <1>3, <1>4, <1>5, <1>6 DEF Good
<1>8. Counted(d, 0) /\ FreeIn(d.idx, d.media, {})
  BY <1>3 DEF Counted
<1> QED
  BY <1>2, <1>7, <1>8 DEF Leads, d

ReadyFields == PersistFields \cup {"lastReady"}

\* The segment is the last that is ready.
ReadyMark(c) == [c EXCEPT !.lastReady = c.next]

\* Its snapshot has its frames, or its index leaves the memory.
ReadyIndex(d, exists) ==
    IF exists THEN SnapUpdate(d)
    ELSE [IndexFree(d, d.next) EXCEPT !.cut = 0]

\* IndexReady, before the segment is written
ReadyOf(c, exists) ==
    AckFramesIdle(FreeNonForced(ReadyIndex(ReadyMark(c), exists)))

\* Nothing that is known depends on the last that is ready.
LEMMA ReadyMarkGood ==
    ASSUME NEW c, NEW n \in Nat, NEW lv \in Int, NEW p, NEW med,
           NEW u, NEW i, Good(c, n, lv, p, med, u, i), Counted(c, 0),
           FreeIn(c.idx, c.media, {})
    PROVE  /\ Leads(c, ReadyMark(c), ReadyFields, n, lv, p, med, u, i)
           /\ Keeps(c, ReadyMark(c), {"lastReady"})
<1> DEFINE d == [c EXCEPT !.lastReady = c.next]
<1>1. Keeps(c, d, {"lastReady"}) /\ d.lastReady = c.next
  BY DEF Good, Chan, Keeps, Fields
<1> HIDE DEF d
<1>2. Leads(c, c, {}, n, lv, p, med, u, i)
  BY LeadsNone
<1>3. Chan(d)
  BY <1>1 DEF Good, Chan, Keeps, Fields
<1>4. Scalars(d, n, lv, u)
  <2>1. /\ d.next = c.next /\ d.min = c.min /\ d.trunc = c.trunc
        /\ d.success = c.success /\ d.cut = c.cut /\ d.tl = c.tl
        /\ d.iw = c.iw
    BY <1>1 DEF Keeps, Fields
  <2> QED
    BY <1>1, <2>1 DEF Good, Scalars, Chan
<1>5. Keeps(c, d, ReadyFields \cap AsideFields)
  BY <1>1 DEF Keeps, ReadyFields, AsideFields
<1>6. Leads(c, d, ReadyFields, n, lv, p, med, u, i)
  BY <1>2, <1>3, <1>4, <1>5, AsideLeads
<1> QED
  BY <1>1, <1>6 DEF ReadyMark, d

\* The index of a segment is ready.
LEMMA ReadyIndexGood ==
    ASSUME NEW d, NEW exists, NEW n \in Nat, NEW lv \in Int, NEW p, NEW med,
           NEW u, NEW i, Good(d, n, lv, p, med, u, i), Counted(d, 0),
           FreeIn(d.idx, d.media, {}), d.next \in HeldIn(d.idx)
    PROVE  Leads(d, ReadyIndex(d, exists), ReadyFields, n, lv, p, med, u, i)
<1> DEFINE k == d.next
           x == 0
           e == ReadyIndex(d, exists)
<1>0. x \in Int /\ x = 0
  OBVIOUS
<1>1. k \in Nat /\ k <= d.next /\ k \in DOMAIN d.idx
  BY DEF Good, Chan, HeldIn
<1>2. CASE exists
  <2>1. Leads(d, SnapUpdate(d), {"idx"}, n, lv, p, med, u, i)
    BY SnapUpdateGood
  <2>2. e = SnapUpdate(d)
    BY <1>2 DEF ReadyIndex
  <2> HIDE DEF e
  <2>3. Leads(d, e, ReadyFields, n, lv, p, med, u, i)
    BY <2>1, <2>2
       DEF Leads, Keeps, ReadyFields, PersistFields, TrimFields, FreeFields
  <2> QED
    BY <2>3 DEF e
<1>3. CASE ~exists
  <2> DEFINE y == IndexFree(d, k)
             z == [y EXCEPT !.cut = 0]
  <2>1. e = z
    BY <1>3 DEF ReadyIndex
  <2> HIDE DEF x
  <2>2. Counted(d, x)
    BY <1>0
  <2>3. /\ Good(y, n, lv, p, med, u, i) /\ FreeIn(y.idx, y.media, {})
        /\ Counted(y, x)
    BY <1>0, <1>1, <2>2, IndexFreeGood
  <2>4. Keeps(d, y, FreeFields)
    <3>1. Freed(d, y, {k})
      BY <1>1, IndexFreeFreed DEF Good
    <3> QED
      BY <3>1 DEF Freed
  <2> HIDE DEF y
  <2>5. /\ Good(z, n, lv, p, med, u, i) /\ FreeIn(z.idx, z.media, {})
        /\ Counted(z, x) /\ Keeps(y, z, {"cut"})
    BY <2>3, CutGood
  <2> HIDE DEF z, e
  <2>6. Keeps(d, e, ReadyFields)
    BY <2>1, <2>4, <2>5
       DEF Keeps, ReadyFields, PersistFields, TrimFields, FreeFields
  <2>7. Leads(d, e, ReadyFields, n, lv, p, med, u, i)
    BY <1>0, <2>1, <2>5, <2>6 DEF Leads
  <2> QED
    BY <2>7 DEF e
<1> QED
  BY <1>2, <1>3

\* A segment is ready: its snapshot has its frames, or it leaves the memory.
LEMMA ReadyGood ==
    ASSUME NEW c, NEW exists, NEW n \in Nat, NEW lv \in Int, NEW p, NEW med,
           NEW u, NEW i, Good(c, n, lv, p, med, u, i), Counted(c, 0),
           FreeIn(c.idx, c.media, {}), c.next \in HeldIn(c.idx)
    PROVE  Leads(c, ReadyOf(c, exists), ReadyFields, n, lv, p, med, u, i)
<1> DEFINE d == ReadyMark(c)
           x == 0
           e == ReadyIndex(d, exists)
           g == FreeNonForced(e)
           h == AckFramesIdle(g)
<1>0. /\ ReadyOf(c, exists) = h /\ x \in Int /\ x = 0
  BY DEF ReadyOf
<1>1. /\ Leads(c, d, ReadyFields, n, lv, p, med, u, i)
      /\ Keeps(c, d, {"lastReady"})
  BY ReadyMarkGood
<1> HIDE DEF d
<1>2. d.idx = c.idx /\ d.next = c.next
  BY <1>1 DEF Keeps, Fields
<1>3. Leads(d, e, ReadyFields, n, lv, p, med, u, i)
  BY <1>1, <1>2, ReadyIndexGood DEF Leads
<1> HIDE DEF e
<1>6. Leads(e, g, ReadyFields, n, lv, p, med, u, i)
  <2>1. /\ Good(e, n, lv, p, med, u, i) /\ Counted(e, x)
        /\ FreeIn(e.idx, e.media, {})
    BY <1>0, <1>3 DEF Leads
  <2> HIDE DEF x
  <2>2. /\ Good(g, n, lv, p, med, u, i) /\ FreeIn(g.idx, g.media, {})
        /\ Counted(g, x) /\ NonForced(e, g)
    BY <1>0, <2>1, FreeNonForcedGood
  <2> HIDE DEF g
  <2>3. Keeps(e, g, ReadyFields)
    BY <2>2 DEF NonForced, Keeps, ReadyFields, PersistFields
  <2> QED
    BY <1>0, <2>2, <2>3 DEF Leads
<1> HIDE DEF g
<1>7. Leads(g, h, {"acked"}, n, lv, p, med, u, i)
  BY <1>6, AckFramesIdleGood DEF Leads
<1> HIDE DEF h
<1>8. Leads(c, e, ReadyFields, n, lv, p, med, u, i)
  BY <1>1, <1>3, LeadsOn
<1>9. Leads(c, g, ReadyFields, n, lv, p, med, u, i)
  BY <1>6, <1>8, LeadsOn
<1>10. {"acked"} \subseteq ReadyFields
  BY DEF ReadyFields, PersistFields, TrimFields, FreeFields
<1>11. Leads(c, h, ReadyFields, n, lv, p, med, u, i)
  BY <1>7, <1>9, <1>10, LeadsOn
<1> QED
  BY <1>0, <1>11

\* The bucket of the next index is the same, unless that starts one.
LEMMA NextBucket ==
    ASSUME NEW n \in Nat, NEW m, m = n + 1
    PROVE  /\ BucketOf(n) \in Nat /\ BucketOf(m) \in Nat
           /\ m % BucketSize # 0 => BucketOf(m) = BucketOf(n)
           /\ m % BucketSize = 0 => BucketOf(m) = BucketOf(n) + 1
<1> DEFINE B == BucketSize
           q == n \div B
           r == n % B
           s == m \div B
           t == m % B
           x == B * q
           y == B * s
<1>1. B \in Nat \ {0} /\ m \in Nat
  BY SegmentPersistAssumption
<1>2. /\ q \in Nat /\ r \in 0 .. B - 1 /\ n = x + r
      /\ s \in Nat /\ t \in 0 .. B - 1 /\ m = y + t
  BY <1>1, Division
<1>3. q * B = x /\ s * B = y /\ x \in Nat /\ y \in Nat
  BY <1>1, <1>2, Product
<1>4. (q + 1) * B = x + B /\ q + 1 \in Nat
  BY <1>1, <1>2
<1>5. /\ s = q <=> (x <= m /\ m < x + B)
      /\ s = q + 1 <=> (x + B <= m /\ m < x + B + B)
  <2> DEFINE z == q + 1
  <2>1. z \in Nat /\ z * B = x + B
    BY <1>4
  <2> HIDE DEF z, q, x
  <2>2. m \div B = q <=> (q * B <= m /\ m < q * B + B)
    BY <1>1, <1>2, DivisionInterval
  <2>3. m \div B = z <=> (z * B <= m /\ m < z * B + B)
    BY <1>1, <2>1, DivisionInterval
  <2> QED
    BY <1>3, <2>1, <2>2, <2>3 DEF z
<1>6. q <= s <=> x <= y
  BY <1>1, <1>2, <1>3, TimesOrder
<1>7. q + 1 <= s <=> x + B <= y
  BY <1>1, <1>2, <1>3, <1>4, TimesOrder
<1> HIDE DEF q, r, s, t, x, y, B
<1>8. s = q \/ s = q + 1
  BY <1>1, <1>2, <1>3, <1>5
<1>9. t # 0 => s = q
  BY <1>1, <1>2, <1>3, <1>5, <1>6, <1>7, <1>8
<1>10. t = 0 => s = q + 1
  BY <1>1, <1>2, <1>3, <1>5, <1>6, <1>7, <1>8
<1> QED
  BY <1>2, <1>9, <1>10 DEF q, s, t, B, BucketOf

\* The bucket that is to be written yet is the one of the index m, and not
\* complete.
LastOK(b, m) == b = -1 \/ (b = BucketOf(m) /\ m % BucketSize # 0)

\* d is c after SegmentCreated; m is the next index.
CreatedTo(c, d, m, lv, med, i) ==
    /\ Leads(c, d, LastFields, m, lv, BucketOf(m), med, {}, i)
    /\ LastOK(d.lastBucket, m)

\* The bucket of the last segment is written when it is complete.
LEMMA SegmentCreatedGood ==
    ASSUME NEW c, NEW exists \in BOOLEAN, NEW n \in Nat, NEW m,
           NEW lv \in Int, NEW med, NEW i,
           Good(c, m, lv, BucketOf(n), med, {}, i), Counted(c, 0),
           FreeIn(c.idx, c.media, {}), med \subseteq Nat, c.next = n,
           m = n + 1, c.lastBucket \in {-1, BucketOf(n)}
    PROVE  CreatedTo(c, SegmentCreated(c, exists), m, lv, med, i)
<1> DEFINE b == BucketOf(n)
           q == BucketOf(m)
           g == SegmentCreated(c, exists)
           u == {}
<1>1. /\ b \in Nat /\ q \in Nat /\ m \in Nat
      /\ m % BucketSize # 0 => q = b
      /\ m % BucketSize = 0 => q = b + 1
  BY NextBucket
<1>2. g = IF m % BucketSize # 0
          THEN [c EXCEPT !.lastBucket = IF exists THEN b ELSE @]
          ELSE IF exists \/ c.lastBucket # -1
          THEN [MediaWrite(c, b) EXCEPT !.lastBucket = -1]
          ELSE c
  BY DEF SegmentCreated, LastBucketWritten
<1>3. Good(c, m, lv, b, med, u, i) /\ c.lastBucket \in {-1, b}
  OBVIOUS
<1> HIDE DEF b, q, u, g
<1>4. /\ b \in Int /\ q \in Int /\ b <= q /\ b <= b
  BY <1>1, SegmentPersistAssumption
<1>5. ASSUME NEW d, NEW x \in Int,
             Leads(c, d, MediaFields, m, lv, q, med, u, i),
             Keeps(d, g, {"lastBucket"}), g.lastBucket = x
      PROVE  Leads(c, g, LastFields, m, lv, q, med, u, i)
  <2>1. Chan(g)
    BY <1>5 DEF Leads, Good, Chan, Keeps, Fields
  <2>2. Scalars(g, m, lv, u)
    <3>1. /\ g.next = d.next /\ g.min = d.min /\ g.trunc = d.trunc
          /\ g.lastReady = d.lastReady /\ g.success = d.success
          /\ g.cut = d.cut /\ g.tl = d.tl /\ g.iw = d.iw
      BY <1>5 DEF Keeps, Fields
    <3> QED
      BY <1>5, <3>1 DEF Leads, Good, Scalars
  <2>3. Keeps(d, g, LastFields \cap AsideFields)
    BY <1>5 DEF Keeps, LastFields, AsideFields
  <2> QED
    BY <1>5, <2>1, <2>2, <2>3, AsideLeads DEF LastFields
<1>6. CASE m % BucketSize # 0
  <2> DEFINE x == IF exists THEN b ELSE c.lastBucket
  <2>1. g = [c EXCEPT !.lastBucket = x]
    BY <1>2, <1>6
  <2>2. x \in Int /\ x \in {-1, q}
    BY <1>1, <1>3, <1>6
  <2> HIDE DEF x
  <2>3. Keeps(c, g, {"lastBucket"}) /\ g.lastBucket = x
    BY <1>3, <2>1 DEF Good, Chan, Keeps, Fields
  <2>4. Leads(c, c, MediaFields, m, lv, q, med, u, i)
    BY <1>1, <1>3, <1>6, LeadsNone DEF u
  <2>5. Leads(c, g, LastFields, m, lv, q, med, u, i)
    BY <1>5, <2>2, <2>3, <2>4
  <2> QED
    BY <1>6, <2>2, <2>3, <2>5 DEF CreatedTo, LastOK, g, q, u
<1>7. CASE m % BucketSize = 0 /\ (exists \/ c.lastBucket # -1)
  <2> DEFINE d == MediaWrite(c, b)
  <2>1. g = [d EXCEPT !.lastBucket = -1] /\ q = b + 1
    BY <1>1, <1>2, <1>7
  <2>2. Leads(c, d, MediaFields, m, lv, q, med, u, i)
    BY <1>1, <1>3, <1>4, <2>1, MediaWriteGood
  <2> HIDE DEF d
  <2>3. Keeps(d, g, {"lastBucket"}) /\ g.lastBucket = -1 /\ -1 \in Int
    BY <2>1, <2>2 DEF Leads, Good, Chan, Keeps, Fields
  <2>4. Leads(c, g, LastFields, m, lv, q, med, u, i)
    BY <1>5, <2>2, <2>3
  <2> QED
    BY <2>3, <2>4 DEF CreatedTo, LastOK, g, q, u
<1>8. CASE m % BucketSize = 0 /\ ~exists /\ c.lastBucket = -1
  <2>1. g = c
    BY <1>2, <1>8
  <2>2. Good(c, m, lv, q, med, u, i)
    BY <1>3, <1>4, LaterBuckets
  <2>3. Leads(c, c, LastFields, m, lv, q, med, u, i)
    BY <2>2, LeadsNone
  <2> QED
    BY <1>8, <2>1, <2>3 DEF CreatedTo, LastOK, g, q, u
<1> QED
  BY <1>6, <1>7, <1>8

-----------------------------------------------------------------------------
(* The channel between the steps *)

\* What holds of a channel between the steps.
Standing(c, lv, med, i) ==
    /\ Good(c, c.next, lv, BucketOf(c.next), med, {}, i)
    /\ Counted(c, 0) /\ FreeIn(c.idx, c.media, {})
    /\ c.lastReady < c.next /\ lv < c.next
    /\ LastOK(c.lastBucket, c.next)

\* It stands, with the next index and what is known of the full index.
StandingAt(d, n, lv, med, i, success) ==
    Standing(d, lv, med, i) /\ d.next = n /\ d.success = success

\* A step ends with d, and n is the next index.
Finishes(c, d, n) ==
    Keeps(c, d, {"fail", "noFree", "next"}) /\ d.noFree \in BOOLEAN
    /\ d.next = n

\* What is good with the indexes below m is good with those below n.
LEMMA LaterIndexes ==
    ASSUME NEW c, NEW m \in Nat, NEW n \in Nat, NEW lv, m <= n, Chan(c),
           Order(c.idx, c.iw, c.pend, m, lv)
    PROVE  Order(c.idx, c.iw, c.pend, n, lv)
<1>1. \A j \in DOMAIN c.idx : j \in Nat /\ j < n
  BY DEF Order, Chan, IdxType
<1>2. ASSUME NEW k \in HeldIn(c.idx) PROVE HeldOK(c.idx, k, n)
  <2>1. HeldOK(c.idx, k, m)
    BY DEF Order
  <2>2. c.idx[k].snap[1].max \in Nat
    <3>1. c.idx[k].snap \in Opt(SnapType) /\ c.idx[k].snap # None
      BY EntryHas DEF HeldIn, Chan, IdxType
    <3> QED
      BY <3>1, SnapHas
  <2> QED
    BY <2>1, <2>2 DEF HeldOK
<1>3. c.iw # None => WriteOK(c.idx, c.iw[1], n, lv)
  <2>1. c.iw # None => c.iw[1].max \in Nat
    BY FileHas DEF Chan
  <2> QED
    BY <2>1 DEF Order, WriteOK
<1>4. c.pend # None => WriteOK(c.idx, c.pend[1], n, lv)
  <2>1. c.pend # None => c.pend[1].max \in Nat
    BY SnapHas DEF Chan
  <2> QED
    BY <2>1 DEF Order, WriteOK
<1> QED
  BY <1>1, <1>2, <1>3, <1>4 DEF Order

\* What is good is good when the next index is n.
LEMMA FinishedStands ==
    ASSUME NEW c, NEW d, NEW m \in Nat, NEW n \in Nat, NEW lv, NEW med,
           NEW i, NEW success, m <= n,
           Good(c, m, lv, BucketOf(n), med, {}, i), Counted(c, 0),
           FreeIn(c.idx, c.media, {}), c.next <= n, c.lastReady < n, lv < n,
           LastOK(c.lastBucket, n), c.success = success, Finishes(c, d, n)
    PROVE  StandingAt(d, n, lv, med, i, success)
<1> DEFINE p == BucketOf(n)
           u == {}
<1>1. /\ Keeps(c, d, {"fail", "noFree", "next"})
      /\ d.next = n /\ d.noFree \in BOOLEAN
  BY DEF Finishes
<1>2. /\ d.idx = c.idx /\ d.media = c.media /\ d.tl = c.tl /\ d.iw = c.iw
      /\ d.pend = c.pend /\ d.unsaved = c.unsaved /\ d.health = c.health
      /\ d.conn = c.conn /\ d.connected = c.connected
      /\ d.frames = c.frames /\ d.acked = c.acked
      /\ d.changed = c.changed /\ d.hist = c.hist
      /\ d.snapshots = c.snapshots
      /\ d.min = c.min /\ d.trunc = c.trunc /\ d.lastReady = c.lastReady
      /\ d.success = c.success /\ d.cut = c.cut
      /\ d.lastBucket = c.lastBucket
  BY <1>1 DEF Keeps, Fields
<1>3. Chan(d) /\ Chan(c)
  BY <1>1 DEF Good, Chan, Keeps, Fields
<1>4. Scalars(d, n, lv, u)
  <2>1. Scalars(c, m, lv, u)
    BY DEF Good
  <2> QED
    BY <1>1, <1>2, <1>3, <2>1 DEF Scalars, Chan
<1>5. Order(d.idx, d.iw, d.pend, n, lv)
  BY <1>2, <1>3, LaterIndexes DEF Good
<1> HIDE DEF p, u
<1>6. Good(d, n, lv, p, med, u, i)
  BY <1>2, <1>3, <1>4, <1>5 DEF Good, p, u
<1>7. Counted(d, 0) /\ FreeIn(d.idx, d.media, {})
  BY <1>2 DEF Counted
<1> QED
  BY <1>1, <1>2, <1>6, <1>7 DEF StandingAt, Standing, p, u

\* A step ends where it is.
LEMMA FinishesHere ==
    ASSUME NEW c, Chan(c)
    PROVE  Finishes(c, c, c.next) /\ Finishes(c, Done(c), c.next)
BY DEF Finishes, Done, Keeps, Chan, Fields

\* What leaves the next index alone keeps the channel standing.
LEMMA StepStands ==
    ASSUME NEW c, NEW d, NEW e, NEW F, NEW lv, NEW med, NEW mev, NEW i, NEW j,
           Standing(c, lv, med, i),
           Leads(c, d, F, c.next, lv, BucketOf(c.next), mev, {}, j),
           F \cap {"next", "lastReady", "lastBucket", "success"} = {},
           e \in {d, Done(d)}
    PROVE  StandingAt(e, c.next, lv, mev, j, c.success)
<1> DEFINE n == c.next
<1>1. n \in Nat /\ n <= n
  BY DEF Standing, Good, Chan
<1>2. /\ d.next = n /\ d.lastReady = c.lastReady
      /\ d.lastBucket = c.lastBucket /\ d.success = c.success
  BY DEF Leads, Keeps, Fields
<1>3. Finishes(d, e, n)
  BY <1>2, FinishesHere DEF Leads, Good
<1>4. /\ d.lastReady < n /\ lv < n /\ LastOK(d.lastBucket, n)
      /\ d.next <= n
  BY <1>1, <1>2 DEF Standing
<1>5. /\ Good(d, n, lv, BucketOf(n), mev, {}, j) /\ Counted(d, 0)
      /\ FreeIn(d.idx, d.media, {})
  BY DEF Leads
<1> HIDE DEF n
<1>6. StandingAt(e, n, lv, mev, j, c.success)
  BY <1>1, <1>2, <1>3, <1>4, <1>5, FinishedStands
<1> QED
  BY <1>6 DEF n

\* d is c after a segment, with the segments S of the timeline.
GetsSegment(c, d, S, exists) ==
    d = [Done(IndexReady(IndexCreate(TimelineKeeps(c, S)), exists))
            EXCEPT !.next = @ + 1]

\* A segment is created, and all that happens with it.
LEMMA CreateGood ==
    ASSUME NEW c, NEW d, NEW S, NEW exists \in BOOLEAN, NEW n, NEW m,
           NEW lv \in Int, NEW med, NEW i, Standing(c, lv, med, i),
           med \subseteq Nat, S \subseteq c.tl \cup {n}, c.next = n,
           m = n + 1, GetsSegment(c, d, S, exists)
    PROVE  StandingAt(d, m, lv, med, i, c.success)
<1> DEFINE p == BucketOf(n)
           u == {n}
           none == {}
           e == TimelineKeeps(c, S)
           f == IndexCreate(e)
           g == ReadyOf(f, exists)
           h == SegmentCreated(g, exists)
<1>1. /\ n \in Nat /\ m \in Nat /\ OneMore(n, m) /\ p \in Nat /\ p \in Int
      /\ u \subseteq {n} /\ S \subseteq c.tl \cup u /\ p <= BucketOf(n)
  <2>1. n \in Nat
    BY DEF Standing, Good, Chan
  <2> QED
    BY <2>1, NextBucket DEF OneMore
<1>2. /\ Good(c, n, lv, p, med, none, i) /\ Counted(c, 0)
      /\ FreeIn(c.idx, c.media, {}) /\ lv < n
      /\ c.lastBucket \in {-1, p} /\ Chan(c)
  BY DEF Standing, LastOK, Good
<1>3. h = IndexReady(f, exists)
  BY DEF IndexReady, ReadyOf, ReadyMark, ReadyIndex
<1> HIDE DEF p, u, none
<1>4. Leads(c, e, TimelineFields, n, lv, p, med, u, i)
  BY <1>1, <1>2, TimelineKeepsGood DEF none
<1> HIDE DEF e
<1>5. e.next = n /\ e.lastBucket = c.lastBucket /\ e.success = c.success
  BY <1>4 DEF Leads, Keeps, Fields, TimelineFields, FreeFields
<1>6. /\ Good(f, m, lv, p, med, none, i) /\ Counted(f, 0)
      /\ FreeIn(f.idx, f.media, {}) /\ Created(e, f)
  BY <1>1, <1>2, <1>4, <1>5, IndexCreateGood DEF Leads, none, p
<1> HIDE DEF f
<1>7. /\ f.next = n /\ f.lastBucket = c.lastBucket /\ f.success = c.success
      /\ f.next \in HeldIn(f.idx)
  BY <1>5, <1>6 DEF Created, Keeps, Fields, HeldIn
<1>8. Leads(f, g, ReadyFields, m, lv, p, med, none, i)
  BY <1>1, <1>6, <1>7, ReadyGood
<1> HIDE DEF g
<1>9. g.next = n /\ g.lastBucket = c.lastBucket /\ g.success = c.success
  BY <1>7, <1>8
     DEF Leads, Keeps, Fields, ReadyFields, PersistFields, TrimFields,
         FreeFields, PassFields
<1>10. CreatedTo(g, h, m, lv, med, i)
  BY <1>1, <1>2, <1>8, <1>9, SegmentCreatedGood DEF Leads, none, p
<1> HIDE DEF h
<1>11. h.next = n /\ h.success = c.success /\ Chan(h)
  BY <1>9, <1>10
     DEF CreatedTo, Leads, Keeps, Fields, LastFields, MediaFields, Good,
         PersistFields, TrimFields, FreeFields, PassFields
<1>12. Finishes(h, d, m)
  <2>1. d = [Done(h) EXCEPT !.next = @ + 1]
    BY <1>3 DEF GetsSegment, f, e
  <2> QED
    BY <1>11, <2>1 DEF Finishes, Done, Keeps, Chan, Fields
<1>13. h.next <= m /\ h.lastReady < m /\ lv < m /\ m <= m
  <2>1. h.lastReady <= h.next /\ h.lastReady \in Int
    BY <1>10, <1>11 DEF CreatedTo, Leads, Good, Scalars, Chan
  <2> QED
    BY <1>1, <1>2, <1>11, <2>1
<1> QED
  BY <1>1, <1>10, <1>11, <1>12, <1>13, FinishedStands DEF CreatedTo, Leads

-----------------------------------------------------------------------------
(* The write of a bucket ends *)

\* c is without the write w; mev has what is then in storage.
WriteEnds(c, e, w, ok, med, mev) ==
    /\ ok \in BOOLEAN /\ w \in c.media
    /\ Keeps(c, e, {"media"}) /\ e.media = c.media \ {w}
    /\ mev = IF ok THEN med \cup w.segs ELSE med

\* Its bucket ends, and nothing else is touched by what it wrote.
LEMMA WriteEndsGood ==
    ASSUME NEW c, NEW e, NEW w, NEW ok, NEW mev, NEW n \in Nat,
           NEW lv \in Int, NEW p \in Int, NEW med, NEW u, NEW i,
           Good(c, n, lv, p, med, u, i), FreeIn(c.idx, c.media, {}),
           WriteEnds(c, e, w, ok, med, mev)
    PROVE  /\ Good(e, n, lv, p, mev, u, i)
           /\ BucketEnds(e, w.bucket, ok, {w.at}, p, mev)
<1> DEFINE b == w.bucket
           X == {w.at}
           K == InBucket(e.idx, b)
           P == PendingIn(c.idx)
<1>1. /\ Chan(c) /\ w \in c.media /\ ok \in BOOLEAN
      /\ e.media = c.media \ {w} /\ med \subseteq mev
      /\ ok => w.segs \subseteq mev
      /\ \A k \in mev : k \in med \/ k \in w.segs
  BY DEF Good, WriteEnds
<1>2. /\ e.idx = c.idx /\ e.tl = c.tl /\ e.iw = c.iw /\ e.pend = c.pend
      /\ e.unsaved = c.unsaved /\ e.health = c.health /\ e.conn = c.conn
      /\ e.connected = c.connected /\ e.frames = c.frames
      /\ e.acked = c.acked /\ e.changed = c.changed /\ e.hist = c.hist
      /\ e.next = c.next /\ e.min = c.min /\ e.trunc = c.trunc
      /\ e.lastReady = c.lastReady /\ e.success = c.success
      /\ e.cut = c.cut
  BY DEF WriteEnds, Keeps, Fields
<1>3. Flight(c.idx, c.media, p, med) /\ FlightOK(c.idx, w, p, med)
  BY <1>1 DEF Good, Flight
<1>4. /\ w.at \in P /\ w.at \in w.segs /\ b < p /\ b \in Nat
      /\ \A k \in w.segs : w.at <= k /\ BucketOf(k) = b
      /\ \A k \in DOMAIN c.idx : BucketOf(k) = b => k \in w.segs
  BY <1>1, <1>3 DEF FlightOK, Chan, MediaType
<1>5. \A v \in e.media : v \in c.media /\ v.bucket # b
  BY <1>1, <1>3 DEF Flight
<1>6. Chan(e)
  BY <1>1, <1>2 DEF WriteEnds, Keeps, Chan, Fields
<1>7. Scalars(e, n, lv, u)
  BY <1>2 DEF Good, Scalars
<1>8. Order(e.idx, e.iw, e.pend, n, lv)
  BY <1>2 DEF Good
<1>9. Flight(e.idx, e.media, p, mev)
  <2>1. ASSUME NEW v \in e.media PROVE FlightOK(e.idx, v, p, mev)
    <3>1. FlightOK(c.idx, v, p, med) /\ v.bucket # b
      BY <1>3, <1>5 DEF Flight
    <3>2. \A k \in mev : BucketOf(k) # v.bucket
      BY <1>1, <1>4, <3>1 DEF FlightOK
    <3> QED
      BY <1>2, <3>1, <3>2 DEF FlightOK
  <2>2. \A k \in mev : BucketOf(k) < p
    BY <1>1, <1>3, <1>4 DEF Flight
  <2> QED
    BY <1>2, <1>3, <1>5, <2>1, <2>2 DEF Flight
<1>10. Stored(e.idx, e.tl, e.iw, e.unsaved, e.health, mev, u, i)
  <2>1. Stored(c.idx, c.tl, c.iw, c.unsaved, c.health, med, u, i)
    BY DEF Good
  <2> QED
    BY <1>1, <1>2, <2>1 DEF Stored
<1>11. /\ Known(e.idx, e.iw, e.pend, e.conn, e.connected, e.frames, e.acked)
       /\ History(e.iw, e.changed, e.hist, e.health, i)
  BY <1>2 DEF Good
<1>12. Good(e, n, lv, p, mev, u, i)
  BY <1>6, <1>7, <1>8, <1>9, <1>10, <1>11 DEF Good
<1>13. FreeIn(e.idx, e.media, X)
  <2> SUFFICES ASSUME NEW j \in PendingIn(e.idx), e.idx[j].free
               PROVE  FlightAt(e.media, j) \/ j \in X
    BY DEF FreeIn
  <2>1. PICK v \in c.media : v.at = j
    BY <1>2 DEF FreeIn, FlightAt
  <2> QED
    BY <1>1, <2>1 DEF FlightAt
<1>14. Ends(e, K, b, ok, X, p, mev)
  <2>1. \A k \in K : k \in w.segs
    BY <1>2, <1>4 DEF InBucket
  <2>2. X \subseteq K
    BY <1>2, <1>4 DEF InBucket, PendingIn
  <2>3. ok => K \subseteq mev
    BY <1>1, <2>1
  <2> HIDE DEF K, X
  <2> QED
    BY <1>1, <1>4, <1>5, <1>13, <2>2, <2>3 DEF Ends, K
<1>15. FirstOf(e.idx, b, X)
  BY <1>2, <1>4 DEF FirstOf, InBucket
<1> QED
  BY <1>4, <1>12, <1>14, <1>15 DEF BucketEnds

\* What Persisted preserves when the write of a bucket ends.
LEMMA WriteEndGood ==
    ASSUME NEW c, NEW e, NEW w, NEW ok, NEW mev, NEW n \in Nat,
           NEW lv \in Int, NEW p \in Int, NEW med, NEW u, NEW i,
           Good(c, n, lv, p, med, u, i), FreeIn(c.idx, c.media, {}),
           Counted(c, 0), WriteEnds(c, e, w, ok, med, mev)
    PROVE  LET d == Persisted(e, w.bucket, ok) IN
           /\ Leads(c, d, MediaFields, n, lv, p, mev, u, i)
           /\ c.noFree => DOMAIN d.idx = DOMAIN c.idx
           /\ SavedIf(c, d, ok)
<1> DEFINE b == w.bucket
           X == {w.at}
           d == Persisted(e, b, ok)
<1>1. Good(e, n, lv, p, mev, u, i) /\ BucketEnds(e, b, ok, X, p, mev)
  BY WriteEndsGood
<1>2. e.idx = c.idx /\ e.noFree = c.noFree /\ Keeps(c, e, {"media"})
  BY DEF WriteEnds, Keeps, Fields
<1>3. Counted(e, 0)
  <2>1. e.iw = c.iw /\ e.pend = c.pend /\ e.snapshots = c.snapshots
    BY <1>2 DEF Keeps, Fields
  <2> QED
    BY <1>2, <2>1 DEF Counted
<1> HIDE DEF b, X
<1>4. /\ Leads(e, d, PersistFields, n, lv, p, mev, u, i)
      /\ e.noFree => DOMAIN d.idx = DOMAIN e.idx
      /\ SavedIf(e, d, ok)
  BY <1>1, <1>3, PersistedGood
<1> HIDE DEF d
<1>5. Leads(c, d, MediaFields, n, lv, p, mev, u, i)
  BY <1>2, <1>4 DEF Leads, Keeps, MediaFields
<1>6. SavedIf(c, d, ok)
  BY <1>2, <1>4 DEF SavedIf
<1> QED
  BY <1>2, <1>4, <1>5, <1>6 DEF d, b

-----------------------------------------------------------------------------
(* Memory is low *)

LowFields == MediaFields \cup {"noFree"}

\* no_free is set and reset around what may free an index.
LEMMA NoFreeSet ==
    ASSUME NEW c, NEW v \in BOOLEAN, NEW n, NEW lv, NEW p, NEW med, NEW u,
           NEW i, Good(c, n, lv, p, med, u, i), Counted(c, 0),
           FreeIn(c.idx, c.media, {})
    PROVE  LET d == [c EXCEPT !.noFree = v] IN
           /\ Leads(c, d, {"noFree"}, n, lv, p, med, u, i)
           /\ d.noFree = v /\ d.idx = c.idx /\ d.media = c.media
           /\ d.next = c.next
<1> DEFINE d == [c EXCEPT !.noFree = v]
           F == {"noFree"}
<1>1. Keeps(c, d, F) /\ d.noFree = v
  BY DEF Good, Chan, Keeps, Fields
<1> HIDE DEF d
<1>2. Leads(c, c, F, n, lv, p, med, u, i)
  BY LeadsNone
<1>3. Chan(d)
  BY <1>1 DEF Good, Chan, Keeps, Fields
<1>4. /\ d.next = c.next /\ d.min = c.min /\ d.trunc = c.trunc
      /\ d.lastReady = c.lastReady /\ d.success = c.success
      /\ d.cut = c.cut /\ d.tl = c.tl /\ d.iw = c.iw
      /\ d.idx = c.idx /\ d.media = c.media
  BY <1>1 DEF Keeps, Fields
<1>5. Scalars(d, n, lv, u)
  BY <1>4 DEF Good, Scalars
<1>6. Keeps(c, d, F \cap AsideFields)
  BY <1>1 DEF Keeps, AsideFields
<1> HIDE DEF F
<1>7. Leads(c, d, F, n, lv, p, med, u, i)
  BY <1>2, <1>3, <1>5, <1>6, AsideLeads
<1> QED
  BY <1>1, <1>4, <1>7 DEF d, F

\* The write of the media of the index k is given up; no index is removed.
LEMMA CancelMediaGood ==
    ASSUME NEW c, NEW k, NEW n \in Nat, NEW lv \in Int, NEW p \in Int,
           NEW med, NEW u, NEW i, Good(c, n, lv, p, med, u, i),
           Counted(c, 0), FreeIn(c.idx, c.media, {}), c.noFree
    PROVE  LET d == CancelMedia(c, k) IN
           /\ Leads(c, d, MediaFields, n, lv, p, med, u, i)
           /\ DOMAIN d.idx = DOMAIN c.idx
<1>1. CASE InFlight(c, k)
  <2> DEFINE w == CHOOSE w \in c.media : w.at = k
             e == [c EXCEPT !.media = @ \ {w}]
             ok == FALSE
             d == Persisted(e, w.bucket, ok)
  <2>1. w \in c.media
    BY <1>1 DEF InFlight
  <2>2. CancelMedia(c, k) = d
    BY <1>1 DEF CancelMedia
  <2> HIDE DEF w
  <2>3. Keeps(c, e, {"media"}) /\ e.media = c.media \ {w}
    BY DEF Good, Chan, Keeps, Fields
  <2> HIDE DEF e
  <2>4. WriteEnds(c, e, w, ok, med, med)
    BY <2>1, <2>3 DEF WriteEnds
  <2> HIDE DEF ok
  <2>5. /\ Leads(c, d, MediaFields, n, lv, p, med, u, i)
        /\ c.noFree => DOMAIN d.idx = DOMAIN c.idx
    BY <2>4, WriteEndGood
  <2> QED
    BY <2>2, <2>5
<1>2. CASE ~InFlight(c, k)
  <2>1. CancelMedia(c, k) = c
    BY <1>2 DEF CancelMedia
  <2>2. Leads(c, c, MediaFields, n, lv, p, med, u, i)
    BY LeadsNone
  <2> QED
    BY <2>1, <2>2
<1> QED
  BY <1>1, <1>2

\* d is c after the handlers of the index k.
Lowered(c, d, k, n, lv, p, med, u, i) ==
    /\ Leads(c, d, LowFields, n, lv, p, med, u, i)
    /\ DOMAIN c.idx \ {k} \subseteq DOMAIN d.idx

\* The handlers of one index, when memory is low.
LEMMA WatermarkOneGood ==
    ASSUME NEW c, NEW k \in DOMAIN c.idx, NEW n \in Nat, NEW lv \in Int,
           NEW p \in Int, NEW med, NEW u, NEW i,
           Good(c, n, lv, p, med, u, i), Counted(c, 0),
           FreeIn(c.idx, c.media, {}), k <= c.next
    PROVE  Lowered(c, WatermarkOne(c, k), k, n, lv, p, med, u, i)
<1> DEFINE d == [c EXCEPT !.noFree = TRUE]
           e == CancelMedia(d, k)
           f == [e EXCEPT !.noFree = FALSE]
           g == IndexFree(f, k)
           x == 0
<1>1. WatermarkOne(c, k) = g /\ x = 0 /\ x \in Int
  BY DEF WatermarkOne
<1>2. /\ Leads(c, d, {"noFree"}, n, lv, p, med, u, i)
      /\ d.noFree /\ d.idx = c.idx /\ d.media = c.media /\ d.next = c.next
  BY NoFreeSet
<1> HIDE DEF d, x
<1>3. /\ Leads(d, e, MediaFields, n, lv, p, med, u, i)
      /\ DOMAIN e.idx = DOMAIN d.idx
  BY <1>2, CancelMediaGood DEF Leads
<1> HIDE DEF e
<1>4. e.next = c.next
  BY <1>2, <1>3 DEF Leads, Keeps, Fields, MediaFields, PersistFields,
                    TrimFields, FreeFields, PassFields
<1>5. /\ Leads(e, f, {"noFree"}, n, lv, p, med, u, i)
      /\ f.idx = e.idx /\ f.media = e.media /\ f.next = e.next
  BY <1>3, NoFreeSet DEF Leads
<1> HIDE DEF f
<1>6. k \in DOMAIN f.idx /\ k <= f.next /\ Counted(f, x)
  BY <1>1, <1>2, <1>3, <1>4, <1>5 DEF Leads
<1>7. /\ Good(g, n, lv, p, med, u, i) /\ FreeIn(g.idx, g.media, {})
      /\ Counted(g, x)
  BY <1>1, <1>5, <1>6, IndexFreeGood DEF Leads
<1>8. Freed(f, g, {k})
  BY <1>5, <1>6, IndexFreeFreed DEF Leads, Good
<1> HIDE DEF g
<1>9. Leads(f, g, LowFields, n, lv, p, med, u, i)
  <2>1. Keeps(f, g, LowFields)
    BY <1>8 DEF Freed, Keeps, LowFields, MediaFields, PersistFields,
                TrimFields
  <2> QED
    BY <1>1, <1>7, <2>1 DEF Leads
<1>10. {"noFree"} \subseteq LowFields /\ MediaFields \subseteq LowFields
  BY DEF LowFields
<1>11. Leads(c, e, LowFields, n, lv, p, med, u, i)
  BY <1>2, <1>3, <1>10, LeadsOn
<1>12. Leads(c, f, LowFields, n, lv, p, med, u, i)
  BY <1>5, <1>10, <1>11, LeadsOn
<1>13. Leads(c, g, LowFields, n, lv, p, med, u, i)
  BY <1>9, <1>12, LeadsOn
<1>14. DOMAIN c.idx \ {k} \subseteq DOMAIN g.idx
  BY <1>2, <1>3, <1>5, <1>8 DEF Freed
<1> QED
  BY <1>1, <1>13, <1>14 DEF Lowered

\* h has the channel after the handlers of each of the indexes.
LowRun(h, c, K, n) ==
    h = [m \in 0 .. n |->
            IF m = 0 THEN c
            ELSE IF m - 1 \in K THEN WatermarkOne(h[m - 1], m - 1)
            ELSE h[m - 1]]

LowAll(c, K, n) == InOrder(WatermarkOne, c, K, n)

\* There is such an h,
LEMMA LowRunExists ==
    ASSUME NEW c, NEW K, NEW n \in Nat
    PROVE  \E h : LowRun(h, c, K, n)
<1> DEFINE S == {m \in Nat : \E h : LowRun(h, c, K, m)}
<1>1. 0 \in S
  <2>1. LowRun([m \in 0 .. 0 |-> c], c, K, 0)
    BY DEF LowRun
  <2> QED
    BY <2>1
<1>2. ASSUME NEW m \in 0 .. n - 1, m \in S PROVE m + 1 \in S
  <2>1. PICK h : LowRun(h, c, K, m)
    BY <1>2
  <2> DEFINE e == IF m \in K THEN WatermarkOne(h[m], m) ELSE h[m]
             g == [j \in 0 .. m + 1 |-> IF j = m + 1 THEN e ELSE h[j]]
  <2>2. g = [j \in 0 .. m + 1 |->
                IF j = 0 THEN c
                ELSE IF j - 1 \in K THEN WatermarkOne(g[j - 1], j - 1)
                ELSE g[j - 1]]
    <3> SUFFICES ASSUME NEW j \in 0 .. m + 1
                 PROVE  g[j] = IF j = 0 THEN c
                               ELSE IF j - 1 \in K
                               THEN WatermarkOne(g[j - 1], j - 1)
                               ELSE g[j - 1]
      OBVIOUS
    <3>1. CASE j = m + 1
      <4>1. j # 0 /\ j - 1 = m /\ m # m + 1 /\ m \in 0 .. m + 1
        BY <3>1
      <4>2. g[j] = e /\ g[m] = h[m]
        BY <3>1, <4>1
      <4> HIDE DEF g
      <4> QED
        BY <4>1, <4>2
    <3>2. CASE j = 0
      <4>1. g[j] = h[0]
        BY <3>2
      <4>2. h[0] = c
        BY <2>1 DEF LowRun
      <4> HIDE DEF g
      <4> QED
        BY <3>2, <4>1, <4>2
    <3>3. CASE j \in 1 .. m
      <4>1. j # 0 /\ j # m + 1 /\ j - 1 # m + 1 /\ j \in 0 .. m
            /\ j - 1 \in 0 .. m + 1
        BY <3>3
      <4>2. g[j] = h[j] /\ g[j - 1] = h[j - 1]
        BY <4>1
      <4>3. h[j] = IF j - 1 \in K THEN WatermarkOne(h[j - 1], j - 1)
                   ELSE h[j - 1]
        BY <2>1, <4>1 DEF LowRun
      <4> HIDE DEF g
      <4> QED
        BY <4>1, <4>2, <4>3
    <3> QED
      BY <3>1, <3>2, <3>3
  <2> HIDE DEF g
  <2>3. LowRun(g, c, K, m + 1)
    BY <2>2 DEF LowRun
  <2> QED
    BY <2>3
<1> HIDE DEF S
<1>3. n \in S
  BY <1>1, <1>2, UpTo
<1> QED
  BY <1>3 DEF S

\* and the last of it is what InOrder gives.
LEMMA LowRunGives ==
    ASSUME NEW c, NEW K, NEW n \in Nat
    PROVE  \E h : /\ h[0] = c /\ h[n] = LowAll(c, K, n)
                  /\ \A m \in 0 .. n - 1 :
                        h[m + 1] = IF m \in K THEN WatermarkOne(h[m], m)
                                   ELSE h[m]
<1> DEFINE h == CHOOSE h : LowRun(h, c, K, n)
<1>1. LowRun(h, c, K, n)
  BY LowRunExists
<1>2. LowAll(c, K, n) = h[n]
  BY DEF LowAll, InOrder, LowRun
<1> HIDE DEF h
<1>3. h[0] = c
  BY <1>1 DEF LowRun
<1>4. ASSUME NEW m \in 0 .. n - 1
      PROVE  h[m + 1] = IF m \in K THEN WatermarkOne(h[m], m) ELSE h[m]
  <2> DEFINE j == m + 1
  <2>1. j \in 0 .. n /\ j # 0 /\ j - 1 = m
    OBVIOUS
  <2> HIDE DEF j
  <2>2. h[j] = IF j - 1 \in K THEN WatermarkOne(h[j - 1], j - 1) ELSE h[j - 1]
    BY <1>1, <2>1 DEF LowRun
  <2>3. h[j] = IF m \in K THEN WatermarkOne(h[m], m) ELSE h[m]
    BY <2>1, <2>2
  <2> QED
    BY <2>3 DEF j
<1> QED
  BY <1>2, <1>3, <1>4

\* Of c the indexes below m were handled.
LowSoFar(c, d, m, n, lv, p, med, u, i) ==
    /\ Leads(c, d, LowFields, n, lv, p, med, u, i)
    /\ \A j \in DOMAIN c.idx : m <= j => j \in DOMAIN d.idx

\* The indexes are handled in order.
LEMMA LowAllGood ==
    ASSUME NEW c, NEW K, NEW n \in Nat, NEW lv \in Int, NEW p \in Int,
           NEW med, NEW u, NEW i, NEW m \in Nat,
           Good(c, n, lv, p, med, u, i), Counted(c, 0),
           FreeIn(c.idx, c.media, {}), K \subseteq DOMAIN c.idx, m = c.next
    PROVE  Leads(c, LowAll(c, K, m), LowFields, n, lv, p, med, u, i)
<1>1. PICK h : /\ h[0] = c /\ h[m] = LowAll(c, K, m)
               /\ \A j \in 0 .. m - 1 :
                    h[j + 1] = IF j \in K THEN WatermarkOne(h[j], j)
                               ELSE h[j]
  BY LowRunGives
<1> DEFINE T(j) == LowSoFar(c, h[j], j, n, lv, p, med, u, i)
           S == {j \in Nat : T(j)}
<1>2. 0 \in S
  <2>1. Leads(c, c, LowFields, n, lv, p, med, u, i)
    BY LeadsNone
  <2> QED
    BY <1>1, <2>1 DEF LowSoFar
<1>3. ASSUME NEW j \in 0 .. m - 1, j \in S PROVE j + 1 \in S
  <2> DEFINE q == j + 1
             d == h[j]
             e == h[q]
  <2>1. q \in Nat /\ q = j + 1 /\ j \in Nat /\ j < m
    OBVIOUS
  <2>2. e = IF j \in K THEN WatermarkOne(d, j) ELSE d
    BY <1>1
  <2>3. LowSoFar(c, d, j, n, lv, p, med, u, i)
    BY <1>3
  <2> HIDE DEF q, d, e
  <2>4. DOMAIN c.idx \subseteq Nat
    BY DEF Good, Chan, IdxType
  <2>5. d.next = m
    BY <2>3 DEF LowSoFar, Leads, Keeps, Fields, LowFields, MediaFields,
                PersistFields, TrimFields, FreeFields, PassFields
  <2>6. CASE j \in K
    <3>1. j \in DOMAIN d.idx /\ j <= d.next
      BY <2>1, <2>3, <2>5, <2>6 DEF LowSoFar
    <3>2. Lowered(d, WatermarkOne(d, j), j, n, lv, p, med, u, i)
      BY <2>3, <3>1, WatermarkOneGood DEF LowSoFar, Leads
    <3>3. Lowered(d, e, j, n, lv, p, med, u, i)
      BY <2>2, <2>6, <3>2
    <3>4. Leads(c, e, LowFields, n, lv, p, med, u, i)
      BY <2>3, <3>3, LeadsOn DEF LowSoFar, Lowered
    <3> QED
      BY <2>1, <2>3, <2>4, <3>3, <3>4 DEF LowSoFar, Lowered, q, e
  <2>7. CASE j \notin K
    BY <2>1, <2>2, <2>3, <2>4, <2>7 DEF LowSoFar, q, e
  <2> QED
    BY <2>6, <2>7
<1>4. m \in S
  <2> HIDE DEF S
  <2> QED
    BY <1>2, <1>3, UpTo
<1> QED
  BY <1>1, <1>4 DEF LowSoFar

\* Memory is low: the indexes K leave it, and the timeline is cut.
LEMMA LowStanding ==
    ASSUME NEW c, NEW K, NEW lv \in Int, NEW med, NEW i,
           Standing(c, lv, med, i), K \subseteq DOMAIN c.idx
    PROVE  StandingAt(Done(Truncated(InOrder(WatermarkOne, c, K, c.next))),
                      c.next, lv, med, i, c.success)
<1> DEFINE n == c.next
           p == BucketOf(n)
           u == {}
           x == 0
           d == LowAll(c, K, n)
           e == Truncated(d)
           F == LowFields
<1>0. d = InOrder(WatermarkOne, c, K, c.next) /\ x = 0
  BY DEF LowAll
<1>1. n \in Nat /\ n = c.next
  BY DEF Standing, Good, Chan
<1>2. p \in Int
  BY <1>1, SegmentPersistAssumption, Division DEF BucketOf
<1>3. Good(c, n, lv, p, med, u, i) /\ Counted(c, 0) /\ FreeIn(c.idx, c.media, {})
  BY DEF Standing
<1> HIDE DEF n, p, u, x
<1>4. Leads(c, d, F, n, lv, p, med, u, i)
  BY <1>1, <1>2, <1>3, LowAllGood
<1> HIDE DEF d
<1>5. /\ Good(d, n, lv, p, med, u, i) /\ FreeIn(d.idx, d.media, {})
      /\ Counted(d, x)
  BY <1>0, <1>4 DEF Leads
<1>6. /\ Good(e, n, lv, p, med, u, i) /\ FreeIn(e.idx, e.media, {})
      /\ Counted(e, x) /\ Keeps(d, e, {"trunc", "cut", "tl", "excused"})
  BY <1>1, <1>5, TruncatedGood
<1> HIDE DEF e
<1>7. Leads(c, e, F, n, lv, p, med, u, i)
  BY <1>0, <1>4, <1>6 DEF Leads, Keeps, LowFields, MediaFields,
                          PersistFields, TrimFields, FreeFields
<1>8. F \cap {"next", "lastReady", "lastBucket", "success"} = {}
  BY DEF LowFields, MediaFields, PersistFields, TrimFields, FreeFields,
         PassFields
<1>9. Leads(c, e, F, c.next, lv, BucketOf(c.next), med, {}, i)
  BY <1>7 DEF n, p, u
<1> HIDE DEF F
<1>10. StandingAt(Done(e), c.next, lv, med, i, c.success)
  BY <1>8, <1>9, StepStands
<1> QED
  BY <1>0, <1>10 DEF e

\* The timeline loses segments.
LEMMA TimelineStanding ==
    ASSUME NEW c, NEW S, NEW lv \in Int, NEW med, NEW i,
           Standing(c, lv, med, i), S \subseteq c.tl
    PROVE  StandingAt(Done(TimelineKeeps(c, S)), c.next, lv, med, i, c.success)
<1> DEFINE n == c.next
           p == BucketOf(n)
           u == {}
           e == TimelineKeeps(c, S)
           F == TimelineFields
<1>1. n \in Nat /\ n = c.next /\ u \subseteq {n} /\ S \subseteq c.tl \cup u
  BY DEF Standing, Good, Chan
<1>2. Good(c, n, lv, p, med, {}, i) /\ Counted(c, 0) /\ FreeIn(c.idx, c.media, {})
  BY DEF Standing
<1> HIDE DEF n, p, u
<1>3. Leads(c, e, F, n, lv, p, med, u, i)
  BY <1>1, <1>2, TimelineKeepsGood
<1>4. F \cap {"next", "lastReady", "lastBucket", "success"} = {}
  BY DEF TimelineFields, FreeFields
<1> HIDE DEF F, e
<1>5. Leads(c, e, F, c.next, lv, BucketOf(c.next), med, {}, i)
  BY <1>3 DEF n, p, u
<1>6. StandingAt(Done(e), c.next, lv, med, i, c.success)
  BY <1>4, <1>5, StepStands
<1> QED
  BY <1>6 DEF e

\* The write of a bucket is answered.
LEMMA MediaStanding ==
    ASSUME NEW c, NEW e, NEW w, NEW ok, NEW mev, NEW lv \in Int, NEW med,
           NEW i, Standing(c, lv, med, i), WriteEnds(c, e, w, ok, med, mev)
    PROVE  StandingAt(Done(Persisted(e, w.bucket, ok)), c.next, lv, mev, i,
                      c.success)
<1> DEFINE n == c.next
           p == BucketOf(n)
           u == {}
           d == Persisted(e, w.bucket, ok)
           F == MediaFields
<1>1. n \in Nat
  BY DEF Standing, Good, Chan
<1>2. p \in Int
  BY <1>1, SegmentPersistAssumption, Division DEF BucketOf
<1>3. Good(c, n, lv, p, med, u, i) /\ Counted(c, 0) /\ FreeIn(c.idx, c.media, {})
  BY DEF Standing
<1> HIDE DEF n, p, u
<1>4. /\ Leads(c, d, F, n, lv, p, mev, u, i)
      /\ c.noFree => DOMAIN d.idx = DOMAIN c.idx
  BY <1>1, <1>2, <1>3, WriteEndGood
<1>5. F \cap {"next", "lastReady", "lastBucket", "success"} = {}
  BY DEF MediaFields, PersistFields, TrimFields, FreeFields, PassFields
<1> HIDE DEF F, d
<1>6. Leads(c, d, F, c.next, lv, BucketOf(c.next), mev, {}, i)
  BY <1>4 DEF n, p, u
<1>7. StandingAt(Done(d), c.next, lv, mev, i, c.success)
  BY <1>5, <1>6, StepStands
<1> QED
  BY <1>7 DEF d

-----------------------------------------------------------------------------
(* A channel becomes inactive *)

\* The next multiple of the size of a bucket,
LEMMA RoundUpMultiple ==
    ASSUME NEW n \in Nat
    PROVE  \E q \in Nat : /\ RoundUp(n) = q * BucketSize /\ n <= RoundUp(n)
                          /\ RoundUp(n) < n + BucketSize
                          /\ RoundUp(n) \in Nat
<1> DEFINE B == BucketSize
           a == n + B - 1
           q == a \div B
           r == a % B
           x == B * q
<1>1. B \in Nat \ {0} /\ a \in Nat
  BY SegmentPersistAssumption
<1>2. q \in Nat /\ r \in 0 .. B - 1 /\ a = x + r
  BY <1>1, Division
<1>3. q * B = x /\ x \in Nat
  BY <1>1, <1>2, Product
<1>4. RoundUp(n) = q * B
  BY DEF RoundUp
<1> HIDE DEF q, r, x
<1>5. n <= x /\ x < n + B
  BY <1>1, <1>2, <1>3
<1> QED
  BY <1>2, <1>3, <1>4, <1>5

\* and the bucket that starts there.
LEMMA RoundUpBounds ==
    ASSUME NEW n \in Nat
    PROVE  /\ RoundUp(n) \in Nat /\ n <= RoundUp(n)
           /\ BucketOf(n) \in Nat /\ BucketOf(RoundUp(n)) \in Nat
           /\ BucketOf(n) <= BucketOf(RoundUp(n))
           /\ n % BucketSize # 0 => BucketOf(n) < BucketOf(RoundUp(n))
           /\ \A k \in Nat : k < n => BucketOf(k) < BucketOf(RoundUp(n))
<1> DEFINE B == BucketSize
           z == RoundUp(n)
<1>1. B \in Nat \ {0}
  BY SegmentPersistAssumption
<1>2. PICK q \in Nat : /\ z = q * B /\ n <= z /\ z < n + B /\ z \in Nat
  BY RoundUpMultiple
<1> HIDE DEF z
<1>3. z \div B = q
  <2>1. q * B <= z /\ z < q * B + B
    BY <1>1, <1>2
  <2> QED
    BY <1>1, <1>2, <2>1, DivisionInterval
<1>4. ASSUME NEW k \in Nat
      PROVE  /\ k \div B \in Nat /\ k = (k \div B) * B + (k % B)
             /\ k % B \in 0 .. B - 1 /\ (k \div B) * B \in Nat
             /\ k \div B <= q <=> (k \div B) * B <= z
             /\ q <= k \div B <=> z <= (k \div B) * B
  <2> DEFINE b == k \div B
             r == k % B
             x == B * b
  <2>1. b \in Nat /\ r \in 0 .. B - 1 /\ k = x + r
    BY <1>1, Division
  <2>2. b * B = x /\ x \in Nat
    BY <1>1, <2>1, Product
  <2> HIDE DEF b, r
  <2>3. (b <= q <=> b * B <= z) /\ (q <= b <=> z <= b * B)
    BY <1>1, <1>2, <2>1, TimesOrder
  <2> QED
    BY <2>1, <2>2, <2>3 DEF b, r
<1>5. ASSUME NEW k \in Nat, k < n PROVE k \div B < q
  <2> DEFINE b == k \div B
             x == b * B
             r == k % B
  <2>1. b \in Nat /\ k = x + r /\ r \in 0 .. B - 1 /\ x \in Nat
        /\ (q <= b <=> z <= x)
    BY <1>4
  <2> HIDE DEF b, x, r
  <2>2. x < z
    BY <1>1, <1>2, <1>5, <2>1
  <2> QED
    BY <1>2, <2>1, <2>2 DEF b
<1>6. n \div B <= q /\ (n % B # 0 => n \div B < q) /\ n \div B \in Nat
  <2> DEFINE b == n \div B
             x == b * B
             r == n % B
  <2>1. /\ b \in Nat /\ n = x + r /\ r \in 0 .. B - 1 /\ x \in Nat
        /\ (b <= q <=> x <= z) /\ (q <= b <=> z <= x)
    BY <1>4
  <2> HIDE DEF b, x, r
  <2>2. x <= z /\ (r # 0 => x < z)
    BY <1>1, <1>2, <2>1
  <2>3. b <= q /\ (r # 0 => b < q)
    BY <1>2, <2>1, <2>2
  <2> QED
    BY <2>1, <2>3 DEF b, r
<1> QED
  BY <1>1, <1>2, <1>3, <1>5, <1>6 DEF BucketOf, z

\* What is not beyond the end of a bucket does not end after it.
LEMMA RoundUpLeast ==
    ASSUME NEW n \in Nat, NEW m \in Nat, n <= RoundUp(m)
    PROVE  RoundUp(n) <= RoundUp(m)
<1> DEFINE B == BucketSize
           x == RoundUp(n)
           y == RoundUp(m)
<1>1. B \in Nat \ {0}
  BY SegmentPersistAssumption
<1>2. PICK q \in Nat : /\ x = q * B /\ n <= x /\ x < n + B /\ x \in Nat
  BY RoundUpMultiple
<1>3. PICK s \in Nat : y = s * B /\ y \in Nat
  BY RoundUpMultiple
<1>4. n <= y
  OBVIOUS
<1> HIDE DEF x, y
<1> DEFINE t == s + 1
<1>5. t * B = y + B /\ t \in Nat
  BY <1>1, <1>3
<1>6. (t <= q <=> t * B <= q * B) /\ (q <= s <=> q * B <= s * B)
  <2> HIDE DEF t
  <2> QED
    BY <1>1, <1>2, <1>3, <1>5, TimesOrder
<1>7. q <= s
  BY <1>1, <1>2, <1>3, <1>4, <1>5, <1>6
<1>8. x <= y
  BY <1>2, <1>3, <1>6, <1>7
<1> QED
  BY <1>8 DEF x, y

\* d is c after the channel became inactive.
Left(c, d) ==
    d = [Done(LastBucketWritten(c)) EXCEPT !.next = RoundUp(@)]

\* The bucket that was left is written; the next segment starts another.
LEMMA InactiveStanding ==
    ASSUME NEW c, NEW d, NEW lv \in Int, NEW med, NEW i,
           Standing(c, lv, med, i), med \subseteq Nat, Left(c, d)
    PROVE  StandingAt(d, RoundUp(c.next), lv, med, i, c.success)
<1> DEFINE n == c.next
           z == RoundUp(n)
           p == BucketOf(n)
           q == BucketOf(z)
           u == {}
           e == LastBucketWritten(c)
<1>1. n \in Nat
  BY DEF Standing, Good, Chan
<1>2. /\ z \in Nat /\ n <= z /\ p \in Nat /\ q \in Nat /\ p <= q
      /\ n % BucketSize # 0 => p < q
  BY <1>1, RoundUpBounds
<1>3. /\ Good(c, n, lv, p, med, u, i) /\ Counted(c, 0)
      /\ FreeIn(c.idx, c.media, {})
      /\ c.lastReady < n /\ lv < n /\ LastOK(c.lastBucket, n) /\ Chan(c)
  BY DEF Standing, Good
<1>4. \/ c.lastBucket = -1
      \/ c.lastBucket \in Nat /\ p <= c.lastBucket /\ c.lastBucket < q
  BY <1>2, <1>3 DEF LastOK
<1>5. d = [Done(e) EXCEPT !.next = RoundUp(@)]
  BY DEF Left
<1> HIDE DEF n, z, p, q, u
<1>6. p \in Int /\ q \in Int
  BY <1>2
<1>7. Leads(c, e, LastFields, n, lv, q, med, u, i) /\ e.lastBucket = -1
  BY <1>1, <1>2, <1>3, <1>4, <1>6, LastBucketWrittenGood
<1> HIDE DEF e
<1>8. e.next = n /\ e.success = c.success /\ e.lastReady = c.lastReady
  BY <1>7 DEF Leads, Keeps, Fields, LastFields, MediaFields, PersistFields,
              TrimFields, FreeFields, PassFields, n
<1>9. Chan(e) /\ Good(e, n, lv, q, med, u, i)
  BY <1>7 DEF Leads, Good
<1>10. Finishes(e, d, z)
  <2>1. Done(e).next = n
    BY <1>8, <1>9 DEF Done, Chan, Fields
  <2> QED
    BY <1>5, <1>9, <2>1 DEF Finishes, Done, Keeps, Chan, Fields, z
<1>11. e.lastReady < z /\ lv < z /\ LastOK(e.lastBucket, z) /\ e.next <= z
  BY <1>1, <1>2, <1>3, <1>7, <1>8 DEF LastOK, Chan
<1>12. StandingAt(d, z, lv, med, i, c.success)
  BY <1>1, <1>2, <1>7, <1>8, <1>9, <1>10, <1>11, FinishedStands
     DEF Leads, u, q
<1> QED
  BY <1>12 DEF z, n

=============================================================================
