-------------------------- MODULE InputBufs_proofs --------------------------
(***************************************************************************)
(* The safety properties of InputBufs for any number of tracks, fillers,   *)
(* requests and buffers.                                                   *)
(*                                                                         *)
(* Buffers are freed up to a limit, the position of the first segment that *)
(* is needed or of a lock on an earlier one.  That nothing which is needed *)
(* is before the limit rests on the order of the media: a position that    *)
(* comes with a later index is a later one.  That the limit is in the      *)
(* queue (or all buffers but the last would be freed) rests on the limit   *)
(* being the start of something that is needed itself.                     *)
(***************************************************************************)
EXTENDS InputBufs, FiniteSetTheorems, TLAPS

\* the requests of rq that hold the lock of t for segment i
Reading(rq, t, i) == {r \in Requests : rq[r].on = t /\ rq[r].lock = i}

ReqType ==
    [on : Tracks \cup {None}, reg : Indexes \cup {-1}, lock : Indexes,
     from : Blocks, to : Blocks]

CopyType == [on : Tracks \cup {None}, from : Blocks, to : Blocks]

SegType == [index : Indexes, from : Blocks, to : Blocks]

FrameType == [from : Blocks, to : Blocks]

\* Buffers b of track t, to which k tracks refer, and their locks are counted.
Counting(b, t, rq, k) ==
    /\ IsFiniteSet(b.locks)
    /\ \A l, m \in b.locks : l.index = m.index => l = m
    /\ b.refs = k + Cardinality(b.locks)
    /\ \A l \in b.locks : l.n = Cardinality(Reading(rq, t, l.index))
    /\ \A r \in Requests : rq[r].on = t =>
            \E l \in b.locks : l.index = rq[r].lock

\* There is at least one buffer from the first one on, until all are freed.
Window(b) ==
    IF b.refs = 0 THEN b.first > b.last
    ELSE b.first <= b.last \/ (b.first = 1 /\ b.last = 0)

Inside(b, x) == b.first <= x /\ x <= b.last

\* What is needed of b is inside: the segments S, what is not in a segment yet
\* (P), and what requests read.
NeedsInside(b, t, rq, S, P) ==
    /\ \A s \in S : Inside(b, s.from)
    /\ \A p \in P : Inside(b, p)
    /\ \A r \in Requests : rq[r].on = t =>
        /\ b.first <= rq[r].from
        /\ ~b.whole => \A l \in b.locks :
                l.index = rq[r].lock => l.at <= rq[r].from

\* The first segment that is needed, or the position if there is none, is
\* where all the media is, or before.
MinBelow(b, n, S, P) ==
    b.minIndex > 0 =>
        /\ b.minIndex <= n
        /\ \A s \in S : b.minIndex <= s.index /\ b.minAt <= s.from
        /\ \A p \in P : b.minAt <= p
        /\ b.minAt <= b.last
        /\ b.refs > 0 => b.first <= b.minAt

\* Locks are in the order of the segments, and of their positions.
LocksOrdered(b, n, S, P) ==
    ~b.whole => \A l \in b.locks :
        /\ l.index < n
        /\ Inside(b, l.at)
        /\ \A m \in b.locks : l.index <= m.index => l.at <= m.at
        /\ \A s \in S : /\ l.index <= s.index => l.at <= s.from
                        /\ s.index <= l.index => s.from <= l.at
        /\ \A p \in P : l.at <= p
        /\ b.minIndex > 0 =>
            /\ l.index < b.minIndex => l.at <= b.minAt
            /\ l.index >= b.minIndex => b.minAt <= l.at

Good(b, t, rq, k, n, S, P) ==
    /\ b \in BufsType
    /\ Counting(b, t, rq, k)
    /\ Window(b)
    /\ NeedsInside(b, t, rq, S, P)
    /\ MinBelow(b, n, S, P)
    /\ LocksOrdered(b, n, S, P)

Holders(t) == (IF t \in live THEN 1 ELSE 0) + Cardinality(Linked(t))

\* where what is not in a segment begins, and the last of what was received
Later(t) == {frames[t][i].from : i \in 1 .. Len(frames[t])}
            \cup ({packet[t], lastData[t]} \ {0})

\* Media is in the order in which it came.
Ordered(t) ==
    /\ t \in active => bufs[t].last > 0
    /\ lastData[t] <= bufs[t].last
    /\ packet[t] # 0 => t \in active /\ lastData[t] <= packet[t]
    /\ \A i \in 1 .. Len(frames[t]) :
        /\ frames[t][i].from <= lastData[t]
        /\ frames[t][i].to <= bufs[t].last
    /\ \A i, j \in 1 .. Len(frames[t]) :
            i < j => frames[t][i].from <= frames[t][j].from
    /\ \A s \in segs[t] :
        /\ s.index < next
        /\ s.from <= lastData[t]
        /\ s.to <= bufs[t].last
        /\ \A p \in Later(t) : s.from <= p
        /\ \A z \in segs[t] : s.index <= z.index => s.from <= z.from
    /\ t \notin live => segs[t] = {} /\ Later(t) = {}

\* What is copied stays: nothing is freed as long as it is referred to.
Copied(t) ==
    \A f \in Linked(t) :
        /\ bufs[t].whole
        /\ Kept(t, copy[f].from, copy[f].to)

\* Requests read what was received.
Read(t) == \A r \in Requests : req[r].on = t => req[r].to <= bufs[t].last

Track(t) ==
    /\ Good(bufs[t], t, req, Holders(t), next, segs[t], Later(t))
    /\ Ordered(t)
    /\ Copied(t)
    /\ Read(t)

\* TypeOK; that no two locks are for one segment is part of Counting.
Shape ==
    /\ live \subseteq Tracks /\ active \subseteq live
    /\ bufs \in [Tracks -> BufsType]
    /\ packet \in [Tracks -> Blocks]
    /\ frames \in [Tracks -> Seq(FrameType)]
    /\ lastData \in [Tracks -> Blocks]
    /\ segs \in [Tracks -> SUBSET SegType]
    /\ next \in Indexes /\ low \in BOOLEAN
    /\ req \in [Requests -> ReqType]
    /\ copy \in [Fillers -> CopyType]

IInv == Shape /\ \A t \in Tracks : Track(t)

-----------------------------------------------------------------------------
(* The first and the last of a set of segments, or locks *)

\* A set of numbers that is not empty has a least one.
LEMMA Least ==
    ASSUME NEW T, T \subseteq Nat, T # {}
    PROVE  \E x \in T : \A y \in T : x <= y
<1> DEFINE I == {0 .. x : x \in T}
<1>1. I \subseteq FiniteSubsetsOf(Nat)
  <2> SUFFICES ASSUME NEW x \in T PROVE 0 .. x \in FiniteSubsetsOf(Nat)
    OBVIOUS
  <2>1. IsFiniteSet(0 .. x)
    BY FS_Interval
  <2> QED
    BY <2>1 DEF FiniteSubsetsOf
<1>2. PICK s \in I : \A u \in I : <<u, s>> \notin StrictSubsetOrdering(Nat)
  <2>1. I # {}
    OBVIOUS
  <2> QED
    BY <1>1, <2>1, FS_StrictSubsetOrderingWellFounded, WFMin
<1>3. PICK x \in T : s = 0 .. x
  OBVIOUS
<1>4. ASSUME NEW y \in T, y < x PROVE FALSE
  <2>1. 0 .. y \subseteq 0 .. x /\ x \in 0 .. x /\ x \notin 0 .. y
    BY <1>4
  <2>2. <<0 .. y, s>> \in StrictSubsetOrdering(Nat)
    BY <2>1, <1>3 DEF StrictSubsetOrdering
  <2> QED
    BY <1>2, <2>2
<1> QED
  BY <1>4

\* First is the one with the least index.
LEMMA FirstOfSet ==
    ASSUME NEW S, S # {}, \A s \in S : s.index \in Nat
    PROVE  First(S) \in S /\ \A s \in S : First(S).index <= s.index
<1> DEFINE T == {s.index : s \in S}
<1>1. T \subseteq Nat /\ T # {}
  OBVIOUS
<1>2. PICK x \in T : \A y \in T : x <= y
  BY <1>1, Least
<1>3. \E s \in S : \A y \in S : s.index <= y.index
  BY <1>2
<1> QED
  BY <1>3 DEF First

\* Last is one with the greatest index.
LEMMA LastOfSet ==
    ASSUME NEW S, S # {}, \A s \in S : s.index \in Indexes
    PROVE  Last(S) \in S /\ \A s \in S : Last(S).index >= s.index
<1> DEFINE T == {MaxIndex - s.index : s \in S}
<1>1. T \subseteq Nat /\ T # {}
  BY InputBufsAssumption DEF Indexes
<1>2. PICK x \in T : \A y \in T : x <= y
  BY <1>1, Least
<1>3. PICK s \in S : x = MaxIndex - s.index
  OBVIOUS
<1>4. \A y \in S : s.index >= y.index
  <2> SUFFICES ASSUME NEW y \in S PROVE s.index >= y.index
    OBVIOUS
  <2>1. MaxIndex - s.index <= MaxIndex - y.index
    BY <1>2, <1>3
  <2> QED
    BY <2>1, InputBufsAssumption DEF Indexes
<1> QED
  BY <1>4 DEF Last

-----------------------------------------------------------------------------
(* Buffers are freed *)

\* The limit is in the queue, and not behind anything that is held.
LEMMA LimitBelow ==
    ASSUME NEW b \in BufsType, NEW n, NEW S, NEW P,
           MinBelow(b, n, S, P), LocksOrdered(b, n, S, P),
           b.refs > 0, ~b.whole, b.minIndex > 0
    PROVE  /\ Inside(b, Limit(b))
           /\ Limit(b) <= b.minAt
           /\ \A l \in b.locks : Limit(b) <= l.at
<1>1. b.minIndex \in Nat /\ b.minAt \in Int /\ b.first \in Int /\ b.last \in Int
  BY InputBufsAssumption DEF BufsType, Indexes, Blocks
<1>2. \A l \in b.locks : l.index \in Nat /\ l.at \in Int
  BY InputBufsAssumption DEF BufsType, LockType, Indexes, Blocks
<1>3. /\ b.minAt <= b.last /\ b.first <= b.minAt
      /\ \A l \in b.locks :
            /\ Inside(b, l.at)
            /\ \A m \in b.locks : l.index <= m.index => l.at <= m.at
            /\ l.index < b.minIndex => l.at <= b.minAt
            /\ l.index >= b.minIndex => b.minAt <= l.at
  BY DEF MinBelow, LocksOrdered
<1>4. CASE b.locks = {}
  BY <1>1, <1>3, <1>4 DEF Limit, Inside
<1>5. CASE b.locks # {}
  <2> DEFINE l == First(b.locks)
  <2>1. l \in b.locks /\ \A m \in b.locks : l.index <= m.index
    BY <1>2, <1>5, FirstOfSet
  <2> HIDE DEF l
  <2>2. CASE l.index < b.minIndex
    <3>1. Limit(b) = l.at
      BY <1>5, <2>2 DEF Limit, l
    <3> QED
      BY <1>3, <2>1, <2>2, <3>1
  <2>3. CASE ~(l.index < b.minIndex)
    <3>1. Limit(b) = b.minAt
      BY <1>5, <2>3 DEF Limit, l
    <3>2. \A m \in b.locks : m.index >= b.minIndex
      BY <1>1, <1>2, <2>1, <2>3
    <3> QED
      BY <1>1, <1>3, <3>1, <3>2 DEF Inside
  <2> QED
    BY <2>2, <2>3
<1> QED
  BY <1>4, <1>5

\* What freeing buffers does, then: nothing, or it moves the first one to the
\* limit.
LEMMA FreeEffect ==
    ASSUME NEW b \in BufsType, NEW n, NEW S, NEW P,
           MinBelow(b, n, S, P), LocksOrdered(b, n, S, P), b.refs > 0
    PROVE  \/ FreeBufs(b) = b
           \/ /\ ~b.whole /\ b.minIndex > 0
              /\ FreeBufs(b) = [b EXCEPT !.first = Limit(b)]
<1>1. CASE b.whole \/ b.minIndex = 0
  BY <1>1 DEF FreeBufs
<1>2. CASE ~b.whole /\ b.minIndex # 0
  <2>1. b.minIndex > 0
    BY <1>2, InputBufsAssumption DEF BufsType, Indexes
  <2>2. Inside(b, Limit(b))
    BY <1>2, <2>1, LimitBelow
  <2>3. b.first \in Int /\ b.last \in Int
    BY InputBufsAssumption DEF BufsType, Blocks
  <2>4. Limit(b) \in Int
    <3>1. b.minAt \in Int /\ \A l \in b.locks : l.at \in Int /\ l.index \in Nat
      BY InputBufsAssumption DEF BufsType, LockType, Indexes, Blocks
    <3> QED
      BY <3>1, FirstOfSet DEF Limit
  <2>5. Limit(b) \in b.first .. b.last
    BY <2>2, <2>3, <2>4 DEF Inside
  <2> QED
    BY <1>2, <2>1, <2>5 DEF FreeBufs, FreeUpTo
<1> QED
  BY <1>1, <1>2

\* what moving the start of the queue leaves
LEMMA MoveFirst ==
    ASSUME NEW b \in BufsType, NEW x \in 1 .. MaxBlocks + 1
    PROVE  LET c == [b EXCEPT !.first = x]
           IN  /\ c \in BufsType /\ c.first = x
               /\ c.refs = b.refs /\ c.locks = b.locks
               /\ c.minIndex = b.minIndex /\ c.minAt = b.minAt
               /\ c.whole = b.whole /\ c.last = b.last
BY DEF BufsType

\* Freeing buffers keeps all that is needed.
LEMMA FreeKeeps ==
    ASSUME NEW b, NEW t, NEW rq \in [Requests -> ReqType], NEW k, NEW n,
           NEW S \in SUBSET SegType, NEW P \in SUBSET Blocks,
           Good(b, t, rq, k, n, S, P), b.refs > 0
    PROVE  /\ Good(FreeBufs(b), t, rq, k, n, S, P)
           /\ FreeBufs(b).last = b.last /\ FreeBufs(b).whole = b.whole
           /\ b.whole => FreeBufs(b).first = b.first
<1> USE DEF Good
<1>1. CASE FreeBufs(b) = b
  BY <1>1
<1>2. CASE /\ ~b.whole /\ b.minIndex > 0
           /\ FreeBufs(b) = [b EXCEPT !.first = Limit(b)]
  <2> DEFINE c == FreeBufs(b)
             x == Limit(b)
  <2>1. /\ Inside(b, x) /\ x <= b.minAt
        /\ \A l \in b.locks : x <= l.at
    BY <1>2, LimitBelow
  <2>2. /\ b.first \in 1 .. MaxBlocks + 1 /\ b.last \in Blocks
        /\ b.minAt \in Blocks
        /\ b.locks \subseteq LockType
    BY DEF BufsType
  <2>3. x \in Int
    <3>1. \A l \in b.locks : l.at \in Int /\ l.index \in Nat
      BY <2>2, InputBufsAssumption DEF LockType, Indexes, Blocks
    <3> QED
      BY <2>2, <3>1, FirstOfSet DEF Limit, Blocks
  <2> HIDE DEF x
  <2>4. x \in 1 .. MaxBlocks + 1 /\ b.first <= x /\ x <= b.last
    BY <2>1, <2>2, <2>3, InputBufsAssumption DEF Inside, Blocks
  <2>5. /\ c \in BufsType /\ c.first = x
        /\ c.refs = b.refs /\ c.locks = b.locks
        /\ c.minIndex = b.minIndex /\ c.minAt = b.minAt
        /\ c.whole = b.whole /\ c.last = b.last
    BY <1>2, <2>4, MoveFirst DEF x
  <2> HIDE DEF c
  <2>6. Counting(c, t, rq, k)
    BY <2>5 DEF Counting
  <2>7. Window(c)
    BY <2>4, <2>5 DEF Window
  <2>8. NeedsInside(c, t, rq, S, P)
    <3>1. \A y \in Blocks : b.minAt <= y /\ y <= b.last => Inside(c, y)
      BY <2>1, <2>2, <2>3, <2>5 DEF Inside, Blocks
    <3>2. \A s \in S : Inside(c, s.from)
      <4> TAKE s \in S
      <4>1. b.minAt <= s.from /\ s.from <= b.last /\ s.from \in Blocks
        BY <1>2 DEF MinBelow, NeedsInside, Inside, SegType
      <4> QED
        BY <3>1, <4>1
    <3>3. \A p \in P : Inside(c, p)
      <4> TAKE p \in P
      <4>1. b.minAt <= p /\ p <= b.last /\ p \in Blocks
        BY <1>2 DEF MinBelow, NeedsInside, Inside
      <4> QED
        BY <3>1, <4>1
    <3>4. ASSUME NEW r \in Requests, rq[r].on = t
          PROVE  /\ c.first <= rq[r].from
                 /\ ~c.whole => \A l \in c.locks :
                        l.index = rq[r].lock => l.at <= rq[r].from
      <4>1. PICK l \in b.locks : l.index = rq[r].lock
        BY <3>4 DEF Counting
      <4>2. l.at <= rq[r].from /\ x <= l.at
        BY <1>2, <2>1, <3>4, <4>1 DEF NeedsInside
      <4>3. l.at \in Int /\ rq[r].from \in Int
        BY <2>2, InputBufsAssumption DEF LockType, Blocks, ReqType
      <4>4. c.first <= rq[r].from
        BY <2>3, <2>5, <4>2, <4>3
      <4> QED
        BY <1>2, <2>5, <3>4, <4>4 DEF NeedsInside
    <3> QED
      BY <3>2, <3>3, <3>4 DEF NeedsInside
  <2>9. MinBelow(c, n, S, P)
    BY <2>1, <2>5 DEF MinBelow
  <2>10. LocksOrdered(c, n, S, P)
    BY <2>1, <2>5 DEF LocksOrdered, Inside
  <2> QED
    BY <1>2, <2>5, <2>6, <2>7, <2>8, <2>9, <2>10 DEF c
<1> QED
  BY <1>1, <1>2, FreeEffect

-----------------------------------------------------------------------------
(* Who refers to the buffers *)

\* A set that is mapped one to one has as many elements.
LEMMA ImageCardinality ==
    ASSUME NEW S, IsFiniteSet(S), NEW f, DOMAIN f = S,
           \A x, y \in S : f[x] = f[y] => x = y
    PROVE  /\ IsFiniteSet({f[x] : x \in S})
           /\ Cardinality({f[x] : x \in S}) = Cardinality(S)
<1> DEFINE T == {f[x] : x \in S}
           g == [x \in S |-> f[x]]
<1>1. g \in Bijection(S, T)
  BY DEF Bijection, Injection, Surjection, IsInjective
<1>2. ExistsBijection(S, T)
  BY <1>1 DEF ExistsBijection
<1> QED
  BY <1>2, FS_Bijection

\* m of those who refer to the buffers leave; k tracks stay.
LEMMA UnrefKeeps ==
    ASSUME NEW b, NEW t, NEW rq \in [Requests -> ReqType], NEW k \in Nat,
           NEW m \in Nat \ {0}, NEW n, NEW S \in SUBSET SegType,
           NEW P \in SUBSET Blocks,
           Good(b, t, rq, k + m, n, S, P),
           k = 0 => S = {} /\ P = {}
    PROVE  /\ Good(Unref(b, m), t, rq, k, n, S, P)
           /\ Unref(b, m).last = b.last /\ Unref(b, m).whole = b.whole
           /\ b.whole /\ k > 0 => Unref(b, m).first = b.first
<1> DEFINE d == [b EXCEPT !.refs = @ - m]
<1>1. /\ b \in BufsType /\ Counting(b, t, rq, k + m) /\ Window(b)
      /\ NeedsInside(b, t, rq, S, P) /\ MinBelow(b, n, S, P)
      /\ LocksOrdered(b, n, S, P)
  BY DEF Good
<1>2. Cardinality(b.locks) \in Nat
  BY <1>1, FS_CardinalityType DEF Counting
<1>3. b.refs = k + m + Cardinality(b.locks)
  BY <1>1 DEF Counting
<1>4. b.refs > 0 /\ b.refs - m = k + Cardinality(b.locks) /\ b.refs - m \in Nat
  BY <1>2, <1>3
<1>5. /\ d \in BufsType /\ d.refs = k + Cardinality(b.locks)
      /\ d.locks = b.locks /\ d.minIndex = b.minIndex /\ d.minAt = b.minAt
      /\ d.whole = b.whole /\ d.first = b.first /\ d.last = b.last
  BY <1>1, <1>4 DEF BufsType
<1>6. Unref(b, m) = IF d.refs > 0 THEN FreeBufs(d)
                    ELSE IF d.locks # {} THEN d
                    ELSE [d EXCEPT !.first = d.last + 1]
  BY DEF Unref
<1> HIDE DEF d
<1>7. Counting(d, t, rq, k)
  BY <1>1, <1>5 DEF Counting
<1>8. CASE d.refs > 0
  <2>1. Window(d)
    BY <1>1, <1>4, <1>5, <1>8 DEF Window
  <2>2. NeedsInside(d, t, rq, S, P)
    BY <1>1, <1>5 DEF NeedsInside, Inside
  <2>3. MinBelow(d, n, S, P)
    BY <1>1, <1>4, <1>5 DEF MinBelow
  <2>4. LocksOrdered(d, n, S, P)
    BY <1>1, <1>5 DEF LocksOrdered, Inside
  <2>5. Good(d, t, rq, k, n, S, P)
    BY <1>5, <1>7, <2>1, <2>2, <2>3, <2>4 DEF Good
  <2> QED
    BY <1>5, <1>6, <1>8, <2>5, FreeKeeps
<1>9. CASE ~(d.refs > 0)
  <2> DEFINE c == [d EXCEPT !.first = d.last + 1]
  <2>1. d.refs = 0 /\ k = 0 /\ Cardinality(b.locks) = 0
    BY <1>2, <1>5, <1>9
  <2>2. d.locks = {}
    BY <1>1, <1>5, <2>1, FS_EmptySet DEF Counting
  <2>3. d.last + 1 \in 1 .. MaxBlocks + 1 /\ d.last \in Int
    BY <1>5, InputBufsAssumption DEF BufsType, Blocks
  <2>4. /\ c \in BufsType /\ c.first = d.last + 1
        /\ c.refs = d.refs /\ c.locks = d.locks
        /\ c.minIndex = d.minIndex /\ c.minAt = d.minAt
        /\ c.whole = d.whole /\ c.last = d.last
    BY <1>5, <2>3, MoveFirst
  <2>5. Unref(b, m) = c
    BY <1>6, <1>9, <2>2
  <2> HIDE DEF c
  <2>6. S = {} /\ P = {}
    BY <2>1
  <2>7. Counting(c, t, rq, k)
    BY <1>7, <2>4 DEF Counting
  <2>8. \A r \in Requests : rq[r].on # t
    BY <2>2, <2>4, <2>7 DEF Counting
  <2>9. Window(c)
    BY <2>1, <2>3, <2>4 DEF Window
  <2>10. NeedsInside(c, t, rq, S, P)
    BY <2>6, <2>8 DEF NeedsInside
  <2>11. MinBelow(c, n, S, P)
    BY <1>1, <1>5, <2>1, <2>4, <2>6 DEF MinBelow
  <2>12. LocksOrdered(c, n, S, P)
    BY <2>2, <2>4 DEF LocksOrdered
  <2>13. Good(c, t, rq, k, n, S, P)
    BY <2>4, <2>7, <2>9, <2>10, <2>11, <2>12 DEF Good
  <2> QED
    BY <1>5, <2>1, <2>4, <2>5, <2>13
<1> QED
  BY <1>8, <1>9

\* the requests that are left
LEMMA EndedType ==
    ASSUME req \in [Requests -> ReqType], NEW R \in SUBSET Requests
    PROVE  /\ Ended(R) \in [Requests -> ReqType]
           /\ \A t \in Tracks, r \in Requests :
                Ended(R)[r].on = t <=> (r \notin R /\ req[r].on = t)
           /\ \A r \in Requests \ R : Ended(R)[r] = req[r]
<1>1. NoReq \in ReqType /\ \A t \in Tracks : NoReq.on # t
  BY InputBufsAssumption DEF NoReq, ReqType, Indexes, Blocks
<1> QED
  BY <1>1 DEF Ended

\* the requests of R that read t
ReadersOf(R, t) == {r \in R : req[r].on = t}

\* The locks of the requests R go.
LEMMA LocksGo ==
    ASSUME NEW b, NEW t \in Tracks, req \in [Requests -> ReqType],
           NEW R \in SUBSET Requests, NEW k \in Nat, NEW n,
           NEW S \in SUBSET SegType, NEW P \in SUBSET Blocks,
           Good(b, t, req, k, n, S, P), k = 0 => S = {} /\ P = {},
           NEW c, c = Unlock(b, ReadersOf(R, t))
    PROVE  /\ Good(c, t, Ended(R), k, n, S, P)
           /\ c.last = b.last /\ c.whole = b.whole
           /\ b.whole /\ k > 0 => c.first = b.first
<1> DEFINE Q == {r \in R : req[r].on = t}
           Held(l) == Cardinality({r \in Q : req[r].lock = l.index})
           Left(l) == Reading(req, t, l.index) \ R
           Gone == {l \in b.locks : l.n = Held(l)}
           h == [l \in b.locks \ Gone |-> [l EXCEPT !.n = @ - Held(l)]]
           d == [b EXCEPT !.locks = {h[l] : l \in b.locks \ Gone}]
           rq == Ended(R)
<1>1. /\ b \in BufsType /\ Counting(b, t, req, k) /\ Window(b)
      /\ NeedsInside(b, t, req, S, P) /\ MinBelow(b, n, S, P)
      /\ LocksOrdered(b, n, S, P)
  BY DEF Good
<1>2. /\ rq \in [Requests -> ReqType]
      /\ \A r \in Requests : rq[r].on = t <=> (r \notin R /\ req[r].on = t)
      /\ \A r \in Requests \ R : rq[r] = req[r]
  BY EndedType
<1>3. c = IF Gone = {} THEN d ELSE Unref(d, Cardinality(Gone))
  BY DEF Unlock, ReadersOf
<1>4. \A i : Reading(rq, t, i) = Reading(req, t, i) \ R
  BY <1>2 DEF Reading
<1>5. \A l \in b.locks :
        /\ Cardinality(Left(l)) = l.n - Held(l)
        /\ Cardinality(Left(l)) \in 0 .. Cardinality(Requests)
        /\ Cardinality(Left(l)) = 0 <=> Left(l) = {}
  <2> SUFFICES ASSUME NEW l \in b.locks
               PROVE  /\ Cardinality(Left(l)) = l.n - Held(l)
                      /\ Cardinality(Left(l)) \in 0 .. Cardinality(Requests)
                      /\ Cardinality(Left(l)) = 0 <=> Left(l) = {}
    OBVIOUS
  <2> DEFINE D == Reading(req, t, l.index)
  <2>1. D \in SUBSET Requests /\ Left(l) \in SUBSET Requests
    BY DEF Reading
  <2>2. IsFiniteSet(D) /\ IsFiniteSet(Left(l))
    BY <2>1, FS_Subset, InputBufsAssumption
  <2>3. Cardinality(Left(l)) = Cardinality(D) - Cardinality(D \cap R)
    BY <2>2, FS_Difference
  <2>4. D \cap R = {r \in Q : req[r].lock = l.index}
    BY DEF Reading
  <2>5. l.n = Cardinality(D)
    BY <1>1 DEF Counting
  <2>6. Cardinality(Left(l)) \in Nat /\ Cardinality(Requests) \in Nat
    BY <2>2, FS_CardinalityType, InputBufsAssumption
  <2>7. Cardinality(Left(l)) <= Cardinality(Requests)
    BY <2>1, FS_Subset, InputBufsAssumption
  <2>8. Cardinality(Left(l)) = 0 <=> Left(l) = {}
    BY <2>2, FS_EmptySet
  <2>9. Cardinality(Left(l)) = l.n - Held(l)
    BY <2>3, <2>4, <2>5
  <2> QED
    BY <2>6, <2>7, <2>8, <2>9
<1>6. b.locks \subseteq LockType
  BY <1>1 DEF BufsType
<1>7. \A l \in b.locks : l \in Gone <=> Left(l) = {}
  <2> SUFFICES ASSUME NEW l \in b.locks
               PROVE  l.n = Held(l) <=> Left(l) = {}
    OBVIOUS
  <2>1. Held(l) \in Nat
    <3>1. {r \in Q : req[r].lock = l.index} \in SUBSET Requests
      OBVIOUS
    <3> QED
      BY <3>1, FS_Subset, FS_CardinalityType, InputBufsAssumption
  <2> HIDE DEF Held, Left, Gone
  <2>2. /\ Cardinality(Left(l)) = l.n - Held(l)
        /\ Cardinality(Left(l)) = 0 <=> Left(l) = {}
    BY <1>5
  <2>3. l.n \in Int
    BY <1>6, FS_CardinalityType, InputBufsAssumption DEF LockType
  <2>4. Cardinality(Left(l)) = 0 <=> l.n = Held(l)
    BY <2>1, <2>2, <2>3
  <2> QED
    BY <2>2, <2>4
<1>8. \A l \in b.locks \ Gone :
        /\ h[l] \in LockType
        /\ h[l].index = l.index /\ h[l].at = l.at
        /\ h[l].n = Cardinality(Left(l))
  <2> SUFFICES ASSUME NEW l \in b.locks \ Gone
               PROVE  /\ h[l] \in LockType
                      /\ h[l].index = l.index /\ h[l].at = l.at
                      /\ h[l].n = Cardinality(Left(l))
    OBVIOUS
  <2>1. h[l] = [l EXCEPT !.n = Cardinality(Left(l))]
    BY <1>5, <1>6 DEF LockType
  <2>2. Cardinality(Left(l)) \in 1 .. Cardinality(Requests)
    <3> HIDE DEF Left, Held, Gone
    <3>1. Left(l) # {}
      BY <1>7
    <3>2. /\ Cardinality(Left(l)) \in 0 .. Cardinality(Requests)
          /\ Cardinality(Left(l)) # 0
      BY <1>5, <3>1
    <3>3. Cardinality(Requests) \in Nat
      BY FS_CardinalityType, InputBufsAssumption
    <3> QED
      BY <3>2, <3>3
  <2>3. l \in LockType
    BY <1>6
  <2> QED
    BY <2>1, <2>2, <2>3 DEF LockType
<1>9. /\ IsFiniteSet(b.locks) /\ IsFiniteSet(Gone)
      /\ IsFiniteSet(b.locks \ Gone)
      /\ Cardinality(b.locks \ Gone) = Cardinality(b.locks) - Cardinality(Gone)
      /\ Cardinality(Gone) \in Nat /\ Cardinality(b.locks) \in Nat
      /\ Gone # {} => Cardinality(Gone) # 0
  <2>1. IsFiniteSet(b.locks)
    BY <1>1 DEF Counting
  <2>2. Gone \in SUBSET b.locks /\ b.locks \cap Gone = Gone
    OBVIOUS
  <2>3. IsFiniteSet(Gone)
    BY <2>1, <2>2, FS_Subset
  <2> HIDE DEF Gone
  <2>3a. /\ IsFiniteSet(b.locks \ Gone)
         /\ Cardinality(b.locks \ Gone)
                = Cardinality(b.locks) - Cardinality(b.locks \cap Gone)
    BY <2>1, FS_Difference
  <2>4. /\ IsFiniteSet(b.locks \ Gone)
        /\ Cardinality(b.locks \ Gone)
                = Cardinality(b.locks) - Cardinality(Gone)
    BY <2>2, <2>3a
  <2> QED
    BY <2>1, <2>3, <2>4, FS_CardinalityType, FS_EmptySet
<1>10. /\ IsFiniteSet({h[l] : l \in b.locks \ Gone})
       /\ Cardinality({h[l] : l \in b.locks \ Gone})
                = Cardinality(b.locks \ Gone)
  <2>1. \A l, m \in b.locks \ Gone : h[l] = h[m] => l = m
    <3> SUFFICES ASSUME NEW l \in b.locks \ Gone, NEW m \in b.locks \ Gone,
                        h[l] = h[m]
                 PROVE  l = m
      OBVIOUS
    <3>1. l.index = m.index
      BY <1>8
    <3> QED
      BY <1>1, <3>1 DEF Counting
  <2>2. DOMAIN h = b.locks \ Gone
    OBVIOUS
  <2> HIDE DEF h, Gone
  <2> QED
    BY <1>9, <2>1, <2>2, ImageCardinality
<1>11. /\ d \in BufsType /\ d.locks = {h[l] : l \in b.locks \ Gone}
       /\ d.refs = b.refs /\ d.minIndex = b.minIndex /\ d.minAt = b.minAt
       /\ d.whole = b.whole /\ d.first = b.first /\ d.last = b.last
  <2> DEFINE L == {h[l] : l \in b.locks \ Gone}
  <2>1. L \in SUBSET LockType
    BY <1>8
  <2> HIDE DEF L
  <2>2. d = [b EXCEPT !.locks = L]
    BY DEF L
  <2> HIDE DEF d
  <2>3. /\ d \in BufsType /\ d.locks = L
        /\ d.refs = b.refs /\ d.minIndex = b.minIndex /\ d.minAt = b.minAt
        /\ d.whole = b.whole /\ d.first = b.first /\ d.last = b.last
    BY <1>1, <2>1, <2>2 DEF BufsType
  <2> QED
    BY <2>3 DEF L
<1> HIDE DEF d, h, Gone, Left, Held
<1>12. \A e \in d.locks : \E l \in b.locks \ Gone :
            /\ e = h[l] /\ e.index = l.index /\ e.at = l.at
            /\ e.n = Cardinality(Left(l))
  BY <1>8, <1>11
<1>13. Counting(d, t, rq, k + Cardinality(Gone))
  <2>1. \A e, f \in d.locks : e.index = f.index => e = f
    <3> SUFFICES ASSUME NEW e \in d.locks, NEW f \in d.locks,
                        e.index = f.index
                 PROVE  e = f
      OBVIOUS
    <3>1. PICK l \in b.locks \ Gone : e = h[l] /\ e.index = l.index
      BY <1>12
    <3>2. PICK m \in b.locks \ Gone : f = h[m] /\ f.index = m.index
      BY <1>12
    <3>3. l = m
      BY <1>1, <3>1, <3>2 DEF Counting
    <3> QED
      BY <3>1, <3>2, <3>3
  <2>2. d.refs = k + Cardinality(Gone) + Cardinality(d.locks)
    <3>1. b.refs = k + Cardinality(b.locks)
      BY <1>1 DEF Counting
    <3>2. Cardinality(d.locks) = Cardinality(b.locks) - Cardinality(Gone)
      BY <1>9, <1>10, <1>11
    <3> QED
      BY <1>9, <1>11, <3>1, <3>2
  <2>3. \A e \in d.locks : e.n = Cardinality(Reading(rq, t, e.index))
    BY <1>4, <1>12 DEF Left
  <2>4. ASSUME NEW r \in Requests, rq[r].on = t
        PROVE  \E e \in d.locks : e.index = rq[r].lock
    <3>1. r \notin R /\ req[r].on = t /\ rq[r] = req[r]
      BY <1>2, <2>4
    <3>2. PICK l \in b.locks : l.index = req[r].lock
      BY <1>1, <3>1 DEF Counting
    <3>3. r \in Left(l)
      BY <3>1, <3>2 DEF Left, Reading
    <3>4. l \in b.locks \ Gone
      BY <1>7, <3>3
    <3>5. h[l] \in d.locks /\ h[l].index = l.index
      BY <1>8, <1>11, <3>4
    <3> QED
      BY <3>1, <3>2, <3>5
  <2> QED
    BY <1>10, <1>11, <2>1, <2>2, <2>3, <2>4 DEF Counting
<1>14. Window(d)
  BY <1>1, <1>11 DEF Window
<1>15. NeedsInside(d, t, rq, S, P)
  <2>1. ASSUME NEW r \in Requests, rq[r].on = t
        PROVE  /\ d.first <= rq[r].from
               /\ ~d.whole => \A e \in d.locks :
                    e.index = rq[r].lock => e.at <= rq[r].from
    <3>1. r \notin R /\ req[r].on = t /\ rq[r] = req[r]
      BY <1>2, <2>1
    <3> QED
      BY <1>1, <1>11, <1>12, <3>1 DEF NeedsInside
  <2> QED
    BY <1>1, <1>11, <2>1 DEF NeedsInside, Inside
<1>16. MinBelow(d, n, S, P)
  BY <1>1, <1>11 DEF MinBelow
<1>17. LocksOrdered(d, n, S, P)
  <2> SUFFICES ASSUME ~d.whole, NEW e \in d.locks
               PROVE  /\ e.index < n
                      /\ Inside(d, e.at)
                      /\ \A f \in d.locks : e.index <= f.index => e.at <= f.at
                      /\ \A s \in S : /\ e.index <= s.index => e.at <= s.from
                                      /\ s.index <= e.index => s.from <= e.at
                      /\ \A p \in P : e.at <= p
                      /\ d.minIndex > 0 =>
                            /\ e.index < d.minIndex => e.at <= d.minAt
                            /\ e.index >= d.minIndex => d.minAt <= e.at
    BY DEF LocksOrdered
  <2>1. PICK l \in b.locks \ Gone : e.index = l.index /\ e.at = l.at
    BY <1>12
  <2>2. ~b.whole
    BY <1>11
  <2>3. /\ l.index < n
        /\ Inside(b, l.at)
        /\ \A f \in b.locks : l.index <= f.index => l.at <= f.at
        /\ \A s \in S : /\ l.index <= s.index => l.at <= s.from
                        /\ s.index <= l.index => s.from <= l.at
        /\ \A p \in P : l.at <= p
        /\ b.minIndex > 0 =>
            /\ l.index < b.minIndex => l.at <= b.minAt
            /\ l.index >= b.minIndex => b.minAt <= l.at
    BY <1>1, <2>2 DEF LocksOrdered
  <2>4. ASSUME NEW f \in d.locks, e.index <= f.index PROVE e.at <= f.at
    <3>1. PICK m \in b.locks : f.index = m.index /\ f.at = m.at
      BY <1>12
    <3> QED
      BY <2>1, <2>3, <2>4, <3>1
  <2>5. Inside(d, e.at)
    BY <1>11, <2>1, <2>3 DEF Inside
  <2> QED
    BY <1>11, <2>1, <2>3, <2>4, <2>5
<1>18. Good(d, t, rq, k + Cardinality(Gone), n, S, P)
  BY <1>11, <1>13, <1>14, <1>15, <1>16, <1>17 DEF Good
<1> HIDE DEF rq, Q
<1>19. CASE Gone = {}
  <2>1. k + Cardinality(Gone) = k
    BY <1>19, FS_EmptySet
  <2> QED
    BY <1>3, <1>11, <1>18, <1>19, <2>1 DEF rq
<1>20. CASE Gone # {}
  <2>1. Cardinality(Gone) \in Nat \ {0}
    BY <1>9, <1>20
  <2>2. /\ Good(Unref(d, Cardinality(Gone)), t, rq, k, n, S, P)
        /\ Unref(d, Cardinality(Gone)).last = d.last
        /\ Unref(d, Cardinality(Gone)).whole = d.whole
        /\ d.whole /\ k > 0 => Unref(d, Cardinality(Gone)).first = d.first
    BY <1>2, <1>18, <2>1, UnrefKeeps
  <2> QED
    BY <1>3, <1>11, <1>20, <2>2 DEF rq
<1> QED
  BY <1>19, <1>20

\* Segment i at position at comes after the locks on earlier ones.
LocksFit(b, i, at) ==
    ~b.whole => \A l \in b.locks : /\ l.index < i => l.at <= at
                                   /\ l.index >= i => at <= l.at

\* From segment i at position at on is all that is needed of b.
MinFits(b, i, at, n, S, P) ==
    /\ i <= n /\ Inside(b, at)
    /\ \A s \in S : i <= s.index /\ at <= s.from
    /\ \A p \in P : at <= p
    /\ LocksFit(b, i, at)

\* The first segment that is needed is another one.
LEMMA MinMoves ==
    ASSUME NEW b, NEW t, NEW rq \in [Requests -> ReqType], NEW k, NEW n,
           NEW S \in SUBSET SegType, NEW P \in SUBSET Blocks,
           Good(b, t, rq, k, n, S, P), b.refs > 0,
           NEW i \in Indexes, NEW at \in Blocks,
           MinFits(b, i, at, n, S, P)
    PROVE  /\ Good(SetMinUsed(b, i, at), t, rq, k, n, S, P)
           /\ SetMinUsed(b, i, at).last = b.last
           /\ SetMinUsed(b, i, at).whole = b.whole
           /\ b.whole => SetMinUsed(b, i, at).first = b.first
<1> DEFINE d == [b EXCEPT !.minIndex = i, !.minAt = at]
<1>1. /\ b \in BufsType /\ Counting(b, t, rq, k) /\ Window(b)
      /\ NeedsInside(b, t, rq, S, P) /\ LocksOrdered(b, n, S, P)
  BY DEF Good
<1>2. /\ d \in BufsType /\ d.minIndex = i /\ d.minAt = at
      /\ d.refs = b.refs /\ d.locks = b.locks /\ d.whole = b.whole
      /\ d.first = b.first /\ d.last = b.last
  BY <1>1 DEF BufsType
<1>3. SetMinUsed(b, i, at) = FreeBufs(d)
  BY DEF SetMinUsed
<1> HIDE DEF d
<1>4. Counting(d, t, rq, k)
  BY <1>1, <1>2 DEF Counting
<1>5. Window(d)
  BY <1>1, <1>2 DEF Window
<1>6. NeedsInside(d, t, rq, S, P)
  BY <1>1, <1>2 DEF NeedsInside, Inside
<1>7. MinBelow(d, n, S, P)
  BY <1>2 DEF MinBelow, MinFits, Inside
<1>7a. LocksFit(b, i, at)
  BY DEF MinFits
<1>8. LocksOrdered(d, n, S, P)
  <2> SUFFICES ASSUME ~b.whole, NEW l \in b.locks
               PROVE  /\ l.index < n
                      /\ Inside(b, l.at)
                      /\ \A m \in b.locks : l.index <= m.index => l.at <= m.at
                      /\ \A s \in S : /\ l.index <= s.index => l.at <= s.from
                                      /\ s.index <= l.index => s.from <= l.at
                      /\ \A p \in P : l.at <= p
                      /\ l.index < i => l.at <= at
                      /\ l.index >= i => at <= l.at
    BY <1>2 DEF LocksOrdered, Inside
  <2>1. /\ l.index < n
        /\ Inside(b, l.at)
        /\ \A m \in b.locks : l.index <= m.index => l.at <= m.at
        /\ \A s \in S : /\ l.index <= s.index => l.at <= s.from
                        /\ s.index <= l.index => s.from <= l.at
        /\ \A p \in P : l.at <= p
    BY <1>1 DEF LocksOrdered
  <2>2. /\ l.index < i => l.at <= at
        /\ l.index >= i => at <= l.at
    BY <1>7a DEF LocksFit
  <2> QED
    BY <2>1, <2>2
<1>9. Good(d, t, rq, k, n, S, P)
  BY <1>2, <1>4, <1>5, <1>6, <1>7, <1>8 DEF Good
<1> QED
  BY <1>2, <1>3, <1>9, FreeKeeps

\* c is what becomes of b when another segment is the first that is needed.
AMove(b, c, n, S, P) ==
    \E i \in Indexes, at \in Blocks :
        c = SetMinUsed(b, i, at) /\ MinFits(b, i, at, n, S, P)

\* MinMoves, for whatever is the first segment
LEMMA AMoveKeeps ==
    ASSUME NEW b, NEW t, NEW rq \in [Requests -> ReqType], NEW k, NEW n,
           NEW S \in SUBSET SegType, NEW P \in SUBSET Blocks,
           Good(b, t, rq, k, n, S, P), b.refs > 0,
           NEW c, AMove(b, c, n, S, P)
    PROVE  /\ Good(c, t, rq, k, n, S, P)
           /\ c.last = b.last /\ c.whole = b.whole
           /\ b.whole => c.first = b.first
<1>1. PICK i \in Indexes, at \in Blocks :
            c = SetMinUsed(b, i, at) /\ MinFits(b, i, at, n, S, P)
  BY DEF AMove
<1> QED
  BY <1>1, MinMoves

\* S is in the order in which it came, and before P.
InOrder(S, P) ==
    /\ \A s, z \in S : s.index <= z.index => s.from <= z.from
    /\ \A s \in S : s.index < next /\ \A p \in P : s.from <= p

\* x is the first of P.
FirstOf(x, P) == x \in P /\ \A p \in P : x <= p

\* P begins with the frames F of t, or where the last one ended.
Waiting(t, F, P) ==
    /\ F # << >> => FirstOf(F[1].from, P)
    /\ F = << >> => FirstOf(lastData[t], P)

\* The buffers before the first segment, or frame, are freed.
LEMMA FreeInputKeeps ==
    ASSUME next \in Indexes, NEW t, NEW b, NEW rq \in [Requests -> ReqType],
           NEW k, NEW S \in SUBSET SegType, NEW P \in SUBSET Blocks,
           NEW F, Waiting(t, F, P),
           Good(b, t, rq, k, next, S, P), b.refs > 0, InOrder(S, P),
           NEW c, c = FreeInputBufs(b, t, S, F)
    PROVE  /\ Good(c, t, rq, k, next, S, P)
           /\ c.last = b.last /\ c.whole = b.whole
           /\ b.whole => c.first = b.first
<1>1. /\ b \in BufsType /\ NeedsInside(b, t, rq, S, P)
      /\ LocksOrdered(b, next, S, P)
  BY DEF Good
<1>2. \A s \in S : s.index \in Indexes /\ s.from \in Blocks
  BY DEF SegType
<1>3. b.locks \subseteq LockType
  BY <1>1 DEF BufsType
<1>4. ASSUME S # {}
      PROVE  AMove(b, c, next, S, P)
  <2> DEFINE f == First(S)
  <2>1. \A s \in S : s.index \in Nat
    BY <1>2, InputBufsAssumption DEF Indexes
  <2>2. f \in S /\ \A s \in S : f.index <= s.index
    BY <1>4, <2>1, FirstOfSet
  <2>3. c = SetMinUsed(b, f.index, f.from)
    BY <1>4 DEF FreeInputBufs
  <2> HIDE DEF f
  <2>4. f.index \in Indexes /\ f.from \in Blocks
    BY <1>2, <2>2
  <2>5. f.index <= next /\ Inside(b, f.from)
    BY <1>1, <2>2, <2>4 DEF InOrder, NeedsInside, Indexes
  <2>6. /\ \A s \in S : f.index <= s.index /\ f.from <= s.from
        /\ \A p \in P : f.from <= p
    BY <2>2 DEF InOrder
  <2>7. ~b.whole => \A l \in b.locks :
            /\ l.index < f.index => l.at <= f.from
            /\ l.index >= f.index => f.from <= l.at
    <3> SUFFICES ASSUME ~b.whole, NEW l \in b.locks
                 PROVE  /\ l.index < f.index => l.at <= f.from
                        /\ l.index >= f.index => f.from <= l.at
      OBVIOUS
    <3>1. /\ l.index <= f.index => l.at <= f.from
          /\ f.index <= l.index => f.from <= l.at
      BY <1>1, <2>2 DEF LocksOrdered
    <3>2. l.index \in Int /\ f.index \in Int
      BY <1>3, <2>4 DEF LockType, Indexes
    <3> QED
      BY <3>1, <3>2
  <2>8. MinFits(b, f.index, f.from, next, S, P)
    BY <2>5, <2>6, <2>7 DEF MinFits, LocksFit
  <2> QED
    BY <2>3, <2>4, <2>8 DEF AMove
<1>5. ASSUME S = {}
      PROVE  AMove(b, c, next, S, P)
  <2> DEFINE x == IF F # << >> THEN F[1].from ELSE lastData[t]
  <2>1. c = SetMinUsed(b, next, x)
    BY <1>5 DEF FreeInputBufs
  <2>2. FirstOf(x, P)
    BY DEF Waiting
  <2> HIDE DEF x
  <2>3. x \in Blocks /\ Inside(b, x) /\ \A p \in P : x <= p
    BY <1>1, <2>2 DEF FirstOf, NeedsInside
  <2>4. ~b.whole => \A l \in b.locks :
            /\ l.index < next => l.at <= x
            /\ l.index >= next => x <= l.at
    <3> SUFFICES ASSUME ~b.whole, NEW l \in b.locks
                 PROVE  /\ l.index < next => l.at <= x
                        /\ l.index >= next => x <= l.at
      OBVIOUS
    <3>1. l.index < next /\ l.at <= x
      BY <1>1, <2>2 DEF LocksOrdered, FirstOf
    <3>2. l.index \in Int /\ next \in Int
      BY <1>3 DEF LockType, Indexes
    <3> QED
      BY <3>1, <3>2
  <2>5. next <= next
    BY DEF Indexes
  <2>6. \A s \in S : next <= s.index /\ x <= s.from
    BY <1>5
  <2>7. MinFits(b, next, x, next, S, P)
    BY <2>3, <2>4, <2>5, <2>6 DEF MinFits, LocksFit
  <2> QED
    BY <2>1, <2>3, <2>7 DEF AMove
<1>6. AMove(b, c, next, S, P)
  BY <1>4, <1>5
<1> QED
  BY <1>6, AMoveKeeps

\* what LockOf returns
LEMMA LockOfType ==
    ASSUME NEW b \in BufsType, NEW i \in Indexes
    PROVE  /\ LockOf(b, i) \in Indexes
           /\ Found(b, i) => \E l \in b.locks : l.index = LockOf(b, i)
           /\ ~b.whole => LockOf(b, i) = i
<1>1. \A l \in b.locks : l.index \in Indexes
  BY DEF BufsType, LockType
<1>2. CASE ~b.whole
  BY <1>1, <1>2 DEF LockOf, Found
<1>3. CASE b.whole
  <2>1. b.locks # {} => Last(b.locks) \in b.locks
    BY <1>1, LastOfSet
  <2>2. Found(b, i) <=> b.locks # {}
    BY <1>3 DEF Found
  <2> QED
    BY <1>1, <1>3, <2>1, <2>2 DEF LockOf
<1> QED
  BY <1>2, <1>3

\* e is what a request keeps that locks b of t at position at for segment i of
\* the segments S.
Locks(b, t, S, i, at, e) ==
    /\ i \in Indexes /\ at \in Blocks
    /\ e \in ReqType /\ e.on = t /\ e.lock = LockOf(b, i)
    /\ b.first <= e.from /\ e.to <= b.last
    /\ ~b.whole => /\ at <= e.from
                   /\ \E s \in S : s.index = i /\ s.from = at

\* The requests q are rq, but for r, which keeps e.
Takes(rq, r, e, q) ==
    /\ q \in [Requests -> ReqType]
    /\ \A x \in Requests : q[x] = IF x = r THEN e ELSE rq[x]

\* With it, the requests are q and the buffers c.
TakesLock(b, t, rq, k, S, P, r, i, at, e, c, q) ==
    /\ t \in Tracks /\ rq \in [Requests -> ReqType] /\ k \in Nat
    /\ S \in SUBSET SegType /\ P \in SUBSET Blocks
    /\ Good(b, t, rq, k, next, S, P) /\ b.refs > 0 /\ InOrder(S, P)
    /\ r \in Requests /\ rq[r].on = None
    /\ Locks(b, t, S, i, at, e) /\ c = Lock(b, i, at) /\ Takes(rq, r, e, q)

\* Request r, which reads e, takes a lock for segment i at position at.
LEMMA LockTaken ==
    ASSUME NEW b, NEW t, NEW rq, NEW k, NEW S, NEW P, NEW r, NEW i, NEW at,
           NEW e, NEW c, NEW q, TakesLock(b, t, rq, k, S, P, r, i, at, e, c, q)
    PROVE  /\ Good(c, t, q, k, next, S, P)
           /\ c.first = b.first /\ c.last = b.last /\ c.whole = b.whole
<1> SUFFICES
        ASSUME t \in Tracks, rq \in [Requests -> ReqType], k \in Nat,
               S \in SUBSET SegType, P \in SUBSET Blocks,
               Good(b, t, rq, k, next, S, P), b.refs > 0,
               r \in Requests, rq[r].on = None, c = Lock(b, i, at),
               Takes(rq, r, e, q),
               i \in Indexes, at \in Blocks,
               e \in ReqType, e.on = t, e.lock = LockOf(b, i),
               b.first <= e.from,
               ~b.whole => /\ at <= e.from
                           /\ \E s \in S : s.index = i /\ s.from = at,
               \A s, z \in S : s.index <= z.index => s.from <= z.from,
               \A s \in S : s.index < next /\ \A p \in P : s.from <= p
        PROVE  /\ Good(c, t, q, k, next, S, P)
               /\ c.first = b.first /\ c.last = b.last /\ c.whole = b.whole
  BY DEF TakesLock, Locks, InOrder
<1> DEFINE j == LockOf(b, i)
<1>1. /\ b \in BufsType /\ Counting(b, t, rq, k) /\ Window(b)
      /\ NeedsInside(b, t, rq, S, P) /\ MinBelow(b, next, S, P)
      /\ LocksOrdered(b, next, S, P)
  BY DEF Good
<1>2. /\ j \in Indexes
      /\ Found(b, i) => \E l \in b.locks : l.index = j
      /\ ~b.whole => j = i
  BY <1>1, LockOfType
<1>3. b.locks \subseteq LockType
  BY <1>1 DEF BufsType
<1>4. q \in [Requests -> ReqType]
  BY DEF Takes
<1>5. \A x \in Requests : q[x] = IF x = r THEN e ELSE rq[x]
  BY DEF Takes
<1>6. rq[r].on # t
  BY InputBufsAssumption
<1>7. \A x : Reading(q, t, x) = IF x = j THEN Reading(rq, t, x) \cup {r}
                                ELSE Reading(rq, t, x)
  BY <1>5, <1>6 DEF Reading
<1>8. \A x : /\ IsFiniteSet(Reading(rq, t, x))
             /\ Cardinality(Reading(rq, t, x)) \in Nat
             /\ Cardinality(Reading(rq, t, x) \cup {r})
                    = Cardinality(Reading(rq, t, x)) + 1
             /\ Cardinality(Reading(rq, t, x) \cup {r})
                    <= Cardinality(Requests)
  <2> TAKE x
  <2>1. Reading(rq, t, x) \in SUBSET Requests /\ r \notin Reading(rq, t, x)
    BY <1>6 DEF Reading
  <2>2. IsFiniteSet(Reading(rq, t, x))
    BY <2>1, FS_Subset, InputBufsAssumption
  <2>3. Reading(rq, t, x) \cup {r} \in SUBSET Requests
    BY <2>1
  <2> QED
    BY <2>1, <2>2, <2>3, FS_AddElement, FS_Subset, FS_CardinalityType,
       InputBufsAssumption
<1>9. Cardinality(Requests) \in Nat
  BY FS_CardinalityType, InputBufsAssumption
<1> HIDE DEF j
<1>10. ASSUME NEW d \in BufsType, d.first = b.first, d.last = b.last,
              d.whole = b.whole, d.minIndex = b.minIndex, d.minAt = b.minAt,
              d.refs > 0, Counting(d, t, q, k),
              \A l \in d.locks : \/ \E m \in b.locks : /\ l.index = m.index
                                                       /\ l.at = m.at
                                 \/ l.index = i /\ l.at = at
       PROVE  Good(d, t, q, k, next, S, P)
  <2>1. Window(d)
    BY <1>1, <1>10 DEF Window
  <2>2. \A l \in d.locks : l.index \in Int /\ l.at \in Int
    BY <1>10, InputBufsAssumption DEF BufsType, LockType, Indexes, Blocks
  <2>3. NeedsInside(d, t, q, S, P)
    <3> SUFFICES ASSUME NEW x \in Requests, q[x].on = t
                 PROVE  /\ d.first <= q[x].from
                        /\ ~d.whole => \A l \in d.locks :
                                l.index = q[x].lock => l.at <= q[x].from
      BY <1>1, <1>10 DEF NeedsInside, Inside
    <3>1. CASE x = r
      <4>1. q[x] = e
        BY <1>5, <3>1
      <4>2. ASSUME ~b.whole, NEW l \in d.locks, l.index = e.lock
            PROVE  l.at <= e.from
        <5>1. e.lock = i
          BY <1>2, <4>2 DEF j
        <5>2. PICK s \in S : s.index = i /\ s.from = at
          BY <4>2
        <5>3. at <= e.from
          BY <4>2
        <5>4. CASE l.at = at
          BY <5>3, <5>4
        <5>5. CASE \E m \in b.locks : l.index = m.index /\ l.at = m.at
          <6>1. i <= s.index
            BY <5>2 DEF Indexes
          <6>2. l.at <= s.from
            BY <1>1, <4>2, <5>1, <5>2, <5>5, <6>1 DEF LocksOrdered
          <6>3. e.from \in Int /\ s.from \in Int
            BY DEF ReqType, SegType, Blocks
          <6> QED
            BY <2>2, <5>2, <5>3, <6>2, <6>3
        <5> QED
          BY <1>10, <5>4, <5>5
      <4> QED
        BY <1>10, <4>1, <4>2
    <3>2. CASE x # r
      <4>1. q[x] = rq[x] /\ rq[x].on = t
        BY <1>5, <3>2
      <4>2. b.first <= rq[x].from
        BY <1>1, <4>1 DEF NeedsInside
      <4>3. ASSUME ~b.whole, NEW l \in d.locks, l.index = rq[x].lock
            PROVE  l.at <= rq[x].from
        <5>1. PICK m \in b.locks : m.index = rq[x].lock
          BY <1>1, <4>1 DEF Counting
        <5>2. m.at <= rq[x].from
          BY <1>1, <4>1, <4>3, <5>1 DEF NeedsInside
        <5>3. CASE \E o \in b.locks : l.index = o.index /\ l.at = o.at
          BY <1>1, <4>1, <4>3, <5>3 DEF NeedsInside
        <5>4. CASE l.index = i /\ l.at = at
          <6>1. PICK s \in S : s.index = i /\ s.from = at
            BY <4>3
          <6>2. s.index <= m.index
            BY <4>3, <5>1, <5>4, <6>1 DEF Indexes
          <6>3. at <= m.at
            BY <1>1, <4>3, <6>1, <6>2 DEF LocksOrdered
          <6>4. m.at \in Int /\ rq[x].from \in Int /\ at \in Int
            BY <1>3 DEF LockType, Blocks, ReqType
          <6> QED
            BY <5>2, <5>4, <6>3, <6>4
        <5> QED
          BY <1>10, <5>3, <5>4
      <4> QED
        BY <1>10, <4>1, <4>2, <4>3
    <3> QED
      BY <3>1, <3>2
  <2>4. MinBelow(d, next, S, P)
    BY <1>1, <1>10 DEF MinBelow
  <2>5. LocksOrdered(d, next, S, P)
    <3> DEFINE Fits(l) ==
            /\ l.index < next
            /\ Inside(b, l.at)
            /\ \A m \in b.locks : /\ l.index <= m.index => l.at <= m.at
                                  /\ m.index <= l.index => m.at <= l.at
            /\ \A s \in S : /\ l.index <= s.index => l.at <= s.from
                            /\ s.index <= l.index => s.from <= l.at
            /\ \A p \in P : l.at <= p
            /\ b.minIndex > 0 =>
                    /\ l.index < b.minIndex => l.at <= b.minAt
                    /\ l.index >= b.minIndex => b.minAt <= l.at
    <3> SUFFICES ASSUME ~b.whole PROVE LocksOrdered(d, next, S, P)
      BY <1>10 DEF LocksOrdered
    <3>1. \A l \in b.locks : Fits(l)
      BY <1>1 DEF LocksOrdered
    <3>2. PICK s \in S : s.index = i /\ s.from = at
      OBVIOUS
    <3>3. s.index < next /\ Inside(b, s.from) /\ \A p \in P : s.from <= p
      BY <1>1 DEF NeedsInside
    <3>4. \A m \in b.locks : /\ s.index <= m.index => s.from <= m.at
                             /\ m.index <= s.index => m.at <= s.from
      BY <3>1
    <3>5. b.minIndex > 0 => b.minIndex <= s.index /\ b.minAt <= s.from
      BY <1>1 DEF MinBelow
    <3>6. b.minIndex \in Int /\ i \in Int
      BY <1>1 DEF BufsType, Indexes
    <3>7. ASSUME NEW l \in d.locks PROVE Fits(l)
      <4>1. CASE \E m \in b.locks : l.index = m.index /\ l.at = m.at
        BY <3>1, <4>1
      <4>2. CASE l.index = i /\ l.at = at
        <5>1. b.minIndex > 0 =>
                    /\ ~(l.index < b.minIndex)
                    /\ b.minAt <= l.at
          BY <3>2, <3>5, <3>6, <4>2
        <5> QED
          BY <3>2, <3>3, <3>4, <4>2, <5>1
      <4> QED
        BY <1>10, <4>1, <4>2
    <3>8. ASSUME NEW l \in d.locks, NEW m \in d.locks, l.index <= m.index
          PROVE  l.at <= m.at
      <4>1. Fits(l) /\ Fits(m)
        BY <3>7
      <4>2. CASE \E o \in b.locks : m.index = o.index /\ m.at = o.at
        BY <3>8, <4>1, <4>2
      <4>3. CASE m.index = i /\ m.at = at
        BY <3>2, <3>8, <4>1, <4>3
      <4> QED
        BY <1>10, <4>2, <4>3
    <3> HIDE DEF Fits
    <3>9. \A l \in d.locks :
            /\ l.index < next
            /\ Inside(d, l.at)
            /\ \A z \in S : /\ l.index <= z.index => l.at <= z.from
                            /\ z.index <= l.index => z.from <= l.at
            /\ \A p \in P : l.at <= p
            /\ d.minIndex > 0 =>
                    /\ l.index < d.minIndex => l.at <= d.minAt
                    /\ l.index >= d.minIndex => d.minAt <= l.at
      BY <1>10, <3>7 DEF Inside, Fits
    <3> QED
      BY <3>8, <3>9 DEF LocksOrdered
  <2> QED
    BY <1>10, <2>1, <2>3, <2>4, <2>5 DEF Good
<1>11. CASE Found(b, i)
  <2> DEFINE h == [l \in b.locks |->
                    IF l.index = j THEN [l EXCEPT !.n = @ + 1] ELSE l]
             L == {h[l] : l \in b.locks}
             d == [b EXCEPT !.locks = L]
  <2>1. c = d
    BY <1>11 DEF Lock, j
  <2> HIDE DEF h
  <2>2. \A l \in b.locks :
            /\ h[l] \in LockType
            /\ h[l].index = l.index /\ h[l].at = l.at
            /\ h[l].n = Cardinality(Reading(q, t, l.index))
    <3> SUFFICES ASSUME NEW l \in b.locks
                 PROVE  /\ h[l] \in LockType
                        /\ h[l].index = l.index /\ h[l].at = l.at
                        /\ h[l].n = Cardinality(Reading(q, t, l.index))
      OBVIOUS
    <3>1. l \in LockType /\ l.n = Cardinality(Reading(rq, t, l.index))
      BY <1>1, <1>3 DEF Counting
    <3>2. CASE l.index = j
      <4>1. l.n + 1 = Cardinality(Reading(q, t, l.index))
        BY <1>7, <1>8, <3>1, <3>2
      <4>2. l.n + 1 \in 1 .. Cardinality(Requests)
        BY <1>7, <1>8, <1>9, <3>1, <3>2, <4>1 DEF LockType
      <4> QED
        BY <3>1, <3>2, <4>1, <4>2 DEF LockType, h
    <3>3. CASE l.index # j
      BY <1>7, <3>1, <3>3 DEF h
    <3> QED
      BY <3>2, <3>3
  <2>3. IsFiniteSet(L) /\ Cardinality(L) = Cardinality(b.locks)
    <3>1. \A x, y \in b.locks : h[x] = h[y] => x = y
      <4> SUFFICES ASSUME NEW x \in b.locks, NEW y \in b.locks, h[x] = h[y]
                   PROVE  x = y
        OBVIOUS
      <4>1. x.index = y.index
        BY <2>2
      <4> QED
        BY <1>1, <4>1 DEF Counting
    <3>2. DOMAIN h = b.locks /\ IsFiniteSet(b.locks)
      BY <1>1 DEF Counting, h
    <3> QED
      BY <3>1, <3>2, ImageCardinality
  <2>4. L \in SUBSET LockType
    BY <2>2
  <2>5. \A l \in L : \E m \in b.locks :
            /\ l = h[m] /\ l.index = m.index /\ l.at = m.at
            /\ l.n = Cardinality(Reading(q, t, l.index))
    BY <2>2
  <2>6. \A m \in b.locks : \E l \in L : l.index = m.index
    BY <2>2
  <2> HIDE DEF L
  <2>7. /\ d \in BufsType /\ d.locks = L
        /\ d.first = b.first /\ d.last = b.last /\ d.whole = b.whole
        /\ d.minIndex = b.minIndex /\ d.minAt = b.minAt /\ d.refs = b.refs
    BY <1>1, <2>4 DEF BufsType
  <2> HIDE DEF d
  <2>8. Counting(d, t, q, k)
    <3>1. \A l, m \in L : l.index = m.index => l = m
      <4> SUFFICES ASSUME NEW l \in L, NEW m \in L, l.index = m.index
                   PROVE  l = m
        OBVIOUS
      <4>1. PICK x \in b.locks : l = h[x] /\ l.index = x.index
        BY <2>5
      <4>2. PICK y \in b.locks : m = h[y] /\ m.index = y.index
        BY <2>5
      <4>3. x = y
        BY <1>1, <4>1, <4>2 DEF Counting
      <4> QED
        BY <4>1, <4>2, <4>3
    <3>2. d.refs = k + Cardinality(d.locks)
      BY <1>1, <2>3, <2>7 DEF Counting
    <3>3. ASSUME NEW x \in Requests, q[x].on = t
          PROVE  \E l \in L : l.index = q[x].lock
      <4>1. CASE x = r
        <5>1. q[x].lock = j
          BY <1>5, <4>1 DEF j
        <5> QED
          BY <1>2, <1>11, <2>6, <5>1
      <4>2. CASE x # r
        <5>1. q[x] = rq[x]
          BY <1>5, <4>2
        <5>2. \E m \in b.locks : m.index = rq[x].lock
          BY <1>1, <3>3, <5>1 DEF Counting
        <5> QED
          BY <2>6, <5>1, <5>2
      <4> QED
        BY <4>1, <4>2
    <3> QED
      BY <2>3, <2>5, <2>7, <3>1, <3>2, <3>3 DEF Counting
  <2>9. Good(d, t, q, k, next, S, P)
    BY <1>10, <2>5, <2>7, <2>8
  <2> QED
    BY <2>1, <2>7, <2>9
<1>12. CASE ~Found(b, i)
  <2> DEFINE m == NewLock(i, at)
             L == b.locks \cup {m}
             d == [b EXCEPT !.locks = L, !.refs = @ + 1]
  <2>1. c = d
    BY <1>12 DEF Lock
  <2>2. /\ m \in LockType /\ m.index = i /\ m.at = at /\ m.n = 1
        /\ j = i
    <3>1. 1 \in 1 .. Cardinality(Requests)
      <4>1. Requests # {} /\ IsFiniteSet(Requests)
        BY InputBufsAssumption
      <4>2. Cardinality(Requests) # 0
        BY <4>1, FS_EmptySet
      <4> QED
        BY <1>9, <4>2
    <3> QED
      BY <1>12, <3>1 DEF NewLock, LockType, LockOf, j
  <2>3. \A l \in b.locks : l.index # i
    BY <1>12 DEF Found
  <2>4. m \notin b.locks
    BY <2>2, <2>3
  <2>5. /\ IsFiniteSet(L) /\ Cardinality(L) = Cardinality(b.locks) + 1
        /\ Cardinality(b.locks) \in Nat
    BY <1>1, <2>4, FS_AddElement, FS_CardinalityType DEF Counting
  <2>6. \A l \in L : l \in b.locks \/ l = m
    OBVIOUS
  <2>7. L \in SUBSET LockType /\ b.locks \subseteq L /\ m \in L
    BY <1>3, <2>2
  <2> HIDE DEF L, m
  <2>8. /\ b.refs = k + Cardinality(b.locks)
        /\ b.refs \in Nat /\ b.refs + 1 \in Nat
    BY <1>1, <2>5 DEF Counting
  <2>9. /\ d \in BufsType /\ d.locks = L /\ d.refs = b.refs + 1
        /\ d.first = b.first /\ d.last = b.last /\ d.whole = b.whole
        /\ d.minIndex = b.minIndex /\ d.minAt = b.minAt
    BY <1>1, <2>7, <2>8 DEF BufsType
  <2> HIDE DEF d
  <2>10. Reading(rq, t, i) = {}
    <3> SUFFICES ASSUME NEW x \in Reading(rq, t, i) PROVE FALSE
      OBVIOUS
    <3>1. \E l \in b.locks : l.index = i
      BY <1>1 DEF Counting, Reading
    <3> QED
      BY <2>3, <3>1
  <2>11. Cardinality(Reading(q, t, i)) = 1
    <3>1. Reading(q, t, i) = {r}
      BY <1>7, <2>2, <2>10
    <3> QED
      BY <3>1, FS_Singleton
  <2>12. Counting(d, t, q, k)
    <3>1. \A l, o \in L : l.index = o.index => l = o
      BY <1>1, <2>2, <2>3, <2>6 DEF Counting
    <3>2. d.refs = k + Cardinality(d.locks)
      BY <2>5, <2>8, <2>9
    <3>3. \A l \in L : l.n = Cardinality(Reading(q, t, l.index))
      <4> TAKE l \in L
      <4>1. CASE l = m
        BY <2>2, <2>11, <4>1
      <4>2. CASE l \in b.locks
        <5>1. l.index # j
          BY <2>2, <2>3, <4>2
        <5> QED
          BY <1>1, <1>7, <4>2, <5>1 DEF Counting
      <4> QED
        BY <2>6, <4>1, <4>2
    <3>4. ASSUME NEW x \in Requests, q[x].on = t
          PROVE  \E l \in L : l.index = q[x].lock
      <4>1. CASE x = r
        <5>1. q[x].lock = i
          BY <1>5, <2>2, <4>1 DEF j
        <5> QED
          BY <2>2, <2>7, <5>1
      <4>2. CASE x # r
        <5>1. q[x] = rq[x]
          BY <1>5, <4>2
        <5>2. \E l \in b.locks : l.index = rq[x].lock
          BY <1>1, <3>4, <5>1 DEF Counting
        <5> QED
          BY <2>7, <5>1, <5>2
      <4> QED
        BY <4>1, <4>2
    <3> QED
      BY <2>5, <2>9, <3>1, <3>2, <3>3, <3>4 DEF Counting
  <2>13. d.refs > 0
    BY <2>8, <2>9
  <2>14. \A l \in d.locks : \/ \E o \in b.locks : /\ l.index = o.index
                                                  /\ l.at = o.at
                            \/ l.index = i /\ l.at = at
    BY <2>2, <2>6, <2>9
  <2>15. Good(d, t, q, k, next, S, P)
    BY <1>10, <2>9, <2>12, <2>13, <2>14
  <2> QED
    BY <2>1, <2>9, <2>15
<1> QED
  BY <1>11, <1>12

-----------------------------------------------------------------------------
(* What happens to buffers without being freed *)

\* Buffers that someone refers to are counted so.
LEMMA RefsPositive ==
    ASSUME NEW b, NEW t, NEW rq, NEW k \in Nat, k > 0, NEW n, NEW S, NEW P,
           Good(b, t, rq, k, n, S, P)
    PROVE  b.refs > 0 /\ b.refs \in Nat
<1>1. IsFiniteSet(b.locks) /\ b.refs = k + Cardinality(b.locks)
  BY DEF Good, Counting
<1>2. Cardinality(b.locks) \in Nat
  BY <1>1, FS_CardinalityType
<1> QED
  BY <1>1, <1>2

\* Q is part of P, but for the last buffer x.
Begins(b, P, Q) ==
    \A q \in Q : q \in P \/ (q = b.last /\ b.first <= b.last)

\* Segments are freed, and what waits is used or thrown away, or begins in the
\* last buffer.
LEMMA MediaGoes ==
    ASSUME NEW b, NEW t, NEW rq, NEW k, NEW n \in Indexes, NEW S, NEW P,
           Good(b, t, rq, k, n, S, P),
           NEW m \in Indexes, n <= m, NEW Z, Z \subseteq S,
           NEW Q, Begins(b, P, Q)
    PROVE  Good(b, t, rq, k, m, Z, Q)
<1>1. /\ b \in BufsType /\ Counting(b, t, rq, k) /\ Window(b)
      /\ NeedsInside(b, t, rq, S, P) /\ MinBelow(b, n, S, P)
      /\ LocksOrdered(b, n, S, P)
  BY DEF Good
<1>2. /\ n \in Int /\ m \in Int /\ b.minIndex \in Int
      /\ b.first \in Int /\ b.last \in Int
      /\ \A l \in b.locks : l.index \in Int
  BY <1>1, InputBufsAssumption DEF Indexes, Blocks, BufsType, LockType
<1>3. NeedsInside(b, t, rq, Z, Q)
  BY <1>1, <1>2 DEF NeedsInside, Inside, Begins
<1>4. MinBelow(b, m, Z, Q)
  BY <1>1, <1>2 DEF MinBelow, Begins
<1>5. LocksOrdered(b, m, Z, Q)
  <2> SUFFICES ASSUME ~b.whole, NEW l \in b.locks
               PROVE  /\ l.index < m
                      /\ \A q \in Q : l.at <= q
    BY <1>1 DEF LocksOrdered
  <2>1. l.index < n /\ Inside(b, l.at) /\ \A p \in P : l.at <= p
    BY <1>1 DEF LocksOrdered
  <2> QED
    BY <1>2, <2>1 DEF Begins, Inside
<1> QED
  BY <1>1, <1>3, <1>4, <1>5 DEF Good

\* A segment is made of what was the first to wait.
LEMMA SegmentMade ==
    ASSUME NEW b, NEW t, NEW rq, NEW k, NEW n \in Indexes,
           NEW S \in SUBSET SegType, NEW P,
           Good(b, t, rq, k, n, S, P),
           NEW s \in SegType, s.index = n, s.from \in P, n + 1 \in Indexes
    PROVE  Good(b, t, rq, k, n + 1, S \cup {s}, P)
<1>1. /\ b \in BufsType /\ Counting(b, t, rq, k) /\ Window(b)
      /\ NeedsInside(b, t, rq, S, P) /\ MinBelow(b, n, S, P)
      /\ LocksOrdered(b, n, S, P)
  BY DEF Good
<1>2. /\ n \in Int /\ b.minIndex \in Int
      /\ \A l \in b.locks : l.index \in Int
  BY <1>1, InputBufsAssumption DEF Indexes, BufsType, LockType
<1>3. NeedsInside(b, t, rq, S \cup {s}, P)
  BY <1>1 DEF NeedsInside
<1>4. MinBelow(b, n + 1, S \cup {s}, P)
  BY <1>1, <1>2 DEF MinBelow
<1>5. LocksOrdered(b, n + 1, S \cup {s}, P)
  <2> SUFFICES ASSUME ~b.whole, NEW l \in b.locks
               PROVE  /\ l.index < n + 1
                      /\ l.index <= s.index => l.at <= s.from
                      /\ ~(s.index <= l.index)
    BY <1>1 DEF LocksOrdered
  <2>1. l.index < n /\ \A p \in P : l.at <= p
    BY <1>1 DEF LocksOrdered
  <2> QED
    BY <1>2, <2>1
<1> QED
  BY <1>1, <1>3, <1>4, <1>5 DEF Good

\* The queue grows by a buffer.
LEMMA QueueGrows ==
    ASSUME NEW b, NEW t, NEW rq, NEW k, NEW n, NEW S \in SUBSET SegType,
           NEW P \in SUBSET Blocks,
           Good(b, t, rq, k, n, S, P), b.refs > 0, b.last < MaxBlocks,
           NEW d, d = [b EXCEPT !.last = @ + 1]
    PROVE  /\ Good(d, t, rq, k, n, S, P)
           /\ d.last = b.last + 1 /\ d.whole = b.whole /\ d.first = b.first
<1>1. /\ b \in BufsType /\ Counting(b, t, rq, k) /\ Window(b)
      /\ NeedsInside(b, t, rq, S, P) /\ MinBelow(b, n, S, P)
      /\ LocksOrdered(b, n, S, P)
  BY DEF Good
<1>2. /\ b.last \in Int /\ b.last + 1 \in Blocks /\ b.first \in Int
      /\ b.minAt \in Int
      /\ \A l \in b.locks : l.at \in Int
      /\ \A s \in S : s.from \in Int
      /\ \A p \in P : p \in Int
  BY <1>1, InputBufsAssumption DEF BufsType, Blocks, LockType, SegType
<1>3. /\ d \in BufsType /\ d.last = b.last + 1
      /\ d.refs = b.refs /\ d.locks = b.locks /\ d.whole = b.whole
      /\ d.first = b.first /\ d.minIndex = b.minIndex /\ d.minAt = b.minAt
  BY <1>1, <1>2 DEF BufsType
<1>4. Counting(d, t, rq, k)
  BY <1>1, <1>3 DEF Counting
<1>5. Window(d)
  BY <1>1, <1>2, <1>3 DEF Window
<1>6. NeedsInside(d, t, rq, S, P)
  BY <1>1, <1>2, <1>3 DEF NeedsInside, Inside
<1>7. MinBelow(d, n, S, P)
  BY <1>1, <1>2, <1>3 DEF MinBelow
<1>8. LocksOrdered(d, n, S, P)
  BY <1>1, <1>2, <1>3 DEF LocksOrdered, Inside
<1>9. Good(d, t, rq, k, n, S, P)
  BY <1>1, <1>3, <1>4, <1>5, <1>6, <1>7, <1>8 DEF Good
<1> QED
  BY <1>3, <1>9

\* Another track refers to the buffers; from now on none is freed.
LEMMA LinkKeeps ==
    ASSUME NEW b, NEW t, NEW rq, NEW k \in Nat, k > 0, NEW n, NEW S, NEW P,
           Good(b, t, rq, k, n, S, P)
    PROVE  /\ Good(Link(b), t, rq, k + 1, n, S, P)
           /\ Link(b).last = b.last /\ Link(b).first = b.first
           /\ Link(b).whole
<1>1. /\ b \in BufsType /\ Counting(b, t, rq, k) /\ Window(b)
      /\ NeedsInside(b, t, rq, S, P) /\ MinBelow(b, n, S, P)
      /\ LocksOrdered(b, n, S, P)
  BY DEF Good
<1>2. b.refs > 0 /\ b.refs \in Nat /\ b.refs = k + Cardinality(b.locks)
  BY <1>1, RefsPositive DEF Counting
<1>3. Cardinality(b.locks) \in Nat
  BY <1>1, FS_CardinalityType DEF Counting
<1> DEFINE d == Link(b)
<1>3a. d = [b EXCEPT !.refs = b.refs + 1, !.whole = TRUE] /\ b.refs + 1 \in Nat
  BY <1>2 DEF Link
<1>4. /\ d \in BufsType /\ d.last = b.last
      /\ d.refs = b.refs + 1 /\ d.locks = b.locks /\ d.whole = TRUE
      /\ d.first = b.first /\ d.minIndex = b.minIndex /\ d.minAt = b.minAt
  BY <1>1, <1>3a DEF BufsType
<1> HIDE DEF d
<1>5. d.refs = k + 1 + Cardinality(d.locks) /\ d.refs > 0
  BY <1>2, <1>3, <1>4
<1>6. Counting(d, t, rq, k + 1)
  BY <1>1, <1>4, <1>5 DEF Counting
<1>7. Window(d)
  BY <1>1, <1>2, <1>4, <1>5 DEF Window
<1>8. NeedsInside(d, t, rq, S, P)
  BY <1>1, <1>4 DEF NeedsInside, Inside
<1>9. MinBelow(d, n, S, P)
  BY <1>1, <1>2, <1>4 DEF MinBelow
<1>10. LocksOrdered(d, n, S, P)
  BY <1>4 DEF LocksOrdered
<1>11. Good(d, t, rq, k + 1, n, S, P)
  BY <1>4, <1>6, <1>7, <1>8, <1>9, <1>10 DEF Good
<1> QED
  BY <1>4, <1>11 DEF d

\* Requests that read other tracks make no difference.
LEMMA OtherReads ==
    ASSUME NEW b, NEW t, NEW rq, NEW k, NEW n, NEW S, NEW P,
           Good(b, t, rq, k, n, S, P), NEW x,
           \A r \in Requests : rq[r].on = t \/ x[r].on = t => x[r] = rq[r]
    PROVE  Good(b, t, x, k, n, S, P)
<1>1. \A i : Reading(x, t, i) = Reading(rq, t, i)
  BY DEF Reading
<1>2. Counting(b, t, x, k)
  BY <1>1 DEF Good, Counting
<1>3. NeedsInside(b, t, x, S, P)
  BY DEF Good, NeedsInside
<1> QED
  BY <1>2, <1>3 DEF Good

-----------------------------------------------------------------------------
(* What a step that does not concern a track leaves of the invariant *)

\* Holders are counted.
LEMMA HoldersType ==
    ASSUME NEW t
    PROVE  /\ Holders(t) \in Nat
           /\ t \in live \/ Linked(t) # {} => Holders(t) > 0
           /\ Holders(t) > 0 => t \in live \/ Linked(t) # {}
<1>1. IsFiniteSet(Linked(t))
  <2>1. Linked(t) \in SUBSET Fillers
    BY DEF Linked
  <2> QED
    BY <2>1, FS_Subset, InputBufsAssumption
<1>2. /\ Cardinality(Linked(t)) \in Nat
      /\ Cardinality(Linked(t)) = 0 <=> Linked(t) = {}
  BY <1>1, FS_CardinalityType, FS_EmptySet
<1> QED
  BY <1>2 DEF Holders

\* The media of t is where it was.
SameMedia(t) ==
    /\ t \in live' <=> t \in live
    /\ t \in active' <=> t \in active
    /\ packet'[t] = packet[t] /\ frames'[t] = frames[t]
    /\ lastData'[t] = lastData[t] /\ segs'[t] = segs[t] /\ next' = next
    /\ bufs'[t].last = bufs[t].last

\* Then it is in the same order.
LEMMA SameOrder ==
    ASSUME NEW t, SameMedia(t), Ordered(t)
    PROVE  Ordered(t)' /\ Later(t)' = Later(t)
<1>1. Later(t)' = Later(t)
  BY DEF SameMedia, Later
<1>2. \A p : p \in Later(t)' <=> p \in Later(t)
  BY <1>1
<1> QED
  BY <1>1 DEF SameMedia, Ordered

\* No buffer of t is freed that is lent.
StillThere(t) ==
    /\ bufs'[t].whole = bufs[t].whole
    /\ bufs[t].whole => bufs'[t].first = bufs[t].first
    /\ bufs[t].last <= bufs'[t].last

\* What was copied of t is there still.
LEMMA SameCopies ==
    ASSUME NEW t \in Tracks, Shape, bufs'[t] \in BufsType,
           Copied(t), Linked(t)' # {} => StillThere(t),
           \A f \in Fillers : copy'[f].on = t => copy'[f] = copy[f]
    PROVE  Copied(t)'
<1>1. SUFFICES ASSUME NEW f \in Fillers, copy'[f].on = t
               PROVE  /\ bufs'[t].whole
                      /\ bufs'[t].first <= copy'[f].from
                      /\ copy'[f].to <= bufs'[t].last
  BY DEF Copied, Linked, Kept
<1>2. copy[f].on = t /\ copy'[f] = copy[f] /\ f \in Linked(t)'
  BY <1>1 DEF Linked
<1>3. /\ bufs[t].whole /\ bufs[t].first <= copy[f].from
      /\ copy[f].to <= bufs[t].last
  BY <1>2 DEF Copied, Linked, Kept
<1>4. StillThere(t)
  BY <1>2
<1>5. bufs[t].last \in Int /\ bufs'[t].last \in Int /\ copy[f].to \in Int
  BY InputBufsAssumption DEF Shape, BufsType, CopyType, Blocks
<1> QED
  BY <1>2, <1>3, <1>4, <1>5 DEF StillThere

\* What is read of t has been received.
LEMMA SameReads ==
    ASSUME NEW t \in Tracks, Shape, bufs'[t] \in BufsType,
           Read(t), bufs[t].last <= bufs'[t].last,
           \A r \in Requests : req'[r].on = t => req'[r] = req[r]
    PROVE  Read(t)'
<1>1. SUFFICES ASSUME NEW r \in Requests, req'[r].on = t
               PROVE  req'[r].to <= bufs'[t].last
  BY DEF Read
<1>2. req[r].on = t /\ req'[r] = req[r] /\ req[r].to <= bufs[t].last
  BY <1>1 DEF Read
<1>3. bufs[t].last \in Int /\ bufs'[t].last \in Int /\ req[r].to \in Int
  BY InputBufsAssumption DEF Shape, BufsType, ReqType, Blocks
<1> QED
  BY <1>2, <1>3

\* Nobody comes to, or leaves, the buffers of t.
LEMMA SameHolders ==
    ASSUME NEW t, t \in live' <=> t \in live,
           \A f \in Fillers : copy'[f].on = t <=> copy[f].on = t
    PROVE  Holders(t)' = Holders(t) /\ Linked(t)' = Linked(t)
<1>1. Linked(t)' = Linked(t)
  BY DEF Linked
<1> QED
  BY <1>1 DEF Holders

\* A step that does not concern t: requests for others, copies of others
LEMMA Elsewhere ==
    ASSUME NEW t \in Tracks, Shape, Track(t), SameMedia(t), bufs'[t] = bufs[t],
           \A f \in Fillers : copy'[f].on = t \/ copy[f].on = t
                                => copy'[f] = copy[f],
           \A r \in Requests : req'[r].on = t \/ req[r].on = t
                                => req'[r] = req[r]
    PROVE  Track(t)'
<1>1. bufs[t] \in BufsType
  BY DEF Shape
<1>2. Ordered(t)' /\ Later(t)' = Later(t)
  BY SameOrder DEF Track
<1>3. bufs[t].last <= bufs[t].last
  BY <1>1, InputBufsAssumption DEF BufsType, Blocks
<1>4. Copied(t)'
  BY <1>1, <1>3, SameCopies DEF StillThere, Track
<1>5. Read(t)'
  BY <1>1, <1>3, SameReads DEF Track
<1>6. Holders(t)' = Holders(t)
  <2>1. \A f \in Fillers : copy'[f].on = t <=> copy[f].on = t
    OBVIOUS
  <2> QED
    BY <2>1, SameHolders DEF SameMedia
<1>7. Good(bufs[t], t, req', Holders(t), next, segs[t], Later(t))
  BY OtherReads DEF Track
<1>8. next' = next /\ segs'[t] = segs[t]
  BY DEF SameMedia
<1> QED
  BY <1>2, <1>4, <1>5, <1>6, <1>7, <1>8 DEF Track

\* A step of the media of t, which keeps what is needed and its order
LEMMA MediaStep ==
    ASSUME NEW t \in Tracks, Shape, Track(t),
           UNCHANGED <<live, req, copy>>, StillThere(t),
           Good(bufs'[t], t, req, Holders(t), next', segs'[t], Later(t)'),
           Ordered(t)'
    PROVE  Track(t)'
<1>1. bufs'[t] \in BufsType
  BY DEF Good
<1>2. Copied(t)'
  BY <1>1, SameCopies DEF Track
<1>3. Read(t)'
  BY <1>1, SameReads DEF Track, StillThere
<1>4. Holders(t)' = Holders(t)
  BY SameHolders
<1> QED
  BY <1>2, <1>3, <1>4 DEF Track

-----------------------------------------------------------------------------
(* Media comes in *)

\* what the invariant says of a track
LEMMA OfTrack ==
    ASSUME IInv, NEW t \in Tracks
    PROVE  /\ Shape /\ Track(t) /\ Ordered(t)
           /\ Good(bufs[t], t, req, Holders(t), next, segs[t], Later(t))
           /\ bufs[t] \in BufsType /\ segs[t] \in SUBSET SegType
           /\ Later(t) \in SUBSET Blocks /\ next \in Indexes
           /\ req \in [Requests -> ReqType]
           /\ Holders(t) \in Nat
           /\ Holders(t) = 0 => segs[t] = {} /\ Later(t) = {}
           /\ t \in live => bufs[t].refs > 0 /\ Holders(t) > 0
<1>1. Shape /\ Track(t)
  BY DEF IInv
<1>2. /\ Ordered(t)
      /\ Good(bufs[t], t, req, Holders(t), next, segs[t], Later(t))
  BY <1>1 DEF Track
<1>3. Later(t) \in SUBSET Blocks
  <2>1. \A i \in 1 .. Len(frames[t]) : frames[t][i] \in FrameType
    BY <1>1 DEF Shape
  <2>2. \A i \in 1 .. Len(frames[t]) : frames[t][i].from \in Blocks
    BY <2>1 DEF FrameType
  <2>3. packet[t] \in Blocks /\ lastData[t] \in Blocks
    BY <1>1 DEF Shape
  <2> QED
    BY <2>2, <2>3 DEF Later
<1>4. Holders(t) = 0 => t \notin live
  BY HoldersType
<1>5. Holders(t) = 0 => segs[t] = {} /\ Later(t) = {}
  BY <1>2, <1>4 DEF Ordered
<1>6. t \in live => bufs[t].refs > 0
  BY <1>2, HoldersType, RefsPositive
<1>7. bufs[t] \in BufsType /\ segs[t] \in SUBSET SegType
      /\ next \in Indexes /\ req \in [Requests -> ReqType]
  BY <1>1 DEF Shape
<1> QED
  BY <1>1, <1>2, <1>3, <1>5, <1>6, <1>7, HoldersType

\* Nothing happens to the media of other tracks than t.
AllBut(t) == \A x \in Tracks \ {t} : SameMedia(x) /\ bufs'[x] = bufs[x]

\* A step of t and of what reads or copies it
LEMMA OneTrack ==
    ASSUME IInv, NEW t \in Tracks, Shape', Track(t)', AllBut(t),
           \A f \in Fillers : \/ copy'[f] = copy[f]
                              \/ /\ copy'[f].on \in {t, None}
                                 /\ copy[f].on \in {t, None},
           \A r \in Requests : \/ req'[r] = req[r]
                               \/ /\ req'[r].on \in {t, None}
                                  /\ req[r].on \in {t, None}
    PROVE  IInv'
<1>1. SUFFICES ASSUME NEW x \in Tracks, x # t PROVE Track(x)'
  BY DEF IInv
<1>2. Shape /\ Track(x)
  BY OfTrack
<1>3. SameMedia(x) /\ bufs'[x] = bufs[x]
  BY <1>1 DEF AllBut
<1>4. x # None
  BY InputBufsAssumption
<1>5. \A f \in Fillers : copy'[f].on = x \/ copy[f].on = x => copy'[f] = copy[f]
  BY <1>1, <1>4
<1>6. \A r \in Requests : req'[r].on = x \/ req[r].on = x => req'[r] = req[r]
  BY <1>1, <1>4
<1> QED
  BY <1>2, <1>3, <1>5, <1>6, Elsewhere

\* the same, if nothing is read or copied, or no longer
LEMMA OneTrackMedia ==
    ASSUME IInv, NEW t \in Tracks, Shape', AllBut(t), StillThere(t),
           UNCHANGED <<live, req, copy>>,
           Good(bufs'[t], t, req, Holders(t), next', segs'[t], Later(t)'),
           Ordered(t)'
    PROVE  IInv'
<1>1. Shape /\ Track(t)
  BY OfTrack
<1>2. Track(t)'
  BY <1>1, MediaStep
<1> QED
  BY <1>2, OneTrack

\* A buffer is added at the end; what is needed is where it was.
LEMMA NewBufStep ==
    ASSUME IInv, NEW t \in Tracks, NewBuf(t)
    PROVE  IInv'
<1>1. /\ Shape /\ Ordered(t)
      /\ Good(bufs[t], t, req, Holders(t), next, segs[t], Later(t))
      /\ bufs[t] \in BufsType /\ segs[t] \in SUBSET SegType
      /\ Later(t) \in SUBSET Blocks
      /\ req \in [Requests -> ReqType]
      /\ bufs[t].refs > 0
  BY OfTrack DEF NewBuf
<1>2. bufs' = [bufs EXCEPT ![t] = [bufs[t] EXCEPT !.last = @ + 1]]
  BY <1>1 DEF NewBuf, Shape
<1>3. bufs'[t] = [bufs[t] EXCEPT !.last = @ + 1]
  BY <1>1, <1>2 DEF Shape
<1>4. /\ Good(bufs'[t], t, req, Holders(t), next, segs[t], Later(t))
      /\ bufs'[t].last = bufs[t].last + 1 /\ bufs'[t].whole = bufs[t].whole
      /\ bufs'[t].first = bufs[t].first
  <2>1. bufs[t].last < MaxBlocks
    BY DEF NewBuf
  <2> QED
    BY <1>1, <1>3, <2>1, QueueGrows
<1>5. bufs'[t] \in BufsType
  BY <1>4 DEF Good
<1>6. Shape'
  BY <1>1, <1>2, <1>5 DEF Shape, NewBuf
<1>7. Later(t)' = Later(t)
  BY DEF Later, NewBuf
<1>8. /\ bufs[t].last \in Nat /\ lastData[t] \in Nat
      /\ \A s \in segs[t] : s.to \in Nat
  BY <1>1, InputBufsAssumption DEF BufsType, Shape, SegType, Blocks
<1>8a. \A i \in 1 .. Len(frames[t]) : frames[t][i].to \in Nat
  <2>1. \A i \in 1 .. Len(frames[t]) : frames[t][i] \in FrameType
    BY <1>1 DEF Shape
  <2> QED
    BY <2>1, InputBufsAssumption DEF FrameType, Blocks
<1>9. Ordered(t)'
  BY <1>1, <1>4, <1>7, <1>8, <1>8a DEF Ordered, NewBuf
<1>10. StillThere(t)
  BY <1>4, <1>8 DEF StillThere
<1>11. AllBut(t)
  BY <1>1, <1>2 DEF AllBut, SameMedia, NewBuf, Shape
<1> QED
  BY <1>4, <1>6, <1>7, <1>9, <1>10, <1>11, OneTrackMedia DEF NewBuf

\* bufs[t] stays, and what waits goes, or begins in the last buffer.
LEMMA InputStep ==
    ASSUME IInv, NEW t \in Tracks, Shape', AllBut(t),
           UNCHANGED <<live, bufs, segs, next, req, copy>>,
           Begins(bufs[t], Later(t), Later(t)'), Ordered(t)'
    PROVE  IInv'
<1>1. /\ Good(bufs[t], t, req, Holders(t), next, segs[t], Later(t))
      /\ bufs[t] \in BufsType /\ next \in Indexes
  BY OfTrack
<1>2. next <= next
  BY <1>1, InputBufsAssumption DEF Indexes
<1>3. Good(bufs[t], t, req, Holders(t), next, segs[t], Later(t)')
  BY <1>1, <1>2, MediaGoes
<1>4. StillThere(t)
  BY <1>1, InputBufsAssumption DEF StillThere, BufsType, Blocks
<1> QED
  BY <1>3, <1>4, OneTrackMedia

\* A connection has a buffer, that is the last one.
LEMMA ActiveHasBuffer ==
    ASSUME IInv, NEW t \in Tracks, t \in active
    PROVE  /\ bufs[t].first <= bufs[t].last /\ bufs[t].last > 0
           /\ bufs[t].last \in Blocks /\ t \in live
<1>1. /\ Shape /\ Ordered(t) /\ bufs[t] \in BufsType
      /\ Good(bufs[t], t, req, Holders(t), next, segs[t], Later(t))
      /\ t \in live => bufs[t].refs > 0
  BY OfTrack
<1>2. t \in live /\ bufs[t].last > 0
  BY <1>1 DEF Ordered, Shape
<1>3. bufs[t].refs # 0
  BY <1>1, <1>2
<1>4. Window(bufs[t])
  BY <1>1 DEF Good
<1> QED
  BY <1>1, <1>2, <1>3, <1>4 DEF Window, BufsType

\* The packet starts in the last buffer, after all the frames.
LEMMA BeginPacketStep ==
    ASSUME IInv, NEW t \in Tracks, BeginPacket(t)
    PROVE  IInv'
<1>1. Shape /\ Ordered(t) /\ bufs[t] \in BufsType /\ Later(t) \in SUBSET Blocks
  BY OfTrack
<1>2. /\ bufs[t].first <= bufs[t].last /\ bufs[t].last > 0
      /\ bufs[t].last \in Blocks
  BY ActiveHasBuffer DEF BeginPacket
<1>3. packet'[t] = bufs[t].last /\ packet[t] = 0 /\ t \in active
  BY <1>1 DEF BeginPacket, Shape
<1>4. Shape'
  BY <1>1, <1>2 DEF Shape, BeginPacket
<1>5. Later(t)' = Later(t) \cup {bufs[t].last}
  BY <1>2, <1>3 DEF Later, BeginPacket
<1>6. Begins(bufs[t], Later(t), Later(t)')
  BY <1>2, <1>5 DEF Begins
<1>7. /\ lastData[t] \in Int /\ lastData[t] <= bufs[t].last
      /\ \A s \in segs[t] : s.from \in Int /\ s.from <= bufs[t].last
  BY <1>1, <1>2, InputBufsAssumption DEF Ordered, Shape, SegType, Blocks
<1>8. Ordered(t)'
  <2>1. \A s \in segs[t] : \A p \in Later(t)' : s.from <= p
    BY <1>1, <1>5, <1>7 DEF Ordered
  <2>2. t \in live
    BY <1>1, <1>3 DEF Shape
  <2>3. /\ packet'[t] = bufs[t].last
        /\ UNCHANGED <<live, active, bufs, frames, lastData, segs, next>>
    BY <1>3 DEF BeginPacket
  <2> QED
    BY <1>1, <1>3, <1>7, <2>1, <2>2, <2>3 DEF Ordered
<1>9. AllBut(t)
  BY <1>1 DEF AllBut, SameMedia, BeginPacket, Shape
<1> QED
  BY <1>4, <1>6, <1>8, <1>9, InputStep DEF BeginPacket

\* The frame starts where the packet did, after the frames before it.
LEMMA EndPacketStep ==
    ASSUME IInv, NEW t \in Tracks, EndPacket(t)
    PROVE  IInv'
<1> DEFINE F == frames[t]
           x == [from |-> packet[t], to |-> bufs[t].last]
<1>1. Shape /\ Ordered(t) /\ bufs[t] \in BufsType /\ Later(t) \in SUBSET Blocks
  BY OfTrack
<1>2. packet[t] # 0 /\ t \in active
  BY <1>1 DEF EndPacket, Ordered
<1>3. /\ bufs[t].first <= bufs[t].last /\ bufs[t].last > 0
      /\ bufs[t].last \in Blocks /\ t \in live
  BY <1>2, ActiveHasBuffer
<1>4. packet'[t] = 0 /\ UNCHANGED <<live, bufs, active, segs, next, req, copy>>
  BY <1>1 DEF EndPacket, Shape
<1>5. F \in Seq(FrameType) /\ packet[t] \in Blocks /\ lastData[t] \in Blocks
  BY <1>1 DEF Shape
<1>6. packet[t] \in Later(t) /\ Inside(bufs[t], packet[t])
  <2>1. packet[t] \in Later(t)
    BY <1>2 DEF Later
  <2> QED
    BY <2>1, OfTrack DEF Good, NeedsInside
<1>7. /\ lastData[t] <= packet[t] /\ packet[t] <= bufs[t].last
  BY <1>1, <1>2, <1>6 DEF Ordered, Inside
<1>8. AllBut(t)
  BY <1>1 DEF AllBut, SameMedia, EndPacket, Shape
<1>9. CASE UNCHANGED <<frames, lastData>>
  <2>1. Shape'
    BY <1>1, <1>9, InputBufsAssumption DEF Shape, EndPacket, Blocks
  <2>2. Later(t)' \subseteq Later(t)
    BY <1>4, <1>9 DEF Later
  <2>3. Begins(bufs[t], Later(t), Later(t)')
    BY <2>2 DEF Begins
  <2>4. Ordered(t)'
    BY <1>1, <1>4, <1>9, <2>2 DEF Ordered
  <2> QED
    BY <1>4, <1>8, <2>1, <2>3, <2>4, InputStep
<1>10. CASE /\ frames' = [frames EXCEPT ![t] = Append(@, x)]
            /\ lastData' = [lastData EXCEPT ![t] = bufs[t].last]
  <2>1. /\ frames'[t] = Append(F, x) /\ lastData'[t] = bufs[t].last
        /\ x \in FrameType
    BY <1>1, <1>3, <1>5, <1>10 DEF Shape, FrameType
  <2>2. Shape'
    <3>1. frames' \in [Tracks -> Seq(FrameType)]
      BY <1>1, <1>5, <1>10, <2>1 DEF Shape
    <3>2. lastData' \in [Tracks -> Blocks]
      BY <1>1, <1>3, <1>10 DEF Shape
    <3>3. packet' \in [Tracks -> Blocks]
      BY <1>1, InputBufsAssumption DEF Shape, EndPacket, Blocks
    <3> QED
      BY <1>1, <3>1, <3>2, <3>3 DEF Shape, EndPacket
  <2>3. /\ Len(frames'[t]) = Len(F) + 1 /\ Len(F) \in Nat
        /\ \A i \in 1 .. Len(F) : frames'[t][i] = F[i]
        /\ frames'[t][Len(F) + 1] = x
    BY <1>5, <2>1
  <2>4. \A i \in 1 .. Len(frames'[t]) : i \in 1 .. Len(F) \/ i = Len(F) + 1
    BY <2>3
  <2>5. \A p \in Later(t)' : p \in Later(t) \/ p = bufs[t].last
    <3>1. Later(t)' = {frames'[t][i].from : i \in 1 .. Len(frames'[t])}
                      \cup ({0, bufs[t].last} \ {0})
      BY <1>4, <2>1 DEF Later
    <3>2. \A i \in 1 .. Len(frames'[t]) : frames'[t][i].from \in Later(t)
      <4> TAKE i \in 1 .. Len(frames'[t])
      <4>1. CASE i \in 1 .. Len(F)
        BY <2>3, <4>1 DEF Later
      <4>2. CASE i = Len(F) + 1
        BY <1>6, <2>3, <4>2
      <4> QED
        BY <2>4, <4>1, <4>2
    <3> QED
      BY <3>1, <3>2
  <2>6. Begins(bufs[t], Later(t), Later(t)')
    BY <1>3, <2>5 DEF Begins
  <2>7. Ordered(t)'
    <3>1. \A i \in 1 .. Len(F) : F[i] \in FrameType
      BY <1>5
    <3>2. \A i \in 1 .. Len(F) : /\ F[i].from \in Int
                                 /\ F[i].from <= packet[t]
                                 /\ F[i].from <= bufs[t].last
                                 /\ F[i].to <= bufs[t].last
      <4> TAKE i \in 1 .. Len(F)
      <4>1. F[i].from \in Int /\ packet[t] \in Int /\ lastData[t] \in Int
            /\ bufs[t].last \in Int
        BY <1>3, <1>5, <3>1, InputBufsAssumption DEF FrameType, Blocks
      <4>2. F[i].from <= lastData[t] /\ F[i].to <= bufs[t].last
        BY <1>1 DEF Ordered
      <4> QED
        BY <1>7, <4>1, <4>2
    <3>3. \A i \in 1 .. Len(frames'[t]) :
            /\ frames'[t][i].from <= bufs[t].last
            /\ frames'[t][i].to <= bufs[t].last
      <4>1. bufs[t].last <= bufs[t].last
        BY <1>3, InputBufsAssumption DEF Blocks
      <4> TAKE i \in 1 .. Len(frames'[t])
      <4>2. CASE i \in 1 .. Len(F)
        BY <2>3, <3>2, <4>2
      <4>3. CASE i = Len(F) + 1
        <5>1. frames'[t][i] = x /\ x.from = packet[t] /\ x.to = bufs[t].last
          BY <2>3, <4>3
        <5> HIDE DEF x
        <5> QED
          BY <1>7, <4>1, <5>1
      <4> QED
        BY <2>4, <4>2, <4>3
    <3>4. \A i, j \in 1 .. Len(frames'[t]) :
            i < j => frames'[t][i].from <= frames'[t][j].from
      <4> SUFFICES ASSUME NEW i \in 1 .. Len(frames'[t]),
                          NEW j \in 1 .. Len(frames'[t]), i < j
                   PROVE  frames'[t][i].from <= frames'[t][j].from
        OBVIOUS
      <4>1. i \in 1 .. Len(F)
        BY <2>3
      <4>2. CASE j \in 1 .. Len(F)
        BY <1>1, <2>3, <4>1, <4>2 DEF Ordered
      <4>3. CASE j = Len(F) + 1
        BY <2>3, <3>2, <4>1, <4>3
      <4> QED
        BY <2>4, <4>2, <4>3
    <3>5. \A s \in segs[t] : s.from \in Int /\ s.from <= bufs[t].last
      <4>1. \A s \in segs[t] : s \in SegType
        BY <1>1 DEF Shape
      <4> QED
        BY <1>1, <1>3, <1>5, <1>7, <4>1, InputBufsAssumption
           DEF Ordered, SegType, Blocks
    <3>6. bufs[t].last <= bufs[t].last
      BY <1>3, InputBufsAssumption DEF Blocks
    <3>7. \A s \in segs[t] : \A p \in Later(t)' : s.from <= p
      BY <1>1, <2>5, <3>5 DEF Ordered
    <3>8. t \in live' /\ packet'[t] = 0 /\ bufs'[t] = bufs[t]
          /\ lastData'[t] = bufs[t].last /\ next' = next /\ segs'[t] = segs[t]
          /\ active' = active
      BY <1>3, <1>4, <2>1
    <3> QED
      BY <1>1, <3>3, <3>4, <3>5, <3>6, <3>7, <3>8 DEF Ordered
  <2> QED
    BY <1>4, <1>8, <2>2, <2>6, <2>7, InputStep
<1> QED
  BY <1>9, <1>10 DEF EndPacket

\* The packet that was not received to its end is forgotten.
LEMMA DisconnectStep ==
    ASSUME IInv, NEW t \in Tracks, Disconnect(t)
    PROVE  IInv'
<1>1. Shape /\ Ordered(t) /\ bufs[t] \in BufsType /\ Later(t) \in SUBSET Blocks
  BY OfTrack
<1>2. packet'[t] = 0 /\ t \notin active'
  BY <1>1 DEF Disconnect, Shape
<1>3. Shape'
  BY <1>1, InputBufsAssumption DEF Shape, Disconnect, Blocks
<1>4. Later(t)' \subseteq Later(t)
  BY <1>2 DEF Later, Disconnect
<1>5. Begins(bufs[t], Later(t), Later(t)')
  BY <1>4 DEF Begins
<1>6. Ordered(t)'
  BY <1>1, <1>2, <1>4 DEF Ordered, Disconnect
<1>7. AllBut(t)
  BY <1>1 DEF AllBut, SameMedia, Disconnect, Shape
<1> QED
  BY <1>3, <1>5, <1>6, <1>7, InputStep DEF Disconnect

\* Frames are forgotten, their buffers stay.
LEMMA StartStreamStep ==
    ASSUME IInv, NEW t \in Tracks, StartStream(t)
    PROVE  IInv'
<1>1. Shape /\ Ordered(t) /\ bufs[t] \in BufsType /\ Later(t) \in SUBSET Blocks
  BY OfTrack
<1>2. frames'[t] = << >>
  BY <1>1 DEF StartStream, Shape
<1>3. Shape'
  BY <1>1 DEF Shape, StartStream
<1>4. Later(t)' \subseteq Later(t)
  BY <1>2 DEF Later, StartStream
<1>5. Begins(bufs[t], Later(t), Later(t)')
  BY <1>4 DEF Begins
<1>6. Ordered(t)'
  BY <1>1, <1>2, <1>4 DEF Ordered, StartStream
<1>7. AllBut(t)
  BY <1>1 DEF AllBut, SameMedia, StartStream, Shape
<1> QED
  BY <1>3, <1>5, <1>6, <1>7, InputStep DEF StartStream

-----------------------------------------------------------------------------
(* Segments *)

\* what is left of frames of which the first k are used
LEMMA RestOf ==
    ASSUME NEW F \in Seq(FrameType), NEW k \in 0 .. Len(F)
    PROVE  /\ Rest(F, k) \in Seq(FrameType) /\ Len(Rest(F, k)) = Len(F) - k
           /\ \A i \in 1 .. Len(Rest(F, k)) :
                Rest(F, k)[i] = F[i + k] /\ i + k \in 1 .. Len(F)
           /\ k = 0 => Rest(F, k) = F
<1>1. Len(F) \in Nat
  OBVIOUS
<1>2. /\ SubSeq(F, k + 1, Len(F)) \in Seq(FrameType)
      /\ Len(SubSeq(F, k + 1, Len(F))) = Len(F) - k
      /\ \A i \in 1 .. Len(F) - k : SubSeq(F, k + 1, Len(F))[i] = F[i + k]
  BY <1>1
<1>3. k = 0 => SubSeq(F, k + 1, Len(F)) = F
  BY <1>1
<1> QED
  BY <1>1, <1>2, <1>3 DEF Rest

\* Later(t), with the frames F
LaterOf(t, F) == {F[i].from : i \in 1 .. Len(F)}
                 \cup ({packet[t], lastData[t]} \ {0})

\* what the invariant says of frames
LEMMA OfFrames ==
    ASSUME IInv, NEW t \in Tracks
    PROVE  /\ frames[t] \in Seq(FrameType) /\ Len(frames[t]) \in Nat
           /\ \A i \in 1 .. Len(frames[t]) :
                /\ frames[t][i].from \in Blocks /\ frames[t][i].to \in Blocks
                /\ frames[t][i].from \in Later(t)
                /\ frames[t][i].from <= lastData[t]
                /\ frames[t][i].to <= bufs[t].last
           /\ lastData[t] \in Blocks /\ packet[t] \in Blocks
           /\ packet[t] # 0 => lastData[t] <= packet[t]
           /\ frames[t] # << >> \/ segs[t] # {} => t \in live /\ lastData[t] # 0
<1>1. /\ Shape /\ Ordered(t) /\ bufs[t] \in BufsType
      /\ Good(bufs[t], t, req, Holders(t), next, segs[t], Later(t))
  BY OfTrack
<1>2. /\ frames[t] \in Seq(FrameType) /\ Len(frames[t]) \in Nat
      /\ lastData[t] \in Blocks /\ packet[t] \in Blocks
  BY <1>1 DEF Shape
<1>3. \A i \in 1 .. Len(frames[t]) : frames[t][i] \in FrameType
  BY <1>2
<1>4. \A i \in 1 .. Len(frames[t]) :
            /\ frames[t][i].from \in Blocks /\ frames[t][i].to \in Blocks
            /\ frames[t][i].from \in Later(t)
  BY <1>3 DEF FrameType, Later
<1>5. /\ \A p \in Later(t) : bufs[t].first <= p
      /\ \A s \in segs[t] : bufs[t].first <= s.from
  BY <1>1 DEF Good, NeedsInside, Inside
<1>6. bufs[t].first \in Nat /\ bufs[t].first >= 1 /\ lastData[t] \in Nat
  BY <1>1, <1>2, InputBufsAssumption DEF BufsType, Blocks
<1>7. ASSUME NEW i \in 1 .. Len(frames[t]) PROVE t \in live /\ lastData[t] # 0
  <2>1. frames[t][i].from \in Int /\ bufs[t].first <= frames[t][i].from
        /\ frames[t][i].from <= lastData[t]
    BY <1>1, <1>4, <1>5, InputBufsAssumption DEF Ordered, Blocks
  <2>2. t \in live
    BY <1>1, <1>4 DEF Ordered
  <2> QED
    BY <1>6, <2>1, <2>2
<1>8. ASSUME NEW s \in segs[t] PROVE t \in live /\ lastData[t] # 0
  <2>1. s \in SegType
    BY <1>1 DEF Shape
  <2>2. s.from \in Int /\ bufs[t].first <= s.from /\ s.from <= lastData[t]
    BY <1>1, <1>5, <2>1, InputBufsAssumption DEF Ordered, SegType, Blocks
  <2>3. t \in live
    BY <1>1 DEF Ordered
  <2> QED
    BY <1>6, <2>2, <2>3
<1>9. frames[t] # << >> => 1 \in 1 .. Len(frames[t])
  BY <1>2
<1> QED
  BY <1>1, <1>2, <1>4, <1>7, <1>8, <1>9 DEF Ordered

\* c is b without the buffers before what is left of t, segments S and all but
\* the first k frames.
Trimmed(t, b, c, S, k) ==
    /\ S \subseteq segs[t] /\ k \in 0 .. Len(frames[t])
    /\ frames[t] # << >> \/ segs[t] # {}
    /\ c = FreeInputBufs(b, t, S, Rest(frames[t], k))

\* What is left is kept.
LEMMA FreeInputStep ==
    ASSUME IInv, NEW t \in Tracks, NEW b, NEW rq \in [Requests -> ReqType],
           Good(b, t, rq, Holders(t), next, segs[t], Later(t)),
           NEW S, NEW k, NEW c, Trimmed(t, b, c, S, k)
    PROVE  /\ Good(c, t, rq, Holders(t), next, S,
                   LaterOf(t, Rest(frames[t], k)))
           /\ c.last = b.last /\ c.whole = b.whole
           /\ b.whole => c.first = b.first
<1> DEFINE G == frames[t]
           F == Rest(G, k)
           P == LaterOf(t, F)
<1>0. /\ S \subseteq segs[t] /\ k \in 0 .. Len(G)
      /\ G # << >> \/ segs[t] # {}
      /\ c = FreeInputBufs(b, t, S, F)
  BY DEF Trimmed
<1> HIDE DEF F
<1>1. /\ Shape /\ Ordered(t) /\ segs[t] \in SUBSET SegType
      /\ Later(t) \in SUBSET Blocks /\ Holders(t) \in Nat
      /\ next \in Indexes
      /\ t \in live => Holders(t) > 0
  BY OfTrack
<1>2. /\ G \in Seq(FrameType) /\ Len(G) \in Nat
      /\ \A i \in 1 .. Len(G) : /\ G[i].from \in Blocks
                                /\ G[i].from \in Later(t)
                                /\ G[i].from <= lastData[t]
      /\ lastData[t] \in Blocks /\ packet[t] \in Blocks
      /\ packet[t] # 0 => lastData[t] <= packet[t]
      /\ t \in live /\ lastData[t] # 0
  BY <1>0, OfFrames
<1>3. /\ F \in Seq(FrameType) /\ Len(F) \in Nat
      /\ \A i \in 1 .. Len(F) : F[i] = G[i + k] /\ i + k \in 1 .. Len(G)
      /\ F # << >> => 1 \in 1 .. Len(F)
  BY <1>0, <1>2, RestOf DEF F
<1>4. P \subseteq Later(t)
  BY <1>2, <1>3 DEF LaterOf, Later
<1>5. P \in SUBSET Blocks
  BY <1>1, <1>4
<1>6. \A p \in P : \/ \E i \in 1 .. Len(F) : p = F[i].from
                   \/ p = lastData[t]
                   \/ p = packet[t] /\ packet[t] # 0
  BY DEF LaterOf
<1>7. \A p \in P : \/ \E i \in 1 .. Len(F) : p = F[i].from
                   \/ lastData[t] <= p
  BY <1>2, <1>6, InputBufsAssumption DEF Blocks
<1>8. ASSUME F # << >> PROVE FirstOf(F[1].from, P)
  <2>1. 1 \in 1 .. Len(F) /\ 1 + k \in 1 .. Len(G) /\ F[1] = G[1 + k]
    BY <1>3, <1>8
  <2>2. F[1].from \in P
    BY <2>1 DEF LaterOf
  <2>3. ASSUME NEW i \in 1 .. Len(F) PROVE F[1].from <= F[i].from
    <3>1. CASE i = 1
      BY <1>2, <2>1, <3>1, InputBufsAssumption DEF Blocks
    <3>2. CASE i # 1
      <4>1. 1 + k < i + k
        BY <1>0, <1>2, <3>2
      <4> QED
        BY <1>1, <1>3, <2>1, <4>1 DEF Ordered
    <3> QED
      BY <3>1, <3>2
  <2>4. ASSUME NEW p \in P, lastData[t] <= p PROVE F[1].from <= p
    BY <1>2, <1>5, <2>1, <2>4, InputBufsAssumption DEF Blocks
  <2> QED
    BY <1>7, <2>2, <2>3, <2>4 DEF FirstOf
<1>9. ASSUME F = << >> PROVE FirstOf(lastData[t], P)
  <2>1. lastData[t] \in P
    BY <1>2 DEF LaterOf
  <2>2. \A i \in 1 .. Len(F) : FALSE
    BY <1>9
  <2> QED
    BY <1>7, <2>1, <2>2 DEF FirstOf
<1>10. Waiting(t, F, P)
  BY <1>8, <1>9 DEF Waiting
<1>11. InOrder(S, P)
  BY <1>0, <1>1, <1>4 DEF InOrder, Ordered
<1>12. Good(b, t, rq, Holders(t), next, S, P)
  <2>1. Begins(b, Later(t), P)
    BY <1>4 DEF Begins
  <2>2. next <= next
    BY <1>1, InputBufsAssumption DEF Indexes
  <2> QED
    BY <1>0, <1>1, <2>1, <2>2, MediaGoes
<1>13. b.refs > 0
  BY <1>1, <1>2, RefsPositive
<1>14. S \in SUBSET SegType
  BY <1>0, <1>1
<1>15. next \in Indexes /\ c = FreeInputBufs(b, t, S, F)
  BY <1>0, <1>1
<1> HIDE DEF P, G
<1>16. /\ Good(c, t, rq, Holders(t), next, S, P)
       /\ c.last = b.last /\ c.whole = b.whole
       /\ b.whole => c.first = b.first
  BY <1>5, <1>10, <1>11, <1>12, <1>13, <1>14, <1>15, FreeInputKeeps
<1> QED
  BY <1>16 DEF P, F, G

\* s is made of the frames of t.
Made(t, s) ==
    /\ frames[t] # << >> /\ s \in SegType
    /\ s.index = next /\ s.from = frames[t][1].from /\ s.to <= bufs[t].last

\* Frames are used, and segments freed or made.
LEMMA OrderGoes ==
    ASSUME IInv, NEW t \in Tracks, NEW k \in 0 .. Len(frames[t]),
           frames'[t] = Rest(frames[t], k),
           UNCHANGED <<live, active, packet, lastData>>,
           bufs'[t].last = bufs[t].last,
           next' \in Indexes, next <= next',
           \A s \in segs'[t] : s \in segs[t] \/ (Made(t, s) /\ next < next')
    PROVE  Ordered(t)' /\ Later(t)' = LaterOf(t, frames'[t])
<1> DEFINE G == frames[t]
           F == frames'[t]
<1>1. /\ Shape /\ Ordered(t) /\ segs[t] \in SUBSET SegType
      /\ Later(t) \in SUBSET Blocks /\ next \in Indexes
  BY OfTrack
<1>2. /\ G \in Seq(FrameType) /\ Len(G) \in Nat
      /\ \A i \in 1 .. Len(G) : /\ G[i].from \in Blocks
                                /\ G[i].from \in Later(t)
                                /\ G[i].from <= lastData[t]
                                /\ G[i].to <= bufs[t].last
      /\ lastData[t] \in Blocks /\ packet[t] \in Blocks
      /\ packet[t] # 0 => lastData[t] <= packet[t]
      /\ G # << >> \/ segs[t] # {} => t \in live
  BY OfFrames
<1>3. /\ Len(F) \in Nat
      /\ \A i \in 1 .. Len(F) : F[i] = G[i + k] /\ i + k \in 1 .. Len(G)
  BY <1>2, RestOf
<1>4. Later(t)' = LaterOf(t, F)
  BY DEF Later, LaterOf
<1>5. Later(t)' \subseteq Later(t)
  BY <1>2, <1>3, <1>4 DEF LaterOf, Later
<1>6. \A i \in 1 .. Len(F) : F[i].from <= lastData[t] /\ F[i].to <= bufs[t].last
  BY <1>2, <1>3
<1>7. \A i, j \in 1 .. Len(F) : i < j => F[i].from <= F[j].from
  <2> SUFFICES ASSUME NEW i \in 1 .. Len(F), NEW j \in 1 .. Len(F), i < j
               PROVE  F[i].from <= F[j].from
    OBVIOUS
  <2>1. i + k < j + k
    OBVIOUS
  <2> QED
    BY <1>1, <1>3, <2>1 DEF Ordered
<1>8. ASSUME NEW s, Made(t, s)
      PROVE  /\ s.index = next /\ s.from \in Later(t) /\ s.from \in Blocks
             /\ s.from <= lastData[t] /\ s.to <= bufs[t].last
             /\ \A p \in Later(t) : s.from <= p
  <2>1. 1 \in 1 .. Len(G)
    BY <1>2, <1>8 DEF Made
  <2>2. ASSUME NEW i \in 1 .. Len(G) PROVE G[1].from <= G[i].from
    <3>1. CASE i = 1
      BY <1>2, <2>1, <3>1, InputBufsAssumption DEF Blocks
    <3>2. CASE i # 1
      BY <1>1, <2>1, <3>2 DEF Ordered
    <3> QED
      BY <3>1, <3>2
  <2>3. \A p \in Later(t) : \/ \E i \in 1 .. Len(G) : p = G[i].from
                            \/ p \in Blocks /\ lastData[t] <= p
    BY <1>2, InputBufsAssumption DEF Later, Blocks
  <2>4. ASSUME NEW p \in Blocks, lastData[t] <= p PROVE G[1].from <= p
    BY <1>2, <2>1, <2>4, InputBufsAssumption DEF Blocks
  <2> QED
    BY <1>2, <1>8, <2>1, <2>2, <2>3, <2>4 DEF Made
<1>9. ASSUME NEW s \in segs'[t]
      PROVE  /\ s.index < next' /\ s.from <= lastData[t]
             /\ s.to <= bufs[t].last
             /\ \A p \in Later(t)' : s.from <= p
  <2>1. CASE s \in segs[t]
    <3>1. s.index \in Int /\ s.index < next
      BY <1>1, <2>1, InputBufsAssumption DEF Ordered, SegType, Indexes
    <3>2. s.index < next'
      BY <1>1, <3>1, InputBufsAssumption DEF Indexes
    <3> QED
      BY <1>1, <1>5, <2>1, <3>2 DEF Ordered
  <2>2. CASE Made(t, s) /\ next < next'
    BY <1>5, <1>8, <2>2
  <2> QED
    BY <2>1, <2>2
<1>10. ASSUME NEW s \in segs'[t], NEW z \in segs'[t], s.index <= z.index
       PROVE  s.from <= z.from
  <2>1. CASE s \in segs[t] /\ z \in segs[t]
    BY <1>1, <1>10, <2>1 DEF Ordered
  <2>2. CASE s \in segs[t] /\ Made(t, z)
    BY <1>1, <1>8, <2>2 DEF Ordered
  <2>3. CASE Made(t, s) /\ z \in segs[t]
    <3>1. z.index < next /\ z.index \in Int /\ s.index = next /\ next \in Int
      BY <1>1, <1>8, <2>3, InputBufsAssumption DEF Ordered, SegType, Indexes
    <3> QED
      BY <1>10, <3>1
  <2>4. CASE Made(t, s) /\ Made(t, z)
    <3>1. s.from = z.from /\ s.from \in Blocks
      BY <1>8, <2>4 DEF Made
    <3> QED
      BY <3>1, InputBufsAssumption DEF Blocks
  <2> QED
    BY <2>1, <2>2, <2>3, <2>4
<1>11. t \notin live => segs'[t] = {} /\ Later(t)' = {}
  <2>1. t \notin live => segs[t] = {} /\ Later(t) = {} /\ frames[t] = << >>
    BY <1>1, <1>2 DEF Ordered
  <2> QED
    BY <1>5, <2>1 DEF Made
<1> HIDE DEF F
<1>12. /\ t \in active => bufs[t].last > 0
       /\ lastData[t] <= bufs[t].last
       /\ packet[t] # 0 => t \in active /\ lastData[t] <= packet[t]
  BY <1>1 DEF Ordered
<1>13. Ordered(t)'
  BY <1>6, <1>7, <1>9, <1>10, <1>11, <1>12 DEF Ordered, F
<1> QED
  BY <1>4, <1>13 DEF F

\* The segment starts with the first frame, after all earlier segments; if it
\* is not kept, buffers are freed up to what is.
LEMMA CreateSegmentStep ==
    ASSUME IInv, NEW k \in Counts, NEW d \in Counts, NEW exists \in BOOLEAN,
           CreateSegment(k, d, exists)
    PROVE  IInv'
<1> DEFINE made(t) == IF k[t] = 0 THEN {}
                      ELSE {[index |-> next, from |-> frames[t][1].from,
                             to |-> frames[t][k[t]].to]}
<1>1. /\ next < MaxIndex /\ next' = next + 1
      /\ \A t \in Tracks : k[t] <= Len(frames[t]) /\ d[t] <= k[t]
      /\ frames' = [t \in Tracks |-> Rest(frames[t], d[t])]
      /\ IF exists
         THEN /\ segs' = [t \in Tracks |-> segs[t] \cup made(t)]
              /\ UNCHANGED bufs
         ELSE /\ bufs' = [t \in Tracks |->
                      IF k[t] = 0 THEN bufs[t]
                      ELSE FreeInputBufs(bufs[t], t, segs[t], frames'[t])]
              /\ UNCHANGED segs
      /\ UNCHANGED <<live, active, packet, lastData, low, req, copy>>
  BY DEF CreateSegment
<1>2. Shape
  BY DEF IInv
<1>3. /\ next \in Indexes /\ next' \in Indexes /\ next <= next' /\ next < next'
  BY <1>1, <1>2, InputBufsAssumption DEF Shape, Indexes
<1>4. ASSUME NEW t \in Tracks
      PROVE  /\ Track(t)' /\ bufs'[t] \in BufsType
             /\ frames'[t] \in Seq(FrameType)
             /\ segs'[t] \in SUBSET SegType
  <2> DEFINE s == [index |-> next, from |-> frames[t][1].from,
                   to |-> frames[t][k[t]].to]
             Q == LaterOf(t, frames'[t])
  <2>1. /\ Track(t) /\ Ordered(t)
        /\ Good(bufs[t], t, req, Holders(t), next, segs[t], Later(t))
        /\ bufs[t] \in BufsType /\ segs[t] \in SUBSET SegType
        /\ Later(t) \in SUBSET Blocks /\ req \in [Requests -> ReqType]
    BY OfTrack
  <2>2. /\ frames[t] \in Seq(FrameType) /\ Len(frames[t]) \in Nat
        /\ \A i \in 1 .. Len(frames[t]) :
            /\ frames[t][i].from \in Blocks /\ frames[t][i].to \in Blocks
            /\ frames[t][i].from \in Later(t)
            /\ frames[t][i].to <= bufs[t].last
    BY OfFrames
  <2>3. /\ k[t] \in 0 .. Len(frames[t]) /\ d[t] \in 0 .. Len(frames[t])
        /\ k[t] = 0 => d[t] = 0
    BY <1>1, <2>2, InputBufsAssumption DEF Counts
  <2>4. frames'[t] = Rest(frames[t], d[t])
    BY <1>1
  <2>5. frames'[t] \in Seq(FrameType)
    BY <2>2, <2>3, <2>4, RestOf
  <2>6. k[t] # 0 =>
            /\ Made(t, s) /\ s \in SegType /\ s.index = next
            /\ s.from \in Later(t)
    <3> SUFFICES ASSUME k[t] # 0
                 PROVE  /\ Made(t, s) /\ s \in SegType /\ s.index = next
                        /\ s.from \in Later(t)
      OBVIOUS
    <3>1. 1 \in 1 .. Len(frames[t]) /\ k[t] \in 1 .. Len(frames[t])
      BY <2>2, <2>3
    <3> QED
      BY <1>3, <2>2, <3>1 DEF Made, SegType
  <2>7. Q \subseteq Later(t)
    <3>1. \A i \in 1 .. Len(frames'[t]) :
            /\ frames'[t][i] = frames[t][i + d[t]]
            /\ i + d[t] \in 1 .. Len(frames[t])
      BY <2>2, <2>3, <2>4, RestOf
    <3>2. \A i \in 1 .. Len(frames'[t]) : frames'[t][i].from \in Later(t)
      BY <2>2, <3>1
    <3>3. {packet[t], lastData[t]} \ {0} \subseteq Later(t)
      BY DEF Later
    <3> QED
      BY <3>2, <3>3 DEF LaterOf
  <2> HIDE DEF s, Q
  <2>8. CASE exists
    <3>1. bufs'[t] = bufs[t]
      BY <1>1, <2>8
    <3>2. segs'[t] = IF k[t] = 0 THEN segs[t] ELSE segs[t] \cup {s}
      BY <1>1, <2>8 DEF s
    <3>3. segs'[t] \in SUBSET SegType
      BY <2>1, <2>6, <3>2
    <3>4. \A z \in segs'[t] : z \in segs[t] \/ (Made(t, z) /\ next < next')
      BY <1>3, <2>6, <3>2
    <3>5. Ordered(t)' /\ Later(t)' = Q
      BY <1>1, <1>3, <2>3, <2>4, <3>1, <3>4, OrderGoes DEF Q
    <3>6. Good(bufs[t], t, req, Holders(t), next', segs'[t], Later(t))
      <4>1. CASE k[t] = 0
        <5>1. Begins(bufs[t], Later(t), Later(t))
          BY DEF Begins
        <5> QED
          BY <1>3, <2>1, <3>2, <4>1, <5>1, MediaGoes
      <4>2. CASE k[t] # 0
        <5>1. next + 1 \in Indexes
          BY <1>1, <1>3
        <5> QED
          BY <1>1, <1>3, <2>1, <2>6, <3>2, <4>2, <5>1, SegmentMade
      <4> QED
        BY <4>1, <4>2
    <3>7. Good(bufs'[t], t, req, Holders(t), next', segs'[t], Later(t)')
      <4>1. Begins(bufs[t], Later(t), Q)
        BY <2>7 DEF Begins
      <4>2. next' <= next'
        BY <1>3, InputBufsAssumption DEF Indexes
      <4> QED
        BY <1>3, <3>1, <3>5, <3>6, <4>1, <4>2, MediaGoes
    <3>8. StillThere(t)
      BY <2>1, <3>1, InputBufsAssumption DEF StillThere, BufsType, Blocks
    <3>9. Track(t)'
      BY <1>1, <1>2, <2>1, <3>5, <3>7, <3>8, MediaStep
    <3> QED
      BY <2>1, <2>5, <3>1, <3>3, <3>9
  <2>9. CASE ~exists
    <3>1. segs'[t] = segs[t]
      BY <1>1, <2>9
    <3>2. bufs'[t] = IF k[t] = 0 THEN bufs[t]
                     ELSE FreeInputBufs(bufs[t], t, segs[t], frames'[t])
      BY <1>1, <2>9
    <3>3. /\ Good(bufs'[t], t, req, Holders(t), next, segs[t], Q)
          /\ bufs'[t].last = bufs[t].last /\ bufs'[t].whole = bufs[t].whole
          /\ bufs[t].whole => bufs'[t].first = bufs[t].first
      <4>1. CASE k[t] = 0
        <5>1. Begins(bufs[t], Later(t), Q)
          BY <2>7 DEF Begins
        <5>2. next <= next
          BY <1>3, InputBufsAssumption DEF Indexes
        <5> QED
          BY <1>3, <2>1, <3>2, <4>1, <5>1, <5>2, MediaGoes
      <4>2. CASE k[t] # 0
        <5>1. frames[t] # << >>
          BY <2>2, <2>3, <4>2
        <5>2. segs[t] \subseteq segs[t]
          OBVIOUS
        <5>3. bufs'[t] = FreeInputBufs(bufs[t], t, segs[t], frames'[t])
          BY <3>2, <4>2
        <5>4. Trimmed(t, bufs[t], bufs'[t], segs[t], d[t])
          BY <2>3, <2>4, <5>1, <5>2, <5>3 DEF Trimmed
        <5> QED
          BY <2>1, <2>4, <5>4, FreeInputStep DEF Q
      <4> QED
        BY <4>1, <4>2
    <3>4. Ordered(t)' /\ Later(t)' = Q
      BY <1>1, <1>3, <2>3, <2>4, <3>1, <3>3, OrderGoes DEF Q
    <3>5. Good(bufs'[t], t, req, Holders(t), next', segs'[t], Later(t)')
      <4>1. Begins(bufs'[t], Q, Q)
        BY DEF Begins
      <4> QED
        BY <1>3, <3>1, <3>3, <3>4, <4>1, MediaGoes
    <3>6. StillThere(t)
      BY <2>1, <3>3, InputBufsAssumption DEF StillThere, BufsType, Blocks
    <3>7. Track(t)'
      BY <1>1, <1>2, <2>1, <3>4, <3>5, <3>6, MediaStep
    <3> QED
      BY <2>1, <2>5, <3>1, <3>3, <3>7 DEF Good
  <2> QED
    BY <2>8, <2>9
<1>5. Shape'
  <2>1. bufs' \in [Tracks -> BufsType]
    <3>1. bufs' = bufs \/ bufs' = [t \in Tracks |->
                      IF k[t] = 0 THEN bufs[t]
                      ELSE FreeInputBufs(bufs[t], t, segs[t], frames'[t])]
      BY <1>1
    <3>2. bufs' = [t \in Tracks |-> bufs'[t]]
      BY <1>2, <3>1 DEF Shape
    <3> QED
      BY <1>4, <3>2
  <2>2. segs' \in [Tracks -> SUBSET SegType]
    <3>1. segs' = [t \in Tracks |-> segs'[t]]
      BY <1>1, <1>2 DEF Shape
    <3> QED
      BY <1>4, <3>1
  <2>3. frames' \in [Tracks -> Seq(FrameType)]
    BY <1>1, <1>4
  <2> QED
    BY <1>1, <1>2, <1>3, <2>1, <2>2, <2>3 DEF Shape
<1> QED
  BY <1>4, <1>5 DEF IInv

\* Buffers are freed up to the next frame, if no segment is left.
LEMMA DisposeFramesStep ==
    ASSUME IInv, NEW t \in Tracks, NEW k \in 1 .. MaxFrames, DisposeFrames(t, k)
    PROVE  IInv'
<1>1. /\ k \in 1 .. Len(frames[t])
      /\ frames' = [frames EXCEPT ![t] = Rest(frames[t], k)]
      /\ bufs' = [bufs EXCEPT ![t] =
                    FreeInputBufs(bufs[t], t, segs[t], frames'[t])]
      /\ UNCHANGED <<live, active, packet, lastData, segs, next, low, req,
                     copy>>
  BY DEF DisposeFrames
<1>2. /\ Shape
      /\ Good(bufs[t], t, req, Holders(t), next, segs[t], Later(t))
      /\ bufs[t] \in BufsType /\ next \in Indexes
      /\ req \in [Requests -> ReqType]
  BY OfTrack
<1>3. /\ frames'[t] = Rest(frames[t], k)
      /\ bufs'[t] = FreeInputBufs(bufs[t], t, segs[t], frames'[t])
  BY <1>1, <1>2 DEF Shape
<1>4. frames[t] \in Seq(FrameType) /\ Len(frames[t]) \in Nat
  BY OfFrames
<1>5. k \in 0 .. Len(frames[t]) /\ frames[t] # << >>
  BY <1>1, <1>4
<1>6. frames'[t] \in Seq(FrameType)
  BY <1>3, <1>4, <1>5, RestOf
<1>7. Trimmed(t, bufs[t], bufs'[t], segs[t], k)
  BY <1>3, <1>5 DEF Trimmed
<1>8. /\ Good(bufs'[t], t, req, Holders(t), next, segs[t],
              LaterOf(t, frames'[t]))
      /\ bufs'[t].last = bufs[t].last /\ bufs'[t].whole = bufs[t].whole
      /\ bufs[t].whole => bufs'[t].first = bufs[t].first
  BY <1>2, <1>3, <1>7, FreeInputStep
<1>9. next' \in Indexes /\ next <= next'
  BY <1>1, <1>2, InputBufsAssumption DEF Indexes
<1>10. Ordered(t)' /\ Later(t)' = LaterOf(t, frames'[t])
  BY <1>1, <1>3, <1>5, <1>8, <1>9, OrderGoes
<1>11. StillThere(t)
  BY <1>2, <1>8, InputBufsAssumption DEF StillThere, BufsType, Blocks
<1>12. bufs'[t] \in BufsType
  BY <1>8 DEF Good
<1>13. Shape'
  BY <1>1, <1>2, <1>3, <1>6, <1>12 DEF Shape
<1>14. AllBut(t)
  BY <1>1, <1>2 DEF AllBut, SameMedia, Shape
<1> QED
  BY <1>1, <1>8, <1>10, <1>11, <1>13, <1>14, OneTrackMedia

\* Segment i of t is freed, with b the buffers of t.
FreedOf(t, i, b) ==
    IF Without(t, i) = segs[t] THEN b
    ELSE FreeInputBufs(b, t, Without(t, i), frames[t])

\* What is left is kept.
LEMMA FreedKeeps ==
    ASSUME IInv, NEW t \in Tracks, NEW b, NEW rq \in [Requests -> ReqType],
           Good(b, t, rq, Holders(t), next, segs[t], Later(t)), NEW i,
           NEW c, c = FreedOf(t, i, b)
    PROVE  /\ Good(c, t, rq, Holders(t), next, Without(t, i), Later(t))
           /\ c.last = b.last /\ c.whole = b.whole
           /\ b.whole => c.first = b.first
<1>1. Without(t, i) \subseteq segs[t]
  BY DEF Without
<1>2. CASE Without(t, i) = segs[t]
  BY <1>2 DEF FreedOf
<1>3. CASE Without(t, i) # segs[t]
  <2>1. segs[t] # {}
    BY <1>1, <1>3
  <2>2. frames[t] \in Seq(FrameType) /\ Len(frames[t]) \in Nat
    BY OfFrames
  <2>3. 0 \in 0 .. Len(frames[t]) /\ frames[t] = Rest(frames[t], 0)
    BY <2>2, RestOf
  <2>4. c = FreeInputBufs(b, t, Without(t, i), frames[t])
    BY <1>3 DEF FreedOf
  <2>5. Later(t) = LaterOf(t, frames[t])
    BY DEF Later, LaterOf
  <2>6. Trimmed(t, b, c, Without(t, i), 0)
    BY <1>1, <2>1, <2>3, <2>4 DEF Trimmed
  <2> QED
    BY <2>3, <2>5, <2>6, FreeInputStep
<1> QED
  BY <1>2, <1>3

\* Segment i is freed, with b the buffers of each track, and rq the requests.
LEMMA FreeByIndexStep ==
    ASSUME IInv, NEW i \in Indexes, NEW b, FreeByIndex(i, b),
           req' \in [Requests -> ReqType],
           \A t \in Tracks :
                /\ Good(b[t], t, req', Holders(t), next, segs[t], Later(t))
                /\ b[t].last = bufs[t].last /\ b[t].whole = bufs[t].whole
                /\ bufs[t].whole /\ Holders(t) > 0
                        => b[t].first = bufs[t].first,
           \A t \in Tracks, r \in Requests :
                req'[r].on = t => req'[r] = req[r],
           low' \in BOOLEAN,
           UNCHANGED <<live, active, packet, frames, lastData, next, copy>>
    PROVE  IInv'
<1>1. Shape
  BY DEF IInv
<1>2. ASSUME NEW t \in Tracks
      PROVE  /\ Track(t)' /\ bufs'[t] \in BufsType
             /\ segs'[t] \in SUBSET SegType
  <2>1. /\ Track(t) /\ Ordered(t) /\ segs[t] \in SUBSET SegType
        /\ bufs[t] \in BufsType /\ next \in Indexes
    BY OfTrack
  <2>2. bufs'[t] = FreedOf(t, i, b[t]) /\ segs'[t] = Without(t, i)
    BY DEF FreeByIndex, FreedOf
  <2>3. /\ Good(bufs'[t], t, req', Holders(t), next, segs'[t], Later(t))
        /\ bufs'[t].last = b[t].last /\ bufs'[t].whole = b[t].whole
        /\ b[t].whole => bufs'[t].first = b[t].first
    BY <2>2, FreedKeeps
  <2>4. /\ bufs'[t].last = bufs[t].last /\ bufs'[t].whole = bufs[t].whole
        /\ bufs[t].whole /\ Holders(t) > 0 => bufs'[t].first = bufs[t].first
    BY <2>3
  <2>5. Ordered(t)' /\ Later(t)' = Later(t)
    <3>1. frames[t] \in Seq(FrameType) /\ Len(frames[t]) \in Nat
      BY OfFrames
    <3>2. 0 \in 0 .. Len(frames[t]) /\ frames'[t] = Rest(frames[t], 0)
      BY <3>1, RestOf
    <3>3. segs'[t] \subseteq segs[t]
      BY <2>2 DEF Without
    <3>4. next' \in Indexes /\ next <= next'
      BY <2>1, InputBufsAssumption DEF Indexes
    <3>5. Ordered(t)'
      BY <2>4, <3>2, <3>3, <3>4, OrderGoes
    <3>6. Later(t)' = Later(t)
      BY DEF Later
    <3> QED
      BY <3>5, <3>6
  <2>6. Holders(t)' = Holders(t) /\ Linked(t)' = Linked(t)
    BY SameHolders
  <2>7. bufs'[t] \in BufsType
    BY <2>3 DEF Good
  <2>8. bufs[t].last <= bufs'[t].last
    BY <2>1, <2>4, InputBufsAssumption DEF BufsType, Blocks
  <2>9. Copied(t)'
    <3>1. Linked(t)' # {} => StillThere(t)
      BY <2>4, <2>6, <2>8, HoldersType DEF StillThere
    <3> QED
      BY <1>1, <2>1, <2>7, <3>1, SameCopies DEF Track
  <2>10. Read(t)'
    BY <1>1, <2>1, <2>7, <2>8, SameReads DEF Track
  <2>11. Track(t)'
    BY <2>3, <2>5, <2>6, <2>9, <2>10 DEF Track
  <2> QED
    BY <2>1, <2>2, <2>7, <2>11 DEF Without
<1>3. Shape'
  <2>1. bufs' \in [Tracks -> BufsType] /\ segs' \in [Tracks -> SUBSET SegType]
    <3>1. /\ bufs' = [t \in Tracks |-> bufs'[t]]
          /\ segs' = [t \in Tracks |-> segs'[t]]
      BY DEF FreeByIndex
    <3> QED
      BY <1>2, <3>1
  <2> QED
    BY <1>1, <2>1 DEF Shape
<1> QED
  BY <1>2, <1>3 DEF IInv

\* Segment i is freed; requests keep their locks.
LEMMA FreeIndexStep ==
    ASSUME IInv, NEW i \in Indexes, FreeIndex(i)
    PROVE  IInv'
<1>1. FreeByIndex(i, bufs) /\ req' = req /\ low' \in BOOLEAN
      /\ UNCHANGED <<live, active, packet, frames, lastData, next, copy>>
  BY DEF FreeIndex, IInv, Shape
<1>2. req' \in [Requests -> ReqType]
  BY <1>1 DEF IInv, Shape
<1>3. \A t \in Tracks :
        Good(bufs[t], t, req', Holders(t), next, segs[t], Later(t))
  BY <1>1, OfTrack
<1> QED
  BY <1>1, <1>2, <1>3, FreeByIndexStep

-----------------------------------------------------------------------------
(* Requests *)

\* The locks of the requests R are gone.
LEMMA UnlockedKeeps ==
    ASSUME IInv, NEW R \in SUBSET Requests, NEW t \in Tracks,
           NEW c, c = Unlocked(R)[t]
    PROVE  /\ Good(c, t, Ended(R), Holders(t), next, segs[t], Later(t))
           /\ c.last = bufs[t].last /\ c.whole = bufs[t].whole
           /\ bufs[t].whole /\ Holders(t) > 0 => c.first = bufs[t].first
<1>1. /\ Good(bufs[t], t, req, Holders(t), next, segs[t], Later(t))
      /\ segs[t] \in SUBSET SegType /\ Later(t) \in SUBSET Blocks
      /\ Holders(t) = 0 => segs[t] = {} /\ Later(t) = {}
      /\ Holders(t) \in Nat /\ req \in [Requests -> ReqType]
  BY OfTrack
<1>2. c = Unlock(bufs[t], ReadersOf(R, t))
  BY DEF Unlocked, ReadersOf
<1> QED
  BY <1>1, <1>2, LocksGo

\* Segment i is freed after the locks of the requests that end.
LEMMA WatermarkFreeStep ==
    ASSUME IInv, NEW i \in Indexes, WatermarkFree(i)
    PROVE  IInv'
<1> DEFINE R == Registered(i)
           b == Unlocked(R)
<1>1. /\ FreeByIndex(i, b) /\ req' = Ended(R) /\ low' \in BOOLEAN
      /\ UNCHANGED <<live, active, packet, frames, lastData, next, copy>>
  BY DEF WatermarkFree, IInv, Shape
<1>2. R \in SUBSET Requests /\ req \in [Requests -> ReqType]
  BY DEF Registered, IInv, Shape
<1> HIDE DEF R
<1>3. /\ Ended(R) \in [Requests -> ReqType]
      /\ \A t \in Tracks, r \in Requests :
            Ended(R)[r].on = t => Ended(R)[r] = req[r]
  BY <1>2, EndedType
<1>4. \A t \in Tracks :
        /\ Good(b[t], t, Ended(R), Holders(t), next, segs[t], Later(t))
        /\ b[t].last = bufs[t].last /\ b[t].whole = bufs[t].whole
        /\ bufs[t].whole /\ Holders(t) > 0 => b[t].first = bufs[t].first
  BY <1>2, UnlockedKeeps
<1> HIDE DEF b
<1> QED
  BY <1>1, <1>3, <1>4, FreeByIndexStep

\* Nothing changes but the state of the memory.
LEMMA WatermarkEndStep ==
    ASSUME IInv, WatermarkEnd
    PROVE  IInv'
<1>1. Shape /\ Shape'
  BY DEF IInv, Shape, WatermarkEnd
<1>2. ASSUME NEW t \in Tracks PROVE Track(t)'
  <2>1. SameMedia(t) /\ UNCHANGED <<bufs, copy, req>>
    BY DEF SameMedia, WatermarkEnd
  <2> QED
    BY <1>1, <2>1, OfTrack, Elsewhere
<1> QED
  BY <1>1, <1>2 DEF IInv

\* the same media, if buffers b and requests may have changed
LEMMA LentStep ==
    ASSUME IInv, NEW t \in Tracks, SameMedia(t),
           Good(bufs'[t], t, req', Holders(t)', next, segs[t], Later(t)),
           Copied(t)', Read(t)'
    PROVE  Track(t)'
<1>1. Ordered(t)' /\ Later(t)' = Later(t)
  BY OfTrack, SameOrder
<1>2. next' = next /\ segs'[t] = segs[t]
  BY DEF SameMedia
<1> QED
  BY <1>1, <1>2 DEF Track

\* A lock goes, or is held for one request less.
LEMMA FinishStep ==
    ASSUME IInv, NEW r \in Requests, Finish(r)
    PROVE  IInv'
<1>1. /\ req' = Ended({r}) /\ bufs' = Unlocked({r})
      /\ UNCHANGED <<live, active, packet, frames, lastData, segs, next, low,
                     copy>>
  BY DEF Finish, input
<1>2. Shape /\ {r} \in SUBSET Requests
  BY DEF IInv
<1>3. /\ req' \in [Requests -> ReqType]
      /\ \A t \in Tracks, x \in Requests : req'[x].on = t => req'[x] = req[x]
  BY <1>1, <1>2, EndedType DEF Shape
<1>4. ASSUME NEW t \in Tracks
      PROVE  Track(t)' /\ bufs'[t] \in BufsType
  <2>1. /\ Good(bufs'[t], t, req', Holders(t), next, segs[t], Later(t))
        /\ bufs'[t].last = bufs[t].last /\ bufs'[t].whole = bufs[t].whole
        /\ bufs[t].whole /\ Holders(t) > 0 => bufs'[t].first = bufs[t].first
    BY <1>1, <1>2, UnlockedKeeps
  <2>2. Holders(t)' = Holders(t) /\ Linked(t)' = Linked(t)
    BY <1>1, SameHolders
  <2>3. bufs'[t] \in BufsType
    BY <2>1 DEF Good
  <2>4. Track(t) /\ bufs[t].last <= bufs'[t].last
    BY <2>1, OfTrack, InputBufsAssumption DEF BufsType, Blocks
  <2>5. Copied(t)'
    <3>1. Linked(t)' # {} => StillThere(t)
      BY <2>1, <2>2, <2>4, HoldersType DEF StillThere
    <3> QED
      BY <1>1, <1>2, <2>3, <2>4, <3>1, SameCopies DEF Track
  <2>6. Read(t)'
    BY <1>2, <1>3, <2>3, <2>4, SameReads DEF Track
  <2>7. SameMedia(t)
    BY <1>1, <2>1 DEF SameMedia
  <2> QED
    BY <2>1, <2>2, <2>3, <2>5, <2>6, <2>7, LentStep
<1>5. bufs' \in [Tracks -> BufsType]
  <2>1. bufs' = [t \in Tracks |-> bufs'[t]]
    BY <1>1 DEF Unlocked
  <2> QED
    BY <1>4, <2>1
<1>6. Shape'
  BY <1>1, <1>2, <1>3, <1>5 DEF Shape
<1> QED
  BY <1>4, <1>6 DEF IInv

\* Request r keeps e, and locks t at position at for segment i.
Locking(t, r, i, at, e) ==
    /\ bufs' = [bufs EXCEPT ![t] = Lock(bufs[t], i, at)]
    /\ req' = [req EXCEPT ![r] = e]
    /\ UNCHANGED <<live, active, packet, frames, lastData, segs, next, low,
                   copy>>

\* A request begins, with a lock at the start of what it reads or, if nothing
\* is freed, anywhere.
LEMMA BeginStep ==
    ASSUME IInv, NEW t \in Tracks, NEW r \in Requests, req[r].on = None,
           NEW i, NEW at, NEW e, Locks(bufs[t], t, segs[t], i, at, e),
           Holders(t) > 0, Locking(t, r, i, at, e)
    PROVE  IInv'
<1>1. /\ Shape /\ Track(t) /\ Ordered(t)
      /\ Good(bufs[t], t, req, Holders(t), next, segs[t], Later(t))
      /\ bufs[t] \in BufsType /\ segs[t] \in SUBSET SegType
      /\ Later(t) \in SUBSET Blocks /\ req \in [Requests -> ReqType]
      /\ Holders(t) \in Nat
  BY OfTrack
<1>2. /\ bufs'[t] = Lock(bufs[t], i, at)
      /\ \A x \in Tracks \ {t} : bufs'[x] = bufs[x]
  BY <1>1 DEF Shape, Locking
<1>3. /\ req'[r] = e
      /\ \A x \in Requests \ {r} : req'[x] = req[x]
      /\ req' = [req EXCEPT ![r] = e]
  BY <1>1 DEF Locking
<1>4. e \in ReqType /\ e.on = t /\ e.to <= bufs[t].last
  BY DEF Locks
<1>5. bufs[t].refs > 0
  BY <1>1, RefsPositive
<1>6. InOrder(segs[t], Later(t))
  BY <1>1 DEF Ordered, InOrder
<1>7. /\ Good(bufs'[t], t, req', Holders(t), next, segs[t], Later(t))
      /\ bufs'[t].first = bufs[t].first /\ bufs'[t].last = bufs[t].last
      /\ bufs'[t].whole = bufs[t].whole
  <2>1. Takes(req, r, e, req')
    BY <1>1, <1>3, <1>4 DEF Takes
  <2>2. TakesLock(bufs[t], t, req, Holders(t), segs[t], Later(t), r, i, at, e,
                  bufs'[t], req')
    BY <1>1, <1>2, <1>5, <1>6, <2>1 DEF TakesLock
  <2> QED
    BY <2>2, LockTaken
<1>8. bufs'[t] \in BufsType
  BY <1>7 DEF Good
<1>9. Shape'
  <2>1. bufs' \in [Tracks -> BufsType]
    BY <1>1, <1>2, <1>8 DEF Shape, Locking
  <2>2. req' \in [Requests -> ReqType]
    BY <1>1, <1>3, <1>4
  <2> QED
    BY <1>1, <2>1, <2>2 DEF Shape, Locking
<1>10. Holders(t)' = Holders(t)
  BY SameHolders DEF Locking
<1>11. StillThere(t)
  BY <1>1, <1>7, InputBufsAssumption DEF StillThere, BufsType, Blocks
<1>12. Copied(t)'
  BY <1>1, <1>8, <1>11, SameCopies DEF Track, Locking
<1>13. Read(t)'
  BY <1>1, <1>3, <1>4, <1>7 DEF Read, Track
<1>14. SameMedia(t)
  BY <1>7 DEF SameMedia, Locking
<1>15. Track(t)'
  BY <1>7, <1>10, <1>12, <1>13, <1>14, LentStep
<1>16. AllBut(t)
  BY <1>2 DEF AllBut, SameMedia, Locking
<1> QED
  BY <1>3, <1>4, <1>9, <1>15, <1>16, OneTrack DEF Locking

\* A request reads from the segment on that it locks.
LEMMA ReadSegmentsStep ==
    ASSUME IInv, NEW t \in Tracks, NEW r \in Requests, NEW s \in segs[t],
           NEW z \in segs[t], ReadSegments(r, t, s, z)
    PROVE  IInv'
<1> DEFINE e == [on |-> t, reg |-> s.index, lock |-> LockOf(bufs[t], s.index),
                 from |-> s.from, to |-> z.to]
<1>1. /\ req[r].on = None
      /\ Locking(t, r, s.index, s.from, e)
  BY DEF ReadSegments, Begin, Locking, input
<1>2. /\ Ordered(t) /\ bufs[t] \in BufsType /\ segs[t] \in SUBSET SegType
      /\ Good(bufs[t], t, req, Holders(t), next, segs[t], Later(t))
      /\ t \in live => Holders(t) > 0
  BY OfTrack
<1>3. Holders(t) > 0
  BY <1>2 DEF Ordered
<1>4. /\ s.index \in Indexes /\ s.from \in Blocks /\ z.to \in Blocks
  BY <1>2 DEF SegType
<1>5. LockOf(bufs[t], s.index) \in Indexes
  BY <1>2, <1>4, LockOfType
<1>6. e \in ReqType
  BY <1>4, <1>5 DEF ReqType
<1>7. bufs[t].first <= s.from /\ z.to <= bufs[t].last
  BY <1>2 DEF Ordered, Good, NeedsInside, Inside
<1>8. s.from <= s.from
  BY <1>4, InputBufsAssumption DEF Blocks
<1>9. Locks(bufs[t], t, segs[t], s.index, s.from, e)
  BY <1>4, <1>6, <1>7, <1>8 DEF Locks
<1> HIDE DEF e
<1> QED
  BY <1>1, <1>3, <1>9, BeginStep

\* what a filler track copied
LEMMA OfCopy ==
    ASSUME IInv, NEW f \in Fillers, copy[f].on # None
    PROVE  /\ copy[f].on \in Tracks /\ f \in Linked(copy[f].on)
           /\ copy[f].from \in Blocks /\ copy[f].to \in Blocks
           /\ bufs[copy[f].on].whole
           /\ bufs[copy[f].on].first <= copy[f].from
           /\ copy[f].to <= bufs[copy[f].on].last
           /\ Holders(copy[f].on) > 0
<1>1. copy[f] \in CopyType
  BY DEF IInv, Shape
<1>2. copy[f].on \in Tracks /\ copy[f].from \in Blocks /\ copy[f].to \in Blocks
  BY <1>1 DEF CopyType
<1>3. f \in Linked(copy[f].on)
  BY DEF Linked
<1>4. Copied(copy[f].on)
  BY <1>2, OfTrack DEF Track
<1> QED
  BY <1>2, <1>3, <1>4, HoldersType DEF Copied, Kept

\* A request reads what was copied, of which nothing is freed.
LEMMA ReadFillerStep ==
    ASSUME IInv, NEW r \in Requests, NEW f \in Fillers, ReadFiller(r, f)
    PROVE  IInv'
<1> DEFINE t == copy[f].on
           e == [on |-> t, reg |-> -1, lock |-> LockOf(bufs[t], 0),
                 from |-> copy[f].from, to |-> copy[f].to]
<1>1. /\ req[r].on = None
      /\ Locking(t, r, 0, 0, e)
  BY DEF ReadFiller, Locking, input
<1>2. /\ t \in Tracks /\ copy[f].from \in Blocks /\ copy[f].to \in Blocks
      /\ bufs[t].whole /\ bufs[t].first <= copy[f].from
      /\ copy[f].to <= bufs[t].last /\ Holders(t) > 0
  BY OfCopy DEF ReadFiller
<1> HIDE DEF t
<1>3. bufs[t] \in BufsType
  BY <1>2, OfTrack
<1>4. 0 \in Indexes /\ 0 \in Blocks
  BY InputBufsAssumption DEF Indexes, Blocks
<1>5. LockOf(bufs[t], 0) \in Indexes
  BY <1>3, <1>4, LockOfType
<1>6. e \in ReqType
  BY <1>2, <1>5 DEF ReqType
<1>7. Locks(bufs[t], t, segs[t], 0, 0, e)
  BY <1>2, <1>4, <1>6 DEF Locks
<1> HIDE DEF e
<1> QED
  BY <1>1, <1>2, <1>7, BeginStep

-----------------------------------------------------------------------------
(* Tracks and fillers *)

\* One more, or less, refers to the buffers of t.
LEMMA HoldersChange ==
    ASSUME NEW t, t \in live' <=> t \in live, NEW f
    PROVE  /\ f \notin Linked(t) /\ Linked(t)' = Linked(t) \cup {f}
                => Holders(t)' = Holders(t) + 1
           /\ f \in Linked(t) /\ Linked(t)' = Linked(t) \ {f}
                => Holders(t) = Holders(t)' + 1 /\ Holders(t)' \in Nat
<1>1. IsFiniteSet(Linked(t))
  <2>1. Linked(t) \in SUBSET Fillers
    BY DEF Linked
  <2> QED
    BY <2>1, FS_Subset, InputBufsAssumption
<1>2. Cardinality(Linked(t)) \in Nat
  BY <1>1, FS_CardinalityType
<1>3. f \notin Linked(t)
        => Cardinality(Linked(t) \cup {f}) = Cardinality(Linked(t)) + 1
  BY <1>1, FS_AddElement
<1>4. f \in Linked(t)
        => /\ Cardinality(Linked(t) \ {f}) = Cardinality(Linked(t)) - 1
           /\ Cardinality(Linked(t) \ {f}) \in Nat
  <2>1. IsFiniteSet(Linked(t) \ {f})
    BY <1>1, FS_RemoveElement
  <2> QED
    BY <1>1, <2>1, FS_RemoveElement, FS_CardinalityType
<1> DEFINE n == IF t \in live THEN 1 ELSE 0
<1>5. n \in Nat /\ Holders(t) = n + Cardinality(Linked(t))
      /\ Holders(t)' = n + Cardinality(Linked(t)')
  BY DEF Holders
<1> HIDE DEF n
<1>6. ASSUME f \notin Linked(t), Linked(t)' = Linked(t) \cup {f}
      PROVE  Holders(t)' = Holders(t) + 1
  <2>1. Cardinality(Linked(t)') = Cardinality(Linked(t)) + 1
    BY <1>3, <1>6
  <2> QED
    BY <1>2, <1>5, <2>1
<1>7. ASSUME f \in Linked(t), Linked(t)' = Linked(t) \ {f}
      PROVE  Holders(t) = Holders(t)' + 1 /\ Holders(t)' \in Nat
  <2>1. Cardinality(Linked(t)') = Cardinality(Linked(t)) - 1
        /\ Cardinality(Linked(t)') \in Nat
    BY <1>4, <1>7
  <2> QED
    BY <1>2, <1>5, <2>1
<1> QED
  BY <1>6, <1>7

\* The buffers of t change to c, and what is copied of t.
LEMMA LinkedStep ==
    ASSUME IInv, NEW t \in Tracks, NEW c, bufs' = [bufs EXCEPT ![t] = c],
           Good(c, t, req, Holders(t)', next, segs[t], Later(t)),
           c.last = bufs[t].last, Copied(t)',
           UNCHANGED <<live, active, packet, frames, lastData, segs, next, low,
                       req>>,
           copy' \in [Fillers -> CopyType],
           \A f \in Fillers : \/ copy'[f] = copy[f]
                              \/ /\ copy'[f].on \in {t, None}
                                 /\ copy[f].on \in {t, None}
    PROVE  IInv'
<1>1. Shape /\ Track(t) /\ bufs[t] \in BufsType
  BY OfTrack
<1>2. bufs'[t] = c /\ \A x \in Tracks \ {t} : bufs'[x] = bufs[x]
  BY <1>1 DEF Shape
<1>3. c \in BufsType
  BY DEF Good
<1>4. Shape'
  <2>1. bufs' \in [Tracks -> BufsType]
    BY <1>1, <1>3 DEF Shape
  <2> QED
    BY <1>1, <2>1 DEF Shape
<1>5. Read(t)'
  BY <1>1, <1>2 DEF Read, Track
<1>6. SameMedia(t) /\ AllBut(t)
  BY <1>2 DEF SameMedia, AllBut
<1>7. Track(t)'
  BY <1>2, <1>5, <1>6, LentStep
<1> QED
  BY <1>4, <1>6, <1>7, OneTrack

\* The copy is of segments in the cache, and from now on nothing is freed.
LEMMA SetFillerStep ==
    ASSUME IInv, NEW f \in Fillers, NEW t \in Tracks, NEW s \in segs[t],
           NEW z \in segs[t], SetFiller(f, t, s, z)
    PROVE  IInv'
<1> DEFINE c == Link(bufs[t])
           e == [on |-> t, from |-> s.from, to |-> z.to]
<1>1. /\ copy[f].on = None /\ t \in live
      /\ bufs' = [bufs EXCEPT ![t] = c]
      /\ copy' = [copy EXCEPT ![f] = e]
      /\ UNCHANGED <<live, active, packet, frames, lastData, segs, next, low,
                     req>>
  BY DEF SetFiller, input
<1>2. /\ Shape /\ Track(t) /\ Ordered(t)
      /\ Good(bufs[t], t, req, Holders(t), next, segs[t], Later(t))
      /\ bufs[t] \in BufsType /\ segs[t] \in SUBSET SegType
      /\ Holders(t) \in Nat /\ Holders(t) > 0
  BY <1>1, OfTrack
<1>3. /\ Good(c, t, req, Holders(t) + 1, next, segs[t], Later(t))
      /\ c.last = bufs[t].last /\ c.first = bufs[t].first /\ c.whole
  BY <1>2, LinkKeeps
<1> HIDE DEF c
<1>4. s.from \in Blocks /\ z.to \in Blocks
  BY <1>2 DEF SegType
<1>5. e \in CopyType /\ e.on = t /\ e.from = s.from /\ e.to = z.to
  BY <1>4 DEF CopyType
<1> HIDE DEF e
<1>6. /\ copy' \in [Fillers -> CopyType] /\ copy'[f] = e
      /\ \A g \in Fillers \ {f} : copy'[g] = copy[g]
  BY <1>1, <1>2, <1>5 DEF Shape
<1>7. t # None
  BY InputBufsAssumption
<1>8. f \notin Linked(t) /\ Linked(t)' = Linked(t) \cup {f}
  BY <1>1, <1>5, <1>6, <1>7 DEF Linked
<1>9. Holders(t)' = Holders(t) + 1
  BY <1>1, <1>8, HoldersChange
<1>10. bufs'[t] = c
  BY <1>1, <1>2 DEF Shape
<1>11. bufs[t].first <= s.from /\ z.to <= bufs[t].last
  BY <1>2 DEF Ordered, Good, NeedsInside, Inside
<1>12. Copied(t)'
  <2> SUFFICES ASSUME NEW g \in Linked(t)'
               PROVE  /\ bufs'[t].whole
                      /\ bufs'[t].first <= copy'[g].from
                      /\ copy'[g].to <= bufs'[t].last
    BY DEF Copied, Kept
  <2>1. CASE g = f
    BY <1>3, <1>5, <1>6, <1>10, <1>11, <2>1
  <2>2. CASE g # f
    <3>1. g \in Linked(t) /\ copy'[g] = copy[g]
      BY <1>6, <1>8, <2>2 DEF Linked
    <3>2. Copied(t)
      BY <1>2 DEF Track
    <3> QED
      BY <1>3, <1>10, <3>1, <3>2 DEF Copied, Kept
  <2> QED
    BY <2>1, <2>2
<1>13. Good(c, t, req, Holders(t)', next, segs[t], Later(t))
  BY <1>3, <1>9
<1>14. \A g \in Fillers : \/ copy'[g] = copy[g]
                          \/ /\ copy'[g].on \in {t, None}
                             /\ copy[g].on \in {t, None}
  BY <1>1, <1>5, <1>6
<1> QED
  BY <1>1, <1>3, <1>6, <1>12, <1>13, <1>14, LinkedStep

\* A link is undone; that nothing is freed stays.
LEMMA SetFillerFailsStep ==
    ASSUME IInv, NEW f \in Fillers, NEW t \in Tracks, SetFillerFails(f, t)
    PROVE  IInv'
<1> DEFINE d == Link(bufs[t])
           c == Unref(d, 1)
<1>1. /\ t \in live /\ bufs' = [bufs EXCEPT ![t] = c]
      /\ UNCHANGED <<live, active, packet, frames, lastData, segs, next, low,
                     req, copy>>
  BY DEF SetFillerFails, input
<1>2. /\ Shape /\ Track(t)
      /\ Good(bufs[t], t, req, Holders(t), next, segs[t], Later(t))
      /\ bufs[t] \in BufsType /\ segs[t] \in SUBSET SegType
      /\ Later(t) \in SUBSET Blocks /\ req \in [Requests -> ReqType]
      /\ Holders(t) \in Nat /\ Holders(t) > 0
  BY <1>1, OfTrack
<1>3. /\ Good(d, t, req, Holders(t) + 1, next, segs[t], Later(t))
      /\ d.last = bufs[t].last /\ d.first = bufs[t].first /\ d.whole
  BY <1>2, LinkKeeps
<1> HIDE DEF d
<1>4. /\ Good(c, t, req, Holders(t), next, segs[t], Later(t))
      /\ c.last = d.last /\ c.whole = d.whole /\ c.first = d.first
  <2> DEFINE k == Holders(t)
  <2>1. /\ k \in Nat /\ k > 0 /\ k # 0
        /\ Good(d, t, req, k + 1, next, segs[t], Later(t))
    BY <1>2, <1>3
  <2> HIDE DEF k
  <2>2. /\ Good(c, t, req, k, next, segs[t], Later(t))
        /\ c.last = d.last /\ c.whole = d.whole
        /\ d.whole /\ k > 0 => c.first = d.first
    BY <1>2, <2>1, UnrefKeeps
  <2> QED
    BY <1>3, <2>1, <2>2 DEF k
<1> HIDE DEF c
<1>5. /\ Holders(t)' = Holders(t) /\ Linked(t)' = Linked(t)
  BY <1>1, SameHolders
<1>6. bufs'[t] = c /\ c \in BufsType
  BY <1>1, <1>2, <1>4 DEF Shape, Good
<1>7. Copied(t)'
  <2>1. ASSUME Linked(t) # {} PROVE StillThere(t)
    <3>1. bufs[t].whole
      BY <1>2, <2>1 DEF Track, Copied
    <3>2. bufs[t].whole \in BOOLEAN /\ c.whole \in BOOLEAN
      BY <1>2, <1>6 DEF BufsType
    <3>3. bufs'[t].whole = bufs[t].whole
      BY <1>3, <1>4, <1>6, <3>1, <3>2
    <3> QED
      BY <1>2, <1>3, <1>4, <1>6, <3>3, InputBufsAssumption
         DEF StillThere, BufsType, Blocks
  <2> QED
    BY <1>1, <1>2, <1>5, <1>6, <2>1, SameCopies DEF Track
<1>8. Good(c, t, req, Holders(t)', next, segs[t], Later(t))
  BY <1>4, <1>5
<1>9. copy' \in [Fillers -> CopyType]
  BY <1>1, <1>2 DEF Shape
<1> QED
  BY <1>1, <1>3, <1>4, <1>7, <1>8, <1>9, LinkedStep

\* FreeFiller, of a track that copied t
LEMMA FreeFillerOf ==
    ASSUME IInv, NEW f \in Fillers, NEW t \in Tracks, copy[f].on = t,
           FreeFiller(f)
    PROVE  IInv'
<1> DEFINE c == Unref(bufs[t], 1)
<1>1. /\ t # None /\ bufs' = [bufs EXCEPT ![t] = c]
      /\ copy' = [copy EXCEPT ![f] = NoCopy]
      /\ UNCHANGED <<live, active, packet, frames, lastData, segs, next, low,
                     req>>
  BY DEF FreeFiller, input
<1>2. f \in Linked(t)
  BY DEF Linked
<1>3. /\ Shape /\ Track(t) /\ Ordered(t)
      /\ Good(bufs[t], t, req, Holders(t), next, segs[t], Later(t))
      /\ bufs[t] \in BufsType /\ segs[t] \in SUBSET SegType
      /\ Later(t) \in SUBSET Blocks /\ req \in [Requests -> ReqType]
  BY <1>2, OfTrack
<1>4. NoCopy \in CopyType /\ NoCopy.on = None
  BY InputBufsAssumption DEF NoCopy, CopyType, Blocks
<1>5. /\ copy' \in [Fillers -> CopyType] /\ copy'[f].on = None
      /\ \A g \in Fillers \ {f} : copy'[g] = copy[g]
  BY <1>1, <1>3, <1>4 DEF Shape
<1>6. Linked(t)' = Linked(t) \ {f}
  BY <1>1, <1>5 DEF Linked
<1>7. Holders(t) = Holders(t)' + 1 /\ Holders(t)' \in Nat
  BY <1>1, <1>2, <1>6, HoldersChange
<1>8. Holders(t)' = 0 => segs[t] = {} /\ Later(t) = {}
  <2>1. Holders(t)' = 0 => t \notin live
    <3>1. IsFiniteSet(Linked(t)')
      <4>1. Linked(t)' \in SUBSET Fillers
        BY DEF Linked
      <4> QED
        BY <4>1, FS_Subset, InputBufsAssumption
    <3>2. Cardinality(Linked(t)') \in Nat
      BY <3>1, FS_CardinalityType
    <3> QED
      BY <1>1, <3>2 DEF Holders
  <2> QED
    BY <1>3, <2>1 DEF Ordered
<1>9. /\ Good(c, t, req, Holders(t)', next, segs[t], Later(t))
      /\ c.last = bufs[t].last /\ c.whole = bufs[t].whole
      /\ bufs[t].whole /\ Holders(t)' > 0 => c.first = bufs[t].first
  <2> DEFINE k == Holders(t)'
  <2>1. /\ k \in Nat /\ Good(bufs[t], t, req, k + 1, next, segs[t], Later(t))
        /\ k = 0 => segs[t] = {} /\ Later(t) = {}
    BY <1>3, <1>7, <1>8
  <2>1a. c = Unref(bufs[t], 1)
    OBVIOUS
  <2>1b. /\ segs[t] \in SUBSET SegType /\ Later(t) \in SUBSET Blocks
         /\ req \in [Requests -> ReqType]
    BY <1>3
  <2> HIDE DEF k, c
  <2>2. /\ Good(c, t, req, k, next, segs[t], Later(t))
        /\ c.last = bufs[t].last /\ c.whole = bufs[t].whole
        /\ bufs[t].whole /\ k > 0 => c.first = bufs[t].first
    <3>1. CASE k # 0
      BY <2>1, <2>1a, <2>1b, <3>1, UnrefKeeps
    <3>2. CASE k = 0
      BY <2>1, <2>1a, <2>1b, <3>2, UnrefKeeps
    <3> QED
      BY <3>1, <3>2
  <2> QED
    BY <2>2 DEF k
<1> HIDE DEF c
<1>10. bufs'[t] = c /\ c \in BufsType
  BY <1>1, <1>2, <1>3, <1>9 DEF Shape, Good
<1>11. Copied(t)'
  <2>1. ASSUME Linked(t)' # {} PROVE StillThere(t)
    <3>1. Holders(t)' > 0
      <4>1. IsFiniteSet(Linked(t)')
        <5>1. Linked(t)' \in SUBSET Fillers
          BY DEF Linked
        <5> QED
          BY <5>1, FS_Subset, InputBufsAssumption
      <4>2. Cardinality(Linked(t)') \in Nat /\ Cardinality(Linked(t)') # 0
        BY <2>1, <4>1, FS_CardinalityType, FS_EmptySet
      <4> QED
        BY <4>2 DEF Holders
    <3> QED
      BY <1>3, <1>9, <1>10, <3>1, InputBufsAssumption
         DEF StillThere, BufsType, Blocks
  <2>2. \A g \in Fillers : copy'[g].on = t => copy'[g] = copy[g]
    BY <1>1, <1>5
  <2> QED
    BY <1>2, <1>3, <1>10, <2>1, <2>2, SameCopies DEF Track
<1>12. \A g \in Fillers : \/ copy'[g] = copy[g]
                          \/ /\ copy'[g].on \in {t, None}
                             /\ copy[g].on \in {t, None}
  BY <1>5
<1> QED
  BY <1>1, <1>2, <1>5, <1>9, <1>11, <1>12, LinkedStep

\* A filler track is freed; what others copied stays.
LEMMA FreeFillerStep ==
    ASSUME IInv, NEW f \in Fillers, FreeFiller(f)
    PROVE  IInv'
<1>1. copy[f].on \in Tracks
  BY OfCopy DEF FreeFiller
<1>2. PICK t \in Tracks : copy[f].on = t
  BY <1>1
<1> QED
  BY <1>2, FreeFillerOf

\* A track that is deleted needs nothing.
LEMMA TrackGone ==
    ASSUME IInv, NEW t \in Tracks, t \in live, NEW b,
           NEW rq \in [Requests -> ReqType],
           Good(b, t, rq, Holders(t), next, segs[t], Later(t)),
           NEW k \in Nat, Holders(t) = k + 1, NEW c, c = Unref(b, 1)
    PROVE  /\ Good(c, t, rq, k, next, {}, {})
           /\ c.last = b.last /\ c.whole = b.whole
           /\ b.whole /\ k > 0 => c.first = b.first
<1>1. next \in Indexes /\ next <= next
  BY OfTrack, InputBufsAssumption DEF Indexes
<1>2. Begins(b, Later(t), {}) /\ {} \subseteq segs[t]
  BY DEF Begins
<1>3. Good(b, t, rq, Holders(t), next, {}, {})
  BY <1>1, <1>2, MediaGoes
<1>4. Good(b, t, rq, k + 1, next, {}, {})
  BY <1>3
<1>5. {} \in SUBSET SegType /\ {} \in SUBSET Blocks
  OBVIOUS
<1> QED
  BY <1>4, <1>5, UnrefKeeps

\* Tracks D are freed, with b the buffers of each track, and requests may have
\* ended.
LEMMA DeleteStep ==
    ASSUME IInv, NEW D \in SUBSET live, NEW b, Delete(D, b),
           req' \in [Requests -> ReqType],
           \A t \in Tracks :
                /\ Good(b[t], t, req', Holders(t), next, segs[t], Later(t))
                /\ b[t].last = bufs[t].last /\ b[t].whole = bufs[t].whole
                /\ bufs[t].whole /\ Holders(t) > 0
                        => b[t].first = bufs[t].first,
           \A t \in Tracks, r \in Requests :
                req'[r].on = t => req'[r] = req[r],
           UNCHANGED <<next, low, copy>>
    PROVE  IInv'
<1>1. Shape
  BY DEF IInv
<1>2. ASSUME NEW t \in Tracks
      PROVE  Track(t)' /\ bufs'[t] \in BufsType
  <2>1. /\ Track(t) /\ Ordered(t) /\ bufs[t] \in BufsType
        /\ Holders(t) \in Nat /\ next \in Indexes
        /\ t \in live => Holders(t) > 0
    BY OfTrack
  <2>2. /\ Good(b[t], t, req', Holders(t), next, segs[t], Later(t))
        /\ b[t].last = bufs[t].last /\ b[t].whole = bufs[t].whole
        /\ bufs[t].whole /\ Holders(t) > 0 => b[t].first = bufs[t].first
    OBVIOUS
  <2>3. Linked(t)' = Linked(t)
    BY DEF Linked
  <2>4. \A r \in Requests : req'[r].on = t => req'[r] = req[r]
    OBVIOUS
  <2>5. CASE t \notin D
    <3>1. bufs'[t] = b[t]
      BY <2>5 DEF Delete
    <3>2. SameMedia(t)
      BY <2>2, <2>5, <3>1 DEF SameMedia, Delete
    <3>3. Holders(t)' = Holders(t)
      BY <2>3, <3>2 DEF SameMedia, Holders
    <3>4. bufs'[t] \in BufsType
      BY <2>2, <3>1 DEF Good
    <3>5. bufs[t].last <= bufs'[t].last
      BY <2>1, <2>2, <3>1, InputBufsAssumption DEF BufsType, Blocks
    <3>6. Copied(t)'
      <4>1. Linked(t)' # {} => StillThere(t)
        BY <2>2, <2>3, <3>1, <3>5, HoldersType DEF StillThere
      <4> QED
        BY <1>1, <2>1, <3>4, <4>1, SameCopies DEF Track
    <3>7. Read(t)'
      BY <1>1, <2>1, <2>4, <3>4, <3>5, SameReads DEF Track
    <3> QED
      BY <2>2, <3>1, <3>2, <3>3, <3>4, <3>6, <3>7, LentStep
  <2>6. CASE t \in D
    <3>1. /\ bufs'[t] = Unref(b[t], 1) /\ t \in live /\ t \notin live'
          /\ t \notin active' /\ packet'[t] = 0 /\ frames'[t] = << >>
          /\ lastData'[t] = 0 /\ segs'[t] = {} /\ next' = next
      BY <2>6 DEF Delete
    <3>2. Holders(t) = Holders(t)' + 1 /\ Holders(t)' \in Nat
      <4>1. IsFiniteSet(Linked(t))
        <5>1. Linked(t) \in SUBSET Fillers
          BY DEF Linked
        <5> QED
          BY <5>1, FS_Subset, InputBufsAssumption
      <4>2. Cardinality(Linked(t)) \in Nat
        BY <4>1, FS_CardinalityType
      <4>3. /\ Holders(t) = 1 + Cardinality(Linked(t))
            /\ Holders(t)' = 0 + Cardinality(Linked(t)')
        BY <3>1 DEF Holders
      <4> QED
        BY <2>3, <4>2, <4>3
    <3> DEFINE k == Holders(t)'
    <3>3. /\ Good(bufs'[t], t, req', k, next, {}, {})
          /\ bufs'[t].last = b[t].last /\ bufs'[t].whole = b[t].whole
          /\ b[t].whole /\ k > 0 => bufs'[t].first = b[t].first
      <4>1. k \in Nat /\ Holders(t) = k + 1
        BY <3>2
      <4>2. /\ t \in live /\ bufs'[t] = Unref(b[t], 1)
            /\ Good(b[t], t, req', Holders(t), next, segs[t], Later(t))
        BY <2>2, <3>1
      <4> HIDE DEF k
      <4>3. CASE k # 0
        BY <4>1, <4>2, <4>3, TrackGone
      <4>4. CASE k = 0
        BY <4>1, <4>2, <4>4, TrackGone
      <4> QED
        BY <4>3, <4>4
    <3>4. Later(t)' = {}
      BY <3>1 DEF Later
    <3>5. bufs'[t] \in BufsType
      BY <3>3 DEF Good
    <3>6. 0 <= bufs'[t].last /\ bufs[t].last <= bufs'[t].last
      BY <2>1, <2>2, <3>3, InputBufsAssumption DEF BufsType, Blocks
    <3>7. Ordered(t)'
      BY <3>1, <3>4, <3>6 DEF Ordered
    <3>8. Copied(t)'
      <4>1. ASSUME Linked(t)' # {} PROVE StillThere(t)
        <5>1. k > 0
          <6>1. IsFiniteSet(Linked(t)')
            <7>1. Linked(t)' \in SUBSET Fillers
              BY DEF Linked
            <7> QED
              BY <7>1, FS_Subset, InputBufsAssumption
          <6>2. Cardinality(Linked(t)') \in Nat /\ Cardinality(Linked(t)') # 0
            BY <4>1, <6>1, FS_CardinalityType, FS_EmptySet
          <6> QED
            BY <6>2 DEF Holders
        <5>2. Holders(t) > 0
          BY <2>1, <3>1
        <5> HIDE DEF k
        <5> QED
          BY <2>2, <3>3, <3>6, <5>1, <5>2 DEF StillThere
      <4> QED
        BY <1>1, <2>1, <3>5, <4>1, SameCopies DEF Track
    <3>9. Read(t)'
      BY <1>1, <2>1, <2>4, <3>5, <3>6, SameReads DEF Track
    <3> QED
      BY <3>1, <3>3, <3>4, <3>5, <3>7, <3>8, <3>9 DEF Track
  <2> QED
    BY <2>5, <2>6
<1>3. bufs' \in [Tracks -> BufsType]
  <2>1. bufs' = [t \in Tracks |-> bufs'[t]]
    BY DEF Delete
  <2> QED
    BY <1>2, <2>1
<1>4. /\ packet' \in [Tracks -> Blocks] /\ lastData' \in [Tracks -> Blocks]
      /\ frames' \in [Tracks -> Seq(FrameType)]
      /\ segs' \in [Tracks -> SUBSET SegType]
  <2>1. 0 \in Blocks /\ << >> \in Seq(FrameType)
    BY InputBufsAssumption DEF Blocks
  <2> QED
    BY <1>1, <2>1 DEF Delete, Shape
<1>5. Shape'
  BY <1>1, <1>3, <1>4 DEF Shape, Delete
<1> QED
  BY <1>2, <1>5 DEF IInv

\* A track is deleted; requests and fillers keep its buffers.
LEMMA DeleteTrackStep ==
    ASSUME IInv, NEW t \in Tracks, DeleteTrack(t)
    PROVE  IInv'
<1>1. {t} \in SUBSET live /\ Delete({t}, bufs) /\ req' = req
      /\ UNCHANGED <<next, low, copy>>
  BY DEF DeleteTrack
<1>2. req' \in [Requests -> ReqType]
  BY <1>1 DEF IInv, Shape
<1>3. \A x \in Tracks :
        Good(bufs[x], x, req', Holders(x), next, segs[x], Later(x))
  BY <1>1, OfTrack
<1> QED
  BY <1>1, <1>2, <1>3, DeleteStep

\* All tracks are deleted, after the locks of the requests that end.
LEMMA DeleteChannelStep ==
    ASSUME IInv, DeleteChannel
    PROVE  IInv'
<1> DEFINE R == UNION {Registered(i) : i \in 0 .. MaxIndex}
           b == Unlocked(R)
<1>1. /\ Delete(live, b) /\ req' = Ended(R) /\ UNCHANGED <<next, low, copy>>
  BY DEF DeleteChannel
<1>2. R \in SUBSET Requests /\ req \in [Requests -> ReqType]
  BY DEF Registered, IInv, Shape
<1> HIDE DEF R
<1>3. /\ Ended(R) \in [Requests -> ReqType]
      /\ \A t \in Tracks, r \in Requests :
            Ended(R)[r].on = t => Ended(R)[r] = req[r]
  BY <1>2, EndedType
<1>4. \A t \in Tracks :
        /\ Good(b[t], t, Ended(R), Holders(t), next, segs[t], Later(t))
        /\ b[t].last = bufs[t].last /\ b[t].whole = bufs[t].whole
        /\ bufs[t].whole /\ Holders(t) > 0 => b[t].first = bufs[t].first
  BY <1>2, UnlockedKeeps
<1>5. live \in SUBSET live
  OBVIOUS
<1> HIDE DEF b
<1> QED
  BY <1>1, <1>3, <1>4, <1>5, DeleteStep

-----------------------------------------------------------------------------
(* The invariant and the properties *)

\* The invariant holds at first.
LEMMA InitIInv == Init => IInv
<1> SUFFICES ASSUME Init PROVE IInv
  OBVIOUS
<1>1. 0 \in Blocks /\ 0 \in Indexes /\ 1 \in 1 .. MaxBlocks + 1
  BY InputBufsAssumption DEF Blocks, Indexes
<1>2. /\ NewBufs \in BufsType /\ NewBufs.refs = 1 /\ NewBufs.locks = {}
      /\ NewBufs.minIndex = 0 /\ NewBufs.first = 1 /\ NewBufs.last = 0
  BY <1>1 DEF NewBufs, BufsType
<1>3. NoReq \in ReqType /\ NoReq.on = None
  BY <1>1 DEF NoReq, ReqType
<1>4. NoCopy \in CopyType /\ NoCopy.on = None
  BY <1>1 DEF NoCopy, CopyType
<1>5. << >> \in Seq(FrameType) /\ {} \in SUBSET SegType
  OBVIOUS
<1>6. Shape
  BY <1>1, <1>2, <1>3, <1>4, <1>5 DEF Shape, Init
<1>7. ASSUME NEW t \in Tracks PROVE Track(t)
  <2>1. /\ t \in live /\ bufs[t] = NewBufs /\ t \notin active /\ packet[t] = 0
        /\ frames[t] = << >> /\ lastData[t] = 0 /\ segs[t] = {}
        /\ t # None
    BY InputBufsAssumption DEF Init
  <2>2. Later(t) = {}
    BY <2>1 DEF Later
  <2>3. Linked(t) = {}
    BY <1>4, <2>1 DEF Linked, Init
  <2>4. Holders(t) = 1
    <3>1. Cardinality({}) = 0
      BY FS_EmptySet
    <3> QED
      BY <2>1, <2>3, <3>1 DEF Holders
  <2>5. \A r \in Requests : req[r].on # t
    BY <1>3, <2>1 DEF Init
  <2>6. Counting(NewBufs, t, req, 1)
    <3>1. IsFiniteSet({}) /\ Cardinality({}) = 0
      BY FS_EmptySet
    <3> QED
      BY <1>2, <2>5, <3>1 DEF Counting
  <2>7. Good(NewBufs, t, req, 1, next, {}, {})
    BY <1>2, <2>5, <2>6
       DEF Good, Window, NeedsInside, MinBelow, LocksOrdered
  <2>8. Ordered(t)
    BY <1>2, <2>1, <2>2 DEF Ordered
  <2>9. Copied(t) /\ Read(t)
    BY <2>3, <2>5 DEF Copied, Read
  <2> QED
    BY <2>1, <2>2, <2>4, <2>7, <2>8, <2>9 DEF Track
<1> QED
  BY <1>6, <1>7 DEF IInv

\* Every step keeps it.
LEMMA NextIInv == IInv /\ [Next]_vars => IInv'
<1> SUFFICES ASSUME IInv, [Next]_vars PROVE IInv'
  OBVIOUS
<1>1. ASSUME NEW t \in Tracks,
             \/ NewBuf(t) \/ BeginPacket(t) \/ EndPacket(t)
             \/ Disconnect(t) \/ StartStream(t) \/ DeleteTrack(t)
      PROVE  IInv'
  BY <1>1, NewBufStep, BeginPacketStep, EndPacketStep, DisconnectStep,
     StartStreamStep, DeleteTrackStep
<1>2. ASSUME NEW t \in Tracks, NEW k \in 1 .. MaxFrames, DisposeFrames(t, k)
      PROVE  IInv'
  BY <1>2, DisposeFramesStep
<1>3. ASSUME NEW t \in Tracks, NEW r \in Requests, NEW s \in segs[t],
             NEW z \in segs[t], ReadSegments(r, t, s, z)
      PROVE  IInv'
  BY <1>3, ReadSegmentsStep
<1>4. ASSUME NEW t \in Tracks, NEW f \in Fillers, NEW s \in segs[t],
             NEW z \in segs[t], SetFiller(f, t, s, z)
      PROVE  IInv'
  BY <1>4, SetFillerStep
<1>5. ASSUME NEW t \in Tracks, NEW f \in Fillers, SetFillerFails(f, t)
      PROVE  IInv'
  BY <1>5, SetFillerFailsStep
<1>6. ASSUME NEW k \in Counts, NEW d \in Counts, NEW exists \in BOOLEAN,
             CreateSegment(k, d, exists)
      PROVE  IInv'
  BY <1>6, CreateSegmentStep
<1>7. ASSUME NEW i \in 0 .. MaxIndex, FreeIndex(i) \/ WatermarkFree(i)
      PROVE  IInv'
  BY <1>7, FreeIndexStep, WatermarkFreeStep DEF Indexes
<1>8. CASE WatermarkEnd \/ DeleteChannel
  BY <1>8, WatermarkEndStep, DeleteChannelStep
<1>9. ASSUME NEW r \in Requests,
             Finish(r) \/ \E f \in Fillers : ReadFiller(r, f)
      PROVE  IInv'
  BY <1>9, FinishStep, ReadFillerStep
<1>10. ASSUME NEW f \in Fillers, FreeFiller(f) PROVE IInv'
  BY <1>10, FreeFillerStep
<1>11. CASE UNCHANGED vars
  <2>1. Shape' /\ Shape
    BY <1>11 DEF IInv, Shape, vars
  <2>2. ASSUME NEW t \in Tracks PROVE Track(t)'
    <3>1. SameMedia(t) /\ UNCHANGED <<bufs, copy, req>>
      BY <1>11 DEF SameMedia, vars
    <3> QED
      BY <2>1, <3>1, OfTrack, Elsewhere
  <2> QED
    BY <2>1, <2>2 DEF IInv
<1> QED
  BY <1>1, <1>2, <1>3, <1>4, <1>5, <1>6, <1>7, <1>8, <1>9, <1>10, <1>11
     DEF Next

\* Buffers stay in order, and what is needed of them is in the queue, for any
\* number of tracks, fillers, requests and buffers.
THEOREM InputBufsInvariance == Spec => []IInv
<1>1. Init => IInv
  BY InitIInv
<1>2. IInv /\ [Next]_vars => IInv'
  BY NextIInv
<1> QED
  BY <1>1, <1>2, PTL DEF Spec

\* The state has the types it is said to have; a track has one lock for a
\* segment.
THEOREM InputBufsType == Spec => []TypeOK
<1>1. IInv => TypeOK
  <2> SUFFICES ASSUME IInv PROVE TypeOK
    OBVIOUS
  <2>1. \A t \in Tracks : \A l, m \in bufs[t].locks : l.index = m.index => l = m
    BY OfTrack DEF Good, Counting
  <2> QED
    BY <2>1 DEF IInv, Shape, TypeOK, ReqType, CopyType, SegType, FrameType
<1> QED
  BY <1>1, InputBufsInvariance, PTL

\* No buffer is freed that may still be read: by the segmenter, the packet that
\* is being received, a segment of the cache, a request or a filler.
THEOREM InputBufsKeepsData == Spec => []DataKept
<1>1. IInv => DataKept
  <2> SUFFICES ASSUME IInv PROVE DataKept
    OBVIOUS
  <2>1. ASSUME NEW t \in Tracks
        PROVE  /\ \A i \in 1 .. Len(frames[t]) :
                    Kept(t, frames[t][i].from, frames[t][i].to)
               /\ packet[t] # 0 => Kept(t, packet[t], bufs[t].last)
               /\ \A s \in segs[t] : Kept(t, s.from, s.to)
    <3>1. /\ Ordered(t) /\ bufs[t] \in BufsType
          /\ \A s \in segs[t] : Inside(bufs[t], s.from)
          /\ \A p \in Later(t) : Inside(bufs[t], p)
      BY OfTrack DEF Good, NeedsInside
    <3>2. \A i \in 1 .. Len(frames[t]) :
                Kept(t, frames[t][i].from, frames[t][i].to)
      BY <3>1, OfFrames DEF Kept, Inside
    <3>3. packet[t] # 0 => Kept(t, packet[t], bufs[t].last)
      <4>1. packet[t] # 0 => packet[t] \in Later(t)
        BY DEF Later
      <4>2. bufs[t].last <= bufs[t].last
        BY <3>1, InputBufsAssumption DEF BufsType, Blocks
      <4> QED
        BY <3>1, <4>1, <4>2 DEF Kept, Inside
    <3>4. \A s \in segs[t] : Kept(t, s.from, s.to)
      BY <3>1 DEF Ordered, Kept, Inside
    <3> QED
      BY <3>2, <3>3, <3>4
  <2>2. ASSUME NEW r \in Requests, req[r].on # None
        PROVE  Kept(req[r].on, req[r].from, req[r].to)
    <3>1. req[r] \in ReqType
      BY DEF IInv, Shape
    <3>2. req[r].on \in Tracks
      BY <2>2, <3>1 DEF ReqType
    <3>3. PICK t \in Tracks : req[r].on = t
      BY <3>2
    <3>4. bufs[t].first <= req[r].from
      BY <3>3, OfTrack DEF Good, NeedsInside
    <3>5. req[r].to <= bufs[t].last
      BY <3>3, OfTrack DEF Track, Read
    <3> QED
      BY <3>3, <3>4, <3>5 DEF Kept
  <2>3. ASSUME NEW f \in Fillers, copy[f].on # None
        PROVE  Kept(copy[f].on, copy[f].from, copy[f].to)
    BY <2>3, OfCopy DEF Kept
  <2> QED
    BY <2>1, <2>2, <2>3 DEF DataKept
<1> QED
  BY <1>1, InputBufsInvariance, PTL

\* Buffers are freed with the last of those who refer to them, never before
\* and never twice.
THEOREM InputBufsCounted == Spec => []Counted
<1>1. IInv => Counted
  <2> SUFFICES ASSUME IInv, NEW t \in Tracks
               PROVE  /\ bufs[t].refs = Holders(t)
                                        + Cardinality(bufs[t].locks)
                      /\ \A l \in bufs[t].locks :
                            l.n = Cardinality(Readers(t, l.index))
                      /\ \A r \in Requests : req[r].on = t =>
                            \E l \in bufs[t].locks : l.index = req[r].lock
                      /\ bufs[t].refs = 0 => bufs[t].first > bufs[t].last
    BY DEF Counted, Holders
  <2>1. Counting(bufs[t], t, req, Holders(t)) /\ Window(bufs[t])
    BY OfTrack DEF Good
  <2>2. \A i : Readers(t, i) = Reading(req, t, i)
    BY DEF Readers, Reading
  <2>3. bufs[t].refs = 0 => bufs[t].first > bufs[t].last
    BY <2>1 DEF Window
  <2> QED
    BY <2>1, <2>2, <2>3 DEF Counting
<1> QED
  BY <1>1, InputBufsInvariance, PTL

-----------------------------------------------------------------------------
(* Buffers are kept no longer than needed *)

\* KeptNoLonger, of buffers b
Tight(b) ==
    b.refs > 0 /\ ~b.whole /\ b.minIndex > 0 =>
        \/ b.first = b.minAt
        \/ \E l \in b.locks : l.index < b.minIndex /\ l.at = b.first

Fields == {"refs", "locks", "minIndex", "minAt", "whole", "first", "last"}

\* What IInv says of the places where buffers b may start.
Starts(b) ==
    /\ b \in BufsType
    /\ b.refs > 0 /\ b.minIndex > 0 => b.first <= b.minAt /\ b.minAt <= b.last
    /\ ~b.whole => \A l \in b.locks : Inside(b, l.at)

\* b comes from a release, or none is to come
Freed(b) ==
    \/ \E x : DOMAIN x = Fields /\ b = FreeBufs(x)
    \/ ~(b.refs > 0)
    \/ b.whole

\* c starts where b does, and what b starts at is still there
Like(b, c) ==
    /\ c.first = b.first /\ c.minIndex = b.minIndex /\ c.minAt = b.minAt
    /\ c.whole = b.whole
    /\ c.refs > 0 => b.refs > 0
    /\ \A l \in b.locks : \E m \in c.locks : m.index = l.index /\ m.at = l.at

\* Buffers that were released start at their limit, if that was in the queue.
LEMMA FreedTight ==
    ASSUME NEW b, Starts(b), Freed(b)
    PROVE  Tight(b)
<1>1. SUFFICES ASSUME b.refs > 0, ~b.whole, b.minIndex > 0,
                      b.first # b.minAt
               PROVE  \E l \in b.locks : l.index < b.minIndex /\ l.at = b.first
  BY DEF Tight
<1>2. PICK x : DOMAIN x = Fields /\ b = FreeBufs(x)
  BY <1>1 DEF Freed
<1>3. /\ b.locks = x.locks /\ b.minIndex = x.minIndex /\ b.minAt = x.minAt
      /\ b.whole = x.whole /\ b.last = x.last
  BY <1>2 DEF FreeBufs, FreeUpTo, Fields
<1>4. b = FreeUpTo(x, Limit(x))
  <2>1. x.minIndex # 0
    BY <1>1, <1>3
  <2> QED
    BY <1>1, <1>2, <1>3, <2>1 DEF FreeBufs
<1>5. /\ b.first \in Int /\ b.last \in Int /\ b.minAt \in Int
      /\ b.first <= b.minAt /\ b.minAt <= b.last
      /\ \A l \in b.locks : l.index \in Nat /\ l.at \in Int /\ Inside(b, l.at)
  BY <1>1, InputBufsAssumption DEF Starts, BufsType, LockType, Blocks, Indexes
<1>6. ASSUME NEW at \in Int, Inside(b, at), b = FreeUpTo(x, at)
      PROVE  b.first = at
  <2>1. CASE x.first > x.last
    <3>1. b = x
      BY <1>6, <2>1 DEF FreeUpTo
    <3> QED
      BY <1>5, <1>6, <2>1, <3>1 DEF Inside
  <2>2. CASE ~(x.first > x.last)
    <3>1. b = [x EXCEPT !.first =
                    IF at \in x.first .. x.last THEN at ELSE x.last]
      BY <1>6, <2>2 DEF FreeUpTo
    <3>2. b.first = at \/ b.first = x.last
      BY <1>2, <3>1 DEF Fields
    <3> QED
      BY <1>3, <1>5, <1>6, <3>2 DEF Inside
  <2> QED
    BY <2>1, <2>2
<1>7. CASE x.locks # {} /\ First(x.locks).index < x.minIndex
  <2> DEFINE l == First(x.locks)
  <2>1. l \in b.locks
    BY <1>3, <1>5, <1>7, FirstOfSet
  <2>2. Limit(x) = l.at
    BY <1>7 DEF Limit
  <2>3. b.first = l.at
    BY <1>4, <1>5, <1>6, <2>1, <2>2
  <2> QED
    BY <1>3, <1>7, <2>1, <2>3
<1>8. CASE ~(x.locks # {} /\ First(x.locks).index < x.minIndex)
  <2>1. Limit(x) = b.minAt
    BY <1>3, <1>8 DEF Limit
  <2>2. Inside(b, b.minAt)
    BY <1>5 DEF Inside
  <2> QED
    BY <1>1, <1>4, <1>5, <1>6, <2>1, <2>2
<1> QED
  BY <1>7, <1>8

\* A lock that was added or is held by more requests changes nothing.
LEMMA LikeTight ==
    ASSUME NEW b, NEW c, Tight(b), Like(b, c)
    PROVE  Tight(c)
BY DEF Tight, Like

\* Buffers that one less refers to are released, or all of them are free.
LEMMA UnrefFreed ==
    ASSUME NEW b, DOMAIN b = Fields, NEW n
    PROVE  Freed(Unref(b, n))
<1> DEFINE d == [b EXCEPT !.refs = @ - n]
<1>1. DOMAIN d = Fields
  OBVIOUS
<1>2. CASE d.refs > 0
  <2>1. Unref(b, n) = FreeBufs(d)
    BY <1>2 DEF Unref
  <2> QED
    BY <1>1, <2>1 DEF Freed
<1>3. CASE ~(d.refs > 0)
  <2>1. Unref(b, n) = d \/ Unref(b, n) = [d EXCEPT !.first = d.last + 1]
    BY <1>3 DEF Unref
  <2>2. [d EXCEPT !.first = d.last + 1].refs = d.refs
    BY <1>1 DEF Fields
  <2>3. Unref(b, n).refs = d.refs
    BY <2>1, <2>2
  <2> QED
    BY <1>3, <2>3 DEF Freed
<1> QED
  BY <1>2, <1>3

\* So are those whose first segment moved.
LEMMA FreeInputFreed ==
    ASSUME NEW b, DOMAIN b = Fields, NEW t, NEW S, NEW F
    PROVE  Freed(FreeInputBufs(b, t, S, F))
<1>1. ASSUME NEW i, NEW at PROVE Freed(SetMinUsed(b, i, at))
  <2> DEFINE d == [b EXCEPT !.minIndex = i, !.minAt = at]
  <2>1. DOMAIN d = Fields /\ SetMinUsed(b, i, at) = FreeBufs(d)
    BY DEF SetMinUsed
  <2> QED
    BY <2>1 DEF Freed
<1> QED
  BY <1>1 DEF FreeInputBufs

\* what a step does to buffers b
Moves(b, c) == Like(b, c) \/ Freed(c)

\* Records of buffers have these fields; to change nothing is a move.
LEMMA OfBufs ==
    ASSUME NEW b \in BufsType
    PROVE  DOMAIN b = Fields /\ Moves(b, b)
<1>1. DOMAIN b = Fields
  BY DEF BufsType, Fields
<1>2. Like(b, b)
  BY DEF Like
<1> QED
  BY <1>1, <1>2 DEF Moves

\* Requests that end give up locks, or the last of them releases.
LEMMA UnlockMoves ==
    ASSUME NEW b \in BufsType, NEW R
    PROVE  Moves(b, Unlock(b, R))
<1> DEFINE Held(l) == Cardinality({r \in R : req[r].lock = l.index})
           Gone == {l \in b.locks : l.n = Held(l)}
           h == [l \in b.locks \ Gone |-> [l EXCEPT !.n = @ - Held(l)]]
           d == [b EXCEPT !.locks = {h[l] : l \in b.locks \ Gone}]
<1>1. Unlock(b, R) = IF Gone = {} THEN d ELSE Unref(d, Cardinality(Gone))
  BY DEF Unlock
<1>2. \A l \in b.locks \ Gone : h[l].index = l.index /\ h[l].at = l.at
  BY DEF BufsType, LockType
<1> HIDE DEF h
<1>3. /\ d.first = b.first /\ d.minIndex = b.minIndex /\ d.minAt = b.minAt
      /\ d.whole = b.whole /\ d.refs = b.refs
      /\ d.locks = {h[l] : l \in b.locks \ Gone}
  BY DEF BufsType
<1>4. DOMAIN d = Fields
  BY OfBufs
<1> HIDE DEF d, Gone
<1>5. CASE Gone = {}
  <2>1. \A l \in b.locks : \E m \in d.locks : m.index = l.index /\ m.at = l.at
    BY <1>2, <1>3, <1>5
  <2>2. Like(b, d)
    BY <1>3, <2>1 DEF Like
  <2> QED
    BY <1>1, <1>5, <2>2 DEF Moves
<1>6. CASE Gone # {}
  BY <1>1, <1>4, <1>6, UnrefFreed DEF Moves
<1> QED
  BY <1>5, <1>6

\* A request that begins adds a lock, or is one more to hold it.
LEMMA LockMoves ==
    ASSUME NEW b \in BufsType, b.refs > 0, NEW i, NEW at
    PROVE  Moves(b, Lock(b, i, at))
<1> DEFINE c == Lock(b, i, at)
           h == [l \in b.locks |-> IF l.index = LockOf(b, i)
                                   THEN [l EXCEPT !.n = @ + 1] ELSE l]
<1>1. /\ c.first = b.first /\ c.minIndex = b.minIndex /\ c.minAt = b.minAt
      /\ c.whole = b.whole
  BY DEF Lock, BufsType
<1>2. CASE Found(b, i)
  <2>1. c = [b EXCEPT !.locks = {h[l] : l \in b.locks}]
    BY <1>2 DEF Lock
  <2>2. c.locks = {h[l] : l \in b.locks}
    BY <2>1 DEF BufsType
  <2>3. \A l \in b.locks : h[l].index = l.index /\ h[l].at = l.at
    BY DEF BufsType, LockType
  <2> HIDE DEF h, c
  <2>4. \A l \in b.locks : \E m \in c.locks : m.index = l.index /\ m.at = l.at
    BY <2>2, <2>3
  <2> QED
    BY <1>1, <2>4 DEF Like, Moves, c
<1>3. CASE ~Found(b, i)
  <2>1. c.locks = b.locks \cup {NewLock(i, at)}
    BY <1>3 DEF Lock, BufsType
  <2> HIDE DEF c
  <2> QED
    BY <1>1, <2>1 DEF Like, Moves, c
<1> QED
  BY <1>2, <1>3

\* Buffers that moved move again when one less refers to them.
LEMMA UnrefMoves ==
    ASSUME NEW b, NEW c \in BufsType, NEW n
    PROVE  Moves(b, Unref(c, n))
BY OfBufs, UnrefFreed DEF Moves

\* Segment i goes.
LEMMA FreeByIndexMoves ==
    ASSUME NEW i, NEW b, FreeByIndex(i, b), NEW t \in Tracks,
           b[t] \in BufsType, Moves(bufs[t], b[t])
    PROVE  Moves(bufs[t], bufs'[t])
<1>1. bufs'[t] = b[t] \/ \E S, F : bufs'[t] = FreeInputBufs(b[t], t, S, F)
  BY DEF FreeByIndex
<1>2. DOMAIN b[t] = Fields
  BY OfBufs
<1> QED
  BY <1>1, <1>2, FreeInputFreed DEF Moves

\* Tracks go.
LEMMA DeleteMoves ==
    ASSUME NEW D, NEW b, Delete(D, b), NEW t \in Tracks,
           b[t] \in BufsType, Moves(bufs[t], b[t])
    PROVE  Moves(bufs[t], bufs'[t])
<1>1. bufs'[t] = b[t] \/ bufs'[t] = Unref(b[t], 1)
  BY DEF Delete
<1> QED
  BY <1>1, UnrefMoves

\* The buffers of a track when requests R ended.
LEMMA UnlockedMoves ==
    ASSUME IInv, NEW R \in SUBSET Requests, NEW t \in Tracks
    PROVE  Unlocked(R)[t] \in BufsType /\ Moves(bufs[t], Unlocked(R)[t])
<1>1. Unlocked(R)[t] \in BufsType
  BY UnlockedKeeps DEF Good
<1>2. bufs[t] \in BufsType
  BY OfTrack
<1> QED
  BY <1>1, <1>2, UnlockMoves DEF Unlocked

\* Every step moves the buffers of a track, or leaves them.
LEMMA NextMoves ==
    ASSUME IInv, [Next]_vars, NEW t \in Tracks
    PROVE  Moves(bufs[t], bufs'[t])
<1>1. /\ Shape /\ bufs[t] \in BufsType /\ bufs \in [Tracks -> BufsType]
  BY OfTrack DEF Shape
<1>2. Moves(bufs[t], bufs[t]) /\ DOMAIN bufs[t] = Fields
  BY <1>1, OfBufs
<1>3. ASSUME NEW x \in Tracks,
             \/ NewBuf(x) \/ BeginPacket(x) \/ EndPacket(x)
             \/ Disconnect(x) \/ StartStream(x)
      PROVE  Moves(bufs[t], bufs'[t])
  <2>1. CASE UNCHANGED bufs
    BY <1>2, <2>1
  <2>2. CASE NewBuf(x)
    <3>1. bufs'[t] = bufs[t] \/ bufs'[t] = [bufs[t] EXCEPT !.last = @ + 1]
      BY <1>1, <2>2 DEF NewBuf
    <3>2. Like(bufs[t], [bufs[t] EXCEPT !.last = @ + 1])
      BY <1>1 DEF Like, BufsType
    <3> QED
      BY <1>2, <3>1, <3>2 DEF Moves
  <2> QED
    BY <1>3, <2>1, <2>2 DEF BeginPacket, EndPacket, Disconnect, StartStream
<1>4. ASSUME NEW x \in Tracks, DeleteTrack(x) PROVE Moves(bufs[t], bufs'[t])
  BY <1>1, <1>2, <1>4, DeleteMoves DEF DeleteTrack
<1>5. ASSUME NEW x \in Tracks, NEW k, DisposeFrames(x, k)
      PROVE  Moves(bufs[t], bufs'[t])
  <2>1. \/ bufs'[t] = bufs[t]
        \/ \E S, F : bufs'[t] = FreeInputBufs(bufs[t], t, S, F)
    BY <1>1, <1>5 DEF DisposeFrames
  <2> QED
    BY <1>2, <2>1, FreeInputFreed DEF Moves
<1>6. ASSUME NEW x \in Tracks, NEW i, NEW at,
             bufs' = [bufs EXCEPT ![x] = Lock(@, i, at)], Holders(x) > 0
      PROVE  Moves(bufs[t], bufs'[t])
  <2>1. bufs'[t] = bufs[t] \/ (x = t /\ bufs'[t] = Lock(bufs[t], i, at))
    BY <1>1, <1>6
  <2>2. x = t => bufs[t].refs > 0
    BY <1>6, OfTrack, RefsPositive
  <2> QED
    BY <1>1, <1>2, <2>1, <2>2, LockMoves
<1>7. ASSUME NEW x \in Tracks, NEW r \in Requests, NEW s \in segs[x],
             NEW z \in segs[x], ReadSegments(r, x, s, z)
      PROVE  Moves(bufs[t], bufs'[t])
  <2>1. bufs' = [bufs EXCEPT ![x] = Lock(@, s.index, s.from)]
    BY <1>7 DEF ReadSegments, Begin
  <2>2. x \in live
    BY OfTrack DEF Ordered
  <2> QED
    BY <1>6, <2>1, <2>2, HoldersType
<1>8. ASSUME NEW r \in Requests, NEW f \in Fillers, ReadFiller(r, f)
      PROVE  Moves(bufs[t], bufs'[t])
  <2>1. bufs' = [bufs EXCEPT ![copy[f].on] = Lock(@, 0, 0)]
    BY <1>8 DEF ReadFiller
  <2>2. copy[f].on \in Tracks /\ Holders(copy[f].on) > 0
    BY <1>8, OfCopy DEF ReadFiller
  <2> QED
    BY <1>6, <2>1, <2>2
<1>9. ASSUME NEW x \in Tracks, NEW f \in Fillers, NEW s, NEW z,
             SetFiller(f, x, s, z)
      PROVE  Moves(bufs[t], bufs'[t])
  <2>1. bufs'[t] = bufs[t] \/ bufs'[t] = Link(bufs[t])
    BY <1>1, <1>9 DEF SetFiller
  <2>2. Link(bufs[t]).whole
    BY <1>1 DEF Link, BufsType
  <2> QED
    BY <1>2, <2>1, <2>2 DEF Moves, Freed
<1>10. ASSUME NEW x \in Tracks, NEW f \in Fillers, SetFillerFails(f, x)
       PROVE  Moves(bufs[t], bufs'[t])
  <2>1. bufs'[t] = bufs[t] \/ bufs'[t] = Unref(Link(bufs[t]), 1)
    BY <1>1, <1>10 DEF SetFillerFails
  <2>2. DOMAIN Link(bufs[t]) = Fields
    BY <1>2 DEF Link
  <2> QED
    BY <1>2, <2>1, <2>2, UnrefFreed DEF Moves
<1>11. ASSUME NEW k \in Counts, NEW d \in Counts, NEW exists \in BOOLEAN,
              CreateSegment(k, d, exists)
       PROVE  Moves(bufs[t], bufs'[t])
  <2>1. \/ bufs'[t] = bufs[t]
        \/ \E S, F : bufs'[t] = FreeInputBufs(bufs[t], t, S, F)
    BY <1>11 DEF CreateSegment
  <2> QED
    BY <1>2, <2>1, FreeInputFreed DEF Moves
<1>12. ASSUME NEW i, FreeIndex(i) PROVE Moves(bufs[t], bufs'[t])
  BY <1>1, <1>2, <1>12, FreeByIndexMoves DEF FreeIndex
<1>13. ASSUME NEW i, WatermarkFree(i) PROVE Moves(bufs[t], bufs'[t])
  <2>1. Registered(i) \in SUBSET Requests
    BY DEF Registered
  <2> QED
    BY <1>13, <2>1, UnlockedMoves, FreeByIndexMoves DEF WatermarkFree
<1>14. CASE DeleteChannel
  <2> DEFINE R == UNION {Registered(i) : i \in 0 .. MaxIndex}
  <2>1. R \in SUBSET Requests
    BY DEF Registered
  <2>2. Delete(live, Unlocked(R))
    BY <1>14 DEF DeleteChannel
  <2> HIDE DEF R
  <2> QED
    BY <2>1, <2>2, UnlockedMoves, DeleteMoves
<1>15. ASSUME NEW r \in Requests, Finish(r) PROVE Moves(bufs[t], bufs'[t])
  BY <1>15, UnlockedMoves DEF Finish
<1>16. ASSUME NEW f \in Fillers, FreeFiller(f) PROVE Moves(bufs[t], bufs'[t])
  <2>1. bufs'[t] = bufs[t] \/ bufs'[t] = Unref(bufs[t], 1)
    BY <1>1, <1>16 DEF FreeFiller
  <2> QED
    BY <1>1, <1>2, <2>1, UnrefMoves
<1>17. CASE WatermarkEnd \/ UNCHANGED vars
  BY <1>2, <1>17 DEF WatermarkEnd, vars
<1> QED
  BY <1>3, <1>4, <1>5, <1>7, <1>8, <1>9, <1>10, <1>11, <1>12, <1>13, <1>14,
     <1>15, <1>16, <1>17 DEF Next

\* No buffer is held back longer than the first segment that is needed, or a
\* lock on an earlier one, asks for.
THEOREM InputBufsKeptNoLonger == Spec => []KeptNoLonger
<1> DEFINE Inv == IInv /\ \A t \in Tracks : Tight(bufs[t])
<1>1. Init => Inv
  <2>1. Init => \A t \in Tracks : Tight(bufs[t])
    BY DEF Init, NewBufs, Tight
  <2> QED
    BY <2>1, InitIInv
<1>2. Inv /\ [Next]_vars => Inv'
  <2> SUFFICES ASSUME Inv, [Next]_vars PROVE Inv'
    OBVIOUS
  <2>1. IInv'
    BY NextIInv
  <2>2. ASSUME NEW t \in Tracks PROVE Tight(bufs'[t])
    <3>1. Good(bufs'[t], t, req', Holders(t)', next', segs'[t], Later(t)')
      BY <2>1 DEF IInv, Track
    <3>2. Starts(bufs'[t])
      BY <3>1 DEF Good, MinBelow, LocksOrdered, Starts
    <3>3. Moves(bufs[t], bufs'[t])
      BY NextMoves
    <3> QED
      BY <3>2, <3>3, FreedTight, LikeTight DEF Moves
  <2> QED
    BY <2>1, <2>2
<1>3. Inv => KeptNoLonger
  BY DEF Tight, KeptNoLonger
<1> HIDE DEF Inv
<1> QED
  BY <1>1, <1>2, <1>3, PTL DEF Spec
=============================================================================
