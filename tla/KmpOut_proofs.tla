---------------------------- MODULE KmpOut_proofs ----------------------------
(***************************************************************************)
(* Proofs about the KMP output track.  A handler calls others that may     *)
(* fail, so what is known has to hold of every state that one of them may  *)
(* leave: Sound says what is known of all tracks, Resuming of those whose  *)
(* frames were not acked for want of memory.  A lemma for each operator    *)
(* tells what becomes of them, one for each action that they are kept.     *)
(***************************************************************************)
EXTENDS KmpOut, FiniteSetTheorems, WellFoundedInduction,
        SequenceTheorems, TLAPS

(* The parameters of the definitions below: g is a configuration, t a      *)
(* track, x an upstream, u its id, q the list, s the state of a handler.   *)

PacketType == [type : PacketTypes, end : Nat, frames : Nat]

AlertNames ==
    {"stale read", "skip failed", "past eos", "bad packet", "limit not found",
     "released buffer", "open header sent", "inside packet"}

TrackType ==
    [state : {"wait", "active", "inactive"}, pub : BOOLEAN,
     pkts : Seq(PacketType),
     written : Nat, appended : Nat, lastFrame : Nat, head : Nat, tail : Int,
     nfree : Nat, pending : BOOLEAN, blocked : BOOLEAN, werr : BOOLEAN,
     detached : BOOLEAN, freed : BOOLEAN, flush : BOOLEAN, keep : BOOLEAN,
     oerr : BOOLEAN, cause : {"none", "memory", "optional", "other"},
     forced : BOOLEAN, alerts : SUBSET AlertNames]

UpType ==
    [conn : {"none", "connecting", "up"}, call : BOOLEAN, timer : BOOLEAN,
     wtimer : BOOLEAN, ready : BOOLEAN, broken : BOOLEAN, acked : Nat,
     eos : BOOLEAN, sent : Nat, pre : Nat, skew : Nat, reps : Nat,
     recent : BOOLEAN, noRep : BOOLEAN, sentEnd : BOOLEAN, confirmed : Nat,
     used : BOOLEAN]

StateType ==
    [track : TrackType, up : [Upstreams -> UpType], queue : Seq(Upstreams),
     faults : Nat, rc : {"ok", "error", "declined"}, n : Int]

\* No packet is empty, and each is at most one frame.
LogOK(t) ==
    /\ \A j, k \in 0 .. Len(t.pkts) : j < k =>
            End(t, j) < End(t, k) /\ Frames(t, j) <= Frames(t, k)
    /\ \A k \in 1 .. Len(t.pkts) :
            /\ Frames(t, k) <= Frames(t, k - 1) + 1
            /\ t.pkts[k].type = "open" => Frames(t, k) = Frames(t, k - 1)
    /\ t.appended <= t.written

\* What was written fits in the buffers.
Fits(t) == t.written <= (t.tail + 1) * BufSize

\* An upstream needs buffers, and there are not too many.
MemoryOK(g, t, q) ==
    /\ t.tail = -1 => t.head = 0 /\ q = << >>
    /\ t.tail # -1 => t.head <= t.tail /\ Fits(t)
    /\ t.tail - t.head + 1 + t.nfree <= g.memLimit

\* A header is sent after it is filled in.
HeadersOK(t) ==
    ~t.oerr =>
        /\ "open header sent" \notin t.alerts
        /\ ~t.blocked => \A k \in DOMAIN t.pkts : t.pkts[k].type # "open"

\* The receivers ack ...
LastAcked(g) == \A u \in Upstreams : g.resume[u] = "last_acked"

\* ... or what is acked was sent.
NoneWritten(g) == \A u \in Upstreams : g.resume[u] # "last_written"

\* No packet is acked that a receiver did not ack.
Calm(g) == LastAcked(g) /\ g.highMark = 0

AlertsOK(g, t) ==
    /\ "unchecked" \notin g.writers => "released buffer" \notin t.alerts
    /\ Calm(g) => /\ ~t.forced
                  /\ t.alerts \cap {"stale read", "bad packet",
                                    "limit not found"} = {}

\* An upstream of the list
UpOK(t, x) ==
    /\ x.used /\ x.acked <= Len(t.pkts)
    /\ x.acked > 0 => t.pkts[x.acked].type # "open"
    /\ x.conn = "up" =>
            x.sent <= t.appended /\ End(t, x.acked) <= x.sent + x.skew

\* An upstream that is not in the list
UpGone(x) == x \in {NoUpstream, [NoUpstream EXCEPT !.used = TRUE]}

UpsOK(t, ups, q) ==
    /\ IsInjective(q)
    /\ \A u \in ToSet(q) : UpOK(t, ups[u])
    /\ \A u \in Upstreams \ ToSet(q) : UpGone(ups[u])

Sound(g, s) ==
    /\ g \in Confs
    /\ s \in StateType /\ s.faults <= g.maxFaults
    /\ LogOK(s.track) /\ MemoryOK(g, s.track, s.queue)
    /\ HeadersOK(s.track) /\ AlertsOK(g, s.track)
    /\ UpsOK(s.track, s.up, s.queue)

\* Packet k is the first with as many frames.
FirstOf(t, k) == k > 0 => Frames(t, k - 1) < Frames(t, k)

\* The place from which u resumes
Resumes(g, t, x, u) ==
    ~t.forced =>
        /\ g.resume[u] = "last_acked" => Frames(t, x.acked) <= x.confirmed
        /\ NoneWritten(g) => /\ End(t, x.acked) <= t.appended
                             /\ x.conn = "up" => x.skew = 0
        /\ LastAcked(g) => Readable(t, x) /\ FirstOf(t, x.acked)

Resuming(g, s) ==
    \A u \in ToSet(s.queue) : Resumes(g, s.track, s.up[u], u)

Good(g, s) == Sound(g, s) /\ Resuming(g, s)

\* What is known when no handler runs: publish was called and not answered,
PubOK(t, q) ==
    t.pub => q = << >> /\ t.head = 0 /\ t.tail # -1 /\ ~t.detached
             /\ t.pkts # << >>
\* ... nothing was written,
NoPackets(t, q) == t.pkts = << >> => q = << >> /\ t.head = 0
\* ... all buffers were released,
NoBuffers(t) ==
    t.tail = -1 /\ t.written > 0 /\ ~t.detached =>
        ~t.keep /\ ~t.pub /\ t.state = "inactive"
\* ... the input was closed,
KeepOK(t) == t.detached => ~t.keep
EosOK(t) ==
    \A k \in DOMAIN t.pkts : t.pkts[k].type = "eos" =>
        k = Len(t.pkts) /\ t.detached
\* ... or there was no error.
WholeOK(t) ==
    /\ ~t.oerr => ~t.blocked
    /\ ~t.oerr /\ ~t.detached => End(t, Len(t.pkts)) <= t.written
MostOK(t, q) ==
    PubOK(t, q) /\ NoPackets(t, q) /\ NoBuffers(t) /\ KeepOK(t) /\ EosOK(t)
PhaseOK(t, q) == MostOK(t, q) /\ WholeOK(t)
IInv == Good(conf, Now) /\ PhaseOK(track, queue)

-----------------------------------------------------------------------------
(* Numbers and sets of them *)

\* A set of natural numbers has a least element.
LEMMA LeastOf ==
    ASSUME NEW T, T \subseteq Nat, T # {}
    PROVE  \E x \in T : \A y \in T : x <= y
<1> DEFINE I == {0 .. x : x \in T}
<1>1. I \subseteq FiniteSubsetsOf(Nat)
  <2> SUFFICES ASSUME NEW x \in T PROVE 0 .. x \in FiniteSubsetsOf(Nat)
    OBVIOUS
  <2>1. IsFiniteSet(0 .. x)
    BY FS_Interval
  <2> QED
    BY <2>1 DEF FiniteSubsetsOf
<1>2. PICK s \in I : \A u \in I : <<u, s>> \notin StrictSubsetOrdering(Nat)
  <2>1. I # {}
    OBVIOUS
  <2> QED
    BY <1>1, <2>1, FS_StrictSubsetOrderingWellFounded, WFMin
<1>3. PICK x \in T : s = 0 .. x
  OBVIOUS
<1>4. ASSUME NEW y \in T, y < x PROVE FALSE
  <2>1. 0 .. y \subseteq 0 .. x /\ x \in 0 .. x /\ x \notin 0 .. y
    BY <1>4
  <2>2. <<0 .. y, s>> \in StrictSubsetOrdering(Nat)
    BY <2>1, <1>3 DEF StrictSubsetOrdering
  <2> QED
    BY <1>2, <2>2
<1> QED
  BY <1>4

\* A set that has 0 and, with each number below n, the next has n.
LEMMA UpTo ==
    ASSUME NEW n \in Nat, NEW S, 0 \in S,
           \A m \in 0 .. n - 1 : m \in S => m + 1 \in S
    PROVE  n \in S
<1> SUFFICES ASSUME n \notin S PROVE FALSE
  OBVIOUS
<1> DEFINE T == {m \in 0 .. n : m \notin S}
<1>1. T \subseteq Nat /\ T # {}
  OBVIOUS
<1>2. PICK x \in T : \A y \in T : x <= y
  BY <1>1, LeastOf
<1>3. x # 0 /\ x - 1 \in 0 .. n - 1
  OBVIOUS
<1>4. x - 1 \in S
  BY <1>2, <1>3
<1>5. (x - 1) + 1 \in S
  BY <1>3, <1>4
<1> QED
  BY <1>2, <1>5

\* Min of a set of natural numbers is in it, and least.
LEMMA MinLeast ==
    ASSUME NEW T, T \subseteq Nat, T # {}
    PROVE  Min(T) \in T /\ \A y \in T : Min(T) <= y
BY LeastOf DEF Min

\* Max of a bounded one is in it, and greatest.
LEMMA MaxGreatest ==
    ASSUME NEW n \in Nat, NEW T, T \subseteq 0 .. n, T # {}
    PROVE  Max(T) \in T /\ \A y \in T : y <= Max(T)
<1> DEFINE U == {m \in 0 .. n : n - m \in T}
<1>1. U \subseteq Nat /\ U # {}
  <2>1. PICK x \in T : TRUE
    OBVIOUS
  <2>2. n - x \in 0 .. n /\ n - (n - x) = x
    OBVIOUS
  <2>3. n - x \in U
    BY <2>2
  <2>4. U \subseteq Nat
    OBVIOUS
  <2> HIDE DEF U
  <2> QED
    BY <2>3, <2>4
<1>2. PICK u \in U : \A y \in U : u <= y
  BY <1>1, LeastOf
<1> DEFINE x == n - u
<1>3. x \in T
  OBVIOUS
<1>4. \A y \in T : x >= y
  <2> SUFFICES ASSUME NEW y \in T PROVE x >= y
    OBVIOUS
  <2>1. n - y \in 0 .. n /\ n - (n - y) = y
    OBVIOUS
  <2>2. n - y \in U
    BY <2>1
  <2> QED
    BY <1>2, <2>2
<1> HIDE DEF x
<1>5. Max(T) \in T /\ \A y \in T : Max(T) >= y
  BY <1>3, <1>4 DEF Max
<1> QED
  BY <1>5


\* Division by the size of a buffer keeps the order.
LEMMA NodeOrder ==
    ASSUME NEW a \in Nat, NEW b \in Nat
    PROVE  /\ NodeOf(a) \in Nat /\ NodeOf(0) = 0
           /\ a <= b => NodeOf(a) <= NodeOf(b)
<1> DEFINE p == a \div BufSize
           q == b \div BufSize
           r == a % BufSize
           s == b % BufSize
<1>0. BufSize \in Nat \ {0}
  BY ConfAssumption
<1>1. p \in Nat /\ r \in 0 .. BufSize - 1 /\ a = BufSize * p + r
  BY <1>0
<1>2. q \in Nat /\ s \in 0 .. BufSize - 1 /\ b = BufSize * q + s
  BY <1>0
<1>3. 0 \div BufSize = 0
  BY <1>0
<1>4. ASSUME q < p PROVE b < a
  <2> HIDE DEF p, q, r, s
  <2>1. q + 1 <= p /\ p - (q + 1) \in Nat
    BY <1>1, <1>2, <1>4
  <2> DEFINE d == p - (q + 1)
  <2>2. p = q + 1 + d /\ d \in Nat
    BY <2>1, <1>1, <1>2
  <2> HIDE DEF d
  <2>3. BufSize * d \in Nat /\ BufSize * q \in Nat
    BY <1>0, <1>2, <2>2
  <2>4. BufSize * p = BufSize * q + BufSize + BufSize * d
    BY <1>0, <1>2, <2>2
  <2> DEFINE P == BufSize * p
             Q == BufSize * q
             D == BufSize * d
  <2> HIDE DEF P, Q, D
  <2>5. P = Q + BufSize + D /\ D \in Nat /\ Q \in Nat
    BY <2>3, <2>4 DEF P, Q, D
  <2>6. a = P + r /\ b = Q + s
    BY <1>1, <1>2 DEF P, Q
  <2> QED
    BY <1>0, <1>1, <1>2, <2>5, <2>6
<1> QED
  BY <1>1, <1>2, <1>3, <1>4 DEF NodeOf

\* Step i, g[i], leads from a value in T[i - 1] to one in T[i].
Leads(g, T, n) ==
    \A i \in 1 .. n : \A X \in T[i - 1] : g[i][X] \in T[i]

\* f has the values after each step, from A on.
RunOf(f, g, T, A, n) ==
    /\ f = [i \in 0 .. n |-> f[i]]
    /\ f[0] = A
    /\ \A i \in 1 .. n : f[i - 1] \in T[i - 1] /\ f[i] = g[i][f[i - 1]]

\* There is such a function.
LEMMA RunExists ==
    ASSUME NEW n \in Nat, NEW T, NEW g, NEW A \in T[0], Leads(g, T, n)
    PROVE  \E f : RunOf(f, g, T, A, n)
<1> DEFINE Run(f, m) == /\ f = [i \in 0 .. m |-> f[i]]
                        /\ f[0] = A
                        /\ \A i \in 1 .. m : f[i - 1] \in T[i - 1]
                                             /\ f[i] = g[i][f[i - 1]]
                        /\ f[m] \in T[m]
           S == {m \in 0 .. n : \E f : Run(f, m)}
<1>1. 0 \in S
  <2> DEFINE f == [i \in 0 .. 0 |-> A]
  <2>1. Run(f, 0)
    OBVIOUS
  <2> HIDE DEF f, Run
  <2> QED
    BY <2>1
<1>2. ASSUME NEW m \in 0 .. n - 1, m \in S PROVE m + 1 \in S
  <2>1. PICK f : Run(f, m)
    BY <1>2
  <2> DEFINE e == [i \in 0 .. m + 1 |->
                    IF i = m + 1 THEN g[m + 1][f[m]] ELSE f[i]]
  <2>2. e = [i \in 0 .. m + 1 |-> e[i]]
    OBVIOUS
  <2>3. \A i \in 0 .. m : e[i] = f[i]
    OBVIOUS
  <2>4. e[m + 1] = g[m + 1][f[m]]
    OBVIOUS
  <2> HIDE DEF e
  <2>5. f[0] = A /\ f[m] \in T[m] /\ \A i \in 1 .. m :
            f[i - 1] \in T[i - 1] /\ f[i] = g[i][f[i - 1]]
    BY <2>1
  <2>6. e[0] = A
    BY <2>3, <2>5
  <2>7. \A i \in 1 .. m + 1 : e[i - 1] \in T[i - 1]
                              /\ e[i] = g[i][e[i - 1]]
    <3> SUFFICES ASSUME NEW i \in 1 .. m + 1
                 PROVE  e[i - 1] \in T[i - 1] /\ e[i] = g[i][e[i - 1]]
      OBVIOUS
    <3>1. e[i - 1] = f[i - 1]
      BY <2>3
    <3>2. CASE i = m + 1
      <4>1. i - 1 = m
        BY <3>2
      <4> QED
        BY <2>4, <2>5, <3>1, <3>2, <4>1
    <3>3. CASE i \in 1 .. m
      <4>1. e[i] = f[i]
        BY <2>3, <3>3
      <4> QED
        BY <2>5, <3>1, <3>3, <4>1
    <3> QED
      BY <3>2, <3>3
  <2>8. e[m + 1] \in T[m + 1]
    <3>1. m + 1 \in 1 .. n /\ (m + 1) - 1 = m
      OBVIOUS
    <3> QED
      BY <2>4, <2>5, <3>1 DEF Leads
  <2>9. Run(e, m + 1)
    BY <2>2, <2>6, <2>7, <2>8
  <2> HIDE DEF Run
  <2> QED
    BY <2>9
<1> HIDE DEF Run
<1>3. n \in S
  <2> HIDE DEF S
  <2> QED
    BY <1>1, <1>2, UpTo
<1> QED
  BY <1>3 DEF Run, RunOf

\* All its values are in T.
LEMMA RunStays ==
    ASSUME NEW n \in Nat, NEW T, NEW f, f[0] \in T[0],
           \A i \in 1 .. n : f[i - 1] \in T[i - 1] => f[i] \in T[i]
    PROVE  f[n] \in T[n]
<1> DEFINE S == {m \in 0 .. n : f[m] \in T[m]}
<1>1. 0 \in S
  OBVIOUS
<1>2. ASSUME NEW m \in 0 .. n - 1, m \in S PROVE m + 1 \in S
  <2>1. m + 1 \in 1 .. n /\ (m + 1) - 1 = m
    OBVIOUS
  <2> QED
    BY <1>2, <2>1
<1> HIDE DEF S
<1>3. n \in S
  BY <1>1, <1>2, UpTo
<1> QED
  BY <1>3 DEF S

-----------------------------------------------------------------------------
(* The log, and the list of upstreams *)

\* The parts of a state
LEMMA StateParts ==
    ASSUME NEW s \in StateType
    PROVE  /\ s.track \in TrackType /\ s.up \in [Upstreams -> UpType]
           /\ s.queue \in Seq(Upstreams) /\ s.faults \in Nat
           /\ ToSet(s.queue) \subseteq Upstreams
           /\ \A u \in ToSet(s.queue) : u \in Upstreams /\ s.up[u] \in UpType
<1>1. /\ s.track \in TrackType /\ s.up \in [Upstreams -> UpType]
      /\ s.queue \in Seq(Upstreams) /\ s.faults \in Nat
  BY DEF StateType
<1>2. ToSet(s.queue) \subseteq Upstreams
  BY <1>1 DEF ToSet
<1> QED
  BY <1>1, <1>2

\* The ends of the packets and the frames are numbers.
LEMMA LogNumbers ==
    ASSUME NEW t \in TrackType
    PROVE  /\ Len(t.pkts) \in Nat /\ t.pkts \in Seq(PacketType)
           /\ DOMAIN t.pkts = 1 .. Len(t.pkts)
           /\ \A k \in 0 .. Len(t.pkts) :
                End(t, k) \in Nat /\ Frames(t, k) \in Nat
           /\ \A k \in 1 .. Len(t.pkts) : t.pkts[k] \in PacketType
<1>1. t.pkts \in Seq(PacketType)
  BY DEF TrackType
<1>2. \A k \in 1 .. Len(t.pkts) : t.pkts[k] \in PacketType
  BY <1>1
<1>3. ASSUME NEW k \in 0 .. Len(t.pkts)
      PROVE  End(t, k) \in Nat /\ Frames(t, k) \in Nat
  <2>1. CASE k = 0
    BY <2>1 DEF End, Frames
  <2>2. CASE k # 0
    <3>1. t.pkts[k] \in PacketType
      BY <1>1, <2>2
    <3> QED
      BY <2>2, <3>1 DEF End, Frames, PacketType
  <2> QED
    BY <2>1, <2>2
<1> QED
  BY <1>1, <1>2, <1>3

\* ... that do not decrease.
LEMMA LogOrder ==
    ASSUME NEW t \in TrackType, LogOK(t), NEW j \in 0 .. Len(t.pkts),
           NEW k \in 0 .. Len(t.pkts)
    PROVE  /\ j <= k <=> End(t, j) <= End(t, k)
           /\ j <= k => Frames(t, j) <= Frames(t, k)
<1>0. Len(t.pkts) \in Nat
  BY LogNumbers
<1>1. /\ End(t, j) \in Nat /\ Frames(t, j) \in Nat
      /\ End(t, k) \in Nat /\ Frames(t, k) \in Nat
  BY LogNumbers
<1>2. j < k => End(t, j) < End(t, k) /\ Frames(t, j) <= Frames(t, k)
  BY DEF LogOK
<1>3. k < j => End(t, k) < End(t, j) /\ Frames(t, k) <= Frames(t, j)
  BY DEF LogOK
<1>4. j = k => End(t, j) = End(t, k) /\ Frames(t, j) = Frames(t, k)
  OBVIOUS
<1>5. j \in Int /\ k \in Int
  OBVIOUS
<1> QED
  BY ONLY <1>1, <1>2, <1>3, <1>4, <1>5

\* A list of upstreams without one of them
LEMMA RemoveOne ==
    ASSUME NEW q \in Seq(Upstreams), IsInjective(q), NEW u \in ToSet(q)
    PROVE  LET r == RemoveAt(q, CHOOSE i \in DOMAIN q : q[i] = u)
           IN  /\ r \in Seq(Upstreams) /\ IsInjective(r)
               /\ ToSet(r) = ToSet(q) \ {u}
               /\ Len(q) = 1 => r = << >>
<1> DEFINE i == CHOOSE i \in DOMAIN q : q[i] = u
           n == Len(q)
           r == SubSeq(q, 1, i - 1) \o SubSeq(q, i + 1, Len(q))
<1>1. i \in 1 .. n /\ q[i] = u /\ DOMAIN q = 1 .. n /\ n \in Nat
  BY DEF ToSet
<1> HIDE DEF i
<1>2. \A j \in 1 .. n : q[j] \in Upstreams
  BY <1>1
<1> DEFINE a == SubSeq(q, 1, i - 1)
           b == SubSeq(q, i + 1, n)
<1>3. /\ a \in Seq(Upstreams) /\ Len(a) = i - 1
      /\ \A j \in 1 .. i - 1 : a[j] = q[j]
  <2>1. \A j \in 1 .. i - 1 : q[j] \in Upstreams
    BY <1>1, <1>2
  <2>2. /\ a \in Seq(Upstreams)
        /\ Len(a) = IF 1 <= i - 1 THEN (i - 1) - 1 + 1 ELSE 0
        /\ \A j \in 1 .. (i - 1) - 1 + 1 : a[j] = q[1 + j - 1]
    BY <1>1, <2>1, SubSeqProperties, i - 1 \in Int
  <2> HIDE DEF a
  <2>3. Len(a) = i - 1 /\ (i - 1) - 1 + 1 = i - 1
        /\ \A j \in 1 .. i - 1 : 1 + j - 1 = j
    BY <1>1, <2>2
  <2> QED
    BY <2>2, <2>3
<1>10. /\ b \in Seq(Upstreams) /\ Len(b) = n - i
       /\ \A j \in 1 .. n - i : b[j] = q[i + j]
  <2>1. \A j \in i + 1 .. n : q[j] \in Upstreams
    BY <1>1, <1>2
  <2>2. /\ b \in Seq(Upstreams)
        /\ Len(b) = IF i + 1 <= n THEN n - (i + 1) + 1 ELSE 0
        /\ \A j \in 1 .. n - (i + 1) + 1 : b[j] = q[(i + 1) + j - 1]
    BY <1>1, <2>1, SubSeqProperties, i + 1 \in Int
  <2> HIDE DEF b
  <2>3. n - (i + 1) + 1 = n - i
        /\ \A j \in 1 .. n - i : (i + 1) + j - 1 = i + j
    BY <1>1
  <2>4. Len(b) = n - i
    <3>1. Len(b) = IF i + 1 <= n THEN n - (i + 1) + 1 ELSE 0
      BY <2>2
    <3>2. i \in 1 .. n /\ n \in Nat
      BY <1>1
    <3> HIDE DEF n
    <3> QED
      BY ONLY <3>1, <3>2
  <2> QED
    BY <2>2, <2>3, <2>4
<1>11. r = a \o b
  OBVIOUS
<1> HIDE DEF a, b, r
<1>12. /\ r \in Seq(Upstreams) /\ Len(r) = Len(a) + Len(b)
       /\ \A j \in 1 .. Len(a) + Len(b) : r[j] =
            IF j <= Len(a) THEN a[j] ELSE b[j - Len(a)]
  BY <1>3, <1>10, <1>11, ConcatProperties
<1>4. /\ r \in Seq(Upstreams) /\ Len(r) = n - 1
      /\ \A j \in 1 .. n - 1 : r[j] = IF j < i THEN q[j] ELSE q[j + 1]
  <2>2. Len(r) = n - 1 /\ Len(a) + Len(b) = n - 1
    BY <1>1, <1>3, <1>10, <1>12
  <2>3. ASSUME NEW j \in 1 .. n - 1
        PROVE  r[j] = IF j < i THEN q[j] ELSE q[j + 1]
    <3>0. r[j] = IF j <= Len(a) THEN a[j] ELSE b[j - Len(a)]
      BY <1>12, <2>2
    <3>1. CASE j < i
      <4>1. j \in 1 .. i - 1 /\ j <= i - 1
        BY <1>1, <3>1
      <4> QED
        BY <1>3, <3>0, <3>1, <4>1
    <3>2. CASE j >= i
      <4>1. /\ j - (i - 1) \in 1 .. n - i /\ i + (j - (i - 1)) = j + 1
            /\ ~(j <= i - 1) /\ ~(j < i)
        BY <1>1, <3>2
      <4> QED
        BY <1>3, <1>10, <3>0, <4>1
    <3> QED
      BY <1>1, <3>1, <3>2
  <2> QED
    BY <1>12, <2>2, <2>3
<1>5. DOMAIN r = 1 .. n - 1
  BY <1>1, <1>4
<1>6. \A j \in 1 .. n - 1 :
        \E k \in 1 .. n : k # i /\ r[j] = q[k] /\ (k = j \/ k = j + 1)
                          /\ (k = j <=> j < i)
  <2> SUFFICES ASSUME NEW j \in 1 .. n - 1
               PROVE  \E k \in 1 .. n : k # i /\ r[j] = q[k]
                            /\ (k = j \/ k = j + 1) /\ (k = j <=> j < i)
    OBVIOUS
  <2>1. CASE j < i
    <3>1. j \in 1 .. n /\ j # i /\ r[j] = q[j]
      BY <1>1, <1>4, <2>1
    <3> QED
      BY <2>1, <3>1
  <2>2. CASE ~(j < i)
    <3>1. j + 1 \in 1 .. n /\ j + 1 # i /\ r[j] = q[j + 1] /\ j + 1 # j
      BY <1>1, <1>4, <2>2
    <3> QED
      BY <2>2, <3>1
  <2> QED
    BY <2>1, <2>2
<1>7. IsInjective(r)
  <2> SUFFICES ASSUME NEW c \in 1 .. n - 1, NEW d \in 1 .. n - 1,
                      r[c] = r[d]
               PROVE  c = d
    BY <1>5 DEF IsInjective
  <2>1. PICK k \in 1 .. n : k # i /\ r[c] = q[k] /\ (k = c \/ k = c + 1)
                            /\ (k = c <=> c < i)
    BY <1>6
  <2>2. PICK l \in 1 .. n : l # i /\ r[d] = q[l] /\ (l = d \/ l = d + 1)
                            /\ (l = d <=> d < i)
    BY <1>6
  <2>3. k = l
    BY <1>1, <2>1, <2>2 DEF IsInjective
  <2> QED
    BY <1>1, <2>1, <2>2, <2>3
<1>8. ToSet(r) = ToSet(q) \ {u}
  <2>1. ASSUME NEW v \in ToSet(r) PROVE v \in ToSet(q) \ {u}
    <3>1. PICK j \in 1 .. n - 1 : v = r[j]
      BY <1>5 DEF ToSet
    <3>2. PICK k \in 1 .. n : k # i /\ r[j] = q[k]
      BY <1>6
    <3> QED
      BY <1>1, <3>1, <3>2 DEF ToSet, IsInjective
  <2>2. ASSUME NEW v \in ToSet(q), v # u PROVE v \in ToSet(r)
    <3>1. PICK k \in 1 .. n : v = q[k]
      BY <1>1 DEF ToSet
    <3>2. k # i
      BY <1>1, <2>2, <3>1
    <3>3. \E j \in 1 .. n - 1 : r[j] = v
      <4>1. CASE k < i
        <5>1. k \in 1 .. n - 1
          BY <1>1, <4>1
        <5> QED
          BY <1>4, <3>1, <4>1, <5>1
      <4>2. CASE i < k
        <5>1. k - 1 \in 1 .. n - 1 /\ ~(k - 1 < i) /\ (k - 1) + 1 = k
          BY <1>1, <4>2
        <5>2. r[k - 1] = q[(k - 1) + 1]
          BY <1>4, <5>1
        <5> QED
          BY <3>1, <5>1, <5>2
      <4> QED
        BY <1>1, <3>2, <4>1, <4>2
    <3> QED
      BY <1>5, <3>3 DEF ToSet
  <2> QED
    BY <2>1, <2>2
<1>9. Len(q) = 1 => r = << >>
  BY <1>4
<1> QED
  BY <1>4, <1>7, <1>8, <1>9 DEF RemoveAt, r, i

\* Of the upstreams of the list, the one of MinAcked acked the fewest frames.
LEMMA MinAckedLeast ==
    ASSUME NEW s \in StateType, s.queue # << >>,
           \A u \in ToSet(s.queue) : s.up[u].acked <= Len(s.track.pkts)
    PROVE  /\ MinAcked(s) \in ToSet(s.queue)
           /\ \A u \in ToSet(s.queue) :
                FrameId(s, MinAcked(s)) <= FrameId(s, u)
<1> DEFINE q == s.queue
           Id(i) == FrameId(s, q[i])
           D == DOMAIN q
           Least(i) == \A j \in D :
                         \/ Id(i) < Id(j)
                         \/ Id(i) = Id(j) /\ i <= j
<1>1. D \subseteq Nat /\ D # {} /\ q \in Seq(Upstreams)
  <2>1. q \in Seq(Upstreams) /\ D = 1 .. Len(q) /\ Len(q) \in Nat
    BY StateParts
  <2> QED
    BY <2>1
<1>2. \A i \in D : Id(i) \in Nat
  <2> SUFFICES ASSUME NEW i \in D PROVE Id(i) \in Nat
    OBVIOUS
  <2>1. q[i] \in ToSet(q)
    BY DEF ToSet
  <2>2. s.up[q[i]].acked \in 0 .. Len(s.track.pkts)
    BY <2>1, StateParts, LogNumbers DEF UpType
  <2> QED
    BY <2>2, StateParts, LogNumbers DEF FrameId
<1> DEFINE V == {Id(i) : i \in D}
<1> HIDE DEF Id
<1>3. V \subseteq Nat /\ V # {}
  BY <1>1, <1>2
<1>4. PICK v \in V : \A w \in V : v <= w
  BY <1>3, LeastOf
<1> DEFINE W == {i \in D : Id(i) = v}
<1>5. W \subseteq Nat /\ W # {}
  BY <1>1, <1>4
<1>6. PICK i \in W : \A j \in W : i <= j
  BY <1>5, LeastOf
<1>7. Least(i)
  <2> SUFFICES ASSUME NEW j \in D
               PROVE  \/ Id(i) < Id(j)
                      \/ Id(i) = Id(j) /\ i <= j
    OBVIOUS
  <2>1. Id(i) = v /\ Id(i) \in Nat /\ Id(j) \in Nat /\ v <= Id(j)
    BY <1>2, <1>4, <1>6
  <2>2. Id(j) = v => i <= j
    BY <1>6
  <2> QED
    BY <2>1, <2>2
<1> DEFINE m == CHOOSE k \in D : Least(k)
<1>8. m \in D /\ Least(m)
  BY <1>6, <1>7
<1>9. MinAcked(s) = q[m]
  BY DEF MinAcked, Id
<1> HIDE DEF m
<1>10. ASSUME NEW u \in ToSet(s.queue)
       PROVE  FrameId(s, MinAcked(s)) <= FrameId(s, u)
  <2>1. PICK j \in D : u = q[j]
    BY DEF ToSet
  <2>2. Id(m) <= Id(j)
    BY <1>2, <1>8
  <2> QED
    BY <1>9, <2>1, <2>2 DEF Id
<1> QED
  BY <1>8, <1>9, <1>10 DEF ToSet

-----------------------------------------------------------------------------
(* What a call may change *)

\* The same bytes in the same buffers, for the same owner
SameLog(t, t2) ==
    /\ t2.pkts = t.pkts /\ t2.written = t.written /\ t2.appended = t.appended
    /\ t2.head = t.head /\ t2.tail = t.tail /\ t2.nfree = t.nfree
    /\ t2.state = t.state /\ t2.pub = t.pub /\ t2.detached = t.detached
    /\ t2.keep = t.keep /\ t2.oerr = t.oerr /\ t2.blocked = t.blocked
    /\ t2.forced = t.forced

\* A call that concerns u leaves x: it may ack, send and disconnect.
Touches(s, x, u) ==
    /\ x \in StateType /\ SameLog(s.track, x.track) /\ x.queue = s.queue
    /\ \A v \in Upstreams \ {u} : x.up[v] = s.up[v]
    /\ s.up[u].acked <= x.up[u].acked
    /\ x.up[u].confirmed = s.up[u].confirmed
    /\ x.up[u].conn = "up" => /\ s.up[u].conn = "up"
                              /\ x.up[u].skew = s.up[u].skew

\* A call that writes at most n units leaves x.
Later(t, t2, n) ==
    /\ t2.pkts = t.pkts /\ t2.state = t.state /\ t2.pub = t.pub
    /\ t2.detached = t.detached /\ t2.keep = t.keep /\ t2.oerr = t.oerr
    /\ t2.blocked = t.blocked
    /\ t.written <= t2.written /\ t2.written <= t.written + n
    /\ t.appended <= t2.appended
    /\ t.forced => t2.forced
    /\ t.tail <= t2.tail /\ (n = 0 => t2.tail = t.tail)

Steps(s, x, n) ==
    /\ Later(s.track, x.track, n) /\ x.queue = s.queue
    /\ \A u \in Upstreams : s.up[u].acked <= x.up[u].acked
    /\ s.queue = << >> => x.track.head = s.track.head

\* The packets are the same.
LEMMA SamePackets ==
    ASSUME NEW t, NEW t2, t2.pkts = t.pkts
    PROVE  /\ \A k : End(t2, k) = End(t, k) /\ Frames(t2, k) = Frames(t, k)
           /\ \A x : t2.head = t.head /\ t2.tail = t.tail =>
                (Readable(t2, x) <=> Readable(t, x))
           /\ \A k : FirstOf(t2, k) <=> FirstOf(t, k)
BY DEF End, Frames, Readable, FirstOf

\* The order of the packets is a matter of the packets.
LEMMA LogOf ==
    ASSUME NEW t, LogOK(t), NEW t2, t2.pkts = t.pkts,
           t2.appended <= t2.written
    PROVE  LogOK(t2)
<1>1. \A k : End(t2, k) = End(t, k) /\ Frames(t2, k) = Frames(t, k)
  BY SamePackets
<1> QED
  BY <1>1 DEF LogOK

\* An upstream keeps to the packets, and to what is appended.
LEMMA UpOf ==
    ASSUME NEW t, NEW x, UpOK(t, x), NEW t2, t2.pkts = t.pkts,
           t2.appended = t.appended
    PROVE  UpOK(t2, x)
<1>1. \A k : End(t2, k) = End(t, k)
  BY SamePackets
<1> QED
  BY <1>1 DEF UpOK

\* Nothing is touched by doing nothing,
LEMMA TouchNothing ==
    ASSUME NEW s \in StateType, NEW u \in Upstreams
    PROVE  Touches(s, s, u)
<1>1. s.up[u] \in UpType
  BY StateParts
<1> QED
  BY <1>1 DEF Touches, SameLog, UpType

\* ... and of two calls each touches what both do.
LEMMA TouchTwice ==
    ASSUME NEW s \in StateType, NEW x, NEW y, NEW u \in Upstreams,
           Touches(s, x, u), Touches(x, y, u)
    PROVE  Touches(s, y, u)
<1>1. y \in StateType /\ SameLog(s.track, y.track) /\ y.queue = s.queue
  BY DEF Touches, SameLog
<1>2. \A v \in Upstreams \ {u} : y.up[v] = s.up[v]
  BY DEF Touches
<1>3. s.up[u] \in UpType /\ x.up[u] \in UpType /\ y.up[u] \in UpType
  BY StateParts DEF Touches
<1>4. s.up[u].acked <= y.up[u].acked
  BY <1>3 DEF Touches, UpType
<1>5. y.up[u].confirmed = s.up[u].confirmed
  BY DEF Touches
<1>6. y.up[u].conn = "up" => /\ s.up[u].conn = "up"
                             /\ y.up[u].skew = s.up[u].skew
  BY DEF Touches
<1> QED
  BY <1>1, <1>2, <1>4, <1>5, <1>6 DEF Touches

\* What is touched is a step.
LEMMA TouchSteps ==
    ASSUME NEW s \in StateType, NEW x, NEW u \in Upstreams, Touches(s, x, u)
    PROVE  Steps(s, x, 0)
<1>1. s.track \in TrackType
  BY StateParts
<1>2. Later(s.track, x.track, 0)
  BY <1>1 DEF Touches, SameLog, Later, TrackType
<1>3. \A v \in Upstreams : s.up[v].acked <= x.up[v].acked
  <2> SUFFICES ASSUME NEW v \in Upstreams
               PROVE  s.up[v].acked <= x.up[v].acked
    OBVIOUS
  <2>1. s.up[v] \in UpType
    BY StateParts
  <2>2. v = u \/ x.up[v] = s.up[v]
    BY DEF Touches
  <2> QED
    BY <2>1, <2>2 DEF Touches, UpType
<1> QED
  BY <1>2, <1>3 DEF Steps, Touches, SameLog

\* Nothing is a step.
LEMMA StepsNothing ==
    ASSUME NEW s \in StateType
    PROVE  Steps(s, s, 0)
<1>1. s.track \in TrackType
  BY StateParts
<1>2. Later(s.track, s.track, 0)
  BY <1>1 DEF Later, TrackType
<1>3. \A u \in Upstreams : s.up[u].acked <= s.up[u].acked
  <2> SUFFICES ASSUME NEW u \in Upstreams
               PROVE  s.up[u].acked <= s.up[u].acked
    OBVIOUS
  <2>1. s.up[u] \in UpType
    BY StateParts
  <2> QED
    BY <2>1 DEF UpType
<1> QED
  BY <1>2, <1>3 DEF Steps

\* Steps follow each other.
LEMMA StepsTwice ==
    ASSUME NEW s \in StateType, NEW x \in StateType, NEW y \in StateType,
           NEW m \in Nat, NEW n \in Nat, Steps(s, x, m), Steps(x, y, n)
    PROVE  Steps(s, y, m + n)
<1>1. /\ s.track \in TrackType /\ x.track \in TrackType
      /\ y.track \in TrackType
  BY StateParts
<1> DEFINE a == s.track
           b == x.track
           c == y.track
<1>2. Later(a, b, m) /\ Later(b, c, n)
  BY DEF Steps
<1> HIDE DEF a, b, c
<1>3. /\ a.written \in Nat /\ b.written \in Nat /\ c.written \in Nat
      /\ a.appended \in Nat /\ b.appended \in Nat /\ c.appended \in Nat
      /\ a.tail \in Int /\ b.tail \in Int /\ c.tail \in Int
  BY <1>1 DEF a, b, c, TrackType
<1>4. Later(a, c, m + n)
  <2>1. /\ a.written <= c.written /\ c.written <= a.written + (m + n)
        /\ a.appended <= c.appended
        /\ a.tail <= c.tail /\ (m + n = 0 => c.tail = a.tail)
    <3>1. /\ a.written <= b.written /\ b.written <= a.written + m
          /\ b.written <= c.written /\ c.written <= b.written + n
          /\ a.appended <= b.appended /\ b.appended <= c.appended
          /\ a.tail <= b.tail /\ b.tail <= c.tail
          /\ (m = 0 => b.tail = a.tail) /\ (n = 0 => c.tail = b.tail)
      BY <1>2 DEF Later
    <3> QED
      BY <1>3, <3>1
  <2> QED
    BY <1>2, <2>1 DEF Later
<1>5. \A u \in Upstreams : s.up[u].acked <= y.up[u].acked
  <2> SUFFICES ASSUME NEW u \in Upstreams
               PROVE  s.up[u].acked <= y.up[u].acked
    OBVIOUS
  <2>1. s.up[u] \in UpType /\ x.up[u] \in UpType /\ y.up[u] \in UpType
    BY StateParts
  <2>2. s.up[u].acked <= x.up[u].acked /\ x.up[u].acked <= y.up[u].acked
    BY DEF Steps
  <2> QED
    BY <2>1, <2>2 DEF UpType
<1> QED
  BY <1>4, <1>5 DEF Steps, a, c

\* A call that concerns u is sound if it is for u and raises no alert that it
\* must not.
LEMMA TouchSound ==
    ASSUME NEW g, NEW s, NEW u \in ToSet(s.queue), NEW x,
           Sound(g, s), Touches(s, x, u), x.faults <= g.maxFaults,
           HeadersOK(x.track), AlertsOK(g, x.track), UpOK(x.track, x.up[u])
    PROVE  Sound(g, x)
<1>1. s \in StateType /\ x \in StateType /\ g \in Confs
  BY DEF Sound, Touches
<1> DEFINE t == s.track
           t2 == x.track
<1>2. /\ t2.pkts = t.pkts /\ t2.written = t.written
      /\ t2.appended = t.appended /\ t2.head = t.head /\ t2.tail = t.tail
      /\ t2.nfree = t.nfree
  BY DEF Touches, SameLog
<1> HIDE DEF t, t2
<1>3. LogOK(t2)
  <2>1. LogOK(t)
    BY DEF Sound, t
  <2> QED
    BY <1>2, <2>1 DEF LogOK, End, Frames
<1>4. MemoryOK(g, t2, s.queue)
  <2>1. MemoryOK(g, t, s.queue)
    BY DEF Sound, t
  <2> QED
    BY <1>2, <2>1 DEF MemoryOK, Fits
<1>5. UpsOK(t2, x.up, s.queue)
  <2>1. UpsOK(t, s.up, s.queue)
    BY DEF Sound, t
  <2>2. IsInjective(s.queue)
    BY <2>1 DEF UpsOK
  <2>3. \A v \in Upstreams \ {u} : x.up[v] = s.up[v]
    BY DEF Touches
  <2>4. ASSUME NEW v \in ToSet(s.queue) PROVE UpOK(t2, x.up[v])
    <3>1. CASE v = u
      BY <3>1 DEF t2
    <3>2. CASE v # u
      <4>1. x.up[v] = s.up[v] /\ UpOK(t, s.up[v])
        BY <1>1, <2>1, <2>3, <3>2, StateParts DEF UpsOK
      <4> QED
        BY <1>2, <4>1 DEF UpOK, End
    <3> QED
      BY <3>1, <3>2
  <2>5. ASSUME NEW v \in Upstreams \ ToSet(s.queue) PROVE UpGone(x.up[v])
    BY <2>1, <2>3 DEF UpsOK
  <2> QED
    BY <2>2, <2>4, <2>5 DEF UpsOK
<1>6. x.queue = s.queue
  BY DEF Touches
<1> QED
  BY <1>1, <1>3, <1>4, <1>5, <1>6 DEF Sound, t2

\* The place from which u resumes is as good as it was, if it is the same.
LEMMA ResumesSame ==
    ASSUME NEW g, NEW t, NEW t2, NEW x, NEW y, NEW u, Resumes(g, t, x, u),
           t2.pkts = t.pkts, t2.head = t.head, t2.tail = t.tail,
           t2.appended = t.appended, t2.forced = t.forced,
           y.acked = x.acked, y.confirmed = x.confirmed,
           y.conn = "up" => x.conn = "up" /\ y.skew = x.skew
    PROVE  Resumes(g, t2, y, u)
BY DEF Resumes, End, Frames, Readable, FirstOf

\* Only the place from which u resumes is at stake.
LEMMA TouchResumes ==
    ASSUME NEW g, NEW s \in StateType, NEW u \in ToSet(s.queue), NEW x,
           Resuming(g, s), Touches(s, x, u),
           x.up[u].acked = s.up[u].acked \/ Resumes(g, x.track, x.up[u], u)
    PROVE  Resuming(g, x)
<1> SUFFICES ASSUME NEW v \in ToSet(s.queue)
             PROVE  Resumes(g, x.track, x.up[v], v)
  BY DEF Resuming, Touches
<1>1. Resumes(g, s.track, s.up[v], v) /\ v \in Upstreams
  BY StateParts DEF Resuming
<1>2. CASE v # u
  <2>1. x.up[v] = s.up[v]
    BY <1>1, <1>2 DEF Touches
  <2> QED
    BY <1>1, <2>1, ResumesSame DEF Touches, SameLog
<1>3. CASE v = u /\ x.up[u].acked = s.up[u].acked
  BY <1>1, <1>3, ResumesSame DEF Touches, SameLog
<1> QED
  BY <1>2, <1>3

-----------------------------------------------------------------------------
(* Packets are acked *)

\* An alert changes nothing else,
LEMMA AlertFields ==
    ASSUME NEW s \in StateType, NEW a \in AlertNames
    PROVE  LET x == Alert(s, a)
           IN  /\ x \in StateType /\ SameLog(s.track, x.track)
               /\ x.up = s.up /\ x.queue = s.queue /\ x.faults = s.faults
               /\ x.rc = s.rc /\ x.n = s.n
               /\ x.track.alerts = s.track.alerts \cup {a}
<1> DEFINE x == Alert(s, a)
           t == [s.track EXCEPT !.alerts = @ \cup {a}]
<1>1. x = [s EXCEPT !.track = t]
  BY DEF Alert
<1>2. s.track \in TrackType
  BY StateParts
<1>3. t \in TrackType /\ t.alerts = s.track.alerts \cup {a}
  BY <1>2 DEF TrackType
<1>4. SameLog(s.track, t)
  BY <1>2 DEF SameLog, TrackType
<1> HIDE DEF t
<1>5. x \in StateType
  BY <1>1, <1>3 DEF StateType
<1>6. /\ x.track = t /\ x.up = s.up /\ x.queue = s.queue
      /\ x.faults = s.faults /\ x.rc = s.rc /\ x.n = s.n
  BY <1>1 DEF StateType
<1> QED
  BY <1>3, <1>4, <1>5, <1>6

\* nor does a return code,
LEMMA RcFields ==
    ASSUME NEW s \in StateType, NEW r \in {"ok", "error", "declined"}
    PROVE  LET x == Rc(s, r)
           IN  /\ x \in StateType /\ x.track = s.track /\ x.up = s.up
               /\ x.queue = s.queue /\ x.faults = s.faults
               /\ x.rc = r /\ x.n = s.n
BY DEF Rc, StateType

\* u is set to y.
SetUp(s, u, y) == [s EXCEPT !.up[u] = y]

\* ... or what one upstream is set to.
LEMMA UpFields ==
    ASSUME NEW s \in StateType, NEW u \in Upstreams, NEW y \in UpType,
           NEW x, x = SetUp(s, u, y)
    PROVE  /\ x \in StateType /\ x.track = s.track
           /\ x.queue = s.queue /\ x.faults = s.faults
           /\ x.rc = s.rc /\ x.n = s.n
           /\ x.up[u] = y /\ \A v \in Upstreams \ {u} : x.up[v] = s.up[v]
<1>1. s.up \in [Upstreams -> UpType]
  BY StateParts
<1> DEFINE f == [s.up EXCEPT ![u] = y]
<1>2. x = [s EXCEPT !.up = f]
  BY DEF SetUp
<1>3. f \in [Upstreams -> UpType]
  BY <1>1
<1>4. f[u] = y /\ \A v \in Upstreams \ {u} : f[v] = s.up[v]
  BY <1>1
<1> HIDE DEF f
<1>5. x \in StateType
  BY <1>2, <1>3 DEF StateType
<1>6. /\ x.track = s.track /\ x.up = f /\ x.queue = s.queue
      /\ x.faults = s.faults /\ x.rc = s.rc /\ x.n = s.n
  BY <1>2 DEF StateType
<1> QED
  BY <1>4, <1>5, <1>6

\* The last packet acked is one that was filled in, below the limit.
LEMMA AckedToLast ==
    ASSUME NEW t \in TrackType, NEW x \in UpType, x.acked <= Len(t.pkts),
           NEW left, NEW to, to = AckedTo(t, x, left)
    PROVE  /\ to \in x.acked .. Len(t.pkts)
           /\ to > x.acked => /\ t.pkts[to].type # "open"
                              /\ End(t, to) <= AckLimit(t, x)
<1> DEFINE P(k) == \A i \in x.acked + 1 .. k :
                        /\ t.pkts[i].type \notin {"eos", "open"}
                        /\ End(t, i) <= AckLimit(t, x)
                        /\ End(t, i - 1) - End(t, x.acked) < left
           T == {k \in x.acked .. Len(t.pkts) : P(k)}
<1>1. x.acked \in Nat /\ Len(t.pkts) \in Nat
  BY LogNumbers DEF UpType
<1>2. T \subseteq 0 .. Len(t.pkts)
  BY <1>1
<1>3. x.acked \in T
  BY <1>1
<1>4. to = Max(T)
  BY DEF AckedTo
<1>5. to \in T
  <2> HIDE DEF T
  <2> QED
    BY <1>1, <1>2, <1>3, <1>4, MaxGreatest
<1>6. to \in x.acked .. Len(t.pkts) /\ P(to)
  BY <1>5
<1>7. ASSUME to > x.acked PROVE to \in x.acked + 1 .. to
  BY <1>1, <1>6, <1>7
<1> QED
  BY <1>6, <1>7

AckAlerts == {"stale read", "skip failed", "past eos", "bad packet"}

\* x is s after u's reader was moved to `to`, or stayed.
Acks(s, x, u, to) ==
    /\ x \in StateType /\ SameLog(s.track, x.track) /\ x.queue = s.queue
    /\ x.faults = s.faults
    /\ x.track.alerts \subseteq s.track.alerts \cup AckAlerts
    /\ \A v \in Upstreams \ {u} : x.up[v] = s.up[v]
    /\ x.up[u].acked \in {s.up[u].acked, to}
    /\ x.up[u].conn = s.up[u].conn /\ x.up[u].sent = s.up[u].sent
    /\ x.up[u].skew = s.up[u].skew /\ x.up[u].pre = s.up[u].pre
    /\ x.up[u].confirmed = s.up[u].confirmed
    /\ x.up[u].used = s.up[u].used

\* What is done after the reader moved does not move it.
LEMMA AcksThen ==
    ASSUME NEW s \in StateType, NEW u \in Upstreams, NEW to,
           NEW x, Acks(s, x, u, to)
    PROVE  /\ \A a \in AckAlerts : Acks(s, Alert(x, a), u, to)
           /\ \A r \in {"ok", "error"} : Acks(s, Rc(x, r), u, to)
           /\ Acks(s, [x EXCEPT !.up[u].noRep = TRUE], u, to)
           /\ Acks(s, [x EXCEPT !.up[u].eos = TRUE], u, to)
<1>0. x \in StateType /\ x.up[u] \in UpType
  BY StateParts DEF Acks
<1>1. ASSUME NEW a \in AckAlerts PROVE Acks(s, Alert(x, a), u, to)
  <2>1. a \in AlertNames
    BY DEF AckAlerts, AlertNames
  <2> DEFINE y == Alert(x, a)
  <2>2. /\ y \in StateType /\ SameLog(x.track, y.track)
        /\ y.up = x.up /\ y.queue = x.queue /\ y.faults = x.faults
        /\ y.track.alerts = x.track.alerts \cup {a}
    BY <1>0, <2>1, AlertFields
  <2> HIDE DEF y
  <2>3. SameLog(s.track, y.track)
    BY <2>2 DEF Acks, SameLog
  <2>4. Acks(s, y, u, to)
    BY <2>2, <2>3 DEF Acks
  <2> QED
    BY <2>4 DEF y
<1>2. ASSUME NEW r \in {"ok", "error"} PROVE Acks(s, Rc(x, r), u, to)
  <2> DEFINE y == Rc(x, r)
  <2>1. /\ y \in StateType /\ y.track = x.track /\ y.up = x.up
        /\ y.queue = x.queue /\ y.faults = x.faults
    BY <1>0, RcFields
  <2> HIDE DEF y
  <2>2. Acks(s, y, u, to)
    BY <2>1 DEF Acks
  <2> QED
    BY <2>2 DEF y
<1>3. ASSUME NEW z \in UpType, NEW y, y = SetUp(x, u, z),
             z.acked = x.up[u].acked, z.conn = x.up[u].conn,
             z.sent = x.up[u].sent, z.skew = x.up[u].skew,
             z.pre = x.up[u].pre, z.confirmed = x.up[u].confirmed,
             z.used = x.up[u].used
      PROVE  Acks(s, y, u, to)
  <2>1. /\ y \in StateType /\ y.track = x.track /\ y.queue = x.queue
        /\ y.faults = x.faults /\ y.up[u] = z
        /\ \A v \in Upstreams \ {u} : y.up[v] = x.up[v]
    <3>1. x \in StateType /\ y = SetUp(x, u, z)
      BY <1>0, <1>3
    <3> QED
      BY ONLY u \in Upstreams, z \in UpType, <3>1, UpFields
  <2> QED
    BY <1>3, <2>1 DEF Acks
<1>4. Acks(s, [x EXCEPT !.up[u].noRep = TRUE], u, to)
  <2> DEFINE z == [x.up[u] EXCEPT !.noRep = TRUE]
  <2>1. z \in UpType /\ z.acked = x.up[u].acked /\ z.conn = x.up[u].conn
        /\ z.sent = x.up[u].sent /\ z.skew = x.up[u].skew
        /\ z.pre = x.up[u].pre /\ z.confirmed = x.up[u].confirmed
        /\ z.used = x.up[u].used
    BY <1>0 DEF UpType
  <2>2. [x EXCEPT !.up[u].noRep = TRUE] = SetUp(x, u, z)
    BY DEF SetUp
  <2> HIDE DEF z
  <2> QED
    BY <1>3, <2>1, <2>2
<1>5. Acks(s, [x EXCEPT !.up[u].eos = TRUE], u, to)
  <2> DEFINE z == [x.up[u] EXCEPT !.eos = TRUE]
  <2>1. z \in UpType /\ z.acked = x.up[u].acked /\ z.conn = x.up[u].conn
        /\ z.sent = x.up[u].sent /\ z.skew = x.up[u].skew
        /\ z.pre = x.up[u].pre /\ z.confirmed = x.up[u].confirmed
        /\ z.used = x.up[u].used
    BY <1>0 DEF UpType
  <2>2. [x EXCEPT !.up[u].eos = TRUE] = SetUp(x, u, z)
    BY DEF SetUp
  <2> HIDE DEF z
  <2> QED
    BY <1>3, <2>1, <2>2
<1> QED
  BY <1>1, <1>2, <1>4, <1>5

\* AckSome moves u's reader to where AckedTo says, or not at all.
LEMMA AckSomeAcks ==
    ASSUME NEW s \in StateType, NEW u \in Upstreams,
           s.up[u].acked <= Len(s.track.pkts), NEW left,
           NEW x \in AckSome(s, u, left)
    PROVE  Acks(s, x, u, AckedTo(s.track, s.up[u], left))
<1> DEFINE to == AckedTo(s.track, s.up[u], left)
           why == AckStop(s.track, s.up[u], left, to)
           m == AckMove(s, u, to, why)
<1>1. x \in AckOutcome(s, u, to, why, m)
  BY DEF AckSome
<1>2. s.track \in TrackType /\ s.up[u] \in UpType /\ s.up[u].acked \in Nat
      /\ s.n \in Int
  BY StateParts DEF UpType, StateType
<1>3. to \in s.up[u].acked .. Len(s.track.pkts) /\ Len(s.track.pkts) \in Nat
  BY <1>2, AckedToLast, LogNumbers
<1> HIDE DEF to
<1>4. Acks(s, s, u, to)
  BY DEF Acks, SameLog
<1>5. Acks(s, m, u, to)
  <2> DEFINE z == [s.up[u] EXCEPT !.acked = to]
             y == SetUp(s, u, z)
             d == s.n + (to - s.up[u].acked) - (IF why = "enough" THEN 1 ELSE 0)
  <2>1. z \in UpType /\ z.acked = to /\ z.conn = s.up[u].conn
        /\ z.sent = s.up[u].sent /\ z.skew = s.up[u].skew
        /\ z.pre = s.up[u].pre /\ z.confirmed = s.up[u].confirmed
        /\ z.used = s.up[u].used
    <3>1. to \in Nat
      BY <1>2, <1>3
    <3> QED
      BY <1>2, <3>1 DEF UpType
  <2>2. d \in Int
    BY <1>2, <1>3
  <2>3. m = [y EXCEPT !.n = d]
    <3>1. m = [s EXCEPT !.up[u] = z, !.n = d]
      BY DEF AckMove
    <3> USE DEF SetUp
    <3> HIDE DEF z, d
    <3> QED
      BY <3>1 DEF StateType
  <2>7. y = SetUp(s, u, z)
    OBVIOUS
  <2> HIDE DEF z, d, m, y
  <2>4. /\ y \in StateType /\ y.track = s.track /\ y.queue = s.queue
        /\ y.faults = s.faults /\ y.up[u] = z
        /\ \A v \in Upstreams \ {u} : y.up[v] = s.up[v]
    BY <2>1, <2>7, UpFields
  <2>5. /\ m \in StateType /\ m.track = y.track /\ m.queue = y.queue
        /\ m.faults = y.faults /\ m.up = y.up
    BY <2>2, <2>3, <2>4 DEF StateType
  <2>6. Acks(s, y, u, to)
    BY <2>1, <2>4 DEF Acks, SameLog
  <2> QED
    BY <2>5, <2>6 DEF Acks
<1> HIDE DEF m
<1>6. ASSUME NEW y, Acks(s, y, u, to), NEW a \in AckAlerts,
             x \in BadRead(y, u, a)
      PROVE  Acks(s, x, u, to)
  <2>1. Acks(s, Alert(y, a), u, to)
    BY <1>6, AcksThen
  <2>2. Acks(s, [y EXCEPT !.up[u].noRep = TRUE], u, to)
    BY <1>6, AcksThen
  <2>3. Acks(s, Alert([y EXCEPT !.up[u].noRep = TRUE], a), u, to)
    BY <2>2, AcksThen
  <2>4. Acks(s, Rc(Alert([y EXCEPT !.up[u].noRep = TRUE], a), "error"),
             u, to)
    BY <2>3, AcksThen
  <2> QED
    BY <1>6, <2>1, <2>4 DEF BadRead
<1>7. \/ x = s
      \/ x \in BadRead(s, u, "stale read")
      \/ x = Rc(Alert([s EXCEPT !.up[u].noRep = TRUE], "skip failed"),
                "error")
      \/ why \in {"past eos", "bad packet"} /\ x \in BadRead(m, u, why)
      \/ x = [m EXCEPT !.up[u].eos = TRUE]
      \/ x = m
  <2> HIDE DEF why
  <2> QED
    BY <1>1 DEF AckOutcome
<1>8. Acks(s, Rc(Alert([s EXCEPT !.up[u].noRep = TRUE], "skip failed"),
                 "error"), u, to)
  <2>1. Acks(s, [s EXCEPT !.up[u].noRep = TRUE], u, to)
    BY <1>4, AcksThen
  <2>2. Acks(s, Alert([s EXCEPT !.up[u].noRep = TRUE], "skip failed"),
             u, to)
    BY <2>1, AcksThen DEF AckAlerts
  <2> QED
    BY <2>2, AcksThen
<1>9. Acks(s, [m EXCEPT !.up[u].eos = TRUE], u, to)
  BY <1>5, AcksThen
<1> HIDE DEF why
<1>10. Acks(s, x, u, to)
  BY <1>4, <1>5, <1>6, <1>7, <1>8, <1>9 DEF AckAlerts
<1> QED
  BY <1>10 DEF to

\* What is acked is sound, and no more than the limit.
LEMMA AckSomeSound ==
    ASSUME NEW g, NEW s, Sound(g, s), ~Calm(g), NEW u \in ToSet(s.queue),
           NEW left, NEW x \in AckSome(s, u, left)
    PROVE  /\ Sound(g, x) /\ Touches(s, x, u) /\ x.faults = s.faults
           /\ x.up[u].conn = s.up[u].conn
           /\ \/ x.up[u].acked = s.up[u].acked
              \/ End(s.track, x.up[u].acked) <= AckLimit(s.track, s.up[u])
<1> DEFINE to == AckedTo(s.track, s.up[u], left)
           t == s.track
<1>1. s \in StateType /\ u \in Upstreams /\ t \in TrackType
      /\ s.up[u] \in UpType
  BY StateParts DEF Sound
<1>2. UpOK(t, s.up[u])
  BY DEF Sound, UpsOK
<1>3. Acks(s, x, u, to)
  BY <1>1, <1>2, AckSomeAcks DEF UpOK
<1>4. /\ to \in s.up[u].acked .. Len(t.pkts)
      /\ to > s.up[u].acked => /\ t.pkts[to].type # "open"
                               /\ End(t, to) <= AckLimit(t, s.up[u])
  BY <1>1, <1>2, AckedToLast DEF UpOK
<1> HIDE DEF to
<1>5. /\ s.up[u].acked \in Nat /\ s.up[u].sent \in Nat /\ s.up[u].pre \in Nat
      /\ s.up[u].skew \in Nat /\ Len(t.pkts) \in Nat
  BY <1>1, LogNumbers DEF UpType
<1>6. Touches(s, x, u)
  BY <1>3, <1>4, <1>5 DEF Touches, Acks
<1>7. UpOK(x.track, x.up[u])
  <2>1. x.track.pkts = t.pkts /\ x.track.appended = t.appended
    BY <1>3 DEF Acks, SameLog
  <2>2. UpOK(t, x.up[u])
    <3>1. CASE x.up[u].acked = s.up[u].acked
      BY <1>2, <1>3, <3>1 DEF UpOK, Acks
    <3>2. CASE x.up[u].acked # s.up[u].acked
      <4>1. x.up[u].acked = to /\ to > s.up[u].acked /\ to \in Nat
        BY <1>3, <1>4, <1>5, <3>2 DEF Acks
      <4>2. ASSUME s.up[u].conn = "up"
            PROVE  End(t, to) <= s.up[u].sent + s.up[u].skew
        <5>1. End(t, to) <= s.up[u].sent + s.up[u].skew - s.up[u].pre
          BY <1>4, <4>1, <4>2 DEF AckLimit
        <5>2. End(t, to) \in Nat
          BY <1>1, <1>4, <1>5, LogNumbers
        <5> QED
          BY <1>5, <5>1, <5>2
      <4> QED
        BY <1>2, <1>3, <1>4, <1>5, <4>1, <4>2 DEF UpOK, Acks
    <3> QED
      BY <3>1, <3>2
  <2> QED
    BY <2>1, <2>2 DEF UpOK, End
<1>8. HeadersOK(x.track)
  <2>1. HeadersOK(t)
    BY DEF Sound
  <2> QED
    BY <1>3, <2>1 DEF HeadersOK, Acks, SameLog, AckAlerts
<1>9. AlertsOK(g, x.track)
  <2>1. AlertsOK(g, t)
    BY DEF Sound
  <2> QED
    BY <1>3, <2>1 DEF AlertsOK, Acks, AckAlerts
<1>10. x.faults = s.faults /\ x.faults <= g.maxFaults
  BY <1>3 DEF Acks, Sound
<1>11. Sound(g, x)
  BY <1>6, <1>7, <1>8, <1>9, <1>10, TouchSound
<1>12. x.up[u].acked = s.up[u].acked
       \/ End(t, x.up[u].acked) <= AckLimit(t, s.up[u])
  BY <1>3, <1>4, <1>5 DEF Acks
<1> QED
  BY <1>3, <1>6, <1>10, <1>11, <1>12 DEF Acks

-----------------------------------------------------------------------------
(* Republish *)

\* A call that concerns u leaves x: it acks nothing.
Quiet(s, x, u) ==
    /\ x \in StateType /\ x.track = s.track /\ x.queue = s.queue
    /\ \A v \in Upstreams \ {u} : x.up[v] = s.up[v]
    /\ x.up[u].acked = s.up[u].acked
    /\ x.up[u].confirmed = s.up[u].confirmed
    /\ x.up[u].used = s.up[u].used
    /\ x.up[u].conn = "up" => /\ s.up[u].conn = "up"
                              /\ x.up[u].sent = s.up[u].sent
                              /\ x.up[u].skew = s.up[u].skew

\* Two such calls are one.
LEMMA QuietTwice ==
    ASSUME NEW s, NEW x, NEW y, NEW u, Quiet(s, x, u), Quiet(x, y, u)
    PROVE  Quiet(s, y, u)
BY DEF Quiet

\* What is sound and good remains so.
LEMMA QuietGood ==
    ASSUME NEW g, NEW s, NEW u \in ToSet(s.queue), NEW x,
           Sound(g, s), Quiet(s, x, u), x.faults <= g.maxFaults
    PROVE  /\ Sound(g, x) /\ Touches(s, x, u)
           /\ Resuming(g, s) => Resuming(g, x)
<1>1. s \in StateType /\ u \in Upstreams /\ s.up[u] \in UpType
  BY StateParts DEF Sound
<1>2. Touches(s, x, u)
  BY <1>1 DEF Touches, Quiet, SameLog, UpType
<1>3. UpOK(x.track, x.up[u])
  <2>1. UpOK(s.track, s.up[u])
    BY DEF Sound, UpsOK
  <2> QED
    BY <2>1 DEF UpOK, Quiet
<1>4. HeadersOK(x.track) /\ AlertsOK(g, x.track)
  BY DEF Sound, Quiet
<1>5. Sound(g, x)
  BY <1>2, <1>3, <1>4, TouchSound
<1>6. Resuming(g, s) => Resuming(g, x)
  BY <1>1, <1>2, TouchResumes DEF Quiet
<1> QED
  BY <1>2, <1>5, <1>6

\* One more fault
LEMMA FaultFields ==
    ASSUME NEW s \in StateType, NEW x \in Fault(s), conf \in Confs
    PROVE  /\ x \in StateType /\ x.track = s.track /\ x.up = s.up
           /\ x.queue = s.queue /\ x.rc = s.rc /\ x.n = s.n
           /\ x.faults <= conf.maxFaults
<1>1. conf.maxFaults \in Nat
  BY ConfAssumption DEF ConfType
<1>2. s.faults \in Nat
  BY StateParts
<1>3. s.faults < conf.maxFaults /\ x = [s EXCEPT !.faults = @ + 1]
  BY DEF Fault
<1>4. s.faults + 1 \in Nat
  BY <1>2
<1>5. x \in StateType
  BY <1>3, <1>4 DEF StateType
<1>6. x.faults = s.faults + 1 /\ x.track = s.track /\ x.up = s.up
      /\ x.queue = s.queue /\ x.rc = s.rc /\ x.n = s.n
  BY <1>3 DEF StateType
<1> QED
  BY <1>1, <1>2, <1>3, <1>5, <1>6

\* A call is made, or not.
LEMMA RepublishSendQuiet ==
    ASSUME NEW s \in StateType, NEW u \in Upstreams, conf \in Confs,
           s.faults <= conf.maxFaults, NEW x \in RepublishSend(s, u)
    PROVE  Quiet(s, x, u) /\ x.faults <= conf.maxFaults
<1>1. s.up[u] \in UpType
  BY StateParts
<1>2. CASE x = [s EXCEPT !.up[u].call = TRUE, !.up[u].recent = TRUE]
  <2> DEFINE y == [s.up[u] EXCEPT !.call = TRUE, !.recent = TRUE]
  <2>1. /\ y \in UpType /\ y.acked = s.up[u].acked
        /\ y.confirmed = s.up[u].confirmed /\ y.used = s.up[u].used
        /\ y.conn = s.up[u].conn /\ y.sent = s.up[u].sent
        /\ y.skew = s.up[u].skew
    BY <1>1 DEF UpType
  <2>2. x = SetUp(s, u, y)
    <3>1. s.up \in [Upstreams -> UpType]
      BY StateParts
    <3>2. [s.up EXCEPT ![u].call = TRUE, ![u].recent = TRUE]
            = [s.up EXCEPT ![u] = y]
      BY <1>1, <3>1 DEF UpType
    <3>3. x = [s EXCEPT !.up = [s.up EXCEPT ![u].call = TRUE,
                                            ![u].recent = TRUE]]
      BY <1>2 DEF StateType
    <3> HIDE DEF y
    <3> QED
      BY <3>2, <3>3 DEF SetUp
  <2> HIDE DEF y
  <2>3. /\ x \in StateType /\ x.track = s.track
        /\ x.queue = s.queue /\ x.faults = s.faults
        /\ x.up[u] = y /\ \A v \in Upstreams \ {u} : x.up[v] = s.up[v]
    BY <2>1, <2>2, UpFields
  <2> QED
    BY <2>1, <2>3 DEF Quiet
<1>3. CASE \E y \in Fault(s) : x = Rc(y, "error")
  <2>1. PICK y \in Fault(s) : x = Rc(y, "error")
    BY <1>3
  <2>2. /\ y \in StateType /\ y.track = s.track /\ y.up = s.up
        /\ y.queue = s.queue /\ y.faults <= conf.maxFaults
    BY FaultFields
  <2>3. /\ x \in StateType /\ x.track = y.track /\ x.up = y.up
        /\ x.queue = y.queue /\ x.faults = y.faults
    BY <2>1, <2>2, RcFields
  <2> QED
    BY <2>2, <2>3 DEF Quiet
<1> QED
  BY <1>2, <1>3 DEF RepublishSend

\* The connection is closed.
LEMMA CloseQuiet ==
    ASSUME NEW s \in StateType, NEW u \in Upstreams
    PROVE  LET x == CloseConnection(s, u)
           IN  Quiet(s, x, u) /\ x.faults = s.faults /\ x.up[u].conn = "none"
<1> DEFINE x == CloseConnection(s, u)
           y == [s.up[u] EXCEPT !.conn = "none", !.ready = FALSE,
                    !.wtimer = FALSE, !.broken = FALSE, !.sent = 0,
                    !.pre = 0, !.skew = 0]
<1>1. s.up[u] \in UpType
  BY StateParts
<1>2. /\ y \in UpType /\ y.acked = s.up[u].acked
      /\ y.confirmed = s.up[u].confirmed /\ y.used = s.up[u].used
      /\ y.conn = "none"
  BY <1>1 DEF UpType
<1>3. x = SetUp(s, u, y)
  BY DEF CloseConnection, SetUp
<1> HIDE DEF x, y
<1>4. /\ x \in StateType /\ x.track = s.track
      /\ x.queue = s.queue /\ x.faults = s.faults
      /\ x.up[u] = y /\ \A v \in Upstreams \ {u} : x.up[v] = s.up[v]
  BY <1>2, <1>3, UpFields
<1>5. Quiet(s, x, u) /\ x.faults = s.faults /\ x.up[u].conn = "none"
  BY <1>2, <1>4 DEF Quiet
<1> QED
  BY <1>5 DEF x

\* The call is made now or later.
LEMMA RepublishAfterQuiet ==
    ASSUME NEW s \in StateType, NEW u \in Upstreams, conf \in Confs,
           s.faults <= conf.maxFaults, NEW within \in BOOLEAN,
           NEW x \in RepublishAfter(s, u, within)
    PROVE  Quiet(s, x, u) /\ x.faults <= conf.maxFaults
<1>1. s.up[u] \in UpType /\ s.up[u].reps \in Nat
  BY StateParts DEF UpType
<1>2. ASSUME NEW y \in UpType, NEW z, z = SetUp(s, u, y),
             y.acked = s.up[u].acked, y.confirmed = s.up[u].confirmed,
             y.used = s.up[u].used, y.conn = s.up[u].conn,
             y.sent = s.up[u].sent, y.skew = s.up[u].skew
      PROVE  Quiet(s, z, u) /\ z.faults <= conf.maxFaults
  <2>1. /\ z \in StateType /\ z.track = s.track
        /\ z.queue = s.queue /\ z.faults = s.faults
        /\ z.up[u] = y /\ \A v \in Upstreams \ {u} : z.up[v] = s.up[v]
    BY <1>2, UpFields
  <2> QED
    BY <1>2, <2>1 DEF Quiet
<1>3. CASE within
  <2> DEFINE y == [s.up[u] EXCEPT !.timer = TRUE, !.reps = @ + 1]
  <2>1. /\ y \in UpType /\ y.acked = s.up[u].acked
        /\ y.confirmed = s.up[u].confirmed /\ y.used = s.up[u].used
        /\ y.conn = s.up[u].conn /\ y.sent = s.up[u].sent
        /\ y.skew = s.up[u].skew
    <3>1. s.up[u].reps + 1 \in Nat
      BY <1>1
    <3> QED
      BY <1>1, <3>1 DEF UpType
  <2>2. x = SetUp(s, u, y)
    <3>1. s.up \in [Upstreams -> UpType]
      BY StateParts
    <3>2. [s.up EXCEPT ![u].timer = TRUE, ![u].reps = @ + 1]
            = [s.up EXCEPT ![u] = y]
      BY <1>1, <3>1 DEF UpType
    <3>3. x = [s EXCEPT !.up = [s.up EXCEPT ![u].timer = TRUE,
                                            ![u].reps = @ + 1]]
      BY <1>3 DEF StateType, RepublishAfter
    <3> HIDE DEF y
    <3> QED
      BY <3>2, <3>3 DEF SetUp
  <2> HIDE DEF y
  <2> QED
    BY <1>2, <2>1, <2>2
<1>4. CASE ~within
  <2> DEFINE y == [s.up[u] EXCEPT !.reps = 0]
             z == SetUp(s, u, y)
  <2>1. /\ y \in UpType /\ y.acked = s.up[u].acked
        /\ y.confirmed = s.up[u].confirmed /\ y.used = s.up[u].used
        /\ y.conn = s.up[u].conn /\ y.sent = s.up[u].sent
        /\ y.skew = s.up[u].skew
    BY <1>1 DEF UpType
  <2>2. x \in RepublishSend(z, u)
    BY <1>4 DEF RepublishAfter, SetUp
  <2>3. z = SetUp(s, u, y)
    OBVIOUS
  <2> HIDE DEF y, z
  <2>4. Quiet(s, z, u) /\ z.faults <= conf.maxFaults
    BY <1>2, <2>1, <2>3
  <2>5. Quiet(z, x, u) /\ x.faults <= conf.maxFaults
    BY <2>2, <2>4, RepublishSendQuiet DEF Quiet
  <2> QED
    BY <2>4, <2>5, QuietTwice
<1> QED
  BY <1>3, <1>4

\* A configuration has a confirmation for every upstream.
LEMMA ResumeKinds ==
    ASSUME conf \in Confs, NEW u \in Upstreams
    PROVE  /\ conf.resume[u] \in Confirmations
           /\ conf.resume[u] # "last_acked" =>
                ~LastAcked(conf) /\ ~Calm(conf)
           /\ conf.resume[u] = "last_written" => ~NoneWritten(conf)
BY ConfAssumption DEF ConfType, LastAcked, Calm, NoneWritten

\* An upstream whose frames are acked when they are written resumes anywhere.
LEMMA WrittenResumes ==
    ASSUME conf \in Confs, NEW u \in Upstreams,
           conf.resume[u] = "last_written", NEW t, NEW x
    PROVE  Resumes(conf, t, x, u)
BY ResumeKinds DEF Resumes

\* The connection is given up: frames are acked only when they are written.
LEMMA RepublishGood ==
    ASSUME NEW s, Sound(conf, s), NEW u \in ToSet(s.queue),
           NEW x \in Republish(s, u)
    PROVE  /\ Sound(conf, x) /\ Touches(s, x, u)
           /\ \/ x.up[u].acked = s.up[u].acked
              \/ conf.resume[u] = "last_written"
           /\ Resuming(conf, s) => Resuming(conf, x)
<1>1. /\ s \in StateType /\ conf \in Confs /\ u \in Upstreams
      /\ s.faults <= conf.maxFaults
  BY StateParts DEF Sound
<1> DEFINE c == CloseConnection(s, u)
           Ok(y) == /\ Sound(conf, y) /\ Touches(s, y, u)
                    /\ \/ y.up[u].acked = s.up[u].acked
                       \/ conf.resume[u] = "last_written"
<1>2. ASSUME NEW y, Quiet(s, y, u), y.faults <= conf.maxFaults PROVE Ok(y)
  BY <1>2, QuietGood DEF Quiet
<1>3. Quiet(s, c, u) /\ c.faults <= conf.maxFaults
  BY <1>1, CloseQuiet
<1>4. Ok(c) /\ c \in StateType /\ u \in ToSet(c.queue)
  <2> HIDE DEF c
  <2> QED
    BY <1>2, <1>3 DEF Quiet
<1>5. PICK within \in BOOLEAN :
        \/ x = Rc(s, "declined")
        \/ x = c
        \/ x \in Then(IF conf.resume[u] = "last_written"
                      THEN AutoAck(c, u) ELSE {c},
                      LAMBDA y : RepublishAfter(y, u, within))
  <2> DEFINE idle == s.up[u].conn = "up" /\ s.up[u].pre = 0
                     /\ s.up[u].sent = s.track.appended
  <2>1. PICK within \in IF s.up[u].recent THEN BOOLEAN ELSE {FALSE} :
          x \in IF \/ s.track.state # "active"
                   \/ s.up[u].noRep
                   \/ within /\ s.up[u].reps >= conf.maxRepublishes
                THEN {Rc(s, "declined")}
                ELSE IF idle THEN {c}
                ELSE Then(IF conf.resume[u] = "last_written"
                          THEN AutoAck(c, u) ELSE {c},
                          LAMBDA y : RepublishAfter(y, u, within))
    BY DEF Republish
  <2> HIDE DEF idle, c
  <2>2. within \in BOOLEAN
    BY <2>1
  <2> QED
    BY <2>1, <2>2
<1> HIDE DEF c
<1>6. CASE x = Rc(s, "declined")
  <2>1. Quiet(s, x, u) /\ x.faults <= conf.maxFaults
    BY <1>1, <1>6, RcFields DEF Quiet
  <2> QED
    BY <1>1, <1>2, <2>1, QuietGood
<1>7. CASE x = c
  BY <1>3, <1>4, <1>7, QuietGood
<1>8. CASE x \in Then(IF conf.resume[u] = "last_written"
                      THEN AutoAck(c, u) ELSE {c},
                      LAMBDA y : RepublishAfter(y, u, within))
  <2>1. PICK y \in IF conf.resume[u] = "last_written"
                   THEN AutoAck(c, u) ELSE {c} :
            x \in IF y.rc = "error" THEN {y}
                  ELSE RepublishAfter(y, u, within)
    BY <1>8 DEF Then
  <2>2. Ok(y)
    <3>1. CASE conf.resume[u] = "last_written"
      <4>1. y \in AckSome(c, u, Infinite)
        BY <2>1, <3>1 DEF AutoAck
      <4>2. ~Calm(conf)
        BY <1>1, <3>1, ResumeKinds
      <4>3. Sound(conf, y) /\ Touches(c, y, u)
        BY <1>4, <4>1, <4>2, AckSomeSound
      <4> QED
        BY <1>1, <1>4, <3>1, <4>3, TouchTwice
    <3>2. CASE conf.resume[u] # "last_written"
      BY <1>4, <2>1, <3>2
    <3> QED
      BY <3>1, <3>2
  <2>3. Ok(x)
    <3>1. CASE x = y
      BY <2>2, <3>1
    <3>2. CASE x \in RepublishAfter(y, u, within)
      <4>1. y \in StateType /\ y.faults <= conf.maxFaults
            /\ u \in ToSet(y.queue)
        BY <2>2 DEF Sound, Touches
      <4>2. Quiet(y, x, u) /\ x.faults <= conf.maxFaults
        BY <1>1, <3>2, <4>1, RepublishAfterQuiet
      <4>3. Sound(conf, x) /\ Touches(y, x, u)
        BY <2>2, <4>1, <4>2, QuietGood
      <4> QED
        BY <1>1, <2>2, <4>2, <4>3, TouchTwice DEF Quiet
    <3> QED
      BY <2>1, <3>1, <3>2
  <2> HIDE DEF Ok
  <2>4. Resuming(conf, s) => Resuming(conf, x)
    BY <1>1, <2>3, TouchResumes, WrittenResumes DEF Ok
  <2> QED
    BY <2>3, <2>4 DEF Ok
<1> QED
  BY <1>5, <1>6, <1>7, <1>8

\* Return codes and counters do not matter.
LEMMA GoodSame ==
    ASSUME NEW g, NEW s, NEW x \in StateType, x.track = s.track,
           x.up = s.up, x.queue = s.queue, x.faults <= g.maxFaults
    PROVE  /\ Sound(g, s) => Sound(g, x)
           /\ Resuming(g, s) => Resuming(g, x)
BY DEF Sound, Resuming

\* The counter of a loop
LEMMA CountFields ==
    ASSUME NEW s \in StateType, NEW m \in Int
    PROVE  LET x == [s EXCEPT !.n = m]
           IN  /\ x \in StateType /\ x.track = s.track /\ x.up = s.up
               /\ x.queue = s.queue /\ x.faults = s.faults
               /\ x.rc = s.rc
BY DEF StateType

\* x is s, with the mark that frames were acked for want of memory, or not.
Forces(s, x) ==
    /\ x \in StateType /\ x.up = s.up /\ x.queue = s.queue
    /\ x.faults = s.faults
    /\ LET t == s.track
           t2 == x.track
       IN  /\ t2.pkts = t.pkts /\ t2.written = t.written
           /\ t2.appended = t.appended /\ t2.head = t.head
           /\ t2.tail = t.tail /\ t2.nfree = t.nfree /\ t2.state = t.state
           /\ t2.pub = t.pub /\ t2.detached = t.detached
           /\ t2.keep = t.keep /\ t2.oerr = t.oerr
           /\ t2.blocked = t.blocked /\ t2.alerts = t.alerts

\* The mark does no harm when it is allowed.
LEMMA ForcesSound ==
    ASSUME NEW g, NEW s, Sound(g, s), ~Calm(g), NEW x, Forces(s, x),
           s.track.forced => x.track.forced
    PROVE  Sound(g, x) /\ Steps(s, x, 0)
<1>1. s \in StateType /\ x \in StateType /\ s.track \in TrackType
  BY StateParts DEF Sound, Forces
<1> DEFINE t == s.track
           t2 == x.track
<1>0. /\ LogOK(t) /\ MemoryOK(g, t, s.queue) /\ HeadersOK(t)
      /\ AlertsOK(g, t) /\ UpsOK(t, s.up, s.queue)
      /\ x.up = s.up /\ x.queue = s.queue
      /\ t2.pkts = t.pkts /\ t2.written = t.written
      /\ t2.appended = t.appended /\ t2.head = t.head
      /\ t2.tail = t.tail /\ t2.nfree = t.nfree
      /\ t2.oerr = t.oerr /\ t2.blocked = t.blocked
      /\ t2.alerts = t.alerts
  BY DEF Sound, Forces
<1> HIDE DEF t, t2
<1>2. LogOK(t2)
  <2>1. t2.appended <= t2.written
    BY <1>0 DEF LogOK
  <2> QED
    BY <1>0, <2>1, LogOf
<1>3. MemoryOK(g, t2, x.queue)
  BY <1>0 DEF MemoryOK, Fits
<1>4. HeadersOK(t2)
  BY <1>0 DEF HeadersOK
<1>5. AlertsOK(g, t2)
  BY <1>0 DEF AlertsOK
<1>6. UpsOK(t2, x.up, x.queue)
  <2>1. \A u \in ToSet(s.queue) : UpOK(t2, s.up[u])
    BY <1>0, UpOf DEF UpsOK
  <2> QED
    BY <1>0, <2>1 DEF UpsOK
<1> USE DEF t2
<1>7. Sound(g, x)
  BY <1>1, <1>2, <1>3, <1>4, <1>5, <1>6 DEF Sound, Forces
<1>8. Later(s.track, x.track, 0)
  BY <1>1 DEF Forces, Later, TrackType
<1>9. \A u \in Upstreams : s.up[u].acked <= x.up[u].acked
  BY <1>1, StepsNothing DEF Steps, Forces
<1> QED
  BY <1>7, <1>8, <1>9 DEF Steps, Forces

\* Frames that are acked for want of memory are marked.
LEMMA AutoAckForceGood ==
    ASSUME NEW s, Good(conf, s), ~Calm(conf), NEW u \in ToSet(s.queue),
           NEW left, NEW x \in AutoAckForce(s, u, left)
    PROVE  Good(conf, x) /\ Steps(s, x, 0)
<1> DEFINE Acked(y) == End(y.track, y.up[u].acked)
                        - End(s.track, s.up[u].acked)
           Ok(y) == Sound(conf, y) /\ Touches(s, y, u)
           Lossy(y) == [y EXCEPT !.track.forced = @ \/ Acked(y) > 0]
           Turns(a) == UNION {
                CASE r.rc = "error" -> {r}
                  [] r.rc # "error" /\ r.up[u].conn = "up" -> {Rc(r, "ok")}
                  [] OTHER -> AckSome([r EXCEPT !.n = @ + 1], u,
                                      left - Acked(r))
                : r \in Republish(a, u)}
           More(a) ==
            IF Acked(a) >= left \/ a.up[u].conn # "up" \/ a.up[u].eos
            THEN {a}
            ELSE Turns(a)
<1>1. /\ s \in StateType /\ conf \in Confs /\ u \in Upstreams
      /\ s.faults <= conf.maxFaults /\ Sound(conf, s) /\ Resuming(conf, s)
      /\ s.track \in TrackType
  BY StateParts DEF Sound, Good
<1>2. PICK y \in Then(AckSome(s, u, left), More) : x = Lossy(y)
  BY DEF AutoAckForce
<1> HIDE DEF More
<1>3. PICK a \in AckSome(s, u, left) :
        y \in IF a.rc = "error" THEN {a} ELSE More(a)
  BY <1>2 DEF Then
<1>4. Ok(a)
  BY <1>1, AckSomeSound
<1>5. Ok(y)
  <2>1. CASE y = a
    BY <1>4, <2>1
  <2>2. CASE y \in Turns(a)
    <3>1. PICK r \in Republish(a, u) :
            y \in CASE r.rc = "error" -> {r}
                    [] r.rc # "error" /\ r.up[u].conn = "up"
                        -> {Rc(r, "ok")}
                    [] OTHER -> AckSome([r EXCEPT !.n = @ + 1], u,
                                        left - Acked(r))
      BY <2>2
    <3> DEFINE b == [r EXCEPT !.n = @ + 1]
               rest == left - Acked(r)
    <3> HIDE DEF Acked
    <3>2. Ok(r)
      <4>1. u \in ToSet(a.queue)
        BY <1>4 DEF Touches
      <4>2. Sound(conf, r) /\ Touches(a, r, u)
        BY <1>4, <4>1, RepublishGood
      <4> QED
        BY <1>1, <1>4, <4>2, TouchTwice
    <3>3. r \in StateType /\ r.n \in Int /\ r.faults <= conf.maxFaults
      BY <3>2 DEF Sound, StateType
    <3>4. y = r \/ y = Rc(r, "ok") \/ y \in AckSome(b, u, rest)
      <4> HIDE DEF b, rest
      <4> QED
        BY <3>1 DEF b, rest
    <3>5. ASSUME NEW z \in StateType, z.track = r.track, z.up = r.up,
                 z.queue = r.queue, z.faults = r.faults
          PROVE  Ok(z)
      <4>1. Sound(conf, z)
        BY <3>2, <3>3, <3>5, GoodSame
      <4>2. Touches(s, z, u)
        BY <3>2, <3>5 DEF Touches
      <4> QED
        BY <4>1, <4>2
    <3>6. CASE y = Rc(r, "ok")
      BY <3>3, <3>5, <3>6, RcFields
    <3>7. CASE y \in AckSome(b, u, rest)
      <4>1. Ok(b)
        <5>1. r.n + 1 \in Int
          BY <3>3
        <5>2. /\ b \in StateType /\ b.track = r.track /\ b.up = r.up
              /\ b.queue = r.queue /\ b.faults = r.faults
          BY <3>3, <5>1, CountFields
        <5> HIDE DEF b
        <5> QED
          BY <3>5, <5>2
      <4> HIDE DEF b, rest
      <4>2. u \in ToSet(b.queue)
        BY <4>1 DEF Touches
      <4>3. Sound(conf, y) /\ Touches(b, y, u)
        BY <3>7, <4>1, <4>2, AckSomeSound
      <4> QED
        BY <1>1, <4>1, <4>3, TouchTwice
    <3> QED
      BY <3>2, <3>4, <3>6, <3>7
  <2> HIDE DEF Turns, Acked
  <2> QED
    BY <1>3, <2>1, <2>2 DEF More
<1> HIDE DEF Turns
<1>6. y \in StateType /\ y.track \in TrackType /\ y.track.forced \in BOOLEAN
  BY <1>5, StateParts DEF Sound, TrackType
<1>7. Acked(y) > 0 \/ y.up[u].acked = s.up[u].acked
  <2>1. /\ s.up[u].acked \in 0 .. Len(s.track.pkts)
        /\ y.up[u].acked \in 0 .. Len(s.track.pkts)
    <3>1. s.up[u] \in UpType /\ y.up[u] \in UpType
      BY <1>1, <1>6, StateParts
    <3>2. UpOK(s.track, s.up[u])
      BY <1>1 DEF Sound, UpsOK
    <3>3. UpOK(y.track, y.up[u]) /\ y.track.pkts = s.track.pkts
      BY <1>5 DEF Sound, UpsOK, Touches, SameLog
    <3> QED
      BY <1>1, <3>1, <3>2, <3>3, LogNumbers DEF UpOK, UpType
  <2>2. LogOK(s.track)
    BY <1>1 DEF Sound
  <2>3. End(y.track, y.up[u].acked) = End(s.track, y.up[u].acked)
    BY <1>5 DEF Touches, SameLog, End
  <2>4. s.up[u].acked <= y.up[u].acked
    BY <1>5 DEF Touches
  <2>5. y.up[u].acked <= s.up[u].acked
        <=> End(s.track, y.up[u].acked) <= End(s.track, s.up[u].acked)
    BY <1>1, <2>1, <2>2, LogOrder
  <2>6. /\ End(s.track, y.up[u].acked) \in Nat
        /\ End(s.track, s.up[u].acked) \in Nat
    BY <1>1, <2>1, LogNumbers
  <2> QED
    BY <2>1, <2>3, <2>4, <2>5, <2>6
<1> DEFINE more == Acked(y) > 0
           f == y.track.forced \/ more
<1>8. Forces(y, x) /\ x.track.forced = f
  <2> DEFINE t == [y.track EXCEPT !.forced = f]
  <2>1. x = [y EXCEPT !.track = t]
    BY <1>2
  <2>2. f \in BOOLEAN
    OBVIOUS
  <2> HIDE DEF f
  <2>3. /\ t \in TrackType /\ t.forced = f
        /\ t.pkts = y.track.pkts /\ t.written = y.track.written
        /\ t.appended = y.track.appended /\ t.head = y.track.head
        /\ t.tail = y.track.tail /\ t.nfree = y.track.nfree
        /\ t.state = y.track.state
        /\ t.pub = y.track.pub /\ t.detached = y.track.detached
        /\ t.keep = y.track.keep /\ t.oerr = y.track.oerr
        /\ t.blocked = y.track.blocked /\ t.alerts = y.track.alerts
    BY <1>6, <2>2 DEF TrackType
  <2> HIDE DEF t
  <2>4. x \in StateType
    BY <1>6, <2>1, <2>3 DEF StateType
  <2>5. x.track = t /\ x.up = y.up /\ x.queue = y.queue
        /\ x.faults = y.faults
    BY <1>6, <2>1 DEF StateType
  <2> QED
    BY <2>3, <2>4, <2>5 DEF Forces
<1>9. y.track.forced => x.track.forced
  BY <1>8
<1>10. Sound(conf, x) /\ Steps(y, x, 0)
  BY <1>5, <1>8, <1>9, ForcesSound
<1>11. Steps(s, x, 0)
  <2>1. Steps(s, y, 0)
    BY <1>1, <1>5, TouchSteps
  <2>2. x \in StateType /\ 0 + 0 = 0
    BY <1>8 DEF Forces
  <2> QED
    BY <1>1, <1>6, <1>10, <2>1, <2>2, StepsTwice
<1>12. Resuming(conf, x)
  <2>1. CASE x.track.forced
    BY <2>1 DEF Resuming, Resumes
  <2>2. CASE ~x.track.forced
    <3>1. y.up[u].acked = s.up[u].acked /\ ~y.track.forced
      <4> HIDE DEF Acked
      <4> QED
        BY <1>7, <1>8, <2>2
    <3>2. Resuming(conf, y)
      BY <1>1, <1>5, <3>1, TouchResumes
    <3>3. /\ x.up = y.up /\ x.queue = y.queue
          /\ x.track.pkts = y.track.pkts
          /\ x.track.appended = y.track.appended
          /\ x.track.head = y.track.head /\ x.track.tail = y.track.tail
      BY <1>8 DEF Forces
    <3>4. ASSUME NEW v PROVE /\ End(x.track, v) = End(y.track, v)
                             /\ Frames(x.track, v) = Frames(y.track, v)
                             /\ FirstOf(x.track, v) <=> FirstOf(y.track, v)
                             /\ Readable(x.track, v) <=> Readable(y.track, v)
      BY <3>3, SamePackets
    <3> QED
      BY <3>1, <3>2, <3>3, <3>4 DEF Resuming, Resumes
  <2> QED
    BY <2>1, <2>2
<1> QED
  BY <1>10, <1>11, <1>12 DEF Good

-----------------------------------------------------------------------------
(* Buffers are released *)

\* The track is set to t.
SetTrack(s, t) == [s EXCEPT !.track = t]

\* That changes nothing else.
LEMMA TrackFields ==
    ASSUME NEW s \in StateType, NEW t \in TrackType, NEW x,
           x = SetTrack(s, t)
    PROVE  /\ x \in StateType /\ x.track = t /\ x.up = s.up
           /\ x.queue = s.queue /\ x.faults = s.faults
           /\ x.rc = s.rc /\ x.n = s.n
BY DEF SetTrack, StateType

\* The smaller of two
LEMMA MinOfTwo ==
    ASSUME NEW a \in Nat, NEW b \in Nat
    PROVE  Min({a, b}) \in Nat /\ Min({a, b}) <= a /\ Min({a, b}) <= b
<1> DEFINE T == {a, b}
<1>1. T \subseteq Nat /\ T # {} /\ a \in T /\ b \in T
  OBVIOUS
<1> HIDE DEF T
<1>2. Min(T) \in T /\ \A y \in T : Min(T) <= y
  BY <1>1, MinLeast
<1>3. Min(T) \in Nat /\ Min(T) <= a /\ Min(T) <= b
  BY <1>1, <1>2
<1> QED
  BY <1>3 DEF T

\* Steps of the track alone are steps.
LEMMA TrackSteps ==
    ASSUME NEW s \in StateType, NEW x \in StateType, NEW n \in Nat,
           Later(s.track, x.track, n), x.up = s.up, x.queue = s.queue,
           s.queue = << >> => x.track.head = s.track.head
    PROVE  Steps(s, x, n)
<1>1. \A u \in Upstreams : s.up[u].acked <= x.up[u].acked
  BY StepsNothing DEF Steps
<1> QED
  BY <1>1 DEF Steps

\* More may be appended without the upstreams.
LEMMA UpsLater ==
    ASSUME NEW t \in TrackType, NEW t2 \in TrackType, t2.pkts = t.pkts,
           t.appended <= t2.appended, NEW q \in Seq(Upstreams),
           NEW ups \in [Upstreams -> UpType], UpsOK(t, ups, q)
    PROVE  UpsOK(t2, ups, q)
<1>1. ASSUME NEW u \in ToSet(q) PROVE UpOK(t2, ups[u])
  <2>1. u \in Upstreams /\ UpOK(t, ups[u])
    BY DEF UpsOK, ToSet
  <2>2. ups[u].sent \in Nat /\ t.appended \in Nat /\ t2.appended \in Nat
    BY <2>1 DEF UpType, TrackType
  <2>3. ups[u].sent <= t.appended => ups[u].sent <= t2.appended
    BY <2>2
  <2> QED
    BY <2>1, <2>3 DEF UpOK, End
<1> QED
  BY <1>1 DEF UpsOK

\* The buffers before the one from which the slowest upstream resumes are
\* released: all others resume from later ones.
LEMMA FreeToGood ==
    ASSUME NEW s, Good(conf, s), s.queue # << >>, NEW x,
           x = FreeTo(s, MinReader(s))
    PROVE  Good(conf, x) /\ Steps(s, x, 0)
<1> DEFINE t == s.track
           m == MinAcked(s)
           off == MinReader(s)
           found == NodeOf(off) \in t.head .. t.tail
           first == IF found THEN NodeOf(off) ELSE t.tail
           free == Min({conf.maxFree, t.nfree + first - t.head})
           t2 == [t EXCEPT !.head = first, !.nfree = free]
           y == [s EXCEPT !.track = t2]
<1>1. /\ s \in StateType /\ t \in TrackType /\ conf \in Confs
      /\ s.faults <= conf.maxFaults
      /\ LogOK(t) /\ MemoryOK(conf, t, s.queue) /\ HeadersOK(t)
      /\ AlertsOK(conf, t) /\ UpsOK(t, s.up, s.queue) /\ Resuming(conf, s)
  BY StateParts DEF Sound, Good
<1>2. \A u \in ToSet(s.queue) :
        s.up[u] \in UpType /\ s.up[u].acked \in 0 .. Len(t.pkts)
  <2> SUFFICES ASSUME NEW u \in ToSet(s.queue)
               PROVE s.up[u] \in UpType /\ s.up[u].acked \in 0 .. Len(t.pkts)
    OBVIOUS
  <2>1. s.up[u] \in UpType /\ UpOK(t, s.up[u])
    BY <1>1, StateParts DEF UpsOK
  <2> QED
    BY <1>1, <2>1, LogNumbers DEF UpOK, UpType
<1>3. /\ m \in ToSet(s.queue)
      /\ \A u \in ToSet(s.queue) : FrameId(s, m) <= FrameId(s, u)
  <2>1. \A u \in ToSet(s.queue) : s.up[u].acked <= Len(t.pkts)
    BY <1>1, <1>2, LogNumbers
  <2> QED
    BY <1>1, <2>1, MinAckedLeast
<1>4. off = End(t, s.up[m].acked) /\ off \in Nat
  BY <1>1, <1>2, <1>3, LogNumbers DEF MinReader
<1> HIDE DEF m, off
<1>5. /\ t.head \in Nat /\ t.tail \in Nat /\ t.head <= t.tail
      /\ t.nfree \in Nat /\ conf.maxFree \in Nat /\ conf.memLimit \in Nat
  BY <1>1, ConfAssumption DEF TrackType, MemoryOK, ConfType
<1>6. first \in t.head .. t.tail /\ first \in Nat
  BY <1>5
<1>7. free \in Nat /\ free <= t.nfree + first - t.head
  <2>1. t.nfree + first - t.head \in Nat
    BY <1>5, <1>6
  <2> HIDE DEF first
  <2> QED
    BY <1>5, <2>1, MinOfTwo
<1> HIDE DEF free
<1>8. /\ t2 \in TrackType /\ t2.head = first /\ t2.nfree = free
      /\ t2.pkts = t.pkts /\ t2.written = t.written
      /\ t2.appended = t.appended /\ t2.tail = t.tail
      /\ t2.state = t.state /\ t2.pub = t.pub /\ t2.detached = t.detached
      /\ t2.keep = t.keep /\ t2.oerr = t.oerr /\ t2.blocked = t.blocked
      /\ t2.forced = t.forced /\ t2.alerts = t.alerts
  <2> HIDE DEF first, t
  <2> QED
    BY <1>1, <1>6, <1>7 DEF TrackType
<1>9. y = SetTrack(s, t2)
  BY DEF SetTrack
<1>10. x = IF found THEN y ELSE Alert(y, "limit not found")
  <2> DEFINE z == [s EXCEPT !.track.head = first, !.track.nfree =
                        Min({conf.maxFree, @ + first - t.head})]
  <2>1. z = y
    <3> HIDE DEF first
    <3>1. s = [s EXCEPT !.track = s.track]
      BY <1>1 DEF StateType
    <3> QED
      BY <1>1 DEF free, TrackType, StateType
  <2>2. x = IF found THEN z ELSE Alert(z, "limit not found")
    BY DEF FreeTo, off
  <2> HIDE DEF z, y, found
  <2> QED
    BY <2>1, <2>2
<1> HIDE DEF t2, y, first
<1>11. /\ y \in StateType /\ y.track = t2 /\ y.up = s.up
       /\ y.queue = s.queue /\ y.faults = s.faults
  BY <1>1, <1>8, <1>9, TrackFields
<1>12. Resumes(conf, t, s.up[m], m) /\ m \in Upstreams
  BY <1>1, <1>3, StateParts DEF Resuming
<1>13. ~t.forced /\ LastAcked(conf) => found
  <2>1. ~t.forced /\ LastAcked(conf) => Readable(t, s.up[m])
    BY <1>12 DEF Resumes
  <2> QED
    BY <1>4, <2>1 DEF Readable
<1> DEFINE a == x.track.alerts
<1>14. /\ x \in StateType /\ x.up = s.up /\ x.queue = s.queue
       /\ x.faults = s.faults /\ SameLog(t2, x.track)
       /\ a \subseteq t.alerts \cup {"limit not found"}
       /\ found => a = t.alerts
  <2>1. CASE found
    BY <1>8, <1>10, <1>11, <2>1 DEF SameLog
  <2>2. CASE ~found
    <3>1. x = Alert(y, "limit not found") /\ y \in StateType
      BY <1>10, <1>11, <2>2
    <3>2. /\ x \in StateType /\ SameLog(y.track, x.track)
          /\ x.up = y.up /\ x.queue = y.queue /\ x.faults = y.faults
          /\ x.track.alerts = y.track.alerts \cup {"limit not found"}
      <4>1. "limit not found" \in AlertNames
        BY DEF AlertNames
      <4> QED
        BY ONLY <3>1, <4>1, AlertFields
    <3>3. t2.alerts = t.alerts
      BY <1>8
    <3> QED
      BY <1>11, <2>2, <3>2, <3>3
  <2> QED
    BY <2>1, <2>2
<1> DEFINE t3 == x.track
<1>15. /\ t3.pkts = t.pkts /\ t3.written = t.written
       /\ t3.appended = t.appended /\ t3.head = first /\ t3.tail = t.tail
       /\ t3.nfree = free /\ t3.state = t.state /\ t3.pub = t.pub
       /\ t3.detached = t.detached /\ t3.keep = t.keep /\ t3.oerr = t.oerr
       /\ t3.blocked = t.blocked /\ t3.forced = t.forced
  BY <1>8, <1>14 DEF SameLog
<1> HIDE DEF t3, t, found
<1>16. LogOK(t3)
  <2>1. LogOK(t) /\ t3.appended <= t3.written
    BY <1>1, <1>15 DEF LogOK
  <2> QED
    BY <1>15, <2>1, LogOf
<1>17. MemoryOK(conf, t3, x.queue)
  <2>1. t.tail # -1 /\ Fits(t) /\ t.tail - t.head + 1 + t.nfree
                                    <= conf.memLimit
    BY <1>1, <1>5 DEF MemoryOK
  <2>2. t.tail - first + 1 + free <= conf.memLimit
    <3> DEFINE a1 == t.tail
               a2 == t.head
               a3 == t.nfree
               lim == conf.memLimit
    <3>1. /\ a1 \in Nat /\ a2 \in Nat /\ a3 \in Nat /\ lim \in Nat
          /\ first \in Nat /\ free \in Nat
          /\ free <= a3 + first - a2 /\ a1 - a2 + 1 + a3 <= lim
      BY <1>5, <1>6, <1>7, <2>1
    <3>2. a1 - first + 1 + free <= lim
      <4> HIDE DEF a1, a2, a3, lim
      <4> QED
        BY ONLY <3>1
    <3> QED
      BY <3>2
  <2>3. first <= t.tail
    BY <1>5, <1>6
  <2> QED
    BY <1>15, <2>1, <2>2, <2>3 DEF MemoryOK, Fits
<1>18. HeadersOK(t3)
  <2>1. "open header sent" \notin t.alerts
            => "open header sent" \notin t3.alerts
    BY <1>14 DEF t3
  <2> QED
    BY <1>1, <1>15, <2>1 DEF HeadersOK
<1>19. AlertsOK(conf, t3)
  <2>1. "released buffer" \notin t.alerts
            => "released buffer" \notin t3.alerts
    BY <1>14 DEF t3
  <2>2. Calm(conf) => t3.alerts = t.alerts
    BY <1>1, <1>13, <1>14 DEF t3, AlertsOK, Calm
  <2> QED
    BY <1>1, <1>15, <2>1, <2>2 DEF AlertsOK
<1>20. UpsOK(t3, x.up, x.queue)
  <2>1. t.appended <= t3.appended
    BY <1>1, <1>15 DEF TrackType
  <2>2. t3 \in TrackType
    BY <1>14, StateParts DEF t3
  <2>3. s.up \in [Upstreams -> UpType] /\ s.queue \in Seq(Upstreams)
    BY <1>1, StateParts
  <2> QED
    BY <1>1, <1>14, <1>15, <2>1, <2>2, <2>3, UpsLater
<1>21. Resuming(conf, x)
  <2> SUFFICES ASSUME NEW v \in ToSet(s.queue)
               PROVE  Resumes(conf, t3, s.up[v], v)
    BY <1>14 DEF Resuming, t3
  <2>1. Resumes(conf, t, s.up[v], v)
    BY <1>1 DEF Resuming, t
  <2>2. ASSUME ~t.forced, LastAcked(conf) PROVE Readable(t3, s.up[v])
    <3>1. first = NodeOf(off)
      BY <1>13, <2>2 DEF first
    <3>2. Readable(t, s.up[v]) /\ FirstOf(t, s.up[m].acked)
      BY <1>12, <2>1, <2>2 DEF Resumes
    <3> DEFINE j == s.up[m].acked
               k == s.up[v].acked
    <3>3. j \in 0 .. Len(t.pkts) /\ k \in 0 .. Len(t.pkts)
      BY <1>2, <1>3 DEF t
    <3>4. Frames(t, j) <= Frames(t, k)
      BY <1>3 DEF FrameId, t
    <3> HIDE DEF j, k
    <3>5. j <= k
      <4> SUFFICES ASSUME k < j PROVE FALSE
        BY <1>1, <3>3, LogNumbers
      <4>1. j > 0 /\ j - 1 \in 0 .. Len(t.pkts) /\ k <= j - 1
        BY <1>1, <3>3, LogNumbers
      <4>2. Frames(t, j - 1) < Frames(t, j)
        BY <3>2, <4>1 DEF FirstOf, j
      <4>3. Frames(t, k) <= Frames(t, j - 1)
        BY <1>1, <3>3, <4>1, LogOrder
      <4>4. /\ Frames(t, k) \in Nat /\ Frames(t, j) \in Nat
            /\ Frames(t, j - 1) \in Nat
        BY <1>1, <3>3, <4>1, LogNumbers
      <4> QED
        BY <3>4, <4>2, <4>3, <4>4
    <3>6. off <= End(t, k) /\ End(t, k) \in Nat
      BY <1>1, <1>4, <3>3, <3>5, LogOrder, LogNumbers DEF j
    <3>7. NodeOf(off) <= NodeOf(End(t, k)) /\ NodeOf(End(t, k)) \in Nat
      BY <1>4, <3>6, NodeOrder
    <3>8. NodeOf(End(t, k)) \in t.head .. t.tail
      BY <3>2 DEF Readable, k
    <3>9. NodeOf(End(t, k)) \in first .. t.tail
      BY <1>5, <1>6, <3>1, <3>7, <3>8
    <3> QED
      BY <1>15, <3>9 DEF Readable, k, End
  <2> QED
    BY <1>15, <2>1, <2>2 DEF Resumes, End, Frames, FirstOf
<1>22. Sound(conf, x)
  BY <1>1, <1>14, <1>16, <1>17, <1>18, <1>19, <1>20 DEF Sound, t3
<1>23. Later(t, t3, 0)
  BY <1>1, <1>15 DEF Later, TrackType
<1>24. Steps(s, x, 0)
  BY <1>1, <1>14, <1>23, TrackSteps DEF t, t3
<1> QED
  BY <1>21, <1>22, <1>24 DEF Good

-----------------------------------------------------------------------------
(* The watermark *)

\* One turn leaves what is good.
LEMMA WatermarkTurnGood ==
    ASSUME NEW s, Good(conf, s), ~Calm(conf), NEW left \in Int,
           NEW p \in WatermarkTurn(s, left)
    PROVE  \E x \in StateType : \E l \in Int :
                p = <<x, l>> /\ Good(conf, x) /\ Steps(s, x, 0)
<1> DEFINE u == MinAcked(s)
           missing == (conf.lowMark - MemLeft(s.track)) * BufSize
           z == [s EXCEPT !.n = 0]
<1>1. /\ s \in StateType /\ conf \in Confs /\ s.faults <= conf.maxFaults
      /\ s.track \in TrackType /\ UpsOK(s.track, s.up, s.queue)
  BY StateParts DEF Sound, Good
<1>2. CASE missing <= 0 \/ s.queue = << >>
  <2>1. p = <<s, -1>>
    BY <1>2 DEF WatermarkTurn
  <2> QED
    BY <1>1, <2>1, StepsNothing
<1>3. CASE ~(missing <= 0 \/ s.queue = << >>)
  <2>1. PICK a \in AutoAckForce(z, u, missing) :
            p = IF a.rc = "error" \/ a.n = 0 THEN <<a, -1>>
                ELSE <<FreeTo(a, MinReader(a)), left>>
    BY <1>3 DEF WatermarkTurn
  <2>2. /\ z \in StateType /\ z.track = s.track /\ z.up = s.up
        /\ z.queue = s.queue /\ z.faults = s.faults
    BY <1>1, CountFields
  <2> HIDE DEF u, missing, z
  <2>3. Good(conf, z)
    BY <1>1, <2>2, GoodSame DEF Good
  <2>4. u \in ToSet(z.queue)
    <3>1. \A v \in ToSet(s.queue) : s.up[v].acked <= Len(s.track.pkts)
      BY <1>1 DEF UpsOK, UpOK
    <3> QED
      BY <1>1, <1>3, <2>2, <3>1, MinAckedLeast DEF u
  <2>5. Good(conf, a) /\ Steps(z, a, 0)
    BY <2>1, <2>3, <2>4, AutoAckForceGood
  <2>6. a \in StateType /\ Steps(s, a, 0)
    BY <2>2, <2>5 DEF Good, Sound, Steps
  <2>7. CASE a.rc = "error" \/ a.n = 0
    BY <2>1, <2>5, <2>6, <2>7
  <2>8. CASE ~(a.rc = "error" \/ a.n = 0)
    <3> DEFINE y == FreeTo(a, MinReader(a))
    <3>1. a.queue # << >>
      BY <1>3, <2>6 DEF Steps
    <3>2. Good(conf, y) /\ Steps(a, y, 0)
      BY <2>5, <3>1, FreeToGood
    <3>3. p = <<y, left>>
      BY <2>1, <2>8
    <3> HIDE DEF y
    <3>4. y \in StateType /\ 0 + 0 = 0
      BY <3>2 DEF Good, Sound
    <3>5. Steps(s, y, 0)
      BY <1>1, <2>6, <3>2, <3>4, StepsTwice
    <3> QED
      BY <3>2, <3>3, <3>4, <3>5
  <2> QED
    BY <2>7, <2>8
<1> QED
  BY <1>2, <1>3

\* ... and so do all.
LEMMA MemWatermarkGood ==
    ASSUME NEW s, Good(conf, s), ~Calm(conf), NEW x \in MemWatermark(s)
    PROVE  Good(conf, x) /\ Steps(s, x, 0)
<1> DEFINE N == (Len(s.track.pkts) + 1) * Len(s.queue) + 1
           A == {<<s, 0>>}
           G == {y \in StateType : Good(conf, y) /\ Steps(s, y, 0)}
           S == SUBSET (G \X Int)
           After(X) == UNION {IF p[2] < 0 THEN {p}
                              ELSE WatermarkTurn(p[1], p[2]) : p \in X}
<1>1. s \in StateType /\ s.track \in TrackType /\ s.queue \in Seq(Upstreams)
  BY StateParts DEF Sound, Good
<1>2. N \in Nat
  <2>1. Len(s.track.pkts) \in Nat /\ Len(s.queue) \in Nat
    BY <1>1, LogNumbers
  <2> DEFINE a == Len(s.track.pkts)
             b == Len(s.queue)
  <2> HIDE DEF a, b
  <2>2. a \in Nat /\ b \in Nat
    BY <2>1 DEF a, b
  <2>3. (a + 1) * b + 1 \in Nat
    BY <2>2
  <2> QED
    BY <2>3 DEF a, b
<1>3. A \in S
  <2>1. s \in G
    BY <1>1, StepsNothing
  <2> HIDE DEF G
  <2> QED
    BY <2>1
<1>4. ASSUME NEW X \in S PROVE After(X) \in S
  <2> SUFFICES ASSUME NEW p \in X,
                      NEW r \in IF p[2] < 0 THEN {p}
                                ELSE WatermarkTurn(p[1], p[2])
               PROVE  r \in G \X Int
    BY DEF G
  <2>1. p \in G \X Int
    OBVIOUS
  <2>2. p[1] \in G /\ p[2] \in Int
    BY <2>1
  <2>3. CASE p[2] < 0
    BY <2>1, <2>3
  <2>4. CASE ~(p[2] < 0)
    <3>1. p[1] \in StateType /\ Good(conf, p[1]) /\ Steps(s, p[1], 0)
      BY <2>2
    <3>2. r \in WatermarkTurn(p[1], p[2])
      BY <2>4
    <3>3. PICK y \in StateType, l \in Int :
                r = <<y, l>> /\ Good(conf, y) /\ Steps(p[1], y, 0)
      BY <2>2, <3>1, <3>2, WatermarkTurnGood
    <3>4. Steps(s, y, 0)
      BY <1>1, <3>1, <3>3, StepsTwice, 0 + 0 = 0
    <3> QED
      BY <3>3, <3>4
  <2> QED
    BY <2>3, <2>4
<1> DEFINE T == [i \in 0 .. N |-> S]
           g == [i \in 1 .. N |-> [X \in S |-> After(X)]]
           IsRun(f) == f = [i \in 0 .. N |-> IF i = 0 THEN A
                                             ELSE After(f[i - 1])]
           c == CHOOSE f : IsRun(f)
<1> HIDE DEF N, A, S, After
<1>5. \E f : IsRun(f)
  <2>1. \A i \in 1 .. N : i - 1 \in 0 .. N /\ i \in 0 .. N
    BY <1>2
  <2>2. A \in T[0]
    BY <1>2, <1>3
  <2>3. Leads(g, T, N)
    BY <1>4, <2>1 DEF Leads
  <2>7. PICK f : RunOf(f, g, T, A, N)
    <3> HIDE DEF T, g
    <3> QED
      BY <1>2, <2>2, <2>3, RunExists
  <2>4. /\ f = [i \in 0 .. N |-> f[i]]
        /\ f[0] = A
        /\ \A i \in 1 .. N : f[i - 1] \in T[i - 1] /\ f[i] = g[i][f[i - 1]]
    BY <2>7 DEF RunOf
  <2>5. ASSUME NEW i \in 0 .. N
        PROVE  f[i] = IF i = 0 THEN A ELSE After(f[i - 1])
    <3>1. CASE i = 0
      BY <2>4, <3>1
    <3>2. CASE i # 0
      <4>1. i \in 1 .. N
        BY <1>2, <3>2
      <4>2. f[i - 1] \in S /\ f[i] = g[i][f[i - 1]]
        BY <2>1, <2>4, <4>1
      <4> QED
        BY <3>2, <4>1, <4>2
    <3> QED
      BY <3>1, <3>2
  <2>6. IsRun(f)
    BY <2>4, <2>5
  <2> QED
    BY <2>6
<1>6. IsRun(c)
  <2> HIDE DEF IsRun
  <2> QED
    BY <1>5
<1>7. MemWatermark(s) = {p[1] : p \in c[N]}
  BY DEF MemWatermark, Loop, After, N, A
<1> HIDE DEF c
<1>8. c[N] \in S
  <2>1. c[0] = A
    BY <1>2, <1>6
  <2>2. ASSUME NEW i \in 1 .. N, c[i - 1] \in S PROVE c[i] \in S
    <3>1. i \in 0 .. N /\ i # 0
      BY <1>2
    <3>2. c[i] = After(c[i - 1])
      BY <1>6, <3>1
    <3> QED
      BY <1>4, <2>2, <3>2
  <2>3. c[0] \in T[0]
    BY <1>2, <1>3, <2>1
  <2>4. \A i \in 1 .. N : c[i - 1] \in T[i - 1] => c[i] \in T[i]
    <3> SUFFICES ASSUME NEW i \in 1 .. N, c[i - 1] \in T[i - 1]
                 PROVE  c[i] \in T[i]
      OBVIOUS
    <3>1. i \in 0 .. N /\ i - 1 \in 0 .. N
      BY <1>2
    <3> QED
      BY <2>2, <3>1
  <2>5. c[N] \in T[N]
    <3> HIDE DEF T
    <3> QED
      BY <1>2, <2>3, <2>4, RunStays
  <2> QED
    BY <1>2, <2>5
<1>9. PICK p \in c[N] : x = p[1]
  BY <1>7
<1>10. p \in G \X Int
  BY <1>8 DEF S
<1>11. x \in G
  BY <1>9, <1>10
<1> QED
  BY <1>11

-----------------------------------------------------------------------------
(* Sending *)

\* More may be written and appended, in the buffers there are.
LEMMA TrackGood ==
    ASSUME NEW g, NEW s, Good(g, s), NEW x \in StateType,
           x.up = s.up, x.queue = s.queue, x.faults = s.faults,
           NEW t, NEW t2, t = s.track, t2 = x.track,
           t2.pkts = t.pkts, t2.head = t.head, t2.tail = t.tail,
           t2.nfree = t.nfree, t2.oerr = t.oerr, t2.blocked = t.blocked,
           t2.forced = t.forced, t2.alerts = t.alerts,
           t.appended <= t2.appended, t2.appended <= t2.written,
           t2.tail # -1 => Fits(t2)
    PROVE  Good(g, x)
<1>1. /\ s \in StateType /\ t \in TrackType /\ t2 \in TrackType
      /\ s.up \in [Upstreams -> UpType] /\ s.queue \in Seq(Upstreams)
  BY StateParts DEF Good, Sound
<1>2. LogOK(t2)
  <2>1. LogOK(t)
    BY DEF Good, Sound
  <2> QED
    BY ONLY t2.pkts = t.pkts, t2.appended <= t2.written, <2>1, LogOf
<1>3. MemoryOK(g, t2, x.queue)
  <2>1. MemoryOK(g, t, s.queue)
    BY DEF Good, Sound
  <2> QED
    BY <2>1 DEF MemoryOK
<1>4. HeadersOK(t2) /\ AlertsOK(g, t2)
  BY DEF Good, Sound, HeadersOK, AlertsOK
<1>5. UpsOK(t2, x.up, x.queue)
  <2>1. UpsOK(t, s.up, s.queue)
    BY DEF Good, Sound
  <2> QED
    BY <1>1, <2>1, UpsLater
<1>6. Resuming(g, x)
  <2> SUFFICES ASSUME NEW u \in ToSet(s.queue)
               PROVE  Resumes(g, t2, s.up[u], u)
    BY DEF Resuming
  <2>1. Resumes(g, t, s.up[u], u)
    BY DEF Good, Resuming
  <2>2. End(t, s.up[u].acked) <= t.appended
            => End(t2, s.up[u].acked) <= t2.appended
    <3>1. s.up[u].acked \in 0 .. Len(t.pkts)
      <4>1. UpOK(t, s.up[u]) /\ s.up[u] \in UpType
        BY <1>1, StateParts DEF Good, Sound, UpsOK
      <4> QED
        BY <1>1, <4>1, LogNumbers DEF UpOK, UpType
    <3>2. End(t, s.up[u].acked) \in Nat /\ t.appended \in Nat
          /\ t2.appended \in Nat
      BY <1>1, <3>1, LogNumbers DEF TrackType
    <3>3. End(t2, s.up[u].acked) = End(t, s.up[u].acked)
      BY DEF End
    <3> QED
      BY <3>2, <3>3
  <2> QED
    BY <2>1, <2>2 DEF Resumes, Frames, End, Readable, FirstOf
<1> QED
  BY <1>1, <1>2, <1>3, <1>4, <1>5, <1>6 DEF Good, Sound

\* Nothing of that depends on what is not part of the log.
LEMMA SameLogGood ==
    ASSUME NEW g, NEW s, Good(g, s), NEW x \in StateType,
           x.up = s.up, x.queue = s.queue, x.faults = s.faults,
           SameLog(s.track, x.track), x.track.alerts = s.track.alerts
    PROVE  /\ Good(g, x) /\ Steps(s, x, 0)
           /\ \A u \in Upstreams : Touches(s, x, u)
<1>1. s \in StateType /\ s.track \in TrackType
  BY StateParts DEF Good, Sound
<1>2. Good(g, x)
  <2> DEFINE t == s.track
             t2 == x.track
  <2>1. /\ t2.pkts = t.pkts /\ t2.head = t.head /\ t2.tail = t.tail
        /\ t2.nfree = t.nfree /\ t2.oerr = t.oerr
        /\ t2.blocked = t.blocked /\ t2.forced = t.forced
        /\ t2.alerts = t.alerts
    BY DEF SameLog
  <2>2. t.appended <= t2.appended /\ t2.appended <= t2.written
        /\ (t2.tail # -1 => Fits(t2))
    BY <1>1 DEF SameLog, Good, Sound, LogOK, MemoryOK, Fits, TrackType
  <2>3. t = s.track /\ t2 = x.track
    OBVIOUS
  <2> HIDE DEF t, t2
  <2> QED
    BY <2>1, <2>2, <2>3, TrackGood
<1>3. Later(s.track, x.track, 0)
  BY <1>1 DEF Later, SameLog, TrackType
<1>4. s.queue = << >> => x.track.head = s.track.head
  BY DEF SameLog
<1>5. Steps(s, x, 0)
  BY <1>1, <1>3, <1>4, TrackSteps
<1>6. ASSUME NEW u \in Upstreams PROVE Touches(s, x, u)
  BY <1>1, TouchNothing DEF Touches
<1> QED
  BY <1>2, <1>5, <1>6

\* The track of x is that of s but for the flags that are not part of the log.
Flags(s, x) ==
    /\ x \in StateType /\ x.up = s.up /\ x.queue = s.queue
    /\ x.faults = s.faults
    /\ SameLog(s.track, x.track) /\ x.track.alerts = s.track.alerts

\* A blame is one of them.
LEMMA BlameFlags ==
    ASSUME NEW s \in StateType, NEW u \in Upstreams
    PROVE  Flags(s, Blame(s, u))
<1> DEFINE c == IF conf.required[u] \/ Len(s.queue) = 1 THEN "other"
                ELSE "optional"
           t == [s.track EXCEPT !.cause = c]
           x == Blame(s, u)
<1>1. s.track \in TrackType
  BY StateParts
<1>2. x = s \/ x = SetTrack(s, t)
  BY DEF Blame, SetTrack
<1>3. c \in {"none", "memory", "optional", "other"}
  OBVIOUS
<1> HIDE DEF c, x
<1>4. t \in TrackType /\ SameLog(s.track, t) /\ t.alerts = s.track.alerts
  BY <1>1, <1>3 DEF TrackType, SameLog
<1> HIDE DEF t
<1>5. ASSUME x = s PROVE Flags(s, x)
  BY <1>5 DEF Flags, SameLog
<1>6. ASSUME x = SetTrack(s, t) PROVE Flags(s, x)
  BY <1>4, <1>6, TrackFields DEF Flags
<1>7. Flags(s, x)
  BY <1>2, <1>5, <1>6
<1> QED
  BY <1>7 DEF x

\* The larger of 0 and another number
LEMMA MaxZero ==
    ASSUME NEW a \in Int
    PROVE  Max({0, a}) = IF a > 0 THEN a ELSE 0
<1>1. CASE a > 0
  <2>1. \A x \in {0, a} : (\A y \in {0, a} : x >= y) <=> x = a
    BY <1>1
  <2> QED
    BY <1>1, <2>1 DEF Max
<1>2. CASE ~(a > 0)
  <2>1. \A x \in {0, a} : (\A y \in {0, a} : x >= y) <=> x = 0
    BY <1>2
  <2> QED
    BY <1>2, <2>1 DEF Max
<1> QED
  BY <1>1, <1>2

\* Nothing is sent while a header is missing, unless the owner met an error.
MaySend(t) == t.oerr \/ ~t.blocked

\* What was appended is sent.
LEMMA SentGood ==
    ASSUME NEW s, Good(conf, s), NEW u \in ToSet(s.queue),
           s.up[u].conn = "up", MaySend(s.track),
           NEW n \in 0 .. (s.up[u].pre + s.track.appended - s.up[u].sent),
           NEW x, x = Sent(s, u, n)
    PROVE  /\ Good(conf, x) /\ Touches(s, x, u)
           /\ x.up[u].acked = s.up[u].acked
           /\ x.up[u].conn = "up" /\ x.up[u].skew = s.up[u].skew
<1> DEFINE t == s.track
           z == s.up[u]
           all == z.pre + t.appended - z.sent
           sent == z.sent + Max({0, n - z.pre})
           pre == Max({0, z.pre - n})
           ready == z.ready /\ n = all
           wtimer == IF n = all THEN FALSE ELSE z.wtimer \/ n > 0
           z2 == [z EXCEPT !.pre = pre, !.sent = sent, !.ready = ready,
                           !.wtimer = wtimer]
           y == [s EXCEPT !.up[u] = z2]
<1>1. /\ s \in StateType /\ t \in TrackType /\ conf \in Confs
      /\ s.faults <= conf.maxFaults /\ u \in Upstreams /\ z \in UpType
      /\ Sound(conf, s) /\ Resuming(conf, s) /\ UpOK(t, z)
      /\ HeadersOK(t) /\ AlertsOK(conf, t)
  BY StateParts DEF Sound, Good, UpsOK
<1>2. /\ z.pre \in Nat /\ z.sent \in Nat /\ t.appended \in Nat
      /\ z.sent <= t.appended /\ z.skew \in Nat
  BY <1>1 DEF UpType, TrackType, UpOK
<1>3. n \in Nat /\ n <= z.pre + t.appended - z.sent
  BY <1>2
<1>4. /\ pre \in Nat /\ sent \in Nat /\ z.sent <= sent
      /\ sent <= t.appended
  <2>1. /\ Max({0, n - z.pre}) = IF n - z.pre > 0 THEN n - z.pre ELSE 0
        /\ Max({0, z.pre - n}) = IF z.pre - n > 0 THEN z.pre - n ELSE 0
    BY <1>2, <1>3, MaxZero
  <2> QED
    BY <1>2, <1>3, <2>1
<1>5. ready \in BOOLEAN /\ wtimer \in BOOLEAN
  BY <1>1 DEF UpType
<1>6. x = IF SendsOpen(t, sent) THEN Alert(y, "open header sent") ELSE y
  BY DEF Sent
<1>7. y = SetUp(s, u, z2)
  BY DEF SetUp
<1> HIDE DEF pre, sent, ready, wtimer, t, y
<1>8. /\ z2 \in UpType /\ z2.acked = z.acked
      /\ z2.confirmed = z.confirmed /\ z2.used = z.used
      /\ z2.conn = z.conn /\ z2.sent = sent /\ z2.skew = z.skew
  BY <1>1, <1>4, <1>5 DEF UpType
<1> HIDE DEF z2
<1>9. /\ y \in StateType /\ y.track = t
      /\ y.queue = s.queue /\ y.faults = s.faults
      /\ y.up[u] = z2 /\ \A v \in Upstreams \ {u} : y.up[v] = s.up[v]
  BY <1>1, <1>7, <1>8, UpFields DEF t
<1>10. /\ x \in StateType /\ SameLog(t, x.track)
       /\ x.queue = s.queue /\ x.faults = s.faults
       /\ x.up = y.up
       /\ \/ x.track.alerts = t.alerts
          \/ /\ SendsOpen(t, sent)
             /\ x.track.alerts = t.alerts \cup {"open header sent"}
  <2>1. CASE SendsOpen(t, sent)
    <3>1. x = Alert(y, "open header sent")
      BY <1>6, <2>1
    <3>2. y \in StateType /\ y.track = t
      BY <1>9
    <3>3. "open header sent" \in AlertNames
      BY DEF AlertNames
    <3>4. /\ x \in StateType /\ SameLog(y.track, x.track)
          /\ x.up = y.up /\ x.queue = y.queue /\ x.faults = y.faults
          /\ x.track.alerts = y.track.alerts \cup {"open header sent"}
      BY ONLY <3>1, <3>2, <3>3, AlertFields
    <3> QED
      BY <1>9, <2>1, <3>4
  <2>2. CASE ~SendsOpen(t, sent)
    BY <1>6, <1>9, <2>2 DEF SameLog
  <2> QED
    BY <2>1, <2>2
<1>11. SendsOpen(t, sent) => t.oerr
  BY <1>1 DEF SendsOpen, HeadersOK, MaySend, t
<1>12. x.track.pkts = t.pkts /\ x.track.oerr = t.oerr
       /\ x.track.blocked = t.blocked /\ x.track.forced = t.forced
       /\ x.track.appended = t.appended
  BY <1>10 DEF SameLog
<1>13. HeadersOK(x.track)
  BY <1>1, <1>10, <1>11, <1>12 DEF HeadersOK
<1>14. AlertsOK(conf, x.track)
  BY <1>1, <1>10, <1>12 DEF AlertsOK
<1>15. UpOK(x.track, x.up[u])
  <2>1. ASSUME z.conn = "up"
        PROVE  sent <= t.appended /\ End(t, z.acked) <= sent + z.skew
    <3>1. End(t, z.acked) <= z.sent + z.skew
      BY <1>1, <2>1 DEF UpOK
    <3>2. End(t, z.acked) \in Nat
      <4>1. z.acked \in 0 .. Len(t.pkts)
        BY <1>1, LogNumbers DEF UpOK, UpType
      <4> QED
        BY <1>1, <4>1, LogNumbers
    <3> QED
      BY <1>2, <1>4, <3>1, <3>2
  <2>2. UpOK(t, z2)
    BY <1>1, <1>8, <2>1 DEF UpOK
  <2> QED
    BY <1>9, <1>10, <1>12, <2>2 DEF UpOK, End
<1>16. Touches(s, x, u)
  <2>1. x.up[u] = z2 /\ \A v \in Upstreams \ {u} : x.up[v] = s.up[v]
    BY <1>9, <1>10
  <2>2. z.acked <= z2.acked
    BY <1>1, <1>8 DEF UpType
  <2>3. SameLog(s.track, x.track)
    BY <1>10 DEF t
  <2> QED
    BY <1>8, <1>10, <2>1, <2>2, <2>3 DEF Touches
<1>17. Sound(conf, x)
  BY <1>1, <1>10, <1>13, <1>14, <1>15, <1>16, TouchSound
<1>18. x.up[u].acked = s.up[u].acked /\ x.up[u].conn = "up"
       /\ x.up[u].skew = s.up[u].skew
  BY <1>8, <1>9, <1>10
<1>19. Resuming(conf, x)
  BY <1>1, <1>16, <1>18, TouchResumes
<1> QED
  BY <1>16, <1>17, <1>18, <1>19 DEF Good

\* A chain is sent in part, and acked if that is what the configuration says.
LEMMA SendChainGood ==
    ASSUME NEW s, Good(conf, s), NEW u \in ToSet(s.queue),
           MaySend(s.track), NEW x \in SendChain(s, u)
    PROVE  Good(conf, x) /\ Touches(s, x, u)
<1> DEFINE all == s.up[u].pre + s.track.appended - s.up[u].sent
<1>1. /\ s \in StateType /\ conf \in Confs /\ u \in Upstreams
      /\ s.faults <= conf.maxFaults /\ Sound(conf, s) /\ Resuming(conf, s)
      /\ s.up[u] \in UpType
  BY StateParts DEF Sound, Good
<1>2. ASSUME NEW y, Quiet(s, y, u), y.faults <= conf.maxFaults
      PROVE  Good(conf, y) /\ Touches(s, y, u)
  BY <1>1, <1>2, QuietGood DEF Good
<1>3. CASE x \in {s, Rc(s, "error")}
  <2>1. /\ x \in StateType /\ x.track = s.track /\ x.up = s.up
        /\ x.queue = s.queue /\ x.faults = s.faults
    BY <1>1, <1>3, RcFields
  <2>2. Quiet(s, x, u)
    BY <1>1, <2>1 DEF Quiet
  <2> QED
    BY <1>1, <1>2, <2>1, <2>2
<1>4. CASE \E f \in Fault(s) :
                x = Rc([f EXCEPT !.up[u].broken = TRUE], "error")
  <2>1. PICK f \in Fault(s) :
                x = Rc([f EXCEPT !.up[u].broken = TRUE], "error")
    BY <1>4
  <2>2. /\ f \in StateType /\ f.track = s.track /\ f.up = s.up
        /\ f.queue = s.queue /\ f.faults <= conf.maxFaults
    BY <1>1, FaultFields
  <2> DEFINE z == [f.up[u] EXCEPT !.broken = TRUE]
             y == SetUp(f, u, z)
  <2>3. x = Rc(y, "error") /\ y = SetUp(f, u, z)
    BY <2>1 DEF SetUp
  <2>4. /\ z \in UpType /\ z.acked = s.up[u].acked
        /\ z.confirmed = s.up[u].confirmed /\ z.used = s.up[u].used
        /\ z.conn = s.up[u].conn /\ z.sent = s.up[u].sent
        /\ z.skew = s.up[u].skew
    BY <1>1, <2>2 DEF UpType
  <2> HIDE DEF y, z
  <2>5. /\ y \in StateType /\ y.track = f.track
        /\ y.queue = f.queue /\ y.faults = f.faults
        /\ y.up[u] = z /\ \A v \in Upstreams \ {u} : y.up[v] = f.up[v]
    <3>1. /\ f \in StateType /\ z \in UpType /\ y = SetUp(f, u, z)
          /\ u \in Upstreams
      BY <1>1, <2>2, <2>3, <2>4
    <3> QED
      BY ONLY <3>1, UpFields
  <2>6. /\ x \in StateType /\ x.track = y.track /\ x.up = y.up
        /\ x.queue = y.queue /\ x.faults = y.faults
    BY <2>3, <2>5, RcFields
  <2>7. Quiet(s, x, u)
    BY <2>2, <2>4, <2>5, <2>6 DEF Quiet
  <2> QED
    BY <1>2, <2>2, <2>5, <2>6, <2>7
<1>5. CASE /\ s.up[u].conn = "up"
           /\ \E n \in 0 .. all :
                x \in IF conf.resume[u] = "last_acked" THEN {Sent(s, u, n)}
                      ELSE AutoAck(Sent(s, u, n), u)
  <2>1. PICK n \in 0 .. all :
            x \in IF conf.resume[u] = "last_acked" THEN {Sent(s, u, n)}
                  ELSE AutoAck(Sent(s, u, n), u)
    BY <1>5
  <2> DEFINE y == Sent(s, u, n)
  <2>2. /\ Good(conf, y) /\ Touches(s, y, u)
        /\ y.up[u].acked = s.up[u].acked
        /\ y.up[u].conn = "up" /\ y.up[u].skew = s.up[u].skew
    BY <1>5, SentGood
  <2> HIDE DEF y
  <2>3. CASE conf.resume[u] = "last_acked"
    BY <2>1, <2>2, <2>3 DEF y
  <2>4. CASE conf.resume[u] # "last_acked"
    <3>1. x \in AckSome(y, u, Infinite)
      BY <2>1, <2>4 DEF AutoAck, y
    <3>2. /\ Sound(conf, y) /\ ~Calm(conf) /\ ~LastAcked(conf)
          /\ u \in ToSet(y.queue) /\ y \in StateType
      BY <1>1, <2>2, <2>4, ResumeKinds DEF Good, Touches
    <3>3. /\ Sound(conf, x) /\ Touches(y, x, u)
          /\ x.up[u].conn = y.up[u].conn
          /\ \/ x.up[u].acked = y.up[u].acked
             \/ End(y.track, x.up[u].acked) <= AckLimit(y.track, y.up[u])
      BY <3>1, <3>2, AckSomeSound
    <3>4. Resumes(conf, x.track, x.up[u], u)
      <4>1. Resumes(conf, y.track, y.up[u], u)
        BY <2>2, <3>2 DEF Good, Resuming
      <4>2. /\ x.track.pkts = y.track.pkts
            /\ x.track.appended = y.track.appended
            /\ x.track.forced = y.track.forced
            /\ x.up[u].skew = y.up[u].skew
        BY <2>2, <3>3 DEF Touches, SameLog
      <4>3. ASSUME ~y.track.forced, NoneWritten(conf)
            PROVE  End(x.track, x.up[u].acked) <= x.track.appended
                   /\ x.up[u].skew = 0
        <5>1. y.up[u].skew = 0 /\ End(y.track, y.up[u].acked)
                                    <= y.track.appended
          BY <2>2, <4>1, <4>3 DEF Resumes
        <5>2. CASE x.up[u].acked = y.up[u].acked
          BY <4>2, <5>1, <5>2 DEF End
        <5>3. CASE End(y.track, x.up[u].acked) <= AckLimit(y.track, y.up[u])
          <6>1. End(y.track, x.up[u].acked)
                    <= y.up[u].sent + y.up[u].skew - y.up[u].pre
            BY <2>2, <5>3 DEF AckLimit
          <6>2. y.up[u].sent <= y.track.appended
            BY <2>2, <3>2 DEF Sound, UpsOK, UpOK
          <6>3. /\ y.up[u].sent \in Nat /\ y.up[u].pre \in Nat
                /\ y.track.appended \in Nat
            BY <1>1, <3>2, StateParts DEF UpType, TrackType
          <6>4. End(y.track, x.up[u].acked) \in Nat
            <7>1. x.up[u] \in UpType /\ UpOK(x.track, x.up[u])
              BY <1>1, <3>2, <3>3, StateParts
                 DEF Sound, UpsOK, Touches
            <7>2. x.up[u].acked \in 0 .. Len(y.track.pkts)
              BY <3>2, <4>2, <7>1, StateParts, LogNumbers DEF UpType, UpOK
            <7> QED
              BY <3>2, <7>2, StateParts, LogNumbers
          <6>5. End(x.track, x.up[u].acked) = End(y.track, x.up[u].acked)
            BY <4>2 DEF End
          <6> QED
            BY <4>2, <5>1, <6>1, <6>2, <6>3, <6>4, <6>5
        <5> QED
          BY <3>3, <5>2, <5>3
      <4> QED
        BY <2>4, <3>2, <4>2, <4>3 DEF Resumes
    <3>5. Resuming(conf, x)
      BY <2>2, <3>2, <3>3, <3>4, TouchResumes DEF Good
    <3>6. Touches(s, x, u)
      BY <1>1, <2>2, <3>3, TouchTwice
    <3> QED
      BY <3>3, <3>5, <3>6 DEF Good
  <2> QED
    BY <2>3, <2>4
<1>6. s.up[u].conn = "up" => 0 \in 0 .. all
  <2>1. /\ s.up[u].pre \in Nat /\ s.track.appended \in Nat
        /\ s.up[u].sent \in Nat
    BY <1>1, StateParts DEF UpType, TrackType
  <2>2. s.up[u].conn = "up" => s.up[u].sent <= s.track.appended
    BY <1>1 DEF Sound, UpsOK, UpOK
  <2> QED
    BY <2>1, <2>2
<1> QED
  <2> HIDE DEF all
  <2>1. s.up[u].conn = "up" =>
          \A n \in IF s.up[u].ready THEN 0 .. all ELSE {0} : n \in 0 .. all
    BY <1>6
  <2>2. \/ x \in {s, Rc(s, "error")}
        \/ \E f \in Fault(s) :
                x = Rc([f EXCEPT !.up[u].broken = TRUE], "error")
        \/ /\ s.up[u].conn = "up"
           /\ \E n \in IF s.up[u].ready THEN 0 .. all ELSE {0} :
                x \in IF conf.resume[u] = "last_acked" THEN {Sent(s, u, n)}
                      ELSE AutoAck(Sent(s, u, n), u)
    <3>1. CASE s.up[u].conn # "up" \/ s.up[u].broken
      BY <3>1 DEF SendChain
    <3>2. CASE s.up[u].conn = "up" /\ ~s.up[u].broken
      BY <3>2 DEF SendChain, all
    <3> QED
      BY <3>1, <3>2
  <2> QED
    BY <1>3, <1>4, <1>5, <2>1, <2>2

\* A connection that breaks is replaced.
LEMMA SendGood ==
    ASSUME NEW s, Good(conf, s), NEW u \in ToSet(s.queue),
           MaySend(s.track), NEW x \in Send(s, u)
    PROVE  Good(conf, x) /\ Touches(s, x, u)
<1>1. PICK y \in SendChain(s, u) :
        x \in IF y.rc # "error" THEN {y}
              ELSE {IF z.rc = "ok" THEN z ELSE Rc(Blame(z, u), "error")
                    : z \in Republish(Rc(y, "ok"), u)}
  BY DEF Send
<1>2. Good(conf, y) /\ Touches(s, y, u)
  BY SendChainGood
<1>3. /\ s \in StateType /\ y \in StateType /\ u \in Upstreams
      /\ y.faults <= conf.maxFaults
  BY <1>2, StateParts DEF Good, Sound
<1>4. CASE y.rc # "error"
  BY <1>1, <1>2, <1>4
<1>5. CASE y.rc = "error"
  <2> DEFINE r == Rc(y, "ok")
  <2>1. PICK z \in Republish(r, u) :
            x = IF z.rc = "ok" THEN z ELSE Rc(Blame(z, u), "error")
    BY <1>1, <1>5
  <2>2. /\ r \in StateType /\ r.track = y.track /\ r.up = y.up
        /\ r.queue = y.queue /\ r.faults = y.faults
    BY <1>3, RcFields
  <2> HIDE DEF r
  <2>3. Good(conf, r) /\ Touches(s, r, u) /\ u \in ToSet(r.queue)
    BY <1>2, <1>3, <2>2, GoodSame DEF Good, Touches
  <2>4. Good(conf, z) /\ Touches(r, z, u)
    BY <2>1, <2>3, RepublishGood DEF Good
  <2>5. Touches(s, z, u) /\ z \in StateType
    BY <1>3, <2>3, <2>4, TouchTwice DEF Touches
  <2>6. CASE z.rc = "ok"
    BY <2>1, <2>4, <2>5, <2>6
  <2>7. CASE z.rc # "ok"
    <3> DEFINE b == Blame(z, u)
    <3>1. Flags(z, b)
      BY <1>3, <2>5, BlameFlags
    <3>2. x = Rc(b, "error")
      BY <2>1, <2>7
    <3> HIDE DEF b
    <3>3. b \in StateType
      BY <3>1 DEF Flags
    <3>4. /\ x \in StateType /\ x.track = b.track /\ x.up = b.up
          /\ x.queue = b.queue /\ x.faults = b.faults
      BY <3>2, <3>3, RcFields
    <3>5. Good(conf, x) /\ Touches(z, x, u)
      BY <1>3, <2>4, <3>1, <3>4, SameLogGood DEF Flags
    <3> QED
      BY <1>3, <2>5, <3>5, TouchTwice
  <2> QED
    BY <2>6, <2>7
<1> QED
  BY <1>4, <1>5

\* An upstream without a connection gets one when there is more to send.
LEMMA AppendBufferGood ==
    ASSUME NEW s, Good(conf, s), NEW u \in ToSet(s.queue),
           NEW x \in AppendBuffer(s, u)
    PROVE  Good(conf, x) /\ Touches(s, x, u)
<1>1. /\ s \in StateType /\ conf \in Confs /\ u \in Upstreams
      /\ s.faults <= conf.maxFaults
  BY StateParts DEF Good, Sound
<1>2. Touches(s, s, u)
  BY <1>1, TouchNothing
<1>3. CASE s.up[u].conn = "up"
  BY <1>2, <1>3 DEF AppendBuffer
<1>4. CASE s.up[u].conn # "up"
  <2> DEFINE F(y) == IF y.up[u].conn = "none" /\ ~y.up[u].call
                        /\ ~y.up[u].timer
                     THEN RepublishSend(y, u) ELSE {y}
             S == IF conf.resume[u] = "last_written" THEN AutoAck(s, u)
                  ELSE {s}
  <2>1. PICK z \in Then(S, F) : x = IF z.rc = "error" THEN Blame(z, u) ELSE z
    BY <1>4 DEF AppendBuffer
  <2> HIDE DEF F, S
  <2>2. PICK y \in S : z \in IF y.rc = "error" THEN {y} ELSE F(y)
    BY <2>1 DEF Then
  <2>3. Good(conf, y) /\ Touches(s, y, u)
    <3>1. CASE conf.resume[u] = "last_written"
      <4>1. y \in AckSome(s, u, Infinite) /\ ~Calm(conf) /\ Sound(conf, s)
        BY <1>1, <2>2, <3>1, ResumeKinds DEF AutoAck, S, Good
      <4>2. Sound(conf, y) /\ Touches(s, y, u)
        BY <4>1, AckSomeSound
      <4>3. Resumes(conf, y.track, y.up[u], u)
        BY <1>1, <3>1, WrittenResumes
      <4> QED
        BY <1>1, <4>2, <4>3, TouchResumes DEF Good
    <3>2. CASE conf.resume[u] # "last_written"
      BY <1>2, <2>2, <3>2 DEF S
    <3> QED
      BY <3>1, <3>2
  <2>4. Good(conf, z) /\ Touches(s, z, u)
    <3>1. CASE z = y
      BY <2>3, <3>1
    <3>2. CASE z \in RepublishSend(y, u)
      <4>1. y \in StateType /\ y.faults <= conf.maxFaults
            /\ u \in ToSet(y.queue) /\ Sound(conf, y) /\ Resuming(conf, y)
        BY <2>3 DEF Good, Sound, Touches
      <4>2. Quiet(y, z, u) /\ z.faults <= conf.maxFaults
        BY <1>1, <3>2, <4>1, RepublishSendQuiet
      <4>3. Good(conf, z) /\ Touches(y, z, u)
        BY <4>1, <4>2, QuietGood DEF Good
      <4> QED
        BY <1>1, <2>3, <4>3, TouchTwice
    <3> QED
      BY <2>2, <3>1, <3>2 DEF F
  <2>5. CASE x = z
    BY <2>4, <2>5
  <2>6. CASE x = Blame(z, u)
    <3>1. z \in StateType
      BY <2>4 DEF Touches
    <3>2. Flags(z, x)
      BY <1>1, <2>6, <3>1, BlameFlags
    <3>3. Good(conf, x) /\ Touches(z, x, u)
      BY <1>1, <2>4, <3>2, SameLogGood DEF Flags
    <3> QED
      BY <1>1, <2>4, <3>3, TouchTwice
  <2> QED
    BY <2>1, <2>5, <2>6
<1> QED
  BY <1>3, <1>4

\* Every upstream of the list is sent what was appended.
LEMMA SendSweepGood ==
    ASSUME NEW s, Good(conf, s), MaySend(s.track),
            NEW x \in Sweep(s, Send)
    PROVE  Good(conf, x) /\ Steps(s, x, 0)
<1> DEFINE N == Len(s.queue)
           A == {Rc(s, "ok")}
           G == {y \in StateType : Good(conf, y) /\ Steps(s, y, 0)}
           S == SUBSET G
           After(i, X) == UNION {IF y.rc = "error" THEN {y}
                                 ELSE Send(y, s.queue[i]) : y \in X}
<1>1. s \in StateType /\ s.queue \in Seq(Upstreams)
      /\ s.faults <= conf.maxFaults
  BY StateParts DEF Sound, Good
<1>2. N \in Nat
  BY <1>1
<1>3. A \in S
  <2> DEFINE r == Rc(s, "ok")
  <2>1. /\ r \in StateType /\ r.track = s.track /\ r.up = s.up
        /\ r.queue = s.queue /\ r.faults = s.faults
    BY <1>1, RcFields
  <2> HIDE DEF r
  <2>2. Good(conf, r)
    BY <1>1, <2>1, GoodSame DEF Good
  <2>3. Steps(s, r, 0)
    BY <1>1, <2>1, StepsNothing DEF Steps
  <2>4. r \in G
    BY <2>1, <2>2, <2>3
  <2> HIDE DEF G
  <2> QED
    BY <2>4 DEF r
<1>4. ASSUME NEW i \in 1 .. N, NEW X \in S PROVE After(i, X) \in S
  <2> SUFFICES ASSUME NEW y \in X,
                      NEW r \in IF y.rc = "error" THEN {y}
                                ELSE Send(y, s.queue[i])
               PROVE  r \in G
    <3> HIDE DEF G
    <3> QED
      OBVIOUS
  <2>1. y \in StateType /\ Good(conf, y) /\ Steps(s, y, 0)
    OBVIOUS
  <2>2. CASE y.rc = "error"
    BY <2>1, <2>2
  <2>3. CASE y.rc # "error"
    <3>1. r \in Send(y, s.queue[i])
      BY <2>3
    <3>2. s.queue[i] \in ToSet(y.queue) /\ s.queue[i] \in Upstreams
      BY <1>1, <2>1 DEF Steps, ToSet
    <3>3. MaySend(y.track)
      BY <2>1 DEF Steps, Later, MaySend
    <3>4. Good(conf, r) /\ Touches(y, r, s.queue[i])
      BY <2>1, <3>1, <3>2, <3>3, SendGood
    <3>5. Steps(y, r, 0) /\ r \in StateType /\ 0 + 0 = 0
      BY <2>1, <3>2, <3>4, TouchSteps DEF Touches
    <3>6. Steps(s, r, 0)
      BY <1>1, <2>1, <3>5, StepsTwice
    <3> QED
      BY <3>4, <3>5, <3>6
  <2> QED
    BY <2>2, <2>3
<1> DEFINE T == [i \in 0 .. N |-> S]
           g == [i \in 1 .. N |-> [X \in S |-> After(i, X)]]
           IsRun(f) == f = [i \in 0 .. N |-> IF i = 0 THEN A
                                             ELSE After(i, f[i - 1])]
           c == CHOOSE f : IsRun(f)
<1> HIDE DEF N, A, S, After
<1>5. \E f : IsRun(f)
  <2>1. \A i \in 1 .. N : i - 1 \in 0 .. N /\ i \in 0 .. N
    BY <1>2
  <2>2. A \in T[0]
    BY <1>2, <1>3
  <2>3. Leads(g, T, N)
    BY <1>4, <2>1 DEF Leads
  <2>4. PICK f : RunOf(f, g, T, A, N)
    <3> HIDE DEF T, g
    <3> QED
      BY <1>2, <2>2, <2>3, RunExists
  <2>5. /\ f = [i \in 0 .. N |-> f[i]]
        /\ f[0] = A
        /\ \A i \in 1 .. N : f[i - 1] \in T[i - 1] /\ f[i] = g[i][f[i - 1]]
    BY <2>4 DEF RunOf
  <2>6. ASSUME NEW i \in 0 .. N
        PROVE  f[i] = IF i = 0 THEN A ELSE After(i, f[i - 1])
    <3>1. CASE i = 0
      BY <2>5, <3>1
    <3>2. CASE i # 0
      <4>1. i \in 1 .. N
        BY <1>2, <3>2
      <4>2. f[i - 1] \in S /\ f[i] = g[i][f[i - 1]]
        BY <2>1, <2>5, <4>1
      <4> QED
        BY <3>2, <4>1, <4>2
    <3> QED
      BY <3>1, <3>2
  <2> QED
    BY <2>5, <2>6
<1>6. IsRun(c)
  <2> HIDE DEF IsRun
  <2> QED
    BY <1>5
<1>7. Sweep(s, Send) = c[N]
  BY DEF Sweep, Then, After, N, A
<1> HIDE DEF c
<1>8. c[N] \in S
  <2>1. c[0] = A
    BY <1>2, <1>6
  <2>2. ASSUME NEW i \in 1 .. N, c[i - 1] \in S PROVE c[i] \in S
    <3>1. i \in 0 .. N /\ i # 0
      BY <1>2
    <3>2. c[i] = After(i, c[i - 1])
      BY <1>6, <3>1
    <3> QED
      BY <1>4, <2>2, <3>2
  <2>3. c[0] \in T[0]
    BY <1>2, <1>3, <2>1
  <2>4. \A i \in 1 .. N : c[i - 1] \in T[i - 1] => c[i] \in T[i]
    <3> SUFFICES ASSUME NEW i \in 1 .. N, c[i - 1] \in T[i - 1]
                 PROVE  c[i] \in T[i]
      OBVIOUS
    <3>1. i \in 0 .. N /\ i - 1 \in 0 .. N
      BY <1>2
    <3> QED
      BY <2>2, <3>1
  <2>5. c[N] \in T[N]
    <3> HIDE DEF T
    <3> QED
      BY <1>2, <2>3, <2>4, RunStays
  <2> QED
    BY <1>2, <2>5
<1> QED
  BY <1>7, <1>8 DEF S

\* Every upstream of the list gets a connection.
LEMMA AppendSweepGood ==
    ASSUME NEW s, Good(conf, s), NEW x \in Sweep(s, AppendBuffer)
    PROVE  Good(conf, x) /\ Steps(s, x, 0)
<1> DEFINE N == Len(s.queue)
           A == {Rc(s, "ok")}
           G == {y \in StateType : Good(conf, y) /\ Steps(s, y, 0)}
           S == SUBSET G
           After(i, X) == UNION {IF y.rc = "error" THEN {y}
                                 ELSE AppendBuffer(y, s.queue[i]) : y \in X}
<1>1. s \in StateType /\ s.queue \in Seq(Upstreams)
      /\ s.faults <= conf.maxFaults
  BY StateParts DEF Sound, Good
<1>2. N \in Nat
  BY <1>1
<1>3. A \in S
  <2> DEFINE r == Rc(s, "ok")
  <2>1. /\ r \in StateType /\ r.track = s.track /\ r.up = s.up
        /\ r.queue = s.queue /\ r.faults = s.faults
    BY <1>1, RcFields
  <2> HIDE DEF r
  <2>2. Good(conf, r)
    BY <1>1, <2>1, GoodSame DEF Good
  <2>3. Steps(s, r, 0)
    BY <1>1, <2>1, StepsNothing DEF Steps
  <2>4. r \in G
    BY <2>1, <2>2, <2>3
  <2> HIDE DEF G
  <2> QED
    BY <2>4 DEF r
<1>4. ASSUME NEW i \in 1 .. N, NEW X \in S PROVE After(i, X) \in S
  <2> SUFFICES ASSUME NEW y \in X,
                      NEW r \in IF y.rc = "error" THEN {y}
                                ELSE AppendBuffer(y, s.queue[i])
               PROVE  r \in G
    <3> HIDE DEF G
    <3> QED
      OBVIOUS
  <2>1. y \in StateType /\ Good(conf, y) /\ Steps(s, y, 0)
    OBVIOUS
  <2>2. CASE y.rc = "error"
    BY <2>1, <2>2
  <2>3. CASE y.rc # "error"
    <3>1. r \in AppendBuffer(y, s.queue[i])
      BY <2>3
    <3>2. s.queue[i] \in ToSet(y.queue) /\ s.queue[i] \in Upstreams
      BY <1>1, <2>1 DEF Steps, ToSet
    <3>4. Good(conf, r) /\ Touches(y, r, s.queue[i])
      BY <2>1, <3>1, <3>2, AppendBufferGood
    <3>5. Steps(y, r, 0) /\ r \in StateType /\ 0 + 0 = 0
      BY <2>1, <3>2, <3>4, TouchSteps DEF Touches
    <3>6. Steps(s, r, 0)
      BY <1>1, <2>1, <3>5, StepsTwice
    <3> QED
      BY <3>4, <3>5, <3>6
  <2> QED
    BY <2>2, <2>3
<1> DEFINE T == [i \in 0 .. N |-> S]
           g == [i \in 1 .. N |-> [X \in S |-> After(i, X)]]
           IsRun(f) == f = [i \in 0 .. N |-> IF i = 0 THEN A
                                             ELSE After(i, f[i - 1])]
           c == CHOOSE f : IsRun(f)
<1> HIDE DEF N, A, S, After
<1>5. \E f : IsRun(f)
  <2>1. \A i \in 1 .. N : i - 1 \in 0 .. N /\ i \in 0 .. N
    BY <1>2
  <2>2. A \in T[0]
    BY <1>2, <1>3
  <2>3. Leads(g, T, N)
    BY <1>4, <2>1 DEF Leads
  <2>4. PICK f : RunOf(f, g, T, A, N)
    <3> HIDE DEF T, g
    <3> QED
      BY <1>2, <2>2, <2>3, RunExists
  <2>5. /\ f = [i \in 0 .. N |-> f[i]]
        /\ f[0] = A
        /\ \A i \in 1 .. N : f[i - 1] \in T[i - 1] /\ f[i] = g[i][f[i - 1]]
    BY <2>4 DEF RunOf
  <2>6. ASSUME NEW i \in 0 .. N
        PROVE  f[i] = IF i = 0 THEN A ELSE After(i, f[i - 1])
    <3>1. CASE i = 0
      BY <2>5, <3>1
    <3>2. CASE i # 0
      <4>1. i \in 1 .. N
        BY <1>2, <3>2
      <4>2. f[i - 1] \in S /\ f[i] = g[i][f[i - 1]]
        BY <2>1, <2>5, <4>1
      <4> QED
        BY <3>2, <4>1, <4>2
    <3> QED
      BY <3>1, <3>2
  <2> QED
    BY <2>5, <2>6
<1>6. IsRun(c)
  <2> HIDE DEF IsRun
  <2> QED
    BY <1>5
<1>7. Sweep(s, AppendBuffer) = c[N]
  BY DEF Sweep, Then, After, N, A
<1> HIDE DEF c
<1>8. c[N] \in S
  <2>1. c[0] = A
    BY <1>2, <1>6
  <2>2. ASSUME NEW i \in 1 .. N, c[i - 1] \in S PROVE c[i] \in S
    <3>1. i \in 0 .. N /\ i # 0
      BY <1>2
    <3>2. c[i] = After(i, c[i - 1])
      BY <1>6, <3>1
    <3> QED
      BY <1>4, <2>2, <3>2
  <2>3. c[0] \in T[0]
    BY <1>2, <1>3, <2>1
  <2>4. \A i \in 1 .. N : c[i - 1] \in T[i - 1] => c[i] \in T[i]
    <3> SUFFICES ASSUME NEW i \in 1 .. N, c[i - 1] \in T[i - 1]
                 PROVE  c[i] \in T[i]
      OBVIOUS
    <3>1. i \in 0 .. N /\ i - 1 \in 0 .. N
      BY <1>2
    <3> QED
      BY <2>2, <3>1
  <2>5. c[N] \in T[N]
    <3> HIDE DEF T
    <3> QED
      BY <1>2, <2>3, <2>4, RunStays
  <2> QED
    BY <1>2, <2>5
<1> QED
  BY <1>7, <1>8 DEF S

\* What is pending is sent, unless sending is blocked.
LEMMA SendAllGood ==
    ASSUME NEW s, Good(conf, s), NEW x \in SendAll(s)
    PROVE  Good(conf, x) /\ Steps(s, x, 0)
<1>1. s \in StateType /\ s.track \in TrackType
  BY StateParts DEF Sound, Good
<1>2. CASE x = s
  BY <1>1, <1>2, StepsNothing
<1>3. CASE x # s
  <2> DEFINE t == [s.track EXCEPT !.pending = FALSE]
             y == SetTrack(s, t)
  <2>1. x \in Sweep(y, Send) /\ ~s.track.blocked
    BY <1>3 DEF SendAll, SetTrack
  <2>2. t \in TrackType /\ SameLog(s.track, t) /\ t.alerts = s.track.alerts
    BY <1>1 DEF TrackType, SameLog
  <2> HIDE DEF t, y
  <2>3. /\ y \in StateType /\ y.track = t /\ y.up = s.up
        /\ y.queue = s.queue /\ y.faults = s.faults
    BY <1>1, <2>2, TrackFields DEF y
  <2>4. Good(conf, y) /\ Steps(s, y, 0)
    BY <1>1, <2>2, <2>3, SameLogGood
  <2>5. MaySend(y.track)
    BY <2>1, <2>2, <2>3 DEF MaySend, SameLog
  <2>6. Good(conf, x) /\ Steps(y, x, 0)
    BY <2>1, <2>4, <2>5, SendSweepGood
  <2>7. x \in StateType /\ 0 + 0 = 0
    BY <2>6 DEF Sound, Good
  <2> QED
    BY <1>1, <2>3, <2>4, <2>6, <2>7, StepsTwice
<1> QED
  BY <1>2, <1>3

\* What was written is appended to the chains, and buffers are released.
LEMMA AppendAllGood ==
    ASSUME NEW s, Good(conf, s), NEW x \in AppendAll(s)
    PROVE  Good(conf, x) /\ Steps(s, x, 0)
<1>1. s \in StateType
  BY DEF Sound, Good
<1>2. CASE x = s
  BY <1>1, <1>2, StepsNothing
<1>3. CASE x # s
  <2>1. PICK a \in Sweep(s, AppendBuffer) :
            IF a.rc = "error" THEN x = a
            ELSE \E p \in BOOLEAN :
                 LET b == [a EXCEPT !.track.appended = a.track.written,
                                    !.track.pending = @ \/ p]
                 IN  x = IF b.queue = << >> THEN b
                         ELSE FreeTo(b, MinReader(b))
    <3> DEFINE Rest(a) ==
                LET ready == \E u \in ToSet(a.queue) : a.up[u].ready
                    b == [a EXCEPT !.track.appended = a.track.written,
                                   !.track.pending = @ \/ ready]
                IN  {IF b.queue = << >> THEN b ELSE FreeTo(b, MinReader(b))}
    <3>1. x \in UNION {IF a.rc = "error" THEN {a} ELSE Rest(a)
                       : a \in Sweep(s, AppendBuffer)}
      BY <1>3 DEF AppendAll, Then
    <3> HIDE DEF Rest
    <3>2. PICK a \in Sweep(s, AppendBuffer) :
            x \in IF a.rc = "error" THEN {a} ELSE Rest(a)
      BY <3>1
    <3>3. CASE a.rc = "error"
      BY <3>2, <3>3
    <3>4. CASE a.rc # "error"
      <4> DEFINE p == \E u \in ToSet(a.queue) : a.up[u].ready
                 b == [a EXCEPT !.track.appended = a.track.written,
                                !.track.pending = @ \/ p]
      <4>1. x \in Rest(a)
        BY <3>2, <3>4
      <4>2. x = IF b.queue = << >> THEN b ELSE FreeTo(b, MinReader(b))
        BY <4>1 DEF Rest
      <4>3. p \in BOOLEAN
        OBVIOUS
      <4> HIDE DEF p
      <4> QED
        BY <3>4, <4>2, <4>3
    <3> QED
      BY <3>3, <3>4
  <2>2. Good(conf, a) /\ Steps(s, a, 0)
    BY <2>1, AppendSweepGood
  <2>3. /\ a \in StateType /\ a.track \in TrackType
        /\ LogOK(a.track) /\ MemoryOK(conf, a.track, a.queue)
    BY <2>2, StateParts DEF Sound, Good
  <2>4. CASE a.rc = "error"
    BY <2>1, <2>2, <2>4
  <2>5. CASE a.rc # "error"
    <3>1. PICK p \in BOOLEAN :
                 LET b == [a EXCEPT !.track.appended = a.track.written,
                                    !.track.pending = @ \/ p]
                 IN  x = IF b.queue = << >> THEN b
                         ELSE FreeTo(b, MinReader(b))
      BY <2>1, <2>5
    <3> DEFINE t == [a.track EXCEPT !.appended = a.track.written,
                                    !.pending = @ \/ p]
               b == SetTrack(a, t)
    <3>2. x = IF b.queue = << >> THEN b ELSE FreeTo(b, MinReader(b))
      BY <2>3, <3>1 DEF SetTrack, StateType, TrackType
    <3>3. /\ t \in TrackType /\ t.pkts = a.track.pkts
          /\ t.head = a.track.head /\ t.tail = a.track.tail
          /\ t.nfree = a.track.nfree /\ t.oerr = a.track.oerr
          /\ t.blocked = a.track.blocked /\ t.forced = a.track.forced
          /\ t.alerts = a.track.alerts /\ t.state = a.track.state
          /\ t.pub = a.track.pub /\ t.detached = a.track.detached
          /\ t.keep = a.track.keep /\ t.written = a.track.written
          /\ t.appended = a.track.written
      BY <2>3 DEF TrackType
    <3> HIDE DEF t, b
    <3>4. /\ b \in StateType /\ b.track = t /\ b.up = a.up
          /\ b.queue = a.queue /\ b.faults = a.faults
      BY <2>3, <3>3, TrackFields DEF b
    <3>5. /\ a.track.appended <= a.track.written /\ a.track.written \in Nat
          /\ a.track.tail \in Int
      BY <2>3 DEF LogOK, TrackType
    <3>6. t.tail # -1 => Fits(t)
      BY <2>3, <3>3 DEF MemoryOK, Fits
    <3>7. Good(conf, b)
      BY <2>2, <3>3, <3>4, <3>5, <3>6, TrackGood
    <3>8. Later(a.track, b.track, 0)
      BY <3>3, <3>4, <3>5 DEF Later
    <3>9. Steps(a, b, 0)
      BY <2>3, <3>3, <3>4, <3>8, TrackSteps
    <3>10. Steps(s, b, 0)
      BY <1>1, <2>2, <2>3, <3>4, <3>9, StepsTwice, 0 + 0 = 0
    <3>11. CASE b.queue = << >>
      BY <3>2, <3>7, <3>10, <3>11
    <3>12. CASE b.queue # << >>
      <4>1. Good(conf, x) /\ Steps(b, x, 0)
        BY <3>2, <3>7, <3>12, FreeToGood
      <4>2. x \in StateType
        BY <4>1 DEF Sound, Good
      <4> QED
        BY <1>1, <3>4, <3>10, <4>1, <4>2, StepsTwice, 0 + 0 = 0
    <3> QED
      BY <3>11, <3>12
  <2> QED
    BY <2>4, <2>5
<1> QED
  BY <1>2, <1>3

-----------------------------------------------------------------------------
(* Writing *)
\* A call that writes leaves x.
Goes(s, x) == \E m \in Nat : Steps(s, x, m)
\* Two of them
LEMMA GoesTwice ==
    ASSUME NEW s \in StateType, NEW x \in StateType, NEW y \in StateType,
           Goes(s, x), Goes(x, y)
    PROVE  Goes(s, y)
<1>1. PICK m \in Nat : Steps(s, x, m)
  BY DEF Goes
<1>2. PICK n \in Nat : Steps(x, y, n)
  BY DEF Goes
<1>3. Steps(s, y, m + n) /\ m + n \in Nat
  BY <1>1, <1>2, StepsTwice
<1> QED
  BY <1>3 DEF Goes

\* A buffer is added, or there is none.
LEMMA GetBufferGood ==
    ASSUME NEW s, Good(conf, s), Fits(s.track), NEW x \in GetBuffer(s)
    PROVE  /\ Good(conf, x) /\ Goes(s, x) /\ Fits(x.track)
           /\ x.track.written = s.track.written
           /\ x.rc # "error" => x.track.tail = s.track.tail + 1
<1> DEFINE t == s.track
           t2 == x.track
<1>1. /\ s \in StateType /\ t \in TrackType /\ conf \in Confs
      /\ s.faults <= conf.maxFaults /\ MemoryOK(conf, t, s.queue)
      /\ t.tail \in Int /\ t.head \in Nat /\ t.nfree \in Nat
      /\ t.written \in Nat
  <2>1. s \in StateType /\ t \in TrackType
    BY StateParts DEF Sound, Good
  <2> HIDE DEF t
  <2> QED
    BY <2>1 DEF Sound, Good, TrackType, t
<1>2. t.tail + 1 \in Nat /\ t.head <= t.tail + 1
  BY <1>1 DEF MemoryOK
<1>3. CASE x.rc = "error" /\ x.track = [t EXCEPT !.cause =
                        IF @ = "none" /\ t.state = "active"
                        THEN "memory" ELSE @]
           /\ x = Rc(SetTrack(s, x.track), "error")
  <2> DEFINE t3 == [t EXCEPT !.cause = IF @ = "none" /\ t.state = "active"
                                       THEN "memory" ELSE @]
             y == SetTrack(s, t3)
  <2>1. /\ t3 \in TrackType /\ SameLog(t, t3) /\ t3.alerts = t.alerts
    BY <1>1 DEF TrackType, SameLog
  <2>2. x = Rc(y, "error")
    BY <1>3
  <2> HIDE DEF t3, y
  <2>3. /\ y \in StateType /\ y.track = t3 /\ y.up = s.up
        /\ y.queue = s.queue /\ y.faults = s.faults
    BY <1>1, <2>1, TrackFields DEF y
  <2>4. /\ x \in StateType /\ x.track = t3 /\ x.up = s.up
        /\ x.queue = s.queue /\ x.faults = s.faults
    BY <2>2, <2>3, RcFields
  <2>5. Good(conf, x) /\ Steps(s, x, 0)
    BY <1>1, <2>1, <2>4, SameLogGood
  <2> QED
    BY <1>3, <2>1, <2>4, <2>5 DEF Goes, Fits, SameLog
<1>4. ASSUME NEW t3 \in TrackType, x = SetTrack(s, t3),
             t3.tail = t.tail + 1,
             t3.tail - t3.head + 1 + t3.nfree <= conf.memLimit,
             t3.pkts = t.pkts, t3.written = t.written,
             t3.appended = t.appended, t3.head = t.head,
             t3.state = t.state, t3.pub = t.pub, t3.detached = t.detached,
             t3.keep = t.keep, t3.oerr = t.oerr, t3.blocked = t.blocked,
             t3.forced = t.forced, t3.alerts = t.alerts
      PROVE  /\ Good(conf, x) /\ Goes(s, x) /\ Fits(x.track)
             /\ x.track.written = s.track.written
             /\ x.track.tail = s.track.tail + 1
  <2> HIDE DEF t, t2
  <2>4. /\ x \in StateType /\ x.track = t3 /\ x.up = s.up
        /\ x.queue = s.queue /\ x.faults = s.faults
    BY <1>1, <1>4, TrackFields DEF t
  <2>5. Fits(t3)
    <3>1. BufSize \in Nat \ {0}
      BY ConfAssumption
    <3>2. t.written <= (t.tail + 1) * BufSize
      BY DEF Fits, t
    <3>3. \A a \in Nat, b \in Nat : a * b <= (a + 1) * b
                                    /\ a * b \in Nat /\ (a + 1) * b \in Nat
      OBVIOUS
    <3> QED
      BY <1>1, <1>2, <1>4, <3>1, <3>2, <3>3 DEF Fits
  <2>6. MemoryOK(conf, t3, s.queue)
    BY <1>1, <1>2, <1>4, <2>5 DEF MemoryOK
  <2>7. /\ LogOK(t3) /\ HeadersOK(t3) /\ AlertsOK(conf, t3)
        /\ UpsOK(t3, s.up, s.queue)
    <3>1. /\ LogOK(t) /\ HeadersOK(t) /\ AlertsOK(conf, t)
          /\ UpsOK(t, s.up, s.queue)
      BY DEF Good, Sound, t
    <3>2. UpsOK(t3, s.up, s.queue)
      BY <1>4, <3>1 DEF UpsOK, UpOK, End
    <3> QED
      BY <1>4, <3>1, <3>2 DEF LogOK, End, Frames, HeadersOK, AlertsOK
  <2>8. Resuming(conf, x)
    <3> SUFFICES ASSUME NEW u \in ToSet(s.queue)
                 PROVE  Resumes(conf, t3, s.up[u], u)
      BY <2>4 DEF Resuming
    <3>1. Resumes(conf, t, s.up[u], u)
      BY DEF Good, Resuming, t
    <3>2. Readable(t, s.up[u]) => Readable(t3, s.up[u])
      <4>1. s.up[u].acked \in 0 .. Len(t.pkts)
        <5>1. UpOK(t, s.up[u]) /\ s.up[u] \in UpType
          BY <1>1, StateParts DEF Good, Sound, UpsOK, t
        <5> QED
          BY <1>1, <5>1, LogNumbers DEF UpOK, UpType
      <4>2. End(t, s.up[u].acked) \in Nat
        BY <1>1, <4>1, LogNumbers
      <4>3. NodeOf(End(t, s.up[u].acked)) \in Nat
        BY <4>2, NodeOrder
      <4>4. End(t3, s.up[u].acked) = End(t, s.up[u].acked)
        BY <1>4 DEF End
      <4> QED
        BY <1>1, <1>4, <4>3, <4>4 DEF Readable
    <3> QED
      BY <1>4, <3>1, <3>2 DEF Resumes, Frames, End, FirstOf
  <2>9. Good(conf, x)
    BY <1>1, <1>4, <2>4, <2>6, <2>7, <2>8 DEF Good, Sound
  <2>10. Later(t, t3, 1)
    BY <1>1, <1>4 DEF Later, TrackType
  <2>11. Steps(s, x, 1)
    BY <1>1, <1>4, <2>4, <2>10, TrackSteps DEF t
  <2> QED
    BY <1>4, <2>4, <2>5, <2>9, <2>11 DEF Goes, t
<1> QED
  <2>1. CASE t.nfree > 0
    <3> DEFINE t3 == [t EXCEPT !.nfree = @ - 1, !.tail = @ + 1]
    <3>1. x = [s EXCEPT !.track.nfree = @ - 1, !.track.tail = @ + 1]
      BY <2>1 DEF GetBuffer
    <3>2. x = SetTrack(s, t3)
      BY <1>1, <3>1 DEF SetTrack, StateType, TrackType
    <3>3. t.nfree - 1 \in Nat
      BY <1>1, <2>1
    <3>4. /\ t3 \in TrackType /\ t3.tail = t.tail + 1
          /\ t3.nfree = t.nfree - 1
          /\ t3.pkts = t.pkts /\ t3.written = t.written
          /\ t3.appended = t.appended /\ t3.head = t.head
          /\ t3.state = t.state /\ t3.pub = t.pub
          /\ t3.detached = t.detached /\ t3.keep = t.keep
          /\ t3.oerr = t.oerr /\ t3.blocked = t.blocked
          /\ t3.forced = t.forced /\ t3.alerts = t.alerts
      <4> DEFINE m == t.nfree - 1
                 t4 == [t EXCEPT !.nfree = m]
                 n == t.tail + 1
      <4>1. /\ t \in TrackType /\ m \in Nat /\ n \in Int
            /\ t3 = [t4 EXCEPT !.tail = n]
        BY <1>1, <3>3
      <4>2. /\ t4 \in TrackType /\ t4.nfree = m /\ t4.tail = t.tail
            /\ t4.pkts = t.pkts /\ t4.written = t.written
            /\ t4.appended = t.appended /\ t4.head = t.head
            /\ t4.state = t.state /\ t4.pub = t.pub
            /\ t4.detached = t.detached /\ t4.keep = t.keep
            /\ t4.oerr = t.oerr /\ t4.blocked = t.blocked
            /\ t4.forced = t.forced /\ t4.alerts = t.alerts
        <5> HIDE DEF t, m, n
        <5> QED
          BY <4>1 DEF TrackType
      <4> HIDE DEF t, m, n, t3, t4
      <4> QED
        BY <4>1, <4>2 DEF TrackType, m, n
    <3> HIDE DEF t3
    <3>5. t3.tail - t3.head + 1 + t3.nfree <= conf.memLimit
      <4>1. t.tail - t.head + 1 + t.nfree <= conf.memLimit
        BY <1>1 DEF MemoryOK
      <4>2. conf.memLimit \in Nat
        BY <1>1, ConfAssumption DEF ConfType
      <4> QED
        BY <1>1, <3>4, <4>1, <4>2
    <3> QED
      BY <1>4, <3>2, <3>4, <3>5
  <2>2. CASE t.nfree = 0 /\ MemLeft(t) > 0
    <3> DEFINE t3 == [t EXCEPT !.tail = @ + 1]
    <3>1. x = [s EXCEPT !.track.tail = @ + 1]
      BY <1>1, <2>2 DEF GetBuffer
    <3>2. x = SetTrack(s, t3)
      BY <1>1, <3>1 DEF SetTrack, StateType, TrackType
    <3>4. /\ t3 \in TrackType /\ t3.tail = t.tail + 1
          /\ t3.nfree = t.nfree
          /\ t3.pkts = t.pkts /\ t3.written = t.written
          /\ t3.appended = t.appended /\ t3.head = t.head
          /\ t3.state = t.state /\ t3.pub = t.pub
          /\ t3.detached = t.detached /\ t3.keep = t.keep
          /\ t3.oerr = t.oerr /\ t3.blocked = t.blocked
          /\ t3.forced = t.forced /\ t3.alerts = t.alerts
      <4> HIDE DEF t
      <4> QED
        BY <1>1 DEF TrackType
    <3> HIDE DEF t3
    <3>5. t3.tail - t3.head + 1 + t3.nfree <= conf.memLimit
      <4>1. conf.memLimit \in Nat
        BY <1>1, ConfAssumption DEF ConfType
      <4> QED
        BY <1>1, <2>2, <3>4, <4>1 DEF MemLeft, Nodes
    <3> QED
      BY <1>4, <3>2, <3>4, <3>5
  <2>3. CASE ~(t.nfree > 0) /\ ~(t.nfree = 0 /\ MemLeft(t) > 0)
    <3>1. x = Rc([s EXCEPT !.track.cause =
                        IF @ = "none" /\ s.track.state = "active"
                        THEN "memory" ELSE @], "error")
      BY <2>3 DEF GetBuffer
    <3> DEFINE t3 == [t EXCEPT !.cause = IF @ = "none" /\ t.state = "active"
                                         THEN "memory" ELSE @]
    <3>2. t3 \in TrackType
      BY <1>1 DEF TrackType
    <3>3. x = Rc(SetTrack(s, t3), "error")
      BY <1>1, <3>1 DEF SetTrack, StateType, TrackType
    <3> HIDE DEF t3
    <3>4. x.rc = "error" /\ x.track = t3
      BY <1>1, <3>2, <3>3, TrackFields, RcFields
    <3> QED
      BY <1>3, <3>3, <3>4 DEF t3
  <2> QED
    BY <2>1, <2>2, <2>3

\* From s, n units are to be written: after i turns l of them are left, in y.
Copying(s, n, i, y, l) ==
    /\ Good(conf, y) /\ Goes(s, y) /\ Fits(y.track)
    /\ l < 0 /\ y.rc # "error" =>
            y.track.written = s.track.written + n /\ y.track.tail >= 0
    /\ l >= 0 =>
            /\ y.track.written + l = s.track.written + n
            /\ i > 0 => /\ l <= n + 1 - i
                        /\ y.track.written < (y.track.tail + 1) * BufSize

\* One turn of the copy loop
LEMMA CopyTurnGood ==
    ASSUME NEW s \in StateType, NEW n \in Nat, NEW i \in Nat, NEW y,
           NEW l \in Nat, Copying(s, n, i, y, l), NEW p \in CopyTurn(y, l)
    PROVE  \E z \in StateType : \E k \in Int :
                p = <<z, k>> /\ Copying(s, n, i + 1, z, k)
<1> DEFINE t == y.track
           P == (t.tail + 1) * BufSize
           room == P - t.written
<1>1. /\ y \in StateType /\ t \in TrackType /\ Good(conf, y)
      /\ Goes(s, y) /\ Fits(t)
      /\ t.written + l = s.track.written + n
      /\ i > 0 => l <= n + 1 - i /\ t.written < P
  BY StateParts DEF Copying, Sound, Good
<1>2. /\ P \in Int /\ t.written \in Nat /\ s.track.written \in Nat
      /\ t.tail \in Int /\ t.appended \in Nat /\ BufSize \in Nat \ {0}
  <2>1. s.track \in TrackType
    BY StateParts
  <2> HIDE DEF t
  <2>2. t.tail \in Int /\ BufSize \in Nat \ {0}
    BY <1>1, ConfAssumption DEF TrackType
  <2>3. (t.tail + 1) * BufSize \in Int
    BY <2>2
  <2> QED
    BY <1>1, <2>1, <2>2, <2>3 DEF TrackType
<1>3. room \in Nat
  <2>1. t.written <= P
    BY <1>1 DEF Fits
  <2> HIDE DEF P, t
  <2> QED
    BY <1>2, <2>1
<1>4. ASSUME NEW m \in Nat, m <= room, NEW z,
             z = [y EXCEPT !.track.written = @ + m]
      PROVE  /\ Good(conf, z) /\ Goes(s, z) /\ z \in StateType
             /\ Fits(z.track) /\ z.track.written = t.written + m
             /\ z.track.tail = t.tail
  <2> DEFINE t2 == [t EXCEPT !.written = @ + m]
  <2>1. z = SetTrack(y, t2)
    BY <1>1, <1>4 DEF SetTrack
  <2> HIDE DEF t, P
  <2>2. /\ t2 \in TrackType /\ t2.written = t.written + m
        /\ t2.pkts = t.pkts /\ t2.head = t.head /\ t2.tail = t.tail
        /\ t2.nfree = t.nfree /\ t2.oerr = t.oerr
        /\ t2.blocked = t.blocked /\ t2.forced = t.forced
        /\ t2.alerts = t.alerts /\ t2.appended = t.appended
        /\ t2.state = t.state /\ t2.pub = t.pub
        /\ t2.detached = t.detached /\ t2.keep = t.keep
    <3> DEFINE w == t.written + m
    <3>1. w \in Nat
      BY <1>2
    <3> HIDE DEF w
    <3>2. t2 = [t EXCEPT !.written = w]
      BY DEF w
    <3> QED
      BY <1>1, <3>1, <3>2 DEF TrackType, w
  <2> HIDE DEF t2
  <2>3. /\ z \in StateType /\ z.track = t2 /\ z.up = y.up
        /\ z.queue = y.queue /\ z.faults = y.faults
    BY <1>1, <2>1, <2>2, TrackFields
  <2>4. t2.written <= P
    BY <1>2, <1>3, <1>4, <2>2
  <2>5. Fits(t2)
    BY <2>2, <2>4 DEF Fits, P
  <2>6. t.appended <= t.written
    BY <1>1 DEF Good, Sound, LogOK, t
  <2>7. Good(conf, z)
    BY <1>1, <1>2, <2>2, <2>3, <2>5, <2>6, TrackGood DEF t
  <2>8. Later(t, t2, m)
    BY <1>2, <2>2 DEF Later
  <2>9. Steps(y, z, m)
    BY <1>1, <2>2, <2>3, <2>8, TrackSteps DEF t
  <2>10. Goes(y, z)
    BY <2>9 DEF Goes
  <2> QED
    BY <1>1, <2>2, <2>3, <2>5, <2>7, <2>10, GoesTwice
<1>5. CASE l < room
  <2> DEFINE z == [y EXCEPT !.track.written = @ + l]
  <2>1. p = <<z, -1>>
    BY <1>5 DEF CopyTurn
  <2>2. /\ Good(conf, z) /\ Goes(s, z) /\ z \in StateType
        /\ Fits(z.track) /\ z.track.written = t.written + l
        /\ z.track.tail = t.tail
    <3>1. l <= room
      <4> HIDE DEF room
      <4> QED
        BY <1>3, <1>5
    <3> HIDE DEF t, room
    <3> QED
      BY <1>4, <3>1
  <2>3. t.tail >= 0
    <3>1. P > 0
      <4> HIDE DEF t, P
      <4> QED
        BY <1>2, <1>5
    <3>2. t.tail + 1 > 0
      <4>1. \A a \in Int, b \in Nat : a <= 0 => a * b <= 0
        OBVIOUS
      <4> HIDE DEF t
      <4> QED
        BY <1>2, <3>1, <4>1
    <3> HIDE DEF t
    <3> QED
      BY <1>2, <3>2
  <2> HIDE DEF z, t
  <2>4. Copying(s, n, i + 1, z, -1)
    BY <1>1, <2>2, <2>3 DEF Copying
  <2> QED
    BY <2>1, <2>2, <2>4
<1>6. CASE ~(l < room)
  <2> DEFINE z == [y EXCEPT !.track.written = @ + room]
  <2>1. PICK x \in Then(AppendAll(z), GetBuffer) :
            p = <<x, IF x.rc = "error" THEN -1 ELSE l - room>>
    BY <1>6 DEF CopyTurn
  <2>2. /\ Good(conf, z) /\ Goes(s, z) /\ z \in StateType
        /\ Fits(z.track) /\ z.track.written = P
        /\ z.track.tail = t.tail
    <3>1. t.written + room = P
      <4> HIDE DEF t, P
      <4> QED
        BY <1>2
    <3>2. /\ room \in Nat /\ room <= room
          /\ z = [y EXCEPT !.track.written = @ + room]
      <4> HIDE DEF room
      <4> QED
        BY <1>3
    <3> HIDE DEF t, room, P, z
    <3> QED
      BY <1>4, <3>1, <3>2
  <2> HIDE DEF z, t, P
  <2>3. PICK a \in AppendAll(z) :
            x \in IF a.rc = "error" THEN {a} ELSE GetBuffer(a)
    BY <2>1 DEF Then
  <2>4. Good(conf, a) /\ Steps(z, a, 0)
    BY <2>2, <2>3, AppendAllGood
  <2>5. a \in StateType /\ a.track \in TrackType /\ Goes(s, a)
    <3>1. a \in StateType /\ Goes(z, a)
      BY <2>4 DEF Good, Sound, Goes
    <3> QED
      BY <2>2, <3>1, GoesTwice, StateParts
  <2>6. a.track.written = P /\ a.track.tail = t.tail /\ Fits(a.track)
    <3>1. a.track.written \in Nat /\ a.track.tail \in Int
      BY <2>5 DEF TrackType
    <3> QED
      BY <1>2, <2>2, <2>4, <3>1 DEF Steps, Later, Fits
  <2>7. CASE a.rc = "error"
    <3>1. Copying(s, n, i + 1, a, -1)
      BY <2>4, <2>5, <2>6, <2>7 DEF Copying
    <3>2. p = <<a, -1>>
      BY <2>1, <2>3, <2>7
    <3> QED
      BY <2>5, <3>1, <3>2
  <2>8. CASE a.rc # "error"
    <3>1. /\ Good(conf, x) /\ Goes(a, x) /\ Fits(x.track)
          /\ x.track.written = P
          /\ x.rc # "error" => x.track.tail = t.tail + 1
      BY <2>3, <2>4, <2>6, <2>8, GetBufferGood
    <3>2. x \in StateType /\ Goes(s, x)
      <4>1. x \in StateType
        BY <3>1 DEF Good, Sound
      <4> QED
        BY <2>5, <3>1, <4>1, GoesTwice
    <3>3. CASE x.rc = "error"
      <4>1. Copying(s, n, i + 1, x, -1)
        BY <3>1, <3>2, <3>3 DEF Copying
      <4> QED
        BY <2>1, <3>2, <3>3, <4>1
    <3>4. CASE x.rc # "error"
      <4> DEFINE k == l - room
      <4>1. k \in Nat /\ P + k = s.track.written + n
        BY <1>1, <1>2, <1>3, <1>6
      <4>2. P < (x.track.tail + 1) * BufSize
        <5>1. x.track.tail + 1 = t.tail + 1 + 1
          BY <3>1, <3>4
        <5>2. \A c \in Int, b \in Nat \ {0} : c * b < (c + 1) * b
          OBVIOUS
        <5> QED
          BY <1>2, <5>1, <5>2 DEF P
      <4>3. k <= n + 1 - (i + 1)
        <5>1. t.written >= s.track.written
          BY <1>1 DEF Goes, Steps, Later, t
        <5>2. l <= n
          BY <1>1, <1>2, <5>1
        <5>3. i > 0 => room >= 1 /\ l <= n + 1 - i
          BY <1>1, <1>2
        <5> HIDE DEF room
        <5> QED
          BY <1>3, <5>2, <5>3
      <4> HIDE DEF k
      <4>4. Copying(s, n, i + 1, x, k)
        BY <3>1, <3>2, <3>4, <4>1, <4>2, <4>3 DEF Copying
      <4>5. p = <<x, k>> /\ k \in Int
        BY <2>1, <3>4, <4>1 DEF k
      <4> QED
        BY <3>2, <4>4, <4>5
    <3> QED
      BY <3>3, <3>4
  <2> QED
    BY <2>7, <2>8
<1> QED
  BY <1>5, <1>6

\* The copy loop writes what it is given, unless it fails.
LEMMA CopyGood ==
    ASSUME NEW s, Good(conf, s), Fits(s.track), NEW n \in Nat,
           NEW x \in Copy(s, n)
    PROVE  /\ Good(conf, x) /\ Goes(s, x) /\ Fits(x.track)
           /\ x.rc # "error" =>
                x.track.written = s.track.written + n /\ x.track.tail >= 0
<1> DEFINE N == n + 2
           A == {<<s, n>>}
           P == StateType \X Int
           G(i) == {p \in P : Copying(s, n, i, p[1], p[2])}
           After(X) == UNION {IF p[2] < 0 THEN {p}
                              ELSE CopyTurn(p[1], p[2]) : p \in X}
<1>1. s \in StateType /\ s.track.written \in Nat
  <2>1. s \in StateType /\ s.track \in TrackType
    BY StateParts DEF Sound, Good
  <2> QED
    BY <2>1 DEF TrackType
<1>2. N \in Nat
  OBVIOUS
<1>3. A \in SUBSET G(0)
  <2>1. Copying(s, n, 0, s, n)
    BY <1>1, StepsNothing DEF Copying, Goes
  <2>2. <<s, n>> \in P
    BY <1>1
  <2>3. <<s, n>> \in G(0)
    BY <2>1, <2>2
  <2> HIDE DEF G
  <2> QED
    BY <2>3
<1>4. ASSUME NEW i \in 1 .. N, NEW X \in SUBSET G(i - 1)
      PROVE  After(X) \in SUBSET G(i)
  <2> SUFFICES ASSUME NEW p \in X,
                      NEW r \in IF p[2] < 0 THEN {p}
                                ELSE CopyTurn(p[1], p[2])
               PROVE  r \in G(i)
    <3> HIDE DEF G
    <3> QED
      OBVIOUS
  <2>1. p \in P /\ Copying(s, n, i - 1, p[1], p[2])
    OBVIOUS
  <2>2. p[2] \in Int /\ p = <<p[1], p[2]>> /\ i - 1 \in Nat
    BY <2>1
  <2>3. CASE p[2] < 0
    <3>1. Copying(s, n, i, p[1], p[2])
      BY <2>1, <2>2, <2>3 DEF Copying
    <3> QED
      BY <2>1, <2>3, <3>1
  <2>4. CASE ~(p[2] < 0)
    <3>1. p[2] \in Nat /\ r \in CopyTurn(p[1], p[2]) /\ i = i - 1 + 1
      BY <2>2, <2>4
    <3>2. PICK z \in StateType, k \in Int :
                r = <<z, k>> /\ Copying(s, n, i - 1 + 1, z, k)
      BY <1>1, <2>1, <2>2, <3>1, CopyTurnGood
    <3> QED
      BY <3>1, <3>2
  <2> QED
    BY <2>3, <2>4
<1> DEFINE T == [i \in 0 .. N |-> SUBSET G(i)]
           g == [i \in 1 .. N |-> [X \in SUBSET P |-> After(X)]]
           IsRun(f) == f = [i \in 0 .. N |-> IF i = 0 THEN A
                                             ELSE After(f[i - 1])]
           c == CHOOSE f : IsRun(f)
<1>5. \A i : SUBSET G(i) \subseteq SUBSET P
  OBVIOUS
<1> HIDE DEF N, A, G, After
<1>6. \E f : IsRun(f)
  <2>1. \A i \in 1 .. N : i - 1 \in 0 .. N /\ i \in 0 .. N
    BY <1>2
  <2>2. A \in T[0]
    BY <1>2, <1>3
  <2>3. Leads(g, T, N)
    <3> SUFFICES ASSUME NEW i \in 1 .. N, NEW X \in T[i - 1]
                 PROVE  g[i][X] \in T[i]
      BY DEF Leads
    <3>1. X \in SUBSET G(i - 1)
      BY <2>1
    <3>2. X \in SUBSET P
      BY <1>5, <3>1
    <3>3. g[i][X] = After(X)
      BY <3>2
    <3>4. After(X) \in SUBSET G(i)
      BY <1>4, <3>1
    <3> QED
      BY <2>1, <3>3, <3>4
  <2>4. PICK f : RunOf(f, g, T, A, N)
    <3> HIDE DEF T, g
    <3> QED
      BY <1>2, <2>2, <2>3, RunExists
  <2>5. /\ f = [i \in 0 .. N |-> f[i]]
        /\ f[0] = A
        /\ \A i \in 1 .. N : f[i - 1] \in T[i - 1] /\ f[i] = g[i][f[i - 1]]
    BY <2>4 DEF RunOf
  <2>6. ASSUME NEW i \in 0 .. N
        PROVE  f[i] = IF i = 0 THEN A ELSE After(f[i - 1])
    <3>1. CASE i = 0
      BY <2>5, <3>1
    <3>2. CASE i # 0
      <4>1. i \in 1 .. N
        BY <1>2, <3>2
      <4>2. f[i - 1] \in T[i - 1] /\ f[i] = g[i][f[i - 1]]
        BY <2>5, <4>1
      <4>3. f[i - 1] \in SUBSET P
        BY <1>5, <2>1, <4>1, <4>2
      <4>4. f[i] = After(f[i - 1])
        BY <4>1, <4>2, <4>3
      <4> QED
        BY <3>2, <4>4
    <3> QED
      BY <3>1, <3>2
  <2> QED
    BY <2>5, <2>6
<1>7. IsRun(c)
  <2> HIDE DEF IsRun
  <2> QED
    BY <1>6
<1>8. Copy(s, n) = {p[1] : p \in c[N]}
  BY DEF Copy, Loop, After, N, A
<1> HIDE DEF c
<1>9. c[N] \in SUBSET G(N)
  <2>1. c[0] = A
    BY <1>2, <1>7
  <2>2. ASSUME NEW i \in 1 .. N, c[i - 1] \in SUBSET G(i - 1)
        PROVE  c[i] \in SUBSET G(i)
    <3>1. i \in 0 .. N /\ i # 0
      BY <1>2
    <3>2. c[i] = After(c[i - 1])
      BY <1>7, <3>1
    <3> QED
      BY <1>4, <2>2, <3>2
  <2>3. c[0] \in T[0]
    BY <1>2, <1>3, <2>1
  <2>4. \A i \in 1 .. N : c[i - 1] \in T[i - 1] => c[i] \in T[i]
    <3> SUFFICES ASSUME NEW i \in 1 .. N, c[i - 1] \in T[i - 1]
                 PROVE  c[i] \in T[i]
      OBVIOUS
    <3>1. i \in 0 .. N /\ i - 1 \in 0 .. N
      BY <1>2
    <3> QED
      BY <2>2, <3>1
  <2>5. c[N] \in T[N]
    <3> HIDE DEF T
    <3> QED
      BY <1>2, <2>3, <2>4, RunStays
  <2> QED
    BY <1>2, <2>5
<1>10. PICK p \in c[N] : x = p[1]
  BY <1>8
<1>11. p[2] \in Int /\ Copying(s, n, N, x, p[2])
  BY <1>9, <1>10 DEF G
<1>12. p[2] < 0
  <2>1. p[2] >= 0 => p[2] <= n + 1 - N
    BY <1>2, <1>11 DEF Copying, N
  <2> QED
    BY <1>11, <2>1 DEF N
<1> QED
  BY <1>11, <1>12 DEF Copying

\* The track has a buffer, unless it needs none yet or its owner does not look.
Owned(g, t) == t.tail < 0 /\ t.written > 0 => "unchecked" \in g.writers
\* From s, n units were written, or there was an error.
Wrote(s, x, n) ==
    /\ Good(conf, x) /\ Goes(s, x) /\ (Fits(s.track) => Fits(x.track))
    /\ x.rc # "error" =>
            x.track.written = s.track.written + n /\ x.track.tail >= 0

\* An alert that may be raised does no harm.
LEMMA AlertGood ==
    ASSUME NEW g, NEW s, Good(g, s), NEW a \in AlertNames,
           a # "open header sent",
           a = "released buffer" => "unchecked" \in g.writers,
           a \in {"stale read", "bad packet", "limit not found"} => ~Calm(g),
           NEW x, x = Alert(s, a)
    PROVE  /\ Good(g, x) /\ Steps(s, x, 0) /\ SameLog(s.track, x.track)
           /\ x.up = s.up /\ x.queue = s.queue /\ x.faults = s.faults
           /\ x.rc = s.rc
<1> DEFINE t == s.track
           t2 == x.track
<1>1. s \in StateType /\ t \in TrackType
  BY StateParts DEF Good, Sound
<1>2. /\ x \in StateType /\ SameLog(t, t2)
      /\ x.up = s.up /\ x.queue = s.queue /\ x.faults = s.faults
      /\ x.rc = s.rc /\ t2.alerts = t.alerts \cup {a}
  BY <1>1, AlertFields
<1>3. /\ LogOK(t) /\ MemoryOK(g, t, s.queue) /\ HeadersOK(t)
      /\ AlertsOK(g, t) /\ UpsOK(t, s.up, s.queue)
  BY DEF Good, Sound
<1>4. \A u \in ToSet(s.queue) : Resumes(g, t, s.up[u], u)
  BY DEF Good, Resuming
<1> HIDE DEF t, t2
<1>5. LogOK(t2)
  BY <1>2, <1>3 DEF LogOK, SameLog, End, Frames
<1>6. MemoryOK(g, t2, s.queue)
  BY <1>2, <1>3 DEF MemoryOK, SameLog, Fits
<1>7. HeadersOK(t2) /\ AlertsOK(g, t2)
  BY <1>2, <1>3 DEF HeadersOK, AlertsOK, SameLog
<1>8. UpsOK(t2, s.up, s.queue)
  BY <1>2, <1>3 DEF UpsOK, UpOK, SameLog, End
<1>9. Resuming(g, x)
  <2> SUFFICES ASSUME NEW u \in ToSet(s.queue)
               PROVE  Resumes(g, t2, s.up[u], u)
    BY <1>2 DEF Resuming, t2
  <2> QED
    BY <1>2, <1>4, ResumesSame DEF SameLog
<1>10. Good(g, x)
  BY <1>2, <1>5, <1>6, <1>7, <1>8, <1>9 DEF Good, Sound, t2
<1>11. Steps(s, x, 0)
  <2>1. t2.written = t.written /\ t2.appended = t.appended
        /\ t2.tail = t.tail
    BY <1>2 DEF SameLog
  <2>2. t.written \in Nat /\ t.appended \in Nat /\ t.tail \in Int
    BY <1>1 DEF TrackType
  <2>3. /\ t.written <= t2.written /\ t2.written <= t.written + 0
        /\ t.appended <= t2.appended /\ t.tail <= t2.tail
    BY ONLY <2>1, <2>2
  <2>4. Later(t, t2, 0)
    BY <1>2, <2>1, <2>3 DEF SameLog, Later
  <2> QED
    BY <1>1, <1>2, <2>4, TrackSteps DEF SameLog, t, t2
<1> QED
  BY <1>2, <1>10, <1>11 DEF t, t2

\* A step that writes nothing leaves the bytes where they fit.
LEMMA StepsFits ==
    ASSUME NEW s \in StateType, NEW x \in StateType, Steps(s, x, 0)
    PROVE  /\ x.track.written = s.track.written
           /\ x.track.tail = s.track.tail
           /\ Fits(s.track) => Fits(x.track)
<1>1. /\ s.track.written \in Nat /\ x.track.written \in Nat
      /\ s.track.tail \in Int /\ x.track.tail \in Int
  BY StateParts DEF TrackType
<1>2. x.track.written = s.track.written /\ x.track.tail = s.track.tail
  BY <1>1 DEF Steps, Later
<1> QED
  BY <1>2 DEF Fits

\* write_chain leaves what is good.
LEMMA WriteChainGood ==
    ASSUME NEW s, Good(conf, s), Owned(conf, s.track), NEW n \in Nat,
           NEW x \in WriteChain(s, n)
    PROVE  Wrote(s, x, n)
<1>1. /\ s \in StateType /\ s.track \in TrackType /\ conf \in Confs
      /\ MemoryOK(conf, s.track, s.queue) /\ Sound(conf, s)
      /\ Resuming(conf, s)
  BY StateParts DEF Sound, Good
<1>2. s.track.tail \in Int /\ s.track.written \in Nat
      /\ s.track.nfree \in Nat /\ s.track.head \in Nat
  BY <1>1 DEF TrackType
<1>3. CASE s.track.tail < 0 /\ s.track.written > 0
  <2> DEFINE y == Alert(s, "released buffer")
  <2>1. x = Rc(y, "error") /\ y = Alert(s, "released buffer")
    BY <1>3 DEF WriteChain
  <2>2. "released buffer" \in AlertNames /\ "unchecked" \in conf.writers
    BY <1>3 DEF AlertNames, Owned
  <2> HIDE DEF y
  <2>3. Good(conf, y) /\ Steps(s, y, 0)
    BY <2>1, <2>2, AlertGood
  <2>4. y \in StateType /\ y.faults <= conf.maxFaults
    BY <2>3 DEF Good, Sound
  <2>5. /\ x \in StateType /\ x.track = y.track /\ x.up = y.up
        /\ x.queue = y.queue /\ x.faults = y.faults /\ x.rc = "error"
    BY <2>1, <2>4, RcFields
  <2>6. Good(conf, x)
    BY <2>3, <2>4, <2>5, GoodSame DEF Good
  <2>7. Steps(s, x, 0)
    BY <2>3, <2>5 DEF Steps
  <2>8. Fits(s.track) => Fits(x.track)
    BY <1>1, <2>5, <2>7, StepsFits
  <2> QED
    BY <2>5, <2>6, <2>7, <2>8 DEF Wrote, Goes
<1>4. CASE ~(s.track.tail < 0 /\ s.track.written > 0)
  <2> DEFINE Fail(y) == IF y.rc = "error" THEN [y EXCEPT !.track.werr = TRUE]
                        ELSE [y EXCEPT !.track.flush = TRUE]
             Body(y) == {Fail(z) : z \in Then(Copy(y, n), SendAll)}
             S == IF MemLeft(s.track) < conf.highMark THEN MemWatermark(s)
                  ELSE {s}
  <2>1. PICK y \in S : x \in IF y.rc = "error" THEN {y} ELSE Body(y)
    BY <1>4 DEF WriteChain, Then
  <2>2. Good(conf, y) /\ Steps(s, y, 0)
    <3>1. CASE MemLeft(s.track) < conf.highMark
      <4>1. ~Calm(conf)
        <5>1. MemLeft(s.track) \in Int /\ MemLeft(s.track) >= 0
          <6>1. conf.memLimit \in Nat
            BY <1>1, ConfAssumption DEF ConfType
          <6> QED
            BY <1>1, <1>2, <6>1 DEF MemoryOK, MemLeft, Nodes
        <5> QED
          BY <3>1, <5>1 DEF Calm
      <4> QED
        BY <2>1, <3>1, <4>1, MemWatermarkGood
    <3>2. CASE ~(MemLeft(s.track) < conf.highMark)
      BY <1>1, <2>1, <3>2, StepsNothing
    <3> QED
      BY <3>1, <3>2
  <2> HIDE DEF S, Body
  <2>3. y \in StateType /\ y.track \in TrackType /\ Goes(s, y)
    BY <2>2, StateParts DEF Good, Sound, Goes
  <2>4. CASE y.rc = "error"
    <3>1. Fits(s.track) => Fits(y.track)
      BY <1>1, <2>2, <2>3, StepsFits
    <3> QED
      BY <2>1, <2>2, <2>3, <2>4, <3>1 DEF Wrote
  <2>5. CASE y.rc # "error"
    <3>1. PICK z \in Then(Copy(y, n), SendAll) : x = Fail(z)
      BY <2>1, <2>5 DEF Body
    <3>2. PICK a \in Copy(y, n) :
                z \in IF a.rc = "error" THEN {a} ELSE SendAll(a)
      BY <3>1 DEF Then
    <3>3. Fits(y.track) /\ y.track.written = s.track.written
      <4>1. y.track.written = s.track.written /\ y.track.tail = s.track.tail
            /\ MemoryOK(conf, y.track, y.queue)
        <5>1. y.track.written \in Nat /\ y.track.tail \in Int
          BY <2>3 DEF TrackType
        <5> QED
          BY <1>2, <2>2, <5>1 DEF Steps, Later, Good, Sound
      <4>2. CASE y.track.tail # -1
        BY <4>1, <4>2 DEF MemoryOK
      <4>3. CASE y.track.tail = -1
        <5>1. y.track.written = 0
          BY <1>2, <1>4, <4>1, <4>3
        <5>2. BufSize \in Nat /\ (-1 + 1) * BufSize = 0
          BY ConfAssumption
        <5> QED
          BY <4>1, <4>3, <5>1, <5>2 DEF Fits
      <4> QED
        BY <4>1, <4>2, <4>3
    <3>4. /\ Good(conf, a) /\ Goes(y, a) /\ Fits(a.track)
          /\ a.rc # "error" =>
                a.track.written = y.track.written + n /\ a.track.tail >= 0
      BY <2>2, <3>2, <3>3, CopyGood
    <3>5. a \in StateType /\ Goes(s, a) /\ a.track \in TrackType
      <4>1. a \in StateType
        BY <3>4 DEF Good, Sound
      <4> QED
        BY <1>1, <2>3, <3>4, <4>1, GoesTwice, StateParts
    <3>6. Wrote(s, z, n) /\ z \in StateType
      <4>1. CASE a.rc = "error"
        BY <3>2, <3>4, <3>5, <4>1 DEF Wrote
      <4>2. CASE a.rc # "error"
        <5>1. Good(conf, z) /\ Steps(a, z, 0)
          BY <3>2, <3>4, <4>2, SendAllGood
        <5>2. z \in StateType /\ Goes(a, z) /\ z.track \in TrackType
          BY <5>1, StateParts DEF Good, Sound, Goes
        <5>3. z.track.written = a.track.written /\ z.track.tail = a.track.tail
          <6>1. z.track.written \in Nat /\ a.track.written \in Nat
            BY <3>5, <5>2 DEF TrackType
          <6> QED
            BY <5>1, <6>1 DEF Steps, Later
        <5>4. Goes(s, z)
          BY <1>1, <3>5, <5>2, GoesTwice
        <5>5. Fits(z.track)
          BY <3>4, <3>5, <5>1, <5>2, StepsFits
        <5> QED
          BY <3>3, <3>4, <4>2, <5>1, <5>2, <5>3, <5>4, <5>5 DEF Wrote
      <4> QED
        BY <4>1, <4>2
    <3>7. Flags(z, x) /\ x.rc = z.rc
      <4>1. z.track \in TrackType
        BY <3>6, StateParts
      <4> DEFINE t1 == [z.track EXCEPT !.werr = TRUE]
                 t2 == [z.track EXCEPT !.flush = TRUE]
      <4>2. /\ t1 \in TrackType /\ SameLog(z.track, t1)
            /\ t1.alerts = z.track.alerts
            /\ t2 \in TrackType /\ SameLog(z.track, t2)
            /\ t2.alerts = z.track.alerts
        BY <4>1 DEF TrackType, SameLog
      <4>3. x \in {SetTrack(z, t1), SetTrack(z, t2)}
        BY <3>1 DEF SetTrack
      <4> HIDE DEF t1, t2
      <4> QED
        BY <3>6, <4>2, <4>3, TrackFields DEF Flags
    <3>8. Good(conf, x) /\ Steps(z, x, 0)
      BY <3>6, <3>7, SameLogGood DEF Flags, Wrote
    <3>9. Goes(s, x)
      <4>1. x \in StateType /\ Goes(z, x)
        BY <3>7, <3>8 DEF Flags, Goes
      <4> QED
        BY <1>1, <3>6, <4>1, GoesTwice DEF Wrote
    <3>10. Fits(z.track) => Fits(x.track)
      BY <3>7 DEF Flags, SameLog, Fits
    <3> QED
      BY <3>6, <3>7, <3>8, <3>9, <3>10 DEF Wrote, Flags, SameLog
  <2> QED
    BY <2>4, <2>5
<1> QED
  BY <1>3, <1>4

\* The packets of t2 are those of t and p.
LEMMA MorePackets ==
    ASSUME NEW t \in TrackType, NEW t2, NEW p \in PacketType,
           t2.pkts = Append(t.pkts, p)
    PROVE  LET n == Len(t.pkts)
           IN  /\ Len(t2.pkts) = n + 1 /\ t2.pkts \in Seq(PacketType)
               /\ \A k \in 0 .. n : /\ End(t2, k) = End(t, k)
                                    /\ Frames(t2, k) = Frames(t, k)
               /\ \A k \in 1 .. n : t2.pkts[k] = t.pkts[k]
               /\ t2.pkts[n + 1] = p
               /\ End(t2, n + 1) = p.end /\ Frames(t2, n + 1) = p.frames
<1> DEFINE n == Len(t.pkts)
<1>1. t.pkts \in Seq(PacketType) /\ n \in Nat
  BY LogNumbers
<1>2. /\ Len(t2.pkts) = n + 1 /\ t2.pkts \in Seq(PacketType)
      /\ \A k \in 1 .. n : t2.pkts[k] = t.pkts[k]
      /\ t2.pkts[n + 1] = p
  BY <1>1
<1> HIDE DEF n
<1>3. \A k \in 0 .. n : End(t2, k) = End(t, k) /\ Frames(t2, k) = Frames(t, k)
  <2> SUFFICES ASSUME NEW k \in 0 .. n
               PROVE  End(t2, k) = End(t, k) /\ Frames(t2, k) = Frames(t, k)
    OBVIOUS
  <2>1. CASE k = 0
    BY <2>1 DEF End, Frames
  <2>2. CASE k # 0
    <3>1. k \in 1 .. n
      BY <1>1, <2>2
    <3> QED
      BY <1>2, <2>2, <3>1 DEF End, Frames
  <2> QED
    BY <2>1, <2>2
<1>4. n + 1 # 0
  BY <1>1
<1> QED
  BY <1>2, <1>3, <1>4 DEF End, Frames, n

\* A packet of n units is put at the end of t, unless the last is not complete.
Packet(t, type, n) ==
    [type |-> type, end |-> t.written + n,
     frames |-> Frames(t, Len(t.pkts)) + (IF type = "frame" THEN 1 ELSE 0)]
Opened(t, t2, type, n) ==
    IF t.written < End(t, Len(t.pkts)) THEN t2.pkts = t.pkts
    ELSE t2.pkts = Append(t.pkts, Packet(t, type, n))
\* The log with it
LEMMA OpenedLog ==
    ASSUME NEW t \in TrackType, LogOK(t), NEW type \in PacketTypes,
           NEW n \in Nat \ {0}, ~(t.written < End(t, Len(t.pkts))),
           NEW t2 \in TrackType, t2.pkts = Append(t.pkts, Packet(t, type, n)),
           t2.appended = t.appended, t2.written = t.written
    PROVE  /\ LogOK(t2) /\ Packet(t, type, n) \in PacketType
           /\ \A x \in UpType : UpOK(t, x) =>
                /\ UpOK(t2, x) /\ End(t2, x.acked) = End(t, x.acked)
                /\ Frames(t2, x.acked) = Frames(t, x.acked)
                /\ FirstOf(t, x.acked) => FirstOf(t2, x.acked)
<1> DEFINE m == Len(t.pkts)
           p == Packet(t, type, n)
           f == IF type = "frame" THEN 1 ELSE 0
<1>1. /\ m \in Nat /\ t.written \in Nat
      /\ \A k \in 0 .. m : End(t, k) \in Nat /\ Frames(t, k) \in Nat
      /\ \A k \in 1 .. m : t.pkts[k] \in PacketType
  BY LogNumbers DEF TrackType
<1>2. /\ End(t, m) \in Nat /\ Frames(t, m) \in Nat /\ f \in 0 .. 1
      /\ End(t, m) <= t.written
  BY <1>1
<1>3. p \in PacketType /\ p.type = type
      /\ p.end = t.written + n /\ p.frames = Frames(t, m) + f
  <2>1. t.written + n \in Nat /\ Frames(t, m) + f \in Nat
    BY <1>1, <1>2
  <2> QED
    BY <2>1 DEF PacketType, Packet
<1> HIDE DEF p
<1>4. /\ Len(t2.pkts) = m + 1
      /\ \A k \in 0 .. m : /\ End(t2, k) = End(t, k)
                           /\ Frames(t2, k) = Frames(t, k)
      /\ \A k \in 1 .. m : t2.pkts[k] = t.pkts[k]
      /\ t2.pkts[m + 1] = p
      /\ End(t2, m + 1) = p.end /\ Frames(t2, m + 1) = p.frames
  BY <1>3, MorePackets DEF p
<1> HIDE DEF m
<1>5. LogOK(t2)
  <2>1. ASSUME NEW j \in 0 .. m + 1, NEW k \in 0 .. m + 1, j < k
        PROVE  End(t2, j) < End(t2, k) /\ Frames(t2, j) <= Frames(t2, k)
    <3>1. j \in 0 .. m
      BY <1>1, <2>1
    <3>2. CASE k <= m
      <4>1. k \in 0 .. m
        BY <1>1, <3>2
      <4> QED
        BY <1>4, <2>1, <3>1, <4>1 DEF LogOK, m
    <3>3. CASE ~(k <= m)
      <4>1. k = m + 1
        BY <1>1, <3>3
      <4>2. End(t, j) <= End(t, m) /\ Frames(t, j) <= Frames(t, m)
        <5>1. m \in 0 .. m /\ j <= m
          BY <1>1, <3>1
        <5> QED
          BY <3>1, <5>1, LogOrder DEF m
      <4>3. End(t, j) \in Nat /\ Frames(t, j) \in Nat
        BY <1>1, <3>1
      <4>4. End(t, j) < t.written + n /\ Frames(t, j) <= Frames(t, m) + f
        <5> DEFINE a1 == End(t, j)
                   a2 == End(t, m)
                   b1 == Frames(t, j)
                   b2 == Frames(t, m)
                   wr == t.written
        <5>1. /\ a1 \in Nat /\ a2 \in Nat /\ b1 \in Nat /\ b2 \in Nat
              /\ wr \in Nat /\ a1 <= a2 /\ a2 <= wr /\ b1 <= b2
              /\ n \in Nat \ {0} /\ f \in 0 .. 1
          BY <1>1, <1>2, <4>2, <4>3
        <5>2. a1 < wr + n /\ b1 <= b2 + f
          <6> HIDE DEF a1, a2, b1, b2, wr, f
          <6> QED
            BY ONLY <5>1
        <5> QED
          BY <5>2
      <4> QED
        BY <1>3, <1>4, <3>1, <4>1, <4>4
    <3> QED
      BY <3>2, <3>3
  <2>2. ASSUME NEW k \in 1 .. m + 1
        PROVE  /\ Frames(t2, k) <= Frames(t2, k - 1) + 1
               /\ t2.pkts[k].type = "open" =>
                    Frames(t2, k) = Frames(t2, k - 1)
    <3>1. CASE k <= m
      <4>1. k \in 1 .. m /\ k \in 0 .. m /\ k - 1 \in 0 .. m
        <5>1. m \in Nat
          BY <1>1
        <5> QED
          BY ONLY <5>1, k \in 1 .. m + 1, <3>1
      <4> QED
        BY <1>4, <4>1 DEF LogOK, m
    <3>2. CASE ~(k <= m)
      <4>1. k = m + 1 /\ k - 1 = m /\ m \in 0 .. m
        BY <1>1, <3>2
      <4>2. type = "open" => f = 0
        OBVIOUS
      <4>3. Frames(t, m) + f <= Frames(t, m) + 1
            /\ Frames(t, m) + 0 = Frames(t, m)
        BY <1>2
      <4> HIDE DEF f
      <4> QED
        BY <1>3, <1>4, <4>1, <4>2, <4>3
    <3> QED
      BY <3>1, <3>2
  <2>3. t2.appended <= t2.written
    BY DEF LogOK
  <2> QED
    BY <1>4, <2>1, <2>2, <2>3 DEF LogOK
<1>6. ASSUME NEW x \in UpType, UpOK(t, x)
      PROVE  /\ UpOK(t2, x) /\ End(t2, x.acked) = End(t, x.acked)
             /\ Frames(t2, x.acked) = Frames(t, x.acked)
             /\ FirstOf(t, x.acked) => FirstOf(t2, x.acked)
  <2>1. x.acked \in 0 .. m /\ x.acked <= m + 1
    BY <1>1, <1>6 DEF UpOK, UpType, m
  <2>2. x.acked > 0 => x.acked - 1 \in 0 .. m /\ x.acked \in 1 .. m
    <3> DEFINE a == x.acked
    <3>1. m \in Nat /\ a \in 0 .. m
      BY <1>1, <2>1
    <3>2. a > 0 => a - 1 \in 0 .. m /\ a \in 1 .. m
      <4> HIDE DEF a
      <4> QED
        BY ONLY <3>1
    <3> QED
      BY <3>2
  <2>3. /\ End(t2, x.acked) = End(t, x.acked)
        /\ Frames(t2, x.acked) = Frames(t, x.acked)
        /\ x.acked > 0 => /\ Frames(t2, x.acked - 1) = Frames(t, x.acked - 1)
                          /\ t2.pkts[x.acked] = t.pkts[x.acked]
    BY <1>4, <2>1, <2>2
  <2>4. UpOK(t2, x)
    BY <1>4, <1>6, <2>1, <2>3 DEF UpOK
  <2> QED
    BY <2>3, <2>4 DEF FirstOf
<1> QED
  BY <1>3, <1>5, <1>6 DEF p

\* A call leaves x: the packets may be others, the rest went on.
Onward(s, x) ==
    /\ LET t == s.track
           t2 == x.track
       IN  /\ t2.state = t.state /\ t2.pub = t.pub
           /\ t2.detached = t.detached /\ t2.keep = t.keep
           /\ t2.oerr = t.oerr /\ t2.blocked = t.blocked
           /\ t.written <= t2.written /\ t.tail <= t2.tail
           /\ t.forced => t2.forced
    /\ x.queue = s.queue
    /\ \A u \in Upstreams : s.up[u].acked <= x.up[u].acked
    /\ s.queue = << >> => x.track.head = s.track.head
\* What goes on, goes on.
LEMMA GoesOnward ==
    ASSUME NEW s \in StateType, NEW x \in StateType, NEW y \in StateType,
           Onward(s, x), Goes(x, y)
    PROVE  Onward(s, y)
<1>1. PICK m \in Nat : Steps(x, y, m)
  BY DEF Goes
<1>2. /\ s.track \in TrackType /\ x.track \in TrackType
      /\ y.track \in TrackType
  BY StateParts
<1> DEFINE a == s.track
           b == x.track
           c == y.track
<1>3. Later(b, c, m)
  BY <1>1 DEF Steps
<1>4. a.written <= c.written /\ a.tail <= c.tail
  <2>1. /\ a.written <= b.written /\ b.written <= c.written
        /\ a.tail <= b.tail /\ b.tail <= c.tail
    BY <1>3 DEF Onward, Later
  <2>2. /\ a.written \in Nat /\ b.written \in Nat /\ c.written \in Nat
        /\ a.tail \in Int /\ b.tail \in Int /\ c.tail \in Int
    BY <1>2 DEF TrackType
  <2> HIDE DEF a, b, c
  <2> QED
    BY <2>1, <2>2
<1>5. \A u \in Upstreams : s.up[u].acked <= y.up[u].acked
  <2> SUFFICES ASSUME NEW u \in Upstreams
               PROVE  s.up[u].acked <= y.up[u].acked
    OBVIOUS
  <2>1. s.up[u] \in UpType /\ x.up[u] \in UpType /\ y.up[u] \in UpType
    BY StateParts
  <2>2. s.up[u].acked <= x.up[u].acked /\ x.up[u].acked <= y.up[u].acked
    BY <1>1 DEF Onward, Steps
  <2> QED
    BY <2>1, <2>2 DEF UpType
<1>6. /\ c.state = a.state /\ c.pub = a.pub /\ c.detached = a.detached
      /\ c.keep = a.keep /\ c.oerr = a.oerr /\ c.blocked = a.blocked
      /\ a.forced => c.forced
  BY <1>3 DEF Onward, Later
<1> QED
  BY <1>1, <1>4, <1>5, <1>6 DEF Onward, Steps

\* A packet is put at the end of the log.
LEMMA NewPacketGood ==
    ASSUME NEW s, Good(conf, s), NEW type \in PacketTypes,
           NEW n \in Nat \ {0}, type = "open" => s.track.blocked,
           NEW x, x = NewPacket(s, type, n)
    PROVE  /\ Good(conf, x) /\ Onward(s, x) /\ x.rc = s.rc
           /\ Opened(s.track, x.track, type, n)
           /\ x.track.written = s.track.written
           /\ x.track.tail = s.track.tail
<1> DEFINE t == s.track
           k == Len(t.pkts)
           p == Packet(t, type, n)
<1>1. /\ s \in StateType /\ t \in TrackType /\ conf \in Confs
      /\ Sound(conf, s) /\ Resuming(conf, s)
  BY StateParts DEF Good, Sound
<1>2. t.written \in Nat /\ t.tail \in Int /\ t.appended \in Nat
  <2> HIDE DEF t
  <2> QED
    BY <1>1 DEF TrackType
<1>3. \A u \in Upstreams : s.up[u].acked <= s.up[u].acked
  BY <1>1, StepsNothing DEF Steps
<1>4. CASE t.written < End(t, k)
  <2> DEFINE y == Alert(s, "inside packet")
  <2>1. x = y /\ y = Alert(s, "inside packet")
    BY <1>4 DEF NewPacket
  <2>2. /\ "inside packet" \in AlertNames
        /\ "inside packet" # "open header sent"
        /\ "inside packet" # "released buffer"
        /\ "inside packet" \notin {"stale read", "bad packet",
                                  "limit not found"}
    BY DEF AlertNames
  <2> HIDE DEF y
  <2>3. /\ Good(conf, y) /\ Steps(s, y, 0) /\ SameLog(s.track, y.track)
        /\ y.rc = s.rc
    <3>1. "inside packet" = "released buffer" => "unchecked" \in conf.writers
      BY ONLY <2>2
    <3>2. "inside packet" \in {"stale read", "bad packet", "limit not found"}
                => ~Calm(conf)
      BY ONLY <2>2
    <3>3. /\ "inside packet" \in AlertNames
          /\ "inside packet" # "open header sent"
      BY ONLY <2>2
    <3> QED
      BY ONLY Good(conf, s), <2>1, <3>1, <3>2, <3>3, AlertGood
  <2>4. /\ Good(conf, x) /\ Steps(s, x, 0) /\ SameLog(t, x.track)
        /\ x.rc = s.rc
    BY <2>1, <2>3
  <2>5. x \in StateType
    BY <2>4 DEF Good, Sound
  <2>6. Onward(s, s)
    BY <1>2, <1>3 DEF Onward
  <2>7. Onward(s, x)
    BY <1>1, <2>4, <2>5, <2>6, GoesOnward DEF Goes
  <2> QED
    BY <1>4, <2>4, <2>7 DEF Opened, SameLog
<1>5. CASE ~(t.written < End(t, k))
  <2> DEFINE t2 == [t EXCEPT !.pkts = Append(@, p)]
  <2>1. x = SetTrack(s, t2)
    BY <1>5 DEF NewPacket, Packet, SetTrack
  <2>2. p \in PacketType /\ t.pkts \in Seq(PacketType)
    <3>1. End(t, k) \in Nat /\ Frames(t, k) \in Nat /\ t.pkts \in Seq(PacketType)
      <4>1. k \in Nat /\ k \in 0 .. k
        BY <1>1, LogNumbers
      <4> QED
        BY <1>1, <4>1, LogNumbers
    <3>2. t.written + n \in Nat
          /\ Frames(t, k) + (IF type = "frame" THEN 1 ELSE 0) \in Nat
      BY <1>2, <3>1
    <3> QED
      BY <3>1, <3>2 DEF PacketType, Packet
  <2> HIDE DEF p, t
  <2>3. Append(t.pkts, p) \in Seq(PacketType)
    BY <2>2
  <2>4. /\ t2 \in TrackType /\ t2.written = t.written
        /\ t2.pkts = Append(t.pkts, p) /\ t2.head = t.head
        /\ t2.tail = t.tail /\ t2.nfree = t.nfree /\ t2.oerr = t.oerr
        /\ t2.blocked = t.blocked /\ t2.forced = t.forced
        /\ t2.alerts = t.alerts /\ t2.appended = t.appended
        /\ t2.state = t.state /\ t2.pub = t.pub
        /\ t2.detached = t.detached /\ t2.keep = t.keep
    BY <1>1, <2>3 DEF TrackType
  <2> HIDE DEF t2
  <2>5. /\ x \in StateType /\ x.track = t2 /\ x.up = s.up
        /\ x.queue = s.queue /\ x.faults = s.faults /\ x.rc = s.rc
    BY <1>1, <2>1, <2>4, TrackFields
  <2>6. /\ LogOK(t) /\ MemoryOK(conf, t, s.queue) /\ HeadersOK(t)
        /\ AlertsOK(conf, t) /\ UpsOK(t, s.up, s.queue)
    BY <1>1 DEF Sound, t
  <2>7. /\ LogOK(t2)
        /\ \A y \in UpType : UpOK(t, y) =>
                /\ UpOK(t2, y) /\ End(t2, y.acked) = End(t, y.acked)
                /\ Frames(t2, y.acked) = Frames(t, y.acked)
                /\ FirstOf(t, y.acked) => FirstOf(t2, y.acked)
    BY <1>1, <1>5, <2>4, <2>6, OpenedLog DEF p
  <2>8. /\ Len(t2.pkts) = k + 1 /\ k \in Nat /\ DOMAIN t2.pkts = 1 .. k + 1
        /\ \A j \in 1 .. k : t2.pkts[j] = t.pkts[j]
        /\ t2.pkts[k + 1] = p /\ DOMAIN t.pkts = 1 .. k
    BY <1>1, <2>2, <2>4, MorePackets, LogNumbers
  <2>9. MemoryOK(conf, t2, s.queue)
    BY <2>4, <2>6 DEF MemoryOK, Fits
  <2>10. HeadersOK(t2)
    <3>1. p.type = type
      BY DEF p, Packet
    <3> SUFFICES ASSUME ~t2.oerr
                 PROVE  /\ "open header sent" \notin t2.alerts
                        /\ ~t2.blocked =>
                            \A j \in DOMAIN t2.pkts : t2.pkts[j].type # "open"
      BY DEF HeadersOK
    <3>2. /\ "open header sent" \notin t.alerts
          /\ ~t.blocked => \A j \in DOMAIN t.pkts : t.pkts[j].type # "open"
      BY <2>4, <2>6 DEF HeadersOK
    <3>3. ASSUME ~t2.blocked, NEW j \in DOMAIN t2.pkts
          PROVE  t2.pkts[j].type # "open"
      <4>1. CASE j <= k
        <5>1. j \in 1 .. k
          BY <2>8, <4>1
        <5> QED
          BY <2>4, <2>8, <3>2, <3>3, <5>1
      <4>2. CASE ~(j <= k)
        <5>1. j = k + 1
          BY <2>8, <4>2
        <5> QED
          BY <2>4, <2>8, <3>1, <3>3, <5>1 DEF t
      <4> QED
        BY <4>1, <4>2
    <3> QED
      BY <2>4, <3>2, <3>3
  <2>11. AlertsOK(conf, t2)
    BY <2>4, <2>6 DEF AlertsOK
  <2>12. UpsOK(t2, s.up, s.queue)
    <3>1. \A u \in ToSet(s.queue) : s.up[u] \in UpType
      BY <1>1, StateParts
    <3> QED
      BY <2>6, <2>7, <3>1 DEF UpsOK
  <2>13. Resuming(conf, x)
    <3> SUFFICES ASSUME NEW u \in ToSet(s.queue)
                 PROVE  Resumes(conf, t2, s.up[u], u)
      BY <2>5 DEF Resuming
    <3>1. Resumes(conf, t, s.up[u], u)
      BY <1>1 DEF Resuming, t
    <3>2. s.up[u] \in UpType /\ UpOK(t, s.up[u])
      BY <1>1, <2>6, StateParts DEF UpsOK
    <3> QED
      BY <2>4, <2>7, <3>1, <3>2 DEF Resumes, Readable
  <2>14. Good(conf, x)
    BY <1>1, <2>5, <2>7, <2>9, <2>10, <2>11, <2>12, <2>13 DEF Good, Sound
  <2>15. Onward(s, x)
    <3>1. t.written <= t2.written /\ t.tail <= t2.tail
      BY <1>2, <2>4
    <3> QED
      BY <1>3, <2>4, <2>5, <3>1 DEF Onward, t
  <2> QED
    BY <1>5, <2>4, <2>5, <2>14, <2>15 DEF Opened, t, p
<1> QED
  BY <1>4, <1>5

\* A packet of n + 1 units was written from s, or there was an error.
Writes(s, x, type, n) ==
    /\ Good(conf, x) /\ Onward(s, x) /\ (Fits(s.track) => Fits(x.track))
    /\ Opened(s.track, x.track, type, 1 + n)
    /\ x.rc # "error" =>
            x.track.written = s.track.written + 1 + n /\ x.track.tail >= 0

\* A packet is written.
LEMMA WritePacketGood ==
    ASSUME NEW s, Good(conf, s), Owned(conf, s.track),
           NEW type \in PacketTypes, type = "open" => s.track.blocked,
           NEW n \in Nat, NEW x \in WritePacket(s, type, n)
    PROVE  Writes(s, x, type, n)
<1> DEFINE y == NewPacket(s, type, 1 + n)
<1>1. PICK z \in WriteChain(y, 1) :
        x \in IF z.rc = "error" \/ n = 0 THEN {z} ELSE WriteChain(z, n)
  BY DEF WritePacket, Then
<1>2. y = NewPacket(s, type, 1 + n) /\ 1 + n \in Nat \ {0}
  OBVIOUS
<1> HIDE DEF y
<1>3. /\ Good(conf, y) /\ Onward(s, y)
      /\ Opened(s.track, y.track, type, 1 + n)
      /\ y.track.written = s.track.written
      /\ y.track.tail = s.track.tail
  BY <1>2, NewPacketGood
<1>4. s \in StateType /\ y \in StateType /\ s.track \in TrackType
  BY <1>3, StateParts DEF Good, Sound
<1>5. ASSUME NEW a \in StateType, Goes(y, a)
      PROVE  Onward(s, a) /\ Opened(s.track, a.track, type, 1 + n)
  <2>1. a.track.pkts = y.track.pkts
    BY <1>5 DEF Goes, Steps, Later
  <2>2. Onward(s, a)
    BY <1>3, <1>4, <1>5, GoesOnward
  <2> QED
    BY <1>3, <2>1, <2>2 DEF Opened
<1>6. Wrote(y, z, 1)
  <2>1. Owned(conf, y.track)
    BY <1>3 DEF Owned
  <2> QED
    BY <1>1, <1>3, <2>1, WriteChainGood
<1>7. z \in StateType /\ Good(conf, z) /\ Goes(y, z)
  BY <1>6 DEF Wrote, Good, Sound
<1>11. /\ Fits(s.track) => Fits(y.track)
       /\ Fits(y.track) => Fits(z.track)
  BY <1>3, <1>6 DEF Fits, Wrote
<1>8. s.track.written \in Nat
  BY <1>4 DEF TrackType
<1>9. CASE z.rc = "error" \/ n = 0
  <2>1. x = z
    BY <1>1, <1>9
  <2>2. z.rc # "error" => /\ z.track.written = s.track.written + 1 + n
                          /\ z.track.tail >= 0
    BY <1>3, <1>6, <1>8, <1>9 DEF Wrote
  <2> QED
    BY <1>5, <1>7, <1>11, <2>1, <2>2 DEF Writes
<1>10. CASE ~(z.rc = "error" \/ n = 0)
  <2>1. z.track.written = s.track.written + 1 /\ z.track.tail >= 0
    BY <1>3, <1>6, <1>10 DEF Wrote
  <2>2. Owned(conf, z.track)
    <3>1. z.track.tail \in Int
      BY <1>7, StateParts DEF TrackType
    <3> QED
      BY <2>1, <3>1 DEF Owned
  <2>3. Wrote(z, x, n)
    BY <1>1, <1>7, <1>10, <2>2, WriteChainGood
  <2>4. x \in StateType /\ Good(conf, x) /\ Goes(z, x)
    BY <2>3 DEF Wrote, Good, Sound
  <2>5. Goes(y, x)
    BY <1>4, <1>7, <2>4, GoesTwice
  <2>6. x.rc # "error" => /\ x.track.written = s.track.written + 1 + n
                          /\ x.track.tail >= 0
    BY <2>1, <2>3 DEF Wrote
  <2>7. Fits(z.track) => Fits(x.track)
    BY <2>3 DEF Wrote
  <2> QED
    BY <1>5, <1>11, <2>4, <2>5, <2>6, <2>7 DEF Writes
<1> QED
  BY <1>9, <1>10

-----------------------------------------------------------------------------
(* Errors, and the end of a track *)
\* The same bytes in the same buffers
Bytes(t, t2) ==
    /\ t2.pkts = t.pkts /\ t2.written = t.written /\ t2.appended = t.appended
    /\ t2.head = t.head /\ t2.tail = t.tail /\ t2.nfree = t.nfree
    /\ t2.forced = t.forced /\ t2.alerts = t.alerts
\* What is good depends on little else.
LEMMA BytesGood ==
    ASSUME NEW g, NEW s, Good(g, s), NEW x \in StateType,
           x.up = s.up, x.queue = s.queue, x.faults = s.faults,
           Bytes(s.track, x.track), HeadersOK(x.track)
    PROVE  Good(g, x)
<1> DEFINE t == s.track
           t2 == x.track
<1>1. /\ LogOK(t) /\ MemoryOK(g, t, s.queue) /\ AlertsOK(g, t)
      /\ UpsOK(t, s.up, s.queue) /\ Bytes(t, t2)
  BY DEF Good, Sound
<1>2. \A u \in ToSet(s.queue) : Resumes(g, t, s.up[u], u)
  BY DEF Good, Resuming
<1> HIDE DEF t, t2
<1>3. LogOK(t2)
  BY <1>1 DEF LogOK, Bytes, End, Frames
<1>4. MemoryOK(g, t2, s.queue) /\ AlertsOK(g, t2)
  BY <1>1 DEF MemoryOK, AlertsOK, Bytes, Fits
<1>5. UpsOK(t2, s.up, s.queue)
  BY <1>1 DEF UpsOK, UpOK, Bytes, End
<1>6. Resuming(g, x)
  <2> SUFFICES ASSUME NEW u \in ToSet(s.queue)
               PROVE  Resumes(g, t2, s.up[u], u)
    BY DEF Resuming, t2
  <2> QED
    BY <1>1, <1>2, ResumesSame DEF Bytes
<1> QED
  BY <1>3, <1>4, <1>5, <1>6 DEF Good, Sound, t2

\* An upstream that was freed
LEMMA GoneUp ==
    LET y == [NoUpstream EXCEPT !.used = TRUE]
    IN  NoUpstream \in UpType /\ y \in UpType /\ UpGone(y) /\ UpGone(NoUpstream)
<1>1. NoUpstream \in UpType
  BY DEF NoUpstream, UpType
<1>2. [NoUpstream EXCEPT !.used = TRUE] \in UpType
  BY <1>1 DEF UpType
<1> QED
  BY <1>1, <1>2 DEF UpGone

\* An upstream of the list is freed.
LEMMA FreeUpstreamGood ==
    ASSUME NEW s, Good(conf, s), NEW u \in ToSet(s.queue),
           NEW x, x = FreeUpstream(s, u)
    PROVE  /\ Good(conf, x) /\ x.track = s.track /\ x.rc = s.rc
           /\ ToSet(x.queue) = ToSet(s.queue) \ {u}
           /\ \A v \in Upstreams \ {u} : x.up[v] = s.up[v]
<1> DEFINE q == RemoveAt(s.queue, CHOOSE i \in DOMAIN s.queue :
                                        s.queue[i] = u)
           z == [NoUpstream EXCEPT !.used = TRUE]
<1>1. /\ s \in StateType /\ u \in Upstreams /\ Sound(conf, s)
      /\ UpsOK(s.track, s.up, s.queue) /\ Resuming(conf, s)
      /\ MemoryOK(conf, s.track, s.queue) /\ s.queue \in Seq(Upstreams)
      /\ s.up \in [Upstreams -> UpType]
  BY StateParts DEF Good, Sound
<1>2. /\ q \in Seq(Upstreams) /\ IsInjective(q)
      /\ ToSet(q) = ToSet(s.queue) \ {u}
  BY <1>1, RemoveOne DEF UpsOK
<1>3. z \in UpType /\ UpGone(z)
  BY GoneUp
<1>4. x = [s EXCEPT !.queue = q, !.up[u] = z]
  BY DEF FreeUpstream
<1> HIDE DEF q, z
<1>5. [s.up EXCEPT ![u] = z] \in [Upstreams -> UpType]
  BY <1>1, <1>3
<1>6. /\ x \in StateType /\ x.track = s.track /\ x.queue = q
      /\ x.up = [s.up EXCEPT ![u] = z]
      /\ x.faults = s.faults /\ x.rc = s.rc
  BY <1>1, <1>2, <1>4, <1>5 DEF StateType
<1>7. x.up[u] = z /\ \A v \in Upstreams \ {u} : x.up[v] = s.up[v]
  BY <1>1, <1>6
<1>8. UpsOK(x.track, x.up, x.queue)
  BY <1>1, <1>2, <1>3, <1>6, <1>7 DEF UpsOK
<1>9. MemoryOK(conf, x.track, x.queue)
  <2>1. s.queue # << >>
    BY DEF ToSet
  <2> QED
    BY <1>1, <1>6, <2>1 DEF MemoryOK
<1>10. Resuming(conf, x)
  BY <1>1, <1>2, <1>6, <1>7 DEF Resuming
<1>11. Sound(conf, x)
  BY <1>1, <1>6, <1>8, <1>9 DEF Sound
<1> QED
  BY <1>2, <1>6, <1>7, <1>10, <1>11 DEF Good

\* The buffers of a track without upstreams are released.
LEMMA CleanupGood ==
    ASSUME NEW s, Good(conf, s), NoPackets(s.track, s.queue),
           EosOK(s.track), WholeOK(s.track), ~s.track.pub,
           s.queue = << >> => s.track.detached \/ s.track.state = "inactive",
           NEW x, x = Cleanup(s)
    PROVE  /\ Good(conf, x) /\ PhaseOK(x.track, x.queue)
           /\ x.up = s.up /\ x.queue = s.queue
           /\ x.track.detached = s.track.detached
           /\ x.track.oerr = s.track.oerr /\ x.track.state = s.track.state
<1> DEFINE t == s.track
           t1 == [t EXCEPT !.flush = FALSE, !.keep = FALSE]
           t2 == [t1 EXCEPT !.head = 0, !.tail = -1, !.nfree = 0,
                            !.freed = t1.detached]
<1>1. /\ s \in StateType /\ t \in TrackType /\ Sound(conf, s)
      /\ MemoryOK(conf, t, s.queue) /\ HeadersOK(t) /\ conf \in Confs
  BY StateParts DEF Good, Sound
<1>2. x = SetTrack(s, IF s.queue # << >> THEN t1 ELSE t2)
  BY DEF Cleanup, SetTrack
<1>3. /\ t1 \in TrackType /\ Bytes(t, t1) /\ HeadersOK(t1)
      /\ t1.detached = t.detached /\ t1.oerr = t.oerr
      /\ t1.blocked = t.blocked /\ t1.pub = t.pub /\ t1.state = t.state
      /\ ~t1.keep
  <2> HIDE DEF t
  <2>1. /\ t1 \in TrackType /\ Bytes(t, t1) /\ t1.alerts = t.alerts
        /\ t1.detached = t.detached /\ t1.oerr = t.oerr
        /\ t1.blocked = t.blocked /\ t1.pub = t.pub /\ t1.state = t.state
        /\ ~t1.keep /\ t1.pkts = t.pkts
    BY <1>1 DEF TrackType, Bytes
  <2> HIDE DEF t1
  <2>2. HeadersOK(t1)
    BY <1>1, <2>1 DEF HeadersOK
  <2> QED
    BY <2>1, <2>2
<1>4. CASE s.queue # << >>
  <2>1. /\ x \in StateType /\ x.track = t1 /\ x.up = s.up
        /\ x.queue = s.queue /\ x.faults = s.faults
    <3>1. x = SetTrack(s, t1)
      BY <1>2, <1>4
    <3> HIDE DEF t1
    <3> QED
      BY <1>1, <1>3, <3>1, TrackFields
  <2> HIDE DEF t1
  <2>2. Good(conf, x)
    BY <1>3, <2>1, BytesGood
  <2>3. PhaseOK(t1, s.queue)
    <3>1. t1.tail # -1
      BY <1>1, <1>3, <1>4 DEF MemoryOK, Bytes
    <3>2. NoPackets(t1, s.queue) /\ EosOK(t1) /\ WholeOK(t1)
      BY <1>3 DEF NoPackets, EosOK, WholeOK, Bytes, End
    <3> QED
      BY <1>3, <3>1, <3>2 DEF PhaseOK, MostOK, PubOK,
                                    NoBuffers, KeepOK
  <2> QED
    BY <1>3, <2>1, <2>2, <2>3
<1>5. CASE s.queue = << >>
  <2> HIDE DEF t1
  <2>1. /\ t2 \in TrackType /\ t2.head = 0 /\ t2.tail = -1 /\ t2.nfree = 0
        /\ t2.pkts = t1.pkts /\ t2.written = t1.written
        /\ t2.appended = t1.appended /\ t2.oerr = t1.oerr
        /\ t2.blocked = t1.blocked /\ t2.forced = t1.forced
        /\ t2.alerts = t1.alerts /\ t2.detached = t1.detached
        /\ t2.keep = t1.keep /\ t2.pub = t1.pub /\ t2.state = t1.state
    <3> DEFINE m == -1
               d == t1.detached
               t3 == [t1 EXCEPT !.head = 0, !.tail = m]
    <3>1. t1 \in TrackType /\ m \in Int /\ d \in BOOLEAN
          /\ t2 = [t3 EXCEPT !.nfree = 0, !.freed = d]
      BY <1>3 DEF TrackType
    <3> HIDE DEF m, d
    <3>2. /\ t3 \in TrackType /\ t3.head = 0 /\ t3.tail = m
          /\ t3.pkts = t1.pkts /\ t3.written = t1.written
          /\ t3.appended = t1.appended /\ t3.oerr = t1.oerr
          /\ t3.blocked = t1.blocked /\ t3.forced = t1.forced
          /\ t3.alerts = t1.alerts /\ t3.detached = t1.detached
          /\ t3.keep = t1.keep /\ t3.pub = t1.pub /\ t3.state = t1.state
      <4> HIDE DEF t1, t2
      <4>1. t1 \in TrackType /\ m \in Int
        BY <3>1
      <4> QED
        BY ONLY <4>1 DEF TrackType
    <3> HIDE DEF t2, t3
    <3>3. t2 \in TrackType /\ t2.nfree = 0
      <4>1. t3 \in TrackType /\ d \in BOOLEAN
            /\ t2 = [t3 EXCEPT !.nfree = 0, !.freed = d]
        BY <3>1, <3>2
      <4> QED
        BY ONLY <4>1 DEF TrackType
    <3>4. /\ t2.head = t3.head /\ t2.tail = t3.tail
          /\ t2.pkts = t3.pkts /\ t2.written = t3.written
          /\ t2.appended = t3.appended /\ t2.oerr = t3.oerr
          /\ t2.blocked = t3.blocked /\ t2.forced = t3.forced
          /\ t2.alerts = t3.alerts /\ t2.detached = t3.detached
          /\ t2.keep = t3.keep /\ t2.pub = t3.pub /\ t2.state = t3.state
      BY <3>1, <3>2 DEF TrackType
    <3>5. m = -1
      BY DEF m
    <3> QED
      BY ONLY <3>2, <3>3, <3>4, <3>5
  <2>2. /\ x \in StateType /\ x.track = t2 /\ x.up = s.up
        /\ x.queue = s.queue /\ x.faults = s.faults
    <3>1. x = SetTrack(s, t2)
      BY <1>2, <1>5
    <3> HIDE DEF t2
    <3> QED
      BY <1>1, <2>1, <3>1, TrackFields
  <2> HIDE DEF t2
  <2>3. LogOK(t2)
    <3>1. LogOK(t)
      BY DEF Good, Sound
    <3> QED
      BY <1>3, <2>1, <3>1 DEF LogOK, End, Frames, Bytes
  <2>4. MemoryOK(conf, t2, x.queue)
    <3>1. conf.memLimit \in Nat
      BY <1>1, ConfAssumption DEF ConfType
    <3> QED
      BY <1>5, <2>1, <2>2, <3>1 DEF MemoryOK
  <2>5. HeadersOK(t2) /\ AlertsOK(conf, t2)
    BY <1>3, <2>1 DEF Good, Sound, HeadersOK, AlertsOK, Bytes
  <2>6. UpsOK(t2, x.up, x.queue) /\ Resuming(conf, x)
    <3>1. ToSet(s.queue) = {}
      BY <1>5 DEF ToSet
    <3>2. UpsOK(s.track, s.up, s.queue)
      BY DEF Good, Sound
    <3> QED
      BY <2>2, <3>1, <3>2 DEF UpsOK, Resuming
  <2>7. Good(conf, x)
    BY <1>1, <2>2, <2>3, <2>4, <2>5, <2>6 DEF Good, Sound
  <2>8. PhaseOK(t2, s.queue)
    <3>1. NoPackets(t2, s.queue)
      BY <1>5, <2>1 DEF NoPackets
    <3>2. EosOK(t2) /\ WholeOK(t2)
      BY <1>3, <2>1 DEF EosOK, WholeOK, Bytes, End
    <3> QED
      BY <1>3, <1>5, <2>1, <3>1, <3>2 DEF PhaseOK, MostOK, PubOK,
                                    NoBuffers, KeepOK
  <2> QED
    BY <1>3, <2>1, <2>2, <2>7, <2>8
<1> QED
  BY <1>4, <1>5

\* The phase depends on little.
LEMMA SamePhase ==
    ASSUME NEW t, NEW t2, NEW q, t2.pkts = t.pkts, t2.written = t.written,
           t2.head = t.head, t2.tail = t.tail, t2.state = t.state,
           t2.pub = t.pub, t2.detached = t.detached, t2.keep = t.keep,
           MostOK(t, q)
    PROVE  /\ MostOK(t2, q)
           /\ WholeOK(t) /\ t2.oerr = t.oerr /\ t2.blocked = t.blocked
                => WholeOK(t2)
           /\ t2.oerr => WholeOK(t2)
<1>1. MostOK(t2, q)
  BY DEF MostOK, PubOK, NoPackets, NoBuffers, KeepOK, EosOK
<1>2. \A k : End(t2, k) = End(t, k)
  BY DEF End
<1> QED
  BY <1>1, <1>2 DEF WholeOK

\* The owner gets an error.
LEMMA OwnerErrorGood ==
    ASSUME NEW s, Good(conf, s), MostOK(s.track, s.queue),
           NEW x, x = OwnerError(s)
    PROVE  /\ Good(conf, x) /\ PhaseOK(x.track, x.queue)
           /\ x.up = s.up /\ x.queue = s.queue
           /\ x.track.detached = s.track.detached
           /\ x.track.oerr
<1> DEFINE t == s.track
           c == IF t.cause = "none" THEN "other" ELSE t.cause
           t2 == [t EXCEPT !.oerr = TRUE, !.cause = c]
           y == SetTrack(s, t2)
<1>1. /\ s \in StateType /\ t \in TrackType
  BY StateParts DEF Good, Sound
<1>2. x = Rc(y, "ok")
  BY <1>1 DEF OwnerError, SetTrack, Rc, StateType, TrackType
<1>3. c \in {"none", "memory", "optional", "other"}
  <2> HIDE DEF t
  <2> QED
    BY <1>1 DEF TrackType
<1> HIDE DEF c
<1>4. /\ t2 \in TrackType /\ Bytes(t, t2) /\ t2.oerr
      /\ t2.state = t.state /\ t2.pub = t.pub
      /\ t2.detached = t.detached /\ t2.keep = t.keep
  <2> HIDE DEF t
  <2> QED
    BY <1>1, <1>3 DEF TrackType, Bytes
<1>5. y = SetTrack(s, t2)
  OBVIOUS
<1> HIDE DEF t2, y
<1>6. /\ y \in StateType /\ y.track = t2 /\ y.up = s.up
      /\ y.queue = s.queue /\ y.faults = s.faults
  BY <1>1, <1>4, <1>5, TrackFields
<1>7. /\ x \in StateType /\ x.track = y.track /\ x.up = y.up
      /\ x.queue = y.queue /\ x.faults = y.faults
  BY <1>2, <1>6, RcFields
<1>8. HeadersOK(x.track)
  BY <1>4, <1>6, <1>7 DEF HeadersOK
<1>9. Good(conf, x)
  BY <1>4, <1>6, <1>7, <1>8, BytesGood
<1>10. PhaseOK(t2, s.queue)
  BY <1>4, SamePhase DEF Bytes, PhaseOK
<1> QED
  BY <1>4, <1>6, <1>7, <1>9, <1>10

\* What is done on an error of the track
LEMMA TrackErrorGood ==
    ASSUME NEW s, Good(conf, s), MostOK(s.track, s.queue),
           s.track.detached => WholeOK(s.track),
           NEW x, x = TrackError(s)
    PROVE  /\ Good(conf, x) /\ PhaseOK(x.track, x.queue)
           /\ x.up = s.up /\ x.queue = s.queue
           /\ x.track.detached = s.track.detached
           /\ ~x.track.detached => x.track.oerr
<1>1. CASE s.track.detached
  <2> DEFINE y == Cleanup(s)
  <2>1. x = Rc(y, "ok") /\ y = Cleanup(s)
    BY <1>1 DEF TrackError
  <2> HIDE DEF y
  <2>2. /\ Good(conf, y) /\ PhaseOK(y.track, y.queue)
        /\ y.up = s.up /\ y.queue = s.queue
        /\ y.track.detached = s.track.detached
    <3>1. ~s.track.pub
      BY <1>1 DEF MostOK, PubOK
    <3> QED
      BY <1>1, <2>1, <3>1, CleanupGood DEF MostOK
  <2>3. y \in StateType /\ y.faults <= conf.maxFaults
    BY <2>2 DEF Good, Sound
  <2>4. /\ x \in StateType /\ x.track = y.track /\ x.up = y.up
        /\ x.queue = y.queue /\ x.faults = y.faults
    BY <2>1, <2>3, RcFields
  <2>5. Good(conf, x)
    BY <2>2, <2>3, <2>4, GoodSame DEF Good
  <2> QED
    BY <1>1, <2>2, <2>4, <2>5
<1>2. CASE ~s.track.detached
  <2>1. x = OwnerError(s)
    BY <1>2 DEF TrackError
  <2> QED
    BY <2>1, OwnerErrorGood
<1> QED
  BY <1>1, <1>2

\* An upstream that remains keeps its place.  The loss of one is told to the
\* owner of a track that is attached, if it was required or the last.
Handled(g, s, x) ==
    /\ \A u \in ToSet(s.queue) \cap ToSet(x.queue) :
            s.up[u].acked <= x.up[u].acked
    /\ \A u \in ToSet(s.queue) \ ToSet(x.queue) :
            (g.required[u] \/ x.queue = << >>) /\ ~x.track.detached
                => x.track.oerr
\* A call that concerns u comes first.
LEMMA TouchHandled ==
    ASSUME NEW g, NEW s \in StateType, NEW u \in Upstreams, NEW y,
           Touches(s, y, u), NEW x \in StateType, Handled(g, y, x)
    PROVE  Handled(g, s, x)
<1>1. \A v \in ToSet(s.queue) \cap ToSet(x.queue) :
            s.up[v].acked <= x.up[v].acked
  <2> SUFFICES ASSUME NEW v \in ToSet(s.queue) \cap ToSet(x.queue)
               PROVE  s.up[v].acked <= x.up[v].acked
    OBVIOUS
  <2>1. y \in StateType /\ y.queue = s.queue /\ v \in Upstreams
    BY StateParts DEF Touches
  <2>2. /\ s.up[v] \in UpType /\ x.up[v] \in UpType /\ y.up[v] \in UpType
    BY <2>1, StateParts
  <2>3. s.up[v].acked <= y.up[v].acked
    BY <2>1, TouchSteps DEF Steps
  <2>4. y.up[v].acked <= x.up[v].acked
    BY <2>1 DEF Handled
  <2> QED
    BY <2>2, <2>3, <2>4 DEF UpType
<1> QED
  BY <1>1 DEF Handled, Touches

\* An upstream is freed, and the owner told if that matters.
LEMMA FreeNotifyGood ==
    ASSUME NEW s, Good(conf, s), PhaseOK(s.track, s.queue),
           NEW u \in ToSet(s.queue), NEW x, x = FreeNotify(s, u)
    PROVE  Good(conf, x) /\ PhaseOK(x.track, x.queue) /\ Handled(conf, s, x)
<1> DEFINE y == FreeUpstream(s, u)
<1>1. /\ x = IF ~conf.required[u] /\ y.queue # << >> THEN Rc(y, "ok")
             ELSE TrackError(y)
      /\ y = FreeUpstream(s, u)
  BY DEF FreeNotify
<1> HIDE DEF y
<1>2. /\ Good(conf, y) /\ y.track = s.track
      /\ ToSet(y.queue) = ToSet(s.queue) \ {u}
      /\ \A v \in Upstreams \ {u} : y.up[v] = s.up[v]
  BY <1>1, FreeUpstreamGood
<1>3. /\ s \in StateType /\ y \in StateType /\ u \in Upstreams
      /\ y.faults <= conf.maxFaults /\ conf \in Confs
      /\ ToSet(s.queue) \subseteq Upstreams
  BY <1>2, StateParts DEF Good, Sound
<1>4. PhaseOK(y.track, y.queue)
  <2>1. s.queue # << >>
    BY DEF ToSet
  <2> QED
    BY <1>2, <2>1 DEF PhaseOK, MostOK, PubOK, NoPackets
<1>5. \A v \in Upstreams : s.up[v].acked <= s.up[v].acked
  BY <1>3, StepsNothing DEF Steps
<1>6. ASSUME x.up = y.up, x.queue = y.queue,
             (conf.required[u] \/ x.queue = << >>) /\ ~x.track.detached
                => x.track.oerr
      PROVE  Handled(conf, s, x)
  BY <1>2, <1>3, <1>5, <1>6 DEF Handled
<1>7. CASE ~conf.required[u] /\ y.queue # << >>
  <2>1. /\ x \in StateType /\ x.track = y.track /\ x.up = y.up
        /\ x.queue = y.queue /\ x.faults = y.faults
    BY <1>1, <1>3, <1>7, RcFields
  <2>2. Good(conf, x)
    BY <1>2, <1>3, <2>1, GoodSame DEF Good
  <2> QED
    BY <1>4, <1>6, <1>7, <2>1, <2>2
<1>8. CASE ~(~conf.required[u] /\ y.queue # << >>)
  <2>1. x = TrackError(y)
    BY <1>1, <1>8
  <2>2. /\ Good(conf, x) /\ PhaseOK(x.track, x.queue)
        /\ x.up = y.up /\ x.queue = y.queue
        /\ ~x.track.detached => x.track.oerr
    BY <1>2, <1>4, <2>1, TrackErrorGood DEF PhaseOK
  <2> QED
    BY <1>6, <2>2
<1> QED
  BY <1>7, <1>8

\* An error of an upstream: it is connected again, or freed.
LEMMA UpstreamErrorGood ==
    ASSUME NEW s, Good(conf, s), PhaseOK(s.track, s.queue),
           NEW u \in ToSet(s.queue), NEW x \in UpstreamError(s, u)
    PROVE  Good(conf, x) /\ PhaseOK(x.track, x.queue) /\ Handled(conf, s, x)
<1> DEFINE r == Rc(s, "ok")
<1>1. PICK y \in Republish(r, u) :
            x = IF y.rc = "ok" THEN y ELSE FreeNotify(y, u)
  BY DEF UpstreamError
<1>2. s \in StateType /\ u \in Upstreams /\ s.faults <= conf.maxFaults
  BY StateParts DEF Good, Sound
<1>3. /\ r \in StateType /\ r.track = s.track /\ r.up = s.up
      /\ r.queue = s.queue /\ r.faults = s.faults
  BY <1>2, RcFields
<1> HIDE DEF r
<1>4. Good(conf, r) /\ Touches(s, r, u) /\ u \in ToSet(r.queue)
  BY <1>2, <1>3, GoodSame, TouchNothing DEF Good, Touches
<1>5. Good(conf, y) /\ Touches(r, y, u)
  BY <1>1, <1>4, RepublishGood DEF Good
<1>6. Touches(s, y, u) /\ y \in StateType
  BY <1>2, <1>4, <1>5, TouchTwice DEF Touches
<1>7. PhaseOK(y.track, y.queue) /\ u \in ToSet(y.queue)
  <2>1. SameLog(s.track, y.track) /\ y.queue = s.queue
    BY <1>6 DEF Touches
  <2> QED
    BY <2>1, SamePhase DEF SameLog, PhaseOK
<1>8. CASE y.rc = "ok"
  <2>1. \A v \in Upstreams : y.up[v].acked <= y.up[v].acked
    BY <1>6, StepsNothing DEF Steps
  <2>2. Handled(conf, y, y)
    BY <1>6, <2>1, StateParts DEF Handled
  <2>3. Handled(conf, s, y)
    BY <1>2, <1>6, <2>2, TouchHandled
  <2> QED
    BY <1>1, <1>5, <1>7, <1>8, <2>3
<1>9. CASE y.rc # "ok"
  <2>1. x = FreeNotify(y, u)
    BY <1>1, <1>9
  <2>2. /\ Good(conf, x) /\ PhaseOK(x.track, x.queue)
        /\ Handled(conf, y, x)
    BY <1>5, <1>7, <2>1, FreeNotifyGood
  <2>3. x \in StateType
    BY <2>2 DEF Good, Sound
  <2> QED
    BY <1>2, <1>6, <2>2, <2>3, TouchHandled
<1> QED
  BY <1>8, <1>9

\* The phase but for the keepalive timer and for errors
Rest(t, q) == PubOK(t, q) /\ NoPackets(t, q) /\ NoBuffers(t) /\ EosOK(t)

\* A call that writes nothing leaves the phase, and takes no upstream.
LEMMA StepsPhase ==
    ASSUME NEW s \in StateType, NEW x \in StateType, Steps(s, x, 0),
           Rest(s.track, s.queue)
    PROVE  /\ Rest(x.track, x.queue) /\ Handled(conf, s, x)
           /\ MostOK(s.track, s.queue) => MostOK(x.track, x.queue)
           /\ WholeOK(s.track) => WholeOK(x.track)
<1>1. s.track \in TrackType /\ x.track \in TrackType
  BY StateParts
<1>2. /\ x.track.written = s.track.written /\ x.track.tail = s.track.tail
      /\ x.track.pkts = s.track.pkts /\ x.track.state = s.track.state
      /\ x.track.pub = s.track.pub /\ x.track.keep = s.track.keep
      /\ x.track.detached = s.track.detached
      /\ x.track.oerr = s.track.oerr /\ x.track.blocked = s.track.blocked
  BY StepsFits DEF Steps, Later
<1>3. /\ x.queue = s.queue
      /\ s.queue = << >> => x.track.head = s.track.head
  BY DEF Steps
<1>4. Rest(x.track, x.queue)
  BY <1>2, <1>3 DEF Rest, PubOK, NoPackets, NoBuffers, EosOK
<1>7. MostOK(s.track, s.queue) => MostOK(x.track, x.queue)
  BY <1>2, <1>4 DEF MostOK, Rest, KeepOK
<1>5. Handled(conf, s, x)
  BY <1>3, StateParts DEF Handled, Steps
<1>6. WholeOK(s.track) => WholeOK(x.track)
  BY <1>2 DEF WholeOK, End
<1> QED
  BY <1>4, <1>5, <1>6, <1>7

\* No packet of t2 is new but the last one, of n units.
Lengthens(t, t2, type, n) ==
    /\ t2.pkts = << >> => t.pkts = << >>
    /\ \A k \in DOMAIN t2.pkts :
            \/ k \in DOMAIN t.pkts /\ t2.pkts[k] = t.pkts[k]
            \/ k = Len(t2.pkts) /\ t2.pkts[k].type = type
    /\ End(t, Len(t.pkts)) <= t.written =>
            /\ End(t2, Len(t2.pkts)) = t.written + n
            /\ t2.pkts = Append(t.pkts, Packet(t, type, n))

\* That is how a packet is put at the end of the log.
LEMMA OpenedEnd ==
    ASSUME NEW t \in TrackType, NEW t2, NEW type \in PacketTypes,
           NEW n \in Nat, Opened(t, t2, type, n)
    PROVE  Lengthens(t, t2, type, n)
<1>1. /\ t.pkts \in Seq(PacketType) /\ Len(t.pkts) \in Nat
      /\ t.written \in Nat
      /\ \A k \in 0 .. Len(t.pkts) : End(t, k) \in Nat /\ Frames(t, k) \in Nat
  BY LogNumbers DEF TrackType
<1>2. Packet(t, type, n) \in PacketType
  <2>1. Frames(t, Len(t.pkts)) \in Nat
    BY <1>1
  <2> QED
    BY <1>1, <2>1 DEF Packet, PacketType
<1>3. CASE t.written < End(t, Len(t.pkts))
  <2>1. ~(End(t, Len(t.pkts)) <= t.written)
    <3>1. End(t, Len(t.pkts)) \in Nat
      BY <1>1
    <3> QED
      BY <1>1, <1>3, <3>1
  <2> QED
    BY <1>3, <2>1 DEF Opened, Lengthens
<1>4. CASE ~(t.written < End(t, Len(t.pkts)))
  <2>1. t2.pkts = Append(t.pkts, Packet(t, type, n))
    BY <1>4 DEF Opened
  <2>2. /\ Len(t2.pkts) = Len(t.pkts) + 1 /\ t2.pkts \in Seq(PacketType)
        /\ \A k \in 1 .. Len(t.pkts) : t2.pkts[k] = t.pkts[k]
        /\ t2.pkts[Len(t.pkts) + 1] = Packet(t, type, n)
        /\ End(t2, Len(t.pkts) + 1) = Packet(t, type, n).end
    <3> DEFINE p == Packet(t, type, n)
    <3>1. /\ p \in PacketType /\ t2.pkts = Append(t.pkts, p)
          /\ t \in TrackType
      BY <1>2, <2>1
    <3> HIDE DEF p
    <3>2. LET m == Len(t.pkts)
          IN  /\ Len(t2.pkts) = m + 1 /\ t2.pkts \in Seq(PacketType)
              /\ \A k \in 0 .. m : /\ End(t2, k) = End(t, k)
                                   /\ Frames(t2, k) = Frames(t, k)
              /\ \A k \in 1 .. m : t2.pkts[k] = t.pkts[k]
              /\ t2.pkts[m + 1] = p
              /\ End(t2, m + 1) = p.end /\ Frames(t2, m + 1) = p.frames
      BY ONLY <3>1, MorePackets, ZenonT(30)
    <3> QED
      BY <3>2 DEF p
  <2>3. /\ Packet(t, type, n).type = type
        /\ Packet(t, type, n).end = t.written + n
    BY DEF Packet
  <2>4. t2.pkts # << >>
    BY <1>1, <2>2
  <2>5. \A k \in DOMAIN t2.pkts :
            \/ k \in DOMAIN t.pkts /\ t2.pkts[k] = t.pkts[k]
            \/ k = Len(t2.pkts) /\ t2.pkts[k].type = type
    <3>1. DOMAIN t2.pkts = 1 .. Len(t.pkts) + 1
          /\ DOMAIN t.pkts = 1 .. Len(t.pkts)
      BY <1>1, <2>2
    <3>2. \A k \in 1 .. Len(t.pkts) + 1 :
            k \in 1 .. Len(t.pkts) \/ k = Len(t.pkts) + 1
      BY <1>1
    <3> QED
      BY <2>2, <2>3, <3>1, <3>2
  <2> QED
    BY <2>1, <2>2, <2>3, <2>4, <2>5 DEF Lengthens
<1> QED
  BY <1>3, <1>4

\* What a packet that is written leaves of the phase
LEMMA WritesPhase ==
    ASSUME NEW s, Good(conf, s), NEW type \in PacketTypes, NEW n \in Nat,
           NEW x, Writes(s, x, type, n), Rest(s.track, s.queue),
           \A k \in DOMAIN s.track.pkts : s.track.pkts[k].type # "eos",
           type = "eos" => s.track.detached
    PROVE  /\ Rest(x.track, x.queue) /\ Handled(conf, s, x)
           /\ MostOK(s.track, s.queue) => MostOK(x.track, x.queue)
           /\ x.rc # "error" \/ s.track.detached =>
                (WholeOK(s.track) => WholeOK(x.track))
<1> DEFINE t == s.track
           t2 == x.track
<1>1. /\ t \in TrackType /\ t2 \in TrackType
      /\ s \in StateType /\ x \in StateType
      /\ MemoryOK(conf, t, s.queue)
  BY StateParts DEF Good, Sound, Writes
<1>2. /\ t2.state = t.state /\ t2.pub = t.pub
      /\ t2.detached = t.detached /\ t2.keep = t.keep
      /\ t2.oerr = t.oerr /\ t2.blocked = t.blocked
      /\ t.written <= t2.written /\ t.tail <= t2.tail
      /\ x.queue = s.queue
      /\ s.queue = << >> => t2.head = t.head
  BY DEF Writes, Onward
<1>3. /\ t.written \in Nat /\ t2.written \in Nat
      /\ t.tail \in Int /\ t2.tail \in Int /\ t.head \in Nat
  BY <1>1 DEF TrackType
<1>4. /\ t2.pkts = << >> => t.pkts = << >>
      /\ \A k \in DOMAIN t2.pkts :
            \/ k \in DOMAIN t.pkts /\ t2.pkts[k] = t.pkts[k]
            \/ k = Len(t2.pkts) /\ t2.pkts[k].type = type
      /\ End(t, Len(t.pkts)) <= t.written =>
            End(t2, Len(t2.pkts)) = t.written + (1 + n)
  <2> DEFINE m == 1 + n
  <2>1. m \in Nat /\ Opened(t, t2, type, m)
    BY DEF Writes
  <2> HIDE DEF t, t2, m
  <2>2. Lengthens(t, t2, type, m)
    BY <1>1, <2>1, OpenedEnd
  <2> QED
    BY <2>2 DEF m, Lengthens
<1>5. t.tail >= -1 /\ (t.tail # -1 => t.tail >= 0)
  BY <1>1, <1>3 DEF MemoryOK
<1>6. Rest(t, s.queue)
  OBVIOUS
<1>7. /\ Fits(t) => Fits(t2)
      /\ x.rc # "error" => t2.written = t.written + 1 + n
  BY DEF Writes
<1>8. \A u \in ToSet(s.queue) : s.up[u].acked <= x.up[u].acked
  BY <1>1, StateParts DEF Writes, Onward
<1>9. (type = "eos" => t.detached)
      /\ \A k \in DOMAIN t.pkts : t.pkts[k].type # "eos"
  OBVIOUS
<1> HIDE DEF t, t2
<1>10. PubOK(t2, x.queue)
  BY <1>2, <1>3, <1>4, <1>5, <1>6 DEF Rest, PubOK
<1>11. NoPackets(t2, x.queue)
  BY <1>2, <1>4, <1>6 DEF Rest, NoPackets
<1>16. KeepOK(t) => KeepOK(t2)
  BY <1>2 DEF KeepOK
<1>12. NoBuffers(t2)
  <2>1. CASE t.written > 0
    <3>1. t2.tail = -1 => t.tail = -1
      BY <1>2, <1>3, <1>5
    <3> QED
      BY <1>2, <1>6, <2>1, <3>1 DEF Rest, NoBuffers
  <2>2. CASE t.written = 0
    <3>1. t2.tail = -1 => t.tail = -1
      BY <1>2, <1>3, <1>5
    <3>2. BufSize \in Nat /\ (-1 + 1) * BufSize = 0
      BY ConfAssumption
    <3>3. t.tail = -1 => Fits(t)
      BY <2>2, <3>2 DEF Fits
    <3>4. t2.tail = -1 => t2.written <= 0
      BY <1>7, <3>1, <3>2, <3>3 DEF Fits
    <3> QED
      BY <1>3, <3>4 DEF NoBuffers
  <2> QED
    BY <1>3, <2>1, <2>2
<1>13. EosOK(t2)
  BY <1>2, <1>4, <1>9 DEF EosOK
<1>14. x.rc # "error" \/ t.detached => (WholeOK(t) => WholeOK(t2))
  <2>1. CASE t.detached
    BY <1>2, <2>1 DEF WholeOK
  <2>2. CASE x.rc # "error"
    <3>1. End(t, Len(t.pkts)) <= t.written =>
            End(t2, Len(t2.pkts)) <= t2.written
      BY <1>3, <1>4, <1>7, <2>2
    <3> QED
      BY <1>2, <3>1 DEF WholeOK
  <2> QED
    BY <2>1, <2>2
<1>15. Handled(conf, s, x)
  BY <1>2, <1>8 DEF Handled
<1> QED
  BY <1>10, <1>11, <1>12, <1>13, <1>14, <1>15, <1>16
     DEF MostOK, Rest, t, t2

-----------------------------------------------------------------------------
(* One action after the other *)

\* A handler that was entered in s is done, in x.
Done(s, x) ==
    /\ Good(conf, x) /\ PhaseOK(x.track, x.queue)
    /\ Handled(conf, s, x)

\* It leaves such a state.
Acted == \E x : Done(Now, x) /\ Become(x)

\* What is known before an action
LEMMA NowGood ==
    ASSUME IInv
    PROVE  /\ Now \in StateType /\ Now.track = track /\ Now.up = up
           /\ Now.queue = queue /\ Now.faults = faults
           /\ Good(conf, Now) /\ PhaseOK(track, queue)
           /\ Rest(track, queue) /\ MostOK(track, queue)
           /\ WholeOK(track) /\ conf \in Confs /\ ConfType(conf)
           /\ track \in TrackType /\ Handled(conf, Now, Now)
<1>1. /\ Now.track = track /\ Now.up = up
      /\ Now.queue = queue /\ Now.faults = faults
  BY DEF Now
<1>2. Good(conf, Now) /\ Now \in StateType /\ conf \in Confs
  BY DEF IInv, Good, Sound
<1>3. /\ PhaseOK(track, queue) /\ Rest(track, queue)
      /\ MostOK(track, queue) /\ WholeOK(track)
  BY DEF IInv, PhaseOK, MostOK, Rest
<1>4. Steps(Now, Now, 0)
  BY <1>2, StepsNothing
<1>5. Handled(conf, Now, Now)
  BY <1>1, <1>2, <1>3, <1>4, StepsPhase
<1>6. track \in TrackType /\ ConfType(conf)
  BY <1>1, <1>2, StateParts, ConfAssumption
<1> QED
  BY <1>1, <1>2, <1>3, <1>5, <1>6

\* The upstreams that remain keep their places, what is lost is told.
Forward ==
    \A u \in ToSet(queue) \cap ToSet(queue') : up[u].acked <= up'[u].acked
Told ==
    \A u \in ToSet(queue) \ ToSet(queue') :
        (conf.required[u] \/ queue' = << >>) /\ ~track'.detached
            => \/ track'.oerr
               \/ DelUpstream(u) /\ (queue' = << >> => track'.state = "inactive")

\* What becomes of the variables is what is known of x.
LEMMA BecomesGood ==
    ASSUME NEW x, Good(conf, x), PhaseOK(x.track, x.queue), Become(x)
    PROVE  IInv'
<1>1. x \in StateType /\ x.faults <= conf.maxFaults
  BY DEF Good, Sound
<1>2. /\ track' = x.track /\ up' = x.up /\ queue' = x.queue
      /\ faults' = x.faults /\ conf' = conf
  BY DEF Become
<1> DEFINE y == Now'
<1>3. /\ y \in StateType /\ y.track = x.track /\ y.up = x.up
      /\ y.queue = x.queue /\ y.faults = x.faults
  <2>1. /\ x.track \in TrackType /\ x.up \in [Upstreams -> UpType]
        /\ x.queue \in Seq(Upstreams) /\ x.faults \in Nat
    BY <1>1, StateParts
  <2>2. y = [track |-> x.track, up |-> x.up, queue |-> x.queue,
             faults |-> x.faults, rc |-> "ok", n |-> 0]
    BY <1>2 DEF Now
  <2> HIDE DEF y
  <2> QED
    BY <2>1, <2>2 DEF StateType
<1> HIDE DEF y
<1>4. Good(conf, y)
  BY <1>1, <1>3, GoodSame DEF Good
<1>5. Good(conf', y) /\ PhaseOK(track', queue')
  BY <1>2, <1>4
<1> QED
  BY <1>5 DEF IInv, y

\* ... and of the calls that were made.
LEMMA ActedGood ==
    ASSUME Acted, IInv
    PROVE  IInv' /\ Forward /\ Told
<1>1. PICK x : Done(Now, x) /\ Become(x)
  BY DEF Acted
<1>2. IInv'
  BY <1>1, BecomesGood DEF Done
<1>3. /\ track' = x.track /\ up' = x.up /\ queue' = x.queue
      /\ Now.up = up /\ Now.queue = queue
  BY <1>1 DEF Become, Now
<1>4. Handled(conf, Now, x)
  BY <1>1 DEF Done
<1>5. Forward /\ Told
  BY <1>3, <1>4 DEF Handled, Forward, Told
<1> QED
  BY <1>2, <1>5

\* The track is done with after the calls that concern upstreams.
LEMMA AfterHandled ==
    ASSUME NEW g, NEW r, NEW s, Handled(g, r, s), NEW x,
           x.up = s.up, x.queue = s.queue,
           x.track.detached = s.track.detached,
           ~x.track.detached /\ s.track.oerr => x.track.oerr
    PROVE  Handled(g, r, x)
BY DEF Handled

\* A call of the owner returns.
LEMMA ReturnedDone ==
    ASSUME NEW r, NEW s, Good(conf, s), MostOK(s.track, s.queue),
           s.rc # "error" => WholeOK(s.track), Handled(conf, r, s),
           NEW x, x = Returned(s)
    PROVE  Done(r, x)
<1>1. CASE s.rc = "error"
  <2>1. x = OwnerError(s)
    BY <1>1 DEF Returned
  <2>2. /\ Good(conf, x) /\ PhaseOK(x.track, x.queue)
        /\ x.up = s.up /\ x.queue = s.queue
        /\ x.track.detached = s.track.detached /\ x.track.oerr
    BY <2>1, OwnerErrorGood
  <2>3. Handled(conf, r, x)
    BY <2>2, AfterHandled
  <2> QED
    BY <2>2, <2>3 DEF Done
<1>2. CASE s.rc # "error"
  BY <1>2 DEF Returned, Done, PhaseOK
<1> QED
  BY <1>1, <1>2

\* The owner is told of an error.
LEMMA OwnerErrorDone ==
    ASSUME NEW r, NEW s, Good(conf, s), MostOK(s.track, s.queue),
           Handled(conf, r, s), NEW x, x = OwnerError(s)
    PROVE  Done(r, x)
<1>1. /\ Good(conf, x) /\ PhaseOK(x.track, x.queue)
      /\ x.up = s.up /\ x.queue = s.queue
      /\ x.track.detached = s.track.detached /\ x.track.oerr
  BY OwnerErrorGood
<1>2. Handled(conf, r, x)
  BY <1>1, AfterHandled
<1> QED
  BY <1>1, <1>2 DEF Done

\* An error of the track
LEMMA TrackErrorDone ==
    ASSUME NEW r, NEW s, Good(conf, s), MostOK(s.track, s.queue),
           s.track.detached => WholeOK(s.track), Handled(conf, r, s),
           NEW x, x = TrackError(s)
    PROVE  Done(r, x)
<1>1. /\ Good(conf, x) /\ PhaseOK(x.track, x.queue)
      /\ x.up = s.up /\ x.queue = s.queue
      /\ x.track.detached = s.track.detached
      /\ ~x.track.detached => x.track.oerr
  BY TrackErrorGood
<1>2. Handled(conf, r, x)
  BY <1>1, AfterHandled
<1> QED
  BY <1>1, <1>2 DEF Done

\* Flags of the track do not matter.
LEMMA FlagsGood ==
    ASSUME NEW s, Good(conf, s), NEW x, Flags(s, x),
           MostOK(s.track, s.queue)
    PROVE  /\ Good(conf, x) /\ MostOK(x.track, x.queue)
           /\ WholeOK(s.track) => WholeOK(x.track)
           /\ \A r : Handled(conf, r, s) => Handled(conf, r, x)
<1>1. Good(conf, x)
  BY SameLogGood DEF Flags
<1>2. /\ MostOK(x.track, x.queue)
      /\ WholeOK(s.track) => WholeOK(x.track)
  BY SamePhase DEF Flags, SameLog
<1>3. \A r : Handled(conf, r, s) => Handled(conf, r, x)
  BY DEF Handled, Flags, SameLog
<1> QED
  BY <1>1, <1>2, <1>3

\* update_frame_stats sets one of them.
LEMMA FrameWrittenFlags ==
    ASSUME NEW s \in StateType
    PROVE  Flags(s, FrameWritten(s)) /\ FrameWritten(s).rc = s.rc
<1> DEFINE t2 == [s.track EXCEPT !.lastFrame = s.track.written]
           x == SetTrack(s, t2)
<1>1. s.track \in TrackType
  BY StateParts
<1>2. /\ t2 \in TrackType /\ SameLog(s.track, t2)
      /\ t2.alerts = s.track.alerts
  BY <1>1 DEF TrackType, SameLog
<1>3. FrameWritten(s) = x /\ x = SetTrack(s, t2)
  BY DEF FrameWritten, SetTrack
<1> HIDE DEF t2, x
<1>4. /\ x \in StateType /\ x.track = t2 /\ x.up = s.up
      /\ x.queue = s.queue /\ x.faults = s.faults /\ x.rc = s.rc
  BY <1>2, <1>3, TrackFields
<1> QED
  BY <1>2, <1>3, <1>4 DEF Flags

\* What a packet that the owner writes leaves
LEMMA OwnerWritesGood ==
    ASSUME IInv, OwnerWrites, NEW r, Good(conf, r),
           r.track.pkts = track.pkts, r.track.written = track.written,
           r.track.tail = track.tail, Rest(r.track, r.queue),
           MostOK(r.track, r.queue),
           NEW type \in PacketTypes \ {"eos"}, type = "open" => r.track.blocked,
           NEW n \in Nat, NEW s \in WritePacket(r, type, n)
    PROVE  /\ Writes(r, s, type, n) /\ Good(conf, s)
           /\ MostOK(s.track, s.queue) /\ Handled(conf, r, s)
           /\ s.rc # "error" => (WholeOK(r.track) => WholeOK(s.track))
<1>1. /\ MostOK(track, queue) /\ track \in TrackType
      /\ ~track.detached
      /\ track.state # "inactive" \/ "unchecked" \in conf.writers
  BY NowGood DEF OwnerWrites
<1>2. Owned(conf, r.track)
  <2>1. MemoryOK(conf, track, queue)
    BY NowGood DEF Good, Sound
  <2>2. track.tail \in Int /\ track.head \in Nat
    BY <1>1 DEF TrackType
  <2>3. track.tail < 0 => track.tail = -1
    BY <2>1, <2>2 DEF MemoryOK
  <2> QED
    BY <1>1, <2>3 DEF Owned, MostOK, NoBuffers
<1>3. \A k \in DOMAIN r.track.pkts : r.track.pkts[k].type # "eos"
  BY <1>1 DEF MostOK, EosOK
<1>4. type \in PacketTypes /\ type # "eos"
  OBVIOUS
<1>5. Writes(r, s, type, n)
  BY <1>2, <1>4, WritePacketGood
<1>6. /\ MostOK(s.track, s.queue) /\ Handled(conf, r, s)
      /\ s.rc # "error" => (WholeOK(r.track) => WholeOK(s.track))
  BY <1>3, <1>4, <1>5, WritesPhase
<1> QED
  BY <1>5, <1>6 DEF Writes

\* The first media info is written: the track is to be published.
LEMMA PublishGood ==
    ASSUME IInv, OwnerWrites, NEW s, Writes(Now, s, "media", 1),
           MostOK(s.track, s.queue), s.rc = "ok", track.pkts = << >>,
           WholeOK(s.track), Handled(conf, Now, s),
           NEW x, x = SetTrack(s, [s.track EXCEPT !.pub = TRUE])
    PROVE  Done(Now, x) /\ x.rc = "ok"
<1> DEFINE t == s.track
           t2 == [t EXCEPT !.pub = TRUE]
<1>1. /\ s \in StateType /\ t \in TrackType /\ Good(conf, s)
      /\ HeadersOK(t)
  BY StateParts DEF Writes, Good, Sound
<1>2. /\ t2 \in TrackType /\ Bytes(t, t2) /\ t2.pub
      /\ t2.oerr = t.oerr /\ t2.blocked = t.blocked
      /\ t2.detached = t.detached /\ t2.keep = t.keep
      /\ t2.state = t.state
  BY <1>1 DEF TrackType, Bytes
<1>3. x = SetTrack(s, t2)
  OBVIOUS
<1>4. /\ Now \in StateType /\ Now.track = track /\ Now.queue = queue
      /\ NoPackets(track, queue) /\ track \in TrackType
      /\ ~track.detached
  BY NowGood DEF OwnerWrites, Rest
<1>5. t.pkts # << >>
  <2>1. Opened(track, t, "media", 1 + 1) /\ "media" \in PacketTypes
    BY <1>4 DEF Writes, PacketTypes
  <2>2. Lengthens(track, t, "media", 1 + 1)
    BY <1>4, <2>1, OpenedEnd
  <2>3. End(track, Len(track.pkts)) <= track.written
    <3>1. Len(track.pkts) = 0 /\ track.written \in Nat
      BY <1>4 DEF TrackType
    <3> QED
      BY <3>1 DEF End
  <2>4. t.pkts = Append(track.pkts, Packet(track, "media", 1 + 1))
    BY <2>2, <2>3 DEF Lengthens
  <2>5. t.pkts = << Packet(track, "media", 1 + 1) >>
    BY <2>4
  <2> QED
    BY <2>5
<1>6. /\ s.queue = << >> /\ t.head = 0 /\ t.tail >= 0 /\ ~t.detached
  BY <1>4 DEF Writes, Onward, NoPackets
<1>7. MostOK(t, s.queue) /\ WholeOK(t)
  OBVIOUS
<1> HIDE DEF t, t2
<1>8. /\ x \in StateType /\ x.track = t2 /\ x.up = s.up
      /\ x.queue = s.queue /\ x.faults = s.faults /\ x.rc = s.rc
  BY <1>1, <1>2, <1>3, TrackFields
<1>9. Good(conf, x)
  <2>1. HeadersOK(t2)
    BY <1>1, <1>2 DEF HeadersOK, Bytes
  <2> QED
    BY <1>1, <1>2, <1>8, <2>1, BytesGood DEF t
<1>10. MostOK(t2, s.queue)
  <2>1. t.tail \in Int
    BY <1>1 DEF TrackType
  <2>2. t.tail # -1
    BY <1>6, <2>1
  <2>3. PubOK(t2, s.queue) /\ NoBuffers(t2)
    BY <1>2, <1>5, <1>6, <2>2 DEF PubOK, NoBuffers, Bytes
  <2> QED
    BY <1>2, <1>7, <2>3 DEF MostOK, NoPackets, KeepOK, EosOK, Bytes
<1>11. WholeOK(t2)
  BY <1>2, <1>7 DEF WholeOK, Bytes, End
<1>12. Handled(conf, Now, x)
  BY <1>2, <1>8, AfterHandled DEF t
<1> QED
  BY <1>8, <1>9, <1>10, <1>11, <1>12 DEF Done, PhaseOK

\* The media info is written.
LEMMA WriteMediaInfoGood ==
    ASSUME IInv, WriteMediaInfo
    PROVE  Acted
<1>1. OwnerWrites
  BY DEF WriteMediaInfo
<1> DEFINE Pub(s) == SetTrack(s, [s.track EXCEPT !.pub = TRUE])
           Next1(s) == IF s.rc = "ok" /\ track.pkts = << >> THEN Pub(s)
                       ELSE s
<1>2. PICK s \in WritePacket(Now, "media", 1) :
        \E x : x = Returned(Next1(s)) /\ Become(x)
  BY DEF WriteMediaInfo, SetTrack
<1>3. PICK x : x = Returned(Next1(s)) /\ Become(x)
  BY <1>2
<1>4. /\ Now.track = track /\ Now.queue = queue /\ Good(conf, Now)
      /\ Rest(track, queue) /\ MostOK(track, queue) /\ WholeOK(track)
  BY NowGood
<1>5. "media" \in PacketTypes \ {"eos"} /\ "media" # "open" /\ 1 \in Nat
  BY DEF PacketTypes
<1>6. /\ Writes(Now, s, "media", 1) /\ Good(conf, s)
      /\ MostOK(s.track, s.queue) /\ Handled(conf, Now, s)
      /\ s.rc # "error" => (WholeOK(Now.track) => WholeOK(s.track))
  BY <1>1, <1>2, <1>4, <1>5, OwnerWritesGood
<1>7. s.rc # "error" => WholeOK(s.track)
  BY <1>4, <1>6
<1>8. CASE s.rc = "ok" /\ track.pkts = << >>
  <2> DEFINE y == Pub(s)
  <2>1. x = Returned(y) /\ y = SetTrack(s, [s.track EXCEPT !.pub = TRUE])
    BY <1>3, <1>8
  <2> HIDE DEF y
  <2>2. Done(Now, y) /\ y.rc = "ok"
    BY <1>1, <1>6, <1>7, <1>8, <2>1, PublishGood
  <2>3. Done(Now, x)
    BY <2>1, <2>2 DEF Returned
  <2> QED
    BY <1>3, <2>3 DEF Acted
<1>9. CASE ~(s.rc = "ok" /\ track.pkts = << >>)
  <2>1. x = Returned(s)
    BY <1>3, <1>9
  <2>2. Done(Now, x)
    BY <1>6, <1>7, <2>1, ReturnedDone
  <2> QED
    BY <1>3, <2>2 DEF Acted
<1> QED
  BY <1>8, <1>9

\* A frame is written.
LEMMA WriteFrameGood ==
    ASSUME IInv, WriteFrame
    PROVE  Acted
<1>1. OwnerWrites
  BY DEF WriteFrame
<1> DEFINE Next1(s) == IF s.rc = "ok" THEN FrameWritten(s) ELSE s
<1>2. PICK d \in conf.sizes : \E s \in WritePacket(Now, "frame", d) :
        Become(Returned(Next1(s)))
  BY DEF WriteFrame
<1>3. PICK s \in WritePacket(Now, "frame", d) : Become(Returned(Next1(s)))
  BY <1>2
<1>4. /\ Now.track = track /\ Now.queue = queue /\ Good(conf, Now)
      /\ Rest(track, queue) /\ MostOK(track, queue) /\ WholeOK(track)
      /\ d \in Nat
  BY <1>2, NowGood DEF ConfType
<1>5. "frame" \in PacketTypes \ {"eos"} /\ "frame" # "open"
  BY DEF PacketTypes
<1>6. /\ Good(conf, s)
      /\ MostOK(s.track, s.queue) /\ Handled(conf, Now, s)
      /\ s.rc # "error" => (WholeOK(Now.track) => WholeOK(s.track))
  BY <1>1, <1>3, <1>4, <1>5, OwnerWritesGood
<1>7. s.rc # "error" => WholeOK(s.track)
  BY <1>4, <1>6
<1> DEFINE y == Next1(s)
<1>8. /\ Good(conf, y) /\ MostOK(y.track, y.queue)
      /\ Handled(conf, Now, y) /\ (y.rc # "error" => WholeOK(y.track))
  <2>1. CASE s.rc = "ok"
    <3>1. y = FrameWritten(s) /\ s \in StateType /\ WholeOK(s.track)
      BY <1>6, <1>7, <2>1 DEF Good, Sound
    <3> HIDE DEF y
    <3>2. Flags(s, y)
      BY <3>1, FrameWrittenFlags
    <3> QED
      BY <1>6, <3>1, <3>2, FlagsGood
  <2>2. CASE s.rc # "ok"
    BY <1>6, <1>7, <2>2
  <2> QED
    BY <2>1, <2>2
<1> DEFINE x == Returned(y)
<1>9. Become(x) /\ x = Returned(y)
  BY <1>3
<1> HIDE DEF x, y
<1>10. Done(Now, x)
  BY <1>8, <1>9, ReturnedDone
<1> QED
  BY <1>9, <1>10 DEF Acted

\* The header of a frame is filled in.
Closed(s) ==
    LET t == s.track
        k == Len(t.pkts)
    IN  [s EXCEPT !.track.blocked = FALSE,
                  !.track.pkts[k].type = "frame",
                  !.track.pkts[k].frames = @ + 1]

\* The log with it
ClosedLog(t, t2) ==
    LET k == Len(t.pkts)
    IN  t2.pkts = [t.pkts EXCEPT ![k] =
            [type |-> "frame", end |-> t.pkts[k].end,
             frames |-> t.pkts[k].frames + 1]]

\* The track with it
ClosedTrack(t, t2) ==
    /\ t2 \in TrackType /\ ClosedLog(t, t2) /\ ~t2.blocked
    /\ t2.written = t.written /\ t2.appended = t.appended
    /\ t2.head = t.head /\ t2.tail = t.tail /\ t2.nfree = t.nfree
    /\ t2.state = t.state /\ t2.pub = t.pub /\ t2.detached = t.detached
    /\ t2.keep = t.keep /\ t2.oerr = t.oerr /\ t2.forced = t.forced
    /\ t2.alerts = t.alerts
    /\ t2.lastFrame = t.lastFrame /\ t2.cause = t.cause

\* That is what Closed leaves.
LEMMA ClosedFields ==
    ASSUME NEW s \in StateType, Len(s.track.pkts) > 0, NEW x, x = Closed(s)
    PROVE  /\ x \in StateType /\ ClosedTrack(s.track, x.track)
           /\ x.up = s.up /\ x.queue = s.queue /\ x.faults = s.faults
<1> DEFINE t == s.track
           k == Len(t.pkts)
           p == t.pkts[k]
           p1 == [p EXCEPT !.type = "frame"]
           p2 == [p1 EXCEPT !.frames = p.frames + 1]
           a == [s EXCEPT !.track.blocked = FALSE]
           b == [a EXCEPT !.track.pkts[k].type = "frame"]
           c == [b EXCEPT !.track.pkts[k].frames = t.pkts[k].frames + 1]
           ta == [t EXCEPT !.blocked = FALSE]
           tb == [ta EXCEPT !.pkts = [t.pkts EXCEPT ![k] = p1]]
           tc == [tb EXCEPT !.pkts = [tb.pkts EXCEPT ![k] = p2]]
<1>1. t \in TrackType /\ k \in Nat /\ k > 0 /\ t.pkts \in Seq(PacketType)
  BY StateParts, LogNumbers
<1>2. k \in DOMAIN t.pkts /\ p \in PacketType
  BY <1>1
<1>3. x = c
  BY Zenon DEF Closed
<1> HIDE DEF p
<1>4. p1 \in PacketType /\ p1.type = "frame" /\ p1.end = p.end
      /\ p1.frames = p.frames
  BY <1>2 DEF PacketType, PacketTypes
<1> HIDE DEF p1
<1>5. p2 \in PacketType /\ p2.type = "frame" /\ p2.end = p.end
      /\ p2.frames = p.frames + 1
  BY <1>4 DEF PacketType
<1>6. p2 = [type |-> "frame", end |-> p.end, frames |-> p.frames + 1]
  BY <1>5 DEF PacketType
<1>7. ta \in TrackType /\ a = SetTrack(s, ta) /\ ta.pkts = t.pkts
  BY <1>1 DEF TrackType, SetTrack
<1>8. a \in StateType /\ a.track = ta /\ a.up = s.up /\ a.queue = s.queue
      /\ a.faults = s.faults
  <2> HIDE DEF a, ta
  <2> QED
    BY <1>7, TrackFields
<1>9. /\ ~ta.blocked
      /\ ta.written = t.written /\ ta.appended = t.appended
      /\ ta.head = t.head /\ ta.tail = t.tail /\ ta.nfree = t.nfree
      /\ ta.state = t.state /\ ta.pub = t.pub /\ ta.detached = t.detached
      /\ ta.keep = t.keep /\ ta.oerr = t.oerr /\ ta.forced = t.forced
      /\ ta.alerts = t.alerts
      /\ ta.lastFrame = t.lastFrame /\ ta.cause = t.cause
  BY <1>1 DEF TrackType
<1> HIDE DEF a, ta, p2
<1>10. [t.pkts EXCEPT ![k] = p1] \in Seq(PacketType)
       /\ [t.pkts EXCEPT ![k] = p1][k] = p1
  BY <1>1, <1>2, <1>4
<1>11. /\ tb \in TrackType /\ tb.pkts = [t.pkts EXCEPT ![k] = p1]
       /\ tb.pkts[k] = p1
  BY <1>7, <1>10 DEF TrackType
<1>12. b = SetTrack(a, tb)
  BY <1>7, <1>8 DEF SetTrack, p, p1
<1>13. b \in StateType /\ b.track = tb /\ b.up = s.up /\ b.queue = s.queue
       /\ b.faults = s.faults
  <2> HIDE DEF b, tb
  <2> QED
    BY <1>8, <1>11, <1>12, TrackFields
<1>14. /\ ~tb.blocked
       /\ tb.written = t.written /\ tb.appended = t.appended
       /\ tb.head = t.head /\ tb.tail = t.tail /\ tb.nfree = t.nfree
       /\ tb.state = t.state /\ tb.pub = t.pub /\ tb.detached = t.detached
       /\ tb.keep = t.keep /\ tb.oerr = t.oerr /\ tb.forced = t.forced
       /\ tb.alerts = t.alerts
       /\ tb.lastFrame = t.lastFrame /\ tb.cause = t.cause
  BY <1>7, <1>9 DEF TrackType
<1> HIDE DEF b, tb
<1>15. /\ [tb.pkts EXCEPT ![k] = p2] \in Seq(PacketType)
       /\ [tb.pkts EXCEPT ![k] = p2] = [t.pkts EXCEPT ![k] = p2]
  BY <1>1, <1>2, <1>5, <1>10, <1>11
<1>16. /\ tc \in TrackType /\ tc.pkts = [t.pkts EXCEPT ![k] = p2]
  BY <1>11, <1>15 DEF TrackType
<1>17. c = SetTrack(b, tc)
  BY <1>11, <1>13 DEF SetTrack, p2, p
<1>18. /\ ~tc.blocked
       /\ tc.written = t.written /\ tc.appended = t.appended
       /\ tc.head = t.head /\ tc.tail = t.tail /\ tc.nfree = t.nfree
       /\ tc.state = t.state /\ tc.pub = t.pub /\ tc.detached = t.detached
       /\ tc.keep = t.keep /\ tc.oerr = t.oerr /\ tc.forced = t.forced
       /\ tc.alerts = t.alerts
       /\ tc.lastFrame = t.lastFrame /\ tc.cause = t.cause
  BY <1>11, <1>14 DEF TrackType
<1> HIDE DEF c, tc
<1>19. /\ x \in StateType /\ x.track = tc /\ x.up = s.up
       /\ x.queue = s.queue /\ x.faults = s.faults
  BY <1>3, <1>13, <1>16, <1>17, TrackFields
<1>20. ClosedTrack(t, tc)
  BY <1>6, <1>16, <1>18 DEF ClosedTrack, ClosedLog, p
<1> QED
  BY <1>19, <1>20

\* The header that is filled in belongs to no packet that was acked.
LEMMA ClosedLogGood ==
    ASSUME NEW t \in TrackType, LogOK(t), Len(t.pkts) > 0,
           t.pkts[Len(t.pkts)].type = "open",
           NEW t2, ClosedTrack(t, t2)
    PROVE  /\ LogOK(t2) /\ Len(t2.pkts) = Len(t.pkts)
           /\ DOMAIN t2.pkts = DOMAIN t.pkts
           /\ \A k \in 1 .. Len(t.pkts) :
                k # Len(t.pkts) => t2.pkts[k] = t.pkts[k]
           /\ t2.pkts[Len(t.pkts)].type = "frame"
           /\ End(t2, Len(t.pkts)) = End(t, Len(t.pkts))
           /\ \A x \in UpType : UpOK(t, x) =>
                /\ UpOK(t2, x) /\ End(t2, x.acked) = End(t, x.acked)
                /\ Frames(t2, x.acked) = Frames(t, x.acked)
                /\ FirstOf(t, x.acked) => FirstOf(t2, x.acked)
<1> DEFINE m == Len(t.pkts)
           p == [type |-> "frame", end |-> t.pkts[m].end,
                 frames |-> t.pkts[m].frames + 1]
<1>1. /\ m \in Nat /\ m > 0 /\ t.pkts \in Seq(PacketType)
      /\ DOMAIN t.pkts = 1 .. m
      /\ \A k \in 0 .. m : End(t, k) \in Nat /\ Frames(t, k) \in Nat
      /\ \A k \in 1 .. m : t.pkts[k] \in PacketType
  BY LogNumbers
<1>2. t2.pkts = [t.pkts EXCEPT ![m] = p]
  BY DEF ClosedTrack, ClosedLog
<1>3. /\ t2 \in TrackType /\ t2.appended = t.appended
      /\ t2.written = t.written
  BY DEF ClosedTrack
<1>4. /\ p.type = "frame" /\ p.end = t.pkts[m].end
      /\ p.frames = t.pkts[m].frames + 1
      /\ t.pkts[m].type = "open"
  OBVIOUS
<1>5. /\ \A j, k \in 0 .. m : j < k =>
            End(t, j) < End(t, k) /\ Frames(t, j) <= Frames(t, k)
      /\ \A k \in 1 .. m :
            /\ Frames(t, k) <= Frames(t, k - 1) + 1
            /\ t.pkts[k].type = "open" => Frames(t, k) = Frames(t, k - 1)
      /\ t.appended <= t.written
  BY DEF LogOK
<1> HIDE DEF p, m
<1>6. /\ Len(t2.pkts) = m /\ DOMAIN t2.pkts = 1 .. m
      /\ \A k \in 1 .. m : k # m => t2.pkts[k] = t.pkts[k]
      /\ t2.pkts[m] = p
  <2>1. t2.pkts \in Seq(PacketType) /\ DOMAIN t2.pkts = DOMAIN t.pkts
    BY <1>2, <1>3 DEF TrackType
  <2>2. Len(t2.pkts) \in Nat /\ DOMAIN t2.pkts = 1 .. Len(t2.pkts)
    BY <2>1
  <2>3. Len(t2.pkts) = m
    BY <1>1, <2>1, <2>2
  <2>4. m \in DOMAIN t.pkts
    BY <1>1
  <2> QED
    BY <1>1, <1>2, <2>1, <2>3, <2>4
<1>7. \A k \in 0 .. m : /\ End(t2, k) = End(t, k)
                        /\ Frames(t2, k) =
                             IF k = m THEN Frames(t, m) + 1 ELSE Frames(t, k)
  <2> SUFFICES ASSUME NEW k \in 0 .. m
               PROVE  /\ End(t2, k) = End(t, k)
                      /\ Frames(t2, k) =
                            IF k = m THEN Frames(t, m) + 1 ELSE Frames(t, k)
    OBVIOUS
  <2>1. CASE k = 0
    BY <1>1, <2>1 DEF End, Frames
  <2>2. CASE k = m
    BY <1>1, <1>4, <1>6, <2>2 DEF End, Frames
  <2>3. CASE k # 0 /\ k # m
    <3>1. k \in 1 .. m
      BY <1>1, <2>3
    <3> QED
      BY <1>6, <2>3, <3>1 DEF End, Frames
  <2> QED
    BY <2>1, <2>2, <2>3
<1>8. LogOK(t2)
  <2>1. ASSUME NEW j \in 0 .. m, NEW k \in 0 .. m, j < k
        PROVE  End(t2, j) < End(t2, k) /\ Frames(t2, j) <= Frames(t2, k)
    <3>1. j # m
      BY <1>1, <2>1
    <3>2. Frames(t, j) \in Nat /\ Frames(t, k) \in Nat
      BY <1>1
    <3>3. End(t, j) < End(t, k) /\ Frames(t, j) <= Frames(t, k)
      BY <1>5, <2>1
    <3>4. Frames(t, j) <= Frames(t, k) + 1
      BY <3>2, <3>3
    <3> QED
      BY <1>7, <3>1, <3>3, <3>4
  <2>2. ASSUME NEW k \in 1 .. m
        PROVE  /\ Frames(t2, k) <= Frames(t2, k - 1) + 1
               /\ t2.pkts[k].type = "open" =>
                    Frames(t2, k) = Frames(t2, k - 1)
    <3>1. k \in 0 .. m /\ k - 1 \in 0 .. m /\ k - 1 # m
      BY <1>1
    <3>2. CASE k = m
      <4>1. Frames(t, m) = Frames(t, m - 1)
        BY <1>4, <1>5, <3>2
      <4>2. Frames(t2, m) = Frames(t, m) + 1
            /\ Frames(t2, m - 1) = Frames(t, m - 1)
        BY <1>7, <3>1, <3>2
      <4>3. Frames(t, m) + 1 <= Frames(t, m) + 1
        BY <1>1, <3>1, <3>2
      <4>4. t2.pkts[m].type # "open"
        BY <1>4, <1>6
      <4> QED
        BY <3>2, <4>1, <4>2, <4>3, <4>4
    <3>3. CASE k # m
      BY <1>5, <1>6, <1>7, <3>1, <3>3
    <3> QED
      BY <3>2, <3>3
  <2> QED
    BY <1>3, <1>5, <1>6, <2>1, <2>2 DEF LogOK
<1>9. ASSUME NEW x \in UpType, UpOK(t, x)
      PROVE  /\ UpOK(t2, x) /\ End(t2, x.acked) = End(t, x.acked)
             /\ Frames(t2, x.acked) = Frames(t, x.acked)
             /\ FirstOf(t, x.acked) => FirstOf(t2, x.acked)
  <2>1. x.acked \in 0 .. m /\ x.acked # m
    <3>1. x.acked \in Nat /\ x.acked <= m
      BY <1>9 DEF UpOK, UpType, m
    <3>2. x.acked # m
      BY <1>1, <1>4, <1>9 DEF UpOK
    <3> QED
      BY <1>1, <3>1, <3>2
  <2>2. x.acked > 0 => /\ x.acked - 1 \in 0 .. m /\ x.acked - 1 # m
                       /\ x.acked \in 1 .. m
    BY <1>1, <2>1
  <2>3. /\ End(t2, x.acked) = End(t, x.acked)
        /\ Frames(t2, x.acked) = Frames(t, x.acked)
        /\ x.acked > 0 => /\ Frames(t2, x.acked - 1) = Frames(t, x.acked - 1)
                          /\ t2.pkts[x.acked] = t.pkts[x.acked]
    BY <1>6, <1>7, <2>1, <2>2
  <2>4. UpOK(t2, x)
    BY <1>3, <1>6, <1>9, <2>3 DEF UpOK, m
  <2> QED
    BY <2>3, <2>4 DEF FirstOf
<1>10. End(t2, m) = End(t, m) /\ t2.pkts[m].type = "frame"
  BY <1>1, <1>4, <1>6, <1>7
<1> QED
  BY <1>1, <1>6, <1>8, <1>9, <1>10 DEF m

\* The frame is complete: what is good remains so, and sending may go on.
LEMMA ClosedGood ==
    ASSUME NEW s, Good(conf, s), NEW t, t = s.track, Len(t.pkts) > 0,
           t.pkts[Len(t.pkts)].type = "open", ~t.oerr,
           \A k \in 1 .. Len(t.pkts) :
                k # Len(t.pkts) => t.pkts[k].type # "open",
           End(t, Len(t.pkts)) <= t.written, MostOK(t, s.queue),
           NEW r, Handled(conf, r, s), NEW x, x = Closed(s)
    PROVE  /\ Good(conf, x) /\ MostOK(x.track, x.queue)
           /\ WholeOK(x.track) /\ Handled(conf, r, x)
<1> DEFINE t2 == x.track
           m == Len(t.pkts)
<1>1. /\ s \in StateType /\ t \in TrackType /\ conf \in Confs
      /\ Sound(conf, s) /\ Resuming(conf, s)
  BY StateParts DEF Good, Sound
<1>2. /\ x \in StateType /\ ClosedTrack(t, t2)
      /\ x.up = s.up /\ x.queue = s.queue /\ x.faults = s.faults
  BY <1>1, ClosedFields
<1>3. /\ LogOK(t) /\ MemoryOK(conf, t, s.queue) /\ HeadersOK(t)
      /\ AlertsOK(conf, t) /\ UpsOK(t, s.up, s.queue)
  BY <1>1 DEF Sound
<1> HIDE DEF t2
<1>4. /\ LogOK(t2) /\ Len(t2.pkts) = m /\ DOMAIN t2.pkts = DOMAIN t.pkts
      /\ \A k \in 1 .. m : k # m => t2.pkts[k] = t.pkts[k]
      /\ t2.pkts[m].type = "frame" /\ End(t2, m) = End(t, m)
      /\ \A y \in UpType : UpOK(t, y) =>
                /\ UpOK(t2, y) /\ End(t2, y.acked) = End(t, y.acked)
                /\ Frames(t2, y.acked) = Frames(t, y.acked)
                /\ FirstOf(t, y.acked) => FirstOf(t2, y.acked)
  BY <1>1, <1>2, <1>3, ClosedLogGood
<1>5. DOMAIN t.pkts = 1 .. m /\ t.pkts # << >> /\ t2.pkts # << >>
  BY <1>1, <1>4, LogNumbers
<1> HIDE DEF m
<1>6. \A k \in DOMAIN t2.pkts : t2.pkts[k].type # "open"
  <2> SUFFICES ASSUME NEW k \in 1 .. m
               PROVE  t2.pkts[k].type # "open"
    BY <1>4, <1>5
  <2>1. CASE k = m
    BY <1>4, <2>1
  <2>2. CASE k # m
    BY <1>4, <2>2 DEF m
  <2> QED
    BY <2>1, <2>2
<1>7. HeadersOK(t2) /\ AlertsOK(conf, t2) /\ MemoryOK(conf, t2, s.queue)
  <2>1. /\ t2.oerr = t.oerr /\ t2.alerts = t.alerts /\ t2.head = t.head
        /\ t2.tail = t.tail /\ t2.nfree = t.nfree
        /\ t2.written = t.written /\ t2.forced = t.forced
    BY <1>2 DEF ClosedTrack
  <2>2. HeadersOK(t2)
    BY <1>3, <1>6, <2>1 DEF HeadersOK
  <2>3. AlertsOK(conf, t2)
    BY <1>3, <2>1 DEF AlertsOK
  <2>4. MemoryOK(conf, t2, s.queue)
    BY <1>3, <2>1 DEF MemoryOK, Fits
  <2> QED
    BY <2>2, <2>3, <2>4
<1>8. UpsOK(t2, s.up, s.queue)
  <2>1. \A u \in ToSet(s.queue) : s.up[u] \in UpType
    BY <1>1, StateParts
  <2> QED
    BY <1>3, <1>4, <2>1 DEF UpsOK
<1>9. Resuming(conf, x)
  <2> SUFFICES ASSUME NEW u \in ToSet(s.queue)
               PROVE  Resumes(conf, t2, s.up[u], u)
    BY <1>2 DEF Resuming, t2
  <2>1. Resumes(conf, t, s.up[u], u)
    BY <1>1 DEF Resuming
  <2>2. s.up[u] \in UpType /\ UpOK(t, s.up[u])
    BY <1>1, <1>3, StateParts DEF UpsOK
  <2>3. /\ t2.forced = t.forced /\ t2.appended = t.appended
        /\ t2.head = t.head /\ t2.tail = t.tail
    BY <1>2 DEF ClosedTrack
  <2> QED
    BY <1>4, <2>1, <2>2, <2>3 DEF Resumes, Readable
<1>10. Good(conf, x)
  <2>1. x.track = t2 /\ s.faults <= conf.maxFaults
    BY <1>1 DEF t2, Sound
  <2> QED
    BY <1>1, <1>2, <1>4, <1>7, <1>8, <1>9, <2>1 DEF Good, Sound
<1>11. MostOK(t2, s.queue) /\ WholeOK(t2)
  <2>1. /\ t2.state = t.state /\ t2.pub = t.pub
        /\ t2.detached = t.detached /\ t2.keep = t.keep
        /\ t2.written = t.written /\ t2.head = t.head
        /\ t2.tail = t.tail /\ ~t2.blocked
    BY <1>2 DEF ClosedTrack
  <2>2. MostOK(t, s.queue)
    OBVIOUS
  <2>3. PubOK(t2, s.queue) /\ NoPackets(t2, s.queue) /\ NoBuffers(t2)
        /\ KeepOK(t2)
    BY <1>5, <2>1, <2>2 DEF MostOK, PubOK, NoPackets, NoBuffers, KeepOK
  <2>4. EosOK(t2)
    <3> SUFFICES ASSUME NEW k \in 1 .. m, t2.pkts[k].type = "eos"
                 PROVE  k = m /\ t2.detached
      BY <1>4, <1>5 DEF EosOK
    <3>1. k # m
      BY <1>4
    <3>2. t.pkts[k].type = "eos"
      BY <1>4, <3>1
    <3> QED
      BY <1>5, <2>1, <2>2, <3>2 DEF MostOK, EosOK, m
  <2>5. WholeOK(t2)
    BY <1>4, <2>1 DEF WholeOK, m
  <2> QED
    BY <2>3, <2>4, <2>5 DEF MostOK
<1>12. Handled(conf, r, x)
  <2>1. x.track.detached = s.track.detached /\ x.track.oerr = s.track.oerr
    BY <1>2 DEF ClosedTrack, t2
  <2> QED
    BY <1>2, <2>1, AfterHandled
<1> QED
  BY <1>2, <1>10, <1>11, <1>12 DEF t2

\* What was handled before more steps is handled after them.
LEMMA HandledSteps ==
    ASSUME NEW g, NEW r \in StateType, NEW s \in StateType,
           NEW x \in StateType, NEW n \in Nat,
           Handled(g, r, s), Steps(s, x, n)
    PROVE  Handled(g, r, x)
<1>1. x.queue = s.queue /\ x.track.detached = s.track.detached
      /\ x.track.oerr = s.track.oerr
  BY DEF Steps, Later
<1>2. ASSUME NEW v \in ToSet(r.queue) \cap ToSet(x.queue)
      PROVE  r.up[v].acked <= x.up[v].acked
  <2>1. v \in Upstreams /\ v \in ToSet(s.queue)
    BY <1>1, StateParts
  <2>2. /\ r.up[v].acked \in Nat /\ s.up[v].acked \in Nat
        /\ x.up[v].acked \in Nat
    BY <2>1, StateParts DEF UpType
  <2>3. r.up[v].acked <= s.up[v].acked /\ s.up[v].acked <= x.up[v].acked
    BY <2>1 DEF Handled, Steps
  <2> QED
    BY <2>2, <2>3
<1> QED
  BY <1>1, <1>2 DEF Handled

\* Only the upstreams matter.
LEMMA HandledFrom ==
    ASSUME NEW g, NEW r, NEW s, NEW x, Handled(g, r, x),
           s.up = r.up, s.queue = r.queue
    PROVE  Handled(g, s, x)
BY DEF Handled

\* Sending is blocked when a frame starts.
Blocked(s) == [s EXCEPT !.track.blocked = TRUE]

\* That changes nothing else.
LEMMA BlockedGood ==
    ASSUME IInv, NEW r, r = Blocked(Now)
    PROVE  /\ Good(conf, r) /\ r \in StateType /\ r.track.blocked
           /\ r.up = up /\ r.queue = queue
           /\ r.track.pkts = track.pkts /\ r.track.written = track.written
           /\ r.track.tail = track.tail /\ r.track.oerr = track.oerr
           /\ Rest(r.track, r.queue) /\ MostOK(r.track, r.queue)
<1> DEFINE t2 == [track EXCEPT !.blocked = TRUE]
<1>1. /\ Now \in StateType /\ Now.track = track /\ Now.up = up
      /\ Now.queue = queue /\ Good(conf, Now) /\ track \in TrackType
      /\ MostOK(track, queue) /\ HeadersOK(track)
  BY NowGood DEF Good, Sound
<1>2. /\ t2 \in TrackType /\ Bytes(track, t2) /\ t2.blocked
      /\ t2.oerr = track.oerr /\ t2.detached = track.detached
      /\ t2.keep = track.keep /\ t2.state = track.state
      /\ t2.pub = track.pub
  BY <1>1 DEF TrackType, Bytes
<1>3. r = SetTrack(Now, t2)
  BY <1>1 DEF Blocked, SetTrack
<1> HIDE DEF t2
<1>4. /\ r \in StateType /\ r.track = t2 /\ r.up = Now.up
      /\ r.queue = Now.queue /\ r.faults = Now.faults
  BY <1>1, <1>2, <1>3, TrackFields
<1>5. HeadersOK(t2)
  BY <1>1, <1>2 DEF HeadersOK, Bytes
<1>6. Good(conf, r)
  BY <1>1, <1>2, <1>4, <1>5, BytesGood
<1>7. MostOK(t2, queue)
  BY <1>1, <1>2, SamePhase DEF Bytes
<1> QED
  BY <1>1, <1>2, <1>4, <1>6, <1>7 DEF Bytes, MostOK, Rest

\* What the start of a frame leaves
LEMMA OpenFrameGood ==
    ASSUME IInv, OwnerWrites, NEW d \in Nat, NEW s \in OpenFrame(Now, d)
    PROVE  /\ Good(conf, s) /\ MostOK(s.track, s.queue)
           /\ Handled(conf, Now, s) /\ s.track.oerr = track.oerr
           /\ Opened(track, s.track, "open", 1 + d)
           /\ s.rc # "error" => s.track.written = track.written + 1 + d
<1> DEFINE r == Blocked(Now)
<1>1. s \in WritePacket(r, "open", d) /\ r = Blocked(Now)
  BY DEF OpenFrame, Blocked
<1> HIDE DEF r
<1>2. /\ Good(conf, r) /\ r \in StateType /\ r.track.blocked
      /\ r.up = up /\ r.queue = queue
      /\ r.track.pkts = track.pkts /\ r.track.written = track.written
      /\ r.track.tail = track.tail /\ r.track.oerr = track.oerr
      /\ Rest(r.track, r.queue) /\ MostOK(r.track, r.queue)
  BY <1>1, BlockedGood
<1>3. "open" \in PacketTypes \ {"eos"}
  BY DEF PacketTypes
<1>4. /\ Writes(r, s, "open", d) /\ Good(conf, s)
      /\ MostOK(s.track, s.queue) /\ Handled(conf, r, s)
  BY <1>1, <1>2, <1>3, OwnerWritesGood
<1>5. Handled(conf, Now, s)
  BY <1>2, <1>4, NowGood, HandledFrom
<1>6. /\ s.track.oerr = track.oerr
      /\ Opened(r.track, s.track, "open", 1 + d)
      /\ s.rc # "error" => s.track.written = track.written + 1 + d
  BY <1>2, <1>4 DEF Writes, Onward
<1>7. Opened(track, s.track, "open", 1 + d)
  <2>1. \A k : End(r.track, k) = End(track, k)
               /\ Frames(r.track, k) = Frames(track, k)
    BY <1>2 DEF End, Frames
  <2>2. Packet(r.track, "open", 1 + d) = Packet(track, "open", 1 + d)
    BY <1>2, <2>1 DEF Packet
  <2> QED
    BY <1>2, <1>6, <2>1, <2>2 DEF Opened
<1> QED
  BY <1>4, <1>5, <1>6, <1>7

\* A frame is aborted.
LEMMA AbortFrameGood ==
    ASSUME IInv, AbortFrame
    PROVE  Acted
<1>1. OwnerWrites
  BY DEF AbortFrame
<1>2. PICK d \in conf.sizes : \E s \in OpenFrame(Now, d) :
        Become(OwnerError(s))
  BY DEF AbortFrame
<1>3. PICK s \in OpenFrame(Now, d) : Become(OwnerError(s))
  BY <1>2
<1>4. d \in Nat
  BY <1>2, NowGood DEF ConfType
<1>5. Good(conf, s) /\ MostOK(s.track, s.queue) /\ Handled(conf, Now, s)
  BY <1>1, <1>3, <1>4, OpenFrameGood
<1> DEFINE x == OwnerError(s)
<1>6. Become(x) /\ x = OwnerError(s)
  BY <1>3
<1> HIDE DEF x
<1>7. Done(Now, x)
  BY <1>5, <1>6, OwnerErrorDone
<1> QED
  BY <1>6, <1>7 DEF Acted

\* The end of a frame: the last packet is that frame, its header is filled in.
LEMMA OpenFrameClosed ==
    ASSUME IInv, OwnerWrites, NEW d \in Nat, NEW s \in OpenFrame(Now, d),
           s.rc # "error", NEW c, c = Closed(s)
    PROVE  /\ Len(s.track.pkts) > 0
           /\ s.track.pkts[Len(s.track.pkts)].type = "open"
           /\ Good(conf, c) /\ MostOK(c.track, c.queue)
           /\ WholeOK(c.track) /\ Handled(conf, Now, c)
<1> DEFINE t == s.track
           m == Len(t.pkts)
<1>1. /\ Good(conf, s) /\ MostOK(t, s.queue) /\ Handled(conf, Now, s)
      /\ t.oerr = track.oerr /\ t.written = track.written + 1 + d
      /\ Opened(track, t, "open", 1 + d)
  BY OpenFrameGood
<1>2. /\ Now \in StateType /\ track \in TrackType /\ WholeOK(track)
      /\ ~track.oerr /\ ~track.detached /\ HeadersOK(track)
  BY NowGood DEF OwnerWrites, Good, Sound
<1>3. s \in StateType /\ t \in TrackType
  BY <1>1, StateParts DEF Good, Sound
<1>4. Lengthens(track, t, "open", 1 + d)
  <2>1. "open" \in PacketTypes
    BY DEF PacketTypes
  <2> DEFINE n == 1 + d
  <2>2. n \in Nat /\ Opened(track, t, "open", n)
    BY <1>1
  <2> HIDE DEF n, t
  <2>3. Lengthens(track, t, "open", n)
    BY <1>2, <2>1, <2>2, OpenedEnd
  <2> QED
    BY <2>3 DEF n
<1> HIDE DEF t
<1>5. /\ End(track, Len(track.pkts)) <= track.written /\ ~track.blocked
      /\ \A k \in DOMAIN track.pkts : track.pkts[k].type # "open"
  BY <1>2 DEF WholeOK, HeadersOK
<1>6. /\ End(t, m) = track.written + (1 + d)
      /\ t.pkts = Append(track.pkts, Packet(track, "open", 1 + d))
      /\ \A k \in DOMAIN t.pkts :
            \/ k \in DOMAIN track.pkts /\ t.pkts[k] = track.pkts[k]
            \/ k = m /\ t.pkts[k].type = "open"
  BY <1>4, <1>5 DEF Lengthens
<1>7. m > 0 /\ t.pkts[m].type = "open" /\ DOMAIN t.pkts = 1 .. m
  <2> DEFINE p == Packet(track, "open", 1 + d)
  <2>1. p.type = "open"
    BY DEF Packet
  <2> HIDE DEF p
  <2>2. t.pkts = Append(track.pkts, p)
    BY <1>6 DEF p
  <2>3. /\ track.pkts \in Seq(PacketType) /\ t.pkts \in Seq(PacketType)
        /\ DOMAIN t.pkts = 1 .. m /\ m \in Nat
    BY <1>2, <1>3, LogNumbers
  <2>4. m = Len(track.pkts) + 1 /\ t.pkts[Len(track.pkts) + 1] = p
        /\ Len(track.pkts) \in Nat
    BY <2>2, <2>3
  <2> QED
    BY <2>1, <2>3, <2>4
<1>8. \A k \in 1 .. m : k # m => t.pkts[k].type # "open"
  BY <1>5, <1>6, <1>7
<1>9. End(t, m) <= t.written
  <2>1. t.written \in Nat /\ track.written \in Nat
    BY <1>2, <1>3 DEF TrackType
  <2> QED
    BY <1>1, <1>6, <2>1
<1>10. c = Closed(s) /\ t = s.track
  BY DEF t
<1>11. /\ Good(conf, c) /\ MostOK(c.track, c.queue)
       /\ WholeOK(c.track) /\ Handled(conf, Now, c)
  BY <1>1, <1>2, <1>7, <1>8, <1>9, <1>10, ClosedGood
<1> QED
  BY <1>7, <1>10, <1>11

\* ... and it is sent.
LEMMA CloseFrameGood ==
    ASSUME IInv, OwnerWrites, NEW d \in Nat, NEW s \in OpenFrame(Now, d),
           s.rc # "error", NEW z \in CloseFrame(s)
    PROVE  /\ Good(conf, z) /\ MostOK(z.track, z.queue)
           /\ WholeOK(z.track) /\ Handled(conf, Now, z)
<1> DEFINE c == Closed(s)
<1>1. PICK y \in SendAll(c) :
        z = IF y.rc = "error" THEN y ELSE FrameWritten(y)
  BY DEF CloseFrame, Then, Closed
<1>2. c = Closed(s) /\ Now \in StateType
  BY NowGood DEF Good, Sound
<1> HIDE DEF c
<1>3. /\ Good(conf, c) /\ MostOK(c.track, c.queue)
      /\ WholeOK(c.track) /\ Handled(conf, Now, c)
  BY <1>2, OpenFrameClosed
<1>4. Good(conf, y) /\ Steps(c, y, 0)
  BY <1>1, <1>3, SendAllGood
<1>5. c \in StateType /\ y \in StateType
  BY <1>3, <1>4 DEF Good, Sound
<1>6. /\ MostOK(y.track, y.queue) /\ WholeOK(y.track)
      /\ Handled(conf, Now, y)
  <2>1. Rest(c.track, c.queue)
    BY <1>3 DEF MostOK, Rest
  <2>2. Handled(conf, Now, y)
    BY <1>2, <1>3, <1>4, <1>5, HandledSteps
  <2> QED
    BY <1>3, <1>4, <1>5, <2>1, <2>2, StepsPhase
<1>7. CASE y.rc = "error"
  BY <1>1, <1>4, <1>6, <1>7
<1>8. CASE y.rc # "error"
  <2>1. z = FrameWritten(y)
    BY <1>1, <1>8
  <2>2. Flags(y, z)
    BY <1>5, <2>1, FrameWrittenFlags
  <2> QED
    BY <1>4, <1>6, <2>2, FlagsGood
<1> QED
  BY <1>7, <1>8

\* A frame is written in two parts.
LEMMA WriteMarkedFrameGood ==
    ASSUME IInv, WriteMarkedFrame
    PROVE  Acted
<1>1. OwnerWrites
  BY DEF WriteMarkedFrame
<1>2. PICK d \in conf.sizes :
        \E z \in Then(OpenFrame(Now, d), CloseFrame) : Become(Returned(z))
  BY DEF WriteMarkedFrame
<1>3. PICK z \in Then(OpenFrame(Now, d), CloseFrame) : Become(Returned(z))
  BY <1>2
<1>4. PICK s \in OpenFrame(Now, d) :
        z \in IF s.rc = "error" THEN {s} ELSE CloseFrame(s)
  BY <1>3 DEF Then
<1>5. d \in Nat
  BY <1>2, NowGood DEF ConfType
<1> DEFINE x == Returned(z)
<1>6. Become(x) /\ x = Returned(z)
  BY <1>3
<1> HIDE DEF x
<1>7. CASE s.rc = "error"
  <2>1. z = s
    BY <1>4, <1>7
  <2>2. Good(conf, z) /\ MostOK(z.track, z.queue) /\ Handled(conf, Now, z)
    BY <1>1, <1>4, <1>5, <2>1, OpenFrameGood
  <2>3. Done(Now, x)
    BY <1>6, <1>7, <2>1, <2>2, ReturnedDone
  <2> QED
    BY <1>6, <2>3 DEF Acted
<1>8. CASE s.rc # "error"
  <2>1. /\ Good(conf, z) /\ MostOK(z.track, z.queue)
        /\ WholeOK(z.track) /\ Handled(conf, Now, z)
    BY <1>1, <1>4, <1>5, <1>8, CloseFrameGood
  <2>2. Done(Now, x)
    BY <1>6, <2>1, ReturnedDone
  <2> QED
    BY <1>6, <2>2 DEF Acted
<1> QED
  BY <1>7, <1>8

\* A keepalive packet is written.
LEMMA KeepaliveGood ==
    ASSUME IInv, KeepaliveTimer
    PROVE  Acted
<1>1. PICK s \in WritePacket(Now, "null", 0) :
        Become(IF s.rc = "error" THEN TrackError(s) ELSE s)
  BY DEF KeepaliveTimer
<1>2. /\ Now \in StateType /\ Now.track = track /\ Now.queue = queue
      /\ Good(conf, Now) /\ Rest(track, queue) /\ MostOK(track, queue)
      /\ WholeOK(track) /\ track \in TrackType /\ track.keep
  BY NowGood DEF KeepaliveTimer
<1>3. ~track.detached
  BY <1>2 DEF MostOK, KeepOK
<1>4. Owned(conf, track)
  <2>1. MemoryOK(conf, track, queue)
    BY <1>2 DEF Good, Sound
  <2>2. track.tail \in Int /\ track.head \in Nat
    BY <1>2 DEF TrackType
  <2>3. track.tail < 0 => track.tail = -1
    BY <2>1, <2>2 DEF MemoryOK
  <2> QED
    BY <1>2, <1>3, <2>3 DEF Owned, MostOK, NoBuffers
<1>5. "null" \in PacketTypes /\ "null" # "eos" /\ "null" # "open"
  BY DEF PacketTypes
<1>6. Writes(Now, s, "null", 0)
  BY <1>1, <1>2, <1>4, <1>5, WritePacketGood
<1>7. \A k \in DOMAIN track.pkts : track.pkts[k].type # "eos"
  BY <1>2, <1>3 DEF MostOK, EosOK
<1>8. /\ MostOK(s.track, s.queue) /\ Handled(conf, Now, s)
      /\ s.rc # "error" => WholeOK(s.track)
  BY <1>2, <1>5, <1>6, <1>7, WritesPhase
<1>9. Good(conf, s) /\ ~s.track.detached
  BY <1>2, <1>3, <1>6 DEF Writes, Onward
<1>10. CASE s.rc = "error"
  <2> DEFINE x == TrackError(s)
  <2>1. Become(x) /\ x = TrackError(s)
    BY <1>1, <1>10
  <2> HIDE DEF x
  <2>2. Done(Now, x)
    BY <1>8, <1>9, <2>1, TrackErrorDone
  <2> QED
    BY <2>1, <2>2 DEF Acted
<1>11. CASE s.rc # "error"
  <2>1. Become(s)
    BY <1>1, <1>11
  <2>2. Done(Now, s)
    BY <1>8, <1>9, <1>11 DEF Done, PhaseOK
  <2> QED
    BY <2>1, <2>2 DEF Acted
<1> QED
  BY <1>10, <1>11

\* What is appended and sent
LEMMA FlushGood ==
    ASSUME NEW s, Good(conf, s), Rest(s.track, s.queue), NEW x \in Flush(s)
    PROVE  /\ Good(conf, x) /\ Steps(s, x, 0) /\ Rest(x.track, x.queue)
           /\ Handled(conf, s, x)
           /\ MostOK(s.track, s.queue) => MostOK(x.track, x.queue)
           /\ WholeOK(s.track) => WholeOK(x.track)
<1>1. PICK a \in AppendAll(s) :
        x \in IF a.rc = "error" THEN {a} ELSE SendAll(a)
  BY DEF Flush, Then
<1>2. Good(conf, a) /\ Steps(s, a, 0)
  BY <1>1, AppendAllGood
<1>3. s \in StateType /\ a \in StateType
  BY <1>2 DEF Good, Sound
<1>4. Good(conf, x) /\ Steps(a, x, 0)
  <2>1. CASE a.rc = "error"
    BY <1>1, <1>2, <1>3, <2>1, StepsNothing
  <2>2. CASE a.rc # "error"
    BY <1>1, <1>2, <2>2, SendAllGood
  <2> QED
    BY <2>1, <2>2
<1>5. x \in StateType
  BY <1>4 DEF Good, Sound
<1>6. Steps(s, x, 0 + 0)
  BY <1>2, <1>3, <1>4, <1>5, StepsTwice
<1>7. Steps(s, x, 0)
  BY <1>6
<1> QED
  BY <1>3, <1>4, <1>5, <1>7, StepsPhase

\* The flush timer expires.
LEMMA FlushTimerGood ==
    ASSUME IInv, FlushTimer
    PROVE  Acted
<1> DEFINE t2 == [track EXCEPT !.flush = FALSE]
           r == [Now EXCEPT !.track.flush = FALSE]
<1>1. PICK s \in Flush(r) :
        Become(IF s.rc = "error" THEN TrackError(s) ELSE s)
  BY DEF FlushTimer
<1>2. /\ Now \in StateType /\ Now.track = track /\ Now.queue = queue
      /\ Good(conf, Now) /\ MostOK(track, queue)
      /\ WholeOK(track) /\ track \in TrackType
      /\ Handled(conf, Now, Now)
  BY NowGood
<1>3. t2 \in TrackType /\ SameLog(track, t2) /\ t2.alerts = track.alerts
  BY <1>2 DEF TrackType, SameLog
<1>4. r = SetTrack(Now, t2)
  BY <1>2 DEF SetTrack
<1> HIDE DEF t2, r
<1>5. Flags(Now, r)
  BY <1>2, <1>3, <1>4, TrackFields DEF Flags
<1>6. /\ Good(conf, r) /\ MostOK(r.track, r.queue) /\ WholeOK(r.track)
      /\ Handled(conf, Now, r)
  BY <1>2, <1>5, FlagsGood
<1>7. /\ Good(conf, s) /\ Steps(r, s, 0)
      /\ MostOK(s.track, s.queue) /\ WholeOK(s.track)
  <2>1. Rest(r.track, r.queue)
    BY <1>6 DEF MostOK, Rest
  <2> QED
    BY <1>1, <1>6, <2>1, FlushGood
<1>8. Handled(conf, Now, s)
  <2>1. r \in StateType /\ s \in StateType
    BY <1>6, <1>7 DEF Good, Sound
  <2> QED
    BY <1>2, <1>6, <1>7, <2>1, HandledSteps
<1>9. CASE s.rc = "error"
  <2> DEFINE x == TrackError(s)
  <2>1. Become(x) /\ x = TrackError(s)
    BY <1>1, <1>9
  <2> HIDE DEF x
  <2>2. Done(Now, x)
    BY <1>7, <1>8, <2>1, TrackErrorDone
  <2> QED
    BY <2>1, <2>2 DEF Acted
<1>10. CASE s.rc # "error"
  <2>1. Become(s)
    BY <1>1, <1>10
  <2>2. Done(Now, s)
    BY <1>7, <1>8 DEF Done, PhaseOK
  <2> QED
    BY <2>1, <2>2 DEF Acted
<1> QED
  BY <1>9, <1>10

\* The list of upstreams is set to q, each of them to its value in ups.
SetUps(s, ups, q) == [s EXCEPT !.queue = q, !.up = ups]

\* That changes nothing else.
LEMMA UpsFields ==
    ASSUME NEW s \in StateType, NEW ups \in [Upstreams -> UpType],
           NEW q \in Seq(Upstreams), NEW x, x = SetUps(s, ups, q)
    PROVE  /\ x \in StateType /\ x.track = s.track /\ x.up = ups
           /\ x.queue = q /\ x.faults = s.faults /\ x.rc = s.rc
BY DEF SetUps, StateType

\* That is good if the upstreams are, as long as they have buffers.
LEMMA UpsGood ==
    ASSUME NEW s, Good(conf, s), NEW ups \in [Upstreams -> UpType],
           NEW q \in Seq(Upstreams), NEW x, x = SetUps(s, ups, q),
           UpsOK(s.track, ups, q), s.queue = << >> => q = << >>
                \/ s.track.tail # -1,
           \A u \in ToSet(q) : Resumes(conf, s.track, ups[u], u)
    PROVE  Good(conf, x)
<1>1. /\ s \in StateType /\ conf \in Confs /\ s.faults <= conf.maxFaults
      /\ LogOK(s.track) /\ MemoryOK(conf, s.track, s.queue)
      /\ HeadersOK(s.track) /\ AlertsOK(conf, s.track)
  BY DEF Good, Sound
<1>2. /\ x \in StateType /\ x.track = s.track /\ x.up = ups
      /\ x.queue = q /\ x.faults = s.faults
  BY <1>1, UpsFields
<1>3. MemoryOK(conf, s.track, q)
  BY <1>1 DEF MemoryOK
<1> QED
  BY <1>1, <1>2, <1>3 DEF Good, Sound, Resuming

\* The upstreams that are left know that the stream ends.
EndedUps(s) ==
    [u \in Upstreams |->
        IF u \in ToSet(s.queue) THEN [s.up[u] EXCEPT !.sentEnd = TRUE]
        ELSE s.up[u]]
Ended(s) == [s EXCEPT !.up = EndedUps(s)]

\* That does no harm.
LEMMA EndedGood ==
    ASSUME NEW s, Good(conf, s), NEW x, x = Ended(s)
    PROVE  Good(conf, x) /\ Steps(s, x, 0) /\ x.track = s.track
           /\ x.queue = s.queue
<1> DEFINE ups == EndedUps(s)
<1>1. /\ s \in StateType /\ s.queue \in Seq(Upstreams)
      /\ ToSet(s.queue) \subseteq Upstreams
      /\ s.up \in [Upstreams -> UpType] /\ Sound(conf, s)
      /\ Resuming(conf, s)
  BY StateParts DEF Good, Sound
<1>2. ASSUME NEW u \in Upstreams
      PROVE  /\ ups[u] \in UpType /\ ups[u].used = s.up[u].used
             /\ ups[u].acked = s.up[u].acked /\ ups[u].conn = s.up[u].conn
             /\ ups[u].sent = s.up[u].sent /\ ups[u].skew = s.up[u].skew
             /\ ups[u].confirmed = s.up[u].confirmed
             /\ u \notin ToSet(s.queue) => ups[u] = s.up[u]
  <2>1. s.up[u] \in UpType
    BY <1>1
  <2>2. CASE u \in ToSet(s.queue)
    <3>1. ups[u] = [s.up[u] EXCEPT !.sentEnd = TRUE]
      BY <2>2 DEF EndedUps
    <3> HIDE DEF ups
    <3> QED
      BY <2>1, <2>2, <3>1 DEF UpType
  <2>3. CASE u \notin ToSet(s.queue)
    <3>1. ups[u] = s.up[u]
      BY <2>3 DEF EndedUps
    <3> HIDE DEF ups
    <3> QED
      BY <2>1, <2>3, <3>1
  <2> QED
    BY <2>2, <2>3
<1>3. ups \in [Upstreams -> UpType]
  <2>1. \A u \in Upstreams : ups[u] \in UpType
    BY <1>2
  <2> QED
    BY <2>1 DEF EndedUps
<1>4. x = SetUps(s, ups, s.queue)
  BY <1>1 DEF Ended, SetUps, StateType
<1> HIDE DEF ups
<1>5. /\ x \in StateType /\ x.track = s.track /\ x.up = ups
      /\ x.queue = s.queue
  BY <1>1, <1>3, <1>4, UpsFields
<1>6. UpsOK(s.track, ups, s.queue)
  <2>1. UpsOK(s.track, s.up, s.queue)
    BY <1>1 DEF Sound
  <2>2. ASSUME NEW u \in ToSet(s.queue)
        PROVE  UpOK(s.track, ups[u])
    <3>1. UpOK(s.track, s.up[u]) /\ u \in Upstreams
      BY <1>1, <2>1 DEF UpsOK
    <3> QED
      BY <1>2, <3>1 DEF UpOK
  <2>3. \A u \in Upstreams \ ToSet(s.queue) : UpGone(ups[u])
    BY <1>2, <2>1 DEF UpsOK
  <2> QED
    BY <2>1, <2>2, <2>3 DEF UpsOK
<1>7. ASSUME NEW u \in ToSet(s.queue)
      PROVE  Resumes(conf, s.track, ups[u], u)
  <2>1. Resumes(conf, s.track, s.up[u], u) /\ u \in Upstreams
    BY <1>1 DEF Resuming
  <2> QED
    BY <1>2, <2>1, ResumesSame
<1>8. s.queue = << >> => s.queue = << >> \/ s.track.tail # -1
  OBVIOUS
<1>9. Good(conf, x)
  BY <1>1, <1>3, <1>4, <1>6, <1>7, <1>8, UpsGood
<1>10. Steps(s, x, 0)
  <2>1. Steps(s, s, 0)
    BY <1>1, StepsNothing
  <2> QED
    BY <1>2, <1>5, <2>1 DEF Steps
<1> QED
  BY <1>5, <1>9, <1>10

\* All upstreams are freed.
LEMMA FreeUpstreamsGood ==
    ASSUME NEW s, Good(conf, s), NEW x, x = FreeUpstreams(s)
    PROVE  Good(conf, x) /\ x.track = s.track /\ x.queue = << >>
<1> DEFINE gone == [NoUpstream EXCEPT !.used = TRUE]
           ups == [u \in Upstreams |->
                    IF u \in ToSet(s.queue) THEN gone ELSE s.up[u]]
           q == << >>
<1>1. /\ s \in StateType /\ s.up \in [Upstreams -> UpType]
      /\ UpsOK(s.track, s.up, s.queue)
  BY StateParts DEF Good, Sound
<1>2. gone \in UpType /\ UpGone(gone)
  BY GoneUp
<1>3. x = SetUps(s, ups, q)
  BY DEF FreeUpstreams, SetUps
<1> HIDE DEF gone
<1>4. ups \in [Upstreams -> UpType] /\ \A u \in Upstreams : UpGone(ups[u])
  BY <1>1, <1>2 DEF UpsOK
<1>5. q \in Seq(Upstreams) /\ IsInjective(q) /\ ToSet(q) = {}
  BY DEF ToSet, IsInjective
<1>10. q = << >>
  OBVIOUS
<1> HIDE DEF ups, q
<1>6. x.track = s.track /\ x.queue = q
  BY <1>1, <1>3, <1>4, <1>5, UpsFields
<1>7. UpsOK(s.track, ups, q)
  BY <1>4, <1>5 DEF UpsOK
<1>8. \A u \in ToSet(q) : Resumes(conf, s.track, ups[u], u)
  BY <1>5
<1>11. s.queue = << >> => q = << >> \/ s.track.tail # -1
  BY <1>10
<1>9. Good(conf, x)
  BY <1>3, <1>4, <1>5, <1>7, <1>8, <1>11, UpsGood
<1> QED
  BY <1>6, <1>9, <1>10

\* What is known of a track while it is detached
Detaching(s) ==
    /\ Good(conf, s) /\ Rest(s.track, s.queue) /\ WholeOK(s.track)
    /\ s.track.detached /\ ~s.track.pub

\* A step leaves it.
LEMMA DetachingSteps ==
    ASSUME NEW s, Detaching(s), NEW x, Good(conf, x), Steps(s, x, 0)
    PROVE  Detaching(x) /\ Handled(conf, s, x)
<1>1. s \in StateType /\ x \in StateType
  BY DEF Detaching, Good, Sound
<1>2. Rest(x.track, x.queue) /\ WholeOK(x.track) /\ Handled(conf, s, x)
  BY <1>1, StepsPhase DEF Detaching
<1>3. x.track.detached /\ ~x.track.pub
  BY DEF Detaching, Steps, Later
<1> QED
  BY <1>2, <1>3 DEF Detaching

\* The input is closed.
LEMMA DetachStart ==
    ASSUME IInv, ~track.detached, NEW s,
           s = [Now EXCEPT !.track.detached = TRUE, !.track.pub = FALSE]
    PROVE  /\ Detaching(s) /\ s.up = up /\ s.queue = queue
           /\ s.track.tail = track.tail /\ s.rc = "ok"
           /\ \A k \in DOMAIN s.track.pkts : s.track.pkts[k].type # "eos"
<1> DEFINE a == [track EXCEPT !.detached = TRUE]
           t2 == [a EXCEPT !.pub = FALSE]
<1>1. /\ Now \in StateType /\ Now.track = track /\ Now.up = up
      /\ Now.queue = queue /\ Good(conf, Now) /\ Rest(track, queue)
      /\ WholeOK(track) /\ track \in TrackType /\ HeadersOK(track)
      /\ Now.rc = "ok"
  BY NowGood DEF Good, Sound, Now
<1>2. s = SetTrack(Now, t2)
  BY <1>1 DEF SetTrack, StateType
<1>3. /\ t2 \in TrackType /\ Bytes(track, t2) /\ t2.detached /\ ~t2.pub
      /\ t2.oerr = track.oerr /\ t2.blocked = track.blocked
  BY <1>1 DEF TrackType, Bytes
<1> HIDE DEF t2, a
<1>4. Now \in StateType /\ t2 \in TrackType
  BY <1>1, <1>3
<1>5. /\ s \in StateType /\ s.track = t2 /\ s.up = Now.up
      /\ s.queue = Now.queue /\ s.faults = Now.faults /\ s.rc = Now.rc
  BY ONLY <1>2, <1>4, TrackFields
<1>6. /\ s \in StateType /\ s.track = t2 /\ s.up = up
      /\ s.queue = queue /\ s.faults = Now.faults /\ s.rc = "ok"
  BY <1>1, <1>5
<1>7. HeadersOK(t2)
  BY <1>1, <1>3 DEF HeadersOK, Bytes
<1>8. Good(conf, s)
  BY <1>1, <1>3, <1>6, <1>7, BytesGood
<1>9. \A k \in DOMAIN t2.pkts : t2.pkts[k].type # "eos"
  BY <1>1, <1>3 DEF Rest, EosOK, Bytes
<1>10. Rest(t2, queue)
  BY <1>1, <1>3, <1>9 DEF Rest, PubOK, NoPackets, NoBuffers, EosOK, Bytes
<1>11. WholeOK(t2)
  BY <1>1, <1>3 DEF WholeOK
<1> QED
  BY <1>3, <1>6, <1>8, <1>9, <1>10, <1>11 DEF Detaching, Bytes

\* The track is set inactive.
Inactive(s) == [s EXCEPT !.track.state = "inactive"]

\* That changes little.
LEMMA InactiveFields ==
    ASSUME NEW s, Good(conf, s), NEW x, x = Inactive(s)
    PROVE  /\ Good(conf, x) /\ x \in StateType /\ x.up = s.up
           /\ x.queue = s.queue /\ x.faults = s.faults /\ x.rc = s.rc
           /\ Bytes(s.track, x.track) /\ x.track.state = "inactive"
           /\ x.track.pub = s.track.pub /\ x.track.keep = s.track.keep
           /\ x.track.detached = s.track.detached
           /\ x.track.oerr = s.track.oerr
           /\ x.track.blocked = s.track.blocked
<1> DEFINE t2 == [s.track EXCEPT !.state = "inactive"]
<1>1. s \in StateType /\ s.track \in TrackType /\ HeadersOK(s.track)
  BY StateParts DEF Good, Sound
<1>2. /\ t2 \in TrackType /\ Bytes(s.track, t2) /\ t2.state = "inactive"
      /\ t2.pub = s.track.pub /\ t2.keep = s.track.keep
      /\ t2.detached = s.track.detached
      /\ t2.oerr = s.track.oerr /\ t2.blocked = s.track.blocked
  BY <1>1 DEF TrackType, Bytes
<1>3. x = SetTrack(s, t2)
  BY DEF Inactive, SetTrack
<1> HIDE DEF t2
<1>4. /\ x \in StateType /\ x.track = t2 /\ x.up = s.up
      /\ x.queue = s.queue /\ x.faults = s.faults /\ x.rc = s.rc
  BY <1>1, <1>2, <1>3, TrackFields
<1>5. HeadersOK(t2)
  BY <1>1, <1>2 DEF HeadersOK, Bytes
<1>6. Good(conf, x)
  BY <1>1, <1>2, <1>4, <1>5, BytesGood
<1> QED
  BY <1>2, <1>4, <1>6

\* The end of stream is written, appended and sent.
LEMMA EndOfStreamGood ==
    ASSUME NEW s, Detaching(s), s.queue # << >>,
           \A k \in DOMAIN s.track.pkts : s.track.pkts[k].type # "eos",
           NEW x \in SendEndOfStream(s)
    PROVE  Detaching(x) /\ Handled(conf, s, x)
<1>1. /\ s \in StateType /\ s.track \in TrackType /\ conf \in Confs
      /\ MemoryOK(conf, s.track, s.queue) /\ Good(conf, s)
      /\ s.faults <= conf.maxFaults
  BY StateParts DEF Detaching, Good, Sound
<1>2. CASE s.track.werr
  <2>1. x = Rc(s, "error")
    BY <1>2 DEF SendEndOfStream
  <2>2. /\ x \in StateType /\ x.track = s.track /\ x.up = s.up
        /\ x.queue = s.queue /\ x.faults = s.faults
    BY <1>1, <2>1, RcFields
  <2>3. Good(conf, x)
    BY <1>1, <2>2, GoodSame DEF Good
  <2>4. Steps(s, x, 0)
    BY <1>1, <2>2, StepsNothing DEF Steps
  <2> QED
    BY <2>3, <2>4, DetachingSteps
<1>3. CASE ~s.track.werr
  <2> DEFINE a == Inactive(s)
  <2>1. PICK w \in WritePacket(a, "eos", 0) :
          x \in IF w.rc = "error" THEN {w} ELSE Flush(Ended(w))
    BY <1>3 DEF SendEndOfStream, Then, Inactive, Ended, EndedUps
  <2>2. a = Inactive(s)
    OBVIOUS
  <2> HIDE DEF a
  <2>3. /\ Good(conf, a) /\ a \in StateType /\ a.up = s.up
        /\ a.queue = s.queue /\ Bytes(s.track, a.track)
        /\ a.track.pub = s.track.pub
        /\ a.track.detached = s.track.detached
        /\ a.track.oerr = s.track.oerr
        /\ a.track.blocked = s.track.blocked
    BY <1>1, <2>2, InactiveFields
  <2>4. /\ a.track.detached /\ ~a.track.pub
        /\ \A k \in DOMAIN a.track.pkts : a.track.pkts[k].type # "eos"
        /\ Rest(a.track, a.queue) /\ WholeOK(a.track)
    <3>1. a.track.detached /\ ~a.track.pub /\ a.track.pkts = s.track.pkts
      BY <2>3 DEF Detaching, Bytes
    <3>2. Rest(a.track, a.queue)
      BY <2>3, <3>1
         DEF Detaching, Rest, PubOK, NoPackets, NoBuffers, EosOK, Bytes
    <3>3. WholeOK(a.track)
      BY <2>3, <3>1 DEF Detaching, WholeOK
    <3> QED
      BY <3>1, <3>2, <3>3
  <2>5. Owned(conf, a.track)
    <3>1. s.track.tail \in Int /\ s.track.head \in Nat
      BY <1>1 DEF TrackType
    <3>2. ~(a.track.tail < 0)
      BY <1>1, <2>3, <3>1 DEF MemoryOK, Bytes
    <3> QED
      BY <3>2 DEF Owned
  <2>6. "eos" \in PacketTypes /\ "eos" # "open" /\ 0 \in Nat
    BY DEF PacketTypes
  <2>7. Writes(a, w, "eos", 0)
    BY <2>1, <2>3, <2>5, <2>6, WritePacketGood
  <2>8. /\ Rest(w.track, w.queue) /\ WholeOK(w.track)
        /\ Handled(conf, a, w)
    BY <2>3, <2>4, <2>6, <2>7, WritesPhase
  <2>9. Detaching(w)
    BY <2>4, <2>7, <2>8 DEF Detaching, Writes, Onward
  <2>10. Handled(conf, s, w)
    BY <2>3, <2>8, HandledFrom
  <2>11. CASE w.rc = "error"
    BY <2>1, <2>9, <2>10, <2>11
  <2>12. CASE w.rc # "error"
    <3> DEFINE e == Ended(w)
    <3>1. x \in Flush(e) /\ e = Ended(w)
      BY <2>1, <2>12
    <3> HIDE DEF e
    <3>2. Good(conf, w) /\ w \in StateType
      BY <2>9 DEF Detaching, Good, Sound
    <3>3. Good(conf, e) /\ Steps(w, e, 0)
      BY <3>1, <3>2, EndedGood
    <3>4. Detaching(e) /\ e \in StateType
      BY <2>9, <3>3, DetachingSteps DEF Good, Sound
    <3>5. Good(conf, x) /\ Steps(e, x, 0)
      BY <3>1, <3>4, FlushGood DEF Detaching
    <3>6. Detaching(x) /\ x \in StateType
      BY <3>4, <3>5, DetachingSteps DEF Good, Sound
    <3>7. Handled(conf, s, e)
      BY <1>1, <2>10, <3>2, <3>3, <3>4, HandledSteps
    <3>8. Handled(conf, s, x)
      BY <1>1, <3>4, <3>5, <3>6, <3>7, HandledSteps
    <3> QED
      BY <3>6, <3>8
  <2> QED
    BY <2>11, <2>12
<1> QED
  BY <1>2, <1>3

\* The track is detached.
LEMMA DetachGood ==
    ASSUME IInv, Detach
    PROVE  Acted
<1> DEFINE s == [Now EXCEPT !.track.detached = TRUE, !.track.pub = FALSE]
           Left(x) == IF x.rc = "error" THEN FreeUpstreams(x) ELSE x
<1>1. PICK x \in IF queue = << >> THEN {s} ELSE SendEndOfStream(s) :
        Become(Cleanup(Left(x)))
  BY DEF Detach
<1>2. ~track.detached /\ s = [Now EXCEPT !.track.detached = TRUE,
                                         !.track.pub = FALSE]
  BY DEF Detach
<1> HIDE DEF s
<1>3. /\ Detaching(s) /\ s.up = up /\ s.queue = queue
      /\ s.track.tail = track.tail /\ s.rc = "ok"
      /\ \A k \in DOMAIN s.track.pkts : s.track.pkts[k].type # "eos"
  BY <1>2, DetachStart
<1>4. s \in StateType
  BY <1>3 DEF Detaching, Good, Sound
<1>5. Detaching(x) /\ Handled(conf, s, x)
  <2>1. CASE queue = << >>
    <3>1. Steps(s, s, 0)
      BY <1>4, StepsNothing
    <3> QED
      BY <1>1, <1>3, <2>1, <3>1, DetachingSteps DEF Detaching
  <2>2. CASE queue # << >>
    BY <1>1, <1>3, <2>2, EndOfStreamGood
  <2> QED
    BY <2>1, <2>2
<1> DEFINE y == Left(x)
           z == Cleanup(y)
<1>6. Detaching(y) /\ Handled(conf, s, y)
  <2>1. CASE x.rc = "error"
    <3>1. y = FreeUpstreams(x)
      BY <2>1
    <3> HIDE DEF y
    <3>2. Good(conf, y) /\ y.track = x.track /\ y.queue = << >>
      BY <1>5, <3>1, FreeUpstreamsGood DEF Detaching
    <3>3. Rest(y.track, y.queue)
      BY <1>5, <3>2 DEF Detaching, Rest, PubOK, NoPackets
    <3>4. Detaching(y)
      BY <1>5, <3>2, <3>3 DEF Detaching
    <3>5. ToSet(y.queue) = {}
      BY <3>2 DEF ToSet
    <3> QED
      BY <3>4, <3>5 DEF Handled, Detaching
  <2>2. CASE x.rc # "error"
    BY <1>5, <2>2
  <2> QED
    BY <2>1, <2>2
<1>7. z = Cleanup(y) /\ Become(z)
  BY <1>1
<1> HIDE DEF y, z
<1>8. /\ Good(conf, z) /\ PhaseOK(z.track, z.queue)
      /\ z.up = y.up /\ z.queue = y.queue
      /\ z.track.detached = y.track.detached
      /\ z.track.oerr = y.track.oerr
  BY <1>6, <1>7, CleanupGood DEF Detaching, Rest
<1>9. Handled(conf, s, z)
  BY <1>6, <1>8, AfterHandled
<1>10. Handled(conf, Now, z)
  BY <1>3, <1>9, NowGood, HandledFrom
<1> QED
  BY <1>7, <1>8, <1>10 DEF Done, Acted

-----------------------------------------------------------------------------
(* The controller and the management API *)

\* One more fault does no harm.
LEMMA FaultGood ==
    ASSUME NEW s, Good(conf, s), NEW x \in Fault(s)
    PROVE  /\ Good(conf, x) /\ x \in StateType /\ x.track = s.track
           /\ x.up = s.up /\ x.queue = s.queue
           /\ \A r : Handled(conf, r, s) => Handled(conf, r, x)
<1>1. s \in StateType /\ conf \in Confs
  BY DEF Good, Sound
<1>2. /\ x \in StateType /\ x.track = s.track /\ x.up = s.up
      /\ x.queue = s.queue /\ x.faults <= conf.maxFaults
  BY <1>1, FaultFields
<1>3. Good(conf, x)
  BY <1>2, GoodSame DEF Good
<1> QED
  BY <1>2, <1>3 DEF Handled

\* There is nothing to handle without upstreams.
LEMMA HandledNone ==
    ASSUME NEW g, NEW r, r.queue = << >>, NEW x
    PROVE  Handled(g, r, x)
BY DEF Handled, ToSet

\* The first upstreams of a list
LEMMA FirstOnes ==
    ASSUME NEW p \in Seq(Upstreams), IsInjective(p), NEW k \in 0 .. Len(p),
           NEW q, q = SubSeq(p, 1, k)
    PROVE  /\ q \in Seq(Upstreams) /\ IsInjective(q) /\ Len(q) = k
           /\ ToSet(q) \subseteq Upstreams
           /\ << >> \o q = q /\ (k = 0 <=> q = << >>)
<1>1. Len(p) \in Nat /\ k \in Nat /\ k <= Len(p) /\ DOMAIN p = 1 .. Len(p)
  OBVIOUS
<1>2. /\ q \in Seq(Upstreams) /\ Len(q) = k
      /\ \A i \in 1 .. k : q[i] = p[i]
  BY <1>1
<1>3. DOMAIN q = 1 .. k /\ ToSet(q) \subseteq Upstreams
  BY <1>2 DEF ToSet
<1>4. IsInjective(q)
  <2> SUFFICES ASSUME NEW a \in 1 .. k, NEW b \in 1 .. k, q[a] = q[b]
               PROVE  a = b
    BY <1>3 DEF IsInjective
  <2>1. a \in DOMAIN p /\ b \in DOMAIN p /\ p[a] = p[b]
    BY <1>1, <1>2
  <2> QED
    BY <2>1 DEF IsInjective
<1>5. << >> \o q = q /\ (k = 0 <=> q = << >>)
  BY <1>1, <1>2
<1> QED
  BY <1>2, <1>3, <1>4, <1>5

\* A connection in progress
LEMMA NewUp ==
    ASSUME NEW acked \in Nat, NEW eos \in BOOLEAN
    PROVE  LET y == NewConnection(acked, eos)
           IN  /\ y \in UpType /\ y.used /\ y.acked = acked
               /\ y.conn = "connecting" /\ y.confirmed = 0
BY DEF NewConnection, NoUpstream, UpType

\* The request to publish is no longer pending.
LEMMA AnsweredGood ==
    ASSUME IInv, track.pub, NEW s, s = [Now EXCEPT !.track.pub = FALSE]
    PROVE  /\ Good(conf, s) /\ s \in StateType /\ s.up = up
           /\ s.queue = queue /\ queue = << >>
           /\ MostOK(s.track, s.queue)
           /\ WholeOK(s.track) /\ ~s.track.pub /\ ~s.track.detached
           /\ s.track.head = 0 /\ s.track.tail >= 0
           /\ s.track.pkts # << >> /\ s.track.pkts = track.pkts
           /\ s.faults = faults
<1> DEFINE t2 == [track EXCEPT !.pub = FALSE]
<1>1. /\ Now \in StateType /\ Now.track = track /\ Now.up = up
      /\ Now.queue = queue /\ Now.faults = faults /\ Good(conf, Now)
      /\ MostOK(track, queue) /\ WholeOK(track) /\ track \in TrackType
      /\ HeadersOK(track) /\ MemoryOK(conf, track, queue)
  BY NowGood DEF Good, Sound
<1>2. s = SetTrack(Now, t2)
  BY <1>1 DEF SetTrack
<1>3. /\ t2 \in TrackType /\ Bytes(track, t2) /\ ~t2.pub
      /\ t2.oerr = track.oerr /\ t2.blocked = track.blocked
      /\ t2.detached = track.detached /\ t2.keep = track.keep
      /\ t2.state = track.state
  BY <1>1 DEF TrackType, Bytes
<1> HIDE DEF t2
<1>4. /\ s \in StateType /\ s.track = t2 /\ s.up = Now.up
      /\ s.queue = Now.queue /\ s.faults = Now.faults
  <2>1. Now \in StateType /\ t2 \in TrackType
    BY <1>1, <1>3
  <2> QED
    BY ONLY <1>2, <2>1, TrackFields
<1>5. /\ queue = << >> /\ track.head = 0 /\ track.tail # -1
      /\ ~track.detached /\ track.pkts # << >>
  BY <1>1 DEF MostOK, PubOK
<1>6. track.tail >= 0
  <2>1. track.tail \in Int
    BY <1>1 DEF TrackType
  <2> QED
    BY <1>1, <1>5, <2>1 DEF MemoryOK
<1>7. HeadersOK(t2) /\ WholeOK(t2)
  <2>1. /\ HeadersOK(track) /\ WholeOK(track)
        /\ t2.pkts = track.pkts /\ t2.written = track.written
        /\ t2.alerts = track.alerts
    BY <1>1, <1>3 DEF Bytes
  <2>2. \A k : End(t2, k) = End(track, k)
    BY ONLY <2>1, SamePackets
  <2>3. HeadersOK(t2)
    BY <1>3, <2>1 DEF HeadersOK
  <2>4. WholeOK(t2)
    BY <1>3, <2>1, <2>2 DEF WholeOK
  <2> QED
    BY <2>3, <2>4
<1>8. Good(conf, s)
  BY <1>1, <1>3, <1>4, <1>7, BytesGood
<1>9. MostOK(t2, queue)
  BY <1>1, <1>3, <1>5
     DEF MostOK, PubOK, NoPackets, NoBuffers, KeepOK, EosOK, Bytes
<1>10. /\ s.track = t2 /\ s.queue = queue /\ s.up = up
       /\ s.faults = faults /\ s \in StateType
  BY <1>1, <1>4
<1>11. t2.pkts = track.pkts /\ t2.head = track.head /\ t2.tail = track.tail
  BY <1>3 DEF Bytes
<1>12. /\ MostOK(s.track, s.queue) /\ WholeOK(s.track) /\ ~s.track.pub
       /\ s.track.pkts = track.pkts
  BY <1>3, <1>7, <1>9, <1>10, <1>11
<1>13. /\ ~s.track.detached /\ s.track.head = 0 /\ s.track.tail >= 0
       /\ s.track.pkts # << >>
  BY <1>3, <1>5, <1>6, <1>10, <1>11
<1> QED
  BY ONLY <1>5, <1>8, <1>10, <1>12, <1>13

\* The upstreams of q are created.
Published(q) ==
    [Now EXCEPT !.track.pub = FALSE, !.queue = @ \o q,
                !.up = [u \in Upstreams |->
                    IF u \in ToSet(q) THEN NewConnection(0, FALSE)
                    ELSE up[u]]]

\* They are those of the response.
LEMMA PublishedGood ==
    ASSUME IInv, track.pub, NEW k \in 0 .. Len(conf.initial),
           NEW q, q = SubSeq(conf.initial, 1, k), NEW s, s = Published(q)
    PROVE  /\ Good(conf, s) /\ s.queue = q /\ (k = 0 <=> q = << >>)
           /\ MostOK(s.track, s.queue) /\ WholeOK(s.track)
           /\ ~s.track.pub /\ ~s.track.detached /\ s.track.tail >= 0
           /\ s.track.pkts # << >>
<1> DEFINE r == [Now EXCEPT !.track.pub = FALSE]
           new == NewConnection(0, FALSE)
           ups == [u \in Upstreams |-> IF u \in ToSet(q) THEN new ELSE up[u]]
<1>1. /\ Good(conf, r) /\ r \in StateType /\ r.up = up
      /\ r.queue = queue /\ queue = << >>
      /\ MostOK(r.track, r.queue)
      /\ WholeOK(r.track) /\ ~r.track.pub /\ ~r.track.detached
      /\ r.track.head = 0 /\ r.track.tail >= 0
      /\ r.track.pkts # << >>
  <2>1. r = [Now EXCEPT !.track.pub = FALSE]
    OBVIOUS
  <2> HIDE DEF r
  <2> QED
    BY <2>1, AnsweredGood
<1>2. /\ q \in Seq(Upstreams) /\ IsInjective(q)
      /\ ToSet(q) \subseteq Upstreams
      /\ << >> \o q = q /\ (k = 0 <=> q = << >>)
  <2>1. conf.initial \in Seq(Upstreams) /\ IsInjective(conf.initial)
    BY NowGood DEF ConfType
  <2> QED
    BY <2>1, FirstOnes
<1>3. s = SetUps(r, ups, q)
  <2>1. Now.queue \o q = q /\ Now \in StateType
    BY <1>1, <1>2, NowGood
  <2> QED
    BY <2>1 DEF SetUps, StateType, Published
<1> HIDE DEF r
<1>4. /\ new \in UpType /\ new.used /\ new.acked = 0
      /\ new.conn = "connecting" /\ new.confirmed = 0
  BY NewUp
<1> HIDE DEF new
<1>5. /\ up \in [Upstreams -> UpType]
      /\ \A u \in Upstreams : UpGone(up[u])
      /\ r.track \in TrackType
  <2>1. UpsOK(r.track, r.up, r.queue)
    BY <1>1 DEF Good, Sound
  <2>2. ToSet(queue) = {}
    BY <1>1 DEF ToSet
  <2> QED
    BY <1>1, <2>1, <2>2, StateParts DEF UpsOK
<1>6. /\ ups \in [Upstreams -> UpType]
      /\ \A u \in ToSet(q) : ups[u] = new
      /\ \A u \in Upstreams \ ToSet(q) : UpGone(ups[u])
  BY <1>2, <1>4, <1>5
<1> HIDE DEF ups
<1>7. s.track = r.track /\ s.queue = q
  <2>1. /\ r \in StateType /\ ups \in [Upstreams -> UpType]
        /\ q \in Seq(Upstreams)
    BY <1>1, <1>2, <1>6
  <2> QED
    BY ONLY <1>3, <2>1, UpsFields
<1>8. UpsOK(r.track, ups, q)
  <2>1. 0 <= Len(r.track.pkts)
    BY <1>5, LogNumbers
  <2>2. UpOK(r.track, new)
    BY <1>4, <2>1 DEF UpOK
  <2> QED
    BY <1>2, <1>6, <2>2 DEF UpsOK
<1>9. \A u \in ToSet(q) : Resumes(conf, r.track, ups[u], u)
  <2> SUFFICES ASSUME NEW u \in ToSet(q)
               PROVE  Resumes(conf, r.track, new, u)
    BY <1>6
  <2>1. End(r.track, 0) = 0 /\ Frames(r.track, 0) = 0
    BY DEF End, Frames
  <2>2. r.track.appended \in Nat /\ r.track.tail \in Int
    BY <1>5 DEF TrackType
  <2>3. NodeOf(0) = 0
    BY NodeOrder
  <2>4. Readable(r.track, new) /\ FirstOf(r.track, new.acked)
    BY <1>1, <1>4, <2>1, <2>2, <2>3 DEF Readable, FirstOf
  <2> QED
    BY <1>4, <2>1, <2>2, <2>4 DEF Resumes
<1>10. r.queue = << >> => q = << >> \/ r.track.tail # -1
  BY <1>1
<1>11. Good(conf, s)
  BY <1>1, <1>2, <1>3, <1>6, <1>8, <1>9, <1>10, UpsGood
<1>12. MostOK(s.track, q)
  BY <1>1, <1>7
     DEF MostOK, PubOK, NoPackets, NoBuffers, KeepOK, EosOK
<1> QED
  BY <1>1, <1>2, <1>7, <1>11, <1>12

\* A track without upstreams is inactive.
LEMMA InactiveCleanup ==
    ASSUME NEW s, Good(conf, s), NoPackets(s.track, s.queue),
           EosOK(s.track), WholeOK(s.track), ~s.track.pub,
           NEW x, x = Cleanup(Inactive(s))
    PROVE  /\ Good(conf, x) /\ PhaseOK(x.track, x.queue)
           /\ x.up = s.up /\ x.queue = s.queue
           /\ x.track.detached = s.track.detached
           /\ x.track.oerr = s.track.oerr /\ x.track.state = "inactive"
<1> DEFINE a == Inactive(s)
<1>1. a = Inactive(s) /\ x = Cleanup(a)
  OBVIOUS
<1> HIDE DEF a
<1>2. /\ Good(conf, a) /\ a.up = s.up /\ a.queue = s.queue
      /\ Bytes(s.track, a.track) /\ a.track.state = "inactive"
      /\ a.track.pub = s.track.pub
      /\ a.track.detached = s.track.detached
      /\ a.track.oerr = s.track.oerr /\ a.track.blocked = s.track.blocked
  BY <1>1, InactiveFields
<1>3. NoPackets(a.track, a.queue) /\ EosOK(a.track)
  BY <1>2 DEF NoPackets, EosOK, Bytes
<1>4. WholeOK(a.track)
  BY <1>2 DEF WholeOK, Bytes, End
<1>5. /\ Good(conf, x) /\ PhaseOK(x.track, x.queue)
      /\ x.up = a.up /\ x.queue = a.queue
      /\ x.track.detached = a.track.detached
      /\ x.track.oerr = a.track.oerr /\ x.track.state = a.track.state
  BY <1>1, <1>2, <1>3, <1>4, CleanupGood
<1> QED
  BY <1>2, <1>5

\* The track becomes active.
LEMMA ActiveGood ==
    ASSUME NEW s, Good(conf, s), MostOK(s.track, s.queue),
           WholeOK(s.track), ~s.track.pub, ~s.track.detached,
           s.track.tail >= 0, NEW keep \in BOOLEAN, NEW x,
           x = [s EXCEPT !.track.state = "active", !.track.keep = keep]
    PROVE  Good(conf, x) /\ PhaseOK(x.track, x.queue)
<1> DEFINE a == [s.track EXCEPT !.state = "active"]
           t2 == [a EXCEPT !.keep = keep]
<1>1. s \in StateType /\ s.track \in TrackType /\ HeadersOK(s.track)
  BY StateParts DEF Good, Sound
<1>2. x = SetTrack(s, t2)
  BY <1>1 DEF SetTrack, StateType
<1>3. /\ a \in TrackType /\ Bytes(s.track, a)
      /\ a.pub = s.track.pub /\ a.detached = s.track.detached
      /\ a.oerr = s.track.oerr /\ a.blocked = s.track.blocked
  BY <1>1 DEF TrackType, Bytes
<1> HIDE DEF a
<1>4. /\ t2 \in TrackType /\ Bytes(s.track, t2)
      /\ t2.pub = s.track.pub /\ t2.detached = s.track.detached
      /\ t2.oerr = s.track.oerr /\ t2.blocked = s.track.blocked
  BY <1>3 DEF TrackType, Bytes
<1> HIDE DEF t2
<1>5. /\ x \in StateType /\ x.track = t2 /\ x.up = s.up
      /\ x.queue = s.queue /\ x.faults = s.faults
  <2>1. s \in StateType /\ t2 \in TrackType
    BY <1>1, <1>4
  <2> QED
    BY ONLY <1>2, <2>1, TrackFields
<1>6. HeadersOK(t2) /\ WholeOK(t2)
  BY <1>1, <1>4 DEF HeadersOK, Bytes, WholeOK, End
<1>7. Good(conf, x)
  BY <1>4, <1>5, <1>6, BytesGood
<1>8. MostOK(t2, s.queue)
  <2>1. t2.tail # -1
    BY <1>4 DEF Bytes
  <2> QED
    BY <1>4, <2>1
       DEF MostOK, PubOK, NoPackets, NoBuffers, KeepOK, EosOK, Bytes
<1> QED
  BY <1>5, <1>6, <1>7, <1>8 DEF PhaseOK

\* The controller answers a request to publish.
LEMMA PublishReplyGood ==
    ASSUME IInv, PublishReply
    PROVE  Acted
<1> DEFINE Q(k) == SubSeq(conf.initial, 1, k)
           S(k) == Published(Q(k))
<1>1. track.pub
  BY DEF PublishReply
<1>2. PICK k \in 0 .. Len(conf.initial) :
        \/ k = 0 /\ Become(Cleanup(Inactive(S(k))))
        \/ k > 0 /\ Become([S(k) EXCEPT !.track.state = "active",
                                        !.track.keep = conf.keepalive])
        \/ \E y \in Fault(S(k)) : Become(TrackError(y))
  BY DEF PublishReply, Inactive, Published
<1> DEFINE q == Q(k)
           s == S(k)
<1>3. /\ q = SubSeq(conf.initial, 1, k)
      /\ s = Published(q)
  OBVIOUS
<1>4. \/ k = 0 /\ Become(Cleanup(Inactive(s)))
      \/ k > 0 /\ Become([s EXCEPT !.track.state = "active",
                                   !.track.keep = conf.keepalive])
      \/ \E y \in Fault(s) : Become(TrackError(y))
  BY <1>2
<1> HIDE DEF q, s, Q, S
<1>5. /\ Good(conf, s) /\ s.queue = q /\ (k = 0 <=> q = << >>)
      /\ MostOK(s.track, s.queue) /\ WholeOK(s.track)
      /\ ~s.track.pub /\ ~s.track.detached /\ s.track.tail >= 0
      /\ s.track.pkts # << >>
  BY <1>1, <1>3, PublishedGood
<1>6. Now.queue = << >> /\ conf.keepalive \in BOOLEAN
  BY <1>1, NowGood DEF MostOK, PubOK, ConfType
<1>7. \A x : Handled(conf, Now, x)
  BY <1>6, HandledNone
<1>8. CASE k = 0 /\ Become(Cleanup(Inactive(s)))
  <2> DEFINE x == Cleanup(Inactive(s))
  <2>1. x = Cleanup(Inactive(s)) /\ Become(x)
    BY <1>8
  <2> HIDE DEF x
  <2>2. NoPackets(s.track, s.queue) /\ EosOK(s.track)
    BY <1>5 DEF MostOK
  <2>3. Good(conf, x) /\ PhaseOK(x.track, x.queue)
    BY <1>5, <2>1, <2>2, InactiveCleanup
  <2> QED
    BY <1>7, <2>1, <2>3 DEF Acted, Done
<1>9. CASE k > 0 /\ Become([s EXCEPT !.track.state = "active",
                                     !.track.keep = conf.keepalive])
  <2> DEFINE x == [s EXCEPT !.track.state = "active",
                            !.track.keep = conf.keepalive]
  <2>1. x = [s EXCEPT !.track.state = "active",
                      !.track.keep = conf.keepalive] /\ Become(x)
    BY <1>9
  <2> HIDE DEF x
  <2>2. Good(conf, x) /\ PhaseOK(x.track, x.queue)
    BY <1>5, <1>6, <2>1, ActiveGood
  <2> QED
    BY <1>7, <2>1, <2>2 DEF Acted, Done
<1>10. CASE \E y \in Fault(s) : Become(TrackError(y))
  <2>1. PICK y \in Fault(s) : Become(TrackError(y))
    BY <1>10
  <2>2. Good(conf, y) /\ y.track = s.track /\ y.queue = s.queue
    BY <1>5, <2>1, FaultGood
  <2> DEFINE x == TrackError(y)
  <2>3. x = TrackError(y) /\ Become(x)
    BY <2>1
  <2> HIDE DEF x
  <2>4. Done(Now, x)
    BY <1>5, <1>7, <2>2, <2>3, TrackErrorDone
  <2> QED
    BY <2>3, <2>4 DEF Acted
<1> QED
  BY <1>4, <1>8, <1>9, <1>10

\* The request fails.
LEMMA PublishFailGood ==
    ASSUME IInv, PublishFail
    PROVE  Acted
<1> DEFINE r == [Now EXCEPT !.track.pub = FALSE]
<1>1. PICK y \in Fault(r) : Become(TrackError(y))
  BY DEF PublishFail
<1>2. track.pub /\ r = [Now EXCEPT !.track.pub = FALSE]
  BY DEF PublishFail
<1> HIDE DEF r
<1>3. /\ Good(conf, r) /\ queue = << >>
      /\ MostOK(r.track, r.queue) /\ WholeOK(r.track)
  BY <1>2, AnsweredGood
<1>4. Good(conf, y) /\ y.track = r.track /\ y.queue = r.queue
  BY <1>1, <1>3, FaultGood
<1>5. Handled(conf, Now, y)
  BY <1>3, NowGood, HandledNone
<1> DEFINE x == TrackError(y)
<1>6. x = TrackError(y) /\ Become(x)
  BY <1>1
<1> HIDE DEF x
<1>7. Done(Now, x)
  BY <1>3, <1>4, <1>5, <1>6, TrackErrorDone
<1> QED
  BY <1>6, <1>7 DEF Acted

-----------------------------------------------------------------------------
(* The connection of an upstream *)

\* An upstream that is not in the list has no connection, call or timer.
LEMMA Listed ==
    ASSUME IInv, NEW u \in Upstreams,
           \/ up[u].conn # "none"
           \/ up[u].call \/ up[u].timer \/ up[u].wtimer
    PROVE  u \in ToSet(Now.queue)
<1>1. Now.up = up /\ UpsOK(Now.track, Now.up, Now.queue)
  BY NowGood DEF Good, Sound
<1>2. ASSUME u \notin ToSet(Now.queue) PROVE FALSE
  <2>1. UpGone(up[u])
    BY <1>1, <1>2 DEF UpsOK
  <2>2. /\ up[u].conn = "none" /\ ~up[u].call
        /\ ~up[u].timer /\ ~up[u].wtimer
    BY <2>1 DEF UpGone, NoUpstream
  <2> QED
    BY <2>2
<1> QED
  BY <1>2

\* A call that concerns an upstream is done if what it leaves is good.
LEMMA TouchDone ==
    ASSUME NEW s, Good(conf, s), PhaseOK(s.track, s.queue),
           NEW u \in ToSet(s.queue), NEW x, Touches(s, x, u), Good(conf, x)
    PROVE  Done(s, x)
<1>1. s \in StateType /\ x \in StateType /\ u \in Upstreams
  BY StateParts DEF Good, Sound
<1>2. Steps(s, x, 0)
  BY <1>1, TouchSteps
<1>3. Rest(s.track, s.queue) /\ MostOK(s.track, s.queue) /\ WholeOK(s.track)
  BY DEF PhaseOK, MostOK, Rest
<1>4. /\ MostOK(x.track, x.queue) /\ WholeOK(x.track)
      /\ Handled(conf, s, x)
  BY <1>1, <1>2, <1>3, StepsPhase
<1> QED
  BY <1>4 DEF Done, PhaseOK

\* ... or if it acks nothing.
LEMMA QuietDone ==
    ASSUME NEW s, Good(conf, s), PhaseOK(s.track, s.queue),
           NEW u \in ToSet(s.queue), NEW x, Quiet(s, x, u),
           x.faults <= conf.maxFaults
    PROVE  Done(s, x) /\ Touches(s, x, u)
<1>1. Sound(conf, s) /\ Resuming(conf, s)
  BY DEF Good
<1>2. Sound(conf, x) /\ Touches(s, x, u) /\ Resuming(conf, x)
  BY <1>1, QuietGood
<1>3. Good(conf, x)
  BY <1>2 DEF Good
<1> QED
  BY <1>2, <1>3, TouchDone

\* What is done after it is done.
LEMMA TouchThen ==
    ASSUME NEW s, Good(conf, s), NEW u \in ToSet(s.queue), NEW x,
           Touches(s, x, u), NEW y, Done(x, y)
    PROVE  Done(s, y)
<1>1. s \in StateType /\ y \in StateType /\ u \in Upstreams
  BY StateParts DEF Good, Sound, Done
<1>2. Handled(conf, x, y)
  BY DEF Done
<1>3. Handled(conf, s, y)
  BY <1>1, <1>2, TouchHandled
<1> QED
  BY <1>3 DEF Done

\* What is done where the upstreams are the same is done.
LEMMA DoneFrom ==
    ASSUME NEW r, NEW s, NEW x, Done(r, x),
           s.up = r.up, s.queue = r.queue
    PROVE  Done(s, x)
<1>1. Handled(conf, r, x)
  BY DEF Done
<1>2. Handled(conf, s, x)
  BY <1>1, HandledFrom
<1> QED
  BY <1>2 DEF Done

\* An upstream that is set to y.
LEMMA SetUpQuiet ==
    ASSUME NEW s \in StateType, NEW u \in Upstreams, NEW y \in UpType,
           NEW z, z = s.up[u], y.acked = z.acked,
           y.confirmed = z.confirmed, y.used = z.used,
           y.conn = "up" => z.conn = "up" /\ y.sent = z.sent
                            /\ y.skew = z.skew,
           NEW x, x = SetUp(s, u, y)
    PROVE  /\ Quiet(s, x, u) /\ x.faults = s.faults /\ x.queue = s.queue
           /\ x.up[u] = y
<1>1. /\ x \in StateType /\ x.track = s.track /\ x.queue = s.queue
      /\ x.faults = s.faults /\ x.up[u] = y
      /\ \A v \in Upstreams \ {u} : x.up[v] = s.up[v]
  BY UpFields
<1> QED
  BY <1>1 DEF Quiet

\* An error of an upstream
LEMMA ErrorDone ==
    ASSUME NEW s, Good(conf, s), PhaseOK(s.track, s.queue),
           NEW u \in ToSet(s.queue), NEW x \in UpstreamError(s, u)
    PROVE  Done(s, x)
BY UpstreamErrorGood DEF Done

\* ... after a fault
LEMMA FaultErrorDone ==
    ASSUME NEW s, Good(conf, s), PhaseOK(s.track, s.queue),
           NEW u \in ToSet(s.queue), NEW f \in Fault(s),
           NEW x \in UpstreamError(f, u)
    PROVE  Done(s, x)
<1>1. /\ Good(conf, f) /\ f.track = s.track
      /\ f.up = s.up /\ f.queue = s.queue
  BY FaultGood
<1>2. Done(f, x)
  BY <1>1, ErrorDone
<1> QED
  BY <1>1, <1>2, DoneFrom

\* ngx_kmp_out_upstream_write_handler sends, or there is an error.
LEMMA WriteHandlerGood ==
    ASSUME NEW s, Good(conf, s), PhaseOK(s.track, s.queue),
           NEW u \in ToSet(s.queue), NEW x \in WriteHandler(s, u)
    PROVE  Done(s, x)
<1>1. PICK y \in SendChain(s, u) :
        IF y.rc = "error" THEN x \in UpstreamError(y, u) ELSE x = y
  BY DEF WriteHandler
<1>2. MaySend(s.track)
  BY DEF PhaseOK, WholeOK, MaySend
<1>3. Good(conf, y) /\ Touches(s, y, u)
  BY <1>1, <1>2, SendChainGood
<1>4. Done(s, y)
  BY <1>3, TouchDone
<1>5. CASE y.rc = "error"
  <2>1. PhaseOK(y.track, y.queue) /\ u \in ToSet(y.queue)
    BY <1>3, <1>4 DEF Done, Touches
  <2>2. Done(y, x)
    BY <1>1, <1>3, <1>5, <2>1, ErrorDone
  <2> QED
    BY <1>3, <2>2, TouchThen
<1> QED
  BY <1>1, <1>4, <1>5

\* A new address is used.
LEMMA RepublishReplyGood ==
    ASSUME IInv, NEW u \in Upstreams, RepublishReply(u)
    PROVE  Acted
<1> DEFINE y == [up[u] EXCEPT !.call = FALSE, !.conn = "connecting",
                              !.wtimer = TRUE]
           x == [Now EXCEPT !.up[u] = y]
<1>1. up[u].call /\ Become(x)
  BY DEF RepublishReply, Now
<1>2. x = SetUp(Now, u, y)
  BY DEF SetUp
<1>3. /\ Now \in StateType /\ Good(conf, Now) /\ up = Now.up
      /\ PhaseOK(Now.track, Now.queue) /\ u \in ToSet(Now.queue)
      /\ faults = Now.faults
  BY <1>1, NowGood, Listed
<1>4. up[u] \in UpType
  BY <1>3, StateParts
<1>5. /\ y \in UpType /\ y.acked = up[u].acked
      /\ y.confirmed = up[u].confirmed /\ y.used = up[u].used
      /\ y.conn # "up"
  BY <1>4 DEF UpType
<1> HIDE DEF x, y
<1>6. Quiet(Now, x, u) /\ x.faults = faults
  BY <1>2, <1>3, <1>5, SetUpQuiet
<1>7. faults <= conf.maxFaults
  BY <1>3 DEF Good, Sound
<1>8. Done(Now, x)
  BY <1>3, <1>6, <1>7, QuietDone
<1> QED
  BY <1>1, <1>8 DEF Acted

\* There is none: the upstream is freed.
LEMMA RepublishFailGood ==
    ASSUME IInv, NEW u \in Upstreams, RepublishFail(u)
    PROVE  Acted
<1>1. PICK f \in Fault(Now) : Become(FreeNotify(f, u))
  BY DEF RepublishFail
<1>2. /\ Good(conf, Now) /\ PhaseOK(Now.track, Now.queue)
      /\ u \in ToSet(Now.queue)
  BY NowGood, Listed DEF RepublishFail
<1>3. /\ Good(conf, f) /\ f.track = Now.track
      /\ f.up = Now.up /\ f.queue = Now.queue
  BY <1>1, <1>2, FaultGood
<1> DEFINE x == FreeNotify(f, u)
<1>4. x = FreeNotify(f, u) /\ Become(x)
  BY <1>1
<1> HIDE DEF x
<1>5. Done(f, x)
  BY <1>2, <1>3, <1>4, FreeNotifyGood DEF Done
<1>6. Done(Now, x)
  BY <1>3, <1>5, DoneFrom
<1> QED
  BY <1>4, <1>6 DEF Acted

\* The timer of a republish expires.
LEMMA RepublishTimerGood ==
    ASSUME IInv, NEW u \in Upstreams, RepublishTimer(u)
    PROVE  Acted
<1> DEFINE y == [up[u] EXCEPT !.timer = FALSE]
           r == [Now EXCEPT !.up[u].timer = FALSE]
<1>1. PICK s \in RepublishSend(r, u) :
        Become(IF s.rc = "error" THEN FreeNotify(s, u) ELSE s)
  BY DEF RepublishTimer
<1>2. r = SetUp(Now, u, y)
  BY NowGood DEF SetUp, StateType
<1>3. /\ Now \in StateType /\ Good(conf, Now) /\ up = Now.up
      /\ PhaseOK(Now.track, Now.queue) /\ u \in ToSet(Now.queue)
      /\ faults = Now.faults
  BY NowGood, Listed DEF RepublishTimer
<1>4. up[u] \in UpType /\ conf \in Confs /\ faults <= conf.maxFaults
  BY <1>3, StateParts DEF Good, Sound
<1>5. /\ y \in UpType /\ y.acked = up[u].acked
      /\ y.confirmed = up[u].confirmed /\ y.used = up[u].used
      /\ y.conn = up[u].conn /\ y.sent = up[u].sent
      /\ y.skew = up[u].skew
  BY <1>4 DEF UpType
<1> HIDE DEF r, y
<1>6. Quiet(Now, r, u) /\ r.faults = faults
  BY <1>2, <1>3, <1>5, SetUpQuiet
<1>7. r \in StateType
  BY <1>6 DEF Quiet
<1>8. Quiet(r, s, u) /\ s.faults <= conf.maxFaults
  BY <1>1, <1>4, <1>6, <1>7, RepublishSendQuiet
<1>9. Quiet(Now, s, u)
  BY <1>6, <1>8, QuietTwice
<1>10. Done(Now, s) /\ Touches(Now, s, u)
  BY <1>3, <1>8, <1>9, QuietDone
<1>11. CASE s.rc = "error"
  <2> DEFINE x == FreeNotify(s, u)
  <2>1. x = FreeNotify(s, u) /\ Become(x)
    BY <1>1, <1>11
  <2> HIDE DEF x
  <2>2. /\ Good(conf, s) /\ PhaseOK(s.track, s.queue)
        /\ u \in ToSet(s.queue)
    BY <1>3, <1>10 DEF Done, Touches
  <2>3. Done(s, x)
    BY <2>1, <2>2, FreeNotifyGood DEF Done
  <2>4. Done(Now, x)
    BY <1>3, <1>10, <2>3, TouchThen
  <2> QED
    BY <2>1, <2>4 DEF Acted
<1> QED
  BY <1>1, <1>10, <1>11 DEF Acted

\* More can be written to the socket.
LEMMA WriteReadyGood ==
    ASSUME IInv, NEW u \in Upstreams, WriteReady(u)
    PROVE  Acted
<1> DEFINE y == [up[u] EXCEPT !.ready = TRUE]
           r == [Now EXCEPT !.up[u].ready = TRUE]
<1>1. PICK x \in WriteHandler(r, u) : Become(x)
  BY DEF WriteReady
<1>2. r = SetUp(Now, u, y)
  BY NowGood DEF SetUp, StateType
<1>3. /\ Now \in StateType /\ Good(conf, Now) /\ up = Now.up
      /\ PhaseOK(Now.track, Now.queue) /\ u \in ToSet(Now.queue)
      /\ faults = Now.faults
  BY NowGood, Listed DEF WriteReady
<1>4. up[u] \in UpType /\ faults <= conf.maxFaults
  BY <1>3, StateParts DEF Good, Sound
<1>5. /\ y \in UpType /\ y.acked = up[u].acked
      /\ y.confirmed = up[u].confirmed /\ y.used = up[u].used
      /\ y.conn = up[u].conn /\ y.sent = up[u].sent
      /\ y.skew = up[u].skew
  BY <1>4 DEF UpType
<1> HIDE DEF r, y
<1>6. Quiet(Now, r, u) /\ r.faults = faults
  BY <1>2, <1>3, <1>5, SetUpQuiet
<1>7. Done(Now, r) /\ Touches(Now, r, u)
  BY <1>3, <1>4, <1>6, QuietDone
<1>8. /\ Good(conf, r) /\ PhaseOK(r.track, r.queue)
      /\ u \in ToSet(r.queue)
  BY <1>3, <1>7 DEF Done, Touches
<1>9. Done(r, x)
  BY <1>1, <1>8, WriteHandlerGood
<1>10. Done(Now, x)
  BY <1>3, <1>7, <1>9, TouchThen
<1> QED
  BY <1>1, <1>10 DEF Acted

\* The peer reads nothing, or closes the connection.
LEMMA PeerGood ==
    ASSUME IInv, NEW u \in Upstreams,
           WriteTimeout(u) \/ PeerClosed(u) \/ PeerDone(u)
    PROVE  Acted
<1>1. /\ Good(conf, Now) /\ PhaseOK(Now.track, Now.queue)
      /\ u \in ToSet(Now.queue)
  BY NowGood, Listed DEF WriteTimeout, PeerClosed, PeerDone
<1>2. PICK x : /\ Become(x)
               /\ \/ x \in UpstreamError(Now, u)
                  \/ \E f \in Fault(Now) : x \in UpstreamError(f, u)
  BY DEF WriteTimeout, PeerClosed, PeerDone
<1>3. Done(Now, x)
  BY <1>1, <1>2, ErrorDone, FaultErrorDone
<1> QED
  BY <1>2, <1>3 DEF Acted

\* A step that writes nothing is done if what it leaves is good.
LEMMA StepsDone ==
    ASSUME NEW s, Good(conf, s), PhaseOK(s.track, s.queue), NEW x,
           Steps(s, x, 0), Good(conf, x)
    PROVE  Done(s, x)
<1>1. s \in StateType /\ x \in StateType
  BY DEF Good, Sound
<1>2. Rest(s.track, s.queue) /\ MostOK(s.track, s.queue) /\ WholeOK(s.track)
  BY DEF PhaseOK, MostOK, Rest
<1>3. /\ MostOK(x.track, x.queue) /\ WholeOK(x.track)
      /\ Handled(conf, s, x)
  BY <1>1, <1>2, StepsPhase
<1> QED
  BY <1>3 DEF Done, PhaseOK

\* What is done after such a step
LEMMA StepsThen ==
    ASSUME NEW s, Good(conf, s), NEW x, Good(conf, x), Steps(s, x, 0),
           NEW y, Done(x, y)
    PROVE  Done(s, y)
<1>1. /\ s \in StateType /\ x \in StateType /\ y \in StateType
      /\ Handled(conf, x, y)
  BY DEF Good, Sound, Done
<1>2. /\ s.up \in [Upstreams -> UpType] /\ x.up \in [Upstreams -> UpType]
      /\ y.up \in [Upstreams -> UpType] /\ ToSet(s.queue) \subseteq Upstreams
  BY <1>1, StateParts
<1>3. /\ x.queue = s.queue
      /\ \A u \in Upstreams : s.up[u].acked <= x.up[u].acked
  BY DEF Steps
<1>4. ASSUME NEW u \in ToSet(s.queue) \cap ToSet(y.queue)
      PROVE  s.up[u].acked <= y.up[u].acked
  <2>1. u \in Upstreams
    BY <1>2
  <2>2. s.up[u].acked <= x.up[u].acked
    BY <1>3, <2>1
  <2>3. x.up[u].acked <= y.up[u].acked
    BY <1>1, <1>3 DEF Handled
  <2>4. /\ s.up[u].acked \in Nat /\ x.up[u].acked \in Nat
        /\ y.up[u].acked \in Nat
    BY <1>2, <2>1 DEF UpType
  <2> QED
    BY <2>2, <2>3, <2>4
<1>5. Handled(conf, s, y)
  BY <1>1, <1>3, <1>4 DEF Handled
<1> QED
  BY <1>5 DEF Done

\* What an upstream of the list is set to is good if it resumes from a good
\* place, no earlier than before.
LEMMA SetUpGood ==
    ASSUME NEW s, Good(conf, s), NEW u \in ToSet(s.queue),
           NEW y \in UpType, UpOK(s.track, y), Resumes(conf, s.track, y, u),
           s.up[u].acked <= y.acked, NEW x, x = SetUp(s, u, y)
    PROVE  /\ Good(conf, x) /\ Steps(s, x, 0)
           /\ x.track = s.track /\ x.queue = s.queue
           /\ x.up[u] = y /\ x.faults = s.faults /\ x.rc = s.rc
<1> DEFINE ups == [s.up EXCEPT ![u] = y]
<1>1. /\ s \in StateType /\ UpsOK(s.track, s.up, s.queue)
      /\ Resuming(conf, s)
  BY DEF Good, Sound
<1>2. /\ u \in Upstreams /\ s.up \in [Upstreams -> UpType]
      /\ s.queue \in Seq(Upstreams) /\ s.track \in TrackType
      /\ ToSet(s.queue) \subseteq Upstreams
  BY <1>1, StateParts
<1>3. x = SetUps(s, ups, s.queue)
  BY <1>1 DEF SetUp, SetUps, StateType
<1>4. /\ ups \in [Upstreams -> UpType] /\ ups[u] = y
      /\ \A v \in Upstreams \ {u} : ups[v] = s.up[v]
  BY <1>2
<1> HIDE DEF ups
<1>5. UpsOK(s.track, ups, s.queue)
  BY <1>1, <1>2, <1>4 DEF UpsOK
<1>6. \A v \in ToSet(s.queue) : Resumes(conf, s.track, ups[v], v)
  BY <1>1, <1>2, <1>4 DEF Resuming
<1>7. s.queue = << >> => s.queue = << >> \/ s.track.tail # -1
  OBVIOUS
<1>8. Good(conf, x)
  BY <1>2, <1>3, <1>4, <1>5, <1>6, <1>7, UpsGood
<1>9. /\ x.track = s.track /\ x.queue = s.queue /\ x.up[u] = y
      /\ x.faults = s.faults /\ x.rc = s.rc
      /\ \A v \in Upstreams \ {u} : x.up[v] = s.up[v]
  BY <1>1, <1>2, UpFields
<1>10. \A v \in Upstreams : s.up[v].acked <= x.up[v].acked
  <2> SUFFICES ASSUME NEW v \in Upstreams
               PROVE  s.up[v].acked <= x.up[v].acked
    OBVIOUS
  <2>1. s.up[v].acked \in Nat
    BY <1>2 DEF UpType
  <2> QED
    BY <1>9, <2>1
<1>11. Later(s.track, s.track, 0)
  <2>1. /\ s.track.written \in Nat /\ s.track.appended \in Nat
        /\ s.track.tail \in Int
    BY <1>2 DEF TrackType
  <2> QED
    BY <2>1 DEF Later
<1> QED
  BY <1>8, <1>9, <1>10, <1>11 DEF Steps

\* The smaller of two is one of them.
LEMMA MinIsOne ==
    ASSUME NEW a \in Nat, NEW b \in Nat, NEW m, m = Min({a, b})
    PROVE  /\ m \in Nat /\ m <= a /\ m <= b
           /\ a <= b => m = a
<1>1. {a, b} \subseteq Nat /\ {a, b} # {}
  OBVIOUS
<1>2. m \in {a, b} /\ \A z \in {a, b} : m <= z
  BY <1>1, MinLeast
<1> QED
  BY <1>2

\* The connection carries what the receiver did not ack, if that was appended.
LEMMA SendBufferedGood ==
    ASSUME IInv, NEW u \in ToSet(Now.queue), up[u].conn = "connecting",
           NEW x, x = SendBuffered(Now, u)
    PROVE  Good(conf, x) /\ Steps(Now, x, 0)
<1> DEFINE off  == End(track, up[u].acked)
           from == Min({off, track.appended})
           y == [up[u] EXCEPT !.conn = "up", !.ready = TRUE,
                    !.pre = 1, !.sent = from, !.skew = off - from]
           z == SetUp(Now, u, y)
<1>1. /\ Now \in StateType /\ Good(conf, Now) /\ Now.up = up
      /\ Now.track = track /\ track \in TrackType
  BY NowGood
<1>2. /\ UpOK(track, up[u]) /\ Resumes(conf, track, up[u], u)
      /\ u \in Upstreams /\ up[u] \in UpType /\ AlertsOK(conf, track)
  BY <1>1, StateParts DEF Good, Sound, UpsOK, Resuming
<1>3. off \in Nat /\ track.appended \in Nat
  <2>1. up[u].acked \in 0 .. Len(track.pkts)
    BY <1>2 DEF UpOK, UpType
  <2> QED
    BY <1>1, <2>1, LogNumbers DEF TrackType
<1> HIDE DEF off
<1>4. /\ from \in Nat /\ from <= off /\ from <= track.appended
      /\ off <= track.appended => from = off
  BY <1>3, MinIsOne
<1>5. x = IF Readable(track, up[u]) THEN z ELSE Alert(z, "stale read")
  BY <1>1 DEF SendBuffered, SetUp, off
<1> HIDE DEF from
<1>6. off - from \in Nat
  BY <1>3, <1>4
<1>7. /\ y \in UpType /\ y.conn = "up" /\ y.sent = from
      /\ y.skew = off - from /\ y.acked = up[u].acked
      /\ y.confirmed = up[u].confirmed /\ y.used = up[u].used
  BY <1>2, <1>4, <1>6 DEF UpType
<1> HIDE DEF y
<1>8. UpOK(track, y)
  <2>1. End(track, y.acked) = off
    BY <1>7 DEF off
  <2>2. from <= track.appended /\ off <= from + (off - from)
    BY <1>3, <1>4
  <2> QED
    BY <1>2, <1>7, <2>1, <2>2 DEF UpOK
<1>9. Resumes(conf, track, y, u)
  <2>1. NoneWritten(conf) /\ ~track.forced => off <= track.appended
    BY <1>2 DEF Resumes, off
  <2>2. NoneWritten(conf) /\ ~track.forced => off - from = 0
    BY <1>3, <1>4, <2>1
  <2>3. Readable(track, y) <=> Readable(track, up[u])
    BY <1>7 DEF Readable
  <2> QED
    BY <1>2, <1>7, <2>2, <2>3 DEF Resumes
<1>10. up[u].acked <= y.acked
  BY <1>2, <1>7 DEF UpType
<1> HIDE DEF z
<1>12. z = SetUp(Now, u, y)
  BY DEF z
<1>13. Good(conf, z) /\ Steps(Now, z, 0)
  BY <1>1, <1>7, <1>8, <1>9, <1>10, <1>12, SetUpGood
<1>14. CASE Readable(track, up[u])
  BY <1>5, <1>13, <1>14
<1>15. CASE ~Readable(track, up[u])
  <2>1. ~Calm(conf)
    BY <1>2, <1>15 DEF AlertsOK, Calm, Resumes
  <2>2. x = Alert(z, "stale read") /\ "stale read" \in AlertNames
    BY <1>5, <1>15 DEF AlertNames
  <2>3. Good(conf, x) /\ Steps(z, x, 0)
    BY <1>13, <2>1, <2>2, AlertGood
  <2>4. z \in StateType /\ x \in StateType
    BY <1>13, <2>3 DEF Good, Sound
  <2>5. Steps(Now, x, 0 + 0)
    BY <1>1, <1>13, <2>3, <2>4, StepsTwice
  <2> QED
    BY <2>3, <2>5
<1> QED
  BY <1>14, <1>15

\* The connection is there.
LEMMA ConnectedGood ==
    ASSUME IInv, NEW u \in Upstreams, Connected(u)
    PROVE  Acted
<1> DEFINE r == SendBuffered(Now, u)
<1>1. PICK x \in WriteHandler(r, u) : Become(x)
  BY DEF Connected
<1>2. r = SendBuffered(Now, u) /\ up[u].conn = "connecting"
  BY DEF Connected
<1> HIDE DEF r
<1>3. /\ Good(conf, Now) /\ PhaseOK(Now.track, Now.queue)
      /\ u \in ToSet(Now.queue)
  BY <1>2, NowGood, Listed
<1>4. Good(conf, r) /\ Steps(Now, r, 0)
  BY <1>2, <1>3, SendBufferedGood
<1>5. PhaseOK(r.track, r.queue)
  BY <1>3, <1>4, StepsDone DEF Done
<1>6. u \in ToSet(r.queue)
  BY <1>3, <1>4 DEF Steps
<1>7. Done(r, x)
  BY <1>1, <1>4, <1>5, <1>6, WriteHandlerGood
<1>8. Done(Now, x)
  BY <1>3, <1>4, <1>7, StepsThen
<1> QED
  BY <1>1, <1>8 DEF Acted

-----------------------------------------------------------------------------
(* The management API *)

\* A list with one more upstream
LEMMA AppendOne ==
    ASSUME NEW p \in Seq(Upstreams), IsInjective(p),
           NEW u \in Upstreams \ ToSet(p), NEW q, q = Append(p, u)
    PROVE  /\ q \in Seq(Upstreams) /\ IsInjective(q)
           /\ ToSet(q) = ToSet(p) \cup {u}
<1>1. /\ Len(p) \in Nat /\ DOMAIN p = 1 .. Len(p)
      /\ q \in Seq(Upstreams) /\ DOMAIN q = 1 .. Len(p) + 1
      /\ \A i \in 1 .. Len(p) : q[i] = p[i]
      /\ q[Len(p) + 1] = u
  OBVIOUS
<1>2. \A i \in 1 .. Len(p) : p[i] \in ToSet(p) /\ p[i] # u
  BY <1>1 DEF ToSet
<1>3. ToSet(q) = ToSet(p) \cup {u}
  BY <1>1 DEF ToSet
<1>4. IsInjective(q)
  <2> SUFFICES ASSUME NEW a \in 1 .. Len(p) + 1, NEW b \in 1 .. Len(p) + 1,
                      q[a] = q[b]
               PROVE  a = b
    BY <1>1 DEF IsInjective
  <2>1. CASE a \in 1 .. Len(p) /\ b \in 1 .. Len(p)
    <3>1. a \in DOMAIN p /\ b \in DOMAIN p /\ p[a] = p[b]
      BY <1>1, <2>1
    <3> QED
      BY <3>1 DEF IsInjective
  <2>2. CASE ~(a \in 1 .. Len(p) /\ b \in 1 .. Len(p))
    BY <1>1, <1>2, <2>2
  <2> QED
    BY <2>1, <2>2
<1> QED
  BY <1>1, <1>3, <1>4

\* A track with upstreams was published: the phase does not depend on which
\* they are.
LEMMA ListPhase ==
    ASSUME NEW t, NEW q, NEW u \in ToSet(q), PhaseOK(t, q), NEW r
    PROVE  PhaseOK(t, r) /\ ~t.pub /\ t.pkts # << >>
<1>1. q # << >>
  BY DEF ToSet
<1>2. ~t.pub /\ t.pkts # << >>
  BY <1>1 DEF PhaseOK, MostOK, PubOK, NoPackets
<1> QED
  BY <1>2 DEF PhaseOK, MostOK, PubOK, NoPackets

\* An upstream is added, and resumes where another one does.
LEMMA AddUpstreamGood ==
    ASSUME IInv, NEW u \in Upstreams, AddUpstream(u)
    PROVE  Acted
<1>1. PICK src \in ToSet(queue) :
        Become([Now EXCEPT !.queue = Append(@, u),
                           !.up[u] = [NewConnection(up[src].acked, up[src].eos)
                                EXCEPT !.confirmed = FrameId(Now, src)]])
  BY DEF AddUpstream
<1> DEFINE new == NewConnection(up[src].acked, up[src].eos)
           id  == FrameId(Now, src)
           y   == [new EXCEPT !.confirmed = id]
           ups == [up EXCEPT ![u] = y]
           q   == Append(queue, u)
           x   == SetUps(Now, ups, q)
<1>2. ~up[u].used
  BY DEF AddUpstream
<1>3. /\ Now \in StateType /\ Good(conf, Now) /\ Now.up = up
      /\ Now.track = track /\ track \in TrackType /\ Now.queue = queue
      /\ PhaseOK(track, queue) /\ UpsOK(track, up, queue)
      /\ MemoryOK(conf, track, queue) /\ Resuming(conf, Now)
  BY NowGood DEF Good, Sound
<1>4. Become(x)
  <2>1. x = [Now EXCEPT !.queue = Append(@, u), !.up[u] = y]
    BY <1>3 DEF SetUps, StateType
  <2> QED
    BY <1>1, <2>1
<1>5. /\ src \in Upstreams /\ up[src] \in UpType
      /\ up \in [Upstreams -> UpType] /\ queue \in Seq(Upstreams)
      /\ UpOK(track, up[src]) /\ Resumes(conf, track, up[src], src)
      /\ IsInjective(queue)
  BY <1>3, StateParts DEF UpsOK, Resuming
<1>6. up[src].acked \in Nat /\ up[src].eos \in BOOLEAN
  BY <1>5 DEF UpType
<1>7. /\ new \in UpType /\ new.used /\ new.acked = up[src].acked
      /\ new.conn = "connecting"
  BY <1>6, NewUp
<1>8. id = Frames(track, up[src].acked) /\ id \in Nat
  <2>1. up[src].acked \in 0 .. Len(track.pkts)
    BY <1>5, <1>6 DEF UpOK
  <2>2. Frames(track, up[src].acked) \in Nat
    BY <1>3, <2>1, LogNumbers
  <2> QED
    BY <1>3, <2>2 DEF FrameId
<1> HIDE DEF new, id
<1>9. /\ y \in UpType /\ y.used /\ y.acked = up[src].acked
      /\ y.conn = "connecting" /\ y.confirmed = id
  BY <1>7, <1>8 DEF UpType
<1> HIDE DEF y
<1>10. u \in Upstreams \ ToSet(queue)
  BY <1>2, <1>3 DEF UpsOK, UpOK
<1>11. /\ q \in Seq(Upstreams) /\ IsInjective(q)
       /\ ToSet(q) = ToSet(queue) \cup {u}
  BY <1>5, <1>10, AppendOne
<1>12. /\ ups \in [Upstreams -> UpType] /\ ups[u] = y
       /\ \A v \in Upstreams \ {u} : ups[v] = up[v]
  BY <1>5, <1>9
<1>13. x = SetUps(Now, ups, q)
  OBVIOUS
<1> HIDE DEF ups, q, x
<1>14. UpsOK(track, ups, q)
  <2>1. UpOK(track, y)
    BY <1>5, <1>9 DEF UpOK
  <2> QED
    BY <1>3, <1>5, <1>10, <1>11, <1>12, <2>1, StateParts DEF UpsOK
<1>15. Resumes(conf, track, y, u)
  <2>1. Readable(track, y) <=> Readable(track, up[src])
    BY <1>9 DEF Readable
  <2>2. LastAcked(conf) => conf.resume[src] = "last_acked"
    BY <1>5 DEF LastAcked
  <2> QED
    BY <1>5, <1>8, <1>9, <2>1, <2>2 DEF Resumes
<1>16. \A v \in ToSet(q) : Resumes(conf, track, ups[v], v)
  BY <1>3, <1>10, <1>11, <1>12, <1>15, StateParts DEF Resuming
<1>17. Now.queue = << >> => q = << >> \/ Now.track.tail # -1
  BY <1>3, <1>5 DEF ToSet
<1>18. Good(conf, x)
  BY <1>3, <1>11, <1>12, <1>13, <1>14, <1>16, <1>17, UpsGood
<1>19. x.track = track /\ x.up = ups /\ x.queue = q
  BY <1>3, <1>11, <1>12, <1>13, UpsFields
<1>20. PhaseOK(x.track, x.queue)
  BY <1>3, <1>19, ListPhase
<1>21. Handled(conf, Now, x)
  <2>1. ASSUME NEW v \in ToSet(queue)
        PROVE  v \in ToSet(q) /\ up[v].acked <= ups[v].acked
    <3>1. v \in Upstreams /\ v # u /\ up[v] \in UpType
      BY <1>3, <1>10, <2>1, StateParts
    <3>2. up[v].acked \in Nat /\ ups[v] = up[v]
      BY <1>12, <3>1 DEF UpType
    <3> QED
      BY <1>11, <3>2
  <2> QED
    BY <1>3, <1>19, <2>1 DEF Handled
<1> QED
  BY <1>4, <1>18, <1>20, <1>21 DEF Acted, Done

\* An upstream is deleted, and the track with the last one.
LEMMA DelUpstreamGood ==
    ASSUME IInv, NEW u \in Upstreams, DelUpstream(u)
    PROVE  IInv' /\ Forward /\ Told
<1>1. PICK f \in Fault(Now) :
        LET s == FreeUpstream(f, u)
        IN Become(IF s.queue # << >> THEN s
                  ELSE Cleanup([s EXCEPT !.track.state = "inactive"]))
  BY DEF DelUpstream
<1> DEFINE s == FreeUpstream(f, u)
           x == IF s.queue # << >> THEN s ELSE Cleanup(Inactive(s))
<1>2. u \in ToSet(queue) /\ Become(x)
  BY <1>1 DEF DelUpstream, Inactive
<1>3. s = FreeUpstream(f, u)
  OBVIOUS
<1> HIDE DEF s
<1>4. /\ Now \in StateType /\ Good(conf, Now) /\ Now.up = up
      /\ Now.track = track /\ Now.queue = queue
      /\ PhaseOK(track, queue)
  BY NowGood
<1>5. /\ Good(conf, f) /\ f.track = track /\ f.up = up /\ f.queue = queue
  BY <1>1, <1>4, FaultGood
<1>6. u \in ToSet(f.queue)
  BY <1>2, <1>5
<1>7. /\ Good(conf, s) /\ s.track = track
      /\ ToSet(s.queue) = ToSet(queue) \ {u}
      /\ \A v \in Upstreams \ {u} : s.up[v] = up[v]
  BY <1>3, <1>5, <1>6, FreeUpstreamGood
<1>8. PhaseOK(s.track, s.queue) /\ ~s.track.pub
  BY <1>2, <1>4, <1>7, ListPhase
<1>9. /\ Good(conf, x) /\ PhaseOK(x.track, x.queue)
      /\ x.up = s.up /\ x.queue = s.queue
      /\ x.queue = << >> => x.track.state = "inactive"
  <2>1. CASE s.queue # << >>
    BY <1>7, <1>8, <2>1
  <2>2. CASE s.queue = << >>
    <3>1. x = Cleanup(Inactive(s))
      BY <2>2
    <3> HIDE DEF x
    <3>2. NoPackets(s.track, s.queue) /\ EosOK(s.track) /\ WholeOK(s.track)
      BY <1>8 DEF PhaseOK, MostOK
    <3> QED
      BY <1>7, <1>8, <3>1, <3>2, InactiveCleanup
  <2> QED
    BY <2>1, <2>2
<1> HIDE DEF x
<1>10. IInv'
  BY <1>2, <1>9, BecomesGood
<1>11. track' = x.track /\ up' = x.up /\ queue' = x.queue
  BY <1>2 DEF Become
<1>12. Forward
  <2> SUFFICES ASSUME NEW v \in ToSet(queue) \cap ToSet(queue')
               PROVE  up[v].acked <= up'[v].acked
    BY DEF Forward
  <2>1. v # u /\ v \in Upstreams /\ up[v] \in UpType
    BY <1>4, <1>7, <1>9, <1>11, StateParts
  <2>2. up'[v] = up[v] /\ up[v].acked \in Nat
    BY <1>7, <1>9, <1>11, <2>1 DEF UpType
  <2> QED
    BY <2>2
<1>13. Told
  <2> SUFFICES ASSUME NEW v \in ToSet(queue) \ ToSet(queue')
               PROVE  DelUpstream(v)
                        /\ (queue' = << >> => track'.state = "inactive")
    BY DEF Told
  <2>1. v = u
    BY <1>7, <1>9, <1>11
  <2> QED
    BY <1>9, <1>11, <2>1
<1> QED
  BY <1>10, <1>12, <1>13

-----------------------------------------------------------------------------
(* The receiver acks frames *)

\* It got a packet with the frames it acks in full.
LEMMA ReceivedPacket ==
    ASSUME IInv, NEW u, NEW id \in Nat, id > 0, id <= Received(u)
    PROVE  \E w \in 1 .. Len(track.pkts) :
                End(track, w) <= up[u].sent /\ id <= Frames(track, w)
<1> DEFINE whole == {k \in DOMAIN track.pkts : /\ track.pkts[k].type # "open"
                                            /\ End(track, k) <= up[u].sent}
           T == {Frames(track, k) : k \in whole \cup {0}}
           n == Len(track.pkts)
<1>1. /\ track \in TrackType /\ LogOK(track)
  BY NowGood DEF Good, Sound
<1>2. /\ n \in Nat /\ DOMAIN track.pkts = 1 .. n
      /\ \A k \in 0 .. n : Frames(track, k) \in Nat
  BY <1>1, LogNumbers
<1>3. Received(u) = Max(T)
  BY DEF Received
<1>4. whole \subseteq 1 .. n /\ \A k \in whole : End(track, k) <= up[u].sent
  BY <1>2
<1> HIDE DEF whole
<1>5. T \subseteq 0 .. Frames(track, n) /\ Frames(track, 0) \in T
  <2>1. \A k \in whole \cup {0} : k \in 0 .. n
    BY <1>2, <1>4
  <2>2. \A k \in 0 .. n : Frames(track, k) <= Frames(track, n)
    <3> SUFFICES ASSUME NEW k \in 0 .. n
                 PROVE  Frames(track, k) <= Frames(track, n)
      OBVIOUS
    <3>1. k <= n /\ n \in 0 .. n
      BY <1>2
    <3> QED
      BY <1>1, <3>1, LogOrder
  <2>3. Frames(track, n) \in Nat
    BY <1>2
  <2>4. \A k \in whole \cup {0} : Frames(track, k) \in 0 .. Frames(track, n)
    BY <1>2, <2>1, <2>2, <2>3
  <2> QED
    BY <2>4
<1> DEFINE m == Max(T)
<1>6. m \in T
  <2>1. Frames(track, n) \in Nat
    BY <1>2
  <2> HIDE DEF T
  <2>2. T # {}
    BY <1>5
  <2> QED
    BY <1>5, <2>1, <2>2, MaxGreatest
<1>7. m = Received(u)
  BY <1>3
<1> HIDE DEF m
<1>8. PICK w \in whole \cup {0} : m = Frames(track, w)
  BY <1>6
<1>9. w # 0
  BY <1>7, <1>8 DEF Frames
<1> QED
  BY <1>4, <1>7, <1>8, <1>9

FirstAt(t, a, id) == Min({j \in a .. Len(t.pkts) : Frames(t, j) >= id})

\* The first packet with as many frames
LEMMA FirstWith ==
    ASSUME NEW t \in TrackType, LogOK(t), NEW a \in 0 .. Len(t.pkts),
           NEW id \in Nat, NEW w \in 1 .. Len(t.pkts), id <= Frames(t, w),
           NEW k, k = FirstAt(t, a, id)
    PROVE  /\ k \in a .. Len(t.pkts)
           /\ k # a => /\ k <= w /\ Frames(t, k) = id
                       /\ FirstOf(t, k) /\ t.pkts[k].type # "open"
<1> DEFINE n == Len(t.pkts)
           T == {j \in a .. n : Frames(t, j) >= id}
<1>1. /\ n \in Nat /\ a \in Nat /\ a <= n /\ w \in Nat
      /\ 1 <= w /\ w <= n
      /\ \A j \in 0 .. n : Frames(t, j) \in Nat
      /\ \A i, j \in 0 .. n : i <= j => Frames(t, i) <= Frames(t, j)
  BY LogNumbers, LogOrder
<1>2. T \subseteq Nat
  BY <1>1
<1>3. n \in T
  <2>1. /\ w \in 0 .. n /\ n \in 0 .. n /\ n \in a .. n
    BY <1>1
  <2>2. Frames(t, w) <= Frames(t, n)
    BY <1>1, <2>1
  <2>3. Frames(t, w) \in Nat /\ Frames(t, n) \in Nat
    BY <1>1, <2>1
  <2> QED
    BY <2>1, <2>2, <2>3
<1>4. k = Min(T)
  BY DEF FirstAt
<1>5. k \in T /\ \A j \in T : k <= j
  <2> HIDE DEF T
  <2> QED
    BY <1>2, <1>3, <1>4, MinLeast
<1>6. /\ k \in a .. n /\ Frames(t, k) >= id /\ k \in Nat
  BY <1>1, <1>5
<1>7. ASSUME k # a
      PROVE  /\ k <= w /\ Frames(t, k) = id
             /\ FirstOf(t, k) /\ t.pkts[k].type # "open"
  <2>1. k \in 1 .. n /\ k - 1 \in a .. n /\ k - 1 \in 0 .. n /\ k \in 0 .. n
    BY <1>1, <1>6, <1>7
  <2>2. k - 1 \notin T
    BY <1>5, <1>6
  <2>3. Frames(t, k - 1) < id
    BY <1>1, <2>1, <2>2
  <2>4. Frames(t, k) <= Frames(t, k - 1) + 1
    BY <2>1 DEF LogOK
  <2>5. t.pkts[k].type = "open" => Frames(t, k) = Frames(t, k - 1)
    BY <2>1 DEF LogOK
  <2>6. Frames(t, k) \in Nat /\ Frames(t, k - 1) \in Nat
    BY <1>1, <2>1
  <2>7. Frames(t, k) = id /\ Frames(t, k - 1) < Frames(t, k)
    BY <1>6, <2>3, <2>4, <2>6
  <2>8. k <= w
    <3>1. ASSUME w < k PROVE FALSE
      <4>1. w \in 0 .. n /\ w <= k - 1
        BY <1>1, <1>6, <3>1
      <4>2. Frames(t, w) <= Frames(t, k - 1) /\ Frames(t, w) \in Nat
        BY <1>1, <2>1, <4>1
      <4> QED
        BY <2>3, <2>6, <4>2
    <3> QED
      BY <1>1, <1>6, <3>1
  <2>9. t.pkts[k].type # "open" /\ FirstOf(t, k)
    BY <2>5, <2>6, <2>7 DEF FirstOf
  <2> QED
    BY <2>7, <2>8, <2>9
<1> QED
  BY <1>6, <1>7

\* An upstream is as good when its receiver confirmed more.
LEMMA ConfirmGood ==
    ASSUME NEW t \in TrackType, NEW u \in Upstreams, NEW z \in UpType,
           UpOK(t, z), Resumes(conf, t, z, u), NEW y \in UpType,
           y.acked = z.acked, y.conn = z.conn, y.sent = z.sent,
           y.skew = z.skew, y.used = z.used, z.confirmed <= y.confirmed
    PROVE  UpOK(t, y) /\ Resumes(conf, t, y, u)
<1>1. UpOK(t, y)
  BY DEF UpOK
<1>2. Frames(t, y.acked) \in Nat
  <2>1. y.acked \in 0 .. Len(t.pkts)
    BY <1>1 DEF UpOK, UpType
  <2> QED
    BY <2>1, LogNumbers
<1>3. Readable(t, y) <=> Readable(t, z)
  BY DEF Readable
<1>4. z.confirmed \in Nat /\ y.confirmed \in Nat
  BY DEF UpType
<1>5. Frames(t, y.acked) <= z.confirmed => Frames(t, y.acked) <= y.confirmed
  BY <1>2, <1>4
<1> QED
  BY <1>1, <1>3, <1>5 DEF Resumes

\* The reader is moved over the packets before the frame that is expected.
LEMMA AckMovedGood ==
    ASSUME IInv, NEW u \in ToSet(Now.queue), up[u].conn = "up",
           up[u].skew = 0, NEW id \in Nat, NEW w \in 1 .. Len(track.pkts),
           End(track, w) <= up[u].sent, NEW k \in up[u].acked .. w,
           Frames(track, k) = id, FirstOf(track, k), k > 0,
           track.pkts[k].type # "open",
           Readable(track, up[u]), ~(NodeOf(End(track, k)) > track.tail),
           NEW y, y = [up[u] EXCEPT !.confirmed = id, !.acked = k],
           NEW x, x = SetUp(Now, u, y)
    PROVE  Good(conf, x) /\ Steps(Now, x, 0)
<1>1. /\ Now \in StateType /\ Good(conf, Now) /\ Now.up = up
      /\ Now.track = track /\ track \in TrackType /\ LogOK(track)
  BY NowGood DEF Good, Sound
<1>2. /\ UpOK(track, up[u]) /\ Resumes(conf, track, up[u], u)
      /\ u \in Upstreams /\ up[u] \in UpType
  BY <1>1, StateParts DEF Good, Sound, UpsOK, Resuming
<1>3. /\ up[u].acked \in 0 .. Len(track.pkts) /\ up[u].acked \in Nat
      /\ k \in Nat /\ k \in 0 .. Len(track.pkts) /\ k <= w
      /\ w \in 0 .. Len(track.pkts) /\ up[u].acked <= k
      /\ k <= Len(track.pkts) /\ up[u].sent \in Nat
      /\ track.appended \in Nat
  <2> DEFINE a == up[u].acked
             m == Len(track.pkts)
  <2>1. a \in Nat /\ up[u].sent \in Nat /\ track.appended \in Nat
    BY <1>1, <1>2 DEF UpType, TrackType
  <2>2. a <= m /\ m \in Nat
    BY <1>1, <1>2, LogNumbers DEF UpOK
  <2>3. w \in 1 .. m /\ k \in a .. w
    OBVIOUS
  <2>4. /\ a \in 0 .. m /\ k \in Nat /\ k \in 0 .. m /\ k <= w
        /\ w \in 0 .. m /\ a <= k /\ k <= m
    <3> HIDE DEF a, m
    <3> QED
      BY ONLY <2>1, <2>2, <2>3
  <2> QED
    BY <2>1, <2>4
<1>4. /\ y \in UpType /\ y.acked = k /\ y.confirmed = id
      /\ y.conn = "up" /\ y.sent = up[u].sent /\ y.skew = 0
      /\ y.used = up[u].used
  BY <1>2, <1>3 DEF UpType
<1>5. /\ End(track, k) \in Nat /\ End(track, w) \in Nat
      /\ End(track, k) <= End(track, w)
      /\ End(track, up[u].acked) \in Nat
      /\ End(track, up[u].acked) <= End(track, k)
  BY <1>1, <1>3, LogNumbers, LogOrder
<1>6. End(track, k) <= up[u].sent /\ up[u].sent <= track.appended
  BY <1>2, <1>3, <1>5 DEF UpOK
<1>7. UpOK(track, y)
  <2>1. End(track, y.acked) <= y.sent + y.skew
    BY <1>3, <1>4, <1>5, <1>6
  <2> QED
    BY <1>2, <1>3, <1>4, <1>6, <2>1 DEF UpOK
<1>8. Resumes(conf, track, y, u)
  <2>1. Frames(track, y.acked) <= y.confirmed
    BY <1>4
  <2>2. End(track, y.acked) <= track.appended
    BY <1>3, <1>4, <1>5, <1>6
  <2>3. Readable(track, y)
    <3>1. track.head \in Nat /\ track.tail \in Int
      BY <1>1 DEF TrackType
    <3>2. /\ NodeOf(End(track, up[u].acked)) \in Nat
          /\ NodeOf(End(track, k)) \in Nat
          /\ NodeOf(End(track, up[u].acked)) <= NodeOf(End(track, k))
      BY <1>5, NodeOrder
    <3>3. track.head <= NodeOf(End(track, up[u].acked))
      BY <3>1, <3>2 DEF Readable
    <3> QED
      BY <1>4, <3>1, <3>2, <3>3 DEF Readable
  <2> QED
    BY <1>4, <2>1, <2>2, <2>3 DEF Resumes
<1>9. Now.up[u].acked <= y.acked
  BY <1>1, <1>3, <1>4
<1> QED
  BY <1>1, <1>4, <1>7, <1>8, <1>9, SetUpGood

\* Two steps that write nothing
LEMMA StepsZero ==
    ASSUME NEW s \in StateType, NEW x \in StateType, NEW y \in StateType,
           Steps(s, x, 0), Steps(x, y, 0)
    PROVE  Steps(s, y, 0)
<1>1. Steps(s, y, 0 + 0)
  BY StepsTwice
<1> QED
  BY <1>1

\* The reader of an upstream is not moved back where it is not moved.
LEMMA SameAcked ==
    ASSUME NEW z \in UpType, NEW y, y.acked = z.acked
    PROVE  z.acked <= y.acked
BY DEF UpType

\* The connection is given up when the reader cannot be moved.
LEMMA AckFailedGood ==
    ASSUME IInv, NEW u \in ToSet(Now.queue), NEW id \in Nat,
           up[u].confirmed <= id,
           NEW what \in AlertNames, what \in {"stale read", "skip failed"},
           what = "stale read" => ~Readable(track, up[u]),
           NEW y, y = [up[u] EXCEPT !.confirmed = id, !.noRep = TRUE],
           NEW x, x = Alert(Rc(SetUp(Now, u, y), "error"), what)
    PROVE  Good(conf, x) /\ Steps(Now, x, 0)
<1> DEFINE z == SetUp(Now, u, y)
           r == Rc(z, "error")
<1>1. /\ Now \in StateType /\ Good(conf, Now) /\ Now.up = up
      /\ Now.track = track /\ track \in TrackType
      /\ AlertsOK(conf, track)
  BY NowGood DEF Good, Sound
<1>2. /\ UpOK(track, up[u]) /\ Resumes(conf, track, up[u], u)
      /\ u \in Upstreams /\ up[u] \in UpType
  BY <1>1, StateParts DEF Good, Sound, UpsOK, Resuming
<1>3. /\ y \in UpType /\ y.acked = up[u].acked /\ y.confirmed = id
      /\ y.conn = up[u].conn /\ y.sent = up[u].sent
      /\ y.skew = up[u].skew /\ y.used = up[u].used
  BY <1>2 DEF UpType
<1>4. UpOK(track, y) /\ Resumes(conf, track, y, u)
  BY <1>1, <1>2, <1>3, ConfirmGood
<1>5. Now.up[u].acked <= y.acked
  BY <1>1, <1>2, <1>3, SameAcked, Zenon
<1>6. z = SetUp(Now, u, y) /\ x = Alert(r, what) /\ r = Rc(z, "error")
  OBVIOUS
<1> HIDE DEF z, r
<1>7. Good(conf, z) /\ Steps(Now, z, 0)
  BY <1>1, <1>3, <1>4, <1>5, <1>6, SetUpGood
<1>8. z \in StateType /\ z.faults <= conf.maxFaults
  BY <1>7 DEF Good, Sound
<1>9. /\ r \in StateType /\ r.track = z.track /\ r.up = z.up
      /\ r.queue = z.queue /\ r.faults = z.faults
  BY <1>6, <1>8, RcFields
<1>10. Good(conf, r)
  BY <1>7, <1>8, <1>9, GoodSame DEF Good
<1>11. Steps(Now, r, 0)
  BY <1>7, <1>9 DEF Steps
<1>12. what # "open header sent" /\ what # "released buffer"
  OBVIOUS
<1>13. what \in {"stale read", "bad packet", "limit not found"} => ~Calm(conf)
  BY <1>1, <1>2 DEF AlertsOK, Calm, Resumes
<1>14. Good(conf, x) /\ Steps(r, x, 0)
  BY <1>6, <1>10, <1>12, <1>13, AlertGood
<1>15. x \in StateType
  BY <1>14 DEF Good, Sound
<1>16. Steps(Now, x, 0)
  BY <1>1, <1>9, <1>11, <1>14, <1>15, StepsZero
<1> QED
  BY <1>14, <1>16

\* Only the last of two changes of an upstream is left.
LEMMA UpSetTwice ==
    ASSUME NEW n \in StateType, NEW ups \in [Upstreams -> UpType],
           NEW u \in Upstreams, NEW y, NEW z, NEW s,
           s = [n EXCEPT !.up = [ups EXCEPT ![u] = y]],
           s.up = [ups EXCEPT ![u] = y]
    PROVE  [s EXCEPT !.up = [s.up EXCEPT ![u] = z]]
             = [n EXCEPT !.up = [ups EXCEPT ![u] = z]]
<1> DEFINE F == [ups EXCEPT ![u] = y]
           G == [ups EXCEPT ![u] = z]
<1>1. [F EXCEPT ![u] = z] = G
  OBVIOUS
<1>2. s = [n EXCEPT !.up = F] /\ s.up = F
  OBVIOUS
<1> HIDE DEF F, G
<1>3. [s EXCEPT !.up = G] = [n EXCEPT !.up = G]
  BY ONLY n \in StateType, <1>2 DEF StateType
<1> QED
  BY <1>1, <1>2, <1>3 DEF G

\* The frames that the receiver of a last_acked upstream acks are forgotten.
LEMMA AckFramesGood ==
    ASSUME IInv, NEW u \in ToSet(Now.queue), up[u].conn = "up",
           up[u].skew = 0, NEW id \in Nat, id > 0, id <= Received(u),
           up[u].confirmed <= id, NEW y, y = [up[u] EXCEPT !.confirmed = id],
           NEW s, s = SetUp(Now, u, y), Good(conf, s), Steps(Now, s, 0),
           NEW x, x = AckFrames(s, u, id)
    PROVE  Good(conf, x) /\ Steps(Now, x, 0)
<1> DEFINE k == Min({j \in up[u].acked .. Len(track.pkts) :
                        Frames(track, j) >= id})
           y3 == [up[u] EXCEPT !.confirmed = id, !.noRep = TRUE]
           y4 == [up[u] EXCEPT !.confirmed = id, !.acked = k]
           failed == Rc(SetUp(Now, u, y3), "error")
<1>1. /\ Now \in StateType /\ Good(conf, Now) /\ Now.up = up
      /\ Now.track = track /\ track \in TrackType /\ LogOK(track)
  BY NowGood DEF Good, Sound
<1>2. /\ UpOK(track, up[u]) /\ u \in Upstreams /\ up[u] \in UpType
      /\ up \in [Upstreams -> UpType]
  BY <1>1, StateParts DEF Good, Sound, UpsOK
<1>3. up[u].acked \in 0 .. Len(track.pkts)
  BY <1>2 DEF UpOK, UpType
<1>4. /\ y \in UpType /\ y.acked = up[u].acked
  BY <1>2 DEF UpType
<1>5. s.track = track /\ s.up[u] = y
  BY <1>1, <1>2, <1>4, UpFields
<1>6. Rc([s EXCEPT !.up[u].noRep = TRUE], "error") = failed
  <2>1. [s EXCEPT !.up[u].noRep = TRUE] = SetUp(Now, u, y3)
    <3>1. s = [Now EXCEPT !.up = [up EXCEPT ![u] = y]]
      BY <1>1 DEF SetUp
    <3>2. s.up = [up EXCEPT ![u] = y] /\ s.up[u] = y
      <4> DEFINE F == [up EXCEPT ![u] = y]
      <4>1. F[u] = y
        BY ONLY <1>2
      <4>2. Now \in StateType /\ s = [Now EXCEPT !.up = F]
        BY <1>1, <3>1
      <4> HIDE DEF F
      <4>3. s.up = F
        BY ONLY <4>2 DEF StateType
      <4> QED
        BY <4>1, <4>3 DEF F
    <3>3. [s EXCEPT !.up[u].noRep = TRUE]
            = [s EXCEPT !.up = [s.up EXCEPT ![u] = [y EXCEPT !.noRep = TRUE]]]
      BY <3>2
    <3>4. [y EXCEPT !.noRep = TRUE] = y3
      BY <1>2 DEF UpType
    <3> HIDE DEF y3
    <3>5. [s EXCEPT !.up = [s.up EXCEPT ![u] = y3]]
            = [Now EXCEPT !.up = [up EXCEPT ![u] = y3]]
      BY ONLY <1>1, <1>2, <3>1, <3>2, UpSetTwice
    <3> QED
      BY <1>1, <3>3, <3>4, <3>5 DEF SetUp
  <2> QED
    BY <2>1
<1>7. [s EXCEPT !.up[u].acked = k] = SetUp(Now, u, y4)
  <2> HIDE DEF k
  <2>1. s = [Now EXCEPT !.up = [up EXCEPT ![u] = y]]
    BY <1>1 DEF SetUp
  <2>2. s.up = [up EXCEPT ![u] = y] /\ s.up[u] = y
    <3> DEFINE F == [up EXCEPT ![u] = y]
    <3>1. F[u] = y
      BY ONLY <1>2
    <3>2. Now \in StateType /\ s = [Now EXCEPT !.up = F]
      BY <1>1, <2>1
    <3> HIDE DEF F
    <3>3. s.up = F
      BY ONLY <3>2 DEF StateType
    <3> QED
      BY <3>1, <3>3 DEF F
  <2>3. [s EXCEPT !.up[u].acked = k]
          = [s EXCEPT !.up = [s.up EXCEPT ![u] = [y EXCEPT !.acked = k]]]
    BY <2>2
  <2>4. [y EXCEPT !.acked = k] = y4
    BY <1>2 DEF UpType
  <2> HIDE DEF y4
  <2>5. [s EXCEPT !.up = [s.up EXCEPT ![u] = y4]]
          = [Now EXCEPT !.up = [up EXCEPT ![u] = y4]]
    BY ONLY <1>1, <1>2, <2>1, <2>2, UpSetTwice
  <2> QED
    BY <1>1, <2>3, <2>4, <2>5 DEF SetUp
<1>8. PICK w \in 1 .. Len(track.pkts) :
            End(track, w) <= up[u].sent /\ id <= Frames(track, w)
  BY ReceivedPacket
<1>9. k = Min({j \in up[u].acked .. Len(track.pkts) : Frames(track, j) >= id})
  OBVIOUS
<1>10. y3 = [up[u] EXCEPT !.confirmed = id, !.noRep = TRUE]
       /\ failed = Rc(SetUp(Now, u, y3), "error")
  OBVIOUS
<1>11. y4 = [up[u] EXCEPT !.confirmed = id, !.acked = k]
  OBVIOUS
<1> HIDE DEF k, failed, y3, y4
<1>12. /\ k \in up[u].acked .. Len(track.pkts)
       /\ k # up[u].acked =>
            /\ k <= w /\ Frames(track, k) = id
            /\ FirstOf(track, k) /\ track.pkts[k].type # "open"
  <2>1. /\ track \in TrackType /\ LogOK(track) /\ id \in Nat
        /\ up[u].acked \in 0 .. Len(track.pkts)
        /\ w \in 1 .. Len(track.pkts) /\ id <= Frames(track, w)
    BY <1>1, <1>3, <1>8
  <2>2. k = FirstAt(track, up[u].acked, id)
    BY ONLY <1>9 DEF FirstAt
  <2> QED
    BY ONLY <2>1, <2>2, FirstWith
<1>13. Readable(track, y) <=> Readable(track, up[u])
  BY <1>4 DEF Readable
<1>14. x = IF k = up[u].acked THEN s
           ELSE IF ~Readable(track, y) THEN Alert(failed, "stale read")
           ELSE IF NodeOf(End(track, k)) > track.tail
           THEN Alert(failed, "skip failed")
           ELSE SetUp(Now, u, y4)
  <2>1. Min({j \in s.up[u].acked .. Len(s.track.pkts) :
                Frames(s.track, j) >= id}) = k
    BY ONLY <1>4, <1>5, <1>9
  <2>2. x = AckFrames(s, u, id)
    OBVIOUS
  <2>3. /\ s.up[u].acked = up[u].acked /\ s.up[u] = y
        /\ s.track = track
    BY <1>4, <1>5
  <2> QED
    BY ONLY <1>6, <1>7, <2>1, <2>2, <2>3 DEF AckFrames
<1>15. CASE k = up[u].acked
  BY <1>14, <1>15
<1>16. CASE k # up[u].acked /\ ~Readable(track, up[u])
  <2>1. x = Alert(failed, "stale read") /\ "stale read" \in AlertNames
    BY <1>13, <1>14, <1>16 DEF AlertNames
  <2> QED
    BY <1>10, <1>16, <2>1, AckFailedGood
<1>17. CASE /\ k # up[u].acked /\ Readable(track, up[u])
            /\ NodeOf(End(track, k)) > track.tail
  <2>1. x = Alert(failed, "skip failed") /\ "skip failed" \in AlertNames
    BY <1>13, <1>14, <1>17 DEF AlertNames
  <2> QED
    BY <1>10, <2>1, AckFailedGood
<1>18. CASE /\ k # up[u].acked /\ Readable(track, up[u])
            /\ ~(NodeOf(End(track, k)) > track.tail)
  <2>1. x = SetUp(Now, u, y4)
    BY <1>13, <1>14, <1>18
  <2>2. /\ k \in up[u].acked .. w /\ k > 0 /\ Frames(track, k) = id
        /\ FirstOf(track, k) /\ track.pkts[k].type # "open"
    BY <1>3, <1>8, <1>12, <1>18
  <2>3. End(track, w) <= up[u].sent
    BY <1>8
  <2> QED
    BY <1>8, <1>11, <1>18, <2>1, <2>2, <2>3, AckMovedGood
<1> QED
  BY <1>15, <1>16, <1>17, <1>18

\* An ack is read.
LEMMA ReadAckGood ==
    ASSUME IInv, NEW u \in Upstreams, ReadAck(u)
    PROVE  Acted
<1>1. PICK id \in up[u].confirmed + 1 .. Received(u) :
        LET s == [Now EXCEPT !.up[u].confirmed = id]
            x == AckFrames(s, u, id)
        IN  IF conf.resume[u] # "last_acked" THEN Become(s)
            ELSE IF x.rc = "ok" THEN Become(x)
            ELSE \E z \in UpstreamError(x, u) : Become(z)
  BY DEF ReadAck
<1> DEFINE y == [up[u] EXCEPT !.confirmed = id]
           s == [Now EXCEPT !.up[u].confirmed = id]
           x == AckFrames(s, u, id)
<1>2. up[u].conn = "up" /\ up[u].skew = 0
  BY DEF ReadAck
<1>3. /\ Now \in StateType /\ Good(conf, Now) /\ Now.up = up
      /\ Now.track = track /\ track \in TrackType
      /\ PhaseOK(Now.track, Now.queue) /\ u \in ToSet(Now.queue)
  BY <1>2, NowGood, Listed
<1>4. /\ UpOK(track, up[u]) /\ Resumes(conf, track, up[u], u)
      /\ up[u] \in UpType
  BY <1>3, StateParts DEF Good, Sound, UpsOK, Resuming
<1>5. /\ id \in Nat /\ id > 0 /\ id <= Received(u)
      /\ up[u].confirmed <= id
  <2>1. up[u].confirmed \in Nat
    BY <1>4 DEF UpType
  <2> QED
    BY <1>1, <2>1
<1>6. s = SetUp(Now, u, y)
  BY <1>3 DEF SetUp, StateType
<1>7. /\ y \in UpType /\ y.acked = up[u].acked /\ y.confirmed = id
      /\ y.conn = up[u].conn /\ y.sent = up[u].sent
      /\ y.skew = up[u].skew /\ y.used = up[u].used
  BY <1>4, <1>5 DEF UpType
<1>8. /\ y = [up[u] EXCEPT !.confirmed = id] /\ x = AckFrames(s, u, id)
      /\ IF conf.resume[u] # "last_acked" THEN Become(s)
         ELSE IF x.rc = "ok" THEN Become(x)
         ELSE \E z \in UpstreamError(x, u) : Become(z)
  BY <1>1
<1> HIDE DEF x, y, s
<1>9. Good(conf, s) /\ Steps(Now, s, 0)
  <2>1. UpOK(track, y) /\ Resumes(conf, track, y, u)
    BY <1>3, <1>4, <1>5, <1>7, ConfirmGood
  <2>2. Now.up[u].acked <= y.acked
    BY <1>3, <1>4, <1>7, SameAcked
  <2> QED
    BY <1>3, <1>6, <1>7, <2>1, <2>2, SetUpGood
<1>10. Good(conf, x) /\ Steps(Now, x, 0)
  BY <1>2, <1>3, <1>5, <1>6, <1>8, <1>9, AckFramesGood
<1>11. Done(Now, s) /\ Done(Now, x)
  BY <1>3, <1>9, <1>10, StepsDone
<1>12. CASE \E z \in UpstreamError(x, u) : Become(z)
  <2>1. PICK z \in UpstreamError(x, u) : Become(z)
    BY <1>12
  <2>2. /\ PhaseOK(x.track, x.queue) /\ u \in ToSet(x.queue)
    BY <1>3, <1>10, <1>11 DEF Done, Steps
  <2>3. Done(x, z)
    BY <1>10, <2>1, <2>2, ErrorDone
  <2>4. Done(Now, z)
    BY <1>3, <1>10, <2>3, StepsThen
  <2> QED
    BY <2>1, <2>4 DEF Acted
<1> QED
  BY <1>8, <1>11, <1>12 DEF Acted
-----------------------------------------------------------------------------
(* The track *)

\* A track that was just created
LEMMA InitGood ==
    ASSUME Init
    PROVE  IInv
<1>1. /\ Now.track = EmptyTrack /\ Now.queue = << >> /\ Now.faults = 0
      /\ Now.up = [u \in Upstreams |-> NoUpstream]
      /\ Now.rc = "ok" /\ Now.n = 0
      /\ track = EmptyTrack /\ queue = << >>
  BY DEF Init, Now
<1>2. conf \in Confs /\ ConfType(conf)
  BY ConfAssumption DEF Init
<1>3. EmptyTrack \in TrackType
  <2>1. << >> \in Seq(PacketType)
    OBVIOUS
  <2> QED
    BY <2>1 DEF EmptyTrack, TrackType
<1>4. Now \in StateType
  <2>1. Now.up \in [Upstreams -> UpType]
    BY <1>1, GoneUp
  <2>2. EmptyTrack \in TrackType /\ << >> \in Seq(Upstreams) /\ 0 \in Nat
        /\ "ok" \in {"ok", "error", "declined"} /\ 0 \in Int
    BY <1>3
  <2>3. Now = [track |-> track, up |-> up, queue |-> queue,
               faults |-> faults, rc |-> "ok", n |-> 0]
    BY DEF Now
  <2>4. up \in [Upstreams -> UpType] /\ faults = 0
    BY <1>1, <2>1, <2>3
  <2> QED
    BY <1>1, <2>2, <2>3, <2>4 DEF StateType
<1>5. /\ EmptyTrack.pkts = << >> /\ EmptyTrack.written = 0
      /\ EmptyTrack.appended = 0 /\ EmptyTrack.head = 0
      /\ EmptyTrack.tail = -1 /\ EmptyTrack.nfree = 0
      /\ EmptyTrack.alerts = {} /\ EmptyTrack.forced = FALSE
      /\ EmptyTrack.pub = FALSE /\ EmptyTrack.keep = FALSE
      /\ EmptyTrack.oerr = FALSE /\ EmptyTrack.blocked = FALSE
      /\ EmptyTrack.detached = FALSE
  BY DEF EmptyTrack
<1>6. Len(<< >>) = 0 /\ DOMAIN << >> = {} /\ End(EmptyTrack, 0) = 0
  BY DEF End
<1>7. LogOK(EmptyTrack)
  BY <1>5, <1>6 DEF LogOK
<1>8. MemoryOK(conf, EmptyTrack, << >>)
  BY <1>2, <1>5 DEF MemoryOK, ConfType
<1>9. HeadersOK(EmptyTrack) /\ AlertsOK(conf, EmptyTrack)
  BY <1>5, <1>6 DEF HeadersOK, AlertsOK
<1>10. UpsOK(EmptyTrack, Now.up, << >>)
  <2>1. ToSet(<< >>) = {} /\ IsInjective(<< >>)
    BY DEF ToSet, IsInjective
  <2> QED
    BY <1>1, <2>1, GoneUp DEF UpsOK
<1>11. Now.faults <= conf.maxFaults
  BY <1>1, <1>2 DEF ConfType
<1>12. Sound(conf, Now)
  BY <1>1, <1>2, <1>4, <1>7, <1>8, <1>9, <1>10, <1>11 DEF Sound
<1>13. Resuming(conf, Now)
  BY <1>1 DEF Resuming, ToSet
<1>14. PhaseOK(track, queue)
  BY <1>1, <1>5, <1>6
     DEF PhaseOK, MostOK, WholeOK, PubOK, NoPackets, NoBuffers, KeepOK, EosOK
<1> QED
  BY <1>12, <1>13, <1>14 DEF IInv, Good

\* What happens to one upstream
LEMMA UpstreamActed ==
    ASSUME IInv, NEW u \in Upstreams,
           \/ RepublishReply(u) \/ RepublishFail(u) \/ RepublishTimer(u)
           \/ AddUpstream(u)
           \/ Connected(u) \/ WriteReady(u) \/ WriteTimeout(u)
           \/ PeerClosed(u) \/ PeerDone(u) \/ ReadAck(u)
    PROVE  Acted
<1>1. CASE RepublishReply(u)
  BY <1>1, RepublishReplyGood
<1>2. CASE RepublishFail(u)
  BY <1>2, RepublishFailGood
<1>3. CASE RepublishTimer(u)
  BY <1>3, RepublishTimerGood
<1>4. CASE AddUpstream(u)
  BY <1>4, AddUpstreamGood
<1>5. CASE Connected(u)
  BY <1>5, ConnectedGood
<1>6. CASE WriteReady(u)
  BY <1>6, WriteReadyGood
<1>7. CASE WriteTimeout(u) \/ PeerClosed(u) \/ PeerDone(u)
  BY <1>7, PeerGood
<1>8. CASE ReadAck(u)
  BY <1>8, ReadAckGood
<1> QED
  BY <1>1, <1>2, <1>3, <1>4, <1>5, <1>6, <1>7, <1>8

\* What happens to the track
LEMMA TrackActed ==
    ASSUME IInv, \/ WriteMediaInfo \/ WriteFrame \/ WriteMarkedFrame
                 \/ AbortFrame \/ KeepaliveTimer \/ FlushTimer \/ Detach
                 \/ PublishReply \/ PublishFail
    PROVE  Acted
<1>1. CASE WriteMediaInfo
  BY <1>1, WriteMediaInfoGood
<1>2. CASE WriteFrame
  BY <1>2, WriteFrameGood
<1>3. CASE WriteMarkedFrame
  BY <1>3, WriteMarkedFrameGood
<1>4. CASE AbortFrame
  BY <1>4, AbortFrameGood
<1>5. CASE KeepaliveTimer
  BY <1>5, KeepaliveGood
<1>6. CASE FlushTimer
  BY <1>6, FlushTimerGood
<1>7. CASE Detach
  BY <1>7, DetachGood
<1>8. CASE PublishReply
  BY <1>8, PublishReplyGood
<1>9. CASE PublishFail
  BY <1>9, PublishFailGood
<1> QED
  BY <1>1, <1>2, <1>3, <1>4, <1>5, <1>6, <1>7, <1>8, <1>9

\* Nothing happens.
LEMMA StutterGood ==
    ASSUME IInv, UNCHANGED vars
    PROVE  IInv' /\ Forward /\ Told
<1>1. /\ track' = track /\ up' = up /\ queue' = queue
      /\ faults' = faults /\ conf' = conf
  BY DEF vars
<1>2. Become(Now)
  BY <1>1 DEF Become, Now
<1>3. Done(Now, Now)
  BY NowGood DEF Done
<1> QED
  BY <1>2, <1>3, ActedGood DEF Acted

\* What holds of every step
LEMMA NextGood ==
    ASSUME IInv, [Next]_vars
    PROVE  IInv' /\ Forward /\ Told
<1>1. CASE \/ WriteMediaInfo \/ WriteFrame \/ WriteMarkedFrame
           \/ AbortFrame \/ KeepaliveTimer \/ FlushTimer \/ Detach
           \/ PublishReply \/ PublishFail
  BY <1>1, TrackActed, ActedGood
<1>2. ASSUME NEW u \in Upstreams,
             \/ RepublishReply(u) \/ RepublishFail(u) \/ RepublishTimer(u)
             \/ AddUpstream(u)
             \/ Connected(u) \/ WriteReady(u) \/ WriteTimeout(u)
             \/ PeerClosed(u) \/ PeerDone(u) \/ ReadAck(u)
      PROVE  IInv' /\ Forward /\ Told
  BY <1>2, UpstreamActed, ActedGood
<1>3. ASSUME NEW u \in Upstreams, DelUpstream(u)
      PROVE  IInv' /\ Forward /\ Told
  BY <1>3, DelUpstreamGood
<1>4. CASE Freed \/ UNCHANGED vars
  BY <1>4, StutterGood DEF Freed
<1> QED
  BY <1>1, <1>2, <1>3, <1>4 DEF Next

-----------------------------------------------------------------------------
(* Theorems *)

\* Whatever the upstreams, the limits, the errors and the order in which
\* packets, timers, answers and acks come: the log is in the buffers of the
\* queue, what was acked is below what was sent, headers that are not filled
\* in are not sent, and the places from which upstreams resume are kept as
\* long as memory lasts.
THEOREM KmpOutInvariance == Spec => []IInv
<1>1. Init => IInv
  BY InitGood
<1>2. IInv /\ [Next]_vars => IInv'
  BY NextGood
<1> QED
  BY <1>1, <1>2, PTL DEF Spec

\* The types; the buffers of the track and its free list are within its memory
\* limit (ngx_buf_queue_get, ngx_kmp_out_track_write_chain).
THEOREM KmpOutType == Spec => []TypeOK
<1>1. IInv => TypeOK
  <2> SUFFICES ASSUME IInv PROVE TypeOK
    OBVIOUS
  <2>1. /\ Now \in StateType /\ Now.up = up /\ Now.track = track
        /\ Now.queue = queue /\ Now.faults = faults
        /\ track \in TrackType /\ MemoryOK(conf, track, queue)
        /\ UpsOK(track, up, queue) /\ faults <= conf.maxFaults
        /\ ConfType(conf)
    BY NowGood DEF Good, Sound
  <2>2. /\ up \in [Upstreams -> UpType] /\ queue \in Seq(Upstreams)
        /\ ToSet(queue) \subseteq Upstreams /\ faults \in Nat
        /\ IsInjective(queue)
    BY <2>1, StateParts DEF UpsOK
  <2>3. DOMAIN track = DOMAIN EmptyTrack
    BY <2>1 DEF TrackType, EmptyTrack
  <2>4. track.state \in {"wait", "active", "inactive"}
    BY <2>1 DEF TrackType
  <2>5. \A k \in DOMAIN track.pkts : track.pkts[k] \in
            [type : PacketTypes, end : Nat, frames : Nat]
    BY <2>1, LogNumbers DEF PacketType
  <2>6. {track.written, track.appended, track.lastFrame, track.head,
         track.nfree} \subseteq Nat
    BY <2>1 DEF TrackType
  <2>7. MemLeft(track) \in 0 .. conf.memLimit
    <3>1. /\ track.head \in Nat /\ track.nfree \in Nat
          /\ track.tail \in Int /\ conf.memLimit \in Nat
      BY <2>1 DEF TrackType, ConfType
    <3>2. track.tail - track.head + 1 + track.nfree <= conf.memLimit
      BY <2>1 DEF MemoryOK
    <3>3. track.tail - track.head + 1 >= 0
      BY <2>1, <3>1 DEF MemoryOK
    <3> QED
      BY <3>1, <3>2, <3>3 DEF MemLeft, Nodes
  <2>8. ASSUME NEW u \in Upstreams
        PROVE  /\ DOMAIN up[u] = DOMAIN NoUpstream
               /\ up[u].conn \in {"none", "connecting", "up"}
               /\ up[u].acked \in 0 .. Len(track.pkts)
               /\ {up[u].sent, up[u].pre, up[u].skew, up[u].reps}
                    \subseteq Nat
    <3>1. up[u] \in UpType
      BY <2>2
    <3>2. DOMAIN up[u] = DOMAIN NoUpstream
      BY <3>1 DEF UpType, NoUpstream
    <3>3. /\ up[u].conn \in {"none", "connecting", "up"}
          /\ up[u].acked \in Nat
          /\ {up[u].sent, up[u].pre, up[u].skew, up[u].reps} \subseteq Nat
      BY <3>1 DEF UpType
    <3>4. Len(track.pkts) \in Nat
      BY <2>1, LogNumbers
    <3>5. up[u].acked <= Len(track.pkts)
      <4>1. CASE u \in ToSet(queue)
        BY <2>1, <4>1 DEF UpsOK, UpOK
      <4>2. CASE u \notin ToSet(queue)
        <5>1. UpGone(up[u])
          BY <2>1, <4>2 DEF UpsOK
        <5>2. up[u].acked = 0
          BY <5>1 DEF UpGone, NoUpstream
        <5> QED
          BY <3>4, <5>2
      <4> QED
        BY <4>1, <4>2
    <3> QED
      BY <3>2, <3>3, <3>4, <3>5
  <2>9. faults \in 0 .. conf.maxFaults
    BY <2>1, <2>2 DEF ConfType
  <2> QED
    BY <2>2, <2>3, <2>4, <2>5, <2>6, <2>7, <2>8, <2>9 DEF TypeOK
<1> QED
  BY <1>1, KmpOutInvariance, PTL

\* The end of stream is the last packet: no timer or handler writes after it
\* (ngx_kmp_out_track_detach, ngx_kmp_out_track_keepalive_handler).
THEOREM EndOfStreamLast == Spec => []EosIsLast
<1>1. IInv => EosIsLast
  BY DEF IInv, PhaseOK, MostOK, EosOK, EosIsLast
<1> QED
  BY <1>1, KmpOutInvariance, PTL

\* No header is sent before it is filled in, unless the owner met an error
\* (ngx_kmp_out_track_write_frame_start, send_all).
THEOREM HeadersAreHeld == Spec => []HeaderHeld
<1>1. IInv => HeaderHeld
  <2> SUFFICES ASSUME IInv PROVE HeaderHeld
    OBVIOUS
  <2>1. HeadersOK(track)
    BY NowGood DEF Good, Sound
  <2> QED
    BY <2>1 DEF HeadersOK, HeaderHeld
<1> QED
  BY <1>1, KmpOutInvariance, PTL

\* Nothing is written to a buffer that was released, if the owner looks at the
\* state of the track (ngx_kmp_out_track_write_chain).
THEOREM BuffersOwned == Spec => []BufferOwned
<1>1. IInv => BufferOwned
  <2> SUFFICES ASSUME IInv PROVE BufferOwned
    OBVIOUS
  <2>1. AlertsOK(conf, track)
    BY NowGood DEF Good, Sound
  <2> QED
    BY <2>1 DEF AlertsOK, BufferOwned
<1> QED
  BY <1>1, KmpOutInvariance, PTL

\* What a connected upstream acked was sent on its connection
\* (ngx_kmp_out_upstream_auto_ack, ngx_kmp_out_upstream_ack_frames).
THEOREM AcksWereSent == Spec => []AckedWasSent
<1>1. IInv => AckedWasSent
  <2> SUFFICES ASSUME IInv PROVE AckedWasSent
    OBVIOUS
  <2>1. UpsOK(track, up, queue) /\ ToSet(queue) \subseteq Upstreams
        /\ up \in [Upstreams -> UpType]
    BY NowGood, StateParts DEF Good, Sound
  <2>2. SUFFICES ASSUME NEW u \in ToSet(queue), up[u].conn = "up",
                        up[u].skew = 0
                 PROVE  End(track, up[u].acked) <= up[u].sent
    BY DEF AckedWasSent
  <2>3. End(track, up[u].acked) <= up[u].sent + up[u].skew
    BY <2>1, <2>2 DEF UpsOK, UpOK
  <2>4. up[u].sent \in Nat
    BY <2>1, <2>2 DEF UpType
  <2> QED
    BY <2>2, <2>3, <2>4
<1> QED
  BY <1>1, KmpOutInvariance, PTL

\* What holds of the places from which upstreams resume
LEMMA NowResumes ==
    ASSUME IInv, NEW u \in ToSet(queue)
    PROVE  Resumes(conf, track, up[u], u)
BY NowGood DEF Good, Resuming

\* An upstream that waits for acks forgets no frame its receiver did not
\* confirm, unless memory ran low, whatever the other upstreams do and however
\* the connections break (ngx_kmp_out_upstream_ack_frames).
THEOREM ForgottenWereConfirmed == Spec => []OnlyConfirmedForgotten
<1>1. IInv => OnlyConfirmedForgotten
  BY NowResumes DEF OnlyConfirmedForgotten, Resumes
<1> QED
  BY <1>1, KmpOutInvariance, PTL

\* A connection sends from the frame that its connect packet names, unless
\* resume_from is last_written or memory ran low
\* (ngx_kmp_out_upstream_send_buffered).
THEOREM ConnectionsAligned ==
    Spec => [](NoneWritten(conf) /\ ~track.forced => StreamAligned)
<1>1. IInv => (NoneWritten(conf) /\ ~track.forced => StreamAligned)
  <2> SUFFICES ASSUME IInv, NoneWritten(conf), ~track.forced,
                      NEW u \in Upstreams, up[u].conn = "up"
               PROVE  up[u].skew = 0
    BY DEF StreamAligned
  <2>1. u \in ToSet(queue)
    BY Listed, NowGood
  <2> QED
    BY <2>1, NowResumes DEF Resumes
<1> QED
  BY <1>1, KmpOutInvariance, PTL

\* The buffer from which an upstream resumes is in the queue, when the
\* receivers ack and memory did not run low (ngx_kmp_out_track_append_all,
\* ngx_buf_queue_free).
THEOREM ReadersRetained ==
    Spec => [](LastAcked(conf) /\ ~track.forced => ReaderRetained)
<1>1. IInv => (LastAcked(conf) /\ ~track.forced => ReaderRetained)
  BY NowResumes DEF ReaderRetained, Resumes
<1> QED
  BY <1>1, KmpOutInvariance, PTL

\* No reader parses anything but a packet that is in a buffer of the queue,
\* when the receivers ack and the watermark is off (ngx_kmp_out_upstream.c,
\* read_packet and ack_packet).
THEOREM ReadsAreGood == Spec => [](Calm(conf) => NoBadRead)
<1>1. IInv => (Calm(conf) => NoBadRead)
  <2> SUFFICES ASSUME IInv PROVE Calm(conf) => NoBadRead
    OBVIOUS
  <2>1. AlertsOK(conf, track)
    BY NowGood DEF Good, Sound
  <2> QED
    BY <2>1 DEF AlertsOK, NoBadRead
<1> QED
  BY <1>1, KmpOutInvariance, PTL

\* No error, ack or new connection moves the place from which an upstream
\* resumes back (ngx_kmp_out_upstream_ack_frames).
THEOREM ResumesForward == Spec => ResumeForward
<1>1. IInv /\ [Next]_vars =>
        [\A u \in ToSet(queue) \cap ToSet(queue') :
            up[u].acked <= up'[u].acked]_vars
  BY NextGood DEF Forward
<1> QED
  BY <1>1, KmpOutInvariance, PTL DEF Spec, ResumeForward

\* The loss of a required upstream, or of the last one, reaches the owner of a
\* track that is attached (ngx_kmp_out_upstream_free_notify).
THEOREM LossIsReported == Spec => LossReported
<1>1. IInv /\ [Next]_vars =>
        [\A u \in ToSet(queue) \ ToSet(queue') :
            (conf.required[u] \/ queue' = << >>) /\ ~track'.detached
                => \/ track'.oerr
                   \/ DelUpstream(u)
                        /\ (queue' = << >> => track'.state = "inactive")
        ]_vars
  BY NextGood DEF Told
<1> QED
  BY <1>1, KmpOutInvariance, PTL DEF Spec, LossReported

=============================================================================
