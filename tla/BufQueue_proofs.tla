--------------------------- MODULE BufQueue_proofs ---------------------------
(***************************************************************************)
(* The safety properties of BufQueue for any number of buffers, streams    *)
(* and blocks, and the refinement of LogWindow.                            *)
(*                                                                         *)
(* The type invariant is not inductive by itself (free_left could go below *)
(* zero), nor is any of the other properties: that a stream reads its own  *)
(* block needs the buffers to be in order, which needs that no buffer is   *)
(* in a list twice.  Inv is their conjunction.                             *)
(***************************************************************************)
EXTENDS BufQueue, SequenceTheorems, TLAPS

Inv ==
    /\ TypeOK
    /\ Accounted
    /\ NoAlias
    /\ InOrder
    /\ StreamsInside

-----------------------------------------------------------------------------
(* The list operators *)

\* What is left of a list without its first k elements (ngx_buf_queue_free).
LEMMA DropFirstProperties ==
    ASSUME NEW S, NEW s \in Seq(S), NEW k \in 0 .. Len(s)
    PROVE  /\ DropFirst(s, k) \in Seq(S)
           /\ Len(DropFirst(s, k)) = Len(s) - k
           /\ \A i \in 1 .. Len(s) - k : DropFirst(s, k)[i] = s[i + k]
<1>1. Len(s) \in Nat /\ \A i \in 1 .. Len(s) : s[i] \in S
    BY LenProperties, ElementOfSeq
<1>2. DropFirst(s, k) \in [1 .. Len(s) - k -> S]
    BY <1>1 DEF DropFirst
<1>3. Len(s) - k \in Nat
    BY <1>1
<1>4. DropFirst(s, k) \in Seq(S)
  <2>1. DropFirst(s, k) \in UNION {[1 .. n -> S] : n \in Nat}
    BY <1>2, <1>3
  <2> QED BY <2>1, SeqDef
<1>5. DOMAIN DropFirst(s, k) = 1 .. Len(s) - k
    BY DEF DropFirst
<1>6. Len(DropFirst(s, k)) = Len(s) - k
    BY <1>3, <1>4, <1>5, LenProperties
<1> QED BY <1>4, <1>6 DEF DropFirst

\* What a list holds after k buffers were pushed on it one after the other
\* (the free list in ngx_buf_queue_free).
LEMMA PushEachProperties ==
    ASSUME NEW S, NEW s \in Seq(S), NEW f \in Seq(S), NEW k \in 0 .. Len(s)
    PROVE  /\ PushEach(s, k, f) \in Seq(S)
           /\ Len(PushEach(s, k, f)) = k + Len(f)
           /\ \A i \in 1 .. k + Len(f) : PushEach(s, k, f)[i] =
                    IF i <= k THEN s[k + 1 - i] ELSE f[i - k]
<1>1. /\ Len(s) \in Nat /\ \A i \in 1 .. Len(s) : s[i] \in S
      /\ Len(f) \in Nat /\ \A i \in 1 .. Len(f) : f[i] \in S
    BY LenProperties, ElementOfSeq
<1>2. PushEach(s, k, f) \in [1 .. k + Len(f) -> S]
  <2>1. ASSUME NEW i \in 1 .. k + Len(f)
        PROVE  (IF i <= k THEN s[k + 1 - i] ELSE f[i - k]) \in S
    <3>1. CASE i <= k
      <4>1. k + 1 - i \in 1 .. Len(s)
        BY <1>1, <3>1
      <4> QED BY <1>1, <3>1, <4>1
    <3>2. CASE ~(i <= k)
      <4>1. i - k \in 1 .. Len(f)
        BY <1>1, <3>2
      <4> QED BY <1>1, <3>2, <4>1
    <3> QED BY <3>1, <3>2
  <2> QED BY <2>1 DEF PushEach
<1>3. k + Len(f) \in Nat
    BY <1>1
<1>4. PushEach(s, k, f) \in Seq(S)
  <2>1. PushEach(s, k, f) \in UNION {[1 .. n -> S] : n \in Nat}
    BY <1>2, <1>3
  <2> QED BY <2>1, SeqDef
<1>5. DOMAIN PushEach(s, k, f) = 1 .. k + Len(f)
    BY DEF PushEach
<1>6. Len(PushEach(s, k, f)) = k + Len(f)
    BY <1>3, <1>4, <1>5, LenProperties
<1> QED BY <1>1, <1>4, <1>6 DEF PushEach

\* A buffer that is added at the tail (ngx_buf_queue_get).
LEMMA AppendProps ==
    ASSUME NEW S, NEW s \in Seq(S), NEW e \in S
    PROVE  /\ Append(s, e) \in Seq(S)
           /\ Len(Append(s, e)) = Len(s) + 1
           /\ \A i \in 1 .. Len(s) : Append(s, e)[i] = s[i]
           /\ Append(s, e)[Len(s) + 1] = e
    OBVIOUS

\* A list of buffers and its length.
LEMMA SeqFacts ==
    ASSUME NEW S, NEW s \in Seq(S)
    PROVE  /\ Len(s) \in Nat /\ DOMAIN s = 1 .. Len(s)
           /\ \A i \in 1 .. Len(s) : s[i] \in S
    BY LenProperties, ElementOfSeq

\* Moving the first free buffer to the tail keeps every buffer at one place.
LEMMA ApartLink ==
    ASSUME NEW S, NEW u \in Seq(S), NEW f \in Seq(S), f # << >>, Apart(u, f)
    PROVE  Apart(Append(u, f[1]), DropFirst(f, 1))
<1> DEFINE a == Append(u, f[1])
           d == DropFirst(f, 1)
<1>1. Len(u) \in Nat /\ Len(f) \in Nat \ {0} /\ f[1] \in S
    BY SeqFacts, EmptySeq
<1>2. /\ Len(a) = Len(u) + 1 /\ a[Len(u) + 1] = f[1]
      /\ \A i \in 1 .. Len(u) : a[i] = u[i]
    BY <1>1, AppendProps
<1>3. /\ Len(d) = Len(f) - 1
      /\ \A i \in 1 .. Len(f) - 1 : d[i] = f[i + 1]
  <2>1. 1 \in 0 .. Len(f)
    BY <1>1
  <2> QED BY <2>1, DropFirstProperties
<1> HIDE DEF a, d
<1>4. \A i, j \in 1 .. Len(a) : a[i] = a[j] => i = j
    BY <1>1, <1>2 DEF Apart
<1>5. ASSUME NEW i \in 1 .. Len(d), NEW j \in 1 .. Len(d), d[i] = d[j]
      PROVE  i = j
  <2>1. i + 1 \in 1 .. Len(f) /\ j + 1 \in 1 .. Len(f) /\ f[i + 1] = f[j + 1]
    BY <1>1, <1>3, <1>5
  <2> QED BY <1>1, <2>1 DEF Apart
<1>6. ASSUME NEW i \in 1 .. Len(a), NEW j \in 1 .. Len(d)
      PROVE  a[i] # d[j]
  <2>1. j + 1 \in 1 .. Len(f) /\ d[j] = f[j + 1] /\ j + 1 # 1
    BY <1>1, <1>3
  <2>2. i \in 1 .. Len(u) \/ a[i] = f[1]
    BY <1>1, <1>2
  <2> QED BY <1>1, <1>2, <2>1, <2>2 DEF Apart
<1>7. Apart(a, d)
    BY <1>4, <1>5, <1>6 DEF Apart
<1> QED BY <1>7 DEF a, d

\* Releasing the first k buffers, some of them to the free list, keeps every
\* buffer at one place.
LEMMA ApartRelease ==
    ASSUME NEW S, NEW u \in Seq(S), NEW f \in Seq(S), Apart(u, f),
           NEW k \in 0 .. Len(u), NEW c \in 0 .. k
    PROVE  Apart(DropFirst(u, k), PushEach(u, c, f))
<1>1. Len(u) \in Nat /\ Len(f) \in Nat /\ c \in 0 .. Len(u)
    BY SeqFacts
<1>a. PICK d \in Seq(S) :
        /\ d = DropFirst(u, k) /\ Len(d) = Len(u) - k
        /\ \A i \in 1 .. Len(u) - k : d[i] = u[i + k]
    BY DropFirstProperties
<1>b. c \in 0 .. Len(u)
    BY <1>1
<1>c. PICK p \in Seq(S) :
        /\ p = PushEach(u, c, f) /\ Len(p) = c + Len(f)
        /\ \A i \in 1 .. c + Len(f) :
            p[i] = IF i <= c THEN u[c + 1 - i] ELSE f[i - c]
    BY <1>b, PushEachProperties
<1>2. /\ Len(d) = Len(u) - k
      /\ \A i \in 1 .. Len(u) - k : d[i] = u[i + k]
    BY <1>a
<1>3. /\ Len(p) = c + Len(f)
      /\ \A i \in 1 .. c + Len(f) :
            p[i] = IF i <= c THEN u[c + 1 - i] ELSE f[i - c]
    BY <1>c
<1>4. ASSUME NEW i \in 1 .. Len(d)
      PROVE  i + k \in 1 .. Len(u) /\ d[i] = u[i + k]
    BY <1>1, <1>2
<1>5. ASSUME NEW i \in 1 .. Len(p)
      PROVE  \/ i <= c /\ c + 1 - i \in 1 .. c /\ p[i] = u[c + 1 - i]
             \/ i > c /\ i - c \in 1 .. Len(f) /\ p[i] = f[i - c]
    BY <1>1, <1>3
<1>6. ASSUME NEW i \in 1 .. Len(d), NEW j \in 1 .. Len(d), d[i] = d[j]
      PROVE  i = j
  <2>1. u[i + k] = u[j + k] /\ i + k \in 1 .. Len(u) /\ j + k \in 1 .. Len(u)
    BY <1>4, <1>6
  <2>2. i + k = j + k
    BY <2>1 DEF Apart
  <2> QED BY <1>1, <1>2, <2>2
<1>7. ASSUME NEW i \in 1 .. Len(p), NEW j \in 1 .. Len(p), p[i] = p[j]
      PROVE  i = j
  <2>1. CASE i <= c /\ j <= c
    <3>1. /\ c + 1 - i \in 1 .. Len(u) /\ c + 1 - j \in 1 .. Len(u)
          /\ u[c + 1 - i] = u[c + 1 - j]
      BY <2>1, <1>1, <1>3, <1>5, <1>7
    <3>2. c + 1 - i = c + 1 - j
      BY <3>1 DEF Apart
    <3> QED BY <3>2, <1>1, <1>3
  <2>2. CASE i > c /\ j > c
    <3>1. /\ i - c \in 1 .. Len(f) /\ j - c \in 1 .. Len(f)
          /\ f[i - c] = f[j - c]
      BY <2>2, <1>1, <1>3, <1>5, <1>7
    <3>2. i - c = j - c
      BY <3>1 DEF Apart
    <3> QED BY <3>2, <1>1, <1>3
  <2>3. CASE i <= c /\ j > c
    <3>1. c + 1 - i \in 1 .. Len(u) /\ p[i] = u[c + 1 - i]
      BY <2>3, <1>1, <1>3, <1>5
    <3>2. j - c \in 1 .. Len(f) /\ p[j] = f[j - c]
      BY <2>3, <1>1, <1>3, <1>5
    <3> QED BY <3>1, <3>2, <1>7 DEF Apart
  <2>4. CASE i > c /\ j <= c
    <3>1. c + 1 - j \in 1 .. Len(u) /\ p[j] = u[c + 1 - j]
      BY <2>4, <1>1, <1>3, <1>5
    <3>2. i - c \in 1 .. Len(f) /\ p[i] = f[i - c]
      BY <2>4, <1>1, <1>3, <1>5
    <3> QED BY <3>1, <3>2, <1>7 DEF Apart
  <2> QED BY <2>1, <2>2, <2>3, <2>4, <1>1, <1>3
<1>8. ASSUME NEW i \in 1 .. Len(d), NEW j \in 1 .. Len(p)
      PROVE  d[i] # p[j]
  <2>1. CASE j <= c
    <3>1. i + k # c + 1 - j
      BY <2>1, <1>1, <1>2, <1>3
    <3>2. c + 1 - j \in 1 .. Len(u) /\ p[j] = u[c + 1 - j]
      BY <2>1, <1>1, <1>3, <1>5
    <3> QED BY <3>1, <3>2, <1>4 DEF Apart
  <2>2. CASE j > c
    <3>1. j - c \in 1 .. Len(f) /\ p[j] = f[j - c]
      BY <2>2, <1>1, <1>3, <1>5
    <3>2. i + k \in 1 .. Len(u) /\ d[i] = u[i + k]
      BY <1>4
    <3> QED BY <3>1, <3>2 DEF Apart
  <2> QED BY <2>1, <2>2, <1>1, <1>3
<1>9. Apart(d, p)
    BY <1>6, <1>7, <1>8 DEF Apart
<1> QED BY <1>9, <1>a, <1>c

-----------------------------------------------------------------------------
(* The steps that change the lists *)

\* What the invariant says of the numbers.
LEMMA Numbers ==
    ASSUME Inv
    PROVE  /\ used \in Seq(Nodes) /\ Len(used) \in Nat
           /\ DOMAIN used = 1 .. Len(used)
           /\ free \in Seq(Nodes) /\ Len(free) \in Nat
           /\ freeLeft \in Nat /\ memLeft \in Nat /\ nbuffers \in Nat
           /\ other \in Nat /\ first \in Nat
           /\ nbuffers = Len(used) + Len(free)
           /\ freeLeft + Len(free) = MaxFree
           /\ attached => memLeft + nbuffers + other = MemLimit
    BY SeqFacts DEF Inv, TypeOK, Accounted

\* A buffer linked at the tail and filled leaves the other blocks, and the
\* streams, where they are.
LEMMA LinkKeepsOrder ==
    ASSUME Inv, NEW n \in Nodes, \A i \in 1 .. Len(used) : used[i] # n,
           used' = Append(used, n),
           data' = [data EXCEPT ![n] = first + Len(used)],
           UNCHANGED <<first, stream>>
    PROVE  InOrder' /\ StreamsInside'
<1>1. /\ Len(used') = Len(used) + 1 /\ DOMAIN used' = 1 .. Len(used) + 1
      /\ \A i \in 1 .. Len(used) : used'[i] = used[i]
      /\ used'[Len(used) + 1] = n
    BY Numbers, AppendProps, SeqFacts
<1>2. data \in [Nodes -> Nat]
    BY DEF Inv, TypeOK
<1>3. ASSUME NEW i \in 1 .. Len(used) + 1
      PROVE  data'[used'[i]] = first' + i - 1
  <2>1. CASE i \in 1 .. Len(used)
    <3>1. used[i] \in Nodes /\ used[i] # n /\ data[used[i]] = first + i - 1
      BY <2>1, Numbers, SeqFacts DEF Inv, InOrder
    <3> QED BY <3>1, <2>1, <1>1, <1>2
  <2>2. CASE i = Len(used) + 1
    BY <2>2, <1>1, <1>2, Numbers
  <2> QED BY <2>1, <2>2, Numbers
<1>4. InOrder'
    BY <1>1, <1>3 DEF InOrder
<1>5. StreamsInside'
  <2> SUFFICES ASSUME NEW r \in Readers, stream[r].open
               PROVE  \E i \in DOMAIN used' : /\ used'[i] = stream[r].node
                                             /\ stream[r].at = first + i - 1
    BY DEF StreamsInside
  <2>1. PICK i \in 1 .. Len(used) : /\ used[i] = stream[r].node
                                    /\ stream[r].at = first + i - 1
    BY Numbers DEF Inv, StreamsInside
  <2>2. i \in DOMAIN used' /\ used'[i] = stream[r].node
    BY <2>1, <1>1, Numbers
  <2> QED BY <2>1, <2>2
<1> QED BY <1>4, <1>5

\* A buffer from the free list (ngx_buf_queue_get).
LEMMA GetFreeInv == ASSUME Inv, GetFree PROVE Inv'
<1>1. /\ free # << >> /\ Len(free) \in Nat \ {0} /\ free[1] \in Nodes
      /\ 1 \in 0 .. Len(free)
    BY Numbers, EmptySeq, SeqFacts DEF GetFree
<1>2. /\ used' = Append(used, free[1]) /\ free' = DropFirst(free, 1)
      /\ data' = [data EXCEPT ![free[1]] = first + Len(used)]
      /\ freeLeft' = freeLeft + 1
      /\ UNCHANGED <<memLeft, nbuffers, attached, other, first, stream>>
    BY DEF GetFree, Link, next
<1>3. /\ used' \in Seq(Nodes) /\ Len(used') = Len(used) + 1
      /\ \A i \in 1 .. Len(used) : used'[i] = used[i]
      /\ used'[Len(used) + 1] = free[1]
    BY <1>1, <1>2, Numbers, AppendProps
<1>4. free' \in Seq(Nodes) /\ Len(free') = Len(free) - 1
    BY <1>1, <1>2, Numbers, DropFirstProperties
<1>5. NoAlias'
    BY <1>1, <1>2, Numbers, ApartLink DEF Inv, NoAlias
<1>6. TypeOK'
    BY <1>1, <1>2, <1>3, <1>4, Numbers DEF Inv, TypeOK
<1>7. Accounted'
  <2>1. nbuffers' = Len(used') + Len(free') /\ freeLeft' + Len(free') = MaxFree
    <3>1. /\ Len(used') = Len(used) + 1 /\ Len(free') = Len(free) - 1
          /\ nbuffers' = nbuffers /\ freeLeft' = freeLeft + 1
      BY <1>2, <1>3, <1>4
    <3>2. /\ Len(used) \in Nat /\ Len(free) \in Nat /\ freeLeft \in Nat
          /\ nbuffers = Len(used) + Len(free) /\ freeLeft + Len(free) = MaxFree
      BY Numbers
    <3> QED BY <3>1, <3>2
  <2>2. attached' => attached
    BY <1>2
  <2>3. memLeft' + nbuffers' + other' = memLeft + nbuffers + other
    BY <1>2
  <2> QED BY <2>1, <2>2, <2>3, Numbers DEF Accounted
<1>8. \A i \in 1 .. Len(used) : used[i] # free[1]
    BY <1>1 DEF Inv, NoAlias, Apart
<1>9. InOrder' /\ StreamsInside'
    BY <1>1, <1>2, <1>8, LinkKeepsOrder
<1> QED BY <1>5, <1>6, <1>7, <1>9 DEF Inv

\* A buffer from the allocator (ngx_buf_queue_get).
LEMMA GetNewInv == ASSUME Inv, GetNew PROVE Inv'
<1>1. PICK n \in Nodes : (\A i \in DOMAIN used : used[i] # n) /\ Link(n)
    BY DEF GetNew
<1>2. /\ free = << >> /\ free' = free /\ freeLeft' = freeLeft
      /\ memLeft >= 1 /\ memLeft' = memLeft - 1 /\ nbuffers' = nbuffers + 1
    BY DEF GetNew
<1>3. /\ used' = Append(used, n) /\ \A i \in 1 .. Len(used) : used[i] # n
      /\ data' = [data EXCEPT ![n] = first + Len(used)]
      /\ UNCHANGED <<attached, other, first, stream>>
    BY <1>1, Numbers DEF Link, next
<1>4. /\ used' \in Seq(Nodes) /\ Len(used') = Len(used) + 1
      /\ \A i \in 1 .. Len(used) : used'[i] = used[i]
      /\ used'[Len(used) + 1] = n
    BY <1>3, Numbers, AppendProps
<1>5. TypeOK'
  <2>1. memLeft' \in Nat /\ nbuffers' \in Nat
    BY <1>2, Numbers
  <2>2. data' \in [Nodes -> Nat]
    BY <1>3, Numbers DEF Inv, TypeOK
  <2> QED BY <1>2, <1>3, <1>4, <2>1, <2>2 DEF Inv, TypeOK
<1>6. Accounted'
  <2>1. /\ Len(used) \in Nat /\ Len(free) = 0 /\ nbuffers = Len(used) + Len(free)
        /\ memLeft \in Nat /\ nbuffers \in Nat /\ other \in Nat
    BY <1>2, Numbers
  <2>2. nbuffers' = Len(used') + Len(free')
    BY <1>2, <1>4, <2>1
  <2>3. freeLeft' + Len(free') = MaxFree
    BY <1>2, Numbers
  <2>4. memLeft' + nbuffers' + other' = memLeft + nbuffers + other
    BY <1>2, <1>3, <2>1
  <2>5. attached' => attached
    BY <1>3
  <2> QED BY <2>2, <2>3, <2>4, <2>5, Numbers DEF Accounted
<1>7. NoAlias'
  <2>1. Len(free) = 0 /\ free' = free
    BY <1>2
  <2> QED BY <1>3, <1>4, <2>1, Numbers DEF Inv, NoAlias, Apart
<1>8. InOrder' /\ StreamsInside'
    BY <1>3, LinkKeepsOrder
<1> QED BY <1>5, <1>6, <1>7, <1>8 DEF Inv

\* Buffers are released up to the one of the last stream (ngx_buf_queue_free).
LEMMA FreeInv == ASSUME Inv, Free PROVE Inv'
<1>1. PICK r \in Readers, i \in DOMAIN used :
        /\ stream[r].open
        /\ \A s \in Readers : stream[s].open => stream[r].at <= stream[s].at
        /\ used[i] = stream[r].node
        /\ Release(i - 1)
        /\ UNCHANGED <<attached, other, data, stream>>
    BY DEF Free
<1> DEFINE k == i - 1
           kept == Smaller(k, freeLeft)
<1>2. /\ k \in 0 .. Len(used) - 1 /\ k \in 0 .. Len(used) /\ k \in Nat
      /\ i = k + 1
    BY Numbers
<1>3. kept \in 0 .. k /\ kept \in 0 .. Len(used) /\ kept <= freeLeft
    BY <1>2, Numbers DEF Smaller
<1>4. /\ used' = DropFirst(used, k) /\ free' = PushEach(used, kept, free)
      /\ freeLeft' = freeLeft - kept /\ first' = first + k
      /\ memLeft' = IF attached THEN memLeft + (k - kept) ELSE memLeft
      /\ nbuffers' = nbuffers - (k - kept)
    BY <1>1 DEF Release
<1> HIDE DEF k, kept
<1>5. /\ used' \in Seq(Nodes) /\ Len(used') = Len(used) - k
      /\ \A j \in 1 .. Len(used) - k : used'[j] = used[j + k]
  <2>1. used \in Seq(Nodes)
    BY Numbers
  <2> QED BY <2>1, <1>2, <1>4, DropFirstProperties
<1>6. free' \in Seq(Nodes) /\ Len(free') = kept + Len(free)
  <2>1. used \in Seq(Nodes) /\ free \in Seq(Nodes)
    BY Numbers
  <2> QED BY <2>1, <1>3, <1>4, PushEachProperties
<1>7. DOMAIN used' = 1 .. Len(used) - k
    BY <1>5, SeqFacts
<1>8. TypeOK'
  <2>1. /\ k \in Nat /\ kept \in Nat /\ k - kept \in Nat
        /\ k - kept <= nbuffers /\ kept <= freeLeft
    BY <1>2, <1>3, Numbers
  <2>2. memLeft' \in Nat
    <3>1. memLeft' = memLeft \/ memLeft' = memLeft + (k - kept)
      BY <1>4
    <3>2. memLeft \in Nat
      BY Numbers
    <3> QED BY <2>1, <3>1, <3>2
  <2>3. freeLeft' \in Nat /\ nbuffers' \in Nat /\ first' \in Nat
    <3>1. freeLeft \in Nat /\ nbuffers \in Nat /\ first \in Nat
      BY Numbers
    <3> QED BY <3>1, <2>1, <1>4
  <2> QED BY <2>2, <2>3, <1>1, <1>5, <1>6 DEF Inv, TypeOK
<1>9. Accounted'
  <2>1. /\ Len(used) \in Nat /\ Len(free) \in Nat /\ nbuffers = Len(used) + Len(free)
        /\ memLeft \in Nat /\ nbuffers \in Nat /\ other \in Nat /\ freeLeft \in Nat
        /\ kept \in Nat /\ k \in Nat /\ freeLeft + Len(free) = MaxFree
    BY <1>2, <1>3, Numbers
  <2>2. nbuffers' = Len(used') + Len(free')
    BY <1>4, <1>5, <1>6, <2>1
  <2>3. freeLeft' + Len(free') = MaxFree
    BY <1>4, <1>6, <2>1
  <2>4. attached' => attached
    BY <1>1
  <2>5. ASSUME attached
        PROVE  memLeft' + nbuffers' + other' = memLeft + nbuffers + other
    <3>1. memLeft' = memLeft + (k - kept) /\ other' = other
      BY <2>5, <1>1, <1>4
    <3> QED BY <3>1, <1>4, <2>1
  <2> QED BY <2>2, <2>3, <2>4, <2>5, Numbers DEF Accounted
<1>10. NoAlias'
  <2>1. used \in Seq(Nodes) /\ free \in Seq(Nodes) /\ Apart(used, free)
    BY Numbers DEF Inv, NoAlias
  <2>2. k \in 0 .. Len(used) /\ kept \in 0 .. k
    BY <1>2, <1>3
  <2>3. Apart(DropFirst(used, k), PushEach(used, kept, free))
    BY <2>1, <2>2, ApartRelease
  <2> QED BY <2>3, <1>4 DEF NoAlias
<1>11. InOrder'
  <2>1. ASSUME NEW j \in DOMAIN used'
        PROVE  data'[used'[j]] = first' + j - 1
    <3>1. DOMAIN used = 1 .. Len(used) /\ Len(used) \in Nat /\ first \in Nat
      BY Numbers
    <3>2. j \in 1 .. Len(used) - k
      BY <1>7
    <3>3. j + k \in DOMAIN used /\ used'[j] = used[j + k] /\ j \in Nat
      BY <3>1, <3>2, <1>2, <1>5
    <3>4. data[used[j + k]] = first + (j + k) - 1
      BY <3>3 DEF Inv, InOrder
    <3>5. first + (j + k) - 1 = (first + k) + j - 1
      BY <3>1, <3>3, <1>2
    <3>6. data' = data /\ first' = first + k
      BY <1>1, <1>4
    <3> QED BY <3>3, <3>4, <3>5, <3>6
  <2> QED BY <2>1 DEF InOrder
<1>12. StreamsInside'
  <2> SUFFICES ASSUME NEW s \in Readers, stream[s].open
               PROVE  \E j \in DOMAIN used' : /\ used'[j] = stream[s].node
                                             /\ stream[s].at = first' + j - 1
    BY <1>1 DEF StreamsInside
  <2>1. PICK j \in DOMAIN used :
            used[j] = stream[s].node /\ stream[s].at = first + j - 1
    BY DEF Inv, StreamsInside
  <2>2. PICK m \in DOMAIN used :
            used[m] = stream[r].node /\ stream[r].at = first + m - 1
    BY <1>1 DEF Inv, StreamsInside
  <2>3. m = i
    <3>1. m \in 1 .. Len(used) /\ i \in 1 .. Len(used) /\ used[m] = used[i]
      BY <1>1, <2>2, Numbers
    <3> QED BY <3>1 DEF Inv, NoAlias, Apart
  <2>4. j >= i
    BY <1>1, <2>1, <2>2, <2>3, Numbers
  <2>5. j - k \in 1 .. Len(used) - k /\ (j - k) + k = j
    BY <1>2, <2>4, Numbers
  <2>6. used'[j - k] = used[j]
    BY <2>5, <1>5
  <2>7. stream[s].at = first' + (j - k) - 1
    <3>1. first \in Nat /\ k \in Nat /\ j \in Nat
      BY <1>2, Numbers
    <3>2. first + j - 1 = (first + k) + (j - k) - 1
      BY <3>1
    <3> QED BY <3>2, <1>4, <2>1
  <2> QED BY <2>1, <2>5, <2>6, <2>7, <1>7
<1> QED BY <1>8, <1>9, <1>10, <1>11, <1>12 DEF Inv

\* Everything is released (ngx_buf_queue_delete).
LEMMA DeleteInv == ASSUME Inv, Delete PROVE Inv'
<1>1. /\ used' = << >> /\ free' = << >> /\ nbuffers' = 0
      /\ freeLeft' = freeLeft + Len(free) /\ first' = first + Len(used)
      /\ memLeft' = IF attached THEN memLeft + nbuffers ELSE memLeft
      /\ UNCHANGED <<attached, other, data>>
    BY DEF Delete, next
<1>2. /\ used' \in Seq(Nodes) /\ free' \in Seq(Nodes)
      /\ Len(used') = 0 /\ Len(free') = 0 /\ DOMAIN used' = {}
    BY <1>1
<1>3. TypeOK'
  <2>1. stream' \in [Readers -> Streams]
    BY DEF Delete, Inv, TypeOK, Streams, Shut
  <2>2. freeLeft' \in Nat /\ nbuffers' \in Nat /\ first' \in Nat
    <3>1. /\ freeLeft \in Nat /\ Len(free) \in Nat
          /\ first \in Nat /\ Len(used) \in Nat
      BY Numbers
    <3> QED BY <1>1, <3>1
  <2>3. memLeft' \in Nat
    <3>1. memLeft \in Nat /\ nbuffers \in Nat
      BY Numbers
    <3>2. memLeft' = memLeft \/ memLeft' = memLeft + nbuffers
      BY <1>1
    <3> QED BY <3>1, <3>2
  <2> QED BY <1>1, <1>2, <2>1, <2>2, <2>3 DEF Inv, TypeOK
<1>4. Accounted'
  <2>1. nbuffers' = Len(used') + Len(free') /\ freeLeft' + Len(free') = MaxFree
    BY <1>1, <1>2, Numbers
  <2>2. attached' => attached
    BY <1>1
  <2>3. ASSUME attached
        PROVE  memLeft' + nbuffers' + other' = memLeft + nbuffers + other
    BY <2>3, <1>1, Numbers
  <2> QED BY <2>1, <2>2, <2>3, Numbers DEF Accounted
<1>5. NoAlias' /\ InOrder'
    BY <1>2 DEF NoAlias, Apart, InOrder
<1>6. StreamsInside'
    BY DEF Delete, Shut, StreamsInside
<1> QED BY <1>3, <1>4, <1>5, <1>6 DEF Inv

-----------------------------------------------------------------------------
(* The steps of the streams, and of the owner of the memory *)

\* A stream that is closed, or placed at a buffer of the queue under its number
\* (ngx_buf_queue_stream.c), keeps the invariant.
LEMMA SetStreamInv ==
    ASSUME Inv, NEW r \in Readers, NEW v \in Streams, SetStream(r, v),
           v.open => \E i \in DOMAIN used : used[i] = v.node /\ v.at = first + i - 1
    PROVE  Inv'
<1>1. /\ stream' = [stream EXCEPT ![r] = v]
      /\ UNCHANGED <<used, free, freeLeft, memLeft, nbuffers, attached, other,
                     data, first>>
    BY DEF SetStream
<1>2. stream \in [Readers -> Streams]
    BY DEF Inv, TypeOK
<1>3. TypeOK'
    BY <1>1, <1>2 DEF Inv, TypeOK
<1>4. Accounted' /\ NoAlias' /\ InOrder'
    BY <1>1 DEF Inv, Accounted, NoAlias, InOrder
<1>5. StreamsInside'
  <2> SUFFICES ASSUME NEW s \in Readers, stream'[s].open
               PROVE  \E i \in DOMAIN used : /\ used[i] = stream'[s].node
                                            /\ stream'[s].at = first + i - 1
    BY <1>1 DEF StreamsInside
  <2>1. CASE s = r
    BY <2>1, <1>1, <1>2
  <2>2. CASE s # r
    BY <2>2, <1>1, <1>2 DEF Inv, StreamsInside
  <2> QED BY <2>1, <2>2
<1> QED BY <1>3, <1>4, <1>5 DEF Inv

\* ngx_buf_queue_stream_init_head, _init_tail, the copy and the end of a stream.
LEMMA PlaceInv ==
    ASSUME Inv, NEW r \in Readers,
           OpenHead(r) \/ OpenTail(r) \/ Close(r) \/ \E s \in Readers : Copy(r, s)
    PROVE  Inv'
<1>1. ASSUME NEW i \in DOMAIN used
      PROVE  /\ At(i) \in Streams /\ At(i).open
             /\ At(i).node = used[i] /\ At(i).at = first + i - 1
    BY Numbers, SeqFacts DEF At, Streams
<1>2. used # << >> => 1 \in DOMAIN used /\ Len(used) \in DOMAIN used
    BY Numbers, EmptySeq
<1>3. stream \in [Readers -> Streams]
    BY DEF Inv, TypeOK
<1>4. CASE OpenHead(r)
    BY <1>1, <1>2, <1>4, SetStreamInv DEF OpenHead
<1>5. CASE OpenTail(r)
    BY <1>1, <1>2, <1>5, SetStreamInv DEF OpenTail
<1>6. CASE Close(r)
  <2>1. Shut(stream[r]) \in Streams /\ Shut(stream[r]).open = FALSE
    BY <1>3 DEF Shut, Streams
  <2> QED BY <2>1, <1>6, SetStreamInv DEF Close
<1>7. CASE \E s \in Readers : Copy(r, s)
  <2>1. PICK s \in Readers : stream[s].open /\ SetStream(r, stream[s])
    BY <1>7 DEF Copy
  <2>2. \E i \in DOMAIN used : used[i] = stream[s].node /\ stream[s].at = first + i - 1
    BY <2>1 DEF Inv, StreamsInside
  <2>3. stream[s] \in Streams
    BY <1>3
  <2> QED BY <2>1, <2>2, <2>3, SetStreamInv
<1> QED BY <1>4, <1>5, <1>6, <1>7

\* Reading, writing and skipping follow the links (ngx_buf_queue_stream_read).
LEMMA MoveInv == ASSUME Inv, NEW r \in Readers, Move(r) PROVE Inv'
<1>1. PICK i \in DOMAIN used, j \in DOMAIN used :
        /\ used[i] = stream[r].node /\ i < j /\ stream[r].open
        /\ SetStream(r, [open |-> TRUE, node |-> used[j],
                         at |-> stream[r].at + (j - i)])
    BY DEF Move
<1>2. PICK m \in DOMAIN used : used[m] = stream[r].node /\ stream[r].at = first + m - 1
    BY <1>1 DEF Inv, StreamsInside
<1>3. m = i
    BY <1>1, <1>2, Numbers DEF Inv, NoAlias, Apart
<1> DEFINE v == [open |-> TRUE, node |-> used[j], at |-> stream[r].at + (j - i)]
<1>4. v.at = first + j - 1 /\ v.at \in Nat
    BY <1>1, <1>2, <1>3, Numbers
<1>5. v \in Streams
    BY <1>1, <1>4, Numbers, SeqFacts DEF Streams
<1>6. \E l \in DOMAIN used : used[l] = v.node /\ v.at = first + l - 1
    BY <1>1, <1>4
<1> QED BY <1>1, <1>5, <1>6, SetStreamInv

\* Detach, and the other users of the memory limit.
LEMMA OwnerInv == ASSUME Inv, Detach \/ OtherTakes \/ OtherGives PROVE Inv'
<1>1. UNCHANGED <<used, free, freeLeft, nbuffers, data, first, stream>>
    BY DEF Detach, OtherTakes, OtherGives
<1>2. NoAlias' /\ InOrder' /\ StreamsInside'
    BY <1>1 DEF Inv, NoAlias, InOrder, StreamsInside
<1>3. memLeft' \in Nat /\ other' \in Nat /\ attached' \in BOOLEAN
  <2>1. memLeft \in Nat /\ other \in Nat /\ attached \in BOOLEAN
    BY DEF Inv, TypeOK
  <2>2. CASE Detach
    BY <2>1, <2>2 DEF Detach
  <2>3. CASE OtherTakes
    BY <2>1, <2>3 DEF OtherTakes
  <2>4. CASE OtherGives
    BY <2>1, <2>4 DEF OtherGives
  <2> QED BY <2>2, <2>3, <2>4
<1>4. TypeOK'
    BY <1>1, <1>3 DEF Inv, TypeOK
<1>5. Accounted'
  <2>1. attached' => memLeft' + nbuffers' + other' = MemLimit
    <3>1. CASE Detach
      BY <3>1 DEF Detach
    <3>2. CASE OtherTakes
      BY <3>2, <1>1, Numbers DEF OtherTakes
    <3>3. CASE OtherGives
      BY <3>3, <1>1, Numbers DEF OtherGives
    <3> QED BY <3>1, <3>2, <3>3
  <2> QED BY <2>1, <1>1 DEF Inv, Accounted
<1> QED BY <1>2, <1>4, <1>5 DEF Inv

-----------------------------------------------------------------------------
(* The theorems *)

\* The queue is created empty, with all its memory left (ngx_buf_queue_init).
LEMMA InitInv == Init => Inv
<1> SUFFICES ASSUME Init PROVE Inv
    OBVIOUS
<1>1. used \in Seq(Nodes) /\ free \in Seq(Nodes) /\ Len(used) = 0 /\ Len(free) = 0
    BY DEF Init
<1>2. stream \in [Readers -> Streams] /\ \A r \in Readers : ~stream[r].open
  <2> DEFINE Closed == {[open |-> FALSE, node |-> n, at |-> 0] : n \in Nodes}
  <2>1. ASSUME NEW v \in Closed
        PROVE  v \in Streams /\ v.open = FALSE
    <3>1. PICK n \in Nodes : v = [open |-> FALSE, node |-> n, at |-> 0]
      OBVIOUS
    <3>2. v.open = FALSE
      BY <3>1
    <3>3. v \in Streams
      BY <3>1 DEF Streams
    <3> QED BY <3>2, <3>3
  <2>2. stream \in [Readers -> Closed]
    BY DEF Init
  <2> HIDE DEF Closed
  <2> QED BY <2>1, <2>2
<1>3. TypeOK
    BY <1>1, <1>2, BufQueueAssumption DEF Init, TypeOK
<1>4. Accounted
    BY <1>1, BufQueueAssumption DEF Init, Accounted
<1>5. NoAlias /\ InOrder /\ StreamsInside
    BY <1>1, <1>2 DEF Init, NoAlias, Apart, InOrder, StreamsInside
<1> QED BY <1>3, <1>4, <1>5 DEF Inv

\* Every operation of the queue and of a stream keeps the invariant.
LEMMA NextInv == Inv /\ [Next]_vars => Inv'
<1> SUFFICES ASSUME Inv, [Next]_vars PROVE Inv'
    OBVIOUS
<1>1. CASE GetFree                          BY <1>1, GetFreeInv
<1>2. CASE GetNew                           BY <1>2, GetNewInv
<1>3. CASE Free                             BY <1>3, FreeInv
<1>4. CASE Delete                           BY <1>4, DeleteInv
<1>5. CASE Detach \/ OtherTakes \/ OtherGives   BY <1>5, OwnerInv
<1>6. ASSUME NEW r \in Readers, OpenHead(r) \/ OpenTail(r) \/ Close(r)
      PROVE  Inv'
    BY <1>6, PlaceInv
<1>7. ASSUME NEW r \in Readers, Move(r)
      PROVE  Inv'
    BY <1>7, MoveInv
<1>8. ASSUME NEW r \in Readers, NEW s \in Readers, Copy(r, s)
      PROVE  Inv'
    BY <1>8, PlaceInv
<1>9. CASE UNCHANGED vars
    BY <1>9 DEF vars, Inv, TypeOK, Accounted, NoAlias, InOrder, StreamsInside
<1> QED BY <1>1, <1>2, <1>3, <1>4, <1>5, <1>6, <1>7, <1>8, <1>9 DEF Next

\* The invariant holds in every behaviour of the queue.
THEOREM Invariance == Spec => []Inv
    BY InitInv, NextInv, PTL DEF Spec

\* Every variable has its type; in particular no counter gets below zero.
THEOREM TypeCorrect == Spec => []TypeOK
<1>1. Inv => TypeOK
    BY DEF Inv
<1> QED BY <1>1, Invariance, PTL

\* The counters agree with the lists, and no memory is lost
\* (ngx_buf_queue_validate, mem_left).
THEOREM MemoryAccounted == Spec => []Accounted
<1>1. Inv => Accounted
    BY DEF Inv
<1> QED BY <1>1, Invariance, PTL

\* No buffer is in use twice, nor free while it is in use.
THEOREM NoBufferAliased == Spec => []NoAlias
<1>1. Inv => NoAlias
    BY DEF Inv
<1> QED BY <1>1, Invariance, PTL

\* An open stream is at a buffer of the queue.
THEOREM StreamsStayInside == Spec => []StreamsInside
<1>1. Inv => StreamsInside
    BY DEF Inv
<1> QED BY <1>1, Invariance, PTL

\* A stream reads the block it stands for, never recycled memory.
THEOREM ReadersReadTheLog == Spec => []ReadsOwnBlock
<1>1. Inv => ReadsOwnBlock
    BY DEF Inv, InOrder, StreamsInside, ReadsOwnBlock
<1> QED BY <1>1, Invariance, PTL

-----------------------------------------------------------------------------
(* The refinement of LogWindow *)

\* The positions of the streams, and the numbers they are compared with.
Placed ==
    /\ content = position
    /\ Len(used) \in Nat /\ first \in Nat /\ DOMAIN used = 1 .. Len(used)
    /\ next = first + Len(used) /\ next \in Nat
    /\ \A r \in Readers :
        /\ ~stream[r].open => position[r] = -1
        /\ stream[r].open => /\ position[r] = stream[r].at
                             /\ stream[r].at \in first .. next - 1

\* What the abstract readers are at is what they get, and it is in the window.
LEMMA StreamsPlaced == Inv => Placed
<1> SUFFICES ASSUME Inv PROVE Placed
    OBVIOUS
<1>1. ASSUME NEW r \in Readers, stream[r].open
      PROVE  data[stream[r].node] = stream[r].at
    BY <1>1 DEF Inv, InOrder, StreamsInside
<1>2. content = position
    BY <1>1 DEF content, position
<1>3. /\ Len(used) \in Nat /\ first \in Nat /\ DOMAIN used = 1 .. Len(used)
      /\ next = first + Len(used) /\ next \in Nat
    BY Numbers DEF next
<1>4. ASSUME NEW r \in Readers, stream[r].open
      PROVE  stream[r].at \in first .. next - 1
  <2>1. \E i \in 1 .. Len(used) : stream[r].at = first + i - 1
    BY <1>3, <1>4 DEF Inv, StreamsInside
  <2> QED BY <1>3, <2>1
<1> QED BY <1>2, <1>3, <1>4 DEF Placed, position

\* The same of the next state.
LEMMA StreamsPlacedNext == Inv' => Placed'
BY StreamsPlaced, PTL

\* An empty queue is an empty window.
LEMMA WindowInit == Init => Window!Init
<1> SUFFICES ASSUME Init PROVE Window!Init
    OBVIOUS
<1>1. Inv
    BY InitInv
<1>2. \A r \in Readers : ~stream[r].open
    BY <1>1 DEF Init
<1>3. position = [r \in Readers |-> -1]
    BY <1>2 DEF position
<1>4. first = 0 /\ next = 0
    BY DEF Init, next
<1> QED BY <1>1, <1>3, <1>4, StreamsPlaced DEF Placed, Window!Init, Window!Closed

\* A step of a stream moves one abstract reader.
LEMMA WindowSeek ==
    ASSUME Inv, Inv', NEW r \in Readers, NEW v, SetStream(r, v)
    PROVE  Window!Next
<1>1. /\ stream' = [stream EXCEPT ![r] = v]
      /\ UNCHANGED <<used, first>>
    BY DEF SetStream
<1>2. stream \in [Readers -> Streams] /\ next' = next
    BY <1>1 DEF Inv, TypeOK, next
<1>3. \A s \in Readers : s # r => stream'[s] = stream[s]
    BY <1>1, <1>2
<1>4. position' = [position EXCEPT ![r] = position'[r]]
    BY <1>3 DEF position
<1>5. position'[r] \in {-1} \cup first .. next - 1
  <2>1. /\ ~stream'[r].open => position'[r] = -1
        /\ stream'[r].open => position'[r] = stream'[r].at
        /\ stream'[r].open => stream'[r].at \in first' .. next' - 1
    BY StreamsPlacedNext DEF Placed
  <2> QED BY <2>1, <1>1, <1>2
<1>6. content' = position'
    BY StreamsPlacedNext DEF Placed
<1>7. Window!Seek(r)
    BY <1>1, <1>2, <1>4, <1>5, <1>6 DEF Window!Seek, Window!Place, Window!Closed
<1> QED BY <1>7 DEF Window!Next

\* Every step of the queue is a step of the window, or leaves it alone.
LEMMA WindowNext == Inv /\ Inv' /\ [Next]_vars => [Window!Next]_Window!vars
<1> SUFFICES ASSUME Inv, Inv', [Next]_vars
             PROVE  Window!Next \/ UNCHANGED Window!vars
    OBVIOUS
<1>1. content = position /\ content' = position'
    BY StreamsPlaced, StreamsPlacedNext DEF Placed
<1>2. /\ Len(used) \in Nat /\ first \in Nat
      /\ Len(used') \in Nat /\ first' \in Nat
      /\ next = first + Len(used) /\ next' = first' + Len(used')
    BY StreamsPlaced, StreamsPlacedNext DEF Placed
<1>3. CASE GetFree \/ GetNew
  <2>1. UNCHANGED <<first, stream>> /\ \E n : used' = Append(used, n)
    BY <1>3 DEF GetFree, GetNew, Link
  <2>2. Len(used') = Len(used) + 1
    BY <2>1, Numbers
  <2>3. position' = position
    BY <2>1 DEF position
  <2>4. Window!Extend
    BY <1>1, <1>2, <2>1, <2>2, <2>3 DEF Window!Extend
  <2> QED BY <2>4 DEF Window!Next
<1>4. CASE Free
  <2>1. PICK i \in DOMAIN used : Release(i - 1) /\ stream' = stream
    BY <1>4 DEF Free
  <2>2. i \in 1 .. Len(used) /\ i - 1 \in 0 .. Len(used)
    BY Numbers
  <2>3. used' = DropFirst(used, i - 1) /\ first' = first + (i - 1)
    BY <2>1 DEF Release
  <2>4. Len(used') = Len(used) - (i - 1)
    BY <2>2, <2>3, Numbers, DropFirstProperties
  <2>5. next' = next /\ first' \in first .. next - 1
    <3>1. i \in Nat /\ 1 <= i /\ i <= Len(used)
      BY <1>2, <2>2
    <3>2. first' = first + (i - 1) /\ Len(used') = Len(used) - (i - 1)
      BY <2>3, <2>4
    <3>3. next' = next
      BY <1>2, <3>1, <3>2
    <3>4. first <= first' /\ first' <= next - 1
      <4>1. first \in Nat /\ Len(used) \in Nat /\ next = first + Len(used)
        BY <1>2
      <4>2. first <= first + (i - 1)
        BY <4>1, <3>1
      <4>3. first + (i - 1) <= first + Len(used) - 1
        BY <4>1, <3>1
      <4> QED BY <4>1, <4>2, <4>3, <3>2
    <3> QED BY <1>2, <3>3, <3>4
  <2>6. position' = position
    BY <2>1 DEF position
  <2>7. ASSUME NEW r \in Readers, position[r] # -1
        PROVE  position[r] >= first'
    <3>1. stream'[r].open /\ position'[r] = stream'[r].at
      BY <2>6, <2>7, StreamsPlacedNext DEF Placed
    <3>2. stream'[r].at \in first' .. next' - 1
      BY <3>1, StreamsPlacedNext DEF Placed
    <3> QED BY <1>2, <2>6, <3>1, <3>2
  <2>8. Window!Trim
    BY <1>1, <2>5, <2>6, <2>7 DEF Window!Trim, Window!Closed
  <2> QED BY <2>8 DEF Window!Next
<1>5. CASE Delete
  <2>1. first' = next /\ used' = << >>
    BY <1>5 DEF Delete
  <2>2. next' = next
    BY <1>2, <2>1
  <2>3. position' = [r \in Readers |-> -1]
    BY <1>5 DEF Delete, Shut, position
  <2>4. Window!Clear
    BY <1>1, <2>1, <2>2, <2>3 DEF Window!Clear, Window!Closed
  <2> QED BY <2>4 DEF Window!Next
<1>6. CASE Detach \/ OtherTakes \/ OtherGives
  <2>1. UNCHANGED <<used, data, first, stream>>
    BY <1>6 DEF Detach, OtherTakes, OtherGives
  <2> QED BY <2>1 DEF Window!vars, position, content, next
<1>7. ASSUME NEW r \in Readers,
             OpenHead(r) \/ OpenTail(r) \/ Move(r) \/ Close(r)
      PROVE  Window!Next
  <2>1. \E v : SetStream(r, v)
    BY <1>7 DEF OpenHead, OpenTail, Move, Close
  <2> QED BY <2>1, WindowSeek
<1>8. ASSUME NEW r \in Readers, NEW s \in Readers, Copy(r, s)
      PROVE  Window!Next
    BY <1>8, WindowSeek DEF Copy
<1>9. CASE UNCHANGED vars
    BY <1>9 DEF vars, Window!vars, position, content, next
<1> QED BY <1>3, <1>4, <1>5, <1>6, <1>7, <1>8, <1>9 DEF Next

\* The queue with its streams implements a window of a log, in which every
\* reader gets the block it is at (ngx_buf_queue, ngx_buf_queue_stream).
THEOREM ImplementsWindow == Spec => WindowSpec
<1>1. Init => Window!Init
    BY WindowInit
<1>2. Inv /\ Inv' /\ [Next]_vars => [Window!Next]_Window!vars
    BY WindowNext
<1> QED BY <1>1, <1>2, Invariance, PTL DEF Spec, WindowSpec, Window!Spec
=============================================================================
