------------------------------- MODULE BufQueue -------------------------------
(***************************************************************************)
(* The queue of fixed size buffers under every log of the system           *)
(* (nginx-common ngx_buf_queue, ngx_buf_queue_stream): a list of used      *)
(* buffers, to which new ones are added at the tail and from which the     *)
(* ones that nobody reads are removed at the head, a bounded list of free  *)
(* buffers, and a count of the memory left that several queues share.      *)
(*                                                                         *)
(* A buffer is a member of Nodes, its address.  Addresses come back: a     *)
(* buffer that was freed is handed out again, by the free list or by the   *)
(* allocator.  What is in a buffer is the number of the block of the log   *)
(* it was last filled with.  A stream keeps the buffer it is at; the offset*)
(* in the buffer is left out, the code keeps it inside the buffer.         *)
(***************************************************************************)
EXTENDS Integers, Sequences, FiniteSets

CONSTANTS
    Nodes,          \* addresses the allocator may return
    Readers,        \* the streams
    MemLimit,       \* buffers that fit in the memory limit
    MaxFree,        \* max_free_buffers
    MaxBlocks       \* bound: blocks appended

ASSUME BufQueueAssumption ==
    /\ MemLimit \in Nat /\ MaxFree \in Nat /\ MaxBlocks \in Nat
    /\ MemLimit > 0

VARIABLES
    used,       \* used_head .. used_tail
    free,       \* free, the list of free buffers
    freeLeft,   \* free_left
    memLeft,    \* *mem_left, in buffers
    nbuffers,   \* nbuffers
    attached,   \* mem_left # NULL
    other,      \* buffers of the shared memory other queues hold
    data,       \* data[n]: the block buffer n was last filled with
    first,      \* blocks removed so far
    stream      \* stream[r]: the ngx_buf_queue_stream_t of r

vars == <<used, free, freeLeft, memLeft, nbuffers, attached, other, data,
          first, stream>>

\* `at` is the number of the block the stream stands for
Streams == [open : BOOLEAN, node : Nodes, at : Nat]

next == first + Len(used)

\* the first k elements of s are pushed on the list f one by one
PushEach(s, k, f) ==
    [i \in 1 .. k + Len(f) |-> IF i <= k THEN s[k + 1 - i] ELSE f[i - k]]

\* s without its first k elements
DropFirst(s, k) == [i \in 1 .. Len(s) - k |-> s[i + k]]

Smaller(a, b) == IF a <= b THEN a ELSE b

-----------------------------------------------------------------------------

Init ==
    /\ used = << >> /\ free = << >>
    /\ freeLeft = MaxFree
    /\ memLeft = MemLimit
    /\ nbuffers = 0 /\ attached = TRUE /\ other = 0
    /\ data = [n \in Nodes |-> 0]
    /\ first = 0
    /\ stream \in [Readers -> {[open |-> FALSE, node |-> n, at |-> 0]
                                    : n \in Nodes}]

\* the buffer is linked at the tail, and filled
Link(n) ==
    /\ used' = Append(used, n)
    /\ data' = [data EXCEPT ![n] = next]
    /\ UNCHANGED <<attached, other, first, stream>>

\* mutant: the buffer is left in the free list
GetFreeKeeps ==
    /\ attached /\ next < MaxBlocks
    /\ free # << >>
    /\ Link(free[1])
    /\ UNCHANGED <<free, freeLeft, memLeft, nbuffers>>

\* ngx_buf_queue_get with a free buffer.  No buffer is taken after detach.
GetFree ==
    /\ attached /\ next < MaxBlocks
    /\ free # << >>
    /\ Link(free[1])
    /\ free' = DropFirst(free, 1)
    /\ freeLeft' = freeLeft + 1
    /\ UNCHANGED <<memLeft, nbuffers>>

\* ngx_buf_queue_get, from the allocator
GetNew ==
    /\ attached /\ next < MaxBlocks
    /\ free = << >> /\ memLeft >= 1
    /\ \E n \in Nodes :
        /\ \A i \in DOMAIN used : used[i] # n
        /\ Link(n)
    /\ memLeft' = memLeft - 1
    /\ nbuffers' = nbuffers + 1
    /\ UNCHANGED <<free, freeLeft>>

\* mutant: the free list is not bounded
ReleaseUnbounded(k) ==
    /\ used' = DropFirst(used, k)
    /\ free' = PushEach(used, k, free)
    /\ freeLeft' = freeLeft - k
    /\ first' = first + k
    /\ UNCHANGED <<memLeft, nbuffers>>

\* mutant: the memory is not given back
ReleaseLost(k) ==
    LET kept == Smaller(k, freeLeft)
    IN  /\ used' = DropFirst(used, k)
        /\ free' = PushEach(used, kept, free)
        /\ freeLeft' = freeLeft - kept
        /\ nbuffers' = nbuffers - (k - kept)
        /\ first' = first + k
        /\ UNCHANGED memLeft

\* the list is cut after k buffers; those that fit go to the free list, the
\* others to the allocator
Release(k) ==
    LET kept == Smaller(k, freeLeft)
    IN  /\ used' = DropFirst(used, k)
        /\ free' = PushEach(used, kept, free)
        /\ freeLeft' = freeLeft - kept
        /\ memLeft' = IF attached THEN memLeft + (k - kept) ELSE memLeft
        /\ nbuffers' = nbuffers - (k - kept)
        /\ first' = first + k

\* mutant: the buffer of the limit is released as well
FreeThrough ==
    /\ \E r \in Readers :
        /\ stream[r].open
        /\ \A s \in Readers : stream[s].open => stream[r].at <= stream[s].at
        /\ \E i \in DOMAIN used : used[i] = stream[r].node /\ Release(i)
    /\ UNCHANGED <<attached, other, data, stream>>

\* mutant: the limit is in the buffer of any stream
FreeAny ==
    /\ \E r \in Readers :
        /\ stream[r].open
        /\ \E i \in DOMAIN used : used[i] = stream[r].node /\ Release(i - 1)
    /\ UNCHANGED <<attached, other, data, stream>>

\* ngx_buf_queue_free: the limit is in the buffer of the stream that is behind
\* all others (comment in ngx_buf_queue_stream.c)
Free ==
    /\ \E r \in Readers :
        /\ stream[r].open
        /\ \A s \in Readers : stream[s].open => stream[r].at <= stream[s].at
        /\ \E i \in DOMAIN used :
            /\ used[i] = stream[r].node
            /\ \A j \in 1 .. i - 1 : used[j] # stream[r].node
            /\ Release(i - 1)
    /\ UNCHANGED <<attached, other, data, stream>>

\* a stream that is no longer used
Shut(s) == [open |-> FALSE, node |-> s.node, at |-> s.at]

\* ngx_buf_queue_delete: the users of the queue are gone
Delete ==
    /\ used' = << >> /\ free' = << >>
    /\ freeLeft' = freeLeft + Len(free)
    /\ memLeft' = IF attached THEN memLeft + nbuffers ELSE memLeft
    /\ nbuffers' = 0
    /\ first' = next
    /\ stream' = [r \in Readers |-> Shut(stream[r])]
    /\ UNCHANGED <<attached, other, data>>

\* ngx_buf_queue_detach: the owner of the memory count goes away
Detach ==
    /\ attached
    /\ attached' = FALSE
    /\ UNCHANGED <<used, free, freeLeft, memLeft, nbuffers, other, data, first,
                   stream>>

\* other users of the same memory limit
OtherTakes ==
    /\ attached /\ memLeft >= 1
    /\ memLeft' = memLeft - 1
    /\ other' = other + 1
    /\ UNCHANGED <<used, free, freeLeft, nbuffers, attached, data, first, stream>>

OtherGives ==
    /\ attached /\ other > 0
    /\ memLeft' = memLeft + 1
    /\ other' = other - 1
    /\ UNCHANGED <<used, free, freeLeft, nbuffers, attached, data, first, stream>>

-----------------------------------------------------------------------------
(* Streams *)

SetStream(r, value) ==
    /\ stream' = [stream EXCEPT ![r] = value]
    /\ UNCHANGED <<used, free, freeLeft, memLeft, nbuffers, attached, other,
                   data, first>>

At(i) == [open |-> TRUE, node |-> used[i], at |-> first + i - 1]

\* ngx_buf_queue_stream_init_head
OpenHead(r) == used # << >> /\ SetStream(r, At(1))

\* ngx_buf_queue_stream_init_tail
OpenTail(r) == used # << >> /\ SetStream(r, At(Len(used)))

\* the structure is copied
Copy(r, s) == stream[s].open /\ SetStream(r, stream[s])

\* mutant: the stream stays at the buffer while its position advances
MoveStuck(r) ==
    /\ stream[r].open
    /\ \E i, j \in DOMAIN used :
        /\ used[i] = stream[r].node
        /\ i < j
        /\ SetStream(r, [open |-> TRUE, node |-> used[i],
                         at |-> stream[r].at + (j - i)])

\* ngx_buf_queue_stream_read, _write, _skip and _md5: the links are followed
\* from the buffer the stream is at.  A read beyond the last buffer fails, and
\* leaves the stream at the last one with an offset that belongs to another: the
\* users give the stream up then, so that only its buffer counts.
Move(r) ==
    /\ stream[r].open
    /\ \E i, j \in DOMAIN used :
        /\ used[i] = stream[r].node
        /\ i < j
        /\ SetStream(r, [open |-> TRUE, node |-> used[j],
                         at |-> stream[r].at + (j - i)])

Close(r) == stream[r].open /\ SetStream(r, Shut(stream[r]))

Next ==
    \/ GetFree \/ GetNew \/ Free \/ Delete \/ Detach
    \/ OtherTakes \/ OtherGives
    \/ \E r \in Readers :
        OpenHead(r) \/ OpenTail(r) \/ Move(r) \/ Close(r)
    \/ \E r, s \in Readers : Copy(r, s)

Spec == Init /\ [][Next]_vars

-----------------------------------------------------------------------------
(* Properties *)

TypeOK ==
    /\ used \in Seq(Nodes) /\ free \in Seq(Nodes)
    /\ freeLeft \in Nat /\ memLeft \in Nat /\ nbuffers \in Nat
    /\ attached \in BOOLEAN /\ other \in Nat
    /\ data \in [Nodes -> Nat] /\ first \in Nat
    /\ stream \in [Readers -> Streams]

\* The two counters agree with the lists (ngx_buf_queue_validate), and no
\* buffer is lost or counted twice in the shared memory.
Accounted ==
    /\ nbuffers = Len(used) + Len(free)
    /\ freeLeft + Len(free) = MaxFree
    /\ attached => memLeft + nbuffers + other = MemLimit

\* no buffer is in the lists u and f twice
Apart(u, f) ==
    /\ \A i, j \in 1 .. Len(u) : u[i] = u[j] => i = j
    /\ \A i, j \in 1 .. Len(f) : f[i] = f[j] => i = j
    /\ \A i \in 1 .. Len(u), j \in 1 .. Len(f) : u[i] # f[j]

\* A buffer is at one place of one list: neither list has a cycle and none is
\* handed out while it is in use.
NoAlias == Apart(used, free)

\* The buffers in use hold the blocks of the log, in order.
InOrder == \A i \in DOMAIN used : data[used[i]] = first + i - 1

\* An open stream is at a buffer that is in the queue, and it is the buffer of
\* the block it stands for: what it reads is never recycled memory.
StreamsInside ==
    \A r \in Readers : stream[r].open =>
        \E i \in DOMAIN used : /\ used[i] = stream[r].node
                               /\ stream[r].at = first + i - 1

\* The block at the position of a stream is the block that is read there.
ReadsOwnBlock ==
    \A r \in Readers : stream[r].open => data[stream[r].node] = stream[r].at

\* The queue and its streams implement a window of a log.
position == [r \in Readers |-> IF stream[r].open THEN stream[r].at ELSE -1]
content == [r \in Readers |->
                IF stream[r].open THEN data[stream[r].node] ELSE -1]

Window == INSTANCE LogWindow WITH at <- position, got <- content

WindowSpec == Window!Spec
=============================================================================
