------------------------------ MODULE LogWindow ------------------------------
(***************************************************************************)
(* What a buffer queue promises its users: a log of numbered blocks of     *)
(* which a window is kept.  A block is appended at the end, blocks are     *)
(* dropped at the start, and every reader gets the very block its position *)
(* stands for, however many times the memory behind it was recycled.       *)
(***************************************************************************)
EXTENDS Integers, FiniteSets

CONSTANT Readers

VARIABLES
    first,  \* number of the first block that is kept
    next,   \* number of the next block to append
    at,     \* at[r]: the block reader r is at, or Closed
    got     \* got[r]: the block r gets when it reads there, or Closed

vars == <<first, next, at, got>>

Closed == -1

Init ==
    /\ first = 0 /\ next = 0
    /\ at = [r \in Readers |-> Closed]
    /\ got = at

Place(r, block) ==
    /\ at' = [at EXCEPT ![r] = block]
    /\ got' = at'

\* a block is appended
Extend ==
    /\ next' = next + 1
    /\ UNCHANGED <<first, at, got>>

\* a reader is placed on a block that is kept, or leaves
Seek(r) ==
    /\ \E block \in {Closed} \cup first .. next - 1 : Place(r, block)
    /\ UNCHANGED <<first, next>>

\* blocks are dropped, but none that a reader is at, nor the last one
Trim ==
    /\ first' \in first .. next - 1
    /\ \A r \in Readers : at[r] # Closed => at[r] >= first'
    /\ UNCHANGED <<next, at, got>>

\* everything is dropped
Clear ==
    /\ first' = next
    /\ at' = [r \in Readers |-> Closed]
    /\ got' = at'
    /\ UNCHANGED next

Next == Extend \/ Trim \/ Clear \/ \E r \in Readers : Seek(r)

Spec == Init /\ [][Next]_vars
=============================================================================
