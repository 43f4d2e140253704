---------------------------- MODULE FrameDelivery ----------------------------
(***************************************************************************)
(* What the two ends of a KMP connection promise together.  A publisher    *)
(* makes frames, numbered in order, and holds those it may have to send    *)
(* again; the receiver takes frames into segments.  Frames are taken in    *)
(* order and once, and the publisher forgets a frame only when it is in a  *)
(* segment or was given up on purpose, by a receiver that cannot use it or *)
(* by a publisher that runs out of memory.  A crash of the receiver loses  *)
(* segments, but none of which a frame was forgotten.                      *)
(*                                                                         *)
(* The receiver may find that the publisher is too far behind to be the one*)
(* it knew.  It then takes what it gets for a new stream.                  *)
(***************************************************************************)
EXTENDS Integers

VARIABLES
    made,       \* frames made: 0 .. made - 1
    held,       \* first frame the publisher may send again
    stored,     \* frames in segments
    given,      \* frames given up
    again       \* the stream was taken for a new one

vars == <<made, held, stored, given, again>>

Init ==
    /\ made = 0 /\ held = 0
    /\ stored = {} /\ given = {}
    /\ again = FALSE

Publish ==
    /\ made' = made + 1
    /\ UNCHANGED <<held, stored, given, again>>

\* a segment: new frames, all after those that were taken
Take ==
    /\ \E F \in SUBSET (0 .. made - 1) :
        /\ again \/ \A f \in F, g \in stored : f > g
        /\ stored' = stored \cup F
    /\ UNCHANGED <<made, held, given, again>>

GiveUp ==
    /\ \E F \in SUBSET (0 .. made - 1) : given' = given \cup F
    /\ UNCHANGED <<made, held, stored, again>>

\* the publisher is told that it need not send frames again, and forgets them
Forget ==
    /\ \E n \in held .. made :
        /\ 0 .. n - 1 \subseteq stored \cup given
        /\ held' = n
    /\ UNCHANGED <<made, stored, given, again>>

\* the publisher has no memory left for its first frame
ForgetUntold ==
    /\ held < made
    /\ held' = held + 1
    /\ given' = given \cup {held}
    /\ UNCHANGED <<made, stored, again>>

\* a crash
Lose ==
    /\ stored' \subseteq stored
    /\ \A f \in stored \ stored' : f >= held \/ f \in given
    /\ UNCHANGED <<made, held, given, again>>

StartAgain ==
    /\ again' = TRUE
    /\ UNCHANGED <<made, held, stored, given>>

Next ==
    \/ Publish \/ Take \/ GiveUp \/ Forget \/ ForgetUntold \/ Lose
    \/ StartAgain

Spec == Init /\ [][Next]_vars
=============================================================================
