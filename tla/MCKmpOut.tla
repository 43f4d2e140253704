------------------------------ MODULE MCKmpOut ------------------------------
EXTENDS KmpOut

CONSTANTS ua, ub

Each(value) == [u \in Upstreams |-> value]

\* one required upstream that acks, enough memory
Basic == [
    initial |-> <<ua>>, added |-> {},
    resume |-> Each("last_acked"), required |-> Each(TRUE),
    memLimit |-> 8, highMark |-> 0, lowMark |-> 0, maxFree |-> 1,
    maxRepublishes |-> 1, keepalive |-> TRUE, writers |-> {"chain"},
    sizes |-> {1, 2}, maxPackets |-> 4, maxFaults |-> 1]

\* two upstreams, short frames
Pair == [Basic EXCEPT !.initial = <<ua, ub>>, !.sizes = {1}, !.maxPackets = 3,
                      !.maxFaults = 2]

\* the second upstream is added later, neither is required
Added == [Basic EXCEPT !.added = {ub}, !.required = Each(FALSE),
                       !.sizes = {1}, !.maxPackets = 2, !.maxFaults = 2]

\* the receiver does not ack
Unacked(resume) == [Basic EXCEPT !.resume = Each(resume)]

\* memory runs out
Scarce == [Basic EXCEPT !.memLimit = 4, !.highMark = 2, !.lowMark = 3,
                        !.maxFree = 0, !.keepalive = FALSE, !.maxPackets = 6]

SafeConfs == {
    [Basic EXCEPT !.maxFaults = 2],
    Pair, Added, Scarce,
    Unacked("last_sent"),
    [Basic EXCEPT !.writers = {"marker"}],
    [Basic EXCEPT !.writers = {"abort"}],
    [Basic EXCEPT !.writers = {"unchecked", "chain"}, !.maxPackets = 3] }

LiveConfs == {[Basic EXCEPT !.sizes = {1}, !.maxFaults = 2]}

\* two upstreams, none of the receivers acks
TiedConfs == {[Pair EXCEPT !.resume = Each("last_sent"), !.maxFaults = 0]}

WrittenConfs == {[Unacked("last_written") EXCEPT !.maxFaults = 2]}

OptionalConfs == {[Pair EXCEPT !.required = Each(FALSE)]}

AbortConfs == {[Basic EXCEPT !.writers = {"abort"}, !.maxFaults = 0]}
=============================================================================
