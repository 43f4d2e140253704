----------------------------- MODULE MCDelivery -----------------------------
(* A stream of two groups of pictures, with media info again at the second *)
(* one: a connection can be resumed at a key frame and between two, and be *)
(* one frame or more than MaxSkip behind.                                  *)
EXTENDS Delivery

ASSUME MCDeliveryBounds ==
    /\ MaxSkip < MaxFrames - 1 /\ MaxFaults <= MaxConns
    /\ 0 \in Key /\ \E f \in Key : 0 < f /\ f < MaxFrames
=============================================================================
