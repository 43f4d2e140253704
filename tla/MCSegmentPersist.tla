--------------------------- MODULE MCSegmentPersist ---------------------------
(* The two segments of a bucket, the two of a delta and the four of the      *)
(* timeline are the smallest numbers with which buckets end in any order, an *)
(* index is followed by a delta and a segment leaves the timeline.           *)
EXTENDS SegmentPersist

ASSUME MCBounds ==
    /\ BucketSize < Window /\ Window < MaxSegments
    /\ MaxDelta < Window /\ ForceMemory < Window
=============================================================================
