------------------------------- MODULE MCSDO -------------------------------
(* Instances of SDO for TLC; the other constants are in the MCSDO*.cfg.    *)
EXTENDS SDO

(* Objects of one full segment, and of one byte more than a segment.       *)
OneSegment == [s \in Sdos |-> SegBytes]
TwoSegments == [s \in Sdos |-> SegBytes + 1]
=============================================================================
