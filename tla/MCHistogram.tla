---------------------------- MODULE MCHistogram ----------------------------
(***************************************************************************)
(* The histogram alone, for what its report says of very few samples.      *)
(* MaxSamples bounds how many are recorded.                                *)
(***************************************************************************)
EXTENDS Histogram

CONSTANT MaxSamples

\* The median.
MCPercents == {[num |-> 1, den |-> 2]}

MCNext == total_ < MaxSamples /\ \E ns \in 0 .. MaxNs : Record(ns)

MCSpec == HistogramInit /\ [][MCNext]_histogram
=============================================================================
