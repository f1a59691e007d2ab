----------------------------- MODULE Histogram -----------------------------
(***************************************************************************)
(* Histogram of examples/bench.hpp: samples counted in fixed buckets, the  *)
(* last of which saturates, and percentiles read off the counts.           *)
(*                                                                         *)
(* samples is what was recorded, value by value, for the reference         *)
(* definitions.  MaxNs bounds a sample.                                    *)
(*                                                                         *)
(* percentile multiplies total_ by a double.  A probability is a fraction  *)
(* num / den here; the double that stands for it may lie below it, so that  *)
(* an exact product may be truncated to one less.                          *)
(***************************************************************************)
EXTENDS Integers, FiniteSets, FiniteSetsExt

CONSTANTS Buckets, NsPerBucket, MaxNs,
          Percents       \* [num, den : Nat], in 0 .. 1

ASSUME HistogramAssumption ==
  /\ Buckets \in Nat \ {0} /\ NsPerBucket \in Nat \ {0}
  /\ MaxNs \in Nat
  /\ \A p \in Percents : p.num \in Nat /\ p.den \in Nat \ {0} /\ p.num <= p.den

VARIABLES counts_, total_, max_, overflow_, samples

histogram == <<counts_, total_, max_, overflow_, samples>>

HistogramInit ==
  /\ counts_ = [b \in 0 .. Buckets - 1 |-> 0]
  /\ total_ = 0 /\ max_ = 0 /\ overflow_ = 0
  /\ samples = [ns \in 0 .. MaxNs |-> 0]

Bucket(ns) ==
  LET raw == ns \div NsPerBucket IN IF raw >= Buckets THEN Buckets - 1 ELSE raw

Saturates(ns) == ns \div NsPerBucket >= Buckets

Record(ns) ==
  /\ overflow_' = IF Saturates(ns) THEN overflow_ + 1 ELSE overflow_
  /\ counts_' = [counts_ EXCEPT ![Bucket(ns)] = @ + 1]
  /\ total_' = total_ + 1
  /\ max_' = IF ns > max_ THEN ns ELSE max_
  /\ samples' = [samples EXCEPT ![ns] = @ + 1]
------------------------------------------------------------------------------
(* percentile *)

Targets(p) ==
  LET product == total_ * p.num
      exact == product \div p.den
      rounded == p.num < p.den /\ p.den # 2     \* as a double; 0.5 and 1.0 are exact
  IN IF rounded /\ product % p.den = 0 /\ exact > 0 THEN {exact, exact - 1} ELSE {exact}

SeenBelow(b) == MapThenSumSet(LAMBDA i : counts_[i], 0 .. b - 1)
Seen(b) == MapThenSumSet(LAMBDA i : counts_[i], 0 .. b)

Percentile(target) ==
  LET reached == {b \in 0 .. Buckets - 1 : Seen(b) >= target}
  IN IF reached = {} THEN max_ ELSE Min(reached) * NsPerBucket
------------------------------------------------------------------------------
(* Properties *)

\* The k-th smallest sample.
AtMost(ns) == MapThenSumSet(LAMBDA v : samples[v], 0 .. ns)
KthSmallest(k) == Min({ns \in 0 .. MaxNs : AtMost(ns) >= k})

\* A percentile is the lower edge of the bucket that holds the sample of its rank; a
\* sample beyond the last bucket makes it a floor, not a measurement.  No sample has rank
\* 0, the rank of a percentile of too few samples: of that one see ZeroMeansUnderOneBucket.
PercentileIsFloorOfSample ==
  \A p \in Percents : \A target \in Targets(p) :
    LET reported == Percentile(target)
        sample == KthSmallest(target)
    IN target > 0 =>
         /\ reported <= sample
         /\ sample < reported + NsPerBucket \/ sample >= Buckets * NsPerBucket

\* "samples exceeded ... and saturated the top bucket": the warning counts exactly the
\* samples that no percentile measures, and is silent exactly when there are none.
OverflowVisible ==
  overflow_ = total_ - (IF Buckets * NsPerBucket > MaxNs THEN total_
                        ELSE AtMost(Buckets * NsPerBucket - 1))

\* Of every sample the reader learns its bucket or that it was beyond the last one.
PercentilesTrue == PercentileIsFloorOfSample /\ OverflowVisible

\* What the comment of report promises: a percentile of 0 means "under one bucket", so that
\* a sample is under one bucket.  Rank 0 breaks it: the first bucket reaches it empty.
ZeroMeansUnderOneBucket ==
  total_ > 0 =>
    \A p \in Percents : \A target \in Targets(p) :
      Percentile(target) = 0 => \E ns \in 0 .. MaxNs : samples[ns] > 0 /\ ns < NsPerBucket
==============================================================================
