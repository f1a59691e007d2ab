------------------------------ MODULE MCLessons ------------------------------
(***************************************************************************)
(* The listings of the lessons.  They share no state, so a behaviour runs  *)
(* one of them; what the others would choose at the start is then fixed.   *)
(***************************************************************************)
EXTENDS Seqlock, FeedArbitrator, RateLimiter, FixedPoint, IdMap, LadderBook

VARIABLE used

others == <<seqlock, arbitrator, limiter, calls, map, ladder>>
mc == <<others, used>>

\* Every hash function, up to the names of the ids; clusters may wrap past the last slot.
MCHash ==
  IF used = "id map" THEN \A j, k \in Key : j <= k => home[j] <= home[k]
  ELSE \A k \in Key : home[k] = 0

\* Below the window 0 .. 2, in it, above it, and a word of 8 ticks away from its highest price.
MCPrice == {-1, 0, 3, 10}

MCInit ==
  /\ used \in {"seqlock", "arbitrator", "limiter", "arithmetic", "id map", "ladder"}
  /\ SeqlockInit /\ ArbitratorInit /\ LimiterInit /\ CallInit /\ MapInit /\ LadderInit
  /\ used # "arithmetic" => call = "divide" /\ y = 1
  /\ MCHash

RunReader == used = "seqlock" /\ Reader /\ UNCHANGED <<arbitrator, limiter, calls, map, ladder, used>>
RunWriter == used = "seqlock" /\ Writer /\ UNCHANGED <<arbitrator, limiter, calls, map, ladder, used>>
RunArbitrator ==
  used = "arbitrator" /\ ArbitratorNext /\ UNCHANGED <<seqlock, limiter, calls, map, ladder, used>>
RunLimiter ==
  used = "limiter" /\ LimiterNext /\ UNCHANGED <<seqlock, arbitrator, calls, map, ladder, used>>
RunCall ==
  used = "arithmetic" /\ CallNext /\ UNCHANGED <<seqlock, arbitrator, limiter, map, ladder, used>>
RunMap ==
  used = "id map" /\ MapNext /\ UNCHANGED <<seqlock, arbitrator, limiter, calls, ladder, used>>
RunLadder ==
  used = "ladder" /\ LadderNext /\ UNCHANGED <<seqlock, arbitrator, limiter, calls, map, used>>

MCNext ==
  RunReader \/ RunWriter \/ RunArbitrator \/ RunLimiter \/ RunCall \/ RunMap \/ RunLadder

\* The fairness of SeqlockSpec.
RunSeesLatest == RunReader /\ SeesLatest
MCSpec == MCInit /\ [][MCNext]_mc /\ WF_mc(RunReader) /\ SF_mc(RunSeesLatest)
==============================================================================
