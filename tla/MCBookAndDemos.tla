--------------------------- MODULE MCBookAndDemos ---------------------------
(***************************************************************************)
(* The order book, and the three measuring exercises: the trace ring, the  *)
(* tracing exercise and the queue's ping-pong and stream.  They share no   *)
(* state, so a behaviour runs one of them.                                 *)
(***************************************************************************)
EXTENDS MCBook, TraceRing, TraceDemo, SpscDemo

VARIABLE used

MCPercents == {[num |-> 0, den |-> 1], [num |-> 1, den |-> 2], [num |-> 3, den |-> 4],
               [num |-> 4, den |-> 5], [num |-> 1, den |-> 1]}

book == <<vars, shown>>

AllInit ==
  /\ used \in {"book", "ring", "trace", "queues"}
  /\ MCInit /\ RingInit /\ TraceInit /\ DemoInit

RunBook == used = "book" /\ MCNext /\ UNCHANGED <<ring, trace, demo, used>>
RunRing == used = "ring" /\ RingNext /\ UNCHANGED <<book, trace, demo, used>>
RunTrace == used = "trace" /\ TraceNext /\ UNCHANGED <<book, ring, demo, used>>
RunMain == used = "queues" /\ Main /\ UNCHANGED <<book, ring, trace, used>>
RunConsumer == used = "queues" /\ Consumer /\ UNCHANGED <<book, ring, trace, used>>

AllNext == RunBook \/ RunRing \/ RunTrace \/ RunMain \/ RunConsumer

all == <<book, ring, trace, demo, used>>

\* The fairness of DemoSpec: both threads of the queue's exercise are scheduled.
AllSpec == AllInit /\ [][AllNext]_all /\ WF_all(RunMain) /\ WF_all(RunConsumer)
==============================================================================
