--------------------------- MODULE FeedArbitrator ---------------------------
(***************************************************************************)
(* FeedArbitrator of content/36-binary-protocol-decoding.md: the exchange  *)
(* sends every message on two lines, each of which keeps the order and may *)
(* lose any of them; the handler takes a copy unless its number is below   *)
(* the one it expects.                                                     *)
(*                                                                         *)
(* Messages bounds the feed.  The handler reads the gap after every answer *)
(* of Gap, as gap_lo_ and gap_hi_ hold only the last one.                  *)
(***************************************************************************)
EXTENDS Integers, FiniteSets

CONSTANTS Line, Messages

ASSUME ArbitratorAssumption == Messages \in Nat

Numbers == 1 .. Messages

VARIABLES sent,              \* [Line -> how far the line has delivered or lost]
          expected, gap,     \* the arbitrator: the next number, and the last gap [lo, hi]
          action,            \* its last answer, and the message it was about
          taken,             \* [Numbers -> how often the message has been taken]
          reported           \* the gaps the handler has read

arbitrator == <<sent, expected, gap, action, taken, reported>>

ArbitratorInit ==
  /\ sent = [l \in Line |-> 0]
  /\ expected = 1 /\ gap = [lo |-> 0, hi |-> 0]
  /\ action = [is |-> "none", seq |-> 0]
  /\ taken = [n \in Numbers |-> 0] /\ reported = {}
------------------------------------------------------------------------------
Answer(a, seq) == action' = [is |-> a, seq |-> seq]
Take(seq) == taken' = [taken EXCEPT ![seq] = @ + 1]

Process(seq) ==
  /\ seq = expected
  /\ expected' = expected + 1
  /\ Answer("Process", seq) /\ Take(seq)
  /\ UNCHANGED <<gap, reported>>

LateToo(seq) == seq + 1 < expected
Late(seq) == seq < expected

Duplicate(seq) ==
  /\ Late(seq)
  /\ Answer("Duplicate", seq)
  /\ UNCHANGED <<expected, gap, taken, reported>>

AfterGap(seq) == seq + 1
GapUpTo(seq) == [lo |-> expected, hi |-> seq]

Gap(seq) ==
  /\ ~Late(seq) /\ seq # expected
  /\ gap' = GapUpTo(seq)
  /\ expected' = AfterGap(seq)
  /\ Answer("Gap", seq) /\ Take(seq)
  /\ reported' = reported \cup {gap'}

Classify(seq) == Process(seq) \/ Duplicate(seq) \/ Gap(seq)

Arrives(l) ==
  /\ sent[l] < Messages
  /\ sent' = [sent EXCEPT ![l] = @ + 1]
  /\ Classify(sent[l] + 1)

IsLost(l) ==
  /\ sent[l] < Messages
  /\ sent' = [sent EXCEPT ![l] = @ + 1]
  /\ UNCHANGED <<expected, gap, action, taken, reported>>

ArbitratorNext == \E l \in Line : Arrives(l) \/ IsLost(l)

ArbitratorSpec == ArbitratorInit /\ [][ArbitratorNext]_arbitrator
------------------------------------------------------------------------------
(* Properties *)

\* Whatever the lines lose and however far one runs ahead of the other, no message reaches
\* the book twice.
TakenOnce == \A n \in Numbers : taken[n] <= 1

\* "report the gap immediately and accurately": of the messages up to the newest, the
\* reported gaps hold exactly those that were not taken, each in one gap.
GapsExact ==
  \A n \in Numbers :
    Cardinality({g \in reported : g.lo <= n /\ n < g.hi})
      = IF n < expected /\ taken[n] = 0 THEN 1 ELSE 0

\* Every message up to the newest is taken once or lies in one reported gap, not both.
TakenOrReported == TakenOnce /\ GapsExact

\* What the comment at the answer promises: a message is a duplicate because "the other
\* line got here first".  Past a gap it may be the only copy there is: a message one line
\* lost, which the other line delivers late, is dropped as a duplicate of nothing.
DuplicateMeansTaken == action.is = "Duplicate" => taken[action.seq] > 0
=============================================================================
