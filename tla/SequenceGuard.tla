--------------------------- MODULE SequenceGuard ---------------------------
(***************************************************************************)
(* SequenceGuard of examples/capstone/decoder.hpp, on a line that may lose, *)
(* repeat and reorder messages.                                            *)
(*                                                                         *)
(* The exchange numbers its messages 1, 2, 3, ... and the wire carries the *)
(* number modulo 2^w.  Which messages arrive, in which order and how often *)
(* is arbitrary; delivered remembers it, for the properties.  MaxMessage   *)
(* bounds the numbers and MaxDeliveries the deliveries.                    *)
(***************************************************************************)
EXTENDS Integers, Sequences, FiniteSets

CONSTANTS SeqWord,     \* number of values of a sequence number, 2^w
          MaxMessage, MaxDeliveries

ASSUME GuardAssumption ==
  SeqWord \in Nat \ {0} /\ MaxMessage \in Nat /\ MaxDeliveries \in Nat

VARIABLES expected_, gaps_, duplicates_,
          verdict,     \* what accept returned last
          delivered    \* the numbers, unwrapped, of the messages delivered so far

guardVars == <<expected_, gaps_, duplicates_, verdict, delivered>>

GuardInit ==
  /\ expected_ = 0 /\ gaps_ = 0 /\ duplicates_ = 0 /\ verdict = TRUE
  /\ delivered = << >>

After(seq) == (seq + 1) % SeqWord

Start(seq) ==
  /\ expected_ = 0
  /\ expected_' = After(seq) /\ verdict' = TRUE
  /\ UNCHANGED <<gaps_, duplicates_>>

InOrder(seq) ==
  /\ expected_ # 0 /\ seq = expected_
  /\ expected_' = After(expected_) /\ verdict' = TRUE
  /\ UNCHANGED <<gaps_, duplicates_>>

RewindOnDuplicate(seq) ==
  /\ expected_ # 0 /\ seq < expected_
  /\ duplicates_' = duplicates_ + 1 /\ verdict' = FALSE
  /\ expected_' = After(seq)
  /\ UNCHANGED gaps_
Duplicate(seq) ==
  /\ expected_ # 0 /\ seq < expected_
  /\ duplicates_' = duplicates_ + 1 /\ verdict' = FALSE
  /\ UNCHANGED <<expected_, gaps_>>

GapUnmoved(seq) ==
  /\ expected_ # 0 /\ seq > expected_
  /\ gaps_' = gaps_ + (seq - expected_) /\ verdict' = FALSE
  /\ UNCHANGED <<expected_, duplicates_>>
Gap(seq) ==
  /\ expected_ # 0 /\ seq > expected_
  /\ gaps_' = gaps_ + (seq - expected_) /\ verdict' = FALSE
  /\ expected_' = After(seq)
  /\ UNCHANGED duplicates_

Accept(seq) == Start(seq) \/ InOrder(seq) \/ Duplicate(seq) \/ Gap(seq)

Deliver(n) ==
  /\ Len(delivered) < MaxDeliveries
  /\ delivered' = Append(delivered, n)
  /\ Accept(n % SeqWord)

GuardNext == \E n \in 1 .. MaxMessage : Deliver(n)

GuardSpec == GuardInit /\ [][GuardNext]_guardVars
------------------------------------------------------------------------------
(* Properties *)

GuardTypeOK ==
  /\ expected_ \in 0 .. SeqWord - 1 /\ verdict \in BOOLEAN
  /\ gaps_ \in Nat /\ duplicates_ \in Nat
  /\ delivered \in Seq(1 .. MaxMessage)

\* The deliveries that got ahead of all earlier ones.
Ahead == {i \in DOMAIN delivered : \A j \in 1 .. i - 1 : delivered[j] < delivered[i]}
Skipped ==
  {n \in 1 .. MaxMessage : /\ delivered # << >> /\ n > delivered[1]
                           /\ \E i \in Ahead : delivered[i] > n
                           /\ \A i \in Ahead : delivered[i] # n}

\* While sequence numbers do not wrap, gaps() counts every message that was not there
\* when a later one came - the lost and the late - and duplicates() every other
\* delivery, so a reordered message shows up once in each.
CountersExact ==
  /\ gaps_ = Cardinality(Skipped)
  /\ duplicates_ = Len(delivered) - Cardinality(Ahead)

\* accept returns true exactly for the successor of the greatest number delivered: it
\* "returns false when this message is a duplicate or leaves a gap".
Newest(n) == \A i \in DOMAIN delivered : delivered[i] < n
TellsIrregular ==
  [][\A n \in 1 .. MaxMessage :
       delivered # << >> /\ delivered' = Append(delivered, n)
         => (verdict' <=> Newest(n) /\ \E i \in DOMAIN delivered : delivered[i] = n - 1)]_guardVars
==============================================================================
