----------------------------- MODULE TraceDemo -----------------------------
(***************************************************************************)
(* The tracing exercise of examples/capstone/trace_demo.cpp: the message   *)
(* loop with five trace points per message, and, when the feed has ended,  *)
(* the offline decoder that takes a snapshot of the ring and assembles one *)
(* journey per message.  Both run on one thread, so a snapshot is exact     *)
(* (TraceRing, UndisturbedExact).                                          *)
(*                                                                         *)
(* What decoding, the book update, the strategy and sending cost is free;  *)
(* spent remembers it.  Messages bounds the feed.                          *)
(***************************************************************************)
EXTENDS Integers, Sequences, FiniteSets, SequencesExt

CONSTANTS kRingSlots,   \* a power of two, so that a full ring cuts a message off
          Cost,         \* what a piece of work may take, in ticks
          Messages

ASSUME DemoAssumption == kRingSlots \in Nat \ {0} /\ Cost \subseteq Nat /\ Messages \in Nat

VARIABLES tsc,          \* the cycle counter; it starts above 0
          seq, doing,   \* the message in hand, and what is done next with it
          written,      \* every record put; the ring holds the last kRingSlots
          spent,        \* [1 .. Messages -> [Work -> Nat]]
          journeys

trace == <<tsc, seq, doing, written, spent, journeys>>

Work == {"decode", "book", "strat", "send"}
NoJourney == [seq |-> 0, decode |-> 0, book |-> 0, strat |-> 0, send |-> 0, total |-> 0]

TraceInit ==
  /\ tsc = 1 /\ seq = 1 /\ doing = "wire_rx" /\ written = << >>
  /\ spent = [s \in 1 .. Messages |-> [w \in Work |-> 0]]
  /\ journeys = << >>
------------------------------------------------------------------------------
(* The loop.  order_sent is put after the gate, whether or not there is an order. *)

\* The order in which one message is worked on and stamped.
Follows == [wire_rx |-> "decode", decode |-> "book", book |-> "decoded",
            decoded |-> "book_applied", book_applied |-> "strat", strat |-> "signal",
            signal |-> "send", send |-> "order_sent", order_sent |-> "wire_rx"]

Run ==
  /\ seq <= Messages /\ doing \in Work
  /\ \E cost \in Cost : /\ tsc' = tsc + cost
                        /\ spent' = [spent EXCEPT ![seq][doing] = cost]
  /\ doing' = Follows[doing]
  /\ UNCHANGED <<seq, written, journeys>>

Put ==
  /\ seq <= Messages /\ doing \notin Work
  /\ written' = Append(written, [tsc |-> tsc, ev |-> doing, a |-> seq])
  /\ doing' = Follows[doing]
  /\ seq' = IF doing = "order_sent" THEN seq + 1 ELSE seq
  /\ UNCHANGED <<tsc, spent, journeys>>
------------------------------------------------------------------------------
(* The offline decoder *)

Snapshot ==
  LET n == IF Len(written) < kRingSlots THEN Len(written) ELSE kRingSlots
  IN SubSeq(written, Len(written) - n + 1, Len(written))

Start == [cur |-> NoJourney, rx |-> 0, dec |-> 0, book |-> 0, sig |-> 0, done |-> << >>]

Journey(d, now) ==
  [d.cur EXCEPT !.decode = d.dec - d.rx, !.book = d.book - d.dec, !.strat = d.sig - d.book,
                !.send = now - d.sig, !.total = now - d.rx]

FinishedAnyway(d, r) ==
  IF d.dec >= d.rx THEN [d EXCEPT !.done = Append(@, Journey(d, r.tsc)), !.rx = 0]
  ELSE [d EXCEPT !.rx = 0]
\* The ring may begin in the middle of a message: that one has no wire_rx and is dropped.
Finished(d, r) ==
  IF d.rx # 0 /\ d.dec >= d.rx
  THEN [d EXCEPT !.done = Append(@, Journey(d, r.tsc)), !.rx = 0]
  ELSE [d EXCEPT !.rx = 0]

Decode(d, r) ==
  CASE r.ev = "wire_rx" -> [d EXCEPT !.cur = [NoJourney EXCEPT !.seq = r.a], !.rx = r.tsc]
    [] r.ev = "decoded" -> [d EXCEPT !.dec = r.tsc]
    [] r.ev = "book_applied" -> [d EXCEPT !.book = r.tsc]
    [] r.ev = "signal" -> [d EXCEPT !.sig = r.tsc]
    [] r.ev = "order_sent" -> Finished(d, r)

Assemble ==
  /\ seq > Messages /\ journeys = << >>
  /\ journeys' = FoldLeft(Decode, Start, Snapshot).done
  /\ UNCHANGED <<tsc, seq, doing, written, spent>>

TraceNext == Run \/ Put \/ Assemble

TraceSpec == TraceInit /\ [][TraceNext]_trace
------------------------------------------------------------------------------
(* Properties *)

\* The journeys are exactly the messages whose five records the ring still holds, in
\* order: a message cut off by the ring's lap is left out, and no other is.
WholeMessages == {s \in 1 .. Messages : 5 * (Messages - s + 1) <= kRingSlots}
JourneysComplete ==
  journeys # << >> =>
    /\ Len(journeys) = Cardinality(WholeMessages)
    /\ \A i \in DOMAIN journeys : journeys[i].seq = Messages - Len(journeys) + i

\* No journey mixes the stamps of two messages: its total is what its own message took, its
\* stages add up to it, and each is what it covers.  The stamp "decoded" follows the update
\* of the book, so the decode stage covers both and the book stage nothing.
TotalsAreOwn ==
  \A i \in DOMAIN journeys :
    LET j == journeys[i]
        cost == spent[j.seq]
    IN /\ j.total = cost.decode + cost.book + cost.strat + cost.send
       /\ j.decode = cost.decode + cost.book /\ j.book = 0
       /\ j.strat = cost.strat /\ j.send = cost.send

\* The reassembled journeys are those of the messages still whole in the ring, each with
\* its own times.
JourneysTrue == JourneysComplete /\ TotalsAreOwn

\* "which stage was slow on the worst messages": the time a message spent updating the
\* book is found in its book stage.
BookStageIsBook ==
  \A i \in DOMAIN journeys : journeys[i].book = spent[journeys[i].seq].book
==============================================================================
