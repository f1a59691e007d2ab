---------------------------- MODULE TickToTrade ----------------------------
(***************************************************************************)
(* The capstone's loop end to end: the synthetic feed                      *)
(* (examples/capstone/feed.hpp) and run of main.cpp, which for each message *)
(* asks the sequence guard, updates the book, and lets the strategy and    *)
(* the risk gate act on it.  The parts are the modules SequenceGuard,      *)
(* AbstractBook (what Book is shown to implement) and Quoting.             *)
(*                                                                         *)
(* The program generates the whole feed before it handles the first        *)
(* message; the generator never looks at the program, so here each message *)
(* is generated when it is handled.  Its random choices are free.  Prices  *)
(* are in ticks from the bottom of the ladder, and MaxIds bounds the orders *)
(* the feed adds.                                                          *)
(***************************************************************************)
EXTENDS Integers, FiniteSets

CONSTANTS MinSpread, JoinOffset, OrderQty, QuoteMaxPosition,
          MaxOrderQty, MaxPosition, BandTicks, MaxOrdersPerSec, FillPeriod,
          SeqWord, Levels,
          Offsets,        \* distances of an added order from the reference price mid_
          AddQty,         \* quantities of an added order
          ExecQty,        \* quantity of every execution
          MaxIds

ASSUME FeedAssumption ==
  /\ MinSpread \in Nat /\ MinSpread >= 2 /\ JoinOffset \in Int
  /\ OrderQty \in Nat /\ MaxOrdersPerSec \in Nat /\ FillPeriod \in Nat \ {0}
  /\ SeqWord \in Nat /\ SeqWord >= 2 /\ Levels \in Nat
  /\ Offsets \subseteq 1 .. Levels \div 2 - 1
  /\ AddQty \subseteq Nat \ {0} /\ ExecQty \in Nat \ {0} /\ MaxIds \in Nat

VARIABLES live_, next_id_, seq_,                          \* FeedGenerator
          expected_, gaps_, duplicates_, verdict,         \* SequenceGuard
          resting,                                        \* Book
          measure, position_, last_px_, last_side_, killed_, window_start_ns_, in_window_,
          quote_number, clock, out, accepted              \* Quoting

feed == <<live_, next_id_, seq_>>
guard == <<expected_, gaps_, duplicates_, verdict>>
quoting == <<measure, position_, last_px_, last_side_, killed_, window_start_ns_, in_window_,
             quote_number, clock, out, accepted>>
vars == <<feed, guard, resting, quoting>>

G == INSTANCE SequenceGuard WITH delivered <- << >>, MaxMessage <- 0, MaxDeliveries <- 0
B == INSTANCE AbstractBook WITH OrderIds <- 1 .. MaxIds, MaxOrders <- MaxIds
Q == INSTANCE Quoting WITH Touches <- {}, Second <- 1, MaxTime <- 0

Mid == Levels \div 2

Init ==
  /\ live_ = {} /\ next_id_ = 0 /\ seq_ = 1
  /\ measure = FALSE                        \* no latency is measured: the clock reads 0
  /\ G!GuardInit /\ B!Init /\ Q!Init
------------------------------------------------------------------------------
(* run: what it does with every message *)

Numbered == G!Accept(seq_) /\ seq_' = (seq_ + 1) % SeqWord

\* on_reduce
Reduced(id, n) ==
  IF id \notin DOMAIN resting THEN resting
  ELSE IF n = 0 \/ n >= resting[id].qty THEN B!Without(resting, id)
  ELSE [resting EXCEPT ![id].qty = @ - n]

TouchOf(book) == [bid |-> B!Touch(book, "Buy"), ask |-> B!Touch(book, "Sell"),
                  bq |-> B!Depth(book, "Buy", B!Touch(book, "Buy")),
                  aq |-> B!Depth(book, "Sell", B!Touch(book, "Sell"))]
BothSides(book) == B!Touch(book, "Buy") # B!NoIndex /\ B!Touch(book, "Sell") # B!NoIndex

ReactBeforeUpdate(book) ==
  IF BothSides(resting) THEN Q!OnTouch(TouchOf(resting)) ELSE Q!OneSided
React(book) == IF BothSides(book) THEN Q!OnTouch(TouchOf(book)) ELSE Q!OneSided
------------------------------------------------------------------------------
(* The messages of the feed *)

PriceOf(side, offset) == IF side = "Buy" THEN Mid - offset ELSE Mid + offset

IdReused == IF next_id_ = 0 THEN 1 ELSE next_id_
NewId == next_id_ + 1

Add(side, offset, n) ==
  /\ next_id_ < MaxIds
  /\ next_id_' = NewId /\ live_' = live_ \cup {NewId}
  /\ Numbered
  /\ resting' = B!With(resting, NewId, [side |-> side, level |-> PriceOf(side, offset), qty |-> n])
  /\ React(resting')

\* take_live drops the id it picks; a cancel takes the whole order.
Cancel(id) ==
  /\ live_' = live_ \ {id}
  /\ Numbered
  /\ resting' = Reduced(id, 0)
  /\ React(resting')
  /\ UNCHANGED next_id_

ExecutedForgotten(id) == live_ \ {id}
\* encode_execute puts the id it took back.
Executed(id) == live_

Execute(id) ==
  /\ live_' = Executed(id)
  /\ Numbered
  /\ resting' = Reduced(id, ExecQty)
  /\ React(resting')
  /\ UNCHANGED next_id_

Next == \/ \E side \in B!Side, offset \in Offsets, n \in AddQty : Add(side, offset, n)
        \/ \E id \in live_ : Cancel(id) \/ Execute(id)

Spec == Init /\ [][Next]_vars
------------------------------------------------------------------------------
(* Properties *)

TypeOK ==
  /\ live_ \subseteq 1 .. MaxIds /\ next_id_ \in 0 .. MaxIds /\ seq_ \in 0 .. SeqWord - 1
  /\ DOMAIN resting \subseteq 1 .. MaxIds
  /\ \A id \in DOMAIN resting :
       resting[id] \in [side : B!Side, level : 0 .. Levels - 1, qty : Nat \ {0}]
  /\ Q!TypeOK

\* Whatever order adds, fills and cancels come in, the best bid stays below the best ask.
NeverCrossed == BothSides(resting) => B!Touch(resting, "Buy") < B!Touch(resting, "Sell")

\* Every order that rests can still be picked by the feed, so that none is stuck in the
\* book for ever: "dropping it here would leak a level in the book that nothing removes".
NothingLeaks == DOMAIN resting \subseteq live_

\* Any id the feed may cancel is an order that rests: "a partial fill leaves the order
\* resting, so it stays cancellable".
StaysCancellable == live_ \subseteq DOMAIN resting

\* A feed that loses nothing raises no alarm, across the wrap of the sequence number and
\* the guard's restart there.
NoFalseAlarm == gaps_ = 0 /\ duplicates_ = 0

\* What the loop may take for granted of the generator, over any run of adds, cancels and
\* fills: an uncrossed book, no order out of its reach, and numbers without a gap.
FeedWellFormed == TypeOK /\ NeverCrossed /\ NothingLeaks /\ NoFalseAlarm

\* The feed keeps the contract the book assumes: it never adds an id that rests, and each
\* message changes one order at most.
KeepsBookContract == B!Spec

\* An order sent is strictly inside the touch of the book it meets, the one the message
\* has just updated.
QuotesCurrentBook ==
  [][out' # out => /\ B!Touch(resting', "Buy") < out'.px
                   /\ out'.px < B!Touch(resting', "Sell")]_vars
==============================================================================
