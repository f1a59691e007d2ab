------------------------------ MODULE Quoting ------------------------------
(***************************************************************************)
(* The second half of the tick-to-trade loop: the strategy                 *)
(* (examples/capstone/strategy.hpp), the pre-trade risk gate (risk.hpp) and *)
(* the simulated fills, in the order run (main.cpp) calls them once the    *)
(* book is updated.  Here the book's touch is any of Touches; the module   *)
(* that composes the loop supplies the real one.                           *)
(*                                                                         *)
(* The clock is read once per message and only when measure; otherwise run *)
(* passes 0.  MaxTime bounds it.  in_window_ is counted up to one past the *)
(* limit: larger values behave the same until the 32-bit counter wraps.     *)
(***************************************************************************)
EXTENDS Integers, FiniteSetsExt

CONSTANTS MinSpread, JoinOffset, OrderQty, QuoteMaxPosition,           \* StrategyConfig
          MaxOrderQty, MaxPosition, BandTicks, MaxOrdersPerSec,        \* RiskLimits
          FillPeriod,     \* one accepted quote in so many is filled
          Second, MaxTime,
          Touches         \* [bid, ask : prices, bq, aq : quantities]

ASSUME QuotingAssumption ==
  /\ MinSpread \in Nat /\ MinSpread >= 2 /\ JoinOffset \in Int
  /\ OrderQty \in Nat \ {0} /\ QuoteMaxPosition \in Nat \ {0}
  /\ MaxOrderQty \in Nat /\ MaxPosition \in Nat /\ BandTicks \in Nat
  /\ MaxOrdersPerSec \in Nat /\ FillPeriod \in Nat \ {0}
  /\ Second \in Nat \ {0} /\ MaxTime \in Nat
  /\ Touches \subseteq [bid : Nat, ask : Nat, bq : Nat, aq : Nat]

VARIABLES measure,                                  \* chosen once, by the caller of run
          position_, last_px_, last_side_,          \* Strategy
          killed_, window_start_ns_, in_window_,    \* RiskGate
          quote_number,                             \* modulo FillPeriod
          clock,
          out,          \* the last order, its touch, the verdict and whether it was filled
          accepted      \* per instant, the orders accepted then

strategy == <<position_, last_px_, last_side_>>
gate == <<killed_, window_start_ns_, in_window_>>
vars == <<measure, strategy, gate, quote_number, clock, out, accepted>>

Side == {"Buy", "Sell"}
NoPrice == -1
Nothing == [valid |-> FALSE]

Init ==
  /\ measure \in BOOLEAN
  /\ position_ = 0 /\ last_px_ = NoPrice /\ last_side_ = "Buy"
  /\ killed_ = FALSE /\ window_start_ns_ = 0 /\ in_window_ = 0
  /\ quote_number = 0 /\ clock = 0
  /\ out = Nothing
  /\ accepted = [t \in 0 .. MaxTime |-> 0]
------------------------------------------------------------------------------
(* The strategy *)

\* Lean against inventory: the side that reduces the position.
LeanSameWay == IF position_ < 0 THEN "Sell" ELSE "Buy"
LeanSide == IF position_ > 0 THEN "Sell" ELSE "Buy"

AtLimit(side) == IF side = "Buy" THEN position_ >= QuoteMaxPosition
                 ELSE position_ <= - QuoteMaxPosition

Micro(t) == IF t.bq + t.aq > 0 THEN (t.bid * t.aq + t.ask * t.bq) \div (t.bq + t.aq)
            ELSE (t.bid + t.ask) \div 2

QuoteUnclamped(side, t) == IF side = "Buy" THEN Micro(t) - JoinOffset ELSE Micro(t) + JoinOffset
QuotePrice(side, t) ==
  LET px == IF side = "Buy" THEN Micro(t) - JoinOffset ELSE Micro(t) + JoinOffset
      above == IF px <= t.bid THEN t.bid + 1 ELSE px
  IN IF above >= t.ask THEN t.ask - 1 ELSE above

Quotes(t) ==
  /\ t.ask - t.bid >= MinSpread
  /\ ~AtLimit(LeanSide)
  /\ ~(QuotePrice(LeanSide, t) = last_px_ /\ LeanSide = last_side_)

Signed(side, n) == IF side = "Buy" THEN n ELSE - n
------------------------------------------------------------------------------
(* The risk gate *)

\* The clock reading the message carries.
Now == IF measure THEN clock ELSE 0

NewWindowFromZero == Now - window_start_ns_ >= Second \/ window_start_ns_ = 0
NewWindow == Now - window_start_ns_ >= Second

WindowStart == IF NewWindow THEN Now ELSE window_start_ns_
InWindow == IF NewWindow THEN 1
            ELSE IF in_window_ <= MaxOrdersPerSec THEN in_window_ + 1 ELSE in_window_

OverPosition(side) == LET projected == position_ + Signed(side, OrderQty)
                      IN projected > MaxPosition \/ projected < - MaxPosition
OutOfBand(px, reference) == px - reference > BandTicks \/ px - reference < - BandTicks

Verdict(px, side, reference) ==
  IF killed_ THEN "KillSwitch"
  ELSE IF OrderQty > MaxOrderQty THEN "QtyTooLarge"
  ELSE IF OverPosition(side) THEN "PositionLimit"
  ELSE IF OutOfBand(px, reference) THEN "PriceOutOfBand"
  ELSE IF InWindow > MaxOrdersPerSec THEN "RateLimit"
  ELSE "Accept"

\* Only the last check touches the window: an order refused earlier is not counted.
Counted(verdict) == verdict \in {"Accept", "RateLimit"}
------------------------------------------------------------------------------
(* One message of run, after the book update *)

Quiet(t) == ~Quotes(t) /\ UNCHANGED vars

Fills == quote_number = 0

Order(t) ==
  LET side == LeanSide
      px == QuotePrice(side, t)
      verdict == Verdict(px, side, IF side = "Buy" THEN t.bid ELSE t.ask)
      filled == verdict = "Accept" /\ Fills
  IN /\ Quotes(t)
     /\ last_px_' = px /\ last_side_' = side
     /\ IF Counted(verdict)
        THEN /\ window_start_ns_' = WindowStart
             /\ in_window_' = InWindow
        ELSE UNCHANGED <<window_start_ns_, in_window_>>
     /\ IF verdict = "Accept"
        THEN /\ quote_number' = (quote_number + 1) % FillPeriod
             /\ accepted' = [accepted EXCEPT ![clock] = @ + 1]
        ELSE UNCHANGED <<quote_number, accepted>>
     /\ position_' = IF filled THEN position_ + Signed(side, OrderQty) ELSE position_
     /\ out' = [valid |-> TRUE, px |-> px, side |-> side, verdict |-> verdict,
                filled |-> filled, touch |-> t]
     /\ UNCHANGED <<measure, killed_, clock>>

OnTouch(t) == Quiet(t) \/ Order(t)

\* A book with a side missing gives no quote.
OneSided == UNCHANGED vars

Kill ==
  /\ killed_' = TRUE
  /\ UNCHANGED <<measure, strategy, window_start_ns_, in_window_>>
  /\ UNCHANGED <<quote_number, clock, out, accepted>>

Tick ==
  /\ clock < MaxTime /\ clock' = clock + 1
  /\ UNCHANGED <<measure, strategy, gate, quote_number, out, accepted>>

Next == (\E t \in Touches : OnTouch(t)) \/ OneSided \/ Kill \/ Tick

Spec == Init /\ [][Next]_vars
------------------------------------------------------------------------------
(* Properties *)

Verdicts == {"Accept", "QtyTooLarge", "PositionLimit", "PriceOutOfBand", "RateLimit", "KillSwitch"}

TypeOK ==
  /\ measure \in BOOLEAN
  /\ position_ \in Int /\ last_px_ \in Int /\ last_side_ \in Side
  /\ killed_ \in BOOLEAN /\ window_start_ns_ \in 0 .. MaxTime
  /\ in_window_ \in 0 .. MaxOrdersPerSec + 1
  /\ quote_number \in 0 .. FillPeriod - 1 /\ clock \in 0 .. MaxTime
  /\ out = Nothing \/ out.verdict \in Verdicts
  /\ accepted \in [0 .. MaxTime -> Nat]

\* No order joins or crosses the touch it was computed from, whichever way the
\* micro-price leans and rounds and however narrow the spread: the two clamps do not
\* undo each other because nothing is quoted below MinSpread.
InsideTouch == out.valid => out.touch.bid < out.px /\ out.px < out.touch.ask

\* Leaning against inventory keeps the position between flat and one clip long, over
\* every sequence of quotes, rejections and fills; so neither position limit, the
\* strategy's or the gate's, is ever what stops an order.
OneClip ==
  /\ position_ \in {0, OrderQty}
  /\ out.valid /\ OrderQty <= MaxPosition => out.verdict # "PositionLimit"

\* The fixed window admits bursts across its edge, but never more than twice the limit
\* within any one second; and on a clock that stands still it never reopens.
Within(t) == MapThenSumSet(LAMBDA u : accepted[u], {u \in 0 .. MaxTime : t <= u /\ u < t + Second})
BurstBounded ==
  /\ \A t \in 0 .. MaxTime : Within(t) <= 2 * MaxOrdersPerSec
  /\ ~measure => MapThenSumSet(LAMBDA u : accepted[u], 0 .. MaxTime) <= MaxOrdersPerSec

\* A quote that was filled is never taken for one that still stands: the next touch wide
\* enough to quote into produces an order, although the strategy is not told to forget
\* its last price.
FilledQuoteReplaced ==
  out.valid /\ out.filled => \A t \in Touches : t.ask - t.bid >= MinSpread => Quotes(t)
==============================================================================
