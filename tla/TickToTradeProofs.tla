------------------------- MODULE TickToTradeProofs -------------------------
(***************************************************************************)
(* The capstone's loop for every ladder, every spread and limit, every     *)
(* width of the sequence number and any number of orders: the feed is well *)
(* formed, keeps the contract of the book, and what is quoted lies inside  *)
(* the touch of the book the message has just updated.                     *)
(***************************************************************************)
EXTENDS TickToTrade, DataLemmas

(* The two sides of the ladder: bids below the middle, offers above it. *)
OwnSide(o) == IF o.side = "Buy" THEN o.level < Mid ELSE o.level > Mid
Rests(o) == o \in [side : B!Side, level : 0 .. Levels - 1, qty : Nat \ {0}] /\ OwnSide(o)
BookSane(book) == /\ book = [id \in DOMAIN book |-> book[id]] /\ IsFiniteSet(DOMAIN book)
                  /\ \A id \in DOMAIN book : Rests(book[id])

FeedInv ==
  /\ next_id_ \in 0 .. MaxIds /\ live_ \subseteq 1 .. next_id_ /\ DOMAIN resting \subseteq live_
  /\ BookSane(resting)
GuardInv == seq_ \in 0 .. SeqWord - 1 /\ expected_ \in {0, seq_} /\ gaps_ = 0 /\ duplicates_ = 0
LoopInv == FeedInv /\ GuardInv /\ Q!TypeOK /\ ~measure

LEMMA InitLoop == Init => LoopInv
<1> SUFFICES ASSUME Init PROVE LoopInv  OBVIOUS
<1>1. resting = [id \in {} |-> 0]  BY DEF Init, B!Init
<1>2. DOMAIN resting = {} /\ IsFiniteSet({})  BY <1>1, FS_EmptySet
<1>3. FeedInv  BY <1>1, <1>2, FeedAssumption DEF Init, FeedInv, BookSane
<1>4. GuardInv  BY FeedAssumption DEF Init, GuardInv, G!GuardInit
<1>5. Q!TypeOK
  <2>1. measure = FALSE /\ Q!Init  BY DEF Init
  <2>2. measure \in BOOLEAN /\ killed_ \in BOOLEAN /\ (out = Q!Nothing \/ out.verdict \in Q!Verdicts)
    BY <2>1 DEF Q!Init
  <2>3. /\ position_ \in Int /\ last_px_ \in Int /\ last_side_ \in Q!Side
        /\ window_start_ns_ \in 0 .. 0 /\ in_window_ \in 0 .. MaxOrdersPerSec + 1
        /\ quote_number \in 0 .. FillPeriod - 1 /\ clock \in 0 .. 0
        /\ accepted \in [0 .. 0 -> Nat]
    BY <2>1, FeedAssumption DEF Q!Init, Q!NoPrice, Q!Side
  <2> QED  BY <2>2, <2>3 DEF Q!TypeOK
<1> QED  BY <1>3, <1>4, <1>5 DEF Init, LoopInv

(* Numbers without a gap start the guard or are in order, also where they wrap to 0. *)
LEMMA NumberedInOrder ==
  ASSUME GuardInv, Numbered
  PROVE  GuardInv'
<1>1. seq_' = (seq_ + 1) % SeqWord /\ seq_' \in 0 .. SeqWord - 1
  BY FeedAssumption DEF Numbered, GuardInv
<1>2. G!Start(seq_) \/ G!InOrder(seq_)
  BY DEF Numbered, G!Accept, G!Duplicate, G!Gap, GuardInv
<1>3. expected_' = seq_' /\ gaps_' = gaps_ /\ duplicates_' = duplicates_
  BY <1>1, <1>2 DEF G!Start, G!InOrder, G!After, GuardInv
<1> QED  BY <1>1, <1>3 DEF GuardInv

(* What the book offers as its touch. *)
LEMMA TouchIs ==
  ASSUME NEW book, BookSane(book), NEW side \in B!Side
  PROVE  /\ B!Touch(book, side) # B!NoIndex =>
              /\ B!Touch(book, side) \in 0 .. Levels - 1
              /\ IF side = "Buy" THEN B!Touch(book, side) < Mid ELSE B!Touch(book, side) > Mid
         /\ B!Depth(book, side, B!Touch(book, side)) \in Nat
<1>1. B!Touch(book, side) = BestLevel(book, side)
  BY DEF B!Touch, B!OrdersOf, B!NoIndex, BestLevel, LevelsOf, Max, Min, B!Max, B!Min
<1>2. B!Depth(book, side, B!Touch(book, side)) = DepthAt(book, side, B!Touch(book, side))
  <2>1. \A l : B!Depth(book, side, l) = DepthAt(book, side, l)
    BY DEF B!Depth, B!OrdersOf, DepthAt, OrdersAt, MapThenSumSet, B!MapThenSumSet,
           MapThenFoldSet, B!MapThenFoldSet
  <2> QED  BY <2>1
<1>3. /\ LevelsOf(book, side) \subseteq 0 .. Levels
      /\ \A l \in LevelsOf(book, side) :
           l \in 0 .. Levels - 1 /\ IF side = "Buy" THEN l < Mid ELSE l > Mid
  BY FeedAssumption DEF LevelsOf, BookSane, Rests, OwnSide, B!Side
<1>4. LevelsOf(book, side) # {} => BestLevel(book, side) \in LevelsOf(book, side)
  BY <1>3, FeedAssumption, BestLevelIs
<1>5. LevelsOf(book, side) = {} => BestLevel(book, side) = B!NoIndex
  BY DEF BestLevel, B!NoIndex
<1>6. \A l : DepthAt(book, side, l) \in Nat
  <2>1. IsFiniteSet(DOMAIN book) /\ \A i \in DOMAIN book : book[i].qty \in Nat \ {0}
    BY DEF BookSane, Rests
  <2> QED  BY <2>1, DepthZero
<1> QED  BY <1>1, <1>2, <1>3, <1>4, <1>5, <1>6

LEMMA QuotedInside ==
  ASSUME NEW t, t.bid \in Nat, t.ask \in Nat, t.bq \in Nat, t.aq \in Nat,
         NEW side \in Q!Side, t.ask - t.bid >= MinSpread
  PROVE  /\ Q!QuotePrice(side, t) \in Int
         /\ t.bid < Q!QuotePrice(side, t) /\ Q!QuotePrice(side, t) < t.ask
<1>1. Q!Micro(t) \in Int
  <2>1. CASE t.bq + t.aq > 0
    <3> DEFINE a == t.bid * t.aq + t.ask * t.bq
               b == t.bq + t.aq
    <3>1. a \in Int /\ b \in Int /\ b > 0  BY <2>1
    <3>2. a \div b \in Int
      <4> HIDE DEF a, b
      <4> QED  BY <3>1
    <3> QED  BY <2>1, <3>2 DEF Q!Micro
  <2>2. CASE ~(t.bq + t.aq > 0)  BY <2>2 DEF Q!Micro
  <2> QED  BY <2>1, <2>2
<1>2. t.bid + 1 < t.ask /\ JoinOffset \in Int  BY FeedAssumption
<1> QED  BY <1>1, <1>2 DEF Q!QuotePrice

(* Strategy, gate and fill: one message. *)
LEMMA ReactKeeps ==
  ASSUME Q!TypeOK, ~measure, NEW book, BookSane(book), React(book)
  PROVE  /\ Q!TypeOK' /\ ~measure'
         /\ out' # out => /\ B!Touch(book, "Buy") < out'.px
                          /\ out'.px < B!Touch(book, "Sell")
<1> DEFINE t == TouchOf(book)
<1>1. CASE ~BothSides(book) \/ Q!Quiet(t)
  <2>1. UNCHANGED Q!vars  BY <1>1 DEF React, Q!OneSided, Q!OnTouch, Q!Quiet
  <2>2. UNCHANGED <<measure, position_, last_px_, last_side_, killed_, window_start_ns_, in_window_,
                    quote_number, clock, out, accepted>>
    BY <2>1 DEF Q!vars, Q!strategy, Q!gate
  <2> QED  BY <2>2 DEF Q!TypeOK
<1>2. CASE BothSides(book) /\ Q!Order(t)
  <2>1. /\ t.bid = B!Touch(book, "Buy") /\ t.ask = B!Touch(book, "Sell")
        /\ t.bq = B!Depth(book, "Buy", B!Touch(book, "Buy"))
        /\ t.aq = B!Depth(book, "Sell", B!Touch(book, "Sell"))
    BY DEF TouchOf
  <2>2. /\ t.bid \in 0 .. Levels - 1 /\ t.ask \in 0 .. Levels - 1 /\ t.bq \in Nat /\ t.aq \in Nat
    BY <1>2, <2>1, TouchIs DEF BothSides, B!Side
  <2> HIDE DEF t
  <2> DEFINE side == Q!LeanSide
             px == Q!QuotePrice(side, t)
             answer == Q!Verdict(px, side, IF side = "Buy" THEN t.bid ELSE t.ask)
             filled == answer = "Accept" /\ Q!Fills
  <2>3. side \in Q!Side  BY DEF Q!LeanSide, Q!Side
  <2>4. px \in Int /\ t.bid < px /\ px < t.ask
    <3>1. t.ask - t.bid >= MinSpread  BY <1>2 DEF Q!Order, Q!Quotes
    <3>2. t.bid \in Nat /\ t.ask \in Nat  BY <2>2
    <3> QED  BY <2>2, <2>3, <3>1, <3>2, QuotedInside
  <2>5. answer \in Q!Verdicts  BY DEF Q!Verdict, Q!Verdicts
  <2>6. /\ out' = [valid |-> TRUE, px |-> px, side |-> side, verdict |-> answer,
                   filled |-> filled, touch |-> t]
        /\ last_px_' = px /\ last_side_' = side
        /\ position_' = IF filled THEN position_ + Q!Signed(side, OrderQty) ELSE position_
        /\ measure' = measure /\ killed_' = killed_ /\ clock' = clock
    BY <1>2 DEF Q!Order
  <2>7. window_start_ns_' \in 0 .. 0 /\ in_window_' \in 0 .. MaxOrdersPerSec + 1
    <3>1. Q!WindowStart \in 0 .. 0 /\ Q!InWindow \in 0 .. MaxOrdersPerSec + 1
      BY FeedAssumption DEF Q!TypeOK, Q!WindowStart, Q!InWindow, Q!NewWindow, Q!Now
    <3> QED  BY <1>2, <3>1 DEF Q!Order, Q!TypeOK
  <2>8. quote_number' \in 0 .. FillPeriod - 1  BY <1>2, FeedAssumption DEF Q!Order, Q!TypeOK
  <2>9. accepted' \in [0 .. 0 -> Nat]  BY <1>2 DEF Q!Order, Q!TypeOK
  <2>10. position_' \in Int  BY <2>6, FeedAssumption DEF Q!TypeOK, Q!Signed
  <2> HIDE DEF side, px, answer, filled
  <2>11. Q!TypeOK'
    BY <2>3, <2>4, <2>5, <2>6, <2>7, <2>8, <2>9, <2>10 DEF Q!TypeOK
  <2> QED  BY <2>1, <2>4, <2>6, <2>11
<1> QED  BY <1>1, <1>2 DEF React, Q!OnTouch
------------------------------------------------------------------------------
(* The messages *)

LEMMA Prices ==
  ASSUME NEW side \in B!Side, NEW offset \in Offsets, NEW n \in AddQty
  PROVE  Rests([side |-> side, level |-> PriceOf(side, offset), qty |-> n])
<1>1. offset \in 1 .. Levels \div 2 - 1 /\ Levels \in Nat /\ n \in Nat \ {0}  BY FeedAssumption
<1>2. Mid = Levels \div 2 /\ Mid \in Nat /\ Mid + Mid <= Levels  BY <1>1 DEF Mid
<1>3. offset \in Nat /\ 1 <= offset /\ offset <= Mid - 1  BY <1>1, <1>2
<1>4. side = "Buy" \/ side = "Sell"  BY DEF B!Side
<1>5. PriceOf(side, offset) \in 0 .. Levels - 1
      /\ IF side = "Buy" THEN PriceOf(side, offset) < Mid ELSE PriceOf(side, offset) > Mid
  BY <1>1, <1>2, <1>3, <1>4 DEF PriceOf
<1> QED  BY <1>1, <1>4, <1>5 DEF Rests, OwnSide, B!Side

(* An add is an order more; the other messages take an order off or leave less of it. *)
LEMMA AddFeed ==
  ASSUME FeedInv, NEW side \in B!Side, NEW offset \in Offsets, NEW n \in AddQty, Add(side, offset, n)
  PROVE  FeedInv' /\ B!Next
<1> DEFINE o == [side |-> side, level |-> PriceOf(side, offset), qty |-> n]
<1>1. /\ next_id_ \in Nat /\ MaxIds \in Nat /\ next_id_ < MaxIds
      /\ next_id_' = next_id_ + 1 /\ live_' = live_ \cup {next_id_ + 1}
      /\ resting' = B!With(resting, next_id_ + 1, o)
  BY FeedAssumption DEF FeedInv, Add, NewId
<1>2. PICK id : id = next_id_ + 1  OBVIOUS
<1>3. Rests(o)  BY Prices
<1>4. id \notin live_ /\ id \in 1 .. MaxIds /\ id \in Nat  BY <1>1, <1>2 DEF FeedInv
<1> HIDE DEF o
<1>5. /\ resting' = [i \in DOMAIN resting \cup {id} |-> IF i = id THEN o ELSE resting[i]]
      /\ id \notin DOMAIN resting
  BY <1>1, <1>2, <1>4 DEF B!With, FeedInv
<1>6. /\ DOMAIN resting' = DOMAIN resting \cup {id} /\ resting'[id] = o
      /\ \A i \in DOMAIN resting : resting'[i] = resting[i]
  BY <1>5
<1>7. IsFiniteSet(DOMAIN resting) /\ IsFiniteSet(DOMAIN resting')
  <2>1. IsFiniteSet(DOMAIN resting)  BY DEF FeedInv, BookSane
  <2>2. IsFiniteSet(DOMAIN resting \cup {id})  BY <2>1, FS_AddElement
  <2> QED  BY <1>6, <2>1, <2>2
<1>8. resting' = [i \in DOMAIN resting' |-> resting'[i]]  BY <1>5
<1>9. BookSane(resting)'
  <2>1. \A i \in DOMAIN resting' : Rests(resting'[i])
    BY <1>3, <1>6 DEF FeedInv, BookSane
  <2>2. BookSane(resting')  BY <1>7, <1>8, <2>1 DEF BookSane
  <2> QED  BY <2>2 DEF BookSane, Rests, OwnSide
<1>10. FeedInv'
  <2>1. next_id_' \in 0 .. MaxIds /\ live_' \subseteq 1 .. next_id_'  BY <1>1 DEF FeedInv
  <2>2. DOMAIN resting' \subseteq live_'  BY <1>1, <1>2, <1>6 DEF FeedInv
  <2> QED  BY <1>9, <2>1, <2>2 DEF FeedInv
<1>11. Cardinality(DOMAIN resting) < MaxIds
  <2>1. DOMAIN resting \subseteq 1 .. next_id_  BY DEF FeedInv
  <2>2. IsFiniteSet(1 .. next_id_) /\ Cardinality(1 .. next_id_) = next_id_
    <3>1. 1 \in Int /\ next_id_ \in Int  BY <1>1
    <3>2. IsFiniteSet(1 .. next_id_)
          /\ Cardinality(1 .. next_id_) = IF 1 <= next_id_ THEN next_id_ - 1 + 1 ELSE 0
      BY <3>1, FS_Interval
    <3> QED  BY <1>1, <3>2
  <2>3. Cardinality(DOMAIN resting) <= next_id_  BY <2>1, <2>2, FS_Subset
  <2>4. Cardinality(DOMAIN resting) \in Nat  BY <1>7, FS_CardinalityType
  <2> QED  BY <1>1, <2>3, <2>4
<1>12. B!Add(id)
  <2>1. o \in B!Order
    <3>1. o.side = side /\ o.qty = n /\ o = [side |-> o.side, level |-> o.level, qty |-> o.qty]  BY DEF o
    <3>2. o.level \in 0 .. Levels - 1  BY <1>3 DEF Rests
    <3> QED  BY <3>1, <3>2 DEF B!Order
  <2>2. resting' = B!With(resting, id, resting'[id])  BY <1>1, <1>2, <1>6
  <2>3. B!Cardinality(DOMAIN resting) = Cardinality(DOMAIN resting)  BY DEF B!Cardinality, Cardinality
  <2>4. id \in DOMAIN resting' /\ resting'[id] \in B!Order  BY <1>6, <2>1
  <2> QED  BY <1>5, <1>11, <2>2, <2>3, <2>4 DEF B!Add
<1> QED  BY <1>4, <1>10, <1>12 DEF B!Next

LEMMA ReduceFeed ==
  ASSUME FeedInv, NEW id \in live_, NEW n \in Nat, n = 0 \/ n = ExecQty,
         resting' = Reduced(id, n), UNCHANGED next_id_,
         IF n = 0 THEN live_' = live_ \ {id} ELSE live_' = live_
  PROVE  FeedInv' /\ (B!Next \/ resting' = resting)
<1>1. BookSane(resting) /\ id \in 1 .. MaxIds /\ next_id_ \in 0 .. MaxIds
      /\ live_ \subseteq 1 .. next_id_ /\ DOMAIN resting \subseteq live_
  BY FeedAssumption DEF FeedInv
<1>2. CASE id \notin DOMAIN resting
  <2>1. resting' = resting  BY <1>2 DEF Reduced
  <2> QED  BY <1>1, <1>2, <2>1 DEF FeedInv, BookSane, Rests, OwnSide
<1>3. CASE id \in DOMAIN resting /\ (n = 0 \/ n >= resting[id].qty)
  <2>1. resting' = [i \in DOMAIN resting \ {id} |-> resting[i]] /\ resting' = B!Without(resting, id)
    BY <1>3 DEF Reduced, B!Without
  <2>2. /\ DOMAIN resting' = DOMAIN resting \ {id} /\ \A i \in DOMAIN resting' : resting'[i] = resting[i]
        /\ resting' = [i \in DOMAIN resting' |-> resting'[i]]
    BY <2>1
  <2>3. B!Remove(id)  BY <1>3, <2>1, <2>2 DEF B!Remove
  <2>4. IsFiniteSet(DOMAIN resting')  BY <1>1, <2>2, FS_Subset DEF BookSane
  <2>5. BookSane(resting')  BY <1>1, <2>2, <2>4 DEF BookSane
  <2>6. BookSane(resting)'  BY <2>5 DEF BookSane, Rests, OwnSide
  <2> QED  BY <1>1, <2>2, <2>3, <2>6 DEF FeedInv, B!Next
<1>4. CASE id \in DOMAIN resting /\ n # 0 /\ ~(n >= resting[id].qty)
  <2>1. resting' = [resting EXCEPT ![id].qty = @ - n]  BY <1>4 DEF Reduced
  <2>2. resting[id].qty \in Nat \ {0} /\ Rests(resting[id])  BY <1>1, <1>4 DEF BookSane, Rests
  <2>3. PICK q : q = resting[id].qty - n  OBVIOUS
  <2>4. q \in 1 .. resting[id].qty - 1  BY <1>4, <2>2, <2>3
  <2>5. /\ DOMAIN resting' = DOMAIN resting /\ \A i \in DOMAIN resting : i # id => resting'[i] = resting[i]
        /\ resting' = [i \in DOMAIN resting' |-> resting'[i]]
        /\ resting'[id] = [resting[id] EXCEPT !.qty = q]
    BY <1>1, <1>4, <2>1, <2>3 DEF BookSane
  <2>6. resting'[id].qty = q /\ Rests(resting'[id])
    BY <2>2, <2>4, <2>5 DEF Rests, OwnSide
  <2>7. B!Shrink(id)
    <3>1. resting' = [resting EXCEPT ![id].qty = resting'[id].qty]  BY <2>1, <2>3, <2>6
    <3> QED  BY <1>4, <2>4, <2>5, <2>6, <3>1 DEF B!Shrink
  <2>8. BookSane(resting')  BY <1>1, <2>5, <2>6 DEF BookSane
  <2>9. BookSane(resting)'  BY <2>8 DEF BookSane, Rests, OwnSide
  <2> QED  BY <1>1, <1>4, <2>5, <2>7, <2>9 DEF FeedInv, B!Next
<1> QED  BY <1>2, <1>3, <1>4

LEMMA MessageKeeps ==
  ASSUME LoopInv, Next
  PROVE  /\ LoopInv' /\ (B!Next \/ resting' = resting)
         /\ out' # out => /\ B!Touch(resting', "Buy") < out'.px
                          /\ out'.px < B!Touch(resting', "Sell")
<1>1. FeedInv' /\ (B!Next \/ resting' = resting) /\ Numbered /\ React(resting')
  <2>1. ASSUME NEW side \in B!Side, NEW offset \in Offsets, NEW n \in AddQty, Add(side, offset, n)
        PROVE  FeedInv' /\ B!Next /\ Numbered /\ React(resting')
    BY <2>1, AddFeed DEF LoopInv, Add
  <2>2. ASSUME NEW id \in live_, Cancel(id)
        PROVE  FeedInv' /\ (B!Next \/ resting' = resting) /\ Numbered /\ React(resting')
    <3>1. resting' = Reduced(id, 0) /\ UNCHANGED next_id_ /\ live_' = live_ \ {id}
          /\ Numbered /\ React(resting')
      BY <2>2 DEF Cancel
    <3> QED  BY <3>1, ReduceFeed DEF LoopInv
  <2>3. ASSUME NEW id \in live_, Execute(id)
        PROVE  FeedInv' /\ (B!Next \/ resting' = resting) /\ Numbered /\ React(resting')
    <3>1. resting' = Reduced(id, ExecQty) /\ UNCHANGED next_id_ /\ live_' = live_
          /\ Numbered /\ React(resting')
      BY <2>3 DEF Execute, Executed
    <3>2. ExecQty \in Nat /\ ExecQty # 0  BY FeedAssumption
    <3> QED  BY <3>1, <3>2, ReduceFeed DEF LoopInv
  <2> QED  BY <2>1, <2>2, <2>3 DEF Next
<1>2. GuardInv'  BY <1>1, NumberedInOrder DEF LoopInv
<1>3. PICK book : book = resting'  OBVIOUS
<1>4. BookSane(book)  BY <1>1, <1>3 DEF FeedInv, BookSane, Rests, OwnSide
<1>5. React(book)  BY <1>1, <1>3
<1>6. /\ Q!TypeOK' /\ ~measure'
      /\ out' # out => /\ B!Touch(book, "Buy") < out'.px
                       /\ out'.px < B!Touch(book, "Sell")
  BY <1>4, <1>5, ReactKeeps DEF LoopInv
<1> QED  BY <1>1, <1>2, <1>3, <1>6 DEF LoopInv

LEMMA NextLoop == LoopInv /\ [Next]_vars => LoopInv'
<1> SUFFICES ASSUME LoopInv, UNCHANGED vars PROVE LoopInv'  BY MessageKeeps
<1> QED
  BY DEF vars, feed, guard, quoting, LoopInv, FeedInv, GuardInv, Q!TypeOK, BookSane, Rests, OwnSide

LEMMA LoopWellFormed == LoopInv => FeedWellFormed
<1> SUFFICES ASSUME LoopInv PROVE FeedWellFormed  OBVIOUS
<1>1. TypeOK
  BY FeedAssumption DEF LoopInv, FeedInv, GuardInv, TypeOK, BookSane, Rests
<1>2. NeverCrossed
  <2> SUFFICES ASSUME BothSides(resting) PROVE B!Touch(resting, "Buy") < B!Touch(resting, "Sell")
    BY DEF NeverCrossed
  <2>1. BookSane(resting) /\ "Buy" \in B!Side /\ "Sell" \in B!Side  BY DEF LoopInv, FeedInv, B!Side
  <2>2. B!Touch(resting, "Buy") \in 0 .. Levels - 1 /\ B!Touch(resting, "Buy") < Mid
    BY <2>1, TouchIs DEF BothSides
  <2>3. B!Touch(resting, "Sell") \in 0 .. Levels - 1 /\ B!Touch(resting, "Sell") > Mid
    BY <2>1, TouchIs DEF BothSides
  <2>4. Mid \in Int  BY FeedAssumption DEF Mid
  <2> QED  BY <2>2, <2>3, <2>4
<1>3. NothingLeaks /\ NoFalseAlarm  BY DEF LoopInv, FeedInv, GuardInv, NothingLeaks, NoFalseAlarm
<1> QED  BY <1>1, <1>2, <1>3 DEF FeedWellFormed

\* The generator, seen by the loop: over any run of adds, cancels and fills the book is not
\* crossed, no order is out of the feed's reach, and the guard raises no alarm, whatever the
\* width of the sequence number (generate, take_live, encode_execute; accept).
THEOREM FeedAlwaysWellFormed == Spec => []FeedWellFormed
BY InitLoop, NextLoop, LoopWellFormed, PTL DEF Spec

\* The feed never adds an id that rests, and each message changes one order at most.
THEOREM FeedKeepsContract == Spec => KeepsBookContract
<1>1. Init => B!Init  BY DEF Init
<1>2. LoopInv /\ [Next]_vars => [B!Next]_resting
  <2> SUFFICES ASSUME LoopInv, [Next]_vars PROVE [B!Next]_resting  OBVIOUS
  <2>1. CASE Next  BY <2>1, MessageKeeps
  <2>2. CASE UNCHANGED vars  BY <2>2 DEF vars
  <2> QED  BY <2>1, <2>2
<1> QED  BY <1>1, <1>2, InitLoop, NextLoop, PTL DEF Spec, KeepsBookContract, B!Spec

\* An order sent lies strictly inside the touch of the book that the message has just updated
\* (run: on_message, then on_quote, then check).
THEOREM AlwaysQuotesCurrentBook == Spec => QuotesCurrentBook
<1>1. LoopInv /\ [Next]_vars
        => [out' # out => /\ B!Touch(resting', "Buy") < out'.px
                          /\ out'.px < B!Touch(resting', "Sell")]_vars
  BY MessageKeeps
<1> QED  BY <1>1, InitLoop, NextLoop, PTL DEF Spec, QuotesCurrentBook
==============================================================================
