-------------------------------- MODULE Book --------------------------------
(***************************************************************************)
(* The price-ladder order book of examples/capstone/book.hpp: a flat array *)
(* of level quantities per side, the cached index of the best level, a     *)
(* slab of orders linked into a free list, and an open-addressing table    *)
(* from order id to slab handle with backward-shift deletion.              *)
(*                                                                         *)
(* The caller is a sane feed: it never adds an id that is resting and never *)
(* adds a quantity of zero.  Of a released slot only next_free is kept; its *)
(* other fields keep stale values in the code, which are overwritten before *)
(* they are read again.                                                    *)
(***************************************************************************)
EXTENDS Integers, FiniteSets, FiniteSetsExt

CONSTANTS Levels,      \* kLevels
          MaxOrders,   \* kMaxOrders
          TableSize,   \* kIdTableSize
          QtyWord,     \* number of values of Qty, 2^32
          OrderIds,
          Home,        \* hash(id)
          Prices,      \* the prices added at, in ticks from base_
          AddQty,      \* the quantities added
          ReduceQty    \* the quantities asked to be taken off, 0 for the whole order

ASSUME BookAssumption ==
  /\ Levels \in Nat \ {0} /\ MaxOrders \in Nat \ {0}
  /\ TableSize \in Nat /\ MaxOrders < TableSize
  /\ QtyWord \in Nat \ {0}
  /\ OrderIds \subseteq Nat
  /\ Home \in [OrderIds -> 0 .. TableSize - 1]
  /\ Prices \subseteq Int
  /\ AddQty \subseteq 1 .. QtyWord - 1 /\ ReduceQty \subseteq 0 .. QtyWord - 1
  /\ \A n \in AddQty : MaxOrders * n < QtyWord

VARIABLES qty,           \* bid_qty_ and ask_qty_, by side
          best,          \* best_bid_ and best_ask_, by side
          orders_, free_head_, live_, id_table_

vars == <<qty, best, orders_, free_head_, live_, id_table_>>

Side == {"Buy", "Sell"}
Level == 0 .. Levels - 1
Handle == 0 .. MaxOrders - 1
NoIndex == -1
NoHandle == MaxOrders
Quantity == 0 .. QtyWord - 1
FreeSlot(next) == [id |-> 0, level |-> 0, qty |-> 0, side |-> "Buy", next_free |-> next]
NoEntry == [id |-> 0, handle |-> NoHandle]

Plus(x, y) == (x + y) % QtyWord        \* Qty arithmetic
Minus(x, y) == (x - y) % QtyWord

Init ==
  /\ qty = [s \in Side |-> [l \in Level |-> 0]]
  /\ best = [s \in Side |-> NoIndex]
  /\ orders_ = [h \in Handle |-> FreeSlot(h + 1)]      \* the last links to NoHandle
  /\ free_head_ = 0 /\ live_ = 0
  /\ id_table_ = [i \in 0 .. TableSize - 1 |-> NoEntry]
------------------------------------------------------------------------------
(* The id table *)

Probe(id, k) == (Home[id] + k) % TableSize
Vacant(i) == id_table_[i].handle = NoHandle

\* The number of probes until an entry of id or a vacant one; TableSize if neither.
EndsProbe(id, i) == Vacant(i) \/ id_table_[i].id = id
Probes(id) ==
  CHOOSE k \in 0 .. TableSize :
    /\ k = TableSize \/ EndsProbe(id, Probe(id, k))
    /\ \A j \in 0 .. k - 1 : ~EndsProbe(id, Probe(id, j))

FindId(id) ==
  LET k == Probes(id) IN IF k = TableSize THEN NoHandle ELSE id_table_[Probe(id, k)].handle

InsertId(id, h) ==
  LET k == Min({n \in 0 .. TableSize - 1 : Vacant(Probe(id, n))})
  IN [id_table_ EXCEPT ![Probe(id, k)] = [id |-> id, handle |-> h]]

MovableNoWrap(gap, j, home) == ~(home > gap /\ home <= j)
\* Whether the entry at j may move into the gap: its home is not in the cyclic
\* interval (gap, j].
Movable(gap, j, home) ==
  IF gap <= j THEN ~(home > gap /\ home <= j) ELSE ~(home > gap \/ home <= j)

EraseNoShift(id) == [id_table_ EXCEPT ![Probe(id, Probes(id))] = NoEntry]
\* Backward-shift deletion, one step per entry of the run that follows the erased one.
EraseId(id) ==
  LET i == Probe(id, Probes(id))
      run == Min({k \in 1 .. TableSize : Vacant((i + k) % TableSize)})
      shift[k \in 0 .. run - 1] ==
        IF k = 0 THEN [gap |-> i, table |-> id_table_]
        ELSE LET s == shift[k - 1]
                 j == (i + k) % TableSize
             IN IF Movable(s.gap, j, Home[s.table[j].id])
                THEN [gap |-> j, table |-> [s.table EXCEPT ![s.gap] = s.table[j]]]
                ELSE s
  IN [shift[run - 1].table EXCEPT ![shift[run - 1].gap] = NoEntry]
------------------------------------------------------------------------------
(* The slab *)

Alloc ==       \* of handle free_head_
  /\ free_head_' = orders_[free_head_].next_free
  /\ live_' = live_ + 1

ReleaseLeak(h) ==
  /\ orders_' = [orders_ EXCEPT ![h] = FreeSlot(NoHandle)]
  /\ free_head_' = h
  /\ live_' = live_ - 1
Release(h) ==
  /\ orders_' = [orders_ EXCEPT ![h] = FreeSlot(free_head_)]
  /\ free_head_' = h
  /\ live_' = live_ - 1
------------------------------------------------------------------------------
(* The ladder *)

IndexOf(price) ==
  LET d == price + Levels \div 2 IN IF d \in Level THEN d ELSE NoIndex

Beats(side, level) ==
  \/ best[side] = NoIndex
  \/ IF side = "Buy" THEN level > best[side] ELSE level < best[side]

\* rescan_bid walks down from the best level to the first one with quantity,
\* rescan_ask up.
Rescan(side, depth) ==
  LET left == {l \in Level : /\ IF side = "Buy" THEN l <= best[side] ELSE l >= best[side]
                             /\ depth[l] # 0}
  IN CASE left = {} -> NoIndex
       [] left # {} /\ side = "Buy" -> Max(left)
       [] left # {} /\ side = "Sell" -> Min(left)
------------------------------------------------------------------------------
(* on_add *)

Live(h) == orders_[h].qty > 0
LiveHandles == {h \in Handle : Live(h)}
LiveIds == {orders_[h].id : h \in LiveHandles}

IgnoreAdd(price) ==
  /\ IndexOf(price) = NoIndex \/ free_head_ = NoHandle
  /\ UNCHANGED vars

OnAdd(id, side, price, n) ==
  LET level == IndexOf(price)
      h == free_head_
  IN /\ level # NoIndex /\ h # NoHandle
     /\ Alloc
     /\ orders_' = [orders_ EXCEPT ![h] = [id |-> id, level |-> level, qty |-> n,
                                           side |-> side, next_free |-> NoHandle]]
     /\ id_table_' = InsertId(id, h)
     /\ qty' = [qty EXCEPT ![side][level] = Plus(@, n)]
     /\ best' = IF Beats(side, level) THEN [best EXCEPT ![side] = level] ELSE best
------------------------------------------------------------------------------
(* on_reduce *)

IgnoreReduce(id) ==
  /\ FindId(id) = NoHandle
  /\ UNCHANGED vars

TakeUnclamped(o, n) == IF n = 0 THEN o.qty ELSE n
Take(o, n) == IF n = 0 \/ n > o.qty THEN o.qty ELSE n

OnReduce(id, n) ==
  LET h == FindId(id)
      o == orders_[h]
      take == Take(o, n)
      rest == Minus(o.qty, take)
      depth == [qty[o.side] EXCEPT ![o.level] = Minus(@, take)]
  IN /\ h # NoHandle
     /\ qty' = [qty EXCEPT ![o.side] = depth]
     /\ best' = IF o.level = best[o.side] /\ depth[o.level] = 0
                THEN [best EXCEPT ![o.side] = Rescan(o.side, depth)] ELSE best
     /\ IF rest = 0
        THEN Release(h) /\ id_table_' = EraseId(id)
        ELSE /\ orders_' = [orders_ EXCEPT ![h].qty = rest]
             /\ UNCHANGED <<free_head_, live_, id_table_>>

Next ==
  \/ \E price \in Prices : IgnoreAdd(price)
  \/ \E id \in OrderIds \ LiveIds, side \in Side, price \in Prices, n \in AddQty :
       OnAdd(id, side, price, n)
  \/ \E id \in OrderIds : IgnoreReduce(id)
  \/ \E id \in OrderIds, n \in ReduceQty : OnReduce(id, n)

Spec == Init /\ [][Next]_vars
------------------------------------------------------------------------------
(* Properties *)

TypeOK ==
  /\ qty \in [Side -> [Level -> Quantity]]
  /\ best \in [Side -> Level \cup {NoIndex}]
  /\ orders_ \in [Handle -> [id : OrderIds \cup {0}, level : Level, qty : Quantity,
                             side : Side, next_free : Handle \cup {NoHandle}]]
  /\ free_head_ \in Handle \cup {NoHandle}
  /\ live_ \in 0 .. MaxOrders
  /\ id_table_ \in [0 .. TableSize - 1 -> [id : OrderIds \cup {0}, handle : Handle \cup {NoHandle}]]

\* Every live order is found under its id, and the table holds nothing else: after
\* any sequence of inserts and backward-shift deletions no probe chain is broken,
\* no entry is stale, and no two share a handle.
IdsResolve ==
  /\ \A h \in LiveHandles : FindId(orders_[h].id) = h
  /\ Cardinality({i \in 0 .. TableSize - 1 : ~Vacant(i)}) = live_

\* The slab leaks no slot and hands none out twice: the free list visits every
\* slot that holds no order, exactly once, and live_ counts the others.
FreeSlots ==
  LET chain[k \in 0 .. MaxOrders] ==
        IF k = 0 THEN free_head_
        ELSE IF chain[k - 1] = NoHandle THEN NoHandle ELSE orders_[chain[k - 1]].next_free
  IN [k \in 1 .. MaxOrders - live_ |-> chain[k - 1]]
SlabAccounted ==
  /\ live_ = Cardinality(LiveHandles)
  /\ {FreeSlots[k] : k \in DOMAIN FreeSlots} = Handle \ LiveHandles
  /\ live_ = MaxOrders => free_head_ = NoHandle

\* The book as a caller sees it, orders looked up by id.
Found == {id \in OrderIds : FindId(id) # NoHandle}
Resting == [id \in Found |-> LET o == orders_[FindId(id)]
                             IN [side |-> o.side, level |-> o.level, qty |-> o.qty]]
Orders == INSTANCE AbstractBook WITH resting <- Resting

\* Each level's aggregate is the sum of the orders that rest there: partial
\* fills, over-sized cancels and full cancels take off what the order loses.
LevelsAddUp ==
  LET book == Resting IN \A s \in Side, l \in Level : qty[s][l] = Orders!Depth(book, s, l)

\* best_bid_ and best_ask_ are the extremal levels where an order rests, whatever
\* order adds, fills and cancels came in; kNoIndex exactly when the side is empty.
TouchCorrect == LET book == Resting IN \A s \in Side : best[s] = Orders!Touch(book, s)

\* The ladder that the strategy reads is the one the orders in the slab make: every level's
\* quantity, both cached best levels, and every index inside its array.
LadderAgrees == TypeOK /\ LevelsAddUp /\ TouchCorrect
==============================================================================
