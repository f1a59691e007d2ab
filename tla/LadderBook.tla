----------------------------- MODULE LadderBook -----------------------------
(***************************************************************************)
(* The book of content/37-order-book-design.md: a slab of orders addressed *)
(* by handles, one ladder of levels per side indexed by price, the orders  *)
(* of a level linked oldest first through the slab, the free entries       *)
(* through the same next, the best bid and ask maintained.  The id map is  *)
(* a function, which IdMap implements.                                     *)
(*                                                                         *)
(* orders is the reference book the lesson wants the fast one compared     *)
(* with: what is resting, in the order of arrival, each order filed under  *)
(* the slot add makes of its price.  The feed adds an id only while it     *)
(* does not rest, and never with quantity 0 (reduce to 0 is a cancel).     *)
(***************************************************************************)
EXTENDS Integers, Sequences, FiniteSets, SequencesExt, FiniteSetsExt

CONSTANTS Id, MaxQty,
          kMaxOrders,       \* handles are 0 .. kMaxOrders - 1
          kLevels,          \* the ladder's slots are 0 .. kLevels - 1
          Price,            \* prices, as a number of ticks from base_
          IntWord,          \* number of values of an int32_t
          kNull

Handle == 0 .. kMaxOrders - 1
Slot == 0 .. kLevels - 1
Qty == 1 .. MaxQty

ASSUME LadderAssumption ==
  /\ kMaxOrders \in Nat \ {0} /\ kLevels \in Nat \ {0} /\ MaxQty \in Nat
  /\ kNull \notin Handle
  /\ Price \subseteq Int /\ IntWord \in Nat \ {0} /\ kLevels <= IntWord \div 2

VARIABLES book,      \* the fields of Book
          orders     \* [id, side, px, slot, qty], in the order of arrival

ladder == <<book, orders>>

NoLevel == [qty |-> 0, head |-> kNull, tail |-> kNull]
NoOrder == [id |-> kNull, qty |-> 0, prev |-> kNull, next |-> kNull, slot |-> 0, side |-> "Buy"]

Reset ==
  [slab |-> [h \in Handle |->
               [NoOrder EXCEPT !.next = IF h + 1 < kMaxOrders THEN h + 1 ELSE kNull]],
   level |-> [side \in {"Buy", "Sell"} |-> [p \in Slot |-> NoLevel]],
   best |-> [Buy |-> -1, Sell |-> kLevels],
   free_head |-> 0,
   ids |-> [id \in Id |-> kNull]]

LadderInit == book = Reset /\ orders = << >>
------------------------------------------------------------------------------
(* The steps the operations are made of, each from a book to a book. *)

\* Sets next of the entry before, or head; sets prev of the entry after, or tail.
Before(b, side, slot, h, to) ==
  IF h # kNull THEN [b EXCEPT !.slab[h].next = to] ELSE [b EXCEPT !.level[side][slot].head = to]
After(b, side, slot, h, to) ==
  IF h # kNull THEN [b EXCEPT !.slab[h].prev = to] ELSE [b EXCEPT !.level[side][slot].tail = to]

Better(side, p, q) == IF side = "Buy" THEN p > q ELSE p < q

\* The best slot that is not empty, walking outward from the old one.
Walked(b, side) ==
  LET Held == {p \in Slot : b.level[side][p].head # kNull /\ ~Better(side, p, b.best[side])}
  IN IF side = "Buy" THEN Max(Held \cup {-1}) ELSE Min(Held \cup {kLevels})
Unrepaired(b, side, slot) == b
RepairBest(b, side, slot) ==
  IF slot = b.best[side] THEN [b EXCEPT !.best[side] = Walked(b, side)] ELSE b

\* The other fields of a free entry are not read before add has set them all.
Freed(b, h) == [b EXCEPT !.slab[h] = [NoOrder EXCEPT !.next = b.free_head], !.free_head = h]

Unlinked(b, h) ==
  LET o == b.slab[h]
      cut == After(Before(b, o.side, o.slot, o.prev, o.next), o.side, o.slot, o.next, o.prev)
      less == [cut EXCEPT !.level[o.side][o.slot].qty = @ - o.qty]
      best == IF less.level[o.side][o.slot].head = kNull
              THEN RepairBest(less, o.side, o.slot) ELSE less
  IN Freed(best, h)

Removed(b, id) == [Unlinked(b, b.ids[id]) EXCEPT !.ids[id] = kNull]

\* static_cast<std::int32_t>(px - base_): the difference loses what does not fit the word,
\* so a price a multiple of IntWord away has the slot of a price inside the window.
SlotOf(px) == ((px + (IntWord \div 2)) % IntWord) - (IntWord \div 2)

Refuses(b, slot) == slot \notin Slot \/ b.free_head = kNull

Added(b, id, side, slot, qty) ==
  LET h == b.free_head
      tail == b.level[side][slot].tail
      taken == [b EXCEPT !.free_head = b.slab[h].next,
                         !.slab[h] = [id |-> id, qty |-> qty, prev |-> tail, next |-> kNull,
                                      slot |-> slot, side |-> side]]
      linked == Before(taken, side, slot, tail, h)
      queued == [linked EXCEPT !.level[side][slot].tail = h, !.level[side][slot].qty = @ + qty]
      best == IF Better(side, slot, b.best[side])
              THEN [queued EXCEPT !.best[side] = slot] ELSE queued
  IN [best EXCEPT !.ids[id] = h]

Less(b, h, qty) ==
  LET o == b.slab[h]
  IN [b EXCEPT !.level[o.side][o.slot].qty = @ - qty, !.slab[h].qty = @ - qty]

LeastQty(p, q) == IF p < q THEN p ELSE q
------------------------------------------------------------------------------
(* The operations, beside what each does to the reference. *)

Ids(s) == {s[n].id : n \in DOMAIN s}
Without(s, id) == RemoveFirstMatch(s, LAMBDA o : o.id = id)
WithQty(s, id, qty) ==
  [n \in DOMAIN s |-> IF s[n].id = id THEN [s[n] EXCEPT !.qty = qty] ELSE s[n]]
QtyOf(s, id) == s[CHOOSE n \in DOMAIN s : s[n].id = id].qty
SideOf(s, id) == s[CHOOSE n \in DOMAIN s : s[n].id = id].side
Resting(id, side, px, qty) ==
  [id |-> id, side |-> side, px |-> px, slot |-> SlotOf(px), qty |-> qty]

Add(id, side, px, qty) ==
  /\ id \notin Ids(orders)
  /\ IF Refuses(book, SlotOf(px)) THEN UNCHANGED ladder
     ELSE /\ book' = Added(book, id, side, SlotOf(px), qty)
          /\ orders' = Append(orders, Resting(id, side, px, qty))

Cancel(id) ==
  /\ book.ids[id] # kNull
  /\ book' = Removed(book, id)
  /\ orders' = Without(orders, id)

Execute(id, filled) ==
  /\ book.ids[id] # kNull
  /\ LET h == book.ids[id]
         after == Less(book, h, LeastQty(filled, book.slab[h].qty))
     IN book' = IF after.slab[h].qty = 0 THEN Removed(after, id) ELSE after
  /\ orders' = IF filled >= QtyOf(orders, id) THEN Without(orders, id)
               ELSE WithQty(orders, id, QtyOf(orders, id) - filled)

Reduce(id, new_qty) ==
  /\ book.ids[id] # kNull /\ new_qty < book.slab[book.ids[id]].qty
  /\ LET h == book.ids[id] IN book' = Less(book, h, book.slab[h].qty - new_qty)
  /\ orders' = WithQty(orders, id, new_qty)

\* A replacement loses its time priority; one that add refuses is gone.
Replace(id, new_id, px, qty) ==
  /\ book.ids[id] # kNull /\ new_id \notin Ids(orders) \ {id}
  /\ LET side == book.slab[book.ids[id]].side
         erased == Removed(book, id)
         slot == SlotOf(px)
     IN book' = IF Refuses(erased, slot) THEN erased ELSE Added(erased, new_id, side, slot, qty)
  /\ orders' = LET rest == Without(orders, id)
               IN IF SlotOf(px) \notin Slot THEN rest
                  ELSE Append(rest, Resting(new_id, SideOf(orders, id), px, qty))

LadderNext ==
  \E id \in Id :
    \/ Cancel(id)
    \/ \E qty \in Qty :
         \/ Execute(id, qty) \/ Reduce(id, qty)
         \/ \E px \in Price :
              \/ \E side \in {"Buy", "Sell"} : Add(id, side, px, qty)
              \/ \E new_id \in Id : Replace(id, new_id, px, qty)

LadderSpec == LadderInit /\ [][LadderNext]_ladder
------------------------------------------------------------------------------
(* Properties *)

\* The places in orders of those at a price.
At(side, slot) == {n \in DOMAIN orders : orders[n].side = side /\ orders[n].slot = slot}

HandleOf(n) == book.ids[orders[n].id]
OldestOf(S) == IF S = {} THEN kNull ELSE HandleOf(Min(S))
NewestOf(S) == IF S = {} THEN kNull ELSE HandleOf(Max(S))

\* "orders are matched oldest first": at every price the links lead from the oldest order
\* through all of them to the newest, and back, after any adds, cancels and replacements.
Linked(side, slot) ==
  LET all == At(side, slot)
      level == book.level[side][slot]
  IN /\ level.head = OldestOf(all) /\ level.tail = NewestOf(all)
     /\ \A n \in all :
          LET o == book.slab[HandleOf(n)]
          IN /\ o.id = orders[n].id /\ o.qty = orders[n].qty
             /\ o.next = OldestOf({m \in all : m > n}) /\ o.prev = NewestOf({m \in all : m < n})
TimePriority == \A side \in {"Buy", "Sell"}, slot \in Slot : Linked(side, slot)

\* The differential test of the lesson: best prices, the quantity at every level and the ids
\* are those of the reference.
Best(side) ==
  LET Held == {orders[n].slot : n \in {m \in DOMAIN orders : orders[m].side = side}}
  IN IF side = "Buy" THEN Max(Held \cup {-1}) ELSE Min(Held \cup {kLevels})
AgreesWithReference ==
  /\ \A side \in {"Buy", "Sell"} :
       /\ book.best[side] = Best(side)
       /\ \A slot \in Slot :
            book.level[side][slot].qty = MapThenSumSet(LAMBDA n : orders[n].qty, At(side, slot))
  /\ \A id \in Id : book.ids[id] # kNull <=> id \in Ids(orders)

\* "the free list plus the live orders always total kMaxOrders": walking the free list from
\* its head meets every entry that holds no order, once, and ends.
Walk(h) ==
  LET Step(w, n) == IF Last(w) = kNull THEN w ELSE Append(w, book.slab[Last(w)].next)
  IN FoldLeft(Step, <<h>>, [n \in 1 .. kMaxOrders |-> n])
SlabTotals ==
  LET walk == Walk(book.free_head)
      free == {walk[n] : n \in DOMAIN walk} \ {kNull}
  IN /\ Last(walk) = kNull
     /\ Cardinality(free) = Len(walk) - 1
     /\ free = Handle \ {book.ids[id] : id \in Id}

\* The ladder, its links and its slab are those of the plain list of orders it replaces,
\* whatever has been added, refused, reduced, replaced and cancelled before: slot by slot,
\* so that of an order accepted for a price outside the window it says that the book files
\* it consistently, not that it should have been accepted.
LadderExact == TimePriority /\ AgreesWithReference /\ SlabTotals

\* What the comment of add promises: "kNull means the price is outside the window", so no
\* order rests that has another price than one of the ladder's.  add narrows the distance
\* from base_ before it looks at the window, and breaks it.
WindowKept == \A n \in DOMAIN orders : orders[n].px \in Slot
==============================================================================
