---------------------------- MODULE AbstractBook ----------------------------
(***************************************************************************)
(* What the price-ladder book of examples/capstone/book.hpp promises its   *)
(* caller: the set of resting orders.  Which slot of the slab an order is  *)
(* in, and where its id sits in the hash table, do not show.  An add that  *)
(* is refused (price off the ladder, no room) or a reduce of an id that is *)
(* not resting is a stuttering step.                                       *)
(***************************************************************************)
EXTENDS Integers, FiniteSets, FiniteSetsExt

CONSTANTS OrderIds, Levels, MaxOrders, AddQty

VARIABLE resting       \* id -> [side, level, qty], for the ids that rest

Side == {"Buy", "Sell"}
NoIndex == -1

With(book, id, order) ==
  [i \in DOMAIN book \cup {id} |-> IF i = id THEN order ELSE book[i]]
Without(book, id) == [i \in DOMAIN book \ {id} |-> book[i]]

Init == resting = [id \in {} |-> 0]

Order == [side : Side, level : 0 .. Levels - 1, qty : AddQty]

Add(id) ==
  /\ id \notin DOMAIN resting /\ Cardinality(DOMAIN resting) < MaxOrders
  /\ id \in DOMAIN resting' /\ resting'[id] \in Order
  /\ resting' = With(resting, id, resting'[id])

Remove(id) ==
  /\ id \in DOMAIN resting /\ id \notin DOMAIN resting'
  /\ resting' = Without(resting, id)

Shrink(id) ==
  /\ id \in DOMAIN resting /\ id \in DOMAIN resting'
  /\ resting'[id].qty \in 1 .. resting[id].qty - 1
  /\ resting' = [resting EXCEPT ![id].qty = resting'[id].qty]

Next == \E id \in OrderIds : Add(id) \/ Remove(id) \/ Shrink(id)

Spec == Init /\ [][Next]_resting
------------------------------------------------------------------------------
(* What a caller may ask of a book *)

OrdersOf(book, side) == {id \in DOMAIN book : book[id].side = side}
Depth(book, side, level) ==
  MapThenSumSet(LAMBDA id : book[id].qty, {id \in OrdersOf(book, side) : book[id].level = level})
Touch(book, side) ==
  LET occupied == {book[id].level : id \in OrdersOf(book, side)}
  IN IF occupied = {} THEN NoIndex
     ELSE IF side = "Buy" THEN Max(occupied) ELSE Min(occupied)
==============================================================================
