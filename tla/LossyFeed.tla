----------------------------- MODULE LossyFeed -----------------------------
(***************************************************************************)
(* The capstone's book behind a line that loses, repeats and reorders      *)
(* messages.  run (examples/capstone/main.cpp) shows every message to the  *)
(* sequence guard, ignores the answer and applies the message all the same: *)
(* there is no gap recovery.  This module asks what the guard's counters   *)
(* then say about the book.                                                *)
(*                                                                         *)
(* Price and side of an order do not matter here: the generator prices      *)
(* every order within ten ticks of its fixed reference (feed.hpp, 64-68),  *)
(* far inside the ladder, so the slab is the only thing that refuses.  An  *)
(* add of an id that rests already gives the book two entries of one id,   *)
(* of which find_id returns the one added first; so the book is a sequence *)
(* of orders, one slot of the slab each.  MaxIds and MaxMessage bound the  *)
(* feed, MaxDeliveries the line.                                           *)
(***************************************************************************)
EXTENDS SequenceGuard, SequencesExt

CONSTANTS AddQty, ExecQty, MaxIds,
          kMaxOrders     \* slots of the book's slab

ASSUME LossyAssumption ==
  /\ AddQty \subseteq Nat \ {0} /\ ExecQty \in Nat \ {0} /\ MaxIds \in Nat
  /\ kMaxOrders \in Nat \ {0}

VARIABLES sent, exchange,      \* the feed's messages, and the exchange's book after each
          live_, next_id_,     \* FeedGenerator
          orders,              \* Book
          refused              \* the ids an add of which has found the slab full

feed == <<sent, exchange, live_, next_id_>>
lossy == <<feed, guardVars, orders, refused>>

LossyInit ==
  /\ sent = << >> /\ exchange = << >> /\ live_ = {} /\ next_id_ = 0
  /\ GuardInit /\ orders = << >> /\ refused = {}

Truth(n) == IF n = 0 THEN [id \in 1 .. MaxIds |-> 0] ELSE exchange[n]
------------------------------------------------------------------------------
(* The exchange *)

Send(type, id, n) ==
  LET before == Truth(Len(sent))
      left == IF type = "Add" THEN n
              ELSE IF n = 0 \/ n > before[id] THEN 0 ELSE before[id] - n
  IN /\ Len(sent) < MaxMessage
     /\ sent' = Append(sent, [type |-> type, id |-> id, qty |-> n])
     /\ exchange' = Append(exchange, [before EXCEPT ![id] = left])
     /\ UNCHANGED <<guardVars, orders, refused>>

SendAdd(n) ==
  /\ next_id_ < MaxIds
  /\ next_id_' = next_id_ + 1 /\ live_' = live_ \cup {next_id_ + 1}
  /\ Send("Add", next_id_ + 1, n)

SendCancel(id) == live_' = live_ \ {id} /\ UNCHANGED next_id_ /\ Send("Cancel", id, 0)

SendExecute(id) == UNCHANGED <<live_, next_id_>> /\ Send("Execute", id, ExecQty)
------------------------------------------------------------------------------
(* run *)

NumberedAdds(i) ==
  IF sent[i].type = "Add" THEN Deliver(i)
  ELSE /\ Len(delivered) < MaxDeliveries /\ delivered' = Append(delivered, i)
       /\ UNCHANGED <<expected_, gaps_, duplicates_, verdict>>
Numbered(i) == Deliver(i)

\* alloc() finds no slot: the add is dropped, without a word to anybody.
Exhausted == Len(orders) >= kMaxOrders
OnAdd(id, n) == IF Exhausted THEN orders ELSE Append(orders, [id |-> id, qty |-> n])

FindFirst(id) == IF orders = << >> THEN 0 ELSE 1
Find(id) == SelectInSeq(orders, LAMBDA o : o.id = id)

OnReduce(id, n) ==
  LET i == Find(id)
  IN IF i = 0 THEN orders
     ELSE IF n = 0 \/ n >= orders[i].qty THEN RemoveAt(orders, i)
     ELSE [orders EXCEPT ![i].qty = @ - n]

Handle(i) ==
  /\ Numbered(i)
  /\ orders' = IF sent[i].type = "Add" THEN OnAdd(sent[i].id, sent[i].qty)
               ELSE OnReduce(sent[i].id, sent[i].qty)
  /\ refused' = IF sent[i].type = "Add" /\ Exhausted THEN refused \cup {sent[i].id}
                ELSE refused
  /\ UNCHANGED feed

LossyNext == \/ \E n \in AddQty : SendAdd(n)
             \/ \E id \in live_ : SendCancel(id) \/ SendExecute(id)
             \/ \E i \in DOMAIN sent : Handle(i)

LossySpec == LossyInit /\ [][LossyNext]_lossy
------------------------------------------------------------------------------
(* Properties *)

\* The quantity the book holds for an id, over all its entries.
Resting(id) == FoldSeq(LAMBDA o, sum : IF o.id = id THEN sum + o.qty ELSE sum, 0, orders)

\* The exchange has never held more orders than the slab has slots.
Fits ==
  \A n \in DOMAIN sent : Cardinality({id \in 1 .. MaxIds : Truth(n)[id] > 0}) <= kMaxOrders

\* As long as the guard has counted nothing, and the feed was joined at its first message,
\* the book is the exchange's at the last message delivered, if the exchange's orders fit
\* the slab: losing, repeating or swapping messages never goes unseen once a later message
\* has come, and a line that has done none of it leaves no slot taken that refuses an add.
CleanMeansFaithful ==
  gaps_ = 0 /\ duplicates_ = 0 /\ delivered # << >> /\ delivered[1] = 1 /\ Fits
    => \A id \in 1 .. MaxIds : Resting(id) = Truth(Last(delivered))[id]

\* A bad line damages only the orders whose messages it touched, and those the slab had no
\* slot left for: an id whose own messages came completely and in order is right, whatever
\* happened to the others, or was refused when it was added and stays absent.  (A cancel
\* that was lost keeps its slot for ever, so orders it has nothing to do with are refused.)
Own(id) == {i \in DOMAIN delivered : sent[delivered[i]].id = id}
InStep(id) ==
  \A i \in Own(id) :
    /\ \A j \in Own(id) : j < i => delivered[j] < delivered[i]
    /\ \A n \in 1 .. delivered[i] - 1 :
         sent[n].id = id => \E j \in Own(id) : delivered[j] = n
NewestOf(id) == IF Own(id) = {} THEN 0 ELSE delivered[Max(Own(id))]
DamageIsLocal ==
  \A id \in 1 .. MaxIds :
    InStep(id) => Resting(id) = IF id \in refused THEN 0 ELSE Truth(NewestOf(id))[id]
==============================================================================
