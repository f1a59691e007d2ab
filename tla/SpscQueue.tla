------------------------------ MODULE SpscQueue ------------------------------
(***************************************************************************)
(* The wait-free single-producer single-consumer queue of                  *)
(* examples/spsc_queue.hpp, under the C++ release/acquire memory model.    *)
(*                                                                         *)
(* Each atomic index is its modification order: a sequence of messages     *)
(* [val, view].  val is the w-bit index that was stored, view says how many *)
(* slot accesses of the storing thread happen before a load that acquires  *)
(* the message.  A thread reads its own index exactly; a load of the other *)
(* side's index may return any message not older than the last one it read *)
(* (coherence), so a stale value is always possible.  slots_ is plain      *)
(* memory: an access that is not ordered after every earlier conflicting   *)
(* access is a data race, recorded through one epoch per slot and side.    *)
(***************************************************************************)
EXTENDS Integers, Sequences

CONSTANTS Capacity,   \* number of slots
          Word,       \* number of values of std::size_t, 2^w
          Value,      \* payloads
          Blank,      \* the value-initialised payload T{}
          MaxPush     \* bound on the number of successful pushes

ASSUME SpscAssumption == /\ Capacity \in Nat \ {0}
                         /\ Word \in Nat
                         /\ Capacity + 1 < Word
                         /\ Word % Capacity = 0
                         /\ MaxPush \in Nat

VARIABLES head_, tail_,                \* modification orders of the two atomics
          cached_tail_, cached_head_,  \* private copies of the other index
          slots_,
          ppc, cpc,                    \* where try_push and try_pop stand
          pSeen, cSeen,                \* last message read of the other index
          pView, cView,                \* accesses of the other side known to precede
          wEpoch, rEpoch,              \* per slot: ordinal of its last write, last read
          sent, received               \* values written to, read from the slots

pvars == <<head_, cached_tail_, ppc, pSeen, pView, wEpoch, sent>>
cvars == <<tail_, cached_head_, cpc, cSeen, cView, rEpoch, received>>
vars == <<pvars, cvars, slots_>>

Slots == 0 .. Capacity - 1
Message == [val : 0 .. Word - 1, view : Nat]
Own(log) == log[Len(log)].val          \* a thread's own index: its last store

AddNoWrap(x, y) == x + y
Add(x, y) == (x + y) % Word            \* std::size_t arithmetic
Sub(x, y) == (x - y) % Word

SlotOfNoMask(i) == IF i < Capacity THEN i ELSE Capacity - 1
SlotOf(i) == i % Capacity              \* i & kMask

LaterView(view, msg) == IF msg.view > view THEN msg.view ELSE view
RelaxedLoad(view, msg) == view
LoadTailView(view, msg) == LaterView(view, msg)     \* memory_order_acquire
LoadHeadView(view, msg) == LaterView(view, msg)     \* memory_order_acquire
RelaxedStore(n) == 0
PublishBefore(n) == IF n = 0 THEN 0 ELSE n - 1
StoreHeadView(n) == n                               \* memory_order_release
StoreTailView(n) == n                               \* memory_order_release

Init ==
  /\ head_ = <<[val |-> 0, view |-> 0]>> /\ tail_ = <<[val |-> 0, view |-> 0]>>
  /\ cached_tail_ = 0 /\ cached_head_ = 0
  /\ slots_ = [s \in Slots |-> Blank]
  /\ ppc = "idle" /\ cpc = "idle"
  /\ pSeen = 1 /\ cSeen = 1 /\ pView = 0 /\ cView = 0
  /\ wEpoch = [s \in Slots |-> 0] /\ rEpoch = [s \in Slots |-> 0]
  /\ sent = << >> /\ received = << >>
------------------------------------------------------------------------------
(* Producer: try_push *)

FullByOne(t) == Sub(Add(Own(head_), 1), t) > Capacity + 1
FullEarly(t) == Sub(Add(Own(head_), 1), t) >= Capacity
Full(t) == Sub(Add(Own(head_), 1), t) > Capacity

PushBegin ==
  /\ ppc = "idle" /\ Len(sent) < MaxPush
  /\ ppc' = IF Full(cached_tail_) THEN "reload" ELSE "write"
  /\ UNCHANGED <<head_, cached_tail_, pSeen, pView, wEpoch, sent, cvars, slots_>>

LoadTail(i) ==
  /\ ppc = "reload" /\ i \in pSeen .. Len(tail_)
  /\ cached_tail_' = tail_[i].val
  /\ pSeen' = i /\ pView' = LoadTailView(pView, tail_[i])
  /\ ppc' = IF Full(tail_[i].val) THEN "idle" ELSE "write"
  /\ UNCHANGED <<head_, wEpoch, sent, cvars, slots_>>

WriteSlot(v) ==
  /\ ppc = "write"
  /\ LET s == SlotOf(Own(head_)) IN
       /\ slots_' = [slots_ EXCEPT ![s] = v]
       /\ wEpoch' = [wEpoch EXCEPT ![s] = Len(sent) + 1]
  /\ sent' = Append(sent, v)
  /\ ppc' = "publish"
  /\ UNCHANGED <<head_, cached_tail_, pSeen, pView, cvars>>

StoreHead ==
  /\ ppc = "publish"
  /\ head_' = Append(head_, [val |-> Add(Own(head_), 1), view |-> StoreHeadView(Len(sent))])
  /\ ppc' = "idle"
  /\ UNCHANGED <<cached_tail_, pSeen, pView, wEpoch, sent, cvars, slots_>>

Producer == \/ PushBegin
            \/ \E i \in 1 .. Len(tail_) : LoadTail(i)
            \/ \E v \in Value : WriteSlot(v)
            \/ StoreHead
------------------------------------------------------------------------------
(* Consumer: try_pop and size_approx *)

Empty(h) == Own(tail_) = h

PopBegin ==
  /\ cpc = "idle"
  /\ cpc' = IF Empty(cached_head_) THEN "reload" ELSE "read"
  /\ UNCHANGED <<tail_, cached_head_, cSeen, cView, rEpoch, received, pvars, slots_>>

LoadHead(i) ==
  /\ cpc = "reload" /\ i \in cSeen .. Len(head_)
  /\ cached_head_' = head_[i].val
  /\ cSeen' = i /\ cView' = LoadHeadView(cView, head_[i])
  /\ cpc' = IF Empty(head_[i].val) THEN "idle" ELSE "read"
  /\ UNCHANGED <<tail_, rEpoch, received, pvars, slots_>>

ReadSlot ==
  /\ cpc = "read"
  /\ LET s == SlotOf(Own(tail_)) IN
       /\ received' = Append(received, slots_[s])
       /\ rEpoch' = [rEpoch EXCEPT ![s] = Len(received) + 1]
  /\ cpc' = "publish"
  /\ UNCHANGED <<tail_, cached_head_, cSeen, cView, pvars, slots_>>

StoreTail ==
  /\ cpc = "publish"
  /\ tail_' = Append(tail_, [val |-> Add(Own(tail_), 1), view |-> StoreTailView(Len(received))])
  /\ cpc' = "idle"
  /\ UNCHANGED <<cached_head_, cSeen, cView, rEpoch, received, pvars, slots_>>

\* size_approx called by the consumer: its acquire load of head_ synchronises,
\* but the cached copy is left alone.  SizeAt(i) is the result when it reads message i.
SizeAt(i) == Sub(head_[i].val, Own(tail_))

SizeApprox(i) ==
  /\ cpc = "idle" /\ i \in cSeen .. Len(head_)
  /\ cSeen' = i /\ cView' = LaterView(cView, head_[i])
  /\ UNCHANGED <<tail_, cached_head_, cpc, rEpoch, received, pvars, slots_>>

Consumer == \/ PopBegin
            \/ \E i \in 1 .. Len(head_) : LoadHead(i) \/ SizeApprox(i)
            \/ ReadSlot
            \/ StoreTail

Next == Producer \/ Consumer

Spec == Init /\ [][Next]_vars
------------------------------------------------------------------------------
(* Properties *)

TypeOK ==
  /\ head_ \in Seq(Message) /\ head_ # << >>
  /\ tail_ \in Seq(Message) /\ tail_ # << >>
  /\ cached_tail_ \in 0 .. Word - 1 /\ cached_head_ \in 0 .. Word - 1
  /\ slots_ \in [Slots -> Value \cup {Blank}]
  /\ ppc \in {"idle", "reload", "write", "publish"}
  /\ cpc \in {"idle", "reload", "read", "publish"}
  /\ pSeen \in 1 .. Len(tail_) /\ cSeen \in 1 .. Len(head_)
  /\ pView \in Nat /\ cView \in Nat
  /\ wEpoch \in [Slots -> Nat] /\ rEpoch \in [Slots -> Nat]
  /\ sent \in Seq(Value) /\ received \in Seq(Value \cup {Blank})

\* The plain accesses to slots_ never race: a thread about to touch a slot is
\* ordered after the other side's last access to it.  This is what the release
\* stores and acquire loads of head_ and tail_ are there for.
RaceFree ==
  /\ ppc = "write" => rEpoch[SlotOf(Own(head_))] <= pView
  /\ cpc = "read" => wEpoch[SlotOf(Own(tail_))] <= cView

\* try_pop hands out exactly what try_push accepted, in that order, none twice,
\* none skipped, and none before head_ was published past it.
FifoDelivery ==
  /\ Len(received) < Len(head_)
  /\ Len(received) <= Len(sent)
  /\ \A k \in 1 .. Len(received) : received[k] = sent[k]

\* try_push returns false only when, as far as its fresh load of tail_ tells, all
\* Capacity slots are taken: no slot is sacrificed to tell full from empty.
FullIsFull ==
  [][ppc = "reload" /\ ppc' = "idle" => Len(head_) - pSeen' = Capacity]_vars

\* try_pop returns false only when it has taken every element of the head_ message
\* its fresh load returned.
EmptyIsEmpty ==
  [][cpc = "reload" /\ cpc' = "idle" => Len(tail_) = cSeen']_vars

\* "false when full" and "false when empty" and at no other time: a stale copy of the other
\* side's index never makes a call fail that the reloaded one would let through.
RefusesRightly == FullIsFull /\ EmptyIsEmpty

\* The queue is a bounded FIFO: its content is what the slots between tail_ and
\* head_ hold in memory.
Content ==
  [k \in 1 .. Len(head_) - Len(tail_) |-> slots_[SlotOf(Add(Own(tail_), k - 1))]]
Fifo == INSTANCE BoundedFifo
          WITH q <- Content, delivered <- SubSeq(received, 1, Len(tail_) - 1)
ImplementsFifo == Fifo!Spec
==============================================================================
