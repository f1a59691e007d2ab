-------------------------- MODULE SpscQueueProofs --------------------------
(***************************************************************************)
(* Safety of SpscQueue for every capacity, word size and payload set, and  *)
(* of the capstone's two threads that hand records over through it.  The   *)
(* inductive invariant ties every modular index to the position of its     *)
(* message in the modification order; the arithmetic that makes this       *)
(* possible (word arithmetic, slot numbers) comes first.  It carries over  *)
(* to the two threads because each of their steps is a step of SpscQueue.  *)
(***************************************************************************)
EXTENDS LogDrain, SequenceTheorems, DataLemmas

-----------------------------------------------------------------------------
(* The queue. *)

\* The assumption without its divisibility clause, which only SlotOfWrapped needs.
LEMMA Sizes ==
  /\ Capacity \in Nat \ {0} /\ Word \in Nat \ {0}
  /\ Capacity + 1 < Word
BY SpscAssumption

USE Sizes

LEMMA SmallMultiple ==
  ASSUME NEW n \in Nat \ {0}, NEW d \in Int, - n < n * d, n * d < n
  PROVE  d = 0
<1>1. CASE d >= 1
  <2>1. n * d >= n  BY <1>1
  <2> QED BY <2>1
<1>2. CASE d <= -1
  <2>1. n * d <= - n  BY <1>2
  <2> QED BY <2>1
<1> QED BY <1>1, <1>2

\* The word an unwrapped index is stored as.  The lemmas below are all that is used
\* of Wrap, SlotOf, Add and Sub from here on.
Wrap(n) == n % Word

\* An unwrapped difference below Word survives wrapping of both operands.
LEMMA SubMod ==
  ASSUME NEW a \in Int, NEW b \in Int, 0 <= a - b, a - b < Word
  PROVE  Sub(Wrap(a), Wrap(b)) = a - b
<1> DEFINE qa == a \div Word
           qb == b \div Word
<1>1. /\ a % Word \in Int /\ qa \in Int /\ a = Word * qa + (a % Word)
      /\ b % Word \in Int /\ qb \in Int /\ b = Word * qb + (b % Word)
  BY DivMod
<1>2. (a % Word) - (b % Word) = Word * (qb - qa) + (a - b)
  <2>1. Word * (qb - qa) = Word * qb - Word * qa  BY <1>1
  <2> QED BY <1>1, <2>1
<1>3. (Word * (qb - qa) + (a - b)) % Word = a - b
  <2>1. qb - qa \in Int /\ a - b \in 0 .. Word - 1  BY <1>1
  <2> QED BY <2>1, ModUnique
<1> QED BY <1>2, <1>3 DEF Sub, Wrap

LEMMA AddMod ==
  ASSUME NEW a \in Int, NEW k \in Int
  PROVE  Add(Wrap(a), k) = Wrap(a + k)
<1>1. PICK b \in Int : b = a + k  OBVIOUS
<1> DEFINE qa == a \div Word
           qb == b \div Word
           r == b % Word
<1>2. /\ a % Word \in Int /\ qa \in Int /\ a = Word * qa + (a % Word)
      /\ r \in 0 .. Word - 1 /\ qb \in Int /\ b = Word * qb + r
  <2>1. a % Word \in Int /\ qa \in Int /\ a = Word * qa + (a % Word)  BY DivMod
  <2>2. r \in 0 .. Word - 1 /\ qb \in Int /\ b = Word * qb + r  BY DivMod
  <2> QED BY <2>1, <2>2
<1> HIDE DEF qa, qb, r
<1>3. (a % Word) + k = Word * (qb - qa) + r
  <2>1. Word * (qb - qa) = Word * qb - Word * qa  BY <1>2
  <2>2. Word * qb \in Int /\ Word * qa \in Int  BY <1>2
  <2> QED BY <1>1, <1>2, <2>1, <2>2
<1>4. (Word * (qb - qa) + r) % Word = r
  <2>1. qb - qa \in Int  BY <1>2
  <2> QED BY <1>2, <2>1, ModUnique
<1> QED BY <1>1, <1>3, <1>4 DEF Add, Wrap, r

\* Capacity divides Word, so the mask of a wrapped index is the mask of the index.
LEMMA SlotOfWrapped ==
  ASSUME NEW a \in Int
  PROVE  SlotOf(Wrap(a)) = SlotOf(a)
<1> DEFINE q == a \div Word
           w == Word \div Capacity
           p == a \div Capacity
           r == a % Capacity
<1>1. a % Word \in Int /\ q \in Int /\ a = Word * q + (a % Word)  BY DivMod
<1>2. w \in Int /\ Word = Capacity * w  BY DivMod, SpscAssumption
<1>3. r \in 0 .. Capacity - 1 /\ p \in Int /\ a = Capacity * p + r  BY DivMod
<1> HIDE DEF q, w, p
<1>4. a % Word = Capacity * (p - w * q) + r
  <2>1. Word * q = Capacity * (w * q)  BY <1>1, <1>2
  <2>2. Capacity * (p - w * q) = Capacity * p - Capacity * (w * q)  BY <1>1, <1>2, <1>3
  <2>3. Capacity * p \in Int /\ Capacity * (w * q) \in Int  BY <1>1, <1>2, <1>3
  <2> QED BY <1>1, <1>3, <2>1, <2>2, <2>3
<1>5. (Capacity * (p - w * q) + r) % Capacity = r
  <2>1. p - w * q \in Int  BY <1>1, <1>2, <1>3
  <2> QED BY <1>3, <2>1, ModUnique
<1> QED BY <1>4, <1>5 DEF SlotOf, Wrap

\* Fewer than Capacity elements apart, two ordinals share a slot only if equal.
LEMMA SameSlot ==
  ASSUME NEW a \in Int, NEW b \in Int, SlotOf(a) = SlotOf(b),
         b <= a, a - b < Capacity
  PROVE  a = b
<1> DEFINE qa == a \div Capacity
           qb == b \div Capacity
<1>1. /\ a % Capacity \in Int /\ qa \in Int /\ a = Capacity * qa + (a % Capacity)
      /\ qb \in Int /\ b = Capacity * qb + (b % Capacity)
      /\ a % Capacity = b % Capacity
  BY DivMod DEF SlotOf
<1>2. a - b = Capacity * (qa - qb)
  <2>1. Capacity * (qa - qb) = Capacity * qa - Capacity * qb  BY <1>1
  <2> QED BY <1>1, <2>1
<1>3. qa - qb = 0
  <2>1. qa - qb \in Int  BY <1>1
  <2>2. - Capacity < Capacity * (qa - qb) /\ Capacity * (qa - qb) < Capacity  BY <1>2
  <2> QED BY <2>1, <2>2, SmallMultiple
<1> QED BY <1>2, <1>3
------------------------------------------------------------------------------
(* The inductive invariant.  H and T are the unwrapped indices. *)

H == Len(head_) - 1
T == Len(tail_) - 1

\* Message i of either index is the i-1st store: its wrapped ordinal, and a view of
\* the i-1 slot accesses before it.
LogInv ==
  /\ \A i \in 1 .. Len(head_) : head_[i] = [val |-> Wrap(i - 1), view |-> i - 1]
  /\ \A i \in 1 .. Len(tail_) : tail_[i] = [val |-> Wrap(i - 1), view |-> i - 1]

\* At most one slot access runs ahead of its publication.
CountInv ==
  /\ Len(sent) = IF ppc = "publish" THEN H + 1 ELSE H
  /\ Len(received) = IF cpc = "publish" THEN T + 1 ELSE T

\* The cached tail is the last message read, and leaves room for what is in the queue.
ProducerInv ==
  /\ cached_tail_ = Wrap(pSeen - 1) /\ pView = pSeen - 1
  /\ H - pView <= Capacity
  /\ ppc \in {"write", "publish"} => H + 1 - pView <= Capacity

\* The cached head is some message already read (size_approx reads newer ones without
\* caching them) that the consumer has not overtaken.
ConsumerInv ==
  /\ cView = cSeen - 1
  /\ \E i \in 1 .. cSeen : /\ cached_head_ = Wrap(i - 1)
                           /\ T <= i - 1
                           /\ cpc \in {"read", "publish"} => T < i - 1

\* An access recorded for a slot is an access of that slot.
EpochInv ==
  \A s \in Slots :
    /\ wEpoch[s] <= Len(sent) /\ (wEpoch[s] > 0 => SlotOf(wEpoch[s] - 1) = s)
    /\ rEpoch[s] <= Len(received) /\ (rEpoch[s] > 0 => SlotOf(rEpoch[s] - 1) = s)

\* Every element not yet freed is still in its slot, and what was read is what was sent.
DataInv ==
  /\ \A k \in T + 1 .. Len(sent) : slots_[SlotOf(k - 1)] = sent[k]
  /\ \A k \in 1 .. Len(received) : received[k] = sent[k]

IInv ==
  /\ TypeOK
  /\ LogInv /\ CountInv /\ ProducerInv /\ ConsumerInv /\ EpochInv /\ DataInv
------------------------------------------------------------------------------
(* Type correctness *)

LEMMA WordOps ==
  ASSUME NEW x \in Int, NEW y \in Int
  PROVE  Add(x, y) \in 0 .. Word - 1 /\ SlotOf(x) \in Slots
BY DEF Add, SlotOf, Slots

LEMMA TypeInit == Init => TypeOK
BY DEF Init, TypeOK, Message, Slots

LEMMA TypeStep == TypeOK /\ [Next]_vars => TypeOK'
<1> SUFFICES ASSUME TypeOK, [Next]_vars PROVE TypeOK'
  OBVIOUS
<1>1. /\ Own(head_) \in 0 .. Word - 1 /\ SlotOf(Own(head_)) \in Slots
      /\ Own(tail_) \in 0 .. Word - 1 /\ SlotOf(Own(tail_)) \in Slots
  <2>1. /\ head_[Len(head_)] \in Message /\ tail_[Len(tail_)] \in Message  BY DEF TypeOK
  <2>2. Own(head_) \in 0 .. Word - 1 /\ Own(tail_) \in 0 .. Word - 1
    BY <2>1 DEF Own, Message
  <2> QED BY <2>2, WordOps
<1>2. CASE PushBegin
  BY <1>2 DEF TypeOK, PushBegin, cvars
<1>3. ASSUME NEW i \in 1 .. Len(tail_), LoadTail(i) PROVE TypeOK'
  <2>1. tail_[i] \in Message  BY <1>3 DEF TypeOK
  <2> QED BY <1>3, <2>1 DEF TypeOK, LoadTail, cvars, Message, LoadTailView, LaterView
<1>4. ASSUME NEW v \in Value, WriteSlot(v) PROVE TypeOK'
  BY <1>1, <1>4, SMTT(30) DEF TypeOK, WriteSlot, cvars
<1>5. CASE StoreHead
  <2> DEFINE m == [val |-> Add(Own(head_), 1), view |-> StoreHeadView(Len(sent))]
  <2>1. m \in Message
    BY <1>1, WordOps DEF Message, StoreHeadView, TypeOK
  <2>2. head_' = Append(head_, m)
    BY <1>5 DEF StoreHead
  <2> HIDE DEF m
  <2>3. head_' \in Seq(Message) /\ head_' # << >> /\ Len(head_') = Len(head_) + 1
    <3>1. head_ \in Seq(Message)  BY DEF TypeOK
    <3> QED BY <2>1, <2>2, <3>1, AppendProperties
  <2> QED BY <1>5, <2>3 DEF TypeOK, StoreHead, cvars
<1>6. CASE PopBegin
  BY <1>6 DEF TypeOK, PopBegin, pvars
<1>7. ASSUME NEW i \in 1 .. Len(head_), LoadHead(i) \/ SizeApprox(i) PROVE TypeOK'
  <2>1. head_[i] \in Message  BY <1>7 DEF TypeOK
  <2>2. CASE LoadHead(i)
    BY <2>1, <2>2 DEF TypeOK, LoadHead, pvars, Message, LoadHeadView, LaterView
  <2>3. CASE SizeApprox(i)
    BY <2>1, <2>3 DEF TypeOK, SizeApprox, pvars, Message, LaterView
  <2> QED BY <1>7, <2>2, <2>3
<1>8. CASE ReadSlot
  BY <1>1, <1>8, SMTT(30) DEF TypeOK, ReadSlot, pvars
<1>9. CASE StoreTail
  <2> DEFINE m == [val |-> Add(Own(tail_), 1), view |-> StoreTailView(Len(received))]
  <2>1. m \in Message
    BY <1>1, WordOps DEF Message, StoreTailView, TypeOK
  <2>2. tail_' = Append(tail_, m)
    BY <1>9 DEF StoreTail
  <2> HIDE DEF m
  <2>3. tail_' \in Seq(Message) /\ tail_' # << >> /\ Len(tail_') = Len(tail_) + 1
    <3>1. tail_ \in Seq(Message)  BY DEF TypeOK
    <3> QED BY <2>1, <2>2, <3>1, AppendProperties
  <2> QED BY <1>9, <2>3 DEF TypeOK, StoreTail, pvars
<1>10. CASE UNCHANGED vars
  BY <1>10 DEF TypeOK, vars, pvars, cvars
<1> QED
  BY <1>2, <1>3, <1>4, <1>5, <1>6, <1>7, <1>8, <1>9, <1>10 DEF Next, Producer, Consumer

\* Every variable keeps its type: no index leaves the range of std::size_t, no slot
\* access leaves the array (SpscQueue.hpp's masking), for every Capacity and Word.
THEOREM TypeCorrect == Spec => []TypeOK
<1> QED BY TypeInit, TypeStep, PTL DEF Spec
------------------------------------------------------------------------------
(* What the inductive invariant says about one state *)

LEMMA Ordinals ==
  ASSUME IInv
  PROVE  /\ Len(head_) \in Nat \ {0} /\ Len(tail_) \in Nat \ {0}
         /\ H \in Nat /\ T \in Nat /\ H = Len(head_) - 1 /\ T = Len(tail_) - 1
         /\ Len(sent) \in Nat /\ Len(received) \in Nat
         /\ pSeen \in 1 .. Len(tail_) /\ cSeen \in 1 .. Len(head_)
         /\ pView \in Nat /\ cView \in Nat
BY DEF IInv, TypeOK, H, T

\* tail_ <= what the consumer has seen of head_ <= head_, the producer's view of tail_
\* is not ahead of it, and no more than Capacity elements are written and not freed.
LEMMA Bounds ==
  ASSUME IInv
  PROVE  /\ T <= cView /\ cView <= H /\ T <= H
         /\ pView <= T /\ H - T <= Capacity
         /\ Len(sent) >= H /\ Len(sent) - T <= Capacity
         /\ Len(received) >= T /\ Len(received) <= H
<1>1. PICK i \in 1 .. cSeen : T <= i - 1 /\ (cpc \in {"read", "publish"} => T < i - 1)
  BY DEF IInv, ConsumerInv
<1>2. T <= cView /\ cView <= H /\ T <= H /\ pView <= T
  <2>1. cView = cSeen - 1 /\ pView = pSeen - 1  BY DEF IInv, ConsumerInv, ProducerInv
  <2> QED BY <1>1, <2>1, Ordinals
<1>3. H - T <= Capacity /\ (ppc \in {"write", "publish"} => H + 1 - pView <= Capacity)
  BY Ordinals, <1>2, SMTT(30) DEF IInv, ProducerInv
<1>4. Len(sent) >= H /\ Len(sent) - T <= Capacity
  BY Ordinals, <1>2, <1>3 DEF IInv, CountInv
<1>5. Len(received) >= T /\ Len(received) <= H
  BY Ordinals, <1>1, <1>2, SMTT(30) DEF IInv, CountInv, ConsumerInv
<1> QED BY <1>2, <1>3, <1>4, <1>5

LEMMA OwnIndex ==
  ASSUME IInv
  PROVE  /\ Own(head_) = Wrap(H) /\ SlotOf(Own(head_)) = SlotOf(H)
         /\ Own(tail_) = Wrap(T) /\ SlotOf(Own(tail_)) = SlotOf(T)
<1>1. Len(head_) \in 1 .. Len(head_) /\ Len(tail_) \in 1 .. Len(tail_) /\ H \in Int /\ T \in Int
  BY Ordinals
<1>2. Own(head_) = Wrap(H) /\ Own(tail_) = Wrap(T)
  <2>1. /\ head_[Len(head_)] = [val |-> Wrap(Len(head_) - 1), view |-> Len(head_) - 1]
        /\ tail_[Len(tail_)] = [val |-> Wrap(Len(tail_) - 1), view |-> Len(tail_) - 1]
    BY <1>1 DEF IInv, LogInv
  <2> QED BY <2>1 DEF Own, H, T
<1> QED BY <1>1, <1>2, SlotOfWrapped

\* What a load of either index returns, and the view an acquire leaves behind.
LEMMA Messages ==
  ASSUME IInv
  PROVE  /\ \A i \in 1 .. Len(head_) :
              head_[i].val = Wrap(i - 1) /\ head_[i].view = i - 1
         /\ \A i \in 1 .. Len(tail_) :
              tail_[i].val = Wrap(i - 1) /\ tail_[i].view = i - 1
<1>1. ASSUME NEW i \in 1 .. Len(head_)
      PROVE  head_[i].val = Wrap(i - 1) /\ head_[i].view = i - 1
  <2>1. head_[i] = [val |-> Wrap(i - 1), view |-> i - 1]  BY DEF IInv, LogInv
  <2> QED BY <2>1
<1>2. ASSUME NEW i \in 1 .. Len(tail_)
      PROVE  tail_[i].val = Wrap(i - 1) /\ tail_[i].view = i - 1
  <2>1. tail_[i] = [val |-> Wrap(i - 1), view |-> i - 1]  BY DEF IInv, LogInv
  <2> QED BY <2>1
<1> QED BY <1>1, <1>2

LEMMA Acquire ==
  ASSUME NEW n \in Int, NEW m \in Int, n <= m, NEW msg, msg.view = m
  PROVE  LaterView(n, msg) = m
BY DEF LaterView

\* The full test, on wrapped indices, counts the elements.
LEMMA FullCounts ==
  ASSUME IInv, NEW i \in 1 .. Len(tail_), H - (i - 1) <= Capacity
  PROVE  Full(Wrap(i - 1)) <=> H + 1 - (i - 1) > Capacity
<1> DEFINE n == H + 1
           t == i - 1
<1>1. n \in Int /\ t \in Int /\ t <= H
  <2>1. i - 1 <= T  BY Ordinals
  <2> QED BY <2>1, Ordinals, Bounds
<1>2. 0 <= n - t /\ n - t < Word
  BY <1>1, Ordinals
<1>3. Add(Own(head_), 1) = Wrap(n)
  <2>1. Add(Wrap(H), 1) = Wrap(H + 1)  BY Ordinals, AddMod
  <2> QED BY <2>1, OwnIndex
<1> HIDE DEF n, t
<1>4. Sub(Wrap(n), Wrap(t)) = n - t
  BY <1>1, <1>2, SubMod
<1>5. Full(Wrap(t)) <=> n - t > Capacity
  BY <1>3, <1>4 DEF Full
<1> QED BY <1>5, Ordinals DEF n, t

\* The empty test, on wrapped indices, is equality of the ordinals.
LEMMA EmptyMeans ==
  ASSUME IInv, NEW i \in 1 .. Len(head_), T <= i - 1
  PROVE  Empty(Wrap(i - 1)) <=> T = i - 1
<1> DEFINE h == i - 1
<1>1. h \in Int /\ T \in Int /\ 0 <= h - T /\ h - T < Word
  <2>1. i - 1 <= H /\ H - T <= Capacity  BY Ordinals, Bounds
  <2> QED BY <2>1, Ordinals
<1> HIDE DEF h
<1>2. Sub(Wrap(h), Wrap(T)) = h - T
  BY <1>1, SubMod
<1>3. Sub(Wrap(T), Wrap(T)) = 0
  <2>1. T - T = 0 /\ 0 < Word  BY <1>1
  <2>2. Sub(Wrap(T), Wrap(T)) = T - T  BY <1>1, <2>1, SubMod
  <2> QED BY <2>1, <2>2
<1>4. Wrap(T) = Wrap(h) <=> T = h
  BY <1>1, <1>2, <1>3
<1>5. Empty(Wrap(h)) <=> T = h
  BY <1>4, OwnIndex DEF Empty
<1> QED BY <1>5 DEF h

LEMMA InvRaceFree == IInv => RaceFree
<1> SUFFICES ASSUME IInv PROVE RaceFree
  OBVIOUS
<1> DEFINE a == SlotOf(H)
           b == SlotOf(T)
<1>1. a \in Slots /\ b \in Slots
  BY Ordinals, WordOps
<1>2. ASSUME ppc = "write", rEpoch[a] > pView PROVE FALSE
  <2> DEFINE e == rEpoch[a] - 1
  <2>1. e \in Int /\ e >= pView /\ e < H
    <3>1. rEpoch[a] \in Nat /\ rEpoch[a] <= Len(received)
      BY <1>1 DEF IInv, TypeOK, EpochInv
    <3> HIDE DEF a
    <3> QED BY <1>2, <3>1, Ordinals, Bounds, SMTT(30)
  <2>2. H - e < Capacity
    <3>1. H + 1 - pView <= Capacity  BY <1>2 DEF IInv, ProducerInv
    <3> HIDE DEF e
    <3> QED BY <2>1, <3>1, Ordinals
  <2>3. SlotOf(e) = SlotOf(H)
    <3>1. rEpoch[a] > 0  BY <1>1, <1>2, Ordinals DEF IInv, TypeOK
    <3> QED BY <1>1, <3>1 DEF IInv, EpochInv
  <2> HIDE DEF e, a
  <2>4. H = e  BY <2>1, <2>2, <2>3, Ordinals, SameSlot
  <2> QED BY <2>1, <2>4, Ordinals
<1>3. ASSUME cpc = "read", wEpoch[b] > cView PROVE FALSE
  <2> DEFINE e == wEpoch[b] - 1
  <2>1. T < cView
    <3>1. PICK i \in 1 .. cSeen : T < i - 1  BY <1>3 DEF IInv, ConsumerInv
    <3>2. cView = cSeen - 1  BY DEF IInv, ConsumerInv
    <3> QED BY <3>1, <3>2, Ordinals
  <2>2. e \in Int /\ T < e /\ e - T < Capacity
    <3>1. wEpoch[b] \in Nat /\ wEpoch[b] <= Len(sent)
      BY <1>1 DEF IInv, TypeOK, EpochInv
    <3>2. PICK n \in Nat : n = wEpoch[b]  BY <3>1
    <3>3. T < n - 1 /\ (n - 1) - T < Capacity
      BY <1>3, <2>1, <3>1, <3>2, Ordinals, Bounds, SMTT(30)
    <3> QED BY <3>2, <3>3
  <2>3. SlotOf(e) = SlotOf(T)
    <3>1. wEpoch[b] > 0  BY <1>1, <1>3, Ordinals DEF IInv, TypeOK
    <3> QED BY <1>1, <3>1 DEF IInv, EpochInv
  <2> HIDE DEF e, b
  <2>4. e = T  BY <2>2, <2>3, Ordinals, SameSlot
  <2> QED BY <2>2, <2>4, Ordinals
<1>4. rEpoch[a] \in Nat /\ wEpoch[b] \in Nat /\ pView \in Nat /\ cView \in Nat
  BY <1>1 DEF IInv, TypeOK
<1> HIDE DEF a, b
<1>5. /\ ppc = "write" => rEpoch[a] <= pView
      /\ cpc = "read" => wEpoch[b] <= cView
  BY <1>2, <1>3, <1>4
<1> QED BY <1>5, OwnIndex DEF RaceFree, a, b

LEMMA InvFifoDelivery == IInv => FifoDelivery
<1> SUFFICES ASSUME IInv PROVE FifoDelivery
  OBVIOUS
<1>1. Len(received) < Len(head_) /\ Len(received) <= Len(sent)  BY Ordinals, Bounds
<1>2. \A k \in 1 .. Len(received) : received[k] = sent[k]  BY DEF IInv, DataInv
<1> QED BY <1>1, <1>2 DEF FifoDelivery
------------------------------------------------------------------------------
(* Every step preserves the inductive invariant: one lemma per action *)

LEMMA InitInv == Init => IInv
<1> SUFFICES ASSUME Init PROVE IInv
  OBVIOUS
<1>1. TypeOK  BY TypeInit
<1>2. Wrap(0) = 0
  <2>1. 0 \in Int /\ 0 \in 0 .. Word - 1 /\ Word * 0 + 0 = 0  OBVIOUS
  <2> QED BY <2>1, ModUnique DEF Wrap
<1>3. /\ Len(head_) = 1 /\ Len(tail_) = 1 /\ H = 0 /\ T = 0
      /\ Len(sent) = 0 /\ Len(received) = 0
  BY DEF Init, H, T
<1>4. LogInv
  BY <1>2, <1>3 DEF Init, LogInv
<1>5. CountInv /\ ProducerInv
  BY <1>2, <1>3 DEF Init, CountInv, ProducerInv
<1>6. ConsumerInv
  BY <1>2, <1>3 DEF Init, ConsumerInv
<1>7. EpochInv /\ DataInv
  BY <1>3 DEF Init, EpochInv, DataInv
<1> QED BY <1>1, <1>4, <1>5, <1>6, <1>7 DEF IInv

LEMMA PushBeginInv ==
  ASSUME IInv, PushBegin PROVE IInv'
<1> USE DEF PushBegin, cvars
<1>1. TypeOK'  BY TypeStep DEF IInv, Next, Producer
<1>2. H' = H /\ T' = T  BY DEF H, T
<1>3. LogInv' /\ CountInv'  BY <1>2 DEF IInv, LogInv, CountInv
<1>4. ProducerInv'
  <2>1. cached_tail_ = Wrap(pSeen - 1) /\ pView = pSeen - 1 /\ H - pView <= Capacity
    BY DEF IInv, ProducerInv
  <2>2. ppc' = "write" => H + 1 - pView <= Capacity
    <3>1. Full(cached_tail_) <=> H + 1 - (pSeen - 1) > Capacity
      BY <2>1, FullCounts, Ordinals
    <3> QED BY <2>1, <3>1, Ordinals, SMTT(30)
  <2>3. ppc' # "publish"  OBVIOUS
  <2> QED BY <1>2, <2>1, <2>2, <2>3 DEF ProducerInv
<1>5. ConsumerInv'  BY <1>2 DEF IInv, ConsumerInv
<1>6. EpochInv' /\ DataInv'  BY <1>2 DEF IInv, EpochInv, DataInv
<1> QED BY <1>1, <1>3, <1>4, <1>5, <1>6 DEF IInv

LEMMA LoadTailInv ==
  ASSUME IInv, NEW i \in 1 .. Len(tail_), LoadTail(i) PROVE IInv'
<1> USE DEF LoadTail, cvars
<1>1. TypeOK'  BY TypeStep DEF IInv, Next, Producer
<1>2. H' = H /\ T' = T  BY DEF H, T
<1>3. LogInv' /\ CountInv'  BY <1>2 DEF IInv, LogInv, CountInv
<1>4. ProducerInv'
  <2>1. pView = pSeen - 1 /\ H - pView <= Capacity /\ pSeen <= i
    BY DEF IInv, ProducerInv
  <2>2. tail_[i].val = Wrap(i - 1) /\ tail_[i].view = i - 1
    BY Messages
  <2>3. cached_tail_' = Wrap(i - 1) /\ pSeen' = i
    BY <2>2
  <2>4. pView' = i - 1
    <3>1. pSeen - 1 \in Int /\ i - 1 \in Int /\ pSeen - 1 <= i - 1  BY <2>1, Ordinals
    <3> QED BY <2>1, <2>2, <3>1, Acquire DEF LoadTailView
  <2>5. H - (i - 1) <= Capacity
    BY <2>1, Ordinals, SMTT(30)
  <2>6. ppc' = "write" => H + 1 - (i - 1) <= Capacity
    <3>1. Full(Wrap(i - 1)) <=> H + 1 - (i - 1) > Capacity
      BY <2>5, FullCounts
    <3> QED BY <2>2, <3>1, Ordinals
  <2>7. ppc' # "publish"  OBVIOUS
  <2> QED BY <1>2, <2>3, <2>4, <2>5, <2>6, <2>7 DEF ProducerInv
<1>5. ConsumerInv'  BY <1>2 DEF IInv, ConsumerInv
<1>6. EpochInv' /\ DataInv'  BY <1>2 DEF IInv, EpochInv, DataInv
<1> QED BY <1>1, <1>3, <1>4, <1>5, <1>6 DEF IInv

LEMMA WriteSlotInv ==
  ASSUME IInv, NEW v \in Value, WriteSlot(v) PROVE IInv'
<1> USE DEF WriteSlot, cvars
<1>1. TypeOK'  BY TypeStep DEF IInv, Next, Producer
<1>2. H' = H /\ T' = T  BY DEF H, T
<1>3. ppc = "write" /\ ppc' = "publish" /\ Len(sent) = H /\ H + 1 - pView <= Capacity
  BY DEF IInv, CountInv, ProducerInv
<1>4. Len(sent') = H + 1 /\ sent'[H + 1] = v /\ \A k \in 1 .. H : sent'[k] = sent[k]
  <2>1. sent \in Seq(Value)  BY DEF IInv, TypeOK
  <2> QED BY <1>3, <2>1, AppendProperties
<1>5. LogInv'  BY DEF IInv, LogInv
<1>6. CountInv'  BY <1>2, <1>3, <1>4 DEF IInv, CountInv
<1>7. ProducerInv'  BY <1>2, <1>3 DEF IInv, ProducerInv
<1>8. ConsumerInv'  BY <1>2 DEF IInv, ConsumerInv
<1> DEFINE s == SlotOf(H)
<1>9. /\ s \in Slots
      /\ wEpoch' = [wEpoch EXCEPT ![s] = H + 1]
      /\ slots_' = [slots_ EXCEPT ![s] = v]
  BY <1>3, OwnIndex, Ordinals, WordOps
<1>10. EpochInv'
  <2>1. wEpoch'[s] = H + 1
    BY <1>9 DEF IInv, TypeOK
  <2>2. ASSUME NEW r \in Slots
        PROVE  wEpoch'[r] <= Len(sent') /\ (wEpoch'[r] > 0 => SlotOf(wEpoch'[r] - 1) = r)
    <3>1. CASE r = s
      <4>1. (H + 1) - 1 = H  BY Ordinals
      <4> QED BY <1>4, <2>1, <3>1, <4>1, Ordinals
    <3>2. CASE r # s
      <4>1. wEpoch'[r] = wEpoch[r] /\ wEpoch[r] \in Nat
        BY <1>9, <3>2 DEF IInv, TypeOK
      <4>2. wEpoch[r] <= H /\ (wEpoch[r] > 0 => SlotOf(wEpoch[r] - 1) = r)
        BY <1>3 DEF IInv, EpochInv
      <4> QED BY <1>4, <4>1, <4>2, Ordinals
    <3> QED BY <3>1, <3>2
  <2>3. rEpoch' = rEpoch /\ received' = received  OBVIOUS
  <2> QED BY <2>2, <2>3 DEF IInv, EpochInv
<1>11. DataInv'
  <2>1. ASSUME NEW k \in T + 1 .. Len(sent')
        PROVE  slots_'[SlotOf(k - 1)] = sent'[k]
    <3>1. k \in Nat /\ T < k /\ k <= H + 1  BY <1>4, Ordinals
    <3>2. CASE k = H + 1
      <4>1. k - 1 = H  BY <3>2, Ordinals
      <4>2. slots_'[s] = v  BY <1>9 DEF IInv, TypeOK
      <4> QED BY <1>4, <3>2, <4>1, <4>2
    <3>3. CASE k # H + 1
      <4>1. k - 1 \in Int /\ k \in 1 .. H /\ k - 1 < H /\ H - (k - 1) < Capacity
        BY <1>3, <3>1, <3>3, Ordinals, Bounds
      <4>2. SlotOf(k - 1) # s
        BY <4>1, SameSlot, Ordinals
      <4>3. SlotOf(k - 1) \in Slots  BY <4>1, WordOps
      <4>4. slots_'[SlotOf(k - 1)] = slots_[SlotOf(k - 1)]
        BY <1>9, <4>2, <4>3 DEF IInv, TypeOK
      <4>5. slots_[SlotOf(k - 1)] = sent[k]
        BY <1>3, <3>1, <4>1, Ordinals, SMTT(30) DEF IInv, DataInv
      <4> QED BY <1>4, <4>1, <4>4, <4>5
    <3> QED BY <3>2, <3>3
  <2>2. ASSUME NEW k \in 1 .. Len(received) PROVE received[k] = sent'[k]
    <3>1. k \in 1 .. H  BY Ordinals, Bounds
    <3> QED BY <1>4, <3>1 DEF IInv, DataInv
  <2>3. received' = received  OBVIOUS
  <2> QED BY <1>2, <2>1, <2>2, <2>3 DEF DataInv
<1> QED BY <1>1, <1>5, <1>6, <1>7, <1>8, <1>10, <1>11 DEF IInv

LEMMA StoreHeadInv ==
  ASSUME IInv, StoreHead PROVE IInv'
<1> USE DEF StoreHead, cvars
<1>1. TypeOK'  BY TypeStep DEF IInv, Next, Producer
<1>2. ppc = "publish" /\ ppc' = "idle" /\ Len(sent) = H + 1 /\ H + 1 - pView <= Capacity
  BY DEF IInv, CountInv, ProducerInv
<1> DEFINE m == [val |-> Wrap(H + 1), view |-> H + 1]
<1>3. head_' = Append(head_, m)
  <2>1. Add(Own(head_), 1) = Wrap(H + 1)  BY OwnIndex, AddMod, Ordinals
  <2> QED BY <1>2, <2>1 DEF StoreHeadView
<1>4. /\ Len(head_') = Len(head_) + 1 /\ head_'[Len(head_) + 1] = m
      /\ \A i \in 1 .. Len(head_) : head_'[i] = head_[i]
  <2>1. head_ \in Seq(Message)  BY DEF IInv, TypeOK
  <2>2. m \in Message
    <3>1. Wrap(H + 1) \in 0 .. Word - 1  BY Ordinals DEF Wrap
    <3> QED BY <3>1, Ordinals DEF Message
  <2> HIDE DEF m
  <2> QED BY <1>3, <2>1, <2>2, AppendProperties
<1>5. H' = H + 1 /\ T' = T  BY <1>4, Ordinals DEF H, T
<1>6. LogInv'
  <2>1. ASSUME NEW i \in 1 .. Len(head_')
        PROVE  head_'[i] = [val |-> Wrap(i - 1), view |-> i - 1]
    <3>1. CASE i = Len(head_) + 1
      <4>1. i - 1 = H + 1  BY <3>1, Ordinals
      <4> QED BY <1>4, <3>1, <4>1
    <3>2. CASE i # Len(head_) + 1
      <4>1. i \in 1 .. Len(head_)  BY <1>4, <3>2, Ordinals
      <4> QED BY <1>4, <4>1 DEF IInv, LogInv
    <3> QED BY <3>1, <3>2
  <2>2. tail_' = tail_  OBVIOUS
  <2> QED BY <2>1, <2>2 DEF IInv, LogInv
<1>7. CountInv'  BY <1>2, <1>5 DEF IInv, CountInv
<1>8. ProducerInv'
  <2>1. cached_tail_' = cached_tail_ /\ pSeen' = pSeen /\ pView' = pView  OBVIOUS
  <2>2. cached_tail_ = Wrap(pSeen - 1) /\ pView = pSeen - 1  BY DEF IInv, ProducerInv
  <2> HIDE DEF m, StoreHead
  <2>3. H' - pView' <= Capacity  BY <1>2, <1>5, <2>1, Ordinals
  <2> QED BY <1>2, <2>1, <2>2, <2>3 DEF ProducerInv
<1>9. ConsumerInv'  BY <1>5 DEF IInv, ConsumerInv
<1>10. EpochInv' /\ DataInv'  BY <1>5 DEF IInv, EpochInv, DataInv
<1> QED BY <1>1, <1>6, <1>7, <1>8, <1>9, <1>10 DEF IInv

LEMMA PopBeginInv ==
  ASSUME IInv, PopBegin PROVE IInv'
<1> USE DEF PopBegin, pvars
<1>1. TypeOK'  BY TypeStep DEF IInv, Next, Consumer
<1>2. H' = H /\ T' = T  BY DEF H, T
<1>3. LogInv' /\ CountInv'  BY <1>2 DEF IInv, LogInv, CountInv
<1>4. ProducerInv'  BY <1>2 DEF IInv, ProducerInv
<1>5. ConsumerInv'
  <2>1. PICK i \in 1 .. cSeen : cached_head_ = Wrap(i - 1) /\ T <= i - 1
    BY DEF IInv, ConsumerInv
  <2>2. Empty(cached_head_) <=> T = i - 1
    <3>1. i \in 1 .. Len(head_)  BY Ordinals
    <3> QED BY <2>1, <3>1, EmptyMeans
  <2>3. cpc' \in {"read", "publish"} => T < i - 1
    BY <2>1, <2>2, Ordinals
  <2>4. cView = cSeen - 1  BY DEF IInv, ConsumerInv
  <2> QED BY <1>2, <2>1, <2>3, <2>4 DEF ConsumerInv
<1>6. EpochInv' /\ DataInv'  BY <1>2 DEF IInv, EpochInv, DataInv
<1> QED BY <1>1, <1>3, <1>4, <1>5, <1>6 DEF IInv

LEMMA LoadHeadInv ==
  ASSUME IInv, NEW i \in 1 .. Len(head_), LoadHead(i) PROVE IInv'
<1> USE DEF LoadHead, pvars
<1>1. TypeOK'  BY TypeStep DEF IInv, Next, Consumer
<1>2. H' = H /\ T' = T  BY DEF H, T
<1>3. LogInv' /\ CountInv'  BY <1>2 DEF IInv, LogInv, CountInv
<1>4. ProducerInv'  BY <1>2 DEF IInv, ProducerInv
<1>5. ConsumerInv'
  <2>1. cView = cSeen - 1 /\ cSeen <= i  BY DEF IInv, ConsumerInv
  <2>2. head_[i].val = Wrap(i - 1) /\ head_[i].view = i - 1  BY Messages
  <2>3. cached_head_' = Wrap(i - 1) /\ cSeen' = i  BY <2>2
  <2>4. cView' = i - 1
    <3>1. cSeen - 1 \in Int /\ i - 1 \in Int /\ cSeen - 1 <= i - 1  BY <2>1, Ordinals
    <3> QED BY <2>1, <2>2, <3>1, Acquire DEF LoadHeadView
  <2>5. T <= i - 1
    <3>1. T <= cSeen - 1  BY <2>1, Bounds
    <3> QED BY <2>1, <3>1, Ordinals
  <2>6. cpc' \in {"read", "publish"} => T < i - 1
    <3>1. Empty(Wrap(i - 1)) <=> T = i - 1  BY <2>5, EmptyMeans
    <3> QED BY <2>2, <2>5, <3>1, Ordinals
  <2>7. i \in 1 .. cSeen'  BY <2>3
  <2> QED BY <1>2, <2>3, <2>4, <2>5, <2>6, <2>7 DEF ConsumerInv
<1>6. EpochInv' /\ DataInv'  BY <1>2 DEF IInv, EpochInv, DataInv
<1> QED BY <1>1, <1>3, <1>4, <1>5, <1>6 DEF IInv

LEMMA SizeApproxInv ==
  ASSUME IInv, NEW i \in 1 .. Len(head_), SizeApprox(i) PROVE IInv'
<1> USE DEF SizeApprox, pvars
<1>1. TypeOK'  BY TypeStep DEF IInv, Next, Consumer
<1>2. H' = H /\ T' = T  BY DEF H, T
<1>3. LogInv' /\ CountInv'  BY <1>2 DEF IInv, LogInv, CountInv
<1>4. ProducerInv'  BY <1>2 DEF IInv, ProducerInv
<1>5. ConsumerInv'
  <2>1. cView = cSeen - 1 /\ cSeen <= i /\ cSeen' = i  BY DEF IInv, ConsumerInv
  <2>2. cView' = i - 1
    <3>1. cSeen - 1 \in Int /\ i - 1 \in Int /\ cSeen - 1 <= i - 1  BY <2>1, Ordinals
    <3> QED BY <2>1, <3>1, Acquire, Messages
  <2>3. PICK j \in 1 .. cSeen : cached_head_ = Wrap(j - 1) /\ T <= j - 1
    BY DEF IInv, ConsumerInv
  <2>4. j \in 1 .. cSeen'  BY <2>1, Ordinals
  <2> QED BY <1>2, <2>1, <2>2, <2>3, <2>4 DEF ConsumerInv
<1>6. EpochInv' /\ DataInv'  BY <1>2 DEF IInv, EpochInv, DataInv
<1> QED BY <1>1, <1>3, <1>4, <1>5, <1>6 DEF IInv

LEMMA ReadSlotInv ==
  ASSUME IInv, ReadSlot PROVE IInv'
<1> USE DEF ReadSlot, pvars
<1>1. TypeOK'  BY TypeStep DEF IInv, Next, Consumer
<1>2. H' = H /\ T' = T  BY DEF H, T
<1>3. cpc = "read" /\ cpc' = "publish" /\ Len(received) = T
  BY DEF IInv, CountInv
<1> DEFINE s == SlotOf(T)
<1>4. /\ s \in Slots
      /\ received' = Append(received, slots_[s])
      /\ rEpoch' = [rEpoch EXCEPT ![s] = T + 1]
  <2>1. s \in Slots  BY Ordinals, WordOps
  <2>2. SlotOf(Own(tail_)) = s  BY OwnIndex
  <2> HIDE DEF s
  <2> QED BY <1>3, <2>1, <2>2
<1>5. /\ Len(received') = T + 1 /\ received'[T + 1] = slots_[s]
      /\ \A k \in 1 .. T : received'[k] = received[k]
  <2>1. received \in Seq(Value \cup {Blank}) /\ slots_[s] \in Value \cup {Blank}
    BY <1>4 DEF IInv, TypeOK
  <2> HIDE DEF s
  <2> QED BY <1>3, <1>4, <2>1, AppendProperties
<1>6. LogInv'  BY DEF IInv, LogInv
<1>7. CountInv'  BY <1>2, <1>3, <1>5 DEF IInv, CountInv
<1>8. ProducerInv'  BY <1>2 DEF IInv, ProducerInv
<1>9. ConsumerInv'  BY <1>2, <1>3 DEF IInv, ConsumerInv
<1>10. EpochInv'
  <2>1. rEpoch'[s] = T + 1
    BY <1>4 DEF IInv, TypeOK
  <2>2. ASSUME NEW r \in Slots
        PROVE  rEpoch'[r] <= Len(received') /\ (rEpoch'[r] > 0 => SlotOf(rEpoch'[r] - 1) = r)
    <3>1. CASE r = s
      <4>1. (T + 1) - 1 = T  BY Ordinals
      <4> QED BY <1>5, <2>1, <3>1, <4>1, Ordinals
    <3>2. CASE r # s
      <4>1. rEpoch'[r] = rEpoch[r] /\ rEpoch[r] \in Nat
        BY <1>4, <3>2 DEF IInv, TypeOK
      <4>2. rEpoch[r] <= T /\ (rEpoch[r] > 0 => SlotOf(rEpoch[r] - 1) = r)
        BY <1>3 DEF IInv, EpochInv
      <4> QED BY <1>5, <4>1, <4>2, Ordinals
    <3> QED BY <3>1, <3>2
  <2>3. wEpoch' = wEpoch /\ sent' = sent  OBVIOUS
  <2> QED BY <2>2, <2>3 DEF IInv, EpochInv
<1>11. DataInv'
  <2>1. T < H
    <3>1. PICK i \in 1 .. cSeen : T < i - 1  BY <1>3 DEF IInv, ConsumerInv
    <3> QED BY <3>1, Ordinals
  <2>2. slots_[s] = sent[T + 1]
    <3>1. T + 1 \in T + 1 .. Len(sent) /\ (T + 1) - 1 = T
      BY <1>3, <2>1, Ordinals, Bounds
    <3> QED BY <3>1 DEF IInv, DataInv
  <2>3. ASSUME NEW k \in 1 .. Len(received') PROVE received'[k] = sent[k]
    <3>1. CASE k = T + 1  BY <1>5, <2>2, <3>1
    <3>2. CASE k # T + 1
      <4>1. k \in 1 .. T  BY <1>5, <3>2, Ordinals
      <4> QED BY <1>3, <1>5, <4>1 DEF IInv, DataInv
    <3> QED BY <3>1, <3>2
  <2>4. sent' = sent /\ slots_' = slots_  OBVIOUS
  <2> QED BY <1>2, <2>3, <2>4 DEF IInv, DataInv
<1> QED BY <1>1, <1>6, <1>7, <1>8, <1>9, <1>10, <1>11 DEF IInv

LEMMA StoreTailInv ==
  ASSUME IInv, StoreTail PROVE IInv'
<1> USE DEF StoreTail, pvars
<1>1. TypeOK'  BY TypeStep DEF IInv, Next, Consumer
<1>2. cpc = "publish" /\ cpc' = "idle" /\ Len(received) = T + 1
  BY DEF IInv, CountInv
<1> DEFINE m == [val |-> Wrap(T + 1), view |-> T + 1]
<1>3. tail_' = Append(tail_, m)
  <2>1. Add(Own(tail_), 1) = Wrap(T + 1)  BY OwnIndex, AddMod, Ordinals
  <2> QED BY <1>2, <2>1 DEF StoreTailView
<1>4. /\ Len(tail_') = Len(tail_) + 1 /\ tail_'[Len(tail_) + 1] = m
      /\ \A i \in 1 .. Len(tail_) : tail_'[i] = tail_[i]
  <2>1. tail_ \in Seq(Message)  BY DEF IInv, TypeOK
  <2>2. m \in Message
    <3>1. Wrap(T + 1) \in 0 .. Word - 1  BY Ordinals DEF Wrap
    <3> QED BY <3>1, Ordinals DEF Message
  <2> HIDE DEF m
  <2> QED BY <1>3, <2>1, <2>2, AppendProperties
<1>5. H' = H /\ T' = T + 1  BY <1>4, Ordinals DEF H, T
<1>6. LogInv'
  <2>1. ASSUME NEW i \in 1 .. Len(tail_')
        PROVE  tail_'[i] = [val |-> Wrap(i - 1), view |-> i - 1]
    <3>1. CASE i = Len(tail_) + 1
      <4>1. i - 1 = T + 1  BY <3>1, Ordinals
      <4> QED BY <1>4, <3>1, <4>1
    <3>2. CASE i # Len(tail_) + 1
      <4>1. i \in 1 .. Len(tail_)  BY <1>4, <3>2, Ordinals
      <4> QED BY <1>4, <4>1 DEF IInv, LogInv
    <3> QED BY <3>1, <3>2
  <2>2. head_' = head_  OBVIOUS
  <2> QED BY <2>1, <2>2 DEF IInv, LogInv
<1>7. CountInv'  BY <1>2, <1>5 DEF IInv, CountInv
<1>8. ProducerInv'  BY <1>5 DEF IInv, ProducerInv
<1>9. ConsumerInv'
  <2>1. PICK i \in 1 .. cSeen : cached_head_ = Wrap(i - 1) /\ T < i - 1
    BY <1>2 DEF IInv, ConsumerInv
  <2>2. T + 1 <= i - 1  BY <2>1, Ordinals
  <2>3. cView = cSeen - 1  BY DEF IInv, ConsumerInv
  <2>4. cached_head_' = cached_head_ /\ cSeen' = cSeen /\ cView' = cView  OBVIOUS
  <2> HIDE DEF m, StoreTail
  <2> QED BY <1>2, <1>5, <2>1, <2>2, <2>3, <2>4 DEF ConsumerInv
<1>10. EpochInv'  BY DEF IInv, EpochInv
<1>11. DataInv'
  <2>1. \A k \in T + 2 .. Len(sent) : k \in T + 1 .. Len(sent)  BY Ordinals
  <2>2. T' + 1 = T + 2  BY <1>5, Ordinals
  <2>3. sent' = sent /\ received' = received /\ slots_' = slots_  OBVIOUS
  <2> HIDE DEF m, StoreTail
  <2> QED BY <2>1, <2>2, <2>3 DEF IInv, DataInv
<1> QED BY <1>1, <1>6, <1>7, <1>8, <1>9, <1>10, <1>11 DEF IInv

LEMMA StepInv == IInv /\ [Next]_vars => IInv'
<1> SUFFICES ASSUME IInv, [Next]_vars PROVE IInv'
  OBVIOUS
<1>1. CASE Producer
  BY <1>1, PushBeginInv, LoadTailInv, WriteSlotInv, StoreHeadInv DEF Producer
<1>2. CASE Consumer
  BY <1>2, PopBeginInv, LoadHeadInv, SizeApproxInv, ReadSlotInv, StoreTailInv DEF Consumer
<1>3. CASE UNCHANGED vars
  BY <1>3 DEF vars, pvars, cvars, IInv, TypeOK, LogInv, CountInv, ProducerInv,
              ConsumerInv, EpochInv, DataInv, H, T
<1> QED BY <1>1, <1>2, <1>3 DEF Next

LEMMA Inductive == Spec => []IInv
<1> QED BY InitInv, StepInv, PTL DEF Spec

\* No slot is ever read and written without an acquire/release edge between the two
\* accesses: the orderings on head_ and tail_ suffice, for every capacity.
THEOREM NoDataRace == Spec => []RaceFree
<1> QED BY Inductive, InvRaceFree, PTL

\* What try_pop returned so far is a prefix of what try_push accepted.
THEOREM DeliversInOrder == Spec => []FifoDelivery
<1> QED BY Inductive, InvFifoDelivery, PTL

LEMMA StepFullIsFull ==
  IInv /\ [Next]_vars
    => [ppc = "reload" /\ ppc' = "idle" => Len(head_) - pSeen' = Capacity]_vars
<1> SUFFICES ASSUME IInv, [Next]_vars, ppc = "reload", ppc' = "idle"
             PROVE  Len(head_) - pSeen' = Capacity
  OBVIOUS
<1>1. PICK i \in 1 .. Len(tail_) : LoadTail(i)
  BY DEF Next, Producer, Consumer, PushBegin, WriteSlot, StoreHead, PopBegin, LoadHead,
         SizeApprox, ReadSlot, StoreTail, vars, pvars
<1>2. pSeen' = i /\ pSeen <= i /\ Full(tail_[i].val)
  BY <1>1 DEF LoadTail
<1>3. H - (i - 1) <= Capacity
  <2>1. pView = pSeen - 1 /\ H - pView <= Capacity  BY DEF IInv, ProducerInv
  <2> QED BY <1>2, <2>1, Ordinals, SMTT(30)
<1>4. H + 1 - (i - 1) > Capacity
  BY <1>2, <1>3, FullCounts, Messages
<1> QED BY <1>2, <1>3, <1>4, Ordinals

LEMMA StepEmptyIsEmpty ==
  IInv /\ [Next]_vars
    => [cpc = "reload" /\ cpc' = "idle" => Len(tail_) = cSeen']_vars
<1> SUFFICES ASSUME IInv, [Next]_vars, cpc = "reload", cpc' = "idle"
             PROVE  Len(tail_) = cSeen'
  OBVIOUS
<1>1. PICK i \in 1 .. Len(head_) : LoadHead(i)
  BY DEF Next, Producer, Consumer, PushBegin, LoadTail, WriteSlot, StoreHead, PopBegin,
         SizeApprox, ReadSlot, StoreTail, vars, cvars
<1>2. cSeen' = i /\ cSeen <= i /\ Empty(head_[i].val)
  BY <1>1 DEF LoadHead
<1>3. T <= i - 1
  <2>1. T <= cSeen - 1  BY Bounds DEF IInv, ConsumerInv
  <2> QED BY <1>2, <2>1, Ordinals
<1>4. T = i - 1
  BY <1>2, <1>3, EmptyMeans, Messages
<1> QED BY <1>2, <1>4, Ordinals

\* try_push refuses only against a full queue: all Capacity slots are used.
THEOREM RefusesOnlyWhenFull == Spec => FullIsFull
<1> QED BY Inductive, StepFullIsFull, PTL DEF Spec, FullIsFull

\* try_pop comes back empty-handed only when nothing it has seen published is left.
THEOREM RefusesOnlyWhenEmpty == Spec => EmptyIsEmpty
<1> QED BY Inductive, StepEmptyIsEmpty, PTL DEF Spec, EmptyIsEmpty

\* Neither call fails for any other reason, whatever is cached.
THEOREM RefusesOnlyAtItsLimits == Spec => RefusesRightly
<1> QED BY RefusesOnlyWhenFull, RefusesOnlyWhenEmpty DEF RefusesRightly
------------------------------------------------------------------------------
(* The queue implements BoundedFifo *)

Delivered == SubSeq(received, 1, Len(tail_) - 1)

\* The refinement mapping in terms of what was sent: the queue holds elements T+1 to H
\* and has delivered the first T.
MappingInv ==
  /\ Content = [k \in 1 .. H - T |-> sent[T + k]]
  /\ Content \in Seq(Value) /\ Len(Content) = H - T
  /\ Delivered = [k \in 1 .. T |-> sent[k]]

LEMMA Mapping == IInv => MappingInv
<1> SUFFICES ASSUME IInv PROVE MappingInv
  OBVIOUS
<1>1. Len(head_) - Len(tail_) = H - T  BY Ordinals
<1>2. ASSUME NEW k \in 1 .. H - T
      PROVE  slots_[SlotOf(Add(Own(tail_), k - 1))] = sent[T + k]
  <2>1. /\ k - 1 \in Int /\ T + (k - 1) \in Int
        /\ T + (k - 1) = (T + k) - 1 /\ T + k \in T + 1 .. Len(sent)
    BY Ordinals, Bounds
  <2>2. Add(Own(tail_), k - 1) = Wrap(T + (k - 1))
    BY <2>1, OwnIndex, AddMod, Ordinals
  <2>3. SlotOf(Wrap(T + (k - 1))) = SlotOf((T + k) - 1)
    BY <2>1, SlotOfWrapped
  <2> QED BY <2>1, <2>2, <2>3 DEF IInv, DataInv
<1>3. Content = [k \in 1 .. H - T |-> sent[T + k]]
  BY <1>1, <1>2 DEF Content
<1>4. Delivered = [k \in 1 .. T |-> received[k]]
  <2>1. T <= Len(received) /\ Len(tail_) - 1 = T  BY Ordinals, Bounds
  <2>2. received \in Seq(Value \cup {Blank})  BY DEF IInv, TypeOK
  <2> QED BY <2>1, <2>2, Ordinals DEF Delivered
<1>5. \A k \in 1 .. T : received[k] = sent[k]
  <2>1. \A k \in 1 .. T : k \in 1 .. Len(received)  BY Ordinals, Bounds
  <2> QED BY <2>1 DEF IInv, DataInv
<1>6. [k \in 1 .. H - T |-> sent[T + k]] \in Seq(Value)
  <2>1. sent \in Seq(Value)  BY DEF IInv, TypeOK
  <2>2. \A k \in 1 .. H - T : T + k \in 1 .. Len(sent)  BY Ordinals, Bounds
  <2>3. \A k \in 1 .. H - T : sent[T + k] \in Value  BY <2>1, <2>2, ElementOfSeq
  <2>4. H - T \in Nat  BY Ordinals, Bounds
  <2> QED BY <2>3, <2>4
<1>7. Len(Content) = H - T
  <2>1. H - T \in Nat  BY Ordinals, Bounds
  <2> QED BY <1>3, <2>1
<1> QED BY <1>3, <1>4, <1>5, <1>6, <1>7 DEF MappingInv

LEMMA StepFifo == IInv /\ IInv' /\ [Next]_vars => [Fifo!Next]_<<Content, Delivered>>
<1> SUFFICES ASSUME IInv, IInv', [Next]_vars
             PROVE  Fifo!Next \/ UNCHANGED <<Content, Delivered>>
  OBVIOUS
<1>1. /\ Content = [k \in 1 .. H - T |-> sent[T + k]]
      /\ Delivered = [k \in 1 .. T |-> sent[k]]
  BY Mapping DEF MappingInv
<1>2. /\ Content' = [k \in 1 .. H' - T' |-> sent'[T' + k]]
      /\ Delivered' = [k \in 1 .. T' |-> sent'[k]]
      /\ Content' \in Seq(Value) /\ Len(Content') = H' - T'
  <2>1. MappingInv'  BY Mapping, PTL
  <2> QED BY <2>1 DEF MappingInv
<1>3. ASSUME H' = H, T' = T, \A k \in 1 .. H : sent'[k] = sent[k]
      PROVE  UNCHANGED <<Content, Delivered>>
  <2>1. \A k \in 1 .. H - T : T + k \in 1 .. H  BY Ordinals
  <2>2. \A k \in 1 .. T : k \in 1 .. H  BY Ordinals, Bounds
  <2> QED BY <1>1, <1>2, <1>3, <2>1, <2>2
<1>4. CASE UNCHANGED <<head_, tail_, sent>>
  BY <1>3, <1>4 DEF H, T
<1>5. ASSUME NEW v \in Value, WriteSlot(v) PROVE UNCHANGED <<Content, Delivered>>
  <2>1. H' = H /\ T' = T  BY <1>5 DEF WriteSlot, cvars, H, T
  <2>2. sent' = Append(sent, v) /\ sent \in Seq(Value)  BY <1>5 DEF WriteSlot, IInv, TypeOK
  <2>3. \A k \in 1 .. H : k \in 1 .. Len(sent)  BY Ordinals, Bounds
  <2>4. \A k \in 1 .. H : sent'[k] = sent[k]  BY <2>2, <2>3, AppendProperties
  <2> QED BY <1>3, <2>1, <2>4
<1>6. CASE StoreHead
  <2>1. H' = H + 1 /\ T' = T /\ sent' = sent
    <3>1. Len(head_') = Len(head_) + 1
      BY <1>6 DEF StoreHead, IInv, TypeOK
    <3> QED BY <1>6, <3>1, Ordinals DEF StoreHead, cvars, H, T
  <2>2. H + 1 <= Len(sent) /\ H - T < Capacity
    <3>1. Len(sent) = H + 1  BY <1>6 DEF StoreHead, IInv, CountInv
    <3> QED BY <3>1, Ordinals, Bounds
  <2> DEFINE v == sent[H + 1]
  <2>3. v \in Value
    <3>1. sent \in Seq(Value)  BY DEF IInv, TypeOK
    <3>2. H + 1 \in 1 .. Len(sent)  BY <2>2, Ordinals
    <3> QED BY <3>1, <3>2, ElementOfSeq
  <2>4. Content' = Append(Content, v)
    <3>1. (H + 1) - T = (H - T) + 1 /\ T + ((H - T) + 1) = H + 1 /\ H - T \in Nat
      BY Ordinals, Bounds
    <3>2. Content' = [k \in 1 .. (H - T) + 1 |-> sent[T + k]]  BY <1>2, <2>1, <3>1
    <3>3. \A k \in 1 .. (H - T) + 1 : k = (H - T) + 1 \/ k \in 1 .. H - T  BY <3>1
    <3> QED BY <1>1, <3>1, <3>2, <3>3
  <2>5. Len(Content) < Capacity
    BY <1>1, <2>2, Ordinals, Bounds
  <2>6. Delivered' = Delivered  BY <1>1, <1>2, <2>1
  <2> HIDE DEF v
  <2> QED BY <2>3, <2>4, <2>5, <2>6 DEF Fifo!Next, Fifo!Put, Delivered
<1>7. CASE StoreTail
  <2>1. H' = H /\ T' = T + 1 /\ sent' = sent
    <3>1. Len(tail_') = Len(tail_) + 1
      BY <1>7 DEF StoreTail, IInv, TypeOK
    <3> QED BY <1>7, <3>1, Ordinals DEF StoreTail, pvars, H, T
  <2>2. T < H
    <3>1. Len(received) = T + 1  BY <1>7 DEF StoreTail, IInv, CountInv
    <3> QED BY <3>1, Ordinals, Bounds
  <2>3. /\ Content \in Seq(Value) /\ Len(Content) = H - T
        /\ Content # << >> /\ Head(Content) = sent[T + 1]
    <3>1. Content \in Seq(Value) /\ Len(Content) = H - T
      BY Mapping DEF MappingInv
    <3>2. Content[1] = sent[T + 1]  BY <1>1, <2>2, Ordinals
    <3>3. Content # << >>  BY <2>2, <3>1, Ordinals
    <3> QED BY <3>1, <3>2, <3>3
  <2>4. Content' = Tail(Content)
    <3>1. H - (T + 1) = (H - T) - 1  BY Ordinals
    <3>2. /\ Tail(Content) \in Seq(Value) /\ Len(Tail(Content)) = (H - T) - 1
          /\ \A k \in 1 .. (H - T) - 1 : Tail(Content)[k] = Content[k + 1]
      BY <2>3, HeadTailProperties
    <3>3. Content' \in Seq(Value) /\ Len(Content') = (H - T) - 1
      BY <1>2, <2>1, <3>1
    <3>4. ASSUME NEW k \in 1 .. (H - T) - 1 PROVE Content'[k] = Content[k + 1]
      <4>1. (T + 1) + k = T + (k + 1) /\ k + 1 \in 1 .. H - T  BY Ordinals
      <4>2. Content[k + 1] = sent[T + (k + 1)]  BY <1>1, <4>1
      <4>3. Content'[k] = sent[(T + 1) + k]  BY <1>2, <2>1, <3>1
      <4> QED BY <4>1, <4>2, <4>3
    <3> QED BY <3>2, <3>3, <3>4, SeqEqual
  <2>5. Delivered' = Append(Delivered, Head(Content))
    <3>1. Delivered' = [k \in 1 .. T + 1 |-> sent[k]]  BY <1>2, <2>1
    <3>2. \A k \in 1 .. T + 1 : k = T + 1 \/ k \in 1 .. T  BY Ordinals
    <3> QED BY <1>1, <2>3, <3>1, <3>2, Ordinals
  <2> QED BY <2>3, <2>4, <2>5 DEF Fifo!Next, Fifo!Get, Delivered
<1>8. \/ UNCHANGED <<head_, tail_, sent>>
      \/ \E v \in Value : WriteSlot(v)
      \/ StoreHead
      \/ StoreTail
  BY DEF Next, Producer, Consumer, PushBegin, LoadTail, PopBegin, LoadHead, SizeApprox,
         ReadSlot, vars, pvars, cvars
<1> QED BY <1>4, <1>5, <1>6, <1>7, <1>8

LEMMA InitFifo == Init => Fifo!Init
<1> SUFFICES ASSUME Init PROVE Content = << >> /\ Delivered = << >>
  BY DEF Fifo!Init, Delivered
<1>1. IInv  BY InitInv
<1>2. H = 0 /\ T = 0  BY DEF Init, H, T
<1> QED BY <1>1, <1>2, Mapping DEF MappingInv

\* Through its cached indices, orderings and wrap-around the queue behaves as a bounded
\* FIFO whose operations are atomic, at the store to head_ and at the store to tail_.
THEOREM Refinement == Spec => ImplementsFifo
<1>1. IInv /\ IInv' /\ [Next]_vars => [Fifo!Next]_<<Content, SubSeq(received, 1, Len(tail_) - 1)>>
  BY StepFifo DEF Delivered
<1> QED BY <1>1, InitFifo, Inductive, PTL DEF Spec, ImplementsFifo, Fifo!Spec

-----------------------------------------------------------------------------
(* The log hand-off. *)

TrueMessage == [val |-> TRUE, head |-> 1, view |-> 0]

\* g_logging holds its initial true and, once the hot thread is done pushing, a false
\* whose acquire shows everything it ever pushed.
FlagInv ==
  /\ mpc \in {"run", "join", "done"}
  /\ mpc = "run" => flag = <<TrueMessage>>
  /\ mpc # "run" => flag = <<TrueMessage, StopMessage>> /\ ppc = "idle"
  /\ lSeen \in 1 .. Len(flag)

\* Having read false, the logger has seen the last message of head_.
LoggerInv ==
  /\ lpc \in {"loop", "size", "pop", "exit"}
  /\ lpc # "pop" => cpc = "idle"
  /\ lpc \in {"size", "exit"} => lSeen = 2
  /\ lSeen = 2 => cSeen = Len(head_)
  /\ lpc = "exit" => T = H

Unsent == IF ppc \in {"reload", "write"} THEN 1 ELSE 0

AccountInv ==
  /\ records \in Nat /\ dropped \in Nat /\ drained \in Nat
  /\ drained = T
  /\ records = Len(sent) + dropped + Unsent

DrainIInv == IInv /\ FlagInv /\ LoggerInv /\ AccountInv
------------------------------------------------------------------------------
(* Every step of the two threads is a step of the queue *)

LEMMA DrainInitInv == DrainInit => DrainIInv
<1> SUFFICES ASSUME DrainInit PROVE DrainIInv
  OBVIOUS
<1>1. IInv  BY InitInv DEF DrainInit
<1>2. H = 0 /\ T = 0 /\ Len(sent) = 0 /\ Len(head_) = 1
  BY DEF DrainInit, Init, H, T
<1>3. FlagInv  BY DEF DrainInit, FlagInv, TrueMessage
<1>4. LoggerInv  BY DEF DrainInit, Init, LoggerInv
<1>5. AccountInv  BY <1>2 DEF DrainInit, Init, AccountInv, Unsent
<1> QED BY <1>1, <1>3, <1>4, <1>5 DEF DrainIInv

LEMMA FlagMessages ==
  ASSUME DrainIInv
  PROVE  /\ flag[1] = TrueMessage
         /\ mpc = "run" => Len(flag) = 1
         /\ mpc # "run" => Len(flag) = 2 /\ flag[2] = StopMessage
BY DEF DrainIInv, FlagInv

LEMMA Running ==
  ASSUME DrainIInv, mpc = "run"
  PROVE  flag = <<TrueMessage>> /\ lSeen = 1
<1>1. flag = <<TrueMessage>> /\ lSeen \in 1 .. Len(flag)  BY DEF DrainIInv, FlagInv
<1>2. Len(flag) = 1  BY FlagMessages
<1> QED BY <1>1, <1>2

LEMMA AppendSecond ==
  ASSUME NEW a, NEW b PROVE Append(<<a>>, b) = <<a, b>>
<1> DEFINE S == {a, b}
           s == <<a>>
           t == <<a, b>>
<1>1. s \in Seq(S) /\ t \in Seq(S) /\ b \in S  OBVIOUS
<1>2. Len(s) = 1 /\ s[1] = a /\ Len(t) = 2 /\ t[1] = a /\ t[2] = b  OBVIOUS
<1> HIDE DEF s, t, S
<1>3. /\ Append(s, b) \in Seq(S) /\ Len(Append(s, b)) = 2
      /\ Append(s, b)[1] = a /\ Append(s, b)[2] = b
  <2>1. /\ Append(s, b) \in Seq(S) /\ Len(Append(s, b)) = Len(s) + 1
        /\ \A i \in 1 .. Len(s) : Append(s, b)[i] = s[i]
        /\ Append(s, b)[Len(s) + 1] = b
    BY <1>1, AppendProperties
  <2>2. 1 \in 1 .. Len(s) /\ Len(s) + 1 = 2  BY <1>2
  <2> QED BY <1>2, <2>1, <2>2
<1>4. \A i \in 1 .. Len(Append(s, b)) : Append(s, b)[i] = t[i]  BY <1>2, <1>3
<1>5. Append(s, b) = t  BY <1>1, <1>2, <1>3, <1>4, SeqEqual
<1> QED BY <1>5 DEF s, t

\* Reading true changes nothing the queue knows of; reading false is like reading the
\* last message of head_.
LEMMA LoadFlagStep ==
  ASSUME DrainIInv, NEW j \in 1 .. Len(flag), LoadFlag(j)
  PROVE  \/ j = 1 /\ UNCHANGED vars
         \/ /\ j = 2 /\ mpc # "run" /\ Len(head_) \in 1 .. Len(head_)
            /\ SizeApprox(Len(head_))
<1> USE DEF DrainIInv
<1>1. cSeen \in 1 .. Len(head_) /\ Len(head_) \in Nat /\ cView \in Nat /\ cView = cSeen - 1
  BY Ordinals DEF IInv, ConsumerInv
<1>2. CASE j = 1
  <2>1. flag[j].head = 1 /\ flag[j].view = 0  BY <1>2, FlagMessages DEF TrueMessage
  <2>2. cSeen' = cSeen /\ cView' = cView  BY <1>1, <2>1 DEF LoadFlag, Later
  <2> QED BY <1>2, <2>2 DEF LoadFlag, vars, pvars, cvars
<1>3. CASE j # 1
  <2>1. mpc # "run" /\ j = 2 /\ flag[j] = StopMessage
    <3> HIDE DEF DrainIInv
    <3>1. mpc # "run"
      <4> SUFFICES ASSUME mpc = "run" PROVE FALSE  OBVIOUS
      <4>1. Len(flag) = 1  BY FlagMessages
      <4>2. j \in 1 .. 1  BY <4>1
      <4> QED  BY <1>3, <4>2
    <3>2. Len(flag) = 2 /\ flag[2] = StopMessage  BY <3>1, FlagMessages
    <3>3. j = 2  BY <1>3, <3>2
    <3> QED BY <3>1, <3>2, <3>3
  <2>2. flag[j].head = Len(head_) /\ flag[j].view = Len(sent)  BY <2>1 DEF StopMessage
  <2>3. Len(sent) = Len(head_) - 1
    BY <2>1, Ordinals DEF FlagInv, IInv, CountInv
  <2>4. cSeen' = Len(head_)  BY <1>1, <2>2 DEF LoadFlag, Later
  <2>5. cView' = LaterView(cView, head_[Len(head_)])
    <3>1. head_[Len(head_)].view = Len(head_) - 1  BY <1>1, Messages
    <3>2. cView' = Len(head_) - 1  BY <1>1, <2>2, <2>3 DEF LoadFlag, Later
    <3> QED BY <1>1, <3>1, <3>2, Acquire
  <2>6. cpc = "idle"  BY DEF LoadFlag, LoggerInv
  <2> QED BY <1>1, <2>1, <2>4, <2>5, <2>6 DEF LoadFlag, SizeApprox
<1> QED BY <1>2, <1>3

LEMMA DrainStepQueue == DrainIInv /\ [DrainNext]_allvars => [Next]_vars
<1> SUFFICES ASSUME DrainIInv, [DrainNext]_allvars PROVE [Next]_vars
  OBVIOUS
<1>1. CASE Hot
  BY <1>1 DEF Hot, LogRecord, ReloadTail, FinishPush, Stop, Join, Next, Producer
<1>2. ASSUME NEW j \in 1 .. Len(flag), LoadFlag(j) PROVE [Next]_vars
  BY <1>2, LoadFlagStep DEF Next, Consumer
<1>3. CASE \/ \E i \in 1 .. Len(head_) : CheckSize(i) \/ ReloadHead(i)
           \/ BeginPop \/ ReadRecord \/ FinishPop
  BY <1>3 DEF CheckSize, ReloadHead, BeginPop, ReadRecord, FinishPop, Next, Consumer
<1>4. CASE Terminated \/ UNCHANGED allvars
  BY <1>4 DEF Terminated, allvars
<1> QED BY <1>1, <1>2, <1>3, <1>4 DEF DrainNext, Logger
------------------------------------------------------------------------------
(* The invariant of the shutdown protocol *)

\* A thread that is inside try_push has not stopped, so the logger has not read false.
LEMMA Pushing ==
  ASSUME DrainIInv, ppc # "idle"
  PROVE  mpc = "run" /\ lSeen = 1 /\ lpc \in {"loop", "pop"}
<1>1. mpc = "run"  BY DEF DrainIInv, FlagInv
<1>2. lSeen = 1  BY <1>1, Running
<1> QED BY <1>1, <1>2 DEF DrainIInv, LoggerInv

LEMMA PushStepInv ==
  ASSUME DrainIInv, LogRecord \/ (\E i \in 1 .. Len(tail_) : ReloadTail(i)) \/ FinishPush
  PROVE  FlagInv' /\ LoggerInv' /\ AccountInv'
<1>1. UNCHANGED <<mpc, lpc, flag, lSeen, cpc, cSeen, tail_, drained>> /\ mpc = "run" /\ lSeen = 1
  <2>1. CASE LogRecord
    <3>1. mpc = "run" /\ lSeen = 1
      BY <2>1, Running DEF LogRecord
    <3> QED BY <2>1, <3>1 DEF LogRecord, PushBegin, cvars
  <2>2. ASSUME NEW i \in 1 .. Len(tail_), ReloadTail(i)
        PROVE  UNCHANGED <<mpc, lpc, flag, lSeen, cpc, cSeen, tail_, drained>> /\ ppc # "idle"
    BY <2>2 DEF ReloadTail, LoadTail, cvars
  <2>3. CASE FinishPush
    <3>1. UNCHANGED <<mpc, lpc, flag, lSeen, cpc, cSeen, tail_, drained>> /\ ppc # "idle"
      BY <2>3 DEF FinishPush, WriteSlot, StoreHead, cvars, dvars
    <3> QED BY <3>1, Pushing
  <2> QED BY <2>1, <2>2, <2>3, Pushing
<1>2. FlagInv'
  BY <1>1 DEF DrainIInv, FlagInv
<1>3. LoggerInv'
  BY <1>1 DEF DrainIInv, LoggerInv
<1>4. drained' = T' /\ drained' \in Nat
  BY <1>1 DEF DrainIInv, AccountInv, T
<1>5. /\ records' \in Nat /\ dropped' \in Nat
      /\ records' = Len(sent') + dropped' + Unsent'
  <2>1. /\ records \in Nat /\ dropped \in Nat /\ Len(sent) \in Nat
        /\ records = Len(sent) + dropped + Unsent
    BY Ordinals DEF DrainIInv, AccountInv
  <2>2. CASE LogRecord
    <3>1. Unsent = 0 /\ Unsent' = 1 /\ sent' = sent /\ dropped' = dropped /\ records' = records + 1
      BY <2>2 DEF LogRecord, PushBegin, Unsent
    <3> QED BY <2>1, <3>1
  <2>3. ASSUME NEW i \in 1 .. Len(tail_), ReloadTail(i)
        PROVE  /\ records' \in Nat /\ dropped' \in Nat
               /\ records' = Len(sent') + dropped' + Unsent'
    <3>1. Unsent = 1 /\ sent' = sent /\ records' = records
      BY <2>3 DEF ReloadTail, LoadTail, Unsent
    <3>2. \/ Unsent' = 0 /\ dropped' = dropped + 1
          \/ Unsent' = 1 /\ dropped' = dropped
      BY <2>3 DEF ReloadTail, LoadTail, Unsent
    <3> QED BY <2>1, <3>1, <3>2
  <2>4. CASE FinishPush
    <3>1. records' = records /\ dropped' = dropped  BY <2>4 DEF FinishPush, dvars
    <3>2. ASSUME NEW v \in Value, WriteSlot(v)
          PROVE  Unsent = 1 /\ Unsent' = 0 /\ Len(sent') = Len(sent) + 1
      <4>1. sent \in Seq(Value) /\ sent' = Append(sent, v)
        BY <3>2 DEF WriteSlot, DrainIInv, IInv, TypeOK
      <4> QED BY <3>2, <4>1, AppendProperties DEF WriteSlot, Unsent
    <3>3. CASE StoreHead
      <4>1. Unsent = 0 /\ Unsent' = 0 /\ sent' = sent  BY <3>3 DEF StoreHead, Unsent
      <4> QED BY <2>1, <3>1, <4>1
    <3>4. ASSUME NEW v \in Value, WriteSlot(v)
          PROVE  /\ records' \in Nat /\ dropped' \in Nat
                 /\ records' = Len(sent') + dropped' + Unsent'
      BY <2>1, <3>1, <3>2, <3>4
    <3> QED BY <2>4, <3>3, <3>4 DEF FinishPush
  <2> QED BY <2>2, <2>3, <2>4
<1> QED BY <1>2, <1>3, <1>4, <1>5 DEF AccountInv

LEMMA StopJoinInv ==
  ASSUME DrainIInv, Stop \/ Join
  PROVE  FlagInv' /\ LoggerInv' /\ AccountInv'
<1>1. UNCHANGED <<vars, lpc, lSeen, records, dropped, drained>>
  BY DEF Stop, Join
<1>2. /\ H' = H /\ T' = T /\ Unsent' = Unsent /\ StopMessage' = StopMessage
      /\ ppc' = ppc /\ cpc' = cpc /\ cSeen' = cSeen /\ head_' = head_ /\ sent' = sent
  BY <1>1 DEF H, T, Unsent, StopMessage, vars, pvars, cvars
<1>3. FlagInv'
  <2>1. CASE Stop
    <3>1. flag = <<TrueMessage>> /\ ppc = "idle" /\ mpc' = "join" /\ lSeen = 1
      BY <2>1, Running DEF Stop
    <3>2. flag' = <<TrueMessage, StopMessage>>  BY <2>1, <3>1, AppendSecond DEF Stop
    <3> QED BY <1>1, <1>2, <3>1, <3>2 DEF FlagInv
  <2>2. CASE Join
    BY <1>1, <1>2, <2>2 DEF Join, DrainIInv, FlagInv
  <2> QED BY <2>1, <2>2
<1>4. LoggerInv'  BY <1>1, <1>2 DEF DrainIInv, LoggerInv
<1>5. AccountInv'  BY <1>1, <1>2 DEF DrainIInv, AccountInv
<1> QED BY <1>3, <1>4, <1>5

LEMMA LoadFlagInv ==
  ASSUME DrainIInv, NEW j \in 1 .. Len(flag), LoadFlag(j)
  PROVE  FlagInv' /\ LoggerInv' /\ AccountInv'
<1>1. /\ UNCHANGED <<tail_, head_, ppc, cpc, sent, mpc, flag, records, dropped, drained>>
      /\ lpc = "loop" /\ lSeen' = j /\ cpc = "idle"
      /\ lpc' = IF flag[j].val THEN "pop" ELSE "size"
  BY DEF LoadFlag, pvars, DrainIInv, LoggerInv
<1>2. H' = H /\ T' = T /\ Unsent' = Unsent /\ StopMessage' = StopMessage
  BY <1>1 DEF H, T, Unsent, StopMessage
<1>3. FlagInv'  BY <1>1, <1>2 DEF DrainIInv, FlagInv
<1>4. AccountInv'  BY <1>1, <1>2 DEF DrainIInv, AccountInv
<1>5. LoggerInv'
  <2>1. CASE j = 1
    <3>1. flag[1].val = TRUE  BY FlagMessages DEF TrueMessage
    <3>2. lpc' = "pop"  BY <1>1, <2>1, <3>1
    <3> QED BY <1>1, <2>1, <3>2 DEF LoggerInv
  <2>2. CASE j # 1
    <3>1. j = 2 /\ mpc # "run" /\ SizeApprox(Len(head_))  BY <2>2, LoadFlagStep
    <3>2. cSeen' = Len(head_')  BY <1>1, <3>1 DEF SizeApprox
    <3>3. flag[j].val = FALSE  BY <3>1, FlagMessages DEF StopMessage
    <3>4. lpc' = "size"  BY <1>1, <3>3
    <3> QED BY <1>1, <3>1, <3>2, <3>4 DEF LoggerInv
  <2> QED BY <2>1, <2>2
<1> QED BY <1>3, <1>4, <1>5

LEMMA CheckSizeInv ==
  ASSUME DrainIInv, NEW i \in 1 .. Len(head_), CheckSize(i)
  PROVE  FlagInv' /\ LoggerInv' /\ AccountInv'
<1>1. /\ UNCHANGED <<tail_, head_, ppc, cpc, sent, mpc, flag, lSeen, records, dropped, drained>>
      /\ lpc = "size" /\ cpc = "idle" /\ i >= cSeen /\ cSeen' = i
      /\ lpc' = IF SizeAt(i) # 0 THEN "pop" ELSE "exit"
  BY DEF CheckSize, SizeApprox, pvars
<1>2. H' = H /\ T' = T /\ Unsent' = Unsent /\ StopMessage' = StopMessage
  BY <1>1 DEF H, T, Unsent, StopMessage
<1>3. FlagInv'  BY <1>1, <1>2 DEF DrainIInv, FlagInv
<1>4. AccountInv'  BY <1>1, <1>2 DEF DrainIInv, AccountInv
<1>5. lSeen = 2 /\ cSeen = Len(head_)  BY <1>1 DEF DrainIInv, LoggerInv
<1>6. i = Len(head_)  BY <1>1, <1>5, Ordinals DEF DrainIInv
<1>7. SizeAt(i) = H - T
  <2>1. head_[i].val = Wrap(i - 1) /\ i - 1 = H  BY <1>6, Messages, Ordinals DEF DrainIInv
  <2>2. Own(tail_) = Wrap(T)  BY OwnIndex DEF DrainIInv
  <2>3. H \in Int /\ T \in Int /\ 0 <= H - T /\ H - T < Word
    BY Ordinals, Bounds, Sizes DEF DrainIInv
  <2>4. Sub(Wrap(H), Wrap(T)) = H - T  BY <2>3, SubMod
  <2> QED BY <2>1, <2>2, <2>4 DEF SizeAt
<1>8. lpc' = "exit" => T = H
  BY <1>1, <1>7, Ordinals DEF DrainIInv
<1>9. lpc' \in {"pop", "exit"}  BY <1>1
<1> QED BY <1>1, <1>2, <1>3, <1>4, <1>5, <1>6, <1>8, <1>9 DEF LoggerInv

LEMMA PopStepInv ==
  ASSUME DrainIInv,
         \/ \E i \in 1 .. Len(head_) : ReloadHead(i)
         \/ BeginPop \/ ReadRecord \/ FinishPop
  PROVE  FlagInv' /\ LoggerInv' /\ AccountInv'
<1>1. UNCHANGED <<head_, ppc, sent, mpc, flag, lSeen, records, dropped>>
  BY DEF ReloadHead, LoadHead, BeginPop, PopBegin, ReadRecord, ReadSlot, FinishPop, StoreTail,
         pvars, dvars
<1>2. H' = H /\ Unsent' = Unsent /\ StopMessage' = StopMessage
  BY <1>1 DEF H, Unsent, StopMessage
<1>3. FlagInv'  BY <1>1, <1>2 DEF DrainIInv, FlagInv
<1>4. lpc = "pop"
  BY DEF ReloadHead, LoadHead, BeginPop, ReadRecord, ReadSlot, FinishPop, StoreTail,
         DrainIInv, LoggerInv
<1>5. lSeen = 2 => cSeen = Len(head_)  BY DEF DrainIInv, LoggerInv
<1>6. LoggerInv' /\ drained' = T' /\ drained' \in Nat
  <2>1. drained = T /\ drained \in Nat  BY DEF DrainIInv, AccountInv
  <2>2. ASSUME NEW i \in 1 .. Len(head_), ReloadHead(i)
        PROVE  LoggerInv' /\ drained' = T' /\ drained' \in Nat
    <3>1. tail_' = tail_ /\ drained' = drained /\ cSeen' = i /\ cSeen <= i
      BY <2>2 DEF ReloadHead, LoadHead
    <3>2. T' = T  BY <3>1 DEF T
    <3>3. lSeen = 2 => i = Len(head_)  BY <1>5, <3>1, Ordinals DEF DrainIInv
    <3>4. lpc' \in {"loop", "pop"} /\ (lpc' # "pop" => cpc' = "idle")
      BY <2>2 DEF ReloadHead
    <3> QED BY <1>1, <2>1, <3>1, <3>2, <3>3, <3>4 DEF LoggerInv
  <2>3. CASE BeginPop \/ ReadRecord
    <3>1. tail_' = tail_ /\ drained' = drained /\ cSeen' = cSeen /\ lpc' = lpc
      BY <2>3 DEF BeginPop, PopBegin, ReadRecord, ReadSlot, dvars
    <3>2. T' = T  BY <3>1 DEF T
    <3> QED BY <1>1, <1>4, <1>5, <2>1, <3>1, <3>2 DEF LoggerInv
  <2>4. CASE FinishPop
    <3>1. cSeen' = cSeen /\ lpc' = "loop" /\ cpc' = "idle" /\ drained' = drained + 1
      BY <2>4 DEF FinishPop, StoreTail
    <3>2. T' = T + 1
      <4>1. tail_ \in Seq(Message)  BY DEF DrainIInv, IInv, TypeOK
      <4>2. Len(tail_') = Len(tail_) + 1  BY <2>4, <4>1 DEF FinishPop, StoreTail
      <4> QED BY <4>2, Ordinals DEF T, DrainIInv
    <3> QED BY <1>1, <1>5, <2>1, <3>1, <3>2 DEF LoggerInv
  <2> QED BY <2>2, <2>3, <2>4
<1>7. AccountInv'  BY <1>1, <1>2, <1>6 DEF DrainIInv, AccountInv
<1> QED BY <1>3, <1>6, <1>7

LEMMA DrainStepInv == DrainIInv /\ [DrainNext]_allvars => DrainIInv'
<1> SUFFICES ASSUME DrainIInv, [DrainNext]_allvars PROVE DrainIInv'
  OBVIOUS
<1>1. IInv'
  BY DrainStepQueue, StepInv DEF DrainIInv
<1>2. FlagInv' /\ LoggerInv' /\ AccountInv'
  <2>1. CASE Hot
    BY <2>1, PushStepInv, StopJoinInv DEF Hot
  <2>2. CASE Logger
    BY <2>2, LoadFlagInv, CheckSizeInv, PopStepInv DEF Logger
  <2>3. CASE Terminated \/ UNCHANGED allvars
    <3>1. UNCHANGED <<head_, tail_, ppc, cpc, cSeen, sent, dvars>>
      BY <2>3 DEF Terminated, allvars, vars, pvars, cvars
    <3>2. H' = H /\ T' = T /\ Unsent' = Unsent /\ StopMessage' = StopMessage
      BY <3>1 DEF H, T, Unsent, StopMessage
    <3> QED BY <3>1, <3>2 DEF dvars, DrainIInv, FlagInv, LoggerInv, AccountInv
  <2> QED BY <2>1, <2>2, <2>3 DEF DrainNext
<1> QED BY <1>1, <1>2 DEF DrainIInv

LEMMA DrainInductive == DrainSafety => []DrainIInv
<1> QED BY DrainInitInv, DrainStepInv, PTL DEF DrainSafety

\* Clearing g_logging after the last push, and leaving only on false followed by an empty
\* queue, is enough: the logger has every accepted record when it exits.
THEOREM NoRecordLost == DrainSafety => []NothingLeftBehind
<1>1. DrainIInv => NothingLeftBehind
  <2> SUFFICES ASSUME DrainIInv, lpc = "exit"
               PROVE  received = sent /\ drained = Len(sent) /\ drained + dropped = records
    BY DEF NothingLeftBehind
  <2>1. T = H /\ cpc = "idle" /\ mpc # "run"
    BY Running DEF DrainIInv, LoggerInv
  <2>2. ppc = "idle"  BY <2>1 DEF DrainIInv, FlagInv
  <2>3. Len(sent) = H /\ Len(received) = H
    BY <2>1, <2>2 DEF DrainIInv, IInv, CountInv
  <2>4. received = sent
    <3>1. sent \in Seq(Value \cup {Blank}) /\ received \in Seq(Value \cup {Blank})
      <4>1. sent \in Seq(Value) /\ received \in Seq(Value \cup {Blank})
        BY DEF DrainIInv, IInv, TypeOK
      <4> QED BY <4>1, SeqMonotonic
    <3>2. \A k \in 1 .. Len(received) : received[k] = sent[k]
      BY DEF DrainIInv, IInv, DataInv
    <3> QED BY <2>3, <3>1, <3>2, SeqEqual
  <2>5. drained = T /\ records = Len(sent) + dropped + Unsent /\ dropped \in Nat
    BY DEF DrainIInv, AccountInv
  <2>6. Unsent = 0  BY <2>2 DEF Unsent
  <2> QED BY <2>1, <2>3, <2>4, <2>5, <2>6, Ordinals DEF DrainIInv
<1> QED BY <1>1, DrainInductive, PTL

=============================================================================
