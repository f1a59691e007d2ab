-------------------------- MODULE ContainerProofs --------------------------
(***************************************************************************)
(* The fixed-capacity containers, for every capacity and every sequence of *)
(* calls.  The pool gives no slot to two callers, however constructors     *)
(* call it again, and its free list loses and repeats none; the objects of *)
(* a static vector are those below its size, also when an element's        *)
(* constructor throws, and every step of a vector is a step of a bounded   *)
(* bag; the arena's blocks are aligned, apart and inside the buffer, and   *)
(* it refuses only when full.  The parts are independent of each other.    *)
(***************************************************************************)
EXTENDS ObjectPool, StaticVector, Arena, DataLemmas

-----------------------------------------------------------------------------
(* The object pool. *)

LEMMA InvalidIsNoHandle == kInvalid \notin Handles
  BY PoolAssumption

(* Where the calls stand after one more has begun, and after one has returned. *)
LEMMA CallPushed ==
  ASSUME PoolTypeOK, NEW op \in {"acquire", "release"}, NEW h \in Handles, Call(op, h)
  PROVE  /\ calls' \in Seq(CallOK)
         /\ InCalls' = InCalls \cup {h}
         /\ (\A i, j \in DOMAIN calls : calls[i].handle = calls[j].handle => i = j)
              /\ h \notin InCalls
              => \A i, j \in DOMAIN calls' : calls'[i].handle = calls'[j].handle => i = j
         /\ Releasing' = IF op = "release" THEN Releasing \cup {Len(calls) + 1} ELSE Releasing
         /\ Len(calls) + 1 \notin Releasing
<1> DEFINE c == [op |-> op, handle |-> h]
<1>1. calls \in Seq(CallOK) /\ c \in CallOK
  BY DEF PoolTypeOK, CallOK
<1>2. calls' = Append(calls, c)
  BY DEF Call
<1>3. /\ Len(calls) \in Nat /\ Len(calls') = Len(calls) + 1
      /\ DOMAIN calls = 1 .. Len(calls) /\ DOMAIN calls' = 1 .. Len(calls) + 1
      /\ \A i \in 1 .. Len(calls) : calls'[i] = calls[i]
      /\ calls'[Len(calls) + 1] = c
  BY <1>1, <1>2
<1>4. calls' \in Seq(CallOK)
  BY <1>1, <1>2
<1>5. InCalls' = InCalls \cup {h}
  BY <1>3 DEF InCalls
<1>6. ASSUME \A i, j \in DOMAIN calls : calls[i].handle = calls[j].handle => i = j,
             h \notin InCalls,
             NEW i \in DOMAIN calls', NEW j \in DOMAIN calls', calls'[i].handle = calls'[j].handle
      PROVE  i = j
  BY <1>3, <1>6 DEF InCalls
<1>7. /\ Releasing' = IF op = "release" THEN Releasing \cup {Len(calls) + 1} ELSE Releasing
      /\ Len(calls) + 1 \notin Releasing
  BY <1>3 DEF Releasing
<1>8. QED
  BY <1>4, <1>5, <1>6, <1>7

LEMMA CallReturned ==
  ASSUME PoolTypeOK, HandedOnce, calls # << >>, Return
  PROVE  /\ Inner \in CallOK /\ Inner.handle \in InCalls
         /\ calls' \in Seq(CallOK)
         /\ InCalls' = InCalls \ {Inner.handle}
         /\ \A i, j \in DOMAIN calls' : calls'[i].handle = calls'[j].handle => i = j
         /\ Releasing' = Releasing \ {Len(calls)}
         /\ Len(calls) \in Releasing <=> Inner.op = "release"
<1> DEFINE n == Len(calls)
<1>1. calls \in Seq(CallOK)
  BY DEF PoolTypeOK
<1>2. n \in Nat \ {0} /\ DOMAIN calls = 1 .. n
  BY <1>1
<1>3. /\ calls' \in Seq(CallOK) /\ DOMAIN calls' = 1 .. n - 1
      /\ \A i \in 1 .. n - 1 : calls'[i] = calls[i]
  BY <1>1, <1>2 DEF Return
<1>4. Inner \in CallOK /\ Inner.handle \in InCalls
  BY <1>1, <1>2 DEF Inner, InCalls
<1>5. \A i, j \in 1 .. n : calls[i].handle = calls[j].handle => i = j
  BY <1>2 DEF HandedOnce
<1>6. InCalls' = InCalls \ {Inner.handle}
  <2>1. /\ InCalls = {calls[i].handle : i \in 1 .. n}
        /\ InCalls' = {calls'[i].handle : i \in 1 .. n - 1}
    BY <1>2, <1>3 DEF InCalls
  <2>2. ASSUME NEW i \in 1 .. n - 1
        PROVE  calls'[i].handle = calls[i].handle /\ calls[i].handle # Inner.handle
    BY <1>2, <1>3, <1>5 DEF Inner
  <2>3. 1 .. n = (1 .. n - 1) \cup {n}
    BY <1>2
  <2>4. QED
    BY <2>1, <2>2, <2>3 DEF Inner
<1>7. ASSUME NEW i \in DOMAIN calls', NEW j \in DOMAIN calls', calls'[i].handle = calls'[j].handle
      PROVE  i = j
  BY <1>2, <1>3, <1>5, <1>7
<1>8. Releasing' = Releasing \ {n} /\ (n \in Releasing <=> Inner.op = "release")
  BY <1>2, <1>3 DEF Releasing, Inner
<1>9. QED
  BY <1>3, <1>4, <1>6, <1>7, <1>8

(* The sets that are counted are finite. *)
LEMMA Counted ==
  ASSUME PoolTypeOK
  PROVE  /\ IsFiniteSet(Handles) /\ Cardinality(Handles) = N
         /\ IsFiniteSet(owned) /\ IsFiniteSet(Free) /\ IsFiniteSet(Releasing)
         /\ Cardinality(owned) \in Nat /\ Cardinality(Free) \in Nat
         /\ Cardinality(Releasing) \in Nat
<1>1. IsFiniteSet(Handles) /\ Cardinality(Handles) = N
  <2>1. N - 1 \in Int /\ 0 \in Int /\ 0 <= N - 1
    BY PoolAssumption
  <2>2. QED
    BY <2>1, PoolAssumption, FS_Interval DEF Handles
<1>2. owned \subseteq Handles /\ Free \subseteq Handles
  BY DEF PoolTypeOK, Free
<1>3. calls \in Seq(CallOK) /\ Len(calls) \in Nat /\ DOMAIN calls = 1 .. Len(calls)
  BY DEF PoolTypeOK
<1>4. IsFiniteSet(1 .. Len(calls)) /\ Releasing \subseteq 1 .. Len(calls)
  <2>1. Releasing \subseteq 1 .. Len(calls)
    BY <1>3 DEF Releasing
  <2>2. Len(calls) \in Int /\ 1 \in Int
    BY <1>3
  <2>3. IsFiniteSet(1 .. Len(calls))
    BY <2>2, FS_Interval
  <2>4. QED
    BY <2>1, <2>3
<1>5. IsFiniteSet(owned) /\ IsFiniteSet(Free) /\ IsFiniteSet(Releasing)
  BY <1>1, <1>2, <1>4, FS_Subset
<1>6. QED
  BY <1>1, <1>5, FS_CardinalityType
------------------------------------------------------------------------------
(* One lemma per call: what it does to the free list, the owners and the count. *)

PoolInv == PoolTypeOK /\ HandedOnce /\ FreeListWhole /\ LiveExact

LEMMA InitPool == PoolInit => PoolInv
<1> SUFFICES ASSUME PoolInit PROVE PoolInv
  OBVIOUS
<1>1. /\ calls = << >> /\ DOMAIN calls = {} /\ owned = {} /\ lost = {}
      /\ live = 0 /\ free_head = 0
      /\ next_free = [h \in Handles |-> IF h < N - 1 THEN h + 1 ELSE kInvalid]
  BY DEF PoolInit
<1>2. PoolTypeOK
  <2>1. << >> \in Seq(CallOK)
    OBVIOUS
  <2>2. QED
    BY <1>1, <2>1, PoolAssumption DEF PoolTypeOK, Handles
<1>3. HandedOnce /\ Free = Handles /\ Releasing = {}
  BY <1>1 DEF HandedOnce, Free, InCalls, Releasing
<1>4. LiveExact
  BY <1>1, <1>3, FS_EmptySet DEF LiveExact
<1>5. Cardinality(Free) = N
  BY <1>2, <1>3, Counted
<1>6. FreeListWhole
  <2> DEFINE rank == [h \in Free |-> N - h]
  <2>1. rank \in [Free -> 1 .. N]
    BY <1>3, PoolAssumption DEF Handles
  <2>2. Numbering(rank, N)
    BY <1>1, <1>3, PoolAssumption DEF Numbering, Handles
  <2>3. QED
    BY <1>5, <2>1, <2>2 DEF FreeListWhole
<1>7. QED
  BY <1>2, <1>3, <1>4, <1>6 DEF PoolInv

LEMMA AcquireKeeps == PoolInv /\ Acquire => PoolInv'
<1> SUFFICES ASSUME PoolInv, Acquire PROVE PoolInv'
  OBVIOUS
<1> USE DEF PoolInv
<1> DEFINE h == free_head
<1>0. PICK length \in Nat : length = Cardinality(Free)
  BY Counted
<1>1. PICK rank \in [Free -> 1 .. length] : Numbering(rank, length)
  BY <1>0 DEF FreeListWhole
<1>2. h \in Free /\ rank[h] = length /\ length # 0
  BY <1>1 DEF Numbering, Acquire
<1>3. h \in Handles /\ h \notin owned /\ h \notin lost /\ h \notin InCalls
  BY <1>2 DEF Free
<1>4. /\ calls' \in Seq(CallOK) /\ InCalls' = InCalls \cup {h}
      /\ \A i, j \in DOMAIN calls' : calls'[i].handle = calls'[j].handle => i = j
      /\ Releasing' = Releasing
  <2>1. Call("acquire", h)
    BY DEF Acquire
  <2>2. QED
    BY <1>3, <2>1, CallPushed DEF HandedOnce
<1>5. /\ next_free' = next_free /\ free_head' = next_free[h]
      /\ owned' = owned /\ lost' = lost /\ live' = live
  BY DEF Acquire, Popped
<1>6. PoolTypeOK'
  BY <1>3, <1>4, <1>5 DEF PoolTypeOK
<1>7. HandedOnce'
  BY <1>3, <1>4, <1>5 DEF HandedOnce
<1>8. LiveExact'
  BY <1>4, <1>5 DEF LiveExact
<1>9. Free' = Free \ {h} /\ Cardinality(Free') = length - 1
  <2>1. Free' = Free \ {h}
    BY <1>4, <1>5 DEF Free
  <2>2. QED
    BY <1>0, <1>2, <2>1, Counted, FS_RemoveElement
<1>10. FreeListWhole'
  <2>0. PICK less : less = [g \in Free' |-> rank[g]]
    OBVIOUS
  <2>1. ASSUME NEW g \in Free'
        PROVE  less[g] = rank[g] /\ g \in Free /\ rank[g] \in 1 .. length - 1
    BY <1>1, <1>2, <1>9, <2>0 DEF Numbering
  <2>2. less \in [Free' -> 1 .. length - 1]
    BY <2>0, <2>1
  <2>3. ASSUME NEW g \in Free', rank[g] # 1
        PROVE  next_free'[g] \in Free' /\ less[next_free'[g]] = less[g] - 1
    BY <1>1, <1>2, <1>5, <1>9, <2>0, <2>1, <2>3 DEF Numbering
  <2>4. ASSUME NEW g \in Free', rank[g] = 1
        PROVE  next_free'[g] = kInvalid
    BY <1>1, <1>5, <2>1, <2>4 DEF Numbering
  <2>5. \A f, g \in Free' : less[f] = less[g] => f = g
    BY <1>1, <2>1 DEF Numbering
  <2>6. IF length - 1 = 0 THEN free_head' = kInvalid
        ELSE free_head' \in Free' /\ less[free_head'] = length - 1
    BY <1>1, <1>2, <1>5, <1>9, <2>0 DEF Numbering
  <2>7. Numbering(less, length - 1)'
    BY <2>1, <2>3, <2>4, <2>5, <2>6 DEF Numbering
  <2>8. QED
    BY <1>9, <2>2, <2>7 DEF FreeListWhole
<1>11. QED
  BY <1>6, <1>7, <1>8, <1>10

(* The steps that leave the list and the set of free slots alone. *)
LEMMA ListUntouched ==
  ASSUME FreeListWhole, Free' = Free, UNCHANGED <<next_free, free_head>>
  PROVE  FreeListWhole'
<1>1. PICK rank \in [Free -> 1 .. Cardinality(Free)] : Numbering(rank, Cardinality(Free))
  BY DEF FreeListWhole
<1>2. Numbering(rank, Cardinality(Free))'
  BY <1>1 DEF Numbering
<1>3. QED
  BY <1>2 DEF FreeListWhole

LEMMA AcquiredKeeps == PoolInv /\ Acquired => PoolInv'
<1> SUFFICES ASSUME PoolInv, Acquired PROVE PoolInv'
  OBVIOUS
<1> USE DEF PoolInv
<1> DEFINE h == Inner.handle
<1>1. /\ Inner \in CallOK /\ h \in InCalls /\ calls' \in Seq(CallOK)
      /\ InCalls' = InCalls \ {h}
      /\ \A i, j \in DOMAIN calls' : calls'[i].handle = calls'[j].handle => i = j
      /\ Releasing' = Releasing \ {Len(calls)} /\ Len(calls) \notin Releasing
  BY CallReturned DEF Acquired
<1>2. /\ next_free' = next_free /\ free_head' = free_head
      /\ owned' = owned \cup {h} /\ lost' = lost /\ live' = live + 1
  BY DEF Acquired
<1>3. h \in Handles /\ h \notin owned /\ h \notin lost
  BY <1>1 DEF HandedOnce, CallOK
<1>4. PoolTypeOK'
  BY <1>1, <1>2, <1>3 DEF PoolTypeOK
<1>5. HandedOnce'
  BY <1>1, <1>2, <1>3 DEF HandedOnce
<1>6. LiveExact'
  <2>1. Releasing' = Releasing
    BY <1>1
  <2>2. Cardinality(owned') = Cardinality(owned) + 1
    BY <1>2, <1>3, Counted, FS_AddElement
  <2>3. QED
    BY <1>2, <2>1, <2>2, Counted DEF LiveExact
<1>7. FreeListWhole'
  <2>1. Free' = Free
    BY <1>1, <1>2 DEF Free
  <2>2. QED
    BY <1>2, <2>1, ListUntouched
<1>8. QED
  BY <1>4, <1>5, <1>6, <1>7

LEMMA AcquireThrowsKeeps == PoolInv /\ AcquireThrows => PoolInv'
<1> SUFFICES ASSUME PoolInv, AcquireThrows PROVE PoolInv'
  OBVIOUS
<1> USE DEF PoolInv
<1> DEFINE h == Inner.handle
<1>1. /\ Inner \in CallOK /\ h \in InCalls /\ calls' \in Seq(CallOK)
      /\ InCalls' = InCalls \ {h}
      /\ \A i, j \in DOMAIN calls' : calls'[i].handle = calls'[j].handle => i = j
      /\ Releasing' = Releasing \ {Len(calls)} /\ Len(calls) \notin Releasing
  BY CallReturned DEF AcquireThrows
<1>2. /\ next_free' = next_free /\ free_head' = free_head
      /\ owned' = owned /\ lost' = lost \cup {h} /\ live' = live
  BY DEF AcquireThrows
<1>3. h \in Handles /\ h \notin owned /\ h \notin lost
  BY <1>1 DEF HandedOnce, CallOK
<1>4. PoolTypeOK' /\ HandedOnce'
  BY <1>1, <1>2, <1>3 DEF PoolTypeOK, HandedOnce
<1>5. LiveExact'
  BY <1>1, <1>2 DEF LiveExact
<1>6. FreeListWhole'
  <2>1. Free' = Free
    BY <1>1, <1>2 DEF Free
  <2>2. QED
    BY <1>2, <2>1, ListUntouched
<1>7. QED
  BY <1>4, <1>5, <1>6

LEMMA ReleaseKeeps == PoolInv /\ Release => PoolInv'
<1> SUFFICES ASSUME PoolInv, Release PROVE PoolInv'
  OBVIOUS
<1> USE DEF PoolInv
<1>1. PICK h \in owned : owned' = owned \ {h} /\ Call("release", h)
  BY DEF Release
<1>2. h \in Handles /\ h \notin InCalls /\ h \notin lost
  BY DEF PoolTypeOK, HandedOnce
<1>3. /\ next_free' = next_free /\ free_head' = free_head /\ lost' = lost /\ live' = live
  BY DEF Release
<1>4. /\ calls' \in Seq(CallOK) /\ InCalls' = InCalls \cup {h}
      /\ \A i, j \in DOMAIN calls' : calls'[i].handle = calls'[j].handle => i = j
      /\ Releasing' = Releasing \cup {Len(calls) + 1} /\ Len(calls) + 1 \notin Releasing
  BY <1>1, <1>2, CallPushed DEF HandedOnce
<1>5. PoolTypeOK' /\ HandedOnce'
  BY <1>1, <1>2, <1>3, <1>4 DEF PoolTypeOK, HandedOnce
<1>6. LiveExact'
  <2>1. Cardinality(owned') = Cardinality(owned) - 1
    BY <1>1, Counted, FS_RemoveElement
  <2>2. Cardinality(Releasing') = Cardinality(Releasing) + 1
    BY <1>4, Counted, FS_AddElement
  <2>3. QED
    BY <1>3, <2>1, <2>2, Counted DEF LiveExact
<1>7. FreeListWhole'
  <2>1. Free' = Free
    BY <1>1, <1>3, <1>4 DEF Free
  <2>2. QED
    BY <1>3, <2>1, ListUntouched
<1>8. QED
  BY <1>5, <1>6, <1>7

LEMMA ReleasedKeeps == PoolInv /\ Released => PoolInv'
<1> SUFFICES ASSUME PoolInv, Released PROVE PoolInv'
  OBVIOUS
<1> USE DEF PoolInv
<1> DEFINE h == Inner.handle
<1>0. PICK length \in Nat : length = Cardinality(Free)
  BY Counted
<1>1. /\ Inner \in CallOK /\ h \in InCalls /\ calls' \in Seq(CallOK)
      /\ InCalls' = InCalls \ {h}
      /\ \A i, j \in DOMAIN calls' : calls'[i].handle = calls'[j].handle => i = j
      /\ Releasing' = Releasing \ {Len(calls)} /\ Len(calls) \in Releasing
  BY CallReturned DEF Released
<1>2. /\ next_free' = [next_free EXCEPT ![h] = free_head] /\ free_head' = h
      /\ owned' = owned /\ lost' = lost /\ live' = live - 1
  BY DEF Released, Linked, LiveLess
<1>3. h \in Handles /\ h \notin owned /\ h \notin lost /\ h \notin Free
  BY <1>1 DEF HandedOnce, CallOK, Free
<1>4. /\ Cardinality(Releasing') = Cardinality(Releasing) - 1
      /\ Cardinality(Releasing') \in Nat
  <2>1. IsFiniteSet(Releasing')
    BY <1>1, Counted, FS_RemoveElement
  <2>2. QED
    BY <1>1, <2>1, Counted, FS_RemoveElement, FS_CardinalityType
<1>5. LiveExact' /\ live' \in Nat
  BY <1>2, <1>4, Counted DEF LiveExact
<1>6. PoolTypeOK' /\ HandedOnce'
  BY <1>1, <1>2, <1>3, <1>5 DEF PoolTypeOK, HandedOnce
<1>7. Free' = Free \cup {h} /\ Cardinality(Free') = length + 1
  <2>1. Free' = Free \cup {h}
    BY <1>1, <1>2, <1>3 DEF Free
  <2>2. QED
    BY <1>0, <1>3, <2>1, Counted, FS_AddElement
<1>8. FreeListWhole'
  <2>1. PICK rank \in [Free -> 1 .. length] : Numbering(rank, length)
    BY <1>0 DEF FreeListWhole
  <2>0. PICK more : more = [g \in Free' |-> IF g = h THEN length + 1 ELSE rank[g]]
    OBVIOUS
  <2>2. more[h] = length + 1 /\ \A g \in Free : more[g] = rank[g] /\ more[g] \in 1 .. length
    BY <1>3, <1>7, <2>0, <2>1
  <2>3. more \in [Free' -> 1 .. length + 1]
    BY <1>7, <2>0, <2>1
  <2>4. next_free'[h] = free_head /\ \A g \in Free : next_free'[g] = next_free[g]
    BY <1>2, <1>3 DEF PoolTypeOK, Free
  <2>5. ASSUME NEW g \in Free
        PROVE  IF more[g] = 1 THEN next_free'[g] = kInvalid
               ELSE next_free'[g] \in Free' /\ more[next_free'[g]] = more[g] - 1
    BY <1>7, <2>1, <2>2, <2>4 DEF Numbering
  <2>6. IF more[h] = 1 THEN next_free'[h] = kInvalid
        ELSE next_free'[h] \in Free' /\ more[next_free'[h]] = more[h] - 1
    BY <1>7, <2>1, <2>2, <2>4 DEF Numbering
  <2>7. \A f, g \in Free' : more[f] = more[g] => f = g
    BY <1>7, <2>1, <2>2 DEF Numbering
  <2>8. Numbering(more, length + 1)'
    BY <1>2, <1>7, <2>2, <2>5, <2>6, <2>7 DEF Numbering
  <2>9. QED
    BY <1>7, <2>3, <2>8 DEF FreeListWhole
<1>9. QED
  BY <1>5, <1>6, <1>8
------------------------------------------------------------------------------
LEMMA NextPool == PoolInv /\ [PoolNext]_pool => PoolInv'
<1> SUFFICES ASSUME PoolInv, [PoolNext]_pool PROVE PoolInv'
  OBVIOUS
<1>1. CASE PoolNext
  BY <1>1, AcquireKeeps, AcquiredKeeps, AcquireThrowsKeeps, ReleaseKeeps,
     ReleasedKeeps DEF PoolNext
<1>2. CASE UNCHANGED pool
  <2>1. Free' = Free /\ Releasing' = Releasing /\ InCalls' = InCalls
    BY <1>2 DEF pool, Free, InCalls, Releasing
  <2>2. FreeListWhole'
    BY <1>2, <2>1, ListUntouched DEF PoolInv, pool
  <2>3. QED
    BY <1>2, <2>1, <2>2 DEF PoolInv, pool, PoolTypeOK, HandedOnce, LiveExact
<1>3. QED
  BY <1>1, <1>2

LEMMA AlwaysPool == PoolSpec => []PoolInv
  BY InitPool, NextPool, PTL DEF PoolSpec

(* The pool's fields and the stack of calls stay well formed, live_ never below zero. *)
THEOREM PoolTypeCorrect == PoolSpec => []PoolTypeOK
<1>1. PoolInv => PoolTypeOK
  BY DEF PoolInv
<1>2. QED
  BY <1>1, AlwaysPool, PTL

(* acquire never hands out a slot that somebody holds, however constructors and destructors
   nest their own calls of the pool. *)
THEOREM NeverHandedTwice == PoolSpec => []HandedOnce
<1>1. PoolInv => HandedOnce
  BY DEF PoolInv
<1>2. QED
  BY <1>1, AlwaysPool, PTL

(* The free list holds every free slot exactly once, so that acquire refuses only when no
   slot is free. *)
THEOREM FreeListNeverBroken == PoolSpec => []FreeListWhole
<1>1. PoolInv => FreeListWhole
  BY DEF PoolInv
<1>2. QED
  BY <1>1, AlwaysPool, PTL

(* live() is the number of objects that exist. *)
THEOREM LiveCounts == PoolSpec => []LiveExact
<1>1. PoolInv => LiveExact
  BY DEF PoolInv
<1>2. QED
  BY <1>1, AlwaysPool, PTL

(* Every slot is in one place, and the free list and live() agree with it. *)
THEOREM PoolKeepsAccount == PoolSpec => []PoolAccounted
<1>1. PoolInv => PoolAccounted
  BY DEF PoolInv, PoolAccounted
<1>2. QED
  BY <1>1, AlwaysPool, PTL

-----------------------------------------------------------------------------
(* The static vector. *)

Cells == [0 .. Capacity - 1 -> Element \cup {Raw}]

\* A vector whose objects are those in front of its size.
Sound(s, n) ==
  /\ s \in Cells /\ n \in Nat /\ n <= Capacity
  /\ \A i \in 0 .. Capacity - 1 : s[i] \in Element <=> i < n
SoundVectors == {x \in [storage : Cells, size : Nat] : Sound(x.storage, x.size)}

\* The vectors that may hold objects.
Holding == alive \cup given_up

VectorInv ==
  /\ alive \subseteq Vec
  /\ storage \in [Vec -> Cells] /\ size \in [Vec -> Nat]
  /\ \A v \in Vec : Sound(storage[v], size[v]) /\ (v \notin Holding => size[v] = 0)

LEMMA WidthHolds ==
  Capacity \in Nat \ {0} /\ Width \in Nat \ {0} /\ Capacity < Width /\ Raw \notin Element
BY VectorAssumption DEF Width

LEMMA SoundIs ==
  ASSUME NEW x
  PROVE  x \in SoundVectors <=> /\ x = [storage |-> x.storage, size |-> x.size]
                                /\ Sound(x.storage, x.size)
BY DEF SoundVectors, Sound

LEMMA MadeOf ==
  ASSUME NEW s, NEW n, Sound(s, n)
  PROVE  [storage |-> s, size |-> n] \in SoundVectors
BY DEF SoundVectors, Sound

LEMMA FreshSound == Fresh \in SoundVectors /\ Fresh.size = 0
<1> DEFINE r == [i \in 0 .. Capacity - 1 |-> Raw]
<1>1. r \in Cells /\ \A i \in 0 .. Capacity - 1 : r[i] \notin Element /\ ~(i < 0)
  BY WidthHolds DEF Cells
<1>2. Fresh = [storage |-> r, size |-> 0]
  BY DEF Fresh
<1> HIDE DEF r
<1>3. Sound(r, 0)
  BY <1>1, WidthHolds DEF Sound
<1>4. QED
  BY <1>2, <1>3, MadeOf

LEMMA PushedSound ==
  ASSUME NEW x \in SoundVectors, NEW e \in Element
  PROVE  Pushed(x, e) \in SoundVectors
<1>1. PICK s \in Cells, n \in Nat : x.storage = s /\ x.size = n  BY DEF SoundVectors
<1>2. Sound(s, n)  BY <1>1 DEF SoundVectors
<1>3. CASE n = Capacity  BY <1>1, <1>3 DEF Pushed
<1>4. CASE n # Capacity
  <2> DEFINE r == [s EXCEPT ![n] = e]
  <2>1. n \in 0 .. Capacity - 1 /\ n + 1 <= Capacity  BY <1>2, <1>4, WidthHolds DEF Sound
  <2>2. (n + 1) % Width = n + 1
    <3>1. (Width * 0 + (n + 1)) % Width = n + 1
      <4>1. n + 1 \in 0 .. Width - 1  BY <2>1, WidthHolds
      <4> QED  BY <4>1, WidthHolds, ModUnique
    <3>2. Width * 0 + (n + 1) = n + 1  BY WidthHolds
    <3> QED  BY <3>1, <3>2
  <2>3. r \in Cells /\ r[n] = e /\ \A i \in 0 .. Capacity - 1 : i # n => r[i] = s[i]
    BY <2>1 DEF Cells
  <2> HIDE DEF r
  <2>4. Sound(r, n + 1)
    <3>1. ASSUME NEW i \in 0 .. Capacity - 1 PROVE r[i] \in Element <=> i < n + 1
      <4>1. CASE i = n  BY <2>3, <4>1
      <4>2. CASE i # n  BY <1>2, <2>3, <4>2, WidthHolds DEF Sound
      <4> QED  BY <4>1, <4>2
    <3> QED  BY <2>1, <2>3, <3>1 DEF Sound
  <2>5. Pushed(x, e) = [storage |-> r, size |-> n + 1]  BY <1>1, <1>4, <2>2 DEF Pushed, r
  <2> QED  BY <2>4, <2>5, MadeOf
<1> QED  BY <1>3, <1>4

(* push_back in turn, step by step. *)
InTurn(f, x, s) ==
  /\ f \in [0 .. Len(s) -> SoundVectors] /\ f[0] = x
  /\ \A k \in 1 .. Len(s) : f[k] = Pushed(f[k - 1], s[k])

LEMMA PushedInTurn ==
  ASSUME NEW x \in SoundVectors, NEW s \in Seq(Element)
  PROVE  \E f : InTurn(f, x, s) /\ PushedAll(x, s) = f[Len(s)]
<1> DEFINE n == Len(s)
           D == 1 .. n
           ch == [t \in SUBSET D |-> Max(t)]
           F == [p \in D \X SoundVectors |-> Pushed(p[2], s[p[1]])]
           Is(W) == W = [t \in SUBSET D |-> IF t = {} THEN x
                            ELSE LET i == Max(t) IN Pushed(W[t \ {i}], s[i])]
           Table == CHOOSE W : Is(W)
           f == [k \in 0 .. n |-> Table[1 .. k]]
<1>1. n \in Nat /\ D = DOMAIN s /\ IsFiniteSet(D) /\ \A i \in D : s[i] \in Element
  BY FS_Interval
<1>2. PushedAll(x, s) = Table[D]
  BY <1>1 DEF PushedAll, FoldLeft, MapThenFoldSet
<1>3. \A t \in SUBSET D : t # {} => ch[t] \in t
  BY <1>1, LastTaken
<1>4. \A i \in D, v \in SoundVectors : F[<<i, v>>] \in SoundVectors /\ F[<<i, v>>] = Pushed(v, s[i])
  BY <1>1, PushedSound
<1>5. \A t \in SUBSET D : ch[t] = Max(t)
  OBVIOUS
<1> HIDE DEF n, D, F, ch
<1>6. PICK W \in [SUBSET D -> SoundVectors] : IsFold(W, D, x, F, ch)
  <2>1. \A i \in D, v \in SoundVectors : F[<<i, v>>] \in SoundVectors
    BY <1>4
  <2> HIDE DEF Is
  <2>2. QED
    BY <1>1, <1>3, <2>1, FoldTableExists
<1>7. Is(W)
  <2>1. ASSUME NEW t \in SUBSET D, t # {}
        PROVE  F[<<ch[t], W[t \ {ch[t]}]>>] = Pushed(W[t \ {Max(t)}], s[Max(t)])
    <3>1. ch[t] \in D /\ W[t \ {ch[t]}] \in SoundVectors
      BY <1>3, <2>1
    <3>2. QED
      BY <1>4, <1>5, <3>1
  <2>2. [t \in SUBSET D |-> IF t = {} THEN x ELSE F[<<ch[t], W[t \ {ch[t]}]>>]]
          = [t \in SUBSET D |-> IF t = {} THEN x ELSE LET i == Max(t) IN Pushed(W[t \ {i}], s[i])]
    BY <2>1
  <2>3. QED
    BY <1>6, <2>2 DEF IsFold
<1>8. Is(Table)
  <2> HIDE DEF Is
  <2>1. QED
    BY <1>7
<1> HIDE DEF Table
<1>9. f[0] = x /\ f[n] = Table[D]
  <2>1. /\ {} \in SUBSET D /\ 1 .. 0 = {} /\ 0 \in 0 .. n /\ n \in 0 .. n
    BY <1>1
  <2>2. Table[{}] = x
    BY <1>8, <2>1
  <2>3. QED
    BY <2>1, <2>2 DEF D
<1>10. ASSUME NEW k \in 1 .. n PROVE f[k] = Pushed(f[k - 1], s[k])
  <2>1. /\ k \in Nat /\ k # 0 /\ k \in 0 .. n /\ k - 1 \in 0 .. n /\ 1 .. k \in SUBSET D
    BY <1>1 DEF D
  <2>2. Max(1 .. k) = k /\ (1 .. k) \ {k} = 1 .. k - 1 /\ 1 .. k # {}
    BY <2>1, Intervals
  <2>3. Table[1 .. k] = Pushed(Table[(1 .. k) \ {Max(1 .. k)}], s[Max(1 .. k)])
    BY <1>8, <2>1, <2>2
  <2>4. Table[1 .. k] = Pushed(Table[1 .. k - 1], s[k])
    BY <2>2, <2>3
  <2>5. QED
    BY <2>1, <2>4
<1>11. \A k \in 0 .. n : f[k] \in SoundVectors
  <2> DEFINE P == {k \in 0 .. n : f[k] \in SoundVectors}
  <2>1. 0 \in P
    BY <1>1, <1>9
  <2>2. ASSUME NEW k \in 0 .. n - 1, k \in P PROVE k + 1 \in P
    <3>1. k + 1 \in 1 .. n /\ k + 1 \in 0 .. n /\ (k + 1) - 1 = k
      BY <1>1
    <3>2. f[k + 1] = Pushed(f[k], s[k + 1])
      BY <1>10, <3>1
    <3> HIDE DEF f
    <3>3. s[k + 1] \in Element /\ f[k] \in SoundVectors
      BY <1>1, <2>2, <3>1 DEF D
    <3>4. f[k + 1] \in SoundVectors
      BY <3>2, <3>3, PushedSound
    <3>5. QED
      BY <3>1, <3>4
  <2> HIDE DEF P
  <2>3. \A k \in 0 .. n : k \in P
    BY <1>1, <2>1, <2>2, Upward
  <2>4. QED
    BY <2>3 DEF P
<1>12. f \in [0 .. n -> SoundVectors]
  BY <1>11
<1> HIDE DEF f
<1>13. InTurn(f, x, s)
  BY <1>9, <1>10, <1>12 DEF InTurn, n
<1>14. QED
  BY <1>2, <1>9, <1>13 DEF n

\* push_back in turn, for any number of elements.
LEMMA PushedAllSound ==
  ASSUME NEW x \in SoundVectors, NEW s \in Seq(Element)
  PROVE  PushedAll(x, s) \in SoundVectors
<1>1. PICK f : InTurn(f, x, s) /\ PushedAll(x, s) = f[Len(s)]
  BY PushedInTurn
<1>2. QED
  BY <1>1 DEF InTurn

LEMMA PoppedBackSound ==
  ASSUME NEW s \in Cells, NEW n \in Nat \ {0}, n <= Capacity,
         \A i \in 0 .. Capacity - 1 : i # n - 1 => (s[i] \in Element <=> i < n)
  PROVE  PoppedBack([storage |-> s, size |-> n]) \in SoundVectors
<1> DEFINE r == [s EXCEPT ![n - 1] = Raw]
<1>1. n - 1 \in 0 .. Capacity - 1 /\ n - 1 \in Nat  BY WidthHolds
<1>2. r \in Cells /\ r[n - 1] = Raw /\ \A i \in 0 .. Capacity - 1 : i # n - 1 => r[i] = s[i]
  BY <1>1 DEF Cells
<1> HIDE DEF r
<1>3. ASSUME NEW i \in 0 .. Capacity - 1 PROVE r[i] \in Element <=> i < n - 1
  <2>1. CASE i = n - 1  BY <1>2, <2>1, WidthHolds
  <2>2. CASE i # n - 1
    <3>1. i < n - 1 <=> i < n  BY <2>2
    <3> QED  BY <1>2, <2>2, <3>1
  <2> QED  BY <2>1, <2>2
<1>4. Sound(r, n - 1)  BY <1>1, <1>2, <1>3, WidthHolds DEF Sound
<1>5. PoppedBack([storage |-> s, size |-> n]) = [storage |-> r, size |-> n - 1]
  BY DEF PoppedBack, r
<1> QED  BY <1>4, <1>5, MadeOf

LEMMA ErasedSound ==
  ASSUME NEW s, NEW n, Sound(s, n), NEW i \in 0 .. Capacity - 1, i < n
  PROVE  Erased([storage |-> s, size |-> n], i) \in SoundVectors
<1> DEFINE r == [s EXCEPT ![i] = s[n - 1]]
<1>1. /\ s \in Cells /\ n \in Nat \ {0} /\ n <= Capacity /\ n - 1 \in 0 .. Capacity - 1
      /\ \A j \in 0 .. Capacity - 1 : s[j] \in Element <=> j < n
  BY WidthHolds DEF Sound
<1>2. s[n - 1] \in Element  BY <1>1
<1>3. r \in Cells /\ r[i] = s[n - 1] /\ \A j \in 0 .. Capacity - 1 : j # i => r[j] = s[j]
  BY <1>1, <1>2 DEF Cells
<1> HIDE DEF r
<1>4. \A j \in 0 .. Capacity - 1 : r[j] \in Element <=> j < n
  BY <1>1, <1>2, <1>3
<1>5. PoppedBack([storage |-> r, size |-> n]) \in SoundVectors  BY <1>1, <1>3, <1>4, PoppedBackSound
<1>6. Erased([storage |-> s, size |-> n], i) = PoppedBack([storage |-> r, size |-> n])
  BY DEF Erased, r
<1> QED  BY <1>5, <1>6

LEMMA ClearedSound ==
  ASSUME NEW s, NEW n, Sound(s, n)
  PROVE  /\ Cleared([storage |-> s, size |-> n]) \in SoundVectors
         /\ Cleared([storage |-> s, size |-> n]).size = 0
<1> DEFINE r == [i \in 0 .. Capacity - 1 |-> IF i < n THEN Raw ELSE s[i]]
<1>1. r \in Cells  BY DEF Cells, Sound
<1>2. \A i \in 0 .. Capacity - 1 : r[i] \notin Element  BY WidthHolds DEF Sound
<1> HIDE DEF r
<1>3. Sound(r, 0)
  <2>1. \A i \in 0 .. Capacity - 1 : ~(i < 0)  OBVIOUS
  <2> QED  BY <1>1, <1>2, <2>1, WidthHolds DEF Sound
<1>4. Cleared([storage |-> s, size |-> n]) = [storage |-> r, size |-> 0]  BY DEF Cleared, r
<1> QED  BY <1>3, <1>4, MadeOf

LEMMA ElementsAre ==
  ASSUME NEW s, NEW n, Sound(s, n)
  PROVE  /\ Elements([storage |-> s, size |-> n]) \in Seq(Element)
         /\ Len(Elements([storage |-> s, size |-> n])) = n
<1> DEFINE r == [i \in 1 .. n |-> s[i - 1]]
<1>1. \A i \in 1 .. n : s[i - 1] \in Element
  <2> TAKE i \in 1 .. n
  <2>1. i - 1 \in 0 .. Capacity - 1 /\ i - 1 < n  BY WidthHolds DEF Sound
  <2> QED  BY <2>1 DEF Sound
<1>2. n \in Nat  BY DEF Sound
<1>3. r \in Seq(Element) /\ Len(r) = n  BY <1>1, <1>2
<1>4. Elements([storage |-> s, size |-> n]) = r  BY DEF Elements
<1> QED  BY <1>3, <1>4

\* What a step leaves when it gives one vector a value.
LEMMA BecomesSound ==
  ASSUME VectorInv, NEW v \in Vec, NEW x \in SoundVectors, Becomes(v, x),
         alive' \subseteq Vec, NEW A, Holding' = A, A \cup {v} = Holding \cup {v},
         v \notin A => x.size = 0
  PROVE  VectorInv'
<1>1. storage \in [Vec -> Cells] /\ size \in [Vec -> Nat] /\ x.storage \in Cells /\ x.size \in Nat
      /\ Sound(x.storage, x.size)
  BY DEF VectorInv, SoundVectors
<1>2. storage' \in [Vec -> Cells] /\ storage'[v] = x.storage
      /\ \A w \in Vec : w # v => storage'[w] = storage[w]
  BY <1>1 DEF Becomes
<1>3. size' \in [Vec -> Nat] /\ size'[v] = x.size
      /\ \A w \in Vec : w # v => size'[w] = size[w]
  BY <1>1 DEF Becomes
<1>4. ASSUME NEW w \in Vec PROVE Sound(storage'[w], size'[w]) /\ (w \notin A => size'[w] = 0)
  <2>1. CASE w = v  BY <1>1, <1>2, <1>3, <2>1
  <2>2. CASE w # v
    <3>1. w \in A <=> w \in Holding  BY <2>2
    <3> QED  BY <1>2, <1>3, <2>2, <3>1 DEF VectorInv
  <2> QED  BY <2>1, <2>2
<1> QED  BY <1>2, <1>3, <1>4 DEF VectorInv

LEMMA InitVectors == VectorInit => VectorInv
<1> SUFFICES ASSUME VectorInit PROVE VectorInv  OBVIOUS
<1> DEFINE r == [i \in 0 .. Capacity - 1 |-> Raw]
<1>1. r \in Cells /\ \A i \in 0 .. Capacity - 1 : r[i] \notin Element /\ ~(i < 0)
  BY WidthHolds DEF Cells
<1>2. /\ alive = {} /\ storage \in [Vec -> Cells] /\ size \in [Vec -> Nat]
      /\ \A v \in Vec : storage[v] = r /\ size[v] = 0
  BY <1>1 DEF VectorInit
<1> HIDE DEF r
<1>3. Sound(r, 0)  BY <1>1, WidthHolds DEF Sound
<1> QED  BY <1>2, <1>3 DEF VectorInv

LEMMA NextVectors == VectorInv /\ [VectorNext]_vectors => VectorInv'
<1> SUFFICES ASSUME VectorInv, [VectorNext]_vectors PROVE VectorInv'  OBVIOUS
<1>0. /\ alive \subseteq Vec
      /\ \A v \in Vec : /\ Sound(storage[v], size[v]) /\ This(v) \in SoundVectors
                        /\ This(v) = [storage |-> storage[v], size |-> size[v]]
                        /\ v \notin Holding => size[v] = 0
  BY MadeOf DEF VectorInv, This
<1>s. ASSUME UNCHANGED <<alive, given_up, storage, size>> PROVE VectorInv'
  BY <1>s DEF VectorInv, Holding
<1>b. ASSUME NEW v \in alive, NEW x \in SoundVectors, Becomes(v, x), UNCHANGED <<alive, given_up>>
      PROVE  VectorInv'
  <2>1. v \in Vec /\ alive' \subseteq Vec /\ Holding' = Holding /\ v \in Holding
    BY <1>0, <1>b DEF Holding
  <2> QED  BY <1>b, <2>1, BecomesSound
<1>c. ASSUME NEW v \in Vec, NEW x \in SoundVectors, Becomes(v, x), Created(v)
      PROVE  VectorInv'
  <2>1. /\ alive' \subseteq Vec /\ Holding' = Holding \cup {v}
        /\ (Holding \cup {v}) \cup {v} = Holding \cup {v} /\ v \in Holding \cup {v}
    BY <1>0, <1>c DEF Created, Holding
  <2> QED  BY <1>c, <2>1, BecomesSound
<1>1. ASSUME NEW v \in alive, PopBack(v) PROVE VectorInv'
  <2>1. PICK s \in Cells, n \in Nat : s = storage[v] /\ n = size[v] /\ Sound(s, n) /\ n > 0
    BY <1>0, <1>1 DEF VectorInv, PopBack
  <2>2. PoppedBack([storage |-> s, size |-> n]) \in SoundVectors
    BY <2>1, PoppedBackSound DEF Sound
  <2>3. PoppedBack(This(v)) \in SoundVectors  BY <1>0, <2>1, <2>2
  <2> QED  BY <1>1, <1>b, <2>3 DEF PopBack
<1>2. ASSUME NEW v \in alive, Clear(v) PROVE VectorInv'
  <2>1. Cleared(This(v)) \in SoundVectors  BY <1>0, ClearedSound
  <2> QED  BY <1>2, <1>b, <2>1 DEF Clear
<1>3. ASSUME NEW v \in alive, Destroy(v) PROVE VectorInv'
  <2>1. Cleared(This(v)) \in SoundVectors /\ Cleared(This(v)).size = 0  BY <1>0, ClearedSound
  <2>2. v \in Vec /\ alive' \subseteq Vec /\ Holding' \cup {v} = Holding \cup {v}
    BY <1>0, <1>3 DEF Destroy, Holding
  <2>3. PICK A : A = Holding'  OBVIOUS
  <2> QED  BY <1>3, <2>1, <2>2, <2>3, BecomesSound DEF Destroy
<1>4. ASSUME NEW v \in alive, NEW w \in alive, CopyAssign(v, w) PROVE VectorInv'
  <2>0. v \in Vec /\ w \in Vec /\ UNCHANGED <<alive, given_up>>  BY <1>0, <1>4 DEF CopyAssign
  <2>1. Cleared(This(v)) \in SoundVectors  BY <1>0, <2>0, ClearedSound
  <2>2. Elements(This(w)) \in Seq(Element) /\ Len(Elements(This(w))) = size[w]
        /\ size[w] \in Nat
    BY <1>0, <2>0, ElementsAre DEF Sound
  <2>3. CASE Becomes(v, Assigned(v, w))
    <3>1. Assigned(v, w) \in SoundVectors
      BY <1>0, <2>0, <2>1, <2>2, PushedAllSound DEF Assigned
    <3> QED  BY <1>b, <2>0, <2>3, <3>1
  <2>4. CASE \E k \in 0 .. size[w] - 1 :
               Becomes(v, PushedAll(Cleared(This(v)), SubSeq(Elements(This(w)), 1, k)))
    <3>1. PICK k \in 0 .. size[w] - 1 :
            Becomes(v, PushedAll(Cleared(This(v)), SubSeq(Elements(This(w)), 1, k)))
      BY <2>4
    <3>2. SubSeq(Elements(This(w)), 1, k) \in Seq(Element)
      <4> DEFINE e == Elements(This(w))
      <4>1. e \in Seq(Element) /\ k \in 0 .. Len(e)  BY <2>2
      <4> HIDE DEF e
      <4>2. SubSeq(e, 1, k) \in Seq(Element)  BY <4>1
      <4> QED  BY <4>2 DEF e
    <3>3. PushedAll(Cleared(This(v)), SubSeq(Elements(This(w)), 1, k)) \in SoundVectors
      BY <2>1, <3>2, PushedAllSound
    <3> QED  BY <1>b, <2>0, <3>1, <3>3
  <2> QED  BY <1>4, <2>3, <2>4 DEF CopyAssign
<1>5. ASSUME NEW v \in alive, NEW e \in Element, Push(v, e) PROVE VectorInv'
  <2>1. CASE UNCHANGED <<storage, size>>  BY <1>5, <1>s, <2>1 DEF Push
  <2>2. CASE Becomes(v, Pushed(This(v), e))
    <3>1. Pushed(This(v), e) \in SoundVectors  BY <1>0, PushedSound
    <3> QED  BY <1>5, <1>b, <2>2, <3>1 DEF Push
  <2> QED  BY <1>5, <2>1, <2>2 DEF Push
<1>6. ASSUME NEW v \in alive, NEW i \in 0 .. Capacity - 1, EraseUnordered(v, i) PROVE VectorInv'
  <2>1. Erased(This(v), i) \in SoundVectors  BY <1>0, <1>6, ErasedSound DEF EraseUnordered
  <2> QED  BY <1>6, <1>b, <2>1 DEF EraseUnordered
<1>7. ASSUME NEW v \in alive, NEW i \in 0 .. Capacity - 1, NEW e \in Element, Write(v, i, e)
      PROVE  VectorInv'
  <2> DEFINE r == [storage[v] EXCEPT ![i] = e]
  <2>0. v \in Vec /\ storage[v] \in Cells /\ Sound(storage[v], size[v]) /\ i < size[v]
        /\ storage' = [storage EXCEPT ![v] = r] /\ UNCHANGED <<alive, given_up, size>>
    BY <1>0, <1>7 DEF Write, VectorInv
  <2>1. r \in Cells /\ r[i] = e /\ \A j \in 0 .. Capacity - 1 : j # i => r[j] = storage[v][j]
    BY <2>0 DEF Cells
  <2> HIDE DEF r
  <2>2. Sound(r, size[v])  BY <2>0, <2>1 DEF Sound
  <2>3. /\ storage' \in [Vec -> Cells] /\ storage'[v] = r
        /\ \A w \in Vec : w # v => storage'[w] = storage[w]
    BY <2>0, <2>1 DEF VectorInv
  <2>h. Holding' = Holding  BY <2>0 DEF Holding
  <2>4. ASSUME NEW w \in Vec PROVE Sound(storage'[w], size'[w]) /\ (w \notin Holding' => size'[w] = 0)
    <3>1. CASE w = v  BY <1>0, <2>0, <2>2, <2>3, <2>h, <3>1
    <3>2. CASE w # v  BY <1>0, <2>0, <2>3, <2>h, <3>2
    <3> QED  BY <3>1, <3>2
  <2> QED  BY <2>0, <2>3, <2>4 DEF VectorInv
<1>q. ASSUME NEW n \in Nat, NEW s \in BoundedSeq(Element, n) PROVE PushedAll(Fresh, s) \in SoundVectors
  <2>1. s \in Seq(Element)
    <3>1. PICK k \in 0 .. n : s \in [1 .. k -> Element]  BY DEF BoundedSeq, SeqOf
    <3>2. k \in Nat  OBVIOUS
    <3> QED  BY <3>1, <3>2
  <2> QED  BY <2>1, FreshSound, PushedAllSound
<1>8. ASSUME NEW v \in Vec \ alive, Construct(v) PROVE VectorInv'
  <2>1. PICK s \in BoundedSeq(Element, Capacity + 1) : Becomes(v, PushedAll(Fresh, s))
    BY <1>8 DEF Construct
  <2>2. PushedAll(Fresh, s) \in SoundVectors  BY <1>q, WidthHolds
  <2> QED  BY <1>8, <1>c, <2>1, <2>2 DEF Construct
<1>9. ASSUME NEW v \in Vec \ alive, ConstructThrows(v) PROVE VectorInv'
  <2>1. PICK s \in BoundedSeq(Element, Capacity - 1) : Becomes(v, PushedAll(Fresh, s))
    BY <1>9 DEF ConstructThrows
  <2>2. Capacity - 1 \in Nat  BY WidthHolds
  <2>3. PushedAll(Fresh, s) \in SoundVectors  BY <1>q, <2>2
  <2>4. /\ alive' \subseteq Vec /\ Holding' = Holding \cup {v}
        /\ (Holding \cup {v}) \cup {v} = Holding \cup {v} /\ v \in Holding \cup {v}
    BY <1>0, <1>9 DEF ConstructThrows, Holding
  <2> QED  BY <1>9, <2>1, <2>3, <2>4, BecomesSound
<1>10. ASSUME NEW v \in Vec \ alive, NEW w \in alive, CopyConstruct(v, w) PROVE VectorInv'
  <2>1. Elements(This(w)) \in Seq(Element)  BY <1>0, ElementsAre
  <2>2. PushedAll(Fresh, Elements(This(w))) \in SoundVectors  BY <2>1, FreshSound, PushedAllSound
  <2> QED  BY <1>10, <1>c, <2>2 DEF CopyConstruct
<1>11. CASE UNCHANGED vectors  BY <1>11, <1>s DEF vectors
<1> QED  BY <1>1, <1>2, <1>3, <1>4, <1>5, <1>6, <1>7, <1>8, <1>9, <1>10, <1>11 DEF VectorNext

\* The objects of every vector are those in front of its size, and a vector whose lifetime is
\* over has none unless its constructor threw, for every capacity and every sequence of calls
\* and exceptions (StaticVector of static_vector.hpp).
THEOREM ObjectsAreUpToSize == VectorSpec => []ConstructedUpToSize
<1>1. VectorInv => ConstructedUpToSize
  <2> SUFFICES ASSUME VectorInv, NEW v \in Vec
               PROVE  /\ size[v] \in 0 .. Capacity /\ (v \notin alive \cup given_up => size[v] = 0)
                      /\ \A i \in 0 .. Capacity - 1 : storage[v][i] \in Element <=> i < size[v]
    BY DEF ConstructedUpToSize
  <2> QED  BY WidthHolds DEF VectorInv, Sound, Holding
<1> QED  BY <1>1, InitVectors, NextVectors, PTL DEF VectorSpec

------------------------------------------------------------------------------
(* The static vector is a bounded bag: what is in front of its size, and how often. *)

(* How often an element stands in front of n. *)
Places(s, n, e) == {j \in 0 .. n - 1 : s[j] = e}
Copies(s, n, e) == Cardinality(Places(s, n, e))
Bag(s, n) == [e \in {s[j] : j \in 0 .. n - 1} |-> Copies(s, n, e)]

(* Alike in front of n, and there but for one place. *)
Alike(s, r, n) == \A j \in 0 .. n - 1 : r[j] = s[j]
AlikeBut(s, r, n, i) == i \in 0 .. n - 1 /\ \A j \in 0 .. n - 1 : j # i => s[j] = r[j]

LEMMA BagIs == \A x : BagOf(x) = Bag(x.storage, x.size)
BY DEF BagOf, Bag, Copies, Places

LEMMA CopiesNat ==
  ASSUME NEW n \in Nat, NEW s, NEW e
  PROVE  /\ IsFiniteSet(Places(s, n, e)) /\ Copies(s, n, e) \in Nat
         /\ Copies(s, n, e) # 0 <=> \E j \in 0 .. n - 1 : s[j] = e
<1>1. Places(s, n, e) \subseteq 0 .. n - 1 /\ IsFiniteSet(0 .. n - 1)
  <2>1. IsFiniteSet(0 .. n - 1)
    BY FS_Interval
  <2>2. QED
    BY <2>1 DEF Places
<1>2. IsFiniteSet(Places(s, n, e))
  BY <1>1, FS_Subset
<1>3. Copies(s, n, e) \in Nat /\ (Copies(s, n, e) = 0 <=> Places(s, n, e) = {})
  BY <1>2, FS_CardinalityType, FS_EmptySet DEF Copies
<1>4. QED
  BY <1>2, <1>3 DEF Places

LEMMA CopiesMore ==
  ASSUME NEW n \in Nat, NEW s, NEW e
  PROVE  Copies(s, n + 1, e) = Copies(s, n, e) + (IF s[n] = e THEN 1 ELSE 0)
<1>1. Places(s, n + 1, e) = IF s[n] = e THEN Places(s, n, e) \cup {n} ELSE Places(s, n, e)
  <2>1. 0 .. (n + 1) - 1 = (0 .. n - 1) \cup {n}
    OBVIOUS
  <2>2. QED
    BY <2>1 DEF Places
<1>2. n \notin Places(s, n, e)
  BY DEF Places
<1>3. IsFiniteSet(Places(s, n, e)) /\ Copies(s, n, e) \in Nat
  BY CopiesNat
<1>4. Cardinality(Places(s, n, e) \cup {n}) = Cardinality(Places(s, n, e)) + 1
  BY <1>2, <1>3, FS_AddElement
<1>5. QED
  BY <1>1, <1>3, <1>4 DEF Copies

LEMMA CopiesSame ==
  ASSUME NEW n \in Nat, NEW s, NEW r, Alike(s, r, n)
  PROVE  /\ \A e : Copies(s, n, e) = Copies(r, n, e)
         /\ Bag(s, n) = Bag(r, n)
<1>1. \A e : Copies(s, n, e) = Copies(r, n, e)
  <2>1. \A e : Places(s, n, e) = Places(r, n, e)
    BY DEF Places, Alike
  <2>2. QED
    BY <2>1 DEF Copies
<1>2. {s[j] : j \in 0 .. n - 1} = {r[j] : j \in 0 .. n - 1}
  BY DEF Alike
<1>3. QED
  BY <1>1, <1>2 DEF Bag

LEMMA CopiesChanged ==
  ASSUME NEW n \in Nat, NEW s, NEW r, NEW i, AlikeBut(s, r, n, i), NEW e
  PROVE  Copies(r, n, e) + (IF s[i] = e THEN 1 ELSE 0) = Copies(s, n, e) + (IF r[i] = e THEN 1 ELSE 0)
<1> DEFINE R == {j \in 0 .. n - 1 : j # i /\ s[j] = e}
<1>1. R = {j \in 0 .. n - 1 : j # i /\ r[j] = e}
  BY DEF AlikeBut
<1>2. /\ Places(s, n, e) = IF s[i] = e THEN R \cup {i} ELSE R
      /\ Places(r, n, e) = IF r[i] = e THEN R \cup {i} ELSE R
  <2>1. Places(s, n, e) = IF s[i] = e THEN R \cup {i} ELSE R
    BY DEF Places, AlikeBut
  <2>2. Places(r, n, e) = IF r[i] = e THEN R \cup {i} ELSE R
    BY <1>1 DEF Places, AlikeBut
  <2>3. QED
    BY <2>1, <2>2
<1>3. IsFiniteSet(R) /\ i \notin R
  <2>1. IsFiniteSet(0 .. n - 1) /\ R \subseteq 0 .. n - 1
    BY FS_Interval
  <2>2. IsFiniteSet(R)
    BY <2>1, FS_Subset
  <2>3. QED
    BY <2>2
<1> HIDE DEF R
<1>4. Cardinality(R) \in Nat /\ Cardinality(R \cup {i}) = Cardinality(R) + 1
  BY <1>3, FS_CardinalityType, FS_AddElement
<1>5. QED
  BY <1>2, <1>4 DEF Copies

(* As many elements as objects. *)
LEMMA BagHolds ==
  ASSUME NEW s, NEW n \in Nat
  PROVE  /\ IsFiniteSet(DOMAIN Bag(s, n))
         /\ \A e \in DOMAIN Bag(s, n) : Bag(s, n)[e] \in Nat \ {0}
         /\ Total(Bag(s, n), DOMAIN Bag(s, n)) = n
<1> DEFINE D == {s[j] : j \in 0 .. n - 1}
           c == [k \in 0 .. n |-> [e \in D |-> Copies(s, k, e)]]
           P == {k \in 0 .. n : Total(c[k], D) = k}
<1>1. IsFiniteSet(D)
  <2>1. IsFiniteSet(0 .. n - 1)
    BY FS_Interval
  <2> DEFINE g == [j \in 0 .. n - 1 |-> s[j]]
  <2>2. g \in Surjection(0 .. n - 1, D)
    BY DEF Surjection
  <2> HIDE DEF g, D
  <2>3. QED
    BY <2>1, <2>2, FS_Surjection
<1>2. \A k \in 0 .. n : Counter(c[k], D)
  <2>1. SUFFICES ASSUME NEW k \in 0 .. n PROVE Counter(c[k], D)
    OBVIOUS
  <2>2. k \in Nat /\ \A e \in D : Copies(s, k, e) \in Nat
    BY CopiesNat
  <2> HIDE DEF D
  <2>3. QED
    BY <2>2 DEF Counter
<1>3. \A k \in 0 .. n, e \in D : c[k][e] = Copies(s, k, e)
  OBVIOUS
<1>4. 0 \in P
  <2>1. \A e \in D : Copies(s, 0, e) = 0
    BY CopiesNat
  <2>2. \A e \in D : c[0][e] \in 0 .. 0
    BY <1>3, <2>1
  <2> HIDE DEF c, D
  <2>3. Total(c[0], D) <= Cardinality(D) * 0 /\ Cardinality(D) \in Nat
    BY <1>1, <2>2, TotalBounded, FS_CardinalityType
  <2>4. Total(c[0], D) \in Nat
    BY <1>1, <2>2, TotalNat
  <2>5. QED
    BY <2>3, <2>4
<1>5. ASSUME NEW k \in 0 .. n - 1, k \in P PROVE k + 1 \in P
  <2>1. k \in Nat /\ k \in 0 .. n /\ k + 1 \in 0 .. n /\ s[k] \in D
    OBVIOUS
  <2>2. \A e \in D : c[k + 1][e] = c[k][e] + (IF s[k] = e THEN 1 ELSE 0)
    BY <1>3, <2>1, CopiesMore
  <2>3. OneMore(c[k], c[k + 1], s[k])
    <3>1. c[k] \in [D -> Nat] /\ c[k + 1] \in [D -> Nat]
      BY <1>2, <2>1 DEF Counter
    <3>2. c[k + 1][s[k]] = c[k][s[k]] + 1 /\ \A e \in D : e # s[k] => c[k + 1][e] = c[k][e]
      <4>1. \A e \in D : c[k][e] \in Nat
        BY <3>1
      <4> HIDE DEF c, D
      <4>2. QED
        BY <2>1, <2>2, <4>1
    <3> HIDE DEF c, D
    <3>3. c[k + 1] = [c[k] EXCEPT ![s[k]] = @ + 1]
      BY <2>1, <3>1, <3>2
    <3>4. QED
      BY <3>3 DEF OneMore
  <2> HIDE DEF c, D
  <2>4. Total(c[k + 1], D) = Total(c[k], D) + 1
    BY <1>1, <1>2, <2>1, <2>3, TotalOneMore
  <2>5. Total(c[k], D) = k
    BY <1>5
  <2>6. QED
    BY <2>1, <2>4, <2>5
<1>6. n \in P
  <2> HIDE DEF P
  <2>1. QED
    BY <1>4, <1>5, Upward
<1>7. c[n] = Bag(s, n) /\ DOMAIN Bag(s, n) = D
  BY DEF Bag
<1>8. \A e \in D : Copies(s, n, e) \in Nat \ {0}
  BY CopiesNat
<1> HIDE DEF c, D
<1>9. Total(c[n], D) = n
  BY <1>6
<1>10. \A e \in D : Bag(s, n)[e] \in Nat \ {0}
  BY <1>8 DEF Bag, D
<1>11. QED
  BY <1>1, <1>7, <1>9, <1>10

LEMMA CardinalityIs ==
  ASSUME NEW s, NEW n \in Nat
  PROVE  Bounded!BagCardinality(Bag(s, n)) = n
<1> DEFINE B == Bag(s, n)
           D == DOMAIN B
           Table == CHOOSE W : IsSum(W, B, D)
<1>1. IsFiniteSet(D) /\ Total(B, D) = n
  BY BagHolds
<1>2. Bounded!BagCardinality(B) = Table[D]
  BY DEF Bounded!BagCardinality, IsSum
<1>3. IsSum(Table, B, D)
  <2> HIDE DEF B, D
  <2>1. \E W : IsSum(W, B, D)
    BY <1>1, SumTableExists
  <2>2. QED
    BY <2>1
<1>4. Total(B, D) = Table[D]
  <2> HIDE DEF B, D, Table
  <2>1. D \in SUBSET D
    OBVIOUS
  <2>2. QED
    BY <1>1, <1>3, <2>1, TotalInTable
<1>5. QED
  BY <1>1, <1>2, <1>4

(* One element more, one less, one for another. *)
LEMMA BagOfMore ==
  ASSUME NEW s, NEW r, NEW n \in Nat, NEW e, r[n] = e, Alike(s, r, n)
  PROVE  Bag(r, n + 1) = Bag(s, n) (+) SetToBag({e})
<1>1. /\ {r[j] : j \in 0 .. (n + 1) - 1} = {s[j] : j \in 0 .. n - 1} \cup {e}
  <2>1. 0 .. (n + 1) - 1 = (0 .. n - 1) \cup {n} /\ n \notin 0 .. n - 1
    OBVIOUS
  <2>2. QED
    BY <2>1 DEF Alike
<1>2. \A x : Copies(r, n + 1, x) = Copies(s, n, x) + (IF x = e THEN 1 ELSE 0)
  <2>1. SUFFICES ASSUME NEW x PROVE Copies(r, n + 1, x) = Copies(s, n, x) + (IF x = e THEN 1 ELSE 0)
    OBVIOUS
  <2>2. Copies(r, n + 1, x) = Copies(r, n, x) + (IF e = x THEN 1 ELSE 0)
    BY CopiesMore
  <2>3. Copies(r, n, x) = Copies(s, n, x)
    BY CopiesSame
  <2>4. QED
    BY <2>2, <2>3
<1>3. \A x : Copies(s, n, x) \in Nat /\ (x \notin {s[j] : j \in 0 .. n - 1} => Copies(s, n, x) = 0)
  BY CopiesNat
<1>4. Bag(s, n) (+) SetToBag({e})
        = [x \in {s[j] : j \in 0 .. n - 1} \cup {e} |->
             (IF x \in {s[j] : j \in 0 .. n - 1} THEN Copies(s, n, x) ELSE 0)
               + (IF x \in {e} THEN 1 ELSE 0)]
  BY DEF Bag, (+), SetToBag
<1>5. \A x \in {s[j] : j \in 0 .. n - 1} \cup {e} :
        Copies(r, n + 1, x)
          = (IF x \in {s[j] : j \in 0 .. n - 1} THEN Copies(s, n, x) ELSE 0)
              + (IF x \in {e} THEN 1 ELSE 0)
  BY <1>2, <1>3
<1>6. QED
  BY <1>1, <1>4, <1>5 DEF Bag

LEMMA BagOfLess ==
  ASSUME NEW s, NEW r, NEW n \in Nat, NEW m \in Nat, NEW e,
         \A x : Copies(r, m, x) + (IF x = e THEN 1 ELSE 0) = Copies(s, n, x)
  PROVE  BagIn(e, Bag(s, n)) /\ Bag(r, m) = Bag(s, n) (-) SetToBag({e})
<1> DEFINE S == {s[j] : j \in 0 .. n - 1}
           R == {r[j] : j \in 0 .. m - 1}
           b == [x \in S |-> IF x \in {e} THEN Copies(s, n, x) - 1 ELSE Copies(s, n, x)]
<1>1. \A x : /\ Copies(s, n, x) \in Nat /\ Copies(r, m, x) \in Nat
             /\ x \in S <=> Copies(s, n, x) # 0
             /\ x \in R <=> Copies(r, m, x) # 0
  BY CopiesNat
<1>2. DOMAIN Bag(s, n) = S /\ DOMAIN Bag(r, m) = R
  BY DEF Bag
<1>3. Bag(s, n) (-) SetToBag({e}) = [x \in {d \in S : b[d] > 0} |-> b[x]]
  BY DEF Bag, (-), SetToBag
<1>4. \A x \in S : b[x] = Copies(r, m, x)
  <2>1. \A x \in S : b[x] = IF x = e THEN Copies(s, n, x) - 1 ELSE Copies(s, n, x)
    OBVIOUS
  <2> HIDE DEF b, S, R
  <2>2. QED
    BY <1>1, <2>1
<1> HIDE DEF b
<1>5. {d \in S : b[d] > 0} = R
  <2> HIDE DEF S, R
  <2>1. \A x : x \in S /\ b[x] > 0 <=> x \in R
    BY <1>1, <1>4
  <2>2. QED
    BY <2>1
<1>6. Bag(r, m) = [x \in R |-> Copies(r, m, x)]
  BY DEF Bag
<1>7. \A x \in R : b[x] = Copies(r, m, x)
  BY <1>4, <1>5
<1>8. e \in S
  <2> HIDE DEF S, R
  <2>1. QED
    BY <1>1
<1> HIDE DEF S, R
<1>9. Bag(r, m) = Bag(s, n) (-) SetToBag({e})
  BY <1>3, <1>5, <1>6, <1>7
<1>10. QED
  BY <1>2, <1>8, <1>9 DEF BagIn, BagToSet

LEMMA BagByCopies ==
  ASSUME NEW s, NEW r, NEW n \in Nat, NEW m \in Nat, \A x : Copies(r, m, x) = Copies(s, n, x)
  PROVE  Bag(r, m) = Bag(s, n)
<1>1. \A x : /\ x \in {s[j] : j \in 0 .. n - 1} <=> Copies(s, n, x) # 0
             /\ x \in {r[j] : j \in 0 .. m - 1} <=> Copies(r, m, x) # 0
  BY CopiesNat
<1>2. {s[j] : j \in 0 .. n - 1} = {r[j] : j \in 0 .. m - 1}
  BY <1>1
<1>3. QED
  BY <1>2 DEF Bag

(* The last one in the place of another. *)
FilledFromLast(s, q, n, i) ==
  i \in 0 .. n - 1 /\ \A j \in 0 .. n - 2 : q[j] = IF j = i THEN s[n - 1] ELSE s[j]

LEMMA LastMoved ==
  ASSUME NEW s, NEW q, NEW k \in Nat, NEW i, FilledFromLast(s, q, k + 1, i)
  PROVE  \A x : Copies(q, k, x) + (IF x = s[i] THEN 1 ELSE 0) = Copies(s, k + 1, x)
<1> SUFFICES ASSUME NEW x
             PROVE  Copies(q, k, x) + (IF x = s[i] THEN 1 ELSE 0) = Copies(s, k + 1, x)
  OBVIOUS
<1>1. PICK n \in Nat : n = k + 1
  OBVIOUS
<1>2. PICK r : r = [j \in 0 .. n - 1 |-> IF j = i THEN s[n - 1] ELSE s[j]]
  OBVIOUS
<1>3. /\ i \in 0 .. k /\ 0 .. n - 1 = 0 .. k /\ n - 1 = k
      /\ \A j \in 0 .. k - 1 : q[j] = IF j = i THEN s[k] ELSE s[j]
  BY <1>1 DEF FilledFromLast
<1>4. r[i] = s[k] /\ r[k] = s[k] /\ AlikeBut(s, r, n, i) /\ Alike(q, r, k)
  BY <1>1, <1>2, <1>3 DEF Alike, AlikeBut
<1>5. Copies(r, n, x) + (IF s[i] = x THEN 1 ELSE 0) = Copies(s, n, x) + (IF r[i] = x THEN 1 ELSE 0)
  BY <1>4, CopiesChanged
<1>6. Copies(r, k + 1, x) = Copies(r, k, x) + (IF r[k] = x THEN 1 ELSE 0)
  BY CopiesMore
<1>7. Copies(q, k, x) = Copies(r, k, x)
  BY <1>4, CopiesSame
<1>8. Copies(r, k, x) \in Nat /\ Copies(s, n, x) \in Nat /\ Copies(r, n, x) \in Nat
  BY CopiesNat
<1>9. QED
  BY <1>1, <1>4, <1>5, <1>6, <1>7, <1>8

LEMMA BagOfOther ==
  ASSUME NEW s, NEW r, NEW k \in Nat, NEW i, AlikeBut(s, r, k + 1, i)
  PROVE  /\ BagIn(s[i], Bag(s, k + 1))
         /\ Bag(r, k + 1) = (Bag(s, k + 1) (-) SetToBag({s[i]})) (+) SetToBag({r[i]})
<1>1. PICK n \in Nat : n = k + 1
  OBVIOUS
<1>2. PICK q : q = [j \in 0 .. k |-> IF j = k THEN r[i] ELSE IF j = i THEN s[k] ELSE s[j]]
  OBVIOUS
<1>3. i \in 0 .. k /\ n - 1 = k /\ n - 2 = k - 1
  BY <1>1 DEF AlikeBut
<1>4. q[k] = r[i] /\ Alike(q, q, k) /\ FilledFromLast(s, q, k + 1, i)
  BY <1>1, <1>2, <1>3 DEF FilledFromLast, Alike
<1>5. \A x : Copies(q, k, x) + (IF x = s[i] THEN 1 ELSE 0) = Copies(s, k + 1, x)
  BY <1>4, LastMoved
<1>6. BagIn(s[i], Bag(s, n)) /\ Bag(q, k) = Bag(s, n) (-) SetToBag({s[i]})
  BY <1>1, <1>5, BagOfLess
<1>7. Bag(q, k + 1) = Bag(q, k) (+) SetToBag({r[i]})
  BY <1>4, BagOfMore
<1>8. \A x : Copies(q, n, x) = Copies(r, n, x)
  <2>1. SUFFICES ASSUME NEW x PROVE Copies(q, n, x) = Copies(r, n, x)
    OBVIOUS
  <2>2. Copies(q, k + 1, x) = Copies(q, k, x) + (IF q[k] = x THEN 1 ELSE 0)
    BY CopiesMore
  <2>3. Copies(r, n, x) + (IF s[i] = x THEN 1 ELSE 0) = Copies(s, n, x) + (IF r[i] = x THEN 1 ELSE 0)
    BY <1>1, CopiesChanged
  <2>4. Copies(q, k, x) \in Nat /\ Copies(r, n, x) \in Nat /\ Copies(s, n, x) \in Nat
    BY CopiesNat
  <2>5. Copies(q, k, x) + (IF x = s[i] THEN 1 ELSE 0) = Copies(s, n, x)
    BY <1>1, <1>5
  <2>6. QED
    BY <1>1, <1>4, <2>2, <2>3, <2>4, <2>5
<1>9. Bag(q, n) = Bag(r, n)
  BY <1>8, BagByCopies
<1>10. QED
  BY <1>1, <1>6, <1>7, <1>9

(* What push_back leaves in front of the new size. *)
LEMMA PushedIs ==
  ASSUME NEW x \in SoundVectors, NEW e, x.size # Capacity
  PROVE  /\ Pushed(x, e).size = x.size + 1
         /\ Pushed(x, e).storage[x.size] = e
         /\ Alike(x.storage, Pushed(x, e).storage, x.size)
<1>1. PICK s \in Cells, n \in Nat : x.storage = s /\ x.size = n
  BY DEF SoundVectors
<1>2. n < Capacity /\ n \in 0 .. Capacity - 1
  BY <1>1, WidthHolds DEF SoundVectors, Sound
<1>3. (n + 1) % Width = n + 1
  <2>1. PICK p : p = n + 1
    OBVIOUS
  <2>2. p \in 0 .. Width - 1 /\ 0 \in Int /\ Width \in Nat \ {0}
    BY <1>2, <2>1, WidthHolds
  <2>3. (Width * 0 + p) % Width = p
    BY <2>2, ModUnique
  <2>4. Width * 0 + p = p
    BY <2>2
  <2>5. QED
    BY <2>1, <2>3, <2>4
<1>4. PICK r : r = [s EXCEPT ![n] = e]
  OBVIOUS
<1>5. r[n] = e /\ \A j \in 0 .. n - 1 : r[j] = s[j]
  BY <1>2, <1>4 DEF Cells
<1>6. Pushed(x, e) = [storage |-> r, size |-> n + 1]
  BY <1>1, <1>3, <1>4 DEF Pushed
<1>7. QED
  BY <1>1, <1>5, <1>6 DEF Alike

(* Into an empty vector goes every element, where there is room for all. *)
LEMMA CopiedWhole ==
  ASSUME NEW x \in SoundVectors, x.size = 0, NEW s \in Seq(Element), Len(s) <= Capacity
  PROVE  /\ PushedAll(x, s).size = Len(s)
         /\ \A j \in 1 .. Len(s) : PushedAll(x, s).storage[j - 1] = s[j]
<1>1. PICK f : InTurn(f, x, s) /\ PushedAll(x, s) = f[Len(s)]
  BY PushedInTurn
<1>2. PICK n \in Nat : n = Len(s)
  OBVIOUS
<1> DEFINE P == {k \in 0 .. n : f[k].size = k /\ \A j \in 1 .. k : f[k].storage[j - 1] = s[j]}
<1>3. 0 \in P
  BY <1>1, <1>2 DEF InTurn
<1>4. ASSUME NEW k \in 0 .. n - 1, k \in P PROVE k + 1 \in P
  <2>1. PICK y, e, z : y = f[k] /\ e = s[k + 1] /\ z = f[k + 1]
    OBVIOUS
  <2>2. /\ y \in SoundVectors /\ e \in Element /\ z = Pushed(y, e)
        /\ y.size = k /\ k # Capacity /\ k \in Nat /\ k + 1 \in 0 .. n
        /\ \A j \in 1 .. k : y.storage[j - 1] = s[j]
    <3>1. k + 1 \in 1 .. n /\ (k + 1) - 1 = k /\ k \in 0 .. n /\ k + 1 \in 0 .. n
      BY <1>2
    <3>2. f[k + 1] = Pushed(f[k], s[k + 1]) /\ f[k] \in SoundVectors /\ s[k + 1] \in Element
      BY <1>1, <1>2, <3>1 DEF InTurn
    <3>3. k < Capacity
      BY <1>2, WidthHolds
    <3>4. QED
      BY <1>4, <2>1, <3>1, <3>2, <3>3, WidthHolds
  <2>3. z.size = k + 1 /\ z.storage[k] = e /\ \A j \in 0 .. k - 1 : z.storage[j] = y.storage[j]
    BY <2>2, PushedIs DEF Alike
  <2>4. ASSUME NEW j \in 1 .. k + 1 PROVE z.storage[j - 1] = s[j]
    <3>1. CASE j = k + 1
      BY <2>1, <2>2, <2>3, <3>1
    <3>2. CASE j # k + 1
      <4>1. j - 1 \in 0 .. k - 1 /\ j \in 1 .. k
        BY <2>2, <3>2
      <4>2. QED
        BY <2>2, <2>3, <4>1
    <3>3. QED
      BY <3>1, <3>2
  <2>5. QED
    BY <2>1, <2>2, <2>3, <2>4
<1> HIDE DEF P
<1>5. n \in P
  BY <1>2, <1>3, <1>4, Upward
<1>6. QED
  BY <1>1, <1>2, <1>5 DEF P

(* A copy begun in an empty vector, broken off after k elements, or complete. *)
LEMMA CopyIs ==
  ASSUME NEW x \in SoundVectors, x.size = 0, NEW y \in SoundVectors
  PROVE  /\ Elements(y) \in Seq(Element)
         /\ PushedAll(x, Elements(y)).size = y.size
         /\ Alike(y.storage, PushedAll(x, Elements(y)).storage, y.size)
         /\ \A k \in 0 .. y.size :
              /\ SubSeq(Elements(y), 1, k) \in Seq(Element)
              /\ PushedAll(x, SubSeq(Elements(y), 1, k)).size = k
              /\ Alike(y.storage, PushedAll(x, SubSeq(Elements(y), 1, k)).storage, k)
<1>1. PICK s, n : s = y.storage /\ n = y.size
  OBVIOUS
<1>2. Sound(s, n) /\ y = [storage |-> s, size |-> n] /\ n \in Nat /\ n <= Capacity
  BY <1>1, SoundIs DEF Sound
<1>3. PICK e : e = Elements(y)
  OBVIOUS
<1>4. e \in Seq(Element) /\ Len(e) = n
  BY <1>2, <1>3, ElementsAre
<1>5. \A i \in 1 .. n : e[i] = s[i - 1]
  BY <1>1, <1>3 DEF Elements
<1>6. ASSUME NEW k \in 0 .. n
      PROVE  /\ SubSeq(e, 1, k) \in Seq(Element)
             /\ PushedAll(x, SubSeq(e, 1, k)).size = k
             /\ Alike(s, PushedAll(x, SubSeq(e, 1, k)).storage, k)
  <2>1. PICK d : d = SubSeq(e, 1, k)
    OBVIOUS
  <2>2. d \in Seq(Element) /\ Len(d) = k /\ \A i \in 1 .. k : d[i] = e[i]
    BY <1>2, <1>4, <2>1
  <2>3. Len(d) <= Capacity
    BY <1>2, <2>2, WidthHolds
  <2>4. PICK z : z = PushedAll(x, d)
    OBVIOUS
  <2>5. z.size = k /\ \A j \in 1 .. k : z.storage[j - 1] = d[j]
    BY <2>2, <2>3, <2>4, CopiedWhole
  <2>6. ASSUME NEW j \in 0 .. k - 1 PROVE z.storage[j] = s[j]
    <3>1. j + 1 \in 1 .. k /\ j + 1 \in 1 .. n /\ (j + 1) - 1 = j
      BY <1>2
    <3>2. QED
      BY <1>5, <2>2, <2>5, <3>1
  <2>7. QED
    BY <2>1, <2>2, <2>4, <2>5, <2>6 DEF Alike
<1>7. SubSeq(e, 1, n) = e /\ n \in 0 .. n
  BY <1>2, <1>4
<1>8. QED
  BY <1>1, <1>3, <1>4, <1>6, <1>7

LEMMA BagOfPrefix ==
  ASSUME NEW s, NEW n \in Nat, NEW k \in 0 .. n
  PROVE  /\ DOMAIN Bag(s, k) \subseteq DOMAIN Bag(s, n)
         /\ \A e \in DOMAIN Bag(s, k) : Bag(s, k)[e] <= Bag(s, n)[e]
<1>1. k \in Nat /\ 0 .. k - 1 \subseteq 0 .. n - 1
  OBVIOUS
<1>2. ASSUME NEW e PROVE Copies(s, k, e) <= Copies(s, n, e)
  <2>1. Places(s, k, e) \in SUBSET Places(s, n, e)
    BY <1>1 DEF Places
  <2>2. IsFiniteSet(Places(s, n, e))
    BY CopiesNat
  <2>3. QED
    BY <2>1, <2>2, FS_Subset DEF Copies
<1>3. \A m \in {n, k} : DOMAIN Bag(s, m) = {s[j] : j \in 0 .. m - 1}
  BY DEF Bag
<1>4. DOMAIN Bag(s, k) \subseteq DOMAIN Bag(s, n)
  BY <1>1, <1>3
<1>5. ASSUME NEW e \in DOMAIN Bag(s, k) PROVE Bag(s, k)[e] <= Bag(s, n)[e]
  <2>1. e \in DOMAIN Bag(s, n)
    BY <1>4
  <2>2. Bag(s, k)[e] = Copies(s, k, e) /\ Bag(s, n)[e] = Copies(s, n, e)
    BY <2>1 DEF Bag
  <2>3. QED
    BY <1>2, <2>2
<1>6. QED
  BY <1>4, <1>5

(* A bag of elements is no mark for a vector that is not there. *)
LEMMA BagIsThere ==
  ASSUME NEW s, NEW n, Sound(s, n)
  PROVE  Bag(s, n) # NoVector
<1> DEFINE D == {s[j] : j \in 0 .. n - 1}
<1>1. D \in SUBSET Element
  BY WidthHolds DEF Sound
<1>2. Bag(s, n) \in [D -> Nat]
  <2>1. n \in Nat
    BY DEF Sound
  <2>2. \A e \in D : Copies(s, n, e) \in Nat
    BY <2>1, CopiesNat
  <2>3. QED
    BY <2>2 DEF Bag
<1>3. QED
  BY <1>1, <1>2, VectorAssumption

LEMMA ContentsAre ==
  ASSUME VectorInv
  PROVE  /\ Contents = [v \in Vec |-> IF v \in alive THEN Bag(storage[v], size[v]) ELSE NoVector]
         /\ \A v \in Vec : v \in alive <=> Contents[v] # NoVector
         /\ \A v \in alive : v \in Vec /\ Contents[v] = Bag(storage[v], size[v])
<1>1. Contents = [v \in Vec |-> IF v \in alive THEN Bag(storage[v], size[v]) ELSE NoVector]
  BY DEF Contents, BagOf, This, Bag, Copies, Places
<1>2. \A v \in Vec : Bag(storage[v], size[v]) # NoVector
  BY BagIsThere DEF VectorInv
<1>3. alive \subseteq Vec
  BY DEF VectorInv
<1>4. QED
  BY <1>1, <1>2, <1>3

LEMMA ContentsNext ==
  Contents' = [v \in Vec |-> IF v \in alive' THEN Bag(storage'[v], size'[v]) ELSE NoVector]
BY DEF Contents, BagOf, This, Bag, Copies, Places

LEMMA ContentsBecome ==
  ASSUME VectorInv, NEW v \in Vec, NEW x, Becomes(v, x), NEW A, alive' = A,
         A \cup {v} = alive \cup {v}
  PROVE  Contents' = [Contents EXCEPT ![v] = IF v \in A THEN Bag(x.storage, x.size) ELSE NoVector]
<1>1. Contents' = [w \in Vec |-> IF w \in alive' THEN Bag(storage'[w], size'[w]) ELSE NoVector]
  BY ContentsNext
<1>2. Contents = [w \in Vec |-> IF w \in alive THEN Bag(storage[w], size[w]) ELSE NoVector]
  BY ContentsAre
<1>3. /\ storage'[v] = x.storage /\ size'[v] = x.size
      /\ \A w \in Vec : w # v => storage'[w] = storage[w] /\ size'[w] = size[w]
  BY DEF VectorInv, Becomes
<1>4. \A w \in Vec : w # v => (w \in A <=> w \in alive)
  OBVIOUS
<1>5. PICK B : B = Bag(x.storage, x.size)
  OBVIOUS
<1>6. \A w \in Vec : (IF w \in alive' THEN Bag(storage'[w], size'[w]) ELSE NoVector)
        = IF w = v THEN (IF v \in A THEN B ELSE NoVector)
          ELSE IF w \in alive THEN Bag(storage[w], size[w]) ELSE NoVector
  BY <1>3, <1>4, <1>5
<1>7. [Contents EXCEPT ![v] = IF v \in A THEN B ELSE NoVector]
        = [w \in Vec |-> IF w = v THEN (IF v \in A THEN B ELSE NoVector)
                         ELSE IF w \in alive THEN Bag(storage[w], size[w]) ELSE NoVector]
  BY <1>2
<1>8. QED
  BY <1>1, <1>5, <1>6, <1>7

(* A step of the vectors, of the bags. *)
LEMMA InitBags == VectorInit => Bounded!Init
<1> SUFFICES ASSUME VectorInit PROVE Bounded!Init
  OBVIOUS
<1>1. Contents = [v \in Vec |-> NoVector]
  BY InitVectors, ContentsAre DEF VectorInit
<1>2. QED
  BY <1>1 DEF VectorInit, Bounded!Init

LEMMA NextBags == VectorInv /\ [VectorNext]_vectors => [Bounded!Next]_<<Contents, result>>
<1> SUFFICES ASSUME VectorInv, [VectorNext]_vectors PROVE [Bounded!Next]_<<Contents, result>>
  OBVIOUS
<1>0. \A v \in Vec : /\ Sound(storage[v], size[v]) /\ This(v) \in SoundVectors
                     /\ This(v) = [storage |-> storage[v], size |-> size[v]]
  BY MadeOf DEF VectorInv, This
<1>1. \A v \in alive : /\ v \in Vec /\ Contents[v] = Bag(storage[v], size[v]) /\ Bounded!Exists(v)
                       /\ size[v] \in Nat /\ Bounded!BagCardinality(Contents[v]) = size[v]
  <2>1. \A v \in alive : v \in Vec /\ Contents[v] = Bag(storage[v], size[v]) /\ Contents[v] # NoVector
    BY ContentsAre
  <2>2. \A v \in Vec : size[v] \in Nat
    BY DEF VectorInv
  <2>3. QED
    BY <2>1, <2>2, CardinalityIs DEF Bounded!Exists
<1>2. \A v \in Vec \ alive : ~Bounded!Exists(v)
  BY ContentsAre DEF Bounded!Exists
<1>3. UNCHANGED <<alive, storage, size>> => Contents' = Contents
  BY ContentsAre, ContentsNext
<1>d. DOMAIN Contents = Vec
  BY ContentsAre
<1>b. ASSUME NEW v \in alive, NEW x, Becomes(v, x), alive' = alive
      PROVE  Contents' = [Contents EXCEPT ![v] = Bag(x.storage, x.size)]
  <2>1. v \in Vec /\ alive \cup {v} = alive \cup {v}
    BY <1>1
  <2>2. QED
    BY <1>b, <2>1, ContentsBecome
<1>c. ASSUME NEW v \in Vec \ alive, NEW x, Becomes(v, x), alive' = alive \cup {v}
      PROVE  Contents' = [Contents EXCEPT ![v] = Bag(x.storage, x.size)]
  <2>1. PICK A : A = alive \cup {v}
    OBVIOUS
  <2>2. A \cup {v} = alive \cup {v} /\ v \in A /\ alive' = A
    BY <1>c, <2>1
  <2>3. QED
    BY <1>c, <2>2, ContentsBecome
<1>r. ASSUME NEW v, NEW d, Bounded!Exists(v), BagIn(d, Contents[v])
      PROVE  /\ Contents' = [Contents EXCEPT ![v] = Contents[v] (-) SetToBag({d})]
                  /\ result' = "removed" => Bounded!Remove(v, d)
             /\ \A e : Contents' = [Contents EXCEPT ![v] = (Contents[v] (-) SetToBag({d})) (+) SetToBag({e})]
                  /\ result' = "replaced" => Bounded!Replace(v, d, e)
  <2>1. Bounded!BagIn(d, Contents[v])
    BY <1>r DEF BagIn, BagToSet, Bounded!BagIn, Bounded!BagToSet
  <2>2. ASSUME Contents' = [Contents EXCEPT ![v] = Contents[v] (-) SetToBag({d})]
        PROVE  Bounded!Becomes(v, Bounded!(-)(Contents[v], Bounded!SetToBag({d})))
    BY <2>2 DEF Bounded!Becomes, Bounded!(-), Bounded!SetToBag, (-), SetToBag
  <2>3. ASSUME NEW e,
               Contents' = [Contents EXCEPT ![v] = (Contents[v] (-) SetToBag({d})) (+) SetToBag({e})]
        PROVE  Bounded!Becomes(v, Bounded!(+)(Bounded!(-)(Contents[v], Bounded!SetToBag({d})),
                                              Bounded!SetToBag({e})))
    BY <2>3 DEF Bounded!Becomes, Bounded!(-), Bounded!(+), Bounded!SetToBag, (-), (+), SetToBag
  <2>4. QED
    BY <1>r, <2>1, <2>2, <2>3 DEF Bounded!Remove, Bounded!Replace
<1>4. ASSUME NEW v \in alive, NEW e \in Element, Push(v, e) PROVE Bounded!Insert(v, e)
  <2>1. PICK s, n, c : s = storage[v] /\ n = size[v] /\ c = Contents[v]
    OBVIOUS
  <2>2. /\ n \in Nat /\ n <= Capacity /\ c = Bag(s, n) /\ Bounded!BagCardinality(c) = n
        /\ Bounded!Exists(v)
    BY <1>0, <1>1, <2>1 DEF Sound
  <2>3. CASE n = Capacity /\ result' = "full" /\ UNCHANGED <<storage, size>>
    <3>1. Contents' = Contents
      BY <1>3, <1>4, <2>3 DEF Push
    <3>2. QED
      BY <2>1, <2>2, <2>3, <3>1 DEF Bounded!Insert
  <2>4. CASE n # Capacity /\ result' = "threw" /\ UNCHANGED <<storage, size>>
    <3>1. Contents' = Contents
      BY <1>3, <1>4, <2>4 DEF Push
    <3>2. n < Capacity
      BY <2>2, <2>4, WidthHolds
    <3>3. QED
      BY <2>1, <2>2, <2>4, <3>1, <3>2 DEF Bounded!Insert
  <2>5. CASE n # Capacity /\ result' = "inserted" /\ Becomes(v, Pushed(This(v), e))
    <3>1. PICK x : x = Pushed(This(v), e)
      OBVIOUS
    <3>2. x.size = n + 1 /\ x.storage[n] = e /\ Alike(s, x.storage, n)
      BY <1>0, <1>1, <2>1, <2>5, <3>1, PushedIs
    <3>3. Bag(x.storage, n + 1) = c (+) SetToBag({e})
      BY <2>2, <3>2, BagOfMore
    <3>4. Contents' = [Contents EXCEPT ![v] = c (+) SetToBag({e})]
      BY <1>4, <1>b, <2>5, <3>1, <3>2, <3>3 DEF Push
    <3>5. n < Capacity
      BY <2>2, <2>5, WidthHolds
    <3>6. Bounded!Becomes(v, Bounded!(+)(Contents[v], Bounded!SetToBag({e})))
      BY <2>1, <3>4 DEF Bounded!Becomes, Bounded!(+), Bounded!SetToBag, (+), SetToBag
    <3>7. QED
      BY <2>1, <2>2, <2>5, <3>5, <3>6 DEF Bounded!Insert
  <2>6. QED
    BY <1>4, <2>1, <2>3, <2>4, <2>5 DEF Push
<1>5. ASSUME NEW v \in alive, PopBack(v) PROVE \E e \in Element : Bounded!Remove(v, e)
  <2>1. PICK s, n, x : s = storage[v] /\ n = size[v] /\ x = PoppedBack(This(v))
    OBVIOUS
  <2>2. /\ Sound(s, n) /\ n \in Nat \ {0} /\ Contents[v] = Bag(s, n) /\ Bounded!Exists(v)
        /\ This(v) = [storage |-> s, size |-> n]
    BY <1>0, <1>1, <1>5, <2>1 DEF PopBack
  <2>3. PICK k \in Nat : n = k + 1 /\ n - 1 = k
    <3>1. n - 1 \in Nat /\ n = (n - 1) + 1
      BY <2>2
    <3>2. QED
      BY <3>1
  <2>4. x.size = k /\ x.storage = [s EXCEPT ![k] = Raw]
    BY <2>1, <2>2, <2>3 DEF PoppedBack
  <2>5. FilledFromLast(s, x.storage, k + 1, k) /\ s[k] \in Element
    <3>1. k \in 0 .. Capacity - 1
      BY <2>2, <2>3, WidthHolds DEF Sound
    <3>2. s \in Cells /\ s[k] \in Element
      BY <2>2, <2>3, <3>1 DEF Sound
    <3>3. \A j \in 0 .. k - 1 : x.storage[j] = s[j]
      BY <2>3, <2>4, <3>2 DEF Cells
    <3>4. k \in 0 .. (k + 1) - 1 /\ (k + 1) - 2 = k - 1
      BY <2>3
    <3>5. QED
      BY <3>2, <3>3, <3>4 DEF FilledFromLast
  <2>6. \A y : Copies(x.storage, k, y) + (IF y = s[k] THEN 1 ELSE 0) = Copies(s, k + 1, y)
    BY <2>5, LastMoved
  <2>7. BagIn(s[k], Bag(s, n)) /\ Bag(x.storage, x.size) = Bag(s, n) (-) SetToBag({s[k]})
    <3>1. PICK d, q : d = s[k] /\ q = x.storage
      OBVIOUS
    <3>2. \A y : Copies(q, k, y) + (IF y = d THEN 1 ELSE 0) = Copies(s, n, y)
      BY <2>3, <2>6, <3>1
    <3>3. n \in Nat
      BY <2>2
    <3>4. BagIn(d, Bag(s, n)) /\ Bag(q, k) = Bag(s, n) (-) SetToBag({d})
      BY ONLY <3>2, <3>3, <2>3, BagOfLess
    <3>5. QED
      BY <2>4, <3>1, <3>4
  <2>8. Contents' = [Contents EXCEPT ![v] = Contents[v] (-) SetToBag({s[k]})]
    BY <1>5, <1>b, <2>1, <2>2, <2>7 DEF PopBack
  <2>9. QED
    BY <1>5, <1>r, <2>2, <2>5, <2>7, <2>8 DEF PopBack
<1>6. ASSUME NEW v \in alive, NEW i \in 0 .. Capacity - 1, EraseUnordered(v, i)
      PROVE  \E e \in Element : Bounded!Remove(v, e)
  <2>1. PICK s, n, x : s = storage[v] /\ n = size[v] /\ x = Erased(This(v), i)
    OBVIOUS
  <2>2. /\ Sound(s, n) /\ n \in Nat \ {0} /\ i < n /\ Contents[v] = Bag(s, n) /\ Bounded!Exists(v)
        /\ This(v) = [storage |-> s, size |-> n]
    BY <1>0, <1>1, <1>6, <2>1 DEF EraseUnordered
  <2>3. PICK k \in Nat : n = k + 1 /\ n - 1 = k
    <3>1. n - 1 \in Nat /\ n = (n - 1) + 1
      BY <2>2
    <3>2. QED
      BY <3>1
  <2>4. x.size = k /\ x.storage = [[s EXCEPT ![i] = s[k]] EXCEPT ![k] = Raw]
    BY <2>1, <2>2, <2>3 DEF Erased, PoppedBack
  <2>5. FilledFromLast(s, x.storage, k + 1, i) /\ s[i] \in Element
    <3>1. k \in 0 .. Capacity - 1 /\ i \in 0 .. (k + 1) - 1 /\ (k + 1) - 2 = k - 1 /\ (k + 1) - 1 = k
      BY <2>2, <2>3, WidthHolds DEF Sound
    <3>2. s \in Cells /\ s[i] \in Element
      BY <2>2 DEF Sound
    <3>3. PICK q, c : q = [s EXCEPT ![i] = c] /\ c = s[k] /\ x.storage = [q EXCEPT ![k] = Raw]
      BY <2>4
    <3>4. DOMAIN s = 0 .. Capacity - 1 /\ DOMAIN q = 0 .. Capacity - 1 /\ Capacity \in Nat
      BY <3>2, <3>3, WidthHolds DEF Cells
    <3>5. \A j \in 0 .. k - 1 : x.storage[j] = IF j = i THEN s[k] ELSE s[j]
      <4>1. \A j \in 0 .. k - 1 : j \in 0 .. Capacity - 1 /\ j # k
        BY <3>1, <3>4, <2>3
      <4>2. \A j \in 0 .. Capacity - 1 : q[j] = IF j = i THEN c ELSE s[j]
        BY <3>3, <3>4
      <4>3. \A j \in 0 .. Capacity - 1 : j # k => x.storage[j] = q[j]
        BY <3>3, <3>4
      <4>4. QED
        BY <3>3, <4>1, <4>2, <4>3
    <3>6. QED
      BY <3>1, <3>2, <3>5 DEF FilledFromLast
  <2>6. \A y : Copies(x.storage, k, y) + (IF y = s[i] THEN 1 ELSE 0) = Copies(s, k + 1, y)
    BY <2>5, LastMoved
  <2>7. BagIn(s[i], Bag(s, n)) /\ Bag(x.storage, x.size) = Bag(s, n) (-) SetToBag({s[i]})
    <3>1. PICK d, q : d = s[i] /\ q = x.storage
      OBVIOUS
    <3>2. \A y : Copies(q, k, y) + (IF y = d THEN 1 ELSE 0) = Copies(s, n, y)
      BY <2>3, <2>6, <3>1
    <3>3. n \in Nat
      BY <2>2
    <3>4. BagIn(d, Bag(s, n)) /\ Bag(q, k) = Bag(s, n) (-) SetToBag({d})
      BY ONLY <3>2, <3>3, <2>3, BagOfLess
    <3>5. QED
      BY <2>4, <3>1, <3>4
  <2>8. Contents' = [Contents EXCEPT ![v] = Contents[v] (-) SetToBag({s[i]})]
    BY <1>6, <1>b, <2>1, <2>2, <2>7 DEF EraseUnordered
  <2>9. QED
    BY <1>6, <1>r, <2>2, <2>5, <2>7, <2>8 DEF EraseUnordered
<1>7. ASSUME NEW v \in alive, NEW i \in 0 .. Capacity - 1, NEW e \in Element, Write(v, i, e)
      PROVE  \E d \in Element, f \in Element : Bounded!Replace(v, d, f)
  <2>1. PICK s, n, r : s = storage[v] /\ n = size[v] /\ r = [s EXCEPT ![i] = e]
    OBVIOUS
  <2>2. /\ Sound(s, n) /\ n \in Nat \ {0} /\ i < n /\ Contents[v] = Bag(s, n) /\ Bounded!Exists(v)
    BY <1>0, <1>1, <1>7, <2>1 DEF Write
  <2>3. PICK k \in Nat : n = k + 1
    <3>1. n - 1 \in Nat /\ n = (n - 1) + 1
      BY <2>2
    <3>2. QED
      BY <3>1
  <2>4. AlikeBut(s, r, k + 1, i) /\ r[i] = e /\ s[i] \in Element
    <3>1. i \in 0 .. (k + 1) - 1 /\ k + 1 <= Capacity
      BY <2>2, <2>3 DEF Sound
    <3>2. s \in Cells /\ s[i] \in Element
      BY <2>2 DEF Sound
    <3>3. \A j \in 0 .. Capacity - 1 : j # i => r[j] = s[j]
      BY <2>1, <3>2 DEF Cells
    <3>4. \A j \in 0 .. (k + 1) - 1 : j \in 0 .. Capacity - 1
      BY <3>1, WidthHolds
    <3>5. r[i] = e
      BY <2>1, <3>2 DEF Cells
    <3>6. QED
      BY <3>1, <3>2, <3>3, <3>4, <3>5 DEF AlikeBut
  <2>5. BagIn(s[i], Bag(s, n)) /\ Bag(r, n) = (Bag(s, n) (-) SetToBag({s[i]})) (+) SetToBag({e})
    <3>1. /\ BagIn(s[i], Bag(s, k + 1))
          /\ Bag(r, k + 1) = (Bag(s, k + 1) (-) SetToBag({s[i]})) (+) SetToBag({r[i]})
      <4>1. AlikeBut(s, r, k + 1, i) /\ k \in Nat
        BY <2>3, <2>4
      <4>2. QED
        BY ONLY <4>1, BagOfOther
    <3>2. QED
      BY <2>3, <2>4, <3>1
  <2>6. Becomes(v, [storage |-> r, size |-> n]) /\ alive' = alive
    <3>1. storage' = [storage EXCEPT ![v] = r] /\ size' = size /\ alive' = alive
      BY <1>7, <2>1 DEF Write
    <3>2. size = [size EXCEPT ![v] = n]
      BY <2>1 DEF VectorInv
    <3>3. QED
      BY <3>1, <3>2 DEF Becomes
  <2>7. Contents' = [Contents EXCEPT ![v] = (Contents[v] (-) SetToBag({s[i]})) (+) SetToBag({e})]
    <3>1. Contents' = [Contents EXCEPT ![v] = Bag(r, n)]
      BY <1>b, <2>6
    <3>2. QED
      BY <2>2, <2>5, <3>1
  <2>8. Bounded!Replace(v, s[i], e)
    BY <1>7, <1>r, <2>2, <2>5, <2>7 DEF Write
  <2>9. QED
    BY <2>4, <2>8
<1>8. ASSUME NEW v \in alive, Clear(v) PROVE Bounded!Empty(v)
  <2>1. PICK x : x = Cleared(This(v))
    OBVIOUS
  <2>2. x.size = 0
    BY <1>0, <1>1, <2>1, ClearedSound
  <2>3. Bag(x.storage, x.size) = Bounded!EmptyBag
    BY <2>2 DEF Bag, Bounded!EmptyBag, Bounded!SetToBag
  <2>4. Contents' = [Contents EXCEPT ![v] = Bounded!EmptyBag]
    BY <1>8, <1>b, <2>1, <2>3 DEF Clear
  <2>5. QED
    BY <1>1, <1>8, <2>4 DEF Clear, Bounded!Empty, Bounded!Becomes
<1>9. ASSUME NEW v \in alive, Destroy(v) PROVE Bounded!End(v)
  <2>1. PICK x, A : x = Cleared(This(v)) /\ A = alive \ {v}
    OBVIOUS
  <2>2. v \in Vec /\ v \notin A /\ A \cup {v} = alive \cup {v} /\ alive' = A /\ Becomes(v, x)
    BY <1>1, <1>9, <2>1 DEF Destroy
  <2>3. Contents' = [Contents EXCEPT ![v] = NoVector]
    BY <2>2, ContentsBecome
  <2>4. QED
    BY <1>1, <1>9, <2>3 DEF Destroy, Bounded!End, Bounded!Becomes
<1>10. ASSUME NEW v \in alive, NEW w \in alive, CopyAssign(v, w) PROVE Bounded!Assign(v, w)
  <2>1. PICK y, c, n : y = This(w) /\ c = Contents[w] /\ n = size[w]
    OBVIOUS
  <2>2. /\ y \in SoundVectors /\ y.size = n /\ n \in Nat /\ c = Bag(y.storage, n)
        /\ Bounded!Exists(v) /\ Bounded!Exists(w) /\ v \in Vec /\ alive' = alive
    BY <1>0, <1>1, <1>10, <2>1 DEF CopyAssign
  <2>3. PICK x : x = Cleared(This(v)) /\ x \in SoundVectors /\ x.size = 0
    BY <1>0, <1>1, ClearedSound
  <2>4. CASE result' = "assigned" /\ Becomes(v, Assigned(v, w))
    <3>1. PICK z : z = Assigned(v, w)
      OBVIOUS
    <3>2. Bag(z.storage, z.size) = c
      <4>1. CASE v = w
        BY <2>1, <2>2, <3>1, <4>1 DEF Assigned
      <4>2. CASE v # w
        <5>1. z = PushedAll(x, Elements(y))
          BY <2>1, <2>3, <3>1, <4>2 DEF Assigned
        <5>2. z.size = y.size /\ Alike(y.storage, z.storage, y.size)
          BY <2>2, <2>3, <5>1, CopyIs
        <5>3. Bag(y.storage, n) = Bag(z.storage, n)
          BY <2>2, <5>2, CopiesSame
        <5>4. QED
          BY <2>2, <5>2, <5>3
      <4>3. QED
        BY <4>1, <4>2
    <3>3. Contents' = [Contents EXCEPT ![v] = c]
      BY <1>b, <2>2, <2>4, <3>1, <3>2
    <3>4. QED
      BY <2>1, <2>2, <2>4, <3>3 DEF Bounded!Assign, Bounded!Becomes
  <2>5. CASE /\ v # w /\ result' = "threw"
             /\ \E k \in 0 .. size[w] - 1 :
                  Becomes(v, PushedAll(Cleared(This(v)), SubSeq(Elements(This(w)), 1, k)))
    <3>1. PICK k, z : /\ k \in 0 .. n - 1 /\ z = PushedAll(x, SubSeq(Elements(y), 1, k))
                     /\ Becomes(v, z)
      BY <2>1, <2>3, <2>5
    <3>2. k \in Nat /\ k \in 0 .. n /\ k \in 0 .. y.size
      BY <2>2, <3>1
    <3>3. z.size = k /\ Alike(y.storage, z.storage, k)
      BY <2>2, <2>3, <3>1, <3>2, CopyIs
    <3>4. Bag(y.storage, k) = Bag(z.storage, k)
      BY <3>2, <3>3, CopiesSame
    <3>5. PICK b : b = Bag(z.storage, z.size)
      OBVIOUS
    <3>6. Contents' = [Contents EXCEPT ![v] = b] /\ Contents'[v] = b
      <4>1. Contents' = [Contents EXCEPT ![v] = b]
        BY <1>b, <2>2, <3>1, <3>5
      <4>2. v \in DOMAIN Contents
        BY <1>d, <2>2
      <4>3. QED
        BY <4>1, <4>2
    <3>7. b # NoVector
      <4>1. SubSeq(Elements(y), 1, k) \in Seq(Element)
        BY <2>2, <2>3, <3>2, CopyIs
      <4>2. z \in SoundVectors
        BY <2>3, <3>1, <4>1, PushedAllSound
      <4>3. Sound(z.storage, z.size)
        BY <4>2, SoundIs
      <4>4. QED
        BY <3>5, <4>3, BagIsThere
    <3>8. Bounded!\sqsubseteq(b, c)
      <4>1. b = Bag(y.storage, k) /\ c = Bag(y.storage, n)
        BY <2>2, <3>3, <3>4, <3>5
      <4>2. DOMAIN b \subseteq DOMAIN c /\ \A e \in DOMAIN b : b[e] <= c[e]
        BY <2>2, <3>2, <4>1, BagOfPrefix
      <4>3. QED
        BY <4>2 DEF Bounded!\sqsubseteq
    <3>9. QED
      BY <2>1, <2>2, <2>5, <3>6, <3>7, <3>8 DEF Bounded!Assign, Bounded!Becomes
  <2>6. QED
    BY <1>10, <2>4, <2>5 DEF CopyAssign
<1>11. ASSUME NEW v \in Vec \ alive, Construct(v) PROVE Bounded!Create(v)
  <2>1. PICK s \in BoundedSeq(Element, Capacity + 1) : Becomes(v, PushedAll(Fresh, s))
    BY <1>11 DEF Construct
  <2>2. s \in Seq(Element)
    <3>1. PICK k \in 0 .. Capacity + 1 : s \in [1 .. k -> Element]
      BY DEF BoundedSeq, SeqOf
    <3>2. k \in Nat
      BY WidthHolds
    <3>3. QED
      BY <3>1, <3>2
  <2>3. PICK x : x = PushedAll(Fresh, s)
    OBVIOUS
  <2>4. x \in SoundVectors
    BY <2>2, <2>3, FreshSound, PushedAllSound
  <2>5. Sound(x.storage, x.size)
    BY <2>4, SoundIs
  <2>6. PICK b : b = Bag(x.storage, x.size)
    OBVIOUS
  <2>7. b # NoVector /\ x.size <= Capacity /\ Bounded!BagCardinality(b) = x.size
    BY <2>5, <2>6, BagIsThere, CardinalityIs DEF Sound
  <2>8. Contents' = [Contents EXCEPT ![v] = b] /\ Contents'[v] = b
    <3>1. Contents' = [Contents EXCEPT ![v] = b]
      BY <1>11, <1>c, <2>1, <2>3, <2>6 DEF Construct, Created
    <3>2. v \in DOMAIN Contents
      BY <1>d
    <3>3. QED
      BY <3>1, <3>2
  <2>9. QED
    BY <1>2, <1>11, <2>7, <2>8 DEF Construct, Bounded!Create, Bounded!Becomes
<1>12. ASSUME NEW v \in Vec \ alive, ConstructThrows(v) PROVE Bounded!NotCreated(v)
  <2>1. PICK s : Becomes(v, PushedAll(Fresh, s))
    BY <1>12 DEF ConstructThrows
  <2>2. Contents' = [Contents EXCEPT ![v] = NoVector]
    <3>1. alive' = alive /\ alive \cup {v} = alive \cup {v} /\ v \notin alive
      BY <1>12 DEF ConstructThrows
    <3>2. QED
      BY <2>1, <3>1, ContentsBecome
  <2>3. Contents = [u \in Vec |-> IF u \in alive THEN Bag(storage[u], size[u]) ELSE NoVector]
    BY ContentsAre
  <2>4. Contents[v] = NoVector /\ Contents' = Contents
    BY <1>12, <2>2, <2>3
  <2>5. QED
    BY <1>2, <1>12, <2>4 DEF ConstructThrows, Bounded!NotCreated
<1>13. ASSUME NEW v \in Vec \ alive, NEW w \in alive, CopyConstruct(v, w)
       PROVE  Bounded!CreateCopy(v, w)
  <2>1. PICK x, y, z : x = Fresh /\ y = This(w) /\ z = PushedAll(x, Elements(y))
    OBVIOUS
  <2>2. x \in SoundVectors /\ x.size = 0 /\ y \in SoundVectors /\ y.size \in Nat
        /\ Contents[w] = Bag(y.storage, y.size)
    BY <1>0, <1>1, <2>1, FreshSound
  <2>3. z.size = y.size /\ Alike(y.storage, z.storage, y.size)
    BY <2>1, <2>2, CopyIs
  <2>4. Bag(y.storage, y.size) = Bag(z.storage, y.size)
    BY <2>2, <2>3, CopiesSame
  <2>5. Bag(z.storage, z.size) = Contents[w]
    BY <2>2, <2>3, <2>4
  <2>6. Contents' = [Contents EXCEPT ![v] = Contents[w]]
    BY <1>13, <1>c, <2>1, <2>5 DEF CopyConstruct, Created
  <2>7. QED
    BY <1>1, <1>2, <1>13, <2>6 DEF CopyConstruct, Bounded!CreateCopy, Bounded!Becomes
<1>14. CASE UNCHANGED vectors
  BY <1>3, <1>14 DEF vectors
<1>15. alive \subseteq Vec
  BY <1>1
<1>16. QED
  BY <1>4, <1>5, <1>6, <1>7, <1>8, <1>9, <1>10, <1>11, <1>12, <1>13, <1>14, <1>15
     DEF VectorNext, Bounded!Next

(* Static vectors are bounded bags, for every capacity, every set of elements and every        *)
(* sequence of calls and exceptions.                                                           *)
THEOREM VectorsAreBoundedBags == VectorSpec => ImplementsBoundedBags
<1>1. VectorInit => VectorInv
  BY InitVectors
<1>2. VectorInv /\ [VectorNext]_vectors => VectorInv'
  BY NextVectors
<1>3. QED
  BY <1>1, <1>2, InitBags, NextBags, PTL DEF VectorSpec, ImplementsBoundedBags, Bounded!Spec

-----------------------------------------------------------------------------
(* The arena. *)

LEMMA Buffer ==
  /\ Begin \in Nat /\ End \in Nat /\ Begin <= End /\ Bytes \in Nat
  /\ Memory \in Int /\ End < Memory
  BY ArenaAssumption DEF End

LEMMA Unwrapped ==
  ASSUME NEW a \in Nat, NEW n \in Nat \ {0}, a < n
  PROVE  a % n = a
<1>1. (n * 0 + a) % n = a
  BY ModUnique
<1>2. QED
  BY <1>1

(* allocate rounds up to the least multiple. *)
LEMMA RoundsUp ==
  ASSUME NEW addr \in 0 .. End, NEW extent \in Sizes, NEW align \in Aligns
  PROVE  /\ Aligned(addr, align) \in Nat
         /\ addr <= Aligned(addr, align) /\ Aligned(addr, align) < addr + align
         /\ Aligned(addr, align) % align = 0
         /\ \A at \in Nat : addr <= at /\ at % align = 0 => Aligned(addr, align) <= at
<1> DEFINE top == addr + align - 1
           p == top \div align
<1>1. align \in Nat \ {0} /\ addr \in Nat /\ top \in Nat
  BY ArenaAssumption DEF End
<1>2. Aligned(addr, align) = align * p
  <2>1. top < Memory /\ Memory \in Nat \ {0}
    <3>1. extent \in Nat \ {0} /\ End + align + extent < Memory
      BY ArenaAssumption
    <3>2. QED
      BY <1>1, <3>1, Buffer
  <2>2. top % Memory = top
    BY <1>1, <2>1, Unwrapped
  <2>3. p * align = align * p
    BY <1>1
  <2>4. QED
    BY <2>2, <2>3 DEF Aligned
<1>3. p \in Int /\ align * p \in Int /\ align * p <= top /\ top < align * p + align
  <2> HIDE DEF top
  <2>1. top % align \in 0 .. align - 1 /\ p \in Int /\ top = align * p + (top % align)
    <3>1. top \in Int
      BY <1>1
    <3>2. QED
      BY <1>1, <3>1, DivMod, Zenon
  <2> HIDE DEF p
  <2>2. align * p \in Int /\ top % align \in Int
    BY <1>1, <2>1
  <2>3. QED
    BY <1>1, <2>1, <2>2
<1>4. (align * p) % align = 0
  <2> HIDE DEF p
  <2>1. (align * p + 0) % align = 0
    BY <1>1, <1>3, ModUnique
  <2>2. QED
    BY <1>3, <2>1
<1>5. ASSUME NEW at \in Nat, addr <= at, at % align = 0
      PROVE  align * p <= at
  <2> DEFINE q == at \div align
  <2>1. q \in Int /\ at = align * q
    <3>1. q \in Int /\ at = align * q + 0
      BY <1>1, <1>5, DivMod
    <3> HIDE DEF q
    <3>2. align * q \in Int
      BY <1>1, <3>1
    <3>3. QED
      BY <3>1, <3>2
  <2> HIDE DEF p, q
  <2>2. ~(q < p)
    BY <1>1, <1>3, <1>5, <2>1, MultiplesApart
  <2>3. q = p \/ p < q
    BY <1>3, <2>1, <2>2
  <2>4. QED
    BY <1>1, <1>3, <2>1, <2>3, MultiplesApart
<1> HIDE DEF p
<1>6. QED
  BY <1>1, <1>2, <1>3, <1>4, <1>5

(* Everything handed out lies behind the cursor. *)
BehindCursor ==
  /\ cursor \in Begin .. End
  /\ \A b \in blocks : /\ b.at \in Nat /\ b.bytes \in Nat
                       /\ Begin <= b.at /\ b.at + b.bytes <= cursor

ArenaInv == BehindCursor /\ BlocksApart /\ RefusedOnlyWhenFull

LEMMA EmptyArena ==
  ASSUME cursor = Begin, blocks = {}, last = NoRequest
  PROVE  ArenaInv
<1>1. last.at # nullptr
  <2>1. Begin \in 0 .. Memory
    BY Buffer, ArenaAssumption
  <2>2. QED
    BY <2>1, ArenaAssumption DEF NoRequest
<1>2. QED
  BY <1>1, Buffer DEF ArenaInv, BehindCursor, BlocksApart, RefusedOnlyWhenFull

LEMMA GrantKeeps ==
  ASSUME ArenaInv, NEW bytes \in Sizes, NEW align \in Aligns, Granted(bytes, align)
  PROVE  ArenaInv'
<1> DEFINE at == Aligned(cursor, align)
           block == [at |-> at, bytes |-> bytes, align |-> align]
<1>1. bytes \in Nat \ {0} /\ align \in Nat \ {0} /\ cursor \in Begin .. End
      /\ cursor \in 0 .. End
  BY Buffer, ArenaAssumption DEF ArenaInv, BehindCursor
<1>2. at \in Nat /\ cursor <= at /\ at < cursor + align /\ at % align = 0
  BY <1>1, RoundsUp
<1>3. (at + bytes) % Memory = at + bytes
  <2>1. End + align + bytes < Memory
    BY ArenaAssumption
  <2> HIDE DEF at
  <2>2. at + bytes \in Nat /\ at + bytes < Memory /\ Memory \in Nat \ {0}
    BY <1>1, <1>2, <2>1, Buffer
  <2>3. QED
    BY <2>2, Unwrapped
<1>4. at + bytes <= End /\ cursor' = at + bytes /\ last' = block
      /\ (blocks' = blocks \cup {block} \/ blocks' = blocks)
  <2>1. ~Exhausted(at, bytes) /\ cursor' = (at + bytes) % Memory /\ last' = block
        /\ (blocks' = blocks \cup {block} \/ blocks' = blocks)
    BY DEF Granted
  <2> HIDE DEF at
  <2>2. ~(at + bytes > End)
    BY <1>3, <2>1 DEF Exhausted
  <2>3. QED
    BY <1>1, <1>2, <1>3, <2>1, <2>2, Buffer
<1> HIDE DEF at
<1>5. BehindCursor'
  <2>1. cursor' \in Begin .. End /\ cursor <= cursor'
    BY <1>1, <1>2, <1>4, Buffer
  <2>2. ASSUME NEW b \in blocks'
        PROVE  b.at \in Nat /\ b.bytes \in Nat /\ Begin <= b.at /\ b.at + b.bytes <= cursor'
    <3>1. CASE b \in blocks
      BY <1>1, <2>1, <3>1, Buffer DEF ArenaInv, BehindCursor
    <3>2. CASE b = block
      BY <1>1, <1>2, <1>4, <3>2, Buffer
    <3>3. QED
      BY <1>4, <2>2, <3>1, <3>2
  <2>3. QED
    BY <2>1, <2>2 DEF BehindCursor
<1>6. ASSUME NEW b \in blocks'
      PROVE  Span(b) \subseteq Begin .. End - 1 /\ b.at % b.align = 0
  <2>1. CASE b \in blocks
    BY <2>1 DEF ArenaInv, BlocksApart
  <2>2. CASE b = block
    <3>1. b.at = at /\ b.bytes = bytes /\ b.align = align
      BY <2>2
    <3>2. Span(b) \subseteq Begin .. End - 1
      BY <1>1, <1>2, <1>4, <3>1, Buffer DEF Span
    <3>3. QED
      BY <1>2, <3>1, <3>2
  <2>3. QED
    BY <1>4, <1>6, <2>1, <2>2
<1>7. ASSUME NEW b \in blocks
      PROVE  Span(b) \cap Span(block) = {}
  <2>1. b.at \in Nat /\ b.bytes \in Nat /\ b.at + b.bytes <= cursor
    BY DEF ArenaInv, BehindCursor
  <2>2. block.at = at /\ block.bytes = bytes
    OBVIOUS
  <2>3. QED
    BY <1>1, <1>2, <2>1, <2>2 DEF Span
<1>8. BlocksApart'
  <2>1. ASSUME NEW b \in blocks', NEW c \in blocks', b # c
        PROVE  Span(b) \cap Span(c) = {}
    <3>1. CASE b \in blocks /\ c \in blocks
      BY <2>1, <3>1 DEF ArenaInv, BlocksApart
    <3>2. CASE b = block \/ c = block
      BY <1>4, <1>7, <2>1, <3>2
    <3>3. QED
      BY <1>4, <2>1, <3>1, <3>2
  <2>2. QED
    BY <1>6, <2>1 DEF BlocksApart, Span
<1>9. RefusedOnlyWhenFull'
  <2>1. at \in 0 .. Memory
    BY <1>1, <1>2, <1>4, Buffer
  <2>2. last'.at # nullptr
    BY <1>4, <2>1, ArenaAssumption
  <2>3. QED
    BY <2>2 DEF RefusedOnlyWhenFull
<1>10. QED
  BY <1>5, <1>8, <1>9 DEF ArenaInv

LEMMA RefuseKeeps ==
  ASSUME ArenaInv, NEW bytes \in Sizes, NEW align \in Aligns, Refused(bytes, align)
  PROVE  ArenaInv'
<1> DEFINE low == Aligned(cursor, align)
<1>1. bytes \in Nat \ {0} /\ align \in Nat \ {0} /\ cursor \in 0 .. End
  BY Buffer, ArenaAssumption DEF ArenaInv, BehindCursor
<1>2. low \in Nat /\ low < cursor + align
      /\ \A at \in Nat : cursor <= at /\ at % align = 0 => low <= at
  BY <1>1, RoundsUp
<1>3. low + bytes > End
  <2>1. End + align + bytes < Memory
    BY ArenaAssumption
  <2>2. (low + bytes) % Memory > End
    BY DEF Refused, Exhausted
  <2> HIDE DEF low
  <2>3. low + bytes \in Nat /\ low + bytes < Memory /\ Memory \in Nat \ {0}
    BY <1>1, <1>2, <2>1, Buffer
  <2>4. (low + bytes) % Memory = low + bytes
    BY <2>3, Unwrapped
  <2>5. QED
    BY <2>2, <2>4
<1>4. /\ last' = [at |-> nullptr, bytes |-> bytes, align |-> align]
      /\ cursor' = cursor /\ blocks' = blocks
  BY DEF Refused
<1> HIDE DEF low
<1>5. ASSUME NEW at \in cursor .. End, at % align = 0
      PROVE  at + bytes > End
  <2>1. at \in Nat /\ cursor <= at
    BY <1>1, Buffer
  <2>2. low <= at
    BY <1>2, <1>5, <2>1
  <2>3. QED
    BY <1>1, <1>2, <1>3, <2>1, <2>2, Buffer
<1>6. RefusedOnlyWhenFull'
  BY <1>4, <1>5 DEF RefusedOnlyWhenFull
<1>7. BehindCursor' /\ BlocksApart'
  BY <1>4 DEF ArenaInv, BehindCursor, BlocksApart, Span
<1>8. QED
  BY <1>6, <1>7 DEF ArenaInv

LEMMA InitArena == ArenaInit => ArenaInv
  BY EmptyArena DEF ArenaInit

LEMMA StepArena == ArenaInv /\ [ArenaNext]_arena => ArenaInv'
<1> SUFFICES ASSUME ArenaInv, [ArenaNext]_arena PROVE ArenaInv'
  OBVIOUS
<1>1. CASE Reset
  <2>1. NoRequest' = NoRequest
    BY DEF NoRequest
  <2>2. cursor' = Begin /\ blocks' = {} /\ last' = NoRequest
    BY <1>1 DEF Reset
  <2>3. last'.at # nullptr
    <3>1. Begin \in 0 .. Memory
      BY Buffer
    <3>2. QED
      BY <2>2, <3>1, ArenaAssumption DEF NoRequest
  <2>4. QED
    BY <2>2, <2>3, Buffer DEF ArenaInv, BehindCursor, BlocksApart, RefusedOnlyWhenFull
<1>2. ASSUME NEW bytes \in Sizes, NEW align \in Aligns,
             Granted(bytes, align) \/ Refused(bytes, align)
      PROVE  ArenaInv'
  BY <1>2, GrantKeeps, RefuseKeeps
<1>3. CASE UNCHANGED arena
  BY <1>3 DEF arena, ArenaInv, BehindCursor, BlocksApart, RefusedOnlyWhenFull, Span
<1>4. QED
  BY <1>1, <1>2, <1>3 DEF ArenaNext

(* Blocks lie in the buffer, aligned, and no two share a byte. *)
THEOREM BlocksNeverOverlap == ArenaSpec => []BlocksApart
  BY InitArena, StepArena, PTL DEF ArenaSpec, ArenaInv

(* allocate answers nullptr only when no aligned place of that size is left. *)
THEOREM RefusalsJustified == ArenaSpec => []RefusedOnlyWhenFull
  BY InitArena, StepArena, PTL DEF ArenaSpec, ArenaInv

(* Aligned, apart, and refused only without room: for every buffer. *)
THEOREM AllocatesExactly == ArenaSpec => []ArenaExact
<1>1. ArenaInv => ArenaExact
  BY DEF ArenaInv, ArenaExact
<1>2. QED
  BY <1>1, InitArena, StepArena, PTL DEF ArenaSpec

=============================================================================
