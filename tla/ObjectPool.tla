----------------------------- MODULE ObjectPool -----------------------------
(***************************************************************************)
(* ObjectPool of examples/static_vector.hpp: a slab of N slots whose free  *)
(* ones are linked through next_free_, last released first.  T's           *)
(* constructor runs in the middle of acquire and its destructor in the     *)
(* middle of release, and either may use the pool itself (a node that      *)
(* acquires or releases its children): calls is the stack of the calls in  *)
(* progress.  A constructor may throw.                                     *)
(*                                                                         *)
(* The caller's contract is that release is given a handle acquire has     *)
(* returned and that has not been released since.  MaxDepth bounds the     *)
(* nesting.                                                                *)
(***************************************************************************)
EXTENDS Integers, Sequences, FiniteSets

CONSTANTS N, kInvalid, MaxDepth

Handles == 0 .. N - 1

ASSUME PoolAssumption ==
  N \in Nat \ {0} /\ kInvalid \in Nat \ Handles /\ MaxDepth \in Nat \ {0}

VARIABLES next_free, free_head, live,
          calls,       \* calls in progress, innermost last: [op, handle]
          owned,       \* handles the callers hold
          lost         \* handles taken off the list by a constructor that threw

pool == <<next_free, free_head, live, calls, owned, lost>>

PoolInit ==
  /\ next_free = [h \in Handles |-> IF h < N - 1 THEN h + 1 ELSE kInvalid]
  /\ free_head = 0 /\ live = 0
  /\ calls = << >> /\ owned = {} /\ lost = {}
------------------------------------------------------------------------------
Call(op, h) == calls' = Append(calls, [op |-> op, handle |-> h])
Inner == calls[Len(calls)]
Return == calls' = SubSeq(calls, 1, Len(calls) - 1)

(* acquire: kInvalid when the list is empty, otherwise T's constructor runs on the slot. *)
PoppedKeepsHead == free_head
Popped == next_free[free_head]

Acquire ==
  /\ Len(calls) < MaxDepth
  /\ free_head # kInvalid
  /\ free_head' = Popped
  /\ Call("acquire", free_head)
  /\ UNCHANGED <<next_free, live, owned, lost>>

Acquired ==
  /\ calls # << >> /\ Inner.op = "acquire"
  /\ live' = live + 1
  /\ owned' = owned \cup {Inner.handle}
  /\ Return
  /\ UNCHANGED <<next_free, free_head, lost>>

\* The exception leaves acquire: the list has moved on already, live_ has not.
AcquireThrows ==
  /\ calls # << >> /\ Inner.op = "acquire"
  /\ lost' = lost \cup {Inner.handle}
  /\ Return
  /\ UNCHANGED <<next_free, free_head, live, owned>>

(* release: T's destructor runs first, then the slot is put at the head. *)
Release ==
  /\ Len(calls) < MaxDepth
  /\ \E h \in owned : /\ owned' = owned \ {h}
                      /\ Call("release", h)
  /\ UNCHANGED <<next_free, free_head, live, lost>>

Linked(h) == [next_free EXCEPT ![h] = free_head]
LiveLess == live - 1

Released ==
  /\ calls # << >> /\ Inner.op = "release"
  /\ next_free' = Linked(Inner.handle)
  /\ free_head' = Inner.handle
  /\ live' = LiveLess
  /\ Return
  /\ UNCHANGED <<owned, lost>>

PoolNext == Acquire \/ Acquired \/ AcquireThrows \/ Release \/ Released

PoolSpec == PoolInit /\ [][PoolNext]_pool
------------------------------------------------------------------------------
(* Properties *)

CallOK == [op : {"acquire", "release"}, handle : Handles]
PoolTypeOK ==
  /\ next_free \in [Handles -> Handles \cup {kInvalid}]
  /\ free_head \in Handles \cup {kInvalid}
  /\ live \in Nat
  /\ calls \in Seq(CallOK)
  /\ owned \subseteq Handles /\ lost \subseteq Handles

InCalls == {calls[i].handle : i \in DOMAIN calls}
Free == Handles \ (owned \cup lost \cup InCalls)

\* acquire hands a slot to one caller at a time: one that is held, under construction or
\* destruction, or lost is in no second hand, however the calls nest.
HandedOnce ==
  /\ owned \cap lost = {} /\ InCalls \cap (owned \cup lost) = {}
  /\ \A i, j \in DOMAIN calls : calls[i].handle = calls[j].handle => i = j

\* The list through next_free_ holds every free slot once and ends: the free slots can be
\* numbered by their place on it, counted from its end.
Numbering(rank, length) ==
  /\ \A h \in Free : IF rank[h] = 1 THEN next_free[h] = kInvalid
                     ELSE next_free[h] \in Free /\ rank[next_free[h]] = rank[h] - 1
  /\ \A g, h \in Free : rank[g] = rank[h] => g = h
  /\ IF length = 0 THEN free_head = kInvalid
     ELSE free_head \in Free /\ rank[free_head] = length
FreeListWhole ==
  \E rank \in [Free -> 1 .. Cardinality(Free)] : Numbering(rank, Cardinality(Free))

\* live_ counts the objects that have been constructed and whose release has not returned.
Releasing == {i \in DOMAIN calls : calls[i].op = "release"}
LiveExact == live = Cardinality(owned) + Cardinality(Releasing)

\* Every slot is in one place at a time - free, held, in a call or lost - after any nesting
\* of calls and any exception in them; the free list and live_ tell the same.
PoolAccounted == PoolTypeOK /\ HandedOnce /\ FreeListWhole /\ LiveExact
==============================================================================
