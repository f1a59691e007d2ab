----------------------------- MODULE TraceRing -----------------------------
(***************************************************************************)
(* TraceRing of examples/trace_ring.hpp: one thread puts records for ever,  *)
(* another takes snapshots, and nothing stops the first from overwriting   *)
(* what the second is copying.                                             *)
(*                                                                         *)
(* A record is named by its number, counted from 0.  Its fields are plain   *)
(* memory: put number i stores i into each field of slot i % N, in any     *)
(* order, before the release store of head_.  The load of head_ in snapshot *)
(* may return an old value; it brings with it the fields of all records    *)
(* before that value.  The copy then races with later puts: for each field *)
(* it may see any store made to it since.                                  *)
(* MaxPut bounds the number of records.                                    *)
(***************************************************************************)
EXTENDS Integers, FiniteSets

CONSTANTS N, Fields, Caps, MaxPut

ASSUME RingAssumption ==
  /\ N \in Nat \ {0} /\ Caps \subseteq Nat /\ MaxPut \in Nat
  /\ Fields # {} /\ IsFiniteSet(Fields)

VARIABLES head_,
          stored,       \* [Fields -> Nat], the number of puts that have stored the field
          seen,         \* the last value of head_ the reader loaded
          h, take, out, \* snapshot: head_ as loaded, the records to copy, those copied
          copying

ring == <<head_, stored, seen, h, take, out, copying>>

RingInit ==
  /\ head_ = 0 /\ stored = [f \in Fields |-> 0]
  /\ seen = 0 /\ h = 0 /\ take = 0 /\ out = [k \in {} |-> 0] /\ copying = FALSE

Least(a, b) == IF a < b THEN a ELSE b
------------------------------------------------------------------------------
(* put, by the hot thread *)

StoreField(f) ==
  /\ head_ < MaxPut /\ stored[f] = head_
  /\ stored' = [stored EXCEPT ![f] = @ + 1]
  /\ UNCHANGED <<head_, seen, h, take, out, copying>>

StoreHead ==
  /\ \A f \in Fields : stored[f] = head_ + 1
  /\ head_' = head_ + 1
  /\ UNCHANGED <<stored, seen, h, take, out, copying>>
------------------------------------------------------------------------------
(* snapshot, by the cold thread *)

Have(n) == Least(n, N)

Begin(value, cap) ==
  /\ ~copying
  /\ value \in seen .. head_
  /\ seen' = value /\ h' = value
  /\ take' = Least(Have(value), cap)
  /\ out' = [k \in {} |-> 0] /\ copying' = TRUE
  /\ UNCHANGED <<head_, stored>>

\* The record whose slot out[k] is copied from.
From(k) == h - take + k

\* What the copy may see in a field of that slot: the store that the loaded head_ brought
\* along, or any later one.
VisibleRelaxed(f, k) == {n \in 0 .. stored[f] - 1 : n % N = From(k) % N}
Visible(f, k) == {n \in 0 .. stored[f] - 1 : n >= h - N /\ n % N = From(k) % N}

Copied == Cardinality(DOMAIN out)

Copy ==
  /\ copying /\ Copied < take
  /\ \E record \in [Fields -> 0 .. MaxPut] :
       /\ \A f \in Fields : record[f] \in Visible(f, Copied)
       /\ out' = [k \in 0 .. Copied |-> IF k = Copied THEN record ELSE out[k]]
  /\ UNCHANGED <<head_, stored, seen, h, take, copying>>

Return ==
  /\ copying /\ Copied = take
  /\ copying' = FALSE
  /\ UNCHANGED <<head_, stored, seen, h, take, out>>

RingNext == \/ \E f \in Fields : StoreField(f)
            \/ StoreHead
            \/ \E value \in 0 .. MaxPut, cap \in Caps : Begin(value, cap)
            \/ Copy \/ Return

RingSpec == RingInit /\ [][RingNext]_ring
------------------------------------------------------------------------------
(* Properties *)

RingTypeOK ==
  /\ head_ \in 0 .. MaxPut /\ seen \in 0 .. head_ /\ h \in 0 .. head_
  /\ \A f \in Fields : stored[f] \in {head_, head_ + 1}
  /\ take \in 0 .. Least(h, N) /\ copying \in BOOLEAN
  /\ Copied <= take /\ out \in [0 .. Copied - 1 -> [Fields -> Nat]]

\* "Best effort: a record may be overwritten as it is copied", but only in one way: a
\* field of record i that reads wrong comes from a later lap, and only once the hot thread
\* has come round to put record i + N.  Nothing else is ever torn, and nothing stale is read.
DamagedOnlyByOverrun ==
  \A k \in DOMAIN out, f \in Fields :
    LET i == h - take + k
    IN out[k][f] # i => out[k][f] > i /\ i + N <= head_

\* A snapshot no put overlaps is exactly the last records, oldest first, as the offline
\* decoder of trace_demo relies on.
UndisturbedExact ==
  (~copying /\ \A f \in Fields : stored[f] = h)
    => out = [k \in 0 .. take - 1 |-> [f \in Fields |-> h - take + k]]

\* "Best effort", made precise: exact when no put overlaps, and else wrong only in records
\* that were overwritten meanwhile.
SnapshotFaithful == RingTypeOK /\ DamagedOnlyByOverrun /\ UndisturbedExact
==============================================================================
