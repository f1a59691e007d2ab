------------------------------- MODULE IdMap -------------------------------
(***************************************************************************)
(* The open-addressing id map of content/37-order-book-design.md: linear   *)
(* probing, and erase by backward shift.  home is mix(k) & kMask, fixed    *)
(* for a behaviour and otherwise any function of the keys.  The callers    *)
(* keep fewer ids than the table has slots ("kSlots >= 2x live orders"):   *)
(* in a full table a probe for an unknown id never ends.                   *)
(***************************************************************************)
EXTENDS Integers, Sequences, FiniteSetsExt, SequencesExt

CONSTANTS Key, Mapped, NoValue, kSlots, MaxLive

ASSUME IdMapAssumption ==
  NoValue \notin Mapped /\ MaxLive \in Nat /\ kSlots \in Nat /\ MaxLive < kSlots

TableSlot == 0 .. kSlots - 1

VARIABLES home,       \* [Key -> TableSlot]
          table,      \* [keys : [TableSlot -> Key or NoValue], vals : [TableSlot -> Mapped or NoValue]]
          inserted    \* what is in the map, oldest first: [key, val]

map == <<home, table, inserted>>

Live == {inserted[n].key : n \in DOMAIN inserted}
\* The key beside an empty slot is never looked at.
Empty == [keys |-> [i \in TableSlot |-> NoValue], vals |-> [i \in TableSlot |-> NoValue]]

MapInit == home \in [Key -> TableSlot] /\ table = Empty /\ inserted = << >>
------------------------------------------------------------------------------
Onward(i, d) == (i + d) % kSlots

\* Where a probe for k ends: at k, or at the first empty slot from its home on.
Probe(t, k) ==
  LET Ends(d) == LET i == Onward(home[k], d) IN t.vals[i] = NoValue \/ t.keys[i] = k
  IN Onward(home[k], Min({d \in TableSlot : Ends(d)}))

Found(t, k) == t.vals[Probe(t, k)]

WithEntry(t, i, k, v) == [keys |-> [t.keys EXCEPT ![i] = k], vals |-> [t.vals EXCEPT ![i] = v]]
Inserted(t, k, v) == WithEntry(t, Probe(t, k), k, v)

InsideNoWrap(h, i, j) == i < h /\ h <= j
Inside(h, i, j) == IF i <= j THEN i < h /\ h <= j ELSE i < h \/ h <= j

\* One turn of the shift: e.hole is empty, j is the next slot after it to look at.
ShiftedOne(e, j) ==
  IF e.done \/ e.t.vals[j] = NoValue THEN [e EXCEPT !.done = TRUE]
  ELSE IF Inside(home[e.t.keys[j]], e.hole, j) THEN e
  ELSE [e EXCEPT !.t = WithEntry(WithEntry(@, e.hole, @.keys[j], @.vals[j]), j, @.keys[j], NoValue),
                 !.hole = j]

Erased(t, k) ==
  LET i == Probe(t, k)
      hole == [t |-> [t EXCEPT !.vals[i] = NoValue], hole |-> i, done |-> FALSE]
  IN IF t.vals[i] = NoValue THEN t
     ELSE FoldLeft(ShiftedOne, hole, [d \in 1 .. kSlots - 1 |-> Onward(i, d)]).t

Insert(k, v) ==
  /\ k \in Live \/ Len(inserted) < MaxLive
  /\ table' = Inserted(table, k, v)
  /\ inserted' = IF k \in Live
                 THEN [n \in DOMAIN inserted |->
                         IF inserted[n].key = k THEN [key |-> k, val |-> v] ELSE inserted[n]]
                 ELSE Append(inserted, [key |-> k, val |-> v])
  /\ UNCHANGED home

Erase(k) ==
  /\ table' = Erased(table, k)
  /\ inserted' = RemoveFirstMatch(inserted, LAMBDA e : e.key = k)
  /\ UNCHANGED home

Clear ==
  /\ table' = [table EXCEPT !.vals = [i \in TableSlot |-> NoValue]]
  /\ inserted' = << >>
  /\ UNCHANGED home

MapNext == Clear \/ \E k \in Key : Erase(k) \/ \E v \in Mapped : Insert(k, v)

MapSpec == MapInit /\ [][MapNext]_map
------------------------------------------------------------------------------
(* Properties *)

\* find answers with what was last inserted under the id, and with NoValue for any other id,
\* whatever has been erased around it.
FindsWhatIsThere ==
  \A k \in Key :
    LET at == {n \in DOMAIN inserted : inserted[n].key = k}
    IN IF at = {} THEN Found(table, k) = NoValue
       ELSE \A n \in at : Found(table, k) = inserted[n].val

\* "restores the table to the state it would have been in had the key never been inserted":
\* the table is, slot for slot, the one that the ids still there give when inserted in their
\* order into an empty table.  Probe chains do not grow with the ids that have come and gone.
AsIfNeverInserted ==
  LET fresh == FoldLeft(LAMBDA t, e : Inserted(t, e.key, e.val), Empty, inserted)
  IN /\ fresh.vals = table.vals
     /\ \A i \in TableSlot : table.vals[i] # NoValue => fresh.keys[i] = table.keys[i]

\* The map is a function from the ids inserted and not erased, and its table has no memory
\* of the others.
MapExact == FindsWhatIsThere /\ AsIfNeverInserted
==============================================================================
