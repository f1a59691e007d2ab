----------------------------- MODULE BookProofs -----------------------------
(***************************************************************************)
(* The order book for every size of the slab, the table and the ladder,    *)
(* and for every stream of orders.  The inductive invariant has two        *)
(* layers.  StoreInv: the free list holds exactly the slots that are not   *)
(* live, and the table leads from each live id to its slot, with no vacant *)
(* slot between an entry and the place its id hashes to, which is what the *)
(* backward shift of erase must restore.  BookInv adds that each level's   *)
(* aggregate and each side's best level are those of the orders resting    *)
(* there.  The orders a reader of the book sees are then those of          *)
(* AbstractBook.                                                           *)
(***************************************************************************)
EXTENDS MCBook, DataLemmas

Slot == 0 .. TableSize - 1
Entry == [id : OrderIds \cup {0}, handle : Handle \cup {NoHandle}]
Occupied(t) == {i \in Slot : t[i].handle # NoHandle}

\* How far on from a the slot b is, around the end of the table.
Off(a, b) == IF b >= a THEN b - a ELSE b - a + TableSize

\* No vacant slot lies between an entry's home and the entry.
Chained(t) ==
  \A x \in Occupied(t), y \in Slot :
    Off(Home[t[x].id], y) < Off(Home[t[x].id], x) => y \in Occupied(t)
OnceEach(t) == \A x, y \in Occupied(t) : t[x].id = t[y].id => x = y
TableOK(t) ==
  /\ t \in [Slot -> Entry]
  /\ \A x \in Occupied(t) : t[x].id \in OrderIds
  /\ Chained(t) /\ OnceEach(t)
HasRoom(t) == \E x \in Slot : x \notin Occupied(t)

LEMMA Sizes == /\ TableSize \in Nat \ {0} /\ Slot \subseteq Nat /\ IsFiniteSet(Slot)
               /\ \A id \in OrderIds : Home[id] \in Slot
<1>1. TableSize \in Nat \ {0} /\ Slot \subseteq Nat  BY BookAssumption DEF Slot
<1>2. IsFiniteSet(Slot)  BY <1>1, FS_Interval DEF Slot
<1>3. \A id \in OrderIds : Home[id] \in Slot  BY BookAssumption DEF Slot
<1> QED  BY <1>1, <1>2, <1>3

\* The k-th slot a probe looks at is k slots on from home.
LEMMA ProbeOff ==
  ASSUME NEW id \in OrderIds
  PROVE  /\ \A k \in Slot : Probe(id, k) \in Slot /\ Off(Home[id], Probe(id, k)) = k
         /\ \A x \in Slot : Off(Home[id], x) \in Slot /\ Probe(id, Off(Home[id], x)) = x
<1>1. TableSize \in Nat \ {0} /\ Home[id] \in Slot  BY Sizes
<1>2. \A k \in Slot : Probe(id, k) = IF Home[id] + k < TableSize THEN Home[id] + k
                                     ELSE Home[id] + k - TableSize
  <2> TAKE k \in Slot
  <2> DEFINE a == Home[id] + k
  <2>1. a \in 0 .. 2 * TableSize - 1  BY <1>1 DEF Slot
  <2> HIDE DEF a
  <2>2. a % TableSize = IF a < TableSize THEN a ELSE a - TableSize  BY <1>1, <2>1, Cyclic
  <2>3. Probe(id, k) = a % TableSize /\ a = Home[id] + k  BY DEF Probe, a
  <2> QED  BY <1>1, <2>1, <2>2, <2>3 DEF Slot
<1>3. \A k \in Slot : Probe(id, k) \in Slot /\ Off(Home[id], Probe(id, k)) = k
  BY <1>1, <1>2 DEF Slot, Off
<1>4. ASSUME NEW x \in Slot PROVE Off(Home[id], x) \in Slot /\ Probe(id, Off(Home[id], x)) = x
  <2>1. Off(Home[id], x) \in Slot  BY <1>1 DEF Slot, Off
  <2>2. Probe(id, Off(Home[id], x)) =
          IF Home[id] + Off(Home[id], x) < TableSize THEN Home[id] + Off(Home[id], x)
          ELSE Home[id] + Off(Home[id], x) - TableSize
    BY <1>2, <2>1
  <2> QED  BY <1>1, <2>1, <2>2 DEF Slot, Off
<1> QED  BY <1>3, <1>4

LEMMA ProbesAre ==
  ASSUME NEW id \in OrderIds, NEW k \in 0 .. TableSize,
         k = TableSize \/ EndsProbe(id, Probe(id, k)),
         \A j \in 0 .. k - 1 : ~EndsProbe(id, Probe(id, j))
  PROVE  Probes(id) = k
<1> DEFINE P(n) == /\ n = TableSize \/ EndsProbe(id, Probe(id, n))
                   /\ \A j \in 0 .. n - 1 : ~EndsProbe(id, Probe(id, j))
<1>1. P(k)  OBVIOUS
<1>2. \A n \in 0 .. TableSize : P(n) => n = k
  <2> SUFFICES ASSUME NEW n \in 0 .. TableSize, P(n) PROVE n = k  OBVIOUS
  <2>0. TableSize \in Nat  BY Sizes
  <2>1. ~(n < k)
    <3> SUFFICES ASSUME n < k PROVE FALSE  OBVIOUS
    <3>1. n \in 0 .. k - 1 /\ n # TableSize  BY <2>0
    <3> QED  BY <3>1
  <2>2. ~(k < n)
    <3> SUFFICES ASSUME k < n PROVE FALSE  OBVIOUS
    <3>1. k \in 0 .. n - 1 /\ k # TableSize  BY <2>0
    <3> QED  BY <3>1
  <2> QED  BY <2>0, <2>1, <2>2
<1> HIDE DEF P
<1>3. (CHOOSE n \in 0 .. TableSize : P(n)) = k  BY <1>1, <1>2
<1> QED  BY <1>3 DEF Probes, P

\* find_id finds the entry of an id that is in the table, however far it has moved.
LEMMA FindStored ==
  ASSUME TableOK(id_table_), NEW x \in Occupied(id_table_), NEW id, id = id_table_[x].id
  PROVE  /\ Probe(id, Probes(id)) = x
         /\ FindId(id) = id_table_[x].handle /\ FindId(id) # NoHandle
<1> DEFINE k == Off(Home[id], x)
<1>1. id \in OrderIds /\ x \in Slot  BY DEF TableOK, Occupied
<1>2. k \in Slot /\ Probe(id, k) = x  BY <1>1, ProbeOff
<1>3. EndsProbe(id, Probe(id, k))  BY <1>2 DEF EndsProbe
<1>4. ASSUME NEW j \in 0 .. k - 1 PROVE ~EndsProbe(id, Probe(id, j))
  <2>1. j \in Slot /\ j < k  BY <1>2, Sizes DEF Slot
  <2>2. Probe(id, j) \in Slot /\ Off(Home[id], Probe(id, j)) = j  BY <1>1, <2>1, ProbeOff
  <2>3. Probe(id, j) \in Occupied(id_table_)
    BY <2>1, <2>2 DEF TableOK, Chained
  <2>4. Probe(id, j) # x  BY <2>1, <2>2
  <2> QED  BY <2>3, <2>4 DEF TableOK, OnceEach, EndsProbe, Vacant, Occupied
<1>5. k \in 0 .. TableSize /\ k # TableSize  BY <1>2, Sizes DEF Slot
<1> HIDE DEF k
<1>6. Probes(id) = k  BY <1>1, <1>3, <1>4, <1>5, ProbesAre
<1> QED  BY <1>2, <1>5, <1>6 DEF FindId, Occupied

\* The probe for any other id ends at a vacant slot.
LEMMA FindAbsent ==
  ASSUME TableOK(id_table_), HasRoom(id_table_),
         NEW id \in OrderIds, \A x \in Occupied(id_table_) : id_table_[x].id # id
  PROVE  FindId(id) = NoHandle
<1> DEFINE V == {n \in Slot : Probe(id, n) \notin Occupied(id_table_)}
<1>1. V \subseteq Nat /\ V # {}
  <2>1. PICK x \in Slot : x \notin Occupied(id_table_)  BY DEF HasRoom
  <2>2. Off(Home[id], x) \in V  BY <2>1, ProbeOff
  <2> QED  BY <2>2, Sizes
<1>2. PICK k \in V : \A n \in V : k <= n  BY <1>1, LeastNat
<1>3. k \in Slot /\ Probe(id, k) \in Slot /\ Vacant(Probe(id, k))  BY ProbeOff DEF Vacant, Occupied
<1>4. ASSUME NEW j \in 0 .. k - 1 PROVE ~EndsProbe(id, Probe(id, j))
  <2>1. j \in Slot /\ j < k  BY <1>3, Sizes DEF Slot
  <2>2. Probe(id, j) \in Occupied(id_table_)  BY <1>2, <2>1, Sizes
  <2> QED  BY <2>2 DEF EndsProbe, Vacant, Occupied
<1>5. k \in 0 .. TableSize /\ k # TableSize  BY <1>3, Sizes DEF Slot
<1>6. Probes(id) = k  BY <1>3, <1>4, <1>5, ProbesAre DEF EndsProbe
<1> QED  BY <1>3, <1>5, <1>6 DEF FindId, Vacant

\* insert_id takes the first vacant slot from home on.
LEMMA InsertKeeps ==
  ASSUME TableOK(id_table_), HasRoom(id_table_),
         NEW id \in OrderIds, \A x \in Occupied(id_table_) : id_table_[x].id # id,
         NEW h \in Handle
  PROVE  /\ TableOK(InsertId(id, h))
         /\ \E x \in Slot \ Occupied(id_table_) :
               InsertId(id, h) = [id_table_ EXCEPT ![x] = [id |-> id, handle |-> h]]
<1> DEFINE V == {n \in Slot : Vacant(Probe(id, n))}
           k == Min(V)
           x == Probe(id, k)
           t == [id_table_ EXCEPT ![x] = [id |-> id, handle |-> h]]
<1>1. V \subseteq Nat /\ V # {}
  <2>1. PICK z \in Slot : z \notin Occupied(id_table_)  BY DEF HasRoom
  <2>2. Off(Home[id], z) \in V  BY <2>1, ProbeOff DEF Vacant, Occupied
  <2> QED  BY <2>2, Sizes
<1>2. k \in V /\ \A n \in V : k <= n  BY <1>1, MinNat
<1>3. k \in Slot /\ x \in Slot /\ x \notin Occupied(id_table_) /\ Off(Home[id], x) = k
  BY <1>2, ProbeOff DEF Vacant, Occupied
<1>4. InsertId(id, h) = t  BY DEF InsertId, Slot
<1> HIDE DEF k, x
<1>5. h # NoHandle  BY BookAssumption DEF Handle, NoHandle
<1>6. Occupied(t) = Occupied(id_table_) \cup {x}
  BY <1>3, <1>5 DEF Occupied, TableOK
<1>7. /\ t[x] = [id |-> id, handle |-> h]
      /\ \A z \in Occupied(id_table_) : z # x /\ t[z] = id_table_[z]
  BY <1>3 DEF TableOK, Occupied
<1>8. t \in [Slot -> Entry]  BY <1>3 DEF TableOK, Entry
<1> HIDE DEF t
<1>9. \A z \in Occupied(t) : t[z].id \in OrderIds  BY <1>6, <1>7 DEF TableOK
<1>10. OnceEach(t)  BY <1>6, <1>7 DEF TableOK, OnceEach
<1>11. Chained(t)
  <2> SUFFICES ASSUME NEW z \in Occupied(t), NEW y \in Slot,
                      Off(Home[t[z].id], y) < Off(Home[t[z].id], z)
               PROVE  y \in Occupied(t)
    BY DEF Chained
  <2>1. CASE z = x
    <3> DEFINE o == Off(Home[id], y)
    <3>1. o < k  BY <1>3, <1>7, <2>1
    <3>2. o \in Slot /\ Probe(id, o) = y  BY ProbeOff
    <3> HIDE DEF o
    <3>3. ~Vacant(Probe(id, o))
      <4> SUFFICES ASSUME Vacant(Probe(id, o)) PROVE FALSE  OBVIOUS
      <4>1. o \in V  BY <3>2
      <4>2. k <= o /\ k \in Nat /\ o \in Nat  BY <1>2, <1>3, <3>2, <4>1, Sizes
      <4> QED  BY <3>1, <4>2
    <3> QED  BY <1>6, <3>2, <3>3 DEF Vacant, Occupied
  <2>2. CASE z # x
    <3>1. z \in Occupied(id_table_) /\ t[z] = id_table_[z]  BY <1>6, <1>7, <2>2
    <3> QED  BY <1>6, <3>1 DEF TableOK, Chained
  <2> QED  BY <2>1, <2>2
<1>12. TableOK(t)  BY <1>8, <1>9, <1>10, <1>11 DEF TableOK
<1> QED  BY <1>3, <1>4, <1>12 DEF t

LEMMA Offsets ==
  /\ \A a, b \in Slot : Off(a, b) \in Slot /\ Off(a, a) = 0 /\ (Off(a, b) = 0 => a = b)
  /\ \A a, b, c \in Slot : Off(a, b) <= Off(a, c) => Off(a, c) = Off(a, b) + Off(b, c)
  /\ \A a, b, c \in Slot : Off(a, b) = Off(a, c) => b = c
BY Sizes DEF Slot, Off

\* The entry at j may fill the gap exactly when a probe for it passes the gap.
LEMMA MovableIs ==
  ASSUME NEW gap \in Slot, NEW j \in Slot, NEW home \in Slot, gap # j
  PROVE  Movable(gap, j, home) <=> Off(home, gap) < Off(home, j)
BY Sizes DEF Slot, Off, Movable

\* One turn of the loop of erase_id, at slot j.
Shifted(s, j) ==
  IF Movable(s.gap, j, Home[s.table[j].id])
  THEN [gap |-> j, table |-> [s.table EXCEPT ![s.gap] = s.table[j]]]
  ELSE s

\* After k turns: the entries but the erased one are all there, outside the gap, and the gap
\* lies on the way to none but those still to be looked at.
ShiftInv(s, i, k, run) ==
  /\ s \in [gap : Slot, table : [Slot -> Entry]]
  /\ s.gap \in Occupied(id_table_) /\ Off(i, s.gap) <= k
  /\ Occupied(s.table) = Occupied(id_table_)
  /\ \A x \in Slot : Off(i, x) > k => s.table[x] = id_table_[x]
  /\ {s.table[x] : x \in Occupied(id_table_) \ {s.gap}}
        = {id_table_[x] : x \in Occupied(id_table_) \ {i}}
  /\ \A x, y \in Occupied(id_table_) \ {s.gap} : s.table[x].id = s.table[y].id => x = y
  /\ \A x \in Occupied(id_table_) : s.table[x].id \in OrderIds
  /\ \A x \in Occupied(id_table_) \ {s.gap}, y \in Slot :
       Off(Home[s.table[x].id], y) < Off(Home[s.table[x].id], x)
         => /\ y \in Occupied(id_table_)
            /\ y = s.gap => k < Off(i, x) /\ Off(i, x) < run

\* i is a slot of the table, and the entries from it on to the first vacant slot r are run many.
IsRun(i, r, run) ==
  /\ i \in Occupied(id_table_) /\ r \in Slot \ Occupied(id_table_) /\ Off(i, r) = run

\* An entry that a probe reaches past a slot j of the run is itself in the run, after j.
LEMMA PastTheRun ==
  ASSUME NEW i, NEW r, NEW run, IsRun(i, r, run), NEW j \in Slot, Off(i, j) < run,
         NEW x \in Occupied(id_table_), NEW home \in Slot, Off(home, j) < Off(home, x),
         \A y \in Slot : Off(home, y) < Off(home, x) => y \in Occupied(id_table_)
  PROVE  Off(i, j) < Off(i, x) /\ Off(i, x) < run
<1>1. i \in Slot /\ r \in Slot /\ x \in Slot /\ x # r  BY DEF IsRun, Occupied
<1>2. ~(Off(home, r) < Off(home, x))  BY <1>1 DEF IsRun
<1>3. Off(i, r) = run  BY DEF IsRun
<1> QED  BY <1>1, <1>2, <1>3, Sizes DEF Slot, Off

LEMMA ShiftStart ==
  ASSUME TableOK(id_table_), NEW i, NEW r, NEW run, IsRun(i, r, run)
  PROVE  ShiftInv([gap |-> i, table |-> id_table_], i, 0, run)
<1>1. i \in Slot /\ i # r /\ r \in Slot  BY DEF IsRun, Occupied
<1>2. Off(i, i) = 0 /\ run # 0 /\ run > 0
  <2>1. run = Off(i, r)  BY DEF IsRun
  <2>2. Off(i, i) = 0 /\ run \in Slot /\ run # 0  BY <1>1, <2>1, Offsets
  <2> QED  BY <2>2, Sizes
<1>3. ASSUME NEW x \in Occupied(id_table_) \ {i}, NEW y \in Slot,
             Off(Home[id_table_[x].id], y) < Off(Home[id_table_[x].id], x)
      PROVE  /\ y \in Occupied(id_table_)
             /\ y = i => 0 < Off(i, x) /\ Off(i, x) < run
  <2>1. Home[id_table_[x].id] \in Slot  BY Sizes DEF TableOK
  <2>2. \A z \in Slot : Off(Home[id_table_[x].id], z) < Off(Home[id_table_[x].id], x)
                          => z \in Occupied(id_table_)
    BY DEF TableOK, Chained
  <2> QED  BY <1>1, <1>2, <1>3, <2>1, <2>2, PastTheRun
<1> DEFINE s == [gap |-> i, table |-> id_table_]
<1>4. s.gap = i /\ s.table = id_table_ /\ s \in [gap : Slot, table : [Slot -> Entry]]
  BY <1>1 DEF TableOK
<1> HIDE DEF s
<1>5. ShiftInv(s, i, 0, run)
  <2>1. s.gap \in Occupied(id_table_) /\ Off(i, s.gap) <= 0  BY <1>2, <1>4 DEF IsRun
  <2>2. Occupied(s.table) = Occupied(id_table_)  BY <1>4
  <2>3. \A x \in Slot : Off(i, x) > 0 => s.table[x] = id_table_[x]  BY <1>4
  <2>4. {s.table[x] : x \in Occupied(id_table_) \ {s.gap}}
          = {id_table_[x] : x \in Occupied(id_table_) \ {i}}
    BY <1>4
  <2>5. \A x, y \in Occupied(id_table_) \ {s.gap} : s.table[x].id = s.table[y].id => x = y
    BY <1>4 DEF TableOK, OnceEach
  <2>6. \A x \in Occupied(id_table_) : s.table[x].id \in OrderIds  BY <1>4 DEF TableOK
  <2>7. \A x \in Occupied(id_table_) \ {s.gap}, y \in Slot :
          Off(Home[s.table[x].id], y) < Off(Home[s.table[x].id], x)
            => y \in Occupied(id_table_) /\ (y = s.gap => 0 < Off(i, x) /\ Off(i, x) < run)
    BY <1>3, <1>4
  <2> QED  BY <1>4, <2>1, <2>2, <2>3, <2>4, <2>5, <2>6, <2>7 DEF ShiftInv
<1> QED  BY <1>5 DEF s

LEMMA ShiftStep ==
  ASSUME TableOK(id_table_), NEW i, NEW r, NEW run, IsRun(i, r, run),
         NEW k \in 1 .. run - 1, NEW s, ShiftInv(s, i, k - 1, run),
         NEW j \in Occupied(id_table_), Off(i, j) = k
  PROVE  ShiftInv(Shifted(s, j), i, k, run)
<1> DEFINE gap == s.gap
           table == s.table
           occ == Occupied(id_table_)
           At(x) == Home[table[x].id]
<1>1. /\ i \in Slot /\ r \in Slot /\ j \in Slot /\ gap \in Slot /\ occ \subseteq Slot
      /\ table \in [Slot -> Entry] /\ s = [gap |-> gap, table |-> table]
      /\ run \in Nat /\ k \in Nat /\ k < run
  <2>1. run \in Slot  BY Offsets DEF IsRun, Occupied
  <2> QED  BY <2>1, Sizes DEF IsRun, Occupied, ShiftInv
<1>2. /\ Off(i, gap) <= k - 1
      /\ Occupied(table) = occ
      /\ \A x \in Slot : Off(i, x) > k - 1 => table[x] = id_table_[x]
      /\ {table[x] : x \in occ \ {gap}} = {id_table_[x] : x \in occ \ {i}}
      /\ \A x, y \in occ \ {gap} : table[x].id = table[y].id => x = y
  BY DEF ShiftInv
<1>3. \A x \in occ : table[x].id \in OrderIds /\ At(x) \in Slot
  BY Sizes DEF ShiftInv
<1>4. \A x \in occ \ {gap}, y \in Slot :
        Off(At(x), y) < Off(At(x), x)
          => y \in occ /\ (y = gap => k - 1 < Off(i, x) /\ Off(i, x) < run)
  BY DEF ShiftInv
<1>5. gap # j /\ Off(i, gap) \in Nat  BY <1>1, <1>2, Offsets, Sizes
<1>6. Off(i, gap) < k /\ Off(i, gap) <= k /\ Off(i, gap) < run  BY <1>1, <1>2, <1>5
<1>7. \A x \in Slot : x # j /\ k - 1 < Off(i, x) => k < Off(i, x)
  <2> SUFFICES ASSUME NEW x \in Slot, x # j, k - 1 < Off(i, x) PROVE k < Off(i, x)  OBVIOUS
  <2>1. Off(i, x) # k /\ Off(i, x) \in Nat  BY <1>1, Offsets, Sizes
  <2> QED  BY <1>1, <2>1
<1>8. \A x \in Slot : Off(i, x) > k => Off(i, x) > k - 1 /\ x # gap
  <2> SUFFICES ASSUME NEW x \in Slot, Off(i, x) > k PROVE Off(i, x) > k - 1 /\ x # gap  OBVIOUS
  <2>1. Off(i, x) \in Nat  BY <1>1, Offsets, Sizes
  <2> QED  BY <1>1, <1>6, <2>1
<1>9. Movable(gap, j, At(j)) <=> Off(At(j), gap) < Off(At(j), j)
  BY <1>1, <1>3, <1>5, MovableIs
<1> HIDE DEF gap, table, At
<1>10. CASE ~Movable(gap, j, At(j))
  <2>1. Shifted(s, j) = s  BY <1>10 DEF Shifted, gap, table, At
  <2>2. ASSUME NEW x \in occ \ {gap}, NEW y \in Slot, Off(At(x), y) < Off(At(x), x)
        PROVE  y \in occ /\ (y = gap => k < Off(i, x) /\ Off(i, x) < run)
    <3>1. y \in occ /\ (y = gap => k - 1 < Off(i, x) /\ Off(i, x) < run)  BY <1>4, <2>2
    <3>2. y = gap => x # j  BY <1>9, <1>10, <2>2
    <3> QED  BY <1>1, <1>7, <3>1, <3>2
  <2>3. ShiftInv(s, i, k, run)
    BY <1>1, <1>2, <1>3, <1>6, <1>8, <2>2 DEF ShiftInv, gap, table, At
  <2> QED  BY <2>1, <2>3
<1>11. CASE Movable(gap, j, At(j))
  <2> DEFINE new == [table EXCEPT ![gap] = table[j]]
             to == [gap |-> j, table |-> new]
  <2>1. Shifted(s, j) = to  BY <1>11 DEF Shifted, gap, table, At
  <2>2. gap \in occ
    <3>1. Off(At(j), gap) < Off(At(j), j)  BY <1>9, <1>11
    <3> QED  BY <1>1, <1>4, <1>5, <3>1
  <2>3. /\ new[gap] = table[j]
        /\ \A x \in Slot : x # gap => new[x] = table[x]
        /\ new \in [Slot -> Entry]
    BY <1>1
  <2> HIDE DEF new
  <2>4. Occupied(new) = occ  BY <1>1, <1>2, <2>2, <2>3 DEF Occupied
  <2>5. \A x \in Slot : Off(i, x) > k => new[x] = id_table_[x]
    BY <1>2, <1>8, <2>3
  <2>6. {new[x] : x \in occ \ {j}} = {table[x] : x \in occ \ {gap}}
    <3>1. ASSUME NEW x \in occ \ {j} PROVE \E y \in occ \ {gap} : new[x] = table[y]
      BY <1>1, <1>5, <2>3
    <3>2. ASSUME NEW y \in occ \ {gap} PROVE \E x \in occ \ {j} : new[x] = table[y]
      BY <1>1, <1>5, <2>2, <2>3
    <3> QED  BY <3>1, <3>2
  <2>7. \A x, y \in occ \ {j} : new[x].id = new[y].id => x = y
    BY <1>1, <1>2, <1>5, <2>3
  <2>8. \A x \in occ : new[x].id \in OrderIds  BY <1>1, <1>3, <2>3
  <2>9. ASSUME NEW x \in occ \ {j}, NEW y \in Slot,
               Off(Home[new[x].id], y) < Off(Home[new[x].id], x)
        PROVE  y \in occ /\ (y = j => k < Off(i, x) /\ Off(i, x) < run)
    <3>1. CASE x = gap
      <4>1. Home[new[x].id] = At(j) /\ At(j) \in Slot  BY <1>3, <2>3, <3>1 DEF At
      <4>2. Off(At(j), gap) < Off(At(j), j)  BY <1>9, <1>11
      <4>3. Off(At(j), y) < Off(At(j), j) /\ y # j
        <5>1. Off(At(j), y) \in Nat /\ Off(At(j), gap) \in Nat /\ Off(At(j), j) \in Nat
          BY <1>1, <4>1, Offsets, Sizes
        <5> QED  BY <2>9, <3>1, <4>1, <4>2, <5>1
      <4> QED  BY <1>4, <1>5, <4>3
    <3>2. CASE x # gap
      <4>1. Home[new[x].id] = At(x) /\ At(x) \in Slot  BY <1>1, <1>3, <2>3, <3>2 DEF At
      <4>2. \A z \in Slot : Off(At(x), z) < Off(At(x), x) => z \in occ  BY <1>4, <3>2
      <4>3. y \in occ  BY <2>9, <4>1, <4>2
      <4>4. ASSUME y = j PROVE k < Off(i, x) /\ Off(i, x) < run
        BY <1>1, <2>9, <4>1, <4>2, <4>4, PastTheRun
      <4> QED  BY <4>3, <4>4
    <3> QED  BY <3>1, <3>2
  <2>10. to.gap = j /\ to.gap \in occ /\ to.table = new /\ to \in [gap : Slot, table : [Slot -> Entry]]
    BY <1>1, <2>3
  <2> HIDE DEF to
  <2>11. Off(i, to.gap) <= k  BY <1>1, <2>10
  <2>12. ShiftInv(to, i, k, run)
    <3>1. Occupied(to.table) = occ  BY <2>4, <2>10
    <3>2. \A x \in Slot : Off(i, x) > k => to.table[x] = id_table_[x]  BY <2>5, <2>10
    <3>3. {to.table[x] : x \in occ \ {to.gap}} = {id_table_[x] : x \in occ \ {i}}
      BY <1>2, <2>6, <2>10
    <3>4. \A x, y \in occ \ {to.gap} : to.table[x].id = to.table[y].id => x = y
      BY <2>7, <2>10
    <3>5. \A x \in occ : to.table[x].id \in OrderIds  BY <2>8, <2>10
    <3>6. \A x \in occ \ {to.gap}, y \in Slot :
            Off(Home[to.table[x].id], y) < Off(Home[to.table[x].id], x)
              => y \in occ /\ (y = to.gap => k < Off(i, x) /\ Off(i, x) < run)
      BY <2>9, <2>10
    <3> QED  BY <2>10, <2>11, <3>1, <3>2, <3>3, <3>4, <3>5, <3>6 DEF ShiftInv
  <2> QED  BY <2>1, <2>12 DEF to
<1> QED  BY <1>10, <1>11

\* The entries after i up to the first vacant slot.
RunLength(i) == Min({k \in 1 .. TableSize : Vacant((i + k) % TableSize)})

LEMMA Onward ==
  ASSUME NEW i \in Slot, NEW k \in 1 .. TableSize
  PROVE  /\ (i + k) % TableSize \in Slot
         /\ k # TableSize => Off(i, (i + k) % TableSize) = k
         /\ k = TableSize => (i + k) % TableSize = i
<1> DEFINE a == i + k
<1>1. TableSize \in Nat \ {0} /\ a \in 0 .. 2 * TableSize - 1  BY Sizes DEF Slot
<1>2. a = i + k  OBVIOUS
<1> HIDE DEF a
<1>3. a % TableSize = IF a < TableSize THEN a ELSE a - TableSize  BY <1>1, Cyclic
<1>4. (i + k) % TableSize = a % TableSize  BY <1>2
<1> QED  BY <1>1, <1>2, <1>3, <1>4 DEF Slot, Off

LEMMA RunIs ==
  ASSUME HasRoom(id_table_), NEW i \in Occupied(id_table_)
  PROVE  LET run == RunLength(i)
         IN /\ run \in 1 .. TableSize - 1
            /\ IsRun(i, (i + run) % TableSize, run)
            /\ \A k \in 1 .. run - 1 : (i + k) % TableSize \in Occupied(id_table_)
<1> DEFINE V == {k \in 1 .. TableSize : Vacant((i + k) % TableSize)}
           run == Min(V)
<1>0. i \in Slot /\ TableSize \in Nat \ {0}  BY Sizes DEF Occupied
<1>1. V \subseteq Nat /\ V # {}
  <2>1. PICK y \in Slot : y \notin Occupied(id_table_)  BY DEF HasRoom
  <2>2. y # i  BY <2>1
  <2> DEFINE k == Off(i, y)
  <2>3. k \in Slot /\ k # 0  BY <1>0, <2>2, Offsets
  <2>4. k \in 1 .. TableSize /\ k # TableSize  BY <1>0, <2>3 DEF Slot
  <2>5. (i + k) % TableSize \in Slot /\ Off(i, (i + k) % TableSize) = Off(i, y)
    BY <1>0, <2>4, Onward
  <2>6. (i + k) % TableSize = y  BY <1>0, <2>5, Offsets
  <2> HIDE DEF k
  <2>7. k \in V  BY <2>1, <2>4, <2>6 DEF Vacant, Occupied
  <2> QED  BY <2>7
<1>2. run \in V /\ \A k \in V : run <= k  BY <1>1, MinNat
<1> HIDE DEF run
<1>3. (i + run) % TableSize \in Slot \ Occupied(id_table_)
  BY <1>0, <1>2, Onward DEF Vacant, Occupied
<1>4. run \in 1 .. TableSize /\ run # TableSize  BY <1>0, <1>2, <1>3, Onward
<1>5. ASSUME NEW k \in 1 .. run - 1 PROVE (i + k) % TableSize \in Occupied(id_table_)
  <2>1. k \in 1 .. TableSize /\ ~(run <= k)  BY <1>0, <1>4
  <2>2. k \notin V  BY <1>2, <2>1
  <2> QED  BY <1>0, <2>1, <2>2, Onward DEF Vacant, Occupied
<1>6. Off(i, (i + run) % TableSize) = run  BY <1>0, <1>4, Onward
<1>7. RunLength(i) = run  BY DEF RunLength, run
<1> HIDE DEF V
<1> QED  BY <1>0, <1>3, <1>4, <1>5, <1>6, <1>7 DEF IsRun

\* erase_id takes out the entry of one id, and no probe chain is broken by it.
LEMMA EraseKeeps ==
  ASSUME TableOK(id_table_), HasRoom(id_table_), NEW x \in Occupied(id_table_)
  PROVE  LET t == EraseId(id_table_[x].id)
         IN /\ TableOK(t)
            /\ \E g \in Occupied(id_table_) : Occupied(t) = Occupied(id_table_) \ {g}
            /\ {t[y] : y \in Occupied(t)} = {id_table_[y] : y \in Occupied(id_table_) \ {x}}
<1> DEFINE id == id_table_[x].id
           run == RunLength(x)
           J(k) == (x + k) % TableSize
           Start == [gap |-> x, table |-> id_table_]
           States == [gap : Slot, table : [Slot -> Entry]]
           IsShift(f) == f = [k \in 0 .. run - 1 |->
                                IF k = 0 THEN Start ELSE Shifted(f[k - 1], J(k))]
           shift == CHOOSE f : IsShift(f)
           F == [p \in (1 .. run - 1) \X States |-> Shifted(p[2], J(p[1]))]
<1>1. Probe(id, Probes(id)) = x  BY FindStored
<1>2. EraseId(id) = [shift[run - 1].table EXCEPT ![shift[run - 1].gap] = NoEntry]
  BY <1>1 DEF EraseId, Shifted, RunLength
<1>3. /\ run \in 1 .. TableSize - 1
      /\ IsRun(x, J(run), run)
      /\ \A k \in 1 .. run - 1 : J(k) \in Occupied(id_table_)
  BY RunIs
<1>0. TableSize \in Nat \ {0} /\ run \in Nat /\ run - 1 \in Nat /\ x \in Slot
  BY <1>3, Sizes DEF Occupied
<1>4. \A k \in 1 .. run - 1 : Off(x, J(k)) = k
  <2> TAKE k \in 1 .. run - 1
  <2>1. k \in 1 .. TableSize /\ k # TableSize  BY <1>0, <1>3
  <2> QED  BY <1>0, <2>1, Onward
<1> HIDE DEF run, J
<1>5. Start \in States  BY <1>0 DEF TableOK
<1>6. ASSUME NEW k \in 1 .. run - 1, NEW s \in States PROVE Shifted(s, J(k)) \in States
  <2>1. J(k) \in Slot  BY <1>3 DEF Occupied
  <2> QED  BY <2>1 DEF Shifted
<1>7. \A k \in 1 .. run - 1, s \in States : F[<<k, s>>] = Shifted(s, J(k))  OBVIOUS
<1> HIDE DEF States, Start, F
<1>8. IsShift(shift)
  <2> DEFINE n == run - 1
  <2>1. PICK f \in [0 .. n -> States] : IsRecursive(f, n, Start, F)
    <3>1. \A k \in 1 .. n, s \in States : F[<<k, s>>] \in States  BY <1>6, <1>7
    <3>2. n \in Nat  BY <1>0
    <3> HIDE DEF n
    <3> QED  BY <1>5, <3>1, <3>2, RecursionExists
  <2>2. ASSUME NEW k \in 0 .. n, k # 0
        PROVE  F[<<k, f[k - 1]>>] = Shifted(f[k - 1], J(k))
    <3>1. k \in 1 .. n /\ k - 1 \in 0 .. n  BY <1>0, <2>2
    <3>2. f[k - 1] \in States  BY <3>1
    <3> QED  BY <1>7, <3>1, <3>2
  <2>3. IsShift(f)  BY <2>1, <2>2 DEF IsRecursive
  <2> QED  BY <2>3
<1> HIDE DEF shift
<1>9. \A k \in 0 .. run - 1 : ShiftInv(shift[k], x, k, run)
  <2> DEFINE Bad == {k \in 0 .. run - 1 : ~ShiftInv(shift[k], x, k, run)}
  <2> SUFFICES ASSUME Bad # {} PROVE FALSE  OBVIOUS
  <2>1. PICK m \in Bad : \A k \in Bad : m <= k
    <3>1. Bad \subseteq Nat  OBVIOUS
    <3> HIDE DEF Bad
    <3> QED  BY <3>1, LeastNat
  <2>2. m \in 0 .. run - 1 /\ ~ShiftInv(shift[m], x, m, run)  OBVIOUS
  <2>3. CASE m = 0
    <3>1. shift[0] = Start  BY <1>8, <2>2, <2>3
    <3>2. ShiftInv(Start, x, 0, run)  BY <1>3, ShiftStart DEF Start
    <3> QED  BY <2>2, <2>3, <3>1, <3>2
  <2>4. CASE m # 0
    <3>1. m \in 1 .. run - 1 /\ m - 1 \in 0 .. run - 1 /\ ~(m <= m - 1)  BY <1>0, <2>2, <2>4
    <3>2. m - 1 \notin Bad
      <4> HIDE DEF Bad
      <4> QED  BY <2>1, <3>1
    <3>3. ShiftInv(shift[m - 1], x, m - 1, run)  BY <3>1, <3>2
    <3>4. shift[m] = Shifted(shift[m - 1], J(m))  BY <1>8, <2>2, <2>4
    <3>5. ShiftInv(Shifted(shift[m - 1], J(m)), x, m, run)
      BY <1>3, <1>4, <3>1, <3>3, ShiftStep
    <3> QED  BY <2>2, <3>4, <3>5
  <2> QED  BY <2>3, <2>4
<1> DEFINE last == shift[run - 1]
           t == [last.table EXCEPT ![last.gap] = NoEntry]
           occ == Occupied(id_table_)
<1>10. ShiftInv(last, x, run - 1, run)  BY <1>0, <1>9
<1> HIDE DEF last
<1>11. /\ last.gap \in occ /\ last.gap \in Slot /\ last.table \in [Slot -> Entry] /\ Occupied(last.table) = occ
       /\ {last.table[y] : y \in occ \ {last.gap}} = {id_table_[y] : y \in occ \ {x}}
       /\ \A y, z \in occ \ {last.gap} : last.table[y].id = last.table[z].id => y = z
       /\ \A y \in occ : last.table[y].id \in OrderIds
       /\ \A y \in occ \ {last.gap}, z \in Slot :
            Off(Home[last.table[y].id], z) < Off(Home[last.table[y].id], y)
              => z \in occ /\ (z = last.gap => run - 1 < Off(x, y) /\ Off(x, y) < run)
  BY <1>10 DEF ShiftInv
<1>12. \A y \in occ : ~(run - 1 < Off(x, y) /\ Off(x, y) < run)
  <2> TAKE y \in occ
  <2>1. Off(x, y) \in Nat  BY <1>0, Offsets, Sizes DEF Occupied
  <2> QED  BY <1>0, <2>1
<1>13. /\ t[last.gap] = NoEntry /\ t \in [Slot -> Entry]
       /\ \A y \in Slot : y # last.gap => t[y] = last.table[y]
  BY <1>11 DEF NoEntry, Entry
<1>14. t = EraseId(id)  BY <1>2 DEF last
<1> HIDE DEF t, id
<1>15. Occupied(t) = occ \ {last.gap}
  BY <1>11, <1>13 DEF Occupied, NoEntry
<1>16. TableOK(t)
  <2>1. \A y \in Occupied(t) : t[y].id \in OrderIds /\ t[y] = last.table[y]
    BY <1>11, <1>13, <1>15 DEF Occupied
  <2>2. OnceEach(t)  BY <1>11, <1>15, <2>1 DEF OnceEach
  <2>3. Chained(t)
    <3> SUFFICES ASSUME NEW y \in Occupied(t), NEW z \in Slot,
                        Off(Home[t[y].id], z) < Off(Home[t[y].id], y)
                 PROVE  z \in Occupied(t)
      BY DEF Chained
    <3>1. y \in occ \ {last.gap} /\ t[y] = last.table[y]  BY <1>15, <2>1
    <3>2. z \in occ /\ z # last.gap  BY <1>11, <1>12, <3>1
    <3> QED  BY <1>15, <3>2
  <2> QED  BY <1>13, <2>1, <2>2, <2>3 DEF TableOK
<1>17. {t[y] : y \in Occupied(t)} = {id_table_[y] : y \in occ \ {x}}
  <2>1. \A y \in occ \ {last.gap} : t[y] = last.table[y]  BY <1>13 DEF Occupied
  <2>2. {t[y] : y \in occ \ {last.gap}} = {last.table[y] : y \in occ \ {last.gap}}
    BY <2>1
  <2>3. {t[y] : y \in Occupied(t)} = {t[y] : y \in occ \ {last.gap}}  BY <1>15
  <2> HIDE DEF occ
  <2> QED  BY <1>11, <2>2, <2>3
<1>18. EraseId(id_table_[x].id) = t  BY <1>14 DEF id
<1>19. \E g \in occ : Occupied(t) = occ \ {g}  BY <1>11, <1>15
<1> QED  BY <1>16, <1>17, <1>18, <1>19
------------------------------------------------------------------------------
(* The slab and the table *)

\* c numbers the free slots in the order in which the list links them.
FreeChain(c, n) ==
  /\ c \in [0 .. n -> Handle \cup {NoHandle}]
  /\ c[0] = free_head_ /\ c[n] = NoHandle
  /\ \A k \in 0 .. n - 1 : c[k] \in Handle /\ c[k + 1] = orders_[c[k]].next_free
  /\ \A j, k \in 0 .. n - 1 : c[j] = c[k] => j = k
  /\ {c[k] : k \in 0 .. n - 1} = Handle \ LiveHandles
SlabListed == \E c : FreeChain(c, MaxOrders - live_)

OrdersSane ==
  /\ \A h \in LiveHandles : /\ orders_[h].id \in OrderIds
                            /\ \E n \in AddQty : orders_[h].qty <= n
  /\ \A g, h \in LiveHandles : orders_[g].id = orders_[h].id => g = h
TableMatches ==
  /\ \A x \in Occupied(id_table_) : /\ id_table_[x].handle \in LiveHandles
                                    /\ orders_[id_table_[x].handle].id = id_table_[x].id
  /\ \A h \in LiveHandles : \E x \in Occupied(id_table_) : id_table_[x].handle = h
Counted == Cardinality(LiveHandles) = live_ /\ Cardinality(Occupied(id_table_)) = live_

StoreTypes ==
  /\ orders_ \in [Handle -> [id : OrderIds \cup {0}, level : Level, qty : Quantity,
                             side : Side, next_free : Handle \cup {NoHandle}]]
  /\ free_head_ \in Handle \cup {NoHandle}
  /\ live_ \in 0 .. MaxOrders

StoreInv == /\ StoreTypes /\ SlabListed /\ OrdersSane
            /\ TableOK(id_table_) /\ TableMatches /\ Counted

LEMMA Handles ==
  /\ MaxOrders \in Nat \ {0} /\ MaxOrders < TableSize /\ Levels \in Nat \ {0} /\ QtyWord \in Nat \ {0}
  /\ NoHandle \notin Handle /\ Handle \subseteq Nat /\ IsFiniteSet(Handle)
  /\ Cardinality(Handle) = MaxOrders
  /\ AddQty \subseteq 1 .. QtyWord - 1 /\ ReduceQty \subseteq 0 .. QtyWord - 1
  /\ \A S \in SUBSET Handle : IsFiniteSet(S) /\ Cardinality(S) \in Nat
<1>1. MaxOrders \in Nat \ {0} /\ MaxOrders < TableSize /\ Levels \in Nat \ {0} /\ QtyWord \in Nat \ {0}
      /\ AddQty \subseteq 1 .. QtyWord - 1 /\ ReduceQty \subseteq 0 .. QtyWord - 1
  BY BookAssumption
<1>2. NoHandle \notin Handle /\ Handle \subseteq Nat  BY <1>1 DEF NoHandle, Handle
<1>3. IsFiniteSet(Handle) /\ Cardinality(Handle) = MaxOrders
  <2>1. IsFiniteSet(Handle) /\ Cardinality(Handle) = IF 0 <= MaxOrders - 1 THEN (MaxOrders - 1) - 0 + 1 ELSE 0
    BY <1>1, FS_Interval DEF Handle
  <2> QED  BY <1>1, <2>1
<1>4. \A S \in SUBSET Handle : IsFiniteSet(S) /\ Cardinality(S) \in Nat
  BY <1>3, FS_Subset, FS_CardinalityType
<1> QED  BY <1>1, <1>2, <1>3, <1>4

LEMMA Room == TableOK(id_table_) /\ Counted /\ live_ \in 0 .. MaxOrders => HasRoom(id_table_)
<1> SUFFICES ASSUME Counted, live_ \in 0 .. MaxOrders, ~HasRoom(id_table_) PROVE FALSE  OBVIOUS
<1>1. Occupied(id_table_) = Slot  BY DEF HasRoom, Occupied
<1>2. Cardinality(Slot) = TableSize
  <2>1. Cardinality(Slot) = IF 0 <= TableSize - 1 THEN (TableSize - 1) - 0 + 1 ELSE 0
    BY Sizes, FS_Interval DEF Slot
  <2> QED  BY <2>1, Sizes
<1> QED  BY <1>1, <1>2, Handles, Sizes DEF Counted

\* The table finds every live order under its id, and nothing else.
LEMMA FindIs ==
  StoreInv => /\ \A h \in LiveHandles : FindId(orders_[h].id) = h
              /\ \A id \in OrderIds : FindId(id) = NoHandle \/ FindId(id) \in LiveHandles
              /\ \A id \in OrderIds : FindId(id) # NoHandle =>
                   /\ orders_[FindId(id)].id = id
                   /\ \E x \in Occupied(id_table_) :
                        id_table_[x].id = id /\ id_table_[x].handle = FindId(id)
<1> SUFFICES ASSUME StoreInv
             PROVE  /\ \A h \in LiveHandles : FindId(orders_[h].id) = h
                    /\ \A id \in OrderIds : FindId(id) = NoHandle \/ FindId(id) \in LiveHandles
                    /\ \A id \in OrderIds : FindId(id) # NoHandle =>
                         /\ orders_[FindId(id)].id = id
                         /\ \E x \in Occupied(id_table_) :
                              id_table_[x].id = id /\ id_table_[x].handle = FindId(id)
  OBVIOUS
<1>1. TableOK(id_table_) /\ TableMatches  BY DEF StoreInv
<1>2. HasRoom(id_table_)  BY Room DEF StoreInv, StoreTypes
<1>3. ASSUME NEW h \in LiveHandles PROVE FindId(orders_[h].id) = h
  <2>1. PICK x \in Occupied(id_table_) : id_table_[x].handle = h  BY <1>1 DEF TableMatches
  <2>2. orders_[h].id = id_table_[x].id  BY <1>1, <2>1 DEF TableMatches
  <2> QED  BY <1>1, <2>1, <2>2, FindStored
<1>4. ASSUME NEW id \in OrderIds, FindId(id) # NoHandle
      PROVE  \E x \in Occupied(id_table_) :
               id_table_[x].id = id /\ id_table_[x].handle = FindId(id)
  <2>1. PICK x \in Occupied(id_table_) : id_table_[x].id = id  BY <1>1, <1>2, <1>4, FindAbsent
  <2>2. FindId(id) = id_table_[x].handle  BY <1>1, <2>1, FindStored
  <2> QED  BY <2>1, <2>2
<1> QED  BY <1>1, <1>3, <1>4 DEF TableMatches

LEMMA InitStore == Init => StoreInv
<1> SUFFICES ASSUME Init PROVE StoreInv  OBVIOUS
<1>0. /\ orders_ = [h \in Handle |-> FreeSlot(h + 1)] /\ free_head_ = 0 /\ live_ = 0
      /\ id_table_ = [i \in Slot |-> NoEntry]
  BY DEF Init, Slot
<1>1. StoreTypes
  BY <1>0, Handles DEF StoreTypes, FreeSlot, Handle, NoHandle, Level, Quantity, Side
<1>2. LiveHandles = {}  BY <1>0, Handles DEF LiveHandles, Live, FreeSlot
<1>3. Occupied(id_table_) = {}  BY <1>0 DEF Occupied, NoEntry
<1>4. Counted  BY <1>0, <1>2, <1>3, FS_EmptySet DEF Counted
<1>5. TableOK(id_table_)
  BY <1>0, <1>3 DEF TableOK, NoEntry, Entry, Chained, OnceEach
<1>6. SlabListed
  <2> DEFINE c == [k \in 0 .. MaxOrders |-> k]
  <2>1. c \in [0 .. MaxOrders -> Handle \cup {NoHandle}]  BY Handles DEF Handle, NoHandle
  <2>2. c[0] = free_head_ /\ c[MaxOrders] = NoHandle  BY <1>0, Handles DEF NoHandle
  <2>3. \A k \in 0 .. MaxOrders - 1 : c[k] \in Handle /\ c[k + 1] = orders_[c[k]].next_free
    BY <1>0, Handles DEF Handle, FreeSlot
  <2>4. \A j, k \in 0 .. MaxOrders - 1 : c[j] = c[k] => j = k  BY Handles
  <2>5. {c[k] : k \in 0 .. MaxOrders - 1} = Handle \ LiveHandles
    <3>1. \A k \in 0 .. MaxOrders - 1 : c[k] = k  BY Handles
    <3> HIDE DEF c
    <3> QED  BY <1>2, <3>1 DEF Handle
  <2>6. MaxOrders - live_ = MaxOrders  BY <1>0, Handles
  <2> HIDE DEF c
  <2>7. FreeChain(c, MaxOrders)  BY <2>1, <2>2, <2>3, <2>4, <2>5 DEF FreeChain
  <2> QED  BY <2>6, <2>7 DEF SlabListed
<1> QED  BY <1>1, <1>2, <1>3, <1>4, <1>5, <1>6 DEF StoreInv, OrdersSane, TableMatches

\* A handle given out is free, and there is room for one order more.
LEMMA FreeHead ==
  ASSUME StoreInv, free_head_ # NoHandle
  PROVE  /\ free_head_ \in Handle \ LiveHandles /\ live_ + 1 \in 0 .. MaxOrders
         /\ orders_[free_head_].next_free \in Handle \cup {NoHandle}
<1>1. PICK c : FreeChain(c, MaxOrders - live_)  BY DEF StoreInv, SlabListed
<1>2. live_ \in 0 .. MaxOrders /\ MaxOrders - live_ # 0
  BY <1>1 DEF StoreInv, StoreTypes, FreeChain
<1>3. 0 \in 0 .. MaxOrders - live_ - 1 /\ live_ + 1 \in 0 .. MaxOrders  BY <1>2, Handles
<1> QED  BY <1>1, <1>3 DEF FreeChain, StoreInv, StoreTypes

LEMMA AddStore ==
  ASSUME StoreInv, NEW id \in OrderIds \ LiveIds, NEW side \in Side, NEW price \in Prices,
         NEW n \in AddQty, OnAdd(id, side, price, n)
  PROVE  /\ StoreInv'
         /\ LiveHandles' = LiveHandles \cup {free_head_}
<1> DEFINE h == free_head_
           new == [id |-> id, level |-> IndexOf(price), qty |-> n, side |-> side, next_free |-> NoHandle]
<1>1. /\ h # NoHandle /\ IndexOf(price) # NoIndex
      /\ free_head_' = orders_[h].next_free /\ live_' = live_ + 1
      /\ orders_' = [orders_ EXCEPT ![h] = new]
      /\ id_table_' = InsertId(id, h)
  BY DEF OnAdd, Alloc
<1>2. h \in Handle \ LiveHandles /\ live_' \in 0 .. MaxOrders /\ free_head_' \in Handle \cup {NoHandle}
  BY <1>1, FreeHead
<1>3. IndexOf(price) \in Level  BY <1>1 DEF IndexOf
<1>4. n \in Quantity /\ n > 0 /\ n \in Nat  BY Handles DEF Quantity
<1>5. /\ orders_'[h] = new
      /\ \A g \in Handle : g # h => orders_'[g] = orders_[g]
  BY <1>1, <1>2 DEF StoreInv, StoreTypes
<1>6. StoreTypes'
  BY <1>1, <1>2, <1>3, <1>4 DEF StoreInv, StoreTypes
<1>7. LiveHandles' = LiveHandles \cup {h}
  BY <1>2, <1>4, <1>5 DEF LiveHandles, Live
<1>8. SlabListed'
  <2>0. live_ \in 0 .. MaxOrders  BY DEF StoreInv, StoreTypes
  <2>f. PICK F \in Nat : F = MaxOrders - live_  BY <2>0, Handles
  <2>1. PICK c : FreeChain(c, F)  BY <2>f DEF StoreInv, SlabListed
  <2>2. F # 0  BY <1>1, <2>1 DEF FreeChain
  <2>3. MaxOrders - live_' = F - 1 /\ F - 1 \in Nat  BY <1>1, <2>0, <2>f, <2>2, Handles
  <2>4. /\ c \in [0 .. F -> Handle \cup {NoHandle}] /\ c[0] = h /\ c[F] = NoHandle
        /\ \A k \in 0 .. F - 1 : c[k] \in Handle /\ c[k + 1] = orders_[c[k]].next_free
        /\ \A j, k \in 0 .. F - 1 : c[j] = c[k] => j = k
        /\ {c[k] : k \in 0 .. F - 1} = Handle \ LiveHandles
    BY <2>1 DEF FreeChain
  <2> DEFINE d == [k \in 0 .. F - 1 |-> c[k + 1]]
  <2>5. d \in [0 .. F - 1 -> Handle \cup {NoHandle}] /\ d[F - 1] = NoHandle
    BY <2>2, <2>3, <2>4
  <2>6. d[0] = free_head_'
    <3>1. 0 \in 0 .. F - 1  BY <2>2
    <3>2. c[0 + 1] = orders_[c[0]].next_free  BY <2>4, <3>1
    <3> QED  BY <1>1, <2>4, <3>1, <3>2
  <2>7. ASSUME NEW k \in 0 .. F - 1 - 1
        PROVE  d[k] \in Handle /\ d[k] # h /\ d[k + 1] = orders_'[d[k]].next_free
    <3>1. /\ k \in 0 .. F - 1 /\ k + 1 \in 0 .. F - 1 /\ 0 \in 0 .. F - 1 /\ k + 1 # 0
          /\ k + 1 + 1 \in 0 .. F
      BY <2>2
    <3>2. d[k] = c[k + 1] /\ d[k + 1] = c[k + 1 + 1]  BY <3>1
    <3>3. c[k + 1] \in Handle /\ c[k + 1] # h /\ c[k + 1 + 1] = orders_[c[k + 1]].next_free
      BY <2>4, <3>1
    <3> QED  BY <1>5, <3>2, <3>3
  <2>8. ASSUME NEW j \in 0 .. F - 1 - 1, NEW k \in 0 .. F - 1 - 1, d[j] = d[k] PROVE j = k
    <3>1. /\ j \in 0 .. F - 1 /\ k \in 0 .. F - 1
          /\ j + 1 \in 0 .. F - 1 /\ k + 1 \in 0 .. F - 1
      BY <2>2
    <3>2. c[j + 1] = c[k + 1]  BY <2>8, <3>1
    <3>3. j + 1 = k + 1  BY <2>4, <3>1, <3>2
    <3> QED  BY <3>3
  <2>9. {d[k] : k \in 0 .. F - 1 - 1} = (Handle \ LiveHandles) \ {h}
    <3>1. ASSUME NEW g \in (Handle \ LiveHandles) \ {h}
          PROVE  \E k \in 0 .. F - 1 - 1 : d[k] = g
      <4>1. PICK k \in 0 .. F - 1 : c[k] = g  BY <2>4
      <4>2. k # 0  BY <2>4, <4>1
      <4>3. k - 1 \in 0 .. F - 1 - 1 /\ k - 1 \in 0 .. F - 1 /\ (k - 1) + 1 = k  BY <2>2, <4>2
      <4>4. d[k - 1] = c[(k - 1) + 1]  BY <4>3
      <4> QED  BY <4>1, <4>3, <4>4
    <3>2. ASSUME NEW k \in 0 .. F - 1 - 1
          PROVE  d[k] \in (Handle \ LiveHandles) \ {h}
      <4>1. k \in 0 .. F - 1 /\ k + 1 \in 0 .. F - 1  BY <2>2
      <4>2. d[k] = c[k + 1] /\ c[k + 1] \in Handle \ LiveHandles  BY <2>4, <4>1
      <4> QED  BY <2>7, <4>2
    <3> HIDE DEF d
    <3> QED  BY <3>1, <3>2
  <2> HIDE DEF d
  <2>10. FreeChain(d, F - 1)'
    BY <1>7, <2>5, <2>6, <2>7, <2>8, <2>9 DEF FreeChain
  <2> QED  BY <2>3, <2>10 DEF SlabListed
<1>9. OrdersSane'
  <2>1. \A g \in LiveHandles : orders_[g].id # id  BY DEF LiveIds
  <2>2. new.id = id /\ new.qty = n /\ n <= n  BY <1>4
  <2>3. \A g \in LiveHandles : g # h /\ orders_'[g] = orders_[g]
    BY <1>2, <1>5 DEF LiveHandles
  <2> HIDE DEF new
  <2> QED  BY <1>5, <1>7, <2>1, <2>2, <2>3 DEF StoreInv, OrdersSane
<1>10. TableOK(id_table_)' /\ TableMatches' /\ Counted'
  <2>1. HasRoom(id_table_) /\ TableOK(id_table_)  BY Room DEF StoreInv, StoreTypes
  <2>2. \A x \in Occupied(id_table_) : id_table_[x].id # id
    BY DEF StoreInv, TableMatches, LiveIds
  <2>3. TableOK(id_table_')  BY <1>1, <1>2, <2>1, <2>2, InsertKeeps
  <2>4. PICK x \in Slot \ Occupied(id_table_) :
          id_table_' = [id_table_ EXCEPT ![x] = [id |-> id, handle |-> h]]
    BY <1>1, <1>2, <2>1, <2>2, InsertKeeps
  <2>5. /\ id_table_'[x] = [id |-> id, handle |-> h]
        /\ \A y \in Slot : y # x => id_table_'[y] = id_table_[y]
    BY <2>4, <2>1 DEF TableOK
  <2>6. Occupied(id_table_') = Occupied(id_table_) \cup {x}
    BY <1>1, <2>4, <2>5 DEF Occupied
  <2>7. TableMatches'
    <3>1. \A g \in LiveHandles : g # h /\ orders_'[g] = orders_[g]
      BY <1>2, <1>5 DEF LiveHandles
    <3>2. \A y \in Occupied(id_table_) : y # x /\ id_table_'[y] = id_table_[y]
      BY <2>5 DEF Occupied
    <3>3. new.id = id  OBVIOUS
    <3> HIDE DEF new
    <3> QED  BY <1>5, <1>7, <2>5, <2>6, <3>1, <3>2, <3>3 DEF StoreInv, TableMatches
  <2>8. Counted'
    <3>1. IsFiniteSet(LiveHandles) /\ IsFiniteSet(Occupied(id_table_))
      <4>1. Occupied(id_table_) \subseteq Slot  BY DEF Occupied
      <4>2. LiveHandles \subseteq Handle  BY DEF LiveHandles
      <4>3. IsFiniteSet(Occupied(id_table_))  BY <4>1, Sizes, FS_Subset
      <4> QED  BY <4>2, <4>3, Handles
    <3>2. Cardinality(LiveHandles \cup {h}) = Cardinality(LiveHandles) + 1
      BY <1>2, <3>1, FS_AddElement
    <3>3. Cardinality(Occupied(id_table_) \cup {x}) = Cardinality(Occupied(id_table_)) + 1
      BY <3>1, FS_AddElement
    <3> QED  BY <1>1, <1>7, <2>6, <3>2, <3>3 DEF StoreInv, Counted
  <2> QED  BY <2>3, <2>7, <2>8
<1> QED  BY <1>6, <1>7, <1>8, <1>9, <1>10 DEF StoreInv

\* What on_reduce takes off an order is part of it.
LEMMA TakeIs ==
  ASSUME StoreInv, NEW id \in OrderIds, NEW n \in ReduceQty, FindId(id) # NoHandle
  PROVE  LET h == FindId(id)
             take == Take(orders_[h], n)
             rest == Minus(orders_[h].qty, take)
         IN /\ h \in LiveHandles /\ h \in Handle /\ orders_[h].id = id
            /\ orders_[h].qty \in 1 .. QtyWord - 1
            /\ take \in 1 .. orders_[h].qty
            /\ rest = orders_[h].qty - take /\ rest \in 0 .. orders_[h].qty - 1
<1> DEFINE h == FindId(id)
           q == orders_[h].qty
           take == Take(orders_[h], n)
<1>1. h \in LiveHandles /\ h \in Handle /\ orders_[h].id = id
  BY FindIs DEF LiveHandles
<1> HIDE DEF h
<1>2. q \in 1 .. QtyWord - 1
  BY <1>1, Handles DEF StoreInv, StoreTypes, LiveHandles, Live, Quantity
<1>3. n \in Nat  BY Handles
<1>4. take \in 1 .. q  BY <1>2, <1>3, Handles DEF Take
<1> HIDE DEF q, take
<1>5. (q - take) % QtyWord = q - take /\ q - take \in 0 .. q - 1
  <2> DEFINE r == q - take
  <2>1. r \in 0 .. q - 1 /\ r \in 0 .. 2 * QtyWord - 1 /\ r < QtyWord
    BY <1>2, <1>4, Handles
  <2> HIDE DEF r
  <2>2. r % QtyWord = r  BY <2>1, Handles, Cyclic
  <2> QED  BY <2>1, <2>2 DEF r
<1>6. Minus(q, take) = q - take  BY <1>5 DEF Minus
<1> QED  BY <1>1, <1>2, <1>4, <1>5, <1>6 DEF h, q, take

LEMMA ShrinkStore ==
  ASSUME StoreInv, NEW id \in OrderIds, NEW n \in ReduceQty, OnReduce(id, n),
         Minus(orders_[FindId(id)].qty, Take(orders_[FindId(id)], n)) # 0
  PROVE  StoreInv' /\ LiveHandles' = LiveHandles
<1> DEFINE h == FindId(id)
           rest == Minus(orders_[h].qty, Take(orders_[h], n))
<1>1. /\ h # NoHandle /\ orders_' = [orders_ EXCEPT ![h].qty = rest]
      /\ UNCHANGED <<free_head_, live_, id_table_>>
  BY DEF OnReduce
<1>2. /\ h \in LiveHandles /\ h \in Handle /\ orders_[h].qty \in 1 .. QtyWord - 1
      /\ rest \in 1 .. orders_[h].qty - 1
  BY <1>1, TakeIs, Handles
<1> HIDE DEF h, rest
<1>3. rest \in Quantity /\ rest > 0 /\ rest < orders_[h].qty  BY <1>2, Handles DEF Quantity
<1>4. StoreTypes'  BY <1>1, <1>2, <1>3 DEF StoreInv, StoreTypes
<1>5. /\ \A g \in Handle : /\ orders_'[g].id = orders_[g].id
                           /\ orders_'[g].next_free = orders_[g].next_free
                           /\ g # h => orders_'[g] = orders_[g]
      /\ orders_'[h].qty = rest
  BY <1>1, <1>2 DEF StoreInv, StoreTypes
<1>6. LiveHandles' = LiveHandles  BY <1>2, <1>3, <1>5 DEF LiveHandles, Live
<1>7. SlabListed'
  <2>0. live_ \in 0 .. MaxOrders  BY DEF StoreInv, StoreTypes
  <2>1. PICK F \in Nat : F = MaxOrders - live_  BY <2>0, Handles
  <2>2. PICK c : FreeChain(c, F)  BY <2>1 DEF StoreInv, SlabListed
  <2>3. FreeChain(c, F)'  BY <1>1, <1>5, <1>6, <2>2 DEF FreeChain
  <2>4. MaxOrders - live_' = F  BY <1>1, <2>1
  <2> QED  BY <2>3, <2>4 DEF SlabListed
<1>8. OrdersSane'
  <2>1. ASSUME NEW g \in LiveHandles, NEW m \in AddQty, orders_[g].qty <= m
        PROVE  orders_'[g].qty <= m
    <3>1. g \in Handle /\ m \in Nat  BY Handles DEF LiveHandles
    <3>2. CASE g = h  BY <1>2, <1>3, <1>5, <2>1, <3>1, <3>2, Handles
    <3>3. CASE g # h  BY <1>5, <2>1, <3>1, <3>3
    <3> QED  BY <3>2, <3>3
  <2>2. LiveHandles \subseteq Handle  BY DEF LiveHandles
  <2> QED  BY <1>5, <1>6, <2>1, <2>2 DEF StoreInv, OrdersSane
<1>9. TableMatches'
  <2>1. LiveHandles \subseteq Handle  BY DEF LiveHandles
  <2> QED  BY <1>1, <1>5, <1>6, <2>1 DEF StoreInv, TableMatches
<1>10. Counted' /\ TableOK(id_table_)'  BY <1>1, <1>6 DEF StoreInv, Counted
<1> QED  BY <1>4, <1>6, <1>7, <1>8, <1>9, <1>10 DEF StoreInv

LEMMA ReleaseStore ==
  ASSUME StoreInv, NEW id \in OrderIds, NEW n \in ReduceQty, OnReduce(id, n),
         Minus(orders_[FindId(id)].qty, Take(orders_[FindId(id)], n)) = 0
  PROVE  StoreInv' /\ LiveHandles' = LiveHandles \ {FindId(id)}
<1> DEFINE h == FindId(id)
<1>1. /\ h # NoHandle /\ orders_' = [orders_ EXCEPT ![h] = FreeSlot(free_head_)]
      /\ free_head_' = h /\ live_' = live_ - 1 /\ id_table_' = EraseId(id)
  BY DEF OnReduce, Release
<1>2. h \in LiveHandles /\ h \in Handle /\ orders_[h].id = id
  BY <1>1, TakeIs
<1>3. PICK x \in Occupied(id_table_) : id_table_[x].id = id /\ id_table_[x].handle = h
  BY <1>1, FindIs
<1> HIDE DEF h
<1>4. /\ orders_'[h] = FreeSlot(free_head_)
      /\ \A g \in Handle : g # h => orders_'[g] = orders_[g]
  BY <1>1, <1>2 DEF StoreInv, StoreTypes
<1>5. LiveHandles' = LiveHandles \ {h}
  BY <1>4 DEF LiveHandles, Live, FreeSlot
<1>6. /\ IsFiniteSet(LiveHandles) /\ IsFiniteSet(Occupied(id_table_)) /\ live_ \in 0 .. MaxOrders
      /\ Cardinality(LiveHandles \ {h}) = live_ - 1 /\ live_ - 1 \in Nat
  <2>1. Occupied(id_table_) \subseteq Slot  BY DEF Occupied
  <2>2. LiveHandles \subseteq Handle  BY DEF LiveHandles
  <2>3. IsFiniteSet(Occupied(id_table_))  BY <2>1, Sizes, FS_Subset
  <2>4. IsFiniteSet(LiveHandles) /\ LiveHandles \ {h} \in SUBSET Handle  BY <2>2, Handles
  <2>5. Cardinality(LiveHandles \ {h}) = Cardinality(LiveHandles) - 1  BY <1>2, <2>4, FS_RemoveElement
  <2> QED  BY <2>3, <2>4, <2>5, Handles DEF StoreInv, Counted, StoreTypes
<1>7. StoreTypes'
  <2>1. FreeSlot(free_head_) \in [id : OrderIds \cup {0}, level : Level, qty : Quantity,
                                 side : Side, next_free : Handle \cup {NoHandle}]
    BY Handles DEF StoreInv, StoreTypes, FreeSlot, Level, Quantity, Side
  <2>2. live_ - 1 \in 0 .. MaxOrders  BY <1>6, Handles
  <2> QED  BY <1>1, <1>2, <2>1, <2>2 DEF StoreInv, StoreTypes
<1>8. SlabListed'
  <2>f. PICK F \in Nat : F = MaxOrders - live_  BY <1>6, Handles
  <2>1. PICK c : FreeChain(c, F)  BY <2>f DEF StoreInv, SlabListed
  <2>3. MaxOrders - live_' = F + 1  BY <1>1, <1>6, <2>f, Handles
  <2>4. /\ c \in [0 .. F -> Handle \cup {NoHandle}] /\ c[0] = free_head_ /\ c[F] = NoHandle
        /\ \A k \in 0 .. F - 1 : c[k] \in Handle /\ c[k + 1] = orders_[c[k]].next_free
        /\ \A j, k \in 0 .. F - 1 : c[j] = c[k] => j = k
        /\ {c[k] : k \in 0 .. F - 1} = Handle \ LiveHandles
    BY <2>1 DEF FreeChain
  <2>d. PICK d : d = [k \in 0 .. F + 1 |-> IF k = 0 THEN h ELSE c[k - 1]]  OBVIOUS
  <2>5. d \in [0 .. F + 1 -> Handle \cup {NoHandle}] /\ d[F + 1] = NoHandle /\ d[0] = h
    <3>1. \A k \in 0 .. F + 1 : k # 0 => k - 1 \in 0 .. F  OBVIOUS
    <3> QED  BY <1>2, <2>4, <2>d, <3>1
  <2>6. \A k \in 0 .. F - 1 : c[k] \in Handle /\ c[k] # h  BY <1>2, <2>4
  <2>7. ASSUME NEW k \in 0 .. F + 1 - 1
        PROVE  d[k] \in Handle /\ d[k + 1] = orders_'[d[k]].next_free
    <3>1. CASE k = 0
      <4>1. d[0] = h /\ d[0 + 1] = c[0]  BY <2>d
      <4>2. orders_'[h].next_free = free_head_  BY <1>4 DEF FreeSlot
      <4> QED  BY <1>2, <2>4, <3>1, <4>1, <4>2
    <3>2. CASE k # 0
      <4>1. k - 1 \in 0 .. F - 1 /\ k \in 0 .. F + 1 /\ k + 1 \in 0 .. F + 1 /\ k + 1 # 0
            /\ (k - 1) + 1 = k /\ (k + 1) - 1 = k
        BY <3>2
      <4>2. d[k] = c[k - 1] /\ d[k + 1] = c[k]  BY <2>d, <3>2, <4>1
      <4>3. c[(k - 1) + 1] = orders_[c[k - 1]].next_free  BY <2>4, <4>1
      <4> QED  BY <1>4, <2>6, <4>1, <4>2, <4>3
    <3> QED  BY <3>1, <3>2
  <2>8. ASSUME NEW j \in 0 .. F + 1 - 1, NEW k \in 0 .. F + 1 - 1, d[j] = d[k] PROVE j = k
    <3>1. \A i \in 0 .. F + 1 - 1 : i # 0 => i - 1 \in 0 .. F - 1 /\ d[i] = c[i - 1]  BY <2>d
    <3>2. CASE j = 0 \/ k = 0  BY <2>5, <2>6, <2>8, <3>1, <3>2
    <3>3. CASE j # 0 /\ k # 0
      <4>1. j - 1 = k - 1
        <5>1. j - 1 \in 0 .. F - 1 /\ k - 1 \in 0 .. F - 1 /\ c[j - 1] = c[k - 1]
          BY <2>8, <3>1, <3>3
        <5> QED  BY <2>4, <5>1
      <4> QED  BY <4>1
    <3> QED  BY <3>2, <3>3
  <2>9. {d[k] : k \in 0 .. F + 1 - 1} = (Handle \ LiveHandles) \cup {h}
    <3>1. ASSUME NEW g \in (Handle \ LiveHandles) \cup {h}
          PROVE  \E k \in 0 .. F + 1 - 1 : d[k] = g
      <4>1. CASE g = h
        <5>1. 0 \in 0 .. F + 1 - 1  OBVIOUS
        <5> QED  BY <2>5, <4>1, <5>1
      <4>2. CASE g # h
        <5>1. PICK k \in 0 .. F - 1 : c[k] = g  BY <2>4, <4>2
        <5>2. k + 1 \in 0 .. F + 1 - 1 /\ k + 1 # 0 /\ (k + 1) - 1 = k  OBVIOUS
        <5>3. d[k + 1] = c[(k + 1) - 1]  BY <2>d, <5>2
        <5> QED  BY <5>1, <5>2, <5>3
      <4> QED  BY <4>1, <4>2
    <3>2. ASSUME NEW k \in 0 .. F + 1 - 1
          PROVE  d[k] \in (Handle \ LiveHandles) \cup {h}
      <4>1. CASE k = 0  BY <2>5, <4>1
      <4>2. CASE k # 0
        <5>1. k - 1 \in 0 .. F - 1 /\ d[k] = c[k - 1]  BY <2>d, <4>2
        <5> QED  BY <2>4, <5>1
      <4> QED  BY <4>1, <4>2
    <3> QED  BY <3>1, <3>2
  <2>10. (Handle \ LiveHandles) \cup {h} = Handle \ LiveHandles'  BY <1>2, <1>5
  <2>11. FreeChain(d, F + 1)'
    <3>1. d[0] = free_head_'  BY <1>1, <2>5
    <3>2. {d[k] : k \in 0 .. F + 1 - 1} = Handle \ LiveHandles'  BY <2>9, <2>10
    <3> QED  BY <2>5, <2>7, <2>8, <3>1, <3>2 DEF FreeChain
  <2> QED  BY <2>3, <2>11 DEF SlabListed
<1>9. OrdersSane'
  <2>1. \A g \in LiveHandles \ {h} : orders_'[g] = orders_[g]  BY <1>4 DEF LiveHandles
  <2> QED  BY <1>5, <2>1 DEF StoreInv, OrdersSane
<1>10. TableOK(id_table_)' /\ TableMatches' /\ Counted'
  <2>1. HasRoom(id_table_) /\ TableOK(id_table_)  BY Room DEF StoreInv, StoreTypes
  <2> DEFINE t == id_table_'
             occ == Occupied(id_table_)
  <2>2. /\ TableOK(t)
        /\ \E g \in occ : Occupied(t) = occ \ {g}
        /\ {t[y] : y \in Occupied(t)} = {id_table_[y] : y \in occ \ {x}}
    BY <1>1, <1>3, <2>1, EraseKeeps
  <2> HIDE DEF t
  <2>3. ASSUME NEW y \in Occupied(t)
        PROVE  /\ t[y].handle \in LiveHandles \ {h}
               /\ orders_'[t[y].handle].id = t[y].id
    <3>1. PICK z \in occ \ {x} : t[y] = id_table_[z]  BY <2>2
    <3>2. /\ id_table_[z].handle \in LiveHandles /\ orders_[id_table_[z].handle].id = id_table_[z].id
          /\ id_table_[z].id # id_table_[x].id
      BY <2>1 DEF StoreInv, TableMatches, TableOK, OnceEach
    <3>3. id_table_[z].handle # h  BY <1>2, <1>3, <3>2
    <3> QED  BY <1>4, <3>1, <3>2, <3>3 DEF LiveHandles
  <2>4. ASSUME NEW g \in LiveHandles \ {h} PROVE \E y \in Occupied(t) : t[y].handle = g
    <3>1. PICK z \in occ : id_table_[z].handle = g  BY DEF StoreInv, TableMatches
    <3>2. z # x  BY <1>3, <3>1
    <3>3. PICK y \in Occupied(t) : t[y] = id_table_[z]  BY <2>2, <3>2
    <3> QED  BY <3>1, <3>3
  <2>5. TableMatches'  BY <1>5, <2>3, <2>4 DEF TableMatches, t
  <2>6. Counted'
    <3>1. PICK g \in occ : Occupied(t) = occ \ {g}  BY <2>2
    <3>2. Cardinality(occ \ {g}) = Cardinality(occ) - 1  BY <1>6, FS_RemoveElement
    <3>3. Cardinality(Occupied(t)) = live_ - 1  BY <3>1, <3>2 DEF StoreInv, Counted
    <3> QED  BY <1>1, <1>5, <1>6, <3>3 DEF Counted, t
  <2> QED  BY <2>2, <2>5, <2>6 DEF t
<1> QED  BY <1>5, <1>7, <1>8, <1>9, <1>10 DEF StoreInv, h

LEMMA NextStore == StoreInv /\ [Next]_vars => StoreInv'
<1> SUFFICES ASSUME StoreInv, [Next]_vars PROVE StoreInv'  OBVIOUS
<1>1. CASE UNCHANGED vars
  <2> USE <1>1 DEF vars, LiveHandles, Live
  <2>1. StoreTypes'  BY DEF StoreInv, StoreTypes
  <2>2. SlabListed'
    <3>1. PICK c, n : n = MaxOrders - live_ /\ FreeChain(c, n)  BY DEF StoreInv, SlabListed
    <3>2. LiveHandles' = LiveHandles  OBVIOUS
    <3>3. FreeChain(c, n)'  BY <3>1, <3>2 DEF FreeChain
    <3>4. n = MaxOrders - live_'  BY <3>1
    <3> QED  BY <3>3, <3>4 DEF SlabListed
  <2>3. OrdersSane'  BY DEF StoreInv, OrdersSane
  <2>4. TableMatches' /\ Counted' /\ TableOK(id_table_)'  BY DEF StoreInv, TableMatches, Counted
  <2> QED  BY <2>1, <2>2, <2>3, <2>4 DEF StoreInv
<1>2. CASE \E price \in Prices : IgnoreAdd(price)  BY <1>1, <1>2 DEF IgnoreAdd
<1>3. CASE \E id \in OrderIds : IgnoreReduce(id)  BY <1>1, <1>3 DEF IgnoreReduce
<1>4. ASSUME NEW id \in OrderIds \ LiveIds, NEW side \in Side, NEW price \in Prices,
             NEW n \in AddQty, OnAdd(id, side, price, n)
      PROVE  StoreInv'
  BY <1>4, AddStore
<1>5. ASSUME NEW id \in OrderIds, NEW n \in ReduceQty, OnReduce(id, n) PROVE StoreInv'
  BY <1>5, ShrinkStore, ReleaseStore
<1> QED  BY <1>1, <1>2, <1>3, <1>4, <1>5 DEF Next

LEMMA AlwaysStore == Spec => []StoreInv
BY InitStore, NextStore, PTL DEF Spec

LEMMA StoreIdsResolve == StoreInv => IdsResolve
<1> SUFFICES ASSUME StoreInv PROVE IdsResolve  OBVIOUS
<1>1. {i \in 0 .. TableSize - 1 : ~Vacant(i)} = Occupied(id_table_)
  BY DEF Vacant, Occupied, Slot
<1> QED  BY <1>1, FindIs DEF IdsResolve, StoreInv, Counted

\* The walk along next_free meets the free slots in the order of their numbers.
LEMMA StoreSlabAccounted == StoreInv => SlabAccounted
<1> SUFFICES ASSUME StoreInv PROVE SlabAccounted  OBVIOUS
<1>0. live_ \in 0 .. MaxOrders /\ MaxOrders \in Nat  BY Handles DEF StoreInv, StoreTypes
<1>1. PICK F \in Nat : F = MaxOrders - live_  BY <1>0
<1>2. PICK c : FreeChain(c, F)  BY <1>1 DEF StoreInv, SlabListed
<1>3. /\ c \in [0 .. F -> Handle \cup {NoHandle}] /\ c[0] = free_head_ /\ c[F] = NoHandle
      /\ \A k \in 0 .. F - 1 : c[k] \in Handle /\ c[k + 1] = orders_[c[k]].next_free
      /\ {c[k] : k \in 0 .. F - 1} = Handle \ LiveHandles
  BY <1>2 DEF FreeChain
<1>f. F <= MaxOrders  BY <1>0, <1>1
<1> DEFINE IsChain(f) == f = [k \in 0 .. MaxOrders |->
                                IF k = 0 THEN free_head_
                                ELSE IF f[k - 1] = NoHandle THEN NoHandle
                                     ELSE orders_[f[k - 1]].next_free]
           chain == CHOOSE f : IsChain(f)
           g == [k \in 0 .. MaxOrders |-> IF k <= F THEN c[k] ELSE NoHandle]
<1>4. IsChain(g)
  <2> SUFFICES ASSUME NEW k \in 0 .. MaxOrders
               PROVE  g[k] = IF k = 0 THEN free_head_
                             ELSE IF g[k - 1] = NoHandle THEN NoHandle
                                  ELSE orders_[g[k - 1]].next_free
    OBVIOUS
  <2>1. CASE k = 0  BY <1>3, <2>1
  <2>2. CASE k # 0 /\ k <= F
    <3>1. k - 1 \in 0 .. F - 1 /\ k - 1 \in 0 .. MaxOrders /\ (k - 1) + 1 = k /\ k - 1 <= F
      BY <1>0, <1>f, <2>2
    <3>2. g[k - 1] = c[k - 1] /\ g[k] = c[k]  BY <2>2, <3>1
    <3>3. c[k - 1] \in Handle /\ c[(k - 1) + 1] = orders_[c[k - 1]].next_free  BY <1>3, <3>1
    <3> QED  BY <2>2, <3>1, <3>2, <3>3, Handles
  <2>3. CASE k # 0 /\ ~(k <= F)
    <3>1. k - 1 \in 0 .. MaxOrders /\ (k - 1 = F \/ ~(k - 1 <= F))  BY <1>0, <2>3
    <3>2. g[k - 1] = NoHandle /\ g[k] = NoHandle  BY <1>3, <2>3, <3>1
    <3> QED  BY <2>3, <3>2
  <2> QED  BY <2>1, <2>2, <2>3
<1>5. IsChain(chain)  BY <1>4
<1> HIDE DEF chain, g
<1>6. \A k \in 0 .. F : chain[k] = c[k]
  <2> DEFINE Bad == {k \in 0 .. F : chain[k] # c[k]}
  <2> SUFFICES ASSUME Bad # {} PROVE FALSE  OBVIOUS
  <2>1. PICK m \in Bad : \A k \in Bad : m <= k
    <3>1. Bad \subseteq Nat  OBVIOUS
    <3> HIDE DEF Bad
    <3> QED  BY <3>1, LeastNat
  <2>2. m \in 0 .. F /\ m \in 0 .. MaxOrders /\ chain[m] # c[m]  BY <1>0, <1>f
  <2>3. m # 0  BY <1>3, <1>5, <2>2
  <2>4. m - 1 \in 0 .. F /\ m - 1 \in 0 .. F - 1 /\ (m - 1) + 1 = m /\ ~(m <= m - 1)
    BY <2>2, <2>3
  <2>5. m - 1 \notin Bad
    <3> HIDE DEF Bad
    <3> QED  BY <2>1, <2>4
  <2>6. chain[m - 1] = c[m - 1]  BY <2>4, <2>5
  <2>7. c[m - 1] \in Handle /\ c[(m - 1) + 1] = orders_[c[m - 1]].next_free  BY <1>3, <2>4
  <2>8. chain[m] = IF chain[m - 1] = NoHandle THEN NoHandle ELSE orders_[chain[m - 1]].next_free
    BY <1>5, <2>2, <2>3
  <2> QED  BY <2>2, <2>4, <2>6, <2>7, <2>8, Handles
<1>7. FreeSlots = [k \in 1 .. MaxOrders - live_ |-> chain[k - 1]]  BY DEF FreeSlots, chain
<1>8. {FreeSlots[k] : k \in DOMAIN FreeSlots} = Handle \ LiveHandles
  <2>1. FreeSlots = [k \in 1 .. F |-> chain[k - 1]]  BY <1>1, <1>7
  <2>2. DOMAIN FreeSlots = 1 .. F  BY <2>1
  <2>3. \A k \in 1 .. F : FreeSlots[k] = c[k - 1] /\ k - 1 \in 0 .. F - 1  BY <1>6, <2>1
  <2>4. \A k \in 0 .. F - 1 : k + 1 \in 1 .. F /\ FreeSlots[k + 1] = c[k]
    <3> TAKE k \in 0 .. F - 1
    <3>1. k + 1 \in 1 .. F /\ (k + 1) - 1 = k  OBVIOUS
    <3>2. FreeSlots[k + 1] = c[(k + 1) - 1]  BY <2>3, <3>1
    <3> QED  BY <3>1, <3>2
  <2>5. {FreeSlots[k] : k \in 1 .. F} = {c[k] : k \in 0 .. F - 1}  BY <2>3, <2>4
  <2> QED  BY <1>3, <2>2, <2>5
<1>9. live_ = MaxOrders => free_head_ = NoHandle
  <2> SUFFICES ASSUME live_ = MaxOrders PROVE free_head_ = NoHandle  OBVIOUS
  <2>1. F = 0  BY <1>0, <1>1
  <2> QED  BY <1>3, <2>1
<1> QED  BY <1>8, <1>9 DEF SlabAccounted, StoreInv, Counted

\* Every live order is found under its id, and the table holds nothing else: after any inserts
\* and backward-shift deletions, in a table of any size (find_id, insert_id, erase_id).
THEOREM IdsAlwaysResolve == Spec => []IdsResolve
BY AlwaysStore, StoreIdsResolve, PTL

\* The slab leaks no slot and hands none out twice (alloc, release).
THEOREM SlabAlwaysAccounted == Spec => []SlabAccounted
BY AlwaysStore, StoreSlabAccounted, PTL
------------------------------------------------------------------------------
(* What a caller sees of it, and the ladder *)

Shape(o) == [side |-> o.side, level |-> o.level, qty |-> o.qty]
RestingOK ==
  /\ Resting = [id \in DOMAIN Resting |-> Resting[id]]
  /\ DOMAIN Resting \subseteq OrderIds
  /\ \A h \in LiveHandles : /\ orders_[h].id \in DOMAIN Resting
                            /\ Resting[orders_[h].id] = Shape(orders_[h])
  /\ \A id \in DOMAIN Resting : /\ FindId(id) \in LiveHandles
                                /\ orders_[FindId(id)].id = id
                                /\ Resting[id] = Shape(orders_[FindId(id)])
                                /\ Resting[id].side \in Side /\ Resting[id].level \in Level
                                /\ Resting[id].qty \in 1 .. QtyWord - 1
                                /\ \E n \in AddQty : Resting[id].qty <= n
  /\ IsFiniteSet(DOMAIN Resting) /\ Cardinality(DOMAIN Resting) = live_

LEMMA RestingIs == StoreInv => RestingOK
<1> SUFFICES ASSUME StoreInv PROVE RestingOK  OBVIOUS
<1>1. DOMAIN Resting = Found /\ Resting = [id \in DOMAIN Resting |-> Resting[id]]
  BY DEF Resting
<1>2. \A id \in Found : Resting[id] = Shape(orders_[FindId(id)])  BY DEF Resting, Shape
<1>3. \A h \in LiveHandles : h \in Handle /\ h # NoHandle /\ orders_[h].id \in OrderIds
  BY Handles DEF StoreInv, OrdersSane, LiveHandles
<1>4. \A h \in LiveHandles : FindId(orders_[h].id) = h /\ orders_[h].id \in Found
  BY <1>3, FindIs DEF Found
<1>5. \A id \in Found : id \in OrderIds /\ FindId(id) \in LiveHandles /\ orders_[FindId(id)].id = id
  BY FindIs DEF Found
<1>6. ASSUME NEW id \in Found
      PROVE  /\ Resting[id].side \in Side /\ Resting[id].level \in Level
             /\ Resting[id].qty \in 1 .. QtyWord - 1
             /\ \E n \in AddQty : Resting[id].qty <= n
  <2> DEFINE h == FindId(id)
  <2>1. h \in LiveHandles /\ h \in Handle /\ Resting[id] = Shape(orders_[h])  BY <1>2, <1>3, <1>5
  <2> HIDE DEF h
  <2>2. /\ orders_[h].side \in Side /\ orders_[h].level \in Level
        /\ orders_[h].qty \in Quantity /\ orders_[h].qty > 0
    BY <2>1 DEF StoreInv, StoreTypes, LiveHandles, Live
  <2>3. \E n \in AddQty : orders_[h].qty <= n  BY <2>1 DEF StoreInv, OrdersSane
  <2>4. orders_[h].qty \in 1 .. QtyWord - 1  BY <2>2, Handles DEF Quantity
  <2> QED  BY <2>1, <2>2, <2>3, <2>4 DEF Shape
<1>7. IsFiniteSet(Found) /\ Cardinality(Found) = live_
  <2> DEFINE f == [h \in LiveHandles |-> orders_[h].id]
  <2>1. LiveHandles \subseteq Handle  BY DEF LiveHandles
  <2>2. IsFiniteSet(LiveHandles)  BY <2>1, Handles
  <2>3. f \in Bijection(LiveHandles, Found)
    <3>1. f \in [LiveHandles -> Found]  BY <1>4
    <3>2. \A g, h \in LiveHandles : f[g] = f[h] => g = h  BY DEF StoreInv, OrdersSane
    <3>3. \A id \in Found : \E h \in LiveHandles : f[h] = id  BY <1>5
    <3> HIDE DEF f
    <3> QED  BY <3>1, <3>2, <3>3 DEF Bijection, Injection, Surjection, IsInjective
  <2>4. Cardinality(LiveHandles) = Cardinality(Found) /\ IsFiniteSet(Found)
    BY <2>2, <2>3, FS_Bijection DEF ExistsBijection
  <2> QED  BY <2>4 DEF StoreInv, Counted
<1> QED  BY <1>1, <1>2, <1>3, <1>4, <1>5, <1>6, <1>7 DEF RestingOK

\* A book of the orders that can rest, and what its depths are bounded by.
Book(b) ==
  /\ IsFiniteSet(DOMAIN b) /\ Cardinality(DOMAIN b) <= MaxOrders
  /\ \A i \in DOMAIN b : /\ b[i].side \in Side /\ b[i].level \in Level
                         /\ b[i].qty \in 1 .. QtyWord - 1 /\ \E n \in AddQty : b[i].qty <= n

LEMMA RestingBook == StoreInv => Book(Resting)
<1> SUFFICES ASSUME StoreInv PROVE Book(Resting)  OBVIOUS
<1>1. live_ <= MaxOrders  BY Handles DEF StoreInv, StoreTypes
<1> QED  BY <1>1, RestingIs DEF RestingOK, Book

LEMMA DepthsAre ==
  ASSUME NEW b, Book(b), NEW side \in Side
  PROVE  /\ \A i \in DOMAIN b : b[i].qty \in Nat
         /\ LevelsOf(b, side) \subseteq Level
         /\ \A level : /\ DepthAt(b, side, level) \in Quantity
                       /\ DepthAt(b, side, level) # 0 <=> level \in LevelsOf(b, side)
<1>1. \A i \in DOMAIN b : b[i].qty \in Nat \ {0}  BY Handles DEF Book
<1>2. LevelsOf(b, side) \subseteq Level  BY DEF LevelsOf, Book
<1>3. IsFiniteSet(DOMAIN b)  BY DEF Book
<1>4. ASSUME NEW level
      PROVE  DepthAt(b, side, level) \in Quantity
  <2>1. PICK n \in Nat : (\A i \in DOMAIN b : b[i].qty <= n) /\ MaxOrders * n < QtyWord
    <3>1. CASE AddQty = {}
      <4>1. \A i \in DOMAIN b : FALSE  BY <3>1 DEF Book
      <4>2. MaxOrders * 0 < QtyWord  BY Handles
      <4> QED  BY <4>1, <4>2
    <3>2. CASE AddQty # {}
      <4>1. AddQty \subseteq 0 .. QtyWord /\ QtyWord \in Nat  BY Handles
      <4>2. Max(AddQty) \in AddQty /\ \A m \in AddQty : Max(AddQty) >= m
        BY <3>2, <4>1, MaxBounded
      <4> DEFINE n == Max(AddQty)
      <4>3. n \in AddQty /\ \A m \in AddQty : n >= m  BY <4>2
      <4> HIDE DEF n
      <4>4. n \in Nat /\ MaxOrders * n < QtyWord  BY <4>1, <4>3, BookAssumption
      <4>5. \A i \in DOMAIN b : b[i].qty <= n
        <5> TAKE i \in DOMAIN b
        <5>1. PICK m \in AddQty : b[i].qty <= m  BY DEF Book
        <5>2. m \in Nat /\ n >= m /\ b[i].qty \in Nat  BY <1>1, <4>1, <4>3
        <5> QED  BY <4>4, <5>1, <5>2
      <4> QED  BY <4>4, <4>5
    <3> QED  BY <3>1, <3>2
  <2>2. DepthAt(b, side, level) \in Nat  BY <1>1, <1>3, DepthZero
  <2>3. DepthAt(b, side, level) <= Cardinality(DOMAIN b) * n  BY <1>1, <1>3, <2>1, DepthZero
  <2> DEFINE c == Cardinality(DOMAIN b)
  <2>4. c \in Nat /\ c <= MaxOrders  BY <1>3, FS_CardinalityType DEF Book
  <2>5. c * n <= MaxOrders * n
    <3> HIDE DEF c
    <3>1. PICK d \in Nat : MaxOrders = c + d
      <4>1. MaxOrders - c \in Nat /\ MaxOrders = c + (MaxOrders - c)  BY <2>4, Handles
      <4> QED  BY <4>1
    <3>2. d * n \in Nat /\ c * n \in Nat  BY <2>4
    <3>3. (c + d) * n = c * n + d * n  BY <2>4
    <3> QED  BY <3>1, <3>2, <3>3
  <2>6. c * n \in Nat /\ MaxOrders * n \in Nat  BY <2>4, Handles
  <2>7. DepthAt(b, side, level) <= c * n  BY <2>3
  <2> HIDE DEF c
  <2> QED  BY <2>1, <2>2, <2>5, <2>6, <2>7, Handles DEF Quantity
<1>5. \A level : DepthAt(b, side, level) # 0 <=> level \in LevelsOf(b, side)
  BY <1>1, <1>3, DepthZero
<1>6. \A i \in DOMAIN b : b[i].qty \in Nat  BY <1>1
<1> QED  BY <1>2, <1>4, <1>5, <1>6

\* The ladder that a book makes.
Ladder(q, e, b) ==
  /\ q \in [Side -> [Level -> Quantity]]
  /\ e \in [Side -> Level \cup {NoIndex}]
  /\ \A s \in Side, l \in Level : q[s][l] = DepthAt(b, s, l)
  /\ \A s \in Side : e[s] = BestLevel(b, s)

\* Two books that agree but for an id, and what the ladder of the second is, given the first's.
Differ(b, c, id) ==
  /\ Book(b) /\ Book(c)
  /\ DOMAIN b \ {id} = DOMAIN c \ {id} /\ \A i \in DOMAIN b \ {id} : b[i] = c[i]

LEMMA Elsewhere ==
  ASSUME NEW b, NEW c, NEW id, Differ(b, c, id), NEW s \in Side, NEW l,
         id \notin OrdersAt(b, s, l), id \notin OrdersAt(c, s, l)
  PROVE  DepthAt(c, s, l) = DepthAt(b, s, l)
<1>1. /\ \A i \in DOMAIN b : b[i].qty \in Nat
      /\ \A i \in DOMAIN c : c[i].qty \in Nat
      /\ DepthAt(b, s, l) \in Quantity /\ DepthAt(c, s, l) \in Quantity
  BY DepthsAre DEF Differ
<1>2. IsFiniteSet(DOMAIN b) /\ IsFiniteSet(DOMAIN c)  BY DEF Differ, Book
<1>3. PICK rest \in Nat :
        /\ DepthAt(b, s, l) = (IF id \in OrdersAt(b, s, l) THEN b[id].qty ELSE 0) + rest
        /\ DepthAt(c, s, l) = (IF id \in OrdersAt(c, s, l) THEN c[id].qty ELSE 0) + rest
  BY <1>1, <1>2, DepthOfOneMore DEF Differ
<1> QED  BY <1>3

LEMMA NoLevel == NoIndex \notin Level /\ Level = 0 .. Levels - 1 /\ Levels - 1 \in Nat
BY Handles DEF NoIndex, Level

\* A level is the best one exactly when an order rests there and none beats it.
LEMMA BestIs ==
  ASSUME NEW b, Book(b), NEW s \in Side
  PROVE  /\ LevelsOf(b, s) = {} <=> BestLevel(b, s) = NoIndex
         /\ LevelsOf(b, s) # {} =>
              /\ BestLevel(b, s) \in LevelsOf(b, s) /\ BestLevel(b, s) \in Level
              /\ \A l \in LevelsOf(b, s) :
                   IF s = "Buy" THEN l <= BestLevel(b, s) ELSE BestLevel(b, s) <= l
         /\ \A x \in LevelsOf(b, s) :
              (\A l \in LevelsOf(b, s) : IF s = "Buy" THEN l <= x ELSE x <= l)
                => x = BestLevel(b, s)
<1>1. LevelsOf(b, s) \subseteq 0 .. Levels - 1 /\ Levels - 1 \in Nat  BY DepthsAre, NoLevel
<1>2. LevelsOf(b, s) # {} => BestLevel(b, s) \in LevelsOf(b, s)  BY <1>1, BestLevelIs
<1>3. LevelsOf(b, s) = {} => BestLevel(b, s) = NoIndex  BY <1>1, BestLevelIs DEF NoIndex
<1>4. LevelsOf(b, s) # {} =>
         \A l \in LevelsOf(b, s) : IF s = "Buy" THEN l <= BestLevel(b, s) ELSE BestLevel(b, s) <= l
  BY <1>1, BestLevelIs
<1>5. \A x \in LevelsOf(b, s) :
        (\A l \in LevelsOf(b, s) : IF s = "Buy" THEN l <= x ELSE x <= l) => x = BestLevel(b, s)
  BY <1>1, BestLevelIs
<1> QED  BY <1>1, <1>2, <1>3, <1>4, <1>5, NoLevel

LadderAdds(side, level, n, q, e) ==
  /\ q = [qty EXCEPT ![side][level] = Plus(@, n)]
  /\ e = IF Beats(side, level) THEN [best EXCEPT ![side] = level] ELSE best

LEMMA AddLadder ==
  ASSUME NEW b, NEW c, NEW id, Differ(b, c, id), id \notin DOMAIN b, id \in DOMAIN c,
         NEW side \in Side, NEW level \in Level, NEW n \in Nat,
         c[id] = [side |-> side, level |-> level, qty |-> n],
         Ladder(qty, best, b), NEW q, NEW e, LadderAdds(side, level, n, q, e)
  PROVE  Ladder(q, e, c)
<1> USE DEF LadderAdds
<1>1. /\ qty \in [Side -> [Level -> Quantity]] /\ best \in [Side -> Level \cup {NoIndex}]
      /\ \A s \in Side, l \in Level : qty[s][l] = DepthAt(b, s, l)
      /\ \A s \in Side : best[s] = BestLevel(b, s)
  BY DEF Ladder
<1>2. Book(b) /\ Book(c)  BY DEF Differ
<1>3. \A s, l : id \notin OrdersAt(b, s, l)  BY DEF OrdersAt
<1>4. \A s, l : id \in OrdersAt(c, s, l) <=> s = side /\ l = level  BY DEF OrdersAt
<1>5. \A s \in Side : \A l : (s # side \/ l # level) => DepthAt(c, s, l) = DepthAt(b, s, l)
  BY <1>3, <1>4, Elsewhere
<1>6. DepthAt(c, side, level) = DepthAt(b, side, level) + n
  <2>1. /\ \A i \in DOMAIN b : b[i].qty \in Nat
        /\ \A i \in DOMAIN c : c[i].qty \in Nat
        /\ DepthAt(b, side, level) \in Quantity /\ DepthAt(c, side, level) \in Quantity
    BY <1>2, DepthsAre
  <2>2. IsFiniteSet(DOMAIN b) /\ IsFiniteSet(DOMAIN c)  BY <1>2 DEF Book
  <2>3. PICK rest \in Nat :
          /\ DepthAt(b, side, level) = (IF id \in OrdersAt(b, side, level) THEN b[id].qty ELSE 0) + rest
          /\ DepthAt(c, side, level) = (IF id \in OrdersAt(c, side, level) THEN c[id].qty ELSE 0) + rest
    BY <2>1, <2>2, DepthOfOneMore DEF Differ
  <2>4. c[id].qty = n  OBVIOUS
  <2> QED  BY <1>3, <1>4, <2>3, <2>4
<1>7. Plus(qty[side][level], n) = DepthAt(c, side, level)
  <2>1. DepthAt(c, side, level) \in Quantity  BY <1>2, DepthsAre
  <2> DEFINE d == DepthAt(c, side, level)
  <2>2. d \in 0 .. 2 * QtyWord - 1 /\ d < QtyWord  BY <2>1, Handles DEF Quantity
  <2>3. d % QtyWord = d
    <3> HIDE DEF d
    <3> QED  BY <2>2, Handles, Cyclic
  <2>4. Plus(qty[side][level], n) = d % QtyWord  BY <1>1, <1>6 DEF Plus
  <2> QED  BY <2>3, <2>4
<1>8. \A s \in Side, l \in Level : DepthAt(c, s, l) \in Quantity  BY <1>2, DepthsAre
<1>9. /\ q \in [Side -> [Level -> Quantity]]
      /\ \A s \in Side, l \in Level : q[s][l] = DepthAt(c, s, l)
  <2>1. \A s \in Side, l \in Level :
          q[s][l] = IF s = side /\ l = level THEN Plus(qty[side][level], n) ELSE qty[s][l]
    BY <1>1
  <2>2. \A s \in Side, l \in Level : q[s][l] = DepthAt(c, s, l)
    BY <1>1, <1>5, <1>7, <2>1
  <2>3. Plus(qty[side][level], n) \in Quantity  BY <1>7, <1>8
  <2>4. q \in [Side -> [Level -> Quantity]]  BY <1>1, <2>3
  <2> QED  BY <2>2, <2>4
<1>10. \A s \in Side : LevelsOf(c, s) = IF s = side THEN LevelsOf(b, s) \cup {level} ELSE LevelsOf(b, s)
  <2> TAKE s \in Side
  <2>1. DOMAIN c = DOMAIN b \cup {id} /\ \A i \in DOMAIN b : c[i] = b[i]  BY DEF Differ
  <2>2. c[id].side = side /\ c[id].level = level  OBVIOUS
  <2> QED  BY <2>1, <2>2 DEF LevelsOf
<1>11. \A s \in Side : e[s] = BestLevel(c, s) /\ e[s] \in Level \cup {NoIndex}
  <2> TAKE s \in Side
  <2>0. e[s] = IF s = side /\ Beats(side, level) THEN level ELSE best[s]  BY <1>1
  <2>1. CASE s # side
    <3>1. LevelsOf(c, s) = LevelsOf(b, s)  BY <1>10, <2>1
    <3>2. BestLevel(c, s) = BestLevel(b, s)  BY <3>1 DEF BestLevel
    <3> QED  BY <1>1, <2>0, <2>1, <3>2
  <2>2. CASE s = side /\ LevelsOf(b, s) = {}
    <3>1. best[s] = NoIndex  BY <1>1, <1>2, <2>2, BestIs
    <3>2. e[s] = level  BY <2>0, <2>2, <3>1 DEF Beats
    <3>3. LevelsOf(c, s) = {level}  BY <1>10, <2>2
    <3>4. level \in Nat  BY NoLevel
    <3>5. level = BestLevel(c, s)  BY <1>2, <3>3, <3>4, BestIs
    <3> QED  BY <3>2, <3>5
  <2>3. CASE s = side /\ LevelsOf(b, s) # {}
    <3>1. /\ best[s] \in LevelsOf(b, s) /\ best[s] \in Level
          /\ \A l \in LevelsOf(b, s) : IF s = "Buy" THEN l <= best[s] ELSE best[s] <= l
      BY <1>1, <1>2, <2>3, BestIs
    <3>2. Beats(side, level) <=> IF s = "Buy" THEN level > best[s] ELSE level < best[s]
      BY <2>3, <3>1, NoLevel DEF Beats
    <3>3. LevelsOf(b, s) \subseteq Level /\ Level \subseteq Nat  BY <1>2, DepthsAre, NoLevel
    <3>4. e[s] = IF Beats(side, level) THEN level ELSE best[s]  BY <2>0, <2>3
    <3>5. LevelsOf(c, s) = LevelsOf(b, s) \cup {level}  BY <1>10, <2>3
    <3>6. \A l \in LevelsOf(c, s) : IF s = "Buy" THEN l <= e[s] ELSE e[s] <= l
      <4> TAKE l \in LevelsOf(c, s)
      <4>1. l \in Nat /\ level \in Nat /\ best[s] \in Nat  BY <3>1, <3>3, <3>5
      <4>2. CASE s = "Buy"  BY <3>1, <3>2, <3>4, <3>5, <4>1, <4>2
      <4>3. CASE s # "Buy"  BY <3>1, <3>2, <3>4, <3>5, <4>1, <4>3
      <4> QED  BY <4>2, <4>3
    <3>7. e[s] \in LevelsOf(c, s) /\ e[s] \in Level  BY <3>1, <3>4, <3>5
    <3>8. e[s] = BestLevel(c, s)  BY <1>2, <3>6, <3>7, BestIs
    <3> QED  BY <3>7, <3>8
  <2> QED  BY <2>1, <2>2, <2>3
<1>12. e \in [Side -> Level \cup {NoIndex}]  BY <1>1
<1> QED  BY <1>9, <1>11, <1>12 DEF Ladder

\* After a reduction the touch stands unless its level became empty; then the scan from it
\* meets the next one.
LEMMA ReduceLadder ==
  ASSUME NEW b, NEW c, NEW id, Differ(b, c, id), id \in DOMAIN b,
         NEW take \in 1 .. b[id].qty,
         id \in DOMAIN c => c[id] = [side |-> b[id].side, level |-> b[id].level, qty |-> b[id].qty - take],
         id \notin DOMAIN c => take = b[id].qty,
         Ladder(qty, best, b), NEW q, NEW e, NEW depth,
         depth = [qty[b[id].side] EXCEPT ![b[id].level] = Minus(@, take)],
         q = [qty EXCEPT ![b[id].side] = depth],
         e = IF b[id].level = best[b[id].side] /\ depth[b[id].level] = 0
             THEN [best EXCEPT ![b[id].side] = Rescan(b[id].side, depth)] ELSE best
  PROVE  Ladder(q, e, c)
<1>0. PICK side \in Side, level \in Level : side = b[id].side /\ level = b[id].level
  BY DEF Differ, Book
<1>1. /\ qty \in [Side -> [Level -> Quantity]] /\ best \in [Side -> Level \cup {NoIndex}]
      /\ \A s \in Side, l \in Level : qty[s][l] = DepthAt(b, s, l)
      /\ \A s \in Side : best[s] = BestLevel(b, s)
  BY DEF Ladder
<1>2. Book(b) /\ Book(c)  BY DEF Differ
<1>3. \A s, l : id \in OrdersAt(b, s, l) <=> s = side /\ l = level  BY <1>0 DEF OrdersAt
<1>4. \A s, l : id \in OrdersAt(c, s, l) <=> s = side /\ l = level /\ id \in DOMAIN c
  BY <1>0 DEF OrdersAt
<1>5. \A s \in Side : \A l : (s # side \/ l # level) => DepthAt(c, s, l) = DepthAt(b, s, l)
  BY <1>3, <1>4, Elsewhere
<1>6. DepthAt(c, side, level) = DepthAt(b, side, level) - take
  <2>1. /\ \A i \in DOMAIN b : b[i].qty \in Nat
        /\ \A i \in DOMAIN c : c[i].qty \in Nat
        /\ DepthAt(b, side, level) \in Quantity /\ DepthAt(c, side, level) \in Quantity
    BY <1>2, DepthsAre
  <2>2. IsFiniteSet(DOMAIN b) /\ IsFiniteSet(DOMAIN c)  BY <1>2 DEF Book
  <2>3. PICK rest \in Nat :
          /\ DepthAt(b, side, level) = (IF id \in OrdersAt(b, side, level) THEN b[id].qty ELSE 0) + rest
          /\ DepthAt(c, side, level) = (IF id \in OrdersAt(c, side, level) THEN c[id].qty ELSE 0) + rest
    BY <2>1, <2>2, DepthOfOneMore DEF Differ
  <2>4. id \in DOMAIN c => c[id].qty = b[id].qty - take  OBVIOUS
  <2>5. b[id].qty \in Nat  BY <2>1
  <2> QED  BY <1>3, <1>4, <2>3, <2>4, <2>5
<1>7. Minus(qty[side][level], take) = DepthAt(c, side, level)
  <2>1. DepthAt(c, side, level) \in Quantity  BY <1>2, DepthsAre
  <2> DEFINE d == DepthAt(c, side, level)
  <2>2. d \in 0 .. 2 * QtyWord - 1 /\ d < QtyWord  BY <2>1, Handles DEF Quantity
  <2>3. d % QtyWord = d
    <3> HIDE DEF d
    <3> QED  BY <2>2, Handles, Cyclic
  <2>4. Minus(qty[side][level], take) = d % QtyWord  BY <1>1, <1>6 DEF Minus
  <2> QED  BY <2>3, <2>4
<1>8. \A s \in Side, l \in Level : DepthAt(c, s, l) \in Quantity  BY <1>2, DepthsAre
<1>9. /\ depth \in [Level -> Quantity]
      /\ \A l \in Level : depth[l] = DepthAt(c, side, l)
  <2>1. depth = [qty[side] EXCEPT ![level] = Minus(@, take)] /\ qty[side] \in [Level -> Quantity]
    BY <1>0, <1>1
  <2>2. \A l \in Level : depth[l] = IF l = level THEN Minus(qty[side][level], take) ELSE qty[side][l]
    BY <2>1
  <2>3. \A l \in Level : depth[l] = DepthAt(c, side, l)  BY <1>1, <1>5, <1>7, <2>2
  <2>4. DOMAIN depth = Level /\ depth = [l \in Level |-> depth[l]]  BY <2>1
  <2>5. \A l \in Level : depth[l] \in Quantity  BY <1>8, <2>3
  <2>6. depth \in [Level -> Quantity]
    BY ONLY <2>4, <2>5
  <2> QED  BY <2>3, <2>6
<1>10. /\ q \in [Side -> [Level -> Quantity]]
       /\ \A s \in Side, l \in Level : q[s][l] = DepthAt(c, s, l)
  <2>1. q = [qty EXCEPT ![side] = depth]  BY <1>0
  <2>2. \A s \in Side : q[s] = IF s = side THEN depth ELSE qty[s]  BY <1>1, <2>1
  <2>3. \A s \in Side, l \in Level : q[s][l] = DepthAt(c, s, l)  BY <1>1, <1>5, <1>9, <2>2
  <2>4. q \in [Side -> [Level -> Quantity]]
    BY ONLY <1>1, <1>9, <2>1
  <2> QED  BY ONLY <2>3, <2>4
<1>11. \A s \in Side : LevelsOf(c, s) \subseteq LevelsOf(b, s)
  <2> TAKE s \in Side
  <2>1. \A i \in DOMAIN c : i \in DOMAIN b /\ c[i].side = b[i].side /\ c[i].level = b[i].level
    BY DEF Differ
  <2> QED  BY <2>1 DEF LevelsOf
<1>12. \A l : l \in LevelsOf(c, side) <=> l \in Level /\ depth[l] # 0
  BY <1>2, <1>9, DepthsAre
<1>13. \A l : l # level => (l \in LevelsOf(b, side) <=> l \in LevelsOf(c, side))
  BY <1>2, <1>5, DepthsAre
<1>14. ASSUME NEW s \in Side
       PROVE  e[s] = BestLevel(c, s) /\ e[s] \in Level \cup {NoIndex}
  <2> DEFINE dry == level = best[side] /\ depth[level] = 0
  <2>0. e[s] = IF s = side /\ dry THEN Rescan(side, depth) ELSE best[s]  BY <1>0, <1>1
  <2>1. CASE s # side
    <3>1. \A l : l \in LevelsOf(c, s) <=> l \in LevelsOf(b, s)  BY <1>2, <1>5, <2>1, DepthsAre
    <3>2. LevelsOf(c, s) = LevelsOf(b, s)  BY <3>1
    <3>3. BestLevel(c, s) = BestLevel(b, s)  BY <3>2 DEF BestLevel
    <3> QED  BY <1>1, <2>0, <2>1, <3>3
  <2>2. CASE s = side
    <3>1. level \in LevelsOf(b, side)  BY <1>0 DEF LevelsOf
    <3>2. /\ best[side] \in LevelsOf(b, side) /\ best[side] \in Level
          /\ \A l \in LevelsOf(b, side) : IF side = "Buy" THEN l <= best[side] ELSE best[side] <= l
      BY <1>1, <1>2, <3>1, BestIs
    <3>3. CASE dry
      <4> DEFINE left == {l \in Level : /\ IF side = "Buy" THEN l <= best[side] ELSE l >= best[side]
                                        /\ depth[l] # 0}
      <4>1. left = LevelsOf(c, side)
        <5>1. ASSUME NEW l \in LevelsOf(c, side) PROVE l \in left
          <6>1. l \in Level /\ depth[l] # 0 /\ l \in LevelsOf(b, side)  BY <1>11, <1>12
          <6>2. l \in Nat /\ best[side] \in Nat  BY <3>2, <6>1, NoLevel
          <6>3. CASE side = "Buy"  BY <3>2, <6>1, <6>2, <6>3
          <6>4. CASE side # "Buy"  BY <3>2, <6>1, <6>2, <6>4
          <6> QED  BY <6>3, <6>4
        <5>2. left \subseteq LevelsOf(c, side)  BY <1>12
        <5> QED  BY <5>1, <5>2
      <4>2. Rescan(side, depth) = CASE left = {} -> NoIndex
                                    [] left # {} /\ side = "Buy" -> Max(left)
                                    [] left # {} /\ side = "Sell" -> Min(left)
        BY DEF Rescan
      <4>3. Rescan(side, depth) = BestLevel(c, side)
        <5> HIDE DEF left
        <5>1. side = "Buy" \/ (side = "Sell" /\ side # "Buy")  BY DEF Side
        <5> QED  BY <4>1, <4>2, <5>1 DEF BestLevel, NoIndex
      <4>4. BestLevel(c, side) \in Level \cup {NoIndex}  BY <1>2, BestIs
      <4> QED  BY <2>0, <2>2, <3>3, <4>3, <4>4
    <3>4. CASE ~dry
      <4>1. e[s] = best[side]  BY <2>0, <2>2, <3>4
      <4>2. best[side] \in LevelsOf(c, side)
        <5>1. CASE level # best[side]  BY <1>13, <3>2, <5>1
        <5>2. CASE depth[level] # 0
          <6>1. level \in LevelsOf(c, side)  BY <1>12, <5>2
          <6> QED  BY <1>13, <3>2, <6>1
        <5> QED  BY <3>4, <5>1, <5>2
      <4>3. \A l \in LevelsOf(c, side) : IF side = "Buy" THEN l <= best[side] ELSE best[side] <= l
        BY <1>11, <3>2
      <4>4. best[side] = BestLevel(c, side)  BY <1>2, <4>2, <4>3, BestIs
      <4> QED  BY <2>2, <3>2, <4>1, <4>4
    <3> QED  BY <3>3, <3>4
  <2> QED  BY <2>1, <2>2
<1>15. e \in [Side -> Level \cup {NoIndex}]
  <2>1. DOMAIN e = Side /\ e = [s \in Side |-> e[s]]  BY <1>1
  <2> QED  BY <1>14, <2>1
<1> QED  BY <1>10, <1>14, <1>15 DEF Ladder

\* What each call does to the resting orders.
Adds(b, c, id, side, level, n) ==
  /\ Differ(b, c, id) /\ id \notin DOMAIN b /\ id \in DOMAIN c
  /\ c[id] = [side |-> side, level |-> level, qty |-> n]
Reduces(b, c, id, take) ==
  /\ Differ(b, c, id) /\ id \in DOMAIN b /\ take \in 1 .. b[id].qty
  /\ id \in DOMAIN c => c[id] = [side |-> b[id].side, level |-> b[id].level,
                                 qty |-> b[id].qty - take]
  /\ id \notin DOMAIN c => take = b[id].qty
  /\ id \in DOMAIN c => take # b[id].qty

LEMMA AlwaysResting == StoreInv => RestingOK /\ Book(Resting)
BY RestingIs, RestingBook

LEMMA AddResting ==
  ASSUME StoreInv, NEW id \in OrderIds \ LiveIds, NEW side \in Side, NEW price \in Prices,
         NEW n \in AddQty, OnAdd(id, side, price, n)
  PROVE  /\ StoreInv' /\ IndexOf(price) \in Level
         /\ Adds(Resting, Resting', id, side, IndexOf(price), n)
<1> DEFINE h == free_head_
           new == [id |-> id, level |-> IndexOf(price), qty |-> n, side |-> side, next_free |-> NoHandle]
<1>1. /\ h # NoHandle /\ IndexOf(price) # NoIndex /\ orders_' = [orders_ EXCEPT ![h] = new]
  BY DEF OnAdd
<1>2. StoreInv' /\ LiveHandles' = LiveHandles \cup {h} /\ h \in Handle \ LiveHandles
  BY <1>1, AddStore, FreeHead
<1>3. IndexOf(price) \in Level  BY <1>1 DEF IndexOf
<1>4. orders_'[h] = new /\ \A g \in LiveHandles : orders_'[g] = orders_[g]
  BY <1>1, <1>2 DEF StoreInv, StoreTypes, LiveHandles
<1>5. RestingOK /\ Book(Resting)  BY AlwaysResting
<1>6. RestingOK' /\ Book(Resting)'
  <2>1. StoreInv' => RestingOK' /\ Book(Resting)'  BY AlwaysResting, PTL
  <2> QED  BY <1>2, <2>1
<1>7. Book(Resting')  BY <1>6 DEF Book
<1>8. /\ \A g \in LiveHandles : orders_[g].id \in DOMAIN Resting /\ Resting[orders_[g].id] = Shape(orders_[g])
      /\ \A i \in DOMAIN Resting : \E g \in LiveHandles : orders_[g].id = i
  BY <1>5 DEF RestingOK
<1>9. /\ \A g \in LiveHandles' : orders_'[g].id \in DOMAIN Resting' /\ Resting'[orders_'[g].id] = Shape(orders_'[g])
      /\ \A i \in DOMAIN Resting' : \E g \in LiveHandles' : orders_'[g].id = i
  BY <1>6 DEF RestingOK, Shape
<1>10. id \notin DOMAIN Resting  BY <1>8 DEF LiveIds
<1>11. new.id = id /\ Shape(new) = [side |-> side, level |-> IndexOf(price), qty |-> n]  BY DEF Shape
<1> HIDE DEF new, h
<1>12. id \in DOMAIN Resting' /\ Resting'[id] = [side |-> side, level |-> IndexOf(price), qty |-> n]
  BY <1>2, <1>4, <1>9, <1>11
<1>13. DOMAIN Resting \ {id} = DOMAIN Resting' \ {id}
  <2>1. \A i \in DOMAIN Resting : i \in DOMAIN Resting'  BY <1>2, <1>4, <1>8, <1>9
  <2>2. \A i \in DOMAIN Resting' : i # id => i \in DOMAIN Resting  BY <1>2, <1>4, <1>8, <1>9, <1>11
  <2> QED  BY <2>1, <2>2
<1>14. \A i \in DOMAIN Resting \ {id} : Resting[i] = Resting'[i]
  <2> TAKE i \in DOMAIN Resting \ {id}
  <2>1. PICK g \in LiveHandles : orders_[g].id = i  BY <1>8
  <2> QED  BY <1>2, <1>4, <1>8, <1>9, <2>1
<1> QED  BY <1>2, <1>3, <1>5, <1>7, <1>10, <1>12, <1>13, <1>14 DEF Adds, Differ

LEMMA ReduceResting ==
  ASSUME StoreInv, NEW id \in OrderIds, NEW n \in ReduceQty, OnReduce(id, n)
  PROVE  LET o == orders_[FindId(id)]
         IN /\ StoreInv' /\ Resting[id] = Shape(o) /\ id \in DOMAIN Resting
            /\ Reduces(Resting, Resting', id, Take(o, n))
<1> DEFINE h == FindId(id)
           o == orders_[h]
           take == Take(o, n)
           rest == Minus(o.qty, take)
<1>1. /\ h # NoHandle
      /\ rest = 0 => orders_' = [orders_ EXCEPT ![h] = FreeSlot(free_head_)]
      /\ rest # 0 => orders_' = [orders_ EXCEPT ![h].qty = rest]
  BY DEF OnReduce, Release
<1>2. /\ h \in LiveHandles /\ h \in Handle /\ o.id = id /\ o.qty \in 1 .. QtyWord - 1
      /\ take \in 1 .. o.qty /\ rest = o.qty - take
  BY <1>1, TakeIs
<1>3. rest = 0 => StoreInv' /\ LiveHandles' = LiveHandles \ {h}  BY ReleaseStore
<1>4. rest # 0 => StoreInv' /\ LiveHandles' = LiveHandles  BY ShrinkStore
<1> HIDE DEF h, take, rest
<1>5. /\ \A g \in LiveHandles \ {h} : orders_'[g] = orders_[g]
      /\ rest # 0 => orders_'[h] = [o EXCEPT !.qty = rest]
  BY <1>1, <1>2 DEF StoreInv, StoreTypes, LiveHandles
<1>6. RestingOK /\ Book(Resting)  BY AlwaysResting
<1>7. StoreInv' /\ RestingOK' /\ Book(Resting)'
  <2>1. StoreInv' => RestingOK' /\ Book(Resting)'  BY AlwaysResting, PTL
  <2> QED  BY <1>3, <1>4, <2>1
<1>8. Book(Resting')  BY <1>7 DEF Book
<1>9. /\ \A g \in LiveHandles : orders_[g].id \in DOMAIN Resting /\ Resting[orders_[g].id] = Shape(orders_[g])
      /\ \A i \in DOMAIN Resting : \E g \in LiveHandles : orders_[g].id = i
  BY <1>6 DEF RestingOK
<1>10. /\ \A g \in LiveHandles' : orders_'[g].id \in DOMAIN Resting' /\ Resting'[orders_'[g].id] = Shape(orders_'[g])
       /\ \A i \in DOMAIN Resting' : \E g \in LiveHandles' : orders_'[g].id = i
  BY <1>7 DEF RestingOK, Shape
<1>11. \A f, g \in LiveHandles : orders_[f].id = orders_[g].id => f = g  BY DEF StoreInv, OrdersSane
<1>12. id \in DOMAIN Resting /\ Resting[id] = Shape(o)  BY <1>2, <1>9
<1>13. rest # 0 => orders_'[h].id = id /\ Shape(orders_'[h]) = [side |-> o.side, level |-> o.level, qty |-> rest]
  <2>1. o \in [id : OrderIds \cup {0}, level : Level, qty : Quantity,
               side : Side, next_free : Handle \cup {NoHandle}]
    BY <1>2 DEF StoreInv, StoreTypes
  <2> QED  BY <1>2, <1>5, <2>1 DEF Shape
<1>14. LiveHandles' \subseteq LiveHandles /\ LiveHandles \ {h} \subseteq LiveHandles'  BY <1>3, <1>4
<1>15. DOMAIN Resting \ {id} = DOMAIN Resting' \ {id}
  <2>1. ASSUME NEW i \in DOMAIN Resting \ {id} PROVE i \in DOMAIN Resting'
    <3>1. PICK g \in LiveHandles : orders_[g].id = i  BY <1>9
    <3>2. g # h  BY <1>2, <3>1
    <3> QED  BY <1>5, <1>10, <1>14, <3>1, <3>2
  <2>2. ASSUME NEW i \in DOMAIN Resting' \ {id} PROVE i \in DOMAIN Resting
    <3>1. PICK g \in LiveHandles' : orders_'[g].id = i  BY <1>10
    <3>2. g # h  BY <1>3, <1>13, <3>1
    <3> QED  BY <1>5, <1>9, <1>14, <3>1, <3>2
  <2> QED  BY <2>1, <2>2
<1>16. \A i \in DOMAIN Resting \ {id} : Resting[i] = Resting'[i]
  <2> TAKE i \in DOMAIN Resting \ {id}
  <2>1. PICK g \in LiveHandles : orders_[g].id = i  BY <1>9
  <2>2. g # h  BY <1>2, <2>1
  <2> QED  BY <1>5, <1>9, <1>10, <1>14, <2>1, <2>2
<1>17. id \in DOMAIN Resting' <=> rest # 0
  <2>1. rest # 0 => id \in DOMAIN Resting'  BY <1>2, <1>4, <1>10, <1>13
  <2>2. ASSUME id \in DOMAIN Resting', rest = 0 PROVE FALSE
    <3>1. PICK g \in LiveHandles' : orders_'[g].id = id  BY <1>10, <2>2
    <3>2. g \in LiveHandles /\ g # h  BY <1>3, <2>2, <3>1
    <3> QED  BY <1>2, <1>5, <1>11, <3>1, <3>2
  <2> QED  BY <2>1, <2>2
<1>18. id \in DOMAIN Resting' =>
         Resting'[id] = [side |-> o.side, level |-> o.level, qty |-> o.qty - take]
  BY <1>2, <1>4, <1>10, <1>13, <1>17
<1>19. Shape(o).side = o.side /\ Shape(o).level = o.level /\ Shape(o).qty = o.qty  BY DEF Shape
<1> HIDE DEF o
<1>20. Resting[id].side = o.side /\ Resting[id].level = o.level /\ Resting[id].qty = o.qty
  BY <1>12, <1>19
<1>21. Differ(Resting, Resting', id)  BY <1>6, <1>8, <1>15, <1>16 DEF Differ
<1>22. /\ take \in 1 .. Resting[id].qty
       /\ id \in DOMAIN Resting' =>
            Resting'[id] = [side |-> Resting[id].side, level |-> Resting[id].level,
                            qty |-> Resting[id].qty - take]
       /\ id \notin DOMAIN Resting' => take = Resting[id].qty
       /\ id \in DOMAIN Resting' => take # Resting[id].qty
  BY <1>2, <1>17, <1>18, <1>20
<1>23. Reduces(Resting, Resting', id, take)  BY <1>12, <1>21, <1>22 DEF Reduces
<1> QED  BY <1>7, <1>12, <1>23 DEF h, o, take

BookInv == StoreInv /\ Ladder(qty, best, Resting)

LEMMA InitResting == Init => StoreInv /\ Resting = [id \in {} |-> 0]
<1> SUFFICES ASSUME Init PROVE StoreInv /\ Resting = [id \in {} |-> 0]  OBVIOUS
<1>1. StoreInv  BY InitStore
<1>2. LiveHandles = {}
  BY Handles DEF Init, LiveHandles, Live, FreeSlot
<1>3. RestingOK  BY <1>1, RestingIs
<1>4. DOMAIN Resting = {}  BY <1>2, <1>3 DEF RestingOK
<1>5. Resting = [id \in DOMAIN Resting |-> Resting[id]]  BY <1>3 DEF RestingOK
<1>6. Resting = [id \in {} |-> 0]  BY <1>4, <1>5
<1> QED  BY <1>1, <1>6

LEMMA InitBook == Init => BookInv
<1> SUFFICES ASSUME Init PROVE BookInv  OBVIOUS
<1>1. StoreInv /\ Book(Resting) /\ DOMAIN Resting = {}  BY InitResting, RestingBook
<1>2. \A s \in Side : LevelsOf(Resting, s) = {}  BY <1>1 DEF LevelsOf
<1>3. \A s \in Side : BestLevel(Resting, s) = NoIndex  BY <1>1, <1>2, BestIs
<1>4. \A s \in Side, l \in Level : DepthAt(Resting, s, l) = 0  BY <1>1, <1>2, DepthsAre
<1>5. 0 \in Quantity  BY Handles DEF Quantity
<1>6. Ladder(qty, best, Resting)  BY <1>3, <1>4, <1>5 DEF Init, Ladder
<1> QED  BY <1>1, <1>6 DEF BookInv

LEMMA AddBook ==
  ASSUME BookInv, NEW id \in OrderIds \ LiveIds, NEW side \in Side, NEW price \in Prices,
         NEW n \in AddQty, OnAdd(id, side, price, n)
  PROVE  BookInv'
<1>1. StoreInv /\ Ladder(qty, best, Resting)  BY DEF BookInv
<1>2. PICK b : b = Resting  OBVIOUS
<1>3. PICK c : c = Resting'  OBVIOUS
<1>4. PICK level : level = IndexOf(price)  OBVIOUS
<1>5. StoreInv' /\ level \in Level /\ Adds(b, c, id, side, level, n)
  BY <1>1, <1>2, <1>3, <1>4, AddResting
<1>6. /\ qty' = [qty EXCEPT ![side][level] = Plus(@, n)]
      /\ best' = IF Beats(side, level) THEN [best EXCEPT ![side] = level] ELSE best
  BY <1>4 DEF OnAdd
<1>7. n \in Nat  BY Handles
<1>8. PICK q, e : q = qty' /\ e = best'  OBVIOUS
<1>9. Ladder(qty, best, b)  BY <1>1, <1>2
<1>10. Ladder(q, e, c)
  <2>1. LadderAdds(side, level, n, q, e)  BY <1>6, <1>8 DEF LadderAdds
  <2>2. /\ Differ(b, c, id) /\ id \notin DOMAIN b /\ id \in DOMAIN c
        /\ c[id] = [side |-> side, level |-> level, qty |-> n]
    BY <1>5 DEF Adds
  <2>3. level \in Level  BY <1>5
  <2> QED  BY ONLY <1>7, <1>9, <2>1, <2>2, <2>3, AddLadder, side \in Side
<1>11. Ladder(qty', best', Resting')  BY <1>3, <1>8, <1>10
<1> QED  BY <1>5, <1>11 DEF BookInv

LEMMA ReduceBook ==
  ASSUME BookInv, NEW id \in OrderIds, NEW n \in ReduceQty, OnReduce(id, n)
  PROVE  BookInv'
<1>1. StoreInv /\ Ladder(qty, best, Resting)  BY DEF BookInv
<1>2. PICK b : b = Resting  OBVIOUS
<1>3. PICK c : c = Resting'  OBVIOUS
<1>4. PICK o : o = orders_[FindId(id)]  OBVIOUS
<1>5. PICK take : take = Take(o, n)  OBVIOUS
<1>6. PICK q, e : q = qty' /\ e = best'  OBVIOUS
<1>7. PICK depth : depth = [qty[o.side] EXCEPT ![o.level] = Minus(@, take)]  OBVIOUS
<1>8. StoreInv' /\ b[id] = Shape(o) /\ Reduces(b, c, id, take)
  BY <1>1, <1>2, <1>3, <1>4, <1>5, ReduceResting
<1>9. b[id].side = o.side /\ b[id].level = o.level  BY <1>8 DEF Shape
<1>10. /\ q = [qty EXCEPT ![o.side] = depth]
       /\ e = IF o.level = best[o.side] /\ depth[o.level] = 0
              THEN [best EXCEPT ![o.side] = Rescan(o.side, depth)] ELSE best
  BY <1>4, <1>5, <1>6, <1>7 DEF OnReduce
<1>11. /\ depth = [qty[b[id].side] EXCEPT ![b[id].level] = Minus(@, take)]
       /\ q = [qty EXCEPT ![b[id].side] = depth]
       /\ e = IF b[id].level = best[b[id].side] /\ depth[b[id].level] = 0
              THEN [best EXCEPT ![b[id].side] = Rescan(b[id].side, depth)] ELSE best
  BY <1>7, <1>9, <1>10
<1>12. Ladder(qty, best, b)  BY <1>1, <1>2
<1>13. /\ Differ(b, c, id) /\ id \in DOMAIN b /\ take \in 1 .. b[id].qty
       /\ id \in DOMAIN c => c[id] = [side |-> b[id].side, level |-> b[id].level,
                                      qty |-> b[id].qty - take]
       /\ id \notin DOMAIN c => take = b[id].qty
  BY <1>8 DEF Reduces
<1>14. Ladder(q, e, c)  BY <1>11, <1>12, <1>13, ReduceLadder
<1>15. Ladder(qty', best', Resting')  BY <1>3, <1>6, <1>14
<1> QED  BY <1>8, <1>15 DEF BookInv

LEMMA SameResting == UNCHANGED vars => Resting' = Resting
BY DEF vars, Resting, Found, FindId, Probes, EndsProbe, Vacant

LEMMA NextBook == BookInv /\ [Next]_vars => BookInv'
<1> SUFFICES ASSUME BookInv, [Next]_vars PROVE BookInv'  OBVIOUS
<1>1. CASE UNCHANGED vars
  <2>1. StoreInv'  BY NextStore DEF BookInv
  <2>2. qty' = qty /\ best' = best /\ Resting' = Resting  BY <1>1, SameResting DEF vars
  <2>3. Ladder(qty', best', Resting')  BY <2>2 DEF BookInv
  <2> QED  BY <2>1, <2>3 DEF BookInv
<1>2. CASE \E price \in Prices : IgnoreAdd(price)  BY <1>1, <1>2 DEF IgnoreAdd
<1>3. CASE \E id \in OrderIds : IgnoreReduce(id)  BY <1>1, <1>3 DEF IgnoreReduce
<1>4. ASSUME NEW id \in OrderIds \ LiveIds, NEW side \in Side, NEW price \in Prices,
             NEW n \in AddQty, OnAdd(id, side, price, n)
      PROVE  BookInv'
  BY <1>4, AddBook
<1>5. ASSUME NEW id \in OrderIds, NEW n \in ReduceQty, OnReduce(id, n) PROVE BookInv'
  BY <1>5, ReduceBook
<1> QED  BY <1>1, <1>2, <1>3, <1>4, <1>5 DEF Next

LEMMA AlwaysBook == Spec => []BookInv
BY InitBook, NextBook, PTL DEF Spec

LEMMA BookLadderAgrees == BookInv => LadderAgrees
<1> SUFFICES ASSUME BookInv PROVE LadderAgrees  OBVIOUS
<1>1. StoreInv /\ Ladder(qty, best, Resting)  BY DEF BookInv
<1>2. id_table_ \in [0 .. TableSize - 1 -> [id : OrderIds \cup {0}, handle : Handle \cup {NoHandle}]]
  BY <1>1 DEF StoreInv, TableOK, Slot, Entry
<1>3. TypeOK  BY <1>1, <1>2 DEF StoreInv, StoreTypes, Ladder, TypeOK
<1>4. LevelsAddUp
  <2>1. \A b, s, l : Orders!Depth(b, s, l) = DepthAt(b, s, l)
    BY DEF Orders!Depth, Orders!OrdersOf, DepthAt, OrdersAt, MapThenSumSet, Orders!MapThenSumSet,
           MapThenFoldSet, Orders!MapThenFoldSet
  <2> QED  BY <1>1, <2>1 DEF LevelsAddUp, Ladder
<1>5. TouchCorrect
  <2>1. \A b, s : Orders!Touch(b, s) = BestLevel(b, s)
    BY DEF Orders!Touch, Orders!OrdersOf, Orders!NoIndex, BestLevel, LevelsOf,
           Max, Min, Orders!Max, Orders!Min
  <2> QED  BY <1>1, <2>1 DEF TouchCorrect, Ladder
<1> QED  BY <1>3, <1>4, <1>5 DEF LadderAgrees

\* The ladder the strategy reads is the one the resting orders make: each level's quantity is the
\* sum of the orders there, each cached best level the extremal occupied one (on_add, on_reduce,
\* rescan_bid, rescan_ask).
THEOREM LadderAlwaysAgrees == Spec => []LadderAgrees
BY AlwaysBook, BookLadderAgrees, PTL
------------------------------------------------------------------------------
(* Refinement *)

Shows == StoreInv /\ shown = Resting

LEMMA InitShows == MCInit => Shows /\ Shown!Init
<1> SUFFICES ASSUME MCInit PROVE Shows /\ Shown!Init  OBVIOUS
<1> QED  BY InitResting DEF MCInit, Shows, Shown!Init

LEMMA AddShown ==
  ASSUME Shows, NEW id \in OrderIds \ LiveIds, NEW side \in Side, NEW price \in Prices,
         NEW n \in AddQty, OnAdd(id, side, price, n), shown' = Resting'
  PROVE  Shown!Next
<1>1. PICK b : b = Resting  OBVIOUS
<1>2. PICK c : c = Resting'  OBVIOUS
<1>3. PICK level : level = IndexOf(price)  OBVIOUS
<1>4. StoreInv' /\ level \in Level /\ Adds(b, c, id, side, level, n)
  BY <1>1, <1>2, <1>3, AddResting DEF Shows
<1>5. c = [i \in DOMAIN c |-> c[i]]
  <2>1. Resting' = [i \in DOMAIN Resting' |-> Resting'[i]]  BY DEF Resting
  <2> QED  BY <1>2, <2>1
<1>6. c = [i \in DOMAIN b \cup {id} |-> IF i = id THEN c[id] ELSE b[i]]
  <2>1. DOMAIN c = DOMAIN b \cup {id}  BY <1>4 DEF Adds, Differ
  <2>2. \A i \in DOMAIN c : c[i] = IF i = id THEN c[id] ELSE b[i]  BY <1>4 DEF Adds, Differ
  <2> QED  BY <1>5, <2>1, <2>2
<1>7. c[id] \in [side : Side, level : 0 .. Levels - 1, qty : AddQty]
  BY <1>4 DEF Adds, Level
<1>8. Cardinality(DOMAIN b) < MaxOrders
  <2>1. free_head_ # NoHandle  BY DEF OnAdd
  <2>2. live_ + 1 \in 0 .. MaxOrders /\ live_ \in Nat
    BY <2>1, FreeHead DEF Shows, StoreInv, StoreTypes
  <2>3. Cardinality(DOMAIN b) = live_  BY <1>1, RestingIs DEF Shows, RestingOK
  <2> QED  BY <2>2, <2>3, Handles
<1>9. shown = b /\ shown' = c /\ id \notin DOMAIN b /\ id \in DOMAIN c
  BY <1>1, <1>2, <1>4 DEF Shows, Adds
<1>10. Shown!Add(id)
  <2>1. c[id] \in Shown!Order  BY <1>7 DEF Shown!Order, Shown!Side, Side
  <2>2. c = Shown!With(b, id, c[id])  BY <1>6 DEF Shown!With
  <2>3. c[id] = shown'[id] /\ shown' = Shown!With(shown, id, shown'[id])  BY <1>9, <2>2
  <2>4. id \in DOMAIN shown' /\ shown'[id] \in Shown!Order  BY <1>9, <2>1
  <2>5. id \notin DOMAIN shown /\ Cardinality(DOMAIN shown) < MaxOrders  BY <1>8, <1>9
  <2>6. Shown!Cardinality(DOMAIN shown) = Cardinality(DOMAIN shown)
    BY DEF Shown!Cardinality, Cardinality
  <2> QED  BY <2>3, <2>4, <2>5, <2>6 DEF Shown!Add
<1> QED  BY <1>10 DEF Shown!Next

LEMMA ReduceShown ==
  ASSUME Shows, NEW id \in OrderIds, NEW n \in ReduceQty, OnReduce(id, n), shown' = Resting'
  PROVE  Shown!Next
<1>1. PICK b : b = Resting  OBVIOUS
<1>2. PICK c : c = Resting'  OBVIOUS
<1>3. PICK o : o = orders_[FindId(id)]  OBVIOUS
<1>4. PICK take : take = Take(o, n)  OBVIOUS
<1>5. StoreInv' /\ b[id] = Shape(o) /\ Reduces(b, c, id, take)
  BY <1>1, <1>2, <1>3, <1>4, ReduceResting DEF Shows
<1>6. shown = b /\ shown' = c /\ id \in DOMAIN b  BY <1>1, <1>2, <1>5 DEF Shows, Reduces
<1>7. c = [i \in DOMAIN c |-> c[i]] /\ b = [i \in DOMAIN b |-> b[i]]
  <2>1. Resting' = [i \in DOMAIN Resting' |-> Resting'[i]] /\ Resting = [i \in DOMAIN Resting |-> Resting[i]]
    BY DEF Resting
  <2> QED  BY <1>1, <1>2, <2>1
<1>8. CASE id \in DOMAIN c
  <2>1. /\ DOMAIN c = DOMAIN b /\ \A i \in DOMAIN b \ {id} : c[i] = b[i]
        /\ c[id] = [side |-> b[id].side, level |-> b[id].level, qty |-> b[id].qty - take]
    BY <1>5, <1>8 DEF Reduces, Differ
  <2>2. take \in 1 .. b[id].qty - 1 /\ b[id].qty \in Nat
    <3>1. b[id].qty \in Nat  BY <1>5, Handles DEF Reduces, Differ, Book
    <3>2. take \in 1 .. b[id].qty /\ take # b[id].qty  BY <1>5, <1>8 DEF Reduces
    <3> QED  BY <3>1, <3>2
  <2>3. c[id].qty \in 1 .. b[id].qty - 1  BY <2>1, <2>2
  <2>4. [b[id] EXCEPT !.qty = c[id].qty] = c[id]  BY <1>5, <2>1 DEF Shape
  <2>5. c = [b EXCEPT ![id].qty = c[id].qty]  BY <1>6, <1>7, <2>1, <2>4
  <2> QED  BY <1>6, <1>8, <2>3, <2>5 DEF Shown!Shrink, Shown!Next
<1>9. CASE id \notin DOMAIN c
  <2>1. DOMAIN c = DOMAIN b \ {id} /\ \A i \in DOMAIN c : c[i] = b[i]
    BY <1>5, <1>9 DEF Reduces, Differ
  <2>2. c = [i \in DOMAIN b \ {id} |-> b[i]]  BY <1>7, <2>1
  <2>3. c = Shown!Without(b, id)  BY <2>2 DEF Shown!Without
  <2> QED  BY <1>6, <1>9, <2>3 DEF Shown!Remove, Shown!Next
<1> QED  BY <1>8, <1>9

LEMMA NextShows == Shows /\ [MCNext]_<<vars, shown>> => Shows' /\ [Shown!Next]_shown
<1> SUFFICES ASSUME Shows, [MCNext]_<<vars, shown>> PROVE Shows' /\ [Shown!Next]_shown  OBVIOUS
<1>1. [Next]_vars  BY DEF MCNext
<1>2. StoreInv'  BY <1>1, NextStore DEF Shows
<1>3. shown' = Resting'
  <2>1. CASE MCNext  BY <2>1 DEF MCNext
  <2>2. CASE UNCHANGED <<vars, shown>>  BY <2>2, SameResting DEF Shows
  <2> QED  BY <2>1, <2>2
<1>4. [Shown!Next]_shown
  <2>1. CASE UNCHANGED vars  BY <1>3, <2>1, SameResting DEF Shows
  <2>2. CASE \E price \in Prices : IgnoreAdd(price)  BY <2>1, <2>2 DEF IgnoreAdd
  <2>3. CASE \E id \in OrderIds : IgnoreReduce(id)  BY <2>1, <2>3 DEF IgnoreReduce
  <2>4. ASSUME NEW id \in OrderIds \ LiveIds, NEW side \in Side, NEW price \in Prices,
               NEW n \in AddQty, OnAdd(id, side, price, n)
        PROVE  Shown!Next
    BY <1>3, <2>4, AddShown
  <2>5. ASSUME NEW id \in OrderIds, NEW n \in ReduceQty, OnReduce(id, n) PROVE Shown!Next
    BY <1>3, <2>5, ReduceShown
  <2> QED  BY <1>1, <2>1, <2>2, <2>3, <2>4, <2>5 DEF Next
<1> QED  BY <1>2, <1>3, <1>4 DEF Shows

\* Slab, table, ladder and touch together are a set of resting orders keyed by id (on_add,
\* on_reduce): every call adds one, removes one, shrinks one or changes nothing.
THEOREM BookImplementsOrders == MCSpec => ImplementsBook
BY InitShows, NextShows, PTL DEF MCSpec, ImplementsBook, Shown!Spec
==============================================================================
