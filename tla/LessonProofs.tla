---------------------------- MODULE LessonProofs ----------------------------
(***************************************************************************)
(* Six listings of the lessons, for every size.  The feed arbitrator takes *)
(* no message twice and reports its gaps exactly; the seqlock's reader     *)
(* gets one payload, whole, under the release and acquire ordering of its  *)
(* stores; the token bucket admits what it may and refuses nothing else;   *)
(* the reciprocal divides and the fixed-point product rounds as the exact  *)
(* arithmetic does; the id map finds what is in it, and its table is the   *)
(* one that the ids in it give when they are inserted afresh; the ladder   *)
(* book keeps the links, quantities and best prices of the plain list of   *)
(* its orders, and loses no entry of its slab.  The parts are independent  *)
(* of each other.                                                          *)
(***************************************************************************)
EXTENDS Seqlock, FeedArbitrator, RateLimiter, FixedPoint, IdMap, LadderBook,
        DataLemmas

-----------------------------------------------------------------------------
(* The feed arbitrator. *)

Holding(n) == {g \in reported : g.lo <= n /\ n < g.hi}

TypesFit ==
  /\ sent \in [Line -> 0 .. Messages]
  /\ expected \in Nat \ {0}
  /\ taken \in [Numbers -> Nat]
  /\ \A g \in reported : g.lo \in Nat /\ g.hi \in Nat

(* Nothing is known yet of the messages that are still to come. *)
AheadUntouched ==
  /\ \A n \in Numbers : n >= expected => taken[n] = 0
  /\ \A g \in reported : g.hi < expected

ArbitratorInv == TypesFit /\ AheadUntouched /\ TakenOnce /\ GapsExact

LEMMA NoneHoldsAhead ==
  ASSUME TypesFit, AheadUntouched, NEW n \in Numbers, n >= expected
  PROVE  Holding(n) = {}
  BY DEF TypesFit, AheadUntouched, Holding, Numbers

LEMMA InitArbitrator == ArbitratorInit => ArbitratorInv
<1> SUFFICES ASSUME ArbitratorInit PROVE ArbitratorInv
  OBVIOUS
<1>1. TypesFit /\ AheadUntouched /\ TakenOnce
  BY ArbitratorAssumption DEF ArbitratorInit, TypesFit, AheadUntouched, TakenOnce, Numbers
<1>2. ASSUME NEW n \in Numbers
      PROVE  Cardinality(Holding(n)) = IF n < expected /\ taken[n] = 0 THEN 1 ELSE 0
  <2>1. Holding(n) = {} /\ ~(n < expected)
    BY DEF ArbitratorInit, Holding, Numbers
  <2>2. QED
    BY <2>1, FS_EmptySet
<1>3. GapsExact
  BY <1>2 DEF GapsExact, Holding
<1>4. QED
  BY <1>1, <1>3 DEF ArbitratorInv

(* A message taken in its turn. *)
LEMMA ProcessKeeps ==
  ASSUME ArbitratorInv, NEW seq \in Numbers, Process(seq), sent' \in [Line -> 0 .. Messages]
  PROVE  ArbitratorInv'
<1> USE DEF ArbitratorInv
<1>1. /\ seq = expected /\ expected' = expected + 1 /\ reported' = reported
      /\ taken' = [taken EXCEPT ![seq] = @ + 1]
  BY DEF Process, Take
<1>2. expected \in Nat \ {0} /\ taken \in [Numbers -> Nat] /\ taken[seq] = 0
  BY <1>1 DEF TypesFit, AheadUntouched, Numbers
<1>3. taken'[seq] = 1 /\ \A n \in Numbers : n # seq => taken'[n] = taken[n]
  BY <1>1, <1>2
<1>4. TypesFit'
  BY <1>1, <1>2 DEF TypesFit
<1>5. AheadUntouched' /\ TakenOnce'
  BY <1>1, <1>2, <1>3 DEF AheadUntouched, TakenOnce, TypesFit, Numbers
<1>6. ASSUME NEW n \in Numbers
      PROVE  Cardinality(Holding(n)) = IF n < expected' /\ taken'[n] = 0 THEN 1 ELSE 0
  <2>1. CASE n = seq
    <3>1. Holding(n) = {}
      BY <1>1, <1>2, <2>1, NoneHoldsAhead DEF Numbers
    <3>2. QED
      BY <1>3, <2>1, <3>1, FS_EmptySet
  <2>2. CASE n # seq
    <3>1. n < expected' <=> n < expected
      BY <1>1, <1>2, <2>2 DEF Numbers
    <3>2. Cardinality(Holding(n)) = IF n < expected /\ taken[n] = 0 THEN 1 ELSE 0
      BY DEF GapsExact, Holding
    <3>3. QED
      BY <1>3, <2>2, <3>1, <3>2
  <2>3. QED
    BY <2>1, <2>2
<1>7. GapsExact'
  BY <1>1, <1>6 DEF GapsExact, Holding
<1>8. QED
  BY <1>4, <1>5, <1>7

(* A message that shows others to be missing. *)
LEMMA GapKeeps ==
  ASSUME ArbitratorInv, NEW seq \in Numbers, Gap(seq), sent' \in [Line -> 0 .. Messages]
  PROVE  ArbitratorInv'
<1> USE DEF ArbitratorInv
<1> DEFINE new == [lo |-> expected, hi |-> seq]
<1>1. /\ seq > expected /\ expected' = seq + 1 /\ reported' = reported \cup {new}
      /\ taken' = [taken EXCEPT ![seq] = @ + 1]
  BY DEF Gap, Late, GapUpTo, AfterGap, Take, TypesFit, Numbers
<1>2. expected \in Nat \ {0} /\ taken \in [Numbers -> Nat] /\ taken[seq] = 0 /\ seq \in Nat
  BY <1>1 DEF TypesFit, AheadUntouched, Numbers
<1>3. taken'[seq] = 1 /\ \A n \in Numbers : n # seq => taken'[n] = taken[n]
  BY <1>1, <1>2
<1>4. TypesFit'
  BY <1>1, <1>2 DEF TypesFit
<1>5. AheadUntouched'
  BY <1>1, <1>2, <1>3 DEF AheadUntouched, TypesFit, Numbers
<1>6. TakenOnce'
  BY <1>3 DEF TakenOnce
<1>7. ASSUME NEW n \in Numbers
      PROVE  Cardinality(Holding(n)') = IF n < expected' /\ taken'[n] = 0 THEN 1 ELSE 0
  <2>0. Holding(n)' = Holding(n) \cup (IF expected <= n /\ n < seq THEN {new} ELSE {})
    BY <1>1 DEF Holding
  <2>1. CASE n < expected
    <3>1. Holding(n)' = Holding(n) /\ n # seq /\ n < expected'
      BY <1>1, <1>2, <2>0, <2>1 DEF Numbers
    <3>2. Cardinality(Holding(n)) = IF n < expected /\ taken[n] = 0 THEN 1 ELSE 0
      BY DEF GapsExact, Holding
    <3>3. QED
      BY <1>3, <2>1, <3>1, <3>2
  <2>2. CASE expected <= n /\ n < seq
    <3>1. Holding(n) = {}
      BY <1>2, <2>2, NoneHoldsAhead DEF Numbers
    <3>2. Holding(n)' = {new}
      BY <2>0, <2>2, <3>1
    <3>3. taken'[n] = 0 /\ n < expected'
      BY <1>1, <1>2, <1>3, <2>2 DEF AheadUntouched, Numbers
    <3>4. Cardinality({new}) = 1
      BY FS_Singleton
    <3>5. QED
      BY <3>2, <3>3, <3>4
  <2>3. CASE n >= seq
    <3>1. Holding(n) = {}
      BY <1>1, <1>2, <2>3, NoneHoldsAhead DEF Numbers
    <3>2. Holding(n)' = {}
      BY <1>1, <1>2, <2>0, <2>3, <3>1 DEF Numbers
    <3>3. ~(n < expected' /\ taken'[n] = 0)
      BY <1>1, <1>2, <1>3, <2>3 DEF Numbers
    <3>4. QED
      BY <3>2, <3>3, FS_EmptySet
  <2>4. QED
    BY <1>1, <1>2, <2>1, <2>2, <2>3 DEF Numbers
<1>8. GapsExact'
  BY <1>7 DEF GapsExact, Holding
<1>9. QED
  BY <1>4, <1>5, <1>6, <1>8

LEMMA QuietKeeps ==
  ASSUME ArbitratorInv, UNCHANGED <<expected, taken, reported>>, sent' \in [Line -> 0 .. Messages]
  PROVE  ArbitratorInv'
  BY DEF ArbitratorInv, TypesFit, AheadUntouched, TakenOnce, GapsExact

LEMMA NextArbitrator == ArbitratorInv /\ [ArbitratorNext]_arbitrator => ArbitratorInv'
<1> SUFFICES ASSUME ArbitratorInv, [ArbitratorNext]_arbitrator PROVE ArbitratorInv'
  OBVIOUS
<1>1. ASSUME NEW l \in Line, sent[l] < Messages, sent' = [sent EXCEPT ![l] = @ + 1]
      PROVE  sent' \in [Line -> 0 .. Messages] /\ sent[l] + 1 \in Numbers
  BY <1>1, ArbitratorAssumption DEF ArbitratorInv, TypesFit, Numbers
<1>2. CASE \E l \in Line : Arrives(l)
  <2>1. PICK l \in Line : Arrives(l)
    BY <1>2
  <2>2. sent' \in [Line -> 0 .. Messages] /\ sent[l] + 1 \in Numbers
    BY <1>1, <2>1 DEF Arrives
  <2>3. CASE Process(sent[l] + 1)
    BY <2>2, <2>3, ProcessKeeps
  <2>4. CASE Duplicate(sent[l] + 1)
    BY <2>2, <2>4, QuietKeeps DEF Duplicate
  <2>5. CASE Gap(sent[l] + 1)
    BY <2>2, <2>5, GapKeeps
  <2>6. QED
    BY <2>1, <2>3, <2>4, <2>5 DEF Arrives, Classify
<1>3. CASE \E l \in Line : IsLost(l)
  <2>1. PICK l \in Line : IsLost(l)
    BY <1>3
  <2>2. sent' \in [Line -> 0 .. Messages]
    BY <1>1, <2>1 DEF IsLost
  <2>3. QED
    BY <2>1, <2>2, QuietKeeps DEF IsLost
<1>4. CASE UNCHANGED arbitrator
  BY <1>4, QuietKeeps DEF arbitrator, ArbitratorInv, TypesFit
<1>5. QED
  BY <1>2, <1>3, <1>4 DEF ArbitratorNext

LEMMA AlwaysArbitrator == ArbitratorSpec => []ArbitratorInv
  BY InitArbitrator, NextArbitrator, PTL DEF ArbitratorSpec

(* The arbitrator hands every message on at most once, however many lines carry it. *)
THEOREM NeverTakenTwice == ArbitratorSpec => []TakenOnce
<1>1. ArbitratorInv => TakenOnce
  BY DEF ArbitratorInv
<1>2. QED
  BY <1>1, AlwaysArbitrator, PTL

(* The gaps read after each answer of Gap hold exactly the messages that were passed over,
   each in one gap. *)
THEOREM GapReportsExact == ArbitratorSpec => []GapsExact
<1>1. ArbitratorInv => GapsExact
  BY DEF ArbitratorInv
<1>2. QED
  BY <1>1, AlwaysArbitrator, PTL

(* Taken once, or in exactly one gap: for any lines and any number of messages. *)
THEOREM TakesOrReports == ArbitratorSpec => []TakenOrReported
<1>1. ArbitratorInv => TakenOrReported
  BY DEF ArbitratorInv, TakenOrReported
<1>2. QED
  BY <1>1, AlwaysArbitrator, PTL

-----------------------------------------------------------------------------
(* The seqlock. *)

\* What a store to the counter, or to a word, makes a thread see that takes its view over.
Store == [val : Nat, view : [Loc -> Nat]]
MemoryInv ==
  /\ writer \in {"idle", "copy", "dead"} /\ gen \in 0 .. MaxStores /\ unwritten \subseteq Word
  /\ mem \in [Loc -> Seq(Store)] /\ released \in [Loc -> Nat]
  /\ writer = "idle" => unwritten = {} /\ Len(mem[seq_]) = 2 * gen + 1
  /\ writer # "idle" => gen >= 1 /\ Len(mem[seq_]) = 2 * gen
  /\ writer = "copy" => s = 2 * gen - 2 /\ released[seq_] >= 2 * gen
  /\ \A w \in Word : Len(mem[w]) = IF w \in unwritten THEN gen ELSE gen + 1
CounterStores ==
  \A n \in 1 .. Len(mem[seq_]) :
    /\ mem[seq_][n].val = n - 1
    /\ \A g \in Nat, w \in Word : n = 2 * g + 1 => mem[seq_][n].view[w] >= g + 1
WordStores ==
  \A w \in Word : \A k \in 1 .. Len(mem[w]) :
    mem[w][k].val = k - 1 /\ mem[w][k].view[seq_] >= 2 * (k - 1)

\* What a reader that copies payload g has seen: every word since then, and, of a newer word,
\* the counter that was odd for it.
CopyInv ==
  /\ view \in [Loc -> Nat] /\ pending \in [Loc -> Nat] /\ tmp \in [Word -> Int]
  /\ reader = "copy" =>
       \E g \in Nat :
         /\ before = 2 * g
         /\ \A w \in Word : /\ view[w] >= g + 1
                            /\ tmp[w] # -1 => tmp[w] >= g /\ pending[seq_] >= 2 * tmp[w]
LoadedInv == \E g \in 0 .. gen : loaded.words = Payload(g) /\ loaded.oldest = g

SeqlockInv == MemoryInv /\ CounterStores /\ WordStores /\ CopyInv /\ LoadedInv

LEMMA Locations ==
  /\ seq_ \in Loc /\ \A w \in Word : w \in Loc /\ w # seq_
  /\ Oldest \in [Loc -> Nat]
  /\ MaxStores \in Nat /\ SeqWord \in Nat \ {0} /\ 2 * MaxStores + 2 < SeqWord
BY SeqlockAssumption DEF Loc, Oldest

LEMMA LaterIs ==
  ASSUME NEW u \in [Loc -> Nat], NEW v \in [Loc -> Nat]
  PROVE  /\ Later(u, v) \in [Loc -> Nat]
         /\ \A l \in Loc : Later(u, v)[l] >= u[l] /\ Later(u, v)[l] >= v[l]
BY DEF Later

LEMMA InitSeqlock == SeqlockInit => SeqlockInv
<1> SUFFICES ASSUME SeqlockInit PROVE SeqlockInv  OBVIOUS
<1> DEFINE first == [val |-> 0, view |-> Oldest]
<1>1. first \in Store /\ \A l \in Loc : mem[l] = <<first>>
  BY Locations DEF SeqlockInit, Store
<1>2. mem \in [Loc -> Seq(Store)]
  <2> HIDE DEF first
  <2>1. <<first>> \in Seq(Store)  BY <1>1
  <2> QED  BY <1>1, <2>1 DEF SeqlockInit, first
<1>3. \A l \in Loc : Len(mem[l]) = 1 /\ mem[l][1] = first
  BY <1>1
<1>4. \A l \in Loc : first.val = 0 /\ first.view[l] = 1  BY DEF Oldest
<1>5. MemoryInv  BY <1>2, <1>3, Locations DEF SeqlockInit, MemoryInv
<1>6. CounterStores /\ WordStores
  <2>1. \A n \in 1 .. 1 : n = 1 /\ \A g \in Nat : n = 2 * g + 1 => g = 0  OBVIOUS
  <2> HIDE DEF first
  <2>2. CounterStores
    <3> SUFFICES ASSUME NEW n \in 1 .. 1
                 PROVE  /\ mem[seq_][n].val = n - 1
                        /\ \A g \in Nat, w \in Word :
                             n = 2 * g + 1 => mem[seq_][n].view[w] >= g + 1
      BY <1>3, Locations DEF CounterStores
    <3>1. n = 1 /\ mem[seq_][n] = first  BY <1>3, <2>1, Locations
    <3> QED  BY <1>4, <2>1, <3>1, Locations
  <2>3. WordStores
    <3> SUFFICES ASSUME NEW w \in Word, NEW k \in 1 .. 1
                 PROVE  mem[w][k].val = k - 1 /\ mem[w][k].view[seq_] >= 2 * (k - 1)
      BY <1>3, Locations DEF WordStores
    <3>1. k = 1 /\ mem[w][k] = first  BY <1>3, <2>1, Locations
    <3> QED  BY <1>4, <3>1, Locations
  <2> QED  BY <2>2, <2>3
<1>7. CopyInv /\ LoadedInv
  BY Locations DEF SeqlockInit, CopyInv, LoadedInv, Payload
<1> QED  BY <1>5, <1>6, <1>7 DEF SeqlockInv

\* A store adds one entry to one location.
LEMMA StoredIs ==
  ASSUME mem \in [Loc -> Seq(Store)], NEW l \in Loc, NEW n \in Nat, n < SeqWord,
         NEW u \in [Loc -> Nat], mem' = Stored(l, n, u)
  PROVE  /\ mem' \in [Loc -> Seq(Store)]
         /\ \A m \in Loc : m # l => mem'[m] = mem[m]
         /\ Len(mem'[l]) = Len(mem[l]) + 1 /\ Len(mem[l]) \in Nat
         /\ \A k \in 1 .. Len(mem[l]) : mem'[l][k] = mem[l][k]
         /\ mem'[l][Len(mem[l]) + 1].val = n
         /\ \A m \in Loc : mem'[l][Len(mem[l]) + 1].view[m] >= u[m]
<1> DEFINE itself == [Oldest EXCEPT ![l] = Len(mem[l]) + 1]
           v == Later(u, itself)
           z == [val |-> n % SeqWord, view |-> v]
<1>1. mem[l] \in Seq(Store) /\ Len(mem[l]) \in Nat  OBVIOUS
<1>2. itself \in [Loc -> Nat]  BY <1>1, Locations
<1>3. v \in [Loc -> Nat] /\ \A m \in Loc : v[m] >= u[m]
  <2> HIDE DEF itself
  <2> QED  BY <1>2, LaterIs
<1>4. n % SeqWord = n
  <2>1. n \in 0 .. 2 * SeqWord - 1  BY Locations
  <2> QED  BY <2>1, Locations, Cyclic
<1>5. mem' = [mem EXCEPT ![l] = Append(mem[l], z)]  BY DEF Stored
<1>6. z \in Store /\ z.val = n /\ z.view = v  BY <1>3, <1>4 DEF Store
<1> HIDE DEF z, v
<1>7. /\ Append(mem[l], z) \in Seq(Store) /\ Len(Append(mem[l], z)) = Len(mem[l]) + 1
      /\ \A k \in 1 .. Len(mem[l]) : Append(mem[l], z)[k] = mem[l][k]
      /\ Append(mem[l], z)[Len(mem[l]) + 1] = z
  BY <1>1, <1>6
<1>8. mem'[l] = Append(mem[l], z) /\ \A m \in Loc : m # l => mem'[m] = mem[m]  BY <1>5
<1>9. mem' \in [Loc -> Seq(Store)]  BY <1>5, <1>7
<1> QED  BY <1>1, <1>3, <1>6, <1>7, <1>8, <1>9

LEMMA OddStoreKeeps == ASSUME SeqlockInv, OddStore PROVE SeqlockInv'
<1>1. /\ writer = "idle" /\ unwritten = {} /\ gen \in Nat /\ gen < MaxStores /\ Len(mem[seq_]) = 2 * gen + 1
      /\ mem \in [Loc -> Seq(Store)] /\ released \in [Loc -> Nat]
      /\ \A w \in Word : Len(mem[w]) = gen + 1
  BY Locations DEF SeqlockInv, MemoryInv, OddStore
<1>2. s' = 2 * gen
  <2>1. s' = mem[seq_][Len(mem[seq_])].val  BY DEF OddStore, Last
  <2>2. PICK n \in 1 .. Len(mem[seq_]) : n = Len(mem[seq_])  BY <1>1
  <2>3. mem[seq_][n].val = n - 1  BY DEF SeqlockInv, CounterStores
  <2> QED  BY <1>1, <2>1, <2>2, <2>3
<1>3. PICK n \in Nat : n = 2 * gen + 1  BY <1>1
<1>4. n < SeqWord /\ mem' = Stored(seq_, n, released)
  BY <1>1, <1>2, <1>3, Locations DEF OddStore
<1>5. /\ mem' \in [Loc -> Seq(Store)]
      /\ \A w \in Word : mem'[w] = mem[w]
      /\ Len(mem'[seq_]) = n + 1
      /\ \A k \in 1 .. n : mem'[seq_][k] = mem[seq_][k]
      /\ mem'[seq_][n + 1].val = n
  <2>1. seq_ \in Loc  BY Locations
  <2>2. /\ mem' \in [Loc -> Seq(Store)]
        /\ \A m \in Loc : m # seq_ => mem'[m] = mem[m]
        /\ Len(mem'[seq_]) = Len(mem[seq_]) + 1
        /\ \A k \in 1 .. Len(mem[seq_]) : mem'[seq_][k] = mem[seq_][k]
        /\ mem'[seq_][Len(mem[seq_]) + 1].val = n
    BY <1>1, <1>4, <2>1, StoredIs
  <2>3. Len(mem[seq_]) = n /\ \A w \in Word : w \in Loc /\ w # seq_  BY <1>1, <1>3, Locations
  <2> QED  BY <2>2, <2>3
<1>6. /\ released' = FirstFence /\ gen' = gen + 1 /\ unwritten' = Word /\ writer' = "copy"
      /\ UNCHANGED readers
  BY DEF OddStore
<1>7. released' \in [Loc -> Nat] /\ released'[seq_] = 2 * gen'
  <2>1. Latest \in [Loc -> Nat]  BY <1>1 DEF Latest
  <2>2. Latest[seq_] = 2 * gen + 1  BY <1>1, Locations DEF Latest
  <2> QED  BY <1>1, <1>6, <2>1, <2>2, Locations DEF FirstFence
<1>8. MemoryInv'
  <2>1. gen' \in 0 .. MaxStores /\ gen' >= 1 /\ Len(mem'[seq_]) = 2 * gen' /\ s' = 2 * gen' - 2
    BY <1>1, <1>2, <1>3, <1>5, <1>6, Locations
  <2>2. \A w \in Word : Len(mem'[w]) = gen'  BY <1>1, <1>5, <1>6
  <2> QED  BY <1>5, <1>6, <1>7, <2>1, <2>2 DEF MemoryInv
<1>9. CounterStores'
  <2> SUFFICES ASSUME NEW k \in 1 .. n + 1
               PROVE  /\ mem'[seq_][k].val = k - 1
                      /\ \A g \in Nat, w \in Word : k = 2 * g + 1 => mem'[seq_][k].view[w] >= g + 1
    BY <1>5 DEF CounterStores
  <2>1. CASE k \in 1 .. n
    <3>1. k \in 1 .. Len(mem[seq_])  BY <1>1, <1>3, <2>1
    <3> QED  BY <1>5, <2>1, <3>1 DEF SeqlockInv, CounterStores
  <2>2. CASE k = n + 1
    <3>1. \A g \in Nat : k # 2 * g + 1  BY <1>1, <1>3, <2>2
    <3>2. mem'[seq_][k].val = k - 1  BY <1>5, <2>2
    <3> QED  BY <3>1, <3>2
  <2> QED  BY <2>1, <2>2
<1>10. WordStores'  BY <1>5 DEF SeqlockInv, WordStores
<1>11. CopyInv' /\ LoadedInv'
  BY <1>1, <1>6 DEF readers, SeqlockInv, CopyInv, LoadedInv
<1> QED  BY <1>8, <1>9, <1>10, <1>11 DEF SeqlockInv

LEMMA StoreWordKeeps == ASSUME SeqlockInv, NEW w \in Word, StoreWord(w) PROVE SeqlockInv'
<1>1. /\ writer = "copy" /\ w \in unwritten /\ gen \in Nat /\ gen >= 1 /\ gen <= MaxStores
      /\ mem \in [Loc -> Seq(Store)] /\ released \in [Loc -> Nat]
      /\ Len(mem[w]) = gen /\ released[seq_] >= 2 * gen
      /\ UNCHANGED <<writer, s, gen, released, readers>> /\ unwritten' = unwritten \ {w}
      /\ mem' = Stored(w, gen, released) /\ gen < SeqWord
  BY Locations DEF SeqlockInv, MemoryInv, StoreWord
<1>2. /\ mem' \in [Loc -> Seq(Store)]
      /\ \A l \in Loc : l # w => mem'[l] = mem[l]
      /\ Len(mem'[w]) = gen + 1
      /\ \A k \in 1 .. gen : mem'[w][k] = mem[w][k]
      /\ mem'[w][gen + 1].val = gen /\ mem'[w][gen + 1].view[seq_] >= released[seq_]
      /\ mem'[w][gen + 1].view[seq_] \in Nat
  <2>1. w \in Loc  BY Locations
  <2>2. /\ mem' \in [Loc -> Seq(Store)]
        /\ \A l \in Loc : l # w => mem'[l] = mem[l]
        /\ Len(mem'[w]) = gen + 1
        /\ \A k \in 1 .. gen : mem'[w][k] = mem[w][k]
        /\ mem'[w][gen + 1].val = gen /\ mem'[w][gen + 1].view[seq_] >= released[seq_]
    BY <1>1, <2>1, StoredIs, Locations
  <2>3. mem'[w] \in Seq(Store) /\ gen + 1 \in 1 .. Len(mem'[w])  BY <1>1, <2>1, <2>2
  <2>4. mem'[w][gen + 1] \in Store  BY <2>3
  <2> QED  BY <2>2, <2>4, Locations DEF Store
<1>3. mem'[seq_] = mem[seq_]  BY <1>2, Locations
<1>4. MemoryInv'
  <2>1. \A z \in Word : Len(mem'[z]) = IF z \in unwritten' THEN gen ELSE gen + 1
    <3> TAKE z \in Word
    <3>1. CASE z = w  BY <1>1, <1>2, <3>1
    <3>2. CASE z # w  BY <1>1, <1>2, <3>2, Locations DEF SeqlockInv, MemoryInv
    <3> QED  BY <3>1, <3>2
  <2> QED  BY <1>1, <1>2, <1>3, <2>1 DEF SeqlockInv, MemoryInv
<1>5. CounterStores'  BY <1>3 DEF SeqlockInv, CounterStores
<1>6. WordStores'
  <2> SUFFICES ASSUME NEW z \in Word, NEW k \in 1 .. Len(mem'[z])
               PROVE  mem'[z][k].val = k - 1 /\ mem'[z][k].view[seq_] >= 2 * (k - 1)
    BY DEF WordStores
  <2>1. CASE z # w
    BY <1>2, <2>1, Locations DEF SeqlockInv, WordStores
  <2>2. CASE z = w /\ k \in 1 .. gen
    BY <1>1, <1>2, <2>2 DEF SeqlockInv, WordStores
  <2>3. CASE z = w /\ k = gen + 1
    <3>1. released[seq_] \in Nat  BY <1>1, Locations
    <3> QED  BY <1>1, <1>2, <2>3, <3>1
  <2> QED  BY <1>1, <1>2, <2>1, <2>2, <2>3
<1>7. CopyInv' /\ LoadedInv'  BY <1>1 DEF readers, SeqlockInv, CopyInv, LoadedInv
<1> QED  BY <1>4, <1>5, <1>6, <1>7 DEF SeqlockInv

LEMMA EvenStoreKeeps == ASSUME SeqlockInv, EvenStore PROVE SeqlockInv'
<1>1. /\ writer = "copy" /\ unwritten = {} /\ gen \in Nat /\ gen >= 1 /\ gen <= MaxStores
      /\ mem \in [Loc -> Seq(Store)] /\ s = 2 * gen - 2 /\ Len(mem[seq_]) = 2 * gen
      /\ \A w \in Word : Len(mem[w]) = gen + 1
      /\ released' = Latest /\ mem' = Stored(seq_, s + 2, released') /\ writer' = "idle"
      /\ UNCHANGED <<s, gen, unwritten, readers>>
  BY Locations DEF SeqlockInv, MemoryInv, EvenStore, SecondFence, Settled
<1>2. PICK n \in Nat : n = 2 * gen  BY <1>1
<1>3. n < SeqWord /\ s + 2 = n  BY <1>1, <1>2, Locations
<1>4. PICK u : u = released'  OBVIOUS
<1>5. u \in [Loc -> Nat] /\ \A w \in Word : u[w] = gen + 1
  BY <1>1, <1>4, Locations DEF Latest
<1>6. /\ mem' \in [Loc -> Seq(Store)]
      /\ \A w \in Word : mem'[w] = mem[w]
      /\ Len(mem'[seq_]) = n + 1
      /\ \A k \in 1 .. n : mem'[seq_][k] = mem[seq_][k]
      /\ mem'[seq_][n + 1].val = n
      /\ \A w \in Word : mem'[seq_][n + 1].view[w] >= u[w]
  <2>1. mem' = Stored(seq_, n, u) /\ seq_ \in Loc  BY <1>1, <1>3, <1>4, Locations
  <2>2. /\ mem' \in [Loc -> Seq(Store)]
        /\ \A m \in Loc : m # seq_ => mem'[m] = mem[m]
        /\ Len(mem'[seq_]) = Len(mem[seq_]) + 1
        /\ \A k \in 1 .. Len(mem[seq_]) : mem'[seq_][k] = mem[seq_][k]
        /\ mem'[seq_][Len(mem[seq_]) + 1].val = n
        /\ \A m \in Loc : mem'[seq_][Len(mem[seq_]) + 1].view[m] >= u[m]
    BY <1>1, <1>3, <1>5, <2>1, StoredIs
  <2>3. Len(mem[seq_]) = n /\ \A w \in Word : w \in Loc /\ w # seq_  BY <1>1, <1>2, Locations
  <2> QED  BY <2>2, <2>3
<1>7. MemoryInv'
  <2>1. \A w \in Word : Len(mem'[w]) = gen' + 1  BY <1>1, <1>6
  <2>2. Len(mem'[seq_]) = 2 * gen' + 1 /\ gen' \in 0 .. MaxStores
    BY <1>1, <1>2, <1>6, Locations
  <2>3. unwritten' = {} /\ writer' = "idle" /\ released' \in [Loc -> Nat]  BY <1>1, <1>4, <1>5
  <2> QED  BY <1>6, <2>1, <2>2, <2>3 DEF MemoryInv
<1>8. CounterStores'
  <2> SUFFICES ASSUME NEW k \in 1 .. n + 1
               PROVE  /\ mem'[seq_][k].val = k - 1
                      /\ \A g \in Nat, w \in Word : k = 2 * g + 1 => mem'[seq_][k].view[w] >= g + 1
    BY <1>6 DEF CounterStores
  <2>1. CASE k \in 1 .. n
    <3>1. k \in 1 .. Len(mem[seq_])  BY <1>1, <1>2, <2>1
    <3> QED  BY <1>6, <2>1, <3>1 DEF SeqlockInv, CounterStores
  <2>2. CASE k = n + 1
    <3>1. \A g \in Nat : k = 2 * g + 1 => g = gen  BY <1>1, <1>2, <2>2
    <3>2. \A w \in Word : mem'[seq_][k].view[w] >= gen + 1  BY <1>5, <1>6, <2>2
    <3>3. mem'[seq_][k].val = k - 1  BY <1>6, <2>2
    <3> QED  BY <3>1, <3>2, <3>3
  <2> QED  BY <2>1, <2>2
<1>9. WordStores'  BY <1>6 DEF SeqlockInv, WordStores
<1>10. CopyInv' /\ LoadedInv'  BY <1>1 DEF readers, SeqlockInv, CopyInv, LoadedInv
<1> QED  BY <1>7, <1>8, <1>9, <1>10 DEF SeqlockInv

LEMMA ReaderKeepsMemory ==
  ASSUME SeqlockInv, UNCHANGED <<memory, writers>>
  PROVE  MemoryInv' /\ CounterStores' /\ WordStores' /\ (UNCHANGED loaded => LoadedInv')
BY DEF memory, writers, SeqlockInv, MemoryInv, CounterStores, WordStores, LoadedInv

LEMMA LoadBeforeKeeps == ASSUME SeqlockInv, LoadBefore PROVE SeqlockInv'
<1>1. PICK n \in 1 .. Len(mem[seq_]) :
        /\ before' = mem[seq_][n].val
        /\ view' = Later([view EXCEPT ![seq_] = n], mem[seq_][n].view)
  BY DEF LoadBefore
<1>2. /\ before' % 2 # 1 => reader' = "copy"
      /\ before' % 2 = 1 => reader' = "begin"
      /\ pending' = view' /\ tmp' = [w \in Word |-> -1]
      /\ UNCHANGED <<memory, writers, loaded>>
  BY DEF LoadBefore, Retry
<1>3. before' = n - 1 /\ n \in Nat /\ \A g \in Nat, w \in Word : n = 2 * g + 1 => mem[seq_][n].view[w] >= g + 1
  BY <1>1 DEF SeqlockInv, CounterStores
<1>4. mem[seq_][n] \in Store /\ mem[seq_][n].view \in [Loc -> Nat]
  <2>1. mem[seq_] \in Seq(Store)  BY Locations DEF SeqlockInv, MemoryInv
  <2>2. mem[seq_][n] \in Store  BY <1>1, <2>1
  <2> QED  BY <2>2 DEF Store
<1>5. [view EXCEPT ![seq_] = n] \in [Loc -> Nat]  BY <1>3 DEF SeqlockInv, CopyInv
<1>6. view' \in [Loc -> Nat] /\ \A l \in Loc : view'[l] >= mem[seq_][n].view[l]
  BY <1>1, <1>4, <1>5, LaterIs
<1>7. CopyInv'
  <2>1. tmp' \in [Word -> Int] /\ \A w \in Word : tmp'[w] = -1  BY <1>2
  <2>2. ASSUME reader' = "copy"
        PROVE  \E g \in Nat :
                 /\ before' = 2 * g
                 /\ \A w \in Word : /\ view'[w] >= g + 1
                                    /\ tmp'[w] # -1 => tmp'[w] >= g /\ pending'[seq_] >= 2 * tmp'[w]
    <3>1. before' % 2 # 1  BY <1>2, <2>2
    <3>2. PICK g \in Nat : n = 2 * g + 1
      <4>1. (n - 1) % 2 # 1 /\ n - 1 \in Nat  BY <1>1, <1>3, <3>1
      <4>2. (n - 1) \div 2 \in Nat /\ n - 1 = 2 * ((n - 1) \div 2)  BY <4>1
      <4> QED  BY <1>3, <4>2
    <3>3. \A w \in Word : view'[w] \in Nat /\ mem[seq_][n].view[w] \in Nat
                          /\ view'[w] >= mem[seq_][n].view[w] /\ mem[seq_][n].view[w] >= g + 1
      BY <1>3, <1>4, <1>6, <3>2, Locations
    <3>4. \A w \in Word : view'[w] >= g + 1  BY <3>3
    <3>5. before' = 2 * g  BY <1>3, <3>2
    <3> QED  BY <2>1, <3>4, <3>5
  <2> QED  BY <1>2, <1>6, <2>1, <2>2 DEF CopyInv
<1> QED  BY <1>2, <1>7, ReaderKeepsMemory DEF SeqlockInv

LEMMA LoadWordKeeps == ASSUME SeqlockInv, NEW w \in Word, LoadWord(w) PROVE SeqlockInv'
<1>1. PICK n \in 1 .. Len(mem[w]) :
        /\ n \in view[w] .. Len(mem[w])
        /\ tmp' = [tmp EXCEPT ![w] = mem[w][n].val]
        /\ view' = [view EXCEPT ![w] = n]
        /\ pending' = Later([pending EXCEPT ![w] = n], mem[w][n].view)
  BY DEF LoadWord, Loads
<1>2. /\ reader = "copy" /\ reader' = "copy" /\ before' = before
      /\ UNCHANGED <<memory, writers, loaded>>
  BY DEF LoadWord
<1>3. mem[w][n].val = n - 1 /\ mem[w][n].view[seq_] >= 2 * (n - 1) /\ n \in Nat
  BY <1>1 DEF SeqlockInv, WordStores
<1>4. mem[w][n].view \in [Loc -> Nat]
  <2>1. mem[w] \in Seq(Store)  BY Locations DEF SeqlockInv, MemoryInv
  <2>2. mem[w][n] \in Store  BY <1>1, <2>1
  <2> QED  BY <2>2 DEF Store
<1>5. /\ view \in [Loc -> Nat] /\ pending \in [Loc -> Nat] /\ tmp \in [Word -> Int]
  BY DEF SeqlockInv, CopyInv
<1>6. PICK g \in Nat :
        /\ before = 2 * g
        /\ \A z \in Word : /\ view[z] >= g + 1
                           /\ tmp[z] # -1 => tmp[z] >= g /\ pending[seq_] >= 2 * tmp[z]
  BY <1>2 DEF SeqlockInv, CopyInv
<1>7. [pending EXCEPT ![w] = n] \in [Loc -> Nat] /\ [pending EXCEPT ![w] = n][seq_] = pending[seq_]
  BY <1>3, <1>5, Locations
<1>8. /\ pending' \in [Loc -> Nat] /\ pending'[seq_] >= pending[seq_]
      /\ pending'[seq_] >= mem[w][n].view[seq_]
  BY <1>1, <1>4, <1>7, LaterIs, Locations
<1>9. pending'[seq_] \in Nat /\ pending[seq_] \in Nat /\ mem[w][n].view[seq_] \in Nat
  BY <1>4, <1>5, <1>8, Locations
<1>10. n >= view[w] /\ view[w] >= g + 1 /\ view[w] \in Nat  BY <1>1, <1>5, <1>6, Locations
<1>11. \A z \in Word : /\ view'[z] >= g + 1
                       /\ tmp'[z] # -1 => tmp'[z] >= g /\ pending'[seq_] >= 2 * tmp'[z]
  <2> TAKE z \in Word
  <2>1. CASE z = w
    <3>1. view'[z] = n /\ tmp'[z] = n - 1  BY <1>1, <1>3, <1>5, <2>1, Locations
    <3> QED  BY <1>3, <1>8, <1>9, <1>10, <3>1
  <2>2. CASE z # w
    <3>1. view'[z] = view[z] /\ tmp'[z] = tmp[z] /\ tmp[z] \in Int
      BY <1>1, <1>5, <2>2, Locations
    <3> QED  BY <1>6, <1>8, <1>9, <3>1
  <2> QED  BY <2>1, <2>2
<1>12. view' \in [Loc -> Nat] /\ tmp' \in [Word -> Int]
  <2>1. view' \in [Loc -> Nat]  BY <1>1, <1>3, <1>5
  <2>2. n - 1 \in Int /\ tmp' = [tmp EXCEPT ![w] = n - 1]  BY <1>1, <1>3
  <2>3. tmp' \in [Word -> Int]  BY ONLY <1>5, <2>2
  <2> QED  BY <2>1, <2>3
<1>13. CopyInv'  BY <1>2, <1>6, <1>8, <1>11, <1>12 DEF CopyInv
<1> QED  BY <1>2, <1>13, ReaderKeepsMemory DEF SeqlockInv

LEMMA CheckKeeps == ASSUME SeqlockInv, Check PROVE SeqlockInv'
<1>1. PICK n \in 1 .. Len(mem[seq_]) :
        /\ n >= Fenced[seq_]
        /\ view' = [Fenced EXCEPT ![seq_] = n]
        /\ IF mem[seq_][n].val = before
           THEN loaded' = [words |-> tmp, oldest |-> before \div 2] /\ reader' = "returned"
           ELSE reader' = "begin" /\ UNCHANGED loaded
  BY DEF Check, Retry
<1>2. /\ reader = "copy" /\ UNCHANGED <<memory, writers, before, tmp, pending>>
      /\ \A w \in Word : tmp[w] # -1
  BY DEF Check
<1>3. view \in [Loc -> Nat] /\ pending \in [Loc -> Nat] /\ tmp \in [Word -> Int]
  BY DEF SeqlockInv, CopyInv
<1>4. Fenced \in [Loc -> Nat] /\ Fenced[seq_] >= pending[seq_]
  BY <1>3, LaterIs, Locations DEF Fenced
<1>5. n \in Nat /\ mem[seq_][n].val = n - 1 /\ pending[seq_] \in Nat /\ Fenced[seq_] \in Nat
  BY <1>1, <1>3, <1>4, Locations DEF SeqlockInv, CounterStores
<1>6. PICK g \in Nat :
        /\ before = 2 * g
        /\ \A w \in Word : tmp[w] # -1 => tmp[w] >= g /\ pending[seq_] >= 2 * tmp[w]
  BY <1>2 DEF SeqlockInv, CopyInv
<1>7. CopyInv'
  <2>1. view' \in [Loc -> Nat]  BY <1>1, <1>4, <1>5
  <2>2. reader' # "copy"  BY <1>1
  <2> QED  BY <1>2, <1>3, <2>1, <2>2 DEF CopyInv
<1>8. LoadedInv'
  <2>1. CASE mem[seq_][n].val = before
    <3>1. n = 2 * g + 1  BY <1>5, <1>6, <2>1
    <3>2. g \in 0 .. gen
      <4>1. Len(mem[seq_]) <= 2 * gen + 1 /\ gen \in Nat
        BY Locations DEF SeqlockInv, MemoryInv
      <4>2. Len(mem[seq_]) \in Nat  BY Locations DEF SeqlockInv, MemoryInv
      <4> QED  BY <1>1, <3>1, <4>1, <4>2
    <3>3. \A w \in Word : tmp[w] = g
      <4> TAKE w \in Word
      <4>1. tmp[w] \in Int /\ tmp[w] >= g /\ pending[seq_] >= 2 * tmp[w]  BY <1>2, <1>3, <1>6
      <4> QED  BY <1>1, <1>4, <1>5, <3>1, <4>1
    <3>4. tmp = Payload(g)  BY <1>3, <3>3 DEF Payload
    <3>5. before \div 2 = g  BY <1>6
    <3>6. loaded' = [words |-> tmp, oldest |-> before \div 2]  BY <1>1, <2>1
    <3>7. loaded'.words = Payload(g) /\ loaded'.oldest = g  BY <3>4, <3>5, <3>6
    <3> QED  BY <1>2, <3>2, <3>7 DEF LoadedInv, writers, Payload
  <2>2. CASE mem[seq_][n].val # before
    BY <1>1, <1>2, <2>2, ReaderKeepsMemory
  <2> QED  BY <2>1, <2>2
<1> QED  BY <1>2, <1>7, <1>8, ReaderKeepsMemory DEF SeqlockInv

LEMMA NextSeqlock == SeqlockInv /\ [SeqlockNext]_seqlock => SeqlockInv'
<1> SUFFICES ASSUME SeqlockInv, [SeqlockNext]_seqlock PROVE SeqlockInv'  OBVIOUS
<1>1. CASE Crash
  <2>1. writer = "copy" /\ writer' = "dead" /\ UNCHANGED <<memory, s, gen, unwritten, released, readers>>
    BY <1>1 DEF Crash
  <2> QED
    BY <2>1 DEF memory, readers, SeqlockInv, MemoryInv, CounterStores, WordStores, CopyInv, LoadedInv
<1>2. CASE LoadAgain
  <2>1. CopyInv'  BY <1>2 DEF LoadAgain, Retry, SeqlockInv, CopyInv
  <2>2. UNCHANGED <<memory, writers, loaded>>  BY <1>2 DEF LoadAgain
  <2> QED  BY <2>1, <2>2, ReaderKeepsMemory DEF SeqlockInv
<1>3. CASE UNCHANGED seqlock
  <2>1. UNCHANGED <<memory, writers>> /\ UNCHANGED readers  BY <1>3 DEF seqlock
  <2>2. CopyInv' /\ UNCHANGED loaded  BY <2>1 DEF readers, SeqlockInv, CopyInv
  <2> QED  BY <2>1, <2>2, ReaderKeepsMemory DEF SeqlockInv
<1> QED
  BY <1>1, <1>2, <1>3, OddStoreKeeps, EvenStoreKeeps, StoreWordKeeps, LoadBeforeKeeps, LoadWordKeeps,
     CheckKeeps DEF SeqlockNext, Writer, Reader

LEMMA SeqlockClean == SeqlockInv => CleanSnapshot
<1> SUFFICES ASSUME SeqlockInv PROVE CleanSnapshot  OBVIOUS
<1>1. PICK g \in 0 .. gen : loaded.words = Payload(g) /\ loaded.oldest = g
  BY DEF SeqlockInv, LoadedInv
<1>2. g \in Int /\ \A w \in Word : loaded.words[w] = g  BY <1>1 DEF Payload
<1> QED  BY <1>1, <1>2 DEF CleanSnapshot, NeverTorn, AsNewAsItsVersion

\* A load returns one payload, whole, and none older than the version it was read under, for
\* any number of words, although every load and store may be seen late (store, try_load, load).
THEOREM SnapshotAlwaysClean == SeqlockSpec => []CleanSnapshot
BY InitSeqlock, NextSeqlock, SeqlockClean, PTL DEF SeqlockSpec

-----------------------------------------------------------------------------
(* The rate limiter. *)

LEMMA RefillIs == refill_ns \in Nat \ {0} /\ per_sec \in Nat \ {0}
<1>1. per_sec \in Nat \ {0} /\ Second \in Nat /\ per_sec <= Second  BY RateAssumption
<1> DEFINE d == Second \div per_sec
           m == Second % per_sec
<1>2. m \in 0 .. per_sec - 1 /\ d \in Int /\ Second = per_sec * d + m
  BY <1>1, DivMod
<1> HIDE DEF d, m
<1>3. d >= 1
  <2> SUFFICES ASSUME d < 1 PROVE FALSE  BY <1>2
  <2>1. per_sec * d + per_sec <= per_sec * 1  BY <1>1, <1>2, MultiplesApart
  <2>2. per_sec * d \in Int  BY <1>1, <1>2
  <2> QED  BY <1>1, <1>2, <2>1, <2>2
<1> QED  BY <1>1, <1>2, <1>3 DEF refill_ns, d

\* The messages allowed from a point of time on.
Since(from) == Cardinality({n \in DOMAIN allowed : from <= allowed[n]})

LimiterTypes ==
  /\ tokens \in 0 .. per_sec /\ last_ns \in Nat /\ now \in Nat
  /\ last_ns <= now /\ now < last_ns + refill_ns
  /\ allowed \in Seq(Nat) /\ \A n \in DOMAIN allowed : allowed[n] <= now

\* However a stretch of time begins: what was let through since, and the tokens left, are no
\* more than one bucket and what has come in since, of which a part may have been waiting.
NoMore ==
  \A from \in 0 .. now :
    refill_ns * (Since(from) + tokens - per_sec) <= last_ns - from + refill_ns - 1

\* Since the bucket was full last, nothing was lost: what was let through since, and what is
\* left, is the bucket and what has come in.
NoLess ==
  \E from \in 0 .. last_ns : \E m \in Nat :
    last_ns - from = refill_ns * m /\ Since(from) + tokens = per_sec + m

LimiterInv == LimiterTypes /\ NoMore /\ NoLess /\ (refused => tokens = 0)

LEMMA SinceIs ==
  LimiterTypes => \A from \in Nat : Since(from) \in Nat /\ (from > now => Since(from) = 0)
<1> SUFFICES ASSUME LimiterTypes, NEW from \in Nat
             PROVE  Since(from) \in Nat /\ (from > now => Since(from) = 0)
  OBVIOUS
<1> DEFINE S == {n \in DOMAIN allowed : from <= allowed[n]}
<1>1. Len(allowed) \in Nat /\ DOMAIN allowed = 1 .. Len(allowed)  BY DEF LimiterTypes
<1>2. IsFiniteSet(1 .. Len(allowed))  BY <1>1, FS_Interval
<1>3. IsFiniteSet(S)  BY <1>1, <1>2, FS_Subset
<1>4. Cardinality(S) \in Nat  BY <1>3, FS_CardinalityType
<1>5. ASSUME from > now PROVE S = {}
  <2>1. \A n \in DOMAIN allowed : allowed[n] \in Nat /\ allowed[n] <= now /\ now \in Nat
    BY DEF LimiterTypes
  <2> QED  BY <1>5, <2>1
<1>6. from > now => Cardinality(S) = 0  BY <1>5, FS_EmptySet
<1> QED  BY <1>4, <1>6 DEF Since

\* A message let through counts in every stretch that has begun.
LEMMA OneMoreAllowed ==
  ASSUME LimiterTypes, NEW t \in Nat, allowed' = Append(allowed, t), NEW from \in 0 .. t
  PROVE  Since(from)' = Since(from) + 1
<1> DEFINE S == {n \in DOMAIN allowed : from <= allowed[n]}
           k == Len(allowed) + 1
<1>1. /\ Len(allowed) \in Nat /\ DOMAIN allowed = 1 .. Len(allowed) /\ DOMAIN allowed' = 1 .. k
      /\ \A n \in 1 .. Len(allowed) : allowed'[n] = allowed[n]
      /\ allowed'[k] = t
  BY DEF LimiterTypes
<1>2. {n \in DOMAIN allowed' : from <= allowed'[n]} = S \cup {k}
  <2>1. 1 .. k = 1 .. Len(allowed) \cup {k}  BY <1>1
  <2> HIDE DEF k
  <2> QED  BY <1>1, <2>1
<1>3. IsFiniteSet(S) /\ k \notin S
  <2>1. IsFiniteSet(1 .. Len(allowed))  BY <1>1, FS_Interval
  <2> QED  BY <1>1, <2>1, FS_Subset
<1> HIDE DEF S, k
<1>4. Cardinality(S \cup {k}) = Cardinality(S) + 1  BY <1>3, FS_AddElement
<1> QED  BY <1>2, <1>4 DEF Since, S

LEMMA InitLimiter == LimiterInit => LimiterInv
<1> SUFFICES ASSUME LimiterInit PROVE LimiterInv  OBVIOUS
<1>1. tokens = per_sec /\ last_ns = 0 /\ now = 0 /\ allowed = << >> /\ refused = FALSE
  BY DEF LimiterInit
<1>2. LimiterTypes  BY <1>1, RefillIs DEF LimiterTypes
<1>3. Since(0) = 0
  <2>1. {n \in DOMAIN allowed : 0 <= allowed[n]} = {}  BY <1>1
  <2> QED  BY <2>1, FS_EmptySet DEF Since
<1>4. refill_ns * (Since(0) + tokens - per_sec) = 0 /\ refill_ns * 0 = 0  BY <1>1, <1>3, RefillIs
<1>5. NoMore  BY <1>1, <1>4, RefillIs DEF NoMore
<1>6. NoLess
  <2>1. last_ns - 0 = refill_ns * 0 /\ Since(0) + tokens = per_sec + 0  BY <1>1, <1>3, <1>4, RefillIs
  <2>2. 0 \in 0 .. last_ns /\ 0 \in Nat  BY <1>1
  <2> QED  BY <2>1, <2>2 DEF NoLess
<1> QED  BY <1>1, <1>2, <1>5, <1>6 DEF LimiterInv

LEMMA NextLimiter == LimiterInv /\ [LimiterNext]_limiter => LimiterInv'
<1> SUFFICES ASSUME LimiterInv, [LimiterNext]_limiter PROVE LimiterInv'  OBVIOUS
<1>1. CASE UNCHANGED limiter
  BY <1>1 DEF limiter, LimiterInv, LimiterTypes, NoMore, NoLess, Since
<1>2. ASSUME NEW t \in now .. MaxTime, Allow(t) PROVE LimiterInv'
  <2> DEFINE E == Elapsed(t)
  <2>p. PICK r \in Nat \ {0}, b \in Nat \ {0} : r = refill_ns /\ b = per_sec  BY RefillIs
  <2>0. /\ tokens \in 0 .. b /\ last_ns \in Nat /\ now \in Nat /\ t \in Nat /\ now <= t
        /\ last_ns <= now /\ now < last_ns + r
    BY <2>p, RateAssumption DEF LimiterInv, LimiterTypes
  <2>1. E \in Nat /\ r * E \in Nat /\ r * E <= t - last_ns /\ t - last_ns < r * E + r
    <3> DEFINE a == t - last_ns
               d == a \div r
               m == a % r
    <3>1. a \in Nat  BY <2>0
    <3>2. m \in 0 .. r - 1 /\ d \in Int /\ a = r * d + m
      <4> HIDE DEF a
      <4> QED  BY <3>1, DivMod
    <3>3. E = d  BY <2>p DEF Elapsed
    <3> HIDE DEF d, m
    <3>4. r * d \in Int  BY <3>2
    <3>5. d >= 0
      <4> SUFFICES ASSUME d < 0 PROVE FALSE  BY <3>2
      <4>1. r * d + r <= r * 0  BY <3>2, MultiplesApart
      <4>2. r * 0 = 0  OBVIOUS
      <4> QED  BY <3>1, <3>2, <3>4, <4>1, <4>2
    <3>6. d \in Nat /\ r * d \in Nat  BY <3>2, <3>5
    <3> QED  BY <3>2, <3>3, <3>6
  <2>2. /\ now' = t /\ last_ns' = last_ns + r * E
        /\ refused' = (Refilled(t) = 0)
        /\ Refilled(t) = IF tokens + E > b THEN b ELSE tokens + E
    <3>1. now' = t /\ refused' = (Refilled(t) = 0)  BY <1>2 DEF Allow
    <3>2. last_ns' = last_ns + E * r  BY <1>2, <2>p DEF Allow, LastRefill
    <3>3. Refilled(t) = IF tokens + E > b THEN b ELSE tokens + E  BY <2>p DEF Refilled
    <3> HIDE DEF E
    <3>4. E * r = r * E  BY <2>1
    <3> QED  BY <3>1, <3>2, <3>3, <3>4
  <2> HIDE DEF E
  <2>3. PICK full \in 0 .. b : full = Refilled(t)  BY <2>0, <2>1, <2>2
  <2>4. \/ full = 0 /\ tokens' = 0 /\ allowed' = allowed
        \/ full # 0 /\ tokens' = full - 1 /\ allowed' = Append(allowed, t)
    <3>1. refused' <=> full = 0  BY <2>2, <2>3
    <3>2. CASE refused'  BY <1>2, <2>3, <3>1, <3>2 DEF Allow
    <3>3. CASE ~refused'  BY <1>2, <2>3, <3>1, <3>3 DEF Allow
    <3> QED  BY <3>2, <3>3
  <2>5. LimiterTypes'
    <3>1. last_ns' \in Nat /\ last_ns' <= t /\ t < last_ns' + r  BY <2>0, <2>1, <2>2
    <3>2. tokens' \in 0 .. b  BY <2>3, <2>4
    <3>3. allowed' \in Seq(Nat) /\ \A n \in DOMAIN allowed' : allowed'[n] <= t
      <4>1. allowed \in Seq(Nat) /\ \A n \in DOMAIN allowed : allowed[n] <= now /\ allowed[n] \in Nat
        BY DEF LimiterInv, LimiterTypes
      <4>2. CASE allowed' = allowed  BY <2>0, <4>1, <4>2
      <4>3. CASE allowed' = Append(allowed, t)
        <5>1. /\ Len(allowed) \in Nat /\ DOMAIN allowed = 1 .. Len(allowed)
              /\ DOMAIN allowed' = 1 .. Len(allowed) + 1
              /\ \A n \in 1 .. Len(allowed) : allowed'[n] = allowed[n]
              /\ allowed'[Len(allowed) + 1] = t
          BY <2>0, <4>1, <4>3
        <5>2. allowed' \in Seq(Nat)  BY <2>0, <4>1, <4>3
        <5> QED  BY <2>0, <4>1, <5>1, <5>2
      <4> QED  BY <2>4, <4>2, <4>3
    <3>4. last_ns' <= now' /\ now' < last_ns' + refill_ns /\ now' \in Nat  BY <2>0, <2>2, <2>p, <3>1
    <3> QED  BY <2>2, <2>p, <3>1, <3>2, <3>3, <3>4 DEF LimiterTypes
  <2>6. \A from \in 0 .. t : Since(from) \in Nat /\ Since(from)' \in Nat /\ Since(from)' + tokens' = Since(from) + full
    <3> TAKE from \in 0 .. t
    <3>1. Since(from) \in Nat  BY SinceIs, from \in Nat DEF LimiterInv
    <3>2. CASE allowed' = allowed /\ full = 0 /\ tokens' = 0
      BY <3>1, <3>2 DEF Since
    <3>3. CASE full # 0 /\ tokens' = full - 1 /\ allowed' = Append(allowed, t)
      <4>1. Since(from)' = Since(from) + 1  BY <2>0, <3>3, OneMoreAllowed DEF LimiterInv
      <4> QED  BY <2>3, <3>1, <3>3, <4>1
    <3> QED  BY <2>4, <3>2, <3>3
  <2>7. NoMore'
    <3> SUFFICES ASSUME NEW from \in 0 .. t
                 PROVE  r * (Since(from)' + tokens' - b) <= last_ns' - from + r - 1
      BY <2>2, <2>p DEF NoMore
    <3>1. PICK c \in Nat : c = Since(from)  BY <2>6
    <3>2. Since(from)' + tokens' = c + full /\ Since(from)' \in Nat /\ tokens' \in Nat
      BY <2>3, <2>4, <2>6, <3>1
    <3>3. CASE from <= now
      <4>1. r * (c + tokens - b) <= last_ns - from + r - 1
        BY <2>0, <2>p, <3>1, <3>3 DEF LimiterInv, NoMore
      <4>2. c + full - b <= c + tokens - b + E  BY <2>0, <2>1, <2>2, <2>3
      <4>3. PICK u \in Int, v \in Int : u = c + full - b /\ v = c + tokens - b /\ c + full - b = u
        BY <2>0, <2>3
      <4>4. r * u <= r * (v + E)
        <5>1. u <= v + E  BY <2>0, <2>1, <2>3, <4>2, <4>3
        <5>2. r * u \in Int /\ r * (v + E) \in Int  BY <2>1, <4>3
        <5>3. CASE u = v + E  BY <5>2, <5>3
        <5>4. CASE u < v + E
          <6>1. r * u + r <= r * (v + E)  BY <2>1, <4>3, <5>4, MultiplesApart
          <6> QED  BY <5>2, <6>1
        <5> QED  BY <2>1, <4>3, <5>1, <5>3, <5>4
      <4>5. r * (v + E) = r * v + r * E /\ r * v \in Int  BY <2>1, <4>3
      <4>6. r * u <= last_ns + r * E - from + r - 1
        <5>1. r * u \in Int  BY <4>3
        <5> HIDE <2>p
        <5> QED  BY <2>0, <2>1, <4>1, <4>3, <4>4, <4>5, <5>1
      <4>7. Since(from)' + tokens' - b = u  BY <3>2, <4>3
      <4>8. PICK z \in Int : z = last_ns'  BY <2>0, <2>1, <2>2
      <4>9. z = last_ns + r * E  BY <2>2, <4>8
      <4>10. r * u <= z - from + r - 1
        <5>1. r * u \in Int  BY <4>3
        <5> QED  BY <2>0, <2>1, <4>6, <4>9, <5>1
      <4> QED  BY <4>7, <4>8, <4>10
    <3>4. CASE from > now
      <4>1. c = 0
        <5>1. from \in Nat  OBVIOUS
        <5> QED  BY <3>1, <3>4, <5>1, SinceIs DEF LimiterInv
      <4>2. PICK u \in Int : u = full - b /\ u <= 0  BY <2>3
      <4>3. r * u <= 0
        <5>1. CASE u = 0  BY <5>1
        <5>2. CASE u < 0
          <6>1. r * u + r <= r * 0 /\ r * 0 = 0 /\ r * u \in Int  BY <4>2, <5>2, MultiplesApart
          <6> QED  BY <6>1
        <5> QED  BY <4>2, <5>1, <5>2
      <4>4. Since(from)' + tokens' - b = u  BY <3>2, <4>1, <4>2
      <4>5. last_ns' - from + r - 1 >= 0 /\ last_ns' - from + r - 1 \in Int  BY <2>0, <2>1, <2>2
      <4>6. r * u \in Int  BY <4>2
      <4> QED  BY <4>3, <4>4, <4>5, <4>6
    <3> QED  BY <2>0, <3>3, <3>4
  <2>8. NoLess'
    <3>1. CASE tokens + E > b
      <4>1. full = b /\ E # 0  BY <2>0, <2>1, <2>2, <2>3, <3>1
      <4>2. last_ns' \in 0 .. t /\ last_ns' > now
        <5>1. r * E >= r
          <6>1. r * 0 + r <= r * E  BY <2>1, <4>1, MultiplesApart
          <6> QED  BY <2>1, <6>1
        <5> QED  BY <2>0, <2>1, <2>2, <5>1
      <4>3. PICK f \in Nat : f = last_ns' /\ r * 0 = 0 /\ f - f = 0  BY <4>2
      <4>4. Since(f) = 0  BY <4>2, <4>3, SinceIs DEF LimiterInv
      <4>5. Since(f)' + tokens' = b  BY <2>6, <4>1, <4>2, <4>3, <4>4
      <4>6. last_ns' - f = 0 /\ f \in 0 .. last_ns'
        <5>1. f \in 0 .. f  BY f \in Nat
        <5> QED  BY <4>3, <5>1
      <4>7. last_ns' - f = refill_ns * 0 /\ Since(f)' + tokens' = per_sec + 0 /\ 0 \in Nat
        <5>1. refill_ns * 0 = 0 /\ per_sec + 0 = b  BY <2>p
        <5> QED  BY <4>5, <4>6, <5>1
      <4> QED  BY <4>6, <4>7 DEF NoLess
    <3>2. CASE ~(tokens + E > b)
      <4>1. full = tokens + E  BY <2>2, <2>3, <3>2
      <4>2. PICK f \in 0 .. last_ns, m \in Nat : last_ns - f = r * m /\ Since(f) + tokens = b + m
        <5>1. PICK f \in 0 .. last_ns : \E m \in Nat : last_ns - f = r * m /\ Since(f) + tokens = b + m
          BY <2>p DEF LimiterInv, NoLess
        <5> QED  BY <5>1
      <4>3. f \in 0 .. t /\ f \in 0 .. last_ns'  BY <2>0, <2>1, <2>2
      <4>4. Since(f)' + tokens' = b + (m + E)
        <5>1. Since(f) \in Nat /\ Since(f)' + tokens' = Since(f) + full  BY <2>6, <4>3
        <5> QED  BY <2>0, <2>1, <4>1, <4>2, <5>1
      <4>5. r * (m + E) = r * m + r * E /\ m + E \in Nat  BY <2>1
      <4>6. last_ns' - f = r * (m + E)
        <5>1. r * m \in Int  OBVIOUS
        <5> QED  BY <2>0, <2>1, <2>2, <4>2, <4>5, <5>1
      <4>7. last_ns' - f = refill_ns * (m + E) /\ Since(f)' + tokens' = per_sec + (m + E)
        BY <2>p, <4>4, <4>6
      <4> QED  BY <4>3, <4>5, <4>7 DEF NoLess
    <3> QED  BY <3>1, <3>2
  <2>9. refused' => tokens' = 0  BY <2>2, <2>3, <2>4
  <2> QED  BY <2>5, <2>7, <2>8, <2>9 DEF LimiterInv
<1> QED  BY <1>1, <1>2 DEF LimiterNext

LEMMA LimiterExact == LimiterInv => LimitExact
<1> SUFFICES ASSUME LimiterInv PROVE LimitExact  OBVIOUS
<1>p. PICK r \in Nat \ {0}, b \in Nat \ {0} : r = refill_ns /\ b = per_sec  BY RefillIs
<1>0. /\ tokens \in 0 .. b /\ last_ns \in Nat /\ now \in Nat
      /\ last_ns <= now /\ now < last_ns + r
  BY <1>p DEF LimiterInv, LimiterTypes
<1>1. \A from \in 0 .. now : Allowed(from, now) = Since(from) /\ Since(from) \in Nat
  <2> TAKE from \in 0 .. now
  <2>1. {n \in DOMAIN allowed : from <= allowed[n] /\ allowed[n] <= now}
          = {n \in DOMAIN allowed : from <= allowed[n]}
    BY DEF LimiterInv, LimiterTypes
  <2>2. from \in Nat  OBVIOUS
  <2> QED  BY <2>1, <2>2, SinceIs DEF Allowed, Since, LimiterInv
<1>2. WindowBounded
  <2> SUFFICES ASSUME NEW from \in 0 .. now
               PROVE  Since(from) <= b + (now - from) \div r + 1
    BY <1>1, <1>p DEF WindowBounded
  <2>1. r * (Since(from) + tokens - b) <= last_ns - from + r - 1
    BY <1>p DEF LimiterInv, NoMore
  <2>2. PICK u \in Int : u = Since(from) + tokens - b  BY <1>0, <1>1
  <2>3. r * (u - 1) = r * u - r /\ r * u \in Int /\ u - 1 \in Int  BY <2>2
  <2>4. r * (u - 1) <= now - from  BY <1>0, <2>1, <2>2, <2>3
  <2>5. u - 1 <= (now - from) \div r
    <3>1. now - from \in Int  BY <1>0
    <3> QED  BY <2>3, <2>4, <3>1, QuotientBounds
  <2>6. (now - from) \div r \in Int  BY <1>0, DivMod
  <2> QED  BY <1>0, <1>1, <2>2, <2>5, <2>6
<1>3. RefusedOnlyAtLimit
  <2> SUFFICES ASSUME refused
               PROVE  \E from \in 0 .. now : Since(from) >= b + (now - from) \div r
    BY <1>1, <1>p DEF RefusedOnlyAtLimit
  <2>1. PICK f \in 0 .. last_ns : \E m \in Nat : last_ns - f = r * m /\ Since(f) + tokens = b + m
    BY <1>p DEF LimiterInv, NoLess
  <2>2. PICK m \in Nat : last_ns - f = r * m /\ Since(f) + tokens = b + m  BY <2>1
  <2>3. tokens = 0 /\ f \in 0 .. now  BY <1>0 DEF LimiterInv
  <2>4. now - f \in Int /\ now - f < r * m + r
    <3>1. r * m \in Int  OBVIOUS
    <3> QED  BY <1>0, <2>2, <3>1
  <2>5. (now - f) \div r <= m  BY <2>4, QuotientBounds
  <2>6. (now - f) \div r \in Int  BY <2>4, DivMod
  <2>7. Since(f) >= b + (now - f) \div r  BY <1>1, <2>2, <2>3, <2>5, <2>6
  <2> QED  BY <2>3, <2>7
<1> QED  BY <1>2, <1>3 DEF LimitExact

\* The token bucket is exact on both sides, for every rate and whenever messages come (allow):
\* no stretch of time admits more than a burst and what has come in, and none that would still
\* admit a message refuses one.
THEOREM LimitAlwaysExact == LimiterSpec => []LimitExact
BY InitLimiter, NextLimiter, LimiterExact, PTL DEF LimiterSpec

-----------------------------------------------------------------------------
(* Fixed-point arithmetic. *)

CallsTyped ==
  /\ call \in {"divide", "round"}
  /\ call = "divide" => x \in 0 .. Two32 - 1 /\ y \in 1 .. Two32 - 1
  /\ call = "round" => x \in Int /\ y \in 1 .. MaxStep

LEMMA InitCalls == CallInit => CallsTyped
<1> SUFFICES ASSUME CallInit PROVE CallsTyped  OBVIOUS
<1>1. CASE call = "divide" /\ x = 0 /\ y \in 1 .. Two32 - 1
  <2>1. x \in 0 .. Two32 - 1
    <3>1. x = 0  BY <1>1
    <3> QED  BY <3>1, FixedPointAssumption
  <2> QED  BY <1>1, <2>1 DEF CallsTyped
<1>2. CASE call = "round" /\ x = -MaxNum /\ y \in 1 .. MaxStep
  <2>1. x \in Int
    <3>1. x = -MaxNum  BY <1>2
    <3> QED  BY <3>1, FixedPointAssumption
  <2> QED  BY <1>2, <2>1 DEF CallsTyped
<1> QED  BY <1>1, <1>2 DEF CallInit

LEMMA NextCalls == CallsTyped /\ [CallNext]_calls => CallsTyped'
<1> SUFFICES ASSUME CallsTyped, [CallNext]_calls PROVE CallsTyped'  OBVIOUS
<1>1. CASE UNCHANGED calls  BY <1>1 DEF calls, CallsTyped
<1>2. CASE CallNext
  <2>0. call' = call /\ y' = y /\ x' = x + 1  BY <1>2 DEF CallNext
  <2>1. CASE call = "divide"
    <3>1. x \in 0 .. Two32 - 1 /\ y \in 1 .. Two32 - 1  BY <2>1 DEF CallsTyped
    <3>2. x' <= Two32 - 1  BY <1>2, <2>1 DEF CallNext
    <3>3. x' \in 0 .. Two32 - 1  BY <2>0, <3>1, <3>2, FixedPointAssumption
    <3>4. call' = "divide" /\ y' \in 1 .. Two32 - 1  BY <2>0, <2>1, <3>1
    <3> QED  BY <3>3, <3>4 DEF CallsTyped
  <2>2. CASE call = "round"
    <3>1. x \in Int /\ y \in 1 .. MaxStep  BY <2>2 DEF CallsTyped
    <3>2. x' \in Int  BY <2>0, <3>1
    <3>3. call' = "round" /\ y' \in 1 .. MaxStep  BY <2>0, <2>2, <3>1
    <3> QED  BY <3>2, <3>3 DEF CallsTyped
  <2> QED  BY <2>1, <2>2 DEF CallsTyped
<1> QED  BY <1>1, <1>2

\* The reciprocal is too large by an excess of 1 up to d.
LEMMA ReciprocalIs ==
  ASSUME NEW d \in 1 .. Two32 - 1
  PROVE  /\ Mul(d) \in Nat /\ Excess(d) \in 1 .. d /\ Mul(d) * d = Two32 + Excess(d)
<1>0. Two32 \in Nat \ {0} /\ d \in Nat \ {0}  BY FixedPointAssumption
<1> DEFINE k == Two32 \div d
           m == Two32 % d
<1>1. m \in 0 .. d - 1 /\ k \in Int /\ Two32 = d * k + m  BY <1>0, DivMod
<1>2. k >= 0
  <2>1. d * 0 = 0  BY <1>0
  <2> QED  BY <1>0, <2>1, QuotientBounds
<1>3. Mul(d) = k + 1  BY DEF Mul
<1> HIDE DEF k, m
<1>4. (k + 1) * d = Two32 + (d - m)
  <2>1. (k + 1) * d = d * k + d /\ d * k \in Int  BY <1>0, <1>1
  <2> QED  BY <1>0, <1>1, <2>1
<1>5. Excess(d) = d - m
  <2>1. Excess(d) = (k + 1) * d - Two32  BY <1>3 DEF Excess
  <2> QED  BY <1>0, <1>1, <1>4, <2>1
<1> QED  BY <1>0, <1>1, <1>2, <1>3, <1>4, <1>5

LEMMA DivideIs ==
  ASSUME NEW d \in 1 .. Two32 - 1, NEW n \in 0 .. Two32 - 1
  PROVE  /\ n <= MaxX(d) => Divide(d, n) = n \div d
         /\ Divide(d, n) - n \div d \in {0, 1}
<1>1. PICK t \in Nat \ {0} : t = Two32 /\ d \in Nat \ {0} /\ d < t /\ n \in Nat /\ n < t
  BY FixedPointAssumption
<1>2. PICK m \in Nat : m = Mul(d) /\ Excess(d) \in 1 .. d /\ m * d = t + Excess(d)
  BY <1>1, ReciprocalIs
<1>3. PICK e \in Nat : e = Excess(d) /\ e >= 1 /\ e <= d /\ m * d = t + e  BY <1>1, <1>2
<1>4. PICK q \in Int, r \in 0 .. d - 1 : q = n \div d /\ n = d * q + r
  <2>1. n % d \in 0 .. d - 1 /\ n \div d \in Int /\ n = d * (n \div d) + (n % d)
    BY <1>1, DivMod
  <2> QED  BY <2>1
<1> DEFINE P == n * m
           f == P \div t
           Z == P - t * q
<1>5. P \in Nat /\ Divide(d, n) = f /\ f \in Int /\ Z \in Int /\ t * q \in Int
  <2>1. P \in Nat /\ t * q \in Int  BY <1>1
  <2>2. Divide(d, n) = f  BY <1>1, <1>2 DEF Divide
  <2>3. f \in Int
    <3> HIDE DEF P
    <3> QED  BY <2>1, DivMod
  <2> QED  BY <2>1, <2>2, <2>3
\* d times what the product is off by.
<1>6. d * Z = t * r + n * e
  <2>1. d * Z = n * (m * d) - t * (d * q)
    <3>1. d * (n * m) = n * (m * d) /\ d * (t * q) = t * (d * q)  BY <1>1
    <3>2. d * Z = d * (n * m) - d * (t * q)  BY <1>1
    <3> QED  BY <3>1, <3>2
  <2>2. n * (m * d) = n * t + n * e
    <3>1. n * (t + e) = n * t + n * e  BY <1>1
    <3> QED  BY <1>3, <3>1
  <2>3. t * (d * q) = t * n - t * r
    <3>1. d * q = n - r  BY <1>1, <1>4
    <3>2. t * (n - r) = t * n - t * r  BY <1>1
    <3> QED  BY <3>1, <3>2
  <2>4. n * t = t * n /\ n * t \in Int /\ n * e \in Int /\ t * r \in Int  BY <1>1
  <2> HIDE DEF Z
  <2> QED  BY <2>1, <2>2, <2>3, <2>4
<1>7. t * r \in Nat /\ n * e \in Nat /\ d * t \in Nat /\ t * r <= d * t - t
  <2>1. r \in Nat /\ d - 1 - r \in Nat  BY <1>1
  <2>2. t * (d - 1 - r) >= 0  BY <2>1
  <2>3. t * (d - 1 - r) = d * t - t - t * r  BY <1>1
  <2>4. t * r \in Nat /\ n * e \in Nat /\ d * t \in Nat  BY <1>1, <2>1
  <2> QED  BY <2>2, <2>3, <2>4
<1> HIDE DEF Z, f
<1>8. Z >= 0
  <2>1. d * (-1) < d * Z
    <3>1. d * (-1) = -d  BY <1>1
    <3> QED  BY <1>1, <1>5, <1>6, <1>7, <3>1
  <2>2. -1 < Z  BY <1>1, <1>5, <2>1, CancelFactor
  <2> QED  BY <1>5, <2>2
<1>9. P = t * q + Z  BY <1>5 DEF Z
<1> HIDE DEF P
<1>10. q <= f
  <2>1. t * q <= P  BY <1>5, <1>8, <1>9
  <2> QED  BY <1>5, <2>1, QuotientBounds DEF f
<1>11. f <= q + 1
  <2>1. n * e < d * t
    <3>1. (t - n) * e > 0 /\ (d - e) * t >= 0
      <4>1. t - n \in Nat \ {0} /\ e \in Nat \ {0} /\ d - e \in Nat  BY <1>1, <1>3
      <4> QED  BY <4>1
    <3>2. (t - n) * e = t * e - n * e /\ (d - e) * t = d * t - t * e  BY <1>1
    <3>3. t * e \in Int  BY <1>1
    <3> QED  BY <1>7, <3>1, <3>2, <3>3
  <2>2. d * Z < d * (2 * t)
    <3>1. d * (2 * t) = d * t + d * t  BY <1>1
    <3> QED  BY <1>1, <1>6, <1>7, <2>1, <3>1
  <2>3. Z < 2 * t  BY <1>1, <1>5, <2>2, CancelFactor
  <2>4. P < t * (q + 1) + t
    <3>1. t * (q + 1) = t * q + t  BY <1>1
    <3> QED  BY <1>1, <1>5, <1>9, <2>3, <3>1
  <2> QED  BY <1>5, <2>4, QuotientBounds DEF f
<1>12. ASSUME n <= MaxX(d) PROVE f <= q
  <2> DEFINE b == t \div e
             c == t % e
  <2>1. c \in 0 .. e - 1 /\ b \in Int /\ t = e * b + c /\ n <= b - 1
    <3>1. e \in Nat \ {0}  BY <1>3
    <3>2. MaxX(d) = b - 1  BY <1>1, <1>3 DEF MaxX
    <3> QED  BY <1>12, <3>1, <3>2, DivMod
  <2> HIDE DEF b, c
  <2>2. n * e < t
    <3>1. (b - 1 - n) * e >= 0
      <4>1. b - 1 - n \in Nat  BY <1>1, <2>1
      <4> QED  BY <4>1
    <3>2. (b - 1 - n) * e = e * b - e - n * e  BY <1>1, <2>1
    <3>3. e * b \in Int /\ n * e \in Int  BY <1>1, <2>1
    <3> QED  BY <1>3, <2>1, <3>1, <3>2, <3>3
  <2>3. d * Z < d * t  BY <1>1, <1>6, <1>7, <2>2
  <2>4. Z < t  BY <1>1, <1>5, <2>3, CancelFactor
  <2>5. P < t * q + t  BY <1>1, <1>5, <1>9, <2>4
  <2> QED  BY <1>5, <2>5, QuotientBounds DEF f
<1>13. f - q \in {0, 1} /\ (n <= MaxX(d) => f = q)  BY <1>5, <1>10, <1>11, <1>12
<1> QED  BY <1>4, <1>5, <1>13

\* The quotient is cut off towards zero, so the remainder has the sign of the dividend.
LEMMA CutOff ==
  ASSUME NEW n \in Int, NEW d \in Nat \ {0}
  PROVE  /\ Quotient(n, d) \in Int /\ Remainder(n, d) \in -(d - 1) .. d - 1
         /\ n = d * Quotient(n, d) + Remainder(n, d)
<1>1. CASE n < 0
  <2> DEFINE a == -n
             k == a \div d
             m == a % d
  <2>1. a \in Int  OBVIOUS
  <2>2. m \in 0 .. d - 1 /\ k \in Int /\ a = d * k + m
    <3> HIDE DEF a
    <3> QED  BY <2>1, DivMod
  <2>3. Quotient(n, d) = -k  BY <1>1 DEF Quotient
  <2> HIDE DEF k, m
  <2>4. d * (-k) = -(d * k) /\ d * k \in Int  BY <2>2
  <2>5. Remainder(n, d) = -m
    <3>1. Remainder(n, d) = n - d * (-k)  BY <2>3 DEF Remainder
    <3> QED  BY <2>1, <2>2, <2>4, <3>1
  <2> QED  BY <2>2, <2>3, <2>4, <2>5
<1>2. CASE ~(n < 0)
  <2> DEFINE k == n \div d
             m == n % d
  <2>2. m \in 0 .. d - 1 /\ k \in Int /\ n = d * k + m  BY DivMod
  <2>3. Quotient(n, d) = k  BY <1>2 DEF Quotient
  <2> HIDE DEF k, m
  <2>4. d * k \in Int  BY <2>2
  <2>5. Remainder(n, d) = m
    <3>1. Remainder(n, d) = n - d * k  BY <2>3 DEF Remainder
    <3> QED  BY <2>2, <2>4, <3>1
  <2> QED  BY <2>2, <2>3, <2>4, <2>5
<1> QED  BY <1>1, <1>2

\* The remainder by two tells odd from even on both sides of zero.
LEMMA Odd ==
  ASSUME NEW q \in Int
  PROVE  /\ Remainder(q, 2) = 0 => q % 2 = 0
         /\ Remainder(q, 2) # 0 => (q - 1) % 2 = 0 /\ (q + 1) % 2 = 0
<1>1. PICK k \in Int, r \in Int : r = Remainder(q, 2) /\ -2 < r /\ r < 2 /\ q = 2 * k + r
  <2>1. 2 \in Nat \ {0}  OBVIOUS
  <2>2. /\ Quotient(q, 2) \in Int /\ Remainder(q, 2) \in -(2 - 1) .. 2 - 1
        /\ q = 2 * Quotient(q, 2) + Remainder(q, 2)
    BY <2>1, CutOff
  <2>3. Remainder(q, 2) \in Int /\ -2 < Remainder(q, 2) /\ Remainder(q, 2) < 2  BY <2>2
  <2> QED  BY <2>2, <2>3
<1>2. \A j \in Int : (2 * j + 0) % 2 = 0  BY ModUnique
<1>3. CASE r = 0
  <2>1. q = 2 * k + 0  BY <1>1, <1>3
  <2> QED  BY <1>1, <1>2, <1>3, <2>1
<1>4. CASE r = 1
  <2>1. q - 1 = 2 * k + 0 /\ q + 1 = 2 * (k + 1) + 0 /\ k + 1 \in Int  BY <1>1, <1>4
  <2> QED  BY <1>1, <1>2, <1>4, <2>1
<1>5. CASE r = -1
  <2>1. q - 1 = 2 * (k - 1) + 0 /\ q + 1 = 2 * k + 0 /\ k - 1 \in Int  BY <1>1, <1>5
  <2> QED  BY <1>1, <1>2, <1>5, <2>1
<1> QED  BY <1>1, <1>3, <1>4, <1>5

LEMMA RoundIs ==
  ASSUME NEW num \in Int, NEW step \in Nat \ {0}
  PROVE  LET n == RoundHalfEven(num, step)
             Off(m) == AbsOf(num - m * step)
         IN \A m \in {n - 1, n + 1} : \/ Off(n) < Off(m)
                                      \/ Off(n) = Off(m) /\ n % 2 = 0
<1> DEFINE Off(m) == AbsOf(num - m * step)
<1>1. PICK q \in Int, r \in Int :
        /\ q = Quotient(num, step) /\ r = Remainder(num, step)
        /\ -step < r /\ r < step /\ num = step * q + r
  <2>1. /\ Quotient(num, step) \in Int /\ Remainder(num, step) \in -(step - 1) .. step - 1
        /\ num = step * Quotient(num, step) + Remainder(num, step)
    BY CutOff
  <2>2. /\ Remainder(num, step) \in Int
        /\ -step < Remainder(num, step) /\ Remainder(num, step) < step
    BY <2>1
  <2> QED  BY <2>1, <2>2
<1>2. ASSUME NEW j \in Int PROVE Off(q + j) = AbsOf(r - j * step)
  <2>1. num - (q + j) * step = r - j * step
    <3>1. (q + j) * step = step * q + j * step /\ step * q \in Int /\ j * step \in Int  OBVIOUS
    <3> QED  BY <1>1, <3>1
  <2> QED  BY <2>1
<1>3. /\ Off(q) = AbsOf(r)
      /\ Off(q + 1) = AbsOf(r - step) /\ Off(q - 1) = AbsOf(r + step)
      /\ Off(q + 2) = AbsOf(r - 2 * step) /\ Off(q - 2) = AbsOf(r + 2 * step)
  <2>1. q + 0 = q /\ q + (-1) = q - 1 /\ q + (-2) = q - 2  OBVIOUS
  <2>2. r - 0 * step = r /\ r - 1 * step = r - step /\ r - (-1) * step = r + step
        /\ r - (-2) * step = r + 2 * step
    OBVIOUS
  <2> HIDE DEF Off
  <2>3. /\ Off(q + 0) = AbsOf(r - 0 * step) /\ Off(q + 1) = AbsOf(r - 1 * step)
        /\ Off(q + (-1)) = AbsOf(r - (-1) * step) /\ Off(q + 2) = AbsOf(r - 2 * step)
        /\ Off(q + (-2)) = AbsOf(r - (-2) * step)
    BY <1>2, 0 \in Int, 1 \in Int, 2 \in Int, -1 \in Int, -2 \in Int
  <2> QED  BY <2>1, <2>2, <2>3
<1>4. /\ Remainder(q, 2) = 0 => q % 2 = 0
      /\ Remainder(q, 2) # 0 => (q - 1) % 2 = 0 /\ (q + 1) % 2 = 0
  BY Odd
<1>5. PICK n \in {q - 1, q, q + 1} :
        /\ n = RoundHalfEven(num, step)
        /\ n = IF AbsOf(r) * 2 > step \/ (AbsOf(r) * 2 = step /\ Remainder(q, 2) # 0)
               THEN IF r < 0 THEN q - 1 ELSE q + 1
               ELSE q
  BY <1>1 DEF RoundHalfEven
<1> HIDE DEF Off
<1>6. ASSUME NEW m \in {n - 1, n + 1}
      PROVE  Off(n) < Off(m) \/ (Off(n) = Off(m) /\ n % 2 = 0)
  <2>1. CASE n = q
    <3>1. m = q - 1 \/ m = q + 1  BY <2>1
    <3>2. AbsOf(r) * 2 <= step /\ (AbsOf(r) * 2 = step => q % 2 = 0)
      BY <1>1, <1>4, <1>5, <2>1 DEF AbsOf
    <3>3. AbsOf(r) < AbsOf(r - step) \/ (AbsOf(r) = AbsOf(r - step) /\ AbsOf(r) * 2 = step)
      <4>1. CASE r < 0  BY <1>1, <4>1 DEF AbsOf
      <4>2. CASE ~(r < 0)
        <5>1. AbsOf(r) = r /\ AbsOf(r - step) = step - r  BY <1>1, <4>2 DEF AbsOf
        <5> QED  BY <1>1, <3>2, <5>1
      <4> QED  BY <4>1, <4>2
    <3>4. AbsOf(r) < AbsOf(r + step) \/ (AbsOf(r) = AbsOf(r + step) /\ AbsOf(r) * 2 = step)
      BY <1>1, <3>2 DEF AbsOf
    <3> QED  BY <1>3, <2>1, <3>1, <3>2, <3>3, <3>4
  <2>2. CASE n # q
    <3>1. AbsOf(r) * 2 >= step /\ (AbsOf(r) * 2 = step => Remainder(q, 2) # 0)
          /\ n = IF r < 0 THEN q - 1 ELSE q + 1
      BY <1>1, <1>5, <2>2 DEF AbsOf
    <3>2. CASE r < 0
      <4>1. n = q - 1 /\ (m = q - 2 \/ m = q)  BY <3>1, <3>2
      <4>2. AbsOf(r + step) < AbsOf(r) \/ (AbsOf(r + step) = AbsOf(r) /\ AbsOf(r) * 2 = step)
        BY <1>1, <3>1, <3>2 DEF AbsOf
      <4>3. AbsOf(r + step) < AbsOf(r + 2 * step)  BY <1>1, <3>2 DEF AbsOf
      <4> QED  BY <1>3, <1>4, <3>1, <4>1, <4>2, <4>3
    <3>3. CASE ~(r < 0)
      <4>1. n = q + 1 /\ (m = q + 2 \/ m = q)  BY <3>1, <3>3
      <4>2. AbsOf(r - step) < AbsOf(r) \/ (AbsOf(r - step) = AbsOf(r) /\ AbsOf(r) * 2 = step)
        <5>1. AbsOf(r) = r /\ AbsOf(r - step) = step - r  BY <1>1, <3>3 DEF AbsOf
        <5>2. r * 2 >= step  BY <3>1, <5>1
        <5>3. CASE r * 2 > step
          <6>1. step - r < r  BY <1>1, <5>3
          <6> QED  BY <5>1, <6>1
        <5>4. CASE r * 2 = step
          <6>1. step - r = r  BY <1>1, <5>4
          <6> QED  BY <5>1, <5>4, <6>1
        <5> QED  BY <1>1, <5>2, <5>3, <5>4
      <4>3. AbsOf(r - step) < AbsOf(r - 2 * step)  BY <1>1, <3>3 DEF AbsOf
      <4> QED  BY <1>3, <1>4, <3>1, <4>1, <4>2, <4>3
    <3> QED  BY <3>2, <3>3
  <2> QED  BY <2>1, <2>2
<1> QED  BY <1>5, <1>6 DEF Off

LEMMA CallsExact == CallsTyped => ArithmeticExact
<1> SUFFICES ASSUME CallsTyped PROVE ArithmeticExact  OBVIOUS
<1>1. ReciprocalExact
  <2> SUFFICES ASSUME call = "divide"
               PROVE  /\ x <= MaxX(y) => Divide(y, x) = x \div y
                      /\ Divide(y, x) - x \div y \in {0, 1}
    BY DEF ReciprocalExact
  <2>1. x \in 0 .. Two32 - 1 /\ y \in 1 .. Two32 - 1  BY DEF CallsTyped
  <2> QED  BY <2>1, DivideIs
<1>2. RoundsToNearestEven
  <2> SUFFICES ASSUME call = "round"
               PROVE  LET n == RoundHalfEven(x, y)
                          Off(m) == AbsOf(x - m * y)
                      IN \A m \in {n - 1, n + 1} : \/ Off(n) < Off(m)
                                                   \/ Off(n) = Off(m) /\ n % 2 = 0
    BY DEF RoundsToNearestEven
  <2>1. x \in Int /\ y \in 1 .. MaxStep  BY DEF CallsTyped
  <2>2. y \in Nat \ {0}  BY <2>1, FixedPointAssumption
  <2> QED  BY <2>1, <2>2, RoundIs
<1> QED  BY <1>1, <1>2 DEF ArithmeticExact

\* Division by the reciprocal and rounding half to even give what exact arithmetic gives,
\* for every width of the words and every argument (content/40-correctness-and-risk.md).
THEOREM ArithmeticAlwaysExact == CallSpec => []ArithmeticExact
BY InitCalls, NextCalls, CallsExact, PTL DEF CallSpec
-----------------------------------------------------------------------------
(* The id map. *)

(* Steps onward from one slot to another, around the table. *)
Dist(a, b) == IF a <= b THEN b - a ELSE b - a + kSlots

LEMMA SlotsThere == kSlots \in Nat \ {0} /\ MaxLive \in Nat /\ MaxLive < kSlots /\ NoValue \notin Mapped
BY IdMapAssumption

LEMMA DistIs ==
  ASSUME NEW a \in TableSlot, NEW b \in TableSlot
  PROVE  /\ Dist(a, b) \in 0 .. kSlots - 1 /\ Dist(a, a) = 0
         /\ Onward(a, Dist(a, b)) = b
         /\ \A c \in TableSlot : Dist(a, b) = Dist(a, c) => b = c
<1>1. kSlots \in Nat \ {0} /\ a \in 0 .. kSlots - 1 /\ b \in 0 .. kSlots - 1
  BY SlotsThere DEF TableSlot
<1>2. Dist(a, b) \in 0 .. kSlots - 1 /\ Dist(a, a) = 0
  BY <1>1 DEF Dist
<1>3. PICK n \in 0 .. 2 * kSlots - 1 : n = a + Dist(a, b)
  BY <1>1, <1>2
<1>4. n % kSlots = IF n < kSlots THEN n ELSE n - kSlots
  BY <1>1, Cyclic
<1>5. (IF n < kSlots THEN n ELSE n - kSlots) = b
  BY <1>1, <1>3 DEF Dist
<1>6. \A c \in TableSlot : Dist(a, b) = Dist(a, c) => b = c
  BY <1>1 DEF Dist, TableSlot
<1>7. QED
  BY <1>2, <1>3, <1>4, <1>5, <1>6 DEF Onward

LEMMA OnwardIs ==
  ASSUME NEW a \in TableSlot, NEW d \in 0 .. kSlots - 1
  PROVE  Onward(a, d) \in TableSlot /\ Dist(a, Onward(a, d)) = d
<1>1. kSlots \in Nat \ {0} /\ a \in 0 .. kSlots - 1
  BY SlotsThere DEF TableSlot
<1>2. PICK n \in 0 .. 2 * kSlots - 1 : n = a + d
  BY <1>1
<1>3. n % kSlots = IF n < kSlots THEN n ELSE n - kSlots
  BY <1>1, Cyclic
<1>4. PICK b : b = (IF n < kSlots THEN n ELSE n - kSlots)
  OBVIOUS
<1>5. b \in 0 .. kSlots - 1 /\ Dist(a, b) = d
  BY <1>1, <1>2, <1>4 DEF Dist
<1>6. QED
  BY <1>2, <1>3, <1>4, <1>5 DEF Onward, TableSlot

(* Who passes a and ends at c passes what lies between the two. *)
LEMMA PassesBetween ==
  ASSUME NEW o \in TableSlot, NEW h \in TableSlot, NEW a \in TableSlot, NEW b \in TableSlot,
         NEW c \in TableSlot, Dist(o, a) < Dist(o, b), Dist(o, b) < Dist(o, c),
         Dist(h, a) < Dist(h, c)
  PROVE  Dist(h, b) < Dist(h, c)
BY SlotsThere DEF Dist, TableSlot

(* Who passes j and ends before it has come around. *)
LEMMA ComesAround ==
  ASSUME NEW o \in TableSlot, NEW h \in TableSlot, NEW j \in TableSlot, NEW b \in TableSlot,
         NEW c \in TableSlot, Dist(o, c) < Dist(o, j), Dist(h, j) < Dist(h, c)
  PROVE  Dist(o, b) > Dist(o, j) \/ Dist(o, b) < Dist(o, c) => Dist(h, b) < Dist(h, c)
BY SlotsThere DEF Dist, TableSlot

LEMMA InsideIs ==
  ASSUME NEW h \in TableSlot, NEW a \in TableSlot, NEW j \in TableSlot, a # j
  PROVE  Inside(h, a, j) <=> ~(Dist(h, a) < Dist(h, j))
BY SlotsThere DEF Dist, TableSlot, Inside

(* The tables, and the sequences of entries with no id twice. *)
Entry == [key : Key, val : Mapped]
Tables ==
  {t \in [keys : [TableSlot -> Key \cup {NoValue}], vals : [TableSlot -> Mapped \cup {NoValue}]] :
     \A i \in TableSlot : t.vals[i] # NoValue => t.keys[i] \in Key}
Listed(list) == list \in Seq(Entry) /\ \A m, n \in DOMAIN list : list[m].key = list[n].key => m = n

(* The table t holds the entries, the n-th at q[n]; between its home and its slot are only *)
(* entries that came before it.                                                           *)
LaidOut(h, t, list, q) ==
  /\ h \in [Key -> TableSlot] /\ t \in Tables /\ Listed(list) /\ q \in [DOMAIN list -> TableSlot]
  /\ \A i \in TableSlot : t.vals[i] # NoValue <=> \E n \in DOMAIN list : q[n] = i
  /\ \A n \in DOMAIN list : t.keys[q[n]] = list[n].key /\ t.vals[q[n]] = list[n].val
  /\ \A n \in DOMAIN list, i \in TableSlot :
       Dist(h[list[n].key], i) < Dist(h[list[n].key], q[n]) => \E m \in DOMAIN list : m < n /\ q[m] = i

LEMMA OneSlotEach ==
  ASSUME NEW h, NEW t, NEW list, NEW q, LaidOut(h, t, list, q)
  PROVE  /\ \A m, n \in DOMAIN list : q[m] = q[n] => m = n
         /\ \A n \in DOMAIN list : /\ n \in 1 .. Len(list) /\ list[n].key \in Key /\ list[n].val \in Mapped
                                   /\ q[n] \in TableSlot /\ h[list[n].key] \in TableSlot
                                   /\ list[n] = [key |-> list[n].key, val |-> list[n].val]
         /\ DOMAIN list = 1 .. Len(list) /\ Len(list) \in Nat
<1>1. list \in Seq(Entry) /\ DOMAIN list = 1 .. Len(list) /\ Len(list) \in Nat
  BY DEF LaidOut, Listed
<1>2. \A n \in DOMAIN list : list[n] \in Entry
  BY <1>1
<1>3. \A n \in DOMAIN list : list[n].key \in Key /\ list[n].val \in Mapped
                          /\ list[n] = [key |-> list[n].key, val |-> list[n].val]
  BY <1>2 DEF Entry
<1>4. \A m, n \in DOMAIN list : q[m] = q[n] => m = n
  BY DEF LaidOut, Listed
<1>5. QED
  BY <1>1, <1>3, <1>4 DEF LaidOut

(* Fewer entries than slots leave a slot empty. *)
LEMMA RoomLeft ==
  ASSUME NEW h, NEW t, NEW list, NEW q, LaidOut(h, t, list, q), Len(list) <= MaxLive
  PROVE  \E i \in TableSlot : t.vals[i] = NoValue
<1>1. SUFFICES ASSUME \A i \in TableSlot : t.vals[i] # NoValue PROVE FALSE
  OBVIOUS
<1>2. q \in Surjection(1 .. Len(list), TableSlot) /\ Len(list) \in Nat
  <2>1. q \in [1 .. Len(list) -> TableSlot] /\ Len(list) \in Nat
    BY OneSlotEach DEF LaidOut
  <2>2. \A i \in TableSlot : \E n \in 1 .. Len(list) : q[n] = i
    BY <1>1, OneSlotEach DEF LaidOut
  <2>3. QED
    BY <2>1, <2>2 DEF Surjection
<1>3. IsFiniteSet(1 .. Len(list)) /\ Cardinality(1 .. Len(list)) = Len(list)
  <2>1. CASE Len(list) = 0
    <3>1. 1 .. Len(list) = {}
      BY <2>1
    <3>2. QED
      BY <2>1, <3>1, FS_EmptySet
  <2>2. CASE Len(list) # 0
    <3>1. 1 \in Int /\ Len(list) \in Int /\ 1 <= Len(list)
      BY <1>2, <2>2
    <3>2. IsFiniteSet(1 .. Len(list)) /\ Cardinality(1 .. Len(list)) = Len(list) - 1 + 1
      BY <3>1, FS_Interval
    <3>3. QED
      BY <1>2, <3>2
  <2>3. QED
    BY <2>1, <2>2
<1>4. Cardinality(TableSlot) = kSlots
  <2>1. 0 \in Int /\ kSlots - 1 \in Int /\ 0 <= kSlots - 1 /\ (kSlots - 1) - 0 + 1 = kSlots
    BY SlotsThere
  <2>2. QED
    BY <2>1, FS_Interval DEF TableSlot
<1>5. Cardinality(TableSlot) <= Cardinality(1 .. Len(list))
  BY <1>2, <1>3, FS_Surjection
<1>6. QED
  BY <1>2, <1>3, <1>4, <1>5, SlotsThere

(* A probe ends at the first slot that is empty or has the id. *)
LEMMA ProbeEnds ==
  ASSUME home \in [Key -> TableSlot], NEW t, NEW k \in Key,
         NEW i \in TableSlot, t.vals[i] = NoValue \/ t.keys[i] = k
  PROVE  /\ Probe(t, k) \in TableSlot
         /\ t.vals[Probe(t, k)] = NoValue \/ t.keys[Probe(t, k)] = k
         /\ \A j \in TableSlot : Dist(home[k], j) < Dist(home[k], Probe(t, k)) =>
              t.vals[j] # NoValue /\ t.keys[j] # k
<1> DEFINE Ends(d) == t.vals[Onward(home[k], d)] = NoValue \/ t.keys[Onward(home[k], d)] = k
           S == {d \in TableSlot : Ends(d)}
<1>1. PICK a \in TableSlot : a = home[k]
  OBVIOUS
<1>2. S \subseteq Nat /\ S # {} /\ S \subseteq 0 .. kSlots - 1
  <2>1. Dist(a, i) \in TableSlot /\ Onward(a, Dist(a, i)) = i
    BY DistIs DEF TableSlot
  <2>2. QED
    BY <1>1, <2>1 DEF TableSlot
<1>3. PICK d : d = Min(S)
  OBVIOUS
<1>4. d \in S /\ \A c \in S : d <= c
  <2> HIDE DEF S
  <2>1. QED
    BY <1>2, <1>3, MinNat
<1>5. Probe(t, k) = Onward(a, d)
  BY <1>1, <1>3 DEF Probe
<1>6. PICK p : p = Onward(a, d)
  OBVIOUS
<1>7. p \in TableSlot /\ Dist(a, p) = d /\ d \in 0 .. kSlots - 1
  BY <1>2, <1>4, <1>6, OnwardIs
<1>8. t.vals[p] = NoValue \/ t.keys[p] = k
  BY <1>1, <1>4, <1>6
<1>9. ASSUME NEW j \in TableSlot, Dist(a, j) < Dist(a, p) PROVE t.vals[j] # NoValue /\ t.keys[j] # k
  <2>1. Dist(a, j) \in TableSlot /\ Onward(a, Dist(a, j)) = j /\ Dist(a, j) \in Int /\ d \in Int
    BY <1>7, DistIs DEF TableSlot
  <2>2. Dist(a, j) \notin S
    BY <1>4, <1>7, <1>9, <2>1
  <2>3. QED
    BY <1>1, <2>1, <2>2
<1>10. QED
  BY <1>1, <1>5, <1>6, <1>7, <1>8, <1>9

(* It finds every id that is there, and an empty slot for every other. *)
LEMMA ProbeFinds ==
  ASSUME NEW t, NEW list, NEW q, LaidOut(home, t, list, q), Len(list) <= MaxLive
  PROVE  /\ \A n \in DOMAIN list : Probe(t, list[n].key) = q[n]
         /\ \A k \in Key : (\A n \in DOMAIN list : list[n].key # k) =>
              /\ Probe(t, k) \in TableSlot /\ t.vals[Probe(t, k)] = NoValue
              /\ \A j \in TableSlot : Dist(home[k], j) < Dist(home[k], Probe(t, k)) =>
                   t.vals[j] # NoValue
<1>1. PICK e \in TableSlot : t.vals[e] = NoValue
  BY RoomLeft
<1>2. home \in [Key -> TableSlot]
  BY DEF LaidOut
<1>3. ASSUME NEW n \in DOMAIN list PROVE Probe(t, list[n].key) = q[n]
  <2>1. PICK k, a, i : k = list[n].key /\ a = home[k] /\ i = Probe(t, k)
    OBVIOUS
  <2>2. k \in Key /\ a \in TableSlot /\ q[n] \in TableSlot /\ t.keys[q[n]] = k
        /\ t.vals[q[n]] # NoValue
    BY <2>1, OneSlotEach DEF LaidOut
  <2>3. /\ i \in TableSlot
        /\ t.vals[i] = NoValue \/ t.keys[i] = k
        /\ \A j \in TableSlot : Dist(a, j) < Dist(a, i) => t.vals[j] # NoValue /\ t.keys[j] # k
    BY <1>1, <1>2, <2>1, <2>2, ProbeEnds
  <2>4. ~(Dist(a, q[n]) < Dist(a, i))
    BY <2>2, <2>3
  <2>5. ~(Dist(a, i) < Dist(a, q[n]))
    <3>1. SUFFICES ASSUME Dist(a, i) < Dist(a, q[n]) PROVE FALSE
      OBVIOUS
    <3>2. PICK m \in DOMAIN list : m < n /\ q[m] = i
      BY <2>1, <2>3, <3>1 DEF LaidOut
    <3>3. t.vals[i] # NoValue /\ t.keys[i] = list[m].key
      BY <2>3, <3>2 DEF LaidOut
    <3>4. list[m].key = list[n].key
      BY <2>1, <2>3, <3>3
    <3>5. m = n
      BY <3>4 DEF LaidOut, Listed
    <3>6. QED
      BY <3>2, <3>5, OneSlotEach
  <2>6. Dist(a, i) \in Int /\ Dist(a, q[n]) \in Int
    BY <2>2, <2>3, DistIs
  <2>7. Dist(a, i) = Dist(a, q[n])
    BY <2>4, <2>5, <2>6
  <2>8. i = q[n]
    BY <2>2, <2>3, <2>7, DistIs
  <2>9. QED
    BY <2>1, <2>8
<1>4. ASSUME NEW k \in Key, \A n \in DOMAIN list : list[n].key # k
      PROVE  /\ Probe(t, k) \in TableSlot /\ t.vals[Probe(t, k)] = NoValue
             /\ \A j \in TableSlot : Dist(home[k], j) < Dist(home[k], Probe(t, k)) =>
                  t.vals[j] # NoValue
  <2>1. PICK i : i = Probe(t, k)
    OBVIOUS
  <2>2. /\ i \in TableSlot
        /\ t.vals[i] = NoValue \/ t.keys[i] = k
        /\ \A j \in TableSlot : Dist(home[k], j) < Dist(home[k], i) => t.vals[j] # NoValue
    BY <1>1, <1>2, <2>1, ProbeEnds
  <2>3. t.vals[i] = NoValue
    BY <1>4, <2>2 DEF LaidOut
  <2>4. QED
    BY <2>1, <2>2, <2>3
<1>5. QED
  BY <1>3, <1>4

LEMMA EmptyLaidOut ==
  ASSUME NEW h \in [Key -> TableSlot], NEW t \in Tables, \A i \in TableSlot : t.vals[i] = NoValue
  PROVE  LaidOut(h, t, << >>, << >>)
<1>1. Listed(<< >>) /\ DOMAIN << >> = {} /\ << >> \in [{} -> TableSlot]
  BY DEF Listed
<1>2. QED
  BY <1>1 DEF LaidOut

LEMMA EmptyIsTable == Empty \in Tables /\ \A i \in TableSlot : Empty.vals[i] = NoValue
BY DEF Empty, Tables

LEMMA EntryMade ==
  ASSUME NEW t \in Tables, NEW i \in TableSlot, NEW k \in Key, NEW v \in Mapped \cup {NoValue},
         NEW u, u = WithEntry(t, i, k, v)
  PROVE  /\ u \in Tables /\ u.keys[i] = k /\ u.vals[i] = v
         /\ \A j \in TableSlot : j # i => u.keys[j] = t.keys[j] /\ u.vals[j] = t.vals[j]
<1>1. PICK ks, vs : ks = [t.keys EXCEPT ![i] = k] /\ vs = [t.vals EXCEPT ![i] = v]
  OBVIOUS
<1>2. /\ ks \in [TableSlot -> Key \cup {NoValue}] /\ vs \in [TableSlot -> Mapped \cup {NoValue}]
      /\ ks[i] = k /\ vs[i] = v /\ \A j \in TableSlot : j # i => ks[j] = t.keys[j] /\ vs[j] = t.vals[j]
  BY <1>1 DEF Tables
<1>3. u = [keys |-> ks, vals |-> vs]
  BY <1>1 DEF WithEntry
<1>4. \A j \in TableSlot : vs[j] # NoValue => ks[j] \in Key
  BY <1>2 DEF Tables
<1>5. QED
  BY <1>1, <1>2, <1>3, <1>4 DEF Tables

(* Insertion of an id that is not there appends its entry; of one that is there, replaces its *)
(* value.                                                                                     *)
LEMMA NewEntry ==
  ASSUME NEW t, NEW list, NEW q, LaidOut(home, t, list, q), Len(list) < MaxLive,
         NEW k \in Key, NEW v \in Mapped, \A n \in DOMAIN list : list[n].key # k
  PROVE  \E r : LaidOut(home, Inserted(t, k, v), Append(list, [key |-> k, val |-> v]), r)
<1>1. PICK i, N, u, e : i = Probe(t, k) /\ N = Len(list) /\ u = Inserted(t, k, v)
                        /\ e = [key |-> k, val |-> v]
  OBVIOUS
<1>2. /\ N \in Nat /\ DOMAIN list = 1 .. N /\ list \in Seq(Entry) /\ N <= MaxLive /\ t \in Tables
      /\ home \in [Key -> TableSlot]
  BY <1>1, OneSlotEach, SlotsThere DEF LaidOut, Listed
<1>3. /\ i \in TableSlot /\ t.vals[i] = NoValue
      /\ \A j \in TableSlot : Dist(home[k], j) < Dist(home[k], i) => t.vals[j] # NoValue
  BY <1>1, <1>2, ProbeFinds
<1>4. /\ u \in Tables /\ u.keys[i] = k /\ u.vals[i] = v
      /\ \A j \in TableSlot : j # i => u.keys[j] = t.keys[j] /\ u.vals[j] = t.vals[j]
  <2>1. u = WithEntry(t, i, k, v)
    BY <1>1 DEF Inserted
  <2>2. v \in Mapped /\ k \in Key /\ t \in Tables /\ i \in TableSlot
    BY <1>1, <1>2, <1>3
  <2>3. PICK w : w = WithEntry(t, i, k, v)
    OBVIOUS
  <2>4. /\ w \in Tables /\ w.keys[i] = k /\ w.vals[i] = v
        /\ \A j \in TableSlot : j # i => w.keys[j] = t.keys[j] /\ w.vals[j] = t.vals[j]
    BY <2>2, <2>3, EntryMade
  <2>5. QED
    BY <2>1, <2>3, <2>4
<1>5. PICK z : z = Append(list, e)
  OBVIOUS
<1>6. /\ z \in Seq(Entry) /\ Len(z) = N + 1 /\ DOMAIN z = 1 .. N + 1 /\ z[N + 1] = e
      /\ \A n \in 1 .. N : z[n] = list[n]
  <2>1. e \in Entry
    BY <1>1 DEF Entry
  <2>2. QED
    BY <1>1, <1>2, <1>5, <2>1
<1>7. PICK r : r = [n \in 1 .. N + 1 |-> IF n = N + 1 THEN i ELSE q[n]]
  OBVIOUS
<1>8. r \in [1 .. N + 1 -> TableSlot] /\ r[N + 1] = i /\ \A n \in 1 .. N : r[n] = q[n] /\ q[n] # i
  <2>1. q \in [1 .. N -> TableSlot] /\ \A n \in 1 .. N : t.vals[q[n]] # NoValue
    BY <1>2, OneSlotEach DEF LaidOut
  <2>2. \A n \in 1 .. N : n # N + 1 /\ n \in 1 .. N + 1 /\ N + 1 \in 1 .. N + 1
    BY <1>2
  <2>3. N + 1 \in 1 .. N + 1 /\ \A n \in 1 .. N + 1 : n # N + 1 => n \in 1 .. N
    BY <1>2
  <2>4. QED
    BY <1>3, <1>7, <2>1, <2>2, <2>3
<1>9. e.key = k /\ e.val = v /\ v # NoValue
  BY <1>1, SlotsThere
<1>10. Listed(z)
  <2>1. \A m, n \in 1 .. N : list[m].key = list[n].key => m = n
    BY <1>2 DEF LaidOut, Listed
  <2>2. ASSUME NEW m \in 1 .. N + 1, NEW n \in 1 .. N + 1, z[m].key = z[n].key PROVE m = n
    <3>1. CASE m = N + 1
      BY <1>2, <1>6, <1>9, <2>2, <3>1
    <3>2. CASE n = N + 1
      BY <1>2, <1>6, <1>9, <2>2, <3>2
    <3>3. CASE m \in 1 .. N /\ n \in 1 .. N
      BY <1>6, <2>1, <2>2, <3>3
    <3>4. QED
      BY <1>2, <3>1, <3>2, <3>3
  <2>3. QED
    BY <1>6, <2>2 DEF Listed
<1>11. \A j \in TableSlot : u.vals[j] # NoValue <=> \E n \in 1 .. N + 1 : r[n] = j
  <2>1. SUFFICES ASSUME NEW j \in TableSlot
                 PROVE  u.vals[j] # NoValue <=> \E n \in 1 .. N + 1 : r[n] = j
    OBVIOUS
  <2>2. CASE j = i
    BY <1>2, <1>4, <1>8, <1>9, <2>2
  <2>3. CASE j # i
    <3>1. u.vals[j] = t.vals[j] /\ (t.vals[j] # NoValue <=> \E n \in 1 .. N : q[n] = j)
      BY <1>2, <1>4, <2>3 DEF LaidOut
    <3>2. (\E n \in 1 .. N + 1 : r[n] = j) <=> \E n \in 1 .. N : q[n] = j
      BY <1>2, <1>8, <2>3
    <3>3. QED
      BY <3>1, <3>2
  <2>4. QED
    BY <2>2, <2>3
<1>12. \A n \in 1 .. N + 1 : u.keys[r[n]] = z[n].key /\ u.vals[r[n]] = z[n].val
  <2>1. SUFFICES ASSUME NEW n \in 1 .. N + 1
                 PROVE  u.keys[r[n]] = z[n].key /\ u.vals[r[n]] = z[n].val
    OBVIOUS
  <2>2. CASE n = N + 1
    BY <1>4, <1>6, <1>8, <1>9, <2>2
  <2>3. CASE n \in 1 .. N
    <3>1. q[n] \in TableSlot /\ t.keys[q[n]] = list[n].key /\ t.vals[q[n]] = list[n].val
      BY <1>2, <2>3 DEF LaidOut
    <3>2. QED
      BY <1>4, <1>6, <1>8, <2>3, <3>1
  <2>4. QED
    BY <1>2, <2>2, <2>3
<1>13. ASSUME NEW n \in 1 .. N + 1, NEW j \in TableSlot,
              Dist(home[z[n].key], j) < Dist(home[z[n].key], r[n])
       PROVE  \E m \in 1 .. N + 1 : m < n /\ r[m] = j
  <2>1. CASE n = N + 1
    <3>1. t.vals[j] # NoValue
      BY <1>3, <1>6, <1>8, <1>9, <1>13, <2>1
    <3>2. PICK m \in 1 .. N : q[m] = j
      BY <1>2, <3>1 DEF LaidOut
    <3>3. QED
      BY <1>2, <1>8, <2>1, <3>2
  <2>2. CASE n \in 1 .. N
    <3>1. Dist(home[list[n].key], j) < Dist(home[list[n].key], q[n])
      BY <1>6, <1>8, <1>13, <2>2
    <3>2. PICK m \in 1 .. N : m < n /\ q[m] = j
      BY <1>2, <2>2, <3>1 DEF LaidOut
    <3>3. QED
      BY <1>2, <1>8, <3>2
  <2>3. QED
    BY <1>2, <2>1, <2>2
<1>14. LaidOut(home, u, z, r)
  <2>1. DOMAIN z = 1 .. N + 1 /\ u \in Tables /\ home \in [Key -> TableSlot]
    BY <1>2, <1>4, <1>6
  <2>2. r \in [DOMAIN z -> TableSlot]
    BY <1>8, <2>1
  <2>3. /\ \A j \in TableSlot : u.vals[j] # NoValue <=> \E n \in DOMAIN z : r[n] = j
        /\ \A n \in DOMAIN z : u.keys[r[n]] = z[n].key /\ u.vals[r[n]] = z[n].val
    BY <1>11, <1>12, <2>1
  <2>4. \A n \in DOMAIN z, j \in TableSlot :
          Dist(home[z[n].key], j) < Dist(home[z[n].key], r[n]) => \E m \in DOMAIN z : m < n /\ r[m] = j
    BY <1>13, <2>1
  <2>5. QED
    BY <1>10, <2>1, <2>2, <2>3, <2>4 DEF LaidOut
<1>15. QED
  BY <1>1, <1>5, <1>14

LEMMA OldEntry ==
  ASSUME NEW t, NEW list, NEW q, LaidOut(home, t, list, q), Len(list) <= MaxLive,
         NEW gone \in DOMAIN list, NEW v \in Mapped
  PROVE  LET k == list[gone].key
         IN LaidOut(home, Inserted(t, k, v),
                    [n \in DOMAIN list |-> IF list[n].key = k THEN [key |-> k, val |-> v] ELSE list[n]], q)
<1>1. PICK i, k, N, u, e : i = Probe(t, k) /\ N = Len(list) /\ u = Inserted(t, k, v)
                           /\ k = list[gone].key /\ e = [key |-> k, val |-> v]
  OBVIOUS
<1>2. /\ N \in Nat /\ DOMAIN list = 1 .. N /\ list \in Seq(Entry) /\ t \in Tables
      /\ home \in [Key -> TableSlot] /\ k \in Key /\ i = q[gone] /\ i \in TableSlot
      /\ t.keys[i] = k /\ t.vals[i] # NoValue /\ \A n \in 1 .. N : list[n] \in Entry
  <2>1. q[gone] \in TableSlot /\ t.vals[q[gone]] # NoValue /\ t.keys[q[gone]] = k
    BY <1>1, OneSlotEach DEF LaidOut
  <2>2. i = q[gone]
    BY <1>1, ProbeFinds
  <2>3. k \in Key /\ N \in Nat /\ DOMAIN list = 1 .. N
    BY <1>1, OneSlotEach
  <2>4. t \in Tables /\ home \in [Key -> TableSlot] /\ list \in Seq(Entry)
    BY DEF LaidOut, Listed
  <2>5. \A n \in 1 .. N : list[n] \in Entry
    BY <2>3, <2>4
  <2>6. QED
    BY <2>1, <2>2, <2>3, <2>4, <2>5
<1>3. /\ u \in Tables /\ u.keys[i] = k /\ u.vals[i] = v
      /\ \A j \in TableSlot : j # i => u.keys[j] = t.keys[j] /\ u.vals[j] = t.vals[j]
  <2>1. u = WithEntry(t, i, k, v)
    BY <1>1 DEF Inserted
  <2>2. v \in Mapped /\ k \in Key /\ t \in Tables /\ i \in TableSlot
    BY <1>1, <1>2
  <2>3. PICK w : w = WithEntry(t, i, k, v)
    OBVIOUS
  <2>4. /\ w \in Tables /\ w.keys[i] = k /\ w.vals[i] = v
        /\ \A j \in TableSlot : j # i => w.keys[j] = t.keys[j] /\ w.vals[j] = t.vals[j]
    BY <2>2, <2>3, EntryMade
  <2>5. QED
    BY <2>1, <2>3, <2>4
<1>4. PICK z : z = [n \in 1 .. N |-> IF list[n].key = k THEN e ELSE list[n]]
  OBVIOUS
<1>5. e \in Entry /\ e.key = k /\ e.val = v /\ v # NoValue
  BY <1>1, <1>2, SlotsThere DEF Entry
<1>6. \A n \in 1 .. N : list[n].key = k <=> n = gone
  BY <1>1, <1>2 DEF LaidOut, Listed
<1>7. z \in Seq(Entry) /\ DOMAIN z = 1 .. N /\ z[gone] = e
      /\ \A n \in 1 .. N : z[n] \in Entry /\ z[n].key = list[n].key /\ (n # gone => z[n] = list[n])
  <2>1. ASSUME NEW n \in 1 .. N PROVE z[n] \in Entry /\ z[n].key = list[n].key /\ (n # gone => z[n] = list[n])
    BY <1>2, <1>4, <1>5, <1>6
  <2>2. z[gone] = e
    BY <1>1, <1>2, <1>4
  <2>3. QED
    BY <1>2, <1>4, <2>1, <2>2
<1>8. Listed(z)
  BY <1>2, <1>7 DEF LaidOut, Listed
<1>9. \A j \in TableSlot : u.vals[j] # NoValue <=> t.vals[j] # NoValue
  BY <1>2, <1>3, <1>5
<1>10. \A n \in 1 .. N : u.keys[q[n]] = z[n].key /\ u.vals[q[n]] = z[n].val
  <2>1. SUFFICES ASSUME NEW n \in 1 .. N PROVE u.keys[q[n]] = z[n].key /\ u.vals[q[n]] = z[n].val
    OBVIOUS
  <2>2. CASE n = gone
    BY <1>2, <1>3, <1>5, <1>7, <2>2
  <2>3. CASE n # gone
    <3>1. q[n] \in TableSlot /\ q[n] # i
      BY <1>2, <2>3, OneSlotEach
    <3>2. t.keys[q[n]] = list[n].key /\ t.vals[q[n]] = list[n].val
      BY <1>2 DEF LaidOut
    <3>3. QED
      BY <1>3, <1>7, <2>3, <3>1, <3>2
  <2>4. QED
    BY <2>2, <2>3
<1>11. LaidOut(home, u, z, q)
  BY <1>2, <1>3, <1>7, <1>8, <1>9, <1>10 DEF LaidOut
<1>12. QED
  BY <1>1, <1>2, <1>4, <1>11

(* The order of the entries decides the slot of each. *)
LEMMA OneLayout ==
  ASSUME NEW h, NEW list, NEW t, NEW q, LaidOut(h, t, list, q), NEW u, NEW r, LaidOut(h, u, list, r)
  PROVE  /\ \A n \in DOMAIN list : q[n] = r[n]
         /\ u.vals = t.vals
         /\ \A i \in TableSlot : t.vals[i] # NoValue => u.keys[i] = t.keys[i]
<1> DEFINE Bad == {n \in DOMAIN list : q[n] # r[n]}
<1>1. ASSUME Bad # {} PROVE FALSE
  <2>1. PICK n \in Bad : \A m \in Bad : n <= m
    <3>1. Bad \subseteq Nat
      BY OneSlotEach
    <3>2. QED
      BY <1>1, <3>1, LeastNat
  <2>2. PICK a : a = h[list[n].key]
    OBVIOUS
  <2>3. n \in DOMAIN list /\ n \in Nat /\ a \in TableSlot /\ q[n] \in TableSlot /\ r[n] \in TableSlot /\ q[n] # r[n]
    BY <2>1, <2>2, OneSlotEach
  <2>4. ASSUME NEW m \in DOMAIN list, m < n PROVE q[m] = r[m]
    <3>1. m \in Nat /\ ~(n <= m)
      BY <2>3, <2>4, OneSlotEach
    <3>2. QED
      BY <2>1, <3>1
  <2>5. CASE Dist(a, q[n]) < Dist(a, r[n])
    <3>1. PICK m \in DOMAIN list : m < n /\ r[m] = q[n]
      BY <2>2, <2>3, <2>5 DEF LaidOut
    <3>2. q[m] = q[n]
      BY <2>4, <3>1
    <3>3. m = n
      BY <2>3, <3>2, OneSlotEach
    <3>4. QED
      BY <2>3, <3>1, <3>3
  <2>6. CASE Dist(a, r[n]) < Dist(a, q[n])
    <3>1. PICK m \in DOMAIN list : m < n /\ q[m] = r[n]
      BY <2>2, <2>3, <2>6 DEF LaidOut
    <3>2. r[m] = r[n]
      BY <2>4, <3>1
    <3>3. m = n
      BY <2>3, <3>2, OneSlotEach
    <3>4. QED
      BY <2>3, <3>1, <3>3
  <2>7. Dist(a, q[n]) # Dist(a, r[n]) /\ Dist(a, q[n]) \in Int /\ Dist(a, r[n]) \in Int
    <3>1. Dist(a, q[n]) # Dist(a, r[n])
      BY <2>3, DistIs
    <3>2. Dist(a, q[n]) \in 0 .. kSlots - 1 /\ Dist(a, r[n]) \in 0 .. kSlots - 1
      BY <2>3, DistIs
    <3>3. QED
      BY <3>1, <3>2
  <2>8. QED
    BY <2>5, <2>6, <2>7
<1>2. \A n \in DOMAIN list : q[n] = r[n]
  BY <1>1
<1>3. \A i \in TableSlot : t.vals[i] = u.vals[i] /\ (t.vals[i] # NoValue => u.keys[i] = t.keys[i])
  <2>1. SUFFICES ASSUME NEW i \in TableSlot
                 PROVE  t.vals[i] = u.vals[i] /\ (t.vals[i] # NoValue => u.keys[i] = t.keys[i])
    OBVIOUS
  <2>2. CASE \E n \in DOMAIN list : q[n] = i
    <3>1. PICK n \in DOMAIN list : q[n] = i /\ r[n] = i
      BY <1>2, <2>2
    <3>2. /\ t.keys[i] = list[n].key /\ t.vals[i] = list[n].val
          /\ u.keys[i] = list[n].key /\ u.vals[i] = list[n].val
      BY <3>1 DEF LaidOut
    <3>3. QED
      BY <3>2
  <2>3. CASE ~\E n \in DOMAIN list : q[n] = i
    <3>1. ~\E n \in DOMAIN list : r[n] = i
      BY <1>2, <2>3
    <3>2. t.vals[i] = NoValue /\ u.vals[i] = NoValue
      BY <2>3, <3>1 DEF LaidOut
    <3>3. QED
      BY <3>2
  <2>4. QED
    BY <2>2, <2>3
<1>4. t.vals \in [TableSlot -> Mapped \cup {NoValue}] /\ u.vals \in [TableSlot -> Mapped \cup {NoValue}]
  BY DEF LaidOut, Tables
<1>5. u.vals = t.vals
  BY <1>3, <1>4
<1>6. QED
  BY <1>2, <1>3, <1>5

(* Inserted into an empty table in their order, the entries give a table that holds them. *)
Fresh(list) == FoldLeft(LAMBDA t, e : Inserted(t, e.key, e.val), Empty, list)

LEMMA InsertedIsTable ==
  ASSUME NEW t \in Tables, NEW e \in Entry
  PROVE  Inserted(t, e.key, e.val) \in Tables
<1>1. PICK i, k, v : i = Probe(t, e.key) /\ k = e.key /\ v = e.val
  OBVIOUS
<1>2. k \in Key /\ v \in Mapped
  BY <1>1 DEF Entry
<1>3. CASE i \in TableSlot
  BY <1>1, <1>2, <1>3, EntryMade DEF Inserted
<1>4. CASE i \notin TableSlot
  <2>1. DOMAIN t.keys = TableSlot /\ DOMAIN t.vals = TableSlot /\ t = [keys |-> t.keys, vals |-> t.vals]
    BY DEF Tables
  <2>2. [t.keys EXCEPT ![i] = k] = t.keys /\ [t.vals EXCEPT ![i] = v] = t.vals
    <3>1. PICK f, g : /\ f = t.keys /\ f \in [TableSlot -> Key \cup {NoValue}]
                      /\ g = t.vals /\ g \in [TableSlot -> Mapped \cup {NoValue}]
      BY DEF Tables
    <3>2. [f EXCEPT ![i] = k] = [j \in TableSlot |-> f[j]] /\ f = [j \in TableSlot |-> f[j]]
      BY <1>4, <3>1
    <3>3. [g EXCEPT ![i] = v] = [j \in TableSlot |-> g[j]] /\ g = [j \in TableSlot |-> g[j]]
      BY <1>4, <3>1
    <3>4. QED
      BY <3>1, <3>2, <3>3
  <2>3. WithEntry(t, i, k, v) = t
    BY <2>1, <2>2 DEF WithEntry
  <2>4. QED
    BY <1>1, <2>3 DEF Inserted
<1>5. QED
  BY <1>3, <1>4

LEMMA FreshIs ==
  ASSUME home \in [Key -> TableSlot], NEW list, Listed(list), Len(list) <= MaxLive
  PROVE  \E q : LaidOut(home, Fresh(list), list, q)
<1> DEFINE n == Len(list)
           D == 1 .. n
           ch == [a \in SUBSET D |-> Max(a)]
           F == [p \in D \X Tables |-> Inserted(p[2], list[p[1]].key, list[p[1]].val)]
           Is(W) == W = [a \in SUBSET D |-> IF a = {} THEN Empty
                            ELSE LET i == Max(a) IN Inserted(W[a \ {i}], list[i].key, list[i].val)]
           Table == CHOOSE W : Is(W)
           f == [k \in 0 .. n |-> Table[1 .. k]]
<1>1. /\ n \in Nat /\ D = DOMAIN list /\ IsFiniteSet(D) /\ list \in Seq(Entry)
      /\ \A i \in D : list[i] \in Entry
  BY FS_Interval DEF Listed
<1>2. Fresh(list) = Table[D]
  BY <1>1 DEF Fresh, FoldLeft, MapThenFoldSet
<1>3. \A a \in SUBSET D : a # {} => ch[a] \in a
  BY <1>1, LastTaken
<1>4. \A i \in D, t \in Tables : /\ F[<<i, t>>] \in Tables
                                 /\ F[<<i, t>>] = Inserted(t, list[i].key, list[i].val)
  BY <1>1, InsertedIsTable
<1>5. \A a \in SUBSET D : ch[a] = Max(a)
  OBVIOUS
<1> HIDE DEF n, D, F, ch
<1>6. PICK W \in [SUBSET D -> Tables] : IsFold(W, D, Empty, F, ch)
  <2>1. Empty \in Tables /\ \A i \in D, t \in Tables : F[<<i, t>>] \in Tables
    BY <1>4, EmptyIsTable
  <2> HIDE DEF Is
  <2>2. QED
    BY <1>1, <1>3, <2>1, FoldTableExists
<1>7. Is(W)
  <2>1. ASSUME NEW a \in SUBSET D, a # {}
        PROVE  F[<<ch[a], W[a \ {ch[a]}]>>] = Inserted(W[a \ {Max(a)}], list[Max(a)].key, list[Max(a)].val)
    <3>1. ch[a] \in D /\ W[a \ {ch[a]}] \in Tables
      BY <1>3, <2>1
    <3>2. QED
      BY <1>4, <1>5, <3>1
  <2>2. [a \in SUBSET D |-> IF a = {} THEN Empty ELSE F[<<ch[a], W[a \ {ch[a]}]>>]]
          = [a \in SUBSET D |-> IF a = {} THEN Empty
               ELSE LET i == Max(a) IN Inserted(W[a \ {i}], list[i].key, list[i].val)]
    BY <2>1
  <2>3. QED
    BY <1>6, <2>2 DEF IsFold
<1>8. Is(Table)
  <2> HIDE DEF Is
  <2>1. QED
    BY <1>7
<1> HIDE DEF Table
<1>9. f[0] = Empty /\ f[n] = Table[D]
  <2>1. /\ {} \in SUBSET D /\ 1 .. 0 = {} /\ 0 \in 0 .. n /\ n \in 0 .. n
    BY <1>1
  <2>2. Table[{}] = Empty
    BY <1>8, <2>1
  <2>3. QED
    BY <2>1, <2>2 DEF D
<1>10. ASSUME NEW k \in 1 .. n PROVE f[k] = Inserted(f[k - 1], list[k].key, list[k].val)
  <2>1. /\ k \in Nat /\ k # 0 /\ k \in 0 .. n /\ k - 1 \in 0 .. n /\ 1 .. k \in SUBSET D
    BY <1>1 DEF D
  <2>2. Max(1 .. k) = k /\ (1 .. k) \ {k} = 1 .. k - 1 /\ 1 .. k # {}
    BY <2>1, Intervals
  <2>3. Table[1 .. k] = Inserted(Table[(1 .. k) \ {Max(1 .. k)}], list[Max(1 .. k)].key, list[Max(1 .. k)].val)
    BY <1>8, <2>1, <2>2
  <2>4. Table[1 .. k] = Inserted(Table[1 .. k - 1], list[k].key, list[k].val)
    BY <2>2, <2>3
  <2>5. QED
    BY <2>1, <2>4
<1> HIDE DEF f
<1> DEFINE P == {k \in 0 .. n : \E q : LaidOut(home, f[k], SubSeq(list, 1, k), q)}
<1>11. 0 \in P
  <2>1. LaidOut(home, Empty, << >>, << >>)
    BY EmptyIsTable, EmptyLaidOut
  <2>2. SubSeq(list, 1, 0) = << >> /\ 0 \in 0 .. n
    BY <1>1
  <2>3. QED
    BY <1>9, <2>1, <2>2
<1>12. ASSUME NEW k \in 0 .. n - 1, k \in P PROVE k + 1 \in P
  <2>1. PICK a, q, t : a = SubSeq(list, 1, k) /\ t = f[k] /\ LaidOut(home, t, a, q)
    BY <1>12
  <2>2. PICK e : e = list[k + 1]
    OBVIOUS
  <2>3. k \in Nat /\ k + 1 \in 1 .. n /\ k + 1 \in 0 .. n /\ (k + 1) - 1 = k
    BY <1>1
  <2>4. e \in Entry /\ e.key \in Key /\ e.val \in Mapped /\ e = [key |-> e.key, val |-> e.val]
    BY <1>1, <2>2, <2>3 DEF D, Entry
  <2>5. Len(a) = k /\ DOMAIN a = 1 .. k /\ \A i \in 1 .. k : a[i] = list[i]
    BY <1>1, <2>1, <2>3
  <2>6. SubSeq(list, 1, k + 1) = Append(a, e)
    <3>1. n = Len(list)
      BY DEF n
    <3>2. QED
      BY <1>1, <2>1, <2>2, <2>3, <3>1
  <2>7. \A i \in 1 .. k : a[i].key # e.key
    <3>1. \A i \in 1 .. k : i \in DOMAIN list /\ k + 1 \in DOMAIN list /\ i # k + 1
      BY <1>1, <2>3 DEF D
    <3>2. QED
      BY <2>2, <2>5, <3>1 DEF Listed
  <2>8. Len(a) < MaxLive
    BY <1>1, <2>3, <2>5, SlotsThere DEF n
  <2>9. \E r : LaidOut(home, Inserted(t, e.key, e.val), Append(a, [key |-> e.key, val |-> e.val]), r)
    BY <2>1, <2>4, <2>5, <2>7, <2>8, NewEntry
  <2>10. f[k + 1] = Inserted(t, e.key, e.val)
    BY <1>10, <2>1, <2>2, <2>3
  <2>11. \E r : LaidOut(home, f[k + 1], SubSeq(list, 1, k + 1), r)
    BY <2>4, <2>6, <2>9, <2>10
  <2>12. QED
    BY <2>3, <2>11
<1> HIDE DEF P
<1>13. n \in P
  <2>1. \A k \in 0 .. n : k \in P
    BY <1>1, <1>11, <1>12, Upward
  <2>2. QED
    BY <1>1, <2>1
<1>14. SubSeq(list, 1, n) = list
  BY <1>1 DEF n
<1>15. QED
  BY <1>2, <1>9, <1>13, <1>14 DEF P

(* The shift.  The entry number gone is to be erased; a[n] is the home of the n-th, and E a slot *)
(* that is empty throughout.  q[n] is where the n-th entry is now, and q[gone] is the hole.      *)
Shifts == [t : Tables, hole : TableSlot, done : BOOLEAN]
Erasing(list, gone, E, a) ==
  Listed(list) /\ gone \in DOMAIN list /\ E \in TableSlot /\ a = [n \in DOMAIN list |-> home[list[n].key]]
    /\ home \in [Key -> TableSlot]
Shifted(list, gone, E, a, e, q) ==
  /\ e \in Shifts /\ q \in [DOMAIN list -> TableSlot] /\ q[gone] = e.hole
  /\ \A m, n \in DOMAIN list : q[m] = q[n] => m = n
  /\ \A n \in DOMAIN list : q[n] # E
  /\ \A i \in TableSlot : e.t.vals[i] # NoValue <=> \E n \in DOMAIN list : n # gone /\ q[n] = i
  /\ \A n \in DOMAIN list : n # gone => e.t.keys[q[n]] = list[n].key /\ e.t.vals[q[n]] = list[n].val
  /\ \A n \in DOMAIN list, i \in TableSlot :
       n # gone /\ Dist(a[n], i) < Dist(a[n], q[n]) =>
         i = e.hole \/ \E m \in DOMAIN list : m # gone /\ m < n /\ q[m] = i

(* No entry has the hole between its home and its slot. *)
HoleShut(list, gone, a, q) ==
  \A n \in DOMAIN list : n # gone => ~(Dist(a[n], q[gone]) < Dist(a[n], q[n]))
(* None that the shift has come to, d slots from where it began at o, and these are full. *)
ShutSoFar(list, gone, a, q, o, d) ==
  /\ \A i \in TableSlot : Dist(o, i) <= d => \E n \in DOMAIN list : q[n] = i
  /\ Dist(o, q[gone]) <= d
  /\ \A n \in DOMAIN list : n # gone /\ Dist(o, q[n]) <= d => ~(Dist(a[n], q[gone]) < Dist(a[n], q[n]))

ShiftInv(list, gone, E, a, e, q, o, d) ==
  /\ Shifted(list, gone, E, a, e, q)
  /\ IF e.done THEN HoleShut(list, gone, a, q) ELSE ShutSoFar(list, gone, a, q, o, d)

LEMMA ErasingIs ==
  ASSUME NEW list, NEW gone, NEW E, NEW a, Erasing(list, gone, E, a)
  PROVE  /\ DOMAIN list = 1 .. Len(list) /\ Len(list) \in Nat /\ E \in TableSlot /\ gone \in DOMAIN list
         /\ \A n \in DOMAIN list : /\ n \in Nat /\ list[n].key \in Key /\ list[n].val \in Mapped
                                   /\ a[n] = home[list[n].key] /\ a[n] \in TableSlot
<1>1. list \in Seq(Entry) /\ DOMAIN list = 1 .. Len(list) /\ Len(list) \in Nat
  BY DEF Erasing, Listed
<1>2. \A n \in DOMAIN list : list[n] \in Entry
  BY <1>1
<1>3. \A n \in DOMAIN list : list[n].key \in Key /\ list[n].val \in Mapped
  BY <1>2 DEF Entry
<1>4. QED
  BY <1>1, <1>3 DEF Erasing

(* The shift ends at the first empty slot. *)
LEMMA ShiftStops ==
  ASSUME NEW list, NEW gone, NEW E, NEW a, Erasing(list, gone, E, a), NEW e, NEW q, NEW o \in TableSlot,
         NEW d \in 0 .. kSlots - 2, ShiftInv(list, gone, E, a, e, q, o, d),
         NEW j \in TableSlot, Dist(o, j) = d + 1, e.done \/ e.t.vals[j] = NoValue
  PROVE  ShiftInv(list, gone, E, a, ShiftedOne(e, j), q, o, d + 1)
<1>1. PICK f : f = [e EXCEPT !.done = TRUE]
  OBVIOUS
<1>2. f \in Shifts /\ f.t = e.t /\ f.hole = e.hole /\ f.done /\ f = ShiftedOne(e, j)
  BY <1>1 DEF ShiftInv, Shifted, Shifts, ShiftedOne
<1>3. Shifted(list, gone, E, a, f, q)
  BY <1>2 DEF ShiftInv, Shifted
<1>4. HoleShut(list, gone, a, q)
  <2>1. CASE e.done
    BY <2>1 DEF ShiftInv
  <2>2. CASE ~e.done
    <3>1. e.t.vals[j] = NoValue /\ ShutSoFar(list, gone, a, q, o, d)
      BY <2>2 DEF ShiftInv
    <3>2. SUFFICES ASSUME NEW n \in DOMAIN list, n # gone, Dist(a[n], q[gone]) < Dist(a[n], q[n])
                   PROVE  FALSE
      BY DEF HoleShut
    <3>3. /\ a[n] \in TableSlot /\ q[gone] \in TableSlot /\ q[n] \in TableSlot
          /\ Dist(o, q[gone]) \in Int /\ Dist(o, q[n]) \in Int /\ d \in Int
      <4>1. a[n] \in TableSlot /\ q[gone] \in TableSlot /\ q[n] \in TableSlot
        BY ErasingIs DEF ShiftInv, Shifted
      <4>2. QED
        BY <4>1, DistIs
    <3>4. Dist(o, q[gone]) <= d /\ ~(Dist(o, q[n]) <= d)
      BY <3>1, <3>2 DEF ShutSoFar
    <3>5. q[n] # j /\ q[gone] # j
      <4>1. q[n] # j
        BY <3>1, <3>2 DEF ShiftInv, Shifted
      <4>2. QED
        BY <3>3, <3>4, <4>1
    <3>6. Dist(o, q[n]) # d + 1
      BY <3>3, <3>5, DistIs
    <3>7. Dist(o, q[gone]) < Dist(o, j) /\ Dist(o, j) < Dist(o, q[n])
      BY <3>3, <3>4, <3>6
    <3>8. Dist(a[n], j) < Dist(a[n], q[n])
      BY <3>2, <3>3, <3>7, PassesBetween
    <3>9. j = e.hole \/ \E m \in DOMAIN list : m # gone /\ m < n /\ q[m] = j
      BY <3>2, <3>8 DEF ShiftInv, Shifted
    <3>10. e.hole = q[gone]
      BY DEF ShiftInv, Shifted
    <3>11. QED
      BY <3>1, <3>5, <3>9, <3>10 DEF ShiftInv, Shifted
  <2>3. QED
    BY <2>1, <2>2
<1>5. QED
  BY <1>2, <1>3, <1>4 DEF ShiftInv

(* A slot it has come to holds the entry whose home lets it stay, or which moves. *)
LEMMA ShiftSkips ==
  ASSUME NEW list, NEW gone, NEW E, NEW a, Erasing(list, gone, E, a), NEW e, NEW q, NEW o \in TableSlot,
         NEW d \in 0 .. kSlots - 2, ShiftInv(list, gone, E, a, e, q, o, d),
         NEW j \in TableSlot, Dist(o, j) = d + 1, ~e.done, e.t.vals[j] # NoValue,
         Inside(home[e.t.keys[j]], e.hole, j)
  PROVE  ShiftInv(list, gone, E, a, ShiftedOne(e, j), q, o, d + 1)
<1>1. ShiftedOne(e, j) = e
  BY DEF ShiftedOne
<1>2. Shifted(list, gone, E, a, e, q) /\ ShutSoFar(list, gone, a, q, o, d)
  BY DEF ShiftInv
<1>3. PICK moved \in DOMAIN list : moved # gone /\ q[moved] = j
  BY <1>2 DEF Shifted
<1>4. a[moved] = home[e.t.keys[j]] /\ a[moved] \in TableSlot /\ q[gone] \in TableSlot /\ e.hole = q[gone]
  BY <1>2, <1>3, ErasingIs DEF Shifted
<1>5. q[gone] # j
  BY <1>2, <1>3, ErasingIs DEF Shifted
<1>6. ~(Dist(a[moved], q[gone]) < Dist(a[moved], q[moved]))
  BY <1>3, <1>4, <1>5, InsideIs
<1>7. \A i \in TableSlot : Dist(o, i) \in Int /\ (Dist(o, i) <= d + 1 => Dist(o, i) <= d \/ i = j)
  <2>1. SUFFICES ASSUME NEW i \in TableSlot
                 PROVE  Dist(o, i) \in Int /\ (Dist(o, i) <= d + 1 => Dist(o, i) <= d \/ i = j)
    OBVIOUS
  <2>2. Dist(o, i) \in Int /\ (Dist(o, i) = Dist(o, j) => i = j)
    BY DistIs
  <2>3. QED
    BY <2>2
<1>8. ShutSoFar(list, gone, a, q, o, d + 1)
  <2>1. \A i \in TableSlot : Dist(o, i) <= d + 1 => \E n \in DOMAIN list : q[n] = i
    BY <1>2, <1>3, <1>7 DEF ShutSoFar
  <2>2. Dist(o, q[gone]) <= d + 1
    BY <1>2, <1>4, <1>7 DEF ShutSoFar
  <2>3. ASSUME NEW n \in DOMAIN list, n # gone, Dist(o, q[n]) <= d + 1
        PROVE  ~(Dist(a[n], q[gone]) < Dist(a[n], q[n]))
    <3>1. q[n] \in TableSlot
      BY <1>2 DEF Shifted
    <3>2. CASE Dist(o, q[n]) <= d
      BY <1>2, <2>3, <3>2 DEF ShutSoFar
    <3>3. CASE q[n] = j
      <4>1. n = moved
        BY <1>2, <1>3, <3>3 DEF Shifted
      <4>2. QED
        BY <1>6, <4>1
    <3>4. QED
      BY <1>7, <2>3, <3>1, <3>2, <3>3
  <2>4. QED
    BY <2>1, <2>2, <2>3 DEF ShutSoFar
<1>9. QED
  BY <1>1, <1>2, <1>8 DEF ShiftInv

LEMMA ShiftMoves ==
  ASSUME NEW list, NEW gone, NEW E, NEW a, Erasing(list, gone, E, a), NEW e, NEW q, NEW o \in TableSlot,
         NEW d \in 0 .. kSlots - 2, ShiftInv(list, gone, E, a, e, q, o, d),
         NEW j \in TableSlot, Dist(o, j) = d + 1, ~e.done, e.t.vals[j] # NoValue,
         ~Inside(home[e.t.keys[j]], e.hole, j)
  PROVE  \E r : ShiftInv(list, gone, E, a, ShiftedOne(e, j), r, o, d + 1)
<1>1. Shifted(list, gone, E, a, e, q) /\ ShutSoFar(list, gone, a, q, o, d)
  BY DEF ShiftInv
<1>2. PICK moved \in DOMAIN list : moved # gone /\ q[moved] = j
  BY <1>1 DEF Shifted
<1>3. PICK t, b, k, v, u, w, f :
        /\ t = e.t /\ b = e.hole /\ k = t.keys[j] /\ v = t.vals[j]
        /\ u = WithEntry(t, b, k, v) /\ w = WithEntry(u, j, k, NoValue)
        /\ f = ShiftedOne(e, j)
  OBVIOUS
<1>4. /\ t \in Tables /\ b \in TableSlot /\ k \in Key /\ v \in Mapped /\ v # NoValue
      /\ k = list[moved].key /\ v = list[moved].val /\ q[gone] = b /\ gone \in DOMAIN list
  <2>1. k = list[moved].key /\ v = list[moved].val /\ q[gone] = b /\ t \in Tables /\ b \in TableSlot
    BY <1>1, <1>2, <1>3 DEF Shifted, Shifts
  <2>2. list[moved].key \in Key /\ list[moved].val \in Mapped /\ gone \in DOMAIN list
    BY ErasingIs
  <2>3. QED
    BY <1>3, <2>1, <2>2
<1>5. b # j
  BY <1>1, <1>2, <1>4, ErasingIs DEF Shifted
<1>6. /\ u \in Tables /\ u.keys[b] = k /\ u.vals[b] = v
      /\ \A i \in TableSlot : i # b => u.keys[i] = t.keys[i] /\ u.vals[i] = t.vals[i]
  BY <1>3, <1>4, EntryMade
<1>7. /\ w \in Tables /\ w.keys[j] = k /\ w.vals[j] = NoValue
      /\ \A i \in TableSlot : i # j => w.keys[i] = u.keys[i] /\ w.vals[i] = u.vals[i]
  BY <1>3, <1>4, <1>6, EntryMade
<1>8. f = [t |-> w, hole |-> j, done |-> FALSE]
  <2>1. e = [t |-> t, hole |-> b, done |-> FALSE]
    BY <1>1, <1>3 DEF Shifted, Shifts
  <2>2. f = [e EXCEPT !.t = w, !.hole = j]
    BY <1>3 DEF ShiftedOne
  <2>3. QED
    BY <2>1, <2>2
<1>9. f \in Shifts /\ f.t = w /\ f.hole = j /\ ~f.done
  BY <1>7, <1>8 DEF Shifts
<1>10. PICK r : r = [n \in DOMAIN list |-> IF n = moved THEN b ELSE IF n = gone THEN j ELSE q[n]]
  OBVIOUS
<1>11. /\ r \in [DOMAIN list -> TableSlot] /\ r[moved] = b /\ r[gone] = j
       /\ \A n \in DOMAIN list : /\ q[n] \in TableSlot
                                 /\ n # gone /\ n # moved => r[n] = q[n] /\ q[n] # b /\ q[n] # j
  <2>1. q \in [DOMAIN list -> TableSlot] /\ \A m, n \in DOMAIN list : q[m] = q[n] => m = n
    BY <1>1 DEF Shifted
  <2>2. QED
    BY <1>2, <1>4, <1>10, <2>1
<1>12. \A n \in DOMAIN list : a[n] \in TableSlot /\ n \in Nat
  BY ErasingIs
<1>13. a[moved] = home[k] /\ Dist(a[moved], b) < Dist(a[moved], j)
  <2>1. a[moved] = home[k]
    BY <1>2, <1>4, ErasingIs
  <2>2. QED
    BY <1>2, <1>3, <1>5, <1>4, <1>12, <2>1, InsideIs
<1>14. \A i \in TableSlot : (\E n \in DOMAIN list : q[n] = i) <=> \E n \in DOMAIN list : r[n] = i
  <2>1. SUFFICES ASSUME NEW i \in TableSlot
                 PROVE  (\E n \in DOMAIN list : q[n] = i) <=> \E n \in DOMAIN list : r[n] = i
    OBVIOUS
  <2>2. CASE i = b \/ i = j
    BY <1>2, <1>4, <1>11, <2>2
  <2>3. CASE i # b /\ i # j
    BY <1>2, <1>4, <1>11, <2>3
  <2>4. QED
    BY <2>2, <2>3
(* The entry moved came before those that had the hole between their home and their slot. *)
<1>15. ASSUME NEW n \in DOMAIN list, n # gone, n # moved, Dist(a[n], b) < Dist(a[n], q[n])
       PROVE  moved < n
  <2>1. Dist(o, b) <= d /\ ~(Dist(o, q[n]) <= d)
    BY <1>1, <1>4, <1>15 DEF ShutSoFar
  <2>2. Dist(o, b) \in Int /\ Dist(o, q[n]) \in Int /\ Dist(o, q[n]) # d + 1
    BY <1>4, <1>11, <1>15, DistIs
  <2>3. Dist(o, b) < Dist(o, j) /\ Dist(o, j) < Dist(o, q[n])
    BY <2>1, <2>2
  <2>4. Dist(a[n], j) < Dist(a[n], q[n])
    BY <1>4, <1>11, <1>12, <1>15, <2>3, PassesBetween
  <2>5. PICK m \in DOMAIN list : m < n /\ q[m] = j
    BY <1>1, <1>3, <1>5, <1>15, <2>4 DEF Shifted
  <2>6. m = moved
    BY <1>1, <1>2, <2>5 DEF Shifted
  <2>7. QED
    BY <2>5, <2>6
<1>16. Shifted(list, gone, E, a, f, r)
  <2>1. \A m, n \in DOMAIN list : r[m] = r[n] => m = n
    <3>1. SUFFICES ASSUME NEW m \in DOMAIN list, NEW n \in DOMAIN list, r[m] = r[n] PROVE m = n
      OBVIOUS
    <3>2. CASE m \in {gone, moved} \/ n \in {gone, moved}
      BY <1>2, <1>4, <1>5, <1>11, <3>1, <3>2
    <3>3. CASE m \notin {gone, moved} /\ n \notin {gone, moved}
      BY <1>1, <1>11, <3>1, <3>3 DEF Shifted
    <3>4. QED
      BY <3>2, <3>3
  <2>2. \A n \in DOMAIN list : r[n] # E
    <3>1. \A n \in DOMAIN list : q[n] # E
      BY <1>1 DEF Shifted
    <3>2. E \in TableSlot
      BY ErasingIs
    <3>3. QED
      BY <1>14, <3>1, <3>2
  <2>3. \A i \in TableSlot : w.vals[i] # NoValue <=> \E n \in DOMAIN list : n # gone /\ r[n] = i
    <3>1. SUFFICES ASSUME NEW i \in TableSlot
                   PROVE  w.vals[i] # NoValue <=> \E n \in DOMAIN list : n # gone /\ r[n] = i
      OBVIOUS
    <3>2. CASE i = j
      <4>1. \A n \in DOMAIN list : r[n] = j => n = gone
        BY <1>4, <1>11, <2>1
      <4>2. QED
        BY <1>7, <3>2, <4>1
    <3>3. CASE i = b
      BY <1>2, <1>4, <1>5, <1>6, <1>7, <1>11, <3>3
    <3>4. CASE i # j /\ i # b
      <4>1. w.vals[i] = t.vals[i]
        BY <1>6, <1>7, <3>4
      <4>2. t.vals[i] # NoValue <=> \E n \in DOMAIN list : n # gone /\ q[n] = i
        BY <1>1, <1>3 DEF Shifted
      <4>3. (\E n \in DOMAIN list : n # gone /\ q[n] = i) <=> \E n \in DOMAIN list : n # gone /\ r[n] = i
        BY <1>2, <1>4, <1>11, <3>4
      <4>4. QED
        BY <4>1, <4>2, <4>3
    <3>5. QED
      BY <3>2, <3>3, <3>4
  <2>4. ASSUME NEW n \in DOMAIN list, n # gone PROVE w.keys[r[n]] = list[n].key /\ w.vals[r[n]] = list[n].val
    <3>1. CASE n = moved
      BY <1>4, <1>5, <1>6, <1>7, <1>11, <3>1
    <3>2. CASE n # moved
      <4>1. t.keys[q[n]] = list[n].key /\ t.vals[q[n]] = list[n].val
        BY <1>1, <1>3, <2>4 DEF Shifted
      <4>2. r[n] = q[n] /\ q[n] \in TableSlot /\ q[n] # b /\ q[n] # j
        BY <1>11, <2>4, <3>2
      <4>3. w.keys[q[n]] = t.keys[q[n]] /\ w.vals[q[n]] = t.vals[q[n]]
        BY <1>6, <1>7, <4>2
      <4>4. QED
        BY <4>1, <4>2, <4>3
    <3>3. QED
      BY <3>1, <3>2
  <2>5. ASSUME NEW n \in DOMAIN list, NEW i \in TableSlot, n # gone, Dist(a[n], i) < Dist(a[n], r[n])
        PROVE  i = j \/ \E m \in DOMAIN list : m # gone /\ m < n /\ r[m] = i
    <3>1. CASE n = moved
      <4>1. Dist(a[moved], i) < Dist(a[moved], b)
        BY <1>11, <2>5, <3>1
      <4>2. Dist(a[moved], i) \in Int /\ Dist(a[moved], b) \in Int /\ Dist(a[moved], j) \in Int
        BY <1>4, <1>12, DistIs
      <4>3. Dist(a[moved], i) < Dist(a[moved], j) /\ i # b
        BY <1>13, <4>1, <4>2
      <4>4. PICK m \in DOMAIN list : m # gone /\ m < moved /\ q[m] = i
        BY <1>1, <1>2, <1>3, <4>3 DEF Shifted
      <4>5. m # moved /\ r[m] = i
        BY <1>11, <1>12, <4>4
      <4>6. QED
        BY <3>1, <4>4, <4>5
    <3>2. CASE n # moved
      <4>1. Dist(a[n], i) < Dist(a[n], q[n])
        BY <1>11, <2>5, <3>2
      <4>2. CASE i = b
        <5>1. moved < n
          BY <1>15, <2>5, <3>2, <4>1, <4>2
        <5>2. QED
          BY <1>2, <1>11, <4>2, <5>1
      <4>3. CASE i # b
        <5>1. PICK m \in DOMAIN list : m # gone /\ m < n /\ q[m] = i
          BY <1>1, <1>3, <2>5, <4>1, <4>3 DEF Shifted
        <5>2. m = moved => i = j
          BY <1>2, <5>1
        <5>3. m # moved => r[m] = i
          BY <1>11, <5>1
        <5>4. QED
          BY <5>1, <5>2, <5>3
      <4>4. QED
        BY <4>2, <4>3
    <3>3. QED
      BY <3>1, <3>2
  <2>6. QED
    BY <1>9, <1>11, <2>1, <2>2, <2>3, <2>4, <2>5 DEF Shifted
<1>17. \A i \in TableSlot : Dist(o, i) \in Int /\ (Dist(o, i) <= d + 1 => Dist(o, i) <= d \/ i = j)
  <2>1. SUFFICES ASSUME NEW i \in TableSlot
                 PROVE  Dist(o, i) \in Int /\ (Dist(o, i) <= d + 1 => Dist(o, i) <= d \/ i = j)
    OBVIOUS
  <2>2. Dist(o, i) \in Int /\ (Dist(o, i) = Dist(o, j) => i = j)
    BY DistIs
  <2>3. QED
    BY <2>2
<1>18. ShutSoFar(list, gone, a, r, o, d + 1)
  <2>1. \A i \in TableSlot : Dist(o, i) <= d + 1 => \E n \in DOMAIN list : r[n] = i
    <3>1. \A i \in TableSlot : Dist(o, i) <= d + 1 => \E n \in DOMAIN list : q[n] = i
      BY <1>1, <1>2, <1>17 DEF ShutSoFar
    <3>2. QED
      BY <1>14, <3>1
  <2>2. Dist(o, r[gone]) <= d + 1
    BY <1>11
  <2>3. ASSUME NEW n \in DOMAIN list, n # gone, Dist(o, r[n]) <= d + 1
        PROVE  ~(Dist(a[n], r[gone]) < Dist(a[n], r[n]))
    <3>1. CASE n = moved
      <4>1. Dist(a[moved], b) \in Int /\ Dist(a[moved], j) \in Int
        BY <1>4, <1>12, DistIs
      <4>2. QED
        BY <1>11, <1>13, <3>1, <4>1
    <3>2. CASE n # moved
      <4>1. r[n] = q[n] /\ q[n] \in TableSlot /\ q[n] # j
        BY <1>11, <2>3, <3>2
      <4>2. Dist(o, q[n]) <= d
        BY <1>17, <2>3, <4>1
      <4>3. SUFFICES ASSUME Dist(a[n], j) < Dist(a[n], q[n]) PROVE FALSE
        BY <1>11, <4>1
      <4>4. /\ E \in TableSlot /\ Dist(o, E) > d + 1
        <5>1. E \in TableSlot /\ \A m \in DOMAIN list : q[m] # E
          BY <1>1, ErasingIs DEF Shifted
        <5>2. ~(Dist(o, E) <= d) /\ E # j
          BY <1>1, <1>2, <5>1 DEF ShutSoFar
        <5>3. QED
          BY <1>17, <5>1, <5>2
      <4>5. Dist(o, q[n]) < Dist(o, j) /\ Dist(o, E) > Dist(o, j)
        BY <1>17, <4>1, <4>2, <4>4
      <4>6. Dist(a[n], E) < Dist(a[n], q[n])
        BY <1>12, <4>1, <4>3, <4>4, <4>5, ComesAround
      <4>7. E = b \/ \E m \in DOMAIN list : q[m] = E
        BY <1>1, <1>3, <2>3, <4>4, <4>6 DEF Shifted
      <4>8. QED
        BY <1>1, <1>4, <4>7 DEF Shifted
    <3>3. QED
      BY <3>1, <3>2
  <2>4. QED
    BY <2>1, <2>2, <2>3 DEF ShutSoFar
<1>19. QED
  BY <1>3, <1>9, <1>16, <1>18 DEF ShiftInv

LEMMA ShiftTurn ==
  ASSUME NEW list, NEW gone, NEW E, NEW a, Erasing(list, gone, E, a), NEW e, NEW q, NEW o \in TableSlot,
         NEW d \in 0 .. kSlots - 2, ShiftInv(list, gone, E, a, e, q, o, d),
         NEW j \in TableSlot, Dist(o, j) = d + 1
  PROVE  \E r : ShiftInv(list, gone, E, a, ShiftedOne(e, j), r, o, d + 1)
BY ShiftStops, ShiftSkips, ShiftMoves

LEMMA ShiftStarts ==
  ASSUME NEW list, NEW gone, NEW E, NEW a, Erasing(list, gone, E, a), NEW t, NEW q, LaidOut(home, t, list, q),
         t.vals[E] = NoValue, NEW e,
         e = [t |-> [t EXCEPT !.vals[q[gone]] = NoValue], hole |-> q[gone], done |-> FALSE]
  PROVE  ShiftInv(list, gone, E, a, e, q, q[gone], 0)
<1>1. PICK u, b : u = [t EXCEPT !.vals[b] = NoValue] /\ b = q[gone]
  OBVIOUS
<1>2. /\ gone \in DOMAIN list /\ b \in TableSlot /\ t \in Tables /\ q \in [DOMAIN list -> TableSlot]
      /\ \A m, n \in DOMAIN list : q[m] = q[n] => m = n
      /\ \A n \in DOMAIN list : q[n] \in TableSlot /\ a[n] = home[list[n].key] /\ a[n] \in TableSlot
  BY <1>1, OneSlotEach, ErasingIs DEF LaidOut
<1>3. /\ u.keys = t.keys /\ u.vals[b] = NoValue /\ u \in Tables
      /\ \A i \in TableSlot : i # b => u.vals[i] = t.vals[i]
  <2>1. PICK ks, vs, ws : ks = t.keys /\ vs = t.vals /\ ws = [vs EXCEPT ![b] = NoValue]
    OBVIOUS
  <2>2. /\ ws \in [TableSlot -> Mapped \cup {NoValue}] /\ ws[b] = NoValue
        /\ \A i \in TableSlot : i # b => ws[i] = vs[i]
    BY <1>2, <2>1 DEF Tables
  <2>3. u = [keys |-> ks, vals |-> ws]
    BY <1>1, <1>2, <2>1 DEF Tables
  <2>4. \A i \in TableSlot : ws[i] # NoValue => ks[i] \in Key
    BY <1>2, <2>1, <2>2 DEF Tables
  <2>5. QED
    BY <1>2, <2>1, <2>2, <2>3, <2>4 DEF Tables
<1>4. e = [t |-> u, hole |-> b, done |-> FALSE]
  BY <1>1
<1>5. e \in Shifts /\ e.t = u /\ e.hole = b /\ ~e.done
  BY <1>2, <1>3, <1>4 DEF Shifts
<1>6. Shifted(list, gone, E, a, e, q)
  <2>1. \A n \in DOMAIN list : q[n] # E
    BY ErasingIs DEF LaidOut
  <2>2. \A i \in TableSlot : u.vals[i] # NoValue <=> \E n \in DOMAIN list : n # gone /\ q[n] = i
    <3>1. SUFFICES ASSUME NEW i \in TableSlot
                   PROVE  u.vals[i] # NoValue <=> \E n \in DOMAIN list : n # gone /\ q[n] = i
      OBVIOUS
    <3>2. CASE i = b
      BY <1>1, <1>2, <1>3, <3>2
    <3>3. CASE i # b
      <4>1. u.vals[i] = t.vals[i] /\ (t.vals[i] # NoValue <=> \E n \in DOMAIN list : q[n] = i)
        BY <1>3, <3>3 DEF LaidOut
      <4>2. QED
        BY <1>1, <3>3, <4>1
    <3>4. QED
      BY <3>2, <3>3
  <2>3. \A n \in DOMAIN list : n # gone => u.keys[q[n]] = list[n].key /\ u.vals[q[n]] = list[n].val
    <3>1. SUFFICES ASSUME NEW n \in DOMAIN list, n # gone
                   PROVE  u.keys[q[n]] = list[n].key /\ u.vals[q[n]] = list[n].val
      OBVIOUS
    <3>2. q[n] # b /\ q[n] \in TableSlot /\ t.keys[q[n]] = list[n].key /\ t.vals[q[n]] = list[n].val
      BY <1>1, <1>2, <3>1 DEF LaidOut
    <3>3. QED
      BY <1>3, <3>2
  <2>4. \A n \in DOMAIN list, i \in TableSlot :
          n # gone /\ Dist(a[n], i) < Dist(a[n], q[n]) =>
            i = b \/ \E m \in DOMAIN list : m # gone /\ m < n /\ q[m] = i
    <3>1. SUFFICES ASSUME NEW n \in DOMAIN list, NEW i \in TableSlot, Dist(a[n], i) < Dist(a[n], q[n])
                   PROVE  i = b \/ \E m \in DOMAIN list : m # gone /\ m < n /\ q[m] = i
      OBVIOUS
    <3>2. PICK m \in DOMAIN list : m < n /\ q[m] = i
      BY <1>2, <3>1 DEF LaidOut
    <3>3. QED
      BY <1>1, <3>2
  <2>5. /\ \A i \in TableSlot : e.t.vals[i] # NoValue <=> \E n \in DOMAIN list : n # gone /\ q[n] = i
        /\ \A n \in DOMAIN list : n # gone => e.t.keys[q[n]] = list[n].key /\ e.t.vals[q[n]] = list[n].val
        /\ \A n \in DOMAIN list, i \in TableSlot :
             n # gone /\ Dist(a[n], i) < Dist(a[n], q[n]) =>
               i = e.hole \/ \E m \in DOMAIN list : m # gone /\ m < n /\ q[m] = i
    BY <1>5, <2>2, <2>3, <2>4
  <2>6. e.hole = q[gone]
    BY <1>1, <1>5
  <2>7. QED
    BY <1>2, <1>5, <2>1, <2>5, <2>6 DEF Shifted
<1>7. ShutSoFar(list, gone, a, q, b, 0)
  <2>1. \A i \in TableSlot : Dist(b, i) <= 0 => i = b
    <3>1. SUFFICES ASSUME NEW i \in TableSlot, Dist(b, i) <= 0 PROVE i = b
      OBVIOUS
    <3>2. Dist(b, i) = 0 /\ Dist(b, b) = 0
      BY <1>2, <3>1, DistIs
    <3>3. QED
      BY <1>2, <3>2, DistIs
  <2>2. Dist(b, b) <= 0
    BY <1>2, DistIs
  <2>3. QED
    BY <1>1, <1>2, <2>1, <2>2 DEF ShutSoFar
<1>8. QED
  BY <1>1, <1>5, <1>6, <1>7 DEF ShiftInv

LEMMA ShiftClosed ==
  ASSUME home \in [Key -> TableSlot], NEW e \in Shifts, NEW j \in TableSlot
  PROVE  ShiftedOne(e, j) \in Shifts
<1>1. PICK t, b, c : t = e.t /\ b = e.hole /\ c = e.done
  OBVIOUS
<1>2. t \in Tables /\ b \in TableSlot /\ c \in BOOLEAN /\ e = [t |-> t, hole |-> b, done |-> c]
  BY <1>1 DEF Shifts
<1>3. CASE c \/ t.vals[j] = NoValue
  <2>1. PICK yes : yes = TRUE /\ yes \in BOOLEAN
    OBVIOUS
  <2>2. ShiftedOne(e, j) = [e EXCEPT !.done = yes]
    BY <1>1, <1>3, <2>1 DEF ShiftedOne
  <2>3. [e EXCEPT !.done = yes] = [t |-> t, hole |-> b, done |-> yes]
    BY ONLY <1>2
  <2>4. [t |-> t, hole |-> b, done |-> yes] \in Shifts
    BY <1>2, <2>1 DEF Shifts
  <2>5. QED
    BY <2>2, <2>3, <2>4
<1>4. CASE ~c /\ t.vals[j] # NoValue
  <2>1. PICK k, v, u, w : /\ k = t.keys[j] /\ v = t.vals[j]
                          /\ u = WithEntry(t, b, k, v) /\ w = WithEntry(u, j, k, NoValue)
    OBVIOUS
  <2>2. k \in Key /\ v \in Mapped
    BY <1>2, <1>4, <2>1 DEF Tables
  <2>3. u \in Tables
    BY <1>2, <2>1, <2>2, EntryMade
  <2>4. w \in Tables
    BY <2>1, <2>2, <2>3, EntryMade
  <2>5. CASE Inside(home[k], b, j)
    BY <1>1, <1>4, <2>1, <2>5 DEF ShiftedOne
  <2>6. CASE ~Inside(home[k], b, j)
    <3>1. ShiftedOne(e, j) = [e EXCEPT !.t = w, !.hole = j]
      BY <1>1, <1>4, <2>1, <2>6 DEF ShiftedOne
    <3>2. ShiftedOne(e, j) = [t |-> w, hole |-> j, done |-> c]
      BY <1>2, <3>1
    <3>3. QED
      BY <1>2, <2>4, <3>2 DEF Shifts
  <2>7. QED
    BY <2>5, <2>6
<1>5. QED
  BY <1>2, <1>3, <1>4

(* All the turns. *)
LEMMA ShiftedThrough ==
  ASSUME NEW list, NEW gone, NEW E, NEW a, Erasing(list, gone, E, a), NEW e, NEW p, NEW o \in TableSlot,
         ShiftInv(list, gone, E, a, e, p, o, 0), NEW z,
         z = FoldLeft(ShiftedOne, e, [d \in 1 .. kSlots - 1 |-> Onward(o, d)])
  PROVE  \E q : Shifted(list, gone, E, a, z, q) /\ HoleShut(list, gone, a, q)
<1> DEFINE n == kSlots - 1
           D == 1 .. n
           js == [d \in D |-> Onward(o, d)]
           ch == [c \in SUBSET D |-> Max(c)]
           F == [p_ \in D \X Shifts |-> ShiftedOne(p_[2], js[p_[1]])]
           Is(W) == W = [c \in SUBSET D |-> IF c = {} THEN e
                            ELSE LET i == Max(c) IN ShiftedOne(W[c \ {i}], js[i])]
           Table == CHOOSE W : Is(W)
           f == [k \in 0 .. n |-> Table[1 .. k]]
<1>1. /\ n \in Nat /\ D = DOMAIN js /\ IsFiniteSet(D) /\ e \in Shifts
      /\ \A d \in D : /\ js[d] = Onward(o, d) /\ js[d] \in TableSlot /\ Dist(o, js[d]) = d
  <2>1. n \in Nat /\ IsFiniteSet(D)
    BY SlotsThere, FS_Interval
  <2>2. \A d \in D : d \in 0 .. kSlots - 1
    BY SlotsThere
  <2>3. e \in Shifts
    BY DEF ShiftInv, Shifted
  <2>4. QED
    BY <2>1, <2>2, <2>3, OnwardIs
<1>2. z = Table[D]
  BY <1>1 DEF FoldLeft, MapThenFoldSet
<1>3. \A c \in SUBSET D : c # {} => ch[c] \in c
  BY <1>1, LastTaken
<1> HIDE DEF js
<1>4. \A i \in D, v \in Shifts : F[<<i, v>>] \in Shifts /\ F[<<i, v>>] = ShiftedOne(v, js[i])
  <2>1. home \in [Key -> TableSlot]
    BY DEF Erasing
  <2>2. QED
    BY <1>1, <2>1, ShiftClosed
<1>5. \A c \in SUBSET D : ch[c] = Max(c)
  OBVIOUS
<1> HIDE DEF n, D, F, ch
<1>6. PICK W \in [SUBSET D -> Shifts] : IsFold(W, D, e, F, ch)
  <2>1. \A i \in D, v \in Shifts : F[<<i, v>>] \in Shifts
    BY <1>4
  <2> HIDE DEF Is
  <2>2. QED
    BY <1>1, <1>3, <2>1, FoldTableExists
<1>7. Is(W)
  <2>1. ASSUME NEW c \in SUBSET D, c # {}
        PROVE  F[<<ch[c], W[c \ {ch[c]}]>>] = ShiftedOne(W[c \ {Max(c)}], js[Max(c)])
    <3>1. ch[c] \in D /\ W[c \ {ch[c]}] \in Shifts
      BY <1>3, <2>1
    <3>2. QED
      BY <1>4, <1>5, <3>1
  <2>2. [c \in SUBSET D |-> IF c = {} THEN e ELSE F[<<ch[c], W[c \ {ch[c]}]>>]]
          = [c \in SUBSET D |-> IF c = {} THEN e
               ELSE LET i == Max(c) IN ShiftedOne(W[c \ {i}], js[i])]
    BY <2>1
  <2>3. QED
    BY <1>6, <2>2 DEF IsFold
<1>8. Is(Table)
  <2> HIDE DEF Is
  <2>1. QED
    BY <1>7
<1> HIDE DEF Table
<1>9. f[0] = e /\ f[n] = Table[D]
  <2>1. /\ {} \in SUBSET D /\ 1 .. 0 = {} /\ 0 \in 0 .. n /\ n \in 0 .. n
    BY <1>1
  <2>2. Table[{}] = e
    BY <1>8, <2>1
  <2>3. QED
    BY <2>1, <2>2 DEF D
<1>10. ASSUME NEW k \in 1 .. n PROVE f[k] = ShiftedOne(f[k - 1], js[k])
  <2>1. /\ k \in Nat /\ k # 0 /\ k \in 0 .. n /\ k - 1 \in 0 .. n /\ 1 .. k \in SUBSET D
    BY <1>1 DEF D
  <2>2. Max(1 .. k) = k /\ (1 .. k) \ {k} = 1 .. k - 1 /\ 1 .. k # {}
    BY <2>1, Intervals
  <2>3. Table[1 .. k] = ShiftedOne(Table[(1 .. k) \ {Max(1 .. k)}], js[Max(1 .. k)])
    BY <1>8, <2>1, <2>2
  <2>4. Table[1 .. k] = ShiftedOne(Table[1 .. k - 1], js[k])
    BY <2>2, <2>3
  <2>5. QED
    BY <2>1, <2>4
<1> HIDE DEF f
<1> DEFINE P == {k \in 0 .. n : \E q : ShiftInv(list, gone, E, a, f[k], q, o, k)}
<1>11. 0 \in P
  BY <1>1, <1>9
<1>12. ASSUME NEW k \in 0 .. n - 1, k \in P PROVE k + 1 \in P
  <2>1. PICK q, g, j : g = f[k] /\ j = js[k + 1] /\ ShiftInv(list, gone, E, a, g, q, o, k)
    BY <1>12
  <2>2. k \in 0 .. kSlots - 2 /\ k + 1 \in 1 .. n /\ k + 1 \in 0 .. n /\ (k + 1) - 1 = k /\ k + 1 \in D
    BY <1>1, SlotsThere DEF n, D
  <2>3. j \in TableSlot /\ Dist(o, j) = k + 1
    BY <1>1, <2>1, <2>2
  <2>4. \E r : ShiftInv(list, gone, E, a, ShiftedOne(g, j), r, o, k + 1)
    BY <2>1, <2>2, <2>3, ShiftTurn
  <2>5. f[k + 1] = ShiftedOne(g, j)
    BY <1>10, <2>1, <2>2
  <2>6. QED
    BY <2>2, <2>4, <2>5
<1> HIDE DEF P
<1>13. n \in P
  <2>1. \A k \in 0 .. n : k \in P
    BY <1>1, <1>11, <1>12, Upward
  <2>2. QED
    BY <1>1, <2>1
<1>14. PICK q : ShiftInv(list, gone, E, a, z, q, o, n)
  BY <1>2, <1>9, <1>13 DEF P
<1>15. Shifted(list, gone, E, a, z, q)
  BY <1>14 DEF ShiftInv
<1>16. HoleShut(list, gone, a, q)
  <2>1. CASE z.done
    BY <1>14, <2>1 DEF ShiftInv
  <2>2. CASE ~z.done
    <3>1. ShutSoFar(list, gone, a, q, o, n)
      BY <1>14, <2>2 DEF ShiftInv
    <3>2. \A i \in DOMAIN list : Dist(o, q[i]) <= n
      <4>1. \A i \in DOMAIN list : q[i] \in TableSlot
        BY <1>15 DEF Shifted
      <4>2. \A i \in DOMAIN list : Dist(o, q[i]) \in 0 .. kSlots - 1
        BY <4>1, DistIs
      <4>3. QED
        BY <4>2 DEF n
    <3>3. QED
      BY <3>1, <3>2 DEF ShutSoFar, HoleShut
  <2>3. QED
    BY <2>1, <2>2
<1>17. QED
  BY <1>15, <1>16

(* The entries without number gone. *)
Up(n, gone) == IF n < gone THEN n ELSE n + 1

LEMMA Unlisted ==
  ASSUME NEW list, Listed(list), NEW gone \in DOMAIN list, NEW z, z = RemoveAt(list, gone)
  PROVE  /\ Listed(z) /\ Len(z) = Len(list) - 1
         /\ \A n \in DOMAIN z : z[n] = list[Up(n, gone)] /\ Up(n, gone) \in DOMAIN list /\ Up(n, gone) # gone
         /\ \A m \in DOMAIN list : m # gone => \E n \in DOMAIN z : Up(n, gone) = m
<1>1. list \in Seq(Entry) /\ DOMAIN list = 1 .. Len(list) /\ Len(list) \in Nat /\ gone \in 1 .. Len(list)
  BY DEF Listed
<1>2. PICK N : N = Len(list)
  OBVIOUS
<1>3. PICK A, B : A = SubSeq(list, 1, gone - 1) /\ B = SubSeq(list, gone + 1, N)
  OBVIOUS
<1>4. A \in Seq(Entry) /\ Len(A) = gone - 1 /\ \A n \in 1 .. gone - 1 : A[n] = list[n]
  BY <1>1, <1>2, <1>3
<1>5. B \in Seq(Entry) /\ Len(B) = N - gone /\ \A n \in 1 .. N - gone : B[n] = list[gone + n]
  BY <1>1, <1>2, <1>3
<1>6. z \in Seq(Entry) /\ Len(z) = N - 1 /\ DOMAIN z = 1 .. N - 1 /\ N \in Nat \ {0}
  <2>1. z = A \o B
    BY <1>2, <1>3 DEF RemoveAt
  <2>2. z \in Seq(Entry) /\ Len(z) = Len(A) + Len(B)
    BY <1>4, <1>5, <2>1
  <2>3. N \in Nat \ {0} /\ Len(z) = N - 1
    BY <1>1, <1>2, <1>4, <1>5, <2>2
  <2>4. QED
    BY <2>2, <2>3
<1>7. \A n \in 1 .. N - 1 : z[n] = list[Up(n, gone)]
  <2>1. SUFFICES ASSUME NEW n \in 1 .. N - 1 PROVE z[n] = list[Up(n, gone)]
    OBVIOUS
  <2>2. z = A \o B
    BY <1>2, <1>3 DEF RemoveAt
  <2>3. CASE n < gone
    <3>1. n \in 1 .. gone - 1 /\ n \in 1 .. Len(A)
      BY <1>1, <1>2, <1>4, <2>3
    <3>2. z[n] = A[n]
      BY <1>4, <1>5, <2>2, <3>1
    <3>3. QED
      BY <1>4, <2>3, <3>1, <3>2 DEF Up
  <2>4. CASE ~(n < gone)
    <3>1. PICK moved : moved = n - (gone - 1) /\ moved \in 1 .. N - gone /\ gone + moved = n + 1 /\ n = Len(A) + moved
      BY <1>1, <1>2, <1>4, <2>4
    <3>2. z[n] = B[moved]
      BY <1>4, <1>5, <2>2, <3>1
    <3>3. B[moved] = list[gone + moved]
      BY <1>5, <3>1
    <3>4. QED
      BY <2>4, <3>1, <3>2, <3>3 DEF Up
  <2>5. QED
    BY <2>3, <2>4
<1>8. /\ \A n \in 1 .. N - 1 : Up(n, gone) \in 1 .. N /\ Up(n, gone) # gone
      /\ \A m, n \in 1 .. N - 1 : Up(m, gone) = Up(n, gone) => m = n
  BY <1>1, <1>2 DEF Up
<1>9. \A m \in 1 .. N : m # gone => \E n \in 1 .. N - 1 : Up(n, gone) = m
  <2>1. SUFFICES ASSUME NEW m \in 1 .. N, m # gone PROVE \E n \in 1 .. N - 1 : Up(n, gone) = m
    OBVIOUS
  <2>2. CASE m < gone
    <3>1. m \in 1 .. N - 1 /\ Up(m, gone) = m
      BY <1>1, <1>2, <2>2 DEF Up
    <3>2. QED
      BY <3>1
  <2>3. CASE ~(m < gone)
    <3>1. m - 1 \in 1 .. N - 1 /\ Up(m - 1, gone) = m
      BY <1>1, <1>2, <2>1, <2>3 DEF Up
    <3>2. QED
      BY <3>1
  <2>4. QED
    BY <2>2, <2>3
<1>10. Listed(z)
  <2>1. ASSUME NEW m \in 1 .. N - 1, NEW n \in 1 .. N - 1, z[m].key = z[n].key PROVE m = n
    <3>1. list[Up(m, gone)].key = list[Up(n, gone)].key
      BY <1>7, <2>1
    <3>2. Up(m, gone) = Up(n, gone)
      BY <1>1, <1>2, <1>8, <3>1 DEF Listed
    <3>3. QED
      BY <1>8, <3>2
  <2>2. QED
    BY <1>6, <2>1 DEF Listed
<1>11. QED
  BY <1>1, <1>2, <1>6, <1>7, <1>8, <1>9, <1>10

Removal(list, k) == RemoveFirstMatch(list, LAMBDA e : e.key = k)

LEMMA RemovalIs ==
  ASSUME NEW list, Listed(list), NEW k
  PROVE  /\ (\A n \in DOMAIN list : list[n].key # k) => Removal(list, k) = list
         /\ \A gone \in DOMAIN list : list[gone].key = k => Removal(list, k) = RemoveAt(list, gone)
<1>1. DOMAIN list = 1 .. Len(list) /\ Len(list) \in Nat
  BY DEF Listed
<1>2. ASSUME \A n \in DOMAIN list : list[n].key # k
      PROVE  Removal(list, k) = list
  BY <1>1, <1>2 DEF RemoveFirstMatch, Removal
<1>3. ASSUME NEW gone \in DOMAIN list, list[gone].key = k
      PROVE  Removal(list, k) = RemoveAt(list, gone)
  <2>1. {n \in 1 .. Len(list) : list[n].key = k} = {gone}
    BY <1>1, <1>3 DEF Listed
  <2>2. Min({gone}) = gone
    <3>1. gone \in Nat
      BY <1>1
    <3>2. QED
      BY <3>1, MinNat
  <2>3. \E n \in 1 .. Len(list) : list[n].key = k
    BY <1>1, <1>3
  <2>4. gone # 0
    BY <1>1
  <2>5. SelectInSeq(list, LAMBDA e : e.key = k) = gone
    BY <2>1, <2>2, <2>3 DEF SelectInSeq
  <2>6. QED
    BY <1>1, <1>3, <2>5 DEF RemoveFirstMatch, Removal
<1>4. QED
  BY <1>2, <1>3

(* Erasure takes the entry away and leaves the rest laid out. *)
LEMMA ErasedLaidOut ==
  ASSUME NEW t, NEW list, NEW p, LaidOut(home, t, list, p), Len(list) <= MaxLive, NEW gone \in DOMAIN list,
         NEW k, k = list[gone].key, NEW z, z = RemoveAt(list, gone)
  PROVE  \E r : LaidOut(home, Erased(t, k), z, r)
<1>1. PICK E \in TableSlot : t.vals[E] = NoValue
  BY RoomLeft
<1>2. PICK a : a = [n \in DOMAIN list |-> home[list[n].key]]
  OBVIOUS
<1>3. /\ Listed(list) /\ home \in [Key -> TableSlot] /\ t \in Tables /\ t.vals[p[gone]] # NoValue
      /\ \A n \in DOMAIN list : /\ list[n].key \in Key /\ p[n] \in TableSlot
                                /\ a[n] = home[list[n].key] /\ a[n] \in TableSlot
  <2>1. \A n \in DOMAIN list : list[n].key \in Key /\ p[n] \in TableSlot /\ home[list[n].key] \in TableSlot
    BY OneSlotEach
  <2>2. Listed(list) /\ home \in [Key -> TableSlot] /\ t \in Tables
    BY DEF LaidOut
  <2>3. t.vals[p[gone]] # NoValue
    BY <2>1 DEF LaidOut
  <2>4. QED
    BY <1>2, <2>1, <2>2, <2>3
<1>4. Erasing(list, gone, E, a)
  BY <1>1, <1>2, <1>3 DEF Erasing
<1>5. PICK o : o = p[gone] /\ o = Probe(t, k) /\ o \in TableSlot
  BY <1>3, ProbeFinds
<1>6. PICK e : e = [t |-> [t EXCEPT !.vals[o] = NoValue], hole |-> o, done |-> FALSE]
  OBVIOUS
<1>7. ShiftInv(list, gone, E, a, e, p, o, 0)
  BY <1>1, <1>4, <1>5, <1>6, ShiftStarts
<1>8. PICK f : f = FoldLeft(ShiftedOne, e, [d \in 1 .. kSlots - 1 |-> Onward(o, d)])
  OBVIOUS
<1>9. PICK q : Shifted(list, gone, E, a, f, q) /\ HoleShut(list, gone, a, q)
  BY <1>4, <1>5, <1>7, <1>8, ShiftedThrough
<1>10. PICK u : u = f.t /\ u = Erased(t, k)
  <2>1. Erased(t, k) = f.t
    BY <1>3, <1>5, <1>6, <1>8 DEF Erased
  <2>2. QED
    BY <2>1
<1>11. /\ Listed(z)
       /\ \A n \in DOMAIN z : z[n] = list[Up(n, gone)] /\ Up(n, gone) \in DOMAIN list /\ Up(n, gone) # gone
       /\ \A m \in DOMAIN list : m # gone => \E n \in DOMAIN z : Up(n, gone) = m
  BY <1>3, Unlisted
<1>12. PICK r : r = [n \in DOMAIN z |-> q[Up(n, gone)]]
  OBVIOUS
<1>13. /\ u \in Tables /\ q \in [DOMAIN list -> TableSlot] /\ r \in [DOMAIN z -> TableSlot]
       /\ \A i \in TableSlot : u.vals[i] # NoValue <=> \E n \in DOMAIN list : n # gone /\ q[n] = i
       /\ \A n \in DOMAIN list : n # gone => u.keys[q[n]] = list[n].key /\ u.vals[q[n]] = list[n].val
       /\ \A n \in DOMAIN list, i \in TableSlot :
            n # gone /\ Dist(a[n], i) < Dist(a[n], q[n]) =>
              i = q[gone] \/ \E m \in DOMAIN list : m # gone /\ m < n /\ q[m] = i
  <2>1. f \in Shifts /\ f.hole = q[gone] /\ q \in [DOMAIN list -> TableSlot]
    BY <1>9 DEF Shifted
  <2>2. u \in Tables
    BY <1>10, <2>1 DEF Shifts
  <2>3. r \in [DOMAIN z -> TableSlot]
    BY <1>11, <1>12, <2>1
  <2>4. QED
    BY <1>9, <1>10, <2>1, <2>2, <2>3 DEF Shifted
<1>14. \A i \in TableSlot : u.vals[i] # NoValue <=> \E n \in DOMAIN z : r[n] = i
  <2>1. SUFFICES ASSUME NEW i \in TableSlot PROVE u.vals[i] # NoValue <=> \E n \in DOMAIN z : r[n] = i
    OBVIOUS
  <2>2. ASSUME u.vals[i] # NoValue PROVE \E n \in DOMAIN z : r[n] = i
    <3>1. PICK m \in DOMAIN list : m # gone /\ q[m] = i
      BY <1>13, <2>2
    <3>2. PICK n \in DOMAIN z : Up(n, gone) = m
      BY <1>11, <3>1
    <3>3. QED
      BY <1>12, <3>1, <3>2
  <2>3. ASSUME NEW n \in DOMAIN z, r[n] = i PROVE u.vals[i] # NoValue
    BY <1>11, <1>12, <1>13, <2>3
  <2>4. QED
    BY <2>2, <2>3
<1>15. \A n \in DOMAIN z : u.keys[r[n]] = z[n].key /\ u.vals[r[n]] = z[n].val
  BY <1>11, <1>12, <1>13
<1>16. ASSUME NEW n \in DOMAIN z, NEW i \in TableSlot, Dist(home[z[n].key], i) < Dist(home[z[n].key], r[n])
       PROVE  \E m \in DOMAIN z : m < n /\ r[m] = i
  <2>1. PICK w : w = Up(n, gone) /\ w \in DOMAIN list /\ w # gone /\ z[n] = list[w] /\ r[n] = q[w]
    BY <1>11, <1>12
  <2>2. Dist(a[w], i) < Dist(a[w], q[w])
    BY <1>3, <1>16, <2>1
  <2>3. i # q[gone]
    BY <1>9, <2>1, <2>2 DEF HoleShut
  <2>4. PICK v \in DOMAIN list : v # gone /\ v < w /\ q[v] = i
    BY <1>13, <2>1, <2>2, <2>3
  <2>5. PICK m \in DOMAIN z : Up(m, gone) = v
    BY <1>11, <2>4
  <2>6. m < n
    <3>1. m \in Nat /\ n \in Nat /\ gone \in Nat
      BY <1>3, <1>11 DEF Listed
    <3>2. QED
      BY <2>1, <2>4, <2>5, <3>1 DEF Up
  <2>7. QED
    BY <1>12, <2>4, <2>5, <2>6
<1>17. LaidOut(home, u, z, r)
  BY <1>3, <1>11, <1>13, <1>14, <1>15, <1>16 DEF LaidOut
<1>18. QED
  BY <1>10, <1>17

LEMMA NothingErased ==
  ASSUME NEW t, NEW list, NEW q, LaidOut(home, t, list, q), Len(list) <= MaxLive, NEW k \in Key,
         \A n \in DOMAIN list : list[n].key # k
  PROVE  Erased(t, k) = t
<1>1. t.vals[Probe(t, k)] = NoValue
  BY ProbeFinds
<1>2. QED
  BY <1>1 DEF Erased

(* The map.  Its inductive invariant: the table is laid out as the list of entries demands. *)
MapInv ==
  Len(inserted) <= MaxLive /\ \E q : LaidOut(home, table, inserted, q)

LEMMA MapInvInit == MapInit => MapInv
<1> SUFFICES ASSUME MapInit PROVE MapInv
  OBVIOUS
<1>1. home \in [Key -> TableSlot] /\ table = Empty /\ inserted = << >>
  BY DEF MapInit
<1>2. LaidOut(home, table, inserted, << >>)
  BY <1>1, EmptyIsTable, EmptyLaidOut
<1>3. Len(inserted) <= MaxLive
  BY <1>1, SlotsThere
<1>4. QED
  BY <1>2, <1>3 DEF MapInv

LEMMA MapInvNext == MapInv /\ [MapNext]_map => MapInv'
<1> SUFFICES ASSUME MapInv, [MapNext]_map PROVE MapInv'
  OBVIOUS
<1>1. PICK h, t, list, q : /\ h = home /\ t = table /\ list = inserted /\ LaidOut(h, t, list, q)
                           /\ Len(list) <= MaxLive
  BY DEF MapInv
<1>2. /\ Listed(list) /\ t \in Tables /\ h \in [Key -> TableSlot] /\ list \in Seq(Entry)
      /\ DOMAIN list = 1 .. Len(list) /\ Len(list) \in Nat
  BY <1>1 DEF LaidOut, Listed
<1>3. SUFFICES Len(inserted') <= MaxLive /\ \E r : LaidOut(h, table', inserted', r) /\ home' = h
  BY DEF MapInv
<1>4. CASE Clear
  <2>1. inserted' = << >> /\ home' = h /\ table' = [t EXCEPT !.vals = [i \in TableSlot |-> NoValue]]
    BY <1>1, <1>4 DEF Clear
  <2>2. PICK u : u = table' /\ u \in Tables /\ \A i \in TableSlot : u.vals[i] = NoValue
    <3>1. PICK ks, vs, ws : ks = t.keys /\ vs = t.vals /\ ws = [i \in TableSlot |-> NoValue]
      OBVIOUS
    <3>2. table' = [keys |-> ks, vals |-> ws] /\ ks \in [TableSlot -> Key \cup {NoValue}]
      BY <1>2, <2>1, <3>1 DEF Tables
    <3>3. ws \in [TableSlot -> Mapped \cup {NoValue}] /\ \A i \in TableSlot : ws[i] = NoValue
      BY <3>1
    <3>4. QED
      BY <3>2, <3>3 DEF Tables
  <2>3. LaidOut(h, u, << >>, << >>)
    BY <1>2, <2>2, EmptyLaidOut
  <2>4. QED
    BY <2>1, <2>2, <2>3, SlotsThere
<1>5. ASSUME NEW k \in Key, Erase(k)
      PROVE  Len(inserted') <= MaxLive /\ \E r : LaidOut(h, table', inserted', r) /\ home' = h
  <2>1. /\ table' = Erased(t, k) /\ home' = h
        /\ inserted' = Removal(list, k)
    BY <1>1, <1>5 DEF Erase, Removal
  <2>2. CASE \A n \in DOMAIN list : list[n].key # k
    <3>1. table' = t
      BY <1>1, <2>1, <2>2, NothingErased
    <3>2. inserted' = list
      BY <1>2, <2>1, <2>2, RemovalIs
    <3>3. QED
      BY <1>1, <2>1, <3>1, <3>2
  <2>3. CASE \E n \in DOMAIN list : list[n].key = k
    <3>1. PICK gone \in DOMAIN list : list[gone].key = k
      BY <2>3
    <3>2. PICK z : z = RemoveAt(list, gone) /\ inserted' = z
      BY <1>2, <2>1, <3>1, RemovalIs
    <3>3. \E r : LaidOut(home, Erased(t, k), z, r)
      BY <1>1, <3>1, <3>2, ErasedLaidOut
    <3>4. Len(z) <= MaxLive
      BY <1>1, <1>2, <3>2, SlotsThere, Unlisted
    <3>5. QED
      BY <1>1, <2>1, <3>2, <3>3, <3>4
  <2>4. QED
    BY <2>2, <2>3
<1>6. ASSUME NEW k \in Key, NEW v \in Mapped, Insert(k, v)
      PROVE  Len(inserted') <= MaxLive /\ \E r : LaidOut(h, table', inserted', r) /\ home' = h
  <2>1. /\ k \in {list[n].key : n \in DOMAIN list} \/ Len(list) < MaxLive
        /\ table' = Inserted(t, k, v) /\ home' = h
        /\ inserted' = IF k \in {list[n].key : n \in DOMAIN list}
                       THEN [n \in DOMAIN list |-> IF list[n].key = k THEN [key |-> k, val |-> v] ELSE list[n]]
                       ELSE Append(list, [key |-> k, val |-> v])
    BY <1>1, <1>6 DEF Insert, Live
  <2>2. CASE k \in {list[n].key : n \in DOMAIN list}
    <3>1. PICK gone \in DOMAIN list : list[gone].key = k
      BY <2>2
    <3>2. PICK z : /\ z = [n \in DOMAIN list |-> IF list[n].key = k THEN [key |-> k, val |-> v] ELSE list[n]]
                   /\ z = inserted'
      BY <2>1, <2>2
    <3>3. LaidOut(home, Inserted(t, k, v), z, q)
      BY <1>1, <3>1, <3>2, OldEntry
    <3>4. Len(z) = Len(list)
      BY <1>2, <3>2
    <3>5. QED
      BY <1>1, <2>1, <3>2, <3>3, <3>4
  <2>3. CASE k \notin {list[n].key : n \in DOMAIN list}
    <3>1. \A n \in DOMAIN list : list[n].key # k
      BY <2>3
    <3>2. PICK z : z = Append(list, [key |-> k, val |-> v]) /\ z = inserted'
      BY <2>1, <2>3
    <3>3. \E r : LaidOut(home, Inserted(t, k, v), z, r)
      BY <1>1, <2>1, <2>3, <3>1, <3>2, NewEntry
    <3>4. Len(list) < MaxLive /\ Len(z) = Len(list) + 1
      BY <1>2, <2>1, <2>3, <3>2
    <3>5. Len(z) <= MaxLive
      BY <1>2, <3>4, SlotsThere
    <3>6. QED
      BY <1>1, <2>1, <3>2, <3>3, <3>5
  <2>4. QED
    BY <2>2, <2>3
<1>7. CASE UNCHANGED map
  BY <1>1, <1>7 DEF map
<1>8. QED
  BY <1>4, <1>5, <1>6, <1>7 DEF MapNext

LEMMA MapInvExact == MapInv => MapExact
<1> SUFFICES ASSUME MapInv PROVE MapExact
  OBVIOUS
<1>1. PICK q : LaidOut(home, table, inserted, q) /\ Len(inserted) <= MaxLive
  BY DEF MapInv
<1>2. home \in [Key -> TableSlot] /\ Listed(inserted)
  BY <1>1 DEF LaidOut
<1>3. FindsWhatIsThere
  <2>1. SUFFICES ASSUME NEW k \in Key, NEW at, at = {n \in DOMAIN inserted : inserted[n].key = k}
                 PROVE  IF at = {} THEN Found(table, k) = NoValue
                        ELSE \A n \in at : Found(table, k) = inserted[n].val
    BY DEF FindsWhatIsThere
  <2>2. CASE at = {}
    BY <1>1, <2>1, <2>2, ProbeFinds DEF Found
  <2>3. ASSUME NEW n \in at PROVE Found(table, k) = inserted[n].val
    <3>1. n \in DOMAIN inserted /\ inserted[n].key = k
      BY <2>1, <2>3
    <3>2. Probe(table, k) = q[n]
      BY <1>1, <3>1, ProbeFinds
    <3>3. QED
      BY <1>1, <3>1, <3>2 DEF LaidOut, Found
  <2>4. QED
    BY <2>2, <2>3
<1>4. AsIfNeverInserted
  <2>1. PICK f : f = Fresh(inserted)
    OBVIOUS
  <2>2. PICK r : LaidOut(home, f, inserted, r)
    BY <1>1, <1>2, <2>1, FreshIs
  <2>3. /\ f.vals = table.vals
        /\ \A i \in TableSlot : table.vals[i] # NoValue => f.keys[i] = table.keys[i]
    BY <1>1, <2>2, OneLayout
  <2>4. QED
    BY <2>1, <2>3 DEF AsIfNeverInserted, Fresh
<1>5. QED
  BY <1>3, <1>4 DEF MapExact

(* The id map answers with what was last inserted under an id and nothing for any other, and  *)
(* its table is the one the ids still there give when inserted afresh: for every hash of the  *)
(* ids, every number of slots and every number of live ids below it (MapExact).               *)
THEOREM MapAlwaysExact == MapSpec => []MapExact
<1>1. MapInit => MapInv
  BY MapInvInit
<1>2. MapInv /\ [MapNext]_map => MapInv'
  BY MapInvNext
<1>3. MapInv => MapExact
  BY MapInvExact
<1>4. QED
  BY <1>1, <1>2, <1>3, PTL DEF MapSpec

-----------------------------------------------------------------------------
(* The ladder book. *)

(* What a book is made of. *)
Sides == {"Buy", "Sell"}
Links == Handle \cup {kNull}
OrderRecs == [id : Id \cup {kNull}, qty : Nat, prev : Links, next : Links, slot : Slot, side : Sides]
LevelRecs == [qty : Int, head : Links, tail : Links]
Books == [slab : [Handle -> OrderRecs], level : [Sides -> [Slot -> LevelRecs]],
          best : [Sides -> Int], free_head : Links, ids : [Id -> Links]]

LEMMA Sizes ==
  /\ kMaxOrders \in Nat \ {0} /\ kLevels \in Nat \ {0} /\ MaxQty \in Nat /\ kNull \notin Handle
  /\ Handle \subseteq Nat /\ Slot \subseteq Nat /\ 0 \in Slot /\ 0 \in Handle
  /\ IsFiniteSet(Handle) /\ Cardinality(Handle) = kMaxOrders
<1>1. kMaxOrders \in Nat \ {0} /\ kLevels \in Nat \ {0} /\ MaxQty \in Nat /\ kNull \notin Handle
  BY LadderAssumption
<1>2. Handle \subseteq Nat /\ Slot \subseteq Nat /\ 0 \in Slot /\ 0 \in Handle
  BY <1>1 DEF Handle, Slot
<1>3. IsFiniteSet(Handle) /\ Cardinality(Handle) = kMaxOrders
  <2>1. /\ IsFiniteSet(0 .. kMaxOrders - 1)
        /\ Cardinality(0 .. kMaxOrders - 1)
             = IF 0 > kMaxOrders - 1 THEN 0 ELSE kMaxOrders - 1 - 0 + 1
    BY <1>1, FS_Interval
  <2>2. QED
    BY <1>1, <2>1 DEF Handle
<1>4. QED
  BY <1>1, <1>2, <1>3

LEMMA BookIs ==
  ASSUME NEW b \in Books
  PROVE  /\ b = [slab |-> b.slab, level |-> b.level, best |-> b.best, free_head |-> b.free_head,
                 ids |-> b.ids]
         /\ b.slab \in [Handle -> OrderRecs] /\ b.level \in [Sides -> [Slot -> LevelRecs]]
         /\ b.best \in [Sides -> Int] /\ b.free_head \in Links /\ b.ids \in [Id -> Links]
BY DEF Books

LEMMA OrderIs ==
  ASSUME NEW r \in OrderRecs
  PROVE  /\ r.id \in Id \cup {kNull} /\ r.qty \in Nat /\ r.prev \in Links /\ r.next \in Links
         /\ r.slot \in Slot /\ r.side \in Sides
         /\ r = [id |-> r.id, qty |-> r.qty, prev |-> r.prev, next |-> r.next, slot |-> r.slot,
                 side |-> r.side]
BY DEF OrderRecs

LEMMA LevelIs ==
  ASSUME NEW r \in LevelRecs
  PROVE  /\ r.qty \in Int /\ r.head \in Links /\ r.tail \in Links
         /\ r = [qty |-> r.qty, head |-> r.head, tail |-> r.tail]
BY DEF LevelRecs

(* One order of the slab, or one level, set anew. *)
SlabPut(b, h, r) == [b EXCEPT !.slab[h] = r]

LEMMA SlabSet ==
  ASSUME NEW b \in Books, NEW h \in Handle, NEW r \in OrderRecs, NEW c, c = SlabPut(b, h, r)
  PROVE  /\ c \in Books /\ c.level = b.level /\ c.best = b.best /\ c.free_head = b.free_head
         /\ c.ids = b.ids /\ c.slab[h] = r /\ \A g \in Handle : g # h => c.slab[g] = b.slab[g]
<1>1. PICK f, z : f = b.slab /\ z = [f EXCEPT ![h] = r]
  OBVIOUS
<1>2. f \in [Handle -> OrderRecs]
  BY <1>1, BookIs
<1>3. z \in [Handle -> OrderRecs] /\ z[h] = r /\ \A g \in Handle : g # h => z[g] = f[g]
  BY <1>1, <1>2
<1>4. c = [b EXCEPT !.slab = z]
  BY <1>1 DEF SlabPut
<1>5. c = [slab |-> z, level |-> b.level, best |-> b.best, free_head |-> b.free_head, ids |-> b.ids]
  BY <1>4, BookIs
<1>6. c \in Books
  BY <1>3, <1>5, BookIs DEF Books
<1>7. QED
  BY <1>1, <1>3, <1>5, <1>6

LevelPut(b, side, slot, r) == [b EXCEPT !.level[side][slot] = r]

LEMMA LevelSet ==
  ASSUME NEW b \in Books, NEW side \in Sides, NEW slot \in Slot, NEW r \in LevelRecs, NEW c,
         c = LevelPut(b, side, slot, r)
  PROVE  /\ c \in Books /\ c.slab = b.slab /\ c.best = b.best /\ c.free_head = b.free_head
         /\ c.ids = b.ids
         /\ c.level[side][slot] = r
         /\ \A d \in Sides, p \in Slot : d # side \/ p # slot => c.level[d][p] = b.level[d][p]
<1>1. PICK f, z, w : f = b.level /\ w = [f[side] EXCEPT ![slot] = r] /\ z = [f EXCEPT ![side] = w]
  OBVIOUS
<1>2. f \in [Sides -> [Slot -> LevelRecs]] /\ f[side] \in [Slot -> LevelRecs]
  BY <1>1, BookIs
<1>3. w \in [Slot -> LevelRecs] /\ w[slot] = r /\ \A p \in Slot : p # slot => w[p] = f[side][p]
  BY <1>1, <1>2
<1>4. /\ z \in [Sides -> [Slot -> LevelRecs]] /\ z[side] = w
      /\ \A d \in Sides : d # side => z[d] = f[d]
  BY <1>1, <1>2, <1>3
<1>5. c = [b EXCEPT !.level = z]
  BY <1>1 DEF LevelPut
<1>6. c = [slab |-> b.slab, level |-> z, best |-> b.best, free_head |-> b.free_head, ids |-> b.ids]
  BY <1>5, BookIs
<1>7. c \in Books
  BY <1>4, <1>6, BookIs DEF Books
<1>8. c.level[side][slot] = r
  BY <1>3, <1>4, <1>6
<1>9. ASSUME NEW d \in Sides, NEW p \in Slot, d # side \/ p # slot PROVE c.level[d][p] = b.level[d][p]
  <2>1. CASE d # side
    BY <1>1, <1>4, <1>6, <2>1
  <2>2. CASE d = side /\ p # slot
    BY <1>1, <1>3, <1>4, <1>6, <2>2
  <2>3. QED
    BY <1>9, <2>1, <2>2
<1>10. QED
  BY <1>6, <1>7, <1>8, <1>9

(* What a step leaves alone. *)
SameBodies(b, c) ==
  \A g \in Handle : /\ c.slab[g].id = b.slab[g].id /\ c.slab[g].qty = b.slab[g].qty
                    /\ c.slab[g].slot = b.slab[g].slot /\ c.slab[g].side = b.slab[g].side
SameRest(b, c) == c.best = b.best /\ c.free_head = b.free_head /\ c.ids = b.ids

LEMMA BeforeIs ==
  ASSUME NEW b \in Books, NEW side \in Sides, NEW slot \in Slot, NEW h \in Links, NEW to \in Links,
         NEW c, c = Before(b, side, slot, h, to)
  PROVE  /\ c \in Books /\ SameRest(b, c) /\ SameBodies(b, c)
         /\ \A g \in Handle : /\ c.slab[g].next = (IF g = h THEN to ELSE b.slab[g].next)
                              /\ c.slab[g].prev = b.slab[g].prev
         /\ \A d \in Sides, p \in Slot :
              /\ c.level[d][p].head = (IF h = kNull /\ d = side /\ p = slot THEN to
                                       ELSE b.level[d][p].head)
              /\ c.level[d][p].tail = b.level[d][p].tail /\ c.level[d][p].qty = b.level[d][p].qty
<1>1. CASE h # kNull
  <2>1. h \in Handle /\ b.slab[h] \in OrderRecs
    BY <1>1, BookIs DEF Links
  <2>2. PICK o, r : o = b.slab[h] /\ r = [o EXCEPT !.next = to]
    OBVIOUS
  <2>3. r = [id |-> o.id, qty |-> o.qty, prev |-> o.prev, next |-> to, slot |-> o.slot, side |-> o.side]
    BY <2>1, <2>2, OrderIs
  <2>4. r \in OrderRecs
    BY <2>1, <2>2, <2>3, OrderIs DEF OrderRecs
  <2>5. c = SlabPut(b, h, r)
    BY <1>1, <2>2 DEF Before, SlabPut
  <2>6. /\ c \in Books /\ c.level = b.level /\ c.best = b.best /\ c.free_head = b.free_head
        /\ c.ids = b.ids /\ c.slab[h] = r /\ \A g \in Handle : g # h => c.slab[g] = b.slab[g]
    BY <2>1, <2>4, <2>5, SlabSet
  <2>7. SameBodies(b, c)
    BY <2>2, <2>3, <2>6 DEF SameBodies
  <2>8. ASSUME NEW g \in Handle
        PROVE  /\ c.slab[g].next = (IF g = h THEN to ELSE b.slab[g].next)
               /\ c.slab[g].prev = b.slab[g].prev
    BY <2>2, <2>3, <2>6
  <2>9. QED
    BY <1>1, <2>6, <2>7, <2>8 DEF SameRest
<1>2. CASE h = kNull
  <2>1. b.level[side][slot] \in LevelRecs
    BY BookIs
  <2>2. PICK o, r : o = b.level[side][slot] /\ r = [o EXCEPT !.head = to]
    OBVIOUS
  <2>3. r = [qty |-> o.qty, head |-> to, tail |-> o.tail]
    BY <2>1, <2>2, LevelIs
  <2>4. r \in LevelRecs
    BY <2>1, <2>2, <2>3, LevelIs DEF LevelRecs
  <2>5. c = LevelPut(b, side, slot, r)
    BY <1>2, <2>2 DEF Before, LevelPut
  <2>6. /\ c \in Books /\ c.slab = b.slab /\ c.best = b.best /\ c.free_head = b.free_head
        /\ c.ids = b.ids /\ c.level[side][slot] = r
        /\ \A d \in Sides, p \in Slot : d # side \/ p # slot => c.level[d][p] = b.level[d][p]
    BY <2>4, <2>5, LevelSet
  <2>7. \A g \in Handle : g # h
    BY <1>2, Sizes
  <2>8. ASSUME NEW d \in Sides, NEW p \in Slot
        PROVE  /\ c.level[d][p].head = (IF h = kNull /\ d = side /\ p = slot THEN to
                                        ELSE b.level[d][p].head)
               /\ c.level[d][p].tail = b.level[d][p].tail /\ c.level[d][p].qty = b.level[d][p].qty
    <3>1. CASE d = side /\ p = slot
      BY <1>2, <2>2, <2>3, <2>6, <3>1
    <3>2. CASE d # side \/ p # slot
      BY <2>6, <3>2
    <3>3. QED
      BY <3>1, <3>2
  <2>9. QED
    BY <2>6, <2>7, <2>8 DEF SameRest, SameBodies
<1>3. QED
  BY <1>1, <1>2

LEMMA AfterIs ==
  ASSUME NEW b \in Books, NEW side \in Sides, NEW slot \in Slot, NEW h \in Links, NEW to \in Links,
         NEW c, c = After(b, side, slot, h, to)
  PROVE  /\ c \in Books /\ SameRest(b, c) /\ SameBodies(b, c)
         /\ \A g \in Handle : /\ c.slab[g].prev = (IF g = h THEN to ELSE b.slab[g].prev)
                              /\ c.slab[g].next = b.slab[g].next
         /\ \A d \in Sides, p \in Slot :
              /\ c.level[d][p].tail = (IF h = kNull /\ d = side /\ p = slot THEN to
                                       ELSE b.level[d][p].tail)
              /\ c.level[d][p].head = b.level[d][p].head /\ c.level[d][p].qty = b.level[d][p].qty
<1>1. CASE h # kNull
  <2>1. h \in Handle /\ b.slab[h] \in OrderRecs
    BY <1>1, BookIs DEF Links
  <2>2. PICK o, r : o = b.slab[h] /\ r = [o EXCEPT !.prev = to]
    OBVIOUS
  <2>3. r = [id |-> o.id, qty |-> o.qty, prev |-> to, next |-> o.next, slot |-> o.slot, side |-> o.side]
    BY <2>1, <2>2, OrderIs
  <2>4. r \in OrderRecs
    BY <2>1, <2>2, <2>3, OrderIs DEF OrderRecs
  <2>5. c = SlabPut(b, h, r)
    BY <1>1, <2>2 DEF After, SlabPut
  <2>6. /\ c \in Books /\ c.level = b.level /\ c.best = b.best /\ c.free_head = b.free_head
        /\ c.ids = b.ids /\ c.slab[h] = r /\ \A g \in Handle : g # h => c.slab[g] = b.slab[g]
    BY <2>1, <2>4, <2>5, SlabSet
  <2>7. SameBodies(b, c)
    BY <2>2, <2>3, <2>6 DEF SameBodies
  <2>8. ASSUME NEW g \in Handle
        PROVE  /\ c.slab[g].prev = (IF g = h THEN to ELSE b.slab[g].prev)
               /\ c.slab[g].next = b.slab[g].next
    BY <2>2, <2>3, <2>6
  <2>9. QED
    BY <1>1, <2>6, <2>7, <2>8 DEF SameRest
<1>2. CASE h = kNull
  <2>1. b.level[side][slot] \in LevelRecs
    BY BookIs
  <2>2. PICK o, r : o = b.level[side][slot] /\ r = [o EXCEPT !.tail = to]
    OBVIOUS
  <2>3. r = [qty |-> o.qty, head |-> o.head, tail |-> to]
    BY <2>1, <2>2, LevelIs
  <2>4. r \in LevelRecs
    BY <2>1, <2>2, <2>3, LevelIs DEF LevelRecs
  <2>5. c = LevelPut(b, side, slot, r)
    BY <1>2, <2>2 DEF After, LevelPut
  <2>6. /\ c \in Books /\ c.slab = b.slab /\ c.best = b.best /\ c.free_head = b.free_head
        /\ c.ids = b.ids /\ c.level[side][slot] = r
        /\ \A d \in Sides, p \in Slot : d # side \/ p # slot => c.level[d][p] = b.level[d][p]
    BY <2>4, <2>5, LevelSet
  <2>7. \A g \in Handle : g # h
    BY <1>2, Sizes
  <2>8. ASSUME NEW d \in Sides, NEW p \in Slot
        PROVE  /\ c.level[d][p].tail = (IF h = kNull /\ d = side /\ p = slot THEN to
                                        ELSE b.level[d][p].tail)
               /\ c.level[d][p].head = b.level[d][p].head /\ c.level[d][p].qty = b.level[d][p].qty
    <3>1. CASE d = side /\ p = slot
      BY <1>2, <2>2, <2>3, <2>6, <3>1
    <3>2. CASE d # side \/ p # slot
      BY <2>6, <3>2
    <3>3. QED
      BY <3>1, <3>2
  <2>9. QED
    BY <2>6, <2>7, <2>8 DEF SameRest, SameBodies
<1>3. QED
  BY <1>1, <1>2

(* The best price of a side. *)
BestIs(side, S, v) ==
  IF side = "Buy" THEN v \in S \cup {-1} /\ \A p \in S : p <= v
  ELSE v \in S \cup {kLevels} /\ \A p \in S : v <= p
HeldIn(b, side) == {p \in Slot : b.level[side][p].head # kNull}
BestIn(b, side) == BestIs(side, HeldIn(b, side), b.best[side])

LEMMA BestExists ==
  ASSUME NEW S \in SUBSET Slot, NEW side \in Sides
  PROVE  /\ BestIs(side, S, IF side = "Buy" THEN Max(S \cup {-1}) ELSE Min(S \cup {kLevels}))
         /\ \A v, w : BestIs(side, S, v) /\ BestIs(side, S, w) => v = w
         /\ \A v : BestIs(side, S, v) => v \in Int
<1>1. S \subseteq 0 .. kLevels - 1 /\ kLevels \in Nat \ {0} /\ S \subseteq Nat
  BY Sizes DEF Slot
<1>2. ASSUME NEW v, BestIs(side, S, v) PROVE v \in Int
  <2>1. CASE side = "Buy"
    <3>1. v \in S \cup {-1}
      BY <1>2, <2>1 DEF BestIs
    <3>2. QED
      BY <1>1, <3>1
  <2>2. CASE side # "Buy"
    <3>1. v \in S \cup {kLevels}
      BY <1>2, <2>2 DEF BestIs
    <3>2. QED
      BY <1>1, <3>1
  <2>3. QED
    BY <2>1, <2>2
<1>3. ASSUME NEW v, NEW w, BestIs(side, S, v), BestIs(side, S, w) PROVE v = w
  <2>1. v \in Int /\ w \in Int
    BY <1>2, <1>3
  <2>2. CASE side = "Buy"
    <3>1. v \in S \cup {-1} /\ w \in S \cup {-1} /\ \A p \in S : p <= v /\ p <= w
      BY <1>3, <2>2 DEF BestIs
    <3>2. \A p \in S \cup {-1} : p >= -1 /\ p \in Int
      BY <1>1
    <3>3. v <= w /\ w <= v
      BY <2>1, <3>1, <3>2
    <3>4. QED
      BY <2>1, <3>3
  <2>3. CASE side # "Buy"
    <3>1. v \in S \cup {kLevels} /\ w \in S \cup {kLevels} /\ \A p \in S : v <= p /\ w <= p
      BY <1>3, <2>3 DEF BestIs
    <3>2. \A p \in S \cup {kLevels} : p <= kLevels /\ p \in Int
      BY <1>1
    <3>3. v <= w /\ w <= v
      BY <2>1, <3>1, <3>2
    <3>4. QED
      BY <2>1, <3>3
  <2>4. QED
    BY <2>2, <2>3
<1>4. CASE side = "Buy"
  <2>1. PICK m \in S \cup {-1} : \A p \in S \cup {-1} : m >= p
    <3>1. CASE S = {}
      BY <3>1
    <3>2. CASE S # {}
      <4>1. PICK m \in S : \A p \in S : m >= p
        <5>1. Max(S) \in S /\ \A p \in S : Max(S) >= p
          <6>1. kLevels - 1 \in Nat
            BY <1>1
          <6>2. QED
            BY <1>1, <3>2, <6>1, MaxBounded
        <5>2. QED
          BY <5>1
      <4>2. \A p \in S \cup {-1} : m >= p
        BY <1>1, <4>1
      <4>3. QED
        BY <4>1, <4>2
    <3>3. QED
      BY <3>1, <3>2
  <2>2. Max(S \cup {-1}) \in S \cup {-1} /\ \A p \in S \cup {-1} : Max(S \cup {-1}) >= p
    BY <2>1 DEF Max
  <2>3. BestIs(side, S, Max(S \cup {-1}))
    BY <1>1, <1>4, <2>2 DEF BestIs
  <2>4. QED
    BY <1>2, <1>3, <1>4, <2>3
<1>5. CASE side # "Buy"
  <2>1. S \cup {kLevels} \subseteq Nat /\ S \cup {kLevels} # {}
    BY <1>1
  <2>2. Min(S \cup {kLevels}) \in S \cup {kLevels} /\ \A p \in S \cup {kLevels} : Min(S \cup {kLevels}) <= p
    BY <2>1, MinNat
  <2>3. BestIs(side, S, Min(S \cup {kLevels}))
    BY <1>1, <1>5, <2>2 DEF BestIs
  <2>4. QED
    BY <1>2, <1>3, <1>5, <2>3
<1>6. QED
  BY <1>4, <1>5

LEMMA WalkedIs ==
  ASSUME NEW b, NEW side \in Sides
  PROVE  /\ Walked(b, side) \in Int
         /\ (\A p \in HeldIn(b, side) : ~Better(side, p, b.best[side])) =>
              BestIs(side, HeldIn(b, side), Walked(b, side))
<1> DEFINE S == {p \in Slot : b.level[side][p].head # kNull /\ ~Better(side, p, b.best[side])}
<1>1. S \in SUBSET Slot
  OBVIOUS
<1>2. Walked(b, side) = IF side = "Buy" THEN Max(S \cup {-1}) ELSE Min(S \cup {kLevels})
  BY DEF Walked
<1> HIDE DEF S
<1>3. BestIs(side, S, Walked(b, side))
  BY <1>1, <1>2, BestExists
<1>4. Walked(b, side) \in Int
  BY <1>1, <1>3, BestExists
<1>5. (\A p \in HeldIn(b, side) : ~Better(side, p, b.best[side])) => S = HeldIn(b, side)
  BY DEF S, HeldIn
<1>6. QED
  BY <1>3, <1>4, <1>5

LEMMA BestSet ==
  ASSUME NEW b \in Books, NEW side \in Sides, NEW v \in Int, NEW c, c = [b EXCEPT !.best[side] = v]
  PROVE  /\ c \in Books /\ c.slab = b.slab /\ c.level = b.level /\ c.free_head = b.free_head
         /\ c.ids = b.ids /\ c.best[side] = v /\ \A d \in Sides : d # side => c.best[d] = b.best[d]
<1>1. PICK f, z : f = b.best /\ z = [f EXCEPT ![side] = v]
  OBVIOUS
<1>2. f \in [Sides -> Int]
  BY <1>1, BookIs
<1>3. z \in [Sides -> Int] /\ z[side] = v /\ \A d \in Sides : d # side => z[d] = f[d]
  BY <1>1, <1>2
<1>4. c = [b EXCEPT !.best = z]
  BY <1>1
<1>5. c = [slab |-> b.slab, level |-> b.level, best |-> z, free_head |-> b.free_head, ids |-> b.ids]
  BY <1>4, BookIs
<1>6. c \in Books
  BY <1>3, <1>5, BookIs DEF Books
<1>7. QED
  BY <1>1, <1>3, <1>5, <1>6

IdPut(b, id, v) == [b EXCEPT !.ids[id] = v]

LEMMA IdSet ==
  ASSUME NEW b \in Books, NEW id \in Id, NEW v \in Links, NEW c, c = IdPut(b, id, v)
  PROVE  /\ c \in Books /\ c.slab = b.slab /\ c.level = b.level /\ c.free_head = b.free_head
         /\ c.best = b.best /\ c.ids[id] = v /\ \A d \in Id : d # id => c.ids[d] = b.ids[d]
<1>1. PICK f, z : f = b.ids /\ z = [f EXCEPT ![id] = v]
  OBVIOUS
<1>2. f \in [Id -> Links]
  BY <1>1, BookIs
<1>3. z \in [Id -> Links] /\ z[id] = v /\ \A d \in Id : d # id => z[d] = f[d]
  BY <1>1, <1>2
<1>4. c = [b EXCEPT !.ids = z]
  BY <1>1 DEF IdPut
<1>5. c = [slab |-> b.slab, level |-> b.level, best |-> b.best, free_head |-> b.free_head, ids |-> z]
  BY <1>4, BookIs
<1>6. c \in Books
  BY <1>3, <1>5, BookIs DEF Books
<1>7. QED
  BY <1>1, <1>3, <1>5, <1>6

LEMMA FreedIs ==
  ASSUME NEW b \in Books, NEW h \in Handle, NEW c, c = Freed(b, h)
  PROVE  /\ c \in Books /\ c.level = b.level /\ c.best = b.best /\ c.ids = b.ids /\ c.free_head = h
         /\ c.slab[h].next = b.free_head /\ \A g \in Handle : g # h => c.slab[g] = b.slab[g]
<1>1. PICK r : r = [NoOrder EXCEPT !.next = b.free_head]
  OBVIOUS
<1>z. PICK z : z = SlabPut(b, h, r)
  OBVIOUS
<1>2. b.free_head \in Links
  BY BookIs
<1>3. r = [id |-> kNull, qty |-> 0, prev |-> kNull, next |-> b.free_head, slot |-> 0, side |-> "Buy"]
  BY <1>1 DEF NoOrder
<1>4. r \in OrderRecs /\ r.next = b.free_head
  BY <1>2, <1>3, Sizes DEF OrderRecs, Links, Sides
<1>5. /\ z \in Books /\ z.level = b.level /\ z.best = b.best /\ z.free_head = b.free_head
      /\ z.ids = b.ids /\ z.slab[h] = r /\ \A g \in Handle : g # h => z.slab[g] = b.slab[g]
  BY <1>z, <1>4, SlabSet
<1>6. c = [z EXCEPT !.free_head = h]
  BY <1>1, <1>z DEF Freed, SlabPut
<1>7. c = [slab |-> z.slab, level |-> z.level, best |-> z.best, free_head |-> h, ids |-> z.ids]
  BY <1>5, <1>6, BookIs
<1>8. c \in Books
  BY <1>5, <1>7, BookIs DEF Books, Links
<1>9. QED
  BY <1>4, <1>5, <1>7, <1>8

(* An order unlinked. *)
LEMMA RepairedIs ==
  ASSUME NEW b \in Books, NEW less \in Books, \A d \in Sides : BestIn(b, d), less.best = b.best,
         NEW side \in Sides, NEW slot \in Slot, b.level[side][slot].head # kNull,
         \A d \in Sides, p \in Slot : d # side \/ p # slot =>
           (less.level[d][p].head = kNull <=> b.level[d][p].head = kNull),
         NEW c, c = IF less.level[side][slot].head = kNull THEN RepairBest(less, side, slot) ELSE less
  PROVE  /\ c \in Books /\ c.slab = less.slab /\ c.level = less.level
         /\ c.free_head = less.free_head /\ c.ids = less.ids /\ \A d \in Sides : BestIn(c, d)
<1>1. \A d \in Sides : d # side => HeldIn(less, d) = HeldIn(b, d)
  BY DEF HeldIn
<1>2. ASSUME NEW d \in Sides, d # side PROVE BestIn(less, d)
  BY <1>1, <1>2 DEF BestIn
<1>3. CASE less.level[side][slot].head # kNull
  <2>1. HeldIn(less, side) = HeldIn(b, side)
    BY <1>3 DEF HeldIn
  <2>2. BestIn(less, side)
    BY <2>1 DEF BestIn
  <2>3. QED
    BY <1>2, <1>3, <2>2
<1>4. CASE less.level[side][slot].head = kNull
  <2>1. HeldIn(less, side) = HeldIn(b, side) \ {slot} /\ slot \in HeldIn(b, side)
    BY <1>4 DEF HeldIn
  <2>2. BestIs(side, HeldIn(b, side), b.best[side]) /\ HeldIn(b, side) \subseteq Slot
    BY DEF BestIn, HeldIn
  <2>3. CASE slot # b.best[side]
    <3>1. BestIs(side, HeldIn(less, side), b.best[side])
      BY <2>1, <2>2, <2>3 DEF BestIs
    <3>2. c = less
      BY <1>4, <2>3 DEF RepairBest
    <3>3. BestIn(less, side)
      BY <3>1 DEF BestIn
    <3>4. QED
      BY <1>2, <3>2, <3>3
  <2>4. CASE slot = b.best[side]
    <3>1. PICK v : v = Walked(less, side)
      OBVIOUS
    <3>2. c = [less EXCEPT !.best[side] = v]
      BY <1>4, <2>4, <3>1 DEF RepairBest
    <3>3. \A p \in HeldIn(less, side) : ~Better(side, p, less.best[side])
      <4>1. SUFFICES ASSUME NEW p \in HeldIn(less, side) PROVE ~Better(side, p, b.best[side])
        OBVIOUS
      <4>1a. p \in HeldIn(b, side) /\ p \in Slot
        BY <2>1, <2>2, <4>1
      <4>1b. slot \in Nat /\ p \in Nat
        BY <4>1a, Sizes
      <4>2. p \in HeldIn(b, side) /\ p \in Nat /\ b.best[side] \in Int
        BY <2>4, <4>1a, <4>1b
      <4>3. IF side = "Buy" THEN p <= b.best[side] ELSE b.best[side] <= p
        BY <2>2, <4>2 DEF BestIs
      <4>4. CASE side = "Buy"
        <5>1. p <= b.best[side]
          BY <4>3, <4>4
        <5>2. ~(p > b.best[side])
          BY <4>2, <5>1
        <5>3. QED
          BY <4>4, <5>2 DEF Better
      <4>5. CASE side # "Buy"
        <5>1. b.best[side] <= p
          BY <4>3, <4>5
        <5>2. ~(p < b.best[side])
          BY <4>2, <5>1
        <5>3. QED
          BY <4>5, <5>2 DEF Better
      <4>6. QED
        BY <4>4, <4>5
    <3>4. v \in Int /\ BestIs(side, HeldIn(less, side), v)
      BY <3>1, <3>3, WalkedIs
    <3>5. /\ c \in Books /\ c.slab = less.slab /\ c.level = less.level
          /\ c.free_head = less.free_head /\ c.ids = less.ids /\ c.best[side] = v
          /\ \A d \in Sides : d # side => c.best[d] = less.best[d]
      BY <3>2, <3>4, BestSet
    <3>6. \A d \in Sides : HeldIn(c, d) = HeldIn(less, d)
      BY <3>5 DEF HeldIn
    <3>7. BestIn(c, side)
      BY <3>4, <3>5, <3>6 DEF BestIn
    <3>8. ASSUME NEW d \in Sides, d # side PROVE BestIn(c, d)
      BY <1>2, <3>5, <3>6, <3>8 DEF BestIn
    <3>9. QED
      BY <3>5, <3>7, <3>8
  <2>5. QED
    BY <2>3, <2>4
<1>5. QED
  BY <1>3, <1>4

SameBody(q, r) == q.id = r.id /\ q.qty = r.qty /\ q.slot = r.slot /\ q.side = r.side

Cut(b, side, slot, prev, next, qty) ==
  LET cut == After(Before(b, side, slot, prev, next), side, slot, next, prev)
  IN [cut EXCEPT !.level[side][slot].qty = @ - qty]

LEMMA CutIs ==
  ASSUME NEW b \in Books, NEW side \in Sides, NEW slot \in Slot, NEW prev \in Links,
         NEW next \in Links, NEW qty \in Nat, NEW c, c = Cut(b, side, slot, prev, next, qty)
  PROVE  /\ c \in Books /\ SameRest(b, c)
         /\ \A g \in Handle :
              /\ SameBody(c.slab[g], b.slab[g])
              /\ c.slab[g].next = (IF g = prev THEN next ELSE b.slab[g].next)
              /\ c.slab[g].prev = (IF g = next THEN prev ELSE b.slab[g].prev)
         /\ \A d \in Sides, p \in Slot :
              /\ c.level[d][p].head = (IF prev = kNull /\ d = side /\ p = slot THEN next
                                       ELSE b.level[d][p].head)
              /\ c.level[d][p].tail = (IF next = kNull /\ d = side /\ p = slot THEN prev
                                       ELSE b.level[d][p].tail)
              /\ c.level[d][p].qty = (IF d = side /\ p = slot THEN b.level[d][p].qty - qty
                                      ELSE b.level[d][p].qty)
<1>1. PICK mid : mid = Before(b, side, slot, prev, next)
  OBVIOUS
<1>2. PICK cut : cut = After(mid, side, slot, next, prev)
  OBVIOUS
<1>3. PICK l : l = cut.level[side][slot]
  OBVIOUS
<1>4. PICK r : r = [l EXCEPT !.qty = l.qty - qty]
  OBVIOUS
<1>5. c = LevelPut(cut, side, slot, r)
  BY <1>1, <1>2, <1>3, <1>4 DEF Cut, LevelPut
<1>6. /\ mid \in Books /\ SameRest(b, mid) /\ SameBodies(b, mid)
      /\ \A g \in Handle : /\ mid.slab[g].next = (IF g = prev THEN next ELSE b.slab[g].next)
                           /\ mid.slab[g].prev = b.slab[g].prev
      /\ \A d \in Sides, p \in Slot :
           /\ mid.level[d][p].head = (IF prev = kNull /\ d = side /\ p = slot THEN next
                                      ELSE b.level[d][p].head)
           /\ mid.level[d][p].tail = b.level[d][p].tail /\ mid.level[d][p].qty = b.level[d][p].qty
  BY ONLY <1>1, BeforeIs, b \in Books, side \in Sides, slot \in Slot, prev \in Links, next \in Links
<1>7. /\ cut \in Books /\ SameRest(mid, cut) /\ SameBodies(mid, cut)
      /\ \A g \in Handle : /\ cut.slab[g].prev = (IF g = next THEN prev ELSE mid.slab[g].prev)
                           /\ cut.slab[g].next = mid.slab[g].next
      /\ \A d \in Sides, p \in Slot :
           /\ cut.level[d][p].tail = (IF next = kNull /\ d = side /\ p = slot THEN prev
                                      ELSE mid.level[d][p].tail)
           /\ cut.level[d][p].head = mid.level[d][p].head /\ cut.level[d][p].qty = mid.level[d][p].qty
  <2>1. mid \in Books
    BY <1>6
  <2>2. QED
    BY ONLY <1>2, <2>1, AfterIs, side \in Sides, slot \in Slot, prev \in Links, next \in Links
<1>8. l \in LevelRecs
  <2>1. cut \in Books
    BY <1>7
  <2>2. cut.level \in [Sides -> [Slot -> LevelRecs]]
    BY <2>1, BookIs
  <2>3. QED
    BY <1>3, <2>2
<1>9. /\ l.qty \in Int /\ l.head \in Links /\ l.tail \in Links
      /\ l = [qty |-> l.qty, head |-> l.head, tail |-> l.tail]
  BY <1>8, LevelIs
<1>10. r = [qty |-> l.qty - qty, head |-> l.head, tail |-> l.tail]
  BY <1>4, <1>9
<1>11. l.qty - qty \in Int
  BY <1>9
<1>12. r \in LevelRecs
  BY <1>9, <1>10, <1>11 DEF LevelRecs
<1>13. /\ c \in Books /\ c.slab = cut.slab /\ c.best = cut.best
       /\ c.free_head = cut.free_head /\ c.ids = cut.ids /\ c.level[side][slot] = r
       /\ \A d \in Sides, p \in Slot : d # side \/ p # slot => c.level[d][p] = cut.level[d][p]
  <2>1. cut \in Books
    BY <1>7
  <2>2. QED
    BY ONLY <1>5, <1>12, <2>1, LevelSet, side \in Sides, slot \in Slot
<1>14. SameRest(b, c)
  BY <1>6, <1>7, <1>13 DEF SameRest
<1>15. ASSUME NEW d \in Sides, NEW p \in Slot
       PROVE  /\ c.level[d][p].head = (IF prev = kNull /\ d = side /\ p = slot THEN next
                                       ELSE b.level[d][p].head)
              /\ c.level[d][p].tail = (IF next = kNull /\ d = side /\ p = slot THEN prev
                                       ELSE b.level[d][p].tail)
              /\ c.level[d][p].qty = (IF d = side /\ p = slot THEN b.level[d][p].qty - qty
                                      ELSE b.level[d][p].qty)
  <2>1. /\ cut.level[d][p].tail = (IF next = kNull /\ d = side /\ p = slot THEN prev
                                   ELSE b.level[d][p].tail)
        /\ cut.level[d][p].head = (IF prev = kNull /\ d = side /\ p = slot THEN next
                                      ELSE b.level[d][p].head)
        /\ cut.level[d][p].qty = b.level[d][p].qty
    BY <1>6, <1>7
  <2>2. CASE d = side /\ p = slot
    <3>1. c.level[d][p] = r /\ l = cut.level[d][p]
      BY <1>3, <1>13, <2>2
    <3>2. r.head = l.head /\ r.tail = l.tail /\ r.qty = l.qty - qty
      BY <1>10
    <3>3. QED
      BY <2>1, <2>2, <3>1, <3>2
  <2>3. CASE d # side \/ p # slot
    <3>1. c.level[d][p] = cut.level[d][p]
      BY <1>13, <2>3
    <3>2. QED
      BY <2>1, <2>3, <3>1
  <2>4. QED
    BY <2>2, <2>3
<1>16. ASSUME NEW g \in Handle
       PROVE  /\ SameBody(c.slab[g], b.slab[g])
              /\ c.slab[g].next = (IF g = prev THEN next ELSE b.slab[g].next)
              /\ c.slab[g].prev = (IF g = next THEN prev ELSE b.slab[g].prev)
  <2>1. c.slab[g] = cut.slab[g]
    BY <1>13
  <2>2. SameBody(c.slab[g], b.slab[g])
    BY <1>6, <1>7, <2>1 DEF SameBody, SameBodies
  <2>3. QED
    BY <1>6, <1>7, <2>1, <2>2
<1>17. QED
  BY <1>13, <1>14, <1>15, <1>16

LEMMA UnlinkedIs ==
  ASSUME NEW b \in Books, \A d \in Sides : BestIn(b, d), NEW h \in Handle,
         NEW side, NEW slot, NEW prev, NEW next, NEW qty,
         b.slab[h].side = side, b.slab[h].slot = slot, b.slab[h].prev = prev,
         b.slab[h].next = next, b.slab[h].qty = qty,
         b.level[side][slot].head # kNull, NEW c, c = Unlinked(b, h)
  PROVE  /\ c \in Books /\ c.ids = b.ids /\ c.free_head = h /\ c.slab[h].next = b.free_head
         /\ \A g \in Handle : g # h =>
              /\ SameBody(c.slab[g], b.slab[g])
              /\ c.slab[g].next = (IF g = prev THEN next ELSE b.slab[g].next)
              /\ c.slab[g].prev = (IF g = next THEN prev ELSE b.slab[g].prev)
         /\ \A d \in Sides, p \in Slot :
              /\ c.level[d][p].head = (IF prev = kNull /\ d = side /\ p = slot THEN next
                                       ELSE b.level[d][p].head)
              /\ c.level[d][p].tail = (IF next = kNull /\ d = side /\ p = slot THEN prev
                                       ELSE b.level[d][p].tail)
              /\ c.level[d][p].qty = (IF d = side /\ p = slot THEN b.level[d][p].qty - qty
                                      ELSE b.level[d][p].qty)
         /\ \A d \in Sides : BestIn(c, d)
<1>1. qty \in Nat /\ prev \in Links /\ next \in Links /\ slot \in Slot /\ side \in Sides
  <2>1. b.slab[h] \in OrderRecs
    BY BookIs
  <2>2. QED
    BY <2>1, OrderIs
<1>2. PICK less : less = Cut(b, side, slot, prev, next, qty)
  OBVIOUS
<1>3. PICK best : best = IF less.level[side][slot].head = kNull
                         THEN RepairBest(less, side, slot) ELSE less
  OBVIOUS
<1>4. c = Freed(best, h)
  BY <1>2, <1>3 DEF Unlinked, Cut
<1>5. /\ less \in Books /\ SameRest(b, less)
      /\ \A g \in Handle :
              /\ SameBody(less.slab[g], b.slab[g])
              /\ less.slab[g].next = (IF g = prev THEN next ELSE b.slab[g].next)
              /\ less.slab[g].prev = (IF g = next THEN prev ELSE b.slab[g].prev)
      /\ \A d \in Sides, p \in Slot :
              /\ less.level[d][p].head = (IF prev = kNull /\ d = side /\ p = slot THEN next
                                          ELSE b.level[d][p].head)
              /\ less.level[d][p].tail = (IF next = kNull /\ d = side /\ p = slot THEN prev
                                          ELSE b.level[d][p].tail)
              /\ less.level[d][p].qty = (IF d = side /\ p = slot THEN b.level[d][p].qty - qty
                                         ELSE b.level[d][p].qty)
  BY ONLY <1>1, <1>2, CutIs, b \in Books
<1>6. less.best = b.best /\ less.free_head = b.free_head /\ less.ids = b.ids
  BY <1>5 DEF SameRest
<1>7. \A d \in Sides, p \in Slot : d # side \/ p # slot =>
         (less.level[d][p].head = kNull <=> b.level[d][p].head = kNull)
  BY <1>5
<1>8. /\ best \in Books /\ best.slab = less.slab /\ best.level = less.level
      /\ best.free_head = less.free_head /\ best.ids = less.ids /\ \A d \in Sides : BestIn(best, d)
  <2>1. less \in Books
    BY <1>5
  <2>2. QED
    BY ONLY <1>1, <1>3, <1>6, <1>7, <2>1, RepairedIs, b \in Books, \A d \in Sides : BestIn(b, d),
            b.level[side][slot].head # kNull
<1>9. /\ c \in Books /\ c.level = best.level /\ c.best = best.best /\ c.ids = best.ids
      /\ c.free_head = h /\ c.slab[h].next = best.free_head
      /\ \A g \in Handle : g # h => c.slab[g] = best.slab[g]
  <2>1. best \in Books
    BY <1>8
  <2>2. QED
    BY ONLY <1>4, <2>1, FreedIs, h \in Handle
<1>10. c.ids = b.ids /\ c.slab[h].next = b.free_head /\ c.level = less.level
  BY <1>6, <1>8, <1>9
<1>11. \A g \in Handle : g # h => c.slab[g] = less.slab[g]
  BY <1>8, <1>9
<1>12. \A d \in Sides : BestIn(c, d)
  BY <1>8, <1>9 DEF BestIn, HeldIn
<1>13. \A g \in Handle : g # h =>
              /\ SameBody(c.slab[g], b.slab[g])
              /\ c.slab[g].next = (IF g = prev THEN next ELSE b.slab[g].next)
              /\ c.slab[g].prev = (IF g = next THEN prev ELSE b.slab[g].prev)
  BY <1>5, <1>11
<1>14. QED
  BY <1>5, <1>9, <1>10, <1>12, <1>13

LEMMA LessIs ==
  ASSUME NEW b \in Books, NEW h \in Handle, NEW side, NEW slot, NEW q, NEW qty \in 0 .. q,
         b.slab[h].side = side, b.slab[h].slot = slot, b.slab[h].qty = q, NEW c, c = Less(b, h, qty)
  PROVE  /\ c \in Books /\ SameRest(b, c) /\ c.slab[h].qty = q - qty
         /\ \A g \in Handle :
              /\ g # h => c.slab[g].qty = b.slab[g].qty
              /\ c.slab[g].id = b.slab[g].id /\ c.slab[g].slot = b.slab[g].slot
              /\ c.slab[g].side = b.slab[g].side
              /\ c.slab[g].next = b.slab[g].next /\ c.slab[g].prev = b.slab[g].prev
         /\ \A d \in Sides, p \in Slot :
              /\ c.level[d][p].head = b.level[d][p].head /\ c.level[d][p].tail = b.level[d][p].tail
              /\ c.level[d][p].qty = (IF d = side /\ p = slot THEN b.level[d][p].qty - qty
                                      ELSE b.level[d][p].qty)
<1>1. PICK o, l : o = b.slab[h] /\ l = b.level[side][slot]
  OBVIOUS
<1>2. o \in OrderRecs
  BY <1>1, BookIs
<1>3. /\ o.id \in Id \cup {kNull} /\ o.qty \in Nat /\ o.prev \in Links /\ o.next \in Links
      /\ o.slot \in Slot /\ o.side \in Sides
      /\ o = [id |-> o.id, qty |-> o.qty, prev |-> o.prev, next |-> o.next, slot |-> o.slot,
              side |-> o.side]
  BY <1>2, OrderIs
<1>4. o.side = side /\ o.slot = slot /\ o.qty = q /\ side \in Sides /\ slot \in Slot /\ q \in Nat
  BY <1>1, <1>3
<1>5. l \in LevelRecs
  BY <1>1, <1>4, BookIs
<1>6. /\ l.qty \in Int /\ l.head \in Links /\ l.tail \in Links
      /\ l = [qty |-> l.qty, head |-> l.head, tail |-> l.tail]
  BY <1>5, LevelIs
<1>7. PICK r, w : r = [l EXCEPT !.qty = l.qty - qty] /\ w = [o EXCEPT !.qty = o.qty - qty]
  OBVIOUS
<1>8. r = [qty |-> l.qty - qty, head |-> l.head, tail |-> l.tail]
  BY <1>6, <1>7
<1>9. w = [id |-> o.id, qty |-> o.qty - qty, prev |-> o.prev, next |-> o.next, slot |-> o.slot,
           side |-> o.side]
  BY <1>3, <1>7
<1>10. l.qty - qty \in Int /\ o.qty - qty \in Nat
  <2>1. qty \in Int /\ qty <= o.qty
    BY <1>4
  <2>2. QED
    BY <1>3, <1>6, <2>1
<1>11. r \in LevelRecs
  BY <1>6, <1>8, <1>10 DEF LevelRecs
<1>12. w \in OrderRecs
  BY <1>3, <1>9, <1>10 DEF OrderRecs
<1>13. PICK mid : mid = LevelPut(b, side, slot, r)
  OBVIOUS
<1>14. c = SlabPut(mid, h, w)
  <2>1. c = [b EXCEPT !.level[side][slot].qty = @ - qty, !.slab[h].qty = @ - qty]
    BY <1>1, <1>4 DEF Less
  <2>2. QED
    BY <1>1, <1>7, <1>13, <2>1 DEF LevelPut, SlabPut
<1>15. /\ mid \in Books /\ mid.slab = b.slab /\ mid.best = b.best /\ mid.free_head = b.free_head
       /\ mid.ids = b.ids /\ mid.level[side][slot] = r
       /\ \A d \in Sides, p \in Slot : d # side \/ p # slot => mid.level[d][p] = b.level[d][p]
  BY ONLY <1>4, <1>11, <1>13, LevelSet, b \in Books
<1>16. /\ c \in Books /\ c.level = mid.level /\ c.best = mid.best /\ c.free_head = mid.free_head
       /\ c.ids = mid.ids /\ c.slab[h] = w /\ \A g \in Handle : g # h => c.slab[g] = mid.slab[g]
  <2>1. mid \in Books
    BY <1>15
  <2>2. QED
    BY ONLY <1>12, <1>14, <2>1, SlabSet, h \in Handle
<1>17. SameRest(b, c)
  BY <1>15, <1>16 DEF SameRest
<1>18. w.qty = q - qty
  BY <1>4, <1>9
<1>19. ASSUME NEW g \in Handle
       PROVE  /\ g # h => c.slab[g].qty = b.slab[g].qty
              /\ c.slab[g].id = b.slab[g].id /\ c.slab[g].slot = b.slab[g].slot
              /\ c.slab[g].side = b.slab[g].side
              /\ c.slab[g].next = b.slab[g].next /\ c.slab[g].prev = b.slab[g].prev
  <2>1. CASE g = h
    BY <1>1, <1>9, <1>16, <2>1
  <2>2. CASE g # h
    BY <1>15, <1>16, <2>2
  <2>3. QED
    BY <2>1, <2>2
<1>20. ASSUME NEW d \in Sides, NEW p \in Slot
       PROVE  /\ c.level[d][p].head = b.level[d][p].head /\ c.level[d][p].tail = b.level[d][p].tail
              /\ c.level[d][p].qty = (IF d = side /\ p = slot THEN b.level[d][p].qty - qty
                                      ELSE b.level[d][p].qty)
  <2>1. CASE d = side /\ p = slot
    <3>1. c.level[d][p] = r /\ l = b.level[d][p]
      BY <1>1, <1>15, <1>16, <2>1
    <3>2. r.head = l.head /\ r.tail = l.tail /\ r.qty = l.qty - qty
      BY <1>8
    <3>3. QED
      BY <2>1, <3>1, <3>2
  <2>2. CASE d # side \/ p # slot
    BY <1>15, <1>16, <2>2
  <2>3. QED
    BY <2>1, <2>2
<1>21. QED
  BY <1>16, <1>17, <1>18, <1>19, <1>20

(* An order linked in behind the newest at its price. *)
Taken(b, h, r, v) == [b EXCEPT !.free_head = v, !.slab[h] = r]

LEMMA TakenIs ==
  ASSUME NEW b \in Books, NEW h \in Handle, NEW r \in OrderRecs, NEW v \in Links,
         NEW c, c = Taken(b, h, r, v)
  PROVE  /\ c \in Books /\ c.level = b.level /\ c.best = b.best /\ c.free_head = v
         /\ c.ids = b.ids /\ c.slab[h] = r /\ \A g \in Handle : g # h => c.slab[g] = b.slab[g]
<1>1. PICK z : z = SlabPut(b, h, r)
  OBVIOUS
<1>2. /\ z \in Books /\ z.level = b.level /\ z.best = b.best /\ z.free_head = b.free_head
      /\ z.ids = b.ids /\ z.slab[h] = r /\ \A g \in Handle : g # h => z.slab[g] = b.slab[g]
  BY <1>1, SlabSet
<1>3. c = [z EXCEPT !.free_head = v]
  BY <1>1 DEF Taken, SlabPut
<1>4. c = [slab |-> z.slab, level |-> z.level, best |-> z.best, free_head |-> v, ids |-> z.ids]
  BY <1>2, <1>3, BookIs
<1>5. c \in Books
  BY <1>2, <1>4, BookIs DEF Books
<1>6. QED
  BY <1>2, <1>4, <1>5

Bettered(b, side, slot, old) ==
  IF Better(side, slot, old) THEN [b EXCEPT !.best[side] = slot] ELSE b

LEMMA BetteredIs ==
  ASSUME NEW b \in Books, NEW q \in Books, \A d \in Sides : BestIn(b, d), q.best = b.best,
         NEW side \in Sides, NEW slot \in Slot, q.level[side][slot].head # kNull,
         \A d \in Sides, p \in Slot : d # side \/ p # slot =>
           (q.level[d][p].head = kNull <=> b.level[d][p].head = kNull),
         NEW c, c = Bettered(q, side, slot, b.best[side])
  PROVE  /\ c \in Books /\ c.slab = q.slab /\ c.level = q.level
         /\ c.free_head = q.free_head /\ c.ids = q.ids /\ \A d \in Sides : BestIn(c, d)
<1>1. \A d \in Sides : d # side => HeldIn(q, d) = HeldIn(b, d)
  BY DEF HeldIn
<1>2. HeldIn(q, side) = HeldIn(b, side) \cup {slot}
  BY DEF HeldIn
<1>3. PICK S, v : S = HeldIn(b, side) /\ v = b.best[side]
  OBVIOUS
<1>4. BestIs(side, S, v) /\ S \subseteq Slot /\ v \in Int /\ slot \in Nat /\ S \subseteq Nat
  <2>1. S \subseteq Slot
    BY <1>3 DEF HeldIn
  <2>2. slot \in Nat /\ S \subseteq Nat
    BY <2>1, Sizes
  <2>3. v \in Int
    BY <1>3, BookIs
  <2>4. QED
    BY <1>3, <2>1, <2>2, <2>3 DEF BestIn
<1>5. ASSUME NEW d \in Sides, d # side PROVE BestIs(d, HeldIn(q, d), q.best[d])
  BY <1>1, <1>5 DEF BestIn
<1>6. CASE Better(side, slot, v)
  <2>1. c = [q EXCEPT !.best[side] = slot]
    BY <1>3, <1>6 DEF Bettered
  <2>2. slot \in Int
    BY <1>4
  <2>3. /\ c \in Books /\ c.slab = q.slab /\ c.level = q.level /\ c.free_head = q.free_head
        /\ c.ids = q.ids /\ c.best[side] = slot /\ \A d \in Sides : d # side => c.best[d] = q.best[d]
    BY ONLY <2>1, <2>2, BestSet, q \in Books, side \in Sides
  <2>4. BestIs(side, S \cup {slot}, slot)
    <3>1. CASE side = "Buy"
      <4>1. slot > v /\ \A p \in S : p <= v
        BY <1>4, <1>6, <3>1 DEF Better, BestIs
      <4>2. \A p \in S \cup {slot} : p <= slot
        <5>1. slot \in Int /\ v \in Int /\ \A p \in S : p \in Int
          BY <1>4
        <5>2. QED
          BY ONLY <4>1, <5>1
      <4>3. QED
        BY <3>1, <4>2 DEF BestIs
    <3>2. CASE side # "Buy"
      <4>1. slot < v /\ \A p \in S : v <= p
        BY <1>4, <1>6, <3>2 DEF Better, BestIs
      <4>2. \A p \in S \cup {slot} : slot <= p
        <5>1. slot \in Int /\ v \in Int /\ \A p \in S : p \in Int
          BY <1>4
        <5>2. QED
          BY ONLY <4>1, <5>1
      <4>3. QED
        BY <3>2, <4>2 DEF BestIs
    <3>3. QED
      BY <3>1, <3>2
  <2>5. \A d \in Sides : HeldIn(c, d) = HeldIn(q, d)
    BY <2>3 DEF HeldIn
  <2>6. BestIn(c, side)
    BY <1>2, <1>3, <2>3, <2>4, <2>5 DEF BestIn
  <2>7. ASSUME NEW d \in Sides, d # side PROVE BestIn(c, d)
    BY <1>5, <2>3, <2>5, <2>7 DEF BestIn
  <2>8. QED
    BY <2>3, <2>6, <2>7
<1>7. CASE ~Better(side, slot, v)
  <2>1. c = q
    BY <1>3, <1>7 DEF Bettered
  <2>2. BestIs(side, S \cup {slot}, v)
    <3>1. CASE side = "Buy"
      <4>1. ~(slot > v) /\ (\A p \in S : p <= v) /\ v \in S \cup {-1}
        BY <1>4, <1>7, <3>1 DEF Better, BestIs
      <4>2. \A p \in S \cup {slot} : p <= v
        BY <1>4, <4>1
      <4>3. QED
        BY <3>1, <4>1, <4>2 DEF BestIs
    <3>2. CASE side # "Buy"
      <4>1. ~(slot < v) /\ (\A p \in S : v <= p) /\ v \in S \cup {kLevels}
        BY <1>4, <1>7, <3>2 DEF Better, BestIs
      <4>2. \A p \in S \cup {slot} : v <= p
        BY <1>4, <4>1
      <4>3. QED
        BY <3>2, <4>1, <4>2 DEF BestIs
    <3>3. QED
      BY <3>1, <3>2
  <2>3. BestIn(q, side)
    BY <1>2, <1>3, <2>2 DEF BestIn
  <2>4. QED
    BY <1>5, <2>1, <2>3 DEF BestIn
<1>8. QED
  BY <1>6, <1>7

Queued(b, side, slot, h, qty) ==
  [b EXCEPT !.level[side][slot].tail = h, !.level[side][slot].qty = @ + qty]
LinkedIn(b, id, side, slot, qty, h, tail) ==
  LET r == [id |-> id, qty |-> qty, prev |-> tail, next |-> kNull, slot |-> slot, side |-> side]
      drawn == Taken(b, h, r, b.slab[h].next)
      queued == Queued(Before(drawn, side, slot, tail, h), side, slot, h, qty)
  IN IdPut(Bettered(queued, side, slot, b.best[side]), id, h)

LEMMA AddedSteps ==
  ASSUME NEW b, NEW id, NEW side, NEW slot, NEW qty
  PROVE  Added(b, id, side, slot, qty)
           = LinkedIn(b, id, side, slot, qty, b.free_head, b.level[side][slot].tail)
BY DEF Added, LinkedIn, IdPut, Bettered, Queued, Taken

LEMMA AddedIs ==
  ASSUME NEW b \in Books, \A d \in Sides : BestIn(b, d),
         NEW id \in Id, NEW side \in Sides, NEW slot \in Slot, NEW qty \in Nat,
         NEW h \in Handle, b.free_head = h, NEW tail, b.level[side][slot].tail = tail, tail # h,
         tail = kNull <=> b.level[side][slot].head = kNull, NEW c, c = Added(b, id, side, slot, qty)
  PROVE  /\ c \in Books /\ c.free_head = b.slab[h].next
         /\ c.ids[id] = h /\ \A d \in Id : d # id => c.ids[d] = b.ids[d]
         /\ c.slab[h] = [id |-> id, qty |-> qty, prev |-> tail, next |-> kNull, slot |-> slot,
                         side |-> side]
         /\ \A g \in Handle : g # h =>
              /\ SameBody(c.slab[g], b.slab[g])
              /\ c.slab[g].next = (IF g = tail THEN h ELSE b.slab[g].next)
              /\ c.slab[g].prev = b.slab[g].prev
         /\ \A d \in Sides, p \in Slot :
              /\ c.level[d][p].head = (IF tail = kNull /\ d = side /\ p = slot THEN h
                                       ELSE b.level[d][p].head)
              /\ c.level[d][p].tail = (IF d = side /\ p = slot THEN h ELSE b.level[d][p].tail)
              /\ c.level[d][p].qty = (IF d = side /\ p = slot THEN b.level[d][p].qty + qty
                                      ELSE b.level[d][p].qty)
         /\ \A d \in Sides : BestIn(c, d)
<1>1. PICK v, r : v = b.slab[h].next /\ r = [id |-> id, qty |-> qty, prev |-> tail, next |-> kNull,
                                             slot |-> slot, side |-> side]
  OBVIOUS
<1>2. v \in Links
  <2>1. b.slab[h] \in OrderRecs
    BY BookIs
  <2>2. QED
    BY <1>1, <2>1, OrderIs
<1>3. tail \in Links /\ h \in Links /\ kNull \in Links
  <2>1. b.level[side][slot] \in LevelRecs
    BY BookIs
  <2>2. tail \in Links
    BY <2>1, LevelIs
  <2>3. QED
    BY <2>2 DEF Links
<1>4. r \in OrderRecs
  BY <1>1, <1>3 DEF OrderRecs
<1>5. PICK drawn : drawn = Taken(b, h, r, v)
  OBVIOUS
<1>6. PICK linked : linked = Before(drawn, side, slot, tail, h)
  OBVIOUS
<1>7. PICK l : l = linked.level[side][slot]
  OBVIOUS
<1>8. PICK w : w = [l EXCEPT !.tail = h, !.qty = l.qty + qty]
  OBVIOUS
<1>9. PICK queued : queued = LevelPut(linked, side, slot, w)
  OBVIOUS
<1>10. PICK best : best = Bettered(queued, side, slot, b.best[side])
  OBVIOUS
<1>11. /\ drawn \in Books /\ drawn.level = b.level /\ drawn.best = b.best /\ drawn.free_head = v
       /\ drawn.ids = b.ids /\ drawn.slab[h] = r
       /\ \A g \in Handle : g # h => drawn.slab[g] = b.slab[g]
  BY ONLY <1>2, <1>4, <1>5, TakenIs, b \in Books, h \in Handle
<1>12. /\ linked \in Books /\ SameRest(drawn, linked) /\ SameBodies(drawn, linked)
       /\ \A g \in Handle : /\ linked.slab[g].next = (IF g = tail THEN h ELSE drawn.slab[g].next)
                            /\ linked.slab[g].prev = drawn.slab[g].prev
       /\ \A d \in Sides, p \in Slot :
           /\ linked.level[d][p].head = (IF tail = kNull /\ d = side /\ p = slot THEN h
                                         ELSE drawn.level[d][p].head)
           /\ linked.level[d][p].tail = drawn.level[d][p].tail
           /\ linked.level[d][p].qty = drawn.level[d][p].qty
  <2>1. drawn \in Books
    BY <1>11
  <2>2. tail \in Links
    BY <1>3
  <2>3. h \in Links
    BY <1>3
  <2>4. QED
    BY ONLY <2>1, <2>2, <2>3, <1>6, BeforeIs, side \in Sides, slot \in Slot
<1>13. l \in LevelRecs
  <2>1. linked \in Books
    BY <1>12
  <2>2. linked.level \in [Sides -> [Slot -> LevelRecs]]
    BY <2>1, BookIs
  <2>3. QED
    BY <1>7, <2>2
<1>14. /\ l.qty \in Int /\ l.head \in Links /\ l.tail \in Links
       /\ l = [qty |-> l.qty, head |-> l.head, tail |-> l.tail]
  BY <1>13, LevelIs
<1>15. w = [qty |-> l.qty + qty, head |-> l.head, tail |-> h]
  BY <1>8, <1>14
<1>16. l.qty + qty \in Int
  BY <1>14
<1>17. w \in LevelRecs
  BY <1>3, <1>14, <1>15, <1>16 DEF LevelRecs
<1>18. /\ queued \in Books /\ queued.slab = linked.slab /\ queued.best = linked.best
       /\ queued.free_head = linked.free_head /\ queued.ids = linked.ids
       /\ queued.level[side][slot] = w
       /\ \A d \in Sides, p \in Slot :
            d # side \/ p # slot => queued.level[d][p] = linked.level[d][p]
  <2>1. linked \in Books
    BY <1>12
  <2>2. QED
    BY ONLY <1>9, <1>17, <2>1, LevelSet, side \in Sides, slot \in Slot
<1>19. queued.best = b.best /\ queued.free_head = v /\ queued.ids = b.ids
  BY <1>11, <1>12, <1>18 DEF SameRest
<1>20. ASSUME NEW d \in Sides, NEW p \in Slot
       PROVE  /\ queued.level[d][p].head = (IF tail = kNull /\ d = side /\ p = slot THEN h
                                            ELSE b.level[d][p].head)
              /\ queued.level[d][p].tail = (IF d = side /\ p = slot THEN h ELSE b.level[d][p].tail)
              /\ queued.level[d][p].qty = (IF d = side /\ p = slot THEN b.level[d][p].qty + qty
                                           ELSE b.level[d][p].qty)
  <2>1. /\ linked.level[d][p].head = (IF tail = kNull /\ d = side /\ p = slot THEN h
                                      ELSE b.level[d][p].head)
        /\ linked.level[d][p].tail = b.level[d][p].tail
        /\ linked.level[d][p].qty = b.level[d][p].qty
    BY <1>11, <1>12
  <2>2. CASE d = side /\ p = slot
    <3>1. queued.level[d][p] = w /\ l = linked.level[d][p]
      BY <1>7, <1>18, <2>2
    <3>2. w.head = l.head /\ w.tail = h /\ w.qty = l.qty + qty
      BY <1>15
    <3>3. QED
      BY <2>1, <2>2, <3>1, <3>2
  <2>3. CASE d # side \/ p # slot
    <3>1. queued.level[d][p] = linked.level[d][p]
      BY <1>18, <2>3
    <3>2. QED
      BY <2>1, <2>3, <3>1
  <2>4. QED
    BY <2>2, <2>3
<1>21. queued.level[side][slot].head # kNull
  <2>1. h # kNull
    BY Sizes
  <2>2. QED
    BY <1>20, <2>1
<1>22. \A d \in Sides, p \in Slot : d # side \/ p # slot =>
         (queued.level[d][p].head = kNull <=> b.level[d][p].head = kNull)
  BY <1>20
<1>23. /\ best \in Books /\ best.slab = queued.slab /\ best.level = queued.level
       /\ best.free_head = queued.free_head /\ best.ids = queued.ids
       /\ \A d \in Sides : BestIn(best, d)
  <2>1. queued \in Books /\ queued.best = b.best
    BY <1>18, <1>19
  <2>2. QED
    BY ONLY <1>10, <1>21, <1>22, <2>1, BetteredIs, b \in Books, \A d \in Sides : BestIn(b, d),
            side \in Sides, slot \in Slot
<1>24. c = IdPut(best, id, h)
  <2>1. queued = Queued(linked, side, slot, h, qty)
    BY <1>7, <1>8, <1>9 DEF LevelPut, Queued
  <2>2. c = LinkedIn(b, id, side, slot, qty, h, tail)
    BY AddedSteps
  <2>3. QED
    BY <1>1, <1>5, <1>6, <1>10, <2>1, <2>2 DEF LinkedIn
<1>25. /\ c \in Books /\ c.slab = best.slab /\ c.level = best.level /\ c.free_head = best.free_head
       /\ c.best = best.best /\ c.ids[id] = h /\ \A d \in Id : d # id => c.ids[d] = best.ids[d]
  <2>1. best \in Books
    BY <1>23
  <2>2. h \in Links
    BY <1>3
  <2>3. QED
    BY ONLY <2>2, <1>24, <2>1, IdSet, id \in Id
<1>26. \A d \in Sides : BestIn(c, d)
  BY <1>23, <1>25 DEF BestIn, HeldIn
<1>27. c.slab = linked.slab /\ c.level = queued.level /\ c.free_head = v
  BY <1>18, <1>19, <1>23, <1>25
<1>28. c.slab[h] = r
  <2>1. c.slab[h] \in OrderRecs
    BY <1>25, BookIs
  <2>2. PICK z : z = c.slab[h]
    OBVIOUS
  <2>3. z = [id |-> z.id, qty |-> z.qty, prev |-> z.prev, next |-> z.next, slot |-> z.slot,
             side |-> z.side]
    BY <2>1, <2>2, OrderIs
  <2>4. z.id = r.id /\ z.qty = r.qty /\ z.slot = r.slot /\ z.side = r.side
    BY <1>11, <1>12, <1>27, <2>2 DEF SameBodies
  <2>5. z.next = r.next /\ z.prev = r.prev
    BY <1>11, <1>12, <1>27, <2>2
  <2>6. QED
    BY <1>1, <2>2, <2>3, <2>4, <2>5
<1>29. ASSUME NEW g \in Handle, g # h
       PROVE  /\ SameBody(c.slab[g], b.slab[g])
              /\ c.slab[g].next = (IF g = tail THEN h ELSE b.slab[g].next)
              /\ c.slab[g].prev = b.slab[g].prev
  <2>1. SameBody(c.slab[g], b.slab[g])
    BY <1>11, <1>12, <1>27, <1>29 DEF SameBody, SameBodies
  <2>2. QED
    BY <1>11, <1>12, <1>27, <1>29, <2>1
<1>30. \A d \in Id : d # id => c.ids[d] = b.ids[d]
  BY <1>19, <1>23, <1>25
<1>31. QED
  BY <1>1, <1>20, <1>25, <1>26, <1>27, <1>28, <1>29, <1>30

(* Who follows whom, in the order of the stamps. *)
NextIn(L, st, a, v) ==
  IF v = kNull THEN \A g \in L : st[g] <= st[a]
  ELSE v \in L /\ st[a] < st[v] /\ \A g \in L : st[g] <= st[a] \/ st[v] <= st[g]
PrevIn(L, st, a, v) ==
  IF v = kNull THEN \A g \in L : st[a] <= st[g]
  ELSE v \in L /\ st[v] < st[a] /\ \A g \in L : st[g] <= st[v] \/ st[a] <= st[g]
FirstIn(L, st, v) == IF v = kNull THEN L = {} ELSE v \in L /\ \A g \in L : st[v] <= st[g]
LastIn(L, st, v) == IF v = kNull THEN L = {} ELSE v \in L /\ \A g \in L : st[g] <= st[v]

Chain(slab, L, st, head, tail) ==
  /\ FirstIn(L, st, head) /\ LastIn(L, st, tail)
  /\ \A h \in L : NextIn(L, st, h, slab[h].next) /\ PrevIn(L, st, h, slab[h].prev)

Stamped(L, st) ==
  /\ L \subseteq Handle /\ \A h \in L : st[h] \in Int
  /\ \A g, h \in L : st[g] = st[h] => g = h

LEMMA ChainCut ==
  ASSUME NEW L, NEW st, Stamped(L, st), NEW slab, NEW head, NEW tail, Chain(slab, L, st, head, tail),
         NEW h \in L, NEW prev, NEW next, slab[h].prev = prev, slab[h].next = next,
         NEW cut, \A g \in L \ {h} :
           /\ cut[g].next = (IF g = prev THEN next ELSE slab[g].next)
           /\ cut[g].prev = (IF g = next THEN prev ELSE slab[g].prev)
  PROVE  /\ Chain(cut, L \ {h}, st, IF prev = kNull THEN next ELSE head,
                  IF next = kNull THEN prev ELSE tail)
         /\ prev \in L \cup {kNull} /\ next \in L \cup {kNull} /\ head # kNull
<1>1. /\ \A g \in L : st[g] \in Int /\ \A f \in L : st[g] = st[f] => g = f
      /\ \A g \in L : NextIn(L, st, g, slab[g].next) /\ PrevIn(L, st, g, slab[g].prev)
      /\ FirstIn(L, st, head) /\ LastIn(L, st, tail) /\ kNull \notin L
  BY Sizes DEF Stamped, Chain
<1>2. NextIn(L, st, h, next) /\ PrevIn(L, st, h, prev)
  BY <1>1
<1>3. prev \in L \cup {kNull} /\ next \in L \cup {kNull} /\ head # kNull
  BY <1>1, <1>2 DEF NextIn, PrevIn, FirstIn
<1>4. prev # h /\ next # h
  BY <1>1, <1>2 DEF NextIn, PrevIn
<1>5. ASSUME NEW g \in L \ {h} PROVE NextIn(L \ {h}, st, g, cut[g].next)
  <2>1. PICK n : n = slab[g].next
    OBVIOUS
  <2>2. g \in L /\ g # h /\ NextIn(L, st, g, n)
    BY <1>1, <2>1
  <2>3. st[g] \in Int /\ st[h] \in Int /\ st[g] # st[h] /\ \A f \in L : st[f] \in Int
    BY <1>1, <2>2
  <2>4. CASE g = prev
    <3>1. st[g] < st[h] /\ \A f \in L : st[f] <= st[g] \/ st[h] <= st[f]
      BY <1>1, <1>2, <2>2, <2>4 DEF PrevIn
    <3>2. cut[g].next = next
      BY <2>4
    <3>3. CASE next = kNull
      <4>1. \A f \in L : st[f] <= st[h]
        BY <1>2, <3>3 DEF NextIn
      <4>2. \A f \in L \ {h} : st[f] <= st[g]
        <5>1. SUFFICES ASSUME NEW f \in L, f # h PROVE st[f] <= st[g]
          OBVIOUS
        <5>2. st[f] <= st[h] /\ st[f] # st[h] /\ (st[f] <= st[g] \/ st[h] <= st[f]) /\ st[f] \in Int
          BY <1>1, <3>1, <4>1, <5>1
        <5>3. QED
          BY <2>3, <5>2
      <4>3. QED
        BY <3>2, <3>3, <4>2 DEF NextIn
    <3>4. CASE next # kNull
      <4>1. next \in L /\ st[h] < st[next] /\ \A f \in L : st[f] <= st[h] \/ st[next] <= st[f]
        BY <1>2, <3>4 DEF NextIn
      <4>2. st[next] \in Int /\ st[g] < st[next]
        BY <2>3, <3>1, <4>1
      <4>3. \A f \in L \ {h} : st[f] <= st[g] \/ st[next] <= st[f]
        <5>1. SUFFICES ASSUME NEW f \in L, f # h PROVE st[f] <= st[g] \/ st[next] <= st[f]
          OBVIOUS
        <5>2. /\ st[f] <= st[h] \/ st[next] <= st[f]
              /\ st[f] # st[h] /\ (st[f] <= st[g] \/ st[h] <= st[f]) /\ st[f] \in Int
          BY <1>1, <3>1, <4>1, <5>1
        <5>3. QED
          BY <2>3, <4>2, <5>2
      <4>4. next \in L \ {h}
        BY <1>4, <4>1
      <4>5. QED
        BY <3>2, <3>4, <4>2, <4>3, <4>4 DEF NextIn
    <3>5. QED
      BY <3>3, <3>4
  <2>5. CASE g # prev
    <3>1. cut[g].next = n
      BY <2>1, <2>5
    <3>2. n # h
      <4>1. SUFFICES ASSUME n = h PROVE FALSE
        OBVIOUS
      <4>2. n # kNull
        BY <1>1, <4>1
      <4>3. st[g] < st[h] /\ \A f \in L : st[f] <= st[g] \/ st[h] <= st[f]
        BY <2>2, <4>1, <4>2 DEF NextIn
      <4>4. prev # kNull
        <5>1. SUFFICES ASSUME prev = kNull PROVE FALSE
          OBVIOUS
        <5>2. st[h] <= st[g]
          BY <1>2, <2>2, <5>1 DEF PrevIn
        <5>3. QED
          BY <2>3, <4>3, <5>2
      <4>5. prev \in L /\ st[prev] < st[h] /\ (st[g] <= st[prev] \/ st[h] <= st[g])
        BY <1>2, <2>2, <4>4 DEF PrevIn
      <4>6. st[prev] <= st[g] \/ st[h] <= st[prev]
        BY <4>3, <4>5
      <4>7. st[prev] = st[g]
        BY <2>3, <4>3, <4>5, <4>6
      <4>8. QED
        BY <1>1, <2>2, <2>5, <4>5, <4>7
    <3>3. NextIn(L \ {h}, st, g, n)
      BY <2>2, <3>2 DEF NextIn
    <3>4. QED
      BY <3>1, <3>3
  <2>6. QED
    BY <2>4, <2>5
<1>6. ASSUME NEW g \in L \ {h} PROVE PrevIn(L \ {h}, st, g, cut[g].prev)
  <2>1. PICK n : n = slab[g].prev
    OBVIOUS
  <2>2. g \in L /\ g # h /\ PrevIn(L, st, g, n)
    BY <1>1, <2>1
  <2>3. st[g] \in Int /\ st[h] \in Int /\ st[g] # st[h] /\ \A f \in L : st[f] \in Int
    BY <1>1, <2>2
  <2>4. CASE g = next
    <3>1. st[h] < st[g] /\ \A f \in L : st[f] <= st[h] \/ st[g] <= st[f]
      BY <1>1, <1>2, <2>2, <2>4 DEF NextIn
    <3>2. cut[g].prev = prev
      BY <2>4
    <3>3. CASE prev = kNull
      <4>1. \A f \in L : st[h] <= st[f]
        BY <1>2, <3>3 DEF PrevIn
      <4>2. \A f \in L \ {h} : st[g] <= st[f]
        <5>1. SUFFICES ASSUME NEW f \in L, f # h PROVE st[g] <= st[f]
          OBVIOUS
        <5>2. st[h] <= st[f] /\ st[f] # st[h] /\ (st[f] <= st[h] \/ st[g] <= st[f]) /\ st[f] \in Int
          BY <1>1, <3>1, <4>1, <5>1
        <5>3. QED
          BY <2>3, <5>2
      <4>3. QED
        BY <3>2, <3>3, <4>2 DEF PrevIn
    <3>4. CASE prev # kNull
      <4>1. prev \in L /\ st[prev] < st[h] /\ \A f \in L : st[f] <= st[prev] \/ st[h] <= st[f]
        BY <1>2, <3>4 DEF PrevIn
      <4>2. st[prev] \in Int /\ st[prev] < st[g]
        BY <2>3, <3>1, <4>1
      <4>3. \A f \in L \ {h} : st[f] <= st[prev] \/ st[g] <= st[f]
        <5>1. SUFFICES ASSUME NEW f \in L, f # h PROVE st[f] <= st[prev] \/ st[g] <= st[f]
          OBVIOUS
        <5>2. /\ st[f] <= st[prev] \/ st[h] <= st[f]
              /\ st[f] # st[h] /\ (st[f] <= st[h] \/ st[g] <= st[f]) /\ st[f] \in Int
          BY <1>1, <3>1, <4>1, <5>1
        <5>3. QED
          BY <2>3, <4>2, <5>2
      <4>4. prev \in L \ {h}
        BY <1>4, <4>1
      <4>5. QED
        BY <3>2, <3>4, <4>2, <4>3, <4>4 DEF PrevIn
    <3>5. QED
      BY <3>3, <3>4
  <2>5. CASE g # next
    <3>1. cut[g].prev = n
      BY <2>1, <2>5
    <3>2. n # h
      <4>1. SUFFICES ASSUME n = h PROVE FALSE
        OBVIOUS
      <4>2. n # kNull
        BY <1>1, <4>1
      <4>3. st[h] < st[g] /\ \A f \in L : st[f] <= st[h] \/ st[g] <= st[f]
        BY <2>2, <4>1, <4>2 DEF PrevIn
      <4>4. next # kNull
        <5>1. SUFFICES ASSUME next = kNull PROVE FALSE
          OBVIOUS
        <5>2. st[g] <= st[h]
          BY <1>2, <2>2, <5>1 DEF NextIn
        <5>3. QED
          BY <2>3, <4>3, <5>2
      <4>5. next \in L /\ st[h] < st[next] /\ (st[g] <= st[h] \/ st[next] <= st[g])
        BY <1>2, <2>2, <4>4 DEF NextIn
      <4>6. st[next] <= st[h] \/ st[g] <= st[next]
        BY <4>3, <4>5
      <4>7. st[next] = st[g]
        BY <2>3, <4>3, <4>5, <4>6
      <4>8. QED
        BY <1>1, <2>2, <2>5, <4>5, <4>7
    <3>3. PrevIn(L \ {h}, st, g, n)
      BY <2>2, <3>2 DEF PrevIn
    <3>4. QED
      BY <3>1, <3>3
  <2>6. QED
    BY <2>4, <2>5
<1>7. FirstIn(L \ {h}, st, IF prev = kNull THEN next ELSE head)
  <2>1. head \in L /\ \A f \in L : st[head] <= st[f]
    BY <1>1, <1>3 DEF FirstIn
  <2>2. CASE prev # kNull
    <3>1. prev \in L /\ st[prev] < st[h]
      BY <1>2, <2>2 DEF PrevIn
    <3>2. st[head] <= st[prev]
      BY <2>1, <3>1
    <3>3. head # h
      BY <1>1, <3>1, <3>2
    <3>4. QED
      BY <1>3, <2>1, <2>2, <3>3 DEF FirstIn
  <2>3. CASE prev = kNull
    <3>1. \A f \in L : st[h] <= st[f]
      BY <1>2, <2>3 DEF PrevIn
    <3>2. CASE next = kNull
      <4>1. \A f \in L : st[f] <= st[h]
        BY <1>2, <3>2 DEF NextIn
      <4>2. \A f \in L : f = h
        <5>1. SUFFICES ASSUME NEW f \in L PROVE st[f] = st[h]
          BY <1>1
        <5>2. st[f] \in Int /\ st[h] \in Int /\ st[f] <= st[h] /\ st[h] <= st[f]
          BY <1>1, <3>1, <4>1
        <5>3. QED
          BY <5>2
      <4>3. QED
        BY <2>3, <3>2, <4>2 DEF FirstIn
    <3>3. CASE next # kNull
      <4>1. next \in L \ {h} /\ \A f \in L : st[f] <= st[h] \/ st[next] <= st[f]
        BY <1>2, <1>4, <3>3 DEF NextIn
      <4>2. \A f \in L \ {h} : st[next] <= st[f]
        <5>1. SUFFICES ASSUME NEW f \in L, f # h PROVE st[next] <= st[f]
          OBVIOUS
        <5>2. st[f] \in Int /\ st[h] \in Int /\ st[h] <= st[f] /\ st[f] # st[h]
              /\ (st[f] <= st[h] \/ st[next] <= st[f])
          BY <1>1, <3>1, <4>1, <5>1
        <5>3. QED
          BY <5>2
      <4>3. QED
        BY <2>3, <3>3, <4>1, <4>2 DEF FirstIn
    <3>4. QED
      BY <3>2, <3>3
  <2>4. QED
    BY <2>2, <2>3
<1>8. LastIn(L \ {h}, st, IF next = kNull THEN prev ELSE tail)
  <2>1. tail \in L /\ \A f \in L : st[f] <= st[tail]
    BY <1>1 DEF LastIn
  <2>2. CASE next # kNull
    <3>1. next \in L /\ st[h] < st[next]
      BY <1>2, <2>2 DEF NextIn
    <3>2. st[next] <= st[tail]
      BY <2>1, <3>1
    <3>3. tail # h
      BY <1>1, <3>1, <3>2
    <3>4. tail # kNull
      BY <1>1, <2>1
    <3>5. QED
      BY <2>1, <2>2, <3>3, <3>4 DEF LastIn
  <2>3. CASE next = kNull
    <3>1. \A f \in L : st[f] <= st[h]
      BY <1>2, <2>3 DEF NextIn
    <3>2. CASE prev = kNull
      <4>1. \A f \in L : st[h] <= st[f]
        BY <1>2, <3>2 DEF PrevIn
      <4>2. \A f \in L : f = h
        <5>1. SUFFICES ASSUME NEW f \in L PROVE st[f] = st[h]
          BY <1>1
        <5>2. st[f] \in Int /\ st[h] \in Int /\ st[f] <= st[h] /\ st[h] <= st[f]
          BY <1>1, <3>1, <4>1
        <5>3. QED
          BY <5>2
      <4>3. QED
        BY <2>3, <3>2, <4>2 DEF LastIn
    <3>3. CASE prev # kNull
      <4>1. prev \in L \ {h} /\ \A f \in L : st[f] <= st[prev] \/ st[h] <= st[f]
        BY <1>2, <1>4, <3>3 DEF PrevIn
      <4>2. \A f \in L \ {h} : st[f] <= st[prev]
        <5>1. SUFFICES ASSUME NEW f \in L, f # h PROVE st[f] <= st[prev]
          OBVIOUS
        <5>2. st[f] \in Int /\ st[h] \in Int /\ st[f] <= st[h] /\ st[f] # st[h]
              /\ (st[f] <= st[prev] \/ st[h] <= st[f])
          BY <1>1, <3>1, <4>1, <5>1
        <5>3. QED
          BY <5>2
      <4>3. QED
        BY <2>3, <3>3, <4>1, <4>2 DEF LastIn
    <3>4. QED
      BY <3>2, <3>3
  <2>4. QED
    BY <2>2, <2>3
<1>9. QED
  BY <1>3, <1>5, <1>6, <1>7, <1>8 DEF Chain

Behind(slab, L, st, tail, h, c, new) ==
  /\ h \in Handle /\ h \notin L /\ new[h] \in Int
  /\ \A g \in L : new[g] = st[g] /\ st[g] < new[h]
  /\ c[h].prev = tail /\ c[h].next = kNull
  /\ \A g \in L : c[g].next = (IF g = tail THEN h ELSE slab[g].next) /\ c[g].prev = slab[g].prev

LEMMA ChainAppended ==
  ASSUME NEW L, NEW st, Stamped(L, st), NEW slab, NEW head, NEW tail, Chain(slab, L, st, head, tail),
         NEW h, NEW new, NEW c, Behind(slab, L, st, tail, h, c, new)
  PROVE  /\ Chain(c, L \cup {h}, new, IF tail = kNull THEN h ELSE head, h)
         /\ tail # h /\ (tail = kNull <=> head = kNull)
<1>0. /\ h \in Handle /\ h \notin L /\ new[h] \in Int
      /\ \A g \in L : new[g] = st[g] /\ st[g] < new[h]
      /\ c[h].prev = tail /\ c[h].next = kNull
      /\ \A g \in L : c[g].next = (IF g = tail THEN h ELSE slab[g].next) /\ c[g].prev = slab[g].prev
  BY DEF Behind
<1> USE <1>0
<1>1. /\ \A g \in L : st[g] \in Int /\ \A f \in L : st[g] = st[f] => g = f
      /\ \A g \in L : NextIn(L, st, g, slab[g].next) /\ PrevIn(L, st, g, slab[g].prev)
      /\ FirstIn(L, st, head) /\ LastIn(L, st, tail) /\ kNull \notin L /\ h # kNull
  BY Sizes DEF Stamped, Chain
<1>2. tail # h /\ (tail = kNull <=> head = kNull) /\ (tail = kNull <=> L = {})
  BY <1>1 DEF FirstIn, LastIn
<1>3. \A g \in L : new[g] \in Int /\ new[g] < new[h]
  BY <1>1
<1>4. FirstIn(L \cup {h}, new, IF tail = kNull THEN h ELSE head)
  <2>1. CASE tail = kNull
    <3>1. L \cup {h} = {h}
      BY <1>2, <2>1
    <3>2. QED
      BY <1>1, <2>1, <3>1 DEF FirstIn
  <2>2. CASE tail # kNull
    <3>1. head # kNull /\ head \in L /\ \A g \in L : st[head] <= st[g]
      BY <1>1, <1>2, <2>2 DEF FirstIn
    <3>2. \A g \in L : new[head] <= new[g]
      BY <3>1
    <3>3. new[head] <= new[h]
      BY <1>3, <3>1
    <3>4. QED
      BY <2>2, <3>1, <3>2, <3>3 DEF FirstIn
  <2>3. QED
    BY <2>1, <2>2
<1>5. LastIn(L \cup {h}, new, h)
  BY <1>1, <1>3 DEF LastIn
<1>6. NextIn(L \cup {h}, new, h, c[h].next)
  BY <1>3 DEF NextIn
<1>7. PrevIn(L \cup {h}, new, h, c[h].prev)
  <2>1. CASE tail = kNull
    <3>1. L \cup {h} = {h}
      BY <1>2, <2>1
    <3>2. QED
      BY <2>1, <3>1 DEF PrevIn
  <2>2. CASE tail # kNull
    <3>1. tail \in L /\ \A g \in L : st[g] <= st[tail]
      BY <1>1, <2>2 DEF LastIn
    <3>2. new[tail] < new[h] /\ \A g \in L : new[g] <= new[tail]
      BY <1>3, <3>1
    <3>3. QED
      BY <2>2, <3>1, <3>2 DEF PrevIn
  <2>3. QED
    BY <2>1, <2>2
<1>8. ASSUME NEW g \in L PROVE NextIn(L \cup {h}, new, g, c[g].next)
  <2>1. CASE g = tail
    <3>1. \A f \in L : st[f] <= st[g]
      BY <1>1, <2>1 DEF LastIn
    <3>2. new[g] < new[h] /\ \A f \in L : new[f] <= new[g]
      BY <1>3, <3>1
    <3>3. c[g].next = h
      BY <2>1
    <3>4. QED
      BY <1>1, <3>2, <3>3 DEF NextIn
  <2>2. CASE g # tail
    <3>1. PICK n : n = slab[g].next
      OBVIOUS
    <3>2. c[g].next = n /\ NextIn(L, st, g, n)
      BY <1>1, <2>2, <3>1
    <3>3. n # kNull
      <4>1. SUFFICES ASSUME n = kNull PROVE FALSE
        OBVIOUS
      <4>2. tail \in L /\ st[g] <= st[tail]
        BY <1>1, <1>2 DEF LastIn
      <4>3. st[tail] <= st[g]
        BY <3>2, <4>1, <4>2 DEF NextIn
      <4>4. st[tail] = st[g]
        BY <1>1, <4>2, <4>3
      <4>5. QED
        BY <1>1, <2>2, <4>2, <4>4
    <3>4. n \in L /\ st[g] < st[n] /\ \A f \in L : st[f] <= st[g] \/ st[n] <= st[f]
      BY <3>2, <3>3 DEF NextIn
    <3>5. new[g] < new[n] /\ \A f \in L : new[f] <= new[g] \/ new[n] <= new[f]
      BY <3>4
    <3>6. new[n] <= new[h]
      BY <1>3, <3>4
    <3>7. QED
      BY <3>2, <3>3, <3>4, <3>5, <3>6 DEF NextIn
  <2>3. QED
    BY <2>1, <2>2
<1>9. ASSUME NEW g \in L PROVE PrevIn(L \cup {h}, new, g, c[g].prev)
  <2>1. PICK n : n = slab[g].prev
    OBVIOUS
  <2>2. c[g].prev = n /\ PrevIn(L, st, g, n)
    BY <1>1, <2>1
  <2>3. new[g] <= new[h]
    BY <1>3
  <2>4. CASE n = kNull
    <3>1. \A f \in L : st[g] <= st[f]
      BY <2>2, <2>4 DEF PrevIn
    <3>2. \A f \in L : new[g] <= new[f]
      BY <3>1
    <3>3. QED
      BY <2>2, <2>3, <2>4, <3>2 DEF PrevIn
  <2>5. CASE n # kNull
    <3>1. n \in L /\ st[n] < st[g] /\ \A f \in L : st[f] <= st[n] \/ st[g] <= st[f]
      BY <2>2, <2>5 DEF PrevIn
    <3>2. new[n] < new[g] /\ \A f \in L : new[f] <= new[n] \/ new[g] <= new[f]
      BY <3>1
    <3>3. QED
      BY <2>2, <2>3, <2>5, <3>1, <3>2 DEF PrevIn
  <2>6. QED
    BY <2>4, <2>5
<1>10. QED
  BY <1>2, <1>4, <1>5, <1>6, <1>7, <1>8, <1>9 DEF Chain

(* A place the step does not touch. *)
LEMMA ChainKept ==
  ASSUME NEW L, NEW st, NEW slab, NEW head, NEW tail, Chain(slab, L, st, head, tail),
         NEW new, \A g \in L : new[g] = st[g],
         NEW c, \A g \in L : c[g].next = slab[g].next /\ c[g].prev = slab[g].prev
  PROVE  Chain(c, L, new, head, tail)
<1>1. FirstIn(L, new, head) /\ LastIn(L, new, tail)
  BY DEF Chain, FirstIn, LastIn
<1>2. ASSUME NEW h \in L PROVE NextIn(L, new, h, c[h].next) /\ PrevIn(L, new, h, c[h].prev)
  <2>1. NextIn(L, st, h, slab[h].next) /\ PrevIn(L, st, h, slab[h].prev)
    BY DEF Chain
  <2>2. NextIn(L, new, h, slab[h].next) /\ PrevIn(L, new, h, slab[h].prev)
    BY <2>1 DEF NextIn, PrevIn
  <2>3. QED
    BY <2>2
<1>3. QED
  BY <1>1, <1>2 DEF Chain

(* The book and the list of its orders: how they correspond. *)
Rows == [id : Id, side : Sides, px : Price, slot : Slot, qty : Nat]
LiveIn(b) == {h \in Handle : \E id \in Id : b.ids[id] = h}
PlaceIn(b, side, slot) == {h \in LiveIn(b) : b.slab[h].side = side /\ b.slab[h].slot = slot}
QtysOf(b) == [h \in Handle |-> b.slab[h].qty]

PlacesIn(b, st) ==
  \A side \in Sides, slot \in Slot :
    /\ Chain(b.slab, PlaceIn(b, side, slot), st, b.level[side][slot].head, b.level[side][slot].tail)
    /\ b.level[side][slot].qty = Total(QtysOf(b), PlaceIn(b, side, slot))

MatchIn(b, list, st) ==
  /\ list \in Seq(Rows)
  /\ \A id \in Id : b.ids[id] # kNull => \E n \in DOMAIN list : list[n].id = id
  /\ \A n \in DOMAIN list : b.ids[list[n].id] # kNull /\ SameBody(b.slab[b.ids[list[n].id]], list[n])
  /\ \A m, n \in DOMAIN list : m < n => st[b.ids[list[m].id]] < st[b.ids[list[n].id]]

StampsIn(b, st, N) == st \in [Handle -> Nat] /\ N \in Nat /\ \A h \in LiveIn(b) : st[h] < N

(* f is the free list, from its end to its head. *)
FreeIn(b, f, k) ==
  /\ k \in Nat /\ f \in [1 .. k -> Handle] /\ \A i, j \in 1 .. k : f[i] = f[j] => i = j
  /\ \A h \in Handle : h \notin LiveIn(b) <=> \E i \in 1 .. k : f[i] = h
  /\ b.free_head = IF k = 0 THEN kNull ELSE f[k]
  /\ \A i \in 1 .. k : b.slab[f[i]].next = IF i = 1 THEN kNull ELSE f[i - 1]

LadderIn(b, list, st, N, f, k) ==
  /\ b \in Books /\ (\A side \in Sides : BestIn(b, side)) /\ PlacesIn(b, st)
  /\ MatchIn(b, list, st) /\ StampsIn(b, st, N) /\ FreeIn(b, f, k)

LEMMA LiveIs ==
  ASSUME NEW b \in Books, NEW list, NEW st, NEW N, MatchIn(b, list, st), StampsIn(b, st, N)
  PROVE  /\ \A id \in Id : b.ids[id] # kNull =>
              b.ids[id] \in Handle /\ b.ids[id] \in LiveIn(b) /\ b.slab[b.ids[id]].id = id
         /\ Stamped(LiveIn(b), st)
         /\ \A n \in DOMAIN list : list[n] \in Rows /\ list[n].id \in Id
         /\ \A h \in LiveIn(b) : \E n \in DOMAIN list :
              b.ids[list[n].id] = h /\ SameBody(b.slab[h], list[n])
         /\ \A m, n \in DOMAIN list : list[m].id = list[n].id => m = n
         /\ IsFiniteSet(LiveIn(b)) /\ LiveIn(b) \subseteq Handle
<1>1. b.ids \in [Id -> Links] /\ kNull \notin Handle /\ Handle \subseteq Nat
  BY BookIs, Sizes
<1>2. list \in Seq(Rows) /\ \A n \in DOMAIN list : list[n] \in Rows /\ list[n].id \in Id
  <2>1. list \in Seq(Rows)
    BY DEF MatchIn
  <2>2. \A n \in DOMAIN list : list[n] \in Rows
    BY <2>1
  <2>3. \A r \in Rows : r.id \in Id
    BY DEF Rows
  <2>4. QED
    BY <2>1, <2>2, <2>3
<1>3. DOMAIN list \subseteq Nat
  BY <1>2
<1>4. ASSUME NEW id \in Id, b.ids[id] # kNull
      PROVE  b.ids[id] \in Handle /\ b.ids[id] \in LiveIn(b) /\ b.slab[b.ids[id]].id = id
  <2>1. b.ids[id] \in Handle
    BY <1>1, <1>4 DEF Links
  <2>2. b.ids[id] \in LiveIn(b)
    BY <2>1 DEF LiveIn
  <2>3. PICK n \in DOMAIN list : list[n].id = id
    BY <1>4 DEF MatchIn
  <2>4. SameBody(b.slab[b.ids[id]], list[n])
    BY <2>3 DEF MatchIn
  <2>5. QED
    BY <2>1, <2>2, <2>3, <2>4 DEF SameBody
<1>5. ASSUME NEW h \in LiveIn(b)
      PROVE  \E n \in DOMAIN list : b.ids[list[n].id] = h /\ SameBody(b.slab[h], list[n])
  <2>1. PICK id \in Id : b.ids[id] = h
    BY DEF LiveIn
  <2>2. h # kNull
    BY <1>1 DEF LiveIn
  <2>3. PICK n \in DOMAIN list : list[n].id = id
    BY <2>1, <2>2 DEF MatchIn
  <2>4. QED
    BY <2>1, <2>3 DEF MatchIn
<1>6. \A h \in LiveIn(b) : h \in Handle /\ st[h] \in Int
  BY DEF LiveIn, StampsIn
<1>7. \A n \in DOMAIN list : b.ids[list[n].id] \in LiveIn(b)
  BY <1>2, <1>4 DEF MatchIn
<1>8. ASSUME NEW m \in DOMAIN list, NEW n \in DOMAIN list, st[b.ids[list[m].id]] = st[b.ids[list[n].id]]
      PROVE  m = n
  <2>1. st[b.ids[list[m].id]] \in Int /\ st[b.ids[list[n].id]] \in Int
    BY <1>6, <1>7
  <2>2. ~(m < n) /\ ~(n < m)
    BY <1>8, <2>1 DEF MatchIn
  <2>3. QED
    BY <1>3, <2>2
<1>9. ASSUME NEW g \in LiveIn(b), NEW h \in LiveIn(b), st[g] = st[h] PROVE g = h
  <2>1. PICK m \in DOMAIN list : b.ids[list[m].id] = g
    BY <1>5
  <2>2. PICK n \in DOMAIN list : b.ids[list[n].id] = h
    BY <1>5
  <2>3. m = n
    BY <1>8, <1>9, <2>1, <2>2
  <2>4. QED
    BY <2>1, <2>2, <2>3
<1>10. Stamped(LiveIn(b), st)
  BY <1>6, <1>9 DEF Stamped
<1>11. IsFiniteSet(LiveIn(b)) /\ LiveIn(b) \subseteq Handle
  <2>1. LiveIn(b) \subseteq Handle
    BY DEF LiveIn
  <2>2. QED
    BY <2>1, Sizes, FS_Subset
<1>12. QED
  BY <1>2, <1>4, <1>5, <1>8, <1>10, <1>11

LEMMA StampedSubset ==
  ASSUME NEW L, NEW st, Stamped(L, st), NEW S \in SUBSET L PROVE Stamped(S, st)
BY DEF Stamped

(* The free list, an entry pushed and one popped. *)
LEMMA FreePushed ==
  ASSUME NEW b, NEW f, NEW k, FreeIn(b, f, k), NEW h \in LiveIn(b), h \in Handle,
         NEW c, LiveIn(c) = LiveIn(b) \ {h}, c.free_head = h, c.slab[h].next = b.free_head,
         \A g \in Handle : g \notin LiveIn(b) => c.slab[g].next = b.slab[g].next
  PROVE  \E z : FreeIn(c, z, k + 1)
<1>1. /\ k \in Nat /\ f \in [1 .. k -> Handle] /\ \A i, j \in 1 .. k : f[i] = f[j] => i = j
      /\ \A g \in Handle : g \notin LiveIn(b) <=> \E i \in 1 .. k : f[i] = g
      /\ b.free_head = IF k = 0 THEN kNull ELSE f[k]
      /\ \A i \in 1 .. k : b.slab[f[i]].next = IF i = 1 THEN kNull ELSE f[i - 1]
  BY DEF FreeIn
<1>2. PICK z : z = [i \in 1 .. k + 1 |-> IF i = k + 1 THEN h ELSE f[i]]
  OBVIOUS
<1>3. \A i \in 1 .. k + 1 : i = k + 1 \/ i \in 1 .. k
  BY <1>1
<1>4. k + 1 \in Nat /\ k + 1 \in 1 .. k + 1 /\ k + 1 # 0 /\ \A i \in 1 .. k : i \in 1 .. k + 1 /\ i # k + 1
  BY <1>1
<1>5. z[k + 1] = h /\ \A i \in 1 .. k : z[i] = f[i] /\ z[i] \in Handle
  BY <1>1, <1>2, <1>4
<1>6. z \in [1 .. k + 1 -> Handle]
  BY <1>1, <1>2, <1>3
<1>7. \A i \in 1 .. k : f[i] # h /\ f[i] \notin LiveIn(b)
  BY <1>1
<1>8. ASSUME NEW i \in 1 .. k + 1, NEW j \in 1 .. k + 1, z[i] = z[j] PROVE i = j
  <2>1. CASE i = k + 1
    BY <1>3, <1>5, <1>7, <1>8, <2>1
  <2>2. CASE i \in 1 .. k
    <3>1. CASE j = k + 1
      BY <1>5, <1>7, <1>8, <2>2, <3>1
    <3>2. CASE j \in 1 .. k
      BY <1>1, <1>5, <1>8, <2>2, <3>2
    <3>3. QED
      BY <1>3, <3>1, <3>2
  <2>3. QED
    BY <1>3, <2>1, <2>2
<1>9. ASSUME NEW g \in Handle PROVE g \notin LiveIn(c) <=> \E i \in 1 .. k + 1 : z[i] = g
  <2>1. g \notin LiveIn(c) <=> g = h \/ g \notin LiveIn(b)
    OBVIOUS
  <2>2. (\E i \in 1 .. k + 1 : z[i] = g) <=> g = h \/ \E i \in 1 .. k : f[i] = g
    BY <1>3, <1>4, <1>5
  <2>3. QED
    BY <1>1, <2>1, <2>2
<1>10. c.free_head = IF k + 1 = 0 THEN kNull ELSE z[k + 1]
  BY <1>4, <1>5
<1>11. ASSUME NEW i \in 1 .. k + 1 PROVE c.slab[z[i]].next = IF i = 1 THEN kNull ELSE z[i - 1]
  <2>1. CASE i = k + 1
    <3>1. CASE k = 0
      <4>1. i = 1
        BY <2>1, <3>1
      <4>2. QED
        BY <1>1, <1>5, <2>1, <3>1, <4>1
    <3>2. CASE k # 0
      <4>1. i # 1 /\ i - 1 = k /\ k \in 1 .. k
        BY <1>1, <2>1, <3>2
      <4>2. z[i - 1] = f[k] /\ z[i] = h
        BY <1>5, <2>1, <4>1
      <4>3. QED
        BY <1>1, <3>2, <4>1, <4>2
    <3>3. QED
      BY <3>1, <3>2
  <2>2. CASE i \in 1 .. k
    <3>1. c.slab[z[i]].next = b.slab[f[i]].next
      BY <1>1, <1>5, <1>7, <2>2
    <3>2. i # 1 => i - 1 \in 1 .. k
      BY <1>1, <2>2
    <3>3. QED
      BY <1>1, <1>5, <2>2, <3>1, <3>2
  <2>3. QED
    BY <1>3, <2>1, <2>2
<1>12. FreeIn(c, z, k + 1)
  BY <1>4, <1>6, <1>8, <1>9, <1>10, <1>11 DEF FreeIn
<1>13. QED
  BY <1>12

LEMMA FreePopped ==
  ASSUME NEW b, NEW f, NEW k, FreeIn(b, f, k), NEW h \in Handle, b.free_head = h,
         NEW c, LiveIn(c) = LiveIn(b) \cup {h}, c.free_head = b.slab[h].next,
         \A g \in Handle : g \notin LiveIn(c) => c.slab[g].next = b.slab[g].next
  PROVE  /\ h \notin LiveIn(b) /\ k # 0 /\ \E z : FreeIn(c, z, k - 1)
<1>1. /\ k \in Nat /\ f \in [1 .. k -> Handle] /\ \A i, j \in 1 .. k : f[i] = f[j] => i = j
      /\ \A g \in Handle : g \notin LiveIn(b) <=> \E i \in 1 .. k : f[i] = g
      /\ b.free_head = IF k = 0 THEN kNull ELSE f[k]
      /\ \A i \in 1 .. k : b.slab[f[i]].next = IF i = 1 THEN kNull ELSE f[i - 1]
  BY DEF FreeIn
<1>2. k # 0 /\ f[k] = h /\ k \in 1 .. k
  BY <1>1, Sizes
<1>3. h \notin LiveIn(b)
  BY <1>1, <1>2
<1>4. PICK z : z = [i \in 1 .. k - 1 |-> f[i]]
  OBVIOUS
<1>5. k - 1 \in Nat /\ \A i \in 1 .. k - 1 : i \in 1 .. k /\ i # k
  BY <1>1, <1>2
<1>6. z \in [1 .. k - 1 -> Handle] /\ \A i \in 1 .. k - 1 : z[i] = f[i]
  BY <1>1, <1>4, <1>5
<1>7. \A i, j \in 1 .. k - 1 : z[i] = z[j] => i = j
  BY <1>1, <1>5, <1>6
<1>8. ASSUME NEW g \in Handle PROVE g \notin LiveIn(c) <=> \E i \in 1 .. k - 1 : z[i] = g
  <2>1. g \notin LiveIn(c) <=> g # h /\ \E i \in 1 .. k : f[i] = g
    BY <1>1
  <2>2. \A i \in 1 .. k : i = k \/ i \in 1 .. k - 1
    BY <1>1
  <2>3. (\E i \in 1 .. k - 1 : z[i] = g) <=> g # h /\ \E i \in 1 .. k : f[i] = g
    <3>1. ASSUME NEW i \in 1 .. k - 1, z[i] = g PROVE g # h /\ \E j \in 1 .. k : f[j] = g
      <4>1. i \in 1 .. k /\ i # k /\ f[i] = g
        BY <1>5, <1>6, <3>1
      <4>2. \A m, n \in 1 .. k : f[m] = f[n] => m = n
        BY <1>1
      <4>3. f[i] # f[k]
        BY <1>2, <4>1, <4>2
      <4>4. QED
        BY <1>2, <4>1, <4>3
    <3>2. ASSUME NEW i \in 1 .. k, f[i] = g, g # h PROVE \E j \in 1 .. k - 1 : z[j] = g
      <4>1. i \in 1 .. k - 1
        BY <1>2, <2>2, <3>2
      <4>2. QED
        BY <1>6, <3>2, <4>1
    <3>3. QED
      BY <3>1, <3>2
  <2>4. QED
    BY <2>1, <2>3
<1>9. c.free_head = IF k - 1 = 0 THEN kNull ELSE z[k - 1]
  <2>1. c.free_head = IF k = 1 THEN kNull ELSE f[k - 1]
    BY <1>1, <1>2
  <2>2. k # 1 => k - 1 \in 1 .. k - 1
    BY <1>1, <1>2
  <2>3. k - 1 = 0 <=> k = 1
    BY <1>1
  <2>4. QED
    BY <1>6, <2>1, <2>2, <2>3
<1>10. ASSUME NEW i \in 1 .. k - 1 PROVE c.slab[z[i]].next = IF i = 1 THEN kNull ELSE z[i - 1]
  <2>1. z[i] \in Handle /\ z[i] \notin LiveIn(c)
    BY <1>6, <1>8
  <2>2. c.slab[z[i]].next = b.slab[f[i]].next
    BY <1>6, <2>1
  <2>3. i # 1 => i - 1 \in 1 .. k - 1
    BY <1>5
  <2>4. QED
    BY <1>1, <1>5, <1>6, <2>2, <2>3
<1>11. FreeIn(c, z, k - 1)
  BY <1>5, <1>6, <1>7, <1>8, <1>9, <1>10 DEF FreeIn
<1>12. QED
  BY <1>2, <1>3, <1>11

(* The list without an order. *)
LEMMA WithoutIs ==
  ASSUME NEW list \in Seq(Rows), NEW id, NEW gone \in DOMAIN list, list[gone].id = id,
         \A n \in DOMAIN list : list[n].id = id => n = gone
  PROVE  Without(list, id) = RemoveAt(list, gone)
<1>1. DOMAIN list = 1 .. Len(list) /\ Len(list) \in Nat
  BY LenProperties
<1>2. {n \in 1 .. Len(list) : list[n].id = id} = {gone}
  BY <1>1
<1>3. Min({gone}) = gone
  <2>1. gone \in Nat
    BY <1>1
  <2>2. QED
    BY <2>1, MinNat
<1>4. \E n \in 1 .. Len(list) : list[n].id = id
  BY <1>1
<1>5. SelectInSeq(list, LAMBDA o : o.id = id) = gone
  BY <1>2, <1>3, <1>4 DEF SelectInSeq
<1>6. gone # 0
  BY <1>1
<1>7. QED
  BY <1>5, <1>4, <1>6 DEF RemoveFirstMatch, Without

LEMMA MatchCut ==
  ASSUME NEW b \in Books, NEW list, NEW st, NEW N, MatchIn(b, list, st), StampsIn(b, st, N),
         NEW id \in Id, b.ids[id] # kNull, NEW c, c.ids[id] = kNull,
         \A d \in Id : d # id => c.ids[d] = b.ids[d],
         \A g \in Handle : g # b.ids[id] => SameBody(c.slab[g], b.slab[g]),
         NEW rest, rest = Without(list, id)
  PROVE  MatchIn(c, rest, st)
<1>1. /\ \A d \in Id : b.ids[d] # kNull => b.ids[d] \in Handle /\ b.slab[b.ids[d]].id = d
      /\ \A n \in DOMAIN list : list[n].id \in Id
      /\ \A m, n \in DOMAIN list : list[m].id = list[n].id => m = n
  BY LiveIs
<1>2. list \in Seq(Rows) /\ DOMAIN list = 1 .. Len(list) /\ Len(list) \in Nat
  BY DEF MatchIn
<1>3. PICK gone \in 1 .. Len(list) : list[gone].id = id
  BY <1>2 DEF MatchIn
<1>4. rest = RemoveAt(list, gone)
  BY <1>1, <1>2, <1>3, WithoutIs
<1>5. /\ rest \in Seq(Rows) /\ DOMAIN rest = 1 .. Len(list) - 1
      /\ \A n \in 1 .. Len(list) - 1 : rest[n] = IF n < gone THEN list[n] ELSE list[n + 1]
  BY <1>2, <1>4, RemoveAtIs
<1>6. PICK Old : Old = [n \in 1 .. Len(list) - 1 |-> IF n < gone THEN n ELSE n + 1]
  OBVIOUS
<1>7. \A n \in DOMAIN rest : /\ Old[n] \in 1 .. Len(list) /\ Old[n] # gone /\ rest[n] = list[Old[n]]
  BY <1>2, <1>5, <1>6
<1>8. \A m, n \in DOMAIN rest : m < n => Old[m] < Old[n]
  BY <1>2, <1>5, <1>6
<1>9. ASSUME NEW m \in 1 .. Len(list), m # gone PROVE \E n \in DOMAIN rest : Old[n] = m
  <2>1. CASE m < gone
    <3>1. m \in DOMAIN rest /\ Old[m] = m
      BY <1>2, <1>5, <1>6, <2>1
    <3>2. QED
      BY <3>1
  <2>2. CASE ~(m < gone)
    <3>1. m - 1 \in DOMAIN rest /\ ~(m - 1 < gone) /\ m - 1 + 1 = m
      BY <1>2, <1>5, <1>9, <2>2
    <3>2. Old[m - 1] = m
      BY <1>5, <1>6, <3>1
    <3>3. QED
      BY <3>1, <3>2
  <2>3. QED
    BY <2>1, <2>2
<1>10. ASSUME NEW n \in DOMAIN rest
       PROVE  /\ rest[n].id \in Id /\ rest[n].id # id /\ c.ids[rest[n].id] = b.ids[rest[n].id]
              /\ c.ids[rest[n].id] # kNull /\ SameBody(c.slab[c.ids[rest[n].id]], rest[n])
  <2>1. PICK r, o : r = rest[n] /\ o = Old[n]
    OBVIOUS
  <2>2. o \in DOMAIN list /\ o # gone /\ r = list[o]
    BY <1>2, <1>7, <2>1
  <2>3. r.id \in Id /\ r.id # id
    BY <1>1, <1>2, <1>3, <2>2
  <2>4. b.ids[r.id] # kNull /\ SameBody(b.slab[b.ids[r.id]], r)
    BY <2>2 DEF MatchIn
  <2>5. b.ids[r.id] # b.ids[id] /\ b.ids[r.id] \in Handle
    BY <1>1, <2>3, <2>4
  <2>6. SameBody(c.slab[b.ids[r.id]], b.slab[b.ids[r.id]])
    BY <2>5
  <2>7. c.ids[r.id] = b.ids[r.id]
    BY <2>3
  <2>8. SameBody(c.slab[c.ids[r.id]], r)
    BY <2>4, <2>6, <2>7 DEF SameBody
  <2>9. QED
    BY <2>1, <2>3, <2>4, <2>7, <2>8
<1>11. ASSUME NEW d \in Id, c.ids[d] # kNull PROVE \E n \in DOMAIN rest : rest[n].id = d
  <2>1. d # id /\ b.ids[d] # kNull
    BY <1>11
  <2>2. PICK m \in DOMAIN list : list[m].id = d
    BY <2>1 DEF MatchIn
  <2>3. m # gone
    BY <1>3, <2>1, <2>2
  <2>4. PICK n \in DOMAIN rest : Old[n] = m
    BY <1>2, <1>9, <2>3
  <2>5. rest[n].id = d
    BY <1>7, <2>2, <2>4
  <2>6. QED
    BY <2>5
<1>12. ASSUME NEW m \in DOMAIN rest, NEW n \in DOMAIN rest, m < n
       PROVE  st[c.ids[rest[m].id]] < st[c.ids[rest[n].id]]
  <2>1. Old[m] \in DOMAIN list /\ Old[n] \in DOMAIN list /\ Old[m] < Old[n]
    BY <1>2, <1>7, <1>8, <1>12
  <2>2. st[b.ids[list[Old[m]].id]] < st[b.ids[list[Old[n]].id]]
    BY <2>1 DEF MatchIn
  <2>3. rest[m] = list[Old[m]] /\ rest[n] = list[Old[n]]
    BY <1>7
  <2>4. QED
    BY <1>10, <2>2, <2>3
<1>13. QED
  BY <1>5, <1>10, <1>11, <1>12 DEF MatchIn

LEMMA RemoveKeeps ==
  ASSUME NEW b, NEW list, NEW st, NEW N, NEW f, NEW k, LadderIn(b, list, st, N, f, k),
         NEW id \in Id, b.ids[id] # kNull, NEW c, c = Removed(b, id),
         NEW rest, rest = Without(list, id)
  PROVE  \E z : LadderIn(c, rest, st, N, z, k + 1)
<1>1. /\ b \in Books /\ (\A side \in Sides : BestIn(b, side)) /\ PlacesIn(b, st)
      /\ MatchIn(b, list, st) /\ StampsIn(b, st, N) /\ FreeIn(b, f, k)
  BY DEF LadderIn
<1>2. /\ \A d \in Id : b.ids[d] # kNull =>
            b.ids[d] \in Handle /\ b.ids[d] \in LiveIn(b) /\ b.slab[b.ids[d]].id = d
      /\ Stamped(LiveIn(b), st) /\ IsFiniteSet(LiveIn(b)) /\ LiveIn(b) \subseteq Handle
  BY <1>1, LiveIs
<1>3. PICK h, side, slot, prev, next, qty :
        /\ h = b.ids[id] /\ b.slab[h].side = side /\ b.slab[h].slot = slot
        /\ b.slab[h].prev = prev /\ b.slab[h].next = next /\ b.slab[h].qty = qty
  OBVIOUS
<1>4. h \in Handle /\ h \in LiveIn(b) /\ b.slab[h].id = id /\ h # kNull
  BY <1>2, <1>3
<1>5. qty \in Nat /\ side \in Sides /\ slot \in Slot
  <2>1. b.slab[h] \in OrderRecs
    BY <1>1, <1>4, BookIs
  <2>2. QED
    BY <1>3, <2>1, OrderIs
<1>6. PICK L, head, tail : /\ L = PlaceIn(b, side, slot) /\ head = b.level[side][slot].head
                           /\ tail = b.level[side][slot].tail
  OBVIOUS
<1>7. h \in L /\ L \subseteq LiveIn(b) /\ Stamped(L, st) /\ Chain(b.slab, L, st, head, tail)
  <2>1. h \in L /\ L \subseteq LiveIn(b)
    BY <1>3, <1>4, <1>6 DEF PlaceIn
  <2>2. Stamped(L, st)
    BY <1>2, <2>1, StampedSubset
  <2>3. Chain(b.slab, L, st, head, tail)
    BY <1>1, <1>5, <1>6 DEF PlacesIn
  <2>4. QED
    BY <2>1, <2>2, <2>3
<1>8. head # kNull
  BY <1>7 DEF Chain, FirstIn
<1>9. PICK u : u = Unlinked(b, h)
  OBVIOUS
<1>10. /\ u \in Books /\ u.ids = b.ids /\ u.free_head = h /\ u.slab[h].next = b.free_head
       /\ \A g \in Handle : g # h =>
            /\ SameBody(u.slab[g], b.slab[g])
            /\ u.slab[g].next = (IF g = prev THEN next ELSE b.slab[g].next)
            /\ u.slab[g].prev = (IF g = next THEN prev ELSE b.slab[g].prev)
       /\ \A d \in Sides, p \in Slot :
            /\ u.level[d][p].head = (IF prev = kNull /\ d = side /\ p = slot THEN next
                                     ELSE b.level[d][p].head)
            /\ u.level[d][p].tail = (IF next = kNull /\ d = side /\ p = slot THEN prev
                                     ELSE b.level[d][p].tail)
            /\ u.level[d][p].qty = (IF d = side /\ p = slot THEN b.level[d][p].qty - qty
                                    ELSE b.level[d][p].qty)
       /\ \A d \in Sides : BestIn(u, d)
  <2>1. b.level[side][slot].head # kNull
    BY <1>6, <1>8
  <2>2. b \in Books /\ \A d \in Sides : BestIn(b, d)
    BY <1>1
  <2>3. h \in Handle
    BY <1>4
  <2>4. /\ b.slab[h].side = side /\ b.slab[h].slot = slot /\ b.slab[h].prev = prev
        /\ b.slab[h].next = next /\ b.slab[h].qty = qty
    BY <1>3
  <2>5. QED
    BY ONLY <1>9, <2>1, <2>2, <2>3, <2>4, UnlinkedIs
<1>11. /\ c \in Books /\ c.slab = u.slab /\ c.level = u.level /\ c.free_head = u.free_head
       /\ c.best = u.best /\ c.ids[id] = kNull /\ \A d \in Id : d # id => c.ids[d] = u.ids[d]
  <2>1. c = IdPut(u, id, kNull)
    BY <1>3, <1>9 DEF Removed, IdPut
  <2>2. kNull \in Links
    BY DEF Links
  <2>3. u \in Books
    BY <1>10
  <2>4. QED
    BY ONLY <2>1, <2>2, <2>3, IdSet, id \in Id
<1>12. \A d \in Id : d # id => c.ids[d] = b.ids[d]
  BY <1>10, <1>11
<1>13. LiveIn(c) = LiveIn(b) \ {h}
  <2>1. ASSUME NEW g \in Handle PROVE g \in LiveIn(c) <=> g \in LiveIn(b) /\ g # h
    <3>1. ASSUME g \in LiveIn(c) PROVE g \in LiveIn(b) /\ g # h
      <4>1. PICK d \in Id : c.ids[d] = g
        BY <3>1 DEF LiveIn
      <4>2. d # id /\ b.ids[d] = g
        BY <1>11, <1>12, <4>1, Sizes
      <4>3. g \in LiveIn(b) /\ b.slab[g].id = d
        BY <1>2, <2>1, <4>2, Sizes DEF LiveIn
      <4>4. QED
        BY <1>4, <4>2, <4>3
    <3>2. ASSUME g \in LiveIn(b), g # h PROVE g \in LiveIn(c)
      <4>1. PICK d \in Id : b.ids[d] = g
        BY <3>2 DEF LiveIn
      <4>2. d # id
        BY <1>3, <3>2, <4>1
      <4>3. c.ids[d] = g
        BY <1>12, <4>1, <4>2
      <4>4. QED
        BY <4>3 DEF LiveIn
    <3>3. QED
      BY <3>1, <3>2
  <2>2. LiveIn(c) \subseteq Handle
    BY DEF LiveIn
  <2>3. QED
    BY <1>2, <2>1, <2>2
<1>14. ASSUME NEW d \in Sides, NEW p \in Slot
       PROVE  PlaceIn(c, d, p) = IF d = side /\ p = slot THEN L \ {h} ELSE PlaceIn(b, d, p)
  <2>1. ASSUME NEW g \in Handle
        PROVE  g \in PlaceIn(c, d, p) <=> g # h /\ g \in PlaceIn(b, d, p)
    BY <1>10, <1>11, <1>13 DEF PlaceIn, SameBody
  <2>2. PlaceIn(c, d, p) = PlaceIn(b, d, p) \ {h}
    <3>1. PlaceIn(c, d, p) \subseteq Handle /\ PlaceIn(b, d, p) \subseteq Handle
      BY DEF PlaceIn, LiveIn
    <3>2. QED
      BY <2>1, <3>1
  <2>3. h \in PlaceIn(b, d, p) => d = side /\ p = slot
    BY <1>3 DEF PlaceIn
  <2>4. QED
    BY <1>6, <2>2, <2>3
<1>15. /\ Chain(c.slab, L \ {h}, st, IF prev = kNull THEN next ELSE head,
                  IF next = kNull THEN prev ELSE tail)
       /\ prev \in L \cup {kNull} /\ next \in L \cup {kNull}
  <2>1. PICK slab, cut : slab = b.slab /\ cut = c.slab
    OBVIOUS
  <2>2. \A g \in L \ {h} :
           /\ cut[g].next = (IF g = prev THEN next ELSE slab[g].next)
           /\ cut[g].prev = (IF g = next THEN prev ELSE slab[g].prev)
    BY <1>2, <1>7, <1>10, <1>11, <2>1
  <2>3. slab[h].prev = prev /\ slab[h].next = next
    BY <1>3, <2>1
  <2>4. Stamped(L, st) /\ Chain(slab, L, st, head, tail) /\ h \in L
    BY <1>7, <2>1
  <2>5. /\ Chain(cut, L \ {h}, st, IF prev = kNull THEN next ELSE head,
                  IF next = kNull THEN prev ELSE tail)
        /\ prev \in L \cup {kNull} /\ next \in L \cup {kNull}
    BY ONLY <2>2, <2>3, <2>4, ChainCut
  <2>6. QED
    BY <2>1, <2>5
<1>16. \A g \in Handle : g \notin L =>
         c.slab[g].next = b.slab[g].next /\ c.slab[g].prev = b.slab[g].prev
  BY <1>7, <1>10, <1>11, <1>15, Sizes
<1>17. ASSUME NEW S, S \subseteq LiveIn(b), h \notin S
       PROVE  Total(QtysOf(c), S) = Total(QtysOf(b), S) /\ IsFiniteSet(S)
  <2>1. IsFiniteSet(S)
    BY <1>2, <1>17, FS_Subset
  <2>2. \A g \in S : QtysOf(c)[g] = QtysOf(b)[g]
    BY <1>2, <1>10, <1>11, <1>17 DEF QtysOf, SameBody
  <2>3. QED
    BY <2>1, <2>2, TotalsAgree
<1>18. Total(QtysOf(c), L \ {h}) = b.level[side][slot].qty - qty
  <2>1. IsFiniteSet(L)
    BY <1>2, <1>7, FS_Subset
  <2>2. \A g \in L : QtysOf(b)[g] \in Int
    <3>1. \A g \in Handle : b.slab[g] \in OrderRecs
      BY <1>1, BookIs
    <3>2. \A g \in Handle : b.slab[g].qty \in Nat
      BY <3>1, OrderIs
    <3>3. QED
      BY <1>2, <1>7, <3>2 DEF QtysOf
  <2>3. Total(QtysOf(b), L) = QtysOf(b)[h] + Total(QtysOf(b), L \ {h})
    BY <1>7, <2>1, <2>2, TotalWithout
  <2>4. IsFiniteSet(L \ {h}) /\ \A g \in L \ {h} : QtysOf(b)[g] \in Int
    BY <2>1, <2>2, FS_Subset
  <2>5. Total(QtysOf(b), L \ {h}) \in Int
    BY <2>4, TotalInt
  <2>6. QtysOf(b)[h] = qty
    BY <1>3, <1>4 DEF QtysOf
  <2>7. b.level[side][slot].qty = Total(QtysOf(b), L)
    BY <1>1, <1>5, <1>6 DEF PlacesIn
  <2>8. Total(QtysOf(c), L \ {h}) = Total(QtysOf(b), L \ {h})
    <3>1. L \ {h} \subseteq LiveIn(b) /\ h \notin L \ {h}
      BY <1>7
    <3>2. QED
      BY <1>17, <3>1
  <2>9. QED
    BY <1>5, <2>3, <2>5, <2>6, <2>7, <2>8
<1>19. PlacesIn(c, st)
  <2>1. SUFFICES ASSUME NEW d \in Sides, NEW p \in Slot
                 PROVE  /\ Chain(c.slab, PlaceIn(c, d, p), st, c.level[d][p].head, c.level[d][p].tail)
                        /\ c.level[d][p].qty = Total(QtysOf(c), PlaceIn(c, d, p))
    BY DEF PlacesIn
  <2>2. CASE d = side /\ p = slot
    <3>1. PlaceIn(c, d, p) = L \ {h}
      BY <1>14, <2>2
    <3>2. /\ c.level[d][p].head = (IF prev = kNull THEN next ELSE head)
          /\ c.level[d][p].tail = (IF next = kNull THEN prev ELSE tail)
          /\ c.level[d][p].qty = b.level[side][slot].qty - qty
      BY <1>6, <1>10, <1>11, <2>2
    <3>3. QED
      BY <1>15, <1>18, <3>1, <3>2
  <2>3. CASE d # side \/ p # slot
    <3>1. PlaceIn(c, d, p) = PlaceIn(b, d, p)
      BY <1>14, <2>3
    <3>2. PICK S : S = PlaceIn(b, d, p)
      OBVIOUS
    <3>3. S \subseteq LiveIn(b) /\ h \notin S /\ \A g \in S : g \in Handle /\ g \notin L
      BY <1>2, <1>3, <1>6, <2>3, <3>2 DEF PlaceIn
    <3>4. /\ c.level[d][p].head = b.level[d][p].head /\ c.level[d][p].tail = b.level[d][p].tail
          /\ c.level[d][p].qty = b.level[d][p].qty
      BY <1>10, <1>11, <2>3
    <3>5. /\ Chain(b.slab, S, st, b.level[d][p].head, b.level[d][p].tail)
          /\ b.level[d][p].qty = Total(QtysOf(b), S)
      BY <1>1, <3>2 DEF PlacesIn
    <3>6. \A g \in S : c.slab[g].next = b.slab[g].next /\ c.slab[g].prev = b.slab[g].prev
      BY <1>16, <3>3
    <3>7. Chain(c.slab, S, st, b.level[d][p].head, b.level[d][p].tail)
      <4>1. PICK slab, z, v, w : /\ slab = b.slab /\ z = c.slab /\ v = b.level[d][p].head
                                 /\ w = b.level[d][p].tail
        OBVIOUS
      <4>2. Chain(slab, S, st, v, w)
        BY <3>5, <4>1
      <4>3. \A g \in S : z[g].next = slab[g].next /\ z[g].prev = slab[g].prev
        BY <3>6, <4>1
      <4>4. Chain(z, S, st, v, w)
        BY <4>2, <4>3, ChainKept
      <4>5. QED
        BY <4>1, <4>4
    <3>8. Total(QtysOf(c), S) = Total(QtysOf(b), S)
      BY <1>17, <3>3
    <3>9. QED
      BY <3>1, <3>2, <3>4, <3>5, <3>7, <3>8
  <2>4. QED
    BY <2>2, <2>3
<1>20. MatchIn(c, rest, st)
  <2>1. \A g \in Handle : g # b.ids[id] => SameBody(c.slab[g], b.slab[g])
    BY <1>3, <1>10, <1>11
  <2>2. c.ids[id] = kNull
    BY <1>11
  <2>3. b \in Books /\ MatchIn(b, list, st) /\ StampsIn(b, st, N)
    BY <1>1
  <2>4. QED
    BY ONLY <1>12, <2>1, <2>2, <2>3, MatchCut, id \in Id, b.ids[id] # kNull, rest = Without(list, id)
<1>21. StampsIn(c, st, N)
  BY <1>1, <1>13 DEF StampsIn
<1>22. \E z : FreeIn(c, z, k + 1)
  <2>1. c.free_head = h /\ c.slab[h].next = b.free_head
    BY <1>10, <1>11
  <2>2. \A g \in Handle : g \notin LiveIn(b) => c.slab[g].next = b.slab[g].next
    BY <1>7, <1>16
  <2>3. FreeIn(b, f, k) /\ h \in LiveIn(b) /\ h \in Handle
    BY <1>1, <1>4
  <2>4. QED
    BY ONLY <1>13, <2>1, <2>2, <2>3, FreePushed
<1>23. \A d \in Sides : BestIn(c, d)
  BY <1>10, <1>11 DEF BestIn, HeldIn
<1>24. PICK z : FreeIn(c, z, k + 1)
  BY <1>22
<1>25. LadderIn(c, rest, st, N, z, k + 1)
  BY <1>11, <1>19, <1>20, <1>21, <1>23, <1>24 DEF LadderIn
<1>26. QED
  BY <1>25

(* The quantity of an order lessened, in the book and in the list. *)
Lessened(b, list, id, h, q, qty, left, c, rest) ==
  /\ id \in Id /\ b.ids[id] # kNull /\ h = b.ids[id] /\ q = b.slab[h].qty /\ qty \in 0 .. q
  /\ c = Less(b, h, qty) /\ left = q - qty /\ rest = WithQty(list, id, left)

LEMMA LessKeeps ==
  ASSUME NEW b, NEW list, NEW st, NEW N, NEW f, NEW k, LadderIn(b, list, st, N, f, k),
         NEW id, NEW h, NEW q, NEW qty, NEW left, NEW c, NEW rest,
         Lessened(b, list, id, h, q, qty, left, c, rest)
  PROVE  LadderIn(c, rest, st, N, f, k) /\ c.ids = b.ids /\ c.slab[h].qty = left
<1>0. id \in Id /\ b.ids[id] # kNull /\ h = b.ids[id]
  BY DEF Lessened
<1>q. q = b.slab[h].qty /\ qty \in 0 .. q /\ left = q - qty
  BY DEF Lessened
<1>c. c = Less(b, h, qty)
  BY DEF Lessened
<1>w. rest = WithQty(list, id, left)
  BY DEF Lessened
<1>1. /\ b \in Books /\ (\A side \in Sides : BestIn(b, side)) /\ PlacesIn(b, st)
      /\ MatchIn(b, list, st) /\ StampsIn(b, st, N) /\ FreeIn(b, f, k)
  BY DEF LadderIn
<1>2. /\ \A d \in Id : b.ids[d] # kNull =>
            b.ids[d] \in Handle /\ b.ids[d] \in LiveIn(b) /\ b.slab[b.ids[d]].id = d
      /\ IsFiniteSet(LiveIn(b)) /\ LiveIn(b) \subseteq Handle
      /\ \A n \in DOMAIN list : list[n] \in Rows /\ list[n].id \in Id
  BY <1>1, LiveIs
<1>3. h \in Handle /\ h \in LiveIn(b) /\ b.slab[h].id = id
  BY <1>0, <1>2
<1>4. PICK side, slot : b.slab[h].side = side /\ b.slab[h].slot = slot
  OBVIOUS
<1>5. q \in Nat /\ side \in Sides /\ slot \in Slot
  <2>1. b.slab[h] \in OrderRecs
    BY <1>1, <1>3, BookIs
  <2>2. QED
    BY <1>4, <1>q, <2>1, OrderIs
<1>6. left \in Nat
  BY <1>5, <1>q
<1>7. /\ c \in Books /\ SameRest(b, c) /\ c.slab[h].qty = left
      /\ \A g \in Handle :
           /\ g # h => c.slab[g].qty = b.slab[g].qty
           /\ c.slab[g].id = b.slab[g].id /\ c.slab[g].slot = b.slab[g].slot
           /\ c.slab[g].side = b.slab[g].side
           /\ c.slab[g].next = b.slab[g].next /\ c.slab[g].prev = b.slab[g].prev
      /\ \A d \in Sides, p \in Slot :
           /\ c.level[d][p].head = b.level[d][p].head /\ c.level[d][p].tail = b.level[d][p].tail
           /\ c.level[d][p].qty = (IF d = side /\ p = slot THEN b.level[d][p].qty - qty
                                   ELSE b.level[d][p].qty)
  <2>1. /\ b \in Books /\ h \in Handle /\ qty \in 0 .. q /\ b.slab[h].side = side
        /\ b.slab[h].slot = slot /\ b.slab[h].qty = q /\ c = Less(b, h, qty)
    BY <1>1, <1>3, <1>4, <1>q, <1>c
  <2>2. /\ c \in Books /\ SameRest(b, c) /\ c.slab[h].qty = q - qty
        /\ \A g \in Handle :
             /\ g # h => c.slab[g].qty = b.slab[g].qty
             /\ c.slab[g].id = b.slab[g].id /\ c.slab[g].slot = b.slab[g].slot
             /\ c.slab[g].side = b.slab[g].side
             /\ c.slab[g].next = b.slab[g].next /\ c.slab[g].prev = b.slab[g].prev
        /\ \A d \in Sides, p \in Slot :
             /\ c.level[d][p].head = b.level[d][p].head /\ c.level[d][p].tail = b.level[d][p].tail
             /\ c.level[d][p].qty = (IF d = side /\ p = slot THEN b.level[d][p].qty - qty
                                     ELSE b.level[d][p].qty)
    BY ONLY <2>1, LessIs
  <2>3. left = q - qty
    BY <1>q
  <2>4. QED
    BY ONLY <2>2, <2>3
<1>8. c.ids = b.ids /\ c.best = b.best /\ c.free_head = b.free_head
  BY <1>7 DEF SameRest
<1>9. LiveIn(c) = LiveIn(b)
  BY <1>8 DEF LiveIn
<1>10. ASSUME NEW d \in Sides, NEW p \in Slot PROVE PlaceIn(c, d, p) = PlaceIn(b, d, p)
  <2>1. \A g \in LiveIn(b) : c.slab[g].side = b.slab[g].side /\ c.slab[g].slot = b.slab[g].slot
    BY <1>2, <1>7
  <2>2. QED
    BY <1>9, <2>1 DEF PlaceIn
<1>11. ASSUME NEW S, S \subseteq LiveIn(b)
       PROVE  Total(QtysOf(c), S) = Total(QtysOf(b), S) - (IF h \in S THEN qty ELSE 0)
  <2>1. IsFiniteSet(S)
    BY <1>2, <1>11, FS_Subset
  <2>2. PICK z, w : z = QtysOf(b) /\ w = QtysOf(c)
    OBVIOUS
  <2>3. \A g \in Handle : z[g] = b.slab[g].qty /\ w[g] = c.slab[g].qty
    BY <2>2 DEF QtysOf
  <2>4. \A g \in Handle : z[g] \in Int
    <3>1. \A g \in Handle : b.slab[g] \in OrderRecs
      BY <1>1, BookIs
    <3>2. \A g \in Handle : b.slab[g].qty \in Nat
      BY <3>1, OrderIs
    <3>3. QED
      BY <2>3, <3>2
  <2>5. z[h] = q /\ w[h] = left /\ \A g \in Handle : g # h => w[g] = z[g]
    BY <1>3, <1>7, <1>q, <2>3
  <2>6. S \subseteq Handle /\ \A g \in S : z[g] \in Int
    BY <1>2, <1>11, <2>4
  <2>7. CASE h \notin S
    <3>1. Total(w, S) = Total(z, S)
      BY <2>1, <2>5, <2>6, <2>7, TotalsAgree
    <3>2. Total(z, S) \in Int
      BY <2>1, <2>6, TotalInt
    <3>3. QED
      BY <2>2, <2>7, <3>1, <3>2
  <2>8. CASE h \in S
    <3>1. \A g \in S : w[g] \in Int
      BY <1>6, <2>5, <2>6
    <3>2. Total(z, S) = z[h] + Total(z, S \ {h})
      BY <2>1, <2>6, <2>8, TotalWithout
    <3>3. Total(w, S) = w[h] + Total(w, S \ {h})
      BY <2>1, <2>8, <3>1, TotalWithout
    <3>4. IsFiniteSet(S \ {h}) /\ \A g \in S \ {h} : w[g] = z[g] /\ z[g] \in Int
      BY <2>1, <2>5, <2>6, FS_Subset
    <3>5. Total(w, S \ {h}) = Total(z, S \ {h})
      BY <3>4, TotalsAgree
    <3>6. Total(z, S \ {h}) \in Int
      BY <3>4, TotalInt
    <3>7. Total(w, S) = Total(z, S) - qty
      <4>1. PICK e : e = Total(z, S \ {h})
        OBVIOUS
      <4>2. Total(z, S) = q + e /\ Total(w, S) = left + e /\ e \in Int
        BY <2>5, <3>2, <3>3, <3>5, <3>6, <4>1
      <4>3. q \in Nat /\ qty \in Int /\ left = q - qty
        BY <1>5, <1>q
      <4>4. QED
        BY ONLY <4>2, <4>3
    <3>8. QED
      BY <2>2, <2>8, <3>7
  <2>9. QED
    BY <2>7, <2>8
<1>12. PlacesIn(c, st)
  <2>1. SUFFICES ASSUME NEW d \in Sides, NEW p \in Slot
                 PROVE  /\ Chain(c.slab, PlaceIn(c, d, p), st, c.level[d][p].head, c.level[d][p].tail)
                        /\ c.level[d][p].qty = Total(QtysOf(c), PlaceIn(c, d, p))
    BY DEF PlacesIn
  <2>2. PICK S, slab, z, v, w : /\ S = PlaceIn(b, d, p) /\ slab = b.slab /\ z = c.slab
                                /\ v = b.level[d][p].head /\ w = b.level[d][p].tail
    OBVIOUS
  <2>3. S \subseteq LiveIn(b) /\ S \subseteq Handle /\ (h \in S <=> d = side /\ p = slot)
    BY <1>2, <1>3, <1>4, <2>2 DEF PlaceIn
  <2>4. Chain(slab, S, st, v, w) /\ b.level[d][p].qty = Total(QtysOf(b), S)
    BY <1>1, <2>2 DEF PlacesIn
  <2>5. \A g \in S : z[g].next = slab[g].next /\ z[g].prev = slab[g].prev
    BY <1>7, <2>2, <2>3
  <2>6. Chain(z, S, st, v, w)
    BY <2>4, <2>5, ChainKept
  <2>7. PlaceIn(c, d, p) = S /\ c.level[d][p].head = v /\ c.level[d][p].tail = w
    BY <1>7, <1>10, <2>2
  <2>8. Total(QtysOf(c), S) = b.level[d][p].qty - (IF h \in S THEN qty ELSE 0)
    BY <1>11, <2>3, <2>4
  <2>9. c.level[d][p].qty = Total(QtysOf(c), S)
    <3>1. b.level[d][p].qty \in Int
      <4>1. b.level[d][p] \in LevelRecs
        BY <1>1, BookIs
      <4>2. QED
        BY <4>1, LevelIs
    <3>2. CASE d = side /\ p = slot
      BY <1>7, <2>3, <2>8, <3>2
    <3>3. CASE ~(d = side /\ p = slot)
      <4>1. c.level[d][p].qty = b.level[d][p].qty
        BY <1>7, <3>3
      <4>2. h \notin S
        BY <2>3, <3>3
      <4>3. QED
        BY <2>8, <3>1, <4>1, <4>2
    <3>4. QED
      BY <3>2, <3>3
  <2>10. QED
    BY <2>2, <2>6, <2>7, <2>9
<1>13. list \in Seq(Rows) /\ DOMAIN list = 1 .. Len(list) /\ Len(list) \in Nat
  BY <1>1 DEF MatchIn
<1>14. DOMAIN rest = DOMAIN list
  BY <1>w DEF WithQty
<1>15. ASSUME NEW n \in DOMAIN list
       PROVE  /\ rest[n] \in Rows /\ rest[n].id = list[n].id
              /\ rest[n].side = list[n].side /\ rest[n].slot = list[n].slot
              /\ rest[n].qty = (IF list[n].id = id THEN left ELSE list[n].qty)
  <2>1. PICK r, w : r = list[n] /\ w = [r EXCEPT !.qty = left]
    OBVIOUS
  <2>2. r = [id |-> r.id, side |-> r.side, px |-> r.px, slot |-> r.slot, qty |-> r.qty] /\ r \in Rows
    BY <1>2, <2>1 DEF Rows
  <2>3. r.id \in Id /\ r.side \in Sides /\ r.px \in Price /\ r.slot \in Slot
    BY <2>2 DEF Rows
  <2>4. w = [id |-> r.id, side |-> r.side, px |-> r.px, slot |-> r.slot, qty |-> left]
    BY <2>1, <2>2
  <2>5. w \in Rows
    BY <1>6, <2>3, <2>4 DEF Rows
  <2>6. rest[n] = IF r.id = id THEN w ELSE r
    BY <1>w, <2>1 DEF WithQty
  <2>7. CASE r.id = id
    <3>1. rest[n] = w
      BY <2>6, <2>7
    <3>2. w.id = r.id /\ w.side = r.side /\ w.slot = r.slot /\ w.qty = left
      BY ONLY <2>4
    <3>3. QED
      BY ONLY <2>1, <2>5, <2>7, <3>1, <3>2
  <2>8. CASE r.id # id
    <3>1. rest[n] = r
      BY <2>6, <2>8
    <3>2. QED
      BY <2>1, <2>2, <2>8, <3>1
  <2>9. QED
    BY <2>7, <2>8
<1>16. rest \in Seq(Rows)
  <2>1. rest = [n \in 1 .. Len(list) |-> rest[n]]
    BY <1>13, <1>w DEF WithQty
  <2>2. \A n \in 1 .. Len(list) : rest[n] \in Rows
    BY <1>13, <1>15
  <2>3. PICK e : e = Len(list)
    OBVIOUS
  <2>4. e \in Nat /\ rest = [n \in 1 .. e |-> rest[n]] /\ \A n \in 1 .. e : rest[n] \in Rows
    BY <1>13, <2>1, <2>2, <2>3
  <2>5. rest \in [1 .. e -> Rows]
    BY ONLY <2>4
  <2>6. QED
    BY ONLY <2>4, <2>5
<1>17. MatchIn(c, rest, st)
  <2>1. ASSUME NEW d \in Id, c.ids[d] # kNull PROVE \E n \in DOMAIN rest : rest[n].id = d
    <3>1. PICK n \in DOMAIN list : list[n].id = d
      BY <1>1, <1>8, <2>1 DEF MatchIn
    <3>2. QED
      BY <1>14, <1>15, <3>1
  <2>2. ASSUME NEW n \in DOMAIN rest
        PROVE c.ids[rest[n].id] # kNull /\ SameBody(c.slab[c.ids[rest[n].id]], rest[n])
    <3>1. PICK r, w : r = list[n] /\ w = rest[n]
      OBVIOUS
    <3>2. /\ n \in DOMAIN list /\ w.id = r.id /\ w.side = r.side /\ w.slot = r.slot /\ r.id \in Id
          /\ w.qty = (IF r.id = id THEN left ELSE r.qty)
      BY <1>2, <1>14, <1>15, <3>1
    <3>3. b.ids[r.id] # kNull /\ SameBody(b.slab[b.ids[r.id]], r)
      BY <1>1, <3>1, <3>2 DEF MatchIn
    <3>4. PICK g : g = b.ids[r.id]
      OBVIOUS
    <3>5. g \in Handle /\ c.ids[w.id] = g /\ b.slab[g].id = r.id
      BY <1>2, <1>8, <3>2, <3>3, <3>4
    <3>6. b.slab[g].qty = r.qty /\ b.slab[g].slot = r.slot /\ b.slab[g].side = r.side
      BY <3>3, <3>4 DEF SameBody
    <3>7. c.slab[g].id = w.id /\ c.slab[g].slot = w.slot /\ c.slab[g].side = w.side
      BY <1>7, <3>2, <3>5, <3>6
    <3>8. c.slab[g].qty = w.qty
      <4>1. CASE r.id = id
        BY <1>0, <1>7, <3>2, <3>4, <4>1
      <4>2. CASE r.id # id
        <5>1. g # h
          BY <1>3, <3>5, <4>2
        <5>2. QED
          BY <1>7, <3>2, <3>5, <3>6, <4>2, <5>1
      <4>3. QED
        BY <4>1, <4>2
    <3>9. QED
      BY <3>1, <3>3, <3>4, <3>5, <3>7, <3>8 DEF SameBody
  <2>3. ASSUME NEW m \in DOMAIN rest, NEW n \in DOMAIN rest, m < n
        PROVE  st[c.ids[rest[m].id]] < st[c.ids[rest[n].id]]
    <3>1. rest[m].id = list[m].id /\ rest[n].id = list[n].id /\ m \in DOMAIN list /\ n \in DOMAIN list
      BY <1>14, <1>15
    <3>2. st[b.ids[list[m].id]] < st[b.ids[list[n].id]]
      BY <1>1, <2>3, <3>1 DEF MatchIn
    <3>3. QED
      BY <1>8, <3>1, <3>2
  <2>4. QED
    BY <1>16, <2>1, <2>2, <2>3 DEF MatchIn
<1>18. StampsIn(c, st, N)
  BY <1>1, <1>9 DEF StampsIn
<1>19. FreeIn(c, f, k)
  <2>1. /\ k \in Nat /\ f \in [1 .. k -> Handle] /\ \A i, j \in 1 .. k : f[i] = f[j] => i = j
        /\ \A g \in Handle : g \notin LiveIn(b) <=> \E i \in 1 .. k : f[i] = g
        /\ b.free_head = IF k = 0 THEN kNull ELSE f[k]
        /\ \A i \in 1 .. k : b.slab[f[i]].next = IF i = 1 THEN kNull ELSE f[i - 1]
    BY <1>1 DEF FreeIn
  <2>2. \A g \in Handle : c.slab[g].next = b.slab[g].next
    BY <1>7
  <2>3. \A i \in 1 .. k : c.slab[f[i]].next = b.slab[f[i]].next
    BY <2>1, <2>2
  <2>4. \A i \in 1 .. k : c.slab[f[i]].next = IF i = 1 THEN kNull ELSE f[i - 1]
    BY <2>1, <2>3
  <2>5. /\ \A g \in Handle : g \notin LiveIn(c) <=> \E i \in 1 .. k : f[i] = g
        /\ c.free_head = IF k = 0 THEN kNull ELSE f[k]
    BY <1>8, <1>9, <2>1
  <2>6. QED
    BY <2>1, <2>4, <2>5 DEF FreeIn
<1>20. \A d \in Sides : BestIn(c, d)
  <2>1. \A d \in Sides : HeldIn(c, d) = HeldIn(b, d)
    BY <1>7 DEF HeldIn
  <2>2. QED
    BY <1>1, <1>8, <2>1 DEF BestIn
<1>21. QED
  BY <1>7, <1>8, <1>12, <1>17, <1>18, <1>19, <1>20 DEF LadderIn

LEMMA AddKeeps ==
  ASSUME NEW b, NEW list, NEW st, NEW N, NEW f, NEW k, LadderIn(b, list, st, N, f, k),
         NEW id \in Id, \A n \in DOMAIN list : list[n].id # id,
         NEW side \in Sides, NEW px \in Price, NEW slot \in Slot, slot = SlotOf(px),
         NEW qty \in Nat, b.free_head # kNull,
         NEW c, c = Added(b, id, side, slot, qty),
         NEW rest, rest = Append(list, Resting(id, side, px, qty))
  PROVE  \E u, z : LadderIn(c, rest, u, N + 1, z, k - 1)
<1>1. /\ b \in Books /\ (\A d \in Sides : BestIn(b, d)) /\ PlacesIn(b, st)
      /\ MatchIn(b, list, st) /\ StampsIn(b, st, N) /\ FreeIn(b, f, k)
  BY DEF LadderIn
<1>2. /\ \A d \in Id : b.ids[d] # kNull =>
            b.ids[d] \in Handle /\ b.ids[d] \in LiveIn(b) /\ b.slab[b.ids[d]].id = d
      /\ Stamped(LiveIn(b), st) /\ IsFiniteSet(LiveIn(b)) /\ LiveIn(b) \subseteq Handle
      /\ \A n \in DOMAIN list : list[n] \in Rows /\ list[n].id \in Id
  BY <1>1, LiveIs
<1>3. b.ids[id] = kNull
  BY <1>1 DEF MatchIn
<1>4. PICK h, v : h = b.free_head /\ v = b.slab[h].next
  OBVIOUS
<1>5. h \in Handle /\ h # kNull /\ h \notin LiveIn(b)
  <2>1. h \in Handle /\ h # kNull
    BY <1>1, <1>4, BookIs DEF Links
  <2>2. k # 0 /\ h = f[k] /\ k \in 1 .. k
    BY <1>1, <1>4 DEF FreeIn
  <2>3. QED
    BY <1>1, <2>1, <2>2 DEF FreeIn
<1>6. PICK L, head, tail : /\ L = PlaceIn(b, side, slot) /\ head = b.level[side][slot].head
                           /\ tail = b.level[side][slot].tail
  OBVIOUS
<1>7. /\ L \subseteq LiveIn(b) /\ L \subseteq Handle /\ h \notin L /\ Stamped(L, st)
      /\ Chain(b.slab, L, st, head, tail)
  <2>1. L \subseteq LiveIn(b)
    BY <1>6 DEF PlaceIn
  <2>2. Stamped(L, st)
    BY <1>2, <2>1, StampedSubset
  <2>3. Chain(b.slab, L, st, head, tail)
    BY <1>1, <1>6 DEF PlacesIn
  <2>4. QED
    BY <1>2, <1>5, <2>1, <2>2, <2>3
<1>8. tail # h /\ (tail = kNull <=> head = kNull) /\ tail \in L \cup {kNull}
  <2>1. kNull \notin L
    BY <1>7, Sizes
  <2>2. QED
    BY <1>5, <1>7, <2>1 DEF Chain, FirstIn, LastIn
<1>9. /\ c \in Books /\ c.free_head = v
      /\ c.ids[id] = h /\ \A d \in Id : d # id => c.ids[d] = b.ids[d]
      /\ c.slab[h] = [id |-> id, qty |-> qty, prev |-> tail, next |-> kNull, slot |-> slot,
                      side |-> side]
      /\ \A g \in Handle : g # h =>
           /\ SameBody(c.slab[g], b.slab[g])
           /\ c.slab[g].next = (IF g = tail THEN h ELSE b.slab[g].next)
           /\ c.slab[g].prev = b.slab[g].prev
      /\ \A d \in Sides, p \in Slot :
           /\ c.level[d][p].head = (IF tail = kNull /\ d = side /\ p = slot THEN h
                                    ELSE b.level[d][p].head)
           /\ c.level[d][p].tail = (IF d = side /\ p = slot THEN h ELSE b.level[d][p].tail)
           /\ c.level[d][p].qty = (IF d = side /\ p = slot THEN b.level[d][p].qty + qty
                                   ELSE b.level[d][p].qty)
      /\ \A d \in Sides : BestIn(c, d)
  <2>1. b \in Books /\ \A d \in Sides : BestIn(b, d)
    BY <1>1
  <2>2. h \in Handle /\ b.free_head = h /\ b.level[side][slot].tail = tail /\ tail # h
        /\ (tail = kNull <=> b.level[side][slot].head = kNull)
    BY <1>4, <1>5, <1>6, <1>8
  <2>3. /\ c \in Books /\ c.free_head = b.slab[h].next
        /\ c.ids[id] = h /\ \A d \in Id : d # id => c.ids[d] = b.ids[d]
        /\ c.slab[h] = [id |-> id, qty |-> qty, prev |-> tail, next |-> kNull, slot |-> slot,
                        side |-> side]
        /\ \A g \in Handle : g # h =>
             /\ SameBody(c.slab[g], b.slab[g])
             /\ c.slab[g].next = (IF g = tail THEN h ELSE b.slab[g].next)
             /\ c.slab[g].prev = b.slab[g].prev
        /\ \A d \in Sides, p \in Slot :
             /\ c.level[d][p].head = (IF tail = kNull /\ d = side /\ p = slot THEN h
                                      ELSE b.level[d][p].head)
             /\ c.level[d][p].tail = (IF d = side /\ p = slot THEN h ELSE b.level[d][p].tail)
             /\ c.level[d][p].qty = (IF d = side /\ p = slot THEN b.level[d][p].qty + qty
                                     ELSE b.level[d][p].qty)
        /\ \A d \in Sides : BestIn(c, d)
    BY ONLY <2>1, <2>2, AddedIs, id \in Id, side \in Sides, slot \in Slot, qty \in Nat,
            c = Added(b, id, side, slot, qty)
  <2>4. QED
    BY <1>4, <2>3
<1>10. LiveIn(c) = LiveIn(b) \cup {h}
  <2>1. ASSUME NEW g \in Handle PROVE g \in LiveIn(c) <=> g \in LiveIn(b) \/ g = h
    <3>1. ASSUME NEW d \in Id, b.ids[d] = g PROVE c.ids[d] = g
      <4>1. d # id
        BY <1>3, <3>1, Sizes
      <4>2. QED
        BY <1>9, <3>1, <4>1
    <3>2. ASSUME NEW d \in Id, c.ids[d] = g PROVE g = h \/ b.ids[d] = g
      BY <1>9, <3>2
    <3>3. QED
      BY <1>9, <3>1, <3>2 DEF LiveIn
  <2>2. LiveIn(c) \subseteq Handle /\ LiveIn(b) \cup {h} \subseteq Handle
    BY <1>2, <1>5 DEF LiveIn
  <2>3. QED
    BY <2>1, <2>2
<1>11. c.slab[h].side = side /\ c.slab[h].slot = slot /\ c.slab[h].qty = qty /\ c.slab[h].id = id
       /\ c.slab[h].prev = tail /\ c.slab[h].next = kNull
  BY <1>9
<1>12. ASSUME NEW d \in Sides, NEW p \in Slot
       PROVE  PlaceIn(c, d, p) = IF d = side /\ p = slot THEN L \cup {h} ELSE PlaceIn(b, d, p)
  <2>1. \A g \in LiveIn(b) : g \in PlaceIn(c, d, p) <=> g \in PlaceIn(b, d, p)
    BY <1>2, <1>5, <1>9, <1>10 DEF PlaceIn, SameBody
  <2>2. h \in PlaceIn(c, d, p) <=> d = side /\ p = slot
    BY <1>10, <1>11 DEF PlaceIn
  <2>3. PlaceIn(c, d, p) \subseteq LiveIn(b) \cup {h} /\ PlaceIn(b, d, p) \subseteq LiveIn(b)
    BY <1>10 DEF PlaceIn
  <2>4. CASE d = side /\ p = slot
    <3>1. L = PlaceIn(b, d, p)
      BY <1>6, <2>4
    <3>2. QED
      BY <1>5, <2>1, <2>2, <2>3, <2>4, <3>1
  <2>5. CASE ~(d = side /\ p = slot)
    <3>1. PICK A, B : A = PlaceIn(c, d, p) /\ B = PlaceIn(b, d, p)
      OBVIOUS
    <3>2. A \subseteq LiveIn(b) \cup {h} /\ B \subseteq LiveIn(b) /\ h \notin A
          /\ \A g \in LiveIn(b) : g \in A <=> g \in B
      BY <2>1, <2>2, <2>3, <2>5, <3>1
    <3>3. A = B
      BY <3>2
    <3>4. QED
      BY <2>5, <3>1, <3>3
  <2>6. QED
    BY <2>4, <2>5
<1>13. PICK u : u = [st EXCEPT ![h] = N]
  OBVIOUS
<1>14. /\ st \in [Handle -> Nat] /\ N \in Nat /\ \A g \in LiveIn(b) : st[g] < N
  BY <1>1 DEF StampsIn
<1>15. u \in [Handle -> Nat] /\ u[h] = N /\ \A g \in LiveIn(b) : u[g] = st[g] /\ st[g] < u[h]
  BY <1>2, <1>5, <1>13, <1>14
<1>16. StampsIn(c, u, N + 1)
  <2>1. \A g \in LiveIn(b) : u[g] \in Nat /\ u[g] < N
    BY <1>2, <1>14, <1>15
  <2>2. \A g \in LiveIn(c) : u[g] < N + 1
    BY <1>10, <1>14, <1>15, <2>1
  <2>3. QED
    BY <1>14, <1>15, <2>2 DEF StampsIn
<1>17. Chain(c.slab, L \cup {h}, u, IF tail = kNull THEN h ELSE head, h)
  <2>1. PICK slab, z : slab = b.slab /\ z = c.slab
    OBVIOUS
  <2>2. z[h].prev = tail /\ z[h].next = kNull
    BY <1>11, <2>1
  <2>3. \A g \in L : z[g].next = (IF g = tail THEN h ELSE slab[g].next) /\ z[g].prev = slab[g].prev
    BY <1>7, <1>9, <2>1
  <2>4. u[h] \in Int /\ \A g \in L : u[g] = st[g] /\ st[g] < u[h]
    BY <1>7, <1>14, <1>15
  <2>5. Stamped(L, st) /\ Chain(slab, L, st, head, tail) /\ h \in Handle /\ h \notin L
    BY <1>5, <1>7, <2>1
  <2>6. Chain(z, L \cup {h}, u, IF tail = kNull THEN h ELSE head, h)
    <3>1. Behind(slab, L, st, tail, h, z, u)
      BY <2>2, <2>3, <2>4, <2>5 DEF Behind
    <3>2. QED
      BY ONLY <2>5, <3>1, ChainAppended
  <2>7. QED
    BY <2>1, <2>6
<1>18. ASSUME NEW S, S \subseteq LiveIn(b)
       PROVE  Total(QtysOf(c), S) = Total(QtysOf(b), S) /\ IsFiniteSet(S)
  <2>1. IsFiniteSet(S)
    BY <1>2, <1>18, FS_Subset
  <2>2. \A g \in S : QtysOf(c)[g] = QtysOf(b)[g]
    BY <1>2, <1>5, <1>9, <1>18 DEF QtysOf, SameBody
  <2>3. QED
    BY <2>1, <2>2, TotalsAgree
<1>19. Total(QtysOf(c), L \cup {h}) = b.level[side][slot].qty + qty
  <2>1. IsFiniteSet(L) /\ Total(QtysOf(c), L) = Total(QtysOf(b), L)
    BY <1>7, <1>18
  <2>2. \A g \in Handle : QtysOf(c)[g] \in Int
    <3>1. \A g \in Handle : c.slab[g] \in OrderRecs
      BY <1>9, BookIs
    <3>2. \A g \in Handle : c.slab[g].qty \in Nat
      BY <3>1, OrderIs
    <3>3. QED
      BY <3>2 DEF QtysOf
  <2>3. \A g \in L : QtysOf(c)[g] \in Int
    BY <1>7, <2>2
  <2>4. Total(QtysOf(c), L) \in Int
    BY <2>1, <2>3, TotalInt
  <2>5. QtysOf(c)[h] = qty
    BY <1>5, <1>11 DEF QtysOf
  <2>6. Total(QtysOf(c), L \cup {h}) = QtysOf(c)[h] + Total(QtysOf(c), L)
    <3>1. QtysOf(c)[h] \in Int
      BY <2>5
    <3>2. PICK g : g = QtysOf(c)
      OBVIOUS
    <3>3. QED
      BY <1>7, <2>1, <2>3, <3>1, <3>2, TotalWith
  <2>7. b.level[side][slot].qty = Total(QtysOf(b), L)
    BY <1>1, <1>6 DEF PlacesIn
  <2>8. QED
    BY <2>1, <2>4, <2>5, <2>6, <2>7
<1>20. PlacesIn(c, u)
  <2>1. SUFFICES ASSUME NEW d \in Sides, NEW p \in Slot
                 PROVE  /\ Chain(c.slab, PlaceIn(c, d, p), u, c.level[d][p].head, c.level[d][p].tail)
                        /\ c.level[d][p].qty = Total(QtysOf(c), PlaceIn(c, d, p))
    BY DEF PlacesIn
  <2>2. CASE d = side /\ p = slot
    <3>1. PlaceIn(c, d, p) = L \cup {h}
      BY <1>12, <2>2
    <3>2. /\ c.level[d][p].head = (IF tail = kNull THEN h ELSE head)
          /\ c.level[d][p].tail = h /\ c.level[d][p].qty = b.level[side][slot].qty + qty
      BY <1>6, <1>9, <2>2
    <3>3. QED
      BY <1>17, <1>19, <3>1, <3>2
  <2>3. CASE ~(d = side /\ p = slot)
    <3>1. PICK S, slab, z, w, o : /\ S = PlaceIn(b, d, p) /\ slab = b.slab /\ z = c.slab
                                  /\ w = b.level[d][p].head /\ o = b.level[d][p].tail
      OBVIOUS
    <3>2. PlaceIn(c, d, p) = S /\ c.level[d][p].head = w /\ c.level[d][p].tail = o
          /\ c.level[d][p].qty = b.level[d][p].qty
      BY <1>9, <1>12, <2>3, <3>1
    <3>3. S \subseteq LiveIn(b) /\ \A g \in S : g \notin L /\ g \in Handle /\ g # h
      BY <1>2, <1>5, <1>6, <2>3, <3>1 DEF PlaceIn
    <3>4. Chain(slab, S, st, w, o) /\ b.level[d][p].qty = Total(QtysOf(b), S)
      BY <1>1, <3>1 DEF PlacesIn
    <3>5. \A g \in S : g # tail
      BY <1>8, <3>3, Sizes
    <3>6. \A g \in S : z[g].next = slab[g].next /\ z[g].prev = slab[g].prev
      BY <1>9, <3>1, <3>3, <3>5
    <3>7. \A g \in S : u[g] = st[g]
      BY <1>15, <3>3
    <3>8. Chain(z, S, u, w, o)
      BY <3>4, <3>6, <3>7, ChainKept
    <3>9. Total(QtysOf(c), S) = Total(QtysOf(b), S)
      BY <1>18, <3>3
    <3>10. QED
      BY <3>1, <3>2, <3>4, <3>8, <3>9
  <2>4. QED
    BY <2>2, <2>3
<1>21. list \in Seq(Rows) /\ DOMAIN list = 1 .. Len(list) /\ Len(list) \in Nat
  BY <1>1 DEF MatchIn
<1>22. PICK r, n : r = Resting(id, side, px, qty) /\ n = Len(list)
  OBVIOUS
<1>23. r \in Rows /\ r.id = id /\ r.side = side /\ r.slot = slot /\ r.qty = qty
  BY <1>22 DEF Resting, Rows
<1>24. /\ rest \in Seq(Rows) /\ n \in Nat /\ DOMAIN rest = 1 .. n + 1 /\ rest[n + 1] = r
       /\ DOMAIN list = 1 .. n /\ \A m \in 1 .. n : rest[m] = list[m]
  <2>1. rest = Append(list, r)
    BY <1>22
  <2>2. QED
    BY <1>21, <1>22, <1>23, <2>1
<1>25. n + 1 \in 1 .. n + 1 /\ \A m \in 1 .. n : m \in 1 .. n + 1 /\ m < n + 1
  BY <1>24
<1>26. \A m \in 1 .. n + 1 : m = n + 1 \/ m \in 1 .. n
  BY <1>24
<1>27. ASSUME NEW m \in 1 .. n
       PROVE  /\ c.ids[rest[m].id] = b.ids[list[m].id] /\ c.ids[rest[m].id] \in LiveIn(b)
              /\ SameBody(c.slab[c.ids[rest[m].id]], rest[m])
  <2>1. PICK w : w = list[m]
    OBVIOUS
  <2>2. w.id \in Id /\ w.id # id /\ rest[m] = w
    BY <1>2, <1>24, <2>1
  <2>3. b.ids[w.id] # kNull /\ SameBody(b.slab[b.ids[w.id]], w)
    BY <1>1, <1>24, <2>1 DEF MatchIn
  <2>4. b.ids[w.id] \in LiveIn(b) /\ b.ids[w.id] \in Handle /\ c.ids[w.id] = b.ids[w.id]
    BY <1>2, <1>9, <2>2, <2>3
  <2>5. SameBody(c.slab[b.ids[w.id]], b.slab[b.ids[w.id]])
    BY <1>5, <1>9, <2>4
  <2>6. SameBody(c.slab[b.ids[w.id]], w)
    BY <2>3, <2>5 DEF SameBody
  <2>7. QED
    BY <2>1, <2>2, <2>4, <2>6
<1>28. c.ids[rest[n + 1].id] = h /\ SameBody(c.slab[h], rest[n + 1])
  BY <1>9, <1>11, <1>23, <1>24 DEF SameBody
<1>29. MatchIn(c, rest, u)
  <2>1. ASSUME NEW d \in Id, c.ids[d] # kNull PROVE \E m \in DOMAIN rest : rest[m].id = d
    <3>1. CASE d = id
      BY <1>23, <1>24, <1>25, <3>1
    <3>2. CASE d # id
      <4>1. b.ids[d] # kNull
        BY <1>9, <2>1, <3>2
      <4>2. PICK m \in DOMAIN list : list[m].id = d
        BY <1>1, <4>1 DEF MatchIn
      <4>3. QED
        BY <1>24, <1>25, <4>2
    <3>3. QED
      BY <3>1, <3>2
  <2>2. ASSUME NEW m \in DOMAIN rest
        PROVE  c.ids[rest[m].id] # kNull /\ SameBody(c.slab[c.ids[rest[m].id]], rest[m])
    <3>1. CASE m = n + 1
      BY <1>5, <1>28, <3>1
    <3>2. CASE m \in 1 .. n
      <4>1. kNull \notin LiveIn(b)
        BY <1>2, Sizes
      <4>2. QED
        BY <1>27, <3>2, <4>1
    <3>3. QED
      BY <1>24, <1>26, <3>1, <3>2
  <2>3. ASSUME NEW m \in DOMAIN rest, NEW o \in DOMAIN rest, m < o
        PROVE  u[c.ids[rest[m].id]] < u[c.ids[rest[o].id]]
    <3>1. m \in 1 .. n
      BY <1>24, <1>26, <2>3
    <3>2. c.ids[rest[m].id] = b.ids[list[m].id] /\ b.ids[list[m].id] \in LiveIn(b)
      BY <1>27, <3>1
    <3>3. CASE o = n + 1
      <4>1. c.ids[rest[o].id] = h
        BY <1>28, <3>3
      <4>2. QED
        BY <1>15, <3>2, <4>1
    <3>4. CASE o \in 1 .. n
      <4>1. c.ids[rest[o].id] = b.ids[list[o].id] /\ b.ids[list[o].id] \in LiveIn(b)
        BY <1>27, <3>4
      <4>2. st[b.ids[list[m].id]] < st[b.ids[list[o].id]]
        BY <1>1, <1>24, <2>3, <3>1, <3>4 DEF MatchIn
      <4>3. QED
        BY <1>15, <3>2, <4>1, <4>2
    <3>5. QED
      BY <1>24, <1>26, <3>3, <3>4
  <2>4. QED
    BY <1>24, <2>1, <2>2, <2>3 DEF MatchIn
<1>30. \E z : FreeIn(c, z, k - 1)
  <2>1. c.free_head = b.slab[h].next
    BY <1>4, <1>9
  <2>2. \A g \in Handle : g \notin LiveIn(c) => c.slab[g].next = b.slab[g].next
    <3>1. ASSUME NEW g \in Handle, g \notin LiveIn(c) PROVE c.slab[g].next = b.slab[g].next
      <4>1. g # h /\ g # tail
        BY <1>7, <1>8, <1>10, <3>1, Sizes
      <4>2. QED
        BY <1>9, <4>1
    <3>2. QED
      BY <3>1
  <2>3. FreeIn(b, f, k) /\ h \in Handle /\ b.free_head = h
    BY <1>1, <1>4, <1>5
  <2>4. QED
    BY ONLY <1>10, <2>1, <2>2, <2>3, FreePopped
<1>31. PICK z : FreeIn(c, z, k - 1)
  BY <1>30
<1>32. LadderIn(c, rest, u, N + 1, z, k - 1)
  BY <1>9, <1>16, <1>20, <1>29, <1>31 DEF LadderIn
<1>33. QED
  BY <1>32

(* What the places of the list say of the handles. *)
LEMMA OldestIs ==
  ASSUME NEW S, S \subseteq Nat, NEW v,
         IF v = kNull THEN S = {} ELSE \E n \in S : v = HandleOf(n) /\ \A m \in S : n <= m
  PROVE  v = OldestOf(S)
<1>1. CASE v = kNull
  BY <1>1 DEF OldestOf
<1>2. CASE v # kNull
  <2>1. PICK n \in S : v = HandleOf(n) /\ \A m \in S : n <= m
    BY <1>2
  <2>2. Min(S) \in S /\ \A m \in S : Min(S) <= m
    BY <2>1, MinNat
  <2>3. Min(S) = n
    <3>1. Min(S) \in Nat /\ n \in Nat /\ Min(S) <= n /\ n <= Min(S)
      BY <2>1, <2>2
    <3>2. QED
      BY <3>1
  <2>4. QED
    BY <2>1, <2>3 DEF OldestOf
<1>3. QED
  BY <1>1, <1>2

LEMMA NewestIn ==
  ASSUME NEW k \in Nat, NEW S, S \subseteq 0 .. k, NEW v,
         IF v = kNull THEN S = {} ELSE \E n \in S : v = HandleOf(n) /\ \A m \in S : m <= n
  PROVE  v = NewestOf(S)
<1>1. CASE v = kNull
  BY <1>1 DEF NewestOf
<1>2. CASE v # kNull
  <2>1. PICK n \in S : v = HandleOf(n) /\ \A m \in S : m <= n
    BY <1>2
  <2>2. Max(S) \in S /\ \A m \in S : Max(S) >= m
    BY <2>1, MaxBounded
  <2>3. Max(S) = n
    <3>1. PICK t : t = Max(S)
      OBVIOUS
    <3>2. t \in S /\ t <= n /\ t >= n
      BY <2>1, <2>2, <3>1
    <3>3. t \in Nat /\ n \in Nat
      BY <3>2
    <3>4. t = n
      BY <3>2, <3>3
    <3>5. QED
      BY <3>1, <3>4
  <2>4. QED
    BY <2>1, <2>3 DEF NewestOf
<1>3. QED
  BY <1>1, <1>2

LadderInv == \E st, N, f, k : LadderIn(book, orders, st, N, f, k)

LEMMA PlacesMatch ==
  ASSUME NEW st, NEW N, NEW f, NEW k, LadderIn(book, orders, st, N, f, k)
  PROVE  /\ DOMAIN orders = 1 .. Len(orders) /\ Len(orders) \in Nat
         /\ \A n \in DOMAIN orders : /\ HandleOf(n) \in LiveIn(book) /\ HandleOf(n) \in Handle
                                     /\ HandleOf(n) # kNull /\ orders[n] \in Rows
                                     /\ SameBody(book.slab[HandleOf(n)], orders[n])
         /\ \A m, n \in DOMAIN orders : /\ HandleOf(m) = HandleOf(n) => m = n
                                        /\ st[HandleOf(m)] <= st[HandleOf(n)] <=> m <= n
                                        /\ st[HandleOf(m)] < st[HandleOf(n)] <=> m < n
         /\ \A side, slot : PlaceIn(book, side, slot) = {HandleOf(n) : n \in At(side, slot)}
<1>1. book \in Books /\ MatchIn(book, orders, st) /\ StampsIn(book, st, N)
  BY DEF LadderIn
<1>2. /\ \A id \in Id : book.ids[id] # kNull =>
              book.ids[id] \in Handle /\ book.ids[id] \in LiveIn(book) /\ book.slab[book.ids[id]].id = id
      /\ Stamped(LiveIn(book), st)
      /\ \A n \in DOMAIN orders : orders[n] \in Rows /\ orders[n].id \in Id
      /\ \A h \in LiveIn(book) : \E n \in DOMAIN orders :
           book.ids[orders[n].id] = h /\ SameBody(book.slab[h], orders[n])
  BY <1>1, LiveIs
<1>3. orders \in Seq(Rows) /\ DOMAIN orders = 1 .. Len(orders) /\ Len(orders) \in Nat
  BY <1>1 DEF MatchIn
<1>4. ASSUME NEW n \in DOMAIN orders
      PROVE  /\ HandleOf(n) \in LiveIn(book) /\ HandleOf(n) \in Handle /\ HandleOf(n) # kNull
             /\ orders[n] \in Rows /\ SameBody(book.slab[HandleOf(n)], orders[n])
  <2>1. book.ids[orders[n].id] # kNull /\ SameBody(book.slab[book.ids[orders[n].id]], orders[n])
    BY <1>1 DEF MatchIn
  <2>2. QED
    BY <1>2, <2>1 DEF HandleOf
<1>5. \A m, n \in DOMAIN orders : m < n => st[HandleOf(m)] < st[HandleOf(n)]
  BY <1>1 DEF MatchIn, HandleOf
<1>6. ASSUME NEW m \in DOMAIN orders, NEW n \in DOMAIN orders
      PROVE  /\ HandleOf(m) = HandleOf(n) => m = n
             /\ st[HandleOf(m)] <= st[HandleOf(n)] <=> m <= n
             /\ st[HandleOf(m)] < st[HandleOf(n)] <=> m < n
  <2>1. PICK a, c : a = st[HandleOf(m)] /\ c = st[HandleOf(n)]
    OBVIOUS
  <2>2. a \in Int /\ c \in Int
    BY <1>2, <1>4, <2>1 DEF Stamped
  <2>3. m \in Nat /\ n \in Nat
    BY <1>3
  <2>4. (m < n => a < c) /\ (n < m => c < a) /\ (m = n => a = c)
    BY <1>5, <2>1
  <2>5. HandleOf(m) = HandleOf(n) => a = c
    BY <2>1
  <2>6. (a = c => m = n) /\ (a <= c <=> m <= n) /\ (a < c <=> m < n)
    BY <2>2, <2>3, <2>4
  <2>7. QED
    BY <2>1, <2>5, <2>6
<1>7. ASSUME NEW side, NEW slot PROVE PlaceIn(book, side, slot) = {HandleOf(n) : n \in At(side, slot)}
  <2>1. ASSUME NEW h \in PlaceIn(book, side, slot) PROVE \E n \in At(side, slot) : HandleOf(n) = h
    <3>1. h \in LiveIn(book) /\ book.slab[h].side = side /\ book.slab[h].slot = slot
      BY DEF PlaceIn
    <3>2. PICK n \in DOMAIN orders : HandleOf(n) = h /\ SameBody(book.slab[h], orders[n])
      BY <1>2, <3>1 DEF HandleOf
    <3>3. orders[n].side = side /\ orders[n].slot = slot
      BY <3>1, <3>2 DEF SameBody
    <3>4. QED
      BY <3>2, <3>3 DEF At
  <2>2. ASSUME NEW n \in At(side, slot) PROVE HandleOf(n) \in PlaceIn(book, side, slot)
    <3>1. n \in DOMAIN orders /\ orders[n].side = side /\ orders[n].slot = slot
      BY DEF At
    <3>2. QED
      BY <1>4, <3>1 DEF PlaceIn, SameBody
  <2>3. QED
    BY <2>1, <2>2
<1>8. QED
  BY <1>3, <1>4, <1>6, <1>7

LEMMA LinkedThen ==
  ASSUME NEW st, NEW N, NEW f, NEW k, LadderIn(book, orders, st, N, f, k),
         NEW side \in Sides, NEW slot \in Slot
  PROVE  Linked(side, slot)
<1>1. PICK L, S, head, tail, a :
        /\ L = PlaceIn(book, side, slot) /\ S = At(side, slot) /\ a = Len(orders)
        /\ head = book.level[side][slot].head /\ tail = book.level[side][slot].tail
  OBVIOUS
<1>2. /\ DOMAIN orders = 1 .. a /\ a \in Nat
      /\ \A n \in DOMAIN orders : /\ HandleOf(n) \in LiveIn(book) /\ HandleOf(n) \in Handle
                                  /\ HandleOf(n) # kNull
                                  /\ SameBody(book.slab[HandleOf(n)], orders[n])
      /\ \A m, n \in DOMAIN orders : /\ HandleOf(m) = HandleOf(n) => m = n
                                     /\ st[HandleOf(m)] <= st[HandleOf(n)] <=> m <= n
                                     /\ st[HandleOf(m)] < st[HandleOf(n)] <=> m < n
      /\ L = {HandleOf(n) : n \in S}
  BY <1>1, PlacesMatch
<1>3. Chain(book.slab, L, st, head, tail)
  BY <1>1 DEF LadderIn, PlacesIn
<1>4. S \subseteq DOMAIN orders /\ S \subseteq Nat /\ S \subseteq 0 .. a
  BY <1>1, <1>2 DEF At
<1>5. \A n \in S : HandleOf(n) \in L /\ HandleOf(n) # kNull
  BY <1>2, <1>4
<1>6. head = OldestOf(S)
  <2>1. IF head = kNull THEN S = {} ELSE \E n \in S : head = HandleOf(n) /\ \A m \in S : n <= m
    <3>1. CASE head = kNull
      <4>1. L = {}
        BY <1>3, <3>1 DEF Chain, FirstIn
      <4>2. QED
        BY <1>5, <3>1, <4>1
    <3>2. CASE head # kNull
      <4>1. head \in L /\ \A g \in L : st[head] <= st[g]
        BY <1>3, <3>2 DEF Chain, FirstIn
      <4>2. PICK n \in S : head = HandleOf(n)
        BY <1>2, <4>1
      <4>3. \A m \in S : n <= m
        BY <1>2, <1>4, <1>5, <4>1, <4>2
      <4>4. QED
        BY <3>2, <4>2, <4>3
    <3>3. QED
      BY <3>1, <3>2
  <2>2. QED
    BY <1>4, <2>1, OldestIs
<1>7. tail = NewestOf(S)
  <2>1. IF tail = kNull THEN S = {} ELSE \E n \in S : tail = HandleOf(n) /\ \A m \in S : m <= n
    <3>1. CASE tail = kNull
      <4>1. L = {}
        BY <1>3, <3>1 DEF Chain, LastIn
      <4>2. QED
        BY <1>5, <3>1, <4>1
    <3>2. CASE tail # kNull
      <4>1. tail \in L /\ \A g \in L : st[g] <= st[tail]
        BY <1>3, <3>2 DEF Chain, LastIn
      <4>2. PICK n \in S : tail = HandleOf(n)
        BY <1>2, <4>1
      <4>3. \A m \in S : m <= n
        BY <1>2, <1>4, <1>5, <4>1, <4>2
      <4>4. QED
        BY <3>2, <4>2, <4>3
    <3>3. QED
      BY <3>1, <3>2
  <2>2. QED
    BY <1>2, <1>4, <2>1, NewestIn
<1>8. ASSUME NEW n \in S
      PROVE  LET o == book.slab[HandleOf(n)]
             IN /\ o.id = orders[n].id /\ o.qty = orders[n].qty
                /\ o.next = OldestOf({m \in S : m > n}) /\ o.prev = NewestOf({m \in S : m < n})
  <2>1. PICK h, v, w : h = HandleOf(n) /\ v = book.slab[h].next /\ w = book.slab[h].prev
    OBVIOUS
  <2>2. NextIn(L, st, h, v) /\ PrevIn(L, st, h, w)
    BY <1>3, <1>5, <2>1 DEF Chain
  <2>3. n \in DOMAIN orders /\ n \in Nat
    BY <1>4
  <2>4. book.slab[h].id = orders[n].id /\ book.slab[h].qty = orders[n].qty
    BY <1>2, <2>1, <2>3 DEF SameBody
  <2>5. PICK A, B : A = {m \in S : m > n} /\ B = {m \in S : m < n}
    OBVIOUS
  <2>6. A \subseteq Nat /\ B \subseteq 0 .. a
    BY <1>4, <2>5
  <2>7. v = OldestOf(A)
    <3>1. CASE v = kNull
      <4>1. \A m \in S : st[HandleOf(m)] <= st[h]
        BY <1>5, <2>2, <3>1 DEF NextIn
      <4>2. \A m \in S : m <= n
        BY <1>2, <1>4, <2>1, <2>3, <4>1
      <4>3. A = {}
        BY <1>4, <2>3, <2>5, <4>2
      <4>4. QED
        BY <2>6, <3>1, <4>3, OldestIs
    <3>2. CASE v # kNull
      <4>1. v \in L /\ st[h] < st[v] /\ \A g \in L : st[g] <= st[h] \/ st[v] <= st[g]
        BY <2>2, <3>2 DEF NextIn
      <4>2. PICK p \in S : v = HandleOf(p)
        BY <1>2, <4>1
      <4>3. n < p
        BY <1>2, <1>4, <2>1, <2>3, <4>1, <4>2
      <4>4. \A m \in S : m <= n \/ p <= m
        BY <1>2, <1>4, <1>5, <2>1, <2>3, <4>1, <4>2
      <4>5. p \in A /\ \A m \in A : p <= m
        BY <1>4, <2>3, <2>5, <4>3, <4>4
      <4>6. QED
        BY <2>6, <3>2, <4>2, <4>5, OldestIs
    <3>3. QED
      BY <3>1, <3>2
  <2>8. w = NewestOf(B)
    <3>1. CASE w = kNull
      <4>1. \A m \in S : st[h] <= st[HandleOf(m)]
        BY <1>5, <2>2, <3>1 DEF PrevIn
      <4>2. \A m \in S : n <= m
        BY <1>2, <1>4, <2>1, <2>3, <4>1
      <4>3. B = {}
        BY <1>4, <2>3, <2>5, <4>2
      <4>4. QED
        BY <1>2, <2>6, <3>1, <4>3, NewestIn
    <3>2. CASE w # kNull
      <4>1. w \in L /\ st[w] < st[h] /\ \A g \in L : st[g] <= st[w] \/ st[h] <= st[g]
        BY <2>2, <3>2 DEF PrevIn
      <4>2. PICK p \in S : w = HandleOf(p)
        BY <1>2, <4>1
      <4>3. p < n
        BY <1>2, <1>4, <2>1, <2>3, <4>1, <4>2
      <4>4. \A m \in S : m <= p \/ n <= m
        BY <1>2, <1>4, <1>5, <2>1, <2>3, <4>1, <4>2
      <4>5. p \in B /\ \A m \in B : m <= p
        BY <1>4, <2>3, <2>5, <4>3, <4>4
      <4>6. QED
        BY <1>2, <2>6, <3>2, <4>2, <4>5, NewestIn
    <3>3. QED
      BY <3>1, <3>2
  <2>9. QED
    BY <2>1, <2>4, <2>5, <2>7, <2>8
<1>9. QED
  BY <1>1, <1>6, <1>7, <1>8 DEF Linked

LEMMA AgreesThen ==
  ASSUME NEW st, NEW N, NEW f, NEW k, LadderIn(book, orders, st, N, f, k)
  PROVE  AgreesWithReference
<1>1. /\ book \in Books /\ (\A side \in Sides : BestIn(book, side)) /\ PlacesIn(book, st)
      /\ MatchIn(book, orders, st)
  BY DEF LadderIn
<1>2. /\ DOMAIN orders = 1 .. Len(orders) /\ Len(orders) \in Nat
      /\ \A n \in DOMAIN orders : /\ HandleOf(n) \in LiveIn(book) /\ HandleOf(n) \in Handle
                                  /\ HandleOf(n) # kNull /\ orders[n] \in Rows
                                  /\ SameBody(book.slab[HandleOf(n)], orders[n])
      /\ \A m, n \in DOMAIN orders : HandleOf(m) = HandleOf(n) => m = n
      /\ \A side, slot : PlaceIn(book, side, slot) = {HandleOf(n) : n \in At(side, slot)}
  BY PlacesMatch
<1>3. ASSUME NEW side \in Sides PROVE book.best[side] = Best(side)
  <2>1. PICK S, Mine : Mine = {m \in DOMAIN orders : orders[m].side = side}
                       /\ S = {orders[n].slot : n \in Mine}
    OBVIOUS
  <2>2. S \subseteq Slot
    <3>1. \A r \in Rows : r.slot \in Slot
      BY DEF Rows
    <3>2. QED
      BY <1>2, <2>1, <3>1
  <2>3. ASSUME NEW p \in Slot PROVE p \in HeldIn(book, side) <=> p \in S
    <3>1. FirstIn(PlaceIn(book, side, p), st, book.level[side][p].head)
      BY <1>1 DEF PlacesIn, Chain
    <3>2. book.level[side][p].head # kNull <=> PlaceIn(book, side, p) # {}
      BY <3>1 DEF FirstIn
    <3>3. PlaceIn(book, side, p) # {} <=> At(side, p) # {}
      BY <1>2
    <3>4. At(side, p) # {} <=> p \in S
      BY <2>1 DEF At
    <3>5. QED
      BY <3>2, <3>3, <3>4 DEF HeldIn
  <2>4. HeldIn(book, side) = S
    <3>1. HeldIn(book, side) \subseteq Slot
      BY DEF HeldIn
    <3>2. QED
      BY <2>2, <2>3, <3>1
  <2>5. BestIs(side, S, book.best[side])
    BY <1>1, <2>4 DEF BestIn
  <2>6. Best(side) = IF side = "Buy" THEN Max(S \cup {-1}) ELSE Min(S \cup {kLevels})
    BY <2>1 DEF Best
  <2>7. PICK v : v = IF side = "Buy" THEN Max(S \cup {-1}) ELSE Min(S \cup {kLevels})
    OBVIOUS
  <2>8. BestIs(side, S, v)
    BY <2>2, <2>7, BestExists
  <2>9. v = book.best[side]
    BY <2>2, <2>5, <2>8, BestExists
  <2>10. QED
    BY <2>6, <2>7, <2>9
<1>4. ASSUME NEW side \in Sides, NEW slot \in Slot
      PROVE  book.level[side][slot].qty = MapThenSumSet(LAMBDA n : orders[n].qty, At(side, slot))
  <2>1. PICK S, w, H, z : /\ S = At(side, slot) /\ w = [n \in S |-> orders[n].qty]
                          /\ H = [n \in S |-> HandleOf(n)] /\ z = QtysOf(book)
    OBVIOUS
  <2>2. S \subseteq DOMAIN orders /\ IsFiniteSet(S)
    <3>1. S \subseteq DOMAIN orders
      BY <2>1 DEF At
    <3>2. IsFiniteSet(1 .. Len(orders))
      BY <1>2, FS_Interval
    <3>3. QED
      BY <1>2, <3>1, <3>2, FS_Subset
  <2>3. \A n \in S : w[n] = orders[n].qty /\ H[n] = HandleOf(n)
    BY <2>1
  <2>4. MapThenSumSet(LAMBDA n : orders[n].qty, S) = Total(w, S)
    BY <2>2, <2>3, SumOfQuantities
  <2>5. PlaceIn(book, side, slot) = {H[n] : n \in S}
    BY <1>2, <2>1, <2>3
  <2>6. \A n \in S : w[n] \in Int /\ z[H[n]] = w[n]
    <3>1. \A r \in Rows : r.qty \in Nat
      BY DEF Rows
    <3>2. \A h \in Handle : z[h] = book.slab[h].qty
      BY <2>1 DEF QtysOf
    <3>3. SUFFICES ASSUME NEW n \in S PROVE w[n] \in Int /\ z[H[n]] = w[n]
      OBVIOUS
    <3>4. n \in DOMAIN orders /\ w[n] = orders[n].qty /\ H[n] = HandleOf(n)
      BY <2>2, <2>3
    <3>5. orders[n] \in Rows /\ HandleOf(n) \in Handle /\ SameBody(book.slab[HandleOf(n)], orders[n])
      BY <1>2, <3>4
    <3>6. QED
      BY <3>1, <3>2, <3>4, <3>5 DEF SameBody
  <2>7. \A m, n \in S : H[m] = H[n] => m = n
    BY <1>2, <2>2, <2>3
  <2>8. Total(z, {H[n] : n \in S}) = Total(w, S)
    BY <2>2, <2>6, <2>7, TotalReindexed
  <2>9. book.level[side][slot].qty = Total(z, PlaceIn(book, side, slot))
    BY <1>1, <2>1 DEF PlacesIn
  <2>10. QED
    BY <2>1, <2>4, <2>5, <2>8, <2>9
<1>5. \A id \in Id : book.ids[id] # kNull <=> id \in Ids(orders)
  BY <1>1 DEF MatchIn, Ids
<1>6. QED
  BY <1>3, <1>4, <1>5 DEF AgreesWithReference, Sides

(* The only place of an id in a list. *)
OnlyAt(list, id, gone) ==
  /\ list \in Seq(Rows) /\ gone \in DOMAIN list /\ list[gone].id = id
  /\ \A n \in DOMAIN list : list[n].id = id => n = gone

(* The order of an id: where it is in the list, and what the list says of it. *)
LEMMA FoundIs ==
  ASSUME NEW b, NEW list, NEW st, NEW N, NEW f, NEW k, LadderIn(b, list, st, N, f, k),
         NEW id \in Id, b.ids[id] # kNull
  PROVE  /\ b.ids[id] \in Handle /\ b.slab[b.ids[id]].side \in Sides
         /\ b.slab[b.ids[id]].qty \in Nat
         /\ QtyOf(list, id) = b.slab[b.ids[id]].qty /\ SideOf(list, id) = b.slab[b.ids[id]].side
         /\ \E gone : OnlyAt(list, id, gone)
<1>1. b \in Books /\ MatchIn(b, list, st) /\ StampsIn(b, st, N)
  BY DEF LadderIn
<1>2. /\ b.ids[id] \in Handle
      /\ \A m, n \in DOMAIN list : list[m].id = list[n].id => m = n
  BY <1>1, LiveIs
<1>3. list \in Seq(Rows)
  BY <1>1 DEF MatchIn
<1>4. PICK gone \in DOMAIN list : list[gone].id = id
  BY <1>1 DEF MatchIn
<1>5. \A n \in DOMAIN list : list[n].id = id => n = gone
  BY <1>2, <1>4
<1>6. (CHOOSE n \in DOMAIN list : list[n].id = id) = gone
  BY <1>4, <1>5
<1>7. QtyOf(list, id) = list[gone].qty /\ SideOf(list, id) = list[gone].side
  BY <1>6 DEF QtyOf, SideOf
<1>8. SameBody(b.slab[b.ids[id]], list[gone])
  BY <1>1, <1>4 DEF MatchIn
<1>9. b.slab[b.ids[id]] \in OrderRecs
  BY <1>1, <1>2, BookIs
<1>10. b.slab[b.ids[id]].side \in Sides /\ b.slab[b.ids[id]].qty \in Nat
  BY <1>9, OrderIs
<1>11. QED
  BY <1>2, <1>3, <1>4, <1>5, <1>7, <1>8, <1>10 DEF SameBody, OnlyAt

LEMMA WithoutHas ==
  ASSUME NEW list, NEW id, NEW gone, OnlyAt(list, id, gone), NEW rest, rest = Without(list, id)
  PROVE  \A n \in DOMAIN rest : rest[n].id # id /\ \E m \in DOMAIN list : rest[n] = list[m]
<1> SUFFICES ASSUME list \in Seq(Rows), gone \in DOMAIN list, list[gone].id = id,
                    \A n \in DOMAIN list : list[n].id = id => n = gone
             PROVE  \A n \in DOMAIN rest : rest[n].id # id /\ \E m \in DOMAIN list : rest[n] = list[m]
  BY DEF OnlyAt
<1>1. DOMAIN list = 1 .. Len(list) /\ Len(list) \in Nat /\ gone \in 1 .. Len(list)
  BY LenProperties
<1>2. rest = RemoveAt(list, gone)
  BY WithoutIs
<1>3. /\ DOMAIN rest = 1 .. Len(list) - 1
      /\ \A n \in 1 .. Len(list) - 1 : rest[n] = IF n < gone THEN list[n] ELSE list[n + 1]
  BY <1>1, <1>2, RemoveAtIs
<1>4. ASSUME NEW n \in DOMAIN rest PROVE \E m \in DOMAIN list : m # gone /\ rest[n] = list[m]
  <2>1. n \in 1 .. Len(list) - 1 /\ n \in Nat /\ gone \in Nat
    BY <1>1, <1>3
  <2>2. CASE n < gone
    <3>1. n \in DOMAIN list /\ n # gone
      BY <1>1, <2>1, <2>2
    <3>2. rest[n] = list[n]
      BY <1>3, <2>1, <2>2
    <3>3. QED
      BY <3>1, <3>2
  <2>3. CASE ~(n < gone)
    <3>1. n + 1 \in DOMAIN list /\ n + 1 # gone
      BY <1>1, <2>1, <2>3
    <3>2. rest[n] = list[n + 1]
      BY <1>3, <2>1, <2>3
    <3>3. QED
      BY <3>1, <3>2
  <2>4. QED
    BY <2>2, <2>3
<1>5. QED
  BY <1>4

(* What an order's quantity was does not matter once the order is gone. *)
LEMMA WithoutRepriced ==
  ASSUME NEW list, NEW id, NEW gone, OnlyAt(list, id, gone), NEW q \in Nat
  PROVE  Without(WithQty(list, id, q), id) = Without(list, id)
<1> SUFFICES ASSUME list \in Seq(Rows), gone \in DOMAIN list, list[gone].id = id,
                    \A n \in DOMAIN list : list[n].id = id => n = gone
             PROVE  Without(WithQty(list, id, q), id) = Without(list, id)
  BY DEF OnlyAt
<1>1. DOMAIN list = 1 .. Len(list) /\ Len(list) \in Nat /\ gone \in 1 .. Len(list)
      /\ \A n \in DOMAIN list : list[n] \in Rows
  BY LenProperties, ElementOfSeq
<1>2. PICK z : z = WithQty(list, id, q)
  OBVIOUS
<1>3. z = [n \in DOMAIN list |-> IF list[n].id = id THEN [list[n] EXCEPT !.qty = q] ELSE list[n]]
  BY <1>2 DEF WithQty
<1>4. DOMAIN z = DOMAIN list
  BY <1>3
<1>5. \A n \in DOMAIN list : n # gone => z[n] = list[n]
  BY <1>3
<1>6. z[gone] = [list[gone] EXCEPT !.qty = q]
  BY <1>3
<1>7. z[gone] \in Rows /\ z[gone].id = id
  <2>1. PICK r : r = list[gone]
    OBVIOUS
  <2>2. r \in Rows /\ r.id = id /\ z[gone] = [r EXCEPT !.qty = q]
    BY <1>1, <1>6, <2>1
  <2>3. QED
    BY <2>2 DEF Rows
<1>8. \A n \in DOMAIN list : z[n] \in Rows /\ z[n].id = list[n].id
  BY <1>1, <1>5, <1>7
<1>9. z \in [1 .. Len(list) -> Rows]
  BY <1>1, <1>3, <1>4, <1>8
<1>10. z \in Seq(Rows) /\ Len(z) = Len(list)
  <2>1. PICK e : e = Len(list)
    OBVIOUS
  <2>2. e \in Nat /\ z \in [1 .. e -> Rows]
    BY <1>1, <1>9, <2>1
  <2>3. QED
    BY <2>1, <2>2
<1>11. Without(z, id) = RemoveAt(z, gone)
  BY <1>4, <1>7, <1>8, <1>10, WithoutIs
<1>12. Without(list, id) = RemoveAt(list, gone)
  BY WithoutIs
<1>13. PICK u, v, e : u = RemoveAt(z, gone) /\ v = RemoveAt(list, gone) /\ e = Len(list) - 1
  OBVIOUS
<1>14. /\ u \in Seq(Rows) /\ Len(u) = e /\ DOMAIN u = 1 .. e
       /\ \A n \in 1 .. e : u[n] = IF n < gone THEN z[n] ELSE z[n + 1]
  <2>1. z \in Seq(Rows) /\ gone \in 1 .. Len(z) /\ Len(z) - 1 = e
    BY <1>1, <1>10, <1>13
  <2>2. /\ RemoveAt(z, gone) \in Seq(Rows) /\ Len(RemoveAt(z, gone)) = Len(z) - 1
        /\ DOMAIN RemoveAt(z, gone) = 1 .. Len(z) - 1
        /\ \A n \in 1 .. Len(z) - 1 :
             RemoveAt(z, gone)[n] = IF n < gone THEN z[n] ELSE z[n + 1]
    BY ONLY <2>1, RemoveAtIs
  <2>3. QED
    BY ONLY <1>13, <2>1, <2>2
<1>15. /\ v \in Seq(Rows) /\ Len(v) = e /\ DOMAIN v = 1 .. e
       /\ \A n \in 1 .. e : v[n] = IF n < gone THEN list[n] ELSE list[n + 1]
  BY <1>1, <1>13, RemoveAtIs
<1>16. ASSUME NEW n \in 1 .. e PROVE u[n] = v[n]
  <2>1. n \in Nat /\ gone \in Nat
    BY <1>1, <1>13
  <2>2. CASE n < gone
    <3>1. n \in DOMAIN list /\ n # gone
      BY <1>1, <1>13, <2>1, <2>2
    <3>2. QED
      BY <1>5, <1>14, <1>15, <2>2, <3>1
  <2>3. CASE ~(n < gone)
    <3>1. n + 1 \in DOMAIN list /\ n + 1 # gone
      BY <1>1, <1>13, <2>1, <2>3
    <3>2. QED
      BY <1>5, <1>14, <1>15, <2>3, <3>1
  <2>4. QED
    BY <2>2, <2>3
<1>17. u = v
  BY <1>14, <1>15, <1>16, SeqEqual
<1>18. QED
  BY <1>2, <1>11, <1>12, <1>13, <1>17

LEMMA ResetIs ==
  ASSUME NEW b, b = Reset
  PROVE  /\ b \in Books /\ \A h \in Handle : b.slab[h].next = IF h + 1 < kMaxOrders THEN h + 1 ELSE kNull
         /\ \A side \in Sides, slot \in Slot : b.level[side][slot] = NoLevel
         /\ b.best["Buy"] = -1 /\ b.best["Sell"] = kLevels
         /\ b.free_head = 0 /\ \A id \in Id : b.ids[id] = kNull
<1>1. /\ kMaxOrders \in Nat \ {0} /\ kLevels \in Nat \ {0} /\ kNull \notin Handle
      /\ Handle \subseteq Nat /\ 0 \in Slot /\ 0 \in Handle
  BY Sizes
<1>2. \A h \in Handle : h + 1 < kMaxOrders => h + 1 \in Handle
  BY <1>1 DEF Handle
<1>3. ASSUME NEW h \in Handle PROVE (IF h + 1 < kMaxOrders THEN h + 1 ELSE kNull) \in Links
  BY <1>2 DEF Links
<1>4. ASSUME NEW v \in Links
      PROVE  [NoOrder EXCEPT !.next = v] \in OrderRecs /\ [NoOrder EXCEPT !.next = v].next = v
  <2>1. PICK r : r = [NoOrder EXCEPT !.next = v]
    OBVIOUS
  <2>2. r = [id |-> kNull, qty |-> 0, prev |-> kNull, next |-> v, slot |-> 0, side |-> "Buy"]
    BY <2>1 DEF NoOrder
  <2>3. r \in OrderRecs /\ r.next = v
    BY <1>1, <2>2 DEF OrderRecs, Links, Sides
  <2>4. QED
    BY <2>1, <2>3
<1>5. b.slab \in [Handle -> OrderRecs]
  <2>1. b.slab = [h \in Handle |-> [NoOrder EXCEPT !.next = IF h + 1 < kMaxOrders THEN h + 1 ELSE kNull]]
    BY DEF Reset
  <2>2. QED
    BY <1>3, <1>4, <2>1
<1>6. \A h \in Handle : b.slab[h].next = IF h + 1 < kMaxOrders THEN h + 1 ELSE kNull
  <2>1. b.slab = [h \in Handle |-> [NoOrder EXCEPT !.next = IF h + 1 < kMaxOrders THEN h + 1 ELSE kNull]]
    BY DEF Reset
  <2>2. QED
    BY <1>3, <1>4, <2>1
<1>7. NoLevel \in LevelRecs
  BY DEF NoLevel, LevelRecs, Links
<1>8. b.level \in [Sides -> [Slot -> LevelRecs]]
  BY <1>7 DEF Reset, Sides
<1>9. \A side \in Sides, slot \in Slot : b.level[side][slot] = NoLevel
  BY DEF Reset, Sides
<1>10. b.best \in [Sides -> Int] /\ b.best["Buy"] = -1 /\ b.best["Sell"] = kLevels
  BY <1>1 DEF Reset, Sides
<1>11. b.free_head = 0 /\ b.ids = [id \in Id |-> kNull]
  BY DEF Reset
<1>12. b.free_head \in Links /\ b.ids \in [Id -> Links]
  BY <1>1, <1>11 DEF Links
<1>13. b = [slab |-> b.slab, level |-> b.level, best |-> b.best, free_head |-> b.free_head, ids |-> b.ids]
  BY DEF Reset
<1>14. b \in Books
  BY <1>5, <1>8, <1>10, <1>12, <1>13 DEF Books
<1>15. QED
  BY <1>6, <1>9, <1>10, <1>11, <1>14

LEMMA InitKeeps ==
  ASSUME LadderInit PROVE LadderInv
<1>1. /\ kMaxOrders \in Nat \ {0} /\ kLevels \in Nat \ {0} /\ kNull \notin Handle
      /\ Handle \subseteq Nat /\ 0 \in Handle
  BY Sizes
<1>2. /\ book \in Books
      /\ \A h \in Handle : book.slab[h].next = IF h + 1 < kMaxOrders THEN h + 1 ELSE kNull
      /\ \A side \in Sides, slot \in Slot : book.level[side][slot] = NoLevel
      /\ book.best["Buy"] = -1 /\ book.best["Sell"] = kLevels
      /\ book.free_head = 0 /\ \A id \in Id : book.ids[id] = kNull
  BY ResetIs DEF LadderInit
<1>3. orders = << >>
  BY DEF LadderInit
<1>4. LiveIn(book) = {}
  BY <1>1, <1>2 DEF LiveIn
<1>5. \A side, slot : PlaceIn(book, side, slot) = {}
  BY <1>4 DEF PlaceIn
<1>6. NoLevel.qty = 0 /\ NoLevel.head = kNull /\ NoLevel.tail = kNull
  BY DEF NoLevel
<1>7. PICK st : st = [h \in Handle |-> 0]
  OBVIOUS
<1>8. PlacesIn(book, st)
  <2>1. ASSUME NEW side \in Sides, NEW slot \in Slot
        PROVE  /\ Chain(book.slab, PlaceIn(book, side, slot), st, book.level[side][slot].head,
                        book.level[side][slot].tail)
               /\ book.level[side][slot].qty = Total(QtysOf(book), PlaceIn(book, side, slot))
    <3>1. book.level[side][slot].head = kNull /\ book.level[side][slot].tail = kNull
          /\ book.level[side][slot].qty = 0
      BY <1>2, <1>6
    <3>2. PlaceIn(book, side, slot) = {}
      BY <1>5
    <3>3. Chain(book.slab, {}, st, kNull, kNull)
      BY DEF Chain, FirstIn, LastIn
    <3>4. Total(QtysOf(book), {}) = 0
      BY TotalEmpty
    <3>5. QED
      BY <3>1, <3>2, <3>3, <3>4
  <2>2. QED
    BY <2>1 DEF PlacesIn
<1>9. \A side \in Sides : BestIn(book, side)
  <2>1. ASSUME NEW side \in Sides PROVE BestIn(book, side)
    <3>1. HeldIn(book, side) = {}
      BY <1>2, <1>6 DEF HeldIn
    <3>2. BestIs(side, {}, book.best[side])
      <4>1. CASE side = "Buy"
        BY <1>2, <4>1 DEF BestIs
      <4>2. CASE side # "Buy"
        <5>1. side = "Sell"
          BY <4>2 DEF Sides
        <5>2. QED
          BY <1>1, <1>2, <5>1 DEF BestIs
      <4>3. QED
        BY <4>1, <4>2
    <3>3. QED
      BY <3>1, <3>2 DEF BestIn
  <2>2. QED
    BY <2>1
<1>10. MatchIn(book, orders, st)
  <2>1. orders \in Seq(Rows) /\ DOMAIN orders = {}
    BY <1>3
  <2>2. QED
    BY <1>2, <2>1 DEF MatchIn
<1>11. StampsIn(book, st, 0)
  BY <1>4, <1>7 DEF StampsIn
<1>12. PICK k, f : k = kMaxOrders /\ f = [i \in 1 .. kMaxOrders |-> kMaxOrders - i]
  OBVIOUS
<1>13. FreeIn(book, f, k)
  <2>1. k \in Nat /\ k # 0 /\ k = kMaxOrders /\ Handle = 0 .. k - 1
    BY <1>1, <1>12 DEF Handle
  <2>2. f \in [1 .. k -> Handle] /\ \A i \in 1 .. k : f[i] = k - i
    <3>1. f = [i \in 1 .. k |-> k - i]
      BY <1>12
    <3>2. \A i \in 1 .. k : k - i \in Handle
      BY <2>1
    <3>3. QED
      BY <3>1, <3>2
  <2>3. \A i, j \in 1 .. k : f[i] = f[j] => i = j
    BY <2>1, <2>2
  <2>4. \A h \in Handle : \E i \in 1 .. k : f[i] = h
    <3>1. ASSUME NEW h \in Handle PROVE k - h \in 1 .. k /\ k - (k - h) = h
      BY <2>1
    <3>2. QED
      BY <2>2, <3>1
  <2>5. book.free_head = IF k = 0 THEN kNull ELSE f[k]
    <3>1. f[k] = 0
      BY <2>1, <2>2
    <3>2. QED
      BY <1>2, <2>1, <3>1
  <2>6. ASSUME NEW i \in 1 .. k PROVE book.slab[f[i]].next = IF i = 1 THEN kNull ELSE f[i - 1]
    <3>1. PICK h : h = f[i]
      OBVIOUS
    <3>2. h \in Handle /\ h = k - i
      BY <2>2, <3>1
    <3>3. book.slab[h].next = IF h + 1 < k THEN h + 1 ELSE kNull
      BY <1>2, <2>1, <3>2
    <3>4. i = 1 <=> ~(h + 1 < k)
      BY <2>1, <3>2
    <3>5. i # 1 => i - 1 \in 1 .. k /\ k - (i - 1) = h + 1
      BY <2>1, <3>2
    <3>6. i # 1 => f[i - 1] = h + 1
      BY <2>2, <3>5
    <3>7. QED
      BY <3>1, <3>3, <3>4, <3>6
  <2>7. QED
    BY <1>4, <2>1, <2>2, <2>3, <2>4, <2>5, <2>6 DEF FreeIn
<1>14. LadderIn(book, orders, st, 0, f, k)
  BY <1>2, <1>8, <1>9, <1>10, <1>11, <1>13 DEF LadderIn
<1>15. QED
  BY <1>14 DEF LadderInv

LEMMA CancelKeeps ==
  ASSUME LadderInv, NEW id \in Id, Cancel(id) PROVE LadderInv'
<1>1. PICK st, N, f, k : LadderIn(book, orders, st, N, f, k)
  BY DEF LadderInv
<1>2. book.ids[id] # kNull /\ book' = Removed(book, id) /\ orders' = Without(orders, id)
  BY DEF Cancel
<1>3. PICK c, rest : c = book' /\ rest = orders'
  OBVIOUS
<1>4. \E z : LadderIn(c, rest, st, N, z, k + 1)
  BY <1>1, <1>2, <1>3, RemoveKeeps
<1>5. \E z : LadderIn(book', orders', st, N, z, k + 1)
  BY <1>3, <1>4
<1>6. QED
  BY <1>5 DEF LadderInv

LEMMA ReduceKeeps ==
  ASSUME LadderInv, NEW id \in Id, NEW new_qty \in Qty, Reduce(id, new_qty) PROVE LadderInv'
<1>1. PICK st, N, f, k : LadderIn(book, orders, st, N, f, k)
  BY DEF LadderInv
<1>2. PICK b, list, c, rest, h, q, qty :
        /\ b = book /\ list = orders /\ c = book' /\ rest = orders' /\ h = b.ids[id]
        /\ q = b.slab[h].qty /\ qty = q - new_qty
  OBVIOUS
<1>3. /\ b.ids[id] # kNull /\ new_qty < q /\ c = Less(b, h, qty) /\ rest = WithQty(list, id, new_qty)
  BY <1>2 DEF Reduce
<1>4. q \in Nat /\ new_qty \in Nat
  <2>1. q \in Nat
    BY <1>1, <1>2, <1>3, FoundIs
  <2>2. QED
    BY <2>1, Sizes DEF Qty
<1>5. qty \in 0 .. q /\ new_qty = q - qty
  BY <1>2, <1>3, <1>4
<1>6. LadderIn(b, list, st, N, f, k)
  BY <1>1, <1>2
<1>7. LadderIn(c, rest, st, N, f, k)
  <2>1. Lessened(b, list, id, h, q, qty, new_qty, c, rest)
    BY <1>2, <1>3, <1>5 DEF Lessened
  <2>2. QED
    BY ONLY <1>6, <2>1, LessKeeps
<1>8. LadderIn(book', orders', st, N, f, k)
  BY <1>2, <1>7
<1>9. QED
  BY <1>8 DEF LadderInv

LEMMA ExecuteKeeps ==
  ASSUME LadderInv, NEW id \in Id, NEW filled \in Qty, Execute(id, filled) PROVE LadderInv'
<1>1. PICK st, N, f, k : LadderIn(book, orders, st, N, f, k)
  BY DEF LadderInv
<1>2. PICK b, list, h, q, qty, left :
        /\ b = book /\ list = orders /\ h = b.ids[id] /\ q = b.slab[h].qty
        /\ qty = LeastQty(filled, q) /\ left = q - qty
  OBVIOUS
<1>3. PICK c, rest : c = Less(b, h, qty) /\ rest = WithQty(list, id, left)
  OBVIOUS
<1>4. /\ b.ids[id] # kNull
      /\ book' = IF c.slab[h].qty = 0 THEN Removed(c, id) ELSE c
      /\ orders' = IF filled >= QtyOf(list, id) THEN Without(list, id)
                   ELSE WithQty(list, id, QtyOf(list, id) - filled)
  BY <1>2, <1>3 DEF Execute
<1>5. LadderIn(b, list, st, N, f, k)
  BY <1>1, <1>2
<1>6. q \in Nat /\ QtyOf(list, id) = q /\ \E gone : OnlyAt(list, id, gone)
  BY <1>2, <1>4, <1>5, FoundIs
<1>7. filled \in Nat /\ qty = IF filled < q THEN filled ELSE q
  BY <1>2, Sizes DEF Qty, LeastQty
<1>8. qty \in 0 .. q /\ left \in Nat
  BY <1>2, <1>6, <1>7
<1>9. LadderIn(c, rest, st, N, f, k) /\ c.ids = b.ids /\ c.slab[h].qty = left
  <2>1. Lessened(b, list, id, h, q, qty, left, c, rest)
    BY <1>2, <1>3, <1>4, <1>8 DEF Lessened
  <2>2. QED
    BY ONLY <1>5, <2>1, LessKeeps
<1>10. CASE filled >= q
  <2>1. left = 0
    BY <1>2, <1>6, <1>7, <1>10
  <2>2. book' = Removed(c, id) /\ orders' = Without(list, id)
    BY <1>4, <1>6, <1>9, <1>10, <2>1
  <2>3. Without(rest, id) = Without(list, id)
    BY <1>3, <1>6, <1>8, WithoutRepriced
  <2>4. c.ids[id] # kNull
    BY <1>4, <1>9
  <2>5. PICK d, less : d = Removed(c, id) /\ less = Without(rest, id)
    OBVIOUS
  <2>6. \E z : LadderIn(d, less, st, N, z, k + 1)
    BY ONLY <1>9, <2>4, <2>5, RemoveKeeps
  <2>7. \E z : LadderIn(book', orders', st, N, z, k + 1)
    BY <2>2, <2>3, <2>5, <2>6
  <2>8. QED
    BY <2>7 DEF LadderInv
<1>11. CASE ~(filled >= q)
  <2>1. left # 0 /\ left = q - filled
    BY <1>2, <1>6, <1>7, <1>11
  <2>2. book' = c /\ orders' = rest
    BY <1>3, <1>4, <1>6, <1>9, <1>11, <2>1
  <2>3. LadderIn(book', orders', st, N, f, k)
    BY <1>9, <2>2
  <2>4. QED
    BY <2>3 DEF LadderInv
<1>12. QED
  BY <1>10, <1>11

LEMMA PlaceAdded ==
  ASSUME LadderInv, NEW id \in Id, NEW side \in Sides, NEW px \in Price, NEW qty \in Qty,
         Add(id, side, px, qty)
  PROVE  LadderInv'
<1> DEFINE slot == SlotOf(px)
<1>1. PICK st, N, f, k : LadderIn(book, orders, st, N, f, k)
  BY DEF LadderInv
<1>2. CASE Refuses(book, slot)
  <2>1. book' = book /\ orders' = orders
    BY <1>2 DEF Add, ladder
  <2>2. LadderIn(book', orders', st, N, f, k)
    BY <1>1, <2>1
  <2>3. QED
    BY <2>2 DEF LadderInv
<1>3. CASE ~Refuses(book, slot)
  <2>1. PICK c, rest : c = book' /\ rest = orders'
    OBVIOUS
  <2>2. /\ id \notin Ids(orders) /\ c = Added(book, id, side, slot, qty)
        /\ rest = Append(orders, Resting(id, side, px, qty))
    BY <1>3, <2>1 DEF Add
  <2>3. \A n \in DOMAIN orders : orders[n].id # id
    BY <2>2 DEF Ids
  <2>4. slot \in Slot /\ book.free_head # kNull /\ qty \in Nat
    BY <1>3, Sizes DEF Refuses, Qty
  <2>5. PICK place : place = slot
    OBVIOUS
  <2>6. place \in Slot /\ place = SlotOf(px) /\ c = Added(book, id, side, place, qty)
    BY <2>2, <2>4, <2>5
  <2>7. \E u, z : LadderIn(c, rest, u, N + 1, z, k - 1)
    BY ONLY <1>1, <2>2, <2>3, <2>4, <2>6, AddKeeps
  <2>8. \E u, z : LadderIn(book', orders', u, N + 1, z, k - 1)
    BY <2>1, <2>7
  <2>9. QED
    BY <2>8 DEF LadderInv
<1>4. QED
  BY <1>2, <1>3

LEMMA ReplaceKeeps ==
  ASSUME LadderInv, NEW id \in Id, NEW new_id \in Id, NEW px \in Price, NEW qty \in Qty,
         Replace(id, new_id, px, qty)
  PROVE  LadderInv'
<1>1. PICK st, N, f, k : LadderIn(book, orders, st, N, f, k)
  BY DEF LadderInv
<1>2. PICK side, b, rest, slot :
        /\ side = book.slab[book.ids[id]].side /\ b = Removed(book, id)
        /\ rest = Without(orders, id) /\ slot = SlotOf(px)
  OBVIOUS
<1>3. /\ book.ids[id] # kNull /\ new_id \notin Ids(orders) \ {id}
      /\ book' = IF Refuses(b, slot) THEN b ELSE Added(b, new_id, side, slot, qty)
      /\ orders' = IF slot \notin Slot THEN rest
                   ELSE Append(rest, Resting(new_id, SideOf(orders, id), px, qty))
  BY <1>2 DEF Replace
<1>4. side \in Sides /\ SideOf(orders, id) = side /\ \E gone : OnlyAt(orders, id, gone)
  BY <1>1, <1>2, <1>3, FoundIs
<1>5. PICK z : LadderIn(b, rest, st, N, z, k + 1)
  BY <1>1, <1>2, <1>3, RemoveKeeps
<1>6. b.free_head # kNull
  <2>1. FreeIn(b, z, k + 1) /\ FreeIn(book, f, k)
    BY <1>1, <1>5 DEF LadderIn
  <2>2. k \in Nat
    BY <2>1 DEF FreeIn
  <2>3. k + 1 # 0 /\ k + 1 \in 1 .. k + 1
    BY <2>2
  <2>4. b.free_head = z[k + 1] /\ z[k + 1] \in Handle
    BY <2>1, <2>3 DEF FreeIn
  <2>5. QED
    BY <2>4, Sizes
<1>7. CASE slot \notin Slot
  <2>1. book' = b /\ orders' = rest
    BY <1>3, <1>7 DEF Refuses
  <2>2. LadderIn(book', orders', st, N, z, k + 1)
    BY <1>5, <2>1
  <2>3. QED
    BY <2>2 DEF LadderInv
<1>8. CASE slot \in Slot
  <2>1. PICK c, list : c = book' /\ list = orders'
    OBVIOUS
  <2>2. c = Added(b, new_id, side, slot, qty) /\ list = Append(rest, Resting(new_id, side, px, qty))
    BY <1>3, <1>4, <1>6, <1>8, <2>1 DEF Refuses
  <2>3. \A n \in DOMAIN rest : rest[n].id # new_id
    <3>1. PICK gone : OnlyAt(orders, id, gone)
      BY <1>4
    <3>2. \A n \in DOMAIN rest : rest[n].id # id /\ \E m \in DOMAIN orders : rest[n] = orders[m]
      BY <1>2, <3>1, WithoutHas
    <3>3. \A m \in DOMAIN orders : orders[m].id = new_id => new_id = id
      BY <1>3 DEF Ids
    <3>4. QED
      BY <3>2, <3>3
  <2>4. qty \in Nat
    BY Sizes DEF Qty
  <2>5. \E w, v, e : LadderIn(c, list, w, N + 1, v, e)
    <3>1. PICK e : e = k + 1
      OBVIOUS
    <3>2. LadderIn(b, rest, st, N, z, e) /\ new_id \in Id
      BY <1>5, <3>1
    <3>3. \E w, v : LadderIn(c, list, w, N + 1, v, e - 1)
      BY ONLY <1>2, <1>4, <1>6, <1>8, <2>2, <2>3, <2>4, <3>2, AddKeeps
    <3>4. QED
      BY <3>3
  <2>6. \E w, v, e : LadderIn(book', orders', w, N + 1, v, e)
    BY <2>1, <2>5
  <2>7. QED
    BY <2>6 DEF LadderInv
<1>9. QED
  BY <1>7, <1>8

LEMMA NextKeeps ==
  ASSUME LadderInv, [LadderNext]_ladder PROVE LadderInv'
<1>1. ASSUME NEW id \in Id, Cancel(id) PROVE LadderInv'
  BY <1>1, CancelKeeps
<1>2. ASSUME NEW id \in Id, NEW qty \in Qty, Execute(id, qty) PROVE LadderInv'
  BY <1>2, ExecuteKeeps
<1>3. ASSUME NEW id \in Id, NEW qty \in Qty, Reduce(id, qty) PROVE LadderInv'
  BY <1>3, ReduceKeeps
<1>4. ASSUME NEW id \in Id, NEW qty \in Qty, NEW px \in Price, NEW side \in Sides,
             Add(id, side, px, qty)
      PROVE  LadderInv'
  BY <1>4, PlaceAdded
<1>5. ASSUME NEW id \in Id, NEW qty \in Qty, NEW px \in Price, NEW new_id \in Id,
             Replace(id, new_id, px, qty)
      PROVE  LadderInv'
  BY <1>5, ReplaceKeeps
<1>6. CASE UNCHANGED ladder
  <2>1. PICK st, N, f, k : LadderIn(book, orders, st, N, f, k)
    BY DEF LadderInv
  <2>2. book' = book /\ orders' = orders
    BY <1>6 DEF ladder
  <2>3. LadderIn(book', orders', st, N, f, k)
    BY <2>1, <2>2
  <2>4. QED
    BY <2>3 DEF LadderInv
<1>7. QED
  BY <1>1, <1>2, <1>3, <1>4, <1>5, <1>6 DEF LadderNext, Sides

(* The walk down the free list. *)
Stepped(w) == IF Last(w) = kNull THEN w ELSE Append(w, book.slab[Last(w)].next)
Walks == {w \in Seq(Links) : w # << >>}
WalkAt(f, k, w, j) ==
  LET m == IF j < k THEN j ELSE k
  IN /\ w \in Walks /\ Len(w) = m + 1
     /\ \A i \in 1 .. m + 1 : w[i] = IF i <= k THEN f[k + 1 - i] ELSE kNull

LEMMA WalkClosed ==
  ASSUME book \in Books, NEW w \in Walks PROVE Stepped(w) \in Walks
<1>1. w \in Seq(Links) /\ w # << >> /\ Len(w) \in Nat
  BY DEF Walks
<1>2. Len(w) # 0 /\ Len(w) \in 1 .. Len(w)
  BY <1>1
<1>3. PICK v : v = w[Len(w)]
  OBVIOUS
<1>4. v \in Links /\ Last(w) = v
  BY <1>1, <1>2, <1>3 DEF Last
<1>5. CASE v = kNull
  BY <1>4, <1>5 DEF Stepped
<1>6. CASE v # kNull
  <2>1. v \in Handle
    BY <1>4, <1>6 DEF Links
  <2>2. PICK t : t = book.slab[v].next
    OBVIOUS
  <2>3. t \in Links
    BY <2>1, <2>2, BookIs, OrderIs
  <2>4. Stepped(w) = Append(w, t)
    BY <1>4, <1>6, <2>2 DEF Stepped
  <2>5. Append(w, t) \in Seq(Links) /\ Append(w, t) # << >>
    BY <1>1, <2>3
  <2>6. QED
    BY <2>4, <2>5 DEF Walks
<1>7. QED
  BY <1>5, <1>6

LEMMA WalkTurn ==
  ASSUME NEW f, NEW k, FreeIn(book, f, k), book \in Books, NEW w, NEW j \in Nat, WalkAt(f, k, w, j)
  PROVE  WalkAt(f, k, Stepped(w), j + 1)
<1>1. PICK m : m = IF j < k THEN j ELSE k
  OBVIOUS
<1>2. /\ w \in Walks /\ w \in Seq(Links) /\ Len(w) = m + 1
      /\ \A i \in 1 .. m + 1 : w[i] = IF i <= k THEN f[k + 1 - i] ELSE kNull
  BY <1>1 DEF WalkAt, Walks
<1>3. /\ k \in Nat /\ f \in [1 .. k -> Handle]
      /\ \A i \in 1 .. k : book.slab[f[i]].next = IF i = 1 THEN kNull ELSE f[i - 1]
  BY DEF FreeIn
<1>4. m \in Nat /\ m <= k /\ m + 1 \in 1 .. m + 1
  BY <1>1, <1>3
<1>5. Stepped(w) \in Walks
  BY <1>2, WalkClosed
<1>6. Last(w) = w[m + 1]
  BY <1>2 DEF Last
<1>7. CASE j < k
  <2>1. m = j /\ m + 1 <= k /\ k - m \in 1 .. k /\ k + 1 - (m + 1) = k - m
    BY <1>1, <1>3, <1>7
  <2>2. Last(w) = f[k - m]
    BY <1>2, <1>4, <1>6, <2>1
  <2>3. f[k - m] \in Handle
    BY <1>3, <2>1
  <2>4. Last(w) # kNull
    BY <2>2, <2>3, Sizes
  <2>5. PICK t : t = book.slab[Last(w)].next
    OBVIOUS
  <2>6. Stepped(w) = Append(w, t)
    BY <2>4, <2>5 DEF Stepped
  <2>7. t = IF k - m = 1 THEN kNull ELSE f[k - m - 1]
    BY <1>3, <2>1, <2>2, <2>5
  <2>8. PICK u : u = Append(w, t)
    OBVIOUS
  <2>9. Len(u) = m + 2 /\ u[m + 2] = t /\ \A i \in 1 .. m + 1 : u[i] = w[i]
    BY <1>2, <1>4, <2>8
  <2>10. t = IF m + 2 <= k THEN f[k + 1 - (m + 2)] ELSE kNull
    <3>1. k - m = 1 <=> ~(m + 2 <= k)
      BY <1>3, <1>4, <2>1
    <3>2. k + 1 - (m + 2) = k - m - 1
      BY <1>3, <1>4
    <3>3. QED
      BY <2>7, <3>1, <3>2
  <2>11. \A i \in 1 .. m + 2 : u[i] = IF i <= k THEN f[k + 1 - i] ELSE kNull
    <3>1. \A i \in 1 .. m + 2 : i = m + 2 \/ i \in 1 .. m + 1
      BY <1>4
    <3>2. QED
      BY <1>2, <2>9, <2>10, <3>1
  <2>12. PICK r : r = IF j + 1 < k THEN j + 1 ELSE k
    OBVIOUS
  <2>13. r = m + 1 /\ r + 1 = m + 2
    <3>1. k \in Nat /\ j \in Nat /\ m = j /\ j < k /\ r = IF j + 1 < k THEN j + 1 ELSE k
      BY <1>3, <1>7, <2>1, <2>12
    <3>2. QED
      BY ONLY <3>1
  <2>14. u \in Walks
    BY <1>5, <2>6, <2>8
  <2>15. Len(u) = r + 1 /\ \A i \in 1 .. r + 1 : u[i] = IF i <= k THEN f[k + 1 - i] ELSE kNull
    BY <2>9, <2>11, <2>13
  <2>16. QED
    BY <2>6, <2>8, <2>12, <2>14, <2>15 DEF WalkAt
<1>8. CASE ~(j < k)
  <2>1. m = k /\ ~(j + 1 < k) /\ ~(m + 1 <= k)
    BY <1>1, <1>3, <1>8
  <2>2. Last(w) = kNull
    BY <1>2, <1>4, <1>6, <2>1
  <2>3. Stepped(w) = w
    BY <2>2 DEF Stepped
  <2>4. QED
    BY <1>2, <2>1, <2>3 DEF WalkAt
<1>9. QED
  BY <1>7, <1>8

LEMMA WalkIs ==
  ASSUME NEW f, NEW k, FreeIn(book, f, k), book \in Books, NEW n, n = kMaxOrders,
         NEW z, z = Walk(book.free_head)
  PROVE  WalkAt(f, k, z, n)
<1> DEFINE D == 1 .. n
           e == <<book.free_head>>
           ch == [c \in SUBSET D |-> Max(c)]
           F == [p_ \in D \X Walks |-> Stepped(p_[2])]
           Is(W) == W = [c \in SUBSET D |-> IF c = {} THEN e
                            ELSE LET i == Max(c) IN Stepped(W[c \ {i}])]
           Table == CHOOSE W : Is(W)
           g == [j \in 0 .. n |-> Table[1 .. j]]
<1>1. n \in Nat /\ IsFiniteSet(D) /\ e \in Walks
  <2>1. n \in Nat /\ IsFiniteSet(D)
    BY Sizes, FS_Interval
  <2>2. book.free_head \in Links
    BY BookIs
  <2>3. QED
    BY <2>1, <2>2 DEF Walks
<1>2. z = Table[D]
  BY DEF Walk, Stepped, FoldLeft, MapThenFoldSet
<1>3. \A c \in SUBSET D : c # {} => ch[c] \in c
  BY <1>1, LastTaken
<1>4. \A i \in D, v \in Walks : F[<<i, v>>] \in Walks /\ F[<<i, v>>] = Stepped(v)
  BY WalkClosed
<1>5. \A c \in SUBSET D : ch[c] = Max(c)
  OBVIOUS
<1> HIDE DEF D, F, ch, e
<1>6. PICK W \in [SUBSET D -> Walks] : IsFold(W, D, e, F, ch)
  <2>1. \A i \in D, v \in Walks : F[<<i, v>>] \in Walks
    BY <1>4
  <2> HIDE DEF Is
  <2>2. QED
    BY <1>1, <1>3, <2>1, FoldTableExists
<1>7. Is(W)
  <2>1. ASSUME NEW c \in SUBSET D, c # {}
        PROVE  F[<<ch[c], W[c \ {ch[c]}]>>] = Stepped(W[c \ {Max(c)}])
    <3>1. ch[c] \in D /\ W[c \ {ch[c]}] \in Walks
      BY <1>3, <2>1
    <3>2. QED
      BY <1>4, <1>5, <3>1
  <2>2. [c \in SUBSET D |-> IF c = {} THEN e ELSE F[<<ch[c], W[c \ {ch[c]}]>>]]
          = [c \in SUBSET D |-> IF c = {} THEN e ELSE LET i == Max(c) IN Stepped(W[c \ {i}])]
    BY <2>1
  <2>3. QED
    BY <1>6, <2>2 DEF IsFold
<1>8. Is(Table)
  <2> HIDE DEF Is
  <2>1. QED
    BY <1>7
<1> HIDE DEF Table
<1>9. g[0] = e /\ g[n] = Table[D]
  <2>1. {} \in SUBSET D /\ 1 .. 0 = {} /\ 0 \in 0 .. n /\ n \in 0 .. n
    BY <1>1
  <2>2. Table[{}] = e
    BY <1>8, <2>1
  <2>3. QED
    BY <2>1, <2>2 DEF D
<1>10. ASSUME NEW j \in 1 .. n PROVE g[j] = Stepped(g[j - 1])
  <2>1. /\ j \in Nat /\ j # 0 /\ j \in 0 .. n /\ j - 1 \in 0 .. n /\ 1 .. j \in SUBSET D
    BY <1>1 DEF D
  <2>2. Max(1 .. j) = j /\ (1 .. j) \ {j} = 1 .. j - 1 /\ 1 .. j # {}
    BY <2>1, Intervals
  <2>3. Table[1 .. j] = Stepped(Table[(1 .. j) \ {Max(1 .. j)}])
    BY <1>8, <2>1, <2>2
  <2>4. Table[1 .. j] = Stepped(Table[1 .. j - 1])
    BY <2>2, <2>3
  <2>5. QED
    BY <2>1, <2>4
<1> HIDE DEF g
<1> DEFINE P == {j \in 0 .. n : WalkAt(f, k, g[j], j)}
<1>11. 0 \in P
  <2>1. k \in Nat /\ book.free_head = IF k = 0 THEN kNull ELSE f[k]
    BY DEF FreeIn
  <2>2. PICK m : m = IF 0 < k THEN 0 ELSE k
    OBVIOUS
  <2>3. m = 0 /\ (1 <= k <=> k # 0) /\ k + 1 - 1 = k
    BY <2>1, <2>2
  <2>4. Len(e) = m + 1 /\ e[1] = book.free_head /\ 1 .. m + 1 = {1}
    BY <2>3 DEF e
  <2>5. \A i \in 1 .. m + 1 : e[i] = IF i <= k THEN f[k + 1 - i] ELSE kNull
    BY <2>1, <2>3, <2>4
  <2>6. WalkAt(f, k, e, 0)
    BY <1>1, <2>2, <2>4, <2>5 DEF WalkAt
  <2>7. 0 \in 0 .. n
    BY <1>1
  <2>8. QED
    BY <1>9, <2>6, <2>7
<1>12. ASSUME NEW j \in 0 .. n - 1, j \in P PROVE j + 1 \in P
  <2>1. PICK w : w = g[j] /\ WalkAt(f, k, w, j)
    BY <1>12
  <2>2. j \in Nat /\ j + 1 \in 1 .. n /\ j + 1 \in 0 .. n /\ (j + 1) - 1 = j
    BY <1>1
  <2>3. WalkAt(f, k, Stepped(w), j + 1)
    BY <2>1, <2>2, WalkTurn
  <2>4. g[j + 1] = Stepped(w)
    BY <1>10, <2>1, <2>2
  <2>5. QED
    BY <2>2, <2>3, <2>4
<1> HIDE DEF P
<1>13. \A j \in 0 .. n : j \in P
  BY <1>1, <1>11, <1>12, Upward
<1>14. n \in P
  BY <1>1, <1>13
<1>15. QED
  BY <1>2, <1>9, <1>14 DEF P

LEMMA SlabThen ==
  ASSUME NEW st, NEW N, NEW f, NEW k, LadderIn(book, orders, st, N, f, k)
  PROVE  SlabTotals
<1>1. FreeIn(book, f, k) /\ book \in Books
  BY DEF LadderIn
<1>2. /\ k \in Nat /\ f \in [1 .. k -> Handle] /\ \A i, j \in 1 .. k : f[i] = f[j] => i = j
      /\ \A h \in Handle : h \notin LiveIn(book) <=> \E i \in 1 .. k : f[i] = h
  BY <1>1 DEF FreeIn
<1>3. kMaxOrders \in Nat /\ IsFiniteSet(Handle) /\ Cardinality(Handle) = kMaxOrders /\ kNull \notin Handle
  BY Sizes
<1>4. IsFiniteSet(1 .. k) /\ Cardinality(1 .. k) = k
  <2>1. /\ IsFiniteSet(1 .. k)
        /\ Cardinality(1 .. k) = IF 1 > k THEN 0 ELSE k - 1 + 1
    BY <1>2, FS_Interval
  <2>2. QED
    BY <1>2, <2>1
<1>5. k <= kMaxOrders
  <2>1. f \in Injection(1 .. k, Handle)
    BY <1>2 DEF Injection, IsInjective
  <2>2. Cardinality(1 .. k) <= Cardinality(Handle)
    BY <1>3, <2>1, FS_Injection
  <2>3. QED
    BY <1>3, <1>4, <2>2
<1>6. PICK n, z : n = kMaxOrders /\ z = Walk(book.free_head)
  OBVIOUS
<1>7. WalkAt(f, k, z, n)
  BY <1>1, <1>6, WalkIs
<1>8. /\ z \in Seq(Links) /\ Len(z) = k + 1
      /\ \A i \in 1 .. k + 1 : z[i] = IF i <= k THEN f[k + 1 - i] ELSE kNull
  <2>1. (IF n < k THEN n ELSE k) = k
    BY <1>2, <1>3, <1>5, <1>6
  <2>2. QED
    BY <1>7, <2>1 DEF WalkAt, Walks
<1>9. DOMAIN z = 1 .. k + 1
  BY <1>8, LenProperties
<1>10. Last(z) = kNull
  <2>1. k + 1 \in 1 .. k + 1 /\ ~(k + 1 <= k)
    BY <1>2
  <2>2. QED
    BY <1>8, <2>1 DEF Last
<1>11. PICK E : E = {z[i] : i \in DOMAIN z} \ {kNull}
  OBVIOUS
<1>12. E = {f[i] : i \in 1 .. k}
  <2>1. ASSUME NEW i \in 1 .. k PROVE f[i] \in E
    <3>1. k + 1 - i \in 1 .. k + 1 /\ k + 1 - i <= k /\ k + 1 - (k + 1 - i) = i
      BY <1>2
    <3>2. z[k + 1 - i] = f[i]
      BY <1>8, <3>1
    <3>3. f[i] # kNull
      BY <1>2, <1>3
    <3>4. QED
      BY <1>9, <1>11, <3>1, <3>2, <3>3
  <2>2. ASSUME NEW v \in E PROVE \E i \in 1 .. k : f[i] = v
    <3>1. PICK i \in 1 .. k + 1 : z[i] = v /\ v # kNull
      BY <1>9, <1>11
    <3>2. i <= k
      BY <1>8, <3>1
    <3>3. k + 1 - i \in 1 .. k
      BY <1>2, <3>1, <3>2
    <3>4. f[k + 1 - i] = v
      BY <1>8, <3>1, <3>2
    <3>5. QED
      BY <3>3, <3>4
  <2>3. QED
    BY <2>1, <2>2
<1>13. Cardinality(E) = k
  <2>1. f \in Surjection(1 .. k, E) /\ f \in Injection(1 .. k, E)
    BY <1>2, <1>12 DEF Surjection, Injection, IsInjective
  <2>2. Cardinality(E) = Cardinality(1 .. k)
    BY <1>4, <2>1, FS_Surjection
  <2>3. QED
    BY <1>4, <2>2
<1>14. E = Handle \ {book.ids[id] : id \in Id}
  <2>1. E \subseteq Handle
    BY <1>2, <1>12
  <2>2. \A h \in Handle : h \in E <=> h \notin LiveIn(book)
    BY <1>2, <1>12
  <2>3. \A h \in Handle : h \in LiveIn(book) <=> h \in {book.ids[id] : id \in Id}
    BY DEF LiveIn
  <2>4. QED
    BY <2>1, <2>2, <2>3
<1>15. Cardinality(E) = Len(z) - 1
  BY <1>2, <1>8, <1>13
<1>16. QED
  BY <1>6, <1>10, <1>11, <1>14, <1>15 DEF SlabTotals

(* Whatever is added, executed, reduced, cancelled and replaced, at whatever prices: the links *)
(* of every level lead through its orders oldest first, the best slots and the quantities are  *)
(* those of the list of the resting orders, and the free entries and the taken ones make up    *)
(* the slab.  That a level holds only orders of its price is another matter: see below.        *)
THEOREM LadderAlwaysExact == LadderSpec => []LadderExact
<1>1. LadderInit => LadderInv
  BY InitKeeps
<1>2. LadderInv /\ [LadderNext]_ladder => LadderInv'
  BY NextKeeps
<1>3. LadderInv => LadderExact
  <2>1. SUFFICES ASSUME LadderInv PROVE LadderExact
    OBVIOUS
  <2>2. PICK st, N, f, k : LadderIn(book, orders, st, N, f, k)
    BY <2>1 DEF LadderInv
  <2>3. TimePriority
    BY <2>2, LinkedThen DEF TimePriority, Sides
  <2>4. AgreesWithReference
    BY <2>2, AgreesThen
  <2>5. SlabTotals
    BY <2>2, SlabThen
  <2>6. QED
    BY <2>3, <2>4, <2>5 DEF LadderExact
<1>4. QED
  BY <1>1, <1>2, <1>3, PTL DEF LadderSpec

(* Each order of a list has the slot add made of its price. *)
Filed(list) == \A n \in DOMAIN list : list[n].slot = SlotOf(list[n].px)

LEMMA FiledAfterAppend ==
  ASSUME NEW list \in Seq(Rows), Filed(list),
         NEW id, NEW side, NEW px, NEW qty, NEW rest, rest = Append(list, Resting(id, side, px, qty))
  PROVE  Filed(rest)
<1>1. PICK r, e : r = Resting(id, side, px, qty) /\ e = Len(list)
  OBVIOUS
<1>2. r.px = px /\ r.slot = SlotOf(px)
  BY <1>1 DEF Resting
<1>3. e \in Nat /\ DOMAIN list = 1 .. e /\ DOMAIN rest = 1 .. e + 1 /\ rest[e + 1] = r
      /\ \A n \in 1 .. e : rest[n] = list[n]
  BY <1>1, AppendProperties, LenProperties
<1>4. \A n \in 1 .. e + 1 : n = e + 1 \/ n \in 1 .. e
  BY <1>3
<1>5. QED
  BY <1>2, <1>3, <1>4 DEF Filed

LEMMA FiledAfterWithQty ==
  ASSUME NEW list \in Seq(Rows), Filed(list),
         NEW id, NEW qty, NEW rest, rest = WithQty(list, id, qty)
  PROVE  Filed(rest)
<1>1. DOMAIN rest = DOMAIN list
  BY DEF WithQty
<1>2. ASSUME NEW n \in DOMAIN list PROVE rest[n].slot = list[n].slot /\ rest[n].px = list[n].px
  <2>1. PICK r, w : r = list[n] /\ w = [r EXCEPT !.qty = qty]
    OBVIOUS
  <2>2. r \in Rows
    BY <2>1, ElementOfSeq, LenProperties
  <2>3. w.slot = r.slot /\ w.px = r.px
    BY <2>1, <2>2 DEF Rows
  <2>4. rest[n] = IF r.id = id THEN w ELSE r
    BY <2>1 DEF WithQty
  <2>5. QED
    BY <2>1, <2>3, <2>4
<1>3. QED
  BY <1>1, <1>2 DEF Filed

LEMMA FiledAfterWithout ==
  ASSUME LadderInv, Filed(orders), NEW id \in Id, book.ids[id] # kNull,
         NEW rest, rest = Without(orders, id)
  PROVE  /\ Filed(rest)
         /\ \E b, st, N, z, k : LadderIn(b, rest, st, N, z, k)
<1>1. PICK st, N, f, k : LadderIn(book, orders, st, N, f, k)
  BY DEF LadderInv
<1>2. PICK gone : OnlyAt(orders, id, gone)
  BY <1>1, FoundIs
<1>3. \A n \in DOMAIN rest : \E m \in DOMAIN orders : rest[n] = orders[m]
  BY <1>2, WithoutHas
<1>4. PICK b : b = Removed(book, id)
  OBVIOUS
<1>5. \E z : LadderIn(b, rest, st, N, z, k + 1)
  BY <1>1, <1>4, RemoveKeeps
<1>6. QED
  BY <1>3, <1>5 DEF Filed

LEMMA FiledKept == LadderInv /\ Filed(orders) /\ [LadderNext]_ladder => Filed(orders)'
<1> SUFFICES ASSUME LadderInv, Filed(orders), [LadderNext]_ladder PROVE Filed(orders')
  OBVIOUS
<1>1. orders \in Seq(Rows)
  BY DEF LadderInv, LadderIn, MatchIn
<1>2. PICK new : new = orders'
  OBVIOUS
<1>3. Filed(orders)
  OBVIOUS
<1>4. ASSUME NEW id \in Id, Cancel(id) PROVE Filed(new)
  BY <1>2, <1>4, FiledAfterWithout DEF Cancel
<1>5. ASSUME NEW id \in Id, NEW qty \in Qty, Execute(id, qty) PROVE Filed(new)
  <2>1. CASE new = Without(orders, id)
    BY <1>5, <2>1, FiledAfterWithout DEF Execute
  <2>2. CASE new = WithQty(orders, id, QtyOf(orders, id) - qty)
    BY <1>1, <1>3, <2>2, FiledAfterWithQty
  <2>3. QED
    BY <1>2, <1>5, <2>1, <2>2 DEF Execute
<1>6. ASSUME NEW id \in Id, NEW qty \in Qty, Reduce(id, qty) PROVE Filed(new)
  <2>1. new = WithQty(orders, id, qty)
    BY <1>2, <1>6 DEF Reduce
  <2>2. QED
    BY <1>1, <1>3, <2>1, FiledAfterWithQty
<1>7. ASSUME NEW id \in Id, NEW side \in Sides, NEW px \in Price, NEW qty \in Qty,
             Add(id, side, px, qty)
      PROVE  Filed(new)
  <2>1. new = orders \/ new = Append(orders, Resting(id, side, px, qty))
    BY <1>2, <1>7 DEF Add, ladder
  <2>2. CASE new = Append(orders, Resting(id, side, px, qty))
    BY <1>1, <1>3, <2>2, FiledAfterAppend
  <2>3. QED
    BY <1>3, <2>1, <2>2
<1>8. ASSUME NEW id \in Id, NEW new_id \in Id, NEW px \in Price, NEW qty \in Qty,
             Replace(id, new_id, px, qty)
      PROVE  Filed(new)
  <2>1. PICK rest, side : rest = Without(orders, id) /\ side = SideOf(orders, id)
    OBVIOUS
  <2>2. book.ids[id] # kNull /\ (new = rest \/ new = Append(rest, Resting(new_id, side, px, qty)))
    BY <1>2, <1>8, <2>1 DEF Replace
  <2>3. Filed(rest) /\ rest \in Seq(Rows)
    BY <2>1, <2>2, FiledAfterWithout DEF LadderIn, MatchIn
  <2>4. CASE new = Append(rest, Resting(new_id, side, px, qty))
    BY <2>3, <2>4, FiledAfterAppend
  <2>5. QED
    BY <2>2, <2>3, <2>4
<1>9. ASSUME UNCHANGED ladder PROVE Filed(new)
  <2>1. new = orders
    BY <1>2, <1>9 DEF ladder
  <2>2. QED
    BY <1>3, <2>1
<1>10. Filed(new)
  BY <1>4, <1>5, <1>6, <1>7, <1>8, <1>9 DEF LadderNext, Sides
<1>11. QED
  BY <1>2, <1>10

(* Prices whose distance from base_ fits the word. *)
PricesFit == Price \subseteq - (IntWord \div 2) .. IntWord - 1 - IntWord \div 2

LEMMA FittingSlot ==
  ASSUME PricesFit, NEW px \in Price PROVE SlotOf(px) = px
<1>1. PICK half : half = IntWord \div 2
  OBVIOUS
<1>2. IntWord \in Nat \ {0} /\ px \in Int /\ half \in Int
  <2>1. IntWord \in Nat \ {0} /\ Price \subseteq Int
    BY LadderAssumption
  <2>2. IntWord \div 2 \in Int
    BY <2>1
  <2>3. QED
    BY <1>1, <2>1, <2>2
<1>3. px + half \in 0 .. 2 * IntWord - 1 /\ px + half < IntWord
  <2>1. px \in - half .. IntWord - 1 - half
    BY <1>1 DEF PricesFit
  <2>2. QED
    BY ONLY <1>2, <2>1
<1>4. (px + half) % IntWord = px + half
  BY <1>2, <1>3, Cyclic
<1>5. QED
  BY <1>1, <1>2, <1>4 DEF SlotOf

(* The cast is the only way out of the window: as long as the distance of every price  *)
(* from base_ fits the word add casts it to, no order rests that has a price outside   *)
(* the window, whatever is added and replaced.  Run ladder_alias shows one that does.  *)
THEOREM FittingPricesKeepWindow == PricesFit => (LadderSpec => []WindowKept)
<1> SUFFICES ASSUME PricesFit PROVE LadderSpec => []WindowKept
  OBVIOUS
<1> DEFINE Inv == LadderInv /\ Filed(orders)
<1>1. LadderInit => Inv
  <2>1. LadderInit => Filed(orders)
    BY DEF LadderInit, Filed
  <2>2. QED
    BY <2>1, InitKeeps
<1>2. Inv /\ [LadderNext]_ladder => Inv'
  BY NextKeeps, FiledKept
<1>3. Inv => WindowKept
  <2>1. SUFFICES ASSUME LadderInv, Filed(orders), NEW n \in DOMAIN orders PROVE orders[n].px \in Slot
    BY DEF WindowKept
  <2>2. orders \in Seq(Rows)
    BY <2>1 DEF LadderInv, LadderIn, MatchIn
  <2>3. orders[n] \in Rows
    BY <2>2, ElementOfSeq, LenProperties
  <2>4. orders[n].px \in Price /\ orders[n].slot \in Slot
    BY <2>3 DEF Rows
  <2>5. SlotOf(orders[n].px) = orders[n].px
    BY <2>4, FittingSlot
  <2>6. QED
    BY <2>1, <2>4, <2>5 DEF Filed
<1> HIDE DEF Inv
<1>4. QED
  BY <1>1, <1>2, <1>3, PTL DEF LadderSpec
=============================================================================
